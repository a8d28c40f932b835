\* One attribute of some thousands, or a few in any order and cut off anywhere.
SPECIFICATION Spec
CONSTANTS
    Attribute <- MCAttribute
    Few <- MCFew
    MaxReceived = 2
    BufferSize = 80
CHECK_DEADLOCK FALSE
PROPERTIES
    PsmIsFirst
    ReportFromList
    ReportAsDeclared
