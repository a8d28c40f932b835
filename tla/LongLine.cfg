\* A line longer than the buffer ends with the text of a request.
SPECIFICATION Spec
CONSTANTS
    scan = scan
    connect = connect
    Blank = Blank
    NoRequest = NoRequest
    Request = {scan, connect}
    Addressed = {connect}
    Char = {scan, connect, Blank}
    BufferSize = 3
    ReadSize = 2
    Capacity = 2
    MaxTyped = 5
PROPERTIES
    WholeLinesOnly
