\* Three connections for two records, so that one is accepted while another is
\* closing; requests of up to three parts, three polls; nothing typed on the CDC line.
SPECIFICATION FairWebSpec
CONSTANTS
    scan = scan
    connect = connect
    p1 = p1
    p2 = p2
    p3 = p3
    Blank = Blank
    NoRequest = NoRequest
    Request = {scan}
    Addressed = {}
    Char = {}
    BufferSize = 1
    ReadSize = 0
    Capacity = 1
    MaxTyped = 0
    Pcb = {p1, p2, p3}
    NoPcb = NoPcb
    NoClient = NoClient
    MaxClients = 2
    MaxPolls = 3
    RequestSize = 3
INVARIANTS
    ClientsMatch
PROPERTIES
    OneRequestEach
    ClientsReclaimed
