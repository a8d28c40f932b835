\* A queue of two, a buffer for two characters: it is full, over-full and
\* restarted within one line; two requests make the order visible.
SPECIFICATION FairSpec
CONSTANTS
    scan = scan
    connect = connect
    Blank = Blank
    NoRequest = NoRequest
    Request = {scan, connect}
    Addressed = {connect}
    Char = {scan, connect, Blank}
    BufferSize = 3
    ReadSize = 2
    Capacity = 2
    MaxTyped = 5
INVARIANTS
    TypeOK
    BufferIsTail
PROPERTIES
    QueueIsFifo
    QueueDrained
