\* A ring of three reports, so that it wraps and overflows at every offset;
\* three keyboard states; the bus is suspended and reset at any time.
SPECIFICATION FairSpec
CONSTANTS
    a = a
    ab = ab
    Released = Released
    NoReport = NoReport
    Report = {Released, a, ab}
    QueueSize = 3
INVARIANTS
    TypeOK
    NewestLast
    ReleaseIsNext
PROPERTIES
    RingIsStream
    HostCatchesUp
