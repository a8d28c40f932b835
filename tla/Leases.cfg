\* Three clients for two addresses; a clock that wraps after 24 ticks, an
\* expiry that tells apart every fourth one, and leases of six.
SPECIFICATION Spec
CONSTANTS
    m1 = m1
    m2 = m2
    m3 = m3
    Client = {m1, m2, m3}
    NoClient = NoClient
    MaxIp = 2
    Clock = 24
    Block = 4
    LeaseTime = 6
SYMMETRY ClientSymmetry
INVARIANTS
    LeaseKept
    RefusedOnlyIfFull
    OthersNotDisturbed
