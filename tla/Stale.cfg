\* Two keyboards and two links: connections nobody waits for complete, are
\* closed again, and their disconnection tears down the program's state.
SPECIFICATION Spec
CONSTANTS
    k1 = k1
    k2 = k2
    k3 = k3
    h1 = h1
    h2 = h2
    Addr = {k1, k2}
    NoAddr = NoAddr
    Handle = {h1, h2}
    NoHandle = NoHandle
    Cid = {1, 2}
    NoLeds = NoLeds
    ControlPsm = {}
    InterruptPsm = {}
    LedReport = {}
    InquiryClass = {TRUE}
    MaxDevices = 1
    Command = {"scan"}
    CallResults = {TRUE}
    StoreResults = {TRUE}
    AllowStale = TRUE
    SyncCanSend = FALSE
    MayLosePower = FALSE
SYMMETRY LinkSymmetry
INVARIANTS
    NothingLeft
