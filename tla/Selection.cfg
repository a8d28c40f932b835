\* Two devices, keyboards or not: discovery, selection, bonding, list handling.
SPECIFICATION Spec
CONSTANTS
    k1 = k1
    k2 = k2
    k3 = k3
    h1 = h1
    h2 = h2
    Addr = {k1, k2, k3}
    NoAddr = NoAddr
    Handle = {h1}
    NoHandle = NoHandle
    Cid = {1, 2}
    NoLeds = NoLeds
    ControlPsm = {17}
    InterruptPsm = {19}
    LedReport = {}
    InquiryClass = {TRUE, FALSE}
    MaxDevices = 2
    Command = {"scan", "connect", "disconnect", "reconnect", "forget"}
    CallResults = {TRUE}
    StoreResults = {TRUE}
    AllowStale = FALSE
    SyncCanSend = FALSE
    MayLosePower = TRUE
SYMMETRY KeyboardSymmetry
INVARIANTS
    ConnectedDeviceKnown
    BondedHasKey
    SelectionPersisted
PROPERTIES
    SuspendedMeansSuspended
    KeyedKeyboardPreferred
