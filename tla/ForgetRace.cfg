\* FORGET while the keyboard is pairing: its link key is stored again.
SPECIFICATION Spec
CONSTANTS
    k1 = k1
    k2 = k2
    k3 = k3
    h1 = h1
    h2 = h2
    Addr = {k1}
    NoAddr = NoAddr
    Handle = {h1}
    NoHandle = NoHandle
    Cid = {1, 2}
    NoLeds = NoLeds
    ControlPsm = {21}
    InterruptPsm = {0, 19}
    LedReport = {0, 34}
    InquiryClass = {TRUE}
    MaxDevices = 1
    Command = {"scan", "connect", "disconnect", "reconnect", "forget"}
    CallResults = {TRUE}
    StoreResults = {TRUE}
    AllowStale = FALSE
    SyncCanSend = TRUE
    MayLosePower = TRUE
PROPERTIES
    ForgetIsFinal
