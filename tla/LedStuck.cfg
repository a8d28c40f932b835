\* CAN_SEND_NOW may be emitted inside l2cap_request_can_send_now_event.
SPECIFICATION FairSpec
CONSTANTS
    k1 = k1
    k2 = k2
    k3 = k3
    h1 = h1
    h2 = h2
    Addr = {k1}
    NoAddr = NoAddr
    Handle = {h1}
    NoHandle = NoHandle
    Cid = {1, 2}
    NoLeds = NoLeds
    ControlPsm = {}
    InterruptPsm = {}
    LedReport = {0, 34}
    InquiryClass = {TRUE}
    MaxDevices = 1
    Command = {"scan", "connect", "disconnect", "reconnect", "forget"}
    CallResults = {TRUE}
    StoreResults = {TRUE}
    AllowStale = FALSE
    SyncCanSend = TRUE
    MayLosePower = FALSE
PROPERTIES
    LedReported
