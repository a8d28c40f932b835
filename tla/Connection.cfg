\* One keyboard, one link: the whole path from power-on to the HID channels,
\* every BTstack call may be refused, every command, power loss.
SPECIFICATION Spec
CONSTANTS
    k1 = k1
    k2 = k2
    k3 = k3
    h1 = h1
    h2 = h2
    Addr = {k1}
    NoAddr = NoAddr
    Handle = {h1}
    NoHandle = NoHandle
    Cid = {1, 2}
    NoLeds = NoLeds
    ControlPsm = {21}
    InterruptPsm = {0, 19}
    LedReport = {0, 34}
    InquiryClass = {TRUE}
    MaxDevices = 1
    Command = {"scan", "connect", "disconnect", "reconnect", "forget"}
    CallResults = {TRUE, FALSE}
    StoreResults = {TRUE, FALSE}
    AllowStale = FALSE
    SyncCanSend = TRUE
    MayLosePower = TRUE
INVARIANTS
    TypeOK
    LinkTracked
    PageAccounted
    RetryScheduled
    NoRetryWhileBusy
    KeysReleased
    BondedHasKey
    LedFidelity
    PromptScope
    HalfOpenIsClosing
    CidsAreLive
    NothingAwaitedInVain
PROPERTIES
    TransitionsAllowed
    CancelHonoured
