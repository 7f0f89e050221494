SPECIFICATION LoopSpec
CONSTANTS
    Callbacks = {}
    Users = {u1}
    Structs = {}
    NullPtr = NullPtr
    MaxDelay = 0
    Threads = {th1}
    MaxRefs = 1
    Signals = {}
    Host = Host
    Idle = Idle
    NoContext = NoContext
    MaxCalls = 2
    MaxQueue = 0
    MaxDrainTicks = 0
    Injections = {dl, zw}
    Preempt = FALSE
    GuestSets = FALSE
    HostKeys = FALSE
    Breakpoints = TRUE
PROPERTY PauseStopsGuest
