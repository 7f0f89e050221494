SPECIFICATION LoopSpec
CONSTANTS
    Callbacks = {cb1, cb2}
    Users = {u1}
    Structs = {}
    NullPtr = NullPtr
    MaxDelay = 0
    Threads = {}
    MaxRefs = 1
    Signals = {}
    Host = Host
    Idle = Idle
    NoContext = NoContext
    MaxCalls = 2
    MaxQueue = 0
    MaxDrainTicks = 0
    Injections = {dl, zw}
    Preempt = FALSE
    GuestSets = FALSE
    HostKeys = FALSE
    Breakpoints = FALSE
PROPERTY ContinuationExclusive
