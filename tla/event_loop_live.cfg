SPECIFICATION FairLoopSpec
CONSTANTS
    Callbacks = {cb1}
    Users = {u1}
    Structs = {}
    NullPtr = NullPtr
    MaxDelay = 1
    Threads = {th1}
    MaxRefs = 1
    Signals = {sg1}
    Host = Host
    Idle = Idle
    NoContext = NoContext
    MaxCalls = 1
    MaxQueue = 1
    MaxDrainTicks = 1
    Injections = {dl}
    Preempt = TRUE
    GuestSets = FALSE
    HostKeys = TRUE
    Breakpoints = FALSE
PROPERTIES
    TimersServed
    ThreadsServed
    SignalsServed
    LoopStops
