SPECIFICATION LoopSpec
CONSTANTS
    Callbacks = {}
    Users = {u1}
    Structs = {}
    NullPtr = NullPtr
    MaxDelay = 0
    Threads = {th1, th2}
    MaxRefs = 2
    Signals = {}
    Host = Host
    Idle = Idle
    NoContext = NoContext
    MaxCalls = 1
    MaxQueue = 0
    MaxDrainTicks = 1
    Injections = {dl}
    Preempt = FALSE
    GuestSets = FALSE
    HostKeys = TRUE
    Breakpoints = FALSE
INVARIANTS
    NoLostThread
PROPERTIES
    ImplementsCoopThreads
