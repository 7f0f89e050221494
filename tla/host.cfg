SPECIFICATION FairHostSpec
CONSTANTS
    MaxRequests = 2
    MaxTicks = 2
    MaxLines = 2
    MaxTimes = 2
    MaxClients = 1
    Streams = {1, 2}
    Sizes = {1}
INVARIANTS
    HostTypeOK
    FulfilledOnce
    WaiterRemembered
    ExecutedInOrder
    NewestShown
    NobodyForgotten
PROPERTIES
    StopReturns
    StepAnswered
    PartsServed
