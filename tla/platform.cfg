SPECIFICATION PlatformSpec
CHECK_DEADLOCK FALSE
CONSTANTS
    LogNames = {1, 2}
    BootTextures = {1}
    TextureValues = {1, 2}
    MaxTextureLog = 4
    DrawnTextures = {"t"}
    PbufferSizes = {1}
    Callbacks = {cb1}
    Users = {u1}
    Structs = {st1, st2}
    NullPtr = NullPtr
    MaxDelay = 2
    Factories = {"f"}
    Instances = {"f", "i"}
    Extensions = {"i", "e"}
    Classes = {"f", "i", "e", "u"}
    Resources = {1}
    MaxResource = 2
    MaxSends = 2
    MaxShellCalls = 3
    Width = 2
    Height = 1
    DrawnRects <- SomeRects
    BitmapSizes <- SomeSizes
    DibWords = 60
    RingObjects = 2
    RingPages = 4
    PagePixels = 1
    MaxBitmaps = 3
    MaxScreenCalls = 4
    Catalog <- SomeCatalog
    Unloadable = {3}
    MaxLoads = 2
    MaxExtCalls = 3
    Canvas = {1, 2}
    GifFrames <- SomeFrames
    MaxGifFrames = 3
    Room = 2
    MaxImageCalls = 3
    Off = Off
    CallSlots = 1
    GuestFunctions = {Function}
    MaxCallDepth = 3
    MaxTrace = 3
    AppletFields = {"shell", "display", "third"}
    HeapBytes = 4
    HeapWord = 2
    MaxHeapBlocks = 2
    MemoryTop = 12
    MemoryPage = 4
    Accessed = {2, 3}
    MediaPointer <- SomePointer
    WrittenWords <- SomeWords
    MaxAccesses = 3
    MaxMade = 2
    TitleHandlers = {1, 2, 3}
    WidgetItems = {"number", "object"}
    HoldingItems = {"object"}
    ScreenEdge = 2
    Positions <- SomePositions
    MaxWidgetCalls = 5
    PadButtons = 2
    MaxEdges = 4
    CodeBytes = 2
    CodePage = 1
    MaxBlock = 2
    Budgets = {2}
    Shipped <- SomeFiles
    Loose <- SomeLoose
    PathNames <- SomeNames
    FileWrites <- SomeWrites
    MaxFile = 2
    MaxHandles = 2
    MaxFileOps = 4
    MaxWidth = 2
    MaxHeight = 2
    SurfacePage = 4
    RegionStart = 4
    RegionEnd = 12
    MaxActivity = 2
    Far = 2
    MaxFragments = 2
    MaxStack = 2
    MaxVertices = 6
    ArraysTop = 40
    DrawnVertices = 2
    UploadBytes = 8
    GlPointers = {0, 4, 30}
    GlStrides = {0, 9}
    GlIndices = {0, 2}
    MaxGlCalls = 2
    SqlObjects = 2
    ScratchBytes = 20
    PointerBytes = 4
    SqlTables <- SomeTables
    SqlDepth = 2
    MaxSqlCalls = 6
    SortCount = 4
    SortLongest = 5
    SortKeys = {1, 2, 3}
    ClockValues = 12
    ClockPerRead = 1
    ClockTick = 3
    ClockWait = 5
    LineTexts <- SomeTexts
    MaxSources = 2
INVARIANTS
    PlatformTypeOK
    NothingOverwritten
    ComputesRight
    ServicesRight
    CodeIsCurrent
    WritesSurvive
    AnswersHonest
    TitleNotMisled
    GlComesBack
    DrawingShows
PROPERTIES
    StepsAsAsked
