SPECIFICATION LibrarySpec
CONSTANTS
    Secs <- MCSecs
    Usecs <- MCUsecs
    Timeouts <- MCTimeouts
    Microsecond = 1000
    Millisecond = 1000000
    Second = 1000000000
    Period = 3
    Jumps <- MCJumps
    Notices = {1, 2, 3}
    NoNotice = 0
    Horizon = 9
    LogThreads = {1, 2}
    Files <- MCFiles
    Tcps <- MCTcps
    NoThread = 0
    Levels = {1, 2}
    MaxLines = 2
    Mods = {1, 2, 3}
    Loads = {1, 2}
    MaxDeps = 1
    Elements = {1, 2, 3}
    Classes <- MCClasses
    NoElement = NoElement
    Tests = {11, 12, 13}
    Suites = {1, 2}
    MaxAsserts = 1
    MaxList = 2
    MaxRuns = 2
    Clients = {1, 2}
    Sends <- MCSends
    Chunks = {1, 4}
    Medium = 3
    Long = 4
    TwoBytes = 3
    StringLiterals <- MCLiterals
    IniFiles <- MCIniFiles
    IniNames <- MCIniNames
    ColonNames <- MCColonNames
    IniWords = {"v", "w", "j"}
    IniLower <- MCIniLower
    IniColon <- MCIniColon
    IniTop = ""
    IniMemory = 2
    Nodes = {1, 2, 3}
    Root = 0
    Data = {1}
    NoData = 9
    HashKeys = {3, 4, 5, 6}
    HashValues = {1, 2}
    Width = 2
    BucketOf <- MCBucketOf
    NotThere = 0
    DictKeys = {3, 4, 5}
    DictValues = {1}
    DictHash <- MCDictHash
    MinSize = 1
    MaxSize = 4
    Null = 0
    NoKey = 0
    Default = 9
    JsonNodes = {1, 2, 3}
    Names = {5, 6}
    LowerName <- MCLowerName
    NoNode = 0
CHECK_DEADLOCK FALSE
INVARIANTS DeadlineExact RefusedOnTheSecond  ParserReadsValue
    PrinterInBounds StringsAreUtf8   LogComplete PipelineReleases
PROPERTIES ListIsWalk TablesAreMaps JsonIsItemList  SuiteReports
