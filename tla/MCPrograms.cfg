\* testbed.c has its own nice values and loops of 31 ticks, as in termout.txt;
\* all the other programs have the smallest data that show every case.
CONSTANTS
    NProc = 4
    Nice = 20
    NiceArgs = {}
    MaxTicks = 95
    MaxTasks = 3
    Work = 31
    Slack = 2

    k1 = k1
    k2 = k2
    k3 = k3
    p1 = p1
    p2 = p2
    Keys = {k1, k2, k3}
    NoKey = NoKey
    Null = Null
    HashValue <- HashValues
    Primes <- FewPrimes
    Pointers = {p1, p2}
    Size = 2

    InfileLists <- ArgLists
    Missing <- NotThere
    Hits = {1, 3}
    BufSize = 2
    PipeSize = 2
    Failures = TRUE

    Top = "top"
    Below = {"a", "b", "c", "d", "e"}
    Parent <- TreeParent
    Kind <- TreeKind
    Uid <- TreeUid
    Age <- TreeAge
    NoArg <- NotGiven
    BadArg <- Useless
    Anonymous = {2}
    Users <- SomeUsers
    Times <- SomeTimes

    Scripts <- SomeScripts
    Comment <- Hash
    NullPtr = NullPtr
    Junk = Junk
    Garbage = {NullPtr, Junk}
    CutName <- Cut
    Commands = {"ls"}
    Openable = {"f", "g"}
    MaxArgs = 4

    u = u
    v = v
    z1 = z1
    z2 = z2
    z3 = z3
    ListNames = {"il", "iq", "xl"}
    Letter <- Letters3
    Types = {"stack", "queue", "heap"}
    Items = {u, v}
    Addresses = {z1, z2, z3}
    NULL = NULL

    MergeInputs <- MergeTriples
    Nul = "0"

    CopyArgs <- CopyLists
    Length <- CopyLengths
    Dash = "-"
    CopyBufs = {0, 1, 2}

    Streams <- SomeStreams
    MAXBUFLEN = 3
    Window = 3

    Clients = {1, 2}
    Question <- UdpQuestions
    Ports = {7, 8}
    Elsewhere = 9
    OtherData = {"word", "empty"}

    Documents <- Documents3
    Dictionaries <- WordLists
    ToLower <- Lower
    ValidChars = {"a", "1"}
    DigitChars = {"1"}
    MaxWord = 2
SPECIFICATION ProgramsSpec
INVARIANTS
    AsDescribed
    TableSound
    FilesInTurn
    PageComplete
    ReportHonest
    
    CommandRight
    Announced
    ListsSound
    MergeRight
    CopyRight
    StreamExact
    AnswerFits
    ReportsRight
PROPERTIES
    ProgramsEnd
    CallsRight
    RefinesContainers
CHECK_DEADLOCK FALSE
