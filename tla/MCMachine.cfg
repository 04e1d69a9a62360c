CONSTANTS
    th1 = th1  th2 = th2
    ch1 = ch1  ch2 = ch2  Q = Q  EOF = EOF
    Chars = {ch1, ch2, Q}
    MaxTyped = 4
    WordBits = 8
    Threads = {th1, th2}
    PageSize = 16
    NumPages = 4
    Workloads <- MCWorkloads
    Elements = {1, 2, 3, 4}
    NULL = NULL
    UserTick = 1
    SystemTick = 3
    ConsoleTime = 5
    TimerTicks = 2
    RotationTime = 3
    SeekTime = 3
    SectorsPerTrack = 3
    NumTracks = 2
    MaxTicks <- MCMaxTicks
SPECIFICATION MainSpec
INVARIANTS ConsoleInv InterruptsInv DiskTimes
PROPERTIES TypedIsEchoed ImplementsExecute ArithmeticExact WritesWhole ProgramsEnd TakenInOrder
CHECK_DEADLOCK FALSE
