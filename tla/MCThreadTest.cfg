CONSTANTS
    main = main  p0 = p0  p1 = p1  p2 = p2
    mutex = mutex  c0 = c0  c1 = c1  c2 = c2  b0 = b0  b1 = b1  b2 = b2  inst = inst
    Threads = {main, p0, p1, p2}
    Main = main
    NoThread = NoThread
    Semaphores = {mutex, c0, c1, c2, b0, b1, b2, inst}
    Locks = {}
    Devices = {}
    InitialValue <- MCInitialValue
    NoObject = NoObject
    MaxValue = 5
    N = 3
    Number <- MCNumber
    Rounds = 2
    Pauses = {2}
    Lines <- MCLines
    Mutex = mutex
    SemChops <- MCSemChops
    S = 1
    Box <- MCBox
    Instruments = {i1}
    getInstrument = inst
    Boots <- MCBoots
SPECIFICATION FairTestSpec
INVARIANTS
    InputClassified
    DiningInv
    MailConserved
    HeldOnce
PROPERTIES
    SongsStartTogether
    TestsFinish
CHECK_DEADLOCK FALSE
