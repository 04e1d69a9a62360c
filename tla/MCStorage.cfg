CONSTANTS
    s1 = s1  s2 = s2  p1 = p1  p2 = p2
    q1 = q1  q2 = q2  q3 = q3
    f1 = f1  f2 = f2  main = main  t1 = t1  t2 = t2
    Areas = {"memory", "files"}
    Spaces = {s1, s2}
    Pages = {p1, p2}
    NumPhysPages = 3
    Policies = {"Demand", "FIFO", "Random"}
    NoFrame = NoFrame
    NoEntry = NoEntry
    Programs = {q1, q2, q3}
    NumBits = 6
    ProgramSizes = {1, 2, 3, 4}
    NoSpace = NoSpace
    CoffFiles <- MCCoffFiles
    HeaderSize = 1
    UserStackSize = 2
    PageBytes = 2
    Files = {f1, f2}
    NumSectors = 16
    NumDirect = 3
    PtrsPerSector = 4
    Reserved = {0, 1}
    NoHeader = NoHeader
    SectorSize = 3
    Openers = {main, t1, t2}
    Sharers = {t1, t2}
    NoFile = NoFile
    NoCall = NoCall
    Unset = 99
    UnixLengths = {0, 1, 5, 7, 9, 10, 14, 17, 25, 30, 33, 50}
    SharedLengths = {7}
    TransferSize = 4
    ContentSize = 4
    CopyFile = f1
    TestFile = f2
    Mark <- MCMark
SPECIFICATION StorageSpec
INVARIANTS PagingInv MarkedFramesOwned FirstFitExact ProgramInPlace HeadersInv BytesKept PrintIsCopy
SYMMETRY PagingSymmetry
CHECK_DEADLOCK FALSE
