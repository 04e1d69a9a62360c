CONSTANTS
    main = main  t1 = t1  t2 = t2
    s1 = s1  s2 = s2  d1 = d1  d2 = d2
    Threads = {main, t1, t2}
    Main = main
    NoThread = NoThread
    Semaphores = {DiskSemaphore}
    Locks = {DiskLock}
    Devices = {DiskSemaphore}
    DiskSemaphore = DiskSemaphore
    DiskLock = DiskLock
    InitialValue <- MCInitialValue
    NoObject = NoObject
    MaxValue = 2
    Sectors = {s1}
    Data = {d1, d2}
    NoCall = NoCall
SPECIFICATION DiskFairSpec
INVARIANTS DiskInv
PROPERTIES ImplementsSerialDisk CallsReturn
CHECK_DEADLOCK FALSE
