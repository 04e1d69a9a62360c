CONSTANTS
    main = main  t1 = t1  t2 = t2  t3 = t3
    sem = sem  lock = lock
    Threads = {main, t1, t2, t3}
    Main = main
    NoThread = NoThread
    Semaphores = {sem}
    Locks = {lock}
    Devices = {sem}
    InitialValue <- MCInitialValue
    NoObject = NoObject
    MaxValue = 2
SPECIFICATION FairSpec
INVARIANTS ThreadsInv NoLostWakeup MutualExclusion
PROPERTIES ImplementsFifoLock ReadyRuns
CHECK_DEADLOCK FALSE
