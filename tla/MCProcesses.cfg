CONSTANTS
    Threads = {main, t1, t2}
    Main = main
    NoThread = NoThread
    MaxId = 3
SPECIFICATION FairSpec
INVARIANTS ProcessesInv ParentsAsleep
PROPERTIES JoinWaitsForExit JoinReturns
CHECK_DEADLOCK FALSE
