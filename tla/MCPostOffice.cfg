CONSTANTS
    m1 = m1  m2 = m2  t1 = t1  t2 = t2  t3 = t3  b1 = b1  b2 = b2
    Machines = {m1, m2}
    Threads = {t1, t2, t3}
    Boxes = {b1}
    MachineOf <- MCMachineOf
    Lossy = TRUE
    MaxSends = 1
    NoMail = NoMail
SPECIFICATION FairSpec
INVARIANTS BuffersInv DeliveredInOrder
PROPERTIES SendReturns MailArrives
CHECK_DEADLOCK FALSE
