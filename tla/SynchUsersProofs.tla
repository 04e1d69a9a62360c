--------------------------- MODULE SynchUsersProofs ---------------------------
(***************************************************************************)
(* Proofs about the code that is built on threads, semaphores and locks:   *)
(*  - SynchDisk: the device gets one request at a time, every completion   *)
(*    wakes the thread that asked for it, and the disk implements the      *)
(*    serial disk of SerialDisk, for any number of threads and sectors;    *)
(*  - the programs of threadtest.cc: what they do with threads and         *)
(*    semaphores is what Synch allows, so that all that is proved of it    *)
(*    holds under them; and what each of them keeps, for any number of     *)
(*    threads, meals, messages and songs.                                  *)
(* The two share the kernel's variables, and no theorem speaks of both.    *)
(***************************************************************************)
EXTENDS SynchDisk, ThreadTest, SynchProofs, WellFoundedInduction

-----------------------------------------------------------------------------
(* The synchronous disk.                                                   *)

\* where a thread has the disk's lock
Inside == {"request", "wait", "release"}

\* What the scheduler's state says of a thread in a call.
CallsPlaced ==
    \A t \in Threads :
        /\ place[t] \in Inside => DiskLock \in holds[t]
        /\ resume[t] = "Acquire" => place[t] = "acquire" /\ waitsFor[t] = DiskLock
        /\ resume[t] = "P" => place[t] = "wait" /\ waitsFor[t] = DiskSemaphore

\* Whoever waits for the device has a completion coming, nobody else has.
CompletionOK ==
    /\ active <=> DiskSemaphore \in requested
    /\ active => semValue[DiskSemaphore] = 0
    /\ semValue[DiskSemaphore] \in {0, 1}
    /\ (active \/ semValue[DiskSemaphore] = 1) <=> \E t \in Threads : place[t] = "wait"

DiskVarsOK ==
    /\ contents \in [Sectors -> Data]
    /\ active \in BOOLEAN
    /\ call \in [Threads -> Calls \cup {NoCall}]
    /\ place \in [Threads -> {"out", "acquire", "request", "wait", "release"}]
    /\ \A t \in Threads : place[t] = "out" <=> call[t] = NoCall

KernelLocksInv == Placed /\ ValuesOK /\ LockInv

DiskStateOK == DiskVarsOK /\ CallsPlaced /\ CompletionOK

\* what the abstract disk of SerialDisk sees
serialVars == <<contents, call, callLine, deviceState>>

\* The lock keeps a second thread out.
LEMMA OneInside ==
  ASSUME LockInv, CallsPlaced
  PROVE  \A t, u \in Threads : place[t] \in Inside /\ place[u] \in Inside => t = u
  BY DiskAssumption DEF LockInv, MutualExclusion, CallsPlaced, Owns

LEMMA DiskIsDevice ==
  /\ DiskSemaphore \in Semaphores
  /\ DiskSemaphore \in Devices
  /\ DiskLock \in Locks
  /\ DiskSemaphore # DiskLock
  BY DiskAssumption, SynchAssumption

-----------------------------------------------------------------------------
(* The line of the calls, and the device, as SerialDisk sees them.         *)

LEMMA LineOf ==
  KernelLocksInv =>
      /\ \A t \in Threads : Owns(t, DiskLock) => callLine = <<t>> \o queue[DiskLock]
      /\ (\A t \in Threads : ~ Owns(t, DiskLock)) => callLine = <<>>
  BY OwnerOwns, DiskIsDevice, ThreadAssumption DEF KernelLocksInv, callLine

LEMMA LineOfNext ==
  (KernelLocksInv =>
      /\ \A t \in Threads : Owns(t, DiskLock) => callLine = <<t>> \o queue[DiskLock]
      /\ (\A t \in Threads : ~ Owns(t, DiskLock)) => callLine = <<>>)'
  BY LineOf, PTL

\* A lock that behaves as before has the same line.
LEMMA SameLine ==
  ASSUME UNCHANGED fifoVars
  PROVE  callLine' = callLine
  <1> DEFINE owners == [l \in Locks |-> Owner(l)]
             queues == [l \in Locks |-> queue[l]]
  <1>1. owners' = owners /\ queues' = queues
    BY DEF fifoVars
  <1>2. owners'[DiskLock] = Owner(DiskLock)' /\ owners[DiskLock] = Owner(DiskLock)
    BY DiskIsDevice
  <1>3. queues'[DiskLock] = queue'[DiskLock] /\ queues[DiskLock] = queue[DiskLock]
    BY DiskIsDevice
  <1> HIDE DEF owners, queues
  <1>4. Owner(DiskLock)' = Owner(DiskLock) /\ queue'[DiskLock] = queue[DiskLock]
    BY <1>1, <1>2, <1>3
  <1>5. QED
    BY <1>4 DEF callLine

\* The device is busy, has answered, or is idle.
LEMMA DeviceOf ==
  /\ active => deviceState = "busy"
  /\ ~ active /\ (\E t \in Threads : place[t] \in {"wait", "release"}) => deviceState = "done"
  /\ ~ active /\ (\A t \in Threads : place[t] \notin {"wait", "release"}) => deviceState = "idle"
  BY Zenon DEF deviceState

LEMMA DeviceOfNext ==
  (/\ active => deviceState = "busy"
   /\ ~ active /\ (\E t \in Threads : place[t] \in {"wait", "release"}) => deviceState = "done"
   /\ ~ active /\ (\A t \in Threads : place[t] \notin {"wait", "release"}) => deviceState = "idle")'
  BY DeviceOf, PTL

\* A step that leaves the device and those it works for alone.
LEMMA SameDevice ==
  ASSUME UNCHANGED active,
         \A t \in Threads : place'[t] \in {"wait", "release"} <=> place[t] \in {"wait", "release"}
  PROVE  deviceState' = deviceState
  BY DEF deviceState

-----------------------------------------------------------------------------
(* Every step of the disk is a step of the kernel, or a request, which     *)
(* moves no thread.                                                        *)

LEMMA DiskNextKernel ==
  ASSUME KernelLocksInv, [DiskNext]_synchDiskVars
  PROVE  KernelLocksInv'
  <1>1. CASE [Next]_vars
    BY <1>1, NextPlaced, NextLockInv DEF KernelLocksInv
  <1>2. ASSUME NEW t \in Threads, DiskRequest(t)
        PROVE  KernelLocksInv'
    <2>1. /\ UNCHANGED <<schedVars, semValue, lockValue, queue, waitsFor, holds>>
          /\ requested' = requested \cup {DiskSemaphore}
      BY <1>2 DEF DiskRequest
    <2>2. Placed'
      BY <2>1, UnchangedPlaced DEF KernelLocksInv
    <2>3. ValuesOK'
      BY <2>1, DiskIsDevice DEF KernelLocksInv, ValuesOK
    <2>4. LockInv'
      BY <2>1, OwnsUnchanged DEF KernelLocksInv, schedVars
    <2>5. QED
      BY <2>2, <2>3, <2>4 DEF KernelLocksInv
  <1>3. CASE UNCHANGED synchDiskVars
    BY <1>1, <1>3 DEF synchDiskVars
  <1>4. ASSUME NEW t \in Threads, NEW c \in Calls, BeginCall(t, c)
        PROVE  Next
    BY <1>4, DiskIsDevice DEF BeginCall, Next
  <1>5. ASSUME NEW t \in Threads, GetLock(t) \/ AwaitInterrupt(t) \/ EndCall(t)
        PROVE  Next
    BY <1>5, DiskIsDevice DEF GetLock, AwaitInterrupt, EndCall, Next
  <1>6. ASSUME NEW t \in Threads, OtherStep(t)
        PROVE  Next
    BY <1>6 DEF OtherStep, Next
  <1>7. ASSUME LeaveIdle, UNCHANGED synchVars
        PROVE  Next
    BY <1>7 DEF Next
  <1>8. ASSUME HandleInterrupt
        PROVE  Next
    BY <1>8, DiskIsDevice DEF HandleInterrupt, Next
  <1>9. QED
    BY <1>1, <1>2, <1>3, <1>4, <1>5, <1>6, <1>7, <1>8 DEF DiskNext, DiskStep

-----------------------------------------------------------------------------
(* The disk's own state, step by step.                                     *)

\* A step of the kernel that is not about the disk.
LEMMA OtherSteps ==
  ASSUME KernelLocksInv, DiskStateOK,
         UNCHANGED <<diskVars, semValue, lockValue, queue, waitsFor, holds, requested>>,
         \A t \in Threads : \/ resume'[t] = resume[t]
                            \/ resume[t] # "Acquire" /\ resume'[t] \notin {"P", "Acquire"}
  PROVE  DiskStateOK' /\ UNCHANGED serialVars
  <1>1. DiskVarsOK' /\ CompletionOK'
    BY DEF DiskStateOK, DiskVarsOK, CompletionOK, diskVars
  <1>2. CallsPlaced'
    BY DEF DiskStateOK, CallsPlaced, diskVars
  <1>3. UNCHANGED fifoVars
    BY OwnsUnchanged DEF KernelLocksInv
  <1>4. UNCHANGED <<contents, call, deviceState>>
    BY SameDevice DEF diskVars
  <1>5. QED
    BY <1>1, <1>2, <1>3, <1>4, SameLine DEF DiskStateOK, serialVars

LEMMA BeginStep ==
  ASSUME KernelLocksInv, DiskStateOK, NEW t \in Threads, NEW c \in Calls, BeginCall(t, c)
  PROVE  DiskStateOK' /\ Serial!Next
  <1>0. KernelLocksInv'
    BY DiskNextKernel DEF DiskNext
  <1>1. /\ place[t] = "out" /\ call[t] = NoCall
        /\ resume[t] = "None"
        /\ call' = [call EXCEPT ![t] = c]
        /\ UNCHANGED <<contents, active, semValue, requested>>
    BY DEF BeginCall, Acquire, Executing, DiskStateOK, DiskVarsOK
  <1>2. c # NoCall
    BY DiskAssumption
  <1>3. ASSUME NEW q \in {"acquire", "request"}, place' = [place EXCEPT ![t] = q],
               callLine' = Append(callLine, t)
        PROVE  /\ DiskVarsOK' /\ CompletionOK'
               /\ Serial!Next
    <2>1. DiskVarsOK'
      BY <1>1, <1>2, <1>3 DEF DiskStateOK, DiskVarsOK
    <2>2. \A u \in Threads : /\ place'[u] = "wait" <=> place[u] = "wait"
                             /\ place'[u] = "release" <=> place[u] = "release"
      BY <1>1, <1>3 DEF DiskStateOK, DiskVarsOK
    <2>3. CompletionOK'
      BY <1>1, <2>2 DEF DiskStateOK, CompletionOK
    <2>4. deviceState' = deviceState
      BY <1>1, <2>2, SameDevice
    <2>5. c \in Serial!Calls
      BY DEF Serial!Calls, Calls
    <2>6. Serial!Start(t, c)
      BY <1>1, <1>3, <2>4 DEF Serial!Start
    <2>7. QED
      BY <2>1, <2>3, <2>5, <2>6 DEF Serial!Next
  <1>4. CASE /\ ~ lockValue[DiskLock]
             /\ holds' = [holds EXCEPT ![t] = @ \cup {DiskLock}]
             /\ UNCHANGED <<schedVars, queue, waitsFor>>
    <2>1. place' = [place EXCEPT ![t] = "request"]
      BY <1>4 DEF BeginCall
    <2>2. CallsPlaced'
      BY <1>1, <1>4, <2>1 DEF DiskStateOK, DiskVarsOK, CallsPlaced, KernelLocksInv, ValuesOK,
                              Inside, schedVars
    <2>3. queue[DiskLock] = <<>> /\ \A u \in Threads : ~ Owns(u, DiskLock)
      BY <1>4, DiskIsDevice DEF KernelLocksInv, LockInv, BusyIffOwned
    <2>4. DiskLock \in holds'[t]
      BY <1>4 DEF KernelLocksInv, ValuesOK
    <2>5. Owns(t, DiskLock)'
      BY <2>4 DEF Owns
    <2>6. queue'[DiskLock] = <<>>
      BY <1>4, <2>3
    <2>7. callLine = <<>> /\ callLine' = <<t>> \o queue'[DiskLock]
      BY <1>0, <2>3, <2>5, LineOf, LineOfNext
    <2>8. callLine' = Append(callLine, t)
      BY <2>6, <2>7
    <2>9. QED
      BY <1>3, <2>1, <2>2, <2>8 DEF DiskStateOK
  <1>5. CASE /\ lockValue[DiskLock]
             /\ WaitOn(t, DiskLock, "Acquire")
             /\ UNCHANGED <<lockValue, holds>>
    <2>1. place' = [place EXCEPT ![t] = "acquire"]
      BY <1>5 DEF BeginCall
    <2>2. /\ \A u \in Threads : resume'[u] = IF u = t THEN "Acquire" ELSE resume[u]
          /\ \A u \in Threads : waitsFor'[u] = IF u = t THEN DiskLock ELSE waitsFor[u]
      BY <1>5 DEF WaitOn, Sleep, KernelLocksInv, Placed, SchedTypeOK
    <2>3. CallsPlaced'
      BY <1>5, <2>1, <2>2 DEF DiskStateOK, DiskVarsOK, CallsPlaced, Inside
    <2>4. PICK o \in Threads : Owns(o, DiskLock)
      BY <1>5, DiskIsDevice DEF KernelLocksInv, LockInv, BusyIffOwned
    <2>5. /\ queue[DiskLock] \in Seq(Threads)
          /\ queue'[DiskLock] = Append(queue[DiskLock], t)
          /\ ToSet(queue[DiskLock]) = Sleepers(DiskLock)
          /\ ToSet(queue'[DiskLock]) = Sleepers(DiskLock)'
      BY <1>0, <1>5, DiskIsDevice
         DEF WaitOn, KernelLocksInv, Placed, Objects, QueuesExact, Enumerates
    <2>6. Sleepers(DiskLock)' = Sleepers(DiskLock) \cup {t}
      <3>1. t = currentThread /\ status[t] = "RUNNING"
        BY DEF BeginCall, Acquire, Executing
      <3>2. QED
        BY <1>5, <3>1, DiskIsDevice, WaitOnPlaced DEF KernelLocksInv, Objects
    <2>7. Owns(o, DiskLock)'
      BY <1>1, <1>5, <2>2, <2>4, <2>5, <2>6 DEF Owns, Queued
    <2>8. /\ callLine = <<o>> \o queue[DiskLock]
          /\ callLine' = <<o>> \o queue'[DiskLock]
      BY <1>0, <2>4, <2>7, LineOf, LineOfNext
    <2>9. callLine' = Append(callLine, t)
      BY <2>5, <2>8
    <2>10. QED
      BY <1>3, <2>1, <2>3, <2>9 DEF DiskStateOK
  <1>6. QED
    BY <1>4, <1>5 DEF BeginCall, Acquire

LEMMA GetLockStep ==
  ASSUME KernelLocksInv, DiskStateOK, NEW t \in Threads, GetLock(t)
  PROVE  DiskStateOK' /\ UNCHANGED serialVars
  <1>1. /\ place[t] = "acquire" /\ waitsFor[t] = DiskLock
        /\ place' = [place EXCEPT ![t] = "request"]
        /\ resume' = [resume EXCEPT ![t] = "None"]
        /\ holds' = [holds EXCEPT ![t] = @ \cup {DiskLock}]
        /\ waitsFor' = [waitsFor EXCEPT ![t] = NoObject]
        /\ UNCHANGED <<contents, active, call, semValue, requested>>
    BY DEF GetLock, ResumeAcquire, DiskStateOK, CallsPlaced
  <1>2. DiskVarsOK'
    BY <1>1 DEF DiskStateOK, DiskVarsOK
  <1>3. \A u \in Threads : /\ place'[u] = "wait" <=> place[u] = "wait"
                           /\ place'[u] = "release" <=> place[u] = "release"
    BY <1>1 DEF DiskStateOK, DiskVarsOK
  <1>4. CompletionOK'
    BY <1>1, <1>3 DEF DiskStateOK, CompletionOK
  <1>5. CallsPlaced'
    BY <1>1 DEF DiskStateOK, DiskVarsOK, CallsPlaced, Inside, KernelLocksInv, ValuesOK,
                Placed, SchedTypeOK
  <1>6. UNCHANGED fifoVars
    BY ResumeAcquireLockInv DEF GetLock, KernelLocksInv
  <1>7. deviceState' = deviceState
    BY <1>1, <1>3, SameDevice
  <1>8. QED
    BY <1>1, <1>2, <1>4, <1>5, <1>6, <1>7, SameLine DEF DiskStateOK, serialVars

LEMMA DiskRequestStep ==
  ASSUME KernelLocksInv, DiskStateOK, NEW t \in Threads, DiskRequest(t)
  PROVE  DiskStateOK' /\ Serial!Next
  <1>1. /\ place[t] = "request" /\ call[t] \in Calls
        /\ place' = [place EXCEPT ![t] = "wait"]
        /\ active' = TRUE
        /\ requested' = requested \cup {DiskSemaphore}
        /\ UNCHANGED <<schedVars, semValue, lockValue, queue, waitsFor, holds>>
        /\ resume' = resume
    BY DEF DiskRequest, DiskStateOK, DiskVarsOK, schedVars
  <1>2. ASSUME NEW u \in Threads
        PROVE  place[u] \notin {"wait", "release"}
    BY <1>1, OneInside DEF KernelLocksInv, DiskStateOK, Inside
  <1>3. semValue[DiskSemaphore] = 0 /\ ~ active
    BY <1>2 DEF DiskStateOK, CompletionOK
  <1>4. place'[t] = "wait"
    BY <1>1 DEF DiskStateOK, DiskVarsOK
  <1>5. CompletionOK'
    BY <1>1, <1>3, <1>4 DEF CompletionOK
  <1>6. CallsPlaced'
    BY <1>1 DEF DiskStateOK, DiskVarsOK, CallsPlaced, Inside
  <1>7. /\ callLine # <<>> /\ Head(callLine) = t
        /\ callLine' = callLine
        /\ deviceState = "idle" /\ deviceState' = "busy"
    <2>1. Owns(t, DiskLock)
      BY <1>1 DEF DiskStateOK, CallsPlaced, Inside, Owns
    <2>2. callLine = <<t>> \o queue[DiskLock] /\ queue[DiskLock] \in Seq(Threads)
      BY <2>1, LineOf, DiskIsDevice DEF KernelLocksInv, Placed, Objects
    <2>3. UNCHANGED fifoVars
      BY <1>1, OwnsUnchanged DEF KernelLocksInv
    <2>4. callLine' = callLine
      BY <2>3, SameLine
    <2>5. deviceState = "idle"
      BY <1>2, <1>3, DeviceOf
    <2>6. deviceState' = "busy"
      BY <1>1, DeviceOfNext
    <2>7. QED
      BY <2>2, <2>4, <2>5, <2>6
  <1>8. CASE /\ call[t].kind = "read"
             /\ call' = [call EXCEPT ![t].data = contents[call[t].sector]]
             /\ UNCHANGED contents
    <2>1. /\ call[t].sector \in Sectors
          /\ contents[call[t].sector] \in Data
          /\ call'[t] \in Calls
          /\ call'[t] = [call[t] EXCEPT !.data = contents[call[t].sector]]
      BY <1>1, <1>8 DEF Calls, DiskStateOK, DiskVarsOK
    <2>2. DiskVarsOK'
      BY <1>1, <1>8, <2>1, DiskAssumption DEF DiskStateOK, DiskVarsOK
    <2>3. Serial!Serve(t)
      BY <1>7, <1>8, Zenon DEF Serial!Serve
    <2>4. Serial!Next
      BY <2>3 DEF Serial!Next
    <2>5. QED
      BY <1>5, <1>6, <2>2, <2>4 DEF DiskStateOK
  <1>9. CASE /\ call[t].kind = "write"
             /\ contents' = [contents EXCEPT ![call[t].sector] = call[t].data]
             /\ UNCHANGED call
    <2>1. call[t].sector \in Sectors /\ call[t].data \in Data
      BY <1>1 DEF Calls
    <2>2. DiskVarsOK'
      BY <1>1, <1>9, <2>1 DEF DiskStateOK, DiskVarsOK
    <2>3. Serial!Serve(t)
      BY <1>7, <1>9, Zenon DEF Serial!Serve
    <2>4. Serial!Next
      BY <2>3 DEF Serial!Next
    <2>5. QED
      BY <1>5, <1>6, <2>2, <2>4 DEF DiskStateOK
  <1>10. QED
    BY <1>8, <1>9 DEF DiskRequest

LEMMA AwaitInterruptStep ==
  ASSUME KernelLocksInv, DiskStateOK, NEW t \in Threads, AwaitInterrupt(t)
  PROVE  DiskStateOK' /\ UNCHANGED serialVars
  <1> DEFINE d == DiskSemaphore
  <1>1. /\ place[t] = "wait" /\ call[t] # NoCall
        /\ UNCHANGED <<contents, active, call, holds, requested>>
        /\ place' = [place EXCEPT ![t] = IF semValue[d] > 0 THEN "release" ELSE "wait"]
    BY DEF AwaitInterrupt, P, ResumeP, DiskStateOK, DiskVarsOK
  <1>2. ASSUME NEW q \in {"wait", "release"}, place' = [place EXCEPT ![t] = q],
               UNCHANGED fifoVars
        PROVE  DiskVarsOK' /\ UNCHANGED serialVars
    <2>1. DiskVarsOK'
      BY <1>1, <1>2 DEF DiskStateOK, DiskVarsOK
    <2>2. \A u \in Threads :
             place'[u] \in {"wait", "release"} <=> place[u] \in {"wait", "release"}
      BY <1>1, <1>2 DEF DiskStateOK, DiskVarsOK
    <2>3. deviceState' = deviceState
      BY <1>1, <2>2, SameDevice
    <2>4. QED
      BY <1>1, <1>2, <2>1, <2>3, SameLine DEF serialVars
  <1>3. semValue[d] \in {0, 1} /\ (active => semValue[d] = 0)
    BY DEF DiskStateOK, CompletionOK
  <1>4. CASE /\ semValue[d] > 0
             /\ semValue' = [semValue EXCEPT ![d] = @ - 1]
             /\ UNCHANGED <<lockValue, queue>>
             /\ \/ UNCHANGED <<resume, waitsFor>>
                \/ /\ resume' = [resume EXCEPT ![t] = "None"]
                   /\ waitsFor' = [waitsFor EXCEPT ![t] = NoObject]
    <2>1. place' = [place EXCEPT ![t] = "release"]
      BY <1>1, <1>4
    <2>2. semValue[d] = 1 /\ semValue'[d] = 0 /\ ~ active
      BY <1>3, <1>4, DiskIsDevice DEF KernelLocksInv, ValuesOK
    <2>3. \A u \in Threads : place'[u] # "wait"
      BY <1>1, <2>1, OneInside DEF KernelLocksInv, DiskStateOK, DiskVarsOK, Inside
    <2>4. CompletionOK'
      BY <1>1, <2>2, <2>3 DEF DiskStateOK, CompletionOK
    <2>5. ASSUME NEW u \in Threads
          PROVE  /\ place'[u] \in Inside => DiskLock \in holds'[u]
                 /\ resume'[u] = "Acquire" => place'[u] = "acquire" /\ waitsFor'[u] = DiskLock
                 /\ resume'[u] = "P" => place'[u] = "wait" /\ waitsFor'[u] = DiskSemaphore
      <3>1. CASE u # t
        BY <1>1, <1>4, <2>1, <3>1 DEF DiskStateOK, DiskVarsOK, CallsPlaced, KernelLocksInv,
                                      Placed, SchedTypeOK
      <3>2. CASE u = t
        <4>1. resume'[t] \notin {"P", "Acquire"}
          BY <1>1, <1>4, DiskIsDevice
             DEF AwaitInterrupt, P, WaitOn, Executing, ResumeP, schedVars, KernelLocksInv,
                 Placed, SchedTypeOK, DiskStateOK, CallsPlaced
        <4>2. QED
          BY <1>1, <3>2, <4>1 DEF DiskStateOK, CallsPlaced, Inside
      <3>3. QED
        BY <3>1, <3>2
    <2>6. CallsPlaced'
      BY <2>5 DEF CallsPlaced
    <2>7. ASSUME NEW u \in Threads
          PROVE  \/ resume'[u] = resume[u] /\ waitsFor'[u] = waitsFor[u]
                 \/ resume[u] # "Acquire" /\ resume'[u] # "Acquire"
      BY <1>1, <1>4 DEF DiskStateOK, CallsPlaced, KernelLocksInv, Placed, SchedTypeOK
    <2>8. UNCHANGED fifoVars
      BY <1>1, <1>4, <2>7, OwnsUnchanged DEF KernelLocksInv
    <2>9. QED
      BY <1>2, <2>1, <2>4, <2>6, <2>8 DEF DiskStateOK
  <1>5. CASE semValue[d] = 0 /\ WaitOn(t, d, "P") /\ UNCHANGED <<semValue, lockValue>>
    <2>1. place' = [place EXCEPT ![t] = "wait"] /\ place' = place
      BY <1>1, <1>5 DEF DiskStateOK, DiskVarsOK
    <2>2. CompletionOK'
      BY <1>1, <1>5, <2>1 DEF DiskStateOK, CompletionOK
    <2>3. /\ \A u \in Threads : resume'[u] = IF u = t THEN "P" ELSE resume[u]
          /\ \A u \in Threads : waitsFor'[u] = IF u = t THEN d ELSE waitsFor[u]
      BY <1>5 DEF WaitOn, Sleep, KernelLocksInv, Placed, SchedTypeOK
    <2>4. CallsPlaced'
      BY <1>1, <2>1, <2>3 DEF DiskStateOK, CallsPlaced
    <2>5. resume[t] # "Acquire"
      BY <1>1 DEF DiskStateOK, CallsPlaced
    <2>6. UNCHANGED fifoVars
      BY <1>1, <1>5, <2>5, DiskIsDevice, WaitOnSemaphoreLockInv DEF KernelLocksInv
    <2>7. QED
      BY <1>2, <2>1, <2>2, <2>4, <2>6 DEF DiskStateOK
  <1>6. CASE P(t, d)
    BY <1>4, <1>5, <1>6 DEF P, schedVars
  <1>7. CASE ResumeP(t)
    <2>1. waitsFor[t] = d
      BY <1>7 DEF ResumeP, DiskStateOK, CallsPlaced
    <2>2. QED
      BY <1>4, <1>5, <1>7, <2>1 DEF ResumeP
  <1>8. QED
    BY <1>6, <1>7 DEF AwaitInterrupt

LEMMA EndStep ==
  ASSUME KernelLocksInv, DiskStateOK, NEW t \in Threads, EndCall(t)
  PROVE  DiskStateOK' /\ Serial!Next
  <1>0. KernelLocksInv'
    BY DiskNextKernel DEF DiskNext, DiskStep
  <1>1. /\ place[t] = "release" /\ call[t] \in Calls /\ call[t] # NoCall
        /\ resume[t] = "None"
        /\ call' = [call EXCEPT ![t] = NoCall]
        /\ place' = [place EXCEPT ![t] = "out"]
        /\ holds' = [holds EXCEPT ![t] = @ \ {DiskLock}]
        /\ UNCHANGED <<contents, active, resume, semValue, waitsFor, requested>>
    BY DEF EndCall, Release, Executing, ReadyToRun, schedVars, DiskStateOK, DiskVarsOK
  <1>2. DiskVarsOK'
    BY <1>1 DEF DiskStateOK, DiskVarsOK
  <1>3. \A u \in Threads : place'[u] = "wait" <=> place[u] = "wait"
    BY <1>1 DEF DiskStateOK, DiskVarsOK
  <1>4. CompletionOK'
    BY <1>1, <1>3 DEF DiskStateOK, CompletionOK
  <1>5. CallsPlaced'
    BY <1>1 DEF DiskStateOK, DiskVarsOK, CallsPlaced, Inside, KernelLocksInv, ValuesOK
  <1>6. deviceState = "done" /\ deviceState' = "idle"
    <2>1. \A u \in Threads : place[u] \in Inside => u = t
      BY <1>1, OneInside DEF KernelLocksInv, DiskStateOK, Inside
    <2>2. ~ active
      BY <1>1, <2>1 DEF DiskStateOK, CompletionOK, Inside
    <2>3. \A u \in Threads : place'[u] \notin {"wait", "release"}
      BY <1>1, <2>1 DEF DiskStateOK, DiskVarsOK, Inside
    <2>4. QED
      BY <1>1, <2>2, <2>3, DeviceOf, DeviceOfNext
  <1> DEFINE q == queue[DiskLock]
  <1>7. /\ q \in Seq(Threads) /\ queue'[DiskLock] \in Seq(Threads)
        /\ callLine = <<t>> \o q
    <2>1. Owns(t, DiskLock)
      BY <1>1 DEF DiskStateOK, CallsPlaced, Inside, Owns
    <2>2. QED
      BY <1>0, <2>1, LineOf, DiskIsDevice DEF KernelLocksInv, Placed, Objects
  <1>8. ASSUME q # <<>>,
               ReadyToRun(Head(q)),
               queue' = [queue EXCEPT ![DiskLock] = Tail(@)]
        PROVE  callLine' = q
    <2>1. PICK w \in Threads : w = Head(q)
      BY <1>7, <1>8
    <2>2. /\ w \in Sleepers(DiskLock)
          /\ Sleepers(DiskLock)' = Sleepers(DiskLock) \ {w}
      BY <1>1, <1>8, <2>1, DiskIsDevice, WakePlaced DEF KernelLocksInv, Objects
    <2>3. resume[w] = "Acquire" /\ waitsFor[w] = DiskLock
      BY <2>2, SynchAssumption, DiskIsDevice DEF Sleepers, KernelLocksInv, Placed
    <2>4. ToSet(queue'[DiskLock]) = Sleepers(DiskLock)'
      BY <1>0, DiskIsDevice DEF KernelLocksInv, Placed, Objects, QueuesExact, Enumerates
    <2>5. Owns(w, DiskLock)'
      BY <1>1, <2>2, <2>3, <2>4 DEF Owns, Queued
    <2>6. queue'[DiskLock] = Tail(q)
      BY <1>8, DiskIsDevice DEF KernelLocksInv, Placed, Objects
    <2>7. callLine' = <<w>> \o Tail(q)
      BY <1>0, <2>5, <2>6, LineOfNext
    <2>8. QED
      BY <1>7, <1>8, <2>1, <2>7
  <1>9. ASSUME q = <<>>,
               lockValue' = [lockValue EXCEPT ![DiskLock] = FALSE]
        PROVE  callLine' = q
    <2>1. ~ lockValue'[DiskLock]
      BY <1>9, DiskIsDevice DEF KernelLocksInv, ValuesOK
    <2>2. \A u \in Threads : ~ Owns(u, DiskLock)'
      BY <1>0, <2>1, DiskIsDevice DEF KernelLocksInv, LockInv, BusyIffOwned
    <2>3. callLine' = <<>>
      BY <1>0, <2>2, LineOfNext
    <2>4. QED
      BY <1>9, <2>3
  <1>10. callLine # <<>> /\ Head(callLine) = t /\ callLine' = Tail(callLine)
    <2>1. callLine # <<>> /\ Head(callLine) = t /\ Tail(callLine) = q
      BY <1>7
    <2>2. callLine' = q
      BY <1>8, <1>9 DEF EndCall, Release
    <2>3. QED
      BY <2>1, <2>2
  <1>11. Serial!Return(t)
    BY <1>1, <1>6, <1>10 DEF Serial!Return
  <1>12. Serial!Next
    BY <1>11 DEF Serial!Next
  <1>13. QED
    BY <1>2, <1>4, <1>5, <1>12 DEF DiskStateOK

LEMMA HandleInterruptStep ==
  ASSUME KernelLocksInv, DiskStateOK, HandleInterrupt
  PROVE  DiskStateOK' /\ Serial!Next
  <1>1. /\ DiskSemaphore \in requested
        /\ active' = FALSE
        /\ requested' = requested \ {DiskSemaphore}
        /\ semValue' = [semValue EXCEPT ![DiskSemaphore] = @ + 1]
        /\ UNCHANGED <<contents, call, place, resume, waitsFor, holds>>
    BY DEF HandleInterrupt, Complete, Signal, ReadyToRun, schedVars
  <1>2. active /\ semValue[DiskSemaphore] = 0
    BY <1>1 DEF DiskStateOK, CompletionOK
  <1>3. semValue'[DiskSemaphore] = 1
    BY <1>1, <1>2, DiskIsDevice DEF KernelLocksInv, ValuesOK
  <1>4. CompletionOK'
    BY <1>1, <1>2, <1>3 DEF DiskStateOK, CompletionOK
  <1>5. DiskVarsOK'
    BY <1>1 DEF DiskStateOK, DiskVarsOK
  <1>6. CallsPlaced'
    BY <1>1 DEF DiskStateOK, CallsPlaced
  <1>7. UNCHANGED fifoVars
    BY DiskIsDevice, SignalLockInv DEF HandleInterrupt, Complete, KernelLocksInv
  <1>8. deviceState = "busy" /\ deviceState' = "done"
    <2>1. \E u \in Threads : place'[u] \in {"wait", "release"}
      BY <1>1, <1>2 DEF DiskStateOK, CompletionOK
    <2>2. QED
      BY <1>1, <1>2, <2>1, DeviceOf, DeviceOfNext
  <1>9. Serial!Complete
    BY <1>1, <1>7, <1>8, SameLine DEF Serial!Complete
  <1>10. QED
    BY <1>4, <1>5, <1>6, <1>9 DEF DiskStateOK, Serial!Next

LEMMA DiskNextStep ==
  ASSUME KernelLocksInv, DiskStateOK, [DiskNext]_synchDiskVars
  PROVE  DiskStateOK' /\ [Serial!Next]_serialVars
  <1> DEFINE Goal == DiskStateOK' /\ [Serial!Next]_serialVars
  <1>1. ASSUME NEW t \in Threads, NEW c \in Calls, BeginCall(t, c)
        PROVE  Goal
    BY <1>1, BeginStep
  <1>2. ASSUME NEW t \in Threads, DiskStep(t)
        PROVE  Goal
    BY <1>2, GetLockStep, DiskRequestStep, AwaitInterruptStep, EndStep DEF DiskStep
  <1>3. ASSUME NEW t \in Threads, OtherStep(t)
        PROVE  Goal
    <2>1. UNCHANGED <<diskVars, semValue, lockValue, queue, waitsFor, holds, requested>>
      BY <1>3 DEF OtherStep, End, synchVars
    <2>2. \A v \in Threads : \/ resume'[v] = resume[v]
                             \/ resume[v] # "Acquire" /\ resume'[v] \notin {"P", "Acquire"}
      BY <1>3 DEF OtherStep, Fork, Yield, EnableInterrupts, End, Finish, Executing, KernelLocksInv,
                  Placed, SchedTypeOK
    <2>3. QED
      BY <2>1, <2>2, OtherSteps
  <1>4. ASSUME LeaveIdle, UNCHANGED <<synchVars, diskVars>>
        PROVE  Goal
    BY <1>4, OtherSteps DEF LeaveIdle, synchVars
  <1>5. ASSUME HandleInterrupt
        PROVE  Goal
    BY <1>5, HandleInterruptStep
  <1>6. ASSUME UNCHANGED synchDiskVars
        PROVE  Goal
    BY <1>6, OtherSteps DEF synchDiskVars, vars, synchVars, schedVars
  <1>7. QED
    BY <1>1, <1>2, <1>3, <1>4, <1>5, <1>6 DEF DiskNext

-----------------------------------------------------------------------------
(* What the steps add up to.                                               *)

LEMMA DiskInitOK ==
  ASSUME DiskInit
  PROVE  KernelLocksInv /\ DiskStateOK /\ Serial!Init
  <1>1. Init /\ Placed
    BY InitPlaced DEF DiskInit
  <1>2. ValuesOK
    BY <1>1, SynchAssumption DEF Init, ValuesOK
  <1>3. \A l \in Locks, t \in Threads : ~ Owns(t, l)
    BY <1>1 DEF Init, SchedInit, Owns
  <1>4. LockInv
    BY <1>1, <1>3 DEF Init, Objects, LockInv, MutualExclusion, BusyIffOwned
  <1>5. DiskVarsOK
    BY DEF DiskInit, DiskVarsOK
  <1>6. CallsPlaced
    BY <1>1 DEF DiskInit, Init, SchedInit, CallsPlaced, Inside
  <1>7. CompletionOK
    BY <1>1, DiskAssumption DEF DiskInit, Init, CompletionOK
  <1>8. Serial!Init
    <2>1. callLine = <<>>
      BY <1>1, <1>2, <1>3, <1>4, LineOf, DiskIsDevice DEF KernelLocksInv
    <2>2. deviceState = "idle"
      BY DeviceOf DEF DiskInit
    <2>3. QED
      BY <2>1, <2>2 DEF DiskInit, Serial!Init
  <1>9. QED
    BY <1>1, <1>2, <1>4, <1>5, <1>6, <1>7, <1>8 DEF KernelLocksInv, DiskStateOK

LEMMA DiskStateImplies ==
  ASSUME KernelLocksInv, DiskStateOK
  PROVE  DiskInv
  <1> DEFINE W == {t \in Threads : place[t] = "wait"}
  <1>1. DiskTypeOK
    BY TypeOKParts DEF KernelLocksInv, DiskStateOK, DiskVarsOK, DiskTypeOK
  <1>2. RequestAllowed
    BY OneInside DEF KernelLocksInv, DiskStateOK, CompletionOK, Inside, RequestAllowed
  <1>3. CASE W = {}
    <2>1. ~ active /\ semValue[DiskSemaphore] = 0
      BY <1>3 DEF DiskStateOK, CompletionOK
    <2>2. Cardinality(W) = 0
      BY <1>3, FS_EmptySet
    <2>3. CompletionMatched
      BY <2>1, <2>2 DEF DiskStateOK, CompletionOK, CompletionMatched
    <2>4. QED
      BY <1>1, <1>2, <2>3 DEF DiskInv
  <1>4. ASSUME NEW t \in Threads, place[t] = "wait"
        PROVE  DiskInv
    <2>1. W = {t}
      BY <1>4, OneInside DEF KernelLocksInv, DiskStateOK, Inside
    <2>2. Cardinality(W) = 1
      BY <2>1, FS_Singleton
    <2>3. (IF active THEN 1 ELSE 0) + semValue[DiskSemaphore] = 1
      BY <1>4 DEF DiskStateOK, CompletionOK
    <2>4. CompletionMatched
      BY <2>2, <2>3 DEF DiskStateOK, CompletionOK, CompletionMatched
    <2>5. QED
      BY <1>1, <1>2, <2>4 DEF DiskInv
  <1>5. QED
    BY <1>3, <1>4

\* For any number of threads and sectors: a thread that gives the device a
\* request finds it idle (disk.cc:120 and 140), and a thread that waits for the
\* device has exactly one completion coming, its own.
THEOREM DiskOneRequest == DiskSpec => []DiskInv
  <1>1. DiskInit => KernelLocksInv /\ DiskStateOK
    BY DiskInitOK
  <1>2. KernelLocksInv /\ DiskStateOK /\ [DiskNext]_synchDiskVars => (KernelLocksInv /\ DiskStateOK)'
    BY DiskNextKernel, DiskNextStep
  <1>3. KernelLocksInv /\ DiskStateOK => DiskInv
    BY DiskStateImplies
  <1>4. QED
    BY <1>1, <1>2, <1>3, PTL DEF DiskSpec

\* synchdisk.h:16-27, for any number of threads and sectors: the disk serves the
\* calls one at a time, in the order in which they came to the lock; each reads
\* or writes its sector while its caller is the first of the line, and returns
\* after the interrupt of its own request, never after another's.
THEOREM DiskIsSerial == DiskSpec => ImplementsSerialDisk
  <1>1. DiskInit => KernelLocksInv /\ DiskStateOK /\ Serial!Init
    BY DiskInitOK
  <1>2. KernelLocksInv /\ DiskStateOK /\ [DiskNext]_synchDiskVars
           => (KernelLocksInv /\ DiskStateOK)' /\ [Serial!Next]_serialVars
    BY DiskNextKernel, DiskNextStep
  <1>3. QED
    BY <1>1, <1>2, PTL DEF DiskSpec, ImplementsSerialDisk, Serial!Spec, serialVars

-----------------------------------------------------------------------------
(* The programs and the kernel.                                            *)

KernelInv == Placed /\ ValuesOK

\* the semaphore in whose P each thread is
Waits == [t \in Threads |-> IF resume[t] = "P" THEN waitsFor[t] ELSE NoObject]

\* what a step does to the values of the semaphores and to those who wait
Quiet == semValue' = semValue /\ Waits' = Waits

Up(s) == semValue' = [semValue EXCEPT ![s] = @ + 1] /\ Waits' = Waits

Down(s) ==
    semValue[s] > 0 /\ semValue' = [semValue EXCEPT ![s] = @ - 1] /\ Waits' = Waits

Blocks(t, s) ==
    semValue[s] = 0 /\ semValue' = semValue /\ Waits' = [Waits EXCEPT ![t] = s]

Wakes(t) ==
    LET s == Waits[t] IN
    /\ s \in Semaphores
    /\ semValue[s] > 0
    /\ semValue' = [semValue EXCEPT ![s] = @ - 1]
    /\ Waits' = [Waits EXCEPT ![t] = NoObject]

Moves(t, p) == pc' = [pc EXCEPT ![t] = p] /\ UNCHANGED <<forked, options>>

\* A thread that runs outside the kernel is in no P.
LEMMA ExecutingFree ==
  ASSUME NEW t \in Threads, Executing(t)
  PROVE  Waits[t] = NoObject
  BY DEF Executing, Waits

\* Steps in which nobody enters or leaves P.
LEMMA SamePsQuiet ==
  ASSUME semValue' = semValue, UNCHANGED waitsFor,
         \A u \in Threads : resume'[u] = "P" <=> resume[u] = "P"
  PROVE  Quiet
  <1>1. \A u \in Threads : (IF resume[u] = "P" THEN waitsFor[u] ELSE NoObject)'
                               = (IF resume[u] = "P" THEN waitsFor[u] ELSE NoObject)
    OBVIOUS
  <1>2. QED
    BY <1>1 DEF Quiet, Waits

LEMMA LocalEffect ==
  ASSUME NEW t \in Threads, NEW p, Local(t, p)
  PROVE  Quiet /\ Moves(t, p) /\ UNCHANGED vars
  BY DEF Local, GoTo, Quiet, Waits, Moves, vars, schedVars, synchVars

LEMMA YieldEffect ==
  ASSUME KernelInv, NEW t \in Threads, Yield(t), UNCHANGED synchVars
  PROVE  Quiet /\ [Next]_vars
  <1>1. [Next]_vars
    BY DEF Next
  <1>2. /\ resume \in [Threads -> {"None", "Root", "Yield", "P", "Acquire", "Join", "Finish"}]
        /\ resume[t] = "None"
        /\ resume' = [resume EXCEPT ![t] = "Yield"]
    BY DEF KernelInv, Placed, SchedTypeOK, Yield, Executing
  <1>3. semValue' = semValue /\ UNCHANGED waitsFor
    BY DEF synchVars
  <1>4. QED
    BY <1>1, <1>2, <1>3, SamePsQuiet

LEMMA CallYieldEffect ==
  ASSUME KernelInv, NEW t \in Threads, NEW p, CallYield(t, p)
  PROVE  Quiet /\ Moves(t, p) /\ [Next]_vars
  <1>1. Moves(t, p) /\ UNCHANGED synchVars
    BY DEF CallYield, GoTo, Moves
  <1>2. CASE UNCHANGED schedVars
    BY <1>1, <1>2 DEF vars, schedVars, synchVars, Quiet, Waits
  <1>3. CASE Yield(t)
    BY <1>1, <1>3, YieldEffect
  <1>4. QED
    BY <1>2, <1>3 DEF CallYield

LEMMA CallPEffect ==
  ASSUME KernelInv, NEW t \in Threads, NEW s \in Semaphores, NEW p, CallP(t, s, p)
  PROVE  /\ Down(s) \/ Blocks(t, s)
         /\ Moves(t, p)
         /\ [Next]_vars
  <1>1. P(t, s) /\ Moves(t, p) /\ [Next]_vars
    BY DEF CallP, GoTo, Moves, Next
  <1>2. CASE semValue[s] > 0
    <2>1. /\ semValue' = [semValue EXCEPT ![s] = @ - 1]
          /\ UNCHANGED <<schedVars, queue, waitsFor>>
      BY <1>1, <1>2 DEF P
    <2>2. Waits' = Waits
      BY <2>1 DEF schedVars, Waits
    <2>3. QED
      BY <1>1, <1>2, <2>1, <2>2 DEF Down
  <1>3. CASE semValue[s] = 0 /\ WaitOn(t, s, "P") /\ UNCHANGED semValue
    <2>1. /\ waitsFor' = [waitsFor EXCEPT ![t] = s]
          /\ resume' = [resume EXCEPT ![t] = "P"]
      BY <1>3 DEF WaitOn, Sleep
    <2>2. /\ waitsFor \in [Threads -> Objects \cup {NoObject}]
          /\ resume \in [Threads -> {"None", "Root", "Yield", "P", "Acquire", "Join", "Finish"}]
      BY DEF KernelInv, Placed, SchedTypeOK
    <2>3. Waits' = [Waits EXCEPT ![t] = s]
      BY <2>1, <2>2 DEF Waits
    <2>4. QED
      BY <1>1, <1>3, <2>3 DEF Blocks
  <1>4. QED
    BY <1>1, <1>2, <1>3 DEF P

LEMMA CallVEffect ==
  ASSUME KernelInv, NEW t \in Threads, NEW s \in Semaphores, NEW p, CallV(t, s, p)
  PROVE  Up(s) /\ Moves(t, p) /\ [Next]_vars
  <1>1. V(t, s) /\ Moves(t, p) /\ [Next]_vars
    BY DEF CallV, GoTo, Moves, Next
  <1>2. Signal(s) /\ UNCHANGED waitsFor
    BY <1>1 DEF V
  <1>3. UNCHANGED resume
    BY <1>2 DEF Signal, ReadyToRun, schedVars
  <1>4. Waits' = Waits
    BY <1>2, <1>3 DEF Waits
  <1>5. QED
    BY <1>1, <1>2, <1>4 DEF Signal, Up

LEMMA CallFinishEffect ==
  ASSUME KernelInv, NEW t \in Threads, NEW p, CallFinish(t, p)
  PROVE  Quiet /\ Moves(t, p) /\ [Next]_vars
  <1>1. End(t) /\ Moves(t, p) /\ [Next]_vars
    BY DEF CallFinish, GoTo, Moves, Next
  <1>2. Finish(t) /\ UNCHANGED synchVars
    BY <1>1 DEF End
  <1>3. /\ resume \in [Threads -> {"None", "Root", "Yield", "P", "Acquire", "Join", "Finish"}]
        /\ resume[t] = "None"
        /\ resume' = [resume EXCEPT ![t] = "Finish"]
    BY <1>2 DEF KernelInv, Placed, SchedTypeOK, Finish, Executing
  <1>4. QED
    BY <1>1, <1>2, <1>3, SamePsQuiet DEF synchVars

LEMMA ForkEffect ==
  ASSUME KernelInv, NEW t \in Threads, NEW u \in Threads, Fork(t, u), UNCHANGED synchVars
  PROVE  Quiet /\ [Next]_vars
  <1>1. [Next]_vars
    BY DEF Next
  <1>2. /\ resume \in [Threads -> {"None", "Root", "Yield", "P", "Acquire", "Join", "Finish"}]
        /\ resume[u] # "P"
        /\ resume' = [resume EXCEPT ![u] = "Root"]
    BY DEF KernelInv, Placed, SchedTypeOK, Fork
  <1>3. semValue' = semValue /\ UNCHANGED waitsFor
    BY DEF synchVars
  <1>4. QED
    BY <1>1, <1>2, <1>3, SamePsQuiet

\* The kernel goes on with the call it was in: only a P that finds a value changes
\* anything that the programs see.
LEMMA ContinueEffect ==
  ASSUME KernelInv, NEW t \in Threads, Continue(t)
  PROVE  /\ Quiet \/ Wakes(t)
         /\ UNCHANGED <<pc, toWait, forked, options>>
         /\ [Next]_vars
  <1>0. /\ resume \in [Threads -> {"None", "Root", "Yield", "P", "Acquire", "Join", "Finish"}]
        /\ waitsFor \in [Threads -> Objects \cup {NoObject}]
    BY DEF KernelInv, Placed, SchedTypeOK
  <1>1. CASE EnableInterrupts(t) /\ UNCHANGED synchVars
    <2>1. resume' = [resume EXCEPT ![t] = "None"] /\ resume[t] # "P"
      BY <1>1 DEF EnableInterrupts
    <2>2. Quiet
      BY <1>0, <1>1, <2>1, SamePsQuiet DEF synchVars
    <2>3. QED
      BY <1>1, <2>2 DEF Continue, Next
  <1>2. CASE ResumeP(t)
    <2>1. resume[t] = "P" /\ Waits[t] = waitsFor[t] /\ waitsFor[t] \in Semaphores
      BY <1>2 DEF ResumeP, Waits, KernelInv, Placed
    <2>2. CASE semValue[waitsFor[t]] > 0
      <3>1. /\ semValue' = [semValue EXCEPT ![waitsFor[t]] = @ - 1]
            /\ resume' = [resume EXCEPT ![t] = "None"]
            /\ waitsFor' = [waitsFor EXCEPT ![t] = NoObject]
        BY <1>2, <2>2 DEF ResumeP
      <3>2. Waits' = [Waits EXCEPT ![t] = NoObject]
        BY <1>0, <3>1 DEF Waits
      <3>3. Wakes(t)
        BY <2>1, <2>2, <3>1, <3>2 DEF Wakes
      <3>4. QED
        BY <1>2, <3>3 DEF Continue, Next
    <2>3. CASE WaitOn(t, waitsFor[t], "P") /\ UNCHANGED semValue
      <3>1. /\ waitsFor' = [waitsFor EXCEPT ![t] = waitsFor[t]]
            /\ resume' = [resume EXCEPT ![t] = "P"]
        BY <2>3 DEF WaitOn, Sleep
      <3>2. UNCHANGED <<waitsFor, resume>>
        BY <1>0, <2>1, <3>1
      <3>3. Quiet
        BY <2>3, <3>2 DEF Quiet, Waits
      <3>4. QED
        BY <1>2, <3>3 DEF Continue, Next
    <2>4. QED
      BY <1>2, <2>2, <2>3 DEF ResumeP
  <1>3. QED
    BY <1>1, <1>2 DEF Continue

LEMMA PreemptEffect ==
  ASSUME KernelInv, NEW t \in Threads, Preempt(t)
  PROVE  /\ Quiet
         /\ UNCHANGED <<pc, toWait, forked, options>>
         /\ [Next]_vars
  BY YieldEffect DEF Preempt, programVars

-----------------------------------------------------------------------------
(* Where the threads of each program can be.                               *)

CommonPlaces == {"entered", "sat", "dine", "ready"}
BusyPlaces == {"test_BW", "waiting_BW", "eating_BW", "tested_BW", "thinking_BW"}
SemaphorePlaces == {"take", "test", "granted", "tested", "await", "eat", "eating",
                    "put", "think", "thinking"}
SlotPlaces == {"enter5", "reading", "read5", "compose5", "busy", "leave5", "leaving5"}
BoxPlaces == {"enter6", "took", "read6", "readNext", "compose6", "sent", "leave6",
              "leaving6"}
ZombiePlaces == {"zombie", "hiding"}
PhiloPlaces == {"sitting", "hungry", "neither", "one", "both", "nomming", "putting",
                "odd"}
BandPlaces == {"arrived", "song", "taking", "decided", "singing", "dropping", "dropped",
               "unready", "played", "readying", "again", "leaving"}

Places ==
    {"start", "left"}
        \cup (IF task = 2 \/ threadChoice = 1 THEN {"shouting"} ELSE {})
        \cup (IF task \in {3, 4} THEN CommonPlaces ELSE {})
        \cup (IF task = 3 THEN BusyPlaces ELSE {})
        \cup (IF task = 4 THEN SemaphorePlaces ELSE {})
        \cup (IF task = 5 THEN SlotPlaces ELSE {})
        \cup (IF task = 6 THEN BoxPlaces ELSE {})
        \cup (IF threadChoice = 2 THEN ZombiePlaces ELSE {})
        \cup (IF threadChoice = 3 THEN {"born"} ELSE {})
        \cup (IF threadChoice \in {4, 5} THEN PhiloPlaces ELSE {})
        \cup (IF threadChoice = 6 THEN BandPlaces ELSE {})

TestTypeOK ==
    /\ pc \in [Threads -> Places]
    /\ forked \in Nat /\ maxThread \in Nat
    /\ task \in 0..6 /\ threadChoice \in 0..6
    /\ task = 0 \/ threadChoice = 0
    /\ testing \in [Workers -> {"self", "left", "right"}]

\* Each number has its thread.
LEMMA WorkerOf ==
  ASSUME NEW k \in 0..(N - 1)
  PROVE  Worker(k) \in Workers /\ Number[Worker(k)] = k
  BY ProgramAssumption DEF Worker

\* The semaphores of the program that runs, and those in whose P a thread can be that
\* goes to place p.
Used ==
    (IF task = 4 THEN {Mutex} \cup {SemChops[i] : i \in Philosophers} ELSE {})
        \cup (IF task = 6 THEN {Box[i] : i \in People} ELSE {})
        \cup (IF threadChoice = 6 THEN {getInstrument} ELSE {})

Awaited(t, p) ==
    CASE p \in {"take", "put"}        -> {Mutex}
      [] p = "eat"                    -> {SemChops[Number[t]]}
      [] p = "sent"                   -> {Box[i] : i \in People}
      [] p \in {"taking", "dropping"} -> {getInstrument}
      [] OTHER                        -> {}

\* What a call of t on the way to p does to the semaphores.
Effects(t, p) ==
    \/ Quiet
    \/ \E s \in Used : Up(s)
    \/ \E s \in Used : s \in Awaited(t, p) /\ (Down(s) \/ Blocks(t, s))

\* What a step of a program does with its thread: the kernel allows it, and the
\* thread goes to a place of its program.
Lawful(t) == [Next]_vars /\ \E p \in Places : Moves(t, p) /\ Effects(t, p)

LEMMA UsedIn ==
  /\ task = 4 => Mutex \in Used /\ \A i \in 0..(N - 1) : SemChops[i] \in Used
  /\ task = 6 => \A i \in 0..(N - 1) : Box[i] \in Used
  /\ threadChoice = 6 => getInstrument \in Used
  BY DEF Used, Philosophers, People

\* The calls that a step can make.
LEMMA LawfulCalls ==
  ASSUME KernelInv, NEW t \in Threads, NEW p \in Places,
         Local(t, p) \/ CallYield(t, p) \/ CallFinish(t, p)
  PROVE  Lawful(t)
  BY LocalEffect, CallYieldEffect, CallFinishEffect DEF Lawful, Effects

LEMMA LawfulP ==
  ASSUME KernelInv, NEW t \in Threads, NEW p \in Places,
         NEW s \in Semaphores, s \in Used, s \in Awaited(t, p), CallP(t, s, p)
  PROVE  Lawful(t)
  BY CallPEffect DEF Lawful, Effects

LEMMA LawfulV ==
  ASSUME KernelInv, NEW t \in Threads, NEW p \in Places,
         NEW s \in Semaphores, s \in Used, CallV(t, s, p)
  PROVE  Lawful(t)
  BY CallVEffect DEF Lawful, Effects

\* The semaphores and the numbers that the programs use.
LEMMA Furniture ==
  ASSUME NEW t \in Workers
  PROVE  /\ t \in Threads
         /\ Number[t] \in 0..(N - 1)
         /\ Mutex \in Semaphores
         /\ getInstrument \in Semaphores
         /\ \A i \in 0..(N - 1) : SemChops[i] \in Semaphores /\ Box[i] \in Semaphores
  BY ProgramAssumption, DiningAssumption, MailAssumption, BandAssumption DEF Workers

\* Going round the table.
LEMMA Seats ==
  ASSUME NEW i \in 0..(N - 1)
  PROVE  /\ (i + 1) % N = IF i = N - 1 THEN 0 ELSE i + 1
         /\ (i + N - 1) % N = IF i = 0 THEN N - 1 ELSE i - 1
  <1>1. N \in Nat \ {0}
    BY ProgramAssumption
  <1>2. ASSUME NEW a \in Int, NEW q \in Int, NEW r \in 0..(N - 1), a = q * N + r
        PROVE  a % N = r
    BY <1>1, <1>2, SMTT(60)
  <1>3. (i + 1) % N = IF i = N - 1 THEN 0 ELSE i + 1
    <2>1. CASE i = N - 1
      <3>1. i + 1 = 1 * N + 0
        BY <1>1, <2>1
      <3>2. QED
        BY <1>1, <1>2, <2>1, <3>1
    <2>2. CASE i # N - 1
      <3>1. i + 1 = 0 * N + (i + 1) /\ i + 1 \in 0..(N - 1)
        BY <1>1, <2>2
      <3>2. QED
        BY <1>1, <1>2, <2>2, <3>1
    <2>3. QED
      BY <2>1, <2>2
  <1>4. (i + N - 1) % N = IF i = 0 THEN N - 1 ELSE i - 1
    <2>1. CASE i = 0
      <3>1. i + N - 1 = 0 * N + (N - 1) /\ N - 1 \in 0..(N - 1)
        BY <1>1, <2>1
      <3>2. QED
        BY <1>1, <1>2, <2>1, <3>1
    <2>2. CASE i # 0
      <3>1. i + N - 1 = 1 * N + (i - 1) /\ i - 1 \in 0..(N - 1)
        BY <1>1, <2>2
      <3>2. QED
        BY <1>1, <1>2, <2>2, <3>1
    <2>3. QED
      BY <2>1, <2>2
  <1>5. QED
    BY <1>3, <1>4

LEMMA Neighbours ==
  ASSUME NEW i \in 0..(N - 1)
  PROVE  /\ Left(i) \in 0..(N - 1) /\ Right(i) \in 0..(N - 1)
         /\ Right(Left(i)) = i /\ Left(Right(i)) = i
         /\ Right(i) = i => N = 1
         /\ Left(i) = i => N = 1
         /\ \A j \in 0..(N - 1) : Right(j) = i <=> j = Left(i)
  <1>1. N \in Nat \ {0}
    BY ProgramAssumption
  <1>2. \A j \in 0..(N - 1) : /\ Right(j) = IF j = N - 1 THEN 0 ELSE j + 1
                              /\ Left(j) = IF j = 0 THEN N - 1 ELSE j - 1
    BY Seats DEF Left, Right
  <1>3. QED
    BY <1>1, <1>2

LEMMA TargetIsSeat ==
  ASSUME NEW t \in Workers, testing[t] \in {"self", "left", "right"}
  PROVE  Target(t) \in 0..(N - 1)
  BY Furniture, Neighbours DEF Target

LEMMA ShoutsLawful ==
  ASSUME KernelInv, TestTypeOK, NEW t \in Workers, ShoutStep(t)
  PROVE  Lawful(t)
  <1> USE DEF Places, CommonPlaces, BusyPlaces, SemaphorePlaces, SlotPlaces, BoxPlaces,
              ZombiePlaces, PhiloPlaces, BandPlaces
  <1>1. t \in Threads
    BY DEF Workers
  <1>2. pc[t] \in Places
    BY DEF TestTypeOK, Workers
  <1>3. CASE ValidateInput(t)
    BY <1>1, <1>2, <1>3, LawfulCalls DEF ValidateInput, At, Waiting
  <1>4. CASE Shout(t)
    BY <1>1, <1>2, <1>4, LawfulCalls DEF Shout, At, Waiting
  <1>5. CASE shoutingThreads(t)
    BY <1>1, <1>2, <1>5, LawfulCalls DEF shoutingThreads, At, Waiting
  <1>6. QED
    BY <1>3, <1>4, <1>5 DEF ShoutStep

LEMMA DineLawful ==
  ASSUME KernelInv, TestTypeOK, NEW t \in Workers, DineStep(t)
  PROVE  Lawful(t)
  <1> USE DEF Places, CommonPlaces, BusyPlaces, SemaphorePlaces, SlotPlaces, BoxPlaces,
              ZombiePlaces, PhiloPlaces, BandPlaces
  <1>1. /\ t \in Threads
        /\ Number[t] \in 0..(N - 1)
        /\ Mutex \in Semaphores /\ getInstrument \in Semaphores
        /\ \A i \in 0..(N - 1) : SemChops[i] \in Semaphores /\ Box[i] \in Semaphores
    BY Furniture
  <1>2. pc[t] \in Places
    BY DEF TestTypeOK, Workers
  <1>3. CASE Enter(t)
    BY <1>1, <1>2, <1>3, LawfulCalls DEF Enter, At, Waiting
  <1>4. CASE SitDown(t)
    BY <1>1, <1>2, <1>4, LawfulCalls DEF SitDown, At, Waiting
  <1>5. CASE AwaitOthers(t)
    BY <1>1, <1>2, <1>5, LawfulCalls DEF AwaitOthers, At, Waiting
  <1>6. CASE Dine(t)
    <2>1. /\ task = 3 \/ task = 4
          /\ "take" \in Places \/ task # 4
          /\ "test_BW" \in Places \/ task # 3
          /\ "ready" \in Places
      BY <1>2, <1>6 DEF Dine, At, TestTypeOK
    <2>2. CASE task = 4 /\ CallP(t, Mutex, "take")
      BY <1>1, <2>1, <2>2, LawfulP, UsedIn DEF Awaited
    <2>3. CASE Local(t, "test_BW") /\ task = 3
      BY <1>1, <2>1, <2>3, LawfulCalls
    <2>4. CASE Local(t, "ready")
      BY <1>1, <2>1, <2>4, LawfulCalls
    <2>5. QED
      BY <1>6, <2>2, <2>3, <2>4 DEF Dine
  <1>7. CASE Leave(t)
    BY <1>1, <1>2, <1>7, LawfulCalls DEF Leave, At, Waiting
  <1>8. QED
    BY <1>3, <1>4, <1>5, <1>6, <1>7 DEF DineStep

LEMMA SemaphoresLawful ==
  ASSUME KernelInv, TestTypeOK, NEW t \in Workers, SemaphoreStep(t)
  PROVE  Lawful(t)
  <1> USE DEF Places, CommonPlaces, BusyPlaces, SemaphorePlaces, SlotPlaces, BoxPlaces,
              ZombiePlaces, PhiloPlaces, BandPlaces
  <1>1. /\ t \in Threads
        /\ Number[t] \in 0..(N - 1)
        /\ Mutex \in Semaphores /\ getInstrument \in Semaphores
        /\ \A i \in 0..(N - 1) : SemChops[i] \in Semaphores /\ Box[i] \in Semaphores
    BY Furniture
  <1>2. pc[t] \in Places
    BY DEF TestTypeOK, Workers
  <1>3. CASE take_chopsticks(t)
    BY <1>1, <1>2, <1>3, LawfulCalls DEF take_chopsticks, At, Waiting
  <1>4. CASE test(t)
    <2>1. Target(t) \in 0..(N - 1)
      BY TargetIsSeat DEF TestTypeOK
    <2>2. task = 4 /\ "granted" \in Places /\ "tested" \in Places
      BY <1>2, <1>4 DEF test, At
    <2>3. QED
      BY <1>1, <1>4, <2>1, <2>2, LawfulCalls, LawfulV, UsedIn DEF test
  <1>5. CASE CountMeal(t)
    BY <1>1, <1>2, <1>5, LawfulCalls DEF CountMeal, At, Waiting
  <1>6. CASE AfterTest(t)
    <2>1. task = 4 /\ {"await", "think", "test"} \subseteq Places
      BY <1>2, <1>6 DEF AfterTest, At
    <2>2. QED
      BY <1>1, <1>6, <2>1, LawfulCalls, LawfulV, UsedIn DEF AfterTest
  <1>7. CASE AwaitChopsticks(t)
    <2>1. task = 4 /\ "eat" \in Places
      BY <1>2, <1>7 DEF AwaitChopsticks, At
    <2>2. QED
      BY <1>1, <1>7, <2>1, LawfulP, UsedIn DEF AwaitChopsticks, Awaited
  <1>8. CASE eat(t)
    <2>1. task = 4 /\ {"eating", "put"} \subseteq Places
      BY <1>2, <1>8 DEF eat, At
    <2>2. QED
      BY <1>1, <1>8, <2>1, LawfulCalls, LawfulP, UsedIn DEF eat, Waiting, Awaited
  <1>9. CASE put_chopsticks(t)
    BY <1>1, <1>2, <1>9, LawfulCalls DEF put_chopsticks, At, Waiting
  <1>10. CASE think(t)
    BY <1>1, <1>2, <1>10, LawfulCalls DEF think, At, Waiting
  <1>11. QED
    BY <1>3, <1>4, <1>5, <1>6, <1>7, <1>8, <1>9, <1>10 DEF SemaphoreStep

LEMMA BusyLawful ==
  ASSUME KernelInv, TestTypeOK, NEW t \in Workers, BusyStep(t)
  PROVE  Lawful(t)
  <1> USE DEF Places, CommonPlaces, BusyPlaces, SemaphorePlaces, SlotPlaces, BoxPlaces,
              ZombiePlaces, PhiloPlaces, BandPlaces
  <1>1. t \in Threads
    BY DEF Workers
  <1>2. pc[t] \in Places
    BY DEF TestTypeOK, Workers
  <1>3. CASE test_BW(t)
    BY <1>1, <1>2, <1>3, LawfulCalls DEF test_BW, At, Waiting
  <1>4. CASE AwaitPut_BW(t)
    BY <1>1, <1>2, <1>4, LawfulCalls DEF AwaitPut_BW, At, Waiting
  <1>5. CASE eat_BW(t)
    BY <1>1, <1>2, <1>5, LawfulCalls DEF eat_BW, At, Waiting
  <1>6. CASE AfterTest_BW(t)
    BY <1>1, <1>2, <1>6, LawfulCalls DEF AfterTest_BW, At, Waiting
  <1>7. CASE think_BW(t)
    BY <1>1, <1>2, <1>7, LawfulCalls DEF think_BW, At, Waiting
  <1>8. QED
    BY <1>3, <1>4, <1>5, <1>6, <1>7 DEF BusyStep

LEMMA MailLawful ==
  ASSUME KernelInv, TestTypeOK, NEW t \in Workers, MailStep(t)
  PROVE  Lawful(t)
  <1> USE DEF Places, CommonPlaces, BusyPlaces, SemaphorePlaces, SlotPlaces, BoxPlaces,
              ZombiePlaces, PhiloPlaces, BandPlaces
  <1>1. /\ t \in Threads
        /\ Number[t] \in 0..(N - 1)
        /\ Mutex \in Semaphores /\ getInstrument \in Semaphores
        /\ \A i \in 0..(N - 1) : SemChops[i] \in Semaphores /\ Box[i] \in Semaphores
    BY Furniture
  <1>2. pc[t] \in Places
    BY DEF TestTypeOK, Workers
  <1>3. CASE BeginMail(t)
    BY <1>1, <1>2, <1>3, LawfulCalls DEF BeginMail, At, Waiting
  <1>4. CASE EnterPost(t)
    BY <1>1, <1>2, <1>4, LawfulCalls DEF EnterPost, At, Waiting
  <1>5. CASE readingMail(t)
    BY <1>1, <1>2, <1>5, LawfulCalls DEF readingMail, At, Waiting
  <1>6. CASE CountRead5(t)
    BY <1>1, <1>2, <1>6, LawfulCalls DEF CountRead5, At, Waiting
  <1>7. CASE composeMail(t)
    BY <1>1, <1>2, <1>7, LawfulCalls DEF composeMail, At, Waiting
  <1>8. CASE Busy(t)
    BY <1>1, <1>2, <1>8, LawfulCalls DEF Busy, At, Waiting
  <1>9. CASE LeavePost(t)
    BY <1>1, <1>2, <1>9, LawfulCalls DEF LeavePost, At, Waiting
  <1>10. CASE Entering(t)
    <2>1. task = 6 /\ {"took", "compose6"} \subseteq Places
      BY <1>2, <1>10 DEF Entering, At
    <2>2. QED
      BY <1>1, <1>10, <2>1, LawfulCalls, LawfulV, UsedIn DEF Entering
  <1>11. CASE ReadMail(t)
    <2>1. task = 6 /\ {"read6", "readNext", "took", "leave6"} \subseteq Places
      BY <1>2, <1>11 DEF ReadMail, At
    <2>2. QED
      BY <1>1, <1>11, <2>1, LawfulCalls, LawfulV, UsedIn DEF ReadMail
  <1>12. CASE ComposeMessage(t)
    <2>1. task = 6 /\ {"sent", "leave6"} \subseteq Places
      BY <1>2, <1>12 DEF ComposeMessage, At
    <2>2. ASSUME NEW r \in Receivers(t), CallP(t, Box[r], "sent")
          PROVE  Lawful(t)
      <3>1. r \in 0..(N - 1) /\ Box[r] \in Awaited(t, "sent")
        BY DEF Receivers, People, Awaited
      <3>2. QED
        BY <1>1, <2>1, <2>2, <3>1, LawfulP, UsedIn
    <2>3. QED
      BY <1>1, <1>12, <2>1, <2>2, LawfulCalls DEF ComposeMessage
  <1>13. CASE LeavingPost(t)
    BY <1>1, <1>2, <1>13, LawfulCalls DEF LeavingPost, At, Waiting
  <1>14. QED
    BY <1>3, <1>4, <1>5, <1>6, <1>7, <1>8, <1>9, <1>10, <1>11, <1>12, <1>13 DEF MailStep

LEMMA DemosLawful ==
  ASSUME KernelInv, TestTypeOK, NEW t \in Workers, DemoStep(t)
  PROVE  Lawful(t)
  <1> USE DEF Places, CommonPlaces, BusyPlaces, SemaphorePlaces, SlotPlaces, BoxPlaces,
              ZombiePlaces, PhiloPlaces, BandPlaces
  <1>1. t \in Threads
    BY DEF Workers
  <1>2. pc[t] \in Places
    BY DEF TestTypeOK, Workers
  <1>3. CASE zombieStuff(t)
    BY <1>1, <1>2, <1>3, LawfulCalls DEF zombieStuff, At, Waiting
  <1>4. CASE humanStuff(t)
    BY <1>1, <1>2, <1>4, LawfulCalls DEF humanStuff, At, Waiting
  <1>5. CASE spawn(t)
    <2>1. {"born", "start", "left"} \subseteq Places
      BY <1>5 DEF spawn
    <2>2. CASE At(t, "start") /\ maxThread + 1 < N /\ Fork(t, Worker(maxThread + 1))
               /\ GoTo(t, "born") /\ UNCHANGED synchVars
      <3>1. Worker(maxThread + 1) \in Threads
        <4>1. maxThread + 1 \in 0..(N - 1)
          BY <2>2, ProgramAssumption DEF TestTypeOK
        <4>2. QED
          BY <4>1, WorkerOf DEF Workers
      <3>2. [Next]_vars /\ Moves(t, "born") /\ Quiet
        BY <1>1, <2>2, <3>1, ForkEffect DEF GoTo, Moves
      <3>3. QED
        BY <2>1, <3>2 DEF Lawful, Effects
    <2>3. CASE CallYield(t, "start") \/ CallFinish(t, "left")
      BY <1>1, <2>1, <2>3, LawfulCalls
    <2>4. QED
      BY <1>5, <2>2, <2>3 DEF spawn
  <1>6. CASE Seat(t)
    BY <1>1, <1>2, <1>6, LawfulCalls DEF Seat, At, Waiting
  <1>7. CASE Pick(t)
    <2>1. CASE CallYield(t, pc[t])
      BY <1>1, <1>2, <2>1, LawfulCalls
    <2>2. CASE Local(t, "neither") \/ Local(t, "one") \/ Local(t, "both")
      <3>1. threadChoice \in {4, 5}
        BY <1>2, <1>7 DEF Pick, At
      <3>2. {"neither", "one", "both"} \subseteq Places
        BY <3>1
      <3>3. QED
        BY <1>1, <2>2, <3>2, LawfulCalls
    <2>3. QED
      BY <1>7, <2>1, <2>2 DEF Pick
  <1>8. CASE Nom(t)
    BY <1>1, <1>2, <1>8, LawfulCalls DEF Nom, At, Waiting
  <1>9. QED
    BY <1>3, <1>4, <1>5, <1>6, <1>7, <1>8 DEF DemoStep

LEMMA BandLawful ==
  ASSUME KernelInv, TestTypeOK, NEW t \in Workers, BandStep(t)
  PROVE  Lawful(t)
  <1> USE DEF Places, CommonPlaces, BusyPlaces, SemaphorePlaces, SlotPlaces, BoxPlaces,
              ZombiePlaces, PhiloPlaces, BandPlaces
  <1>1. /\ t \in Threads
        /\ Number[t] \in 0..(N - 1)
        /\ Mutex \in Semaphores /\ getInstrument \in Semaphores
        /\ \A i \in 0..(N - 1) : SemChops[i] \in Semaphores /\ Box[i] \in Semaphores
    BY Furniture
  <1>2. pc[t] \in Places
    BY DEF TestTypeOK, Workers
  <1>3. CASE Arrive(t)
    BY <1>1, <1>2, <1>3, LawfulCalls DEF Arrive, At, Waiting
  <1>4. CASE Choose(t)
    <2>1. threadChoice = 6 /\ {"taking", "decided"} \subseteq Places
      BY <1>2, <1>4 DEF Choose, At
    <2>2. QED
      BY <1>1, <1>4, <2>1, LawfulCalls, LawfulP, UsedIn DEF Choose, Awaited
  <1>5. CASE TakeInstrument(t)
    <2>1. threadChoice = 6 /\ "decided" \in Places
      BY <1>2, <1>5 DEF TakeInstrument, At
    <2>2. QED
      BY <1>1, <1>5, <2>1, LawfulV, UsedIn DEF TakeInstrument
  <1>6. CASE CountSpectators(t)
    BY <1>1, <1>2, <1>6, LawfulCalls DEF CountSpectators, At, Waiting
  <1>7. CASE Spectate(t)
    BY <1>1, <1>2, <1>7, LawfulCalls DEF Spectate, At, Waiting
  <1>8. CASE PlaySong(t)
    <2>1. threadChoice = 6 /\ {"dropping", "played"} \subseteq Places
      BY <1>2, <1>8 DEF PlaySong, At
    <2>2. QED
      BY <1>1, <1>8, <2>1, LawfulCalls, LawfulP, UsedIn DEF PlaySong, Awaited
  <1>9. CASE DropInstrument(t)
    <2>1. threadChoice = 6 /\ {"dropped", "unready", "played"} \subseteq Places
      BY <1>2, <1>9 DEF DropInstrument, At
    <2>2. QED
      BY <1>1, <1>9, <2>1, LawfulCalls, LawfulV, UsedIn DEF DropInstrument
  <1>10. CASE ReadyCheck(t)
    BY <1>1, <1>2, <1>10, LawfulCalls DEF ReadyCheck, At, Waiting
  <1>11. CASE Reset(t)
    BY <1>1, <1>2, <1>11, LawfulCalls DEF Reset, At, Waiting
  <1>12. CASE LeaveBand(t)
    BY <1>1, <1>2, <1>12, LawfulCalls DEF LeaveBand, At, Waiting
  <1>13. QED
    BY <1>3, <1>4, <1>5, <1>6, <1>7, <1>8, <1>9, <1>10, <1>11, <1>12 DEF BandStep

-----------------------------------------------------------------------------
(* Which program a step belongs to.                                        *)

\* A thread runs the program that it was started for.
LEMMA WhoseStep ==
  ASSUME TestTypeOK, NEW t \in Workers
  PROVE  /\ ShoutStep(t) => task \in {1, 2} \/ threadChoice = 1
         /\ DineStep(t) => task \in {3, 4}
         /\ SemaphoreStep(t) => task = 4
         /\ BusyStep(t) => task = 3
         /\ MailStep(t) => task \in {5, 6}
         /\ DemoStep(t) => threadChoice \in {2, 3, 4, 5}
         /\ BandStep(t) => threadChoice = 6
  <1> USE DEF Places, CommonPlaces, BusyPlaces, SemaphorePlaces, SlotPlaces, BoxPlaces,
              ZombiePlaces, PhiloPlaces, BandPlaces, At
  <1>1. pc[t] \in Places /\ task \in 0..6 /\ threadChoice \in 0..6
    BY DEF TestTypeOK, Workers
  <1>2. ShoutStep(t) => task \in {1, 2} \/ threadChoice = 1
    BY <1>1 DEF ShoutStep, ValidateInput, Shout, shoutingThreads
  <1>3. DineStep(t) => task \in {3, 4}
    BY <1>1 DEF DineStep, Enter, SitDown, AwaitOthers, Dine, Leave
  <1>4. SemaphoreStep(t) => task = 4
    BY <1>1 DEF SemaphoreStep, take_chopsticks, test, CountMeal, AfterTest,
                AwaitChopsticks, eat, put_chopsticks, think
  <1>5. BusyStep(t) => task = 3
    BY <1>1 DEF BusyStep, test_BW, AwaitPut_BW, eat_BW, AfterTest_BW, think_BW
  <1>6. MailStep(t) => task \in {5, 6}
    BY <1>1 DEF MailStep, BeginMail, EnterPost, readingMail, CountRead5, composeMail,
                Busy, LeavePost, Entering, ReadMail, ComposeMessage, LeavingPost
  <1>7. DemoStep(t) => threadChoice \in {2, 3, 4, 5}
    BY <1>1 DEF DemoStep, zombieStuff, humanStuff, spawn, Seat, Pick, Nom
  <1>8. BandStep(t) => threadChoice = 6
    BY <1>1 DEF BandStep, Arrive, Choose, TakeInstrument, CountSpectators, Spectate,
                PlaySong, DropInstrument, ReadyCheck, Reset, LeaveBand
  <1>9. QED
    BY <1>2, <1>3, <1>4, <1>5, <1>6, <1>7, <1>8

\* In each program a thread does only what the kernel allows.
LEMMA WorkLawful ==
  ASSUME KernelInv, TestTypeOK, NEW t \in Workers, Work(t)
  PROVE  Lawful(t)
  BY ShoutsLawful, DineLawful, SemaphoresLawful, BusyLawful, MailLawful, DemosLawful,
     BandLawful DEF Work, DiningStep

\* Who is tested for, and how many threads are born.
LEMMA WorkTyped ==
  ASSUME TestTypeOK, NEW t \in Workers, Work(t)
  PROVE  testing' \in [Workers -> {"self", "left", "right"}] /\ maxThread' \in Nat
  <1>1. testing \in [Workers -> {"self", "left", "right"}] /\ maxThread \in Nat
    BY DEF TestTypeOK, Workers
  <1>2. CASE DiningStep(t) /\ OnlyDining
    <2>1. DineStep(t) => testing' \in [Workers -> {"self", "left", "right"}]
      BY <1>1 DEF DineStep, Enter, SitDown, AwaitOthers, Dine, Leave, TestFor, diningVars
    <2>2. SemaphoreStep(t) => testing' \in [Workers -> {"self", "left", "right"}]
      BY <1>1 DEF SemaphoreStep, take_chopsticks, test, CountMeal, AfterTest,
                  AwaitChopsticks, eat, put_chopsticks, think, TestFor, diningVars
    <2>3. BusyStep(t) => testing' \in [Workers -> {"self", "left", "right"}]
      BY <1>1 DEF BusyStep, test_BW, AwaitPut_BW, eat_BW, AfterTest_BW, think_BW,
                  TestFor, diningVars
    <2>4. QED
      BY <1>1, <1>2, <2>1, <2>2, <2>3 DEF DiningStep, OnlyDining, demoVars
  <1>3. CASE DemoStep(t) /\ OnlyDemos
    <2>1. maxThread' \in Nat
      BY <1>1, <1>3 DEF DemoStep, zombieStuff, humanStuff, spawn, Seat, Pick, Nom
    <2>2. QED
      BY <1>1, <1>3, <2>1 DEF OnlyDemos, diningVars
  <1>4. CASE \/ ShoutStep(t) /\ OnlyShouts
             \/ MailStep(t) /\ OnlyMail
             \/ BandStep(t) /\ OnlyBand
    BY <1>1, <1>4 DEF OnlyShouts, OnlyMail, OnlyBand, diningVars, demoVars
  <1>5. QED
    BY <1>2, <1>3, <1>4 DEF Work

\* main forks the others, and finishes.
LEMMA StartLawful ==
  ASSUME KernelInv, TestTypeOK, Start
  PROVE  /\ [Next]_vars
         /\ Quiet
         /\ \E p \in {"start", "left"} : pc' = pc \/ pc' = [pc EXCEPT ![Main] = p]
         /\ forked' \in Nat
         /\ UNCHANGED options
         /\ NoProgram
  <1>1. /\ N \in Nat \ {0}
        /\ Main \in Threads
        /\ forked \in Nat
    BY ProgramAssumption, ThreadAssumption DEF TestTypeOK
  <1>2. ASSUME NEW k \in 0..(N - 1), ForkNext(Worker(k))
        PROVE  /\ [Next]_vars /\ Quiet /\ UNCHANGED <<pc, options>>
               /\ forked' \in Nat
    <2>1. Worker(k) \in Threads
      BY WorkerOf DEF Workers
    <2>2. QED
      BY <1>1, <1>2, <2>1, ForkEffect DEF ForkNext
  <1>3. ASSUME CallFinish(Main, "left")
        PROVE  /\ [Next]_vars /\ Quiet /\ UNCHANGED options
               /\ pc' = [pc EXCEPT ![Main] = "left"]
               /\ forked' \in Nat
    BY <1>1, <1>3, CallFinishEffect DEF Moves
  <1>4. CASE /\ ForkWorkers(IF task = 1 \/ threadChoice = 3 THEN 1 ELSE N)
             /\ NoProgram
    <2>1. CASE forked < N /\ ForkNext(Worker(forked))
      <3>1. forked \in 0..(N - 1)
        BY <1>1, <2>1
      <3>2. QED
        BY <1>2, <1>4, <2>1, <3>1
    <2>2. CASE CallFinish(Main, "left")
      BY <1>3, <1>4, <2>2
    <2>3. QED
      BY <1>1, <1>4, <2>1, <2>2 DEF ForkWorkers
  <1>5. CASE ForkZombies /\ OnlyDemos
    <2>1. UNCHANGED demoVars
      BY <1>5 DEF ForkZombies
    <2>2. NoProgram
      BY <1>5, <2>1 DEF NoProgram, OnlyShouts, OnlyDemos
    <2>3. CASE forked = 0 /\ ForkNext(Zombie)
      <3>1. N - 1 \in 0..(N - 1)
        BY <1>1
      <3>2. QED
        BY <1>2, <2>2, <2>3, <3>1 DEF Zombie
    <2>4. CASE forked \in 1..(N - 1) /\ ForkNext(Worker(forked - 1))
      <3>1. forked - 1 \in 0..(N - 1)
        BY <1>1, <2>4
      <3>2. QED
        BY <1>2, <2>2, <2>4, <3>1
    <2>5. CASE CallFinish(Main, "left")
      BY <1>3, <2>2, <2>5
    <2>6. QED
      BY <1>5, <2>3, <2>4, <2>5 DEF ForkZombies
  <1>6. QED
    BY <1>4, <1>5 DEF Start

\* Each step, and those of the kernel between the steps of the programs.
LEMMA TestStepLawful ==
  ASSUME KernelInv, TestTypeOK, [TestNext]_allVars
  PROVE  [Next]_vars /\ TestTypeOK'
  <1>1. Main \in Threads /\ Main \notin Workers /\ Workers \subseteq Threads
    BY ThreadAssumption DEF Workers
  <1>2. ASSUME NEW t \in Workers, Work(t)
        PROVE  [Next]_vars /\ TestTypeOK'
    <2>1. PICK p \in Places : Moves(t, p)
      BY <1>2, WorkLawful DEF Lawful
    <2>2. [Next]_vars
      BY <1>2, WorkLawful DEF Lawful
    <2>6. UNCHANGED <<task, threadChoice>>
      BY <2>1 DEF Moves, options
    <2>7. Places' = Places
      BY <2>6 DEF Places
    <2>4. testing' \in [Workers -> {"self", "left", "right"}] /\ maxThread' \in Nat
      BY <1>2, WorkTyped
    <2>8. QED
      BY <1>1, <2>1, <2>2, <2>4, <2>6, <2>7 DEF TestTypeOK, Moves
  <1>3. ASSUME Start
        PROVE  [Next]_vars /\ TestTypeOK'
    <2>1. UNCHANGED <<testing, maxThread, task, threadChoice>>
      BY <1>3, StartLawful DEF NoProgram, OnlyShouts, options, diningVars, demoVars
    <2>2. Places' = Places
      BY <2>1 DEF Places
    <2>3. {"start", "left"} \subseteq Places
      BY DEF Places
    <2>4. QED
      BY <1>1, <1>3, <2>1, <2>2, <2>3, StartLawful DEF TestTypeOK
  <1>4. ASSUME Kernel, NoProgram
        PROVE  [Next]_vars /\ TestTypeOK'
    <2>1. /\ [Next]_vars
          /\ UNCHANGED <<pc, forked, options>>
      BY <1>4, ContinueEffect, PreemptEffect DEF Kernel
    <2>2. UNCHANGED <<testing, maxThread, task, threadChoice>>
      BY <1>4, <2>1 DEF NoProgram, OnlyShouts, options, diningVars, demoVars
    <2>3. Places' = Places
      BY <2>2 DEF Places
    <2>4. QED
      BY <2>1, <2>2, <2>3 DEF TestTypeOK
  <1>5. ASSUME UNCHANGED allVars
        PROVE  [Next]_vars /\ TestTypeOK'
    <2>1. UNCHANGED <<pc, forked, testing, maxThread, task, threadChoice, vars>>
      BY <1>5 DEF allVars, programVars, options, diningVars, demoVars
    <2>2. Places' = Places
      BY <2>1 DEF Places
    <2>3. QED
      BY <2>1, <2>2 DEF TestTypeOK
  <1>6. QED
    BY <1>2, <1>3, <1>4, <1>5 DEF TestNext

LEMMA TestInitTyped ==
  ASSUME TestInit
  PROVE  Init /\ KernelInv /\ TestTypeOK
  <1>1. Init
    BY DEF TestInit, ProgramInit
  <1>2. KernelInv
    BY <1>1, InitPlaced, SynchAssumption DEF KernelInv, Init, ValuesOK
  <1>3. /\ task \in 0..6 /\ threadChoice \in 0..6
        /\ task = 0 \/ threadChoice = 0
    BY ThreadTestAssumption DEF TestInit
  <1>4. /\ pc = [t \in Threads |-> "start"]
        /\ forked = 0 /\ maxThread = 0
        /\ testing = [t \in Workers |-> "self"]
    BY DEF TestInit, ProgramInit, DiningInit, DemoInit
  <1>5. "start" \in Places
    BY DEF Places
  <1>6. QED
    BY <1>1, <1>2, <1>3, <1>4, <1>5 DEF TestTypeOK

\* A thread that is in a P is at the place its program goes on from after it.
Blocked ==
    \A t \in Threads :
        Waits[t] # NoObject => t \in Workers /\ Waits[t] \in Awaited(t, pc[t])

TestInv == KernelInv /\ TestTypeOK /\ Blocked

\* It is the thread that has the CPU whose program goes on.
LEMMA WorkExecuting ==
  ASSUME NEW t \in Workers, Work(t)
  PROVE  Executing(t)
  <1>1. ShoutStep(t) => Executing(t)
    BY DEF At, ShoutStep, ValidateInput, Shout, shoutingThreads
  <1>2. DineStep(t) => Executing(t)
    BY DEF At, DineStep, Enter, SitDown, AwaitOthers, Dine, Leave
  <1>3. SemaphoreStep(t) => Executing(t)
    BY DEF At, SemaphoreStep, take_chopsticks, test, CountMeal, AfterTest,
           AwaitChopsticks, eat, put_chopsticks, think
  <1>4. BusyStep(t) => Executing(t)
    BY DEF At, BusyStep, test_BW, AwaitPut_BW, eat_BW, AfterTest_BW, think_BW
  <1>5. MailStep(t) => Executing(t)
    BY DEF At, MailStep, BeginMail, EnterPost, readingMail, CountRead5, composeMail,
           Busy, LeavePost, Entering, ReadMail, ComposeMessage, LeavingPost
  <1>6. DemoStep(t) => Executing(t)
    BY DEF At, DemoStep, zombieStuff, humanStuff, spawn, Seat, Pick, Nom
  <1>7. BandStep(t) => Executing(t)
    BY DEF At, BandStep, Arrive, Choose, TakeInstrument, CountSpectators, Spectate,
           PlaySong, DropInstrument, ReadyCheck, Reset, LeaveBand
  <1>8. QED
    BY <1>1, <1>2, <1>3, <1>4, <1>5, <1>6, <1>7 DEF Work, DiningStep

\* What a thread waits for, its program uses.
LEMMA AwaitedUsed ==
  ASSUME NEW t \in Workers, NEW p \in Places
  PROVE  Awaited(t, p) \subseteq Used
  <1>1. Number[t] \in Philosophers
    BY ProgramAssumption DEF Philosophers
  <1>2. QED
    BY <1>1 DEF Awaited, Used, Places, CommonPlaces, BusyPlaces, SemaphorePlaces,
                SlotPlaces, BoxPlaces, ZombiePlaces, PhiloPlaces, BandPlaces

LEMMA UsedAreSemaphores == Used \subseteq Semaphores
  BY DiningAssumption, MailAssumption, BandAssumption DEF Used, Philosophers, People

\* The steps of main, of the kernel, and those of nobody: the programs see at most that
\* a P has found a value.
LEMMA NoWork ==
  ASSUME TestInv, Start \/ (Kernel /\ NoProgram) \/ UNCHANGED allVars
  PROVE  /\ NoProgram /\ UNCHANGED options
         /\ \A t \in Workers : pc'[t] = pc[t]
         /\ Quiet \/ \E t \in Workers : Wakes(t)
  <1>1. /\ Main \in Threads /\ Main \notin Workers
        /\ NoObject \notin Semaphores
        /\ pc \in [Threads -> Places]
        /\ Workers \subseteq Threads
    BY ThreadAssumption, SynchAssumption DEF Workers, TestInv, TestTypeOK
  <1>2. CASE Start
    BY <1>1, <1>2, StartLawful DEF TestInv
  <1>3. CASE Kernel /\ NoProgram
    <2>1. ASSUME NEW t \in Threads, Wakes(t)
          PROVE  t \in Workers
      BY <1>1, <2>1 DEF Wakes, TestInv, Blocked
    <2>2. QED
      BY <1>3, <2>1, ContinueEffect, PreemptEffect DEF Kernel, TestInv
  <1>4. CASE UNCHANGED allVars
    BY <1>4 DEF allVars, programVars, NoProgram, OnlyShouts, vars, schedVars, synchVars,
                Quiet, Waits
  <1>5. QED
    BY <1>2, <1>3, <1>4

\* Semaphores of other programs keep their values.
LEMMA UnusedKept ==
  ASSUME TestInv, [TestNext]_allVars, NEW s \in Semaphores, s \notin Used
  PROVE  semValue'[s] = semValue[s]
  <1>1. semValue \in [Semaphores -> Nat]
    BY DEF TestInv, KernelInv, ValuesOK
  <1>2. CASE \E t \in Workers : Work(t)
    <2>1. PICK t \in Workers : Work(t)
      BY <1>2
    <2>2. Lawful(t)
      BY <2>1, WorkLawful DEF TestInv
    <2>3. QED
      BY <1>1, <2>2, UsedAreSemaphores DEF Lawful, Effects, Quiet, Up, Down, Blocks
  <1>3. CASE Start \/ (Kernel /\ NoProgram) \/ UNCHANGED allVars
    <2>1. ASSUME NEW t \in Workers, Wakes(t)
          PROVE  Waits[t] \in Used
      <3>1. t \in Threads /\ pc[t] \in Places /\ Waits[t] # NoObject
        BY <2>1, SynchAssumption DEF Workers, TestInv, TestTypeOK, Wakes
      <3>2. QED
        BY <3>1, AwaitedUsed DEF TestInv, Blocked
    <2>2. QED
      BY <1>1, <1>3, <2>1, NoWork DEF Quiet, Wakes
  <1>4. QED
    BY <1>2, <1>3 DEF TestNext

LEMMA TestInvInit == TestInit => TestInv
  <1>1. TestInit => Blocked
    BY DEF TestInit, ProgramInit, Init, SchedInit, Blocked, Waits
  <1>2. QED
    BY <1>1, TestInitTyped DEF TestInv

LEMMA TestInvStep == TestInv /\ [TestNext]_allVars => TestInv'
  <1> SUFFICES ASSUME TestInv, [TestNext]_allVars PROVE TestInv'
    OBVIOUS
  <1>1. KernelInv' /\ TestTypeOK'
    BY TestStepLawful, NextPlaced DEF TestInv, KernelInv
  <1>2. /\ pc \in [Threads -> Places] /\ Workers \subseteq Threads
        /\ Waits = [t \in Threads |-> Waits[t]]
    BY DEF TestInv, TestTypeOK, Workers, Waits
  <1>3. ASSUME NEW t \in Workers, Work(t)
        PROVE  Blocked'
    <2>1. Waits[t] = NoObject
      BY <1>2, <1>3, WorkExecuting, ExecutingFree
    <2>2. PICK p \in Places : Moves(t, p) /\ Effects(t, p)
      BY <1>3, WorkLawful DEF Lawful, TestInv
    <2>3. \A u \in Threads : pc'[u] = IF u = t THEN p ELSE pc[u]
      BY <1>2, <2>2 DEF Moves
    <2>4. /\ \A u \in Threads : u # t => Waits'[u] = Waits[u]
          /\ Waits'[t] = NoObject \/ Waits'[t] \in Awaited(t, p)
      BY <1>2, <2>1, <2>2 DEF Effects, Quiet, Up, Down, Blocks
    <2>5. \A u, q : Awaited(u, q)' = Awaited(u, q')
      BY DEF Awaited
    <2>6. QED
      BY <2>3, <2>4, <2>5 DEF TestInv, Blocked
  <1>4. CASE Start \/ (Kernel /\ NoProgram) \/ UNCHANGED allVars
    <2>1. \A t \in Threads : Waits'[t] # NoObject => Waits'[t] = Waits[t]
      BY <1>2, <1>4, NoWork DEF Quiet, Wakes
    <2>2. \A t \in Workers : pc'[t] = pc[t]
      BY <1>4, NoWork
    <2>3. ASSUME NEW t \in Threads, Waits'[t] # NoObject
          PROVE  t \in Workers /\ Waits'[t] \in (Awaited(t, pc[t]))'
      <3>1. t \in Workers /\ Waits[t] \in Awaited(t, pc[t])
        BY <2>1, <2>3 DEF TestInv, Blocked
      <3>2. (Awaited(t, pc[t]))' = Awaited(t, pc[t])
        BY <2>2, <3>1 DEF Awaited
      <3>3. QED
        BY <2>1, <2>3, <3>1, <3>2
    <2>4. QED
      BY <1>1, <2>3 DEF TestInv, Blocked
  <1>5. QED
    BY <1>1, <1>3, <1>4 DEF TestNext, TestInv

\* Whatever program of threadtest.cc runs, with however many threads, its threads do
\* what Synch allows threads to do.  So the kernel's guarantees hold under each of
\* them: ThreadsInv, MutualExclusion and NoLostWakeup.
THEOREM ProgramsRunOnKernel == TestSpec => Spec
  <1>1. TestInit => Init /\ TestInv
    BY TestInitTyped, TestInvInit
  <1>2. TestInv /\ [TestNext]_allVars => [Next]_vars
    BY TestStepLawful DEF TestInv
  <1>3. QED
    BY <1>1, <1>2, TestInvStep, PTL DEF TestSpec, Spec

THEOREM TestInvariant == TestSpec => []TestInv
  BY TestInvInit, TestInvStep, PTL DEF TestSpec

-----------------------------------------------------------------------------
(* The dining philosophers.                                                *)

\* t has taken mutex and not released it
InMutex(t) ==
    \/ pc[t] \in {"take", "put"} /\ Waits[t] = NoObject
    \/ pc[t] \in {"test", "granted", "tested"}

MutexHeld ==
    /\ semValue[Mutex] \in {0, 1}
    /\ semValue[Mutex] = 0 <=> \E t \in Workers : InMutex(t)
    /\ \A t, u \in Workers : InMutex(t) /\ InMutex(u) => t = u

\* Eats, said of what the programs see
Served(t) ==
    \/ pc[t] = "eat" /\ Waits[t] = NoObject
    \/ pc[t] \in {"eating", "put"}

Granted ==
    \A t \in Workers :
        semValue[SemChops[Number[t]]] + (IF Served(t) THEN 1 ELSE 0)
            = IF state[Number[t]] = "EATING" /\ AtMeal(t) THEN 1 ELSE 0

\* places before the first meal
Early == {"start", "entered", "sat"}

Begin == Early \cup {"dine", "take", "ready", "left"}

\* t may not have set its word of the array yet; that it says HUNGRY does no harm only
\* without the random timer
Unbegun(t) == pc[t] \in Begin /\ (state[Number[t]] = "HUNGRY" => ~ randomYield)

\* t has been found to be able to eat
Given(t) == state[Number[t]] = "EATING" /\ AtMeal(t)

Apart ==
    \A t, u \in Workers : Given(t) /\ Given(u) /\ Number[u] = Right(Number[t]) => t = u

TableInv ==
    /\ state \in [Philosophers -> {"HUNGRY", "EATING", "THINKING"}]
    /\ \A t \in Workers : state[Number[t]] # "THINKING" => AtMeal(t) \/ Unbegun(t)
    /\ Granted
    /\ Apart

ChopsticksApart ==
    /\ chopsticks \in [Philosophers -> BOOLEAN]
    /\ \A i \in Philosophers :
          chopsticks[i] /\ chopsticks[Right(i)] =>
              Right(i) = i \/ (memory.chopsticks[i] /\ memory.chopsticks[Right(i)])

\* a meal that is about to be counted is still there
MealsInv ==
    /\ numMeals \in Nat
    /\ \A t \in Workers : pc[t] = "granted" => numMeals > 0

\* A step of one thread keeps the mutex when it takes it while it is free, gives back
\* what it holds, or does neither.
LEMMA MutexMoves ==
  ASSUME MutexHeld, NEW t \in Workers,
         \A u \in Workers : u # t => (InMutex(u)' <=> InMutex(u)),
         \/ semValue'[Mutex] = semValue[Mutex] /\ (InMutex(t)' <=> InMutex(t))
         \/ semValue'[Mutex] = semValue[Mutex] + 1 /\ InMutex(t) /\ ~ InMutex(t)'
         \/ semValue[Mutex] > 0 /\ semValue'[Mutex] = semValue[Mutex] - 1 /\ InMutex(t)'
  PROVE  MutexHeld'
  BY DEF MutexHeld

\* What the programs' variables say of the next state, thread by thread.
LEMMA Seen ==
  ASSUME TestInv, NEW t \in Workers, NEW p, Moves(t, p)
  PROVE  /\ \A u \in Workers : pc'[u] = IF u = t THEN p ELSE pc[u]
         /\ UNCHANGED options
         /\ \A s \in Semaphores : semValue[s] \in Nat
         /\ Waits = [u \in Threads |-> Waits[u]]
         /\ semValue = [s \in Semaphores |-> semValue[s]]
         /\ t \in Threads /\ Workers \subseteq Threads
  BY DEF TestInv, TestTypeOK, KernelInv, ValuesOK, Workers, Moves, Waits

\* What a step of the four-semaphore programs does with mutex.
LEMMA MutexKept ==
  ASSUME TestInv, task = 4, MutexHeld, NEW t \in Workers, SemaphoreStep(t) \/ DineStep(t)
  PROVE  MutexHeld'
  <1>0. /\ t \in Threads /\ Waits[t] = NoObject /\ KernelInv
        /\ Mutex \in Semaphores /\ Mutex # NoObject
        /\ Number[t] \in 0..(N - 1)
        /\ \A i \in 0..(N - 1) : SemChops[i] \in Semaphores \ {Mutex}
    <2>1. Executing(t)
      BY DEF At, SemaphoreStep, take_chopsticks, test, CountMeal, AfterTest,
             AwaitChopsticks, eat, put_chopsticks, think, DineStep, Enter, SitDown,
             AwaitOthers, Dine, Leave
    <2>2. QED
      BY <2>1, ExecutingFree, Furniture, SynchAssumption, DiningAssumption DEF TestInv, Workers
  <1> DEFINE Crit == {"take", "put", "test", "granted", "tested"}
  <1>1. ASSUME NEW p, Local(t, p) \/ CallYield(t, p) \/ CallFinish(t, p),
               pc[t] \in Crit <=> p \in Crit
        PROVE  MutexHeld'
    <2>1. Quiet /\ Moves(t, p)
      BY <1>0, <1>1, LocalEffect, CallYieldEffect, CallFinishEffect
    <2>2. \A u \in Workers : InMutex(u)' <=> InMutex(u)
      BY <1>0, <1>1, <2>1, Seen DEF InMutex, Quiet
    <2>3. QED
      BY <2>1, <2>2, MutexMoves DEF Quiet
  <1>2. ASSUME NEW p, CallV(t, Mutex, p), pc[t] \in Crit, p \notin Crit
        PROVE  MutexHeld'
    <2>1. Up(Mutex) /\ Moves(t, p)
      BY <1>0, <1>2, CallVEffect
    <2>2. /\ \A u \in Workers : u # t => (InMutex(u)' <=> InMutex(u))
          /\ InMutex(t) /\ ~ InMutex(t)'
          /\ semValue'[Mutex] = semValue[Mutex] + 1
      BY <1>0, <1>2, <2>1, Seen DEF InMutex, Up
    <2>3. QED
      BY <2>2, MutexMoves
  <1>3. ASSUME NEW p \in {"take", "put"}, CallP(t, Mutex, p), pc[t] \notin Crit
        PROVE  MutexHeld'
    <2>1. (Down(Mutex) \/ Blocks(t, Mutex)) /\ Moves(t, p)
      BY <1>0, <1>3, CallPEffect
    <2>2. \A u \in Workers : u # t => (InMutex(u)' <=> InMutex(u))
      BY <1>0, <1>3, <2>1, Seen DEF InMutex, Down, Blocks
    <2>3. CASE Down(Mutex)
      <3>1. /\ InMutex(t)' /\ semValue[Mutex] > 0
            /\ semValue'[Mutex] = semValue[Mutex] - 1
        BY <1>0, <1>3, <2>1, <2>3, Seen DEF InMutex, Down
      <3>2. QED
        BY <2>2, <3>1, MutexMoves
    <2>4. CASE Blocks(t, Mutex)
      <3>1. (InMutex(t)' <=> InMutex(t)) /\ semValue' = semValue
        BY <1>0, <1>3, <2>1, <2>4, Seen DEF InMutex, Blocks
      <3>2. QED
        BY <2>2, <3>1, MutexMoves
    <2>5. QED
      BY <2>1, <2>3, <2>4
  <1>4. ASSUME NEW i \in 0..(N - 1), NEW p, CallV(t, SemChops[i], p),
               pc[t] \in Crit, p \in Crit \ {"take", "put"}
        PROVE  MutexHeld'
    <2>1. Up(SemChops[i]) /\ Moves(t, p)
      BY <1>0, <1>4, CallVEffect
    <2>2. (\A u \in Workers : InMutex(u)' <=> InMutex(u)) /\ semValue'[Mutex] = semValue[Mutex]
      BY <1>0, <1>4, <2>1, Seen DEF InMutex, Up
    <2>3. QED
      BY <2>2, MutexMoves
  <1>5. ASSUME CallP(t, SemChops[Number[t]], "eat"), pc[t] \notin Crit
        PROVE  MutexHeld'
    <2>1. /\ Down(SemChops[Number[t]]) \/ Blocks(t, SemChops[Number[t]])
          /\ Moves(t, "eat")
      BY <1>0, <1>5, CallPEffect
    <2>2. (\A u \in Workers : InMutex(u)' <=> InMutex(u)) /\ semValue'[Mutex] = semValue[Mutex]
      BY <1>0, <1>5, <2>1, Seen DEF InMutex, Down, Blocks
    <2>3. QED
      BY <2>2, MutexMoves
  <1>6. CASE DineStep(t)
    BY <1>1, <1>3, <1>6 DEF DineStep, Enter, SitDown, AwaitOthers, Dine, Leave, At
  <1>7. CASE take_chopsticks(t)
    BY <1>1, <1>7 DEF take_chopsticks, At
  <1>8. CASE test(t)
    <2>1. Target(t) \in 0..(N - 1)
      BY TargetIsSeat DEF TestInv, TestTypeOK
    <2>2. QED
      BY <1>1, <1>4, <1>8, <2>1 DEF test, At
  <1>9. CASE CountMeal(t)
    BY <1>1, <1>9 DEF CountMeal, At
  <1>10. CASE AfterTest(t)
    BY <1>1, <1>2, <1>10 DEF AfterTest, At
  <1>11. CASE AwaitChopsticks(t)
    BY <1>5, <1>11 DEF AwaitChopsticks, At
  <1>12. CASE eat(t)
    BY <1>1, <1>3, <1>12 DEF eat, At, Waiting
  <1>13. CASE put_chopsticks(t)
    BY <1>1, <1>13 DEF put_chopsticks, At
  <1>14. CASE think(t)
    BY <1>1, <1>14 DEF think, At, Waiting
  <1>15. QED
    BY <1>6, <1>7, <1>8, <1>9, <1>10, <1>11, <1>12, <1>13, <1>14 DEF SemaphoreStep

LEMMA ChopsSemaphores ==
  /\ \A i \in 0..(N - 1) : SemChops[i] \in Semaphores \ {Mutex}
  /\ \A i, j \in 0..(N - 1) : SemChops[i] = SemChops[j] => i = j
  /\ \A u \in Workers : Number[u] \in 0..(N - 1)
  /\ \A u, v \in Workers : Number[u] = Number[v] => u = v
  /\ Mutex \in Semaphores
  BY DiningAssumption, ProgramAssumption

-----------------------------------------------------------------------------
(* Turns: without the random timer a thread keeps the CPU until it calls   *)
(* Yield or waits in P, and Yield puts it behind all who are ready.  So     *)
(* every philosopher has come to its first meal before one has eaten.      *)

\* places where a thread without a random timer still has the CPU, as it has not called
\* Yield and no P has made it wait
Steady == {"dine", "take", "test", "granted", "tested", "await", "put", "think"}

\* t has eaten, and yielded meanwhile
Passed(t) ==
    \/ pc[t] \in {"put", "think", "thinking"}
    \/ pc[t] \in {"test", "granted", "tested"} /\ testing[t] # "self"

Precedes(s, u, t) == \E i, j \in 1..Len(s) : i < j /\ s[i] = u /\ s[j] = t

\* u has its turn before t
Due(u, t) == status[u] = "RUNNING" \/ Precedes(readyList, u, t)

\* What a call of t does with the turns of the threads: t goes on, or gives up the
\* CPU, or gives it up and waits behind all who are ready.
Keeps(t) ==
    /\ Executing(t)'
    /\ \A u \in Threads : status[u] \in {"READY", "RUNNING"} => status'[u] = status[u]
    /\ \A u, v \in Threads : Precedes(readyList, u, v) => Precedes(readyList', u, v)

Leaves(t) ==
    /\ \A u \in Threads : u # t /\ status[u] = "READY" => status'[u] \in {"READY", "RUNNING"}
    /\ \A u, v \in Threads : Precedes(readyList, u, v) => Due(u, v)'

Yields(t) ==
    /\ Leaves(t)
    /\ status'[t] \in {"READY", "RUNNING"}
    /\ \A u \in Threads : status[u] = "READY" => Due(u, t)'

\* Joining the ready list, and leaving it.
LEMMA PrecedesAppend ==
  ASSUME NEW s \in Seq(Threads), NEW x \in Threads
  PROVE  /\ \A u, v \in Threads : Precedes(s, u, v) => Precedes(Append(s, x), u, v)
         /\ \A u \in ToSet(s) : Precedes(Append(s, x), u, x)
  <1>1. /\ Len(Append(s, x)) = Len(s) + 1
        /\ \A i \in 1..Len(s) : Append(s, x)[i] = s[i]
        /\ Append(s, x)[Len(s) + 1] = x
        /\ DOMAIN s = 1..Len(s)
        /\ Len(s) \in Nat
    OBVIOUS
  <1>2. ASSUME NEW u \in Threads, NEW v \in Threads, Precedes(s, u, v)
        PROVE  Precedes(Append(s, x), u, v)
    <2>1. PICK i \in 1..Len(s), j \in 1..Len(s) : i < j /\ s[i] = u /\ s[j] = v
      BY <1>2 DEF Precedes
    <2>2. /\ i \in 1..Len(Append(s, x)) /\ j \in 1..Len(Append(s, x))
          /\ i < j /\ Append(s, x)[i] = u /\ Append(s, x)[j] = v
      BY <1>1, <2>1
    <2>3. QED
      BY <2>2 DEF Precedes
  <1>3. ASSUME NEW u \in ToSet(s)
        PROVE  Precedes(Append(s, x), u, x)
    <2>1. PICK i \in 1..Len(s) : s[i] = u
      BY <1>1 DEF ToSet
    <2>2. /\ i \in 1..Len(Append(s, x)) /\ Len(s) + 1 \in 1..Len(Append(s, x))
          /\ i < Len(s) + 1 /\ Append(s, x)[i] = u
      BY <1>1, <2>1
    <2>3. QED
      BY <1>1, <2>2 DEF Precedes
  <1>4. QED
    BY <1>2, <1>3

LEMMA PrecedesTail ==
  ASSUME NEW s \in Seq(Threads), s # <<>>,
         NEW u \in Threads, NEW v \in Threads, Precedes(s, u, v)
  PROVE  u = Head(s) \/ Precedes(Tail(s), u, v)
  <1>1. /\ Head(s) = s[1]
        /\ Len(s) \in Nat \ {0}
        /\ Len(Tail(s)) = Len(s) - 1
        /\ \A i \in 1..(Len(s) - 1) : Tail(s)[i] = s[i + 1]
    BY HeadTailProperties, LenProperties, EmptySeq
  <1>2. PICK i \in 1..Len(s), j \in 1..Len(s) : i < j /\ s[i] = u /\ s[j] = v
    BY DEF Precedes
  <1>3. CASE i # 1
    <2>1. /\ i - 1 \in 1..Len(Tail(s)) /\ j - 1 \in 1..Len(Tail(s)) /\ i - 1 < j - 1
          /\ Tail(s)[i - 1] = u /\ Tail(s)[j - 1] = v
      BY <1>1, <1>2, <1>3
    <2>2. QED
      BY <2>1 DEF Precedes
  <1>4. QED
    BY <1>1, <1>2, <1>3

\* Whoever is on the list has its turn before those behind it.
LEMMA SwitchInTurn ==
  ASSUME NEW st \in [Threads -> Status], NEW rl \in Seq(Threads),
         NEW dead \in Threads \cup {NoThread},
         Enumerates(rl, {u \in Threads : st[u] = "READY"}),
         dead # NoThread => st[dead] = "BLOCKED",
         Switch(st, rl, dead)
  PROVE  /\ \A u \in Threads : st[u] = "READY" => status'[u] \in {"READY", "RUNNING"}
         /\ \A u, v \in Threads : Precedes(rl, u, v) => Due(u, v)'
  <1>0. NoThread \notin Threads
    BY ThreadAssumption
  <1>1. CASE rl = <<>>
    <2>1. status' = st /\ readyList' = rl
      BY <1>1 DEF Switch
    <2>2. QED
      BY <2>1 DEF Due
  <1>2. CASE rl # <<>>
    <2> DEFINE next == Head(rl)
               deletes == resume[next] # "Root"
               Ready == {u \in Threads : st[u] = "READY"}
    <2>1. /\ next \in Ready
          /\ Tail(rl) \in Seq(Threads)
          /\ Enumerates(Tail(rl), Ready \ {next})
      BY <1>2, EnumeratesTail
    <2> HIDE DEF next, deletes
    <2>2. /\ readyList' = Tail(rl)
          /\ status' = [u \in Threads |->
                           CASE u = next -> "RUNNING"
                             [] u = dead /\ deletes -> "NONE"
                             [] OTHER -> st[u]]
      BY <1>2, Zenon DEF Switch, next, deletes
    <2>3. /\ status'[next] = "RUNNING"
          /\ \A u \in Threads : st[u] = "READY" => status'[u] \in {"READY", "RUNNING"}
      BY <1>0, <2>1, <2>2
    <2>4. ASSUME NEW u \in Threads, NEW v \in Threads, Precedes(rl, u, v)
          PROVE  Due(u, v)'
      BY <1>2, <2>2, <2>3, <2>4, PrecedesTail DEF Due, next
    <2>5. QED
      BY <2>3, <2>4
  <1>3. QED
    BY <1>1, <1>2

\* The calls of a running thread.
LEMMA YieldInTurn ==
  ASSUME KernelInv, NEW t \in Threads, Yield(t)
  PROVE  Yields(t)
  <1> DEFINE st == [status EXCEPT ![t] = "READY"]
             rl == Append(readyList, t)
             dead == threadToBeDestroyed
  <1>1. /\ status \in [Threads -> Status] /\ readyList \in Seq(Threads)
        /\ dead \in Threads \cup {NoThread}
        /\ status[t] = "RUNNING"
        /\ Enumerates(readyList, {u \in Threads : status[u] = "READY"})
        /\ dead # NoThread => status[dead] = "BLOCKED"
    BY DEF KernelInv, Placed, SchedTypeOK, ReadyListExact, OnlyFinishedDestroyed, Yield,
           Executing
  <1>2. /\ st \in [Threads -> Status]
        /\ rl \in Seq(Threads)
        /\ dead # NoThread => st[dead] = "BLOCKED"
        /\ {u \in Threads : st[u] = "READY"} = {u \in Threads : status[u] = "READY"} \cup {t}
    BY <1>1 DEF Status
  <1>3. Enumerates(rl, {u \in Threads : st[u] = "READY"})
    BY <1>1, <1>2, EnumeratesAppend
  <1>4. Switch(st, rl, dead)
    BY DEF Yield
  <1>5. /\ \A u \in Threads : st[u] = "READY" => status'[u] \in {"READY", "RUNNING"}
        /\ \A u, v \in Threads : Precedes(rl, u, v) => Due(u, v)'
    BY <1>1, <1>2, <1>3, <1>4, SwitchInTurn
  <1>6. \A u \in Threads : status[u] = "READY" => u \in ToSet(readyList)
    BY <1>1 DEF Enumerates
  <1>7. QED
    BY <1>1, <1>5, <1>6, PrecedesAppend DEF Yields, Leaves

LEMMA SleepInTurn ==
  ASSUME KernelInv, NEW t \in Threads, status[t] = "RUNNING",
         NEW dead \in {threadToBeDestroyed, t},
         Switch([status EXCEPT ![t] = "BLOCKED"], readyList, dead)
  PROVE  Leaves(t)
  <1> DEFINE st == [status EXCEPT ![t] = "BLOCKED"]
  <1>1. /\ status \in [Threads -> Status] /\ readyList \in Seq(Threads)
        /\ dead \in Threads \cup {NoThread}
        /\ Enumerates(readyList, {u \in Threads : status[u] = "READY"})
        /\ threadToBeDestroyed # NoThread => status[threadToBeDestroyed] = "BLOCKED"
    BY DEF KernelInv, Placed, SchedTypeOK, ReadyListExact, OnlyFinishedDestroyed
  <1>2. /\ st \in [Threads -> Status]
        /\ dead # NoThread => st[dead] = "BLOCKED"
        /\ {u \in Threads : st[u] = "READY"} = {u \in Threads : status[u] = "READY"}
    BY <1>1 DEF Status
  <1>3. /\ \A u \in Threads : st[u] = "READY" => status'[u] \in {"READY", "RUNNING"}
        /\ \A u, v \in Threads : Precedes(readyList, u, v) => Due(u, v)'
    BY <1>1, <1>2, SwitchInTurn
  <1>4. QED
    BY <1>1, <1>3 DEF Leaves

LEMMA StillKeeps ==
  ASSUME NEW t \in Threads, Executing(t), UNCHANGED schedVars
  PROVE  Keeps(t)
  BY DEF Keeps, Executing, schedVars, Precedes

LEMMA SignalKeeps ==
  ASSUME KernelInv, NEW t \in Threads, Executing(t), NEW s \in Semaphores, Signal(s)
  PROVE  Keeps(t)
  <1>1. CASE UNCHANGED schedVars
    BY <1>1, StillKeeps
  <1>2. CASE queue[s] # <<>> /\ ReadyToRun(Head(queue[s]))
    <2> DEFINE h == Head(queue[s])
    <2>1. h \in Threads /\ status[h] = "BLOCKED"
      <3>1. queue[s] \in Seq(Threads) /\ Enumerates(queue[s], Sleepers(s))
        BY DEF KernelInv, Placed, QueuesExact, Objects
      <3>2. h \in Sleepers(s)
        BY <1>2, <3>1, EnumeratesTail
      <3>3. QED
        BY <3>2 DEF Sleepers
    <2> HIDE DEF h
    <2>2. /\ status' = [status EXCEPT ![h] = "READY"]
          /\ readyList' = Append(readyList, h)
          /\ UNCHANGED <<currentThread, resume>>
      BY <1>2 DEF ReadyToRun, h
    <2>3. status \in [Threads -> Status] /\ readyList \in Seq(Threads)
      BY DEF KernelInv, Placed, SchedTypeOK
    <2>4. \A u, v \in Threads : Precedes(readyList, u, v) => Precedes(readyList', u, v)
      BY <2>1, <2>2, <2>3, PrecedesAppend
    <2>5. QED
      BY <2>1, <2>2, <2>3, <2>4 DEF Keeps, Executing
  <1>3. QED
    BY <1>1, <1>2 DEF Signal

LEMMA LocalKeeps ==
  ASSUME NEW t \in Threads, Executing(t), NEW p, Local(t, p)
  PROVE  Keeps(t)
  BY LocalEffect, StillKeeps DEF vars

LEMMA CallYieldInTurn ==
  ASSUME KernelInv, NEW t \in Threads, Executing(t), NEW p, CallYield(t, p)
  PROVE  (readyList = <<>> /\ Keeps(t)) \/ Yields(t)
  <1>1. CASE readyList = <<>> /\ UNCHANGED schedVars
    BY <1>1, StillKeeps
  <1>2. CASE Yield(t)
    BY <1>2, YieldInTurn
  <1>3. QED
    BY <1>1, <1>2 DEF CallYield

LEMMA CallVKeeps ==
  ASSUME KernelInv, NEW t \in Threads, NEW s \in Semaphores, NEW p, CallV(t, s, p)
  PROVE  Keeps(t)
  BY SignalKeeps DEF CallV, V

LEMMA CallPInTurn ==
  ASSUME KernelInv, NEW t \in Threads, NEW s \in Semaphores, NEW p, CallP(t, s, p)
  PROVE  /\ semValue[s] > 0 => Keeps(t)
         /\ Keeps(t) \/ Leaves(t)
  <1>1. CASE semValue[s] > 0 /\ UNCHANGED schedVars
    BY <1>1, StillKeeps DEF CallP, P
  <1>2. CASE semValue[s] = 0 /\ WaitOn(t, s, "P")
    BY <1>2, SleepInTurn DEF WaitOn, Sleep, CallP, P, Executing
  <1>3. semValue[s] \in Nat
    BY DEF KernelInv, ValuesOK
  <1>4. QED
    BY <1>1, <1>2, <1>3 DEF CallP, P

LEMMA CallFinishLeaves ==
  ASSUME KernelInv, NEW t \in Threads, NEW p, CallFinish(t, p)
  PROVE  Leaves(t)
  BY SleepInTurn DEF CallFinish, End, Finish, Executing

\* Nobody sits down before all have entered, nor dines before all have sat down; and
\* who gets up does so when there are no meals.
Seated ==
    /\ toWait \in [Threads -> Nat]
    /\ numPhilsEntered \in Nat /\ numPhilsSat \in Int
    /\ \A t \in Workers : pc[t] \notin {"start", "entered"} => numPhilsEntered >= N
    /\ numMeals > 0 => \A t \in Workers :
           /\ pc[t] \notin {"ready", "left"}
           /\ pc[t] \notin Early => numPhilsSat >= N

Cooperative == \A t \in Workers : pc[t] \in Steady => Executing(t)

\* main forks all of them before any runs, and then none is lost
ForkedFirst ==
    IF pc[Main] = "start"
    THEN /\ Executing(Main)
         /\ forked \in 0..N
         /\ \A u \in Workers : /\ pc[u] = "start"
                               /\ Number[u] < forked => status[u] = "READY"
    ELSE \A u \in Workers : pc[u] \in Early => status[u] \in {"READY", "RUNNING"}

\* Whoever has not begun has its turn before one who eats gets the CPU back.
InTurn ==
    numMeals > 0 => \A t, u \in Workers : pc[u] \in Early =>
        /\ ~ Passed(t)
        /\ pc[t] = "eating" => (Executing(t) /\ toWait[t] > 0) \/ Due(u, t)

TurnsInv == Seated /\ Cooperative /\ ForkedFirst /\ InTurn

\* A thread on the CPU is behind nobody.
LEMMA RunningNotBehind ==
  ASSUME KernelInv, NEW t \in Threads, Executing(t), NEW u \in Threads
  PROVE  /\ status[u] = "RUNNING" => u = t
         /\ Executing(u) => u = t
         /\ Due(u, t) => u = t
         /\ status[u] = "READY" => readyList # <<>>
  <1>1. /\ readyList \in Seq(Threads)
        /\ Enumerates(readyList, {v \in Threads : status[v] = "READY"})
        /\ status[u] = "RUNNING" => u = t
        /\ status[t] = "RUNNING"
    BY DEF KernelInv, Placed, SchedTypeOK, ReadyListExact, OneRunning, Executing
  <1>2. \A i \in 1..Len(readyList) : status[readyList[i]] = "READY"
    BY <1>1 DEF Enumerates, ToSet
  <1>3. ~ Precedes(readyList, u, t)
    BY <1>1, <1>2 DEF Precedes
  <1>4. status[u] = "READY" => readyList # <<>>
    BY <1>1 DEF Enumerates, ToSet
  <1>5. QED
    BY <1>1, <1>3, <1>4 DEF Due, Executing

\* A step of t, which goes to p, and what it does with the turns.
Turn(t, p) ==
    /\ pc' = [pc EXCEPT ![t] = p]
    /\ toWait' \in [Threads -> Nat]
    /\ \A u \in Workers : u # t => toWait'[u] = toWait[u] /\ testing'[u] = testing[u]
    /\ numMeals' <= numMeals /\ numMeals' \in Int
    /\ numPhilsEntered' \in Nat /\ numPhilsEntered' >= numPhilsEntered
    /\ numPhilsSat' \in Int /\ (numMeals > 0 => numPhilsSat' >= numPhilsSat)
    /\ \/ Keeps(t)
       \/ p \in Early \cup {"eating", "thinking", "ready"} /\ Yields(t)
       \/ p \in {"eat", "left"} /\ Leaves(t)
    /\ p \in Early => pc[t] \in Early
    /\ p \in {"start", "entered"} => pc[t] \in {"start", "entered"}
    /\ pc[t] \in {"start", "entered"} => p \in {"start", "entered"} \/ numPhilsEntered >= N
    /\ pc[t] \in Early => p \in Early \/ numPhilsSat >= N
    /\ p \in {"ready", "left"} => pc[t] \in {"ready", "left"} \/ numMeals <= 0
    /\ p \in Early /\ numPhilsEntered >= N /\ numPhilsSat >= N => Keeps(t)
    /\ p = "eating" => \/ pc[t] = "eat" /\ Keeps(t) /\ toWait'[t] > 0
                       \/ pc[t] = "eating" /\ (readyList = <<>> \/ Yields(t))
    /\ Passed(t)' => Passed(t) \/ (pc[t] = "eating" /\ toWait[t] = 0)

LEMMA TurnKeepsInv ==
  ASSUME TestInv, MealsInv, TurnsInv, NEW t \in Workers, Executing(t), NEW p, Turn(t, p)
  PROVE  TurnsInv'
  <1>0. /\ t \in Threads /\ Workers \subseteq Threads /\ Main \in Threads /\ Main # t
        /\ KernelInv /\ N \in Nat /\ numMeals \in Nat
        /\ pc \in [Threads -> Places]
    BY ThreadAssumption, ProgramAssumption DEF Workers, TestInv, TestTypeOK, MealsInv
  <1>1. /\ \A u \in Workers : pc'[u] = IF u = t THEN p ELSE pc[u]
        /\ pc'[Main] = pc[Main]
    BY <1>0 DEF Turn, Workers
  <1>2. \A u \in Threads : /\ status[u] = "RUNNING" => u = t
                           /\ Executing(u) => u = t
                           /\ Due(u, t) => u = t
                           /\ status[u] = "READY" => readyList # <<>>
    BY <1>0, RunningNotBehind
  <1>3. pc[Main] # "start"
    BY <1>0, <1>2 DEF TurnsInv, ForkedFirst
  <1>4. Keeps(t) => Executing(t)' /\ status'[t] = "RUNNING"
    BY DEF Keeps, Executing
  <1>5. \A u \in Workers : pc[u] \in Early => status[u] = "READY" \/ u = t
    BY <1>0, <1>2, <1>3 DEF TurnsInv, ForkedFirst
  <1>6. Seated'
    <2>1. /\ toWait' \in [Threads -> Nat]
          /\ numPhilsEntered' \in Nat /\ numPhilsSat' \in Int
      BY DEF Turn
    <2>2. ASSUME NEW u \in Workers, pc'[u] \notin {"start", "entered"}
          PROVE  numPhilsEntered' >= N
      BY <1>0, <1>1, <2>2 DEF Turn, TurnsInv, Seated
    <2>3. ASSUME numMeals' > 0, NEW u \in Workers
          PROVE  pc'[u] \notin {"ready", "left"} /\ (pc'[u] \notin Early => numPhilsSat' >= N)
      <3>1. numMeals > 0 /\ numPhilsSat' >= numPhilsSat
        BY <1>0, <2>3 DEF Turn
      <3>2. QED
        BY <1>0, <1>1, <3>1 DEF Turn, TurnsInv, Seated
    <2>4. QED
      BY <2>1, <2>2, <2>3 DEF Seated
  <1>7. Cooperative'
    <2>1. p \in Steady => Keeps(t)
      BY DEF Turn, Steady, Early
    <2>2. QED
      BY <1>0, <1>1, <1>2, <1>4, <2>1 DEF TurnsInv, Cooperative
  <1>8. ForkedFirst'
    <2>1. ASSUME NEW u \in Workers, pc'[u] \in Early
          PROVE  status'[u] \in {"READY", "RUNNING"}
      <3>1. CASE u = t
        BY <1>1, <1>4, <2>1, <3>1 DEF Turn, Yields, Early
      <3>2. CASE u # t
        <4>1. status[u] = "READY"
          BY <1>1, <1>5, <2>1, <3>2
        <4>2. QED
          BY <1>0, <3>2, <4>1 DEF Turn, Keeps, Yields, Leaves
      <3>3. QED
        BY <3>1, <3>2
    <2>2. QED
      BY <1>1, <1>3, <2>1 DEF ForkedFirst
  <1>9. InTurn'
    <2> SUFFICES ASSUME numMeals' > 0, NEW v \in Workers, NEW u \in Workers, pc'[u] \in Early
                 PROVE  /\ ~ Passed(v)'
                        /\ pc'[v] = "eating" =>
                              (Executing(v) /\ toWait[v] > 0)' \/ Due(u, v)'
      BY DEF InTurn
    <2>1. numMeals > 0 /\ pc[u] \in Early
      BY <1>0, <1>1 DEF Turn
    <2>2. /\ ~ Passed(v)
          /\ pc[v] = "eating" => (Executing(v) /\ toWait[v] > 0) \/ Due(u, v)
      BY <2>1 DEF TurnsInv, InTurn
    <2>3. v # t => (Passed(v)' <=> Passed(v))
      BY <1>1 DEF Turn, Passed
    <2>4. pc[t] = "eating" => u # t
      BY <2>1 DEF Early
    <2>5. ~ Passed(v)'
      BY <1>0, <1>2, <2>2, <2>3, <2>4 DEF Turn
    <2>6. ASSUME v = t, pc'[v] = "eating"
         PROVE  (Executing(v) /\ toWait[v] > 0)' \/ Due(u, v)'
      <3>1. CASE pc[t] = "eat" /\ Keeps(t) /\ toWait'[t] > 0
        BY <1>4, <2>6, <3>1 DEF Executing
      <3>2. CASE pc[t] = "eating"
        <4>1. status[u] = "READY" /\ readyList # <<>>
          BY <1>0, <1>2, <1>5, <2>1, <2>4, <3>2
        <4>2. Yields(t)
          BY <1>1, <2>6, <3>2, <4>1 DEF Turn
        <4>3. QED
          BY <1>0, <2>6, <4>1, <4>2 DEF Yields, Due, Precedes
      <3>3. QED
        BY <1>1, <2>6, <3>1, <3>2 DEF Turn
    <2>7. ASSUME v # t, pc'[v] = "eating"
         PROVE  (Executing(v) /\ toWait[v] > 0)' \/ Due(u, v)'
      <3>1. pc[v] = "eating" /\ Due(u, v)
        BY <1>0, <1>1, <1>2, <2>2, <2>7
      <3>2. CASE status[u] = "RUNNING"
        <4>1. u = t /\ p \in Early
          BY <1>0, <1>1, <1>2, <3>2
        <4>2. numPhilsEntered >= N /\ numPhilsSat >= N
          BY <2>1, <3>1 DEF TurnsInv, Seated, Early
        <4>3. QED
          <5>1. status'[t] = "RUNNING"
            BY <1>4, <4>1, <4>2 DEF Turn
          <5>2. QED
            BY <4>1, <5>1 DEF Due
      <3>3. CASE Precedes(readyList, u, v)
        <4>1. Keeps(t) \/ Leaves(t)
          BY DEF Turn, Yields
        <4>2. Keeps(t) => Due(u, v)'
          BY <1>0, <3>3 DEF Keeps, Due, Precedes
        <4>3. QED
          BY <1>0, <3>3, <4>1, <4>2 DEF Leaves
      <3>4. QED
        BY <3>1, <3>2, <3>3 DEF Due
    <2>8. QED
      BY <2>5, <2>6, <2>7
  <1>10. QED
    BY <1>6, <1>7, <1>8, <1>9 DEF TurnsInv

\* Each step of Dine and of the philosophers with semaphores is such a step.
LEMMA TurnTaken ==
  ASSUME TestInv, MutexHeld, MealsInv, TurnsInv, NEW t \in Workers,
         SemaphoreStep(t) \/ DineStep(t), task = 4
  PROVE  Executing(t) /\ \E p : Turn(t, p)
  <1>1. /\ t \in Threads /\ Workers \subseteq Threads
        /\ KernelInv /\ N \in Nat /\ numMeals \in Nat
        /\ toWait \in [Threads -> Nat]
        /\ testing \in [Workers -> {"self", "left", "right"}]
        /\ numPhilsEntered \in Nat /\ numPhilsSat \in Int
        /\ numMeals <= numMeals
        /\ pc \in [Threads -> Places]
        /\ Mutex \in Semaphores /\ SemChops[Number[t]] \in Semaphores
        /\ SemChops[Target(t)] \in Semaphores
    <2>1. Target(t) \in 0..(N - 1) /\ Number[t] \in 0..(N - 1)
      BY TargetIsSeat, ChopsSemaphores DEF TestInv, TestTypeOK
    <2>2. QED
      BY <2>1, ProgramAssumption, ChopsSemaphores
      DEF Workers, TestInv, TestTypeOK, MealsInv, TurnsInv, Seated
  <1>2. Executing(t)
    BY DEF At, SemaphoreStep, take_chopsticks, test, CountMeal, AfterTest,
           AwaitChopsticks, eat, put_chopsticks, think, DineStep, Enter, SitDown,
           AwaitOthers, Dine, Leave
  \* mutex is free where t asks for it
  <1>3. pc[t] \in {"dine", "eating"} => semValue[Mutex] > 0
    <2>1. ASSUME NEW u \in Workers, InMutex(u)
          PROVE  u = t
      <3>1. Executing(u)
        BY <2>1 DEF InMutex, TurnsInv, Cooperative, Steady
      <3>2. QED
        BY <1>1, <1>2, <3>1, RunningNotBehind
    <2>2. QED
      BY <2>1 DEF MutexHeld, InMutex
  <1> DEFINE Same == UNCHANGED <<numPhilsEntered, numPhilsSat, numMeals>>
  <1>4. ASSUME NEW p, Local(t, p)
        PROVE  pc' = [pc EXCEPT ![t] = p] /\ Keeps(t)
    BY <1>1, <1>2, <1>4, LocalKeeps DEF Local, GoTo
  <1>5. ASSUME NEW s \in Semaphores, NEW p, CallV(t, s, p)
        PROVE  pc' = [pc EXCEPT ![t] = p] /\ Keeps(t)
    BY <1>1, <1>5, CallVKeeps DEF CallV, GoTo
  <1>6. ASSUME NEW s \in Semaphores, NEW p, CallP(t, s, p)
        PROVE  /\ pc' = [pc EXCEPT ![t] = p]
               /\ semValue[s] > 0 => Keeps(t)
               /\ Keeps(t) \/ Leaves(t)
    BY <1>1, <1>6, CallPInTurn DEF CallP, GoTo
  <1>7. ASSUME NEW p, CallYield(t, p)
        PROVE  /\ pc' = [pc EXCEPT ![t] = p]
               /\ (readyList = <<>> /\ Keeps(t)) \/ Yields(t)
    BY <1>1, <1>2, <1>7, CallYieldInTurn DEF CallYield, GoTo
  <1>8. CASE Enter(t)
    <2>1. Turn(t, "entered")
      BY <1>1, <1>4, <1>8 DEF Enter, At, Turn, Passed, Early
    <2>2. QED
      BY <1>2, <2>1
  <1>9. CASE SitDown(t)
    <2>1. CASE numPhilsEntered < N /\ CallYield(t, "entered") /\ UNCHANGED numPhilsSat
      <3>1. Turn(t, "entered")
        BY <1>1, <1>7, <1>9, <2>1 DEF SitDown, At, Turn, Passed, Early
      <3>2. QED
        BY <1>2, <3>1
    <2>2. CASE numPhilsEntered >= N /\ numPhilsSat' = numPhilsSat + 1 /\ Local(t, "sat")
      <3>1. Turn(t, "sat")
        BY <1>1, <1>4, <1>9, <2>2 DEF SitDown, At, Turn, Passed, Early
      <3>2. QED
        BY <1>2, <3>1
    <2>3. QED
      BY <1>9, <2>1, <2>2 DEF SitDown
  <1>10. CASE AwaitOthers(t)
    <2>1. CASE numPhilsSat < N /\ CallYield(t, "sat")
      <3>1. Turn(t, "sat")
        BY <1>1, <1>7, <1>10, <2>1 DEF AwaitOthers, At, Turn, Passed, Early, diningVars
      <3>2. QED
        BY <1>2, <3>1
    <2>2. CASE numPhilsSat >= N /\ Local(t, "dine")
      <3>1. Turn(t, "dine")
        BY <1>1, <1>4, <1>10, <2>2 DEF AwaitOthers, At, Turn, Passed, Early, diningVars
      <3>2. QED
        BY <1>2, <3>1
    <2>3. QED
      BY <1>10, <2>1, <2>2 DEF AwaitOthers
  <1>11. CASE Dine(t)
    <2>1. CASE CallP(t, Mutex, "take") /\ UNCHANGED <<state, testing, numPhilsSat>>
      <3>1. Keeps(t) /\ pc' = [pc EXCEPT ![t] = "take"]
        BY <1>1, <1>3, <1>6, <1>11, <2>1 DEF Dine, At
      <3>2. Turn(t, "take")
        BY <1>1, <1>11, <2>1, <3>1 DEF Dine, At, Turn, Passed, Early
      <3>3. QED
        BY <1>2, <3>2
    <2>2. CASE /\ numMeals <= 0 /\ numPhilsSat' = numPhilsSat - 1 /\ Local(t, "ready")
               /\ UNCHANGED <<state, testing>>
      <3>1. Turn(t, "ready")
        BY <1>1, <1>4, <1>11, <2>2 DEF Dine, At, Turn, Passed, Early
      <3>2. QED
        BY <1>2, <3>1
    <2>3. QED
      BY <1>11, <2>1, <2>2 DEF Dine
  <1>12. CASE Leave(t)
    <2>1. CASE CallYield(t, "ready")
      <3>1. Turn(t, "ready")
        BY <1>1, <1>7, <1>12, <2>1 DEF Leave, At, Turn, Passed, Early, diningVars
      <3>2. QED
        BY <1>2, <3>1
    <2>2. CASE CallFinish(t, "left")
      <3>1. Leaves(t) /\ pc' = [pc EXCEPT ![t] = "left"]
        BY <1>1, <2>2, CallFinishLeaves DEF CallFinish, GoTo
      <3>2. Turn(t, "left")
        BY <1>1, <1>12, <3>1 DEF Leave, At, Turn, Passed, Early, diningVars
      <3>3. QED
        BY <1>2, <3>2
    <2>3. QED
      BY <1>12, <2>1, <2>2 DEF Leave
  <1>13. CASE take_chopsticks(t)
    <2>1. Turn(t, "test")
      BY <1>1, <1>4, <1>13 DEF take_chopsticks, TestFor, At, Turn, Passed, Early
    <2>2. QED
      BY <1>2, <2>1
  <1>14. CASE test(t)
    <2>1. CASE CallV(t, SemChops[Target(t)], "granted")
      <3>1. Turn(t, "granted")
        BY <1>1, <1>5, <1>14, <2>1 DEF test, At, Turn, Passed, Early
      <3>2. QED
        BY <1>2, <3>1
    <2>2. CASE Local(t, "tested")
      <3>1. Turn(t, "tested")
        BY <1>1, <1>4, <1>14, <2>2 DEF test, At, Turn, Passed, Early
      <3>2. QED
        BY <1>2, <3>1
    <2>3. QED
      BY <1>14, <2>1, <2>2 DEF test
  <1>15. CASE CountMeal(t)
    <2>1. Turn(t, "tested")
      BY <1>1, <1>4, <1>15 DEF CountMeal, At, Turn, Passed, Early
    <2>2. QED
      BY <1>2, <2>1
  <1>16. CASE AfterTest(t)
    <2>1. CASE testing[t] = "self" /\ CallV(t, Mutex, "await") /\ UNCHANGED testing
      <3>1. Turn(t, "await")
        BY <1>1, <1>5, <1>16, <2>1 DEF AfterTest, At, Turn, Passed, Early
      <3>2. QED
        BY <1>2, <3>1
    <2>2. CASE testing[t] = "left" /\ TestFor(t, "right") /\ Local(t, "test")
      <3>1. Turn(t, "test")
        BY <1>1, <1>4, <1>16, <2>2 DEF AfterTest, TestFor, At, Turn, Passed, Early
      <3>2. QED
        BY <1>2, <3>1
    <2>3. CASE testing[t] = "right" /\ CallV(t, Mutex, "think") /\ UNCHANGED testing
      <3>1. Turn(t, "think")
        BY <1>1, <1>5, <1>16, <2>3 DEF AfterTest, At, Turn, Passed, Early
      <3>2. QED
        BY <1>2, <3>1
    <2>4. QED
      BY <1>16, <2>1, <2>2, <2>3 DEF AfterTest
  <1>17. CASE AwaitChopsticks(t)
    <2>1. Turn(t, "eat")
      BY <1>1, <1>6, <1>17 DEF AwaitChopsticks, At, Turn, Passed, Early, diningVars
    <2>2. QED
      BY <1>2, <2>1
  <1>18. CASE eat(t)
    <2>1. CASE At(t, "eat") /\ Pause(t) /\ Local(t, "eating")
      <3>1. PICK n \in Pauses : toWait' = [toWait EXCEPT ![t] = n]
        BY <2>1 DEF Pause
      <3>2. n \in Nat /\ n > 0
        BY ProgramAssumption
      <3>3. Turn(t, "eating")
        BY <1>1, <1>4, <1>18, <2>1, <3>1, <3>2 DEF eat, At, Turn, Passed, Early, diningVars
      <3>4. QED
        BY <1>2, <3>3
    <2>2. CASE At(t, "eating") /\ Waiting(t, "eating")
      <3>1. Turn(t, "eating")
        BY <1>1, <1>7, <1>18, <2>2 DEF eat, Waiting, At, Turn, Passed, Early, diningVars
      <3>2. QED
        BY <1>2, <3>1
    <2>3. CASE At(t, "eating") /\ toWait[t] = 0 /\ CallP(t, Mutex, "put") /\ UNCHANGED toWait
      <3>1. Keeps(t) /\ pc' = [pc EXCEPT ![t] = "put"]
        BY <1>1, <1>3, <1>6, <2>3 DEF At
      <3>2. Turn(t, "put")
        BY <1>1, <1>18, <2>3, <3>1 DEF eat, At, Turn, Passed, Early, diningVars
      <3>3. QED
        BY <1>2, <3>2
    <2>4. QED
      BY <1>18, <2>1, <2>2, <2>3 DEF eat
  <1>19. CASE put_chopsticks(t)
    <2>1. Turn(t, "test")
      BY <1>1, <1>4, <1>19 DEF put_chopsticks, TestFor, At, Turn, Passed, Early
    <2>2. QED
      BY <1>2, <2>1
  <1>20. CASE think(t)
    <2>1. CASE At(t, "think") /\ Pause(t) /\ Local(t, "thinking")
      <3>1. PICK n \in Pauses : toWait' = [toWait EXCEPT ![t] = n]
        BY <2>1 DEF Pause
      <3>2. n \in Nat
        BY ProgramAssumption
      <3>3. Turn(t, "thinking")
        BY <1>1, <1>4, <1>20, <2>1, <3>1, <3>2 DEF think, At, Turn, Passed, Early
      <3>4. QED
        BY <1>2, <3>3
    <2>2. CASE At(t, "thinking") /\ Waiting(t, "thinking")
      <3>1. Turn(t, "thinking")
        BY <1>1, <1>7, <1>20, <2>2 DEF think, Waiting, At, Turn, Passed, Early
      <3>2. QED
        BY <1>2, <3>1
    <2>3. CASE At(t, "thinking") /\ Local(t, "dine") /\ UNCHANGED toWait
      <3>1. Turn(t, "dine")
        BY <1>1, <1>4, <1>20, <2>3 DEF think, At, Turn, Passed, Early
      <3>2. QED
        BY <1>2, <3>1
    <2>4. QED
      BY <1>20, <2>1, <2>2, <2>3 DEF think
  <1>21. QED
    BY <1>8, <1>9, <1>10, <1>11, <1>12, <1>13, <1>14, <1>15, <1>16, <1>17, <1>18, <1>19,
       <1>20 DEF SemaphoreStep, DineStep

\* main, which forks all the threads in one turn.
LEMMA StartTurns ==
  ASSUME TestInv, task = 4, TurnsInv, Start
  PROVE  TurnsInv'
  <1>0. /\ Main \in Threads /\ Main \notin Workers /\ Workers \subseteq Threads
        /\ KernelInv /\ N \in Nat \ {0} /\ threadChoice = 0
        /\ Number \in [Workers -> 0..(N - 1)]
        /\ pc \in [Threads -> Places]
    BY ThreadAssumption, ProgramAssumption DEF Workers, TestInv, TestTypeOK
  <1>1. /\ ForkWorkers(N) /\ UNCHANGED diningVars
        /\ UNCHANGED toWait
    BY <1>0 DEF Start, ForkZombies, ForkWorkers, ForkNext, NoProgram, OnlyShouts
  <1>2. /\ pc[Main] = "start" /\ Executing(Main) /\ forked \in 0..N
        /\ \A u \in Workers : pc[u] = "start" /\ (Number[u] < forked => status[u] = "READY")
    BY <1>1 DEF ForkWorkers, At, TurnsInv, ForkedFirst
  <1>3. CASE forked < N /\ ForkNext(Worker(forked))
    <2> DEFINE w == Worker(forked)
    <2>1. w \in Workers /\ Number[w] = forked
      BY <1>0, <1>2, <1>3, WorkerOf
    <2> HIDE DEF w
    <2>2. /\ status' = [status EXCEPT ![w] = "READY"]
          /\ resume' = [resume EXCEPT ![w] = "Root"]
          /\ currentThread' = currentThread
          /\ forked' = forked + 1 /\ pc' = pc
      BY <1>3 DEF ForkNext, Fork, w
    <2>3. status \in [Threads -> Status]
      BY <1>0 DEF KernelInv, Placed, SchedTypeOK
    <2>4. Executing(Main)'
      BY <1>0, <1>2, <2>1, <2>2 DEF Executing
    <2>5. \A u \in Workers : Number[u] < forked' => status'[u] = "READY"
      <3>1. \A u \in Workers : Number[u] = forked => u = w
        BY <2>1, ProgramAssumption
      <3>2. QED
        BY <1>0, <1>2, <2>1, <2>2, <2>3, <3>1
    <2>6. ForkedFirst'
      BY <1>0, <1>2, <1>3, <2>2, <2>4, <2>5 DEF ForkedFirst
    <2>7. Seated'
      BY <1>1, <2>2 DEF TurnsInv, Seated, diningVars
    <2>8. Cooperative' /\ InTurn'
      BY <1>2, <2>2 DEF Cooperative, Steady, InTurn, Passed
    <2>9. QED
      BY <2>6, <2>7, <2>8 DEF TurnsInv
  <1>4. CASE forked = N /\ CallFinish(Main, "left")
    <2>1. pc' = [pc EXCEPT ![Main] = "left"]
      BY <1>4 DEF CallFinish, GoTo
    <2>2. Leaves(Main)
      BY <1>0, <1>4, CallFinishLeaves
    <2>3. \A u \in Workers : pc'[u] = "start" /\ status[u] = "READY"
      BY <1>0, <1>2, <1>4, <2>1
    <2>4. ForkedFirst'
      BY <1>0, <2>1, <2>2, <2>3 DEF ForkedFirst, Leaves
    <2>5. Seated'
      BY <1>0, <1>1, <2>1, <2>3 DEF TurnsInv, Seated, diningVars, Early
    <2>6. Cooperative' /\ InTurn'
      BY <2>3 DEF Cooperative, Steady, InTurn, Passed
    <2>7. QED
      BY <2>4, <2>5, <2>6 DEF TurnsInv
  <1>5. QED
    BY <1>1, <1>3, <1>4 DEF ForkWorkers

\* The kernel goes on with the call of a thread.
LEMMA ContinueTurns ==
  ASSUME TestInv, TurnsInv, NEW x \in Threads, Continue(x), NoProgram
  PROVE  TurnsInv'
  <1>0. /\ Main \in Threads /\ Workers \subseteq Threads /\ KernelInv
    BY ThreadAssumption DEF Workers, TestInv
  <1>1. UNCHANGED <<pc, toWait, forked, diningVars>>
    BY <1>0, ContinueEffect DEF NoProgram, OnlyShouts, options
  <1>2. Resumed(x)
    BY DEF Continue, EnableInterrupts, ResumeP
  <1>3. \A u \in Threads : /\ ~ Executing(u)
                           /\ status[u] = "RUNNING" => u = x
    BY <1>0, <1>2 DEF Executing, Resumed, KernelInv, Placed, OneRunning
  <1>4. \/ UNCHANGED <<status, readyList>>
        \/ Leaves(x) /\ resume[x] = "P"
    <2>1. CASE EnableInterrupts(x)
      BY <2>1 DEF EnableInterrupts
    <2>2. CASE ResumeP(x)
      <3>1. CASE UNCHANGED <<status, readyList>>
        BY <3>1
      <3>2. CASE WaitOn(x, waitsFor[x], "P")
        BY <1>0, <1>2, <2>2, <3>2, SleepInTurn DEF WaitOn, Sleep, Resumed, ResumeP
      <3>3. QED
        BY <2>2, <3>1, <3>2 DEF ResumeP
    <2>3. QED
      BY <2>1, <2>2 DEF Continue
  <1>5. resume[x] = "P" => pc[x] \notin Early
    <2>1. resume[x] = "P" => Waits[x] # NoObject
      BY <1>0, SynchAssumption DEF Waits, KernelInv, Placed
    <2>2. QED
      BY <2>1 DEF TestInv, Blocked, Awaited, Early
  <1>6. pc[Main] # "start"
    BY <1>0, <1>3 DEF TurnsInv, ForkedFirst
  <1>7. Seated'
    BY <1>1 DEF TurnsInv, Seated, diningVars
  <1>8. Cooperative'
    BY <1>0, <1>1, <1>3 DEF TurnsInv, Cooperative
  <1>9. ASSUME Leaves(x), resume[x] = "P", NEW u \in Workers, pc[u] \in Early,
               status[u] \in {"READY", "RUNNING"}
        PROVE  u # x /\ status[u] = "READY" /\ status'[u] \in {"READY", "RUNNING"}
    BY <1>0, <1>3, <1>5, <1>9 DEF Leaves
  <1>10. ForkedFirst'
    BY <1>1, <1>4, <1>6, <1>9 DEF TurnsInv, ForkedFirst
  <1>11. InTurn'
    <2> SUFFICES ASSUME numMeals > 0, NEW t \in Workers, NEW u \in Workers, pc[u] \in Early
                 PROVE  /\ ~ Passed(t)
                        /\ pc[t] = "eating" => Due(u, t)'
      BY <1>1 DEF InTurn, diningVars, Passed
    <2>1. /\ ~ Passed(t)
          /\ pc[t] = "eating" => Due(u, t)
      BY <1>0, <1>3 DEF TurnsInv, InTurn
    <2>2. status[u] \in {"READY", "RUNNING"}
      BY <1>6 DEF TurnsInv, ForkedFirst
    <2>3. CASE UNCHANGED <<status, readyList>>
      BY <2>1, <2>3 DEF Due, Precedes
    <2>4. CASE Leaves(x) /\ resume[x] = "P"
      BY <1>0, <1>9, <2>1, <2>2, <2>4 DEF Leaves, Due
    <2>5. QED
      BY <1>4, <2>3, <2>4
  <1>12. QED
    BY <1>7, <1>8, <1>10, <1>11 DEF TurnsInv

LEMMA SameTurns ==
  ASSUME TurnsInv, UNCHANGED allVars
  PROVE  TurnsInv'
  <1>1. UNCHANGED <<pc, toWait, forked, testing, numMeals, numPhilsEntered, numPhilsSat,
                    status, readyList, currentThread, resume>>
    BY DEF allVars, programVars, diningVars, vars, schedVars
  <1>2. QED
    BY <1>1 DEF TurnsInv, Seated, Cooperative, ForkedFirst, InTurn, Passed, Due, Precedes,
                Executing

LEMMA TurnsStart ==
  ASSUME TestInit
  PROVE  TurnsInv
  <1>1. /\ pc = [t \in Threads |-> "start"]
        /\ toWait = [t \in Threads |-> 0]
        /\ forked = 0
        /\ numPhilsEntered = 0 /\ numPhilsSat = 0
        /\ status[Main] = "RUNNING" /\ currentThread = Main /\ resume[Main] = "None"
    BY ThreadAssumption DEF TestInit, ProgramInit, Init, SchedInit, DiningInit
  <1>2. /\ N \in Nat /\ Main \in Threads /\ Workers \subseteq Threads
        /\ \A u \in Workers : Number[u] >= 0 /\ Number[u] \in Int
    BY ThreadAssumption, ProgramAssumption DEF Workers
  <1>3. QED
    BY <1>1, <1>2 DEF TurnsInv, Seated, Cooperative, ForkedFirst, InTurn, Early, Steady,
                      Passed, Executing

\* A thread that tests for its neighbours finds all of them beyond their first turn.
LEMMA NeighbourSat ==
  ASSUME TestInv, MealsInv, TurnsInv, NEW t \in Workers, At(t, "test"), numMeals > 0,
         testing[t] # "self", NEW u \in Workers
  PROVE  pc[u] \notin Early \cup {"dine", "take", "ready", "left"}
  <1>1. Passed(t)
    BY DEF Passed, At
  <1>2. pc[u] \notin Early /\ pc[u] \notin {"ready", "left"}
    BY <1>1 DEF TurnsInv, InTurn, Seated
  <1>3. pc[u] \in {"dine", "take"} => u = t
    <2>1. t \in Threads /\ u \in Threads /\ KernelInv
      BY DEF Workers, TestInv
    <2>2. QED
      BY <2>1, RunningNotBehind DEF TurnsInv, Cooperative, Steady, At
  <1>4. QED
    BY <1>2, <1>3 DEF At

-----------------------------------------------------------------------------
(* The table.                                                              *)

\* What every state of the philosophers has.
DinersInv ==
    /\ task = 4 => MutexHeld /\ MealsInv /\ (~ randomYield => TurnsInv)
    /\ task = 4 /\ ~ MayBeServedEarly => TableInv
    /\ task # 4 => \A i \in Philosophers : semValue[SemChops[i]] = 0
    /\ ChopsticksApart

\* A step that leaves the table as it is.
LEMMA TableSame ==
  ASSUME TableInv, NEW t \in Workers, state' = state,
         \A u \in Workers : semValue'[SemChops[Number[u]]] = semValue[SemChops[Number[u]]],
         \A u \in Workers : (AtMeal(u)' <=> AtMeal(u)) /\ (Served(u)' <=> Served(u)),
         \A u \in Workers : Unbegun(u) => Unbegun(u)'
  PROVE  TableInv'
  <1>1. Granted'
    BY DEF TableInv, Granted
  <1>2. Apart'
    BY DEF TableInv, Apart, Given
  <1>3. QED
    BY <1>1, <1>2 DEF TableInv

\* What a step of the four-semaphore programs does with the table.
LEMMA TableKept ==
  ASSUME TestInv, task = 4, TableInv, MealsInv, ~ randomYield => TurnsInv,
         NEW t \in Workers, SemaphoreStep(t) \/ DineStep(t)
  PROVE  TableInv'
  <1> USE DEF AtMeal, Served
  <1>0. /\ t \in Threads /\ Waits[t] = NoObject /\ KernelInv
        /\ testing \in [Workers -> {"self", "left", "right"}]
        /\ Number[t] \in 0..(N - 1)
        /\ \A s \in Semaphores : s # NoObject
        /\ semValue \in [Semaphores -> Nat]
    <2>1. Executing(t)
      BY DEF At, SemaphoreStep, take_chopsticks, test, CountMeal, AfterTest,
             AwaitChopsticks, eat, put_chopsticks, think, DineStep, Enter, SitDown,
             AwaitOthers, Dine, Leave
    <2>2. QED
      BY <2>1, ExecutingFree, Furniture, SynchAssumption
      DEF TestInv, TestTypeOK, KernelInv, ValuesOK, Workers
  <1> DEFINE Meal == {"await", "eat", "eating", "put"}
             Test == {"test", "granted", "tested"}
  <1>1. ASSUME NEW p, Local(t, p) \/ CallYield(t, p) \/ CallFinish(t, p)
        PROVE  /\ \A u \in Workers : pc'[u] = IF u = t THEN p ELSE pc[u]
               /\ semValue' = semValue /\ Waits' = Waits
               /\ randomYield' = randomYield
    <2>1. Quiet /\ Moves(t, p)
      BY <1>0, <1>1, LocalEffect, CallYieldEffect, CallFinishEffect
    <2>2. QED
      BY <2>1, Seen DEF Quiet, options
  <1>2. ASSUME NEW s \in Semaphores, NEW p, CallV(t, s, p)
        PROVE  /\ \A u \in Workers : pc'[u] = IF u = t THEN p ELSE pc[u]
               /\ semValue' = [semValue EXCEPT ![s] = @ + 1] /\ Waits' = Waits
               /\ randomYield' = randomYield
    <2>1. Up(s) /\ Moves(t, p)
      BY <1>0, <1>2, CallVEffect
    <2>2. QED
      BY <2>1, Seen DEF Up, options
  <1>3. ASSUME NEW s \in Semaphores, NEW p, CallP(t, s, p)
        PROVE  /\ \A u \in Workers : pc'[u] = IF u = t THEN p ELSE pc[u]
               /\ \A u \in Workers : u # t => Waits'[u] = Waits[u]
               /\ \A r \in Semaphores : r # s => semValue'[r] = semValue[r]
               /\ \/ Waits'[t] = NoObject /\ semValue'[s] = semValue[s] - 1
                  \/ Waits'[t] = s /\ semValue'[s] = semValue[s]
               /\ randomYield' = randomYield
    <2>1. (Down(s) \/ Blocks(t, s)) /\ Moves(t, p)
      BY <1>0, <1>3, CallPEffect
    <2>2. QED
      BY <1>0, <2>1, Seen DEF Down, Blocks, options
  <1>4. ASSUME NEW p, Local(t, p) \/ CallYield(t, p) \/ CallFinish(t, p),
               state' = state, \A u \in Workers : u # t => testing'[u] = testing[u],
               p # "eat", Served(t) <=> p \in {"eating", "put"},
               AtMeal(t) <=> p \in Meal \/ (p \in Test /\ testing'[t] = "self"),
               pc[t] \in Begin => p \in Begin
        PROVE  TableInv'
    BY <1>0, <1>1, <1>4, TableSame DEF Unbegun
  <1>5. ASSUME NEW p, CallV(t, Mutex, p), UNCHANGED <<state, testing>>,
               pc[t] \in Test, p = IF testing[t] = "self" THEN "await" ELSE "think"
        PROVE  TableInv'
    <2>1. \A u \in Workers : Unbegun(u) => Unbegun(u)'
      BY <1>2, <1>5, ChopsSemaphores DEF Unbegun, Begin, Early
    <2>2. QED
      BY <1>0, <1>2, <1>5, <2>1, TableSame, ChopsSemaphores, Seen
  <1>6. CASE DineStep(t)
    <2>1. CASE Enter(t) \/ SitDown(t) \/ AwaitOthers(t) \/ Leave(t)
      BY <1>4, <2>1 DEF Enter, SitDown, AwaitOthers, Leave, At, diningVars, Begin, Early
    <2>2. CASE Dine(t) /\ CallP(t, Mutex, "take")
      <3>1. \A u \in Workers : Unbegun(u) => Unbegun(u)'
        BY <1>3, <2>2, ChopsSemaphores DEF Dine, At, Unbegun, Begin, Early
      <3>2. QED
        BY <1>0, <1>3, <2>2, <3>1, TableSame, ChopsSemaphores DEF Dine, At
    <2>3. CASE Dine(t) /\ Local(t, "ready") /\ UNCHANGED <<state, testing>>
      BY <1>4, <2>3 DEF Dine, At, Begin, Early
    <2>4. QED
      BY <1>6, <2>1, <2>2, <2>3 DEF DineStep, Dine
  <1>7. CASE take_chopsticks(t)
    <2>1. /\ pc[t] = "take" /\ Local(t, "test")
          /\ state' = [state EXCEPT ![Number[t]] = "HUNGRY"]
          /\ testing' = [testing EXCEPT ![t] = "self"]
      BY <1>7 DEF take_chopsticks, At, Set, TestFor
    <2>2. ~ AtMeal(t) /\ \A u \in Workers : u # t => (AtMeal(u)' <=> AtMeal(u))
      BY <1>1, <2>1
    <2>3. Granted'
      BY <1>0, <1>1, <2>1, <2>2, ChopsSemaphores DEF TableInv, Granted, Philosophers
    <2>4. Apart'
      <3>1. \A u \in Workers : Given(u)' => Given(u)
        BY <1>0, <2>1, <2>2, ChopsSemaphores DEF Given, TableInv, Philosophers
      <3>2. QED
        BY <3>1 DEF TableInv, Apart
    <2>5. \A u \in Workers : u # t /\ Unbegun(u) => Unbegun(u)'
      BY <1>0, <1>1, <2>1, ChopsSemaphores DEF Unbegun, TableInv, Philosophers
    <2>6. QED
      BY <1>0, <1>1, <2>1, <2>2, <2>3, <2>4, <2>5, ChopsSemaphores DEF TableInv, Philosophers
  <1>8. CASE test(t)
    <2>1. Target(t) \in 0..(N - 1)
      BY <1>0, TargetIsSeat
    <2>2. CASE Local(t, "tested") /\ UNCHANGED state
      BY <1>4, <1>8, <2>2 DEF test, At, Begin, Early
    <2>3. CASE /\ Clear(Target(t)) /\ numMeals > 0
               /\ Set(Target(t), "EATING")
               /\ CallV(t, SemChops[Target(t)], "granted")
      <3> DEFINE i == Target(t)
      <3>1. /\ pc[t] = "test" /\ state[i] = "HUNGRY" /\ testing' = testing
            /\ state[Left(i)] # "EATING" /\ state[Right(i)] # "EATING"
            /\ state' = [state EXCEPT ![i] = "EATING"]
        BY <1>8, <2>3 DEF test, At, Clear, Set
      <3>2. /\ \A u \in Workers : pc'[u] = IF u = t THEN "granted" ELSE pc[u]
            /\ semValue' = [semValue EXCEPT ![SemChops[i]] = @ + 1] /\ Waits' = Waits
            /\ randomYield' = randomYield
        BY <1>2, <2>1, <2>3, ChopsSemaphores
      <3>3. ASSUME NEW u \in Workers, Number[u] = i
            PROVE  AtMeal(u)
        <4>1. CASE testing[t] = "self"
          BY <3>1, <3>3, <4>1, ChopsSemaphores DEF Target
        <4>2. CASE testing[t] # "self"
          <5>1. At(t, "test") /\ numMeals > 0
            BY <1>8, <2>3 DEF test
          <5>2. ~ randomYield => pc[u] \notin Begin
            BY <4>2, <5>1, NeighbourSat DEF Begin
          <5>3. QED
            BY <3>1, <3>3, <5>2 DEF TableInv, Unbegun
        <4>3. QED
          BY <4>1, <4>2
      <3>4. \A u \in Workers : AtMeal(u)' <=> AtMeal(u)
        BY <3>1, <3>2
      <3>5. Granted'
        <4>1. ASSUME NEW u \in Workers
              PROVE  semValue'[SemChops[Number[u]]] + (IF Served(u)' THEN 1 ELSE 0)
                         = IF state'[Number[u]] = "EATING" /\ AtMeal(u)' THEN 1 ELSE 0
          <5>1. semValue[SemChops[Number[u]]] + (IF Served(u) THEN 1 ELSE 0)
                    = IF state[Number[u]] = "EATING" /\ AtMeal(u) THEN 1 ELSE 0
            BY DEF TableInv, Granted
          <5>2. semValue[SemChops[Number[u]]] \in Nat /\ Number[u] \in Philosophers
            BY <1>0, ChopsSemaphores DEF Philosophers
          <5>3. Served(u)' <=> Served(u)
            BY <3>1, <3>2
          <5>4. CASE Number[u] = i
            BY <1>0, <2>1, <3>1, <3>2, <3>3, <3>4, <5>1, <5>2, <5>3, <5>4, ChopsSemaphores
            DEF TableInv
          <5>5. CASE Number[u] # i
            BY <1>0, <2>1, <3>1, <3>2, <3>4, <5>1, <5>2, <5>3, <5>5, ChopsSemaphores
            DEF TableInv
          <5>6. QED
            BY <5>4, <5>5
        <4>2. QED
          BY <4>1 DEF Granted
      <3>6. Apart'
        <4>1. ASSUME NEW u \in Workers, Given(u)'
              PROVE  Given(u) \/ Number[u] = i
          BY <2>1, <3>1, <3>4, <4>1, ChopsSemaphores DEF Given, TableInv, Philosophers
        <4>2. ASSUME NEW u \in Workers, NEW v \in Workers, Given(u)', Given(v)',
                     Number[v] = Right(Number[u])
              PROVE  u = v
          <5>1. /\ Left(i) \in Philosophers /\ Right(i) \in Philosophers
                /\ \A j \in Philosophers : Right(j) = i => j = Left(i)
                /\ Number[u] \in Philosophers /\ Number[v] \in Philosophers
            BY <2>1, Neighbours, ChopsSemaphores DEF Philosophers
          <5>2. CASE Number[u] = i
            <6>1. state[Number[v]] # "EATING"
              BY <3>1, <4>2, <5>2
            <6>2. Number[v] = i
              BY <4>1, <4>2, <6>1 DEF Given
            <6>3. QED
              BY <5>2, <6>2, ChopsSemaphores
          <5>3. CASE Number[v] = i
            <6>1. state[Number[u]] # "EATING"
              BY <3>1, <4>2, <5>1, <5>3
            <6>2. Number[u] = i
              BY <4>1, <4>2, <6>1 DEF Given
            <6>3. QED
              BY <5>3, <6>2, ChopsSemaphores
          <5>4. CASE Number[u] # i /\ Number[v] # i
            BY <4>1, <4>2, <5>4 DEF TableInv, Apart
          <5>5. QED
            BY <5>2, <5>3, <5>4
        <4>3. QED
          BY <4>2 DEF Apart
      <3>7. \A u \in Workers : Unbegun(u) => Unbegun(u)' \/ Number[u] = i
        BY <1>0, <2>1, <3>1, <3>2, ChopsSemaphores
        DEF Unbegun, TableInv, Philosophers, Begin, Early
      <3>8. QED
        BY <1>0, <2>1, <3>1, <3>2, <3>5, <3>6, <3>3, <3>7, ChopsSemaphores
        DEF TableInv, Philosophers
    <2>4. QED
      BY <1>8, <2>2, <2>3 DEF test
  <1>9. CASE CountMeal(t)
    BY <1>4, <1>9 DEF CountMeal, At, Begin, Early
  <1>10. CASE AfterTest(t)
    BY <1>0, <1>4, <1>5, <1>10 DEF AfterTest, At, TestFor, Begin, Early
  <1>11. CASE AwaitChopsticks(t)
    <2>1. pc[t] = "await" /\ UNCHANGED <<state, testing>>
      BY <1>11 DEF AwaitChopsticks, At, diningVars
    <2>2. /\ \A u \in Workers : pc'[u] = IF u = t THEN "eat" ELSE pc[u]
          /\ \A u \in Workers : u # t => Waits'[u] = Waits[u]
          /\ \A r \in Semaphores :
                r # SemChops[Number[t]] => semValue'[r] = semValue[r]
          /\ \/ /\ Waits'[t] = NoObject
                /\ semValue'[SemChops[Number[t]]] = semValue[SemChops[Number[t]]] - 1
             \/ /\ Waits'[t] # NoObject
                /\ semValue'[SemChops[Number[t]]] = semValue[SemChops[Number[t]]]
          /\ randomYield' = randomYield
      BY <1>0, <1>3, <1>11, ChopsSemaphores DEF AwaitChopsticks
    <2>3. Granted'
      <3>1. ASSUME NEW u \in Workers
            PROVE  semValue'[SemChops[Number[u]]] + (IF Served(u)' THEN 1 ELSE 0)
                       = IF state[Number[u]] = "EATING" /\ AtMeal(u) THEN 1 ELSE 0
        <4>1. semValue[SemChops[Number[u]]] + (IF Served(u) THEN 1 ELSE 0)
                  = IF state[Number[u]] = "EATING" /\ AtMeal(u) THEN 1 ELSE 0
          BY DEF TableInv, Granted
        <4>2. semValue[SemChops[Number[u]]] \in Nat
          BY <1>0, ChopsSemaphores
        <4>3. CASE u = t
          BY <1>0, <2>1, <2>2, <4>1, <4>2, <4>3
        <4>4. CASE u # t
          BY <1>0, <2>2, <4>1, <4>4, ChopsSemaphores
        <4>5. QED
          BY <4>3, <4>4
      <3>2. \A u \in Workers : AtMeal(u)' <=> AtMeal(u)
        BY <2>1, <2>2
      <3>3. QED
        BY <2>1, <3>1, <3>2 DEF Granted
    <2>4. Apart'
      BY <2>1, <2>2 DEF TableInv, Apart, Given
    <2>5. \A u \in Workers : Unbegun(u) => Unbegun(u)'
      BY <2>1, <2>2 DEF Unbegun, Begin, Early
    <2>6. QED
      BY <2>1, <2>2, <2>3, <2>4, <2>5 DEF TableInv
  <1>12. CASE eat(t)
    <2>1. CASE At(t, "eating") /\ CallP(t, Mutex, "put")
      <3>1. \A u \in Workers : Unbegun(u) => Unbegun(u)'
        BY <1>3, <1>12, <2>1, ChopsSemaphores DEF eat, At, diningVars, Unbegun, Begin, Early
      <3>2. QED
        BY <1>0, <1>3, <1>12, <2>1, <3>1, TableSame, ChopsSemaphores DEF eat, At, diningVars
    <2>2. CASE At(t, "eat") /\ Local(t, "eating")
      BY <1>0, <1>4, <1>12, <2>2 DEF eat, At, diningVars, Begin, Early
    <2>3. CASE At(t, "eating") /\ Waiting(t, "eating")
      BY <1>0, <1>4, <1>12, <2>3 DEF eat, At, Waiting, diningVars, Begin, Early
    <2>4. QED
      BY <1>12, <2>1, <2>2, <2>3 DEF eat
  <1>13. CASE put_chopsticks(t)
    <2>1. /\ pc[t] = "put" /\ Local(t, "test")
          /\ state' = [state EXCEPT ![Number[t]] = "THINKING"]
          /\ testing' = [testing EXCEPT ![t] = "left"]
      BY <1>13 DEF put_chopsticks, At, Set, TestFor
    <2>2. Granted'
      BY <1>0, <1>1, <2>1, ChopsSemaphores DEF TableInv, Granted, Philosophers
    <2>3. Apart'
      <3>1. \A u \in Workers : Given(u)' => Given(u)
        BY <1>0, <1>1, <2>1, ChopsSemaphores DEF Given, TableInv, Philosophers
      <3>2. QED
        BY <3>1 DEF TableInv, Apart
    <2>4. \A u \in Workers : u # t /\ Unbegun(u) => Unbegun(u)'
      BY <1>0, <1>1, <2>1, ChopsSemaphores DEF Unbegun, TableInv, Philosophers
    <2>5. QED
      BY <1>0, <1>1, <2>1, <2>2, <2>3, <2>4, ChopsSemaphores DEF TableInv, Philosophers
  <1>14. CASE think(t)
    <2>1. CASE At(t, "think")
      <3>1. state[Number[t]] = "THINKING"
        BY <2>1 DEF TableInv, At, Unbegun, Begin, Early
      <3>2. state' = state /\ testing' = testing /\ Local(t, "thinking")
        BY <1>14, <2>1, <3>1 DEF think, At, Set, TableInv
      <3>3. QED
        BY <1>4, <2>1, <3>2 DEF At, Begin, Early
    <2>2. QED
      BY <1>4, <1>14, <2>1 DEF think, At, Waiting, Begin, Early
  <1>15. QED
    BY <1>6, <1>7, <1>8, <1>9, <1>10, <1>11, <1>12, <1>13, <1>14 DEF SemaphoreStep

\* Mutex is held from the look at numMeals until the meal is counted.
LEMMA MealsKept ==
  ASSUME TestInv, MutexHeld, MealsInv, NEW t \in Workers, SemaphoreStep(t) \/ DineStep(t)
  PROVE  MealsInv'
  <1>0. KernelInv /\ t \in Threads
    BY DEF TestInv, Workers
  <1>1. ASSUME NEW p, p # "granted" \/ numMeals > 0, Moves(t, p), numMeals' = numMeals
        PROVE  MealsInv'
    BY <1>1, Seen DEF MealsInv
  <1>2. ASSUME NEW p, Local(t, p) \/ CallYield(t, p) \/ CallFinish(t, p)
        PROVE  Moves(t, p)
    BY <1>0, <1>2, LocalEffect, CallYieldEffect, CallFinishEffect
  <1>3. ASSUME NEW s \in Semaphores, NEW p, CallP(t, s, p) \/ CallV(t, s, p)
        PROVE  Moves(t, p)
    BY <1>0, <1>3, CallPEffect, CallVEffect
  <1>4. CASE DineStep(t)
    BY <1>1, <1>2, <1>3, <1>4, ChopsSemaphores
    DEF DineStep, Enter, SitDown, AwaitOthers, Dine, Leave, diningVars
  <1>5. CASE test(t)
    <2>1. Target(t) \in 0..(N - 1)
      BY TargetIsSeat DEF TestInv, TestTypeOK
    <2>2. QED
      BY <1>1, <1>2, <1>3, <1>5, <2>1, ChopsSemaphores DEF test
  <1>6. CASE CountMeal(t)
    <2>1. /\ pc[t] = "granted" /\ Moves(t, "tested") /\ numMeals' = numMeals - 1
      BY <1>2, <1>6 DEF CountMeal, At
    <2>2. \A u \in Workers : u # t => pc[u] # "granted"
      BY <2>1 DEF MutexHeld, InMutex
    <2>3. QED
      BY <2>1, <2>2, Seen DEF MealsInv
  <1>7. CASE take_chopsticks(t) \/ AfterTest(t) \/ put_chopsticks(t) \/ think(t)
    BY <1>1, <1>2, <1>3, <1>7, ChopsSemaphores
    DEF take_chopsticks, AfterTest, put_chopsticks, think, Waiting
  <1>8. CASE AwaitChopsticks(t) \/ eat(t)
    BY <1>1, <1>2, <1>3, <1>8, ChopsSemaphores
    DEF AwaitChopsticks, eat, Waiting, diningVars
  <1>9. QED
    BY <1>4, <1>5, <1>6, <1>7, <1>8 DEF SemaphoreStep

\* Chopsticks are picked up only where no neighbour has any.
LEMMA ChopsticksKept ==
  ASSUME TestInv, ChopsticksApart, NEW t \in Workers, DiningStep(t), UNCHANGED options
  PROVE  ChopsticksApart'
  <1>0. memory' = memory
    BY DEF options
  <1>1. CASE chopsticks' = chopsticks
    BY <1>0, <1>1 DEF ChopsticksApart
  <1>2. CASE test_BW(t)
    <2> DEFINE i == Target(t)
    <2>1. i \in 0..(N - 1)
      BY TargetIsSeat DEF TestInv, TestTypeOK
    <2>2. CASE OnTable(i) /\ chopsticks' = [chopsticks EXCEPT ![i] = TRUE]
      BY <1>0, <2>1, <2>2, Neighbours DEF ChopsticksApart, OnTable, Philosophers
    <2>3. QED
      BY <1>1, <1>2, <2>2 DEF test_BW
  <1>3. CASE AfterTest_BW(t)
    <2>1. Number[t] \in 0..(N - 1)
      BY Furniture
    <2>2. CASE chopsticks' = [chopsticks EXCEPT ![Number[t]] = FALSE]
      BY <1>0, <2>1, <2>2, Neighbours DEF ChopsticksApart, Philosophers
    <2>3. QED
      BY <1>1, <1>3, <2>2 DEF AfterTest_BW
  <1>4. CASE DineStep(t)
    BY <1>1, <1>4 DEF DineStep, Enter, SitDown, AwaitOthers, Dine, Leave, diningVars
  <1>5. CASE SemaphoreStep(t)
    BY <1>1, <1>5 DEF SemaphoreStep, take_chopsticks, test, CountMeal, AfterTest,
                      AwaitChopsticks, eat, put_chopsticks, think, diningVars
  <1>6. CASE AwaitPut_BW(t) \/ eat_BW(t) \/ think_BW(t)
    BY <1>1, <1>6 DEF AwaitPut_BW, eat_BW, think_BW, diningVars
  <1>7. QED
    BY <1>2, <1>3, <1>4, <1>5, <1>6 DEF DiningStep, BusyStep

\* A P that finds a value takes it.
LEMMA DinerWoken ==
  ASSUME TestInv, task = 4, MutexHeld, NEW t \in Workers, Wakes(t),
         UNCHANGED <<state, testing, options>>, \A u \in Workers : pc'[u] = pc[u]
  PROVE  MutexHeld' /\ (TableInv => TableInv')
  <1>1. /\ t \in Threads /\ Waits[t] # NoObject /\ Waits[t] \in Awaited(t, pc[t])
        /\ Workers \subseteq Threads
        /\ semValue \in [Semaphores -> Nat]
        /\ Waits = [u \in Threads |-> Waits[u]]
        /\ pc[t] \in Places /\ threadChoice = 0
    BY SynchAssumption
    DEF Workers, Wakes, TestInv, TestTypeOK, Blocked, KernelInv, ValuesOK, Waits
  <1>2. pc[t] \in {"take", "put", "eat"}
    BY <1>1 DEF Awaited, Places, CommonPlaces, BusyPlaces, SemaphorePlaces, SlotPlaces,
                BoxPlaces, ZombiePlaces, PhiloPlaces, BandPlaces
  <1>3. /\ \A u \in Workers : u # t => Waits'[u] = Waits[u]
        /\ Waits'[t] = NoObject
        /\ \A s \in Semaphores : s # Waits[t] => semValue'[s] = semValue[s]
        /\ semValue'[Waits[t]] = semValue[Waits[t]] - 1 /\ semValue[Waits[t]] > 0
    BY <1>1 DEF Wakes
  <1>4. MutexHeld'
    <2>1. \A u \in Workers : u # t => (InMutex(u)' <=> InMutex(u))
      BY <1>3 DEF InMutex
    <2>2. CASE pc[t] = "eat"
      <3>1. semValue'[Mutex] = semValue[Mutex]
        BY <1>1, <1>3, <2>2, ChopsSemaphores DEF Awaited
      <3>2. InMutex(t)' <=> InMutex(t)
        BY <2>2 DEF InMutex
      <3>3. QED
        BY <2>1, <3>1, <3>2, MutexMoves
    <2>3. CASE pc[t] \in {"take", "put"}
      <3>1. semValue'[Mutex] = semValue[Mutex] - 1 /\ semValue[Mutex] > 0
        BY <1>1, <1>3, <2>3 DEF Awaited
      <3>2. InMutex(t)'
        BY <1>3, <2>3 DEF InMutex
      <3>3. QED
        BY <2>1, <3>1, <3>2, MutexMoves
    <2>4. QED
      BY <1>2, <2>2, <2>3
  <1>5. ASSUME TableInv PROVE TableInv'
    <2>1. /\ \A u \in Workers : AtMeal(u)' <=> AtMeal(u)
          /\ \A u \in Workers : u # t => (Served(u)' <=> Served(u))
          /\ \A u \in Workers : Unbegun(u)' <=> Unbegun(u)
      BY <1>3 DEF AtMeal, Served, Unbegun, options
    <2>2. CASE pc[t] = "eat"
      <3>1. Waits[t] = SemChops[Number[t]] /\ Served(t)' /\ ~ Served(t)
        BY <1>1, <1>3, <2>2 DEF Awaited, Served
      <3>2. ASSUME NEW u \in Workers
            PROVE  semValue'[SemChops[Number[u]]] + (IF Served(u)' THEN 1 ELSE 0)
                       = semValue[SemChops[Number[u]]] + (IF Served(u) THEN 1 ELSE 0)
        <4>1. semValue[SemChops[Number[u]]] \in Nat
          BY <1>1, ChopsSemaphores
        <4>2. CASE u = t
          BY <1>3, <3>1, <4>1, <4>2
        <4>3. CASE u # t
          BY <1>3, <2>1, <3>1, <4>3, ChopsSemaphores
        <4>4. QED
          BY <4>2, <4>3
      <3>3. Granted'
        BY <1>5, <2>1, <3>2 DEF Granted, TableInv
      <3>4. Apart'
        BY <1>5, <2>1 DEF TableInv, Apart, Given
      <3>5. QED
        BY <1>5, <2>1, <3>3, <3>4 DEF TableInv
    <2>3. CASE pc[t] \in {"take", "put"}
      <3>1. Waits[t] = Mutex /\ (Served(t)' <=> Served(t))
        BY <1>1, <2>3 DEF Awaited, Served
      <3>2. \A u \in Workers : semValue'[SemChops[Number[u]]] = semValue[SemChops[Number[u]]]
        BY <1>3, <3>1, ChopsSemaphores
      <3>3. QED
        BY <1>5, <2>1, <3>1, <3>2, TableSame
    <2>4. QED
      BY <1>2, <2>2, <2>3
  <1>6. QED
    BY <1>4, <1>5

\* What the program finds in its arrays is of the arrays' types.
LEMMA MemoryTyped ==
  ASSUME TestInit
  PROVE  /\ memory.state \in [Philosophers -> {"HUNGRY", "EATING", "THINKING"}]
         /\ memory.chopsticks \in [Philosophers -> BOOLEAN]
         /\ memory.postOffice \in [People -> [0..S -> BOOLEAN]]
  <1>1. PICK boot \in Boots : memory = boot.memory
    BY DEF TestInit
  <1>2. boot.memory \in Memories
    BY ThreadTestAssumption
  <1>3. QED
    BY <1>1, <1>2 DEF Memories

LEMMA DinersInit ==
  ASSUME TestInit
  PROVE  DinersInv
  <1>1. /\ semValue = InitialValue
        /\ \A t \in Workers : pc[t] = "start"
        /\ state = memory.state /\ chopsticks = memory.chopsticks
    BY DEF TestInit, ProgramInit, Init, DiningInit, Workers
  <1>2. task = 4 => MutexHeld
    BY <1>1, DiningAssumption DEF MutexHeld, InMutex
  <1>3. ~ MayBeServedEarly => TableInv
    <2>1. \A t \in Workers : Number[t] \in Philosophers
      BY ChopsSemaphores DEF Philosophers
    <2>2. \A i \in Philosophers : semValue[SemChops[i]] = 0
      BY <1>1, DiningAssumption DEF Philosophers
    <2>3. Granted /\ Apart
      BY <1>1, <2>1, <2>2 DEF Granted, Apart, Given, AtMeal, Served
    <2>4. ASSUME ~ MayBeServedEarly, NEW t \in Workers PROVE Unbegun(t)
      BY <1>1, <2>1, <2>4 DEF Unbegun, MayBeServedEarly, Begin, Early
    <2>5. QED
      BY <1>1, <2>3, <2>4, MemoryTyped DEF TableInv
  <1>4. task = 4 => MealsInv
    BY <1>1, ThreadTestAssumption DEF TestInit, Input, MealsInv
  <1>5. task # 4 => \A i \in Philosophers : semValue[SemChops[i]] = 0
    BY <1>1, DiningAssumption DEF Philosophers
  <1>6. ChopsticksApart
    BY <1>1, MemoryTyped DEF ChopsticksApart
  <1>7. QED
    BY <1>2, <1>3, <1>4, <1>5, <1>6, TurnsStart DEF DinersInv

LEMMA DinersStep == TestInv /\ DinersInv /\ [TestNext]_allVars => DinersInv'
  <1> SUFFICES ASSUME TestInv, DinersInv, [TestNext]_allVars PROVE DinersInv'
    OBVIOUS
  <1>1. UNCHANGED options
    <2>1. ASSUME NEW t \in Workers, Work(t) PROVE UNCHANGED options
      BY <2>1, WorkLawful DEF Lawful, Moves, TestInv
    <2>2. QED
      BY <2>1, NoWork DEF TestNext
  <1>2. /\ task' = task /\ randomYield' = randomYield /\ memory' = memory
        /\ MayBeServedEarly' <=> MayBeServedEarly
        /\ task = 0 \/ threadChoice = 0
        /\ Workers \subseteq Threads
    BY <1>1 DEF options, TestInv, TestTypeOK, Workers, MayBeServedEarly
  <1>3. task # 4 => \A i \in Philosophers : semValue'[SemChops[i]] = 0
    <2>1. ASSUME task # 4, NEW i \in Philosophers
          PROVE  SemChops[i] \in Semaphores \ Used
      <3>1. InitialValue[SemChops[i]] = 0 /\ SemChops[i] \in Semaphores
        BY DiningAssumption DEF Philosophers
      <3>2. \A s \in Used : InitialValue[s] # 0
        BY <2>1, MailAssumption, BandAssumption DEF Used, People
      <3>3. QED
        BY <3>1, <3>2
    <2>2. QED
      BY <2>1, UnusedKept DEF DinersInv
  <1>4. ASSUME NEW t \in Workers, DiningStep(t)
        PROVE  DinersInv'
    <2>1. task = 4 => SemaphoreStep(t) \/ DineStep(t)
      BY <1>4, WhoseStep DEF DiningStep, TestInv
    <2>2. /\ task = 4 => MutexHeld' /\ MealsInv'
          /\ task = 4 /\ ~ MayBeServedEarly => TableInv'
      BY <2>1, MutexKept, TableKept, MealsKept DEF DinersInv
    <2>3. ChopsticksApart'
      BY <1>1, <1>4, ChopsticksKept DEF DinersInv
    <2>4. task = 4 /\ ~ randomYield => TurnsInv'
      BY <2>1, TurnTaken, TurnKeepsInv DEF DinersInv
    <2>5. QED
      BY <1>2, <1>3, <2>2, <2>3, <2>4 DEF DinersInv
  <1>5. ASSUME NEW t \in Workers, Work(t), ~ DiningStep(t)
        PROVE  DinersInv'
    <2>1. task # 4
      BY <1>2, <1>5, WhoseStep DEF Work, TestInv
    <2>2. UNCHANGED diningVars
      BY <1>5 DEF Work, OnlyShouts, OnlyMail, OnlyDemos, OnlyBand
    <2>3. ChopsticksApart'
      BY <1>2, <2>2 DEF DinersInv, ChopsticksApart, diningVars
    <2>4. QED
      BY <1>2, <1>3, <2>1, <2>3 DEF DinersInv
  <1>6. CASE Start \/ (Kernel /\ NoProgram) \/ UNCHANGED allVars
    <2>1. /\ UNCHANGED diningVars
          /\ \A t \in Workers : pc'[t] = pc[t]
          /\ Quiet \/ \E t \in Workers : Wakes(t)
      BY <1>6, NoWork DEF NoProgram, OnlyShouts
    <2>0. task = 4 /\ ~ randomYield => TurnsInv'
      <3> SUFFICES ASSUME task = 4, ~ randomYield PROVE TurnsInv'
        OBVIOUS
      <3>1. TurnsInv
        BY DEF DinersInv
      <3>2. ASSUME Kernel, NoProgram
            PROVE  TurnsInv'
        <4>1. PICK x \in Threads : Continue(x)
          BY <3>2 DEF Kernel, Preempt
        <4>2. QED
          BY <3>1, <3>2, <4>1, ContinueTurns
      <3>3. CASE UNCHANGED allVars
        BY <3>1, <3>3, SameTurns
      <3>4. QED
        BY <1>6, <3>1, <3>2, <3>3, StartTurns
    <2>2. ChopsticksApart' /\ (MealsInv => MealsInv')
      BY <1>2, <2>1 DEF DinersInv, ChopsticksApart, MealsInv, diningVars
    <2>3. CASE Quiet
      <3>1. /\ \A t \in Workers : InMutex(t)' <=> InMutex(t)
            /\ \A t \in Workers : AtMeal(t)' <=> AtMeal(t)
            /\ \A t \in Workers : Served(t)' <=> Served(t)
            /\ \A t \in Workers : Unbegun(t)' <=> Unbegun(t)
            /\ state' = state /\ semValue' = semValue
        BY <1>2, <2>1, <2>3 DEF InMutex, AtMeal, Served, Unbegun, Quiet, diningVars
      <3>2. MutexHeld => MutexHeld'
        BY <3>1 DEF MutexHeld
      <3>3. TableInv => TableInv'
        BY <3>1 DEF TableInv, Granted, Apart, Given
      <3>4. QED
        BY <1>2, <1>3, <2>0, <2>2, <3>2, <3>3 DEF DinersInv
    <2>4. CASE \E t \in Workers : Wakes(t)
      <3>1. task = 4 => MutexHeld' /\ (TableInv => TableInv')
        BY <1>1, <2>1, <2>4, DinerWoken DEF DinersInv, diningVars
      <3>2. QED
        BY <1>2, <1>3, <2>0, <2>2, <3>1 DEF DinersInv
    <2>5. QED
      BY <2>1, <2>3, <2>4
  <1>7. QED
    BY <1>4, <1>5, <1>6 DEF TestNext

\* The invariant says what DiningInv says.
LEMMA DinersInvImplies == TestInv /\ DinersInv => DiningInv
  <1> SUFFICES ASSUME TestInv, DinersInv PROVE DiningInv
    OBVIOUS
  <1>1. ASSUME NEW t \in Workers
        PROVE  /\ Eats(t) <=> Served(t)
               /\ Eats(t) => task = 4
               /\ Number[t] \in Philosophers
               /\ semValue[SemChops[Number[t]]] \in Nat
    <2>1. t \in Threads
      BY DEF Workers
    <2>2. resume[t] = "P" => waitsFor[t] # NoObject
      BY <2>1, SynchAssumption DEF TestInv, KernelInv, Placed
    <2>3. Waits[t] = NoObject <=> resume[t] # "P"
      BY <2>1, <2>2 DEF Waits
    <2>4. pc[t] \in {"eat", "eating", "put"} => task = 4
      <3>1. pc[t] \in Places
        BY <2>1 DEF TestInv, TestTypeOK
      <3>2. QED
        BY <3>1 DEF Places, CommonPlaces, BusyPlaces, SemaphorePlaces, SlotPlaces,
                    BoxPlaces, ZombiePlaces, PhiloPlaces, BandPlaces
    <2>5. QED
      BY <2>3, <2>4, ChopsSemaphores
      DEF Eats, Served, Philosophers, TestInv, KernelInv, ValuesOK
  <1>2. ASSUME ~ MayBeServedEarly PROVE GrantsMatched
    <2>1. ASSUME NEW t \in Workers
          PROVE  semValue[SemChops[Number[t]]] + (IF Eats(t) THEN 1 ELSE 0)
                     = IF task = 4 /\ state[Number[t]] = "EATING" /\ AtMeal(t) THEN 1 ELSE 0
      <3>1. CASE task = 4
        BY <1>1, <1>2, <3>1 DEF DinersInv, TableInv, Granted
      <3>2. CASE task # 4
        BY <1>1, <3>2 DEF DinersInv
      <3>3. QED
        BY <3>1, <3>2
    <2>2. QED
      BY <2>1 DEF GrantsMatched
  <1>3. ASSUME ~ MayBeServedEarly PROVE NeighboursDoNotEat
    <2>1. ASSUME NEW v \in Workers, Eats(v)
          PROVE  Given(v) /\ task = 4
      BY <1>1, <1>2, <1>3, <2>1 DEF GrantsMatched, Given
    <2>2. QED
      BY <1>3, <2>1 DEF NeighboursDoNotEat, DinersInv, TableInv, Apart
  <1>4. NoChopstickTwice
    <2>1. \A i \in Philosophers : Right(i) = i => N = 1
      BY Neighbours DEF Philosophers
    <2>2. QED
      BY <2>1 DEF NoChopstickTwice, DinersInv, ChopsticksApart
  <1>5. NoMealTooMany
    BY DEF NoMealTooMany, DinersInv, MealsInv
  <1>6. QED
    BY <1>2, <1>3, <1>4, <1>5 DEF DiningInv

\* Whatever new returns for the arrays, and however many sit at the table: no two
\* neighbours' chopsticks come to be up at once in task 3, and no more meals are served
\* than were ordered in task 4.  There philosophers at neighbouring seats do not eat at
\* the same time, and every V on a philosopher's semaphore is for one meal, unless the
\* random timer is on and a word of the array of states says HUNGRY.
THEOREM NeighboursApart == TestSpec => []DiningInv
  <1>1. TestInit => TestInv /\ DinersInv
    BY TestInvInit, DinersInit
  <1>2. TestInv /\ DinersInv /\ [TestNext]_allVars => (TestInv /\ DinersInv)'
    BY TestInvStep, DinersStep
  <1>3. QED
    BY <1>1, <1>2, DinersInvImplies, PTL DEF TestSpec

-----------------------------------------------------------------------------
(* Chopsticks and instruments: what one thread has, no other has.          *)

\* What is held is held by one, and what is not, by none.
HeldByOne(free, Holders) ==
    IF free THEN Holders = {} ELSE \E t \in Workers : Holders = {t}

LEMMA HeldByOneCounts ==
  ASSUME NEW free \in BOOLEAN, NEW Holders, HeldByOne(free, Holders)
  PROVE  Cardinality(Holders) = IF free THEN 0 ELSE 1
  BY FS_EmptySet, FS_Singleton DEF HeldByOne

HasStick(i) == {t \in Workers : Has(t, i)}
HoldersOf(i) == {t \in Workers : HasInstrument(t) /\ temp[t] = i}

SticksInv ==
    threadChoice \in {4, 5} =>
        /\ chops \in [0..(N - 1) -> BOOLEAN]
        /\ \A i \in 0..(N - 1) : HeldByOne(chops[i], HasStick(i))

InstrumentsInv ==
    /\ players = [k \in 0..(N - 1) |-> players[k]]
    /\ temp \in [Workers -> Instruments]
    /\ \A i \in Instruments : HeldByOne(i \notin taken, HoldersOf(i))

\* What the programs' variables say after a step of t that goes to p.
LEMMA WorkSeen ==
  ASSUME TestInv, NEW t \in Workers, Work(t)
  PROVE  /\ UNCHANGED options
         /\ \A u \in Workers : u # t => pc'[u] = pc[u]
         /\ Number[t] \in 0..(N - 1)
         /\ \A u \in Workers : u # t => Number[u] # Number[t]
  <1>1. PICK p \in Places : Moves(t, p)
    BY WorkLawful DEF Lawful, TestInv
  <1>2. QED
    BY <1>1, Seen, ProgramAssumption DEF Moves

LEMMA MoveSeen ==
  ASSUME TestInv, NEW t \in Workers, NEW p,
         \/ Local(t, p) \/ CallYield(t, p) \/ CallFinish(t, p)
         \/ \E s \in Semaphores : CallP(t, s, p) \/ CallV(t, s, p)
         \/ GoTo(t, p)
  PROVE  \A u \in Workers : pc'[u] = IF u = t THEN p ELSE pc[u]
  <1>1. GoTo(t, p)
    BY DEF Local, CallYield, CallFinish, CallP, CallV
  <1>2. QED
    BY <1>1, Seen DEF GoTo, Moves

\* One who picks up or puts down a chopstick has it from then, or until then.
LEMMA SticksKept ==
  ASSUME TestInv, threadChoice \in {4, 5}, SticksInv, NEW t \in Workers, DemoStep(t),
         Work(t)
  PROVE  SticksInv'
  <1> DEFINE A == LeftStick(t)
             B == RightStick(t)
  <1>0. /\ A \in 0..(N - 1) /\ B \in 0..(N - 1)
        /\ \A u \in Workers : u # t => LeftStick(u) # A /\ RightStick(u) # B
        /\ \A u \in Workers : LeftStick(u) \in 0..(N - 1) /\ RightStick(u) \in 0..(N - 1)
    <2>1. \A i, j \in 0..(N - 1) : /\ Right(i) \in 0..(N - 1)
                                   /\ Right(i) = Right(j) => i = j
      BY Neighbours
    <2>2. \A u \in Workers : Number[u] \in 0..(N - 1) /\ RightStick(u) = Right(Number[u])
      BY ChopsSemaphores DEF RightStick, Right
    <2>3. QED
      BY <2>1, <2>2, ChopsSemaphores DEF LeftStick
  <1>1. /\ chops \in [0..(N - 1) -> BOOLEAN]
        /\ \A i \in 0..(N - 1) : IF chops[i] THEN HasStick(i) = {}
                                 ELSE \E u \in Workers : HasStick(i) = {u}
    BY DEF SticksInv, HeldByOne
  <1>2. ASSUME NEW p, \A u \in Workers : pc'[u] = IF u = t THEN p ELSE pc[u],
               chops' = chops, \A i \in 0..(N - 1) : Has(t, i)' <=> Has(t, i)
        PROVE  SticksInv'
    <2>1. \A i \in 0..(N - 1), u \in Workers : Has(u, i)' <=> Has(u, i)
      BY <1>2 DEF Has, LeftStick, RightStick
    <2>2. \A i \in 0..(N - 1) : HasStick(i)' = HasStick(i)
      BY <2>1 DEF HasStick
    <2>3. QED
      BY <1>1, <1>2, <2>2 DEF SticksInv, HeldByOne
  <1>3. ASSUME NEW p, \A u \in Workers : pc'[u] = IF u = t THEN p ELSE pc[u],
               NEW c \in 0..(N - 1), chops[c], chops' = [chops EXCEPT ![c] = FALSE],
               Has(t, c)', \A i \in 0..(N - 1) : i # c => (Has(t, i)' <=> Has(t, i))
        PROVE  SticksInv'
    <2>1. \A i \in 0..(N - 1), u \in Workers :
              (u = t /\ i = c) \/ (Has(u, i)' <=> Has(u, i))
      BY <1>3 DEF Has, LeftStick, RightStick
    <2>2. \A i \in 0..(N - 1) : i # c => HasStick(i)' = HasStick(i)
      BY <2>1 DEF HasStick
    <2>3. HasStick(c)' = HasStick(c) \cup {t}
      BY <1>3, <2>1 DEF HasStick
    <2>4. QED
      BY <1>1, <1>3, <2>2, <2>3 DEF SticksInv, HeldByOne
  <1>4. pc[t] \in Places
    BY DEF TestInv, TestTypeOK, Workers
  <1>5. \A p : (Local(t, p) \/ CallYield(t, p) \/ CallFinish(t, p))
              => \A u \in Workers : pc'[u] = IF u = t THEN p ELSE pc[u]
    BY MoveSeen
  <1>6. CASE Seat(t)
    BY <1>2, <1>5, <1>6 DEF Seat, At, Has
  <1>7. CASE Pick(t)
    <2>1. CASE At(t, "neither") /\ chops[A] /\ chops' = [chops EXCEPT ![A] = FALSE]
                 /\ Local(t, "one")
      <3>1. Has(t, A)' /\ \A i \in 0..(N - 1) : i # A => (Has(t, i)' <=> Has(t, i))
        BY <1>0, <1>5, <2>1 DEF At, Has, LeftStick, RightStick
      <3>2. QED
        BY <1>0, <1>3, <1>5, <2>1, <3>1
    <2>2. CASE At(t, "one") /\ chops[B] /\ chops' = [chops EXCEPT ![B] = FALSE]
                 /\ Local(t, "both")
      <3>1. Has(t, B)' /\ \A i \in 0..(N - 1) : i # B => (Has(t, i)' <=> Has(t, i))
        BY <1>0, <1>5, <2>2 DEF At, Has, LeftStick, RightStick
      <3>2. QED
        BY <1>0, <1>3, <1>5, <2>2, <3>1
    <2>3. CASE chops' = chops /\ (CallYield(t, pc[t]) \/ (At(t, "hungry") /\ Local(t, "neither")))
      BY <1>2, <1>5, <2>3 DEF At, Has, LeftStick, RightStick
    <2>4. QED
      BY <1>7, <2>1, <2>2, <2>3 DEF Pick
  <1>8. CASE Nom(t)
    <2>1. CASE /\ At(t, "putting") /\ Local(t, "odd")
               /\ chops' = [chops EXCEPT ![A] = TRUE, ![B] = TRUE]
      <3>1. \A i \in 0..(N - 1) : chops'[i] = IF i \in {A, B} THEN TRUE ELSE chops[i]
        BY <1>0, <1>1, <2>1
      <3>2. \A i \in {A, B} : HasStick(i) = {t}
        <4>1. \A i \in {A, B} : t \in HasStick(i)
          BY <2>1 DEF At, Has, HasStick
        <4>2. QED
          BY <1>0, <1>1, <4>1
      <3>3. \A i \in 0..(N - 1), u \in Workers :
                Has(u, i)' <=> u # t /\ Has(u, i)
        BY <1>5, <2>1 DEF Has, LeftStick, RightStick, At
      <3>4. \A i \in 0..(N - 1) : HasStick(i)' = HasStick(i) \ {t}
        BY <3>3 DEF HasStick
      <3>5. \A i \in {A, B} : HasStick(i)' = {}
        BY <1>0, <3>2, <3>4
      <3>6. ASSUME NEW i \in 0..(N - 1), i \notin {A, B}
            PROVE  HasStick(i)' = HasStick(i)
        BY <3>3, <3>6 DEF HasStick, Has
      <3>7. QED
        BY <1>1, <2>1, <3>1, <3>5, <3>6 DEF SticksInv, HeldByOne
    <2>2. CASE ~ At(t, "putting")
      <3>1. /\ chops' = chops
            /\ \E p \in {"nomming", "putting", "odd", "hungry", "left"} :
                  /\ \A u \in Workers : pc'[u] = IF u = t THEN p ELSE pc[u]
                  /\ pc[t] \in {"both", "nomming"} <=> p \in {"nomming", "putting"}
        BY <1>5, <1>8, <2>2 DEF Nom, At, Waiting
      <3>2. pc[t] \notin {"one", "putting"}
        BY <1>8, <2>2 DEF Nom, At
      <3>3. QED
        BY <1>2, <3>1, <3>2 DEF Has, LeftStick, RightStick
    <2>3. QED
      BY <1>8, <2>1, <2>2 DEF Nom, At
  <1>9. CASE zombieStuff(t) \/ humanStuff(t) \/ spawn(t)
    BY <1>9 DEF zombieStuff, humanStuff, spawn
  <1>10. QED
    BY <1>6, <1>7, <1>8, <1>9 DEF DemoStep

\* One who finds an instrument free has it until it drops it.
LEMMA InstrumentsKept ==
  ASSUME TestInv, InstrumentsInv, NEW t \in Workers, BandStep(t), Work(t)
  PROVE  InstrumentsInv'
  <1>0. /\ getInstrument \in Semaphores
        /\ Number[t] \in 0..(N - 1)
        /\ \A u \in Workers : u # t => Number[u] # Number[t]
        /\ players = [k \in 0..(N - 1) |-> players[k]]
        /\ temp \in [Workers -> Instruments]
        /\ \A i \in Instruments : IF i \notin taken THEN HoldersOf(i) = {}
                                  ELSE \E u \in Workers : HoldersOf(i) = {u}
    BY Furniture, WorkSeen DEF InstrumentsInv, HeldByOne
  <1>1. ASSUME NEW p, \A u \in Workers : pc'[u] = IF u = t THEN p ELSE pc[u],
               NEW what, players' = [players EXCEPT ![Number[t]] = what],
               taken' = taken, temp' = temp, HasInstrument(t)' <=> HasInstrument(t)
        PROVE  InstrumentsInv'
    <2>1. \A u \in Workers : HasInstrument(u)' <=> HasInstrument(u)
      BY <1>0, <1>1 DEF HasInstrument, Plays
    <2>2. \A i \in Instruments : HoldersOf(i)' = HoldersOf(i)
      BY <1>1, <2>1 DEF HoldersOf
    <2>3. players' = [k \in 0..(N - 1) |-> players'[k]]
      BY <1>0, <1>1
    <2>4. QED
      BY <1>0, <1>1, <2>2, <2>3 DEF InstrumentsInv, HeldByOne
  <1>2. ASSUME NEW p, \A u \in Workers : pc'[u] = IF u = t THEN p ELSE pc[u],
               UNCHANGED <<players, taken, temp>>, HasInstrument(t)' <=> HasInstrument(t)
        PROVE  InstrumentsInv'
    <2>1. players = [players EXCEPT ![Number[t]] = players[Number[t]]]
      BY <1>0
    <2>2. QED
      BY <1>1, <1>2, <2>1
  <1>3. \A p : (\/ Local(t, p) \/ CallYield(t, p) \/ CallFinish(t, p)
               \/ CallP(t, getInstrument, p) \/ CallV(t, getInstrument, p))
              => \A u \in Workers : pc'[u] = IF u = t THEN p ELSE pc[u]
    BY <1>0, MoveSeen
  <1>4. CASE Arrive(t) \/ ReadyCheck(t) \/ Reset(t) \/ LeaveBand(t)
    <2>1. /\ UNCHANGED <<players, taken, temp>>
          /\ \E p \in {"arrived", "song", "readying", "again", "leaving", "left"} :
                \A u \in Workers : pc'[u] = IF u = t THEN p ELSE pc[u]
          /\ pc[t] \notin {"decided", "singing", "dropping"}
      BY <1>3, <1>4 DEF Arrive, ReadyCheck, Reset, LeaveBand, At
    <2>2. QED
      BY <1>2, <2>1 DEF HasInstrument
  <1>5. CASE Choose(t)
    <2>1. pc[t] = "song" /\ UNCHANGED <<taken, temp>>
      BY <1>5 DEF Choose, At
    <2>2. CASE Become(t, "WANTING") /\ CallP(t, getInstrument, "taking")
      <3>1. \A u \in Workers : pc'[u] = IF u = t THEN "taking" ELSE pc[u]
        BY <1>3, <2>2
      <3>2. ~ HasInstrument(t) /\ ~ HasInstrument(t)'
        BY <2>1, <3>1 DEF HasInstrument
      <3>3. QED
        BY <1>1, <2>1, <2>2, <3>1, <3>2 DEF Become
    <2>3. CASE Become(t, "SPECTATOR") /\ Local(t, "decided")
      <3>1. players'[Number[t]] = "SPECTATOR"
        BY <1>0, <2>3 DEF Become
      <3>2. QED
        BY <1>1, <1>3, <2>1, <2>3, <3>1 DEF Become, HasInstrument, Plays
    <2>4. QED
      BY <1>5, <2>2, <2>3 DEF Choose
  <1>6. CASE TakeInstrument(t)
    <2>1. /\ pc[t] = "taking"
          /\ \A u \in Workers : pc'[u] = IF u = t THEN "decided" ELSE pc[u]
      BY <1>3, <1>6 DEF TakeInstrument, At
    <2>2. PICK i \in Instruments :
              /\ temp' = [temp EXCEPT ![t] = i]
              /\ taken' = taken \cup {i}
              /\ Become(t, IF i \in taken THEN "SPECTATOR" ELSE "READYTOPLAY")
      BY <1>6 DEF TakeInstrument
    <2>3. /\ players' = [k \in 0..(N - 1) |-> players'[k]]
          /\ players'[Number[t]] = IF i \in taken THEN "SPECTATOR" ELSE "READYTOPLAY"
          /\ \A k \in 0..(N - 1) : k # Number[t] => players'[k] = players[k]
      BY <1>0, <2>2 DEF Become
    <2>4. ASSUME NEW u \in Workers, u # t
          PROVE  (HasInstrument(u)' <=> HasInstrument(u)) /\ temp'[u] = temp[u]
      <3>1. Number[u] \in 0..(N - 1) /\ Number[u] # Number[t]
        BY <1>0, <2>4, ChopsSemaphores
      <3>2. QED
        BY <1>0, <2>1, <2>2, <2>3, <2>4, <3>1 DEF HasInstrument, Plays
    <2>5. /\ ~ HasInstrument(t) /\ temp'[t] = i
          /\ HasInstrument(t)' <=> i \notin taken
      BY <1>0, <2>1, <2>2, <2>3 DEF HasInstrument, Plays
    <2>6. \A j \in Instruments : j # i => HoldersOf(j)' = HoldersOf(j)
      BY <2>4, <2>5 DEF HoldersOf
    <2>7. HoldersOf(i)' = IF i \in taken THEN HoldersOf(i) ELSE HoldersOf(i) \cup {t}
      BY <2>4, <2>5 DEF HoldersOf
    <2>8. \A j \in Instruments : HeldByOne(j \notin taken, HoldersOf(j))'
      BY <1>0, <2>2, <2>6, <2>7 DEF HeldByOne
    <2>9. QED
      BY <1>0, <2>2, <2>3, <2>8 DEF InstrumentsInv
  <1>7. CASE CountSpectators(t)
    BY <1>2, <1>3, <1>7 DEF CountSpectators, At, HasInstrument, Plays
  <1>8. CASE Spectate(t)
    BY <1>2, <1>3, <1>8 DEF Spectate, At, HasInstrument, Plays
  <1>9. CASE PlaySong(t)
    <2>1. pc[t] = "singing" /\ UNCHANGED <<taken, temp>>
      BY <1>9 DEF PlaySong, At
    <2>2. CASE Plays(t, "READYTOPLAY") /\ CallP(t, getInstrument, "dropping")
               /\ UNCHANGED players
      BY <1>2, <1>3, <2>1, <2>2 DEF HasInstrument
    <2>3. CASE Plays(t, "SPECTATOR") /\ Become(t, "NOTREADY") /\ Local(t, "played")
      BY <1>1, <1>3, <2>1, <2>3 DEF Become, HasInstrument, Plays
    <2>4. QED
      BY <1>9, <2>2, <2>3 DEF PlaySong
  <1>10. CASE DropInstrument(t)
    <2>1. CASE /\ At(t, "dropping") /\ taken' = taken \ {temp[t]}
               /\ CallV(t, getInstrument, "dropped") /\ UNCHANGED players
      <3> DEFINE i == temp[t]
      <3>1. /\ i \in Instruments /\ t \in HoldersOf(i) /\ temp' = temp
            /\ \A u \in Workers : pc'[u] = IF u = t THEN "dropped" ELSE pc[u]
        BY <1>0, <1>3, <1>10, <2>1 DEF HoldersOf, HasInstrument, At, DropInstrument
      <3>2. HoldersOf(i) = {t}
        BY <1>0, <3>1
      <3>3. \A u \in Workers : HasInstrument(u)' <=> u # t /\ HasInstrument(u)
        BY <2>1, <3>1 DEF HasInstrument, Plays
      <3>4. \A j \in Instruments : HoldersOf(j)' = HoldersOf(j) \ {t}
        BY <3>1, <3>3 DEF HoldersOf
      <3>5. \A j \in Instruments : j # i => HoldersOf(j)' = HoldersOf(j)
        BY <3>4 DEF HoldersOf
      <3>6. \A j \in Instruments : HeldByOne(j \notin taken, HoldersOf(j))'
        BY <1>0, <2>1, <3>1, <3>2, <3>4, <3>5 DEF HeldByOne
      <3>7. QED
        BY <1>0, <2>1, <3>1, <3>6 DEF InstrumentsInv
    <2>2. CASE At(t, "dropped") /\ CallYield(t, "unready") /\ UNCHANGED <<taken, players>>
      BY <1>2, <1>3, <1>10, <2>2 DEF HasInstrument, At, DropInstrument
    <2>3. CASE At(t, "unready") /\ Become(t, "NOTREADY") /\ Local(t, "played")
               /\ UNCHANGED taken
      <3>1. \A u \in Workers : pc'[u] = IF u = t THEN "played" ELSE pc[u]
        BY <1>3, <2>3
      <3>2. ~ HasInstrument(t) /\ ~ HasInstrument(t)'
        BY <2>3, <3>1 DEF HasInstrument, At
      <3>3. UNCHANGED <<taken, temp>>
        BY <1>10, <2>3 DEF DropInstrument
      <3>4. QED
        BY <1>1, <2>3, <3>1, <3>2, <3>3 DEF Become
    <2>4. QED
      BY <1>10, <2>1, <2>2, <2>3 DEF DropInstrument
  <1>11. QED
    BY <1>4, <1>5, <1>6, <1>7, <1>8, <1>9, <1>10 DEF BandStep

HeldInv == SticksInv /\ InstrumentsInv

LEMMA HeldInit ==
  ASSUME TestInit
  PROVE  HeldInv
  <1>1. /\ \A t \in Workers : pc[t] = "start"
        /\ chops = [i \in 0..(N - 1) |-> TRUE]
        /\ players = [k \in 0..(N - 1) |-> "NOTREADY"] /\ taken = {}
        /\ temp \in [Workers -> {CHOOSE i \in Instruments : TRUE}]
    BY DEF TestInit, ProgramInit, DemoInit, BandInit, Workers
  <1>2. \A i : HasStick(i) = {} /\ HoldersOf(i) = {}
    BY <1>1 DEF HasStick, HoldersOf, Has, HasInstrument
  <1>3. temp \in [Workers -> Instruments]
    BY <1>1, BandAssumption
  <1>4. QED
    BY <1>1, <1>2, <1>3 DEF HeldInv, SticksInv, InstrumentsInv, HeldByOne

\* Only players are where one has an instrument.
LEMMA OnlyPlayersHold ==
  ASSUME TestTypeOK, threadChoice # 6, NEW t \in Workers
  PROVE  ~ HasInstrument(t)
  <1>1. pc[t] \in Places
    BY DEF TestTypeOK, Workers
  <1>2. QED
    BY <1>1 DEF HasInstrument, Places, CommonPlaces, BusyPlaces, SemaphorePlaces,
                SlotPlaces, BoxPlaces, ZombiePlaces, PhiloPlaces, BandPlaces

LEMMA HeldStep == TestInv /\ HeldInv /\ [TestNext]_allVars => HeldInv'
  <1> SUFFICES ASSUME TestInv, HeldInv, [TestNext]_allVars PROVE HeldInv'
    OBVIOUS
  <1>0. TestTypeOK /\ TestTypeOK'
    BY TestInvStep DEF TestInv
  <1>1. ASSUME UNCHANGED <<options, chops, players, taken, temp>>,
               \A t \in Workers : pc'[t] = pc[t]
        PROVE  HeldInv'
    <2>1. /\ \A i : HasStick(i)' = HasStick(i)
          /\ \A i : HoldersOf(i)' = HoldersOf(i)
      BY <1>1 DEF HasStick, HoldersOf, Has, LeftStick, RightStick, HasInstrument, Plays
    <2>2. QED
      BY <1>1, <2>1 DEF HeldInv, SticksInv, InstrumentsInv, HeldByOne, options
  <1>2. ASSUME UNCHANGED <<options, players, taken, temp>>, threadChoice # 6
        PROVE  InstrumentsInv'
    <2>1. threadChoice' # 6
      BY <1>2 DEF options
    <2>2. \A t \in Workers : ~ HasInstrument(t)
      BY <1>0, <1>2, OnlyPlayersHold
    <2>3. \A t \in Workers : ~ HasInstrument(t)'
      <3>1. ASSUME NEW t \in Workers PROVE pc'[t] \in Places'
        BY <1>0 DEF TestTypeOK, Workers
      <3>2. QED
        BY <2>1, <3>1 DEF HasInstrument, Places, CommonPlaces, BusyPlaces, SemaphorePlaces,
                          SlotPlaces, BoxPlaces, ZombiePlaces, PhiloPlaces, BandPlaces
    <2>4. \A i : HoldersOf(i)' = HoldersOf(i)
      BY <2>2, <2>3 DEF HoldersOf
    <2>5. QED
      BY <1>2, <2>4 DEF HeldInv, InstrumentsInv, HeldByOne
  <1>3. ASSUME NEW t \in Workers, Work(t)
        PROVE  HeldInv'
    <2>1. UNCHANGED options
      BY <1>3, WorkSeen
    <2>2. CASE BandStep(t) /\ OnlyBand
      <3>1. threadChoice = 6
        BY <2>2, WhoseStep DEF TestInv
      <3>2. QED
        BY <1>3, <2>1, <2>2, <3>1, InstrumentsKept DEF HeldInv, SticksInv, options
    <2>3. CASE DemoStep(t) /\ OnlyDemos
      <3>1. threadChoice # 6
        BY <2>3, WhoseStep DEF TestInv
      <3>2. InstrumentsInv'
        BY <1>2, <2>1, <2>3, <3>1 DEF OnlyDemos, bandVars
      <3>3. CASE threadChoice \in {4, 5}
        BY <1>3, <2>3, <3>2, <3>3, SticksKept DEF HeldInv
      <3>4. CASE threadChoice \notin {4, 5}
        BY <2>1, <3>2, <3>4 DEF HeldInv, SticksInv, options
      <3>5. QED
        BY <3>3, <3>4
    <2>4. CASE \/ ShoutStep(t) /\ OnlyShouts
               \/ DiningStep(t) /\ OnlyDining
               \/ MailStep(t) /\ OnlyMail
      <3>1. threadChoice \notin {4, 5, 6}
        BY <2>4, WhoseStep DEF TestInv, TestTypeOK, DiningStep
      <3>2. InstrumentsInv'
        BY <1>2, <2>1, <2>4, <3>1 DEF OnlyShouts, OnlyDining, OnlyMail, bandVars
      <3>3. QED
        BY <2>1, <3>1, <3>2 DEF HeldInv, SticksInv, options
    <2>5. QED
      BY <1>3, <2>2, <2>3, <2>4 DEF Work
  <1>4. CASE Start \/ (Kernel /\ NoProgram) \/ UNCHANGED allVars
    BY <1>1, <1>4, NoWork DEF NoProgram, OnlyShouts, demoVars, bandVars
  <1>5. QED
    BY <1>3, <1>4 DEF TestNext

LEMMA HeldInvImplies == HeldInv => HeldOnce
  <1> SUFFICES ASSUME HeldInv PROVE HeldOnce
    OBVIOUS
  <1>1. ASSUME threadChoice \in {4, 5}, NEW i \in 0..(N - 1)
        PROVE  Cardinality({t \in Workers : Has(t, i)}) = IF chops[i] THEN 0 ELSE 1
    <2>1. chops[i] \in BOOLEAN /\ HeldByOne(chops[i], HasStick(i))
      BY <1>1 DEF HeldInv, SticksInv
    <2>2. QED
      BY <2>1, HeldByOneCounts DEF HasStick
  <1>2. ASSUME NEW i \in Instruments
        PROVE  Cardinality({t \in Workers : HasInstrument(t) /\ temp[t] = i})
                   = IF i \in taken THEN 1 ELSE 0
    <2>1. HeldByOne(i \notin taken, HoldersOf(i)) /\ (i \notin taken) \in BOOLEAN
      BY DEF HeldInv, InstrumentsInv
    <2>2. Cardinality(HoldersOf(i)) = IF i \notin taken THEN 0 ELSE 1
      BY <2>1, HeldByOneCounts
    <2>3. QED
      BY <2>2 DEF HoldersOf
  <1>3. QED
    BY <1>1, <1>2 DEF HeldOnce, ChopsticksHeldOnce, InstrumentsHeldOnce

\* Whoever finds a chopstick on the table, or an instrument free, has it alone until it
\* puts it back, however many want it and however their turns fall.
THEOREM HeldByOneOnly == TestSpec => []HeldOnce
  <1>1. TestInit => TestInv /\ HeldInv
    BY TestInvInit, HeldInit
  <1>2. TestInv /\ HeldInv /\ [TestNext]_allVars => (TestInv /\ HeldInv)'
    BY TestInvStep, HeldStep
  <1>3. QED
    BY <1>1, <1>2, HeldInvImplies, PTL DEF TestSpec

-----------------------------------------------------------------------------
(* The rock band's songs.                                                  *)

\* There are N threads besides main.
LEMMA WorkersCounted == IsFiniteSet(Workers) /\ Cardinality(Workers) = N
  <1>1. N \in Nat \ {0} /\ IsFiniteSet(0..(N - 1)) /\ Cardinality(0..(N - 1)) = N
    BY ProgramAssumption, FS_Interval
  <1>2. Number \in Injection(Workers, 0..(N - 1)) /\ Number \in Surjection(Workers, 0..(N - 1))
    BY ProgramAssumption DEF Injection, IsInjective, Surjection
  <1>3. QED
    BY <1>1, <1>2, FS_Injection

Ready == {t \in Workers : pc[t] \in {"readying", "again"}}

\* the places of a player who has chosen to play or to watch
ChoicePlaces == {"decided", "singing", "dropping", "dropped", "unready"}
PlayPlaces == {"dropping", "dropped", "unready"}

\* The places where the others can be while one still has to take the flags back, and
\* those from which a song starts.
BetweenSongs == {"readying", "again", "song", "taking", "decided", "leaving", "left"}
BeforeSong == {"decided", "singing"}

PlayersTyped ==
    /\ players \in [0..(N - 1) -> {"NOTREADY", "WANTING", "READYTOPLAY", "SPECTATOR"}]
    /\ \A t \in Workers :
          players[Number[t]] \in IF pc[t] = "taking" THEN {"WANTING"}
                                 ELSE IF pc[t] \in ChoicePlaces THEN {"READYTOPLAY", "SPECTATOR"}
                                 ELSE {"NOTREADY"}

ReadyCounted == numReady \in Nat /\ numReady <= Cardinality(Ready)

FlagsLate ==
    \A t \in Workers : pc[t] = "again" => \A u \in Workers : pc[u] \in BetweenSongs

NobodyBehind ==
    ~ incrementFlag =>
        /\ \A t \in Workers : pc[t] \notin PlayPlaces \cup {"played"}
        /\ (\E t \in Workers : pc[t] = "singing") => \A t \in Workers : pc[t] \in BeforeSong

BandInv ==
    threadChoice = 6 => PlayersTyped /\ ReadyCounted /\ FlagsLate /\ NobodyBehind

\* When all have been counted ready, all are ready.
LEMMA AllReady ==
  ASSUME ReadyCounted, numReady >= N
  PROVE  \A t \in Workers : pc[t] \in {"readying", "again"}
  <1>1. IsFiniteSet(Workers) /\ Cardinality(Workers) = N /\ N \in Nat
    BY WorkersCounted, ProgramAssumption
  <1>2. Ready \in SUBSET Workers
    BY DEF Ready
  <1>3. IsFiniteSet(Ready) /\ Cardinality(Ready) \in Nat /\ Cardinality(Ready) <= N
    BY <1>1, <1>2, FS_Subset, FS_CardinalityType
  <1>4. Cardinality(Ready) = Cardinality(Workers)
    BY <1>1, <1>3 DEF ReadyCounted
  <1>5. Ready = Workers
    BY <1>1, <1>2, <1>4, FS_Subset
  <1>6. QED
    BY <1>5 DEF Ready

\* When nobody is found undecided, all threads are where they have decided.
LEMMA AllDecided ==
  ASSUME PlayersTyped, RockCheck
  PROVE  \A t \in Workers : pc[t] \in ChoicePlaces
  BY ProgramAssumption DEF PlayersTyped, RockCheck

\* Each keeps its place in the order: choose, sing, play, get ready, and again.
LEMMA BandKept ==
  ASSUME TestInv, threadChoice = 6, BandInv, NEW t \in Workers, BandStep(t), Work(t)
  PROVE  BandInv'
  <1>0. /\ getInstrument \in Semaphores
        /\ Number[t] \in 0..(N - 1)
        /\ \A u \in Workers : Number[u] \in 0..(N - 1)
        /\ \A u \in Workers : u # t => Number[u] # Number[t]
        /\ threadChoice' = 6
        /\ PlayersTyped /\ ReadyCounted /\ FlagsLate /\ NobodyBehind
        /\ IsFiniteSet(Ready) /\ Cardinality(Ready) \in Nat
    <2>1. Ready \in SUBSET Workers
      BY DEF Ready
    <2>2. QED
      BY <2>1, WorkersCounted, FS_Subset, FS_CardinalityType, Furniture, WorkSeen,
         ChopsSemaphores DEF BandInv, options
  <1>1. \A p : (\/ Local(t, p) \/ CallYield(t, p) \/ CallFinish(t, p)
               \/ CallP(t, getInstrument, p) \/ CallV(t, getInstrument, p))
              => \A u \in Workers : pc'[u] = IF u = t THEN p ELSE pc[u]
    BY <1>0, MoveSeen
  \* a step from q to p that leaves the counting of those who are ready
  <1>2. ASSUME NEW p, \A u \in Workers : pc'[u] = IF u = t THEN p ELSE pc[u],
               pc[t] \in {"readying", "again"} <=> p \in {"readying", "again"},
               numReady' = numReady
        PROVE  ReadyCounted'
    <2>1. Ready' = Ready
      BY <1>2 DEF Ready
    <2>2. QED
      BY <1>0, <1>2, <2>1 DEF ReadyCounted
  <1>3. ASSUME NEW p, \A u \in Workers : pc'[u] = IF u = t THEN p ELSE pc[u],
               p # "again" \/ pc[t] = "again", pc[t] \in BetweenSongs => p \in BetweenSongs
        PROVE  FlagsLate'
    BY <1>0, <1>3 DEF FlagsLate, BetweenSongs
  <1>4. ASSUME NEW p, \A u \in Workers : pc'[u] = IF u = t THEN p ELSE pc[u],
               incrementFlag' = incrementFlag, p # "singing" \/ pc[t] = "singing",
               p \in PlayPlaces \cup {"played"} => pc[t] \in PlayPlaces \cup {"played"},
               pc[t] \in BeforeSong => p \in BeforeSong
        PROVE  NobodyBehind'
    BY <1>0, <1>4 DEF NobodyBehind, BeforeSong
  <1>5. ASSUME NEW p, \A u \in Workers : pc'[u] = IF u = t THEN p ELSE pc[u],
               NEW what \in {"NOTREADY", "WANTING", "READYTOPLAY", "SPECTATOR"},
               players' = [players EXCEPT ![Number[t]] = what],
               what \in IF p = "taking" THEN {"WANTING"}
                        ELSE IF p \in ChoicePlaces THEN {"READYTOPLAY", "SPECTATOR"}
                        ELSE {"NOTREADY"}
        PROVE  PlayersTyped'
    BY <1>0, <1>5 DEF PlayersTyped
  <1>6. ASSUME NEW p, \A u \in Workers : pc'[u] = IF u = t THEN p ELSE pc[u],
               players' = players,
               players[Number[t]] \in IF p = "taking" THEN {"WANTING"}
                        ELSE IF p \in ChoicePlaces THEN {"READYTOPLAY", "SPECTATOR"}
                        ELSE {"NOTREADY"}
        PROVE  PlayersTyped'
    BY <1>0, <1>6 DEF PlayersTyped
  <1> USE DEF ChoicePlaces, PlayPlaces, BetweenSongs, BeforeSong
  <1>7. players[Number[t]] \in IF pc[t] = "taking" THEN {"WANTING"}
                               ELSE IF pc[t] \in ChoicePlaces THEN {"READYTOPLAY", "SPECTATOR"}
                               ELSE {"NOTREADY"}
    BY <1>0 DEF PlayersTyped
  <1>8. CASE Arrive(t)
    <2>1. /\ UNCHANGED <<players, numReady, incrementFlag>>
          /\ pc[t] \in {"start", "arrived"}
          /\ \E p \in {"arrived", "song"} :
                \A u \in Workers : pc'[u] = IF u = t THEN p ELSE pc[u]
      BY <1>1, <1>8 DEF Arrive, At, counts
    <2>2. QED
      BY <1>0, <1>2, <1>3, <1>4, <1>6, <1>7, <2>1 DEF BandInv
  <1>9. CASE Choose(t)
    <2>1. /\ pc[t] = "song" /\ UNCHANGED <<numReady, incrementFlag>>
          /\ \E p \in {"taking", "decided"} :
                /\ \A u \in Workers : pc'[u] = IF u = t THEN p ELSE pc[u]
                /\ players' = [players EXCEPT
                                 ![Number[t]] = IF p = "taking" THEN "WANTING" ELSE "SPECTATOR"]
      BY <1>1, <1>9 DEF Choose, At, counts, flags, Become
    <2>2. QED
      BY <1>0, <1>2, <1>3, <1>4, <1>5, <2>1 DEF BandInv
  <1>10. CASE TakeInstrument(t)
    <2>1. /\ pc[t] = "taking" /\ UNCHANGED <<numReady, incrementFlag>>
          /\ \A u \in Workers : pc'[u] = IF u = t THEN "decided" ELSE pc[u]
          /\ \E what \in {"READYTOPLAY", "SPECTATOR"} :
                players' = [players EXCEPT ![Number[t]] = what]
      BY <1>1, <1>10 DEF TakeInstrument, At, counts, flags, Become
    <2>2. QED
      BY <1>0, <1>2, <1>3, <1>4, <1>5, <2>1 DEF BandInv
  <1>11. CASE CountSpectators(t)
    <2>1. /\ pc[t] = "decided" /\ UNCHANGED <<players, numReady, incrementFlag>>
      BY <1>11 DEF CountSpectators, At
    <2>2. CASE CallYield(t, "decided")
      <3>1. \A u \in Workers : pc'[u] = IF u = t THEN "decided" ELSE pc[u]
        BY <1>1, <2>2
      <3>2. QED
        BY <1>0, <1>2, <1>3, <1>4, <1>6, <1>7, <2>1, <3>1 DEF BandInv
    <2>3. CASE RockCheck /\ Local(t, "singing")
      <3>1. \A u \in Workers : pc'[u] = IF u = t THEN "singing" ELSE pc[u]
        BY <1>1, <2>3
      <3>2. \A u \in Workers : pc[u] \in ChoicePlaces
        BY <1>0, <2>3, AllDecided
      <3>3. FlagsLate' /\ NobodyBehind'
        BY <1>0, <2>1, <3>1, <3>2 DEF FlagsLate, NobodyBehind
      <3>4. QED
        BY <1>0, <1>2, <1>6, <1>7, <2>1, <3>1, <3>3 DEF BandInv
    <2>4. QED
      BY <1>11, <2>2, <2>3 DEF CountSpectators
  <1>12. CASE Spectate(t)
    <2>1. /\ pc[t] = "singing" /\ UNCHANGED <<players, numReady, incrementFlag>>
          /\ \A u \in Workers : pc'[u] = IF u = t THEN "singing" ELSE pc[u]
      BY <1>1, <1>12 DEF Spectate, At
    <2>2. QED
      BY <1>0, <1>2, <1>3, <1>4, <1>6, <1>7, <2>1 DEF BandInv
  <1>13. CASE PlaySong(t)
    <2>1. /\ pc[t] = "singing" /\ incrementFlag' = TRUE /\ numReady' = numReady
      BY <1>13 DEF PlaySong, At
    <2>2. NobodyBehind'
      BY <2>1 DEF NobodyBehind
    <2>3. CASE Plays(t, "READYTOPLAY") /\ CallP(t, getInstrument, "dropping")
               /\ UNCHANGED players
      <3>1. \A u \in Workers : pc'[u] = IF u = t THEN "dropping" ELSE pc[u]
        BY <1>1, <2>3
      <3>2. QED
        BY <1>0, <1>2, <1>3, <1>6, <1>7, <2>1, <2>2, <2>3, <3>1 DEF BandInv
    <2>4. CASE Become(t, "NOTREADY") /\ Local(t, "played")
      <3>1. \A u \in Workers : pc'[u] = IF u = t THEN "played" ELSE pc[u]
        BY <1>1, <2>4
      <3>2. PlayersTyped'
        BY <1>5, <2>4, <3>1 DEF Become
      <3>3. QED
        BY <1>0, <1>2, <1>3, <2>1, <2>2, <3>1, <3>2 DEF BandInv
    <2>5. QED
      BY <1>13, <2>3, <2>4 DEF PlaySong
  <1>14. CASE DropInstrument(t)
    <2>1. UNCHANGED <<numReady, incrementFlag>>
      BY <1>14 DEF DropInstrument, counts, flags
    <2>2. CASE At(t, "unready") /\ Become(t, "NOTREADY") /\ Local(t, "played")
      <3>1. /\ pc[t] = "unready"
            /\ \A u \in Workers : pc'[u] = IF u = t THEN "played" ELSE pc[u]
        BY <1>1, <2>2 DEF At
      <3>2. PlayersTyped'
        BY <1>5, <2>2, <3>1 DEF Become
      <3>3. QED
        BY <1>0, <1>2, <1>3, <1>4, <2>1, <3>1, <3>2 DEF BandInv
    <2>3. CASE ~ At(t, "unready")
      <3>1. /\ pc[t] \in {"dropping", "dropped"} /\ players' = players
            /\ \E p \in {"dropped", "unready"} :
                  \A u \in Workers : pc'[u] = IF u = t THEN p ELSE pc[u]
        BY <1>1, <1>14, <2>3 DEF DropInstrument, At
      <3>2. QED
        BY <1>0, <1>2, <1>3, <1>4, <1>6, <1>7, <2>1, <3>1 DEF BandInv
    <2>4. QED
      BY <2>2, <2>3, <1>14 DEF DropInstrument, At
  <1>15. CASE ReadyCheck(t)
    <2>1. UNCHANGED <<players, incrementFlag>>
      BY <1>15 DEF ReadyCheck, flags
    <2>2. CASE At(t, "played") /\ numReady' = numReady + 1 /\ Local(t, "readying")
      <3>1. /\ pc[t] = "played"
            /\ \A u \in Workers : pc'[u] = IF u = t THEN "readying" ELSE pc[u]
        BY <1>1, <2>2 DEF At
      <3>2. Ready' = Ready \cup {t} /\ t \notin Ready
        BY <3>1 DEF Ready
      <3>3. Cardinality(Ready') = Cardinality(Ready) + 1
        BY <1>0, <3>2, FS_AddElement
      <3>4. ReadyCounted'
        BY <1>0, <2>2, <3>3 DEF ReadyCounted
      <3>5. QED
        BY <1>0, <1>3, <1>4, <1>6, <1>7, <2>1, <3>1, <3>4 DEF BandInv
    <2>3. CASE At(t, "readying") /\ numReady' = numReady /\ CallYield(t, "readying")
      <3>1. /\ pc[t] = "readying"
            /\ \A u \in Workers : pc'[u] = IF u = t THEN "readying" ELSE pc[u]
        BY <1>1, <2>3 DEF At
      <3>2. QED
        BY <1>0, <1>2, <1>3, <1>4, <1>6, <1>7, <2>1, <2>3, <3>1 DEF BandInv
    <2>4. CASE /\ At(t, "readying") /\ numReady >= N /\ numReady' = numReady
               /\ IF numReady = N THEN CallYield(t, "again") ELSE Local(t, "again")
      <3>1. /\ pc[t] = "readying"
            /\ \A u \in Workers : pc'[u] = IF u = t THEN "again" ELSE pc[u]
        BY <1>1, <2>4 DEF At
      <3>2. \A u \in Workers : pc[u] \in {"readying", "again"}
        BY <1>0, <2>4, AllReady
      <3>3. FlagsLate'
        BY <3>1, <3>2 DEF FlagsLate
      <3>4. QED
        BY <1>0, <1>2, <1>4, <1>6, <1>7, <2>1, <2>4, <3>1, <3>3 DEF BandInv
    <2>5. QED
      BY <1>15, <2>2, <2>3, <2>4 DEF ReadyCheck
  <1>16. CASE Reset(t)
    <2>1. /\ pc[t] = "again" /\ numReady' = 0 /\ players' = players
          /\ \A u \in Workers : pc'[u] = IF u = t THEN "song" ELSE pc[u]
      BY <1>1, <1>16 DEF Reset, At
    <2>2. \A u \in Workers : pc[u] \in BetweenSongs
      BY <1>0, <2>1 DEF FlagsLate
    <2>3. NobodyBehind'
      BY <2>1, <2>2 DEF NobodyBehind
    <2>4. ReadyCounted'
      <3>1. Ready' = Ready \ {t}
        BY <2>1 DEF Ready
      <3>2. Cardinality(Ready') \in Nat
        BY <1>0, <3>1, FS_RemoveElement, FS_CardinalityType
      <3>3. QED
        BY <2>1, <3>2 DEF ReadyCounted
    <2>5. QED
      BY <1>0, <1>3, <1>6, <1>7, <2>1, <2>3, <2>4 DEF BandInv
  <1>17. CASE LeaveBand(t)
    <2>1. /\ UNCHANGED <<players, numReady, incrementFlag>>
          /\ pc[t] \in {"song", "leaving"}
          /\ \E p \in {"leaving", "left"} :
                \A u \in Workers : pc'[u] = IF u = t THEN p ELSE pc[u]
      BY <1>1, <1>17 DEF LeaveBand, At
    <2>2. QED
      BY <1>0, <1>2, <1>3, <1>4, <1>6, <1>7, <2>1 DEF BandInv
  <1>18. QED
    BY <1>8, <1>9, <1>10, <1>11, <1>12, <1>13, <1>14, <1>15, <1>16, <1>17 DEF BandStep

LEMMA BandInvInit ==
  ASSUME TestInit
  PROVE  BandInv
  <1>1. /\ \A t \in Workers : pc[t] = "start"
        /\ players = [k \in 0..(N - 1) |-> "NOTREADY"]
        /\ numReady = 0
    BY DEF TestInit, ProgramInit, BandInit, Workers
  <1>2. Cardinality(Ready) \in Nat
    <2>1. Ready \in SUBSET Workers
      BY DEF Ready
    <2>2. QED
      BY <2>1, WorkersCounted, FS_Subset, FS_CardinalityType
  <1>3. QED
    BY <1>1, <1>2, ChopsSemaphores
    DEF BandInv, PlayersTyped, ReadyCounted, FlagsLate, NobodyBehind, ChoicePlaces, PlayPlaces

LEMMA BandInvStep == TestInv /\ BandInv /\ [TestNext]_allVars => BandInv'
  <1> SUFFICES ASSUME TestInv, BandInv, [TestNext]_allVars PROVE BandInv'
    OBVIOUS
  <1>1. ASSUME NEW t \in Workers, Work(t)
        PROVE  BandInv'
    <2>1. UNCHANGED options
      BY <1>1, WorkSeen
    <2>2. CASE BandStep(t)
      BY <1>1, <2>2, BandKept, WhoseStep DEF TestInv
    <2>3. CASE ~ BandStep(t)
      BY <1>1, <2>1, <2>3, WhoseStep DEF Work, DiningStep, BandInv, options, TestInv, TestTypeOK
    <2>4. QED
      BY <2>2, <2>3
  <1>2. CASE Start \/ (Kernel /\ NoProgram) \/ UNCHANGED allVars
    <2>1. /\ UNCHANGED <<players, numReady, incrementFlag, threadChoice>>
          /\ \A t \in Workers : pc'[t] = pc[t]
      BY <1>2, NoWork DEF NoProgram, OnlyShouts, bandVars, counts, flags, options
    <2>2. Ready' = Ready
      BY <2>1 DEF Ready
    <2>3. QED
      BY <2>1, <2>2 DEF BandInv, PlayersTyped, ReadyCounted, FlagsLate, NobodyBehind
  <1>3. QED
    BY <1>1, <1>2 DEF TestNext

\* The song that is counted is one that all have chosen and none has played yet.
LEMMA SongCounted ==
  ASSUME TestInv, BandInv, [TestNext]_allVars, songsPlayed' # songsPlayed
  PROVE  /\ \A k \in 0..(N - 1) : players[k] \in {"READYTOPLAY", "SPECTATOR"}
         /\ \A t \in Workers : pc[t] \in {"decided", "singing"}
  <1>1. PICK t \in Workers : Work(t)
    BY NoWork DEF TestNext, NoProgram, OnlyShouts, bandVars, counts
  <1>2. BandStep(t)
    BY <1>1 DEF Work, OnlyShouts, OnlyDining, OnlyMail, OnlyDemos, bandVars, counts
  <1>3. PlaySong(t)
    BY <1>2 DEF BandStep, Arrive, Choose, TakeInstrument, CountSpectators, Spectate,
                DropInstrument, ReadyCheck, Reset, LeaveBand, counts
  <1>4. ~ incrementFlag /\ pc[t] = "singing"
    BY <1>3 DEF PlaySong, At
  <1>5. PlayersTyped /\ NobodyBehind
    BY <1>2, WhoseStep DEF BandInv, TestInv
  <1>6. \A u \in Workers : pc[u] \in {"decided", "singing"}
    BY <1>4, <1>5 DEF NobodyBehind, BeforeSong
  <1>7. \A u \in Workers : players[Number[u]] \in {"READYTOPLAY", "SPECTATOR"}
    BY <1>5, <1>6 DEF PlayersTyped, ChoicePlaces
  <1>8. QED
    BY <1>6, <1>7, ProgramAssumption

\* No song is counted before every player has chosen to play or to watch it, and none
\* while a player is still at the song before, whatever the order of their turns.
THEOREM SongsAreTogether == TestSpec => SongsStartTogether
  <1>1. TestInit => TestInv /\ BandInv
    BY TestInvInit, BandInvInit
  <1>2. TestInv /\ BandInv /\ [TestNext]_allVars => (TestInv /\ BandInv)'
    BY TestInvStep, BandInvStep
  <1>3. TestInv /\ BandInv /\ [TestNext]_allVars
        => [songsPlayed' # songsPlayed =>
              /\ \A k \in 0..(N - 1) : players[k] \in {"READYTOPLAY", "SPECTATOR"}
              /\ \A t \in Workers : pc[t] \in {"decided", "singing"}]_songsPlayed
    BY SongCounted
  <1>4. QED
    BY <1>1, <1>2, <1>3, PTL DEF TestSpec, SongsStartTogether

-----------------------------------------------------------------------------
(* The post office.                                                        *)

Posted == {t \in Workers : pc[t] = "sent" /\ Waits[t] = NoObject}

\* the words that are TRUE, of the slots and behind them, now and at the start
InWords == {x \in People \X (0..S) : postOffice[x[1]][x[2]]}
FoundWords == {x \in People \X (0..S) : memory.postOffice[x[1]][x[2]]}

InBoxes == {x \in People \X (1..S) : Value(x[1]) < x[2]}

MailTyped ==
    /\ M \in Nat /\ messageSend \in Int /\ messageRead \in Nat
    /\ postOffice \in [People -> [0..S -> BOOLEAN]]
    /\ slot \in [Workers -> 0..S]
    /\ \A t \in Workers : pc[t] = "read5" => slot[t] < S

\* what has been sent, or found, and not read is somewhere
SlotsInv ==
    Cardinality(FoundWords) + (M - messageSend) - 1
        = Cardinality(InWords) + Cardinality(Took) + messageRead

\* nobody reads the word behind the slots
NeverCleared == \A r \in People : memory.postOffice[r][S] => postOffice[r][S]

BoxesInv ==
    /\ \A i \in People : Value(i) <= S
    /\ (M - messageSend) + Cardinality(Posted)
           = Cardinality(InBoxes) + Cardinality(Took) + messageRead

MailInv ==
    task \in {5, 6} =>
        /\ MailTyped
        /\ task = 5 => SlotsInv /\ NeverCleared
        /\ task = 6 => BoxesInv

LEMMA MailFinite ==
  /\ IsFiniteSet(Posted) /\ Cardinality(Posted) \in Nat
  /\ IsFiniteSet(Took) /\ Cardinality(Took) \in Nat
  /\ IsFiniteSet(InWords) /\ Cardinality(InWords) \in Nat
  /\ IsFiniteSet(FoundWords) /\ Cardinality(FoundWords) \in Nat
  /\ IsFiniteSet(InBoxes) /\ Cardinality(InBoxes) \in Nat
  <1>1. Posted \in SUBSET Workers /\ Took \in SUBSET Workers
    BY DEF Posted, Took
  <1>2. S \in Nat /\ N \in Nat
    BY MailAssumption, ProgramAssumption
  <1>3. IsFiniteSet(0..(N - 1)) /\ IsFiniteSet(0..S) /\ IsFiniteSet(1..S)
    BY <1>2, FS_Interval
  <1>4. IsFiniteSet(People \X (0..S)) /\ IsFiniteSet(People \X (1..S))
    BY <1>3, FS_Product DEF People
  <1>5. /\ InWords \in SUBSET (People \X (0..S)) /\ FoundWords \in SUBSET (People \X (0..S))
        /\ InBoxes \in SUBSET (People \X (1..S))
    BY DEF InWords, FoundWords, InBoxes
  <1>6. /\ IsFiniteSet(Posted) /\ IsFiniteSet(Took) /\ IsFiniteSet(InBoxes)
        /\ IsFiniteSet(InWords) /\ IsFiniteSet(FoundWords)
    BY <1>1, <1>4, <1>5, WorkersCounted, FS_Subset
  <1>7. QED
    BY <1>6, FS_CardinalityType

\* composeMessage looks for a slot from the first on.
LEMMA FreeSlotIn ==
  ASSUME NEW box
  PROVE  FreeSlot(box) \in 0..S /\ (FreeSlot(box) < S => ~ box[FreeSlot(box)])
  <1>1. S \in Nat \ {0}
    BY MailAssumption
  <1>2. CASE \E k \in 0..(S - 1) : ~ box[k]
    <2> DEFINE Free == {k \in 0..(S - 1) : ~ box[k]}
               R == OpToRel(<, Nat)
    <2>1. IsWellFoundedOn(R, Nat)
      BY NatLessThanWellFounded
    <2>2. Free \in SUBSET Nat /\ Free # {}
      BY <1>1, <1>2
    <2>3. PICK k \in Free : \A j \in Free : ~ (<<j, k>> \in R)
      <3> HIDE DEF R, Free
      <3> QED
        BY <2>1, <2>2, WFMin
    <2>4. k \in 0..(S - 1) /\ ~ box[k] /\ \A j \in 0..(k - 1) : box[j]
      <3>1. k \in 0..(S - 1) /\ ~ box[k]
        OBVIOUS
      <3>2. ASSUME NEW j \in 0..(k - 1), ~ box[j] PROVE FALSE
        <4>1. j \in Free /\ j < k /\ j \in Nat /\ k \in Nat
          BY <1>1, <3>1, <3>2
        <4>2. <<j, k>> \in R
          BY <4>1 DEF OpToRel
        <4>3. QED
          BY <2>3, <4>1, <4>2
      <3>3. QED
        BY <3>1, <3>2
    <2>5. \E l \in 0..(S - 1) : ~ box[l] /\ \A j \in 0..(l - 1) : box[j]
      BY <2>4
    <2>6. FreeSlot(box) \in 0..(S - 1) /\ ~ box[FreeSlot(box)]
      BY <1>2, <2>5 DEF FreeSlot
    <2>7. QED
      BY <1>1, <2>6
  <1>3. CASE ~ \E k \in 0..(S - 1) : ~ box[k]
    BY <1>1, <1>3 DEF FreeSlot
  <1>4. QED
    BY <1>2, <1>3

\* A message goes into a slot or out of one.
LEMMA SlotFilled ==
  ASSUME MailTyped, NEW i \in People, NEW k \in 0..S, ~ postOffice[i][k],
         postOffice' = [postOffice EXCEPT ![i][k] = TRUE]
  PROVE  Cardinality(InWords') = Cardinality(InWords) + 1
  <1>1. \A x \in People \X (0..S) :
            postOffice'[x[1]][x[2]] = IF x = <<i, k>> THEN TRUE ELSE postOffice[x[1]][x[2]]
    <2>1. /\ postOffice' = [postOffice EXCEPT ![i] = [postOffice[i] EXCEPT ![k] = TRUE]]
          /\ DOMAIN postOffice = People /\ DOMAIN postOffice[i] = 0..S
      BY DEF MailTyped
    <2>2. ASSUME NEW j \in People, NEW m \in 0..S
          PROVE  postOffice'[j][m] = IF j = i /\ m = k THEN TRUE ELSE postOffice[j][m]
      BY <2>1
    <2>3. ASSUME NEW x \in People \X (0..S)
          PROVE  x[1] \in People /\ x[2] \in 0..S /\ (x = <<i, k>> <=> x[1] = i /\ x[2] = k)
      OBVIOUS
    <2>4. ASSUME NEW x \in People \X (0..S)
          PROVE  postOffice'[x[1]][x[2]] = IF x = <<i, k>> THEN TRUE ELSE postOffice[x[1]][x[2]]
      <3>1. x[1] \in People /\ x[2] \in 0..S /\ (x = <<i, k>> <=> x[1] = i /\ x[2] = k)
        BY <2>3
      <3>2. postOffice'[x[1]][x[2]]
                = IF x[1] = i /\ x[2] = k THEN TRUE ELSE postOffice[x[1]][x[2]]
        BY <2>2, <3>1
      <3>3. QED
        BY <3>1, <3>2
    <2>5. QED
      BY <2>4
  <1>2. InWords' = InWords \cup {<<i, k>>} /\ <<i, k>> \notin InWords
    <2>1. <<i, k>> \in People \X (0..S)
      OBVIOUS
    <2>2. \A x : x \in InWords' <=> x \in InWords \/ x = <<i, k>>
      BY <1>1, <2>1, Zenon DEF InWords
    <2>3. <<i, k>> \notin InWords
      BY DEF InWords
    <2>4. QED
      BY <2>2, <2>3
  <1>3. QED
    BY <1>2, MailFinite, FS_AddElement

LEMMA SlotEmptied ==
  ASSUME MailTyped, NEW i \in People, NEW k \in 0..S, postOffice[i][k],
         postOffice' = [postOffice EXCEPT ![i][k] = FALSE]
  PROVE  Cardinality(InWords') = Cardinality(InWords) - 1
  <1>1. \A x \in People \X (0..S) :
            postOffice'[x[1]][x[2]] = IF x = <<i, k>> THEN FALSE ELSE postOffice[x[1]][x[2]]
    <2>1. /\ postOffice' = [postOffice EXCEPT ![i] = [postOffice[i] EXCEPT ![k] = FALSE]]
          /\ DOMAIN postOffice = People /\ DOMAIN postOffice[i] = 0..S
      BY DEF MailTyped
    <2>2. ASSUME NEW j \in People, NEW m \in 0..S
          PROVE  postOffice'[j][m] = IF j = i /\ m = k THEN FALSE ELSE postOffice[j][m]
      BY <2>1
    <2>3. ASSUME NEW x \in People \X (0..S)
          PROVE  x[1] \in People /\ x[2] \in 0..S /\ (x = <<i, k>> <=> x[1] = i /\ x[2] = k)
      OBVIOUS
    <2>4. ASSUME NEW x \in People \X (0..S)
          PROVE  postOffice'[x[1]][x[2]] = IF x = <<i, k>> THEN FALSE ELSE postOffice[x[1]][x[2]]
      <3>1. x[1] \in People /\ x[2] \in 0..S /\ (x = <<i, k>> <=> x[1] = i /\ x[2] = k)
        BY <2>3
      <3>2. postOffice'[x[1]][x[2]]
                = IF x[1] = i /\ x[2] = k THEN FALSE ELSE postOffice[x[1]][x[2]]
        BY <2>2, <3>1
      <3>3. QED
        BY <3>1, <3>2
    <2>5. QED
      BY <2>4
  <1>2. InWords' = InWords \ {<<i, k>>} /\ <<i, k>> \in InWords
    BY <1>1 DEF InWords
  <1>3. QED
    BY <1>2, MailFinite, FS_RemoveElement

\* A mailbox whose semaphore goes down has a message more.
LEMMA BoxFilled ==
  ASSUME TestInv, NEW i \in People, Value(i) <= S, Value(i) > 0,
         semValue' = [semValue EXCEPT ![Box[i]] = @ - 1]
  PROVE  /\ Cardinality(InBoxes') = Cardinality(InBoxes) + 1
         /\ \A j \in People : Value(j)' <= Value(j)
  <1>1. /\ \A j \in People : Value(j) \in Nat
        /\ \A j \in People : Value(j)' = IF j = i THEN Value(i) - 1 ELSE Value(j)
        /\ S \in Nat
    BY MailAssumption DEF TestInv, KernelInv, ValuesOK, Value, People
  <1>2. InBoxes' = InBoxes \cup {<<i, Value(i)>>} /\ <<i, Value(i)>> \notin InBoxes
    BY <1>1 DEF InBoxes
  <1>3. Cardinality(InBoxes') = Cardinality(InBoxes) + 1
    BY <1>2, MailFinite, FS_AddElement
  <1>4. QED
    BY <1>1, <1>3

LEMMA BoxEmptied ==
  ASSUME TestInv, NEW i \in People, Value(i) < S,
         semValue' = [semValue EXCEPT ![Box[i]] = @ + 1]
  PROVE  /\ Cardinality(InBoxes') = Cardinality(InBoxes) - 1
         /\ \A j \in People : Value(j) <= S => Value(j)' <= S
  <1>1. /\ \A j \in People : Value(j) \in Nat
        /\ \A j \in People : Value(j)' = IF j = i THEN Value(i) + 1 ELSE Value(j)
        /\ S \in Nat
    BY MailAssumption DEF TestInv, KernelInv, ValuesOK, Value, People
  <1>2. InBoxes' = InBoxes \ {<<i, Value(i) + 1>>} /\ <<i, Value(i) + 1>> \in InBoxes
    BY <1>1 DEF InBoxes
  <1>3. Cardinality(InBoxes') = Cardinality(InBoxes) - 1
    BY <1>2, MailFinite, FS_RemoveElement
  <1>4. QED
    BY <1>1, <1>3

\* A thread's step changes the sets of those that have something to count at most by
\* that thread.
LEMMA TookChanges ==
  ASSUME NEW t \in Workers, NEW p, \A u \in Workers : pc'[u] = IF u = t THEN p ELSE pc[u]
  PROVE  Cardinality(Took') = Cardinality(Took)
             + (IF p \in {"took", "read6", "read5"} THEN 1 ELSE 0)
             - (IF pc[t] \in {"took", "read6", "read5"} THEN 1 ELSE 0)
  <1>1. CASE p \in {"took", "read6", "read5"}
    <2>1. Took' = Took \cup {t}
      BY <1>1 DEF Took
    <2>2. Cardinality(Took') = IF t \in Took THEN Cardinality(Took) ELSE Cardinality(Took) + 1
      BY <2>1, MailFinite, FS_AddElement
    <2>3. QED
      BY <1>1, <2>2, MailFinite DEF Took
  <1>2. CASE p \notin {"took", "read6", "read5"}
    <2>1. Took' = Took \ {t}
      BY <1>2 DEF Took
    <2>2. Cardinality(Took') = IF t \in Took THEN Cardinality(Took) - 1 ELSE Cardinality(Took)
      BY <2>1, MailFinite, FS_RemoveElement
    <2>3. QED
      BY <1>2, <2>2, MailFinite DEF Took
  <1>3. QED
    BY <1>1, <1>2

LEMMA PostedChanges ==
  ASSUME NEW t \in Workers, \A u \in Workers : u # t => pc'[u] = pc[u] /\ Waits'[u] = Waits[u]
  PROVE  Cardinality(Posted') = Cardinality(Posted)
             + (IF pc'[t] = "sent" /\ Waits'[t] = NoObject THEN 1 ELSE 0)
             - (IF pc[t] = "sent" /\ Waits[t] = NoObject THEN 1 ELSE 0)
  <1>1. CASE pc'[t] = "sent" /\ Waits'[t] = NoObject
    <2>1. Posted' = Posted \cup {t}
      BY <1>1 DEF Posted
    <2>2. Cardinality(Posted') = IF t \in Posted THEN Cardinality(Posted) ELSE Cardinality(Posted) + 1
      BY <2>1, MailFinite, FS_AddElement
    <2>3. QED
      BY <1>1, <2>2, MailFinite DEF Posted
  <1>2. CASE ~ (pc'[t] = "sent" /\ Waits'[t] = NoObject)
    <2>1. Posted' = Posted \ {t}
      BY <1>2 DEF Posted
    <2>2. Cardinality(Posted') = IF t \in Posted THEN Cardinality(Posted) - 1 ELSE Cardinality(Posted)
      BY <2>1, MailFinite, FS_RemoveElement
    <2>3. QED
      BY <1>2, <2>2, MailFinite DEF Posted
  <1>3. QED
    BY <1>1, <1>2

TookPlaces == {"took", "read6", "read5"}

\* Where a thread is that takes a step of the post office.
LEMMA MailPlaces ==
  ASSUME TestInv, NEW t \in Workers, MailStep(t)
  PROVE  /\ pc[t] \in Places /\ threadChoice = 0 /\ task \in {5, 6}
         /\ task = 5 => pc[t] \in {"start"} \cup SlotPlaces
         /\ task = 6 => pc[t] \in {"start"} \cup BoxPlaces
  <1>1. task \in {5, 6} /\ pc[t] \in Places /\ (task = 0 \/ threadChoice = 0)
    BY WhoseStep DEF TestInv, TestTypeOK, Workers
  <1>2. pc[t] # "left"
    BY DEF At, MailStep, BeginMail, EnterPost, readingMail, CountRead5, composeMail,
           Busy, LeavePost, Entering, ReadMail, ComposeMessage, LeavingPost
  <1>3. QED
    BY <1>1, <1>2 DEF Places, CommonPlaces, BusyPlaces, SemaphorePlaces, SlotPlaces,
                      BoxPlaces, ZombiePlaces, PhiloPlaces, BandPlaces

\* In task 5 a message is counted as sent with the step that puts it in its slot, and
\* as read one step after the one that takes it out.
LEMMA SlotsKept ==
  ASSUME TestInv, task = 5, MailTyped, SlotsInv, NEW t \in Workers, MailStep(t),
         UNCHANGED options
  PROVE  MailTyped' /\ SlotsInv'
  <1>0. /\ Number[t] \in People /\ S \in Nat \ {0}
        /\ \A r \in Receivers(t) : r \in People
    BY Furniture, MailAssumption DEF People, Receivers
  <1>1. pc[t] \in {"start"} \cup SlotPlaces
    BY MailPlaces
  <1>2. /\ Cardinality(InWords) \in Nat /\ Cardinality(Took) \in Nat
        /\ M \in Nat /\ messageSend \in Int /\ messageRead \in Nat
        /\ slot[t] \in 0..S
        /\ Cardinality(FoundWords) \in Nat /\ FoundWords' = FoundWords
    BY MailFinite DEF MailTyped, FoundWords, options
  <1>3. ASSUME NEW p, Local(t, p) \/ CallYield(t, p) \/ CallFinish(t, p),
               UNCHANGED <<M, messageSend, messageRead, postOffice>>,
               slot' \in [Workers -> 0..S], \A u \in Workers : u # t => slot'[u] = slot[u],
               p \notin TookPlaces, pc[t] \notin TookPlaces
        PROVE  MailTyped' /\ SlotsInv'
    <2>1. \A u \in Workers : pc'[u] = IF u = t THEN p ELSE pc[u]
      BY <1>3, MoveSeen
    <2>2. Cardinality(Took') = Cardinality(Took)
      BY <1>2, <1>3, <2>1, TookChanges DEF TookPlaces
    <2>3. InWords' = InWords
      BY <1>3 DEF InWords
    <2>4. MailTyped'
      BY <1>3, <2>1 DEF MailTyped, TookPlaces
    <2>5. QED
      BY <1>2, <1>3, <2>2, <2>3, <2>4 DEF SlotsInv
  <1>4. CASE BeginMail(t)
    BY <1>3, <1>4 DEF BeginMail, At, mailVars, MailTyped, TookPlaces
  <1>5. CASE EnterPost(t)
    <2>1. slot' \in [Workers -> 0..S] /\ \A u \in Workers : u # t => slot'[u] = slot[u]
      BY <1>0, <1>5 DEF EnterPost, MailTyped
    <2>2. QED
      BY <1>3, <1>5, <2>1 DEF EnterPost, At, TookPlaces
  <1>6. CASE readingMail(t)
    <2>1. CASE /\ slot[t] < S /\ postOffice[Number[t]][slot[t]]
               /\ postOffice' = [postOffice EXCEPT ![Number[t]][slot[t]] = FALSE]
               /\ CallYield(t, "read5")
               /\ UNCHANGED <<slot, hasMail>>
      <3>1. \A u \in Workers : pc'[u] = IF u = t THEN "read5" ELSE pc[u]
        BY <2>1, MoveSeen
      <3>2. Cardinality(Took') = Cardinality(Took) + 1
        BY <1>2, <1>6, <3>1, TookChanges DEF readingMail, At
      <3>3. Cardinality(InWords') = Cardinality(InWords) - 1
        BY <1>0, <1>2, <2>1, SlotEmptied
      <3>4. MailTyped'
        BY <1>0, <1>2, <1>6, <2>1, <3>1 DEF MailTyped, readingMail
      <3>5. QED
        BY <1>2, <1>6, <3>2, <3>3, <3>4 DEF SlotsInv, readingMail
    <2>2. CASE /\ slot[t] < S /\ slot' = [slot EXCEPT ![t] = @ + 1]
               /\ Local(t, "reading") /\ UNCHANGED <<postOffice, hasMail>>
      <3>1. slot' \in [Workers -> 0..S] /\ \A u \in Workers : u # t => slot'[u] = slot[u]
        BY <1>0, <1>2, <2>2 DEF MailTyped
      <3>2. QED
        BY <1>3, <1>6, <2>2, <3>1 DEF readingMail, At, TookPlaces
    <2>3. CASE Local(t, "leave5") /\ UNCHANGED <<postOffice, slot>>
      BY <1>3, <1>6, <2>3 DEF readingMail, At, TookPlaces, MailTyped
    <2>4. QED
      BY <1>6, <2>1, <2>2, <2>3 DEF readingMail
  <1>7. CASE CountRead5(t)
    <2>1. \A u \in Workers : pc'[u] = IF u = t THEN "reading" ELSE pc[u]
      BY <1>7, MoveSeen DEF CountRead5
    <2>2. pc[t] = "read5" /\ slot[t] < S
      BY <1>7 DEF CountRead5, At, MailTyped
    <2>3. Cardinality(Took') = Cardinality(Took) - 1
      BY <1>2, <2>1, <2>2, TookChanges
    <2>4. InWords' = InWords
      BY <1>7 DEF InWords, CountRead5
    <2>5. MailTyped'
      BY <1>0, <1>2, <1>7, <2>1, <2>2 DEF MailTyped, CountRead5
    <2>6. QED
      BY <1>2, <1>7, <2>3, <2>4, <2>5 DEF SlotsInv, CountRead5
  <1>8. CASE composeMail(t)
    <2>1. PICK r \in Receivers(t) :
            LET k == IF hereAgain[t] THEN 0 ELSE FreeSlot(postOffice[r]) IN
            \/ /\ ~ postOffice[r][k]
               /\ postOffice' = [postOffice EXCEPT ![r][k] = TRUE]
               /\ messageSend' = messageSend - 1
               /\ Local(t, "leave5")
               /\ UNCHANGED slot
            \/ Local(t, "busy") /\ UNCHANGED <<postOffice, messageSend, slot>>
            \/ /\ slot' = [slot EXCEPT ![t] = 0]
               /\ Local(t, "reading") /\ UNCHANGED <<postOffice, messageSend>>
      BY <1>8 DEF composeMail
    <2> DEFINE k == IF hereAgain[t] THEN 0 ELSE FreeSlot(postOffice[r])
    <2>2. k \in 0..S
      BY <1>0, FreeSlotIn
    <2>3. pc[t] \notin TookPlaces /\ UNCHANGED <<M, messageRead>>
      BY <1>8 DEF composeMail, At, TookPlaces
    <2>4. CASE /\ ~ postOffice[r][k]
               /\ postOffice' = [postOffice EXCEPT ![r][k] = TRUE]
               /\ messageSend' = messageSend - 1
               /\ Local(t, "leave5")
               /\ UNCHANGED slot
      <3> HIDE DEF k
      <3>1. \A u \in Workers : pc'[u] = IF u = t THEN "leave5" ELSE pc[u]
        BY <2>4, MoveSeen
      <3>2. Cardinality(Took') = Cardinality(Took)
        BY <1>2, <2>3, <3>1, TookChanges DEF TookPlaces
      <3>3. Cardinality(InWords') = Cardinality(InWords) + 1
        BY <1>0, <2>2, <2>4, SlotFilled
      <3>4. MailTyped'
        <4>1. postOffice' \in [People -> [0..S -> BOOLEAN]]
          BY <1>0, <2>2, <2>4 DEF MailTyped
        <4>2. QED
          BY <1>2, <2>3, <2>4, <3>1, <4>1 DEF MailTyped
      <3>5. QED
        BY <1>2, <2>3, <2>4, <3>2, <3>3, <3>4 DEF SlotsInv
    <2>5. CASE Local(t, "busy") /\ UNCHANGED <<postOffice, messageSend, slot>>
      BY <1>3, <2>3, <2>5 DEF TookPlaces, MailTyped
    <2>6. CASE /\ slot' = [slot EXCEPT ![t] = 0]
               /\ Local(t, "reading") /\ UNCHANGED <<postOffice, messageSend>>
      <3>1. slot' \in [Workers -> 0..S] /\ \A u \in Workers : u # t => slot'[u] = slot[u]
        BY <1>0, <2>6 DEF MailTyped
      <3>2. QED
        BY <1>3, <2>3, <2>6, <3>1 DEF TookPlaces
    <2>7. QED
      BY <2>1, <2>4, <2>5, <2>6
  <1>9. CASE Busy(t)
    BY <1>3, <1>9 DEF Busy, Waiting, At, TookPlaces, MailTyped
  <1>10. CASE LeavePost(t)
    <2>1. /\ pc[t] \in {"leave5", "leaving5"} /\ UNCHANGED mailVars
          /\ \E p \in {"leaving5", "left", "enter5"} :
                Local(t, p) \/ CallYield(t, p) \/ CallFinish(t, p)
      BY <1>10 DEF LeavePost, Waiting, At
    <2>2. slot \in [Workers -> 0..S]
      BY DEF MailTyped
    <2>3. QED
      BY <1>3, <2>1, <2>2 DEF TookPlaces, mailVars
  <1>11. CASE Entering(t) \/ ReadMail(t) \/ ComposeMessage(t) \/ LeavingPost(t)
    BY <1>1, <1>11 DEF Entering, ReadMail, ComposeMessage, LeavingPost, At, SlotPlaces
  <1>12. QED
    BY <1>4, <1>5, <1>6, <1>7, <1>8, <1>9, <1>10, <1>11 DEF MailStep

\* composeMail sets the word behind the slots, and readingMail stops before it.
LEMMA BehindKept ==
  ASSUME task = 5, TestInv, MailTyped, NeverCleared, NEW t \in Workers, MailStep(t),
         UNCHANGED options
  PROVE  NeverCleared'
  <1>1. memory' = memory
    BY DEF options
  <1>2. ASSUME UNCHANGED postOffice PROVE NeverCleared'
    BY <1>1, <1>2 DEF NeverCleared
  <1>3. CASE readingMail(t)
    <2>1. CASE slot[t] < S /\ postOffice' = [postOffice EXCEPT ![Number[t]][slot[t]] = FALSE]
      <3> DEFINE i == Number[t]
      <3>1. slot[t] \in 0..S /\ S \in 0..S /\ slot[t] # S
        BY <2>1, MailAssumption DEF MailTyped
      <3>2. \A r \in People : postOffice'[r][S] = postOffice[r][S]
        <4>1. /\ postOffice' = [postOffice EXCEPT ![i] = [postOffice[i] EXCEPT ![slot[t]] = FALSE]]
              /\ DOMAIN postOffice = People /\ DOMAIN postOffice[i] = 0..S
          BY <2>1, Furniture DEF MailTyped, People
        <4>2. QED
          BY <3>1, <4>1
      <3>3. QED
        BY <1>1, <3>2 DEF NeverCleared
    <2>2. QED
      BY <1>2, <1>3, <2>1 DEF readingMail
  <1>4. CASE composeMail(t)
    <2>1. ASSUME NEW r \in People, NEW k \in 0..S,
                 postOffice' = [postOffice EXCEPT ![r][k] = TRUE]
          PROVE  NeverCleared'
      <3>1. S \in 0..S
        BY MailAssumption
      <3>2. \A i \in People : postOffice[i][S] => postOffice'[i][S]
        BY <2>1, <3>1 DEF MailTyped
      <3>3. QED
        BY <1>1, <3>2 DEF NeverCleared
    <2>2. /\ \A r \in Receivers(t) : r \in People
          /\ \A box : FreeSlot(box) \in 0..S
          /\ 0 \in 0..S
      BY FreeSlotIn, MailAssumption DEF Receivers
    <2>3. QED
      BY <1>2, <1>4, <2>1, <2>2 DEF composeMail
  <1>5. QED
    BY <1>2, <1>3, <1>4
    DEF MailStep, BeginMail, EnterPost, CountRead5, Busy, LeavePost, Entering, ReadMail,
        ComposeMessage, LeavingPost, mailVars

\* In task 6 the V that empties a place of the box counts the message as taken, and the P
\* that fills one as posted; both are counted by later steps.
LEMMA BoxesKept ==
  ASSUME TestInv, task = 6, MailTyped, BoxesInv, NEW t \in Workers, MailStep(t)
  PROVE  MailTyped' /\ BoxesInv'
  <1>0. /\ Number[t] \in People /\ S \in Nat
        /\ \A r \in Receivers(t) : r \in People
        /\ \A r \in People : Box[r] \in Semaphores /\ Value(r) \in Nat
        /\ t \in Threads /\ Workers \subseteq Threads
        /\ KernelInv /\ Waits[t] = NoObject
    <2>1. Executing(t)
      BY WorkExecuting DEF Work, MailStep, At, BeginMail, EnterPost, readingMail,
         CountRead5, composeMail, Busy, LeavePost, Entering, ReadMail, ComposeMessage,
         LeavingPost
    <2>2. QED
      BY <2>1, Furniture, MailAssumption, ExecutingFree
      DEF People, Receivers, Workers, TestInv, KernelInv, ValuesOK, Value
  <1>1. pc[t] \in {"start"} \cup BoxPlaces
    BY MailPlaces
  <1>2. /\ Cardinality(InBoxes) \in Nat /\ Cardinality(Took) \in Nat
        /\ Cardinality(Posted) \in Nat
        /\ M \in Nat /\ messageSend \in Int /\ messageRead \in Nat
    BY MailFinite DEF MailTyped
  <1>3. ASSUME NEW p, \A u \in Workers : pc'[u] = IF u = t THEN p ELSE pc[u], p # "read5",
               UNCHANGED <<M, postOffice, slot>>, messageSend' \in Int, messageRead' \in Nat
        PROVE  MailTyped'
    BY <1>3 DEF MailTyped
  <1>4. ASSUME NEW p, Local(t, p) \/ CallYield(t, p) \/ CallFinish(t, p)
        PROVE  /\ \A u \in Workers : pc'[u] = IF u = t THEN p ELSE pc[u]
               /\ InBoxes' = InBoxes /\ \A i \in People : Value(i)' = Value(i)
               /\ Cardinality(Posted') = Cardinality(Posted)
                     + (IF p = "sent" THEN 1 ELSE 0) - (IF pc[t] = "sent" THEN 1 ELSE 0)
               /\ Cardinality(Took') = Cardinality(Took)
                     + (IF p \in TookPlaces THEN 1 ELSE 0)
                     - (IF pc[t] \in TookPlaces THEN 1 ELSE 0)
    <2>1. \A u \in Workers : pc'[u] = IF u = t THEN p ELSE pc[u]
      BY <1>4, MoveSeen
    <2>2. Quiet
      BY <1>0, <1>4, LocalEffect, CallYieldEffect, CallFinishEffect
    <2>3. InBoxes' = InBoxes /\ \A i \in People : Value(i)' = Value(i)
      BY <2>2 DEF InBoxes, Value, Quiet
    <2>4. Waits' = Waits
      BY <2>2 DEF Quiet
    <2>5. /\ Cardinality(Posted') = Cardinality(Posted)
                + (IF pc'[t] = "sent" /\ Waits'[t] = NoObject THEN 1 ELSE 0)
                - (IF pc[t] = "sent" /\ Waits[t] = NoObject THEN 1 ELSE 0)
          /\ pc'[t] = p
      BY <2>1, <2>4, PostedChanges
    <2>6. Cardinality(Took') = Cardinality(Took)
             + (IF p \in TookPlaces THEN 1 ELSE 0) - (IF pc[t] \in TookPlaces THEN 1 ELSE 0)
      BY <2>1, TookChanges DEF TookPlaces
    <2>7. QED
      BY <1>0, <2>1, <2>3, <2>4, <2>5, <2>6
  <1>5. ASSUME NEW p, Local(t, p) \/ CallYield(t, p) \/ CallFinish(t, p),
               p \notin TookPlaces, pc[t] \notin TookPlaces, p # "sent", pc[t] # "sent",
               UNCHANGED <<M, postOffice, slot, messageSend, messageRead>>
        PROVE  MailTyped' /\ BoxesInv'
    <2>1. MailTyped'
      BY <1>2, <1>3, <1>4, <1>5 DEF TookPlaces
    <2>2. /\ Cardinality(Posted') = Cardinality(Posted)
          /\ Cardinality(Took') = Cardinality(Took)
          /\ InBoxes' = InBoxes /\ \A i \in People : Value(i)' = Value(i)
      BY <1>2, <1>4, <1>5
    <2>3. QED
      BY <1>5, <2>1, <2>2 DEF BoxesInv
  <1>6. ASSUME Value(Number[t]) < S, CallV(t, Box[Number[t]], "took"),
               pc[t] \notin TookPlaces, pc[t] # "sent",
               UNCHANGED <<M, postOffice, slot, messageSend, messageRead>>
        PROVE  MailTyped' /\ BoxesInv'
    <2>1. \A u \in Workers : pc'[u] = IF u = t THEN "took" ELSE pc[u]
      BY <1>0, <1>6, MoveSeen
    <2>2. Up(Box[Number[t]])
      BY <1>0, <1>6, CallVEffect
    <2>3. /\ Cardinality(InBoxes') = Cardinality(InBoxes) - 1
          /\ \A i \in People : Value(i)' <= S
      BY <1>0, <1>6, <2>2, BoxEmptied DEF Up, BoxesInv
    <2>4. Cardinality(Took') = Cardinality(Took) + 1
      BY <1>2, <1>6, <2>1, TookChanges DEF TookPlaces
    <2>5. Waits' = Waits /\ pc'[t] = "took"
      BY <2>1, <2>2 DEF Up
    <2>6. Cardinality(Posted') = Cardinality(Posted)
      BY <1>2, <1>6, <2>1, <2>5, PostedChanges
    <2>7. MailTyped'
      BY <1>2, <1>3, <1>6, <2>1
    <2>8. QED
      BY <1>2, <1>6, <2>3, <2>4, <2>6, <2>7 DEF BoxesInv
  <1>7. ASSUME NEW r \in People, CallP(t, Box[r], "sent"),
               pc[t] \notin TookPlaces, pc[t] # "sent",
               UNCHANGED <<M, postOffice, slot, messageSend, messageRead>>
        PROVE  MailTyped' /\ BoxesInv'
    <2>1. \A u \in Workers : pc'[u] = IF u = t THEN "sent" ELSE pc[u]
      BY <1>0, <1>7, MoveSeen
    <2>2. Cardinality(Took') = Cardinality(Took)
      BY <1>2, <1>7, <2>1, TookChanges DEF TookPlaces
    <2>3. MailTyped'
      BY <1>2, <1>3, <1>7, <2>1
    <2>4. CASE Down(Box[r])
      <3>1. Value(r) > 0 /\ Waits' = Waits
        BY <2>4 DEF Down, Value
      <3>2. /\ Cardinality(InBoxes') = Cardinality(InBoxes) + 1
            /\ \A i \in People : Value(i)' <= Value(i)
        BY <2>4, <3>1, BoxFilled DEF Down, BoxesInv
      <3>3. \A i \in People : Value(i)' <= S
        <4>1. \A i \in People : Value(i)' \in Nat
          BY <1>0, <2>4, SMT DEF Down, Value, TestInv, KernelInv, ValuesOK
        <4>2. QED
          BY <1>0, <3>2, <4>1 DEF BoxesInv
      <3>4. Cardinality(Posted') = Cardinality(Posted) + 1
        <4>1. pc'[t] = "sent" /\ Waits'[t] = NoObject /\ pc[t] # "sent"
          BY <1>0, <1>7, <2>1, <3>1
        <4>2. QED
          BY <1>2, <2>1, <3>1, <4>1, PostedChanges
      <3>5. QED
        BY <1>2, <1>7, <2>2, <2>3, <3>2, <3>3, <3>4 DEF BoxesInv
    <2>5. CASE Blocks(t, Box[r])
      <3>1. /\ \A u \in Workers : u # t => Waits'[u] = Waits[u]
            /\ Waits'[t] # NoObject /\ semValue' = semValue
        <4>1. Waits = [u \in Threads |-> Waits[u]] /\ Box[r] # NoObject
          BY <1>0, SynchAssumption DEF Waits
        <4>2. QED
          BY <1>0, <2>5, <4>1 DEF Blocks
      <3>2. Cardinality(Posted') = Cardinality(Posted)
        BY <1>2, <1>7, <2>1, <3>1, PostedChanges
      <3>3. InBoxes' = InBoxes /\ \A i \in People : Value(i)' = Value(i)
        BY <3>1 DEF InBoxes, Value
      <3>4. QED
        BY <1>2, <1>7, <2>2, <2>3, <3>2, <3>3 DEF BoxesInv
    <2>6. QED
      BY <1>0, <1>7, <2>4, <2>5, CallPEffect
  <1>8. CASE BeginMail(t)
    BY <1>5, <1>8 DEF BeginMail, At, mailVars, TookPlaces
  <1>9. CASE Entering(t)
    BY <1>5, <1>6, <1>9 DEF Entering, At, mailVars, TookPlaces
  <1>10. CASE ReadMail(t)
    <2>1. CASE At(t, "took") /\ CallYield(t, "read6") /\ UNCHANGED messageRead
      <3>1. MailTyped'
        BY <1>2, <1>3, <1>4, <1>10, <2>1 DEF ReadMail
      <3>2. /\ Cardinality(Posted') = Cardinality(Posted)
            /\ Cardinality(Took') = Cardinality(Took)
            /\ InBoxes' = InBoxes /\ \A i \in People : Value(i)' = Value(i)
        BY <1>2, <1>4, <2>1 DEF At, TookPlaces
      <3>3. UNCHANGED <<M, messageSend, messageRead>>
        BY <1>10, <2>1 DEF ReadMail
      <3>4. QED
        BY <1>2, <3>1, <3>2, <3>3 DEF BoxesInv
    <2>2. CASE At(t, "read6") /\ messageRead' = messageRead + 1 /\ Local(t, "readNext")
      <3>1. MailTyped'
        BY <1>2, <1>3, <1>4, <1>10, <2>2 DEF ReadMail
      <3>2. /\ Cardinality(Posted') = Cardinality(Posted)
            /\ Cardinality(Took') = Cardinality(Took) - 1
            /\ InBoxes' = InBoxes /\ \A i \in People : Value(i)' = Value(i)
        BY <1>2, <1>4, <2>2 DEF At, TookPlaces
      <3>3. messageRead' = messageRead + 1 /\ UNCHANGED <<M, messageSend>>
        BY <1>10, <2>2 DEF ReadMail
      <3>4. QED
        BY <1>2, <3>1, <3>2, <3>3 DEF BoxesInv
    <2>3. CASE /\ At(t, "readNext")
               /\ \/ Value(Number[t]) < S /\ CallV(t, Box[Number[t]], "took")
                  \/ Local(t, "leave6")
               /\ UNCHANGED messageRead
      BY <1>5, <1>6, <1>10, <2>3 DEF ReadMail, At, TookPlaces
    <2>4. QED
      BY <1>10, <2>1, <2>2, <2>3 DEF ReadMail
  <1>11. CASE ComposeMessage(t)
    <2>1. CASE /\ At(t, "compose6")
               /\ \/ \E r \in Receivers(t) : CallP(t, Box[r], "sent")
                  \/ Local(t, "leave6")
               /\ UNCHANGED messageSend
      BY <1>0, <1>5, <1>7, <1>11, <2>1 DEF ComposeMessage, At, TookPlaces
    <2>2. CASE At(t, "sent") /\ messageSend' = messageSend - 1 /\ Local(t, "leave6")
      <3>1. MailTyped'
        BY <1>2, <1>3, <1>4, <1>11, <2>2 DEF ComposeMessage
      <3>2. /\ Cardinality(Posted') = Cardinality(Posted) - 1
            /\ Cardinality(Took') = Cardinality(Took)
            /\ InBoxes' = InBoxes /\ \A i \in People : Value(i)' = Value(i)
        BY <1>2, <1>4, <2>2 DEF At, TookPlaces
      <3>3. messageSend' = messageSend - 1 /\ UNCHANGED <<M, messageRead>>
        BY <1>11, <2>2 DEF ComposeMessage
      <3>4. QED
        BY <1>2, <3>1, <3>2, <3>3 DEF BoxesInv
    <2>3. QED
      BY <1>11, <2>1, <2>2 DEF ComposeMessage
  <1>12. CASE LeavingPost(t)
    BY <1>5, <1>12 DEF LeavingPost, Waiting, At, TookPlaces, mailVars
  <1>13. CASE \/ EnterPost(t) \/ readingMail(t) \/ CountRead5(t) \/ composeMail(t)
              \/ Busy(t) \/ LeavePost(t)
    BY <1>1, <1>13 DEF EnterPost, readingMail, CountRead5, composeMail, Busy, LeavePost,
                       At, BoxPlaces
  <1>14. QED
    BY <1>8, <1>9, <1>10, <1>11, <1>12, <1>13 DEF MailStep

\* The thread that the V of a reader has let go on fills the place.
LEMMA BoxWoken ==
  ASSUME TestInv, task = 6, MailTyped, BoxesInv, NEW t \in Workers, Wakes(t),
         UNCHANGED mailVars, \A u \in Workers : pc'[u] = pc[u]
  PROVE  BoxesInv'
  <1>1. /\ t \in Threads /\ Workers \subseteq Threads
        /\ Waits[t] # NoObject /\ Waits[t] \in Awaited(t, pc[t])
        /\ pc[t] \in Places /\ threadChoice = 0
        /\ Waits = [u \in Threads |-> Waits[u]]
        /\ semValue \in [Semaphores -> Nat]
    BY SynchAssumption
    DEF Workers, Wakes, TestInv, TestTypeOK, Blocked, Waits, KernelInv, ValuesOK
  <1>2. pc[t] = "sent"
    BY <1>1 DEF Awaited, Places, CommonPlaces, BusyPlaces, SemaphorePlaces, SlotPlaces,
                BoxPlaces, ZombiePlaces, PhiloPlaces, BandPlaces
  <1>3. PICK r \in People : Waits[t] = Box[r]
    BY <1>1, <1>2 DEF Awaited
  <1>4. /\ \A u \in Workers : u # t => Waits'[u] = Waits[u]
        /\ Waits'[t] = NoObject
        /\ semValue' = [semValue EXCEPT ![Box[r]] = @ - 1] /\ Value(r) > 0
        /\ \A i \in People : Value(i)' \in Nat /\ Value(i) \in Nat
    BY <1>1, <1>3, MailAssumption DEF Wakes, Value, People
  <1>5. /\ Cardinality(InBoxes') = Cardinality(InBoxes) + 1
        /\ \A i \in People : Value(i)' <= Value(i)
    BY <1>4, BoxFilled DEF BoxesInv
  <1>6. Cardinality(Posted') = Cardinality(Posted) + 1
    <2>1. pc'[t] = "sent"
      BY <1>2
    <2>2. \A u \in Workers : u # t => pc'[u] = pc[u] /\ Waits'[u] = Waits[u]
      BY <1>4
    <2>3. Cardinality(Posted') = Cardinality(Posted)
             + (IF pc'[t] = "sent" /\ Waits'[t] = NoObject THEN 1 ELSE 0)
             - (IF pc[t] = "sent" /\ Waits[t] = NoObject THEN 1 ELSE 0)
      BY <2>2, PostedChanges
    <2>4. QED
      BY <1>1, <1>4, <2>1, <2>3, MailFinite
  <1>7. Cardinality(Took') = Cardinality(Took)
    <2>1. Took' = Took
      BY DEF Took
    <2>2. QED
      BY <2>1
  <1>8. \A i \in People : Value(i)' <= S
    BY <1>4, <1>5, MailAssumption DEF BoxesInv
  <1>9. M' = M /\ messageSend' = messageSend /\ messageRead' = messageRead
    BY DEF mailVars
  <1>10. /\ M \in Nat /\ messageSend \in Int /\ messageRead \in Nat
         /\ Cardinality(InBoxes) \in Nat /\ Cardinality(Posted) \in Nat
         /\ Cardinality(Took) \in Nat
    BY MailFinite DEF MailTyped
  <1>11. (M' - messageSend') + Cardinality(Posted')
             = Cardinality(InBoxes') + Cardinality(Took') + messageRead'
    BY <1>5, <1>6, <1>7, <1>9, <1>10 DEF BoxesInv
  <1>12. QED
    BY <1>8, <1>11 DEF BoxesInv

LEMMA MailInvInit ==
  ASSUME TestInit
  PROVE  MailInv
  <1> SUFFICES ASSUME task \in {5, 6} PROVE MailInv
    BY DEF MailInv
  <1>1. /\ \A t \in Workers : pc[t] = "start"
        /\ M \in Nat /\ messageSend = (IF task = 5 THEN M - 1 ELSE M) /\ messageRead = 0
        /\ postOffice = memory.postOffice
        /\ slot = [t \in Workers |-> 0]
        /\ S \in Nat
        /\ \A i \in People : Value(i) = S
    BY ThreadTestAssumption, MailAssumption
    DEF TestInit, ProgramInit, Init, Input, MailInit, Workers, Value, People
  <1>2. Posted = {} /\ Took = {} /\ InWords = FoundWords /\ NeverCleared
    BY <1>1 DEF Posted, Took, InWords, FoundWords, NeverCleared
  <1>3. InBoxes = {}
    BY <1>1 DEF InBoxes
  <1>4. MailTyped
    BY <1>1, MemoryTyped DEF MailTyped
  <1>5. QED
    BY <1>1, <1>2, <1>3, <1>4, MailFinite, FS_EmptySet DEF MailInv, SlotsInv, BoxesInv

LEMMA MailInvStep == TestInv /\ MailInv /\ [TestNext]_allVars => MailInv'
  <1> SUFFICES ASSUME TestInv, MailInv, [TestNext]_allVars PROVE MailInv'
    OBVIOUS
  <1>1. ASSUME NEW t \in Workers, Work(t)
        PROVE  MailInv'
    <2>1. task' = task /\ UNCHANGED options
      BY <1>1, WorkSeen DEF options
    <2>2. CASE MailStep(t)
      BY <1>1, <2>1, <2>2, SlotsKept, BehindKept, BoxesKept, WhoseStep DEF MailInv, TestInv
    <2>3. CASE ~ MailStep(t)
      BY <1>1, <2>1, <2>3, WhoseStep DEF Work, DiningStep, MailInv, TestInv, TestTypeOK
    <2>4. QED
      BY <2>2, <2>3
  <1>2. CASE Start \/ (Kernel /\ NoProgram) \/ UNCHANGED allVars
    <2>1. /\ UNCHANGED mailVars /\ task' = task /\ memory' = memory
          /\ \A t \in Workers : pc'[t] = pc[t]
          /\ Quiet \/ \E t \in Workers : Wakes(t)
      BY <1>2, NoWork DEF NoProgram, OnlyShouts, options
    <2>2. MailTyped => MailTyped'
      BY <2>1 DEF MailTyped, mailVars
    <2>3. (SlotsInv => SlotsInv') /\ (NeverCleared => NeverCleared')
      <3>1. InWords' = InWords /\ FoundWords' = FoundWords /\ Took' = Took
        BY <2>1 DEF InWords, FoundWords, Took, mailVars
      <3>2. QED
        BY <2>1, <3>1 DEF SlotsInv, NeverCleared, mailVars
    <2>4. CASE Quiet
      <3>1. /\ InBoxes' = InBoxes /\ Took' = Took /\ Posted' = Posted
            /\ \A i \in People : Value(i)' = Value(i)
        BY <2>1, <2>4 DEF InBoxes, Took, Posted, Value, Quiet
      <3>2. BoxesInv => BoxesInv'
        BY <2>1, <3>1 DEF BoxesInv, mailVars
      <3>3. QED
        BY <2>1, <2>2, <2>3, <3>2 DEF MailInv
    <2>5. CASE \E t \in Workers : Wakes(t)
      BY <2>1, <2>2, <2>3, <2>5, BoxWoken DEF MailInv
    <2>6. QED
      BY <2>1, <2>4, <2>5
  <1>3. QED
    BY <1>1, <1>2 DEF TestNext

\* The words that are TRUE are the slots with a message and words behind the slots: those
\* that were TRUE at the start, which stay so, and those of the boxes that overran.
LEMMA WordsCounted ==
  ASSUME task = 5, NeverCleared
  PROVE  Cardinality(InWords) - Cardinality(FoundWords)
             = Stored + Cardinality(Overrun) - Found
  <1> DEFINE In == {x \in Slots : postOffice[x[1]][x[2]]}
             Before == {x \in Slots : memory.postOffice[x[1]][x[2]]}
             Behind == {x \in People \X {S} : postOffice[x[1]][x[2]]}
             BehindBefore == {x \in People \X {S} : memory.postOffice[x[1]][x[2]]}
  <1>1. S \in Nat \ {0}
    BY MailAssumption
  <1>2. Stored = Cardinality(In) /\ Found = Cardinality(Before)
    BY DEF Stored, Found
  <1>3. \A x : /\ x \in People \X (0..S) <=> x \in Slots \/ x \in People \X {S}
               /\ ~ (x \in Slots /\ x \in People \X {S})
    BY <1>1 DEF Slots
  <1>4. InWords = In \cup Behind /\ In \cap Behind = {}
    BY <1>3 DEF InWords
  <1>5. FoundWords = Before \cup BehindBefore /\ Before \cap BehindBefore = {}
    BY <1>3 DEF FoundWords
  <1>6. Behind = BehindBefore \cup Overrun /\ BehindBefore \cap Overrun = {}
    <2>1. \A x \in People \X {S} : memory.postOffice[x[1]][x[2]] => postOffice[x[1]][x[2]]
      BY DEF NeverCleared
    <2>2. QED
      BY <2>1 DEF Overrun
  <1>7. /\ IsFiniteSet(In) /\ IsFiniteSet(Behind) /\ IsFiniteSet(Before)
        /\ IsFiniteSet(BehindBefore) /\ IsFiniteSet(Overrun)
    <2>1. /\ In \subseteq InWords /\ Behind \subseteq InWords /\ Before \subseteq FoundWords
          /\ BehindBefore \subseteq FoundWords /\ Overrun \subseteq InWords
      BY <1>4, <1>5, <1>6
    <2>2. QED
      BY <2>1, MailFinite, FS_Subset
  <1> HIDE DEF In, Before, Behind, BehindBefore
  <1>8. /\ Cardinality(In) \in Nat /\ Cardinality(Behind) \in Nat
        /\ Cardinality(Before) \in Nat /\ Cardinality(BehindBefore) \in Nat
        /\ Cardinality(Overrun) \in Nat /\ Cardinality({}) = 0
    BY <1>7, FS_CardinalityType, FS_EmptySet
  <1>9. Cardinality(InWords) = Cardinality(In) + Cardinality(Behind) - 0
    BY <1>4, <1>7, <1>8, FS_Union
  <1>10. Cardinality(FoundWords) = Cardinality(Before) + Cardinality(BehindBefore) - 0
    BY <1>5, <1>7, <1>8, FS_Union
  <1>11. Cardinality(Behind) = Cardinality(BehindBefore) + Cardinality(Overrun) - 0
    BY <1>6, <1>7, <1>8, FS_Union
  <1>12. QED
    BY <1>2, <1>8, <1>9, <1>10, <1>11

LEMMA MailInvImplies == TestInv /\ MailInv => MailConserved
  <1> SUFFICES ASSUME TestInv, MailInv, task \in {5, 6} PROVE MailConserved
    BY DEF MailConserved
  <1>1. Sent = Posted
    <2>1. ASSUME NEW t \in Workers
          PROVE  Waits[t] = NoObject <=> resume[t] # "P"
      <3>1. t \in Threads
        BY DEF Workers
      <3>2. resume[t] = "P" => waitsFor[t] # NoObject
        BY <3>1, SynchAssumption DEF TestInv, KernelInv, Placed
      <3>3. QED
        BY <3>1, <3>2 DEF Waits
    <2>2. QED
      BY <2>1 DEF Sent, Posted
  <1>2. CASE task = 5
    <2>1. Posted = {}
      <3>1. ASSUME NEW t \in Workers PROVE pc[t] # "sent"
        <4>1. pc[t] \in Places /\ threadChoice = 0
          BY <1>2 DEF TestInv, TestTypeOK, Workers
        <4>2. QED
          BY <1>2, <4>1 DEF Places, CommonPlaces, BusyPlaces, SemaphorePlaces, SlotPlaces,
                            BoxPlaces, ZombiePlaces, PhiloPlaces, BandPlaces
      <3>2. QED
        BY <3>1 DEF Posted
    <2>2. Cardinality(Posted) = 0
      BY <2>1, FS_EmptySet
    <2>3. MailTyped /\ SlotsInv /\ NeverCleared
      BY <1>2 DEF MailInv
    <2>4. Cardinality(InWords) - Cardinality(FoundWords)
              = Stored + Cardinality(Overrun) - Found
      BY <1>2, <2>3, WordsCounted
    <2>5. Stored \in Nat /\ Found \in Nat /\ Cardinality(Overrun) \in Nat
      <3>1. /\ {x \in Slots : postOffice[x[1]][x[2]]} \subseteq InWords
            /\ {x \in Slots : memory.postOffice[x[1]][x[2]]} \subseteq FoundWords
            /\ Overrun \subseteq InWords
        BY MailAssumption DEF Slots, InWords, FoundWords, Overrun
      <3>2. \A T : T \subseteq InWords \/ T \subseteq FoundWords => Cardinality(T) \in Nat
        BY MailFinite, FS_Subset, FS_CardinalityType
      <3>3. QED
        BY <1>2, <3>1, <3>2 DEF Stored, Found
    <2>6. Sendings = Found + (M - messageSend) + 0 - 1
      BY <1>1, <1>2, <2>2 DEF Sendings
    <2>7. Kept = Stored + Cardinality(Took) + messageRead
      BY DEF Kept
    <2>8. /\ M \in Int /\ messageSend \in Int /\ messageRead \in Int
          /\ Cardinality(Took) \in Int /\ Cardinality(InWords) \in Int
          /\ Cardinality(FoundWords) \in Int
      BY <2>3, MailFinite DEF MailTyped
    <2>9. \A words, before, stored, over, found, sent, took, read \in Int :
             before + sent - 1 = words + took + read /\ words - before = stored + over - found
                 => found + sent + 0 - 1 = (stored + took + read) + over
      OBVIOUS
    <2>10. Sendings = Kept + Cardinality(Overrun)
      <3>1. /\ Stored \in Int /\ Found \in Int /\ Cardinality(Overrun) \in Int
            /\ M - messageSend \in Int
        BY <2>5, <2>8
      <3>2. Cardinality(FoundWords) + (M - messageSend) - 1
                = Cardinality(InWords) + Cardinality(Took) + messageRead
        BY <2>3 DEF SlotsInv
      <3>3. Found + (M - messageSend) + 0 - 1
                = (Stored + Cardinality(Took) + messageRead) + Cardinality(Overrun)
        BY <2>4, <2>8, <2>9, <3>1, <3>2
      <3>4. QED
        BY <2>6, <2>7, <3>3
    <2>11. QED
      BY <2>10 DEF MailConserved
  <1>3. CASE task = 6
    <2>1. Stored = Cardinality(InBoxes) /\ Found = 0 /\ Cardinality(Overrun) = 0
      <3>1. Overrun = {}
        BY <1>3 DEF Overrun
      <3>2. QED
        BY <1>3, <3>1, FS_EmptySet DEF Stored, InBoxes, Found
    <2>2. MailTyped /\ BoxesInv
      BY <1>3 DEF MailInv
    <2>3. QED
      BY <1>1, <1>3, <2>1, <2>2, MailFinite
      DEF MailConserved, Sendings, Kept, BoxesInv, MailTyped
  <1>4. QED
    BY <1>2, <1>3

\* For any number of people, messages and places, and whatever new returns for the
\* slots: what has been sent is in one of a mailbox's S places, or has been taken out of
\* it, counted as read or about to be, or, in task 5 alone, is the one message that each
\* box loses when it is found full.  No message is made up but those that were found.
THEOREM MailIsConserved == TestSpec => []MailConserved
  <1>1. TestInit => TestInv /\ MailInv
    BY TestInvInit, MailInvInit
  <1>2. TestInv /\ MailInv /\ [TestNext]_allVars => (TestInv /\ MailInv)'
    BY TestInvStep, MailInvStep
  <1>3. QED
    BY <1>1, <1>2, MailInvImplies, PTL DEF TestSpec

-----------------------------------------------------------------------------
(* The lines of task 1.                                                    *)

LEMMA ExtremesExist ==
  ASSUME NEW n \in Nat, NEW A \in SUBSET (1..n), A # {}
  PROVE  Min(A) \in A /\ Max(A) \in A
  <1> DEFINE R == OpToRel(<, Nat)
  <1>1. IsWellFoundedOn(R, Nat)
    BY NatLessThanWellFounded
  <1>2. ASSUME NEW B \in SUBSET Nat, B # {}
        PROVE  \E x \in B : \A y \in B : x <= y
    <2>1. PICK x \in B : \A y \in B : ~ (<<y, x>> \in R)
      <3> HIDE DEF R
      <3> QED
        BY <1>1, <1>2, WFMin
    <2>2. \A y \in B : x <= y
      <3> TAKE y \in B
      <3>1. ~ (y < x)
        BY <2>1 DEF OpToRel
      <3>2. QED
        BY <3>1
    <2>3. QED
      BY <2>2
  <1>3. Min(A) \in A
    <2>1. \E x \in A : \A y \in A : x <= y
      BY <1>2
    <2>2. QED
      BY <2>1, Zenon DEF Min
  <1>4. Max(A) \in A
    <2> DEFINE B == {n - x : x \in A}
    <2>1. B \in SUBSET Nat /\ B # {}
      <3>1. ASSUME NEW x \in A PROVE n - x \in Nat
        OBVIOUS
      <3>2. QED
        BY <3>1
    <2>2. PICK b \in B : \A y \in B : b <= y
      <3> HIDE DEF B
      <3> QED
        BY <1>2, <2>1
    <2>3. PICK x \in A : b = n - x
      OBVIOUS
    <2>4. \A y \in A : x >= y
      <3> TAKE y \in A
      <3>1. n - x <= n - y
        BY <2>2, <2>3
      <3>2. QED
        BY <3>1
    <2>5. QED
      BY <2>4, Zenon DEF Max
  <1>5. QED
    BY <1>3, <1>4

LEMMA CharactersOf ==
  ASSUME NEW line \in Seq(Characters), NEW m \in 1..(Len(line) + 1), NEW n \in 0..Len(line)
  PROVE  SubSeq(line, m, n) \in Seq(Characters)
  <1>1. \A i \in m..n : line[i] \in Characters
    OBVIOUS
  <1>2. QED
    BY <1>1, SubSeqProperties

LEMMA LinesTyped ==
  ASSUME NEW line \in Seq(Characters)
  PROVE  Trimmed(line) \in Seq(Characters) /\ Stripped(line) \in Seq(Characters)
  <1> DEFINE kept == {k \in DOMAIN line : line[k] # "Space"}
  <1>1. kept \in SUBSET (1..Len(line)) /\ Len(line) \in Nat
    OBVIOUS
  <1>2. kept # {} => Min(kept) \in 1..Len(line) /\ Max(kept) \in 1..Len(line)
    <2> HIDE DEF kept
    <2> QED
      BY <1>1, ExtremesExist
  <1>3. Trimmed(line) = SubSeq(line, 1, IF kept = {} THEN 0 ELSE Max(kept))
    BY DEF Trimmed
  <1>4. Stripped(line) = IF kept = {} THEN <<>> ELSE SubSeq(line, Min(kept), Len(line))
    BY DEF Stripped
  <1>5. QED
    <2> HIDE DEF kept
    <2>1. 1 \in 1..(Len(line) + 1) /\ (IF kept = {} THEN 0 ELSE Max(kept)) \in 0..Len(line)
      BY <1>1, <1>2
    <2>2. Trimmed(line) \in Seq(Characters)
      BY <1>3, <2>1, CharactersOf
    <2>3. kept # {} => Min(kept) \in 1..(Len(line) + 1) /\ Len(line) \in 0..Len(line)
      BY <1>1, <1>2
    <2>4. QED
      BY <1>4, <2>2, <2>3, CharactersOf

\* the digits from a to b, and the decimal fraction from a to the end of the line
DigitsFrom(s, a, b) == a <= b /\ \A j \in a..b : s[j] = "Digit"

PointIn(s, a) ==
    \E k \in a..Len(s) :
        s[k] = "Point" /\ DigitsFrom(s, a, k - 1) /\ DigitsFrom(s, k + 1, Len(s))

LEMMA DigitsOf ==
  ASSUME NEW s \in Seq(Characters), NEW a \in 1..(Len(s) + 1), NEW b \in 0..Len(s)
  PROVE  Digits(SubSeq(s, a, b)) <=> DigitsFrom(s, a, b)
  <1>1. \A i \in a..b : s[i] \in Characters
    OBVIOUS
  <1>2. /\ SubSeq(s, a, b) \in Seq(Characters)
        /\ Len(SubSeq(s, a, b)) = IF a <= b THEN b - a + 1 ELSE 0
        /\ \A i \in 1..(b - a + 1) : SubSeq(s, a, b)[i] = s[a + i - 1]
    BY <1>1, SubSeqProperties
  <1> DEFINE r == SubSeq(s, a, b)
  <1>3. CASE a > b
    <2>1. r = <<>>
      BY <1>3, SubSeqEmpty
    <2>2. QED
      BY <1>3, <2>1 DEF Digits, DigitsFrom
  <1>4. CASE a <= b
    <2>1. DOMAIN r = 1..(b - a + 1) /\ r # <<>>
      BY <1>2, <1>4
    <2> HIDE DEF r
    <2>2. \A i \in 1..(b - a + 1) : r[i] = s[a + i - 1]
      BY <1>2 DEF r
    <2>3. (\A j \in a..b : s[j] = "Digit") <=> \A i \in 1..(b - a + 1) : r[i] = "Digit"
      <3>1. ASSUME \A j \in a..b : s[j] = "Digit", NEW i \in 1..(b - a + 1)
            PROVE  r[i] = "Digit"
        <4>1. a + i - 1 \in a..b
          OBVIOUS
        <4>2. QED
          BY <2>2, <3>1, <4>1
      <3>2. ASSUME \A i \in 1..(b - a + 1) : r[i] = "Digit", NEW j \in a..b
            PROVE  s[j] = "Digit"
        <4>1. j - a + 1 \in 1..(b - a + 1) /\ a + (j - a + 1) - 1 = j
          OBVIOUS
        <4>2. QED
          BY <2>2, <3>2, <4>1
      <3>3. QED
        BY <3>1, <3>2
    <2>4. Digits(r) <=> DigitsFrom(s, a, b)
      BY <1>4, <2>1, <2>3 DEF Digits, DigitsFrom
    <2>5. QED
      BY <2>4 DEF r
  <1>5. QED
    BY <1>3, <1>4

\* The grammar of InputClassified, said of the places of the line.
LEMMA Grammar ==
  ASSUME NEW s \in Seq(Characters)
  PROVE  /\ Digits(s) <=> DigitsFrom(s, 1, Len(s))
         /\ Decimal(s) <=> PointIn(s, 1)
         /\ s # <<>> => (Digits(Tail(s)) <=> DigitsFrom(s, 2, Len(s)))
         /\ s # <<>> => (Decimal(Tail(s)) <=> PointIn(s, 2))
  <1>1. ASSUME NEW r \in Seq(Characters)
        PROVE  Decimal(r) <=> PointIn(r, 1)
    <2>1. \A k \in 1..Len(r) : /\ Digits(SubSeq(r, 1, k - 1)) <=> DigitsFrom(r, 1, k - 1)
                               /\ Digits(SubSeq(r, k + 1, Len(r))) <=> DigitsFrom(r, k + 1, Len(r))
      <3> TAKE k \in 1..Len(r)
      <3>1. /\ 1 \in 1..(Len(r) + 1) /\ k - 1 \in 0..Len(r)
            /\ k + 1 \in 1..(Len(r) + 1) /\ Len(r) \in 0..Len(r)
        OBVIOUS
      <3>2. QED
        BY <3>1, DigitsOf
    <2>2. DOMAIN r = 1..Len(r)
      OBVIOUS
    <2>3. QED
      BY <2>1, <2>2 DEF Decimal, PointIn
  <1>2. Digits(s) <=> DigitsFrom(s, 1, Len(s))
    <2>1. DOMAIN s = 1..Len(s) /\ (s # <<>> <=> 1 <= Len(s)) /\ Len(s) \in Nat
      BY EmptySeq
    <2>2. QED
      BY <2>1 DEF Digits, DigitsFrom
  <1>3. ASSUME s # <<>>
        PROVE  /\ Digits(Tail(s)) <=> DigitsFrom(s, 2, Len(s))
               /\ Decimal(Tail(s)) <=> PointIn(s, 2)
    <2> DEFINE r == Tail(s)
    <2>1. /\ r \in Seq(Characters) /\ Len(r) = Len(s) - 1 /\ Len(s) \in Nat /\ Len(s) >= 1
          /\ \A i \in 1..(Len(s) - 1) : r[i] = s[i + 1]
      BY <1>3, HeadTailProperties, EmptySeq
    <2>2. ASSUME NEW a \in 1..Len(s), NEW b \in 0..(Len(s) - 1)
          PROVE  DigitsFrom(r, a, b) <=> DigitsFrom(s, a + 1, b + 1)
      <3> HIDE DEF r
      <3>1. ASSUME \A j \in a..b : r[j] = "Digit", NEW i \in (a + 1)..(b + 1)
            PROVE  s[i] = "Digit"
        <4>1. i - 1 \in a..b /\ i - 1 \in 1..(Len(s) - 1) /\ (i - 1) + 1 = i
          BY <2>1
        <4>2. QED
          BY <2>1, <3>1, <4>1
      <3>2. ASSUME \A i \in (a + 1)..(b + 1) : s[i] = "Digit", NEW j \in a..b
            PROVE  r[j] = "Digit"
        <4>1. j + 1 \in (a + 1)..(b + 1) /\ j \in 1..(Len(s) - 1)
          BY <2>1
        <4>2. QED
          BY <2>1, <3>2, <4>1
      <3>3. QED
        BY <2>1, <3>1, <3>2 DEF DigitsFrom
    <2>3. Digits(r) <=> DigitsFrom(s, 2, Len(s))
      <3> HIDE DEF r
      <3>1. DOMAIN r = 1..Len(r) /\ (r # <<>> <=> 1 <= Len(r)) /\ Len(r) \in Nat
        BY <2>1, EmptySeq
      <3>2. Digits(r) <=> DigitsFrom(r, 1, Len(r))
        BY <3>1 DEF Digits, DigitsFrom
      <3>3. 1 \in 1..Len(s) /\ Len(r) \in 0..(Len(s) - 1) /\ Len(r) + 1 = Len(s)
        BY <2>1
      <3>4. DigitsFrom(r, 1, Len(r)) <=> DigitsFrom(s, 1 + 1, Len(r) + 1)
        BY <2>2, <3>3
      <3>5. QED
        BY <3>2, <3>3, <3>4
    <2>4. Decimal(r) <=> PointIn(s, 2)
      <3> HIDE DEF r
      <3>1. Decimal(r) <=> PointIn(r, 1)
        BY <1>1, <2>1
      <3>2. ASSUME NEW k \in 1..(Len(s) - 1)
            PROVE  /\ r[k] = s[k + 1]
                   /\ DigitsFrom(r, 1, k - 1) <=> DigitsFrom(s, 2, k)
                   /\ DigitsFrom(r, k + 1, Len(r)) <=> DigitsFrom(s, k + 2, Len(s))
        <4>1. /\ 1 \in 1..Len(s) /\ k - 1 \in 0..(Len(s) - 1) /\ k + 1 \in 1..Len(s)
              /\ Len(r) \in 0..(Len(s) - 1)
              /\ (k - 1) + 1 = k /\ (k + 1) + 1 = k + 2 /\ Len(r) + 1 = Len(s) /\ 1 + 1 = 2
          BY <2>1
        <4>2. /\ DigitsFrom(r, 1, k - 1) <=> DigitsFrom(s, 1 + 1, (k - 1) + 1)
              /\ DigitsFrom(r, k + 1, Len(r)) <=> DigitsFrom(s, (k + 1) + 1, Len(r) + 1)
          BY <2>2, <4>1
        <4>3. QED
          BY <2>1, <4>1, <4>2
      <3>3. PointIn(r, 1) => PointIn(s, 2)
        <4> SUFFICES ASSUME PointIn(r, 1) PROVE PointIn(s, 2)
          OBVIOUS
        <4>1. PICK k \in 1..Len(r) :
                r[k] = "Point" /\ DigitsFrom(r, 1, k - 1) /\ DigitsFrom(r, k + 1, Len(r))
          BY DEF PointIn
        <4>2. k \in 1..(Len(s) - 1) /\ k + 1 \in 2..Len(s) /\ (k + 1) - 1 = k /\ (k + 1) + 1 = k + 2
          BY <2>1
        <4>3. s[k + 1] = "Point" /\ DigitsFrom(s, 2, k) /\ DigitsFrom(s, k + 2, Len(s))
          BY <3>2, <4>1, <4>2
        <4>4. s[k + 1] = "Point" /\ DigitsFrom(s, 2, (k + 1) - 1) /\ DigitsFrom(s, (k + 1) + 1, Len(s))
          BY <4>2, <4>3
        <4>5. QED
          BY <4>2, <4>4 DEF PointIn
      <3>4. PointIn(s, 2) => PointIn(r, 1)
        <4> SUFFICES ASSUME PointIn(s, 2) PROVE PointIn(r, 1)
          OBVIOUS
        <4>1. PICK l \in 2..Len(s) :
                s[l] = "Point" /\ DigitsFrom(s, 2, l - 1) /\ DigitsFrom(s, l + 1, Len(s))
          BY DEF PointIn
        <4> DEFINE k == l - 1
        <4>2. k \in 1..(Len(s) - 1) /\ k + 1 = l /\ k + 2 = l + 1 /\ k \in 1..Len(r)
          BY <2>1
        <4>3. s[k + 1] = "Point" /\ DigitsFrom(s, 2, k) /\ DigitsFrom(s, k + 2, Len(s))
          BY <4>1, <4>2
        <4> HIDE DEF k
        <4>4. r[k] = "Point" /\ DigitsFrom(r, 1, k - 1) /\ DigitsFrom(r, k + 1, Len(r))
          BY <3>2, <4>2, <4>3
        <4>5. QED
          BY <4>2, <4>4 DEF PointIn
      <3>5. QED
        BY <3>1, <3>3, <3>4
    <2>5. QED
      BY <2>3, <2>4
  <1>4. QED
    BY <1>1, <1>2, <1>3

\* The loop of EvaluateInput lets exactly the numbers through.
LEMMA LoopAccepts ==
  ASSUME NEW s \in Seq(Characters), s # <<>>
  PROVE  LET point == \E i \in DOMAIN s : s[i] = "Point" IN
         /\ (\A i \in DOMAIN s : ~ Spoils(s, i)) /\ s[1] # "Minus" /\ ~ point
                <=> DigitsFrom(s, 1, Len(s))
         /\ (\A i \in DOMAIN s : ~ Spoils(s, i)) /\ s[1] # "Minus" /\ point
                <=> PointIn(s, 1)
         /\ (\A i \in DOMAIN s : ~ Spoils(s, i)) /\ s[1] = "Minus" /\ ~ point
                <=> s[1] = "Minus" /\ DigitsFrom(s, 2, Len(s))
         /\ (\A i \in DOMAIN s : ~ Spoils(s, i)) /\ s[1] = "Minus" /\ point
                <=> s[1] = "Minus" /\ PointIn(s, 2)
  <1> DEFINE n == Len(s)
             point == \E i \in 1..n : s[i] = "Point"
             passes == \A i \in 1..n : ~ Spoils(s, i)
  <1>1. /\ DOMAIN s = 1..n /\ n \in Nat /\ n >= 1
        /\ \A i \in 1..n : s[i] \in Characters
    BY EmptySeq
  <1>2. \A i \in 1..n : IsChar(s[i]) <=> s[i] \notin {"Digit", "Minus", "Point"}
    BY DEF IsChar
  <1> HIDE DEF n
  <1>3. \A i \in 1..n : Spoils(s, i) <=>
            \/ s[i] \notin {"Digit", "Minus", "Point"}
            \/ s[i] = "Minus" /\ (i # 1 \/ n = 1)
            \/ /\ s[i] = "Point"
               /\ (\E j \in 1..(i - 1) : s[j] = "Point") \/ i \in {1, n} \/ (i = 2 /\ s[1] = "Minus")
    BY <1>2 DEF Spoils, n
  <1>4. passes => \A i \in 1..n : \/ s[i] = "Digit"
                                  \/ s[i] = "Minus" /\ i = 1 /\ n > 1
                                  \/ s[i] = "Point" /\ i > 1 /\ i < n /\ (s[1] = "Minus" => i > 2)
    BY <1>1, <1>3
  <1>5. passes => \A i, j \in 1..n : s[i] = "Point" /\ s[j] = "Point" => i = j
    <2> SUFFICES ASSUME passes, NEW i \in 1..n, NEW j \in 1..n, s[i] = "Point", s[j] = "Point",
                        i < j
                 PROVE  FALSE
      BY <1>1
    <2>1. i \in 1..(j - 1)
      BY <1>1
    <2>2. QED
      BY <1>3, <2>1
  <1> HIDE DEF passes, point
  <1>6. passes /\ s[1] # "Minus" /\ ~ point => DigitsFrom(s, 1, n)
    BY <1>1, <1>4 DEF DigitsFrom, point
  <1>7. DigitsFrom(s, 1, n) => passes /\ s[1] # "Minus" /\ ~ point
    BY <1>1, <1>3 DEF DigitsFrom, point, passes
  <1>8. passes /\ s[1] = "Minus" /\ ~ point => DigitsFrom(s, 2, n)
    BY <1>1, <1>4 DEF DigitsFrom, point
  <1>9. DigitsFrom(s, 2, n) /\ s[1] = "Minus" => passes /\ ~ point
    <2> SUFFICES ASSUME DigitsFrom(s, 2, n), s[1] = "Minus" PROVE passes /\ ~ point
      OBVIOUS
    <2>1. n > 1 /\ \A i \in 1..n : i = 1 \/ s[i] = "Digit"
      BY <1>1 DEF DigitsFrom
    <2>2. QED
      BY <1>1, <1>3, <2>1 DEF point, passes
  <1>10. ASSUME NEW a \in {1, 2}, passes, point, (s[1] = "Minus") <=> a = 2
         PROVE  PointIn(s, a)
    <2>1. PICK k \in 1..n : s[k] = "Point"
      BY <1>10 DEF point
    <2>2. k > a /\ k < n
      BY <1>1, <1>4, <1>10, <2>1
    <2>3. \A i \in a..n : i = k \/ s[i] = "Digit"
      BY <1>1, <1>4, <1>5, <1>10, <2>1
    <2>4. DigitsFrom(s, a, k - 1) /\ DigitsFrom(s, k + 1, n) /\ k \in a..n
      BY <1>1, <2>2, <2>3 DEF DigitsFrom
    <2>5. QED
      BY <2>1, <2>4 DEF PointIn, n
  <1>11. ASSUME NEW a \in {1, 2}, PointIn(s, a), a = 2 => s[1] = "Minus"
         PROVE  passes /\ point /\ ((s[1] = "Minus") <=> a = 2)
    <2>1. PICK k \in a..n : s[k] = "Point" /\ DigitsFrom(s, a, k - 1) /\ DigitsFrom(s, k + 1, n)
      BY <1>11 DEF PointIn, n
    <2>2. k > a /\ k < n /\ k \in 1..n
      BY <1>1, <2>1 DEF DigitsFrom
    <2>3. \A i \in a..n : i = k \/ s[i] = "Digit"
      <3> TAKE i \in a..n
      <3>1. i \in a..(k - 1) \/ i = k \/ i \in (k + 1)..n
        BY <1>1, <2>1
      <3>2. QED
        BY <2>1, <3>1 DEF DigitsFrom
    <2>4. (s[1] = "Minus") <=> a = 2
      <3>1. a = 1 => 1 \in a..n /\ 1 # k
        BY <1>1, <2>2
      <3>2. QED
        BY <1>11, <2>3, <3>1
    <2>5. passes
      <3> SUFFICES ASSUME NEW i \in 1..n PROVE ~ Spoils(s, i)
        BY DEF passes
      <3>1. CASE i = k
        <4>1. \A j \in 1..(i - 1) : s[j] # "Point"
          <5> TAKE j \in 1..(i - 1)
          <5>1. (j \in a..n /\ j # k) \/ (j = 1 /\ a = 2)
            BY <1>1, <2>2, <3>1
          <5>2. QED
            BY <2>3, <2>4, <5>1
        <4>2. QED
          BY <1>1, <1>3, <2>1, <2>2, <2>4, <3>1, <4>1
      <3>2. CASE i # k /\ i \in a..n
        BY <1>3, <2>3, <3>2
      <3>3. CASE i \notin a..n
        <4>1. i = 1 /\ a = 2 /\ n # 1
          BY <1>1, <2>2, <3>3
        <4>2. QED
          BY <1>3, <2>4, <4>1
      <3>4. QED
        BY <3>1, <3>2, <3>3
    <2>6. QED
      BY <2>1, <2>2, <2>4, <2>5 DEF point
  <1>12. /\ passes /\ s[1] # "Minus" /\ ~ point <=> DigitsFrom(s, 1, n)
         /\ passes /\ s[1] # "Minus" /\ point <=> PointIn(s, 1)
         /\ passes /\ s[1] = "Minus" /\ ~ point <=> s[1] = "Minus" /\ DigitsFrom(s, 2, n)
         /\ passes /\ s[1] = "Minus" /\ point <=> s[1] = "Minus" /\ PointIn(s, 2)
    <2>1. passes /\ s[1] # "Minus" /\ point <=> PointIn(s, 1)
      BY <1>10, <1>11
    <2>2. passes /\ s[1] = "Minus" /\ point <=> s[1] = "Minus" /\ PointIn(s, 2)
      BY <1>10, <1>11
    <2>3. QED
      BY <1>6, <1>7, <1>8, <1>9, <2>1, <2>2
  <1>13. QED
    BY <1>1, <1>12 DEF passes, point, n

\* What EvaluateInput answers is what the grammar says.
LEMMA Classified ==
  ASSUME NEW line, Trimmed(line) \in Seq(Characters)
  PROVE  LET s == Trimmed(line) IN
         EvaluateInput(line) =
            CASE Digits(s)                              -> "INT"
              [] Decimal(s)                             -> "DEC"
              [] Negative(s) /\ Digits(Tail(s))         -> "NEGINT"
              [] Negative(s) /\ Decimal(Tail(s))        -> "NEGDEC"
              [] s = <<>>                               -> "UNEXPECTED"
              [] OTHER                                  -> "CHAR"
  <1> DEFINE s == Trimmed(line)
             point == \E i \in DOMAIN s : s[i] = "Point"
             passes == \A i \in DOMAIN s : ~ Spoils(s, i)
  <1>1. EvaluateInput(line) =
           IF s = <<>> THEN "UNEXPECTED"
           ELSE IF ~ passes THEN "CHAR"
           ELSE IF s[1] = "Minus" /\ point THEN "NEGDEC"
           ELSE IF s[1] = "Minus" THEN "NEGINT"
           ELSE IF point THEN "DEC" ELSE "INT"
    BY DEF EvaluateInput
  <1>2. CASE s = <<>>
    <2>1. ~ Digits(s) /\ ~ Decimal(s) /\ ~ Negative(s)
      BY <1>2 DEF Digits, Decimal, Negative
    <2>2. QED
      BY <1>1, <1>2, <2>1
  <1>3. CASE s # <<>>
    <2> HIDE DEF s
    <2>0. s \in Seq(Characters)
      BY DEF s
    <2>1. /\ Digits(s) <=> passes /\ s[1] # "Minus" /\ ~ point
          /\ Decimal(s) <=> passes /\ s[1] # "Minus" /\ point
          /\ Negative(s) /\ Digits(Tail(s)) <=> passes /\ s[1] = "Minus" /\ ~ point
          /\ Negative(s) /\ Decimal(Tail(s)) <=> passes /\ s[1] = "Minus" /\ point
      BY <1>3, <2>0, Grammar, LoopAccepts DEF Negative
    <2> HIDE DEF passes, point
    <2>2. EvaluateInput(line) =
            CASE Digits(s)                              -> "INT"
              [] Decimal(s)                             -> "DEC"
              [] Negative(s) /\ Digits(Tail(s))         -> "NEGINT"
              [] Negative(s) /\ Decimal(Tail(s))        -> "NEGDEC"
              [] s = <<>>                               -> "UNEXPECTED"
              [] OTHER                                  -> "CHAR"
      BY <1>1, <1>3, <2>1
    <2>3. QED
      BY <2>2 DEF s
  <1>4. QED
    BY <1>2, <1>3

ShoutInv == buffer \in Seq(Characters) /\ (iType # "none" => iType = EvaluateInput(buffer))

LEMMA ShoutInvStep == ShoutInv /\ [TestNext]_allVars => ShoutInv'
  <1> SUFFICES ASSUME ShoutInv, [TestNext]_allVars PROVE ShoutInv'
    OBVIOUS
  <1>1. CASE UNCHANGED <<buffer, iType>>
    <2>1. EvaluateInput(buffer)' = EvaluateInput(buffer)
      BY <1>1
    <2>2. QED
      BY <1>1, <2>1 DEF ShoutInv
  <1>2. ASSUME NEW line \in Lines, buffer' = Stripped(line),
               iType' = EvaluateInput(Stripped(line))
        PROVE  ShoutInv'
    BY <1>2, LinesAssumption, LinesTyped DEF ShoutInv
  <1>3. ASSUME NEW t \in Workers, Work(t)
        PROVE  ShoutInv'
    <2>1. CASE ShoutStep(t)
      BY <1>1, <1>2, <2>1 DEF ShoutStep, ValidateInput, Shout, shoutingThreads
    <2>2. CASE ~ ShoutStep(t)
      BY <1>1, <1>3, <2>2
      DEF Work, OnlyDining, OnlyMail, OnlyDemos, OnlyBand, shoutVars
    <2>3. QED
      BY <2>1, <2>2
  <1>4. CASE Start \/ (Kernel /\ NoProgram) \/ UNCHANGED allVars
    BY <1>1, <1>4 DEF Start, NoProgram, OnlyDemos, ForkZombies, shoutVars, allVars
  <1>5. QED
    BY <1>3, <1>4 DEF TestNext

\* Whatever is typed, EvaluateInput calls a line INT, DEC, NEGINT or NEGDEC when it is
\* written as such a number, blank when it is, and a string of characters otherwise.
THEOREM InputIsClassified == TestSpec => []InputClassified
  <1>1. TestInit => ShoutInv
    BY DEF TestInit, ShoutInit, ShoutInv
  <1>2. ShoutInv => InputClassified
    BY LinesTyped, Classified DEF ShoutInv, InputClassified
  <1>3. QED
    BY <1>1, <1>2, ShoutInvStep, PTL DEF TestSpec
=============================================================================
