------------------------------ MODULE SynchDisk ------------------------------
(***************************************************************************)
(* The synchronous disk (filesys/synchdisk.cc) on the simulated device     *)
(* (machine/disk.cc): a lock admits one thread at a time, and a semaphore  *)
(* that the disk's interrupt handler signals makes it wait for the device. *)
(***************************************************************************)
EXTENDS Synch

CONSTANTS
    DiskLock, DiskSemaphore,    \* SynchDisk::lock and SynchDisk::semaphore
    Sectors, Data,              \* sector numbers and what a sector can hold
    NoCall

Calls == [kind : {"read", "write"}, sector : Sectors, data : Data]

ASSUME DiskAssumption ==
    /\ DiskLock \in Locks
    /\ DiskSemaphore \in Devices
    /\ InitialValue[DiskSemaphore] = 0
    /\ NoCall \notin Calls \cup [op : Calls, done : BOOLEAN]

VARIABLES
    contents,   \* the UNIX file that holds the disk's data
    active,     \* Disk::active
    call,       \* the call each thread is in: kind, sector and data buffer
    place       \* where in ReadSector or WriteSector the thread is

diskVars == <<contents, active, call, place>>
synchDiskVars == <<vars, diskVars>>

DiskTypeOK ==
    /\ TypeOK
    /\ contents \in [Sectors -> Data]
    /\ active \in BOOLEAN
    /\ call \in [Threads -> Calls \cup {NoCall}]
    /\ place \in [Threads -> {"out", "acquire", "request", "wait", "release"}]
    /\ \A t \in Threads : place[t] = "out" <=> call[t] = NoCall

DiskInit ==
    /\ Init
    /\ contents \in [Sectors -> Data]
    /\ active = FALSE
    /\ call = [t \in Threads |-> NoCall]
    /\ place = [t \in Threads |-> "out"]

-----------------------------------------------------------------------------
(* ReadSector and WriteSector, a call of the lock or semaphore at a time.  *)

BeginUnlocked(t, c) ==          \* bug: the lock is not acquired
    /\ place[t] = "out"
    /\ Executing(t)
    /\ call' = [call EXCEPT ![t] = c]
    /\ place' = [place EXCEPT ![t] = "request"]
    /\ UNCHANGED <<vars, contents, active>>

\* the call starts with lock->Acquire
BeginCall(t, c) ==
    /\ place[t] = "out"
    /\ Acquire(t, DiskLock)
    /\ call' = [call EXCEPT ![t] = c]
    /\ place' = [place EXCEPT ![t] = IF lockValue[DiskLock] THEN "acquire" ELSE "request"]
    /\ UNCHANGED <<contents, active>>

GetLock(t) ==
    /\ place[t] = "acquire"
    /\ ResumeAcquire(t)
    /\ place' = [place EXCEPT ![t] = "request"]
    /\ UNCHANGED <<contents, active, call>>

\* Disk::ReadRequest and WriteRequest: the device moves the data at once and
\* schedules its interrupt.  ASSERT(!active) is the invariant RequestAllowed.
DiskRequest(t) ==
    /\ place[t] = "request"
    /\ Executing(t)
    /\ \/ /\ call[t].kind = "read"
          /\ call' = [call EXCEPT ![t].data = contents[call[t].sector]]
          /\ UNCHANGED contents
       \/ /\ call[t].kind = "write"
          /\ contents' = [contents EXCEPT ![call[t].sector] = call[t].data]
          /\ UNCHANGED call
    /\ active' = TRUE
    /\ requested' = requested \cup {DiskSemaphore}
    /\ place' = [place EXCEPT ![t] = "wait"]
    /\ UNCHANGED <<schedVars, semValue, lockValue, queue, waitsFor, holds>>

AwaitNothing(t) ==              \* bug: no P, the call returns at once
    /\ place[t] = "wait"
    /\ Executing(t)
    /\ place' = [place EXCEPT ![t] = "release"]
    /\ UNCHANGED <<vars, contents, active, call>>

\* semaphore->P, and its return to a thread that had to sleep
AwaitInterrupt(t) ==
    /\ place[t] = "wait"
    /\ P(t, DiskSemaphore) \/ ResumeP(t)
    /\ place' = [place EXCEPT ![t] =
                    IF semValue[DiskSemaphore] > 0 THEN "release" ELSE "wait"]
    /\ UNCHANGED <<contents, active, call>>

EndLocked(t) ==               \* bug: a read returns without Release
    /\ place[t] = "release"
    /\ IF call[t].kind = "read"
       THEN Executing(t) /\ UNCHANGED vars
       ELSE Release(t, DiskLock)
    /\ call' = [call EXCEPT ![t] = NoCall]
    /\ place' = [place EXCEPT ![t] = "out"]
    /\ UNCHANGED <<contents, active>>

\* the call ends with lock->Release
EndCall(t) ==
    /\ place[t] = "release"
    /\ Release(t, DiskLock)
    /\ call' = [call EXCEPT ![t] = NoCall]
    /\ place' = [place EXCEPT ![t] = "out"]
    /\ UNCHANGED <<contents, active>>

\* Disk::HandleInterrupt, then SynchDisk::RequestDone
HandleInterrupt ==
    /\ Complete(DiskSemaphore)
    /\ active' = FALSE
    /\ UNCHANGED <<contents, call, place>>

-----------------------------------------------------------------------------

\* the steps of a thread in a call
DiskStep(t) == GetLock(t) \/ DiskRequest(t) \/ AwaitInterrupt(t) \/ EndCall(t)

\* the steps that are not about the disk
OtherStep(t) ==
    /\ \/ \E u \in Threads : Fork(t, u) /\ UNCHANGED synchVars
       \/ Yield(t) /\ UNCHANGED synchVars
       \/ EnableInterrupts(t) /\ UNCHANGED synchVars
       \/ place[t] = "out" /\ End(t)
    /\ UNCHANGED diskVars

DiskNext ==
    \/ \E t \in Threads :
          \/ \E c \in Calls : BeginCall(t, c)
          \/ DiskStep(t)
          \/ OtherStep(t)
    \/ LeaveIdle /\ UNCHANGED <<synchVars, diskVars>>
    \/ HandleInterrupt

DiskSpec == DiskInit /\ [][DiskNext]_synchDiskVars

\* A thread in the kernel is preempted only at the end of a call that enables
\* interrupts, so a thread that gets the CPU again and again does its next
\* step: SF.  Each time interrupts go on, the clock advances and the interrupts
\* that are due are taken, however often threads are switched in between: SF.
DiskFairness ==
    /\ \A t \in Threads :
          /\ SF_synchDiskVars(DiskStep(t))
          /\ WF_synchDiskVars(EnableInterrupts(t) /\ UNCHANGED <<synchVars, diskVars>>)
          /\ WF_synchDiskVars(Yield(t) /\ UNCHANGED <<synchVars, diskVars>>)
    /\ WF_synchDiskVars(LeaveIdle /\ UNCHANGED <<synchVars, diskVars>>)
    /\ SF_synchDiskVars(HandleInterrupt)

DiskFairSpec == DiskSpec /\ DiskFairness

-----------------------------------------------------------------------------
(* Properties.                                                             *)

\* disk.cc:120 and 140, ASSERT(!active): a thread that is about to give the
\* device a request finds it idle.
RequestAllowed == \A t \in Threads : place[t] = "request" => ~ active

\* A thread that waits for the device has exactly one completion coming: its
\* interrupt is pending or the semaphore holds its V, never both, and nobody
\* else's completion is left over for it to take.
CompletionMatched ==
    /\ active <=> DiskSemaphore \in requested
    /\ (IF active THEN 1 ELSE 0) + semValue[DiskSemaphore]
          = Cardinality({t \in Threads : place[t] = "wait"})

\* synchdisk.h:22-27: the disk handles one request at a time, and the lock and
\* the semaphore keep a second one, and the wait for another's, away.
DiskInv == DiskTypeOK /\ RequestAllowed /\ CompletionMatched

\* The threads in a call stand in one line: the owner of the lock and those that
\* wait for it.  The device has worked for whoever has made its request.
callLine ==
    IF Owner(DiskLock) = NoThread THEN <<>>
    ELSE <<Owner(DiskLock)>> \o queue[DiskLock]

deviceState ==
    IF active THEN "busy"
    ELSE IF \E t \in Threads : place[t] \in {"wait", "release"} THEN "done" ELSE "idle"

\* synchdisk.h:16-27: calls are served one at a time and in the order of their
\* arrival, the data of each moves while its caller is the first of the line,
\* and none returns before the interrupt of its own request.
Serial == INSTANCE SerialDisk WITH
            Clients <- Threads, line <- callLine, device <- deviceState

ImplementsSerialDisk == Serial!Spec

\* Every call returns: nobody waits for ever for the lock or the interrupt.
CallsReturn == \A t \in Threads : place[t] # "out" ~> place[t] = "out"
=============================================================================
