-------------------------------- MODULE Synch --------------------------------
(***************************************************************************)
(* Semaphores and locks (threads/synch.cc) on the scheduler, with the      *)
(* device interrupts that signal semaphores (machine/interrupt.cc).        *)
(***************************************************************************)
EXTENDS Scheduler

CONSTANTS
    Semaphores,     \* the Semaphore objects
    Locks,          \* the Lock objects
    Devices,        \* the semaphores that a device's interrupt handler signals
    InitialValue,   \* the value each semaphore is constructed with
    NoObject,       \* no synchronization object
    MaxValue        \* bound: V and device requests only below this value

ASSUME SynchAssumption ==
    /\ Devices \subseteq Semaphores
    /\ Semaphores \cap Locks = {}
    /\ NoObject \notin Semaphores \cup Locks
    /\ InitialValue \in [Semaphores -> Nat]
    /\ MaxValue \in Nat

Objects == Semaphores \cup Locks

VARIABLES
    semValue,       \* Semaphore::value
    lockValue,      \* Lock::value, TRUE when BUSY
    queue,          \* Semaphore::queue and Lock::queue
    waitsFor,       \* the object whose P or Acquire put the thread to sleep
    holds,          \* the locks whose Acquire has returned to the thread
    requested       \* the devices with a completion interrupt pending

synchVars == <<semValue, lockValue, queue, waitsFor, holds, requested>>
vars == <<schedVars, synchVars>>

TypeOK ==
    /\ SchedTypeOK
    /\ semValue \in [Semaphores -> Nat]
    /\ lockValue \in [Locks -> BOOLEAN]
    /\ queue \in [Objects -> Seq(Threads)]
    /\ waitsFor \in [Threads -> Objects \cup {NoObject}]
    /\ \A t \in Threads : /\ resume[t] = "P" => waitsFor[t] \in Semaphores
                          /\ resume[t] = "Acquire" => waitsFor[t] \in Locks
    /\ holds \in [Threads -> SUBSET Locks]
    /\ requested \in SUBSET Devices

Init ==
    /\ SchedInit
    /\ semValue = InitialValue
    /\ lockValue = [l \in Locks |-> FALSE]
    /\ queue = [o \in Objects |-> <<>>]
    /\ waitsFor = [t \in Threads |-> NoObject]
    /\ holds = [t \in Threads |-> {}]
    /\ requested = {}

-----------------------------------------------------------------------------
(* Semaphores.                                                             *)

WaitOnInFront(t, o, place) ==           \* bug: Prepend for Append
    /\ queue' = [queue EXCEPT ![o] = <<t>> \o @]
    /\ waitsFor' = [waitsFor EXCEPT ![t] = o]
    /\ Sleep(t, place)

\* the body of the loop in P: join the queue and sleep
WaitOn(t, o, place) ==
    /\ queue' = [queue EXCEPT ![o] = Append(@, t)]
    /\ waitsFor' = [waitsFor EXCEPT ![t] = o]
    /\ Sleep(t, place)

\* Semaphore::P called by the running thread
P(t, s) ==
    /\ Executing(t)
    /\ \/ /\ semValue[s] > 0
          /\ semValue' = [semValue EXCEPT ![s] = @ - 1]
          /\ UNCHANGED <<schedVars, queue, waitsFor>>
       \/ /\ semValue[s] = 0
          /\ WaitOn(t, s, "P")
          /\ UNCHANGED semValue
    /\ UNCHANGED <<lockValue, holds, requested>>

\* t, woken inside P, tests the value again: somebody may have taken it
ResumeP(t) ==
    LET s == waitsFor[t] IN
    /\ Resumed(t)
    /\ resume[t] = "P"
    /\ \/ /\ semValue[s] > 0
          /\ semValue' = [semValue EXCEPT ![s] = @ - 1]
          /\ resume' = [resume EXCEPT ![t] = "None"]
          /\ waitsFor' = [waitsFor EXCEPT ![t] = NoObject]
          /\ UNCHANGED <<status, currentThread, readyList,
                         threadToBeDestroyed, queue>>
       \/ /\ semValue[s] = 0
          /\ WaitOn(t, s, "P")
          /\ UNCHANGED semValue
    /\ UNCHANGED <<lockValue, holds, requested>>

SignalFirstOfQueue(s) ==                \* bug: the waiter stays in the queue
    /\ semValue' = [semValue EXCEPT ![s] = @ + 1]
    /\ \/ queue[s] = <<>> /\ UNCHANGED schedVars
       \/ queue[s] # <<>> /\ ReadyToRun(Head(queue[s]))
    /\ UNCHANGED queue

SignalOnlyAtZero(s) ==                  \* bug: a positive value wakes nobody
    /\ semValue' = [semValue EXCEPT ![s] = @ + 1]
    /\ \/ /\ queue[s] = <<>> \/ semValue[s] > 0
          /\ UNCHANGED <<schedVars, queue>>
       \/ /\ queue[s] # <<>> /\ semValue[s] = 0
          /\ ReadyToRun(Head(queue[s]))
          /\ queue' = [queue EXCEPT ![s] = Tail(@)]

\* the body of Semaphore::V: wake the first waiter, if any, and increment
Signal(s) ==
    /\ semValue' = [semValue EXCEPT ![s] = @ + 1]
    /\ \/ /\ queue[s] = <<>>
          /\ UNCHANGED <<schedVars, queue>>
       \/ /\ queue[s] # <<>>
          /\ ReadyToRun(Head(queue[s]))
          /\ queue' = [queue EXCEPT ![s] = Tail(@)]

V(t, s) ==
    /\ Executing(t)
    /\ semValue[s] < MaxValue
    /\ Signal(s)
    /\ UNCHANGED <<lockValue, waitsFor, holds, requested>>

-----------------------------------------------------------------------------
(* Locks: Release hands a BUSY lock straight to the first waiter.          *)

AcquireAlways(t, l) ==                  \* bug: a BUSY lock is taken again
    /\ Executing(t)
    /\ lockValue' = [lockValue EXCEPT ![l] = TRUE]
    /\ holds' = [holds EXCEPT ![t] = @ \cup {l}]
    /\ UNCHANGED <<schedVars, queue, waitsFor, semValue, requested>>

Acquire(t, l) ==
    /\ Executing(t)
    /\ \/ /\ ~ lockValue[l]
          /\ lockValue' = [lockValue EXCEPT ![l] = TRUE]
          /\ holds' = [holds EXCEPT ![t] = @ \cup {l}]
          /\ UNCHANGED <<schedVars, queue, waitsFor>>
       \/ /\ lockValue[l]
          /\ WaitOn(t, l, "Acquire")
          /\ UNCHANGED <<lockValue, holds>>
    /\ UNCHANGED <<semValue, requested>>

\* t, woken inside Acquire, returns with the lock without testing it again
ResumeAcquire(t) ==
    /\ Resumed(t)
    /\ resume[t] = "Acquire"
    /\ resume' = [resume EXCEPT ![t] = "None"]
    /\ holds' = [holds EXCEPT ![t] = @ \cup {waitsFor[t]}]
    /\ waitsFor' = [waitsFor EXCEPT ![t] = NoObject]
    /\ UNCHANGED <<status, currentThread, readyList, threadToBeDestroyed,
                   semValue, lockValue, queue, requested>>

\* by convention only the thread that acquired a lock releases it
Release(t, l) ==
    /\ Executing(t)
    /\ l \in holds[t]
    /\ holds' = [holds EXCEPT ![t] = @ \ {l}]
    /\ \/ /\ queue[l] # <<>>
          /\ ReadyToRun(Head(queue[l]))
          /\ queue' = [queue EXCEPT ![l] = Tail(@)]
          /\ UNCHANGED lockValue
       \/ /\ queue[l] = <<>>
          /\ lockValue' = [lockValue EXCEPT ![l] = FALSE]
          /\ UNCHANGED <<schedVars, queue>>
    /\ UNCHANGED <<semValue, waitsFor, requested>>

-----------------------------------------------------------------------------
(* Devices: a request schedules one completion interrupt, whose handler    *)
(* calls V.  Interrupts are taken while a thread executes with interrupts  *)
(* on, and by Interrupt::Idle.                                             *)

Request(t, d) ==
    /\ Executing(t)
    /\ d \notin requested
    /\ semValue[d] < MaxValue
    /\ requested' = requested \cup {d}
    /\ UNCHANGED <<schedVars, semValue, lockValue, queue, waitsFor, holds>>

Complete(d) ==
    /\ d \in requested
    /\ Idle \/ Executing(currentThread)
    /\ requested' = requested \ {d}
    /\ Signal(d)
    /\ UNCHANGED <<lockValue, waitsFor, holds>>

-----------------------------------------------------------------------------

\* a thread ends with its locks released
End(t) == holds[t] = {} /\ Finish(t) /\ UNCHANGED synchVars

Next ==
    \/ \E t \in Threads :
          \/ \E u \in Threads : Fork(t, u) /\ UNCHANGED synchVars
          \/ Yield(t) /\ UNCHANGED synchVars
          \/ EnableInterrupts(t) /\ UNCHANGED synchVars
          \/ End(t)
          \/ \E s \in Semaphores : P(t, s) \/ V(t, s)
          \/ ResumeP(t)
          \/ \E l \in Locks : Acquire(t, l) \/ Release(t, l)
          \/ ResumeAcquire(t)
          \/ \E d \in Devices : Request(t, d)
    \/ LeaveIdle /\ UNCHANGED synchVars
    \/ \E d \in Devices : Complete(d)

Spec == Init /\ [][Next]_vars

\* The kernel finishes the calls it is in, the idle loop runs whoever is ready,
\* and time slices end: with the random timer (nachos -rs) an interrupt makes
\* every thread that keeps the CPU yield sooner or later.
Scheduling ==
    /\ \A t \in Threads :
          /\ WF_vars(EnableInterrupts(t) /\ UNCHANGED synchVars)
          /\ WF_vars(ResumeP(t))
          /\ WF_vars(ResumeAcquire(t))
          /\ WF_vars(Yield(t) /\ UNCHANGED synchVars)
    /\ WF_vars(LeaveIdle /\ UNCHANGED synchVars)

FairSpec == Spec /\ Scheduling

-----------------------------------------------------------------------------
(* Properties.                                                             *)

\* the threads asleep in P or Acquire of o
Sleepers(o) ==
    {t \in Threads : /\ status[t] = "BLOCKED"
                     /\ resume[t] \in {"P", "Acquire"}
                     /\ waitsFor[t] = o}

Queued(t, o) == t \in ToSet(queue[o])

\* Every thread blocked in P or Acquire is in the queue of that object, once,
\* and in no other queue; and every queued thread is blocked there.  A thread
\* in no queue would sleep forever, one in two would be run twice.
QueuesExact == \A o \in Objects : Enumerates(queue[o], Sleepers(o))

\* Every thread that has not finished is in the one place that its status says:
\* on the CPU, in the ready list or in one queue, and a finished thread is in none
\* of these.  The pointer to the thread to be deleted names a finished thread or
\* none.  It does not name every finished one: FinishedWillBeDestroyed is false
\* here, where new threads start in ThreadRoot and no processCreator deletes.  Run
\* changes stacks in the middle of the calls, and no list is ever searched for a
\* thread that should not be there.
ThreadsInv ==
    /\ TypeOK
    /\ ReadyListExact
    /\ OneRunning
    /\ OnlyFinishedDestroyed
    /\ QueuesExact

\* t was taken off the queue of s by V and has not yet returned from P
Woken(t, s) == resume[t] = "P" /\ waitsFor[t] = s /\ ~ Queued(t, s)

\* A semaphore with waiters has no more value than there are threads woken to
\* take it: V wakes a waiter for each value it adds while there is one, and a
\* woken thread that finds its value taken goes back to the queue.  Otherwise
\* threads would sleep in P while the semaphore is available.
NoLostWakeup ==
    \A s \in Semaphores : queue[s] # <<>> =>
        semValue[s] <= Cardinality({t \in Threads : Woken(t, s)})

\* t has the lock: Acquire returned, or Release handed it the lock and it is
\* not yet back on the CPU
Owns(t, l) ==
    \/ l \in holds[t]
    \/ resume[t] = "Acquire" /\ waitsFor[t] = l /\ ~ Queued(t, l)

\* At most one thread has a lock, counting the one a lock was handed to.
MutualExclusion ==
    \A l \in Locks : \A t, u \in Threads : Owns(t, l) /\ Owns(u, l) => t = u

\* A lock is BUSY exactly when a thread has it, and nobody waits for a FREE
\* one: Release never leaves a waiter asleep on a lock nobody will release.
BusyIffOwned ==
    \A l \in Locks :
        /\ lockValue[l] <=> \E t \in Threads : Owns(t, l)
        /\ queue[l] # <<>> => lockValue[l]

\* A ready thread gets the CPU: the time slices and wakeups of other threads,
\* which all go through the same list, never overtake it for ever.
ReadyRuns == \A t \in Threads : status[t] = "READY" ~> status[t] = "RUNNING"

\* Each lock behaves as a first-come first-served lock with one owner.
Owner(l) ==
    IF \E t \in Threads : Owns(t, l)
    THEN CHOOSE t \in Threads : Owns(t, l)
    ELSE NoThread

Fifo == INSTANCE FifoLock WITH
            Clients <- Threads, Nobody <- NoThread,
            owner <- [l \in Locks |-> Owner(l)],
            waiting <- [l \in Locks |-> queue[l]]

ImplementsFifoLock == Fifo!Spec
=============================================================================
