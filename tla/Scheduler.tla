------------------------------ MODULE Scheduler ------------------------------
(***************************************************************************)
(* The uniprocessor scheduler of Nachos: threads/thread.cc and             *)
(* threads/scheduler.cc of the "Clean Code Base" tree.                     *)
(*                                                                         *)
(* Kernel code is preempted only where interrupts are switched from off to *)
(* on (Interrupt::SetLevel calls OneTick), so everything a kernel call     *)
(* does with interrupts off is one action, up to the point where it        *)
(* enables them again or gives up the CPU.  A thread that gave up the CPU  *)
(* inside a call continues with interrupts off when it is dispatched:      *)
(* resume[t] is where, and "None" means that t is in no call.              *)
(***************************************************************************)
EXTENDS Naturals, SequencesExt

CONSTANTS
    Threads,    \* the addresses a Thread object can have
    Main,       \* the thread Initialize makes for the running program
    NoThread    \* the NULL pointer

ASSUME ThreadAssumption ==
    /\ Main \in Threads
    /\ NoThread \notin Threads
    /\ IsFiniteSet(Threads)

VARIABLES
    status,                 \* Thread::status; "NONE" where no object is
    currentThread,          \* the thread whose stack the CPU is on
    readyList,              \* Scheduler::readyList
    threadToBeDestroyed,    \* the finished thread Run is to delete
    resume                  \* where a switched-out thread continues

schedVars == <<status, currentThread, readyList, threadToBeDestroyed, resume>>

Status == {"NONE", "RUNNING", "READY", "BLOCKED"}

SchedTypeOK ==
    /\ status \in [Threads -> Status]
    /\ currentThread \in Threads
    /\ readyList \in Seq(Threads)
    /\ threadToBeDestroyed \in Threads \cup {NoThread}
    /\ resume \in [Threads -> {"None", "Root", "Yield", "P", "Acquire", "Join", "Finish"}]
    /\ \A t \in Threads :
          /\ resume[t] = "Finish" => status[t] \in {"BLOCKED", "NONE"}
          /\ status[t] = "NONE" => resume[t] \in {"None", "Finish"}

SchedInit ==
    /\ status = [t \in Threads |-> IF t = Main THEN "RUNNING" ELSE "NONE"]
    /\ currentThread = Main
    /\ readyList = <<>>
    /\ threadToBeDestroyed = NoThread
    /\ resume = [t \in Threads |-> "None"]

-----------------------------------------------------------------------------
(* What the CPU is doing.                                                  *)

\* t runs outside any kernel call, with interrupts on
Executing(t) == t = currentThread /\ status[t] = "RUNNING" /\ resume[t] = "None"

\* t has just been switched in, in the middle of a call, with interrupts off
Resumed(t) == t = currentThread /\ status[t] = "RUNNING" /\ resume[t] # "None"

\* the CPU is in the loop of Thread::Sleep, on the stack of a blocked thread
\* (or of one that an interrupt handler has just made ready again)
Idle == status[currentThread] # "RUNNING"

-----------------------------------------------------------------------------

(* Give up the CPU: FindNextToRun on the ready list rl, then Run.  st are  *)
(* the statuses and dead the value of threadToBeDestroyed at that point.   *)
(* With an empty list the CPU stays where it is and idles.  A thread that  *)
(* runs for the first time enters ThreadRoot and not the code after SWITCH *)
(* in Run, so it does not delete the thread to be destroyed.               *)
Switch(st, rl, dead) ==
    IF rl = <<>>
    THEN /\ status' = st
         /\ readyList' = rl
         /\ threadToBeDestroyed' = dead
         /\ UNCHANGED currentThread
    ELSE LET next == Head(rl)
             deletes == resume[next] # "Root"
         IN  /\ currentThread' = next
             /\ readyList' = Tail(rl)
             /\ status' = [u \in Threads |->
                              CASE u = next             -> "RUNNING"
                                [] u = dead /\ deletes  -> "NONE"
                                [] OTHER                -> st[u]]
             /\ threadToBeDestroyed' = IF deletes THEN NoThread ELSE dead

\* Thread::Sleep of the current thread t, to continue at place
Sleep(t, place) ==
    /\ resume' = [resume EXCEPT ![t] = place]
    /\ Switch([status EXCEPT ![t] = "BLOCKED"], readyList, threadToBeDestroyed)

ReadyToRunInFront(t) ==                 \* bug: Prepend for Append
    /\ status' = [status EXCEPT ![t] = "READY"]
    /\ readyList' = <<t>> \o readyList
    /\ UNCHANGED <<currentThread, threadToBeDestroyed, resume>>

\* Scheduler::ReadyToRun, by the running thread or an interrupt handler
ReadyToRun(t) ==
    /\ status' = [status EXCEPT ![t] = "READY"]
    /\ readyList' = Append(readyList, t)
    /\ UNCHANGED <<currentThread, threadToBeDestroyed, resume>>

-----------------------------------------------------------------------------
(* The operations of a thread.                                             *)

\* new Thread, then Thread::Fork: u gets a stack that starts in ThreadRoot
Fork(t, u) ==
    /\ Executing(t)
    /\ status[u] = "NONE"
    /\ status' = [status EXCEPT ![u] = "READY"]
    /\ readyList' = Append(readyList, u)
    /\ resume' = [resume EXCEPT ![u] = "Root"]
    /\ UNCHANGED <<currentThread, threadToBeDestroyed>>

\* Thread::Yield, called by t or by OneTick after the timer interrupt
Yield(t) ==
    /\ Executing(t)
    /\ readyList # <<>>
    /\ resume' = [resume EXCEPT ![t] = "Yield"]
    /\ Switch([status EXCEPT ![t] = "READY"], Append(readyList, t),
              threadToBeDestroyed)

\* Thread::Finish of a thread that nobody joined
Finish(t) ==
    /\ Executing(t)
    /\ resume' = [resume EXCEPT ![t] = "Finish"]
    /\ Switch([status EXCEPT ![t] = "BLOCKED"], readyList, t)

\* the end of Yield, and ThreadRoot: interrupts go on and t is in its own code
EnableInterrupts(t) ==
    /\ Resumed(t)
    /\ resume[t] \in {"Root", "Yield"}
    /\ resume' = [resume EXCEPT ![t] = "None"]
    /\ UNCHANGED <<status, currentThread, readyList, threadToBeDestroyed>>

\* the loop of Thread::Sleep finds a thread an interrupt handler made ready
LeaveIdle ==
    /\ Idle
    /\ readyList # <<>>
    /\ Switch(status, readyList, threadToBeDestroyed)
    /\ UNCHANGED resume

-----------------------------------------------------------------------------
(* Properties.                                                             *)

\* the sequence s lists the threads of S, each once
Enumerates(s, S) == ToSet(s) = S /\ IsInjective(s)

\* The ready list holds every READY thread exactly once and no other thread:
\* none is lost to the scheduler, none is dispatched twice.  Sleep, Yield,
\* ReadyToRun and Run rely on it and never check it.
ReadyListExact == Enumerates(readyList, {t \in Threads : status[t] = "READY"})

\* The only RUNNING thread is the current one, whose Thread object exists.
OneRunning ==
    /\ status[currentThread] # "NONE"
    /\ \A t \in Threads : status[t] = "RUNNING" => t = currentThread

\* Thread::~Thread asserts that the thread being deleted is not the current
\* one: Run deletes only a thread that finished and is off the CPU's stack.
OnlyFinishedDestroyed ==
    threadToBeDestroyed # NoThread =>
        /\ status[threadToBeDestroyed] = "BLOCKED"
        /\ resume[threadToBeDestroyed] = "Finish"

\* thread.cc:135-138: a finished thread is left in threadToBeDestroyed so that
\* Scheduler::Run deletes it once a different thread runs.  So while a thread
\* executes, no finished thread is left that nobody is going to delete.  This
\* holds of the processes of Processes, whose first code deletes it too, and not
\* of threads that start in ThreadRoot alone.
FinishedWillBeDestroyed ==
    Executing(currentThread) =>
        \A t \in Threads :
            (status[t] = "BLOCKED" /\ resume[t] = "Finish") => t = threadToBeDestroyed
=============================================================================
