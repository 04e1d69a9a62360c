------------------------------- MODULE Programs -------------------------------
(***************************************************************************)
(* What the programs of threads/threadtest.cc have in common, those of the *)
(* older tree (code/) and those of the "Clean Code Base".  The main thread *)
(* reads the parameters, forks N threads and ends.  A thread runs with     *)
(* interrupts on, so the only places where it can lose the CPU are its     *)
(* calls: Yield, P, and, when the random timer is on (nachos -rs), the end *)
(* of any call, where interrupts are enabled.                              *)
(* What it does between two calls is cut into actions for the reader's     *)
(* sake; nothing can come between these, as interruptible is FALSE there.  *)
(***************************************************************************)
EXTENDS Synch

CONSTANTS
    N,          \* the number of threads asked for
    Number,     \* the argument each thread is forked with
    Rounds,     \* the shouts, meals or songs asked for
    Pauses      \* bound: the lengths of waits, of those Random can give

Workers == Threads \ {Main}

ASSUME ProgramAssumption ==
    /\ N \in Nat \ {0}
    /\ Number \in [Workers -> 0..(N - 1)]
    /\ \A k \in 0..(N - 1) : \E t \in Workers : Number[t] = k
    /\ \A t, u \in Workers : Number[t] = Number[u] => t = u
    /\ Rounds \in Nat
    /\ Pauses \subseteq 2..4

VARIABLES
    pc,             \* where in its program each thread is
    toWait,         \* the turns a thread still yields in a waiting loop
    forked,         \* the threads main has forked so far
    task,           \* the -A option of the older tree, or 0
    threadChoice,   \* the -A option of the clean tree, or 0
    randomYield,    \* the -rs option
    memory,         \* what the words said that new returned to the program
    interruptible   \* the running thread has just come back from a call

\* what never changes after the start
options == <<task, threadChoice, randomYield, memory>>
programVars == <<pc, toWait, forked, interruptible, options>>

ProgramInit ==
    /\ Init
    /\ pc = [t \in Threads |-> "start"]
    /\ toWait = [t \in Threads |-> 0]
    /\ forked = 0
    /\ interruptible = TRUE

At(t, place) == pc[t] = place /\ Executing(t)

GoTo(t, place) == pc' = [pc EXCEPT ![t] = place] /\ UNCHANGED <<forked, options>>

\* code without calls
Local(t, place) ==
    /\ GoTo(t, place)
    /\ interruptible' = FALSE
    /\ UNCHANGED vars

\* currentThread->Yield(): nothing happens when nobody is ready
CallYield(t, place) ==
    /\ GoTo(t, place)
    /\ interruptible' = TRUE
    /\ IF readyList = <<>> THEN UNCHANGED schedVars ELSE Yield(t)
    /\ UNCHANGED synchVars

CallP(t, s, place) == P(t, s) /\ GoTo(t, place) /\ interruptible' = TRUE

CallV(t, s, place) == V(t, s) /\ GoTo(t, place) /\ interruptible' = TRUE

\* the thread calls Finish, or returns to ThreadRoot, which does
CallFinish(t, place) == End(t) /\ GoTo(t, place) /\ interruptible' = TRUE

\* while (waitCounter < waitUntil) Yield, and what follows the loop
Waiting(t, place) ==
    /\ toWait[t] > 0
    /\ CallYield(t, place)
    /\ toWait' = [toWait EXCEPT ![t] = @ - 1]

Pause(t) == \E n \in Pauses : toWait' = [toWait EXCEPT ![t] = n]

-----------------------------------------------------------------------------
(* What is the same in every program.                                      *)

\* main makes one more thread; the thread that the k-th one is
ForkNext(u) ==
    /\ Fork(Main, u)
    /\ forked' = forked + 1
    /\ interruptible' = TRUE
    /\ UNCHANGED <<synchVars, pc, toWait, options>>

Worker(k) == CHOOSE t \in Workers : Number[t] = k

\* the last part of Task2, task34Input and task56Input: fork them, then Finish
ForkWorkers(n) ==
    /\ At(Main, "start")
    /\ \/ forked < n /\ ForkNext(Worker(forked))
       \/ forked = n /\ CallFinish(Main, "left") /\ UNCHANGED toWait

\* the kernel's side of Yield, P and the start of a thread
Continue(t) ==
    /\ \/ EnableInterrupts(t) /\ UNCHANGED synchVars
       \/ ResumeP(t)
    /\ interruptible' = TRUE
    /\ UNCHANGED <<pc, toWait, forked, options>>

\* the random timer ends the time slice where a call enables interrupts
Preempt(t) ==
    /\ randomYield
    /\ interruptible
    /\ Yield(t)
    /\ UNCHANGED <<synchVars, programVars>>

Kernel == \E t \in Threads : Continue(t) \/ Preempt(t)
=============================================================================
