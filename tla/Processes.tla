------------------------------ MODULE Processes ------------------------------
(***************************************************************************)
(* User processes on the scheduler: the system calls Exec, Join, Exit and  *)
(* Yield of userprog/exception.cc, with the parts of threads/thread.cc and *)
(* threads/scheduler.cc that only the user-program builds contain.         *)
(***************************************************************************)
EXTENDS Scheduler

CONSTANT MaxId      \* bound: Exec only while the next id is at most this

ASSUME ProcessAssumption == MaxId \in Nat

\* the code of the system call, which stays in the result register r2
SC_Exec == 2

VARIABLES
    id,             \* Thread::ID
    parent,         \* Thread::parent, the thread that joined this one
    isJoined,       \* Thread::isJoined
    activeThreads,  \* the processes that Exec made, by any of them
    threadID,       \* the id of the next process
    result,         \* what Exec last returned to the program of the thread
    joining,        \* the argument of the Join that the thread is in
    forgotten       \* history: the joiners that a later Join has replaced

processVars == <<id, parent, isJoined, activeThreads, threadID, result, joining, forgotten>>
vars == <<schedVars, processVars>>

TypeOK ==
    /\ SchedTypeOK
    /\ id \in [Threads -> Nat]
    /\ parent \in [Threads -> Threads \cup {NoThread}]
    /\ isJoined \in [Threads -> BOOLEAN]
    /\ activeThreads \in Seq(Threads)
    /\ threadID \in Nat
    /\ result \in [Threads -> Nat]
    /\ joining \in [Threads -> Nat]
    /\ forgotten \subseteq Threads

\* main runs the first process: its id is 0 and it is not in activeThreads
Init ==
    /\ SchedInit
    /\ id = [t \in Threads |-> 0]
    /\ parent = [t \in Threads |-> NoThread]
    /\ isJoined = [t \in Threads |-> FALSE]
    /\ activeThreads = <<>>
    /\ threadID = 1
    /\ result = [t \in Threads |-> 0]
    /\ joining = [t \in Threads |-> 0]
    /\ forgotten = {}

-----------------------------------------------------------------------------
(* Exec.                                                                   *)

ExecKeepsParent(t, u) ==        \* bug: the constructor leaves parent as it is
    /\ threadID <= MaxId
    /\ Fork(t, u)
    /\ id' = [id EXCEPT ![u] = threadID]
    /\ isJoined' = [isJoined EXCEPT ![u] = FALSE]
    /\ activeThreads' = Append(activeThreads, u)
    /\ threadID' = threadID + 1
    /\ result' = [result EXCEPT ![t] = threadID, ![u] = 0]
    /\ UNCHANGED <<parent, joining, forgotten>>

\* a new process: its thread is the object u, with the fields of a new Thread
Exec(t, u) ==
    /\ threadID <= MaxId
    /\ Fork(t, u)
    /\ id' = [id EXCEPT ![u] = threadID]
    /\ parent' = [parent EXCEPT ![u] = NoThread]
    /\ isJoined' = [isJoined EXCEPT ![u] = FALSE]
    /\ activeThreads' = Append(activeThreads, u)
    /\ threadID' = threadID + 1
    /\ result' = [result EXCEPT ![t] = threadID, ![u] = 0]
    /\ UNCHANGED <<joining, forgotten>>

\* The file cannot be opened; or reading its name meets a page fault, and the
\* handler returns, past the system call, instead of trying again.
ExecWithoutProcess(t) ==
    /\ Executing(t)
    /\ result' = [result EXCEPT ![t] = SC_Exec]
    /\ UNCHANGED <<schedVars, id, parent, isJoined, activeThreads, threadID, joining,
                   forgotten>>

StartKeepsCarcass(t) ==         \* bug: the finished thread is not deleted
    /\ resume[t] = "Root"
    /\ EnableInterrupts(t)
    /\ UNCHANGED processVars

\* ThreadRoot enables interrupts, and processCreator does what Run does after
\* SWITCH in other threads: delete the thread that finished
Start(t) ==
    /\ Resumed(t)
    /\ resume[t] = "Root"
    /\ resume' = [resume EXCEPT ![t] = "None"]
    /\ status' = [u \in Threads |-> IF u = threadToBeDestroyed THEN "NONE" ELSE status[u]]
    /\ threadToBeDestroyed' = NoThread
    /\ UNCHANGED <<currentThread, readyList, processVars>>

\* a time slice ends as ThreadRoot enables interrupts, before processCreator
StartPreempted(t) ==
    /\ Resumed(t)
    /\ resume[t] = "Root"
    /\ readyList # <<>>
    /\ resume' = [resume EXCEPT ![t] = "Yield"]
    /\ Switch([status EXCEPT ![t] = "READY"], Append(readyList, t),
              threadToBeDestroyed)
    /\ UNCHANGED processVars

-----------------------------------------------------------------------------
(* Join and Exit.                                                          *)

\* getID: the processes whose id is i (there is at most one)
getID(i) == {c \in ToSet(activeThreads) : id[c] = i}

\* the child remembers one parent: the thread that joined it last
Join(t, i) ==
    /\ Executing(t)
    /\ getID(i) # {} /\ ~ isJoined[t]
    /\ parent' = [c \in Threads |-> IF c \in getID(i) THEN t ELSE parent[c]]
    /\ isJoined' = [isJoined EXCEPT ![t] = TRUE]
    /\ joining' = [joining EXCEPT ![t] = i]
    /\ forgotten' = forgotten \cup ({parent[c] : c \in getID(i)} \ {NoThread})
    /\ Sleep(t, "Join")
    /\ UNCHANGED <<id, activeThreads, threadID, result>>

JoinReturn(t) ==
    /\ Resumed(t)
    /\ resume[t] = "Join"
    /\ resume' = [resume EXCEPT ![t] = "None"]
    /\ joining' = [joining EXCEPT ![t] = 0]
    /\ UNCHANGED <<status, currentThread, readyList, threadToBeDestroyed,
                   id, parent, isJoined, activeThreads, threadID, result, forgotten>>

\* a turn of the loop of Finish, i is its counter: remove the first thread of the
\* list and append it again unless it is t
Turn(t, i, l) ==
    IF i >= Len(l) THEN l
    ELSE IF Head(l) = t THEN Tail(l)
    ELSE Append(Tail(l), Head(l))

\* the loop of Finish over activeThreads: for as many turns as the shrinking list
\* is long, so never more than it was long at first
Without(t, s) ==
    LET After[k \in Nat] == IF k = 0 THEN s ELSE Turn(t, k - 1, After[k - 1])
    IN  After[Len(s)]

\* Thread::Finish of t, with the statuses and the ready list as they are after
\* the parent has been woken
Finishing(t, st, rl) ==
    /\ Executing(t)
    /\ resume' = [resume EXCEPT ![t] = "Finish"]
    /\ activeThreads' = Without(t, activeThreads)
    /\ result' = [result EXCEPT ![t] = 0]
    /\ Switch([st EXCEPT ![t] = "BLOCKED"], rl, t)
    /\ UNCHANGED <<id, parent, threadID, joining, forgotten>>

ExitWakesNobody(t) ==           \* bug: the parent is not woken
    Finishing(t, status, readyList) /\ UNCHANGED isJoined

ExitWakesAny(t) ==              \* bug: it wakes whoever is asleep in a Join
    \/ /\ parent[t] = NoThread
       /\ Finishing(t, status, readyList)
       /\ UNCHANGED isJoined
    \/ \E j \in {u \in Threads : status[u] = "BLOCKED" /\ resume[u] = "Join"} :
       /\ parent[t] # NoThread
       /\ Finishing(t, [status EXCEPT ![j] = "READY"], <<j>> \o readyList)
       /\ isJoined' = [isJoined EXCEPT ![j] = FALSE]

\* Exit, and the exceptions that end a process: Finish, which wakes the parent
\* at the front of the ready list (WakeUpFromJoin)
Exit(t) ==
    \/ /\ parent[t] = NoThread
       /\ Finishing(t, status, readyList)
       /\ UNCHANGED isJoined
    \/ /\ parent[t] # NoThread
       /\ Finishing(t, [status EXCEPT ![parent[t]] = "READY"], <<parent[t]>> \o readyList)
       /\ isJoined' = [isJoined EXCEPT ![parent[t]] = FALSE]

-----------------------------------------------------------------------------

\* the end of Yield (a new process is switched in at Start)
YieldReturn(t) == resume[t] = "Yield" /\ EnableInterrupts(t) /\ UNCHANGED processVars

Next ==
    \E t \in Threads :
        \/ \E u \in Threads : Exec(t, u)
        \/ ExecWithoutProcess(t)
        \/ Start(t)
        \/ StartPreempted(t)
        \/ \E i \in 0 .. MaxId : Join(t, i)
        \/ JoinReturn(t)
        \/ Exit(t)
        \/ Yield(t) /\ UNCHANGED processVars
        \/ YieldReturn(t)

Spec == Init /\ [][Next]_vars

\* Programs end: each process that gets the CPU again and again calls Exit.
\* The timer (nachos -rs) ends time slices.
Fairness ==
    \A t \in Threads :
        /\ SF_vars(Exit(t))
        /\ WF_vars(Yield(t) /\ UNCHANGED processVars)
        /\ WF_vars(Start(t) \/ JoinReturn(t) \/ YieldReturn(t))

FairSpec == Spec /\ Fairness

-----------------------------------------------------------------------------
(* Properties.                                                             *)

Live(t) == status[t] # "NONE" /\ resume[t] # "Finish"

JoinAsleep(t) == status[t] = "BLOCKED" /\ resume[t] = "Join"

\* activeThreads has every process that Exec made and that has not finished,
\* once, and each has an id of its own: Finish removes exactly the one that
\* ends, and Join finds exactly the one it names.
ActiveThreadsExact ==
    /\ Enumerates(activeThreads, {t \in Threads : Live(t) /\ id[t] # 0})
    /\ \A t, u \in ToSet(activeThreads) : id[t] = id[u] => t = u

\* The list of processes is exact although Finish changes it while it counts
\* its elements; a finished thread is deleted although a new one does not start
\* where Run does that; and no field of a Thread object that is allocated again
\* leads out of the types.
ProcessesInv == TypeOK /\ ActiveThreadsExact /\ FinishedWillBeDestroyed

\* The thread that a process wakes when it finishes is asleep in the Join of
\* that very process: WakeUpFromJoin never puts a thread on the ready list that
\* is running, ready, finished or asleep for another reason.
ParentsAsleep ==
    \A c \in Threads : (Live(c) /\ parent[c] # NoThread) =>
        JoinAsleep(parent[c]) /\ joining[parent[c]] = id[c]

\* Join returns only when the program has finished: a sleeping joiner becomes
\* ready in the step that ends the program it named.
JoinWaitsForExit ==
    [][\A t \in Threads :
          JoinAsleep(t) /\ ~ JoinAsleep(t)' =>
              getID(joining[t]) # {} /\ getID(joining[t])' = {}]_vars

\* threads that wait for each other, for themselves, or for a wakeup that another
\* joiner took
Deadlocked(ts) ==
    \A t \in ts : JoinAsleep(t) /\ (t \in forgotten \/ getID(joining[t]) \cap ts # {})

\* Every Join returns, unless the joiners themselves are in the way: when the
\* program it waits for, or one that program waits for, never can finish.
JoinReturns ==
    \A t \in Threads :
        JoinAsleep(t) ~> Executing(t) \/ \E ts \in SUBSET Threads : t \in ts /\ Deadlocked(ts)
=============================================================================
