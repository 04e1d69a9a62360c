------------------------------ MODULE SynchProofs ------------------------------
(***************************************************************************)
(* Proofs about Synch: no thread is lost or scheduled twice, locks exclude *)
(* each other's owners, and no wakeup is lost, for any number of threads,  *)
(* semaphores, locks and devices.                                          *)
(***************************************************************************)
EXTENDS Synch, SchedulerProofs, FiniteSetTheorems

\* The part of the invariant that says where every thread is.
Placed ==
    /\ SchedTypeOK
    /\ queue \in [Objects -> Seq(Threads)]
    /\ waitsFor \in [Threads -> Objects \cup {NoObject}]
    /\ \A t \in Threads : /\ resume[t] = "P" => waitsFor[t] \in Semaphores
                          /\ resume[t] = "Acquire" => waitsFor[t] \in Locks
    /\ ReadyListExact
    /\ OneRunning
    /\ OnlyFinishedDestroyed
    /\ QueuesExact

\* The running thread t goes to sleep in P or Acquire of o.
LEMMA WaitOnPlaced ==
  ASSUME Placed,
         NEW t \in Threads, t = currentThread, status[t] = "RUNNING",
         NEW o \in Objects, NEW place \in {"P", "Acquire"},
         place = "P" => o \in Semaphores,
         place = "Acquire" => o \in Locks,
         WaitOn(t, o, place)
  PROVE  /\ Placed'
         /\ \A p \in Objects : Sleepers(p)' = IF p = o THEN Sleepers(p) \cup {t} ELSE Sleepers(p)
  <1> DEFINE st == [status EXCEPT ![t] = "BLOCKED"]
  <1>0. NoThread \notin Threads
    BY ThreadAssumption
  <1>1. /\ st \in [Threads -> Status]
        /\ \A u \in Threads : st[u] = IF u = t THEN "BLOCKED" ELSE status[u]
        /\ st[currentThread] # "NONE"
        /\ \A u \in Threads : st[u] # "RUNNING"
        /\ threadToBeDestroyed # NoThread => st[threadToBeDestroyed] = "BLOCKED"
    BY DEF Placed, SchedTypeOK, Status, OneRunning, OnlyFinishedDestroyed
  <1>2. {u \in Threads : st[u] = "READY"} = {u \in Threads : status[u] = "READY"}
    BY <1>1
  <1>3. Enumerates(readyList, {u \in Threads : st[u] = "READY"})
    BY <1>2 DEF Placed, ReadyListExact
  <1>4. Switch(st, readyList, threadToBeDestroyed)
    BY DEF WaitOn, Sleep
  <1>5. resume' = [resume EXCEPT ![t] = place]
    BY DEF WaitOn, Sleep
  <1> HIDE DEF st
  <1>6. /\ status' \in [Threads -> Status]
        /\ currentThread' \in Threads
        /\ readyList' \in Seq(Threads)
        /\ threadToBeDestroyed' \in {threadToBeDestroyed, NoThread}
        /\ threadToBeDestroyed' # NoThread => status'[threadToBeDestroyed'] = "BLOCKED"
        /\ ReadyListExact'
        /\ OneRunning'
        /\ \A u \in Threads :
              /\ status'[u] = "BLOCKED" => st[u] = "BLOCKED"
              /\ st[u] = "BLOCKED" => status'[u] = "BLOCKED" \/ u = threadToBeDestroyed
              /\ status'[u] = "NONE" => st[u] = "NONE" \/ u = threadToBeDestroyed
              /\ st[u] = "NONE" => status'[u] = "NONE"
              /\ u = threadToBeDestroyed => status'[u] \in {"BLOCKED", "NONE"}
    <2>1. /\ currentThread \in Threads
          /\ readyList \in Seq(Threads)
          /\ threadToBeDestroyed \in Threads \cup {NoThread}
      BY DEF Placed, SchedTypeOK
    <2>2. QED
      BY <1>1, <1>3, <1>4, <2>1, SwitchPreserves
  <1>7. /\ resume' \in [Threads -> {"None", "Root", "Yield", "P", "Acquire", "Join", "Finish"}]
        /\ \A u \in Threads : resume'[u] = IF u = t THEN place ELSE resume[u]
    BY <1>5 DEF Placed, SchedTypeOK
  <1>8. /\ threadToBeDestroyed \in Threads \cup {NoThread}
        /\ threadToBeDestroyed # NoThread =>
              threadToBeDestroyed # t /\ resume[threadToBeDestroyed] = "Finish"
    BY DEF Placed, SchedTypeOK, OnlyFinishedDestroyed
  <1>9. SchedTypeOK'
    <2>1. \A u \in Threads :
            /\ resume'[u] = "Finish" => status'[u] \in {"BLOCKED", "NONE"}
            /\ status'[u] = "NONE" => resume'[u] \in {"None", "Finish"}
      BY <1>0, <1>1, <1>6, <1>7, <1>8 DEF Placed, SchedTypeOK
    <2>2. QED
      BY <1>6, <1>7, <2>1 DEF Placed, SchedTypeOK
  <1>10. /\ waitsFor' \in [Threads -> Objects \cup {NoObject}]
         /\ \A u \in Threads : waitsFor'[u] = IF u = t THEN o ELSE waitsFor[u]
         /\ queue' = [queue EXCEPT ![o] = Append(queue[o], t)]
    BY DEF Placed, WaitOn
  <1>11. \A u \in Threads : /\ resume'[u] = "P" => waitsFor'[u] \in Semaphores
                            /\ resume'[u] = "Acquire" => waitsFor'[u] \in Locks
    BY <1>7, <1>10 DEF Placed
  <1>12. OnlyFinishedDestroyed'
    BY <1>0, <1>6, <1>7, <1>8 DEF OnlyFinishedDestroyed
  <1>13. status'[t] = "BLOCKED"
    BY <1>0, <1>1, <1>6, <1>8
  <1>14. ASSUME NEW p \in Objects
         PROVE  Sleepers(p)' = IF p = o THEN Sleepers(p) \cup {t} ELSE Sleepers(p)
    <2>1. ASSUME NEW u \in Threads
          PROVE  u \in Sleepers(p)' <=> (u \in Sleepers(p) \/ (p = o /\ u = t))
      <3>1. CASE u = t
        BY <1>7, <1>10, <1>13, <3>1 DEF Sleepers
      <3>2. CASE u # t
        BY <1>0, <1>1, <1>6, <1>7, <1>8, <1>10, <3>2 DEF Sleepers
      <3>3. QED
        BY <3>1, <3>2
    <2>2. Sleepers(p) \subseteq Threads /\ Sleepers(p)' \subseteq Threads
      BY DEF Sleepers
    <2>3. QED
      BY <2>1, <2>2
  <1>15. t \notin Sleepers(o)
    BY DEF Sleepers
  <1>16. /\ queue' \in [Objects -> Seq(Threads)]
         /\ QueuesExact'
    <2>1. ASSUME NEW p \in Objects
          PROVE  queue'[p] \in Seq(Threads) /\ Enumerates(queue'[p], Sleepers(p)')
      <3>1. queue[p] \in Seq(Threads) /\ Enumerates(queue[p], Sleepers(p))
        BY DEF Placed, QueuesExact
      <3>2. queue'[p] = IF p = o THEN Append(queue[p], t) ELSE queue[p]
        BY <1>10 DEF Placed
      <3>3. QED
        BY <1>14, <1>15, <3>1, <3>2, EnumeratesAppend
    <2>2. queue' \in [Objects -> Seq(Threads)]
      BY <1>10, <2>1 DEF Placed
    <2>3. QED
      BY <2>1, <2>2 DEF QueuesExact
  <1>17. QED
    BY <1>6, <1>9, <1>10, <1>11, <1>12, <1>14, <1>16 DEF Placed

\* The CPU is given up by a thread that joins no queue (Yield, End, LeaveIdle).
LEMMA SwitchPlaced ==
  ASSUME Placed,
         NEW st \in [Threads -> Status],
         NEW rl \in Seq(Threads),
         NEW dead \in Threads \cup {NoThread},
         st[currentThread] # "NONE",
         \A t \in Threads : st[t] # "RUNNING",
         Enumerates(rl, {t \in Threads : st[t] = "READY"}),
         dead # NoThread => st[dead] = "BLOCKED" /\ resume'[dead] = "Finish",
         Switch(st, rl, dead),
         resume' \in [Threads -> {"None", "Root", "Yield", "P", "Acquire", "Join", "Finish"}],
         \A t \in Threads :
            /\ resume'[t] = "Finish" => st[t] \in {"BLOCKED", "NONE"}
            /\ st[t] = "NONE" => resume'[t] \in {"None", "Finish"}
            /\ resume'[t] \in {"P", "Acquire"} => st[t] = status[t] /\ resume'[t] = resume[t]
            /\ resume[t] \in {"P", "Acquire"} => (status[t] = "BLOCKED" => resume'[t] = resume[t]),
         UNCHANGED <<queue, waitsFor>>
  PROVE  /\ Placed'
         /\ \A p \in Objects : Sleepers(p)' = Sleepers(p)
  <1>0. NoThread \notin Threads
    BY ThreadAssumption
  <1>1. /\ status' \in [Threads -> Status]
        /\ currentThread' \in Threads
        /\ readyList' \in Seq(Threads)
        /\ threadToBeDestroyed' \in {dead, NoThread}
        /\ threadToBeDestroyed' # NoThread => status'[threadToBeDestroyed'] = "BLOCKED"
        /\ ReadyListExact'
        /\ OneRunning'
        /\ \A u \in Threads :
              /\ status'[u] = "BLOCKED" => st[u] = "BLOCKED"
              /\ st[u] = "BLOCKED" => status'[u] = "BLOCKED" \/ u = dead
              /\ status'[u] = "NONE" => st[u] = "NONE" \/ u = dead
              /\ st[u] = "NONE" => status'[u] = "NONE"
              /\ u = dead => status'[u] \in {"BLOCKED", "NONE"}
    <2>1. currentThread \in Threads
      BY DEF Placed, SchedTypeOK
    <2>2. dead # NoThread => st[dead] = "BLOCKED"
      OBVIOUS
    <2>3. QED
      BY <2>1, <2>2, SwitchPreserves
  <1>2. SchedTypeOK'
    <2>1. \A u \in Threads :
            /\ resume'[u] = "Finish" => status'[u] \in {"BLOCKED", "NONE"}
            /\ status'[u] = "NONE" => resume'[u] \in {"None", "Finish"}
      BY <1>0, <1>1
    <2>2. QED
      BY <1>1, <2>1 DEF SchedTypeOK
  <1>3. OnlyFinishedDestroyed'
    BY <1>0, <1>1 DEF OnlyFinishedDestroyed
  <1>4. ASSUME NEW p \in Objects
        PROVE  Sleepers(p)' = Sleepers(p)
    <2>1. ASSUME NEW u \in Threads
          PROVE  u \in Sleepers(p)' <=> u \in Sleepers(p)
      BY <1>0, <1>1 DEF Sleepers
    <2>2. Sleepers(p) \subseteq Threads /\ Sleepers(p)' \subseteq Threads
      BY DEF Sleepers
    <2>3. QED
      BY <2>1, <2>2
  <1>5. QueuesExact'
    BY <1>4 DEF Placed, QueuesExact
  <1>6. /\ queue' \in [Objects -> Seq(Threads)]
        /\ waitsFor' \in [Threads -> Objects \cup {NoObject}]
        /\ \A t \in Threads : /\ resume'[t] = "P" => waitsFor'[t] \in Semaphores
                              /\ resume'[t] = "Acquire" => waitsFor'[t] \in Locks
    BY DEF Placed
  <1>7. QED
    BY <1>1, <1>2, <1>3, <1>4, <1>5, <1>6 DEF Placed

\* V, Release and the interrupt handlers take the first waiter off a queue.
LEMMA WakePlaced ==
  ASSUME Placed,
         NEW o \in Objects, queue[o] # <<>>,
         ReadyToRun(Head(queue[o])),
         queue' = [queue EXCEPT ![o] = Tail(@)],
         UNCHANGED waitsFor
  PROVE  /\ Placed'
         /\ Head(queue[o]) \in Sleepers(o)
         /\ \A p \in Objects : Sleepers(p)' = IF p = o THEN Sleepers(p) \ {Head(queue[o])} ELSE Sleepers(p)
  <1> DEFINE w == Head(queue[o])
  <1>0. NoThread \notin Threads
    BY ThreadAssumption
  <1>1. queue[o] \in Seq(Threads) /\ Enumerates(queue[o], Sleepers(o))
    BY DEF Placed, QueuesExact
  <1>2. /\ w \in Threads
        /\ w \in Sleepers(o)
        /\ Tail(queue[o]) \in Seq(Threads)
        /\ Enumerates(Tail(queue[o]), Sleepers(o) \ {w})
    BY <1>1, EnumeratesTail
  <1>3. /\ status' = [status EXCEPT ![w] = "READY"]
        /\ readyList' = Append(readyList, w)
        /\ UNCHANGED <<currentThread, threadToBeDestroyed, resume>>
    BY DEF ReadyToRun
  <1> HIDE DEF w
  <1>4. /\ status[w] = "BLOCKED"
        /\ resume[w] \in {"P", "Acquire"}
        /\ waitsFor[w] = o
    BY <1>2 DEF Sleepers
  <1>5. /\ status' \in [Threads -> Status]
        /\ readyList' \in Seq(Threads)
        /\ ReadyListExact'
        /\ OneRunning'
    BY <1>2, <1>3, <1>4, ReadyToRunPreserves DEF Placed, SchedTypeOK
  <1>6. \A u \in Threads : status'[u] = IF u = w THEN "READY" ELSE status[u]
    BY <1>2, <1>3 DEF Placed, SchedTypeOK
  <1>7. SchedTypeOK'
    BY <1>3, <1>4, <1>5, <1>6 DEF Placed, SchedTypeOK
  <1>8. OnlyFinishedDestroyed'
    BY <1>0, <1>3, <1>4, <1>6 DEF Placed, SchedTypeOK, OnlyFinishedDestroyed
  <1>9. ASSUME NEW p \in Objects
        PROVE  Sleepers(p)' = IF p = o THEN Sleepers(p) \ {w} ELSE Sleepers(p)
    <2>1. ASSUME NEW u \in Threads
          PROVE  u \in Sleepers(p)' <=> (u \in Sleepers(p) /\ ~ (p = o /\ u = w))
      BY <1>3, <1>4, <1>6 DEF Sleepers
    <2>2. Sleepers(p) \subseteq Threads /\ Sleepers(p)' \subseteq Threads
      BY DEF Sleepers
    <2>3. QED
      BY <2>1, <2>2
  <1>10. /\ queue' \in [Objects -> Seq(Threads)]
         /\ QueuesExact'
    <2>1. ASSUME NEW p \in Objects
          PROVE  queue'[p] \in Seq(Threads) /\ Enumerates(queue'[p], Sleepers(p)')
      <3>1. queue[p] \in Seq(Threads) /\ Enumerates(queue[p], Sleepers(p))
        BY DEF Placed, QueuesExact
      <3>2. queue'[p] = IF p = o THEN Tail(queue[p]) ELSE queue[p]
        BY DEF Placed
      <3>3. QED
        BY <1>2, <1>9, <3>1, <3>2
    <2>2. queue' \in [Objects -> Seq(Threads)]
      BY <2>1 DEF Placed
    <2>3. QED
      BY <2>1, <2>2 DEF QueuesExact
  <1>11. QED
    BY <1>2, <1>3, <1>5, <1>7, <1>8, <1>9, <1>10 DEF Placed, w

\* A call returns to the running thread t: interrupts go on.
LEMMA ReturnPlaced ==
  ASSUME Placed,
         NEW t \in Threads, status[t] = "RUNNING",
         resume' = [resume EXCEPT ![t] = "None"],
         waitsFor' \in [Threads -> Objects \cup {NoObject}],
         \A u \in Threads \ {t} : waitsFor'[u] = waitsFor[u],
         UNCHANGED <<status, currentThread, readyList, threadToBeDestroyed, queue>>
  PROVE  /\ Placed'
         /\ \A p \in Objects : Sleepers(p)' = Sleepers(p)
  <1>0. NoThread \notin Threads
    BY ThreadAssumption
  <1>1. /\ resume' \in [Threads -> {"None", "Root", "Yield", "P", "Acquire", "Join", "Finish"}]
        /\ \A u \in Threads : resume'[u] = IF u = t THEN "None" ELSE resume[u]
    BY DEF Placed, SchedTypeOK
  <1>2. SchedTypeOK'
    BY <1>1 DEF Placed, SchedTypeOK
  <1>3. ReadyListExact' /\ OneRunning'
    BY DEF Placed, ReadyListExact, OneRunning
  <1>4. OnlyFinishedDestroyed'
    BY <1>0, <1>1 DEF Placed, SchedTypeOK, OnlyFinishedDestroyed
  <1>5. ASSUME NEW p \in Objects
        PROVE  Sleepers(p)' = Sleepers(p)
    <2>1. ASSUME NEW u \in Threads
          PROVE  u \in Sleepers(p)' <=> u \in Sleepers(p)
      BY <1>1 DEF Sleepers
    <2>2. Sleepers(p) \subseteq Threads /\ Sleepers(p)' \subseteq Threads
      BY DEF Sleepers
    <2>3. QED
      BY <2>1, <2>2
  <1>6. QueuesExact'
    BY <1>5 DEF Placed, QueuesExact
  <1>7. \A u \in Threads : /\ resume'[u] = "P" => waitsFor'[u] \in Semaphores
                           /\ resume'[u] = "Acquire" => waitsFor'[u] \in Locks
    BY <1>1 DEF Placed
  <1>8. QED
    BY <1>2, <1>3, <1>4, <1>5, <1>6, <1>7 DEF Placed

\* A call that returns at once leaves every thread where it is.
LEMMA UnchangedPlaced ==
  ASSUME Placed, UNCHANGED <<schedVars, queue, waitsFor>>
  PROVE  /\ Placed'
         /\ \A p \in Objects : Sleepers(p)' = Sleepers(p)
  <1>1. SchedTypeOK' /\ ReadyListExact' /\ OneRunning' /\ OnlyFinishedDestroyed'
    BY DEF Placed, schedVars, SchedTypeOK, ReadyListExact, OneRunning, OnlyFinishedDestroyed
  <1>2. ASSUME NEW p \in Objects
        PROVE  Sleepers(p)' = Sleepers(p)
    BY DEF schedVars, Sleepers
  <1>3. QueuesExact'
    BY <1>2 DEF Placed, QueuesExact
  <1>4. QED
    BY <1>1, <1>2, <1>3 DEF Placed, schedVars

-----------------------------------------------------------------------------
(* Where the threads are, step by step.                                    *)

LEMMA InitPlaced == Init => Placed
  <1> SUFFICES ASSUME Init PROVE Placed
    OBVIOUS
  <1> USE ThreadAssumption DEF Init, SchedInit
  <1>1. SchedTypeOK
    BY DEF SchedTypeOK, Status
  <1>2. {t \in Threads : status[t] = "READY"} = {}
    OBVIOUS
  <1>3. ReadyListExact
    BY <1>2, EnumeratesEmpty DEF ReadyListExact
  <1>4. OneRunning /\ OnlyFinishedDestroyed
    BY DEF OneRunning, OnlyFinishedDestroyed
  <1>5. \A o \in Objects : Sleepers(o) = {}
    BY DEF Sleepers
  <1>6. QueuesExact
    BY <1>5, EnumeratesEmpty DEF QueuesExact
  <1>7. /\ queue \in [Objects -> Seq(Threads)]
        /\ waitsFor \in [Threads -> Objects \cup {NoObject}]
        /\ \A t \in Threads : /\ resume[t] = "P" => waitsFor[t] \in Semaphores
                              /\ resume[t] = "Acquire" => waitsFor[t] \in Locks
    OBVIOUS
  <1>8. QED
    BY <1>1, <1>3, <1>4, <1>6, <1>7 DEF Placed

LEMMA ForkPlaced ==
  ASSUME Placed, NEW t \in Threads, NEW u \in Threads,
         Fork(t, u), UNCHANGED synchVars
  PROVE  /\ Placed'
         /\ \A p \in Objects : Sleepers(p)' = Sleepers(p)
  <1>0. NoThread \notin Threads
    BY ThreadAssumption
  <1>1. /\ status[u] = "NONE"
        /\ status' = [status EXCEPT ![u] = "READY"]
        /\ readyList' = Append(readyList, u)
        /\ resume' = [resume EXCEPT ![u] = "Root"]
        /\ UNCHANGED <<currentThread, threadToBeDestroyed, queue, waitsFor>>
    BY DEF Fork, synchVars
  <1>2. /\ status' \in [Threads -> Status]
        /\ readyList' \in Seq(Threads)
        /\ ReadyListExact'
        /\ OneRunning'
    BY <1>1, ReadyToRunPreserves DEF Placed, SchedTypeOK
  <1>3. /\ \A v \in Threads : status'[v] = IF v = u THEN "READY" ELSE status[v]
        /\ \A v \in Threads : resume'[v] = IF v = u THEN "Root" ELSE resume[v]
        /\ resume' \in [Threads -> {"None", "Root", "Yield", "P", "Acquire", "Join", "Finish"}]
    BY <1>1 DEF Placed, SchedTypeOK
  <1>4. SchedTypeOK'
    BY <1>1, <1>2, <1>3 DEF Placed, SchedTypeOK
  <1>5. OnlyFinishedDestroyed'
    BY <1>0, <1>1, <1>3 DEF Placed, SchedTypeOK, OnlyFinishedDestroyed
  <1>6. ASSUME NEW p \in Objects
        PROVE  Sleepers(p)' = Sleepers(p)
    <2>1. ASSUME NEW v \in Threads
          PROVE  v \in Sleepers(p)' <=> v \in Sleepers(p)
      BY <1>1, <1>3 DEF Sleepers
    <2>2. Sleepers(p) \subseteq Threads /\ Sleepers(p)' \subseteq Threads
      BY DEF Sleepers
    <2>3. QED
      BY <2>1, <2>2
  <1>7. QueuesExact'
    BY <1>1, <1>6 DEF Placed, QueuesExact
  <1>8. QED
    BY <1>1, <1>2, <1>3, <1>4, <1>5, <1>6, <1>7 DEF Placed

LEMMA YieldPlaced ==
  ASSUME Placed, NEW t \in Threads, Yield(t), UNCHANGED synchVars
  PROVE  /\ Placed'
         /\ \A p \in Objects : Sleepers(p)' = Sleepers(p)
  <1> DEFINE st == [status EXCEPT ![t] = "READY"]
             Ready == {u \in Threads : status[u] = "READY"}
  <1>1. /\ t = currentThread /\ status[t] = "RUNNING" /\ resume[t] = "None"
        /\ resume' = [resume EXCEPT ![t] = "Yield"]
        /\ Switch(st, Append(readyList, t), threadToBeDestroyed)
        /\ UNCHANGED <<queue, waitsFor>>
    BY DEF Yield, Executing, synchVars
  <1>2. /\ Append(readyList, t) \in Seq(Threads)
        /\ Enumerates(Append(readyList, t), Ready \cup {t})
    BY <1>1, EnumeratesAppend DEF Placed, SchedTypeOK, ReadyListExact
  <1>3. /\ st \in [Threads -> Status]
        /\ \A u \in Threads : st[u] = IF u = t THEN "READY" ELSE status[u]
    BY DEF Placed, SchedTypeOK, Status
  <1>4. {u \in Threads : st[u] = "READY"} = Ready \cup {t}
    BY <1>3
  <1>5. /\ resume' \in [Threads -> {"None", "Root", "Yield", "P", "Acquire", "Join", "Finish"}]
        /\ \A u \in Threads : resume'[u] = IF u = t THEN "Yield" ELSE resume[u]
    BY <1>1 DEF Placed, SchedTypeOK
  <1>6. /\ threadToBeDestroyed \in Threads \cup {NoThread}
        /\ threadToBeDestroyed # NoThread =>
              st[threadToBeDestroyed] = "BLOCKED" /\ resume'[threadToBeDestroyed] = "Finish"
    BY <1>1, <1>3, <1>5 DEF Placed, SchedTypeOK, OnlyFinishedDestroyed
  <1>7. /\ st[currentThread] # "NONE"
        /\ \A u \in Threads : st[u] # "RUNNING"
    BY <1>1, <1>3 DEF Placed, OneRunning
  <1>8. \A u \in Threads :
           /\ resume'[u] = "Finish" => st[u] \in {"BLOCKED", "NONE"}
           /\ st[u] = "NONE" => resume'[u] \in {"None", "Finish"}
           /\ resume'[u] \in {"P", "Acquire"} => st[u] = status[u] /\ resume'[u] = resume[u]
           /\ resume[u] \in {"P", "Acquire"} => (status[u] = "BLOCKED" => resume'[u] = resume[u])
    BY <1>1, <1>3, <1>5 DEF Placed, SchedTypeOK
  <1>9. Enumerates(Append(readyList, t), {u \in Threads : st[u] = "READY"})
    BY <1>2, <1>4
  <1> HIDE DEF st
  <1>10. QED
    BY <1>1, <1>2, <1>3, <1>5, <1>6, <1>7, <1>8, <1>9, SwitchPlaced

LEMMA EndPlaced ==
  ASSUME Placed, NEW t \in Threads, End(t)
  PROVE  /\ Placed'
         /\ \A p \in Objects : Sleepers(p)' = Sleepers(p)
  <1> DEFINE st == [status EXCEPT ![t] = "BLOCKED"]
  <1>1. /\ t = currentThread /\ status[t] = "RUNNING" /\ resume[t] = "None"
        /\ resume' = [resume EXCEPT ![t] = "Finish"]
        /\ Switch(st, readyList, t)
        /\ UNCHANGED <<queue, waitsFor>>
    BY DEF End, Finish, Executing, synchVars
  <1>2. /\ st \in [Threads -> Status]
        /\ \A u \in Threads : st[u] = IF u = t THEN "BLOCKED" ELSE status[u]
    BY DEF Placed, SchedTypeOK, Status
  <1>3. {u \in Threads : st[u] = "READY"} = {u \in Threads : status[u] = "READY"}
    BY <1>1, <1>2
  <1>4. readyList \in Seq(Threads) /\ Enumerates(readyList, {u \in Threads : st[u] = "READY"})
    BY <1>3 DEF Placed, SchedTypeOK, ReadyListExact
  <1>5. /\ resume' \in [Threads -> {"None", "Root", "Yield", "P", "Acquire", "Join", "Finish"}]
        /\ \A u \in Threads : resume'[u] = IF u = t THEN "Finish" ELSE resume[u]
    BY <1>1 DEF Placed, SchedTypeOK
  <1>6. /\ st[currentThread] # "NONE"
        /\ \A u \in Threads : st[u] # "RUNNING"
        /\ st[t] = "BLOCKED" /\ resume'[t] = "Finish"
    BY <1>1, <1>2, <1>5 DEF Placed, OneRunning
  <1>7. \A u \in Threads :
           /\ resume'[u] = "Finish" => st[u] \in {"BLOCKED", "NONE"}
           /\ st[u] = "NONE" => resume'[u] \in {"None", "Finish"}
           /\ resume'[u] \in {"P", "Acquire"} => st[u] = status[u] /\ resume'[u] = resume[u]
           /\ resume[u] \in {"P", "Acquire"} => (status[u] = "BLOCKED" => resume'[u] = resume[u])
    BY <1>1, <1>2, <1>5 DEF Placed, SchedTypeOK
  <1> HIDE DEF st
  <1>8. QED
    BY <1>1, <1>2, <1>4, <1>5, <1>6, <1>7, SwitchPlaced

LEMMA LeaveIdlePlaced ==
  ASSUME Placed, LeaveIdle, UNCHANGED synchVars
  PROVE  /\ Placed'
         /\ \A p \in Objects : Sleepers(p)' = Sleepers(p)
  <1>1. /\ status[currentThread] # "RUNNING"
        /\ Switch(status, readyList, threadToBeDestroyed)
        /\ UNCHANGED <<resume, queue, waitsFor>>
    BY DEF LeaveIdle, Idle, synchVars
  <1>2. /\ status[currentThread] # "NONE"
        /\ \A u \in Threads : status[u] # "RUNNING"
    BY <1>1 DEF Placed, OneRunning
  <1>3. /\ threadToBeDestroyed \in Threads \cup {NoThread}
        /\ threadToBeDestroyed # NoThread =>
              status[threadToBeDestroyed] = "BLOCKED" /\ resume'[threadToBeDestroyed] = "Finish"
    BY <1>1 DEF Placed, SchedTypeOK, OnlyFinishedDestroyed
  <1>4. \A u \in Threads :
           /\ resume'[u] = "Finish" => status[u] \in {"BLOCKED", "NONE"}
           /\ status[u] = "NONE" => resume'[u] \in {"None", "Finish"}
           /\ resume'[u] \in {"P", "Acquire"} => status[u] = status[u] /\ resume'[u] = resume[u]
           /\ resume[u] \in {"P", "Acquire"} => (status[u] = "BLOCKED" => resume'[u] = resume[u])
    BY <1>1 DEF Placed, SchedTypeOK
  <1>5. /\ status \in [Threads -> Status]
        /\ readyList \in Seq(Threads)
        /\ resume' \in [Threads -> {"None", "Root", "Yield", "P", "Acquire", "Join", "Finish"}]
        /\ Enumerates(readyList, {u \in Threads : status[u] = "READY"})
    BY <1>1 DEF Placed, SchedTypeOK, ReadyListExact
  <1>6. QED
    BY <1>1, <1>2, <1>3, <1>4, <1>5, SwitchPlaced

\* The other half of TypeOK.
ValuesOK ==
    /\ semValue \in [Semaphores -> Nat]
    /\ lockValue \in [Locks -> BOOLEAN]
    /\ holds \in [Threads -> SUBSET Locks]
    /\ requested \in SUBSET Devices

LEMMA TypeOKParts == Placed /\ ValuesOK => TypeOK
  BY DEF Placed, ValuesOK, TypeOK

LEMMA SignalOK ==
  ASSUME Placed, ValuesOK, NEW s \in Semaphores, Signal(s), UNCHANGED waitsFor
  PROVE  Placed' /\ semValue' \in [Semaphores -> Nat]
  <1>1. s \in Objects
    BY DEF Objects
  <1>2. semValue' \in [Semaphores -> Nat]
    BY DEF Signal, ValuesOK
  <1>3. CASE queue[s] = <<>> /\ UNCHANGED <<schedVars, queue>>
    BY <1>2, <1>3, UnchangedPlaced
  <1>4. CASE /\ queue[s] # <<>>
             /\ ReadyToRun(Head(queue[s]))
             /\ queue' = [queue EXCEPT ![s] = Tail(@)]
    BY <1>1, <1>2, <1>4, WakePlaced
  <1>5. QED
    BY <1>3, <1>4 DEF Signal

LEMMA NextPlaced == Placed /\ ValuesOK /\ [Next]_vars => Placed' /\ ValuesOK'
  <1> SUFFICES ASSUME Placed, ValuesOK, [Next]_vars
               PROVE  Placed' /\ ValuesOK'
    OBVIOUS
  <1> USE DEF Objects
  <1>1. ASSUME NEW t \in Threads, NEW u \in Threads, Fork(t, u), UNCHANGED synchVars
        PROVE  Placed' /\ ValuesOK'
    BY <1>1, ForkPlaced DEF ValuesOK, synchVars
  <1>2. ASSUME NEW t \in Threads, Yield(t), UNCHANGED synchVars
        PROVE  Placed' /\ ValuesOK'
    BY <1>2, YieldPlaced DEF ValuesOK, synchVars
  <1>3. ASSUME NEW t \in Threads, EnableInterrupts(t), UNCHANGED synchVars
        PROVE  Placed' /\ ValuesOK'
    <2>1. /\ status[t] = "RUNNING"
          /\ resume' = [resume EXCEPT ![t] = "None"]
          /\ UNCHANGED <<status, currentThread, readyList, threadToBeDestroyed, queue, waitsFor>>
          /\ waitsFor' \in [Threads -> Objects \cup {NoObject}]
      BY <1>3 DEF EnableInterrupts, Resumed, synchVars, Placed
    <2>2. Placed'
      BY <2>1, ReturnPlaced
    <2>3. QED
      BY <1>3, <2>2 DEF ValuesOK, synchVars
  <1>4. ASSUME NEW t \in Threads, End(t)
        PROVE  Placed' /\ ValuesOK'
    BY <1>4, EndPlaced DEF ValuesOK, End, synchVars
  <1>5. ASSUME NEW t \in Threads, NEW s \in Semaphores, P(t, s)
        PROVE  Placed' /\ ValuesOK'
    <2>1. CASE /\ semValue[s] > 0
               /\ semValue' = [semValue EXCEPT ![s] = @ - 1]
               /\ UNCHANGED <<schedVars, queue, waitsFor>>
      <3>1. semValue' \in [Semaphores -> Nat]
        BY <2>1 DEF ValuesOK
      <3>2. QED
        BY <1>5, <2>1, <3>1, UnchangedPlaced DEF ValuesOK, P
    <2>2. CASE WaitOn(t, s, "P") /\ UNCHANGED semValue
      <3>1. t = currentThread /\ status[t] = "RUNNING"
        BY <1>5 DEF P, Executing
      <3>2. Placed'
        BY <2>2, <3>1, WaitOnPlaced
      <3>3. QED
        BY <1>5, <2>2, <3>2 DEF ValuesOK, P
    <2>3. QED
      BY <1>5, <2>1, <2>2 DEF P
  <1>6. ASSUME NEW t \in Threads, NEW s \in Semaphores, V(t, s)
        PROVE  Placed' /\ ValuesOK'
    BY <1>6, SignalOK DEF ValuesOK, V
  <1>7. ASSUME NEW t \in Threads, ResumeP(t)
        PROVE  Placed' /\ ValuesOK'
    <2> DEFINE s == waitsFor[t]
    <2>1. /\ t = currentThread /\ status[t] = "RUNNING"
          /\ s \in Semaphores
          /\ UNCHANGED <<lockValue, holds, requested>>
      BY <1>7 DEF ResumeP, Resumed, Placed
    <2>2. CASE /\ semValue[s] > 0
               /\ semValue' = [semValue EXCEPT ![s] = @ - 1]
               /\ resume' = [resume EXCEPT ![t] = "None"]
               /\ waitsFor' = [waitsFor EXCEPT ![t] = NoObject]
               /\ UNCHANGED <<status, currentThread, readyList, threadToBeDestroyed, queue>>
      <3>1. /\ waitsFor' \in [Threads -> Objects \cup {NoObject}]
            /\ \A u \in Threads \ {t} : waitsFor'[u] = waitsFor[u]
        BY <2>2 DEF Placed
      <3>2. Placed'
        BY <2>1, <2>2, <3>1, ReturnPlaced
      <3>3. semValue' \in [Semaphores -> Nat]
        BY <2>1, <2>2 DEF ValuesOK
      <3>4. QED
        BY <2>1, <3>2, <3>3 DEF ValuesOK
    <2>3. CASE WaitOn(t, s, "P") /\ UNCHANGED semValue
      <3>1. Placed'
        BY <2>1, <2>3, WaitOnPlaced
      <3>2. QED
        BY <2>1, <2>3, <3>1 DEF ValuesOK
    <2>4. QED
      BY <1>7, <2>2, <2>3 DEF ResumeP
  <1>8. ASSUME NEW t \in Threads, NEW l \in Locks, Acquire(t, l)
        PROVE  Placed' /\ ValuesOK'
    <2>1. CASE /\ lockValue' = [lockValue EXCEPT ![l] = TRUE]
               /\ holds' = [holds EXCEPT ![t] = @ \cup {l}]
               /\ UNCHANGED <<schedVars, queue, waitsFor>>
      BY <1>8, <2>1, UnchangedPlaced DEF ValuesOK, Acquire
    <2>2. CASE WaitOn(t, l, "Acquire") /\ UNCHANGED <<lockValue, holds>>
      <3>1. t = currentThread /\ status[t] = "RUNNING"
        BY <1>8 DEF Acquire, Executing
      <3>2. Placed'
        BY <2>2, <3>1, WaitOnPlaced
      <3>3. QED
        BY <1>8, <2>2, <3>2 DEF ValuesOK, Acquire
    <2>3. QED
      BY <1>8, <2>1, <2>2 DEF Acquire
  <1>9. ASSUME NEW t \in Threads, NEW l \in Locks, Release(t, l)
        PROVE  Placed' /\ ValuesOK'
    <2>1. holds' \in [Threads -> SUBSET Locks]
      BY <1>9 DEF Release, ValuesOK
    <2>2. CASE /\ queue[l] # <<>>
               /\ ReadyToRun(Head(queue[l]))
               /\ queue' = [queue EXCEPT ![l] = Tail(@)]
               /\ UNCHANGED lockValue
      BY <1>9, <2>1, <2>2, WakePlaced DEF ValuesOK, Release
    <2>3. CASE /\ lockValue' = [lockValue EXCEPT ![l] = FALSE]
               /\ UNCHANGED <<schedVars, queue>>
      BY <1>9, <2>1, <2>3, UnchangedPlaced DEF ValuesOK, Release
    <2>4. QED
      BY <1>9, <2>2, <2>3 DEF Release
  <1>10. ASSUME NEW t \in Threads, ResumeAcquire(t)
         PROVE  Placed' /\ ValuesOK'
    <2>1. /\ status[t] = "RUNNING" /\ waitsFor[t] \in Locks
          /\ resume' = [resume EXCEPT ![t] = "None"]
          /\ waitsFor' = [waitsFor EXCEPT ![t] = NoObject]
          /\ holds' = [holds EXCEPT ![t] = @ \cup {waitsFor[t]}]
          /\ UNCHANGED <<status, currentThread, readyList, threadToBeDestroyed,
                         semValue, lockValue, queue, requested>>
      BY <1>10 DEF ResumeAcquire, Resumed, Placed
    <2>2. /\ waitsFor' \in [Threads -> Objects \cup {NoObject}]
          /\ \A u \in Threads \ {t} : waitsFor'[u] = waitsFor[u]
      BY <2>1 DEF Placed
    <2>3. Placed'
      BY <2>1, <2>2, ReturnPlaced
    <2>4. QED
      BY <2>1, <2>3 DEF ValuesOK
  <1>11. ASSUME NEW t \in Threads, NEW d \in Devices, Request(t, d)
         PROVE  Placed' /\ ValuesOK'
    BY <1>11, UnchangedPlaced DEF ValuesOK, Request
  <1>12. ASSUME LeaveIdle, UNCHANGED synchVars
         PROVE  Placed' /\ ValuesOK'
    BY <1>12, LeaveIdlePlaced DEF ValuesOK, synchVars
  <1>13. ASSUME NEW d \in Devices, Complete(d)
         PROVE  Placed' /\ ValuesOK'
    <2>1. d \in Semaphores
      BY SynchAssumption
    <2>2. QED
      BY <1>13, <2>1, SignalOK DEF ValuesOK, Complete
  <1>14. ASSUME UNCHANGED vars
         PROVE  Placed' /\ ValuesOK'
    BY <1>14, UnchangedPlaced DEF ValuesOK, vars, synchVars
  <1>15. QED
    BY <1>1, <1>2, <1>3, <1>4, <1>5, <1>6, <1>7, <1>8, <1>9, <1>10, <1>11,
       <1>12, <1>13, <1>14 DEF Next

\* For every number of threads, semaphores, locks and devices: the variables
\* keep their types, the value of a semaphore is never negative among them
\* (synch.h:50), and every thread is in exactly the list its status says.
THEOREM ThreadsPlaced ==
    Spec => []ThreadsInv
  <1>1. Init => Placed /\ ValuesOK
    <2>1. Init => ValuesOK
      BY SynchAssumption DEF Init, ValuesOK
    <2>2. QED
      BY <2>1, InitPlaced
  <1>2. Placed /\ ValuesOK => ThreadsInv
    BY TypeOKParts DEF Placed, ThreadsInv
  <1>3. QED
    BY <1>1, <1>2, NextPlaced, PTL DEF Spec

-----------------------------------------------------------------------------
(* Locks.                                                                  *)

LockInv == MutualExclusion /\ BusyIffOwned

\* what the abstract lock of FifoLock sees
fifoVars == <<[l \in Locks |-> Owner(l)], [l \in Locks |-> queue[l]]>>

\* The owner that the abstract lock sees is the thread that owns the lock.
LEMMA OwnerOwns ==
  LockInv => \A l \in Locks :
                /\ \A t \in Threads : Owns(t, l) => Owner(l) = t
                /\ (\A t \in Threads : ~ Owns(t, l)) => Owner(l) = NoThread
  <1> SUFFICES ASSUME LockInv, NEW l \in Locks
               PROVE  /\ \A t \in Threads : Owns(t, l) => Owner(l) = t
                      /\ (\A t \in Threads : ~ Owns(t, l)) => Owner(l) = NoThread
    OBVIOUS
  <1>1. ASSUME NEW t \in Threads, Owns(t, l)
        PROVE  Owner(l) = t
    <2>1. Owner(l) \in Threads /\ Owns(Owner(l), l)
      BY <1>1, Zenon DEF Owner
    <2>2. QED
      BY <1>1, <2>1, Zenon DEF LockInv, MutualExclusion
  <1>2. ASSUME \A t \in Threads : ~ Owns(t, l)
        PROVE  Owner(l) = NoThread
    BY <1>2, Zenon DEF Owner
  <1>3. QED
    BY <1>1, <1>2

LEMMA OwnerOwnsNext ==
  (LockInv => \A l \in Locks :
                 /\ \A t \in Threads : Owns(t, l) => Owner(l) = t
                 /\ (\A t \in Threads : ~ Owns(t, l)) => Owner(l) = NoThread)'
  BY OwnerOwns, PTL

\* A lock that the same threads own has the same owner.
LEMMA SameOwner ==
  ASSUME LockInv, LockInv', NEW l \in Locks,
         \A t \in Threads : Owns(t, l)' <=> Owns(t, l)
  PROVE  Owner(l)' = Owner(l)
  <1>1. CASE \E t \in Threads : Owns(t, l)
    BY <1>1, OwnerOwns, OwnerOwnsNext, Zenon
  <1>2. CASE \A t \in Threads : ~ Owns(t, l)
    BY <1>2, OwnerOwns, OwnerOwnsNext, Zenon
  <1>3. QED
    BY <1>1, <1>2

\* A step that changes no owner and lets nobody wait for a free lock.
LEMMA SameOwners ==
  ASSUME LockInv, UNCHANGED lockValue,
         \A l \in Locks, t \in Threads : Owns(t, l)' <=> Owns(t, l),
         \A l \in Locks : queue'[l] # <<>> => queue[l] # <<>> \/ lockValue[l]
  PROVE  /\ LockInv'
         /\ \A l \in Locks : Owner(l)' = Owner(l)
  <1>1. LockInv'
    BY DEF LockInv, MutualExclusion, BusyIffOwned
  <1>2. QED
    BY <1>1, SameOwner

\* Owns depends only on holds, resume, waitsFor and the queues.
LEMMA OwnsUnchanged ==
  ASSUME Placed, UNCHANGED holds,
         \A l \in Locks : queue'[l] = queue[l],
         \A t \in Threads : \/ resume'[t] = resume[t] /\ waitsFor'[t] = waitsFor[t]
                            \/ resume[t] # "Acquire" /\ resume'[t] # "Acquire",
         LockInv, UNCHANGED lockValue
  PROVE  LockInv' /\ UNCHANGED fifoVars
  <1>1. \A l \in Locks, t \in Threads : Owns(t, l)' <=> Owns(t, l)
    BY DEF Owns, Queued
  <1>2. LockInv' /\ \A l \in Locks : Owner(l)' = Owner(l)
    BY <1>1, SameOwners
  <1>3. QED
    BY <1>2, Zenon DEF fifoVars

LEMMA AcquireLockInv ==
  ASSUME Placed, ValuesOK, LockInv, NEW t \in Threads, NEW l \in Locks, Acquire(t, l)
  PROVE  LockInv' /\ Fifo!Next
  <1> USE DEF Objects
  <1>1. t = currentThread /\ status[t] = "RUNNING" /\ resume[t] = "None"
    BY DEF Acquire, Executing
  <1>2. CASE /\ ~ lockValue[l]
             /\ lockValue' = [lockValue EXCEPT ![l] = TRUE]
             /\ holds' = [holds EXCEPT ![t] = @ \cup {l}]
             /\ UNCHANGED <<schedVars, queue, waitsFor>>
    <2>1. \A m \in Locks : lockValue'[m] <=> (lockValue[m] \/ m = l)
      BY <1>2 DEF ValuesOK
    <2>2. \A m \in Locks, u \in Threads :
             Owns(u, m)' <=> (Owns(u, m) \/ (m = l /\ u = t))
      BY <1>2 DEF ValuesOK, Owns, Queued, schedVars
    <2>3. \A u \in Threads : ~ Owns(u, l)
      BY <1>2 DEF LockInv, BusyIffOwned
    <2>4. MutualExclusion'
      BY <2>2, <2>3 DEF LockInv, MutualExclusion
    <2>5. BusyIffOwned'
      BY <1>2, <2>1, <2>2 DEF LockInv, BusyIffOwned
    <2>6. LockInv'
      BY <2>4, <2>5 DEF LockInv
    <2>7. Owner(l) = NoThread /\ Owner(l)' = t
      BY <2>2, <2>3, <2>6, OwnerOwns, OwnerOwnsNext
    <2>8. \A m \in Locks \ {l} : Owner(m)' = Owner(m)
      BY <2>2, <2>6, SameOwner
    <2>9. [m \in Locks |-> Owner(m)]' = [[m \in Locks |-> Owner(m)] EXCEPT ![l] = t]
      BY <2>7, <2>8
    <2>10. Fifo!Take(t, l)
      BY <1>2, <2>7, <2>9 DEF Fifo!Take
    <2>11. QED
      BY <2>6, <2>10 DEF Fifo!Next
  <1>3. CASE lockValue[l] /\ WaitOn(t, l, "Acquire") /\ UNCHANGED <<lockValue, holds>>
    <2>1. /\ Placed'
          /\ \A p \in Objects : Sleepers(p)' = IF p = l THEN Sleepers(p) \cup {t} ELSE Sleepers(p)
      BY <1>1, <1>3, WaitOnPlaced
    <2>2. \A m \in Locks : ToSet(queue'[m]) = IF m = l THEN ToSet(queue[m]) \cup {t} ELSE ToSet(queue[m])
      BY <2>1 DEF Placed, QueuesExact, Enumerates
    <2>3. /\ \A u \in Threads : resume'[u] = IF u = t THEN "Acquire" ELSE resume[u]
          /\ \A u \in Threads : waitsFor'[u] = IF u = t THEN l ELSE waitsFor[u]
          /\ queue' = [queue EXCEPT ![l] = Append(queue[l], t)]
      BY <1>3 DEF WaitOn, Sleep, Placed, SchedTypeOK
    <2>4. ASSUME NEW m \in Locks, NEW u \in Threads
          PROVE  Owns(u, m)' <=> Owns(u, m)
      <3>1. CASE u = t
        <4>1. t \in ToSet(queue'[l])
          BY <2>2
        <4>2. waitsFor'[t] = l
          BY <2>3
        <4>3. Owns(t, m)' <=> m \in holds[t]
          BY <1>3, <4>1, <4>2 DEF Owns, Queued
        <4>4. Owns(t, m) <=> m \in holds[t]
          BY <1>1 DEF Owns
        <4>5. QED
          BY <3>1, <4>3, <4>4
      <3>2. CASE u # t
        <4>1. Queued(u, m)' <=> Queued(u, m)
          BY <2>2, <3>2 DEF Queued
        <4>2. QED
          BY <1>3, <2>3, <3>2, <4>1 DEF Owns
      <3>3. QED
        BY <3>1, <3>2
    <2>5. \A m \in Locks : queue'[m] # <<>> => queue[m] # <<>> \/ lockValue[m]
      BY <1>3, <2>3 DEF Placed
    <2>6. LockInv' /\ \A m \in Locks : Owner(m)' = Owner(m)
      BY <1>3, <2>4, <2>5, SameOwners
    <2>7. [m \in Locks |-> Owner(m)]' = [m \in Locks |-> Owner(m)]
      BY <2>6
    <2>8. PICK u \in Threads : Owns(u, l)
      BY <1>3 DEF LockInv, BusyIffOwned
    <2>9. Owner(l) # NoThread
      BY <2>8, OwnerOwns, ThreadAssumption
    <2>10. [m \in Locks |-> queue[m]]'
              = [[m \in Locks |-> queue[m]] EXCEPT ![l] = Append(@, t)]
      BY <2>3 DEF Placed
    <2>11. Fifo!Wait(t, l)
      BY <2>7, <2>9, <2>10 DEF Fifo!Wait
    <2>12. QED
      BY <2>6, <2>11 DEF Fifo!Next
  <1>4. QED
    BY <1>2, <1>3 DEF Acquire

LEMMA ReleaseLockInv ==
  ASSUME Placed, ValuesOK, LockInv, NEW t \in Threads, NEW l \in Locks, Release(t, l)
  PROVE  LockInv' /\ Fifo!Next
  <1> USE DEF Objects
  <1>1. /\ resume[t] = "None"
        /\ Owns(t, l)
        /\ holds' = [holds EXCEPT ![t] = @ \ {l}]
        /\ UNCHANGED waitsFor
    BY DEF Release, Executing, Owns
  <1>2. \A u \in Threads : Owns(u, l) => u = t
    BY <1>1 DEF LockInv, MutualExclusion
  <1>3. /\ lockValue[l]
        /\ Owner(l) # NoThread
    BY <1>1, OwnerOwns, ThreadAssumption DEF LockInv, BusyIffOwned
  <1>4. CASE /\ queue[l] # <<>>
             /\ ReadyToRun(Head(queue[l]))
             /\ queue' = [queue EXCEPT ![l] = Tail(@)]
             /\ UNCHANGED lockValue
    <2> DEFINE w == Head(queue[l])
    <2>1. /\ Placed'
          /\ w \in Sleepers(l)
          /\ \A p \in Objects : Sleepers(p)' = IF p = l THEN Sleepers(p) \ {w} ELSE Sleepers(p)
      BY <1>1, <1>4, WakePlaced
    <2>2. resume' = resume
      BY <1>4 DEF ReadyToRun
    <2> HIDE DEF w
    <2>3. \A m \in Locks : /\ ToSet(queue[m]) = Sleepers(m)
                           /\ ToSet(queue'[m]) = IF m = l THEN ToSet(queue[m]) \ {w} ELSE ToSet(queue[m])
      BY <2>1 DEF Placed, QueuesExact, Enumerates
    <2>4. /\ w \in Threads
          /\ resume[w] = "Acquire"
          /\ waitsFor[w] = l
          /\ w # t
      BY <1>1, <2>1, SynchAssumption DEF Sleepers, Placed
    <2>5. \A u \in Threads : Owns(u, l)' <=> u = w
      BY <1>1, <1>2, <2>2, <2>3, <2>4 DEF Owns, Queued, ValuesOK
    <2>6. \A m \in Locks \ {l}, u \in Threads : Owns(u, m)' <=> Owns(u, m)
      BY <1>1, <2>2, <2>3, <2>4 DEF Owns, Queued, ValuesOK
    <2>7. MutualExclusion'
      BY <2>5, <2>6 DEF LockInv, MutualExclusion
    <2>8. \A m \in Locks : queue'[m] # <<>> => queue[m] # <<>>
      BY <1>4 DEF Placed
    <2>9. BusyIffOwned'
      BY <1>3, <1>4, <2>4, <2>5, <2>6, <2>8 DEF LockInv, BusyIffOwned
    <2>10. LockInv'
      BY <2>7, <2>9 DEF LockInv
    <2>11. Owner(l)' = w /\ \A m \in Locks \ {l} : Owner(m)' = Owner(m)
      BY <2>4, <2>5, <2>6, <2>10, OwnerOwnsNext, SameOwner
    <2>12. [m \in Locks |-> Owner(m)]' = [[m \in Locks |-> Owner(m)] EXCEPT ![l] = w]
      BY <2>11
    <2>13. [m \in Locks |-> queue[m]]'
              = [[m \in Locks |-> queue[m]] EXCEPT ![l] = Tail(@)]
      BY <1>4 DEF Placed
    <2>14. Fifo!HandOver(l)
      BY <1>3, <1>4, <2>12, <2>13 DEF Fifo!HandOver, w
    <2>15. QED
      BY <2>10, <2>14 DEF Fifo!Next
  <1>5. CASE /\ queue[l] = <<>>
             /\ lockValue' = [lockValue EXCEPT ![l] = FALSE]
             /\ UNCHANGED <<schedVars, queue>>
    <2>1. \A m \in Locks, u \in Threads : Owns(u, m)' <=> (Owns(u, m) /\ m # l)
      BY <1>1, <1>2, <1>5 DEF Owns, Queued, ValuesOK, schedVars
    <2>2. \A m \in Locks : lockValue'[m] <=> (lockValue[m] /\ m # l)
      BY <1>5 DEF ValuesOK
    <2>3. MutualExclusion'
      BY <2>1 DEF LockInv, MutualExclusion
    <2>4. BusyIffOwned'
      BY <1>5, <2>1, <2>2 DEF LockInv, BusyIffOwned
    <2>5. LockInv'
      BY <2>3, <2>4 DEF LockInv
    <2>6. Owner(l)' = NoThread /\ \A m \in Locks \ {l} : Owner(m)' = Owner(m)
      BY <2>1, <2>5, OwnerOwnsNext, SameOwner
    <2>7. [m \in Locks |-> Owner(m)]' = [[m \in Locks |-> Owner(m)] EXCEPT ![l] = NoThread]
      BY <2>6
    <2>8. Fifo!Free(l)
      BY <1>3, <1>5, <2>7 DEF Fifo!Free
    <2>9. QED
      BY <2>5, <2>8 DEF Fifo!Next
  <1>6. QED
    BY <1>4, <1>5 DEF Release

LEMMA ResumeAcquireLockInv ==
  ASSUME Placed, ValuesOK, LockInv, NEW t \in Threads, ResumeAcquire(t)
  PROVE  LockInv' /\ UNCHANGED fifoVars
  <1> DEFINE l == waitsFor[t]
  <1>1. /\ status[t] = "RUNNING" /\ resume[t] = "Acquire" /\ l \in Locks
        /\ resume' = [resume EXCEPT ![t] = "None"]
        /\ holds' = [holds EXCEPT ![t] = @ \cup {l}]
        /\ waitsFor' = [waitsFor EXCEPT ![t] = NoObject]
        /\ UNCHANGED <<lockValue, queue>>
    BY DEF ResumeAcquire, Resumed, Placed
  <1> HIDE DEF l
  <1>2. t \notin ToSet(queue[l])
    BY <1>1 DEF Placed, QueuesExact, Enumerates, Sleepers, Objects
  <1>3. /\ \A u \in Threads : resume'[u] = IF u = t THEN "None" ELSE resume[u]
        /\ \A u \in Threads : waitsFor'[u] = IF u = t THEN NoObject ELSE waitsFor[u]
        /\ \A u \in Threads : holds'[u] = IF u = t THEN holds[u] \cup {l} ELSE holds[u]
    BY <1>1 DEF Placed, SchedTypeOK, ValuesOK
  <1>4. ASSUME NEW m \in Locks, NEW u \in Threads
        PROVE  Owns(u, m)' <=> Owns(u, m)
    <2>1. CASE u = t
      <3>1. Owns(t, m)' <=> m \in holds[t] \cup {l}
        BY <1>3 DEF Owns
      <3>2. Owns(t, m) <=> m \in holds[t] \cup {l}
        BY <1>1, <1>2 DEF Owns, Queued, l
      <3>3. QED
        BY <2>1, <3>1, <3>2
    <2>2. CASE u # t
      BY <1>1, <1>3, <2>2 DEF Owns, Queued
    <2>3. QED
      BY <2>1, <2>2
  <1>5. LockInv' /\ \A m \in Locks : Owner(m)' = Owner(m)
    BY <1>1, <1>4, SameOwners
  <1>6. QED
    BY <1>1, <1>5, Zenon DEF fifoVars

LEMMA WaitOnSemaphoreLockInv ==
  ASSUME Placed, LockInv, NEW t \in Threads, NEW s \in Semaphores,
         resume[t] # "Acquire", WaitOn(t, s, "P"), UNCHANGED <<lockValue, holds>>
  PROVE  LockInv' /\ UNCHANGED fifoVars
  <1>1. /\ \A u \in Threads : resume'[u] = IF u = t THEN "P" ELSE resume[u]
        /\ \A u \in Threads \ {t} : waitsFor'[u] = waitsFor[u]
        /\ \A l \in Locks : queue'[l] = queue[l]
    BY SynchAssumption DEF WaitOn, Sleep, Placed, SchedTypeOK, Objects
  <1>2. \A u \in Threads : \/ resume'[u] = resume[u] /\ waitsFor'[u] = waitsFor[u]
                           \/ resume[u] # "Acquire" /\ resume'[u] # "Acquire"
    BY <1>1
  <1>3. QED
    BY <1>1, <1>2, OwnsUnchanged

LEMMA SignalLockInv ==
  ASSUME Placed, LockInv, NEW s \in Semaphores, Signal(s),
         UNCHANGED <<lockValue, waitsFor, holds>>
  PROVE  LockInv' /\ UNCHANGED fifoVars
  <1>1. resume' = resume
    BY DEF Signal, ReadyToRun, schedVars
  <1>2. \A l \in Locks : queue'[l] = queue[l]
    BY SynchAssumption DEF Signal, Placed, Objects
  <1>3. QED
    BY <1>1, <1>2, OwnsUnchanged

LEMMA NextLockInv ==
  ASSUME Placed, ValuesOK, LockInv, [Next]_vars
  PROVE  LockInv' /\ [Fifo!Next]_fifoVars
  <1>1. ASSUME NEW t \in Threads, NEW u \in Threads, Fork(t, u), UNCHANGED synchVars
        PROVE  LockInv' /\ [Fifo!Next]_fifoVars
    <2>1. /\ resume[u] # "Acquire"
          /\ \A v \in Threads : resume'[v] = IF v = u THEN "Root" ELSE resume[v]
      BY <1>1 DEF Fork, Placed, SchedTypeOK
    <2>2. QED
      BY <1>1, <2>1, OwnsUnchanged DEF synchVars
  <1>2. ASSUME NEW t \in Threads, Yield(t), UNCHANGED synchVars
        PROVE  LockInv' /\ [Fifo!Next]_fifoVars
    <2>1. /\ resume[t] = "None"
          /\ \A v \in Threads : resume'[v] = IF v = t THEN "Yield" ELSE resume[v]
      BY <1>2 DEF Yield, Executing, Placed, SchedTypeOK
    <2>2. QED
      BY <1>2, <2>1, OwnsUnchanged DEF synchVars
  <1>3. ASSUME NEW t \in Threads, EnableInterrupts(t), UNCHANGED synchVars
        PROVE  LockInv' /\ [Fifo!Next]_fifoVars
    <2>1. /\ resume[t] # "Acquire"
          /\ \A v \in Threads : resume'[v] = IF v = t THEN "None" ELSE resume[v]
      BY <1>3 DEF EnableInterrupts, Placed, SchedTypeOK
    <2>2. QED
      BY <1>3, <2>1, OwnsUnchanged DEF synchVars
  <1>4. ASSUME NEW t \in Threads, End(t)
        PROVE  LockInv' /\ [Fifo!Next]_fifoVars
    <2>1. /\ resume[t] = "None"
          /\ \A v \in Threads : resume'[v] = IF v = t THEN "Finish" ELSE resume[v]
      BY <1>4 DEF End, Finish, Executing, Placed, SchedTypeOK
    <2>2. QED
      BY <1>4, <2>1, OwnsUnchanged DEF End, synchVars
  <1>5. ASSUME NEW t \in Threads, NEW s \in Semaphores, P(t, s)
        PROVE  LockInv' /\ [Fifo!Next]_fifoVars
    <2>1. CASE UNCHANGED <<schedVars, queue, waitsFor>>
      BY <1>5, <2>1, OwnsUnchanged DEF P, schedVars
    <2>2. CASE WaitOn(t, s, "P")
      <3>1. resume[t] # "Acquire"
        BY <1>5 DEF P, Executing
      <3>2. QED
        BY <1>5, <2>2, <3>1, WaitOnSemaphoreLockInv DEF P
    <2>3. QED
      BY <1>5, <2>1, <2>2 DEF P
  <1>6. ASSUME NEW t \in Threads, NEW s \in Semaphores, V(t, s)
        PROVE  LockInv' /\ [Fifo!Next]_fifoVars
    BY <1>6, SignalLockInv DEF V
  <1>7. ASSUME NEW t \in Threads, ResumeP(t)
        PROVE  LockInv' /\ [Fifo!Next]_fifoVars
    <2> DEFINE s == waitsFor[t]
    <2>1. resume[t] = "P" /\ s \in Semaphores /\ UNCHANGED <<lockValue, holds>>
      BY <1>7 DEF ResumeP, Placed
    <2>2. CASE /\ resume' = [resume EXCEPT ![t] = "None"]
               /\ waitsFor' = [waitsFor EXCEPT ![t] = NoObject]
               /\ UNCHANGED queue
      <3>1. \A v \in Threads : \/ resume'[v] = resume[v] /\ waitsFor'[v] = waitsFor[v]
                               \/ resume[v] # "Acquire" /\ resume'[v] # "Acquire"
        BY <2>1, <2>2 DEF Placed, SchedTypeOK
      <3>2. QED
        BY <2>1, <2>2, <3>1, OwnsUnchanged
    <2>3. CASE WaitOn(t, s, "P")
      BY <2>1, <2>3, WaitOnSemaphoreLockInv
    <2>4. QED
      BY <1>7, <2>2, <2>3 DEF ResumeP
  <1>8. ASSUME NEW t \in Threads, NEW l \in Locks, Acquire(t, l)
        PROVE  LockInv' /\ [Fifo!Next]_fifoVars
    BY <1>8, AcquireLockInv
  <1>9. ASSUME NEW t \in Threads, NEW l \in Locks, Release(t, l)
        PROVE  LockInv' /\ [Fifo!Next]_fifoVars
    BY <1>9, ReleaseLockInv
  <1>10. ASSUME NEW t \in Threads, ResumeAcquire(t)
         PROVE  LockInv' /\ [Fifo!Next]_fifoVars
    BY <1>10, ResumeAcquireLockInv
  <1>11. ASSUME NEW t \in Threads, NEW d \in Devices, Request(t, d)
         PROVE  LockInv' /\ [Fifo!Next]_fifoVars
    BY <1>11, OwnsUnchanged DEF Request, schedVars
  <1>12. ASSUME LeaveIdle, UNCHANGED synchVars
         PROVE  LockInv' /\ [Fifo!Next]_fifoVars
    BY <1>12, OwnsUnchanged DEF LeaveIdle, synchVars
  <1>13. ASSUME NEW d \in Devices, Complete(d)
         PROVE  LockInv' /\ [Fifo!Next]_fifoVars
    BY <1>13, SignalLockInv, SynchAssumption DEF Complete
  <1>14. ASSUME UNCHANGED vars
         PROVE  LockInv' /\ [Fifo!Next]_fifoVars
    BY <1>14, OwnsUnchanged DEF vars, schedVars, synchVars
  <1>15. QED
    BY <1>1, <1>2, <1>3, <1>4, <1>5, <1>6, <1>7, <1>8, <1>9, <1>10, <1>11,
       <1>12, <1>13, <1>14 DEF Next

\* For any number of threads and locks, no lock ever has two owners, a lock is
\* BUSY exactly while it has one, and nobody sleeps on a FREE lock, whatever
\* the interleaving of time slices, handovers and interrupts.
THEOREM LocksExclude == Spec => [](MutualExclusion /\ BusyIffOwned)
  <1>1. Init => Placed /\ ValuesOK /\ LockInv
    <2>1. Init => ValuesOK
      BY SynchAssumption DEF Init, ValuesOK
    <2>2. ASSUME Init PROVE \A l \in Locks, t \in Threads : ~ Owns(t, l)
      BY <2>2 DEF Init, SchedInit, Owns
    <2>3. ASSUME Init PROVE LockInv
      BY <2>2, <2>3 DEF Init, Objects, LockInv, MutualExclusion, BusyIffOwned
    <2>4. QED
      BY <2>1, <2>3, InitPlaced
  <1>2. Placed /\ ValuesOK /\ LockInv /\ [Next]_vars => (Placed /\ ValuesOK /\ LockInv)'
    BY NextPlaced, NextLockInv
  <1>3. LockInv => MutualExclusion /\ BusyIffOwned
    BY DEF LockInv
  <1>4. QED
    BY <1>1, <1>2, <1>3, PTL DEF Spec

\* Every lock is a first-come first-served lock, for any number of threads and
\* locks: Acquire takes a free lock or joins the line, Release frees the lock or
\* hands it to the first of the line, and no other step is seen by its clients.
THEOREM LocksAreFifo == Spec => ImplementsFifoLock
  <1>1. Init => Placed /\ ValuesOK /\ LockInv /\ Fifo!Init
    <2> SUFFICES ASSUME Init
                 PROVE  Placed /\ ValuesOK /\ LockInv /\ Fifo!Init
      OBVIOUS
    <2>1. ValuesOK
      BY SynchAssumption DEF Init, ValuesOK
    <2>2. \A l \in Locks, t \in Threads : ~ Owns(t, l)
      BY DEF Init, SchedInit, Owns
    <2>3. LockInv
      BY <2>2 DEF Init, Objects, LockInv, MutualExclusion, BusyIffOwned
    <2>4. \A l \in Locks : Owner(l) = NoThread
      BY <2>2, <2>3, OwnerOwns
    <2>5. Fifo!Init
      BY <2>4 DEF Fifo!Init, Init, Objects
    <2>6. QED
      BY <2>1, <2>3, <2>5, InitPlaced
  <1>2. Placed /\ ValuesOK /\ LockInv /\ [Next]_vars
           => (Placed /\ ValuesOK /\ LockInv)' /\ [Fifo!Next]_fifoVars
    BY NextPlaced, NextLockInv
  <1>3. QED
    BY <1>1, <1>2, PTL DEF Spec, ImplementsFifoLock, Fifo!Spec, fifoVars

-----------------------------------------------------------------------------
(* Semaphores.                                                             *)

WokenIn(s) == {t \in Threads : Woken(t, s)}

WakeupsOK(s) == queue[s] # <<>> => semValue[s] <= Cardinality(WokenIn(s))

LEMMA WokenFinite ==
  ASSUME NEW s
  PROVE  IsFiniteSet(WokenIn(s)) /\ Cardinality(WokenIn(s)) \in Nat
  <1>1. WokenIn(s) \subseteq Threads
    BY DEF WokenIn
  <1>2. IsFiniteSet(Threads)
    BY ThreadAssumption
  <1>3. QED
    BY <1>1, <1>2, FS_Subset, FS_CardinalityType

\* A step that wakes nobody for s, brings nobody back, and adds no value.
LEMMA SameWakeups ==
  ASSUME ValuesOK, ValuesOK', NEW s \in Semaphores, WakeupsOK(s),
         WokenIn(s)' = WokenIn(s),
         semValue'[s] <= semValue[s],
         queue'[s] # <<>> => queue[s] # <<>> \/ semValue'[s] = 0
  PROVE  WakeupsOK(s)'
  <1>1. Cardinality(WokenIn(s)) \in Nat
    BY WokenFinite
  <1>2. semValue[s] \in Nat /\ semValue'[s] \in Nat
    BY DEF ValuesOK
  <1>3. Cardinality(WokenIn(s)') = Cardinality(WokenIn(s))
    OBVIOUS
  <1>4. QED
    BY <1>1, <1>2, <1>3 DEF WakeupsOK

\* Woken depends only on resume, waitsFor and the queue.
LEMMA WokenUnchanged ==
  ASSUME NEW s \in Semaphores, queue'[s] = queue[s],
         \A t \in Threads :
            \/ resume'[t] = resume[t] /\ waitsFor'[t] = waitsFor[t]
            \/ ~ (resume[t] = "P" /\ waitsFor[t] = s) /\ ~ (resume'[t] = "P" /\ waitsFor'[t] = s)
  PROVE  WokenIn(s)' = WokenIn(s)
  <1>1. ASSUME NEW t \in Threads
        PROVE  Woken(t, s)' <=> Woken(t, s)
    BY DEF Woken, Queued
  <1>2. QED
    BY <1>1 DEF WokenIn

\* A step that leaves s and the threads in P of s alone.
LEMMA OtherWakeups ==
  ASSUME ValuesOK, ValuesOK', NEW s \in Semaphores, WakeupsOK(s),
         queue'[s] = queue[s], semValue'[s] <= semValue[s],
         \A t \in Threads :
            \/ resume'[t] = resume[t] /\ waitsFor'[t] = waitsFor[t]
            \/ ~ (resume[t] = "P" /\ waitsFor[t] = s) /\ ~ (resume'[t] = "P" /\ waitsFor'[t] = s)
  PROVE  WakeupsOK(s)'
  BY WokenUnchanged, SameWakeups

\* A queue whose semaphore has no value is in order.
LEMMA NoValueNoWakeup ==
  ASSUME NEW s \in Semaphores, semValue'[s] = 0
  PROVE  WakeupsOK(s)'
  <1>1. (Cardinality(WokenIn(s)) \in Nat)'
    BY WokenFinite, PTL
  <1>2. QED
    BY <1>1 DEF WakeupsOK

SemInv == \A s \in Semaphores : WakeupsOK(s)

\* A thread that waits for s found no value; no other semaphore notices.
LEMMA WaitOnSemaphore ==
  ASSUME Placed, ValuesOK, ValuesOK', SemInv,
         NEW t \in Threads, NEW s \in Semaphores, semValue[s] = 0,
         resume[t] = "P" => waitsFor[t] = s,
         WaitOn(t, s, "P"), UNCHANGED semValue
  PROVE  SemInv'
  <1>1. ASSUME NEW p \in Semaphores
        PROVE  WakeupsOK(p)'
    <2>1. CASE p = s
      BY <2>1, NoValueNoWakeup
    <2>2. CASE p # s
      <3>1. queue'[p] = queue[p]
        BY <2>2 DEF WaitOn, Placed, Objects
      <3>2. ASSUME NEW u \in Threads
            PROVE  \/ resume'[u] = resume[u] /\ waitsFor'[u] = waitsFor[u]
                   \/ /\ ~ (resume[u] = "P" /\ waitsFor[u] = p)
                      /\ ~ (resume'[u] = "P" /\ waitsFor'[u] = p)
        <4>1. CASE u = t
          BY <2>2, <4>1 DEF WaitOn, Sleep, Placed, SchedTypeOK
        <4>2. CASE u # t
          BY <4>2 DEF WaitOn, Sleep, Placed, SchedTypeOK
        <4>3. QED
          BY <4>1, <4>2
      <3>3. semValue'[p] <= semValue[p]
        BY DEF ValuesOK
      <3>4. WakeupsOK(p)
        BY DEF SemInv
      <3>5. QED
        BY <3>1, <3>2, <3>3, <3>4, OtherWakeups
    <2>3. QED
      BY <2>1, <2>2
  <1>2. QED
    BY <1>1 DEF SemInv

\* V adds one value and, if there is a waiter, one woken thread.
LEMMA SignalWakeups ==
  ASSUME Placed, ValuesOK, ValuesOK', SemInv,
         NEW s \in Semaphores, Signal(s), UNCHANGED waitsFor
  PROVE  SemInv'
  <1>1. UNCHANGED resume
    BY DEF Signal, ReadyToRun, schedVars
  <1>2. /\ s \in Objects
        /\ queue[s] \in Seq(Threads)
        /\ Enumerates(queue[s], Sleepers(s))
        /\ WakeupsOK(s)
    BY DEF Objects, Placed, QueuesExact, SemInv
  <1>3. /\ semValue[s] \in Nat
        /\ semValue'[s] = semValue[s] + 1
    BY DEF Signal, ValuesOK
  <1>4. WakeupsOK(s)'
    <2>1. CASE queue[s] = <<>>
      <3>1. queue'[s] = <<>>
        BY <2>1 DEF Signal
      <3>2. QED
        BY <3>1 DEF WakeupsOK
    <2>2. CASE queue[s] # <<>>
      <3> DEFINE h == Head(queue[s])
      <3>1. queue'[s] = Tail(queue[s])
        BY <1>2, <2>2 DEF Signal, Placed
      <3>2. /\ h \in Threads
            /\ h \in Sleepers(s)
            /\ Enumerates(Tail(queue[s]), Sleepers(s) \ {h})
        BY <1>2, <2>2, EnumeratesTail
      <3>3. resume[h] = "P" /\ waitsFor[h] = s
        BY <3>2, SynchAssumption DEF Sleepers, Placed
      <3>4. ToSet(queue[s]) = Sleepers(s) /\ ToSet(queue'[s]) = Sleepers(s) \ {h}
        BY <1>2, <3>1, <3>2 DEF Enumerates
      <3> HIDE DEF h
      <3>5. ASSUME NEW u \in Threads
            PROVE  u \in WokenIn(s)' <=> (u \in WokenIn(s) \/ u = h)
        BY <1>1, <3>2, <3>3, <3>4 DEF WokenIn, Woken, Queued
      <3>6. WokenIn(s) \subseteq Threads /\ WokenIn(s)' \subseteq Threads
        BY DEF WokenIn
      <3>7. WokenIn(s)' = WokenIn(s) \cup {h}
        BY <3>2, <3>5, <3>6
      <3>8. h \notin WokenIn(s)
        BY <3>2, <3>4 DEF WokenIn, Woken, Queued
      <3>9. Cardinality(WokenIn(s)') = Cardinality(WokenIn(s)) + 1
        BY <3>7, <3>8, WokenFinite, FS_AddElement
      <3>10. semValue[s] <= Cardinality(WokenIn(s))
        BY <1>2, <2>2 DEF WakeupsOK
      <3>11. semValue'[s] <= Cardinality(WokenIn(s)')
        BY <1>3, <3>9, <3>10, WokenFinite
      <3>12. QED
        BY <3>11 DEF WakeupsOK
    <2>3. QED
      BY <2>1, <2>2
  <1>5. ASSUME NEW p \in Semaphores, p # s
        PROVE  WakeupsOK(p)'
    <2>1. queue'[p] = queue[p]
      BY <1>5 DEF Signal, Placed, Objects
    <2>2. semValue'[p] <= semValue[p]
      BY <1>5 DEF Signal, ValuesOK
    <2>3. WakeupsOK(p)
      BY DEF SemInv
    <2>4. QED
      BY <1>1, <2>1, <2>2, <2>3, OtherWakeups
  <1>6. QED
    BY <1>4, <1>5 DEF SemInv

\* The value a woken thread takes back is the one it was woken for.
LEMMA ResumePWakeups ==
  ASSUME Placed, ValuesOK, ValuesOK', SemInv, NEW t \in Threads, ResumeP(t)
  PROVE  SemInv'
  <1> DEFINE s == waitsFor[t]
  <1>1. s \in Semaphores /\ s \in Objects
    BY DEF ResumeP, Placed, Objects
  <1>2. CASE semValue[s] = 0 /\ WaitOn(t, s, "P") /\ UNCHANGED semValue
    BY <1>1, <1>2, WaitOnSemaphore
  <1>3. CASE /\ semValue[s] > 0
             /\ semValue' = [semValue EXCEPT ![s] = @ - 1]
             /\ resume' = [resume EXCEPT ![t] = "None"]
             /\ waitsFor' = [waitsFor EXCEPT ![t] = NoObject]
             /\ UNCHANGED queue
    <2>1. t \notin ToSet(queue[s])
      BY <1>1 DEF ResumeP, Resumed, Placed, QueuesExact, Enumerates, Sleepers
    <2>2. t \in WokenIn(s)
      BY <2>1 DEF ResumeP, WokenIn, Woken, Queued
    <2>3. ASSUME NEW p \in Semaphores
          PROVE  WakeupsOK(p)'
      <3>1. CASE p = s
        <4>1. WokenIn(p) \subseteq Threads /\ WokenIn(p)' \subseteq Threads
          BY DEF WokenIn
        <4>2. WokenIn(p)' = WokenIn(p) \ {t}
          <5> HIDE DEF s
          <5>1. ASSUME NEW u \in Threads
                PROVE  u \in WokenIn(p)' <=> (u \in WokenIn(p) /\ u # t)
            <6>1. /\ \A v \in Threads : resume'[v] = IF v = t THEN "None" ELSE resume[v]
                  /\ \A v \in Threads : v # t => waitsFor'[v] = waitsFor[v]
              BY <1>3 DEF Placed, SchedTypeOK
            <6>2. queue' = queue
              BY <1>3
            <6>3. QED
              BY <6>1, <6>2 DEF WokenIn, Woken, Queued
          <5>2. QED
            BY <4>1, <5>1
        <4>3. Cardinality(WokenIn(p)') = Cardinality(WokenIn(p)) - 1
          <5>1. t \in WokenIn(p)
            BY <2>2, <3>1
          <5>2. QED
            BY <4>2, <5>1, WokenFinite, FS_RemoveElement
        <4>4. /\ semValue[p] \in Nat
              /\ semValue'[p] = semValue[p] - 1
          BY <1>1, <1>3, <3>1 DEF ValuesOK
        <4>5. WakeupsOK(p) /\ queue' = queue
          BY <1>3 DEF SemInv
        <4>6. QED
          BY <4>3, <4>4, <4>5, WokenFinite DEF WakeupsOK
      <3>2. CASE p # s
        <4>1. queue'[p] = queue[p] /\ semValue'[p] <= semValue[p]
          BY <1>1, <1>3, <3>2 DEF ValuesOK
        <4>2. ASSUME NEW u \in Threads
              PROVE  \/ resume'[u] = resume[u] /\ waitsFor'[u] = waitsFor[u]
                     \/ /\ ~ (resume[u] = "P" /\ waitsFor[u] = p)
                        /\ ~ (resume'[u] = "P" /\ waitsFor'[u] = p)
          <5>1. CASE u = t
            BY <1>3, <3>2, <5>1 DEF Placed, SchedTypeOK
          <5>2. CASE u # t
            BY <1>3, <5>2 DEF Placed, SchedTypeOK
          <5>3. QED
            BY <5>1, <5>2
        <4>3. WakeupsOK(p)
          BY DEF SemInv
        <4>4. QED
          BY <4>1, <4>2, <4>3, OtherWakeups
      <3>3. QED
        BY <3>1, <3>2
    <2>4. QED
      BY <2>3 DEF SemInv
  <1>4. QED
    BY <1>2, <1>3 DEF ResumeP

\* A step that moves no thread into or out of P and touches no semaphore.
LEMMA SemaphoresUntouched ==
  ASSUME ValuesOK, ValuesOK', SemInv,
         \A s \in Semaphores : queue'[s] = queue[s] /\ semValue'[s] = semValue[s],
         \A t \in Threads : \/ resume'[t] = resume[t] /\ waitsFor'[t] = waitsFor[t]
                            \/ resume[t] # "P" /\ resume'[t] # "P"
  PROVE  SemInv'
  <1>1. ASSUME NEW s \in Semaphores
        PROVE  WakeupsOK(s)'
    <2>1. semValue'[s] <= semValue[s] /\ WakeupsOK(s)
      BY DEF ValuesOK, SemInv
    <2>2. QED
      BY <2>1, OtherWakeups
  <1>2. QED
    BY <1>1 DEF SemInv

LEMMA NextSemInv ==
  ASSUME Placed, ValuesOK, ValuesOK', SemInv, [Next]_vars
  PROVE  SemInv'
  <1>1. ASSUME NEW t \in Threads, NEW u \in Threads, Fork(t, u), UNCHANGED synchVars
        PROVE  SemInv'
    <2>1. resume[u] # "P" /\ \A v \in Threads : resume'[v] = IF v = u THEN "Root" ELSE resume[v]
      BY <1>1 DEF Fork, Placed, SchedTypeOK
    <2>2. QED
      BY <1>1, <2>1, SemaphoresUntouched DEF synchVars
  <1>2. ASSUME NEW t \in Threads, Yield(t), UNCHANGED synchVars
        PROVE  SemInv'
    <2>1. resume[t] # "P" /\ \A v \in Threads : resume'[v] = IF v = t THEN "Yield" ELSE resume[v]
      BY <1>2 DEF Yield, Executing, Placed, SchedTypeOK
    <2>2. QED
      BY <1>2, <2>1, SemaphoresUntouched DEF synchVars
  <1>3. ASSUME NEW t \in Threads, EnableInterrupts(t), UNCHANGED synchVars
        PROVE  SemInv'
    <2>1. resume[t] # "P" /\ \A v \in Threads : resume'[v] = IF v = t THEN "None" ELSE resume[v]
      BY <1>3 DEF EnableInterrupts, Placed, SchedTypeOK
    <2>2. QED
      BY <1>3, <2>1, SemaphoresUntouched DEF synchVars
  <1>4. ASSUME NEW t \in Threads, End(t)
        PROVE  SemInv'
    <2>1. resume[t] # "P" /\ \A v \in Threads : resume'[v] = IF v = t THEN "Finish" ELSE resume[v]
      BY <1>4 DEF End, Finish, Executing, Placed, SchedTypeOK
    <2>2. QED
      BY <1>4, <2>1, SemaphoresUntouched DEF End, synchVars
  <1>5. ASSUME NEW t \in Threads, NEW s \in Semaphores, P(t, s)
        PROVE  SemInv'
    <2>1. CASE /\ semValue[s] > 0
               /\ semValue' = [semValue EXCEPT ![s] = @ - 1]
               /\ UNCHANGED <<schedVars, queue, waitsFor>>
      <3>1. ASSUME NEW p \in Semaphores
            PROVE  WakeupsOK(p)'
        <4>1. semValue'[p] <= semValue[p] /\ WakeupsOK(p)
          BY <2>1 DEF ValuesOK, SemInv
        <4>2. QED
          BY <2>1, <4>1, OtherWakeups DEF schedVars
      <3>2. QED
        BY <3>1 DEF SemInv
    <2>2. CASE semValue[s] = 0 /\ WaitOn(t, s, "P") /\ UNCHANGED semValue
      <3>1. resume[t] # "P"
        BY <1>5 DEF P, Executing
      <3>2. QED
        BY <2>2, <3>1, WaitOnSemaphore
    <2>3. QED
      BY <1>5, <2>1, <2>2 DEF P
  <1>6. ASSUME NEW t \in Threads, NEW s \in Semaphores, V(t, s)
        PROVE  SemInv'
    BY <1>6, SignalWakeups DEF V
  <1>7. ASSUME NEW t \in Threads, ResumeP(t)
        PROVE  SemInv'
    BY <1>7, ResumePWakeups
  <1>8. ASSUME NEW t \in Threads, NEW l \in Locks, Acquire(t, l)
        PROVE  SemInv'
    <2>1. CASE UNCHANGED <<schedVars, queue, waitsFor>>
      BY <1>8, <2>1, SemaphoresUntouched DEF Acquire, schedVars
    <2>2. CASE WaitOn(t, l, "Acquire")
      <3>1. \A s \in Semaphores : queue'[s] = queue[s]
        BY <2>2, SynchAssumption DEF WaitOn, Placed, Objects
      <3>2. /\ resume[t] # "P"
            /\ \A v \in Threads : resume'[v] = IF v = t THEN "Acquire" ELSE resume[v]
            /\ \A v \in Threads : v # t => waitsFor'[v] = waitsFor[v]
        BY <1>8, <2>2 DEF Acquire, Executing, WaitOn, Sleep, Placed, SchedTypeOK
      <3>3. QED
        BY <1>8, <3>1, <3>2, SemaphoresUntouched DEF Acquire
    <2>3. QED
      BY <1>8, <2>1, <2>2 DEF Acquire
  <1>9. ASSUME NEW t \in Threads, NEW l \in Locks, Release(t, l)
        PROVE  SemInv'
    <2>1. \A s \in Semaphores : queue'[s] = queue[s]
      BY <1>9, SynchAssumption DEF Release, Placed, Objects
    <2>2. UNCHANGED resume
      BY <1>9 DEF Release, ReadyToRun, schedVars
    <2>3. QED
      BY <1>9, <2>1, <2>2, SemaphoresUntouched DEF Release
  <1>10. ASSUME NEW t \in Threads, ResumeAcquire(t)
         PROVE  SemInv'
    <2>1. /\ resume[t] # "P"
          /\ \A v \in Threads : resume'[v] = IF v = t THEN "None" ELSE resume[v]
          /\ \A v \in Threads : v # t => waitsFor'[v] = waitsFor[v]
      BY <1>10 DEF ResumeAcquire, Placed, SchedTypeOK
    <2>2. QED
      BY <1>10, <2>1, SemaphoresUntouched DEF ResumeAcquire
  <1>11. ASSUME NEW t \in Threads, NEW d \in Devices, Request(t, d)
         PROVE  SemInv'
    BY <1>11, SemaphoresUntouched DEF Request, schedVars
  <1>12. ASSUME LeaveIdle, UNCHANGED synchVars
         PROVE  SemInv'
    BY <1>12, SemaphoresUntouched DEF LeaveIdle, synchVars
  <1>13. ASSUME NEW d \in Devices, Complete(d)
         PROVE  SemInv'
    BY <1>13, SignalWakeups, SynchAssumption DEF Complete
  <1>14. ASSUME UNCHANGED vars
         PROVE  SemInv'
    BY <1>14, SemaphoresUntouched DEF vars, schedVars, synchVars
  <1>15. QED
    BY <1>1, <1>2, <1>3, <1>4, <1>5, <1>6, <1>7, <1>8, <1>9, <1>10, <1>11,
       <1>12, <1>13, <1>14 DEF Next

\* For any number of threads and semaphores, no thread ever sleeps in P while
\* its semaphore has a value that no woken thread is about to take.
THEOREM NoWakeupLost == Spec => []NoLostWakeup
  <1>1. Init => Placed /\ ValuesOK /\ SemInv
    <2>1. Init => ValuesOK
      BY SynchAssumption DEF Init, ValuesOK
    <2>2. Init => SemInv
      BY DEF Init, Objects, SemInv, WakeupsOK
    <2>3. QED
      BY <2>1, <2>2, InitPlaced
  <1>2. Placed /\ ValuesOK /\ SemInv /\ [Next]_vars => (Placed /\ ValuesOK /\ SemInv)'
    BY NextPlaced, NextSemInv
  <1>3. SemInv => NoLostWakeup
    BY DEF SemInv, WakeupsOK, WokenIn, NoLostWakeup
  <1>4. QED
    BY <1>1, <1>2, <1>3, PTL DEF Spec
=============================================================================
