---------------------------- MODULE SchedulerProofs ----------------------------
(***************************************************************************)
(* Lemmas about the scheduler's lists and about Switch, for the proofs of  *)
(* the modules that are built on Scheduler.                                *)
(***************************************************************************)
EXTENDS Scheduler, SequenceTheorems, TLAPS

\* The empty list enumerates the empty set.
LEMMA EnumeratesEmpty == Enumerates(<<>>, {})
  BY DEF Enumerates, ToSet, IsInjective

\* List::Append of a thread that is not on the list.
LEMMA EnumeratesAppend ==
  ASSUME NEW S, NEW s \in Seq(Threads), Enumerates(s, S),
         NEW t \in Threads, t \notin S
  PROVE  /\ Append(s, t) \in Seq(Threads)
         /\ Append(s, t) # <<>>
         /\ Enumerates(Append(s, t), S \cup {t})
  <1>1. /\ Append(s, t) \in Seq(Threads)
        /\ Len(Append(s, t)) = Len(s) + 1
        /\ \A i \in 1..Len(s) : Append(s, t)[i] = s[i]
        /\ Append(s, t)[Len(s) + 1] = t
        /\ DOMAIN s = 1..Len(s)
        /\ DOMAIN Append(s, t) = 1..(Len(s) + 1)
        /\ Len(s) \in Nat
    OBVIOUS
  <1>2. ToSet(Append(s, t)) = S \cup {t}
    BY <1>1 DEF Enumerates, ToSet
  <1>3. IsInjective(Append(s, t))
    BY <1>1 DEF Enumerates, ToSet, IsInjective
  <1>4. QED
    BY <1>1, <1>2, <1>3 DEF Enumerates

\* List::Remove takes the first thread and leaves the others.
LEMMA EnumeratesTail ==
  ASSUME NEW S, NEW s \in Seq(Threads), Enumerates(s, S), s # <<>>
  PROVE  /\ Head(s) \in Threads
         /\ Head(s) \in S
         /\ Tail(s) \in Seq(Threads)
         /\ Enumerates(Tail(s), S \ {Head(s)})
  <1>1. /\ Head(s) = s[1]
        /\ Head(s) \in Threads
        /\ Tail(s) \in Seq(Threads)
        /\ Len(s) \in Nat \ {0}
        /\ Len(Tail(s)) = Len(s) - 1
        /\ \A i \in 1..(Len(s) - 1) : Tail(s)[i] = s[i + 1]
        /\ DOMAIN s = 1..Len(s)
        /\ DOMAIN Tail(s) = 1..(Len(s) - 1)
    BY HeadTailProperties, LenProperties, EmptySeq
  <1>2. Head(s) \in S
    BY <1>1 DEF Enumerates, ToSet
  <1>3. ToSet(Tail(s)) = S \ {Head(s)}
    <2>1. ASSUME NEW i \in 1..(Len(s) - 1)
          PROVE  Tail(s)[i] \in S \ {Head(s)}
      BY <1>1 DEF Enumerates, ToSet, IsInjective
    <2>2. ASSUME NEW u \in S, u # Head(s)
          PROVE  \E i \in 1..(Len(s) - 1) : Tail(s)[i] = u
      <3>1. PICK j \in 1..Len(s) : s[j] = u
        BY <1>1 DEF Enumerates, ToSet
      <3>2. j - 1 \in 1..(Len(s) - 1) /\ Tail(s)[j - 1] = u
        BY <1>1, <2>2, <3>1
      <3>3. QED
        BY <3>2
    <2>3. ToSet(Tail(s)) = {Tail(s)[i] : i \in 1..(Len(s) - 1)}
      BY <1>1 DEF ToSet
    <2>4. \A u : u \in ToSet(Tail(s)) <=> u \in S \ {Head(s)}
      BY <2>1, <2>2, <2>3
    <2>5. QED
      BY <2>4
  <1>4. IsInjective(Tail(s))
    BY <1>1 DEF Enumerates, IsInjective
  <1>5. QED
    BY <1>1, <1>2, <1>3, <1>4 DEF Enumerates

-----------------------------------------------------------------------------

\* What a thread finds after Switch: the lists and statuses still agree, only
\* the current thread can be running, and no blocked thread has moved except
\* the dead one.
LEMMA SwitchPreserves ==
  ASSUME NEW st \in [Threads -> Status],
         NEW rl \in Seq(Threads),
         NEW dead \in Threads \cup {NoThread},
         currentThread \in Threads,
         st[currentThread] # "NONE",
         \A t \in Threads : st[t] # "RUNNING",
         Enumerates(rl, {t \in Threads : st[t] = "READY"}),
         dead # NoThread => st[dead] = "BLOCKED",
         Switch(st, rl, dead)
  PROVE  /\ status' \in [Threads -> Status]
         /\ currentThread' \in Threads
         /\ readyList' \in Seq(Threads)
         /\ threadToBeDestroyed' \in {dead, NoThread}
         /\ threadToBeDestroyed' # NoThread => status'[threadToBeDestroyed'] = "BLOCKED"
         /\ ReadyListExact'
         /\ OneRunning'
         /\ \A t \in Threads :
               /\ status'[t] = "BLOCKED" => st[t] = "BLOCKED"
               /\ st[t] = "BLOCKED" => status'[t] = "BLOCKED" \/ t = dead
               /\ status'[t] = "NONE" => st[t] = "NONE" \/ t = dead
               /\ st[t] = "NONE" => status'[t] = "NONE"
               /\ t = dead => status'[t] \in {"BLOCKED", "NONE"}
  <1>0. NoThread \notin Threads
    BY ThreadAssumption
  <1>1. CASE rl = <<>>
    <2>1. /\ status' = st
          /\ readyList' = rl
          /\ threadToBeDestroyed' = dead
          /\ currentThread' = currentThread
      BY <1>1 DEF Switch
    <2>2. QED
      BY <1>0, <2>1, Zenon DEF ReadyListExact, OneRunning
  <1>2. CASE rl # <<>>
    <2> DEFINE next == Head(rl)
               deletes == resume[next] # "Root"
               Ready == {t \in Threads : st[t] = "READY"}
    <2>1. /\ next \in Ready
          /\ Tail(rl) \in Seq(Threads)
          /\ Enumerates(Tail(rl), Ready \ {next})
      BY <1>2, EnumeratesTail
    <2> HIDE DEF next, deletes
    <2>2. /\ currentThread' = next
          /\ readyList' = Tail(rl)
          /\ status' = [u \in Threads |->
                           CASE u = next -> "RUNNING"
                             [] u = dead /\ deletes -> "NONE"
                             [] OTHER -> st[u]]
          /\ threadToBeDestroyed' = IF deletes THEN NoThread ELSE dead
      BY <1>2, Zenon DEF Switch, next, deletes
    <2>3. next # dead
      BY <1>0, <2>1
    <2>4. /\ status' \in [Threads -> Status]
          /\ status'[next] = "RUNNING"
          /\ \A t \in Threads \ {next} :
                status'[t] = IF t = dead /\ deletes THEN "NONE" ELSE st[t]
      BY <2>1, <2>2, <2>3 DEF Status
    <2>5. {t \in Threads : status'[t] = "READY"} = Ready \ {next}
      BY <1>0, <2>1, <2>3, <2>4
    <2>6. ReadyListExact'
      BY <2>1, <2>2, <2>5 DEF ReadyListExact
    <2>7. OneRunning'
      BY <2>1, <2>2, <2>3, <2>4 DEF OneRunning
    <2>8. threadToBeDestroyed' # NoThread => status'[threadToBeDestroyed'] = "BLOCKED"
      BY <1>0, <2>2, <2>3, <2>4
    <2>9. \A t \in Threads :
             /\ status'[t] = "BLOCKED" => st[t] = "BLOCKED"
             /\ st[t] = "BLOCKED" => status'[t] = "BLOCKED" \/ t = dead
             /\ status'[t] = "NONE" => st[t] = "NONE" \/ t = dead
             /\ st[t] = "NONE" => status'[t] = "NONE"
             /\ t = dead => status'[t] \in {"BLOCKED", "NONE"}
      BY <1>0, <2>1, <2>3, <2>4
    <2>10. QED
      BY <2>1, <2>2, <2>4, <2>6, <2>7, <2>8, <2>9
  <1>3. QED
    BY <1>1, <1>2

\* ReadyToRun of a sleeping or a new thread.
LEMMA ReadyToRunPreserves ==
  ASSUME NEW t \in Threads,
         status \in [Threads -> Status],
         readyList \in Seq(Threads),
         status[t] \in {"BLOCKED", "NONE"},
         ReadyListExact,
         OneRunning,
         currentThread' = currentThread,
         status' = [status EXCEPT ![t] = "READY"],
         readyList' = Append(readyList, t)
  PROVE  /\ status' \in [Threads -> Status]
         /\ readyList' \in Seq(Threads)
         /\ ReadyListExact'
         /\ OneRunning'
  <1> DEFINE Ready == {u \in Threads : status[u] = "READY"}
  <1>1. /\ readyList' \in Seq(Threads)
        /\ Enumerates(readyList', Ready \cup {t})
    BY EnumeratesAppend DEF ReadyListExact
  <1>2. /\ status' \in [Threads -> Status]
        /\ {u \in Threads : status'[u] = "READY"} = Ready \cup {t}
    BY DEF Status
  <1>3. ReadyListExact'
    BY <1>1, <1>2 DEF ReadyListExact
  <1>4. OneRunning'
    BY <1>2 DEF OneRunning
  <1>5. QED
    BY <1>1, <1>2, <1>3, <1>4
=============================================================================
