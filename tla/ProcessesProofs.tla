---------------------------- MODULE ProcessesProofs ----------------------------
(***************************************************************************)
(* Proofs about Processes: the list of processes is exact, Exit wakes only *)
(* the thread that joined the process, and Join returns when its program   *)
(* has finished, for any number of threads and processes.                  *)
(***************************************************************************)
EXTENDS Processes, SchedulerProofs, WellFoundedInduction

(* Induction over the natural numbers and definition by recursion, stated  *)
(* for sets and functions.                                                 *)

LEMMA NatSetInduction ==
  ASSUME NEW S, 0 \in S, \A n \in Nat : n \in S => n + 1 \in S
  PROVE  Nat \subseteq S
  <1> DEFINE T == Nat \ S
             R == OpToRel(<, Nat)
  <1>1. SUFFICES ASSUME T # {} PROVE FALSE
    OBVIOUS
  <1>2. IsWellFoundedOn(R, Nat)
    BY NatLessThanWellFounded
  <1>3. PICK x \in T : \A y \in T : ~ (<<y, x>> \in R)
    <2> HIDE DEF R
    <2> QED
      BY <1>1, <1>2, WFMin
  <1>4. <<x - 1, x>> \in R
    <2>1. x \in Nat /\ x - 1 \in Nat
      <3> HIDE DEF R
      <3> QED
        OBVIOUS
    <2>2. QED
      BY <2>1 DEF OpToRel
  <1> HIDE DEF R
  <1>5. x - 1 \in T
    OBVIOUS
  <1>6. QED
    BY <1>3, <1>4, <1>5

\* The first n values of a sequence that starts with base and continues with the
\* functions step[0], step[1], ...
Beginnings(T, base, step, n) ==
    {g \in [0 .. n -> T] : g[0] = base /\ \A k \in 0 .. n - 1 : g[k + 1] = step[k][g[k]]}

LEMMA BeginningsExist ==
  ASSUME NEW T, NEW base \in T, NEW step \in [Nat -> [T -> T]]
  PROVE  \A n \in Nat : Beginnings(T, base, step, n) # {}
  <1> DEFINE S == {n \in Nat : Beginnings(T, base, step, n) # {}}
  <1>1. 0 \in S
    <2>1. [k \in 0 .. 0 |-> base] \in Beginnings(T, base, step, 0)
      BY DEF Beginnings
    <2>2. QED
      BY <2>1
  <1>2. ASSUME NEW n \in Nat, n \in S
        PROVE  n + 1 \in S
    <2>1. PICK g \in Beginnings(T, base, step, n) : TRUE
      BY <1>2
    <2>2. /\ g \in [0 .. n -> T]
          /\ g[0] = base
          /\ \A k \in 0 .. n - 1 : g[k + 1] = step[k][g[k]]
      BY <2>1 DEF Beginnings
    <2> DEFINE h == [k \in 0 .. n + 1 |-> IF k = n + 1 THEN step[n][g[n]] ELSE g[k]]
    <2>3. h \in [0 .. n + 1 -> T]
      BY <2>2
    <2>4. \A k \in 0 .. n : h[k + 1] = step[k][h[k]]
      <3>1. ASSUME NEW k \in 0 .. n
            PROVE  h[k + 1] = step[k][h[k]]
        <4>1. CASE k = n
          BY <4>1
        <4>2. CASE k < n
          BY <2>2, <4>2
        <4>3. QED
          BY <4>1, <4>2
      <3>2. QED
        BY <3>1
    <2>5. h[0] = base
      BY <2>2
    <2> HIDE DEF h
    <2>6. h \in Beginnings(T, base, step, n + 1)
      BY <2>3, <2>4, <2>5 DEF Beginnings
    <2>7. QED
      BY <2>6
  <1>3. Nat \subseteq S
    <2> HIDE DEF S
    <2> QED
      BY <1>1, <1>2, NatSetInduction
  <1>4. QED
    BY <1>3

LEMMA BeginningsAgree ==
  ASSUME NEW T, NEW base \in T, NEW step \in [Nat -> [T -> T]],
         NEW m \in Nat, NEW n \in Nat,
         NEW g \in Beginnings(T, base, step, m), NEW h \in Beginnings(T, base, step, n)
  PROVE  \A k \in Nat : k <= m /\ k <= n => g[k] = h[k]
  <1> DEFINE S == {k \in Nat : k <= m /\ k <= n => g[k] = h[k]}
  <1>1. 0 \in S
    BY DEF Beginnings
  <1>2. ASSUME NEW k \in Nat, k \in S
        PROVE  k + 1 \in S
    <2>1. SUFFICES ASSUME k + 1 <= m, k + 1 <= n
                   PROVE  g[k + 1] = h[k + 1]
      OBVIOUS
    <2>2. g[k] = h[k]
      BY <1>2, <2>1
    <2>3. k \in 0 .. m - 1 /\ k \in 0 .. n - 1
      BY <2>1
    <2>4. QED
      BY <2>2, <2>3 DEF Beginnings
  <1>3. Nat \subseteq S
    <2> HIDE DEF S
    <2> QED
      BY <1>1, <1>2, NatSetInduction
  <1>4. QED
    BY <1>3

\* the sequences that start with base and continue so for ever
Recursions(T, base, step) ==
    {f \in [Nat -> T] : f[0] = base /\ \A n \in Nat : f[n + 1] = step[n][f[n]]}

LEMMA RecursionExists ==
  ASSUME NEW T, NEW base \in T, NEW step \in [Nat -> [T -> T]]
  PROVE  Recursions(T, base, step) # {}
  <1> DEFINE B(n) == CHOOSE g : g \in Beginnings(T, base, step, n)
             f == [n \in Nat |-> B(n)[n]]
  <1>1. \A n \in Nat : B(n) \in Beginnings(T, base, step, n)
    <2> TAKE n \in Nat
    <2>1. PICK g : g \in Beginnings(T, base, step, n)
      BY BeginningsExist
    <2>2. QED
      BY <2>1, Zenon
  <1> HIDE DEF B
  <1>2. f \in [Nat -> T]
    <2>1. ASSUME NEW n \in Nat PROVE B(n)[n] \in T
      <3>1. B(n) \in [0 .. n -> T]
        BY <1>1 DEF Beginnings
      <3>2. QED
        BY <3>1
    <2>2. QED
      BY <2>1
  <1>3. f[0] = base
    BY <1>1 DEF Beginnings
  <1>4. ASSUME NEW n \in Nat
        PROVE  f[n + 1] = step[n][f[n]]
    <2>1. /\ B(n) \in Beginnings(T, base, step, n)
          /\ B(n + 1) \in Beginnings(T, base, step, n + 1)
      BY <1>1
    <2>2. B(n)[n] = B(n + 1)[n]
      BY <2>1, BeginningsAgree
    <2>3. B(n + 1)[n + 1] = step[n][B(n + 1)[n]]
      <3>1. n \in 0 .. (n + 1) - 1
        OBVIOUS
      <3>2. QED
        BY <2>1, <3>1 DEF Beginnings
    <2>4. QED
      BY <2>2, <2>3
  <1> HIDE DEF f
  <1>5. QED
    BY <1>2, <1>3, <1>4 DEF Recursions

-----------------------------------------------------------------------------
(* The loop of Finish over activeThreads.                                  *)

\* The values of the list as the loop runs.
LEMMA LoopRuns ==
  ASSUME NEW t \in Threads, NEW s \in Seq(Threads)
  PROVE  \E f \in [Nat -> Seq(Threads)] :
            /\ f[0] = s
            /\ \A k \in Nat : f[k + 1] = Turn(t, k, f[k])
            /\ Without(t, s) = f[Len(s)]
  <1> DEFINE Body(f) == [k \in Nat |-> IF k = 0 THEN s ELSE Turn(t, k - 1, f[k - 1])]
             step == [k \in Nat |-> [l \in Seq(Threads) |-> Turn(t, k, l)]]
  <1>1. ASSUME NEW k \in Nat, NEW l \in Seq(Threads)
        PROVE  Turn(t, k, l) \in Seq(Threads)
    <2>1. CASE k >= Len(l)
      BY <2>1 DEF Turn
    <2>2. CASE k < Len(l)
      <3>1. l # <<>>
        BY <2>2
      <3>2. Head(l) \in Threads /\ Tail(l) \in Seq(Threads)
        BY <3>1, HeadTailProperties
      <3>3. QED
        BY <3>2 DEF Turn
    <2>3. QED
      BY <2>1, <2>2
  <1>2. step \in [Nat -> [Seq(Threads) -> Seq(Threads)]]
    BY <1>1
  <1>3. \A k \in Nat, l \in Seq(Threads) : step[k][l] = Turn(t, k, l)
    OBVIOUS
  <1> HIDE DEF step
  <1>4. PICK f \in [Nat -> Seq(Threads)] :
           /\ f[0] = s
           /\ \A k \in Nat : f[k + 1] = step[k][f[k]]
    <2> DEFINE T == Seq(Threads)
    <2>1. s \in T /\ step \in [Nat -> [T -> T]]
      BY <1>2
    <2> HIDE DEF T
    <2>2. PICK f \in Recursions(T, s, step) : TRUE
      BY <2>1, RecursionExists
    <2>3. QED
      BY <2>2 DEF T, Recursions
  <1>5. \A k \in Nat : f[k + 1] = Turn(t, k, f[k])
    BY <1>3, <1>4
  <1>6. f = Body(f)
    <2>1. ASSUME NEW k \in Nat
          PROVE  f[k] = IF k = 0 THEN s ELSE Turn(t, k - 1, f[k - 1])
      <3>1. CASE k = 0
        BY <1>4, <3>1
      <3>2. CASE k # 0
        <4>1. k - 1 \in Nat /\ k = (k - 1) + 1
          BY <3>2
        <4>2. QED
          BY <1>5, <3>2, <4>1
      <3>3. QED
        BY <3>1, <3>2
    <2>2. QED
      BY <2>1
  <1> DEFINE After == CHOOSE g : g = Body(g)
  <1>7. After = Body(After)
    <2> HIDE DEF Body
    <2> QED
      BY <1>6, Zenon
  <1>8. Without(t, s) = After[Len(s)]
    BY Zenon DEF Without
  <1> HIDE DEF After
  <1>9. \A k \in Nat : After[k] = f[k]
    <2> DEFINE S == {k \in Nat : After[k] = f[k]}
    <2>1. 0 \in S
      BY <1>4, <1>7
    <2>2. ASSUME NEW k \in Nat, k \in S
          PROVE  k + 1 \in S
      <3>1. After[k + 1] = Turn(t, k, After[k])
        <4>1. After[k + 1] = Turn(t, (k + 1) - 1, After[(k + 1) - 1])
          <5>1. k + 1 \in Nat /\ k + 1 # 0
            OBVIOUS
          <5>2. QED
            BY <1>7, <5>1, Zenon
        <4>2. (k + 1) - 1 = k
          OBVIOUS
        <4>3. QED
          BY <4>1, <4>2
      <3>2. Turn(t, k, After[k]) = Turn(t, k, f[k])
        BY <2>2, Zenon
      <3>3. f[k + 1] = Turn(t, k, f[k])
        BY <1>5
      <3>4. After[k + 1] = f[k + 1]
        BY <3>1, <3>2, <3>3, Zenon
      <3>5. QED
        BY <3>4
    <2>3. Nat \subseteq S
      <3> HIDE DEF S
      <3> QED
        BY <2>1, <2>2, NatSetInduction
    <2>4. QED
      BY <2>3
  <1>10. Len(s) \in Nat
    OBVIOUS
  <1>11. QED
    BY <1>4, <1>5, <1>8, <1>9, <1>10

\* A turn of the loop that only rotates the list.
LEMMA RotateEnumerates ==
  ASSUME NEW S, NEW s \in Seq(Threads), Enumerates(s, S), s # <<>>
  PROVE  /\ Append(Tail(s), Head(s)) \in Seq(Threads)
         /\ Enumerates(Append(Tail(s), Head(s)), S)
         /\ Len(Append(Tail(s), Head(s))) = Len(s)
         /\ \A i \in 1 .. Len(s) - 1 : Append(Tail(s), Head(s))[i] = s[i + 1]
  <1>1. /\ Head(s) \in Threads
        /\ Head(s) \in S
        /\ Tail(s) \in Seq(Threads)
        /\ Enumerates(Tail(s), S \ {Head(s)})
    BY EnumeratesTail
  <1>2. /\ Append(Tail(s), Head(s)) \in Seq(Threads)
        /\ Enumerates(Append(Tail(s), Head(s)), (S \ {Head(s)}) \cup {Head(s)})
    <2> DEFINE h == Head(s)
               r == Tail(s)
               U == S \ {Head(s)}
    <2>1. h \in Threads /\ h \notin U /\ r \in Seq(Threads) /\ Enumerates(r, U)
      BY <1>1
    <2> HIDE DEF h, r, U
    <2>2. Append(r, h) \in Seq(Threads) /\ Enumerates(Append(r, h), U \cup {h})
      BY <2>1, EnumeratesAppend
    <2>3. QED
      BY <2>2 DEF h, r, U
  <1>3. (S \ {Head(s)}) \cup {Head(s)} = S
    BY <1>1
  <1>4. /\ Len(Tail(s)) = Len(s) - 1
        /\ \A i \in 1 .. Len(s) - 1 : Tail(s)[i] = s[i + 1]
        /\ Len(s) \in Nat
    BY HeadTailProperties
  <1>5. /\ Len(Append(Tail(s), Head(s))) = Len(s)
        /\ \A i \in 1 .. Len(s) - 1 : Append(Tail(s), Head(s))[i] = s[i + 1]
    BY <1>1, <1>4
  <1>6. QED
    BY <1>2, <1>3, <1>5

\* What holds of the list l of the threads S, once n long, after k turns of the
\* loop: t is off the list, or it is not among the last k threads, those that the
\* turns have already put back.
LoopInv(t, S, n, k, l) ==
    \/ Enumerates(l, S \ {t})
    \/ /\ Enumerates(l, S)
       /\ Len(l) = n
       /\ \E i \in 1 .. n - k : l[i] = t

LEMMA TurnKeepsLoopInv ==
  ASSUME NEW S, NEW t \in Threads, NEW n \in Nat, NEW k \in Nat, k < n,
         NEW l \in Seq(Threads), LoopInv(t, S, n, k, l)
  PROVE  LoopInv(t, S, n, k + 1, Turn(t, k, l))
  <1>1. CASE k >= Len(l)
    <2>1. Turn(t, k, l) = l
      BY <1>1 DEF Turn
    <2>2. Len(l) # n
      BY <1>1
    <2>3. QED
      BY <2>1, <2>2, Zenon DEF LoopInv
  <1>2. CASE k < Len(l)
    <2>1. /\ l # <<>>
          /\ Head(l) = l[1]
          /\ Len(l) \in Nat
      BY <1>2, HeadTailProperties, LenProperties, EmptySeq
    <2>2. CASE Head(l) = t
      <3>1. Turn(t, k, l) = Tail(l)
        BY <1>2, <2>2 DEF Turn
      <3>2. CASE Enumerates(l, S)
        <4>1. Enumerates(Tail(l), S \ {t})
          BY <2>1, <2>2, <3>2, EnumeratesTail
        <4>2. QED
          BY <3>1, <4>1, Zenon DEF LoopInv
      <3>3. CASE Enumerates(l, S \ {t})
        <4> DEFINE U == S \ {t}
        <4>1. Enumerates(l, U) /\ t \notin U
          BY <3>3
        <4> HIDE DEF U
        <4>2. FALSE
          BY <2>1, <2>2, <4>1, EnumeratesTail
        <4>3. QED
          BY <4>2
      <3>4. QED
        BY <3>2, <3>3 DEF LoopInv
    <2>3. CASE Head(l) # t
      <3>1. Turn(t, k, l) = Append(Tail(l), Head(l))
        BY <1>2, <2>3 DEF Turn
      <3>2. CASE Enumerates(l, S \ {t})
        <4> DEFINE U == S \ {t}
        <4>1. Enumerates(l, U)
          BY <3>2
        <4> HIDE DEF U
        <4>2. Enumerates(Append(Tail(l), Head(l)), U)
          BY <2>1, <4>1, RotateEnumerates
        <4>3. QED
          BY <3>1, <4>2, Zenon DEF LoopInv, U
      <3>3. ASSUME Enumerates(l, S), Len(l) = n, NEW i \in 1 .. n - k, l[i] = t
            PROVE  LoopInv(t, S, n, k + 1, Turn(t, k, l))
        <4> DEFINE r == Append(Tail(l), Head(l))
        <4>1. /\ Enumerates(r, S)
              /\ Len(r) = n
              /\ \A j \in 1 .. n - 1 : r[j] = l[j + 1]
          BY <2>1, <3>3, RotateEnumerates
        <4>2. i # 1
          BY <2>1, <2>3, <3>3
        <4>3. i - 1 \in 1 .. n - (k + 1) /\ i - 1 \in 1 .. n - 1 /\ (i - 1) + 1 = i
          BY <4>2
        <4> HIDE DEF r
        <4>4. r[i - 1] = t
          BY <3>3, <4>1, <4>3
        <4>5. QED
          BY <3>1, <4>1, <4>3, <4>4, Zenon DEF LoopInv, r
      <3>4. QED
        BY <3>2, <3>3, Zenon DEF LoopInv
    <2>4. QED
      BY <2>2, <2>3
  <1>3. QED
    BY <1>1, <1>2

\* The loop takes t off the list and loses nobody, although the list shrinks as
\* it counts.
LEMMA WithoutExact ==
  ASSUME NEW S, NEW s \in Seq(Threads), Enumerates(s, S), NEW t \in Threads
  PROVE  /\ Without(t, s) \in Seq(Threads)
         /\ Enumerates(Without(t, s), S \ {t})
  <1> DEFINE n == Len(s)
  <1>1. n \in Nat
    OBVIOUS
  <1>2. PICK f \in [Nat -> Seq(Threads)] :
           /\ f[0] = s
           /\ \A k \in Nat : f[k + 1] = Turn(t, k, f[k])
           /\ Without(t, s) = f[n]
    BY LoopRuns
  <1> DEFINE Q == {k \in Nat : k <= n => LoopInv(t, S, n, k, f[k])}
  <1>3. LoopInv(t, S, n, 0, s)
    <2>1. CASE t \in S
      <3>1. DOMAIN s = 1 .. Len(s)
        BY LenProperties
      <3>2. PICK i \in DOMAIN s : s[i] = t
        BY <2>1 DEF Enumerates, ToSet
      <3>3. i \in 1 .. n - 0
        BY <1>1, <3>1
      <3>4. QED
        BY <3>2, <3>3, Zenon DEF LoopInv
    <2>2. CASE t \notin S
      <3>1. S \ {t} = S
        BY <2>2
      <3>2. QED
        BY <3>1, Zenon DEF LoopInv
    <2>3. QED
      BY <2>1, <2>2
  <1>4. 0 \in Q
    BY <1>2, <1>3
  <1> HIDE DEF n
  <1>5. ASSUME NEW k \in Nat, k \in Q
        PROVE  k + 1 \in Q
    <2>1. SUFFICES ASSUME k + 1 <= n
                   PROVE  LoopInv(t, S, n, k + 1, f[k + 1])
      OBVIOUS
    <2>2. k < n /\ LoopInv(t, S, n, k, f[k])
      BY <1>1, <1>5, <2>1
    <2>3. f[k] \in Seq(Threads) /\ f[k + 1] = Turn(t, k, f[k])
      BY <1>2
    <2>4. LoopInv(t, S, n, k + 1, Turn(t, k, f[k]))
      BY <1>1, <2>2, <2>3, TurnKeepsLoopInv
    <2>5. QED
      BY <2>3, <2>4, Zenon
  <1>6. Nat \subseteq Q
    <2> HIDE DEF Q
    <2> QED
      BY <1>4, <1>5, NatSetInduction
  <1>7. LoopInv(t, S, n, n, f[n])
    BY <1>1, <1>6
  <1>8. ~ \E i \in 1 .. n - n : f[n][i] = t
    BY <1>1
  <1>9. Enumerates(f[n], S \ {t})
    BY <1>7, <1>8, Zenon DEF LoopInv
  <1>10. QED
    BY <1>1, <1>2, <1>9

-----------------------------------------------------------------------------
(* The inductive invariant.                                                *)

\* The finished thread that waits to be deleted is the only one, and there is
\* none while the CPU runs a thread that is past its first dispatch.
OneCarcass ==
    /\ \A t \in Threads :
          (status[t] = "BLOCKED" /\ resume[t] = "Finish") => t = threadToBeDestroyed
    /\ (status[currentThread] = "RUNNING" /\ resume[currentThread] # "Root")
          => threadToBeDestroyed = NoThread

SchedulerInv ==
    SchedTypeOK /\ ReadyListExact /\ OneRunning /\ OnlyFinishedDestroyed /\ OneCarcass

ProcessTypeOK ==
    /\ id \in [Threads -> Nat]
    /\ parent \in [Threads -> Threads \cup {NoThread}]
    /\ isJoined \in [Threads -> BOOLEAN]
    /\ activeThreads \in Seq(Threads)
    /\ threadID \in Nat \ {0}
    /\ result \in [Threads -> Nat]
    /\ joining \in [Threads -> Nat]
    /\ forgotten \subseteq Threads

\* the next id is new
IdsUsed == \A t \in Threads : id[t] < threadID

\* main, the only process that has no id, cannot be joined
JoinedHasId == \A c \in Threads : (Live(c) /\ parent[c] # NoThread) => id[c] # 0

FamilyInv == IdsUsed /\ ActiveThreadsExact /\ ParentsAsleep /\ JoinedHasId

IInv == SchedulerInv /\ ProcessTypeOK /\ FamilyInv

-----------------------------------------------------------------------------
(* The scheduler's part.                                                   *)

\* WakeUpFromJoin puts a thread that is not on the list in front of it.
LEMMA EnumeratesPrepend ==
  ASSUME NEW S, NEW s \in Seq(Threads), Enumerates(s, S),
         NEW t \in Threads, t \notin S
  PROVE  /\ <<t>> \o s \in Seq(Threads)
         /\ <<t>> \o s # <<>>
         /\ Head(<<t>> \o s) = t
         /\ Enumerates(<<t>> \o s, S \cup {t})
  <1> DEFINE r == <<t>> \o s
  <1>1. /\ r \in Seq(Threads)
        /\ Len(r) = Len(s) + 1
        /\ r[1] = t
        /\ \A i \in 1 .. Len(s) : r[i + 1] = s[i]
        /\ DOMAIN s = 1 .. Len(s)
        /\ DOMAIN r = 1 .. (Len(s) + 1)
        /\ Len(s) \in Nat
    OBVIOUS
  <1> HIDE DEF r
  <1>2. \A i \in DOMAIN r : i = 1 \/ (i - 1 \in DOMAIN s /\ r[i] = s[i - 1])
    <2>1. ASSUME NEW i \in DOMAIN r, i # 1
          PROVE  i - 1 \in DOMAIN s /\ r[i] = s[i - 1]
      <3>1. i - 1 \in 1 .. Len(s) /\ (i - 1) + 1 = i
        BY <1>1, <2>1
      <3>2. QED
        BY <1>1, <3>1
    <2>2. QED
      BY <2>1
  <1>3. ToSet(r) = S \cup {t}
    <2>1. ASSUME NEW i \in DOMAIN r PROVE r[i] \in S \cup {t}
      BY <1>1, <1>2, <2>1 DEF Enumerates, ToSet
    <2>2. ASSUME NEW u \in S PROVE \E i \in DOMAIN r : r[i] = u
      <3>1. PICK j \in DOMAIN s : s[j] = u
        BY DEF Enumerates, ToSet
      <3>2. j + 1 \in DOMAIN r /\ r[j + 1] = u
        BY <1>1, <3>1
      <3>3. QED
        BY <3>2
    <2>3. 1 \in DOMAIN r /\ r[1] = t
      BY <1>1
    <2>4. QED
      BY <2>1, <2>2, <2>3 DEF ToSet
  <1>4. IsInjective(r)
    <2>1. ASSUME NEW i \in DOMAIN r, i # 1 PROVE r[i] \in S
      BY <1>2, <2>1 DEF Enumerates, ToSet
    <2>2. ASSUME NEW i \in DOMAIN r, NEW j \in DOMAIN r, r[i] = r[j]
          PROVE  i = j
      <3>1. CASE i = 1 \/ j = 1
        BY <1>1, <2>1, <2>2, <3>1
      <3>2. CASE i # 1 /\ j # 1
        <4>1. i - 1 = j - 1
          BY <1>2, <2>2, <3>2 DEF Enumerates, IsInjective
        <4>2. QED
          BY <1>1, <4>1
      <3>3. QED
        BY <3>1, <3>2
    <2>3. QED
      BY <2>2 DEF IsInjective
  <1>5. r # <<>> /\ Head(r) = r[1]
    BY <1>1, HeadTailProperties, EmptySeq
  <1>6. QED
    BY <1>1, <1>3, <1>4, <1>5 DEF Enumerates, r

\* the ready threads among the statuses st
ReadyIn(st) == {u \in Threads : st[u] = "READY"}

\* the values of resume
Places == {"None", "Root", "Yield", "P", "Acquire", "Join", "Finish"}

\* The running thread gives up the CPU, to continue inside Yield, Sleep or Finish.
LEMMA SwitchOut ==
  ASSUME SchedulerInv,
         resume' \in [Threads -> Places],
         resume'[currentThread] \in {"Yield", "Join", "Finish"},
         \A u \in Threads : u # currentThread => resume'[u] = resume[u],
         NEW st \in [Threads -> Status], NEW rl \in Seq(Threads),
         NEW dead \in Threads \cup {NoThread},
         \A u \in Threads : st[u] # "RUNNING",
         \A u \in Threads : u # currentThread => (st[u] = "NONE" <=> status[u] = "NONE"),
         st[currentThread] # "NONE",
         Enumerates(rl, ReadyIn(st)),
         rl # <<>> => Head(rl) # currentThread,
         dead # NoThread => st[dead] = "BLOCKED" /\ resume'[dead] = "Finish",
         \A u \in Threads : resume'[u] = "Finish" => st[u] \in {"BLOCKED", "NONE"},
         \A u \in Threads : st[u] = "BLOCKED" /\ resume'[u] = "Finish" => u = dead,
         Switch(st, rl, dead)
  PROVE  /\ SchedulerInv'
         /\ \A u \in Threads :
               /\ st[u] = "BLOCKED" => status'[u] = "BLOCKED" \/ u = dead
               /\ status'[u] = "NONE" <=> st[u] = "NONE" \/ (u = dead /\ status'[u] = "NONE")
  <1>1. /\ status' \in [Threads -> Status]
        /\ currentThread' \in Threads
        /\ readyList' \in Seq(Threads)
        /\ threadToBeDestroyed' \in {dead, NoThread}
        /\ threadToBeDestroyed' # NoThread => status'[threadToBeDestroyed'] = "BLOCKED"
        /\ ReadyListExact'
        /\ OneRunning'
        /\ \A u \in Threads :
              /\ status'[u] = "BLOCKED" => st[u] = "BLOCKED"
              /\ st[u] = "BLOCKED" => status'[u] = "BLOCKED" \/ u = dead
              /\ status'[u] = "NONE" => st[u] = "NONE" \/ u = dead
              /\ st[u] = "NONE" => status'[u] = "NONE"
              /\ u = dead => status'[u] \in {"BLOCKED", "NONE"}
    <2>1. currentThread \in Threads
      BY DEF SchedulerInv, SchedTypeOK
    <2>2. Enumerates(rl, {u \in Threads : st[u] = "READY"})
      BY Zenon DEF ReadyIn
    <2>3. QED
      BY <2>1, <2>2, SwitchPreserves
  <1>2. /\ currentThread \in Threads
        /\ resume \in [Threads -> Places]
    BY DEF SchedulerInv, SchedTypeOK, Places
  <1>3. SchedTypeOK'
    <2>1. ASSUME NEW u \in Threads
          PROVE  /\ resume'[u] = "Finish" => status'[u] \in {"BLOCKED", "NONE"}
                 /\ status'[u] = "NONE" => resume'[u] \in {"None", "Finish"}
      <3>1. status[u] = "NONE" => resume[u] \in {"None", "Finish"}
        BY DEF SchedulerInv, SchedTypeOK
      <3>2. NoThread \notin Threads
        BY ThreadAssumption
      <3>3. QED
        BY <1>1, <1>2, <3>1, <3>2
    <2>2. threadToBeDestroyed' \in Threads \cup {NoThread}
      BY <1>1
    <2>3. QED
      BY <1>1, <1>2, <2>1, <2>2 DEF SchedTypeOK, Places
  <1>4. OnlyFinishedDestroyed'
    BY <1>1 DEF OnlyFinishedDestroyed
  <1>5. OneCarcass'
    <2>1. CASE rl = <<>>
      <3>1. status' = st /\ threadToBeDestroyed' = dead /\ currentThread' = currentThread
        BY <2>1 DEF Switch
      <3>2. QED
        BY <1>2, <3>1 DEF OneCarcass
    <2>2. CASE rl # <<>>
      <3> DEFINE next == Head(rl)
                 deletes == resume[next] # "Root"
      <3>1. next \in Threads /\ next # currentThread
        BY <2>2, HeadTailProperties
      <3>2. /\ currentThread' = next
            /\ threadToBeDestroyed' = IF deletes THEN NoThread ELSE dead
            /\ status' = [u \in Threads |->
                             CASE u = next            -> "RUNNING"
                               [] u = dead /\ deletes -> "NONE"
                               [] OTHER               -> st[u]]
        BY <2>2, Zenon DEF Switch
      <3> HIDE DEF next
      <3>3. resume'[next] = resume[next]
        BY <1>2, <3>1
      <3>4. resume'[currentThread'] # "Root" => threadToBeDestroyed' = NoThread
        BY <3>2, <3>3
      <3>5. ASSUME NEW u \in Threads, status'[u] = "BLOCKED", resume'[u] = "Finish"
            PROVE  u = threadToBeDestroyed'
        <4>1. u = dead
          BY <1>1, <3>5
        <4>2. ~ deletes
          BY <3>1, <3>2, <3>5, <4>1
        <4>3. QED
          BY <3>2, <4>1, <4>2
      <3>6. QED
        BY <3>4, <3>5 DEF OneCarcass
    <2>3. QED
      BY <2>1, <2>2
  <1>6. QED
    BY <1>1, <1>3, <1>4, <1>5 DEF SchedulerInv

-----------------------------------------------------------------------------
(* One lemma per action: it keeps the invariant and wakes no joiner but as *)
(* JoinWaitsForExit says.                                                  *)

\* the action of JoinWaitsForExit
WakesAtExit ==
    \A t \in Threads :
        JoinAsleep(t) /\ ~ JoinAsleep(t)' =>
            getID(joining[t]) # {} /\ getID(joining[t])' = {}

\* Steps that only move the CPU from thread to thread.
LEMMA FamilyKept ==
  ASSUME FamilyInv,
         UNCHANGED <<id, parent, activeThreads, threadID>>,
         \A u \in Threads : Live(u)' <=> Live(u),
         \A u \in Threads : JoinAsleep(u) => JoinAsleep(u)' /\ joining'[u] = joining[u],
         parent \in [Threads -> Threads \cup {NoThread}]
  PROVE  FamilyInv' /\ WakesAtExit
  <1>1. IdsUsed'
    BY DEF FamilyInv, IdsUsed
  <1>2. ActiveThreadsExact'
    <2>1. {t \in Threads : Live(t)' /\ id'[t] # 0} = {t \in Threads : Live(t) /\ id[t] # 0}
      OBVIOUS
    <2>2. QED
      BY <2>1, Zenon DEF FamilyInv, ActiveThreadsExact
  <1>3. ParentsAsleep' /\ JoinedHasId'
    <2>1. ASSUME NEW c \in Threads, Live(c)', parent'[c] # NoThread
          PROVE  /\ status'[parent'[c]] = "BLOCKED" /\ resume'[parent'[c]] = "Join"
                 /\ joining'[parent'[c]] = id'[c] /\ id'[c] # 0
      <3>1. Live(c) /\ parent[c] # NoThread /\ parent[c] \in Threads
        BY <2>1
      <3>2. JoinAsleep(parent[c]) /\ joining[parent[c]] = id[c] /\ id[c] # 0
        BY <3>1 DEF FamilyInv, ParentsAsleep, JoinedHasId
      <3>3. QED
        BY <3>1, <3>2 DEF JoinAsleep
    <2>2. QED
      BY <2>1 DEF ParentsAsleep, JoinedHasId, JoinAsleep, Live
  <1>4. WakesAtExit
    BY DEF WakesAtExit
  <1>5. QED
    BY <1>1, <1>2, <1>3, <1>4 DEF FamilyInv

\* Yield of a running thread, and the end of a time slice in ThreadRoot.
LEMMA YieldOutInv ==
  ASSUME IInv, NEW t \in Threads, t = currentThread, status[t] = "RUNNING",
         readyList # <<>>,
         resume' = [resume EXCEPT ![t] = "Yield"],
         Switch([status EXCEPT ![t] = "READY"], Append(readyList, t), threadToBeDestroyed),
         UNCHANGED processVars
  PROVE  IInv' /\ WakesAtExit
  <1> DEFINE st == [status EXCEPT ![t] = "READY"]
             rl == Append(readyList, t)
             dead == threadToBeDestroyed
  <1>0. /\ status \in [Threads -> Status]
        /\ resume \in [Threads -> {"None", "Root", "Yield", "P", "Acquire", "Join", "Finish"}]
        /\ readyList \in Seq(Threads)
        /\ dead \in Threads \cup {NoThread}
        /\ NoThread \notin Threads
        /\ \A u \in Threads : resume[u] = "Finish" => status[u] \in {"BLOCKED", "NONE"}
    BY ThreadAssumption DEF IInv, SchedulerInv, SchedTypeOK
  <1>1. /\ st \in [Threads -> Status]
        /\ st[t] = "READY"
        /\ \A u \in Threads : u # t => st[u] = status[u] /\ resume'[u] = resume[u]
        /\ resume'[t] = "Yield"
    BY <1>0 DEF Status
  <1>2. /\ rl \in Seq(Threads)
        /\ Enumerates(rl, ReadyIn(st))
        /\ Head(rl) # t
    <2> DEFINE Ready == {u \in Threads : status[u] = "READY"}
    <2>1. Enumerates(readyList, Ready)
      BY DEF IInv, SchedulerInv, ReadyListExact
    <2>2. t \notin Ready /\ ReadyIn(st) = Ready \cup {t}
      BY <1>1 DEF ReadyIn
    <2> HIDE DEF Ready, st
    <2>3. rl \in Seq(Threads) /\ Enumerates(rl, Ready \cup {t})
      BY <1>0, <2>1, <2>2, EnumeratesAppend
    <2>4. Head(readyList) \in Ready
      BY <1>0, <2>1, EnumeratesTail
    <2>5. Head(rl) = Head(readyList)
      BY <1>0, EmptySeq, HeadTailProperties, LenProperties
    <2>6. QED
      BY <2>2, <2>3, <2>4, <2>5
  <1>3. /\ \A u \in Threads : st[u] # "RUNNING"
        /\ dead # NoThread => dead # t /\ st[dead] = "BLOCKED" /\ resume'[dead] = "Finish"
        /\ \A u \in Threads : resume'[u] = "Finish" => st[u] \in {"BLOCKED", "NONE"}
        /\ \A u \in Threads : st[u] = "BLOCKED" /\ resume'[u] = "Finish" => u = dead
    BY <1>0, <1>1 DEF IInv, SchedulerInv, OneRunning, OnlyFinishedDestroyed, OneCarcass
  <1>4. Switch(st, rl, dead)
    OBVIOUS
  <1> HIDE DEF st, rl, dead
  <1>5. /\ SchedulerInv'
        /\ \A u \in Threads :
              /\ st[u] = "BLOCKED" => status'[u] = "BLOCKED" \/ u = dead
              /\ status'[u] = "NONE" <=> st[u] = "NONE" \/ (u = dead /\ status'[u] = "NONE")
    <2>1. /\ SchedulerInv
          /\ \A u \in Threads : u # t => (st[u] = "NONE" <=> status[u] = "NONE")
          /\ st[t] # "NONE"
          /\ resume' \in [Threads -> Places]
      BY <1>0, <1>1 DEF IInv, Places
    <2>2. QED
      BY <1>0, <1>1, <1>2, <1>3, <1>4, <2>1, SwitchOut
  <1>6. ProcessTypeOK'
    BY DEF IInv, ProcessTypeOK, processVars
  <1>7. FamilyInv' /\ WakesAtExit
    <2>1. \A u \in Threads : Live(u)' <=> Live(u)
      BY <1>0, <1>1, <1>3, <1>5 DEF Live
    <2>2. \A u \in Threads : JoinAsleep(u) => JoinAsleep(u)' /\ joining'[u] = joining[u]
      BY <1>0, <1>1, <1>3, <1>5 DEF JoinAsleep, processVars
    <2>3. QED
      BY <2>1, <2>2, FamilyKept DEF IInv, ProcessTypeOK, processVars
  <1>8. QED
    BY <1>5, <1>6, <1>7 DEF IInv

LEMMA YieldInv ==
  ASSUME IInv, NEW t \in Threads, Yield(t), UNCHANGED processVars
  PROVE  IInv' /\ WakesAtExit
  BY YieldOutInv DEF Yield, Executing

LEMMA StartPreemptedInv ==
  ASSUME IInv, NEW t \in Threads, StartPreempted(t)
  PROVE  IInv' /\ WakesAtExit
  BY YieldOutInv DEF StartPreempted, Resumed

\* A thread that was switched in goes on inside its call, and leaves it.
LEMMA ReturnScheduler ==
  ASSUME SchedulerInv, NEW t \in Threads, Resumed(t), resume[t] # "Root",
         resume' = [resume EXCEPT ![t] = "None"],
         UNCHANGED <<status, currentThread, readyList, threadToBeDestroyed>>
  PROVE  SchedulerInv'
  <1>1. SchedTypeOK'
    BY DEF SchedulerInv, SchedTypeOK, Resumed
  <1>2. ReadyListExact' /\ OneRunning'
    BY DEF SchedulerInv, ReadyListExact, OneRunning
  <1>3. threadToBeDestroyed = NoThread
    BY DEF SchedulerInv, OneCarcass, Resumed
  <1>4. OnlyFinishedDestroyed' /\ OneCarcass'
    BY <1>3 DEF SchedulerInv, SchedTypeOK, OnlyFinishedDestroyed, OneCarcass
  <1>5. QED
    BY <1>1, <1>2, <1>4 DEF SchedulerInv

LEMMA YieldReturnInv ==
  ASSUME IInv, NEW t \in Threads, YieldReturn(t)
  PROVE  IInv' /\ WakesAtExit
  <1>1. SchedulerInv'
    BY ReturnScheduler DEF IInv, YieldReturn, EnableInterrupts
  <1>2. ProcessTypeOK'
    BY DEF IInv, ProcessTypeOK, YieldReturn, processVars
  <1>3. \A u \in Threads : Live(u)' <=> Live(u)
    BY DEF IInv, SchedulerInv, SchedTypeOK, YieldReturn, EnableInterrupts, Resumed, Live
  <1>4. \A u \in Threads : JoinAsleep(u) => JoinAsleep(u)' /\ joining'[u] = joining[u]
    BY DEF IInv, SchedulerInv, SchedTypeOK, YieldReturn, EnableInterrupts, Resumed,
           JoinAsleep, processVars
  <1>5. FamilyInv' /\ WakesAtExit
    BY <1>3, <1>4, FamilyKept DEF IInv, ProcessTypeOK, YieldReturn, processVars
  <1>6. QED
    BY <1>1, <1>2, <1>5 DEF IInv

LEMMA JoinReturnInv ==
  ASSUME IInv, NEW t \in Threads, JoinReturn(t)
  PROVE  IInv' /\ WakesAtExit
  <1>1. SchedulerInv'
    BY ReturnScheduler DEF IInv, JoinReturn
  <1>2. ProcessTypeOK'
    BY DEF IInv, ProcessTypeOK, JoinReturn
  <1>3. \A u \in Threads : Live(u)' <=> Live(u)
    BY DEF IInv, SchedulerInv, SchedTypeOK, JoinReturn, Resumed, Live
  <1>4. \A u \in Threads : JoinAsleep(u) => JoinAsleep(u)' /\ joining'[u] = joining[u]
    BY DEF IInv, SchedulerInv, SchedTypeOK, ProcessTypeOK, JoinReturn, Resumed, JoinAsleep
  <1>5. FamilyInv' /\ WakesAtExit
    BY <1>3, <1>4, FamilyKept DEF IInv, ProcessTypeOK, JoinReturn
  <1>6. QED
    BY <1>1, <1>2, <1>5 DEF IInv

LEMMA StartInv ==
  ASSUME IInv, NEW t \in Threads, Start(t)
  PROVE  IInv' /\ WakesAtExit
  <1>1. /\ \A u \in Threads :
              status'[u] = IF u = threadToBeDestroyed THEN "NONE" ELSE status[u]
        /\ status' \in [Threads -> Status]
        /\ resume' = [resume EXCEPT ![t] = "None"]
        /\ threadToBeDestroyed' = NoThread
        /\ t = currentThread /\ status[t] = "RUNNING"
        /\ UNCHANGED <<currentThread, readyList, processVars>>
    BY DEF Start, Resumed, IInv, SchedulerInv, SchedTypeOK, Status
  <1>2. threadToBeDestroyed # NoThread =>
           status[threadToBeDestroyed] = "BLOCKED" /\ resume[threadToBeDestroyed] = "Finish"
    BY DEF IInv, SchedulerInv, OnlyFinishedDestroyed
  <1>3. NoThread \notin Threads
    BY ThreadAssumption
  <1>4. /\ resume \in [Threads -> Places]
        /\ SchedTypeOK
    BY DEF IInv, SchedulerInv, SchedTypeOK, Places
  <1>5. SchedTypeOK'
    BY <1>1, <1>2, <1>3, <1>4 DEF SchedTypeOK
  <1>6. ReadyListExact'
    <2>1. {u \in Threads : status'[u] = "READY"} = {u \in Threads : status[u] = "READY"}
      BY <1>1, <1>2, <1>3
    <2>2. QED
      BY <1>1, <2>1, Zenon DEF IInv, SchedulerInv, ReadyListExact
  <1>7. OneRunning'
    BY <1>1, <1>2, <1>3, <1>4 DEF OneRunning, IInv, SchedulerInv, SchedTypeOK
  <1>8. OnlyFinishedDestroyed' /\ OneCarcass'
    BY <1>1, <1>2, <1>3, <1>4 DEF OnlyFinishedDestroyed, OneCarcass, IInv, SchedulerInv, Places
  <1>9. ProcessTypeOK'
    BY <1>1 DEF IInv, ProcessTypeOK, processVars
  <1>10. \A u \in Threads : Live(u)' <=> Live(u)
    BY <1>1, <1>2, <1>3, <1>4 DEF Live, Start
  <1>11. \A u \in Threads : JoinAsleep(u) => JoinAsleep(u)' /\ joining'[u] = joining[u]
    BY <1>1, <1>2, <1>3, <1>4 DEF JoinAsleep, processVars
  <1>12. FamilyInv' /\ WakesAtExit
    BY <1>1, <1>10, <1>11, FamilyKept DEF IInv, ProcessTypeOK, processVars
  <1>13. QED
    BY <1>5, <1>6, <1>7, <1>8, <1>9, <1>12 DEF IInv, SchedulerInv

LEMMA StutterInv ==
  ASSUME IInv,
         UNCHANGED <<schedVars, id, parent, isJoined, activeThreads, threadID, joining,
                     forgotten>>,
         result' \in [Threads -> Nat]
  PROVE  IInv' /\ WakesAtExit
  <1>1. SchedulerInv'
    BY DEF IInv, SchedulerInv, SchedTypeOK, ReadyListExact, OneRunning,
           OnlyFinishedDestroyed, OneCarcass, schedVars
  <1>2. ProcessTypeOK'
    BY DEF IInv, ProcessTypeOK
  <1>3. /\ \A u \in Threads : Live(u)' <=> Live(u)
        /\ \A u \in Threads : JoinAsleep(u) => JoinAsleep(u)' /\ joining'[u] = joining[u]
    BY DEF Live, JoinAsleep, schedVars
  <1>4. FamilyInv' /\ WakesAtExit
    BY <1>3, FamilyKept DEF IInv, ProcessTypeOK
  <1>5. QED
    BY <1>1, <1>2, <1>4 DEF IInv

LEMMA ExecInv ==
  ASSUME IInv, NEW t \in Threads, NEW u \in Threads, Exec(t, u)
  PROVE  IInv' /\ WakesAtExit
  <1>1. /\ status \in [Threads -> Status] /\ resume \in [Threads -> Places]
        /\ readyList \in Seq(Threads) /\ currentThread \in Threads
        /\ status[u] = "NONE" /\ status[t] = "RUNNING" /\ t = currentThread
        /\ NoThread \notin Threads
    BY ThreadAssumption DEF IInv, SchedulerInv, SchedTypeOK, Exec, Fork, Executing, Places
  <1>2. /\ status' = [status EXCEPT ![u] = "READY"]
        /\ resume' = [resume EXCEPT ![u] = "Root"]
        /\ readyList' = Append(readyList, u)
        /\ UNCHANGED <<currentThread, threadToBeDestroyed>>
    BY DEF Exec, Fork
  <1>3. /\ status' \in [Threads -> Status]
        /\ readyList' \in Seq(Threads)
        /\ ReadyListExact'
        /\ OneRunning'
    <2>1. ReadyListExact /\ OneRunning
      BY DEF IInv, SchedulerInv
    <2>2. QED
      BY <1>1, <1>2, <2>1, ReadyToRunPreserves
  <1>4. /\ status'[u] = "READY" /\ resume'[u] = "Root"
        /\ \A v \in Threads : v # u => status'[v] = status[v] /\ resume'[v] = resume[v]
        /\ resume' \in [Threads -> Places]
    BY <1>1, <1>2 DEF Places
  <1>5. SchedTypeOK'
    <2>1. SchedTypeOK
      BY DEF IInv, SchedulerInv
    <2>2. \A v \in Threads : /\ resume'[v] = "Finish" => status'[v] \in {"BLOCKED", "NONE"}
                             /\ status'[v] = "NONE" => resume'[v] \in {"None", "Finish"}
      BY <1>4, <2>1 DEF SchedTypeOK
    <2>3. QED
      BY <1>2, <1>3, <1>4, <2>1, <2>2 DEF SchedTypeOK, Places
  <1>6. OnlyFinishedDestroyed' /\ OneCarcass'
    <2>1. OnlyFinishedDestroyed /\ OneCarcass /\ threadToBeDestroyed \in Threads \cup {NoThread}
      BY DEF IInv, SchedulerInv, SchedTypeOK
    <2>2. QED
      BY <1>1, <1>2, <1>4, <2>1 DEF OnlyFinishedDestroyed, OneCarcass
  <1>7. SchedulerInv'
    BY <1>3, <1>5, <1>6 DEF SchedulerInv
  <1>8. /\ ProcessTypeOK
        /\ id' = [id EXCEPT ![u] = threadID]
        /\ parent' = [parent EXCEPT ![u] = NoThread]
        /\ activeThreads' = Append(activeThreads, u)
        /\ threadID' = threadID + 1
        /\ joining' = joining
    BY DEF IInv, Exec
  <1>9. ProcessTypeOK'
    <2>1. isJoined' \in [Threads -> BOOLEAN]
      BY <1>8, Zenon DEF ProcessTypeOK, Exec
    <2>2. result' \in [Threads -> Nat]
      BY <1>8 DEF ProcessTypeOK, Exec
    <2>3. /\ id' \in [Threads -> Nat]
          /\ parent' \in [Threads -> Threads \cup {NoThread}]
          /\ activeThreads' \in Seq(Threads)
          /\ threadID' \in Nat \ {0}
      BY <1>8 DEF ProcessTypeOK
    <2>4. joining' = joining /\ forgotten' = forgotten
      BY DEF Exec
    <2>5. QED
      BY <1>8, <2>1, <2>2, <2>3, <2>4, Zenon DEF ProcessTypeOK
  <1>10. /\ id'[u] = threadID /\ parent'[u] = NoThread
         /\ \A v \in Threads : v # u => id'[v] = id[v] /\ parent'[v] = parent[v]
    BY <1>8 DEF ProcessTypeOK
  <1>11. FamilyInv
    BY DEF IInv
  <1>12. IdsUsed'
    BY <1>8, <1>10, <1>11 DEF FamilyInv, IdsUsed, ProcessTypeOK
  <1>13. ActiveThreadsExact'
    <2> DEFINE A == {v \in Threads : Live(v) /\ id[v] # 0}
    <2>1. Enumerates(activeThreads, A)
      BY <1>11 DEF FamilyInv, ActiveThreadsExact
    <2>2. u \notin A
      BY <1>1 DEF Live
    <2>3. {v \in Threads : Live(v)' /\ id'[v] # 0} = A \cup {u}
      BY <1>4, <1>8, <1>10 DEF Live, ProcessTypeOK
    <2>4. A \subseteq Threads
      OBVIOUS
    <2> HIDE DEF A
    <2>5. Enumerates(activeThreads', A \cup {u})
      BY <1>8, <2>1, <2>2, EnumeratesAppend DEF ProcessTypeOK
    <2>6. ToSet(activeThreads) = A /\ ToSet(activeThreads') = A \cup {u}
      BY <2>1, <2>5 DEF Enumerates
    <2>7. \A v, w \in A : id[v] = id[w] => v = w
      BY <1>11, <2>6 DEF FamilyInv, ActiveThreadsExact
    <2>8. \A v \in A : id[v] < threadID /\ id[v] \in Nat
      BY <1>8, <1>11, <2>4 DEF FamilyInv, IdsUsed, ProcessTypeOK
    <2>9. \A v, w \in A \cup {u} : id'[v] = id'[w] => v = w
      BY <1>8, <1>10, <2>2, <2>4, <2>7, <2>8 DEF ProcessTypeOK
    <2>10. QED
      BY <2>3, <2>5, <2>6, <2>9, Zenon DEF ActiveThreadsExact
  <1>14. ParentsAsleep' /\ JoinedHasId'
    <2>1. ASSUME NEW c \in Threads, Live(c)', parent'[c] # NoThread
          PROVE  /\ status'[parent'[c]] = "BLOCKED" /\ resume'[parent'[c]] = "Join"
                 /\ joining'[parent'[c]] = id'[c] /\ id'[c] # 0
      <3>1. c # u /\ Live(c) /\ parent'[c] = parent[c] /\ parent[c] \in Threads
        <4>1. c # u
          BY <1>10, <2>1
        <4>2. parent'[c] = parent[c] /\ parent[c] \in Threads
          BY <1>8, <1>10, <2>1, <4>1 DEF ProcessTypeOK
        <4>3. Live(c)
          BY <1>4, <2>1, <4>1 DEF Live
        <4>4. QED
          BY <4>1, <4>2, <4>3
      <3>2. /\ status[parent[c]] = "BLOCKED" /\ resume[parent[c]] = "Join"
            /\ joining[parent[c]] = id[c] /\ id[c] # 0
        BY <1>11, <2>1, <3>1 DEF FamilyInv, ParentsAsleep, JoinedHasId, JoinAsleep
      <3>3. parent[c] # u
        BY <1>1, <3>2
      <3>4. QED
        BY <1>4, <1>8, <1>10, <3>1, <3>2, <3>3
    <2>2. QED
      BY <2>1 DEF ParentsAsleep, JoinedHasId, JoinAsleep, Live
  <1>15. WakesAtExit
    BY <1>1, <1>4 DEF WakesAtExit, JoinAsleep
  <1>16. QED
    BY <1>7, <1>9, <1>12, <1>13, <1>14, <1>15 DEF IInv, FamilyInv

LEMMA JoinInv ==
  ASSUME IInv, NEW t \in Threads, NEW i, Join(t, i)
  PROVE  IInv' /\ WakesAtExit
  <1> DEFINE st == [status EXCEPT ![t] = "BLOCKED"]
             rl == readyList
             dead == threadToBeDestroyed
  <1>1. /\ status \in [Threads -> Status] /\ resume \in [Threads -> Places]
        /\ readyList \in Seq(Threads) /\ currentThread \in Threads
        /\ status[t] = "RUNNING" /\ resume[t] = "None" /\ t = currentThread
        /\ NoThread \notin Threads
        /\ \A u \in Threads : resume[u] = "Finish" => status[u] \in {"BLOCKED", "NONE"}
    BY ThreadAssumption DEF IInv, SchedulerInv, SchedTypeOK, Join, Executing, Places
  <1>2. dead = NoThread
    BY <1>1 DEF IInv, SchedulerInv, OneCarcass
  <1>3. /\ st \in [Threads -> Status]
        /\ st[t] = "BLOCKED"
        /\ resume' = [resume EXCEPT ![t] = "Join"]
        /\ resume' \in [Threads -> Places]
        /\ resume'[t] = "Join"
        /\ \A u \in Threads : u # t => st[u] = status[u] /\ resume'[u] = resume[u]
        /\ Switch(st, rl, dead)
    BY <1>1 DEF Status, Places, Join, Sleep
  <1>4. /\ Enumerates(rl, ReadyIn(st))
        /\ rl # <<>> => Head(rl) # t
    <2> DEFINE Ready == {u \in Threads : status[u] = "READY"}
    <2>1. Enumerates(readyList, Ready)
      BY DEF IInv, SchedulerInv, ReadyListExact
    <2>2. t \notin Ready /\ ReadyIn(st) = Ready
      BY <1>1, <1>3 DEF ReadyIn
    <2> HIDE DEF Ready, st
    <2>3. rl # <<>> => Head(readyList) \in Ready
      BY <1>1, <2>1, EnumeratesTail
    <2>4. QED
      BY <2>1, <2>2, <2>3
  <1>5. /\ \A u \in Threads : st[u] # "RUNNING"
        /\ \A u \in Threads : u # t => (st[u] = "NONE" <=> status[u] = "NONE")
        /\ \A u \in Threads : resume'[u] = "Finish" => st[u] \in {"BLOCKED", "NONE"}
        /\ \A u \in Threads : st[u] = "BLOCKED" /\ resume'[u] = "Finish" => u = dead
    BY <1>1, <1>3 DEF IInv, SchedulerInv, OneRunning, OneCarcass
  <1> HIDE DEF st, rl, dead
  <1>6. /\ SchedulerInv'
        /\ \A u \in Threads :
              /\ st[u] = "BLOCKED" => status'[u] = "BLOCKED" \/ u = dead
              /\ status'[u] = "NONE" <=> st[u] = "NONE" \/ (u = dead /\ status'[u] = "NONE")
    <2>1. /\ SchedulerInv
          /\ st[currentThread] # "NONE"
          /\ resume'[currentThread] \in {"Yield", "Join", "Finish"}
          /\ \A u \in Threads : u # currentThread => resume'[u] = resume[u]
          /\ \A u \in Threads : u # currentThread => (st[u] = "NONE" <=> status[u] = "NONE")
          /\ rl \in Seq(Threads)
          /\ rl # <<>> => Head(rl) # currentThread
          /\ dead \in Threads \cup {NoThread}
          /\ dead # NoThread => st[dead] = "BLOCKED" /\ resume'[dead] = "Finish"
          /\ \A u \in Threads : st[u] # "RUNNING"
          /\ \A u \in Threads : resume'[u] = "Finish" => st[u] \in {"BLOCKED", "NONE"}
          /\ \A u \in Threads : st[u] = "BLOCKED" /\ resume'[u] = "Finish" => u = dead
          /\ Enumerates(rl, ReadyIn(st))
      BY <1>1, <1>2, <1>3, <1>4, <1>5 DEF IInv, rl
    <2>2. /\ st \in [Threads -> Status]
          /\ resume' \in [Threads -> Places]
          /\ Switch(st, rl, dead)
      BY <1>3
    <2>3. QED
      BY <2>1, <2>2, SwitchOut
  <1>7. /\ \A u \in Threads : Live(u)' <=> Live(u)
        /\ \A u \in Threads : status[u] = "BLOCKED" => status'[u] = "BLOCKED"
        /\ status'[t] = "BLOCKED"
    BY <1>1, <1>2, <1>3, <1>6 DEF Live
  <1>8. /\ ProcessTypeOK
        /\ parent' = [c \in Threads |-> IF c \in getID(i) THEN t ELSE parent[c]]
        /\ isJoined' = [isJoined EXCEPT ![t] = TRUE]
        /\ joining' = [joining EXCEPT ![t] = i]
        /\ UNCHANGED <<id, activeThreads, threadID, result>>
        /\ forgotten' = forgotten \cup ({parent[c] : c \in getID(i)} \ {NoThread})
        /\ getID(i) # {}
    BY DEF IInv, Join
  <1>9. FamilyInv
    BY DEF IInv
  <1>10. PICK c \in Threads : Live(c) /\ id[c] = i /\ i # 0 /\ getID(i) = {c}
    <2>1. /\ ToSet(activeThreads) = {u \in Threads : Live(u) /\ id[u] # 0}
          /\ \A u, v \in ToSet(activeThreads) : id[u] = id[v] => u = v
      BY <1>9 DEF FamilyInv, ActiveThreadsExact, Enumerates
    <2>2. PICK c \in ToSet(activeThreads) : id[c] = i
      BY <1>8 DEF getID
    <2>3. getID(i) = {c}
      BY <2>1, <2>2 DEF getID
    <2>4. QED
      BY <2>1, <2>2, <2>3
  <1>11. ProcessTypeOK'
    <2>1. i \in Nat
      BY <1>8, <1>10 DEF ProcessTypeOK
    <2>2. {parent[d] : d \in getID(i)} \ {NoThread} \subseteq Threads
      BY <1>8, <1>10 DEF ProcessTypeOK
    <2>3. QED
      BY <1>8, <2>1, <2>2 DEF ProcessTypeOK
  <1>12. /\ parent'[c] = t /\ joining'[t] = i
         /\ \A d \in Threads : d # c => parent'[d] = parent[d]
         /\ \A u \in Threads : u # t => joining'[u] = joining[u]
    BY <1>8, <1>10 DEF ProcessTypeOK
  <1>13. IdsUsed'
    BY <1>8, <1>9 DEF FamilyInv, IdsUsed
  <1>14. ActiveThreadsExact'
    <2>1. {u \in Threads : Live(u)' /\ id'[u] # 0} = {u \in Threads : Live(u) /\ id[u] # 0}
      BY <1>7, <1>8
    <2>2. QED
      BY <1>8, <1>9, <2>1, Zenon DEF FamilyInv, ActiveThreadsExact
  <1>15. ParentsAsleep' /\ JoinedHasId'
    <2>1. ASSUME NEW d \in Threads, Live(d)', parent'[d] # NoThread
          PROVE  /\ status'[parent'[d]] = "BLOCKED" /\ resume'[parent'[d]] = "Join"
                 /\ joining'[parent'[d]] = id'[d] /\ id'[d] # 0
      <3>1. CASE d = c
        BY <1>3, <1>7, <1>8, <1>10, <1>12, <3>1
      <3>2. CASE d # c
        <4>1. Live(d) /\ parent[d] # NoThread /\ parent[d] \in Threads /\ parent'[d] = parent[d]
          BY <1>7, <1>8, <1>12, <2>1, <3>2 DEF ProcessTypeOK
        <4>2. /\ status[parent[d]] = "BLOCKED" /\ resume[parent[d]] = "Join"
              /\ joining[parent[d]] = id[d] /\ id[d] # 0
          BY <1>9, <4>1 DEF FamilyInv, ParentsAsleep, JoinedHasId, JoinAsleep
        <4>3. parent[d] # t
          BY <1>1, <4>2
        <4>4. QED
          BY <1>3, <1>7, <1>8, <1>12, <4>1, <4>2, <4>3
      <3>3. QED
        BY <3>1, <3>2
    <2>2. QED
      BY <2>1 DEF ParentsAsleep, JoinedHasId, JoinAsleep, Live
  <1>16. WakesAtExit
    BY <1>3, <1>7 DEF WakesAtExit, JoinAsleep
  <1>17. QED
    BY <1>6, <1>11, <1>13, <1>14, <1>15, <1>16 DEF IInv, FamilyInv

\* Finish of t, when st and rl are the statuses and the ready list as they are
\* after the parent has been woken, if there is one.
LEMMA FinishingScheduler ==
  ASSUME IInv, NEW t \in Threads, NEW st \in [Threads -> Status], NEW rl \in Seq(Threads),
         Finishing(t, st, rl),
         \A u \in Threads : st[u] # status[u] => status[u] = "BLOCKED" /\ st[u] = "READY"
                                                  /\ resume[u] # "Finish",
         Enumerates(rl, ReadyIn(st))
  PROVE  /\ SchedulerInv'
         /\ \A u \in Threads : u # t /\ st[u] = "BLOCKED" => status'[u] = "BLOCKED"
         /\ \A u \in Threads : Live(u)' <=> Live(u) /\ u # t
  <1> DEFINE end == [st EXCEPT ![t] = "BLOCKED"]
  <1>1. /\ status \in [Threads -> Status] /\ resume \in [Threads -> Places]
        /\ currentThread \in Threads
        /\ status[t] = "RUNNING" /\ resume[t] = "None" /\ t = currentThread
        /\ NoThread \notin Threads
        /\ \A u \in Threads : resume[u] = "Finish" => status[u] \in {"BLOCKED", "NONE"}
    BY ThreadAssumption DEF IInv, SchedulerInv, SchedTypeOK, Finishing, Executing, Places
  <1>2. \A u \in Threads : ~ (status[u] = "BLOCKED" /\ resume[u] = "Finish")
    BY <1>1 DEF IInv, SchedulerInv, OneCarcass
  <1>3. /\ st[t] = "RUNNING"
        /\ end \in [Threads -> Status]
        /\ end[t] = "BLOCKED"
        /\ resume' \in [Threads -> Places]
        /\ resume'[t] = "Finish"
        /\ \A u \in Threads : u # t => end[u] = st[u] /\ resume'[u] = resume[u]
        /\ Switch(end, rl, t)
    BY <1>1 DEF Status, Places, Finishing
  <1>4. /\ ReadyIn(end) = ReadyIn(st)
        /\ t \notin ReadyIn(st)
    BY <1>3 DEF ReadyIn
  <1>5. rl # <<>> => Head(rl) \in ReadyIn(st)
    BY EnumeratesTail
  <1> HIDE DEF end
  <1>6. /\ SchedulerInv
        /\ end[currentThread] # "NONE"
        /\ resume'[currentThread] \in {"Yield", "Join", "Finish"}
        /\ \A u \in Threads : u # currentThread => resume'[u] = resume[u]
        /\ \A u \in Threads : u # currentThread => (end[u] = "NONE" <=> status[u] = "NONE")
        /\ rl # <<>> => Head(rl) # currentThread
        /\ t \in Threads \cup {NoThread}
        /\ t # NoThread => end[t] = "BLOCKED" /\ resume'[t] = "Finish"
        /\ \A u \in Threads : end[u] # "RUNNING"
        /\ \A u \in Threads : resume'[u] = "Finish" => end[u] \in {"BLOCKED", "NONE"}
        /\ \A u \in Threads : end[u] = "BLOCKED" /\ resume'[u] = "Finish" => u = t
        /\ Enumerates(rl, ReadyIn(end))
    BY <1>1, <1>2, <1>3, <1>4, <1>5 DEF IInv, SchedulerInv, OneRunning
  <1>7. /\ end \in [Threads -> Status]
        /\ resume' \in [Threads -> Places]
        /\ Switch(end, rl, t)
    BY <1>3
  <1>8. /\ SchedulerInv'
        /\ \A u \in Threads :
              /\ end[u] = "BLOCKED" => status'[u] = "BLOCKED" \/ u = t
              /\ status'[u] = "NONE" <=> end[u] = "NONE" \/ (u = t /\ status'[u] = "NONE")
    BY <1>6, <1>7, SwitchOut
  <1>9. \A u \in Threads : Live(u)' <=> Live(u) /\ u # t
    BY <1>1, <1>3, <1>8 DEF Live
  <1>10. QED
    BY <1>3, <1>8, <1>9

\* Finish takes t off the list of processes, and the others keep what joined them.
LEMMA FinishingFamily ==
  ASSUME IInv, NEW t \in Threads, NEW st, NEW rl, Finishing(t, st, rl),
         \A u \in Threads : Live(u)' <=> Live(u) /\ u # t,
         \A c \in Threads : Live(c) /\ c # t /\ parent[c] # NoThread
                              => status'[parent[c]] = "BLOCKED"
  PROVE  FamilyInv'
  <1>1. /\ resume' = [resume EXCEPT ![t] = "Finish"]
        /\ activeThreads' = Without(t, activeThreads)
        /\ UNCHANGED <<id, parent, threadID, joining>>
        /\ Executing(t)
    BY DEF Finishing
  <1>2. FamilyInv /\ ProcessTypeOK /\ resume \in [Threads -> Places]
    BY DEF IInv, SchedulerInv, SchedTypeOK, Places
  <1>3. IdsUsed'
    BY <1>1, <1>2 DEF FamilyInv, IdsUsed
  <1>4. ActiveThreadsExact'
    <2> DEFINE A == {u \in Threads : Live(u) /\ id[u] # 0}
    <2>1. Enumerates(activeThreads, A)
      BY <1>2 DEF FamilyInv, ActiveThreadsExact
    <2>2. {u \in Threads : Live(u)' /\ id'[u] # 0} = A \ {t}
      BY <1>1
    <2> HIDE DEF A
    <2>3. Enumerates(activeThreads', A \ {t})
      BY <1>1, <1>2, <2>1, WithoutExact DEF ProcessTypeOK
    <2>4. ToSet(activeThreads) = A /\ ToSet(activeThreads') = A \ {t}
      BY <2>1, <2>3 DEF Enumerates
    <2>5. \A v, w \in A : id[v] = id[w] => v = w
      BY <1>2, <2>4 DEF FamilyInv, ActiveThreadsExact
    <2>6. \A v, w \in A \ {t} : id'[v] = id'[w] => v = w
      BY <1>1, <2>5
    <2>7. QED
      BY <2>2, <2>3, <2>4, <2>6, Zenon DEF ActiveThreadsExact
  <1>5. ParentsAsleep' /\ JoinedHasId'
    <2>1. ASSUME NEW c \in Threads, Live(c)', parent'[c] # NoThread
          PROVE  /\ status'[parent'[c]] = "BLOCKED" /\ resume'[parent'[c]] = "Join"
                 /\ joining'[parent'[c]] = id'[c] /\ id'[c] # 0
      <3>1. Live(c) /\ c # t /\ parent[c] # NoThread /\ parent[c] \in Threads
        BY <1>1, <1>2, <2>1 DEF ProcessTypeOK
      <3>2. /\ status[parent[c]] = "BLOCKED" /\ resume[parent[c]] = "Join"
            /\ joining[parent[c]] = id[c] /\ id[c] # 0
        BY <1>2, <3>1 DEF FamilyInv, ParentsAsleep, JoinedHasId, JoinAsleep
      <3>3. parent[c] # t
        BY <1>1, <3>2 DEF Executing
      <3>4. resume'[parent[c]] = "Join"
        BY <1>1, <1>2, <3>1, <3>2, <3>3
      <3>5. QED
        BY <1>1, <3>1, <3>2, <3>4
    <2>2. QED
      BY <2>1 DEF ParentsAsleep, JoinedHasId, JoinAsleep, Live
  <1>6. QED
    BY <1>3, <1>4, <1>5 DEF FamilyInv

LEMMA FinishingTypeOK ==
  ASSUME IInv, NEW t \in Threads, NEW st, NEW rl, Finishing(t, st, rl),
         isJoined' \in [Threads -> BOOLEAN]
  PROVE  ProcessTypeOK'
  <1>1. activeThreads' \in Seq(Threads)
    BY WithoutExact DEF Finishing, IInv, ProcessTypeOK, FamilyInv, ActiveThreadsExact
  <1>2. result' \in [Threads -> Nat]
    BY DEF Finishing, IInv, ProcessTypeOK
  <1>3. QED
    BY <1>1, <1>2 DEF Finishing, IInv, ProcessTypeOK

LEMMA ExitInv ==
  ASSUME IInv, NEW t \in Threads, Exit(t)
  PROVE  IInv' /\ WakesAtExit
  <1>1. /\ status \in [Threads -> Status] /\ resume \in [Threads -> Places]
        /\ readyList \in Seq(Threads)
        /\ Enumerates(readyList, ReadyIn(status))
        /\ ProcessTypeOK /\ FamilyInv
    BY DEF IInv, SchedulerInv, SchedTypeOK, Places, ReadyListExact, ReadyIn
  <1>2. /\ status[t] = "RUNNING" /\ resume[t] = "None"
        /\ resume' = [resume EXCEPT ![t] = "Finish"]
        /\ UNCHANGED <<id, joining>>
        /\ activeThreads' = Without(t, activeThreads)
    BY DEF Exit, Finishing, Executing
  <1>3. ASSUME parent[t] = NoThread, Finishing(t, status, readyList), UNCHANGED isJoined
        PROVE  IInv' /\ WakesAtExit
    <2>1. /\ SchedulerInv'
          /\ \A u \in Threads : u # t /\ status[u] = "BLOCKED" => status'[u] = "BLOCKED"
          /\ \A u \in Threads : Live(u)' <=> Live(u) /\ u # t
      BY <1>1, <1>3, FinishingScheduler
    <2>2. ProcessTypeOK'
      BY <1>1, <1>3, FinishingTypeOK DEF ProcessTypeOK
    <2>3. \A c \in Threads : Live(c) /\ c # t /\ parent[c] # NoThread
                              => status'[parent[c]] = "BLOCKED"
      BY <1>1, <1>2, <2>1 DEF FamilyInv, ParentsAsleep, JoinAsleep, ProcessTypeOK
    <2>4. FamilyInv'
      BY <1>3, <2>1, <2>3, FinishingFamily
    <2>5. WakesAtExit
      BY <1>1, <1>2, <2>1 DEF WakesAtExit, JoinAsleep
    <2>6. QED
      BY <2>1, <2>2, <2>4, <2>5 DEF IInv
  <1>4. ASSUME parent[t] # NoThread,
               Finishing(t, [status EXCEPT ![parent[t]] = "READY"], <<parent[t]>> \o readyList),
               isJoined' = [isJoined EXCEPT ![parent[t]] = FALSE]
        PROVE  IInv' /\ WakesAtExit
    <2> DEFINE p == parent[t]
               st == [status EXCEPT ![p] = "READY"]
               rl == <<p>> \o readyList
    <2>1. /\ p \in Threads /\ Live(t)
          /\ status[p] = "BLOCKED" /\ resume[p] = "Join" /\ joining[p] = id[t] /\ id[t] # 0
      BY <1>1, <1>2, <1>4
         DEF FamilyInv, ParentsAsleep, JoinedHasId, JoinAsleep, ProcessTypeOK, Live
    <2> HIDE DEF p
    <2>2. /\ st \in [Threads -> Status]
          /\ st[p] = "READY"
          /\ \A u \in Threads : u # p => st[u] = status[u]
          /\ p \notin ReadyIn(status)
          /\ ReadyIn(st) = ReadyIn(status) \cup {p}
      BY <1>1, <2>1 DEF Status, ReadyIn
    <2>3. rl \in Seq(Threads) /\ Enumerates(rl, ReadyIn(st))
      <3> DEFINE Ready == ReadyIn(status)
      <3>1. Enumerates(readyList, Ready) /\ p \notin Ready /\ readyList \in Seq(Threads)
        BY <1>1, <2>2
      <3> HIDE DEF Ready, st
      <3>2. rl \in Seq(Threads) /\ Enumerates(rl, Ready \cup {p})
        BY <2>1, <3>1, EnumeratesPrepend
      <3>3. QED
        BY <2>2, <3>2 DEF Ready
    <2>4. Finishing(t, st, rl)
      BY <1>4 DEF p
    <2> HIDE DEF st, rl
    <2>5. /\ SchedulerInv'
          /\ \A u \in Threads : u # t /\ st[u] = "BLOCKED" => status'[u] = "BLOCKED"
          /\ \A u \in Threads : Live(u)' <=> Live(u) /\ u # t
      <3>1. \A u \in Threads : st[u] # status[u] => status[u] = "BLOCKED" /\ st[u] = "READY"
                                                     /\ resume[u] # "Finish"
        BY <2>1, <2>2
      <3>2. QED
        BY <2>2, <2>3, <2>4, <3>1, FinishingScheduler
    <2>6. ProcessTypeOK'
      <3>1. isJoined' \in [Threads -> BOOLEAN]
        BY <1>1, <1>4, Zenon DEF ProcessTypeOK
      <3>2. QED
        BY <2>4, <3>1, FinishingTypeOK
    <2>7. ASSUME NEW u \in Threads, Live(u), u # t, id[u] # 0
          PROVE  id[u] # id[t]
      BY <1>1, <2>1, <2>7 DEF FamilyInv, ActiveThreadsExact, Enumerates
    <2>8. \A c \in Threads : Live(c) /\ c # t /\ parent[c] # NoThread
                              => status'[parent[c]] = "BLOCKED"
      <3>1. ASSUME NEW c \in Threads, Live(c), c # t, parent[c] # NoThread
            PROVE  status'[parent[c]] = "BLOCKED"
        <4>1. /\ parent[c] \in Threads
              /\ status[parent[c]] = "BLOCKED" /\ resume[parent[c]] = "Join"
              /\ joining[parent[c]] = id[c] /\ id[c] # 0
          BY <1>1, <3>1 DEF FamilyInv, ParentsAsleep, JoinedHasId, JoinAsleep, ProcessTypeOK
        <4>2. parent[c] # p /\ parent[c] # t
          BY <1>2, <2>1, <2>7, <3>1, <4>1
        <4>3. QED
          BY <2>2, <2>5, <4>1, <4>2
      <3>2. QED
        BY <3>1
    <2>9. FamilyInv'
      BY <2>4, <2>5, <2>8, FinishingFamily
    <2>10. WakesAtExit
      <3>1. ASSUME NEW u \in Threads, JoinAsleep(u), ~ JoinAsleep(u)'
            PROVE  getID(joining[u]) # {} /\ getID(joining[u])' = {}
        <4>1. u = p
          BY <1>1, <1>2, <2>2, <2>5, <3>1 DEF JoinAsleep
        <4>2. t \in ToSet(activeThreads)
          BY <1>1, <2>1 DEF FamilyInv, ActiveThreadsExact, Enumerates
        <4>3. getID(joining[u]) # {}
          BY <2>1, <4>1, <4>2 DEF getID
        <4>4. ToSet(activeThreads') = {v \in Threads : Live(v)' /\ id'[v] # 0}
          BY <2>9 DEF FamilyInv, ActiveThreadsExact, Enumerates
        <4>5. ASSUME NEW v \in ToSet(activeThreads') PROVE id'[v] # joining'[u]
          BY <1>2, <2>1, <2>5, <2>7, <4>1, <4>4
        <4>6. getID(joining[u])' = {}
          BY <4>5 DEF getID
        <4>7. QED
          BY <4>3, <4>6
      <3>2. QED
        BY <3>1 DEF WakesAtExit
    <2>11. QED
      BY <2>5, <2>6, <2>9, <2>10 DEF IInv
  <1>5. QED
    BY <1>3, <1>4 DEF Exit

-----------------------------------------------------------------------------

LEMMA InitIInv == Init => IInv
  <1> SUFFICES ASSUME Init PROVE IInv
    OBVIOUS
  <1>1. SchedTypeOK
    BY ThreadAssumption DEF Init, SchedInit, SchedTypeOK, Status
  <1>2. ReadyListExact
    <2>1. {t \in Threads : status[t] = "READY"} = {}
      BY DEF Init, SchedInit
    <2>2. QED
      BY <2>1, EnumeratesEmpty DEF Init, SchedInit, ReadyListExact
  <1>3. OneRunning /\ OnlyFinishedDestroyed /\ OneCarcass
    BY ThreadAssumption DEF Init, SchedInit, OneRunning, OnlyFinishedDestroyed, OneCarcass
  <1>4. ProcessTypeOK
    BY DEF Init, ProcessTypeOK
  <1>5. IdsUsed /\ ParentsAsleep /\ JoinedHasId
    BY DEF Init, IdsUsed, ParentsAsleep, JoinedHasId
  <1>6. ActiveThreadsExact
    <2>1. {t \in Threads : Live(t) /\ id[t] # 0} = {}
      BY DEF Init
    <2>2. ToSet(activeThreads) = {} /\ Enumerates(activeThreads, {})
      BY EnumeratesEmpty DEF Init, Enumerates
    <2>3. QED
      BY <2>1, <2>2 DEF ActiveThreadsExact
  <1>7. QED
    BY <1>1, <1>2, <1>3, <1>4, <1>5, <1>6 DEF IInv, SchedulerInv, FamilyInv

LEMMA NextIInv == IInv /\ [Next]_vars => IInv' /\ [WakesAtExit]_vars
  <1> SUFFICES ASSUME IInv, [Next]_vars
               PROVE  IInv' /\ WakesAtExit
    OBVIOUS
  <1>1. ASSUME NEW t \in Threads, NEW u \in Threads, Exec(t, u)
        PROVE  IInv' /\ WakesAtExit
    BY <1>1, ExecInv
  <1>2. ASSUME NEW t \in Threads, ExecWithoutProcess(t)
        PROVE  IInv' /\ WakesAtExit
    <2>1. result' \in [Threads -> Nat]
      BY <1>2 DEF ExecWithoutProcess, SC_Exec, IInv, ProcessTypeOK
    <2>2. QED
      BY <1>2, <2>1, StutterInv DEF ExecWithoutProcess
  <1>3. ASSUME NEW t \in Threads, Start(t)
        PROVE  IInv' /\ WakesAtExit
    BY <1>3, StartInv
  <1>4. ASSUME NEW t \in Threads, StartPreempted(t)
        PROVE  IInv' /\ WakesAtExit
    BY <1>4, StartPreemptedInv
  <1>5. ASSUME NEW t \in Threads, NEW i \in 0 .. MaxId, Join(t, i)
        PROVE  IInv' /\ WakesAtExit
    BY <1>5, JoinInv
  <1>6. ASSUME NEW t \in Threads, JoinReturn(t)
        PROVE  IInv' /\ WakesAtExit
    BY <1>6, JoinReturnInv
  <1>7. ASSUME NEW t \in Threads, Exit(t)
        PROVE  IInv' /\ WakesAtExit
    BY <1>7, ExitInv
  <1>8. ASSUME NEW t \in Threads, Yield(t) /\ UNCHANGED processVars
        PROVE  IInv' /\ WakesAtExit
    BY <1>8, YieldInv
  <1>9. ASSUME NEW t \in Threads, YieldReturn(t)
        PROVE  IInv' /\ WakesAtExit
    BY <1>9, YieldReturnInv
  <1>10. ASSUME UNCHANGED vars
         PROVE  IInv' /\ WakesAtExit
    BY <1>10, StutterInv DEF vars, processVars, IInv, ProcessTypeOK
  <1>11. QED
    BY <1>1, <1>2, <1>3, <1>4, <1>5, <1>6, <1>7, <1>8, <1>9, <1>10 DEF Next

LEMMA IInvImplies == IInv => ProcessesInv /\ ParentsAsleep
  <1> SUFFICES ASSUME IInv PROVE ProcessesInv /\ ParentsAsleep
    OBVIOUS
  <1>1. TypeOK
    BY DEF IInv, SchedulerInv, ProcessTypeOK, TypeOK
  <1>2. ActiveThreadsExact /\ ParentsAsleep
    BY DEF IInv, FamilyInv
  <1>3. FinishedWillBeDestroyed
    BY DEF IInv, SchedulerInv, OneCarcass, FinishedWillBeDestroyed
  <1>4. QED
    BY <1>1, <1>2, <1>3 DEF ProcessesInv

\* For any number of threads and processes: the list of processes has every
\* process that has not finished, once and with an id of its own, although Finish
\* counts the turns of its loop with the length of the list it shortens; and a
\* finished thread is never left for good when a new one is switched in.
THEOREM ProcessListExact == Spec => []ProcessesInv
  BY InitIInv, NextIInv, IInvImplies, PTL DEF Spec

\* For any number of threads and processes, the thread that Finish wakes is asleep
\* in the Join of the process that finishes.
THEOREM WokenParentsAsleep == Spec => []ParentsAsleep
  BY InitIInv, NextIInv, IInvImplies, PTL DEF Spec

\* For any number of threads and processes, a sleeping joiner becomes ready only in
\* the step that ends the program it named.
THEOREM JoinWaits == Spec => JoinWaitsForExit
  <1>1. [WakesAtExit]_vars => [\A t \in Threads :
                                 JoinAsleep(t) /\ ~ JoinAsleep(t)' =>
                                    getID(joining[t]) # {} /\ getID(joining[t])' = {}]_vars
    BY DEF WakesAtExit
  <1>2. QED
    BY <1>1, InitIInv, NextIInv, PTL DEF Spec, JoinWaitsForExit
=============================================================================
