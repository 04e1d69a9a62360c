------------------------------ MODULE TimeProofs ------------------------------
(***************************************************************************)
(* The list of pending interrupts stays sorted and well linked, no         *)
(* interrupt is lost or doubled, and they are taken in the order of their  *)
(* times, whatever the times of the devices and of the timer.              *)
(***************************************************************************)
EXTENDS Main, FiniteSetTheorems, SequenceTheorems, WellFoundedInduction, TLAPS

(* Natural numbers.                                                        *)

LEMMA LeastNat ==
  ASSUME NEW T, T \subseteq Nat, T # {}
  PROVE  /\ Min(T) \in T
         /\ \A y \in T : Min(T) <= y
  <1> DEFINE R == OpToRel(<, Nat)
  <1>1. IsWellFoundedOn(R, Nat)
    BY NatLessThanWellFounded
  <1>2. PICK x \in T : \A y \in T : ~ (<<y, x>> \in R)
    <2> HIDE DEF R
    <2> QED
      BY <1>1, WFMin
  <1>3. ASSUME NEW y \in T PROVE x <= y
    <2>1. <<y, x>> \notin R /\ x \in Nat /\ y \in Nat
      <3> HIDE DEF R
      <3> QED
        BY <1>2
    <2>2. QED
      BY <2>1 DEF OpToRel
  <1>4. QED
    BY <1>2, <1>3, Zenon DEF Min

LEMMA NatSetInduction ==
  ASSUME NEW S, 0 \in S, \A n \in Nat : n \in S => n + 1 \in S
  PROVE  Nat \subseteq S
  <1> DEFINE T == Nat \ S
  <1>1. SUFFICES ASSUME T # {} PROVE FALSE
    OBVIOUS
  <1>2. Min(T) \in T /\ \A y \in T : Min(T) <= y
    <2>1. T \subseteq Nat
      OBVIOUS
    <2> HIDE DEF T
    <2> QED
      BY <1>1, <2>1, LeastNat
  <1>3. Min(T) # 0 /\ Min(T) \in Nat
    BY <1>2
  <1>4. Min(T) - 1 \in Nat /\ Min(T) - 1 \notin T
    BY <1>2, <1>3
  <1>5. (Min(T) - 1) + 1 \in S
    BY <1>4
  <1>6. QED
    BY <1>2, <1>3, <1>5

-----------------------------------------------------------------------------
(* Lists.                                                                  *)

Interrupt == [item : IntTypes, key : Nat]

Links == Elements \cup {NULL}

\* a list of the elements of D
ListsOver(D) ==
    [first : Links, last : Links, next : [D -> Links],
     content : [D -> Interrupt]]

\* es are the elements of the list l, as they are linked
Linked(l, es) ==
    /\ es \in Seq(Elements) /\ IsInjective(es)
    /\ l \in ListsOver(ToSet(es))
    /\ l.first = IF es = <<>> THEN NULL ELSE es[1]
    /\ l.last = IF es = <<>> THEN NULL ELSE es[Len(es)]
    /\ \A i \in 1 .. Len(es) : l.next[es[i]] = IF i = Len(es) THEN NULL ELSE es[i + 1]

\* their keys ascend
Ascending(l, es) ==
    \A i, j \in 1 .. Len(es) : i <= j => l.content[es[i]].key <= l.content[es[j]].key

\* No more elements than there are.
LEMMA LengthBounded ==
  ASSUME NEW es \in Seq(Elements), IsInjective(es)
  PROVE  Len(es) <= Cardinality(Elements)
  <1> DEFINE n == Len(es)
  <1>1. n \in Nat /\ DOMAIN es = 1 .. n
    OBVIOUS
  <1>2. es \in Injection(1 .. n, Elements)
    BY <1>1 DEF Injection, IsInjective
  <1>3. IsFiniteSet(1 .. n) /\ Cardinality(1 .. n) = n
    BY <1>1, FS_Interval
  <1>4. Cardinality(1 .. n) <= Cardinality(Elements)
    BY <1>2, <1>3, ListAssumption, FS_Injection
  <1>5. QED
    BY <1>3, <1>4

\* Following the pointers finds the elements.
LEMMA ChainIsLinked ==
  ASSUME NEW l, NEW es, Linked(l, es)
  PROVE  Chain(l) = es
  <1> DEFINE n == Len(es)
             c == Cardinality(Elements)
             Body(f) == [i \in 1 .. c |->
                            IF i = 1 THEN l.first
                            ELSE IF f[i - 1] = NULL THEN NULL ELSE l.next[f[i - 1]]]
             at == CHOOSE f : f = Body(f)
             g == [i \in 1 .. c |-> IF i <= n THEN es[i] ELSE NULL]
  <1>1. /\ n \in Nat /\ c \in Nat /\ n <= c
        /\ es \in [1 .. n -> Elements]
        /\ \A i \in 1 .. n : es[i] # NULL
    BY LengthBounded, ListAssumption, FS_CardinalityType DEF Linked
  <1>1a. es = <<>> <=> n = 0
    <2>1. es \in Seq(Elements)
      BY DEF Linked
    <2>2. QED
      BY <2>1, EmptySeq
  <1>2. g = Body(g)
    <2>1. ASSUME NEW i \in 1 .. c
          PROVE  g[i] = IF i = 1 THEN l.first
                        ELSE IF g[i - 1] = NULL THEN NULL ELSE l.next[g[i - 1]]
      <3>1. CASE i = 1
        <4>1. l.first = IF 1 <= n THEN es[1] ELSE NULL
          <5>1. l.first = IF es = <<>> THEN NULL ELSE es[1]
            BY Zenon DEF Linked
          <5>2. 1 <= n <=> n # 0
            BY <1>1
          <5> HIDE DEF n
          <5>3. QED
            BY <1>1a, <5>1, <5>2
        <4>2. g[i] = IF 1 <= n THEN es[1] ELSE NULL
          BY <3>1
        <4> HIDE DEF g
        <4>3. QED
          BY <3>1, <4>1, <4>2
      <3>2. CASE i # 1 /\ i - 1 <= n
        <4>1. /\ i - 1 \in 1 .. n /\ i - 1 \in 1 .. c /\ (i - 1) + 1 = i
              /\ i <= n <=> i - 1 # n
          BY <1>1, <3>2
        <4>2. l.next[es[i - 1]] = IF i - 1 = n THEN NULL ELSE es[i]
          BY <4>1 DEF Linked
        <4>3. g[i - 1] = es[i - 1] /\ es[i - 1] # NULL
          BY <1>1, <3>2, <4>1
        <4>4. QED
          BY <1>1, <3>2, <4>1, <4>2, <4>3
      <3>3. CASE i # 1 /\ ~ (i - 1 <= n)
        BY <1>1, <3>3
      <3>4. QED
        BY <3>1, <3>2, <3>3
    <2>2. QED
      BY <2>1
  <1>3. at = Body(at)
    <2> HIDE DEF Body, g
    <2> QED
      BY <1>2, Zenon
  <1>4. Chain(l) = [i \in 1 .. Cardinality({k \in DOMAIN at : at[k] # NULL}) |-> at[i]]
    BY Zenon DEF Chain
  <1> HIDE DEF at
  <1>5. \A i \in 1 .. c : at[i] = g[i]
    <2> DEFINE T == {i \in Nat : i + 1 <= c => at[i + 1] = g[i + 1]}
    <2>1. 0 \in T
      <3>1. ASSUME 0 + 1 <= c PROVE at[0 + 1] = g[0 + 1]
        <4>1. 1 \in 1 .. c
          BY <1>1, <3>1
        <4>2. at[1] = l.first /\ g[1] = l.first
          BY <1>2, <1>3, <4>1, Zenon
        <4>3. QED
          BY <4>2
      <3>2. QED
        BY <3>1
    <2>2. ASSUME NEW i \in Nat, i \in T
          PROVE  i + 1 \in T
      <3>1. SUFFICES ASSUME (i + 1) + 1 <= c
                     PROVE  at[(i + 1) + 1] = g[(i + 1) + 1]
        OBVIOUS
      <3> DEFINE k == (i + 1) + 1
      <3>2. k \in 1 .. c /\ k # 1 /\ k - 1 = i + 1
        BY <1>1, <3>1
      <3>3. at[k - 1] = g[k - 1]
        BY <1>1, <2>2, <3>1, <3>2
      <3> HIDE DEF k, g
      <3>4. at[k] = IF at[k - 1] = NULL THEN NULL ELSE l.next[at[k - 1]]
        BY <1>3, <3>2, Zenon
      <3>5. g[k] = IF g[k - 1] = NULL THEN NULL ELSE l.next[g[k - 1]]
        BY <1>2, <3>2, Zenon
      <3>6. QED
        BY <3>3, <3>4, <3>5 DEF k
    <2>3. Nat \subseteq T
      <3> HIDE DEF T
      <3> QED
        BY <2>1, <2>2, NatSetInduction
    <2>4. ASSUME NEW i \in 1 .. c PROVE at[i] = g[i]
      <3>1. i - 1 \in Nat /\ (i - 1) + 1 = i /\ i <= c
        BY <1>1
      <3>2. i - 1 \in T
        BY <2>3, <3>1
      <3> HIDE DEF g
      <3>3. QED
        BY <3>1, <3>2
    <2>5. QED
      BY <2>4
  <1>6. DOMAIN at = 1 .. c
    BY <1>3, Zenon
  <1>7. {k \in DOMAIN at : at[k] # NULL} = 1 .. n
    BY <1>1, <1>5, <1>6
  <1>8. Cardinality(1 .. n) = n
    <2> HIDE DEF n
    <2> QED
      BY <1>1, FS_Interval
  <1>9. Chain(l) = [i \in 1 .. n |-> at[i]]
    BY <1>4, <1>7, <1>8
  <1>10. [i \in 1 .. n |-> at[i]] = es
    BY <1>1, <1>5
  <1>11. QED
    BY <1>9, <1>10

-----------------------------------------------------------------------------
(* SortedInsert and SortedRemove.                                          *)

\* e is put in front of the jth of es
Inserted(es, j, e) ==
    [i \in 1 .. Len(es) + 1 |->
        IF i < j THEN es[i] ELSE IF i = j THEN e ELSE es[i - 1]]

LEMMA InsertedSeq ==
  ASSUME NEW es \in Seq(Elements), IsInjective(es), NEW j \in 1 .. Len(es) + 1,
         NEW e \in Elements \ ToSet(es)
  PROVE  /\ Inserted(es, j, e) \in Seq(Elements)
         /\ Len(Inserted(es, j, e)) = Len(es) + 1
         /\ IsInjective(Inserted(es, j, e))
         /\ ToSet(Inserted(es, j, e)) = ToSet(es) \cup {e}
  <1> DEFINE n == Len(es)
             s == Inserted(es, j, e)
  <1>1. /\ n \in Nat /\ DOMAIN es = 1 .. n /\ es \in [1 .. n -> Elements]
        /\ \A i \in 1 .. n : es[i] # e
        /\ \A i, k \in 1 .. n : es[i] = es[k] => i = k
    BY DEF ToSet, IsInjective
  <1>2. /\ DOMAIN s = 1 .. n + 1
        /\ \A i \in 1 .. n + 1 :
              s[i] = IF i < j THEN es[i] ELSE IF i = j THEN e ELSE es[i - 1]
    BY DEF Inserted
  <1>3. s \in [1 .. n + 1 -> Elements]
    BY <1>1 DEF Inserted
  <1> HIDE DEF n, s
  <1>4. s \in Seq(Elements) /\ Len(s) = n + 1
    BY <1>1, <1>3
  <1>5. IsInjective(s)
    <2> SUFFICES ASSUME NEW i \in 1 .. n + 1, NEW k \in 1 .. n + 1, s[i] = s[k]
                 PROVE  i = k
      BY <1>2 DEF IsInjective
    <2>1. j \in 1 .. n + 1
      BY DEF n
    <2>2. QED
      BY <1>1, <1>2, <2>1
  <1>6. ToSet(s) = ToSet(es) \cup {e}
    <2>1. j \in 1 .. n + 1
      BY DEF n
    <2>2. \A i \in 1 .. n + 1 : s[i] \in ToSet(es) \cup {e}
      BY <1>1, <1>2, <2>1 DEF ToSet
    <2>3. \A i \in 1 .. n : \E k \in 1 .. n + 1 : s[k] = es[i]
      <3> SUFFICES ASSUME NEW i \in 1 .. n PROVE \E k \in 1 .. n + 1 : s[k] = es[i]
        OBVIOUS
      <3>1. CASE i < j
        BY <1>1, <1>2, <3>1
      <3>2. CASE ~ (i < j)
        <4>1. i + 1 \in 1 .. n + 1 /\ ~ (i + 1 < j) /\ i + 1 # j /\ (i + 1) - 1 = i
          BY <1>1, <2>1, <3>2
        <4>2. s[i + 1] = es[i]
          BY <1>2, <4>1
        <4>3. QED
          BY <4>1, <4>2
      <3>3. QED
        BY <3>1, <3>2
    <2>4. s[j] = e
      BY <1>2, <2>1
    <2>5. ToSet(s) = {s[i] : i \in 1 .. n + 1} /\ ToSet(es) = {es[i] : i \in 1 .. n}
      BY <1>1, <1>2 DEF ToSet
    <2>6. QED
      BY <2>1, <2>2, <2>3, <2>4, <2>5
  <1>7. QED
    BY <1>4, <1>5, <1>6 DEF s, n

\* the list l of the elements es with e, for r, put in front of the jth
Placed(l, es, j, e, r) ==
    [first   |-> IF j = 1 THEN e ELSE l.first,
     last    |-> IF j = Len(es) + 1 THEN e ELSE l.last,
     next    |-> [x \in ToSet(es) \cup {e} |->
                     IF x = e THEN IF j = Len(es) + 1 THEN NULL ELSE es[j]
                     ELSE IF j > 1 /\ x = es[j - 1] THEN e ELSE l.next[x]],
     content |-> [x \in ToSet(es) \cup {e} |-> IF x = e THEN r ELSE l.content[x]]]

LEMMA PlacedLinked ==
  ASSUME NEW l, NEW es, Linked(l, es), NEW j \in 1 .. Len(es) + 1,
         NEW e \in Elements \ ToSet(es), NEW r \in Interrupt
  PROVE  Linked(Placed(l, es, j, e, r), Inserted(es, j, e))
  <1> DEFINE n == Len(es)
             s == Inserted(es, j, e)
             D == ToSet(es)
             m == Placed(l, es, j, e, r)
  <1>1. /\ es \in Seq(Elements) /\ IsInjective(es) /\ l \in ListsOver(D)
        /\ l.first = (IF es = <<>> THEN NULL ELSE es[1])
        /\ l.last = (IF es = <<>> THEN NULL ELSE es[n])
        /\ \A i \in 1 .. n : l.next[es[i]] = IF i = n THEN NULL ELSE es[i + 1]
    BY Zenon DEF Linked
  <1>2. /\ n \in Nat /\ es \in [1 .. n -> Elements] /\ \A i \in 1 .. n : es[i] \in D
        /\ es = <<>> <=> n = 0
        /\ \A i, k \in 1 .. n : es[i] = es[k] => i = k
        /\ e \notin D /\ j \in 1 .. n + 1
    BY <1>1, EmptySeq DEF ToSet, IsInjective
  <1>3. /\ s \in Seq(Elements) /\ Len(s) = n + 1 /\ IsInjective(s) /\ ToSet(s) = D \cup {e}
    BY <1>1, InsertedSeq
  <1>4. \A i \in 1 .. n + 1 :
            s[i] = IF i < j THEN es[i] ELSE IF i = j THEN e ELSE es[i - 1]
    BY DEF Inserted
  <1>5. s # <<>>
    BY <1>2, <1>3, EmptySeq
  <1>6. m \in ListsOver(D \cup {e})
    BY <1>1, <1>2 DEF Placed, ListsOver, Links
  <1>7. m.first = s[1]
    BY <1>1, <1>2, <1>4 DEF Placed
  <1>8. m.last = s[n + 1]
    BY <1>1, <1>2, <1>4 DEF Placed
  <1>9. ASSUME NEW i \in 1 .. n + 1
        PROVE  m.next[s[i]] = IF i = n + 1 THEN NULL ELSE s[i + 1]
    <2>1. \A x \in D \cup {e} :
              m.next[x] = IF x = e THEN IF j = n + 1 THEN NULL ELSE es[j]
                          ELSE IF j > 1 /\ x = es[j - 1] THEN e ELSE l.next[x]
      BY DEF Placed
    <2> HIDE DEF n, s, D, m
    <2>2. CASE i = j
      BY <1>2, <1>4, <2>1, <2>2
    <2>3. CASE i < j
      <3>1. s[i] = es[i] /\ es[i] \in D /\ es[i] # e /\ i \in 1 .. n /\ i # n + 1
        BY <1>2, <1>4, <2>3
      <3>2. CASE i = j - 1
        BY <1>2, <1>4, <2>1, <2>3, <3>1, <3>2
      <3>3. CASE i # j - 1
        <4>1. es[i] # es[j - 1] /\ i + 1 < j /\ i # n
          BY <1>2, <2>3, <3>1, <3>3
        <4>2. m.next[s[i]] = es[i + 1]
          BY <1>1, <2>1, <3>1, <4>1
        <4>3. s[i + 1] = es[i + 1]
          BY <1>2, <1>4, <4>1
        <4>4. QED
          BY <3>1, <4>2, <4>3
      <3>4. QED
        BY <3>2, <3>3
    <2>4. CASE i > j
      <3>1. i - 1 \in 1 .. n /\ ~ (i < j) /\ i # j /\ i - 1 # j - 1 /\ (i - 1) + 1 = i
        BY <1>2, <2>4
      <3>2. s[i] = es[i - 1] /\ es[i - 1] \in D /\ es[i - 1] # e
        BY <1>2, <1>4, <3>1
      <3>3. j > 1 => es[i - 1] # es[j - 1]
        BY <1>2, <3>1
      <3>4. m.next[s[i]] = IF i - 1 = n THEN NULL ELSE es[i]
        BY <1>1, <2>1, <3>1, <3>2, <3>3
      <3>5. i # n + 1 => s[i + 1] = es[i]
        BY <1>2, <1>4, <2>4
      <3>6. QED
        BY <1>2, <3>4, <3>5
    <2>5. QED
      BY <1>2, <2>2, <2>3, <2>4
  <1>10. QED
    <2> HIDE DEF n, s, D, m
    <2>1. Linked(m, s)
      BY <1>3, <1>5, <1>6, <1>7, <1>8, <1>9, Zenon DEF Linked
    <2>2. QED
      BY <2>1 DEF m, s

LEMMA FreshAddress ==
  ASSUME NEW l, NEW D, l \in ListsOver(D), Elements \ D # {}
  PROVE  Fresh(l) \in Elements \ D
  <1>1. DOMAIN l.next = D
    BY DEF ListsOver
  <1> DEFINE T == Elements \ D
  <1>2. T \subseteq Nat /\ T # {} /\ Fresh(l) = Min(T)
    BY <1>1, ListAssumption DEF Fresh
  <1>3. Min(T) \in T
    <2> HIDE DEF T
    <2> QED
      BY <1>2, LeastNat
  <1>4. QED
    BY <1>2, <1>3

\* The fields that the pointers are written to.
LEMMA OnlyFields ==
  ASSUME NEW f, NEW la, NEW nx, NEW co, NEW w, NEW e \in Elements,
         w = [first |-> f, last |-> la, next |-> nx, content |-> co]
  PROVE  Only(w, e) = [first |-> e, last |-> e, next |-> nx, content |-> co]
  <1> DEFINE v == [w EXCEPT !.first = e]
  <1>1. v = [first |-> e, last |-> la, next |-> nx, content |-> co]
    OBVIOUS
  <1>2. Only(w, e) = [v EXCEPT !.last = e]
    BY DEF Only
  <1> HIDE DEF v
  <1>3. QED
    BY <1>1, <1>2

LEMMA BeforeFirstFields ==
  ASSUME NEW f, NEW la, NEW nx, NEW co, NEW w, NEW e \in Elements,
         w = [first |-> f, last |-> la, next |-> nx, content |-> co]
  PROVE  BeforeFirst(w, e)
             = [first |-> e, last |-> la, next |-> [nx EXCEPT ![e] = f], content |-> co]
  <1> DEFINE v == [w EXCEPT !.next[e] = w.first]
             to == [nx EXCEPT ![e] = f]
  <1>1. v = [first |-> f, last |-> la, next |-> to, content |-> co]
    OBVIOUS
  <1>2. BeforeFirst(w, e) = [v EXCEPT !.first = e]
    BY DEF BeforeFirst
  <1> HIDE DEF v, to
  <1>3. [v EXCEPT !.first = e] = [first |-> e, last |-> la, next |-> to, content |-> co]
    BY <1>1
  <1>4. QED
    BY <1>2, <1>3 DEF to

LEMMA AfterLastFields ==
  ASSUME NEW f, NEW la, NEW nx, NEW co, NEW w, NEW e \in Elements,
         w = [first |-> f, last |-> la, next |-> nx, content |-> co]
  PROVE  AfterLast(w, e)
             = [first |-> f, last |-> e, next |-> [nx EXCEPT ![la] = e], content |-> co]
  <1> DEFINE v == [w EXCEPT !.next[w.last] = e]
             to == [nx EXCEPT ![la] = e]
  <1>1. v = [first |-> f, last |-> la, next |-> to, content |-> co]
    OBVIOUS
  <1>2. AfterLast(w, e) = [v EXCEPT !.last = e]
    BY DEF AfterLast
  <1> HIDE DEF v, to
  <1>3. [v EXCEPT !.last = e] = [first |-> f, last |-> e, next |-> to, content |-> co]
    BY <1>1
  <1>4. QED
    BY <1>2, <1>3 DEF to

Fields(w, f, la, nx, co) == w = [first |-> f, last |-> la, next |-> nx, content |-> co]

Between(w, e, x, ptr) == [w EXCEPT !.next[e] = x, !.next[ptr] = e]

LEMMA BetweenFields ==
  ASSUME NEW f, NEW la, NEW nx, NEW co, NEW w, NEW e \in Elements,
         NEW x \in Links, NEW ptr \in Elements, Fields(w, f, la, nx, co)
  PROVE  Fields(Between(w, e, x, ptr), f, la, [nx EXCEPT ![e] = x, ![ptr] = e], co)
  <1> DEFINE v == [w EXCEPT !.next[e] = x]
             to == [nx EXCEPT ![e] = x]
             to2 == [to EXCEPT ![ptr] = e]
  <1>1. v = [first |-> f, last |-> la, next |-> to, content |-> co]
    BY DEF Fields
  <1> HIDE DEF v, to
  <1>2. v.next = to
    BY <1>1
  <1>3. [v EXCEPT !.next[ptr] = e] = [v EXCEPT !.next = to2]
    BY <1>2
  <1> HIDE DEF to2
  <1>4. [v EXCEPT !.next = to2] = [first |-> f, last |-> la, next |-> to2, content |-> co]
    BY <1>1
  <1>5. [v EXCEPT !.next[ptr] = e] = [first |-> f, last |-> la, next |-> to2, content |-> co]
    BY <1>3, <1>4
  <1>6. QED
    BY <1>5, Zenon DEF v, to, to2, Between, Fields

\* SortedInsert puts the new element behind those whose keys are not greater.
LEMMA SortedInsertPlaces ==
  ASSUME NEW l, NEW es, Linked(l, es), Ascending(l, es), Elements \ ToSet(es) # {},
         NEW item \in IntTypes, NEW key \in Nat
  PROVE  \E j \in 1 .. Len(es) + 1 :
            /\ SortedInsert(l, item, key)
                  = Placed(l, es, j, Fresh(l), [item |-> item, key |-> key])
            /\ \A i \in 1 .. Len(es) :
                  /\ i < j => l.content[es[i]].key <= key
                  /\ i >= j => key < l.content[es[i]].key
  <1> DEFINE D == ToSet(es)
             n == Len(es)
             e == Fresh(l)
             rec == [item |-> item, key |-> key]
             greater == {i \in 1 .. n : key < l.content[es[i]].key}
  <1>1. /\ es \in Seq(Elements) /\ IsInjective(es) /\ l \in ListsOver(D)
        /\ l.first = (IF es = <<>> THEN NULL ELSE es[1])
        /\ l.last = (IF es = <<>> THEN NULL ELSE es[n])
    BY Zenon DEF Linked
  <1>2. /\ n \in Nat /\ es \in [1 .. n -> Elements] /\ \A i \in 1 .. n : es[i] \in D
        /\ es = <<>> <=> n = 0
        /\ \A i, k \in 1 .. n : es[i] = es[k] => i = k
        /\ \A i \in 1 .. n : es[i] # NULL
        /\ D \subseteq Elements
    BY <1>1, EmptySeq, ListAssumption DEF ToSet, IsInjective
  <1>3. e \in Elements \ D
    <2> HIDE DEF D, e
    <2>1. Elements \ D # {}
      BY DEF D
    <2>2. QED
      BY <1>1, <2>1, FreshAddress DEF e
  <1>4. Chain(l) = es /\ DOMAIN es = 1 .. n
    BY <1>2, ChainIsLinked
  <1>5. \A i \in 1 .. n : l.content[es[i]] \in Interrupt /\ l.content[es[i]].key \in Nat
    BY <1>1, <1>2 DEF ListsOver, Interrupt
  <1>6. \A i, k \in 1 .. n : i <= k => l.content[es[i]].key <= l.content[es[k]].key
    BY DEF Ascending
  <1>7. IsEmptyList(l) <=> n = 0
    BY <1>1, <1>2 DEF IsEmptyList
  <1> DEFINE w == WithElement(l, item, key)
             wNext == [x \in D \cup {e} |-> IF x = e THEN NULL ELSE l.next[x]]
             wContent == [x \in D \cup {e} |-> IF x = e THEN rec ELSE l.content[x]]
  <1>8. w = [first |-> l.first, last |-> l.last, next |-> wNext, content |-> wContent]
    <2>1. With(l.next, e, NULL) = wNext /\ With(l.content, e, rec) = wContent
      BY <1>1 DEF With, ListsOver
    <2>2. w = [l EXCEPT !.next = With(l.next, e, NULL), !.content = With(l.content, e, rec)]
      BY DEF WithElement
    <2> HIDE DEF D, e, rec, w, wNext, wContent
    <2>3. QED
      BY <1>1, <2>1, <2>2 DEF ListsOver
  <1>9. SortedInsert(l, item, key) =
            CASE IsEmptyList(l) -> Only(w, e)
              [] 1 \in greater -> BeforeFirst(w, e)
              [] greater # {} /\ 1 \notin greater ->
                    [w EXCEPT !.next[e] = l.next[es[Min(greater) - 1]],
                              !.next[es[Min(greater) - 1]] = e]
              [] greater = {} /\ ~ IsEmptyList(l) -> AfterLast(w, e)
    BY <1>4 DEF SortedInsert
  <1> DEFINE P(j) == Placed(l, es, j, e, rec)
             PNext(j) == [x \in D \cup {e} |->
                             IF x = e THEN IF j = n + 1 THEN NULL ELSE es[j]
                             ELSE IF j > 1 /\ x = es[j - 1] THEN e ELSE l.next[x]]
  <1>10. ASSUME NEW j \in 1 .. n + 1
         PROVE  P(j) = [first |-> IF j = 1 THEN e ELSE l.first,
                        last |-> IF j = n + 1 THEN e ELSE l.last,
                        next |-> PNext(j), content |-> wContent]
    BY DEF Placed
  <1>11. SUFFICES \E j \in 1 .. n + 1 :
                     /\ SortedInsert(l, item, key) = P(j)
                     /\ \A i \in 1 .. n : /\ i < j => l.content[es[i]].key <= key
                                          /\ i >= j => key < l.content[es[i]].key
    OBVIOUS
  <1> HIDE DEF D, n, e, rec, greater, w, wContent, P
  <1>12. CASE n = 0
    <2>1. SortedInsert(l, item, key) = Only(w, e)
      BY <1>7, <1>9, <1>12 DEF greater
    <2>2. Only(w, e) = [first |-> e, last |-> e, next |-> wNext, content |-> wContent]
      <3> HIDE DEF wNext
      <3> QED
        BY <1>3, <1>8, OnlyFields
    <2>3. PNext(1) = wNext
      BY <1>12
    <2>4. QED
      BY <1>10, <1>12, <2>1, <2>2, <2>3
  <1>13. CASE n # 0 /\ 1 \in greater
    <2>1. SortedInsert(l, item, key) = BeforeFirst(w, e)
      BY <1>7, <1>9, <1>13
    <2>2. BeforeFirst(w, e) = [first |-> e, last |-> l.last,
                               next |-> [wNext EXCEPT ![e] = l.first], content |-> wContent]
      <3> HIDE DEF wNext
      <3> QED
        BY <1>3, <1>8, BeforeFirstFields
    <2>3. [wNext EXCEPT ![e] = l.first] = PNext(1)
      <3>1. l.first = es[1] /\ n + 1 # 1 /\ ~ (1 > 1)
        BY <1>1, <1>2, <1>13
      <3>2. QED
        BY <3>1
    <2>4. \A i \in 1 .. n : key < l.content[es[i]].key
      BY <1>2, <1>5, <1>6, <1>13 DEF greater
    <2>5. QED
      <3> HIDE DEF PNext, wNext
      <3>1. SortedInsert(l, item, key) = P(1)
        BY <1>2, <1>10, <1>13, <2>1, <2>2, <2>3
      <3>2. 1 \in 1 .. n + 1
        BY <1>2
      <3>3. QED
        BY <2>4, <3>1, <3>2
  <1>14. CASE n # 0 /\ 1 \notin greater /\ greater # {}
    <2> DEFINE j == Min(greater)
               ptr == es[j - 1]
    <2>1. j \in greater /\ \A y \in greater : j <= y
      <3>1. greater \subseteq Nat
        BY <1>2 DEF greater
      <3>2. QED
        BY <1>14, <3>1, LeastNat
    <2> HIDE DEF j
    <2>2. j \in 1 .. n /\ j # 1 /\ j - 1 \in 1 .. n /\ (j - 1) + 1 = j /\ j - 1 # n
      BY <1>2, <1>14, <2>1 DEF greater
    <2>3. SortedInsert(l, item, key)
              = [w EXCEPT !.next[e] = l.next[ptr], !.next[ptr] = e]
      BY <1>7, <1>9, <1>14 DEF j
    <2>4. ptr \in D /\ ptr # e /\ l.next[ptr] = es[j]
      <3>1. l.next[es[j - 1]] = IF j - 1 = n THEN NULL ELSE es[(j - 1) + 1]
        BY <2>2 DEF Linked, n
      <3>2. QED
        BY <1>2, <1>3, <2>2, <3>1
    <2>5. [w EXCEPT !.next[e] = l.next[ptr], !.next[ptr] = e]
              = [first |-> l.first, last |-> l.last,
                 next |-> [wNext EXCEPT ![e] = l.next[ptr], ![ptr] = e],
                 content |-> wContent]
      <3> HIDE DEF wNext, ptr
      <3> DEFINE x == l.next[ptr]
      <3>0. x \in Links /\ ptr \in Elements /\ e \in Elements
        BY <1>2, <1>3, <2>2, <2>4 DEF Links, ptr
      <3> DEFINE f == l.first
                 la == l.last
      <3>1. Fields(w, f, la, wNext, wContent)
        BY <1>8 DEF Fields
      <3> HIDE DEF x, f, la
      <3>2. Fields(Between(w, e, x, ptr), f, la, [wNext EXCEPT ![e] = x, ![ptr] = e], wContent)
        BY <3>0, <3>1, BetweenFields
      <3>3. QED
        BY <3>2, Zenon DEF x, f, la, Between, Fields
    <2>6. [wNext EXCEPT ![e] = l.next[ptr], ![ptr] = e] = PNext(j)
      <3>1. j # n + 1 /\ j > 1
        BY <1>2, <2>2
      <3>2. QED
        BY <1>2, <2>4, <3>1
    <2>7. \A i \in 1 .. n : /\ i < j => l.content[es[i]].key <= key
                            /\ i >= j => key < l.content[es[i]].key
      <3> SUFFICES ASSUME NEW i \in 1 .. n
                   PROVE  /\ i < j => l.content[es[i]].key <= key
                          /\ i >= j => key < l.content[es[i]].key
        OBVIOUS
      <3>1. i < j => i \notin greater
        BY <1>2, <2>1, <2>2
      <3>2. i >= j => l.content[es[j]].key <= l.content[es[i]].key
        BY <1>6, <2>2
      <3>3. key < l.content[es[j]].key
        BY <2>1 DEF greater
      <3>4. QED
        BY <1>5, <2>2, <3>1, <3>2, <3>3 DEF greater
    <2>8. QED
      <3> HIDE DEF PNext, wNext, ptr
      <3>1. SortedInsert(l, item, key) = P(j)
        BY <1>2, <1>10, <2>2, <2>3, <2>5, <2>6
      <3>2. j \in 1 .. n + 1
        BY <1>2, <2>2
      <3>3. QED
        BY <2>7, <3>1, <3>2
  <1>15. CASE n # 0 /\ greater = {}
    <2>1. SortedInsert(l, item, key) = AfterLast(w, e)
      BY <1>7, <1>9, <1>15
    <2>2. l.last = es[n] /\ n \in 1 .. n
      BY <1>1, <1>2, <1>15
    <2>3. AfterLast(w, e) = [first |-> l.first, last |-> e,
                             next |-> [wNext EXCEPT ![l.last] = e], content |-> wContent]
      <3> HIDE DEF wNext
      <3> QED
        BY <1>3, <1>8, AfterLastFields
    <2>4. [wNext EXCEPT ![l.last] = e] = PNext(n + 1)
      <3>1. n + 1 > 1 /\ (n + 1) - 1 = n
        BY <1>2, <1>15
      <3>2. es[n] \in D /\ es[n] # e
        BY <1>2, <1>3, <2>2
      <3>3. QED
        BY <2>2, <3>1, <3>2
    <2>5. \A i \in 1 .. n : l.content[es[i]].key <= key
      BY <1>5, <1>15 DEF greater
    <2>6. QED
      <3> HIDE DEF PNext, wNext
      <3>0. n + 1 \in 1 .. n + 1 /\ n + 1 # 1
        BY <1>2, <1>15
      <3>1. SortedInsert(l, item, key) = P(n + 1)
        BY <1>10, <2>1, <2>3, <2>4, <3>0
      <3>2. n + 1 \in 1 .. n + 1 /\ \A i \in 1 .. n : i < n + 1 /\ ~ (i >= n + 1)
        BY <1>2
      <3>3. QED
        BY <2>5, <3>1, <3>2
  <1>16. QED
    BY <1>12, <1>13, <1>14, <1>15

LEMMA PlacedAscends ==
  ASSUME NEW l, NEW es, Linked(l, es), Ascending(l, es), NEW j \in 1 .. Len(es) + 1,
         NEW e \in Elements \ ToSet(es), NEW r \in Interrupt,
         \A i \in 1 .. Len(es) : /\ i < j => l.content[es[i]].key <= r.key
                                 /\ i >= j => r.key < l.content[es[i]].key
  PROVE  Ascending(Placed(l, es, j, e, r), Inserted(es, j, e))
  <1> DEFINE n == Len(es)
             s == Inserted(es, j, e)
             D == ToSet(es)
             m == Placed(l, es, j, e, r)
             old(i) == l.content[es[i]].key
  <1>1. /\ es \in Seq(Elements) /\ IsInjective(es) /\ l \in ListsOver(D)
    BY Zenon DEF Linked
  <1>2. /\ n \in Nat /\ es \in [1 .. n -> Elements] /\ \A i \in 1 .. n : es[i] \in D
        /\ e \notin D /\ j \in 1 .. n + 1
    BY <1>1 DEF ToSet
  <1>3. Len(s) = n + 1
    BY <1>1, InsertedSeq
  <1>4. \A i \in 1 .. n + 1 :
            s[i] = IF i < j THEN es[i] ELSE IF i = j THEN e ELSE es[i - 1]
    BY DEF Inserted
  <1>5. \A x \in D \cup {e} : m.content[x] = IF x = e THEN r ELSE l.content[x]
    BY DEF Placed
  <1>6. \A i \in 1 .. n : old(i) \in Nat
    BY <1>1, <1>2 DEF ListsOver, Interrupt
  <1>7. r.key \in Nat
    BY DEF Interrupt
  <1>8. \A i, k \in 1 .. n : i <= k => old(i) <= old(k)
    BY DEF Ascending
  <1>9. \A i \in 1 .. n : (i < j => old(i) <= r.key) /\ (i >= j => r.key < old(i))
    OBVIOUS
  <1> HIDE DEF n, s, D, m
  <1>10. ASSUME NEW i \in 1 .. n + 1
         PROVE  m.content[s[i]].key = IF i < j THEN old(i) ELSE IF i = j THEN r.key
                                      ELSE old(i - 1)
    <2>1. CASE i < j
      <3>1. i \in 1 .. n
        BY <1>2, <2>1
      <3>2. s[i] = es[i] /\ es[i] \in D /\ es[i] # e
        BY <1>2, <1>4, <2>1, <3>1
      <3>3. QED
        BY <1>5, <2>1, <3>2
    <2>2. CASE i = j
      <3>1. s[i] = e
        BY <1>2, <1>4, <2>2
      <3>2. QED
        BY <1>2, <1>5, <2>2, <3>1
    <2>3. CASE i > j
      <3>1. i - 1 \in 1 .. n /\ ~ (i < j) /\ i # j
        BY <1>2, <2>3
      <3>2. s[i] = es[i - 1] /\ es[i - 1] \in D /\ es[i - 1] # e
        BY <1>2, <1>4, <3>1
      <3>3. QED
        BY <1>5, <3>1, <3>2
    <2>4. QED
      BY <1>2, <2>1, <2>2, <2>3
  <1> HIDE DEF old
  <1>11. ASSUME NEW i \in 1 .. n + 1, NEW k \in 1 .. n + 1, i <= k
         PROVE  m.content[s[i]].key <= m.content[s[k]].key
    <2>1. /\ i < j => i \in 1 .. n
          /\ i > j => i - 1 \in 1 .. n /\ i - 1 >= j
          /\ k < j => k \in 1 .. n
          /\ k > j => k - 1 \in 1 .. n /\ k - 1 >= j
      BY <1>2
    <2>2. QED
      BY <1>2, <1>6, <1>7, <1>8, <1>9, <1>10, <1>11, <2>1
  <1>12. QED
    BY <1>3, <1>11 DEF Ascending, m, s

\* The list that is left when the first element is taken off.
Removed(l, es) ==
    [first   |-> l.next[es[1]],
     last    |-> IF Len(es) = 1 THEN NULL ELSE l.last,
     next    |-> [x \in ToSet(es) \ {es[1]} |-> l.next[x]],
     content |-> [x \in ToSet(es) \ {es[1]} |-> l.content[x]]]

LEMMA SortedRemoveRemoves ==
  ASSUME NEW l, NEW es, Linked(l, es), es # <<>>
  PROVE  SortedRemove(l) = Removed(l, es)
  <1> DEFINE n == Len(es)
             D == ToSet(es)
             nx == [x \in D \ {es[1]} |-> l.next[x]]
             co == [x \in D \ {es[1]} |-> l.content[x]]
  <1>1. /\ es \in Seq(Elements) /\ IsInjective(es) /\ l \in ListsOver(D)
        /\ l.first = es[1] /\ l.last = es[n]
        /\ \A i \in 1 .. n : l.next[es[i]] = IF i = n THEN NULL ELSE es[i + 1]
    BY Zenon DEF Linked
  <1>2. /\ n \in Nat \ {0} /\ 1 \in 1 .. n /\ n \in 1 .. n
        /\ es \in [1 .. n -> Elements] /\ \A i \in 1 .. n : es[i] # NULL
        /\ \A i, k \in 1 .. n : es[i] = es[k] => i = k
    BY <1>1, EmptySeq, ListAssumption DEF IsInjective
  <1>3. l.first = l.last <=> n = 1
    BY <1>1, <1>2
  <1>4. l.next[es[1]] = IF n = 1 THEN NULL ELSE es[2]
    <2> HIDE DEF n
    <2>1. l.next[es[1]] = IF 1 = n THEN NULL ELSE es[1 + 1]
      BY <1>1, <1>2
    <2>2. QED
      BY <2>1
  <1>5. ~ IsEmptyList(l)
    BY <1>1, <1>2 DEF IsEmptyList
  <1>6. SortedRemove(l) =
            [l EXCEPT !.first = IF @ = l.last THEN NULL ELSE l.next[@],
                      !.last = IF l.first = @ THEN NULL ELSE @,
                      !.next = [e \in DOMAIN @ \ {l.first} |-> @[e]],
                      !.content = [e \in DOMAIN @ \ {l.first} |-> @[e]]]
    BY <1>5 DEF SortedRemove
  <1>7. [e \in DOMAIN l.next \ {l.first} |-> l.next[e]] = nx
    BY <1>1 DEF ListsOver
  <1>8. [e \in DOMAIN l.content \ {l.first} |-> l.content[e]] = co
    BY <1>1 DEF ListsOver
  <1>9. SortedRemove(l) =
            [l EXCEPT !.first = IF l.first = l.last THEN NULL ELSE l.next[l.first],
                      !.last = IF l.first = l.last THEN NULL ELSE l.last,
                      !.next = [e \in DOMAIN l.next \ {l.first} |-> l.next[e]],
                      !.content = [e \in DOMAIN l.content \ {l.first} |-> l.content[e]]]
    BY <1>6
  <1>10. QED
    BY <1>1, <1>3, <1>4, <1>7, <1>8, <1>9 DEF Removed, ListsOver

LEMMA RemovedLinked ==
  ASSUME NEW l, NEW es, Linked(l, es), Ascending(l, es), es # <<>>
  PROVE  /\ Linked(Removed(l, es), Tail(es)) /\ Ascending(Removed(l, es), Tail(es))
         /\ ToSet(Tail(es)) = ToSet(es) \ {es[1]}
         /\ \A i \in 1 .. Len(es) : l.content[es[1]].key <= l.content[es[i]].key
  <1> DEFINE n == Len(es)
             s == Tail(es)
             D == ToSet(es)
             m == Removed(l, es)
  <1>1. /\ es \in Seq(Elements) /\ IsInjective(es) /\ l \in ListsOver(D)
        /\ l.first = es[1] /\ l.last = es[n]
        /\ \A i \in 1 .. n : l.next[es[i]] = IF i = n THEN NULL ELSE es[i + 1]
    BY Zenon DEF Linked
  <1>2. /\ n \in Nat \ {0} /\ 1 \in 1 .. n /\ n \in 1 .. n
        /\ es \in [1 .. n -> Elements]
        /\ \A i, k \in 1 .. n : es[i] = es[k] => i = k
        /\ D = {es[i] : i \in 1 .. n}
    BY <1>1, EmptySeq DEF IsInjective, ToSet
  <1>3. /\ s \in Seq(Elements) /\ Len(s) = n - 1
        /\ \A i \in 1 .. n - 1 : s[i] = es[i + 1]
        /\ DOMAIN s = 1 .. n - 1
    <2>1. s \in Seq(Elements) /\ Len(s) = n - 1
      BY <1>1, HeadTailProperties
    <2>2. ASSUME NEW i \in 1 .. Len(s) PROVE s[i] = es[i + 1]
      BY <1>1, <2>2, HeadTailProperties
    <2> HIDE DEF s, n
    <2>3. DOMAIN s = 1 .. Len(s)
      BY <2>1
    <2>4. QED
      BY <2>1, <2>2, <2>3
  <1>4. IsInjective(s)
    <2> HIDE DEF n, s
    <2> QED
      BY <1>2, <1>3 DEF IsInjective
  <1>5. ToSet(s) = D \ {es[1]}
    <2> HIDE DEF n, s, D
    <2>1. ToSet(s) = {s[i] : i \in 1 .. n - 1}
      BY <1>3 DEF ToSet
    <2>2. \A i \in 1 .. n - 1 : s[i] \in D \ {es[1]}
      BY <1>2, <1>3
    <2>3. ASSUME NEW x \in D, x # es[1]
          PROVE  \E i \in 1 .. n - 1 : s[i] = x
      <3>1. PICK k \in 1 .. n : es[k] = x
        BY <1>2
      <3>2. k - 1 \in 1 .. n - 1 /\ s[k - 1] = x
        BY <1>2, <1>3, <2>3, <3>1
      <3>3. QED
        BY <3>2
    <2>4. QED
      BY <2>1, <2>2, <2>3
  <1>6. s = <<>> <=> n = 1
    <2> HIDE DEF n, s
    <2>1. s = <<>> <=> Len(s) = 0
      BY <1>3, EmptySeq
    <2>2. QED
      BY <1>2, <1>3, <2>1
  <1>7. m \in ListsOver(ToSet(s))
    <2>1. es[1] \in D /\ \A x \in D : l.next[x] \in Links /\ l.content[x] \in Interrupt
      BY <1>1, <1>2 DEF ListsOver
    <2>2. l.last \in Links /\ NULL \in Links
      BY <1>1 DEF ListsOver, Links
    <2> HIDE DEF s, D
    <2>3. QED
      BY <1>5, <2>1, <2>2 DEF ListsOver, Removed, D
  <1>8. m.first = IF s = <<>> THEN NULL ELSE s[1]
    <2>1. m.first = l.next[es[1]]
      BY DEF Removed
    <2> HIDE DEF n, s, m
    <2>2. l.next[es[1]] = IF 1 = n THEN NULL ELSE es[1 + 1]
      BY <1>1, <1>2
    <2>3. n # 1 => 1 \in 1 .. n - 1
      BY <1>2
    <2>4. QED
      BY <1>3, <1>6, <2>1, <2>2, <2>3
  <1>9. m.last = IF s = <<>> THEN NULL ELSE s[n - 1]
    <2>1. m.last = IF n = 1 THEN NULL ELSE es[n]
      BY <1>1 DEF Removed
    <2> HIDE DEF n, s, m
    <2>2. n # 1 => n - 1 \in 1 .. n - 1 /\ (n - 1) + 1 = n
      BY <1>2
    <2>3. QED
      BY <1>3, <1>6, <2>1, <2>2
  <1>10. ASSUME NEW i \in 1 .. n - 1
         PROVE  m.next[s[i]] = IF i = n - 1 THEN NULL ELSE s[i + 1]
    <2>1. \A x \in D \ {es[1]} : m.next[x] = l.next[x]
      BY DEF Removed
    <2> HIDE DEF n, s, m, D
    <2>2. /\ i + 1 \in 1 .. n /\ i + 1 # 1
          /\ i = n - 1 <=> i + 1 = n
          /\ i # n - 1 => i + 1 \in 1 .. n - 1
      BY <1>2
    <2>3. s[i] = es[i + 1] /\ s[i] \in D \ {es[1]}
      BY <1>2, <1>3, <2>2
    <2>4. m.next[s[i]] = IF i + 1 = n THEN NULL ELSE es[(i + 1) + 1]
      BY <1>1, <2>1, <2>2, <2>3
    <2>5. QED
      BY <1>3, <2>2, <2>4
  <1>11. Linked(m, s)
    <2> HIDE DEF n, s, m, D
    <2>1. Len(s) = n - 1
      BY <1>3
    <2>2. QED
      BY <1>3, <1>4, <1>7, <1>8, <1>9, <1>10, <2>1, Zenon DEF Linked
  <1>12. \A i, k \in 1 .. n : i <= k => l.content[es[i]].key <= l.content[es[k]].key
    BY DEF Ascending
  <1>13. Ascending(m, s)
    <2>1. \A x \in D \ {es[1]} : m.content[x] = l.content[x]
      BY DEF Removed
    <2> HIDE DEF n, s, m, D
    <2>2. ASSUME NEW i \in 1 .. n - 1
          PROVE  i + 1 \in 1 .. n /\ m.content[s[i]] = l.content[es[i + 1]]
      <3>1. i + 1 \in 1 .. n /\ i + 1 # 1
        BY <1>2
      <3>2. s[i] = es[i + 1] /\ es[i + 1] \in D \ {es[1]}
        BY <1>2, <1>3, <3>1
      <3>3. QED
        BY <2>1, <3>1, <3>2
    <2>3. ASSUME NEW i \in 1 .. n - 1, NEW k \in 1 .. n - 1, i <= k
          PROVE  m.content[s[i]].key <= m.content[s[k]].key
      <3>1. i + 1 <= k + 1
        BY <1>2, <2>3
      <3>2. QED
        BY <1>12, <2>2, <3>1
    <2>4. QED
      BY <1>3, <2>3 DEF Ascending
  <1>14. \A i \in 1 .. n : l.content[es[1]].key <= l.content[es[i]].key
    <2> HIDE DEF n
    <2>1. \A i \in 1 .. n : 1 <= i
      BY <1>2
    <2>2. QED
      BY <1>2, <1>12, <2>1
  <1>15. QED
    BY <1>5, <1>11, <1>13, <1>14

-----------------------------------------------------------------------------
(* A list that is sorted and well linked, of the elements of D.            *)

Sound(l, D) == \E es : Linked(l, es) /\ Ascending(l, es) /\ ToSet(es) = D

LEMMA EmptySound == Sound(EmptyList, {})
  <1>1. Linked(EmptyList, <<>>) /\ Ascending(EmptyList, <<>>) /\ ToSet(<<>>) = {}
    BY DEF Linked, Ascending, EmptyList, ListsOver, Links, ToSet, IsInjective
  <1>2. QED
    BY <1>1, Zenon DEF Sound

\* The first element has the least key.
LEMMA FirstLeast ==
  ASSUME NEW l, NEW D, Sound(l, D)
  PROVE  /\ l.content \in [D -> Interrupt]
         /\ D \subseteq Elements
         /\ IsEmptyList(l) <=> D = {}
         /\ D # {} => /\ l.first \in D
                      /\ SortedFirst(l) = l.content[l.first]
                      /\ \A x \in D : l.content[l.first].key <= l.content[x].key
  <1>1. PICK es : Linked(l, es) /\ Ascending(l, es) /\ ToSet(es) = D
    BY DEF Sound
  <1>2. /\ es \in Seq(Elements) /\ l \in ListsOver(D)
        /\ l.first = (IF es = <<>> THEN NULL ELSE es[1])
    BY <1>1 DEF Linked
  <1> DEFINE n == Len(es)
  <1>3. /\ n \in Nat /\ es \in [1 .. n -> Elements] /\ D = {es[i] : i \in 1 .. n}
        /\ es = <<>> <=> n = 0
    BY <1>1, <1>2, EmptySeq DEF ToSet
  <1>4. D \subseteq Elements /\ (D = {} <=> n = 0)
    <2> HIDE DEF n
    <2>1. n = 0 => 1 .. n = {}
      BY <1>3
    <2>2. n # 0 => 1 \in 1 .. n
      BY <1>3
    <2>3. QED
      BY <1>3, <2>1, <2>2
  <1>5. l.content \in [D -> Interrupt]
    BY <1>2 DEF ListsOver
  <1>6. IsEmptyList(l) <=> D = {}
    <2> HIDE DEF n
    <2>1. n # 0 => es[1] \in Elements
      <3>1. n # 0 => 1 \in 1 .. n
        BY <1>3
      <3>2. QED
        BY <1>3, <3>1
    <2>2. QED
      BY <1>2, <1>3, <1>4, <2>1, ListAssumption DEF IsEmptyList
  <1>7. ASSUME D # {}
        PROVE  /\ l.first \in D
               /\ SortedFirst(l) = l.content[l.first]
               /\ \A x \in D : l.content[l.first].key <= l.content[x].key
    <2>1. es # <<>> /\ l.first = es[1] /\ 1 \in 1 .. n
      BY <1>2, <1>3, <1>4, <1>7
    <2>2. \A i \in 1 .. n : l.content[es[1]].key <= l.content[es[i]].key
      BY <1>1, <2>1, RemovedLinked
    <2>3. SortedFirst(l) = l.content[l.first]
      BY <1>6, <1>7 DEF SortedFirst
    <2>4. QED
      BY <1>3, <2>1, <2>2, <2>3
  <1>8. QED
    BY <1>4, <1>5, <1>6, <1>7

\* the element e, with r in it, is added to those of l
Added(m, l, D, e, r) ==
    /\ Sound(m, D \cup {e})
    /\ m.content = [x \in D \cup {e} |-> IF x = e THEN r ELSE l.content[x]]

LEMMA InsertSound ==
  ASSUME NEW l, NEW D, Sound(l, D), Elements \ D # {},
         NEW item \in IntTypes, NEW key \in Nat
  PROVE  \E e \in Elements \ D :
            Added(SortedInsert(l, item, key), l, D, e, [item |-> item, key |-> key])
  <1>1. PICK es : Linked(l, es) /\ Ascending(l, es) /\ ToSet(es) = D
    BY DEF Sound
  <1> DEFINE e == Fresh(l)
             r == [item |-> item, key |-> key]
  <1>2. l \in ListsOver(D) /\ es \in Seq(Elements) /\ IsInjective(es)
    BY <1>1 DEF Linked
  <1>3. e \in Elements \ D
    BY <1>2, FreshAddress
  <1>4. r \in Interrupt /\ r.key = key
    BY DEF Interrupt
  <1>5. PICK j \in 1 .. Len(es) + 1 :
            /\ SortedInsert(l, item, key) = Placed(l, es, j, e, r)
            /\ \A i \in 1 .. Len(es) : /\ i < j => l.content[es[i]].key <= key
                                       /\ i >= j => key < l.content[es[i]].key
    BY <1>1, SortedInsertPlaces
  <1> HIDE DEF e, r
  <1>6. /\ Linked(Placed(l, es, j, e, r), Inserted(es, j, e))
        /\ Ascending(Placed(l, es, j, e, r), Inserted(es, j, e))
        /\ ToSet(Inserted(es, j, e)) = D \cup {e}
    <2>1. e \in Elements \ ToSet(es) /\ r \in Interrupt
      BY <1>1, <1>3, <1>4
    <2>2. \A i \in 1 .. Len(es) : /\ i < j => l.content[es[i]].key <= r.key
                                  /\ i >= j => r.key < l.content[es[i]].key
      BY <1>4, <1>5
    <2>3. Linked(Placed(l, es, j, e, r), Inserted(es, j, e))
      BY <1>1, <2>1, PlacedLinked
    <2>4. Ascending(Placed(l, es, j, e, r), Inserted(es, j, e))
      BY <1>1, <2>1, <2>2, PlacedAscends
    <2>5. ToSet(Inserted(es, j, e)) = D \cup {e}
      BY <1>1, <1>2, <2>1, InsertedSeq
    <2>6. QED
      BY <2>3, <2>4, <2>5
  <1>7. Placed(l, es, j, e, r).content
            = [x \in D \cup {e} |-> IF x = e THEN r ELSE l.content[x]]
    BY <1>1 DEF Placed
  <1>8. Sound(SortedInsert(l, item, key), D \cup {e})
    BY <1>5, <1>6, Zenon DEF Sound
  <1>9. Added(SortedInsert(l, item, key), l, D, e, r)
    BY <1>5, <1>7, <1>8 DEF Added
  <1>10. QED
    BY <1>3, <1>9 DEF r

LEMMA RemoveSound ==
  ASSUME NEW l, NEW D, Sound(l, D), D # {}
  PROVE  /\ Sound(SortedRemove(l), D \ {l.first})
         /\ SortedRemove(l).content = [x \in D \ {l.first} |-> l.content[x]]
  <1>1. PICK es : Linked(l, es) /\ Ascending(l, es) /\ ToSet(es) = D
    BY DEF Sound
  <1>2. es # <<>> /\ l.first = es[1]
    BY <1>1 DEF Linked, ToSet
  <1>3. SortedRemove(l) = Removed(l, es)
    BY <1>1, <1>2, SortedRemoveRemoves
  <1>4. /\ Linked(Removed(l, es), Tail(es)) /\ Ascending(Removed(l, es), Tail(es))
        /\ ToSet(Tail(es)) = D \ {l.first}
    BY <1>1, <1>2, RemovedLinked
  <1>5. Sound(SortedRemove(l), D \ {l.first})
    BY <1>3, <1>4, Zenon DEF Sound
  <1>6. QED
    BY <1>1, <1>2, <1>3, <1>5 DEF Removed

-----------------------------------------------------------------------------
(* A list with one interrupt of each kind at most.                         *)

Entries(l) == {l.content[x] : x \in DOMAIN l.content}

Kinds(l) == {r.item : r \in Entries(l)}

Kept(l) ==
    /\ Sound(l, DOMAIN l.content)
    /\ \A x, y \in DOMAIN l.content : l.content[x].item = l.content[y].item => x = y

LEMMA KeptEmpty == Kept(EmptyList) /\ Entries(EmptyList) = {}
  <1>1. DOMAIN EmptyList.content = {}
    BY DEF EmptyList
  <1>2. QED
    BY <1>1, EmptySound DEF Kept, Entries

\* What is in it, and that the first is the earliest.
LEMMA KeptEntries ==
  ASSUME NEW l, Kept(l)
  PROVE  /\ Entries(l) \subseteq Interrupt
         /\ \A r, s \in Entries(l) : r.item = s.item => r = s
         /\ IsEmptyList(l) <=> Entries(l) = {}
         /\ Entries(l) # {} => /\ SortedFirst(l) \in Entries(l)
                               /\ \A r \in Entries(l) : SortedFirst(l).key <= r.key
  <1> DEFINE D == DOMAIN l.content
  <1>1. Sound(l, D)
    BY DEF Kept
  <1>2. \A r \in Entries(l) : \E x \in D : r = l.content[x]
    BY DEF Entries
  <1>3. \A x \in D : l.content[x] \in Entries(l)
    BY DEF Entries
  <1>4. \A x, y \in D : l.content[x].item = l.content[y].item => x = y
    BY DEF Kept
  <1> HIDE DEF D
  <1>5. /\ l.content \in [D -> Interrupt]
        /\ IsEmptyList(l) <=> D = {}
        /\ D # {} => /\ l.first \in D
                     /\ SortedFirst(l) = l.content[l.first]
                     /\ \A x \in D : l.content[l.first].key <= l.content[x].key
    BY <1>1, FirstLeast
  <1>6. Entries(l) = {} <=> D = {}
    BY <1>2, <1>3
  <1>7. QED
    BY <1>2, <1>3, <1>4, <1>5, <1>6

\* There are as many addresses as kinds of interrupts.
LEMMA RoomForOne ==
  ASSUME NEW l, Kept(l), NEW item \in IntTypes, item \notin Kinds(l)
  PROVE  Elements \ DOMAIN l.content # {}
  <1> DEFINE D == DOMAIN l.content
             T == IntTypes \ {item}
             f == [x \in Elements |-> l.content[x].item]
  <1>1. l.content \in [D -> Interrupt]
    <2>1. Sound(l, D)
      BY DEF Kept
    <2> HIDE DEF D
    <2>2. QED
      BY <2>1, FirstLeast
  <1>2. SUFFICES ASSUME Elements \subseteq D PROVE FALSE
    OBVIOUS
  <1>3. f \in Injection(Elements, T)
    <2>1. \A x \in D : l.content[x].item \in Kinds(l)
      BY DEF Kinds, Entries
    <2>2. \A x \in D : l.content[x].item \in T
      <3> HIDE DEF D
      <3> QED
        BY <1>1, <2>1 DEF Interrupt
    <2>3. \A x, y \in D : l.content[x].item = l.content[y].item => x = y
      BY DEF Kept
    <2>4. f \in [Elements -> T]
      BY <1>2, <2>2
    <2>5. \A x, y \in Elements : f[x] = f[y] => x = y
      BY <1>2, <2>3
    <2> HIDE DEF f, T
    <2>6. QED
      BY <2>4, <2>5 DEF Injection, IsInjective
  <1>4. IsFiniteSet(T) /\ Cardinality(T) <= 2
    <2>1. \E a, b \in IntTypes : T = {a, b}
      BY DEF IntTypes
    <2> HIDE DEF T
    <2>2. PICK a, b \in IntTypes : T = {a, b}
      BY <2>1
    <2>3. IsFiniteSet({a}) /\ Cardinality({a}) = 1
      BY FS_Singleton
    <2>4. T = {a} \cup {b}
      BY <2>2
    <2>5. IsFiniteSet({a} \cup {b}) /\ Cardinality({a} \cup {b}) <= 2
      <3>1. /\ IsFiniteSet({a} \cup {b})
            /\ Cardinality({a} \cup {b})
                   = IF b \in {a} THEN Cardinality({a}) ELSE Cardinality({a}) + 1
        BY <2>3, FS_AddElement
      <3>2. QED
        BY <2>3, <3>1
    <2>6. QED
      BY <2>4, <2>5
  <1>5. Cardinality(Elements) <= Cardinality(T)
    <2> HIDE DEF f, T
    <2> QED
      BY <1>3, <1>4, FS_Injection
  <1>6. Cardinality(Elements) \in Nat /\ Cardinality(T) \in Nat
    <2> HIDE DEF T
    <2> QED
      BY <1>4, ListAssumption, FS_CardinalityType
  <1>7. QED
    BY <1>4, <1>5, <1>6, ElementsAssumption

LEMMA InsertKept ==
  ASSUME NEW l, Kept(l), NEW item \in IntTypes, item \notin Kinds(l), NEW key \in Nat
  PROVE  /\ Kept(SortedInsert(l, item, key))
         /\ Entries(SortedInsert(l, item, key))
                = Entries(l) \cup {[item |-> item, key |-> key]}
  <1> DEFINE D == DOMAIN l.content
             m == SortedInsert(l, item, key)
             r == [item |-> item, key |-> key]
  <1>1. Sound(l, D) /\ Elements \ D # {}
    BY RoomForOne DEF Kept
  <1>2. \A x, y \in D : l.content[x].item = l.content[y].item => x = y
    BY DEF Kept
  <1>3. Entries(l) = {l.content[x] : x \in D}
    BY DEF Entries
  <1>4. \A x \in D : l.content[x].item # item
    BY DEF Kinds, Entries
  <1>5. r.item = item
    OBVIOUS
  <1>6. PICK e \in Elements \ D : Added(m, l, D, e, r)
    <2> HIDE DEF D
    <2> QED
      BY <1>1, InsertSound
  <1> HIDE DEF D, m, r
  <1>7. Sound(m, D \cup {e}) /\ DOMAIN m.content = D \cup {e}
    BY <1>6 DEF Added
  <1>8. \A x \in D \cup {e} : m.content[x] = IF x = e THEN r ELSE l.content[x]
    BY <1>6 DEF Added
  <1>9. \A x, y \in D \cup {e} : m.content[x].item = m.content[y].item => x = y
    BY <1>2, <1>4, <1>5, <1>8
  <1>10. Kept(m)
    BY <1>7, <1>9 DEF Kept
  <1>11. Entries(m) = Entries(l) \cup {r}
    <2>1. Entries(m) = {m.content[x] : x \in D \cup {e}}
      BY <1>7 DEF Entries
    <2>2. QED
      BY <1>3, <1>6, <1>8, <2>1
  <1>12. QED
    BY <1>10, <1>11 DEF m, r

LEMMA RemoveKept ==
  ASSUME NEW l, Kept(l), Entries(l) # {}
  PROVE  /\ Kept(SortedRemove(l))
         /\ Entries(SortedRemove(l)) = Entries(l) \ {SortedFirst(l)}
  <1> DEFINE D == DOMAIN l.content
             m == SortedRemove(l)
             f == l.first
  <1>1. Sound(l, D)
    BY DEF Kept
  <1>2. \A x, y \in D : l.content[x].item = l.content[y].item => x = y
    BY DEF Kept
  <1>3. Entries(l) = {l.content[x] : x \in D}
    BY DEF Entries
  <1> HIDE DEF D
  <1>4. D # {}
    BY <1>3
  <1>5. f \in D /\ SortedFirst(l) = l.content[f]
    BY <1>1, <1>4, FirstLeast
  <1>6. Sound(m, D \ {f}) /\ m.content = [x \in D \ {f} |-> l.content[x]]
    BY <1>1, <1>4, RemoveSound
  <1> HIDE DEF m, f
  <1>7. DOMAIN m.content = D \ {f} /\ \A x \in D \ {f} : m.content[x] = l.content[x]
    BY <1>6
  <1>8. Kept(m)
    BY <1>2, <1>6, <1>7 DEF Kept
  <1>9. Entries(m) = Entries(l) \ {SortedFirst(l)}
    <2>1. Entries(m) = {m.content[x] : x \in D \ {f}}
      BY <1>7 DEF Entries
    <2>2. \A x \in D \ {f} : l.content[x] # l.content[f]
      BY <1>2, <1>5
    <2>3. QED
      BY <1>3, <1>5, <1>7, <2>1, <2>2
  <1>10. QED
    BY <1>8, <1>9 DEF m

\* The list as InterruptsInv reads it.
LEMMA KeptCounts ==
  ASSUME NEW l, Kept(l)
  PROVE  /\ WellLinked(l)
         /\ DOMAIN Items(l) = DOMAIN Contents(l)
         /\ \A i \in DOMAIN Contents(l) : /\ Contents(l)[i] \in Entries(l)
                                          /\ Items(l)[i] = Contents(l)[i].item
         /\ \A type \in IntTypes :
               Cardinality({i \in DOMAIN Items(l) : Items(l)[i] = type})
                   = IF type \in Kinds(l) THEN 1 ELSE 0
  <1> DEFINE D == DOMAIN l.content
  <1>1. PICK es : Linked(l, es) /\ ToSet(es) = D
    BY DEF Kept, Sound
  <1>2. Chain(l) = es
    BY <1>1, ChainIsLinked
  <1>3. /\ es \in Seq(Elements) /\ IsInjective(es) /\ l \in ListsOver(D)
        /\ l.last = IF es = <<>> THEN NULL ELSE es[Len(es)]
    BY <1>1, Zenon DEF Linked
  <1>4. WellLinked(l)
    <2>1. DOMAIN l.next = D
      BY <1>3 DEF ListsOver
    <2> HIDE DEF D
    <2>2. QED
      BY <1>1, <1>2, <1>3, <2>1, Zenon DEF WellLinked
  <1>5. /\ \A i \in DOMAIN es : es[i] \in D
        /\ \A x \in D : \E i \in DOMAIN es : es[i] = x
    BY <1>1, <1>3 DEF ToSet
  <1>6. /\ DOMAIN Items(l) = DOMAIN es /\ DOMAIN Contents(l) = DOMAIN es
        /\ \A i \in DOMAIN es : /\ Items(l)[i] = l.content[es[i]].item
                                /\ Contents(l)[i] = l.content[es[i]]
    BY <1>2 DEF Items, Contents
  <1>7. \A x \in D : l.content[x] \in Entries(l) /\ l.content[x].item \in Kinds(l)
    BY DEF Entries, Kinds
  <1>8. \A x, y \in D : l.content[x].item = l.content[y].item => x = y
    BY DEF Kept
  <1>9. \A type \in Kinds(l) : \E x \in D : l.content[x].item = type
    BY DEF Entries, Kinds
  <1> HIDE DEF D
  <1>10. ASSUME NEW type \in IntTypes
         PROVE  Cardinality({i \in DOMAIN Items(l) : Items(l)[i] = type})
                    = IF type \in Kinds(l) THEN 1 ELSE 0
    <2> DEFINE I == {i \in DOMAIN Items(l) : Items(l)[i] = type}
    <2>1. CASE type \in Kinds(l)
      <3>1. PICK k \in DOMAIN es : l.content[es[k]].item = type
        BY <1>5, <1>9, <2>1
      <3>2. \A i \in DOMAIN es : l.content[es[i]].item = type => i = k
        <4>1. \A i, j \in DOMAIN es : es[i] = es[j] => i = j
          BY <1>3 DEF IsInjective
        <4>2. QED
          BY <1>5, <1>8, <3>1, <4>1
      <3>3. I = {k}
        BY <1>6, <3>1, <3>2
      <3> HIDE DEF I
      <3>4. Cardinality(I) = 1
        BY <3>3, FS_Singleton
      <3>5. QED
        BY <2>1, <3>4 DEF I
    <2>2. CASE type \notin Kinds(l)
      <3>1. I = {}
        BY <1>5, <1>6, <1>7, <2>2
      <3> HIDE DEF I
      <3>2. Cardinality(I) = 0
        BY <3>1, FS_EmptySet
      <3>3. QED
        BY <2>2, <3>2 DEF I
    <2>3. QED
      BY <2>1, <2>2
  <1>11. QED
    BY <1>4, <1>5, <1>6, <1>7, <1>10

LEMMA InsertKinds ==
  ASSUME NEW l, Kept(l), NEW item \in IntTypes, item \notin Kinds(l), NEW key \in Nat
  PROVE  Kinds(SortedInsert(l, item, key)) = Kinds(l) \cup {item}
  <1> DEFINE r == [item |-> item, key |-> key]
             m == SortedInsert(l, item, key)
  <1>1. Entries(m) = Entries(l) \cup {r}
    BY InsertKept
  <1>2. r.item = item
    OBVIOUS
  <1> HIDE DEF r, m
  <1>3. Kinds(m) = Kinds(l) \cup {item}
    BY <1>1, <1>2 DEF Kinds
  <1>4. QED
    BY <1>3 DEF m

LEMMA RemoveKinds ==
  ASSUME NEW l, Kept(l), Entries(l) # {}
  PROVE  /\ SortedFirst(l).item \in Kinds(l)
         /\ Kinds(SortedRemove(l)) = Kinds(l) \ {SortedFirst(l).item}
  <1>1. Entries(SortedRemove(l)) = Entries(l) \ {SortedFirst(l)}
    BY RemoveKept
  <1>2. /\ SortedFirst(l) \in Entries(l)
        /\ \A r, s \in Entries(l) : r.item = s.item => r = s
    BY KeptEntries
  <1>3. QED
    BY <1>1, <1>2 DEF Kinds

\* The first element is taken off and put back.
LEMMA PutBackKept ==
  ASSUME NEW l, Kept(l), Entries(l) # {}
  PROVE  LET m == SortedInsert(SortedRemove(l), SortedFirst(l).item, SortedFirst(l).key)
         IN  Kept(m) /\ Entries(m) = Entries(l) /\ Kinds(m) = Kinds(l)
  <1> DEFINE f == SortedFirst(l)
             k == SortedRemove(l)
             m == SortedInsert(k, f.item, f.key)
  <1>1. f \in Entries(l) /\ Entries(l) \subseteq Interrupt
    BY KeptEntries
  <1>2. f.item \in IntTypes /\ f.key \in Nat /\ f = [item |-> f.item, key |-> f.key]
    <2> HIDE DEF f
    <2> QED
      BY <1>1 DEF Interrupt
  <1>3. Kept(k) /\ Entries(k) = Entries(l) \ {f}
    BY RemoveKept
  <1>4. Kinds(k) = Kinds(l) \ {f.item}
    BY RemoveKinds
  <1> HIDE DEF f, k, m
  <1>5. f.item \notin Kinds(k)
    BY <1>4
  <1>6. Kept(m) /\ Entries(m) = Entries(k) \cup {[item |-> f.item, key |-> f.key]}
    BY <1>2, <1>3, <1>5, InsertKept DEF m
  <1>7. Entries(m) = Entries(l)
    BY <1>1, <1>2, <1>3, <1>6
  <1>8. Kept(m) /\ Entries(m) = Entries(l) /\ Kinds(m) = Kinds(l)
    BY <1>6, <1>7 DEF Kinds
  <1>9. QED
    BY <1>8, Zenon DEF m, k, f

-----------------------------------------------------------------------------
(* The invariant.                                                          *)

TimeTypes ==
    /\ totalTicks \in Nat /\ bufferInit \in Nat /\ lastSector \in DiskSectors
    /\ randomize \in {"none", "TRUE", "FALSE"}
    /\ phase \in {"running", "OneTick", "Idle", "IdleAgain", "halted"}

\* the interrupts that are to come, when the disk and the console are busy or
\* not, and of a timer of that kind
Coming(l, active, busy, timer) ==
    /\ Kept(l)
    /\ IF "DiskInt" \in Kinds(l) THEN active = TRUE ELSE active = FALSE
    /\ IF "ConsoleWriteInt" \in Kinds(l) THEN busy = TRUE ELSE busy = FALSE
    /\ "TimerInt" \in Kinds(l) <=> timer # "none"

\* nothing was due up to now but for the timer
Quiet(l, now) == \A r \in Entries(l) : r.key > now \/ r.item = "TimerInt"

TimeInv ==
    /\ TimeTypes
    /\ Coming(pending, driveActive, consoleBusy, randomize)
    /\ phase = "running" => Quiet(pending, totalTicks) /\ yieldOnReturn = FALSE
    /\ phase = "halted" => driveActive = FALSE /\ consoleBusy = FALSE

LEMMA TimersAreKinds ==
  {"DiskInt", "ConsoleWriteInt", "TimerInt"} = IntTypes
  BY DEF IntTypes

LEMMA TimesAreNat ==
  /\ UserTick \in Nat \ {0} /\ SystemTick \in Nat \ {0} /\ ConsoleTime \in Nat \ {0}
  /\ TimerTicks \in Nat \ {0} /\ RotationTime \in Nat \ {0} /\ SeekTime \in Nat \ {0}
  /\ SectorsPerTrack \in Nat \ {0} /\ NumTracks \in Nat \ {0}
  BY InterruptsAssumption

\* A random time of the timer is a time to come.
LEMMA TimerLater == NextInterrupts \subseteq Nat \ {0}
  BY TimesAreNat DEF NextInterrupts

LEMMA InitTime ==
  ASSUME TimeInit
  PROVE  TimeInv
  <1>1. TimeTypes
    <2>1. 0 \in DiskSectors
      <3> DEFINE a == SectorsPerTrack
                 b == NumTracks
      <3>1. a \in Nat /\ b \in Nat /\ a > 0 /\ b > 0
        BY TimesAreNat
      <3> HIDE DEF a, b
      <3>2. a * b \in Nat /\ a * b > 0
        BY <3>1
      <3>3. 0 \in 0 .. a * b - 1
        BY <3>2
      <3>4. QED
        BY <3>3 DEF a, b, DiskSectors
    <2>2. QED
      BY <2>1 DEF TimeInit, TimeTypes
  <1>2. Kept(EmptyList) /\ Entries(EmptyList) = {} /\ Kinds(EmptyList) = {}
    BY KeptEmpty DEF Kinds
  <1>3. Coming(pending, FALSE, FALSE, randomize) /\ Quiet(pending, totalTicks)
    <2>1. CASE randomize = "none" /\ pending = EmptyList
      BY <1>2, <2>1 DEF Coming, Quiet
    <2>2. CASE /\ randomize # "none"
               /\ \E n \in NextInterrupts : pending = SortedInsert(EmptyList, "TimerInt", n)
      <3>1. PICK n \in NextInterrupts : pending = SortedInsert(EmptyList, "TimerInt", n)
        BY <2>2
      <3>2. n \in Nat /\ "TimerInt" \in IntTypes
        BY TimerLater DEF IntTypes
      <3> DEFINE l == EmptyList
                 item == "TimerInt"
      <3>3. Kept(l) /\ item \in IntTypes /\ item \notin Kinds(l) /\ n \in Nat
        BY <1>2, <3>2
      <3>4. pending = SortedInsert(l, item, n)
        BY <3>1
      <3> HIDE DEF l, item
      <3>5. Kept(pending) /\ Entries(pending) = Entries(l) \cup {[item |-> item, key |-> n]}
        BY <3>3, <3>4, InsertKept
      <3>6. Kinds(pending) = Kinds(l) \cup {item}
        BY <3>3, <3>4, InsertKinds
      <3>7. Kinds(pending) = {"TimerInt"} /\ \A r \in Entries(pending) : r.item = "TimerInt"
        BY <1>2, <3>5, <3>6 DEF l, item
      <3>8. QED
        BY <2>2, <3>5, <3>7 DEF Coming, Quiet
    <2>3. QED
      BY <2>1, <2>2 DEF TimeInit
  <1>4. QED
    BY <1>1, <1>3 DEF TimeInit, TimeInv

-----------------------------------------------------------------------------
(* The steps.                                                              *)

\* A request takes some time.
LEMMA LatencyPositive ==
  ASSUME TimeTypes, NEW newSector \in DiskSectors, NEW writing \in BOOLEAN
  PROVE  /\ ComputeLatency(newSector, writing) \in Nat \ {0}
         /\ TimeToSeek(newSector).seek \in Nat /\ TimeToSeek(newSector).rotation \in Nat
  <1> DEFINE S == SectorsPerTrack
             R == RotationTime
             a == newSector \div S
             b == lastSector \div S
             tracks == Max({a - b, b - a})
             seek == tracks * SeekTime
             over == (totalTicks + seek) % R
             t == TimeToSeek(newSector)
             after == totalTicks + t.seek + t.rotation
             d == ModuloDiff(newSector, after \div R)
  <1>1. /\ S \in Nat /\ S > 0 /\ R \in Nat /\ R > 0 /\ SeekTime \in Nat
        /\ totalTicks \in Nat
    BY TimesAreNat DEF TimeTypes
  <1>2. newSector \in Int /\ lastSector \in Int
    BY DEF DiskSectors, TimeTypes
  <1>3. a \in Int /\ b \in Int
    <2> HIDE DEF S
    <2> QED
      BY <1>1, <1>2
  <1>4. tracks \in Nat
    <2> HIDE DEF a, b
    <2> DEFINE x == IF a >= b THEN a - b ELSE b - a
    <2>1. x \in {a - b, b - a} /\ \A y \in {a - b, b - a} : x >= y
      BY <1>3
    <2>2. tracks \in {a - b, b - a} /\ \A y \in {a - b, b - a} : tracks >= y
      <3> HIDE DEF x
      <3> QED
        BY <2>1, Zenon DEF Max
    <2> HIDE DEF tracks
    <2>3. QED
      BY <1>3, <2>2
  <1>5. seek \in Nat
    <2> HIDE DEF tracks
    <2> QED
      BY <1>1, <1>4
  <1>6. over \in 0 .. R - 1
    <2> HIDE DEF seek, R
    <2> QED
      BY <1>1, <1>5
  <1>7. t = [seek |-> seek, rotation |-> IF over > 0 THEN R - over ELSE 0]
    BY DEF TimeToSeek
  <1>8. t.seek \in Nat /\ t.rotation \in Nat
    <2> HIDE DEF seek, over, R, t
    <2> QED
      BY <1>1, <1>5, <1>6, <1>7
  <1>9. d \in Nat
    <2>1. after \in Nat
      <3> HIDE DEF t
      <3> QED
        BY <1>1, <1>8
    <2> HIDE DEF after
    <2>2. after \div R \in Int
      <3> HIDE DEF R
      <3> QED
        BY <1>1, <2>1
    <2> DEFINE f == after \div R
    <2> HIDE DEF f
    <2>3. (newSector % S) - (f % S) + S \in Int
      <3> HIDE DEF S
      <3> QED
        BY <1>1, <1>2, <2>2 DEF f
    <2>4. ModuloDiff(newSector, f) \in Nat
      <3> DEFINE g == (newSector % S) - (f % S) + S
      <3>1. ModuloDiff(newSector, f) = g % S
        BY DEF ModuloDiff
      <3> HIDE DEF g, S
      <3>2. g \in Int
        BY <2>3 DEF g
      <3>3. QED
        BY <1>1, <3>1, <3>2
    <2>5. QED
      BY <2>4 DEF f
  <1>10. d * R \in Nat
    <2> HIDE DEF d, R
    <2> QED
      BY <1>1, <1>9
  <1>11. ComputeLatency(newSector, writing)
             = IF InTrackBuffer(newSector, writing) THEN R
               ELSE t.seek + t.rotation + d * R + R
    BY DEF ComputeLatency
  <1>12. QED
    <2>1. t.seek + t.rotation + d * R + R \in Nat \ {0} /\ R \in Nat \ {0}
      <3> DEFINE p == d * R
      <3> HIDE DEF t, p, R
      <3>1. p \in Nat
        BY <1>10 DEF p
      <3>2. t.seek + t.rotation + p + R \in Nat \ {0} /\ R \in Nat \ {0}
        BY <1>1, <1>8, <3>1
      <3>3. QED
        BY <3>2 DEF p
    <2> HIDE DEF t, d, R
    <2>2. QED
      BY <1>8, <1>11, <2>1 DEF t

LEMMA TickKeeps ==
  ASSUME TimeInv, NEW mode \in {"SystemMode", "UserMode"}, Tick(mode)
  PROVE  TimeInv'
  <1>1. TimeTypes'
    BY TimesAreNat DEF TimeInv, TimeTypes, Tick
  <1>2. Coming(pending, driveActive, consoleBusy, randomize)'
    BY DEF TimeInv, Tick
  <1>3. phase' = "OneTick"
    BY DEF Tick
  <1>4. QED
    BY <1>1, <1>2, <1>3 DEF TimeInv

\* A device that was idle schedules its interrupt.
LEMMA Schedules ==
  ASSUME TimeInv, Running, NEW type \in {"DiskInt", "ConsoleWriteInt"},
         type \notin Kinds(pending), NEW ticks \in Nat \ {0},
         NEW m, m = Scheduled(pending, type, ticks)
  PROVE  /\ Kept(m) /\ Kinds(m) = Kinds(pending) \cup {type}
         /\ Quiet(m, totalTicks)
  <1>1. Kept(pending) /\ totalTicks \in Nat /\ Quiet(pending, totalTicks)
    BY DEF TimeInv, TimeTypes, Coming, Running
  <1> DEFINE key == totalTicks + ticks
  <1>2. key \in Nat /\ key > totalTicks /\ type \in IntTypes
    BY <1>1 DEF IntTypes
  <1>3. m = SortedInsert(pending, type, key)
    BY DEF Scheduled
  <1> HIDE DEF key
  <1>4. Kept(m) /\ Entries(m) = Entries(pending) \cup {[item |-> type, key |-> key]}
    BY <1>1, <1>2, <1>3, InsertKept
  <1>5. Kinds(m) = Kinds(pending) \cup {type}
    BY <1>1, <1>2, <1>3, InsertKinds
  <1>6. QED
    BY <1>1, <1>2, <1>4, <1>5 DEF Quiet

LEMMA DriveRequestKeeps ==
  ASSUME TimeInv, NEW newSector \in DiskSectors, NEW writing \in BOOLEAN,
         DriveRequest(newSector, writing)
  PROVE  TimeInv'
  <1> DEFINE t == TimeToSeek(newSector)
             ticks == ComputeLatency(newSector, writing)
  <1>1. ticks \in Nat \ {0} /\ t.seek \in Nat /\ t.rotation \in Nat
    BY LatencyPositive DEF TimeInv
  <1>2. /\ Running /\ ~ driveActive /\ driveActive' = TRUE
        /\ pending' = Scheduled(pending, "DiskInt", ticks)
        /\ lastSector' = newSector
        /\ bufferInit' = IF t.seek # 0 THEN totalTicks + t.seek + t.rotation ELSE bufferInit
    BY DEF DriveRequest
  <1>3. /\ totalTicks' = totalTicks /\ phase' = phase /\ randomize' = randomize
        /\ consoleBusy' = consoleBusy /\ yieldOnReturn' = yieldOnReturn
    BY DEF DriveRequest
  <1> HIDE DEF t, ticks
  <1>4. TimeTypes /\ Coming(pending, driveActive, consoleBusy, randomize)
    BY DEF TimeInv
  <1>5. "DiskInt" \notin Kinds(pending)
    BY <1>2, <1>4 DEF Coming
  <1>6. /\ Kept(pending') /\ Kinds(pending') = Kinds(pending) \cup {"DiskInt"}
        /\ Quiet(pending', totalTicks)
    <2> DEFINE type == "DiskInt"
    <2>1. type \in {"DiskInt", "ConsoleWriteInt"} /\ type \notin Kinds(pending)
          /\ pending' = Scheduled(pending, type, ticks)
      BY <1>2, <1>5
    <2> HIDE DEF type
    <2>2. Kept(pending') /\ Kinds(pending') = Kinds(pending) \cup {type}
          /\ Quiet(pending', totalTicks)
      BY <1>1, <1>2, <2>1, Schedules
    <2>3. QED
      BY <2>2 DEF type
  <1>7. TimeTypes'
    BY <1>1, <1>2, <1>3, <1>4 DEF TimeTypes
  <1>8. Coming(pending', driveActive', consoleBusy', randomize')
    BY <1>2, <1>3, <1>4, <1>6 DEF Coming
  <1>9. phase' = "running" /\ yieldOnReturn' = FALSE /\ Quiet(pending', totalTicks')
    BY <1>2, <1>3, <1>6 DEF TimeInv, Running
  <1>10. QED
    BY <1>7, <1>8, <1>9 DEF TimeInv, Coming, Quiet

LEMMA PutCharRequestKeeps ==
  ASSUME TimeInv, PutCharRequest
  PROVE  TimeInv'
  <1>1. /\ Running /\ ~ consoleBusy /\ consoleBusy' = TRUE
        /\ pending' = Scheduled(pending, "ConsoleWriteInt", ConsoleTime)
    BY DEF PutCharRequest
  <1>2. /\ totalTicks' = totalTicks /\ phase' = phase /\ randomize' = randomize
        /\ driveActive' = driveActive /\ yieldOnReturn' = yieldOnReturn
        /\ lastSector' = lastSector /\ bufferInit' = bufferInit
    BY DEF PutCharRequest
  <1>3. TimeTypes /\ Coming(pending, driveActive, consoleBusy, randomize)
    BY DEF TimeInv
  <1>4. "ConsoleWriteInt" \notin Kinds(pending)
    BY <1>1, <1>3 DEF Coming
  <1>5. /\ Kept(pending') /\ Kinds(pending') = Kinds(pending) \cup {"ConsoleWriteInt"}
        /\ Quiet(pending', totalTicks)
    <2> DEFINE type == "ConsoleWriteInt"
    <2>1. type \in {"DiskInt", "ConsoleWriteInt"} /\ type \notin Kinds(pending)
          /\ pending' = Scheduled(pending, type, ConsoleTime) /\ ConsoleTime \in Nat \ {0}
      BY <1>1, <1>4, TimesAreNat
    <2> HIDE DEF type
    <2>2. Kept(pending') /\ Kinds(pending') = Kinds(pending) \cup {type}
          /\ Quiet(pending', totalTicks)
      BY <1>1, <2>1, Schedules
    <2>3. QED
      BY <2>2 DEF type
  <1>6. TimeTypes'
    BY <1>1, <1>2, <1>3 DEF TimeTypes
  <1>7. Coming(pending', driveActive', consoleBusy', randomize')
    BY <1>1, <1>2, <1>3, <1>5 DEF Coming
  <1>8. phase' = "running" /\ yieldOnReturn' = FALSE /\ Quiet(pending', totalTicks')
    BY <1>1, <1>2, <1>5 DEF TimeInv, Running
  <1>9. QED
    BY <1>6, <1>7, <1>8 DEF TimeInv, Coming, Quiet

LEMMA LastSleepsKeeps ==
  ASSUME TimeInv, LastSleeps \/ IdleStart
  PROVE  TimeInv'
  <1>1. TimeTypes'
    BY DEF TimeInv, TimeTypes, LastSleeps, IdleStart
  <1>2. Coming(pending, driveActive, consoleBusy, randomize)'
    BY DEF TimeInv, LastSleeps, IdleStart
  <1>3. phase' = "Idle" \/ phase' = "running"
    BY DEF LastSleeps, IdleStart, Running
  <1>4. phase' = "running" => (Quiet(pending, totalTicks) /\ yieldOnReturn = FALSE)'
    BY DEF TimeInv, LastSleeps, IdleStart, Running
  <1>5. QED
    BY <1>1, <1>2, <1>3, <1>4 DEF TimeInv

\* The interrupt that CheckIfDue looks at, and the clock when it has.
LEMMA FirstIsDue ==
  ASSUME TimeInv
  PROVE  /\ TimeOfCheck \in Nat /\ TimeOfCheck >= totalTicks
         /\ Entries(pending) # {} =>
               /\ Next1 \in Entries(pending) /\ Next1.key \in Nat
               /\ Next1.item \in IntTypes
               /\ \A r \in Entries(pending) : Next1.key <= r.key
         /\ DueNow => Entries(pending) # {} /\ Next1.key <= TimeOfCheck
         /\ IsEmptyList(pending) <=> Entries(pending) = {}
  <1>1. Kept(pending) /\ totalTicks \in Nat
    BY DEF TimeInv, TimeTypes, Coming
  <1>2. /\ Entries(pending) \subseteq Interrupt
        /\ IsEmptyList(pending) <=> Entries(pending) = {}
        /\ Entries(pending) # {} =>
              /\ Next1 \in Entries(pending)
              /\ \A r \in Entries(pending) : Next1.key <= r.key
    BY <1>1, KeptEntries DEF Next1
  <1>3. Entries(pending) # {} => Next1.key \in Nat /\ Next1.item \in IntTypes
    BY <1>2 DEF Interrupt
  <1>4. DueNow => Entries(pending) # {}
    BY <1>2 DEF DueNow
  <1>5. /\ TimeOfCheck \in Nat /\ TimeOfCheck >= totalTicks
        /\ DueNow => Next1.key <= TimeOfCheck
    BY <1>1, <1>3, <1>4 DEF TimeOfCheck
  <1>6. QED
    BY <1>2, <1>3, <1>4, <1>5

LEMMA FireKeeps ==
  ASSUME TimeInv, phase # "halted", Fire
  PROVE  TimeInv'
  <1> DEFINE f == Next1
             rest == SortedRemove(pending)
  <1>1. TimeTypes /\ Coming(pending, driveActive, consoleBusy, randomize)
    BY DEF TimeInv
  <1>2. /\ phase # "running" /\ DueNow
        /\ totalTicks' = TimeOfCheck
        /\ phase' = IF phase = "Idle" THEN "IdleAgain" ELSE phase
        /\ randomize' = randomize /\ lastSector' = lastSector /\ bufferInit' = bufferInit
    BY DEF Fire
  <1>3. /\ TimeOfCheck \in Nat /\ Entries(pending) # {} /\ f.item \in IntTypes
    BY <1>2, FirstIsDue
  <1>4. Kept(rest) /\ f.item \in Kinds(pending) /\ Kinds(rest) = Kinds(pending) \ {f.item}
    <2>1. Kept(pending)
      BY <1>1 DEF Coming
    <2>2. QED
      BY <1>3, <2>1, RemoveKept, RemoveKinds DEF Next1
  <1>5. TimeTypes'
    BY <1>1, <1>2, <1>3 DEF TimeTypes
  <1>6. Coming(pending', driveActive', consoleBusy', randomize')
    <2>1. CASE /\ f.item = "TimerInt"
               /\ \E n \in NextInterrupts :
                     pending' = SortedInsert(rest, "TimerInt", TimeOfCheck + n)
               /\ driveActive' = driveActive /\ consoleBusy' = consoleBusy
      <3>1. PICK n \in NextInterrupts :
                     pending' = SortedInsert(rest, "TimerInt", TimeOfCheck + n)
        BY <2>1
      <3> DEFINE item == "TimerInt"
                 key == TimeOfCheck + n
      <3>2. /\ Kept(rest) /\ item \in IntTypes /\ item \notin Kinds(rest) /\ key \in Nat
            /\ pending' = SortedInsert(rest, item, key)
        BY <1>3, <1>4, <2>1, <3>1, TimerLater DEF IntTypes
      <3> HIDE DEF item, key, rest
      <3>3. Kept(pending')
        BY <3>2, InsertKept
      <3>4. Kinds(pending') = Kinds(rest) \cup {item}
        BY <3>2, InsertKinds
      <3>5. Kinds(pending') = Kinds(pending)
        BY <1>4, <2>1, <3>4 DEF item
      <3>6. QED
        BY <1>1, <1>2, <2>1, <3>3, <3>5 DEF Coming
    <2>2. CASE /\ f.item = "DiskInt" /\ pending' = rest
               /\ driveActive' = FALSE /\ consoleBusy' = consoleBusy
      <3> HIDE DEF rest, f
      <3> QED
        BY <1>1, <1>2, <1>4, <2>2 DEF Coming
    <2>3. CASE /\ f.item = "ConsoleWriteInt" /\ pending' = rest
               /\ consoleBusy' = FALSE /\ driveActive' = driveActive
      <3> HIDE DEF rest, f
      <3> QED
        BY <1>1, <1>2, <1>4, <2>3 DEF Coming
    <2>4. QED
      BY <2>1, <2>2, <2>3 DEF Fire
  <1>7. phase' # "running" /\ phase' # "halted"
    BY <1>2
  <1>8. QED
    BY <1>5, <1>6, <1>7 DEF TimeInv, Coming

LEMMA NoneDueKeeps ==
  ASSUME TimeInv, NoneDue
  PROVE  TimeInv'
  <1>1. TimeTypes /\ Coming(pending, driveActive, consoleBusy, randomize)
    BY DEF TimeInv
  <1>2. /\ phase # "running" /\ (~ DueNow \/ OnlyTimer)
        /\ totalTicks' = TimeOfCheck
        /\ pending' = IF IsEmptyList(pending) THEN pending ELSE PutBack
        /\ randomize' = randomize /\ lastSector' = lastSector /\ bufferInit' = bufferInit
        /\ driveActive' = driveActive /\ consoleBusy' = consoleBusy
    BY DEF NoneDue
  <1>3. yieldOnReturn' = FALSE
    BY DEF NoneDue
  <1>4. \/ phase = "OneTick" /\ phase' = "running"
        \/ phase = "IdleAgain" /\ phase' = "running"
        \/ phase = "Idle" /\ phase' = "halted"
    BY DEF NoneDue
  <1>5. TimeTypes'
    BY <1>1, <1>2, <1>4, FirstIsDue DEF TimeTypes
  <1>6. Kept(pending') /\ Entries(pending') = Entries(pending)
        /\ Kinds(pending') = Kinds(pending)
    <2>1. CASE IsEmptyList(pending)
      BY <1>1, <1>2, <2>1 DEF Coming
    <2>2. CASE ~ IsEmptyList(pending)
      <3>1. Kept(pending) /\ Entries(pending) # {}
        BY <1>1, <2>2, KeptEntries DEF Coming
      <3>2. Kept(PutBack) /\ Entries(PutBack) = Entries(pending)
            /\ Kinds(PutBack) = Kinds(pending)
        BY <3>1, PutBackKept, Zenon DEF PutBack, Next1
      <3>3. QED
        BY <1>2, <2>2, <3>2
    <2>3. QED
      BY <2>1, <2>2
  <1>7. Coming(pending', driveActive', consoleBusy', randomize')
    BY <1>1, <1>2, <1>6 DEF Coming
  <1>8. OnlyTimer /\ Entries(pending) # {} => \A r \in Entries(pending) : r.item = "TimerInt"
    <2>1. SUFFICES ASSUME OnlyTimer, Entries(pending) # {}
                   PROVE  \A r \in Entries(pending) : r.item = "TimerInt"
      OBVIOUS
    <2>2. Kept(pending)
      BY <1>1 DEF Coming
    <2> DEFINE rest == SortedRemove(pending)
    <2>3. /\ Kept(rest) /\ Entries(rest) = Entries(pending) \ {SortedFirst(pending)}
      BY <2>1, <2>2, RemoveKept
    <2>4. SortedFirst(pending).item = "TimerInt" /\ IsEmptyList(rest)
      BY <2>1 DEF OnlyTimer, Next1
    <2> HIDE DEF rest
    <2>5. Entries(rest) = {}
      BY <2>3, <2>4, KeptEntries
    <2>6. QED
      BY <2>3, <2>4, <2>5
  <1>9. phase' = "running" => Quiet(pending', totalTicks')
    <2>1. SUFFICES ASSUME phase' = "running", NEW r \in Entries(pending)
                   PROVE  r.key > TimeOfCheck \/ r.item = "TimerInt"
      BY <1>2, <1>6 DEF Quiet
    <2>2. CASE OnlyTimer
      BY <1>8, <2>2
    <2>3. CASE ~ DueNow
      <3>1. Next1.key \in Nat /\ Next1.key <= r.key /\ ~ IsEmptyList(pending)
        BY FirstIsDue
      <3>2. ~ (Next1.key <= totalTicks)
        BY <2>3, <3>1 DEF DueNow
      <3>3. r.key \in Nat
        BY <1>1, KeptEntries DEF Coming, Interrupt
      <3>4. totalTicks \in Nat /\ TimeOfCheck = totalTicks
        BY <1>1, <2>3 DEF TimeTypes, TimeOfCheck
      <3>5. QED
        BY <3>1, <3>2, <3>3, <3>4
    <2>4. QED
      BY <1>2, <2>2, <2>3
  <1>10. phase' = "halted" => driveActive' = FALSE /\ consoleBusy' = FALSE
    <2>1. SUFFICES ASSUME phase = "Idle" PROVE driveActive = FALSE /\ consoleBusy = FALSE
      BY <1>2, <1>4
    <2>2. \A r \in Entries(pending) : r.item = "TimerInt"
      <3>1. CASE OnlyTimer
        BY <1>8, <3>1
      <3>2. CASE ~ DueNow
        <4>1. IsEmptyList(pending)
          BY <2>1, <3>2 DEF DueNow, advanceClock
        <4>2. QED
          BY <4>1, FirstIsDue
      <3>3. QED
        BY <1>2, <3>1, <3>2
    <2>3. "DiskInt" \notin Kinds(pending) /\ "ConsoleWriteInt" \notin Kinds(pending)
      BY <2>2 DEF Kinds
    <2>4. QED
      BY <1>1, <2>3 DEF Coming
  <1>11. QED
    BY <1>3, <1>5, <1>7, <1>9, <1>10 DEF TimeInv, Coming, Quiet

LEMMA TimeStep ==
  ASSUME TimeInv, TimeNext
  PROVE  TimeInv'
  <1>1. ASSUME NEW mode \in {"SystemMode", "UserMode"}, Tick(mode) PROVE TimeInv'
    BY <1>1, TickKeeps
  <1>2. ASSUME NEW s \in DiskSectors, NEW writing \in BOOLEAN, DriveRequest(s, writing)
        PROVE  TimeInv'
    BY <1>2, DriveRequestKeeps
  <1>3. CASE PutCharRequest
    BY <1>3, PutCharRequestKeeps
  <1>4. CASE LastSleeps \/ IdleStart
    BY <1>4, LastSleepsKeeps
  <1>5. CASE phase # "halted" /\ Fire
    BY <1>5, FireKeeps
  <1>6. CASE NoneDue
    BY <1>6, NoneDueKeeps
  <1>7. QED
    BY <1>1, <1>2, <1>3, <1>4, <1>5, <1>6 DEF TimeNext, CheckIfDue

\* A step in which the clock moves, or an interrupt is taken.
LEMMA OrderStep ==
  ASSUME TimeInv, TimeNext
  PROVE  /\ totalTicks' >= totalTicks
         /\ (phase # "running" /\ fired' # Nothing) =>
                /\ fired'.key <= totalTicks'
                /\ \A r \in Entries(pending) : fired'.key <= r.key
  <1>1. totalTicks \in Nat /\ UserTick \in Nat /\ SystemTick \in Nat
    BY TimesAreNat DEF TimeInv, TimeTypes
  <1>2. ASSUME NEW mode \in {"SystemMode", "UserMode"}, Tick(mode)
        PROVE  phase = "running" /\ totalTicks' >= totalTicks
    BY <1>1, <1>2 DEF Tick, Running
  <1>3. ASSUME NEW s \in DiskSectors, NEW writing \in BOOLEAN, DriveRequest(s, writing)
        PROVE  phase = "running" /\ totalTicks' >= totalTicks
    <2>1. phase = "running" /\ totalTicks' = totalTicks
      BY <1>3 DEF DriveRequest, Running
    <2>2. QED
      BY <1>1, <2>1
  <1>4. CASE PutCharRequest \/ LastSleeps \/ IdleStart
    <2>1. phase = "running" /\ totalTicks' = totalTicks
      BY <1>4 DEF PutCharRequest, LastSleeps, IdleStart, Running
    <2>2. QED
      BY <1>1, <2>1
  <1>5. CASE Fire
    <2>1. /\ DueNow /\ totalTicks' = TimeOfCheck
          /\ fired' = [item |-> Next1.item, key |-> Next1.key]
      BY <1>5 DEF Fire
    <2>2. fired'.key = Next1.key
      BY <2>1
    <2>3. QED
      BY <2>1, <2>2, FirstIsDue
  <1>6. CASE NoneDue
    <2>1. totalTicks' = TimeOfCheck /\ fired' = Nothing
      BY <1>6 DEF NoneDue
    <2>2. QED
      BY <2>1, FirstIsDue
  <1>7. QED
    BY <1>2, <1>3, <1>4, <1>5, <1>6 DEF TimeNext, CheckIfDue

LEMMA TimeInvSuffices ==
  ASSUME TimeInv
  PROVE  InterruptsInv
  <1>1. Kept(pending) /\ Coming(pending, driveActive, consoleBusy, randomize)
    BY DEF TimeInv, Coming
  <1>2. /\ WellLinked(pending)
        /\ DOMAIN Items(pending) = DOMAIN Contents(pending)
        /\ \A i \in DOMAIN Contents(pending) :
              /\ Contents(pending)[i] \in Entries(pending)
              /\ Items(pending)[i] = Contents(pending)[i].item
    BY <1>1, KeptCounts
  <1>3. \A type \in IntTypes :
            Cardinality(PendingOf(type)) = IF type \in Kinds(pending) THEN 1 ELSE 0
    BY <1>1, KeptCounts, Zenon DEF PendingOf
  <1>4. Cardinality(PendingOf("DiskInt")) = (IF driveActive THEN 1 ELSE 0)
    <2>1. Cardinality(PendingOf("DiskInt")) = IF "DiskInt" \in Kinds(pending) THEN 1 ELSE 0
      BY <1>3, TimersAreKinds
    <2>2. IF "DiskInt" \in Kinds(pending) THEN driveActive = TRUE ELSE driveActive = FALSE
      BY <1>1, Zenon DEF Coming
    <2>3. QED
      BY <2>1, <2>2, Zenon
  <1>5. Cardinality(PendingOf("ConsoleWriteInt")) = (IF consoleBusy THEN 1 ELSE 0)
    <2>1. Cardinality(PendingOf("ConsoleWriteInt"))
              = IF "ConsoleWriteInt" \in Kinds(pending) THEN 1 ELSE 0
      BY <1>3, TimersAreKinds
    <2>2. IF "ConsoleWriteInt" \in Kinds(pending)
          THEN consoleBusy = TRUE ELSE consoleBusy = FALSE
      BY <1>1, Zenon DEF Coming
    <2>3. QED
      BY <2>1, <2>2, Zenon
  <1>6. Cardinality(PendingOf("TimerInt")) = (IF randomize = "none" THEN 0 ELSE 1)
    <2>1. Cardinality(PendingOf("TimerInt")) = IF "TimerInt" \in Kinds(pending) THEN 1 ELSE 0
      BY <1>3, TimersAreKinds
    <2>2. "TimerInt" \in Kinds(pending) <=> randomize # "none"
      BY <1>1 DEF Coming
    <2>3. QED
      BY <2>1, <2>2
  <1>7. phase = "running" => Quiet(pending, totalTicks) /\ ~ yieldOnReturn
    BY DEF TimeInv
  <1>8. phase = "running" =>
          \A i \in DOMAIN Contents(pending) :
              Contents(pending)[i].key > totalTicks \/ Items(pending)[i] = "TimerInt"
    BY <1>2, <1>7 DEF Quiet
  <1>9. phase = "halted" => ~ driveActive /\ ~ consoleBusy
    BY DEF TimeInv
  <1>10. QED
    BY <1>2, <1>4, <1>5, <1>6, <1>7, <1>8, <1>9 DEF InterruptsInv

-----------------------------------------------------------------------------
(* The theorems.                                                           *)

LEMMA TimeInvariant == MainSpec => []TimeInv
  <1>1. MainInit => TimeInv
    BY InitTime DEF MainInit
  <1>2. TimeInv /\ [MainNext]_mainVars => TimeInv'
    <2>1. SUFFICES ASSUME TimeInv, [MainNext]_mainVars PROVE TimeInv'
      OBVIOUS
    <2>2. CASE TimeNext
      BY <2>1, <2>2, TimeStep
    <2>3. CASE UNCHANGED timeVars
      BY <2>1, <2>3 DEF timeVars, TimeInv, TimeTypes, Coming, Quiet
    <2>4. QED
      BY <2>1, <2>2, <2>3 DEF MainNext, StartProcess, ConsoleTest, KernelThreads, mainVars
  <1>3. QED
    BY <1>1, <1>2, PTL DEF MainSpec

\* interrupt.cc: whatever the devices take and the timer says, the list of
\* pending interrupts is well linked and has each interrupt that is to come
\* once; threads run on only when none but a timer's is left that was due; and
\* the machine halts with its devices idle.
THEOREM InterruptsExact == MainSpec => []InterruptsInv
  BY TimeInvariant, TimeInvSuffices, PTL

\* Interrupt::CheckIfDue: the clock never goes back, and an interrupt is taken
\* when its time has come and not before one that was due earlier.
THEOREM InterruptsInOrder == MainSpec => TakenInOrder
  <1>1. TimeInv /\ [MainNext]_mainVars
            => [/\ totalTicks' >= totalTicks
                /\ (phase # "running" /\ fired' # Nothing) =>
                       /\ fired'.key <= totalTicks'
                       /\ \A i \in DOMAIN Contents(pending) :
                              fired'.key <= Contents(pending)[i].key]_timeVars
    <2> DEFINE InTurn == /\ totalTicks' >= totalTicks
                         /\ (phase # "running" /\ fired' # Nothing) =>
                                /\ fired'.key <= totalTicks'
                                /\ \A i \in DOMAIN Contents(pending) :
                                       fired'.key <= Contents(pending)[i].key
    <2>1. SUFFICES ASSUME TimeInv, [MainNext]_mainVars PROVE [InTurn]_timeVars
      OBVIOUS
    <2>2. CASE TimeNext
      <3>1. \A i \in DOMAIN Contents(pending) : Contents(pending)[i] \in Entries(pending)
        BY <2>1, KeptCounts DEF TimeInv, Coming
      <3>2. InTurn
        BY <2>1, <2>2, <3>1, OrderStep
      <3>3. QED
        BY <3>2
    <2>3. CASE UNCHANGED timeVars
      BY <2>3
    <2>4. QED
      <3>1. TimeNext \/ UNCHANGED timeVars
        BY <2>1 DEF MainNext, StartProcess, ConsoleTest, KernelThreads, mainVars
      <3>2. QED
        BY <2>2, <2>3, <3>1
  <1>2. QED
    BY <1>1, TimeInvariant, PTL DEF MainSpec, TakenInOrder

-----------------------------------------------------------------------------
(* The times of the disk.                                                  *)

LEMMA DivMod ==
  ASSUME NEW a \in Int, NEW b \in Nat \ {0}
  PROVE  /\ a \div b \in Int /\ a % b \in 0..(b - 1) /\ b * (a \div b) \in Int
         /\ a = b * (a \div b) + (a % b)
  <1>1. a \div b \in Int /\ a % b \in 0..(b - 1)
    OBVIOUS
  <1>2. a % b = a - b * (a \div b)
    BY SMTT(30)
  <1>3. b * (a \div b) \in Int
    BY <1>1
  <1> DEFINE p == b * (a \div b)
  <1>4. a = p + (a % b)
    <2> HIDE DEF p
    <2>1. p \in Int /\ a % b = a - p /\ a % b \in Int
      BY <1>1, <1>2, <1>3 DEF p
    <2>2. QED
      BY <2>1
  <1>5. QED
    BY <1>1, <1>3, <1>4

LEMMA DivModUnique ==
  ASSUME NEW q \in Int, NEW b \in Nat \ {0}, NEW r \in 0..(b - 1)
  PROVE  (b * q + r) \div b = q /\ (b * q + r) % b = r
  OBVIOUS

LEMMA Products ==
  ASSUME NEW R \in Nat, NEW q \in Int, NEW d \in Nat
  PROVE  d * R \in Nat /\ R * (q + d) = R * q + d * R
  OBVIOUS

LEMMA Multiples ==
  ASSUME NEW m \in Int, NEW b \in Nat \ {0}, NEW t, t = b * m
  PROVE  t \in Int /\ t \div b = m /\ t % b = 0
  OBVIOUS

\* From one sector of a track to another it is less than a turn.
Ahead(s, q, b) == ((s % b) - (q % b) + b) % b

LEMMA SectorsAhead ==
  ASSUME NEW s \in Int, NEW q \in Int, NEW b \in Nat \ {0}
  PROVE  Ahead(s, q, b) \in 0..(b - 1) /\ (q + Ahead(s, q, b)) % b = s % b
  <1> DEFINE d == Ahead(s, q, b)
             x == s % b
             y == q % b
             k == q \div b
             z == x - y + b
  <1>1. x \in 0..(b - 1) /\ y \in 0..(b - 1) /\ k \in Int /\ b * k \in Int /\ q = b * k + y
    BY DivMod
  <1>2. d = z % b
    BY DEF Ahead
  <1> HIDE DEF x, y, k
  <1>3. z \in 1..(2 * b - 1)
    BY <1>1
  <1>4. CASE z < b
    <2>1. z \in 0..(b - 1) /\ b * 0 + z = z /\ 0 \in Int
      BY <1>1, <1>3, <1>4
    <2>2. d = z
      <3> HIDE DEF z
      <3>1. (b * 0 + z) % b = z
        BY <2>1, DivModUnique
      <3>2. QED
        BY <1>2, <2>1, <3>1
    <2>3. q + d = b * (k + 1) + x
      <3>1. b * (k + 1) = b * k + b
        BY <1>1
      <3>2. QED
        BY <1>1, <2>2, <3>1
    <2>4. (b * (k + 1) + x) % b = x
      BY <1>1, DivModUnique
    <2>5. QED
      BY <2>1, <2>2, <2>3, <2>4 DEF x
  <1>5. CASE z >= b
    <2>1. z - b \in 0..(b - 1) /\ b * 1 + (z - b) = z /\ 1 \in Int
      BY <1>1, <1>3, <1>5
    <2>2. d = z - b
      <3> HIDE DEF z
      <3>1. (b * 1 + (z - b)) % b = z - b
        BY <2>1, DivModUnique
      <3>2. QED
        BY <1>2, <2>1, <3>1
    <2>3. q + d = b * k + x
      BY <1>1, <2>2
    <2>4. (b * k + x) % b = x
      BY <1>1, DivModUnique
    <2>5. QED
      BY <2>1, <2>2, <2>3, <2>4 DEF x
  <1>6. QED
    BY <1>1, <1>3, <1>4, <1>5 DEF x

\* The head is at a sector as many turns of one after another as ModuloDiff says.
Turns(s, start) == ModuloDiff(s, start \div RotationTime)
Arrival(s, start) == start + Turns(s, start) * RotationTime

LEMMA HeadArrives ==
  ASSUME NEW start \in Int, start % RotationTime = 0, NEW s \in Int
  PROVE  /\ Turns(s, start) \in Nat /\ Turns(s, start) * RotationTime \in Nat
         /\ Arrival(s, start) % RotationTime = 0
         /\ (Arrival(s, start) \div RotationTime) % SectorsPerTrack = s % SectorsPerTrack
  <1> DEFINE R == RotationTime
             S == SectorsPerTrack
             q == start \div R
             d == Ahead(s, q, S)
             t == Arrival(s, start)
  <1>1. R \in Nat \ {0} /\ S \in Nat \ {0}
    BY TimesAreNat
  <1>2. q \in Int /\ R * q \in Int /\ start = R * q
    BY <1>1, DivMod
  <1>3. d = Turns(s, start) /\ t = start + d * R
    BY DEF Arrival, Turns, ModuloDiff, Ahead
  <1> HIDE DEF R, S, q, t
  <1>4. d \in 0..(S - 1) /\ (q + d) % S = s % S
    BY <1>1, <1>2, SectorsAhead
  <1> HIDE DEF d
  <1>5. d \in Nat
    BY <1>1, <1>4
  <1>6. d * R \in Nat /\ R * (q + d) = R * q + d * R /\ q + d \in Int
    BY <1>1, <1>2, <1>5, Products
  <1>7. t = R * (q + d)
    <2> DEFINE a == R * q
               b == d * R
               c == R * (q + d)
    <2>1. a \in Int /\ b \in Nat /\ c = a + b /\ t = a + b
      BY <1>2, <1>3, <1>6
    <2> HIDE DEF a, b, c
    <2>2. t = c
      BY <2>1
    <2>3. QED
      BY <2>2 DEF c
  <1> DEFINE m == q + d
  <1>8. m \in Int /\ t = R * m /\ m % S = s % S
    BY <1>4, <1>6, <1>7
  <1> HIDE DEF m
  <1>9. t \div R = m /\ t % R = 0
    BY <1>1, <1>8, Multiples
  <1>10. QED
    BY <1>3, <1>5, <1>6, <1>8, <1>9 DEF R, S, t

\* The rotation that TimeToSeek adds takes the head to the beginning of a sector.
LEMMA SeekEndsAtSector ==
  ASSUME TimeTypes, NEW newSector \in DiskSectors
  PROVE  LET t == TimeToSeek(newSector) IN
         /\ t.seek \in Nat /\ t.rotation \in 0..(RotationTime - 1)
         /\ totalTicks + t.seek + t.rotation \in Nat
         /\ (totalTicks + t.seek + t.rotation) % RotationTime = 0
  <1> DEFINE R == RotationTime
             t == TimeToSeek(newSector)
             now == totalTicks + t.seek
             over == now % R
  <1>0. R \in Nat \ {0} /\ totalTicks \in Nat
    BY TimesAreNat DEF TimeTypes
  <1>1. t.seek \in Nat /\ t.rotation \in Nat
    BY LatencyPositive
  <1>2. t.rotation = IF over > 0 THEN R - over ELSE 0
    BY DEF TimeToSeek
  <1> HIDE DEF R, t
  <1>3. now \in Nat
    BY <1>0, <1>1
  <1> HIDE DEF now
  <1>4. over \in 0..(R - 1) /\ now \div R \in Int /\ R * (now \div R) \in Int
        /\ now = R * (now \div R) + over
    BY <1>0, <1>3, DivMod
  <1> DEFINE k == now \div R
  <1>5. \E m \in Int : now + t.rotation = R * m + 0
    <2> HIDE DEF k, over
    <2>1. k \in Int /\ R * k \in Int /\ now = R * k + over /\ over \in 0..(R - 1)
      BY <1>4 DEF k
    <2>2. CASE over > 0
      <3>1. R * (k + 1) = R * k + R /\ k + 1 \in Int
        BY <1>0, <2>1
      <3>2. now + t.rotation = R * (k + 1) + 0
        BY <1>0, <1>2, <2>1, <2>2, <3>1
      <3>3. QED
        BY <3>1, <3>2
    <2>3. CASE over = 0
      <3>1. now + t.rotation = R * k + 0
        BY <1>2, <2>1, <2>3
      <3>2. QED
        BY <2>1, <3>1
    <2>4. QED
      BY <1>0, <2>1, <2>2, <2>3
  <1>6. (now + t.rotation) % R = 0
    <2>1. PICK m \in Int : now + t.rotation = R * m + 0
      BY <1>5
    <2>2. (R * m + 0) % R = 0
      BY <1>0, DivModUnique
    <2>3. QED
      BY <2>1, <2>2
  <1>7. t.rotation \in 0..(R - 1)
    <2> HIDE DEF over
    <2> QED
      BY <1>0, <1>2, <1>4
  <1>8. now + t.rotation = totalTicks + t.seek + t.rotation
    BY DEF now
  <1>9. QED
    BY <1>0, <1>1, <1>6, <1>7, <1>8 DEF R, t

\* The track buffer began to be filled at the beginning of a sector.
DiskInv == bufferInit % RotationTime = 0 /\ DiskTimes

LEMMA DriveRequestTimes ==
  ASSUME TimeTypes, DiskInv, NEW s \in DiskSectors, NEW writing \in BOOLEAN,
         DriveRequest(s, writing)
  PROVE  DiskInv'
  <1> DEFINE R == RotationTime
             t == TimeToSeek(s)
             after == totalTicks + t.seek + t.rotation
             buffered == InTrackBuffer(s, writing)
  <1>0. /\ R \in Nat \ {0} /\ totalTicks \in Nat /\ bufferInit \in Nat /\ s \in Int
        /\ bufferInit % R = 0
    BY TimesAreNat DEF TimeTypes, DiskSectors, DiskInv
  <1>1. /\ t.seek \in Nat /\ t.rotation \in 0..(R - 1)
        /\ after \in Nat /\ after % R = 0
    BY SeekEndsAtSector
  <1>2. /\ served'.sector = s /\ served'.buffered = buffered
        /\ served'.since = bufferInit /\ served'.requested = totalTicks
        /\ served'.due = totalTicks + ComputeLatency(s, writing)
    BY DEF DriveRequest
  <1>3. bufferInit' % R = 0
    <2>1. bufferInit' = IF t.seek # 0 THEN after ELSE bufferInit
      BY DEF DriveRequest
    <2> HIDE DEF R, after, t
    <2>2. QED
      BY <1>0, <1>1, <2>1
  <1>4. CASE buffered
    <2> DEFINE d == Turns(s, bufferInit)
               x == Arrival(s, bufferInit)
               k == (after - bufferInit) \div R
    <2>1. t.seek = 0 /\ k > d
      BY <1>4 DEF InTrackBuffer, Turns
    <2>2. /\ d \in Nat /\ d * R \in Nat /\ x % R = 0
          /\ (x \div R) % SectorsPerTrack = s % SectorsPerTrack
      BY <1>0, HeadArrives
    <2>3. k \in Int /\ R * k \in Int /\ after - bufferInit >= R * k
      <3> HIDE DEF after, R
      <3> DEFINE a == after - bufferInit
      <3>1. a \in Int
        BY <1>0, <1>1
      <3> HIDE DEF a
      <3>2. /\ a \div R \in Int /\ a % R \in 0..(R - 1) /\ R * (a \div R) \in Int
            /\ a = R * (a \div R) + (a % R)
        BY <1>0, <3>1, DivMod
      <3> DEFINE p == R * (a \div R)
                 r == a % R
      <3>3. a >= p
        <4>1. a = p + r /\ p \in Int /\ r \in 0..(R - 1)
          BY <3>2
        <4> HIDE DEF p, r
        <4> QED
          BY <1>0, <4>1
      <3>4. QED
        BY <3>2, <3>3 DEF a
    <2> HIDE DEF d, k, after
    <2>4. R * k >= d * R + R
      <3> HIDE DEF R
      <3>1. k - d >= 1 /\ k - d \in Int
        BY <2>1, <2>2, <2>3
      <3>2. R * (k - d) >= R
        BY <1>0, <3>1
      <3>3. R * (k - d) = R * k - d * R
        BY <1>0, <2>2, <2>3
      <3>4. QED
        BY <1>0, <2>2, <2>3, <3>2, <3>3
    <2>5. after = totalTicks + t.rotation
      BY <1>0, <1>1, <2>1 DEF after
    <2>6. x \in bufferInit .. (totalTicks + R - 1) - R
      <3> HIDE DEF R, t
      <3> DEFINE p == d * R
                 w == R * k
      <3>1. p \in Nat /\ w \in Int /\ w >= p + R /\ after - bufferInit >= w
        BY <2>2, <2>3, <2>4
      <3>2. x = bufferInit + p
        BY DEF Arrival, d, R
      <3> HIDE DEF p, w, x
      <3>3. QED
        BY <1>0, <1>1, <2>5, <3>1, <3>2
    <2>7. Passed(s, bufferInit, totalTicks + R - 1)
      BY <2>2, <2>6 DEF Passed
    <2>8. DiskTimes'
      BY <1>2, <1>4, <2>7 DEF DiskTimes, Passed
    <2>9. QED
      BY <1>3, <2>8 DEF DiskInv
  <1>5. CASE ~ buffered
    <2> DEFINE d == Turns(s, after)
               x == Arrival(s, after)
               due == served'.due
    <2>1. /\ d \in Nat /\ d * R \in Nat /\ x % R = 0
          /\ (x \div R) % SectorsPerTrack = s % SectorsPerTrack
      BY <1>0, <1>1, HeadArrives
    <2>2. due = totalTicks + (t.seek + t.rotation + d * R + R)
      BY <1>2, <1>5 DEF ComputeLatency, Turns
    <2>3. due = x + R /\ x \in Int /\ x = due - R
      <3> DEFINE p == d * R
      <3>1. p \in Nat /\ due = totalTicks + (t.seek + t.rotation + p + R)
            /\ x = totalTicks + t.seek + t.rotation + p
        BY <2>1, <2>2 DEF Arrival
      <3> HIDE DEF p, R, t, x, due
      <3>2. QED
        BY <1>0, <1>1, <3>1
    <2> HIDE DEF x, due
    <2>4. due % R = 0
      <3> HIDE DEF R
      <3>1. /\ x \div R \in Int /\ R * (x \div R) \in Int /\ x = R * (x \div R) + (x % R)
        BY <1>0, <2>3, DivMod
      <3> DEFINE m == x \div R
      <3>2. m \in Int /\ R * m \in Int /\ x = R * m
        BY <2>1, <3>1
      <3> HIDE DEF m
      <3>3. R * (m + 1) = R * m + R
        BY <1>0, <3>2
      <3>4. due = R * (m + 1) + 0
        BY <1>0, <2>3, <3>2, <3>3
      <3>5. (R * (m + 1) + 0) % R = 0
        BY <1>0, <3>2, DivModUnique
      <3>6. QED
        BY <3>4, <3>5
    <2>5. x \in (due - R) .. (due - R)
      BY <2>3
    <2>6. Passed(s, due - R, due)
      BY <2>1, <2>5 DEF Passed
    <2>7. DiskTimes'
      BY <1>2, <1>5, <2>4, <2>6 DEF DiskTimes, Passed, due
    <2>8. QED
      BY <1>3, <2>7 DEF DiskInv
  <1>6. QED
    BY <1>4, <1>5

\* machine/disk.cc: whatever the geometry of the disk and the requests made of it, a
\* request is done when its sector has just passed under the head, or had passed since
\* the head came to the track and is read from the track buffer.
THEOREM DiskTimesExact == MainSpec => []DiskTimes
  <1>1. MainInit => DiskInv
    <2>1. 0 % RotationTime = 0
      <3>1. (RotationTime * 0 + 0) % RotationTime = 0
        BY TimesAreNat, DivModUnique
      <3>2. RotationTime * 0 + 0 = 0
        BY TimesAreNat
      <3>3. QED
        BY <3>1, <3>2
    <2>2. QED
      BY <2>1 DEF MainInit, TimeInit, DiskInv, DiskTimes
  <1>2. TimeInv /\ DiskInv /\ [MainNext]_mainVars => DiskInv'
    <2> SUFFICES ASSUME TimeInv, DiskInv, [MainNext]_mainVars PROVE DiskInv'
      OBVIOUS
    <2>1. ASSUME NEW s \in DiskSectors, NEW writing \in BOOLEAN, DriveRequest(s, writing)
          PROVE  DiskInv'
      BY <2>1, DriveRequestTimes DEF TimeInv
    <2>2. ASSUME bufferInit' = bufferInit, served' = served \/ served' = Nothing
          PROVE  DiskInv'
      BY <2>2 DEF DiskInv, DiskTimes, Passed
    <2>3. CASE TimeNext
      BY <2>1, <2>2, <2>3 DEF TimeNext, Tick, PutCharRequest, LastSleeps, IdleStart,
                              CheckIfDue, Fire, NoneDue
    <2>4. CASE UNCHANGED timeVars
      BY <2>2, <2>4 DEF timeVars
    <2>5. QED
      BY <2>3, <2>4 DEF MainNext, StartProcess, ConsoleTest, KernelThreads, mainVars
  <1>3. DiskInv => DiskTimes
    BY DEF DiskInv
  <1>4. QED
    BY <1>1, <1>2, <1>3, TimeInvariant, PTL DEF MainSpec
=============================================================================
