--------------------------- MODULE FileSystemProofs ---------------------------
(***************************************************************************)
(* Proofs about FileSystem: what is on the disk is a directory of whole    *)
(* and disjoint files, and the calls behave as if each happened at one     *)
(* moment, for any disk, directory, names and callers.                     *)
(***************************************************************************)
EXTENDS FileSystem, SequenceTheorems, FiniteSetTheorems, TLAPS

(* Numbers: the least of a set, and the rank of a number in a set.         *)

LEMMA LeastExists ==
  ASSUME NEW S \in SUBSET Nat, S # {}
  PROVE  Min(S) \in S /\ \A y \in S : Min(S) <= y
  <1> DEFINE R == OpToRel(<, Nat)
  <1>1. IsWellFoundedOn(R, Nat)
    BY NatLessThanWellFounded
  <1>2. PICK x \in S : \A y \in S : ~ (<<y, x>> \in R)
    <2> HIDE DEF R
    <2> QED
      BY <1>1, WFMin
  <1>3. \A y \in S : x <= y
    <2> TAKE y \in S
    <2>1. ~ (y < x)
      BY <1>2 DEF OpToRel
    <2>2. QED
      BY <2>1
  <1>4. QED
    BY <1>3, Zenon DEF Min

Below(S, s) == {u \in S : u < s}

Rank(S, s) == Cardinality(Below(S, s))

LEMMA RanksGrow ==
  ASSUME NEW S \in SUBSET Nat, IsFiniteSet(S)
  PROVE  /\ \A s \in S : Rank(S, s) \in 0 .. Cardinality(S) - 1
         /\ \A s, t \in S : s < t => Rank(S, s) < Rank(S, t)
  <1>1. \A s \in S : /\ IsFiniteSet(Below(S, s))
                     /\ Rank(S, s) \in Nat
                     /\ Cardinality(Below(S, s)) < Cardinality(S)
    <2> TAKE s \in S
    <2>1. Below(S, s) \in SUBSET S /\ s \notin Below(S, s)
      BY DEF Below
    <2>2. /\ IsFiniteSet(Below(S, s))
          /\ Cardinality(Below(S, s)) <= Cardinality(S)
          /\ Cardinality(S) # Cardinality(Below(S, s))
      BY <2>1, FS_Subset
    <2>3. Cardinality(Below(S, s)) \in Nat /\ Cardinality(S) \in Nat
      BY <2>2, FS_CardinalityType
    <2>4. QED
      BY <2>2, <2>3 DEF Rank
  <1>2. Cardinality(S) \in Nat
    BY FS_CardinalityType
  <1>3. ASSUME NEW s \in S, NEW t \in S, s < t
        PROVE  Rank(S, s) < Rank(S, t)
    <2>1. Below(S, s) \in SUBSET Below(S, t) /\ s \in Below(S, t) /\ s \notin Below(S, s)
      <3>1. s \in Nat /\ t \in Nat /\ ~ (s < s)
        OBVIOUS
      <3>2. \A u \in S : u < s => u < t
        BY <1>3
      <3>3. QED
        BY <1>3, <3>1, <3>2 DEF Below
    <2>2. /\ Cardinality(Below(S, s)) <= Cardinality(Below(S, t))
          /\ Cardinality(Below(S, t)) # Cardinality(Below(S, s))
      BY <1>1, <2>1, FS_Subset
    <2>3. QED
      BY <1>1, <2>2 DEF Rank
  <1>4. QED
    BY <1>1, <1>2, <1>3 DEF Rank

\* every rank below the number of elements is the rank of one of them
LEMMA RanksTaken ==
  ASSUME NEW S \in SUBSET Nat, IsFiniteSet(S)
  PROVE  \A k \in 0 .. Cardinality(S) - 1 : \E s \in S : Rank(S, s) = k
  <1> DEFINE n == Cardinality(S)
             f == [s \in S |-> Rank(S, s)]
  <1>1. n \in Nat
    BY FS_CardinalityType
  <1>2. f \in Injection(S, 0 .. n - 1)
    <2>1. f \in [S -> 0 .. n - 1]
      BY RanksGrow
    <2>2. ASSUME NEW s \in S, NEW t \in S, s # t PROVE f[s] # f[t]
      <3>1. Rank(S, s) \in Nat /\ Rank(S, t) \in Nat
        BY <1>1, RanksGrow
      <3>2. s < t \/ t < s
        BY <2>2
      <3>3. QED
        BY <3>1, <3>2, RanksGrow
    <2>3. QED
      BY <2>1, <2>2 DEF Injection, IsInjective
  <1>3. IsFiniteSet(0 .. n - 1) /\ Cardinality(0 .. n - 1) = n
    <2>1. 0 \in Int /\ n - 1 \in Int /\ (IF 0 > n - 1 THEN 0 ELSE n - 1 - 0 + 1) = n
      BY <1>1
    <2> HIDE DEF n
    <2>2. QED
      BY <2>1, FS_Interval
  <1>4. f \in Surjection(S, 0 .. n - 1)
    <2> HIDE DEF f
    <2> QED
      BY <1>2, <1>3, FS_Injection
  <1>5. QED
    BY <1>4 DEF Surjection

-----------------------------------------------------------------------------
(* The sectors that Find and Allocate return, and headers.                 *)

LEMMA SectorsFinite ==
  ASSUME NEW S \in SUBSET Sectors
  PROVE  S \in SUBSET Nat /\ IsFiniteSet(S) /\ Cardinality(S) \in Nat
  <1>1. IsFiniteSet(Sectors) /\ Sectors \in SUBSET Nat
    <2>1. 1 \in Int /\ NumSectors \in Int
      BY FileSystemAssumption
    <2>2. QED
      BY <2>1, FS_Interval DEF Sectors
  <1>2. QED
    BY <1>1, FS_Subset, FS_CardinalityType

LEMMA FirstClearExists ==
  ASSUME NEW map, NEW count \in Nat, count <= Cardinality(Sectors \ map)
  PROVE  /\ FirstClear(map, count) \in SUBSET (Sectors \ map)
         /\ Cardinality(FirstClear(map, count)) = count
  <1> DEFINE clear == Sectors \ map
             F == {s \in clear : Rank(clear, s) < count}
             T == 0 .. count - 1
             f == [s \in F |-> Rank(clear, s)]
  <1>1. clear \in SUBSET Nat /\ IsFiniteSet(clear) /\ Cardinality(clear) \in Nat
    BY SectorsFinite
  <1>2. IsFiniteSet(T) /\ Cardinality(T) = count
    <2>1. 0 \in Int /\ count - 1 \in Int /\ (IF 0 > count - 1 THEN 0 ELSE count - 1 - 0 + 1) = count
      OBVIOUS
    <2>2. QED
      BY <2>1, FS_Interval
  <1>3. \A s \in clear : Rank(clear, s) \in Nat
    <2> HIDE DEF clear
    <2> QED
      BY <1>1, RanksGrow
  <1>4. \A s, t \in clear : s < t => Rank(clear, s) < Rank(clear, t)
    <2> HIDE DEF clear
    <2> QED
      BY <1>1, RanksGrow
  <1>5. \A k \in T : \E s \in clear : Rank(clear, s) = k
    <2>1. \A k \in 0 .. Cardinality(clear) - 1 : \E s \in clear : Rank(clear, s) = k
      <3> HIDE DEF clear
      <3> QED
        BY <1>1, RanksTaken
    <2>2. T \in SUBSET (0 .. Cardinality(clear) - 1)
      BY <1>1
    <2> HIDE DEF clear, T
    <2>3. QED
      BY <2>1, <2>2
  <1> HIDE DEF clear
  <1>6. f \in [F -> T]
    BY <1>3
  <1>7. f \in Injection(F, T)
    <2>1. ASSUME NEW s \in F, NEW t \in F, s # t PROVE f[s] # f[t]
      <3>1. s \in Nat /\ t \in Nat /\ s \in clear /\ t \in clear
        BY <1>1
      <3>2. s < t \/ t < s
        BY <2>1, <3>1
      <3>3. QED
        BY <3>1, <3>2, <1>3, <1>4
    <2> HIDE DEF F, f, T
    <2>2. QED
      BY <2>1, <1>6 DEF Injection, IsInjective
  <1>8. f \in Surjection(F, T)
    <2>1. ASSUME NEW k \in T PROVE \E s \in F : f[s] = k
      BY <1>5, <2>1
    <2> HIDE DEF F, f, T
    <2>2. QED
      BY <2>1, <1>6 DEF Surjection
  <1>9. Cardinality(F) = count
    <2> HIDE DEF F, f, T
    <2> QED
      BY <1>2, <1>7, <1>8, FS_Injection
  <1>10. \A s \in F, u \in clear \ F : s < u
    <2> TAKE s \in F, u \in clear \ F
    <2>1. s \in Nat /\ u \in Nat /\ s \in clear /\ u \in clear /\ s # u
      BY <1>1
    <2>2. ~ (u < s)
      BY <2>1, <1>3, <1>4
    <2>3. QED
      BY <2>1, <2>2
  <1>11. \E first \in SUBSET clear :
            /\ Cardinality(first) = count
            /\ \A s \in first, u \in clear \ first : s < u
    <2>1. F \in SUBSET clear
      OBVIOUS
    <2> HIDE DEF F
    <2>2. QED
      BY <2>1, <1>9, <1>10
  <1>12. FirstClear(map, count) = CHOOSE first \in SUBSET clear :
            /\ Cardinality(first) = count
            /\ \A s \in first, u \in clear \ first : s < u
    BY DEF FirstClear, clear
  <1>13. FirstClear(map, count) \in SUBSET clear /\ Cardinality(FirstClear(map, count)) = count
    BY <1>11, <1>12, Zenon
  <1>14. QED
    BY <1>13 DEF clear

LEMMA AscendingLists ==
  ASSUME NEW S \in SUBSET Sectors
  PROVE  /\ Ascending(S) \in Seq(S)
         /\ Len(Ascending(S)) = Cardinality(S)
         /\ \A i, j \in 1 .. Len(Ascending(S)) : Ascending(S)[i] = Ascending(S)[j] => i = j
         /\ ToSet(Ascending(S)) = S
  <1> DEFINE n == Cardinality(S)
             Pick(i) == CHOOSE s \in S : Rank(S, s) = i - 1
             a == [i \in 1 .. n |-> Pick(i)]
  <1>1. S \in SUBSET Nat /\ IsFiniteSet(S) /\ n \in Nat
    BY SectorsFinite
  <1>2. \A i \in 1 .. n : Pick(i) \in S /\ Rank(S, Pick(i)) = i - 1
    <2> TAKE i \in 1 .. n
    <2>1. PICK s \in S : Rank(S, s) = i - 1
      <3>1. i - 1 \in 0 .. Cardinality(S) - 1
        BY <1>1
      <3>2. QED
        BY <1>1, <3>1, RanksTaken
    <2>2. QED
      BY <2>1, Zenon
  <1>3. Ascending(S) = a
    BY Zenon DEF Ascending, Rank, Below
  <1> HIDE DEF Pick
  <1>4. a \in [1 .. n -> S]
    BY <1>2
  <1>5. \A i, j \in 1 .. n : a[i] = a[j] => i = j
    <2> TAKE i, j \in 1 .. n
    <2>1. SUFFICES ASSUME a[i] = a[j] PROVE i = j
      OBVIOUS
    <2>2. i - 1 = j - 1
      BY <1>2, <2>1
    <2>3. QED
      BY <1>1, <2>2
  <1>6. \A s \in S : \E i \in 1 .. n : a[i] = s
    <2> TAKE s \in S
    <2> DEFINE i == Rank(S, s) + 1
    <2>1. Rank(S, s) \in 0 .. n - 1
      BY <1>1, RanksGrow
    <2>2. i \in 1 .. n /\ i - 1 = Rank(S, s)
      BY <1>1, <2>1
    <2>3. a[i] \in S /\ Rank(S, a[i]) = Rank(S, s)
      BY <1>2, <2>2
    <2>4. a[i] = s
      <3>1. a[i] \in Nat /\ s \in Nat
        BY <1>1, <2>3
      <3>2. ~ (a[i] < s) /\ ~ (s < a[i])
        <4>1. Rank(S, s) \in Nat
          BY <1>1, <2>1
        <4>2. \A x, y \in S : x < y => Rank(S, x) < Rank(S, y)
          BY <1>1, RanksGrow
        <4> HIDE DEF a, i, n
        <4>3. QED
          BY <2>3, <4>1, <4>2
      <3>3. QED
        BY <3>1, <3>2
    <2>5. QED
      BY <2>2, <2>4
  <1> HIDE DEF a
  <1>7. a \in Seq(S) /\ Len(a) = n /\ DOMAIN a = 1 .. n
    BY <1>1, <1>4, SeqDef
  <1>8. ToSet(a) = S
    BY <1>4, <1>6, <1>7 DEF ToSet
  <1>9. QED
    BY <1>3, <1>5, <1>7, <1>8

\* a header in a sector that it does not itself point to, and that names no
\* sector twice
HeaderAt(s, h) ==
    /\ h \in Headers
    /\ \A i, j \in 1 .. Len(h) : h[i] = h[j] => i = j
    /\ s \notin ToSet(h)

\* the sectors of the file whose header is h, in sector s
SectorsOf(s, h) == {s} \cup ToSet(h)

LEMMA HeaderType ==
  ASSUME NEW h
  PROVE  h \in Headers <=> h \in Seq(Sectors) /\ Len(h) <= MaxSize
  <1>1. ASSUME h \in Headers PROVE h \in Seq(Sectors) /\ Len(h) <= MaxSize
    <2>1. PICK m \in 0 .. MaxSize : h \in [1 .. m -> Sectors]
      BY <1>1, Zenon DEF Headers, BoundedSeq, SeqOf
    <2>2. m \in Nat /\ m <= MaxSize
      BY FileSystemAssumption
    <2>3. QED
      BY <2>1, <2>2
  <1>2. ASSUME h \in Seq(Sectors), Len(h) <= MaxSize PROVE h \in Headers
    <2>1. h \in [1 .. Len(h) -> Sectors] /\ Len(h) \in 0 .. MaxSize
      BY <1>2, FileSystemAssumption
    <2>2. QED
      BY <2>1, Zenon DEF Headers, BoundedSeq, SeqOf
  <1>3. QED
    BY <1>1, <1>2

LEMMA SectorsOfHeader ==
  ASSUME NEW s \in Sectors, NEW h, HeaderAt(s, h)
  PROVE  /\ Len(h) \in 0 .. MaxSize
         /\ h \in [1 .. Len(h) -> Sectors]
         /\ ToSet(h) = {h[i] : i \in 1 .. Len(h)}
         /\ SectorsOf(s, h) \in SUBSET Sectors
         /\ Cardinality(SectorsOf(s, h)) = 1 + Len(h)
  <1> DEFINE n == Len(h)
  <1>1. h \in Seq(Sectors) /\ n <= MaxSize /\ n \in Nat
    BY HeaderType DEF HeaderAt
  <1>2. h \in [1 .. n -> Sectors] /\ n \in 0 .. MaxSize /\ DOMAIN h = 1 .. n
    BY <1>1, FileSystemAssumption
  <1>3. ToSet(h) = {h[i] : i \in 1 .. n}
    BY <1>2 DEF ToSet
  <1>4. ToSet(h) \in SUBSET Sectors
    BY <1>2, <1>3
  <1>5. Cardinality(ToSet(h)) = n
    <2>1. IsFiniteSet(1 .. n) /\ Cardinality(1 .. n) = n
      <3>1. 1 \in Int /\ n \in Int /\ (IF 1 > n THEN 0 ELSE n - 1 + 1) = n
        BY <1>1
      <3> HIDE DEF n
      <3>2. QED
        BY <3>1, FS_Interval
    <2>2. h \in Injection(1 .. n, ToSet(h)) /\ h \in Surjection(1 .. n, ToSet(h))
      <3>1. \A i, j \in 1 .. n : h[i] = h[j] => i = j
        BY DEF HeaderAt
      <3>2. h \in [1 .. n -> ToSet(h)]
        BY <1>2, <1>3
      <3> HIDE DEF n
      <3>3. QED
        BY <1>3, <3>1, <3>2 DEF Injection, IsInjective, Surjection
    <2> HIDE DEF n
    <2>3. QED
      BY <1>4, <2>1, <2>2, SectorsFinite, FS_Injection
  <1>6. Cardinality(ToSet(h) \cup {s}) = n + 1
    <2>1. s \notin ToSet(h) /\ IsFiniteSet(ToSet(h))
      BY <1>4, SectorsFinite DEF HeaderAt
    <2> HIDE DEF n
    <2>2. QED
      BY <1>5, <2>1, FS_AddElement
  <1>7. SectorsOf(s, h) = ToSet(h) \cup {s} /\ 1 + n = n + 1
    BY <1>1 DEF SectorsOf
  <1>8. QED
    BY <1>2, <1>3, <1>4, <1>6, <1>7

-----------------------------------------------------------------------------
(* The inductive invariant.  What the disk holds between two changes of it *)
(* (Whole), and, for the place where each caller is, how its copies relate *)
(* to the directory, the bitmap and the disk (CallerOK).                   *)

Slots == 1 .. NumDirEntries

SectorsAt(dir, dk, i) == SectorsOf(dir[i].sector, dk[dir[i].sector])

\* the files that dir lists have headers, are disjoint and have different names
Whole(dir, dk) ==
    \A i \in Slots : dir[i] # Free =>
        /\ HeaderAt(dir[i].sector, dk[dir[i].sector])
        /\ \A j \in Slots : dir[j] # Free /\ j # i =>
              /\ dir[i].name # dir[j].name
              /\ SectorsAt(dir, dk, i) \cap SectorsAt(dir, dk, j) = {}

UsedBy(dir, dk) == {s \in Sectors : \E i \in Slots : dir[i] # Free /\ s \in SectorsAt(dir, dk, i)}

NotListed(dir, n) == \A i \in Slots : dir[i] # Free => dir[i].name # n

ListedAt(dir, n, i) == i \in Slots /\ dir[i] # Free /\ dir[i].name = n

\* the directory with a file, or without one, in slot i
WithFile(dir, i, n, s) == [dir EXCEPT ![i] = [name |-> n, sector |-> s]]

WithoutFile(dir, i) == [dir EXCEPT ![i] = Free]

CreatePlaces == {"create find", "create map", "create header", "create dir", "create bitmap"}

RemovePlaces == {"remove find", "remove header", "remove map", "remove bitmap", "remove dir"}

\* what a Create has found for its file, and not yet put into the directory
NewFile(k, cp, dir, map) ==
    /\ NotListed(dir, k.name)
    /\ cp.sector \in Sectors /\ HeaderAt(cp.sector, cp.hdr) /\ Len(cp.hdr) = k.number
    /\ SectorsOf(cp.sector, cp.hdr) \cap map = {}
    /\ cp.map = map \cup SectorsOf(cp.sector, cp.hdr)
    /\ \E i \in Slots : dir[i] = Free /\ cp.dir = WithFile(dir, i, k.name, cp.sector)

\* what a Remove has found of its file, and not yet taken out of the directory
OldFile(k, cp, dir) == \E i \in Slots : ListedAt(dir, k.name, i) /\ cp.sector = dir[i].sector

CreateOK(k, p, cp, dir, map, dk) ==
    /\ p \in CreatePlaces => k.op = "Create"
    /\ p = "create map" => cp.dir = dir /\ NotListed(dir, k.name)
    /\ p \in {"create header", "create dir"} => NewFile(k, cp, dir, map)
    /\ p = "create dir" => dk[cp.sector] = cp.hdr
    /\ p = "create bitmap" => cp.map = UsedBy(dir, dk)

RemoveOK(k, p, cp, dir, map, dk) ==
    /\ p \in RemovePlaces => k.op = "Remove"
    /\ p \in {"remove header", "remove map"} => cp.dir = dir /\ OldFile(k, cp, dir)
    /\ p = "remove map" => cp.hdr = dk[cp.sector]
    /\ p \in {"remove bitmap", "remove dir"} =>
          \E i \in Slots : /\ ListedAt(dir, k.name, i)
                           /\ cp.dir = WithoutFile(dir, i)
                           /\ p = "remove bitmap" => cp.map = map \ SectorsAt(dir, dk, i)
                           /\ p = "remove dir" => map = UsedBy(dir, dk) \ SectorsAt(dir, dk, i)

\* an OpenFile keeps the header of a file that the directory still lists
HeaderKept(op, dir, dk) ==
    op # NoFile => \E i \in Slots : ListedAt(dir, op.name, i) /\ op.hdr = dk[dir[i].sector]

OpenOK(k, p, cp, op, dir, dk) ==
    /\ p \in {"open find", "open header"} => k.op = "Open" /\ op = NoFile
    /\ p = "open header" =>
          \E i \in Slots : ListedAt(dir, k.name, i) /\ cp.sector = dir[i].sector
    /\ p = "transfer" => op # NoFile /\ op.name = k.name
    /\ HeaderKept(op, dir, dk)

CallerOK(k, p, cp, op, dir, map, dk) ==
    /\ CreateOK(k, p, cp, dir, map, dk)
    /\ RemoveOK(k, p, cp, dir, map, dk)
    /\ OpenOK(k, p, cp, op, dir, dk)

CallersOK == \A c \in Callers : CallerOK(call[c], place[c], copy[c], open[c], dirDisk, mapDisk, disk)

OneChange == \A c, d \in Callers : Changing(c) /\ Changing(d) => c = d

RemovedNotOpen ==
    \A c, d \in Callers :
        call[c] # NoCall /\ call[c].op = "Remove" => ~ HasOpen(d, call[c].name)

BitmapExact == (\A c \in Callers : ~ Vulnerable(c)) => mapDisk = UsedBy(dirDisk, disk)

\* what each variable holds
VariablesOK ==
    /\ dirDisk \in [Slots -> Entries \cup {Free}]
    /\ mapDisk \in SUBSET Sectors
    /\ disk \in [Sectors -> Headers \cup Data]
    /\ call \in [Callers -> Answered \cup {NoCall}]
    /\ place \in [Callers -> Places]
    /\ DOMAIN copy = Callers
    /\ result \in [Callers -> BOOLEAN]
    /\ open \in [Callers -> OpenFiles \cup {NoFile}]
    /\ \A c \in Callers : place[c] = "out" <=> call[c] = NoCall

IInv ==
    /\ VariablesOK
    /\ Whole(dirDisk, disk)
    /\ BitmapExact
    /\ CallersOK
    /\ OneChange
    /\ RemovedNotOpen

-----------------------------------------------------------------------------
(* Directories and the disk.                                               *)

LEMMA ListedFound ==
  ASSUME NEW dir, NEW n
  PROVE  /\ FindIndex(dir, n) = 0 <=> NotListed(dir, n)
         /\ FindIndex(dir, n) # 0 => ListedAt(dir, n, FindIndex(dir, n))
  <1> DEFINE at == {i \in Slots : dir[i] # Free /\ dir[i].name = n}
  <1>1. at \in SUBSET Nat /\ (at = {} <=> NotListed(dir, n))
    BY FileSystemAssumption DEF Slots, NotListed
  <1>2. FindIndex(dir, n) = IF at = {} THEN 0 ELSE Min(at)
    BY DEF FindIndex, Slots
  <1>3. \A i \in at : i # 0 /\ ListedAt(dir, n, i)
    BY FileSystemAssumption DEF Slots, ListedAt
  <1> HIDE DEF at
  <1>4. CASE at = {}
    BY <1>1, <1>2, <1>4
  <1>5. CASE at # {}
    <2>1. Min(at) \in at
      BY <1>1, <1>5, LeastExists
    <2>2. QED
      BY <1>1, <1>2, <1>3, <1>5, <2>1
  <1>6. QED
    BY <1>4, <1>5

LEMMA ListedOnce ==
  ASSUME NEW dir, NEW dk, NEW n, NEW i \in Slots,
         Whole(dir, dk), ListedAt(dir, n, i)
  PROVE  FindIndex(dir, n) = i
  <1>1. FindIndex(dir, n) # 0
    BY ListedFound DEF ListedAt, NotListed
  <1>2. ListedAt(dir, n, FindIndex(dir, n))
    BY <1>1, ListedFound
  <1> DEFINE j == FindIndex(dir, n)
  <1> HIDE DEF j
  <1>3. ListedAt(dir, n, j)
    BY <1>2 DEF j
  <1>4. j = i
    BY <1>3 DEF ListedAt, Whole
  <1>5. QED
    BY <1>4 DEF j

\* a file whose sectors are not in use is put into a free slot
LEMMA FileAdded ==
  ASSUME NEW dir \in [Slots -> Entries \cup {Free}], NEW dk \in [Sectors -> Headers \cup Data],
         NEW n \in Names, NEW s \in Sectors, NEW i \in Slots,
         Whole(dir, dk), dir[i] = Free, NotListed(dir, n), HeaderAt(s, dk[s]),
         SectorsOf(s, dk[s]) \cap UsedBy(dir, dk) = {}
  PROVE  LET new == WithFile(dir, i, n, s) IN
         /\ new \in [Slots -> Entries \cup {Free}]
         /\ Whole(new, dk)
         /\ UsedBy(new, dk) = UsedBy(dir, dk) \cup SectorsOf(s, dk[s])
         /\ ListedAt(new, n, i) /\ new[i].sector = s
         /\ \A j \in Slots : j # i => new[j] = dir[j]
  <1> DEFINE new == WithFile(dir, i, n, s)
  <1>1. /\ \A j \in Slots : j # i => new[j] = dir[j]
        /\ new[i] = [name |-> n, sector |-> s]
        /\ new[i].name = n /\ new[i].sector = s
    BY DEF WithFile
  <1>2. new[i] \in Entries /\ new \in [Slots -> Entries \cup {Free}]
    BY <1>1 DEF Entries, WithFile
  <1> HIDE DEF new
  <1>3. new[i] # Free
    BY <1>2, FileSystemAssumption
  <1>4. SectorsAt(new, dk, i) = SectorsOf(s, dk[s])
    BY <1>1 DEF SectorsAt
  <1>5. \A j \in Slots : j # i => SectorsAt(new, dk, j) = SectorsAt(dir, dk, j)
    BY <1>1 DEF SectorsAt
  <1>6. \A j \in Slots : dir[j] # Free => SectorsAt(dir, dk, j) \in SUBSET Sectors
    <2> TAKE j \in Slots
    <2>1. SUFFICES ASSUME dir[j] # Free PROVE SectorsAt(dir, dk, j) \in SUBSET Sectors
      OBVIOUS
    <2>2. dir[j].sector \in Sectors
      BY <2>1 DEF Entries
    <2>3. HeaderAt(dir[j].sector, dk[dir[j].sector])
      BY <2>1 DEF Whole
    <2>4. QED
      BY <2>2, <2>3, SectorsOfHeader DEF SectorsAt
  <1>7. SectorsOf(s, dk[s]) \in SUBSET Sectors
    BY SectorsOfHeader
  <1>8. \A j \in Slots : dir[j] # Free =>
           SectorsAt(dir, dk, j) \cap SectorsOf(s, dk[s]) = {}
    BY <1>6 DEF UsedBy
  <1>9. Whole(new, dk)
    <2>1. ASSUME NEW k \in Slots, new[k] # Free
          PROVE  HeaderAt(new[k].sector, dk[new[k].sector])
      BY <1>1, <2>1 DEF Whole
    <2>2. ASSUME NEW k \in Slots, new[k] # Free, NEW j \in Slots, new[j] # Free, j # k
          PROVE  /\ new[k].name # new[j].name
                 /\ SectorsAt(new, dk, k) \cap SectorsAt(new, dk, j) = {}
      <3>1. CASE k # i /\ j # i
        <4>1. new[k] = dir[k] /\ new[j] = dir[j]
          BY <1>1, <3>1
        <4>2. QED
          BY <1>5, <2>2, <3>1, <4>1 DEF Whole
      <3>2. CASE k = i
        <4>1. new[j] = dir[j]
          BY <1>1, <2>2, <3>2
        <4>2. new[j].name # n
          BY <2>2, <4>1 DEF NotListed
        <4>3. new[k].name # new[j].name
          BY <1>1, <3>2, <4>2
        <4>4. SectorsAt(new, dk, k) \cap SectorsAt(new, dk, j) = {}
          BY <1>4, <1>5, <1>8, <2>2, <3>2, <4>1
        <4>5. QED
          BY <4>3, <4>4
      <3>3. CASE j = i
        <4>1. new[k] = dir[k]
          BY <1>1, <2>2, <3>3
        <4>2. new[k].name # n
          BY <2>2, <4>1 DEF NotListed
        <4>3. new[k].name # new[j].name
          BY <1>1, <3>3, <4>2
        <4>4. SectorsAt(new, dk, k) \cap SectorsAt(new, dk, j) = {}
          BY <1>4, <1>5, <1>8, <2>2, <3>3, <4>1
        <4>5. QED
          BY <4>3, <4>4
      <3>4. QED
        BY <3>1, <3>2, <3>3
    <2>3. QED
      BY <2>1, <2>2 DEF Whole
  <1>10. UsedBy(new, dk) = UsedBy(dir, dk) \cup SectorsOf(s, dk[s])
    <2>1. ASSUME NEW u \in Sectors
          PROVE  u \in UsedBy(new, dk) <=> u \in UsedBy(dir, dk) \/ u \in SectorsOf(s, dk[s])
      <3>1. \A j \in Slots : j # i =>
               (new[j] # Free /\ u \in SectorsAt(new, dk, j)
                   <=> dir[j] # Free /\ u \in SectorsAt(dir, dk, j))
        BY <1>1, <1>5
      <3>2. new[i] # Free /\ (u \in SectorsAt(new, dk, i) <=> u \in SectorsOf(s, dk[s]))
        BY <1>3, <1>4
      <3>3. QED
        BY <3>1, <3>2 DEF UsedBy
    <2>2. UsedBy(new, dk) \in SUBSET Sectors /\ UsedBy(dir, dk) \in SUBSET Sectors
      BY DEF UsedBy
    <2>3. QED
      BY <1>7, <2>1, <2>2
  <1>11. QED
    BY <1>1, <1>2, <1>3, <1>9, <1>10 DEF ListedAt, new

LEMMA FileRemoved ==
  ASSUME NEW dir \in [Slots -> Entries \cup {Free}], NEW dk, NEW i \in Slots,
         Whole(dir, dk), dir[i] # Free
  PROVE  LET new == WithoutFile(dir, i) IN
         /\ new \in [Slots -> Entries \cup {Free}]
         /\ Whole(new, dk)
         /\ UsedBy(new, dk) = UsedBy(dir, dk) \ SectorsAt(dir, dk, i)
         /\ new[i] = Free
         /\ \A j \in Slots : j # i => new[j] = dir[j]
  <1> DEFINE new == WithoutFile(dir, i)
  <1>1. /\ new[i] = Free /\ \A j \in Slots : j # i => new[j] = dir[j]
        /\ new \in [Slots -> Entries \cup {Free}]
    BY DEF WithoutFile
  <1> HIDE DEF new
  <1>2. \A j \in Slots : j # i => SectorsAt(new, dk, j) = SectorsAt(dir, dk, j)
    BY <1>1 DEF SectorsAt
  <1>3. Whole(new, dk)
    <2>1. ASSUME NEW k \in Slots, new[k] # Free
          PROVE  HeaderAt(new[k].sector, dk[new[k].sector])
      BY <1>1, <2>1 DEF Whole
    <2>2. ASSUME NEW k \in Slots, new[k] # Free, NEW j \in Slots, new[j] # Free, j # k
          PROVE  /\ new[k].name # new[j].name
                 /\ SectorsAt(new, dk, k) \cap SectorsAt(new, dk, j) = {}
      <3>1. k # i /\ j # i /\ new[k] = dir[k] /\ new[j] = dir[j]
        BY <1>1, <2>2
      <3>2. QED
        BY <1>2, <2>2, <3>1 DEF Whole
    <2>3. QED
      BY <2>1, <2>2 DEF Whole
  <1>4. \A j \in Slots : j # i /\ dir[j] # Free =>
           SectorsAt(dir, dk, j) \cap SectorsAt(dir, dk, i) = {}
    BY DEF Whole
  <1>5. UsedBy(new, dk) = UsedBy(dir, dk) \ SectorsAt(dir, dk, i)
    BY <1>1, <1>2, <1>4 DEF UsedBy
  <1>6. QED
    BY <1>1, <1>3, <1>5 DEF new

\* a sector that is no file's header is written
LEMMA SectorWritten ==
  ASSUME NEW dir \in [Slots -> Entries \cup {Free}], NEW dk, NEW new,
         NEW b \in Sectors, \A s \in Sectors \ {b} : new[s] = dk[s],
         \A i \in Slots : dir[i] # Free => dir[i].sector # b
  PROVE  /\ \A i \in Slots : dir[i] # Free =>
               /\ new[dir[i].sector] = dk[dir[i].sector]
               /\ SectorsAt(dir, new, i) = SectorsAt(dir, dk, i)
         /\ Whole(dir, dk) => Whole(dir, new)
         /\ UsedBy(dir, new) = UsedBy(dir, dk)
  <1>1. \A i \in Slots : dir[i] # Free => new[dir[i].sector] = dk[dir[i].sector]
    BY DEF Entries
  <1>2. \A i \in Slots : dir[i] # Free => SectorsAt(dir, new, i) = SectorsAt(dir, dk, i)
    BY <1>1 DEF SectorsAt
  <1>3. Whole(dir, dk) => Whole(dir, new)
    BY <1>1, <1>2 DEF Whole
  <1>4. UsedBy(dir, new) = UsedBy(dir, dk)
    BY <1>2 DEF UsedBy
  <1>5. QED
    BY <1>1, <1>2, <1>3, <1>4

-----------------------------------------------------------------------------
(* Steps of a caller that leave the disk alone.                            *)

\* the other callers take no part in the step
OthersRest(c) ==
    \A d \in Callers \ {c} :
        /\ call'[d] = call[d] /\ place'[d] = place[d]
        /\ copy'[d] = copy[d] /\ open'[d] = open[d]

\* c is in no other call than before, and has no file open that it did not open
SameCall(c) ==
    /\ call'[c] # NoCall =>
          /\ call[c] # NoCall
          /\ call'[c].op = call[c].op
          /\ call'[c].name = call[c].name
    /\ open'[c] # NoFile => HasOpen(c, open'[c].name)

LEMMA CallsStayApart ==
  ASSUME IInv, NEW c \in Callers, OthersRest(c), SameCall(c)
  PROVE  OneChange' /\ RemovedNotOpen'
  <1>1. \A d \in Callers : Changing(d)' => Changing(d)
    BY DEF Changing, OthersRest, SameCall
  <1>2. \A d \in Callers : open'[d] # NoFile => HasOpen(d, open'[d].name)
    BY DEF HasOpen, OthersRest, SameCall
  <1>3. OneChange'
    BY <1>1 DEF OneChange, IInv
  <1>4. ASSUME NEW d \in Callers, NEW e \in Callers, call'[d] # NoCall, call'[d].op = "Remove"
        PROVE  /\ ~ (open'[e] # NoFile /\ open'[e].name = call'[d].name)
               /\ ~ (call'[e] # NoCall /\ call'[e].op = "Open" /\ call'[e].name = call'[d].name)
    <2>1. call[d] # NoCall /\ call[d].op = "Remove" /\ call'[d].name = call[d].name
      BY <1>4 DEF OthersRest, SameCall
    <2>2. ~ HasOpen(e, call[d].name)
      BY <2>1 DEF RemovedNotOpen, IInv
    <2>3. ~ (open'[e] # NoFile /\ open'[e].name = call'[d].name)
      BY <1>2, <2>1, <2>2
    <2>4. ~ (call'[e] # NoCall /\ call'[e].op = "Open" /\ call'[e].name = call'[d].name)
      BY <2>1, <2>2 DEF HasOpen, OthersRest, SameCall
    <2>5. QED
      BY <2>3, <2>4
  <1>5. RemovedNotOpen'
    BY <1>4 DEF RemovedNotOpen, HasOpen
  <1>6. QED
    BY <1>3, <1>5

LEMMA StepInMemory ==
  ASSUME IInv, NEW c \in Callers, UNCHANGED <<dirDisk, mapDisk, disk>>,
         VariablesOK', OthersRest(c), OneChange', RemovedNotOpen',
         ~ Vulnerable(c), ~ Vulnerable(c)',
         CallerOK(call'[c], place'[c], copy'[c], open'[c], dirDisk, mapDisk, disk)
  PROVE  IInv'
  <1>1. Whole(dirDisk, disk)'
    BY DEF IInv
  <1>2. BitmapExact'
    <2>1. \A d \in Callers : Vulnerable(d)' <=> Vulnerable(d)
      BY DEF OthersRest, Vulnerable
    <2>2. QED
      BY <2>1 DEF IInv, BitmapExact
  <1>3. CallersOK'
    BY DEF IInv, CallersOK, OthersRest
  <1>4. QED
    BY <1>1, <1>2, <1>3 DEF IInv

\* what a step that ends or continues a call leaves in the variables
LEMMA VariablesStep ==
  ASSUME VariablesOK, NEW c \in Callers, NEW p \in Places \ {"out"}, place[c] # "out",
         place' = [place EXCEPT ![c] = p], UNCHANGED call,
         NEW cp, copy' = [copy EXCEPT ![c] = cp], NEW r \in BOOLEAN,
         result' = result \/ result' = [result EXCEPT ![c] = r]
  PROVE  /\ place' \in [Callers -> Places] /\ call' \in [Callers -> Answered \cup {NoCall}]
         /\ DOMAIN copy' = Callers /\ result' \in [Callers -> BOOLEAN]
         /\ \A d \in Callers : place'[d] = "out" <=> call'[d] = NoCall
         /\ place'[c] = p /\ copy'[c] = cp /\ call'[c] = call[c]
         /\ \A d \in Callers \ {c} :
               call'[d] = call[d] /\ place'[d] = place[d] /\ copy'[d] = copy[d]
  <1>1. /\ place' \in [Callers -> Places] /\ place'[c] = p
        /\ \A d \in Callers \ {c} : place'[d] = place[d]
    BY DEF VariablesOK
  <1>2. DOMAIN copy' = Callers /\ copy'[c] = cp /\ \A d \in Callers \ {c} : copy'[d] = copy[d]
    BY DEF VariablesOK
  <1>3. result' \in [Callers -> BOOLEAN]
    BY DEF VariablesOK
  <1>4. \A d \in Callers : place'[d] = "out" <=> call'[d] = NoCall
    BY <1>1 DEF VariablesOK
  <1>5. QED
    BY <1>1, <1>2, <1>3, <1>4 DEF VariablesOK

LEMMA BetweenCalls ==
  ASSUME NEW k, NEW p \in {"out", "return"}, NEW cp, NEW op, NEW dir, NEW map, NEW dk,
         HeaderKept(op, dir, dk)
  PROVE  CallerOK(k, p, cp, op, dir, map, dk)
  <1>1. CreateOK(k, p, cp, dir, map, dk) /\ RemoveOK(k, p, cp, dir, map, dk)
    BY DEF CreateOK, RemoveOK, CreatePlaces, RemovePlaces
  <1>2. OpenOK(k, p, cp, op, dir, dk)
    BY DEF OpenOK
  <1>3. QED
    BY <1>1, <1>2 DEF CallerOK

LEMMA CallerNow ==
  ASSUME IInv, NEW c \in Callers
  PROVE  /\ CreateOK(call[c], place[c], copy[c], dirDisk, mapDisk, disk)
         /\ RemoveOK(call[c], place[c], copy[c], dirDisk, mapDisk, disk)
         /\ OpenOK(call[c], place[c], copy[c], open[c], dirDisk, disk)
         /\ HeaderKept(open[c], dirDisk, disk)
  BY DEF IInv, CallersOK, CallerOK, OpenOK

LEMMA EndsInMemory ==
  ASSUME IInv, NEW c \in Callers, NEW r \in BOOLEAN,
         place[c] # "out", ~ Vulnerable(c), Finish(c, r),
         UNCHANGED <<dirDisk, mapDisk, disk, call, open>>
  PROVE  IInv'
  <1>1. VariablesOK
    BY DEF IInv
  <1>2. /\ place' \in [Callers -> Places] /\ call' \in [Callers -> Answered \cup {NoCall}]
        /\ DOMAIN copy' = Callers /\ result' \in [Callers -> BOOLEAN]
        /\ \A d \in Callers : place'[d] = "out" <=> call'[d] = NoCall
        /\ place'[c] = "return"
        /\ OthersRest(c)
    <2>1. "return" \in Places \ {"out"}
      BY DEF Places
    <2>2. QED
      BY <1>1, <2>1, VariablesStep DEF Finish, OthersRest
  <1>3. VariablesOK'
    BY <1>1, <1>2 DEF VariablesOK
  <1>4. SameCall(c)
    BY DEF SameCall, HasOpen
  <1>5. CallerOK(call'[c], place'[c], copy'[c], open'[c], dirDisk, mapDisk, disk)
    BY <1>2, CallerNow, BetweenCalls
  <1>6. ~ Vulnerable(c)'
    BY <1>2 DEF Vulnerable
  <1>7. QED
    BY <1>2, <1>3, <1>4, <1>5, <1>6, CallsStayApart, StepInMemory

LEMMA GoesOnInMemory ==
  ASSUME IInv, NEW c \in Callers, NEW cp,
         NEW p \in Places \ {"out", "create bitmap", "remove dir"},
         place[c] # "out", ~ Vulnerable(c), GoTo(c, p), copy' = [copy EXCEPT ![c] = cp],
         UNCHANGED <<dirDisk, mapDisk, disk, call, result, open>>,
         CallerOK(call[c], p, cp, open[c], dirDisk, mapDisk, disk)
  PROVE  IInv'
  <1>1. VariablesOK
    BY DEF IInv
  <1>2. /\ place' \in [Callers -> Places] /\ call' \in [Callers -> Answered \cup {NoCall}]
        /\ DOMAIN copy' = Callers /\ result' \in [Callers -> BOOLEAN]
        /\ \A d \in Callers : place'[d] = "out" <=> call'[d] = NoCall
        /\ place'[c] = p /\ copy'[c] = cp
        /\ OthersRest(c)
    <2>1. p \in Places \ {"out"} /\ TRUE \in BOOLEAN
      OBVIOUS
    <2>2. place' = [place EXCEPT ![c] = p] /\ UNCHANGED call /\ UNCHANGED result
      BY DEF GoTo
    <2>3. /\ place' \in [Callers -> Places] /\ call' \in [Callers -> Answered \cup {NoCall}]
          /\ DOMAIN copy' = Callers /\ result' \in [Callers -> BOOLEAN]
          /\ \A d \in Callers : place'[d] = "out" <=> call'[d] = NoCall
          /\ place'[c] = p /\ copy'[c] = cp
          /\ \A d \in Callers \ {c} :
                call'[d] = call[d] /\ place'[d] = place[d] /\ copy'[d] = copy[d]
      BY <1>1, <2>1, <2>2, VariablesStep
    <2>4. OthersRest(c)
      BY <2>3 DEF OthersRest
    <2>5. QED
      BY <2>3, <2>4
  <1>3. VariablesOK'
    BY <1>1, <1>2 DEF VariablesOK
  <1>4. SameCall(c)
    BY DEF SameCall, HasOpen
  <1>5. CallerOK(call'[c], place'[c], copy'[c], open'[c], dirDisk, mapDisk, disk)
    BY <1>2
  <1>6. ~ Vulnerable(c)'
    BY <1>2 DEF Vulnerable
  <1>7. QED
    BY <1>2, <1>3, <1>4, <1>5, <1>6, CallsStayApart, StepInMemory

\* no caller but c is between the writes of the directory and the bitmap
LEMMA BitmapNow ==
  ASSUME IInv, NEW c \in Callers, Changing(c), ~ Vulnerable(c)
  PROVE  mapDisk = UsedBy(dirDisk, disk)
  <1>1. ASSUME NEW d \in Callers, Vulnerable(d)
        PROVE  Changing(d)
    <2>1. call[d] # NoCall
      BY <1>1 DEF Vulnerable, IInv, VariablesOK
    <2>2. call[d].op \in {"Create", "Remove"}
      BY <1>1, CallerNow DEF Vulnerable, CreateOK, RemoveOK, CreatePlaces, RemovePlaces
    <2>3. QED
      BY <2>1, <2>2 DEF Changing
  <1>2. \A d \in Callers : ~ Vulnerable(d)
    BY <1>1 DEF IInv, OneChange
  <1>3. QED
    BY <1>2 DEF IInv, BitmapExact

-----------------------------------------------------------------------------
(* The accesses that only read.                                            *)

LEMMA CreateFindInv ==
  ASSUME IInv, NEW c \in Callers, CreateFind(c)
  PROVE  IInv'
  <1>1. place[c] = "create find" /\ place[c] # "out" /\ ~ Vulnerable(c)
    BY DEF CreateFind, Vulnerable
  <1>2. CASE FindIndex(dirDisk, call[c].name) # 0
    BY <1>1, <1>2, EndsInMemory DEF CreateFind
  <1>3. CASE FindIndex(dirDisk, call[c].name) = 0
    <2> DEFINE cp == [dir |-> dirDisk]
               p == "create map"
    <2>1. GoTo(c, p) /\ copy' = [copy EXCEPT ![c] = cp]
          /\ UNCHANGED <<dirDisk, mapDisk, disk, call, result, open>>
      BY <1>3 DEF CreateFind
    <2>2. p \in Places \ {"out", "create bitmap", "remove dir"}
      BY DEF Places
    <2>3. CallerOK(call[c], p, cp, open[c], dirDisk, mapDisk, disk)
      <3>1. NotListed(dirDisk, call[c].name)
        BY <1>3, ListedFound
      <3>2. call[c].op = "Create" /\ HeaderKept(open[c], dirDisk, disk)
        BY <1>1, CallerNow DEF CreateOK, CreatePlaces
      <3>3. QED
        BY <3>1, <3>2 DEF CallerOK, CreateOK, RemoveOK, OpenOK, RemovePlaces
    <2> HIDE DEF cp, p
    <2>4. QED
      BY <1>1, <2>1, <2>2, <2>3, GoesOnInMemory
  <1>4. QED
    BY <1>2, <1>3

LEMMA OpenFindInv ==
  ASSUME IInv, NEW c \in Callers, OpenFind(c)
  PROVE  IInv'
  <1> DEFINE i == FindIndex(dirDisk, call[c].name)
  <1>1. place[c] = "open find" /\ place[c] # "out" /\ ~ Vulnerable(c)
    BY DEF OpenFind, Vulnerable
  <1>2. CASE i = 0
    BY <1>1, <1>2, EndsInMemory DEF OpenFind
  <1>3. CASE i # 0
    <2> DEFINE cp == [sector |-> dirDisk[i].sector]
               p == "open header"
    <2>1. GoTo(c, p) /\ copy' = [copy EXCEPT ![c] = cp]
          /\ UNCHANGED <<dirDisk, mapDisk, disk, call, result, open>>
      BY <1>3 DEF OpenFind
    <2>2. p \in Places \ {"out", "create bitmap", "remove dir"}
      BY DEF Places
    <2>3. CallerOK(call[c], p, cp, open[c], dirDisk, mapDisk, disk)
      <3>1. ListedAt(dirDisk, call[c].name, i)
        BY <1>3, ListedFound
      <3> HIDE DEF i
      <3>2. i \in Slots /\ cp.sector = dirDisk[i].sector
        BY <3>1 DEF ListedAt
      <3>3. call[c].op = "Open" /\ open[c] = NoFile /\ HeaderKept(open[c], dirDisk, disk)
        BY <1>1, CallerNow DEF OpenOK
      <3>4. OpenOK(call[c], p, cp, open[c], dirDisk, disk)
        BY <3>1, <3>2, <3>3 DEF OpenOK
      <3>5. QED
        BY <3>4 DEF CallerOK, CreateOK, RemoveOK, CreatePlaces, RemovePlaces
    <2> HIDE DEF cp, p
    <2>4. QED
      BY <1>1, <2>1, <2>2, <2>3, GoesOnInMemory
  <1>4. QED
    BY <1>2, <1>3

LEMMA RemoveFindInv ==
  ASSUME IInv, NEW c \in Callers, RemoveFind(c)
  PROVE  IInv'
  <1> DEFINE i == FindIndex(dirDisk, call[c].name)
  <1>1. place[c] = "remove find" /\ place[c] # "out" /\ ~ Vulnerable(c)
    BY DEF RemoveFind, Vulnerable
  <1>2. CASE i = 0
    BY <1>1, <1>2, EndsInMemory DEF RemoveFind
  <1>3. CASE i # 0
    <2> DEFINE cp == [dir |-> dirDisk, sector |-> dirDisk[i].sector]
               p == "remove header"
    <2>1. GoTo(c, p) /\ copy' = [copy EXCEPT ![c] = cp]
          /\ UNCHANGED <<dirDisk, mapDisk, disk, call, result, open>>
      BY <1>3 DEF RemoveFind
    <2>2. p \in Places \ {"out", "create bitmap", "remove dir"}
      BY DEF Places
    <2>3. CallerOK(call[c], p, cp, open[c], dirDisk, mapDisk, disk)
      <3>1. ListedAt(dirDisk, call[c].name, i)
        BY <1>3, ListedFound
      <3> HIDE DEF i
      <3>2. i \in Slots /\ cp.sector = dirDisk[i].sector /\ cp.dir = dirDisk
        BY <3>1 DEF ListedAt
      <3>3. call[c].op = "Remove" /\ HeaderKept(open[c], dirDisk, disk)
        BY <1>1, CallerNow DEF RemoveOK, RemovePlaces
      <3>4. RemoveOK(call[c], p, cp, dirDisk, mapDisk, disk)
        BY <3>1, <3>2, <3>3 DEF RemoveOK, OldFile
      <3>5. QED
        BY <3>3, <3>4 DEF CallerOK, CreateOK, OpenOK, CreatePlaces
    <2> HIDE DEF cp, p
    <2>4. QED
      BY <1>1, <2>1, <2>2, <2>3, GoesOnInMemory
  <1>4. QED
    BY <1>2, <1>3

LEMMA RemoveHeaderInv ==
  ASSUME IInv, NEW c \in Callers, RemoveHeader(c)
  PROVE  IInv'
  <1>1. place[c] = "remove header" /\ place[c] # "out" /\ ~ Vulnerable(c)
    BY DEF RemoveHeader, Vulnerable
  <1> DEFINE cp == [dir |-> copy[c].dir, sector |-> copy[c].sector, hdr |-> disk[copy[c].sector]]
             p == "remove map"
  <1>2. GoTo(c, p) /\ copy' = [copy EXCEPT ![c] = cp]
        /\ UNCHANGED <<dirDisk, mapDisk, disk, call, result, open>>
    BY DEF RemoveHeader, IInv, VariablesOK
  <1>3. p \in Places \ {"out", "create bitmap", "remove dir"}
    BY DEF Places
  <1>4. CallerOK(call[c], p, cp, open[c], dirDisk, mapDisk, disk)
    <2>1. /\ call[c].op = "Remove" /\ HeaderKept(open[c], dirDisk, disk)
          /\ copy[c].dir = dirDisk /\ OldFile(call[c], copy[c], dirDisk)
      BY <1>1, CallerNow DEF RemoveOK, RemovePlaces
    <2>2. cp.dir = copy[c].dir /\ cp.sector = copy[c].sector /\ cp.hdr = disk[cp.sector]
      OBVIOUS
    <2> HIDE DEF cp
    <2>3. RemoveOK(call[c], p, cp, dirDisk, mapDisk, disk)
      BY <2>1, <2>2 DEF RemoveOK, OldFile
    <2>4. QED
      BY <2>1, <2>3 DEF CallerOK, CreateOK, OpenOK, CreatePlaces
  <1> HIDE DEF cp, p
  <1>5. QED
    BY <1>1, <1>2, <1>3, <1>4, GoesOnInMemory

LEMMA RemoveMapInv ==
  ASSUME IInv, NEW c \in Callers, RemoveMap(c)
  PROVE  IInv'
  <1>1. place[c] = "remove map" /\ place[c] # "out" /\ ~ Vulnerable(c)
    BY DEF RemoveMap, Vulnerable
  <1> DEFINE cp == [dir |-> RemoveEntry(copy[c].dir, call[c].name),
                    map |-> mapDisk \ ({copy[c].sector} \cup ToSet(copy[c].hdr))]
             p == "remove bitmap"
  <1>2. GoTo(c, p) /\ copy' = [copy EXCEPT ![c] = cp]
        /\ UNCHANGED <<dirDisk, mapDisk, disk, call, result, open>>
    BY DEF RemoveMap, IInv, VariablesOK
  <1>3. p \in Places \ {"out", "create bitmap", "remove dir"}
    BY DEF Places
  <1>4. CallerOK(call[c], p, cp, open[c], dirDisk, mapDisk, disk)
    <2>1. /\ call[c].op = "Remove" /\ HeaderKept(open[c], dirDisk, disk)
          /\ copy[c].dir = dirDisk /\ OldFile(call[c], copy[c], dirDisk)
          /\ copy[c].hdr = disk[copy[c].sector]
      BY <1>1, CallerNow DEF RemoveOK, RemovePlaces
    <2>2. PICK i \in Slots : ListedAt(dirDisk, call[c].name, i) /\ copy[c].sector = dirDisk[i].sector
      BY <2>1 DEF OldFile
    <2>3. FindIndex(dirDisk, call[c].name) = i
      BY <2>2, ListedOnce DEF IInv
    <2>4. cp.dir = WithoutFile(dirDisk, i) /\ cp.map = mapDisk \ SectorsAt(dirDisk, disk, i)
      BY <2>1, <2>2, <2>3 DEF RemoveEntry, WithoutFile, SectorsAt, SectorsOf
    <2> HIDE DEF cp
    <2>5. RemoveOK(call[c], p, cp, dirDisk, mapDisk, disk)
      BY <2>1, <2>2, <2>4 DEF RemoveOK
    <2>6. QED
      BY <2>1, <2>5 DEF CallerOK, CreateOK, OpenOK, CreatePlaces
  <1> HIDE DEF cp, p
  <1>5. QED
    BY <1>1, <1>2, <1>3, <1>4, GoesOnInMemory

\* the sector of a new header, and the sectors of the new file
NewSector(map) == Min(Sectors \ map)

NewBlocks(map, size) == FirstClear(map \cup {NewSector(map)}, size)

NewHeader(map, size) == Ascending(NewBlocks(map, size))

\* Find and Allocate take clear sectors, as many as the file needs, once each.
LEMMA SectorsFound ==
  ASSUME NEW map \in SUBSET Sectors, NEW size \in 0 .. MaxSize,
         Sectors \ map # {}, ~ (Cardinality(Sectors \ map) - 1 < size)
  PROVE  /\ NewSector(map) \in Sectors
         /\ HeaderAt(NewSector(map), NewHeader(map, size))
         /\ Len(NewHeader(map, size)) = size
         /\ SectorsOf(NewSector(map), NewHeader(map, size))
               = {NewSector(map)} \cup NewBlocks(map, size)
         /\ SectorsOf(NewSector(map), NewHeader(map, size)) \cap map = {}
  <1> DEFINE clear == Sectors \ map
             s == NewSector(map)
             blocks == NewBlocks(map, size)
             h == Ascending(blocks)
  <1>1. clear \in SUBSET Sectors
    OBVIOUS
  <1>2. clear \in SUBSET Nat /\ IsFiniteSet(clear) /\ Cardinality(clear) \in Nat
    BY <1>1, SectorsFinite
  <1>3. s \in clear
    BY <1>2, LeastExists DEF NewSector
  <1>4. size \in Nat /\ size <= MaxSize
    BY FileSystemAssumption
  <1>5. size <= Cardinality(Sectors \ (map \cup {s}))
    <2>1. Sectors \ (map \cup {s}) = clear \ {s}
      OBVIOUS
    <2> HIDE DEF clear, s
    <2>2. Cardinality(clear \ {s}) = Cardinality(clear) - 1
      BY <1>2, <1>3, FS_RemoveElement
    <2>3. size <= Cardinality(clear) - 1
      BY <1>2, <1>4 DEF clear
    <2>4. QED
      BY <2>1, <2>2, <2>3
  <1>6. blocks \in SUBSET (Sectors \ (map \cup {s})) /\ Cardinality(blocks) = size
    BY <1>4, <1>5, FirstClearExists DEF NewBlocks
  <1>7. blocks \in SUBSET Sectors
    BY <1>6
  <1> HIDE DEF blocks, s
  <1>8. /\ h \in Seq(blocks) /\ Len(h) = size /\ ToSet(h) = blocks
        /\ \A i, j \in 1 .. Len(h) : h[i] = h[j] => i = j
    BY <1>6, <1>7, AscendingLists
  <1> HIDE DEF h
  <1>9. h \in Headers
    <2>1. h \in [1 .. size -> blocks]
      BY <1>4, <1>8
    <2>2. h \in [1 .. size -> Sectors]
      BY <1>7, <2>1
    <2>3. h \in Seq(Sectors)
      BY <1>4, <2>2
    <2>4. QED
      BY <1>4, <1>8, <2>3, HeaderType
  <1>10. HeaderAt(s, h)
    BY <1>6, <1>8, <1>9 DEF HeaderAt
  <1>11. SectorsOf(s, h) = {s} \cup blocks
    BY <1>8 DEF SectorsOf
  <1>12. s \in Sectors /\ s \notin map
    BY <1>3
  <1>13. SectorsOf(s, h) \cap map = {}
    BY <1>6, <1>11, <1>12
  <1>14. h = NewHeader(map, size)
    BY DEF h, blocks, NewHeader
  <1>15. QED
    BY <1>8, <1>10, <1>11, <1>12, <1>13, <1>14 DEF s, blocks

LEMMA CreateMapInv ==
  ASSUME IInv, NEW c \in Callers, CreateMap(c)
  PROVE  IInv'
  <1> DEFINE n == call[c].name
             size == call[c].number
             clear == Sectors \ mapDisk
             full == clear = {} \/ Unused(copy[c].dir) = {} \/ Cardinality(clear) - 1 < size
             sector == Min(clear)
             blocks == FirstClear(mapDisk \cup {sector}, size)
             cp == [dir |-> Add(copy[c].dir, n, sector), map |-> mapDisk \cup {sector} \cup blocks,
                    sector |-> sector, hdr |-> Ascending(blocks)]
             p == "create header"
  <1>1. place[c] = "create map" /\ place[c] # "out" /\ ~ Vulnerable(c)
    BY DEF CreateMap, Vulnerable
  <1>2. CASE full
    BY <1>1, <1>2, EndsInMemory DEF CreateMap
  <1>3. CASE ~ full
    <2>1. GoTo(c, p) /\ copy' = [copy EXCEPT ![c] = cp]
          /\ UNCHANGED <<dirDisk, mapDisk, disk, call, result, open>>
      BY <1>3 DEF CreateMap
    <2>2. p \in Places \ {"out", "create bitmap", "remove dir"}
      BY DEF Places
    <2>3. CallerOK(call[c], p, cp, open[c], dirDisk, mapDisk, disk)
      <3>1. /\ copy[c].dir = dirDisk /\ NotListed(dirDisk, n)
            /\ call[c].op = "Create" /\ HeaderKept(open[c], dirDisk, disk)
        BY <1>1, CallerNow DEF CreateOK, CreatePlaces
      <3>2. call[c] \in Answered /\ mapDisk \in SUBSET Sectors
        BY <1>1 DEF IInv, VariablesOK
      <3>3. size \in 0 .. MaxSize
        BY <3>2 DEF Answered
      <3>4. clear # {} /\ ~ (Cardinality(clear) - 1 < size)
        BY <1>3
      <3>5. /\ cp.dir = Add(dirDisk, n, sector) /\ cp.map = mapDisk \cup {sector} \cup blocks
            /\ cp.sector = sector /\ cp.hdr = Ascending(blocks)
        BY <3>1
      <3> DEFINE free == Unused(dirDisk)
      <3>6. free \in SUBSET Nat /\ free # {} /\ \A i \in free : i \in Slots /\ dirDisk[i] = Free
        BY <1>3, <3>1, FileSystemAssumption DEF Unused, Slots
      <3> HIDE DEF clear, sector, blocks, size, cp, free, full
      <3>7. /\ sector \in Sectors
            /\ HeaderAt(sector, Ascending(blocks))
            /\ Len(Ascending(blocks)) = size
            /\ SectorsOf(sector, Ascending(blocks)) = {sector} \cup blocks
            /\ SectorsOf(sector, Ascending(blocks)) \cap mapDisk = {}
        <4>1. /\ sector = NewSector(mapDisk) /\ blocks = NewBlocks(mapDisk, size)
              /\ Ascending(blocks) = NewHeader(mapDisk, size)
          BY DEF sector, blocks, clear, NewSector, NewBlocks, NewHeader
        <4>2. Sectors \ mapDisk # {} /\ ~ (Cardinality(Sectors \ mapDisk) - 1 < size)
          BY <3>4 DEF clear
        <4>3. QED
          BY <3>2, <3>3, <4>1, <4>2, SectorsFound
      <3>8. cp.map = mapDisk \cup SectorsOf(cp.sector, cp.hdr)
        BY <3>5, <3>7
      <3>9. \E i \in Slots : dirDisk[i] = Free /\ cp.dir = WithFile(dirDisk, i, n, cp.sector)
        <4>1. Min(free) \in Slots /\ dirDisk[Min(free)] = Free
          BY <3>6, LeastExists
        <4>2. cp.dir = WithFile(dirDisk, Min(free), n, cp.sector)
          BY <3>5, Zenon DEF Add, WithFile, free
        <4>3. QED
          BY <4>1, <4>2
      <3>10. NewFile(call[c], cp, dirDisk, mapDisk)
        BY <3>1, <3>5, <3>7, <3>8, <3>9 DEF NewFile, size
      <3>11. CreateOK(call[c], p, cp, dirDisk, mapDisk, disk)
        BY <3>1, <3>10 DEF CreateOK
      <3>12. QED
        BY <3>1, <3>11 DEF CallerOK, RemoveOK, OpenOK, RemovePlaces
    <2> HIDE DEF cp, p
    <2>4. QED
      BY <1>1, <2>1, <2>2, <2>3, GoesOnInMemory
  <1>4. QED
    BY <1>2, <1>3

\* Finish, as seen from the other variables
LEMMA Finished ==
  ASSUME IInv, NEW c \in Callers, NEW r \in BOOLEAN, Finish(c, r)
  PROVE  /\ place' \in [Callers -> Places] /\ DOMAIN copy' = Callers
         /\ result' \in [Callers -> BOOLEAN]
         /\ place'[c] = "return" /\ ~ Vulnerable(c)'
         /\ \A d \in Callers \ {c} : place'[d] = place[d] /\ copy'[d] = copy[d]
  <1>1. /\ place' = [place EXCEPT ![c] = "return"] /\ place \in [Callers -> Places]
        /\ "return" \in Places
    BY DEF Finish, Places, IInv, VariablesOK
  <1>2. /\ place' \in [Callers -> Places] /\ place'[c] = "return"
        /\ \A d \in Callers \ {c} : place'[d] = place[d]
    BY <1>1
  <1>3. DOMAIN copy' = Callers /\ \A d \in Callers \ {c} : copy'[d] = copy[d]
    BY DEF Finish, IInv, VariablesOK
  <1>4. result' \in [Callers -> BOOLEAN]
    BY DEF Finish, IInv, VariablesOK
  <1>5. QED
    BY <1>2, <1>3, <1>4 DEF Vulnerable

LEMMA OpenHeaderInv ==
  ASSUME IInv, NEW c \in Callers, OpenHeader(c)
  PROVE  IInv'
  <1> DEFINE op == [name |-> call[c].name, hdr |-> disk[copy[c].sector]]
  <1>1. /\ place[c] = "open header" /\ Finish(c, TRUE) /\ open' = [open EXCEPT ![c] = op]
        /\ UNCHANGED <<dirDisk, mapDisk, disk, call>>
        /\ ~ Vulnerable(c)
    BY DEF OpenHeader, Vulnerable
  <1>2. VariablesOK /\ place[c] # "out" /\ call[c] # NoCall /\ call[c] \in Answered
    BY <1>1 DEF IInv, VariablesOK
  <1>3. PICK i \in Slots : /\ ListedAt(dirDisk, call[c].name, i)
                           /\ copy[c].sector = dirDisk[i].sector
    BY <1>1, CallerNow DEF OpenOK
  <1>4. call[c].op = "Open"
    BY <1>1, CallerNow DEF OpenOK
  <1>5. op \in OpenFiles /\ op # NoFile
    <2>1. call[c].name \in Names
      BY <1>2 DEF Answered
    <2>2. disk[copy[c].sector] \in Headers
      BY <1>3 DEF ListedAt, IInv, Whole, HeaderAt
    <2>3. op \in OpenFiles
      BY <2>1, <2>2 DEF OpenFiles
    <2>4. QED
      BY <2>3, FileSystemAssumption
  <1>6. HeaderKept(op, dirDisk, disk)
    BY <1>3 DEF HeaderKept
  <1>7. op.name = call[c].name
    OBVIOUS
  <1> HIDE DEF op
  <1>8. /\ open' \in [Callers -> OpenFiles \cup {NoFile}] /\ open'[c] = op
        /\ \A d \in Callers \ {c} : open'[d] = open[d]
    BY <1>1, <1>2, <1>5 DEF VariablesOK
  <1>9. /\ place' \in [Callers -> Places] /\ DOMAIN copy' = Callers
        /\ result' \in [Callers -> BOOLEAN]
        /\ place'[c] = "return" /\ ~ Vulnerable(c)'
        /\ \A d \in Callers \ {c} : place'[d] = place[d] /\ copy'[d] = copy[d]
    BY <1>1, Finished
  <1>10. VariablesOK'
    BY <1>1, <1>2, <1>8, <1>9 DEF VariablesOK
  <1>11. OthersRest(c) /\ SameCall(c)
    BY <1>1, <1>2, <1>4, <1>7, <1>8, <1>9 DEF OthersRest, SameCall, HasOpen
  <1>12. CallerOK(call'[c], place'[c], copy'[c], open'[c], dirDisk, mapDisk, disk)
    BY <1>6, <1>8, <1>9, BetweenCalls
  <1>13. QED
    BY <1>1, <1>9, <1>10, <1>11, <1>12, CallsStayApart, StepInMemory

LEMMA CloseInv ==
  ASSUME IInv, NEW c \in Callers, Close(c)
  PROVE  IInv'
  <1>1. /\ place[c] = "transfer" /\ Finish(c, TRUE) /\ open' = [open EXCEPT ![c] = NoFile]
        /\ UNCHANGED <<dirDisk, mapDisk, disk, call>>
        /\ ~ Vulnerable(c)
    BY DEF Close, Vulnerable
  <1>2. VariablesOK /\ place[c] # "out"
    BY <1>1 DEF IInv
  <1>3. /\ open' \in [Callers -> OpenFiles \cup {NoFile}] /\ open'[c] = NoFile
        /\ \A d \in Callers \ {c} : open'[d] = open[d]
    BY <1>1, <1>2 DEF VariablesOK
  <1>4. /\ place' \in [Callers -> Places] /\ DOMAIN copy' = Callers
        /\ result' \in [Callers -> BOOLEAN]
        /\ place'[c] = "return" /\ ~ Vulnerable(c)'
        /\ \A d \in Callers \ {c} : place'[d] = place[d] /\ copy'[d] = copy[d]
    BY <1>1, Finished
  <1>5. VariablesOK'
    BY <1>1, <1>2, <1>3, <1>4 DEF VariablesOK
  <1>6. OthersRest(c) /\ SameCall(c)
    BY <1>1, <1>3, <1>4 DEF OthersRest, SameCall
  <1>7. CallerOK(call'[c], place'[c], copy'[c], open'[c], dirDisk, mapDisk, disk)
    BY <1>3, <1>4, BetweenCalls DEF HeaderKept
  <1>8. QED
    BY <1>1, <1>4, <1>5, <1>6, <1>7, CallsStayApart, StepInMemory

\* the open file that a transfer is for
LEMMA FileInUse ==
  ASSUME IInv, NEW c \in Callers, place[c] = "transfer"
  PROVE  /\ open[c] # NoFile /\ open[c] \in OpenFiles /\ open[c].name = call[c].name
         /\ call[c] # NoCall /\ call[c] \in Answered
         /\ \E i \in Slots : /\ ListedAt(dirDisk, open[c].name, i)
                             /\ open[c].hdr = disk[dirDisk[i].sector]
                             /\ dirDisk[i] # Free /\ dirDisk[i].sector \in Sectors
                             /\ HeaderAt(dirDisk[i].sector, disk[dirDisk[i].sector])
  <1>1. open[c] # NoFile /\ open[c].name = call[c].name
    BY CallerNow DEF OpenOK
  <1>2. open[c] \in OpenFiles
    BY <1>1 DEF IInv, VariablesOK
  <1>3. call[c] # NoCall /\ call[c] \in Answered
    BY DEF IInv, VariablesOK
  <1>4. PICK i \in Slots : /\ ListedAt(dirDisk, open[c].name, i)
                           /\ open[c].hdr = disk[dirDisk[i].sector]
    BY <1>1, CallerNow DEF HeaderKept
  <1>5. dirDisk[i] # Free /\ dirDisk[i].sector \in Sectors
    BY <1>4 DEF ListedAt, IInv, VariablesOK, Entries
  <1>6. HeaderAt(dirDisk[i].sector, disk[dirDisk[i].sector])
    BY <1>5 DEF IInv, Whole
  <1>7. QED
    BY <1>1, <1>2, <1>3, <1>4, <1>5, <1>6

LEMMA ReadAtInv ==
  ASSUME IInv, NEW c \in Callers, ReadAt(c)
  PROVE  IInv'
  <1> DEFINE i == call[c].number
             found == disk[open[c].hdr[i]]
  <1>1. place[c] = "transfer" /\ place[c] # "out" /\ ~ Vulnerable(c)
    BY DEF ReadAt, Vulnerable
  <1>2. CASE i \notin 1 .. Len(open[c].hdr)
    BY <1>1, <1>2, EndsInMemory DEF ReadAt
  <1>3. CASE i \in 1 .. Len(open[c].hdr)
    <2>1. /\ call' = [call EXCEPT ![c].data = found] /\ Finish(c, TRUE)
          /\ UNCHANGED <<dirDisk, mapDisk, disk, open>>
      BY <1>3 DEF ReadAt
    <2>2. call[c] # NoCall /\ call[c] \in Answered
      BY <1>1, FileInUse
    <2>3. found \in Data \cup Headers
      <3>1. open[c].hdr \in Headers
        BY <1>1, FileInUse DEF OpenFiles
      <3>2. open[c].hdr[i] \in Sectors
        BY <1>3, <3>1, HeaderType
      <3>3. QED
        BY <3>2 DEF IInv, VariablesOK
    <2> HIDE DEF found
    <2> DEFINE k == [call[c] EXCEPT !.data = found]
    <2>4. k \in Answered /\ k.op = call[c].op /\ k.name = call[c].name
      BY <2>2, <2>3 DEF Answered
    <2> HIDE DEF k
    <2>5. VariablesOK /\ call' = [call EXCEPT ![c] = k]
      BY <2>1 DEF IInv, k
    <2>6. /\ call' \in [Callers -> Answered \cup {NoCall}] /\ call'[c] = k
          /\ \A d \in Callers \ {c} : call'[d] = call[d]
      BY <2>4, <2>5 DEF VariablesOK
    <2>7. k # NoCall
      BY <2>4, FileSystemAssumption
    <2>8. /\ place' \in [Callers -> Places] /\ DOMAIN copy' = Callers
          /\ result' \in [Callers -> BOOLEAN]
          /\ place'[c] = "return" /\ ~ Vulnerable(c)'
          /\ \A d \in Callers \ {c} : place'[d] = place[d] /\ copy'[d] = copy[d]
      BY <2>1, Finished
    <2>9. VariablesOK'
      BY <2>1, <2>5, <2>6, <2>7, <2>8 DEF VariablesOK
    <2>10. OthersRest(c) /\ SameCall(c)
      BY <2>1, <2>2, <2>4, <2>6, <2>8 DEF OthersRest, SameCall, HasOpen
    <2>11. CallerOK(call'[c], place'[c], copy'[c], open'[c], dirDisk, mapDisk, disk)
      BY <2>1, <2>8, CallerNow, BetweenCalls
    <2>12. QED
      BY <1>1, <2>1, <2>8, <2>9, <2>10, <2>11, CallsStayApart, StepInMemory
  <1>4. QED
    BY <1>2, <1>3

LEMMA ReturnInv ==
  ASSUME IInv, NEW c \in Callers, Return(c)
  PROVE  IInv'
  <1>1. place[c] = "return" /\ ~ Vulnerable(c) /\ VariablesOK /\ "out" \in Places
    BY DEF Return, Vulnerable, IInv, Places
  <1>2. /\ place' \in [Callers -> Places] /\ place'[c] = "out"
        /\ \A d \in Callers \ {c} : place'[d] = place[d]
    BY <1>1 DEF Return, VariablesOK
  <1>3. /\ call' \in [Callers -> Answered \cup {NoCall}] /\ call'[c] = NoCall
        /\ \A d \in Callers \ {c} : call'[d] = call[d]
    BY <1>1 DEF Return, VariablesOK
  <1>4. result' \in [Callers -> BOOLEAN]
    BY <1>1 DEF Return, VariablesOK
  <1>5. VariablesOK'
    BY <1>1, <1>2, <1>3, <1>4 DEF Return, VariablesOK
  <1>6. OthersRest(c) /\ SameCall(c)
    BY <1>2, <1>3 DEF Return, OthersRest, SameCall, HasOpen
  <1>7. CallerOK(call'[c], place'[c], copy'[c], open'[c], dirDisk, mapDisk, disk)
    BY <1>2, CallerNow, BetweenCalls DEF Return
  <1>8. ~ Vulnerable(c)'
    BY <1>2 DEF Vulnerable
  <1>9. QED
    BY <1>1, <1>5, <1>6, <1>7, <1>8, CallsStayApart, StepInMemory DEF Return

\* where each operation begins
FirstPlace(op) ==
    CASE op = "Create" -> "create find"
      [] op = "Open"   -> "open find"
      [] op = "Remove" -> "remove find"
      [] OTHER         -> "transfer"

LEMMA StartInv ==
  ASSUME IInv, NEW c \in Callers, Start(c)
  PROVE  IInv'
  <1>1. PICK k \in Calls :
           /\ Permitted(c, k)
           /\ call' = [call EXCEPT ![c] = k]
           /\ place' = [place EXCEPT ![c] = FirstPlace(k.op)]
    BY Zenon DEF Start, FirstPlace
  <1>2. /\ place[c] = "out" /\ UNCHANGED <<dirDisk, mapDisk, disk, copy, result, open>>
        /\ VariablesOK /\ call[c] = NoCall
    BY DEF Start, IInv, VariablesOK
  <1>3. k \in Answered /\ k # NoCall /\ k.op \in Operations
    BY FileSystemAssumption DEF Calls, Answered
  <1>4. /\ k.op = "Create" => FirstPlace(k.op) = "create find"
        /\ k.op = "Open"   => FirstPlace(k.op) = "open find"
        /\ k.op = "Remove" => FirstPlace(k.op) = "remove find"
        /\ k.op \in {"Read", "Write", "Close"} => FirstPlace(k.op) = "transfer"
    BY DEF FirstPlace
  <1>5. /\ k.op = "Create" => \A d \in Callers : ~ Changing(d)
        /\ k.op = "Open" => open[c] = NoFile /\ ~ Removing(k.name)
        /\ k.op = "Remove" => \A d \in Callers : ~ Changing(d) /\ ~ HasOpen(d, k.name)
        /\ k.op \in {"Read", "Write", "Close"} => open[c] # NoFile /\ open[c].name = k.name
    <2>1. CASE k.op = "Create"
      BY <1>1, <2>1 DEF Permitted
    <2>2. CASE k.op = "Open"
      BY <1>1, <2>2 DEF Permitted
    <2>3. CASE k.op = "Remove"
      BY <1>1, <2>3 DEF Permitted
    <2>4. CASE k.op = "Read"
      BY <1>1, <2>4 DEF Permitted
    <2>5. CASE k.op = "Write"
      BY <1>1, <2>5 DEF Permitted
    <2>6. CASE k.op = "Close"
      BY <1>1, <2>6 DEF Permitted
    <2>7. QED
      BY <1>3, <2>1, <2>2, <2>3, <2>4, <2>5, <2>6 DEF Operations
  <1>6. FirstPlace(k.op) \in Places /\ FirstPlace(k.op) # "out"
    BY <1>3, <1>4 DEF Operations, Places
  <1>7. /\ call' \in [Callers -> Answered \cup {NoCall}] /\ call'[c] = k
        /\ \A d \in Callers \ {c} : call'[d] = call[d]
    BY <1>1, <1>2, <1>3 DEF VariablesOK
  <1>8. /\ place' \in [Callers -> Places] /\ place'[c] = FirstPlace(k.op)
        /\ \A d \in Callers \ {c} : place'[d] = place[d]
    BY <1>1, <1>2, <1>6 DEF VariablesOK
  <1>9. VariablesOK'
    BY <1>2, <1>3, <1>6, <1>7, <1>8 DEF VariablesOK
  <1>10. OthersRest(c)
    BY <1>2, <1>7, <1>8 DEF OthersRest
  <1>11. ~ Vulnerable(c) /\ ~ Vulnerable(c)'
    BY <1>2, <1>3, <1>4, <1>8 DEF Vulnerable, Operations
  <1>12. CallerOK(call'[c], place'[c], copy'[c], open'[c], dirDisk, mapDisk, disk)
    <2> DEFINE p == FirstPlace(k.op)
    <2>1. HeaderKept(open[c], dirDisk, disk)
      BY CallerNow
    <2>2. CreateOK(k, p, copy[c], dirDisk, mapDisk, disk)
      BY <1>3, <1>4 DEF CreateOK, CreatePlaces, Operations
    <2>3. RemoveOK(k, p, copy[c], dirDisk, mapDisk, disk)
      BY <1>3, <1>4 DEF RemoveOK, RemovePlaces, Operations
    <2>4. OpenOK(k, p, copy[c], open[c], dirDisk, disk)
      BY <1>3, <1>4, <1>5, <2>1 DEF OpenOK, Operations
    <2>5. QED
      BY <1>2, <1>7, <1>8, <2>2, <2>3, <2>4 DEF CallerOK
  <1>13. OneChange'
    <2>1. \A d \in Callers \ {c} : Changing(d)' <=> Changing(d)
      BY <1>7 DEF Changing
    <2>2. Changing(c)' => \A d \in Callers : ~ Changing(d)
      BY <1>5, <1>7 DEF Changing
    <2>3. QED
      BY <2>1, <2>2 DEF OneChange, IInv
  <1>14. ASSUME NEW d \in Callers, NEW e \in Callers, call'[d] # NoCall, call'[d].op = "Remove"
         PROVE  /\ ~ (open'[e] # NoFile /\ open'[e].name = call'[d].name)
                /\ ~ (call'[e] # NoCall /\ call'[e].op = "Open" /\ call'[e].name = call'[d].name)
    <2>1. CASE d = c
      <3>1. call'[d] = k /\ \A f \in Callers : ~ HasOpen(f, k.name)
        BY <1>5, <1>7, <1>14, <2>1
      <3>2. QED
        BY <1>2, <1>7, <1>14, <2>1, <3>1 DEF HasOpen
    <2>2. CASE d # c
      <3>1. call'[d] = call[d] /\ Removing(call[d].name)
        BY <1>7, <1>14, <2>2 DEF Removing
      <3>2. ~ HasOpen(e, call[d].name)
        BY <1>14, <3>1 DEF RemovedNotOpen, IInv
      <3>3. CASE e # c
        BY <1>2, <1>7, <3>1, <3>2, <3>3 DEF HasOpen
      <3>4. CASE e = c
        BY <1>2, <1>5, <1>7, <3>1, <3>2, <3>4 DEF HasOpen
      <3>5. QED
        BY <3>3, <3>4
    <2>3. QED
      BY <2>1, <2>2
  <1>15. RemovedNotOpen'
    BY <1>14 DEF RemovedNotOpen, HasOpen
  <1>16. QED
    BY <1>2, <1>9, <1>10, <1>11, <1>12, <1>13, <1>15, StepInMemory

LEMMA CrashInv ==
  ASSUME IInv, Crash
  PROVE  IInv'
  <1>1. /\ \A c \in Callers : /\ call'[c] = NoCall /\ place'[c] = "out" /\ open'[c] = NoFile
                              /\ ~ Vulnerable(c)
        /\ UNCHANGED <<dirDisk, mapDisk, disk>>
    BY DEF Crash
  <1>2. VariablesOK'
    BY DEF Crash, IInv, VariablesOK, Places
  <1>3. Whole(dirDisk, disk)'
    BY <1>1 DEF IInv
  <1>4. BitmapExact'
    BY <1>1 DEF IInv, BitmapExact
  <1>5. CallersOK'
    <2>1. ASSUME NEW c \in Callers
          PROVE  CallerOK(call'[c], place'[c], copy'[c], open'[c], dirDisk', mapDisk', disk')
      <3>1. HeaderKept(open'[c], dirDisk', disk')
        BY <1>1 DEF HeaderKept
      <3>2. QED
        BY <1>1, <3>1, BetweenCalls
    <2>2. QED
      BY <2>1 DEF CallersOK
  <1>6. OneChange' /\ RemovedNotOpen'
    BY <1>1 DEF OneChange, RemovedNotOpen, Changing
  <1>7. QED
    BY <1>2, <1>3, <1>4, <1>5, <1>6 DEF IInv

-----------------------------------------------------------------------------
(* Writes of data sectors.                                                 *)

\* a sector of the data of a listed file is no header
LEMMA DataSector ==
  ASSUME NEW dir \in [Slots -> Entries \cup {Free}], NEW dk, Whole(dir, dk),
         NEW i \in Slots, dir[i] # Free, NEW j \in 1 .. Len(dk[dir[i].sector])
  PROVE  /\ dk[dir[i].sector][j] \in Sectors
         /\ dk[dir[i].sector][j] \in SectorsAt(dir, dk, i)
         /\ dk[dir[i].sector][j] \in UsedBy(dir, dk)
         /\ \A k \in Slots : dir[k] # Free => dir[k].sector # dk[dir[i].sector][j]
  <1> DEFINE s == dir[i].sector
             h == dk[s]
             b == h[j]
  <1>1. s \in Sectors /\ HeaderAt(s, h)
    BY DEF Entries, Whole
  <1>2. h \in [1 .. Len(h) -> Sectors] /\ ToSet(h) = {h[k] : k \in 1 .. Len(h)}
    BY <1>1, SectorsOfHeader
  <1>3. b \in Sectors /\ b \in ToSet(h)
    BY <1>2
  <1>4. b # s
    BY <1>1, <1>3 DEF HeaderAt
  <1>5. b \in SectorsAt(dir, dk, i)
    BY <1>3 DEF SectorsAt, SectorsOf
  <1>6. b \in UsedBy(dir, dk)
    BY <1>3, <1>5 DEF UsedBy
  <1>7. ASSUME NEW k \in Slots, dir[k] # Free
        PROVE  dir[k].sector # b
    <2>1. CASE k = i
      BY <1>4, <2>1
    <2>2. CASE k # i
      <3>1. SectorsAt(dir, dk, k) \cap SectorsAt(dir, dk, i) = {}
        BY <1>7, <2>2 DEF Whole
      <3>2. dir[k].sector \in SectorsAt(dir, dk, k)
        BY DEF SectorsAt, SectorsOf
      <3>3. QED
        BY <1>5, <3>1, <3>2
    <2>3. QED
      BY <2>1, <2>2
  <1>8. QED
    BY <1>3, <1>5, <1>6, <1>7

LEMMA WriteAtInv ==
  ASSUME IInv, NEW c \in Callers, WriteAt(c)
  PROVE  IInv'
  <1> DEFINE i == call[c].number
             b == open[c].hdr[i]
             v == call[c].data
  <1>1. place[c] = "transfer" /\ place[c] # "out" /\ ~ Vulnerable(c)
    BY DEF WriteAt, Vulnerable
  <1>2. CASE i \notin 1 .. Len(open[c].hdr)
    BY <1>1, <1>2, EndsInMemory DEF WriteAt
  <1>3. CASE i \in 1 .. Len(open[c].hdr)
    <2>1. /\ disk' = [disk EXCEPT ![b] = v] /\ Finish(c, TRUE)
          /\ UNCHANGED <<dirDisk, mapDisk, call, open>>
      BY <1>3 DEF WriteAt
    <2>2. VariablesOK /\ call[c] \in Answered
      BY <1>1, FileInUse DEF IInv
    <2>3. PICK f \in Slots : open[c].hdr = disk[dirDisk[f].sector] /\ dirDisk[f] # Free
      BY <1>1, FileInUse
    <2>4. /\ b \in Sectors /\ b \in UsedBy(dirDisk, disk)
          /\ \A k \in Slots : dirDisk[k] # Free => dirDisk[k].sector # b
      <3>1. b = disk[dirDisk[f].sector][i] /\ i \in 1 .. Len(disk[dirDisk[f].sector])
        BY <1>3, <2>3
      <3>2. dirDisk \in [Slots -> Entries \cup {Free}] /\ Whole(dirDisk, disk)
        BY <2>2 DEF VariablesOK, IInv
      <3> HIDE DEF b, i
      <3>3. QED
        BY <2>3, <3>1, <3>2, DataSector
    <2>5. v \in Data \cup Headers
      BY <2>2 DEF Answered
    <2> HIDE DEF b, v, i
    <2>6. disk' \in [Sectors -> Headers \cup Data]
      BY <2>1, <2>2, <2>4, <2>5 DEF VariablesOK
    <2>7. /\ \A k \in Slots : dirDisk[k] # Free =>
                /\ disk'[dirDisk[k].sector] = disk[dirDisk[k].sector]
                /\ SectorsAt(dirDisk, disk', k) = SectorsAt(dirDisk, disk, k)
          /\ Whole(dirDisk, disk) => Whole(dirDisk, disk')
          /\ UsedBy(dirDisk, disk') = UsedBy(dirDisk, disk)
      <3>1. dirDisk \in [Slots -> Entries \cup {Free}]
        BY <2>2 DEF VariablesOK
      <3>2. \A s \in Sectors \ {b} : disk'[s] = disk[s]
        BY <2>1, <2>2 DEF VariablesOK
      <3>3. QED
        BY <2>4, <3>1, <3>2, SectorWritten
    <2>8. /\ place' \in [Callers -> Places] /\ DOMAIN copy' = Callers
          /\ result' \in [Callers -> BOOLEAN]
          /\ place'[c] = "return" /\ ~ Vulnerable(c)'
          /\ \A d \in Callers \ {c} : place'[d] = place[d] /\ copy'[d] = copy[d]
      BY <2>1, Finished
    <2>9. VariablesOK'
      BY <1>1, <2>1, <2>2, <2>6, <2>8 DEF VariablesOK
    <2>10. OthersRest(c) /\ SameCall(c)
      BY <2>1, <2>8 DEF OthersRest, SameCall, HasOpen
    <2>11. OneChange' /\ RemovedNotOpen'
      BY <2>10, CallsStayApart
    <2>12. Whole(dirDisk, disk)'
      BY <2>1, <2>7 DEF IInv
    <2>13. BitmapExact'
      <3>1. \A d \in Callers : Vulnerable(d)' <=> Vulnerable(d)
        BY <1>1, <2>8 DEF Vulnerable
      <3>2. QED
        BY <2>1, <2>7, <3>1 DEF IInv, BitmapExact
    <2>14. ASSUME NEW op, HeaderKept(op, dirDisk, disk)
           PROVE  HeaderKept(op, dirDisk, disk')
      BY <2>7, <2>14 DEF HeaderKept, ListedAt
    <2>15. ASSUME NEW d \in Callers
           PROVE  CallerOK(call'[d], place'[d], copy'[d], open'[d], dirDisk', mapDisk', disk')
      <3>1. CASE d = c
        <4>1. HeaderKept(open[c], dirDisk, disk')
          BY <2>14, CallerNow
        <4>2. QED
          BY <2>1, <2>8, <3>1, <4>1, BetweenCalls
      <3>2. CASE d # c
        <4>1. call'[d] = call[d] /\ place'[d] = place[d] /\ copy'[d] = copy[d] /\ open'[d] = open[d]
          BY <2>10, <3>2 DEF OthersRest
        <4>2. CreateOK(call[d], place[d], copy[d], dirDisk, mapDisk, disk')
          <5>1. ASSUME place[d] = "create dir"
                PROVE  disk'[copy[d].sector] = copy[d].hdr
            <6>1. /\ NewFile(call[d], copy[d], dirDisk, mapDisk) /\ call[d].op = "Create"
                  /\ disk[copy[d].sector] = copy[d].hdr
              BY <5>1, CallerNow DEF CreateOK, CreatePlaces
            <6>2. Changing(d) /\ ~ Vulnerable(d)
              BY <2>2, <5>1, <6>1 DEF Changing, Vulnerable, VariablesOK
            <6>3. mapDisk = UsedBy(dirDisk, disk)
              BY <6>2, BitmapNow
            <6>4. copy[d].sector \in Sectors /\ copy[d].sector # b
              BY <2>4, <6>1, <6>3 DEF NewFile, SectorsOf
            <6>5. QED
              BY <2>1, <2>2, <6>1, <6>4 DEF VariablesOK
          <5>2. QED
            BY <2>7, <5>1, CallerNow DEF CreateOK
        <4>3. RemoveOK(call[d], place[d], copy[d], dirDisk, mapDisk, disk')
          <5>1. ASSUME place[d] = "remove map"
                PROVE  copy[d].hdr = disk'[copy[d].sector]
            <6>1. copy[d].hdr = disk[copy[d].sector] /\ OldFile(call[d], copy[d], dirDisk)
              BY <5>1, CallerNow DEF RemoveOK
            <6>2. QED
              BY <2>7, <6>1 DEF OldFile, ListedAt
          <5>2. ASSUME NEW k \in Slots, ListedAt(dirDisk, call[d].name, k)
                PROVE  SectorsAt(dirDisk, disk', k) = SectorsAt(dirDisk, disk, k)
            BY <2>7, <5>2 DEF ListedAt
          <5>3. RemoveOK(call[d], place[d], copy[d], dirDisk, mapDisk, disk)
            BY CallerNow
          <5>4. ASSUME place[d] \in {"remove bitmap", "remove dir"}
                PROVE  \E k \in Slots :
                          /\ ListedAt(dirDisk, call[d].name, k)
                          /\ copy[d].dir = WithoutFile(dirDisk, k)
                          /\ place[d] = "remove bitmap" =>
                                copy[d].map = mapDisk \ SectorsAt(dirDisk, disk', k)
                          /\ place[d] = "remove dir" =>
                                mapDisk = UsedBy(dirDisk, disk') \ SectorsAt(dirDisk, disk', k)
            <6>1. PICK k \in Slots :
                     /\ ListedAt(dirDisk, call[d].name, k)
                     /\ copy[d].dir = WithoutFile(dirDisk, k)
                     /\ place[d] = "remove bitmap" =>
                           copy[d].map = mapDisk \ SectorsAt(dirDisk, disk, k)
                     /\ place[d] = "remove dir" =>
                           mapDisk = UsedBy(dirDisk, disk) \ SectorsAt(dirDisk, disk, k)
              BY <5>3, <5>4 DEF RemoveOK
            <6>2. SectorsAt(dirDisk, disk', k) = SectorsAt(dirDisk, disk, k)
              BY <5>2, <6>1
            <6>3. QED
              BY <2>7, <6>1, <6>2
          <5>5. QED
            BY <5>1, <5>3, <5>4 DEF RemoveOK
        <4>4. OpenOK(call[d], place[d], copy[d], open[d], dirDisk, disk')
          BY <2>14, CallerNow DEF OpenOK
        <4>5. QED
          BY <2>1, <4>1, <4>2, <4>3, <4>4 DEF CallerOK
      <3>3. QED
        BY <3>1, <3>2
    <2>16. CallersOK'
      BY <2>15 DEF CallersOK
    <2>17. QED
      BY <2>9, <2>11, <2>12, <2>13, <2>16 DEF IInv
  <1>4. QED
    BY <1>2, <1>3

-----------------------------------------------------------------------------
(* Writes of headers, the directory and the bitmap.                        *)

LEMMA WentTo ==
  ASSUME IInv, NEW c \in Callers, NEW p \in Places \ {"out"}, place[c] # "out", GoTo(c, p)
  PROVE  /\ place' \in [Callers -> Places] /\ place'[c] = p
         /\ \A d \in Callers \ {c} : place'[d] = place[d]
         /\ \A d \in Callers : place'[d] = "out" <=> place[d] = "out"
  <1>1. place' = [place EXCEPT ![c] = p] /\ place \in [Callers -> Places]
    BY DEF GoTo, IInv, VariablesOK
  <1>2. QED
    BY <1>1

\* the caller that creates or removes keeps clear of the others' files
LEMMA OthersKept ==
  ASSUME IInv, NEW c \in Callers, Changing(c), OthersRest(c),
         \A d \in Callers, n \in Names, i \in Slots :
             HasOpen(d, n) /\ ListedAt(dirDisk, n, i) =>
                /\ dirDisk'[i] = dirDisk[i]
                /\ disk'[dirDisk[i].sector] = disk[dirDisk[i].sector]
  PROVE  /\ \A d \in Callers : HeaderKept(open[d], dirDisk', disk')
         /\ \A d \in Callers \ {c} :
               CallerOK(call'[d], place'[d], copy'[d], open'[d], dirDisk', mapDisk', disk')
  <1>1. ASSUME NEW d \in Callers PROVE HeaderKept(open[d], dirDisk', disk')
    <2>1. SUFFICES ASSUME open[d] # NoFile
                   PROVE  \E i \in Slots : /\ ListedAt(dirDisk', open[d].name, i)
                                           /\ open[d].hdr = disk'[dirDisk'[i].sector]
      BY DEF HeaderKept
    <2>2. HasOpen(d, open[d].name) /\ open[d].name \in Names
      BY <2>1 DEF HasOpen, IInv, VariablesOK, OpenFiles
    <2>3. PICK i \in Slots : /\ ListedAt(dirDisk, open[d].name, i)
                             /\ open[d].hdr = disk[dirDisk[i].sector]
      BY <2>1, CallerNow DEF HeaderKept
    <2>4. /\ dirDisk'[i] = dirDisk[i]
          /\ disk'[dirDisk[i].sector] = disk[dirDisk[i].sector]
      BY <2>2, <2>3
    <2>5. QED
      BY <2>3, <2>4 DEF ListedAt
  <1>2. ASSUME NEW d \in Callers \ {c}
        PROVE  CallerOK(call'[d], place'[d], copy'[d], open'[d], dirDisk', mapDisk', disk')
    <2>1. call'[d] = call[d] /\ place'[d] = place[d] /\ copy'[d] = copy[d] /\ open'[d] = open[d]
      BY DEF OthersRest
    <2>2. ~ Changing(d)
      BY DEF IInv, OneChange
    <2>3. place[d] \notin CreatePlaces \cup RemovePlaces
      <3>1. place[d] \in CreatePlaces \cup RemovePlaces => call[d] # NoCall
        BY DEF CreatePlaces, RemovePlaces, IInv, VariablesOK
      <3>2. QED
        BY <2>2, <3>1, CallerNow DEF Changing, CreateOK, RemoveOK
    <2>4. CreateOK(call[d], place[d], copy[d], dirDisk', mapDisk', disk')
      BY <2>3 DEF CreateOK, CreatePlaces
    <2>5. RemoveOK(call[d], place[d], copy[d], dirDisk', mapDisk', disk')
      BY <2>3 DEF RemoveOK, RemovePlaces
    <2>6. OpenOK(call[d], place[d], copy[d], open[d], dirDisk', disk')
      <3>1. ASSUME place[d] = "open header"
            PROVE  \E i \in Slots : /\ ListedAt(dirDisk', call[d].name, i)
                                    /\ copy[d].sector = dirDisk'[i].sector
        <4>1. PICK i \in Slots : /\ ListedAt(dirDisk, call[d].name, i)
                                 /\ copy[d].sector = dirDisk[i].sector
          BY <3>1, CallerNow DEF OpenOK
        <4>2. call[d] # NoCall /\ call[d] \in Answered
          <5>1. place[d] # "out"
            BY <3>1
          <5>2. QED
            BY <5>1 DEF IInv, VariablesOK
        <4>3. call[d].op = "Open"
          BY <3>1, CallerNow DEF OpenOK
        <4>4. HasOpen(d, call[d].name) /\ call[d].name \in Names
          BY <4>2, <4>3 DEF HasOpen, Answered
        <4>5. dirDisk'[i] = dirDisk[i]
          BY <4>1, <4>4
        <4>6. QED
          BY <4>1, <4>5 DEF ListedAt
      <3>2. OpenOK(call[d], place[d], copy[d], open[d], dirDisk, disk)
        BY CallerNow
      <3>3. QED
        BY <1>1, <3>1, <3>2 DEF OpenOK
    <2>7. QED
      BY <2>1, <2>4, <2>5, <2>6 DEF CallerOK
  <1>3. QED
    BY <1>1, <1>2

LEMMA CreateHeaderInv ==
  ASSUME IInv, NEW c \in Callers, CreateHeader(c)
  PROVE  IInv'
  <1> DEFINE s == copy[c].sector
             h == copy[c].hdr
  <1>1. /\ place[c] = "create header" /\ place[c] # "out" /\ ~ Vulnerable(c)
        /\ disk' = [disk EXCEPT ![s] = h] /\ GoTo(c, "create dir")
        /\ UNCHANGED <<dirDisk, mapDisk, call, copy, result, open>>
    BY DEF CreateHeader, Vulnerable
  <1>2. VariablesOK /\ dirDisk \in [Slots -> Entries \cup {Free}]
    BY DEF IInv, VariablesOK
  <1>3. call[c].op = "Create" /\ NewFile(call[c], copy[c], dirDisk, mapDisk)
    BY <1>1, CallerNow DEF CreateOK, CreatePlaces
  <1>4. Changing(c)
    BY <1>1, <1>2, <1>3 DEF Changing, VariablesOK
  <1>5. mapDisk = UsedBy(dirDisk, disk)
    BY <1>1, <1>4, BitmapNow
  <1>6. s \in Sectors /\ h \in Headers /\ s \notin mapDisk
    BY <1>3 DEF NewFile, HeaderAt, SectorsOf
  <1> HIDE DEF s, h
  <1>7. \A i \in Slots : dirDisk[i] # Free => dirDisk[i].sector # s
    <2>1. \A i \in Slots : dirDisk[i] # Free => dirDisk[i].sector \in UsedBy(dirDisk, disk)
      BY <1>2 DEF UsedBy, SectorsAt, SectorsOf, Entries
    <2>2. QED
      BY <1>5, <1>6, <2>1
  <1>8. /\ disk' \in [Sectors -> Headers \cup Data] /\ disk'[s] = h
        /\ \A u \in Sectors \ {s} : disk'[u] = disk[u]
    BY <1>1, <1>2, <1>6 DEF VariablesOK
  <1>9. /\ \A i \in Slots : dirDisk[i] # Free =>
              /\ disk'[dirDisk[i].sector] = disk[dirDisk[i].sector]
              /\ SectorsAt(dirDisk, disk', i) = SectorsAt(dirDisk, disk, i)
        /\ Whole(dirDisk, disk) => Whole(dirDisk, disk')
        /\ UsedBy(dirDisk, disk') = UsedBy(dirDisk, disk)
    BY <1>2, <1>6, <1>7, <1>8, SectorWritten
  <1>10. /\ place' \in [Callers -> Places] /\ place'[c] = "create dir"
         /\ \A d \in Callers \ {c} : place'[d] = place[d]
         /\ \A d \in Callers : place'[d] = "out" <=> place[d] = "out"
    <2>1. "create dir" \in Places \ {"out"}
      BY DEF Places
    <2>2. QED
      BY <1>1, <2>1, WentTo
  <1>11. VariablesOK'
    BY <1>1, <1>2, <1>8, <1>10 DEF VariablesOK
  <1>12. OthersRest(c) /\ SameCall(c)
    BY <1>1, <1>10 DEF OthersRest, SameCall, HasOpen
  <1>13. OneChange' /\ RemovedNotOpen'
    BY <1>12, CallsStayApart
  <1>14. BitmapExact'
    BY <1>1, <1>5, <1>9 DEF BitmapExact
  <1>15. /\ \A d \in Callers : HeaderKept(open[d], dirDisk', disk')
         /\ \A d \in Callers \ {c} :
               CallerOK(call'[d], place'[d], copy'[d], open'[d], dirDisk', mapDisk', disk')
    <2>1. \A d \in Callers, n \in Names, i \in Slots :
             HasOpen(d, n) /\ ListedAt(dirDisk, n, i) =>
                /\ dirDisk'[i] = dirDisk[i]
                /\ disk'[dirDisk[i].sector] = disk[dirDisk[i].sector]
      BY <1>1, <1>9 DEF ListedAt
    <2>2. QED
      BY <1>4, <1>12, <2>1, OthersKept
  <1>16. CallerOK(call'[c], place'[c], copy'[c], open'[c], dirDisk', mapDisk', disk')
    <2>1. disk'[copy[c].sector] = copy[c].hdr
      BY <1>8 DEF s, h
    <2>2. CreateOK(call[c], "create dir", copy[c], dirDisk, mapDisk, disk')
      BY <1>3, <2>1 DEF CreateOK
    <2>3. RemoveOK(call[c], "create dir", copy[c], dirDisk, mapDisk, disk')
      BY DEF RemoveOK, RemovePlaces
    <2>4. OpenOK(call[c], "create dir", copy[c], open[c], dirDisk, disk')
      BY <1>1, <1>15 DEF OpenOK
    <2>5. QED
      BY <1>1, <1>10, <2>2, <2>3, <2>4 DEF CallerOK
  <1>17. QED
    BY <1>1, <1>9, <1>11, <1>13, <1>14, <1>15, <1>16 DEF IInv, CallersOK

LEMMA CreateDirInv ==
  ASSUME IInv, NEW c \in Callers, CreateDir(c)
  PROVE  IInv'
  <1> DEFINE s == copy[c].sector
             n == call[c].name
  <1>1. /\ place[c] = "create dir" /\ place[c] # "out" /\ ~ Vulnerable(c)
        /\ dirDisk' = copy[c].dir /\ GoTo(c, "create bitmap")
        /\ UNCHANGED <<mapDisk, disk, call, copy, result, open>>
    BY DEF CreateDir, Vulnerable
  <1>2. /\ VariablesOK /\ dirDisk \in [Slots -> Entries \cup {Free}]
        /\ disk \in [Sectors -> Headers \cup Data] /\ Whole(dirDisk, disk)
    BY DEF IInv, VariablesOK
  <1>3. /\ call[c].op = "Create" /\ NewFile(call[c], copy[c], dirDisk, mapDisk)
        /\ disk[s] = copy[c].hdr
    BY <1>1, CallerNow DEF CreateOK, CreatePlaces
  <1>4. Changing(c) /\ n \in Names
    BY <1>1, <1>2, <1>3 DEF Changing, VariablesOK, Answered
  <1>5. mapDisk = UsedBy(dirDisk, disk)
    BY <1>1, <1>4, BitmapNow
  <1>6. /\ s \in Sectors /\ HeaderAt(s, disk[s]) /\ NotListed(dirDisk, n)
        /\ SectorsOf(s, disk[s]) \cap UsedBy(dirDisk, disk) = {}
        /\ copy[c].map = UsedBy(dirDisk, disk) \cup SectorsOf(s, disk[s])
    BY <1>3, <1>5 DEF NewFile
  <1>7. PICK i \in Slots : /\ dirDisk[i] = Free
                           /\ dirDisk' = WithFile(dirDisk, i, n, s)
    BY <1>1, <1>3 DEF NewFile
  <1> HIDE DEF s, n
  <1>8. /\ dirDisk' \in [Slots -> Entries \cup {Free}]
        /\ Whole(dirDisk', disk)
        /\ UsedBy(dirDisk', disk) = UsedBy(dirDisk, disk) \cup SectorsOf(s, disk[s])
        /\ \A j \in Slots : j # i => dirDisk'[j] = dirDisk[j]
    <2>1. dirDisk[i] = Free /\ i \in Slots /\ n \in Names /\ s \in Sectors
      BY <1>4, <1>6, <1>7
    <2>2. LET new == WithFile(dirDisk, i, n, s) IN
          /\ new \in [Slots -> Entries \cup {Free}]
          /\ Whole(new, disk)
          /\ UsedBy(new, disk) = UsedBy(dirDisk, disk) \cup SectorsOf(s, disk[s])
          /\ \A j \in Slots : j # i => new[j] = dirDisk[j]
      BY <1>2, <1>6, <2>1, FileAdded
    <2>3. QED
      BY <1>7, <2>2
  <1>9. /\ place' \in [Callers -> Places] /\ place'[c] = "create bitmap"
        /\ \A d \in Callers \ {c} : place'[d] = place[d]
        /\ \A d \in Callers : place'[d] = "out" <=> place[d] = "out"
    <2>1. "create bitmap" \in Places \ {"out"}
      BY DEF Places
    <2>2. QED
      BY <1>1, <2>1, WentTo
  <1>10. VariablesOK'
    BY <1>1, <1>2, <1>8, <1>9 DEF VariablesOK
  <1>11. OthersRest(c) /\ SameCall(c)
    BY <1>1, <1>9 DEF OthersRest, SameCall, HasOpen
  <1>12. OneChange' /\ RemovedNotOpen'
    BY <1>11, CallsStayApart
  <1>13. BitmapExact'
    BY <1>9 DEF BitmapExact, Vulnerable
  <1>14. /\ \A d \in Callers : HeaderKept(open[d], dirDisk', disk')
         /\ \A d \in Callers \ {c} :
               CallerOK(call'[d], place'[d], copy'[d], open'[d], dirDisk', mapDisk', disk')
    <2>1. \A d \in Callers, m \in Names, j \in Slots :
             HasOpen(d, m) /\ ListedAt(dirDisk, m, j) =>
                /\ dirDisk'[j] = dirDisk[j]
                /\ disk'[dirDisk[j].sector] = disk[dirDisk[j].sector]
      BY <1>1, <1>7, <1>8 DEF ListedAt
    <2>2. QED
      BY <1>4, <1>11, <2>1, OthersKept
  <1>15. CallerOK(call'[c], place'[c], copy'[c], open'[c], dirDisk', mapDisk', disk')
    <2>1. CreateOK(call[c], "create bitmap", copy[c], dirDisk', mapDisk, disk)
      BY <1>3, <1>6, <1>8 DEF CreateOK
    <2>2. RemoveOK(call[c], "create bitmap", copy[c], dirDisk', mapDisk, disk)
      BY DEF RemoveOK, RemovePlaces
    <2>3. OpenOK(call[c], "create bitmap", copy[c], open[c], dirDisk', disk)
      BY <1>1, <1>14 DEF OpenOK
    <2>4. QED
      BY <1>1, <1>9, <2>1, <2>2, <2>3 DEF CallerOK
  <1>16. QED
    BY <1>1, <1>8, <1>10, <1>12, <1>13, <1>14, <1>15 DEF IInv, CallersOK

LEMMA CreateBitmapInv ==
  ASSUME IInv, NEW c \in Callers, CreateBitmap(c)
  PROVE  IInv'
  <1>1. /\ place[c] = "create bitmap" /\ place[c] # "out"
        /\ mapDisk' = copy[c].map /\ Finish(c, TRUE)
        /\ UNCHANGED <<dirDisk, disk, call, open>>
    BY DEF CreateBitmap
  <1>2. VariablesOK /\ Whole(dirDisk, disk)
    BY DEF IInv
  <1>3. call[c].op = "Create" /\ copy[c].map = UsedBy(dirDisk, disk)
    BY <1>1, CallerNow DEF CreateOK, CreatePlaces
  <1>4. Changing(c)
    BY <1>1, <1>2, <1>3 DEF Changing, VariablesOK
  <1>5. /\ place' \in [Callers -> Places] /\ DOMAIN copy' = Callers
        /\ result' \in [Callers -> BOOLEAN]
        /\ place'[c] = "return" /\ ~ Vulnerable(c)'
        /\ \A d \in Callers \ {c} : place'[d] = place[d] /\ copy'[d] = copy[d]
    BY <1>1, Finished
  <1>6. mapDisk' = UsedBy(dirDisk, disk) /\ mapDisk' \in SUBSET Sectors
    BY <1>1, <1>3 DEF UsedBy
  <1>7. VariablesOK'
    BY <1>1, <1>2, <1>5, <1>6 DEF VariablesOK
  <1>8. OthersRest(c) /\ SameCall(c)
    BY <1>1, <1>5 DEF OthersRest, SameCall, HasOpen
  <1>9. OneChange' /\ RemovedNotOpen'
    BY <1>8, CallsStayApart
  <1>10. BitmapExact'
    BY <1>1, <1>6 DEF BitmapExact
  <1>11. /\ \A d \in Callers : HeaderKept(open[d], dirDisk', disk')
         /\ \A d \in Callers \ {c} :
               CallerOK(call'[d], place'[d], copy'[d], open'[d], dirDisk', mapDisk', disk')
    BY <1>1, <1>4, <1>8, OthersKept
  <1>12. CallerOK(call'[c], place'[c], copy'[c], open'[c], dirDisk', mapDisk', disk')
    <2>1. HeaderKept(open'[c], dirDisk', disk')
      BY <1>1, <1>11
    <2>2. place'[c] \in {"out", "return"}
      BY <1>5
    <2>3. QED
      BY <2>1, <2>2, BetweenCalls
  <1>13. QED
    BY <1>1, <1>2, <1>7, <1>9, <1>10, <1>11, <1>12 DEF IInv, CallersOK

LEMMA RemoveBitmapInv ==
  ASSUME IInv, NEW c \in Callers, RemoveBitmap(c)
  PROVE  IInv'
  <1>1. /\ place[c] = "remove bitmap" /\ place[c] # "out" /\ ~ Vulnerable(c)
        /\ mapDisk' = copy[c].map /\ GoTo(c, "remove dir")
        /\ UNCHANGED <<dirDisk, disk, call, copy, result, open>>
    BY DEF RemoveBitmap, Vulnerable
  <1>2. VariablesOK /\ Whole(dirDisk, disk)
    BY DEF IInv
  <1>3. RemoveOK(call[c], place[c], copy[c], dirDisk, mapDisk, disk)
    BY CallerNow
  <1>4. PICK i \in Slots : /\ ListedAt(dirDisk, call[c].name, i)
                           /\ copy[c].dir = WithoutFile(dirDisk, i)
                           /\ copy[c].map = mapDisk \ SectorsAt(dirDisk, disk, i)
    BY <1>1, <1>3 DEF RemoveOK
  <1>5. call[c].op = "Remove"
    BY <1>1, <1>3 DEF RemoveOK, RemovePlaces
  <1>6. Changing(c)
    BY <1>1, <1>2, <1>5 DEF Changing, VariablesOK
  <1>7. mapDisk = UsedBy(dirDisk, disk)
    BY <1>1, <1>6, BitmapNow
  <1>8. /\ place' \in [Callers -> Places] /\ place'[c] = "remove dir"
        /\ \A d \in Callers \ {c} : place'[d] = place[d]
        /\ \A d \in Callers : place'[d] = "out" <=> place[d] = "out"
    <2>1. "remove dir" \in Places \ {"out"}
      BY DEF Places
    <2>2. QED
      BY <1>1, <2>1, WentTo
  <1>9. mapDisk' = UsedBy(dirDisk, disk) \ SectorsAt(dirDisk, disk, i)
    BY <1>1, <1>4, <1>7
  <1>10. VariablesOK'
    BY <1>1, <1>2, <1>8, <1>9 DEF VariablesOK, UsedBy
  <1>11. OthersRest(c) /\ SameCall(c)
    BY <1>1, <1>8 DEF OthersRest, SameCall, HasOpen
  <1>12. OneChange' /\ RemovedNotOpen'
    BY <1>11, CallsStayApart
  <1>13. BitmapExact'
    BY <1>8 DEF BitmapExact, Vulnerable
  <1>14. /\ \A d \in Callers : HeaderKept(open[d], dirDisk', disk')
         /\ \A d \in Callers \ {c} :
               CallerOK(call'[d], place'[d], copy'[d], open'[d], dirDisk', mapDisk', disk')
    BY <1>1, <1>6, <1>11, OthersKept
  <1>15. CallerOK(call'[c], place'[c], copy'[c], open'[c], dirDisk', mapDisk', disk')
    <2>1. RemoveOK(call[c], "remove dir", copy[c], dirDisk, mapDisk', disk)
      BY <1>4, <1>5, <1>9 DEF RemoveOK
    <2>2. CreateOK(call[c], "remove dir", copy[c], dirDisk, mapDisk', disk)
      BY DEF CreateOK, CreatePlaces
    <2>3. OpenOK(call[c], "remove dir", copy[c], open[c], dirDisk, disk)
      BY <1>1, <1>14 DEF OpenOK
    <2>4. QED
      BY <1>1, <1>8, <2>1, <2>2, <2>3 DEF CallerOK
  <1>16. QED
    BY <1>1, <1>2, <1>10, <1>12, <1>13, <1>14, <1>15 DEF IInv, CallersOK

LEMMA RemoveDirInv ==
  ASSUME IInv, NEW c \in Callers, RemoveDir(c)
  PROVE  IInv'
  <1>1. /\ place[c] = "remove dir" /\ place[c] # "out"
        /\ dirDisk' = copy[c].dir /\ Finish(c, TRUE)
        /\ UNCHANGED <<mapDisk, disk, call, open>>
    BY DEF RemoveDir
  <1>2. VariablesOK /\ Whole(dirDisk, disk) /\ dirDisk \in [Slots -> Entries \cup {Free}]
    BY DEF IInv, VariablesOK
  <1>3. RemoveOK(call[c], place[c], copy[c], dirDisk, mapDisk, disk)
    BY CallerNow
  <1>4. PICK i \in Slots : /\ ListedAt(dirDisk, call[c].name, i)
                           /\ dirDisk' = WithoutFile(dirDisk, i)
                           /\ mapDisk = UsedBy(dirDisk, disk) \ SectorsAt(dirDisk, disk, i)
    BY <1>1, <1>3 DEF RemoveOK
  <1>5. call[c].op = "Remove"
    BY <1>1, <1>3 DEF RemoveOK, RemovePlaces
  <1>6. Changing(c) /\ call[c] # NoCall
    BY <1>1, <1>2, <1>5 DEF Changing, VariablesOK
  <1>7. /\ dirDisk' \in [Slots -> Entries \cup {Free}]
        /\ Whole(dirDisk', disk)
        /\ UsedBy(dirDisk', disk) = UsedBy(dirDisk, disk) \ SectorsAt(dirDisk, disk, i)
        /\ \A j \in Slots : j # i => dirDisk'[j] = dirDisk[j]
    <2>1. dirDisk[i] # Free
      BY <1>4 DEF ListedAt
    <2>2. LET new == WithoutFile(dirDisk, i) IN
          /\ new \in [Slots -> Entries \cup {Free}]
          /\ Whole(new, disk)
          /\ UsedBy(new, disk) = UsedBy(dirDisk, disk) \ SectorsAt(dirDisk, disk, i)
          /\ \A j \in Slots : j # i => new[j] = dirDisk[j]
      BY <1>2, <2>1, FileRemoved
    <2>3. QED
      BY <1>4, <2>2
  <1>8. /\ place' \in [Callers -> Places] /\ DOMAIN copy' = Callers
        /\ result' \in [Callers -> BOOLEAN]
        /\ place'[c] = "return" /\ ~ Vulnerable(c)'
        /\ \A d \in Callers \ {c} : place'[d] = place[d] /\ copy'[d] = copy[d]
    BY <1>1, Finished
  <1>9. VariablesOK'
    BY <1>1, <1>2, <1>7, <1>8 DEF VariablesOK
  <1>10. OthersRest(c) /\ SameCall(c)
    BY <1>1, <1>8 DEF OthersRest, SameCall, HasOpen
  <1>11. OneChange' /\ RemovedNotOpen'
    BY <1>10, CallsStayApart
  <1>12. BitmapExact'
    BY <1>1, <1>4, <1>7 DEF BitmapExact
  <1>13. /\ \A d \in Callers : HeaderKept(open[d], dirDisk', disk')
         /\ \A d \in Callers \ {c} :
               CallerOK(call'[d], place'[d], copy'[d], open'[d], dirDisk', mapDisk', disk')
    <2>1. \A d \in Callers, m \in Names, j \in Slots :
             HasOpen(d, m) /\ ListedAt(dirDisk, m, j) =>
                /\ dirDisk'[j] = dirDisk[j]
                /\ disk'[dirDisk[j].sector] = disk[dirDisk[j].sector]
      <3>1. \A d \in Callers : ~ HasOpen(d, call[c].name)
        BY <1>5, <1>6 DEF IInv, RemovedNotOpen
      <3>2. \A m \in Names : ListedAt(dirDisk, m, i) => m = call[c].name
        BY <1>4 DEF ListedAt
      <3>3. QED
        BY <1>1, <1>7, <3>1, <3>2
    <2>2. QED
      BY <1>6, <1>10, <2>1, OthersKept
  <1>14. CallerOK(call'[c], place'[c], copy'[c], open'[c], dirDisk', mapDisk', disk')
    <2>1. HeaderKept(open'[c], dirDisk', disk')
      BY <1>1, <1>13
    <2>2. place'[c] \in {"out", "return"}
      BY <1>8
    <2>3. QED
      BY <2>1, <2>2, BetweenCalls
  <1>15. QED
    BY <1>1, <1>7, <1>9, <1>11, <1>12, <1>13, <1>14 DEF IInv, CallersOK

-----------------------------------------------------------------------------
(* The invariant holds.                                                    *)

LEMMA InitInv == Init => IInv
  <1> SUFFICES ASSUME Init PROVE IInv
    OBVIOUS
  <1>1. /\ dirDisk \in [Slots -> Entries \cup {Free}] /\ \A i \in Slots : dirDisk[i] = Free
        /\ mapDisk = {}
        /\ \A c \in Callers : call[c] = NoCall /\ place[c] = "out" /\ open[c] = NoFile
    BY DEF Init, Slots
  <1>2. VariablesOK
    BY <1>1, FileSystemAssumption DEF Init, VariablesOK, Places
  <1>3. Whole(dirDisk, disk)
    BY <1>1 DEF Whole
  <1>4. BitmapExact
    BY <1>1 DEF BitmapExact, UsedBy
  <1>5. CallersOK
    <2> SUFFICES ASSUME NEW c \in Callers
                 PROVE  CallerOK(call[c], place[c], copy[c], open[c], dirDisk, mapDisk, disk)
      BY DEF CallersOK
    <2>1. HeaderKept(open[c], dirDisk, disk) /\ place[c] \in {"out", "return"}
      BY <1>1 DEF HeaderKept
    <2>2. QED
      BY <2>1, BetweenCalls
  <1>6. OneChange /\ RemovedNotOpen
    BY <1>1 DEF OneChange, RemovedNotOpen, Changing
  <1>7. QED
    BY <1>2, <1>3, <1>4, <1>5, <1>6 DEF IInv

LEMMA NextInv == IInv /\ [Next]_vars => IInv'
  <1> SUFFICES ASSUME IInv, [Next]_vars PROVE IInv'
    OBVIOUS
  <1>1. ASSUME NEW c \in Callers, Start(c) PROVE IInv'
    BY <1>1, StartInv
  <1>2. ASSUME NEW c \in Callers, Return(c) PROVE IInv'
    BY <1>2, ReturnInv
  <1>3. ASSUME NEW c \in Callers, CreateFind(c) PROVE IInv'
    BY <1>3, CreateFindInv
  <1>4. ASSUME NEW c \in Callers, CreateMap(c) PROVE IInv'
    BY <1>4, CreateMapInv
  <1>5. ASSUME NEW c \in Callers, CreateHeader(c) PROVE IInv'
    BY <1>5, CreateHeaderInv
  <1>6. ASSUME NEW c \in Callers, CreateDir(c) PROVE IInv'
    BY <1>6, CreateDirInv
  <1>7. ASSUME NEW c \in Callers, CreateBitmap(c) PROVE IInv'
    BY <1>7, CreateBitmapInv
  <1>8. ASSUME NEW c \in Callers, OpenFind(c) PROVE IInv'
    BY <1>8, OpenFindInv
  <1>9. ASSUME NEW c \in Callers, OpenHeader(c) PROVE IInv'
    BY <1>9, OpenHeaderInv
  <1>10. ASSUME NEW c \in Callers, ReadAt(c) PROVE IInv'
    BY <1>10, ReadAtInv
  <1>11. ASSUME NEW c \in Callers, WriteAt(c) PROVE IInv'
    BY <1>11, WriteAtInv
  <1>12. ASSUME NEW c \in Callers, Close(c) PROVE IInv'
    BY <1>12, CloseInv
  <1>13. ASSUME NEW c \in Callers, RemoveFind(c) PROVE IInv'
    BY <1>13, RemoveFindInv
  <1>14. ASSUME NEW c \in Callers, RemoveHeader(c) PROVE IInv'
    BY <1>14, RemoveHeaderInv
  <1>15. ASSUME NEW c \in Callers, RemoveMap(c) PROVE IInv'
    BY <1>15, RemoveMapInv
  <1>16. ASSUME NEW c \in Callers, RemoveBitmap(c) PROVE IInv'
    BY <1>16, RemoveBitmapInv
  <1>17. ASSUME NEW c \in Callers, RemoveDir(c) PROVE IInv'
    BY <1>17, RemoveDirInv
  <1>18. CASE Crash
    BY <1>18, CrashInv
  <1>19. CASE UNCHANGED vars
    <2>1. UNCHANGED <<dirDisk, mapDisk, disk, call, place, copy, result, open>>
      BY <1>19 DEF vars
    <2>2. VariablesOK'
      BY <2>1 DEF IInv, VariablesOK
    <2>3. BitmapExact' /\ OneChange' /\ RemovedNotOpen'
      BY <2>1 DEF IInv, BitmapExact, Vulnerable, OneChange, RemovedNotOpen, Changing, HasOpen
    <2>4. Whole(dirDisk, disk)' /\ CallersOK'
      BY <2>1 DEF IInv, CallersOK
    <2>5. QED
      BY <2>2, <2>3, <2>4 DEF IInv
  <1>20. QED
    BY <1>1, <1>2, <1>3, <1>4, <1>5, <1>6, <1>7, <1>8, <1>9, <1>10, <1>11, <1>12,
       <1>13, <1>14, <1>15, <1>16, <1>17, <1>18, <1>19 DEF Next

LEMMA InvImpliesFiles == IInv => FilesInv
  <1> SUFFICES ASSUME IInv PROVE FilesInv
    OBVIOUS
  <1>1. VariablesOK /\ Whole(dirDisk, disk)
    BY DEF IInv
  <1>2. ASSUME NEW i \in Listed
        PROVE  /\ i \in Slots /\ dirDisk[i] # Free
               /\ dirDisk[i].sector \in Sectors
               /\ HeaderAt(dirDisk[i].sector, disk[dirDisk[i].sector])
               /\ Occupied(i) = SectorsAt(dirDisk, disk, i)
    <2>1. i \in Slots /\ dirDisk[i] # Free
      BY DEF Listed, Slots
    <2>2. dirDisk[i].sector \in Sectors
      BY <1>1, <2>1 DEF VariablesOK, Entries
    <2>3. HeaderAt(dirDisk[i].sector, disk[dirDisk[i].sector])
      BY <1>1, <2>1 DEF Whole
    <2>4. Occupied(i) = SectorsAt(dirDisk, disk, i)
      BY DEF Occupied, SectorsAt, SectorsOf
    <2>5. QED
      BY <2>1, <2>2, <2>3, <2>4
  <1>3. TypeOK
    <2>1. ASSUME NEW c \in Callers, place[c] = "create header"
          PROVE  copy[c].sector \in copy[c].map \cap Sectors /\ copy[c].hdr \in Headers
      <3>1. NewFile(call[c], copy[c], dirDisk, mapDisk)
        BY <2>1, CallerNow DEF CreateOK
      <3>2. QED
        BY <3>1 DEF NewFile, HeaderAt, SectorsOf
    <2>2. \A c \in Callers : open[c] # NoFile => open[c] \in OpenFiles
      BY <1>1 DEF VariablesOK
    <2>3. QED
      BY <1>1, <2>1, <2>2 DEF TypeOK, VariablesOK, Slots
  <1>4. EntriesHaveHeaders
    <2> SUFFICES ASSUME NEW i \in Listed
                 PROVE  /\ disk[dirDisk[i].sector] \in Headers
                        /\ \A j \in Listed : dirDisk[i].name = dirDisk[j].name => i = j
      BY DEF EntriesHaveHeaders
    <2>1. disk[dirDisk[i].sector] \in Headers
      BY <1>2 DEF HeaderAt
    <2>2. \A j \in Listed : dirDisk[i].name = dirDisk[j].name => i = j
      BY <1>1, <1>2 DEF Whole
    <2>3. QED
      BY <2>1, <2>2
  <1>5. FilesDisjoint
    <2> SUFFICES ASSUME NEW i \in Listed
                 PROVE  /\ Cardinality(Occupied(i)) = 1 + Len(disk[dirDisk[i].sector])
                        /\ \A j \in Listed \ {i} : Occupied(i) \cap Occupied(j) = {}
      BY DEF FilesDisjoint
    <2> DEFINE s == dirDisk[i].sector
               h == disk[s]
    <2>1. s \in Sectors /\ HeaderAt(s, h) /\ Occupied(i) = SectorsOf(s, h)
      BY <1>2 DEF SectorsAt
    <2>2. Cardinality(Occupied(i)) = 1 + Len(h)
      <3> HIDE DEF s, h
      <3> QED
        BY <2>1, SectorsOfHeader
    <2>3. \A j \in Listed \ {i} : Occupied(i) \cap Occupied(j) = {}
      BY <1>1, <1>2 DEF Whole
    <2>4. QED
      BY <2>2, <2>3
  <1>6. MapExact
    <2>1. ASSUME NEW u
          PROVE  u \in UsedBy(dirDisk, disk) <=> u \in UNION {Occupied(i) : i \in Listed}
      <3>1. ASSUME u \in UsedBy(dirDisk, disk) PROVE \E i \in Listed : u \in Occupied(i)
        <4>1. PICK i \in Slots : dirDisk[i] # Free /\ u \in SectorsAt(dirDisk, disk, i)
          BY <3>1 DEF UsedBy
        <4>2. i \in Listed
          BY <4>1 DEF Listed, Slots
        <4>3. QED
          BY <1>2, <4>1, <4>2
      <3>2. ASSUME NEW i \in Listed, u \in Occupied(i) PROVE u \in UsedBy(dirDisk, disk)
        <4>1. SectorsAt(dirDisk, disk, i) \in SUBSET Sectors
          BY <1>2, SectorsOfHeader DEF SectorsAt
        <4>2. QED
          BY <1>2, <3>2, <4>1 DEF UsedBy
      <3>3. QED
        BY <3>1, <3>2
    <2>2. UsedBy(dirDisk, disk) = UNION {Occupied(i) : i \in Listed}
      BY <2>1
    <2>3. QED
      BY <2>2 DEF MapExact, IInv, BitmapExact
  <1>7. QED
    BY <1>3, <1>4, <1>5, <1>6 DEF FilesInv

\* Each name in the directory leads, at every moment, to a header of its own; no
\* sector belongs to two files; and the bitmap marks the files' sectors, but for the
\* moment between its write and the directory's.  Files that are created, opened,
\* removed, read and written by any callers, on any disk (filesys.cc, directory.cc).
THEOREM FilesWhole == Spec => []FilesInv
  <1>1. Init => IInv
    BY InitInv
  <1>2. IInv /\ [Next]_vars => IInv'
    BY NextInv
  <1>3. IInv => FilesInv
    BY InvImpliesFiles
  <1>4. QED
    BY <1>1, <1>2, <1>3, PTL DEF Spec

-----------------------------------------------------------------------------
(* The calls are atomic: the contents of files, and what a step shows of   *)
(* the callers' stages and handles.                                        *)

FileIn(dk, s) == [k \in 1 .. Len(dk[s]) |-> dk[dk[s][k]]]

Contents(dir, dk, n) ==
    LET i == FindIndex(dir, n) IN IF i = 0 THEN NoFile ELSE FileIn(dk, dir[i].sector)

StageOf(p, r) ==
    CASE p = "out"    -> "idle"
      [] p = "return" -> IF r THEN "true" ELSE "false"
      [] p \in {"create bitmap", "open header"} -> "true"
      [] OTHER -> "called"

HandleOf(p, k, op) ==
    IF p = "open header" THEN k.name ELSE IF op # NoFile THEN op.name ELSE NoFile

LEMMA MappedVariables ==
  /\ absFiles = [n \in Names |-> Contents(dirDisk, disk, n)]
  /\ absStage = [c \in Callers |-> StageOf(place[c], result[c])]
  /\ absHandle = [c \in Callers |-> HandleOf(place[c], call[c], open[c])]
  <1>1. absFiles = [n \in Names |-> Contents(dirDisk, disk, n)]
    BY DEF absFiles, Contents, FileIn
  <1>2. absStage = [c \in Callers |-> StageOf(place[c], result[c])]
    BY DEF absStage, StageOf
  <1>3. absHandle = [c \in Callers |-> HandleOf(place[c], call[c], open[c])]
    BY DEF absHandle, HandleOf
  <1>4. QED
    BY <1>1, <1>2, <1>3

LEMMA MappedVariablesNext ==
  /\ absFiles' = [n \in Names |-> Contents(dirDisk', disk', n)]
  /\ absStage' = [c \in Callers |-> StageOf(place'[c], result'[c])]
  /\ absHandle' = [c \in Callers |-> HandleOf(place'[c], call'[c], open'[c])]
  <1>1. absFiles' = [n \in Names |-> Contents(dirDisk', disk', n)]
    BY DEF absFiles, Contents, FileIn, FindIndex
  <1>2. absStage' = [c \in Callers |-> StageOf(place'[c], result'[c])]
    BY DEF absStage, StageOf
  <1>3. absHandle' = [c \in Callers |-> HandleOf(place'[c], call'[c], open'[c])]
    BY DEF absHandle, HandleOf
  <1>4. QED
    BY <1>1, <1>2, <1>3

LEMMA NoContents ==
  ASSUME NEW dir, NEW dk, NEW n, NotListed(dir, n)
  PROVE  Contents(dir, dk, n) = NoFile
  BY ListedFound DEF Contents

LEMMA ContentsOf ==
  ASSUME NEW dir \in [Slots -> Entries \cup {Free}], NEW dk \in [Sectors -> Headers \cup Data],
         NEW n, NEW i \in Slots, Whole(dir, dk), ListedAt(dir, n, i)
  PROVE  /\ Contents(dir, dk, n) = FileIn(dk, dir[i].sector)
         /\ Contents(dir, dk, n) # NoFile
         /\ Len(Contents(dir, dk, n)) = Len(dk[dir[i].sector])
  <1> DEFINE s == dir[i].sector
             h == dk[s]
             m == Len(h)
             f == FileIn(dk, s)
  <1>1. FindIndex(dir, n) = i
    BY ListedOnce
  <1>2. i # 0
    BY FileSystemAssumption DEF Slots
  <1>3. Contents(dir, dk, n) = f
    BY <1>1, <1>2 DEF Contents
  <1>4. s \in Sectors /\ HeaderAt(s, h)
    BY DEF ListedAt, Entries, Whole
  <1> HIDE DEF s, h
  <1>5. m \in 0 .. MaxSize /\ h \in [1 .. m -> Sectors]
    BY <1>4, SectorsOfHeader
  <1>6. f = [k \in 1 .. m |-> dk[h[k]]]
    BY DEF FileIn, h
  <1>7. f \in [1 .. m -> Data \cup Headers]
    BY <1>5, <1>6
  <1> HIDE DEF f, m
  <1>8. f # NoFile
    BY <1>5, <1>7, FileSystemAssumption
  <1>9. Len(f) = m
    <2>1. m \in Nat
      BY <1>5, FileSystemAssumption
    <2>2. QED
      BY <1>7, <2>1
  <1>10. QED
    BY <1>3, <1>8, <1>9 DEF f, m, h, s

\* a file whose entry and sectors a step leaves alone keeps its contents
LEMMA ContentsKept ==
  ASSUME NEW dir \in [Slots -> Entries \cup {Free}], NEW dk \in [Sectors -> Headers \cup Data],
         NEW ndir \in [Slots -> Entries \cup {Free}], NEW ndk \in [Sectors -> Headers \cup Data],
         NEW n, NEW i \in Slots, Whole(dir, dk), Whole(ndir, ndk), ListedAt(dir, n, i),
         ndir[i] = dir[i], \A u \in SectorsAt(dir, dk, i) : ndk[u] = dk[u]
  PROVE  Contents(ndir, ndk, n) = Contents(dir, dk, n)
  <1> DEFINE s == dir[i].sector
             h == dk[s]
             m == Len(h)
  <1>1. ListedAt(ndir, n, i) /\ ndir[i].sector = s
    BY DEF ListedAt
  <1>2. Contents(dir, dk, n) = FileIn(dk, s)
    BY ContentsOf
  <1>3. Contents(ndir, ndk, n) = FileIn(ndk, s)
    BY <1>1, ContentsOf
  <1>4. s \in Sectors /\ HeaderAt(s, h) /\ s \in SectorsAt(dir, dk, i)
    BY DEF ListedAt, Entries, Whole, SectorsAt, SectorsOf
  <1>5. ndk[s] = h
    BY <1>4
  <1> HIDE DEF s, h
  <1>6. /\ h \in [1 .. m -> Sectors]
        /\ ToSet(h) = {h[k] : k \in 1 .. m}
    BY <1>4, SectorsOfHeader
  <1>7. \A k \in 1 .. m : h[k] \in SectorsAt(dir, dk, i)
    BY <1>6 DEF SectorsAt, SectorsOf, s, h
  <1>8. \A k \in 1 .. m : ndk[h[k]] = dk[h[k]]
    BY <1>7
  <1>9. FileIn(dk, s) = [k \in 1 .. m |-> dk[h[k]]]
    BY DEF FileIn, h
  <1>10. FileIn(ndk, s) = [k \in 1 .. m |-> ndk[h[k]]]
    BY <1>5 DEF FileIn
  <1>11. QED
    BY <1>2, <1>3, <1>8, <1>9, <1>10
atomicVars == <<absFiles, call, absStage, absHandle>>

LEMMA FilesUnseen ==
  ASSUME UNCHANGED <<dirDisk, disk>>
  PROVE  UNCHANGED absFiles
  BY MappedVariables, MappedVariablesNext

LEMMA HandlesUnseen ==
  ASSUME \A d \in Callers : HandleOf(place'[d], call'[d], open'[d])
                               = HandleOf(place[d], call[d], open[d])
  PROVE  UNCHANGED absHandle
  BY MappedVariables, MappedVariablesNext

LEMMA HandleOfOne ==
  ASSUME NEW c \in Callers, OthersRest(c)
  PROVE  absHandle' = [absHandle EXCEPT ![c] = HandleOf(place'[c], call'[c], open'[c])]
  <1>1. \A d \in Callers \ {c} : HandleOf(place'[d], call'[d], open'[d])
                                    = HandleOf(place[d], call[d], open[d])
    BY DEF OthersRest
  <1>2. QED
    BY <1>1, MappedVariables, MappedVariablesNext

LEMMA StageOfOne ==
  ASSUME NEW c \in Callers,
         \A d \in Callers \ {c} : place'[d] = place[d] /\ result'[d] = result[d]
  PROVE  absStage' = [absStage EXCEPT ![c] = StageOf(place'[c], result'[c])]
  BY MappedVariables, MappedVariablesNext

LEMMA StageNow ==
  ASSUME NEW c \in Callers
  PROVE  /\ absStage[c] = StageOf(place[c], result[c])
         /\ place[c] \in Places \ {"out", "return", "create bitmap", "open header"}
               => absStage[c] = "called"
         /\ place[c] \in {"create bitmap", "open header"} => absStage[c] = "true"
         /\ place[c] = "out" => absStage[c] = "idle"
         /\ place[c] = "return" => absStage[c] \in {"true", "false"}
  <1>1. absStage[c] = StageOf(place[c], result[c])
    BY MappedVariables
  <1>2. QED
    BY <1>1 DEF StageOf

LEMMA StageAtEnd ==
  ASSUME IInv, NEW c \in Callers, NEW r \in BOOLEAN, Finish(c, r)
  PROVE  absStage' = [absStage EXCEPT ![c] = IF r THEN "true" ELSE "false"]
  <1>1. place'[c] = "return" /\ \A d \in Callers \ {c} : place'[d] = place[d]
    BY Finished
  <1>2. result'[c] = r
    BY DEF Finish, IInv, VariablesOK
  <1>3. \A d \in Callers \ {c} : result'[d] = result[d]
    BY DEF Finish, IInv, VariablesOK
  <1>4. absStage' = [absStage EXCEPT ![c] = StageOf(place'[c], result'[c])]
    BY <1>1, <1>3, StageOfOne
  <1>5. StageOf("return", r) = IF r THEN "true" ELSE "false"
    BY Zenon DEF StageOf
  <1>6. QED
    BY <1>1, <1>2, <1>4, <1>5, Zenon

LEMMA StageOnTheWay ==
  ASSUME IInv, NEW c \in Callers, place[c] # "out", UNCHANGED result,
         NEW p \in Places \ {"out", "return"}, GoTo(c, p)
  PROVE  absStage' = [absStage EXCEPT ![c] = IF p \in {"create bitmap", "open header"}
                                             THEN "true" ELSE "called"]
  <1>1. place'[c] = p /\ \A d \in Callers \ {c} : place'[d] = place[d]
    BY WentTo
  <1>2. absStage' = [absStage EXCEPT ![c] = StageOf(place'[c], result'[c])]
    BY <1>1, StageOfOne
  <1>3. StageOf(p, result'[c]) = IF p \in {"create bitmap", "open header"} THEN "true" ELSE "called"
    BY DEF StageOf
  <1>4. QED
    BY <1>1, <1>2, <1>3

\* places where a call has not happened yet, on the way to which nothing is to see
Before == Places \ {"out", "return", "create bitmap", "open header"}

\* a step on the way to the one at which the call happens
LEMMA OnTheWay ==
  ASSUME IInv, NEW c \in Callers, place[c] \in Before, NEW p \in Before, GoTo(c, p),
         UNCHANGED absFiles, UNCHANGED <<call, result, open>>
  PROVE  UNCHANGED atomicVars
  <1>1. place[c] # "out" /\ p \in Places \ {"out", "return"}
    BY DEF Before
  <1>2. absStage' = [absStage EXCEPT ![c] = "called"]
    BY <1>1, StageOnTheWay DEF Before
  <1>3. absStage[c] = "called"
    BY StageNow DEF Before
  <1>4. UNCHANGED absStage
    BY <1>2, <1>3, MappedVariables
  <1>5. /\ place'[c] = p /\ p # "open header" /\ place[c] # "open header"
        /\ \A d \in Callers \ {c} : place'[d] = place[d]
    BY <1>1, WentTo DEF Before
  <1>6. \A d \in Callers : HandleOf(place'[d], call'[d], open'[d])
                              = HandleOf(place[d], call[d], open[d])
    BY <1>5 DEF HandleOf
  <1>7. UNCHANGED absHandle
    BY <1>6, HandlesUnseen
  <1>8. QED
    BY <1>4, <1>7 DEF atomicVars

\* a call that happens and ends, and leaves the open files alone
LEMMA HappensAndEnds ==
  ASSUME IInv, NEW c \in Callers, place[c] \in Before, NEW r \in BOOLEAN, Finish(c, r),
         UNCHANGED open, \A d \in Callers \ {c} : call'[d] = call[d]
  PROVE  /\ Atomic!Happen(c, call[c].op, IF r THEN "true" ELSE "false")
         /\ UNCHANGED absHandle
  <1>1. Atomic!Happen(c, call[c].op, IF r THEN "true" ELSE "false")
    <2>1. absStage[c] = "called"
      BY StageNow DEF Before
    <2>2. absStage' = [absStage EXCEPT ![c] = IF r THEN "true" ELSE "false"]
      BY StageAtEnd
    <2>3. QED
      BY <2>1, <2>2, Zenon DEF Atomic!Happen
  <1>2. /\ place'[c] = "return" /\ place[c] # "open header"
        /\ \A d \in Callers \ {c} : place'[d] = place[d]
    BY Finished DEF Before
  <1>3. \A d \in Callers : HandleOf(place'[d], call'[d], open'[d])
                              = HandleOf(place[d], call[d], open[d])
    BY <1>2 DEF HandleOf
  <1>4. UNCHANGED absHandle
    BY <1>3, HandlesUnseen
  <1>5. QED
    BY <1>1, <1>4

LEMMA FileSectors ==
  ASSUME IInv, NEW i \in Slots, dirDisk[i] # Free
  PROVE  SectorsAt(dirDisk, disk, i) \in SUBSET Sectors
  <1>1. dirDisk[i].sector \in Sectors
    BY DEF IInv, VariablesOK, Entries
  <1>2. HeaderAt(dirDisk[i].sector, disk[dirDisk[i].sector])
    BY DEF IInv, Whole
  <1>3. QED
    BY <1>1, <1>2, SectorsOfHeader DEF SectorsAt

LEMMA ContentsUnchanged ==
  ASSUME IInv, IInv', NEW n, NotListed(dirDisk, n) => NotListed(dirDisk', n),
         \A i \in Slots : ListedAt(dirDisk, n, i) =>
            /\ dirDisk'[i] = dirDisk[i]
            /\ \A u \in SectorsAt(dirDisk, disk, i) : disk'[u] = disk[u]
  PROVE  Contents(dirDisk', disk', n) = Contents(dirDisk, disk, n)
  <1>1. /\ dirDisk \in [Slots -> Entries \cup {Free}] /\ disk \in [Sectors -> Headers \cup Data]
        /\ dirDisk' \in [Slots -> Entries \cup {Free}] /\ disk' \in [Sectors -> Headers \cup Data]
        /\ Whole(dirDisk, disk) /\ Whole(dirDisk', disk')
    BY DEF IInv, VariablesOK
  <1>2. CASE NotListed(dirDisk, n)
    BY <1>2, NoContents
  <1>3. CASE ~ NotListed(dirDisk, n)
    <2>1. PICK i \in Slots : ListedAt(dirDisk, n, i)
      BY <1>3 DEF NotListed, ListedAt
    <2>2. /\ dirDisk'[i] = dirDisk[i]
          /\ \A u \in SectorsAt(dirDisk, disk, i) : disk'[u] = disk[u]
      BY <2>1
    <2>3. QED
      BY <1>1, <2>1, <2>2, ContentsKept
  <1>4. QED
    BY <1>2, <1>3

\* the file that c has open for the transfer it is about to make
LEMMA ContentsInUse ==
  ASSUME IInv, NEW c \in Callers, place[c] = "transfer"
  PROVE  /\ absHandle[c] = open[c].name /\ open[c].name \in Names /\ absHandle[c] # NoFile
         /\ Len(absFiles[open[c].name]) = Len(open[c].hdr)
         /\ \A i \in 1 .. Len(open[c].hdr) : absFiles[open[c].name][i] = disk[open[c].hdr[i]]
  <1> DEFINE n == open[c].name
             h == open[c].hdr
  <1>1. /\ open[c] # NoFile /\ open[c] \in OpenFiles
        /\ \E f \in Slots : ListedAt(dirDisk, n, f) /\ h = disk[dirDisk[f].sector]
    BY FileInUse
  <1>2. n \in Names /\ n # NoFile
    BY <1>1, FileSystemAssumption DEF OpenFiles
  <1>3. absHandle[c] = n
    BY <1>1, MappedVariables DEF HandleOf
  <1>4. PICK f \in Slots : ListedAt(dirDisk, n, f) /\ h = disk[dirDisk[f].sector]
    BY <1>1
  <1> HIDE DEF n, h
  <1>5. /\ dirDisk \in [Slots -> Entries \cup {Free}] /\ disk \in [Sectors -> Headers \cup Data]
        /\ Whole(dirDisk, disk)
    BY DEF IInv, VariablesOK
  <1>6. /\ Contents(dirDisk, disk, n) = FileIn(disk, dirDisk[f].sector)
        /\ Len(Contents(dirDisk, disk, n)) = Len(disk[dirDisk[f].sector])
    BY <1>4, <1>5, ContentsOf
  <1>7. absFiles[n] = Contents(dirDisk, disk, n)
    BY <1>2, MappedVariables
  <1>8. FileIn(disk, dirDisk[f].sector) = [i \in 1 .. Len(h) |-> disk[h[i]]]
    BY <1>4 DEF FileIn
  <1>9. /\ Len(absFiles[n]) = Len(h)
        /\ \A i \in 1 .. Len(h) : absFiles[n][i] = disk[h[i]]
    <2>1. absFiles[n] = [i \in 1 .. Len(h) |-> disk[h[i]]]
      BY <1>6, <1>7, <1>8, Zenon
    <2>2. \A i \in 1 .. Len(h) : absFiles[n][i] = disk[h[i]]
      BY <2>1, Zenon
    <2>3. Len(absFiles[n]) = Len(h)
      BY <1>4, <1>6, <1>7, Zenon
    <2>4. QED
      BY <2>2, <2>3
  <1>10. QED
    BY <1>2, <1>3, <1>9, Zenon DEF n, h

-----------------------------------------------------------------------------
(* Each step is one of AtomicFileSystem, or shows nothing.                 *)

LEMMA StartMaps ==
  ASSUME IInv, NEW c \in Callers, Start(c)
  PROVE  Atomic!Next
  <1>1. PICK k \in Calls : /\ call' = [call EXCEPT ![c] = k]
                           /\ place' = [place EXCEPT ![c] = FirstPlace(k.op)]
    BY DEF Start, FirstPlace
  <1>2. place[c] = "out" /\ UNCHANGED <<dirDisk, disk, result, open>>
    BY DEF Start
  <1>3. FirstPlace(k.op) \in Before
    BY DEF FirstPlace, Before, Places
  <1>4. /\ place'[c] = FirstPlace(k.op) /\ \A d \in Callers \ {c} : place'[d] = place[d]
        /\ \A d \in Callers \ {c} : call'[d] = call[d]
    BY <1>1 DEF IInv, VariablesOK
  <1>5. absStage[c] = "idle"
    BY <1>2, StageNow
  <1>6. absStage' = [absStage EXCEPT ![c] = "called"]
    <2>1. absStage' = [absStage EXCEPT ![c] = StageOf(place'[c], result'[c])]
      BY <1>2, <1>4, StageOfOne
    <2>2. StageOf(place'[c], result'[c]) = "called"
      BY <1>3, <1>4 DEF StageOf, Before
    <2>3. QED
      BY <2>1, <2>2
  <1>7. UNCHANGED absHandle
    <2>1. place'[c] # "open header" /\ place[c] # "open header"
      BY <1>2, <1>3, <1>4 DEF Before
    <2>2. \A d \in Callers : HandleOf(place'[d], call'[d], open'[d])
                                = HandleOf(place[d], call[d], open[d])
      BY <1>2, <1>4, <2>1 DEF HandleOf
    <2>3. QED
      BY <2>2, HandlesUnseen
  <1>8. UNCHANGED absFiles
    BY <1>2, FilesUnseen
  <1>9. k \in Atomic!Calls
    BY DEF Atomic!Calls, Calls, Operations
  <1>10. Atomic!Start(c)
    BY <1>1, <1>5, <1>6, <1>7, <1>8, <1>9, Zenon DEF Atomic!Start
  <1>11. QED
    BY <1>10, Zenon DEF Atomic!Next

LEMMA ReturnMaps ==
  ASSUME IInv, NEW c \in Callers, Return(c)
  PROVE  Atomic!Next
  <1>1. /\ place[c] = "return" /\ place'[c] = "out"
        /\ \A d \in Callers \ {c} : place'[d] = place[d] /\ result'[d] = result[d]
        /\ call' = [call EXCEPT ![c] = NoCall] /\ \A d \in Callers \ {c} : call'[d] = call[d]
        /\ UNCHANGED <<dirDisk, disk, open>>
    BY DEF Return, IInv, VariablesOK
  <1>2. absStage[c] \in {"true", "false"}
    BY <1>1, StageNow
  <1>3. absStage' = [absStage EXCEPT ![c] = "idle"]
    <2>1. absStage' = [absStage EXCEPT ![c] = StageOf(place'[c], result'[c])]
      BY <1>1, StageOfOne
    <2>2. StageOf(place'[c], result'[c]) = "idle"
      BY <1>1 DEF StageOf
    <2>3. QED
      BY <2>1, <2>2
  <1>4. UNCHANGED absHandle
    <2>1. /\ place'[c] # "open header" /\ place[c] # "open header" /\ UNCHANGED open
          /\ \A d \in Callers \ {c} : place'[d] = place[d] /\ call'[d] = call[d]
      BY <1>1
    <2>2. \A d \in Callers : HandleOf(place'[d], call'[d], open'[d])
                                = HandleOf(place[d], call[d], open[d])
      BY <2>1 DEF HandleOf
    <2>3. QED
      BY <2>2, HandlesUnseen
  <1>5. UNCHANGED absFiles
    BY <1>1, FilesUnseen
  <1>6. Atomic!Return(c)
    BY <1>1, <1>2, <1>3, <1>4, <1>5, Zenon DEF Atomic!Return
  <1>7. QED
    BY <1>6, Zenon DEF Atomic!Next

\* a Create that finds the name taken, or no room
LEMMA CreateFailsMaps ==
  ASSUME IInv, NEW c \in Callers, place[c] \in {"create find", "create map"},
         Finish(c, FALSE), UNCHANGED <<dirDisk, disk, call, open>>
  PROVE  Atomic!Next
  <1>1. place[c] \in Before /\ FALSE \in BOOLEAN
    BY DEF Before, Places
  <1>2. /\ Atomic!Happen(c, call[c].op, IF FALSE THEN "true" ELSE "false")
        /\ UNCHANGED absHandle
    BY <1>1, HappensAndEnds
  <1>3. call[c].op = "Create"
    BY CallerNow DEF CreateOK, CreatePlaces
  <1>4. UNCHANGED absFiles
    BY FilesUnseen
  <1>5. Atomic!Happen(c, "Create", "false")
    BY <1>2, <1>3
  <1>6. Atomic!Create(c)
    BY <1>2, <1>4, <1>5, Zenon DEF Atomic!Create
  <1>7. QED
    BY <1>6, Zenon DEF Atomic!Next

LEMMA CreateFindMaps ==
  ASSUME IInv, NEW c \in Callers, CreateFind(c)
  PROVE  Atomic!Next \/ UNCHANGED atomicVars
  <1>1. place[c] = "create find" /\ UNCHANGED <<dirDisk, disk, call, open>>
    BY DEF CreateFind
  <1>2. CASE Finish(c, FALSE)
    BY <1>1, <1>2, CreateFailsMaps
  <1>3. CASE GoTo(c, "create map") /\ UNCHANGED result
    <2>1. place[c] \in Before /\ "create map" \in Before
      BY <1>1 DEF Before, Places
    <2>2. UNCHANGED absFiles
      BY <1>1, FilesUnseen
    <2>3. QED
      BY <1>1, <1>3, <2>1, <2>2, OnTheWay
  <1>4. QED
    BY <1>2, <1>3 DEF CreateFind

LEMMA CreateMapMaps ==
  ASSUME IInv, NEW c \in Callers, CreateMap(c)
  PROVE  Atomic!Next \/ UNCHANGED atomicVars
  <1>1. place[c] = "create map" /\ UNCHANGED <<dirDisk, disk, call, open>>
    BY DEF CreateMap
  <1>2. CASE Finish(c, FALSE)
    BY <1>1, <1>2, CreateFailsMaps
  <1>3. CASE GoTo(c, "create header") /\ UNCHANGED result
    <2>1. place[c] \in Before /\ "create header" \in Before
      BY <1>1 DEF Before, Places
    <2>2. UNCHANGED absFiles
      BY <1>1, FilesUnseen
    <2>3. QED
      BY <1>1, <1>3, <2>1, <2>2, OnTheWay
  <1>4. QED
    BY <1>2, <1>3, Zenon DEF CreateMap

LEMMA CreateHeaderMaps ==
  ASSUME IInv, IInv', NEW c \in Callers, CreateHeader(c)
  PROVE  UNCHANGED atomicVars
  <1> DEFINE s == copy[c].sector
  <1>1. /\ place[c] = "create header" /\ place[c] # "out" /\ ~ Vulnerable(c)
        /\ disk' = [disk EXCEPT ![s] = copy[c].hdr] /\ GoTo(c, "create dir")
        /\ UNCHANGED <<dirDisk, call, result, open>>
    BY DEF CreateHeader, Vulnerable
  <1>2. call[c].op = "Create" /\ NewFile(call[c], copy[c], dirDisk, mapDisk)
    BY <1>1, CallerNow DEF CreateOK, CreatePlaces
  <1>3. Changing(c)
    BY <1>1, <1>2 DEF Changing, IInv, VariablesOK
  <1>4. s \notin UsedBy(dirDisk, disk)
    <2>1. mapDisk = UsedBy(dirDisk, disk)
      BY <1>1, <1>3, BitmapNow
    <2>2. QED
      BY <1>2, <2>1 DEF NewFile, SectorsOf
  <1>5. s \in Sectors
    BY <1>2 DEF NewFile
  <1> HIDE DEF s
  <1>6. ASSUME NEW n \in Names, NEW i \in Slots, ListedAt(dirDisk, n, i)
        PROVE  \A u \in SectorsAt(dirDisk, disk, i) : disk'[u] = disk[u]
    <2>1. s \notin SectorsAt(dirDisk, disk, i)
      BY <1>4, <1>5, <1>6 DEF UsedBy, ListedAt
    <2>2. disk \in [Sectors -> Headers \cup Data] /\ dirDisk[i] # Free
      BY <1>6 DEF IInv, VariablesOK, ListedAt
    <2>3. SectorsAt(dirDisk, disk, i) \in SUBSET Sectors
      BY <2>2, FileSectors
    <2>4. QED
      BY <1>1, <2>1, <2>2, <2>3
  <1>7. \A n \in Names : Contents(dirDisk', disk', n) = Contents(dirDisk, disk, n)
    BY <1>1, <1>6, ContentsUnchanged
  <1>8. UNCHANGED absFiles
    BY <1>7, MappedVariables, MappedVariablesNext
  <1>9. place[c] \in Before /\ "create dir" \in Before
    BY <1>1 DEF Before, Places
  <1>10. QED
    BY <1>1, <1>8, <1>9, OnTheWay

LEMMA CreateDirMaps ==
  ASSUME IInv, IInv', NEW c \in Callers, CreateDir(c)
  PROVE  Atomic!Next
  <1> DEFINE s == copy[c].sector
             n == call[c].name
  <1>1. /\ place[c] = "create dir" /\ place[c] # "out"
        /\ dirDisk' = copy[c].dir /\ GoTo(c, "create bitmap")
        /\ UNCHANGED <<mapDisk, disk, call, result, open>>
    BY DEF CreateDir
  <1>2. /\ call[c].op = "Create" /\ NewFile(call[c], copy[c], dirDisk, mapDisk)
        /\ disk[s] = copy[c].hdr
    BY <1>1, CallerNow DEF CreateOK, CreatePlaces
  <1>3. /\ dirDisk \in [Slots -> Entries \cup {Free}] /\ disk \in [Sectors -> Headers \cup Data]
        /\ dirDisk' \in [Slots -> Entries \cup {Free}]
        /\ disk' \in [Sectors -> Headers \cup Data] /\ Whole(dirDisk', disk')
    BY DEF IInv, VariablesOK
  <1>4. n \in Names
    BY <1>1 DEF IInv, VariablesOK, Answered
  <1>5. NotListed(dirDisk, n) /\ Len(disk[s]) = call[c].number
    BY <1>2 DEF NewFile
  <1>6. PICK i \in Slots : dirDisk[i] = Free /\ dirDisk' = WithFile(dirDisk, i, n, s)
    BY <1>1, <1>2 DEF NewFile
  <1> HIDE DEF s, n
  <1>7. /\ dirDisk'[i] = [name |-> n, sector |-> s]
        /\ \A j \in Slots : j # i => dirDisk'[j] = dirDisk[j]
    BY <1>3, <1>6 DEF WithFile
  <1>8. ListedAt(dirDisk', n, i) /\ dirDisk'[i].sector = s
    <2>1. dirDisk'[i].name = n /\ dirDisk'[i].sector = s
      BY <1>7
    <2>2. s \in Sectors
      BY <1>2 DEF NewFile, s
    <2>3. dirDisk'[i] \in Entries
      BY <1>4, <1>7, <2>2 DEF Entries
    <2>4. QED
      BY <2>1, <2>3, FileSystemAssumption DEF ListedAt
  <1>9. absFiles[n] = NoFile
    BY <1>4, <1>5, NoContents, MappedVariables
  <1>10. absFiles'[n] # NoFile /\ Len(absFiles'[n]) = call[c].number
    <2>1. /\ Contents(dirDisk', disk', n) # NoFile
          /\ Len(Contents(dirDisk', disk', n)) = Len(disk'[dirDisk'[i].sector])
      BY <1>3, <1>8, ContentsOf
    <2>2. absFiles'[n] = Contents(dirDisk', disk', n)
      BY <1>4, MappedVariablesNext
    <2>3. disk'[dirDisk'[i].sector] = disk[s]
      BY <1>1, <1>8
    <2>4. QED
      BY <1>5, <2>1, <2>2, <2>3
  <1>11. \A m \in Names \ {n} : absFiles'[m] = absFiles[m]
    <2> TAKE m \in Names \ {n}
    <2>1. NotListed(dirDisk, m) => NotListed(dirDisk', m)
      BY <1>7 DEF NotListed
    <2>2. \A j \in Slots : ListedAt(dirDisk, m, j) =>
             /\ dirDisk'[j] = dirDisk[j]
             /\ \A u \in SectorsAt(dirDisk, disk, j) : disk'[u] = disk[u]
      BY <1>1, <1>6, <1>7 DEF ListedAt
    <2>3. Contents(dirDisk', disk', m) = Contents(dirDisk, disk, m)
      BY <2>1, <2>2, ContentsUnchanged
    <2>4. QED
      BY <2>3, MappedVariables, MappedVariablesNext
  <1>12. Atomic!Happen(c, "Create", "true")
    <2>1. absStage[c] = "called"
      BY <1>1, StageNow DEF Places
    <2>2. "create bitmap" \in Places \ {"out", "return"}
      BY DEF Places
    <2>3. absStage' = [absStage EXCEPT ![c] = "true"]
      BY <1>1, <2>2, StageOnTheWay
    <2>4. QED
      BY <1>2, <2>1, <2>3, Zenon DEF Atomic!Happen
  <1>13. UNCHANGED absHandle
    <2>1. /\ place'[c] # "open header" /\ place[c] # "open header" /\ UNCHANGED <<call, open>>
          /\ \A d \in Callers \ {c} : place'[d] = place[d]
      BY <1>1 DEF GoTo, IInv, VariablesOK
    <2>2. \A d \in Callers : HandleOf(place'[d], call'[d], open'[d])
                                = HandleOf(place[d], call[d], open[d])
      BY <2>1 DEF HandleOf
    <2>3. QED
      BY <2>2, HandlesUnseen
  <1>14. Atomic!Create(c)
    <2>1. UNCHANGED call
      BY <1>1
    <2>2. QED
      BY <1>9, <1>10, <1>11, <1>12, <1>13, <2>1, Zenon DEF Atomic!Create, n
  <1>15. QED
    BY <1>14, Zenon DEF Atomic!Next

LEMMA CreateBitmapMaps ==
  ASSUME IInv, NEW c \in Callers, CreateBitmap(c)
  PROVE  UNCHANGED atomicVars
  <1>1. /\ place[c] = "create bitmap" /\ Finish(c, TRUE)
        /\ UNCHANGED <<dirDisk, disk, call, open>>
    BY DEF CreateBitmap
  <1>2. UNCHANGED absStage
    <2>1. absStage[c] = "true"
      BY <1>1, StageNow
    <2>2. absStage' = [absStage EXCEPT ![c] = IF TRUE THEN "true" ELSE "false"]
      BY <1>1, StageAtEnd
    <2>3. QED
      BY <2>1, <2>2, MappedVariables
  <1>3. UNCHANGED absHandle
    <2>1. /\ place'[c] # "open header" /\ place[c] # "open header" /\ UNCHANGED <<call, open>>
          /\ \A d \in Callers \ {c} : place'[d] = place[d]
      BY <1>1, Finished
    <2>2. \A d \in Callers : HandleOf(place'[d], call'[d], open'[d])
                                = HandleOf(place[d], call[d], open[d])
      BY <2>1 DEF HandleOf
    <2>3. QED
      BY <2>2, HandlesUnseen
  <1>4. UNCHANGED absFiles
    BY <1>1, FilesUnseen
  <1>5. QED
    BY <1>1, <1>2, <1>3, <1>4 DEF atomicVars

LEMMA OpenFindMaps ==
  ASSUME IInv, NEW c \in Callers, OpenFind(c)
  PROVE  Atomic!Next
  <1> DEFINE n == call[c].name
             i == FindIndex(dirDisk, n)
  <1>1. /\ place[c] = "open find" /\ place[c] # "out"
        /\ UNCHANGED <<dirDisk, disk, call, open>>
    BY DEF OpenFind
  <1>2. call[c].op = "Open" /\ n \in Names
    <2>1. call[c] \in Answered
      BY <1>1 DEF IInv, VariablesOK
    <2>2. QED
      BY <1>1, <2>1, CallerNow DEF OpenOK, Answered
  <1>3. UNCHANGED absFiles /\ UNCHANGED call
    BY <1>1, FilesUnseen
  <1>4. absFiles[n] = Contents(dirDisk, disk, n)
    BY <1>2, MappedVariables
  <1>5. place[c] \in Before
    BY <1>1 DEF Before, Places
  <1>6. CASE i = 0
    <2>1. Finish(c, FALSE)
      BY <1>6 DEF OpenFind
    <2>2. /\ Atomic!Happen(c, call[c].op, IF FALSE THEN "true" ELSE "false")
          /\ UNCHANGED absHandle
      BY <1>1, <1>5, <2>1, HappensAndEnds
    <2>3. absFiles[n] = NoFile
      BY <1>4, <1>6 DEF Contents
    <2>4. Atomic!Happen(c, "Open", "false")
      BY <1>2, <2>2
    <2>5. Atomic!Open(c)
      BY <1>3, <2>2, <2>3, <2>4, Zenon DEF Atomic!Open
    <2>6. QED
      BY <2>5, Zenon DEF Atomic!Next
  <1>7. CASE i # 0
    <2>1. GoTo(c, "open header") /\ UNCHANGED result
      BY <1>7 DEF OpenFind
    <2>2. ListedAt(dirDisk, n, i) /\ i \in Slots
      BY <1>7, ListedFound DEF ListedAt
    <2> HIDE DEF n, i
    <2>3. absFiles[n] # NoFile
      <3>1. /\ dirDisk \in [Slots -> Entries \cup {Free}] /\ disk \in [Sectors -> Headers \cup Data]
            /\ Whole(dirDisk, disk)
        BY DEF IInv, VariablesOK
      <3>2. QED
        BY <1>4, <2>2, <3>1, ContentsOf
    <2>4. "open header" \in Places \ {"out", "return"}
      BY DEF Places
    <2>5. absStage' = [absStage EXCEPT ![c] = "true"]
      BY <1>1, <2>1, <2>4, StageOnTheWay
    <2>6. absStage[c] = "called"
      BY <1>5, StageNow DEF Before
    <2>7. Atomic!Happen(c, "Open", "true")
      BY <1>2, <2>5, <2>6, Zenon DEF Atomic!Happen
    <2>8. absHandle' = [absHandle EXCEPT ![c] = n]
      <3>1. place'[c] = "open header" /\ \A d \in Callers \ {c} : place'[d] = place[d]
        BY <1>1, <2>1, <2>4, WentTo
      <3>2. OthersRest(c)
        <4>1. \A d \in Callers \ {c} : copy'[d] = copy[d]
          BY DEF OpenFind, IInv, VariablesOK, Finish
        <4>2. QED
          BY <1>1, <3>1, <4>1 DEF OthersRest
      <3>3. absHandle' = [absHandle EXCEPT ![c] = HandleOf(place'[c], call'[c], open'[c])]
        BY <3>2, HandleOfOne
      <3>4. QED
        BY <1>1, <3>1, <3>3 DEF HandleOf, n
    <2>9. Atomic!Open(c)
      BY <1>3, <2>3, <2>7, <2>8, Zenon DEF Atomic!Open, n
    <2>10. QED
      BY <2>9, Zenon DEF Atomic!Next
  <1>8. QED
    BY <1>6, <1>7

LEMMA OpenHeaderMaps ==
  ASSUME IInv, IInv', NEW c \in Callers, OpenHeader(c)
  PROVE  UNCHANGED atomicVars
  <1>1. /\ place[c] = "open header" /\ Finish(c, TRUE)
        /\ UNCHANGED <<dirDisk, disk, call>>
    BY DEF OpenHeader
  <1>2. open'[c] = [name |-> call[c].name, hdr |-> disk[copy[c].sector]]
    BY DEF OpenHeader, IInv, VariablesOK
  <1>3. \A d \in Callers \ {c} : open'[d] = open[d]
    BY DEF OpenHeader, IInv, VariablesOK
  <1>4. UNCHANGED absStage
    <2>1. absStage[c] = "true"
      BY <1>1, StageNow
    <2>2. absStage' = [absStage EXCEPT ![c] = IF TRUE THEN "true" ELSE "false"]
      BY <1>1, StageAtEnd
    <2>3. QED
      BY <2>1, <2>2, MappedVariables
  <1>5. UNCHANGED absHandle
    <2>1. place'[c] = "return" /\ \A d \in Callers \ {c} : place'[d] = place[d]
      BY <1>1, Finished
    <2>2. open'[c] # NoFile /\ open'[c].name = call[c].name
      <3>1. place[c] # "out"
        BY <1>1
      <3>2. call[c] \in Answered
        BY <3>1 DEF IInv, VariablesOK
      <3>3. disk[copy[c].sector] \in Headers
        <4>1. \E i \in Slots : ListedAt(dirDisk, call[c].name, i) /\ copy[c].sector = dirDisk[i].sector
          BY <1>1, CallerNow DEF OpenOK
        <4>2. QED
          BY <4>1 DEF IInv, Whole, HeaderAt, ListedAt
      <3>4. open'[c] \in OpenFiles
        BY <1>2, <3>2, <3>3 DEF OpenFiles, Answered
      <3>5. QED
        BY <1>2, <3>4, FileSystemAssumption
    <2>3. HandleOf(place'[c], call'[c], open'[c]) = HandleOf(place[c], call[c], open[c])
      BY <1>1, <2>1, <2>2 DEF HandleOf
    <2>4. \A d \in Callers \ {c} : HandleOf(place'[d], call'[d], open'[d])
                                      = HandleOf(place[d], call[d], open[d])
      BY <1>1, <1>3, <2>1
    <2>5. QED
      BY <2>3, <2>4, HandlesUnseen
  <1>6. UNCHANGED absFiles
    BY <1>1, FilesUnseen
  <1>7. QED
    BY <1>1, <1>4, <1>5, <1>6 DEF atomicVars

LEMMA ReadAtMaps ==
  ASSUME IInv, NEW c \in Callers, ReadAt(c)
  PROVE  Atomic!Next
  <1> DEFINE i == call[c].number
             n == open[c].name
             h == open[c].hdr
  <1>1. /\ place[c] = "transfer" /\ call[c].op = "Read" /\ place[c] \in Before
        /\ UNCHANGED <<dirDisk, disk, open>>
    BY DEF ReadAt, Before, Places
  <1>2. /\ absHandle[c] = n /\ absHandle[c] # NoFile
        /\ Len(absFiles[n]) = Len(h)
        /\ \A k \in 1 .. Len(h) : absFiles[n][k] = disk[h[k]]
    BY <1>1, ContentsInUse
  <1>3. \A d \in Callers \ {c} : call'[d] = call[d]
    BY DEF ReadAt, IInv, VariablesOK
  <1>4. UNCHANGED absFiles
    BY <1>1, FilesUnseen
  <1>5. CASE i \notin 1 .. Len(h)
    <2>1. Finish(c, FALSE) /\ UNCHANGED call
      BY <1>5 DEF ReadAt
    <2>2. /\ Atomic!Happen(c, call[c].op, IF FALSE THEN "true" ELSE "false")
          /\ UNCHANGED absHandle
      BY <1>1, <1>3, <2>1, HappensAndEnds
    <2>3. i \notin 1 .. Len(absFiles[absHandle[c]])
      BY <1>2, <1>5
    <2>4. Atomic!Happen(c, "Read", "false")
      BY <1>1, <2>2
    <2>5. Atomic!Read(c)
      BY <1>4, <2>1, <2>2, <2>3, <2>4, Zenon DEF Atomic!Read
    <2>6. QED
      BY <1>2, <2>5, Zenon DEF Atomic!Next
  <1>6. CASE i \in 1 .. Len(h)
    <2>1. Finish(c, TRUE) /\ call' = [call EXCEPT ![c].data = disk[h[i]]]
      BY <1>6 DEF ReadAt
    <2>2. /\ Atomic!Happen(c, call[c].op, IF TRUE THEN "true" ELSE "false")
          /\ UNCHANGED absHandle
      BY <1>1, <1>3, <2>1, HappensAndEnds
    <2>3. i \in 1 .. Len(absFiles[absHandle[c]]) /\ absFiles[absHandle[c]][i] = disk[h[i]]
      BY <1>2, <1>6
    <2>4. Atomic!Happen(c, "Read", "true")
      BY <1>1, <2>2
    <2>5. Atomic!Read(c)
      BY <1>4, <2>1, <2>2, <2>3, <2>4, Zenon DEF Atomic!Read
    <2>6. QED
      BY <1>2, <2>5, Zenon DEF Atomic!Next
  <1>7. QED
    BY <1>5, <1>6
HeaderOf(f) == disk[dirDisk[f].sector]

SectorSet(b, v) == disk' = [disk EXCEPT ![b] = v]

FileSectorSet(n, i, v) == absFiles' = [absFiles EXCEPT ![n][i] = v]

\* the sector is written, and no other sector of this file or another
LEMMA ContentsWritten ==
  ASSUME IInv, IInv', NEW n \in Names, NEW f \in Slots, ListedAt(dirDisk, n, f),
         NEW i \in 1 .. Len(HeaderOf(f)), NEW v, SectorSet(HeaderOf(f)[i], v),
         UNCHANGED dirDisk
  PROVE  FileSectorSet(n, i, v)
  <1> DEFINE s == dirDisk[f].sector
             h == disk[s]
             b == h[i]
             m == Len(h)
  <1>0. disk' = [disk EXCEPT ![b] = v] /\ i \in 1 .. m
    BY DEF SectorSet, HeaderOf
  <1>1. /\ dirDisk \in [Slots -> Entries \cup {Free}] /\ disk \in [Sectors -> Headers \cup Data]
        /\ dirDisk' \in [Slots -> Entries \cup {Free}]
        /\ disk' \in [Sectors -> Headers \cup Data]
        /\ Whole(dirDisk, disk) /\ Whole(dirDisk', disk')
    BY DEF IInv, VariablesOK
  <1>2. dirDisk[f] # Free /\ s \in Sectors /\ HeaderAt(s, h)
    BY <1>1 DEF ListedAt, Entries, Whole
  <1>3. ListedAt(dirDisk', n, f) /\ dirDisk'[f].sector = s
    BY DEF ListedAt
  <1>4. SectorsAt(dirDisk, disk, f) = SectorsOf(s, h)
    BY DEF SectorsAt
  <1>5. Contents(dirDisk, disk, n) = FileIn(disk, s)
    BY <1>1, ContentsOf
  <1>6. Contents(dirDisk', disk', n) = FileIn(disk', s)
    BY <1>1, <1>3, ContentsOf
  <1>7. h = disk[s]
    BY DEF h
  <1> HIDE DEF s, h
  <1>8. /\ m \in 0 .. MaxSize /\ h \in [1 .. m -> Sectors]
        /\ ToSet(h) = {h[k] : k \in 1 .. m}
    BY <1>2, SectorsOfHeader
  <1>9. b \in ToSet(h) /\ b \in Sectors /\ s # b
    BY <1>0, <1>2, <1>8 DEF HeaderAt
  <1>10. b \in SectorsAt(dirDisk, disk, f)
    BY <1>4, <1>9 DEF SectorsOf
  <1>11. disk'[b] = v /\ \A u \in Sectors \ {b} : disk'[u] = disk[u]
    BY <1>0, <1>1, <1>9
  <1>12. disk'[s] = h
    BY <1>2, <1>7, <1>9, <1>11
  <1>13. \A k \in 1 .. m : disk'[h[k]] = IF k = i THEN v ELSE disk[h[k]]
    <2> TAKE k \in 1 .. m
    <2>1. k # i => h[k] # b
      BY <1>0, <1>2 DEF HeaderAt
    <2>2. h[k] \in Sectors
      BY <1>8
    <2>3. QED
      BY <1>11, <2>1, <2>2
  <1>14. Contents(dirDisk', disk', n) = [Contents(dirDisk, disk, n) EXCEPT ![i] = v]
    <2>1. FileIn(disk', s) = [k \in 1 .. m |-> disk'[h[k]]]
      BY <1>12 DEF FileIn
    <2>2. FileIn(disk, s) = [k \in 1 .. m |-> disk[h[k]]]
      BY <1>7 DEF FileIn
    <2>3. [[k \in 1 .. m |-> disk[h[k]]] EXCEPT ![i] = v]
             = [k \in 1 .. m |-> IF k = i THEN v ELSE disk[h[k]]]
      OBVIOUS
    <2>4. [k \in 1 .. m |-> disk'[h[k]]] = [k \in 1 .. m |-> IF k = i THEN v ELSE disk[h[k]]]
      BY <1>13
    <2> HIDE DEF m, b
    <2>5. QED
      BY <1>5, <1>6, <2>1, <2>2, <2>3, <2>4, Zenon
  <1> HIDE DEF b
  <1>15. \A o \in Names \ {n} : Contents(dirDisk', disk', o) = Contents(dirDisk, disk, o)
    <2> TAKE o \in Names \ {n}
    <2>1. ASSUME NEW j \in Slots, ListedAt(dirDisk, o, j)
          PROVE  \A u \in SectorsAt(dirDisk, disk, j) : disk'[u] = disk[u]
      <3>1. j # f /\ dirDisk[j] # Free
        BY <2>1 DEF ListedAt
      <3>2. SectorsAt(dirDisk, disk, j) \cap SectorsAt(dirDisk, disk, f) = {}
        BY <1>1, <1>2, <3>1 DEF Whole
      <3>3. SectorsAt(dirDisk, disk, j) \in SUBSET Sectors
        BY <3>1, FileSectors
      <3>4. QED
        BY <1>10, <1>11, <3>2, <3>3
    <2>2. QED
      BY <2>1, ContentsUnchanged
  <1>16. QED
    BY <1>14, <1>15, MappedVariables, MappedVariablesNext DEF FileSectorSet

LEMMA WriteAtMaps ==
  ASSUME IInv, IInv', NEW c \in Callers, WriteAt(c)
  PROVE  Atomic!Next
  <1> DEFINE i == call[c].number
             n == open[c].name
             h == open[c].hdr
             v == call[c].data
  <1>1. /\ place[c] = "transfer" /\ call[c].op = "Write" /\ place[c] \in Before
        /\ UNCHANGED <<dirDisk, call, open>>
    BY DEF WriteAt, Before, Places
  <1>2. /\ absHandle[c] = n /\ absHandle[c] # NoFile /\ n \in Names
        /\ Len(absFiles[n]) = Len(h)
    BY <1>1, ContentsInUse
  <1>3. CASE i \notin 1 .. Len(h)
    <2>1. Finish(c, FALSE) /\ UNCHANGED disk
      BY <1>3 DEF WriteAt
    <2>2. /\ Atomic!Happen(c, call[c].op, IF FALSE THEN "true" ELSE "false")
          /\ UNCHANGED absHandle
      BY <1>1, <2>1, HappensAndEnds
    <2>3. i \notin 1 .. Len(absFiles[absHandle[c]])
      BY <1>2, <1>3
    <2>4. Atomic!Happen(c, "Write", "false")
      BY <1>1, <2>2
    <2>5. UNCHANGED absFiles
      BY <1>1, <2>1, FilesUnseen
    <2>6. Atomic!Write(c)
      BY <1>1, <2>2, <2>3, <2>4, <2>5, Zenon DEF Atomic!Write
    <2>7. QED
      BY <1>2, <2>6, Zenon DEF Atomic!Next
  <1>4. CASE i \in 1 .. Len(h)
    <2>1. Finish(c, TRUE) /\ disk' = [disk EXCEPT ![h[i]] = v]
      BY <1>4 DEF WriteAt
    <2>2. /\ Atomic!Happen(c, call[c].op, IF TRUE THEN "true" ELSE "false")
          /\ UNCHANGED absHandle
      BY <1>1, <2>1, HappensAndEnds
    <2>3. i \in 1 .. Len(absFiles[absHandle[c]])
      BY <1>2, <1>4
    <2>4. Atomic!Happen(c, "Write", "true")
      BY <1>1, <2>2
    <2>5. PICK f \in Slots : ListedAt(dirDisk, n, f) /\ h = disk[dirDisk[f].sector]
      BY <1>1, FileInUse
    <2>6. FileSectorSet(n, i, v)
      <3>1. UNCHANGED dirDisk /\ h = HeaderOf(f)
        BY <1>1, <2>5 DEF HeaderOf
      <3>2. i \in 1 .. Len(HeaderOf(f)) /\ SectorSet(HeaderOf(f)[i], v)
        BY <1>4, <2>1, <3>1 DEF SectorSet
      <3> HIDE DEF n, h, i, v
      <3>3. QED
        BY <1>2, <2>5, <3>1, <3>2, ContentsWritten
    <2>7. absFiles' = [absFiles EXCEPT ![absHandle[c]][i] = v]
      BY <1>2, <2>6 DEF FileSectorSet
    <2>8. Atomic!Write(c)
      BY <1>1, <2>2, <2>3, <2>4, <2>7, Zenon DEF Atomic!Write
    <2>9. QED
      BY <1>2, <2>8, Zenon DEF Atomic!Next
  <1>5. QED
    BY <1>3, <1>4

LEMMA CloseMaps ==
  ASSUME IInv, NEW c \in Callers, Close(c)
  PROVE  Atomic!Next
  <1>1. /\ place[c] = "transfer" /\ call[c].op = "Close" /\ Finish(c, TRUE)
        /\ UNCHANGED <<dirDisk, disk, call>>
    BY DEF Close
  <1>2. open'[c] = NoFile /\ \A d \in Callers \ {c} : open'[d] = open[d]
    BY DEF Close, IInv, VariablesOK
  <1>3. /\ place'[c] = "return"
        /\ \A d \in Callers \ {c} : place'[d] = place[d] /\ copy'[d] = copy[d]
    BY <1>1, Finished
  <1>4. absHandle' = [absHandle EXCEPT ![c] = NoFile]
    <2>1. OthersRest(c)
      BY <1>1, <1>2, <1>3 DEF OthersRest
    <2>2. absHandle' = [absHandle EXCEPT ![c] = HandleOf(place'[c], call'[c], open'[c])]
      BY <2>1, HandleOfOne
    <2>3. QED
      BY <1>2, <1>3, <2>2 DEF HandleOf
  <1>5. Atomic!Happen(c, "Close", "true")
    <2>1. absStage[c] = "called"
      BY <1>1, StageNow DEF Places
    <2>2. absStage' = [absStage EXCEPT ![c] = IF TRUE THEN "true" ELSE "false"]
      BY <1>1, StageAtEnd
    <2>3. absStage' = [absStage EXCEPT ![c] = "true"]
      BY <2>2
    <2>4. QED
      BY <1>1, <2>1, <2>3, Zenon DEF Atomic!Happen
  <1>6. UNCHANGED absFiles /\ UNCHANGED call
    BY <1>1, FilesUnseen
  <1>7. Atomic!Close(c)
    BY <1>4, <1>5, <1>6, Zenon DEF Atomic!Close
  <1>8. QED
    BY <1>7, Zenon DEF Atomic!Next

LEMMA RemoveFindMaps ==
  ASSUME IInv, NEW c \in Callers, RemoveFind(c)
  PROVE  Atomic!Next \/ UNCHANGED atomicVars
  <1> DEFINE n == call[c].name
  <1>1. /\ place[c] = "remove find" /\ place[c] # "out" /\ place[c] \in Before
        /\ UNCHANGED <<dirDisk, disk, call, open>>
    BY DEF RemoveFind, Before, Places
  <1>2. call[c].op = "Remove" /\ n \in Names
    <2>1. call[c] \in Answered
      BY <1>1 DEF IInv, VariablesOK
    <2>2. QED
      BY <1>1, <2>1, CallerNow DEF RemoveOK, RemovePlaces, Answered
  <1>3. UNCHANGED absFiles /\ UNCHANGED call
    BY <1>1, FilesUnseen
  <1>4. CASE FindIndex(dirDisk, n) = 0
    <2>1. Finish(c, FALSE)
      BY <1>4 DEF RemoveFind
    <2>2. /\ Atomic!Happen(c, call[c].op, IF FALSE THEN "true" ELSE "false")
          /\ UNCHANGED absHandle
      BY <1>1, <2>1, HappensAndEnds
    <2>3. absFiles[n] = NoFile
      BY <1>2, <1>4, MappedVariables DEF Contents
    <2>4. Atomic!Happen(c, "Remove", "false")
      BY <1>2, <2>2
    <2>5. Atomic!Remove(c)
      BY <1>3, <2>2, <2>3, <2>4, Zenon DEF Atomic!Remove
    <2>6. QED
      BY <2>5, Zenon DEF Atomic!Next
  <1>5. CASE FindIndex(dirDisk, n) # 0
    <2>1. GoTo(c, "remove header") /\ UNCHANGED result
      BY <1>5 DEF RemoveFind
    <2>2. "remove header" \in Before
      BY DEF Before, Places
    <2>3. QED
      BY <1>1, <1>3, <2>1, <2>2, OnTheWay
  <1>6. QED
    BY <1>4, <1>5

LEMMA RemoveHeaderMaps ==
  ASSUME IInv, NEW c \in Callers, RemoveHeader(c)
  PROVE  UNCHANGED atomicVars
  <1>1. /\ place[c] \in Before /\ GoTo(c, "remove map")
        /\ UNCHANGED <<dirDisk, disk, call, result, open>>
    BY DEF RemoveHeader, Before, Places
  <1>2. "remove map" \in Before
    BY DEF Before, Places
  <1>3. QED
    BY <1>1, <1>2, FilesUnseen, OnTheWay

LEMMA RemoveMapMaps ==
  ASSUME IInv, NEW c \in Callers, RemoveMap(c)
  PROVE  UNCHANGED atomicVars
  <1>1. /\ place[c] \in Before /\ GoTo(c, "remove bitmap")
        /\ UNCHANGED <<dirDisk, disk, call, result, open>>
    BY DEF RemoveMap, Before, Places
  <1>2. "remove bitmap" \in Before
    BY DEF Before, Places
  <1>3. QED
    BY <1>1, <1>2, FilesUnseen, OnTheWay

LEMMA RemoveBitmapMaps ==
  ASSUME IInv, NEW c \in Callers, RemoveBitmap(c)
  PROVE  UNCHANGED atomicVars
  <1>1. /\ place[c] \in Before /\ GoTo(c, "remove dir")
        /\ UNCHANGED <<dirDisk, disk, call, result, open>>
    BY DEF RemoveBitmap, Before, Places
  <1>2. "remove dir" \in Before
    BY DEF Before, Places
  <1>3. QED
    BY <1>1, <1>2, FilesUnseen, OnTheWay

LEMMA RemoveDirMaps ==
  ASSUME IInv, IInv', NEW c \in Callers, RemoveDir(c)
  PROVE  Atomic!Next
  <1> DEFINE n == call[c].name
  <1>1. /\ place[c] = "remove dir" /\ place[c] # "out" /\ place[c] \in Before
        /\ dirDisk' = copy[c].dir /\ Finish(c, TRUE)
        /\ UNCHANGED <<disk, call, open>>
    BY DEF RemoveDir, Before, Places
  <1>2. /\ dirDisk \in [Slots -> Entries \cup {Free}] /\ disk \in [Sectors -> Headers \cup Data]
        /\ Whole(dirDisk, disk)
    BY DEF IInv, VariablesOK
  <1>3. call[c].op = "Remove" /\ n \in Names
    <2>1. call[c] \in Answered
      BY <1>1 DEF IInv, VariablesOK
    <2>2. QED
      BY <1>1, <2>1, CallerNow DEF RemoveOK, RemovePlaces, Answered
  <1>4. PICK i \in Slots : ListedAt(dirDisk, n, i) /\ dirDisk' = WithoutFile(dirDisk, i)
    BY <1>1, CallerNow DEF RemoveOK
  <1> HIDE DEF n
  <1>5. dirDisk'[i] = Free /\ \A j \in Slots : j # i => dirDisk'[j] = dirDisk[j]
    BY <1>2, <1>4 DEF WithoutFile
  <1>6. absFiles[n] # NoFile
    BY <1>2, <1>3, <1>4, ContentsOf, MappedVariables
  <1>7. absFiles'[n] = NoFile
    <2>1. \A j \in Slots : j # i /\ dirDisk[j] # Free => dirDisk[j].name # n
      BY <1>2, <1>4 DEF Whole, ListedAt
    <2>2. NotListed(dirDisk', n)
      BY <1>5, <2>1 DEF NotListed
    <2>3. Contents(dirDisk', disk', n) = NoFile
      BY <2>2, NoContents
    <2>4. QED
      BY <1>3, <2>3, MappedVariablesNext
  <1>8. \A m \in Names \ {n} : absFiles'[m] = absFiles[m]
    <2> TAKE m \in Names \ {n}
    <2>1. NotListed(dirDisk, m) => NotListed(dirDisk', m)
      BY <1>5 DEF NotListed
    <2>2. \A j \in Slots : ListedAt(dirDisk, m, j) =>
             /\ dirDisk'[j] = dirDisk[j]
             /\ \A u \in SectorsAt(dirDisk, disk, j) : disk'[u] = disk[u]
      BY <1>1, <1>4, <1>5 DEF ListedAt
    <2>3. Contents(dirDisk', disk', m) = Contents(dirDisk, disk, m)
      BY <2>1, <2>2, ContentsUnchanged
    <2>4. QED
      BY <2>3, MappedVariables, MappedVariablesNext
  <1>9. absFiles' = [absFiles EXCEPT ![n] = NoFile]
    BY <1>7, <1>8, MappedVariables, MappedVariablesNext
  <1>10. /\ Atomic!Happen(c, call[c].op, IF TRUE THEN "true" ELSE "false")
         /\ UNCHANGED absHandle
    BY <1>1, HappensAndEnds
  <1>11. Atomic!Happen(c, "Remove", "true")
    BY <1>3, <1>10
  <1>12. Atomic!Remove(c)
    <2>1. UNCHANGED call
      BY <1>1
    <2>2. QED
      BY <1>6, <1>9, <1>10, <1>11, <2>1, Zenon DEF Atomic!Remove, n
  <1>13. QED
    BY <1>12, Zenon DEF Atomic!Next

LEMMA CrashMaps ==
  ASSUME Crash
  PROVE  Atomic!Next
  <1>1. /\ call' = [c \in Callers |-> NoCall] /\ UNCHANGED <<dirDisk, disk>>
        /\ \A c \in Callers : place'[c] = "out" /\ open'[c] = NoFile
    BY DEF Crash
  <1>2. UNCHANGED absFiles
    BY <1>1, FilesUnseen
  <1>3. absStage' = [c \in Callers |-> "idle"]
    BY <1>1, MappedVariablesNext DEF StageOf
  <1>4. absHandle' = [c \in Callers |-> NoFile]
    BY <1>1, MappedVariablesNext DEF HandleOf
  <1>5. Atomic!Crash
    BY <1>1, <1>2, <1>3, <1>4, Zenon DEF Atomic!Crash
  <1>6. QED
    BY <1>5, Zenon DEF Atomic!Next

LEMMA InitMaps == Init => Atomic!Init
  <1> SUFFICES ASSUME Init PROVE Atomic!Init
    OBVIOUS
  <1>1. /\ dirDisk = [i \in Slots |-> Free] /\ call = [c \in Callers |-> NoCall]
        /\ \A c \in Callers : place[c] = "out" /\ open[c] = NoFile
    BY DEF Init, Slots
  <1>2. \A n : NotListed(dirDisk, n)
    BY <1>1 DEF NotListed
  <1>3. absFiles = [n \in Names |-> NoFile]
    BY <1>2, NoContents, MappedVariables
  <1>4. absStage = [c \in Callers |-> "idle"]
    BY <1>1, MappedVariables DEF StageOf
  <1>5. absHandle = [c \in Callers |-> NoFile]
    BY <1>1, MappedVariables DEF HandleOf
  <1>6. QED
    BY <1>1, <1>3, <1>4, <1>5, Zenon DEF Atomic!Init

LEMMA StepMaps == IInv /\ [Next]_vars => [Atomic!Next]_atomicVars
  <1> SUFFICES ASSUME IInv, [Next]_vars PROVE Atomic!Next \/ UNCHANGED atomicVars
    OBVIOUS
  <1>1. IInv'
    BY NextInv
  <1>2. ASSUME NEW c \in Callers, Start(c) \/ Return(c) \/ Close(c)
        PROVE  Atomic!Next
    BY <1>2, StartMaps, ReturnMaps, CloseMaps
  <1>3. ASSUME NEW c \in Callers, OpenFind(c) \/ ReadAt(c)
        PROVE  Atomic!Next
    BY <1>3, OpenFindMaps, ReadAtMaps
  <1>4. ASSUME NEW c \in Callers, WriteAt(c) \/ CreateDir(c) \/ RemoveDir(c)
        PROVE  Atomic!Next
    BY <1>1, <1>4, WriteAtMaps, CreateDirMaps, RemoveDirMaps
  <1>5. ASSUME NEW c \in Callers, CreateFind(c) \/ CreateMap(c) \/ RemoveFind(c)
        PROVE  Atomic!Next \/ UNCHANGED atomicVars
    BY <1>5, CreateFindMaps, CreateMapMaps, RemoveFindMaps
  <1>6. ASSUME NEW c \in Callers, CreateHeader(c) \/ OpenHeader(c)
        PROVE  UNCHANGED atomicVars
    BY <1>1, <1>6, CreateHeaderMaps, OpenHeaderMaps
  <1>7. ASSUME NEW c \in Callers, CreateBitmap(c) \/ RemoveHeader(c)
        PROVE  UNCHANGED atomicVars
    BY <1>7, CreateBitmapMaps, RemoveHeaderMaps
  <1>8. ASSUME NEW c \in Callers, RemoveMap(c) \/ RemoveBitmap(c)
        PROVE  UNCHANGED atomicVars
    BY <1>8, RemoveMapMaps, RemoveBitmapMaps
  <1>9. CASE Crash
    BY <1>9, CrashMaps
  <1>10. CASE UNCHANGED vars
    <2>1. UNCHANGED <<dirDisk, disk, call, place, result, open>>
      BY <1>10 DEF vars
    <2>2. UNCHANGED <<absFiles, absStage, absHandle>>
      BY <2>1, MappedVariables, MappedVariablesNext
    <2>3. QED
      BY <2>1, <2>2 DEF atomicVars
  <1>11. QED
    BY <1>2, <1>3, <1>4, <1>5, <1>6, <1>7, <1>8, <1>9, <1>10 DEF Next

\* Every call happens at one moment between its start and its return: a Create or a
\* Remove when the directory is written, an Open when it is read, a transfer when the
\* sector is.  A call that fails changes nothing, and a stop of the machine, but for
\* one between the writes of the directory and the bitmap, leaves the files as if each
\* call had happened or not (filesys.cc, openfile.cc).
THEOREM FilesAreAtomic == Spec => ImplementsAtomicFileSystem
  <1>1. Init => IInv /\ Atomic!Init
    BY InitInv, InitMaps
  <1>2. IInv /\ [Next]_vars => IInv' /\ [Atomic!Next]_atomicVars
    BY NextInv, StepMaps
  <1>3. QED
    BY <1>1, <1>2, PTL DEF Spec, ImplementsAtomicFileSystem, Atomic!Spec, atomicVars
=============================================================================
