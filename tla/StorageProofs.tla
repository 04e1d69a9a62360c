---------------------------- MODULE StorageProofs ----------------------------
(***************************************************************************)
(* Memory and files: what the bitmaps of frames and of sectors give out.   *)
(*                                                                         *)
(* Memory.  The frames that the bitmap has marked are owned under every    *)
(* replacement policy, and pages keep their frames and their data under    *)
(* the one that replaces nothing, for every number of address spaces,      *)
(* pages and frames.  In the older kernel the first fit gives no frame     *)
(* twice and forgets none.  The bytes of a program arrive where it was     *)
(* linked, for files of any sections and pages of any size.                *)
(*                                                                         *)
(* Files.  A header finds each sector that Allocate took for it, and no    *)
(* other file's; the reads and writes of an open file keep its bytes; and  *)
(* what is printed is what was copied, for tiers and sectors of any size.  *)
(***************************************************************************)
EXTENDS Memory, FileCommands, SequenceTheorems, FiniteSetTheorems,
        NaturalsInduction, WellFoundedInduction, TLAPS

LEMMA DivMod ==
  ASSUME NEW a \in Int, NEW b \in Nat \ {0}
  PROVE  /\ a \div b \in Int /\ a % b \in 0..(b - 1) /\ b * (a \div b) \in Int
         /\ a = b * (a \div b) + (a % b)
  <1>1. a \div b \in Int /\ a % b \in 0..(b - 1)
    OBVIOUS
  <1>2. a % b = a - b * (a \div b)
    BY SMTT(30)
  <1>3. b * (a \div b) \in Int
    BY <1>1
  <1> DEFINE p == b * (a \div b)
  <1>4. a = p + (a % b)
    <2> HIDE DEF p
    <2>1. p \in Int /\ a % b = a - p /\ a % b \in Int
      BY <1>1, <1>2, <1>3 DEF p
    <2>2. QED
      BY <2>1
  <1>5. QED
    BY <1>1, <1>3, <1>4

LEMMA DivModUnique ==
  ASSUME NEW q \in Int, NEW b \in Nat \ {0}, NEW r \in 0..(b - 1)
  PROVE  (b * q + r) \div b = q /\ (b * q + r) % b = r
  OBVIOUS

-----------------------------------------------------------------------------
FrameEntries == [space : Spaces, virtPageNum : Pages]

TablesTyped ==
    /\ pageRepChoice \in Policies
    /\ live \subseteq Spaces
    /\ pageTable \in [Spaces -> [Pages -> Frames \cup {NoFrame}]]
    /\ myPageList \in [Spaces -> SUBSET Frames]
    /\ memMap \subseteq Frames
    /\ coreMap \in [Frames -> FrameEntries \cup {NoEntry}]

\* the core map has an entry for each marked frame
MarkedFramesMapped == \A f \in memMap : coreMap[f] \in FrameEntries

IInv == TablesTyped /\ MarkedFramesMapped /\ MarkedFramesOwned

\* At boot no frame is marked.
LEMMA InitOwned == Init => IInv
  BY DEF Init, IInv, TablesTyped, MarkedFramesMapped, MarkedFramesOwned

\* The frame f is marked and loaded with an invalid page of a live space, and
\* no other frame's page has become invalid: every marked frame has its owner.
LEMMA LoadOwned ==
  ASSUME IInv, NEW s \in live, NEW p \in Pages, NEW f \in Frames,
         NEW tables \in [Spaces -> [Pages -> Frames \cup {NoFrame}]],
         Load(s, p, f, tables),
         memMap' = memMap \cup {f},
         tables[s][p] = NoFrame,
         \A g \in memMap \ {f} :
             tables[coreMap[g].space][coreMap[g].virtPageNum] = g
  PROVE  IInv'
  <1>1. s \in Spaces
    BY DEF IInv, TablesTyped
  <1>2. /\ live' = live
        /\ coreMap' = [coreMap EXCEPT ![f] = [space |-> s, virtPageNum |-> p]]
        /\ myPageList' = [myPageList EXCEPT ![s] = @ \cup {f}]
        /\ pageTable' = [tables EXCEPT ![s][p] = f]
    BY DEF Load
  <1>3. TablesTyped'
    BY <1>1, <1>2 DEF IInv, TablesTyped, FrameEntries, Load
  <1>4. ASSUME NEW g \in memMap'
        PROVE  /\ coreMap'[g] \in FrameEntries
               /\ coreMap'[g].space \in live'
               /\ g \in myPageList'[coreMap'[g].space]
               /\ pageTable'[coreMap'[g].space][coreMap'[g].virtPageNum] = g
    <2>1. CASE g = f
      BY <1>1, <1>2, <2>1 DEF IInv, TablesTyped, FrameEntries
    <2>2. CASE g # f
      <3>1. g \in memMap /\ g \in Frames /\ g # NoFrame
        BY <2>2, PagingAssumption DEF IInv, TablesTyped, Frames
      <3>2. /\ coreMap'[g] = coreMap[g]
            /\ coreMap[g] \in FrameEntries
            /\ coreMap[g].space \in live
            /\ g \in myPageList[coreMap[g].space]
            /\ tables[coreMap[g].space][coreMap[g].virtPageNum] = g
        BY <1>2, <2>2, <3>1
           DEF IInv, TablesTyped, MarkedFramesMapped, MarkedFramesOwned
      <3>3. PICK o \in Spaces, v \in Pages :
               coreMap[g].space = o /\ coreMap[g].virtPageNum = v
        BY <3>2 DEF FrameEntries
      <3>4. ~ (o = s /\ v = p)
        BY <3>1, <3>2, <3>3
      <3>5. pageTable'[o][v] = g
        BY <1>1, <1>2, <3>2, <3>3, <3>4
      <3>6. g \in myPageList'[o]
        BY <1>1, <1>2, <3>2, <3>3 DEF IInv, TablesTyped
      <3>7. QED
        BY <1>2, <3>2, <3>3, <3>5, <3>6
    <2>3. QED
      BY <2>1, <2>2
  <1>5. QED
    BY <1>3, <1>4 DEF IInv, MarkedFramesMapped, MarkedFramesOwned

\* Every step keeps the owners.
LEMMA NextOwned == IInv /\ [Next]_vars => IInv'
  <1>. SUFFICES ASSUME IInv, [Next]_vars
                PROVE  IInv'
    OBVIOUS
  <1>1. ASSUME NEW s \in Spaces, Create(s)
        PROVE  IInv'
    BY <1>1 DEF Create, IInv, TablesTyped, MarkedFramesMapped, MarkedFramesOwned
  <1>2. ASSUME NEW s \in Spaces, NEW p \in Pages, PageIn(s, p)
        PROVE  IInv'
    <2>1. PICK f \in Frames : /\ memMap' = memMap \cup {f}
                              /\ Load(s, p, f, pageTable)
      BY <1>2 DEF PageIn
    <2>2. s \in live /\ pageTable[s][p] = NoFrame
      BY <1>2 DEF PageIn
    <2>3. /\ pageTable \in [Spaces -> [Pages -> Frames \cup {NoFrame}]]
          /\ \A g \in memMap \ {f} :
                pageTable[coreMap[g].space][coreMap[g].virtPageNum] = g
      BY DEF IInv, TablesTyped, MarkedFramesOwned
    <2>4. QED
      BY <2>1, <2>2, <2>3, LoadOwned
  <1>3. ASSUME NEW s \in Spaces, NEW p \in Pages, PageReplace(s, p)
        PROVE  IInv'
    <2>1. s \in live /\ pageTable[s][p] = NoFrame /\ memMap = Frames
      BY <1>3 DEF PageReplace
    <2>2. PICK f \in Frames :
             Load(s, p, f, [pageTable EXCEPT
                               ![coreMap[f].space][coreMap[f].virtPageNum] = NoFrame])
      BY <1>3 DEF PageReplace
    <2>3. memMap' = memMap \cup {f}
      BY <1>3, <2>1 DEF PageReplace
    <2>4. PICK o \in Spaces, v \in Pages :
             /\ coreMap[f] = [space |-> o, virtPageNum |-> v]
             /\ pageTable[o][v] = f
      BY <2>1 DEF IInv, TablesTyped, MarkedFramesMapped, MarkedFramesOwned, FrameEntries
    <2>. DEFINE tables == [pageTable EXCEPT ![o][v] = NoFrame]
    <2>5. Load(s, p, f, tables)
      BY <2>2, <2>4
    <2>6. /\ tables \in [Spaces -> [Pages -> Frames \cup {NoFrame}]]
          /\ tables[s][p] = NoFrame
      BY <2>1, <2>4 DEF IInv, TablesTyped
    <2>7. ASSUME NEW g \in memMap \ {f}
          PROVE  tables[coreMap[g].space][coreMap[g].virtPageNum] = g
      <3>1. PICK o2 \in Spaces, v2 \in Pages :
               /\ coreMap[g] = [space |-> o2, virtPageNum |-> v2]
               /\ pageTable[o2][v2] = g
        BY DEF IInv, TablesTyped, MarkedFramesMapped, MarkedFramesOwned, FrameEntries
      <3>2. ~ (o2 = o /\ v2 = v)
        BY <2>4, <3>1
      <3>3. tables[o2][v2] = g
        BY <3>1, <3>2 DEF IInv, TablesTyped
      <3>4. QED
        BY <3>1, <3>3
    <2>. HIDE DEF tables
    <2>8. QED
      BY <2>1, <2>3, <2>5, <2>6, <2>7, LoadOwned
  <1>4. ASSUME NEW s \in Spaces, NEW p \in Pages, PageHalt(s, p)
        PROVE  IInv'
    BY <1>4 DEF PageHalt, IInv, TablesTyped, MarkedFramesMapped, MarkedFramesOwned
  <1>5. ASSUME NEW s \in Spaces, NEW p \in Pages, WriteMem(s, p)
        PROVE  IInv'
    BY <1>5 DEF WriteMem, IInv, TablesTyped, MarkedFramesMapped, MarkedFramesOwned
  <1>6. ASSUME NEW s \in Spaces, Exit(s)
        PROVE  IInv'
    <2>1. TablesTyped'
      BY <1>6 DEF Exit, IInv, TablesTyped
    <2>2. ASSUME NEW g \in memMap'
          PROVE  /\ coreMap'[g] \in FrameEntries
                 /\ coreMap'[g].space \in live'
                 /\ g \in myPageList'[coreMap'[g].space]
                 /\ pageTable'[coreMap'[g].space][coreMap'[g].virtPageNum] = g
      <3>1. /\ g \in memMap /\ g \notin myPageList[s]
            /\ coreMap' = coreMap
        BY <1>6 DEF Exit
      <3>2. PICK o \in Spaces, v \in Pages :
               /\ coreMap[g] = [space |-> o, virtPageNum |-> v]
               /\ o \in live
               /\ g \in myPageList[o]
               /\ pageTable[o][v] = g
        BY <3>1 DEF IInv, TablesTyped, MarkedFramesMapped, MarkedFramesOwned, FrameEntries
      <3>3. o # s
        BY <3>1, <3>2
      <3>4. o \in live' /\ g \in myPageList'[o] /\ pageTable'[o][v] = g
        BY <1>6, <3>2, <3>3 DEF Exit, IInv, TablesTyped
      <3>5. QED
        BY <3>1, <3>2, <3>4 DEF FrameEntries
    <2>3. QED
      BY <2>1, <2>2 DEF IInv, MarkedFramesMapped, MarkedFramesOwned
  <1>7. CASE UNCHANGED vars
    BY <1>7 DEF vars, IInv, TablesTyped, MarkedFramesMapped, MarkedFramesOwned
  <1>8. QED
    BY <1>1, <1>2, <1>3, <1>4, <1>5, <1>6, <1>7 DEF Next

\* A marked frame belongs to a live address space that lists it and maps it, so
\* page replacement follows no pointer to a deleted one (addrspace.cc:147).
THEOREM FramesOwned == Spec => []MarkedFramesOwned
  <1>1. IInv => MarkedFramesOwned
    BY DEF IInv
  <1>2. QED
    BY InitOwned, NextOwned, <1>1, PTL DEF Spec

-----------------------------------------------------------------------------
(* The order in which the frames were loaded.                              *)

\* A frame that is loaded again moves to the end.
LEMMA AgeRenewed ==
  ASSUME NEW S, NEW s \in Seq(S), IsInjective(s), NEW e \in S
  PROVE  /\ Append(RemoveFirst(s, e), e) \in Seq(S)
         /\ IsInjective(Append(RemoveFirst(s, e), e))
  <1>0. Len(s) \in Nat /\ DOMAIN s = 1 .. Len(s)
    OBVIOUS
  <1>1. ASSUME NEW r \in Seq(S), IsInjective(r), \A j \in DOMAIN r : r[j] # e
        PROVE  Append(r, e) \in Seq(S) /\ IsInjective(Append(r, e))
    <2>1. /\ Append(r, e) \in Seq(S)
          /\ DOMAIN r = 1 .. Len(r)
          /\ DOMAIN Append(r, e) = 1 .. Len(r) + 1
          /\ Len(r) \in Nat
          /\ \A j \in 1 .. Len(r) : Append(r, e)[j] = r[j]
          /\ Append(r, e)[Len(r) + 1] = e
      OBVIOUS
    <2>2. QED
      BY <1>1, <2>1 DEF IsInjective
  <1>2. CASE ~ \E i \in 1 .. Len(s) : s[i] = e
    <2>1. RemoveFirst(s, e) = s
      BY <1>2, Zenon DEF RemoveFirst
    <2>2. QED
      BY <1>0, <1>1, <1>2, <2>1
  <1>3. ASSUME NEW i \in 1 .. Len(s), s[i] = e
        PROVE  /\ Append(RemoveFirst(s, e), e) \in Seq(S)
               /\ IsInjective(Append(RemoveFirst(s, e), e))
    <2>1. {j \in 1 .. Len(s) : s[j] = e} = {i}
      BY <1>0, <1>3 DEF IsInjective
    <2>2. Min({i}) = i
      BY <1>0 DEF Min
    <2>3. SelectInSeq(s, LAMBDA v : v = e) = i
      BY <2>1, <2>2, Zenon DEF SelectInSeq
    <2> DEFINE a == SubSeq(s, 1, i - 1)
               b == SubSeq(s, i + 1, Len(s))
    <2>4. RemoveFirst(s, e) = a \o b
      BY <1>3, <2>3, Zenon DEF RemoveFirst, RemoveAt
    <2>5. /\ a \in Seq(S) /\ Len(a) = i - 1 /\ \A j \in 1 .. i - 1 : a[j] = s[j]
          /\ b \in Seq(S) /\ Len(b) = Len(s) - i
          /\ \A j \in 1 .. Len(s) - i : b[j] = s[i + j]
      <3>1. /\ \A j \in 1 .. i - 1 : s[j] \in S
            /\ \A j \in i + 1 .. Len(s) : s[j] \in S
        BY <1>0
      <3>2. /\ a \in Seq(S) /\ Len(a) = i - 1
            /\ \A j \in 1 .. i - 1 : a[j] = s[j]
        <4>1. /\ a \in Seq(S)
              /\ Len(a) = IF 1 <= i - 1 THEN (i - 1) - 1 + 1 ELSE 0
              /\ \A j \in 1 .. (i - 1) - 1 + 1 : a[j] = s[1 + j - 1]
          BY <3>1, SubSeqProperties
        <4> HIDE DEF a
        <4>2. QED
          BY <4>1
      <3>3. /\ b \in Seq(S) /\ Len(b) = Len(s) - i
            /\ \A j \in 1 .. Len(s) - i : b[j] = s[i + j]
        <4>1. /\ b \in Seq(S)
              /\ Len(b) = IF i + 1 <= Len(s) THEN Len(s) - (i + 1) + 1 ELSE 0
              /\ \A j \in 1 .. Len(s) - (i + 1) + 1 : b[j] = s[(i + 1) + j - 1]
          BY <1>0, <3>1, SubSeqProperties
        <4> HIDE DEF b
        <4>2. Len(s) - (i + 1) + 1 = Len(s) - i
          BY <1>0
        <4>3. ASSUME NEW j \in 1 .. Len(s) - i PROVE b[j] = s[i + j]
          <5>1. (i + 1) + j - 1 = i + j
            BY <1>0
          <5>2. QED
            BY <4>1, <4>2, <5>1
        <4>4. Len(b) = Len(s) - i
          <5>1. CASE i + 1 <= Len(s)
            BY <4>1, <4>2, <5>1
          <5>2. CASE ~ (i + 1 <= Len(s))
            <6>0. \A n \in Nat, k \in Int : k <= n /\ ~ (k + 1 <= n) => n - k = 0
              OBVIOUS
            <6>1. i \in Int /\ i <= Len(s)
              BY <1>0
            <6>2. Len(s) - i = 0
              BY <1>0, <5>2, <6>0, <6>1
            <6>3. QED
              BY <4>1, <5>2, <6>2
          <5>3. QED
            BY <5>1, <5>2
        <4>5. QED
          BY <4>1, <4>3, <4>4
      <3>4. QED
        BY <3>2, <3>3
    <2> HIDE DEF a, b
    <2> DEFINE r == a \o b
    <2>6. /\ r \in Seq(S) /\ DOMAIN r = 1 .. Len(s) - 1
          /\ \A j \in 1 .. Len(s) - 1 : r[j] = IF j < i THEN s[j] ELSE s[j + 1]
      <3>1. /\ r \in Seq(S) /\ Len(r) = (i - 1) + (Len(s) - i)
            /\ \A j \in 1 .. (i - 1) + (Len(s) - i) :
                  r[j] = IF j <= i - 1 THEN a[j] ELSE b[j - (i - 1)]
        <4>1. /\ r \in Seq(S) /\ Len(r) = Len(a) + Len(b)
              /\ \A j \in 1 .. Len(a) + Len(b) :
                    r[j] = IF j <= Len(a) THEN a[j] ELSE b[j - Len(a)]
          BY <2>5, ConcatProperties
        <4>2. QED
          BY <2>5, <4>1
      <3> HIDE DEF r
      <3>2. Len(r) = Len(s) - 1 /\ DOMAIN r = 1 .. Len(s) - 1
        BY <1>0, <3>1
      <3>3. ASSUME NEW j \in 1 .. Len(s) - 1, j < i
            PROVE  r[j] = s[j]
        <4>1. j \in 1 .. i - 1 /\ j \in 1 .. (i - 1) + (Len(s) - i)
          BY <1>0, <3>3
        <4>2. QED
          BY <2>5, <3>1, <4>1
      <3>4. ASSUME NEW j \in 1 .. Len(s) - 1, ~ (j < i)
            PROVE  r[j] = s[j + 1]
        <4>1. j - (i - 1) \in 1 .. Len(s) - i /\ r[j] = b[j - (i - 1)]
          BY <1>0, <3>1, <3>4
        <4>2. i + (j - (i - 1)) = j + 1
          BY <1>0
        <4>3. QED
          BY <2>5, <4>1, <4>2
      <3>5. QED
        BY <3>1, <3>2, <3>3, <3>4
    <2> HIDE DEF r
    <2>7. IsInjective(r) /\ \A j \in DOMAIN r : r[j] # e
      <3> DEFINE from(j) == IF j < i THEN j ELSE j + 1
      <3>1. \A j \in DOMAIN r : from(j) \in DOMAIN s /\ from(j) # i /\ r[j] = s[from(j)]
        BY <1>0, <2>6
      <3>2. \A j, k \in DOMAIN r : from(j) = from(k) => j = k
        BY <1>0, <2>6
      <3> HIDE DEF from
      <3>3. QED
        BY <1>0, <1>3, <3>1, <3>2 DEF IsInjective
    <2>8. QED
      BY <1>1, <2>4, <2>6, <2>7 DEF r
  <1>4. QED
    BY <1>2, <1>3

-----------------------------------------------------------------------------
(* The tables keep their shape, and nothing is lost without replacement.   *)

\* An address space that does not exist has no page in memory.  Without
\* replacement the list of frames of an address space is what the core map says.
DemandInv ==
    /\ \A s \in Spaces \ live : \A p \in Pages : pageTable[s][p] = NoFrame
    /\ \A s \in Spaces \ live : myPageList[s] = {}
    /\ pageRepChoice = "Demand" =>
          /\ \A s \in Spaces : \A f \in myPageList[s] : f \in memMap /\ coreMap[f].space = s
          /\ \A s \in live, p \in Pages : <<s, p>> \in written => pageTable[s][p] # NoFrame
          /\ CoreMapComplete
          /\ PagesKeepData

FullInv == IInv /\ TypeOK /\ DemandInv

LEMMA InitFull == Init => FullInv
  <1> SUFFICES ASSUME Init PROVE FullInv
    OBVIOUS
  <1>1. IInv
    BY InitOwned
  <1>2. TypeOK
    <2>1. age \in Seq(Frames) /\ IsInjective(age)
      BY DEF Init, IsInjective
    <2>2. QED
      BY <2>1 DEF Init, TypeOK
  <1>3. DemandInv
    BY DEF Init, DemandInv, CoreMapComplete, PagesKeepData
  <1>4. QED
    BY <1>1, <1>2, <1>3 DEF FullInv

LEMMA LoadTypeOK ==
  ASSUME TypeOK, NEW s \in Spaces, NEW p \in Pages, NEW f \in Frames,
         NEW tables \in [Spaces -> [Pages -> Frames \cup {NoFrame}]],
         Load(s, p, f, tables),
         memMap' \subseteq Frames
  PROVE  TypeOK'
  <1>1. age' \in Seq(Frames) /\ IsInjective(age')
    <2>1. age \in Seq(Frames) /\ IsInjective(age)
      BY DEF TypeOK
    <2>2. age' = Append(RemoveFirst(age, f), f)
      BY DEF Load
    <2>3. QED
      BY <2>1, <2>2, AgeRenewed
  <1>2. /\ pageTable' \in [Spaces -> [Pages -> Frames \cup {NoFrame}]]
        /\ myPageList' \in [Spaces -> SUBSET Frames]
        /\ coreMap' \in [Frames -> [space : Spaces, virtPageNum : Pages] \cup {NoEntry}]
    BY DEF Load, TypeOK
  <1>3. mainMemory' \in [Frames -> Contents \cup {NoEntry}]
    <2>1. [space |-> s, page |-> p, data |-> "image"] \in Contents
      BY DEF Contents
    <2>2. QED
      BY <2>1 DEF Load, TypeOK
  <1>4. QED
    BY <1>1, <1>2, <1>3 DEF Load, TypeOK

\* An invalid page of a live space gets the frame f; under demand paging f was free.
LEMMA LoadDemand ==
  ASSUME FullInv, NEW s \in live, NEW p \in Pages, NEW f \in Frames,
         NEW tables \in [Spaces -> [Pages -> Frames \cup {NoFrame}]],
         Load(s, p, f, tables),
         memMap' = memMap \cup {f},
         \A o \in Spaces \ live : \A v \in Pages : tables[o][v] = NoFrame,
         pageRepChoice = "Demand" => tables = pageTable /\ f \notin memMap
                                     /\ <<s, p>> \notin written
  PROVE  DemandInv'
  <1>1. /\ s \in Spaces
        /\ live' = live /\ pageRepChoice' = pageRepChoice /\ written' = written
        /\ pageTable' = [tables EXCEPT ![s][p] = f]
        /\ coreMap' = [coreMap EXCEPT ![f] = [space |-> s, virtPageNum |-> p]]
        /\ myPageList' = [myPageList EXCEPT ![s] = @ \cup {f}]
        /\ mainMemory' = [mainMemory EXCEPT ![f] = [space |-> s, page |-> p, data |-> "image"]]
    BY DEF Load, FullInv, TypeOK
  <1>2. /\ pageTable \in [Spaces -> [Pages -> Frames \cup {NoFrame}]]
        /\ myPageList \in [Spaces -> SUBSET Frames]
        /\ coreMap \in [Frames -> [space : Spaces, virtPageNum : Pages] \cup {NoEntry}]
        /\ mainMemory \in [Frames -> Contents \cup {NoEntry}]
        /\ live \subseteq Spaces
        /\ DemandInv
    BY DEF FullInv, TypeOK
  <1>3. /\ \A o \in Spaces \ live' : \A v \in Pages : pageTable'[o][v] = NoFrame
        /\ \A o \in Spaces \ live' : myPageList'[o] = {}
    BY <1>1, <1>2 DEF DemandInv
  <1>4. ASSUME pageRepChoice = "Demand"
        PROVE  /\ \A o \in Spaces : \A g \in myPageList'[o] :
                     g \in memMap' /\ coreMap'[g].space = o
               /\ \A o \in live', v \in Pages :
                     <<o, v>> \in written' => pageTable'[o][v] # NoFrame
               /\ CoreMapComplete'
               /\ PagesKeepData'
    <2>1. tables = pageTable /\ f \notin memMap /\ <<s, p>> \notin written
      BY <1>4
    <2>2. /\ \A o \in Spaces : \A g \in myPageList[o] : g \in memMap /\ coreMap[g].space = o
          /\ \A o \in live, v \in Pages : <<o, v>> \in written => pageTable[o][v] # NoFrame
          /\ CoreMapComplete
          /\ PagesKeepData
      BY <1>2, <1>4 DEF DemandInv
    <2>3. /\ f # NoFrame
          /\ coreMap'[f] = [space |-> s, virtPageNum |-> p]
          /\ mainMemory'[f] = [space |-> s, page |-> p, data |-> "image"]
          /\ \A g \in Frames \ {f} : coreMap'[g] = coreMap[g] /\ mainMemory'[g] = mainMemory[g]
          /\ pageTable'[s][p] = f
          /\ \A o \in Spaces, v \in Pages : (o # s \/ v # p) => pageTable'[o][v] = pageTable[o][v]
      BY <1>1, <1>2, <2>1, PagingAssumption DEF Frames
    <2>4. \A o \in Spaces : \A g \in myPageList'[o] :
             g \in memMap' /\ coreMap'[g].space = o
      <3>1. ASSUME NEW o \in Spaces, NEW g \in myPageList'[o]
            PROVE  g \in memMap' /\ coreMap'[g].space = o
        <4>1. CASE g = f
          <5>1. o = s
            BY <1>1, <1>2, <2>1, <2>2, <3>1, <4>1
          <5>2. QED
            BY <2>3, <4>1, <5>1
        <4>2. CASE g # f
          <5>1. g \in myPageList[o] /\ g \in Frames
            BY <1>1, <1>2, <3>1, <4>2
          <5>2. QED
            BY <2>2, <2>3, <4>2, <5>1
        <4>3. QED
          BY <4>1, <4>2
      <3>2. QED
        BY <3>1
    <2>5. \A o \in live', v \in Pages :
             <<o, v>> \in written' => pageTable'[o][v] # NoFrame
      BY <1>1, <1>2, <2>2, <2>3
    <2>6. ASSUME NEW o \in live, NEW v \in Pages, o # s \/ v # p,
                 pageTable[o][v] # NoFrame
          PROVE  /\ pageTable'[o][v] = pageTable[o][v]
                 /\ pageTable[o][v] \in memMap
                 /\ pageTable[o][v] \in Frames \ {f}
      <3>1. pageTable[o][v] \in memMap
        BY <2>2, <2>6 DEF CoreMapComplete
      <3>2. o \in Spaces /\ pageTable[o][v] \in Frames
        BY <1>2, <2>6
      <3>3. QED
        BY <2>1, <2>3, <2>6, <3>1, <3>2
    <2>7. CoreMapComplete'
      <3>1. ASSUME NEW o \in live, NEW v \in Pages, pageTable'[o][v] # NoFrame
            PROVE  /\ pageTable'[o][v] \in memMap'
                   /\ coreMap'[pageTable'[o][v]] = [space |-> o, virtPageNum |-> v]
        <4>1. CASE o = s /\ v = p
          BY <2>3, <4>1
        <4>2. CASE o # s \/ v # p
          <5>1. pageTable[o][v] # NoFrame
            BY <1>2, <2>3, <3>1, <4>2
          <5>2. QED
            BY <2>2, <2>3, <2>6, <4>2, <5>1 DEF CoreMapComplete
        <4>3. QED
          BY <4>1, <4>2
      <3>2. QED
        BY <1>1, <3>1 DEF CoreMapComplete
    <2>8. PagesKeepData'
      <3>1. ASSUME NEW o \in live, NEW v \in Pages, pageTable'[o][v] # NoFrame
            PROVE  mainMemory'[pageTable'[o][v]] =
                      [space |-> o, page |-> v,
                       data |-> IF <<o, v>> \in written THEN "written" ELSE "image"]
        <4>1. CASE o = s /\ v = p
          BY <2>1, <2>3, <4>1
        <4>2. CASE o # s \/ v # p
          <5>1. pageTable[o][v] # NoFrame
            BY <1>2, <2>3, <3>1, <4>2
          <5>2. QED
            BY <2>2, <2>3, <2>6, <4>2, <5>1 DEF PagesKeepData
        <4>3. QED
          BY <4>1, <4>2
      <3>2. QED
        <4>1. ASSUME NEW o \in live', NEW v \in Pages, pageTable'[o][v] # NoFrame
              PROVE  mainMemory'[pageTable'[o][v]] =
                        [space |-> o, page |-> v,
                         data |-> IF <<o, v>> \in written' THEN "written" ELSE "image"]
          <5>1. o \in live /\ written' = written
            BY <1>1
          <5>2. QED
            BY <3>1, <4>1, <5>1, Zenon
        <4>2. QED
          BY <4>1, Zenon DEF PagesKeepData
    <2>9. QED
      BY <2>4, <2>5, <2>7, <2>8
  <1>5. QED
    BY <1>1, <1>3, <1>4 DEF DemandInv

LEMMA CreateFull ==
  ASSUME FullInv, NEW s \in Spaces, Create(s)
  PROVE  TypeOK' /\ DemandInv'
  <1>1. TypeOK'
    BY DEF Create, FullInv, TypeOK
  <1>2. DemandInv'
    BY DEF Create, FullInv, TypeOK, DemandInv, CoreMapComplete, PagesKeepData
  <1>3. QED
    BY <1>1, <1>2

LEMMA PageInFull ==
  ASSUME FullInv, NEW s \in Spaces, NEW p \in Pages, PageIn(s, p)
  PROVE  TypeOK' /\ DemandInv'
  <1>1. PICK f \in Frames : /\ f \notin memMap
                            /\ memMap' = memMap \cup {f}
                            /\ Load(s, p, f, pageTable)
    BY DEF PageIn, FirstOfLastRun
  <1>2. /\ s \in live /\ pageTable[s][p] = NoFrame
        /\ TypeOK /\ DemandInv
        /\ pageTable \in [Spaces -> [Pages -> Frames \cup {NoFrame}]]
        /\ memMap' \subseteq Frames
    BY <1>1 DEF PageIn, FullInv, TypeOK
  <1>3. TypeOK'
    BY <1>1, <1>2, LoadTypeOK
  <1>4. /\ \A o \in Spaces \ live : \A v \in Pages : pageTable[o][v] = NoFrame
        /\ pageRepChoice = "Demand" => <<s, p>> \notin written
    BY <1>2 DEF DemandInv
  <1>5. DemandInv'
    BY <1>1, <1>2, <1>4, LoadDemand
  <1>6. QED
    BY <1>3, <1>5

LEMMA PageReplaceFull ==
  ASSUME FullInv, NEW s \in Spaces, NEW p \in Pages, PageReplace(s, p)
  PROVE  TypeOK' /\ DemandInv'
  <1>1. /\ s \in live /\ memMap = Frames /\ memMap' = memMap
        /\ TypeOK /\ DemandInv /\ IInv
    BY DEF PageReplace, FullInv
  <1>2. PICK f \in Frames :
           /\ Victim(f)
           /\ Load(s, p, f, [pageTable EXCEPT
                               ![coreMap[f].space][coreMap[f].virtPageNum] = NoFrame])
    BY DEF PageReplace
  <1>3. pageRepChoice # "Demand"
    BY <1>2 DEF Victim
  <1> DEFINE tables == [pageTable EXCEPT
                           ![coreMap[f].space][coreMap[f].virtPageNum] = NoFrame]
  <1>4. /\ tables \in [Spaces -> [Pages -> Frames \cup {NoFrame}]]
        /\ \A o \in Spaces \ live : \A v \in Pages : tables[o][v] = NoFrame
    <2>1. PICK o \in Spaces, v \in Pages : coreMap[f] = [space |-> o, virtPageNum |-> v]
      BY <1>1 DEF IInv, MarkedFramesMapped, FrameEntries
    <2>2. tables = [pageTable EXCEPT ![o][v] = NoFrame]
      BY <2>1
    <2> HIDE DEF tables
    <2>3. QED
      BY <1>1, <2>2 DEF TypeOK, DemandInv
  <1>5. Load(s, p, f, tables)
    BY <1>2
  <1> HIDE DEF tables
  <1>6. TypeOK'
    BY <1>1, <1>4, <1>5, LoadTypeOK DEF TypeOK
  <1>7. DemandInv'
    <2>1. memMap' = memMap \cup {f}
      BY <1>1
    <2>2. QED
      BY <1>1, <1>3, <1>4, <1>5, <2>1, LoadDemand
  <1>8. QED
    BY <1>6, <1>7

LEMMA WriteMemFull ==
  ASSUME FullInv, NEW s \in Spaces, NEW p \in Pages, WriteMem(s, p)
  PROVE  TypeOK' /\ DemandInv'
  <1> DEFINE f == pageTable[s][p]
  <1>1. /\ s \in live /\ f # NoFrame /\ f \in Frames
        /\ mainMemory' = [mainMemory EXCEPT ![f] = [space |-> s, page |-> p, data |-> "written"]]
        /\ written' = written \cup {<<s, p>>}
        /\ UNCHANGED <<pageRepChoice, live, pageTable, myPageList, memMap, coreMap, age, halted>>
        /\ TypeOK /\ DemandInv
    BY DEF WriteMem, FullInv, TypeOK
  <1>2. [space |-> s, page |-> p, data |-> "written"] \in Contents
    BY DEF Contents
  <1>3. TypeOK'
    <2> HIDE DEF f
    <2>1. /\ mainMemory' \in [Frames -> Contents \cup {NoEntry}]
          /\ written' \subseteq Spaces \X Pages
      BY <1>1, <1>2 DEF TypeOK
    <2>2. QED
      BY <1>1, <2>1 DEF TypeOK
  <1>4. ASSUME pageRepChoice = "Demand"
        PROVE  PagesKeepData'
    <2>1. CoreMapComplete /\ PagesKeepData
      BY <1>1, <1>4 DEF DemandInv
    <2>2. ASSUME NEW o \in live', NEW v \in Pages, pageTable'[o][v] # NoFrame
          PROVE  mainMemory'[pageTable'[o][v]] =
                    [space |-> o, page |-> v,
                     data |-> IF <<o, v>> \in written' THEN "written" ELSE "image"]
      <3>1. CASE o = s /\ v = p
        BY <1>1, <3>1 DEF TypeOK
      <3>2. CASE o # s \/ v # p
        <4>1. /\ o \in live /\ pageTable[o][v] # NoFrame /\ pageTable' = pageTable
              /\ (<<o, v>> \in written' <=> <<o, v>> \in written)
          BY <1>1, <2>2, <3>2
        <4>2. coreMap[pageTable[o][v]] = [space |-> o, virtPageNum |-> v]
          BY <2>1, <4>1 DEF CoreMapComplete
        <4>3. coreMap[f] = [space |-> s, virtPageNum |-> p]
          BY <1>1, <2>1 DEF CoreMapComplete
        <4>4. pageTable[o][v] # f
          BY <3>2, <4>2, <4>3
        <4>5. mainMemory[pageTable[o][v]] =
                    [space |-> o, page |-> v,
                     data |-> IF <<o, v>> \in written THEN "written" ELSE "image"]
          BY <2>1, <4>1, Zenon DEF PagesKeepData
        <4>6. mainMemory'[pageTable[o][v]] = mainMemory[pageTable[o][v]]
          BY <1>1, <4>1, <4>4 DEF TypeOK
        <4>7. QED
          BY <4>1, <4>5, <4>6, Zenon
      <3>3. QED
        BY <3>1, <3>2
    <2>3. QED
      BY <2>2, Zenon DEF PagesKeepData
  <1>5. DemandInv'
    <2> HIDE DEF f
    <2>1. pageRepChoice = "Demand" => CoreMapComplete'
      BY <1>1 DEF DemandInv, CoreMapComplete
    <2>2. pageRepChoice = "Demand" =>
             \A o \in live, v \in Pages : <<o, v>> \in written' => pageTable[o][v] # NoFrame
      BY <1>1 DEF DemandInv, f
    <2>3. QED
      BY <1>1, <1>4, <2>1, <2>2, Zenon DEF DemandInv
  <1>6. QED
    BY <1>3, <1>5

LEMMA ExitFull ==
  ASSUME FullInv, NEW s \in Spaces, Exit(s)
  PROVE  TypeOK' /\ DemandInv'
  <1>1. /\ s \in live
        /\ live' = live \ {s}
        /\ memMap' = memMap \ myPageList[s]
        /\ myPageList' = [myPageList EXCEPT ![s] = {}]
        /\ pageTable' = [pageTable EXCEPT ![s] = [p \in Pages |-> NoFrame]]
        /\ UNCHANGED <<pageRepChoice, coreMap, age, mainMemory, written, halted>>
        /\ TypeOK /\ DemandInv
    BY DEF Exit, FullInv
  <1>2. TypeOK'
    BY <1>1 DEF TypeOK
  <1>3. /\ \A o \in Spaces \ {s} : pageTable'[o] = pageTable[o] /\ myPageList'[o] = myPageList[o]
        /\ \A v \in Pages : pageTable'[s][v] = NoFrame
        /\ myPageList'[s] = {}
        /\ live \subseteq Spaces
    BY <1>1 DEF TypeOK
  <1>4. /\ \A o \in Spaces \ live' : \A v \in Pages : pageTable'[o][v] = NoFrame
        /\ \A o \in Spaces \ live' : myPageList'[o] = {}
    BY <1>1, <1>3 DEF DemandInv
  <1>5. ASSUME pageRepChoice = "Demand"
        PROVE  /\ \A o \in Spaces : \A g \in myPageList'[o] :
                     g \in memMap' /\ coreMap'[g].space = o
               /\ \A o \in live', v \in Pages :
                     <<o, v>> \in written' => pageTable'[o][v] # NoFrame
               /\ CoreMapComplete'
               /\ PagesKeepData'
    <2>1. /\ \A o \in Spaces : \A g \in myPageList[o] : g \in memMap /\ coreMap[g].space = o
          /\ \A o \in live, v \in Pages : <<o, v>> \in written => pageTable[o][v] # NoFrame
          /\ CoreMapComplete
          /\ PagesKeepData
      BY <1>1, <1>5 DEF DemandInv
    <2>2. \A o \in Spaces : \A g \in myPageList'[o] : g \in memMap' /\ coreMap'[g].space = o
      <3>1. ASSUME NEW o \in Spaces, NEW g \in myPageList'[o]
            PROVE  g \in memMap' /\ coreMap'[g].space = o
        <4>1. o # s /\ g \in myPageList[o]
          BY <1>3, <3>1
        <4>2. g \in memMap /\ coreMap[g].space = o
          BY <2>1, <4>1
        <4>3. g \notin myPageList[s]
          BY <2>1, <4>1, <4>2
        <4>4. QED
          BY <1>1, <4>2, <4>3
      <3>2. QED
        BY <3>1
    <2>3. \A o \in live', v \in Pages : <<o, v>> \in written' => pageTable'[o][v] # NoFrame
      BY <1>1, <1>3, <2>1
    <2>4. CoreMapComplete'
      <3>1. ASSUME NEW o \in live', NEW v \in Pages, pageTable'[o][v] # NoFrame
            PROVE  /\ pageTable'[o][v] \in memMap'
                   /\ coreMap'[pageTable'[o][v]] = [space |-> o, virtPageNum |-> v]
        <4>1. o \in live /\ o # s /\ pageTable'[o] = pageTable[o]
          BY <1>1, <1>3
        <4>2. /\ pageTable[o][v] \in memMap
              /\ coreMap[pageTable[o][v]] = [space |-> o, virtPageNum |-> v]
          BY <2>1, <3>1, <4>1 DEF CoreMapComplete
        <4>3. coreMap[pageTable[o][v]].space = o
          BY <4>2
        <4>4. pageTable[o][v] \notin myPageList[s]
          BY <2>1, <4>1, <4>3
        <4>5. QED
          BY <1>1, <4>1, <4>2, <4>4
      <3>2. QED
        BY <3>1 DEF CoreMapComplete
    <2>5. PagesKeepData'
      <3>1. ASSUME NEW o \in live', NEW v \in Pages, pageTable'[o][v] # NoFrame
            PROVE  mainMemory'[pageTable'[o][v]] =
                      [space |-> o, page |-> v,
                       data |-> IF <<o, v>> \in written' THEN "written" ELSE "image"]
        <4>1. o \in live /\ o # s /\ pageTable'[o] = pageTable[o]
          BY <1>1, <1>3
        <4>2. mainMemory[pageTable[o][v]] =
                 [space |-> o, page |-> v,
                  data |-> IF <<o, v>> \in written THEN "written" ELSE "image"]
          BY <2>1, <3>1, <4>1, Zenon DEF PagesKeepData
        <4>3. QED
          BY <1>1, <4>1, <4>2, Zenon
      <3>2. QED
        BY <3>1, Zenon DEF PagesKeepData
    <2>6. QED
      BY <2>2, <2>3, <2>4, <2>5
  <1>6. QED
    <2>1. pageRepChoice' = pageRepChoice
      BY <1>1
    <2>2. QED
      BY <1>2, <1>4, <1>5, <2>1, Zenon DEF DemandInv

LEMMA UntouchedFull ==
  ASSUME FullInv,
         UNCHANGED <<pageRepChoice, live, pageTable, myPageList, memMap, coreMap, age,
                     mainMemory, written>>,
         halted' \in BOOLEAN
  PROVE  TypeOK' /\ DemandInv'
  <1>1. TypeOK'
    BY DEF FullInv, TypeOK
  <1>2. DemandInv'
    BY DEF FullInv, DemandInv, CoreMapComplete, PagesKeepData
  <1>3. QED
    BY <1>1, <1>2

LEMMA NextFull == FullInv /\ [Next]_vars => FullInv'
  <1> SUFFICES ASSUME FullInv, [Next]_vars
               PROVE  FullInv'
    OBVIOUS
  <1>1. ASSUME NEW s \in Spaces, Create(s)
        PROVE  TypeOK' /\ DemandInv'
    BY <1>1, CreateFull
  <1>2. ASSUME NEW s \in Spaces, NEW p \in Pages, PageIn(s, p)
        PROVE  TypeOK' /\ DemandInv'
    BY <1>2, PageInFull
  <1>3. ASSUME NEW s \in Spaces, NEW p \in Pages, PageReplace(s, p)
        PROVE  TypeOK' /\ DemandInv'
    BY <1>3, PageReplaceFull
  <1>4. ASSUME NEW s \in Spaces, NEW p \in Pages, PageHalt(s, p)
        PROVE  TypeOK' /\ DemandInv'
    BY <1>4, UntouchedFull DEF PageHalt
  <1>5. ASSUME NEW s \in Spaces, NEW p \in Pages, WriteMem(s, p)
        PROVE  TypeOK' /\ DemandInv'
    BY <1>5, WriteMemFull
  <1>6. ASSUME NEW s \in Spaces, Exit(s)
        PROVE  TypeOK' /\ DemandInv'
    BY <1>6, ExitFull
  <1>7. ASSUME UNCHANGED vars
        PROVE  TypeOK' /\ DemandInv'
    <2>1. halted' \in BOOLEAN
      BY <1>7 DEF vars, FullInv, TypeOK
    <2>2. QED
      BY <1>7, <2>1, UntouchedFull DEF vars
  <1>8. TypeOK' /\ DemandInv'
    BY <1>1, <1>2, <1>3, <1>4, <1>5, <1>6, <1>7 DEF Next
  <1>9. IInv'
    BY NextOwned DEF FullInv
  <1>10. QED
    BY <1>8, <1>9 DEF FullInv

\* The tables keep their shape under every policy; under demand paging a valid page
\* has a frame of its own, which the bitmap and the core map know, and finds there
\* what its program wrote or its executable had, however frames are freed by exiting
\* programs and taken again.
THEOREM PagesSafe == Spec => []PagingInv
  <1>1. FullInv => PagingInv
    BY DEF FullInv, DemandInv, PagingInv, DemandKeepsPages
  <1>2. QED
    BY InitFull, NextFull, <1>1, PTL DEF Spec

-----------------------------------------------------------------------------
(* The memory of the older kernel, with the first fit.                     *)

LEMMA LeastExists ==
  ASSUME NEW S \in SUBSET Nat, S # {}
  PROVE  Min(S) \in S /\ \A y \in S : Min(S) <= y
  <1> DEFINE R == OpToRel(<, Nat)
  <1>1. IsWellFoundedOn(R, Nat)
    BY NatLessThanWellFounded
  <1>2. PICK x \in S : \A y \in S : ~ (<<y, x>> \in R)
    <2> HIDE DEF R
    <2> QED
      BY <1>1, WFMin
  <1>3. \A y \in S : x <= y
    <2> TAKE y \in S
    <2>1. ~ (y < x)
      BY <1>2 DEF OpToRel
    <2>2. QED
      BY <2>1
  <1>4. QED
    BY <1>3, Zenon DEF Min

LEMMA GreatestExists ==
  ASSUME NEW S \in SUBSET Bits, S # {}
  PROVE  Max(S) \in S /\ \A y \in S : Max(S) >= y
  <1> DEFINE T == {NumBits - x : x \in S}
  <1>1. T \in SUBSET Nat /\ T # {}
    <2>1. ASSUME NEW x \in S PROVE NumBits - x \in Nat
      BY MemoryFitAssumption DEF Bits
    <2>2. QED
      BY <2>1
  <1>2. Min(T) \in T /\ \A y \in T : Min(T) <= y
    <2> HIDE DEF T
    <2> QED
      BY <1>1, LeastExists
  <1>3. PICK x \in S : Min(T) = NumBits - x
    BY <1>2
  <1>4. \A y \in S : x >= y
    <2> TAKE y \in S
    <2>1. NumBits - x <= NumBits - y
      BY <1>2, <1>3
    <2>2. QED
      BY <2>1, MemoryFitAssumption DEF Bits
  <1>5. QED
    BY <1>4, Zenon DEF Max

Placements == [offset : Bits, numPages : ProgramSizes]

FirstFitInv ==
    /\ bitmap \subseteq Bits
    /\ space \in [Programs -> {NoSpace} \cup Placements]
    /\ FirstFitExact

\* A row of n frames that the first fit finds and that is inside the memory is
\* clear, even when it was not found by the search but lies behind the last
\* marked frame.
LEMMA FirstFitClear ==
  ASSUME bitmap \subseteq Bits, NEW n \in ProgramSizes,
         FirstFit(n) .. FirstFit(n) + n - 1 \subseteq Bits
  PROVE  /\ FirstFit(n) \in Nat
         /\ (FirstFit(n) .. FirstFit(n) + n - 1) \cap bitmap = {}
  <1> DEFINE fits == {f \in Bits : f .. f + n - 1 \subseteq Clear}
  <1>1. n \in Nat \ {0} /\ NumBits \in Nat /\ Bits \subseteq Nat
    BY MemoryFitAssumption DEF Bits
  <1>2. CASE fits # {}
    <2>1. FirstFit(n) = Min(fits)
      BY <1>2 DEF FirstFit
    <2>2. fits \in SUBSET Nat
      BY <1>1
    <2>3. Min(fits) \in fits
      <3> HIDE DEF fits
      <3> QED
        BY <1>2, <2>2, LeastExists
    <2>4. QED
      BY <1>1, <2>1, <2>3 DEF Clear
  <1>3. CASE fits = {}
    <2>1. FirstFit(n) = Behind(bitmap)
      BY <1>3 DEF FirstFit
    <2>2. CASE bitmap = {}
      BY <2>1, <2>2 DEF Behind
    <2>3. CASE bitmap # {}
      <3>1. Max(bitmap) \in bitmap /\ \A y \in bitmap : Max(bitmap) >= y
        BY <2>3, GreatestExists
      <3>2. FirstFit(n) = Max(bitmap) + 1
        BY <2>1, <2>3 DEF Behind
      <3>3. Max(bitmap) \in Nat
        BY <1>1, <3>1
      <3>4. ASSUME NEW f \in bitmap, f \in FirstFit(n) .. FirstFit(n) + n - 1
            PROVE  FALSE
        <4>1. f \in Nat /\ Max(bitmap) >= f
          BY <1>1, <3>1
        <4>2. QED
          BY <4>1, <3>2, <3>3, <3>4
      <3>5. QED
        BY <3>2, <3>3, <3>4
    <2>4. QED
      BY <2>2, <2>3
  <1>4. QED
    BY <1>2, <1>3

LEMMA LoadProgramFits ==
  ASSUME FirstFitInv, memAllocation = 1,
         NEW c \in Programs, NEW p \in Programs, NEW n \in ProgramSizes,
         LoadProgram(c, p, n)
  PROVE  FirstFitInv'
  <1> DEFINE frames == FirstFit(n) .. FirstFit(n) + n - 1
  <1>1. offset(n) = FirstFit(n)
    BY DEF offset
  <1>2. memAllocation' = 1
    BY DEF LoadProgram
  <1>3. CASE UNCHANGED <<bitmap, space>>
    BY <1>2, <1>3 DEF FirstFitInv, FirstFitExact, FramesApart, FramesOf
  <1>4. CASE /\ frames \subseteq Bits
             /\ bitmap' = bitmap \cup frames
             /\ space' = [space EXCEPT ![p] = [offset |-> FirstFit(n), numPages |-> n]]
    <2>1. FirstFit(n) \in Bits /\ frames \cap bitmap = {}
      <3>1. FirstFit(n) \in Nat /\ frames \cap bitmap = {}
        BY <1>4, FirstFitClear DEF FirstFitInv
      <3>2. FirstFit(n) \in frames
        BY <3>1, MemoryFitAssumption
      <3>3. QED
        BY <1>4, <3>1, <3>2
    <2>2. /\ bitmap' \subseteq Bits
          /\ space' \in [Programs -> {NoSpace} \cup Placements]
      BY <1>4, <2>1 DEF FirstFitInv, Placements
    <2>3. space[p] = NoSpace /\ FramesOf(p) = {}
      BY DEF LoadProgram, FramesOf
    <2>4. FramesOf(p)' = frames
      <3> DEFINE row == [offset |-> FirstFit(n), numPages |-> n]
      <3>1. row \in Placements /\ row.offset = FirstFit(n) /\ row.numPages = n
        BY <2>1 DEF Placements
      <3>2. row # NoSpace
        BY <3>1, NoSpaceAssumption DEF Placements, Bits
      <3>3. space'[p] = row
        BY <1>4 DEF FirstFitInv
      <3>4. QED
        BY <3>1, <3>2, <3>3 DEF FramesOf
    <2>5. \A q \in Programs \ {p} : FramesOf(q)' = FramesOf(q)
      BY <1>4 DEF FirstFitInv, FramesOf
    <2>6. \A q \in Programs : FramesOf(q) \subseteq bitmap
      BY DEF FirstFitInv, FirstFitExact
    <2>7. FramesApart'
      <3>1. \A q \in Programs \ {p} : FramesOf(q)' \cap FramesOf(p)' = {}
        BY <2>1, <2>4, <2>5, <2>6
      <3>2. FramesApart
        BY DEF FirstFitInv, FirstFitExact
      <3>3. ASSUME NEW q \in Programs, NEW r \in Programs, q # r
            PROVE  FramesOf(q)' \cap FramesOf(r)' = {}
        <4>1. CASE q = p
          BY <3>1, <3>3, <4>1
        <4>2. CASE r = p
          BY <3>1, <3>3, <4>2
        <4>3. CASE q # p /\ r # p
          BY <2>5, <3>2, <3>3, <4>3 DEF FramesApart
        <4>4. QED
          BY <4>1, <4>2, <4>3
      <3>4. QED
        BY <3>3 DEF FramesApart
    <2>8. bitmap' = UNION {FramesOf(q)' : q \in Programs}
      <3>1. bitmap = UNION {FramesOf(q) : q \in Programs}
        BY DEF FirstFitInv, FirstFitExact
      <3> HIDE DEF frames
      <3>2. QED
        BY <1>4, <2>3, <2>4, <2>5, <3>1
    <2>9. QED
      BY <2>2, <2>7, <2>8 DEF FirstFitInv, FirstFitExact
  <1>5. QED
    BY <1>1, <1>3, <1>4 DEF LoadProgram

LEMMA SExitFits ==
  ASSUME FirstFitInv, memAllocation = 1, NEW p \in Programs, SExit(p)
  PROVE  FirstFitInv'
  <1>1. /\ bitmap' = bitmap \ FramesOf(p)
        /\ space' = [space EXCEPT ![p] = NoSpace]
        /\ memAllocation' = 1
    BY DEF SExit
  <1>2. FramesOf(p)' = {}
    BY <1>1 DEF FirstFitInv, FramesOf
  <1>3. \A q \in Programs \ {p} : FramesOf(q)' = FramesOf(q)
    BY <1>1 DEF FirstFitInv, FramesOf
  <1>4. FramesApart'
    BY <1>2, <1>3 DEF FirstFitInv, FirstFitExact, FramesApart
  <1>5. bitmap' = UNION {FramesOf(q)' : q \in Programs}
    <2>1. bitmap = UNION {FramesOf(q) : q \in Programs}
      BY DEF FirstFitInv, FirstFitExact
    <2>2. \A q \in Programs \ {p} : FramesOf(q) \cap FramesOf(p) = {}
      BY DEF FirstFitInv, FirstFitExact, FramesApart
    <2>3. QED
      BY <1>1, <1>2, <1>3, <2>1, <2>2
  <1>6. QED
    BY <1>1, <1>4, <1>5 DEF FirstFitInv, FirstFitExact

FitInv == memAllocation = 1 => FirstFitInv

LEMMA FitUnchanged == FitInv /\ UNCHANGED fitVars => FitInv'
  BY DEF FitInv, FirstFitInv, FirstFitExact, FramesApart, FramesOf, fitVars

LEMMA InitFits == MemoryInit => FitInv
  <1> SUFFICES ASSUME MemoryInit PROVE FitInv
    OBVIOUS
  <1>1. bitmap = {} /\ space = [q \in Programs |-> NoSpace]
    BY DEF MemoryInit, FitInit
  <1>2. \A q \in Programs : FramesOf(q) = {}
    BY <1>1 DEF FramesOf
  <1>3. QED
    BY <1>1, <1>2 DEF FitInv, FirstFitInv, FirstFitExact, FramesApart

LEMMA NextFits ==
  ASSUME FitInv, [OnDemand \/ InRows \/ FromFile]_memoryVars
  PROVE  FitInv'
  <1>1. CASE UNCHANGED fitVars
    BY <1>1, FitUnchanged
  <1>2. CASE FitNext
    <2>1. ASSUME NEW c \in Programs, NEW p \in Programs, NEW n \in ProgramSizes,
                 LoadProgram(c, p, n)
          PROVE  FitInv'
      BY <2>1, LoadProgramFits DEF FitInv, LoadProgram
    <2>2. ASSUME NEW c \in Programs, NEW p \in Programs, NEW n \in ProgramSizes,
                 Refuse(c, p, n)
          PROVE  FitInv'
      BY <2>2 DEF Refuse, FitInv, FirstFitInv, FirstFitExact, FramesApart, FramesOf
    <2>3. ASSUME NEW p \in Programs, SExit(p)
          PROVE  FitInv'
      BY <2>3, SExitFits DEF FitInv, SExit
    <2>4. QED
      BY <1>2, <2>1, <2>2, <2>3 DEF FitNext
  <1>3. QED
    BY <1>1, <1>2 DEF OnDemand, InRows, FromFile, memoryVars

\* With the first fit no two programs of the older kernel have a frame in common,
\* and the frames that are marked are those of the programs: in any memory, for any
\* programs that come and go.
THEOREM FirstFitIsExact == MemorySpec => []FirstFitExact
  <1>1. FitInv => FirstFitExact
    BY DEF FitInv, FirstFitInv, FirstFitExact
  <1>2. QED
    BY InitFits, NextFits, <1>1, PTL DEF MemorySpec

-----------------------------------------------------------------------------
(* The way of a program into memory.                                       *)

Section == [s_name : SectionNames, s_paddr : Nat, s_size : Nat, s_data : BOOLEAN]
SegmentType == [virtualAddr : Int, inFileAddr : Int, size : Nat]

ObjectTypes ==
    /\ sections \in CoffFiles
    /\ nextSection \in 1 .. Len(sections) + 1
    /\ noffH \in [code : SegmentType, initData : SegmentType, uninitData : SegmentType]
    /\ noffFile \in Seq(SectionNames \X Nat)
    /\ progress \in {"converting", "failed", "converted", "created"}

\* the loop has been through section k
SectionTaken(k) == k \in 1 .. nextSection - 1
SectionCopied(k) == sections[k].s_name \in Initialised /\ sections[k].s_size # 0

\* the bytes of section k are in the file, where its segment says
InFile(k) ==
    LET s == sections[k]
        g == noffH[SegmentOf(s.s_name)]
        at == g.inFileAddr - HeaderSize
    IN  /\ g.virtualAddr = s.s_paddr /\ g.size = s.s_size
        /\ at \in Nat /\ at + s.s_size <= Len(noffFile)
        /\ \A x \in 1 .. s.s_size : noffFile[at + x] = <<s.s_name, x>>

\* What the header says is what the loop has seen.
HeaderInv ==
    /\ inNoffFile = HeaderSize + Len(noffFile)
    /\ Len(noffFile) = noffH.code.size + noffH.initData.size
    /\ \A k \in DOMAIN sections : SectionTaken(k) /\ SectionCopied(k) => InFile(k)
    /\ noffH.code.size # 0 =>
           \E k \in DOMAIN sections : SectionTaken(k) /\ sections[k].s_name = ".text"
    /\ noffH.uninitData.size # 0 =>
           \E k \in DOMAIN sections : SectionTaken(k) /\ sections[k].s_name \in {".sbss", ".bss"}
    /\ progress # "converting" => nextSection = Len(sections) + 1

\* the end of the sections so far
EndOf(k) == IF k = 0 THEN 0 ELSE sections[k].s_paddr + sections[k].s_size
ProgramSize == noffH.code.size + noffH.initData.size + noffH.uninitData.size

\* Of a file that was linked by the script the segments add up to the place where the
\* next section begins, and code and data are in the file at their addresses.
PlacesInv ==
    LinkedByScript =>
        /\ ProgramSize = EndOf(nextSection - 1)
        /\ \A k \in DOMAIN sections : SectionTaken(k) =>
               /\ EndOf(k) <= ProgramSize
               /\ SectionCopied(k) =>
                      noffH[SegmentOf(sections[k].s_name)].inFileAddr
                          = HeaderSize + sections[k].s_paddr

\* The swap file holds the header and the bytes, memory holds pages of the swap file.
PagesInv ==
    progress = "created" =>
        /\ swapFile \in Seq({<<"zero", 0>>, <<"old", 0>>}
                            \cup ({"header"} \X Nat) \cup (SectionNames \X Nat))
        /\ Len(swapFile) = HeaderSize + numPages * PageBytes
        /\ \A i \in 1 .. Len(noffFile) : swapFile[HeaderSize + i] = noffFile[i]
        /\ \A vpn \in DOMAIN virtualMemory :
               /\ vpn \in 0 .. numPages - 1
               /\ \A i \in 1 .. PageBytes :
                      virtualMemory[vpn][i] = swapFile[HeaderSize + vpn * PageBytes + i]

ObjectInv ==
    /\ ObjectTypes
    /\ progress # "failed" => HeaderInv /\ PlacesInv
    /\ PagesInv
    /\ progress # "created" => virtualMemory = <<>>

LEMMA SectionFacts ==
  ASSUME ObjectTypes
  PROVE  /\ sections \in Seq(Section) /\ Len(sections) \in Nat
         /\ DOMAIN sections = 1 .. Len(sections)
         /\ \A k \in DOMAIN sections : sections[k] \in Section
         /\ \A j, k \in DOMAIN sections :
                sections[j].s_name = sections[k].s_name /\ j # k => sections[j].s_name = "other"
         /\ HeaderSize \in Nat \ {0} /\ UserStackSize \in Nat \ {0} /\ PageBytes \in Nat \ {0}
         /\ Len(noffFile) \in Nat
  <1>1. sections \in CoffFiles /\ noffFile \in Seq(SectionNames \X Nat)
    BY DEF ObjectTypes
  <1>2. sections \in Seq(Section)
    BY <1>1, ObjectFileAssumption DEF Section
  <1>3. \A j, k \in DOMAIN sections :
            sections[j].s_name = sections[k].s_name /\ j # k => sections[j].s_name = "other"
    BY <1>1, ObjectFileAssumption
  <1>4. HeaderSize \in Nat \ {0} /\ UserStackSize \in Nat \ {0} /\ PageBytes \in Nat \ {0}
    BY ObjectFileAssumption
  <1>5. QED
    BY <1>1, <1>2, <1>3, <1>4

LEMMA ObjectStarts == ObjectInit => ObjectInv
  <1> SUFFICES ASSUME ObjectInit PROVE ObjectInv
    OBVIOUS
  <1>1. ObjectTypes
    <2>1. Undefined \in SegmentType
      BY DEF Undefined, Segment, SegmentType
    <2>2. Len(sections) \in Nat
      BY ObjectFileAssumption DEF ObjectInit
    <2>3. QED
      BY <2>1, <2>2 DEF ObjectInit, ObjectTypes
  <1>2. HeaderInv
    BY <1>1, SectionFacts DEF ObjectInit, HeaderInv, SectionTaken, Undefined, Segment
  <1>3. PlacesInv
    BY <1>1, SectionFacts DEF ObjectInit, PlacesInv, SectionTaken, EndOf, ProgramSize, Undefined, Segment
  <1>4. QED
    BY <1>1, <1>2, <1>3 DEF ObjectInv, PagesInv, ObjectInit

\* What is in the file stays there when bytes are written behind it.
LEMMA InFileKept ==
  ASSUME ObjectTypes, NEW k \in DOMAIN sections, InFile(k), SectionCopied(k),
         sections' = sections,
         noffH'[SegmentOf(sections[k].s_name)] = noffH[SegmentOf(sections[k].s_name)],
         NEW extra \in Seq(SectionNames \X Nat), noffFile' = noffFile \o extra
  PROVE  InFile(k)'
  <1> DEFINE s == sections[k]
             g == noffH[SegmentOf(s.s_name)]
             at == g.inFileAddr - HeaderSize
             n == s.s_size
  <1>1. /\ g.virtualAddr = s.s_paddr /\ g.size = n
        /\ at \in Nat /\ at + n <= Len(noffFile)
        /\ \A x \in 1 .. n : noffFile[at + x] = <<s.s_name, x>>
    BY DEF InFile
  <1>2. n \in Nat /\ Len(noffFile) \in Nat /\ Len(extra) \in Nat
    BY SectionFacts DEF Section
  <1> HIDE DEF n, at
  <1>3. ASSUME NEW x \in 1 .. n
        PROVE  noffFile'[at + x] = <<s.s_name, x>>
    <2>1. at + x \in 1 .. Len(noffFile)
      BY <1>1, <1>2
    <2>2. noffFile'[at + x] = noffFile[at + x]
      BY <2>1 DEF ObjectTypes
    <2>3. QED
      BY <1>1, <2>2
  <1>4. Len(noffFile') = Len(noffFile) + Len(extra)
    BY DEF ObjectTypes
  <1>5. at + n <= Len(noffFile')
    BY <1>1, <1>2, <1>4
  <1>6. QED
    BY <1>1, <1>3, <1>5 DEF InFile, at, n

\* Before the next section is looked at.
LEMMA NextSectionFacts ==
  ASSUME ObjectTypes, Converting
  PROVE  /\ nextSection \in DOMAIN sections /\ nextSection \in Nat
         /\ sections[nextSection] \in Section
         /\ \A k : (nextSection' = nextSection + 1) => (SectionTaken(k)' <=> SectionTaken(k) \/ k = nextSection)
         /\ ~ SectionTaken(nextSection)
  BY SectionFacts DEF ObjectTypes, Converting, SectionTaken

LEMMA SkipEmptyPlaced ==
  ASSUME ObjectInv, SkipEmpty
  PROVE  ObjectInv'
  <1> DEFINE next == nextSection
             s == sections[next]
  <1>1. /\ ObjectTypes /\ HeaderInv /\ PlacesInv /\ Converting /\ s.s_size = 0
        /\ progress = "converting" /\ next' = next + 1
        /\ UNCHANGED <<sections, noffH, inNoffFile, noffFile, progress, swapFile, virtualMemory>>
    BY DEF ObjectInv, SkipEmpty, Converting
  <1>2. /\ next \in DOMAIN sections /\ next \in Nat /\ s \in Section
        /\ \A k : SectionTaken(k)' <=> SectionTaken(k) \/ k = next
    BY <1>1, NextSectionFacts
  <1>3. ObjectTypes'
    BY <1>1, <1>2, SectionFacts DEF ObjectTypes
  <1>4. ~ SectionCopied(next) /\ \A k : SectionCopied(k)' = SectionCopied(k) /\ InFile(k)' = InFile(k)
    BY <1>1 DEF SectionCopied, InFile
  <1>5. HeaderInv'
    BY <1>1, <1>2, <1>4 DEF HeaderInv
  <1>6. PlacesInv'
    <2> SUFFICES ASSUME LinkedByScript PROVE PlacesInv'
      BY <1>1 DEF PlacesInv, LinkedByScript
    <2>1. /\ ProgramSize = EndOf(next - 1)
          /\ \A k \in DOMAIN sections : SectionTaken(k) =>
                 /\ EndOf(k) <= ProgramSize
                 /\ SectionCopied(k) => noffH[SegmentOf(sections[k].s_name)].inFileAddr
                                    = HeaderSize + sections[k].s_paddr
      BY <1>1 DEF PlacesInv
    <2>2. EndOf(next) = EndOf(next - 1) /\ EndOf(next) \in Nat
      BY <1>1, <1>2, SectionFacts DEF LinkedByScript, EndOf, Section
    <2>3. ProgramSize' = ProgramSize /\ \A k : EndOf(k)' = EndOf(k)
      BY <1>1 DEF ProgramSize, EndOf
    <2>4. ProgramSize' = EndOf(nextSection - 1)'
      <3>1. next' - 1 = next
        BY <1>1, <1>2
      <3>2. EndOf(nextSection - 1)' = EndOf(next)
        BY <1>1, <3>1 DEF EndOf
      <3>3. QED
        BY <2>1, <2>2, <2>3, <3>2
    <2>5. QED
      BY <1>1, <1>2, <1>4, <2>1, <2>2, <2>3, <2>4 DEF PlacesInv
  <1>7. QED
    BY <1>1, <1>3, <1>5, <1>6 DEF ObjectInv, PagesInv

\* Where the next section begins.
LEMMA NextBegins ==
  ASSUME ObjectTypes, PlacesInv, Converting, LinkedByScript
  PROVE  /\ sections[nextSection].s_paddr = ProgramSize
         /\ EndOf(nextSection) = ProgramSize + sections[nextSection].s_size
  <1>1. nextSection \in DOMAIN sections /\ nextSection \in Nat /\ nextSection >= 1
        /\ sections[nextSection] \in Section
    BY NextSectionFacts, SectionFacts
  <1>2. ProgramSize = EndOf(nextSection - 1)
    BY DEF PlacesInv
  <1>3. sections[nextSection].s_paddr = EndOf(nextSection - 1)
    BY <1>1 DEF LinkedByScript, EndOf
  <1>4. QED
    BY <1>1, <1>2, <1>3 DEF EndOf

LEMMA CopySegmentPlaced ==
  ASSUME ObjectInv, CopySegment
  PROVE  ObjectInv'
  <1>0. PICK next : next = nextSection
    OBVIOUS
  <1> DEFINE s == sections[next]
             which == SegmentOf(s.s_name)
             n == s.s_size
             b == BytesOfSection(s)
             size(name) == noffH[name].size
  <1>1. /\ ObjectTypes /\ HeaderInv /\ PlacesInv /\ Converting
        /\ progress = "converting" /\ nextSection' = next + 1
        /\ UNCHANGED <<sections, progress, swapFile, virtualMemory>>
    BY <1>0 DEF ObjectInv, CopySegment, Converting
  <1>2. /\ n # 0 /\ s.s_name \in Initialised
        /\ which = "initData" => noffH.initData.size = 0
        /\ noffH' = [noffH EXCEPT ![which] = Segment(s.s_paddr, inNoffFile, n)]
        /\ noffFile' = noffFile \o b /\ inNoffFile' = inNoffFile + n
    BY <1>0 DEF CopySegment
  <1>3. /\ next \in DOMAIN sections /\ next \in Nat /\ s \in Section
        /\ \A k : SectionTaken(k)' <=> SectionTaken(k) \/ k = next
        /\ ~ SectionTaken(next)
    BY <1>0, <1>1, NextSectionFacts
  <1>4. n \in Nat /\ s.s_paddr \in Nat /\ s.s_name \in SectionNames
    BY <1>3 DEF Section
  <1>5. b \in Seq(SectionNames \X Nat) /\ Len(b) = n /\ \A x \in 1 .. n : b[x] = <<s.s_name, x>>
    <2>1. b = [x \in 1 .. n |-> <<s.s_name, x>>]
      BY DEF BytesOfSection
    <2> HIDE DEF b, n
    <2>2. \A x \in 1 .. n : <<s.s_name, x>> \in SectionNames \X Nat
      BY <1>4
    <2>3. QED
      BY <1>4, <2>1, <2>2
  <1>6. which \in {"code", "initData"}
    BY DEF SegmentOf
  <1>7. /\ inNoffFile = HeaderSize + Len(noffFile)
        /\ Len(noffFile) = noffH.code.size + noffH.initData.size
        /\ \A k \in DOMAIN sections : SectionTaken(k) /\ SectionCopied(k) => InFile(k)
        /\ noffH.code.size # 0 =>
               \E k \in DOMAIN sections : SectionTaken(k) /\ sections[k].s_name = ".text"
        /\ noffH.uninitData.size # 0 =>
               \E k \in DOMAIN sections : SectionTaken(k) /\ sections[k].s_name \in {".sbss", ".bss"}
    BY <1>1 DEF HeaderInv
  <1>8. HeaderSize \in Nat /\ Len(noffFile) \in Nat /\ noffFile \in Seq(SectionNames \X Nat)
        /\ noffH \in [code : SegmentType, initData : SegmentType, uninitData : SegmentType]
        /\ noffH.code.size \in Nat /\ noffH.initData.size \in Nat /\ noffH.uninitData.size \in Nat
    BY <1>1, SectionFacts DEF ObjectTypes, SegmentType
  <1>9. noffH[which].size = 0
    <2>1. CASE which = "initData"
      BY <1>2, <2>1
    <2>2. CASE which = "code"
      <3>1. s.s_name = ".text"
        BY <2>2 DEF SegmentOf
      <3>2. ASSUME noffH.code.size # 0 PROVE FALSE
        <4>1. PICK k \in DOMAIN sections : SectionTaken(k) /\ sections[k].s_name = ".text"
          BY <1>7, <3>2
        <4>2. k # next
          BY <1>3, <4>1
        <4>3. QED
          BY <1>1, <1>3, <3>1, <4>1, <4>2, SectionFacts
      <3>3. QED
        BY <2>2, <3>2
    <2>3. QED
      BY <1>6, <2>1, <2>2
  <1>10. /\ Segment(s.s_paddr, inNoffFile, n) \in SegmentType
         /\ Segment(s.s_paddr, inNoffFile, n).size = n
         /\ Segment(s.s_paddr, inNoffFile, n).virtualAddr = s.s_paddr
         /\ Segment(s.s_paddr, inNoffFile, n).inFileAddr = inNoffFile
    BY <1>4, <1>7, <1>8 DEF Segment, SegmentType
  <1>11. /\ noffH' \in [code : SegmentType, initData : SegmentType, uninitData : SegmentType]
         /\ noffH'[which] = Segment(s.s_paddr, inNoffFile, n)
         /\ \A name \in {"code", "initData", "uninitData"} \ {which} : noffH'[name] = noffH[name]
    BY <1>2, <1>6, <1>8, <1>10
  <1> HIDE DEF b, n
  <1>12. noffFile' \in Seq(SectionNames \X Nat) /\ Len(noffFile') = Len(noffFile) + n
    <2> DEFINE T == SectionNames \X Nat
    <2>1. noffFile \in Seq(T) /\ b \in Seq(T)
      BY <1>5, <1>8
    <2> HIDE DEF T
    <2>2. noffFile \o b \in Seq(T) /\ Len(noffFile \o b) = Len(noffFile) + Len(b)
      BY <2>1
    <2>3. QED
      BY <1>2, <1>5, <2>2 DEF T
  <1>13. ObjectTypes'
    <2>1. nextSection' \in 1 .. Len(sections) + 1
      BY <1>1, <1>3, SectionFacts
    <2>2. QED
      BY <1>1, <1>11, <1>12, <2>1 DEF ObjectTypes
  <1>14. ASSUME NEW k \in DOMAIN sections, SectionTaken(k), SectionCopied(k)
         PROVE  /\ SegmentOf(sections[k].s_name) # which
                /\ noffH'[SegmentOf(sections[k].s_name)] = noffH[SegmentOf(sections[k].s_name)]
    <2>1. noffH[SegmentOf(sections[k].s_name)].size # 0
      BY <1>7, <1>14 DEF InFile, SectionCopied
    <2>2. SegmentOf(sections[k].s_name) # which /\ SegmentOf(sections[k].s_name) \in {"code", "initData"}
      BY <1>9, <2>1 DEF SegmentOf
    <2>3. QED
      BY <1>11, <2>2
  <1>15. InFile(next)'
    <2>1. ASSUME NEW x \in 1 .. n
          PROVE  noffFile'[Len(noffFile) + x] = <<s.s_name, x>>
      <3>1. noffFile'[Len(noffFile) + x] = b[x]
        BY <1>2, <1>4, <1>5, <1>8
      <3>2. QED
        BY <1>5, <3>1
    <2>2. inNoffFile - HeaderSize = Len(noffFile)
      BY <1>7, <1>8
    <2>3. /\ sections'[next] = s
          /\ noffH'[which].inFileAddr - HeaderSize = Len(noffFile)
          /\ noffH'[which].virtualAddr = s.s_paddr /\ noffH'[which].size = n
      BY <1>1, <1>10, <1>11, <2>2
    <2>4. Len(noffFile) + n <= Len(noffFile')
      BY <1>4, <1>8, <1>12
    <2>5. QED
      BY <1>8, <2>1, <2>3, <2>4 DEF InFile, n
  <1>16. SectionCopied(next) /\ \A k : SectionCopied(k)' = SectionCopied(k)
    BY <1>1, <1>2 DEF SectionCopied, n
  <1>17. HeaderInv'
    <2>1. inNoffFile' = HeaderSize + Len(noffFile')
      BY <1>2, <1>4, <1>7, <1>8, <1>12
    <2>2. Len(noffFile') = noffH'.code.size + noffH'.initData.size
      <3>1. CASE which = "code"
        <4>1. noffH'.code.size = n /\ noffH'.initData.size = noffH.initData.size
          BY <1>10, <1>11, <3>1
        <4>2. QED
          BY <1>4, <1>7, <1>8, <1>9, <1>12, <3>1, <4>1
      <3>2. CASE which = "initData"
        <4>1. noffH'.code.size = noffH.code.size /\ noffH'.initData.size = n
          BY <1>10, <1>11, <3>2
        <4>2. QED
          BY <1>4, <1>7, <1>8, <1>9, <1>12, <3>2, <4>1
      <3>3. QED
        BY <1>6, <3>1, <3>2
    <2>3. ASSUME NEW k \in DOMAIN sections', SectionTaken(k)', SectionCopied(k)'
          PROVE  InFile(k)'
      <3>1. CASE k = next
        BY <1>15, <3>1
      <3>2. CASE k # next
        <4>1. k \in DOMAIN sections /\ SectionTaken(k) /\ SectionCopied(k)
          BY <1>1, <1>3, <1>16, <2>3, <3>2
        <4>2. InFile(k) /\ noffH'[SegmentOf(sections[k].s_name)] = noffH[SegmentOf(sections[k].s_name)]
          BY <1>7, <1>14, <4>1
        <4>3. QED
          BY <1>1, <1>2, <1>5, <4>1, <4>2, InFileKept
      <3>3. QED
        BY <3>1, <3>2
    <2>4. noffH'.code.size # 0 =>
              \E k \in DOMAIN sections' : SectionTaken(k)' /\ sections'[k].s_name = ".text"
      <3>1. CASE which = "code"
        <4>1. s.s_name = ".text"
          BY <3>1 DEF SegmentOf
        <4>2. QED
          BY <1>1, <1>3, <4>1
      <3>2. CASE which # "code"
        <4>1. noffH'.code = noffH.code
          BY <1>11, <3>2
        <4>2. QED
          BY <1>1, <1>3, <1>7, <4>1
      <3>3. QED
        BY <3>1, <3>2
    <2>5. noffH'.uninitData.size # 0 =>
              \E k \in DOMAIN sections' : SectionTaken(k)' /\ sections'[k].s_name \in {".sbss", ".bss"}
      <3>1. noffH'.uninitData = noffH.uninitData
        BY <1>6, <1>11
      <3>2. QED
        BY <1>1, <1>3, <1>7, <3>1
    <2>6. QED
      BY <1>1, <2>1, <2>2, <2>3, <2>4, <2>5 DEF HeaderInv
  <1>18. PlacesInv'
    <2> SUFFICES ASSUME LinkedByScript PROVE PlacesInv'
      BY <1>1 DEF PlacesInv, LinkedByScript
    <2>1. /\ s.s_paddr = ProgramSize /\ EndOf(next) = ProgramSize + n
      BY <1>0, <1>1, NextBegins DEF n
    <2>2. \A k \in DOMAIN sections : SectionTaken(k) =>
              /\ EndOf(k) <= ProgramSize
              /\ SectionCopied(k) => noffH[SegmentOf(sections[k].s_name)].inFileAddr
                                 = HeaderSize + sections[k].s_paddr
      BY <1>1 DEF PlacesInv
    <2>3. ProgramSize \in Nat /\ ProgramSize' = ProgramSize + n
      <3>1. noffH'.uninitData.size = noffH.uninitData.size
        BY <1>6, <1>11
      <3>2. noffH'.code.size + noffH'.initData.size = noffH.code.size + noffH.initData.size + n
        BY <1>4, <1>7, <1>8, <1>12, <1>17 DEF HeaderInv
      <3>3. QED
        BY <1>4, <1>8, <3>1, <3>2 DEF ProgramSize
    <2>4. EndOf(nextSection - 1)' = EndOf(next)
      <3>1. nextSection' - 1 = next
        BY <1>1, <1>3
      <3>2. QED
        BY <1>1, <3>1 DEF EndOf
    <2>5. noffH.uninitData.size = 0
      <3>1. ASSUME NEW k \in DOMAIN sections, SectionTaken(k), sections[k].s_name \in {".sbss", ".bss"}
            PROVE  FALSE
        <4>1. k \in 1 .. next
          BY <1>0, <1>3, <3>1 DEF SectionTaken
        <4>2. \A j \in 1 .. next : sections[j].s_name \notin {".sbss", ".bss"}
          BY <1>2, <1>3 DEF LinkedByScript
        <4>3. QED
          BY <3>1, <4>1, <4>2
      <3>2. QED
        BY <1>7, <3>1
    <2>6. s.s_paddr = Len(noffFile)
      BY <1>7, <1>8, <2>1, <2>5 DEF ProgramSize
    <2>7. noffH'[which].inFileAddr = HeaderSize + s.s_paddr
      BY <1>7, <1>10, <1>11, <2>6
    <2>8. ASSUME NEW k \in DOMAIN sections', SectionTaken(k)'
          PROVE  /\ EndOf(k)' <= ProgramSize'
                 /\ SectionCopied(k)' => noffH'[SegmentOf(sections'[k].s_name)].inFileAddr
                                    = HeaderSize + sections'[k].s_paddr
      <3>1. EndOf(k)' = EndOf(k) /\ SectionCopied(k)' = SectionCopied(k)
        BY <1>1, <1>16 DEF EndOf
      <3>2. CASE k = next
        BY <1>1, <1>4, <2>1, <2>3, <2>7, <3>1, <3>2
      <3>3. CASE k # next
        <4>1. k \in DOMAIN sections /\ SectionTaken(k)
          BY <1>1, <1>3, <2>8, <3>3
        <4>2. EndOf(k) \in Nat
          BY <1>1, <4>1, SectionFacts DEF EndOf, Section
        <4>3. EndOf(k) <= ProgramSize + n
          BY <1>4, <2>2, <2>3, <4>1, <4>2
        <4>4. QED
          BY <1>1, <1>14, <2>2, <2>3, <3>1, <4>1, <4>3
      <3>4. QED
        BY <3>2, <3>3
    <2>9. ProgramSize' = EndOf(nextSection - 1)'
      BY <2>1, <2>3, <2>4
    <2>10. QED
      BY <2>8, <2>9 DEF PlacesInv
  <1>19. QED
    BY <1>1, <1>13, <1>17, <1>18 DEF ObjectInv, PagesInv

LEMMA CountUninitPlaced ==
  ASSUME ObjectInv, CountUninit
  PROVE  ObjectInv'
  <1>0. PICK next : next = nextSection
    OBVIOUS
  <1> DEFINE s == sections[next]
             n == s.s_size
             u == noffH.uninitData
             v == IF u.size = 0 THEN Segment(s.s_paddr, -1, n) ELSE [u EXCEPT !.size = @ + n]
  <1>1. /\ ObjectTypes /\ HeaderInv /\ PlacesInv /\ Converting
        /\ progress = "converting" /\ nextSection' = next + 1
        /\ UNCHANGED <<sections, inNoffFile, noffFile, progress, swapFile, virtualMemory>>
        /\ n # 0 /\ s.s_name \in {".sbss", ".bss"}
        /\ noffH' = [noffH EXCEPT !.uninitData = v]
    BY <1>0 DEF ObjectInv, CountUninit, Converting
  <1>2. /\ next \in DOMAIN sections /\ next \in Nat /\ s \in Section
        /\ \A k : SectionTaken(k)' <=> SectionTaken(k) \/ k = next
        /\ n \in Nat /\ s.s_paddr \in Nat
    BY <1>0, <1>1, NextSectionFacts DEF Section
  <1>3. /\ noffH \in [code : SegmentType, initData : SegmentType, uninitData : SegmentType]
        /\ noffH.code.size \in Nat /\ noffH.initData.size \in Nat /\ u.size \in Nat
    BY <1>1 DEF ObjectTypes, SegmentType
  <1>4. v \in SegmentType /\ v.size = u.size + n
    <2>1. CASE u.size = 0
      BY <1>2, <2>1 DEF Segment, SegmentType
    <2>2. CASE u.size # 0
      BY <1>2, <1>3, <2>2 DEF SegmentType
    <2>3. QED
      BY <2>1, <2>2
  <1> HIDE DEF v, n
  <1>5. /\ noffH' \in [code : SegmentType, initData : SegmentType, uninitData : SegmentType]
        /\ noffH'.code = noffH.code /\ noffH'.initData = noffH.initData
        /\ noffH'.uninitData = v
    BY <1>1, <1>3, <1>4
  <1>6. ObjectTypes'
    <2>1. nextSection' \in 1 .. Len(sections) + 1
      BY <1>1, <1>2, SectionFacts
    <2>2. QED
      BY <1>1, <1>5, <2>1 DEF ObjectTypes
  <1>7. /\ ~ SectionCopied(next)
        /\ \A k : /\ SectionCopied(k)' = SectionCopied(k) /\ InFile(k)' = InFile(k)
                 /\ noffH'[SegmentOf(sections[k].s_name)] = noffH[SegmentOf(sections[k].s_name)]
    BY <1>1, <1>5 DEF SectionCopied, InFile, SegmentOf, Initialised
  <1>8. HeaderInv'
    BY <1>1, <1>2, <1>5, <1>7 DEF HeaderInv
  <1>9. PlacesInv'
    <2> SUFFICES ASSUME LinkedByScript PROVE PlacesInv'
      BY <1>1 DEF PlacesInv, LinkedByScript
    <2>1. s.s_paddr = ProgramSize /\ EndOf(next) = ProgramSize + n
      BY <1>0, <1>1, NextBegins DEF n
    <2>2. \A k \in DOMAIN sections : SectionTaken(k) =>
              /\ EndOf(k) <= ProgramSize
              /\ SectionCopied(k) => noffH[SegmentOf(sections[k].s_name)].inFileAddr
                                 = HeaderSize + sections[k].s_paddr
      BY <1>1 DEF PlacesInv
    <2>3. ProgramSize \in Nat /\ ProgramSize' = ProgramSize + n
      BY <1>2, <1>3, <1>4, <1>5 DEF ProgramSize
    <2>4. EndOf(nextSection - 1)' = EndOf(next)
      <3>1. nextSection' - 1 = next
        BY <1>1, <1>2
      <3>2. QED
        BY <1>1, <3>1 DEF EndOf
    <2>5. ASSUME NEW k \in DOMAIN sections', SectionTaken(k)'
          PROVE  /\ EndOf(k)' <= ProgramSize'
                 /\ SectionCopied(k)' => noffH'[SegmentOf(sections'[k].s_name)].inFileAddr
                                    = HeaderSize + sections'[k].s_paddr
      <3>1. EndOf(k)' = EndOf(k)
        BY <1>1 DEF EndOf
      <3>2. CASE k = next
        BY <1>2, <1>7, <2>1, <2>3, <3>1, <3>2
      <3>3. CASE k # next
        <4>1. k \in DOMAIN sections /\ SectionTaken(k)
          BY <1>1, <1>2, <2>5, <3>3
        <4>2. EndOf(k) \in Nat
          BY <1>1, <4>1, SectionFacts DEF EndOf, Section
        <4>3. EndOf(k) <= ProgramSize + n
          BY <1>2, <2>2, <2>3, <4>1, <4>2
        <4>4. QED
          BY <1>1, <1>7, <2>2, <2>3, <3>1, <4>1, <4>3
      <3>4. QED
        BY <3>2, <3>3
    <2>6. ProgramSize' = EndOf(nextSection - 1)'
      BY <2>1, <2>3, <2>4
    <2>7. QED
      BY <2>5, <2>6 DEF PlacesInv
  <1>10. QED
    BY <1>1, <1>6, <1>8, <1>9 DEF ObjectInv, PagesInv

\* The segments and the stack have pages.
LEMMA EnoughPages ==
  ASSUME ObjectTypes
  PROVE  /\ numPages \in Nat /\ numPages * PageBytes \in Nat /\ ProgramSize \in Nat
         /\ ProgramSize + UserStackSize <= numPages * PageBytes
  <1> DEFINE size == ProgramSize + UserStackSize
             b == PageBytes
             a == size + b - 1
             q == a \div b
  <1>1. b \in Nat \ {0} /\ ProgramSize \in Nat /\ UserStackSize \in Nat \ {0} /\ size \in Nat
    <2>1. noffH.code.size \in Nat /\ noffH.initData.size \in Nat /\ noffH.uninitData.size \in Nat
      BY DEF ObjectTypes, SegmentType
    <2>2. ProgramSize \in Nat
      BY <2>1 DEF ProgramSize
    <2>3. QED
      BY <2>2, SectionFacts
  <1>2. numPages = q
    BY DEF numPages, ProgramSize
  <1> HIDE DEF b, size
  <1>3. a \in Nat /\ a >= b - 1
    BY <1>1
  <1> HIDE DEF a
  <1>4. q \in Nat /\ a % b \in 0 .. b - 1 /\ q * b \in Nat
    BY <1>1, <1>3
  <1>5. a % b = a - q * b
    BY <1>1, <1>3, SMTT(30)
  <1> DEFINE r == a % b
             p == q * b
  <1>6. r = a - p /\ r \in 0 .. b - 1 /\ p \in Nat
    BY <1>4, <1>5
  <1> HIDE DEF r, p, q
  <1>7. size <= p
    BY <1>1, <1>3, <1>6 DEF a
  <1>8. QED
    BY <1>1, <1>2, <1>4, <1>6, <1>7 DEF p, b, size

\* b is in s behind n others
HasBehind(s, n, b) == \A i \in 1 .. Len(b) : s[n + i] = b[i]

LEMMA Concatenated ==
  ASSUME NEW T, NEW a \in Seq(T), NEW b \in Seq(T)
  PROVE  /\ a \o b \in Seq(T) /\ Len(a \o b) = Len(a) + Len(b)
         /\ \A i \in 1 .. Len(a) : (a \o b)[i] = a[i]
         /\ HasBehind(a \o b, Len(a), b)
  BY DEF HasBehind

\* c is the n elements of s behind the first p, and they are in T
IsPiece(c, s, p, n, T) ==
  c \in Seq(T) /\ Len(c) = n /\ \A k \in 1 .. n : c[k] = s[p + k]

LEMMA PieceIsSeq ==
  ASSUME NEW s, NEW p \in Nat, NEW n \in Nat, NEW T, \A k \in 1 .. n : s[p + k] \in T
  PROVE  IsPiece(SubSeq(s, p + 1, p + n), s, p, n, T)
  <1> DEFINE a == p + 1
             z == p + n
  <1>1. a \in Int /\ z \in Int /\ z - a + 1 = n /\ (a <= z <=> n # 0)
    OBVIOUS
  <1>2. \A k \in 1 .. n : a + k - 1 = p + k
    OBVIOUS
  <1>3. \A i \in a .. z : s[i] \in T
    <2> TAKE i \in a .. z
    <2>1. i - p \in 1 .. n /\ p + (i - p) = i
      OBVIOUS
    <2>2. QED
      BY <2>1
  <1> HIDE DEF a, z
  <1>4. /\ SubSeq(s, a, z) \in Seq(T)
        /\ Len(SubSeq(s, a, z)) = IF a <= z THEN z - a + 1 ELSE 0
        /\ \A i \in 1 .. z - a + 1 : SubSeq(s, a, z)[i] = s[a + i - 1]
    BY <1>1, <1>3, SubSeqProperties
  <1>5. IsPiece(SubSeq(s, a, z), s, p, n, T)
    BY <1>1, <1>2, <1>4 DEF IsPiece
  <1>6. QED
    BY <1>5 DEF a, z

LEMMA PieceOf ==
  ASSUME NEW s, NEW p \in Nat, NEW n \in Nat
  PROVE  /\ SubSeq(s, p + 1, p + n) = [i \in 1 .. n |-> s[p + i]]
         /\ \A i \in 1 .. n : SubSeq(s, p + 1, p + n)[i] = s[p + i]
  <1>1. SubSeq(s, p + 1, p + n) = [i \in 1 .. (p + n) - (p + 1) + 1 |-> s[i + (p + 1) - 1]]
    BY DEF SubSeq
  <1>2. (p + n) - (p + 1) + 1 = n /\ \A i \in 1 .. n : i + (p + 1) - 1 = p + i
    OBVIOUS
  <1>3. QED
    BY <1>1, <1>2

LEMMA CreatePlaced ==
  ASSUME ObjectInv, CreateSwapFile
  PROVE  ObjectInv'
  <1>1. /\ ObjectTypes /\ HeaderInv /\ PlacesInv /\ virtualMemory = <<>>
        /\ progress' = "created"
        /\ UNCHANGED <<sections, nextSection, noffH, inNoffFile, noffFile, virtualMemory>>
    BY DEF ObjectInv, CreateSwapFile
  <1>2. nextSection = Len(sections) + 1
    BY <1>1 DEF CreateSwapFile, HeaderInv
  <1>3. ObjectTypes' /\ HeaderInv' /\ PlacesInv'
    <2>1. ObjectTypes'
      BY <1>1 DEF ObjectTypes
    <2>2. HeaderInv'
      BY <1>1, <1>2 DEF HeaderInv, SectionTaken, SectionCopied, InFile
    <2>3. PlacesInv'
      BY <1>1 DEF PlacesInv, LinkedByScript, ProgramSize, EndOf, SectionTaken, SectionCopied
    <2>4. QED
      BY <2>1, <2>2, <2>3
  <1> DEFINE Words == {<<"zero", 0>>, <<"old", 0>>} \cup ({"header"} \X Nat) \cup (SectionNames \X Nat)
             header == [k \in 1 .. HeaderSize |-> <<"header", k>>]
             n == numPages * PageBytes - Len(noffFile)
  <1>4. PICK word \in {<<"zero", 0>>, <<"old", 0>>} :
            swapFile' = header \o noffFile \o [k \in 1 .. n |-> word]
    BY DEF CreateSwapFile
  <1> DEFINE rest == [k \in 1 .. n |-> word]
  <1>5. n \in Nat /\ Len(noffFile) \in Nat /\ HeaderSize \in Nat
    <2>1. ProgramSize >= Len(noffFile)
      <3>1. noffH.uninitData.size \in Nat /\ noffH.code.size \in Nat /\ noffH.initData.size \in Nat
        BY <1>1 DEF ObjectTypes, SegmentType
      <3>2. QED
        BY <1>1, <3>1 DEF ProgramSize, HeaderInv
    <2> DEFINE p == numPages * PageBytes
    <2>2. p \in Nat /\ ProgramSize + UserStackSize <= p /\ ProgramSize \in Nat
      BY <1>1, EnoughPages
    <2> HIDE DEF p
    <2>3. p - Len(noffFile) \in Nat
      BY <1>1, <2>1, <2>2, SectionFacts
    <2>4. QED
      BY <1>1, <2>3, SectionFacts DEF p
  <1>6. /\ header \in Seq(Words) /\ Len(header) = HeaderSize
        /\ rest \in Seq(Words) /\ Len(rest) = n
        /\ noffFile \in Seq(Words)
    <2> HIDE DEF n
    <2>1. noffFile \in Seq(SectionNames \X Nat)
      BY <1>1 DEF ObjectTypes
    <2>2. \A k \in 1 .. HeaderSize : <<"header", k>> \in Words
      BY <1>5
    <2>3. word \in Words
      OBVIOUS
    <2>4. SectionNames \X Nat \subseteq Words
      OBVIOUS
    <2> HIDE DEF Words
    <2>5. noffFile \in Seq(Words)
      BY <2>1, <2>4
    <2>6. QED
      BY <1>5, <2>2, <2>3, <2>5
  <1> HIDE DEF Words, header, rest, n
  <1>7. /\ header \o noffFile \in Seq(Words) /\ Len(header \o noffFile) = HeaderSize + Len(noffFile)
        /\ \A i \in 1 .. Len(noffFile) : (header \o noffFile)[HeaderSize + i] = noffFile[i]
    <2>1. /\ header \o noffFile \in Seq(Words) /\ Len(header \o noffFile) = Len(header) + Len(noffFile)
          /\ HasBehind(header \o noffFile, Len(header), noffFile)
      <3>1. header \in Seq(Words) /\ noffFile \in Seq(Words)
        BY <1>6
      <3>2. QED
        BY <3>1, Concatenated, ZenonT(30)
    <2>2. QED
      BY <1>6, <2>1 DEF HasBehind
  <1> DEFINE front == header \o noffFile
  <1>8. swapFile' = front \o rest
    BY <1>4 DEF rest, header, n
  <1> HIDE DEF front
  <1>9. front \in Seq(Words) /\ Len(front) = HeaderSize + Len(noffFile)
        /\ \A i \in 1 .. Len(noffFile) : front[HeaderSize + i] = noffFile[i]
    BY <1>7 DEF front
  <1>10. /\ swapFile' \in Seq(Words) /\ Len(swapFile') = HeaderSize + Len(noffFile) + n
         /\ \A i \in 1 .. Len(front) : swapFile'[i] = front[i]
    <2>1. /\ front \o rest \in Seq(Words) /\ Len(front \o rest) = Len(front) + Len(rest)
          /\ \A i \in 1 .. Len(front) : (front \o rest)[i] = front[i]
      <3>1. front \in Seq(Words) /\ rest \in Seq(Words)
        BY <1>6, <1>9
      <3>2. QED
        BY <3>1, Concatenated, ZenonT(30)
    <2>2. QED
      BY <1>6, <1>8, <1>9, <2>1
  <1>11. \A i \in 1 .. Len(noffFile) : swapFile'[HeaderSize + i] = noffFile[i]
    BY <1>5, <1>9, <1>10
  <1>12. Len(swapFile') = HeaderSize + numPages * PageBytes
    <2> DEFINE p == numPages * PageBytes
    <2>1. p \in Nat /\ n = p - Len(noffFile)
      BY <1>1, EnoughPages DEF n
    <2> HIDE DEF p
    <2>2. HeaderSize + Len(noffFile) + n = HeaderSize + p
      BY <1>5, <2>1
    <2>3. QED
      BY <1>10, <2>2 DEF p
  <1>13. numPages' = numPages
    BY <1>1 DEF numPages
  <1>14. DOMAIN virtualMemory' = {}
    BY <1>1
  <1>15. PagesInv'
    BY <1>1, <1>10, <1>11, <1>12, <1>13, <1>14 DEF PagesInv, Words
  <1>16. QED
    BY <1>1, <1>3, <1>15 DEF ObjectInv

LEMMA LoadPagePlaced ==
  ASSUME ObjectInv, NEW vpn \in 0 .. numPages - 1, LoadPage(vpn)
  PROVE  ObjectInv'
  <1> DEFINE position == HeaderSize + vpn * PageBytes
             page == SubSeq(swapFile, position + 1, position + PageBytes)
  <1>1. /\ ObjectTypes /\ HeaderInv /\ PlacesInv /\ PagesInv /\ progress = "created"
        /\ UNCHANGED <<sections, nextSection, noffH, inNoffFile, noffFile, progress, swapFile>>
        /\ virtualMemory' = [p \in DOMAIN virtualMemory \cup {vpn} |->
                                 IF p = vpn THEN page ELSE virtualMemory[p]]
    BY DEF ObjectInv, LoadPage
  <1>2. ObjectTypes' /\ HeaderInv' /\ PlacesInv'
    <2>1. ObjectTypes'
      BY <1>1 DEF ObjectTypes
    <2>2. HeaderInv'
      BY <1>1 DEF HeaderInv, SectionTaken, SectionCopied, InFile
    <2>3. PlacesInv'
      BY <1>1 DEF PlacesInv, LinkedByScript, ProgramSize, EndOf, SectionTaken, SectionCopied
    <2>4. QED
      BY <2>1, <2>2, <2>3
  <1>3. /\ HeaderSize \in Nat /\ PageBytes \in Nat \ {0} /\ numPages \in Nat
        /\ Len(swapFile) = HeaderSize + numPages * PageBytes
    BY <1>1, SectionFacts, EnoughPages DEF PagesInv
  <1>4. vpn * PageBytes \in Nat /\ vpn * PageBytes + PageBytes <= numPages * PageBytes
    <2>1. (numPages - vpn) * PageBytes >= PageBytes
      BY <1>3
    <2>2. (numPages - vpn) * PageBytes = numPages * PageBytes - vpn * PageBytes
      BY <1>3
    <2>3. vpn * PageBytes \in Nat /\ numPages * PageBytes \in Nat
      BY <1>3
    <2>4. QED
      BY <1>3, <2>1, <2>2, <2>3
  <1>5. \A i \in 1 .. PageBytes : page[i] = swapFile[HeaderSize + vpn * PageBytes + i]
    <2> DEFINE at == vpn * PageBytes
               all == numPages * PageBytes
    <2>1. at \in Nat /\ at + PageBytes <= all /\ Len(swapFile) = HeaderSize + all
          /\ position = HeaderSize + at /\ HeaderSize \in Nat /\ PageBytes \in Nat \ {0}
      BY <1>3, <1>4
    <2> HIDE DEF at, all, position
    <2>2. position \in Nat
      BY <2>1
    <2>3. \A i \in 1 .. PageBytes : page[i] = swapFile[position + i]
      BY <2>1, <2>2, PieceOf
    <2>4. QED
      BY <2>1, <2>3 DEF at
  <1> HIDE DEF page
  <1>6. numPages' = numPages
    BY <1>1 DEF numPages
  <1>7. ASSUME NEW p \in DOMAIN virtualMemory'
        PROVE  /\ p \in 0 .. numPages - 1
               /\ \A i \in 1 .. PageBytes :
                      virtualMemory'[p][i] = swapFile[HeaderSize + p * PageBytes + i]
    <2>1. CASE p = vpn
      BY <1>1, <1>5, <2>1
    <2>2. CASE p # vpn
      BY <1>1, <2>2 DEF PagesInv
    <2>3. QED
      BY <2>1, <2>2
  <1>8. PagesInv'
    BY <1>1, <1>6, <1>7 DEF PagesInv
  <1>9. QED
    BY <1>1, <1>2, <1>8 DEF ObjectInv

LEMMA ObjectStep == ObjectInv /\ [ObjectNext]_objectVars => ObjectInv'
  <1> SUFFICES ASSUME ObjectInv, [ObjectNext]_objectVars PROVE ObjectInv'
    OBVIOUS
  <1>1. CASE Unlink
    BY <1>1 DEF Unlink, Converting, ObjectInv, ObjectTypes, PagesInv
  <1>2. CASE WriteHeader
    <2>1. /\ ObjectTypes /\ HeaderInv /\ PlacesInv /\ virtualMemory = <<>>
          /\ progress' = "converted"
          /\ UNCHANGED <<sections, nextSection, noffH, inNoffFile, noffFile, swapFile, virtualMemory>>
          /\ nextSection > Len(sections)
      BY <1>2 DEF ObjectInv, WriteHeader
    <2>2. ObjectTypes'
      BY <2>1 DEF ObjectTypes
    <2>3. nextSection = Len(sections) + 1
      BY <2>1, SectionFacts DEF ObjectTypes
    <2>4. HeaderInv'
      BY <2>1, <2>3 DEF HeaderInv, SectionTaken, SectionCopied, InFile
    <2>5. PlacesInv'
      BY <2>1 DEF PlacesInv, LinkedByScript, ProgramSize, EndOf, SectionTaken, SectionCopied
    <2>6. QED
      BY <2>1, <2>2, <2>4, <2>5 DEF ObjectInv, PagesInv
  <1>3. CASE UNCHANGED objectVars
    <2>1. UNCHANGED <<sections, nextSection, noffH, inNoffFile, noffFile, progress, swapFile,
                      virtualMemory>>
      BY <1>3 DEF objectVars
    <2>2. ObjectTypes' = ObjectTypes
      BY <2>1 DEF ObjectTypes
    <2>3. HeaderInv' = HeaderInv
      BY <2>1 DEF HeaderInv, SectionTaken, SectionCopied, InFile
    <2>4. PlacesInv' = PlacesInv
      BY <2>1 DEF PlacesInv, LinkedByScript, ProgramSize, EndOf, SectionTaken, SectionCopied
    <2>5. PagesInv' = PagesInv
      BY <2>1 DEF PagesInv, numPages
    <2>6. QED
      BY <2>1, <2>2, <2>3, <2>4, <2>5 DEF ObjectInv
  <1>4. QED
    BY <1>1, <1>2, <1>3, SkipEmptyPlaced, CopySegmentPlaced, CountUninitPlaced, CreatePlaced,
       LoadPagePlaced DEF ObjectNext

LEMMA ObjectInvPlaces == ObjectInv => ProgramInPlace
  <1> SUFFICES ASSUME ObjectInv, progress \in {"converted", "created"}
               PROVE  SegmentsInFile /\ BytesInPlace
    BY DEF ProgramInPlace, SegmentsInFile, BytesInPlace
  <1>1. ObjectTypes /\ HeaderInv /\ PlacesInv /\ PagesInv
    BY DEF ObjectInv
  <1>2. \A k \in DOMAIN sections : SectionTaken(k)
    BY <1>1, SectionFacts DEF HeaderInv, SectionTaken
  <1>3. \A k \in DOMAIN sections : SectionCopied(k) => InFile(k)
    BY <1>1, <1>2 DEF HeaderInv
  <1>4. SegmentsInFile
    <2> SUFFICES ASSUME NEW k \in DOMAIN sections, SectionCopied(k)
                 PROVE  LET s == sections[k]
                            g == noffH[SegmentOf(s.s_name)]
                            at == g.inFileAddr - HeaderSize
                        IN  /\ g.virtualAddr = s.s_paddr
                            /\ SubSeq(noffFile, at + 1, at + g.size) = BytesOfSection(s)
      BY DEF SegmentsInFile, SectionCopied
    <2> DEFINE s == sections[k]
               g == noffH[SegmentOf(s.s_name)]
               at == g.inFileAddr - HeaderSize
               n == s.s_size
    <2>1. /\ g.virtualAddr = s.s_paddr /\ g.size = n
          /\ at \in Nat /\ at + n <= Len(noffFile)
          /\ \A x \in 1 .. n : noffFile[at + x] = <<s.s_name, x>>
      BY <1>3 DEF InFile
    <2>2. n \in Nat /\ Len(noffFile) \in Nat
      BY <1>1, SectionFacts DEF Section
    <2>3. BytesOfSection(s) = [x \in 1 .. n |-> <<s.s_name, x>>]
      BY DEF BytesOfSection
    <2> HIDE DEF at, n
    <2>4. SubSeq(noffFile, at + 1, at + n) = [x \in 1 .. n |-> noffFile[at + x]]
      BY <2>1, <2>2, PieceOf
    <2>5. [x \in 1 .. n |-> noffFile[at + x]] = [x \in 1 .. n |-> <<s.s_name, x>>]
      BY <2>1
    <2>6. QED
      BY <2>1, <2>3, <2>4, <2>5 DEF at
  <1>5. BytesInPlace
    <2> SUFFICES ASSUME progress = "created", LinkedByScript, NEW k \in DOMAIN sections,
                        NEW x \in 1 .. sections[k].s_size
                 PROVE  LET s == sections[k]
                            addr == s.s_paddr + x - 1
                            vpn == addr \div PageBytes
                        IN  /\ addr + UserStackSize < numPages * PageBytes
                            /\ s.s_name \in Initialised /\ vpn \in DOMAIN virtualMemory =>
                                  virtualMemory[vpn][1 + (addr % PageBytes)] = <<s.s_name, x>>
      BY DEF BytesInPlace
    <2> DEFINE s == sections[k]
               n == s.s_size
               place == s.s_paddr
               addr == place + x - 1
               vpn == addr \div PageBytes
               off == addr % PageBytes
               all == numPages * PageBytes
    <2>1. /\ place \in Nat /\ n \in Nat /\ PageBytes \in Nat \ {0} /\ UserStackSize \in Nat
          /\ HeaderSize \in Nat /\ Len(noffFile) \in Nat /\ DOMAIN sections \subseteq Nat \ {0}
      BY <1>1, SectionFacts DEF Section
    <2>2. place + n <= ProgramSize
      BY <1>1, <1>2, <2>1 DEF PlacesInv, EndOf
    <2>3. all \in Nat /\ ProgramSize \in Nat /\ ProgramSize + UserStackSize <= all
      BY <1>1, EnoughPages
    <2> HIDE DEF place, n, all
    <2>4. addr \in Nat /\ addr + UserStackSize < all
      <3>1. x \in 1 .. n
        BY DEF n
      <3>2. addr \in Nat /\ addr + UserStackSize < ProgramSize + UserStackSize
        BY <2>1, <2>2, <2>3, <3>1
      <3>3. QED
        BY <2>1, <2>3, <3>2
    <2>5. ASSUME s.s_name \in Initialised, vpn \in DOMAIN virtualMemory
          PROVE  virtualMemory[vpn][1 + off] = <<s.s_name, x>>
      <3>1. SectionCopied(k)
        BY <2>1, <2>5 DEF SectionCopied, n
      <3>2. /\ noffH[SegmentOf(s.s_name)].inFileAddr = HeaderSize + place
            /\ InFile(k)
        BY <1>1, <1>2, <1>3, <3>1 DEF PlacesInv, place
      <3>3. (HeaderSize + place) - HeaderSize = place
        BY <2>1
      <3>4. place + n <= Len(noffFile) /\ noffFile[place + x] = <<s.s_name, x>>
        BY <3>2, <3>3 DEF InFile, n
      <3>5. /\ vpn \in Int /\ off \in 0 .. PageBytes - 1 /\ vpn * PageBytes \in Int
            /\ off = addr - vpn * PageBytes
        <4> HIDE DEF addr
        <4>1. addr \in Int /\ PageBytes \in Nat \ {0}
          BY <2>1, <2>4
        <4>2. /\ vpn \in Int /\ off \in 0 .. PageBytes - 1 /\ PageBytes * vpn \in Int
              /\ addr = PageBytes * vpn + off
          BY <4>1, DivMod
        <4> HIDE DEF vpn, off
        <4>3. PageBytes * vpn = vpn * PageBytes /\ off \in Int
          BY <4>1, <4>2
        <4> DEFINE at == PageBytes * vpn
        <4> HIDE DEF at
        <4>4. off = addr - at
          BY <4>1, <4>2, <4>3 DEF at
        <4>5. QED
          BY <4>2, <4>3, <4>4 DEF at
      <3> DEFINE at == vpn * PageBytes
      <3> HIDE DEF vpn
      <3>6. /\ at \in Int /\ off = addr - at /\ off \in 0 .. PageBytes - 1
            /\ \A i \in 1 .. PageBytes : virtualMemory[vpn][i] = swapFile[HeaderSize + at + i]
            /\ \A i \in 1 .. Len(noffFile) : swapFile[HeaderSize + i] = noffFile[i]
        BY <1>1, <2>5, <3>5 DEF PagesInv
      <3> HIDE DEF at, off
      <3>7. 1 + off \in 1 .. PageBytes /\ HeaderSize + at + (1 + off) = HeaderSize + (place + x)
        <4>1. /\ at \in Int /\ off = (place + x - 1) - at /\ off \in 0 .. PageBytes - 1
              /\ place \in Nat /\ x \in Int /\ HeaderSize \in Nat /\ PageBytes \in Nat
          BY <2>1, <3>6 DEF n
        <4>2. QED
          BY <4>1
      <3>8. place + x \in 1 .. Len(noffFile)
        BY <2>1, <3>4 DEF n
      <3>9. QED
        BY <3>4, <3>6, <3>7, <3>8
    <2>6. QED
      BY <2>4, <2>5 DEF place, all
  <1>6. QED
    BY <1>4, <1>5

\* bin/coff2noff.c and userprog/addrspace.cc: whatever sections the linker made and
\* however large they, the pages and the stack are, a file that was converted has every
\* segment where its header says, and what a page fault reads is at the address where
\* the script of the tests linked it.
THEOREM ProgramsArrive == MemorySpec => []ProgramInPlace
  <1>1. MemoryInit => ObjectInv
    BY ObjectStarts DEF MemoryInit
  <1>2. ObjectInv /\ [OnDemand \/ InRows \/ FromFile]_memoryVars => ObjectInv'
    BY ObjectStep DEF OnDemand, InRows, FromFile, memoryVars
  <1>3. QED
    BY <1>1, <1>2, ObjectInvPlaces, PTL DEF MemorySpec

-----------------------------------------------------------------------------
(* The calls of Find.                                                      *)

\* how many elements of a set of numbers are less than s
Below(S, s) == {u \in S : u < s}

Rank(S, s) == Cardinality(Below(S, s))

LEMMA RanksGrow ==
  ASSUME NEW S \in SUBSET Nat, IsFiniteSet(S)
  PROVE  /\ \A s \in S : Rank(S, s) \in 0 .. Cardinality(S) - 1
         /\ \A s, t \in S : s < t => Rank(S, s) < Rank(S, t)
  <1>1. \A s \in S : /\ IsFiniteSet(Below(S, s))
                     /\ Rank(S, s) \in Nat
                     /\ Cardinality(Below(S, s)) < Cardinality(S)
    <2> TAKE s \in S
    <2>1. Below(S, s) \in SUBSET S /\ s \notin Below(S, s)
      BY DEF Below
    <2>2. /\ IsFiniteSet(Below(S, s))
          /\ Cardinality(Below(S, s)) <= Cardinality(S)
          /\ Cardinality(S) # Cardinality(Below(S, s))
      BY <2>1, FS_Subset
    <2>3. Cardinality(Below(S, s)) \in Nat /\ Cardinality(S) \in Nat
      BY <2>2, FS_CardinalityType
    <2>4. QED
      BY <2>2, <2>3 DEF Rank
  <1>2. Cardinality(S) \in Nat
    BY FS_CardinalityType
  <1>3. ASSUME NEW s \in S, NEW t \in S, s < t
        PROVE  Rank(S, s) < Rank(S, t)
    <2>1. Below(S, s) \in SUBSET Below(S, t) /\ s \in Below(S, t) /\ s \notin Below(S, s)
      <3>1. s \in Nat /\ t \in Nat /\ ~ (s < s)
        OBVIOUS
      <3>2. \A u \in S : u < s => u < t
        BY <1>3
      <3>3. QED
        BY <1>3, <3>1, <3>2 DEF Below
    <2>2. /\ Cardinality(Below(S, s)) <= Cardinality(Below(S, t))
          /\ Cardinality(Below(S, t)) # Cardinality(Below(S, s))
      BY <1>1, <2>1, FS_Subset
    <2>3. QED
      BY <1>1, <2>2 DEF Rank
  <1>4. QED
    BY <1>1, <1>2, <1>3 DEF Rank

\* every rank below the number of elements is the rank of one of them
LEMMA RanksTaken ==
  ASSUME NEW S \in SUBSET Nat, IsFiniteSet(S)
  PROVE  \A k \in 0 .. Cardinality(S) - 1 : \E s \in S : Rank(S, s) = k
  <1> DEFINE n == Cardinality(S)
             f == [s \in S |-> Rank(S, s)]
  <1>1. n \in Nat
    BY FS_CardinalityType
  <1>2. f \in Injection(S, 0 .. n - 1)
    <2>1. f \in [S -> 0 .. n - 1]
      BY RanksGrow
    <2>2. ASSUME NEW s \in S, NEW t \in S, s # t PROVE f[s] # f[t]
      <3>1. Rank(S, s) \in Nat /\ Rank(S, t) \in Nat
        BY <1>1, RanksGrow
      <3>2. s < t \/ t < s
        BY <2>2
      <3>3. QED
        BY <3>1, <3>2, RanksGrow
    <2>3. QED
      BY <2>1, <2>2 DEF Injection, IsInjective
  <1>3. IsFiniteSet(0 .. n - 1) /\ Cardinality(0 .. n - 1) = n
    <2>1. 0 \in Int /\ n - 1 \in Int /\ (IF 0 > n - 1 THEN 0 ELSE n - 1 - 0 + 1) = n
      BY <1>1
    <2> HIDE DEF n
    <2>2. QED
      BY <2>1, FS_Interval
  <1>4. f \in Surjection(S, 0 .. n - 1)
    <2> HIDE DEF f
    <2> QED
      BY <1>2, <1>3, FS_Injection
  <1>5. QED
    BY <1>4 DEF Surjection


\* more calls of Find than the largest file needs
MaxCalls == NumSectors + PtrsPerSector + 2

\* The calls of Find return different clear sectors, while there are any.
LEMMA FindsFacts ==
  ASSUME NEW map, NEW find, find = Finds(map)
  PROVE  /\ find \in [1 .. MaxCalls -> Pointers]
         /\ \A k \in 1 .. MaxCalls : find[k] # -1 => find[k] \in Sectors \ map
         /\ \A k, l \in 1 .. MaxCalls : find[k] = find[l] /\ find[k] # -1 => k = l
  <1> DEFINE clear == Sectors \ map
             R(k) == CHOOSE s \in clear : Rank(clear, s) = k - 1
  <1>1. clear \in SUBSET Nat /\ IsFiniteSet(clear) /\ Cardinality(clear) \in Nat
    <2>1. 0 \in Int /\ NumSectors - 1 \in Int
      BY FileHeaderAssumption
    <2>2. IsFiniteSet(Sectors)
      BY <2>1, FS_Interval DEF Sectors
    <2>3. clear \in SUBSET Sectors /\ Sectors \in SUBSET Nat
      BY DEF Sectors
    <2>4. QED
      BY <2>2, <2>3, FS_Subset, FS_CardinalityType
  <1>2. find = [k \in 1 .. MaxCalls |-> IF k <= Cardinality(clear) THEN R(k) ELSE -1]
    BY DEF Finds, Rank, Below, MaxCalls
  <1>3. ASSUME NEW k \in 1 .. MaxCalls, k <= Cardinality(clear)
        PROVE  R(k) \in clear /\ Rank(clear, R(k)) = k - 1
    <2>1. k - 1 \in 0 .. Cardinality(clear) - 1
      BY <1>1, <1>3
    <2> HIDE DEF clear
    <2>2. \E s \in clear : Rank(clear, s) = k - 1
      BY <1>1, <2>1, RanksTaken
    <2>3. QED
      BY <2>2
  <1>4. \A k \in 1 .. MaxCalls : k \in Int
    OBVIOUS
  <1>5. clear \in SUBSET Pointers /\ -1 \in Pointers /\ -1 \notin clear
    BY FileHeaderAssumption DEF Sectors, Pointers
  <1>6. clear = Sectors \ map
    OBVIOUS
  <1> HIDE DEF clear, R
  <1>7. find \in [1 .. MaxCalls -> Pointers]
    BY <1>2, <1>3, <1>5
  <1>8. \A k \in 1 .. MaxCalls : find[k] # -1 =>
           k <= Cardinality(clear) /\ find[k] = R(k)
    BY <1>2
  <1>9. \A k \in 1 .. MaxCalls : find[k] # -1 =>
           find[k] \in clear /\ Rank(clear, find[k]) = k - 1
    BY <1>3, <1>8
  <1>10. \A k, l \in 1 .. MaxCalls : k - 1 = l - 1 => k = l
    OBVIOUS
  <1>11. QED
    BY <1>6, <1>7, <1>9, <1>10

-----------------------------------------------------------------------------
(* Division.                                                               *)

LEMMA QuotientBelow ==
  ASSUME NEW b \in Nat \ {0}, NEW p \in Nat, NEW q \in Nat, NEW r \in 0 .. b - 1,
         NEW s \in 0 .. b - 1, b * p + r <= b * q + s
  PROVE  p <= q /\ (p = q => r <= s)
  <1>1. ASSUME q < p PROVE FALSE
    <2>1. PICK d \in Nat : p = q + 1 + d
      <3>1. p - q - 1 \in Nat /\ p = q + 1 + (p - q - 1)
        BY <1>1
      <3>2. QED
        BY <3>1
    <2>2. b * p = b * q + b + b * d /\ b * d \in Nat /\ b * q \in Nat
      BY <2>1
    <2>3. QED
      BY <2>2
  <1>2. b * q \in Nat /\ (p = q => b * p = b * q)
    OBVIOUS
  <1>3. p = q => r <= s
    BY <1>2
  <1>4. QED
    BY <1>1, <1>3

LEMMA ProductBelow ==
  ASSUME NEW b \in Nat, NEW p \in Nat, NEW q \in Nat, p < q
  PROVE  b * p \in Nat /\ b * q \in Nat /\ b * p + b <= b * q
  <1>1. PICK d \in Nat : q = p + 1 + d
    <2>1. q - p - 1 \in Nat /\ q = p + 1 + (q - p - 1)
      OBVIOUS
    <2>2. QED
      BY <2>1
  <1>2. b * q = b * p + b + b * d /\ b * d \in Nat /\ b * p \in Nat
    BY <1>1
  <1>3. QED
    BY <1>2

-----------------------------------------------------------------------------
(* The last tier: a pointer block is allocated before every b data sectors. *)

\* the calls of Find, from that for the first pointer block
TierData(b, o) == (b + 1) * (o \div b) + (o % b) + 1

TierBlock(b, j) == (b + 1) * j

TierLast(b, top) == top + (top \div b) + 1

LEMMA TierCalls ==
  ASSUME NEW b \in Nat \ {0}, NEW top \in Nat
  PROVE  /\ top \div b \in Nat /\ TierLast(b, top) \in Nat
         /\ \A o \in 0 .. top : /\ o \div b \in 0 .. top \div b /\ o % b \in 0 .. b - 1
                                /\ o = b * (o \div b) + (o % b)
                                /\ TierData(b, o) \in 1 .. TierLast(b, top)
         /\ \A o, p \in 0 .. top : TierData(b, o) = TierData(b, p) => o = p
         /\ \A j \in 0 .. top \div b : TierBlock(b, j) \in 0 .. TierLast(b, top)
         /\ \A o \in 0 .. top, j \in Nat : TierData(b, o) # TierBlock(b, j)
         /\ \A j, k \in Nat : TierBlock(b, j) = TierBlock(b, k) => j = k
         /\ \A e \in 0 .. TierLast(b, top) :
               \/ \E j \in 0 .. top \div b : e = TierBlock(b, j)
               \/ \E o \in 0 .. top : e = TierData(b, o)
  <1> DEFINE g == top \div b
             h == top % b
             w == b + 1
  <1>1. \A o \in Nat : /\ o \div b \in Nat /\ o % b \in 0 .. b - 1
                       /\ o = b * (o \div b) + (o % b)
    <2> TAKE o \in Nat
    <2>1. o \in Int
      OBVIOUS
    <2>2. /\ o \div b \in Int /\ o % b \in 0..(b - 1) /\ b * (o \div b) \in Int
          /\ o = b * (o \div b) + (o % b)
      BY <2>1, DivMod
    <2>3. o \div b \in Nat
      OBVIOUS
    <2>4. QED
      BY <2>2, <2>3
  <1>2. g \in Nat /\ h \in 0 .. b - 1 /\ top = b * g + h
    BY <1>1
  <1>3. w \in Nat \ {0} /\ \A j \in Nat : w * j = b * j + j /\ b * j \in Nat /\ w * j \in Nat
    OBVIOUS
  <1>4. TierLast(b, top) = w * g + (h + 1) /\ h + 1 \in 0 .. w - 1
    BY <1>2, <1>3 DEF TierLast
  <1>5. \A o \in Nat : TierData(b, o) = w * (o \div b) + ((o % b) + 1)
                       /\ (o % b) + 1 \in 1 .. w - 1
    BY <1>1, <1>3 DEF TierData
  <1>6. \A j : TierBlock(b, j) = w * j
    BY DEF TierBlock
  <1>7. \A j, k \in Nat, r \in 0 .. w - 1, s \in 0 .. w - 1 :
           w * j + r = w * k + s => j = k /\ r = s
    <2> TAKE j, k \in Nat, r \in 0 .. w - 1, s \in 0 .. w - 1
    <2> HIDE DEF w
    <2>1. w * j \in Nat /\ w * k \in Nat
      BY <1>3
    <2>2. HAVE w * j + r = w * k + s
    <2>3. j <= k /\ (j = k => r <= s)
      BY <1>3, <2>1, <2>2, QuotientBelow
    <2>4. k <= j /\ (k = j => s <= r)
      BY <1>3, <2>1, <2>2, QuotientBelow
    <2>5. QED
      BY <2>3, <2>4
  <1> HIDE DEF g, h, w
  <1>8. ASSUME NEW o \in 0 .. top
        PROVE  /\ o \div b \in 0 .. g /\ o % b \in 0 .. b - 1
               /\ o = b * (o \div b) + (o % b)
               /\ TierData(b, o) \in 1 .. TierLast(b, top)
    <2> DEFINE q == o \div b
               r == o % b
    <2>1. o \in Nat /\ q \in Nat /\ r \in 0 .. b - 1 /\ o = b * q + r
      BY <1>1
    <2>2. TierData(b, o) = w * q + (r + 1) /\ r + 1 \in 1 .. w - 1
      BY <1>5, <2>1
    <2>3. b * q + r <= b * g + h
      BY <1>2, <2>1
    <2> HIDE DEF q, r
    <2>4. q <= g /\ (q = g => r <= h)
      BY <1>2, <2>1, <2>3, QuotientBelow
    <2>5. w * q \in Nat /\ w * g \in Nat
      BY <1>2, <1>3, <2>1
    <2>6. w * q + (r + 1) <= w * g + (h + 1)
      <3>1. CASE q = g
        BY <1>2, <2>1, <2>4, <2>5, <3>1
      <3>2. CASE q < g
        <4>1. w * q + w <= w * g
          BY <1>2, <1>3, <2>1, <3>2, ProductBelow
        <4>2. QED
          BY <1>2, <1>3, <2>1, <2>2, <2>5, <4>1
      <3>3. QED
        BY <1>2, <2>1, <2>4, <3>1, <3>2
    <2>7. TierData(b, o) \in 1 .. TierLast(b, top)
      BY <1>2, <1>4, <2>1, <2>2, <2>5, <2>6
    <2>8. q \in 0 .. g
      BY <1>2, <2>1, <2>4
    <2>9. QED
      BY <2>1, <2>7, <2>8 DEF q, r
  <1>9. ASSUME NEW o \in 0 .. top, NEW p \in 0 .. top, TierData(b, o) = TierData(b, p)
        PROVE  o = p
    <2>1. o \in Nat /\ p \in Nat
      OBVIOUS
    <2>2. (o % b) + 1 \in 0 .. w - 1 /\ (p % b) + 1 \in 0 .. w - 1
      <3>1. (o % b) + 1 \in 1 .. w - 1 /\ (p % b) + 1 \in 1 .. w - 1
        BY <1>5, <2>1
      <3>2. QED
        BY <1>3, <3>1
    <2>3. w * (o \div b) + ((o % b) + 1) = w * (p \div b) + ((p % b) + 1)
      BY <1>5, <1>9, <2>1
    <2>4. o \div b = p \div b /\ (o % b) + 1 = (p % b) + 1
      <3>1. o \div b \in Nat /\ p \div b \in Nat
        BY <1>1, <2>1
      <3> DEFINE j == o \div b
                 k == p \div b
                 r == (o % b) + 1
                 t == (p % b) + 1
      <3>2. j \in Nat /\ k \in Nat /\ r \in 0 .. w - 1 /\ t \in 0 .. w - 1 /\ w * j + r = w * k + t
        BY <2>2, <2>3, <3>1
      <3> HIDE DEF j, k, r, t
      <3>3. j = k /\ r = t
        BY <1>7, <3>2
      <3>4. QED
        BY <3>3 DEF j, k, r, t
    <2>5. o % b \in Int /\ p % b \in Int
      BY <1>1, <2>1
    <2>6. o % b = p % b
      BY <2>4, <2>5
    <2>7. o = b * (o \div b) + (o % b) /\ p = b * (p \div b) + (p % b)
      BY <1>1, <2>1
    <2>8. QED
      BY <2>4, <2>6, <2>7
  <1>10. ASSUME NEW j \in 0 .. g PROVE TierBlock(b, j) \in 0 .. TierLast(b, top)
    <2>1. j \in Nat /\ (j = g \/ j < g) /\ w * j \in Nat /\ w * g \in Nat
      BY <1>2, <1>3
    <2>2. w * j <= w * g
      BY <1>2, <1>3, <2>1, ProductBelow
    <2>3. QED
      BY <1>2, <1>4, <1>6, <2>1, <2>2
  <1>11. ASSUME NEW o \in 0 .. top, NEW j \in Nat PROVE TierData(b, o) # TierBlock(b, j)
    <2>1. o \in Nat /\ o \div b \in Nat /\ (o % b) + 1 \in 1 .. w - 1
      <3>1. o \in Nat
        OBVIOUS
      <3>2. QED
        BY <1>1, <1>5, <3>1
    <2>2. 0 \in 0 .. w - 1 /\ w * j + 0 = w * j /\ (o % b) + 1 \in 0 .. w - 1
      BY <1>3, <2>1
    <2>3. w * (o \div b) + ((o % b) + 1) # w * j + 0
      BY <1>7, <2>1, <2>2
    <2>4. QED
      BY <1>5, <1>6, <2>1, <2>2, <2>3
  <1>12. ASSUME NEW j \in Nat, NEW k \in Nat, TierBlock(b, j) = TierBlock(b, k) PROVE j = k
    <2>1. 0 \in 0 .. w - 1 /\ w * j + 0 = w * k + 0
      BY <1>3, <1>6, <1>12
    <2>2. QED
      BY <1>7, <2>1
  <1>13. ASSUME NEW e \in 0 .. TierLast(b, top)
         PROVE  \/ \E j \in 0 .. g : e = TierBlock(b, j)
                \/ \E o \in 0 .. top : e = TierData(b, o)
    <2> DEFINE q == e \div w
               r == e % w
    <2>1. e \in Int /\ e >= 0 /\ w * g \in Nat
      BY <1>2, <1>3, <1>4
    <2>2. q \in Int /\ r \in 0 .. w - 1 /\ e = w * q + r
      BY <1>3, <2>1, DivMod
    <2>3. q \in Nat
      <3>1. e \in Nat
        BY <2>1
      <3>2. QED
        BY <1>3, <3>1
    <2> HIDE DEF q, r
    <2>4. w * q + r <= w * g + (h + 1)
      BY <1>2, <1>4, <2>1, <2>2
    <2>5. q <= g /\ (q = g => r <= h + 1)
      BY <1>2, <1>3, <1>4, <2>2, <2>3, <2>4, QuotientBelow
    <2>6. q \in 0 .. g
      BY <1>2, <2>3, <2>5
    <2>7. CASE r = 0
      <3>1. e = w * q
        BY <1>3, <2>2, <2>3, <2>7
      <3>2. QED
        BY <1>6, <2>6, <3>1
    <2>8. CASE r # 0
      <3> DEFINE o == b * q + (r - 1)
      <3>1. r - 1 \in 0 .. b - 1 /\ b * q \in Nat /\ b * g \in Nat
        <4>1. r - 1 \in 0 .. b - 1
          BY <2>2, <2>8 DEF w
        <4>2. QED
          BY <1>2, <1>3, <2>3, <4>1
      <3>2. b * q + (r - 1) <= b * g + h
        <4>1. CASE q = g
          BY <1>2, <2>2, <2>5, <3>1, <4>1
        <4>2. CASE q < g
          <5>1. b * q + b <= b * g
            BY <1>2, <2>3, <4>2, ProductBelow
          <5>2. QED
            BY <1>2, <3>1, <5>1
        <4>3. QED
          BY <1>2, <2>3, <2>5, <4>1, <4>2
      <3>3. o \in 0 .. top
        BY <1>2, <3>1, <3>2
      <3>4. o \div b = q /\ o % b = r - 1
        <4>1. q \in Int
          BY <2>3
        <4>2. QED
          BY <3>1, <4>1, DivModUnique, Zenon
      <3>5. (o % b) + 1 = r
        BY <2>2, <3>4
      <3>6. o \in Nat
        BY <3>3
      <3>7. TierData(b, o) = w * q + r
        <4> HIDE DEF o
        <4> QED
          BY <1>5, <3>4, <3>5, <3>6
      <3>8. QED
        BY <2>2, <3>3, <3>7
    <2>9. QED
      BY <2>7, <2>8
  <1>14. TierLast(b, top) \in Nat
    BY <1>2, <1>3, <1>4
  <1>15. QED
    BY <1>2, <1>8, <1>9, <1>10, <1>11, <1>12, <1>13, <1>14 DEF g

-----------------------------------------------------------------------------
(* The calls of Find that allocate a file of n sectors: that for the sector *)
(* at each offset, those for the pointer blocks, and no other.              *)

Sizes == 0 .. NumSectors - 1

\* the data sectors before the last tier, and the call for its block of blocks
Done == NumDirect - 2 + PtrsPerSector

LastBlock == NumDirect + PtrsPerSector

\* the call of Find for the sector at offset i of a file of n sectors
DataCall(n, i) ==
  IF n <= MaxFileSize1 THEN i + 1
  ELSE IF n <= MaxFileSize2 THEN IF i < NumDirect - 1 THEN i + 1 ELSE i + 2
  ELSE IF i < NumDirect - 2 THEN i + 1
  ELSE IF i < Done THEN i + 2
  ELSE LastBlock + 1 + TierData(PtrsPerSector, i - Done)

\* how many calls there are for a file of n sectors
LastCall(n) ==
  IF n <= MaxFileSize1 THEN n
  ELSE IF n <= MaxFileSize2 THEN n + 1
  ELSE LastBlock + 1 + TierLast(PtrsPerSector, n - 1 - Done)

LEMMA Bounds ==
  /\ NumSectors \in Nat /\ NumDirect \in Nat /\ PtrsPerSector \in Nat \ {0}
  /\ NumDirect > 2 /\ PtrsPerSector > 2
  /\ MaxFileSize1 = NumDirect /\ MaxFileSize2 = Done
  /\ Done \in Nat /\ LastBlock \in Nat /\ MaxFileSize1 \in Nat
  /\ LastBlock = Done + 2
  BY FileHeaderAssumption DEF MaxFileSize1, MaxFileSize2, Done, LastBlock

\* the entries of the block of blocks that are filled
LEMMA GroupsFilled ==
  ASSUME NEW n \in Sizes, n > MaxFileSize2
  PROVE  /\ n - 1 - Done \in Nat /\ (n - 1 - Done) \div PtrsPerSector \in 0 .. PtrsPerSector - 1
         /\ Groups(n, Done) = 1 .. ((n - 1 - Done) \div PtrsPerSector) + 1
         /\ \A j \in Groups(n, Done) :
               /\ j - 1 \in 0 .. (n - 1 - Done) \div PtrsPerSector
               /\ GroupCall(j, LastBlock) = LastBlock + 1 + TierBlock(PtrsPerSector, j - 1)
  <1> DEFINE top == n - 1 - Done
             P == PtrsPerSector
             g == top \div P
             h == top % P
  <1>1. P \in Nat \ {0} /\ Done \in Nat /\ n \in Nat /\ top \in Nat /\ LastBlock \in Nat
    BY Bounds DEF Sizes
  <1>2. g \in Nat /\ h \in 0 .. P - 1 /\ top = P * g + h /\ P * g \in Nat
    <2>1. top \in Int
      BY <1>1
    <2> HIDE DEF P
    <2>2. g \in Int /\ h \in 0 .. P - 1 /\ P * g \in Int /\ top = P * g + h
      BY <1>1, <2>1, DivMod
    <2>3. g \in Nat
      BY <1>1
    <2>4. QED
      BY <1>1, <2>2, <2>3
  <1>3. top < P * P
    <2>1. NumSectors - 1 <= Done + P * P /\ n <= NumSectors - 1 /\ P * P \in Nat
      BY FileHeaderAssumption, Bounds DEF Done, Sizes
    <2>2. n = top + 1 + Done
      BY <1>1
    <2>3. QED
      BY <1>1, <2>1, <2>2, Bounds DEF Sizes
  <1>4. \A j \in Nat \ {0} : P * (j - 1) \in Nat /\ j - 1 \in Nat /\ (j - 1) * P = P * (j - 1)
    BY <1>1
  <1> HIDE DEF P
  <1>5. \A j \in Nat \ {0} : Done + P * (j - 1) < n <=> P * (j - 1) <= top
    <2> TAKE j \in Nat \ {0}
    <2> DEFINE x == P * (j - 1)
    <2>1. x \in Nat
      BY <1>4
    <2> HIDE DEF x
    <2>2. Done + x < n <=> x <= top
      BY <1>1, <2>1
    <2>3. QED
      BY <2>2 DEF x
  <1> HIDE DEF top, g, h
  <1>6. \A j \in Nat \ {0} : P * (j - 1) <= top <=> j - 1 <= g
    <2> TAKE j \in Nat \ {0}
    <2>1. j - 1 \in Nat
      OBVIOUS
    <2>2. ASSUME P * (j - 1) <= top PROVE j - 1 <= g
      <3>1. 0 \in 0 .. P - 1 /\ P * (j - 1) + 0 <= P * g + h
        BY <1>1, <1>2, <1>4, <2>2
      <3> DEFINE q == j - 1
      <3>2. q \in Nat /\ P * q + 0 <= P * g + h
        BY <2>1, <3>1
      <3> HIDE DEF q
      <3>3. q <= g
        BY <1>1, <1>2, <3>1, <3>2, QuotientBelow
      <3>4. QED
        BY <3>3 DEF q
    <2>3. ASSUME j - 1 <= g PROVE P * (j - 1) <= top
      <3> DEFINE q == j - 1
      <3>1. q \in Nat /\ q <= g
        BY <2>1, <2>3
      <3> HIDE DEF q
      <3>2. P * q <= P * g /\ P * q \in Nat
        <4>1. CASE q = g
          BY <1>2, <4>1
        <4>2. CASE q < g
          <5>1. P * q \in Nat /\ P * g \in Nat /\ P * q + P <= P * g
            BY <1>1, <1>2, <3>1, <4>2, ProductBelow
          <5>2. QED
            BY <1>1, <5>1
        <4>3. QED
          BY <1>2, <3>1, <4>1, <4>2
      <3>3. P * q <= top
        BY <1>2, <3>2
      <3>4. QED
        BY <3>3 DEF q
    <2>4. QED
      BY <2>2, <2>3
  <1>7. g \in 0 .. P - 1
    <2>1. CASE P <= g
      <3>1. P * P <= P * g
        <4>1. CASE P = g
          BY <1>1, <1>2, <4>1
        <4>2. CASE P < g
          <5>1. P * P \in Nat /\ P * P + P <= P * g
            BY <1>1, <1>2, <4>2, ProductBelow
          <5>2. QED
            BY <1>1, <1>2, <5>1
        <4>3. QED
          BY <1>1, <1>2, <2>1, <4>1, <4>2
      <3>2. P * P \in Nat
        BY <1>1
      <3>3. QED
        BY <1>1, <1>2, <1>3, <3>1, <3>2
    <2>2. QED
      BY <1>1, <1>2, <2>1
  <1>8. Groups(n, Done) = {j \in 1 .. P : P * (j - 1) <= top}
    BY <1>4, <1>5 DEF Groups, P
  <1>9. Groups(n, Done) = 1 .. g + 1
    <2>1. \A j \in Nat \ {0} : j \in 1 .. P /\ j - 1 <= g <=> j \in 1 .. g + 1
      BY <1>1, <1>7
    <2>2. \A j \in 1 .. P : j \in Nat \ {0}
      OBVIOUS
    <2>3. \A j \in 1 .. g + 1 : j \in Nat \ {0}
      OBVIOUS
    <2>4. QED
      BY <1>6, <1>8, <2>1, <2>2, <2>3
  <1>10. ASSUME NEW j \in Groups(n, Done)
         PROVE  /\ j - 1 \in 0 .. g
                /\ GroupCall(j, LastBlock) = LastBlock + 1 + TierBlock(P, j - 1)
    <2>1. j \in Nat \ {0} /\ j - 1 \in 0 .. g
      BY <1>2, <1>9
    <2>2. (j - 1) * (P + 1) = (P + 1) * (j - 1) /\ (P + 1) * (j - 1) \in Nat
      BY <1>1, <2>1
    <2>3. QED
      BY <1>1, <2>1, <2>2 DEF GroupCall, TierBlock, P
  <1>11. QED
    BY <1>1, <1>7, <1>9, <1>10 DEF top, g, P

\* what BlockCalls and Direct are in each tier
LEMMA TierFacts ==
  ASSUME NEW n \in Sizes
  PROVE  /\ n \in Nat
         /\ \/ n <= MaxFileSize1
            \/ n > MaxFileSize1 /\ n <= MaxFileSize2
            \/ n > MaxFileSize1 /\ n > MaxFileSize2
         /\ n <= MaxFileSize1 => Direct(n) = n /\ BlockCalls(n) = {} /\ LastCall(n) = n
         /\ n > MaxFileSize1 /\ n <= MaxFileSize2 =>
               /\ Direct(n) = NumDirect - 1 /\ BlockCalls(n) = {NumDirect}
               /\ LastCall(n) = n + 1
         /\ n > MaxFileSize1 /\ n > MaxFileSize2 =>
               /\ Direct(n) = NumDirect - 2
               /\ BlockCalls(n) = {NumDirect - 1, LastBlock}
                                  \cup {GroupCall(j, LastBlock) : j \in Groups(n, Done)}
               /\ LastCall(n) = LastBlock + 1 + TierLast(PtrsPerSector, n - 1 - Done)
  <1>1. n \in Nat /\ NumDirect \in Nat /\ Done \in Nat
        /\ MaxFileSize1 = NumDirect /\ MaxFileSize2 = Done
    BY Bounds DEF Sizes
  <1>2. CASE n <= MaxFileSize1
    <2>1. Direct(n) = n /\ BlockCalls(n) = {} /\ LastCall(n) = n /\ ~ n > MaxFileSize1
      BY <1>1, <1>2 DEF Direct, BlockCalls, LastCall
    <2>2. QED
      BY <1>1, <1>2, <2>1
  <1>3. CASE n > MaxFileSize1 /\ n <= MaxFileSize2
    <2>1. ~ n <= MaxFileSize1 /\ ~ n > MaxFileSize2
      BY <1>1, <1>3
    <2>2. Direct(n) = NumDirect - 1 /\ (NumDirect - 1) + 1 = NumDirect /\ LastCall(n) = n + 1
      BY <1>1, <1>3, <2>1 DEF Direct, LastCall
    <2>3. BlockCalls(n) = {NumDirect}
      BY <1>1, <1>3, <2>1, <2>2 DEF BlockCalls
    <2>4. QED
      BY <1>1, <1>3, <2>1, <2>2, <2>3
  <1>4. CASE n > MaxFileSize1 /\ n > MaxFileSize2
    <2>1. ~ n <= MaxFileSize1 /\ ~ n <= MaxFileSize2
      BY <1>1, <1>4
    <2>2. Direct(n) = NumDirect - 2 /\ (NumDirect - 2) + 1 = NumDirect - 1
          /\ Done + 2 = LastBlock /\ (NumDirect - 2) + PtrsPerSector = Done
      BY <1>1, <2>1, Bounds DEF Direct, Done
    <2>3. BlockCalls(n) = {NumDirect - 1, LastBlock}
                          \cup {GroupCall(j, LastBlock) : j \in Groups(n, Done)}
      BY <2>1, <2>2 DEF BlockCalls
    <2>4. LastCall(n) = LastBlock + 1 + TierLast(PtrsPerSector, n - 1 - Done)
      BY <2>1 DEF LastCall
    <2>5. QED
      BY <1>1, <1>4, <2>1, <2>2, <2>3, <2>4
  <1>5. QED
    BY <1>1, <1>2, <1>3, <1>4

LEMMA CallsApart ==
  ASSUME NEW n \in Sizes
  PROVE  /\ LastCall(n) \in 0 .. MaxCalls
         /\ BlockCalls(n) \in SUBSET (1 .. LastCall(n))
         /\ \A i \in 0 .. n - 1 : DataCall(n, i) \in (1 .. LastCall(n)) \ BlockCalls(n)
         /\ \A i, j \in 0 .. n - 1 : DataCall(n, i) = DataCall(n, j) => i = j
         /\ \A c \in 1 .. LastCall(n) :
               c \in BlockCalls(n) \/ \E i \in 0 .. n - 1 : c = DataCall(n, i)
  <1>1. /\ NumSectors \in Nat /\ NumDirect \in Nat /\ PtrsPerSector \in Nat \ {0}
        /\ NumDirect > 2 /\ PtrsPerSector > 2 /\ MaxFileSize1 = NumDirect
        /\ MaxFileSize2 = Done /\ Done \in Nat /\ LastBlock = Done + 2
        /\ n \in Nat /\ n <= NumSectors - 1 /\ Done = NumDirect - 2 + PtrsPerSector
    BY Bounds DEF Sizes, Done
  <1>2. MaxCalls = NumSectors + PtrsPerSector + 2
    BY DEF MaxCalls
  <1>3. CASE n <= MaxFileSize1
    <2>1. BlockCalls(n) = {} /\ LastCall(n) = n
      BY <1>3, TierFacts
    <2>2. \A i \in 0 .. n - 1 : DataCall(n, i) = i + 1
      BY <1>3 DEF DataCall
    <2>3. \A c \in 1 .. n : c - 1 \in 0 .. n - 1 /\ c = (c - 1) + 1
      BY <1>1
    <2>4. \A c \in 1 .. n : \E i \in 0 .. n - 1 : c = DataCall(n, i)
      BY <2>2, <2>3
    <2>5. \A i \in 0 .. n - 1 : DataCall(n, i) \in 1 .. n
      BY <1>1, <2>2
    <2>6. \A i, j \in 0 .. n - 1 : DataCall(n, i) = DataCall(n, j) => i = j
      BY <1>1, <2>2
    <2>7. n \in 0 .. MaxCalls
      BY <1>1, <1>2
    <2>8. QED
      BY <2>1, <2>4, <2>5, <2>6, <2>7
  <1>4. CASE n > MaxFileSize1 /\ n <= MaxFileSize2
    <2>1. BlockCalls(n) = {NumDirect} /\ LastCall(n) = n + 1
      BY <1>4, TierFacts
    <2>2. \A i \in 0 .. n - 1 : DataCall(n, i) = IF i < NumDirect - 1 THEN i + 1 ELSE i + 2
      BY <1>1, <1>4 DEF DataCall
    <2>3. \A c \in 1 .. n + 1 : c = NumDirect \/ \E i \in 0 .. n - 1 : c = DataCall(n, i)
      <3> TAKE c \in 1 .. n + 1
      <3>1. CASE c < NumDirect
        <4>1. c - 1 \in 0 .. n - 1 /\ c - 1 < NumDirect - 1 /\ c = (c - 1) + 1
          BY <1>1, <1>4, <3>1
        <4>2. QED
          BY <2>2, <4>1
      <3>2. CASE c > NumDirect
        <4>1. c - 2 \in 0 .. n - 1 /\ ~ (c - 2 < NumDirect - 1) /\ c = (c - 2) + 2
          BY <1>1, <1>4, <3>2
        <4>2. QED
          BY <2>2, <4>1
      <3>3. QED
        BY <1>1, <3>1, <3>2
    <2>4. \A i \in 0 .. n - 1 : DataCall(n, i) \in 1 .. n + 1 /\ DataCall(n, i) # NumDirect
      BY <1>1, <1>4, <2>2
    <2>5. \A i, j \in 0 .. n - 1 : DataCall(n, i) = DataCall(n, j) => i = j
      <3> TAKE i, j \in 0 .. n - 1
      <3>1. i \in Int /\ j \in Int
        OBVIOUS
      <3>2. QED
        BY <1>1, <2>2, <3>1
    <2>6. n + 1 \in 0 .. MaxCalls /\ NumDirect \in 1 .. n + 1
      BY <1>1, <1>2, <1>4
    <2>7. QED
      BY <2>1, <2>3, <2>4, <2>5, <2>6
  <1>5. CASE n > MaxFileSize1 /\ n > MaxFileSize2
    <2> DEFINE P == PtrsPerSector
               top == n - 1 - Done
               g == top \div P
               base == LastBlock + 1
               last == TierLast(P, top)
    <2>1. /\ top \in Nat /\ g \in 0 .. P - 1 /\ Groups(n, Done) = 1 .. g + 1
          /\ \A j \in Groups(n, Done) :
                j - 1 \in 0 .. g /\ GroupCall(j, LastBlock) = base + TierBlock(P, j - 1)
      BY <1>5, GroupsFilled
    <2>2. /\ BlockCalls(n) = {NumDirect - 1, LastBlock}
                             \cup {GroupCall(j, LastBlock) : j \in Groups(n, Done)}
          /\ LastCall(n) = base + last
      BY <1>5, TierFacts
    <2>3. last = top + g + 1
      BY DEF TierLast
    <2>4. n = top + 1 + Done
      BY <1>1
    <2> HIDE DEF P, top, g, last
    <2>5. top \in Nat /\ g \in Nat /\ P \in Nat \ {0} /\ g <= P - 1 /\ base \in Nat /\ last \in Nat
      BY <1>1, <2>1, <2>3 DEF P
    <2>6. /\ \A o \in 0 .. top : TierData(P, o) \in 1 .. last
          /\ \A o, p \in 0 .. top : TierData(P, o) = TierData(P, p) => o = p
          /\ \A j \in 0 .. g : TierBlock(P, j) \in 0 .. last
          /\ \A o \in 0 .. top, j \in Nat : TierData(P, o) # TierBlock(P, j)
          /\ \A e \in 0 .. last : \/ \E j \in 0 .. g : e = TierBlock(P, j)
                                  \/ \E o \in 0 .. top : e = TierData(P, o)
      BY <2>5, TierCalls DEF g, last
    <2>7. LastCall(n) = base + last /\ LastCall(n) \in 0 .. MaxCalls
      BY <1>1, <1>2, <2>2, <2>3, <2>4, <2>5 DEF P
    <2>8. \A c \in BlockCalls(n) :
             c = NumDirect - 1 \/ c = LastBlock \/ \E j \in 0 .. g : c = base + TierBlock(P, j)
      BY <2>1, <2>2
    <2>9. \A j \in 0 .. g : base + TierBlock(P, j) \in BlockCalls(n)
      <3> TAKE j \in 0 .. g
      <3>1. j + 1 \in Groups(n, Done) /\ (j + 1) - 1 = j
        BY <2>1, <2>5
      <3>2. GroupCall(j + 1, LastBlock) = base + TierBlock(P, j)
        BY <2>1, <3>1
      <3>3. QED
        BY <2>2, <3>1, <3>2
    <2>10. NumDirect - 1 \in BlockCalls(n) /\ LastBlock \in BlockCalls(n)
      BY <2>2
    <2>11. \A i \in 0 .. n - 1 :
              /\ i < NumDirect - 2 => DataCall(n, i) = i + 1
              /\ i >= NumDirect - 2 /\ i < Done => DataCall(n, i) = i + 2
              /\ i >= Done => DataCall(n, i) = base + TierData(P, i - Done)
                              /\ i - Done \in 0 .. top
      <3> TAKE i \in 0 .. n - 1
      <3>1. ~ n <= MaxFileSize1 /\ ~ n <= MaxFileSize2
        BY <1>1, <1>5
      <3>2. i \in Int /\ i >= 0 /\ i <= n - 1
        BY <1>1
      <3>3. i < NumDirect - 2 => DataCall(n, i) = i + 1
        BY <3>1 DEF DataCall
      <3>4. i >= NumDirect - 2 /\ i < Done => DataCall(n, i) = i + 2
        <4>1. i >= NumDirect - 2 => ~ i < NumDirect - 2
          BY <1>1, <3>2
        <4>2. QED
          BY <3>1, <4>1 DEF DataCall
      <3>5. i >= Done => DataCall(n, i) = base + TierData(P, i - Done)
        <4>1. i >= Done => ~ i < NumDirect - 2 /\ ~ i < Done
          BY <1>1, <3>2
        <4>2. QED
          BY <3>1, <4>1 DEF DataCall, P
      <3>6. i >= Done => i - Done \in 0 .. top
        BY <1>1, <2>4, <2>5, <3>2
      <3>7. QED
        BY <3>3, <3>4, <3>5, <3>6
    <2>12. \A c \in BlockCalls(n) : c \in 1 .. LastCall(n)
      <3> TAKE c \in BlockCalls(n)
      <3>1. CASE c = NumDirect - 1 \/ c = LastBlock
        BY <1>1, <2>5, <2>7, <3>1
      <3>2. CASE \E j \in 0 .. g : c = base + TierBlock(P, j)
        <4>1. PICK j \in 0 .. g : c = base + TierBlock(P, j)
          BY <3>2
        <4>2. TierBlock(P, j) \in 0 .. last
          BY <2>6
        <4>3. QED
          BY <1>1, <2>5, <2>7, <4>1, <4>2
      <3>3. QED
        BY <2>8, <3>1, <3>2
    <2>13. \A i \in 0 .. n - 1 : DataCall(n, i) \in 1 .. LastCall(n)
      <3> TAKE i \in 0 .. n - 1
      <3>1. i \in Int /\ i >= 0 /\ i <= n - 1
        BY <1>1
      <3>2. CASE i < Done
        <4>1. DataCall(n, i) = i + 1 \/ DataCall(n, i) = i + 2
          BY <1>1, <2>11, <3>1, <3>2
        <4>2. QED
          BY <1>1, <2>5, <2>7, <3>1, <3>2, <4>1
      <3>3. CASE i >= Done
        <4>1. DataCall(n, i) = base + TierData(P, i - Done) /\ TierData(P, i - Done) \in 1 .. last
          BY <2>6, <2>11, <3>3
        <4>2. QED
          BY <1>1, <2>5, <2>7, <4>1
      <3>4. QED
        BY <1>1, <3>1, <3>2, <3>3
    <2>14. \A i \in 0 .. n - 1 : DataCall(n, i) \notin BlockCalls(n)
      <3> TAKE i \in 0 .. n - 1
      <3>1. i \in Int /\ i >= 0 /\ i <= n - 1
        BY <1>1
      <3>2. CASE i < Done
        <4>1. \/ i < NumDirect - 2 /\ DataCall(n, i) = i + 1
              \/ i >= NumDirect - 2 /\ DataCall(n, i) = i + 2
          BY <1>1, <2>11, <3>1, <3>2
        <4>2. DataCall(n, i) # NumDirect - 1 /\ DataCall(n, i) # LastBlock
              /\ DataCall(n, i) < base
          BY <1>1, <3>1, <3>2, <4>1
        <4>3. \A j \in 0 .. g : base <= base + TierBlock(P, j)
          BY <2>5, <2>6
        <4>4. DataCall(n, i) \in Int
          BY <3>1, <4>1
        <4>5. \A j \in 0 .. g : base + TierBlock(P, j) \in Int
          BY <2>5, <2>6
        <4>6. QED
          BY <2>5, <2>8, <4>2, <4>3, <4>4, <4>5
      <3>3. CASE i >= Done
        <4>1. DataCall(n, i) = base + TierData(P, i - Done) /\ TierData(P, i - Done) \in 1 .. last
              /\ i - Done \in 0 .. top
          BY <2>6, <2>11, <3>3
        <4>2. DataCall(n, i) # NumDirect - 1 /\ DataCall(n, i) # LastBlock
          BY <1>1, <2>5, <4>1
        <4>3. \A j \in 0 .. g : j \in Nat /\ TierBlock(P, j) \in Nat
                                /\ TierData(P, i - Done) # TierBlock(P, j)
          BY <2>5, <2>6, <4>1
        <4>4. \A j \in 0 .. g : DataCall(n, i) # base + TierBlock(P, j)
          BY <2>5, <4>1, <4>3
        <4>5. QED
          BY <2>8, <4>2, <4>4
      <3>4. QED
        BY <1>1, <3>1, <3>2, <3>3
    <2>15. ASSUME NEW i \in 0 .. n - 1, NEW j \in 0 .. n - 1, DataCall(n, i) = DataCall(n, j)
           PROVE  i = j
      <3>1. i \in Int /\ i >= 0 /\ i <= n - 1 /\ j \in Int /\ j >= 0 /\ j <= n - 1
        BY <1>1
      <3>2. ASSUME NEW k \in 0 .. n - 1, k < Done
            PROVE  /\ DataCall(n, k) < base
                   /\ k < NumDirect - 2 => DataCall(n, k) = k + 1
                   /\ k >= NumDirect - 2 => DataCall(n, k) = k + 2
        BY <1>1, <2>11, <3>2
      <3>3. ASSUME NEW k \in 0 .. n - 1, k >= Done
            PROVE  DataCall(n, k) > base
        <4>1. DataCall(n, k) = base + TierData(P, k - Done) /\ TierData(P, k - Done) \in 1 .. last
          BY <2>6, <2>11, <3>3
        <4>2. QED
          BY <2>5, <4>1
      <3>4. CASE i < Done /\ j < Done
        BY <1>1, <2>15, <3>1, <3>2, <3>4
      <3>5. CASE i >= Done /\ j >= Done
        <4>1. /\ DataCall(n, i) = base + TierData(P, i - Done) /\ i - Done \in 0 .. top
              /\ DataCall(n, j) = base + TierData(P, j - Done) /\ j - Done \in 0 .. top
          BY <2>11, <3>5
        <4>2. TierData(P, i - Done) \in Nat /\ TierData(P, j - Done) \in Nat
          BY <2>5, <2>6, <4>1
        <4>3. TierData(P, i - Done) = TierData(P, j - Done)
          <5> DEFINE x == TierData(P, i - Done)
                     y == TierData(P, j - Done)
          <5>1. x \in Nat /\ y \in Nat /\ base + x = base + y
            BY <2>15, <4>1, <4>2
          <5> HIDE DEF x, y, base
          <5>2. x = y
            BY <2>5, <5>1
          <5>3. QED
            BY <5>2 DEF x, y
        <4>4. i - Done = j - Done
          BY <2>6, <4>1, <4>3
        <4>5. QED
          BY <1>1, <3>1, <4>4
      <3>6. CASE (i < Done /\ j >= Done) \/ (i >= Done /\ j < Done)
        <4>1. \A k \in 0 .. n - 1 : DataCall(n, k) \in Int
          BY <2>13
        <4>2. DataCall(n, i) # DataCall(n, j)
          BY <2>5, <3>2, <3>3, <3>6, <4>1
        <4>3. QED
          BY <2>15, <4>2
      <3>7. QED
        BY <1>1, <3>1, <3>4, <3>5, <3>6
    <2>16. ASSUME NEW c \in 1 .. LastCall(n), c \notin BlockCalls(n)
           PROVE  \E i \in 0 .. n - 1 : c = DataCall(n, i)
      <3>1. c \in Int /\ c >= 1 /\ c <= base + last /\ c # NumDirect - 1 /\ c # LastBlock
        BY <2>5, <2>7, <2>10, <2>16
      <3>2. CASE c < NumDirect - 1
        <4>1. c - 1 \in 0 .. n - 1 /\ c - 1 < NumDirect - 2 /\ c = (c - 1) + 1
          BY <1>1, <1>5, <3>1, <3>2
        <4>2. QED
          BY <2>11, <4>1
      <3>3. CASE c > NumDirect - 1 /\ c < LastBlock
        <4>1. c - 2 \in 0 .. n - 1 /\ c - 2 >= NumDirect - 2 /\ c - 2 < Done /\ c = (c - 2) + 2
          BY <1>1, <1>5, <3>1, <3>3
        <4>2. QED
          BY <2>11, <4>1
      <3>4. CASE c > LastBlock
        <4>1. c - base \in 0 .. last /\ c = base + (c - base)
          BY <1>1, <2>5, <3>1, <3>4
        <4>2. \A j \in 0 .. g : c # base + TierBlock(P, j)
          BY <2>9, <2>16
        <4>3. \A j \in 0 .. g : c - base # TierBlock(P, j)
          BY <4>1, <4>2
        <4>4. PICK o \in 0 .. top : c - base = TierData(P, o)
          BY <2>6, <4>1, <4>3
        <4>5. o + Done \in 0 .. n - 1 /\ o + Done >= Done /\ (o + Done) - Done = o
          BY <1>1, <2>4, <2>5
        <4>6. DataCall(n, o + Done) = c
          BY <2>11, <4>1, <4>4, <4>5
        <4>7. QED
          BY <4>5, <4>6
      <3>5. QED
        BY <1>1, <3>1, <3>2, <3>3, <3>4
    <2>17. QED
      BY <2>7, <2>12, <2>13, <2>14, <2>15, <2>16
  <1>6. QED
    BY <1>3, <1>4, <1>5, TierFacts

LEMMA CallsCounted ==
  ASSUME NEW n \in Sizes
  PROVE  n + Cardinality(BlockCalls(n)) = LastCall(n)
  <1> DEFINE all == 1 .. LastCall(n)
             D == all \ BlockCalls(n)
             I == 0 .. n - 1
             f == [i \in I |-> DataCall(n, i)]
  <1>1. n \in Nat /\ LastCall(n) \in Nat
    BY CallsApart, Bounds DEF Sizes
  <1>2. IsFiniteSet(all) /\ Cardinality(all) = LastCall(n)
    <2>1. 1 \in Int /\ LastCall(n) \in Int
          /\ (IF 1 > LastCall(n) THEN 0 ELSE LastCall(n) - 1 + 1) = LastCall(n)
      BY <1>1
    <2>2. QED
      BY <2>1, FS_Interval
  <1>3. IsFiniteSet(I) /\ Cardinality(I) = n
    <2>1. 0 \in Int /\ n - 1 \in Int /\ (IF 0 > n - 1 THEN 0 ELSE n - 1 - 0 + 1) = n
      BY <1>1
    <2>2. QED
      BY <2>1, FS_Interval
  <1>4. f \in Injection(I, D) /\ f \in Surjection(I, D)
    <2>1. f \in [I -> D]
      BY CallsApart
    <2>2. \A i, j \in I : f[i] = f[j] => i = j
      BY CallsApart
    <2>3. \A c \in D : \E i \in I : f[i] = c
      BY CallsApart
    <2> HIDE DEF f, I, D
    <2>4. QED
      BY <2>1, <2>2, <2>3 DEF Injection, IsInjective, Surjection
  <1>5. IsFiniteSet(D) /\ Cardinality(D) = n
    <2> HIDE DEF f, I, D
    <2> QED
      BY <1>3, <1>4, FS_Surjection
  <1>6. all \cap BlockCalls(n) = BlockCalls(n) /\ IsFiniteSet(BlockCalls(n))
    BY <1>2, CallsApart, FS_Subset
  <1>7. Cardinality(D) = Cardinality(all) - Cardinality(all \cap BlockCalls(n))
    BY <1>2, FS_Difference
  <1>8. Cardinality(BlockCalls(n)) \in Nat
    BY <1>6, FS_CardinalityType
  <1> HIDE DEF all, D
  <1>9. n = LastCall(n) - Cardinality(BlockCalls(n))
    BY <1>2, <1>5, <1>6, <1>7
  <1>10. QED
    BY <1>1, <1>8, <1>9

-----------------------------------------------------------------------------
(* What is written to the pointer blocks.                                  *)

\* a block that holds the pointers to the sectors from offset "first" on
HoldsFrom(block, n, find, first) ==
  /\ block \in [1 .. PtrsPerSector -> Pointers]
  /\ \A i \in 1 .. PtrsPerSector :
        block[i] = IF first + i - 1 < n THEN find[DataCall(n, first + i - 1)] ELSE 0

LEMMA SingleHolds ==
  ASSUME NEW n \in Sizes, NEW find \in [1 .. MaxCalls -> Pointers],
         NEW first \in Nat, NEW c \in Nat,
         \A i \in 1 .. PtrsPerSector :
            first + i - 1 < n => DataCall(n, first + i - 1) = c + i
  PROVE  HoldsFrom(SingleIndirect(n, find, first, c), n, find, first)
  <1> DEFINE block == SingleIndirect(n, find, first, c)
  <1>1. n \in Nat /\ PtrsPerSector \in Nat /\ 0 \in Pointers
    BY Bounds, FileHeaderAssumption DEF Sizes, Pointers, Sectors
  <1>2. block = [i \in 1 .. PtrsPerSector |-> IF first + i <= n THEN find[c + i] ELSE 0]
    BY DEF SingleIndirect
  <1>3. ASSUME NEW i \in 1 .. PtrsPerSector
        PROVE  /\ block[i] = IF first + i - 1 < n THEN find[DataCall(n, first + i - 1)] ELSE 0
               /\ block[i] \in Pointers
    <2>1. block[i] = IF first + i <= n THEN find[c + i] ELSE 0
      BY <1>2
    <2>2. CASE first + i - 1 < n
      <3>1. DataCall(n, first + i - 1) = c + i
        BY <2>2
      <3>2. first + i - 1 \in 0 .. n - 1 /\ first + i <= n
        BY <1>1, <2>2
      <3>3. c + i \in 1 .. MaxCalls
        <4> DEFINE o == first + i - 1
        <4>1. o \in 0 .. n - 1 /\ DataCall(n, o) = c + i
          BY <3>1, <3>2
        <4> HIDE DEF o
        <4>2. DataCall(n, o) \in 1 .. LastCall(n) /\ LastCall(n) \in 0 .. MaxCalls
          BY <4>1, CallsApart
        <4>3. MaxCalls \in Int
          BY Bounds DEF MaxCalls
        <4>4. QED
          BY <4>1, <4>2, <4>3
      <3>4. QED
        BY <2>1, <2>2, <3>1, <3>2, <3>3
    <2>3. CASE ~ first + i - 1 < n
      <3>1. ~ first + i <= n
        BY <1>1, <2>3
      <3>2. QED
        BY <1>1, <2>1, <2>3, <3>1
    <2>4. QED
      BY <2>2, <2>3
  <1>4. block \in [1 .. PtrsPerSector -> Pointers]
    <2> HIDE DEF block
    <2>1. \A i \in 1 .. PtrsPerSector : block[i] \in Pointers
      BY <1>3
    <2>2. block = [i \in 1 .. PtrsPerSector |-> block[i]]
      BY <1>2
    <2>3. QED
      BY <2>1, <2>2
  <1>5. QED
    BY <1>3, <1>4 DEF HoldsFrom

LEMMA BlocksHold ==
  ASSUME NEW n \in Sizes, NEW find \in [1 .. MaxCalls -> Pointers]
  PROVE  /\ DOMAIN Blocks(n, find) = BlockCalls(n)
         /\ n > MaxFileSize1 /\ n <= MaxFileSize2 =>
               HoldsFrom(Blocks(n, find)[NumDirect], n, find, NumDirect - 1)
         /\ n > MaxFileSize1 /\ n > MaxFileSize2 =>
               /\ HoldsFrom(Blocks(n, find)[NumDirect - 1], n, find, NumDirect - 2)
               /\ Blocks(n, find)[LastBlock] \in [1 .. PtrsPerSector -> Pointers]
               /\ \A j \in 1 .. PtrsPerSector :
                     Blocks(n, find)[LastBlock][j] =
                        IF j \in Groups(n, Done) THEN find[GroupCall(j, LastBlock)] ELSE 0
               /\ \A j \in Groups(n, Done) :
                     HoldsFrom(Blocks(n, find)[GroupCall(j, LastBlock)], n, find,
                               Done + (j - 1) * PtrsPerSector)
  <1> DEFINE B == Blocks(n, find)
             P == PtrsPerSector
             group(c) == CHOOSE j \in Groups(n, Done) : GroupCall(j, LastBlock) = c
  <1>1. /\ NumSectors \in Nat /\ NumDirect \in Nat /\ P \in Nat \ {0}
        /\ NumDirect > 2 /\ P > 2 /\ MaxFileSize1 = NumDirect
        /\ MaxFileSize2 = Done /\ Done \in Nat /\ LastBlock = Done + 2
        /\ n \in Nat /\ n <= NumSectors - 1 /\ Done = NumDirect - 2 + P
    BY Bounds DEF Sizes, Done
  <1>2. DOMAIN B = BlockCalls(n)
    BY DEF Blocks
  <1>3. CASE n > MaxFileSize1 /\ n <= MaxFileSize2
    <2>1. Direct(n) = NumDirect - 1 /\ (NumDirect - 1) + 1 = NumDirect /\ BlockCalls(n) = {NumDirect}
      BY <1>1, <1>3, TierFacts
    <2>2. B[NumDirect] = SingleIndirect(n, find, NumDirect - 1, NumDirect)
      <3>1. NumDirect # (NumDirect - 1) + P + 2
        BY <1>1
      <3> HIDE DEF P
      <3>2. QED
        BY <2>1, <3>1 DEF Blocks, P
    <2>3. \A i \in 1 .. P : (NumDirect - 1) + i - 1 < n =>
                               DataCall(n, (NumDirect - 1) + i - 1) = NumDirect + i
      BY <1>1, <1>3 DEF DataCall
    <2>4. NumDirect - 1 \in Nat
      BY <1>1
    <2>5. HoldsFrom(B[NumDirect], n, find, NumDirect - 1)
      BY <1>1, <2>2, <2>3, <2>4, SingleHolds
    <2>6. ~ n > MaxFileSize2
      BY <1>1, <1>3
    <2>7. QED
      BY <1>2, <2>5, <2>6
  <1>4. CASE n > MaxFileSize1 /\ n > MaxFileSize2
    <2>1. /\ Direct(n) = NumDirect - 2
          /\ BlockCalls(n) = {NumDirect - 1, LastBlock}
                             \cup {GroupCall(j, LastBlock) : j \in Groups(n, Done)}
      BY <1>4, TierFacts
    <2>2. (NumDirect - 2) + 1 = NumDirect - 1 /\ (NumDirect - 2) + P = Done
      BY <1>1
    <2>3. B = [c \in BlockCalls(n) |->
                 CASE c = NumDirect - 1 -> SingleIndirect(n, find, NumDirect - 2, c)
                   [] c = LastBlock -> DoubleIndirect(n, find, Done, c)
                   [] OTHER -> SingleIndirect(n, find, Done + (group(c) - 1) * P, c)]
      BY <1>1, <2>1, <2>2 DEF Blocks
    <2> DEFINE top == n - 1 - Done
               g == top \div P
               base == LastBlock + 1
    <2>4. /\ top \in Nat /\ g \in 0 .. P - 1 /\ Groups(n, Done) = 1 .. g + 1
          /\ \A j \in Groups(n, Done) :
                j - 1 \in 0 .. g /\ GroupCall(j, LastBlock) = base + TierBlock(P, j - 1)
      BY <1>4, GroupsFilled
    <2>5. \A j, k \in Nat : TierBlock(P, j) = TierBlock(P, k) => j = k
      BY <1>1, <2>4, TierCalls
    <2>6. \A j \in Nat : TierBlock(P, j) \in Nat /\ TierBlock(P, j) = (P + 1) * j
      BY <1>1 DEF TierBlock
    <2>7. \A j \in 1 .. P : j \in Nat /\ j - 1 \in Nat
      OBVIOUS
    <2>8. \A j \in Groups(n, Done) : j \in 1 .. P
      BY <1>1, <2>4
    <2> HIDE DEF B, P, g, top
    <2>9. ASSUME NEW j \in Groups(n, Done)
          PROVE  GroupCall(j, LastBlock) \in Nat /\ GroupCall(j, LastBlock) > LastBlock
      <3>1. GroupCall(j, LastBlock) = base + TierBlock(P, j - 1) /\ j - 1 \in Nat
        BY <2>4, <2>7, <2>8
      <3>2. TierBlock(P, j - 1) \in Nat /\ LastBlock \in Nat
        <4>1. TierBlock(P, j - 1) \in Nat
          BY <2>6, <3>1, Zenon
        <4>2. QED
          BY <1>1, <4>1
      <3> HIDE DEF base
      <3>3. QED
        BY <3>1, <3>2 DEF base
    <2>10. ASSUME NEW j \in Groups(n, Done) PROVE group(GroupCall(j, LastBlock)) = j
      <3> DEFINE k == group(GroupCall(j, LastBlock))
      <3>1. k \in Groups(n, Done) /\ GroupCall(k, LastBlock) = GroupCall(j, LastBlock)
        OBVIOUS
      <3> HIDE DEF k
      <3>2. /\ j \in Nat /\ j - 1 \in Nat /\ GroupCall(j, LastBlock) = base + TierBlock(P, j - 1)
            /\ k \in Nat /\ k - 1 \in Nat /\ GroupCall(k, LastBlock) = base + TierBlock(P, k - 1)
        BY <2>4, <2>7, <2>8, <3>1
      <3>3. TierBlock(P, j - 1) \in Nat /\ TierBlock(P, k - 1) \in Nat
        BY <2>6, <3>2
      <3>4. TierBlock(P, j - 1) = TierBlock(P, k - 1)
        <4> DEFINE x == TierBlock(P, j - 1)
                   y == TierBlock(P, k - 1)
        <4>1. x \in Nat /\ y \in Nat /\ base + x = base + y /\ base \in Nat
          BY <1>1, <3>1, <3>2, <3>3
        <4> HIDE DEF x, y, base
        <4>2. x = y
          BY <4>1
        <4>3. QED
          BY <4>2 DEF x, y
      <3>5. j - 1 = k - 1
        BY <2>5, <3>2, <3>4
      <3>6. j = k
        BY <3>2, <3>5
      <3>7. QED
        BY <3>6 DEF k
    <2>11. HoldsFrom(B[NumDirect - 1], n, find, NumDirect - 2)
      <3>1. NumDirect - 1 \in BlockCalls(n)
        BY <2>1
      <3>2. B[NumDirect - 1] = SingleIndirect(n, find, NumDirect - 2, NumDirect - 1)
        <4>1. NumDirect - 1 # LastBlock
          BY <1>1
        <4>2. QED
          BY <2>3, <3>1, <4>1
      <3>3. \A i \in 1 .. P : (NumDirect - 2) + i - 1 < n =>
                                 DataCall(n, (NumDirect - 2) + i - 1) = (NumDirect - 1) + i
        BY <1>1, <1>4 DEF DataCall
      <3>4. NumDirect - 2 \in Nat /\ NumDirect - 1 \in Nat
        BY <1>1
      <3>5. QED
        BY <3>2, <3>3, <3>4, SingleHolds DEF P
    <2>12. B[LastBlock] = DoubleIndirect(n, find, Done, LastBlock)
      <3>1. LastBlock \in BlockCalls(n) /\ LastBlock # NumDirect - 1
        BY <1>1, <2>1
      <3>2. QED
        BY <2>3, <3>1
    <2>13. \A j \in 1 .. P :
              /\ B[LastBlock][j] = IF j \in Groups(n, Done) THEN find[GroupCall(j, LastBlock)] ELSE 0
              /\ B[LastBlock][j] \in Pointers
      <3> TAKE j \in 1 .. P
      <3>1. B[LastBlock][j] = IF j \in Groups(n, Done) THEN find[GroupCall(j, LastBlock)] ELSE 0
        BY <2>12 DEF DoubleIndirect, P
      <3>2. j \in Groups(n, Done) => GroupCall(j, LastBlock) \in 1 .. MaxCalls
        <4>1. HAVE j \in Groups(n, Done)
        <4>2. GroupCall(j, LastBlock) \in BlockCalls(n)
          BY <2>1, <4>1
        <4>3. GroupCall(j, LastBlock) \in 1 .. LastCall(n) /\ LastCall(n) \in 0 .. MaxCalls
          BY <4>2, CallsApart
        <4>4. MaxCalls \in Int
          BY Bounds DEF MaxCalls
        <4>5. QED
          BY <4>3, <4>4
      <3>3. 0 \in Pointers
        BY FileHeaderAssumption DEF Pointers, Sectors
      <3>4. QED
        BY <3>1, <3>2, <3>3
    <2>14. B[LastBlock] \in [1 .. P -> Pointers]
      <3>1. B[LastBlock] = [j \in 1 .. P |-> B[LastBlock][j]]
        BY <2>12 DEF DoubleIndirect, P
      <3>2. QED
        BY <2>13, <3>1
    <2>15. ASSUME NEW j \in Groups(n, Done)
           PROVE  HoldsFrom(B[GroupCall(j, LastBlock)], n, find, Done + (j - 1) * P)
      <3> DEFINE c == GroupCall(j, LastBlock)
                 first == Done + (j - 1) * P
      <3>1. c \in BlockCalls(n) /\ c # LastBlock /\ c # NumDirect - 1
        BY <1>1, <2>1, <2>9
      <3>2. B[c] = SingleIndirect(n, find, first, c)
        BY <2>3, <2>10, <3>1
      <3>3. j - 1 \in Nat /\ P * (j - 1) \in Nat /\ (j - 1) * P = P * (j - 1)
        BY <1>1, <2>7, <2>8
      <3>4. first \in Nat /\ c \in Nat /\ c = base + (P + 1) * (j - 1) /\ (P + 1) * (j - 1) \in Nat
        <4>1. c \in Nat /\ c = base + TierBlock(P, j - 1)
          BY <2>4, <2>9
        <4>2. TierBlock(P, j - 1) \in Nat /\ TierBlock(P, j - 1) = (P + 1) * (j - 1)
          BY <2>6, <3>3
        <4>3. first \in Nat
          BY <1>1, <3>3
        <4> HIDE DEF c, first
        <4>4. QED
          BY <4>1, <4>2, <4>3
      <3>5. ASSUME NEW i \in 1 .. P, first + i - 1 < n
            PROVE  DataCall(n, first + i - 1) = c + i
        <4> DEFINE o == first + i - 1
        <4>1. i - 1 \in 0 .. P - 1 /\ o - Done = P * (j - 1) + (i - 1) /\ o \in Nat /\ o >= Done
          <5> DEFINE t == P * (j - 1)
          <5>1. t \in Nat /\ o = Done + t + i - 1 /\ Done \in Nat /\ P \in Nat
            BY <1>1, <3>3
          <5> HIDE DEF t, o
          <5>2. i - 1 \in 0 .. P - 1 /\ o - Done = t + (i - 1) /\ o \in Nat /\ o >= Done
            BY <5>1
          <5>3. QED
            BY <5>2 DEF t
        <4>2. DataCall(n, o) = base + TierData(P, o - Done)
          <5>1. ~ n <= MaxFileSize1 /\ ~ n <= MaxFileSize2 /\ ~ o < NumDirect - 2 /\ ~ o < Done
            BY <1>1, <1>4, <4>1
          <5>2. QED
            BY <5>1 DEF DataCall, P
        <4>3. (o - Done) \div P = j - 1 /\ (o - Done) % P = i - 1
          <5> DEFINE q == j - 1
                     r == i - 1
          <5>1. q \in Int /\ r \in 0 .. P - 1 /\ o - Done = P * q + r
            BY <3>3, <4>1
          <5> HIDE DEF q, r
          <5>2. (P * q + r) \div P = q /\ (P * q + r) % P = r
            BY <1>1, <5>1, DivModUnique
          <5>3. QED
            BY <5>1, <5>2 DEF q, r
        <4>4. TierData(P, o - Done) = (P + 1) * (j - 1) + (i - 1) + 1
          BY <4>3 DEF TierData
        <4>5. QED
          BY <1>1, <3>4, <4>1, <4>2, <4>4
      <3> HIDE DEF c, first
      <3>6. HoldsFrom(B[c], n, find, first)
        BY <3>2, <3>4, <3>5, SingleHolds DEF P
      <3>7. QED
        BY <3>6 DEF c, first
    <2>16. ~ n <= MaxFileSize2
      BY <1>1, <1>4
    <2>17. QED
      BY <1>2, <2>11, <2>13, <2>14, <2>15, <2>16 DEF B, P
  <1>5. QED
    BY <1>2, <1>3, <1>4

-----------------------------------------------------------------------------
(* A file: its header and its pointer blocks are what Allocate made of the  *)
(* sectors that the calls of Find returned.                                *)

\* the header h and its pointer blocks are those of Allocate for the calls find
FileAt(h, blocks, find) ==
  /\ h.numSectors \in Sizes
  /\ h = [numSectors |-> h.numSectors, dataSectors |-> DataSectors(h.numSectors, find)]
  /\ find \in [1 .. MaxCalls -> Pointers]
  /\ \A k \in 1 .. MaxCalls : find[k] \notin Reserved
  /\ \A k, l \in 1 .. MaxCalls : find[k] = find[l] /\ find[k] # -1 => k = l
  /\ \A k \in BlockCalls(h.numSectors) :
        /\ find[k] # -1 /\ find[k] \in DOMAIN blocks
        /\ blocks[find[k]] = Blocks(h.numSectors, find)[k]

Returned(n, find) == {find[k] : k \in 1 .. LastCall(n)}

LEMMA HeaderPointers ==
  ASSUME NEW n \in Sizes, NEW find \in [1 .. MaxCalls -> Pointers]
  PROVE  /\ DataSectors(n, find) \in Seq(Pointers)
         /\ n <= MaxFileSize1 =>
               /\ Len(DataSectors(n, find)) = n
               /\ \A k \in 1 .. n : DataSectors(n, find)[k] = find[k]
         /\ n > MaxFileSize1 => Len(DataSectors(n, find)) = NumDirect
         /\ n > MaxFileSize1 /\ n <= MaxFileSize2 =>
               \A k \in 1 .. NumDirect : DataSectors(n, find)[k] = find[k]
         /\ n > MaxFileSize1 /\ n > MaxFileSize2 =>
               /\ \A k \in 1 .. NumDirect - 1 : DataSectors(n, find)[k] = find[k]
               /\ DataSectors(n, find)[NumDirect] = find[LastBlock]
  <1> DEFINE d == Direct(n)
             direct == [i \in 1 .. d |-> find[i]]
             S == DataSectors(n, find)
  <1>1. /\ NumSectors \in Nat /\ NumDirect \in Nat /\ PtrsPerSector \in Nat
        /\ NumDirect > 2 /\ PtrsPerSector > 2 /\ MaxFileSize1 = NumDirect
        /\ MaxFileSize2 = Done /\ Done \in Nat /\ LastBlock = Done + 2
        /\ n \in Nat /\ n <= NumSectors - 1 /\ Done = NumDirect - 2 + PtrsPerSector
    BY Bounds DEF Sizes, Done
  <1>2. MaxCalls = NumSectors + PtrsPerSector + 2
    BY DEF MaxCalls
  <1>3. d \in Nat /\ d <= n /\ d <= MaxCalls
    BY <1>1, <1>2, TierFacts
  <1>4. direct \in Seq(Pointers) /\ Len(direct) = d /\ \A k \in 1 .. d : direct[k] = find[k]
    <2>1. \A i \in 1 .. d : find[i] \in Pointers
      BY <1>1, <1>2, <1>3
    <2> HIDE DEF d
    <2>2. direct \in [1 .. d -> Pointers]
      BY <2>1
    <2>3. QED
      BY <1>3, <2>2
  <1> HIDE DEF direct, d
  <1>5. CASE n <= MaxFileSize1
    <2>1. S = direct /\ d = n /\ ~ n > MaxFileSize1
      BY <1>1, <1>5, TierFacts DEF DataSectors, direct, d
    <2>2. QED
      BY <1>4, <1>5, <2>1
  <1>6. CASE n > MaxFileSize1 /\ n <= MaxFileSize2
    <2>1. ~ n <= MaxFileSize1 /\ d = NumDirect - 1 /\ ~ n > MaxFileSize2
      BY <1>1, <1>6, TierFacts DEF d
    <2>2. S = direct \o <<find[d + 1]>>
      BY <1>6, <2>1 DEF DataSectors, direct, d
    <2>3. find[d + 1] \in Pointers /\ d + 1 = NumDirect
      BY <1>1, <1>2, <1>6, <2>1
    <2> HIDE DEF S
    <2>4. S \in Seq(Pointers) /\ Len(S) = NumDirect
          /\ \A k \in 1 .. NumDirect : S[k] = IF k <= d THEN direct[k] ELSE find[d + 1]
      BY <1>1, <1>3, <1>4, <2>1, <2>2, <2>3
    <2>5. \A k \in 1 .. NumDirect : (k <= d /\ k \in 1 .. d) \/ (k = d + 1 /\ ~ k <= d)
      BY <1>1, <1>3, <2>3
    <2>6. \A k \in 1 .. NumDirect : S[k] = find[k]
      BY <1>4, <2>4, <2>5
    <2>7. QED
      BY <2>1, <2>4, <2>6 DEF S
  <1>7. CASE n > MaxFileSize1 /\ n > MaxFileSize2
    <2>1. ~ n <= MaxFileSize1 /\ ~ n <= MaxFileSize2 /\ d = NumDirect - 2
      BY <1>1, <1>7, TierFacts DEF d
    <2>2. S = direct \o <<find[d + 1], find[d + PtrsPerSector + 2]>>
      BY <2>1 DEF DataSectors, direct, d
    <2>3. d + 1 = NumDirect - 1 /\ d + PtrsPerSector + 2 = LastBlock
      BY <1>1, <2>1
    <2>4. find[NumDirect - 1] \in Pointers /\ find[LastBlock] \in Pointers
      BY <1>1, <1>2, <1>7
    <2> HIDE DEF S
    <2>5. S = direct \o <<find[NumDirect - 1], find[LastBlock]>>
      BY <2>2, <2>3
    <2>6. S \in Seq(Pointers) /\ Len(S) = NumDirect
          /\ \A k \in 1 .. NumDirect : S[k] = IF k <= d THEN direct[k]
                                              ELSE IF k = NumDirect - 1 THEN find[NumDirect - 1]
                                              ELSE find[LastBlock]
      <3> DEFINE T == <<find[NumDirect - 1], find[LastBlock]>>
      <3>1. T \in Seq(Pointers) /\ Len(T) = 2 /\ T[1] = find[NumDirect - 1] /\ T[2] = find[LastBlock]
        BY <2>4
      <3>2. S = direct \o T
        BY <2>5
      <3> HIDE DEF T
      <3>3. S \in Seq(Pointers) /\ Len(S) = d + 2
            /\ \A k \in 1 .. d + 2 : S[k] = IF k <= d THEN direct[k] ELSE T[k - d]
        <4>1. S \in Seq(Pointers) /\ Len(S) = Len(direct) + Len(T)
          BY <1>4, <3>1, <3>2, ConcatProperties
        <4>2. \A k \in 1 .. Len(direct) + Len(T) :
                 S[k] = IF k <= Len(direct) THEN direct[k] ELSE T[k - Len(direct)]
          BY <1>4, <3>1, <3>2, ConcatProperties
        <4>3. QED
          BY <1>4, <3>1, <4>1, <4>2
      <3>4. d + 2 = NumDirect
        BY <1>1, <2>1
      <3>5. \A k \in 1 .. NumDirect : ~ k <= d => IF k = NumDirect - 1 THEN k - d = 1 ELSE k - d = 2
        BY <1>1, <2>1
      <3>6. QED
        BY <3>1, <3>3, <3>4, <3>5
    <2>7. \A k \in 1 .. NumDirect - 1 : S[k] = find[k]
      <3> TAKE k \in 1 .. NumDirect - 1
      <3>1. k \in 1 .. NumDirect /\ ((k <= d /\ k \in 1 .. d) \/ (k = NumDirect - 1 /\ ~ k <= d))
        BY <1>1, <2>1
      <3>2. QED
        BY <1>4, <2>6, <3>1
    <2>8. S[NumDirect] = find[LastBlock]
      <3>1. NumDirect \in 1 .. NumDirect /\ ~ NumDirect <= d /\ NumDirect # NumDirect - 1
        BY <1>1, <2>1
      <3>2. QED
        BY <2>6, <3>1
    <2>9. QED
      BY <2>1, <2>6, <2>7, <2>8 DEF S
  <1>8. QED
    BY <1>5, <1>6, <1>7, TierFacts

LEMMA HeaderHolds ==
  ASSUME NEW h, NEW n, n = h.numSectors, NEW blocks, NEW find, FileAt(h, blocks, find)
  PROVE  /\ h.dataSectors \in Seq(Pointers)
         /\ n <= MaxFileSize1 =>
               /\ Len(h.dataSectors) = n
               /\ \A k \in 1 .. n : h.dataSectors[k] = find[k]
         /\ n > MaxFileSize1 => Len(h.dataSectors) = NumDirect
         /\ n > MaxFileSize1 /\ n <= MaxFileSize2 =>
               \A k \in 1 .. NumDirect : h.dataSectors[k] = find[k]
         /\ n > MaxFileSize1 /\ n > MaxFileSize2 =>
               /\ \A k \in 1 .. NumDirect - 1 : h.dataSectors[k] = find[k]
               /\ h.dataSectors[NumDirect] = find[LastBlock]
  <1>1. n \in Sizes /\ find \in [1 .. MaxCalls -> Pointers] /\ h.dataSectors = DataSectors(n, find)
    BY DEF FileAt
  <1>2. /\ DataSectors(n, find) \in Seq(Pointers)
        /\ n <= MaxFileSize1 =>
              /\ Len(DataSectors(n, find)) = n
              /\ \A k \in 1 .. n : DataSectors(n, find)[k] = find[k]
        /\ n > MaxFileSize1 => Len(DataSectors(n, find)) = NumDirect
        /\ n > MaxFileSize1 /\ n <= MaxFileSize2 =>
              \A k \in 1 .. NumDirect : DataSectors(n, find)[k] = find[k]
        /\ n > MaxFileSize1 /\ n > MaxFileSize2 =>
              /\ \A k \in 1 .. NumDirect - 1 : DataSectors(n, find)[k] = find[k]
              /\ DataSectors(n, find)[NumDirect] = find[LastBlock]
    BY <1>1, HeaderPointers
  <1>3. QED
    BY <1>1, <1>2

LEMMA EntrySectors ==
  ASSUME NEW tier, NEW block, NEW m
  PROVE  {p[3] : p \in Entries(tier, block, m)} = {block[i] : i \in 1 .. m}
  <1> DEFINE S == {p[3] : p \in Entries(tier, block, m)}
             T == {block[i] : i \in 1 .. m}
  <1>1. \A i : <<tier, i, block[i]>>[3] = block[i]
    OBVIOUS
  <1>2. ASSUME NEW x \in S PROVE x \in T
    <2>1. PICK p \in Entries(tier, block, m) : x = p[3]
      BY Zenon
    <2>2. PICK i \in 1 .. m : p = <<tier, i, block[i]>>
      BY Zenon DEF Entries
    <2>3. x = block[i]
      BY <1>1, <2>1, <2>2
    <2>4. QED
      BY <2>3
  <1>3. ASSUME NEW x \in T PROVE x \in S
    <2>1. PICK i \in 1 .. m : x = block[i]
      BY Zenon
    <2>2. <<tier, i, block[i]>> \in Entries(tier, block, m)
      BY Zenon DEF Entries
    <2>3. x = <<tier, i, block[i]>>[3]
      BY <1>1, <2>1
    <2>4. QED
      BY <2>2, <2>3, Zenon
  <1>4. QED
    BY <1>2, <1>3, Zenon

\* ByteToSector finds the sector that Allocate found for the offset.
LEMMA SectorFound ==
  ASSUME NEW h, NEW n, n = h.numSectors, NEW find, FileAt(h, ptrs, find),
         NEW i \in 0 .. n - 1
  PROVE  ByteToSector(h, i) = find[DataCall(n, i)]
  <1> DEFINE P == PtrsPerSector
             past == i - (NumDirect - 2) - P
  <1>1. n \in Sizes /\ find \in [1 .. MaxCalls -> Pointers] /\ h.dataSectors = DataSectors(n, find)
        /\ \A k \in BlockCalls(n) : ptrs[find[k]] = Blocks(n, find)[k]
    BY DEF FileAt
  <1>2. /\ NumSectors \in Nat /\ NumDirect \in Nat /\ P \in Nat \ {0}
        /\ NumDirect > 2 /\ P > 2 /\ MaxFileSize1 = NumDirect
        /\ MaxFileSize2 = Done /\ Done \in Nat /\ LastBlock = Done + 2
        /\ n \in Nat /\ n <= NumSectors - 1 /\ Done = NumDirect - 2 + P /\ i \in 0 .. n - 1
    BY <1>1, Bounds DEF Sizes, Done
  <1>30. /\ n <= MaxFileSize1 => \A k \in 1 .. n : h.dataSectors[k] = find[k]
         /\ n > MaxFileSize1 /\ n <= MaxFileSize2 =>
               \A k \in 1 .. NumDirect : h.dataSectors[k] = find[k]
         /\ n > MaxFileSize1 /\ n > MaxFileSize2 =>
               /\ \A k \in 1 .. NumDirect - 1 : h.dataSectors[k] = find[k]
               /\ h.dataSectors[NumDirect] = find[LastBlock]
    BY HeaderHolds
  <1>31. /\ \/ n <= MaxFileSize1
            \/ n > MaxFileSize1 /\ n <= MaxFileSize2
            \/ n > MaxFileSize1 /\ n > MaxFileSize2
         /\ n > MaxFileSize1 /\ n <= MaxFileSize2 => BlockCalls(n) = {NumDirect}
         /\ n > MaxFileSize1 /\ n > MaxFileSize2 =>
               BlockCalls(n) = {NumDirect - 1, LastBlock}
                               \cup {GroupCall(j, LastBlock) : j \in Groups(n, Done)}
    BY <1>1, TierFacts
  <1>3. CASE n <= MaxFileSize1
    <2>1. ByteToSector(h, i) = h.dataSectors[i + 1]
      <3>1. ~ n > MaxFileSize1
        BY <1>2, <1>3
      <3>2. QED
        BY <1>3, <3>1 DEF ByteToSector
    <2>2. i + 1 \in 1 .. n
      BY <1>2
    <2>3. DataCall(n, i) = i + 1
      BY <1>3 DEF DataCall
    <2>4. QED
      BY <1>1, <1>3, <2>1, <2>2, <2>3, <1>30
  <1>4. CASE n > MaxFileSize1 /\ n <= MaxFileSize2
    <2>1. ~ n <= MaxFileSize1 /\ i + 1 \in Int /\ BlockCalls(n) = {NumDirect}
      BY <1>1, <1>2, <1>4, <1>31
    <2>2. CASE i < NumDirect - 1
      <3>1. ByteToSector(h, i) = h.dataSectors[i + 1]
        BY <1>4, <2>1, <2>2 DEF ByteToSector
      <3>2. i + 1 \in 1 .. NumDirect
        BY <1>2, <2>2
      <3>3. DataCall(n, i) = i + 1
        BY <1>4, <2>1, <2>2 DEF DataCall
      <3>4. QED
        BY <1>1, <1>4, <3>1, <3>2, <3>3, <1>30
    <2>3. CASE ~ i < NumDirect - 1
      <3> DEFINE e == i - (NumDirect - 1) + 1
      <3>1. ByteToSector(h, i) = ptrs[h.dataSectors[(NumDirect - 1) + 1]][e]
        BY <1>4, <2>1, <2>3 DEF ByteToSector
      <3>2. (NumDirect - 1) + 1 = NumDirect /\ NumDirect \in 1 .. NumDirect
            /\ e \in 1 .. P /\ (NumDirect - 1) + e - 1 = i /\ i < n
        BY <1>2, <1>4, <2>3
      <3> HIDE DEF e
      <3>3. h.dataSectors[NumDirect] = find[NumDirect]
        BY <1>1, <1>4, <3>2, <1>30
      <3>4. ptrs[find[NumDirect]] = Blocks(n, find)[NumDirect]
        BY <1>1, <2>1
      <3>5. Blocks(n, find)[NumDirect][e] = find[DataCall(n, i)]
        BY <1>1, <1>4, <3>2, BlocksHold DEF HoldsFrom
      <3>6. QED
        BY <3>1, <3>2, <3>3, <3>4, <3>5
    <2>4. QED
      BY <2>2, <2>3
  <1>5. CASE n > MaxFileSize1 /\ n > MaxFileSize2
    <2>1. /\ ~ n <= MaxFileSize1 /\ ~ n <= MaxFileSize2 /\ i + 1 \in Int
          /\ BlockCalls(n) = {NumDirect - 1, LastBlock}
                             \cup {GroupCall(j, LastBlock) : j \in Groups(n, Done)}
      BY <1>1, <1>2, <1>5, <1>31
    <2>2. CASE i < NumDirect - 2
      <3>1. ByteToSector(h, i) = h.dataSectors[i + 1]
        BY <1>5, <2>1, <2>2 DEF ByteToSector
      <3>2. i + 1 \in 1 .. NumDirect - 1
        BY <1>2, <2>2
      <3>3. DataCall(n, i) = i + 1
        BY <2>1, <2>2 DEF DataCall
      <3>4. QED
        BY <1>1, <1>5, <3>1, <3>2, <3>3, <1>30
    <2>3. CASE ~ i < NumDirect - 2 /\ i < Done
      <3> DEFINE e == i - (NumDirect - 2) + 1
      <3>1. past < 0
        BY <1>2, <2>3
      <3>2. ByteToSector(h, i) = ptrs[h.dataSectors[(NumDirect - 2) + 1]][e]
        BY <1>5, <2>1, <2>3, <3>1 DEF ByteToSector
      <3>3. (NumDirect - 2) + 1 = NumDirect - 1 /\ NumDirect - 1 \in 1 .. NumDirect - 1
            /\ e \in 1 .. P /\ (NumDirect - 2) + e - 1 = i /\ i < n
        BY <1>2, <1>5, <2>3
      <3> HIDE DEF e
      <3>4. h.dataSectors[NumDirect - 1] = find[NumDirect - 1]
        BY <1>1, <1>5, <3>3, <1>30
      <3>5. ptrs[find[NumDirect - 1]] = Blocks(n, find)[NumDirect - 1]
        BY <1>1, <2>1
      <3>6. Blocks(n, find)[NumDirect - 1][e] = find[DataCall(n, i)]
        BY <1>1, <1>5, <3>3, BlocksHold DEF HoldsFrom
      <3>7. QED
        BY <3>2, <3>3, <3>4, <3>5, <3>6
    <2>4. CASE ~ i < Done
      <3> DEFINE loc == past \div P
                 r == past - P * loc
                 j == loc + 1
                 c == GroupCall(j, LastBlock)
      <3>1. past = i - Done /\ past \in 0 .. n - 1 - Done /\ ~ past < 0 /\ n - 1 - Done \in Nat
            /\ ~ i < NumDirect - 2
        BY <1>2, <1>5, <2>4
      <3>2. ByteToSector(h, i) =
               ptrs[ptrs[h.dataSectors[(NumDirect - 1) + 1]][loc + 1]][r + 1]
        BY <1>5, <2>1, <3>1 DEF ByteToSector, InDouble
      <3> HIDE DEF past
      <3>3. loc \in 0 .. (n - 1 - Done) \div P /\ past % P \in 0 .. P - 1
            /\ past = P * loc + (past % P)
        <4> DEFINE top == n - 1 - Done
        <4>1. top \in Nat /\ past \in 0 .. top
          BY <3>1
        <4> HIDE DEF top, P
        <4>2. past \div P \in 0 .. top \div P /\ past % P \in 0 .. P - 1
              /\ past = P * (past \div P) + (past % P)
          BY <1>2, <4>1, TierCalls
        <4>3. QED
          BY <4>2 DEF top, P
      <3>4. (n - 1 - Done) \div P \in 0 .. P - 1 /\ Groups(n, Done) = 1 .. ((n - 1 - Done) \div P) + 1
        BY <1>1, <1>5, GroupsFilled
      <3> HIDE DEF loc
      <3>5. j \in Groups(n, Done) /\ j \in 1 .. P /\ j - 1 = loc /\ loc \in Nat /\ P * loc \in Nat
        <4> DEFINE g == (n - 1 - Done) \div P
        <4>1. loc \in 0 .. g /\ g \in 0 .. P - 1 /\ Groups(n, Done) = 1 .. g + 1
          BY <3>3, <3>4
        <4> HIDE DEF g
        <4>2. QED
          BY <1>2, <4>1
      <3>6. r \in 0 .. P - 1 /\ past = P * loc + r
        BY <1>2, <3>1, <3>3, <3>5
      <3> HIDE DEF past, r
      <3>7. r + 1 \in 1 .. P /\ Done + (j - 1) * P + (r + 1) - 1 = i /\ i < n
        <4>1. (j - 1) * P = P * loc
          BY <1>2, <3>5
        <4> DEFINE t == P * loc
        <4>2. t \in Nat /\ i = Done + t + r /\ (j - 1) * P = t
          BY <1>2, <3>1, <3>5, <3>6, <4>1
        <4> HIDE DEF t
        <4>3. QED
          BY <1>2, <3>6, <4>2
      <3> HIDE DEF j
      <3>8. h.dataSectors[(NumDirect - 1) + 1] = find[LastBlock]
        <4>1. (NumDirect - 1) + 1 = NumDirect
          BY <1>2
        <4>2. QED
          BY <1>1, <1>5, <4>1, <1>30
      <3>9. LastBlock \in BlockCalls(n) /\ c \in BlockCalls(n)
        BY <2>1, <3>5
      <3>10. ptrs[find[LastBlock]][j] = find[c]
        <4>1. Blocks(n, find)[LastBlock][j] =
                 IF j \in Groups(n, Done) THEN find[GroupCall(j, LastBlock)] ELSE 0
          BY <1>1, <1>5, <3>5, BlocksHold
        <4>2. QED
          BY <1>1, <3>5, <3>9, <4>1
      <3>11. ptrs[find[c]] = Blocks(n, find)[c]
        BY <1>1, <3>9
      <3>12. HoldsFrom(Blocks(n, find)[c], n, find, Done + (j - 1) * P)
        BY <1>1, <1>5, <3>5, BlocksHold
      <3>13. Blocks(n, find)[c][r + 1] = find[DataCall(n, i)]
        <4> HIDE DEF c
        <4> QED
          BY <3>7, <3>12 DEF HoldsFrom
      <3>14. QED
        BY <3>2, <3>8, <3>10, <3>11, <3>13 DEF j
    <2>5. QED
      BY <1>2, <2>2, <2>3, <2>4
  <1>6. QED
    BY <1>1, <1>3, <1>4, <1>5, <1>31

\* The pointer blocks are in the sectors that Allocate found for them.
LEMMA PointersFound ==
  ASSUME NEW h, NEW n, n = h.numSectors, NEW find, FileAt(h, ptrs, find)
  PROVE  PointerBlocks(h) = {find[c] : c \in BlockCalls(n)}
  <1>1. n \in Sizes /\ find \in [1 .. MaxCalls -> Pointers] /\ h.dataSectors = DataSectors(n, find)
        /\ (\A k \in BlockCalls(n) : find[k] # -1 /\ ptrs[find[k]] = Blocks(n, find)[k])
        /\ \A k \in 1 .. MaxCalls : find[k] \notin Reserved
    BY DEF FileAt
  <1>2. /\ NumDirect \in Nat /\ NumDirect > 2 /\ MaxFileSize1 = NumDirect
        /\ MaxFileSize2 = Done /\ Done \in Nat /\ LastBlock = Done + 2
        /\ n \in Nat
    BY <1>1, Bounds DEF Sizes
  <1>3. CASE n <= MaxFileSize1
    BY <1>1, <1>3, TierFacts DEF PointerBlocks
  <1>4. CASE n > MaxFileSize1 /\ n <= MaxFileSize2
    <2>1. BlockCalls(n) = {NumDirect} /\ ~ n <= MaxFileSize1 /\ NumDirect \in 1 .. NumDirect
      BY <1>1, <1>2, <1>4, TierFacts
    <2>2. h.dataSectors[NumDirect] = find[NumDirect]
      BY <1>4, <2>1, HeaderHolds
    <2>3. PointerBlocks(h) = {find[NumDirect]}
      BY <1>4, <2>1, <2>2 DEF PointerBlocks
    <2>4. QED
      BY <2>1, <2>3
  <1>5. CASE n > MaxFileSize1 /\ n > MaxFileSize2
    <2>1. /\ BlockCalls(n) = {NumDirect - 1, LastBlock}
                             \cup {GroupCall(j, LastBlock) : j \in Groups(n, Done)}
          /\ ~ n <= MaxFileSize1 /\ ~ n <= MaxFileSize2 /\ NumDirect - 1 \in 1 .. NumDirect - 1
      BY <1>1, <1>2, <1>5, TierFacts
    <2>2. h.dataSectors[NumDirect - 1] = find[NumDirect - 1] /\ h.dataSectors[NumDirect] = find[LastBlock]
      BY <1>5, <2>1, HeaderHolds
    <2> DEFINE B == ptrs[find[LastBlock]]
    <2>3. PointerBlocks(h) = {find[NumDirect - 1], find[LastBlock]} \cup (ToSet(B) \ {0})
      BY <1>5, <2>1, <2>2 DEF PointerBlocks
    <2>4. /\ B = Blocks(n, find)[LastBlock]
          /\ B \in [1 .. PtrsPerSector -> Pointers]
          /\ \A j \in 1 .. PtrsPerSector :
                B[j] = IF j \in Groups(n, Done) THEN find[GroupCall(j, LastBlock)] ELSE 0
      <3>1. B = Blocks(n, find)[LastBlock]
        BY <1>1, <2>1
      <3>2. /\ Blocks(n, find)[LastBlock] \in [1 .. PtrsPerSector -> Pointers]
            /\ \A j \in 1 .. PtrsPerSector :
                  Blocks(n, find)[LastBlock][j] =
                     IF j \in Groups(n, Done) THEN find[GroupCall(j, LastBlock)] ELSE 0
        BY <1>1, <1>5, BlocksHold
      <3>3. QED
        BY <3>1, <3>2
    <2>5. ToSet(B) = {B[j] : j \in 1 .. PtrsPerSector}
      <3> HIDE DEF B
      <3>1. DOMAIN B = 1 .. PtrsPerSector
        BY <2>4
      <3>2. QED
        BY <3>1 DEF ToSet
    <2>6. \A j \in Groups(n, Done) : j \in 1 .. PtrsPerSector /\ find[GroupCall(j, LastBlock)] # 0
      <3> TAKE j \in Groups(n, Done)
      <3>1. GroupCall(j, LastBlock) \in 1 .. LastCall(n) /\ LastCall(n) \in 0 .. MaxCalls
        BY <1>1, <2>1, CallsApart
      <3>2. GroupCall(j, LastBlock) \in 1 .. MaxCalls
        <4>1. MaxCalls \in Int
          BY Bounds DEF MaxCalls
        <4>2. QED
          BY <3>1, <4>1
      <3>3. find[GroupCall(j, LastBlock)] # 0
        <4>1. find[GroupCall(j, LastBlock)] \notin Reserved /\ 0 \in Reserved
          BY <1>1, <3>2, FileHeaderAssumption
        <4>2. QED
          BY <4>1, Zenon
      <3>4. QED
        BY <3>3 DEF Groups
    <2> HIDE DEF B
    <2>7. ToSet(B) \ {0} = {find[GroupCall(j, LastBlock)] : j \in Groups(n, Done)}
      BY <2>4, <2>5, <2>6
    <2>8. QED
      BY <2>1, <2>3, <2>7
  <1>6. QED
    BY <1>1, <1>3, <1>4, <1>5, TierFacts

\* Deallocate clears the pointer blocks and what ByteToSector leads to.
LEMMA ClearedAll ==
  ASSUME NEW h, NEW n, n = h.numSectors, NEW find, FileAt(h, ptrs, find)
  PROVE  {p[3] : p \in Cleared(h)} =
            PointerBlocks(h) \cup {ByteToSector(h, i) : i \in 0 .. n - 1}
  <1> DEFINE P == PtrsPerSector
             S == {p[3] : p \in Cleared(h)}
             T == {ByteToSector(h, i) : i \in 0 .. n - 1}
             ds == h.dataSectors
             past == n - (NumDirect - 2) - P
             group(i) == ptrs[ptrs[ds[NumDirect]][((i - 1) \div P) + 1]]
  <1>1. n \in Sizes /\ find \in [1 .. MaxCalls -> Pointers] /\ ds = DataSectors(n, find)
        /\ \A k \in BlockCalls(n) : find[k] # -1 /\ ptrs[find[k]] = Blocks(n, find)[k]
    BY DEF FileAt
  <1>2. /\ NumDirect \in Nat /\ NumDirect > 2 /\ MaxFileSize1 = NumDirect /\ P \in Nat \ {0}
        /\ MaxFileSize2 = Done /\ Done \in Nat /\ LastBlock = Done + 2 /\ P > 2
        /\ n \in Nat /\ Done = NumDirect - 2 + P
    BY <1>1, Bounds DEF Sizes, Done
  <1>3. CASE n <= MaxFileSize1
    <2>1. Len(ds) = n /\ ~ n > MaxFileSize1
      BY <1>2, <1>3, HeaderHolds
    <2>2. S = {ds[i] : i \in 1 .. n}
      <3>1. Cleared(h) = Entries("header", ds, n)
        BY <1>3, <2>1 DEF Cleared
      <3>2. {p[3] : p \in Entries("header", ds, n)} = {ds[i] : i \in 1 .. n}
        <4> HIDE DEF ds
        <4>1. QED
          BY EntrySectors, Zenon
      <3>3. QED
        BY <3>1, <3>2
    <2>3. \A i \in 0 .. n - 1 : ByteToSector(h, i) = ds[i + 1]
      BY <1>3, <2>1 DEF ByteToSector
    <2>4. \A i \in 1 .. n : i - 1 \in 0 .. n - 1 /\ (i - 1) + 1 = i
      BY <1>2
    <2>5. \A i \in 0 .. n - 1 : i + 1 \in 1 .. n
      BY <1>2
    <2>6. PointerBlocks(h) = {}
      BY <1>3, <2>1 DEF PointerBlocks
    <2> HIDE DEF S
    <2>7. S = T
      BY <2>2, <2>3, <2>4, <2>5
    <2>8. QED
      BY <2>6, <2>7 DEF S
  <1>4. CASE n > MaxFileSize1 /\ n <= MaxFileSize2
    <2>1. Len(ds) = NumDirect /\ ~ n <= MaxFileSize1
      BY <1>2, <1>4, HeaderHolds
    <2> DEFINE b == ptrs[ds[NumDirect]]
    <2>2. S = {ds[i] : i \in 1 .. NumDirect} \cup {b[i] : i \in 1 .. n - NumDirect + 1}
      <3>1. Cleared(h) = Entries("header", ds, NumDirect) \cup Entries("single", b, n - NumDirect + 1)
        BY <1>4, <2>1 DEF Cleared
      <3>2. {p[3] : p \in Entries("header", ds, NumDirect)} = {ds[i] : i \in 1 .. NumDirect}
        BY EntrySectors
      <3>3. {p[3] : p \in Entries("single", b, n - NumDirect + 1)} = {b[i] : i \in 1 .. n - NumDirect + 1}
        <4> DEFINE m == n - NumDirect + 1
        <4> HIDE DEF b, m
        <4>1. {p[3] : p \in Entries("single", b, m)} = {b[i] : i \in 1 .. m}
          BY EntrySectors, Zenon
        <4>2. QED
          BY <4>1 DEF m
      <3>4. QED
        BY <3>1, <3>2, <3>3
    <2>3. PointerBlocks(h) = {ds[NumDirect]}
      BY <1>4, <2>1 DEF PointerBlocks
    <2>4. \A i \in 0 .. n - 1 :
             ByteToSector(h, i) = IF i < NumDirect - 1 THEN ds[i + 1]
                                  ELSE b[i - (NumDirect - 1) + 1]
      <3> TAKE i \in 0 .. n - 1
      <3>1. (NumDirect - 1) + 1 = NumDirect
        BY <1>2
      <3>2. QED
        BY <1>4, <2>1, <3>1 DEF ByteToSector
    <2> HIDE DEF S, ds, b
    <2>5. ASSUME NEW x \in S PROVE x \in PointerBlocks(h) \cup T
      <3>1. CASE \E i \in 1 .. NumDirect : x = ds[i]
        <4>1. PICK i \in 1 .. NumDirect : x = ds[i]
          BY <3>1
        <4>2. CASE i = NumDirect
          BY <2>3, <4>1, <4>2
        <4>3. CASE i # NumDirect
          <5>1. i - 1 \in 0 .. n - 1 /\ i - 1 < NumDirect - 1 /\ (i - 1) + 1 = i
            BY <1>2, <1>4, <4>3
          <5>2. ByteToSector(h, i - 1) = ds[i]
            BY <2>4, <5>1
          <5>3. QED
            BY <4>1, <5>1, <5>2
        <4>4. QED
          BY <4>2, <4>3
      <3>2. CASE \E i \in 1 .. n - NumDirect + 1 : x = b[i]
        <4>1. PICK i \in 1 .. n - NumDirect + 1 : x = b[i]
          BY <3>2
        <4> DEFINE o == i + NumDirect - 2
        <4>2. o \in 0 .. n - 1 /\ ~ o < NumDirect - 1 /\ o - (NumDirect - 1) + 1 = i
          BY <1>2, <1>4
        <4>3. ByteToSector(h, o) = b[i]
          BY <2>4, <4>2
        <4> HIDE DEF o
        <4>4. QED
          BY <4>1, <4>2, <4>3
      <3>3. QED
        BY <2>2, <3>1, <3>2
    <2>6. ASSUME NEW i \in 0 .. n - 1 PROVE ByteToSector(h, i) \in S
      <3>1. CASE i < NumDirect - 1
        <4>1. i + 1 \in 1 .. NumDirect
          BY <1>2, <3>1
        <4>2. QED
          BY <2>2, <2>4, <3>1, <4>1
      <3>2. CASE ~ i < NumDirect - 1
        <4>1. i - (NumDirect - 1) + 1 \in 1 .. n - NumDirect + 1
          BY <1>2, <1>4, <3>2
        <4>2. QED
          BY <2>2, <2>4, <3>2, <4>1
      <3>3. QED
        BY <3>1, <3>2
    <2>7. ds[NumDirect] \in S
      BY <1>2, <2>2
    <2>8. QED
      BY <2>3, <2>5, <2>6, <2>7 DEF S, ds
  <1>5. CASE n > MaxFileSize1 /\ n > MaxFileSize2
    <2>1. Len(ds) = NumDirect /\ ~ n <= MaxFileSize1 /\ ~ n <= MaxFileSize2
      BY <1>2, <1>5, HeaderHolds
    <2> DEFINE b == ptrs[ds[NumDirect - 1]]
               bb == ptrs[ds[NumDirect]]
    <2>2. DOMAIN bb = 1 .. P
      <3>1. LastBlock \in BlockCalls(n)
        BY <1>1, <1>5, TierFacts
      <3>2. ds[NumDirect] = find[LastBlock]
        BY <1>5, HeaderHolds
      <3>3. Blocks(n, find)[LastBlock] \in [1 .. P -> Pointers]
        BY <1>1, <1>5, BlocksHold
      <3>4. QED
        BY <1>1, <3>1, <3>2, <3>3
    <2>3. S = {ds[i] : i \in 1 .. NumDirect} \cup {b[i] : i \in 1 .. P}
              \cup ({bb[i] : i \in 1 .. P} \ {0})
              \cup {group(i)[((i - 1) % P) + 1] : i \in 1 .. past}
      <3>1. Cleared(h) = Entries("header", ds, NumDirect) \cup Entries("single", b, P)
                         \cup {p \in Entries("double", bb, P) : p[3] # 0}
                         \cup {<<"group", i, group(i)[((i - 1) % P) + 1]>> : i \in 1 .. past}
        BY <1>5, <2>1 DEF Cleared
      <3>2. {p[3] : p \in Entries("header", ds, NumDirect)} = {ds[i] : i \in 1 .. NumDirect}
        BY EntrySectors
      <3>3. {p[3] : p \in Entries("single", b, P)} = {b[i] : i \in 1 .. P}
        BY EntrySectors
      <3>4. {p[3] : p \in {p \in Entries("double", bb, P) : p[3] # 0}} = {bb[i] : i \in 1 .. P} \ {0}
        <4> DEFINE E == Entries("double", bb, P)
                   F == {bb[i] : i \in 1 .. P}
        <4>1. {p[3] : p \in E} = F
          BY EntrySectors
        <4> HIDE DEF E, F
        <4>2. {p[3] : p \in {p \in E : p[3] # 0}} = {p[3] : p \in E} \ {0}
          BY Zenon
        <4>3. QED
          BY <4>1, <4>2 DEF E, F
      <3> DEFINE G == {<<"group", i, group(i)[((i - 1) % P) + 1]>> : i \in 1 .. past}
      <3>5. {p[3] : p \in G} = {group(i)[((i - 1) % P) + 1] : i \in 1 .. past}
        <4> DEFINE v(i) == group(i)[((i - 1) % P) + 1]
        <4>1. \A i : <<"group", i, v(i)>>[3] = v(i)
          OBVIOUS
        <4>2. G = {<<"group", i, v(i)>> : i \in 1 .. past}
          OBVIOUS
        <4> HIDE DEF v, G
        <4>3. {p[3] : p \in G} = {v(i) : i \in 1 .. past}
          BY <4>1, <4>2
        <4>4. QED
          BY <4>3 DEF v
      <3>6. Cleared(h) = Entries("header", ds, NumDirect) \cup Entries("single", b, P)
                         \cup {p \in Entries("double", bb, P) : p[3] # 0} \cup G
        BY <3>1
      <3> HIDE DEF G
      <3>7. S = {p[3] : p \in Entries("header", ds, NumDirect)}
                \cup {p[3] : p \in Entries("single", b, P)}
                \cup {p[3] : p \in {p \in Entries("double", bb, P) : p[3] # 0}}
                \cup {p[3] : p \in G}
        BY <3>6
      <3>8. QED
        BY <3>2, <3>3, <3>4, <3>5, <3>7
    <2>4. PointerBlocks(h) = {ds[NumDirect - 1], ds[NumDirect]} \cup ({bb[i] : i \in 1 .. P} \ {0})
      <3>1. ToSet(bb) = {bb[i] : i \in 1 .. P}
        BY <2>2 DEF ToSet
      <3>2. PointerBlocks(h) = {ds[NumDirect - 1], ds[NumDirect]} \cup (ToSet(bb) \ {0})
        BY <1>5, <2>1 DEF PointerBlocks
      <3>3. QED
        BY <3>1, <3>2
    <2>5. \A i \in 0 .. n - 1 :
             ByteToSector(h, i) = IF i < NumDirect - 2 THEN ds[i + 1]
                                  ELSE IF i < Done THEN b[i - (NumDirect - 2) + 1]
                                  ELSE group(i - Done + 1)[((i - Done) % P) + 1]
      <3> TAKE i \in 0 .. n - 1
      <3>1. (NumDirect - 1) + 1 = NumDirect /\ (NumDirect - 2) + 1 = NumDirect - 1
            /\ i - (NumDirect - 2) - P = i - Done /\ (i - Done + 1) - 1 = i - Done
            /\ (i - Done < 0 <=> i < Done)
        BY <1>2
      <3> DEFINE o == i - Done
      <3>2. o \in Int /\ (o + 1) - 1 = o
        BY <1>2
      <3>3. ByteToSector(h, i) = IF i < NumDirect - 2 THEN ds[i + 1]
                                 ELSE IF o < 0 THEN b[i - (NumDirect - 2) + 1]
                                 ELSE ptrs[bb[(o \div P) + 1]][(o - P * (o \div P)) + 1]
        BY <1>5, <2>1, <3>1 DEF ByteToSector, InDouble
      <3>4. o - P * (o \div P) = o % P
        <4> HIDE DEF P, o
        <4>1. o \div P \in Int /\ o % P \in 0..(P - 1) /\ P * (o \div P) \in Int
              /\ o = P * (o \div P) + (o % P)
          BY <1>2, <3>2, DivMod
        <4> DEFINE x == P * (o \div P)
                   y == o % P
        <4>2. x \in Int /\ y \in Int /\ o = x + y
          BY <4>1
        <4> HIDE DEF x, y
        <4>3. o - x = y
          BY <4>2
        <4>4. QED
          BY <4>3 DEF x, y
      <3>5. QED
        BY <3>1, <3>2, <3>3, <3>4
    <2>6. past = n - Done /\ past \in Nat \ {0}
      BY <1>2, <1>5
    <2> HIDE DEF S, ds, b, bb, group, past
    <2>7. ASSUME NEW x \in S PROVE x \in PointerBlocks(h) \cup T
      <3>1. CASE \E i \in 1 .. NumDirect : x = ds[i]
        <4>1. PICK i \in 1 .. NumDirect : x = ds[i]
          BY <3>1
        <4>2. CASE i = NumDirect \/ i = NumDirect - 1
          BY <2>4, <4>1, <4>2
        <4>3. CASE i # NumDirect /\ i # NumDirect - 1
          <5>1. i - 1 \in 0 .. n - 1 /\ i - 1 < NumDirect - 2 /\ (i - 1) + 1 = i
            BY <1>2, <1>5, <4>3
          <5>2. ByteToSector(h, i - 1) = ds[i]
            BY <2>5, <5>1
          <5>3. QED
            BY <4>1, <5>1, <5>2
        <4>4. QED
          BY <4>2, <4>3
      <3>2. CASE \E i \in 1 .. P : x = b[i]
        <4>1. PICK i \in 1 .. P : x = b[i]
          BY <3>2
        <4> DEFINE o == i + NumDirect - 3
        <4>2. o \in 0 .. n - 1 /\ ~ o < NumDirect - 2 /\ o < Done /\ o - (NumDirect - 2) + 1 = i
          BY <1>2, <1>5
        <4>3. ByteToSector(h, o) = b[i]
          BY <2>5, <4>2
        <4> HIDE DEF o
        <4>4. QED
          BY <4>1, <4>2, <4>3
      <3>3. CASE \E i \in 1 .. past : x = group(i)[((i - 1) % P) + 1]
        <4>1. PICK i \in 1 .. past : x = group(i)[((i - 1) % P) + 1]
          BY <3>3
        <4> DEFINE o == Done + i - 1
        <4>2. o \in 0 .. n - 1 /\ ~ o < NumDirect - 2 /\ ~ o < Done /\ o - Done + 1 = i
              /\ o - Done = i - 1
          BY <1>2, <2>6
        <4>3. ByteToSector(h, o) = group(i)[((i - 1) % P) + 1]
          BY <2>5, <4>2
        <4> HIDE DEF o
        <4>4. QED
          BY <4>1, <4>2, <4>3
      <3>4. CASE x \in {bb[i] : i \in 1 .. P} \ {0}
        BY <2>4, <3>4
      <3>5. QED
        BY <2>3, <3>1, <3>2, <3>3, <3>4
    <2>8. ASSUME NEW i \in 0 .. n - 1 PROVE ByteToSector(h, i) \in S
      <3>1. CASE i < NumDirect - 2
        <4>1. i + 1 \in 1 .. NumDirect
          BY <1>2, <3>1
        <4>2. QED
          BY <2>3, <2>5, <3>1, <4>1
      <3>2. CASE ~ i < NumDirect - 2 /\ i < Done
        <4>1. i - (NumDirect - 2) + 1 \in 1 .. P
          BY <1>2, <3>2
        <4>2. QED
          BY <2>3, <2>5, <3>2, <4>1
      <3>3. CASE ~ i < NumDirect - 2 /\ ~ i < Done
        <4> DEFINE e == i - Done + 1
        <4>1. e \in 1 .. past /\ e - 1 = i - Done
          BY <1>2, <2>6, <3>3
        <4>2. ByteToSector(h, i) = group(e)[((e - 1) % P) + 1]
          BY <2>5, <3>3, <4>1
        <4> HIDE DEF e
        <4>3. QED
          BY <2>3, <4>1, <4>2
      <3>4. QED
        BY <3>1, <3>2, <3>3
    <2>9. ds[NumDirect] \in S /\ ds[NumDirect - 1] \in S
      <3>1. NumDirect \in 1 .. NumDirect /\ NumDirect - 1 \in 1 .. NumDirect
        BY <1>2
      <3>2. QED
        BY <2>3, <3>1
    <2>10. {bb[i] : i \in 1 .. P} \ {0} \in SUBSET S
      BY <2>3
    <2>11. S = PointerBlocks(h) \cup T
      BY <2>4, <2>7, <2>8, <2>9, <2>10
    <2>12. QED
      BY <2>11 DEF S
  <1>6. QED
    BY <1>1, <1>3, <1>4, <1>5, TierFacts

-----------------------------------------------------------------------------
(* The invariant: each file has the sectors of one run of calls of Find.    *)

\* the sectors that the calls for a file returned
Taken(h, find) == Returned(h.numSectors, find) \ {-1}

\* each file has the sectors of its calls of Find, no two files have one in common,
\* and the free map has marked these and the reserved ones
HeadersBy(finds) ==
  /\ hdr = [f \in Files |-> hdr[f]]
  /\ aborted \in BOOLEAN
  /\ \A s \in DOMAIN ptrs : s \in Sectors /\ ptrs[s] \in [1 .. PtrsPerSector -> Pointers]
  /\ \A f \in Allocated : FileAt(hdr[f], ptrs, finds[f])
  /\ \A f, g \in Allocated : f # g => Taken(hdr[f], finds[f]) \cap Taken(hdr[g], finds[g]) = {}
  /\ freeMap = Reserved \cup UNION {Taken(hdr[f], finds[f]) : f \in Allocated}

HeadersFound == \E finds \in [Files -> [1 .. MaxCalls -> Pointers]] : HeadersBy(finds)

\* what a file has taken: sectors of the disk, none of them reserved
LEMMA TakenFacts ==
  ASSUME NEW h, NEW blocks, NEW find, FileAt(h, blocks, find)
  PROVE  /\ h # NoHeader /\ h.numSectors \in Sizes
         /\ Taken(h, find) \in SUBSET (Sectors \ Reserved)
         /\ \A k \in BlockCalls(h.numSectors) : find[k] \in Taken(h, find)
  <1> DEFINE n == h.numSectors
  <1>1. /\ n \in Sizes /\ find \in [1 .. MaxCalls -> Pointers]
        /\ h = [numSectors |-> n, dataSectors |-> DataSectors(n, find)]
        /\ \A k \in 1 .. MaxCalls : find[k] \notin Reserved
        /\ \A k \in BlockCalls(n) : find[k] # -1
    BY DEF FileAt
  <1>2. DataSectors(n, find) \in Seq(Pointers)
    BY <1>1, HeaderPointers
  <1>3. h # NoHeader
    <2>1. n \in Nat /\ Pointers \in SUBSET Int
      BY <1>1, Bounds DEF Sizes, Pointers
    <2>2. DataSectors(n, find) \in Seq(Int)
      <3> DEFINE d == DataSectors(n, find)
      <3> HIDE DEF d
      <3>1. d \in Seq(Pointers)
        BY <1>2 DEF d
      <3>2. d \in Seq(Int)
        <4>1. Len(d) \in Nat /\ d \in [1 .. Len(d) -> Pointers]
          BY <3>1, LenProperties
        <4>2. d \in [1 .. Len(d) -> Int]
          BY <2>1, <4>1
        <4>3. QED
          BY <4>1, <4>2, SeqDef
      <3>3. QED
        BY <3>2 DEF d
    <2>3. h \in [numSectors : Nat, dataSectors : Seq(Int)]
      BY <1>1, <2>1, <2>2
    <2>4. QED
      BY <2>3, FileHeaderAssumption
  <1>4. LastCall(n) \in 0 .. MaxCalls /\ BlockCalls(n) \in SUBSET (1 .. LastCall(n))
    BY <1>1, CallsApart
  <1>5. MaxCalls \in Nat /\ NumSectors \in Nat
    BY Bounds DEF MaxCalls
  <1>6. 1 .. LastCall(n) \in SUBSET (1 .. MaxCalls)
    BY <1>4, <1>5
  <1>7. Returned(n, find) \in SUBSET (Pointers \ Reserved)
    BY <1>1, <1>6 DEF Returned
  <1>8. Pointers \ {-1} = Sectors
    BY <1>5 DEF Pointers, Sectors
  <1>9. Taken(h, find) \in SUBSET (Sectors \ Reserved)
    BY <1>7, <1>8 DEF Taken
  <1>10. \A k \in BlockCalls(n) : find[k] \in Taken(h, find)
    BY <1>1, <1>4 DEF Taken, Returned
  <1>11. QED
    BY <1>1, <1>3, <1>9, <1>10

LEMMA HeadersFoundInit == HeaderInit => HeadersFound
  <1> SUFFICES ASSUME HeaderInit PROVE HeadersFound
    OBVIOUS
  <1> DEFINE finds == [f \in Files |-> [k \in 1 .. MaxCalls |-> -1]]
  <1>1. Allocated = {}
    BY DEF HeaderInit, Allocated
  <1>2. DOMAIN ptrs = {}
    BY DEF HeaderInit
  <1>3. hdr = [f \in Files |-> hdr[f]] /\ aborted \in BOOLEAN
    BY DEF HeaderInit
  <1>4. freeMap = Reserved
    BY DEF HeaderInit
  <1>5. -1 \in Pointers
    BY Bounds DEF Pointers
  <1>6. finds \in [Files -> [1 .. MaxCalls -> Pointers]]
    BY <1>5
  <1> HIDE DEF finds
  <1>7. UNION {Taken(hdr[f], finds[f]) : f \in Allocated} = {}
    BY <1>1
  <1>8. HeadersBy(finds)
    BY <1>1, <1>2, <1>3, <1>4, <1>7 DEF HeadersBy
  <1>9. QED
    BY <1>6, <1>8 DEF HeadersFound

\* every pointer block is full of pointers
LEMMA BlocksTyped ==
  ASSUME NEW n \in Sizes, NEW find \in [1 .. MaxCalls -> Pointers], NEW k \in BlockCalls(n)
  PROVE  Blocks(n, find)[k] \in [1 .. PtrsPerSector -> Pointers]
  <1>1. CASE n <= MaxFileSize1
    BY <1>1, TierFacts
  <1>2. CASE n > MaxFileSize1 /\ n <= MaxFileSize2
    <2>1. k = NumDirect
      BY <1>2, TierFacts
    <2>2. HoldsFrom(Blocks(n, find)[NumDirect], n, find, NumDirect - 1)
      BY <1>2, BlocksHold
    <2>3. QED
      BY <2>1, <2>2 DEF HoldsFrom
  <1>3. CASE n > MaxFileSize1 /\ n > MaxFileSize2
    <2>1. /\ HoldsFrom(Blocks(n, find)[NumDirect - 1], n, find, NumDirect - 2)
          /\ Blocks(n, find)[LastBlock] \in [1 .. PtrsPerSector -> Pointers]
          /\ \A j \in Groups(n, Done) :
                HoldsFrom(Blocks(n, find)[GroupCall(j, LastBlock)], n, find,
                          Done + (j - 1) * PtrsPerSector)
      BY <1>3, BlocksHold
    <2>2. k = NumDirect - 1 \/ k = LastBlock \/ \E j \in Groups(n, Done) : k = GroupCall(j, LastBlock)
      BY <1>3, TierFacts
    <2>3. QED
      BY <2>1, <2>2 DEF HoldsFrom
  <1>4. QED
    BY <1>1, <1>2, <1>3, TierFacts

\* A file keeps what Allocate and Deallocate of another leave alone.
LEMMA FileStays ==
  ASSUME NEW h, NEW find, NEW blocks, NEW others, FileAt(h, blocks, find),
         \A k \in BlockCalls(h.numSectors) :
            find[k] \in DOMAIN others /\ others[find[k]] = blocks[find[k]]
  PROVE  FileAt(h, others, find)
  BY Zenon DEF FileAt

LEMMA AllocateFinds ==
  ASSUME NEW f \in Files, NEW n \in 0 .. NumSectors, HeadersFound,
         NEW find, find = Finds(freeMap), Allocate(f, n)
  PROVE  HeadersFound' /\ (~ aborted' => f \in Allocated')
  <1>1. PICK finds \in [Files -> [1 .. MaxCalls -> Pointers]] : HeadersBy(finds)
    BY DEF HeadersFound
  <1>2. /\ hdr = [g \in Files |-> hdr[g]]
        /\ aborted \in BOOLEAN
        /\ \A s \in DOMAIN ptrs : s \in Sectors /\ ptrs[s] \in [1 .. PtrsPerSector -> Pointers]
        /\ \A g \in Allocated : FileAt(hdr[g], ptrs, finds[g])
        /\ \A g, e \in Allocated :
              g # e => Taken(hdr[g], finds[g]) \cap Taken(hdr[e], finds[e]) = {}
        /\ freeMap = Reserved \cup UNION {Taken(hdr[g], finds[g]) : g \in Allocated}
    BY <1>1 DEF HeadersBy
  <1>3. hdr[f] = NoHeader /\ f \notin Allocated /\ Cardinality(Sectors \ freeMap) >= n
    BY DEF Allocate, Allocated
  <1> DEFINE blocks == Blocks(n, find)
             calls == n + Cardinality(DOMAIN blocks)
  <1>4. CASE aborted' = TRUE /\ UNCHANGED <<freeMap, hdr, ptrs>>
    <2>1. Allocated' = Allocated
      BY <1>4 DEF Allocated
    <2>2. HeadersBy(finds)'
      BY <1>2, <1>4, <2>1 DEF HeadersBy
    <2>3. QED
      BY <1>1, <1>4, <2>2 DEF HeadersFound
  <1>5. CASE /\ ~ \E k \in DOMAIN blocks : find[k] = -1
             /\ freeMap' = freeMap \cup ({find[k] : k \in 1 .. calls} \ {-1})
             /\ hdr' = [hdr EXCEPT ![f] =
                          [numSectors |-> n, dataSectors |-> DataSectors(n, find)]]
             /\ ptrs' = [s \in DOMAIN ptrs \cup {find[k] : k \in DOMAIN blocks} |->
                            IF \E k \in DOMAIN blocks : find[k] = s
                            THEN blocks[CHOOSE k \in DOMAIN blocks : find[k] = s]
                            ELSE ptrs[s]]
             /\ UNCHANGED aborted
    <2> DEFINE h == [numSectors |-> n, dataSectors |-> DataSectors(n, find)]
               news == [finds EXCEPT ![f] = find]
    <2>1. n \in Sizes
      <3>1. NumSectors \in Nat /\ NumSectors - 1 \in Int
        BY Bounds
      <3>2. IsFiniteSet(0 .. NumSectors - 1) /\ Cardinality(0 .. NumSectors - 1) = NumSectors
        <4>1. 0 \in Int /\ NumSectors - 1 \in Int
          BY <3>1
        <4>2. /\ IsFiniteSet(0 .. NumSectors - 1)
              /\ Cardinality(0 .. NumSectors - 1) =
                   IF 0 > NumSectors - 1 THEN 0 ELSE NumSectors - 1 - 0 + 1
          BY <4>1, FS_Interval
        <4>3. QED
          BY <3>1, <4>2
      <3>3. 0 \in Reserved /\ Reserved \in SUBSET (0 .. NumSectors - 1)
        BY FileHeaderAssumption
      <3>4. Sectors \ freeMap \in SUBSET (0 .. NumSectors - 1)
            /\ 0 \in 0 .. NumSectors - 1 /\ 0 \notin Sectors \ freeMap
        BY <1>2, <3>3 DEF Sectors
      <3>5. /\ Cardinality(Sectors \ freeMap) <= Cardinality(0 .. NumSectors - 1)
            /\ Cardinality(Sectors \ freeMap) # Cardinality(0 .. NumSectors - 1)
            /\ IsFiniteSet(Sectors \ freeMap)
        BY <3>2, <3>4, FS_Subset
      <3>6. Cardinality(Sectors \ freeMap) \in Nat
        BY <3>5, FS_CardinalityType
      <3>7. QED
        BY <1>3, <3>1, <3>2, <3>5, <3>6 DEF Sizes
    <2>2. /\ find \in [1 .. MaxCalls -> Pointers]
          /\ \A k \in 1 .. MaxCalls : find[k] # -1 => find[k] \in Sectors \ freeMap
          /\ \A k, l \in 1 .. MaxCalls : find[k] = find[l] /\ find[k] # -1 => k = l
      BY FindsFacts
    <2>3. /\ LastCall(n) \in 0 .. MaxCalls
          /\ BlockCalls(n) \in SUBSET (1 .. LastCall(n))
      BY <2>1, CallsApart
    <2>4. MaxCalls \in Nat
      BY Bounds DEF MaxCalls
    <2>5. BlockCalls(n) \in SUBSET (1 .. MaxCalls)
      BY <2>3, <2>4
    <2>6. DOMAIN blocks = BlockCalls(n) /\ calls = LastCall(n)
      <3>1. DOMAIN blocks = BlockCalls(n)
        BY <2>1, <2>2, BlocksHold
      <3>2. n + Cardinality(BlockCalls(n)) = LastCall(n)
        BY <2>1, CallsCounted
      <3>3. QED
        BY <3>1, <3>2
    <2>7. \A k \in BlockCalls(n) : find[k] # -1 /\ find[k] \in Sectors \ freeMap
      BY <1>5, <2>2, <2>5, <2>6
    <2>8. \A k \in 1 .. MaxCalls : find[k] \notin Reserved
      <3>1. -1 \notin Reserved
        <4>1. -1 \notin 0 .. NumSectors - 1
          BY Bounds
        <4>2. QED
          BY <4>1, FileHeaderAssumption
      <3>2. QED
        BY <1>2, <2>2, <3>1
    <2>9. \A k \in BlockCalls(n) : find[k] \in DOMAIN ptrs' /\ ptrs'[find[k]] = blocks[k]
      <3> TAKE k \in BlockCalls(n)
      <3>1. find[k] \in DOMAIN ptrs \cup {find[l] : l \in DOMAIN blocks}
            /\ \E l \in DOMAIN blocks : find[l] = find[k]
        BY <2>6
      <3> DEFINE l == CHOOSE l \in DOMAIN blocks : find[l] = find[k]
      <3>2. find[k] \in DOMAIN ptrs' /\ ptrs'[find[k]] = blocks[l]
        BY <1>5, <3>1
      <3>3. l \in BlockCalls(n) /\ find[l] = find[k]
        BY <2>6, <3>1
      <3>4. l = k
        <4> HIDE DEF l
        <4>1. QED
          BY <2>2, <2>5, <2>7, <3>3
      <3>5. QED
        BY <3>2, <3>4
    <2>10. \A s \in DOMAIN ptrs : s \notin {find[k] : k \in BlockCalls(n)} =>
              s \in DOMAIN ptrs' /\ ptrs'[s] = ptrs[s]
      <3> HIDE DEF blocks
      <3>1. QED
        BY <1>5, <2>6
    <2>11. FileAt(h, ptrs', find)
      <3>1. h.numSectors = n /\ h = [numSectors |-> h.numSectors,
                                     dataSectors |-> DataSectors(h.numSectors, find)]
        OBVIOUS
      <3>2. \A k \in BlockCalls(n) :
               /\ find[k] # -1 /\ find[k] \in DOMAIN ptrs'
               /\ ptrs'[find[k]] = Blocks(n, find)[k]
        BY <2>7, <2>9
      <3> HIDE DEF h
      <3>3. QED
        BY <2>1, <2>2, <2>8, <3>1, <3>2 DEF FileAt
    <2>12. Taken(h, find) = {find[k] : k \in 1 .. calls} \ {-1}
      BY <2>6 DEF Taken, Returned
    <2>13. Taken(h, find) \cap freeMap = {}
      <3>1. 1 .. LastCall(n) \in SUBSET (1 .. MaxCalls)
        BY <2>3, <2>4
      <3>2. QED
        BY <2>2, <2>6, <2>12, <3>1
    <2>14. h # NoHeader
      BY <2>11, TakenFacts
    <2>15. hdr' = [g \in Files |-> hdr'[g]] /\ hdr'[f] = h
           /\ \A g \in Files : g # f => hdr'[g] = hdr[g]
      <3> HIDE DEF h
      <3>1. hdr' = [hdr EXCEPT ![f] = h]
        BY <1>5 DEF h
      <3>2. QED
        BY <1>2, <3>1
    <2> HIDE DEF h, blocks, calls
    <2>16. Allocated' = Allocated \cup {f}
      BY <1>3, <2>14, <2>15 DEF Allocated
    <2>17. news \in [Files -> [1 .. MaxCalls -> Pointers]] /\ news[f] = find
           /\ \A g \in Files : g # f => news[g] = finds[g]
      BY <2>2
    <2> HIDE DEF news
    <2>18. \A g \in Allocated : FileAt(hdr'[g], ptrs', news[g])
      <3> TAKE g \in Allocated
      <3>1. g \in Files /\ g # f /\ FileAt(hdr[g], ptrs, finds[g])
        BY <1>2, <1>3 DEF Allocated
      <3>2. hdr'[g] = hdr[g] /\ news[g] = finds[g]
        BY <2>15, <2>17, <3>1
      <3> DEFINE m == hdr[g].numSectors
      <3>3. \A k \in BlockCalls(m) :
               finds[g][k] \in DOMAIN ptrs /\ finds[g][k] \in Taken(hdr[g], finds[g])
        <4>1. \A k \in BlockCalls(m) : finds[g][k] \in Taken(hdr[g], finds[g])
          BY <3>1, TakenFacts
        <4>2. \A k \in BlockCalls(m) : finds[g][k] \in DOMAIN ptrs
          BY <3>1 DEF FileAt
        <4>3. QED
          BY <4>1, <4>2
      <3>4. Taken(hdr[g], finds[g]) \in SUBSET freeMap
        BY <1>2
      <3>5. \A k \in BlockCalls(m) :
               finds[g][k] \in DOMAIN ptrs' /\ ptrs'[finds[g][k]] = ptrs[finds[g][k]]
        <4> TAKE k \in BlockCalls(m)
        <4>1. finds[g][k] \in DOMAIN ptrs /\ finds[g][k] \in freeMap
          BY <3>3, <3>4
        <4>2. finds[g][k] \notin {find[l] : l \in BlockCalls(n)}
          BY <2>7, <4>1
        <4>3. QED
          BY <2>10, <4>1, <4>2
      <3>6. FileAt(hdr[g], ptrs', finds[g])
        BY <3>1, <3>5, FileStays
      <3>7. QED
        BY <3>2, <3>6
    <2>19. \A g \in Allocated : Taken(hdr'[g], news[g]) = Taken(hdr[g], finds[g])
                                /\ Taken(hdr[g], finds[g]) \in SUBSET freeMap
      <3> TAKE g \in Allocated
      <3>1. g \in Files /\ g # f
        BY <1>3 DEF Allocated
      <3>2. hdr'[g] = hdr[g] /\ news[g] = finds[g]
        BY <2>15, <2>17, <3>1
      <3>3. Taken(hdr[g], finds[g]) \in SUBSET freeMap
        BY <1>2
      <3>4. QED
        BY <3>2, <3>3
    <2>20. Taken(hdr'[f], news[f]) = Taken(h, find)
      BY <2>15, <2>17
    <2>21. \A g \in Allocated' : FileAt(hdr'[g], ptrs', news[g])
      BY <2>11, <2>15, <2>16, <2>17, <2>18
    <2>22. \A g, e \in Allocated' :
              g # e => Taken(hdr'[g], news[g]) \cap Taken(hdr'[e], news[e]) = {}
      <3> TAKE g, e \in Allocated'
      <3> HAVE g # e
      <3>1. CASE g = f
        <4>1. e \in Allocated
          BY <2>16, <3>1
        <4>2. QED
          BY <2>13, <2>19, <2>20, <3>1, <4>1
      <3>2. CASE e = f
        <4>1. g \in Allocated
          BY <2>16, <3>2
        <4>2. QED
          BY <2>13, <2>19, <2>20, <3>2, <4>1
      <3>3. CASE g # f /\ e # f
        <4>1. g \in Allocated /\ e \in Allocated
          BY <2>16, <3>3
        <4>2. QED
          BY <1>2, <2>19, <4>1
      <3>4. QED
        BY <3>1, <3>2, <3>3
    <2>23. freeMap' = Reserved \cup UNION {Taken(hdr'[g], news[g]) : g \in Allocated'}
      <3>1. freeMap' = freeMap \cup Taken(h, find)
        BY <1>5, <2>12
      <3>2. UNION {Taken(hdr'[g], news[g]) : g \in Allocated'} =
              (UNION {Taken(hdr[g], finds[g]) : g \in Allocated}) \cup Taken(h, find)
        <4> DEFINE W == UNION {Taken(hdr'[g], news[g]) : g \in Allocated'}
                   V == UNION {Taken(hdr[g], finds[g]) : g \in Allocated}
        <4>1. \A x : x \in W <=> \E g \in Allocated' : x \in Taken(hdr'[g], news[g])
          BY Zenon
        <4>2. \A x : x \in V <=> \E g \in Allocated : x \in Taken(hdr[g], finds[g])
          BY Zenon
        <4> HIDE DEF W, V
        <4>3. \A x : x \in W <=> x \in V \/ x \in Taken(h, find)
          BY <2>16, <2>19, <2>20, <4>1, <4>2
        <4>4. W = V \cup Taken(h, find)
          BY <4>3
        <4>5. QED
          BY <4>4 DEF W, V
      <3>3. QED
        BY <1>2, <3>1, <3>2
    <2>24. \A s \in DOMAIN ptrs' : s \in Sectors /\ ptrs'[s] \in [1 .. PtrsPerSector -> Pointers]
      <3> TAKE s \in DOMAIN ptrs'
      <3>1. CASE \E k \in BlockCalls(n) : find[k] = s
        <4>1. PICK k \in BlockCalls(n) : find[k] = s
          BY <3>1
        <4>2. ptrs'[s] = Blocks(n, find)[k] /\ s \in Sectors
          BY <2>7, <2>9, <4>1 DEF blocks
        <4>3. Blocks(n, find)[k] \in [1 .. PtrsPerSector -> Pointers]
          BY <2>1, <2>2, BlocksTyped
        <4>4. QED
          BY <4>2, <4>3
      <3>2. CASE ~ \E k \in BlockCalls(n) : find[k] = s
        <4>1. s \in DOMAIN ptrs
          BY <1>5, <2>6, <3>2
        <4>2. QED
          BY <1>2, <2>10, <3>2, <4>1
      <3>3. QED
        BY <3>1, <3>2
    <2>25. \E e \in [Files -> [1 .. MaxCalls -> Pointers]] : e = news
      BY <2>17
    <2>26. PICK all \in [Files -> [1 .. MaxCalls -> Pointers]] : all = news
      BY <2>25
    <2>27. HeadersBy(all)'
      <3>1. (\A g \in Allocated : FileAt(hdr[g], ptrs, all[g]))'
        BY <2>21, <2>26, Zenon
      <3>2. (\A g, e \in Allocated :
                g # e => Taken(hdr[g], all[g]) \cap Taken(hdr[e], all[e]) = {})'
        BY <2>22, <2>26, Zenon
      <3>3. (freeMap = Reserved \cup UNION {Taken(hdr[g], all[g]) : g \in Allocated})'
        BY <2>23, <2>26, Zenon
      <3>4. (hdr = [g \in Files |-> hdr[g]] /\ aborted \in BOOLEAN)'
        BY <1>2, <1>5, <2>15
      <3>5. (\A s \in DOMAIN ptrs : s \in Sectors /\ ptrs[s] \in [1 .. PtrsPerSector -> Pointers])'
        BY <2>24
      <3>6. QED
        BY <3>1, <3>2, <3>3, <3>4, <3>5, Zenon DEF HeadersBy
    <2>28. QED
      BY <2>16, <2>27 DEF HeadersFound
  <1>6. QED
    <2> DEFINE failed == aborted' = TRUE /\ UNCHANGED <<freeMap, hdr, ptrs>>
               stored(e) ==
                  LET all == Blocks(n, e) IN
                  /\ freeMap' = freeMap
                                 \cup ({e[k] : k \in 1 .. n + Cardinality(DOMAIN all)} \ {-1})
                  /\ hdr' = [hdr EXCEPT ![f] =
                               [numSectors |-> n, dataSectors |-> DataSectors(n, e)]]
                  /\ ptrs' = [s \in DOMAIN ptrs \cup {e[k] : k \in DOMAIN all} |->
                                 IF \E k \in DOMAIN all : e[k] = s
                                 THEN all[CHOOSE k \in DOMAIN all : e[k] = s]
                                 ELSE ptrs[s]]
                  /\ UNCHANGED aborted
               fails(e) == \E k \in DOMAIN Blocks(n, e) : e[k] = -1
    <2>1. IF fails(Finds(freeMap)) THEN failed ELSE stored(Finds(freeMap))
      BY Zenon DEF Allocate
    <2>2. ASSUME failed PROVE HeadersFound' /\ (~ aborted' => f \in Allocated')
      BY <1>4, <2>2
    <2>3. ASSUME ~ fails(find), stored(find)
          PROVE  HeadersFound' /\ (~ aborted' => f \in Allocated')
      BY <1>5, <2>3
    <2> HIDE DEF failed, stored, fails
    <2>4. IF fails(find) THEN failed ELSE stored(find)
      BY <2>1, Zenon
    <2>5. QED
      BY <2>2, <2>3, <2>4


\* What ByteToSector and the pointer blocks lead to is what the file has taken.
LEMMA FileSectors ==
  ASSUME NEW h, NEW n, n = h.numSectors, NEW find, FileAt(h, ptrs, find)
  PROVE  /\ PointerBlocks(h) \cup {ByteToSector(h, i) : i \in 0 .. n - 1} = Returned(n, find)
         /\ PointerBlocks(h) \in SUBSET Taken(h, find)
         /\ \A i \in 0 .. n - 1 :
               ByteToSector(h, i) # -1 =>
                  /\ ByteToSector(h, i) \in Taken(h, find) \ PointerBlocks(h)
                  /\ \A j \in 0 .. n - 1 : ByteToSector(h, j) = ByteToSector(h, i) => j = i
  <1>1. /\ n \in Sizes /\ find \in [1 .. MaxCalls -> Pointers]
        /\ \A k, l \in 1 .. MaxCalls : find[k] = find[l] /\ find[k] # -1 => k = l
    BY DEF FileAt
  <1>2. PointerBlocks(h) = {find[c] : c \in BlockCalls(n)}
    BY PointersFound
  <1>3. \A i \in 0 .. n - 1 : ByteToSector(h, i) = find[DataCall(n, i)]
    BY SectorFound
  <1>4. /\ LastCall(n) \in 0 .. MaxCalls
        /\ BlockCalls(n) \in SUBSET (1 .. LastCall(n))
        /\ \A i \in 0 .. n - 1 : DataCall(n, i) \in (1 .. LastCall(n)) \ BlockCalls(n)
        /\ \A i, j \in 0 .. n - 1 : DataCall(n, i) = DataCall(n, j) => i = j
        /\ \A c \in 1 .. LastCall(n) :
              c \in BlockCalls(n) \/ \E i \in 0 .. n - 1 : c = DataCall(n, i)
    BY <1>1, CallsApart
  <1>5. 1 .. LastCall(n) \in SUBSET (1 .. MaxCalls)
    <2>1. MaxCalls \in Nat
      BY Bounds DEF MaxCalls
    <2>2. QED
      BY <1>4, <2>1
  <1>6. PointerBlocks(h) \in SUBSET Taken(h, find)
    <2>1. \A c \in BlockCalls(h.numSectors) : find[c] \in Taken(h, find)
      BY TakenFacts
    <2>2. QED
      BY <1>2, <2>1
  <1> DEFINE I == 0 .. n - 1
             T == {ByteToSector(h, i) : i \in I}
  <1>7. T = {find[DataCall(n, i)] : i \in I}
    BY <1>3
  <1>8. PointerBlocks(h) \cup T = Returned(n, find)
    <2> HIDE DEF T, I
    <2>1. ASSUME NEW x \in Returned(n, find) PROVE x \in PointerBlocks(h) \cup T
      <3>1. PICK c \in 1 .. LastCall(n) : x = find[c]
        BY DEF Returned
      <3>2. QED
        BY <1>2, <1>4, <1>7, <3>1 DEF I
    <2>2. PointerBlocks(h) \in SUBSET Returned(n, find)
      BY <1>2, <1>4 DEF Returned
    <2>3. T \in SUBSET Returned(n, find)
      BY <1>4, <1>7 DEF Returned, I
    <2>4. QED
      BY <2>1, <2>2, <2>3
  <1>9. ASSUME NEW i \in I, ByteToSector(h, i) # -1
        PROVE  /\ ByteToSector(h, i) \in Taken(h, find) \ PointerBlocks(h)
               /\ \A j \in I : ByteToSector(h, j) = ByteToSector(h, i) => j = i
    <2> DEFINE c == DataCall(n, i)
    <2>1. c \in 1 .. MaxCalls /\ c \notin BlockCalls(n) /\ find[c] = ByteToSector(h, i)
      BY <1>3, <1>4, <1>5
    <2>2. ByteToSector(h, i) \in Taken(h, find)
      BY <1>8, <1>9 DEF Taken
    <2>3. ByteToSector(h, i) \notin PointerBlocks(h)
      <3>1. SUFFICES ASSUME NEW d \in BlockCalls(n), find[d] = find[c] PROVE FALSE
        BY <1>2, <2>1
      <3>2. d \in 1 .. MaxCalls
        BY <1>4, <1>5
      <3>3. d = c
        BY <1>1, <1>9, <2>1, <3>1, <3>2
      <3>4. QED
        BY <2>1, <3>3
    <2>4. ASSUME NEW j \in I, ByteToSector(h, j) = ByteToSector(h, i) PROVE j = i
      <3>1. DataCall(n, j) \in 1 .. MaxCalls /\ find[DataCall(n, j)] = find[c]
        BY <1>3, <1>4, <1>5, <2>1, <2>4
      <3>2. DataCall(n, j) = c
        <4> HIDE DEF c
        <4>1. QED
          BY <1>1, <1>9, <2>1, <3>1
      <3>3. QED
        BY <1>4, <3>2
    <2>5. QED
      BY <2>2, <2>3, <2>4
  <1>10. QED
    BY <1>6, <1>8, <1>9

LEMMA DeallocateFinds ==
  ASSUME NEW f \in Files, HeadersFound, Deallocate(f)
  PROVE  HeadersFound'
  <1>1. PICK finds \in [Files -> [1 .. MaxCalls -> Pointers]] : HeadersBy(finds)
    BY DEF HeadersFound
  <1>2. /\ hdr = [g \in Files |-> hdr[g]]
        /\ aborted \in BOOLEAN
        /\ \A s \in DOMAIN ptrs : s \in Sectors /\ ptrs[s] \in [1 .. PtrsPerSector -> Pointers]
        /\ \A g \in Allocated : FileAt(hdr[g], ptrs, finds[g])
        /\ \A g, e \in Allocated :
              g # e => Taken(hdr[g], finds[g]) \cap Taken(hdr[e], finds[e]) = {}
        /\ freeMap = Reserved \cup UNION {Taken(hdr[g], finds[g]) : g \in Allocated}
    BY <1>1 DEF HeadersBy
  <1> DEFINE sectors == {p[3] : p \in Cleared(hdr[f])}
  <1>3. CASE aborted' = TRUE /\ UNCHANGED <<freeMap, hdr, ptrs>>
    <2>1. Allocated' = Allocated
      BY <1>3 DEF Allocated
    <2>2. HeadersBy(finds)'
      BY <1>2, <1>3, <2>1 DEF HeadersBy
    <2>3. QED
      BY <1>1, <2>2 DEF HeadersFound
  <1>4. CASE /\ sectors \in SUBSET freeMap
             /\ freeMap' = freeMap \ sectors
             /\ hdr' = [hdr EXCEPT ![f] = NoHeader]
             /\ ptrs' = [s \in DOMAIN ptrs \ sectors |-> ptrs[s]]
             /\ UNCHANGED aborted
    <2>1. f \in Allocated
      BY DEF Deallocate, Allocated
    <2>2. FileAt(hdr[f], ptrs, finds[f])
      BY <1>2, <2>1
    <2> DEFINE h == hdr[f]
               n == h.numSectors
    <2>3. sectors = PointerBlocks(h) \cup {ByteToSector(h, i) : i \in 0 .. n - 1}
      BY <2>2, ClearedAll
    <2>4. sectors = Returned(n, finds[f])
      <3>1. PointerBlocks(h) \cup {ByteToSector(h, i) : i \in 0 .. n - 1} = Returned(n, finds[f])
        BY <2>2, FileSectors
      <3>2. QED
        BY <2>3, <3>1
    <2> HIDE DEF sectors
    <2>5. freeMap \in SUBSET Sectors
      <3>1. \A g \in Allocated : Taken(hdr[g], finds[g]) \in SUBSET (Sectors \ Reserved)
        BY <1>2, TakenFacts
      <3>2. Reserved \in SUBSET Sectors
        BY FileHeaderAssumption DEF Sectors
      <3>3. QED
        BY <1>2, <3>1, <3>2
    <2>6. sectors = Taken(h, finds[f])
      <3>1. -1 \notin Sectors
        BY Bounds DEF Sectors
      <3>2. QED
        BY <1>4, <2>4, <2>5, <3>1 DEF Taken
    <2>7. Allocated' = Allocated \ {f} /\ hdr' = [g \in Files |-> hdr'[g]]
          /\ \A g \in Allocated' : hdr'[g] = hdr[g]
      BY <1>2, <1>4 DEF Allocated
    <2>8. \A g \in Allocated' : Taken(hdr[g], finds[g]) \cap sectors = {}
      BY <1>2, <2>1, <2>6, <2>7
    <2>9. \A g \in Allocated' : FileAt(hdr'[g], ptrs', finds[g])
      <3> TAKE g \in Allocated'
      <3>1. FileAt(hdr[g], ptrs, finds[g]) /\ hdr'[g] = hdr[g]
        BY <1>2, <2>7
      <3> DEFINE m == hdr[g].numSectors
      <3>2. \A k \in BlockCalls(m) : finds[g][k] \in Taken(hdr[g], finds[g])
        BY <3>1, TakenFacts
      <3>3. \A k \in BlockCalls(m) : finds[g][k] \in DOMAIN ptrs
        BY <3>1 DEF FileAt
      <3>4. \A k \in BlockCalls(m) :
               finds[g][k] \in DOMAIN ptrs' /\ ptrs'[finds[g][k]] = ptrs[finds[g][k]]
        <4> TAKE k \in BlockCalls(m)
        <4>1. finds[g][k] \in DOMAIN ptrs \ sectors
          BY <2>8, <3>2, <3>3
        <4>2. QED
          BY <1>4, <4>1
      <3>5. FileAt(hdr[g], ptrs', finds[g])
        BY <3>1, <3>4, FileStays
      <3>6. QED
        BY <3>1, <3>5
    <2>10. freeMap' = Reserved \cup UNION {Taken(hdr'[g], finds[g]) : g \in Allocated'}
      <3> DEFINE W == UNION {Taken(hdr'[g], finds[g]) : g \in Allocated'}
                 V == UNION {Taken(hdr[g], finds[g]) : g \in Allocated}
      <3>1. \A x : x \in W <=> \E g \in Allocated' : x \in Taken(hdr'[g], finds[g])
        BY Zenon
      <3>2. \A x : x \in V <=> \E g \in Allocated : x \in Taken(hdr[g], finds[g])
        BY Zenon
      <3>3. \A x : x \in V <=> x \in sectors \/ \E g \in Allocated' : x \in Taken(hdr[g], finds[g])
        <4> HIDE DEF V
        <4>1. QED
          BY <2>1, <2>6, <2>7, <3>2
      <3>4. sectors \cap Reserved = {}
        BY <2>2, <2>6, TakenFacts
      <3>5. freeMap = Reserved \cup V
        BY <1>2
      <3> HIDE DEF W, V
      <3>6. freeMap' = Reserved \cup W
        BY <1>4, <2>7, <2>8, <3>1, <3>3, <3>4, <3>5
      <3>7. QED
        BY <3>6 DEF W
    <2>11. \A s \in DOMAIN ptrs' :
              s \in Sectors /\ ptrs'[s] \in [1 .. PtrsPerSector -> Pointers]
      BY <1>2, <1>4
    <2>12. HeadersBy(finds)'
      <3>1. (\A g \in Allocated : FileAt(hdr[g], ptrs, finds[g]))'
        BY <2>9, Zenon
      <3>2. (\A g, e \in Allocated :
                g # e => Taken(hdr[g], finds[g]) \cap Taken(hdr[e], finds[e]) = {})'
        BY <1>2, <2>7
      <3>3. (freeMap = Reserved \cup UNION {Taken(hdr[g], finds[g]) : g \in Allocated})'
        BY <2>10, Zenon
      <3>4. (hdr = [g \in Files |-> hdr[g]] /\ aborted \in BOOLEAN)'
        BY <1>2, <1>4, <2>7
      <3>5. (\A s \in DOMAIN ptrs : s \in Sectors /\ ptrs[s] \in [1 .. PtrsPerSector -> Pointers])'
        BY <2>11
      <3>6. QED
        BY <3>1, <3>2, <3>3, <3>4, <3>5, Zenon DEF HeadersBy
    <2>13. QED
      BY <1>1, <2>12 DEF HeadersFound
  <1>5. QED
    BY <1>3, <1>4 DEF Deallocate

\* aborted is all that a step may change otherwise
LEMMA HeadersStay ==
  ASSUME HeadersFound, UNCHANGED <<freeMap, hdr, ptrs>>, aborted' \in BOOLEAN
  PROVE  HeadersFound'
  <1>1. PICK finds \in [Files -> [1 .. MaxCalls -> Pointers]] : HeadersBy(finds)
    BY DEF HeadersFound
  <1>2. Allocated' = Allocated
    BY DEF Allocated
  <1>3. HeadersBy(finds)'
    BY <1>1, <1>2 DEF HeadersBy
  <1>4. QED
    BY <1>1, <1>3 DEF HeadersFound

LEMMA HeaderSteps ==
  ASSUME HeadersFound, HeaderNext
  PROVE  HeadersFound'
  <1>1. ASSUME NEW f \in Files, NEW n \in 0 .. NumSectors, Allocate(f, n) PROVE HeadersFound'
    BY <1>1, AllocateFinds
  <1>2. ASSUME NEW f \in Files, Deallocate(f) PROVE HeadersFound'
    BY <1>2, DeallocateFinds
  <1>3. QED
    BY <1>1, <1>2 DEF HeaderNext


LEMMA FoundHeaders == HeadersFound => HeadersInv
  <1> SUFFICES ASSUME HeadersFound PROVE HeadersInv
    OBVIOUS
  <1>1. PICK finds \in [Files -> [1 .. MaxCalls -> Pointers]] : HeadersBy(finds)
    BY DEF HeadersFound
  <1>2. /\ aborted \in BOOLEAN
        /\ \A s \in DOMAIN ptrs : s \in Sectors /\ ptrs[s] \in [1 .. PtrsPerSector -> Pointers]
        /\ \A g \in Allocated : FileAt(hdr[g], ptrs, finds[g])
        /\ \A g, e \in Allocated :
              g # e => Taken(hdr[g], finds[g]) \cap Taken(hdr[e], finds[e]) = {}
        /\ freeMap = Reserved \cup UNION {Taken(hdr[g], finds[g]) : g \in Allocated}
    BY <1>1 DEF HeadersBy
  <1> DEFINE taken(g) == Taken(hdr[g], finds[g])
             numSectors(g) == hdr[g].numSectors
  <1>3. \A g \in Allocated : taken(g) \in SUBSET (Sectors \ Reserved) /\ numSectors(g) \in Sizes
    BY <1>2, TakenFacts
  <1>4. \A g \in Allocated :
           /\ PointerBlocks(hdr[g]) \cup {ByteToSector(hdr[g], i) : i \in 0 .. numSectors(g) - 1}
                = Returned(numSectors(g), finds[g])
           /\ PointerBlocks(hdr[g]) \in SUBSET taken(g)
           /\ \A i \in 0 .. numSectors(g) - 1 :
                 ByteToSector(hdr[g], i) # -1 =>
                    /\ ByteToSector(hdr[g], i) \in taken(g) \ PointerBlocks(hdr[g])
                    /\ \A j \in 0 .. numSectors(g) - 1 :
                          ByteToSector(hdr[g], j) = ByteToSector(hdr[g], i) => j = i
    BY <1>2, FileSectors
  <1>5. NumSectors \in Nat
    BY Bounds
  <1>6. freeMap \in SUBSET Sectors
    <2>1. Reserved \in SUBSET Sectors
      BY FileHeaderAssumption DEF Sectors
    <2> HIDE DEF taken
    <2>2. freeMap = Reserved \cup UNION {taken(g) : g \in Allocated}
      BY <1>2 DEF taken
    <2>3. QED
      BY <1>3, <2>1, <2>2
  <1>7. HeaderTypes
    <2>1. ASSUME NEW g \in Allocated
          PROVE  /\ hdr[g].numSectors \in 0 .. NumSectors
                 /\ hdr[g].dataSectors \in Seq(Pointers)
                 /\ Len(hdr[g].dataSectors) <= NumDirect
      <3>1. hdr[g].numSectors \in 0 .. NumSectors
        BY <1>3, <1>5 DEF Sizes
      <3> DEFINE n == hdr[g].numSectors
                 ds == hdr[g].dataSectors
      <3>2. /\ ds \in Seq(Pointers)
            /\ n <= MaxFileSize1 => Len(ds) = n
            /\ n > MaxFileSize1 => Len(ds) = NumDirect
        BY <1>2, HeaderHolds
      <3>3. MaxFileSize1 = NumDirect /\ NumDirect \in Nat /\ n \in Nat
        BY <1>3, Bounds DEF Sizes
      <3> HIDE DEF n, ds
      <3>4. ds \in Seq(Pointers) /\ Len(ds) <= NumDirect
        BY <3>2, <3>3
      <3>5. QED
        BY <3>1, <3>4 DEF ds
    <2>2. QED
      BY <1>2, <1>6, <2>1 DEF HeaderTypes
  <1>8. \A o \in Offsets : /\ o[1] \in Allocated
                           /\ o[2] \in 0 .. numSectors(o[1]) - 1
                           /\ SectorAt(o) = ByteToSector(hdr[o[1]], o[2])
    <2> TAKE o \in Offsets
    <2>1. o[1] \in Allocated /\ o[2] \in 0 .. NumSectors /\ o[2] < numSectors(o[1])
      BY DEF Offsets
    <2>2. numSectors(o[1]) \in Nat
      BY <1>3, <2>1 DEF Sizes
    <2>3. QED
      BY <1>5, <2>1, <2>2 DEF SectorAt
  <1>9. \A g \in Allocated : \A i \in 0 .. numSectors(g) - 1 : <<g, i>> \in Offsets
    <2> TAKE g \in Allocated
    <2> TAKE i \in 0 .. numSectors(g) - 1
    <2>1. i \in 0 .. NumSectors /\ i < numSectors(g)
      BY <1>3, <1>5 DEF Sizes
    <2>2. QED
      BY <2>1 DEF Offsets
  <1> DEFINE blocks == UNION {PointerBlocks(hdr[g]) : g \in Allocated}
  <1>10. OffsetsDistinct
    <2>1. ASSUME NEW o \in Offsets, SectorAt(o) # -1
          PROVE  SectorAt(o) \notin blocks /\ \A q \in Offsets : SectorAt(q) = SectorAt(o) => q = o
      <3> DEFINE s == SectorAt(o)
                 g == o[1]
      <3>1. /\ g \in Allocated /\ s \in taken(g) \ PointerBlocks(hdr[g])
            /\ \A j \in 0 .. numSectors(g) - 1 : ByteToSector(hdr[g], j) = s => j = o[2]
        BY <1>4, <1>8, <2>1
      <3> HIDE DEF taken, s
      <3>2. s \notin blocks
        <4>1. SUFFICES ASSUME NEW e \in Allocated, s \in PointerBlocks(hdr[e]) PROVE FALSE
          BY Zenon
        <4>2. s \in taken(e)
          BY <1>4, <4>1
        <4>3. e = g
          BY <1>2, <3>1, <4>2 DEF taken
        <4>4. QED
          BY <3>1, <4>1, <4>3
      <3>3. ASSUME NEW q \in Offsets, SectorAt(q) = s PROVE q = o
        <4>1. /\ q[1] \in Allocated /\ q[2] \in 0 .. numSectors(q[1]) - 1
              /\ ByteToSector(hdr[q[1]], q[2]) = s
          BY <1>8, <3>3
        <4>2. s # -1
          BY <2>1 DEF s
        <4>3. s \in taken(q[1])
          BY <1>4, <4>1, <4>2
        <4>4. q[1] = g
          BY <1>2, <3>1, <4>1, <4>3 DEF taken
        <4>5. q[2] = o[2]
          BY <3>1, <4>1, <4>4
        <4>6. q = <<q[1], q[2]>> /\ o = <<o[1], o[2]>>
          BY DEF Offsets
        <4>7. QED
          BY <4>4, <4>5, <4>6
      <3>4. QED
        BY <3>2, <3>3 DEF s
    <2>2. QED
      BY <2>1 DEF OffsetsDistinct
  <1>11. FreeMapExact
    <2> DEFINE V == UNION {taken(g) : g \in Allocated}
               O == {SectorAt(o) : o \in Offsets}
    <2>1. -1 \notin Reserved
      <3>1. -1 \notin 0 .. NumSectors - 1
        BY <1>5
      <3>2. QED
        BY <3>1, FileHeaderAssumption
    <2> HIDE DEF taken
    <2>2. ASSUME NEW x PROVE x \in V <=> x # -1 /\ (x \in blocks \/ x \in O)
      <3>1. ASSUME NEW g \in Allocated, x \in taken(g) PROVE x # -1 /\ (x \in blocks \/ x \in O)
        <4>1. x # -1 /\ x \in Returned(numSectors(g), finds[g])
          BY <3>1 DEF taken, Taken
        <4>2. CASE x \in PointerBlocks(hdr[g])
          BY <4>1, <4>2
        <4>3. CASE \E i \in 0 .. numSectors(g) - 1 : x = ByteToSector(hdr[g], i)
          <5>1. PICK i \in 0 .. numSectors(g) - 1 : x = ByteToSector(hdr[g], i)
            BY <4>3
          <5>2. <<g, i>> \in Offsets
            BY <1>9
          <5>3. SectorAt(<<g, i>>) = x
            BY <5>1 DEF SectorAt
          <5>4. QED
            BY <4>1, <5>2, <5>3
        <4>4. x \in PointerBlocks(hdr[g]) \/ \E i \in 0 .. numSectors(g) - 1 : x = ByteToSector(hdr[g], i)
          BY <1>4, <4>1
        <4>5. QED
          BY <4>2, <4>3, <4>4
      <3>2. ASSUME x # -1, NEW g \in Allocated, x \in PointerBlocks(hdr[g]) PROVE x \in V
        BY <1>4, <3>2
      <3>3. ASSUME x # -1, NEW o \in Offsets, x = SectorAt(o) PROVE x \in V
        <4>1. o[1] \in Allocated /\ x \in taken(o[1])
          BY <1>4, <1>8, <3>3
        <4>2. QED
          BY <4>1
      <3>4. QED
        BY <3>1, <3>2, <3>3
    <2>3. freeMap = Reserved \cup V
      BY <1>2 DEF taken
    <2> HIDE DEF V, O, blocks
    <2>4. freeMap = (Reserved \cup blocks \cup O) \ {-1}
      BY <2>1, <2>2, <2>3
    <2>5. QED
      BY <2>4 DEF FreeMapExact, O, blocks
  <1>12. QED
    BY <1>7, <1>10, <1>11 DEF HeadersInv

\* filehdr.cc: no sector is lost or kept for two offsets.
THEOREM HeadersAreOneMap == HeaderSpec => []HeadersInv
  <1>1. HeadersFound /\ [HeaderNext]_headerVars => HeadersFound'
    <2>1. ASSUME HeadersFound, UNCHANGED headerVars PROVE HeadersFound'
      <3>1. aborted \in BOOLEAN
        BY <2>1 DEF HeadersFound, HeadersBy
      <3>2. QED
        BY <2>1, <3>1, HeadersStay DEF headerVars
    <2>2. QED
      BY <2>1, HeaderSteps
  <1>2. QED
    BY <1>1, HeadersFoundInit, FoundHeaders, PTL DEF HeaderSpec

-----------------------------------------------------------------------------
(* The bytes of a sector.                                                  *)

LEMMA SectorOfByte ==
  ASSUME NEW b \in Nat
  PROVE  /\ divRoundDown(b, SectorSize) \in Nat /\ b % SectorSize \in 0 .. SectorSize - 1
         /\ b = divRoundDown(b, SectorSize) * SectorSize + (b % SectorSize)
         /\ \A i \in Nat : b \in BytesOf(i) <=> i = divRoundDown(b, SectorSize)
  <1> DEFINE S == SectorSize
             q == b \div S
             r == b % S
  <1>1. S \in Nat \ {0}
    BY OpenFileAssumption
  <1>2. q \in Int /\ r \in 0 .. S - 1 /\ S * q \in Int /\ b = S * q + r
    <2> HIDE DEF S
    <2>1. QED
      BY <1>1, DivMod
  <1>3. q \in Nat
    BY <1>1
  <1> HIDE DEF S, q, r
  <1>4. S * q = q * S
    BY <1>1, <1>3
  <1>5. ASSUME NEW i \in Nat, b \in i * S .. (i + 1) * S - 1 PROVE i = q
    <2> DEFINE s == b - S * i
    <2>1. S * i = i * S /\ (i + 1) * S = S * i + S /\ S * i \in Nat
      BY <1>1
    <2>2. s \in 0 .. S - 1 /\ b = S * i + s
      BY <1>1, <1>5, <2>1
    <2> HIDE DEF s
    <2>3. (S * i + s) \div S = i
      BY <1>1, <2>2, DivModUnique
    <2>4. QED
      BY <2>2, <2>3 DEF q
  <1>6. b \in q * S .. (q + 1) * S - 1
    <2>1. (q + 1) * S = q * S + S /\ q * S \in Nat
      BY <1>1, <1>3
    <2>2. QED
      BY <1>1, <1>2, <1>4, <2>1
  <1>7. b = q * S + r
    BY <1>2, <1>4
  <1>8. QED
    BY <1>2, <1>3, <1>5, <1>6, <1>7 DEF S, q, r, divRoundDown, BytesOf

LEMMA ByteOfSector ==
  ASSUME NEW i \in Nat, NEW k \in 0 .. SectorSize - 1
  PROVE  /\ i * SectorSize + k \in Nat /\ i * SectorSize + k \in BytesOf(i)
         /\ divRoundDown(i * SectorSize + k, SectorSize) = i
         /\ (i * SectorSize + k) % SectorSize = k
  <1> DEFINE S == SectorSize
             b == i * S + k
  <1>1. S \in Nat \ {0}
    BY OpenFileAssumption
  <1>2. i * S \in Nat /\ (i + 1) * S = i * S + S
    BY <1>1
  <1>3. b \in Nat /\ b \in i * S .. (i + 1) * S - 1
    BY <1>1, <1>2
  <1>4. S * i = i * S
    BY <1>1
  <1>5. (S * i + k) \div S = i /\ (S * i + k) % S = k
    <2> HIDE DEF S
    <2>1. k \in 0 .. S - 1
      BY DEF S
    <2>2. QED
      BY <1>1, <2>1, DivModUnique
  <1>6. QED
    BY <1>3, <1>4, <1>5 DEF divRoundDown, BytesOf

\* sectors come in the order of their bytes
LEMMA SectorsGrow ==
  ASSUME NEW a \in Nat, NEW b \in Nat, a <= b
  PROVE  divRoundDown(a, SectorSize) <= divRoundDown(b, SectorSize)
  <1> DEFINE S == SectorSize
             p == a \div S
             q == b \div S
  <1>1. S \in Nat \ {0}
    BY OpenFileAssumption
  <1> HIDE DEF S
  <1>2. p \in Int /\ a % S \in 0 .. S - 1 /\ a = S * p + (a % S)
    BY <1>1, DivMod
  <1>3. q \in Int /\ b % S \in 0 .. S - 1 /\ b = S * q + (b % S)
    BY <1>1, DivMod
  <1>4. p \in Nat /\ q \in Nat
    BY <1>1
  <1> DEFINE r == a % S
             s == b % S
  <1>5. r \in 0 .. S - 1 /\ s \in 0 .. S - 1 /\ S * p + r <= S * q + s
    BY <1>2, <1>3
  <1> HIDE DEF p, q, r, s
  <1>6. p <= q
    BY <1>1, <1>4, <1>5, QuotientBelow
  <1>7. QED
    BY <1>6 DEF p, q, S, divRoundDown

\* a byte below the end of a file is in a sector of the file
LEMMA SectorWithin ==
  ASSUME NEW b \in Nat, NEW n \in Nat, b < n * SectorSize
  PROVE  divRoundDown(b, SectorSize) \in 0 .. n - 1
  <1> DEFINE S == SectorSize
             q == divRoundDown(b, S)
  <1>1. S \in Nat \ {0}
    BY OpenFileAssumption
  <1>2. q \in Nat /\ b % S \in 0 .. S - 1 /\ b = q * S + (b % S)
    BY SectorOfByte
  <1> DEFINE r == b % S
  <1>3. q \in Nat /\ r \in 0 .. S - 1 /\ b = q * S + r
    BY <1>2
  <1> HIDE DEF q, r, S
  <1>4. ASSUME n <= q PROVE FALSE
    <2>1. PICK d \in Nat : q = n + d
      <3>1. q - n \in Nat /\ q = n + (q - n)
        BY <1>3, <1>4
      <3>2. QED
        BY <3>1
    <2>2. q * S = n * S + d * S /\ d * S \in Nat /\ n * S \in Nat
      BY <1>1, <2>1
    <2>3. b < n * S
      BY DEF S
    <2>4. QED
      BY <1>3, <2>2, <2>3
  <1>5. q \in 0 .. n - 1
    BY <1>3, <1>4
  <1>6. QED
    BY <1>5 DEF q, S

LEMMA RoundUpHolds ==
  ASSUME NEW n \in Nat
  PROVE  divRoundUp(n, SectorSize) \in Nat /\ n <= divRoundUp(n, SectorSize) * SectorSize
  <1> DEFINE S == SectorSize
             a == n + S - 1
             q == a \div S
  <1>1. S \in Nat \ {0}
    BY OpenFileAssumption
  <1> HIDE DEF S
  <1>2. a \in Nat
    BY <1>1
  <1>3. q \in Nat
    <2> HIDE DEF a
    <2>1. QED
      BY <1>1, <1>2
  <1>4. a % S \in 0 .. S - 1 /\ a = S * q + (a % S)
    <2> HIDE DEF a
    <2>1. QED
      BY <1>1, <1>2, DivMod
  <1> DEFINE r == a % S
             p == S * q
  <1>5. r \in 0 .. S - 1 /\ n + S - 1 = p + r
    BY <1>4
  <1>6. p \in Nat /\ p = q * S
    <2> HIDE DEF q
    <2>1. QED
      BY <1>1, <1>3
  <1> HIDE DEF r, p
  <1>7. n <= p
    BY <1>1, <1>5, <1>6
  <1>8. divRoundUp(n, S) = q
    BY DEF divRoundUp
  <1>9. QED
    BY <1>3, <1>6, <1>7, <1>8 DEF S

Calls == [kind : {"read", "write"}, position : Nat, amount : Nat, from : Seq(Int)]

Accesses == [kind : {"read", "write"}, sector : Nat]

\* the shape of the open files; a file that is not there has no bytes
FileTypes ==
  /\ length \in [Files -> Nat]
  /\ data = [s \in Sectors |-> data[s]]
  /\ opened \in [Openers -> Files \cup {NoFile}]
  /\ seekPosition \in [Openers -> Nat]
  /\ call \in [Openers -> Calls \cup {NoCall}]
  /\ todo \in [Openers -> Seq(Accesses)]
  /\ buf = [t \in Openers |-> buf[t]]
  /\ result = [t \in Openers |-> result[t]]
  /\ expect = [f \in Files |-> expect[f]]
  /\ \A f \in Files :
        /\ DOMAIN expect[f] = 0 .. length[f] - 1
        /\ f \notin Allocated => length[f] = 0
        /\ f \in Allocated => length[f] <= hdr[f].numSectors * SectorSize

\* no access twice, and no read after a write
Ordered(s) ==
  \A k, l \in DOMAIN s : k < l => s[k] # s[l] /\ (s[k].kind = "write" => s[l].kind = "write")

InCall(t) == call[t] # NoCall

\* a call is within its file, and its accesses are of its own sectors
CallsFit ==
  \A t \in Openers :
     /\ ~ InCall(t) => todo[t] = <<>>
     /\ InCall(t) =>
           /\ opened[t] \in Files
           /\ call[t].amount > 0 => call[t].position + call[t].amount <= length[opened[t]]
           /\ Ordered(todo[t])
           /\ \A x \in ToSet(todo[t]) :
                 /\ x.sector \in SectorsOf(call[t])
                 /\ x.kind = "write" => call[t].kind = "write"
           /\ \A i \in SectorsOf(call[t]) : BytesOf(i) \subseteq DOMAIN buf[t]

\* two calls at the same file, one of which writes
Together(t, u) ==
  /\ t # u /\ InCall(t) /\ InCall(u) /\ opened[t] = opened[u]
  /\ "write" \in {call[t].kind, call[u].kind}

\* the sectors that two such calls have in common are those that may lose bytes
RacesKnown ==
  \A t, u \in Openers :
     Together(t, u) => SectorsOf(call[t]) \cap SectorsOf(call[u]) \subseteq raced

Writing(t, f, i) ==
  InCall(t) /\ opened[t] = f /\ call[t].kind = "write" /\ i \in SectorsOf(call[t])

\* what a call in progress has made of a byte so far
Held(t, f, b) ==
  IF b \in Span(call[t]) /\ Access("write", divRoundDown(b, SectorSize)) \notin ToSet(todo[t])
  THEN call[t].from[b - call[t].position + 1] ELSE expect[f][b]

ByteHolds(f, b, i) ==
  /\ (\A t \in Openers : ~ Writing(t, f, i)) => ByteAt(f, b) = expect[f][b]
  /\ \A t \in Openers : Writing(t, f, i) => ByteAt(f, b) = Held(t, f, b)

\* the disk has what the calls that returned wrote, and what a call in progress
\* has written so far
DiskHolds ==
  \A f \in Allocated : \A b \in DOMAIN expect[f] :
     LET i == divRoundDown(b, SectorSize) IN
     (ByteToSector(hdr[f], i) # -1 /\ i \notin raced) => ByteHolds(f, b, i)

\* so has the buffer of a call, of the bytes that the call does not write
BufAt(t) ==
  \A i \in SectorsOf(call[t]) \ raced : Access("read", i) \notin ToSet(todo[t]) =>
     \A b \in BytesOf(i) :
        (b < length[opened[t]] /\ (call[t].kind = "read" \/ b \notin Span(call[t]))) =>
           buf[t][b] = expect[opened[t]][b]

BufHolds == \A t \in Openers : InCall(t) => BufAt(t)

FilesHold == FileTypes /\ CallsFit /\ RacesKnown /\ DiskHolds /\ BufHolds

\* between the commands no thread is in a call
Quiet == {"none", "copied", "print", "printed", "perf", "done"}

\* where the file that -cp makes may have bytes
Copying == {"copy", "copied", "print", "print chunk", "printed", "share"}

\* between its calls a command knows what it has done
JobHolds ==
  /\ \A t \in Openers : InCall(t) => job \notin Quiet /\ (job # "share" => t = main)
  /\ job = "none" => data = [s \in Sectors |-> [k \in 0 .. SectorSize - 1 |-> 0]]
  /\ job = "none" => transferred = 0
  /\ \A f \in Files : length[f] # 0 => f = CopyFile /\ job \in Copying
  /\ job # "share" => raced = {}
  /\ unixLength \in Nat /\ transferred \in 0 .. unixLength

\* how much of the UNIX file is in its copy
Copied(n) ==
  \A b \in 0 .. n - 1 : expect[CopyFile][b] = b + 1

\* the copy grows by the chunks, in order, and so does what is printed
PrintHolds ==
  /\ job \in {"copy", "copied", "print", "print chunk"} => length[CopyFile] = unixLength
  /\ job \in {"none", "copy", "copied"} => screen = <<>>
  /\ job = "copy" =>
        /\ opened[main] = CopyFile
        /\ Copied(seekPosition[main])
        /\ ~ InCall(main) => seekPosition[main] = transferred
        /\ InCall(main) =>
              /\ call[main].kind = "write" /\ call[main].position = seekPosition[main]
              /\ call[main].position + call[main].amount = transferred
              /\ \A k \in 1 .. call[main].amount : call[main].from[k] = call[main].position + k
  /\ job \in {"copied", "print", "print chunk"} => Copied(unixLength)
  /\ job \in {"print", "print chunk"} =>
        /\ opened[main] = CopyFile
        /\ screen = [k \in 1 .. Len(screen) |-> k] /\ Len(screen) \in 0 .. unixLength
  /\ job = "print" => seekPosition[main] = Len(screen)
  /\ job = "print chunk" =>
        /\ InCall(main) =>
              /\ call[main].kind = "read" /\ call[main].position = seekPosition[main]
              /\ seekPosition[main] = Len(screen)
              /\ call[main].amount = 0 => Len(screen) = unixLength
        /\ ~ InCall(main) =>
              /\ result[main].amount \in Nat
              /\ seekPosition[main] = Len(screen) + result[main].amount
              /\ seekPosition[main] <= unixLength
              /\ result[main].bytes = [k \in 1 .. result[main].amount |-> Len(screen) + k]
              /\ result[main].amount = 0 => Len(screen) = unixLength
  /\ PrintIsCopy

\* the call c of t has just begun
Begun(t, c, kind, numBytes, bytes) ==
  /\ call' = [call EXCEPT ![t] = c] /\ raced' = raced \cup Races(t, c)
  /\ c.kind = kind /\ c.position = seekPosition[t] /\ c.from = bytes
  /\ seekPosition[t] >= length[opened[t]] => c.amount = 0
  /\ seekPosition[t] < length[opened[t]] =>
        c.amount = IF numBytes <= length[opened[t]] - seekPosition[t]
                   THEN numBytes ELSE length[opened[t]] - seekPosition[t]
  /\ IF c.amount <= 0
     THEN UNCHANGED <<todo, buf>>
     ELSE LET first == divRoundDown(c.position, SectorSize)
              last == divRoundDown(c.position + c.amount - 1, SectorSize)
          IN /\ buf' = [buf EXCEPT ![t] =
                          [b \in UNION {BytesOf(i) : i \in first .. last} |-> Unset]]
             /\ todo' = [todo EXCEPT ![t] =
                           IF kind = "read" THEN All("read", first, last)
                           ELSE Partial(c, first, last) \o All("write", first, last)]

\* the reads p, before the writes of the call c, are of what it does not write whole
ReadsFirst(c, first, last, p) ==
  /\ p \in Seq(Accesses) /\ Ordered(p)
  /\ \A x \in ToSet(p) : x.kind = "read" /\ x.sector \in {first, last}
  /\ Access("read", first) \notin ToSet(p) => c.position = first * SectorSize
  /\ Access("read", last) \notin ToSet(p) => c.position + c.amount = (last + 1) * SectorSize

\* the accesses s are those of the call c
AccessesOf(c, s) ==
  /\ s \in Seq(Accesses) /\ Ordered(s)
  /\ \A x \in ToSet(s) : /\ x.sector \in SectorsOf(c)
                         /\ x.kind = "write" => c.kind = "write"
  /\ c.kind = "read" => \A i \in SectorsOf(c) : Access("read", i) \in ToSet(s)
  /\ c.kind = "write" =>
        \A i \in SectorsOf(c) :
           /\ Access("write", i) \in ToSet(s)
           /\ Access("read", i) \notin ToSet(s) => BytesOf(i) \in SUBSET Span(c)
-----------------------------------------------------------------------------
(* The sectors of a call and its accesses to them.                         *)

LEMMA CallSectors ==
  ASSUME NEW c, c.position \in Nat, c.amount \in Nat,
         NEW first, first = divRoundDown(c.position, SectorSize),
         NEW last, last = divRoundDown(c.position + c.amount - 1, SectorSize)
  PROVE  /\ Span(c) \in SUBSET Nat /\ SectorsOf(c) \in SUBSET Nat
         /\ \A b \in Span(c) : divRoundDown(b, SectorSize) \in SectorsOf(c)
         /\ c.amount = 0 => Span(c) = {} /\ SectorsOf(c) = {}
         /\ c.amount > 0 => /\ first \in Nat /\ last \in Nat /\ first <= last
                            /\ SectorsOf(c) = first .. last
  <1> DEFINE S == SectorSize
             p == c.position
             n == c.amount
  <1>1. p \in Nat /\ n \in Nat /\ S \in Nat \ {0} /\ Span(c) = p .. p + n - 1
    BY OpenFileAssumption DEF Span
  <1>2. Span(c) \in SUBSET Nat /\ (n = 0 => Span(c) = {})
    BY <1>1
  <1>3. SectorsOf(c) \in SUBSET Nat /\ (Span(c) = {} => SectorsOf(c) = {})
    BY <1>2, SectorOfByte DEF SectorsOf
  <1>4. ASSUME n > 0
        PROVE  first \in Nat /\ last \in Nat /\ first <= last /\ SectorsOf(c) = first .. last
    <2> DEFINE q == p + n - 1
    <2>1. q \in Nat /\ p <= q /\ p \in Span(c) /\ q \in Span(c)
      BY <1>1, <1>4
    <2>2. first \in Nat /\ p % S \in 0 .. S - 1 /\ p = first * S + (p % S)
      BY <1>1, SectorOfByte
    <2>3. last \in Nat /\ q % S \in 0 .. S - 1 /\ q = last * S + (q % S)
      <3> HIDE DEF q
      <3>1. last = divRoundDown(q, S)
        BY DEF q
      <3>2. QED
        BY <2>1, <3>1, SectorOfByte
    <2>4. first <= last
      <3> HIDE DEF q
      <3>1. last = divRoundDown(q, S)
        BY DEF q
      <3>2. QED
        BY <1>1, <2>1, <3>1, SectorsGrow
    <2>5. ASSUME NEW b \in Span(c) PROVE divRoundDown(b, S) \in first .. last
      <3>1. b \in Nat /\ p <= b /\ b <= q
        BY <1>1, <1>4
      <3>2. divRoundDown(p, S) <= divRoundDown(b, S)
        BY <1>1, <3>1, SectorsGrow
      <3>3. divRoundDown(b, S) <= divRoundDown(q, S)
        <4> HIDE DEF q
        <4>1. QED
          BY <2>1, <3>1, SectorsGrow
      <3>4. divRoundDown(b, S) \in Nat
        BY <3>1, SectorOfByte
      <3>5. QED
        BY <2>2, <2>3, <3>2, <3>3, <3>4
    <2>6. ASSUME NEW i \in first .. last PROVE i \in SectorsOf(c)
      <3>1. CASE i = first
        BY <2>1, <3>1 DEF SectorsOf
      <3>2. CASE i # first
        <4> DEFINE b == i * S
        <4>1. i \in Nat /\ first < i /\ i <= last
          BY <2>2, <2>3, <3>2
        <4>2. first * S + S <= b
          <5>1. S * first + S <= S * i
            BY <1>1, <2>2, <4>1, ProductBelow
          <5>2. S * first = first * S /\ S * i = i * S
            BY <1>1, <2>2, <4>1
          <5>3. QED
            BY <5>1, <5>2
        <4>3. b <= last * S
          <5>1. CASE i = last
            BY <1>1, <2>3, <5>1
          <5>2. CASE i < last
            <6>1. S * i + S <= S * last
              BY <1>1, <2>3, <4>1, <5>2, ProductBelow
            <6>2. S * i = i * S /\ S * last = last * S /\ i * S \in Nat /\ last * S \in Nat
              <7>1. S \in Nat /\ i \in Nat /\ last \in Nat
                BY <1>1, <2>3, <4>1
              <7>2. QED
                BY <7>1
            <6>3. QED
              BY <1>1, <6>1, <6>2
          <5>3. QED
            BY <2>3, <4>1, <5>1, <5>2
        <4>4. b \in Nat /\ first * S \in Nat /\ last * S \in Nat
          <5>1. S \in Nat /\ i \in Nat /\ first \in Nat /\ last \in Nat
            BY <1>1, <2>2, <2>3, <4>1
          <5>2. QED
            BY <5>1
        <4>5. b \in Span(c)
          <5> DEFINE x == p % S
                     y == q % S
                     u == first * S
                     v == last * S
          <5>1. x \in 0 .. S - 1 /\ p = u + x /\ y \in 0 .. S - 1 /\ q = v + y
            BY <2>2, <2>3
          <5> HIDE DEF x, y, b, u, v
          <5>2. u + S <= b /\ b <= v /\ b \in Nat /\ u \in Nat /\ v \in Nat
            BY <4>2, <4>3, <4>4 DEF b, u, v
          <5>3. p <= b /\ b <= q
            BY <1>1, <2>1, <5>1, <5>2
          <5>4. QED
            BY <1>1, <5>2, <5>3
        <4>6. divRoundDown(b, S) = i
          <5>1. 0 \in 0 .. S - 1 /\ i * S + 0 = b
            BY <1>1, <4>4
          <5>2. divRoundDown(i * S + 0, S) = i
            BY <4>1, <5>1, ByteOfSector
          <5>3. QED
            BY <5>1, <5>2
        <4>7. QED
          <5> HIDE DEF b
          <5>1. QED
            BY <4>5, <4>6 DEF SectorsOf
      <3>3. QED
        BY <3>1, <3>2
    <2>7. QED
      BY <2>2, <2>3, <2>4, <2>5, <2>6 DEF SectorsOf
  <1>5. QED
    BY <1>2, <1>3, <1>4 DEF SectorsOf

\* a sector that is not partially modified is all written
LEMMA WholeSector ==
  ASSUME NEW c, c.position \in Nat, c.amount \in Nat, c.amount > 0,
         NEW first, first = divRoundDown(c.position, SectorSize),
         NEW last, last = divRoundDown(c.position + c.amount - 1, SectorSize),
         NEW i \in SectorsOf(c),
         i = first => c.position = first * SectorSize,
         i = last => c.position + c.amount = (last + 1) * SectorSize
  PROVE  BytesOf(i) \in SUBSET Span(c)
  <1> DEFINE S == SectorSize
             p == c.position
             n == c.amount
             q == p + n - 1
  <1>1. /\ p \in Nat /\ n \in Nat /\ S \in Nat \ {0} /\ Span(c) = p .. q
        /\ q \in Nat
    BY OpenFileAssumption DEF Span
  <1>2. first \in Nat /\ last \in Nat /\ i \in first .. last
    BY CallSectors
  <1>3. i \in Nat
    BY <1>2
  <1>4. p <= i * S
    <2>1. CASE i = first
      BY <1>1, <1>2, <2>1
    <2>2. CASE i # first
      <3> DEFINE x == p % S
      <3>1. x \in 0 .. S - 1 /\ p = first * S + x
        BY <1>1, SectorOfByte
      <3>2. first < i
        BY <1>2, <2>2
      <3>3. S * first + S <= S * i
        BY <1>1, <1>2, <1>3, <3>2, ProductBelow
      <3>4. S * first = first * S /\ S * i = i * S /\ first * S \in Nat /\ i * S \in Nat
        BY <1>1, <1>2, <1>3
      <3> HIDE DEF x
      <3>5. QED
        BY <1>1, <3>1, <3>3, <3>4
    <2>3. QED
      BY <2>1, <2>2
  <1>5. (i + 1) * S - 1 <= q
    <2>1. CASE i = last
      <3>1. p + n = (i + 1) * S
        BY <2>1
      <3>2. QED
        BY <1>1, <1>3, <3>1
    <2>2. CASE i # last
      <3> HIDE DEF q
      <3> DEFINE y == q % S
      <3>1. y \in 0 .. S - 1 /\ q = last * S + y
        <4>1. last = divRoundDown(q, S)
          BY DEF q
        <4>2. QED
          BY <1>1, <4>1, SectorOfByte
      <3>2. i < last
        BY <1>2, <2>2
      <3>3. S * i + S <= S * last
        BY <1>1, <1>2, <1>3, <3>2, ProductBelow
      <3>4. S * last = last * S /\ S * i + S = (i + 1) * S /\ last * S \in Nat
        BY <1>1, <1>2, <1>3
      <3> HIDE DEF y
      <3>5. (i + 1) * S \in Nat
        BY <1>1, <1>3
      <3>6. QED
        BY <1>1, <3>1, <3>3, <3>4, <3>5
    <2>3. QED
      BY <2>1, <2>2
  <1>6. i * S \in Nat /\ (i + 1) * S \in Nat
    BY <1>1, <1>3
  <1> DEFINE u == i * S
             v == (i + 1) * S
  <1>7. u \in Nat /\ v \in Nat /\ p <= u /\ v - 1 <= q
    BY <1>4, <1>5, <1>6
  <1>8. BytesOf(i) = u .. v - 1
    BY DEF BytesOf
  <1> HIDE DEF u, v, q
  <1>9. QED
    BY <1>1, <1>7, <1>8

-----------------------------------------------------------------------------
(* The lists of accesses.                                                  *)

LEMMA AccessFields ==
  ASSUME NEW kind, NEW i
  PROVE  /\ Access(kind, i).kind = kind /\ Access(kind, i).sector = i
         /\ kind \in {"read", "write"} /\ i \in Nat => Access(kind, i) \in Accesses
         /\ \A k, j : Access(kind, i) = Access(k, j) => kind = k /\ i = j
  <1>1. \A k, j : Access(k, j).kind = k /\ Access(k, j).sector = j
    BY DEF Access
  <1>2. kind \in {"read", "write"} /\ i \in Nat => Access(kind, i) \in Accesses
    BY DEF Access, Accesses
  <1>3. ASSUME NEW k, NEW j, Access(kind, i) = Access(k, j) PROVE kind = k /\ i = j
    <2>1. Access(kind, i).kind = Access(k, j).kind /\ Access(kind, i).sector = Access(k, j).sector
      BY <1>3
    <2>2. QED
      BY <1>1, <2>1
  <1>4. QED
    BY <1>1, <1>2, <1>3

LEMMA AccessOf ==
  ASSUME NEW x \in Accesses
  PROVE  x.kind \in {"read", "write"} /\ x.sector \in Nat /\ x = Access(x.kind, x.sector)
  BY DEF Accesses, Access

LEMMA AllAccesses ==
  ASSUME NEW kind \in {"read", "write"}, NEW first \in Nat, NEW last \in Nat, first <= last
  PROVE  /\ All(kind, first, last) \in Seq(Accesses) /\ Ordered(All(kind, first, last))
         /\ ToSet(All(kind, first, last)) = {Access(kind, i) : i \in first .. last}
  <1> DEFINE n == last - first + 1
             s == All(kind, first, last)
  <1>1. n \in Nat /\ s = [i \in 1 .. n |-> Access(kind, first + i - 1)]
    BY DEF All
  <1>2. \A i \in 1 .. n : first + i - 1 \in first .. last /\ first + i - 1 \in Nat
    OBVIOUS
  <1>3. \A i \in first .. last : i - first + 1 \in 1 .. n /\ first + (i - first + 1) - 1 = i
    OBVIOUS
  <1> HIDE DEF n, s
  <1>4. \A i \in 1 .. n : Access(kind, first + i - 1) \in Accesses
    BY <1>2, AccessFields
  <1>5. s \in Seq(Accesses)
    <2>1. s \in [1 .. n -> Accesses]
      BY <1>1, <1>4
    <2>2. QED
      BY <1>1, <2>1, SeqDef
  <1>6. DOMAIN s = 1 .. n /\ \A i \in 1 .. n : s[i] = Access(kind, first + i - 1)
    BY <1>1
  <1>7. ToSet(s) = {s[i] : i \in 1 .. n}
    BY <1>6 DEF ToSet
  <1>8. ToSet(s) = {Access(kind, i) : i \in first .. last}
    <2>1. ASSUME NEW i \in 1 .. n PROVE s[i] \in {Access(kind, j) : j \in first .. last}
      BY <1>2, <1>6
    <2>2. ASSUME NEW j \in first .. last PROVE Access(kind, j) \in {s[i] : i \in 1 .. n}
      <3> DEFINE i == j - first + 1
      <3>1. i \in 1 .. n /\ first + i - 1 = j
        BY <1>3
      <3> HIDE DEF i
      <3>2. s[i] = Access(kind, j)
        BY <1>6, <3>1
      <3>3. QED
        BY <3>1, <3>2
    <2>3. QED
      BY <1>7, <2>1, <2>2
  <1>9. ASSUME NEW k \in DOMAIN s, NEW l \in DOMAIN s, k < l
        PROVE  s[k] # s[l] /\ (s[k].kind = "write" => s[l].kind = "write")
    <2> DEFINE a == first + k - 1
               b == first + l - 1
    <2>1. k \in 1 .. n /\ l \in 1 .. n /\ a # b
      BY <1>1, <1>6, <1>9
    <2> HIDE DEF a, b
    <2>2. s[k] = Access(kind, a) /\ s[l] = Access(kind, b)
      BY <1>6, <2>1 DEF a, b
    <2>3. Access(kind, a).kind = kind /\ Access(kind, b).kind = kind /\ Access(kind, a) # Access(kind, b)
      BY <2>1, AccessFields
    <2>4. QED
      BY <2>2, <2>3
  <1>10. Ordered(s)
    BY <1>9 DEF Ordered
  <1>11. QED
    BY <1>5, <1>8, <1>10 DEF s

LEMMA JoinedAccesses ==
  ASSUME NEW s \in Seq(Accesses), NEW r \in Seq(Accesses), Ordered(s), Ordered(r),
         \A x \in ToSet(s) : x.kind = "read", \A x \in ToSet(r) : x.kind = "write"
  PROVE  /\ s \o r \in Seq(Accesses) /\ Ordered(s \o r)
         /\ ToSet(s \o r) = ToSet(s) \cup ToSet(r)
  <1> DEFINE m == Len(s)
             n == Len(r)
             q == s \o r
  <1>1. q \in Seq(Accesses) /\ Len(q) = m + n
        /\ \A i \in 1 .. m + n : q[i] = IF i <= m THEN s[i] ELSE r[i - m]
    BY ConcatProperties
  <1>2. m \in Nat /\ n \in Nat /\ DOMAIN s = 1 .. m /\ DOMAIN r = 1 .. n
    BY LenProperties
  <1>3. DOMAIN q = 1 .. m + n
    BY <1>1, LenProperties
  <1>4. /\ ToSet(s) = {s[i] : i \in 1 .. m} /\ ToSet(r) = {r[i] : i \in 1 .. n}
        /\ ToSet(q) = {q[i] : i \in 1 .. m + n}
    BY <1>2, <1>3 DEF ToSet
  <1> HIDE DEF m, n, q
  <1>5. \A i \in 1 .. m : i \in 1 .. m + n /\ q[i] = s[i]
    BY <1>1, <1>2
  <1>6. \A i \in 1 .. n : m + i \in 1 .. m + n /\ q[m + i] = r[i]
    BY <1>1, <1>2
  <1>7. \A i \in 1 .. m + n : i \in 1 .. m \/ \E j \in 1 .. n : i = m + j
    <2> TAKE i \in 1 .. m + n
    <2>1. i <= m => i \in 1 .. m
      BY <1>2
    <2>2. ~ i <= m => i - m \in 1 .. n /\ i = m + (i - m)
      BY <1>2
    <2>3. QED
      BY <2>1, <2>2
  <1>8. ToSet(q) = ToSet(s) \cup ToSet(r)
    BY <1>4, <1>5, <1>6, <1>7
  <1>9. ASSUME NEW k \in DOMAIN q, NEW l \in DOMAIN q, k < l
        PROVE  q[k] # q[l] /\ (q[k].kind = "write" => q[l].kind = "write")
    <2>1. k \in 1 .. m + n /\ l \in 1 .. m + n
      BY <1>3, <1>9
    <2>2. CASE k \in 1 .. m /\ l \in 1 .. m
      BY <1>2, <1>5, <1>9, <2>2 DEF Ordered
    <2>3. CASE k \in 1 .. m /\ \E j \in 1 .. n : l = m + j
      <3>1. PICK j \in 1 .. n : l = m + j
        BY <2>3
      <3>2. q[k].kind = "read" /\ q[l].kind = "write"
        BY <1>4, <1>5, <1>6, <2>3, <3>1
      <3>3. QED
        BY <3>2
    <2>4. CASE (\E j \in 1 .. n : k = m + j) /\ \E j \in 1 .. n : l = m + j
      <3>1. PICK i \in 1 .. n, j \in 1 .. n : k = m + i /\ l = m + j
        BY <2>4
      <3>2. i < j
        BY <1>2, <1>9, <3>1
      <3>3. r[i] # r[j] /\ (r[i].kind = "write" => r[j].kind = "write")
        BY <1>2, <3>2 DEF Ordered
      <3>4. q[k] = r[i] /\ q[l] = r[j]
        BY <1>6, <3>1
      <3>5. QED
        BY <3>3, <3>4
    <2>5. ~ (l \in 1 .. m /\ \E j \in 1 .. n : k = m + j)
      BY <1>2, <1>9
    <2>6. QED
      BY <1>7, <2>1, <2>2, <2>3, <2>4, <2>5
  <1>10. Ordered(q)
    BY <1>9 DEF Ordered
  <1>11. QED
    BY <1>1, <1>8, <1>10 DEF q

LEMMA NextAccess ==
  ASSUME NEW s \in Seq(Accesses), s # <<>>, Ordered(s)
  PROVE  /\ Head(s) \in Accesses /\ Head(s) \in ToSet(s)
         /\ Head(s).kind = "write" => \A x \in ToSet(s) : x.kind = "write"
         /\ Tail(s) \in Seq(Accesses) /\ Ordered(Tail(s))
         /\ ToSet(Tail(s)) = ToSet(s) \ {Head(s)}
  <1> DEFINE n == Len(s)
             t == Tail(s)
  <1>1. n \in Nat /\ DOMAIN s = 1 .. n /\ s \in [1 .. n -> Accesses]
    BY LenProperties
  <1>2. n > 0
    BY <1>1, EmptySeq
  <1>3. Head(s) = s[1] /\ Head(s) \in Accesses /\ t \in Seq(Accesses) /\ Len(t) = n - 1
        /\ \A i \in 1 .. Len(t) : t[i] = s[i + 1]
    <2>1. Head(s) = s[1]
      OBVIOUS
    <2>2. Head(s) \in Accesses /\ t \in Seq(Accesses) /\ Len(t) = n - 1
          /\ \A i \in 1 .. Len(t) : t[i] = s[i + 1]
      BY HeadTailProperties
    <2>3. QED
      BY <2>1, <2>2
  <1>4. DOMAIN t = 1 .. n - 1
    BY <1>3, LenProperties
  <1>5. ToSet(s) = {s[i] : i \in 1 .. n} /\ ToSet(t) = {t[i] : i \in 1 .. n - 1}
    BY <1>1, <1>4 DEF ToSet
  <1> HIDE DEF n, t
  <1>6. \A i \in 1 .. n - 1 : i + 1 \in 1 .. n /\ 1 < i + 1 /\ t[i] = s[i + 1]
    BY <1>1, <1>3
  <1>7. 1 \in 1 .. n /\ \A i \in 1 .. n : i = 1 \/ (i - 1 \in 1 .. n - 1 /\ i = (i - 1) + 1)
    BY <1>1, <1>2
  <1>8. Head(s) \in ToSet(s)
    BY <1>3, <1>5, <1>7
  <1>9. \A i \in 1 .. n - 1 : s[i + 1] # s[1] /\ (s[1].kind = "write" => s[i + 1].kind = "write")
    BY <1>1, <1>6, <1>7 DEF Ordered
  <1>10. ToSet(s) = {s[1]} \cup {s[i + 1] : i \in 1 .. n - 1}
    BY <1>5, <1>6, <1>7
  <1>11. ToSet(t) = {s[i + 1] : i \in 1 .. n - 1}
    BY <1>5, <1>6
  <1>12. ToSet(t) = ToSet(s) \ {Head(s)}
    BY <1>3, <1>9, <1>10, <1>11
  <1>13. Head(s).kind = "write" => \A x \in ToSet(s) : x.kind = "write"
    BY <1>3, <1>9, <1>10
  <1>14. ASSUME NEW k \in DOMAIN t, NEW l \in DOMAIN t, k < l
         PROVE  t[k] # t[l] /\ (t[k].kind = "write" => t[l].kind = "write")
    <2>1. k + 1 \in DOMAIN s /\ l + 1 \in DOMAIN s /\ k + 1 < l + 1
          /\ t[k] = s[k + 1] /\ t[l] = s[l + 1]
      BY <1>1, <1>4, <1>6, <1>14
    <2>2. QED
      BY <2>1 DEF Ordered
  <1>15. Ordered(t)
    BY <1>14 DEF Ordered
  <1>16. QED
    BY <1>3, <1>8, <1>12, <1>13, <1>15 DEF t

\* the sectors that are read before they are written
LEMMA PartialAccesses ==
  ASSUME NEW c, NEW first \in Nat, NEW last \in Nat
  PROVE  ReadsFirst(c, first, last, Partial(c, first, last))
  <1> SUFFICES /\ Partial(c, first, last) \in Seq(Accesses) /\ Ordered(Partial(c, first, last))
               /\ \A x \in ToSet(Partial(c, first, last)) :
                     x.kind = "read" /\ x.sector \in {first, last}
               /\ Access("read", first) \notin ToSet(Partial(c, first, last)) =>
                     c.position = first * SectorSize
               /\ Access("read", last) \notin ToSet(Partial(c, first, last)) =>
                     c.position + c.amount = (last + 1) * SectorSize
    BY Zenon DEF ReadsFirst
  <1> DEFINE A == c.position = first * SectorSize
             B == c.position + c.amount = (last + 1) * SectorSize
             x == Access("read", first)
             y == Access("read", last)
             s == Partial(c, first, last)
             one == IF ~ A THEN <<x>> ELSE <<>>
             two == IF ~ B /\ (first # last \/ A) THEN <<y>> ELSE <<>>
  <1>1. s = one \o two
    BY DEF Partial
  <1>2. x \in Accesses /\ y \in Accesses /\ x.kind = "read" /\ y.kind = "read"
        /\ x.sector = first /\ y.sector = last /\ (x = y => first = last)
    BY AccessFields
  <1> HIDE DEF A, B, x, y, s
  <1>3. CASE A /\ B
    <2>1. s = <<>>
      <3>1. s = <<>> \o <<>>
        BY <1>1, <1>3
      <3>2. QED
        BY <3>1, ConcatEmptySeq
    <2>2. ToSet(s) = {} /\ s \in Seq(Accesses) /\ Ordered(s)
      BY <2>1 DEF ToSet, Ordered
    <2>3. QED
      BY <1>3, <2>2 DEF A, B, s
  <1>4. CASE A /\ ~ B
    <2>1. s = <<y>>
      <3>1. s = <<>> \o <<y>> /\ <<y>> \in Seq(Accesses)
        BY <1>1, <1>2, <1>4
      <3>2. QED
        BY <3>1, ConcatEmptySeq
    <2>2. DOMAIN s = {1} /\ s[1] = y
      BY <2>1
    <2>3. ToSet(s) = {y} /\ s \in Seq(Accesses) /\ Ordered(s)
      BY <1>2, <2>1, <2>2 DEF ToSet, Ordered
    <2>4. QED
      BY <1>2, <1>4, <2>3 DEF A, B, s, x, y
  <1>5. CASE ~ A /\ (B \/ first = last)
    <2>1. s = <<x>>
      <3>1. s = <<x>> \o <<>> /\ <<x>> \in Seq(Accesses)
        <4>1. one = <<x>>
          BY <1>5
        <4>2. two = <<>>
          BY <1>5
        <4> HIDE DEF one, two
        <4>3. QED
          BY <1>1, <1>2, <4>1, <4>2
      <3>2. QED
        BY <3>1, ConcatEmptySeq
    <2>2. DOMAIN s = {1} /\ s[1] = x
      BY <2>1
    <2>3. ToSet(s) = {x} /\ s \in Seq(Accesses) /\ Ordered(s)
      BY <1>2, <2>1, <2>2 DEF ToSet, Ordered
    <2>4. QED
      BY <1>2, <1>5, <2>3 DEF A, B, s, x, y
  <1>6. CASE ~ A /\ ~ B /\ first # last
    <2>1. s = <<x>> \o <<y>>
      BY <1>1, <1>6
    <2>2. <<x>> \in Seq(Accesses) /\ <<y>> \in Seq(Accesses)
          /\ Len(<<x>>) = 1 /\ Len(<<y>>) = 1 /\ <<x>>[1] = x /\ <<y>>[1] = y
      BY <1>2
    <2>3. s \in Seq(Accesses) /\ DOMAIN s = {1, 2} /\ s[1] = x /\ s[2] = y
      <3> DEFINE u == <<x>>
                 v == <<y>>
      <3>1. u \in Seq(Accesses) /\ v \in Seq(Accesses) /\ Len(u) = 1 /\ Len(v) = 1
            /\ u[1] = x /\ v[1] = y /\ s = u \o v
        BY <2>1, <2>2
      <3> HIDE DEF u, v
      <3>2. s \in Seq(Accesses) /\ Len(s) = 2
            /\ \A i \in 1 .. 2 : s[i] = IF i <= 1 THEN u[i] ELSE v[i - 1]
        BY <3>1, ConcatProperties
      <3>3. DOMAIN s = 1 .. 2
        BY <3>2, LenProperties
      <3>4. QED
        BY <3>1, <3>2, <3>3
    <2>4. x # y
      BY <1>2, <1>6
    <2>5. ToSet(s) = {x, y} /\ s \in Seq(Accesses) /\ Ordered(s)
      BY <1>2, <2>3, <2>4 DEF ToSet, Ordered
    <2>6. QED
      BY <1>2, <1>6, <2>5 DEF A, B, s, x, y
  <1>7. QED
    BY <1>3, <1>4, <1>5, <1>6

-----------------------------------------------------------------------------
(* The steps of a call.                                                    *)

\* two offsets are not in the same sector
LEMMA SectorsApart ==
  ASSUME HeadersInv, NEW f \in Allocated, NEW i \in 0 .. hdr[f].numSectors - 1,
         ByteToSector(hdr[f], i) # -1
  PROVE  /\ ByteToSector(hdr[f], i) \in Sectors
         /\ \A g \in Allocated : \A j \in 0 .. hdr[g].numSectors - 1 :
               ByteToSector(hdr[g], j) = ByteToSector(hdr[f], i) => g = f /\ j = i
  <1>1. /\ freeMap \in SUBSET Sectors
        /\ \A g \in Allocated : hdr[g].numSectors \in 0 .. NumSectors
    BY DEF HeadersInv, HeaderTypes
  <1>2. ASSUME NEW g \in Allocated, NEW j \in 0 .. hdr[g].numSectors - 1
        PROVE  <<g, j>> \in Offsets /\ SectorAt(<<g, j>>) = ByteToSector(hdr[g], j)
    <2>1. NumSectors \in Nat /\ hdr[g].numSectors \in 0 .. NumSectors
      BY <1>1, Bounds
    <2>2. j \in 0 .. NumSectors /\ j < hdr[g].numSectors
      BY <2>1
    <2>3. QED
      BY <2>2 DEF Offsets, SectorAt
  <1>3. SectorAt(<<f, i>>) # -1 /\ <<f, i>> \in Offsets
    BY <1>2
  <1>4. \A q \in Offsets : SectorAt(q) = SectorAt(<<f, i>>) => q = <<f, i>>
    BY <1>3 DEF HeadersInv, OffsetsDistinct
  <1>5. SectorAt(<<f, i>>) \in freeMap
    BY <1>3 DEF HeadersInv, FreeMapExact
  <1>6. ASSUME NEW g \in Allocated, NEW j \in 0 .. hdr[g].numSectors - 1,
               ByteToSector(hdr[g], j) = ByteToSector(hdr[f], i)
        PROVE  g = f /\ j = i
    <2>1. <<g, j>> = <<f, i>>
      BY <1>2, <1>4, <1>6
    <2>2. QED
      BY <2>1
  <1>7. QED
    BY <1>1, <1>2, <1>5, <1>6

\* the bytes of a file are in its sectors
LEMMA ByteInFile ==
  ASSUME HeadersInv, FileTypes, NEW f \in Files, NEW b \in Nat, b < length[f]
  PROVE  f \in Allocated /\ divRoundDown(b, SectorSize) \in 0 .. hdr[f].numSectors - 1
  <1>1. length[f] \in Nat /\ f \in Allocated /\ length[f] <= hdr[f].numSectors * SectorSize
    BY DEF FileTypes
  <1>2. hdr[f].numSectors \in Nat /\ SectorSize \in Nat
    <2>1. hdr[f].numSectors \in 0 .. NumSectors
      BY <1>1 DEF HeadersInv, HeaderTypes
    <2>2. QED
      BY <2>1, OpenFileAssumption
  <1>3. hdr[f].numSectors * SectorSize \in Nat
    BY <1>2
  <1>4. b < hdr[f].numSectors * SectorSize
    BY <1>1, <1>3
  <1>5. QED
    BY <1>1, <1>2, <1>4, SectorWithin

\* the sectors of a call are sectors of its file
LEMMA CallInFile ==
  ASSUME HeadersInv, FileTypes, CallsFit, NEW t \in Openers, InCall(t),
         NEW i \in SectorsOf(call[t])
  PROVE  /\ call[t] \in Calls /\ opened[t] \in Allocated
         /\ i \in Nat /\ i \in 0 .. hdr[opened[t]].numSectors - 1
  <1>1. call[t] \in Calls /\ opened[t] \in Files
    BY DEF FileTypes, CallsFit, InCall
  <1>2. call[t].position \in Nat /\ call[t].amount \in Nat
    BY <1>1 DEF Calls
  <1>3. call[t].amount # 0 /\ SectorsOf(call[t]) \in SUBSET Nat
    BY <1>2, CallSectors
  <1>4. call[t].position + call[t].amount <= length[opened[t]] /\ length[opened[t]] \in Nat
    <2>1. call[t].amount > 0 => call[t].position + call[t].amount <= length[opened[t]]
      BY DEF CallsFit
    <2>2. call[t].amount > 0
      BY <1>2, <1>3
    <2>3. length[opened[t]] \in Nat
      BY <1>1 DEF FileTypes
    <2>4. QED
      BY <2>1, <2>2, <2>3
  <1>5. PICK b \in Span(call[t]) : i = divRoundDown(b, SectorSize)
    BY DEF SectorsOf
  <1>6. b \in Nat /\ b < length[opened[t]]
    BY <1>2, <1>4, <1>5 DEF Span
  <1>7. QED
    BY <1>1, <1>3, <1>5, <1>6, ByteInFile

LEMMA SameSectors ==
  ASSUME UNCHANGED <<hdr, ptrs>>
  PROVE  /\ \A f, i : ByteToSector(hdr[f], i)' = ByteToSector(hdr[f], i)
         /\ Allocated' = Allocated
  <1>1. \A f, i : ByteToSector(hdr[f], i)' = ByteToSector(hdr[f], i)
    BY DEF ByteToSector, InDouble
  <1>2. QED
    BY <1>1 DEF Allocated

\* between its accesses a thread may open files and seek
LEMMA FilesStay ==
  ASSUME FilesHold, UNCHANGED <<hdr, ptrs, length, data, call, todo, buf, expect, raced>>,
         opened' \in [Openers -> Files \cup {NoFile}], seekPosition' \in [Openers -> Nat],
         result' = [t \in Openers |-> result'[t]],
         \A t \in Openers : InCall(t) => opened'[t] = opened[t]
  PROVE  FilesHold'
  <1>1. /\ \A f, i : ByteToSector(hdr[f], i)' = ByteToSector(hdr[f], i)
        /\ Allocated' = Allocated
    BY SameSectors
  <1>2. \A f, b : ByteAt(f, b)' = ByteAt(f, b)
    BY <1>1 DEF ByteAt
  <1>3. \A t : InCall(t)' = InCall(t)
    BY DEF InCall
  <1>4. FileTypes'
    BY <1>1 DEF FilesHold, FileTypes
  <1>5. CallsFit'
    BY <1>3 DEF FilesHold, CallsFit
  <1>6. \A t, u \in Openers : Together(t, u)' => Together(t, u)
    BY <1>3 DEF Together
  <1>7. RacesKnown'
    BY <1>6 DEF FilesHold, RacesKnown
  <1>8. \A t \in Openers : \A f, i : Writing(t, f, i)' <=> Writing(t, f, i)
    BY <1>3 DEF Writing
  <1>12. \A t \in Openers : \A f, b : Held(t, f, b)' = Held(t, f, b)
    BY DEF Held
  <1>13. \A f, b, i : ByteHolds(f, b, i) => ByteHolds(f, b, i)'
    BY <1>2, <1>8, <1>12 DEF ByteHolds
  <1>9. DiskHolds'
    BY <1>1, <1>13 DEF FilesHold, DiskHolds
  <1>10. BufHolds'
    <2>1. ASSUME NEW t \in Openers, InCall(t) PROVE BufAt(t)'
      BY <2>1 DEF FilesHold, BufHolds, BufAt
    <2>2. QED
      BY <1>3, <2>1 DEF BufHolds
  <1>11. QED
    BY <1>4, <1>5, <1>7, <1>9, <1>10 DEF FilesHold

LEMMA ReadKeeps ==
  ASSUME HeadersInv, FilesHold, NEW t \in Openers, ReadSector(t)
  PROVE  FilesHold'
  <1> DEFINE f == opened[t]
             s == todo[t]
             i == Head(s).sector
             c == call[t]
  <1>0. FileTypes /\ CallsFit /\ RacesKnown /\ DiskHolds /\ BufHolds
    BY DEF FilesHold
  <1>1. s # <<>> /\ Head(s).kind = "read"
    BY DEF ReadSector
  <1>2. InCall(t) /\ s \in Seq(Accesses) /\ Ordered(s) /\ f \in Files
        /\ c \in Calls /\ \A x \in ToSet(s) : x.sector \in SectorsOf(c)
    BY <1>0, <1>1 DEF CallsFit, FileTypes, InCall
  <1>3. /\ Head(s) \in Accesses /\ Head(s) \in ToSet(s)
        /\ Tail(s) \in Seq(Accesses) /\ Ordered(Tail(s))
        /\ ToSet(Tail(s)) = ToSet(s) \ {Head(s)}
    BY <1>1, <1>2, NextAccess
  <1>4. Head(s) = Access("read", i) /\ i \in SectorsOf(c)
    BY <1>1, <1>2, <1>3, AccessOf
  <1>5. i \in Nat /\ f \in Allocated /\ i \in 0 .. hdr[f].numSectors - 1
    BY <1>0, <1>2, <1>4, CallInFile
  <1>6. CASE Failed
    BY <1>0, <1>6, FilesStay DEF Failed, ioVars, FileTypes
  <1>7. CASE /\ ByteToSector(hdr[f], i) # -1
             /\ buf' = [buf EXCEPT ![t] =
                           [b \in DOMAIN @ |-> IF b \in BytesOf(i) /\ b < length[f]
                                               THEN ByteAt(f, b) ELSE @[b]]]
             /\ todo' = [todo EXCEPT ![t] = Tail(@)]
             /\ UNCHANGED <<headerVars, length, data, opened, seekPosition, call, result,
                            expect, raced>>
    <2>1. UNCHANGED <<hdr, ptrs>> /\ UNCHANGED <<length, data, opened, seekPosition, call>>
          /\ UNCHANGED <<result, expect, raced>>
      BY <1>7 DEF headerVars
    <2>2. /\ \A g, j : ByteToSector(hdr[g], j)' = ByteToSector(hdr[g], j)
          /\ Allocated' = Allocated
      BY <2>1, SameSectors
    <2>3. \A g, b : ByteAt(g, b)' = ByteAt(g, b)
      BY <2>1, <2>2 DEF ByteAt
    <2>4. \A u : InCall(u)' = InCall(u)
      BY <2>1 DEF InCall
    <2>5. /\ todo' \in [Openers -> Seq(Accesses)] /\ todo'[t] = Tail(s)
          /\ \A u \in Openers : u # t => todo'[u] = todo[u]
      BY <1>0, <1>3, <1>7 DEF FileTypes
    <2>6. /\ buf' = [u \in Openers |-> buf'[u]]
          /\ \A u \in Openers : DOMAIN buf'[u] = DOMAIN buf[u]
          /\ \A u \in Openers : u # t => buf'[u] = buf[u]
          /\ \A b \in DOMAIN buf[t] :
                buf'[t][b] = IF b \in BytesOf(i) /\ b < length[f] THEN ByteAt(f, b) ELSE buf[t][b]
      <3>1. buf = [u \in Openers |-> buf[u]]
        BY <1>0 DEF FileTypes
      <3> DEFINE new == [b \in DOMAIN buf[t] |-> IF b \in BytesOf(i) /\ b < length[f]
                                                THEN ByteAt(f, b) ELSE buf[t][b]]
      <3>2. buf' = [buf EXCEPT ![t] = new]
        BY <1>7
      <3>3. DOMAIN new = DOMAIN buf[t]
            /\ \A b \in DOMAIN buf[t] :
                  new[b] = IF b \in BytesOf(i) /\ b < length[f] THEN ByteAt(f, b) ELSE buf[t][b]
        OBVIOUS
      <3> HIDE DEF new
      <3>4. buf'[t] = new /\ \A u \in Openers : u # t => buf'[u] = buf[u]
        BY <3>1, <3>2
      <3>5. buf' = [u \in Openers |-> buf'[u]]
        BY <3>1, <3>2
      <3>6. QED
        BY <3>3, <3>4, <3>5
    <2>7. \A u \in Openers : \A j : Access("write", j) \in ToSet(todo'[u]) <=>
                                    Access("write", j) \in ToSet(todo[u])
      <3>1. \A j : Access("write", j) # Access("read", i)
        BY AccessFields
      <3>2. QED
        BY <1>3, <1>4, <2>5, <3>1
    <2>8. FileTypes'
      BY <1>0, <2>1, <2>2, <2>5, <2>6 DEF FileTypes
    <2>9. CallsFit'
      <3>1. ASSUME NEW u \in Openers, u # t
            PROVE  /\ ~ InCall(u) => todo'[u] = <<>>
                   /\ InCall(u) => Ordered(todo'[u]) /\ ToSet(todo'[u]) = ToSet(todo[u])
        BY <1>0, <2>5, <3>1 DEF CallsFit
      <3>2. Ordered(todo'[t]) /\ ToSet(todo'[t]) \subseteq ToSet(todo[t])
        BY <1>3, <2>5
      <3>3. \A u \in Openers :
               /\ ~ InCall(u) => todo'[u] = <<>>
               /\ InCall(u) => Ordered(todo'[u]) /\ ToSet(todo'[u]) \subseteq ToSet(todo[u])
        BY <1>2, <3>1, <3>2
      <3>4. QED
        BY <1>0, <2>1, <2>4, <2>6, <3>3 DEF CallsFit
    <2>10. RacesKnown'
      BY <1>0, <2>1, <2>4 DEF RacesKnown, Together
    <2>11. \A u \in Openers : \A g, j : Writing(u, g, j)' <=> Writing(u, g, j)
      BY <2>1, <2>4 DEF Writing
    <2>12. \A u \in Openers : \A g, b : Held(u, g, b)' = Held(u, g, b)
      BY <2>1, <2>7 DEF Held
    <2>13. \A g, b, j : ByteHolds(g, b, j) => ByteHolds(g, b, j)'
      BY <2>1, <2>3, <2>11, <2>12 DEF ByteHolds
    <2>14. DiskHolds'
      BY <1>0, <2>1, <2>2, <2>13 DEF DiskHolds
    <2>15. ASSUME NEW j \in SectorsOf(c) \ raced, Access("read", j) \notin ToSet(todo'[t]),
                  NEW b \in BytesOf(j), b < length[f], c.kind = "read" \/ b \notin Span(c)
           PROVE  buf'[t][b] = expect[f][b]
      <3>1. j \in Nat /\ b \in DOMAIN buf[t] /\ BytesOf(j) \in SUBSET Nat
        <4>1. j \in Nat
          BY <1>0, <1>2, CallInFile
        <4>2. BytesOf(j) \in SUBSET Nat
          <5>1. SectorSize \in Nat
            BY OpenFileAssumption
          <5>2. j * SectorSize \in Nat /\ (j + 1) * SectorSize \in Nat
            BY <4>1, <5>1
          <5>3. QED
            BY <5>2 DEF BytesOf
        <4>3. b \in DOMAIN buf[t]
          BY <1>0, <1>2 DEF CallsFit
        <4>4. QED
          BY <4>1, <4>2, <4>3
      <3>2. j = divRoundDown(b, SectorSize) /\ (b \in BytesOf(i) => j = i)
        BY <1>5, <3>1, SectorOfByte
      <3>3. CASE j = i
        <4>1. buf'[t][b] = ByteAt(f, b)
          BY <2>6, <2>15, <3>1, <3>3
        <4>2. b \in DOMAIN expect[f]
          <5>1. DOMAIN expect[f] = 0 .. length[f] - 1 /\ length[f] \in Nat
            BY <1>0, <1>2 DEF FileTypes
          <5>2. b \in 0 .. length[f] - 1
            BY <2>15, <3>1, <5>1
          <5>3. QED
            BY <5>1, <5>2
        <4>3. ByteHolds(f, b, i)
          BY <1>0, <1>5, <1>7, <2>15, <3>2, <3>3, <4>2 DEF DiskHolds
        <4>4. ASSUME NEW u \in Openers, Writing(u, f, i), u # t PROVE FALSE
          <5>1. Together(t, u)
            BY <1>2, <4>4 DEF Together, Writing
          <5>2. i \in raced
            BY <1>0, <1>4, <4>4, <5>1 DEF RacesKnown, Writing
          <5>3. QED
            BY <3>3, <5>2
        <4>5. CASE Writing(t, f, i)
          <5>1. b \notin Span(c)
            BY <2>15, <4>5 DEF Writing
          <5>2. ByteAt(f, b) = expect[f][b]
            BY <4>3, <4>5, <5>1 DEF ByteHolds, Held
          <5>3. QED
            BY <4>1, <5>2
        <4>6. CASE ~ Writing(t, f, i)
          BY <4>1, <4>3, <4>4, <4>6 DEF ByteHolds
        <4>7. QED
          BY <4>5, <4>6
      <3>4. CASE j # i
        <4>1. buf'[t][b] = buf[t][b]
          BY <2>6, <3>1, <3>2, <3>4
        <4>2. Access("read", j) # Access("read", i)
          BY <3>4, AccessFields
        <4>3. Access("read", j) \notin ToSet(s)
          BY <1>3, <1>4, <2>5, <2>15, <4>2
        <4>4. buf[t][b] = expect[f][b]
          BY <1>0, <1>2, <2>15, <4>3 DEF BufHolds, BufAt
        <4>5. QED
          BY <4>1, <4>4
      <3>5. QED
        BY <3>3, <3>4
    <2>16. BufHolds'
      <3>1. BufAt(t)'
        BY <2>1, <2>15 DEF BufAt
      <3>2. ASSUME NEW u \in Openers, InCall(u), u # t PROVE BufAt(u)'
        <4>1. BufAt(u) /\ todo'[u] = todo[u] /\ buf'[u] = buf[u]
          BY <1>0, <2>5, <2>6, <3>2 DEF BufHolds
        <4>2. QED
          BY <2>1, <4>1 DEF BufAt
      <3>3. \A u \in Openers : InCall(u) => BufAt(u)'
        BY <3>1, <3>2
      <3>4. QED
        BY <2>4, <3>3 DEF BufHolds
    <2>17. QED
      BY <2>8, <2>9, <2>10, <2>14, <2>16 DEF FilesHold
  <1>8. QED
    BY <1>6, <1>7 DEF ReadSector

LEMMA WriteKeeps ==
  ASSUME HeadersInv, FilesHold, NEW t \in Openers, WriteSector(t)
  PROVE  FilesHold'
  <1> DEFINE f == opened[t]
             s == todo[t]
             i == Head(s).sector
             c == call[t]
             sector == ByteToSector(hdr[f], i)
             byte(b) == IF b \in Span(c) THEN c.from[b - c.position + 1] ELSE buf[t][b]
  <1>0. FileTypes /\ CallsFit /\ RacesKnown /\ DiskHolds /\ BufHolds
    BY DEF FilesHold
  <1>1. s # <<>> /\ Head(s).kind = "write"
    BY DEF WriteSector
  <1>2. InCall(t) /\ s \in Seq(Accesses) /\ Ordered(s) /\ f \in Files
        /\ c \in Calls
        /\ \A x \in ToSet(s) : /\ x.sector \in SectorsOf(c)
                               /\ x.kind = "write" => c.kind = "write"
    BY <1>0, <1>1 DEF CallsFit, FileTypes, InCall
  <1>3. /\ Head(s) \in Accesses /\ Head(s) \in ToSet(s)
        /\ \A x \in ToSet(s) : x.kind = "write"
        /\ Tail(s) \in Seq(Accesses) /\ Ordered(Tail(s))
        /\ ToSet(Tail(s)) = ToSet(s) \ {Head(s)}
    BY <1>1, <1>2, NextAccess
  <1>4. Head(s) = Access("write", i) /\ i \in SectorsOf(c) /\ c.kind = "write"
    BY <1>1, <1>2, <1>3, AccessOf
  <1>5. i \in Nat /\ f \in Allocated /\ i \in 0 .. hdr[f].numSectors - 1
    BY <1>0, <1>2, <1>4, CallInFile
  <1>6. CASE Failed
    BY <1>0, <1>6, FilesStay DEF Failed, ioVars, FileTypes
  <1>7. CASE /\ sector # -1
             /\ data' = [data EXCEPT ![sector] =
                           [k \in 0 .. SectorSize - 1 |-> byte(i * SectorSize + k)]]
             /\ todo' = [todo EXCEPT ![t] = Tail(@)]
             /\ UNCHANGED <<headerVars, length, opened, seekPosition, call, buf, result,
                            expect, raced>>
    <2>1. UNCHANGED <<hdr, ptrs>> /\ UNCHANGED <<length, buf, opened, seekPosition, call>>
          /\ UNCHANGED <<result, expect, raced>>
      BY <1>7 DEF headerVars
    <2>2. /\ \A g, j : ByteToSector(hdr[g], j)' = ByteToSector(hdr[g], j)
          /\ Allocated' = Allocated
      BY <2>1, SameSectors
    <2>3. /\ sector \in Sectors
          /\ \A g \in Allocated : \A j \in 0 .. hdr[g].numSectors - 1 :
                ByteToSector(hdr[g], j) = sector => g = f /\ j = i
      BY <1>5, <1>7, SectorsApart
    <2>4. \A u : InCall(u)' = InCall(u)
      BY <2>1 DEF InCall
    <2>5. /\ todo' \in [Openers -> Seq(Accesses)] /\ todo'[t] = Tail(s)
          /\ \A u \in Openers : u # t => todo'[u] = todo[u]
      BY <1>0, <1>3, <1>7 DEF FileTypes
    <2>6. /\ data' = [r \in Sectors |-> data'[r]]
          /\ \A r \in Sectors : r # sector => data'[r] = data[r]
          /\ \A k \in 0 .. SectorSize - 1 : data'[sector][k] = byte(i * SectorSize + k)
      <3>1. data = [r \in Sectors |-> data[r]]
        BY <1>0 DEF FileTypes
      <3> DEFINE new == [k \in 0 .. SectorSize - 1 |-> byte(i * SectorSize + k)]
      <3>2. data' = [data EXCEPT ![sector] = new]
        BY <1>7
      <3>3. \A k \in 0 .. SectorSize - 1 : new[k] = byte(i * SectorSize + k)
        OBVIOUS
      <3> HIDE DEF new
      <3>4. data'[sector] = new /\ \A r \in Sectors : r # sector => data'[r] = data[r]
        BY <2>3, <3>1, <3>2
      <3>5. data' = [r \in Sectors |-> data'[r]]
        BY <3>1, <3>2
      <3>6. QED
        BY <3>3, <3>4, <3>5
    <2>7. \A u \in Openers : \A j : Access("read", j) \in ToSet(todo'[u]) <=>
                                    Access("read", j) \in ToSet(todo[u])
      <3>1. \A j : Access("read", j) # Access("write", i)
        BY AccessFields
      <3>2. QED
        BY <1>3, <1>4, <2>5, <3>1
    <2>8. FileTypes'
      BY <1>0, <2>1, <2>2, <2>5, <2>6 DEF FileTypes
    <2>9. CallsFit'
      <3>1. ASSUME NEW u \in Openers, u # t
            PROVE  /\ ~ InCall(u) => todo'[u] = <<>>
                   /\ InCall(u) => Ordered(todo'[u]) /\ ToSet(todo'[u]) = ToSet(todo[u])
        BY <1>0, <2>5, <3>1 DEF CallsFit
      <3>2. Ordered(todo'[t]) /\ ToSet(todo'[t]) \subseteq ToSet(todo[t])
        BY <1>3, <2>5
      <3>3. \A u \in Openers :
               /\ ~ InCall(u) => todo'[u] = <<>>
               /\ InCall(u) => Ordered(todo'[u]) /\ ToSet(todo'[u]) \subseteq ToSet(todo[u])
        BY <1>2, <3>1, <3>2
      <3>4. QED
        BY <1>0, <2>1, <2>4, <3>3 DEF CallsFit
    <2>10. RacesKnown'
      BY <1>0, <2>1, <2>4 DEF RacesKnown, Together
    <2>11. \A u \in Openers : \A g, j : Writing(u, g, j)' <=> Writing(u, g, j)
      BY <2>1, <2>4 DEF Writing
    <2>12. ASSUME NEW g \in Allocated, NEW b \in DOMAIN expect[g],
                  NEW j, j = divRoundDown(b, SectorSize),
                  ByteToSector(hdr[g], j) # -1, j \notin raced
           PROVE  ByteHolds(g, b, j)'
      <3>1. g \in Files /\ b \in Nat /\ b < length[g]
        <4>1. g \in Files /\ DOMAIN expect[g] = 0 .. length[g] - 1 /\ length[g] \in Nat
          BY <1>0 DEF Allocated, FileTypes
        <4>2. QED
          BY <4>1
      <3>2. j \in 0 .. hdr[g].numSectors - 1
        BY <1>0, <2>12, <3>1, ByteInFile
      <3>3. ByteToSector(hdr[g], j) \in Sectors
        BY <2>12, <3>2, SectorsApart
      <3>4. ByteHolds(g, b, j)
        BY <1>0, <2>12 DEF DiskHolds
      <3>5. j \in Nat /\ (b % SectorSize) \in 0 .. SectorSize - 1
            /\ b = j * SectorSize + (b % SectorSize) /\ b \in BytesOf(j)
        BY <2>12, <3>1, SectorOfByte
      <3>6. CASE g = f /\ j = i
        <4>1. ByteAt(g, b)' = byte(b)
          <5>1. ByteAt(g, b)' = data'[sector][b % SectorSize]
            BY <2>2, <2>12, <3>6 DEF ByteAt
          <5>2. data'[sector][b % SectorSize] = byte(i * SectorSize + (b % SectorSize))
            BY <2>6, <3>5
          <5>3. QED
            BY <3>5, <3>6, <5>1, <5>2
        <4>2. Writing(t, f, i)
          BY <1>2, <1>4 DEF Writing
        <4>3. ASSUME NEW u \in Openers, Writing(u, f, i) PROVE u = t
          <5>1. SUFFICES ASSUME u # t PROVE FALSE
            OBVIOUS
          <5>2. Together(t, u)
            BY <1>2, <4>2, <4>3, <5>1 DEF Together, Writing
          <5>3. i \in raced
            BY <1>0, <1>4, <4>3, <5>2 DEF RacesKnown, Writing
          <5>4. QED
            BY <2>12, <3>6, <5>3
        <4>4. Access("write", i) \notin ToSet(todo'[t])
          BY <1>3, <1>4, <2>5
        <4>5. Access("read", i) \notin ToSet(todo[t])
          <5>1. Access("read", i).kind = "read"
            BY AccessFields
          <5>2. QED
            BY <1>3, <5>1
        <4>6. b \notin Span(c) => buf[t][b] = expect[f][b]
          BY <1>0, <1>2, <1>4, <2>12, <3>1, <3>5, <3>6, <4>5 DEF BufHolds, BufAt
        <4>7. Held(t, g, b)' = byte(b)
          <5>1. CASE b \in Span(c)
            BY <2>1, <2>12, <3>6, <4>4, <5>1 DEF Held
          <5>2. CASE b \notin Span(c)
            BY <2>1, <3>6, <4>6, <5>2 DEF Held
          <5>3. QED
            BY <5>1, <5>2
        <4>8. ByteAt(g, b)' = Held(t, g, b)'
          BY <4>1, <4>7
        <4>9. \A u \in Openers : Writing(u, g, j)' => u = t
          BY <2>11, <3>6, <4>3
        <4>10. Writing(t, g, j)'
          BY <2>11, <3>6, <4>2
        <4>11. QED
          BY <4>8, <4>9, <4>10 DEF ByteHolds
      <3>7. CASE ~ (g = f /\ j = i)
        <4>1. ByteToSector(hdr[g], j) # sector
          BY <2>3, <3>2, <3>7
        <4>2. ByteAt(g, b)' = ByteAt(g, b)
          BY <2>2, <2>6, <2>12, <3>3, <4>1 DEF ByteAt
        <4>3. ASSUME NEW u \in Openers, Writing(u, g, j) PROVE Held(u, g, b)' = Held(u, g, b)
          <5>1. CASE u = t
            <6>1. j # i
              BY <3>7, <4>3, <5>1 DEF Writing
            <6>2. Access("write", j) # Access("write", i)
              BY <6>1, AccessFields
            <6>3. Access("write", j) \in ToSet(todo'[t]) <=> Access("write", j) \in ToSet(todo[t])
              BY <1>3, <1>4, <2>5, <6>2
            <6>4. QED
              BY <2>1, <2>12, <5>1, <6>3 DEF Held
          <5>2. CASE u # t
            <6>1. todo'[u] = todo[u]
              BY <2>5, <5>2
            <6>2. QED
              BY <2>1, <6>1 DEF Held
          <5>3. QED
            BY <5>1, <5>2
        <4>4. \A u \in Openers : Writing(u, g, j)' => ByteAt(g, b)' = Held(u, g, b)'
          <5> TAKE u \in Openers
          <5> HAVE Writing(u, g, j)'
          <5>1. Writing(u, g, j)
            BY <2>11
          <5>2. ByteAt(g, b) = Held(u, g, b)
            BY <3>4, <5>1 DEF ByteHolds
          <5>3. Held(u, g, b)' = Held(u, g, b)
            BY <4>3, <5>1
          <5>4. QED
            BY <4>2, <5>2, <5>3
        <4>5. (\A u \in Openers : ~ Writing(u, g, j)') => ByteAt(g, b)' = expect'[g][b]
          <5>1. (\A u \in Openers : ~ Writing(u, g, j)) => ByteAt(g, b) = expect[g][b]
            BY <3>4 DEF ByteHolds
          <5>2. QED
            BY <2>1, <2>11, <4>2, <5>1
        <4>6. QED
          BY <4>4, <4>5 DEF ByteHolds
      <3>8. QED
        BY <3>6, <3>7
    <2>13. DiskHolds'
      BY <2>1, <2>2, <2>12 DEF DiskHolds
    <2>14. BufHolds'
      <3>1. ASSUME NEW u \in Openers, InCall(u) PROVE BufAt(u)'
        <4>1. BufAt(u)
          BY <1>0, <3>1 DEF BufHolds
        <4>2. QED
          BY <2>1, <2>7, <4>1 DEF BufAt
      <3>2. QED
        BY <2>4, <3>1 DEF BufHolds
    <2>15. QED
      BY <2>8, <2>9, <2>10, <2>13, <2>14 DEF FilesHold
  <1>8. QED
    BY <1>6, <1>7 DEF WriteSector

LEMMA LeastOfTwo ==
  ASSUME NEW a \in Nat, NEW b \in Nat
  PROVE  Min({a, b}) = IF a <= b THEN a ELSE b
  <1> DEFINE m == IF a <= b THEN a ELSE b
  <1>1. m \in {a, b} /\ \A y \in {a, b} : m <= y
    OBVIOUS
  <1>2. \A x \in {a, b} : (\A y \in {a, b} : x <= y) => x = m
    OBVIOUS
  <1> HIDE DEF m
  <1>3. Min({a, b}) = CHOOSE x \in {a, b} : \A y \in {a, b} : x <= y
    BY DEF Min
  <1>4. Min({a, b}) \in {a, b} /\ \A y \in {a, b} : Min({a, b}) <= y
    BY <1>1, <1>3
  <1>5. Min({a, b}) = m
    BY <1>2, <1>4
  <1>6. QED
    BY <1>5 DEF m

\* how many bytes a call is about
LEMMA BeginCall ==
  ASSUME FilesHold, NEW t \in Openers, NEW kind \in {"read", "write"}, NEW numBytes \in Nat,
         NEW bytes \in Seq(Int), Begin(t, kind, numBytes, bytes)
  PROVE  /\ ~ InCall(t) /\ opened[t] \in Files /\ todo[t] = <<>>
         /\ length[opened[t]] \in Nat /\ seekPosition[t] \in Nat
         /\ \E c \in Calls : Begun(t, c, kind, numBytes, bytes)
         /\ UNCHANGED <<length, data, opened, seekPosition, result, expect>>
  <1> DEFINE fileLength == length[opened[t]]
             position == seekPosition[t]
             amount == IF position >= fileLength THEN 0
                       ELSE Min({numBytes, fileLength - position})
             c == [kind |-> kind, position |-> position, amount |-> amount, from |-> bytes]
  <1>1. ~ InCall(t) /\ opened[t] # NoFile
    BY DEF Begin, InCall
  <1>2. opened[t] \in Files /\ todo[t] = <<>> /\ fileLength \in Nat /\ position \in Nat
    BY <1>1 DEF FilesHold, FileTypes, CallsFit
  <1>3. /\ amount \in Nat
        /\ position >= fileLength => amount = 0
        /\ position < fileLength =>
              amount = IF numBytes <= fileLength - position
                       THEN numBytes ELSE fileLength - position
    <2>1. CASE position >= fileLength
      BY <1>2, <2>1
    <2>2. CASE ~ position >= fileLength
      <3>1. fileLength - position \in Nat
        BY <1>2, <2>2
      <3>2. Min({numBytes, fileLength - position}) =
              IF numBytes <= fileLength - position THEN numBytes ELSE fileLength - position
        <4> DEFINE d == fileLength - position
        <4> HIDE DEF d
        <4>1. d \in Nat
          BY <3>1 DEF d
        <4>2. Min({numBytes, d}) = IF numBytes <= d THEN numBytes ELSE d
          BY <4>1, LeastOfTwo
        <4>3. QED
          BY <4>2 DEF d
      <3>3. QED
        BY <1>2, <2>2, <3>1, <3>2
    <2>3. QED
      BY <2>1, <2>2
  <1>4. /\ call' = [call EXCEPT ![t] = c] /\ raced' = raced \cup Races(t, c)
        /\ IF amount <= 0
           THEN UNCHANGED <<todo, buf>>
           ELSE LET first == divRoundDown(position, SectorSize)
                    last == divRoundDown(position + amount - 1, SectorSize)
                IN /\ buf' = [buf EXCEPT ![t] =
                                [b \in UNION {BytesOf(i) : i \in first .. last} |-> Unset]]
                   /\ todo' = [todo EXCEPT ![t] =
                                 IF kind = "read" THEN All("read", first, last)
                                 ELSE Partial(c, first, last) \o All("write", first, last)]
        /\ UNCHANGED <<length, data, opened, seekPosition, result, expect>>
    BY Zenon DEF Begin
  <1> HIDE DEF amount
  <1>5. c \in Calls /\ c.kind = kind /\ c.position = position /\ c.from = bytes
        /\ c.amount = amount
    BY <1>2, <1>3 DEF Calls
  <1> HIDE DEF c
  <1>6. /\ call' = [call EXCEPT ![t] = c] /\ raced' = raced \cup Races(t, c)
        /\ IF c.amount <= 0
           THEN UNCHANGED <<todo, buf>>
           ELSE LET first == divRoundDown(c.position, SectorSize)
                    last == divRoundDown(c.position + c.amount - 1, SectorSize)
                IN /\ buf' = [buf EXCEPT ![t] =
                                [b \in UNION {BytesOf(i) : i \in first .. last} |-> Unset]]
                   /\ todo' = [todo EXCEPT ![t] =
                                 IF kind = "read" THEN All("read", first, last)
                                 ELSE Partial(c, first, last) \o All("write", first, last)]
    BY <1>4, <1>5
  <1>7. Begun(t, c, kind, numBytes, bytes)
    BY <1>3, <1>5, <1>6 DEF Begun
  <1>8. QED
    BY <1>1, <1>2, <1>4, <1>5, <1>7

\* the accesses of a new call
LEMMA FirstAccesses ==
  ASSUME NEW c \in Calls, c.amount > 0,
         NEW first, first = divRoundDown(c.position, SectorSize),
         NEW last, last = divRoundDown(c.position + c.amount - 1, SectorSize),
         NEW s, s = IF c.kind = "read" THEN All("read", first, last)
                    ELSE Partial(c, first, last) \o All("write", first, last)
  PROVE  AccessesOf(c, s) /\ SectorsOf(c) = first .. last
  <1> USE DEF AccessesOf
  <1>1. c.position \in Nat /\ c.amount \in Nat /\ c.kind \in {"read", "write"}
    BY DEF Calls
  <1>2. first \in Nat /\ last \in Nat /\ first <= last /\ SectorsOf(c) = first .. last
    BY <1>1, CallSectors
  <1>3. \A k \in {"read", "write"} :
           /\ All(k, first, last) \in Seq(Accesses) /\ Ordered(All(k, first, last))
           /\ ToSet(All(k, first, last)) = {Access(k, i) : i \in first .. last}
    BY <1>2, AllAccesses
  <1>4. \A k, i : Access(k, i).kind = k /\ Access(k, i).sector = i
    BY AccessFields
  <1>5. CASE c.kind = "read"
    <2>1. s \in Seq(Accesses) /\ Ordered(s) /\ ToSet(s) = {Access("read", i) : i \in first .. last}
      BY <1>3, <1>5
    <2>2. QED
      BY <1>2, <1>4, <1>5, <2>1
  <1>6. CASE c.kind = "write"
    <2> DEFINE p == Partial(c, first, last)
               r == All("write", first, last)
    <2>0. first \in Nat /\ last \in Nat
      BY <1>2
    <2>1. /\ p \in Seq(Accesses) /\ Ordered(p)
          /\ \A x \in ToSet(p) : x.kind = "read" /\ x.sector \in {first, last}
          /\ Access("read", first) \notin ToSet(p) => c.position = first * SectorSize
          /\ Access("read", last) \notin ToSet(p) => c.position + c.amount = (last + 1) * SectorSize
      <3>1. ReadsFirst(c, first, last, p)
        BY <2>0, PartialAccesses
      <3>2. QED
        BY <3>1 DEF ReadsFirst
    <2>2. /\ r \in Seq(Accesses) /\ Ordered(r)
          /\ ToSet(r) = {Access("write", i) : i \in first .. last}
      BY <1>3
    <2>3. \A x \in ToSet(r) : x.kind = "write"
      BY <1>4, <2>2
    <2>4. s = p \o r
      BY <1>6
    <2> HIDE DEF p, r
    <2> \A x \in ToSet(p) : x.kind = "read"
      BY <2>1
    <2>5. s \in Seq(Accesses) /\ Ordered(s) /\ ToSet(s) = ToSet(p) \cup ToSet(r)
      BY Zenon, <2>1, <2>2, <2>3, <2>4, JoinedAccesses
    <2>6. ASSUME NEW i \in SectorsOf(c), Access("read", i) \notin ToSet(s)
          PROVE  BytesOf(i) \in SUBSET Span(c)
      <3>1. i = first => c.position = first * SectorSize
        BY <2>1, <2>5, <2>6
      <3>2. i = last => c.position + c.amount = (last + 1) * SectorSize
        BY <2>1, <2>5, <2>6
      <3>3. QED
        BY <1>1, <3>1, <3>2, WholeSector
    <2>7. \A x \in ToSet(s) : x.sector \in SectorsOf(c)
      <3>1. first \in SectorsOf(c) /\ last \in SectorsOf(c)
        BY <1>2
      <3>2. QED
        BY <1>2, <1>4, <2>1, <2>2, <2>5, <3>1
    <2>8. \A i \in SectorsOf(c) : Access("write", i) \in ToSet(s)
      BY <1>2, <2>2, <2>5
    <2>9. QED
      BY <1>2, <1>6, <2>5, <2>6, <2>7, <2>8
  <1>7. QED
    BY <1>1, <1>5, <1>6

LEMMA BeginKeeps ==
  ASSUME HeadersInv, FilesHold, NEW t \in Openers, NEW kind \in {"read", "write"},
         NEW numBytes \in Nat, NEW bytes \in Seq(Int), Begin(t, kind, numBytes, bytes),
         UNCHANGED headerVars
  PROVE  FilesHold'
  <1> DEFINE f == opened[t]
  <1>0. FileTypes /\ CallsFit /\ RacesKnown /\ DiskHolds /\ BufHolds
    BY DEF FilesHold
  <1>1. /\ ~ InCall(t) /\ opened[t] \in Files /\ todo[t] = <<>>
        /\ UNCHANGED <<length, data, opened, seekPosition, result, expect>>
        /\ length[f] \in Nat /\ seekPosition[t] \in Nat
    BY BeginCall
  <1> PICK c \in Calls : Begun(t, c, kind, numBytes, bytes)
    BY BeginCall
  <1>2. /\ call' = [call EXCEPT ![t] = c] /\ raced' = raced \cup Races(t, c)
        /\ c.kind = kind /\ c.position = seekPosition[t]
        /\ seekPosition[t] >= length[f] => c.amount = 0
        /\ seekPosition[t] < length[f] =>
              c.amount = IF numBytes <= length[f] - seekPosition[t]
                         THEN numBytes ELSE length[f] - seekPosition[t]
        /\ IF c.amount <= 0
           THEN UNCHANGED <<todo, buf>>
           ELSE LET first == divRoundDown(c.position, SectorSize)
                    last == divRoundDown(c.position + c.amount - 1, SectorSize)
                IN /\ buf' = [buf EXCEPT ![t] =
                                [b \in UNION {BytesOf(i) : i \in first .. last} |-> Unset]]
                   /\ todo' = [todo EXCEPT ![t] =
                                 IF kind = "read" THEN All("read", first, last)
                                 ELSE Partial(c, first, last) \o All("write", first, last)]
    BY Zenon DEF Begun
  <1>3. /\ c.position \in Nat /\ c.amount \in Nat /\ c.kind \in {"read", "write"}
        /\ InCall(t)' /\ c # NoCall
    <2>1. c # NoCall
      BY OpenFileAssumption DEF Calls
    <2>2. call'[t] = c
      BY <1>0, <1>2 DEF FileTypes
    <2>3. QED
      BY <2>1, <2>2 DEF Calls, InCall
  <1>4. call'[t] = c /\ call' \in [Openers -> Calls \cup {NoCall}]
        /\ \A u \in Openers : u # t => call'[u] = call[u]
    BY <1>0, <1>2 DEF FileTypes
  <1>5. \A u \in Openers : u # t => (InCall(u)' <=> InCall(u))
    BY <1>4 DEF InCall
  <1>6. c.amount > 0 => c.position + c.amount <= length[f]
    BY <1>1, <1>2, <1>3
  <1>7. /\ \A g, j : ByteToSector(hdr[g], j)' = ByteToSector(hdr[g], j)
        /\ Allocated' = Allocated /\ hdr' = hdr
    BY SameSectors DEF headerVars
  <1>8. \A g, b : ByteAt(g, b)' = ByteAt(g, b)
    BY <1>1, <1>7 DEF ByteAt
  <1>9. /\ todo' \in [Openers -> Seq(Accesses)] /\ buf' = [u \in Openers |-> buf'[u]]
        /\ \A u \in Openers : u # t => todo'[u] = todo[u] /\ buf'[u] = buf[u]
        /\ Ordered(todo'[t])
        /\ \A x \in ToSet(todo'[t]) : /\ x.sector \in SectorsOf(c)
                                      /\ x.kind = "write" => c.kind = "write"
        /\ \A i \in SectorsOf(c) : BytesOf(i) \in SUBSET DOMAIN buf'[t]
        /\ c.kind = "read" => \A i \in SectorsOf(c) : Access("read", i) \in ToSet(todo'[t])
        /\ c.kind = "write" =>
              \A i \in SectorsOf(c) :
                 /\ Access("write", i) \in ToSet(todo'[t])
                 /\ Access("read", i) \notin ToSet(todo'[t]) => BytesOf(i) \in SUBSET Span(c)
    <2>0. todo \in [Openers -> Seq(Accesses)] /\ buf = [u \in Openers |-> buf[u]]
      BY <1>0 DEF FileTypes
    <2>1. CASE c.amount <= 0
      <3>1. SectorsOf(c) = {}
        BY <1>3, <2>1, CallSectors
      <3>2. todo' = todo /\ buf' = buf /\ todo'[t] = <<>>
        BY <1>1, <1>2, <2>1
      <3>3. ToSet(<<>>) = {} /\ Ordered(<<>>)
        BY DEF ToSet, Ordered
      <3>4. QED
        BY <2>0, <3>1, <3>2, <3>3
    <2>2. CASE ~ c.amount <= 0
      <3>2. c.amount > 0
        BY <1>3, <2>2
      <3> PICK first, last : /\ first = divRoundDown(c.position, SectorSize)
                             /\ last = divRoundDown(c.position + c.amount - 1, SectorSize)
        OBVIOUS
      <3> PICK s : s = IF c.kind = "read" THEN All("read", first, last)
                       ELSE Partial(c, first, last) \o All("write", first, last)
        OBVIOUS
      <3> DEFINE B == UNION {BytesOf(i) : i \in first .. last}
                 new == [b \in B |-> Unset]
      <3>1. buf' = [buf EXCEPT ![t] = new] /\ todo' = [todo EXCEPT ![t] = s]
        BY <1>2, <2>2
      <3>3. /\ s \in Seq(Accesses) /\ Ordered(s) /\ SectorsOf(c) = first .. last
            /\ \A x \in ToSet(s) : /\ x.sector \in SectorsOf(c)
                                   /\ x.kind = "write" => c.kind = "write"
            /\ c.kind = "read" => \A i \in SectorsOf(c) : Access("read", i) \in ToSet(s)
            /\ c.kind = "write" =>
                  \A i \in SectorsOf(c) :
                     /\ Access("write", i) \in ToSet(s)
                     /\ Access("read", i) \notin ToSet(s) => BytesOf(i) \in SUBSET Span(c)
        <4>1. AccessesOf(c, s) /\ SectorsOf(c) = first .. last
          BY <3>2, FirstAccesses
        <4>2. QED
          BY Zenon, <4>1 DEF AccessesOf
      <3>4. \A i \in first .. last : BytesOf(i) \in SUBSET B
        OBVIOUS
      <3> HIDE DEF B
      <3>5. DOMAIN new = B
        OBVIOUS
      <3> HIDE DEF new
      <3>6. todo' \in [Openers -> Seq(Accesses)] /\ todo'[t] = s
            /\ \A u \in Openers : u # t => todo'[u] = todo[u]
        BY <2>0, <3>1, <3>3
      <3>7. buf' = [u \in Openers |-> buf'[u]] /\ buf'[t] = new
            /\ \A u \in Openers : u # t => buf'[u] = buf[u]
        BY <2>0, <3>1
      <3>8. QED
        BY <3>3, <3>4, <3>5, <3>6, <3>7
    <2>3. QED
      BY <2>1, <2>2
  <1>10. FileTypes'
    BY <1>0, <1>1, <1>4, <1>7, <1>9 DEF FileTypes
  <1>11. CallsFit'
    <2>1. ASSUME NEW u \in Openers, u # t
          PROVE  /\ ~ InCall(u)' => todo'[u] = <<>>
                 /\ InCall(u)' =>
                       /\ opened'[u] \in Files
                       /\ call'[u].amount > 0 =>
                             call'[u].position + call'[u].amount <= length'[opened'[u]]
                       /\ Ordered(todo'[u])
                       /\ \A x \in ToSet(todo'[u]) :
                             /\ x.sector \in SectorsOf(call'[u])
                             /\ x.kind = "write" => call'[u].kind = "write"
                       /\ \A i \in SectorsOf(call'[u]) : BytesOf(i) \subseteq DOMAIN buf'[u]
      BY <1>0, <1>1, <1>4, <1>5, <1>9, <2>1 DEF CallsFit
    <2>2. /\ InCall(t)' /\ opened'[t] \in Files
          /\ call'[t].amount > 0 => call'[t].position + call'[t].amount <= length'[opened'[t]]
          /\ Ordered(todo'[t])
          /\ \A x \in ToSet(todo'[t]) :
                /\ x.sector \in SectorsOf(call'[t])
                /\ x.kind = "write" => call'[t].kind = "write"
          /\ \A i \in SectorsOf(call'[t]) : BytesOf(i) \subseteq DOMAIN buf'[t]
      BY <1>1, <1>3, <1>4, <1>6, <1>9
    <2>3. QED
      BY <2>1, <2>2 DEF CallsFit
  <1>12. raced \in SUBSET raced'
         /\ \A u \in Openers : (u # t /\ InCall(u) /\ opened[u] = f /\ "write" \in {c.kind, call[u].kind})
                                  => SectorsOf(c) \cap SectorsOf(call[u]) \in SUBSET raced'
    <2>1. raced \in SUBSET raced' /\ Races(t, c) \in SUBSET raced'
      BY <1>2
    <2>2. ASSUME NEW u \in Openers, u # t, InCall(u), opened[u] = f,
                 "write" \in {c.kind, call[u].kind}
          PROVE  SectorsOf(c) \cap SectorsOf(call[u]) \in SUBSET Races(t, c)
      <3>1. u \in {v \in Openers \ {t} : /\ call[v] # NoCall /\ opened[v] = opened[t]
                                         /\ "write" \in {c.kind, call[v].kind}}
        BY <2>2 DEF InCall
      <3>2. QED
        BY <3>1 DEF Races
    <2>3. QED
      BY <2>1, <2>2
  <1>13. RacesKnown'
    <2>1. ASSUME NEW u \in Openers, NEW v \in Openers, Together(u, v)'
          PROVE  SectorsOf(call'[u]) \cap SectorsOf(call'[v]) \in SUBSET raced'
      <3>1. /\ u # v /\ InCall(u)' /\ InCall(v)' /\ opened[u] = opened[v]
            /\ "write" \in {call'[u].kind, call'[v].kind}
        BY <1>1, <2>1 DEF Together
      <3>2. CASE u = t
        BY <1>4, <1>5, <1>12, <3>1, <3>2
      <3>3. CASE v = t
        BY <1>4, <1>5, <1>12, <3>1, <3>3
      <3>4. CASE u # t /\ v # t
        <4>1. Together(u, v) /\ call'[u] = call[u] /\ call'[v] = call[v]
          BY <1>4, <1>5, <3>1, <3>4 DEF Together
        <4>2. QED
          BY <1>0, <1>12, <4>1 DEF RacesKnown
      <3>5. QED
        BY <3>2, <3>3, <3>4
    <2>2. QED
      BY <2>1 DEF RacesKnown
  <1>14. /\ \A u \in Openers : u # t => \A g, j : Writing(u, g, j)' <=> Writing(u, g, j)
         /\ \A g, j : ~ Writing(t, g, j)
         /\ \A g, j : Writing(t, g, j)' => g = f /\ c.kind = "write" /\ j \in SectorsOf(c)
    BY <1>1, <1>4, <1>5 DEF Writing
  <1>15. \A u \in Openers : u # t => \A g, b : Held(u, g, b)' = Held(u, g, b)
    BY <1>1, <1>4, <1>9 DEF Held
  <1>16. ASSUME NEW g \in Allocated, NEW b \in DOMAIN expect[g],
                NEW j, j = divRoundDown(b, SectorSize),
                ByteToSector(hdr[g], j) # -1, j \notin raced'
         PROVE  ByteHolds(g, b, j)'
    <2>1. ByteHolds(g, b, j)
      BY <1>0, <1>12, <1>16 DEF DiskHolds
    <2>2. (\A u \in Openers : ~ Writing(u, g, j)') => ByteAt(g, b)' = expect'[g][b]
      <3>1. (\A u \in Openers : ~ Writing(u, g, j)) => ByteAt(g, b) = expect[g][b]
        BY <2>1 DEF ByteHolds
      <3>2. QED
        BY <1>1, <1>8, <1>14, <3>1
    <2>3. \A u \in Openers : Writing(u, g, j)' => ByteAt(g, b)' = Held(u, g, b)'
      <3> TAKE u \in Openers
      <3> HAVE Writing(u, g, j)'
      <3>1. CASE u # t
        <4>1. Writing(u, g, j)
          BY <1>14, <3>1
        <4>2. ByteAt(g, b) = Held(u, g, b)
          BY <2>1, <4>1 DEF ByteHolds
        <4>3. Held(u, g, b)' = Held(u, g, b)
          BY <1>15, <3>1
        <4>4. QED
          BY <1>8, <4>2, <4>3
      <3>2. CASE u = t
        <4>1. g = f /\ c.kind = "write" /\ j \in SectorsOf(c)
          BY <1>14, <3>2
        <4>2. ASSUME NEW v \in Openers, Writing(v, g, j) PROVE FALSE
          <5>1. v # t /\ InCall(v) /\ opened[v] = f /\ j \in SectorsOf(call[v])
            BY <1>1, <4>1, <4>2 DEF Writing
          <5>2. j \in raced'
            BY <1>12, <4>1, <5>1
          <5>3. QED
            BY <1>16, <5>2
        <4>3. ByteAt(g, b) = expect[g][b]
          BY <2>1, <4>2 DEF ByteHolds
        <4>4. Held(t, g, b)' = expect[g][b]
          BY <1>1, <1>9, <1>16, <4>1 DEF Held
        <4>5. QED
          BY <1>8, <3>2, <4>3, <4>4
      <3>3. QED
        BY <3>1, <3>2
    <2>4. QED
      BY <2>2, <2>3 DEF ByteHolds
  <1>17. DiskHolds'
    BY <1>1, <1>7, <1>16 DEF DiskHolds
  <1>18. BufAt(t)'
    <2>1. ASSUME NEW i \in SectorsOf(c), Access("read", i) \notin ToSet(todo'[t]), NEW b \in BytesOf(i),
                 c.kind = "read" \/ b \notin Span(c)
          PROVE  FALSE
      BY <1>3, <1>9, <2>1
    <2>2. QED
      BY <1>4, <2>1 DEF BufAt
  <1>19. ASSUME NEW u \in Openers, u # t, InCall(u) PROVE BufAt(u)'
    <2>1. BufAt(u) /\ todo'[u] = todo[u] /\ buf'[u] = buf[u] /\ call'[u] = call[u]
      BY <1>0, <1>4, <1>9, <1>19 DEF BufHolds
    <2>2. QED
      BY <1>1, <1>12, <2>1 DEF BufAt
  <1>20. BufHolds'
    BY <1>5, <1>18, <1>19 DEF BufHolds
  <1>21. QED
    BY <1>10, <1>11, <1>13, <1>17, <1>20 DEF FilesHold


LEMMA ReturnKeeps ==
  ASSUME HeadersInv, FilesHold, NEW t \in Openers, Return(t)
  PROVE  FilesHold'
  <1> PICK c, f : c = call[t] /\ f = opened[t]
    OBVIOUS
  <1> DEFINE new == [b \in DOMAIN expect[f] |-> IF c.kind = "write" /\ b \in Span(c)
                                                THEN c.from[b - c.position + 1]
                                                ELSE expect[f][b]]
             bytes == [amount |-> c.amount,
                       bytes  |-> IF c.kind = "write" THEN <<>>
                                  ELSE [k \in 1 .. c.amount |-> buf[t][c.position + k - 1]]]
  <1>0. FileTypes /\ CallsFit /\ RacesKnown /\ DiskHolds /\ BufHolds
    BY DEF FilesHold
  <1>1. /\ c # NoCall /\ todo[t] = <<>>
        /\ seekPosition' = [seekPosition EXCEPT ![t] = @ + c.amount]
        /\ result' = [result EXCEPT ![t] = bytes]
        /\ expect' = [expect EXCEPT ![f] = new]
        /\ call' = [call EXCEPT ![t] = NoCall]
        /\ buf' = [buf EXCEPT ![t] = <<>>]
        /\ UNCHANGED <<headerVars, length, data, opened, todo, raced>>
    BY Zenon DEF Return
  <1> HIDE DEF bytes
  <1>2. InCall(t) /\ c \in Calls /\ f \in Files
    BY <1>0, <1>1 DEF CallsFit, FileTypes, InCall
  <1>3. c.position \in Nat /\ c.amount \in Nat
    BY <1>2 DEF Calls
  <1>4. /\ \A g, j : ByteToSector(hdr[g], j)' = ByteToSector(hdr[g], j)
        /\ Allocated' = Allocated /\ hdr' = hdr
    BY <1>1, SameSectors DEF headerVars
  <1>5. \A g, b : ByteAt(g, b)' = ByteAt(g, b)
    BY <1>1, <1>4 DEF ByteAt
  <1>6. DOMAIN new = DOMAIN expect[f]
        /\ \A b \in DOMAIN expect[f] : new[b] = IF c.kind = "write" /\ b \in Span(c)
                                               THEN c.from[b - c.position + 1]
                                               ELSE expect[f][b]
    OBVIOUS
  <1> HIDE DEF new
  <1>7. /\ expect' = [g \in Files |-> expect'[g]]
        /\ expect'[f] = new /\ \A g \in Files : g # f => expect'[g] = expect[g]
    BY <1>0, <1>1, <1>2 DEF FileTypes
  <1>8. /\ \A g \in Files : DOMAIN expect'[g] = DOMAIN expect[g]
        /\ \A g \in Files : \A b \in DOMAIN expect[g] :
              ~ (g = f /\ c.kind = "write" /\ b \in Span(c)) => expect'[g][b] = expect[g][b]
    BY <1>6, <1>7
  <1>9. /\ call' \in [Openers -> Calls \cup {NoCall}] /\ call'[t] = NoCall
        /\ \A u \in Openers : u # t => call'[u] = call[u]
    BY <1>0, <1>1 DEF FileTypes
  <1>10. ~ InCall(t)' /\ \A u \in Openers : u # t => (InCall(u)' <=> InCall(u))
    BY <1>9 DEF InCall
  <1>11. /\ buf' = [u \in Openers |-> buf'[u]] /\ result' = [u \in Openers |-> result'[u]]
         /\ \A u \in Openers : u # t => buf'[u] = buf[u]
    BY <1>0, <1>1 DEF FileTypes
  <1>12. seekPosition' \in [Openers -> Nat]
    <2>1. seekPosition \in [Openers -> Nat] /\ seekPosition[t] + c.amount \in Nat
      BY <1>0, <1>3 DEF FileTypes
    <2>2. QED
      BY <1>1, <2>1
  <1>13. FileTypes'
    <2>1. /\ UNCHANGED <<length, data, opened, todo>>
      BY <1>1
    <2>2. QED
      BY <1>0, <1>4, <1>7, <1>8, <1>9, <1>11, <1>12, <2>1 DEF FileTypes
  <1>14. CallsFit'
    <2>1. ASSUME NEW u \in Openers, u # t
          PROVE  /\ ~ InCall(u)' => todo'[u] = <<>>
                 /\ InCall(u)' =>
                       /\ opened'[u] \in Files
                       /\ call'[u].amount > 0 =>
                             call'[u].position + call'[u].amount <= length'[opened'[u]]
                       /\ Ordered(todo'[u])
                       /\ \A x \in ToSet(todo'[u]) :
                             /\ x.sector \in SectorsOf(call'[u])
                             /\ x.kind = "write" => call'[u].kind = "write"
                       /\ \A i \in SectorsOf(call'[u]) : BytesOf(i) \subseteq DOMAIN buf'[u]
      BY <1>0, <1>1, <1>9, <1>10, <1>11, <2>1 DEF CallsFit
    <2>2. ~ InCall(t)' /\ todo'[t] = <<>>
      BY <1>1, <1>10
    <2>3. QED
      BY <2>1, <2>2 DEF CallsFit
  <1>15. RacesKnown'
    <2>1. ASSUME NEW u \in Openers, NEW v \in Openers, Together(u, v)'
          PROVE  SectorsOf(call'[u]) \cap SectorsOf(call'[v]) \in SUBSET raced'
      <3>1. u # t /\ v # t /\ Together(u, v) /\ call'[u] = call[u] /\ call'[v] = call[v]
        BY <1>1, <1>9, <1>10, <2>1 DEF Together
      <3>2. QED
        BY <1>0, <1>1, <3>1 DEF RacesKnown
    <2>2. QED
      BY <2>1 DEF RacesKnown
  <1>16. /\ \A g, j : ~ Writing(t, g, j)'
         /\ \A u \in Openers : u # t => \A g, j : Writing(u, g, j)' <=> Writing(u, g, j)
         /\ \A g, j : Writing(t, g, j) <=> g = f /\ c.kind = "write" /\ j \in SectorsOf(c)
    BY <1>1, <1>2, <1>9, <1>10 DEF Writing
  <1>17. ASSUME NEW u \in Openers, u # t, InCall(u), opened[u] = f, c.kind = "write"
         PROVE  SectorsOf(c) \cap SectorsOf(call[u]) \in SUBSET raced
    <2>1. Together(t, u)
      BY <1>2, <1>17 DEF Together
    <2>2. QED
      BY <1>0, <2>1 DEF RacesKnown
  <1>18. ASSUME NEW g \in Allocated, NEW b \in DOMAIN expect[g],
                NEW j, j = divRoundDown(b, SectorSize),
                ByteToSector(hdr[g], j) # -1, j \notin raced
         PROVE  ByteHolds(g, b, j)'
    <2>1. ByteHolds(g, b, j) /\ g \in Files
      BY <1>0, <1>18 DEF DiskHolds, Allocated
    <2>2. CASE Writing(t, g, j)
      <3>1. g = f /\ c.kind = "write" /\ j \in SectorsOf(c)
        BY <1>16, <2>2
      <3>2. ByteAt(g, b) = Held(t, g, b)
        BY <2>1, <2>2 DEF ByteHolds
      <3>3. Held(t, g, b) = expect'[g][b]
        <4>1. Held(t, g, b) = IF b \in Span(c) THEN c.from[b - c.position + 1] ELSE expect[g][b]
          <5>1. ToSet(todo[t]) = {}
            BY <1>1 DEF ToSet
          <5>2. QED
            BY <5>1 DEF Held
        <4>2. QED
          BY <1>6, <1>7, <1>18, <3>1, <4>1
      <3>4. ASSUME NEW u \in Openers, Writing(u, g, j)' PROVE FALSE
        <4>1. u # t /\ Writing(u, g, j)
          BY <1>16, <3>4
        <4>2. j \in SectorsOf(call[u]) /\ InCall(u) /\ opened[u] = f
          BY <3>1, <4>1 DEF Writing
        <4>3. QED
          BY <1>17, <1>18, <3>1, <4>1, <4>2
      <3>5. ByteAt(g, b)' = expect'[g][b]
        BY <1>5, <3>2, <3>3
      <3>6. QED
        BY <3>4, <3>5 DEF ByteHolds
    <2>3. CASE ~ Writing(t, g, j)
      <3>1. expect'[g][b] = expect[g][b]
        <4>1. ~ (g = f /\ c.kind = "write" /\ b \in Span(c))
          <5>1. b \in Span(c) => j \in SectorsOf(c)
            BY <1>3, <1>18, CallSectors
          <5>2. QED
            BY <1>16, <2>3, <5>1
        <4>2. QED
          BY <1>8, <1>18, <2>1, <4>1
      <3>2. ASSUME \A u \in Openers : ~ Writing(u, g, j)'
            PROVE  ByteAt(g, b)' = expect'[g][b]
        <4>1. \A u \in Openers : ~ Writing(u, g, j)
          BY <1>16, <2>3, <3>2
        <4>2. ByteAt(g, b) = expect[g][b]
          BY <2>1, <4>1 DEF ByteHolds
        <4>3. QED
          BY <1>5, <3>1, <4>2
      <3>3. ASSUME NEW u \in Openers, Writing(u, g, j)'
            PROVE  ByteAt(g, b)' = Held(u, g, b)'
        <4>1. u # t /\ Writing(u, g, j)
          BY <1>16, <3>3
        <4>2. ByteAt(g, b) = Held(u, g, b)
          BY <2>1, <4>1 DEF ByteHolds
        <4>3. Held(u, g, b)' = Held(u, g, b)
          BY <1>1, <1>9, <3>1, <4>1 DEF Held
        <4>4. QED
          BY <1>5, <4>2, <4>3
      <3>4. QED
        BY <3>2, <3>3 DEF ByteHolds
    <2>4. QED
      BY <2>2, <2>3
  <1>19. DiskHolds'
    <2>1. \A g \in Allocated : DOMAIN expect'[g] = DOMAIN expect[g]
      BY <1>8 DEF Allocated
    <2>2. QED
      BY <1>1, <1>4, <1>18, <2>1 DEF DiskHolds
  <1>20. ASSUME NEW u \in Openers, InCall(u)' PROVE BufAt(u)'
    <2>1. u # t /\ InCall(u) /\ BufAt(u)
      BY <1>0, <1>10, <1>20 DEF BufHolds
    <2>2. todo'[u] = todo[u] /\ buf'[u] = buf[u] /\ call'[u] = call[u]
      BY <1>1, <1>9, <1>11, <2>1
    <2>3. ASSUME NEW i \in SectorsOf(call[u]) \ raced,
                 Access("read", i) \notin ToSet(todo[u]), NEW b \in BytesOf(i),
                 b < length[opened[u]] /\ (call[u].kind = "read" \/ b \notin Span(call[u]))
          PROVE  buf[u][b] = expect'[opened[u]][b]
      <3>1. buf[u][b] = expect[opened[u]][b]
        BY <2>1, <2>3 DEF BufAt
      <3>2. opened[u] \in Files /\ i \in Nat
        BY <1>0, <2>1, <2>3, CallInFile DEF Allocated
      <3>3. b \in Nat /\ i = divRoundDown(b, SectorSize)
        <4>1. SectorSize \in Nat
          BY OpenFileAssumption
        <4>2. i * SectorSize \in Nat /\ (i + 1) * SectorSize \in Nat
          BY <3>2, <4>1
        <4>3. BytesOf(i) \in SUBSET Nat
          BY <4>2 DEF BytesOf
        <4>4. b \in Nat
          BY <2>3, <4>3
        <4>5. QED
          BY <2>3, <3>2, <4>4, SectorOfByte
      <3>4. b \in DOMAIN expect[opened[u]]
        BY <1>0, <2>3, <3>2, <3>3 DEF FileTypes
      <3>5. ~ (opened[u] = f /\ c.kind = "write" /\ b \in Span(c))
        <4>1. b \in Span(c) => i \in SectorsOf(c)
          BY <1>3, <3>3, CallSectors
        <4>2. (opened[u] = f /\ c.kind = "write") => i \notin SectorsOf(c)
          BY <1>17, <2>1, <2>3
        <4>3. QED
          BY <4>1, <4>2
      <3>6. QED
        BY <1>8, <3>1, <3>2, <3>4, <3>5
    <2>4. QED
      BY <1>1, <2>2, <2>3 DEF BufAt
  <1>21. BufHolds'
    BY <1>20 DEF BufHolds
  <1>22. QED
    BY <1>13, <1>14, <1>15, <1>19, <1>21 DEF FilesHold

LEMMA ClearIsFew ==
  ASSUME NEW n \in Nat, Cardinality(Sectors \ freeMap) >= n
  PROVE  n \in 0 .. NumSectors
  <1>1. NumSectors \in Nat
    BY Bounds
  <1>2. IsFiniteSet(Sectors) /\ Cardinality(Sectors) = NumSectors
    <2>1. 0 \in Int /\ NumSectors - 1 \in Int
      BY <1>1
    <2>2. /\ IsFiniteSet(0 .. NumSectors - 1)
          /\ Cardinality(0 .. NumSectors - 1) =
               IF 0 > NumSectors - 1 THEN 0 ELSE (NumSectors - 1) - 0 + 1
      BY <2>1, FS_Interval
    <2>3. QED
      BY <1>1, <2>2 DEF Sectors
  <1>3. Cardinality(Sectors \ freeMap) <= NumSectors /\ Cardinality(Sectors \ freeMap) \in Nat
    <2>1. IsFiniteSet(Sectors \ freeMap) /\ Cardinality(Sectors \ freeMap) <= Cardinality(Sectors)
      BY <1>2, FS_Subset
    <2>2. QED
      BY <1>2, <2>1, FS_CardinalityType
  <1>4. QED
    BY <1>1, <1>3

\* when no thread is in a call
NoCalls == \A t \in Openers : ~ InCall(t) /\ todo[t] = <<>>

LEMMA NoCallsHold ==
  ASSUME NoCalls
  PROVE  CallsFit /\ RacesKnown /\ BufHolds
  BY DEF NoCalls, CallsFit, RacesKnown, BufHolds, Together

\* when the disk and the files hold no byte but 0
Blank ==
  /\ NoCalls
  /\ data = [s \in Sectors |-> [k \in 0 .. SectorSize - 1 |-> 0]]
  /\ \A f \in Files : \A b \in DOMAIN expect[f] : expect[f][b] = 0

LEMMA BlankHolds == HeadersFound /\ FileTypes /\ Blank => FilesHold
  <1> SUFFICES ASSUME HeadersFound, FileTypes, Blank PROVE FilesHold
    OBVIOUS
  <1>1. HeadersInv
    BY FoundHeaders
  <1>2. CallsFit /\ RacesKnown /\ BufHolds
    BY NoCallsHold DEF Blank
  <1>3. ASSUME NEW f \in Allocated, NEW b \in DOMAIN expect[f],
               NEW i, i = divRoundDown(b, SectorSize), ByteToSector(hdr[f], i) # -1
        PROVE  ByteHolds(f, b, i)
    <2>1. f \in Files /\ expect[f][b] = 0
      BY <1>3 DEF Blank, Allocated
    <2>2. b \in Nat /\ b < length[f]
      <3>1. length[f] \in Nat /\ b \in 0 .. length[f] - 1
        BY <1>3, <2>1 DEF FileTypes
      <3>2. QED
        BY <3>1
    <2>3. i \in 0 .. hdr[f].numSectors - 1
      BY <1>1, <1>3, <2>1, <2>2, ByteInFile
    <2>4. ByteToSector(hdr[f], i) \in Sectors
      BY <1>1, <1>3, <2>3, SectorsApart
    <2>5. b % SectorSize \in 0 .. SectorSize - 1
      BY <2>2, SectorOfByte
    <2>6. ByteAt(f, b) = 0
      BY <1>3, <2>4, <2>5 DEF ByteAt, Blank
    <2>7. \A t \in Openers : ~ Writing(t, f, i)
      BY DEF Blank, NoCalls, Writing
    <2>8. QED
      BY <2>1, <2>6, <2>7 DEF ByteHolds
  <1>4. DiskHolds
    BY <1>3 DEF DiskHolds
  <1>5. QED
    BY <1>2, <1>4 DEF FilesHold

\* when no file has a byte
Empty == \A f \in Files : length[f] = 0

LEMMA EmptyHolds == FileTypes /\ NoCalls /\ Empty => FilesHold
  <1> SUFFICES ASSUME FileTypes, NoCalls, Empty PROVE FilesHold
    OBVIOUS
  <1>1. CallsFit /\ RacesKnown /\ BufHolds
    BY NoCallsHold
  <1>2. \A f \in Files : DOMAIN expect[f] = {}
    <2>1. \A f \in Files : DOMAIN expect[f] = 0 .. length[f] - 1
      BY DEF FileTypes
    <2>2. 0 .. 0 - 1 = {}
      OBVIOUS
    <2>3. QED
      BY <2>1, <2>2 DEF Empty
  <1>3. DiskHolds
    BY <1>2 DEF DiskHolds, Allocated
  <1>4. QED
    BY <1>1, <1>3 DEF FilesHold

\* what every step of the commands keeps
CommandsHold == HeadersFound /\ FilesHold /\ JobHolds

LEMMA QuietCalls ==
  ASSUME FilesHold, JobHolds, job \in Quiet \/ (job # "share" /\ ~ InCall(main))
  PROVE  NoCalls
  BY DEF FilesHold, CallsFit, JobHolds, NoCalls

LEMMA CommandsHoldInit == CommandsInit => CommandsHold
  <1> SUFFICES ASSUME CommandsInit PROVE CommandsHold
    OBVIOUS
  <1>1. HeaderInit /\ OpenFileInit /\ job = "none" /\ unixLength = 0 /\ transferred = 0
    BY DEF CommandsInit
  <1>2. HeadersFound
    BY <1>1, HeadersFoundInit
  <1>3. Blank
    <2>1. NoCalls
      BY <1>1 DEF OpenFileInit, NoCalls, InCall
    <2>2. \A f \in Files : DOMAIN expect[f] = {}
      BY <1>1 DEF OpenFileInit
    <2>3. QED
      BY <1>1, <2>1, <2>2 DEF OpenFileInit, Blank
  <1>4. FileTypes
    <2>1. <<>> \in Seq(Accesses)
      OBVIOUS
    <2>2. \A f \in Files : DOMAIN expect[f] = 0 .. length[f] - 1
      <3>1. \A f \in Files : expect[f] = <<>> /\ length[f] = 0
        BY <1>1 DEF OpenFileInit
      <3>2. DOMAIN <<>> = 0 .. 0 - 1
        OBVIOUS
      <3>3. QED
        BY <3>1, <3>2
    <2>3. Allocated = {}
      BY <1>1 DEF HeaderInit, Allocated
    <2>4. QED
      BY <1>1, <2>1, <2>2, <2>3 DEF OpenFileInit, FileTypes
  <1>5. FilesHold
    BY <1>2, <1>3, <1>4, BlankHolds
  <1>6. JobHolds
    BY <1>1, <1>3 DEF JobHolds, OpenFileInit, Blank, NoCalls
  <1>7. QED
    BY <1>2, <1>5, <1>6 DEF CommandsHold

LEMMA BlankHoldsNext == HeadersFound' /\ FileTypes' /\ Blank' => FilesHold'
  BY BlankHolds, PTL

LEMMA FoundHeadersNext == HeadersFound' => HeadersInv'
  BY FoundHeaders, PTL

\* the sizes of the files that are there
Sized == \A f \in Allocated : hdr[f].numSectors \in Nat

LEMMA SizesFound == HeadersFound => Sized
  <1>1. HeadersFound => \A f \in Allocated : hdr[f].numSectors \in 0 .. NumSectors
    BY FoundHeaders DEF HeadersInv, HeaderTypes
  <1>2. QED
    BY <1>1 DEF Sized

LEMMA SizesFoundNext == HeadersFound' => \A f \in Allocated' : hdr'[f].numSectors \in Nat
  <1>1. HeadersFound' => Sized'
    BY SizesFound, PTL
  <1>2. QED
    BY <1>1 DEF Sized

LEMMA CreateKeeps ==
  ASSUME CommandsHold, job = "none", NEW f \in Files, NEW n \in Nat, CreateFile(f, n),
         OpenAs(main, f), UNCHANGED <<data, call, todo, buf, result, raced>>
  PROVE  /\ HeadersFound' /\ FilesHold'
         /\ \A g \in Files : length'[g] # 0 => g = f /\ length'[g] = n
  <1> DEFINE r == divRoundUp(n, SectorSize)
  <1>1. HeadersFound /\ FileTypes /\ JobHolds
    BY DEF CommandsHold, FilesHold
  <1>2. /\ Allocate(f, r) /\ ~ aborted'
        /\ length' = [length EXCEPT ![f] = n]
        /\ expect' = [expect EXCEPT ![f] = [b \in 0 .. n - 1 |-> 0]]
    BY DEF CreateFile
  <1>3. r \in Nat /\ n <= r * SectorSize
    BY RoundUpHolds
  <1> HIDE DEF r
  <1>4. /\ Cardinality(Sectors \ freeMap) >= r
        /\ hdr' = [hdr EXCEPT ![f] = [numSectors |-> r,
                                      dataSectors |-> DataSectors(r, Finds(freeMap))]]
    BY <1>2 DEF Allocate
  <1>5. r \in 0 .. NumSectors
    BY <1>3, <1>4, ClearIsFew
  <1>6. HeadersFound' /\ f \in Allocated'
    BY <1>1, <1>2, <1>5, AllocateFinds
  <1>7. \A g \in Files : length[g] = 0
    BY <1>1 DEF JobHolds, Copying
  <1>8. /\ length' \in [Files -> Nat] /\ length'[f] = n
        /\ \A g \in Files : g # f => length'[g] = 0
    BY <1>1, <1>2, <1>7 DEF FileTypes
  <1>9. /\ expect' = [g \in Files |-> expect'[g]]
        /\ DOMAIN expect'[f] = 0 .. n - 1 /\ \A b \in 0 .. n - 1 : expect'[f][b] = 0
        /\ \A g \in Files : g # f => expect'[g] = expect[g]
    <2> DEFINE new == [b \in 0 .. n - 1 |-> 0]
    <2>1. DOMAIN new = 0 .. n - 1 /\ \A b \in 0 .. n - 1 : new[b] = 0
      OBVIOUS
    <2> HIDE DEF new
    <2>2. expect = [g \in Files |-> expect[g]] /\ expect' = [expect EXCEPT ![f] = new]
      BY <1>1, <1>2 DEF FileTypes, new
    <2>3. expect'[f] = new /\ \A g \in Files : g # f => expect'[g] = expect[g]
      BY <2>2
    <2>4. expect' = [g \in Files |-> expect'[g]]
      BY <2>2
    <2>5. QED
      BY <2>1, <2>3, <2>4
  <1>10. \A g \in Files : g # f => DOMAIN expect[g] = {}
    <2>1. \A g \in Files : DOMAIN expect[g] = 0 .. length[g] - 1
      BY <1>1 DEF FileTypes
    <2>2. 0 .. 0 - 1 = {}
      OBVIOUS
    <2>3. QED
      BY <1>7, <2>1, <2>2
  <1>11. main \in Openers
    BY CommandsAssumption
  <1>12. /\ opened' \in [Openers -> Files \cup {NoFile}]
         /\ seekPosition' \in [Openers -> Nat]
    BY <1>1, <1>11 DEF FileTypes, OpenAs
  <1>13. hdr = [g \in Files |-> hdr[g]]
    BY <1>1 DEF HeadersFound, HeadersBy
  <1>14. hdr'[f].numSectors = r
    BY <1>4, <1>13
  <1>15. ASSUME NEW g \in Files
         PROVE  /\ DOMAIN expect'[g] = 0 .. length'[g] - 1
                /\ g \notin Allocated' => length'[g] = 0
                /\ g \in Allocated' => length'[g] <= hdr'[g].numSectors * SectorSize
    <2>1. CASE g = f
      BY <1>3, <1>6, <1>8, <1>9, <1>14, <2>1
    <2>2. CASE g # f
      <3>1. length'[g] = 0 /\ DOMAIN expect'[g] = 0 .. 0 - 1
        <4>1. 0 .. 0 - 1 = {}
          OBVIOUS
        <4>2. QED
          BY <1>8, <1>9, <1>10, <2>2, <4>1
      <3>2. g \in Allocated' => hdr'[g].numSectors \in Nat
        BY <1>6, SizesFoundNext
      <3>3. SectorSize \in Nat
        BY OpenFileAssumption
      <3>4. g \in Allocated' => 0 <= hdr'[g].numSectors * SectorSize
        BY <3>2, <3>3
      <3>5. QED
        BY <3>1, <3>4
    <2>3. QED
      BY <2>1, <2>2
  <1>16. FileTypes'
    BY <1>1, <1>8, <1>9, <1>12, <1>15 DEF FileTypes
  <1>17. Blank'
    <2>1. NoCalls
      BY <1>1, QuietCalls DEF CommandsHold, Quiet
    <2>2. NoCalls'
      BY <2>1 DEF NoCalls, InCall
    <2>3. data = [s \in Sectors |-> [k \in 0 .. SectorSize - 1 |-> 0]]
      BY <1>1 DEF JobHolds
    <2>4. \A g \in Files : \A b \in DOMAIN expect'[g] : expect'[g][b] = 0
      <3> TAKE g \in Files
      <3>1. CASE g = f
        BY <1>9, <3>1
      <3>2. CASE g # f
        BY <1>9, <1>10, <3>2
      <3>3. QED
        BY <3>1, <3>2
    <2>5. QED
      BY <2>2, <2>3, <2>4 DEF Blank
  <1>18. FilesHold'
    BY <1>6, <1>16, <1>17, BlankHoldsNext
  <1>19. QED
    BY <1>6, <1>8, <1>18

\* Remove makes every file empty: no other has a byte
LEMMA RemoveKeeps ==
  ASSUME CommandsHold, NoCalls, NEW f \in Files, Deallocate(f),
         length' = [length EXCEPT ![f] = 0], expect' = [expect EXCEPT ![f] = <<>>],
         \A g \in Files : g # f => length[g] = 0,
         UNCHANGED <<data, opened, seekPosition, call, todo, buf, result, raced>>
  PROVE  HeadersFound' /\ FilesHold' /\ \A g \in Files : length'[g] = 0
  <1>1. HeadersFound /\ FileTypes
    BY DEF CommandsHold, FilesHold
  <1>2. HeadersFound'
    BY <1>1, DeallocateFinds
  <1>3. length' \in [Files -> Nat] /\ \A g \in Files : length'[g] = 0
    BY <1>1 DEF FileTypes
  <1>4. expect' = [g \in Files |-> expect'[g]]
        /\ \A g \in Files : DOMAIN expect'[g] = 0 .. length'[g] - 1
    <2>1. expect = [g \in Files |-> expect[g]]
          /\ \A g \in Files : DOMAIN expect[g] = 0 .. length[g] - 1
      BY <1>1 DEF FileTypes
    <2>2. expect'[f] = <<>> /\ \A g \in Files : g # f => expect'[g] = expect[g]
      BY <2>1
    <2>3. DOMAIN <<>> = 0 .. 0 - 1
      OBVIOUS
    <2>4. expect' = [g \in Files |-> expect'[g]]
      BY <2>1
    <2>5. QED
      BY <1>3, <2>1, <2>2, <2>3, <2>4
  <1>5. \A g \in Allocated' : 0 <= hdr'[g].numSectors * SectorSize
    <2>1. \A g \in Allocated' : hdr'[g].numSectors \in Nat
      BY <1>2, SizesFoundNext
    <2>2. SectorSize \in Nat
      BY OpenFileAssumption
    <2>3. QED
      BY <2>1, <2>2
  <1>6. FileTypes'
    BY <1>1, <1>3, <1>4, <1>5 DEF FileTypes
  <1>7. NoCalls'
    BY DEF NoCalls, InCall
  <1>8. FilesHold'
    <2>1. FileTypes' /\ NoCalls' /\ Empty' => FilesHold'
      BY EmptyHolds, PTL
    <2>2. QED
      BY <1>3, <1>6, <1>7, <2>1 DEF Empty
  <1>9. QED
    BY <1>2, <1>3, <1>8

LEMMA HeadersKept ==
  ASSUME HeadersFound, UNCHANGED headerVars
  PROVE  HeadersFound'
  <1>1. aborted \in BOOLEAN
    BY DEF HeadersFound, HeadersBy
  <1>2. QED
    BY <1>1, HeadersStay DEF headerVars

LEMMA HeaderStepHolds ==
  ASSUME CommandsHold, HeaderStep
  PROVE  CommandsHold'
  <1>1. HeadersFound /\ FileTypes /\ FilesHold /\ JobHolds
    BY DEF CommandsHold, FilesHold
  <1>2. job = "none" /\ HeaderNext /\ UNCHANGED <<ioVars, commandVars>>
    BY DEF HeaderStep
  <1>3. UNCHANGED <<length, data, opened, seekPosition, call, todo, buf, result, expect, raced>>
        /\ UNCHANGED <<job, unixLength, transferred, screen>>
    BY <1>2 DEF ioVars, commandVars
  <1>4. HeadersFound'
    BY <1>1, <1>2, HeaderSteps
  <1>5. \A f \in Files : length[f] = 0
    BY <1>1, <1>2 DEF JobHolds, Copying
  <1>6. NoCalls
    BY <1>1, <1>2, QuietCalls DEF Quiet
  <1>7. \A g \in Allocated' : 0 <= hdr'[g].numSectors * SectorSize
    <2>1. \A g \in Allocated' : hdr'[g].numSectors \in Nat
      BY <1>4, SizesFoundNext
    <2>2. SectorSize \in Nat
      BY OpenFileAssumption
    <2>3. QED
      BY <2>1, <2>2
  <1>8. FileTypes'
    BY <1>1, <1>3, <1>5, <1>7 DEF FileTypes
  <1>9. NoCalls' /\ Empty'
    BY <1>3, <1>5, <1>6 DEF NoCalls, InCall, Empty
  <1>10. FilesHold'
    BY <1>8, <1>9, EmptyHolds, PTL
  <1>11. JobHolds'
    BY <1>1, <1>3, <1>9 DEF JobHolds, NoCalls
  <1>12. QED
    BY <1>4, <1>10, <1>11 DEF CommandsHold

LEMMA CopyStartHolds ==
  ASSUME CommandsHold, CopyStart
  PROVE  CommandsHold'
  <1>1. HeadersFound /\ FilesHold /\ JobHolds
    BY DEF CommandsHold
  <1>2. PICK n \in UnixLengths :
           /\ Formatted
           /\ unixLength' = n
           /\ \/ /\ CreateFile(CopyFile, n)
                 /\ OpenAs(main, CopyFile)
                 /\ job' = "copy"
                 /\ UNCHANGED <<data, call, todo, buf, result, raced>>
              \/ /\ job' = "done"
                 /\ UNCHANGED <<headerVars, ioVars>>
           /\ UNCHANGED <<transferred, screen>>
    BY DEF CopyStart
  <1>3. n \in Nat /\ CopyFile \in Files
    BY CommandsAssumption
  <1>4. job = "none" /\ transferred = 0 /\ raced = {}
    BY <1>1, <1>2 DEF Formatted, JobHolds
  <1>5. NoCalls
    BY <1>1, <1>4, QuietCalls DEF Quiet
  <1>6. CASE /\ CreateFile(CopyFile, n)
             /\ OpenAs(main, CopyFile)
             /\ job' = "copy"
             /\ UNCHANGED <<data, call, todo, buf, result, raced>>
    <2>1. /\ HeadersFound' /\ FilesHold'
          /\ \A g \in Files : length'[g] # 0 => g = CopyFile /\ length'[g] = n
      BY <1>3, <1>4, <1>6, CreateKeeps
    <2>2. JobHolds'
      BY <1>2, <1>3, <1>4, <1>5, <1>6, <2>1 DEF JobHolds, NoCalls, InCall, Copying
    <2>3. QED
      BY <2>1, <2>2 DEF CommandsHold
  <1>7. CASE job' = "done" /\ UNCHANGED <<headerVars, ioVars>>
    <2>1. HeadersFound'
      BY <1>1, <1>7, HeadersKept
    <2>2. FilesHold'
      <3>1. FileTypes
        BY <1>1 DEF FilesHold
      <3>2. QED
        BY <1>1, <1>7, <3>1, FilesStay DEF headerVars, ioVars, FileTypes
    <2>3. JobHolds'
      <3>1. \A f \in Files : length[f] = 0
        BY <1>1, <1>4 DEF JobHolds, Copying
      <3>2. QED
        BY <1>2, <1>3, <1>4, <1>5, <1>7, <3>1 DEF JobHolds, NoCalls, InCall, ioVars
    <2>4. QED
      BY <2>1, <2>2, <2>3 DEF CommandsHold
  <1>8. QED
    BY <1>2, <1>6, <1>7

LEMMA PerfStartHolds ==
  ASSUME CommandsHold, PerfStart
  PROVE  CommandsHold'
  <1>1. HeadersFound /\ FilesHold /\ JobHolds
    BY DEF CommandsHold
  <1>2. /\ Formatted /\ CreateFile(TestFile, 0) /\ OpenAs(main, TestFile) /\ job' = "perf"
        /\ UNCHANGED <<data, call, todo, buf, result, raced, unixLength, transferred, screen>>
    BY DEF PerfStart
  <1>3. TestFile \in Files
    BY CommandsAssumption
  <1>4. job = "none" /\ raced = {}
    BY <1>1, <1>2 DEF Formatted, JobHolds
  <1>5. NoCalls
    BY <1>1, <1>4, QuietCalls DEF Quiet
  <1>6. HeadersFound' /\ FilesHold' /\ \A g \in Files : length'[g] = 0
    BY <1>2, <1>3, <1>4, CreateKeeps
  <1>7. JobHolds'
    BY <1>1, <1>2, <1>4, <1>5, <1>6 DEF JobHolds, NoCalls, InCall
  <1>8. QED
    BY <1>6, <1>7 DEF CommandsHold

\* a step that ends a command and removes its file
LEMMA RemoveHolds ==
  ASSUME CommandsHold, NoCalls, job # "share", NEW f \in Files, RemoveFile(f),
         job \in Copying => f = CopyFile
  PROVE  CommandsHold'
  <1>1. JobHolds
    BY DEF CommandsHold
  <1>2. /\ Deallocate(f)
        /\ length' = [length EXCEPT ![f] = 0]
        /\ expect' = [expect EXCEPT ![f] = <<>>]
        /\ job' = "done"
        /\ UNCHANGED <<data, opened, seekPosition, call, todo, buf, result, raced,
                       unixLength, transferred, screen>>
    BY DEF RemoveFile
  <1>3. \A g \in Files : g # f => length[g] = 0
    BY <1>1 DEF JobHolds
  <1>4. HeadersFound' /\ FilesHold' /\ \A g \in Files : length'[g] = 0
    BY <1>2, <1>3, RemoveKeeps
  <1>5. JobHolds'
    BY <1>1, <1>2, <1>4 DEF JobHolds, NoCalls, InCall
  <1>6. QED
    BY <1>4, <1>5 DEF CommandsHold

\* a call that main begins
LEMMA MainBegins ==
  ASSUME CommandsHold, job # "share", NEW kind \in {"read", "write"}, NEW numBytes \in Nat,
         NEW bytes \in Seq(Int), Begin(main, kind, numBytes, bytes),
         UNCHANGED <<headerVars, unixLength>>,
         transferred' \in 0 .. unixLength, job' \notin Quiet, job' # "none",
         job \in Copying => job' \in Copying \ {"share"}
  PROVE  CommandsHold'
  <1>1. HeadersFound /\ FilesHold /\ JobHolds
    BY DEF CommandsHold
  <1>2. main \in Openers
    BY CommandsAssumption
  <1>3. HeadersFound' /\ FilesHold'
    <2>1. HeadersInv
      BY <1>1, FoundHeaders
    <2>2. HeadersFound'
      BY <1>1, HeadersKept
    <2>3. FilesHold'
      BY <1>1, <1>2, <2>1, BeginKeeps
    <2>4. QED
      BY <2>2, <2>3
  <1>4. PICK c \in Calls : Begun(main, c, kind, numBytes, bytes)
    BY <1>1, <1>2, BeginCall
  <1>5. call' = [call EXCEPT ![main] = c] /\ raced' = raced \cup Races(main, c)
    BY <1>4 DEF Begun
  <1>6. UNCHANGED <<length, data>>
    BY DEF Begin
  <1>7. \A u \in Openers : InCall(u)' => u = main
    <2>1. call \in [Openers -> Calls \cup {NoCall}]
      BY <1>1 DEF FilesHold, FileTypes
    <2>2. \A u \in Openers : u # main => call'[u] = call[u]
      BY <1>5, <2>1
    <2>3. QED
      BY <1>1, <2>2 DEF JobHolds, InCall
  <1>8. raced' = {}
    <2>1. \A u \in Openers \ {main} : call[u] = NoCall
      BY <1>1 DEF JobHolds, InCall
    <2>2. Races(main, c) = {}
      BY <2>1 DEF Races
    <2>3. raced = {}
      BY <1>1 DEF JobHolds
    <2>4. QED
      BY <1>5, <2>2, <2>3
  <1>9. JobHolds'
    BY <1>1, <1>6, <1>7, <1>8 DEF JobHolds
  <1>10. QED
    BY <1>3, <1>9 DEF CommandsHold

\* a step between calls, that may open files and seek
LEMMA BetweenCalls ==
  ASSUME CommandsHold,
         UNCHANGED <<headerVars, length, data, call, todo, buf, expect, raced>>,
         UNCHANGED <<unixLength, transferred>>,
         opened' \in [Openers -> Files \cup {NoFile}], seekPosition' \in [Openers -> Nat],
         result' = [t \in Openers |-> result'[t]],
         \A t \in Openers : InCall(t) => opened'[t] = opened[t],
         job # "none", job' # "none", job \in Copying => job' \in Copying,
         NoCalls \/ job' = job, job = "share" => job' = "share"
  PROVE  CommandsHold'
  <1>1. HeadersFound /\ FilesHold /\ JobHolds
    BY DEF CommandsHold
  <1>2. HeadersFound'
    BY <1>1, HeadersKept
  <1>3. FilesHold'
    BY <1>1, FilesStay DEF headerVars
  <1>4. JobHolds'
    BY <1>1 DEF JobHolds, InCall, NoCalls
  <1>5. QED
    BY <1>2, <1>3, <1>4 DEF CommandsHold

LEMMA CallStepHolds ==
  ASSUME CommandsHold, NEW t \in Openers, CallStep(t)
  PROVE  CommandsHold'
  <1>1. HeadersFound /\ FilesHold /\ JobHolds /\ HeadersInv
    BY FoundHeaders DEF CommandsHold
  <1>2. /\ ReadSector(t) \/ WriteSector(t) \/ Return(t)
        /\ UNCHANGED <<job, unixLength, transferred, screen>>
    BY DEF CallStep, commandVars
  <1>3. FilesHold'
    BY <1>1, <1>2, ReadKeeps, WriteKeeps, ReturnKeeps
  <1>4. CASE Failed
    <2>1. HeadersFound'
      BY <1>1, <1>4, HeadersStay DEF Failed
    <2>2. JobHolds'
      BY <1>1, <1>2, <1>4 DEF Failed, ioVars, JobHolds, InCall
    <2>3. QED
      BY <1>3, <2>1, <2>2 DEF CommandsHold
  <1>5. CASE ~ Failed
    <2>1. UNCHANGED <<headerVars, length, raced>>
      BY <1>2, <1>5 DEF ReadSector, WriteSector, Return
    <2>2. \A u \in Openers : InCall(u)' => InCall(u)
      <3>1. CASE UNCHANGED call
        BY <3>1 DEF InCall
      <3>2. CASE Return(t)
        <4>1. call' = [call EXCEPT ![t] = NoCall] /\ call \in [Openers -> Calls \cup {NoCall}]
          BY <1>1, <3>2 DEF Return, FilesHold, FileTypes
        <4>2. QED
          BY <4>1 DEF InCall
      <3>3. UNCHANGED call \/ Return(t)
        BY <1>2, <1>5 DEF ReadSector, WriteSector
      <3>4. QED
        BY <3>1, <3>2, <3>3
    <2>3. job # "none"
      <3>1. InCall(t)
        <4>1. todo[t] # <<>> \/ call[t] # NoCall
          BY <1>2 DEF ReadSector, WriteSector, Return
        <4>2. QED
          BY <1>1, <4>1 DEF FilesHold, CallsFit, InCall
      <3>2. QED
        BY <1>1, <3>1 DEF JobHolds, Quiet
    <2>4. HeadersFound'
      BY <1>1, <2>1, HeadersKept
    <2>5. JobHolds'
      BY <1>1, <1>2, <2>1, <2>2, <2>3 DEF JobHolds
    <2>6. QED
      BY <1>3, <2>4, <2>5 DEF CommandsHold
  <1>6. QED
    BY <1>4, <1>5

\* a chunk of the UNIX file
LEMMA ChunkFacts ==
  ASSUME unixLength \in Nat, transferred \in 0 .. unixLength,
         NEW n, n = Min({TransferSize, unixLength - transferred}), n > 0
  PROVE  LET chunk == SubSeq(UnixFile, transferred + 1, transferred + n) IN
         /\ n \in Nat /\ transferred + n \in 0 .. unixLength
         /\ chunk \in Seq(Int) /\ Len(chunk) = n
         /\ \A k \in 1 .. n : chunk[k] = transferred + k
  <1> DEFINE L == unixLength
             p == transferred
             d == L - p
             chunk == SubSeq(UnixFile, p + 1, p + n)
  <1>1. L \in Nat /\ p \in 0 .. L /\ d \in Nat
    OBVIOUS
  <1>2. n \in Nat /\ n <= d
    <2>1. TransferSize \in Nat
      BY CommandsAssumption
    <2> HIDE DEF d
    <2>2. Min({TransferSize, d}) = IF TransferSize <= d THEN TransferSize ELSE d
      BY <1>1, <2>1, LeastOfTwo
    <2>3. n = IF TransferSize <= d THEN TransferSize ELSE d
      BY <2>2 DEF d
    <2>4. QED
      BY <1>1, <2>1, <2>3
  <1>3. p + n \in 0 .. L /\ p + 1 \in 1 .. L + 1 /\ p + n \in (p + 1) - 1 .. L
        /\ (p + n) - (p + 1) + 1 = n
    BY <1>1, <1>2
  <1>4. UnixFile \in Seq(Int) /\ Len(UnixFile) = L /\ \A i \in 1 .. L : UnixFile[i] = i
    BY <1>1 DEF UnixFile
  <1> HIDE DEF L, p, d
  <1>5. p \in Nat /\ n \in Nat
    BY <1>1, <1>2
  <1>6. \A k \in 1 .. n : p + k \in 1 .. L
    BY <1>1, <1>2, <1>3
  <1>7. \A k \in 1 .. n : UnixFile[p + k] = p + k /\ UnixFile[p + k] \in Int
    <2> TAKE k \in 1 .. n
    <2> DEFINE i == p + k
    <2>1. i \in 1 .. L /\ i \in Int
      BY <1>1, <1>5, <1>6
    <2> HIDE DEF i
    <2>2. UnixFile[i] = i
      BY <1>4, <2>1
    <2>3. QED
      BY <2>1, <2>2 DEF i
  <1>8. IsPiece(chunk, UnixFile, p, n, Int)
    <2>1. \A k \in 1 .. n : UnixFile[p + k] \in Int
      BY <1>7
    <2>2. QED
      BY <1>5, <2>1, PieceIsSeq, Zenon
  <1> HIDE DEF chunk
  <1>9. chunk \in Seq(Int) /\ Len(chunk) = n /\ \A k \in 1 .. n : chunk[k] = p + k
    BY <1>7, <1>8 DEF IsPiece
  <1>10. QED
    BY <1>2, <1>3, <1>9 DEF L, p, chunk

LEMMA CopyChunkHolds ==
  ASSUME CommandsHold, CopyChunk
  PROVE  CommandsHold'
  <1>1. JobHolds
    BY DEF CommandsHold
  <1> PICK n : n = Min({TransferSize, unixLength - transferred})
    OBVIOUS
  <1> PICK bytes : bytes = SubSeq(UnixFile, transferred + 1, transferred + n)
    OBVIOUS
  <1>2. /\ job = "copy" /\ n > 0 /\ Write(main, bytes)
        /\ transferred' = transferred + n
        /\ UNCHANGED <<headerVars, job, unixLength, screen>>
    BY DEF CopyChunk
  <1>3. unixLength \in Nat /\ transferred \in 0 .. unixLength
    BY <1>1 DEF JobHolds
  <1>4. n \in Nat /\ transferred + n \in 0 .. unixLength /\ bytes \in Seq(Int) /\ Len(bytes) = n
    BY <1>2, <1>3, ChunkFacts
  <1>5. Begin(main, "write", n, bytes)
    BY <1>2, <1>4 DEF Write
  <1>6. job \in Copying \ {"share"} /\ job \notin Quiet /\ job # "none" /\ job # "share"
    BY <1>2 DEF Copying, Quiet
  <1>7. transferred' \in 0 .. unixLength /\ UNCHANGED <<headerVars, unixLength>> /\ job' = job
    BY <1>2, <1>4
  <1>8. QED
    BY <1>4, <1>5, <1>6, <1>7, MainBegins

\* PrintRead, FileWrite and FileRead
LEMMA MainCalls ==
  ASSUME CommandsHold, PrintRead \/ FileWrite \/ FileRead
  PROVE  CommandsHold'
  <1>1. JobHolds
    BY DEF CommandsHold
  <1>2. <<>> \in Seq(Int) /\ TransferSize \in Nat /\ ContentSize \in Nat
    BY CommandsAssumption
  <1>3. CASE PrintRead
    <2>1. /\ job = "print" /\ Begin(main, "read", TransferSize, <<>>) /\ job' = "print chunk"
          /\ UNCHANGED <<headerVars, unixLength, transferred>>
      BY <1>3 DEF PrintRead, Read
    <2>2. transferred' \in 0 .. unixLength /\ job # "share" /\ job' \notin Quiet
          /\ job' # "none" /\ job' \in Copying \ {"share"}
      BY <1>1, <2>1 DEF JobHolds, Quiet, Copying
    <2>3. QED
      BY <1>2, <2>1, <2>2, MainBegins
  <1>4. CASE FileWrite
    <2> PICK bytes : bytes = [i \in 1 .. ContentSize |-> i]
      OBVIOUS
    <2>1. bytes \in Seq(Int) /\ Len(bytes) = ContentSize
      BY <1>2
    <2>2. /\ job = "perf" /\ Begin(main, "write", ContentSize, bytes) /\ job' = "perf written"
          /\ UNCHANGED <<headerVars, unixLength, transferred>>
      BY <1>4, <2>1 DEF FileWrite, Write
    <2>3. transferred' \in 0 .. unixLength /\ job # "share" /\ job' \notin Quiet
          /\ job' # "none" /\ job \notin Copying
      BY <1>1, <2>2 DEF JobHolds, Quiet, Copying
    <2>4. QED
      BY <1>2, <2>1, <2>2, <2>3, MainBegins
  <1>5. CASE FileRead
    <2>1. /\ job = "perf written" /\ Begin(main, "read", ContentSize, <<>>) /\ job' = "perf read"
          /\ UNCHANGED <<headerVars, unixLength, transferred>>
      BY <1>5 DEF FileRead, Read
    <2>2. transferred' \in 0 .. unixLength /\ job # "share" /\ job' \notin Quiet
          /\ job' # "none" /\ job \notin Copying
      BY <1>1, <2>1 DEF JobHolds, Quiet, Copying
    <2>3. QED
      BY <1>2, <2>1, <2>2, MainBegins
  <1>6. QED
    BY <1>3, <1>4, <1>5

\* CopyEnd, PrintStart, PrintChunk, ShareStart and ShareSeek
LEMMA BetweenHolds ==
  ASSUME CommandsHold,
         \/ CopyEnd \/ PrintStart \/ PrintChunk \/ ShareStart
         \/ \E t \in Sharers : ShareSeek(t)
  PROVE  CommandsHold'
  <1>1. FileTypes /\ FilesHold /\ JobHolds
    BY DEF CommandsHold, FilesHold
  <1>2. /\ opened \in [Openers -> Files \cup {NoFile}] /\ seekPosition \in [Openers -> Nat]
        /\ result = [t \in Openers |-> result[t]]
    BY <1>1 DEF FileTypes
  <1>3. main \in Openers /\ Sharers \in SUBSET Openers /\ CopyFile \in Files
    BY CommandsAssumption
  <1>4. CASE CopyEnd
    <2>1. /\ job = "copy" /\ call[main] = NoCall /\ job' = "copied"
          /\ opened' = [opened EXCEPT ![main] = NoFile]
          /\ UNCHANGED <<headerVars, length, data, seekPosition, call, todo, buf, result, expect,
                         raced, unixLength, transferred, screen>>
      BY <1>4 DEF CopyEnd
    <2>2. NoCalls
      BY <1>1, <2>1, QuietCalls DEF InCall
    <2>3. opened' \in [Openers -> Files \cup {NoFile}]
      BY <1>2, <2>1
    <2>4. \A t \in Openers : InCall(t) => opened'[t] = opened[t]
      BY <2>2 DEF NoCalls
    <2>5. QED
      BY <1>2, <2>1, <2>2, <2>3, <2>4, BetweenCalls DEF Copying
  <1>5. CASE PrintStart
    <2>1. /\ job = "copied" /\ job' = "print" /\ OpenAs(main, CopyFile)
          /\ result' = [result EXCEPT ![main] = NoBytes]
          /\ UNCHANGED <<headerVars, length, data, call, todo, buf, expect, raced,
                         unixLength, transferred, screen>>
      BY <1>5 DEF PrintStart
    <2>2. NoCalls
      BY <1>1, <2>1, QuietCalls DEF Quiet
    <2>3. /\ opened' \in [Openers -> Files \cup {NoFile}] /\ seekPosition' \in [Openers -> Nat]
          /\ result' = [t \in Openers |-> result'[t]]
      BY <1>2, <1>3, <2>1 DEF OpenAs
    <2>4. \A t \in Openers : InCall(t) => opened'[t] = opened[t]
      BY <2>2 DEF NoCalls
    <2>5. QED
      BY <2>1, <2>2, <2>3, <2>4, BetweenCalls DEF Copying
  <1>6. CASE PrintChunk
    <2>1. /\ job = "print chunk" /\ call[main] = NoCall
          /\ \/ job' = "print" /\ UNCHANGED opened
             \/ job' = "printed" /\ opened' = [opened EXCEPT ![main] = NoFile]
          /\ UNCHANGED <<headerVars, length, data, seekPosition, call, todo, buf, result, expect,
                         raced, unixLength, transferred>>
      BY <1>6 DEF PrintChunk
    <2>2. NoCalls
      BY <1>1, <2>1, QuietCalls DEF InCall
    <2>3. opened' \in [Openers -> Files \cup {NoFile}]
      BY <1>2, <2>1
    <2>4. \A t \in Openers : InCall(t) => opened'[t] = opened[t]
      BY <2>2 DEF NoCalls
    <2>5. QED
      BY <1>2, <2>1, <2>2, <2>3, <2>4, BetweenCalls DEF Copying
  <1>7. CASE ShareStart
    <2>1. /\ job \in {"copied", "printed"} /\ job' = "share"
          /\ opened' = [t \in Openers |-> IF t \in Sharers THEN CopyFile ELSE NoFile]
          /\ seekPosition' = [t \in Openers |-> 0]
          /\ UNCHANGED <<headerVars, length, data, call, todo, buf, result, expect, raced,
                         unixLength, transferred, screen>>
      BY <1>7 DEF ShareStart
    <2>2. NoCalls
      <3>1. CASE job = "copied"
        BY <1>1, <3>1, QuietCalls DEF Quiet
      <3>2. CASE job = "printed"
        BY <1>1, <3>2, QuietCalls DEF Quiet
      <3>3. QED
        BY <2>1, <3>1, <3>2
    <2>3. /\ opened' \in [Openers -> Files \cup {NoFile}] /\ seekPosition' \in [Openers -> Nat]
      BY <1>3, <2>1
    <2>4. \A t \in Openers : InCall(t) => opened'[t] = opened[t]
      BY <2>2 DEF NoCalls
    <2>5. job # "none" /\ job # "share" /\ job' # "none" /\ job' \in Copying
      BY <2>1 DEF Copying
    <2>6. QED
      BY <1>2, <2>1, <2>2, <2>3, <2>4, <2>5, BetweenCalls
  <1>8. CASE \E t \in Sharers : ShareSeek(t)
    <2>1. PICK t \in Sharers : ShareSeek(t)
      BY <1>8
    <2>2. PICK p \in 1 .. unixLength : job = "share" /\ Seek(t, p)
      BY <2>1 DEF ShareSeek
    <2>3. UNCHANGED <<headerVars, job, unixLength, transferred>>
      BY <2>1 DEF ShareSeek, commandVars
    <2>4. /\ seekPosition' = [seekPosition EXCEPT ![t] = p]
          /\ UNCHANGED <<length, data, opened, call, todo, buf, result, expect, raced>>
      BY <2>2 DEF Seek
    <2>5. p \in Nat
      BY <1>1, <2>2 DEF JobHolds
    <2>6. seekPosition' \in [Openers -> Nat]
      BY <1>2, <2>4, <2>5
    <2>7. QED
      BY <1>2, <2>2, <2>3, <2>4, <2>6, BetweenCalls DEF Copying
  <1>9. QED
    BY <1>4, <1>5, <1>6, <1>7, <1>8

LEMMA ShareCallHolds ==
  ASSUME CommandsHold, NEW t \in Sharers, ShareCall(t)
  PROVE  CommandsHold'
  <1>1. HeadersFound /\ FilesHold /\ JobHolds /\ HeadersInv
    BY FoundHeaders DEF CommandsHold
  <1>2. t \in Openers /\ Mark[t] \in Int
    BY CommandsAssumption
  <1>3. PICK n \in 1 .. unixLength : Read(t, n) \/ Write(t, [i \in 1 .. n |-> Mark[t]])
    BY DEF ShareCall
  <1>4. /\ job = "share" /\ UNCHANGED headerVars
        /\ UNCHANGED <<job, unixLength, transferred>>
    BY DEF ShareCall, commandVars
  <1>5. n \in Nat
    BY <1>1, <1>3 DEF JobHolds
  <1>6. \E kind \in {"read", "write"}, bytes \in Seq(Int) : Begin(t, kind, n, bytes)
    <2>1. CASE Read(t, n)
      <3>1. <<>> \in Seq(Int)
        OBVIOUS
      <3>2. QED
        BY <2>1, <3>1 DEF Read
    <2>2. CASE Write(t, [i \in 1 .. n |-> Mark[t]])
      <3> PICK bytes : bytes = [i \in 1 .. n |-> Mark[t]]
        OBVIOUS
      <3>1. bytes \in Seq(Int) /\ Len(bytes) = n
        BY <1>2, <1>5
      <3>2. Begin(t, "write", n, bytes)
        BY <2>2, <3>1 DEF Write
      <3>3. QED
        BY <3>1, <3>2
    <2>3. QED
      BY <1>3, <2>1, <2>2
  <1>7. PICK kind \in {"read", "write"}, bytes \in Seq(Int) : Begin(t, kind, n, bytes)
    BY <1>6
  <1>8. FilesHold'
    BY <1>1, <1>2, <1>4, <1>5, <1>7, BeginKeeps
  <1>9. HeadersFound'
    BY <1>1, <1>4, HeadersKept
  <1>10. UNCHANGED <<length, data>>
    BY <1>7 DEF Begin
  <1>11. JobHolds'
    BY <1>1, <1>4, <1>10 DEF JobHolds, Quiet
  <1>12. QED
    BY <1>8, <1>9, <1>11 DEF CommandsHold

LEMMA CommandsSteps == CommandsHold /\ [CommandsNext]_allVars => CommandsHold'
  <1> SUFFICES ASSUME CommandsHold, [CommandsNext]_allVars PROVE CommandsHold'
    OBVIOUS
  <1>1. HeadersFound /\ FileTypes /\ FilesHold /\ JobHolds
    BY DEF CommandsHold, FilesHold
  <1>2. CASE UNCHANGED allVars
    <2>1. UNCHANGED <<headerVars, ioVars, commandVars>>
      BY <1>2 DEF allVars
    <2>2. HeadersFound'
      BY <1>1, <2>1, HeadersKept
    <2>3. FilesHold'
      BY <1>1, <2>1, FilesStay DEF FileTypes, headerVars, ioVars
    <2>4. JobHolds'
      BY <1>1, <2>1 DEF JobHolds, InCall, ioVars, commandVars
    <2>5. QED
      BY <2>2, <2>3, <2>4 DEF CommandsHold
  <1>3. CASE RemoveCopy
    <2>1. job \in {"copied", "printed"} /\ RemoveFile(CopyFile)
      BY <1>3 DEF RemoveCopy
    <2>2. NoCalls
      <3>1. CASE job = "copied"
        BY <1>1, <3>1, QuietCalls DEF Quiet
      <3>2. CASE job = "printed"
        BY <1>1, <3>2, QuietCalls DEF Quiet
      <3>3. QED
        BY <2>1, <3>1, <3>2
    <2>3. CopyFile \in Files /\ job # "share"
      BY <2>1, CommandsAssumption
    <2>4. QED
      BY <2>1, <2>2, <2>3, RemoveHolds
  <1>4. CASE PerformanceTest
    <2>1. job = "perf read" /\ call[main] = NoCall /\ RemoveFile(TestFile)
      BY <1>4 DEF PerformanceTest
    <2>2. NoCalls
      BY <1>1, <2>1, QuietCalls DEF InCall
    <2>3. TestFile \in Files /\ job # "share" /\ job \notin Copying
      BY <2>1, CommandsAssumption DEF Copying
    <2>4. QED
      BY <2>1, <2>2, <2>3, RemoveHolds
  <1>5. CASE HeaderStep
    BY <1>5, HeaderStepHolds
  <1>6. CASE CopyStart \/ CopyChunk \/ PerfStart
    BY <1>6, CopyStartHolds, CopyChunkHolds, PerfStartHolds
  <1>7. CASE PrintRead \/ FileWrite \/ FileRead
    BY <1>7, MainCalls
  <1>8. CASE \/ CopyEnd \/ PrintStart \/ PrintChunk \/ ShareStart
             \/ \E t \in Sharers : ShareSeek(t)
    BY <1>8, BetweenHolds
  <1>9. CASE \E t \in Sharers : ShareCall(t)
    BY <1>9, ShareCallHolds
  <1>10. CASE \E t \in Openers : CallStep(t)
    BY <1>10, CallStepHolds
  <1>11. QED
    BY <1>2, <1>3, <1>4, <1>5, <1>6, <1>7, <1>8, <1>9, <1>10 DEF CommandsNext

LEMMA KeptBytes == CommandsHold => BytesKept
  <1> SUFFICES ASSUME CommandsHold PROVE BytesKept
    OBVIOUS
  <1>1. HeadersInv /\ FileTypes /\ CallsFit /\ DiskHolds /\ BufHolds
    BY FoundHeaders DEF CommandsHold, FilesHold
  <1>2. ASSUME NEW f \in Files, hdr[f] # NoHeader, NEW b \in Settled(f)
        PROVE  ByteAt(f, b) = expect[f][b]
    <2> DEFINE i == divRoundDown(b, SectorSize)
    <2>1. f \in Allocated
      BY <1>2 DEF Allocated
    <2>2. /\ b \in DOMAIN expect[f] /\ ByteToSector(hdr[f], i) # -1 /\ i \notin raced
          /\ \A t \in Openers : (call[t] # NoCall /\ opened[t] = f /\ call[t].kind = "write")
                                    => i \notin SectorsOf(call[t])
      BY <1>2 DEF Settled
    <2> HIDE DEF i
    <2>3. ByteHolds(f, b, i)
      BY <1>1, <2>1, <2>2 DEF DiskHolds, i
    <2>4. \A t \in Openers : ~ Writing(t, f, i)
      BY <2>2 DEF Writing, InCall
    <2>5. QED
      BY <2>3, <2>4 DEF ByteHolds
  <1>3. ASSUME NEW t \in Openers, call[t] # NoCall, call[t].kind = "read", todo[t] = <<>>,
               NEW b \in Span(call[t]) \cap Settled(opened[t])
        PROVE  buf[t][b] = expect[opened[t]][b]
    <2> DEFINE i == divRoundDown(b, SectorSize)
    <2>1. InCall(t) /\ call[t] \in Calls /\ opened[t] \in Files
      BY <1>1, <1>3 DEF InCall, FileTypes, CallsFit
    <2>2. b \in DOMAIN expect[opened[t]] /\ i \notin raced
      BY <1>3 DEF Settled
    <2>3. b \in Nat /\ b < length[opened[t]]
      <3>1. length[opened[t]] \in Nat /\ b \in 0 .. length[opened[t]] - 1
        BY <1>1, <2>1, <2>2 DEF FileTypes
      <3>2. QED
        BY <3>1
    <2>4. i \in SectorsOf(call[t])
      BY <1>3 DEF SectorsOf
    <2>5. b \in BytesOf(i)
      <3>1. i \in Nat
        BY <2>3, SectorOfByte
      <3>2. QED
        BY <2>3, <3>1, SectorOfByte
    <2>6. Access("read", i) \notin ToSet(todo[t])
      BY <1>3 DEF ToSet
    <2> HIDE DEF i
    <2>7. QED
      BY <1>1, <1>3, <2>1, <2>2, <2>3, <2>4, <2>5, <2>6 DEF BufHolds, BufAt
  <1>4. QED
    BY <1>2, <1>3 DEF BytesKept

\* The same under the commands: whatever files -cp, -p, -r and the performance test
\* make, print and remove, no sector is lost, marked twice or kept for two offsets.
THEOREM HeadersStayOneMap == CommandsSpec => []HeadersInv
  <1>1. CommandsHold => HeadersInv
    BY FoundHeaders DEF CommandsHold
  <1>2. QED
    BY <1>1, CommandsHoldInit, CommandsSteps, PTL DEF CommandsSpec

\* openfile.cc, ReadAt and WriteAt: for sectors and tiers of any size and calls of any
\* number of bytes at any position, what a call wrote is what the file holds when no
\* call is in progress, but for a sector that two calls used at the same time.
THEOREM BytesAreKept == CommandsSpec => []BytesKept
  BY CommandsHoldInit, CommandsSteps, KeptBytes, PTL DEF CommandsSpec

LEMMA PrintInit == CommandsInit => PrintHolds
  BY DEF CommandsInit, PrintHolds, PrintIsCopy

\* the other commands print nothing
LEMMA PrintsNothing ==
  ASSUME job' \in {"done", "perf", "perf written", "perf read", "share"}
  PROVE  PrintHolds'
  BY DEF PrintHolds, PrintIsCopy

LEMMA PrintStays ==
  ASSUME PrintHolds, UNCHANGED <<length, opened, seekPosition, call, result, expect>>,
         UNCHANGED <<job, unixLength, transferred, screen>>
  PROVE  PrintHolds'
  <1>1. InCall(main)' = InCall(main)
    BY DEF InCall
  <1>2. \A n : Copied(n)' = Copied(n)
    BY DEF Copied
  <1>3. UnixFile' = UnixFile
    BY DEF UnixFile
  <1>4. QED
    BY <1>1, <1>2, <1>3 DEF PrintHolds, PrintIsCopy

LEMMA CopyStartPrints ==
  ASSUME CommandsHold, PrintHolds, CopyStart
  PROVE  PrintHolds'
  <1>1. HeadersFound /\ FilesHold /\ FileTypes /\ JobHolds
    BY DEF CommandsHold, FilesHold
  <1>2. PICK n \in UnixLengths :
           /\ Formatted
           /\ unixLength' = n
           /\ \/ /\ CreateFile(CopyFile, n)
                 /\ OpenAs(main, CopyFile)
                 /\ job' = "copy"
                 /\ UNCHANGED <<data, call, todo, buf, result, raced>>
              \/ /\ job' = "done"
                 /\ UNCHANGED <<headerVars, ioVars>>
           /\ UNCHANGED <<transferred, screen>>
    BY DEF CopyStart
  <1>3. CASE job' = "done"
    BY <1>3, PrintsNothing
  <1>4. CASE /\ CreateFile(CopyFile, n)
             /\ OpenAs(main, CopyFile)
             /\ job' = "copy"
             /\ UNCHANGED <<data, call, todo, buf, result, raced>>
    <2>1. job = "none" /\ main \in Openers /\ CopyFile \in Files
      BY <1>2, CommandsAssumption DEF Formatted
    <2>2. NoCalls
      BY <1>1, <2>1, QuietCalls DEF Quiet
    <2>3. ~ InCall(main)'
      BY <1>4, <2>1, <2>2 DEF NoCalls, InCall
    <2>4. transferred' = 0 /\ screen' = <<>>
      BY <1>1, <1>2, <2>1 DEF JobHolds, PrintHolds
    <2>5. length'[CopyFile] = unixLength'
      BY <1>1, <1>2, <1>4, <2>1 DEF FileTypes, CreateFile
    <2>6. opened'[main] = CopyFile /\ seekPosition'[main] = 0
      BY <1>1, <1>4, <2>1 DEF FileTypes, OpenAs
    <2>7. Copied(seekPosition[main])'
      <3>1. 0 .. 0 - 1 = {}
        OBVIOUS
      <3>2. QED
        BY <2>6, <3>1 DEF Copied
    <2>8. QED
      BY <1>4, <2>3, <2>4, <2>5, <2>6, <2>7 DEF PrintHolds, PrintIsCopy
  <1>5. QED
    BY <1>2, <1>3, <1>4

LEMMA CopyChunkPrints ==
  ASSUME CommandsHold, PrintHolds, CopyChunk
  PROVE  PrintHolds'
  <1>1. FilesHold /\ FileTypes /\ JobHolds
    BY DEF CommandsHold, FilesHold
  <1> PICK n : n = Min({TransferSize, unixLength - transferred})
    OBVIOUS
  <1> PICK bytes : bytes = SubSeq(UnixFile, transferred + 1, transferred + n)
    OBVIOUS
  <1>2. /\ job = "copy" /\ n > 0 /\ Write(main, bytes)
        /\ transferred' = transferred + n
        /\ UNCHANGED <<headerVars, job, unixLength, screen>>
    BY DEF CopyChunk
  <1>3. unixLength \in Nat /\ transferred \in 0 .. unixLength
    BY <1>1 DEF JobHolds
  <1>4. /\ n \in Nat /\ transferred + n \in 0 .. unixLength /\ bytes \in Seq(Int) /\ Len(bytes) = n
        /\ \A k \in 1 .. n : bytes[k] = transferred + k
    BY <1>2, <1>3, ChunkFacts
  <1>5. Begin(main, "write", n, bytes)
    BY <1>2, <1>4 DEF Write
  <1>6. main \in Openers
    BY CommandsAssumption
  <1>7. /\ ~ InCall(main)
        /\ UNCHANGED <<length, data, opened, seekPosition, result, expect>>
        /\ \E c \in Calls : Begun(main, c, "write", n, bytes)
    BY <1>1, <1>4, <1>5, <1>6, BeginCall
  <1>8. PICK c \in Calls : Begun(main, c, "write", n, bytes)
    BY <1>7
  <1>9. /\ length[CopyFile] = unixLength /\ screen = <<>> /\ opened[main] = CopyFile
        /\ Copied(seekPosition[main]) /\ seekPosition[main] = transferred
    BY <1>2, <1>7 DEF PrintHolds
  <1>10. c.amount = n
    <2>1. /\ transferred < unixLength =>
               c.amount = IF n <= unixLength - transferred THEN n ELSE unixLength - transferred
      BY <1>8, <1>9 DEF Begun
    <2>2. transferred < unixLength /\ n <= unixLength - transferred
      BY <1>2, <1>3, <1>4
    <2>3. QED
      BY <2>1, <2>2
  <1>11. /\ call' = [call EXCEPT ![main] = c]
         /\ c.kind = "write" /\ c.position = transferred /\ c.from = bytes
    BY <1>8, <1>9 DEF Begun
  <1>12. call'[main] = c
    BY <1>1, <1>6, <1>11 DEF FileTypes
  <1>13. InCall(main)'
    <2>1. c # NoCall
      BY OpenFileAssumption DEF Calls
    <2>2. QED
      BY <1>12, <2>1 DEF InCall
  <1>14. Copied(seekPosition[main])'
    BY <1>7, <1>9 DEF Copied
  <1>15. /\ length'[CopyFile] = unixLength' /\ screen' = <<>> /\ opened'[main] = CopyFile
         /\ call'[main].kind = "write" /\ call'[main].position = seekPosition'[main]
         /\ call'[main].position + call'[main].amount = transferred'
         /\ \A k \in 1 .. call'[main].amount : call'[main].from[k] = call'[main].position + k
    BY <1>2, <1>4, <1>7, <1>9, <1>10, <1>11, <1>12
  <1>16. QED
    BY <1>2, <1>13, <1>14, <1>15 DEF PrintHolds, PrintIsCopy

LEMMA CopyEndPrints ==
  ASSUME CommandsHold, PrintHolds, CopyEnd
  PROVE  PrintHolds'
  <1>1. /\ job = "copy" /\ call[main] = NoCall /\ transferred = unixLength /\ job' = "copied"
        /\ UNCHANGED <<length, expect, unixLength, screen>>
    BY DEF CopyEnd
  <1>2. length[CopyFile] = unixLength /\ screen = <<>> /\ Copied(unixLength)
    BY <1>1 DEF PrintHolds, InCall
  <1>3. Copied(unixLength)'
    BY <1>1, <1>2 DEF Copied
  <1>4. QED
    BY <1>1, <1>2, <1>3 DEF PrintHolds, PrintIsCopy

LEMMA PrintStartPrints ==
  ASSUME CommandsHold, PrintHolds, PrintStart
  PROVE  PrintHolds'
  <1>1. FileTypes /\ JobHolds
    BY DEF CommandsHold, FilesHold
  <1>2. /\ job = "copied" /\ job' = "print" /\ OpenAs(main, CopyFile)
        /\ UNCHANGED <<length, expect, unixLength, screen>>
    BY DEF PrintStart
  <1>3. main \in Openers
    BY CommandsAssumption
  <1>4. opened'[main] = CopyFile /\ seekPosition'[main] = 0
    BY <1>1, <1>2, <1>3 DEF FileTypes, OpenAs
  <1>5. length[CopyFile] = unixLength /\ screen = <<>> /\ Copied(unixLength)
    BY <1>2 DEF PrintHolds
  <1>6. Copied(unixLength)'
    BY <1>2, <1>5 DEF Copied
  <1>7. screen' = [k \in 1 .. Len(screen') |-> k] /\ Len(screen') = 0
    BY <1>2, <1>5
  <1>8. 0 \in 0 .. unixLength'
    BY <1>1, <1>2 DEF JobHolds
  <1>9. QED
    BY <1>2, <1>4, <1>5, <1>6, <1>7, <1>8 DEF PrintHolds, PrintIsCopy

LEMMA PrintReadPrints ==
  ASSUME CommandsHold, PrintHolds, PrintRead
  PROVE  PrintHolds'
  <1>1. FilesHold /\ FileTypes /\ JobHolds
    BY DEF CommandsHold, FilesHold
  <1>2. /\ job = "print" /\ Begin(main, "read", TransferSize, <<>>) /\ job' = "print chunk"
        /\ UNCHANGED <<unixLength, transferred, screen>>
    BY DEF PrintRead, Read
  <1>3. main \in Openers /\ TransferSize \in Nat \ {0} /\ <<>> \in Seq(Int)
    BY CommandsAssumption
  <1>4. /\ UNCHANGED <<length, data, opened, seekPosition, result, expect>>
        /\ \E c \in Calls : Begun(main, c, "read", TransferSize, <<>>)
    BY <1>1, <1>2, <1>3, BeginCall
  <1>5. PICK c \in Calls : Begun(main, c, "read", TransferSize, <<>>)
    BY <1>4
  <1>6. /\ length[CopyFile] = unixLength /\ opened[main] = CopyFile
        /\ Copied(unixLength) /\ seekPosition[main] = Len(screen)
        /\ screen = [k \in 1 .. Len(screen) |-> k] /\ Len(screen) \in 0 .. unixLength
    BY <1>2 DEF PrintHolds
  <1>7. /\ call' = [call EXCEPT ![main] = c]
        /\ c.kind = "read" /\ c.position = Len(screen)
        /\ Len(screen) < unixLength =>
              c.amount = IF TransferSize <= unixLength - Len(screen)
                         THEN TransferSize ELSE unixLength - Len(screen)
    BY <1>5, <1>6 DEF Begun
  <1>8. call'[main] = c
    BY <1>1, <1>3, <1>7 DEF FileTypes
  <1>9. InCall(main)'
    <2>1. c # NoCall
      BY OpenFileAssumption DEF Calls
    <2>2. QED
      BY <1>8, <2>1 DEF InCall
  <1>10. c.amount = 0 => Len(screen) = unixLength
    <2>1. unixLength \in Nat
      BY <1>1 DEF JobHolds
    <2> PICK m : m = Len(screen)
      OBVIOUS
    <2>2. m \in 0 .. unixLength
      BY <1>6
    <2>3. m < unixLength =>
            c.amount = IF TransferSize <= unixLength - m THEN TransferSize ELSE unixLength - m
      BY <1>7
    <2>4. c.amount = 0 => m = unixLength
      BY <1>3, <2>1, <2>2, <2>3
    <2>5. QED
      BY <2>4
  <1>11. Copied(unixLength)'
    BY <1>2, <1>4, <1>6 DEF Copied
  <1>12. /\ length'[CopyFile] = unixLength' /\ opened'[main] = CopyFile
         /\ screen' = [k \in 1 .. Len(screen') |-> k] /\ Len(screen') \in 0 .. unixLength'
         /\ call'[main].kind = "read" /\ call'[main].position = seekPosition'[main]
         /\ seekPosition'[main] = Len(screen')
         /\ call'[main].amount = 0 => Len(screen') = unixLength'
    BY <1>2, <1>4, <1>6, <1>7, <1>8, <1>10
  <1>13. QED
    BY <1>2, <1>9, <1>11, <1>12 DEF PrintHolds, PrintIsCopy

\* what is printed so far, and the next chunk
LEMMA NextPrinted ==
  ASSUME NEW s, NEW m \in Nat, s = [k \in 1 .. m |-> k], NEW n \in Nat,
         NEW r, r = [k \in 1 .. n |-> m + k]
  PROVE  s \o r = [k \in 1 .. m + n |-> k] /\ Len(s \o r) = m + n
  <1>1. s \in Seq(Nat) /\ Len(s) = m /\ \A k \in 1 .. m : s[k] = k
    OBVIOUS
  <1>2. r \in Seq(Nat) /\ Len(r) = n /\ \A k \in 1 .. n : r[k] = m + k
    OBVIOUS
  <1> DEFINE q == s \o r
             e == [k \in 1 .. m + n |-> k]
  <1>3. q \in Seq(Nat) /\ Len(q) = m + n
        /\ \A i \in 1 .. m + n : q[i] = IF i <= m THEN s[i] ELSE r[i - m]
    BY <1>1, <1>2, ConcatProperties
  <1>4. e \in Seq(Nat) /\ Len(e) = m + n /\ \A i \in 1 .. m + n : e[i] = i
    OBVIOUS
  <1> HIDE DEF q, e
  <1>5. \A i \in 1 .. m + n : q[i] = i
    <2> TAKE i \in 1 .. m + n
    <2>1. CASE i <= m
      <3>1. i \in 1 .. m
        BY <2>1
      <3>2. QED
        BY <1>1, <1>3, <2>1, <3>1
    <2>2. CASE ~ i <= m
      <3>1. i - m \in 1 .. n /\ m + (i - m) = i
        BY <2>2
      <3>2. QED
        BY <1>2, <1>3, <2>2, <3>1
    <2>3. QED
      BY <2>1, <2>2
  <1>6. q = e
    BY <1>3, <1>4, <1>5, SeqEqual
  <1>7. QED
    BY <1>3, <1>6 DEF q, e

LEMMA PrintChunkPrints ==
  ASSUME CommandsHold, PrintHolds, PrintChunk
  PROVE  PrintHolds'
  <1>1. FileTypes /\ JobHolds
    BY DEF CommandsHold, FilesHold
  <1> PICK m : m = Len(screen)
    OBVIOUS
  <1> PICK r : r = result[main]
    OBVIOUS
  <1>2. /\ job = "print chunk" /\ ~ InCall(main)
        /\ screen' = screen \o r.bytes
        /\ \/ r.amount > 0 /\ job' = "print" /\ UNCHANGED opened
           \/ r.amount <= 0 /\ job' = "printed"
        /\ UNCHANGED <<length, seekPosition, expect, unixLength, transferred>>
    BY DEF PrintChunk, InCall
  <1>3. /\ length[CopyFile] = unixLength /\ opened[main] = CopyFile
        /\ Copied(unixLength)
        /\ screen = [k \in 1 .. m |-> k] /\ m \in 0 .. unixLength
        /\ r.amount \in Nat /\ seekPosition[main] = m + r.amount /\ seekPosition[main] <= unixLength
        /\ r.bytes = [k \in 1 .. r.amount |-> m + k]
        /\ r.amount = 0 => m = unixLength
    BY <1>2 DEF PrintHolds
  <1>4. m \in Nat /\ unixLength \in Nat
    BY <1>1, <1>3 DEF JobHolds
  <1>5. screen' = [k \in 1 .. m + r.amount |-> k] /\ Len(screen') = m + r.amount
    <2> PICK n, next : n = r.amount /\ next = r.bytes
      OBVIOUS
    <2>1. n \in Nat /\ next = [k \in 1 .. n |-> m + k]
      BY <1>3
    <2>2. screen = [k \in 1 .. m |-> k] /\ m \in Nat
      BY <1>3, <1>4
    <2>3. screen \o next = [k \in 1 .. m + n |-> k] /\ Len(screen \o next) = m + n
      BY <2>1, <2>2, NextPrinted
    <2>4. QED
      BY <1>2, <2>3
  <1>6. CASE r.amount > 0 /\ job' = "print" /\ UNCHANGED opened
    <2>1. Copied(unixLength)'
      BY <1>2, <1>3 DEF Copied
    <2>2. /\ length'[CopyFile] = unixLength' /\ opened'[main] = CopyFile
          /\ screen' = [k \in 1 .. Len(screen') |-> k]
          /\ seekPosition'[main] = Len(screen')
      <3>1. length'[CopyFile] = unixLength' /\ opened'[main] = CopyFile
        BY <1>2, <1>3, <1>6
      <3>2. seekPosition'[main] = m + r.amount
        BY <1>2, <1>3
      <3>3. screen' = [k \in 1 .. Len(screen') |-> k]
        BY <1>5
      <3>4. QED
        BY <1>5, <3>1, <3>2, <3>3
    <2>3. Len(screen') \in 0 .. unixLength'
      <3>1. r.amount \in Nat /\ m + r.amount <= unixLength /\ unixLength' = unixLength
        BY <1>2, <1>3
      <3>2. m + r.amount \in 0 .. unixLength
        BY <1>4, <3>1
      <3>3. QED
        BY <1>5, <3>1, <3>2
    <2>4. QED
      BY <1>6, <2>1, <2>2, <2>3 DEF PrintHolds, PrintIsCopy
  <1>7. CASE r.amount <= 0 /\ job' = "printed"
    <2>1. r.amount = 0 /\ m + r.amount = unixLength
      BY <1>3, <1>4, <1>7
    <2>2. screen' = UnixFile'
      BY <1>2, <1>5, <2>1 DEF UnixFile
    <2>3. QED
      BY <1>7, <2>2 DEF PrintHolds, PrintIsCopy
  <1>8. QED
    BY <1>2, <1>6, <1>7

\* while -cp writes or -p reads
Chunked == {"copy", "print chunk"}

LEMMA ReturnPrints ==
  ASSUME CommandsHold, PrintHolds, Return(main), UNCHANGED commandVars,
         job \in Chunked
  PROVE  PrintHolds'
  <1>1. HeadersInv /\ FilesHold /\ FileTypes /\ CallsFit /\ BufHolds /\ JobHolds
    BY FoundHeaders DEF CommandsHold, FilesHold
  <1>2. main \in Openers /\ CopyFile \in Files
    BY CommandsAssumption
  <1> DEFINE current(c, p, n) == c = call[main] /\ p = c.position /\ n = c.amount
  <1>0. PICK c, p, n : current(c, p, n)
    OBVIOUS
  <1> HIDE DEF current
  <1>3. /\ InCall(main) /\ todo[main] = <<>>
        /\ seekPosition' = [seekPosition EXCEPT ![main] = @ + n]
        /\ result' = [result EXCEPT ![main] =
                        [amount |-> n,
                         bytes  |-> IF c.kind = "write" THEN <<>>
                                    ELSE [k \in 1 .. n |-> buf[main][p + k - 1]]]]
        /\ expect' = [expect EXCEPT ![opened[main]] =
                        [b \in DOMAIN @ |-> IF c.kind = "write" /\ b \in Span(c)
                                            THEN c.from[b - p + 1] ELSE @[b]]]
        /\ call' = [call EXCEPT ![main] = NoCall]
        /\ UNCHANGED <<length, opened>> /\ UNCHANGED <<job, unixLength, transferred, screen>>
    BY <1>0 DEF current, Return, InCall, commandVars
  <1>4. c \in Calls /\ p \in Nat /\ n \in Nat /\ unixLength \in Nat
    <2>1. c \in Calls
      BY <1>0, <1>1, <1>2, <1>3 DEF current, FileTypes, InCall
    <2>2. QED
      BY <1>0, <1>1, <2>1 DEF current, Calls, JobHolds
  <1>14. Span(c) = p .. p + n - 1
    BY <1>0 DEF current, Span
  <1>5. length[CopyFile] = unixLength /\ opened[main] = CopyFile
    BY DEF Chunked, PrintHolds
  <1>6. ~ InCall(main)'
    BY <1>1, <1>2, <1>3 DEF FileTypes, InCall
  <1>7. seekPosition'[main] = seekPosition[main] + n
    BY <1>1, <1>2, <1>3 DEF FileTypes
  <1>8. DOMAIN expect[CopyFile] = 0 .. unixLength - 1
    BY <1>1, <1>2, <1>5 DEF FileTypes
  <1>9. n > 0 => p + n <= unixLength
    BY <1>0, <1>1, <1>2, <1>3, <1>4, <1>5 DEF current, CallsFit
  <1>10. \A b \in 0 .. unixLength - 1 :
            expect'[CopyFile][b] = IF c.kind = "write" /\ b \in Span(c)
                                   THEN c.from[b - p + 1] ELSE expect[CopyFile][b]
    <2> DEFINE new == [b \in DOMAIN expect[CopyFile] |->
                         IF c.kind = "write" /\ b \in Span(c)
                         THEN c.from[b - p + 1] ELSE expect[CopyFile][b]]
    <2>1. expect = [f \in Files |-> expect[f]] /\ expect' = [expect EXCEPT ![CopyFile] = new]
      BY <1>1, <1>3, <1>5 DEF FileTypes
    <2>2. \A b \in 0 .. unixLength - 1 :
             new[b] = IF c.kind = "write" /\ b \in Span(c)
                      THEN c.from[b - p + 1] ELSE expect[CopyFile][b]
      BY <1>8
    <2> HIDE DEF new
    <2>3. expect'[CopyFile] = new
      BY <1>2, <2>1
    <2>4. QED
      BY <2>2, <2>3
  <1>11. CASE job = "copy"
    <2>1. screen = <<>> /\ Copied(p) /\ seekPosition[main] = p
      BY <1>0, <1>3, <1>11 DEF current, PrintHolds
    <2>2. c.kind = "write" /\ p + n = transferred
      BY <1>0, <1>3, <1>11 DEF current, PrintHolds
    <2>3. \A k \in 1 .. n : c.from[k] = p + k
      BY <1>0, <1>3, <1>11 DEF current, PrintHolds
    <2>4. transferred \in 0 .. unixLength
      BY <1>1 DEF JobHolds
    <2>5. ASSUME NEW b \in 0 .. p + n - 1
          PROVE  expect'[CopyFile][b] = b + 1
      <3>1. p + n \in 0 .. unixLength
        BY <2>2, <2>4
      <3>2. b \in 0 .. unixLength - 1
        BY <1>4, <3>1
      <3>3. CASE b \in Span(c)
        <4>1. b \in p .. p + n - 1
          BY <1>14, <3>3
        <4> DEFINE k == b - p + 1
        <4>2. k \in 1 .. n /\ p + k = b + 1
          BY <1>4, <4>1
        <4>3. expect'[CopyFile][b] = c.from[k]
          BY <1>10, <2>2, <3>2, <3>3
        <4> HIDE DEF k
        <4>4. c.from[k] = p + k
          BY <2>3, <4>2
        <4>5. QED
          BY <4>2, <4>3, <4>4
      <3>4. CASE b \notin Span(c)
        <4>1. b \notin p .. p + n - 1
          BY <1>14, <3>4
        <4>2. b \in 0 .. p - 1
          BY <1>4, <4>1
        <4>3. expect'[CopyFile][b] = expect[CopyFile][b]
          BY <1>10, <3>2, <3>4
        <4>4. QED
          BY <2>1, <4>2, <4>3 DEF Copied
      <3>5. QED
        BY <3>3, <3>4
    <2>6. Copied(seekPosition[main])'
      <3>1. seekPosition'[main] = p + n
        BY <1>7, <2>1
      <3>2. \A b \in 0 .. p + n - 1 : expect'[CopyFile][b] = b + 1
        BY <2>5
      <3>3. \A b \in 0 .. seekPosition'[main] - 1 : expect'[CopyFile][b] = b + 1
        <4>1. 0 .. seekPosition'[main] - 1 = 0 .. p + n - 1
          BY <1>4, <3>1
        <4>2. QED
          BY <3>2, <4>1
      <3>4. QED
        BY <3>3, Zenon DEF Copied
    <2>7. seekPosition'[main] = transferred' /\ job' = "copy" /\ screen' = <<>>
      BY <1>3, <1>7, <1>11, <2>1, <2>2
    <2>8. length'[CopyFile] = unixLength' /\ opened'[main] = CopyFile
      BY <1>3, <1>5
    <2>9. QED
      BY <1>6, <2>6, <2>7, <2>8 DEF PrintHolds, PrintIsCopy
  <1>12. CASE job = "print chunk"
    <2> PICK m : m = Len(screen)
      OBVIOUS
    <2>1. /\ Copied(unixLength) /\ m \in 0 .. unixLength
          /\ c.kind = "read" /\ p = m /\ seekPosition[main] = m
          /\ n = 0 => m = unixLength
      BY <1>0, <1>3, <1>12 DEF current, PrintHolds
    <2>0. screen = [k \in 1 .. m |-> k]
      BY <1>12 DEF PrintHolds
    <2>2. Copied(unixLength)'
      BY <1>3, <1>10, <2>1 DEF Copied
    <2>3. ASSUME NEW k \in 1 .. n PROVE buf[main][p + k - 1] = m + k
      <3> DEFINE b == p + k - 1
                 i == divRoundDown(b, SectorSize)
      <3>1. b \in Nat /\ b \in Span(c) /\ b \in 0 .. unixLength - 1 /\ b + 1 = m + k
        <4>1. p = m /\ n > 0 /\ p + n <= unixLength
          BY <1>4, <1>9, <2>1
        <4>2. b \in Nat /\ b \in p .. p + n - 1 /\ b \in 0 .. unixLength - 1 /\ b + 1 = m + k
          BY <1>4, <4>1
        <4>3. QED
          BY <1>14, <4>2
      <3>2. i \in SectorsOf(c)
        BY <3>1 DEF SectorsOf
      <3> HIDE DEF b
      <3>3. b \in BytesOf(i)
        <4>1. i \in Nat
          BY <3>1, SectorOfByte
        <4>2. QED
          BY <3>1, <4>1, SectorOfByte
      <3>4. Access("read", i) \notin ToSet(todo[main])
        BY <1>3 DEF ToSet
      <3> HIDE DEF i
      <3>5. raced = {}
        BY <1>1, <1>12 DEF JobHolds
      <3>6. b < length[opened[main]]
        BY <1>4, <1>5, <3>1
      <3>7. BufAt(main)
        BY <1>1, <1>2, <1>3 DEF BufHolds
      <3>8. buf[main][b] = expect[CopyFile][b]
        BY <1>0, <1>5, <2>1, <3>2, <3>3, <3>4, <3>5, <3>6, <3>7 DEF current, BufAt
      <3>9. expect[CopyFile][b] = b + 1
        BY <2>1, <3>1 DEF Copied
      <3>10. QED
        BY <3>1, <3>8, <3>9 DEF b
    <2>4. result'[main].amount = n /\ result'[main].bytes = [k \in 1 .. n |-> m + k]
      <3>1. result'[main] = [amount |-> n, bytes |-> [k \in 1 .. n |-> buf[main][p + k - 1]]]
        BY <1>1, <1>2, <1>3, <2>1 DEF FileTypes
      <3>2. [k \in 1 .. n |-> buf[main][p + k - 1]] = [k \in 1 .. n |-> m + k]
        BY <2>3
      <3>3. QED
        BY <3>1, <3>2
    <2>5. m + n <= unixLength
      <3>1. m \in Nat /\ m <= unixLength /\ p = m
        BY <1>4, <2>1
      <3>2. QED
        BY <1>4, <1>9, <3>1
    <2>6. /\ job' = "print chunk" /\ length'[CopyFile] = unixLength' /\ opened'[main] = CopyFile
          /\ screen' = [k \in 1 .. Len(screen') |-> k] /\ Len(screen') \in 0 .. unixLength'
          /\ result'[main].amount \in Nat
          /\ seekPosition'[main] = Len(screen') + result'[main].amount
          /\ seekPosition'[main] <= unixLength'
          /\ result'[main].bytes = [k \in 1 .. result'[main].amount |-> Len(screen') + k]
          /\ result'[main].amount = 0 => Len(screen') = unixLength'
      <3>1. job' = "print chunk" /\ length'[CopyFile] = unixLength' /\ opened'[main] = CopyFile
        BY <1>3, <1>5, <1>12
      <3>2. screen' = screen /\ Len(screen') = m /\ unixLength' = unixLength
        BY <1>3
      <3>3. screen' = [k \in 1 .. Len(screen') |-> k] /\ Len(screen') \in 0 .. unixLength'
        BY <2>0, <2>1, <3>2
      <3>4. seekPosition'[main] = m + n
        BY <1>7, <2>1
      <3>5. result'[main].bytes = [k \in 1 .. result'[main].amount |-> Len(screen') + k]
        BY <2>4, <3>2
      <3>6. QED
        BY <1>4, <2>1, <2>4, <2>5, <3>1, <3>2, <3>3, <3>4, <3>5
    <2>7. QED
      BY <1>6, <2>2, <2>6 DEF PrintHolds, PrintIsCopy
  <1>13. QED
    BY <1>11, <1>12 DEF Chunked

LEMMA CallStepPrints ==
  ASSUME CommandsHold, PrintHolds, NEW t \in Openers, CallStep(t)
  PROVE  PrintHolds'
  <1>1. FilesHold /\ JobHolds
    BY DEF CommandsHold
  <1>2. /\ ReadSector(t) \/ WriteSector(t) \/ Return(t)
        /\ UNCHANGED <<job, unixLength, transferred, screen>>
        /\ UNCHANGED commandVars
    BY DEF CallStep, commandVars
  <1>3. InCall(t)
    <2>1. todo[t] # <<>> \/ call[t] # NoCall
      BY <1>2 DEF ReadSector, WriteSector, Return
    <2>2. QED
      BY <1>1, <2>1 DEF FilesHold, CallsFit, InCall
  <1>4. CASE ReadSector(t) \/ WriteSector(t)
    <2>1. UNCHANGED <<length, opened, seekPosition, call, result, expect>>
      BY <1>4 DEF ReadSector, WriteSector, Failed, ioVars
    <2>2. QED
      BY <1>2, <2>1, PrintStays
  <1>5. CASE Return(t)
    <2>1. CASE job \in Chunked
      <3>1. t = main
        BY <1>1, <1>3, <2>1 DEF Chunked, JobHolds
      <3>2. QED
        BY <1>2, <1>5, <2>1, <3>1, ReturnPrints
    <2>2. CASE job \notin Chunked
      <3>1. job' = job /\ job \notin Quiet
        BY <1>1, <1>2, <1>3 DEF JobHolds
      <3>2. QED
        BY <2>2, <3>1 DEF Chunked, PrintHolds, PrintIsCopy, Quiet
    <2>3. QED
      BY <2>1, <2>2
  <1>6. QED
    BY <1>2, <1>4, <1>5

LEMMA PrintSteps == CommandsHold /\ PrintHolds /\ [CommandsNext]_allVars => PrintHolds'
  <1> SUFFICES ASSUME CommandsHold, PrintHolds, [CommandsNext]_allVars PROVE PrintHolds'
    OBVIOUS
  <1>1. CASE UNCHANGED allVars \/ HeaderStep
    <2>1. UNCHANGED <<ioVars, commandVars>>
      BY <1>1 DEF allVars, HeaderStep
    <2>2. QED
      BY <2>1, PrintStays DEF ioVars, commandVars
  <1>2. CASE CopyStart \/ CopyChunk \/ CopyEnd
    BY <1>2, CopyStartPrints, CopyChunkPrints, CopyEndPrints
  <1>3. CASE PrintStart \/ PrintRead \/ PrintChunk
    BY <1>3, PrintStartPrints, PrintReadPrints, PrintChunkPrints
  <1>4. CASE \/ RemoveCopy \/ PerfStart \/ FileWrite \/ FileRead \/ PerformanceTest \/ ShareStart
             \/ \E t \in Sharers : ShareSeek(t) \/ ShareCall(t)
    <2>1. job' \in {"done", "perf", "perf written", "perf read", "share"}
      BY <1>4 DEF RemoveCopy, RemoveFile, PerfStart, FileWrite, FileRead, PerformanceTest,
                  ShareStart, ShareSeek, ShareCall, commandVars
    <2>2. QED
      BY <2>1, PrintsNothing
  <1>5. CASE \E t \in Openers : CallStep(t)
    BY <1>5, CallStepPrints
  <1>6. QED
    BY <1>1, <1>2, <1>3, <1>4, <1>5 DEF CommandsNext

\* fstest.cc, Copy and Print: what -p prints after -cp is the file that was copied,
\* byte by byte and no byte after it, for files and chunks of any size.
THEOREM PrintsTheCopy == CommandsSpec => []PrintIsCopy
  <1>1. PrintHolds => PrintIsCopy
    BY DEF PrintHolds
  <1>2. QED
    BY <1>1, CommandsHoldInit, CommandsSteps, PrintInit, PrintSteps, PTL DEF CommandsSpec
=============================================================================
