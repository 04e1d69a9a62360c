------------------------------ MODULE FileHeader ------------------------------
(***************************************************************************)
(* File headers (filesys/filehdr.cc) and the map of free sectors they are  *)
(* allocated from (userprog/bitmap.cc): direct pointers, a pointer block,  *)
(* and a block of pointer blocks.  Sizes and offsets are in sectors; every *)
(* bound the code compares bytes with is a multiple of SectorSize.         *)
(***************************************************************************)
EXTENDS Integers, FiniteSetsExt, SequencesExt

CONSTANTS
    NumSectors,     \* the size of the disk
    NumDirect,      \* the pointers in a header
    PtrsPerSector,  \* the pointers in a pointer block
    Reserved,       \* the sectors of the bitmap's and the directory's files
    Files,
    NoHeader

ASSUME FileHeaderAssumption ==
    /\ NumSectors \in Nat /\ NumDirect \in Nat /\ PtrsPerSector \in Nat
    /\ NumDirect > 2 /\ PtrsPerSector > 2
    /\ Reserved \subseteq 0 .. NumSectors - 1
    /\ 0 \in Reserved           \* FreeMapSector, so that no pointer is 0
    /\ NumSectors - 1 <= NumDirect - 2 + PtrsPerSector + PtrsPerSector * PtrsPerSector
    /\ NoHeader \notin [numSectors : Nat, dataSectors : Seq(Int)]

Sectors == 0 .. NumSectors - 1

Pointers == -1 .. NumSectors - 1    \* BitMap::Find returns -1 on a full disk

VARIABLES
    freeMap,    \* the sectors marked in the bitmap
    hdr,        \* numSectors and dataSectors of each file
    ptrs,       \* the contents of the pointer blocks on the disk
    aborted     \* an assertion has failed

headerVars == <<freeMap, hdr, ptrs, aborted>>

MaxFileSize1 == NumDirect

\* SectorSize - sizeof(int), as if a block had room for one pointer less
MaxFileSize2 == NumDirect - 1 + (PtrsPerSector - 1)

HeaderInit ==
    /\ freeMap = Reserved
    /\ hdr = [f \in Files |-> NoHeader]
    /\ ptrs = <<>>
    /\ aborted = FALSE

-----------------------------------------------------------------------------
(* Allocate.  The successive calls of Find take the clear sectors in        *)
(* ascending order and then return -1.                                      *)

Finds(map) ==
    LET clear == Sectors \ map IN
    [k \in 1 .. NumSectors + PtrsPerSector + 2 |->
        IF k <= Cardinality(clear)
        THEN CHOOSE s \in clear : Cardinality({t \in clear : t < s}) = k - 1
        ELSE -1]

\* the data sectors that the header itself points to
Direct(n) == CASE n <= MaxFileSize1 -> n
               [] n > MaxFileSize1 /\ n <= MaxFileSize2 -> NumDirect - 1
               [] OTHER -> NumDirect - 2

\* SingleIndirectAllocation when "done" data sectors are allocated and the next
\* call of Find is the kth: the block's entries
SingleIndirect(n, find, done, k) ==
    [i \in 1 .. PtrsPerSector |-> IF done + i <= n THEN find[k + i] ELSE 0]

\* DoubleIndirectAllocation: the entries it fills, and the call of Find for the
\* pointer block of each when its own was the kth
Groups(n, done) == {j \in 1 .. PtrsPerSector : done + (j - 1) * PtrsPerSector < n}

GroupCall(j, k) == k + 1 + (j - 1) * (PtrsPerSector + 1)

DoubleIndirect(n, find, done, k) ==
    [j \in 1 .. PtrsPerSector |-> IF j \in Groups(n, done) THEN find[GroupCall(j, k)] ELSE 0]

\* the calls of Find that allocate the pointer blocks of a file of n sectors
BlockCalls(n) ==
    LET d == Direct(n)
        done == d + PtrsPerSector
        k == done + 2
    IN CASE n <= MaxFileSize1 -> {}
         [] n > MaxFileSize1 /\ n <= MaxFileSize2 -> {d + 1}
         [] OTHER -> {d + 1, k} \cup {GroupCall(j, k) : j \in Groups(n, done)}

\* what is written to each of them
Blocks(n, find) ==
    LET d == Direct(n)
        done == d + PtrsPerSector
        k == done + 2
        group(c) == CHOOSE j \in Groups(n, done) : GroupCall(j, k) = c
    IN [c \in BlockCalls(n) |->
          CASE c = d + 1 -> SingleIndirect(n, find, d, c)
            [] c = k -> DoubleIndirect(n, find, done, c)
            [] OTHER -> SingleIndirect(n, find, done + (group(c) - 1) * PtrsPerSector, c)]

\* the pointers in the header
DataSectors(n, find) ==
    LET d == Direct(n)
        direct == [i \in 1 .. d |-> find[i]]
    IN CASE n <= MaxFileSize1 -> direct
         [] n > MaxFileSize1 /\ n <= MaxFileSize2 -> direct \o <<find[d + 1]>>
         [] OTHER -> direct \o <<find[d + 1], find[d + PtrsPerSector + 2]>>

\* Allocate for a new file; it returns FALSE, changing nothing, when fewer than n
\* sectors are clear.  Writing a pointer block to sector -1 fails an assertion.
Allocate(f, n) ==
    LET find == Finds(freeMap)
        blocks == Blocks(n, find)
        calls == n + Cardinality(DOMAIN blocks)
    IN
    /\ ~ aborted
    /\ hdr[f] = NoHeader
    /\ Cardinality(Sectors \ freeMap) >= n
    /\ IF \E k \in DOMAIN blocks : find[k] = -1
       THEN aborted' = TRUE /\ UNCHANGED <<freeMap, hdr, ptrs>>
       ELSE /\ freeMap' = freeMap \cup ({find[k] : k \in 1 .. calls} \ {-1})
            /\ hdr' = [hdr EXCEPT ![f] =
                         [numSectors |-> n, dataSectors |-> DataSectors(n, find)]]
            /\ ptrs' = [s \in DOMAIN ptrs \cup {find[k] : k \in DOMAIN blocks} |->
                           IF \E k \in DOMAIN blocks : find[k] = s
                           THEN blocks[CHOOSE k \in DOMAIN blocks : find[k] = s]
                           ELSE ptrs[s]]
            /\ UNCHANGED aborted

-----------------------------------------------------------------------------
(* ByteToSector, for the byte at the start of sector i of the file.         *)

\* which of the pointer blocks, and which entry of it
InDouble(past) ==
    LET loc == past \div PtrsPerSector IN <<loc, past - PtrsPerSector * loc>>

ByteToSector(h, i) ==
    LET n == h.numSectors
        data(k) == h.dataSectors[k + 1]         \* the code's dataSectors[k]
        read(s, k) == ptrs[s][k + 1]            \* readSector[k]
        directOffset == NumDirect - 2
        past == i - directOffset - PtrsPerSector
    IN CASE n <= MaxFileSize1 -> data(i)
         [] n > MaxFileSize1 /\ n <= MaxFileSize2 ->
                IF i < NumDirect - 1 THEN data(i)
                ELSE read(data(NumDirect - 1), i - (NumDirect - 1))
         [] OTHER ->
                IF i < directOffset THEN data(i)
                ELSE IF past < 0
                THEN read(data(NumDirect - 2), i - directOffset)
                ELSE LET at == InDouble(past) IN read(read(data(NumDirect - 1), at[1]), at[2])

-----------------------------------------------------------------------------
(* Deallocate.                                                              *)

\* the first n pointers of a block, each with its place
Entries(tier, block, n) == {<<tier, i, block[i]>> : i \in 1 .. n}

ClearedOneLess(h) ==                    \* bug: < for <= in the loop over the block
    LET n == h.numSectors
        block(k) == ptrs[h.dataSectors[k]]
        past == n - (NumDirect - 2) - PtrsPerSector
        header == Entries("header", h.dataSectors, Len(h.dataSectors))
        group(i) == ptrs[block(NumDirect)[((i - 1) \div PtrsPerSector) + 1]]
    IN CASE n <= MaxFileSize1 -> header
         [] n > MaxFileSize1 /\ n <= MaxFileSize2 ->
                header \cup Entries("single", block(NumDirect), n - NumDirect)
         [] OTHER ->
                header \cup Entries("single", block(NumDirect - 1), PtrsPerSector)
                \cup {p \in Entries("double", block(NumDirect), PtrsPerSector) : p[3] # 0}
                \cup {<<"group", i, group(i)[((i - 1) % PtrsPerSector) + 1]>> : i \in 1 .. past}

\* the pointers that are tested and cleared
Cleared(h) ==
    LET n == h.numSectors
        block(k) == ptrs[h.dataSectors[k]]
        past == n - (NumDirect - 2) - PtrsPerSector
        header == Entries("header", h.dataSectors, Len(h.dataSectors))
        group(i) == ptrs[block(NumDirect)[((i - 1) \div PtrsPerSector) + 1]]
    IN CASE n <= MaxFileSize1 -> header
         [] n > MaxFileSize1 /\ n <= MaxFileSize2 ->
                header \cup Entries("single", block(NumDirect), n - NumDirect + 1)
         [] OTHER ->
                header \cup Entries("single", block(NumDirect - 1), PtrsPerSector)
                \cup {p \in Entries("double", block(NumDirect), PtrsPerSector) : p[3] # 0}
                \cup {<<"group", i, group(i)[((i - 1) % PtrsPerSector) + 1]>> : i \in 1 .. past}

\* A sector that two of the pointers lead to is no longer marked at the second
\* test.  The contents of the pointer blocks that are freed are not looked at again.
Deallocate(f) ==
    LET cleared == Cleared(hdr[f])
        sectors == {p[3] : p \in cleared}
    IN
    /\ ~ aborted
    /\ hdr[f] # NoHeader
    /\ IF Cardinality(sectors) < Cardinality(cleared) \/ ~ sectors \subseteq freeMap
       THEN aborted' = TRUE /\ UNCHANGED <<freeMap, hdr, ptrs>>
       ELSE /\ freeMap' = freeMap \ sectors
            /\ hdr' = [hdr EXCEPT ![f] = NoHeader]
            /\ ptrs' = [s \in DOMAIN ptrs \ sectors |-> ptrs[s]]
            /\ UNCHANGED aborted

HeaderNext ==
    \E f \in Files :
        \/ \E n \in 0 .. NumSectors : Allocate(f, n)
        \/ Deallocate(f)

HeaderSpec == HeaderInit /\ [][HeaderNext]_headerVars

-----------------------------------------------------------------------------
(* Properties.                                                              *)

Allocated == {f \in Files : hdr[f] # NoHeader}

\* the pointer blocks of a file, by the size of the file alone
PointerBlocks(h) ==
    LET data(k) == h.dataSectors[k] IN
    CASE h.numSectors <= MaxFileSize1 -> {}
      [] h.numSectors > MaxFileSize1 /\ h.numSectors <= MaxFileSize2 -> {data(NumDirect)}
      [] OTHER -> {data(NumDirect - 1), data(NumDirect)}
                  \cup (ToSet(ptrs[data(NumDirect)]) \ {0})

Offsets == {o \in Allocated \X (0 .. NumSectors) : o[2] < hdr[o[1]].numSectors}

\* the sector of each offset of each file
SectorAt(o) == ByteToSector(hdr[o[1]], o[2])

HeaderTypes ==
    /\ freeMap \subseteq Sectors
    /\ \A f \in Allocated :
          /\ hdr[f].numSectors \in 0 .. NumSectors
          /\ hdr[f].dataSectors \in Seq(Pointers) /\ Len(hdr[f].dataSectors) <= NumDirect
    /\ \A s \in DOMAIN ptrs : s \in Sectors /\ ptrs[s] \in [1 .. PtrsPerSector -> Pointers]
    /\ aborted \in BOOLEAN

\* No two offsets, of the same file or of two, are kept in the same sector, and
\* none is kept in a pointer block.
OffsetsDistinct ==
    LET blocks == UNION {PointerBlocks(hdr[f]) : f \in Allocated} IN
    \A o \in Offsets :
        SectorAt(o) # -1 =>
            /\ SectorAt(o) \notin blocks
            /\ \A q \in Offsets : SectorAt(q) = SectorAt(o) => q = o

\* The bitmap has marked the sectors that ByteToSector and the pointer blocks
\* lead to, and no other: Deallocate returns what Allocate took.
FreeMapExact ==
    freeMap = (Reserved \cup (UNION {PointerBlocks(hdr[f]) : f \in Allocated})
                        \cup {SectorAt(o) : o \in Offsets}) \ {-1}

\* The three tiers of pointers are arithmetic that Allocate, Deallocate and
\* ByteToSector each do in their own way; what they make of it is one map, with
\* no sector lost or kept for two offsets.
HeadersInv == HeaderTypes /\ OffsetsDistinct /\ FreeMapExact

\* filehdr.cc:33-34: Allocate returns FALSE if there are not enough free blocks
\* to accommodate the new file.  So every offset of a file has a sector.
AllocationComplete == ~ aborted /\ \A o \in Offsets : SectorAt(o) # -1
=============================================================================
