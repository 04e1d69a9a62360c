------------------------------ MODULE FileSystem ------------------------------
(***************************************************************************)
(* The file system (filesys/filesys.cc, directory.cc, openfile.cc): Create,*)
(* Open and Remove, a disk access at a time, and reads and writes of the   *)
(* sectors of open files.  A step is one call of SynchDisk and what the    *)
(* caller does in its own memory until the next.                           *)
(*                                                                         *)
(* Names are what the directory tells apart, the first FileNameMaxLen      *)
(* characters.  Headers have direct pointers; FileHeader has the others.   *)
(***************************************************************************)
EXTENDS Integers, FiniteSetsExt, SequencesExt

CONSTANTS
    Callers,
    Creators, Removers, \* the callers that create and remove files
    Names,
    NumSectors,         \* the sectors that are free when the disk is formatted
    NumDirEntries,
    MaxSize,            \* bound: the sectors of a file
    Data,
    Garbage,            \* what unused sectors hold after formatting
    NoFile, NoCall, NoCopy, Free

Sectors == 1 .. NumSectors

Headers == BoundedSeq(Sectors, MaxSize)

Entries == [name : Names, sector : Sectors]

Operations == {"Create", "Open", "Remove", "Read", "Write", "Close"}

Calls == [op : Operations, name : Names, number : 0 .. MaxSize, data : Data]

\* a call whose data has been overwritten with what it has read
Answered == [op : Operations, name : Names, number : 0 .. MaxSize, data : Data \cup Headers]

OpenFiles == [name : Names, hdr : Headers]

ASSUME FileSystemAssumption ==
    /\ NumSectors \in Nat /\ NumDirEntries \in Nat /\ MaxSize \in Nat
    /\ Creators \subseteq Callers /\ Removers \subseteq Callers
    /\ Garbage \in Data
    /\ Free \notin Entries /\ NoCall \notin Answered
    /\ NoFile \notin Names \cup OpenFiles
    /\ \A size \in 0 .. MaxSize : NoFile \notin [1 .. size -> Data \cup Headers]

VARIABLES
    dirDisk,    \* the directory file
    mapDisk,    \* the sectors marked in the bitmap file
    disk,       \* the header or the data in each sector
    call,       \* what each caller has called
    place,      \* the next disk access of the call, "out" between calls
    copy,       \* the caller's copies of the directory and the bitmap, the
                \* sector of the header it works on, and the header
    result,     \* what the call returns
    open        \* the OpenFile each caller has: the header, and its name

vars == <<dirDisk, mapDisk, disk, call, place, copy, result, open>>

Places == {"out", "create find", "create map", "create header", "create dir",
           "create bitmap", "open find", "open header", "remove find",
           "remove header", "remove map", "remove bitmap", "remove dir",
           "transfer", "return"}

TypeOK ==
    /\ dirDisk \in [1 .. NumDirEntries -> Entries \cup {Free}]
    /\ mapDisk \subseteq Sectors
    /\ disk \in [Sectors -> Headers \cup Data]
    /\ call \in [Callers -> Answered \cup {NoCall}]
    /\ place \in [Callers -> Places]
    /\ result \in [Callers -> BOOLEAN]
    /\ \A c \in Callers :
          /\ place[c] = "out" <=> call[c] = NoCall
          /\ place[c] = "create header" =>
                copy[c].sector \in copy[c].map \cap Sectors /\ copy[c].hdr \in Headers
          /\ open[c] # NoFile => open[c] \in OpenFiles

Init ==
    /\ dirDisk = [i \in 1 .. NumDirEntries |-> Free]
    /\ mapDisk = {}
    /\ disk = [s \in Sectors |-> Garbage]
    /\ call = [c \in Callers |-> NoCall]
    /\ place = [c \in Callers |-> "out"]
    /\ copy = [c \in Callers |-> NoCopy]
    /\ result = [c \in Callers |-> FALSE]
    /\ open = [c \in Callers |-> NoFile]

-----------------------------------------------------------------------------
(* Directory and bitmap, in memory.                                        *)

\* Directory::FindIndex, 0 for -1
FindIndex(dir, n) ==
    LET at == {i \in 1 .. NumDirEntries : dir[i] # Free /\ dir[i].name = n} IN
    IF at = {} THEN 0 ELSE Min(at)

Unused(dir) == {i \in 1 .. NumDirEntries : dir[i] = Free}

\* Directory::Add of a name that is not there, where there is room
Add(dir, n, sector) == [dir EXCEPT ![Min(Unused(dir))] = [name |-> n, sector |-> sector]]

\* Directory::Remove
RemoveEntry(dir, n) == [dir EXCEPT ![FindIndex(dir, n)] = Free]

\* BitMap::Find, "count" times: the first clear sectors
FirstClear(map, count) ==
    CHOOSE first \in SUBSET (Sectors \ map) :
        /\ Cardinality(first) = count
        /\ \A s \in first, u \in (Sectors \ map) \ first : s < u

\* the sectors in ascending order, as Find returned them
Ascending(S) == [i \in 1 .. Cardinality(S) |->
                    CHOOSE s \in S : Cardinality({u \in S : u < s}) = i - 1]

-----------------------------------------------------------------------------
(* Calls.                                                                  *)

HasOpen(c, n) ==
    \/ open[c] # NoFile /\ open[c].name = n
    \/ call[c] # NoCall /\ call[c].op = "Open" /\ call[c].name = n

Removing(n) ==
    \E c \in Callers : call[c] # NoCall /\ call[c].op = "Remove" /\ call[c].name = n

Changing(c) == call[c] # NoCall /\ call[c].op \in {"Create", "Remove"}

\* Programs read and write the file they have open, keep at most one open, remove
\* no file that is open or being opened, and create and remove one at a time.
Permitted(c, k) ==
    CASE k.op = "Create" -> /\ c \in Creators /\ k.data = Garbage
                            /\ \A d \in Callers : ~ Changing(d)
      [] k.op = "Open"   -> /\ open[c] = NoFile /\ k.number = 0 /\ k.data = Garbage
                            /\ ~ Removing(k.name)
      [] k.op = "Remove" -> /\ c \in Removers /\ k.number = 0 /\ k.data = Garbage
                            /\ \A d \in Callers : ~ Changing(d) /\ ~ HasOpen(d, k.name)
      [] k.op = "Read"   -> open[c] # NoFile /\ open[c].name = k.name /\ k.data = Garbage
      [] k.op = "Write"  -> open[c] # NoFile /\ open[c].name = k.name
      [] k.op = "Close"  -> /\ open[c] # NoFile /\ open[c].name = k.name
                            /\ k.number = 0 /\ k.data = Garbage

Start(c) ==
    /\ place[c] = "out"
    /\ \E k \in Calls :
          /\ Permitted(c, k)
          /\ call' = [call EXCEPT ![c] = k]
          /\ place' = [place EXCEPT ![c] =
                         CASE k.op = "Create" -> "create find"
                           [] k.op = "Open"   -> "open find"
                           [] k.op = "Remove" -> "remove find"
                           [] OTHER           -> "transfer"]
    /\ UNCHANGED <<dirDisk, mapDisk, disk, copy, result, open>>

GoTo(c, p) == place' = [place EXCEPT ![c] = p]

Finish(c, r) ==
    /\ place' = [place EXCEPT ![c] = "return"]
    /\ result' = [result EXCEPT ![c] = r]
    /\ copy' = [copy EXCEPT ![c] = NoCopy]

Return(c) ==
    /\ place[c] = "return"
    /\ place' = [place EXCEPT ![c] = "out"]
    /\ result' = [result EXCEPT ![c] = FALSE]
    /\ call' = [call EXCEPT ![c] = NoCall]
    /\ UNCHANGED <<dirDisk, mapDisk, disk, copy, open>>

-----------------------------------------------------------------------------
(* FileSystem::Create.                                                     *)

CreateFind(c) ==
    /\ place[c] = "create find"
    /\ IF FindIndex(dirDisk, call[c].name) # 0
       THEN Finish(c, FALSE)
       ELSE /\ GoTo(c, "create map")
            /\ copy' = [copy EXCEPT ![c] = [dir |-> dirDisk]]
            /\ UNCHANGED result
    /\ UNCHANGED <<dirDisk, mapDisk, disk, call, open>>

\* freeMap->Find, directory->Add and hdr->Allocate, on the copies
CreateMap(c) ==
    LET n == call[c].name
        size == call[c].number
        clear == Sectors \ mapDisk
    IN
    /\ place[c] = "create map"
    /\ IF clear = {} \/ Unused(copy[c].dir) = {} \/ Cardinality(clear) - 1 < size
       THEN Finish(c, FALSE)
       ELSE LET sector == Min(clear)
                blocks == FirstClear(mapDisk \cup {sector}, size) IN
            /\ copy' = [copy EXCEPT ![c] =
                  [dir |-> Add(copy[c].dir, n, sector),
                   map |-> mapDisk \cup {sector} \cup blocks,
                   sector |-> sector,
                   hdr |-> Ascending(blocks)]]
            /\ GoTo(c, "create header")
            /\ UNCHANGED result
    /\ UNCHANGED <<dirDisk, mapDisk, disk, call, open>>

CreateHeaderLate(c) ==                  \* bug: the directory is written first
    \/ /\ place[c] = "create header"
       /\ dirDisk' = copy[c].dir
       /\ GoTo(c, "create dir")
       /\ UNCHANGED <<mapDisk, disk, call, copy, result, open>>
    \/ /\ place[c] = "create dir"
       /\ disk' = [disk EXCEPT ![copy[c].sector] = copy[c].hdr]
       /\ GoTo(c, "create bitmap")
       /\ UNCHANGED <<dirDisk, mapDisk, call, copy, result, open>>

\* hdr->WriteBack
CreateHeader(c) ==
    /\ place[c] = "create header"
    /\ disk' = [disk EXCEPT ![copy[c].sector] = copy[c].hdr]
    /\ GoTo(c, "create dir")
    /\ UNCHANGED <<dirDisk, mapDisk, call, copy, result, open>>

\* directory->WriteBack
CreateDir(c) ==
    /\ place[c] = "create dir"
    /\ dirDisk' = copy[c].dir
    /\ GoTo(c, "create bitmap")
    /\ UNCHANGED <<mapDisk, disk, call, copy, result, open>>

\* freeMap->WriteBack
CreateBitmap(c) ==
    /\ place[c] = "create bitmap"
    /\ mapDisk' = copy[c].map
    /\ Finish(c, TRUE)
    /\ UNCHANGED <<dirDisk, disk, call, open>>

-----------------------------------------------------------------------------
(* FileSystem::Open and the OpenFile it returns.                           *)

OpenFind(c) ==
    LET i == FindIndex(dirDisk, call[c].name) IN
    /\ place[c] = "open find"
    /\ IF i = 0
       THEN Finish(c, FALSE)
       ELSE /\ GoTo(c, "open header")
            /\ copy' = [copy EXCEPT ![c] = [sector |-> dirDisk[i].sector]]
            /\ UNCHANGED result
    /\ UNCHANGED <<dirDisk, mapDisk, disk, call, open>>

OpenHeader(c) ==
    /\ place[c] = "open header"
    /\ open' = [open EXCEPT ![c] = [name |-> call[c].name, hdr |-> disk[copy[c].sector]]]
    /\ Finish(c, TRUE)
    /\ UNCHANGED <<dirDisk, mapDisk, disk, call>>

\* OpenFile::ReadAt of sector "number" of the file
ReadAt(c) ==
    LET i == call[c].number IN
    /\ place[c] = "transfer" /\ call[c].op = "Read"
    /\ IF i \notin 1 .. Len(open[c].hdr)
       THEN Finish(c, FALSE) /\ UNCHANGED call
       ELSE /\ call' = [call EXCEPT ![c].data = disk[open[c].hdr[i]]]
            /\ Finish(c, TRUE)
    /\ UNCHANGED <<dirDisk, mapDisk, disk, open>>

WriteAtShifted(c) ==                    \* bug: the sectors are counted from the second
    LET i == call[c].number IN
    /\ place[c] = "transfer" /\ call[c].op = "Write"
    /\ IF i - 1 \notin 1 .. Len(open[c].hdr)
       THEN Finish(c, FALSE) /\ UNCHANGED disk
       ELSE /\ disk' = [disk EXCEPT ![open[c].hdr[i - 1]] = call[c].data]
            /\ Finish(c, TRUE)
    /\ UNCHANGED <<dirDisk, mapDisk, call, open>>

\* OpenFile::WriteAt of a whole sector
WriteAt(c) ==
    LET i == call[c].number IN
    /\ place[c] = "transfer" /\ call[c].op = "Write"
    /\ IF i \notin 1 .. Len(open[c].hdr)
       THEN Finish(c, FALSE) /\ UNCHANGED disk
       ELSE /\ disk' = [disk EXCEPT ![open[c].hdr[i]] = call[c].data]
            /\ Finish(c, TRUE)
    /\ UNCHANGED <<dirDisk, mapDisk, call, open>>

Close(c) ==
    /\ place[c] = "transfer" /\ call[c].op = "Close"
    /\ open' = [open EXCEPT ![c] = NoFile]
    /\ Finish(c, TRUE)
    /\ UNCHANGED <<dirDisk, mapDisk, disk, call>>

-----------------------------------------------------------------------------
(* FileSystem::Remove.                                                     *)

RemoveFind(c) ==
    LET i == FindIndex(dirDisk, call[c].name) IN
    /\ place[c] = "remove find"
    /\ IF i = 0
       THEN Finish(c, FALSE)
       ELSE /\ GoTo(c, "remove header")
            /\ copy' = [copy EXCEPT ![c] = [dir |-> dirDisk, sector |-> dirDisk[i].sector]]
            /\ UNCHANGED result
    /\ UNCHANGED <<dirDisk, mapDisk, disk, call, open>>

\* fileHdr->FetchFrom
RemoveHeader(c) ==
    /\ place[c] = "remove header"
    /\ copy' = [copy EXCEPT ![c] = [dir |-> @.dir, sector |-> @.sector,
                                    hdr |-> disk[copy[c].sector]]]
    /\ GoTo(c, "remove map")
    /\ UNCHANGED <<dirDisk, mapDisk, disk, call, result, open>>

\* fileHdr->Deallocate, freeMap->Clear and directory->Remove, on the copies
RemoveMap(c) ==
    /\ place[c] = "remove map"
    /\ copy' = [copy EXCEPT ![c] =
          [dir |-> RemoveEntry(@.dir, call[c].name),
           map |-> mapDisk \ ({copy[c].sector} \cup ToSet(copy[c].hdr))]]
    /\ GoTo(c, "remove bitmap")
    /\ UNCHANGED <<dirDisk, mapDisk, disk, call, result, open>>

\* freeMap->WriteBack
RemoveBitmap(c) ==
    /\ place[c] = "remove bitmap"
    /\ mapDisk' = copy[c].map
    /\ GoTo(c, "remove dir")
    /\ UNCHANGED <<dirDisk, disk, call, copy, result, open>>

\* directory->WriteBack
RemoveDir(c) ==
    /\ place[c] = "remove dir"
    /\ dirDisk' = copy[c].dir
    /\ Finish(c, TRUE)
    /\ UNCHANGED <<mapDisk, disk, call, open>>

-----------------------------------------------------------------------------

\* between the writes of the directory and the bitmap the one names a file whose
\* sectors the other has as free
Vulnerable(c) == place[c] \in {"create bitmap", "remove dir"}

\* The machine stops, not between those two writes, and is started again on the
\* same disk: FileSystem(FALSE) opens the bitmap and the directory.
Crash ==
    /\ \A c \in Callers : ~ Vulnerable(c)
    /\ call' = [c \in Callers |-> NoCall]
    /\ place' = [c \in Callers |-> "out"]
    /\ copy' = [c \in Callers |-> NoCopy]
    /\ result' = [c \in Callers |-> FALSE]
    /\ open' = [c \in Callers |-> NoFile]
    /\ UNCHANGED <<dirDisk, mapDisk, disk>>

Next ==
    \/ \E c \in Callers :
          \/ Start(c) \/ Return(c)
          \/ CreateFind(c) \/ CreateMap(c) \/ CreateHeader(c) \/ CreateDir(c)
          \/ CreateBitmap(c)
          \/ OpenFind(c) \/ OpenHeader(c) \/ ReadAt(c) \/ WriteAt(c) \/ Close(c)
          \/ RemoveFind(c) \/ RemoveHeader(c) \/ RemoveMap(c) \/ RemoveBitmap(c)
          \/ RemoveDir(c)
    \/ Crash

Spec == Init /\ [][Next]_vars

-----------------------------------------------------------------------------
(* Properties.                                                             *)

Listed == {i \in 1 .. NumDirEntries : dirDisk[i] # Free}

Occupied(i) == {dirDisk[i].sector} \cup ToSet(disk[dirDisk[i].sector])

\* Whatever moment the disk is looked at, each name in the directory leads to a
\* sector that holds a header, and no name is there twice.
EntriesHaveHeaders ==
    \A i \in Listed :
        /\ disk[dirDisk[i].sector] \in Headers
        /\ \A j \in Listed : dirDisk[i].name = dirDisk[j].name => i = j

\* No sector belongs to two files, or twice to one.
FilesDisjoint ==
    \A i \in Listed :
        /\ Cardinality(Occupied(i)) = 1 + Len(disk[dirDisk[i].sector])
        /\ \A j \in Listed \ {i} : Occupied(i) \cap Occupied(j) = {}

\* Except between the writes of the directory and of the bitmap, the marked
\* sectors are those of the files in the directory: none is lost, none given twice.
MapExact ==
    (\A c \in Callers : ~ Vulnerable(c)) => mapDisk = UNION {Occupied(i) : i \in Listed}

\* What is on the disk is a directory of whole and disjoint files and the bitmap
\* of their sectors, after every write and every stop of the machine.
FilesInv == TypeOK /\ EntriesHaveHeaders /\ FilesDisjoint /\ MapExact

\* filesys.h, openfile.h: each call happens at one moment.  Create and Remove
\* happen when they write the directory, Open when it reads it.
absFiles == [n \in Names |->
                LET i == FindIndex(dirDisk, n) IN
                IF i = 0 THEN NoFile
                ELSE LET hdr == disk[dirDisk[i].sector] IN
                     [k \in 1 .. Len(hdr) |-> disk[hdr[k]]]]

absStage == [c \in Callers |->
                CASE place[c] = "out"    -> "idle"
                  [] place[c] = "return" -> IF result[c] THEN "true" ELSE "false"
                  [] place[c] \in {"create bitmap", "open header"} -> "true"
                  [] OTHER -> "called"]

absHandle == [c \in Callers |->
                 IF place[c] = "open header" THEN call[c].name
                 ELSE IF open[c] # NoFile THEN open[c].name ELSE NoFile]

Atomic == INSTANCE AtomicFileSystem
             WITH files <- absFiles, stage <- absStage, handle <- absHandle

ImplementsAtomicFileSystem == Atomic!Spec
=============================================================================
