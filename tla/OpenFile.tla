------------------------------- MODULE OpenFile -------------------------------
(***************************************************************************)
(* Open files (filesys/openfile.cc): Read and Write of any number of bytes *)
(* at any position, made of reads and writes of whole sectors.  Each thread *)
(* has an OpenFile of its own.  A step is one call of SynchDisk, at the      *)
(* device's request, where all its data moves; between two of them the      *)
(* other threads run.  The header leads to the sectors, as in FileHeader.   *)
(***************************************************************************)
EXTENDS FileHeader

CONSTANTS
    SectorSize,     \* in bytes
    Openers,        \* the threads that open files
    NoFile, NoCall,
    Unset           \* what a byte of a new buffer holds

ASSUME OpenFileAssumption ==
    /\ SectorSize \in Nat \ {0}
    /\ NoCall \notin [kind : {"read", "write"}, position : Nat, amount : Nat, from : Seq(Int)]

VARIABLES
    length,         \* FileHeader::numBytes
    data,           \* the bytes in each sector of the disk
    opened,         \* the file that each thread's OpenFile is for
    seekPosition,   \* OpenFile::seekPosition
    call,           \* the ReadAt or WriteAt that the thread is in
    todo,           \* the sectors that the call has still to read and to write
    buf,            \* the buffer of the call, by the offset in the file
    result,         \* the number of bytes and the bytes of the last call
    expect,         \* history: what the last write put at each offset
    raced           \* history: the sectors of files that a call was writing
                    \* while another was reading or writing them

ioVars == <<length, data, opened, seekPosition, call, todo, buf, result,
            expect, raced>>

NoBytes == [amount |-> 0, bytes |-> <<>>]

OpenFileInit ==
    /\ length = [f \in Files |-> 0]
    /\ data = [s \in Sectors |-> [k \in 0 .. SectorSize - 1 |-> 0]]
    /\ opened = [t \in Openers |-> NoFile]
    /\ seekPosition = [t \in Openers |-> 0]
    /\ call = [t \in Openers |-> NoCall]
    /\ todo = [t \in Openers |-> <<>>]
    /\ buf = [t \in Openers |-> <<>>]
    /\ result = [t \in Openers |-> NoBytes]
    /\ expect = [f \in Files |-> <<>>]
    /\ raced = {}

-----------------------------------------------------------------------------
(* Bytes and sectors of a file.                                            *)

divRoundDown(n, s) == n \div s

divRoundUp(n, s) == (n + s - 1) \div s

\* the offsets of the bytes in sector i of a file
BytesOf(i) == i * SectorSize .. (i + 1) * SectorSize - 1

\* the byte at an offset of a file, on the disk
ByteAt(f, b) ==
    data[ByteToSector(hdr[f], divRoundDown(b, SectorSize))][b % SectorSize]

\* the bytes and the sectors that a call is about
Span(c) == c.position .. c.position + c.amount - 1

SectorsOf(c) == {divRoundDown(b, SectorSize) : b \in Span(c)}

-----------------------------------------------------------------------------
(* Calls.                                                                  *)

\* a new OpenFile
OpenAs(t, f) ==
    /\ opened' = [opened EXCEPT ![t] = f]
    /\ seekPosition' = [seekPosition EXCEPT ![t] = 0]

Seek(t, position) ==
    /\ opened[t] # NoFile /\ call[t] = NoCall
    /\ seekPosition' = [seekPosition EXCEPT ![t] = position]
    /\ UNCHANGED <<length, data, opened, call, todo, buf, result, expect, raced>>

Access(kind, i) == [kind |-> kind, sector |-> i]

\* every full or partial sector of the request
All(kind, first, last) == [i \in 1 .. last - first + 1 |-> Access(kind, first + i - 1)]

FirstForgotten(c, first, last) ==      \* bug: the first sector is not read
    LET lastAligned == c.position + c.amount = (last + 1) * SectorSize
    IN  IF ~ lastAligned THEN <<Access("read", last)>> ELSE <<>>

WholeApart(c, first, last) ==           \* bug: no firstAligned in the second test
    LET firstAligned == c.position = first * SectorSize
        lastAligned == c.position + c.amount = (last + 1) * SectorSize
    IN (IF ~ firstAligned THEN <<Access("read", first)>> ELSE <<>>)
       \o (IF ~ lastAligned /\ first # last THEN <<Access("read", last)>> ELSE <<>>)

\* the sectors that WriteAt reads: the first and the last, if partially modified
Partial(c, first, last) ==
    LET firstAligned == c.position = first * SectorSize
        lastAligned == c.position + c.amount = (last + 1) * SectorSize
    IN (IF ~ firstAligned THEN <<Access("read", first)>> ELSE <<>>)
       \o (IF ~ lastAligned /\ (first # last \/ firstAligned)
           THEN <<Access("read", last)>> ELSE <<>>)

\* the sectors that the calls in progress and the new call c of t both touch,
\* when one of them writes
Races(t, c) ==
    UNION {SectorsOf(c) \cap SectorsOf(call[u]) :
              u \in {u \in Openers \ {t} :
                        /\ call[u] # NoCall /\ opened[u] = opened[t]
                        /\ "write" \in {c.kind, call[u].kind}}}

\* ReadAt and WriteAt up to their first access of the disk
Begin(t, kind, numBytes, bytes) ==
    LET fileLength == length[opened[t]]
        position == seekPosition[t]
        amount == IF position >= fileLength THEN 0
                  ELSE Min({numBytes, fileLength - position})
        c == [kind |-> kind, position |-> position, amount |-> amount, from |-> bytes]
        first == divRoundDown(position, SectorSize)
        last == divRoundDown(position + amount - 1, SectorSize)
    IN
    /\ opened[t] # NoFile /\ call[t] = NoCall
    /\ call' = [call EXCEPT ![t] = c]
    /\ raced' = raced \cup Races(t, c)
    /\ IF amount <= 0
       THEN UNCHANGED <<todo, buf>>
       ELSE /\ buf' = [buf EXCEPT ![t] =
                          [b \in UNION {BytesOf(i) : i \in first .. last} |-> Unset]]
            /\ todo' = [todo EXCEPT ![t] =
                          IF kind = "read" THEN All("read", first, last)
                          ELSE Partial(c, first, last) \o All("write", first, last)]
    /\ UNCHANGED <<length, data, opened, seekPosition, result, expect>>

\* OpenFile::Read and Write
Read(t, numBytes) == Begin(t, "read", numBytes, <<>>)

Write(t, bytes) == Begin(t, "write", Len(bytes), bytes)

\* the disk asserts that the sector is one of its own
Failed ==
    /\ aborted' = TRUE
    /\ UNCHANGED <<freeMap, hdr, ptrs, ioVars>>

\* ReadSector into the buffer
ReadSector(t) ==
    LET f == opened[t]
        i == Head(todo[t]).sector
    IN
    /\ todo[t] # <<>> /\ Head(todo[t]).kind = "read"
    /\ \/ ByteToSector(hdr[f], i) = -1 /\ Failed
       \/ /\ ByteToSector(hdr[f], i) # -1
          /\ buf' = [buf EXCEPT ![t] =
                        [b \in DOMAIN @ |-> IF b \in BytesOf(i) /\ b < length[f]
                                            THEN ByteAt(f, b) ELSE @[b]]]
          /\ todo' = [todo EXCEPT ![t] = Tail(@)]
          /\ UNCHANGED <<headerVars, length, data, opened, seekPosition, call, result,
                         expect, raced>>

\* WriteSector of the buffer, into which the bytes of the request were copied
WriteSector(t) ==
    LET c == call[t]
        i == Head(todo[t]).sector
        sector == ByteToSector(hdr[opened[t]], i)
        byte(b) == IF b \in Span(c) THEN c.from[b - c.position + 1] ELSE buf[t][b]
    IN
    /\ todo[t] # <<>> /\ Head(todo[t]).kind = "write"
    /\ \/ sector = -1 /\ Failed
       \/ /\ sector # -1
          /\ data' = [data EXCEPT ![sector] =
                         [k \in 0 .. SectorSize - 1 |-> byte(i * SectorSize + k)]]
          /\ todo' = [todo EXCEPT ![t] = Tail(@)]
          /\ UNCHANGED <<headerVars, length, opened, seekPosition, call, buf, result,
                         expect, raced>>

\* the end of ReadAt or WriteAt, and of the Read or Write that called it
Return(t) ==
    LET c == call[t]  f == opened[t] IN
    /\ c # NoCall /\ todo[t] = <<>>
    /\ seekPosition' = [seekPosition EXCEPT ![t] = @ + c.amount]
    /\ result' = [result EXCEPT ![t] =
                     [amount |-> c.amount,
                      bytes  |-> IF c.kind = "write" THEN <<>>
                                 ELSE [k \in 1 .. c.amount |-> buf[t][c.position + k - 1]]]]
    /\ expect' = [expect EXCEPT ![f] =
                     [b \in DOMAIN @ |-> IF c.kind = "write" /\ b \in Span(c)
                                         THEN c.from[b - c.position + 1] ELSE @[b]]]
    /\ call' = [call EXCEPT ![t] = NoCall]
    /\ buf' = [buf EXCEPT ![t] = <<>>]
    /\ UNCHANGED <<headerVars, length, data, opened, todo, raced>>

-----------------------------------------------------------------------------
(* Properties.                                                             *)

\* the offsets of f, on the disk, that no call is writing and for which no two
\* calls raced
Settled(f) ==
    {b \in DOMAIN expect[f] :
        LET i == divRoundDown(b, SectorSize) IN
        /\ ByteToSector(hdr[f], i) # -1
        /\ i \notin raced
        /\ \A t \in Openers : (call[t] # NoCall /\ opened[t] = f /\ call[t].kind = "write")
                                  => i \notin SectorsOf(call[t])}

\* openfile.cc:106-110: a write modifies its own bytes and no others, whatever
\* part of which sectors they are, and a read returns what was last written;
\* unless two calls are at the same sector at the same time, one of them
\* writing: a write of part of a sector reads all of it, waits and writes all
\* of it back.
BytesKept ==
    /\ \A f \in Files : hdr[f] # NoHeader =>
          \A b \in Settled(f) : ByteAt(f, b) = expect[f][b]
    /\ \A t \in Openers :
          (call[t] # NoCall /\ call[t].kind = "read" /\ todo[t] = <<>>) =>
              \A b \in Span(call[t]) \cap Settled(opened[t]) :
                  buf[t][b] = expect[opened[t]][b]
=============================================================================
