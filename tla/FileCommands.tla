----------------------------- MODULE FileCommands -----------------------------
(***************************************************************************)
(* The commands that use the file system (filesys/fstest.cc): nachos -cp,  *)
(* -p, -r and -t, one after the other in the thread main; and two threads  *)
(* that read and write a file that a -cp has made.                         *)
(***************************************************************************)
EXTENDS OpenFile

CONSTANTS
    main,
    Sharers,        \* the threads that read and write the file together
    UnixLengths,    \* how long the UNIX file may be
    SharedLengths,  \* the lengths for which the file is shared
    TransferSize,
    ContentSize,
    CopyFile, TestFile,
    Mark            \* the byte that each of the Sharers writes

ASSUME CommandsAssumption ==
    /\ Openers = {main} \cup Sharers
    /\ {CopyFile, TestFile} \subseteq Files
    /\ UnixLengths \subseteq Nat
    /\ TransferSize \in Nat \ {0} /\ ContentSize \in Nat \ {0}
    /\ Mark \in [Sharers -> Int]

VARIABLES
    job,        \* what the command line has led to
    unixLength, \* the length of the UNIX file
    transferred,\* how much of the UNIX file has been read
    screen      \* what Print has printed

commandVars == <<job, unixLength, transferred, screen>>
allVars == <<headerVars, ioVars, commandVars>>

CommandsInit ==
    /\ HeaderInit
    /\ OpenFileInit
    /\ job = "none"
    /\ unixLength = 0
    /\ transferred = 0
    /\ screen = <<>>

\* the bytes of the UNIX file, all different
UnixFile == [i \in 1 .. unixLength |-> i]

\* FileSystem::Create of a file of so many bytes; its sectors hold what they held
CreateFile(f, bytes) ==
    /\ Allocate(f, divRoundUp(bytes, SectorSize))
    /\ ~ aborted'
    /\ length' = [length EXCEPT ![f] = bytes]
    /\ expect' = [expect EXCEPT ![f] = [b \in 0 .. bytes - 1 |-> 0]]

-----------------------------------------------------------------------------
(* Copy.                                                                   *)

\* the disk is newly formatted
Formatted == job = "none" /\ Allocated = {} /\ ~ aborted

CopyStart ==
    \E n \in UnixLengths :
        /\ Formatted
        /\ unixLength' = n
        /\ \/ /\ divRoundUp(n, SectorSize) <= Cardinality(Sectors \ freeMap)
              /\ CreateFile(CopyFile, n)
              /\ OpenAs(main, CopyFile)
              /\ job' = "copy"
              /\ UNCHANGED <<data, call, todo, buf, result, raced>>
           \/ /\ divRoundUp(n, SectorSize) > Cardinality(Sectors \ freeMap)
              /\ job' = "done"
              /\ UNCHANGED <<headerVars, ioVars>>
        /\ UNCHANGED <<transferred, screen>>

\* fread of a chunk, and its Write
CopyChunk ==
    LET amountRead == Min({TransferSize, unixLength - transferred}) IN
    /\ job = "copy" /\ amountRead > 0
    /\ Write(main, SubSeq(UnixFile, transferred + 1, transferred + amountRead))
    /\ transferred' = transferred + amountRead
    /\ UNCHANGED <<headerVars, job, unixLength, screen>>

CopyEnd ==
    /\ job = "copy" /\ call[main] = NoCall /\ transferred = unixLength
    /\ job' = "copied"
    /\ opened' = [opened EXCEPT ![main] = NoFile]
    /\ UNCHANGED <<headerVars, length, data, seekPosition, call, todo, buf, result, expect,
                   raced, unixLength, transferred, screen>>

-----------------------------------------------------------------------------
(* Print and Remove.                                                       *)

PrintStart ==
    /\ job = "copied"
    /\ OpenAs(main, CopyFile)
    /\ result' = [result EXCEPT ![main] = NoBytes]
    /\ job' = "print"
    /\ UNCHANGED <<headerVars, length, data, call, todo, buf, expect, raced,
                   unixLength, transferred, screen>>

PrintRead ==
    /\ job = "print" /\ Read(main, TransferSize)
    /\ job' = "print chunk"
    /\ UNCHANGED <<headerVars, unixLength, transferred, screen>>

\* Read returns, and its bytes are printed, if there are any
PrintChunk ==
    /\ job = "print chunk" /\ call[main] = NoCall
    /\ screen' = screen \o result[main].bytes
    /\ \/ /\ result[main].amount > 0
          /\ job' = "print"
          /\ UNCHANGED opened
       \/ /\ result[main].amount <= 0
          /\ job' = "printed"
          /\ opened' = [opened EXCEPT ![main] = NoFile]
    /\ UNCHANGED <<headerVars, length, data, seekPosition, call, todo, buf, result, expect,
                   raced, unixLength, transferred>>

RemoveFile(f) ==
    /\ Deallocate(f)
    /\ length' = [length EXCEPT ![f] = 0]
    /\ expect' = [expect EXCEPT ![f] = <<>>]
    /\ job' = "done"
    /\ UNCHANGED <<data, opened, seekPosition, call, todo, buf, result, raced,
                   unixLength, transferred, screen>>

RemoveCopy == job \in {"copied", "printed"} /\ RemoveFile(CopyFile)

-----------------------------------------------------------------------------
(* PerformanceTest.  Create makes the file of 0 bytes, and a file never    *)
(* grows: the first Write and the first Read fall short and end the loops. *)

PerfStart ==
    /\ Formatted
    /\ CreateFile(TestFile, 0)
    /\ OpenAs(main, TestFile)
    /\ job' = "perf"
    /\ UNCHANGED <<data, call, todo, buf, result, raced, unixLength, transferred, screen>>

FileWrite ==
    /\ job = "perf"
    /\ Write(main, [i \in 1 .. ContentSize |-> i])
    /\ job' = "perf written"
    /\ UNCHANGED <<headerVars, unixLength, transferred, screen>>

FileRead ==
    /\ job = "perf written" /\ call[main] = NoCall
    /\ result[main].amount < ContentSize        \* "unable to write"
    /\ Read(main, ContentSize)
    /\ job' = "perf read"
    /\ UNCHANGED <<headerVars, unixLength, transferred, screen>>

PerformanceTest ==
    /\ job = "perf read" /\ call[main] = NoCall
    /\ result[main].amount < ContentSize        \* "unable to read"
    /\ RemoveFile(TestFile)

-----------------------------------------------------------------------------
(* Two threads open the file, and each makes one call, anywhere in it.     *)

ShareStart ==
    /\ job \in {"copied", "printed"} /\ unixLength \in SharedLengths
    /\ opened' = [t \in Openers |-> IF t \in Sharers THEN CopyFile ELSE NoFile]
    /\ seekPosition' = [t \in Openers |-> 0]
    /\ job' = "share"
    /\ UNCHANGED <<headerVars, length, data, call, todo, buf, result, expect, raced,
                   unixLength, transferred, screen>>

ShareSeek(t) ==
    /\ job = "share" /\ seekPosition[t] = 0 /\ result[t] = NoBytes
    /\ \E p \in 1 .. unixLength : Seek(t, p)
    /\ UNCHANGED <<headerVars, commandVars>>

ShareCall(t) ==
    /\ job = "share" /\ result[t] = NoBytes
    /\ \E n \in 1 .. unixLength :
          Read(t, n) \/ Write(t, [i \in 1 .. n |-> Mark[t]])
    /\ UNCHANGED <<headerVars, commandVars>>

-----------------------------------------------------------------------------

\* the steps of the call that a thread is in
CallStep(t) ==
    /\ ReadSector(t) \/ WriteSector(t) \/ Return(t)
    /\ UNCHANGED commandVars

\* files of any size are allocated and freed, with no commands
HeaderStep == job = "none" /\ HeaderNext /\ UNCHANGED <<ioVars, commandVars>>

CommandsNext ==
    /\ ~ aborted
    /\ \/ HeaderStep
       \/ CopyStart \/ CopyChunk \/ CopyEnd
       \/ PrintStart \/ PrintRead \/ PrintChunk \/ RemoveCopy
       \/ PerfStart \/ FileWrite \/ FileRead \/ PerformanceTest
       \/ ShareStart
       \/ \E t \in Sharers : ShareSeek(t) \/ ShareCall(t)
       \/ \E t \in Openers : CallStep(t)

CommandsSpec == CommandsInit /\ [][CommandsNext]_allVars

-----------------------------------------------------------------------------
(* Properties.                                                             *)

\* fstest.cc:29, 75: what nachos -p prints of a file made by nachos -cp is the
\* UNIX file, whatever its length, in chunks that fit neither the sectors nor
\* the three tiers of the header.
PrintIsCopy == job = "printed" => screen = UnixFile
=============================================================================
