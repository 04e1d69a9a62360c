--------------------------- MODULE AtomicFileSystem ---------------------------
(***************************************************************************)
(* What the file system promises (filesys/filesys.h, filesys/openfile.h):  *)
(* files have names and a fixed number of sectors; each call happens at    *)
(* one moment between its start and its return, or fails and changes       *)
(* nothing; a stop of the machine ends the calls and keeps the files.      *)
(***************************************************************************)
EXTENDS Naturals, Sequences

CONSTANTS Callers, Names, MaxSize, Data, NoFile, NoCall

VARIABLES
    files,      \* the contents of each file, NoFile if there is none
    call,       \* what each caller has called
    stage,      \* whether the call has happened, and with what result
    handle      \* the name of the file each caller has open

Calls == [op : {"Create", "Open", "Remove", "Read", "Write", "Close"},
          name : Names, number : 0 .. MaxSize, data : Data]

Init ==
    /\ files = [n \in Names |-> NoFile]
    /\ call = [c \in Callers |-> NoCall]
    /\ stage = [c \in Callers |-> "idle"]
    /\ handle = [c \in Callers |-> NoFile]

Start(c) ==
    /\ stage[c] = "idle"
    /\ \E k \in Calls : call' = [call EXCEPT ![c] = k]
    /\ stage' = [stage EXCEPT ![c] = "called"]
    /\ UNCHANGED <<files, handle>>

Happen(c, op, result) ==
    /\ stage[c] = "called" /\ call[c].op = op
    /\ stage' = [stage EXCEPT ![c] = result]

\* a new file holds whatever its sectors held; the disk or the directory may be full
Create(c) ==
    LET n == call[c].name IN
    /\ UNCHANGED <<call, handle>>
    /\ \/ /\ Happen(c, "Create", "true")
          /\ files[n] = NoFile
          /\ files'[n] # NoFile /\ Len(files'[n]) = call[c].number
          /\ \A m \in Names \ {n} : files'[m] = files[m]
       \/ Happen(c, "Create", "false") /\ UNCHANGED files

Open(c) ==
    LET n == call[c].name IN
    /\ UNCHANGED <<files, call>>
    /\ \/ /\ Happen(c, "Open", "true")
          /\ files[n] # NoFile
          /\ handle' = [handle EXCEPT ![c] = n]
       \/ Happen(c, "Open", "false") /\ files[n] = NoFile /\ UNCHANGED handle

Remove(c) ==
    LET n == call[c].name IN
    /\ UNCHANGED <<call, handle>>
    /\ \/ /\ Happen(c, "Remove", "true")
          /\ files[n] # NoFile
          /\ files' = [files EXCEPT ![n] = NoFile]
       \/ Happen(c, "Remove", "false") /\ files[n] = NoFile /\ UNCHANGED files

\* one sector of the open file; past its end nothing is transferred
Read(c) ==
    LET n == handle[c]  i == call[c].number IN
    /\ UNCHANGED <<files, handle>>
    /\ \/ /\ Happen(c, "Read", "true")
          /\ i \in 1 .. Len(files[n])
          /\ call' = [call EXCEPT ![c].data = files[n][i]]
       \/ Happen(c, "Read", "false") /\ i \notin 1 .. Len(files[n]) /\ UNCHANGED call

Write(c) ==
    LET n == handle[c]  i == call[c].number IN
    /\ UNCHANGED <<call, handle>>
    /\ \/ /\ Happen(c, "Write", "true")
          /\ i \in 1 .. Len(files[n])
          /\ files' = [files EXCEPT ![n][i] = call[c].data]
       \/ Happen(c, "Write", "false") /\ i \notin 1 .. Len(files[n]) /\ UNCHANGED files

Close(c) ==
    /\ Happen(c, "Close", "true")
    /\ handle' = [handle EXCEPT ![c] = NoFile]
    /\ UNCHANGED <<files, call>>

Return(c) ==
    /\ stage[c] \in {"true", "false"}
    /\ stage' = [stage EXCEPT ![c] = "idle"]
    /\ call' = [call EXCEPT ![c] = NoCall]
    /\ UNCHANGED <<files, handle>>

Crash ==
    /\ call' = [c \in Callers |-> NoCall]
    /\ stage' = [c \in Callers |-> "idle"]
    /\ handle' = [c \in Callers |-> NoFile]
    /\ UNCHANGED files

Next ==
    \/ \E c \in Callers :
          \/ Start(c) \/ Create(c) \/ Open(c) \/ Remove(c) \/ Close(c) \/ Return(c)
          \/ handle[c] # NoFile /\ (Read(c) \/ Write(c))
    \/ Crash

Spec == Init /\ [][Next]_<<files, call, stage, handle>>
=============================================================================
