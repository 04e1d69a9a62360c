-------------------------------- MODULE Console --------------------------------
(***************************************************************************)
(* The console device (machine/console.cc) and the kernel's test of it,    *)
(* ConsoleTest (userprog/progtest.cc): a thread that waits for a           *)
(* character, echoes it and waits until it is displayed.  EOF is the value *)
(* by which the device knows that its buffer is empty; a character is      *)
(* signed in the i386 build, so that EOF is also the byte 0xFF.  Chars may *)
(* contain it.                                                             *)
(***************************************************************************)
EXTENDS Naturals, SequencesExt

CONSTANTS
    Chars,          \* what is typed
    Q,              \* 'q'
    EOF,
    MaxTyped        \* bound: how many characters are typed

ASSUME ConsoleAssumption == Q \in Chars /\ Q # EOF /\ MaxTyped \in Nat

VARIABLES
    keyboard,       \* what the UNIX file readFileNo has to read
    closed,         \* that file has no more to come
    incoming, putBusy,
    writePending,   \* ConsoleWriteDone is scheduled
    readAvail, writeDone,   \* the test's semaphores
    stage,          \* where ConsoleTest is
    ch,             \* its local variable
    display,        \* what has been written to writeFileNo
    failed,        \* an assertion failed
    typed           \* history: all that was typed

testVars == <<stage, ch, display>>
consoleVars == <<keyboard, closed, incoming, putBusy, writePending, readAvail, writeDone,
          testVars, failed, typed>>

ConsoleTypeOK ==
    /\ incoming \in Chars \cup {EOF}
    /\ putBusy \in BOOLEAN /\ writePending = putBusy
    /\ readAvail \in {0, 1} /\ writeDone \in {0, 1}
    /\ stage \in {"wait", "echo", "written", "done"}
    /\ ch \in Chars \cup {EOF}
    /\ closed \in BOOLEAN /\ failed \in BOOLEAN

ConsoleInit ==
    /\ keyboard = <<>> /\ closed = FALSE
    /\ incoming = EOF /\ putBusy = FALSE /\ writePending = FALSE
    /\ readAvail = 0 /\ writeDone = 0
    /\ stage = "wait" /\ ch = EOF /\ display = <<>>
    /\ failed = FALSE
    /\ typed = <<>>

\* main calls Halt when ConsoleTest returns
Testing == ~ failed /\ stage # "done"

Type(c) ==
    /\ Testing
    /\ ~ closed /\ Len(typed) < MaxTyped
    /\ keyboard' = Append(keyboard, c)
    /\ typed' = Append(typed, c)
    /\ UNCHANGED <<closed, incoming, putBusy, writePending, readAvail, writeDone, testVars,
                   failed>>

\* the end of the file that stands for the keyboard
Close ==
    /\ Testing
    /\ ~ closed
    /\ closed' = TRUE
    /\ UNCHANGED <<keyboard, incoming, putBusy, writePending, readAvail, writeDone, testVars,
                   failed, typed>>

CheckCharAvailAlways ==                 \* bug: the buffer may be full
    /\ Testing
    /\ keyboard # <<>>
    /\ incoming' = Head(keyboard)
    /\ keyboard' = Tail(keyboard)
    /\ readAvail' = readAvail + 1
    /\ UNCHANGED <<closed, putBusy, writePending, writeDone, testVars, failed, typed>>

\* The poll of the keyboard.  A file at its end polls as readable, and the Read
\* of a character from it fails its assertion.
CheckCharAvail ==
    /\ Testing
    /\ incoming = EOF
    /\ \/ /\ keyboard # <<>>
          /\ incoming' = Head(keyboard)
          /\ keyboard' = Tail(keyboard)
          /\ readAvail' = readAvail + 1
          /\ UNCHANGED failed
       \/ /\ keyboard = <<>> /\ closed
          /\ failed' = TRUE
          /\ UNCHANGED <<incoming, keyboard, readAvail>>
    /\ UNCHANGED <<closed, putBusy, writePending, writeDone, testVars, typed>>

WriteDoneLost ==                        \* bug: writeHandler is not called
    /\ Testing
    /\ writePending
    /\ writePending' = FALSE
    /\ putBusy' = FALSE
    /\ UNCHANGED <<keyboard, closed, incoming, writeDone, readAvail, testVars, failed,
                   typed>>

\* the interrupt at the end of a write
WriteDone ==
    /\ Testing
    /\ writePending
    /\ writePending' = FALSE
    /\ putBusy' = FALSE
    /\ writeDone' = writeDone + 1
    /\ UNCHANGED <<keyboard, closed, incoming, readAvail, testVars, failed, typed>>

\* readAvail->P
AwaitRead ==
    /\ Testing
    /\ stage = "wait" /\ readAvail > 0
    /\ readAvail' = readAvail - 1
    /\ stage' = "echo"
    /\ UNCHANGED <<keyboard, closed, incoming, putBusy, writePending, writeDone, ch, display,
                   failed, typed>>

\* GetChar and PutChar: no simulated time passes between the two
Echo ==
    /\ Testing
    /\ stage = "echo"
    /\ ch' = incoming
    /\ incoming' = EOF
    /\ \/ /\ ~ putBusy
          /\ display' = Append(display, incoming)
          /\ putBusy' = TRUE
          /\ writePending' = TRUE
          /\ stage' = "written"
          /\ UNCHANGED failed
       \/ /\ putBusy
          /\ failed' = TRUE
          /\ UNCHANGED <<display, putBusy, writePending, stage>>
    /\ UNCHANGED <<keyboard, closed, readAvail, writeDone, typed>>

AwaitWriteNot ==                        \* bug: the next character is not held back
    /\ Testing
    /\ stage = "written"
    /\ stage' = IF ch = Q THEN "done" ELSE "wait"
    /\ UNCHANGED <<keyboard, closed, incoming, putBusy, writePending, readAvail, writeDone,
                   ch, display, failed, typed>>

\* writeDone->P, and the test for 'q'
AwaitWrite ==
    /\ Testing
    /\ stage = "written" /\ writeDone > 0
    /\ writeDone' = writeDone - 1
    /\ stage' = IF ch = Q THEN "done" ELSE "wait"
    /\ UNCHANGED <<keyboard, closed, incoming, putBusy, writePending, readAvail, ch, display,
                   failed, typed>>

ConsoleNext ==
    \/ \E c \in Chars : Type(c)
    \/ Close
    \/ CheckCharAvail \/ WriteDone
    \/ AwaitRead \/ Echo \/ AwaitWrite

ConsoleSpec == ConsoleInit /\ [][ConsoleNext]_consoleVars

\* The device's two interrupts are pending until they are taken, and the thread
\* is the only one; nobody has to type.
ConsoleFairness ==
    /\ WF_consoleVars(CheckCharAvail) /\ WF_consoleVars(WriteDone)
    /\ WF_consoleVars(AwaitRead) /\ WF_consoleVars(Echo) /\ WF_consoleVars(AwaitWrite)


-----------------------------------------------------------------------------
(* Properties.                                                             *)

\* PutChar's ASSERT(putBusy == FALSE) holds whenever ConsoleTest gets there.
PutAllowed == stage = "echo" => ~ putBusy

\* What is buffered in the device, if anything.
Buffered == IF incoming = EOF THEN <<>> ELSE <<incoming>>

\* console.cc:75-83: what was typed is displayed or buffered or still to be
\* read, in order, none of it lost or displayed twice.
EchoesAll == display \o Buffered \o keyboard = typed

\* The device's buffers for one character in each direction are kept apart by
\* the two semaphores alone, and nothing is lost between them.
ConsoleInv == ConsoleTypeOK /\ PutAllowed /\ EchoesAll

\* progtest.cc:89-90: what is typed is echoed, until a 'q'.
TypedIsEchoed ==
    \A n \in 1 .. MaxTyped :
        Len(typed) >= n ~> Len(display) >= n \/ stage = "done"
=============================================================================
