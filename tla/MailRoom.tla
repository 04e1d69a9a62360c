------------------------------- MODULE MailRoom -------------------------------
(***************************************************************************)
(* The post office of threads/threadtest.cc (older tree): nachos -A 5 with *)
(* an array of slots and busy waiting, -A 6 with a semaphore per mailbox,  *)
(* whose value is the number of free places.                               *)
(***************************************************************************)
EXTENDS Programs

CONSTANTS
    S,          \* the messages a mailbox is to hold
    Box         \* boxOffice: the semaphore of each person's mailbox

ASSUME MailAssumption ==
    /\ S \in Nat \ {0}
    /\ Box \in [0..(N - 1) -> Semaphores]
    /\ \A i \in 0..(N - 1) : InitialValue[Box[i]] = S
    /\ \A i, j \in 0..(N - 1) : Box[i] = Box[j] => i = j

VARIABLES
    M,              \* the messages to be sent
    messageSend,    \* those that are left to be sent
    messageRead,    \* those that have been read
    hasMail,        \* somebody has written since a mailbox was last read
    postOffice,     \* the slots 0..S-1, and the word behind them, S, which
                    \* composeMail uses too
    slot,           \* the loop variable of readingMail
    hereAgain       \* composeMail was called a second time, by Busy

mailVars == <<M, messageSend, messageRead, hasMail, postOffice, slot, hereAgain>>

People == 0..(N - 1)

MailInit ==
    /\ messageRead = 0
    /\ hasMail = FALSE
    /\ postOffice = memory.postOffice
    /\ slot = [t \in Workers |-> 0]
    /\ hereAgain = [t \in Workers |-> FALSE]

\* the body of Post1 and of Post2
BeginMail(t) ==
    /\ task \in {5, 6}
    /\ At(t, "start")
    /\ Local(t, IF task = 5 THEN "enter5" ELSE "enter6")
    /\ UNCHANGED <<mailVars, toWait>>

\* Random() % P until it is somebody else
Receivers(t) == People \ {Number[t]}

-----------------------------------------------------------------------------
(* Task 5: EnterPost, readingMail, composeMail, Busy and LeavePost.        *)

EnterPost(t) ==
    /\ At(t, "enter5")
    /\ \/ /\ hasMail
          /\ slot' = [slot EXCEPT ![t] = 0]
          /\ Local(t, "reading")
          /\ UNCHANGED hereAgain
       \/ /\ ~ hasMail /\ messageSend > 0
          /\ hereAgain' = [hereAgain EXCEPT ![t] = FALSE]
          /\ Local(t, "compose5")
          /\ UNCHANGED slot
       \/ /\ ~ hasMail /\ messageSend <= 0
          /\ Local(t, "leave5")
          /\ UNCHANGED <<slot, hereAgain>>
    /\ UNCHANGED <<M, messageSend, messageRead, hasMail, postOffice, toWait>>

\* a turn of the loop over the slots; it yields before it counts the message
readingMail(t) ==
    LET i == Number[t] IN
    /\ At(t, "reading")
    /\ \/ /\ slot[t] < S /\ postOffice[i][slot[t]]
          /\ postOffice' = [postOffice EXCEPT ![i][slot[t]] = FALSE]
          /\ CallYield(t, "read5")
          /\ UNCHANGED <<slot, hasMail>>
       \/ /\ slot[t] < S /\ ~ postOffice[i][slot[t]]
          /\ slot' = [slot EXCEPT ![t] = @ + 1]
          /\ Local(t, "reading")
          /\ UNCHANGED <<postOffice, hasMail>>
       \/ /\ slot[t] = S
          /\ hasMail' = FALSE
          /\ Local(t, "leave5")
          /\ UNCHANGED <<postOffice, slot>>
    /\ UNCHANGED <<M, messageSend, messageRead, hereAgain, toWait>>

CountRead5(t) ==
    /\ At(t, "read5")
    /\ messageRead' = messageRead + 1
    /\ slot' = [slot EXCEPT ![t] = @ + 1]
    /\ Local(t, "reading")
    /\ UNCHANGED <<M, messageSend, hasMail, postOffice, hereAgain, toWait>>

\* the first free slot: the test of the slot comes before that of the bound,
\* and a full mailbox gives S
FreeSlot(box) ==
    IF \E k \in 0..(S - 1) : ~ box[k]
    THEN CHOOSE k \in 0..(S - 1) : ~ box[k] /\ \A j \in 0..(k - 1) : box[j]
    ELSE S

\* called again by Busy, it looks at the first slot only, and does not test
\* messageSend again
composeMail(t) ==
    /\ At(t, "compose5")
    /\ \E r \in Receivers(t) :
          LET k == IF hereAgain[t] THEN 0 ELSE FreeSlot(postOffice[r]) IN
          \/ /\ ~ postOffice[r][k]
             /\ postOffice' = [postOffice EXCEPT ![r][k] = TRUE]
             /\ hasMail' = TRUE
             /\ messageSend' = messageSend - 1
             /\ Local(t, "leave5")
             /\ UNCHANGED <<slot, toWait>>
          \/ /\ postOffice[r][k] /\ ~ hereAgain[t]
             /\ toWait' = [toWait EXCEPT ![t] = 3]
             /\ Local(t, "busy")
             /\ UNCHANGED <<postOffice, hasMail, messageSend, slot>>
          \/ /\ postOffice[r][k] /\ hereAgain[t]
             /\ slot' = [slot EXCEPT ![t] = 0]
             /\ Local(t, "reading")
             /\ UNCHANGED <<postOffice, hasMail, messageSend, toWait>>
    /\ UNCHANGED <<M, messageRead, hereAgain>>

Busy(t) ==
    /\ At(t, "busy")
    /\ \/ Waiting(t, "busy") /\ UNCHANGED hereAgain
       \/ /\ toWait[t] = 0
          /\ hereAgain' = [hereAgain EXCEPT ![t] = TRUE]
          /\ Local(t, "compose5")
          /\ UNCHANGED toWait
    /\ UNCHANGED <<M, messageSend, messageRead, hasMail, postOffice, slot>>

LeavePost(t) ==
    /\ \/ At(t, "leave5") /\ Pause(t) /\ Local(t, "leaving5")
       \/ At(t, "leaving5") /\ Waiting(t, "leaving5")
       \/ /\ At(t, "leaving5") /\ toWait[t] = 0
          /\ \/ messageSend = 0 /\ CallFinish(t, "left")
             \/ messageSend # 0 /\ Local(t, "enter5")
          /\ UNCHANGED toWait
    /\ UNCHANGED mailVars

-----------------------------------------------------------------------------
(* Task 6: Entering, ReadMail, ComposeMessage and LeavingPost.             *)

Value(i) == semValue[Box[i]]

\* ReadMail, which calls itself, and Entering begin with the same test
Entering(t) ==
    LET i == Number[t] IN
    /\ At(t, "enter6")
    /\ \/ Value(i) < S /\ CallV(t, Box[i], "took")
       \/ Value(i) >= S /\ Local(t, "compose6")
    /\ UNCHANGED <<mailVars, toWait>>

ReadMail(t) ==
    LET i == Number[t] IN
    /\ \/ /\ At(t, "took")
          /\ CallYield(t, "read6")
          /\ UNCHANGED messageRead
       \/ /\ At(t, "read6")
          /\ messageRead' = messageRead + 1
          /\ Local(t, "readNext")
       \/ /\ At(t, "readNext")
          /\ \/ Value(i) < S /\ CallV(t, Box[i], "took")
             \/ Value(i) >= S /\ Local(t, "leave6")
          /\ UNCHANGED messageRead
    /\ UNCHANGED <<M, messageSend, hasMail, postOffice, slot, hereAgain, toWait>>

ComposeMessageFull(t) ==                \* bug: a full mailbox is not waited for
    /\ \/ /\ At(t, "compose6") /\ messageSend # 0
          /\ \E r \in Receivers(t) : IF Value(r) > 0 THEN CallP(t, Box[r], "sent")
                                                   ELSE Local(t, "sent")
          /\ UNCHANGED messageSend
       \/ /\ At(t, "sent")
          /\ messageSend' = messageSend - 1
          /\ Local(t, "leave6")
    /\ UNCHANGED <<M, messageRead, hasMail, postOffice, slot, hereAgain, toWait>>

ComposeMessage(t) ==
    /\ \/ /\ At(t, "compose6")
          /\ \/ messageSend # 0 /\ \E r \in Receivers(t) : CallP(t, Box[r], "sent")
             \/ messageSend = 0 /\ Local(t, "leave6")
          /\ UNCHANGED messageSend
       \/ /\ At(t, "sent")
          /\ messageSend' = messageSend - 1
          /\ Local(t, "leave6")
    /\ UNCHANGED <<M, messageRead, hasMail, postOffice, slot, hereAgain, toWait>>

\* a thread that neither finishes nor enters again returns, and so ends too
LeavingPost(t) ==
    /\ \/ At(t, "leave6") /\ Pause(t) /\ Local(t, "leaving6")
       \/ At(t, "leaving6") /\ Waiting(t, "leaving6")
       \/ /\ At(t, "leaving6") /\ toWait[t] = 0
          /\ \/ (messageRead < M \/ messageSend > 0) /\ Local(t, "enter6")
             \/ ~ (messageRead < M \/ messageSend > 0) /\ CallFinish(t, "left")
          /\ UNCHANGED toWait
    /\ UNCHANGED mailVars

-----------------------------------------------------------------------------

MailStep(t) ==
    /\ t \in Workers
    /\ \/ BeginMail(t)
       \/ EnterPost(t) \/ readingMail(t) \/ CountRead5(t) \/ composeMail(t)
       \/ Busy(t) \/ LeavePost(t)
       \/ Entering(t) \/ ReadMail(t) \/ ComposeMessage(t) \/ LeavingPost(t)

-----------------------------------------------------------------------------
(* Properties.                                                             *)

\* the threads that have put a message in a box, or taken one, and have not
\* counted it yet
Sent == {t \in Workers : pc[t] = "sent" /\ resume[t] # "P"}
Took == {t \in Workers : pc[t] \in {"took", "read6", "read5"}}

\* the messages that are in the mailboxes: a slot of the array that is TRUE, or
\* a place that the semaphore has given away
Slots == People \X (0..(S - 1))

Stored ==
    IF task = 5
    THEN Cardinality({x \in Slots : postOffice[x[1]][x[2]]})
    ELSE Cardinality({x \in People \X (1..S) : Value(x[1]) < x[2]})

\* those that nobody wrote: new bool[S] is not set to FALSE
Found ==
    IF task = 5 THEN Cardinality({x \in Slots : memory.postOffice[x[1]][x[2]]}) ELSE 0

\* The full boxes of which composeMail has used the word behind the last slot.
\* It writes there once, since it finds that word TRUE from then on.
Overrun ==
    {x \in People \X {S} :
        task = 5 /\ postOffice[x[1]][x[2]] /\ ~ memory.postOffice[x[1]][x[2]]}

\* what has been sent, and those that were found, against what there is of it
Sendings == Found + (M - messageSend) + Cardinality(Sent) - (IF task = 5 THEN 1 ELSE 0)
Kept == Stored + Cardinality(Took) + messageRead

\* A message that has been sent is in a mailbox, or has been taken out of it and
\* is counted once as read, or is the one message that a full box loses: with the
\* semaphores of task 6 none is.  None is made up but those found at the start.
MailConserved ==
    task \in {5, 6} => Sendings = Kept + Cardinality(Overrun)
=============================================================================
