------------------------------ MODULE PostOffice ------------------------------
(***************************************************************************)
(* Mail between machines (network/post.cc) over the simulated network      *)
(* device (machine/network.cc).  Each machine is a UNIX process with its   *)
(* own kernel: threads that send and receive, a postal worker, and two     *)
(* interrupt handlers.  sendLock is a FIFO lock, as FifoLock has it; the   *)
(* list of a mailbox is changed under its own lock, which is held for the  *)
(* one change only.                                                        *)
(***************************************************************************)
EXTENDS Naturals, SequencesExt

CONSTANTS
    Machines, Boxes,
    Threads, MachineOf,     \* the threads, and where each runs
    Lossy,                  \* chanceToWork is less than 1
    MaxSends,               \* bound: the messages a thread sends
    NoMail

ASSUME PostOfficeAssumption ==
    /\ MachineOf \in [Threads -> Machines]
    /\ Lossy \in BOOLEAN
    /\ MaxSends \in Nat

\* a message, with the headers that PostOffice and Network look at
Mail == [sender : Threads, number : 1 .. MaxSends, to : Machines, box : Boxes]

ASSUME NoMailAssumption == NoMail \notin Mail

VARIABLES
    place,              \* where in Send a thread is
    mail,               \* the message it is sending
    sent,               \* how many messages it has sent
    sendQueue,          \* sendLock: its owner first, then those that wait
    messageSent,        \* the two semaphores
    messageAvailable,
    sendPending,        \* NetworkSendDone is scheduled
    socket,             \* the datagrams in the machine's UNIX socket
    inbox,              \* the packet the device has buffered
    worker,             \* the postal worker: where it is in PostalDelivery
    held,               \* the packet it has taken from the device
    boxes,              \* the mailboxes
    aborted,            \* the machines on which an assertion failed
    kept, got           \* history: the packets not dropped by the device of each
                        \* machine, the mail received from each mailbox

threadVars == <<place, mail, sent>>
netVars == <<messageSent, sendPending, socket, kept>>
workVars == <<messageAvailable, inbox, worker, held>>
vars == <<threadVars, sendQueue, netVars, workVars, boxes, aborted, got>>

TypeOK ==
    /\ place \in [Threads -> {"out", "acquire", "sent", "release"}]
    /\ mail \in [Threads -> Mail \cup {NoMail}]
    /\ sent \in [Threads -> 0 .. MaxSends]
    /\ \A m \in Machines :
          /\ IsInjective(sendQueue[m])
          /\ ToSet(sendQueue[m]) =
                {t \in Threads : MachineOf[t] = m /\ place[t] # "out"}
          /\ messageSent[m] \in {0, 1} /\ messageAvailable[m] \in {0, 1}
          /\ sendPending[m] \in BOOLEAN
          /\ inbox[m] \in Mail \cup {NoMail}
          /\ worker[m] \in {"wait", "receive", "put"}
          /\ worker[m] = "put" <=> held[m] # NoMail
    /\ aborted \subseteq Machines

Init ==
    /\ place = [t \in Threads |-> "out"]
    /\ mail = [t \in Threads |-> NoMail]
    /\ sent = [t \in Threads |-> 0]
    /\ sendQueue = [m \in Machines |-> <<>>]
    /\ messageSent = [m \in Machines |-> 0]
    /\ messageAvailable = [m \in Machines |-> 0]
    /\ sendPending = [m \in Machines |-> FALSE]
    /\ socket = [m \in Machines |-> <<>>]
    /\ inbox = [m \in Machines |-> NoMail]
    /\ worker = [m \in Machines |-> "wait"]
    /\ held = [m \in Machines |-> NoMail]
    /\ boxes = [m \in Machines |-> [b \in Boxes |-> <<>>]]
    /\ aborted = {}
    /\ kept = [m \in Machines |-> <<>>]
    /\ got = [m \in Machines |-> [b \in Boxes |-> <<>>]]

Running(t) == MachineOf[t] \notin aborted

-----------------------------------------------------------------------------
(* PostOffice::Send and Network::Send.                                     *)

\* the call, to its request for sendLock
Send(t, to, b) ==
    /\ Running(t)
    /\ place[t] = "out"
    /\ sent[t] < MaxSends
    /\ sent' = [sent EXCEPT ![t] = @ + 1]
    /\ mail' = [mail EXCEPT ![t] =
                  [sender |-> t, number |-> sent[t] + 1, to |-> to, box |-> b]]
    /\ sendQueue' = [sendQueue EXCEPT ![MachineOf[t]] = Append(@, t)]
    /\ place' = [place EXCEPT ![t] = "acquire"]
    /\ UNCHANGED <<netVars, workVars, boxes, aborted, got>>

\* With the lock: the interrupt is scheduled; the packet is dropped, or goes to
\* the other machine's socket, which must exist.
NetworkSend(t) ==
    LET m == MachineOf[t]
        to == mail[t].to
    IN
    /\ Running(t)
    /\ place[t] = "acquire" /\ Head(sendQueue[m]) = t
    /\ sendPending' = [sendPending EXCEPT ![m] = TRUE]
    /\ \/ /\ Lossy
          /\ place' = [place EXCEPT ![t] = "sent"]
          /\ UNCHANGED <<socket, kept, aborted>>
       \/ /\ to \notin aborted
          /\ kept' = [kept EXCEPT ![m] = Append(@, mail[t])]
          /\ socket' = [socket EXCEPT ![to] = Append(@, mail[t])]
          /\ place' = [place EXCEPT ![t] = "sent"]
          /\ UNCHANGED aborted
       \/ /\ to \in aborted
          /\ aborted' = aborted \cup {m}
          /\ UNCHANGED <<socket, kept, place>>
    /\ UNCHANGED <<mail, sent, sendQueue, messageSent, workVars, boxes, got>>

PacketSentLost(m) ==                    \* bug: the handler does not call V
    /\ m \notin aborted
    /\ sendPending[m]
    /\ sendPending' = [sendPending EXCEPT ![m] = FALSE]
    /\ UNCHANGED <<threadVars, sendQueue, messageSent, socket, kept, workVars, boxes,
                   aborted, got>>

\* Network::SendDone and PostOffice::PacketSent
PacketSent(m) ==
    /\ m \notin aborted
    /\ sendPending[m]
    /\ sendPending' = [sendPending EXCEPT ![m] = FALSE]
    /\ messageSent' = [messageSent EXCEPT ![m] = @ + 1]
    /\ UNCHANGED <<threadVars, sendQueue, socket, kept, workVars, boxes, aborted, got>>

\* messageSent->P
AwaitSent(t) ==
    LET m == MachineOf[t] IN
    /\ Running(t)
    /\ place[t] = "sent" /\ messageSent[m] > 0
    /\ messageSent' = [messageSent EXCEPT ![m] = @ - 1]
    /\ place' = [place EXCEPT ![t] = "release"]
    /\ UNCHANGED <<mail, sent, sendQueue, sendPending, socket, kept, workVars, boxes,
                   aborted, got>>

\* sendLock->Release, and the return
SendReturn(t) ==
    /\ Running(t)
    /\ place[t] = "release"
    /\ sendQueue' = [sendQueue EXCEPT ![MachineOf[t]] = Tail(@)]
    /\ place' = [place EXCEPT ![t] = "out"]
    /\ mail' = [mail EXCEPT ![t] = NoMail]
    /\ UNCHANGED <<sent, netVars, workVars, boxes, aborted, got>>

-----------------------------------------------------------------------------
(* Arrival and delivery.                                                   *)

CheckPktAvailAlways(m) ==               \* bug: the buffer may be full
    /\ m \notin aborted
    /\ socket[m] # <<>>
    /\ inbox' = [inbox EXCEPT ![m] = Head(socket[m])]
    /\ socket' = [socket EXCEPT ![m] = Tail(@)]
    /\ messageAvailable' = [messageAvailable EXCEPT ![m] = @ + 1]
    /\ UNCHANGED <<threadVars, sendQueue, messageSent, sendPending, kept, worker, held,
                   boxes, aborted, got>>

\* the poll of the device, and PostOffice::IncomingPacket
CheckPktAvail(m) ==
    /\ m \notin aborted
    /\ inbox[m] = NoMail
    /\ socket[m] # <<>>
    /\ inbox' = [inbox EXCEPT ![m] = Head(socket[m])]
    /\ socket' = [socket EXCEPT ![m] = Tail(@)]
    /\ messageAvailable' = [messageAvailable EXCEPT ![m] = @ + 1]
    /\ UNCHANGED <<threadVars, sendQueue, messageSent, sendPending, kept, worker, held,
                   boxes, aborted, got>>

\* PostalDelivery: messageAvailable->P
AwaitPacket(m) ==
    /\ m \notin aborted
    /\ worker[m] = "wait" /\ messageAvailable[m] > 0
    /\ messageAvailable' = [messageAvailable EXCEPT ![m] = @ - 1]
    /\ worker' = [worker EXCEPT ![m] = "receive"]
    /\ UNCHANGED <<threadVars, sendQueue, netVars, inbox, held, boxes, aborted, got>>

NetworkReceiveKept(m) ==                \* bug: inHdr.length is not reset
    /\ m \notin aborted
    /\ worker[m] = "receive"
    /\ held' = [held EXCEPT ![m] = inbox[m]]
    /\ worker' = [worker EXCEPT ![m] = "put"]
    /\ UNCHANGED <<threadVars, sendQueue, netVars, messageAvailable, inbox, boxes, aborted,
                   got>>

\* Network::Receive
NetworkReceive(m) ==
    /\ m \notin aborted
    /\ worker[m] = "receive"
    /\ held' = [held EXCEPT ![m] = inbox[m]]
    /\ inbox' = [inbox EXCEPT ![m] = NoMail]
    /\ worker' = [worker EXCEPT ![m] = "put"]
    /\ UNCHANGED <<threadVars, sendQueue, netVars, messageAvailable, boxes, aborted, got>>

PutFirst(m) ==                          \* bug: Prepend for Append
    /\ m \notin aborted
    /\ worker[m] = "put"
    /\ boxes' = [boxes EXCEPT ![m][held[m].box] = <<held[m]>> \o @]
    /\ held' = [held EXCEPT ![m] = NoMail]
    /\ worker' = [worker EXCEPT ![m] = "wait"]
    /\ UNCHANGED <<threadVars, sendQueue, netVars, messageAvailable, inbox, aborted, got>>

\* MailBox::Put
Put(m) ==
    /\ m \notin aborted
    /\ worker[m] = "put"
    /\ boxes' = [boxes EXCEPT ![m][held[m].box] = Append(@, held[m])]
    /\ held' = [held EXCEPT ![m] = NoMail]
    /\ worker' = [worker EXCEPT ![m] = "wait"]
    /\ UNCHANGED <<threadVars, sendQueue, netVars, messageAvailable, inbox, aborted, got>>

\* PostOffice::Receive.  When the box is empty SynchList::Remove calls
\* Condition::Wait, whose body is ASSERT(FALSE).
Receive(t, b) ==
    LET m == MachineOf[t] IN
    /\ Running(t)
    /\ place[t] = "out"
    /\ \/ /\ boxes[m][b] # <<>>
          /\ boxes' = [boxes EXCEPT ![m][b] = Tail(@)]
          /\ got' = [got EXCEPT ![m][b] = Append(@, Head(boxes[m][b]))]
          /\ UNCHANGED aborted
       \/ /\ boxes[m][b] = <<>>
          /\ aborted' = aborted \cup {m}
          /\ UNCHANGED <<boxes, got>>
    /\ UNCHANGED <<threadVars, sendQueue, netVars, workVars>>

-----------------------------------------------------------------------------

Next ==
    \/ \E t \in Threads :
          \/ \E to \in Machines, b \in Boxes : Send(t, to, b)
          \/ NetworkSend(t) \/ AwaitSent(t) \/ SendReturn(t)
          \/ \E b \in Boxes : Receive(t, b)
    \/ \E m \in Machines :
          \/ PacketSent(m) \/ CheckPktAvail(m)
          \/ AwaitPacket(m) \/ NetworkReceive(m) \/ Put(m)

Spec == Init /\ [][Next]_vars

\* The scheduler's ready list is FIFO and the device's interrupts are pending
\* until they are taken; programs need not send or receive.
FairSpec ==
    /\ Spec
    /\ \A t \in Threads :
          WF_vars(NetworkSend(t)) /\ WF_vars(AwaitSent(t)) /\ WF_vars(SendReturn(t))
    /\ \A m \in Machines :
          /\ WF_vars(PacketSent(m)) /\ WF_vars(CheckPktAvail(m))
          /\ WF_vars(AwaitPacket(m)) /\ WF_vars(NetworkReceive(m)) /\ WF_vars(Put(m))

-----------------------------------------------------------------------------
(* Properties.                                                             *)

\* network.cc:110, ASSERT(sendBusy == FALSE), which holds in the code because
\* nothing sets sendBusy: a thread gives the device a packet only when the
\* interrupt for the last one has come and its V has been taken.
SendAllowed ==
    \A t \in Threads :
        Running(t) /\ place[t] = "acquire" /\ Head(sendQueue[MachineOf[t]]) = t =>
            ~ sendPending[MachineOf[t]] /\ messageSent[MachineOf[t]] = 0

\* The device has a packet buffered when messageAvailable says so or the worker
\* is about to take it, and only then: the worker never takes an empty header.
PacketMatched ==
    \A m \in Machines :
        (inbox[m] # NoMail) <=> (messageAvailable[m] = 1 \/ worker[m] = "receive")

\* The two one-packet buffers of the device, for output and for input, are each
\* used by one at a time, whatever the order of threads and interrupts.
BuffersInv == TypeOK /\ SendAllowed /\ PacketMatched

\* the packets of s that are in S, in their order
Only(s, S) ==
    LET upTo[k \in 0 .. Len(s)] ==
            IF k = 0 THEN <<>>
            ELSE IF s[k] \in S THEN Append(upTo[k - 1], s[k]) ELSE upTo[k - 1]
    IN  upTo[Len(s)]

One(p) == IF p = NoMail THEN <<>> ELSE <<p>>

\* the packets on machine m that are not in a box yet, oldest first
OnTheWay(m) == One(held[m]) \o One(inbox[m]) \o socket[m]

\* the packets that are on machine m for box b, oldest first
Arrived(m, b) == got[m][b] \o boxes[m][b] \o Only(OnTheWay(m), {p \in Mail : p.box = b})

\* The mail for a box that the network does not drop arrives once and in the
\* order in which its machine sent it.
DeliveredInOrder ==
    \A m, from \in Machines, b \in Boxes :
        Only(Arrived(m, b), {p \in Mail : MachineOf[p.sender] = from})
            = Only(kept[from], {p \in Mail : p.to = m /\ p.box = b})

\* Every Send returns, unless an assertion stops its machine.
SendReturns ==
    \A t \in Threads : place[t] # "out" ~> place[t] = "out" \/ ~ Running(t)

\* What the network does not drop gets into the mailbox, unless an assertion
\* stops the machine it is for.
MailArrives ==
    \A t \in Threads, n \in 1 .. MaxSends :
        LET message == {p \in Mail : p.sender = t /\ p.number = n} IN
        message \cap ToSet(kept[MachineOf[t]]) # {} ~>
            \E p \in message :
                \/ p \in ToSet(boxes[p.to][p.box]) \cup ToSet(got[p.to][p.box])
                \/ p \in ToSet(kept[MachineOf[t]]) /\ p.to \in aborted
=============================================================================
