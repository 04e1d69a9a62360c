----------------------------- MODULE DeviceProofs -----------------------------
(***************************************************************************)
(* The one-packet buffers of the network device, and the one-character     *)
(* buffers of the console, are used by one at a time, and mail arrives in  *)
(* order, for any machines, threads, mailboxes and characters.             *)
(***************************************************************************)
EXTENDS PostOffice, Console, SequenceTheorems, WellFoundedInduction,
        TLAPS

(* The lists of threads that wait for a lock.                              *)

Enumerates(s, S) == s \in Seq(Threads) /\ ToSet(s) = S /\ IsInjective(s)

\* A thread that is not in the list comes to its end.
LEMMA Appended ==
  ASSUME NEW S, NEW s, Enumerates(s, S), NEW t \in Threads, t \notin S
  PROVE  /\ Enumerates(Append(s, t), S \cup {t})
         /\ S # {} => Head(Append(s, t)) = Head(s)
  <1>1. /\ s \in Seq(Threads) /\ Len(s) \in Nat
        /\ Append(s, t) \in Seq(Threads)
        /\ Len(Append(s, t)) = Len(s) + 1
        /\ \A i \in 1..Len(s) : Append(s, t)[i] = s[i]
        /\ Append(s, t)[Len(s) + 1] = t
        /\ DOMAIN s = 1..Len(s)
        /\ DOMAIN Append(s, t) = 1..(Len(s) + 1)
    BY DEF Enumerates
  <1>2. ToSet(Append(s, t)) = S \cup {t}
    BY <1>1 DEF Enumerates, ToSet
  <1>3. IsInjective(Append(s, t))
    BY <1>1 DEF Enumerates, ToSet, IsInjective
  <1>4. ASSUME S # {} PROVE Head(Append(s, t)) = Head(s)
    <2>1. Len(s) # 0
      BY <1>1, <1>4 DEF Enumerates, ToSet
    <2>2. s # <<>> /\ Append(s, t) # <<>>
      BY <1>1, <2>1
    <2>3. Head(s) = s[1] /\ Head(Append(s, t)) = Append(s, t)[1]
      BY <1>1, <2>2, HeadTailProperties
    <2>4. QED
      BY <1>1, <2>1, <2>3
  <1>5. QED
    BY <1>1, <1>2, <1>3, <1>4 DEF Enumerates

\* The first thread is taken from the list.
LEMMA TailTaken ==
  ASSUME NEW S, NEW s, Enumerates(s, S), S # {}
  PROVE  Head(s) \in S /\ Enumerates(Tail(s), S \ {Head(s)})
  <1>0. s \in Seq(Threads) /\ s # <<>>
    BY DEF Enumerates, ToSet
  <1>1. /\ Head(s) = s[1]
        /\ Tail(s) \in Seq(Threads)
        /\ Len(s) \in Nat \ {0}
        /\ Len(Tail(s)) = Len(s) - 1
        /\ \A i \in 1..(Len(s) - 1) : Tail(s)[i] = s[i + 1]
        /\ DOMAIN s = 1..Len(s)
        /\ DOMAIN Tail(s) = 1..(Len(s) - 1)
    BY <1>0, HeadTailProperties, LenProperties, EmptySeq
  <1>2. Head(s) \in S
    BY <1>1 DEF Enumerates, ToSet
  <1>3. ToSet(Tail(s)) = S \ {Head(s)}
    <2>1. ASSUME NEW i \in 1..(Len(s) - 1)
          PROVE  Tail(s)[i] \in S \ {Head(s)}
      BY <1>1 DEF Enumerates, ToSet, IsInjective
    <2>2. ASSUME NEW u \in S, u # Head(s)
          PROVE  \E i \in 1..(Len(s) - 1) : Tail(s)[i] = u
      <3>1. PICK j \in 1..Len(s) : s[j] = u
        BY <1>1 DEF Enumerates, ToSet
      <3>2. j - 1 \in 1..(Len(s) - 1) /\ Tail(s)[j - 1] = u
        BY <1>1, <2>2, <3>1
      <3>3. QED
        BY <3>2
    <2>3. ToSet(Tail(s)) = {Tail(s)[i] : i \in 1..(Len(s) - 1)}
      BY <1>1 DEF ToSet
    <2>4. QED
      BY <2>1, <2>2, <2>3
  <1>4. IsInjective(Tail(s))
    BY <1>1 DEF Enumerates, IsInjective
  <1>5. QED
    BY <1>1, <1>2, <1>3, <1>4 DEF Enumerates

-----------------------------------------------------------------------------
(* The inductive invariant.                                                *)

Senders(m) == {t \in Threads : MachineOf[t] = m /\ place[t] # "out"}

ThreadsTyped ==
    /\ place \in [Threads -> {"out", "acquire", "sent", "release"}]
    /\ mail \in [Threads -> Mail \cup {NoMail}]
    /\ sent \in [Threads -> 0 .. MaxSends]

SendersTyped ==
    /\ sendQueue \in [Machines -> Seq(Threads)]
    /\ messageSent \in [Machines -> {0, 1}]
    /\ sendPending \in [Machines -> BOOLEAN]
    /\ aborted \subseteq Machines

QueuesExact == \A m \in Machines : Enumerates(sendQueue[m], Senders(m))

\* only the owner of the lock is past its Acquire
OwnersInside ==
    \A t \in Threads :
        place[t] \in {"sent", "release"} => Head(sendQueue[MachineOf[t]]) = t

\* the interrupt is pending or its V is there, and not both, only when the owner
\* of the lock awaits it
OneAwaited ==
    \A m \in Machines \ aborted :
        sendPending[m] \/ messageSent[m] = 1 =>
            /\ ~ (sendPending[m] /\ messageSent[m] = 1)
            /\ \E t \in Threads : MachineOf[t] = m /\ place[t] = "sent"

SendInv == ThreadsTyped /\ SendersTyped /\ QueuesExact /\ OwnersInside /\ OneAwaited

ReceiversTyped ==
    /\ messageAvailable \in [Machines -> {0, 1}]
    /\ inbox \in [Machines -> Mail \cup {NoMail}]
    /\ worker \in [Machines -> {"wait", "receive", "put"}]
    /\ held \in [Machines -> Mail \cup {NoMail}]
    /\ socket \in [Machines -> Seq(Mail)]

\* the V is there, or the worker has taken it, and not both, only when a packet is
\* buffered
OnePacket ==
    \A m \in Machines :
        /\ worker[m] = "put" <=> held[m] # NoMail
        /\ (inbox[m] # NoMail) <=> (messageAvailable[m] = 1 \/ worker[m] = "receive")
        /\ ~ (messageAvailable[m] = 1 /\ worker[m] = "receive")

ReceiveInv == ReceiversTyped /\ OnePacket

\* a thread that sends has its message
MailHeld == \A t \in Threads : place[t] # "out" => mail[t] \in Mail

IInv == SendInv /\ ReceiveInv /\ MailHeld

\* At the beginning nothing is sent, buffered or awaited.
LEMMA InitInv == Init => IInv
  <1> SUFFICES ASSUME Init PROVE IInv
    OBVIOUS
  <1>1. ThreadsTyped /\ MailHeld
    BY PostOfficeAssumption DEF Init, ThreadsTyped, MailHeld
  <1>2. SendersTyped
    BY DEF Init, SendersTyped
  <1>3. QueuesExact
    BY DEF Init, QueuesExact, Enumerates, Senders, ToSet, IsInjective
  <1>4. OwnersInside /\ OneAwaited
    BY DEF Init, OwnersInside, OneAwaited
  <1>5. ReceiveInv
    BY DEF Init, ReceiveInv, ReceiversTyped, OnePacket
  <1>6. QED
    BY <1>1, <1>2, <1>3, <1>4, <1>5 DEF IInv, SendInv

-----------------------------------------------------------------------------
(* Send.                                                                   *)

SendVars == <<place, mail, sent, sendQueue, messageSent, sendPending, aborted>>

ReceiveVars == <<messageAvailable, inbox, worker, held, socket>>

LEMMA SendUnchanged == SendInv /\ UNCHANGED SendVars => SendInv'
  BY DEF SendInv, SendVars, ThreadsTyped, SendersTyped, QueuesExact, Senders, OwnersInside,
         OneAwaited

LEMMA ReceiveUnchanged == ReceiveInv /\ UNCHANGED ReceiveVars => ReceiveInv'
  BY DEF ReceiveInv, ReceiveVars, ReceiversTyped, OnePacket

\* Of the senders, a machine that stops is asked nothing more.
LEMMA AbortedInv ==
  ASSUME SendInv, aborted \subseteq aborted', aborted' \subseteq Machines,
         UNCHANGED <<place, mail, sent, sendQueue, messageSent, sendPending>>
  PROVE  SendInv'
  BY DEF SendInv, ThreadsTyped, SendersTyped, QueuesExact, Senders, OwnersInside, OneAwaited

\* The thread comes to the end of the list for the lock.
LEMMA SendKeeps ==
  ASSUME IInv, NEW t \in Threads, NEW to \in Machines, NEW b \in Boxes, Send(t, to, b)
  PROVE  IInv'
  <1> DEFINE m == MachineOf[t]
  <1>1. m \in Machines
    BY PostOfficeAssumption
  <1>2. /\ place[t] = "out" /\ sent[t] < MaxSends
        /\ sent' = [sent EXCEPT ![t] = @ + 1]
        /\ mail' = [mail EXCEPT ![t] =
                      [sender |-> t, number |-> sent[t] + 1, to |-> to, box |-> b]]
        /\ sendQueue' = [sendQueue EXCEPT ![m] = Append(@, t)]
        /\ place' = [place EXCEPT ![t] = "acquire"]
        /\ UNCHANGED <<messageSent, sendPending, aborted>>
        /\ UNCHANGED ReceiveVars
    BY DEF Send, netVars, workVars, ReceiveVars
  <1>3. ThreadsTyped' /\ MailHeld'
    <2>1. sent[t] + 1 \in 1 .. MaxSends
      BY <1>2, PostOfficeAssumption DEF IInv, SendInv, ThreadsTyped
    <2>2. [sender |-> t, number |-> sent[t] + 1, to |-> to, box |-> b] \in Mail
      BY <2>1 DEF Mail
    <2>3. QED
      BY <1>2, <2>1, <2>2, PostOfficeAssumption DEF IInv, SendInv, ThreadsTyped, MailHeld
  <1>4. Enumerates(sendQueue[m], Senders(m)) /\ t \notin Senders(m)
    BY <1>1, <1>2 DEF IInv, SendInv, QueuesExact, Senders
  <1>5. /\ Enumerates(Append(sendQueue[m], t), Senders(m) \cup {t})
        /\ Senders(m) # {} => Head(Append(sendQueue[m], t)) = Head(sendQueue[m])
    <2> HIDE DEF m
    <2> QED
      BY <1>4, Appended
  <1>6. SendersTyped'
    BY <1>1, <1>2, <1>5 DEF IInv, SendInv, SendersTyped, Enumerates
  <1>7. QueuesExact'
    <2> SUFFICES ASSUME NEW k \in Machines
                 PROVE  Enumerates(sendQueue[k], Senders(k))'
      BY DEF QueuesExact
    <2>1. CASE k = m
      <3>1. Senders(k)' = Senders(m) \cup {t}
        BY <1>2, <2>1 DEF IInv, SendInv, ThreadsTyped, Senders
      <3>2. sendQueue'[k] = Append(sendQueue[m], t)
        BY <1>1, <1>2, <2>1 DEF IInv, SendInv, SendersTyped
      <3>3. QED
        BY <1>5, <3>1, <3>2 DEF Enumerates
    <2>2. CASE k # m
      <3>1. Senders(k)' = Senders(k)
        BY <1>2, <2>2 DEF IInv, SendInv, ThreadsTyped, Senders
      <3>2. sendQueue'[k] = sendQueue[k]
        BY <1>2, <2>2 DEF IInv, SendInv, SendersTyped
      <3>3. Enumerates(sendQueue[k], Senders(k))
        BY DEF IInv, SendInv, QueuesExact
      <3>4. QED
        BY <3>1, <3>2, <3>3 DEF Enumerates
    <2>3. QED
      BY <2>1, <2>2
  <1>8. OwnersInside'
    <2> SUFFICES ASSUME NEW u \in Threads, place'[u] \in {"sent", "release"}
                 PROVE  Head(sendQueue'[MachineOf[u]]) = u
      BY DEF OwnersInside
    <2>1. u # t /\ place[u] = place'[u]
      BY <1>2 DEF IInv, SendInv, ThreadsTyped
    <2>2. MachineOf[u] \in Machines /\ Head(sendQueue[MachineOf[u]]) = u
      BY <2>1, PostOfficeAssumption DEF IInv, SendInv, OwnersInside
    <2>3. MachineOf[u] = m => u \in Senders(m)
      BY <2>1 DEF Senders
    <2>4. QED
      BY <1>2, <1>5, <2>2, <2>3 DEF IInv, SendInv, SendersTyped
  <1>9. OneAwaited'
    BY <1>2 DEF IInv, SendInv, ThreadsTyped, OneAwaited
  <1>10. QED
    BY <1>2, <1>3, <1>6, <1>7, <1>8, <1>9, ReceiveUnchanged DEF IInv, SendInv

\* A thread that goes on inside Send stays where it is in the list for the lock.
LEMMA StaysInside ==
  ASSUME SendInv, NEW t \in Threads, NEW where \in {"acquire", "sent", "release"},
         place[t] # "out", place' = [place EXCEPT ![t] = where],
         Head(sendQueue[MachineOf[t]]) = t,
         UNCHANGED sendQueue
  PROVE  QueuesExact' /\ OwnersInside'
  <1>1. \A m \in Machines : Senders(m)' = Senders(m)
    BY DEF SendInv, ThreadsTyped, Senders
  <1>2. QueuesExact'
    BY <1>1 DEF SendInv, QueuesExact, Enumerates
  <1>3. OwnersInside'
    BY DEF SendInv, ThreadsTyped, OwnersInside
  <1>4. QED
    BY <1>2, <1>3

LEMMA NetworkSendKeeps ==
  ASSUME IInv, NEW t \in Threads, NetworkSend(t)
  PROVE  IInv'
  <1> DEFINE m == MachineOf[t]
  <1>1. m \in Machines /\ m \notin aborted
    BY PostOfficeAssumption DEF NetworkSend, Running
  <1>2. /\ place[t] = "acquire" /\ Head(sendQueue[m]) = t
        /\ sendPending' = [sendPending EXCEPT ![m] = TRUE]
        /\ UNCHANGED <<mail, sent, sendQueue, messageSent, messageAvailable, inbox, worker,
                       held>>
    BY DEF NetworkSend, workVars
  <1>3. ReceiveInv'
    <2>1. socket' \in [Machines -> Seq(Mail)]
      <3>1. mail[t] \in Mail
        BY <1>2 DEF IInv, MailHeld
      <3>2. mail[t].to \in Machines
        BY <3>1 DEF Mail
      <3>3. socket[mail[t].to] \in Seq(Mail)
        BY <3>2 DEF IInv, ReceiveInv, ReceiversTyped
      <3>4. Append(socket[mail[t].to], mail[t]) \in Seq(Mail)
        BY <3>1, <3>3
      <3>5. \/ socket' = socket
            \/ socket' = [socket EXCEPT ![mail[t].to] = Append(@, mail[t])]
        BY DEF NetworkSend
      <3>6. QED
        BY <3>2, <3>4, <3>5 DEF IInv, ReceiveInv, ReceiversTyped
    <2>2. QED
      BY <1>2, <2>1 DEF IInv, ReceiveInv, ReceiversTyped, OnePacket
  <1>4. sendPending' \in [Machines -> BOOLEAN]
    BY <1>2, Zenon DEF IInv, SendInv, SendersTyped
  <1>5. CASE place' = [place EXCEPT ![t] = "sent"] /\ UNCHANGED aborted
    <2>1. QueuesExact' /\ OwnersInside'
      BY <1>2, <1>5, StaysInside DEF IInv
    <2>2. ThreadsTyped' /\ MailHeld' /\ SendersTyped'
      BY <1>2, <1>4, <1>5 DEF IInv, SendInv, ThreadsTyped, MailHeld, SendersTyped
    <2>3. messageSent[m] # 1
      <3> SUFFICES ASSUME messageSent[m] = 1 PROVE FALSE
        OBVIOUS
      <3>1. PICK u \in Threads : MachineOf[u] = m /\ place[u] = "sent"
        BY <1>1 DEF IInv, SendInv, OneAwaited
      <3>2. Head(sendQueue[m]) = u
        BY <3>1 DEF IInv, SendInv, OwnersInside
      <3>3. QED
        BY <1>2, <3>1, <3>2
    <2>4. OneAwaited'
      <3> SUFFICES ASSUME NEW k \in Machines \ aborted', sendPending'[k] \/ messageSent'[k] = 1
                   PROVE  /\ ~ (sendPending'[k] /\ messageSent'[k] = 1)
                          /\ \E u \in Threads : MachineOf[u] = k /\ place'[u] = "sent"
        BY DEF OneAwaited
      <3>1. CASE k = m
        BY <1>2, <1>5, <2>3, <3>1 DEF IInv, SendInv, ThreadsTyped
      <3>2. CASE k # m
        <4>1. sendPending'[k] = sendPending[k] /\ messageSent'[k] = messageSent[k]
          BY <1>2, <3>2 DEF IInv, SendInv, SendersTyped
        <4>2. PICK u \in Threads : MachineOf[u] = k /\ place[u] = "sent"
          BY <1>5, <4>1 DEF IInv, SendInv, OneAwaited
        <4>3. place'[u] = "sent"
          BY <1>5, <3>2, <4>2 DEF IInv, SendInv, ThreadsTyped
        <4>4. QED
          BY <1>5, <4>1, <4>2, <4>3 DEF IInv, SendInv, OneAwaited
      <3>3. QED
        BY <3>1, <3>2
    <2>5. QED
      BY <1>3, <2>1, <2>2, <2>4 DEF IInv, SendInv
  <1>6. CASE aborted' = aborted \cup {m} /\ UNCHANGED place
    <2>1. QueuesExact' /\ OwnersInside' /\ MailHeld'
      BY <1>2, <1>6 DEF IInv, SendInv, QueuesExact, Senders, OwnersInside, MailHeld
    <2>2. ThreadsTyped' /\ SendersTyped'
      BY <1>1, <1>2, <1>4, <1>6 DEF IInv, SendInv, ThreadsTyped, SendersTyped
    <2>3. \A k \in Machines \ aborted' :
              k \notin aborted /\ sendPending'[k] = sendPending[k]
      BY <1>2, <1>6 DEF IInv, SendInv, SendersTyped
    <2>4. OneAwaited'
      BY <1>2, <1>6, <2>3 DEF IInv, SendInv, OneAwaited
    <2>5. QED
      BY <1>3, <2>1, <2>2, <2>4 DEF IInv, SendInv
  <1>7. QED
    BY <1>5, <1>6 DEF NetworkSend

\* The interrupt becomes a V.
LEMMA PacketSentKeeps ==
  ASSUME IInv, NEW m \in Machines, PacketSent(m)
  PROVE  IInv'
  <1>1. /\ m \notin aborted /\ sendPending[m]
        /\ sendPending' = [sendPending EXCEPT ![m] = FALSE]
        /\ messageSent' = [messageSent EXCEPT ![m] = @ + 1]
        /\ UNCHANGED <<place, mail, sent, sendQueue, aborted>>
        /\ UNCHANGED ReceiveVars
    BY DEF PacketSent, threadVars, workVars, ReceiveVars
  <1>2. messageSent[m] = 0
    BY <1>1 DEF IInv, SendInv, SendersTyped, OneAwaited
  <1>3. sendPending' \in [Machines -> BOOLEAN]
    BY <1>1, Zenon DEF IInv, SendInv, SendersTyped
  <1>4. messageSent' \in [Machines -> {0, 1}]
    BY <1>1, <1>2 DEF IInv, SendInv, SendersTyped
  <1>5. ~ sendPending'[m]
    BY <1>1 DEF IInv, SendInv, SendersTyped
  <1>6. \A k \in Machines \ {m} :
            sendPending'[k] = sendPending[k] /\ messageSent'[k] = messageSent[k]
    BY <1>1 DEF IInv, SendInv, SendersTyped
  <1>7. OneAwaited'
    <2>1. \E t \in Threads : MachineOf[t] = m /\ place[t] = "sent"
      BY <1>1 DEF IInv, SendInv, OneAwaited
    <2>2. QED
      BY <1>1, <1>5, <1>6, <2>1 DEF IInv, SendInv, OneAwaited
  <1>8. SendInv' /\ MailHeld'
    BY <1>1, <1>3, <1>4, <1>7 DEF IInv, SendInv, ThreadsTyped, SendersTyped, QueuesExact,
       Senders, OwnersInside, MailHeld
  <1>9. QED
    BY <1>1, <1>8, ReceiveUnchanged DEF IInv

\* The V is taken, and nothing more is awaited.
LEMMA AwaitSentKeeps ==
  ASSUME IInv, NEW t \in Threads, AwaitSent(t)
  PROVE  IInv'
  <1> DEFINE m == MachineOf[t]
  <1>1. m \in Machines /\ m \notin aborted
    BY PostOfficeAssumption DEF AwaitSent, Running
  <1>2. /\ place[t] = "sent" /\ messageSent[m] > 0
        /\ messageSent' = [messageSent EXCEPT ![m] = @ - 1]
        /\ place' = [place EXCEPT ![t] = "release"]
        /\ UNCHANGED <<mail, sent, sendQueue, sendPending, aborted>>
        /\ UNCHANGED ReceiveVars
    BY DEF AwaitSent, workVars, ReceiveVars
  <1>3. messageSent[m] = 1 /\ ~ sendPending[m]
    BY <1>1, <1>2 DEF IInv, SendInv, SendersTyped, OneAwaited
  <1>4. messageSent'[m] = 0 /\ messageSent' \in [Machines -> {0, 1}]
    BY <1>1, <1>2, <1>3 DEF IInv, SendInv, SendersTyped
  <1>5. QueuesExact' /\ OwnersInside'
    BY <1>2, StaysInside DEF IInv, SendInv, OwnersInside
  <1>6. ThreadsTyped' /\ MailHeld' /\ SendersTyped'
    BY <1>2, <1>4 DEF IInv, SendInv, ThreadsTyped, MailHeld, SendersTyped
  <1>7. OneAwaited'
    <2> SUFFICES ASSUME NEW k \in Machines \ aborted', sendPending'[k] \/ messageSent'[k] = 1
                 PROVE  /\ ~ (sendPending'[k] /\ messageSent'[k] = 1)
                        /\ \E u \in Threads : MachineOf[u] = k /\ place'[u] = "sent"
      BY DEF OneAwaited
    <2>1. k # m
      BY <1>2, <1>3, <1>4
    <2>2. sendPending'[k] = sendPending[k] /\ messageSent'[k] = messageSent[k]
      BY <1>2, <2>1 DEF IInv, SendInv, SendersTyped
    <2>3. PICK u \in Threads : MachineOf[u] = k /\ place[u] = "sent"
      BY <1>2, <2>2 DEF IInv, SendInv, OneAwaited
    <2>4. place'[u] = "sent"
      BY <1>2, <2>1, <2>3 DEF IInv, SendInv, ThreadsTyped
    <2>5. QED
      BY <1>2, <2>2, <2>3, <2>4 DEF IInv, SendInv, OneAwaited
  <1>8. QED
    BY <1>2, <1>5, <1>6, <1>7, ReceiveUnchanged DEF IInv, SendInv

\* The owner of the lock leaves the list; nobody else was past the Acquire.
LEMMA SendReturnKeeps ==
  ASSUME IInv, NEW t \in Threads, SendReturn(t)
  PROVE  IInv'
  <1> DEFINE m == MachineOf[t]
  <1>1. m \in Machines
    BY PostOfficeAssumption
  <1>2. /\ place[t] = "release"
        /\ sendQueue' = [sendQueue EXCEPT ![m] = Tail(@)]
        /\ place' = [place EXCEPT ![t] = "out"]
        /\ mail' = [mail EXCEPT ![t] = NoMail]
        /\ UNCHANGED <<sent, messageSent, sendPending, aborted>>
        /\ UNCHANGED ReceiveVars
    BY DEF SendReturn, netVars, workVars, ReceiveVars
  <1>3. /\ Enumerates(sendQueue[m], Senders(m)) /\ t \in Senders(m)
        /\ Head(sendQueue[m]) = t
    BY <1>1, <1>2 DEF IInv, SendInv, QueuesExact, Senders, OwnersInside
  <1>4. Enumerates(Tail(sendQueue[m]), Senders(m) \ {t})
    <2> HIDE DEF m
    <2>1. Senders(m) # {}
      BY <1>3
    <2>2. QED
      BY <1>3, <2>1, TailTaken
  <1>5. ThreadsTyped' /\ MailHeld'
    BY <1>2 DEF IInv, SendInv, ThreadsTyped, MailHeld
  <1>6. SendersTyped'
    BY <1>1, <1>2, <1>4 DEF IInv, SendInv, SendersTyped, Enumerates
  <1>7. QueuesExact'
    <2> SUFFICES ASSUME NEW k \in Machines
                 PROVE  Enumerates(sendQueue[k], Senders(k))'
      BY DEF QueuesExact
    <2>1. CASE k = m
      <3>1. Senders(k)' = Senders(m) \ {t}
        BY <1>2, <2>1 DEF IInv, SendInv, ThreadsTyped, Senders
      <3>2. sendQueue'[k] = Tail(sendQueue[m])
        BY <1>1, <1>2, <2>1 DEF IInv, SendInv, SendersTyped
      <3>3. QED
        BY <1>4, <3>1, <3>2 DEF Enumerates
    <2>2. CASE k # m
      <3>1. Senders(k)' = Senders(k)
        BY <1>2, <2>2 DEF IInv, SendInv, ThreadsTyped, Senders
      <3>2. sendQueue'[k] = sendQueue[k]
        BY <1>2, <2>2 DEF IInv, SendInv, SendersTyped
      <3>3. Enumerates(sendQueue[k], Senders(k))
        BY DEF IInv, SendInv, QueuesExact
      <3>4. QED
        BY <3>1, <3>2, <3>3 DEF Enumerates
    <2>3. QED
      BY <2>1, <2>2
  <1>8. OwnersInside'
    <2> SUFFICES ASSUME NEW u \in Threads, place'[u] \in {"sent", "release"}
                 PROVE  Head(sendQueue'[MachineOf[u]]) = u
      BY DEF OwnersInside
    <2>1. u # t /\ place[u] = place'[u]
      BY <1>2 DEF IInv, SendInv, ThreadsTyped
    <2>2. MachineOf[u] \in Machines /\ Head(sendQueue[MachineOf[u]]) = u
      BY <2>1, PostOfficeAssumption DEF IInv, SendInv, OwnersInside
    <2>3. MachineOf[u] # m
      BY <1>3, <2>1, <2>2
    <2>4. QED
      BY <1>2, <2>2, <2>3 DEF IInv, SendInv, SendersTyped
  <1>9. OneAwaited'
    BY <1>2 DEF IInv, SendInv, ThreadsTyped, OneAwaited
  <1>10. QED
    BY <1>2, <1>5, <1>6, <1>7, <1>8, <1>9, ReceiveUnchanged DEF IInv, SendInv

-----------------------------------------------------------------------------
(* Arrival and delivery.                                                   *)

LEMMA CheckPktAvailKeeps ==
  ASSUME ReceiveInv, NEW m \in Machines, CheckPktAvail(m)
  PROVE  ReceiveInv'
  <1>1. /\ inbox[m] = NoMail /\ socket[m] # <<>>
        /\ inbox' = [inbox EXCEPT ![m] = Head(socket[m])]
        /\ socket' = [socket EXCEPT ![m] = Tail(@)]
        /\ messageAvailable' = [messageAvailable EXCEPT ![m] = @ + 1]
        /\ UNCHANGED <<worker, held>>
    BY DEF CheckPktAvail
  <1>2. socket[m] \in Seq(Mail)
    BY DEF ReceiveInv, ReceiversTyped
  <1>3. Head(socket[m]) \in Mail /\ Tail(socket[m]) \in Seq(Mail)
    BY <1>1, <1>2, HeadTailProperties
  <1>4. messageAvailable[m] = 0 /\ worker[m] # "receive"
    BY <1>1 DEF ReceiveInv, ReceiversTyped, OnePacket
  <1>5. ReceiversTyped'
    BY <1>1, <1>3, <1>4 DEF ReceiveInv, ReceiversTyped
  <1>6. OnePacket'
    BY <1>1, <1>3, <1>4, NoMailAssumption DEF ReceiveInv, ReceiversTyped, OnePacket
  <1>7. QED
    BY <1>5, <1>6 DEF ReceiveInv

LEMMA AwaitPacketKeeps ==
  ASSUME ReceiveInv, NEW m \in Machines, AwaitPacket(m)
  PROVE  ReceiveInv'
  <1>1. messageAvailable[m] = 1
    BY DEF AwaitPacket, ReceiveInv, ReceiversTyped
  <1>2. /\ worker[m] = "wait"
        /\ messageAvailable' = [messageAvailable EXCEPT ![m] = @ - 1]
        /\ worker' = [worker EXCEPT ![m] = "receive"]
        /\ UNCHANGED <<inbox, held, socket>>
    BY DEF AwaitPacket, netVars
  <1>3. QED
    BY <1>1, <1>2 DEF ReceiveInv, ReceiversTyped, OnePacket

LEMMA NetworkReceiveKeeps ==
  ASSUME ReceiveInv, NEW m \in Machines, NetworkReceive(m)
  PROVE  ReceiveInv'
  <1>1. /\ worker[m] = "receive"
        /\ held' = [held EXCEPT ![m] = inbox[m]]
        /\ inbox' = [inbox EXCEPT ![m] = NoMail]
        /\ worker' = [worker EXCEPT ![m] = "put"]
        /\ UNCHANGED <<messageAvailable, socket>>
    BY DEF NetworkReceive, netVars
  <1>2. inbox[m] # NoMail /\ messageAvailable[m] # 1
    BY <1>1 DEF ReceiveInv, OnePacket
  <1>3. QED
    BY <1>1, <1>2 DEF ReceiveInv, ReceiversTyped, OnePacket

LEMMA PutKeeps ==
  ASSUME ReceiveInv, NEW m \in Machines, Put(m)
  PROVE  ReceiveInv'
  <1>1. /\ worker[m] = "put"
        /\ held' = [held EXCEPT ![m] = NoMail]
        /\ worker' = [worker EXCEPT ![m] = "wait"]
        /\ UNCHANGED <<messageAvailable, inbox, socket>>
    BY DEF Put, netVars
  <1>2. QED
    BY <1>1 DEF ReceiveInv, ReceiversTyped, OnePacket

-----------------------------------------------------------------------------

LEMMA NextInv == IInv /\ [Next]_vars => IInv'
  <1> SUFFICES ASSUME IInv, [Next]_vars PROVE IInv'
    OBVIOUS
  <1>1. ASSUME NEW m \in Machines, UNCHANGED SendVars,
               \/ CheckPktAvail(m) \/ AwaitPacket(m) \/ NetworkReceive(m) \/ Put(m)
        PROVE  IInv'
    <2>1. ReceiveInv'
      BY <1>1, CheckPktAvailKeeps, AwaitPacketKeeps, NetworkReceiveKeeps, PutKeeps DEF IInv
    <2>2. SendInv'
      BY <1>1, SendUnchanged DEF IInv
    <2>3. MailHeld'
      BY <1>1 DEF IInv, MailHeld, SendVars
    <2>4. QED
      BY <2>1, <2>2, <2>3 DEF IInv
  <1>2. ASSUME NEW m \in Machines,
               \/ CheckPktAvail(m) \/ AwaitPacket(m) \/ NetworkReceive(m) \/ Put(m)
        PROVE  IInv'
    <2>1. UNCHANGED SendVars
      BY <1>2 DEF CheckPktAvail, AwaitPacket, NetworkReceive, Put, SendVars, threadVars, netVars
    <2>2. QED
      BY <1>1, <1>2, <2>1
  <1>3. ASSUME NEW t \in Threads, NEW b \in Boxes, Receive(t, b)
        PROVE  IInv'
    <2>1. /\ UNCHANGED ReceiveVars
          /\ UNCHANGED <<place, mail, sent, sendQueue, messageSent, sendPending>>
          /\ aborted' = aborted \/ aborted' = aborted \cup {MachineOf[t]}
      BY <1>3 DEF Receive, ReceiveVars, threadVars, netVars, workVars
    <2>2. aborted' \subseteq Machines /\ aborted \subseteq aborted'
      BY <2>1, PostOfficeAssumption DEF IInv, SendInv, SendersTyped
    <2>3. SendInv'
      BY <2>1, <2>2, AbortedInv DEF IInv
    <2>4. MailHeld'
      BY <2>1 DEF IInv, MailHeld
    <2>5. QED
      BY <2>1, <2>3, <2>4, ReceiveUnchanged DEF IInv
  <1>4. CASE UNCHANGED vars
    <2>1. UNCHANGED SendVars /\ UNCHANGED ReceiveVars
      BY <1>4 DEF vars, threadVars, netVars, workVars, SendVars, ReceiveVars
    <2>2. QED
      BY <2>1, SendUnchanged, ReceiveUnchanged DEF IInv, MailHeld, SendVars
  <1>5. QED
    BY <1>2, <1>3, <1>4, SendKeeps, NetworkSendKeeps, AwaitSentKeeps, SendReturnKeeps,
       PacketSentKeeps DEF Next

\* The owner of the lock finds neither the interrupt pending nor its V not taken:
\* either would be for another thread that is past its Acquire.
LEMMA BuffersFree == IInv => BuffersInv
  <1> SUFFICES ASSUME IInv PROVE BuffersInv
    OBVIOUS
  <1>1. TypeOK
    <2>1. \A m \in Machines :
              /\ IsInjective(sendQueue[m])
              /\ ToSet(sendQueue[m]) =
                    {t \in Threads : MachineOf[t] = m /\ place[t] # "out"}
      BY DEF IInv, SendInv, QueuesExact, Enumerates, Senders
    <2>2. QED
      BY <2>1 DEF TypeOK, IInv, SendInv, ThreadsTyped, SendersTyped, ReceiveInv,
         ReceiversTyped, OnePacket
  <1>2. SendAllowed
    <2> SUFFICES ASSUME NEW t \in Threads, Running(t), place[t] = "acquire",
                        Head(sendQueue[MachineOf[t]]) = t,
                        sendPending[MachineOf[t]] \/ messageSent[MachineOf[t]] # 0
                 PROVE  FALSE
      BY DEF SendAllowed
    <2>1. MachineOf[t] \in Machines \ aborted
      BY PostOfficeAssumption DEF Running
    <2>2. sendPending[MachineOf[t]] \/ messageSent[MachineOf[t]] = 1
      BY <2>1 DEF IInv, SendInv, SendersTyped
    <2>3. PICK u \in Threads : MachineOf[u] = MachineOf[t] /\ place[u] = "sent"
      BY <2>1, <2>2 DEF IInv, SendInv, OneAwaited
    <2>4. Head(sendQueue[MachineOf[u]]) = u
      BY <2>3 DEF IInv, SendInv, OwnersInside
    <2>5. QED
      BY <2>3, <2>4
  <1>3. PacketMatched
    BY DEF PacketMatched, IInv, ReceiveInv, OnePacket
  <1>4. QED
    BY <1>1, <1>2, <1>3 DEF BuffersInv

\* On every machine, however its threads and interrupts come, a packet is given to
\* the device only when the last one is gone, and the worker takes one only when
\* there is one.
THEOREM BuffersUsedByOne == Spec => []BuffersInv
  BY InitInv, NextInv, BuffersFree, PTL DEF Spec

-----------------------------------------------------------------------------
(* The packets of a sequence that are in a set.                            *)

LEMMA NatSetInduction ==
  ASSUME NEW S, 0 \in S, \A n \in Nat : n \in S => n + 1 \in S
  PROVE  Nat \subseteq S
  <1> DEFINE T == Nat \ S
             R == OpToRel(<, Nat)
  <1>1. SUFFICES ASSUME T # {} PROVE FALSE
    OBVIOUS
  <1>2. IsWellFoundedOn(R, Nat)
    BY NatLessThanWellFounded
  <1>3. PICK x \in T : \A y \in T : ~ (<<y, x>> \in R)
    <2> HIDE DEF R
    <2> QED
      BY <1>1, <1>2, WFMin
  <1>4. <<x - 1, x>> \in R
    <2>1. x \in Nat /\ x - 1 \in Nat
      <3> HIDE DEF R
      <3> QED
        OBVIOUS
    <2>2. QED
      BY <2>1 DEF OpToRel
  <1> HIDE DEF R
  <1>5. x - 1 \in T
    OBVIOUS
  <1>6. QED
    BY <1>3, <1>4, <1>5

Grown(r, p, S) == IF p \in S THEN Append(r, p) ELSE r

\* what Only has found among the first n packets of s, for each n
Selections(s, S, n) ==
    {g \in [0 .. n -> Seq(Mail)] :
        g[0] = <<>> /\ \A k \in 1 .. n : g[k] = Grown(g[k - 1], s[k], S)}

LEMMA SelectionExists ==
  ASSUME NEW s \in Seq(Mail), NEW S, NEW n \in Nat, n <= Len(s)
  PROVE  Selections(s, S, n) # {}
  <1> DEFINE T == {k \in Nat : k <= Len(s) => Selections(s, S, k) # {}}
  <1>1. 0 \in T
    <2>1. [k \in 0 .. 0 |-> <<>>] \in Selections(s, S, 0)
      BY DEF Selections
    <2>2. QED
      BY <2>1
  <1>2. ASSUME NEW k \in Nat, k \in T
        PROVE  k + 1 \in T
    <2>1. SUFFICES ASSUME k + 1 <= Len(s)
                   PROVE  Selections(s, S, k + 1) # {}
      OBVIOUS
    <2>2. PICK g \in Selections(s, S, k) : TRUE
      BY <1>2, <2>1
    <2>3. /\ g \in [0 .. k -> Seq(Mail)] /\ g[0] = <<>>
          /\ \A i \in 1 .. k : g[i] = Grown(g[i - 1], s[i], S)
      BY <2>2 DEF Selections
    <2> DEFINE last == Grown(g[k], s[k + 1], S)
               h == [i \in 0 .. k + 1 |-> IF i = k + 1 THEN last ELSE g[i]]
    <2>4. last \in Seq(Mail)
      BY <2>1, <2>3 DEF Grown
    <2> HIDE DEF last
    <2>5. h \in [0 .. k + 1 -> Seq(Mail)] /\ h[0] = <<>>
      BY <2>3, <2>4
    <2>6. ASSUME NEW i \in 1 .. k + 1
          PROVE  h[i] = Grown(h[i - 1], s[i], S)
      <3>1. CASE i = k + 1
        BY <3>1 DEF last
      <3>2. CASE i # k + 1
        BY <2>3, <3>2
      <3>3. QED
        BY <3>1, <3>2
    <2> HIDE DEF h
    <2>7. h \in Selections(s, S, k + 1)
      BY <2>5, <2>6 DEF Selections
    <2>8. QED
      BY <2>7
  <1>3. Nat \subseteq T
    <2> HIDE DEF T
    <2> QED
      BY <1>1, <1>2, NatSetInduction
  <1>4. QED
    BY <1>3

\* Two sequences that begin in the same way.
LEMMA SelectionsAgree ==
  ASSUME NEW s, NEW t, NEW S, NEW m \in Nat, NEW n \in Nat, m <= n,
         \A k \in 1 .. m : s[k] = t[k],
         NEW g \in Selections(s, S, m), NEW h \in Selections(t, S, n)
  PROVE  \A k \in 0 .. m : g[k] = h[k]
  <1> DEFINE T == {k \in Nat : k <= m => g[k] = h[k]}
  <1>1. 0 \in T
    BY DEF Selections
  <1>2. ASSUME NEW k \in Nat, k \in T
        PROVE  k + 1 \in T
    <2>1. SUFFICES ASSUME k + 1 <= m
                   PROVE  g[k + 1] = h[k + 1]
      OBVIOUS
    <2>2. g[k] = h[k] /\ s[k + 1] = t[k + 1]
      BY <1>2, <2>1
    <2>3. k + 1 \in 1 .. m /\ k + 1 \in 1 .. n /\ (k + 1) - 1 = k
      BY <2>1
    <2>4. g[k + 1] = Grown(g[k], s[k + 1], S) /\ h[k + 1] = Grown(h[k], t[k + 1], S)
      BY <2>3 DEF Selections
    <2>5. QED
      BY <2>2, <2>4
  <1>3. Nat \subseteq T
    <2> HIDE DEF T
    <2> QED
      BY <1>1, <1>2, NatSetInduction
  <1>4. QED
    BY <1>3

\* What the recursion of Only gives is the last value of such a selection.
LEMMA OnlyIsSelection ==
  ASSUME NEW s \in Seq(Mail), NEW S
  PROVE  \E g \in Selections(s, S, Len(s)) : Only(s, S) = g[Len(s)]
  <1> DEFINE n == Len(s)
             Body(f) == [k \in 0 .. n |->
                            IF k = 0 THEN <<>>
                            ELSE IF s[k] \in S THEN Append(f[k - 1], s[k]) ELSE f[k - 1]]
             UpTo == CHOOSE f : f = Body(f)
  <1>0. n \in Nat
    OBVIOUS
  <1>1. PICK g \in Selections(s, S, n) : TRUE
    BY <1>0, SelectionExists
  <1>2. /\ g \in [0 .. n -> Seq(Mail)] /\ g[0] = <<>>
        /\ \A k \in 1 .. n : g[k] = Grown(g[k - 1], s[k], S)
    BY <1>1 DEF Selections
  <1>3. g = Body(g)
    <2>1. ASSUME NEW k \in 0 .. n
          PROVE  g[k] = IF k = 0 THEN <<>>
                        ELSE IF s[k] \in S THEN Append(g[k - 1], s[k]) ELSE g[k - 1]
      <3>1. CASE k = 0
        BY <1>2, <3>1
      <3>2. CASE k # 0
        <4>1. k \in 1 .. n
          BY <3>2
        <4>2. QED
          BY <1>2, <3>2, <4>1 DEF Grown
      <3>3. QED
        BY <3>1, <3>2
    <2>2. QED
      BY <1>2, <2>1
  <1>4. UpTo = Body(UpTo)
    <2> HIDE DEF Body
    <2> QED
      BY <1>3, Zenon
  <1>5. Only(s, S) = UpTo[n]
    BY Zenon DEF Only
  <1> HIDE DEF UpTo
  <1>6. \A k \in 0 .. n : UpTo[k] = g[k]
    <2> DEFINE T == {k \in Nat : k <= n => UpTo[k] = g[k]}
    <2>1. 0 \in T
      BY <1>0, <1>2, <1>4
    <2>2. ASSUME NEW k \in Nat, k \in T
          PROVE  k + 1 \in T
      <3>1. SUFFICES ASSUME k + 1 <= n
                     PROVE  UpTo[k + 1] = g[k + 1]
        OBVIOUS
      <3>2. UpTo[k] = g[k]
        BY <1>0, <2>2, <3>1
      <3>3. k + 1 \in 0 .. n /\ k + 1 \in 1 .. n /\ k + 1 # 0 /\ (k + 1) - 1 = k
        BY <1>0, <3>1
      <3>4. UpTo[k + 1] = Grown(UpTo[k], s[k + 1], S)
        <4>1. UpTo[k + 1] = IF s[k + 1] \in S THEN Append(UpTo[(k + 1) - 1], s[k + 1])
                            ELSE UpTo[(k + 1) - 1]
          BY <1>4, <3>3, Zenon
        <4>2. QED
          BY <3>3, <4>1, Zenon DEF Grown
      <3>5. g[k + 1] = Grown(g[k], s[k + 1], S)
        BY <1>2, <3>3
      <3>6. QED
        BY <3>2, <3>4, <3>5
    <2>3. Nat \subseteq T
      <3> HIDE DEF T
      <3> QED
        BY <2>1, <2>2, NatSetInduction
    <2>4. QED
      BY <2>3
  <1>7. QED
    BY <1>0, <1>5, <1>6

LEMMA OnlyTyped ==
  ASSUME NEW s \in Seq(Mail), NEW S
  PROVE  Only(s, S) \in Seq(Mail)
  BY OnlyIsSelection DEF Selections

LEMMA OnlyEmpty ==
  ASSUME NEW S
  PROVE  Only(<<>>, S) = <<>>
  <1>1. <<>> \in Seq(Mail) /\ Len(<<>>) = 0
    OBVIOUS
  <1>2. PICK g \in Selections(<<>>, S, 0) : Only(<<>>, S) = g[0]
    BY <1>1, OnlyIsSelection
  <1>3. QED
    BY <1>2 DEF Selections

LEMMA OnlyAppend ==
  ASSUME NEW s \in Seq(Mail), NEW p \in Mail, NEW S
  PROVE  Only(Append(s, p), S) = Grown(Only(s, S), p, S)
  <1> DEFINE t == Append(s, p)
             n == Len(s)
  <1>1. /\ t \in Seq(Mail) /\ Len(t) = n + 1 /\ n \in Nat
        /\ \A k \in 1 .. n : t[k] = s[k]
        /\ t[n + 1] = p
    OBVIOUS
  <1> HIDE DEF t
  <1>2. PICK g \in Selections(s, S, n) : Only(s, S) = g[n]
    BY OnlyIsSelection
  <1>3. PICK h \in Selections(t, S, n + 1) : Only(t, S) = h[n + 1]
    BY <1>1, OnlyIsSelection
  <1>4. g[n] = h[n]
    <2> HIDE DEF n
    <2>1. \A k \in 1 .. n : s[k] = t[k]
      BY <1>1
    <2>2. n <= n + 1 /\ n + 1 \in Nat /\ n \in 0 .. n
      BY <1>1
    <2>3. \A k \in 0 .. n : g[k] = h[k]
      BY <1>1, <2>1, <2>2, SelectionsAgree
    <2>4. QED
      BY <2>2, <2>3
  <1>5. h[n + 1] = Grown(h[n], t[n + 1], S)
    <2>1. n + 1 \in 1 .. n + 1 /\ (n + 1) - 1 = n
      BY <1>1
    <2>2. QED
      BY <2>1 DEF Selections
  <1>6. QED
    BY <1>1, <1>2, <1>3, <1>4, <1>5 DEF t

\* A sequence that is not empty is one that something was appended to.
LEMMA FrontAndLast ==
  ASSUME NEW s \in Seq(Mail), NEW n \in Nat, Len(s) = n + 1
  PROVE  \E u \in Seq(Mail), p \in Mail : Len(u) = n /\ s = Append(u, p)
  <1> DEFINE u == [k \in 1 .. n |-> s[k]]
  <1>1. u \in Seq(Mail) /\ Len(u) = n /\ s[n + 1] \in Mail
    OBVIOUS
  <1>2. s = Append(u, s[n + 1])
    OBVIOUS
  <1> HIDE DEF u
  <1>3. QED
    BY <1>1, <1>2

LEMMA AppendToConcat ==
  ASSUME NEW s \in Seq(Mail), NEW t \in Seq(Mail), NEW p \in Mail
  PROVE  s \o Append(t, p) = Append(s \o t, p)
  <1>1. /\ Append(t, p) = t \o <<p>> /\ <<p>> \in Seq(Mail)
        /\ s \o t \in Seq(Mail)
        /\ Append(s \o t, p) = (s \o t) \o <<p>>
    BY AppendIsConcat, ConcatProperties
  <1>2. QED
    BY <1>1, ConcatAssociative

LEMMA OnlyConcat ==
  ASSUME NEW s \in Seq(Mail), NEW t \in Seq(Mail), NEW S
  PROVE  Only(s \o t, S) = Only(s, S) \o Only(t, S)
  <1> DEFINE Holds(u) == Only(s \o u, S) = Only(s, S) \o Only(u, S)
             T == {n \in Nat : \A u \in Seq(Mail) : Len(u) = n => Holds(u)}
  <1>1. 0 \in T
    <2> SUFFICES ASSUME NEW u \in Seq(Mail), Len(u) = 0 PROVE Holds(u)
      OBVIOUS
    <2>1. u = <<>>
      OBVIOUS
    <2>2. s \o u = s /\ Only(s, S) \o <<>> = Only(s, S)
      BY <2>1, OnlyTyped, ConcatEmptySeq
    <2>3. QED
      BY <2>1, <2>2, OnlyEmpty
  <1>2. ASSUME NEW n \in Nat, n \in T
        PROVE  n + 1 \in T
    <2> SUFFICES ASSUME NEW v \in Seq(Mail), Len(v) = n + 1 PROVE Holds(v)
      OBVIOUS
    <2>1. PICK u \in Seq(Mail), p \in Mail : Len(u) = n /\ v = Append(u, p)
      BY FrontAndLast
    <2>2. Holds(u)
      BY <1>2, <2>1
    <2>3. s \o v = Append(s \o u, p) /\ s \o u \in Seq(Mail)
      BY <2>1, AppendToConcat, ConcatProperties
    <2>4. /\ Only(s \o v, S) = Grown(Only(s \o u, S), p, S)
          /\ Only(v, S) = Grown(Only(u, S), p, S)
      <3>1. ASSUME NEW r \in Seq(Mail)
            PROVE  Only(Append(r, p), S) = Grown(Only(r, S), p, S)
        BY OnlyAppend
      <3>2. QED
        BY <2>1, <2>3, <3>1
    <2>5. Only(s, S) \in Seq(Mail) /\ Only(u, S) \in Seq(Mail)
      BY OnlyTyped
    <2>6. Only(s, S) \o Append(Only(u, S), p) = Append(Only(s, S) \o Only(u, S), p)
      BY <2>5, AppendToConcat
    <2>7. QED
      BY <2>2, <2>4, <2>6 DEF Grown
  <1>3. Nat \subseteq T
    <2> HIDE DEF T
    <2> QED
      BY <1>1, <1>2, NatSetInduction
  <1>4. Len(t) \in Nat
    OBVIOUS
  <1>5. QED
    BY <1>3, <1>4

LEMMA OnlyOne ==
  ASSUME NEW p \in Mail, NEW S
  PROVE  Only(<<p>>, S) = IF p \in S THEN <<p>> ELSE <<>>
  <1>1. <<p>> = Append(<<>>, p) /\ <<>> \in Seq(Mail)
    OBVIOUS
  <1>2. Only(Append(<<>>, p), S) = Grown(Only(<<>>, S), p, S)
    BY <1>1, OnlyAppend
  <1>3. QED
    BY <1>1, <1>2, OnlyEmpty DEF Grown

\* A packet between two sequences belongs to either.
LEMMA Regroup ==
  ASSUME NEW s \in Seq(Mail), NEW p \in Mail, NEW t \in Seq(Mail)
  PROVE  /\ <<p>> \in Seq(Mail) /\ Append(s, p) = s \o <<p>>
         /\ (s \o <<p>>) \o t = s \o (<<p>> \o t)
  <1> DEFINE one == <<p>>
  <1>1. one \in Seq(Mail)
    OBVIOUS
  <1>2. Append(s, p) = s \o one
    BY AppendIsConcat
  <1>3. (s \o one) \o t = s \o (one \o t)
    <2> HIDE DEF one
    <2> QED
      BY <1>1, ConcatAssociative
  <1>4. QED
    BY <1>1, <1>2, <1>3

LEMMA HeadThenTail ==
  ASSUME NEW s \in Seq(Mail), s # <<>>
  PROVE  s = <<Head(s)>> \o Tail(s)
  <1>1. /\ Len(s) \in Nat \ {0} /\ Head(s) = s[1] /\ Head(s) \in Mail
        /\ Tail(s) \in Seq(Mail) /\ Len(Tail(s)) = Len(s) - 1
        /\ \A i \in 1 .. Len(s) - 1 : Tail(s)[i] = s[i + 1]
    BY HeadTailProperties, EmptySeq
  <1>2. <<Head(s)>> \in Seq(Mail) /\ Len(<<Head(s)>>) = 1 /\ <<Head(s)>>[1] = Head(s)
    BY <1>1
  <1> DEFINE r == <<Head(s)>> \o Tail(s)
  <1>3. /\ r \in Seq(Mail) /\ Len(r) = Len(s)
        /\ \A i \in 1 .. Len(s) : r[i] = IF i <= 1 THEN <<Head(s)>>[i] ELSE Tail(s)[i - 1]
    BY <1>1, <1>2, ConcatProperties
  <1>4. \A i \in 1 .. Len(s) : r[i] = s[i]
    <2> HIDE DEF r
    <2> SUFFICES ASSUME NEW i \in 1 .. Len(s) PROVE r[i] = s[i]
      OBVIOUS
    <2>1. CASE i = 1
      BY <1>1, <1>2, <1>3, <2>1
    <2>2. CASE i # 1
      <3>1. i - 1 \in 1 .. Len(s) - 1 /\ (i - 1) + 1 = i /\ ~ (i <= 1)
        BY <1>1, <2>2
      <3>2. QED
        BY <1>1, <1>3, <3>1
    <2>3. QED
      BY <2>1, <2>2
  <1>5. QED
    <2> HIDE DEF r
    <2>1. r = s
      BY <1>3, <1>4
    <2>2. QED
      BY <2>1 DEF r

-----------------------------------------------------------------------------
(* The mail is delivered in order.                                         *)

DeliveryTyped ==
    /\ boxes \in [Machines -> [Boxes -> Seq(Mail)]]
    /\ got \in [Machines -> [Boxes -> Seq(Mail)]]
    /\ kept \in [Machines -> Seq(Mail)]

OwnMail == \A t \in Threads : place[t] # "out" => mail[t].sender = t

DeliveryInv == IInv /\ DeliveryTyped /\ OwnMail /\ DeliveredInOrder

ForBox(b) == {p \in Mail : p.box = b}
ToBox(m, b) == {p \in Mail : p.to = m /\ p.box = b}
From(m) == {p \in Mail : MachineOf[p.sender] = m}

LEMMA OneTyped ==
  ASSUME NEW p \in Mail \cup {NoMail}
  PROVE  One(p) \in Seq(Mail)
  BY DEF One

LEMMA OnTheWayTyped ==
  ASSUME ReceiversTyped, NEW m \in Machines
  PROVE  /\ One(held[m]) \in Seq(Mail) /\ One(inbox[m]) \in Seq(Mail)
         /\ socket[m] \in Seq(Mail)
         /\ OnTheWay(m) \in Seq(Mail)
  <1>1. One(held[m]) \in Seq(Mail) /\ One(inbox[m]) \in Seq(Mail) /\ socket[m] \in Seq(Mail)
    BY OneTyped DEF ReceiversTyped
  <1>2. QED
    BY <1>1, ConcatProperties DEF OnTheWay

LEMMA ArrivedTyped ==
  ASSUME ReceiversTyped, DeliveryTyped, NEW m \in Machines, NEW b \in Boxes
  PROVE  /\ got[m][b] \in Seq(Mail) /\ boxes[m][b] \in Seq(Mail)
         /\ got[m][b] \o boxes[m][b] \in Seq(Mail)
         /\ Only(OnTheWay(m), ForBox(b)) \in Seq(Mail)
         /\ Arrived(m, b) \in Seq(Mail)
         /\ Arrived(m, b) = (got[m][b] \o boxes[m][b]) \o Only(OnTheWay(m), ForBox(b))
  <1>1. got[m][b] \in Seq(Mail) /\ boxes[m][b] \in Seq(Mail)
    BY DEF DeliveryTyped
  <1>2. OnTheWay(m) \in Seq(Mail)
    BY OnTheWayTyped
  <1>3. Only(OnTheWay(m), ForBox(b)) \in Seq(Mail)
    BY <1>2, OnlyTyped
  <1>4. got[m][b] \o boxes[m][b] \in Seq(Mail)
    BY <1>1, ConcatProperties
  <1>5. QED
    BY <1>1, <1>3, <1>4, ConcatProperties DEF Arrived, ForBox

LEMMA InitDelivery == Init => DeliveryInv
  <1> SUFFICES ASSUME Init PROVE DeliveryInv
    OBVIOUS
  <1>1. DeliveryTyped /\ OwnMail
    BY DEF Init, DeliveryTyped, OwnMail
  <1>2. DeliveredInOrder
    <2> SUFFICES ASSUME NEW m \in Machines, NEW from \in Machines, NEW b \in Boxes
                 PROVE  Only(Arrived(m, b), From(from)) = Only(kept[from], ToBox(m, b))
      BY DEF DeliveredInOrder, From, ToBox
    <2>1. One(held[m]) = <<>> /\ One(inbox[m]) = <<>> /\ socket[m] = <<>>
      BY DEF Init, One
    <2>2. OnTheWay(m) = <<>>
      BY <2>1 DEF OnTheWay
    <2>3. Only(OnTheWay(m), ForBox(b)) = <<>>
      BY <2>2, OnlyEmpty
    <2>4. Arrived(m, b) = <<>>
      BY <2>3 DEF Init, Arrived, ForBox
    <2>5. kept[from] = <<>>
      BY DEF Init
    <2>6. Only(Arrived(m, b), From(from)) = <<>>
      BY <2>4, OnlyEmpty
    <2>7. Only(kept[from], ToBox(m, b)) = <<>>
      BY <2>5, OnlyEmpty
    <2>8. QED
      BY <2>6, <2>7
  <1>3. QED
    BY <1>1, <1>2, InitInv DEF DeliveryInv

\* Steps that only pass packets on.
LEMMA PassedOn ==
  ASSUME DeliveredInOrder, UNCHANGED kept,
         \A m \in Machines, b \in Boxes : Arrived(m, b)' = Arrived(m, b)
  PROVE  DeliveredInOrder'
  BY ZenonT(60) DEF DeliveredInOrder

LEMMA CheckPktAvailPasses ==
  ASSUME ReceiveInv, NEW m \in Machines, CheckPktAvail(m), NEW k \in Machines
  PROVE  OnTheWay(k)' = OnTheWay(k)
  <1>1. /\ inbox[m] = NoMail /\ socket[m] # <<>>
        /\ inbox' = [inbox EXCEPT ![m] = Head(socket[m])]
        /\ socket' = [socket EXCEPT ![m] = Tail(@)]
        /\ UNCHANGED held
    BY DEF CheckPktAvail
  <1>2. CASE k # m
    BY <1>1, <1>2 DEF OnTheWay, ReceiveInv, ReceiversTyped
  <1>3. CASE k = m
    <2>1. /\ One(held[m]) \in Seq(Mail) /\ socket[m] \in Seq(Mail)
          /\ Head(socket[m]) \in Mail /\ Tail(socket[m]) \in Seq(Mail)
      BY <1>1, OnTheWayTyped, HeadTailProperties DEF ReceiveInv
    <2>2. inbox'[m] = Head(socket[m]) /\ socket'[m] = Tail(socket[m]) /\ held'[m] = held[m]
      BY <1>1 DEF ReceiveInv, ReceiversTyped
    <2>3. One(inbox'[m]) = <<Head(socket[m])>> /\ <<Head(socket[m])>> \in Seq(Mail)
      BY <2>1, <2>2, NoMailAssumption DEF One
    <2>4. OnTheWay(m)' = (One(held[m]) \o <<Head(socket[m])>>) \o Tail(socket[m])
      BY <2>2, <2>3 DEF OnTheWay
    <2>5. OnTheWay(m)' = One(held[m]) \o (<<Head(socket[m])>> \o Tail(socket[m]))
      <3> DEFINE x == One(held[m])
                 y == Head(socket[m])
                 z == Tail(socket[m])
      <3>1. x \in Seq(Mail) /\ y \in Mail /\ z \in Seq(Mail)
        BY <2>1
      <3> HIDE DEF x, y, z
      <3>2. (x \o <<y>>) \o z = x \o (<<y>> \o z)
        BY <3>1, Regroup
      <3>3. QED
        BY <2>4, <3>2 DEF x, y, z
    <2>6. socket[m] = <<Head(socket[m])>> \o Tail(socket[m])
      BY <1>1, <2>1, HeadThenTail
    <2>7. OnTheWay(m) = One(held[m]) \o socket[m]
      BY <1>1, <2>1, ConcatEmptySeq DEF OnTheWay, One
    <2>8. QED
      BY <1>3, <2>5, <2>6, <2>7
  <1>4. QED
    BY <1>2, <1>3

LEMMA NetworkReceivePasses ==
  ASSUME ReceiveInv, NEW m \in Machines, NetworkReceive(m), NEW k \in Machines
  PROVE  OnTheWay(k)' = OnTheWay(k)
  <1>1. /\ held[m] = NoMail
        /\ held' = [held EXCEPT ![m] = inbox[m]]
        /\ inbox' = [inbox EXCEPT ![m] = NoMail]
        /\ UNCHANGED socket
    BY DEF NetworkReceive, netVars, ReceiveInv, OnePacket
  <1>2. CASE k # m
    BY <1>1, <1>2 DEF OnTheWay, ReceiveInv, ReceiversTyped
  <1>3. CASE k = m
    <2>1. One(inbox[m]) \in Seq(Mail)
      BY OnTheWayTyped DEF ReceiveInv
    <2>2. held'[m] = inbox[m] /\ inbox'[m] = NoMail /\ socket'[m] = socket[m]
      BY <1>1 DEF ReceiveInv, ReceiversTyped
    <2>3. One(inbox[m]) \o <<>> = One(inbox[m]) /\ <<>> \o One(inbox[m]) = One(inbox[m])
      BY <2>1, ConcatEmptySeq
    <2>4. OnTheWay(m)' = One(inbox[m]) \o socket[m]
      BY <2>2, <2>3 DEF OnTheWay, One
    <2>5. OnTheWay(m) = One(inbox[m]) \o socket[m]
      BY <1>1, <2>3 DEF OnTheWay, One
    <2>6. QED
      BY <1>3, <2>4, <2>5
  <1>4. QED
    BY <1>2, <1>3

\* The packet that the worker holds is the oldest on its way, and goes behind those
\* in its box.
LEMMA PutPasses ==
  ASSUME ReceiveInv, DeliveryTyped, NEW m \in Machines, Put(m),
         NEW k \in Machines, NEW b \in Boxes
  PROVE  Arrived(k, b)' = Arrived(k, b)
  <1> DEFINE p == held[m]
             r == One(inbox[m]) \o socket[m]
             rest == Only(r, ForBox(b))
  <1>1. /\ p # NoMail
        /\ boxes' = [boxes EXCEPT ![m][p.box] = Append(@, p)]
        /\ held' = [held EXCEPT ![m] = NoMail]
        /\ UNCHANGED <<inbox, socket, got>>
    BY DEF Put, netVars, ReceiveInv, OnePacket
  <1>2. CASE k # m
    <2>1. OnTheWay(k)' = OnTheWay(k)
      BY <1>1, <1>2 DEF OnTheWay, ReceiveInv, ReceiversTyped
    <2>2. boxes'[k] = boxes[k] /\ got'[k] = got[k]
      BY <1>1, <1>2 DEF DeliveryTyped
    <2>3. QED
      BY <2>1, <2>2 DEF Arrived
  <1>3. CASE k = m
    <2>1. p \in Mail /\ p.box \in Boxes
      BY <1>1 DEF ReceiveInv, ReceiversTyped, Mail
    <2>2. One(inbox[m]) \in Seq(Mail) /\ socket[m] \in Seq(Mail)
      BY OnTheWayTyped DEF ReceiveInv
    <2>3. r \in Seq(Mail) /\ <<p>> \in Seq(Mail)
      BY <2>1, <2>2, ConcatProperties
    <2>4. OnTheWay(m) = <<p>> \o r
      <3> DEFINE x == <<p>>
                 y == One(inbox[m])
                 z == socket[m]
      <3>1. x \in Seq(Mail) /\ y \in Seq(Mail) /\ z \in Seq(Mail)
        BY <2>2, <2>3
      <3>2. OnTheWay(m) = (x \o y) \o z
        BY <1>1 DEF OnTheWay, One
      <3>3. r = y \o z
        OBVIOUS
      <3> HIDE DEF x, y, z, r
      <3>4. (x \o y) \o z = x \o (y \o z)
        BY <3>1, ConcatAssociative
      <3>5. QED
        BY <3>2, <3>3, <3>4 DEF x
    <2>5. OnTheWay(m)' = r
      <3>1. held'[m] = NoMail
        BY <1>1 DEF ReceiveInv, ReceiversTyped
      <3>2. QED
        BY <1>1, <2>2, <3>1, ConcatEmptySeq DEF OnTheWay, One
    <2>6. /\ got[m][b] \in Seq(Mail) /\ boxes[m][b] \in Seq(Mail)
          /\ got[m][b] \o boxes[m][b] \in Seq(Mail)
      BY ArrivedTyped DEF ReceiveInv
    <2> HIDE DEF p, r
    <2>7. rest \in Seq(Mail)
      BY <2>3, OnlyTyped
    <2>8. Only(OnTheWay(m), ForBox(b)) = Only(<<p>>, ForBox(b)) \o rest
      BY ZenonT(60), <2>3, <2>4, OnlyConcat
    <2>9. Only(<<p>>, ForBox(b)) = IF p.box = b THEN <<p>> ELSE <<>>
      BY <2>1, OnlyOne DEF ForBox
    <2>10. Arrived(m, b)' = (got[m][b] \o boxes'[m][b]) \o rest
      BY <1>1, <2>5 DEF Arrived, ForBox
    <2> HIDE DEF rest
    <2>11. CASE p.box = b
      <3>1. boxes'[m][b] = Append(boxes[m][b], p)
        BY <1>1, <2>1, <2>11 DEF DeliveryTyped
      <3>2. got[m][b] \o Append(boxes[m][b], p) = (got[m][b] \o boxes[m][b]) \o <<p>>
        BY ZenonT(60), <2>1, <2>6, AppendToConcat, AppendIsConcat
      <3>3. ((got[m][b] \o boxes[m][b]) \o <<p>>) \o rest
                = (got[m][b] \o boxes[m][b]) \o (<<p>> \o rest)
        <4> DEFINE x == got[m][b] \o boxes[m][b]
        <4>1. x \in Seq(Mail) /\ p \in Mail /\ rest \in Seq(Mail)
          BY <2>1, <2>6, <2>7
        <4> HIDE DEF x
        <4>2. (x \o <<p>>) \o rest = x \o (<<p>> \o rest)
          BY <4>1, Regroup
        <4>3. QED
          BY <4>2 DEF x
      <3>4. Arrived(m, b) = (got[m][b] \o boxes[m][b]) \o (<<p>> \o rest)
        BY <2>8, <2>9, <2>11 DEF Arrived, ForBox
      <3>5. QED
        BY <1>3, <2>10, <3>1, <3>2, <3>3, <3>4
    <2>12. CASE p.box # b
      <3>1. boxes'[m][b] = boxes[m][b]
        BY <1>1, <2>1, <2>12 DEF DeliveryTyped
      <3>2. Only(OnTheWay(m), ForBox(b)) = rest
        BY <2>7, <2>8, <2>9, <2>12, ConcatEmptySeq
      <3>3. QED
        BY <1>3, <2>10, <3>1, <3>2 DEF Arrived, ForBox
    <2>13. QED
      BY <2>11, <2>12
  <1>4. QED
    BY <1>2, <1>3

\* Mail is read from the head of its box.
LEMMA ReceivePasses ==
  ASSUME DeliveryTyped, NEW t \in Threads, NEW box \in Boxes, Receive(t, box),
         NEW k \in Machines, NEW b \in Boxes
  PROVE  Arrived(k, b)' = Arrived(k, b)
  <1> DEFINE m == MachineOf[t]
  <1>1. m \in Machines
    BY PostOfficeAssumption
  <1>2. OnTheWay(k)' = OnTheWay(k)
    BY DEF Receive, workVars, netVars, OnTheWay
  <1>3. got'[k][b] \o boxes'[k][b] = got[k][b] \o boxes[k][b]
    <2>1. CASE UNCHANGED <<boxes, got>>
      BY <2>1
    <2>2. CASE /\ boxes[m][box] # <<>>
               /\ boxes' = [boxes EXCEPT ![m][box] = Tail(@)]
               /\ got' = [got EXCEPT ![m][box] = Append(@, Head(boxes[m][box]))]
      <3>1. CASE k = m /\ b = box
        <4>1. got[k][b] \in Seq(Mail) /\ boxes[k][b] \in Seq(Mail)
          BY DEF DeliveryTyped
        <4>2. /\ Head(boxes[k][b]) \in Mail /\ Tail(boxes[k][b]) \in Seq(Mail)
              /\ boxes[k][b] = <<Head(boxes[k][b])>> \o Tail(boxes[k][b])
          BY <2>2, <3>1, <4>1, HeadTailProperties, HeadThenTail
        <4>3. /\ boxes'[k][b] = Tail(boxes[k][b])
              /\ got'[k][b] = Append(got[k][b], Head(boxes[k][b]))
          BY <1>1, <2>2, <3>1 DEF DeliveryTyped
        <4> DEFINE x == got[k][b]
                   y == Head(boxes[k][b])
                   z == Tail(boxes[k][b])
        <4>4. x \in Seq(Mail) /\ y \in Mail /\ z \in Seq(Mail)
          BY <4>1, <4>2
        <4>5. Append(x, y) \o z = x \o (<<y>> \o z)
          <5> HIDE DEF x, y, z
          <5> QED
            BY <4>4, Regroup
        <4>6. QED
          BY <4>2, <4>3, <4>5
      <3>2. CASE ~ (k = m /\ b = box)
        <4>1. got'[k][b] = got[k][b] /\ boxes'[k][b] = boxes[k][b]
          BY <1>1, <2>2, <3>2 DEF DeliveryTyped
        <4>2. QED
          BY <4>1
      <3>3. QED
        BY <3>1, <3>2
    <2>3. QED
      BY <2>1, <2>2 DEF Receive
  <1>4. QED
    BY <1>2, <1>3 DEF Arrived

\* The packet comes behind all those on their way to the same machine.
LEMMA NetworkSendArrives ==
  ASSUME ReceiveInv, NEW to \in Machines, NEW p \in Mail,
         UNCHANGED <<held, inbox>>, socket' = [socket EXCEPT ![to] = Append(@, p)],
         NEW m \in Machines
  PROVE  OnTheWay(m)' = IF m = to THEN Append(OnTheWay(m), p) ELSE OnTheWay(m)
  <1>1. CASE m # to
    BY <1>1 DEF OnTheWay, ReceiveInv, ReceiversTyped
  <1>2. CASE m = to
    <2> DEFINE x == One(held[m]) \o One(inbox[m])
               z == socket[m]
    <2>1. One(held[m]) \in Seq(Mail) /\ One(inbox[m]) \in Seq(Mail) /\ z \in Seq(Mail)
      BY OnTheWayTyped DEF ReceiveInv
    <2>2. x \in Seq(Mail)
      BY <2>1, ConcatProperties
    <2>3. socket'[m] = Append(z, p)
      BY <1>2 DEF ReceiveInv, ReceiversTyped
    <2>4. OnTheWay(m)' = x \o Append(z, p) /\ OnTheWay(m) = x \o z
      BY <2>3 DEF OnTheWay
    <2>5. x \o Append(z, p) = Append(x \o z, p)
      <3> HIDE DEF x, z
      <3> QED
        BY <2>1, <2>2, AppendToConcat
    <2>6. QED
      BY <1>2, <2>4, <2>5
  <1>3. QED
    BY <1>1, <1>2

LEMMA ArrivedGrows ==
  ASSUME ReceiveInv, DeliveryTyped, NEW p \in Mail, NEW m \in Machines, NEW b \in Boxes,
         UNCHANGED <<boxes, got>>,
         OnTheWay(m)' = IF m = p.to THEN Append(OnTheWay(m), p) ELSE OnTheWay(m)
  PROVE  Arrived(m, b)' = Grown(Arrived(m, b), p, ToBox(m, b))
  <1> DEFINE x == got[m][b] \o boxes[m][b]
             way == OnTheWay(m)
             only == Only(way, ForBox(b))
  <1>1. /\ x \in Seq(Mail) /\ only \in Seq(Mail) /\ way \in Seq(Mail)
        /\ Arrived(m, b) = x \o only
    BY ArrivedTyped, OnTheWayTyped DEF ReceiveInv
  <1>2. Arrived(m, b)' = x \o Only(OnTheWay(m)', ForBox(b))
    BY DEF Arrived, ForBox
  <1>3. CASE m # p.to
    <2>1. Arrived(m, b)' = Arrived(m, b)
      BY <1>1, <1>2, <1>3
    <2>2. p \notin ToBox(m, b)
      BY <1>3 DEF ToBox
    <2>3. QED
      BY <2>1, <2>2 DEF Grown
  <1>4. CASE m = p.to
    <2>1. Arrived(m, b)' = x \o Only(Append(way, p), ForBox(b))
      BY <1>2, <1>4
    <2>2. Only(Append(way, p), ForBox(b)) = Grown(only, p, ForBox(b))
      <3> HIDE DEF way
      <3> QED
        BY <1>1, OnlyAppend
    <2>3. p \in ForBox(b) <=> p \in ToBox(m, b)
      BY <1>4 DEF ForBox, ToBox
    <2>4. x \o Append(only, p) = Append(x \o only, p)
      <3> HIDE DEF x, only
      <3> QED
        BY <1>1, AppendToConcat
    <2> HIDE DEF x, only, way
    <2>5. QED
      BY <1>1, <2>1, <2>2, <2>3, <2>4 DEF Grown
  <1>5. QED
    BY <1>3, <1>4

LEMMA NetworkSendDelivers ==
  ASSUME DeliveryInv, NEW t \in Threads, NetworkSend(t)
  PROVE  DeliveryTyped' /\ OwnMail' /\ DeliveredInOrder'
  <1> DEFINE p == mail[t]
             home == MachineOf[t]
  <1>1. p \in Mail /\ p.sender = t /\ p.to \in Machines /\ home \in Machines
    <2>1. place[t] # "out"
      BY DEF NetworkSend
    <2>2. p \in Mail /\ p.sender = t
      BY <2>1 DEF DeliveryInv, IInv, MailHeld, OwnMail
    <2>3. QED
      BY <2>2, PostOfficeAssumption DEF Mail
  <1>2. UNCHANGED <<mail, held, inbox, boxes, got>>
    BY DEF NetworkSend, workVars
  <1>3. OwnMail'
    <2>1. \A u \in Threads : place'[u] # "out" => place[u] # "out"
      BY DEF NetworkSend, DeliveryInv, IInv, SendInv, ThreadsTyped
    <2>2. QED
      BY <1>2, <2>1 DEF DeliveryInv, OwnMail
  <1>4. CASE UNCHANGED <<socket, kept>>
    <2>1. \A m \in Machines, b \in Boxes : Arrived(m, b)' = Arrived(m, b)
      BY <1>2, <1>4 DEF Arrived, OnTheWay
    <2>2. DeliveredInOrder'
      BY <1>4, <2>1, PassedOn DEF DeliveryInv
    <2>3. QED
      BY <1>2, <1>3, <1>4, <2>2 DEF DeliveryInv, DeliveryTyped
  <1>5. CASE /\ kept' = [kept EXCEPT ![home] = Append(@, p)]
             /\ socket' = [socket EXCEPT ![p.to] = Append(@, p)]
    <2>1. ReceiveInv /\ DeliveryTyped /\ DeliveredInOrder
      BY DEF DeliveryInv, IInv
    <2>2. DeliveryTyped'
      BY <1>1, <1>2, <1>5, <2>1 DEF DeliveryTyped
    <2>3. DeliveredInOrder'
      <3> SUFFICES ASSUME NEW m \in Machines, NEW from \in Machines, NEW b \in Boxes
                   PROVE  Only(Arrived(m, b)', From(from)) = Only(kept'[from], ToBox(m, b))
        BY DEF DeliveredInOrder, From, ToBox
      <3> DEFINE arrived == Arrived(m, b)
                 sentMail == kept[from]
      <3>1. arrived \in Seq(Mail) /\ sentMail \in Seq(Mail)
        BY <2>1, ArrivedTyped DEF ReceiveInv, DeliveryTyped
      <3>2. Only(arrived, From(from)) = Only(sentMail, ToBox(m, b))
        BY <2>1 DEF DeliveredInOrder, From, ToBox
      <3>3. Arrived(m, b)' = Grown(arrived, p, ToBox(m, b))
        <4> DEFINE to == p.to
        <4>1. to \in Machines /\ socket' = [socket EXCEPT ![to] = Append(@, p)]
          BY <1>1, <1>5
        <4> HIDE DEF to, p
        <4>2. OnTheWay(m)' = IF m = to THEN Append(OnTheWay(m), p) ELSE OnTheWay(m)
          BY <1>1, <1>2, <2>1, <4>1, NetworkSendArrives
        <4>3. OnTheWay(m)' = IF m = p.to THEN Append(OnTheWay(m), p) ELSE OnTheWay(m)
          BY <4>2 DEF to
        <4>4. QED
          BY <1>1, <1>2, <2>1, <4>3, ArrivedGrows
      <3>4. kept'[from] = IF from = home THEN Append(sentMail, p) ELSE sentMail
        BY <1>1, <1>5, <2>1 DEF DeliveryTyped
      <3>5. p \in From(from) <=> from = home
        BY <1>1 DEF From
      <3> HIDE DEF arrived, sentMail, p, home
      <3>6. Only(Append(arrived, p), From(from)) = Grown(Only(arrived, From(from)), p, From(from))
        BY <1>1, <3>1, OnlyAppend
      <3>7. Only(Append(sentMail, p), ToBox(m, b))
                = Grown(Only(sentMail, ToBox(m, b)), p, ToBox(m, b))
        BY <1>1, <3>1, OnlyAppend
      <3>8. QED
        BY <3>2, <3>3, <3>4, <3>5, <3>6, <3>7 DEF Grown
    <2>4. QED
      BY <1>3, <2>2, <2>3
  <1>6. QED
    BY <1>4, <1>5 DEF NetworkSend

\* The steps of the senders that the network does not see.
LEMMA OthersDeliver ==
  ASSUME DeliveryInv, UNCHANGED <<boxes, got, kept, held, inbox, socket>>,
         \A t \in Threads : place'[t] # "out" => mail'[t].sender = t
  PROVE  DeliveryTyped' /\ OwnMail' /\ DeliveredInOrder'
  <1>1. \A m \in Machines, b \in Boxes : Arrived(m, b)' = Arrived(m, b)
    BY DEF Arrived, OnTheWay
  <1>2. DeliveredInOrder'
    BY <1>1, PassedOn DEF DeliveryInv
  <1>3. QED
    BY <1>2 DEF DeliveryInv, DeliveryTyped, OwnMail

LEMMA ReceiversDeliver ==
  ASSUME DeliveryInv, NEW m \in Machines,
         \/ CheckPktAvail(m) \/ AwaitPacket(m) \/ NetworkReceive(m) \/ Put(m)
  PROVE  DeliveryTyped' /\ OwnMail' /\ DeliveredInOrder'
  <1>0. ReceiveInv /\ DeliveryTyped /\ DeliveredInOrder
    BY DEF DeliveryInv, IInv
  <1>1. UNCHANGED <<place, mail, kept, got>>
    BY DEF CheckPktAvail, AwaitPacket, NetworkReceive, Put, threadVars, netVars
  <1>2. OwnMail'
    BY <1>1 DEF DeliveryInv, OwnMail
  <1>3. CASE CheckPktAvail(m) \/ NetworkReceive(m)
    <2>1. UNCHANGED boxes
      BY <1>3 DEF CheckPktAvail, NetworkReceive
    <2>2. ASSUME NEW k \in Machines, NEW b \in Boxes
          PROVE  Arrived(k, b)' = Arrived(k, b)
      <3>1. OnTheWay(k)' = OnTheWay(k)
        BY <1>0, <1>3, CheckPktAvailPasses, NetworkReceivePasses
      <3>2. QED
        BY <1>1, <2>1, <3>1 DEF Arrived
    <2>3. DeliveredInOrder'
      BY <1>0, <1>1, <2>2, PassedOn
    <2>4. QED
      BY <1>0, <1>1, <1>2, <2>1, <2>3 DEF DeliveryTyped
  <1>4. CASE AwaitPacket(m)
    BY <1>1, <1>4, OthersDeliver DEF AwaitPacket, netVars, DeliveryInv, OwnMail
  <1>5. CASE Put(m)
    <2>1. \A k \in Machines, b \in Boxes : Arrived(k, b)' = Arrived(k, b)
      BY <1>0, <1>5, PutPasses
    <2>2. DeliveredInOrder'
      BY <1>0, <1>1, <2>1, PassedOn
    <2>3. boxes' \in [Machines -> [Boxes -> Seq(Mail)]]
      <3>1. boxes' = [boxes EXCEPT ![m][held[m].box] = Append(@, held[m])]
        BY <1>5 DEF Put
      <3>2. held[m] \in Mail
        BY <1>0, <1>5 DEF Put, ReceiveInv, ReceiversTyped, OnePacket
      <3>3. held[m].box \in Boxes
        BY <3>2 DEF Mail
      <3>4. QED
        BY <1>0, <3>1, <3>2, <3>3 DEF DeliveryTyped
    <2>4. QED
      BY <1>0, <1>1, <1>2, <2>2, <2>3 DEF DeliveryTyped
  <1>6. QED
    BY <1>3, <1>4, <1>5

LEMMA ReceiveDelivers ==
  ASSUME DeliveryInv, NEW t \in Threads, NEW box \in Boxes, Receive(t, box)
  PROVE  DeliveryTyped' /\ OwnMail' /\ DeliveredInOrder'
  <1>0. DeliveryTyped /\ DeliveredInOrder
    BY DEF DeliveryInv
  <1>1. UNCHANGED <<place, mail, kept>>
    BY DEF Receive, threadVars, netVars
  <1>2. OwnMail'
    BY <1>1 DEF DeliveryInv, OwnMail
  <1>3. \A k \in Machines, b \in Boxes : Arrived(k, b)' = Arrived(k, b)
    BY <1>0, ReceivePasses
  <1>4. DeliveredInOrder'
    BY <1>0, <1>1, <1>3, PassedOn
  <1>5. DeliveryTyped'
    <2>1. CASE UNCHANGED <<boxes, got>>
      BY <1>0, <1>1, <2>1 DEF DeliveryTyped
    <2>2. CASE /\ boxes[MachineOf[t]][box] # <<>>
               /\ boxes' = [boxes EXCEPT ![MachineOf[t]][box] = Tail(@)]
               /\ got' = [got EXCEPT ![MachineOf[t]][box] =
                             Append(@, Head(boxes[MachineOf[t]][box]))]
      <3> DEFINE m == MachineOf[t]
                 s == boxes[m][box]
      <3>1. m \in Machines /\ s \in Seq(Mail) /\ got[m][box] \in Seq(Mail)
        BY <1>0, PostOfficeAssumption DEF DeliveryTyped
      <3>2. Tail(s) \in Seq(Mail) /\ Append(got[m][box], Head(s)) \in Seq(Mail)
        BY <2>2, <3>1, HeadTailProperties
      <3>3. QED
        BY <1>0, <1>1, <2>2, <3>1, <3>2 DEF DeliveryTyped
    <2>3. QED
      BY <2>1, <2>2 DEF Receive
  <1>6. QED
    BY <1>2, <1>4, <1>5

LEMMA NextDelivery == DeliveryInv /\ [Next]_vars => DeliveryInv'
  <1> SUFFICES ASSUME DeliveryInv, [Next]_vars PROVE DeliveryInv'
    OBVIOUS
  <1>1. IInv'
    BY NextInv DEF DeliveryInv
  <1>2. DeliveryTyped' /\ OwnMail' /\ DeliveredInOrder'
    <2>1. ASSUME NEW t \in Threads, NEW to \in Machines, NEW b \in Boxes, Send(t, to, b)
          PROVE  DeliveryTyped' /\ OwnMail' /\ DeliveredInOrder'
      <3>1. \A u \in Threads : place'[u] # "out" => mail'[u].sender = u
        BY <2>1 DEF Send, DeliveryInv, IInv, SendInv, ThreadsTyped, OwnMail
      <3>2. QED
        BY <2>1, <3>1, OthersDeliver DEF Send, netVars, workVars
    <2>2. ASSUME NEW t \in Threads, AwaitSent(t)
          PROVE  DeliveryTyped' /\ OwnMail' /\ DeliveredInOrder'
      <3>1. \A u \in Threads : place'[u] # "out" => mail'[u].sender = u
        BY <2>2 DEF AwaitSent, DeliveryInv, IInv, SendInv, ThreadsTyped, OwnMail
      <3>2. QED
        BY <2>2, <3>1, OthersDeliver DEF AwaitSent, workVars
    <2>3. ASSUME NEW t \in Threads, SendReturn(t)
          PROVE  DeliveryTyped' /\ OwnMail' /\ DeliveredInOrder'
      <3>1. \A u \in Threads : place'[u] # "out" => mail'[u].sender = u
        BY <2>3 DEF SendReturn, DeliveryInv, IInv, SendInv, ThreadsTyped, OwnMail
      <3>2. QED
        BY <2>3, <3>1, OthersDeliver DEF SendReturn, netVars, workVars
    <2>4. ASSUME NEW m \in Machines, PacketSent(m)
          PROVE  DeliveryTyped' /\ OwnMail' /\ DeliveredInOrder'
      BY <2>4, OthersDeliver DEF PacketSent, threadVars, workVars, DeliveryInv, OwnMail
    <2>5. CASE UNCHANGED vars
      BY <2>5, OthersDeliver DEF vars, threadVars, netVars, workVars, DeliveryInv, OwnMail
    <2>6. QED
      BY <2>1, <2>2, <2>3, <2>4, <2>5, NetworkSendDelivers, ReceiversDeliver,
         ReceiveDelivers DEF Next
  <1>3. QED
    BY <1>1, <1>2 DEF DeliveryInv

\* However the senders, the interrupts and the worker of each machine interleave, and
\* wherever a machine stops, the mail for a box that the network does not drop comes
\* to it once, and what one machine sent it comes in the order it was sent.
THEOREM MailInOrder == Spec => []DeliveredInOrder
  <1>1. DeliveryInv => DeliveredInOrder
    BY DEF DeliveryInv
  <1>2. QED
    BY <1>1, InitDelivery, NextDelivery, PTL DEF Spec

-----------------------------------------------------------------------------
(* The console.                                                            *)

SequencesTyped ==
    keyboard \in Seq(Chars) /\ typed \in Seq(Chars) /\ display \in Seq(Chars)

DeviceTyped ==
    /\ incoming \in Chars \cup {EOF}
    /\ ch \in Chars \cup {EOF}
    /\ readAvail \in {0, 1} /\ writeDone \in {0, 1}
    /\ stage \in {"wait", "echo", "written", "done"}
    /\ putBusy \in BOOLEAN /\ writePending = putBusy
    /\ closed \in BOOLEAN /\ failed \in BOOLEAN

\* a character is buffered when its V is there, or the test has taken that, and
\* not both
ReadMatched ==
    /\ incoming # EOF <=> readAvail = 1 \/ stage = "echo"
    /\ ~ (readAvail = 1 /\ stage = "echo")

\* the device is busy, or the V of its interrupt is there, and not both, only
\* when the test awaits it
WriteMatched ==
    /\ putBusy \/ writeDone = 1 => stage = "written"
    /\ ~ (putBusy /\ writeDone = 1)

ConsoleIInv ==
    SequencesTyped /\ DeviceTyped /\ ReadMatched /\ WriteMatched /\ EchoesAll

LEMMA BufferedTyped ==
  ASSUME DeviceTyped PROVE Buffered \in Seq(Chars)
  BY DEF DeviceTyped, Buffered

LEMMA ConsoleInitInv == ConsoleInit => ConsoleIInv
  <1> SUFFICES ASSUME ConsoleInit PROVE ConsoleIInv
    OBVIOUS
  <1>1. SequencesTyped /\ DeviceTyped /\ ReadMatched /\ WriteMatched
    <2>1. /\ putBusy \in BOOLEAN /\ writePending = putBusy
          /\ closed \in BOOLEAN /\ failed \in BOOLEAN
      BY Zenon DEF ConsoleInit
    <2>2. SequencesTyped
      BY DEF ConsoleInit, SequencesTyped
    <2>3. QED
      BY <2>1, <2>2 DEF ConsoleInit, DeviceTyped, ReadMatched, WriteMatched
  <1>2. EchoesAll
    BY DEF ConsoleInit, EchoesAll, Buffered
  <1>3. QED
    BY <1>1, <1>2 DEF ConsoleIInv

\* What is typed comes to the end of what is still to be read.
LEMMA TypeKeeps ==
  ASSUME ConsoleIInv, NEW c \in Chars, Type(c)
  PROVE  ConsoleIInv'
  <1>1. /\ keyboard' = Append(keyboard, c)
        /\ typed' = Append(typed, c)
        /\ UNCHANGED <<closed, incoming, putBusy, writePending, readAvail, writeDone,
                       stage, ch, display, failed>>
    BY DEF Type, testVars
  <1>2. SequencesTyped' /\ DeviceTyped' /\ ReadMatched' /\ WriteMatched'
    BY <1>1 DEF ConsoleIInv, SequencesTyped, DeviceTyped, ReadMatched, WriteMatched
  <1>3. EchoesAll'
    <2> DEFINE shown == display \o Buffered
    <2>1. Buffered' = Buffered
      BY <1>1 DEF Buffered
    <2>2. shown \in Seq(Chars) /\ keyboard \in Seq(Chars) /\ typed \in Seq(Chars)
      BY BufferedTyped, ConcatProperties DEF ConsoleIInv, SequencesTyped
    <2>3. shown \o keyboard = typed
      BY DEF ConsoleIInv, EchoesAll
    <2> HIDE DEF shown
    <2>4. keyboard' = keyboard \o <<c>> /\ typed' = typed \o <<c>> /\ <<c>> \in Seq(Chars)
      BY <1>1, <2>2, AppendIsConcat
    <2>5. shown \o (keyboard \o <<c>>) = (shown \o keyboard) \o <<c>>
      BY <2>2, <2>4, ConcatAssociative
    <2>6. shown \o keyboard' = typed'
      BY <2>3, <2>4, <2>5
    <2>7. QED
      BY <1>1, <2>1, <2>6 DEF EchoesAll, shown
  <1>4. QED
    BY <1>2, <1>3 DEF ConsoleIInv

\* The next character gets into the empty buffer.
LEMMA CheckCharAvailKeeps ==
  ASSUME EOF \notin Chars, ConsoleIInv, CheckCharAvail
  PROVE  ConsoleIInv'
  <1>1. /\ incoming = EOF
        /\ UNCHANGED <<closed, putBusy, writePending, writeDone, stage, ch, display, typed>>
    BY DEF CheckCharAvail, testVars
  <1>2. readAvail = 0 /\ stage # "echo"
    BY <1>1 DEF ConsoleIInv, DeviceTyped, ReadMatched
  <1>3. CASE /\ keyboard # <<>>
             /\ incoming' = Head(keyboard)
             /\ keyboard' = Tail(keyboard)
             /\ readAvail' = readAvail + 1
             /\ UNCHANGED failed
    <2>1. /\ Head(keyboard) \in Chars
          /\ Tail(keyboard) \in Seq(Chars)
          /\ keyboard = <<Head(keyboard)>> \o Tail(keyboard)
      BY <1>3, HeadTailProperties DEF ConsoleIInv, SequencesTyped
    <2>2. SequencesTyped' /\ DeviceTyped' /\ ReadMatched' /\ WriteMatched'
      BY <1>1, <1>2, <1>3, <2>1
         DEF ConsoleIInv, SequencesTyped, DeviceTyped, ReadMatched, WriteMatched
    <2>3. EchoesAll'
      <3>1. Buffered = <<>> /\ Buffered' = <<Head(keyboard)>>
        BY <1>1, <1>3, <2>1 DEF Buffered
      <3>2. display \in Seq(Chars) /\ display \o <<>> = display
        BY ConcatEmptySeq DEF ConsoleIInv, SequencesTyped
      <3>3. display \o keyboard = typed
        BY <3>1, <3>2 DEF ConsoleIInv, EchoesAll
      <3>4. <<Head(keyboard)>> \in Seq(Chars)
        BY <2>1
      <3>5. display \o (<<Head(keyboard)>> \o Tail(keyboard))
                = (display \o <<Head(keyboard)>>) \o Tail(keyboard)
        BY <2>1, <3>2, <3>4, ConcatAssociative
      <3>6. QED
        BY <1>1, <1>3, <2>1, <3>1, <3>3, <3>5 DEF EchoesAll
    <2>4. QED
      BY <2>2, <2>3 DEF ConsoleIInv
  <1>4. CASE failed' = TRUE /\ UNCHANGED <<incoming, keyboard, readAvail>>
    BY <1>1, <1>4 DEF ConsoleIInv, SequencesTyped, DeviceTyped, ReadMatched, WriteMatched,
       EchoesAll, Buffered
  <1>5. QED
    BY <1>3, <1>4 DEF CheckCharAvail

\* The test takes the character and gives it to the device, which is free.
LEMMA EchoKeeps ==
  ASSUME EOF \notin Chars, ConsoleIInv, Echo
  PROVE  ConsoleIInv'
  <1>1. /\ stage = "echo"
        /\ ch' = incoming
        /\ incoming' = EOF
        /\ UNCHANGED <<keyboard, closed, readAvail, writeDone, typed>>
    BY DEF Echo
  <1>2. /\ incoming \in Chars /\ incoming # EOF /\ readAvail = 0
        /\ ~ putBusy /\ writeDone = 0
    BY <1>1 DEF ConsoleIInv, DeviceTyped, ReadMatched, WriteMatched
  <1>3. /\ display' = Append(display, incoming)
        /\ putBusy' = TRUE
        /\ writePending' = TRUE
        /\ stage' = "written"
        /\ UNCHANGED failed
    BY <1>2 DEF Echo
  <1>4. SequencesTyped' /\ DeviceTyped' /\ ReadMatched' /\ WriteMatched'
    BY <1>1, <1>2, <1>3
       DEF ConsoleIInv, SequencesTyped, DeviceTyped, ReadMatched, WriteMatched
  <1>5. EchoesAll'
    <2>1. Buffered = <<incoming>> /\ Buffered' = <<>>
      BY <1>1, <1>2 DEF Buffered
    <2>2. /\ display \in Seq(Chars)
          /\ display' = display \o <<incoming>>
      BY <1>2, <1>3, AppendIsConcat DEF ConsoleIInv, SequencesTyped
    <2>3. display' \in Seq(Chars) /\ display' \o <<>> = display'
      BY <1>4, ConcatEmptySeq DEF SequencesTyped
    <2>4. QED
      BY <1>1, <2>1, <2>2, <2>3 DEF ConsoleIInv, EchoesAll
  <1>6. QED
    BY <1>4, <1>5 DEF ConsoleIInv

LEMMA OtherConsoleSteps ==
  ASSUME ConsoleIInv,
         Close \/ WriteDone \/ AwaitRead \/ AwaitWrite \/ UNCHANGED consoleVars
  PROVE  ConsoleIInv'
  <1>1. UNCHANGED <<keyboard, incoming, display, typed>>
    BY DEF Close, WriteDone, AwaitRead, AwaitWrite, consoleVars, testVars
  <1>2. SequencesTyped' /\ EchoesAll'
    BY <1>1 DEF ConsoleIInv, SequencesTyped, EchoesAll, Buffered
  <1>3. CASE Close \/ UNCHANGED consoleVars
    <2>1. UNCHANGED <<putBusy, writePending, readAvail, writeDone, stage, ch, failed>>
      BY <1>3 DEF Close, consoleVars, testVars
    <2>2. closed' \in BOOLEAN
      <3>1. closed' = TRUE \/ closed' = closed
        BY <1>3 DEF Close, consoleVars
      <3>2. QED
        BY <3>1, Zenon DEF ConsoleIInv, DeviceTyped
    <2>3. QED
      BY <1>1, <1>2, <2>1, <2>2 DEF ConsoleIInv, DeviceTyped, ReadMatched, WriteMatched
  <1>4. CASE WriteDone
    <2>1. /\ putBusy' = FALSE /\ writePending' = FALSE
          /\ writeDone = 0 /\ writeDone' = 1 /\ stage = "written"
          /\ UNCHANGED <<closed, readAvail, stage, ch, failed>>
      BY <1>4 DEF WriteDone, testVars, ConsoleIInv, DeviceTyped, WriteMatched
    <2>2. QED
      BY <1>1, <1>2, <2>1 DEF ConsoleIInv, DeviceTyped, ReadMatched, WriteMatched
  <1>5. CASE AwaitRead
    BY <1>1, <1>2, <1>5 DEF AwaitRead, ConsoleIInv, DeviceTyped, ReadMatched, WriteMatched
  <1>6. CASE AwaitWrite
    BY <1>1, <1>2, <1>6 DEF AwaitWrite, ConsoleIInv, DeviceTyped, ReadMatched, WriteMatched
  <1>7. QED
    BY <1>3, <1>4, <1>5, <1>6

\* Unless a byte 0xFF is typed, which the device takes for an empty buffer
\* (console.cc), nothing that is typed is lost or displayed twice, and PutChar is
\* called only when the device is free: whatever is typed, and however much.
THEOREM ConsoleKeepsAll ==
  ASSUME EOF \notin Chars
  PROVE  ConsoleSpec => []ConsoleInv
  <1>1. ConsoleIInv /\ [ConsoleNext]_consoleVars => ConsoleIInv'
    BY TypeKeeps, CheckCharAvailKeeps, EchoKeeps, OtherConsoleSteps DEF ConsoleNext
  <1>2. ConsoleIInv => ConsoleInv
    BY DEF ConsoleIInv, ConsoleInv, DeviceTyped, ConsoleTypeOK, WriteMatched, PutAllowed
  <1>3. QED
    BY ConsoleInitInv, <1>1, <1>2, PTL DEF ConsoleSpec
=============================================================================
