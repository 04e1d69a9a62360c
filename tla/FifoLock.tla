------------------------------- MODULE FifoLock -------------------------------
(***************************************************************************)
(* What a lock promises its clients (synch.h:54-64): at most one owner,    *)
(* and whoever has to wait gets it in the order of arrival.                *)
(***************************************************************************)
EXTENDS Sequences

CONSTANTS Clients, Locks, Nobody

VARIABLES
    owner,      \* the client that has each lock, or Nobody
    waiting     \* the clients waiting for each lock, in order of arrival

Init ==
    /\ owner = [l \in Locks |-> Nobody]
    /\ waiting = [l \in Locks |-> <<>>]

Take(c, l) ==
    /\ owner[l] = Nobody
    /\ owner' = [owner EXCEPT ![l] = c]
    /\ UNCHANGED waiting

Wait(c, l) ==
    /\ owner[l] # Nobody
    /\ waiting' = [waiting EXCEPT ![l] = Append(@, c)]
    /\ UNCHANGED owner

Free(l) ==
    /\ owner[l] # Nobody
    /\ waiting[l] = <<>>
    /\ owner' = [owner EXCEPT ![l] = Nobody]
    /\ UNCHANGED waiting

HandOver(l) ==
    /\ owner[l] # Nobody
    /\ waiting[l] # <<>>
    /\ owner' = [owner EXCEPT ![l] = Head(waiting[l])]
    /\ waiting' = [waiting EXCEPT ![l] = Tail(@)]

Next ==
    \E l \in Locks :
        \/ \E c \in Clients : Take(c, l) \/ Wait(c, l)
        \/ Free(l)
        \/ HandOver(l)

Spec == Init /\ [][Next]_<<owner, waiting>>
=============================================================================
