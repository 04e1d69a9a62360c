------------------------------ MODULE SerialDisk ------------------------------
(***************************************************************************)
(* What a synchronous disk promises to the threads that share it           *)
(* (synchdisk.h:16-27): their calls stand in one line in the order of      *)
(* arrival, the device works for the first of the line only, one operation *)
(* at a time, and a call returns after its own operation has completed.    *)
(***************************************************************************)
EXTENDS Sequences

CONSTANTS Clients, Sectors, Data, NoCall

VARIABLES
    contents,   \* the data in each sector
    call,       \* what each client has called and has not been answered
    line,       \* the clients in a call, in order of arrival
    device      \* "idle", or "busy" with the first of the line, or "done"

Calls == [kind : {"read", "write"}, sector : Sectors, data : Data]

Init ==
    /\ contents \in [Sectors -> Data]
    /\ call = [c \in Clients |-> NoCall]
    /\ line = <<>>
    /\ device = "idle"

Start(c, k) ==
    /\ call[c] = NoCall
    /\ call' = [call EXCEPT ![c] = k]
    /\ line' = Append(line, c)
    /\ UNCHANGED <<contents, device>>

\* the device takes the call of the first client
Serve(c) ==
    /\ line # <<>> /\ c = Head(line)
    /\ device = "idle"
    /\ device' = "busy"
    /\ \/ /\ call[c].kind = "read"
          /\ call' = [call EXCEPT ![c].data = contents[call[c].sector]]
          /\ UNCHANGED contents
       \/ /\ call[c].kind = "write"
          /\ contents' = [contents EXCEPT ![call[c].sector] = call[c].data]
          /\ UNCHANGED call
    /\ UNCHANGED line

Complete ==
    /\ device = "busy"
    /\ device' = "done"
    /\ UNCHANGED <<contents, call, line>>

Return(c) ==
    /\ line # <<>> /\ c = Head(line)
    /\ device = "done"
    /\ device' = "idle"
    /\ call' = [call EXCEPT ![c] = NoCall]
    /\ line' = Tail(line)
    /\ UNCHANGED contents

Next ==
    \/ \E c \in Clients :
          \/ \E k \in Calls : Start(c, k)
          \/ Serve(c)
          \/ Return(c)
    \/ Complete

Spec == Init /\ [][Next]_<<contents, call, line, device>>
=============================================================================
