------------------------------- MODULE Framing -------------------------------
(***************************************************************************)
(* What byteprocessor.h promises to the two programs: every packet a peer  *)
(* writes to its socket reaches the callback, whole, once, in order, and   *)
(* as that socket's.                                                       *)
(***************************************************************************)
EXTENDS Naturals, Sequences

CONSTANTS
    Sockets,   \* the connections one reader serves
    Packets    \* what a peer may write

VARIABLES
    sent,      \* per socket, the packets written to it
    received   \* per socket, the packets handed to the callback

vars == <<sent, received>>

Init ==
    /\ sent = [s \in Sockets |-> <<>>]
    /\ received = [s \in Sockets |-> <<>>]

Send(s) ==
    /\ \E p \in Packets : sent' = [sent EXCEPT ![s] = Append(@, p)]
    /\ UNCHANGED received

Deliver(s) ==
    LET n == Len(received[s])
    IN  /\ n < Len(sent[s])
        /\ received' = [received EXCEPT ![s] = Append(@, sent[s][n + 1])]
        /\ UNCHANGED sent

Next == \E s \in Sockets : Send(s) \/ Deliver(s)

\* A packet that was written is delivered, whatever the other peers write.
Spec == Init /\ [][Next]_vars /\ \A s \in Sockets : WF_vars(Deliver(s))
==============================================================================
