------------------------------ MODULE Channel -------------------------------
(***************************************************************************)
(* What the code above the socket takes one direction of a connection for: *)
(* a channel that hands over the messages that were sent, each once and in *)
(* order, until it breaks.  A broken channel promises nothing.             *)
(***************************************************************************)
EXTENDS Integers, Sequences

CONSTANT Messages

VARIABLES
    sent,       \* the messages sent, in order
    received,   \* the number of them that were handed over
    broken      \* the channel has broken

vars == <<sent, received, broken>>

Init == sent = <<>> /\ received = 0 /\ broken = FALSE

Send == /\ broken = FALSE /\ UNCHANGED broken
        /\ \E m \in Messages : sent' = Append(sent, m)
        /\ UNCHANGED received

Receive == /\ broken = FALSE /\ UNCHANGED broken
           /\ received < Len(sent)
           /\ received' = received + 1
           /\ UNCHANGED sent

Break == broken'

Next == Send \/ Receive \/ Break

\* What may happen, and what must
Safe == Init /\ [][Next]_vars

Spec == Safe /\ WF_vars(Receive)
=============================================================================
