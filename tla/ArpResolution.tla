---------------------------- MODULE ArpResolution ----------------------------
(***************************************************************************)
(* What the ARP cache and its request queue promise to the packets, with   *)
(* no cache, no queue, no threads and no time.  The packets that wait for  *)
(* one next hop share their destiny: an answer resolves all of them in one *)
(* step, after which each is sent, and giving up settles all of them in    *)
(* one step.  A packet that was resolved is never given up.                *)
(***************************************************************************)
CONSTANTS Packets, NextHop

VARIABLE fate

Waiting(hop) == {p \in Packets : fate[p] = "waiting" /\ NextHop[p] = hop}
Hops == {NextHop[p] : p \in Packets}

Init == fate = [p \in Packets |-> "new"]

Accept(p) ==
    /\ fate[p] = "new"
    /\ fate' = [fate EXCEPT ![p] = "held"]

\* The next hop is known.
Forward(p) ==
    /\ fate[p] = "held"
    /\ fate' = [fate EXCEPT ![p] = "sent"]

\* The next hop is not known.
Enqueue(p) ==
    /\ fate[p] = "held"
    /\ fate' = [fate EXCEPT ![p] = "waiting"]

\* The next hop has answered.
Learn(hop) ==
    /\ Waiting(hop) # {}
    /\ fate' = [p \in Packets |-> IF p \in Waiting(hop) THEN "resolved" ELSE fate[p]]

Deliver(p) ==
    /\ fate[p] = "resolved"
    /\ fate' = [fate EXCEPT ![p] = "sent"]

\* The next hop does not answer; some of the senders are told.
GiveUp(hop) ==
    /\ Waiting(hop) # {}
    /\ fate' \in [Packets -> {"bounced", "dropped"} \cup {fate[p] : p \in Packets}]
    /\ \A p \in Packets :
          IF p \in Waiting(hop) THEN fate'[p] \in {"bounced", "dropped"}
                                ELSE fate'[p] = fate[p]

Next ==
    \/ \E p \in Packets : Accept(p) \/ Forward(p) \/ Enqueue(p) \/ Deliver(p)
    \/ \E hop \in Hops : Learn(hop) \/ GiveUp(hop)

\* What may happen to the packets, and what must
Safe == Init /\ [][Next]_fate

Spec ==
    /\ Safe
    /\ \A p \in Packets : WF_fate(Forward(p) \/ Enqueue(p)) /\ WF_fate(Deliver(p))
    /\ \A hop \in Hops : WF_fate(Learn(hop) \/ GiveUp(hop))
=============================================================================
