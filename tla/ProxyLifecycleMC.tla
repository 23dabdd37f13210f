-------------------------- MODULE ProxyLifecycleMC --------------------------
(***************************************************************************)
(* ProxyLifecycle for TLC. While one request has arrived, it meets every   *)
(* combination of faults; two requests at once, with the gauges and the    *)
(* controller they share, meet at most MaxFaults of them.                  *)
(***************************************************************************)
EXTENDS ProxyLifecycle, TLC

CONSTANT MaxFaults      \* bound of the model: faults that two requests meet

Symmetry == Permutations(Requests)

Arrived == {r \in Requests : pc[r] # "arrived"}

Faults ==
    Cardinality({r \in Requests : clientDone[r]}) + Cardinality({r \in Requests : ctxErr[r] # "none"})
    + (IF \E r \in Requests : phase[r] = "fenced" THEN 1 ELSE 0)
    + (IF controller = "open" THEN 0 ELSE 1) + (IF server = "serving" THEN 0 ELSE 1)

FewFaults == Cardinality(Arrived) <= 1 \/ Faults <= MaxFaults

=============================================================================
