---------------------------- MODULE RequestTier ----------------------------
(***************************************************************************)
(* The scheduling tier a trusted ingress gives a request                   *)
(* (internal/admission/tps_demand.go).                                     *)
(***************************************************************************)
EXTENDS Naturals

Tiers == {"priority", "default", "flex"}

\* A higher rank is served first.
Rank(tier) == IF tier = "priority" THEN 2 ELSE IF tier = "default" THEN 1 ELSE 0

\* Load protection applies to the tier.
Sheddable(tier) == tier \in {"default", "flex"}
=============================================================================
