----------------------- MODULE AdmissionControllerMC -----------------------
(***************************************************************************)
(* Instances of AdmissionController for TLC. Each configuration lets one   *)
(* part of the controller vary and keeps the inputs of the others small.   *)
(***************************************************************************)
EXTENDS AdmissionController, TLC

\* The samplers are interchangeable.
SamplerSymmetry == Permutations(Samplers)

Demand(n, tier, known, tokens) ==
    [sequences |-> n, tier |-> tier, prefillKnown |-> known, prefillTokens |-> tokens]

\* A default sequence with a cold prompt, and a fan-out of two for priority, warm.
LifecycleDemands == {Demand(1, "default", FALSE, 0), Demand(2, "priority", TRUE, 1)}

\* One demand, so that the samplers' interleavings are what varies.
SamplingDemands == {Demand(1, "default", FALSE, 0)}
=============================================================================
