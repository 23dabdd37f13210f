-------------------------- MODULE AdmissionPolicy --------------------------
(***************************************************************************)
(* The pure decision of internal/admission: may a request of a given       *)
(* demand enter, given the projected backend state and the policy bounds?  *)
(* (tps_demand.go, tps_gate.go, admission_bounds.go, policy.go).           *)
(*                                                                         *)
(* A projected state is a record                                           *)
(*   running, waiting  backend gauges of the current observation           *)
(*   unobserved        sequences pending first byte (the overlay)          *)
(*   coldPending       cold default/flex requests pending first byte       *)
(*   preempted         the preemption counter moved since the previous     *)
(*                     observation (PreemptionDelta > 0)                   *)
(*   tps               what tpsWindow.snapshot says of the TPS reference:  *)
(*                     enabled, ready, healthy (rolling mean at or above   *)
(*                     the reference), qualified and recovered (the latest *)
(*                     interval counts, and is at or above the reference)  *)
(* The rates are kept only as these comparisons; the branch of the gate    *)
(* for a non-finite snapshot is not reachable from finite counters.        *)
(***************************************************************************)
EXTENDS Numeric, RequestTier

CONSTANTS
    WarmPromptTokens,       \* prefill chunk size; 0 turns prompt-awareness off
    BackendTierScheduling   \* the backend orders its queue by the tier

ASSUME PolicyAssumption ==
    /\ WarmPromptTokens \in Nat
    /\ BackendTierScheduling \in BOOLEAN

(***************************************************************************)
(* A valid request: its decode fan-out, tier and estimated uncached        *)
(* prompt. A demand with no sequences is refused as invalid_request before *)
(* the controller looks at its state.                                      *)
(***************************************************************************)
DemandType == [sequences : 1..MaxInt64, tier : Tiers,
               prefillKnown : BOOLEAN, prefillTokens : Nat]

NoDemand == [sequences |-> 0, tier |-> "default",
             prefillKnown |-> FALSE, prefillTokens |-> 0]

\* One flex sequence of unknown prompt: what Snapshot reports availability for.
MinimumDemand == [sequences |-> 1, tier |-> "flex",
                  prefillKnown |-> FALSE, prefillTokens |-> 0]

PromptAware == WarmPromptTokens > 0

Warm(d) == PromptAware /\ d.prefillKnown /\ d.prefillTokens <= WarmPromptTokens

\* A slip: the negation is lost, and the warm prompts take turns.
WarmSheddable(d) == PromptAware /\ Sheddable(d.tier) /\ Warm(d)

ColdSheddable(d) == PromptAware /\ Sheddable(d.tier) /\ ~Warm(d)

(***************************************************************************)
(* The TPS gate, by the branches that protect. In order: waiting,          *)
(* preemption, cold_prompt_pending, cold_prompt, below_reference; a window *)
(* that is not ready, or whose latest interval does not qualify, is open.  *)
(***************************************************************************)
BelowReference(tps, d) ==
    /\ ~tps.healthy
    /\ IF tps.recovered
         THEN ColdSheddable(d)
         ELSE Sheddable(d.tier) \/ ~BackendTierScheduling

TPSGateProtects(state, waitingAllowance, d) ==
    \/ Sheddable(d.tier) /\ state.waiting > waitingAllowance
    \/ /\ state.tps.enabled
       /\ \/ Sheddable(d.tier) /\ state.preempted
          \/ /\ state.tps.ready
             /\ state.tps.qualified
             /\ \/ ColdSheddable(d) /\ state.coldPending > 0
                \/ BelowReference(state.tps, d)

\* A slip: the bounds on what is pending already, without the request itself.
BoundsReasonWithoutRequest(state, d, bounds) ==
    IF /\ bounds.runningLimit > 0
       /\ state.running + state.waiting + state.unobserved > bounds.runningLimit
      THEN "running_limit"
    ELSE IF state.unobserved > bounds.windowConcurrency THEN "window_concurrency"
    ELSE "open"

(***************************************************************************)
(* admissionBounds.evaluate, for the sheddable tiers.                      *)
(***************************************************************************)
BoundsReason(state, d, bounds) ==
    LET raw       == state.running + state.waiting
        projected == raw + state.unobserved + d.sequences
        window    == state.unobserved + d.sequences
    IN  IF ~(/\ Fits(state.running, state.waiting)
             /\ Fits(raw, state.unobserved)
             /\ Fits(raw + state.unobserved, d.sequences))
          THEN "resource_exhausted"
        ELSE IF bounds.runningLimit > 0 /\ projected > bounds.runningLimit
          THEN "running_limit"
        ELSE IF window > bounds.windowConcurrency
          THEN "window_concurrency"
        ELSE "open"

(***************************************************************************)
(* admissionPolicy.evaluateDemand: the TPS gate for every tier, then the   *)
(* bounds for the sheddable ones; priority only has to fit an int64.       *)
(***************************************************************************)
PolicyReason(state, d, bounds) ==
    IF TPSGateProtects(state, bounds.waitingAllowance, d)
      THEN "tps_reference"
    ELSE IF Sheddable(d.tier)
      THEN BoundsReason(state, d, bounds)
    ELSE IF Fits(state.running, d.sequences) /\ Fits(state.unobserved, d.sequences)
      THEN "open"
    ELSE "resource_exhausted"

Admits(state, d, bounds) == PolicyReason(state, d, bounds) = "open"
=============================================================================
