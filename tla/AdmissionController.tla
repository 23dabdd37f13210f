------------------------ MODULE AdmissionController ------------------------
(***************************************************************************)
(* The admission controller (internal/admission/controller.go and          *)
(* policy_update.go). Every exported method takes the controller's one     *)
(* mutex for its whole body, so each is one action. What interleaves is    *)
(* around them: the requests that call MarkForwarded, MarkFirstByte and    *)
(* Terminate on their handles, a sampler that opens a window, reads the    *)
(* backend's metrics without the lock and publishes what it read, the      *)
(* operator's policy updates, Close, and the clock.                        *)
(*                                                                         *)
(* A call that returns without changing the controller (a refused          *)
(* admission, a duplicate or stale handle, a policy conflict) is a         *)
(* stuttering step, so its early return appears as the negated guard.      *)
(* Reporting-only fields are left out: admittedSequence, the previous      *)
(* gauges, the concurrency histogram, the running-limit source and the     *)
(* update time.                                                            *)
(***************************************************************************)
EXTENDS ReservationOverlay, ExposureLedger

CONSTANTS
    Samplers,           \* concurrent users of StartSampleWindow / PublishObservation
    Demands,            \* the request demands that arrive
    MaxReservations,    \* maximumReservations
    LeaseDuration,      \* pendingFirstByteLeaseDuration
    MaximumAge,         \* how long an observation may be used
    MinimumSamples,     \* qualified samples a ready TPS window needs
    ClockLag,           \* how old the time read before Admit's lock may be
    \* what the backend reports
    RunningValues,      \* values of the running gauge
    WaitingValues,      \* values of the waiting gauge
    Generations,        \* values of generation_tokens_total
    Preemptions,        \* values of preemptions_total
    StartTimes,         \* runtime start times, 0 for unknown
    \* what configuration and the operator set
    References, WindowSizes, RunningLimits, Allowances,
    \* the uint64 limits, one per counter; all are math.MaxUint64 in the code
    MaxEvents, MaxSamples, MaxObservations, MaxEpoch, MaxRevision, MaxReservationID,
    MaxTime             \* bound of the model: the clock stops here

ASSUME ControllerAssumption ==
    /\ Demands \subseteq DemandType
    /\ MaxReservations \in Nat \ {0}
    /\ LeaseDuration \in Nat \ {0} /\ MaximumAge \in Nat \ {0}
    /\ MinimumSamples \in Nat \ {0} /\ ClockLag \in Nat
    /\ RunningValues \subseteq Nat /\ WaitingValues \subseteq Nat
    /\ StartTimes \subseteq Nat
    /\ Generations \subseteq Nat /\ Preemptions \subseteq Nat
    /\ References \subseteq Nat /\ WindowSizes \subseteq Nat \ {0}
    /\ RunningLimits \subseteq Nat /\ Allowances \subseteq Nat
    /\ MaxEvents \in Nat /\ MaxSamples \in Nat /\ MaxObservations \in Nat
    /\ MaxEpoch \in Nat \ {0} /\ MaxRevision \in Nat \ {0}
    /\ MaxReservationID \in Nat /\ MaxTime \in Nat

VARIABLES
    clock,                  \* time.Now, read under the lock
    closedReason,           \* "none" (the empty Reason) while intake is open
    runtimeEpoch,           \* fences the handles of an earlier backend runtime
    eventSequence,          \* lifecycle events so far
    reservations,           \* id -> reservation
    nextReservationID,
    overlay,                \* the reservations' running totals
    exposure,               \* the exposure ledger
    sampleSequence,         \* sample windows opened in this epoch
    lastPublishedSample,    \* the newest window published in this epoch
    lastExposure,           \* its ledger snapshot
    observationSequence,
    observation,            \* the current observation, and whether preemptions moved
    policy,                 \* the revisioned policy
    tpsPolicyEpoch,         \* bumped when the TPS reference changes
    tps,                    \* the TPS window's evidence
    windows,                \* sampler -> the window it holds, id 0 for none
    \* history variables: read by properties only
    watermark,              \* the event watermark of the current observation
    unseen                  \* sampler -> ids forwarded or ended since its window opened

lifecycle  == <<eventSequence, reservations, nextReservationID, overlay, exposure>>
sampling   == <<sampleSequence, lastPublishedSample, lastExposure>>
observed   == <<observationSequence, observation, watermark>>
policyVars == <<policy, tpsPolicyEpoch>>
samplers   == <<windows, unseen>>
vars == <<clock, closedReason, runtimeEpoch, lifecycle, sampling, observed,
          policyVars, tps, samplers>>

-----------------------------------------------------------------------------
(***************************************************************************)
(* Types.                                                                  *)
(***************************************************************************)
Reasons == {"none", "closed", "controller_unavailable", "runtime_identity_drift",
            "resource_exhausted", "counter_overflow"}

Causes == {"success", "error", "cancel", "disconnect", "timeout", "shutdown"}

ObservationType ==
    [observedAt : Nat, running : Nat, waiting : Nat, generation : Nat,
     preemptions : Nat, startTime : Nat, preempted : BOOLEAN]

PolicyType ==
    [revision : Nat, tpsReference : Nat, windowConcurrency : Nat,
     runningLimit : Nat, waitingAllowance : Nat]

(***************************************************************************)
(* tpsWindow, abstracted: how many samples have been counted since it was  *)
(* last emptied (up to the number that makes it ready), and whether the    *)
(* latest interval qualifies and is at the reference. Which of them are    *)
(* still inside the sixty seconds, and their mean, is chosen by each       *)
(* reader (Views). epoch and policyEpoch are history: the epochs under     *)
(* which the window of the newest counted sample was opened.               *)
(***************************************************************************)
EvidenceType ==
    [samples : 0..MinimumSamples, qualified : BOOLEAN, recovered : BOOLEAN,
     epoch : Nat, policyEpoch : Nat]

NoEvidence == [samples |-> 0, qualified |-> FALSE, recovered |-> FALSE,
               epoch |-> 0, policyEpoch |-> 0]

WindowType ==
    [id : Nat, runtimeEpoch : Nat, tpsPolicyEpoch : Nat, eventSequence : Nat,
     exposure : SnapshotType, openedAt : Nat]

NoWindow == [id |-> 0, runtimeEpoch |-> 0, tpsPolicyEpoch |-> 0,
             eventSequence |-> 0, exposure |-> ZeroSnapshot, openedAt |-> 0]

NoObservation == [observedAt |-> 0, running |-> 0, waiting |-> 0, generation |-> 0,
                  preemptions |-> 0, startTime |-> 0, preempted |-> FALSE]

NoReservations == [i \in {} |-> NoDemand]

PolicyOf(revision, reference, window, limit, allowance) ==
    [revision |-> revision, tpsReference |-> reference, windowConcurrency |-> window,
     runningLimit |-> limit, waitingAllowance |-> allowance]

-----------------------------------------------------------------------------
Init ==
    /\ clock = 1
    /\ closedReason = "none"
    /\ runtimeEpoch = 1
    /\ eventSequence = 0
    /\ reservations = NoReservations
    /\ nextReservationID = 0
    /\ overlay = ZeroOverlay
    /\ exposure = ZeroLedger
    /\ sampleSequence = 0 /\ lastPublishedSample = 0 /\ lastExposure = ZeroSnapshot
    /\ observationSequence = 0 /\ observation = NoObservation
    /\ \E r \in References, w \in WindowSizes, l \in RunningLimits, a \in Allowances :
          policy = PolicyOf(1, r, w, l, a)
    /\ tpsPolicyEpoch = 1
    /\ tps = NoEvidence
    /\ windows = [s \in Samplers |-> NoWindow]
    /\ watermark = 0
    /\ unseen = [s \in Samplers |-> {}]

\* hasObservation: set with the first observation and never cleared.
HasObservation == observationSequence > 0

(***************************************************************************)
(* failClosedLocked: intake closes for good, every handle is fenced and    *)
(* all accounting is dropped. The caller accounts for the event sequence.  *)
(***************************************************************************)
FailClosed(reason) ==
    /\ closedReason' = reason
    /\ runtimeEpoch' = IF runtimeEpoch < MaxEpoch THEN runtimeEpoch + 1 ELSE runtimeEpoch
    /\ reservations' = NoReservations
    /\ overlay' = ZeroOverlay
    /\ exposure' = ZeroLedger
    /\ lastExposure' = ZeroSnapshot
    /\ tps' = NoEvidence

\* What a branch that does not fail leaves alone of what FailClosed touches.
StaysOpen == UNCHANGED <<closedReason, runtimeEpoch>>

-----------------------------------------------------------------------------
(***************************************************************************)
(* Admission.                                                              *)
(***************************************************************************)
\* What tpsWindow.snapshot may say at this moment.
Views == {v \in [ready : BOOLEAN, healthy : BOOLEAN] :
            /\ v.ready => tps.samples >= MinimumSamples
            /\ v.healthy => v.ready}

Projected(view) ==
    [running |-> observation.running, waiting |-> observation.waiting,
     unobserved |-> overlay.unobservedSequences,
     coldPending |-> overlay.coldSheddablePending,
     preempted |-> observation.preempted,
     tps |-> [enabled |-> policy.tpsReference > 0,
              ready |-> view.ready, healthy |-> view.healthy,
              qualified |-> tps.qualified, recovered |-> tps.recovered]]

\* stateLocked succeeds for a caller that read the clock at now.
StateAvailable(now) ==
    /\ closedReason = "none" /\ HasObservation
    /\ ValidOverlay(overlay)
    /\ now # 0 /\ observation.observedAt <= now
    /\ now - observation.observedAt <= MaximumAge

\* Snapshot: the availability the node advertises.
Available(now, view) ==
    StateAvailable(now) /\ Admits(Projected(view), MinimumDemand, policy)

NewReservation(d) ==
    [runtimeEpoch |-> runtimeEpoch, sequences |-> d.sequences, tier |-> d.tier,
     coldSheddable |-> ColdSheddable(d), phase |-> "reserved",
     pendingFirstByteReleased |-> FALSE, forwardedAt |-> 0,
     forwardedSequence |-> 0, terminalSequence |-> 0]

\* Why an admitted request cannot be reserved after all, in the code's order.
ReserveFailure(d) ==
    IF Cardinality(DOMAIN reservations) >= MaxReservations THEN "resource_exhausted"
    ELSE IF nextReservationID = MaxReservationID THEN "counter_overflow"
    ELSE IF ~ValidOverlay(Contribution(NewReservation(d))) THEN "controller_unavailable"
    ELSE IF ~AddOverlayOK(overlay, Contribution(NewReservation(d))) THEN "resource_exhausted"
    ELSE IF eventSequence = MaxEvents THEN "counter_overflow"
    ELSE "none"

\* A slip: the id is used and the counter left behind.
ReserveReusingIDs(d) ==
    /\ eventSequence' = eventSequence + 1
    /\ overlay' = AddOverlay(overlay, Contribution(NewReservation(d)))
    /\ reservations' = With(reservations, nextReservationID + 1, NewReservation(d))
    /\ StaysOpen
    /\ UNCHANGED <<nextReservationID, exposure, lastExposure, tps>>

Reserve(d) ==
    /\ eventSequence' = eventSequence + 1
    /\ nextReservationID' = nextReservationID + 1
    /\ overlay' = AddOverlay(overlay, Contribution(NewReservation(d)))
    /\ reservations' = With(reservations, nextReservationID + 1, NewReservation(d))
    /\ StaysOpen
    /\ UNCHANGED <<exposure, lastExposure, tps>>

\* The caller read the clock before it took the lock.
Admit(d, now, view) ==
    /\ StateAvailable(now)
    /\ Admits(Projected(view), d, policy)
    /\ IF ReserveFailure(d) = "none"
         THEN Reserve(d)
         ELSE FailClosed(ReserveFailure(d)) /\ UNCHANGED <<eventSequence, nextReservationID>>
    /\ UNCHANGED <<clock, sampleSequence, lastPublishedSample, observed, policyVars, samplers>>

-----------------------------------------------------------------------------
(***************************************************************************)
(* The life of a reservation, driven through its handle. A handle carries  *)
(* the epoch its reservation was made in, so the two epoch checks of the   *)
(* code are one; ids are never reused.                                     *)
(***************************************************************************)
Reachable(id) ==
    /\ closedReason = "none"
    /\ id \in DOMAIN reservations
    /\ reservations[id].runtimeEpoch = runtimeEpoch

\* Forwarding and ending are the events a sample window must have seen.
NotSeen(id) == [s \in Samplers |-> IF windows[s].id = 0 THEN unseen[s] ELSE unseen[s] \cup {id}]

HandleFrame == UNCHANGED <<clock, nextReservationID, sampleSequence, lastPublishedSample,
                           observed, policyVars, windows>>

EventOverflow ==
    /\ eventSequence = MaxEvents
    /\ FailClosed("counter_overflow")
    /\ UNCHANGED <<eventSequence, unseen>>

(***************************************************************************)
(* The reservation after each event. The fan-out, tier and epoch it was    *)
(* admitted with never change.                                             *)
(***************************************************************************)
Forwarded(r, now, sequence) ==
    [r EXCEPT !.phase = "forwarded", !.forwardedAt = now, !.forwardedSequence = sequence]
Activated(r)         == [r EXCEPT !.phase = "active", !.pendingFirstByteReleased = TRUE]
Ended(r, sequence)   == [r EXCEPT !.phase = "residual", !.terminalSequence = sequence]
LeaseEnded(r)        == [r EXCEPT !.pendingFirstByteReleased = TRUE]

Forward(id) ==
    /\ exposure' = AddForwarded(exposure, clock, reservations[id].sequences)
    /\ reservations' = [reservations EXCEPT ![id] = Forwarded(@, clock, eventSequence + 1)]
    /\ unseen' = NotSeen(id)
    /\ StaysOpen /\ UNCHANGED <<overlay, lastExposure, tps>>

MarkForwarded(id) ==
    /\ Reachable(id) /\ reservations[id].phase = "reserved"
    /\ \/ EventOverflow
       \/ /\ eventSequence < MaxEvents
          /\ eventSequence' = eventSequence + 1
          /\ IF AddForwardedOK(exposure, clock, reservations[id].sequences)
               THEN Forward(id)
               ELSE FailClosed("controller_unavailable") /\ UNCHANGED unseen
    /\ HandleFrame

Activate(id) ==
    /\ exposure' = AddResponse(exposure, clock, 1)
    /\ overlay' = ReplaceOverlay(overlay, Contribution(reservations[id]),
                                 Contribution(Activated(reservations[id])))
    /\ reservations' = [reservations EXCEPT ![id] = Activated(@)]
    /\ StaysOpen /\ UNCHANGED <<lastExposure, tps, unseen>>

MarkFirstByte(id) ==
    /\ Reachable(id) /\ reservations[id].phase = "forwarded"
    /\ IF ~(/\ ValidReservation(reservations[id])
            /\ ReplaceOverlayOK(overlay, Contribution(reservations[id]),
                                Contribution(Activated(reservations[id]))))
         THEN FailClosed("controller_unavailable") /\ UNCHANGED <<eventSequence, unseen>>
       ELSE \/ EventOverflow
            \/ /\ eventSequence < MaxEvents
               /\ eventSequence' = eventSequence + 1
               /\ IF AddResponseOK(exposure, clock, 1)
                    THEN Activate(id)
                    ELSE FailClosed("controller_unavailable") /\ UNCHANGED unseen
    /\ HandleFrame

\* A slip: the first byte ends the forwarded count.
ForwardedCountUntilFirstByte(r) == IF r.phase = "forwarded" THEN r.sequences ELSE 0

\* reservationExposureCounts
ForwardedCount(r) == IF r.phase \in {"forwarded", "active"} THEN r.sequences ELSE 0
ResponseCount(r)  == IF r.phase = "active" THEN 1 ELSE 0

\* Nothing is left for an observation to cover.
RemovedOnTerminate(r, cause) ==
    r.phase = "reserved" \/ (r.phase = "active" /\ cause = "success")

\* A slip: every terminal call takes the whole contribution out at once.
TerminalContributionNone(r, cause) == ZeroOverlay

\* What the ended request still contributes.
TerminalContribution(r, cause) ==
    IF RemovedOnTerminate(r, cause) THEN ZeroOverlay
    ELSE Contribution(Ended(r, eventSequence + 1))

End(id, cause) ==
    /\ exposure' = IF ForwardedCount(reservations[id]) = 0 THEN exposure
                   ELSE Remove(exposure, clock, ForwardedCount(reservations[id]),
                               ResponseCount(reservations[id]))
    /\ overlay' = ReplaceOverlay(overlay, Contribution(reservations[id]),
                                 TerminalContribution(reservations[id], cause))
    /\ reservations' = IF RemovedOnTerminate(reservations[id], cause)
                         THEN Without(reservations, id)
                         ELSE [reservations EXCEPT ![id] = Ended(@, eventSequence + 1)]
    /\ unseen' = NotSeen(id)
    /\ StaysOpen /\ UNCHANGED <<lastExposure, tps>>

(***************************************************************************)
(* The terminal call of a request: exactly one takes effect, for a         *)
(* residual debt has ended and a removed reservation is not found.         *)
(***************************************************************************)
Terminate(id, cause) ==
    /\ Reachable(id) /\ reservations[id].phase # "residual"
    /\ IF ~(/\ ValidReservation(reservations[id])
            /\ ReplaceOverlayOK(overlay, Contribution(reservations[id]),
                                TerminalContribution(reservations[id], cause)))
         THEN FailClosed("controller_unavailable") /\ UNCHANGED <<eventSequence, unseen>>
       ELSE \/ EventOverflow
            \/ /\ eventSequence < MaxEvents
               /\ eventSequence' = eventSequence + 1
               /\ IF \/ ForwardedCount(reservations[id]) = 0
                     \/ RemoveOK(exposure, clock, ForwardedCount(reservations[id]),
                                 ResponseCount(reservations[id]))
                    THEN End(id, cause)
                    ELSE FailClosed("controller_unavailable") /\ UNCHANGED unseen
    /\ HandleFrame

-----------------------------------------------------------------------------
(***************************************************************************)
(* Sampling: open a window, read the metrics without the lock, publish.    *)
(***************************************************************************)
OpenWindow(s) ==
    /\ sampleSequence' = sampleSequence + 1
    /\ exposure' = Advance(exposure, clock)
    /\ windows' = [windows EXCEPT ![s] =
           [id |-> sampleSequence + 1, runtimeEpoch |-> runtimeEpoch,
            tpsPolicyEpoch |-> tpsPolicyEpoch, eventSequence |-> eventSequence,
            exposure |-> LedgerSnapshot(Advance(exposure, clock)),
            openedAt |-> clock]]
    /\ unseen' = [unseen EXCEPT ![s] = {}]
    /\ StaysOpen /\ UNCHANGED <<reservations, overlay, lastExposure, tps>>

StartSampleWindow(s) ==
    /\ closedReason = "none" /\ windows[s].id = 0
    /\ IF sampleSequence = MaxSamples
         THEN FailClosed("counter_overflow") /\ UNCHANGED <<sampleSequence, samplers>>
       ELSE IF ~AdvanceOK(exposure, clock)
         THEN FailClosed("controller_unavailable") /\ UNCHANGED <<sampleSequence, samplers>>
       ELSE OpenWindow(s)
    /\ UNCHANGED <<clock, eventSequence, nextReservationID, lastPublishedSample, observed, policyVars>>

ReleaseWindow(s) ==
    /\ windows' = [windows EXCEPT ![s] = NoWindow]
    /\ unseen' = [unseen EXCEPT ![s] = {}]

\* The poll failed or its sample was unusable: the window is dropped.
AbandonWindow(s) ==
    /\ windows[s].id # 0
    /\ ReleaseWindow(s)
    /\ UNCHANGED <<clock, closedReason, runtimeEpoch, lifecycle, sampling, observed, policyVars, tps>>

\* What a sampler may have read between opening its window and now. The
\* identity is the model's and the engine's: it matches or has drifted.
Reports(s) ==
    [identityMatches : BOOLEAN, observedAt : windows[s].openedAt..clock,
     running : RunningValues, waiting : WaitingValues, generation : Generations,
     preemptions : Preemptions, startTime : StartTimes]

\* A slip: a window older than the one last published may still be published.
PublishableLate(w, o) ==
    /\ closedReason = "none" /\ w.runtimeEpoch = runtimeEpoch
    /\ w.id # 0 /\ w.id <= sampleSequence /\ Fits(o.running, o.waiting)

\* The window is this epoch's and newer than any published; the report is sane.
Publishable(w, o) ==
    /\ closedReason = "none"
    /\ w.runtimeEpoch = runtimeEpoch
    /\ w.id # 0 /\ w.id <= sampleSequence /\ w.id > lastPublishedSample
    /\ Fits(o.running, o.waiting)

\* Neither older than the current observation, nor missing its start time.
InOrder(o) ==
    HasObservation =>
        /\ observation.observedAt <= o.observedAt
        /\ observation.startTime > 0 => o.startTime > 0

RuntimeReset(o) ==
    /\ HasObservation
    /\ \/ /\ o.startTime > 0 /\ observation.startTime > 0
          /\ o.startTime # observation.startTime
       \/ o.generation < observation.generation
       \/ o.preemptions < observation.preemptions

\* pendingFirstByteLeaseExpired
LeaseExpired(r, o) ==
    /\ o.waiting = 0
    /\ r.forwardedAt # 0
    /\ o.observedAt <= clock /\ clock - o.observedAt <= MaximumAge
    /\ r.forwardedAt <= o.observedAt
    /\ o.observedAt - r.forwardedAt >= LeaseDuration

\* Two slips: the debt at the watermark itself is kept; a lease is released
\* whether or not the window saw the request forwarded.
SettledBefore(mark) ==
    {i \in DOMAIN reservations :
        reservations[i].phase = "residual" /\ reservations[i].terminalSequence \in 1..mark-1}
LeaseReleasedAnytime(mark, o) ==
    {i \in DOMAIN reservations :
        /\ reservations[i].phase = "forwarded" /\ ~reservations[i].pendingFirstByteReleased
        /\ LeaseExpired(reservations[i], o)}

(***************************************************************************)
(* reconcileReservation, for the events up to the watermark: a residual    *)
(* debt the observation covers goes, and an expired lease is released.     *)
(***************************************************************************)
Settled(mark) ==
    {i \in DOMAIN reservations :
        /\ reservations[i].phase = "residual"
        /\ reservations[i].terminalSequence \in 1..mark}

LeaseReleased(mark, o) ==
    {i \in DOMAIN reservations :
        /\ reservations[i].phase = "forwarded"
        /\ ~reservations[i].pendingFirstByteReleased
        /\ reservations[i].forwardedSequence \in 1..mark
        /\ LeaseExpired(reservations[i], o)}

Reconciled(mark, o) ==
    [i \in DOMAIN reservations \ Settled(mark) |->
        IF i \in LeaseReleased(mark, o)
          THEN LeaseEnded(reservations[i])
          ELSE reservations[i]]

\* A slip: a released lease ends a cold prompt's turn too.
ReconciledAwayFreeingCold(mark, o) ==
    [ZeroOverlay EXCEPT
        !.unobservedSequences  = SequencesOf(reservations, LeaseReleased(mark, o)),
        !.sequenceLiabilities  = SequencesOf(reservations, Settled(mark)),
        !.residualDebts        = Cardinality(Settled(mark)),
        !.coldSheddablePending =
            Cardinality({i \in LeaseReleased(mark, o) : reservations[i].coldSheddable})]

\* What the settled debts and the released leases contributed, summed.
ReconciledAway(mark, o) ==
    [unobservedSequences  |-> SequencesOf(reservations, LeaseReleased(mark, o)),
     sequenceLiabilities  |-> SequencesOf(reservations, Settled(mark)),
     liveReservations     |-> 0,
     residualDebts        |-> Cardinality(Settled(mark)),
     coldSheddablePending |-> 0]

CoveredIds(mark) == {i \in DOMAIN reservations : reservations[i].forwardedSequence \in 1..mark}

(***************************************************************************)
(* reconciledOverlayLocked sums the sequences the window saw forwarded and *)
(* subtracts item by item, in map order. It gives up when the sum leaves   *)
(* int64, or a running total would go negative or lose its order.          *)
(***************************************************************************)
ReconcileOK(mark, o) ==
    /\ \A i \in DOMAIN reservations : ValidReservation(reservations[i])
    /\ SequencesOf(reservations, CoveredIds(mark)) <= MaxInt64
    /\ ValidOverlay(overlay)
    /\ ReconciledAway(mark, o).unobservedSequences <= overlay.unobservedSequences
    /\ ReconciledAway(mark, o).sequenceLiabilities <= overlay.sequenceLiabilities
    /\ ReconciledAway(mark, o).residualDebts <= overlay.residualDebts
    /\ ValidOverlay(SubtractOverlay(overlay, ReconciledAway(mark, o)))

Larger(a, b) == IF a >= b THEN a ELSE b

(***************************************************************************)
(* tpsWindow.observe, for the interval between the current observation and *)
(* o. The sequence-seconds are the largest defensible exposure; a zero     *)
(* token interval counts only when a local response was open in it.        *)
(***************************************************************************)
Interval(o) == o.observedAt - observation.observedAt
Tokens(o)   == o.generation - observation.generation

LocalExposure(w) == SubtractSnapshot(w.exposure, lastExposure)

SequenceSeconds(w, o) ==
    Larger(Interval(o) * Larger(observation.running, o.running),
           Larger(LocalExposure(w).forwardedTime, LocalExposure(w).responseTime))

\* The interval is put into the buckets, second by second.
Walked(w, o) ==
    /\ Interval(o) \in 1..MaximumAge
    /\ Tokens(o) > 0 \/ LocalExposure(w).responseTime > 0

Qualifies(w, o) == Walked(w, o) /\ SequenceSeconds(w, o) > 0

Recovers(w, o) == Tokens(o) >= policy.tpsReference * SequenceSeconds(w, o)

Counted(w, o) ==
    IF Qualifies(w, o)
      THEN [samples     |-> IF tps.samples < MinimumSamples THEN tps.samples + 1
                            ELSE tps.samples,
            qualified   |-> TRUE,
            recovered   |-> Recovers(w, o),
            epoch       |-> w.runtimeEpoch,
            policyEpoch |-> w.tpsPolicyEpoch]
      ELSE [tps EXCEPT !.qualified = FALSE, !.recovered = FALSE]

\* A slip: the evidence of a window opened under an earlier reference counts.
ObserveTPSOfAnyReference(w, o) ==
    IF HasObservation /\ policy.tpsReference > 0 THEN Counted(w, o) ELSE tps

\* Only a window opened under the current reference is evidence about it.
OfCurrentReference(w) ==
    HasObservation /\ w.tpsPolicyEpoch = tpsPolicyEpoch /\ policy.tpsReference > 0

ObserveTPS(w, o) == IF OfCurrentReference(w) THEN Counted(w, o) ELSE tps

Store(w, o, preempted) ==
    /\ observationSequence' = observationSequence + 1
    /\ observation' = [observedAt |-> o.observedAt, running |-> o.running,
                       waiting |-> o.waiting, generation |-> o.generation,
                       preemptions |-> o.preemptions, startTime |-> o.startTime,
                       preempted |-> preempted]
    /\ watermark' = w.eventSequence

\* A closed controller, a stale or duplicate window, or a report out of order.
PublishRejected(s, o) ==
    /\ \/ ~Publishable(windows[s], o)
       \/ o.identityMatches /\ ~InOrder(o)
    /\ UNCHANGED <<closedReason, runtimeEpoch, lifecycle, sampling, observed, tps>>

\* Another model or engine answers, or the sequence number is spent.
PublishFatal(s, o) ==
    /\ Publishable(windows[s], o)
    /\ \/ ~o.identityMatches /\ FailClosed("runtime_identity_drift")
       \/ /\ o.identityMatches /\ InOrder(o)
          /\ \/ observationSequence = MaxObservations
             \/ RuntimeReset(o) /\ runtimeEpoch = MaxEpoch
          /\ FailClosed("counter_overflow")
    /\ UNCHANGED <<eventSequence, nextReservationID, sampleSequence, lastPublishedSample, observed>>

Acceptable(s, o) ==
    /\ Publishable(windows[s], o) /\ o.identityMatches /\ InOrder(o)
    /\ observationSequence < MaxObservations

\* A slip: the new runtime inherits the reservations of the old one.
PublishResetKeeping(s, o) ==
    /\ Acceptable(s, o) /\ RuntimeReset(o) /\ runtimeEpoch < MaxEpoch
    /\ runtimeEpoch' = runtimeEpoch + 1
    /\ exposure' = ZeroLedger
    /\ sampleSequence' = 0 /\ lastPublishedSample' = 0 /\ lastExposure' = ZeroSnapshot
    /\ tps' = NoEvidence
    /\ Store(windows[s], o, FALSE)
    /\ UNCHANGED <<closedReason, eventSequence, nextReservationID, reservations, overlay>>

(***************************************************************************)
(* The backend restarted: its counters or start time say so. The new       *)
(* runtime owes nothing to the old one's reservations.                     *)
(***************************************************************************)
PublishReset(s, o) ==
    /\ Acceptable(s, o) /\ RuntimeReset(o) /\ runtimeEpoch < MaxEpoch
    /\ runtimeEpoch' = runtimeEpoch + 1
    /\ reservations' = NoReservations
    /\ overlay' = ZeroOverlay
    /\ exposure' = ZeroLedger
    /\ sampleSequence' = 0 /\ lastPublishedSample' = 0 /\ lastExposure' = ZeroSnapshot
    /\ tps' = NoEvidence
    /\ Store(windows[s], o, FALSE)
    /\ UNCHANGED <<closedReason, eventSequence, nextReservationID>>

Accept(w, o) ==
    /\ reservations' = Reconciled(w.eventSequence, o)
    /\ overlay' = SubtractOverlay(overlay, ReconciledAway(w.eventSequence, o))
    /\ lastPublishedSample' = w.id
    /\ lastExposure' = w.exposure
    /\ tps' = ObserveTPS(w, o)
    /\ Store(w, o, HasObservation /\ o.preemptions > observation.preemptions)
    /\ StaysOpen /\ UNCHANGED exposure

(***************************************************************************)
(* tpsWindow.observe may return false for an interval it walks: its        *)
(* seconds are those of the wall clock, which this module leaves out, and  *)
(* a clock that was set back makes one of them fail (TPSWindow shows       *)
(* when). The controller has reconciled by then, and drops the result.     *)
(***************************************************************************)
ObserveFails(w, o) ==
    /\ OfCurrentReference(w) /\ Walked(w, o)
    /\ lastPublishedSample' = w.id
    /\ FailClosed("counter_overflow")
    /\ UNCHANGED observed

PublishAccepted(s, o) ==
    /\ Acceptable(s, o) /\ ~RuntimeReset(o)
    /\ IF \/ ~SubtractSnapshotOK(windows[s].exposure, lastExposure)
          \/ ~ReconcileOK(windows[s].eventSequence, o)
         THEN /\ FailClosed("controller_unavailable")
              /\ UNCHANGED <<lastPublishedSample, observed>>
         ELSE Accept(windows[s], o) \/ ObserveFails(windows[s], o)
    /\ UNCHANGED <<eventSequence, nextReservationID, sampleSequence>>

PublishObservation(s, o) ==
    /\ windows[s].id # 0
    /\ \/ PublishRejected(s, o)
       \/ PublishFatal(s, o)
       \/ PublishReset(s, o)
       \/ PublishAccepted(s, o)
    /\ ReleaseWindow(s)
    /\ UNCHANGED <<clock, policyVars>>

-----------------------------------------------------------------------------
(***************************************************************************)
(* UpdatePolicy with the current revision; any other revision conflicts    *)
(* and changes nothing. A changed reference empties the TPS window.        *)
(***************************************************************************)
UpdatePolicy(reference, window, limit, allowance) ==
    /\ closedReason = "none" /\ policy.revision < MaxRevision
    /\ policy' = PolicyOf(policy.revision + 1, reference, window, limit, allowance)
    /\ IF reference # policy.tpsReference
         THEN tpsPolicyEpoch' = tpsPolicyEpoch + 1 /\ tps' = NoEvidence
         ELSE UNCHANGED <<tpsPolicyEpoch, tps>>
    /\ UNCHANGED <<clock, closedReason, runtimeEpoch, lifecycle, sampling, observed, samplers>>

Close ==
    /\ closedReason = "none"
    /\ FailClosed("closed")
    /\ UNCHANGED <<clock, eventSequence, nextReservationID, sampleSequence,
                   lastPublishedSample, observed, policyVars, samplers>>

Tick ==
    /\ clock < MaxTime
    /\ clock' = clock + 1
    /\ UNCHANGED <<closedReason, runtimeEpoch, lifecycle, sampling, observed,
                   policyVars, tps, samplers>>

Next ==
    \/ \E d \in Demands, lag \in 0..ClockLag, view \in Views : Admit(d, clock - lag, view)
    \/ \E id \in DOMAIN reservations : MarkForwarded(id)
    \/ \E id \in DOMAIN reservations : MarkFirstByte(id)
    \/ \E id \in DOMAIN reservations, cause \in Causes : Terminate(id, cause)
    \/ \E s \in Samplers : StartSampleWindow(s)
    \/ \E s \in Samplers : AbandonWindow(s)
    \/ \E s \in Samplers : \E o \in Reports(s) : PublishObservation(s, o)
    \/ \E r \in References, w \in WindowSizes, l \in RunningLimits, a \in Allowances :
          UpdatePolicy(r, w, l, a)
    \/ Close
    \/ Tick

Spec == Init /\ [][Next]_vars

-----------------------------------------------------------------------------
(***************************************************************************)
(* Properties.                                                             *)
(***************************************************************************)

IntakeTypes == clock \in Nat \ {0} /\ closedReason \in Reasons /\ runtimeEpoch \in Nat
LifecycleTypes ==
    /\ eventSequence \in Nat /\ nextReservationID \in Nat
    /\ DOMAIN reservations \subseteq 1..nextReservationID
    /\ reservations \in [DOMAIN reservations -> ReservationType]
    /\ overlay \in OverlayType
    /\ exposure \in LedgerType
SamplingTypes ==
    sampleSequence \in Nat /\ lastPublishedSample \in Nat /\ lastExposure \in SnapshotType
ObservedTypes ==
    observationSequence \in Nat /\ observation \in ObservationType /\ watermark \in Nat
PolicyTypes == policy \in PolicyType /\ tpsPolicyEpoch \in Nat
SamplerTypes ==
    windows \in [Samplers -> WindowType] /\ unseen \in [Samplers -> SUBSET Nat]

\* Every variable keeps its type: ids are minted in order, a reservation's
\* fan-out fits an int64, and windows and evidence are well formed.
TypeOK ==
    /\ IntakeTypes
    /\ LifecycleTypes
    /\ SamplingTypes
    /\ ObservedTypes
    /\ PolicyTypes
    /\ tps \in EvidenceType
    /\ SamplerTypes

\* The totals that admissions are decided on, kept by adding and subtracting
\* contributions in every lifecycle call and publication, always equal what a
\* scan of the live reservations counts (slowOverlayLocked).
OverlayExact == overlay = SlowOverlay(reservations)

InFlightIds(res) == {i \in DOMAIN res : res[i].phase \in {"forwarded", "active"}}
ActiveIds(res)   == {i \in DOMAIN res : res[i].phase = "active"}

\* The exposure ledger integrates exactly the sequences of the reservations
\* that are forwarded or decoding, and the responses that have started: no
\* path (lease expiry, early failure, success) forgets or repeats a removal.
LedgerExact ==
    /\ exposure.forwarded = SequencesOf(reservations, InFlightIds(reservations))
    /\ exposure.response = Cardinality(ActiveIds(reservations))

\* The controller never closes itself because its own accounting failed: no
\* order of handle calls, publications and resets makes a subtraction go
\* negative or an exposure counter run backwards (controller_unavailable).
NoInternalFailure == closedReason # "controller_unavailable"

\* A runtime reset or a closure leaves nothing behind: every reservation
\* belongs to the current runtime epoch, and a closed controller has none.
Fenced ==
    /\ \A i \in DOMAIN reservations : reservations[i].runtimeEpoch = runtimeEpoch
    /\ closedReason # "none" => DOMAIN reservations = {}

\* Residual debt is bounded by observation: once an observation whose window
\* opened after the request ended has been published, the debt is gone.
DebtUncovered ==
    \A i \in DOMAIN reservations :
        reservations[i].phase = "residual" => reservations[i].terminalSequence > watermark

\* The TPS evidence an admission sees was sampled under the backend runtime
\* and the TPS reference now in force: a window that was open across a
\* restart or a reference change contributes nothing.
EvidenceCurrent ==
    tps.samples > 0 \/ tps.qualified =>
        tps.epoch = runtimeEpoch /\ tps.policyEpoch = tpsPolicyEpoch

\* One sequence of every tier, with a prompt on either side of the warm size or
\* of unknown size.
OneSequenceDemands ==
    [sequences : {1}, tier : Tiers, prefillKnown : BOOLEAN,
     prefillTokens : 0..(WarmPromptTokens + 1)]

\* The availability Snapshot advertises is that of the most restricted intake:
\* when its one-sequence flex demand would enter, so would a one-sequence
\* demand of any tier and prompt, warm or cold, priority included.
MinimumMostRestricted ==
    \A view \in Views, d \in Demands \cup OneSequenceDemands :
        Available(clock, view) /\ d.sequences = 1 => Admits(Projected(view), d, policy)

\* A default or flex request enters only if, counting it, the sequences
\* actually pending first byte fit the window bound, and with the observed
\* running and waiting fit the running limit.
AdmittedWithinBounds ==
    [][\A i \in DOMAIN reservations' \ DOMAIN reservations :
          Sheddable(reservations'[i].tier) =>
            LET pending == SequencesOf(reservations', UnobservedIds(reservations'))
            IN  /\ pending <= policy.windowConcurrency
                /\ policy.runningLimit > 0 =>
                     observation.running + observation.waiting + pending <= policy.runningLimit
      ]_vars

\* An accepted publication leaves alone every reservation that was forwarded
\* or ended after its sample window opened: the metrics it carries may have
\* been read before that event.
ReconcileCovered ==
    [][\A s \in Samplers :
          /\ windows[s].id # 0 /\ windows'[s].id = 0
          /\ observationSequence' > observationSequence
          /\ runtimeEpoch' = runtimeEpoch
          => \A i \in unseen[s] \cap DOMAIN reservations :
                i \in DOMAIN reservations' /\ reservations'[i] = reservations[i]
      ]_vars

\* While the TPS window has current evidence, a cold default or flex prompt is
\* admitted only when no other one is still waiting for its first byte,
\* whether or not that one's sequence lease has expired.
ColdSerialised ==
    [][\A d \in Demands, lag \in 0..ClockLag, view \in Views :
          /\ ColdSheddable(d) /\ policy.tpsReference > 0 /\ view.ready /\ tps.qualified
          /\ nextReservationID' # nextReservationID
          /\ Admit(d, clock - lag, view)
          => ~\E i \in DOMAIN reservations :
                /\ reservations[i].coldSheddable
                /\ reservations[i].phase \in {"reserved", "forwarded"}
      ]_vars

=============================================================================
