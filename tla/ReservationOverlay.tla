------------------------- MODULE ReservationOverlay -------------------------
(***************************************************************************)
(* A reservation, what it contributes to the overlay, and the overlay's    *)
(* arithmetic (internal/admission/reservation.go). The controller keeps    *)
(* the overlay incrementally so that an admission never scans the          *)
(* reservations.                                                           *)
(***************************************************************************)
EXTENDS AdmissionPolicy, FiniteSets

Phases == {"reserved", "forwarded", "active", "residual"}

\* Pending first byte, as far as the phase says.
PendingPhase(phase) == phase \in {"reserved", "forwarded"}

ReservationType ==
    [runtimeEpoch : Nat, sequences : 1..MaxInt64, tier : Tiers,
     coldSheddable : BOOLEAN, phase : Phases,
     pendingFirstByteReleased : BOOLEAN, forwardedAt : Nat,
     forwardedSequence : Nat, terminalSequence : Nat]

OverlayType ==
    [unobservedSequences : Int, sequenceLiabilities : Int, liveReservations : Int,
     residualDebts : Int, coldSheddablePending : Int]

ZeroOverlay ==
    [unobservedSequences |-> 0, sequenceLiabilities |-> 0, liveReservations |-> 0,
     residualDebts |-> 0, coldSheddablePending |-> 0]

\* Charged against the admission bounds.
Unobserved(r) == PendingPhase(r.phase) /\ ~r.pendingFirstByteReleased

Live(r) == r.phase # "residual"

\* The lease does not end a cold prompt's turn: only the phase does.
ColdPending(r) == PendingPhase(r.phase) /\ r.coldSheddable

\* An active decode has had its first byte.
ValidReservation(r) == r.phase = "active" => r.pendingFirstByteReleased

Contribution(r) ==
    [unobservedSequences  |-> IF Unobserved(r) THEN r.sequences ELSE 0,
     sequenceLiabilities  |-> r.sequences,
     liveReservations     |-> IF Live(r) THEN 1 ELSE 0,
     residualDebts        |-> IF Live(r) THEN 0 ELSE 1,
     coldSheddablePending |-> IF ColdPending(r) THEN 1 ELSE 0]

ValidOverlay(o) ==
    /\ 0 <= o.unobservedSequences /\ o.unobservedSequences <= o.sequenceLiabilities
    /\ 0 <= o.coldSheddablePending /\ o.coldSheddablePending <= o.liveReservations
    /\ 0 <= o.residualDebts

AddOverlay(left, right) ==
    [unobservedSequences  |-> left.unobservedSequences + right.unobservedSequences,
     sequenceLiabilities  |-> left.sequenceLiabilities + right.sequenceLiabilities,
     liveReservations     |-> left.liveReservations + right.liveReservations,
     residualDebts        |-> left.residualDebts + right.residualDebts,
     coldSheddablePending |-> left.coldSheddablePending + right.coldSheddablePending]

AddOverlayOK(left, right) ==
    /\ Fits(left.unobservedSequences, right.unobservedSequences)
    /\ Fits(left.sequenceLiabilities, right.sequenceLiabilities)
    /\ Fits(left.liveReservations, right.liveReservations)
    /\ Fits(left.residualDebts, right.residualDebts)
    /\ Fits(left.coldSheddablePending, right.coldSheddablePending)
    /\ ValidOverlay(AddOverlay(left, right))

SubtractOverlay(left, right) ==
    [unobservedSequences  |-> left.unobservedSequences - right.unobservedSequences,
     sequenceLiabilities  |-> left.sequenceLiabilities - right.sequenceLiabilities,
     liveReservations     |-> left.liveReservations - right.liveReservations,
     residualDebts        |-> left.residualDebts - right.residualDebts,
     coldSheddablePending |-> left.coldSheddablePending - right.coldSheddablePending]

SubtractOverlayOK(left, right) ==
    /\ ValidOverlay(left) /\ ValidOverlay(right)
    /\ right.unobservedSequences <= left.unobservedSequences
    /\ right.sequenceLiabilities <= left.sequenceLiabilities
    /\ right.liveReservations <= left.liveReservations
    /\ right.residualDebts <= left.residualDebts
    /\ right.coldSheddablePending <= left.coldSheddablePending
    /\ ValidOverlay(SubtractOverlay(left, right))

ReplaceOverlay(current, old, new) == AddOverlay(SubtractOverlay(current, old), new)

ReplaceOverlayOK(current, old, new) ==
    /\ SubtractOverlayOK(current, old)
    /\ AddOverlayOK(SubtractOverlay(current, old), new)

\* The map after c.reservations[id] = r and after delete(c.reservations, id).
With(res, id, r) == [i \in DOMAIN res \cup {id} |-> IF i = id THEN r ELSE res[i]]
Without(res, id) == [i \in DOMAIN res \ {id} |-> res[i]]

(***************************************************************************)
(* Sums over a map of reservations, as the size of a set of slots: one     *)
(* slot for every sequence of every reservation in S.                      *)
(***************************************************************************)
Slots(res, S) == UNION {{i} \X (1..res[i].sequences) : i \in S}

SequencesOf(res, S) == Cardinality(Slots(res, S))

UnobservedIds(res) == {i \in DOMAIN res : Unobserved(res[i])}
LiveIds(res)       == {i \in DOMAIN res : Live(res[i])}
ResidualIds(res)   == {i \in DOMAIN res : ~Live(res[i])}
ColdIds(res)       == {i \in DOMAIN res : ColdPending(res[i])}

\* slowOverlayLocked: the overlay, counted from the reservations themselves.
SlowOverlay(res) ==
    [unobservedSequences  |-> SequencesOf(res, UnobservedIds(res)),
     sequenceLiabilities  |-> SequencesOf(res, DOMAIN res),
     liveReservations     |-> Cardinality(LiveIds(res)),
     residualDebts        |-> Cardinality(ResidualIds(res)),
     coldSheddablePending |-> Cardinality(ColdIds(res))]
=============================================================================
