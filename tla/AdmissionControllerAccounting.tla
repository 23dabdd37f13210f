------------------- MODULE AdmissionControllerAccounting -------------------
(***************************************************************************)
(* The accounting never fails: the admission controller closes itself with *)
(* controller_unavailable when one of its checked subtractions, additions  *)
(* or snapshots does not come out, and no behaviour makes one fail.        *)
(***************************************************************************)
EXTENDS AdmissionControllerProofs

-----------------------------------------------------------------------------
(***************************************************************************)
(* What a reservation adds to the ledger, one reservation at a time.       *)
(***************************************************************************)
Flight(res) == SequencesOf(res, InFlightIds(res))
Responses(res) == Cardinality(ActiveIds(res))

\* Both counts are naturals, and each response belongs to a forwarded sequence.
LEMMA FlightType ==
    ASSUME NEW res, ReservationMap(res)
    PROVE  /\ Flight(res) \in Nat /\ Responses(res) \in Nat
           /\ Responses(res) <= Flight(res)
           /\ Flight(res) <= SequencesOf(res, DOMAIN res)
<1>1. InFlightIds(res) \in SUBSET DOMAIN res /\ ActiveIds(res) \in SUBSET InFlightIds(res)
  BY DEF InFlightIds, ActiveIds
<1>2. /\ Countable(res, InFlightIds(res)) /\ Countable(res, ActiveIds(res))
      /\ Countable(res, DOMAIN res)
      /\ Flight(res) \in Nat /\ Responses(res) \in Nat
      /\ SequencesOf(res, ActiveIds(res)) \in Nat /\ SequencesOf(res, DOMAIN res) \in Nat
  BY <1>1, MapCountable DEF Flight, Responses
<1>3. Responses(res) <= SequencesOf(res, ActiveIds(res))
  BY <1>2, AtLeastOneEach DEF Responses
<1>4. SequencesOf(res, ActiveIds(res)) <= Flight(res)
  BY <1>1, <1>2, SequencesMonotone DEF Flight
<1>5. Flight(res) <= SequencesOf(res, DOMAIN res)
  BY <1>1, <1>2, SequencesMonotone DEF Flight
<1> QED BY <1>2, <1>3, <1>4, <1>5

\* Dropping a reservation takes its counts away.
LEMMA FlightWithout ==
    ASSUME NEW res, ReservationMap(res), NEW id \in DOMAIN res
    PROVE  /\ Flight(Without(res, id)) = Flight(res) - ForwardedCount(res[id])
           /\ Responses(Without(res, id)) = Responses(res) - ResponseCount(res[id])
<1> DEFINE less == Without(res, id)
<1>1. DOMAIN less = DOMAIN res \ {id} /\ \A i \in DOMAIN less : less[i] = res[i]
  BY DEF Without
<1>2. InFlightIds(less) = InFlightIds(res) \ {id} /\ ActiveIds(less) = ActiveIds(res) \ {id}
  BY <1>1 DEF InFlightIds, ActiveIds
<1>3. /\ Countable(res, InFlightIds(res)) /\ Flight(res) \in Nat
      /\ IsFiniteSet(ActiveIds(res)) /\ Responses(res) \in Nat
  BY MapCountable DEF InFlightIds, ActiveIds, Flight, Responses
<1>4. SequencesOf(less, InFlightIds(less)) = SequencesOf(res, InFlightIds(res) \ {id})
  BY <1>1, <1>2, SequencesSame DEF InFlightIds
<1> HIDE DEF less
<1>5. Flight(less) = Flight(res) - ForwardedCount(res[id])
  <2>1. CASE id \in InFlightIds(res)
    <3>1. SequencesOf(res, InFlightIds(res) \ {id}) = Flight(res) - res[id].sequences
      BY <1>3, <2>1, SequencesRemove DEF Flight
    <3>2. ForwardedCount(res[id]) = res[id].sequences
      BY <2>1 DEF InFlightIds, ForwardedCount
    <3> QED BY <1>4, <3>1, <3>2 DEF Flight
  <2>2. CASE id \notin InFlightIds(res)
    <3>1. InFlightIds(res) \ {id} = InFlightIds(res)
      BY <2>2
    <3>2. ForwardedCount(res[id]) = 0
      BY <2>2 DEF InFlightIds, ForwardedCount
    <3>3. Flight(less) = Flight(res)
      BY <1>4, <3>1 DEF Flight
    <3> QED BY <1>3, <3>2, <3>3
  <2> QED BY <2>1, <2>2
<1>6. Responses(less) = Responses(res) - ResponseCount(res[id])
  <2>1. CASE id \in ActiveIds(res)
    <3>1. Cardinality(ActiveIds(res) \ {id}) = Responses(res) - 1
      BY <1>3, <2>1, FS_RemoveElement DEF Responses
    <3>2. ResponseCount(res[id]) = 1
      BY <2>1 DEF ActiveIds, ResponseCount
    <3> QED BY <1>2, <3>1, <3>2 DEF Responses
  <2>2. CASE id \notin ActiveIds(res)
    <3>1. ActiveIds(res) \ {id} = ActiveIds(res)
      BY <2>2
    <3>2. ResponseCount(res[id]) = 0
      BY <2>2 DEF ActiveIds, ResponseCount
    <3>3. Responses(less) = Responses(res)
      BY <1>2, <3>1 DEF Responses
    <3> QED BY <1>3, <3>2, <3>3
  <2> QED BY <2>1, <2>2
<1> QED BY <1>5, <1>6 DEF less

\* A new reservation adds its counts.
LEMMA FlightWith ==
    ASSUME NEW res, ReservationMap(res), NEW id, id \notin DOMAIN res,
           NEW r \in ReservationType
    PROVE  /\ Flight(With(res, id, r)) = Flight(res) + ForwardedCount(r)
           /\ Responses(With(res, id, r)) = Responses(res) + ResponseCount(r)
<1> DEFINE more == With(res, id, r)
<1>1. id \in DOMAIN more /\ more[id] = r
  BY DEF With
<1>2. ReservationMap(more)
  BY SlowOverlayWith
<1>3. Without(more, id) = res
  BY DEF Without, With, ReservationMap
<1> HIDE DEF more
<1>4. /\ Flight(res) = Flight(more) - ForwardedCount(r)
      /\ Responses(res) = Responses(more) - ResponseCount(r)
  BY <1>1, <1>2, <1>3, FlightWithout
<1>5. Flight(more) \in Nat /\ Responses(more) \in Nat
  BY <1>2, FlightType
<1>6. ForwardedCount(r) \in Nat /\ ResponseCount(r) \in Nat
  BY NumericAssumption DEF ForwardedCount, ResponseCount, ReservationType
<1> QED BY <1>4, <1>5, <1>6 DEF more

\* Replacing a reservation replaces its counts.
LEMMA FlightReplace ==
    ASSUME NEW res, ReservationMap(res), NEW id \in DOMAIN res, NEW r \in ReservationType
    PROVE  /\ Flight([res EXCEPT ![id] = r]) =
                Flight(res) - ForwardedCount(res[id]) + ForwardedCount(r)
           /\ Responses([res EXCEPT ![id] = r]) =
                Responses(res) - ResponseCount(res[id]) + ResponseCount(r)
<1>1. ReservationMap(Without(res, id))
  BY SlowOverlayWithout
<1>2. id \notin DOMAIN Without(res, id)
  BY DEF Without
<1>3. With(Without(res, id), id, r) = [res EXCEPT ![id] = r]
  BY DEF With, Without, ReservationMap
<1>4. /\ Flight(Without(res, id)) = Flight(res) - ForwardedCount(res[id])
      /\ Responses(Without(res, id)) = Responses(res) - ResponseCount(res[id])
  BY FlightWithout
<1>5. /\ Flight(With(Without(res, id), id, r)) = Flight(Without(res, id)) + ForwardedCount(r)
      /\ Responses(With(Without(res, id), id, r)) = Responses(Without(res, id)) + ResponseCount(r)
  BY <1>1, <1>2, FlightWith
<1> QED BY <1>3, <1>4, <1>5

-----------------------------------------------------------------------------
(***************************************************************************)
(* The checked overlay operations succeed on an exact overlay.             *)
(***************************************************************************)

\* The totals of a map of reservations are in order, and none of them exceeds
\* the sequence liabilities.
LEMMA SlowOverlayValid ==
    ASSUME NEW res, ReservationMap(res)
    PROVE  /\ ValidOverlay(SlowOverlay(res))
           /\ SlowOverlay(res).liveReservations <= SlowOverlay(res).sequenceLiabilities
           /\ SlowOverlay(res).residualDebts <= SlowOverlay(res).sequenceLiabilities
           /\ SlowOverlay(res).coldSheddablePending <= SlowOverlay(res).sequenceLiabilities
<1>1. /\ UnobservedIds(res) \in SUBSET DOMAIN res /\ LiveIds(res) \in SUBSET DOMAIN res
      /\ ResidualIds(res) \in SUBSET DOMAIN res /\ ColdIds(res) \in SUBSET LiveIds(res)
      /\ ColdIds(res) \in SUBSET DOMAIN res
  BY DEF UnobservedIds, LiveIds, ResidualIds, ColdIds, Live, ColdPending, PendingPhase
<1>2. /\ Countable(res, DOMAIN res) /\ Countable(res, LiveIds(res))
      /\ Countable(res, ResidualIds(res)) /\ IsFiniteSet(LiveIds(res))
      /\ SequencesOf(res, DOMAIN res) \in Nat /\ SequencesOf(res, UnobservedIds(res)) \in Nat
      /\ SequencesOf(res, LiveIds(res)) \in Nat /\ SequencesOf(res, ResidualIds(res)) \in Nat
      /\ Cardinality(LiveIds(res)) \in Nat /\ Cardinality(ResidualIds(res)) \in Nat
      /\ Cardinality(ColdIds(res)) \in Nat
  BY <1>1, MapCountable
<1>3. /\ SequencesOf(res, UnobservedIds(res)) <= SequencesOf(res, DOMAIN res)
      /\ SequencesOf(res, LiveIds(res)) <= SequencesOf(res, DOMAIN res)
      /\ SequencesOf(res, ResidualIds(res)) <= SequencesOf(res, DOMAIN res)
  BY <1>1, <1>2, SequencesMonotone
<1>4. /\ Cardinality(LiveIds(res)) <= SequencesOf(res, LiveIds(res))
      /\ Cardinality(ResidualIds(res)) <= SequencesOf(res, ResidualIds(res))
  BY <1>2, AtLeastOneEach
<1>5. Cardinality(ColdIds(res)) <= Cardinality(LiveIds(res))
  BY <1>1, <1>2, FS_Subset
<1> QED BY <1>2, <1>3, <1>4, <1>5 DEF SlowOverlay, ValidOverlay

\* The contribution of a reservation is a valid overlay of naturals.
LEMMA ContributionValid ==
    ASSUME NEW r \in ReservationType
    PROVE  /\ ValidOverlay(Contribution(r))
           /\ Contribution(r) \in
                [unobservedSequences : Nat, sequenceLiabilities : Nat, liveReservations : Nat,
                 residualDebts : Nat, coldSheddablePending : Nat]
           /\ Contribution(r).sequenceLiabilities = r.sequences /\ r.sequences \in Nat
<1>1. r.sequences \in Nat
  BY NumericAssumption DEF ReservationType
<1>2. ValidOverlay(Contribution(r))
  BY <1>1 DEF Contribution, ValidOverlay, Live, ColdPending, PendingPhase
<1> QED BY <1>1, <1>2 DEF Contribution

\* Taking a reservation's contribution out succeeds.
LEMMA SubtractSucceeds ==
    ASSUME NEW res, ReservationMap(res), NEW id \in DOMAIN res
    PROVE  SubtractOverlayOK(SlowOverlay(res), Contribution(res[id]))
<1> DEFINE o == SlowOverlay(res)
           c == Contribution(res[id])
           m == SlowOverlay(Without(res, id))
<1>1. ReservationMap(Without(res, id)) /\ m = SubtractOverlay(o, c)
  BY SlowOverlayWithout
<1>2. res[id] \in ReservationType
  BY DEF ReservationMap
<1>3. ValidOverlay(o) /\ ValidOverlay(c) /\ ValidOverlay(m)
  BY <1>1, <1>2, SlowOverlayValid, ContributionValid
<1>4. /\ o \in OverlayType /\ c \in OverlayType
      /\ m \in [unobservedSequences : Nat, sequenceLiabilities : Nat, liveReservations : Nat,
                residualDebts : Nat, coldSheddablePending : Nat]
  BY <1>1, <1>2, SlowOverlayType, ContributionType
<1> HIDE DEF o, c, m
<1>5. /\ c.unobservedSequences <= o.unobservedSequences
      /\ c.sequenceLiabilities <= o.sequenceLiabilities
      /\ c.liveReservations <= o.liveReservations
      /\ c.residualDebts <= o.residualDebts
      /\ c.coldSheddablePending <= o.coldSheddablePending
  BY <1>1, <1>4 DEF OverlayType, SubtractOverlay
<1>6. SubtractOverlayOK(o, c)
  BY <1>1, <1>3, <1>5 DEF SubtractOverlayOK
<1> QED BY <1>6 DEF o, c

\* Putting contributions in succeeds while the liabilities fit an int64.
LEMMA AddSucceeds ==
    ASSUME NEW res, ReservationMap(res), NEW id, id \notin DOMAIN res,
           NEW r \in ReservationType,
           SlowOverlay(res).sequenceLiabilities + r.sequences <= MaxInt64
    PROVE  AddOverlayOK(SlowOverlay(res), Contribution(r))
<1> DEFINE o == SlowOverlay(res)
           c == Contribution(r)
           m == SlowOverlay(With(res, id, r))
<1>1. ReservationMap(With(res, id, r)) /\ m = AddOverlay(o, c)
  BY SlowOverlayWith
<1>2. /\ ValidOverlay(m) /\ m.liveReservations <= m.sequenceLiabilities
      /\ m.residualDebts <= m.sequenceLiabilities
      /\ m.coldSheddablePending <= m.sequenceLiabilities
  BY <1>1, SlowOverlayValid
<1>3. /\ o \in [unobservedSequences : Nat, sequenceLiabilities : Nat, liveReservations : Nat,
                residualDebts : Nat, coldSheddablePending : Nat]
      /\ c \in [unobservedSequences : Nat, sequenceLiabilities : Nat, liveReservations : Nat,
                residualDebts : Nat, coldSheddablePending : Nat]
      /\ c.sequenceLiabilities = r.sequences
  BY SlowOverlayType, ContributionValid
<1>4. o.sequenceLiabilities + r.sequences <= MaxInt64
  OBVIOUS
<1> HIDE DEF o, c, m
<1>5. m.sequenceLiabilities <= MaxInt64
  BY <1>1, <1>3, <1>4 DEF AddOverlay
<1>6. /\ Fits(o.unobservedSequences, c.unobservedSequences)
      /\ Fits(o.sequenceLiabilities, c.sequenceLiabilities)
      /\ Fits(o.liveReservations, c.liveReservations)
      /\ Fits(o.residualDebts, c.residualDebts)
      /\ Fits(o.coldSheddablePending, c.coldSheddablePending)
  BY <1>1, <1>2, <1>3, <1>5, NumericAssumption DEF Fits, AddOverlay, ValidOverlay
<1>7. AddOverlayOK(o, c)
  BY <1>1, <1>2, <1>6 DEF AddOverlayOK
<1> QED BY <1>7 DEF o, c

\* Replacing a reservation by a later phase of itself, or by nothing, succeeds.
LEMMA ReplaceSucceeds ==
    ASSUME NEW res, ReservationMap(res), NEW id \in DOMAIN res, NEW r \in ReservationType,
           r.sequences = res[id].sequences,
           SlowOverlay(res).sequenceLiabilities <= MaxInt64
    PROVE  /\ ReplaceOverlayOK(SlowOverlay(res), Contribution(res[id]), Contribution(r))
           /\ ReplaceOverlayOK(SlowOverlay(res), Contribution(res[id]), ZeroOverlay)
<1> DEFINE o == SlowOverlay(res)
           c == Contribution(res[id])
           m == SlowOverlay(Without(res, id))
<1>1. ReservationMap(Without(res, id)) /\ m = SubtractOverlay(o, c) /\ id \notin DOMAIN Without(res, id)
  BY SlowOverlayWithout DEF Without
<1>2. SubtractOverlayOK(o, c)
  BY SubtractSucceeds
<1>3. res[id] \in ReservationType /\ o.sequenceLiabilities <= MaxInt64
  BY DEF ReservationMap
<1>4. c.sequenceLiabilities = r.sequences /\ r.sequences \in Nat /\ o \in OverlayType
  BY <1>3, ContributionValid, SlowOverlayType
<1>5. m.sequenceLiabilities = o.sequenceLiabilities - r.sequences
  BY <1>1, <1>4 DEF SubtractOverlay
<1>6. /\ m.sequenceLiabilities + r.sequences <= MaxInt64
      /\ m.sequenceLiabilities <= MaxInt64
  BY <1>3, <1>4, <1>5, NumericAssumption DEF OverlayType
<1>7. AddOverlayOK(m, Contribution(r))
  BY <1>1, <1>6, AddSucceeds
<1>8. AddOverlayOK(m, ZeroOverlay)
  <2>1. /\ ValidOverlay(m) /\ m.liveReservations <= m.sequenceLiabilities
        /\ m.residualDebts <= m.sequenceLiabilities
        /\ m.coldSheddablePending <= m.sequenceLiabilities
    BY <1>1, SlowOverlayValid
  <2>2. m \in [unobservedSequences : Nat, sequenceLiabilities : Nat, liveReservations : Nat,
               residualDebts : Nat, coldSheddablePending : Nat]
    BY <1>1, SlowOverlayType
  <2> HIDE DEF m
  <2>3. AddOverlay(m, ZeroOverlay) = m
    BY <2>2 DEF AddOverlay, ZeroOverlay
  <2>4. /\ Fits(m.unobservedSequences, 0) /\ Fits(m.sequenceLiabilities, 0)
        /\ Fits(m.liveReservations, 0) /\ Fits(m.residualDebts, 0)
        /\ Fits(m.coldSheddablePending, 0)
    BY <1>6, <2>1, <2>2, NumericAssumption DEF Fits, ValidOverlay
  <2> QED BY <2>1, <2>3, <2>4 DEF AddOverlayOK, ZeroOverlay
<1> HIDE DEF o, c, m
<1>9. ReplaceOverlayOK(o, c, Contribution(r)) /\ ReplaceOverlayOK(o, c, ZeroOverlay)
  BY <1>1, <1>2, <1>7, <1>8 DEF ReplaceOverlayOK
<1> QED BY <1>9 DEF o, c

-----------------------------------------------------------------------------
(***************************************************************************)
(* The checked ledger operations. "b follows a", written                   *)
(* SubtractSnapshotOK(b, a), orders the ledger's snapshots: neither        *)
(* integral went back, and the response integral grew no more than the     *)
(* forwarded one.                                                          *)
(***************************************************************************)

\* Time charged to a count is monotone in the count.
LEMMA ChargeMonotone ==
    ASSUME NEW e \in Nat, NEW r \in Nat, NEW f \in Nat, r <= f
    PROVE  e * r \in Nat /\ e * f \in Nat /\ e * r <= e * f
<1>1. e * r \in Nat /\ e * f \in Nat
  OBVIOUS
<1>2. f - r \in Nat /\ e * (f - r) \in Nat
  OBVIOUS
<1>3. e * f = e * r + e * (f - r)
  OBVIOUS
<1> QED BY <1>1, <1>2, <1>3

\* Charging the elapsed time succeeds, and the snapshot after it follows the
\* one before.
LEMMA AdvanceSucceeds ==
    ASSUME NEW l \in LedgerType, ValidLedger(l), NEW now \in Nat \ {0}, l.lastEventAt <= now
    PROVE  /\ AdvanceOK(l, now) /\ ValidLedger(Advance(l, now))
           /\ Advance(l, now).forwarded = l.forwarded /\ Advance(l, now).response = l.response
           /\ Advance(l, now).lastEventAt = now /\ Advance(l, now).initialized = TRUE
           /\ SubtractSnapshotOK(LedgerSnapshot(Advance(l, now)), LedgerSnapshot(l))
           /\ Advance(l, now).responseTime <= Advance(l, now).forwardedTime
<1> DEFINE e == Elapsed(l, now)
<1>1. /\ l.forwarded \in Nat /\ l.response \in Nat /\ l.response <= l.forwarded
      /\ l.forwardedTime \in Int /\ l.responseTime \in Int /\ l.responseTime <= l.forwardedTime
  BY DEF LedgerType, ValidLedger
<1>2. e \in Nat
  BY DEF Elapsed, LedgerType
<1>3. e * l.response \in Nat /\ e * l.forwarded \in Nat /\ e * l.response <= e * l.forwarded
  BY <1>1, <1>2, ChargeMonotone
<1>4. /\ Advance(l, now).forwardedTime = l.forwardedTime + e * l.forwarded
      /\ Advance(l, now).responseTime = l.responseTime + e * l.response
      /\ Advance(l, now).forwarded = l.forwarded /\ Advance(l, now).response = l.response
      /\ Advance(l, now).lastEventAt = now /\ Advance(l, now).initialized = TRUE
  BY DEF Advance
<1> DEFINE x == e * l.response
           y == e * l.forwarded
<1> HIDE DEF e, x, y
<1>5. x \in Nat /\ y \in Nat /\ x <= y
  BY <1>3 DEF x, y
<1>6. Advance(l, now).responseTime <= Advance(l, now).forwardedTime
  BY <1>1, <1>4, <1>5 DEF x, y
<1>7. ValidLedger(Advance(l, now))
  BY <1>1, <1>4, <1>6 DEF ValidLedger
<1>8. AdvanceOK(l, now)
  BY <1>7 DEF AdvanceOK
<1>9. SubtractSnapshotOK(LedgerSnapshot(Advance(l, now)), LedgerSnapshot(l))
  <2>1. /\ LedgerSnapshot(Advance(l, now)).forwardedTime = l.forwardedTime + y
        /\ LedgerSnapshot(Advance(l, now)).responseTime = l.responseTime + x
        /\ LedgerSnapshot(l).forwardedTime = l.forwardedTime
        /\ LedgerSnapshot(l).responseTime = l.responseTime
    BY <1>4 DEF LedgerSnapshot, x, y
  <2> QED BY <1>1, <1>5, <2>1 DEF SubtractSnapshotOK, SubtractSnapshot, ValidSnapshot
<1> QED BY <1>4, <1>6, <1>7, <1>8, <1>9

\* The order of snapshots is transitive and reflexive.
LEMMA FollowsTransitive ==
    ASSUME NEW a \in SnapshotType, NEW b \in SnapshotType, NEW c \in SnapshotType,
           SubtractSnapshotOK(b, a), SubtractSnapshotOK(c, b)
    PROVE  SubtractSnapshotOK(c, a)
BY DEF SnapshotType, SubtractSnapshotOK, SubtractSnapshot, ValidSnapshot

LEMMA FollowsReflexive ==
    ASSUME NEW a \in SnapshotType, ValidSnapshot(a)
    PROVE  SubtractSnapshotOK(a, a)
BY DEF SnapshotType, SubtractSnapshotOK, SubtractSnapshot, ValidSnapshot

\* A ledger event with room for it succeeds.
LEMMA LedgerEvents ==
    ASSUME NEW l \in LedgerType, ValidLedger(l), NEW now \in Nat \ {0}, l.lastEventAt <= now
    PROVE  /\ \A n \in Nat \ {0} : l.forwarded + n <= MaxInt64 =>
                 AddForwardedOK(l, now, n) /\ ValidLedger(AddForwarded(l, now, n))
           /\ l.response + 1 <= MaxInt64 /\ l.response + 1 <= l.forwarded =>
                 AddResponseOK(l, now, 1) /\ ValidLedger(AddResponse(l, now, 1))
           /\ \A f \in Nat \ {0}, r \in Nat :
                 r <= f /\ r <= l.response /\ l.response - r <= l.forwarded - f =>
                   RemoveOK(l, now, f, r) /\ ValidLedger(Remove(l, now, f, r))
<1> DEFINE a == Advance(l, now)
<1>1. /\ a \in LedgerType /\ ValidLedger(a) /\ AdvanceOK(l, now)
      /\ a.forwarded = l.forwarded /\ a.response = l.response
      /\ a.lastEventAt = now /\ a.initialized = TRUE /\ a.responseTime <= a.forwardedTime
  BY AdvanceType, AdvanceSucceeds
<1>2. /\ l.forwarded \in Nat /\ l.response \in Nat /\ l.response <= l.forwarded
  BY DEF LedgerType, ValidLedger
<1>3. /\ \A n : AddForwarded(l, now, n) = [a EXCEPT !.forwarded = @ + n]
      /\ \A n : AddResponse(l, now, n) = [a EXCEPT !.response = @ + n]
      /\ \A f, r : Remove(l, now, f, r) = [a EXCEPT !.forwarded = @ - f, !.response = @ - r]
  BY DEF AddForwarded, AddResponse, Remove
<1> HIDE DEF a
<1>4. ASSUME NEW n \in Nat \ {0}, l.forwarded + n <= MaxInt64
      PROVE  AddForwardedOK(l, now, n) /\ ValidLedger(AddForwarded(l, now, n))
  <2>1. ValidLedger(AddForwarded(l, now, n))
    <3> DEFINE b == AddForwarded(l, now, n)
    <3>1. /\ b.forwarded = a.forwarded + n /\ b.response = a.response
          /\ b.initialized = TRUE /\ b.lastEventAt = now
          /\ b.responseTime = a.responseTime /\ b.forwardedTime = a.forwardedTime
      <4>1. b = [a EXCEPT !.forwarded = @ + n]
        BY <1>3 DEF b
      <4> HIDE DEF b
      <4> QED BY <1>1, <4>1 DEF LedgerType
    <3> HIDE DEF b
    <3>2. 0 <= b.response /\ b.response <= b.forwarded /\ b.responseTime <= b.forwardedTime
      BY <1>1, <1>2, <3>1
    <3>3. ValidLedger(b)
      BY <3>1, <3>2 DEF ValidLedger
    <3> QED BY <3>3 DEF b
  <2> QED BY <1>1, <1>2, <1>4, <2>1, NumericAssumption DEF AddForwardedOK
<1>5. ASSUME l.response + 1 <= MaxInt64, l.response + 1 <= l.forwarded
      PROVE  AddResponseOK(l, now, 1) /\ ValidLedger(AddResponse(l, now, 1))
  <2>1. ValidLedger(AddResponse(l, now, 1))
    <3> DEFINE b == AddResponse(l, now, 1)
    <3>1. /\ b.forwarded = a.forwarded /\ b.response = a.response + 1
          /\ b.initialized = TRUE /\ b.lastEventAt = now
          /\ b.responseTime = a.responseTime /\ b.forwardedTime = a.forwardedTime
      <4>1. b = [a EXCEPT !.response = @ + 1]
        BY <1>3 DEF b
      <4> HIDE DEF b
      <4> QED BY <1>1, <4>1 DEF LedgerType
    <3> HIDE DEF b
    <3>2. 0 <= b.response /\ b.response <= b.forwarded /\ b.responseTime <= b.forwardedTime
      BY <1>1, <1>2, <1>5, <3>1
    <3>3. ValidLedger(b)
      BY <3>1, <3>2 DEF ValidLedger
    <3> QED BY <3>3 DEF b
  <2> QED BY <1>1, <1>2, <1>5, <2>1, NumericAssumption DEF AddResponseOK
<1>6. ASSUME NEW f \in Nat \ {0}, NEW r \in Nat, r <= f, r <= l.response,
             l.response - r <= l.forwarded - f
      PROVE  RemoveOK(l, now, f, r) /\ ValidLedger(Remove(l, now, f, r))
  <2>1. ValidLedger(Remove(l, now, f, r))
    <3> DEFINE b == Remove(l, now, f, r)
    <3>1. /\ b.forwarded = a.forwarded - f /\ b.response = a.response - r
          /\ b.initialized = TRUE /\ b.lastEventAt = now
          /\ b.responseTime = a.responseTime /\ b.forwardedTime = a.forwardedTime
      <4>1. b = [a EXCEPT !.forwarded = @ - f, !.response = @ - r]
        BY <1>3 DEF b
      <4> HIDE DEF b
      <4> QED BY <1>1, <4>1 DEF LedgerType
    <3> HIDE DEF b
    <3>2. 0 <= b.response /\ b.response <= b.forwarded /\ b.responseTime <= b.forwardedTime
      BY <1>1, <1>2, <1>6, <3>1
    <3>3. ValidLedger(b)
      BY <3>1, <3>2 DEF ValidLedger
    <3> QED BY <3>3 DEF b
  <2> QED BY <1>1, <1>2, <1>6, <2>1 DEF RemoveOK
<1> QED BY <1>4, <1>5, <1>6

-----------------------------------------------------------------------------
(***************************************************************************)
(* The inductive invariant, in parts.                                      *)
(***************************************************************************)
LiabilitiesFit == overlay.sequenceLiabilities <= MaxInt64

ReservationsValid == \A i \in DOMAIN reservations : ValidReservation(reservations[i])

LedgerSound == ValidLedger(exposure) /\ exposure.lastEventAt <= clock

Accounts ==
    /\ OverlayExact
    /\ LiabilitiesFit
    /\ ReservationsValid
    /\ LedgerExact
    /\ LedgerSound

\* What the parts say of the reservations and the ledger together.
LEMMA AccountFacts ==
    ASSUME TypeOK, Accounts
    PROVE  /\ ReservationMap(reservations)
           /\ \A i \in DOMAIN reservations :
                 reservations[i] \in ReservationType /\ reservations[i].sequences \in Nat \ {0}
           /\ overlay = SlowOverlay(reservations)
           /\ overlay.sequenceLiabilities = SequencesOf(reservations, DOMAIN reservations)
           /\ SequencesOf(reservations, DOMAIN reservations) <= MaxInt64
           /\ exposure.forwarded = Flight(reservations) /\ Flight(reservations) \in Nat
           /\ exposure.response = Responses(reservations) /\ Responses(reservations) \in Nat
           /\ exposure \in LedgerType /\ ValidLedger(exposure)
           /\ exposure.lastEventAt <= clock /\ clock \in Nat \ {0}
<1>1. ReservationMap(reservations)
  BY TypeMap
<1>2. \A i \in DOMAIN reservations :
         reservations[i] \in ReservationType /\ reservations[i].sequences \in Nat \ {0}
  BY NumericAssumption DEF TypeOK, LifecycleTypes, ReservationType
<1>3. /\ overlay = SlowOverlay(reservations)
      /\ overlay.sequenceLiabilities = SequencesOf(reservations, DOMAIN reservations)
      /\ SequencesOf(reservations, DOMAIN reservations) <= MaxInt64
  BY DEF Accounts, OverlayExact, LiabilitiesFit, SlowOverlay
<1>4. /\ exposure.forwarded = Flight(reservations) /\ Flight(reservations) \in Nat
      /\ exposure.response = Responses(reservations) /\ Responses(reservations) \in Nat
  BY <1>1, FlightType DEF Accounts, LedgerExact, Flight, Responses
<1>5. /\ exposure \in LedgerType /\ ValidLedger(exposure)
      /\ exposure.lastEventAt <= clock /\ clock \in Nat \ {0}
  BY DEF Accounts, LedgerSound, TypeOK, LifecycleTypes, IntakeTypes
<1> QED BY <1>1, <1>2, <1>3, <1>4, <1>5

\* Forwarding a reservation always fits the ledger.
LEMMA ForwardSucceeds ==
    ASSUME TypeOK, Accounts, NEW id \in DOMAIN reservations, reservations[id].phase = "reserved"
    PROVE  /\ AddForwardedOK(exposure, clock, reservations[id].sequences)
           /\ ValidLedger(AddForwarded(exposure, clock, reservations[id].sequences))
<1> DEFINE r   == Forwarded(reservations[id], 0, 0)
           new == [reservations EXCEPT ![id] = r]
           n   == reservations[id].sequences
<1>1. /\ ReservationMap(reservations) /\ reservations[id] \in ReservationType /\ n \in Nat \ {0}
      /\ SequencesOf(reservations, DOMAIN reservations) <= MaxInt64
      /\ exposure.forwarded = Flight(reservations) /\ Flight(reservations) \in Nat
  BY AccountFacts
<1>2. r \in ReservationType /\ Contribution(r) = Contribution(reservations[id])
  BY <1>1, EventTypes, ForwardedContribution, 0 \in Nat
<1>3. r.phase = "forwarded" /\ r.sequences = n
  BY <1>1 DEF Forwarded, ReservationType
<1>4. ForwardedCount(r) = n /\ ForwardedCount(reservations[id]) = 0
  BY <1>3 DEF ForwardedCount
<1> HIDE DEF r, n
<1>5. /\ ReservationMap(new)
      /\ SlowOverlay(new) = ReplaceOverlay(SlowOverlay(reservations),
                               Contribution(reservations[id]), Contribution(r))
  BY <1>1, <1>2, SlowOverlayReplace
<1>6. SlowOverlay(new) = SlowOverlay(reservations)
  <2>1. SlowOverlay(reservations) \in OverlayType /\ Contribution(reservations[id]) \in OverlayType
    BY <1>1, SlowOverlayType, ContributionType
  <2> QED BY <1>2, <1>5, <2>1, OverlayCancels
<1>7. SequencesOf(new, DOMAIN new) = SequencesOf(reservations, DOMAIN reservations)
  BY <1>6 DEF SlowOverlay
<1>8. Flight(new) = Flight(reservations) - 0 + n
  BY <1>1, <1>2, <1>4, FlightReplace
<1>9. Flight(new) <= SequencesOf(new, DOMAIN new) /\ Flight(new) \in Nat
  BY <1>5, FlightType
<1> HIDE DEF new
<1>10. exposure.forwarded + n <= MaxInt64
  <2>1. SequencesOf(new, DOMAIN new) \in Nat
    BY <1>5, MapCountable
  <2> QED BY <1>1, <1>7, <1>8, <1>9, <2>1, NumericAssumption
<1>11. /\ exposure \in LedgerType /\ ValidLedger(exposure)
       /\ exposure.lastEventAt <= clock /\ clock \in Nat \ {0}
  BY AccountFacts
<1> QED BY <1>1, <1>10, <1>11, LedgerEvents DEF n

\* A first byte always fits the ledger: its reservation has a forwarded
\* sequence that no response has claimed.
LEMMA ActivateSucceeds ==
    ASSUME TypeOK, Accounts, NEW id \in DOMAIN reservations, reservations[id].phase = "forwarded"
    PROVE  AddResponseOK(exposure, clock, 1) /\ ValidLedger(AddResponse(exposure, clock, 1))
<1> DEFINE r   == Activated(reservations[id])
           new == [reservations EXCEPT ![id] = r]
           n   == reservations[id].sequences
<1>1. /\ ReservationMap(reservations) /\ reservations[id] \in ReservationType /\ n \in Nat \ {0}
      /\ SequencesOf(reservations, DOMAIN reservations) <= MaxInt64
      /\ SequencesOf(reservations, DOMAIN reservations) \in Nat
      /\ exposure.forwarded = Flight(reservations) /\ Flight(reservations) \in Nat
      /\ exposure.response = Responses(reservations) /\ Responses(reservations) \in Nat
  BY AccountFacts, MapCountable
<1>2. r \in ReservationType /\ r.phase = "active" /\ r.sequences = n
  BY <1>1, EventTypes, 0 \in Nat DEF Activated, ReservationType
<1>3. /\ ForwardedCount(r) = n /\ ForwardedCount(reservations[id]) = n
      /\ ResponseCount(r) = 1 /\ ResponseCount(reservations[id]) = 0
  BY <1>2 DEF ForwardedCount, ResponseCount
<1> HIDE DEF r, n
<1>4. ReservationMap(new)
  BY <1>1, <1>2, SlowOverlayReplace
<1>5. Flight(new) = Flight(reservations) - n + n /\ Responses(new) = Responses(reservations) - 0 + 1
  BY <1>1, <1>2, <1>3, FlightReplace
<1>6. Responses(new) <= Flight(new)
  BY <1>4, FlightType
<1>7. Flight(reservations) <= SequencesOf(reservations, DOMAIN reservations)
  BY <1>1, FlightType
<1>8. exposure.response + 1 <= exposure.forwarded /\ exposure.response + 1 <= MaxInt64
  BY <1>1, <1>5, <1>6, <1>7, NumericAssumption
<1>9. /\ exposure \in LedgerType /\ ValidLedger(exposure)
      /\ exposure.lastEventAt <= clock /\ clock \in Nat \ {0}
  BY AccountFacts
<1> QED BY <1>8, <1>9, LedgerEvents

\* Ending a forwarded or active reservation always leaves a ledger.
LEMMA EndSucceeds ==
    ASSUME TypeOK, Accounts, NEW id \in DOMAIN reservations,
           ForwardedCount(reservations[id]) # 0
    PROVE  /\ RemoveOK(exposure, clock, ForwardedCount(reservations[id]),
                       ResponseCount(reservations[id]))
           /\ ValidLedger(Remove(exposure, clock, ForwardedCount(reservations[id]),
                                 ResponseCount(reservations[id])))
<1> DEFINE f == ForwardedCount(reservations[id])
           r == ResponseCount(reservations[id])
<1>1. /\ ReservationMap(reservations) /\ reservations[id].sequences \in Nat \ {0}
      /\ exposure.forwarded = Flight(reservations) /\ Flight(reservations) \in Nat
      /\ exposure.response = Responses(reservations) /\ Responses(reservations) \in Nat
  BY AccountFacts
<1>2. f \in Nat \ {0} /\ r \in Nat /\ r <= f
  BY <1>1 DEF ForwardedCount, ResponseCount
<1>3. /\ Flight(Without(reservations, id)) = Flight(reservations) - f
      /\ Responses(Without(reservations, id)) = Responses(reservations) - r
  BY <1>1, FlightWithout
<1>4. /\ Responses(Without(reservations, id)) <= Flight(Without(reservations, id))
      /\ Responses(Without(reservations, id)) \in Nat
  BY <1>1, SlowOverlayWithout, FlightType
<1> HIDE DEF f, r
<1>5. r <= exposure.response /\ exposure.response - r <= exposure.forwarded - f
  BY <1>1, <1>2, <1>3, <1>4
<1>6. /\ exposure \in LedgerType /\ ValidLedger(exposure)
      /\ exposure.lastEventAt <= clock /\ clock \in Nat \ {0}
  BY AccountFacts
<1>7. RemoveOK(exposure, clock, f, r) /\ ValidLedger(Remove(exposure, clock, f, r))
  BY <1>2, <1>5, <1>6, LedgerEvents
<1> QED BY <1>7 DEF f, r

-----------------------------------------------------------------------------
(***************************************************************************)
(* The accounts are inductive.                                             *)
(***************************************************************************)

\* An empty map is in flight with nothing.
LEMMA FlightEmpty == Flight(NoReservations) = 0 /\ Responses(NoReservations) = 0
<1>1. InFlightIds(NoReservations) = {} /\ ActiveIds(NoReservations) = {}
  BY ZeroTypes DEF InFlightIds, ActiveIds
<1>2. Slots(NoReservations, {}) = {}
  BY DEF Slots
<1>3. Cardinality({}) = 0
  BY FS_EmptySet
<1> QED BY <1>1, <1>2, <1>3 DEF Flight, Responses, SequencesOf

\* Dropping everything leaves empty accounts.
LEMMA AccountsEmpty ==
    ASSUME reservations' = NoReservations, overlay' = ZeroOverlay, exposure' = ZeroLedger,
           clock' \in Nat
    PROVE  Accounts'
<1>1. OverlayExact'
  BY SlowOverlayEmpty DEF OverlayExact
<1>2. LiabilitiesFit'
  BY NumericAssumption DEF LiabilitiesFit, ZeroOverlay
<1>3. ReservationsValid'
  BY ZeroTypes DEF ReservationsValid
<1>4. LedgerExact'
  BY FlightEmpty DEF LedgerExact, ZeroLedger, Flight, Responses
<1>5. LedgerSound'
  BY DEF LedgerSound, ValidLedger, ZeroLedger
<1> QED BY <1>1, <1>2, <1>3, <1>4, <1>5 DEF Accounts

\* The initial accounts are empty.
LEMMA InitAccounts == Init => Accounts
<1> SUFFICES ASSUME Init PROVE Accounts
  OBVIOUS
<1>0. /\ reservations = NoReservations /\ overlay = ZeroOverlay /\ exposure = ZeroLedger
      /\ clock = 1
  BY InitValues
<1>1. OverlayExact
  BY <1>0, SlowOverlayEmpty DEF OverlayExact
<1>2. LiabilitiesFit
  BY <1>0, NumericAssumption DEF LiabilitiesFit, ZeroOverlay
<1>3. ReservationsValid
  BY <1>0, ZeroTypes DEF ReservationsValid
<1>4. LedgerExact
  BY <1>0, FlightEmpty DEF LedgerExact, ZeroLedger, Flight, Responses
<1>5. LedgerSound
  BY <1>0 DEF LedgerSound, ValidLedger, ZeroLedger
<1> QED BY <1>1, <1>2, <1>3, <1>4, <1>5 DEF Accounts

\* Time alone changes nothing.
LEMMA AccountsKept ==
    ASSUME TypeOK, Accounts, UNCHANGED <<reservations, overlay, exposure>>,
           clock' \in Nat, clock <= clock'
    PROVE  Accounts'
<1>1. OverlayExact' /\ LiabilitiesFit' /\ ReservationsValid' /\ LedgerExact'
  BY DEF Accounts, OverlayExact, LiabilitiesFit, ReservationsValid, LedgerExact
<1>2. exposure'.lastEventAt <= clock'
  BY AccountFacts DEF LedgerType
<1>3. ValidLedger(exposure')
  BY DEF Accounts, LedgerSound
<1> QED BY <1>1, <1>2, <1>3 DEF Accounts, LedgerSound

\* What the events do to the fields the accounts read.
LEMMA AccountFields ==
    ASSUME NEW r \in ReservationType, NEW now, NEW n
    PROVE  /\ Forwarded(r, now, n).sequences = r.sequences
           /\ Activated(r).sequences = r.sequences
           /\ Activated(r).pendingFirstByteReleased = TRUE
           /\ Ended(r, n).sequences = r.sequences
           /\ LeaseEnded(r).sequences = r.sequences
           /\ LeaseEnded(r).pendingFirstByteReleased = TRUE
BY DEF Forwarded, Activated, Ended, LeaseEnded, ReservationType

\* The liabilities after a replacement are the ones before it.
LEMMA ReplaceLiabilities ==
    ASSUME NEW res, ReservationMap(res), NEW id \in DOMAIN res, NEW r \in ReservationType,
           r.sequences = res[id].sequences
    PROVE  SlowOverlay([res EXCEPT ![id] = r]).sequenceLiabilities =
             SlowOverlay(res).sequenceLiabilities
<1>1. SlowOverlay([res EXCEPT ![id] = r]) =
        ReplaceOverlay(SlowOverlay(res), Contribution(res[id]), Contribution(r))
  BY SlowOverlayReplace
<1>2. /\ Contribution(res[id]).sequenceLiabilities = res[id].sequences
      /\ Contribution(r).sequenceLiabilities = r.sequences
  BY DEF Contribution
<1>3. SlowOverlay(res).sequenceLiabilities \in Int /\ r.sequences \in Int
  BY SlowOverlayType, NumericAssumption DEF OverlayType, ReservationType
<1> QED BY <1>1, <1>2, <1>3 DEF ReplaceOverlay, AddOverlay, SubtractOverlay

\* An admission keeps the accounts: the overlay's check is what keeps the
\* liabilities within an int64.
LEMMA ReserveAccounts ==
    ASSUME TypeOK, Accounts, OverlayExact', NEW d \in Demands, NEW now, NEW view,
           Reserves(d, now, view)
    PROVE  Accounts'
<1> DEFINE r  == NewReservation(d)
           id == nextReservationID + 1
<1>1. /\ overlay' = AddOverlay(overlay, Contribution(r))
      /\ reservations' = With(reservations, id, r)
      /\ exposure' = exposure /\ clock' = clock
  BY DEF Reserves, Reserve
<1>2. id \notin DOMAIN reservations
  BY DEF TypeOK, LifecycleTypes
<1>3. r \in ReservationType
  BY NewReservationType
<1>4. r.phase = "reserved"
  BY DEF NewReservation
<1>5. AddOverlayOK(overlay, Contribution(r))
  BY DEF Reserves, ReserveFailure
<1> HIDE DEF r, id
<1>6. LiabilitiesFit'
  <2>1. overlay \in OverlayType /\ Contribution(r) \in OverlayType
    BY <1>3, ContributionType DEF TypeOK, LifecycleTypes
  <2>2. Fits(overlay.sequenceLiabilities, Contribution(r).sequenceLiabilities)
    BY <1>5 DEF AddOverlayOK
  <2> QED BY <1>1, <2>1, <2>2, NumericAssumption DEF LiabilitiesFit, AddOverlay, Fits, OverlayType
<1>7. ReservationsValid'
  BY <1>1, <1>4 DEF Accounts, ReservationsValid, ValidReservation, With
<1>8. LedgerExact'
  <2>1. ForwardedCount(r) = 0 /\ ResponseCount(r) = 0
    BY <1>4 DEF ForwardedCount, ResponseCount
  <2>2. ReservationMap(reservations)
    BY TypeMap
  <2>3. /\ Flight(With(reservations, id, r)) = Flight(reservations) + ForwardedCount(r)
        /\ Responses(With(reservations, id, r)) = Responses(reservations) + ResponseCount(r)
    BY <1>2, <1>3, <2>2, FlightWith
  <2>4. /\ exposure.forwarded = Flight(reservations) /\ Flight(reservations) \in Nat
        /\ exposure.response = Responses(reservations) /\ Responses(reservations) \in Nat
    BY AccountFacts
  <2>5. exposure'.forwarded = Flight(reservations') /\ exposure'.response = Responses(reservations')
    BY <1>1, <2>1, <2>3, <2>4
  <2> QED BY <2>5 DEF LedgerExact, Flight, Responses
<1>9. LedgerSound'
  BY <1>1 DEF Accounts, LedgerSound
<1> QED BY <1>6, <1>7, <1>8, <1>9 DEF Accounts

\* The accounts after a request's event, from the ledger and the map.
LEMMA EventAccounts ==
    ASSUME TypeOK, Accounts, OverlayExact', NEW id \in DOMAIN reservations,
           NEW r \in ReservationType, ValidReservation(r),
           r.sequences = reservations[id].sequences,
           reservations' = [reservations EXCEPT ![id] = r],
           clock' = clock, ValidLedger(exposure'), exposure'.lastEventAt <= clock,
           exposure'.forwarded =
             exposure.forwarded - ForwardedCount(reservations[id]) + ForwardedCount(r),
           exposure'.response =
             exposure.response - ResponseCount(reservations[id]) + ResponseCount(r)
    PROVE  Accounts'
<1>1. ReservationMap(reservations)
  BY TypeMap
<1>2. LiabilitiesFit'
  <2>1. SlowOverlay(reservations').sequenceLiabilities = SlowOverlay(reservations).sequenceLiabilities
    BY <1>1, ReplaceLiabilities
  <2> QED BY <2>1 DEF Accounts, OverlayExact, LiabilitiesFit
<1>3. ReservationsValid'
  BY DEF Accounts, ReservationsValid
<1>4. LedgerExact'
  <2>1. /\ Flight(reservations') =
             Flight(reservations) - ForwardedCount(reservations[id]) + ForwardedCount(r)
        /\ Responses(reservations') =
             Responses(reservations) - ResponseCount(reservations[id]) + ResponseCount(r)
    BY <1>1, FlightReplace
  <2>2. exposure.forwarded = Flight(reservations) /\ exposure.response = Responses(reservations)
    BY AccountFacts
  <2>3. exposure'.forwarded = Flight(reservations') /\ exposure'.response = Responses(reservations')
    BY <2>1, <2>2
  <2> QED BY <2>3 DEF LedgerExact, Flight, Responses
<1>5. LedgerSound'
  BY DEF LedgerSound
<1> QED BY <1>2, <1>3, <1>4, <1>5 DEF Accounts

\* Forwarding moves a reservation's sequences into the ledger.
LEMMA ForwardAccounts ==
    ASSUME TypeOK, Accounts, OverlayExact', NEW id \in DOMAIN reservations, Forwards(id)
    PROVE  Accounts'
<1> DEFINE r == Forwarded(reservations[id], clock, eventSequence + 1)
           n == reservations[id].sequences
<1>1. /\ reservations' = [reservations EXCEPT ![id] = r] /\ clock' = clock
      /\ exposure' = AddForwarded(exposure, clock, n)
      /\ reservations[id].phase = "reserved"
  BY DEF Forwards, Forward, HandleFrame
<1>2. /\ reservations[id] \in ReservationType /\ n \in Nat \ {0} /\ n \in Int
      /\ exposure \in LedgerType /\ clock \in Nat /\ eventSequence + 1 \in Nat
      /\ exposure.forwarded \in Int /\ exposure.response \in Int
  BY AccountFacts DEF LedgerType, TypeOK, LifecycleTypes
<1>3. r \in ReservationType /\ r.phase = "forwarded" /\ r.sequences = n
  <2>1. r \in ReservationType
    BY <1>2, EventTypes
  <2>2. r.phase = "forwarded"
    BY <1>2, EventFields
  <2>3. r.sequences = n
    BY <1>2 DEF Forwarded, ReservationType
  <2> QED BY <2>1, <2>2, <2>3
<1>4. ValidLedger(AddForwarded(exposure, clock, n))
  BY <1>1, ForwardSucceeds
<1>5. /\ AddForwarded(exposure, clock, n).lastEventAt = clock
      /\ AddForwarded(exposure, clock, n).forwarded = exposure.forwarded + n
      /\ AddForwarded(exposure, clock, n).response = exposure.response
  BY <1>2 DEF AddForwarded, Advance
<1> HIDE DEF r, n
<1>6. ValidReservation(r) /\ ForwardedCount(r) = n /\ ResponseCount(r) = 0
  BY <1>3 DEF ValidReservation, ForwardedCount, ResponseCount
<1>7. ForwardedCount(reservations[id]) = 0 /\ ResponseCount(reservations[id]) = 0
  BY <1>1 DEF ForwardedCount, ResponseCount
<1>8. /\ exposure'.forwarded = exposure.forwarded - 0 + n
      /\ exposure'.response = exposure.response - 0 + 0
      /\ exposure'.lastEventAt <= clock
  BY <1>1, <1>2, <1>5
<1>9. ValidLedger(exposure')
  BY <1>1, <1>4
<1> QED BY <1>1, <1>3, <1>6, <1>7, <1>8, <1>9, EventAccounts DEF n

\* A first byte adds a response and leaves the forwarded sequences.
LEMMA ActivateAccounts ==
    ASSUME TypeOK, Accounts, OverlayExact', NEW id \in DOMAIN reservations, Activates(id)
    PROVE  Accounts'
<1> DEFINE r == Activated(reservations[id])
           n == reservations[id].sequences
<1>1. /\ reservations' = [reservations EXCEPT ![id] = r] /\ clock' = clock
      /\ exposure' = AddResponse(exposure, clock, 1)
      /\ reservations[id].phase = "forwarded"
  BY DEF Activates, Activate, HandleFrame
<1>2. /\ reservations[id] \in ReservationType /\ n \in Nat \ {0} /\ n \in Int
      /\ exposure \in LedgerType /\ clock \in Nat /\ 1 \in Int /\ 0 \in Nat
      /\ exposure.forwarded \in Int /\ exposure.response \in Int
  BY AccountFacts DEF LedgerType
<1>3. /\ r \in ReservationType /\ r.phase = "active" /\ r.sequences = n
      /\ r.pendingFirstByteReleased = TRUE
  BY <1>2, EventTypes, EventFields, AccountFields
<1>4. ValidLedger(AddResponse(exposure, clock, 1))
  BY <1>1, ActivateSucceeds
<1>5. /\ AddResponse(exposure, clock, 1).lastEventAt = clock
      /\ AddResponse(exposure, clock, 1).forwarded = exposure.forwarded
      /\ AddResponse(exposure, clock, 1).response = exposure.response + 1
  BY <1>2 DEF AddResponse, Advance
<1> HIDE DEF r, n
<1>6. ValidReservation(r)
  BY <1>3 DEF ValidReservation
<1>7. ForwardedCount(r) = n /\ ResponseCount(r) = 1
  BY <1>3 DEF ForwardedCount, ResponseCount
<1>8. ForwardedCount(reservations[id]) = n /\ ResponseCount(reservations[id]) = 0
  BY <1>1 DEF ForwardedCount, ResponseCount, n
<1>9. /\ exposure'.forwarded = exposure.forwarded - n + n
      /\ exposure'.response = exposure.response - 0 + 1
      /\ exposure'.lastEventAt <= clock
  BY <1>1, <1>2, <1>5
<1>10. ValidLedger(exposure')
  BY <1>1, <1>4
<1> QED BY <1>1, <1>3, <1>6, <1>7, <1>8, <1>9, <1>10, EventAccounts DEF n

\* What an ended request takes out of the ledger.
LEMMA EndLedger ==
    ASSUME TypeOK, Accounts, NEW id \in DOMAIN reservations, NEW cause \in Causes, Ends(id, cause)
    PROVE  /\ ValidLedger(exposure') /\ exposure'.lastEventAt <= clock
           /\ exposure'.forwarded = exposure.forwarded - ForwardedCount(reservations[id])
           /\ exposure'.response = exposure.response - ResponseCount(reservations[id])
           /\ ForwardedCount(reservations[id]) \in Nat /\ ResponseCount(reservations[id]) \in Nat
<1> DEFINE f == ForwardedCount(reservations[id])
           n == ResponseCount(reservations[id])
<1>1. exposure' = IF f = 0 THEN exposure ELSE Remove(exposure, clock, f, n)
  BY DEF Ends, End
<1>2. /\ reservations[id].sequences \in Nat \ {0} /\ exposure \in LedgerType
      /\ ValidLedger(exposure) /\ exposure.lastEventAt <= clock /\ clock \in Nat
      /\ exposure.forwarded \in Int /\ exposure.response \in Int
  BY AccountFacts DEF LedgerType
<1>3. f \in Nat /\ n \in Nat /\ (f = 0 => n = 0)
  BY <1>2 DEF ForwardedCount, ResponseCount
<1>4. CASE f = 0
  <2> HIDE DEF f, n
  <2>1. /\ ValidLedger(exposure') /\ exposure'.lastEventAt <= clock
        /\ exposure'.forwarded = exposure.forwarded - f /\ exposure'.response = exposure.response - n
    BY <1>1, <1>2, <1>3, <1>4
  <2> QED BY <1>3, <2>1 DEF f, n
<1>5. CASE f # 0
  <2>1. ValidLedger(Remove(exposure, clock, f, n))
    BY <1>5, EndSucceeds
  <2> HIDE DEF f, n
  <2>2. /\ Remove(exposure, clock, f, n).lastEventAt = clock
        /\ Remove(exposure, clock, f, n).forwarded = exposure.forwarded - f
        /\ Remove(exposure, clock, f, n).response = exposure.response - n
    BY <1>2, <1>3 DEF Remove, Advance
  <2>3. exposure' = Remove(exposure, clock, f, n)
    BY <1>1, <1>5
  <2>4. /\ ValidLedger(exposure') /\ exposure'.lastEventAt <= clock
        /\ exposure'.forwarded = exposure.forwarded - f /\ exposure'.response = exposure.response - n
    BY <1>2, <2>1, <2>2, <2>3
  <2> QED BY <1>3, <2>4 DEF f, n
<1> QED BY <1>4, <1>5

\* Ending takes a reservation's counts out of the ledger, once.
LEMMA EndAccounts ==
    ASSUME TypeOK, Accounts, OverlayExact', NEW id \in DOMAIN reservations,
           NEW cause \in Causes, Ends(id, cause)
    PROVE  Accounts'
<1> DEFINE r == Ended(reservations[id], eventSequence + 1)
<1>1. /\ reservations' = IF RemovedOnTerminate(reservations[id], cause)
                           THEN Without(reservations, id)
                           ELSE [reservations EXCEPT ![id] = r]
      /\ clock' = clock
  BY DEF Ends, End, HandleFrame
<1>2. /\ reservations[id] \in ReservationType /\ reservations[id].sequences \in Nat \ {0}
      /\ ReservationMap(reservations) /\ clock \in Nat /\ eventSequence + 1 \in Nat
      /\ exposure.forwarded \in Int /\ exposure.response \in Int
      /\ exposure.forwarded = Flight(reservations) /\ exposure.response = Responses(reservations)
  BY AccountFacts DEF LedgerType, TypeOK, LifecycleTypes
<1>3. /\ ValidLedger(exposure') /\ exposure'.lastEventAt <= clock
      /\ exposure'.forwarded = exposure.forwarded - ForwardedCount(reservations[id])
      /\ exposure'.response = exposure.response - ResponseCount(reservations[id])
      /\ ForwardedCount(reservations[id]) \in Nat /\ ResponseCount(reservations[id]) \in Nat
  BY EndLedger
<1>4. CASE RemovedOnTerminate(reservations[id], cause)
  <2>1. reservations' = Without(reservations, id)
    BY <1>1, <1>4
  <2>2. LiabilitiesFit'
    <3>1. SlowOverlay(Without(reservations, id)) =
            SubtractOverlay(SlowOverlay(reservations), Contribution(reservations[id]))
      BY <1>2, SlowOverlayWithout
    <3>2. SlowOverlay(reservations') = overlay' /\ SlowOverlay(reservations) = overlay
      BY DEF Accounts, OverlayExact
    <3>3. Contribution(reservations[id]).sequenceLiabilities = reservations[id].sequences
      BY DEF Contribution
    <3>4. overlay.sequenceLiabilities \in Int /\ overlay.sequenceLiabilities <= MaxInt64
      BY DEF Accounts, LiabilitiesFit, TypeOK, LifecycleTypes, OverlayType
    <3>5. overlay'.sequenceLiabilities = overlay.sequenceLiabilities - reservations[id].sequences
      BY <2>1, <3>1, <3>2, <3>3 DEF SubtractOverlay
    <3> QED BY <1>2, <3>4, <3>5, NumericAssumption DEF LiabilitiesFit
  <2>3. ReservationsValid'
    BY <2>1 DEF Accounts, ReservationsValid, Without
  <2>4. LedgerExact'
    <3>1. /\ Flight(Without(reservations, id)) = Flight(reservations) - ForwardedCount(reservations[id])
          /\ Responses(Without(reservations, id)) = Responses(reservations) - ResponseCount(reservations[id])
      BY <1>2, FlightWithout
    <3>2. exposure'.forwarded = Flight(reservations') /\ exposure'.response = Responses(reservations')
      BY <1>2, <1>3, <2>1, <3>1
    <3> QED BY <3>2 DEF LedgerExact, Flight, Responses
  <2>5. LedgerSound'
    BY <1>1, <1>3 DEF LedgerSound
  <2> QED BY <2>2, <2>3, <2>4, <2>5 DEF Accounts
<1>5. CASE ~RemovedOnTerminate(reservations[id], cause)
  <2>1. reservations' = [reservations EXCEPT ![id] = r]
    BY <1>1, <1>5
  <2>2. r \in ReservationType
    BY <1>2, EventTypes
  <2>3. r.phase = "residual" /\ r.sequences = reservations[id].sequences
    BY <1>2 DEF Ended, ReservationType
  <2> HIDE DEF r
  <2>4. ValidReservation(r) /\ ForwardedCount(r) = 0 /\ ResponseCount(r) = 0
    BY <2>3 DEF ValidReservation, ForwardedCount, ResponseCount
  <2>5. /\ exposure'.forwarded =
             exposure.forwarded - ForwardedCount(reservations[id]) + ForwardedCount(r)
        /\ exposure'.response =
             exposure.response - ResponseCount(reservations[id]) + ResponseCount(r)
    BY <1>2, <1>3, <2>4
  <2> QED BY <1>1, <1>3, <2>1, <2>2, <2>3, <2>4, <2>5, EventAccounts
<1> QED BY <1>4, <1>5

\* Opening a sample window only charges time.
LEMMA OpenAccounts ==
    ASSUME TypeOK, Accounts, NEW s \in Samplers, Opens(s)
    PROVE  Accounts'
<1>1. /\ exposure' = Advance(exposure, clock) /\ clock' = clock
      /\ UNCHANGED <<reservations, overlay>>
  BY DEF Opens, OpenWindow
<1>2. /\ ValidLedger(Advance(exposure, clock))
      /\ Advance(exposure, clock).forwarded = exposure.forwarded
      /\ Advance(exposure, clock).response = exposure.response
      /\ Advance(exposure, clock).lastEventAt = clock /\ clock \in Nat
  BY AccountFacts, AdvanceSucceeds
<1>3. OverlayExact' /\ LiabilitiesFit' /\ ReservationsValid'
  BY <1>1 DEF Accounts, OverlayExact, LiabilitiesFit, ReservationsValid
<1>4. LedgerExact' /\ LedgerSound'
  BY <1>1, <1>2 DEF Accounts, LedgerExact, LedgerSound
<1> QED BY <1>3, <1>4 DEF Accounts

\* A publication settles debts and releases leases: neither is in flight.
LEMMA AcceptAccounts ==
    ASSUME TypeOK, Accounts, OverlayExact', TypeOK', NEW s \in Samplers, NEW o \in Reports(s),
           Accepts(s, o)
    PROVE  Accounts'
<1> DEFINE mark == windows[s].eventSequence
           new  == Reconciled(mark, o)
<1>1. reservations' = new /\ clock' = clock /\ exposure' = exposure
  BY DEF Accepts, Accept
<1>2. ReservationMap(reservations) /\ \A i \in DOMAIN reservations : reservations[i] \in ReservationType
  BY TypeMap DEF TypeOK, LifecycleTypes
<1>3. DOMAIN new = DOMAIN reservations \ Settled(mark)
  BY ReconciledType
<1>4. \A i \in DOMAIN new :
         /\ new[i].sequences = reservations[i].sequences
         /\ new[i].phase = reservations[i].phase
  BY <1>2, <1>3 DEF Reconciled, LeaseEnded, ReservationType
<1>5. \A i \in DOMAIN new : ValidReservation(new[i])
  <2> TAKE i \in DOMAIN new
  <2>1. i \in DOMAIN reservations \ Settled(mark) /\ ValidReservation(reservations[i])
    BY <1>3 DEF Accounts, ReservationsValid
  <2>2. new[i] = LeaseEnded(reservations[i]) \/ new[i] = reservations[i]
    BY <2>1 DEF Reconciled
  <2>3. LeaseEnded(reservations[i]).pendingFirstByteReleased = TRUE
    BY <1>2, <2>1 DEF LeaseEnded, ReservationType
  <2> HIDE DEF new
  <2> QED BY <2>1, <2>2, <2>3 DEF ValidReservation
<1>6. \A i \in Settled(mark) : reservations[i].phase = "residual"
  BY DEF Settled
<1> HIDE DEF new, mark
<1>7. InFlightIds(new) = InFlightIds(reservations) /\ ActiveIds(new) = ActiveIds(reservations)
  BY <1>3, <1>4, <1>6 DEF InFlightIds, ActiveIds
<1>8. SequencesOf(new, InFlightIds(new)) = SequencesOf(reservations, InFlightIds(reservations))
  <2>1. \A i \in InFlightIds(new) : new[i].sequences = reservations[i].sequences
    BY <1>4 DEF InFlightIds
  <2> QED BY <1>7, <2>1, SequencesSame
<1>9. LedgerExact'
  BY <1>1, <1>7, <1>8 DEF Accounts, LedgerExact
<1>10. LiabilitiesFit'
  <2>1. SequencesOf(new, DOMAIN new) = SequencesOf(reservations, DOMAIN new)
    BY <1>4, SequencesSame
  <2>2. SequencesOf(reservations, DOMAIN new) <= SequencesOf(reservations, DOMAIN reservations)
    BY <1>2, <1>3, MapCountable, SequencesMonotone
  <2>3. overlay'.sequenceLiabilities = SequencesOf(new, DOMAIN new)
    BY <1>1 DEF OverlayExact, SlowOverlay
  <2>4. SequencesOf(reservations, DOMAIN reservations) <= MaxInt64
    BY AccountFacts
  <2>5. /\ SequencesOf(reservations, DOMAIN new) \in Nat
        /\ SequencesOf(reservations, DOMAIN reservations) \in Nat
    BY <1>2, <1>3, MapCountable
  <2> QED BY <2>1, <2>2, <2>3, <2>4, <2>5, NumericAssumption DEF LiabilitiesFit
<1>11. ReservationsValid'
  BY <1>1, <1>5 DEF ReservationsValid
<1>12. LedgerSound'
  BY <1>1 DEF Accounts, LedgerSound
<1> QED BY <1>9, <1>10, <1>11, <1>12 DEF Accounts

\* Every step keeps the accounts.
LEMMA AccountsStep ==
    ASSUME TypeOK, Accounts, [Next]_vars
    PROVE  Accounts'
<1>0. TypeOK' /\ OverlayExact' /\ clock \in Nat
  BY StepType, OverlayStep DEF Accounts, TypeOK, IntakeTypes
<1>1. Step
  BY StepCases
<1>2. CASE UNCHANGED vars
  <2>1. UNCHANGED <<reservations, overlay, exposure, clock>>
    BY <1>2 DEF vars, lifecycle
  <2> QED BY <1>0, <2>1, AccountsKept
<1>3. CASE Fails
  <2>1. /\ reservations' = NoReservations /\ overlay' = ZeroOverlay /\ exposure' = ZeroLedger
        /\ clock' = clock
    BY <1>3 DEF Fails, FailClosed
  <2> QED BY <1>0, <2>1, AccountsEmpty
<1>4. ASSUME NEW s \in Samplers, NEW o \in Reports(s), Resets(s, o)
      PROVE  Accounts'
  <2>1. /\ reservations' = NoReservations /\ overlay' = ZeroOverlay /\ exposure' = ZeroLedger
        /\ clock' = clock
    BY <1>4 DEF Resets, PublishReset
  <2> QED BY <1>0, <2>1, AccountsEmpty
<1>5. ASSUME NEW s \in Samplers, Drops(s)
      PROVE  Accounts'
  <2>1. UNCHANGED <<reservations, overlay, exposure, clock>>
    BY <1>5 DEF Drops, lifecycle
  <2> QED BY <1>0, <2>1, AccountsKept
<1>6. ASSUME NEW r \in References, NEW w \in WindowSizes, NEW l \in RunningLimits,
             NEW a \in Allowances, UpdatePolicy(r, w, l, a)
      PROVE  Accounts'
  <2>1. UNCHANGED <<reservations, overlay, exposure, clock>>
    BY <1>6 DEF UpdatePolicy, lifecycle
  <2> QED BY <1>0, <2>1, AccountsKept
<1>7. CASE Tick
  <2>1. UNCHANGED <<reservations, overlay, exposure>> /\ clock' = clock + 1
    BY <1>7 DEF Tick, lifecycle
  <2> QED BY <1>0, <2>1, AccountsKept
<1> QED BY <1>0, <1>1, <1>2, <1>3, <1>4, <1>5, <1>6, <1>7, ReserveAccounts, ForwardAccounts,
           ActivateAccounts, EndAccounts, OpenAccounts, AcceptAccounts DEF Step

(***************************************************************************)
(* The exposure ledger counts exactly the forwarded sequences and started  *)
(* responses of the live reservations: what reservationExposureCounts took *)
(* out on termination, and failClosedLocked and the reset branch dropped,  *)
(* is what the forwarding and first-byte calls had put in. Inductive with  *)
(* the exact overlay, its fit into an int64 and the ledger's own validity, *)
(* without which a removal could be refused.                               *)
(***************************************************************************)
THEOREM LedgerCorrect == Spec => []LedgerExact
<1>1. Init => Accounts
  BY InitAccounts
<1>2. TypeOK /\ Accounts /\ [Next]_vars => Accounts'
  BY AccountsStep
<1>3. Accounts => LedgerExact
  BY DEF Accounts
<1> QED BY <1>1, <1>2, <1>3, TypeCorrect, PTL DEF Spec

-----------------------------------------------------------------------------
(***************************************************************************)
(* The order of the snapshots: the ledger follows every snapshot taken of  *)
(* it in this runtime epoch, and a later window follows an earlier one. A  *)
(* window of an earlier epoch, or of a closed controller, says nothing.    *)
(***************************************************************************)
Follows(later, earlier) == SubtractSnapshotOK(later, earlier)

Current(s) == windows[s].id # 0 /\ windows[s].runtimeEpoch = runtimeEpoch

WindowEpochsPast == \A s \in Samplers : windows[s].runtimeEpoch <= runtimeEpoch

SnapshotsOrdered ==
    closedReason = "none" =>
      /\ lastPublishedSample <= sampleSequence
      /\ Follows(LedgerSnapshot(exposure), lastExposure)
      /\ \A s \in Samplers : Current(s) =>
            /\ windows[s].id <= sampleSequence
            /\ Follows(LedgerSnapshot(exposure), windows[s].exposure)
            /\ windows[s].id > lastPublishedSample => Follows(windows[s].exposure, lastExposure)
            /\ \A t \in Samplers :
                  Current(t) /\ windows[t].id < windows[s].id =>
                    Follows(windows[s].exposure, windows[t].exposure)

\* Everything the order speaks of is a snapshot.
LEMMA SnapshotTypes ==
    ASSUME TypeOK
    PROVE  /\ exposure \in LedgerType /\ LedgerSnapshot(exposure) \in SnapshotType
           /\ lastExposure \in SnapshotType
           /\ \A s \in Samplers : /\ windows[s] \in WindowType
                                  /\ windows[s].exposure \in SnapshotType
                                  /\ windows[s].id \in Nat /\ windows[s].runtimeEpoch \in Nat
           /\ sampleSequence \in Nat /\ lastPublishedSample \in Nat /\ runtimeEpoch \in Nat
<1>1. exposure \in LedgerType /\ 0 \in Nat /\ 0 \in Int
  BY DEF TypeOK, LifecycleTypes
<1>2. LedgerSnapshot(exposure) \in SnapshotType
  BY <1>1, LedgerTypes
<1>3. \A s \in Samplers : windows[s] \in WindowType
  BY DEF TypeOK, SamplerTypes
<1>4. \A s \in Samplers : /\ windows[s].exposure \in SnapshotType
                          /\ windows[s].id \in Nat /\ windows[s].runtimeEpoch \in Nat
  BY <1>3 DEF WindowType
<1> QED BY <1>1, <1>2, <1>3, <1>4 DEF TypeOK, SamplingTypes, IntakeTypes

\* Charging time, with or without an event, gives a snapshot that follows.
LEMMA LedgerGrows ==
    ASSUME TypeOK, Accounts
    PROVE  /\ Follows(LedgerSnapshot(exposure), LedgerSnapshot(exposure))
           /\ Follows(LedgerSnapshot(Advance(exposure, clock)), LedgerSnapshot(exposure))
           /\ \A n \in Int : /\ LedgerSnapshot(AddForwarded(exposure, clock, n)) =
                                  LedgerSnapshot(Advance(exposure, clock))
                             /\ LedgerSnapshot(AddResponse(exposure, clock, n)) =
                                  LedgerSnapshot(Advance(exposure, clock))
           /\ \A n, m \in Int : LedgerSnapshot(Remove(exposure, clock, n, m)) =
                                  LedgerSnapshot(Advance(exposure, clock))
<1>1. /\ exposure \in LedgerType /\ ValidLedger(exposure)
      /\ exposure.lastEventAt <= clock /\ clock \in Nat \ {0}
  BY AccountFacts
<1>2. Follows(LedgerSnapshot(exposure), LedgerSnapshot(exposure))
  <2>1. ValidSnapshot(LedgerSnapshot(exposure))
    BY <1>1 DEF ValidSnapshot, LedgerSnapshot, ValidLedger
  <2> QED BY <2>1, SnapshotTypes, FollowsReflexive DEF Follows
<1>3. Follows(LedgerSnapshot(Advance(exposure, clock)), LedgerSnapshot(exposure))
  BY <1>1, AdvanceSucceeds DEF Follows
<1>4. ASSUME NEW n \in Int
      PROVE  /\ LedgerSnapshot(AddForwarded(exposure, clock, n)) =
                  LedgerSnapshot(Advance(exposure, clock))
             /\ LedgerSnapshot(AddResponse(exposure, clock, n)) =
                  LedgerSnapshot(Advance(exposure, clock))
  BY DEF LedgerSnapshot, AddForwarded, AddResponse, Advance
<1>5. ASSUME NEW n \in Int, NEW m \in Int
      PROVE  LedgerSnapshot(Remove(exposure, clock, n, m)) =
               LedgerSnapshot(Advance(exposure, clock))
  BY DEF LedgerSnapshot, Remove, Advance
<1> QED BY <1>2, <1>3, <1>4, <1>5

\* A step that opens no window, publishes nothing and at most charges time
\* keeps the order; windows may be given up.
LEMMA OrderKept ==
    ASSUME TypeOK, TypeOK', SnapshotsOrdered,
           UNCHANGED <<closedReason, runtimeEpoch, sampling>>,
           \A s \in Samplers : windows'[s] = windows[s] \/ windows'[s] = NoWindow,
           Follows(LedgerSnapshot(exposure'), LedgerSnapshot(exposure))
    PROVE  SnapshotsOrdered'
<1> SUFFICES ASSUME closedReason = "none"
             PROVE  SnapshotsOrdered'
  BY DEF SnapshotsOrdered
<1>1. /\ LedgerSnapshot(exposure) \in SnapshotType /\ LedgerSnapshot(exposure') \in SnapshotType
      /\ lastExposure \in SnapshotType
      /\ \A s \in Samplers : windows[s].exposure \in SnapshotType
  BY SnapshotTypes DEF TypeOK, LifecycleTypes, LedgerSnapshot, LedgerType, SnapshotType
<1>2. \A a \in SnapshotType :
         Follows(LedgerSnapshot(exposure), a) => Follows(LedgerSnapshot(exposure'), a)
  BY <1>1, FollowsTransitive DEF Follows
<1>3. \A s \in Samplers : Current(s)' => Current(s) /\ windows'[s] = windows[s]
  BY DEF Current, NoWindow
<1>4. UNCHANGED <<closedReason, runtimeEpoch, sampleSequence, lastPublishedSample, lastExposure>>
  BY DEF sampling
<1>5. Follows(LedgerSnapshot(exposure'), lastExposure)
  BY <1>1, <1>2 DEF SnapshotsOrdered
<1>6. ASSUME NEW s \in Samplers, Current(s)'
      PROVE  /\ windows'[s].id <= sampleSequence
             /\ Follows(LedgerSnapshot(exposure'), windows'[s].exposure)
             /\ windows'[s].id > lastPublishedSample => Follows(windows'[s].exposure, lastExposure)
             /\ \A t \in Samplers :
                   Current(t)' /\ windows'[t].id < windows'[s].id =>
                     Follows(windows'[s].exposure, windows'[t].exposure)
  BY <1>1, <1>2, <1>3, <1>6 DEF SnapshotsOrdered
<1> QED BY <1>4, <1>5, <1>6 DEF SnapshotsOrdered

\* A window that opens sees the ledger as it is: after every other window.
LEMMA OpenOrder ==
    ASSUME TypeOK, TypeOK', Accounts, SnapshotsOrdered, NEW s \in Samplers, Opens(s)
    PROVE  SnapshotsOrdered'
<1> DEFINE snap == LedgerSnapshot(Advance(exposure, clock))
<1>1. /\ closedReason = "none" /\ closedReason' = closedReason /\ runtimeEpoch' = runtimeEpoch
      /\ sampleSequence' = sampleSequence + 1
      /\ UNCHANGED <<lastPublishedSample, lastExposure>>
      /\ exposure' = Advance(exposure, clock)
  BY DEF Opens, OpenWindow, StaysOpen
<1>2. /\ windows'[s].id = sampleSequence + 1 /\ windows'[s].exposure = snap
      /\ \A t \in Samplers : t # s => windows'[t] = windows[t]
  BY DEF Opens, OpenWindow, TypeOK, SamplerTypes
<1>3. LedgerSnapshot(exposure') = snap
  BY <1>1
<1>4. Follows(snap, LedgerSnapshot(exposure))
  BY LedgerGrows
<1>5. /\ LedgerSnapshot(exposure) \in SnapshotType /\ lastExposure \in SnapshotType
      /\ \A t \in Samplers : windows[t].exposure \in SnapshotType /\ windows[t].id \in Nat
      /\ sampleSequence \in Nat /\ lastPublishedSample \in Nat
  BY SnapshotTypes
<1>6. snap \in SnapshotType
  <2>1. exposure' \in LedgerType
    BY DEF TypeOK, LifecycleTypes
  <2> QED BY <1>3, <2>1 DEF LedgerSnapshot, LedgerType, SnapshotType
<1> HIDE DEF snap
<1>7. \A a \in SnapshotType : Follows(LedgerSnapshot(exposure), a) => Follows(snap, a)
  BY <1>4, <1>5, <1>6, FollowsTransitive DEF Follows
<1>8. Follows(snap, snap)
  <2>1. ValidSnapshot(snap)
    BY <1>4 DEF Follows, SubtractSnapshotOK
  <2> QED BY <1>6, <2>1, FollowsReflexive DEF Follows
<1>9. \A t \in Samplers : t # s /\ Current(t)' => Current(t)
  BY <1>1, <1>2 DEF Current
<1>10. Follows(snap, lastExposure)
  BY <1>1, <1>5, <1>7 DEF SnapshotsOrdered
<1>11. \A t \in Samplers : t # s /\ Current(t)' =>
         /\ windows'[t].id <= sampleSequence
         /\ Follows(snap, windows'[t].exposure)
         /\ windows'[t].id > lastPublishedSample => Follows(windows'[t].exposure, lastExposure)
  BY <1>1, <1>2, <1>5, <1>7, <1>9 DEF SnapshotsOrdered
<1>12. \A t, u \in Samplers :
          Current(t)' /\ Current(u)' /\ windows'[u].id < windows'[t].id =>
            Follows(windows'[t].exposure, windows'[u].exposure)
  <2> SUFFICES ASSUME NEW t \in Samplers, NEW u \in Samplers, Current(t)', Current(u)',
                      windows'[u].id < windows'[t].id
               PROVE  Follows(windows'[t].exposure, windows'[u].exposure)
    OBVIOUS
  <2>1. CASE t = s
    BY <1>2, <1>8, <1>11, <2>1
  <2>2. CASE t # s
    <3>1. windows'[t] = windows[t] /\ windows[t].id <= sampleSequence /\ Current(t)
      BY <1>2, <1>9, <1>11, <2>2
    <3>2. u # s
      BY <1>2, <1>5, <3>1
    <3> QED BY <1>1, <1>2, <1>9, <3>1, <3>2 DEF SnapshotsOrdered
  <2> QED BY <2>1, <2>2
<1>13. lastPublishedSample <= sampleSequence
  BY <1>1 DEF SnapshotsOrdered
<1>14. ASSUME NEW t \in Samplers, Current(t)'
       PROVE  /\ windows'[t].id <= sampleSequence'
              /\ Follows(LedgerSnapshot(exposure'), windows'[t].exposure)
              /\ windows'[t].id > lastPublishedSample' =>
                   Follows(windows'[t].exposure, lastExposure')
  <2>1. CASE t = s
    BY <1>1, <1>2, <1>3, <1>5, <1>8, <1>10, <2>1
  <2>2. CASE t # s
    <3>1. windows'[t].id <= sampleSequence /\ windows'[t].id \in Nat
      BY <1>2, <1>5, <1>11, <1>14, <2>2
    <3> QED BY <1>1, <1>3, <1>5, <1>11, <1>14, <2>2, <3>1
  <2> QED BY <2>1, <2>2
<1>15. lastPublishedSample' <= sampleSequence' /\ Follows(LedgerSnapshot(exposure'), lastExposure')
  BY <1>1, <1>3, <1>5, <1>10, <1>13
<1> QED BY <1>12, <1>14, <1>15 DEF SnapshotsOrdered

\* A publication makes its window the last one: the windows still held and
\* newer than it follow it.
LEMMA AcceptOrder ==
    ASSUME TypeOK, TypeOK', SnapshotsOrdered, NEW s \in Samplers, NEW o \in Reports(s),
           Accepts(s, o)
    PROVE  SnapshotsOrdered'
<1>1. /\ closedReason = "none" /\ Current(s) /\ windows[s].id > lastPublishedSample
      /\ windows[s].id <= sampleSequence
  BY DEF Accepts, Acceptable, Publishable, Current
<1>2. /\ UNCHANGED <<closedReason, runtimeEpoch, sampleSequence, exposure>>
      /\ lastPublishedSample' = windows[s].id /\ lastExposure' = windows[s].exposure
  BY DEF Accepts, Accept, StaysOpen
<1>3. \A t \in Samplers : IF t = s THEN windows'[t] = NoWindow ELSE windows'[t] = windows[t]
  BY DEF Accepts, ReleaseWindow, TypeOK, SamplerTypes
<1>4. \A t \in Samplers : Current(t)' => Current(t) /\ windows'[t] = windows[t]
  BY <1>2, <1>3 DEF Current, NoWindow
<1>5. Follows(LedgerSnapshot(exposure), windows[s].exposure)
  BY <1>1 DEF SnapshotsOrdered
<1>6. \A t \in Samplers : Current(t) =>
         /\ windows[t].id <= sampleSequence
         /\ Follows(LedgerSnapshot(exposure), windows[t].exposure)
         /\ \A u \in Samplers : Current(u) /\ windows[u].id < windows[t].id =>
               Follows(windows[t].exposure, windows[u].exposure)
  BY <1>1 DEF SnapshotsOrdered
<1>7. \A t \in Samplers : windows[t].id \in Nat
  BY SnapshotTypes
<1>8. ASSUME NEW t \in Samplers, Current(t)'
      PROVE  /\ windows'[t].id <= sampleSequence'
             /\ Follows(LedgerSnapshot(exposure'), windows'[t].exposure)
             /\ windows'[t].id > lastPublishedSample' =>
                  Follows(windows'[t].exposure, lastExposure')
             /\ \A u \in Samplers : Current(u)' /\ windows'[u].id < windows'[t].id =>
                   Follows(windows'[t].exposure, windows'[u].exposure)
  <2>1. Current(t) /\ windows'[t] = windows[t]
    BY <1>4, <1>8
  <2>2. windows'[t].id > lastPublishedSample' => windows[s].id < windows[t].id
    BY <1>2, <1>7, <2>1
  <2>3. windows'[t].id > lastPublishedSample' => Follows(windows'[t].exposure, lastExposure')
    BY <1>1, <1>2, <1>6, <2>1, <2>2
  <2> QED BY <1>2, <1>4, <1>6, <2>1, <2>3
<1> QED BY <1>1, <1>2, <1>5, <1>8 DEF SnapshotsOrdered

\* A reset starts from zero, with no window of the new epoch.
LEMMA ResetOrder ==
    ASSUME TypeOK, TypeOK', WindowEpochsPast, NEW s \in Samplers, NEW o \in Reports(s), Resets(s, o)
    PROVE  SnapshotsOrdered'
<1>1. /\ runtimeEpoch' = runtimeEpoch + 1 /\ exposure' = ZeroLedger /\ sampleSequence' = 0
      /\ lastPublishedSample' = 0 /\ lastExposure' = ZeroSnapshot
  BY DEF Resets, PublishReset
<1>2. \A t \in Samplers : windows'[t] = NoWindow \/ windows'[t] = windows[t]
  BY DEF Resets, ReleaseWindow, TypeOK, SamplerTypes
<1>3. \A t \in Samplers : windows[t].runtimeEpoch \in Nat /\ windows[t].runtimeEpoch <= runtimeEpoch
  BY SnapshotTypes DEF WindowEpochsPast
<1>4. runtimeEpoch \in Nat
  BY SnapshotTypes
<1>5. \A t \in Samplers : ~Current(t)'
  <2> TAKE t \in Samplers
  <2>1. CASE windows'[t] = NoWindow
    BY <2>1 DEF Current, NoWindow
  <2>2. CASE windows'[t] = windows[t]
    BY <1>1, <1>3, <1>4, <2>2 DEF Current
  <2> QED BY <1>2, <2>1, <2>2
<1>6. Follows(LedgerSnapshot(exposure'), lastExposure')
  BY <1>1 DEF Follows, SubtractSnapshotOK, SubtractSnapshot, ValidSnapshot, LedgerSnapshot,
              ZeroLedger, ZeroSnapshot
<1> QED BY <1>1, <1>5, <1>6 DEF SnapshotsOrdered

\* The events of a request, and an admission, leave windows and publications
\* alone and at most charge time.
LEMMA RequestOrder ==
    ASSUME TypeOK, TypeOK', Accounts, SnapshotsOrdered
    PROVE  /\ \A d \in Demands : \A now, view : Reserves(d, now, view) => SnapshotsOrdered'
           /\ \A id \in DOMAIN reservations : Forwards(id) => SnapshotsOrdered'
           /\ \A id \in DOMAIN reservations : Activates(id) => SnapshotsOrdered'
           /\ \A id \in DOMAIN reservations, cause \in Causes : Ends(id, cause) => SnapshotsOrdered'
<1>0. /\ Follows(LedgerSnapshot(exposure), LedgerSnapshot(exposure))
      /\ Follows(LedgerSnapshot(Advance(exposure, clock)), LedgerSnapshot(exposure))
  BY LedgerGrows
<1>1. ASSUME NEW d \in Demands, NEW now, NEW view, Reserves(d, now, view)
      PROVE  SnapshotsOrdered'
  <2>1. UNCHANGED <<closedReason, runtimeEpoch, sampling>> /\ windows' = windows /\ exposure' = exposure
    BY <1>1 DEF Reserves, Reserve, StaysOpen, samplers, sampling
  <2> QED BY <1>0, <2>1, OrderKept
<1>2. ASSUME NEW id \in DOMAIN reservations, Forwards(id)
      PROVE  SnapshotsOrdered'
  <2>1. /\ UNCHANGED <<closedReason, runtimeEpoch, sampling>> /\ windows' = windows
        /\ exposure' = AddForwarded(exposure, clock, reservations[id].sequences)
    BY <1>2 DEF Forwards, Forward, StaysOpen, HandleFrame, sampling
  <2>2. reservations[id].sequences \in Int
    BY AccountFacts
  <2>3. LedgerSnapshot(exposure') = LedgerSnapshot(Advance(exposure, clock))
    BY <2>1, <2>2, LedgerGrows
  <2> QED BY <1>0, <2>1, <2>3, OrderKept
<1>3. ASSUME NEW id \in DOMAIN reservations, Activates(id)
      PROVE  SnapshotsOrdered'
  <2>1. /\ UNCHANGED <<closedReason, runtimeEpoch, sampling>> /\ windows' = windows
        /\ exposure' = AddResponse(exposure, clock, 1)
    BY <1>3 DEF Activates, Activate, StaysOpen, HandleFrame, sampling
  <2>2. LedgerSnapshot(exposure') = LedgerSnapshot(Advance(exposure, clock))
    BY <2>1, 1 \in Int, LedgerGrows
  <2> QED BY <1>0, <2>1, <2>2, OrderKept
<1>4. ASSUME NEW id \in DOMAIN reservations, NEW cause \in Causes, Ends(id, cause)
      PROVE  SnapshotsOrdered'
  <2> DEFINE f == ForwardedCount(reservations[id])
             n == ResponseCount(reservations[id])
  <2>1. /\ UNCHANGED <<closedReason, runtimeEpoch, sampling>> /\ windows' = windows
        /\ exposure' = IF f = 0 THEN exposure ELSE Remove(exposure, clock, f, n)
    BY <1>4 DEF Ends, End, StaysOpen, HandleFrame, sampling
  <2>2. f \in Int /\ n \in Int
    BY <1>4, EndLedger
  <2> HIDE DEF f, n
  <2>3. \/ LedgerSnapshot(exposure') = LedgerSnapshot(exposure)
        \/ LedgerSnapshot(exposure') = LedgerSnapshot(Advance(exposure, clock))
    BY <2>1, <2>2, LedgerGrows
  <2> QED BY <1>0, <2>1, <2>3, OrderKept
<1> QED BY <1>1, <1>2, <1>3, <1>4

\* Every step keeps the snapshots in order.
LEMMA OrderStep ==
    ASSUME TypeOK, Accounts, WindowEpochsPast, SnapshotsOrdered, [Next]_vars
    PROVE  SnapshotsOrdered'
<1>0. /\ TypeOK' /\ Step
      /\ Follows(LedgerSnapshot(exposure), LedgerSnapshot(exposure))
  BY StepType, StepCases, LedgerGrows
<1>1. CASE UNCHANGED vars
  <2>1. UNCHANGED <<closedReason, runtimeEpoch, sampling>> /\ windows' = windows /\ exposure' = exposure
    BY <1>1 DEF vars, lifecycle, samplers
  <2> QED BY <1>0, <2>1, OrderKept
<1>2. CASE Fails
  <2>1. closedReason' # "none"
    BY <1>2 DEF Fails, FailClosed
  <2> QED BY <2>1 DEF SnapshotsOrdered
<1>3. ASSUME NEW s \in Samplers, Drops(s)
      PROVE  SnapshotsOrdered'
  <2>1. UNCHANGED <<closedReason, runtimeEpoch, sampling>> /\ exposure' = exposure
    BY <1>3 DEF Drops, lifecycle
  <2>2. \A t \in Samplers : windows'[t] = windows[t] \/ windows'[t] = NoWindow
    BY <1>3 DEF Drops, ReleaseWindow, TypeOK, SamplerTypes
  <2> QED BY <1>0, <2>1, <2>2, OrderKept
<1>4. ASSUME NEW r \in References, NEW w \in WindowSizes, NEW l \in RunningLimits,
             NEW a \in Allowances, UpdatePolicy(r, w, l, a)
      PROVE  SnapshotsOrdered'
  <2>1. UNCHANGED <<closedReason, runtimeEpoch, sampling>> /\ windows' = windows /\ exposure' = exposure
    BY <1>4 DEF UpdatePolicy, lifecycle, samplers
  <2> QED BY <1>0, <2>1, OrderKept
<1>5. CASE Tick
  <2>1. UNCHANGED <<closedReason, runtimeEpoch, sampling>> /\ windows' = windows /\ exposure' = exposure
    BY <1>5 DEF Tick, lifecycle, samplers
  <2> QED BY <1>0, <2>1, OrderKept
<1> QED BY <1>0, <1>1, <1>2, <1>3, <1>4, <1>5, RequestOrder, OpenOrder, AcceptOrder, ResetOrder
        DEF Step

\* No window is of a later runtime: the epoch only grows.
LEMMA EpochsStep ==
    ASSUME TypeOK, WindowEpochsPast, [Next]_vars
    PROVE  WindowEpochsPast'
<1>0. /\ Step /\ runtimeEpoch \in Nat
      /\ \A s \in Samplers : windows[s].runtimeEpoch \in Nat /\ windows[s].runtimeEpoch <= runtimeEpoch
  BY StepCases, SnapshotTypes DEF WindowEpochsPast
<1>1. runtimeEpoch' = runtimeEpoch \/ runtimeEpoch' = runtimeEpoch + 1
  <2>1. UNCHANGED vars => runtimeEpoch' = runtimeEpoch
    BY DEF vars
  <2>2. Fails => runtimeEpoch' = runtimeEpoch \/ runtimeEpoch' = runtimeEpoch + 1
    BY DEF Fails, FailClosed
  <2>3. \A s \in Samplers : \A o \in Reports(s) : Resets(s, o) => runtimeEpoch' = runtimeEpoch + 1
    BY DEF Resets, PublishReset
  <2>4. \/ runtimeEpoch' = runtimeEpoch
        \/ Fails \/ \E s \in Samplers : \E o \in Reports(s) : Resets(s, o)
    BY <1>0, <2>1, Zenon DEF Step, Reserves, Reserve, Forwards, Forward, Activates, Activate,
       Ends, End, Opens, OpenWindow, Drops, Accepts, Accept, UpdatePolicy, Tick, StaysOpen
  <2> QED BY <2>2, <2>3, <2>4
<1>2. \A s \in Samplers : \/ windows'[s] = windows[s] \/ windows'[s] = NoWindow
                          \/ windows'[s].runtimeEpoch = runtimeEpoch
  <2>1. (\E s \in Samplers : ReleaseWindow(s)) =>
           \A t \in Samplers : windows'[t] = windows[t] \/ windows'[t] = NoWindow
    BY DEF ReleaseWindow, TypeOK, SamplerTypes
  <2>2. \A s \in Samplers : Opens(s) =>
           \A t \in Samplers : windows'[t] = windows[t] \/ windows'[t].runtimeEpoch = runtimeEpoch
    BY DEF Opens, OpenWindow, TypeOK, SamplerTypes
  <2>3. windows' = windows \/ (\E s \in Samplers : ReleaseWindow(s)) \/ (\E s \in Samplers : Opens(s))
    BY <1>0, Zenon DEF Step, vars, samplers, Fails, Reserves, Forwards, Activates,
       Ends, HandleFrame, Drops, Resets, Accepts, UpdatePolicy, Tick
  <2> QED BY <2>1, <2>2, <2>3
<1> QED BY <1>0, <1>1, <1>2 DEF WindowEpochsPast, NoWindow

-----------------------------------------------------------------------------
(***************************************************************************)
(* NoInternalFailure.                                                      *)
(***************************************************************************)

\* Reconciliation succeeds on exact accounts, whatever was reported.
LEMMA ReconcileSucceeds ==
    ASSUME TypeOK, Accounts, NEW mark, NEW o
    PROVE  ReconcileOK(mark, o)
<1> DEFINE gone  == Settled(mark)
           freed == LeaseReleased(mark, o)
           away  == ReconciledAway(mark, o)
<1>1. /\ ReservationMap(reservations) /\ overlay = SlowOverlay(reservations)
      /\ SequencesOf(reservations, DOMAIN reservations) <= MaxInt64
  BY AccountFacts
<1>2. /\ gone \in SUBSET ResidualIds(reservations) /\ gone \in SUBSET DOMAIN reservations
      /\ ResidualIds(reservations) \in SUBSET DOMAIN reservations
      /\ UnobservedIds(reservations) \in SUBSET DOMAIN reservations
      /\ CoveredIds(mark) \in SUBSET DOMAIN reservations
  BY DEF Settled, ResidualIds, Live, UnobservedIds, CoveredIds
<1>3. freed \in SUBSET UnobservedIds(reservations)
  BY DEF LeaseReleased, UnobservedIds, Unobserved, PendingPhase
<1>4. /\ away.unobservedSequences = SequencesOf(reservations, freed)
      /\ away.sequenceLiabilities = SequencesOf(reservations, gone)
      /\ away.residualDebts = Cardinality(gone)
  BY DEF ReconciledAway
<1>5. ValidOverlay(SubtractOverlay(overlay, away))
  BY <1>1, ReconciledOverlay, SlowOverlayValid
<1> HIDE DEF gone, freed, away
<1>6. /\ Countable(reservations, DOMAIN reservations)
      /\ Countable(reservations, UnobservedIds(reservations))
      /\ IsFiniteSet(ResidualIds(reservations))
      /\ SequencesOf(reservations, CoveredIds(mark)) \in Nat
      /\ SequencesOf(reservations, DOMAIN reservations) \in Nat
  BY <1>1, <1>2, MapCountable
<1>7. SequencesOf(reservations, CoveredIds(mark)) <= MaxInt64
  <2>1. SequencesOf(reservations, CoveredIds(mark)) <= SequencesOf(reservations, DOMAIN reservations)
    BY <1>2, <1>6, SequencesMonotone
  <2> QED BY <1>1, <1>6, <2>1, NumericAssumption
<1>8. ValidOverlay(overlay)
  BY <1>1, SlowOverlayValid
<1>9. away.unobservedSequences <= overlay.unobservedSequences
  BY <1>1, <1>3, <1>4, <1>6, SequencesMonotone DEF SlowOverlay
<1>10. away.sequenceLiabilities <= overlay.sequenceLiabilities
  BY <1>1, <1>2, <1>4, <1>6, SequencesMonotone DEF SlowOverlay
<1>11. away.residualDebts <= overlay.residualDebts
  BY <1>1, <1>2, <1>4, <1>6, FS_Subset DEF SlowOverlay
<1>12. \A i \in DOMAIN reservations : ValidReservation(reservations[i])
  BY DEF Accounts, ReservationsValid
<1> QED BY <1>5, <1>7, <1>8, <1>9, <1>10, <1>11, <1>12 DEF ReconcileOK, away

\* No operation finds its accounting broken.
LEMMA FailureStep ==
    ASSUME TypeOK, Accounts, SnapshotsOrdered, NoInternalFailure, [Next]_vars
    PROVE  NoInternalFailure'
<1>0. /\ ReservationMap(reservations) /\ overlay = SlowOverlay(reservations)
      /\ overlay.sequenceLiabilities <= MaxInt64
      /\ \A i \in DOMAIN reservations :
            reservations[i] \in ReservationType /\ ValidReservation(reservations[i])
      /\ closedReason # "controller_unavailable"
      /\ 0 \in Nat /\ eventSequence + 1 \in Nat
  BY AccountFacts DEF Accounts, LiabilitiesFit, ReservationsValid, NoInternalFailure, TypeOK,
                      LifecycleTypes
<1>1. CASE UNCHANGED vars
  BY <1>0, <1>1 DEF vars, NoInternalFailure
<1>2. ASSUME NEW d \in Demands, NEW now, NEW view, Admit(d, now, view)
      PROVE  NoInternalFailure'
  <2>1. ValidOverlay(Contribution(NewReservation(d)))
    BY NewReservationType, ContributionValid
  <2>2. ReserveFailure(d) # "controller_unavailable"
    BY <2>1 DEF ReserveFailure
  <2> QED BY <1>0, <1>2, <2>2 DEF Admit, Reserve, StaysOpen, FailClosed, NoInternalFailure
<1>3. ASSUME NEW id \in DOMAIN reservations, MarkForwarded(id)
      PROVE  NoInternalFailure'
  <2>1. AddForwardedOK(exposure, clock, reservations[id].sequences)
    BY <1>3, ForwardSucceeds DEF MarkForwarded
  <2> QED BY <1>0, <1>3, <2>1
          DEF MarkForwarded, EventOverflow, FailClosed, Forward, StaysOpen, NoInternalFailure
<1>4. ASSUME NEW id \in DOMAIN reservations, MarkFirstByte(id)
      PROVE  NoInternalFailure'
  <2>1. AddResponseOK(exposure, clock, 1)
    BY <1>4, ActivateSucceeds DEF MarkFirstByte
  <2>2. ReplaceOverlayOK(overlay, Contribution(reservations[id]),
                         Contribution(Activated(reservations[id])))
    <3>1. Activated(reservations[id]) \in ReservationType
      BY <1>0, EventTypes
    <3>2. Activated(reservations[id]).sequences = reservations[id].sequences
      BY <1>0 DEF Activated, ReservationType
    <3> QED BY <1>0, <3>1, <3>2, ReplaceSucceeds
  <2> QED BY <1>0, <1>4, <2>1, <2>2
          DEF MarkFirstByte, EventOverflow, FailClosed, Activate, StaysOpen, NoInternalFailure
<1>5. ASSUME NEW id \in DOMAIN reservations, NEW cause \in Causes, Terminate(id, cause)
      PROVE  NoInternalFailure'
  <2>1. \/ ForwardedCount(reservations[id]) = 0
        \/ RemoveOK(exposure, clock, ForwardedCount(reservations[id]),
                    ResponseCount(reservations[id]))
    BY EndSucceeds
  <2>2. ReplaceOverlayOK(overlay, Contribution(reservations[id]),
                         TerminalContribution(reservations[id], cause))
    <3> DEFINE r == Ended(reservations[id], eventSequence + 1)
    <3>1. r \in ReservationType
      BY <1>0, EventTypes
    <3>2. r.sequences = reservations[id].sequences
      BY <1>0 DEF Ended, ReservationType
    <3>3. /\ ReplaceOverlayOK(overlay, Contribution(reservations[id]), Contribution(r))
          /\ ReplaceOverlayOK(overlay, Contribution(reservations[id]), ZeroOverlay)
      <4> HIDE DEF r
      <4> QED BY <1>0, <3>1, <3>2, ReplaceSucceeds
    <3> QED BY <3>3 DEF TerminalContribution
  <2> QED BY <1>0, <1>5, <2>1, <2>2
          DEF Terminate, EventOverflow, FailClosed, End, StaysOpen, NoInternalFailure
<1>6. ASSUME NEW s \in Samplers, StartSampleWindow(s)
      PROVE  NoInternalFailure'
  <2>1. AdvanceOK(exposure, clock)
    BY AccountFacts, AdvanceSucceeds
  <2> QED BY <1>0, <1>6, <2>1
          DEF StartSampleWindow, OpenWindow, FailClosed, StaysOpen, NoInternalFailure
<1>7. ASSUME NEW s \in Samplers, AbandonWindow(s)
      PROVE  NoInternalFailure'
  BY <1>0, <1>7 DEF AbandonWindow, NoInternalFailure
<1>8. ASSUME NEW s \in Samplers, NEW o \in Reports(s), PublishObservation(s, o)
      PROVE  NoInternalFailure'
  <2>1. CASE PublishRejected(s, o)
    BY <1>0, <2>1 DEF PublishRejected, NoInternalFailure
  <2>2. CASE PublishFatal(s, o)
    BY <1>0, <2>2 DEF PublishFatal, FailClosed, NoInternalFailure
  <2>3. CASE PublishReset(s, o)
    BY <1>0, <2>3 DEF PublishReset, NoInternalFailure
  <2>4. CASE PublishAccepted(s, o)
    <3>1. ReconcileOK(windows[s].eventSequence, o)
      BY ReconcileSucceeds
    <3>2. SubtractSnapshotOK(windows[s].exposure, lastExposure)
      <4>1. /\ closedReason = "none" /\ Current(s)
            /\ windows[s].id > lastPublishedSample
        BY <2>4 DEF PublishAccepted, Acceptable, Publishable, Current
      <4> QED BY <4>1 DEF SnapshotsOrdered, Follows
    <3> QED BY <1>0, <2>4, <3>1, <3>2
            DEF PublishAccepted, Accept, ObserveFails, FailClosed, StaysOpen, NoInternalFailure
  <2> QED BY <1>8, <2>1, <2>2, <2>3, <2>4 DEF PublishObservation
<1>9. ASSUME NEW r \in References, NEW w \in WindowSizes, NEW l \in RunningLimits,
             NEW a \in Allowances, UpdatePolicy(r, w, l, a)
      PROVE  NoInternalFailure'
  BY <1>0, <1>9 DEF UpdatePolicy, NoInternalFailure
<1>10. CASE Close
  BY <1>10 DEF Close, FailClosed, NoInternalFailure
<1>11. CASE Tick
  BY <1>0, <1>11 DEF Tick, NoInternalFailure
<1> QED BY <1>1, <1>2, <1>3, <1>4, <1>5, <1>6, <1>7, <1>8, <1>9, <1>10, <1>11 DEF Next

(***************************************************************************)
(* The controller never closes itself with controller_unavailable: none of *)
(* the checked operations that guard its accounting (addOverlay,           *)
(* subtractOverlay, the ledger's add and remove, a snapshot's subtract,    *)
(* reconciledOverlayLocked) can fail, in any order of handle calls,        *)
(* overlapping polls, resets and policy updates. Inductive with the        *)
(* accounts and the order of the ledger's snapshots.                       *)
(***************************************************************************)
THEOREM NeverFailsInternally == Spec => []NoInternalFailure
<1>1. Init => Accounts /\ WindowEpochsPast /\ SnapshotsOrdered /\ NoInternalFailure
  <2> SUFFICES ASSUME Init
               PROVE  Accounts /\ WindowEpochsPast /\ SnapshotsOrdered /\ NoInternalFailure
    OBVIOUS
  <2>1. Accounts
    BY InitAccounts
  <2>2. /\ \A s \in Samplers : windows[s].id = 0 /\ windows[s].runtimeEpoch = 0
        /\ closedReason = "none" /\ runtimeEpoch = 1 /\ sampleSequence = 0
        /\ lastPublishedSample = 0 /\ lastExposure = ZeroSnapshot /\ exposure = ZeroLedger
    BY InitValues DEF NoWindow
  <2>3. Follows(LedgerSnapshot(exposure), lastExposure)
    BY <2>2 DEF Follows, SubtractSnapshotOK, SubtractSnapshot, ValidSnapshot, LedgerSnapshot,
                ZeroLedger, ZeroSnapshot
  <2>4. SnapshotsOrdered
    BY <2>2, <2>3 DEF SnapshotsOrdered, Current
  <2>5. WindowEpochsPast /\ NoInternalFailure
    BY <2>2 DEF WindowEpochsPast, NoInternalFailure
  <2> QED BY <2>1, <2>4, <2>5
<1>2. /\ TypeOK /\ Accounts /\ WindowEpochsPast /\ SnapshotsOrdered /\ NoInternalFailure
      /\ [Next]_vars
      => (Accounts /\ WindowEpochsPast /\ SnapshotsOrdered /\ NoInternalFailure)'
  BY AccountsStep, EpochsStep, OrderStep, FailureStep
<1> QED BY <1>1, <1>2, TypeCorrect, PTL DEF Spec
=============================================================================
