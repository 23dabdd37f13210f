--------------------- MODULE AdmissionControllerProofs ---------------------
(***************************************************************************)
(* Proofs about the admission controller, for every value of its           *)
(* constants: its types, its totals, and its safety properties. That its   *)
(* accounting never fails is in AdmissionControllerAccounting.             *)
(***************************************************************************)
EXTENDS AdmissionController, FiniteSetTheorems, TLAPS

-----------------------------------------------------------------------------
(***************************************************************************)
(* Counting lemmas: how the totals of a map of reservations change when    *)
(* reservations enter, leave or move between the counted sets.             *)
(***************************************************************************)

\* A map whose reservations in S have a positive fan-out.
Countable(res, S) == IsFiniteSet(S) /\ \A i \in S : res[i].sequences \in 1..MaxInt64

\* The sequences of finitely many reservations are finitely many.
LEMMA SlotsFinite ==
    ASSUME NEW res, NEW S, Countable(res, S)
    PROVE  IsFiniteSet(Slots(res, S)) /\ SequencesOf(res, S) \in Nat
<1>1. Slots(res, S) \subseteq S \X (1..MaxInt64)
  BY NumericAssumption DEF Slots, Countable
<1>2. IsFiniteSet(1..MaxInt64)
  BY FS_Interval, NumericAssumption
<1>3. IsFiniteSet(S \X (1..MaxInt64))
  BY <1>2, FS_Product DEF Countable
<1>4. IsFiniteSet(Slots(res, S))
  BY <1>1, <1>3, FS_Subset
<1> QED BY <1>4, FS_CardinalityType DEF SequencesOf

\* One reservation counts for its fan-out.
LEMMA OneReservation ==
    ASSUME NEW res, NEW i, res[i].sequences \in 1..MaxInt64
    PROVE  /\ IsFiniteSet(Slots(res, {i}))
           /\ SequencesOf(res, {i}) = res[i].sequences
<1> DEFINE n == res[i].sequences
<1>1. n \in Nat /\ n >= 1
  BY NumericAssumption
<1>2. Slots(res, {i}) = {i} \X (1..n)
  BY DEF Slots
<1> HIDE DEF n
<1>3. IsFiniteSet({i}) /\ Cardinality({i}) = 1
  BY FS_Singleton
<1>4. /\ IsFiniteSet(1..n)
      /\ Cardinality(1..n) = IF 1 > n THEN 0 ELSE n - 1 + 1
  BY <1>1, FS_Interval
<1>5. Cardinality(1..n) = n
  BY <1>1, <1>4
<1>6. /\ IsFiniteSet({i} \X (1..n))
      /\ Cardinality({i} \X (1..n)) = Cardinality({i}) * Cardinality(1..n)
  BY <1>3, <1>4, FS_Product
<1>7. Cardinality({i} \X (1..n)) = n
  BY <1>1, <1>3, <1>5, <1>6
<1>8. SequencesOf(res, {i}) = n
  BY <1>2, <1>7 DEF SequencesOf
<1> QED BY <1>2, <1>6, <1>8 DEF n

\* Leaving: what is counted splits between T and the rest.
LEMMA SequencesSplit ==
    ASSUME NEW res, NEW S, NEW T \in SUBSET S, Countable(res, S)
    PROVE  /\ SequencesOf(res, S) = SequencesOf(res, S \ T) + SequencesOf(res, T)
           /\ SequencesOf(res, S \ T) \in Nat /\ SequencesOf(res, T) \in Nat
<1>1. Countable(res, T) /\ Countable(res, S \ T)
  BY FS_Subset DEF Countable
<1>2. /\ IsFiniteSet(Slots(res, T)) /\ SequencesOf(res, T) \in Nat
      /\ IsFiniteSet(Slots(res, S \ T)) /\ SequencesOf(res, S \ T) \in Nat
  BY <1>1, SlotsFinite
<1>3. Slots(res, S) = Slots(res, S \ T) \cup Slots(res, T)
  BY DEF Slots
<1>4. Slots(res, S \ T) \cap Slots(res, T) = {}
  BY DEF Slots
<1>5. Cardinality(Slots(res, S \ T) \cup Slots(res, T))
        = Cardinality(Slots(res, S \ T)) + Cardinality(Slots(res, T))
          - Cardinality(Slots(res, S \ T) \cap Slots(res, T))
  BY <1>2, FS_Union
<1>6. Cardinality({}) = 0
  BY FS_EmptySet
<1>7. Cardinality(Slots(res, S))
        = Cardinality(Slots(res, S \ T)) + Cardinality(Slots(res, T)) - 0
  BY <1>3, <1>4, <1>5, <1>6
<1>8. /\ Cardinality(Slots(res, S \ T)) \in Nat
      /\ Cardinality(Slots(res, T)) \in Nat
  BY <1>2 DEF SequencesOf
<1> QED BY <1>7, <1>8 DEF SequencesOf

\* One reservation leaves.
LEMMA SequencesRemove ==
    ASSUME NEW res, NEW S, NEW i \in S, Countable(res, S)
    PROVE  /\ SequencesOf(res, S \ {i}) = SequencesOf(res, S) - res[i].sequences
           /\ SequencesOf(res, S \ {i}) \in Nat
<1>1. SequencesOf(res, {i}) = res[i].sequences
  BY OneReservation DEF Countable
<1>2. {i} \in SUBSET S
  OBVIOUS
<1>3. /\ SequencesOf(res, S) = SequencesOf(res, S \ {i}) + SequencesOf(res, {i})
      /\ SequencesOf(res, S \ {i}) \in Nat /\ SequencesOf(res, {i}) \in Nat
  BY <1>2, SequencesSplit
<1> QED BY <1>1, <1>3

\* One reservation enters.
LEMMA SequencesAdd ==
    ASSUME NEW res, NEW S, NEW i, i \notin S, Countable(res, S \cup {i})
    PROVE  /\ SequencesOf(res, S \cup {i}) = SequencesOf(res, S) + res[i].sequences
           /\ SequencesOf(res, S) \in Nat
<1>1. (S \cup {i}) \ {i} = S
  OBVIOUS
<1>2. /\ SequencesOf(res, (S \cup {i}) \ {i}) = SequencesOf(res, S \cup {i}) - res[i].sequences
      /\ SequencesOf(res, (S \cup {i}) \ {i}) \in Nat
  BY SequencesRemove
<1>3. SequencesOf(res, S \cup {i}) \in Nat
  BY SlotsFinite
<1>4. res[i].sequences \in Nat
  BY NumericAssumption DEF Countable
<1> QED BY <1>1, <1>2, <1>3, <1>4

\* Only the fan-outs matter.
LEMMA SequencesSame ==
    ASSUME NEW res, NEW other, NEW S, \A i \in S : res[i].sequences = other[i].sequences
    PROVE  SequencesOf(res, S) = SequencesOf(other, S)
<1>1. Slots(res, S) = Slots(other, S)
  BY DEF Slots
<1> QED BY <1>1 DEF SequencesOf

\* A larger set of reservations has at least as many sequences.
LEMMA SequencesMonotone ==
    ASSUME NEW res, NEW S, NEW T \in SUBSET S, Countable(res, S)
    PROVE  SequencesOf(res, T) <= SequencesOf(res, S)
<1>1. /\ SequencesOf(res, S) = SequencesOf(res, S \ T) + SequencesOf(res, T)
      /\ SequencesOf(res, S \ T) \in Nat /\ SequencesOf(res, T) \in Nat
  BY SequencesSplit
<1> QED BY <1>1

\* Every reservation has at least one sequence.
LEMMA AtLeastOneEach ==
    ASSUME NEW res, NEW S, Countable(res, S)
    PROVE  Cardinality(S) \in Nat /\ Cardinality(S) <= SequencesOf(res, S)
<1>1. S \X {1} \subseteq Slots(res, S)
  BY NumericAssumption DEF Slots, Countable
<1>2. IsFiniteSet({1}) /\ Cardinality({1}) = 1
  BY FS_Singleton
<1>3. IsFiniteSet(S) /\ Cardinality(S) \in Nat
  BY FS_CardinalityType DEF Countable
<1>4. Cardinality(S \X {1}) = Cardinality(S) * 1
  BY <1>2, <1>3, FS_Product
<1>5. IsFiniteSet(Slots(res, S))
  BY SlotsFinite
<1>6. Cardinality(S \X {1}) <= Cardinality(Slots(res, S))
  BY <1>1, <1>5, FS_Subset
<1> QED BY <1>3, <1>4, <1>6 DEF SequencesOf

-----------------------------------------------------------------------------
(***************************************************************************)
(* The overlay, one reservation at a time.                                 *)
(***************************************************************************)

\* A finite map of reservations whose fan-outs fit an int64.
ReservationMap(res) ==
    /\ IsFiniteSet(DOMAIN res)
    /\ res \in [DOMAIN res -> ReservationType]

\* Every set of ids of a reservation map can be counted.
LEMMA MapCountable ==
    ASSUME NEW res, ReservationMap(res), NEW S \in SUBSET DOMAIN res
    PROVE  /\ Countable(res, S) /\ IsFiniteSet(S) /\ Cardinality(S) \in Nat
           /\ SequencesOf(res, S) \in Nat
<1>1. IsFiniteSet(S)
  BY FS_Subset DEF ReservationMap
<1>2. \A i \in S : res[i].sequences \in 1..MaxInt64
  BY DEF ReservationMap, ReservationType
<1>3. Countable(res, S)
  BY <1>1, <1>2 DEF Countable
<1> QED BY <1>1, <1>3, FS_CardinalityType, SlotsFinite

\* Dropping a reservation subtracts its contribution from the overlay.
LEMMA SlowOverlayWithout ==
    ASSUME NEW res, ReservationMap(res), NEW id \in DOMAIN res
    PROVE  /\ ReservationMap(Without(res, id))
           /\ SlowOverlay(Without(res, id)) =
                SubtractOverlay(SlowOverlay(res), Contribution(res[id]))
<1> DEFINE less == Without(res, id)
           r    == res[id]
<1>1. DOMAIN less = DOMAIN res \ {id} /\ \A i \in DOMAIN less : less[i] = res[i]
  BY DEF Without
<1>2. ReservationMap(less)
  <2>1. IsFiniteSet(DOMAIN res \ {id})
    BY FS_Subset DEF ReservationMap
  <2>2. less \in [DOMAIN res \ {id} -> ReservationType]
    BY DEF Without, ReservationMap
  <2> QED BY <1>1, <2>1, <2>2 DEF ReservationMap
<1>3. r.sequences \in Nat
  BY NumericAssumption DEF ReservationMap, ReservationType
<1>4. ASSUME NEW S \in SUBSET DOMAIN res
      PROVE  SequencesOf(less, S \ {id}) =
               SequencesOf(res, S) - (IF id \in S THEN r.sequences ELSE 0)
  <2>1. SequencesOf(less, S \ {id}) = SequencesOf(res, S \ {id})
    BY <1>1, SequencesSame
  <2>2. Countable(res, S) /\ SequencesOf(res, S) \in Nat
    BY MapCountable
  <2>3. CASE id \in S
    BY <2>1, <2>2, <2>3, SequencesRemove
  <2>4. CASE id \notin S
    <3>1. S \ {id} = S
      BY <2>4
    <3> QED BY <2>1, <2>2, <2>4, <3>1
  <2> QED BY <2>3, <2>4
<1>5. ASSUME NEW S \in SUBSET DOMAIN res
      PROVE  Cardinality(S \ {id}) = Cardinality(S) - (IF id \in S THEN 1 ELSE 0)
  <2>1. IsFiniteSet(S) /\ Cardinality(S) \in Nat
    BY MapCountable
  <2>2. CASE id \in S
    BY <2>1, <2>2, FS_RemoveElement
  <2>3. CASE id \notin S
    <3>1. S \ {id} = S
      BY <2>3
    <3>2. Cardinality(S \ {id}) = Cardinality(S) /\ Cardinality(S) = Cardinality(S) - 0
      BY <2>1, <3>1
    <3> QED BY <2>3, <3>2
  <2> QED BY <2>2, <2>3
<1>6. /\ UnobservedIds(less) = UnobservedIds(res) \ {id}
      /\ LiveIds(less) = LiveIds(res) \ {id}
      /\ ResidualIds(less) = ResidualIds(res) \ {id}
      /\ ColdIds(less) = ColdIds(res) \ {id}
  BY <1>1 DEF UnobservedIds, LiveIds, ResidualIds, ColdIds
<1>7. /\ UnobservedIds(res) \in SUBSET DOMAIN res /\ LiveIds(res) \in SUBSET DOMAIN res
      /\ ResidualIds(res) \in SUBSET DOMAIN res /\ ColdIds(res) \in SUBSET DOMAIN res
      /\ id \in UnobservedIds(res) <=> Unobserved(r)
      /\ id \in LiveIds(res) <=> Live(r)
      /\ id \in ResidualIds(res) <=> ~Live(r)
      /\ id \in ColdIds(res) <=> ColdPending(r)
  BY DEF UnobservedIds, LiveIds, ResidualIds, ColdIds
<1> HIDE DEF less, r
<1>8. SequencesOf(less, UnobservedIds(less)) =
        SequencesOf(res, UnobservedIds(res)) - (IF Unobserved(r) THEN r.sequences ELSE 0)
  BY <1>4, <1>6, <1>7
<1>9. SequencesOf(less, DOMAIN less) = SequencesOf(res, DOMAIN res) - r.sequences
  BY <1>1, <1>4
<1>10. Cardinality(LiveIds(less)) = Cardinality(LiveIds(res)) - (IF Live(r) THEN 1 ELSE 0)
  BY <1>5, <1>6, <1>7
<1>11. Cardinality(ResidualIds(less)) =
         Cardinality(ResidualIds(res)) - (IF Live(r) THEN 0 ELSE 1)
  BY <1>5, <1>6, <1>7
<1>12. Cardinality(ColdIds(less)) =
         Cardinality(ColdIds(res)) - (IF ColdPending(r) THEN 1 ELSE 0)
  BY <1>5, <1>6, <1>7
<1>13. SlowOverlay(less) = SubtractOverlay(SlowOverlay(res), Contribution(r))
  BY <1>8, <1>9, <1>10, <1>11, <1>12 DEF SlowOverlay, SubtractOverlay, Contribution
<1> QED BY <1>2, <1>13 DEF less, r

\* The contribution of a reservation is an overlay.
LEMMA ContributionType ==
    ASSUME NEW r \in ReservationType
    PROVE  Contribution(r) \in OverlayType
BY NumericAssumption DEF ReservationType, OverlayType, Contribution

\* Overlay arithmetic stays in the overlays.
LEMMA OverlayArithmeticType ==
    ASSUME NEW a \in OverlayType, NEW b \in OverlayType
    PROVE  AddOverlay(a, b) \in OverlayType /\ SubtractOverlay(a, b) \in OverlayType
BY DEF OverlayType, AddOverlay, SubtractOverlay

\* The scanned overlay's totals are naturals.
LEMMA SlowOverlayType ==
    ASSUME NEW res, ReservationMap(res)
    PROVE  /\ SlowOverlay(res) \in
                [unobservedSequences : Nat, sequenceLiabilities : Nat, liveReservations : Nat,
                 residualDebts : Nat, coldSheddablePending : Nat]
           /\ SlowOverlay(res) \in OverlayType
<1>1. /\ UnobservedIds(res) \in SUBSET DOMAIN res /\ LiveIds(res) \in SUBSET DOMAIN res
      /\ ResidualIds(res) \in SUBSET DOMAIN res /\ ColdIds(res) \in SUBSET DOMAIN res
  BY DEF UnobservedIds, LiveIds, ResidualIds, ColdIds
<1>2. /\ SequencesOf(res, UnobservedIds(res)) \in Nat /\ SequencesOf(res, DOMAIN res) \in Nat
      /\ Cardinality(LiveIds(res)) \in Nat /\ Cardinality(ResidualIds(res)) \in Nat
      /\ Cardinality(ColdIds(res)) \in Nat
  BY <1>1, MapCountable
<1> QED BY <1>2 DEF SlowOverlay, OverlayType

\* A new reservation adds its contribution to the overlay.
LEMMA SlowOverlayWith ==
    ASSUME NEW res, ReservationMap(res), NEW id, id \notin DOMAIN res,
           NEW r \in ReservationType
    PROVE  /\ ReservationMap(With(res, id, r))
           /\ SlowOverlay(With(res, id, r)) = AddOverlay(SlowOverlay(res), Contribution(r))
<1> DEFINE more == With(res, id, r)
<1>1. /\ DOMAIN more = DOMAIN res \cup {id} /\ id \in DOMAIN more /\ more[id] = r
      /\ \A i \in DOMAIN res : more[i] = res[i]
  BY DEF With
<1>2. ReservationMap(more)
  <2>1. IsFiniteSet(DOMAIN res \cup {id})
    BY FS_AddElement DEF ReservationMap
  <2>2. more \in [DOMAIN res \cup {id} -> ReservationType]
    BY DEF With, ReservationMap
  <2> QED BY <1>1, <2>1, <2>2 DEF ReservationMap
<1>3. Without(more, id) = res
  <2>1. DOMAIN more \ {id} = DOMAIN res
    BY <1>1
  <2>2. \A i \in DOMAIN res : more[i] = res[i]
    BY <1>1
  <2>3. res = [i \in DOMAIN res |-> res[i]]
    BY DEF ReservationMap
  <2> HIDE DEF more
  <2> QED BY <2>1, <2>2, <2>3 DEF Without
<1> HIDE DEF more
<1>4. SlowOverlay(res) = SubtractOverlay(SlowOverlay(more), Contribution(r))
  BY <1>1, <1>2, <1>3, SlowOverlayWithout
<1>5. SlowOverlay(more) \in OverlayType /\ Contribution(r) \in OverlayType
  BY <1>2, SlowOverlayType, ContributionType
<1>6. ASSUME NEW a \in OverlayType, NEW b \in OverlayType
      PROVE  AddOverlay(SubtractOverlay(a, b), b) = a
  BY DEF OverlayType, AddOverlay, SubtractOverlay
<1>7. SlowOverlay(more) = AddOverlay(SlowOverlay(res), Contribution(r))
  BY <1>4, <1>5, <1>6
<1> QED BY <1>2, <1>7 DEF more

\* Replacing a reservation replaces its contribution.
LEMMA SlowOverlayReplace ==
    ASSUME NEW res, ReservationMap(res), NEW id \in DOMAIN res,
           NEW r \in ReservationType
    PROVE  /\ ReservationMap([res EXCEPT ![id] = r])
           /\ SlowOverlay([res EXCEPT ![id] = r]) =
                ReplaceOverlay(SlowOverlay(res), Contribution(res[id]), Contribution(r))
<1>1. /\ ReservationMap(Without(res, id))
      /\ SlowOverlay(Without(res, id)) =
           SubtractOverlay(SlowOverlay(res), Contribution(res[id]))
  BY SlowOverlayWithout
<1>2. id \notin DOMAIN Without(res, id)
  BY DEF Without
<1>3. /\ ReservationMap(With(Without(res, id), id, r))
      /\ SlowOverlay(With(Without(res, id), id, r)) =
           AddOverlay(SlowOverlay(Without(res, id)), Contribution(r))
  BY <1>1, <1>2, SlowOverlayWith
<1>4. With(Without(res, id), id, r) = [res EXCEPT ![id] = r]
  BY DEF With, Without, ReservationMap
<1> QED BY <1>1, <1>3, <1>4 DEF ReplaceOverlay

(***************************************************************************)
(* Reconciliation drops some residual debts (gone) and marks some pending  *)
(* reservations released (freed), leaving the rest of each as it is.       *)
(***************************************************************************)
LEMMA SlowOverlayReconcile ==
    ASSUME NEW res, ReservationMap(res), NEW new, ReservationMap(new),
           NEW gone \in SUBSET ResidualIds(res), NEW freed \in SUBSET UnobservedIds(res),
           DOMAIN new = DOMAIN res \ gone,
           \A i \in DOMAIN new :
              /\ new[i].sequences = res[i].sequences
              /\ new[i].phase = res[i].phase
              /\ new[i].coldSheddable = res[i].coldSheddable
              /\ new[i].pendingFirstByteReleased <=>
                   (i \in freed \/ res[i].pendingFirstByteReleased)
    PROVE  SlowOverlay(new) =
             SubtractOverlay(SlowOverlay(res),
                 [unobservedSequences  |-> SequencesOf(res, freed),
                  sequenceLiabilities  |-> SequencesOf(res, gone),
                  liveReservations     |-> 0,
                  residualDebts        |-> Cardinality(gone),
                  coldSheddablePending |-> 0])
<1>1. /\ UnobservedIds(res) \in SUBSET DOMAIN res /\ LiveIds(res) \in SUBSET DOMAIN res
      /\ ResidualIds(res) \in SUBSET DOMAIN res /\ ColdIds(res) \in SUBSET DOMAIN res
      /\ gone \in SUBSET DOMAIN res /\ freed \in SUBSET DOMAIN res
  BY DEF UnobservedIds, LiveIds, ResidualIds, ColdIds
<1>2. /\ \A i \in gone : res[i].phase = "residual"
      /\ \A i \in freed : Unobserved(res[i])
  BY DEF ResidualIds, UnobservedIds, Live
<1>3. UnobservedIds(new) = UnobservedIds(res) \ freed
  BY <1>2 DEF UnobservedIds, Unobserved, PendingPhase
<1>4. LiveIds(new) = LiveIds(res)
  BY <1>2 DEF LiveIds, Live
<1>5. ResidualIds(new) = ResidualIds(res) \ gone
  BY <1>2 DEF ResidualIds, Live
<1>6. ColdIds(new) = ColdIds(res)
  BY <1>2 DEF ColdIds, ColdPending, PendingPhase
<1>7. SequencesOf(new, UnobservedIds(new)) =
        SequencesOf(res, UnobservedIds(res)) - SequencesOf(res, freed)
  <2>1. UnobservedIds(new) \in SUBSET DOMAIN new
    BY DEF UnobservedIds
  <2>2. SequencesOf(new, UnobservedIds(new)) = SequencesOf(res, UnobservedIds(res) \ freed)
    BY <1>3, <2>1, SequencesSame
  <2>3. Countable(res, UnobservedIds(res))
    BY <1>1, MapCountable
  <2>4. /\ SequencesOf(res, UnobservedIds(res)) =
             SequencesOf(res, UnobservedIds(res) \ freed) + SequencesOf(res, freed)
        /\ SequencesOf(res, UnobservedIds(res) \ freed) \in Nat
        /\ SequencesOf(res, freed) \in Nat
    BY <2>3, SequencesSplit
  <2> QED BY <2>2, <2>4
<1>8. SequencesOf(new, DOMAIN new) = SequencesOf(res, DOMAIN res) - SequencesOf(res, gone)
  <2>1. SequencesOf(new, DOMAIN new) = SequencesOf(res, DOMAIN res \ gone)
    BY SequencesSame
  <2>2. Countable(res, DOMAIN res)
    BY MapCountable
  <2>3. /\ SequencesOf(res, DOMAIN res) =
             SequencesOf(res, DOMAIN res \ gone) + SequencesOf(res, gone)
        /\ SequencesOf(res, DOMAIN res \ gone) \in Nat /\ SequencesOf(res, gone) \in Nat
    BY <1>1, <2>2, SequencesSplit
  <2> QED BY <2>1, <2>3
<1>9. Cardinality(ResidualIds(new)) = Cardinality(ResidualIds(res)) - Cardinality(gone)
  <2>1. IsFiniteSet(ResidualIds(res))
    BY <1>1, MapCountable
  <2>2. ResidualIds(res) \cap gone = gone
    OBVIOUS
  <2> QED BY <1>5, <2>1, <2>2, FS_Difference
<1>10. Cardinality(LiveIds(res)) \in Nat /\ Cardinality(ColdIds(res)) \in Nat
  BY <1>1, MapCountable
<1> QED BY <1>4, <1>6, <1>7, <1>8, <1>9, <1>10 DEF SlowOverlay, SubtractOverlay

-----------------------------------------------------------------------------
(***************************************************************************)
(* Types.                                                                  *)
(***************************************************************************)

\* The zero values are of their types.
LEMMA ZeroTypes ==
    /\ DOMAIN NoReservations = {} /\ NoReservations \in [{} -> ReservationType]
    /\ ZeroOverlay \in OverlayType
    /\ ZeroLedger \in LedgerType
    /\ ZeroSnapshot \in SnapshotType
    /\ NoEvidence \in EvidenceType
    /\ NoObservation \in ObservationType
    /\ NoWindow \in WindowType
<1>1. DOMAIN NoReservations = {} /\ NoReservations \in [{} -> ReservationType]
  BY DEF NoReservations
<1>2. ZeroOverlay \in OverlayType
  BY DEF ZeroOverlay, OverlayType
<1>3. ZeroLedger \in LedgerType
  BY DEF ZeroLedger, LedgerType
<1>4. ZeroSnapshot \in SnapshotType
  BY DEF ZeroSnapshot, SnapshotType
<1>5. NoEvidence \in EvidenceType
  BY ControllerAssumption DEF NoEvidence, EvidenceType
<1>6. NoObservation \in ObservationType
  BY DEF NoObservation, ObservationType
<1>7. NoWindow \in WindowType
  BY <1>4 DEF NoWindow, WindowType
<1> QED BY <1>1, <1>2, <1>3, <1>4, <1>5, <1>6, <1>7

\* Charging elapsed time keeps a ledger a ledger.
LEMMA AdvanceType ==
    ASSUME NEW l \in LedgerType, NEW now \in Nat
    PROVE  Advance(l, now) \in LedgerType
<1>1. Elapsed(l, now) \in Int
  BY DEF LedgerType, Elapsed
<1>2. Elapsed(l, now) * l.forwarded \in Int /\ Elapsed(l, now) * l.response \in Int
  BY <1>1 DEF LedgerType
<1> QED BY <1>2 DEF LedgerType, Advance

\* Configured and patched policies are policies.
LEMMA PolicyOfType ==
    ASSUME NEW n \in Nat, NEW r \in References, NEW w \in WindowSizes,
           NEW l \in RunningLimits, NEW a \in Allowances
    PROVE  PolicyOf(n, r, w, l, a) \in PolicyType
<1>1. r \in Nat /\ w \in Nat /\ l \in Nat /\ a \in Nat
  BY ControllerAssumption
<1> QED BY <1>1 DEF PolicyOf, PolicyType

\* The initial state is well typed.
LEMMA InitType == Init => TypeOK
<1> SUFFICES ASSUME Init PROVE TypeOK
  OBVIOUS
<1>1. /\ clock = 1 /\ closedReason = "none" /\ runtimeEpoch = 1 /\ eventSequence = 0
      /\ reservations = NoReservations /\ nextReservationID = 0
      /\ overlay = ZeroOverlay /\ exposure = ZeroLedger
      /\ sampleSequence = 0 /\ lastPublishedSample = 0 /\ lastExposure = ZeroSnapshot
      /\ observationSequence = 0 /\ observation = NoObservation
      /\ tpsPolicyEpoch = 1 /\ tps = NoEvidence
      /\ windows = [s \in Samplers |-> NoWindow] /\ watermark = 0
      /\ unseen = [s \in Samplers |-> {}]
  BY DEF Init
<1>2. PICK r \in References, w \in WindowSizes, l \in RunningLimits, a \in Allowances :
         policy = PolicyOf(1, r, w, l, a)
  BY DEF Init
<1>3. policy \in PolicyType
  BY <1>2, PolicyOfType
<1>4. /\ IntakeTypes /\ ObservedTypes /\ SamplingTypes /\ tps \in EvidenceType
  <2>1. IntakeTypes
    BY <1>1 DEF IntakeTypes, Reasons
  <2>2. ObservedTypes
    BY <1>1, ZeroTypes DEF ObservedTypes
  <2>3. SamplingTypes /\ tps \in EvidenceType
    BY <1>1, ZeroTypes DEF SamplingTypes
  <2> QED BY <2>1, <2>2, <2>3
<1>5. SamplerTypes
  BY <1>1, ZeroTypes DEF SamplerTypes
<1>6. LifecycleTypes
  BY <1>1, ZeroTypes DEF LifecycleTypes
<1>7. PolicyTypes
  BY <1>1, <1>3 DEF PolicyTypes
<1> QED BY <1>4, <1>5, <1>6, <1>7 DEF TypeOK

\* Untouched variables keep their types.
LEMMA Untouched ==
    ASSUME TypeOK
    PROVE  /\ UNCHANGED observed => ObservedTypes'
           /\ UNCHANGED policyVars => PolicyTypes'
           /\ UNCHANGED samplers => SamplerTypes'
           /\ UNCHANGED lifecycle => LifecycleTypes'
           /\ UNCHANGED sampling => SamplingTypes'
           /\ UNCHANGED <<clock, closedReason, runtimeEpoch>> => IntakeTypes'
BY DEF TypeOK, observed, policyVars, samplers, lifecycle, sampling, ObservedTypes,
       PolicyTypes, SamplerTypes, LifecycleTypes, SamplingTypes, IntakeTypes

\* What an event makes of a reservation, field by field.
LEMMA EventTypes ==
    ASSUME NEW r \in ReservationType, NEW now \in Nat, NEW n \in Nat
    PROVE  /\ Forwarded(r, now, n) \in ReservationType
           /\ Activated(r) \in ReservationType
           /\ Ended(r, n) \in ReservationType
           /\ LeaseEnded(r) \in ReservationType
<1>1. Forwarded(r, now, n) \in ReservationType
  BY DEF Forwarded, ReservationType, Phases
<1>2. Activated(r) \in ReservationType
  BY DEF Activated, ReservationType, Phases
<1>3. Ended(r, n) \in ReservationType
  BY DEF Ended, ReservationType, Phases
<1>4. LeaseEnded(r) \in ReservationType
  BY DEF LeaseEnded, ReservationType
<1> QED BY <1>1, <1>2, <1>3, <1>4

\* An admitted demand makes a reservation.
LEMMA NewReservationType ==
    ASSUME TypeOK, NEW d \in Demands
    PROVE  NewReservation(d) \in ReservationType
BY ControllerAssumption DEF TypeOK, IntakeTypes, NewReservation, ReservationType, DemandType,
   Phases, ColdSheddable, PromptAware, Sheddable, Warm

\* The ledger operations make ledgers.
LEMMA LedgerTypes ==
    ASSUME NEW l \in LedgerType, NEW now \in Nat, NEW n \in Int, NEW m \in Int
    PROVE  /\ AddForwarded(l, now, n) \in LedgerType
           /\ AddResponse(l, now, n) \in LedgerType
           /\ Remove(l, now, n, m) \in LedgerType
           /\ LedgerSnapshot(l) \in SnapshotType
<1>1. Advance(l, now) \in LedgerType
  BY AdvanceType
<1>2. AddForwarded(l, now, n) \in LedgerType
  BY <1>1 DEF AddForwarded, LedgerType
<1>3. AddResponse(l, now, n) \in LedgerType
  BY <1>1 DEF AddResponse, LedgerType
<1>4. Remove(l, now, n, m) \in LedgerType
  <2> DEFINE a == Advance(l, now)
  <2>1. a.forwarded - n \in Int /\ a.response - m \in Int
    BY <1>1 DEF LedgerType
  <2> HIDE DEF a
  <2>2. [a EXCEPT !.forwarded = a.forwarded - n] \in LedgerType
    BY <1>1, <2>1 DEF LedgerType, a
  <2>3. [[a EXCEPT !.forwarded = a.forwarded - n] EXCEPT !.response = a.response - m] \in LedgerType
    BY <2>1, <2>2 DEF LedgerType
  <2> QED BY <2>3 DEF Remove, a, LedgerType
<1>5. LedgerSnapshot(l) \in SnapshotType
  BY DEF LedgerSnapshot, SnapshotType, LedgerType
<1> QED BY <1>2, <1>3, <1>4, <1>5

-----------------------------------------------------------------------------
(***************************************************************************)
(* The cases of a step. Every failure of every operation has the same      *)
(* effect, so the proofs below split Next by effect: a failure, or one of  *)
(* the ways an operation succeeds.                                         *)
(***************************************************************************)
Fails ==
    /\ \E reason \in Reasons \ {"none"} : FailClosed(reason)
    /\ eventSequence' \in {eventSequence, eventSequence + 1}
    /\ UNCHANGED samplers \/ \E s \in Samplers : ReleaseWindow(s)
    /\ UNCHANGED lastPublishedSample \/ \E s \in Samplers : lastPublishedSample' = windows[s].id
    /\ UNCHANGED <<clock, nextReservationID, sampleSequence, observed, policyVars>>

Reserves(d, now, view) ==
    /\ StateAvailable(now) /\ Admits(Projected(view), d, policy)
    /\ ReserveFailure(d) = "none" /\ Reserve(d)
    /\ UNCHANGED <<clock, sampleSequence, lastPublishedSample, observed, policyVars, samplers>>

Forwards(id) ==
    /\ Reachable(id) /\ reservations[id].phase = "reserved"
    /\ eventSequence' = eventSequence + 1
    /\ Forward(id) /\ HandleFrame

Activates(id) ==
    /\ Reachable(id) /\ reservations[id].phase = "forwarded"
    /\ eventSequence' = eventSequence + 1
    /\ Activate(id) /\ HandleFrame

Ends(id, cause) ==
    /\ Reachable(id) /\ reservations[id].phase # "residual"
    /\ eventSequence' = eventSequence + 1
    /\ End(id, cause) /\ HandleFrame

Opens(s) ==
    /\ closedReason = "none" /\ windows[s].id = 0
    /\ OpenWindow(s)
    /\ UNCHANGED <<clock, eventSequence, nextReservationID, lastPublishedSample, observed, policyVars>>

Drops(s) ==
    /\ ReleaseWindow(s)
    /\ UNCHANGED <<clock, closedReason, runtimeEpoch, lifecycle, sampling, observed, policyVars, tps>>

Resets(s, o) ==
    PublishReset(s, o) /\ ReleaseWindow(s) /\ UNCHANGED <<clock, policyVars>>

Accepts(s, o) ==
    /\ Acceptable(s, o) /\ ~RuntimeReset(o)
    /\ Accept(windows[s], o) /\ ReleaseWindow(s)
    /\ UNCHANGED <<clock, eventSequence, nextReservationID, sampleSequence, policyVars>>

\* The next-state relation, by effect.
Step ==
    \/ UNCHANGED vars
    \/ Fails
    \/ \E d \in Demands, lag \in 0..ClockLag, view \in Views : Reserves(d, clock - lag, view)
    \/ \E id \in DOMAIN reservations : Forwards(id)
    \/ \E id \in DOMAIN reservations : Activates(id)
    \/ \E id \in DOMAIN reservations, cause \in Causes : Ends(id, cause)
    \/ \E s \in Samplers : Opens(s)
    \/ \E s \in Samplers : Drops(s)
    \/ \E s \in Samplers : \E o \in Reports(s) : Resets(s, o)
    \/ \E s \in Samplers : \E o \in Reports(s) : Accepts(s, o)
    \/ \E r \in References, w \in WindowSizes, l \in RunningLimits, a \in Allowances :
          UpdatePolicy(r, w, l, a)
    \/ Tick

\* The reasons an operation gives when it fails.
LEMMA FailureReasons ==
    ASSUME NEW d
    PROVE  /\ ReserveFailure(d) \in Reasons
           /\ {"controller_unavailable", "counter_overflow", "runtime_identity_drift",
               "closed"} \subseteq Reasons \ {"none"}
BY DEF ReserveFailure, Reasons

\* Every step of the controller is one of the cases.
LEMMA StepCases ==
    ASSUME [Next]_vars
    PROVE  Step
<1>1. CASE UNCHANGED vars
  BY <1>1 DEF Step
<1>2. CASE Next
  <2>1. ASSUME NEW d \in Demands, NEW lag \in 0..ClockLag, NEW view \in Views,
               Admit(d, clock - lag, view)
        PROVE  Step
    <3>1. CASE ReserveFailure(d) = "none"
      <4>1. Reserves(d, clock - lag, view)
        BY <2>1, <3>1 DEF Admit, Reserves
      <4> QED BY <4>1 DEF Step
    <3>2. CASE ReserveFailure(d) # "none"
      <4>1. ReserveFailure(d) \in Reasons \ {"none"}
        BY <3>2, FailureReasons
      <4>2. Fails
        BY <2>1, <3>2, <4>1 DEF Admit, Fails
      <4> QED BY <4>2 DEF Step
    <3> QED BY <3>1, <3>2
  <2>2. ASSUME NEW id \in DOMAIN reservations, MarkForwarded(id)
        PROVE  Step
    <3>1. Forwards(id) \/ Fails
      BY <2>2, FailureReasons DEF MarkForwarded, Forwards, Fails, EventOverflow, HandleFrame, samplers
    <3> QED BY <3>1 DEF Step
  <2>3. ASSUME NEW id \in DOMAIN reservations, MarkFirstByte(id)
        PROVE  Step
    <3>1. Activates(id) \/ Fails
      BY <2>3, FailureReasons DEF MarkFirstByte, Activates, Fails, EventOverflow, HandleFrame, samplers
    <3> QED BY <3>1 DEF Step
  <2>4. ASSUME NEW id \in DOMAIN reservations, NEW cause \in Causes, Terminate(id, cause)
        PROVE  Step
    <3>1. Ends(id, cause) \/ Fails
      BY <2>4, FailureReasons DEF Terminate, Ends, Fails, EventOverflow, HandleFrame, samplers
    <3> QED BY <3>1 DEF Step
  <2>5. ASSUME NEW s \in Samplers, StartSampleWindow(s)
        PROVE  Step
    <3>1. Opens(s) \/ Fails
      BY <2>5, FailureReasons DEF StartSampleWindow, Opens, Fails
    <3> QED BY <3>1 DEF Step
  <2>6. ASSUME NEW s \in Samplers, AbandonWindow(s)
        PROVE  Step
    <3>1. Drops(s)
      BY <2>6 DEF AbandonWindow, Drops
    <3> QED BY <3>1 DEF Step
  <2>7. ASSUME NEW s \in Samplers, NEW o \in Reports(s), PublishObservation(s, o)
        PROVE  Step
    <3>1. CASE PublishRejected(s, o)
      <4>1. Drops(s)
        BY <2>7, <3>1 DEF PublishObservation, PublishRejected, Drops
      <4> QED BY <4>1 DEF Step
    <3>2. CASE PublishFatal(s, o)
      <4>1. Fails
        BY <2>7, <3>2, FailureReasons DEF PublishObservation, PublishFatal, Fails
      <4> QED BY <4>1 DEF Step
    <3>3. CASE PublishReset(s, o)
      <4>1. Resets(s, o)
        BY <2>7, <3>3 DEF PublishObservation, Resets
      <4> QED BY <4>1 DEF Step
    <3>4. CASE PublishAccepted(s, o)
      <4>1. /\ Acceptable(s, o) /\ ~RuntimeReset(o) /\ ReleaseWindow(s)
            /\ UNCHANGED <<clock, policyVars, eventSequence, nextReservationID, sampleSequence>>
        BY <2>7, <3>4 DEF PublishObservation, PublishAccepted
      <4>2. CASE Accept(windows[s], o)
        <5>1. Accepts(s, o)
          BY <4>1, <4>2 DEF Accepts
        <5> QED BY <5>1 DEF Step
      <4>3. CASE ObserveFails(windows[s], o)
        <5>1. Fails
          BY <4>1, <4>3, FailureReasons DEF ObserveFails, Fails
        <5> QED BY <5>1 DEF Step
      <4>4. CASE FailClosed("controller_unavailable") /\ UNCHANGED <<lastPublishedSample, observed>>
        <5>1. Fails
          BY <4>1, <4>4, FailureReasons DEF Fails
        <5> QED BY <5>1 DEF Step
      <4> QED BY <3>4, <4>2, <4>3, <4>4 DEF PublishAccepted
    <3> QED BY <2>7, <3>1, <3>2, <3>3, <3>4 DEF PublishObservation
  <2>8. ASSUME NEW r \in References, NEW w \in WindowSizes, NEW l \in RunningLimits,
               NEW a \in Allowances, UpdatePolicy(r, w, l, a)
        PROVE  Step
    BY <2>8 DEF Step
  <2>9. CASE Close
    <3>1. Fails
      BY <2>9, FailureReasons DEF Close, Fails
    <3> QED BY <3>1 DEF Step
  <2>10. CASE Tick
    BY <2>10 DEF Step
  <2> QED BY <1>2, <2>1, <2>2, <2>3, <2>4, <2>5, <2>6, <2>7, <2>8, <2>9, <2>10 DEF Next
<1> QED BY <1>1, <1>2

-----------------------------------------------------------------------------
\* A released window is no window.
LEMMA ReleaseType ==
    ASSUME TypeOK, NEW s \in Samplers, ReleaseWindow(s)
    PROVE  SamplerTypes'
<1>1. windows' \in [Samplers -> WindowType]
  BY ZeroTypes DEF ReleaseWindow, TypeOK, SamplerTypes
<1>2. unseen' \in [Samplers -> SUBSET Nat]
  BY DEF ReleaseWindow, TypeOK, SamplerTypes
<1> QED BY <1>1, <1>2 DEF SamplerTypes

\* A failure leaves well-typed zeros.
LEMMA FailsType ==
    ASSUME TypeOK, Fails
    PROVE  TypeOK'
<1>1. PICK reason \in Reasons \ {"none"} : FailClosed(reason)
  BY DEF Fails
<1>2. IntakeTypes'
  BY <1>1 DEF TypeOK, IntakeTypes, FailClosed, Fails
<1>3. /\ DOMAIN reservations' \subseteq 1..nextReservationID'
      /\ reservations' \in [DOMAIN reservations' -> ReservationType]
  BY <1>1, ZeroTypes DEF FailClosed
<1>4. overlay' \in OverlayType /\ exposure' \in LedgerType
  BY <1>1, ZeroTypes DEF FailClosed
<1>5. nextReservationID' \in Nat /\ eventSequence' \in Nat
  BY DEF TypeOK, LifecycleTypes, Fails
<1>6. LifecycleTypes'
  BY <1>3, <1>4, <1>5 DEF LifecycleTypes
<1>7. SamplingTypes' /\ tps' \in EvidenceType
  <2>1. sampleSequence' \in Nat /\ lastPublishedSample' \in Nat
    BY DEF Fails, TypeOK, SamplingTypes, SamplerTypes, WindowType
  <2> QED BY <1>1, <2>1, ZeroTypes DEF FailClosed, SamplingTypes
<1>8. ObservedTypes' /\ PolicyTypes'
  BY Untouched DEF Fails
<1>9. SamplerTypes'
  BY Untouched, ReleaseType DEF Fails
<1> QED BY <1>2, <1>6, <1>7, <1>8, <1>9 DEF TypeOK

\* A changed reservation map keeps its type when the changed entry has it.
LEMMA EntryType ==
    ASSUME TypeOK, NEW id \in DOMAIN reservations, NEW r \in ReservationType,
           reservations' = [reservations EXCEPT ![id] = r],
           UNCHANGED nextReservationID
    PROVE  /\ DOMAIN reservations' \subseteq 1..nextReservationID'
           /\ reservations' \in [DOMAIN reservations' -> ReservationType]
           /\ nextReservationID' \in Nat
BY DEF TypeOK, LifecycleTypes

\* The history of unseen ids stays a set of ids.
LEMMA NotSeenType ==
    ASSUME TypeOK, NEW id \in DOMAIN reservations, UNCHANGED windows,
           unseen' = NotSeen(id)
    PROVE  SamplerTypes'
<1>1. id \in Nat
  BY DEF TypeOK, LifecycleTypes
<1>2. unseen' \in [Samplers -> SUBSET Nat]
  BY <1>1 DEF TypeOK, SamplerTypes, NotSeen
<1> QED BY <1>2 DEF TypeOK, SamplerTypes

\* The cases of a step that a request's own calls make.
LEMMA RequestType ==
    ASSUME TypeOK
    PROVE  /\ \A d \in Demands : \A now, view : Reserves(d, now, view) => TypeOK'
           /\ \A id \in DOMAIN reservations : Forwards(id) => TypeOK'
           /\ \A id \in DOMAIN reservations : Activates(id) => TypeOK'
           /\ \A id \in DOMAIN reservations, cause \in Causes : Ends(id, cause) => TypeOK'
<1>0. eventSequence + 1 \in Nat /\ clock \in Nat
  BY DEF TypeOK, LifecycleTypes, IntakeTypes
<1>1. ASSUME NEW d \in Demands, NEW now, NEW view, Reserves(d, now, view)
      PROVE  TypeOK'
  <2>0. Reserve(d) /\ NewReservation(d) \in ReservationType
    BY <1>1, NewReservationType DEF Reserves
  <2>1. DOMAIN reservations' \subseteq 1..nextReservationID'
    BY <2>0 DEF Reserve, With, TypeOK, LifecycleTypes
  <2>2. reservations' \in [DOMAIN reservations' -> ReservationType]
    BY <2>0 DEF Reserve, With, TypeOK, LifecycleTypes
  <2>3. overlay' \in OverlayType
    BY <2>0, ContributionType, OverlayArithmeticType DEF Reserve, TypeOK, LifecycleTypes
  <2>4. eventSequence' \in Nat /\ nextReservationID' \in Nat /\ exposure' \in LedgerType
    BY <2>0 DEF Reserve, TypeOK, LifecycleTypes
  <2>5. LifecycleTypes'
    BY <2>1, <2>2, <2>3, <2>4 DEF LifecycleTypes
  <2>6. IntakeTypes' /\ SamplingTypes' /\ tps' \in EvidenceType
    BY <1>1, <2>0 DEF Reserve, StaysOpen, Reserves, TypeOK, IntakeTypes, SamplingTypes
  <2>7. ObservedTypes' /\ PolicyTypes' /\ SamplerTypes'
    BY <1>1, Untouched DEF Reserves
  <2> QED BY <2>5, <2>6, <2>7 DEF TypeOK
<1>2. ASSUME NEW id \in DOMAIN reservations, StaysOpen, HandleFrame,
             UNCHANGED <<lastExposure, tps>>
      PROVE  /\ IntakeTypes' /\ SamplingTypes' /\ ObservedTypes' /\ PolicyTypes'
             /\ tps' \in EvidenceType
             /\ reservations[id] \in ReservationType /\ Contribution(reservations[id]) \in OverlayType
             /\ reservations[id].sequences \in Int
             /\ windows' = windows
  <2>1. IntakeTypes' /\ SamplingTypes' /\ tps' \in EvidenceType
    BY <1>2 DEF StaysOpen, HandleFrame, TypeOK, IntakeTypes, SamplingTypes
  <2>2. ObservedTypes' /\ PolicyTypes' /\ windows' = windows
    BY <1>2, Untouched DEF HandleFrame
  <2>3. reservations[id] \in ReservationType
    BY DEF TypeOK, LifecycleTypes
  <2>4. reservations[id].sequences \in Int
    BY <2>3, NumericAssumption DEF ReservationType
  <2> QED BY <2>1, <2>2, <2>3, <2>4, ContributionType
<1>3. ASSUME NEW id \in DOMAIN reservations, Forwards(id)
      PROVE  TypeOK'
  <2>1. Forward(id) /\ HandleFrame /\ StaysOpen /\ UNCHANGED <<overlay, lastExposure, tps>>
    BY <1>3 DEF Forwards, Forward
  <2>2. /\ IntakeTypes' /\ SamplingTypes' /\ ObservedTypes' /\ PolicyTypes'
        /\ tps' \in EvidenceType /\ windows' = windows
        /\ reservations[id] \in ReservationType /\ reservations[id].sequences \in Int
    BY <1>2, <2>1
  <2>3. /\ DOMAIN reservations' \subseteq 1..nextReservationID'
        /\ reservations' \in [DOMAIN reservations' -> ReservationType]
        /\ nextReservationID' \in Nat
    <3>1. Forwarded(reservations[id], clock, eventSequence + 1) \in ReservationType
      BY <1>0, <2>2, EventTypes
    <3>2. /\ reservations' =
               [reservations EXCEPT ![id] = Forwarded(reservations[id], clock, eventSequence + 1)]
          /\ UNCHANGED nextReservationID
      BY <2>1 DEF Forward, HandleFrame
    <3> QED BY <3>1, <3>2, EntryType
  <2>4. exposure' \in LedgerType
    BY <1>0, <2>1, <2>2, LedgerTypes DEF Forward, TypeOK, LifecycleTypes
  <2>5. LifecycleTypes'
    BY <1>0, <1>3, <2>1, <2>3, <2>4 DEF LifecycleTypes, TypeOK, Forwards
  <2>6. SamplerTypes'
    BY <2>1, <2>2, NotSeenType DEF Forward
  <2> QED BY <2>2, <2>5, <2>6 DEF TypeOK
<1>4. ASSUME NEW id \in DOMAIN reservations, Activates(id)
      PROVE  TypeOK'
  <2>1. Activate(id) /\ HandleFrame /\ StaysOpen /\ UNCHANGED <<lastExposure, tps, unseen>>
    BY <1>4 DEF Activates, Activate
  <2>2. /\ IntakeTypes' /\ SamplingTypes' /\ ObservedTypes' /\ PolicyTypes'
        /\ tps' \in EvidenceType /\ windows' = windows
        /\ reservations[id] \in ReservationType
        /\ Contribution(reservations[id]) \in OverlayType
    BY <1>2, <2>1
  <2>3. Activated(reservations[id]) \in ReservationType
    BY <1>0, <2>2, EventTypes
  <2>4. /\ DOMAIN reservations' \subseteq 1..nextReservationID'
        /\ reservations' \in [DOMAIN reservations' -> ReservationType]
        /\ nextReservationID' \in Nat
    <3>1. /\ reservations' = [reservations EXCEPT ![id] = Activated(reservations[id])]
          /\ UNCHANGED nextReservationID
      BY <2>1 DEF Activate, HandleFrame
    <3> QED BY <2>3, <3>1, EntryType
  <2>5. exposure' \in LedgerType
    <3>1. exposure \in LedgerType /\ 1 \in Int
      BY DEF TypeOK, LifecycleTypes
    <3>2. AddResponse(exposure, clock, 1) \in LedgerType
      BY <1>0, <3>1, LedgerTypes
    <3> QED BY <2>1, <3>2 DEF Activate
  <2>6. overlay' \in OverlayType
    BY <2>1, <2>2, <2>3, ContributionType, OverlayArithmeticType
       DEF Activate, ReplaceOverlay, TypeOK, LifecycleTypes
  <2>7. LifecycleTypes'
    BY <1>0, <1>4, <2>4, <2>5, <2>6 DEF LifecycleTypes, Activates
  <2>8. SamplerTypes'
    BY <2>1, <2>2, Untouched DEF samplers
  <2> QED BY <2>2, <2>7, <2>8 DEF TypeOK
<1>5. ASSUME NEW id \in DOMAIN reservations, NEW cause \in Causes, Ends(id, cause)
      PROVE  TypeOK'
  <2>1. End(id, cause) /\ HandleFrame /\ StaysOpen /\ UNCHANGED <<lastExposure, tps>>
    BY <1>5 DEF Ends, End
  <2>2. /\ IntakeTypes' /\ SamplingTypes' /\ ObservedTypes' /\ PolicyTypes'
        /\ tps' \in EvidenceType /\ windows' = windows
        /\ reservations[id] \in ReservationType /\ reservations[id].sequences \in Int
        /\ Contribution(reservations[id]) \in OverlayType
    BY <1>2, <2>1
  <2>3. Ended(reservations[id], eventSequence + 1) \in ReservationType
    BY <1>0, <2>2, EventTypes
  <2>4. /\ DOMAIN reservations' \subseteq 1..nextReservationID'
        /\ reservations' \in [DOMAIN reservations' -> ReservationType]
        /\ nextReservationID' \in Nat
    <3>1. UNCHANGED nextReservationID
      BY <2>1 DEF HandleFrame
    <3>2. CASE RemovedOnTerminate(reservations[id], cause)
      BY <2>1, <3>1, <3>2 DEF End, Without, TypeOK, LifecycleTypes
    <3>3. CASE ~RemovedOnTerminate(reservations[id], cause)
      <4>1. reservations' =
              [reservations EXCEPT ![id] = Ended(reservations[id], eventSequence + 1)]
        BY <2>1, <3>3 DEF End
      <4> QED BY <2>3, <3>1, <4>1, EntryType
    <3> QED BY <3>2, <3>3
  <2>5. exposure' \in LedgerType
    <3>1. /\ ForwardedCount(reservations[id]) \in Int /\ ResponseCount(reservations[id]) \in Int
      BY <2>2 DEF ForwardedCount, ResponseCount
    <3> QED BY <1>0, <2>1, <3>1, LedgerTypes DEF End, TypeOK, LifecycleTypes
  <2>6. overlay' \in OverlayType
    <3>1. TerminalContribution(reservations[id], cause) \in OverlayType
      BY <2>3, ContributionType, ZeroTypes DEF TerminalContribution
    <3> QED BY <2>1, <2>2, <3>1, OverlayArithmeticType
            DEF End, ReplaceOverlay, TypeOK, LifecycleTypes
  <2>7. LifecycleTypes'
    BY <1>0, <1>5, <2>4, <2>5, <2>6 DEF LifecycleTypes, Ends
  <2>8. SamplerTypes'
    BY <2>1, <2>2, NotSeenType DEF End
  <2> QED BY <2>2, <2>7, <2>8 DEF TypeOK
<1> QED BY <1>1, <1>3, <1>4, <1>5

\* A well-typed state holds a finite map of reservations.
LEMMA TypeMap ==
    ASSUME TypeOK
    PROVE  ReservationMap(reservations)
<1>1. IsFiniteSet(1..nextReservationID)
  BY FS_Interval DEF TypeOK, LifecycleTypes
<1>2. IsFiniteSet(DOMAIN reservations)
  BY <1>1, FS_Subset DEF TypeOK, LifecycleTypes
<1> QED BY <1>2 DEF ReservationMap, TypeOK, LifecycleTypes

\* What a sampler reports is well typed.
LEMMA ReportType ==
    ASSUME TypeOK, NEW s \in Samplers, NEW o \in Reports(s)
    PROVE  /\ o.observedAt \in Nat /\ o.running \in Nat /\ o.waiting \in Nat
           /\ o.generation \in Nat /\ o.preemptions \in Nat /\ o.startTime \in Nat
           /\ windows[s] \in WindowType
<1>1. windows[s] \in WindowType
  BY DEF TypeOK, SamplerTypes
<1>2. windows[s].openedAt \in Nat
  BY <1>1 DEF WindowType
<1>3. o.observedAt \in Nat
  BY <1>2 DEF TypeOK, IntakeTypes, Reports
<1>4. /\ o.running \in RunningValues /\ o.waiting \in WaitingValues
      /\ o.generation \in Generations /\ o.preemptions \in Preemptions
      /\ o.startTime \in StartTimes
  BY DEF Reports
<1> QED BY <1>1, <1>3, <1>4, ControllerAssumption

\* Storing a report stores an observation.
LEMMA StoreType ==
    ASSUME TypeOK, NEW s \in Samplers, NEW o \in Reports(s), NEW p \in BOOLEAN,
           Store(windows[s], o, p)
    PROVE  ObservedTypes'
<1>1. observation' \in ObservationType
  BY ReportType DEF Store, ObservationType
<1>2. watermark' \in Nat
  BY ReportType DEF Store, WindowType
<1>3. observationSequence' \in Nat
  BY DEF Store, TypeOK, ObservedTypes
<1> QED BY <1>1, <1>2, <1>3 DEF ObservedTypes

\* The TPS evidence after an observation is evidence.
LEMMA ObserveTPSType ==
    ASSUME TypeOK, NEW s \in Samplers, NEW o \in Reports(s)
    PROVE  ObserveTPS(windows[s], o) \in EvidenceType
<1>1. tps \in EvidenceType /\ windows[s] \in WindowType
  BY ReportType DEF TypeOK
<1>2. windows[s].runtimeEpoch \in Nat /\ windows[s].tpsPolicyEpoch \in Nat
  BY <1>1 DEF WindowType
<1>3. (IF tps.samples < MinimumSamples THEN tps.samples + 1 ELSE tps.samples) \in 0..MinimumSamples
  BY <1>1, ControllerAssumption DEF EvidenceType
<1>4. ASSUME NEW b \in BOOLEAN
      PROVE  [samples |-> IF tps.samples < MinimumSamples THEN tps.samples + 1 ELSE tps.samples,
              qualified |-> TRUE, recovered |-> b, epoch |-> windows[s].runtimeEpoch,
              policyEpoch |-> windows[s].tpsPolicyEpoch] \in EvidenceType
  BY <1>2, <1>3 DEF EvidenceType
<1>5. [tps EXCEPT !.qualified = FALSE, !.recovered = FALSE] \in EvidenceType
  BY <1>1 DEF EvidenceType
<1>6. Counted(windows[s], o) \in EvidenceType
  <2>1. Recovers(windows[s], o) \in BOOLEAN
    BY DEF Recovers
  <2> QED BY <1>4, <1>5, <2>1 DEF Counted
<1> QED BY <1>1, <1>6 DEF ObserveTPS

\* Reconciliation keeps a subset of the reservations.
LEMMA ReconciledType ==
    ASSUME TypeOK, NEW mark, NEW o
    PROVE  /\ DOMAIN Reconciled(mark, o) = DOMAIN reservations \ Settled(mark)
           /\ Reconciled(mark, o) \in [DOMAIN reservations \ Settled(mark) -> ReservationType]
<1>1. \A i \in DOMAIN reservations : reservations[i] \in ReservationType
  BY DEF TypeOK, LifecycleTypes
<1>2. \A i \in DOMAIN reservations : LeaseEnded(reservations[i]) \in ReservationType
  <2> TAKE i \in DOMAIN reservations
  <2> QED BY <1>1, EventTypes, 0 \in Nat
<1> QED BY <1>1, <1>2 DEF Reconciled

\* The cases of a step that a sampler makes.
LEMMA SamplerType ==
    ASSUME TypeOK, NEW s \in Samplers
    PROVE  /\ Opens(s) => TypeOK'
           /\ Drops(s) => TypeOK'
           /\ \A o \in Reports(s) : Resets(s, o) => TypeOK'
           /\ \A o \in Reports(s) : Accepts(s, o) => TypeOK'
<1>1. ASSUME Opens(s)
      PROVE  TypeOK'
  <2>1. OpenWindow(s) /\ StaysOpen
    BY <1>1 DEF Opens, OpenWindow
  <2>2. /\ clock \in Nat /\ runtimeEpoch \in Nat /\ tpsPolicyEpoch \in Nat
        /\ eventSequence \in Nat /\ sampleSequence + 1 \in Nat /\ 0 \in Int
        /\ exposure \in LedgerType
    BY DEF TypeOK, IntakeTypes, PolicyTypes, LifecycleTypes, SamplingTypes
  <2>3. Advance(exposure, clock) \in LedgerType
    BY <2>2, AdvanceType
  <2>4. LedgerSnapshot(Advance(exposure, clock)) \in SnapshotType
    BY <2>2, <2>3, LedgerTypes
  <2>5. windows' \in [Samplers -> WindowType]
    <3> DEFINE w == [id |-> sampleSequence + 1, runtimeEpoch |-> runtimeEpoch,
                     tpsPolicyEpoch |-> tpsPolicyEpoch, eventSequence |-> eventSequence,
                     exposure |-> LedgerSnapshot(Advance(exposure, clock)),
                     openedAt |-> clock]
    <3>1. w \in WindowType
      BY <2>2, <2>4 DEF WindowType
    <3>2. windows' = [windows EXCEPT ![s] = w]
      BY <2>1 DEF OpenWindow
    <3> HIDE DEF w
    <3> QED BY <3>1, <3>2 DEF TypeOK, SamplerTypes
  <2>6. unseen' \in [Samplers -> SUBSET Nat]
    BY <2>1 DEF OpenWindow, TypeOK, SamplerTypes
  <2>7. LifecycleTypes'
    BY <1>1, <2>1, <2>3 DEF Opens, OpenWindow, TypeOK, LifecycleTypes
  <2>8. IntakeTypes' /\ SamplingTypes' /\ tps' \in EvidenceType
    BY <1>1, <2>1, <2>2 DEF Opens, OpenWindow, StaysOpen, TypeOK, IntakeTypes, SamplingTypes
  <2>9. ObservedTypes' /\ PolicyTypes'
    BY <1>1, Untouched DEF Opens
  <2> QED BY <2>5, <2>6, <2>7, <2>8, <2>9 DEF TypeOK, SamplerTypes
<1>2. ASSUME Drops(s)
      PROVE  TypeOK'
  <2>1. SamplerTypes'
    BY <1>2, ReleaseType DEF Drops
  <2>2. /\ IntakeTypes' /\ LifecycleTypes' /\ SamplingTypes' /\ ObservedTypes'
        /\ PolicyTypes' /\ tps' \in EvidenceType
    BY <1>2, Untouched DEF Drops, TypeOK
  <2> QED BY <2>1, <2>2 DEF TypeOK
<1>3. ASSUME NEW o \in Reports(s), Resets(s, o)
      PROVE  TypeOK'
  <2>1. PublishReset(s, o) /\ ReleaseWindow(s) /\ UNCHANGED clock /\ UNCHANGED policyVars
    BY <1>3 DEF Resets
  <2>2. SamplerTypes' /\ PolicyTypes'
    BY <2>1, ReleaseType, Untouched
  <2>3. ObservedTypes'
    BY <2>1, StoreType DEF PublishReset
  <2>4. /\ DOMAIN reservations' \subseteq 1..nextReservationID'
        /\ reservations' \in [DOMAIN reservations' -> ReservationType]
        /\ overlay' \in OverlayType /\ exposure' \in LedgerType
        /\ lastExposure' \in SnapshotType /\ tps' \in EvidenceType
    BY <2>1, ZeroTypes DEF PublishReset
  <2>5. LifecycleTypes' /\ SamplingTypes'
    BY <2>1, <2>4 DEF PublishReset, TypeOK, LifecycleTypes, SamplingTypes
  <2>6. IntakeTypes'
    BY <2>1 DEF PublishReset, TypeOK, IntakeTypes
  <2> QED BY <2>2, <2>3, <2>4, <2>5, <2>6 DEF TypeOK
<1>4. ASSUME NEW o \in Reports(s), Accepts(s, o)
      PROVE  TypeOK'
  <2> DEFINE mark == windows[s].eventSequence
  <2>1. /\ Accept(windows[s], o) /\ ReleaseWindow(s) /\ StaysOpen
        /\ UNCHANGED <<clock, eventSequence, nextReservationID, sampleSequence, exposure>>
        /\ UNCHANGED policyVars
    BY <1>4 DEF Accepts, Accept
  <2>2. SamplerTypes' /\ PolicyTypes'
    BY <2>1, ReleaseType, Untouched
  <2>3. ObservedTypes'
    <3>1. (HasObservation /\ o.preemptions > observation.preemptions) \in BOOLEAN
      OBVIOUS
    <3> QED BY <2>1, <3>1, StoreType DEF Accept
  <2>4. /\ reservations' = Reconciled(mark, o)
        /\ overlay' = SubtractOverlay(overlay, ReconciledAway(mark, o))
    BY <2>1 DEF Accept
  <2>5. /\ DOMAIN reservations' \subseteq 1..nextReservationID'
        /\ reservations' \in [DOMAIN reservations' -> ReservationType]
    BY <2>1, <2>4, ReconciledType DEF TypeOK, LifecycleTypes
  <2>6. overlay' \in OverlayType
    <3>1. ReconciledAway(mark, o) \in OverlayType
      <4>1. ReservationMap(reservations)
        BY TypeMap
      <4>2. /\ LeaseReleased(mark, o) \in SUBSET DOMAIN reservations
            /\ Settled(mark) \in SUBSET DOMAIN reservations
        BY DEF LeaseReleased, Settled
      <4>3. /\ SequencesOf(reservations, LeaseReleased(mark, o)) \in Nat
            /\ SequencesOf(reservations, Settled(mark)) \in Nat
            /\ Cardinality(Settled(mark)) \in Nat
        BY <4>1, <4>2, MapCountable
      <4> QED BY <4>3 DEF ReconciledAway, OverlayType
    <3> QED BY <2>4, <3>1, OverlayArithmeticType DEF TypeOK, LifecycleTypes
  <2>7. LifecycleTypes'
    BY <2>1, <2>5, <2>6 DEF TypeOK, LifecycleTypes
  <2>8. windows[s] \in WindowType
    BY ReportType
  <2>9. lastPublishedSample' \in Nat /\ lastExposure' \in SnapshotType
    BY <2>1, <2>8 DEF Accept, WindowType
  <2>10. SamplingTypes' /\ IntakeTypes'
    BY <2>1, <2>9 DEF TypeOK, SamplingTypes, IntakeTypes, StaysOpen
  <2>11. tps' \in EvidenceType
    BY <2>1, ObserveTPSType DEF Accept
  <2> QED BY <2>2, <2>3, <2>7, <2>10, <2>11 DEF TypeOK
<1> QED BY <1>1, <1>2, <1>3, <1>4

\* The controller's variables keep their types.
LEMMA StepType ==
    ASSUME TypeOK, [Next]_vars
    PROVE  TypeOK'
<1>1. Step
  BY StepCases
<1>2. CASE UNCHANGED vars
  <2>1. /\ UNCHANGED lifecycle /\ UNCHANGED sampling /\ UNCHANGED observed
        /\ UNCHANGED policyVars /\ UNCHANGED samplers /\ UNCHANGED tps
        /\ UNCHANGED <<clock, closedReason, runtimeEpoch>>
    BY <1>2 DEF vars
  <2> QED BY <2>1, Untouched DEF TypeOK
<1>3. ASSUME NEW r \in References, NEW w \in WindowSizes, NEW l \in RunningLimits,
             NEW a \in Allowances, UpdatePolicy(r, w, l, a)
      PROVE  TypeOK'
  <2>1. policy.revision + 1 \in Nat /\ tpsPolicyEpoch \in Nat
    BY DEF TypeOK, PolicyTypes, PolicyType
  <2>2. policy' \in PolicyType
    BY <1>3, <2>1, PolicyOfType DEF UpdatePolicy
  <2>3. tpsPolicyEpoch' \in Nat /\ tps' \in EvidenceType
    BY <1>3, <2>1, ZeroTypes DEF UpdatePolicy, TypeOK
  <2>4. /\ UNCHANGED lifecycle /\ UNCHANGED sampling /\ UNCHANGED observed
        /\ UNCHANGED samplers /\ UNCHANGED <<clock, closedReason, runtimeEpoch>>
    BY <1>3 DEF UpdatePolicy
  <2> QED BY <2>2, <2>3, <2>4, Untouched DEF TypeOK, PolicyTypes
<1>4. CASE Tick
  <2>1. /\ UNCHANGED lifecycle /\ UNCHANGED sampling /\ UNCHANGED observed
        /\ UNCHANGED policyVars /\ UNCHANGED samplers /\ UNCHANGED tps
    BY <1>4 DEF Tick
  <2>2. IntakeTypes'
    BY <1>4 DEF Tick, TypeOK, IntakeTypes
  <2> QED BY <2>1, <2>2, Untouched DEF TypeOK
<1> QED BY <1>1, <1>2, <1>3, <1>4, FailsType, RequestType, SamplerType DEF Step

(***************************************************************************)
(* Type correctness, for every value of the constants: every variable      *)
(* keeps its type through every interleaving of requests, samplers, policy *)
(* updates, resets and closures.                                           *)
(***************************************************************************)
THEOREM TypeCorrect == Spec => []TypeOK
<1>1. Init => TypeOK
  BY InitType
<1>2. TypeOK /\ [Next]_vars => TypeOK'
  BY StepType
<1> QED BY <1>1, <1>2, PTL DEF Spec

-----------------------------------------------------------------------------
(***************************************************************************)
(* The safety invariants, by induction over the cases of a step.           *)
(***************************************************************************)
\* What the initial state sets, without the policy.
LEMMA InitValues ==
    ASSUME Init
    PROVE  /\ reservations = NoReservations /\ overlay = ZeroOverlay
           /\ exposure = ZeroLedger /\ lastExposure = ZeroSnapshot
           /\ runtimeEpoch = 1 /\ closedReason = "none" /\ eventSequence = 0
           /\ sampleSequence = 0 /\ lastPublishedSample = 0 /\ watermark = 0
           /\ tps = NoEvidence /\ windows = [s \in Samplers |-> NoWindow]
           /\ clock = 1 /\ unseen = [s \in Samplers |-> {}]
BY DEF Init

\* Steps that leave the reservations and their totals alone.
Idle == UNCHANGED <<reservations, overlay>>

\* The cases of a step, by what they do to the reservations.
LEMMA ReservationCases ==
    ASSUME [Next]_vars
    PROVE  \/ Idle
           \/ reservations' = NoReservations /\ overlay' = ZeroOverlay
           \/ \E d \in Demands, lag \in 0..ClockLag, view \in Views :
                 Reserves(d, clock - lag, view)
           \/ \E id \in DOMAIN reservations : Forwards(id)
           \/ \E id \in DOMAIN reservations : Activates(id)
           \/ \E id \in DOMAIN reservations, cause \in Causes : Ends(id, cause)
           \/ \E s \in Samplers : \E o \in Reports(s) : Accepts(s, o)
<1>1. Step
  BY StepCases
<1>2. UNCHANGED vars => Idle
  BY DEF vars, lifecycle, Idle
<1>3. Fails => reservations' = NoReservations /\ overlay' = ZeroOverlay
  BY DEF Fails, FailClosed
<1>4. \A s \in Samplers : (Opens(s) => Idle) /\ (Drops(s) => Idle)
  BY DEF Opens, OpenWindow, Drops, lifecycle, Idle
<1>5. \A s \in Samplers : \A o \in Reports(s) :
         Resets(s, o) => reservations' = NoReservations /\ overlay' = ZeroOverlay
  BY DEF Resets, PublishReset
<1>6. \A r \in References, w \in WindowSizes, l \in RunningLimits, a \in Allowances :
         UpdatePolicy(r, w, l, a) => Idle
  BY DEF UpdatePolicy, lifecycle, Idle
<1>7. Tick => Idle
  BY DEF Tick, lifecycle, Idle
<1> QED BY <1>1, <1>2, <1>3, <1>4, <1>5, <1>6, <1>7 DEF Step

-----------------------------------------------------------------------------
(***************************************************************************)
(* OverlayExact.                                                           *)
(***************************************************************************)

\* No reservations, no overlay.
LEMMA SlowOverlayEmpty == SlowOverlay(NoReservations) = ZeroOverlay
<1>1. DOMAIN NoReservations = {}
  BY ZeroTypes
<1>2. /\ UnobservedIds(NoReservations) = {} /\ LiveIds(NoReservations) = {}
      /\ ResidualIds(NoReservations) = {} /\ ColdIds(NoReservations) = {}
  BY <1>1 DEF UnobservedIds, LiveIds, ResidualIds, ColdIds
<1>3. Slots(NoReservations, {}) = {}
  BY DEF Slots
<1>4. Cardinality({}) = 0
  BY FS_EmptySet
<1> QED BY <1>1, <1>2, <1>3, <1>4 DEF SlowOverlay, SequencesOf, ZeroOverlay

\* Overlay arithmetic: taking away and putting back, and putting back nothing.
LEMMA OverlayCancels ==
    ASSUME NEW a \in OverlayType, NEW b \in OverlayType
    PROVE  ReplaceOverlay(a, b, b) = a /\ ReplaceOverlay(a, b, ZeroOverlay) = SubtractOverlay(a, b)
BY DEF OverlayType, ReplaceOverlay, AddOverlay, SubtractOverlay, ZeroOverlay

\* Forwarding does not change what a reservation contributes.
LEMMA ForwardedContribution ==
    ASSUME NEW r \in ReservationType, r.phase = "reserved", NEW now, NEW n
    PROVE  Contribution(Forwarded(r, now, n)) = Contribution(r)
<1>1. /\ Forwarded(r, now, n).phase = "forwarded"
      /\ Forwarded(r, now, n).sequences = r.sequences
      /\ Forwarded(r, now, n).coldSheddable = r.coldSheddable
      /\ Forwarded(r, now, n).pendingFirstByteReleased = r.pendingFirstByteReleased
  BY DEF Forwarded, ReservationType
<1> QED BY <1>1 DEF Contribution, Unobserved, Live, ColdPending, PendingPhase

\* Reconciliation takes out what the settled debts and released leases
\* contributed.
LEMMA ReconciledOverlay ==
    ASSUME TypeOK, NEW mark, NEW o
    PROVE  /\ ReservationMap(Reconciled(mark, o))
           /\ SlowOverlay(Reconciled(mark, o)) =
                SubtractOverlay(SlowOverlay(reservations), ReconciledAway(mark, o))
<1> DEFINE gone  == Settled(mark)
           freed == LeaseReleased(mark, o)
           new   == Reconciled(mark, o)
<1>1. ReservationMap(reservations) /\ \A i \in DOMAIN reservations : reservations[i] \in ReservationType
  BY TypeMap DEF TypeOK, LifecycleTypes
<1>2. DOMAIN new = DOMAIN reservations \ gone /\ new \in [DOMAIN new -> ReservationType]
  BY ReconciledType
<1>3. ReservationMap(new)
  <2>1. IsFiniteSet(DOMAIN new)
    BY <1>1, <1>2, FS_Subset DEF ReservationMap
  <2> QED BY <1>2, <2>1 DEF ReservationMap
<1>4. gone \in SUBSET ResidualIds(reservations)
  BY DEF Settled, ResidualIds, Live
<1>5. freed \in SUBSET UnobservedIds(reservations)
  BY DEF LeaseReleased, UnobservedIds, Unobserved, PendingPhase
<1>6. \A i \in DOMAIN new :
         /\ new[i].sequences = reservations[i].sequences
         /\ new[i].phase = reservations[i].phase
         /\ new[i].coldSheddable = reservations[i].coldSheddable
         /\ new[i].pendingFirstByteReleased <=>
              (i \in freed \/ reservations[i].pendingFirstByteReleased)
  <2> TAKE i \in DOMAIN new
  <2>1. i \in DOMAIN reservations \ gone /\ reservations[i] \in ReservationType
    BY <1>1, <1>2
  <2>2. new[i] = IF i \in freed THEN LeaseEnded(reservations[i]) ELSE reservations[i]
    BY <2>1 DEF Reconciled
  <2>3. /\ LeaseEnded(reservations[i]).sequences = reservations[i].sequences
        /\ LeaseEnded(reservations[i]).phase = reservations[i].phase
        /\ LeaseEnded(reservations[i]).coldSheddable = reservations[i].coldSheddable
        /\ LeaseEnded(reservations[i]).pendingFirstByteReleased = TRUE
    BY <2>1 DEF LeaseEnded, ReservationType
  <2> HIDE DEF new, freed, gone
  <2> QED BY <2>2, <2>3
<1>7. ReconciledAway(mark, o) =
        [unobservedSequences  |-> SequencesOf(reservations, freed),
         sequenceLiabilities  |-> SequencesOf(reservations, gone),
         liveReservations     |-> 0,
         residualDebts        |-> Cardinality(gone),
         coldSheddablePending |-> 0]
  BY DEF ReconciledAway
<1> HIDE DEF new, freed, gone
<1>8. SlowOverlay(new) = SubtractOverlay(SlowOverlay(reservations), ReconciledAway(mark, o))
  <2>1. DOMAIN new = DOMAIN reservations \ gone
    BY <1>2
  <2>2. SlowOverlay(new) =
          SubtractOverlay(SlowOverlay(reservations),
              [unobservedSequences  |-> SequencesOf(reservations, freed),
               sequenceLiabilities  |-> SequencesOf(reservations, gone),
               liveReservations     |-> 0,
               residualDebts        |-> Cardinality(gone),
               coldSheddablePending |-> 0])
    BY <1>1, <1>3, <1>4, <1>5, <1>6, <2>1, SlowOverlayReconcile, Zenon
  <2> QED BY <1>7, <2>2
<1> QED BY <1>3, <1>8 DEF new

\* A publication keeps the overlay exact.
LEMMA AcceptOverlay ==
    ASSUME TypeOK, OverlayExact, NEW s \in Samplers, NEW o \in Reports(s), Accepts(s, o)
    PROVE  OverlayExact'
<1> DEFINE mark == windows[s].eventSequence
<1>1. /\ reservations' = Reconciled(mark, o)
      /\ overlay' = SubtractOverlay(overlay, ReconciledAway(mark, o))
  BY DEF Accepts, Accept
<1> HIDE DEF mark
<1> QED BY <1>1, ReconciledOverlay DEF OverlayExact

\* Every step keeps the overlay exact.
LEMMA OverlayStep ==
    ASSUME TypeOK, OverlayExact, [Next]_vars
    PROVE  OverlayExact'
<1>0. /\ ReservationMap(reservations) /\ clock \in Nat /\ eventSequence + 1 \in Nat
      /\ \A i \in DOMAIN reservations : reservations[i] \in ReservationType
  BY TypeMap DEF TypeOK, LifecycleTypes, IntakeTypes
<1>1. CASE Idle
  BY <1>1 DEF Idle, OverlayExact
<1>2. CASE reservations' = NoReservations /\ overlay' = ZeroOverlay
  BY <1>2, SlowOverlayEmpty DEF OverlayExact
<1>3. ASSUME NEW d \in Demands, NEW now, NEW view, Reserves(d, now, view)
      PROVE  OverlayExact'
  <2>1. /\ overlay' = AddOverlay(overlay, Contribution(NewReservation(d)))
        /\ reservations' = With(reservations, nextReservationID + 1, NewReservation(d))
    BY <1>3 DEF Reserves, Reserve
  <2>2. nextReservationID + 1 \notin DOMAIN reservations
    BY DEF TypeOK, LifecycleTypes
  <2>3. NewReservation(d) \in ReservationType
    BY NewReservationType
  <2> QED BY <1>0, <2>1, <2>2, <2>3, SlowOverlayWith DEF OverlayExact
<1>4. ASSUME NEW id \in DOMAIN reservations, Forwards(id)
      PROVE  OverlayExact'
  <2> DEFINE r == Forwarded(reservations[id], clock, eventSequence + 1)
  <2>1. reservations' = [reservations EXCEPT ![id] = r] /\ overlay' = overlay
    BY <1>4 DEF Forwards, Forward
  <2>2. r \in ReservationType
    BY <1>0, EventTypes
  <2>3. Contribution(r) = Contribution(reservations[id])
    BY <1>0, <1>4, ForwardedContribution DEF Forwards
  <2>4. SlowOverlay(reservations) \in OverlayType /\ Contribution(reservations[id]) \in OverlayType
    BY <1>0, SlowOverlayType, ContributionType
  <2> HIDE DEF r
  <2>5. SlowOverlay(reservations') =
          ReplaceOverlay(SlowOverlay(reservations), Contribution(reservations[id]), Contribution(r))
    BY <1>0, <2>1, <2>2, SlowOverlayReplace
  <2> QED BY <2>1, <2>3, <2>4, <2>5, OverlayCancels DEF OverlayExact
<1>5. ASSUME NEW id \in DOMAIN reservations, Activates(id)
      PROVE  OverlayExact'
  <2>1. /\ reservations' = [reservations EXCEPT ![id] = Activated(reservations[id])]
        /\ overlay' = ReplaceOverlay(overlay, Contribution(reservations[id]),
                                     Contribution(Activated(reservations[id])))
    BY <1>5 DEF Activates, Activate
  <2>2. Activated(reservations[id]) \in ReservationType
    BY <1>0, EventTypes
  <2> QED BY <1>0, <2>1, <2>2, SlowOverlayReplace DEF OverlayExact
<1>6. ASSUME NEW id \in DOMAIN reservations, NEW cause \in Causes, Ends(id, cause)
      PROVE  OverlayExact'
  <2> DEFINE r == Ended(reservations[id], eventSequence + 1)
  <2>1. End(id, cause)
    BY <1>6 DEF Ends
  <2>2. CASE RemovedOnTerminate(reservations[id], cause)
    <3>1. /\ reservations' = Without(reservations, id)
          /\ overlay' = ReplaceOverlay(overlay, Contribution(reservations[id]), ZeroOverlay)
      BY <2>1, <2>2 DEF End, TerminalContribution
    <3>2. SlowOverlay(reservations) \in OverlayType /\ Contribution(reservations[id]) \in OverlayType
      BY <1>0, SlowOverlayType, ContributionType
    <3> QED BY <1>0, <3>1, <3>2, SlowOverlayWithout, OverlayCancels DEF OverlayExact
  <2>3. CASE ~RemovedOnTerminate(reservations[id], cause)
    <3>1. /\ reservations' = [reservations EXCEPT ![id] = r]
          /\ overlay' = ReplaceOverlay(overlay, Contribution(reservations[id]), Contribution(r))
      BY <2>1, <2>3 DEF End, TerminalContribution
    <3>2. r \in ReservationType
      BY <1>0, EventTypes
    <3> HIDE DEF r
    <3> QED BY <1>0, <3>1, <3>2, SlowOverlayReplace DEF OverlayExact
  <2> QED BY <2>2, <2>3
<1> QED BY <1>1, <1>2, <1>3, <1>4, <1>5, <1>6, AcceptOverlay, ReservationCases

(***************************************************************************)
(* The running totals that admissions are decided on always equal a scan   *)
(* of the live reservations, through every order of handle calls,          *)
(* publications, resets and failures (slowOverlayLocked agrees with        *)
(* c.overlay). With the type invariant it is inductive as it stands.       *)
(***************************************************************************)
THEOREM OverlayCorrect == Spec => []OverlayExact
<1>1. Init => TypeOK /\ OverlayExact
  BY InitType, InitValues, SlowOverlayEmpty DEF OverlayExact
<1>2. TypeOK /\ OverlayExact /\ [Next]_vars => (TypeOK /\ OverlayExact)'
  BY StepType, OverlayStep
<1> QED BY <1>1, <1>2, PTL DEF Spec

-----------------------------------------------------------------------------
(***************************************************************************)
(* AdmittedWithinBounds.                                                   *)
(***************************************************************************)

\* An admission that the policy opens leaves the bounds satisfied.
LEMMA ReserveWithinBounds ==
    ASSUME TypeOK, OverlayExact, NEW d \in Demands, NEW now, NEW view,
           Reserves(d, now, view), Sheddable(d.tier)
    PROVE  LET pending == SequencesOf(reservations', UnobservedIds(reservations'))
           IN  /\ pending <= policy.windowConcurrency
               /\ policy.runningLimit > 0 =>
                    observation.running + observation.waiting + pending <= policy.runningLimit
<1> DEFINE pending == SequencesOf(reservations', UnobservedIds(reservations'))
           state   == Projected(view)
<1>1. OverlayExact'
  <2>1. UNCHANGED <<clock, sampleSequence>> /\ ReservationMap(reservations)
    BY TypeMap DEF Reserves
  <2>2. /\ overlay' = AddOverlay(overlay, Contribution(NewReservation(d)))
        /\ reservations' = With(reservations, nextReservationID + 1, NewReservation(d))
    BY DEF Reserves, Reserve
  <2>3. nextReservationID + 1 \notin DOMAIN reservations
    BY DEF TypeOK, LifecycleTypes
  <2>4. NewReservation(d) \in ReservationType
    BY NewReservationType
  <2> QED BY <2>1, <2>2, <2>3, <2>4, SlowOverlayWith DEF OverlayExact
<1>2. pending = overlay'.unobservedSequences
  BY <1>1 DEF OverlayExact, SlowOverlay
<1>3. Contribution(NewReservation(d)).unobservedSequences = d.sequences
  BY DEF Contribution, NewReservation, Unobserved, PendingPhase
<1>4. overlay'.unobservedSequences = overlay.unobservedSequences + d.sequences
  BY <1>3 DEF Reserves, Reserve, AddOverlay
<1>5. BoundsReason(state, d, policy) = "open"
  BY DEF Reserves, Admits, PolicyReason
<1>6. /\ state.unobserved = overlay.unobservedSequences
      /\ state.running = observation.running /\ state.waiting = observation.waiting
  BY DEF Projected
<1>7. /\ d.sequences \in Int /\ overlay.unobservedSequences \in Int
      /\ observation.running \in Int /\ observation.waiting \in Int
      /\ policy.windowConcurrency \in Int /\ policy.runningLimit \in Int
  <2>1. d.sequences \in Int
    BY ControllerAssumption, NumericAssumption DEF DemandType
  <2> QED BY <2>1 DEF TypeOK, LifecycleTypes, OverlayType, ObservedTypes, ObservationType,
             PolicyTypes, PolicyType
<1> HIDE DEF state, pending
<1>8. /\ ~(policy.runningLimit > 0 /\
            state.running + state.waiting + state.unobserved + d.sequences > policy.runningLimit)
      /\ ~(state.unobserved + d.sequences > policy.windowConcurrency)
  BY <1>5 DEF BoundsReason
<1>9. /\ pending <= policy.windowConcurrency
      /\ policy.runningLimit > 0 =>
           observation.running + observation.waiting + pending <= policy.runningLimit
  BY <1>2, <1>4, <1>6, <1>7, <1>8
<1> QED BY <1>9 DEF pending

\* Only an admission adds a reservation, and its tier is the demand's.
LEMMA OnlyReserveAdds ==
    ASSUME TypeOK, [Next]_vars, NEW i \in DOMAIN reservations' \ DOMAIN reservations
    PROVE  \E d \in Demands, lag \in 0..ClockLag, view \in Views :
              Reserves(d, clock - lag, view) /\ reservations'[i].tier = d.tier
<1>1. ~Idle
  BY DEF Idle
<1>2. DOMAIN NoReservations = {}
  BY ZeroTypes
<1>3. \A id \in DOMAIN reservations : ~Forwards(id) /\ ~Activates(id)
  BY DEF Forwards, Forward, Activates, Activate
<1>4. \A id \in DOMAIN reservations, cause \in Causes : ~Ends(id, cause)
  BY DEF Ends, End, Without
<1>5. \A s \in Samplers : \A o \in Reports(s) : ~Accepts(s, o)
  BY ReconciledType DEF Accepts, Accept
<1>6. PICK d \in Demands, lag \in 0..ClockLag, view \in Views : Reserves(d, clock - lag, view)
  BY <1>1, <1>2, <1>3, <1>4, <1>5, ReservationCases
<1>7. reservations' = With(reservations, nextReservationID + 1, NewReservation(d))
  BY <1>6 DEF Reserves, Reserve
<1>8. reservations'[i] = NewReservation(d)
  BY <1>7 DEF With
<1> QED BY <1>6, <1>8 DEF NewReservation

(***************************************************************************)
(* A default or flex request is admitted only within the window and        *)
(* running bounds, counted over the reservations themselves and not over   *)
(* the totals the decision read (admissionBounds.evaluate with c.overlay). *)
(***************************************************************************)
THEOREM BoundsRespected == Spec => AdmittedWithinBounds
<1>1. TypeOK /\ OverlayExact /\ [Next]_vars =>
        [\A i \in DOMAIN reservations' \ DOMAIN reservations :
          Sheddable(reservations'[i].tier) =>
            LET pending == SequencesOf(reservations', UnobservedIds(reservations'))
            IN  /\ pending <= policy.windowConcurrency
                /\ policy.runningLimit > 0 =>
                     observation.running + observation.waiting + pending <= policy.runningLimit
        ]_vars
  BY OnlyReserveAdds, ReserveWithinBounds
<1>2. Spec => [](TypeOK /\ OverlayExact)
  BY TypeCorrect, OverlayCorrect, PTL
<1>3. Spec => [][Next]_vars
  BY PTL DEF Spec
<1> QED BY <1>1, <1>2, <1>3, PTL DEF AdmittedWithinBounds

\* What the gate sees of the cold prompts is what the reservations say.
LEMMA ColdPendingExact ==
    ASSUME TypeOK, OverlayExact
    PROVE  /\ overlay.coldSheddablePending \in Nat
           /\ overlay.coldSheddablePending = 0 =>
                ~\E i \in DOMAIN reservations :
                   /\ reservations[i].coldSheddable
                   /\ reservations[i].phase \in {"reserved", "forwarded"}
<1>1. IsFiniteSet(1..nextReservationID)
  BY FS_Interval DEF TypeOK, LifecycleTypes
<1>2. IsFiniteSet(ColdIds(reservations))
  BY <1>1, FS_Subset DEF ColdIds, TypeOK, LifecycleTypes
<1>3. overlay.coldSheddablePending = Cardinality(ColdIds(reservations))
  BY DEF OverlayExact, SlowOverlay
<1>4. /\ Cardinality(ColdIds(reservations)) \in Nat
      /\ Cardinality(ColdIds(reservations)) = 0 => ColdIds(reservations) = {}
  BY <1>2, FS_CardinalityType, FS_EmptySet
<1> QED BY <1>3, <1>4 DEF ColdIds, ColdPending, PendingPhase

(***************************************************************************)
(* While the TPS window has current evidence, a cold default or flex       *)
(* prompt is admitted only when no other waits for its first byte, counted *)
(* over the reservations and not over the totals that the gate read        *)
(* (tpsGate.evaluate with coldSheddablePending).                           *)
(***************************************************************************)
THEOREM ColdPromptsSerialised == Spec => ColdSerialised
<1> DEFINE Serial ==
        \A d \in Demands, lag \in 0..ClockLag, view \in Views :
          /\ ColdSheddable(d) /\ policy.tpsReference > 0 /\ view.ready /\ tps.qualified
          /\ nextReservationID' # nextReservationID
          /\ Admit(d, clock - lag, view)
          => ~\E i \in DOMAIN reservations :
                /\ reservations[i].coldSheddable
                /\ reservations[i].phase \in {"reserved", "forwarded"}
<1>1. ASSUME TypeOK, OverlayExact PROVE Serial
  <2> SUFFICES ASSUME NEW d \in Demands, NEW lag \in 0..ClockLag, NEW view \in Views,
                      ColdSheddable(d), policy.tpsReference > 0, view.ready, tps.qualified,
                      Admits(Projected(view), d, policy)
               PROVE  overlay.coldSheddablePending = 0
    BY <1>1, ColdPendingExact DEF Admit
  <2>1. ~TPSGateProtects(Projected(view), policy.waitingAllowance, d)
    BY DEF Admits, PolicyReason
  <2>2. ~(Projected(view).coldPending > 0)
    BY <2>1 DEF TPSGateProtects, Projected
  <2> QED BY <1>1, <2>2, ColdPendingExact DEF Projected
<1>2. Spec => [](TypeOK /\ OverlayExact)
  BY TypeCorrect, OverlayCorrect, PTL
<1> QED BY <1>1, <1>2, PTL DEF Spec, ColdSerialised

(***************************************************************************)
(* The availability that Snapshot advertises is that of the most           *)
(* restricted intake: its demand passes no gate and no bound that another  *)
(* one-sequence demand does not pass (MinimumDemand against                *)
(* evaluateDemand).                                                        *)
(***************************************************************************)
THEOREM AvailabilityHonest == Spec => []MinimumMostRestricted
<1>1. ASSUME TypeOK, NEW view \in Views, NEW d, d.sequences = 1,
             Admits(Projected(view), MinimumDemand, policy)
      PROVE  Admits(Projected(view), d, policy)
  <2> DEFINE state == Projected(view)
             least == MinimumDemand
  <2>1. /\ Sheddable(least.tier) /\ least.sequences = 1
        /\ ColdSheddable(least) <=> PromptAware
    BY DEF MinimumDemand, Sheddable, ColdSheddable, Warm
  <2>2. /\ ~TPSGateProtects(state, policy.waitingAllowance, least)
        /\ BoundsReason(state, least, policy) = "open"
    BY <1>1, <2>1 DEF Admits, PolicyReason
  <2>3. ColdSheddable(d) => PromptAware
    BY DEF ColdSheddable
  <2> HIDE DEF state, least
  <2>4. BelowReference(state.tps, d) => BelowReference(state.tps, least)
    BY <2>1, <2>3, Zenon DEF BelowReference
  <2>5. ~TPSGateProtects(state, policy.waitingAllowance, d)
    BY <2>1, <2>2, <2>3, <2>4, Zenon DEF TPSGateProtects
  <2>6. BoundsReason(state, d, policy) = "open"
    BY <1>1, <2>1, <2>2, Zenon DEF BoundsReason
  <2>7. /\ state.running \in Nat /\ state.waiting \in Nat /\ state.unobserved \in Int
        /\ MaxInt64 \in Nat
    BY <1>1, NumericAssumption DEF state, Projected, TypeOK, ObservedTypes, ObservationType,
       LifecycleTypes, OverlayType
  <2>8. Fits(state.running, d.sequences) /\ Fits(state.unobserved, d.sequences)
    <3>1. /\ Fits(state.running, state.waiting)
          /\ Fits(state.running + state.waiting, state.unobserved)
          /\ Fits(state.running + state.waiting + state.unobserved, d.sequences)
      BY <2>6 DEF BoundsReason
    <3> QED BY <1>1, <2>7, <3>1 DEF Fits
  <2> QED BY <2>5, <2>6, <2>8 DEF Admits, PolicyReason, state
<1>2. TypeOK => MinimumMostRestricted
  BY <1>1 DEF MinimumMostRestricted, Available
<1> QED BY <1>2, TypeCorrect, PTL

-----------------------------------------------------------------------------
(***************************************************************************)
(* Fenced, DebtUncovered and EvidenceCurrent.                              *)
(***************************************************************************)

\* The event watermarks that samplers hold, and the one published last, lie
\* in the past: what DebtUncovered needs to be inductive.
WatermarksPast ==
    /\ watermark <= eventSequence
    /\ \A s \in Samplers : windows[s].eventSequence <= eventSequence

\* What the events leave of the fields the invariants read.
LEMMA EventFields ==
    ASSUME NEW r \in ReservationType, NEW now, NEW n
    PROVE  /\ Forwarded(r, now, n).runtimeEpoch = r.runtimeEpoch
           /\ Forwarded(r, now, n).phase = "forwarded"
           /\ Forwarded(r, now, n).forwardedSequence = n
           /\ Activated(r).runtimeEpoch = r.runtimeEpoch
           /\ Activated(r).phase = "active"
           /\ Activated(r).forwardedSequence = r.forwardedSequence
           /\ Ended(r, n).runtimeEpoch = r.runtimeEpoch
           /\ Ended(r, n).phase = "residual"
           /\ Ended(r, n).terminalSequence = n
           /\ LeaseEnded(r).runtimeEpoch = r.runtimeEpoch
           /\ LeaseEnded(r).phase = r.phase
           /\ LeaseEnded(r).terminalSequence = r.terminalSequence
           /\ LeaseEnded(r).forwardedSequence = r.forwardedSequence
BY DEF Forwarded, Activated, Ended, LeaseEnded, ReservationType

\* A step closes intake, moves the runtime epoch or empties the map only by
\* failing or by a runtime reset.
LEMMA EpochCases ==
    ASSUME [Next]_vars
    PROVE  \/ closedReason' = closedReason /\ runtimeEpoch' = runtimeEpoch
           \/ reservations' = NoReservations /\ tps' = NoEvidence
<1>1. Step
  BY StepCases
<1>2. UNCHANGED vars => StaysOpen
  BY DEF vars, StaysOpen
<1>3. Fails => reservations' = NoReservations /\ tps' = NoEvidence
  BY DEF Fails, FailClosed
<1>4. \A d \in Demands : \A now, view : Reserves(d, now, view) => StaysOpen
  BY DEF Reserves, Reserve
<1>5. \A id \in DOMAIN reservations : (Forwards(id) => StaysOpen) /\ (Activates(id) => StaysOpen)
  BY DEF Forwards, Forward, Activates, Activate
<1>6. \A id \in DOMAIN reservations, cause \in Causes : Ends(id, cause) => StaysOpen
  BY DEF Ends, End
<1>7. \A s \in Samplers : (Opens(s) => StaysOpen) /\ (Drops(s) => StaysOpen)
  BY DEF Opens, OpenWindow, Drops, StaysOpen
<1>8. \A s \in Samplers : \A o \in Reports(s) :
         /\ Resets(s, o) => reservations' = NoReservations /\ tps' = NoEvidence
         /\ Accepts(s, o) => StaysOpen
  BY DEF Resets, PublishReset, Accepts, Accept
<1>9. \A r \in References, w \in WindowSizes, l \in RunningLimits, a \in Allowances :
         UpdatePolicy(r, w, l, a) => StaysOpen
  BY DEF UpdatePolicy, StaysOpen
<1>10. Tick => StaysOpen
  BY DEF Tick, StaysOpen
<1> QED BY <1>1, <1>2, <1>3, <1>4, <1>5, <1>6, <1>7, <1>8, <1>9, <1>10 DEF Step, StaysOpen

\* Every step keeps the reservations fenced.
LEMMA FencedStep ==
    ASSUME TypeOK, Fenced, [Next]_vars
    PROVE  Fenced'
<1>0. \A i \in DOMAIN reservations : reservations[i] \in ReservationType
  BY DEF TypeOK, LifecycleTypes
<1>1. CASE reservations' = NoReservations
  BY <1>1, ZeroTypes DEF Fenced
<1>2. CASE reservations' # NoReservations
  <2>1. closedReason' = closedReason /\ runtimeEpoch' = runtimeEpoch
    BY <1>2, EpochCases
  <2>2. CASE Idle
    BY <2>1, <2>2 DEF Idle, Fenced
  <2>3. ASSUME NEW d \in Demands, NEW now, NEW view, Reserves(d, now, view)
        PROVE  Fenced'
    <3>1. reservations' = With(reservations, nextReservationID + 1, NewReservation(d))
      BY <2>3 DEF Reserves, Reserve
    <3>2. closedReason = "none"
      BY <2>3 DEF Reserves, StateAvailable
    <3>3. \A i \in DOMAIN reservations' : reservations'[i].runtimeEpoch = runtimeEpoch
      BY <3>1 DEF With, NewReservation, Fenced
    <3> QED BY <2>1, <3>2, <3>3 DEF Fenced
  <2>4. ASSUME NEW id \in DOMAIN reservations, Forwards(id)
        PROVE  Fenced'
    <3>1. reservations' = [reservations EXCEPT ![id] =
                              Forwarded(reservations[id], clock, eventSequence + 1)]
      BY <2>4 DEF Forwards, Forward
    <3> QED BY <1>0, <2>1, <3>1, EventFields DEF Fenced
  <2>5. ASSUME NEW id \in DOMAIN reservations, Activates(id)
        PROVE  Fenced'
    <3>1. reservations' = [reservations EXCEPT ![id] = Activated(reservations[id])]
      BY <2>5 DEF Activates, Activate
    <3> QED BY <1>0, <2>1, <3>1, EventFields DEF Fenced
  <2>6. ASSUME NEW id \in DOMAIN reservations, NEW cause \in Causes, Ends(id, cause)
        PROVE  Fenced'
    <3>1. \/ reservations' = Without(reservations, id)
          \/ reservations' = [reservations EXCEPT ![id] =
                                Ended(reservations[id], eventSequence + 1)]
      BY <2>6 DEF Ends, End
    <3> QED BY <1>0, <2>1, <3>1, EventFields DEF Fenced, Without
  <2>7. ASSUME NEW s \in Samplers, NEW o \in Reports(s), Accepts(s, o)
        PROVE  Fenced'
    <3>1. reservations' = Reconciled(windows[s].eventSequence, o)
      BY <2>7 DEF Accepts, Accept
    <3> QED BY <1>0, <2>1, <3>1, EventFields DEF Fenced, Reconciled
  <2> QED BY <1>2, <2>2, <2>3, <2>4, <2>5, <2>6, <2>7, ReservationCases
<1> QED BY <1>1, <1>2

(***************************************************************************)
(* Nothing of an earlier backend runtime survives in the accounting, and a *)
(* closed controller holds nothing (failClosedLocked, the reset branch of  *)
(* PublishObservation).                                                    *)
(***************************************************************************)
THEOREM FencingCorrect == Spec => []Fenced
<1>1. Init => Fenced
  BY InitValues, ZeroTypes DEF Fenced
<1>2. TypeOK /\ Fenced /\ [Next]_vars => Fenced'
  BY FencedStep
<1> QED BY <1>1, <1>2, TypeCorrect, PTL DEF Spec

\* Watermarks stay in the past: the event sequence only grows, a window opens
\* at its current value, and a publication publishes a window's watermark.
LEMMA WatermarksStep ==
    ASSUME TypeOK, WatermarksPast, [Next]_vars
    PROVE  WatermarksPast'
<1>0. /\ eventSequence \in Nat /\ watermark \in Nat
      /\ \A s \in Samplers : windows[s] \in WindowType /\ windows[s].eventSequence \in Nat
      /\ windows \in [Samplers -> WindowType]
  BY DEF TypeOK, LifecycleTypes, ObservedTypes, SamplerTypes, WindowType
<1>1. Step
  BY StepCases
<1>2. eventSequence' >= eventSequence /\ eventSequence' \in Nat
  <2>1. eventSequence' = eventSequence \/ eventSequence' = eventSequence + 1
    BY <1>1, Zenon DEF Step, vars, lifecycle, Fails, Reserves, Reserve, Forwards, Activates, Ends,
       Opens, Drops, Resets, PublishReset, Accepts, UpdatePolicy, Tick
  <2> QED BY <1>0, <2>1
<1>3. \/ watermark' = watermark
      \/ \E s \in Samplers : watermark' = windows[s].eventSequence
  BY <1>1 DEF Step, vars, observed, Fails, Reserves, Forwards, Activates, Ends, HandleFrame,
     Opens, Drops, Resets, PublishReset, Accepts, Accept, Store, UpdatePolicy, Tick
<1>4. \/ windows' = windows
      \/ \E s \in Samplers : windows' = [windows EXCEPT ![s] = NoWindow]
      \/ \E s \in Samplers : Opens(s)
  BY <1>1 DEF Step, vars, samplers, Fails, ReleaseWindow, Reserves, Forwards, Activates, Ends,
     HandleFrame, Drops, Resets, Accepts, UpdatePolicy, Tick
<1>5. \A s \in Samplers : windows'[s].eventSequence <= eventSequence'
  <2>1. CASE windows' = windows
    BY <1>0, <1>2, <2>1 DEF WatermarksPast
  <2>2. ASSUME NEW t \in Samplers, windows' = [windows EXCEPT ![t] = NoWindow]
        PROVE  \A s \in Samplers : windows'[s].eventSequence <= eventSequence'
    BY <1>0, <1>2, <2>2 DEF WatermarksPast, NoWindow
  <2>3. ASSUME NEW t \in Samplers, Opens(t)
        PROVE  \A s \in Samplers : windows'[s].eventSequence <= eventSequence'
    <3>1. \A s \in Samplers : windows'[s].eventSequence =
             IF s = t THEN eventSequence ELSE windows[s].eventSequence
      BY <1>0, <2>3 DEF Opens, OpenWindow
    <3> QED BY <1>0, <1>2, <3>1 DEF WatermarksPast
  <2> QED BY <1>4, <2>1, <2>2, <2>3
<1>6. watermark' <= eventSequence'
  BY <1>0, <1>2, <1>3 DEF WatermarksPast
<1> QED BY <1>5, <1>6 DEF WatermarksPast

\* The watermark moves only with a publication.
LEMMA WatermarkCases ==
    ASSUME [Next]_vars
    PROVE  \/ watermark' = watermark
           \/ reservations' = NoReservations
           \/ \E s \in Samplers : \E o \in Reports(s) : Accepts(s, o)
<1>1. Step
  BY StepCases
<1>2. \A s \in Samplers : \A o \in Reports(s) : Resets(s, o) => reservations' = NoReservations
  BY DEF Resets, PublishReset
<1> QED BY <1>1, <1>2 DEF Step, vars, observed, Fails, Reserves, Forwards, Activates, Ends,
           HandleFrame, Opens, Drops, UpdatePolicy, Tick

\* Every step keeps residual debt uncovered.
LEMMA DebtStep ==
    ASSUME TypeOK, WatermarksPast, DebtUncovered, [Next]_vars
    PROVE  DebtUncovered'
<1>0. /\ eventSequence \in Nat /\ watermark \in Nat
      /\ \A i \in DOMAIN reservations :
            reservations[i] \in ReservationType /\ reservations[i].terminalSequence \in Nat
  BY DEF TypeOK, LifecycleTypes, ObservedTypes, ReservationType
<1>1. CASE reservations' = NoReservations
  BY <1>1, ZeroTypes DEF DebtUncovered
<1>2. ASSUME NEW s \in Samplers, NEW o \in Reports(s), Accepts(s, o)
      PROVE  DebtUncovered'
  <2> DEFINE mark == windows[s].eventSequence
  <2>1. reservations' = Reconciled(mark, o) /\ watermark' = mark
    BY <1>2 DEF Accepts, Accept, Store
  <2>2. mark \in Nat
    BY DEF TypeOK, SamplerTypes, WindowType
  <2>3. ASSUME NEW i \in DOMAIN reservations', reservations'[i].phase = "residual"
        PROVE  reservations'[i].terminalSequence > mark
    <3>1. i \in DOMAIN reservations /\ i \notin Settled(mark)
      BY <2>1, <2>3, ReconciledType
    <3>2. /\ reservations'[i].phase = reservations[i].phase
          /\ reservations'[i].terminalSequence = reservations[i].terminalSequence
      BY <1>0, <2>1, <3>1, EventFields DEF Reconciled
    <3>3. reservations[i].terminalSequence > watermark
      BY <2>3, <3>1, <3>2 DEF DebtUncovered
    <3>4. reservations[i].terminalSequence \notin 1..mark
      BY <2>3, <3>1, <3>2 DEF Settled
    <3> QED BY <1>0, <2>2, <3>1, <3>2, <3>3, <3>4
  <2> QED BY <2>1, <2>3 DEF DebtUncovered
<1>3. CASE watermark' = watermark
  <2>1. CASE Idle
    BY <1>3, <2>1 DEF Idle, DebtUncovered
  <2>2. ASSUME NEW d \in Demands, NEW now, NEW view, Reserves(d, now, view)
        PROVE  DebtUncovered'
    <3>1. reservations' = With(reservations, nextReservationID + 1, NewReservation(d))
      BY <2>2 DEF Reserves, Reserve
    <3> QED BY <1>3, <3>1 DEF With, NewReservation, DebtUncovered
  <2>3. ASSUME NEW id \in DOMAIN reservations, Forwards(id)
        PROVE  DebtUncovered'
    <3>1. reservations' = [reservations EXCEPT ![id] =
                              Forwarded(reservations[id], clock, eventSequence + 1)]
      BY <2>3 DEF Forwards, Forward
    <3> QED BY <1>0, <1>3, <3>1, EventFields DEF DebtUncovered
  <2>4. ASSUME NEW id \in DOMAIN reservations, Activates(id)
        PROVE  DebtUncovered'
    <3>1. reservations' = [reservations EXCEPT ![id] = Activated(reservations[id])]
      BY <2>4 DEF Activates, Activate
    <3> QED BY <1>0, <1>3, <3>1, EventFields DEF DebtUncovered
  <2>5. ASSUME NEW id \in DOMAIN reservations, NEW cause \in Causes, Ends(id, cause)
        PROVE  DebtUncovered'
    <3>1. \/ reservations' = Without(reservations, id)
          \/ reservations' = [reservations EXCEPT ![id] =
                                Ended(reservations[id], eventSequence + 1)]
      BY <2>5 DEF Ends, End
    <3>2. eventSequence + 1 > watermark
      BY <1>0 DEF WatermarksPast
    <3> QED BY <1>0, <1>3, <3>1, <3>2, EventFields DEF DebtUncovered, Without
  <2> QED BY <1>1, <1>2, <2>1, <2>2, <2>3, <2>4, <2>5, ReservationCases
<1> QED BY <1>1, <1>2, <1>3, WatermarkCases

(***************************************************************************)
(* Residual debt is bounded by observation: what is left of an ended       *)
(* request is gone once a published sample window opened after its end     *)
(* (reconcileReservation). The inductive invariant adds that watermarks    *)
(* lie in the past, so that a request ending now is not yet covered.       *)
(***************************************************************************)
THEOREM DebtCorrect == Spec => []DebtUncovered
<1>1. Init => WatermarksPast /\ DebtUncovered
  <2> SUFFICES ASSUME Init PROVE WatermarksPast /\ DebtUncovered
    OBVIOUS
  <2>1. \A s \in Samplers : windows[s].eventSequence = 0
    BY InitValues DEF NoWindow
  <2> QED BY <2>1, InitValues, ZeroTypes DEF WatermarksPast, DebtUncovered
<1>2. TypeOK /\ WatermarksPast /\ DebtUncovered /\ [Next]_vars
        => WatermarksPast' /\ DebtUncovered'
  BY WatermarksStep, DebtStep
<1> QED BY <1>1, <1>2, TypeCorrect, PTL DEF Spec

-----------------------------------------------------------------------------
\* A step leaves the evidence and the epochs it belongs to alone, empties
\* it, or accepts an observation.
LEMMA EvidenceCases ==
    ASSUME [Next]_vars
    PROVE  \/ tps' = tps /\ runtimeEpoch' = runtimeEpoch /\ tpsPolicyEpoch' = tpsPolicyEpoch
           \/ tps' = NoEvidence
           \/ \E s \in Samplers : \E o \in Reports(s) : Accepts(s, o)
<1>1. Step
  BY StepCases
<1>2. Fails => tps' = NoEvidence
  BY DEF Fails, FailClosed
<1> QED BY <1>1, <1>2 DEF Step, vars, policyVars, Reserves, Reserve, StaysOpen, Forwards, Forward,
           Activates, Activate, Ends, End, HandleFrame, Opens, OpenWindow, Drops, Resets,
           PublishReset, UpdatePolicy, Tick

\* Every step keeps the evidence current.
LEMMA EvidenceStep ==
    ASSUME TypeOK, EvidenceCurrent, [Next]_vars
    PROVE  EvidenceCurrent'
<1>1. CASE tps' = tps /\ runtimeEpoch' = runtimeEpoch /\ tpsPolicyEpoch' = tpsPolicyEpoch
  BY <1>1 DEF EvidenceCurrent
<1>2. CASE tps' = NoEvidence
  BY <1>2 DEF EvidenceCurrent, NoEvidence
<1>3. ASSUME NEW s \in Samplers, NEW o \in Reports(s), Accepts(s, o)
      PROVE  EvidenceCurrent'
  <2>1. /\ tps' = ObserveTPS(windows[s], o)
        /\ runtimeEpoch' = runtimeEpoch /\ tpsPolicyEpoch' = tpsPolicyEpoch
        /\ windows[s].runtimeEpoch = runtimeEpoch
    BY <1>3 DEF Accepts, Accept, StaysOpen, policyVars, Acceptable, Publishable
  <2>2. CASE tps' = tps
    BY <2>1, <2>2 DEF EvidenceCurrent
  <2>3. CASE tps' # tps
    <3>1. tps' = Counted(windows[s], o) /\ windows[s].tpsPolicyEpoch = tpsPolicyEpoch
      BY <2>1, <2>3 DEF ObserveTPS, OfCurrentReference
    <3>2. CASE Qualifies(windows[s], o)
      <4>1. tps'.epoch = windows[s].runtimeEpoch /\ tps'.policyEpoch = windows[s].tpsPolicyEpoch
        BY <3>1, <3>2 DEF Counted
      <4> QED BY <2>1, <3>1, <4>1 DEF EvidenceCurrent
    <3>3. CASE ~Qualifies(windows[s], o)
      <4>1. /\ tps'.samples = tps.samples /\ tps'.qualified = FALSE
            /\ tps'.epoch = tps.epoch /\ tps'.policyEpoch = tps.policyEpoch
        BY <3>1, <3>3 DEF Counted, TypeOK, EvidenceType
      <4> QED BY <2>1, <4>1 DEF EvidenceCurrent
    <3> QED BY <3>2, <3>3
  <2> QED BY <2>2, <2>3
<1> QED BY <1>1, <1>2, <1>3, EvidenceCases

(***************************************************************************)
(* The TPS evidence an admission reads belongs to the backend runtime and  *)
(* the TPS reference in force, whatever windows were open across a restart *)
(* or a policy update (tpsPolicyEpoch and runtimeEpoch of SampleWindow).   *)
(***************************************************************************)
THEOREM EvidenceCorrect == Spec => []EvidenceCurrent
<1>1. Init => EvidenceCurrent
  BY InitValues DEF EvidenceCurrent, NoEvidence
<1>2. TypeOK /\ EvidenceCurrent /\ [Next]_vars => EvidenceCurrent'
  BY EvidenceStep
<1> QED BY <1>1, <1>2, TypeCorrect, PTL DEF Spec

-----------------------------------------------------------------------------
(***************************************************************************)
(* ReconcileCovered.                                                       *)
(***************************************************************************)

\* What was forwarded or ended while a sample window was open carries an
\* event sequence beyond the window's watermark.
UnseenLate ==
    \A s \in Samplers : \A i \in unseen[s] :
        /\ i <= nextReservationID
        /\ i \in DOMAIN reservations =>
             /\ reservations[i].phase # "reserved"
             /\ reservations[i].phase = "residual" =>
                  reservations[i].terminalSequence > windows[s].eventSequence
             /\ reservations[i].phase \in {"forwarded", "active"} =>
                  reservations[i].forwardedSequence > windows[s].eventSequence

\* A sampler's history and window, after a step: as before, with one more id
\* (the one just forwarded or ended), or empty.
UnseenAfter(S) ==
    \A s \in Samplers :
        \/ unseen'[s] = {}
        \/ windows'[s] = windows[s] /\ unseen'[s] \subseteq unseen[s] \cup S

\* Steps that touch neither the reservations nor the ids minted, and may only
\* clear histories, keep UnseenLate.
LEMMA UnseenKept ==
    ASSUME UnseenLate, UnseenAfter({}), UNCHANGED <<reservations, nextReservationID>>
    PROVE  UnseenLate'
BY DEF UnseenLate, UnseenAfter

\* A released or newly opened window has an empty history; the others keep theirs.
LEMMA WindowHistory ==
    ASSUME TypeOK, NEW s \in Samplers, ReleaseWindow(s) \/ OpenWindow(s)
    PROVE  UnseenAfter({})
BY DEF TypeOK, SamplerTypes, ReleaseWindow, OpenWindow, UnseenAfter

\* Every step keeps unseen events late.
LEMMA UnseenStep ==
    ASSUME TypeOK, WatermarksPast, UnseenLate, [Next]_vars
    PROVE  UnseenLate'
<1>0. /\ eventSequence \in Nat /\ nextReservationID \in Nat
      /\ unseen \in [Samplers -> SUBSET Nat]
      /\ \A s \in Samplers : windows[s].eventSequence \in Nat
      /\ DOMAIN reservations \subseteq 1..nextReservationID
      /\ \A i \in DOMAIN reservations : reservations[i] \in ReservationType
  BY DEF TypeOK, LifecycleTypes, SamplerTypes, WindowType
<1>1. Step
  BY StepCases
<1>2. CASE UNCHANGED vars
  BY <1>2 DEF vars, lifecycle, samplers, UnseenLate
<1>3. CASE Fails
  <2>1. UnseenAfter({})
    BY <1>3, WindowHistory DEF Fails, samplers, UnseenAfter
  <2>2. reservations' = NoReservations /\ UNCHANGED nextReservationID
    BY <1>3 DEF Fails, FailClosed
  <2> QED BY <2>1, <2>2, ZeroTypes DEF UnseenLate, UnseenAfter
<1>4. ASSUME NEW d \in Demands, NEW now, NEW view, Reserves(d, now, view)
      PROVE  UnseenLate'
  <2>1. /\ reservations' = With(reservations, nextReservationID + 1, NewReservation(d))
        /\ nextReservationID' = nextReservationID + 1
        /\ unseen' = unseen /\ windows' = windows
    BY <1>4 DEF Reserves, Reserve, samplers
  <2>2. ASSUME NEW s \in Samplers, NEW i \in unseen[s]
        PROVE  /\ i \in Nat /\ i <= nextReservationID /\ i # nextReservationID + 1
               /\ i \in DOMAIN reservations' =>
                    i \in DOMAIN reservations /\ reservations'[i] = reservations[i]
    <3>1. i \in Nat /\ i <= nextReservationID
      BY <1>0 DEF UnseenLate
    <3>2. i # nextReservationID + 1
      BY <1>0, <3>1
    <3> QED BY <2>1, <3>1, <3>2 DEF With
  <2> QED BY <1>0, <2>1, <2>2 DEF UnseenLate
<1>5. ASSUME NEW id \in DOMAIN reservations, NEW r \in ReservationType,
             \/ reservations' = Without(reservations, id)
             \/ reservations' = [reservations EXCEPT ![id] = r],
             \A s \in Samplers :
                \/ id \notin unseen'[s]
                \/ /\ r.phase # "reserved"
                   /\ r.phase = "residual" => r.terminalSequence > windows[s].eventSequence
                   /\ r.phase \in {"forwarded", "active"} =>
                        r.forwardedSequence > windows[s].eventSequence,
             UnseenAfter({id}), UNCHANGED nextReservationID
      PROVE  UnseenLate'
  <2>1. ASSUME NEW s \in Samplers, NEW i \in unseen'[s], i # id
        PROVE  /\ windows'[s] = windows[s] /\ i \in unseen[s]
               /\ i \in DOMAIN reservations' =>
                    i \in DOMAIN reservations /\ reservations'[i] = reservations[i]
    BY <1>5, <2>1 DEF UnseenAfter, Without
  <2>2. ASSUME NEW s \in Samplers, id \in unseen'[s]
        PROVE  /\ windows'[s] = windows[s] /\ id <= nextReservationID
               /\ id \in DOMAIN reservations' => reservations'[id] = r
    BY <1>0, <1>5, <2>2 DEF UnseenAfter, Without
  <2> QED BY <1>5, <2>1, <2>2 DEF UnseenLate
<1>6. ASSUME NEW id \in DOMAIN reservations, unseen' = NotSeen(id), windows' = windows
      PROVE  UnseenAfter({id})
  BY <1>0, <1>6 DEF UnseenAfter, NotSeen
<1>7. ASSUME NEW id \in DOMAIN reservations, Forwards(id)
      PROVE  UnseenLate'
  <2> DEFINE r == Forwarded(reservations[id], clock, eventSequence + 1)
  <2>1. /\ reservations' = [reservations EXCEPT ![id] = r] /\ UNCHANGED nextReservationID
        /\ unseen' = NotSeen(id) /\ windows' = windows
    BY <1>7 DEF Forwards, Forward, HandleFrame
  <2>2. r \in ReservationType /\ r.phase = "forwarded" /\ r.forwardedSequence = eventSequence + 1
    BY <1>0, EventTypes, EventFields DEF TypeOK, IntakeTypes
  <2>3. \A s \in Samplers : eventSequence + 1 > windows[s].eventSequence
    BY <1>0 DEF WatermarksPast
  <2> HIDE DEF r
  <2> QED BY <1>5, <1>6, <2>1, <2>2, <2>3
<1>8. ASSUME NEW id \in DOMAIN reservations, Activates(id)
      PROVE  UnseenLate'
  <2> DEFINE r == Activated(reservations[id])
  <2>1. /\ reservations' = [reservations EXCEPT ![id] = r] /\ UNCHANGED nextReservationID
        /\ unseen' = unseen /\ windows' = windows
    BY <1>8 DEF Activates, Activate, HandleFrame
  <2>2. /\ r \in ReservationType /\ r.phase = "active"
        /\ r.forwardedSequence = reservations[id].forwardedSequence
    BY <1>0, EventTypes, EventFields, 0 \in Nat
  <2>3. reservations[id].phase = "forwarded"
    BY <1>8 DEF Activates
  <2>4. \A s \in Samplers : id \in unseen[s] =>
           r.forwardedSequence > windows[s].eventSequence
    BY <2>2, <2>3 DEF UnseenLate
  <2>5. UnseenAfter({id})
    BY <2>1 DEF UnseenAfter
  <2> HIDE DEF r
  <2> QED BY <1>5, <2>1, <2>2, <2>4, <2>5
<1>9. ASSUME NEW id \in DOMAIN reservations, NEW cause \in Causes, Ends(id, cause)
      PROVE  UnseenLate'
  <2> DEFINE r == Ended(reservations[id], eventSequence + 1)
  <2>1. /\ \/ reservations' = Without(reservations, id)
           \/ reservations' = [reservations EXCEPT ![id] = r]
        /\ UNCHANGED nextReservationID
        /\ unseen' = NotSeen(id) /\ windows' = windows
    BY <1>9 DEF Ends, End, HandleFrame
  <2>2. r \in ReservationType /\ r.phase = "residual" /\ r.terminalSequence = eventSequence + 1
    BY <1>0, EventTypes, EventFields DEF TypeOK, IntakeTypes
  <2>3. \A s \in Samplers : eventSequence + 1 > windows[s].eventSequence
    BY <1>0 DEF WatermarksPast
  <2> HIDE DEF r
  <2> QED BY <1>5, <1>6, <2>1, <2>2, <2>3
<1>10. ASSUME NEW s \in Samplers, Opens(s) \/ Drops(s)
       PROVE  UnseenLate'
  <2>1. UnseenAfter({})
    BY <1>10, WindowHistory DEF Opens, Drops
  <2>2. UNCHANGED <<reservations, nextReservationID>>
    BY <1>10 DEF Opens, OpenWindow, Drops, lifecycle
  <2> QED BY <2>1, <2>2, UnseenKept
<1>11. ASSUME NEW s \in Samplers, NEW o \in Reports(s), Resets(s, o) \/ Accepts(s, o)
       PROVE  UnseenLate'
  <2>1. UnseenAfter({}) /\ UNCHANGED nextReservationID
    BY <1>11, WindowHistory DEF Resets, PublishReset, Accepts
  <2>2. \A i \in DOMAIN reservations' :
           /\ i \in DOMAIN reservations
           /\ reservations'[i].phase = reservations[i].phase
           /\ reservations'[i].terminalSequence = reservations[i].terminalSequence
           /\ reservations'[i].forwardedSequence = reservations[i].forwardedSequence
    <3>1. CASE Resets(s, o)
      BY <3>1, ZeroTypes DEF Resets, PublishReset
    <3>2. CASE Accepts(s, o)
      <4>1. reservations' = Reconciled(windows[s].eventSequence, o)
        BY <3>2 DEF Accepts, Accept
      <4> QED BY <1>0, <4>1, EventFields DEF Reconciled
    <3> QED BY <1>11, <3>1, <3>2
  <2> QED BY <2>1, <2>2 DEF UnseenLate, UnseenAfter
<1>12. ASSUME NEW r \in References, NEW w \in WindowSizes, NEW l \in RunningLimits,
              NEW a \in Allowances, UpdatePolicy(r, w, l, a)
       PROVE  UnseenLate'
  BY <1>12 DEF UpdatePolicy, lifecycle, samplers, UnseenLate
<1>13. CASE Tick
  BY <1>13 DEF Tick, lifecycle, samplers, UnseenLate
<1> QED BY <1>1, <1>2, <1>3, <1>4, <1>7, <1>8, <1>9, <1>10, <1>11, <1>12, <1>13 DEF Step

\* The observation changes, within a runtime epoch, only by acceptance.
LEMMA ObservationCases ==
    ASSUME TypeOK, [Next]_vars, observationSequence' > observationSequence,
           runtimeEpoch' = runtimeEpoch
    PROVE  \E s \in Samplers : \E o \in Reports(s) : Accepts(s, o)
<1>1. Step
  BY StepCases
<1>2. observationSequence' # observationSequence
  BY DEF TypeOK, ObservedTypes
<1>3. \A s \in Samplers : \A o \in Reports(s) : ~Resets(s, o)
  <2>1. \A s \in Samplers : \A o \in Reports(s) : Resets(s, o) => runtimeEpoch' = runtimeEpoch + 1
    BY DEF Resets, PublishReset
  <2>2. runtimeEpoch + 1 # runtimeEpoch
    BY DEF TypeOK, IntakeTypes
  <2> QED BY <2>1, <2>2
<1> QED BY <1>1, <1>2, <1>3, Zenon DEF Step, vars, observed, Fails, Reserves, Forwards, Activates,
           Ends, HandleFrame, Opens, Drops, UpdatePolicy, Tick

(***************************************************************************)
(* A publication never settles a debt or releases a lease whose event came *)
(* after its sample window opened: the metrics it carries may predate that *)
(* event (the watermark of SampleWindow, reconcileReservation).            *)
(***************************************************************************)
THEOREM ReconcileCorrect == Spec => ReconcileCovered
<1>1. Init => WatermarksPast /\ UnseenLate
  <2> SUFFICES ASSUME Init PROVE WatermarksPast /\ UnseenLate
    OBVIOUS
  <2>1. \A s \in Samplers : windows[s].eventSequence = 0 /\ unseen[s] = {}
    BY InitValues DEF NoWindow
  <2> QED BY <2>1, InitValues DEF WatermarksPast, UnseenLate
<1>2. TypeOK /\ WatermarksPast /\ UnseenLate /\ [Next]_vars => WatermarksPast' /\ UnseenLate'
  BY WatermarksStep, UnseenStep
<1>3. ASSUME TypeOK, UnseenLate, [Next]_vars, NEW s \in Samplers,
             windows[s].id # 0, windows'[s].id = 0,
             observationSequence' > observationSequence, runtimeEpoch' = runtimeEpoch,
             NEW i \in unseen[s] \cap DOMAIN reservations
      PROVE  i \in DOMAIN reservations' /\ reservations'[i] = reservations[i]
  <2>1. PICK t \in Samplers : \E o \in Reports(t) : Accepts(t, o)
    BY <1>3, ObservationCases
  <2>2. PICK o \in Reports(t) : Accepts(t, o)
    BY <2>1
  <2>3. t = s
    BY <1>3, <2>2 DEF Accepts, ReleaseWindow, TypeOK, SamplerTypes
  <2>4. reservations' = Reconciled(windows[s].eventSequence, o)
    BY <2>2, <2>3 DEF Accepts, Accept
  <2>5. windows[s].eventSequence \in Nat /\ reservations[i] \in ReservationType
    BY <1>3 DEF TypeOK, SamplerTypes, WindowType, LifecycleTypes
  <2>6. i \notin Settled(windows[s].eventSequence)
    BY <1>3, <2>5 DEF UnseenLate, Settled, ReservationType
  <2>7. i \notin LeaseReleased(windows[s].eventSequence, o)
    BY <1>3, <2>5 DEF UnseenLate, LeaseReleased, ReservationType
  <2> QED BY <1>3, <2>4, <2>6, <2>7 DEF Reconciled
<1>4. TypeOK /\ UnseenLate /\ [Next]_vars =>
        [\A s \in Samplers :
          /\ windows[s].id # 0 /\ windows'[s].id = 0
          /\ observationSequence' > observationSequence
          /\ runtimeEpoch' = runtimeEpoch
          => \A i \in unseen[s] \cap DOMAIN reservations :
                i \in DOMAIN reservations' /\ reservations'[i] = reservations[i]
        ]_vars
  BY <1>3
<1>5. Spec => [](TypeOK /\ UnseenLate)
  BY <1>1, <1>2, TypeCorrect, PTL DEF Spec
<1>6. Spec => [][Next]_vars
  BY PTL DEF Spec
<1> QED BY <1>4, <1>5, <1>6, PTL DEF ReconcileCovered
=============================================================================
