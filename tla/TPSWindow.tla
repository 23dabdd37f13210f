----------------------------- MODULE TPSWindow -----------------------------
(***************************************************************************)
(* The rolling TPS evidence (src/internal/admission/tps_window.go): a ring *)
(* of one-second buckets, one more than the window has seconds. An         *)
(* interval between two observations is cut at the seconds of the wall     *)
(* clock, and each second's share is added to its bucket.                  *)
(*                                                                         *)
(* A time is what Go's time.Now() gives: a wall reading and a monotonic    *)
(* one. Two such times compare by the monotonic reading; a time made by    *)
(* time.Unix has none and compares by the wall. Both are in ticks.         *)
(*                                                                         *)
(* An amount is a natural in units of 1/Scale, so that the share of one    *)
(* second in an interval is exact. The window is enabled; its only caller  *)
(* measures the local exposure, so that the fallback liability is never    *)
(* used, and the checks for amounts that are not finite cannot fail.       *)
(***************************************************************************)
EXTENDS Integers, FiniteSets, FiniteSetsExt

CONSTANTS
    WindowSeconds,      \* tpsWindowDuration
    TicksPerSecond,     \* resolution of the clock
    MaximumInterval,    \* BackendObservation.MaximumAge, in ticks
    QualifiedSamples,   \* tpsWindowMinimumQualifiedSamples
    QualifiedTicks,     \* tpsWindowMinimumQualifiedSeqSeconds, in sequence-ticks
    Scale               \* units in one token, or in one tick

ASSUME WindowAssumption ==
    /\ WindowSeconds \in Nat \ {0} /\ TicksPerSecond \in Nat \ {0}
    /\ MaximumInterval \in Nat \ {0} /\ QualifiedSamples \in Nat /\ QualifiedTicks \in Nat
    /\ Scale \in Nat \ {0}
    /\ \A interval \in 1..MaximumInterval : Scale % interval = 0

WindowTicks == WindowSeconds * TicksPerSecond
BucketCount == WindowSeconds + 1
Second(tick) == tick \div TicksPerSecond

Share == [tokens : Nat, active : Nat, samples : Nat,
          sequenceTokens : Nat, sequenceTicks : Nat, sequenceSamples : Nat]
Nothing == [tokens |-> 0, active |-> 0, samples |-> 0,
            sequenceTokens |-> 0, sequenceTicks |-> 0, sequenceSamples |-> 0]
Plus(a, b) == [field \in DOMAIN a |-> a[field] + b[field]]

NoInterval  == [qualified |-> FALSE, tokens |-> 0, ticks |-> 0, sequenceTicks |-> 0]
EmptyBucket == [second |-> 0, valid |-> FALSE, share |-> Nothing]
NewWindow   == [buckets |-> [i \in 0..(BucketCount - 1) |-> EmptyBucket], latest |-> NoInterval]

\* A slip: a bucket goes as soon as its second begins to leave the window.
ActiveAtStart(bucket, now) ==
    bucket.valid /\ bucket.second * TicksPerSecond > now - WindowTicks

\* A bucket counts until its second has left the window.
ActiveAt(bucket, now) ==
    bucket.valid /\ (bucket.second + 1) * TicksPerSecond > now - WindowTicks

Expire(buckets, now) ==
    [i \in DOMAIN buckets |-> IF ActiveAt(buckets[i], now) THEN buckets[i] ELSE EmptyBucket]

-----------------------------------------------------------------------------
(* One interval.                                                           *)

Interval(sample) == sample.end.mono - sample.start.mono

\* Whether an interval counts: not too long, and something was decoding in it.
Qualifies(sample) ==
    /\ Interval(sample) \in 1..MaximumInterval
    /\ sample.tokens > 0 \/ sample.response > 0

\* The largest of the endpoint's and the local sequence-ticks.
SequenceTicks(sample) ==
    Max({Interval(sample) * Max({sample.previousRunning, sample.running}),
         sample.forwarded, sample.response})

\* What is older than the window is cut off an interval that reaches past it.
CursorMono(sample) == Max({sample.start.mono, sample.end.mono - WindowTicks})
CursorWall(sample) ==
    IF sample.start.mono < sample.end.mono - WindowTicks
    THEN sample.end.wall - WindowTicks
    ELSE sample.start.wall

\* The seconds the loop visits: until the wall clock reaches the end, and at
\* least one.
Seconds(sample) ==
    LET first == Second(CursorWall(sample))
    IN  first..Max({first, Second(sample.end.wall - 1)})

\* The ticks of a second: to its boundary, or to the end of the interval. Only
\* the first can be measured by the monotonic clock, when it is also the last.
SegmentTicks(sample, second) ==
    LET from     == Max({CursorWall(sample), second * TicksPerSecond})
        boundary == (second + 1) * TicksPerSecond
    IN  IF boundary > sample.end.wall
        THEN IF second = Second(CursorWall(sample))
             THEN sample.end.mono - CursorMono(sample)
             ELSE sample.end.wall - from
        ELSE boundary - from

\* The sample itself is counted in its last second.
ShareOf(sample, second) ==
    LET ticks    == SegmentTicks(sample, second)
        unit     == Scale \div Interval(sample)
        last     == IF second = Max(Seconds(sample)) THEN 1 ELSE 0
        reliable == SequenceTicks(sample) > 0
    IN  [tokens  |-> sample.tokens * ticks * unit,
         active  |-> ticks * Scale,
         samples |-> last,
         sequenceTokens  |-> IF reliable THEN sample.tokens * ticks * unit ELSE 0,
         sequenceTicks   |-> SequenceTicks(sample) * ticks * unit,
         sequenceSamples |-> IF reliable THEN last ELSE 0]

Index(second) == second % BucketCount

\* tpsWindow.add fails on a bucket that another second still holds.
AddOK(buckets, seconds) ==
    /\ \A s \in seconds : buckets[Index(s)].valid => buckets[Index(s)].second = s
    /\ \A s, t \in seconds : Index(s) = Index(t) => s = t

Add(buckets, sample) ==
    [i \in DOMAIN buckets |->
        IF \E s \in Seconds(sample) : Index(s) = i
        THEN LET s == CHOOSE s \in Seconds(sample) : Index(s) = i
             IN  [second |-> s, valid |-> TRUE,
                  share  |-> Plus(buckets[i].share, ShareOf(sample, s))]
        ELSE buckets[i]]

\* tpsWindow.observe: an interval that does not qualify still expires, and
\* clears the latest one; ok is false only where the code fails closed.
Observe(window, sample) ==
    LET buckets == Expire(window.buckets, sample.end.wall)
        latest  == IF SequenceTicks(sample) > 0
                   THEN [qualified |-> TRUE, tokens |-> sample.tokens,
                         ticks |-> Interval(sample), sequenceTicks |-> SequenceTicks(sample)]
                   ELSE NoInterval
    IN  IF ~Qualifies(sample)
        THEN [ok |-> TRUE, window |-> [buckets |-> buckets, latest |-> NoInterval]]
        ELSE IF AddOK(buckets, Seconds(sample))
        THEN [ok |-> TRUE, window |-> [buckets |-> Add(buckets, sample), latest |-> latest]]
        ELSE [ok |-> FALSE, window |-> [buckets |-> buckets, latest |-> latest]]

-----------------------------------------------------------------------------
(* What a reader sees at a moment (tpsWindow.snapshot).                    *)

\* f[1] + ... + f[n], as the loop adds them.
SumTo(f, n) ==
    LET upto[k \in 0..n] == IF k = 0 THEN 0 ELSE upto[k - 1] + f[k]
    IN  upto[n]

Counting(buckets, now, field) ==
    [n \in 1..BucketCount |-> IF ActiveAt(buckets[n - 1], now) THEN buckets[n - 1].share[field] ELSE 0]

Total(window, now) ==
    [field \in DOMAIN Nothing |-> SumTo(Counting(window.buckets, now, field), BucketCount)]

Ready(total) ==
    total.sequenceSamples >= QualifiedSamples /\ total.sequenceTicks >= QualifiedTicks * Scale

Snapshot(window, now) ==
    LET total == Total(window, now)
    IN  [total |-> total, latest |-> window.latest, ready |-> Ready(total)]
=============================================================================
