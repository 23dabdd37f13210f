--------------------------- MODULE ExposureLedger ---------------------------
(***************************************************************************)
(* The running integral of local decode exposure                           *)
(* (internal/admission/sequence_exposure.go): how many sequences have been *)
(* forwarded, and how many responses have started, summed over time.       *)
(* Instants are naturals and 0 is Go's zero time. The integrals are 128-bit *)
(* in the code; a duration and a count are 63 bits each, so their overflow *)
(* needs longer than any process lives and is left out.                    *)
(***************************************************************************)
EXTENDS Numeric

LedgerType ==
    [initialized : BOOLEAN, lastEventAt : Nat,
     forwarded : Int, response : Int,             \* sequences active now
     forwardedTime : Int, responseTime : Int]     \* and their integrals

SnapshotType == [forwardedTime : Int, responseTime : Int]

ZeroLedger ==
    [initialized |-> FALSE, lastEventAt |-> 0, forwarded |-> 0, response |-> 0,
     forwardedTime |-> 0, responseTime |-> 0]

ZeroSnapshot == [forwardedTime |-> 0, responseTime |-> 0]

ValidLedger(l) ==
    /\ 0 <= l.response /\ l.response <= l.forwarded
    /\ l.responseTime <= l.forwardedTime
    /\ IF l.initialized THEN l.lastEventAt # 0 ELSE l = ZeroLedger

\* advance: charge the time since the last event to the sequences active in it.
Elapsed(l, now) == IF l.initialized THEN now - l.lastEventAt ELSE 0

Advance(l, now) ==
    [initialized   |-> TRUE,
     lastEventAt   |-> now,
     forwarded     |-> l.forwarded,
     response      |-> l.response,
     forwardedTime |-> l.forwardedTime + Elapsed(l, now) * l.forwarded,
     responseTime  |-> l.responseTime + Elapsed(l, now) * l.response]

AdvanceOK(l, now) ==
    /\ now # 0
    /\ l.initialized => l.lastEventAt <= now
    /\ ValidLedger(Advance(l, now))

AddForwarded(l, now, n) == [Advance(l, now) EXCEPT !.forwarded = @ + n]

AddForwardedOK(l, now, n) ==
    /\ n > 0 /\ AdvanceOK(l, now)
    /\ l.forwarded <= MaxInt64 - n
    /\ ValidLedger(AddForwarded(l, now, n))

AddResponse(l, now, n) == [Advance(l, now) EXCEPT !.response = @ + n]

AddResponseOK(l, now, n) ==
    /\ n > 0 /\ AdvanceOK(l, now)
    /\ l.response <= MaxInt64 - n
    /\ l.response + n <= l.forwarded
    /\ ValidLedger(AddResponse(l, now, n))

Remove(l, now, forwarded, response) ==
    [Advance(l, now) EXCEPT !.forwarded = @ - forwarded, !.response = @ - response]

RemoveOK(l, now, forwarded, response) ==
    /\ forwarded > 0 /\ 0 <= response /\ response <= forwarded
    /\ AdvanceOK(l, now)
    /\ forwarded <= l.forwarded /\ response <= l.response
    /\ ValidLedger(Remove(l, now, forwarded, response))

LedgerSnapshot(l) == [forwardedTime |-> l.forwardedTime, responseTime |-> l.responseTime]

ValidSnapshot(s) == s.responseTime <= s.forwardedTime

SubtractSnapshot(s, previous) ==
    [forwardedTime |-> s.forwardedTime - previous.forwardedTime,
     responseTime  |-> s.responseTime - previous.responseTime]

\* No counter went back, and the difference still has response <= forwarded.
SubtractSnapshotOK(s, previous) ==
    /\ ValidSnapshot(s) /\ ValidSnapshot(previous)
    /\ previous.forwardedTime <= s.forwardedTime
    /\ previous.responseTime <= s.responseTime
    /\ ValidSnapshot(SubtractSnapshot(s, previous))
=============================================================================
