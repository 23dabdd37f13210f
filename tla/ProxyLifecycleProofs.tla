------------------------ MODULE ProxyLifecycleProofs ------------------------
(***************************************************************************)
(* Proofs about ProxyLifecycle, for any number of requests and both modes. *)
(*                                                                         *)
(* The properties of a request are not inductive: that a reservation is    *)
(* given back on return rests on where a handler may hold a live one, that *)
(* a success was read to its end on what each place implies about the last *)
(* Read and the status, and that tokens are counted for successes only on  *)
(* the race of the client and the deadline with the last Read. Inside,     *)
(* Charged, Reading, Ending, Disconnected and Recorded say this of one     *)
(* request, each preserved by a step on the strength of those before it.   *)
(* The counters relate all requests, and are proved by counting: the       *)
(* handlers inside the proxied call, those whose failure was Marked, and   *)
(* those that were Rejected, none of which is unmarked again.              *)
(***************************************************************************)
EXTENDS ProxyLifecycle, FiniteSetTheorems, TLAPS

-----------------------------------------------------------------------------
(***************************************************************************)
(* Types.                                                                  *)
(***************************************************************************)
LEMMA InitType == Init => Types
BY DEF Init, Types, NoRead, NoResult, Places, Phases, Causes, Statuses, Failures

\* What the handler's helpers assign.
LEMMA TerminateType ==
    ASSUME Types, NEW r \in Requests, NEW cause \in Causes, Terminate(r, cause)
    PROVE  /\ phase' \in [Requests -> Phases]
           /\ ended' \in [Requests -> {"none"} \cup Causes]
<1>1. CASE phase[r] \in Live
  <2>1. /\ ended' = [ended EXCEPT ![r] = cause]
        /\ \E p \in Phases : phase' = [phase EXCEPT ![r] = p]
    BY <1>1 DEF Terminate, Phases
  <2> QED
    BY <2>1 DEF Types
<1>2. CASE phase[r] \notin Live
  BY <1>2 DEF Terminate, Types
<1> QED
  BY <1>1, <1>2

LEMMA RecordType ==
    ASSUME Types, NEW r \in Requests, NEW place \in {"upstream", "response"},
           RecordClientDisconnect(r, place)
    PROVE  /\ recorded' \in [Requests -> BOOLEAN]
           /\ disconnects' \in [Requests -> Seq({"upstream", "response"})]
<1>1. CASE clientDone[r] /\ ~recorded[r]
  <2>1. /\ recorded' = [recorded EXCEPT ![r] = TRUE]
        /\ disconnects' = [disconnects EXCEPT ![r] = Append(@, place)]
    BY <1>1, Zenon DEF RecordClientDisconnect
  <2> QED
    BY <2>1 DEF Types
<1>2. CASE ~(clientDone[r] /\ ~recorded[r])
  <2>1. UNCHANGED leaving
    BY <1>2, Zenon DEF RecordClientDisconnect
  <2> QED
    BY <2>1 DEF leaving, Types
<1> QED
  BY <1>1, <1>2

LEMMA ResultType ==
    ASSUME NEW R, NEW S, NEW f \in [R -> [status : S, timedOut : BOOLEAN]], NEW r \in R
    PROVE  /\ \A st \in S : [f EXCEPT ![r].status = st] \in [R -> [status : S, timedOut : BOOLEAN]]
           /\ \A b \in BOOLEAN :
                 [f EXCEPT ![r].timedOut = b] \in [R -> [status : S, timedOut : BOOLEAN]]
OBVIOUS

LEMMA CountType ==
    ASSUME Types, NEW f \in Failures, Count(f)
    PROVE  failures' \in [Failures -> Nat]
BY DEF Count, Types

LEMMA RejectsType ==
    ASSUME Types, NEW r \in Requests, Rejects(r)
    PROVE  /\ total429' \in Nat /\ enforcedRejects' \in Nat
           /\ rejected' \in [Requests -> BOOLEAN]
BY DEF Rejects, Types

LEMMA FirstByteType ==
    ASSUME Types, NEW r \in Requests, NEW bytes \in BOOLEAN, FirstByte(r, bytes)
    PROVE  /\ firstDone' \in [Requests -> BOOLEAN]
           /\ phase' \in [Requests -> Phases]
           /\ failures' \in [Failures -> Nat]
<1>1. CASE bytes /\ phase[r] # "none" /\ ~firstDone[r]
  <2>1. firstDone' = [firstDone EXCEPT ![r] = TRUE]
    BY <1>1, Zenon DEF FirstByte
  <2>2. CASE phase[r] = "forwarded"
    <3>1. phase' = [phase EXCEPT ![r] = "active"] /\ UNCHANGED failures
      BY <1>1, <2>2, Zenon DEF FirstByte
    <3> QED
      BY <2>1, <3>1 DEF Types, Phases, Live
  <2>3. CASE phase[r] # "forwarded"
    <3>1. Count("firstByte") /\ UNCHANGED phase
      BY <1>1, <2>3, Zenon DEF FirstByte
    <3>2. failures' \in [Failures -> Nat]
      BY <3>1, CountType DEF Failures
    <3> QED
      BY <2>1, <3>1, <3>2 DEF Types
  <2> QED
    BY <2>2, <2>3
<1>2. CASE ~(bytes /\ phase[r] # "none" /\ ~firstDone[r])
  <2>1. UNCHANGED <<firstDone, phase, failures>>
    BY <1>2, Zenon DEF FirstByte
  <2> QED
    BY <2>1 DEF Types
<1> QED
  BY <1>1, <1>2

LEMMA ObservesType ==
    ASSUME Types, NEW r \in Requests, NEW seen \in BOOLEAN, Observes(r, seen)
    PROVE  observed' \in [Requests -> {"none"} \cup Usages]
<1>1. CASE seen /\ parser[r] /\ observed[r] = "none" /\ ~completed[r]
  <2>1. \E u \in {"none"} \cup Usages : observed' = [observed EXCEPT ![r] = u]
    BY <1>1, Zenon DEF Observes
  <2> QED
    BY <2>1 DEF Types
<1>2. CASE ~(seen /\ parser[r] /\ observed[r] = "none" /\ ~completed[r])
  <2>1. UNCHANGED observed
    BY <1>2, Zenon DEF Observes
  <2> QED
    BY <2>1 DEF Types
<1> QED
  BY <1>1, <1>2

LEMMA StepType ==
    ASSUME Types, [Next]_vars
    PROVE  Types'
<1> USE DEF Types, Places, Proxying, Phases, Live, Causes, Statuses, Usages, Failures,
            client, handle, local, evidence, leaving, world, gauges, rejects
<1>1. ASSUME NEW r \in Requests, Route(r) PROVE Types'
  <2>0. \/ Goto(r, "done") /\ UNCHANGED admission
        \/ Goto(r, "enter") /\ UNCHANGED admission
        \/ Goto(r, "classify") /\ admission' = [admission EXCEPT ![r] = TRUE]
    BY <1>1, Zenon DEF Route
  <2>1. /\ pc' \in [Requests -> Places] /\ admission' \in [Requests -> BOOLEAN]
    <3>1. CASE Goto(r, "done") /\ UNCHANGED admission
      BY <3>1 DEF Goto
    <3>2. CASE Goto(r, "enter") /\ UNCHANGED admission
      BY <3>2 DEF Goto
    <3>3. CASE Goto(r, "classify") /\ admission' = [admission EXCEPT ![r] = TRUE]
      BY <3>3 DEF Goto
    <3> QED
      BY <2>0, <3>1, <3>2, <3>3, Zenon
  <2> HIDE DEF Places
  <2> QED
    BY <1>1, <2>1 DEF Route
<1>2. ASSUME NEW r \in Requests, Classify(r) PROVE Types'
  BY <1>2 DEF Classify, Goto
<1>3. ASSUME NEW r \in Requests, NEW failed \in BOOLEAN, Protects(r, failed) PROVE Types'
  <2>1. /\ total429' \in Nat /\ enforcedRejects' \in Nat
        /\ rejected' \in [Requests -> BOOLEAN] /\ pc' \in [Requests -> Places]
    <3>1. CASE Mode = "enforce"
      <4>1. Rejects(r) /\ Goto(r, "censor")
        BY <1>3, <3>1, Zenon DEF Protects
      <4> QED
        BY <4>1, RejectsType DEF Goto
    <3>2. CASE Mode # "enforce"
      <4>1. Goto(r, "enter") /\ UNCHANGED rejects
        BY <1>3, <3>2, Zenon DEF Protects
      <4> QED
        BY <4>1 DEF Goto
    <3> QED
      BY <3>1, <3>2
  <2>2. failures' \in [Failures -> Nat]
    BY <1>3, CountType DEF Protects
  <2> HIDE DEF Places, Failures
  <2> QED
    BY <1>3, <2>1, <2>2 DEF Protects
<1>4. ASSUME NEW r \in Requests, Admits(r) PROVE Types'
  BY <1>4 DEF Admits, Goto
<1>5. ASSUME NEW r \in Requests, MarkForwarded(r) PROVE Types'
  <2>1. CASE phase[r] = "reserved"
    <3>1. /\ phase' = [phase EXCEPT ![r] = "forwarded"]
          /\ charged' = [charged EXCEPT ![r] = TRUE]
          /\ Goto(r, "enter") /\ UNCHANGED <<terminal, rejects, failures>>
      BY <1>5, <2>1, Zenon DEF MarkForwarded
    <3> QED
      BY <1>5, <3>1 DEF MarkForwarded, Goto
  <2>2. CASE phase[r] # "reserved"
    <3>1. /\ terminal' = [terminal EXCEPT ![r] = "error"]
          /\ Count("forward") /\ Rejects(r) /\ Goto(r, "terminate")
          /\ UNCHANGED <<phase, charged>>
      BY <1>5, <2>2, Zenon DEF MarkForwarded
    <3>2. failures' \in [Failures -> Nat]
      BY <3>1, CountType
    <3>3. total429' \in Nat /\ enforcedRejects' \in Nat /\ rejected' \in [Requests -> BOOLEAN]
      BY <3>1, RejectsType
    <3> QED
      BY <1>5, <3>1, <3>2, <3>3 DEF MarkForwarded, Goto
  <2> QED
    BY <2>1, <2>2
<1>6. ASSUME NEW r \in Requests, Enter(r) PROVE Types'
  BY <1>6 DEF Enter, Goto
<1>7. ASSUME NEW r \in Requests, RoundTripFails(r) PROVE Types'
  <2>1. /\ recorded' \in [Requests -> BOOLEAN]
        /\ disconnects' \in [Requests -> Seq({"upstream", "response"})]
    BY <1>7, RecordType DEF RoundTripFails
  <2>2. proxyErrs' \in Nat /\ status' \in [Requests -> {"none"} \cup Statuses]
    <3>1. \/ UNCHANGED <<proxyErrs, status>>
          \/ proxyErrs' = proxyErrs + 1 /\ status' = [status EXCEPT ![r] = "other"]
      BY <1>7, Zenon DEF RoundTripFails
    <3>2. CASE UNCHANGED <<proxyErrs, status>>
      BY <3>2
    <3>3. CASE proxyErrs' = proxyErrs + 1 /\ status' = [status EXCEPT ![r] = "other"]
      BY <3>3
    <3> QED
      BY <3>1, <3>2, <3>3, Zenon
  <2> QED
    BY <1>7, <2>1, <2>2 DEF RoundTripFails, Goto
<1>8. ASSUME NEW r \in Requests, Responds(r) PROVE Types'
  BY <1>8 DEF Responds, Goto
<1>9. ASSUME NEW r \in Requests, NEW bytes \in BOOLEAN, NEW err \in {"none", "eof", "failed"},
             Read(r, bytes, err)
      PROVE  Types'
  <2>1. /\ firstDone' \in [Requests -> BOOLEAN] /\ phase' \in [Requests -> Phases]
        /\ failures' \in [Failures -> Nat]
    BY <1>9, FirstByteType DEF Read
  <2>2. observed' \in [Requests -> {"none"} \cup Usages]
    BY <1>9, ObservesType DEF Read
  <2>3. /\ pc' \in [Requests -> Places]
        /\ last' \in [Requests -> [bytes : BOOLEAN, err : {"none", "eof", "failed"}]]
    BY <1>9 DEF Read, Goto
  <2> HIDE DEF Places, Phases, Failures, Usages
  <2> QED
    BY <1>9, <2>1, <2>2, <2>3 DEF Read
<1>10. ASSUME NEW r \in Requests, Complete(r) PROVE Types'
  <2>1. phase' \in [Requests -> Phases] /\ ended' \in [Requests -> {"none"} \cup Causes]
    BY <1>10, TerminateType DEF Complete
  <2>2. failures' \in [Failures -> Nat]
    BY <1>10, CountType DEF Complete
  <2>3. pc' \in [Requests -> Places]
    BY <1>10 DEF Complete, Goto
  <2> HIDE DEF Places, Phases, Failures, Causes
  <2> QED
    BY <1>10, <2>1, <2>2, <2>3 DEF Complete
<1>11. ASSUME NEW r \in Requests, NEW ok \in BOOLEAN, Write(r, ok) PROVE Types'
  BY <1>11 DEF Write, Goto
<1>12. ASSUME NEW r \in Requests, Aborted(r) PROVE Types'
  <2>1. /\ recorded' \in [Requests -> BOOLEAN]
        /\ disconnects' \in [Requests -> Seq({"upstream", "response"})]
    BY <1>12, RecordType DEF Aborted
  <2>2. \/ /\ result' = [result EXCEPT ![r] = [status |-> "499", timedOut |-> FALSE]]
           /\ Goto(r, "finish")
        \/ Goto(r, "terminate") /\ UNCHANGED result
        \/ Goto(r, "done") /\ UNCHANGED result
    <3>1. CASE clientDone[r]
      BY <1>12, <3>1, Zenon DEF Aborted
    <3>2. CASE ~clientDone[r]
      <4>1. Goto(r, IF admission[r] THEN "terminate" ELSE "done") /\ UNCHANGED result
        BY <1>12, <3>2, Zenon DEF Aborted
      <4> QED
        BY <4>1
    <3> QED
      BY <3>1, <3>2
  <2>3. /\ pc' \in [Requests -> Places]
        /\ result' \in [Requests -> [status : {"none", "499"} \cup Statuses, timedOut : BOOLEAN]]
    <3>1. CASE /\ result' = [result EXCEPT ![r] = [status |-> "499", timedOut |-> FALSE]]
               /\ Goto(r, "finish")
      BY <3>1 DEF Goto
    <3>2. CASE Goto(r, "terminate") /\ UNCHANGED result
      BY <3>2 DEF Goto
    <3>3. CASE Goto(r, "done") /\ UNCHANGED result
      BY <3>3 DEF Goto
    <3> QED
      BY <2>2, <3>1, <3>2, <3>3, Zenon
  <2>4. inflight' \in Int /\ accepted' \in Nat /\ finished' \in Nat
    <3>1. Done
      BY <1>12, Zenon DEF Aborted
    <3> QED
      BY <3>1 DEF Done
  <2> HIDE DEF Places, Statuses
  <2> QED
    BY <1>12, <2>1, <2>3, <2>4 DEF Aborted
<1>13. ASSUME NEW r \in Requests, Served(r) PROVE Types'
  <2>1. /\ recorded' \in [Requests -> BOOLEAN]
        /\ disconnects' \in [Requests -> Seq({"upstream", "response"})]
    BY <1>13, RecordType DEF Served
  <2>2. pc' \in [Requests -> Places]
    BY <1>13 DEF Served, Goto
  <2>3. PICK st \in {"499"} \cup Statuses : result' = [result EXCEPT ![r].status = st]
    BY <1>13 DEF Served, StatusOrOK
  <2>4. result' \in [Requests -> [status : {"none", "499"} \cup Statuses, timedOut : BOOLEAN]]
    BY <2>3, ResultType
  <2> HIDE DEF Places, Statuses
  <2> QED
    BY <1>13, <2>1, <2>2, <2>4 DEF Served
<1>14. ASSUME NEW r \in Requests, TimedOut(r) PROVE Types'
  <2>1. result' \in [Requests -> [status : {"none", "499"} \cup Statuses, timedOut : BOOLEAN]]
    <3>1. PICK b \in BOOLEAN : result' = [result EXCEPT ![r].timedOut = b]
      BY <1>14, Zenon DEF TimedOut
    <3>2. result \in [Requests -> [status : {"none", "499"} \cup Statuses, timedOut : BOOLEAN]]
      OBVIOUS
    <3> HIDE DEF Types, Statuses
    <3> QED
      BY <3>1, <3>2, ResultType, Zenon
  <2>2. inflight' \in Int /\ accepted' \in Nat /\ finished' \in Nat
    BY <1>14 DEF TimedOut, Done
  <2> QED
    BY <1>14, <2>1, <2>2 DEF TimedOut, Goto
<1>15. ASSUME NEW r \in Requests, Finish(r) PROVE Types'
  <2>1. CASE admission[r]
    <3>1. /\ usage' = [usage EXCEPT ![r] = Append(@, Usage(r))]
          /\ completed' = [completed EXCEPT ![r] = TRUE]
          /\ terminal' = [terminal EXCEPT ![r] = TerminalCause(result[r])]
          /\ Goto(r, "terminate")
      BY <1>15, <2>1, Zenon DEF Finish
    <3>2. TerminalCause(result[r]) \in Causes /\ Usage(r) \in Usages \cup {"censored"}
      <4>1. TerminalCause(result[r]) \in Causes
        BY DEF TerminalCause
      <4>2. Usage(r) \in Usages \cup {"censored"}
        BY DEF Usage
      <4> QED
        BY <4>1, <4>2
    <3> HIDE DEF Usages, Causes
    <3> QED
      BY <1>15, <3>1, <3>2 DEF Finish, Goto
  <2>2. CASE ~admission[r]
    <3>1. Goto(r, "done") /\ UNCHANGED <<usage, completed, terminal>>
      BY <1>15, <2>2, Zenon DEF Finish
    <3> QED
      BY <1>15, <3>1 DEF Finish, Goto
  <2> QED
    BY <2>1, <2>2
<1>16. ASSUME NEW r \in Requests, DeferredTerminate(r) PROVE Types'
  <2>1. phase' \in [Requests -> Phases] /\ ended' \in [Requests -> {"none"} \cup Causes]
    <3>1. Terminate(r, terminal[r]) /\ terminal[r] \in Causes
      BY <1>16 DEF DeferredTerminate
    <3> QED
      BY <3>1, TerminateType
  <2>2. pc' \in [Requests -> Places]
    BY <1>16 DEF DeferredTerminate, Goto
  <2> HIDE DEF Places, Phases, Causes
  <2> QED
    BY <1>16, <2>1, <2>2 DEF DeferredTerminate
<1>17. ASSUME NEW r \in Requests, DeferredCensor(r) PROVE Types'
  BY <1>17 DEF DeferredCensor, Goto
<1>18. ASSUME NEW r \in Requests, ClientLeaves(r) PROVE Types'
  BY <1>18 DEF ClientLeaves
<1>19. ASSUME NEW r \in Requests, Propagates(r) PROVE Types'
  BY <1>19 DEF Propagates
<1>20. ASSUME NEW r \in Requests, DeadlinePasses(r) PROVE Types'
  BY <1>20 DEF DeadlinePasses
<1>21. ASSUME NEW r \in Requests, Reconcile(r) PROVE Types'
  BY <1>21 DEF Reconcile
<1>22. ASSUME Reset PROVE Types'
  BY <1>22 DEF Reset, Fence
<1>23. ASSUME FailClosed PROVE Types'
  BY <1>23 DEF FailClosed, Fence
<1>24. ASSUME Signal PROVE Types'
  BY <1>24 DEF Signal
<1>25. ASSUME Shutdown PROVE Types'
  BY <1>25 DEF Shutdown, Fence
<1>26. ASSUME UNCHANGED vars PROVE Types'
  BY <1>26 DEF vars
<1>27. ASSUME NEW r \in Requests, Handler(r) PROVE Types'
  BY <1>27, <1>5, <1>6, <1>10, <1>11, <1>12, <1>13, <1>14, <1>15, <1>16, <1>17,
     Zenon DEF Handler
<1> HIDE DEF Types
<1> QED
  BY <1>1, <1>2, <1>3, <1>4, <1>7, <1>8, <1>9, <1>18, <1>19, <1>20, <1>21, <1>22, <1>23, <1>24,
     <1>25, <1>26, <1>27, Zenon DEF Next

-----------------------------------------------------------------------------
(***************************************************************************)
(* What holds of one request at each place, from which its properties      *)
(* follow. After is where the handler is once the last Read has returned.  *)
(***************************************************************************)
After == {"write", "served", "deadline", "aborted", "finish", "terminate", "censor", "done"}

\* Who may hold a reservation, and where.
Inside(q) ==
    /\ pc[q] = "arrived" => ~admission[q]
    /\ pc[q] \in {"classify", "decide", "mark", "terminate", "censor"} => admission[q]
    /\ pc[q] \in {"arrived", "classify", "decide"} => phase[q] = "none"
    /\ pc[q] = "mark" => phase[q] \in {"reserved", "fenced"}
    /\ phase[q] = "reserved" => pc[q] = "mark"
    /\ phase[q] \in Live =>
          /\ admission[q] /\ ended[q] = "none"
          /\ pc[q] \in {"mark", "enter", "finish", "terminate"} \cup Proxying
    /\ phase[q] \in {"debt", "removed"} => ended[q] # "none"
    /\ ended[q] # "none" => pc[q] \in After
    /\ pc[q] = "complete" => last[q].err = "eof"
    /\ pc[q] = "write" /\ last[q].err # "eof" => ended[q] = "none"
    /\ phase[q] = "active" => firstDone[q]

Charged(q) ==
    Mode = "enforce" /\ admission[q] /\ pc[q] \in {"enter",
    "finish"} \cup Proxying => charged[q]

Whole(q) == status[q] = "2xx" /\ last[q].err = "eof"

\* What has been read of the response of a success.
Reading(q) ==
    /\ pc[q] \in {"arrived", "classify", "decide", "mark", "enter", "roundTrip"} => status[q] = "none"
    /\ pc[q] \in {"copy", "complete", "write"} => status[q] # "none"
    /\ pc[q] = "complete" => Whole(q) /\ phase[q] # "none"
    /\ ended[q] = "success" => Whole(q) /\ pc[q] \in After
    /\ terminal[q] = "success" => Whole(q) /\ pc[q] \in {"terminate", "censor", "done"}
    /\ pc[q] = "served" => Whole(q) \/ status[q] = "other" \/ (status[q] = "none" /\ clientDone[q])
    /\ pc[q] \in {"deadline", "finish"} /\ result[q].status = "2xx" => Whole(q)

\* The controller saw the success, unless the handle was fenced first.
Won(q) == phase[q] # "none" => ended[q] = "success" \/ phase[q] = "fenced"

Ending(q) ==
    /\ ctxErr[q] = "canceled" \/ recorded[q] => clientDone[q]
    /\ pc[q] \in {"write", "served"} /\ Whole(q) => Won(q) \/ ctxErr[q] # "none"
    /\ pc[q] = "deadline" /\ result[q].status = "2xx" => Won(q) \/ ctxErr[q] = "deadline"
    /\ pc[q] = "finish" /\ Succeeded(result[q]) => Won(q)

Disconnected(q) ==
    /\ pc[q] \in {"deadline", "finish"} =>
          (result[q].status = "2xx" => ~recorded[q]) /\ (result[q].status = "499" => recorded[q])
    /\ terminal[q] = "disconnect" => recorded[q]
    /\ ended[q] = "disconnect" => recorded[q]
    /\ Len(disconnects[q]) = (IF recorded[q] THEN 1 ELSE 0)

Recorded(q) ==
    /\ Len(usage[q]) = (IF completed[q] THEN 1 ELSE 0)
    /\ completed[q] => admission[q] /\ pc[q] \in {"terminate", "censor", "done"}
    /\ pc[q] = "done" => completed[q] = admission[q]
    /\ completed[q] /\ usage[q][1] = "available" => ~recorded[q] /\ Won(q)

\* The cases of the helpers with a condition inside.
LEMMA FirstByteCases ==
    ASSUME NEW r \in Requests, NEW bytes \in BOOLEAN, FirstByte(r, bytes)
    PROVE  \/ UNCHANGED <<firstDone, phase, failures>>
           \/ /\ phase[r] = "forwarded" /\ firstDone' = [firstDone EXCEPT ![r] = TRUE]
              /\ phase' = [phase EXCEPT ![r] = "active"] /\ UNCHANGED failures
           \/ /\ phase[r] \notin {"none", "forwarded"} /\ ~firstDone[r]
              /\ firstDone' = [firstDone EXCEPT ![r] = TRUE]
              /\ UNCHANGED phase /\ Count("firstByte")
BY Zenon DEF FirstByte

LEMMA TerminateCases ==
    ASSUME NEW r \in Requests, NEW cause, Terminate(r, cause)
    PROVE  \/ /\ phase[r] \in Live /\ ended' = [ended EXCEPT ![r] = cause]
              /\ \/ phase' = [phase EXCEPT ![r] = "removed"]
                 \/ phase' = [phase EXCEPT ![r] = "debt"]
           \/ phase[r] \notin Live /\ UNCHANGED <<ended, phase>>
<1>1. CASE phase[r] \in Live
  BY <1>1 DEF Terminate
<1>2. CASE phase[r] \notin Live
  BY <1>2, Zenon DEF Terminate
<1> QED
  BY <1>1, <1>2

LEMMA RecordCases ==
    ASSUME Types, NEW r \in Requests, NEW q \in Requests,
           NEW place \in {"upstream", "response"}, RecordClientDisconnect(r, place),
           Len(disconnects[q]) = (IF recorded[q] THEN 1 ELSE 0)
    PROVE  /\ q = r /\ clientDone[r] => recorded'[q]
           /\ recorded[q] => recorded'[q]
           /\ ~(q = r /\ clientDone[r]) /\ ~recorded[q] => ~recorded'[q]
           /\ Len(disconnects[q])' = (IF recorded'[q] THEN 1 ELSE 0)
<1>0. /\ recorded \in [Requests -> BOOLEAN]
      /\ disconnects \in [Requests -> Seq({"upstream", "response"})]
  BY DEF Types
<1>1. CASE clientDone[r] /\ ~recorded[r]
  <2>1. /\ recorded' = [recorded EXCEPT ![r] = TRUE]
        /\ disconnects' = [disconnects EXCEPT ![r] = Append(@, place)]
    BY <1>1, Zenon DEF RecordClientDisconnect
  <2>2. CASE q = r
    <3>1. disconnects'[q] = Append(disconnects[q], place) /\ recorded'[q] = TRUE
      BY <1>0, <2>1, <2>2
    <3>2. Len(disconnects[q]) = 0 /\ disconnects[q] \in Seq({"upstream", "response"})
      BY <1>0, <1>1, <2>2
    <3>3. Len(disconnects[q])' = 1
      BY <3>1, <3>2
    <3> QED
      BY <1>1, <2>2, <3>1, <3>3
  <2>3. CASE q # r
    BY <1>0, <2>1, <2>3
  <2> QED
    BY <2>2, <2>3
<1>2. CASE ~(clientDone[r] /\ ~recorded[r])
  <2>1. UNCHANGED leaving
    BY <1>2, Zenon DEF RecordClientDisconnect
  <2> QED
    BY <1>2, <2>1 DEF leaving
<1> QED
  BY <1>1, <1>2

LEMMA StepInside ==
    ASSUME Types, NEW q \in Requests, Inside(q), [Next]_vars
    PROVE  Inside(q)'
<1>0. /\ pc \in [Requests -> Places] /\ admission \in [Requests -> BOOLEAN]
      /\ phase \in [Requests -> Phases] /\ ended \in [Requests -> {"none"} \cup Causes]
      /\ firstDone \in [Requests -> BOOLEAN]
      /\ last \in [Requests -> [bytes : BOOLEAN, err : {"none", "eof", "failed"}]]
  BY DEF Types
<1> USE <1>0 DEF Inside, Live, After, Proxying, client, handle, local, evidence, leaving,
              world, gauges, rejects
<1>1. ASSUME NEW r \in Requests, Route(r) PROVE Inside(q)'
  BY <1>1 DEF Route, Goto
<1>2. ASSUME NEW r \in Requests, Classify(r) PROVE Inside(q)'
  BY <1>2 DEF Classify, Goto
<1>3. ASSUME NEW r \in Requests, NEW failed \in BOOLEAN, Protects(r, failed) PROVE Inside(q)'
  BY <1>3 DEF Protects, Goto, Rejects, Count
<1>4. ASSUME NEW r \in Requests, Admits(r) PROVE Inside(q)'
  BY <1>4 DEF Admits, Goto
<1>5. ASSUME NEW r \in Requests, MarkForwarded(r) PROVE Inside(q)'
  BY <1>5 DEF MarkForwarded, Goto, Rejects, Count
<1>6. ASSUME NEW r \in Requests, Enter(r) PROVE Inside(q)'
  BY <1>6 DEF Enter, Goto
<1>7. ASSUME NEW r \in Requests, RoundTripFails(r) PROVE Inside(q)'
  BY <1>7 DEF RoundTripFails, Goto, RecordClientDisconnect
<1>8. ASSUME NEW r \in Requests, Responds(r) PROVE Inside(q)'
  BY <1>8 DEF Responds, Goto
<1>9. ASSUME NEW r \in Requests, NEW bytes \in BOOLEAN, NEW err \in {"none", "eof", "failed"},
             Read(r, bytes, err)
      PROVE  Inside(q)'
  <2>1. CASE UNCHANGED <<firstDone, phase, failures>>
    BY <1>9, <2>1 DEF Read, Goto, Completes
  <2>2. CASE /\ phase[r] = "forwarded" /\ firstDone' = [firstDone EXCEPT ![r] = TRUE]
             /\ phase' = [phase EXCEPT ![r] = "active"]
    BY <1>9, <2>2 DEF Read, Goto, Completes
  <2>3. CASE firstDone' = [firstDone EXCEPT ![r] = TRUE] /\ UNCHANGED phase
    BY <1>9, <2>3 DEF Read, Goto, Completes
  <2> QED
    BY <1>9, <2>1, <2>2, <2>3, FirstByteCases, Zenon DEF Read
<1>10. ASSUME NEW r \in Requests, Complete(r) PROVE Inside(q)'
  BY <1>10 DEF Complete, Goto, Terminate, Count
<1>11. ASSUME NEW r \in Requests, NEW ok \in BOOLEAN, Write(r, ok) PROVE Inside(q)'
  <2>1. pc'[q] = pc[q] \/ (q = r /\ pc'[q] \in {"aborted", "served"})
        \/ (q = r /\ pc'[q] = "copy" /\ last[q].err = "none")
    BY <1>11 DEF Write, Goto
  <2> QED
    BY <1>11, <2>1 DEF Write
<1>12. ASSUME NEW r \in Requests, Aborted(r) PROVE Inside(q)'
  BY <1>12 DEF Aborted, Goto, RecordClientDisconnect, Done
<1>13. ASSUME NEW r \in Requests, Served(r) PROVE Inside(q)'
  BY <1>13 DEF Served, Goto, RecordClientDisconnect
<1>14. ASSUME NEW r \in Requests, TimedOut(r) PROVE Inside(q)'
  BY <1>14 DEF TimedOut, Goto, Done
<1>15. ASSUME NEW r \in Requests, Finish(r) PROVE Inside(q)'
  BY <1>15 DEF Finish, Goto
<1>16. ASSUME NEW r \in Requests, DeferredTerminate(r) PROVE Inside(q)'
  <2>1. CASE phase[r] \in Live
    <3>1. /\ ended' = [ended EXCEPT ![r] = terminal[r]] /\ terminal[r] # "none"
          /\ \E p \in {"removed", "debt"} : phase' = [phase EXCEPT ![r] = p]
      BY <1>16, <2>1 DEF DeferredTerminate, Terminate, Types, Causes
    <3> QED
      BY <1>16, <3>1 DEF DeferredTerminate, Goto
  <2>2. CASE phase[r] \notin Live
    <3>1. UNCHANGED <<ended, phase>>
      BY <1>16, <2>2 DEF DeferredTerminate, Terminate
    <3> QED
      BY <1>16, <2>2, <3>1 DEF DeferredTerminate, Goto
  <2> QED
    BY <2>1, <2>2
<1>17. ASSUME NEW r \in Requests, DeferredCensor(r) PROVE Inside(q)'
  BY <1>17 DEF DeferredCensor, Goto
<1>18. ASSUME NEW r \in Requests, ClientLeaves(r) PROVE Inside(q)'
  BY <1>18 DEF ClientLeaves
<1>19. ASSUME NEW r \in Requests, Propagates(r) PROVE Inside(q)'
  BY <1>19 DEF Propagates
<1>20. ASSUME NEW r \in Requests, DeadlinePasses(r) PROVE Inside(q)'
  BY <1>20 DEF DeadlinePasses
<1>21. ASSUME NEW r \in Requests, Reconcile(r) PROVE Inside(q)'
  BY <1>21 DEF Reconcile
<1>22. ASSUME Reset PROVE Inside(q)'
  BY <1>22 DEF Reset, Fence
<1>23. ASSUME FailClosed PROVE Inside(q)'
  BY <1>23 DEF FailClosed, Fence
<1>24. ASSUME Signal PROVE Inside(q)'
  BY <1>24 DEF Signal
<1>25. ASSUME Shutdown PROVE Inside(q)'
  BY <1>25 DEF Shutdown, Fence
<1>26. ASSUME UNCHANGED vars PROVE Inside(q)'
  BY <1>26 DEF vars
<1> HIDE DEF Inside
<1>27. ASSUME NEW r \in Requests, Handler(r) PROVE Inside(q)'
  BY <1>27, <1>5, <1>6, <1>10, <1>11, <1>12, <1>13, <1>14, <1>15, <1>16, <1>17,
     Zenon DEF Handler
<1> QED
  BY <1>1, <1>2, <1>3, <1>4, <1>7, <1>8, <1>9, <1>18, <1>19, <1>20, <1>21, <1>22, <1>23, <1>24,
     <1>25, <1>26, <1>27, Zenon DEF Next

LEMMA StepCharged ==
    ASSUME Types, NEW q \in Requests, Inside(q), Charged(q), [Next]_vars
    PROVE  Charged(q)'
<1>0. /\ pc \in [Requests -> Places] /\ admission \in [Requests -> BOOLEAN]
      /\ charged \in [Requests -> BOOLEAN]
  BY DEF Types
<1> USE <1>0 DEF Inside, Charged, Proxying, client, handle, local, evidence, leaving, world,
              gauges, rejects
<1>1. ASSUME NEW r \in Requests, Route(r) PROVE Charged(q)'
  BY <1>1 DEF Route, Goto
<1>2. ASSUME NEW r \in Requests, Classify(r) PROVE Charged(q)'
  BY <1>2 DEF Classify, Goto
<1>3. ASSUME NEW r \in Requests, NEW failed \in BOOLEAN, Protects(r, failed) PROVE Charged(q)'
  BY <1>3 DEF Protects, Goto, Rejects, Count
<1>4. ASSUME NEW r \in Requests, Admits(r) PROVE Charged(q)'
  BY <1>4 DEF Admits, Goto
<1>5. ASSUME NEW r \in Requests, MarkForwarded(r) PROVE Charged(q)'
  BY <1>5 DEF MarkForwarded, Goto, Rejects, Count
<1>6. ASSUME NEW r \in Requests, Enter(r) PROVE Charged(q)'
  BY <1>6 DEF Enter, Goto
<1>7. ASSUME NEW r \in Requests, RoundTripFails(r) PROVE Charged(q)'
  BY <1>7 DEF RoundTripFails, Goto, RecordClientDisconnect
<1>8. ASSUME NEW r \in Requests, Responds(r) PROVE Charged(q)'
  BY <1>8 DEF Responds, Goto
<1>9. ASSUME NEW r \in Requests, NEW bytes \in BOOLEAN, NEW err \in {"none", "eof", "failed"},
             Read(r, bytes, err)
      PROVE  Charged(q)'
  BY <1>9 DEF Read, Goto, Observes, FirstByte, Count
<1>10. ASSUME NEW r \in Requests, Complete(r) PROVE Charged(q)'
  BY <1>10 DEF Complete, Goto, Terminate, Count
<1>11. ASSUME NEW r \in Requests, NEW ok \in BOOLEAN, Write(r, ok) PROVE Charged(q)'
  BY <1>11 DEF Write, Goto
<1>12. ASSUME NEW r \in Requests, Aborted(r) PROVE Charged(q)'
  BY <1>12 DEF Aborted, Goto, RecordClientDisconnect, Done
<1>13. ASSUME NEW r \in Requests, Served(r) PROVE Charged(q)'
  BY <1>13 DEF Served, Goto, RecordClientDisconnect
<1>14. ASSUME NEW r \in Requests, TimedOut(r) PROVE Charged(q)'
  BY <1>14 DEF TimedOut, Goto, Done
<1>15. ASSUME NEW r \in Requests, Finish(r) PROVE Charged(q)'
  BY <1>15 DEF Finish, Goto
<1>16. ASSUME NEW r \in Requests, DeferredTerminate(r) PROVE Charged(q)'
  BY <1>16 DEF DeferredTerminate, Goto, Terminate
<1>17. ASSUME NEW r \in Requests, DeferredCensor(r) PROVE Charged(q)'
  BY <1>17 DEF DeferredCensor, Goto
<1>18. ASSUME NEW r \in Requests, ClientLeaves(r) PROVE Charged(q)'
  BY <1>18 DEF ClientLeaves
<1>19. ASSUME NEW r \in Requests, Propagates(r) PROVE Charged(q)'
  BY <1>19 DEF Propagates
<1>20. ASSUME NEW r \in Requests, DeadlinePasses(r) PROVE Charged(q)'
  BY <1>20 DEF DeadlinePasses
<1>21. ASSUME NEW r \in Requests, Reconcile(r) PROVE Charged(q)'
  BY <1>21 DEF Reconcile
<1>22. ASSUME Reset PROVE Charged(q)'
  BY <1>22 DEF Reset, Fence
<1>23. ASSUME FailClosed PROVE Charged(q)'
  BY <1>23 DEF FailClosed, Fence
<1>24. ASSUME Signal PROVE Charged(q)'
  BY <1>24 DEF Signal
<1>25. ASSUME Shutdown PROVE Charged(q)'
  BY <1>25 DEF Shutdown, Fence
<1>26. ASSUME UNCHANGED vars PROVE Charged(q)'
  BY <1>26 DEF vars
<1> HIDE DEF Charged
<1>27. ASSUME NEW r \in Requests, Handler(r) PROVE Charged(q)'
  BY <1>27, <1>5, <1>6, <1>10, <1>11, <1>12, <1>13, <1>14, <1>15, <1>16, <1>17,
     Zenon DEF Handler
<1> QED
  BY <1>1, <1>2, <1>3, <1>4, <1>7, <1>8, <1>9, <1>18, <1>19, <1>20, <1>21, <1>22, <1>23, <1>24,
     <1>25, <1>26, <1>27, Zenon DEF Next

LEMMA StepReading ==
    ASSUME Types, NEW q \in Requests, Inside(q), Reading(q), [Next]_vars
    PROVE  Reading(q)'
<1>0. /\ pc \in [Requests -> Places] /\ admission \in [Requests -> BOOLEAN]
      /\ phase \in [Requests -> Phases] /\ ended \in [Requests -> {"none"} \cup Causes]
      /\ last \in [Requests -> [bytes : BOOLEAN, err : {"none", "eof", "failed"}]]
      /\ status \in [Requests -> {"none"} \cup Statuses] /\ terminal \in [Requests -> Causes]
      /\ result \in [Requests -> [status : {"none", "499"} \cup Statuses, timedOut : BOOLEAN]]
      /\ clientDone \in [Requests -> BOOLEAN]
      /\ ctxErr \in [Requests -> {"none", "canceled", "deadline"}]
  BY DEF Types
<1> USE <1>0 DEF Inside, Reading, Whole, Live, After, client, handle, local, evidence, leaving,
              world, gauges, rejects
<1>1. ASSUME NEW r \in Requests, Route(r) PROVE Reading(q)'
  BY <1>1 DEF Route, Goto
<1>2. ASSUME NEW r \in Requests, Classify(r) PROVE Reading(q)'
  BY <1>2 DEF Classify, Goto
<1>3. ASSUME NEW r \in Requests, NEW failed \in BOOLEAN, Protects(r, failed) PROVE Reading(q)'
  BY <1>3 DEF Protects, Goto, Rejects, Count
<1>4. ASSUME NEW r \in Requests, Admits(r) PROVE Reading(q)'
  BY <1>4 DEF Admits, Goto
<1>5. ASSUME NEW r \in Requests, MarkForwarded(r) PROVE Reading(q)'
  BY <1>5 DEF MarkForwarded, Goto, Rejects, Count
<1>6. ASSUME NEW r \in Requests, Enter(r) PROVE Reading(q)'
  BY <1>6 DEF Enter, Goto
<1>7. ASSUME NEW r \in Requests, RoundTripFails(r) PROVE Reading(q)'
  <2>1. CASE clientDone[r]
    <3>1. UNCHANGED status
      BY <1>7, <2>1, Zenon DEF RoundTripFails
    <3> QED
      BY <1>7, <2>1, <3>1 DEF RoundTripFails, Goto
  <2>2. CASE ~clientDone[r]
    <3>1. status' = [status EXCEPT ![r] = "other"]
      BY <1>7, <2>2, Zenon DEF RoundTripFails
    <3> QED
      BY <1>7, <3>1 DEF RoundTripFails, Goto
  <2> QED
    BY <2>1, <2>2
<1>8. ASSUME NEW r \in Requests, Responds(r) PROVE Reading(q)'
  BY <1>8 DEF Responds, Goto, Statuses
<1>9. ASSUME NEW r \in Requests, NEW bytes \in BOOLEAN, NEW err \in {"none", "eof", "failed"},
             Read(r, bytes, err)
      PROVE  Reading(q)'
  <2>1. /\ (phase'[q] = "none") = (phase[q] = "none")
        /\ last'[q] = IF q = r THEN [bytes |-> bytes, err |-> err] ELSE last[q]
    <3>1. last'[q] = IF q = r THEN [bytes |-> bytes, err |-> err] ELSE last[q]
      BY <1>9 DEF Read
    <3>2. \/ UNCHANGED phase
          \/ phase[r] = "forwarded" /\ phase' = [phase EXCEPT ![r] = "active"]
      BY <1>9, FirstByteCases, Zenon DEF Read
    <3>3. (phase'[q] = "none") = (phase[q] = "none")
      BY <3>2
    <3> QED
      BY <3>1, <3>3
  <2>2. pc'[q] = IF q # r THEN pc[q] ELSE IF Completes(r, err) THEN "complete" ELSE "write"
    BY <1>9 DEF Read, Goto
  <2>3. CASE q = r
    BY <1>9, <2>1, <2>2, <2>3 DEF Read, Completes
  <2>4. CASE q # r
    BY <1>9, <2>1, <2>2, <2>4 DEF Read
  <2> QED
    BY <2>3, <2>4
<1>10. ASSUME NEW r \in Requests, Complete(r) PROVE Reading(q)'
  BY <1>10 DEF Complete, Goto, Terminate, Count
<1>11. ASSUME NEW r \in Requests, NEW ok \in BOOLEAN, Write(r, ok) PROVE Reading(q)'
  <2>1. \/ pc'[q] = pc[q] /\ q # r
        \/ q = r /\ pc'[q] = "aborted"
        \/ q = r /\ pc'[q] = "served" /\ last[q].err = "eof"
        \/ q = r /\ pc'[q] = "copy" /\ last[q].err = "none"
    BY <1>11 DEF Write, Goto
  <2> QED
    BY <1>11, <2>1 DEF Write, Types, Statuses
<1>12. ASSUME NEW r \in Requests, Aborted(r) PROVE Reading(q)'
  BY <1>12 DEF Aborted, Goto, RecordClientDisconnect, Done
<1>13. ASSUME NEW r \in Requests, Served(r) PROVE Reading(q)'
  <2>1. CASE q = r
    <3>1. result'[q].status = IF clientDone[q] THEN "499" ELSE StatusOrOK(q)
      BY <1>13, <2>1 DEF Served
    <3>2. pc[q] = "served" /\ pc'[q] = "deadline"
      BY <1>13, <2>1 DEF Served, Goto
    <3> QED
      BY <1>13, <2>1, <3>1, <3>2 DEF Served, StatusOrOK
  <2>2. CASE q # r
    <3>1. pc'[q] = pc[q] /\ result'[q] = result[q]
      BY <1>13, <2>2 DEF Served, Goto
    <3> QED
      BY <1>13, <3>1 DEF Served
  <2> QED
    BY <2>1, <2>2
<1>14. ASSUME NEW r \in Requests, TimedOut(r) PROVE Reading(q)'
  BY <1>14 DEF TimedOut, Goto, Done
<1>15. ASSUME NEW r \in Requests, Finish(r) PROVE Reading(q)'
  <2>1. \/ UNCHANGED terminal /\ pc' = [pc EXCEPT ![r] = "done"] /\ ~admission[r]
        \/ /\ terminal' = [terminal EXCEPT ![r] = TerminalCause(result[r])]
           /\ pc' = [pc EXCEPT ![r] = "terminate"]
    BY <1>15, Zenon DEF Finish, Goto
  <2>2. TerminalCause(result[r]) = "success" => result[r].status = "2xx"
    BY DEF TerminalCause
  <2>3. pc[r] = "finish"
    BY <1>15 DEF Finish
  <2>4. UNCHANGED <<status, last, ended, phase, clientDone, result>>
    BY <1>15 DEF Finish
  <2> QED
    BY <2>1, <2>2, <2>3, <2>4
<1>16. ASSUME NEW r \in Requests, DeferredTerminate(r) PROVE Reading(q)'
  BY <1>16 DEF DeferredTerminate, Goto, Terminate
<1>17. ASSUME NEW r \in Requests, DeferredCensor(r) PROVE Reading(q)'
  BY <1>17 DEF DeferredCensor, Goto
<1>18. ASSUME NEW r \in Requests, ClientLeaves(r) PROVE Reading(q)'
  BY <1>18 DEF ClientLeaves
<1>19. ASSUME NEW r \in Requests, Propagates(r) PROVE Reading(q)'
  BY <1>19 DEF Propagates
<1>20. ASSUME NEW r \in Requests, DeadlinePasses(r) PROVE Reading(q)'
  BY <1>20 DEF DeadlinePasses
<1>21. ASSUME NEW r \in Requests, Reconcile(r) PROVE Reading(q)'
  BY <1>21 DEF Reconcile
<1>22. ASSUME Reset PROVE Reading(q)'
  BY <1>22 DEF Reset, Fence
<1>23. ASSUME FailClosed PROVE Reading(q)'
  BY <1>23 DEF FailClosed, Fence
<1>24. ASSUME Signal PROVE Reading(q)'
  BY <1>24 DEF Signal
<1>25. ASSUME Shutdown PROVE Reading(q)'
  BY <1>25 DEF Shutdown, Fence
<1>26. ASSUME UNCHANGED vars PROVE Reading(q)'
  BY <1>26 DEF vars
<1> HIDE DEF Reading
<1>27. ASSUME NEW r \in Requests, Handler(r) PROVE Reading(q)'
  BY <1>27, <1>5, <1>6, <1>10, <1>11, <1>12, <1>13, <1>14, <1>15, <1>16, <1>17,
     Zenon DEF Handler
<1> QED
  BY <1>1, <1>2, <1>3, <1>4, <1>7, <1>8, <1>9, <1>18, <1>19, <1>20, <1>21, <1>22, <1>23, <1>24,
     <1>25, <1>26, <1>27, Zenon DEF Next

LEMMA StepEnding ==
    ASSUME Types, NEW q \in Requests, Inside(q), Reading(q), Ending(q), [Next]_vars
    PROVE  Ending(q)'
<1>0. /\ pc \in [Requests -> Places] /\ admission \in [Requests -> BOOLEAN]
      /\ phase \in [Requests -> Phases] /\ ended \in [Requests -> {"none"} \cup Causes]
      /\ last \in [Requests -> [bytes : BOOLEAN, err : {"none", "eof", "failed"}]]
      /\ status \in [Requests -> {"none"} \cup Statuses] /\ terminal \in [Requests -> Causes]
      /\ result \in [Requests -> [status : {"none", "499"} \cup Statuses, timedOut : BOOLEAN]]
      /\ clientDone \in [Requests -> BOOLEAN]
      /\ ctxErr \in [Requests -> {"none", "canceled", "deadline"}]
      /\ recorded \in [Requests -> BOOLEAN]
  BY DEF Types
<1> USE <1>0 DEF Inside, Reading, Ending, Whole, Won, Succeeded, Live, After, client, handle,
              local, evidence, leaving, world, gauges, rejects
<1>1. ASSUME NEW r \in Requests, Route(r) PROVE Ending(q)'
  BY <1>1 DEF Route, Goto
<1>2. ASSUME NEW r \in Requests, Classify(r) PROVE Ending(q)'
  BY <1>2 DEF Classify, Goto
<1>3. ASSUME NEW r \in Requests, NEW failed \in BOOLEAN, Protects(r, failed) PROVE Ending(q)'
  BY <1>3 DEF Protects, Goto, Rejects, Count
<1>4. ASSUME NEW r \in Requests, Admits(r) PROVE Ending(q)'
  BY <1>4 DEF Admits, Goto
<1>5. ASSUME NEW r \in Requests, MarkForwarded(r) PROVE Ending(q)'
  BY <1>5 DEF MarkForwarded, Goto, Rejects, Count
<1>6. ASSUME NEW r \in Requests, Enter(r) PROVE Ending(q)'
  BY <1>6 DEF Enter, Goto
<1>7. ASSUME NEW r \in Requests, RoundTripFails(r) PROVE Ending(q)'
  BY <1>7 DEF RoundTripFails, Goto, RecordClientDisconnect
<1>8. ASSUME NEW r \in Requests, Responds(r) PROVE Ending(q)'
  BY <1>8 DEF Responds, Goto
<1>9. ASSUME NEW r \in Requests, NEW bytes \in BOOLEAN, NEW err \in {"none", "eof", "failed"},
             Read(r, bytes, err)
      PROVE  Ending(q)'
  <2>1. /\ ended' = ended /\ status' = status /\ ctxErr' = ctxErr /\ clientDone' = clientDone
        /\ recorded' = recorded /\ result' = result
    BY <1>9 DEF Read
  <2>2. \/ UNCHANGED phase
        \/ phase[r] = "forwarded" /\ phase' = [phase EXCEPT ![r] = "active"]
    BY <1>9, FirstByteCases, Zenon DEF Read
  <2>3. CASE q = r
    <3>1. pc[q] = "copy" /\ pc'[q] = IF Completes(r, err) THEN "complete" ELSE "write"
      BY <1>9, <2>3 DEF Read, Goto
    <3>2. last'[q].err = err
      BY <1>9, <2>3 DEF Read
    <3> QED
      BY <2>1, <2>2, <2>3, <3>1, <3>2 DEF Completes
  <2>4. CASE q # r
    <3>1. pc'[q] = pc[q] /\ last'[q] = last[q] /\ phase'[q] = phase[q]
      BY <1>9, <2>2, <2>4 DEF Read, Goto
    <3> QED
      BY <2>1, <3>1
  <2> QED
    BY <2>3, <2>4
<1>10. ASSUME NEW r \in Requests, Complete(r) PROVE Ending(q)'
  <2>1. /\ status' = status /\ ctxErr' = ctxErr /\ clientDone' = clientDone
        /\ recorded' = recorded /\ result' = result /\ last' = last
    BY <1>10 DEF Complete
  <2>2. CASE q = r
    <3>1. pc[q] = "complete" /\ pc'[q] = "write"
      BY <1>10, <2>2 DEF Complete, Goto
    <3>2. Won(q)'
      <4>1. CASE phase[r] \in Live
        <5>1. ended' = [ended EXCEPT ![r] = "success"]
          BY <1>10, <4>1, Zenon DEF Complete, Terminate
        <5> QED
          BY <2>2, <5>1
      <4>2. CASE phase[r] \notin Live
        <5>1. UNCHANGED <<ended, phase>>
          BY <1>10, <4>2, Zenon DEF Complete, Terminate
        <5> QED
          BY <2>2, <3>1, <4>2, <5>1 DEF Phases
      <4> QED
        BY <4>1, <4>2
    <3> HIDE DEF Won
    <3> QED
      BY <2>1, <3>1, <3>2
  <2>3. CASE q # r
    <3>1. pc'[q] = pc[q] /\ phase'[q] = phase[q] /\ ended'[q] = ended[q]
      <4>1. pc'[q] = pc[q]
        BY <1>10, <2>3 DEF Complete, Goto
      <4>2. phase'[q] = phase[q] /\ ended'[q] = ended[q]
        BY <1>10, <2>3, TerminateCases DEF Complete
      <4> QED
        BY <4>1, <4>2
    <3> QED
      BY <2>1, <3>1
  <2> QED
    BY <2>2, <2>3
<1>11. ASSUME NEW r \in Requests, NEW ok \in BOOLEAN, Write(r, ok) PROVE Ending(q)'
  BY <1>11 DEF Write, Goto
<1>12. ASSUME NEW r \in Requests, Aborted(r) PROVE Ending(q)'
  BY <1>12 DEF Aborted, Goto, RecordClientDisconnect, Done
<1>13. ASSUME NEW r \in Requests, Served(r) PROVE Ending(q)'
  <2>1. /\ status' = status /\ ctxErr' = ctxErr /\ clientDone' = clientDone
        /\ phase' = phase /\ ended' = ended /\ last' = last
    BY <1>13 DEF Served
  <2>2. recorded'[q] => recorded[q] \/ clientDone[q]
    BY <1>13 DEF Served, RecordClientDisconnect
  <2>3. CASE q = r
    <3>1. result'[q].status = IF clientDone[q] THEN "499" ELSE StatusOrOK(q)
      BY <1>13, <2>3 DEF Served
    <3>2. pc[q] = "served" /\ pc'[q] = "deadline"
      BY <1>13, <2>3 DEF Served, Goto
    <3> QED
      BY <2>1, <2>2, <3>1, <3>2 DEF StatusOrOK
  <2>4. CASE q # r
    <3>1. pc'[q] = pc[q] /\ result'[q] = result[q]
      BY <1>13, <2>4 DEF Served, Goto
    <3> QED
      BY <2>1, <2>2, <3>1
  <2> QED
    BY <2>3, <2>4
<1>14. ASSUME NEW r \in Requests, TimedOut(r) PROVE Ending(q)'
  BY <1>14 DEF TimedOut, Goto, Done
<1>15. ASSUME NEW r \in Requests, Finish(r) PROVE Ending(q)'
  BY <1>15 DEF Finish, Goto
<1>16. ASSUME NEW r \in Requests, DeferredTerminate(r) PROVE Ending(q)'
  BY <1>16 DEF DeferredTerminate, Goto, Terminate
<1>17. ASSUME NEW r \in Requests, DeferredCensor(r) PROVE Ending(q)'
  BY <1>17 DEF DeferredCensor, Goto
<1>18. ASSUME NEW r \in Requests, ClientLeaves(r) PROVE Ending(q)'
  BY <1>18 DEF ClientLeaves
<1>19. ASSUME NEW r \in Requests, Propagates(r) PROVE Ending(q)'
  BY <1>19 DEF Propagates
<1>20. ASSUME NEW r \in Requests, DeadlinePasses(r) PROVE Ending(q)'
  BY <1>20 DEF DeadlinePasses
<1>21. ASSUME NEW r \in Requests, Reconcile(r) PROVE Ending(q)'
  BY <1>21 DEF Reconcile
<1>22. ASSUME Reset PROVE Ending(q)'
  BY <1>22 DEF Reset, Fence
<1>23. ASSUME FailClosed PROVE Ending(q)'
  BY <1>23 DEF FailClosed, Fence
<1>24. ASSUME Signal PROVE Ending(q)'
  BY <1>24 DEF Signal
<1>25. ASSUME Shutdown PROVE Ending(q)'
  BY <1>25 DEF Shutdown, Fence
<1>26. ASSUME UNCHANGED vars PROVE Ending(q)'
  BY <1>26 DEF vars
<1> HIDE DEF Ending
<1>27. ASSUME NEW r \in Requests, Handler(r) PROVE Ending(q)'
  BY <1>27, <1>5, <1>6, <1>10, <1>11, <1>12, <1>13, <1>14, <1>15, <1>16, <1>17,
     Zenon DEF Handler
<1> QED
  BY <1>1, <1>2, <1>3, <1>4, <1>7, <1>8, <1>9, <1>18, <1>19, <1>20, <1>21, <1>22, <1>23, <1>24,
     <1>25, <1>26, <1>27, Zenon DEF Next

LEMMA StepDisconnected ==
    ASSUME Types, NEW q \in Requests, Inside(q), Reading(q), Ending(q), Disconnected(q),
           [Next]_vars
    PROVE  Disconnected(q)'
<1>0. /\ pc \in [Requests -> Places] /\ admission \in [Requests -> BOOLEAN]
      /\ phase \in [Requests -> Phases] /\ ended \in [Requests -> {"none"} \cup Causes]
      /\ status \in [Requests -> {"none"} \cup Statuses] /\ terminal \in [Requests -> Causes]
      /\ result \in [Requests -> [status : {"none", "499"} \cup Statuses, timedOut : BOOLEAN]]
      /\ clientDone \in [Requests -> BOOLEAN]
      /\ ctxErr \in [Requests -> {"none", "canceled", "deadline"}]
      /\ recorded \in [Requests -> BOOLEAN]
      /\ disconnects \in [Requests -> Seq({"upstream", "response"})]
  BY DEF Types
<1> USE <1>0 DEF Inside, Ending, Disconnected, Live, After, client, handle, local, evidence,
              leaving, world, gauges, rejects
<1>1. ASSUME NEW r \in Requests, Route(r) PROVE Disconnected(q)'
  BY <1>1 DEF Route, Goto
<1>2. ASSUME NEW r \in Requests, Classify(r) PROVE Disconnected(q)'
  BY <1>2 DEF Classify, Goto
<1>3. ASSUME NEW r \in Requests, NEW failed \in BOOLEAN, Protects(r, failed)
      PROVE  Disconnected(q)'
  BY <1>3 DEF Protects, Goto, Rejects, Count
<1>4. ASSUME NEW r \in Requests, Admits(r) PROVE Disconnected(q)'
  BY <1>4 DEF Admits, Goto
<1>5. ASSUME NEW r \in Requests, MarkForwarded(r) PROVE Disconnected(q)'
  BY <1>5 DEF MarkForwarded, Goto, Rejects, Count
<1>6. ASSUME NEW r \in Requests, Enter(r) PROVE Disconnected(q)'
  BY <1>6 DEF Enter, Goto
<1>7. ASSUME NEW r \in Requests, RoundTripFails(r) PROVE Disconnected(q)'
  <2>1. /\ q = r /\ clientDone[r] => recorded'[q]
        /\ recorded[q] => recorded'[q]
        /\ ~(q = r /\ clientDone[r]) /\ ~recorded[q] => ~recorded'[q]
        /\ Len(disconnects[q])' = (IF recorded'[q] THEN 1 ELSE 0)
    BY <1>7, RecordCases DEF RoundTripFails
  <2>2. terminal' = terminal /\ ended' = ended
    BY <1>7 DEF RoundTripFails
  <2>3. /\ result' = result
        /\ pc'[q] = pc[q] \/ pc'[q] = "served"
    BY <1>7 DEF RoundTripFails, Goto
  <2>4. pc[r] = "roundTrip"
    BY <1>7 DEF RoundTripFails
  <2> QED
    BY <2>1, <2>2, <2>3, <2>4
<1>8. ASSUME NEW r \in Requests, Responds(r) PROVE Disconnected(q)'
  BY <1>8 DEF Responds, Goto
<1>9. ASSUME NEW r \in Requests, NEW bytes \in BOOLEAN, NEW err \in {"none", "eof", "failed"},
             Read(r, bytes, err)
      PROVE  Disconnected(q)'
  BY <1>9 DEF Read, Goto, Observes, FirstByte, Count
<1>10. ASSUME NEW r \in Requests, Complete(r) PROVE Disconnected(q)'
  BY <1>10 DEF Complete, Goto, Terminate, Count
<1>11. ASSUME NEW r \in Requests, NEW ok \in BOOLEAN, Write(r, ok) PROVE Disconnected(q)'
  BY <1>11 DEF Write, Goto
<1>12. ASSUME NEW r \in Requests, Aborted(r) PROVE Disconnected(q)'
  <2>1. /\ q = r /\ clientDone[r] => recorded'[q]
        /\ recorded[q] => recorded'[q]
        /\ ~(q = r /\ clientDone[r]) /\ ~recorded[q] => ~recorded'[q]
        /\ Len(disconnects[q])' = (IF recorded'[q] THEN 1 ELSE 0)
    BY <1>12, RecordCases DEF Aborted
  <2>2. terminal' = terminal /\ ended' = ended
    BY <1>12 DEF Aborted
  <2>3. pc[r] = "aborted"
    BY <1>12 DEF Aborted
  <2>4. CASE clientDone[r]
    <3>1. /\ result' = [result EXCEPT ![r] = [status |-> "499", timedOut |-> FALSE]]
          /\ Goto(r, "finish")
      BY <1>12, <2>4, Zenon DEF Aborted
    <3> QED
      BY <2>1, <2>2, <2>3, <2>4, <3>1 DEF Goto
  <2>5. CASE ~clientDone[r]
    <3>1. result' = result /\ Goto(r, IF admission[r] THEN "terminate" ELSE "done")
      BY <1>12, <2>5, Zenon DEF Aborted
    <3> QED
      BY <2>1, <2>2, <2>5, <3>1 DEF Goto
  <2> QED
    BY <2>4, <2>5
<1>13. ASSUME NEW r \in Requests, Served(r) PROVE Disconnected(q)'
  <2>1. /\ q = r /\ clientDone[r] => recorded'[q]
        /\ recorded[q] => recorded'[q]
        /\ ~(q = r /\ clientDone[r]) /\ ~recorded[q] => ~recorded'[q]
        /\ Len(disconnects[q])' = (IF recorded'[q] THEN 1 ELSE 0)
    BY <1>13, RecordCases DEF Served
  <2>2. terminal' = terminal /\ ended' = ended
    BY <1>13 DEF Served
  <2>3. CASE q = r
    <3>1. result'[q].status = IF clientDone[q] THEN "499" ELSE StatusOrOK(q)
      BY <1>13, <2>3 DEF Served
    <3>2. StatusOrOK(q) # "499"
      BY DEF StatusOrOK, Statuses
    <3> QED
      BY <2>1, <2>2, <2>3, <3>1, <3>2
  <2>4. CASE q # r
    <3>1. pc'[q] = pc[q] /\ result'[q] = result[q]
      BY <1>13, <2>4 DEF Served, Goto
    <3> QED
      BY <2>1, <2>2, <2>4, <3>1
  <2> QED
    BY <2>3, <2>4
<1>14. ASSUME NEW r \in Requests, TimedOut(r) PROVE Disconnected(q)'
  BY <1>14 DEF TimedOut, Goto, Done
<1>15. ASSUME NEW r \in Requests, Finish(r) PROVE Disconnected(q)'
  <2>1. \/ UNCHANGED terminal /\ pc' = [pc EXCEPT ![r] = "done"]
        \/ /\ terminal' = [terminal EXCEPT ![r] = TerminalCause(result[r])]
           /\ pc' = [pc EXCEPT ![r] = "terminate"]
    BY <1>15, Zenon DEF Finish, Goto
  <2>2. TerminalCause(result[r]) = "disconnect" => result[r].status = "499"
    BY DEF TerminalCause
  <2>3. pc[r] = "finish"
    BY <1>15 DEF Finish
  <2>4. UNCHANGED <<ended, recorded, disconnects, result>>
    BY <1>15 DEF Finish
  <2> QED
    BY <2>1, <2>2, <2>3, <2>4
<1>16. ASSUME NEW r \in Requests, DeferredTerminate(r) PROVE Disconnected(q)'
  BY <1>16 DEF DeferredTerminate, Goto, Terminate
<1>17. ASSUME NEW r \in Requests, DeferredCensor(r) PROVE Disconnected(q)'
  BY <1>17 DEF DeferredCensor, Goto
<1>18. ASSUME NEW r \in Requests, ClientLeaves(r) PROVE Disconnected(q)'
  BY <1>18 DEF ClientLeaves
<1>19. ASSUME NEW r \in Requests, Propagates(r) PROVE Disconnected(q)'
  BY <1>19 DEF Propagates
<1>20. ASSUME NEW r \in Requests, DeadlinePasses(r) PROVE Disconnected(q)'
  BY <1>20 DEF DeadlinePasses
<1>21. ASSUME NEW r \in Requests, Reconcile(r) PROVE Disconnected(q)'
  BY <1>21 DEF Reconcile
<1>22. ASSUME Reset PROVE Disconnected(q)'
  BY <1>22 DEF Reset, Fence
<1>23. ASSUME FailClosed PROVE Disconnected(q)'
  BY <1>23 DEF FailClosed, Fence
<1>24. ASSUME Signal PROVE Disconnected(q)'
  BY <1>24 DEF Signal
<1>25. ASSUME Shutdown PROVE Disconnected(q)'
  BY <1>25 DEF Shutdown, Fence
<1>26. ASSUME UNCHANGED vars PROVE Disconnected(q)'
  BY <1>26 DEF vars
<1> HIDE DEF Disconnected
<1>27. ASSUME NEW r \in Requests, Handler(r) PROVE Disconnected(q)'
  BY <1>27, <1>5, <1>6, <1>10, <1>11, <1>12, <1>13, <1>14, <1>15, <1>16, <1>17,
     Zenon DEF Handler
<1> QED
  BY <1>1, <1>2, <1>3, <1>4, <1>7, <1>8, <1>9, <1>18, <1>19, <1>20, <1>21, <1>22, <1>23, <1>24,
     <1>25, <1>26, <1>27, Zenon DEF Next

LEMMA StepRecorded ==
    ASSUME Types, NEW q \in Requests, Inside(q), Reading(q), Ending(q), Disconnected(q),
           Recorded(q), [Next]_vars
    PROVE  Recorded(q)'
<1>0. /\ pc \in [Requests -> Places] /\ admission \in [Requests -> BOOLEAN]
      /\ phase \in [Requests -> Phases] /\ ended \in [Requests -> {"none"} \cup Causes]
      /\ result \in [Requests -> [status : {"none", "499"} \cup Statuses, timedOut : BOOLEAN]]
      /\ clientDone \in [Requests -> BOOLEAN]
      /\ ctxErr \in [Requests -> {"none", "canceled", "deadline"}]
      /\ recorded \in [Requests -> BOOLEAN]
      /\ usage \in [Requests -> Seq(Usages \cup {"censored"})]
      /\ completed \in [Requests -> BOOLEAN]
  BY DEF Types
<1> USE <1>0 DEF Inside, Ending, Recorded, Live, After, Won, client, handle, local, evidence,
              leaving, world, gauges, rejects
<1>1. ASSUME NEW r \in Requests, Route(r) PROVE Recorded(q)'
  BY <1>1 DEF Route, Goto
<1>2. ASSUME NEW r \in Requests, Classify(r) PROVE Recorded(q)'
  BY <1>2 DEF Classify, Goto
<1>3. ASSUME NEW r \in Requests, NEW failed \in BOOLEAN, Protects(r, failed) PROVE Recorded(q)'
  BY <1>3 DEF Protects, Goto, Rejects, Count
<1>4. ASSUME NEW r \in Requests, Admits(r) PROVE Recorded(q)'
  BY <1>4 DEF Admits, Goto
<1>5. ASSUME NEW r \in Requests, MarkForwarded(r) PROVE Recorded(q)'
  BY <1>5 DEF MarkForwarded, Goto, Rejects, Count
<1>6. ASSUME NEW r \in Requests, Enter(r) PROVE Recorded(q)'
  BY <1>6 DEF Enter, Goto
<1>7. ASSUME NEW r \in Requests, RoundTripFails(r) PROVE Recorded(q)'
  BY <1>7 DEF RoundTripFails, Goto, RecordClientDisconnect
<1>8. ASSUME NEW r \in Requests, Responds(r) PROVE Recorded(q)'
  BY <1>8 DEF Responds, Goto
<1>9. ASSUME NEW r \in Requests, NEW bytes \in BOOLEAN, NEW err \in {"none", "eof", "failed"},
             Read(r, bytes, err)
      PROVE  Recorded(q)'
  BY <1>9 DEF Read, Goto, Observes, FirstByte, Count
<1>10. ASSUME NEW r \in Requests, Complete(r) PROVE Recorded(q)'
  BY <1>10 DEF Complete, Goto, Terminate, Count
<1>11. ASSUME NEW r \in Requests, NEW ok \in BOOLEAN, Write(r, ok) PROVE Recorded(q)'
  BY <1>11 DEF Write, Goto
<1>12. ASSUME NEW r \in Requests, Aborted(r) PROVE Recorded(q)'
  BY <1>12 DEF Aborted, Goto, RecordClientDisconnect, Done
<1>13. ASSUME NEW r \in Requests, Served(r) PROVE Recorded(q)'
  BY <1>13 DEF Served, Goto, RecordClientDisconnect
<1>14. ASSUME NEW r \in Requests, TimedOut(r) PROVE Recorded(q)'
  BY <1>14 DEF TimedOut, Goto, Done
<1>15. ASSUME NEW r \in Requests, Finish(r) PROVE Recorded(q)'
  <2>1. pc[r] = "finish" /\ UNCHANGED <<admission, phase, ended, recorded>>
    BY <1>15 DEF Finish
  <2>2. CASE q # r
    <3>1. pc'[q] = pc[q] /\ usage'[q] = usage[q] /\ completed'[q] = completed[q]
      BY <1>15, <2>2 DEF Finish, Goto
    <3> QED
      BY <2>1, <3>1
  <2>3. CASE q = r /\ admission[r]
    <3>1. /\ usage' = [usage EXCEPT ![r] = Append(@, Usage(r))]
          /\ completed' = [completed EXCEPT ![r] = TRUE]
          /\ pc' = [pc EXCEPT ![r] = "terminate"]
      BY <1>15, <2>3, Zenon DEF Finish, Goto
    <3>2. ~completed[q] /\ Len(usage[q]) = 0
      BY <2>1, <2>3
    <3>3. Usage(r) = "available" => Succeeded(result[r])
      BY DEF Usage, Succeeded
    <3>4. Succeeded(result[r]) => result[r].status = "2xx"
      BY DEF Succeeded
    <3>5. Usage(r) = "available" => ~recorded[q] /\ Won(q)
      BY <2>1, <2>3, <3>3, <3>4 DEF Disconnected
    <3>6. usage'[q] = <<Usage(r)>>
      BY <2>3, <3>1, <3>2
    <3>7. Len(usage'[q]) = 1 /\ usage'[q][1] = Usage(r)
      BY <3>6
    <3>8. Won(q)' = Won(q)
      BY <2>1 DEF Won
    <3> HIDE DEF Won
    <3> QED
      BY <2>1, <2>3, <3>1, <3>5, <3>7, <3>8
  <2>4. CASE q = r /\ ~admission[r]
    <3>1. UNCHANGED <<usage, completed>> /\ pc' = [pc EXCEPT ![r] = "done"]
      BY <1>15, <2>4, Zenon DEF Finish, Goto
    <3> QED
      BY <2>1, <2>4, <3>1
  <2> QED
    BY <2>2, <2>3, <2>4
<1>16. ASSUME NEW r \in Requests, DeferredTerminate(r) PROVE Recorded(q)'
  BY <1>16 DEF DeferredTerminate, Goto, Terminate
<1>17. ASSUME NEW r \in Requests, DeferredCensor(r) PROVE Recorded(q)'
  <2>1. /\ pc[r] = "censor" /\ UNCHANGED <<admission, phase, ended, recorded>>
        /\ pc' = [pc EXCEPT ![r] = "done"] /\ completed' = [completed EXCEPT ![r] = TRUE]
    BY <1>17 DEF DeferredCensor, Goto
  <2>2. CASE completed[r]
    <3>1. usage'[q] = usage[q]
      BY <1>17, <2>2 DEF DeferredCensor
    <3> QED
      BY <2>1, <2>2, <3>1
  <2>3. CASE ~completed[r]
    <3>1. usage' = [usage EXCEPT ![r] = Append(@, "censored")]
      BY <1>17, <2>3 DEF DeferredCensor
    <3>2. CASE q = r
      <4>1. Len(usage[q]) = 0 /\ usage'[q] = Append(usage[q], "censored")
        BY <2>3, <3>1, <3>2
      <4>2. Len(usage'[q]) = 1 /\ usage'[q][1] = "censored"
        BY <4>1
      <4> QED
        BY <2>1, <3>2, <4>2
    <3>3. CASE q # r
      BY <2>1, <3>1, <3>3
    <3> QED
      BY <3>2, <3>3
  <2> QED
    BY <2>2, <2>3
<1>18. ASSUME NEW r \in Requests, ClientLeaves(r) PROVE Recorded(q)'
  BY <1>18 DEF ClientLeaves
<1>19. ASSUME NEW r \in Requests, Propagates(r) PROVE Recorded(q)'
  BY <1>19 DEF Propagates
<1>20. ASSUME NEW r \in Requests, DeadlinePasses(r) PROVE Recorded(q)'
  BY <1>20 DEF DeadlinePasses
<1>21. ASSUME NEW r \in Requests, Reconcile(r) PROVE Recorded(q)'
  BY <1>21 DEF Reconcile
<1>22. ASSUME Reset PROVE Recorded(q)'
  BY <1>22 DEF Reset, Fence
<1>23. ASSUME FailClosed PROVE Recorded(q)'
  BY <1>23 DEF FailClosed, Fence
<1>24. ASSUME Signal PROVE Recorded(q)'
  BY <1>24 DEF Signal
<1>25. ASSUME Shutdown PROVE Recorded(q)'
  BY <1>25 DEF Shutdown, Fence
<1>26. ASSUME UNCHANGED vars PROVE Recorded(q)'
  BY <1>26 DEF vars
<1> HIDE DEF Recorded
<1>27. ASSUME NEW r \in Requests, Handler(r) PROVE Recorded(q)'
  BY <1>27, <1>5, <1>6, <1>10, <1>11, <1>12, <1>13, <1>14, <1>15, <1>16, <1>17,
     Zenon DEF Handler
<1> QED
  BY <1>1, <1>2, <1>3, <1>4, <1>7, <1>8, <1>9, <1>18, <1>19, <1>20, <1>21, <1>22, <1>23, <1>24,
     <1>25, <1>26, <1>27, Zenon DEF Next

-----------------------------------------------------------------------------
(***************************************************************************)
(* The gauges and the counters, which the requests share.                  *)
(***************************************************************************)
LEMMA GaugeFrame ==
    ASSUME InflightExact, UNCHANGED gauges,
           \A q \in Requests : pc'[q] \in Proxying <=> pc[q] \in Proxying
    PROVE  InflightExact'
<1>1. {q \in Requests : pc'[q] \in Proxying} = {q \in Requests : pc[q] \in Proxying}
  OBVIOUS
<1> QED
  BY <1>1 DEF InflightExact, gauges

LEMMA GaugeUp ==
    ASSUME InflightExact, Types, NEW r \in Requests, pc[r] \notin Proxying,
           pc'[r] \in Proxying, \A q \in Requests \ {r} : pc'[q] = pc[q],
           inflight' = inflight + 1, accepted' = accepted + 1, finished' = finished
    PROVE  InflightExact'
<1> DEFINE S == {q \in Requests : pc[q] \in Proxying}
           T == {q \in Requests : pc'[q] \in Proxying}
<1>1. T = S \cup {r} /\ r \notin S
  OBVIOUS
<1>2. IsFiniteSet(S)
  BY ProxyAssumption, FS_Subset
<1>3. Cardinality(T) = Cardinality(S) + 1
  BY <1>1, <1>2, FS_AddElement
<1>4. inflight = Cardinality(S) /\ accepted = finished + inflight
  BY DEF InflightExact
<1> QED
  BY <1>3, <1>4 DEF InflightExact, Types

LEMMA GaugeDown ==
    ASSUME InflightExact, Types, NEW r \in Requests, pc[r] \in Proxying,
           pc'[r] \notin Proxying, \A q \in Requests \ {r} : pc'[q] = pc[q], Done
    PROVE  InflightExact'
<1> DEFINE S == {q \in Requests : pc[q] \in Proxying}
           T == {q \in Requests : pc'[q] \in Proxying}
<1>1. T = S \ {r} /\ r \in S
  OBVIOUS
<1>2. IsFiniteSet(S)
  BY ProxyAssumption, FS_Subset
<1>3. Cardinality(T) = Cardinality(S) - 1
  BY <1>1, <1>2, FS_RemoveElement
<1>4. inflight = Cardinality(S) /\ accepted = finished + inflight
  BY DEF InflightExact
<1>5. inflight' = inflight - 1 /\ finished' = finished + 1 /\ accepted' = accepted
  BY DEF Done
<1> QED
  BY <1>3, <1>4, <1>5 DEF InflightExact, Types

LEMMA StepInflight ==
    ASSUME Types, InflightExact, [Next]_vars
    PROVE  InflightExact'
<1>0. /\ pc \in [Requests -> Places] /\ admission \in [Requests -> BOOLEAN]
  BY DEF Types
<1> USE <1>0 DEF Proxying, gauges
<1>1. ASSUME NEW r \in Requests, Route(r) PROVE InflightExact'
  <2>1. UNCHANGED gauges /\ \A q \in Requests : pc'[q] \in Proxying <=> pc[q] \in Proxying
    BY <1>1 DEF Route, Goto
  <2> QED
    BY <2>1, GaugeFrame
<1>2. ASSUME NEW r \in Requests, Classify(r) PROVE InflightExact'
  <2>1. UNCHANGED gauges /\ \A q \in Requests : pc'[q] \in Proxying <=> pc[q] \in Proxying
    BY <1>2 DEF Classify, Goto
  <2> QED
    BY <2>1, GaugeFrame
<1>3. ASSUME NEW r \in Requests, NEW failed \in BOOLEAN, Protects(r, failed)
      PROVE  InflightExact'
  <2>1. UNCHANGED gauges /\ \A q \in Requests : pc'[q] \in Proxying <=> pc[q] \in Proxying
    BY <1>3 DEF Protects, Goto, Rejects, Count
  <2> QED
    BY <2>1, GaugeFrame
<1>4. ASSUME NEW r \in Requests, Admits(r) PROVE InflightExact'
  <2>1. UNCHANGED gauges /\ \A q \in Requests : pc'[q] \in Proxying <=> pc[q] \in Proxying
    BY <1>4 DEF Admits, Goto
  <2> QED
    BY <2>1, GaugeFrame
<1>5. ASSUME NEW r \in Requests, MarkForwarded(r) PROVE InflightExact'
  <2>1. UNCHANGED gauges /\ \A q \in Requests : pc'[q] \in Proxying <=> pc[q] \in Proxying
    BY <1>5 DEF MarkForwarded, Goto, Rejects, Count
  <2> QED
    BY <2>1, GaugeFrame
<1>6. ASSUME NEW r \in Requests, Enter(r) PROVE InflightExact'
  <2>1. /\ pc[r] \notin Proxying /\ pc'[r] \in Proxying
        /\ \A q \in Requests \ {r} : pc'[q] = pc[q]
        /\ inflight' = inflight + 1 /\ accepted' = accepted + 1 /\ finished' = finished
    BY <1>6 DEF Enter, Goto
  <2> QED
    BY <2>1, GaugeUp
<1>7. ASSUME NEW r \in Requests, RoundTripFails(r) PROVE InflightExact'
  <2>1. UNCHANGED gauges /\ \A q \in Requests : pc'[q] \in Proxying <=> pc[q] \in Proxying
    BY <1>7 DEF RoundTripFails, Goto, RecordClientDisconnect
  <2> QED
    BY <2>1, GaugeFrame
<1>8. ASSUME NEW r \in Requests, Responds(r) PROVE InflightExact'
  <2>1. UNCHANGED gauges /\ \A q \in Requests : pc'[q] \in Proxying <=> pc[q] \in Proxying
    BY <1>8 DEF Responds, Goto
  <2> QED
    BY <2>1, GaugeFrame
<1>9. ASSUME NEW r \in Requests, NEW bytes \in BOOLEAN, NEW err \in {"none", "eof", "failed"},
             Read(r, bytes, err)
      PROVE  InflightExact'
  <2>1. UNCHANGED gauges /\ \A q \in Requests : pc'[q] \in Proxying <=> pc[q] \in Proxying
    BY <1>9 DEF Read, Goto, Observes, FirstByte, Count
  <2> QED
    BY <2>1, GaugeFrame
<1>10. ASSUME NEW r \in Requests, Complete(r) PROVE InflightExact'
  <2>1. UNCHANGED gauges /\ \A q \in Requests : pc'[q] \in Proxying <=> pc[q] \in Proxying
    BY <1>10 DEF Complete, Goto, Terminate, Count
  <2> QED
    BY <2>1, GaugeFrame
<1>11. ASSUME NEW r \in Requests, NEW ok \in BOOLEAN, Write(r, ok) PROVE InflightExact'
  <2>1. UNCHANGED gauges /\ \A q \in Requests : pc'[q] \in Proxying <=> pc[q] \in Proxying
    BY <1>11 DEF Write, Goto
  <2> QED
    BY <2>1, GaugeFrame
<1>12. ASSUME NEW r \in Requests, Aborted(r) PROVE InflightExact'
  <2>1. \/ Goto(r, "finish") \/ Goto(r, "terminate") \/ Goto(r, "done")
    <3>1. CASE clientDone[r]
      BY <1>12, <3>1, Zenon DEF Aborted
    <3>2. CASE ~clientDone[r]
      <4>1. Goto(r, IF admission[r] THEN "terminate" ELSE "done")
        BY <1>12, <3>2, Zenon DEF Aborted
      <4> QED
        BY <4>1
    <3> QED
      BY <3>1, <3>2
  <2>2. pc[r] = "aborted" /\ Done
    BY <1>12 DEF Aborted
  <2>3. /\ pc[r] \in Proxying /\ pc'[r] \notin Proxying
        /\ \A q \in Requests \ {r} : pc'[q] = pc[q]
    BY <2>1, <2>2 DEF Goto
  <2> QED
    BY <2>2, <2>3, GaugeDown
<1>13. ASSUME NEW r \in Requests, Served(r) PROVE InflightExact'
  <2>1. UNCHANGED gauges /\ \A q \in Requests : pc'[q] \in Proxying <=> pc[q] \in Proxying
    BY <1>13 DEF Served, Goto, RecordClientDisconnect
  <2> QED
    BY <2>1, GaugeFrame
<1>14. ASSUME NEW r \in Requests, TimedOut(r) PROVE InflightExact'
  <2>1. /\ pc[r] \in Proxying /\ pc'[r] \notin Proxying /\ Done
        /\ \A q \in Requests \ {r} : pc'[q] = pc[q]
    BY <1>14 DEF TimedOut, Goto
  <2> QED
    BY <2>1, GaugeDown
<1>15. ASSUME NEW r \in Requests, Finish(r) PROVE InflightExact'
  <2>1. UNCHANGED gauges /\ \A q \in Requests : pc'[q] \in Proxying <=> pc[q] \in Proxying
    BY <1>15 DEF Finish, Goto
  <2> QED
    BY <2>1, GaugeFrame
<1>16. ASSUME NEW r \in Requests, DeferredTerminate(r) PROVE InflightExact'
  <2>1. UNCHANGED gauges /\ \A q \in Requests : pc'[q] \in Proxying <=> pc[q] \in Proxying
    BY <1>16 DEF DeferredTerminate, Goto, Terminate
  <2> QED
    BY <2>1, GaugeFrame
<1>17. ASSUME NEW r \in Requests, DeferredCensor(r) PROVE InflightExact'
  <2>1. UNCHANGED gauges /\ \A q \in Requests : pc'[q] \in Proxying <=> pc[q] \in Proxying
    BY <1>17 DEF DeferredCensor, Goto
  <2> QED
    BY <2>1, GaugeFrame
<1>18. ASSUME NEW r \in Requests, ClientLeaves(r) PROVE InflightExact'
  <2>1. UNCHANGED gauges /\ \A q \in Requests : pc'[q] \in Proxying <=> pc[q] \in Proxying
    BY <1>18 DEF ClientLeaves
  <2> QED
    BY <2>1, GaugeFrame
<1>19. ASSUME NEW r \in Requests, Propagates(r) PROVE InflightExact'
  <2>1. UNCHANGED gauges /\ \A q \in Requests : pc'[q] \in Proxying <=> pc[q] \in Proxying
    BY <1>19 DEF Propagates
  <2> QED
    BY <2>1, GaugeFrame
<1>20. ASSUME NEW r \in Requests, DeadlinePasses(r) PROVE InflightExact'
  <2>1. UNCHANGED gauges /\ \A q \in Requests : pc'[q] \in Proxying <=> pc[q] \in Proxying
    BY <1>20 DEF DeadlinePasses
  <2> QED
    BY <2>1, GaugeFrame
<1>21. ASSUME NEW r \in Requests, Reconcile(r) PROVE InflightExact'
  <2>1. UNCHANGED gauges /\ \A q \in Requests : pc'[q] \in Proxying <=> pc[q] \in Proxying
    BY <1>21 DEF Reconcile
  <2> QED
    BY <2>1, GaugeFrame
<1>22. ASSUME Reset PROVE InflightExact'
  <2>1. UNCHANGED gauges /\ \A q \in Requests : pc'[q] \in Proxying <=> pc[q] \in Proxying
    BY <1>22 DEF Reset, Fence
  <2> QED
    BY <2>1, GaugeFrame
<1>23. ASSUME FailClosed PROVE InflightExact'
  <2>1. UNCHANGED gauges /\ \A q \in Requests : pc'[q] \in Proxying <=> pc[q] \in Proxying
    BY <1>23 DEF FailClosed, Fence
  <2> QED
    BY <2>1, GaugeFrame
<1>24. ASSUME Signal PROVE InflightExact'
  <2>1. UNCHANGED gauges /\ \A q \in Requests : pc'[q] \in Proxying <=> pc[q] \in Proxying
    BY <1>24 DEF Signal
  <2> QED
    BY <2>1, GaugeFrame
<1>25. ASSUME Shutdown PROVE InflightExact'
  <2>1. UNCHANGED gauges /\ \A q \in Requests : pc'[q] \in Proxying <=> pc[q] \in Proxying
    BY <1>25 DEF Shutdown, Fence
  <2> QED
    BY <2>1, GaugeFrame
<1>26. ASSUME UNCHANGED vars PROVE InflightExact'
  <2>1. UNCHANGED gauges /\ \A q \in Requests : pc'[q] \in Proxying <=> pc[q] \in Proxying
    BY <1>26 DEF vars
  <2> QED
    BY <2>1, GaugeFrame
<1> HIDE DEF gauges
<1>27. ASSUME NEW r \in Requests, Handler(r) PROVE InflightExact'
  BY <1>27, <1>5, <1>6, <1>10, <1>11, <1>12, <1>13, <1>14, <1>15, <1>16, <1>17,
     Zenon DEF Handler
<1> QED
  BY <1>1, <1>2, <1>3, <1>4, <1>7, <1>8, <1>9, <1>18, <1>19, <1>20, <1>21, <1>22, <1>23, <1>24,
     <1>25, <1>26, <1>27, Zenon DEF Next

-----------------------------------------------------------------------------
(***************************************************************************)
(* The counters of failures and rejections.                                *)
(***************************************************************************)

\* Where the phase of a handle stands unless it was fenced.
Marked(q) ==
    /\ pc[q] \in {"arrived", "classify", "decide", "mark", "enter", "roundTrip"} => ~firstDone[q]
    /\ pc[q] \in {"enter", "roundTrip", "copy"} \/ (pc[q] = "write" /\ last[q].err # "eof") =>
          phase[q] \in {"none", "fenced", IF firstDone[q] THEN "active" ELSE "forwarded"}
    /\ pc[q] = "complete" => phase[q] \in {"forwarded", "active", "fenced"}

\* A request is rejected before it is charged, or never.
Rejected(q) ==
    /\ charged[q] => pc[q] \in {"enter", "finish", "terminate", "censor", "done"} \cup Proxying
    /\ rejected[q] => pc[q] \in {"terminate", "censor", "done"} /\ ~charged[q]

\* The steps that neither count anything nor touch a handle's phase or place.
Beside(r) == ClientLeaves(r) \/ Propagates(r) \/ DeadlinePasses(r)

Fences == Reset \/ FailClosed \/ Shutdown

LEMMA StepMarked ==
    ASSUME Types, NEW q \in Requests, Inside(q), Reading(q), Marked(q), [Next]_vars
    PROVE  Marked(q)'
<1>0. /\ pc \in [Requests -> Places] /\ phase \in [Requests -> Phases]
      /\ firstDone \in [Requests -> BOOLEAN]
      /\ last \in [Requests -> [bytes : BOOLEAN, err : {"none", "eof", "failed"}]]
  BY DEF Types
<1> USE <1>0 DEF Marked, client, handle, local, evidence, leaving, world, gauges, rejects
<1>1. ASSUME NEW r \in Requests, Route(r) \/ Classify(r) \/ Enter(r) PROVE Marked(q)'
  BY <1>1 DEF Route, Classify, Enter, Goto, Inside
<1>2. ASSUME NEW r \in Requests, NEW failed \in BOOLEAN, Protects(r, failed) PROVE Marked(q)'
  BY <1>2 DEF Protects, Goto, Inside
<1>3. ASSUME NEW r \in Requests, Admits(r) PROVE Marked(q)'
  BY <1>3 DEF Admits, Goto
<1>4. ASSUME NEW r \in Requests, MarkForwarded(r) PROVE Marked(q)'
  BY <1>4 DEF MarkForwarded, Goto
<1>5. ASSUME NEW r \in Requests, RoundTripFails(r) \/ Responds(r) PROVE Marked(q)'
  BY <1>5 DEF RoundTripFails, Responds, Goto
<1>6. ASSUME NEW r \in Requests, NEW bytes \in BOOLEAN, NEW err \in {"none", "eof", "failed"},
             Read(r, bytes, err)
      PROVE  Marked(q)'
  <2>1. CASE UNCHANGED <<firstDone, phase, failures>>
    BY <1>6, <2>1 DEF Read, Goto, Completes, Inside, Live, Proxying, Phases
  <2>2. CASE /\ phase[r] = "forwarded" /\ firstDone' = [firstDone EXCEPT ![r] = TRUE]
             /\ phase' = [phase EXCEPT ![r] = "active"]
    BY <1>6, <2>2 DEF Read, Goto, Completes
  <2>3. CASE /\ phase[r] \notin {"none", "forwarded"} /\ ~firstDone[r]
             /\ firstDone' = [firstDone EXCEPT ![r] = TRUE] /\ UNCHANGED phase
    BY <1>6, <2>3 DEF Read, Goto, Completes
  <2> QED
    BY <1>6, <2>1, <2>2, <2>3, FirstByteCases, Zenon DEF Read
<1>7. ASSUME NEW r \in Requests, Complete(r) PROVE Marked(q)'
  BY <1>7 DEF Complete, Goto, Terminate, Inside
<1>8. ASSUME NEW r \in Requests, NEW ok \in BOOLEAN, Write(r, ok) PROVE Marked(q)'
  <2>1. pc'[q] = pc[q] \/ (q = r /\ pc'[q] \in {"aborted", "served"})
        \/ (q = r /\ pc[q] = "write" /\ pc'[q] = "copy" /\ last[q].err = "none")
    BY <1>8 DEF Write, Goto
  <2> QED
    BY <1>8, <2>1 DEF Write
<1>9. ASSUME NEW r \in Requests, Aborted(r) \/ Served(r) \/ TimedOut(r) \/ Finish(r) PROVE Marked(q)'
  BY <1>9 DEF Aborted, Served, TimedOut, Finish, Goto
<1>10. ASSUME NEW r \in Requests, DeferredTerminate(r) PROVE Marked(q)'
  BY <1>10, TerminateCases DEF DeferredTerminate, Goto
<1>11. ASSUME NEW r \in Requests, DeferredCensor(r) PROVE Marked(q)'
  BY <1>11 DEF DeferredCensor, Goto
<1>12. ASSUME NEW r \in Requests, Beside(r) PROVE Marked(q)'
  BY <1>12 DEF Beside, ClientLeaves, Propagates, DeadlinePasses
<1>13. ASSUME NEW r \in Requests, Reconcile(r) PROVE Marked(q)'
  BY <1>13 DEF Reconcile
<1>14. CASE Fences
  BY <1>14 DEF Fences, Reset, FailClosed, Shutdown, Fence
<1>15. CASE Signal \/ UNCHANGED vars
  BY <1>15 DEF Signal, vars
<1> QED
  BY <1>1, <1>2, <1>3, <1>4, <1>5, <1>6, <1>7, <1>8, <1>9, <1>10, <1>11, <1>12, <1>13, <1>14, <1>15,
     Zenon DEF Next, Handler, Beside, Fences

LEMMA StepRejected ==
    ASSUME Types, NEW q \in Requests, Rejected(q), [Next]_vars
    PROVE  Rejected(q)'
<1>0. /\ pc \in [Requests -> Places] /\ admission \in [Requests -> BOOLEAN]
      /\ charged \in [Requests -> BOOLEAN] /\ rejected \in [Requests -> BOOLEAN]
  BY DEF Types
<1> USE <1>0 DEF Rejected, Proxying, client, handle, local, evidence, leaving, world, gauges, rejects
<1>1. ASSUME NEW r \in Requests, Route(r) \/ Classify(r) \/ Enter(r) \/ Admits(r) PROVE Rejected(q)'
  BY <1>1 DEF Route, Classify, Enter, Admits, Goto
<1>2. ASSUME NEW r \in Requests, NEW failed \in BOOLEAN, Protects(r, failed) PROVE Rejected(q)'
  BY <1>2 DEF Protects, Rejects, Goto
<1>3. ASSUME NEW r \in Requests, MarkForwarded(r) PROVE Rejected(q)'
  BY <1>3 DEF MarkForwarded, Rejects, Goto
<1>4. ASSUME NEW r \in Requests, RoundTripFails(r) \/ Responds(r) PROVE Rejected(q)'
  BY <1>4 DEF RoundTripFails, Responds, Goto
<1>5. ASSUME NEW r \in Requests, NEW bytes \in BOOLEAN, NEW err \in {"none", "eof", "failed"},
             Read(r, bytes, err)
      PROVE  Rejected(q)'
  BY <1>5 DEF Read, Goto
<1>6. ASSUME NEW r \in Requests, Complete(r) \/ DeferredTerminate(r) \/ DeferredCensor(r)
      PROVE  Rejected(q)'
  BY <1>6 DEF Complete, DeferredTerminate, DeferredCensor, Goto
<1>7. ASSUME NEW r \in Requests, NEW ok \in BOOLEAN, Write(r, ok) PROVE Rejected(q)'
  BY <1>7 DEF Write, Goto
<1>8. ASSUME NEW r \in Requests, Aborted(r) \/ Served(r) \/ TimedOut(r) \/ Finish(r)
      PROVE  Rejected(q)'
  BY <1>8 DEF Aborted, Served, TimedOut, Finish, Goto
<1>9. ASSUME NEW r \in Requests, Beside(r) \/ Reconcile(r) PROVE Rejected(q)'
  BY <1>9 DEF Beside, ClientLeaves, Propagates, DeadlinePasses, Reconcile
<1>10. CASE Fences \/ Signal \/ UNCHANGED vars
  BY <1>10 DEF Fences, Reset, FailClosed, Shutdown, Signal, vars
<1> QED
  BY <1>1, <1>2, <1>3, <1>4, <1>5, <1>6, <1>7, <1>8, <1>9, <1>10, Zenon DEF Next, Handler, Beside, Fences

\* Only these steps count a failure or a rejection.
LEMMA OnlyCounting ==
    ASSUME [Next]_vars
    PROVE  \/ \E r \in Requests :
                 \/ \E failed \in BOOLEAN : Protects(r, failed)
                 \/ MarkForwarded(r) \/ Complete(r)
                 \/ \E bytes \in BOOLEAN, err \in {"none", "eof", "failed"} : Read(r, bytes, err)
           \/ UNCHANGED <<failures, total429, enforcedRejects, rejected>>
<1>1. ASSUME NEW r \in Requests,
             \/ Route(r) \/ Classify(r) \/ Admits(r) \/ RoundTripFails(r) \/ Responds(r)
             \/ Beside(r) \/ Reconcile(r)
      PROVE  UNCHANGED <<failures, total429, enforcedRejects, rejected>>
  BY <1>1 DEF Route, Classify, Admits, RoundTripFails, Responds, Beside, ClientLeaves, Propagates,
     DeadlinePasses, Reconcile, rejects
<1>2. ASSUME NEW r \in Requests,
             \/ Enter(r) \/ Aborted(r) \/ Served(r) \/ TimedOut(r) \/ Finish(r)
             \/ DeferredTerminate(r) \/ DeferredCensor(r) \/ \E ok \in BOOLEAN : Write(r, ok)
      PROVE  UNCHANGED <<failures, total429, enforcedRejects, rejected>>
  BY <1>2 DEF Enter, Aborted, Served, TimedOut, Finish, DeferredTerminate, DeferredCensor, Write, rejects
<1>3. ASSUME Fences \/ Signal \/ UNCHANGED vars
      PROVE  UNCHANGED <<failures, total429, enforcedRejects, rejected>>
  BY <1>3 DEF Fences, Reset, FailClosed, Shutdown, Signal, vars, rejects
<1> QED
  BY <1>1, <1>2, <1>3, Zenon DEF Next, Handler, Beside, Fences

\* A fence is for good.
LEMMA FencedForGood ==
    ASSUME Types, NEW q \in Requests, phase[q] = "fenced", Inside(q), [Next]_vars
    PROVE  phase'[q] = "fenced"
<1>0. phase \in [Requests -> Phases]
  BY DEF Types
<1> USE <1>0 DEF handle
<1>1. ASSUME NEW r \in Requests,
             Admits(r) \/ MarkForwarded(r) \/ Reconcile(r)
      PROVE  phase'[q] = "fenced"
  BY <1>1 DEF Admits, MarkForwarded, Reconcile, Inside
<1>2. ASSUME NEW r \in Requests, Complete(r) \/ DeferredTerminate(r) PROVE phase'[q] = "fenced"
  BY <1>2 DEF Complete, DeferredTerminate, Terminate, Live
<1>3. ASSUME NEW r \in Requests, NEW bytes \in BOOLEAN, NEW err \in {"none", "eof", "failed"},
             Read(r, bytes, err)
      PROVE  phase'[q] = "fenced"
  BY <1>3, FirstByteCases DEF Read
<1>4. CASE Fences
  BY <1>4 DEF Fences, Reset, FailClosed, Shutdown, Fence, Live
<1>5. ASSUME NEW r \in Requests,
             \/ Route(r) \/ Classify(r) \/ RoundTripFails(r) \/ Responds(r) \/ Beside(r)
             \/ Enter(r) \/ Aborted(r) \/ Served(r) \/ TimedOut(r) \/ Finish(r)
             \/ DeferredCensor(r) \/ (\E ok \in BOOLEAN : Write(r, ok))
             \/ \E failed \in BOOLEAN : Protects(r, failed)
      PROVE  phase'[q] = "fenced"
  BY <1>5 DEF Route, Classify, RoundTripFails, Responds, Beside, ClientLeaves, Propagates,
     DeadlinePasses, Enter, Aborted, Served, TimedOut, Finish, DeferredCensor, Write, Protects
<1>6. CASE Signal \/ UNCHANGED vars
  BY <1>6 DEF Signal, vars
<1> QED
  BY <1>1, <1>2, <1>3, <1>4, <1>5, <1>6, Zenon DEF Next, Handler, Beside, Fences

LEMMA StepFailures ==
    ASSUME Types, \A q \in Requests : Inside(q) /\ Reading(q) /\ Marked(q), FailuresMeanFence,
           [Next]_vars
    PROVE  FailuresMeanFence'
<1> SUFFICES ASSUME \A r \in Requests : phase'[r] # "fenced"
             PROVE  /\ failures'["forward"] = 0 /\ failures'["firstByte"] = 0
                    /\ failures'["terminal"] = 0
  BY DEF FailuresMeanFence
<1>1. \A r \in Requests : phase[r] # "fenced"
  BY FencedForGood
<1>2. failures["forward"] = 0 /\ failures["firstByte"] = 0 /\ failures["terminal"] = 0
  BY <1>1 DEF FailuresMeanFence
<1>3. failures \in [Failures -> Nat] /\ phase \in [Requests -> Phases]
  BY DEF Types
<1>4. ASSUME NEW r \in Requests, NEW failed \in BOOLEAN, Protects(r, failed)
      PROVE  Count("decide") \/ UNCHANGED failures
  BY <1>4, Zenon DEF Protects
<1>5. ASSUME NEW r \in Requests, MarkForwarded(r) PROVE UNCHANGED failures
  <2>1. phase[r] = "reserved"
    BY <1>1, <1>5 DEF MarkForwarded, Inside
  <2> QED
    BY <1>5, <2>1, Zenon DEF MarkForwarded
<1>6. ASSUME NEW r \in Requests, Complete(r) PROVE UNCHANGED failures
  <2>1. phase[r] \in Live
    BY <1>1, <1>6 DEF Complete, Marked, Live
  <2> QED
    BY <1>6, <2>1, Zenon DEF Complete
<1>7. ASSUME NEW r \in Requests, NEW bytes \in BOOLEAN, NEW err \in {"none", "eof", "failed"},
             Read(r, bytes, err)
      PROVE  UNCHANGED failures
  <2>1. pc[r] = "copy" /\ FirstByte(r, bytes)
    BY <1>7 DEF Read
  <2>2. phase[r] \in {"none", IF firstDone[r] THEN "active" ELSE "forwarded"}
    BY <1>1, <2>1 DEF Marked
  <2> QED
    BY <2>1, <2>2, FirstByteCases
<1>8. Count("decide") \/ UNCHANGED failures
  BY <1>4, <1>5, <1>6, <1>7, OnlyCounting
<1> QED
  BY <1>2, <1>3, <1>8 DEF Count, Failures

LEMMA StepRejections ==
    ASSUME Types, \A q \in Requests : Rejected(q) /\ Rejected(q)', RejectionsExact, [Next]_vars
    PROVE  RejectionsExact'
<1> DEFINE S == {r \in Requests : rejected[r]}
           T == {r \in Requests : rejected'[r]}
<1>1. IsFiniteSet(S)
  BY ProxyAssumption, FS_Subset
<1>2. total429 = Cardinality(S) /\ total429 \in Nat /\ enforcedRejects \in Nat
  BY DEF RejectionsExact, Types
<1>3. rejected \in [Requests -> BOOLEAN]
  BY DEF Types
<1>4. ASSUME NEW r \in Requests, Rejects(r), ~rejected[r]
      PROVE  /\ total429' = Cardinality(T)
             /\ enforcedRejects' = (IF Mode = "enforce" THEN total429' ELSE 0)
  <2>1. T = S \cup {r} /\ r \notin S
    BY <1>3, <1>4 DEF Rejects
  <2>2. Cardinality(T) = Cardinality(S) + 1
    BY <1>1, <2>1, FS_AddElement
  <2> QED
    BY <1>2, <1>4, <2>2 DEF Rejects, RejectionsExact
<1>5. CASE UNCHANGED rejects
  BY <1>5 DEF rejects, RejectionsExact, Rejected
<1>6. ASSUME NEW r \in Requests, NEW failed \in BOOLEAN, Protects(r, failed)
      PROVE  (Rejects(r) /\ ~rejected[r]) \/ UNCHANGED rejects
  BY <1>6 DEF Protects, Rejected
<1>7. ASSUME NEW r \in Requests, MarkForwarded(r)
      PROVE  (Rejects(r) /\ ~rejected[r]) \/ UNCHANGED rejects
  BY <1>7 DEF MarkForwarded, Rejected
<1>8. ASSUME NEW r \in Requests, Complete(r) PROVE UNCHANGED rejects
  BY <1>8 DEF Complete
<1>9. ASSUME NEW r \in Requests, NEW bytes \in BOOLEAN, NEW err \in {"none", "eof", "failed"},
             Read(r, bytes, err)
      PROVE  UNCHANGED rejects
  BY <1>9 DEF Read
<1>10. (\E r \in Requests : Rejects(r) /\ ~rejected[r]) \/ UNCHANGED rejects
  BY <1>6, <1>7, <1>8, <1>9, OnlyCounting DEF rejects
<1>11. \A r \in Requests : rejected'[r] => pc'[r] \in {"terminate", "censor", "done"} /\ ~charged'[r]
  BY DEF Rejected
<1> QED
  BY <1>4, <1>5, <1>10, <1>11 DEF RejectionsExact

-----------------------------------------------------------------------------
(***************************************************************************)
(* The inductive invariant, and what follows from it.                      *)
(***************************************************************************)
Request(q) ==
    /\ Inside(q) /\ Charged(q) /\ Reading(q) /\ Ending(q) /\ Disconnected(q) /\ Recorded(q)
    /\ Marked(q) /\ Rejected(q)

IInv == Types /\ CountersExact /\ \A q \in Requests : Request(q)

LEMMA InitRequest ==
    ASSUME Init, NEW q \in Requests
    PROVE  Request(q)
<1>1. /\ pc[q] = "arrived" /\ ~admission[q] /\ ~clientDone[q] /\ ctxErr[q] = "none"
      /\ phase[q] = "none" /\ terminal[q] = "cancel" /\ last[q].err = "none"
      /\ status[q] = "none" /\ ~completed[q] /\ ~recorded[q] /\ ended[q] = "none"
  BY DEF Init, NoRead
<1>2. Len(usage[q]) = 0 /\ Len(disconnects[q]) = 0
  BY DEF Init
<1>3. Inside(q) /\ Charged(q)
  BY <1>1 DEF Inside, Charged, Live, Proxying
<1>4. Reading(q) /\ Ending(q)
  BY <1>1 DEF Reading, Ending
<1>5. Disconnected(q) /\ Recorded(q)
  BY <1>1, <1>2 DEF Disconnected, Recorded
<1>6. Marked(q) /\ Rejected(q)
  BY <1>1 DEF Init, Marked, Rejected
<1> QED
  BY <1>3, <1>4, <1>5, <1>6 DEF Request

LEMMA InitGauge == Init => InflightExact
<1> SUFFICES ASSUME Init PROVE InflightExact
  OBVIOUS
<1>1. {r \in Requests : pc[r] \in Proxying} = {}
  BY DEF Init, Proxying
<1>2. Cardinality({}) = 0
  BY FS_EmptySet
<1>3. inflight = 0 /\ accepted = 0 /\ finished = 0
  BY DEF Init
<1> QED
  BY <1>1, <1>2, <1>3 DEF InflightExact

LEMMA InitCounters == Init => FailuresMeanFence /\ RejectionsExact
<1> SUFFICES ASSUME Init PROVE FailuresMeanFence /\ RejectionsExact
  OBVIOUS
<1>1. {r \in Requests : rejected[r]} = {} /\ Cardinality({}) = 0
  BY FS_EmptySet DEF Init
<1> QED
  BY <1>1 DEF Init, FailuresMeanFence, RejectionsExact, Failures

LEMMA StepIInv ==
    ASSUME IInv, [Next]_vars
    PROVE  IInv'
<1>1. Types /\ InflightExact /\ \A q \in Requests : Request(q)
  BY DEF IInv, CountersExact
<1>2. Types' /\ InflightExact'
  BY <1>1, StepType, StepInflight
<1>3. ASSUME NEW q \in Requests PROVE Request(q)'
  <2>1. Inside(q) /\ Charged(q) /\ Reading(q) /\ Ending(q) /\ Disconnected(q) /\ Recorded(q)
    BY <1>1 DEF Request
  <2>2. Inside(q)' /\ Charged(q)'
    BY <1>1, <2>1, StepInside, StepCharged
  <2>3. Reading(q)' /\ Ending(q)'
    BY <1>1, <2>1, StepReading, StepEnding
  <2>4. Disconnected(q)' /\ Recorded(q)'
    BY <1>1, <2>1, StepDisconnected, StepRecorded
  <2>5. Marked(q)' /\ Rejected(q)'
    BY <1>1, <2>1, StepMarked, StepRejected DEF Request
  <2> QED
    BY <2>2, <2>3, <2>4, <2>5 DEF Request
<1>4. FailuresMeanFence'
  BY <1>1, StepFailures DEF IInv, CountersExact, Request
<1>5. RejectionsExact'
  BY <1>1, <1>3, StepRejections DEF IInv, CountersExact, Request
<1> QED
  BY <1>2, <1>3, <1>4, <1>5 DEF IInv, CountersExact

\* The inductive invariant holds in every reachable state.
THEOREM Invariant == Spec => []IInv
<1>1. Init => IInv
  BY InitType, InitGauge, InitCounters, InitRequest DEF IInv, CountersExact
<1> QED
  BY <1>1, StepIInv, PTL DEF Spec

\* The variables keep their types; in particular the in-flight gauge, which the
\* code raises and lowers by Begin and Done, never falls below zero.
THEOREM TypeCorrect == Spec => []TypeOK
<1>1. IInv => TypeOK
  <2> SUFFICES ASSUME IInv PROVE TypeOK
    OBVIOUS
  <2>1. IsFiniteSet({r \in Requests : pc[r] \in Proxying})
    BY ProxyAssumption, FS_Subset
  <2>2. Cardinality({r \in Requests : pc[r] \in Proxying}) \in Nat
    BY <2>1, FS_CardinalityType
  <2> QED
    BY <2>2 DEF IInv, CountersExact, InflightExact, TypeOK
<1> QED
  BY <1>1, Invariant, PTL

\* What the metrics report of the proxied calls is exact: the in-flight gauge and
\* the totals agree with the handlers inside, whatever way each of them leaves;
\* every rejection is counted once, and none of a request that went upstream; a
\* lifecycle failure is reported only when some handle was fenced.
THEOREM CountersCorrect == Spec => []CountersExact
<1>1. IInv => CountersExact
  BY DEF IInv
<1> QED
  BY <1>1, Invariant, PTL

\* A handler that has returned holds no live reservation.
THEOREM ReservationCorrect == Spec => []ReservationReleased
<1>1. IInv => ReservationReleased
  BY DEF IInv, Request, Inside, ReservationReleased, Proxying
<1> QED
  BY <1>1, Invariant, PTL

\* In enforce mode the upstream sees no generation request that the controller
\* has not charged.
THEOREM ChargedCorrect == Spec => []UpstreamCallsCharged
<1>1. IInv => UpstreamCallsCharged
  BY DEF IInv, Request, Charged, UpstreamCallsCharged
<1> QED
  BY <1>1, Invariant, PTL

\* A reservation that ended as a success belongs to a 2xx response that was
\* read to its end.
THEOREM SuccessCorrect == Spec => []SuccessMeansComplete
<1>1. IInv => SuccessMeansComplete
  BY DEF IInv, Request, Reading, Whole, SuccessMeansComplete
<1> QED
  BY <1>1, Invariant, PTL

\* Complete and Censor leave one usage outcome between them.
THEOREM EvidenceCorrect == Spec => []EvidenceOnce
<1>1. IInv => EvidenceOnce
  BY DEF IInv, Request, Recorded, EvidenceOnce
<1> QED
  BY <1>1, Invariant, PTL

\* The tokens of a response are counted only when the controller saw the
\* success, or was fenced before it could, and no disconnect was counted.
THEOREM TokensCorrect == Spec => []TokensOnlyForSuccess
<1>1. IInv => TokensOnlyForSuccess
  <2> SUFFICES ASSUME IInv, NEW r \in Requests,
                      "available" \in {usage[r][i] : i \in DOMAIN usage[r]}
               PROVE  disconnects[r] = <<>> /\ Won(r)
    BY DEF TokensOnlyForSuccess, Won
  <2>1. PICK i \in DOMAIN usage[r] : usage[r][i] = "available"
    OBVIOUS
  <2>2. Types /\ Disconnected(r) /\ Recorded(r)
    BY DEF IInv, Request
  <2>3. /\ usage[r] \in Seq(Usages \cup {"censored"})
        /\ disconnects[r] \in Seq({"upstream", "response"})
        /\ completed[r] \in BOOLEAN /\ recorded[r] \in BOOLEAN
    BY <2>2 DEF Types
  <2>4. Len(usage[r]) = (IF completed[r] THEN 1 ELSE 0)
    BY <2>2 DEF Recorded
  <2>5. completed[r] /\ i = 1
    BY <2>1, <2>3, <2>4
  <2>6. ~recorded[r] /\ Won(r)
    BY <2>1, <2>2, <2>5 DEF Recorded
  <2>7. Len(disconnects[r]) = 0
    BY <2>2, <2>6 DEF Disconnected
  <2> QED
    BY <2>3, <2>6, <2>7
<1> QED
  BY <1>1, Invariant, PTL

\* A client that leaves is counted once, and before its reservation ends as a
\* disconnect.
THEOREM DisconnectCorrect == Spec => []DisconnectCountedOnce
<1>1. IInv => DisconnectCountedOnce
  <2> SUFFICES ASSUME IInv, NEW r \in Requests
               PROVE  /\ Len(disconnects[r]) <= 1
                      /\ ended[r] = "disconnect" => Len(disconnects[r]) = 1
    BY DEF DisconnectCountedOnce
  <2>1. Disconnected(r)
    BY DEF IInv, Request
  <2> QED
    BY <2>1 DEF Disconnected
<1> QED
  BY <1>1, Invariant, PTL

=============================================================================
