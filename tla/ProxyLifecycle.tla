--------------------------- MODULE ProxyLifecycle ---------------------------
(***************************************************************************)
(* The life of proxied requests: ServeHTTP and proxyRequest                *)
(* (internal/app/server/proxy.go, backend.go), the callbacks on the        *)
(* response body (server_setup.go, predictive_lifecycle.go), the usage     *)
(* evidence of each response (response_usage_evidence.go), the disconnect  *)
(* accounting (client_abort.go) and the shutdown (run.go).                 *)
(*                                                                         *)
(* Each request is a goroutine that holds a reservation handle. Against it *)
(* run the client, which may leave at any step, the deadline of the        *)
(* proxied call, the upstream, and the controller, which may fence every   *)
(* handle (a new runtime epoch, a failure, a shutdown) between any two of  *)
(* the handler's calls. A handle is abstracted to the phase of its         *)
(* reservation, for which AdmissionController is the detailed model.       *)
(***************************************************************************)
EXTENDS Integers, FiniteSets, Sequences

CONSTANTS
    Requests,           \* the requests that arrive
    Mode                \* PREDICTIVE_ADMISSION_MODE

ASSUME ProxyAssumption ==
    IsFiniteSet(Requests) /\ Mode \in {"enforce", "shadow"}

Live      == {"reserved", "forwarded", "active"}
Phases    == {"none", "debt", "removed", "fenced"} \cup Live
Causes    == {"success", "error", "cancel", "disconnect", "timeout"}
Statuses  == {"2xx", "other"}
Usages    == {"available", "unavailable"}     \* malformed usage is unavailable
Failures  == {"decide", "forward", "firstByte", "terminal"}

\* Where a handler is inside proxyRequest, after backend.Begin.
Proxying == {"roundTrip", "copy", "complete", "write", "served", "deadline", "aborted"}
Places   == {"arrived", "classify", "decide", "mark", "enter", "finish", "terminate",
             "censor", "done"} \cup Proxying

VARIABLES
    pc,                 \* where the handler of a request stands
    admission,          \* the request's route requires admission
    clientDone,         \* the client's context has ended
    ctxErr,             \* Err() of the proxied call's context
    phase,              \* the reservation behind the handle, "none" for a nil handle
    terminal,           \* the local variable of ServeHTTP
    last,               \* what the last Read of the response body returned
    firstDone,          \* firstOnce of the response body has run
    status,             \* StatusRecorder.status
    result,             \* the proxyResult
    parser, observed, completed,    \* responseUsageRequestEvidence
    recorded,           \* clientDisconnectState.recorded
    controller,         \* "open", "failed" or "closed"
    server,             \* "serving", "draining" or "closed"
    \* counters
    inflight, accepted, finished, proxyErrs, total429, enforcedRejects, failures,
    \* history variables
    ended,              \* the cause whose Terminate the controller accepted
    charged,            \* MarkForwarded returned true
    usage,              \* the outcomes recorded for a request, in order
    disconnects,        \* the phases under which its disconnect was counted
    rejected            \* it was answered by a local 429 before it was forwarded

local    == <<terminal, last, firstDone, status, result>>
evidence == <<parser, observed, completed, usage>>
handle   == <<phase, ended, charged>>
client   == <<clientDone, ctxErr>>
leaving  == <<recorded, disconnects>>
gauges   == <<inflight, accepted, finished>>
rejects  == <<total429, enforcedRejects, rejected>>
world    == <<controller, server>>
vars == <<pc, admission, client, handle, local, evidence, leaving, world, gauges,
          proxyErrs, rejects, failures>>

NoRead   == [bytes |-> FALSE, err |-> "none"]
NoResult == [status |-> "none", timedOut |-> FALSE]

Types ==
    /\ pc \in [Requests -> Places]
    /\ admission \in [Requests -> BOOLEAN]
    /\ clientDone \in [Requests -> BOOLEAN]
    /\ ctxErr \in [Requests -> {"none", "canceled", "deadline"}]
    /\ phase \in [Requests -> Phases]
    /\ terminal \in [Requests -> Causes]
    /\ last \in [Requests -> [bytes : BOOLEAN, err : {"none", "eof", "failed"}]]
    /\ firstDone \in [Requests -> BOOLEAN]
    /\ status \in [Requests -> {"none"} \cup Statuses]
    /\ result \in [Requests -> [status : {"none", "499"} \cup Statuses, timedOut : BOOLEAN]]
    /\ parser \in [Requests -> BOOLEAN]
    /\ observed \in [Requests -> {"none"} \cup Usages]
    /\ completed \in [Requests -> BOOLEAN]
    /\ usage \in [Requests -> Seq(Usages \cup {"censored"})]
    /\ recorded \in [Requests -> BOOLEAN]
    /\ disconnects \in [Requests -> Seq({"upstream", "response"})]
    /\ controller \in {"open", "failed", "closed"}
    /\ server \in {"serving", "draining", "closed"}
    /\ inflight \in Int /\ accepted \in Nat /\ finished \in Nat
    /\ proxyErrs \in Nat /\ total429 \in Nat /\ enforcedRejects \in Nat
    /\ failures \in [Failures -> Nat]
    /\ ended \in [Requests -> {"none"} \cup Causes]
    /\ charged \in [Requests -> BOOLEAN]
    /\ rejected \in [Requests -> BOOLEAN]

TypeOK == Types /\ inflight \in Nat

Init ==
    /\ pc = [r \in Requests |-> "arrived"]
    /\ admission = [r \in Requests |-> FALSE]
    /\ clientDone = [r \in Requests |-> FALSE]
    /\ ctxErr = [r \in Requests |-> "none"]
    /\ phase = [r \in Requests |-> "none"]
    /\ terminal = [r \in Requests |-> "cancel"]
    /\ last = [r \in Requests |-> NoRead]
    /\ firstDone = [r \in Requests |-> FALSE]
    /\ status = [r \in Requests |-> "none"]
    /\ result = [r \in Requests |-> NoResult]
    /\ parser = [r \in Requests |-> FALSE]
    /\ observed = [r \in Requests |-> "none"]
    /\ completed = [r \in Requests |-> FALSE]
    /\ usage = [r \in Requests |-> <<>>]
    /\ recorded = [r \in Requests |-> FALSE]
    /\ disconnects = [r \in Requests |-> <<>>]
    /\ controller = "open" /\ server = "serving"
    /\ inflight = 0 /\ accepted = 0 /\ finished = 0
    /\ proxyErrs = 0 /\ total429 = 0 /\ enforcedRejects = 0
    /\ failures = [f \in Failures |-> 0]
    /\ ended = [r \in Requests |-> "none"]
    /\ charged = [r \in Requests |-> FALSE]
    /\ rejected = [r \in Requests |-> FALSE]

Goto(r, place) == pc' = [pc EXCEPT ![r] = place]

Count(f) == failures' = [failures EXCEPT ![f] = @ + 1]

-----------------------------------------------------------------------------
(***************************************************************************)
(* The reservation handle.                                                 *)
(***************************************************************************)

\* Terminate acts on a live reservation of the current epoch, once: one never
\* forwarded or wholly decoded is removed, any other leaves debt.
Terminate(r, cause) ==
    IF phase[r] \in Live
    THEN /\ ended' = [ended EXCEPT ![r] = cause]
         /\ phase' = [phase EXCEPT ![r] =
               IF @ = "reserved" \/ (@ = "active" /\ cause = "success") THEN "removed" ELSE "debt"]
    ELSE UNCHANGED <<ended, phase>>

\* Every handle of the epoch stops working.
Fence == phase' = [r \in Requests |-> IF phase[r] \in Live \cup {"debt"} THEN "fenced" ELSE phase[r]]

\* A new runtime epoch.
Reset ==
    /\ controller = "open" /\ \E r \in Requests : phase[r] \in Live
    /\ Fence
    /\ UNCHANGED <<pc, admission, client, local, evidence, leaving, world, gauges, proxyErrs,
                   rejects, failures, ended, charged>>

\* The controller fails closed.
FailClosed ==
    /\ controller = "open" /\ controller' = "failed"
    /\ Fence
    /\ UNCHANGED <<pc, admission, client, local, evidence, leaving, server, gauges, proxyErrs,
                   rejects, failures, ended, charged>>

\* A publication proves that the backend no longer runs the sequences.
Reconcile(r) ==
    /\ phase[r] = "debt" /\ controller = "open"
    /\ phase' = [phase EXCEPT ![r] = "removed"]
    /\ UNCHANGED <<pc, admission, client, local, evidence, leaving, world, gauges, proxyErrs,
                   rejects, failures, ended, charged>>

-----------------------------------------------------------------------------
(***************************************************************************)
(* The client and the contexts.                                            *)
(***************************************************************************)
ClientLeaves(r) ==
    /\ pc[r] # "done" /\ ~clientDone[r]
    /\ clientDone' = [clientDone EXCEPT ![r] = TRUE]
    /\ UNCHANGED <<pc, admission, ctxErr, handle, local, evidence, leaving, world, gauges,
                   proxyErrs, rejects, failures>>

\* The context of the proxied call is a child of the client's.
Propagates(r) ==
    /\ pc[r] \in Proxying /\ clientDone[r] /\ ctxErr[r] = "none"
    /\ ctxErr' = [ctxErr EXCEPT ![r] = "canceled"]
    /\ UNCHANGED <<pc, admission, clientDone, handle, local, evidence, leaving, world, gauges,
                   proxyErrs, rejects, failures>>

\* A slip: the timeout guards the header of the response and not its body.
DeadlinePassesForHeader(r) ==
    /\ pc[r] = "roundTrip" /\ ctxErr[r] = "none"
    /\ ctxErr' = [ctxErr EXCEPT ![r] = "deadline"]
    /\ UNCHANGED <<pc, admission, clientDone, handle, local, evidence, leaving, world, gauges,
                   proxyErrs, rejects, failures>>

\* PROXY_TIMEOUT_SECONDS have passed.
DeadlinePasses(r) ==
    /\ pc[r] \in Proxying /\ ctxErr[r] = "none"
    /\ ctxErr' = [ctxErr EXCEPT ![r] = "deadline"]
    /\ UNCHANGED <<pc, admission, clientDone, handle, local, evidence, leaving, world, gauges,
                   proxyErrs, rejects, failures>>

\* A slip: every handler that meets the disconnect counts it.
RecordClientDisconnectEachTime(r, place) ==
    IF clientDone[r]
    THEN /\ recorded' = [recorded EXCEPT ![r] = TRUE]
         /\ disconnects' = [disconnects EXCEPT ![r] = Append(@, place)]
    ELSE UNCHANGED leaving

\* recordClientDisconnect; its value is clientDone[r].
RecordClientDisconnect(r, place) ==
    IF clientDone[r] /\ ~recorded[r]
    THEN /\ recorded' = [recorded EXCEPT ![r] = TRUE]
         /\ disconnects' = [disconnects EXCEPT ![r] = Append(@, place)]
    ELSE UNCHANGED leaving

-----------------------------------------------------------------------------
(***************************************************************************)
(* ServeHTTP, up to the proxied call.                                      *)
(***************************************************************************)

\* A local management route, a route that is not public or a request without
\* a valid token is answered at once; GET /v1/models is forwarded without
\* admission; the generation routes are classified.
Route(r) ==
    /\ pc[r] = "arrived" /\ server = "serving"
    /\ \/ Goto(r, "done") /\ UNCHANGED admission
       \/ Goto(r, "enter") /\ UNCHANGED admission
       \/ Goto(r, "classify") /\ admission' = [admission EXCEPT ![r] = TRUE]
    /\ UNCHANGED <<client, handle, local, evidence, leaving, world, gauges, proxyErrs,
                   rejects, failures>>

\* ClassifyRequest. From here the usage evidence is censored on return. A
\* body that is not JSON is answered 400.
Classify(r) ==
    /\ pc[r] = "classify"
    /\ \E valid \in BOOLEAN : Goto(r, IF valid THEN "decide" ELSE "censor")
    /\ UNCHANGED <<admission, client, handle, local, evidence, leaving, world, gauges, proxyErrs,
                   rejects, failures>>

\* A local 429 before the request is forwarded.
Rejects(r) ==
    /\ total429' = total429 + 1
    /\ enforcedRejects' = enforcedRejects + (IF Mode = "enforce" THEN 1 ELSE 0)
    /\ rejected' = [rejected EXCEPT ![r] = TRUE]

\* decideAdmission protects: the policy, a closed controller, a client that has
\* left, or (failed) a panic of the service.
Protects(r, failed) ==
    /\ pc[r] = "decide"
    /\ IF Mode = "enforce"
       THEN Rejects(r) /\ Goto(r, "censor")
       ELSE Goto(r, "enter") /\ UNCHANGED rejects
    /\ IF failed THEN Count("decide") ELSE UNCHANGED failures
    /\ UNCHANGED <<admission, client, handle, local, evidence, leaving, world, gauges, proxyErrs>>

Admits(r) ==
    /\ pc[r] = "decide" /\ controller = "open" /\ ~clientDone[r]
    /\ phase' = [phase EXCEPT ![r] = "reserved"]
    /\ terminal' = [terminal EXCEPT ![r] = "cancel"]
    /\ Goto(r, "mark")
    /\ UNCHANGED <<admission, client, ended, charged, last, firstDone, status, result, evidence,
                   leaving, world, gauges, proxyErrs, rejects, failures>>

\* A slip: the result of MarkForwarded is not looked at.
MarkForwardedUnchecked(r) ==
    /\ pc[r] = "mark"
    /\ IF phase[r] = "reserved"
       THEN /\ phase' = [phase EXCEPT ![r] = "forwarded"]
            /\ charged' = [charged EXCEPT ![r] = TRUE]
       ELSE UNCHANGED <<phase, charged>>
    /\ Goto(r, "enter")
    /\ UNCHANGED <<admission, client, ended, local, evidence, leaving, world, gauges, proxyErrs,
                   rejects, failures>>

MarkForwarded(r) ==
    /\ pc[r] = "mark"
    /\ IF phase[r] = "reserved"
       THEN /\ phase' = [phase EXCEPT ![r] = "forwarded"]
            /\ charged' = [charged EXCEPT ![r] = TRUE]
            /\ Goto(r, "enter")
            /\ UNCHANGED <<terminal, rejects, failures>>
       ELSE /\ terminal' = [terminal EXCEPT ![r] = "error"]
            /\ Count("forward")
            /\ Rejects(r)
            /\ Goto(r, "terminate")
            /\ UNCHANGED <<phase, charged>>
    /\ UNCHANGED <<admission, client, ended, last, firstDone, status, result, evidence, leaving,
                   world, gauges, proxyErrs>>

-----------------------------------------------------------------------------
(***************************************************************************)
(* proxyRequest and the reverse proxy it calls.                            *)
(***************************************************************************)

\* backend.Begin and the context of the call.
Enter(r) ==
    /\ pc[r] = "enter"
    /\ inflight' = inflight + 1 /\ accepted' = accepted + 1
    /\ Goto(r, "roundTrip")
    /\ UNCHANGED <<admission, client, handle, local, evidence, leaving, world, finished,
                   proxyErrs, rejects, failures>>

\* The upstream cannot be reached or the call is cut: the error handler.
RoundTripFails(r) ==
    /\ pc[r] = "roundTrip"
    /\ RecordClientDisconnect(r, "upstream")
    /\ IF clientDone[r]
       THEN UNCHANGED <<proxyErrs, status>>
       ELSE proxyErrs' = proxyErrs + 1 /\ status' = [status EXCEPT ![r] = "other"]
    /\ Goto(r, "served")
    /\ UNCHANGED <<admission, client, handle, terminal, last, firstDone, result, evidence, world,
                   gauges, rejects, failures>>

\* The upstream answers: modifyBackendResponse attaches the usage parser and
\* the callbacks, and the header goes to the client. A 500 that
\* classifyUpstreamErrorResponse rewrites is never a 2xx.
Responds(r) ==
    /\ pc[r] = "roundTrip"
    /\ \E code \in Statuses :
          /\ status' = [status EXCEPT ![r] = code]
          /\ \E attach \in BOOLEAN :
                /\ attach => admission[r] /\ code = "2xx"
                /\ parser' = [parser EXCEPT ![r] = attach]
    /\ Goto(r, "copy")
    /\ UNCHANGED <<admission, client, handle, terminal, last, firstDone, result, observed,
                   completed, usage, leaving, world, gauges, proxyErrs, rejects, failures>>

\* What the usage parser reports of what it has seen so far, at most once.
Observes(r, seen) ==
    IF seen /\ parser[r] /\ observed[r] = "none" /\ ~completed[r]
    THEN \E u \in {"none"} \cup Usages : observed' = [observed EXCEPT ![r] = u]
    ELSE UNCHANGED observed

\* firstOnce.Do(onFirst): MarkFirstByte.
FirstByte(r, bytes) ==
    IF bytes /\ phase[r] # "none" /\ ~firstDone[r]
    THEN /\ firstDone' = [firstDone EXCEPT ![r] = TRUE]
         /\ IF phase[r] = "forwarded"
            THEN phase' = [phase EXCEPT ![r] = "active"] /\ UNCHANGED failures
            ELSE Count("firstByte") /\ UNCHANGED phase
    ELSE UNCHANGED <<firstDone, phase, failures>>

\* A slip: the end of any response completes the reservation.
CompletesOnEOF(r, err) == err = "eof" /\ phase[r] # "none"

\* completeOnce.Do(onComplete) finds the context live.
Completes(r, err) ==
    err = "eof" /\ phase[r] # "none" /\ status[r] = "2xx" /\ ctxErr[r] = "none"

\* Read of admissionResponseBodyReadCloser, over Read of completionUsageBody.
\* The context is looked at here and the reservation ends in a later step.
Read(r, bytes, err) ==
    /\ pc[r] = "copy" /\ (bytes \/ err # "none")
    /\ last' = [last EXCEPT ![r] = [bytes |-> bytes, err |-> err]]
    /\ Observes(r, bytes \/ err = "eof")
    /\ FirstByte(r, bytes)
    /\ Goto(r, IF Completes(r, err) THEN "complete" ELSE "write")
    /\ UNCHANGED <<admission, client, ended, charged, terminal, status, result, parser, completed,
                   usage, leaving, world, gauges, proxyErrs, rejects>>

Complete(r) ==
    /\ pc[r] = "complete"
    /\ Terminate(r, "success")
    /\ IF phase[r] \in Live THEN UNCHANGED failures ELSE Count("terminal")
    /\ Goto(r, "write")
    /\ UNCHANGED <<admission, client, charged, local, evidence, leaving, world, gauges, proxyErrs,
                   rejects>>

\* The copy loop writes the bytes and looks at the error of the Read; any error
\* but the end of the body makes the reverse proxy panic with ErrAbortHandler.
Write(r, ok) ==
    /\ pc[r] = "write" /\ (last[r].bytes \/ ok)
    /\ Goto(r, CASE ~ok \/ last[r].err = "failed" -> "aborted"
                 [] ok /\ last[r].err = "eof"     -> "served"
                 [] OTHER                         -> "copy")
    /\ UNCHANGED <<admission, client, handle, local, evidence, leaving, world, gauges, proxyErrs,
                   rejects, failures>>

\* The deferred done of backend.Begin.
Done == inflight' = inflight - 1 /\ finished' = finished + 1 /\ UNCHANGED accepted

\* A slip: done is called on the ordinary return only.
AbortedWithoutDone(r) ==
    /\ pc[r] = "aborted"
    /\ RecordClientDisconnect(r, "response")
    /\ IF clientDone[r]
       THEN /\ result' = [result EXCEPT ![r] = [status |-> "499", timedOut |-> FALSE]]
            /\ Goto(r, "finish")
       ELSE /\ Goto(r, IF admission[r] THEN "terminate" ELSE "done")
            /\ UNCHANGED result
    /\ UNCHANGED <<admission, client, handle, terminal, last, firstDone, status, evidence, world,
                   gauges, proxyErrs, rejects, failures>>

\* A slip: the panic passes the end of the reservation, which is no defer.
AbortedPastTerminate(r) ==
    /\ pc[r] = "aborted"
    /\ RecordClientDisconnect(r, "response")
    /\ IF clientDone[r]
       THEN /\ result' = [result EXCEPT ![r] = [status |-> "499", timedOut |-> FALSE]]
            /\ Goto(r, "finish")
       ELSE /\ Goto(r, IF admission[r] THEN "censor" ELSE "done")
            /\ UNCHANGED result
    /\ Done
    /\ UNCHANGED <<admission, client, handle, terminal, last, firstDone, status, evidence, world,
                   proxyErrs, rejects, failures>>

\* The recover of proxyRequest: the panic is answered for a client that has
\* left and raised again otherwise, past the rest of ServeHTTP to its defers.
Aborted(r) ==
    /\ pc[r] = "aborted"
    /\ RecordClientDisconnect(r, "response")
    /\ IF clientDone[r]
       THEN /\ result' = [result EXCEPT ![r] = [status |-> "499", timedOut |-> FALSE]]
            /\ Goto(r, "finish")
       ELSE /\ Goto(r, IF admission[r] THEN "terminate" ELSE "done")
            /\ UNCHANGED result
    /\ Done
    /\ UNCHANGED <<admission, client, handle, terminal, last, firstDone, status, evidence, world,
                   proxyErrs, rejects, failures>>

\* StatusRecorder.StatusOrOK: no header means 200.
StatusOrOK(r) == IF status[r] = "none" THEN "2xx" ELSE status[r]

\* The reverse proxy returns: the recorded status, unless the client has left.
Served(r) ==
    /\ pc[r] = "served"
    /\ RecordClientDisconnect(r, "response")
    /\ result' = [result EXCEPT ![r].status = IF clientDone[r] THEN "499" ELSE StatusOrOK(r)]
    /\ Goto(r, "deadline")
    /\ UNCHANGED <<admission, client, handle, terminal, last, firstDone, status, evidence, world,
                   gauges, proxyErrs, rejects, failures>>

\* result.timedOut, which looks at the context once more.
TimedOut(r) ==
    /\ pc[r] = "deadline"
    /\ result' = [result EXCEPT ![r].timedOut = (ctxErr[r] = "deadline")]
    /\ Done
    /\ Goto(r, "finish")
    /\ UNCHANGED <<admission, client, handle, terminal, last, firstDone, status, evidence, leaving,
                   world, proxyErrs, rejects, failures>>

-----------------------------------------------------------------------------
(***************************************************************************)
(* ServeHTTP, after the proxied call.                                      *)
(***************************************************************************)

\* A slip: a response that came in time but ended after the deadline counts.
SucceededIgnoringTimeout(res) == res.status = "2xx"

\* proxyResultSucceeded; proxyFailed is set only without a backend.
Succeeded(res) == res.status = "2xx" /\ ~res.timedOut

\* admissionTerminalCause.
TerminalCause(res) ==
    CASE res.timedOut                            -> "timeout"
      [] ~res.timedOut /\ res.status = "499"     -> "disconnect"
      [] ~res.timedOut /\ res.status = "2xx"     -> "success"
      [] OTHER                                   -> "error"

\* The outcome of responseEvidence.Complete.
Usage(r) ==
    CASE Succeeded(result[r]) /\ observed[r] # "none"               -> observed[r]
      [] Succeeded(result[r]) /\ observed[r] = "none" /\ ~parser[r] -> "unavailable"
      [] OTHER                                                      -> "censored"

\* A slip: Complete leaves the evidence open to the deferred Censor.
FinishStillOpen(r) ==
    /\ pc[r] = "finish" /\ admission[r]
    /\ usage' = [usage EXCEPT ![r] = Append(@, Usage(r))]
    /\ terminal' = [terminal EXCEPT ![r] = TerminalCause(result[r])]
    /\ Goto(r, "terminate")
    /\ UNCHANGED <<admission, client, handle, last, firstDone, status, result, parser, observed,
                   completed, leaving, world, gauges, proxyErrs, rejects, failures>>

Finish(r) ==
    /\ pc[r] = "finish"
    /\ IF admission[r]
       THEN /\ usage' = [usage EXCEPT ![r] = Append(@, Usage(r))]
            /\ completed' = [completed EXCEPT ![r] = TRUE]
            /\ terminal' = [terminal EXCEPT ![r] = TerminalCause(result[r])]
            /\ Goto(r, "terminate")
       ELSE Goto(r, "done") /\ UNCHANGED <<usage, completed, terminal>>
    /\ UNCHANGED <<admission, client, handle, last, firstDone, status, result, parser, observed,
                   leaving, world, gauges, proxyErrs, rejects, failures>>

\* The deferred Terminate, whose result is not looked at.
DeferredTerminate(r) ==
    /\ pc[r] = "terminate"
    /\ Terminate(r, terminal[r])
    /\ Goto(r, "censor")
    /\ UNCHANGED <<admission, client, charged, local, evidence, leaving, world, gauges, proxyErrs,
                   rejects, failures>>

\* The deferred Censor.
DeferredCensor(r) ==
    /\ pc[r] = "censor"
    /\ usage' = [usage EXCEPT ![r] = IF completed[r] THEN @ ELSE Append(@, "censored")]
    /\ completed' = [completed EXCEPT ![r] = TRUE]
    /\ Goto(r, "done")
    /\ UNCHANGED <<admission, client, handle, local, parser, observed, leaving, world, gauges,
                   proxyErrs, rejects, failures>>

-----------------------------------------------------------------------------
(***************************************************************************)
(* serveHTTPContext and the deferred Close of runServer.                   *)
(***************************************************************************)
Running(r) == pc[r] \notin {"arrived", "done"}

\* The signal: no request is accepted from here.
Signal ==
    /\ server = "serving" /\ server' = "draining"
    /\ UNCHANGED <<pc, admission, client, handle, local, evidence, leaving, controller, gauges,
                   proxyErrs, rejects, failures>>

\* Shutdown returns when the handlers have, or after five seconds; then the
\* connections are closed and the admission service with them.
Shutdown ==
    /\ server = "draining" /\ server' = "closed"
    /\ controller' = "closed"
    /\ Fence
    /\ UNCHANGED <<pc, admission, client, local, evidence, leaving, gauges, proxyErrs, rejects,
                   failures, ended, charged>>

-----------------------------------------------------------------------------
\* What the handler of r does by itself.
Handler(r) ==
    \/ MarkForwarded(r) \/ Enter(r) \/ Complete(r) \/ Aborted(r) \/ Served(r) \/ TimedOut(r)
    \/ Finish(r) \/ DeferredTerminate(r) \/ DeferredCensor(r)
    \/ \E ok \in BOOLEAN : Write(r, ok)

\* What it does once the context of the call has ended.
Cut(r) ==
    /\ ctxErr[r] # "none"
    /\ RoundTripFails(r) \/ Read(r, FALSE, "failed")

Next ==
    \/ \E r \in Requests :
          \/ Route(r) \/ Classify(r) \/ Admits(r)
          \/ \E failed \in BOOLEAN : Protects(r, failed)
          \/ RoundTripFails(r) \/ Responds(r)
          \/ \E bytes \in BOOLEAN, err \in {"none", "eof", "failed"} : Read(r, bytes, err)
          \/ Handler(r)
          \/ ClientLeaves(r) \/ Propagates(r) \/ DeadlinePasses(r) \/ Reconcile(r)
    \/ Reset \/ FailClosed \/ Signal \/ Shutdown

Spec == Init /\ [][Next]_vars

\* The handler runs, the deadline of the call passes, and a call that is cut
\* returns: the deadline writer ends its writes, the transport fails its reads,
\* if only after the chunks it had buffered.
Fairness ==
    \A r \in Requests : WF_vars(Handler(r)) /\ SF_vars(Cut(r)) /\ WF_vars(DeadlinePasses(r))

FairSpec == Spec /\ Fairness

-----------------------------------------------------------------------------
(***************************************************************************)
(* Properties.                                                             *)
(***************************************************************************)

\* Every path out of a handler ends its reservation: success, upstream error,
\* timeout, disconnect, a refused MarkForwarded and a panic raised again (the
\* defer of ServeHTTP, against the early Terminate of onComplete and a fence).
ReservationReleased == \A r \in Requests : pc[r] = "done" => phase[r] \notin Live

\* In enforce mode no request that needs admission reaches the upstream unless
\* the controller has charged it, even when its handle was fenced between the
\* decision and MarkForwarded.
UpstreamCallsCharged ==
    Mode = "enforce" =>
        \A r \in Requests : admission[r] /\ pc[r] \in Proxying \cup {"finish"} => charged[r]

\* A reservation ends as a success only when the whole body of a 2xx response
\* has been read: its capacity is not freed while the backend still decodes.
SuccessMeansComplete ==
    \A r \in Requests : ended[r] = "success" => status[r] = "2xx" /\ last[r].err = "eof"

\* Each classified request leaves one usage outcome, whichever of Complete and
\* Censor comes first and however the handler ends.
EvidenceOnce ==
    \A r \in Requests :
        /\ Len(usage[r]) = (IF completed[r] THEN 1 ELSE 0)
        /\ pc[r] = "done" => completed[r] = admission[r]

\* Completion tokens are counted only for a request that the controller saw
\* succeed (or whose handle was fenced) and whose disconnect was not counted.
TokensOnlyForSuccess ==
    \A r \in Requests :
        "available" \in {usage[r][i] : i \in DOMAIN usage[r]} =>
            /\ disconnects[r] = <<>>
            /\ phase[r] # "none" => ended[r] = "success" \/ phase[r] = "fenced"

\* The in-flight gauge counts the handlers inside the proxied call, and the
\* totals agree with it, across panics and disconnects.
InflightExact ==
    /\ inflight = Cardinality({r \in Requests : pc[r] \in Proxying})
    /\ accepted = finished + inflight

\* A client that leaves is counted once, whether the error handler, the return
\* of the proxied call or its recover meets it first, and a reservation that
\* ends as a disconnect belongs to a client that was counted.
DisconnectCountedOnce ==
    \A r \in Requests :
        /\ Len(disconnects[r]) <= 1
        /\ ended[r] = "disconnect" => Len(disconnects[r]) = 1

\* The lifecycle failures that the metrics report are the fence's doing: while
\* no handle was fenced, each handle is marked and ended in an order that the
\* controller accepts.
FailuresMeanFence ==
    (\A r \in Requests : phase[r] # "fenced") =>
        failures["forward"] = 0 /\ failures["firstByte"] = 0 /\ failures["terminal"] = 0

\* The rejection counters are exact, and a rejected request never reaches the
\* upstream, nor keeps what it reserved.
RejectionsExact ==
    /\ total429 = Cardinality({r \in Requests : rejected[r]})
    /\ enforcedRejects = (IF Mode = "enforce" THEN total429 ELSE 0)
    /\ \A r \in Requests : rejected[r] => pc[r] \in {"terminate", "censor", "done"} /\ ~charged[r]

\* What the metrics report of the proxied calls is what happened: all of the above
\* gauges and counters (observeProxyResult, admissionFailures).
CountersExact == InflightExact /\ FailuresMeanFence /\ RejectionsExact

\* A reservation is always given back, under a deadline that always passes.
ReservationEnds == \A r \in Requests : phase[r] \in Live ~> phase[r] \notin Live

=============================================================================
