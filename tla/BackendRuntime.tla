--------------------------- MODULE BackendRuntime ---------------------------
(***************************************************************************)
(* How the gateway comes to serve a backend, follows it, and lets go of it *)
(* (src/internal/app/server: run.go, server_setup.go, predictive_factory,  *)
(* predictive_backend_probe, predictive_running_limit,                     *)
(* admission_backend_observer, admission_runtime): the wait for coherent   *)
(* metrics, the discovery of what the backend states, the controller and   *)
(* its first observation, the observer's goroutine that polls from then    *)
(* on, and Close. The backend may change, stop or be replaced at any       *)
(* moment, also while a reply is under way.                                *)
(*                                                                         *)
(* The controller is AdmissionController, of which only what startup and   *)
(* the observer see is kept here: whether it is open, and which runtime it *)
(* is for. A runtime is a backend's kind and model.                        *)
(***************************************************************************)
EXTENDS Integers, Sequences, FiniteSets, SequencesExt

CONSTANTS
    Backends,       \* what may answer: kind, model, coherent, document
    ExplicitLimit,  \* the configured running limit, in a set; empty for none
    MaximumBound

ASSUME BackendAssumption ==
    \A b \in Backends : b.kind \in {"vllm", "sglang"} /\ b.coherent \in BOOLEAN

Info == INSTANCE ServerInfo

VARIABLES
    backend,        \* the backend that answers now, in a set; empty while none does
    canceled,       \* the context of runServer
    main,           \* where the goroutine of runServer is
    expired,        \* the deadline of the startup attempt under way
    probed,         \* what its last fetch returned, in a set; empty for an error
    startup,        \* the sample that ended the wait, in a set
    discovered,     \* discoverPredictiveBackend
    controller,     \* the AdmissionController: its state, and who closed it
    observer,       \* where the goroutine of the observer is
    stopped,        \* the observer's context
    sample          \* what the observer's fetch returned

startupVars  == <<expired, probed, startup, discovered>>
observerVars == <<observer, sample>>
vars == <<backend, canceled, main, startupVars, controller, observerVars, stopped>>

Waiting == {"attempt", "probe", "probing", "probed", "retry", "attempted", "between"}
Ended   == {"failed", "ended"}

NotDiscovered == [limit |-> 0, source |-> "unknown", warmPromptTokens |-> 0, tierScheduling |-> FALSE]
NoController  == [state |-> "none", by |-> "nobody"]
OpenController  == [state |-> "open", by |-> "nobody"]
ClosedBy(who) == [state |-> "closed", by |-> who]

TypeOK ==
    /\ backend \subseteq Backends /\ Cardinality(backend) <= 1
    /\ probed \subseteq Backends /\ startup \subseteq Backends /\ sample \subseteq Backends
    /\ canceled \in BOOLEAN /\ expired \in BOOLEAN /\ stopped \in BOOLEAN
    /\ main \in Waiting \cup Ended \cup {"discover", "construct", "observe", "wire", "serve", "close", "closing"}
    /\ controller.state \in {"none", "open", "closed"}
    /\ observer \in {"none", "start", "select", "fetching", "fetched", "done"}
    /\ main \notin Waiting \cup {"failed"} => startup # {}
    /\ observer # "none" => controller.state # "none"

Init ==
    /\ backend \in {{}} \cup {{b} : b \in Backends}
    /\ canceled = FALSE /\ main = "attempt" /\ expired = FALSE
    /\ probed = {} /\ startup = {} /\ discovered = NotDiscovered
    /\ controller = NoController /\ observer = "none" /\ stopped = FALSE /\ sample = {}

\* What FetchSampleContext may return: what the backend says, or an error.
Replies == {backend, {}}

Coherent(reply) == \E b \in reply : b.coherent

\* A slip: two backends that serve the same model are the same runtime.
IdentityOfModel(b, own) == b.model

\* Of the model, of which the identity is a digest, and only of a backend of
\* the kind that was there at startup.
Identity(b, own) == IF b.kind = own.kind THEN b.model ELSE "runtime-identity-drift"

IsDrift(b, own) == Identity(b, own) # own.model

-----------------------------------------------------------------------------
(* waitPredictiveBackendStartup: attempts until one has a coherent sample, *)
(* each with a deadline of its own (probePredictiveBackendStartup).        *)

BeginAttempt ==
    /\ main = "attempt"
    /\ main' = IF canceled THEN "failed" ELSE "probe"
    /\ expired' = FALSE
    /\ UNCHANGED <<backend, canceled, probed, startup, discovered, controller, observerVars, stopped>>

Probe ==
    /\ main = "probe"
    /\ main' = IF canceled \/ expired THEN "attempted" ELSE "probing"
    /\ UNCHANGED <<backend, canceled, startupVars, controller, observerVars, stopped>>

FetchStartup(reply) ==
    /\ main = "probing"
    /\ main' = "probed" /\ probed' = reply
    /\ UNCHANGED <<backend, canceled, expired, startup, discovered, controller, observerVars, stopped>>

\* predictiveBackendStartupFromSample.
JudgeSample ==
    /\ main = "probed"
    /\ IF Coherent(probed) THEN startup' = probed /\ main' = "attempted"
                           ELSE startup' = startup /\ main' = "retry"
    /\ UNCHANGED <<backend, canceled, expired, probed, discovered, controller, observerVars, stopped>>

WaitRetry ==
    /\ main = "retry"
    /\ main' = IF canceled \/ expired THEN "attempted" ELSE "probe"
    /\ UNCHANGED <<backend, canceled, startupVars, controller, observerVars, stopped>>

\* A slip: a sample that came as the deadline passed is dropped.
AfterTimelyAttempt ==
    IF canceled THEN "failed" ELSE IF startup # {} /\ ~expired THEN "discover" ELSE "between"

\* The end of an attempt: a deadline only ends the attempt.
AfterAttempt == IF canceled THEN "failed" ELSE IF startup # {} THEN "discover" ELSE "between"

EndAttempt ==
    /\ main = "attempted"
    /\ main' = AfterAttempt
    /\ UNCHANGED <<backend, canceled, startupVars, controller, observerVars, stopped>>

WaitAttempt ==
    /\ main = "between"
    /\ main' = IF canceled THEN "failed" ELSE "attempt"
    /\ UNCHANGED <<backend, canceled, startupVars, controller, observerVars, stopped>>

\* Never before the first fetch: RequestTimeout is at most StartupTimeout.
AttemptExpires ==
    /\ main \in {"probing", "probed", "retry"} /\ ~expired /\ expired' = TRUE
    /\ UNCHANGED <<backend, canceled, main, probed, startup, discovered, controller, observerVars, stopped>>

-----------------------------------------------------------------------------
(* newDefaultAdmissionServiceContext, after the wait.                      *)

Own == CHOOSE b \in startup : TRUE

\* What the backend that answers states of itself, if it does.
Stated(reply) ==
    {i \in {FoldLeft(Info!Decode, Info!NothingDecoded, b.document) : b \in {r \in reply : r.kind = "sglang"}} :
        Info!DecodedOK(i)}

LimitOf(infos) ==
    IF ExplicitLimit # {} THEN [limit |-> CHOOSE l \in ExplicitLimit : TRUE, source |-> "environment"]
    ELSE IF infos # {} THEN [limit |-> Info!RunningLimit(CHOOSE i \in infos : TRUE), source |-> "sglang_server_info"]
    ELSE [limit |-> 0, source |-> "unknown"]

\* discoverPredictiveBackend: by now another backend may answer.
Discover(reply) ==
    LET infos == IF Own.kind = "sglang" THEN Stated(reply) ELSE {}
        stated == IF infos = {} THEN [warm |-> 0, tier |-> FALSE]
                  ELSE [warm |-> Info!ChunkedPrefillSize(CHOOSE i \in infos : TRUE),
                        tier |-> Info!TierScheduling(CHOOSE i \in infos : TRUE)]
    IN  /\ main = "discover"
        /\ main' = IF canceled THEN "failed" ELSE "construct"
        /\ discovered' = [limit |-> LimitOf(infos).limit, source |-> LimitOf(infos).source,
                          warmPromptTokens |-> stated.warm, tierScheduling |-> stated.tier]
        /\ UNCHANGED <<backend, canceled, expired, probed, startup, controller, observerVars, stopped>>

\* A slip: startup fails without closing it.
LeftController == OpenController

\* What is left of a controller when startup fails after it is made.
AbandonedController == ClosedBy("close")

\* The controller, and the observation startup made, which it may refuse.
Construct(accept) ==
    /\ main = "construct"
    /\ IF accept
       THEN controller' = OpenController /\ main' = "observe"
       ELSE controller' = AbandonedController /\ main' = "failed"
    /\ UNCHANGED <<backend, canceled, startupVars, observerVars, stopped>>

\* newAdmissionBackendObserver starts the goroutine, or refuses its configuration.
StartObserver(valid) ==
    /\ main = "observe"
    /\ IF valid THEN observer' = "start" /\ main' = "wire" /\ UNCHANGED controller
       ELSE controller' = AbandonedController /\ main' = "failed" /\ UNCHANGED observer
    /\ UNCHANGED <<backend, canceled, startupVars, sample, stopped>>

\* The rest of newProxyServerWithDependencies: a part that cannot be built closes
\* the admission service, as does a signal that came meanwhile (runServer).
Wire(built) ==
    /\ main = "wire"
    /\ main' = IF built /\ ~canceled THEN "serve" ELSE "close"
    /\ UNCHANGED <<backend, canceled, startupVars, controller, observerVars, stopped>>

-----------------------------------------------------------------------------
(* Serving, and Close.                                                     *)

\* serveHTTPContext returns: after a signal, or when the listener fails.
StopServing ==
    /\ main = "serve" /\ main' = "close"
    /\ UNCHANGED <<backend, canceled, startupVars, controller, observerVars, stopped>>

\* A slip: Close waits for the goroutine without a word to it.
AwaitObserver ==
    /\ main = "close" /\ main' = "closing"
    /\ UNCHANGED <<backend, canceled, startupVars, controller, observerVars, stopped>>

\* admissionBackendObserver.Close: cancel, and wait for the goroutine to end.
CancelObserver ==
    /\ main = "close" /\ main' = "closing" /\ stopped' = TRUE
    /\ UNCHANGED <<backend, canceled, startupVars, controller, observerVars>>

ObserverEnded == observer = "done"

CloseController ==
    /\ main = "closing" /\ ObserverEnded /\ main' = "ended"
    /\ controller' = IF controller.state = "open" THEN ClosedBy("close") ELSE controller
    /\ UNCHANGED <<backend, canceled, startupVars, observerVars, stopped>>

-----------------------------------------------------------------------------
(* The observer: loop and poll.                                            *)

\* StartSampleWindow, at once when the goroutine starts and then with the
\* ticker. Of the ticker and a canceled context, the select takes either.
Poll ==
    /\ observer \in {"start", "select"}
    /\ observer' = IF controller.state = "open" THEN "fetching" ELSE "select"
    /\ UNCHANGED <<backend, canceled, main, startupVars, controller, sample, stopped>>

FetchSample(reply) ==
    /\ observer = "fetching" /\ observer' = "fetched" /\ sample' = reply
    /\ UNCHANGED <<backend, canceled, main, startupVars, controller, stopped>>

\* Nothing is published of a fetch that failed, or of an incoherent sample.
PassSample ==
    /\ observer = "fetched" /\ ~Coherent(sample) /\ observer' = "select"
    /\ UNCHANGED <<backend, canceled, main, startupVars, controller, sample, stopped>>

\* PublishObservation, and what the observer makes of its result: it ends on
\* every refusal except that of one invalid observation. result is what the
\* controller says of an observation of its own runtime.
Publish(result) ==
    LET b     == CHOOSE b \in sample : TRUE
        said  == IF controller.state = "closed" THEN "closed" ELSE IF IsDrift(b, Own) THEN "drift" ELSE result
    IN  /\ observer = "fetched" /\ Coherent(sample) /\ observer' = "select"
        /\ controller' = IF said \in {"drift", "failure"} THEN ClosedBy(said) ELSE controller
        /\ stopped' = (stopped \/ said \notin {"accepted", "invalid"})
        /\ UNCHANGED <<backend, canceled, main, startupVars, sample>>

EndLoop ==
    /\ observer = "select" /\ stopped /\ observer' = "done"
    /\ UNCHANGED <<backend, canceled, main, startupVars, controller, sample, stopped>>

-----------------------------------------------------------------------------
(* The surroundings: the backend, a signal, and a controller that closes   *)
(* itself while it serves (failClosedLocked).                              *)

ChangeBackend ==
    /\ \E now \in {{}} \cup {{b} : b \in Backends} : now # backend /\ backend' = now
    /\ UNCHANGED <<canceled, main, startupVars, controller, observerVars, stopped>>

Cancel ==
    /\ ~canceled /\ canceled' = TRUE
    /\ UNCHANGED <<backend, main, startupVars, controller, observerVars, stopped>>

FailClosed ==
    /\ main = "serve" /\ controller.state = "open" /\ controller' = ClosedBy("failure")
    /\ UNCHANGED <<backend, canceled, main, startupVars, observerVars, stopped>>

Main ==
    \/ BeginAttempt \/ Probe \/ JudgeSample \/ WaitRetry \/ EndAttempt \/ WaitAttempt
    \/ \E reply \in Replies : FetchStartup(reply) \/ Discover(reply)
    \/ \E choice \in BOOLEAN : Construct(choice) \/ StartObserver(choice) \/ Wire(choice)
    \/ CancelObserver \/ CloseController

Observer ==
    \/ Poll \/ PassSample
    \/ \E reply \in Replies : FetchSample(reply)
    \/ \E result \in {"accepted", "invalid", "failure"} : Publish(result)

Next == Main \/ StopServing \/ AttemptExpires \/ Observer \/ EndLoop \/ ChangeBackend \/ Cancel \/ FailClosed

SafeSpec == Init /\ [][Next]_vars

\* The goroutines go on; a signal ends the serving; a fetch that is tried again
\* and again is answered once by a backend that is there; and a select whose
\* context is done does not take the ticker for ever.
Fairness ==
    /\ WF_vars(Main) /\ WF_vars(Observer)
    /\ WF_vars(canceled /\ StopServing)
    /\ SF_vars(backend # {} /\ FetchStartup(backend))
    /\ SF_vars(backend # {} /\ FetchSample(backend))
    /\ SF_vars(EndLoop)

Spec == SafeSpec /\ Fairness

-----------------------------------------------------------------------------
(* Properties.                                                             *)

\* When runServer has returned, whichever step of startup or of serving failed
\* and whatever the observer was doing, the controller is closed and the
\* observer's goroutine has ended (newDefaultAdmissionServiceContext,
\* newProxyServerWithDependencies, admissionRuntime.Close).
NothingLeft ==
    main \in Ended => controller.state # "open" /\ observer \in {"none", "done"}

\* Close takes the controller away only from an observer that has ended: no
\* observation, also none fetched before Close, meets a controller that Close
\* has closed (admissionRuntime.Close, admissionBackendObserver.Close).
ClosedAfterObserver ==
    observer \in {"start", "fetching", "fetched"} => controller.by # "close"

\* The gateway is let go of in order, and nothing of it stays: both of the above.
ClosedCleanly == TypeOK /\ NothingLeft /\ ClosedAfterObserver

\* A signal ends the gateway, at whichever step of startup it comes and whatever
\* the backend does (runServer).
SignalEnds == canceled ~> main \in Ended

\* Startup takes a backend that stays coherent.
StartupEnds == (main \in Waiting /\ Coherent(backend)) ~> (main \notin Waiting \/ ~Coherent(backend))

\* A backend that has become another one, and stays it, closes the controller:
\* PIG does not go on admitting against a runtime it does not know.
Drifted ==
    /\ controller.state = "open"
    /\ \E b \in backend, own \in startup : b.coherent /\ (b.kind # own.kind \/ b.model # own.model)
DriftCloses == Drifted ~> ~Drifted
=============================================================================
