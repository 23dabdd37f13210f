------------------------ MODULE BackendRuntimeProofs ------------------------
(***************************************************************************)
(* The gateway is let go of in order, for any set of backends. The type    *)
(* invariant needs only itself. What is left when runServer returns rests  *)
(* on where the controller and the observer can be while it runs (Placed), *)
(* and on Close being the last step to touch either (ClosedLast).          *)
(***************************************************************************)
EXTENDS BackendRuntime, FiniteSetTheorems, TLAPS

Before == Waiting \cup {"discover", "construct"}

\* Startup makes the controller, and then the observer.
Placed ==
    /\ main \in Before => controller = NoController
    /\ main = "observe" => controller = OpenController
    /\ main \in Before \cup {"observe", "failed"} => observer = "none"
    /\ main = "failed" => controller.state # "open"
    /\ observer = "none" => main \in Before \cup {"observe", "failed"}

\* Close is the last to touch the controller, and it waits for the observer.
ClosedLast ==
    /\ main = "ended" => controller.state = "closed" /\ observer = "done"
    /\ controller.by = "close" => main \in Ended

IInv == TypeOK /\ Placed /\ ClosedLast

LEMMA AtMostOne ==
    /\ Cardinality({}) <= 1
    /\ \A b \in Backends : Cardinality({b}) <= 1
<1>1. Cardinality({}) = 0
  BY FS_EmptySet
<1>2. ASSUME NEW b \in Backends PROVE Cardinality({b}) = 1
  BY FS_Singleton
<1>3. QED
  BY <1>1, <1>2

LEMMA InitIInv == Init => IInv
<1> SUFFICES ASSUME Init PROVE IInv
  OBVIOUS
<1>1. TypeOK
  BY AtMostOne DEF Init, TypeOK, NoController, Waiting, Ended
<1>2. Placed /\ ClosedLast
  BY DEF Init, Placed, ClosedLast, NoController, Before, Waiting, Ended
<1>3. QED
  BY <1>1, <1>2 DEF IInv

\* The steps of the goroutine of runServer.
LEMMA MainStep ==
    ASSUME IInv, Main
    PROVE  IInv'
<1> USE DEF IInv, TypeOK, Placed, ClosedLast, Before, Waiting, Ended, startupVars, observerVars,
            NoController, OpenController, ClosedBy
<1>1. CASE BeginAttempt
  <2>1. /\ main = "attempt" /\ main' \in {"failed", "probe"} /\ expired' = FALSE
        /\ UNCHANGED <<backend, canceled, probed, startup, controller, observer, stopped, sample>>
    BY <1>1 DEF BeginAttempt
  <2>2. controller.state = "none" /\ controller.by = "nobody" /\ observer = "none"
    BY <2>1
  <2>3. TypeOK'
    BY <2>1, <2>2
  <2>4. Placed' /\ ClosedLast'
    BY <2>1, <2>2
  <2>5. QED
    BY <2>3, <2>4
<1>2. CASE Probe
  BY <1>2 DEF Probe
<1>3. CASE JudgeSample
  BY <1>3 DEF JudgeSample, Coherent
<1>4. CASE WaitRetry
  BY <1>4 DEF WaitRetry
<1>5. CASE EndAttempt
  BY <1>5 DEF EndAttempt, AfterAttempt
<1>6. CASE WaitAttempt
  BY <1>6 DEF WaitAttempt
<1>7. ASSUME NEW reply \in Replies, FetchStartup(reply) PROVE IInv'
  BY <1>7 DEF FetchStartup, Replies
<1>8. ASSUME NEW reply \in Replies, Discover(reply) PROVE IInv'
  <2>1. /\ main = "discover" /\ main' \in {"failed", "construct"}
        /\ UNCHANGED <<backend, canceled, expired, probed, startup, controller, observer, sample, stopped>>
    BY <1>8 DEF Discover
  <2>2. QED
    BY <2>1
<1>9. ASSUME NEW accept \in BOOLEAN, Construct(accept) PROVE IInv'
  BY <1>9 DEF Construct, AbandonedController
<1>10. ASSUME NEW valid \in BOOLEAN, StartObserver(valid) PROVE IInv'
  BY <1>10 DEF StartObserver, AbandonedController
<1>11. ASSUME NEW built \in BOOLEAN, Wire(built) PROVE IInv'
  BY <1>11 DEF Wire
<1>12. CASE CancelObserver
  BY <1>12 DEF CancelObserver
<1>13. CASE CloseController
  BY <1>13 DEF CloseController, ObserverEnded
<1>14. QED
  BY <1>1, <1>2, <1>3, <1>4, <1>5, <1>6, <1>7, <1>8, <1>9, <1>10, <1>11, <1>12, <1>13 DEF Main

\* The steps of the observer, which begin and end between its start and Close.
LEMMA ObserverStep ==
    ASSUME IInv, Observer \/ EndLoop
    PROVE  IInv'
<1> USE DEF IInv, TypeOK, Placed, ClosedLast, Before, Waiting, Ended, startupVars, ClosedBy, NoController,
            OpenController
<1>1. CASE Poll
  BY <1>1 DEF Poll
<1>2. CASE PassSample
  BY <1>2 DEF PassSample
<1>3. ASSUME NEW reply \in Replies, FetchSample(reply) PROVE IInv'
  BY <1>3 DEF FetchSample, Replies
<1>4. ASSUME NEW result \in {"accepted", "invalid", "failure"}, Publish(result) PROVE IInv'
  <2>1. /\ observer = "fetched" /\ observer' = "select" /\ stopped' \in BOOLEAN
        /\ controller' \in {controller, ClosedBy("drift"), ClosedBy("failure")}
        /\ UNCHANGED <<backend, canceled, main, startupVars, sample>>
    BY <1>4 DEF Publish
  <2>2. QED
    BY <2>1
<1>5. CASE EndLoop
  BY <1>5 DEF EndLoop
<1>6. QED
  BY <1>1, <1>2, <1>3, <1>4, <1>5 DEF Observer

\* The surroundings, and the steps that only move time or main on.
LEMMA OtherStep ==
    ASSUME IInv, StopServing \/ AttemptExpires \/ ChangeBackend \/ Cancel \/ FailClosed
    PROVE  IInv'
<1> USE DEF IInv, TypeOK, Placed, ClosedLast, Before, Waiting, Ended, startupVars, observerVars, ClosedBy,
            NoController, OpenController
<1>1. CASE StopServing
  BY <1>1 DEF StopServing
<1>2. CASE AttemptExpires
  BY <1>2 DEF AttemptExpires
<1>3. CASE ChangeBackend
  <2>1. backend' = {} \/ \E b \in Backends : backend' = {b}
    BY <1>3 DEF ChangeBackend
  <2>2. backend' \subseteq Backends /\ Cardinality(backend') <= 1
    BY <2>1, AtMostOne
  <2>3. QED
    BY <1>3, <2>2 DEF ChangeBackend
<1>4. CASE Cancel
  BY <1>4 DEF Cancel
<1>5. CASE FailClosed
  BY <1>5 DEF FailClosed
<1>6. QED
  BY <1>1, <1>2, <1>3, <1>4, <1>5

\* Whichever step of startup or of serving failed and whatever the observer was
\* doing, when runServer has returned the controller is closed and the observer's
\* goroutine has ended; and Close never takes the controller from an observer
\* that still polls (newDefaultAdmissionServiceContext, admissionRuntime.Close,
\* admissionBackendObserver.Close).
THEOREM ReleaseCorrect == SafeSpec => []ClosedCleanly
<1>1. ASSUME IInv, UNCHANGED vars PROVE IInv'
  BY <1>1 DEF vars, startupVars, observerVars, IInv, TypeOK, Placed, ClosedLast, Before
<1>2. IInv /\ [Next]_vars => IInv'
  BY MainStep, ObserverStep, OtherStep, <1>1 DEF Next
<1>3. IInv => ClosedCleanly
  BY DEF IInv, Placed, ClosedLast, ClosedCleanly, NothingLeft, ClosedAfterObserver, Ended
<1>4. QED
  BY InitIInv, <1>2, <1>3, PTL DEF SafeSpec
=============================================================================
