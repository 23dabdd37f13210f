----------------------- MODULE ResponseDeadlineProofs -----------------------
(***************************************************************************)
(* The safety of the response deadlines, for any number of requests on the *)
(* connection. Each invariant is proved from the type invariant and from   *)
(* what it rests on: the operation runs inside the handler, a context that *)
(* was live lets a write be cut, an idle connection has no deadline.       *)
(***************************************************************************)
EXTENDS ResponseDeadline, TLAPS

\* An operation is inside the handler, and one that failed is remembered.
Operations ==
    /\ op # "none" => stage \in {"local", "proxying"}
    /\ op = "failed" => failed

\* A callback exists while the function that registered it has not left.
Registered ==
    /\ callback["outer"] # "none" => stage \in {"local", "proxying", "returned"}
    /\ callback["inner"] # "none" => stage = "proxying"

\* A response that has begun, and a write that may be cut, saw a live context.
LiveBefore == (started => sawLive) /\ (cancelable => sawLive)

IdleUnbounded == stage = "idle" => deadline = "none"

IInv ==
    /\ TypeOK /\ Operations
    /\ Registered
    /\ LiveBefore /\ ErrorResponsePermitted
    /\ IdleUnbounded /\ InterruptedForGood /\ BoundedOnlyWhileWriting

LEMMA InitIInv == Init => IInv
<1> SUFFICES ASSUME Init PROVE IInv
  OBVIOUS
<1>1. TypeOK
  <2>1. requests \in 0..MaxRequests
    BY RequestsAssumption DEF Init
  <2>2. callback \in [Callbacks -> {"none", "armed", "running", "finished"}]
    BY DEF Init
  <2>3. QED
    BY <2>1, <2>2, Zenon DEF Init, TypeOK
<1>2. Operations /\ LiveBefore /\ ErrorResponsePermitted /\ Registered
  <2>1. Operations /\ LiveBefore /\ ErrorResponsePermitted
    BY Zenon DEF Init, Operations, LiveBefore, ErrorResponsePermitted
  <2>2. Registered
    BY DEF Init, Registered, Callbacks
  <2>3. QED
    BY <2>1, <2>2
<1>3. IdleUnbounded /\ InterruptedForGood /\ BoundedOnlyWhileWriting
  BY DEF Init, IdleUnbounded, InterruptedForGood, BoundedOnlyWhileWriting
<1>4. QED
  BY <1>1, <1>2, <1>3 DEF IInv

\* The steps, with the variables of a stuttering step.
LEMMA StepTypes ==
    ASSUME TypeOK, Operations, [Next]_vars
    PROVE  TypeOK' /\ Operations'
<1> USE RequestsAssumption DEF TypeOK, Operations, Callbacks, Deadline
<1>1. ASSUME NEW final \in BOOLEAN, BeginWrite(final) PROVE TypeOK' /\ Operations'
  BY <1>1 DEF BeginWrite, contexts
<1>2. CASE SocketTakes
  BY <1>2 DEF SocketTakes, contexts, flags, history
<1>3. CASE SocketFails
  BY <1>3 DEF SocketFails, contexts, flags
<1>4. CASE EndWrite
  BY <1>4 DEF EndWrite, contexts, history
<1>5. CASE ClientCancels
  BY <1>5 DEF ClientCancels, flags, history
<1>6. CASE Propagates
  BY <1>6 DEF Propagates, flags, history
<1>7. CASE TimesOut
  BY <1>7 DEF TimesOut, flags, history
<1>8. ASSUME NEW k \in Callbacks, Fires(k) PROVE TypeOK' /\ Operations'
  BY <1>8 DEF Fires, contexts, flags, history
<1>9. ASSUME NEW k \in Callbacks, Runs(k) PROVE TypeOK' /\ Operations'
  <2>1. CASE writing /\ cancelable
    BY <1>9, <2>1 DEF Runs, contexts, history
  <2>2. CASE ~(writing /\ cancelable)
    <3>1. UNCHANGED <<writing, cancelable, started, interrupted, deadline>>
      BY <1>9, <2>2, Zenon DEF Runs
    <3>2. QED
      BY <1>9, <3>1 DEF Runs, contexts, history
  <2>3. QED
    BY <2>1, <2>2
<1>10. CASE StartRequest
  <2>1. requests' \in 0..MaxRequests
    BY <1>10 DEF StartRequest
  <2>2. callback' \in [Callbacks -> {"none", "armed", "running", "finished"}]
    BY <1>10 DEF StartRequest
  <2>3. QED
    BY <1>10, <2>1, <2>2, Zenon DEF StartRequest
<1>11. CASE EnterProxy
  BY <1>11 DEF EnterProxy, flags, history
<1>12. CASE LeaveProxy
  BY <1>12 DEF LeaveProxy, contexts, flags, history
<1>13. CASE LeaveHandler
  BY <1>13 DEF LeaveHandler, contexts, flags, history
<1>14. CASE FinalDeadline
  BY <1>14 DEF FinalDeadline, contexts, flags, history
<1>15. CASE Flushed
  BY <1>15 DEF Flushed, contexts, flags, history
<1>16. CASE UNCHANGED vars
  BY <1>16 DEF vars, contexts, flags, history
<1>17. QED
  BY <1>1, <1>2, <1>3, <1>4, <1>5, <1>6, <1>7, <1>8, <1>9, <1>10, <1>11, <1>12, <1>13, <1>14, <1>15, <1>16 DEF Next

LEMMA StepCallbacks ==
    ASSUME TypeOK, Registered, [Next]_vars
    PROVE  Registered'
<1> USE DEF TypeOK, Registered, Callbacks
<1>1. ASSUME NEW final \in BOOLEAN, BeginWrite(final) PROVE Registered'
  BY <1>1 DEF BeginWrite
<1>2. CASE SocketTakes \/ SocketFails \/ EndWrite \/ ClientCancels \/ Propagates \/ TimesOut
  BY <1>2 DEF SocketTakes, SocketFails, EndWrite, ClientCancels, Propagates, TimesOut
<1>3. ASSUME NEW k \in Callbacks, Fires(k) \/ Runs(k) PROVE Registered'
  BY <1>3 DEF Fires, Runs
<1>4. CASE StartRequest \/ EnterProxy
  BY <1>4 DEF StartRequest, EnterProxy
<1>5. CASE LeaveProxy \/ LeaveHandler
  BY <1>5 DEF LeaveProxy, LeaveHandler
<1>6. CASE FinalDeadline \/ Flushed
  BY <1>6 DEF FinalDeadline, Flushed
<1>7. CASE UNCHANGED vars
  BY <1>7 DEF vars
<1>8. QED
  BY <1>1, <1>2, <1>3, <1>4, <1>5, <1>6, <1>7 DEF Next

LEMMA StepLive ==
    ASSUME TypeOK, LiveBefore, ErrorResponsePermitted, [Next]_vars
    PROVE  LiveBefore' /\ ErrorResponsePermitted'
<1> DEFINE Kept == /\ started' = started /\ sawLive' = sawLive /\ (cancelable' => cancelable)
                   /\ interrupted' => interrupted \/ cancelable
           Goal == LiveBefore' /\ ErrorResponsePermitted'
<1>1. Kept => Goal
  BY DEF LiveBefore, ErrorResponsePermitted, TypeOK
<1>2. ASSUME NEW final \in BOOLEAN, BeginWrite(final) PROVE Goal
  BY <1>2 DEF BeginWrite, TypeOK, LiveBefore, ErrorResponsePermitted
<1>3. CASE SocketTakes \/ SocketFails
  <2>1. CASE SocketTakes
    BY <2>1, <1>1, Zenon DEF SocketTakes, flags, history
  <2>2. CASE SocketFails
    BY <2>2, <1>1, Zenon DEF SocketFails, flags, history
  <2>3. QED
    BY <1>3, <2>1, <2>2
<1>4. CASE EndWrite
  BY <1>4, <1>1, Zenon DEF EndWrite, history
<1>5. CASE ClientCancels \/ Propagates \/ TimesOut
  <2>1. CASE ClientCancels
    BY <2>1, <1>1, Zenon DEF ClientCancels, flags, history
  <2>2. CASE Propagates
    BY <2>2, <1>1, Zenon DEF Propagates, flags, history
  <2>3. CASE TimesOut
    BY <2>3, <1>1, Zenon DEF TimesOut, flags, history
  <2>4. QED
    BY <1>5, <2>1, <2>2, <2>3
<1>6. ASSUME NEW k \in Callbacks, Fires(k) PROVE Goal
  BY <1>6, <1>1, Zenon DEF Fires, flags, history
<1>7. ASSUME NEW k \in Callbacks, Runs(k) PROVE Goal
  BY <1>7, <1>1, Zenon DEF Runs, history
<1>8. CASE StartRequest
  BY <1>8, Zenon DEF StartRequest, LiveBefore, ErrorResponsePermitted
<1>9. CASE EnterProxy \/ LeaveProxy \/ LeaveHandler
  <2>1. CASE EnterProxy
    BY <2>1, <1>1, Zenon DEF EnterProxy, flags, history
  <2>2. CASE LeaveProxy
    BY <2>2, <1>1, Zenon DEF LeaveProxy, flags, history
  <2>3. CASE LeaveHandler
    BY <2>3, <1>1, Zenon DEF LeaveHandler, flags, history
  <2>4. QED
    BY <1>9, <2>1, <2>2, <2>3
<1>10. CASE FinalDeadline \/ Flushed
  <2>1. CASE FinalDeadline
    BY <2>1, <1>1, Zenon DEF FinalDeadline, flags, history
  <2>2. CASE Flushed
    BY <2>2, <1>1, Zenon DEF Flushed, flags, history
  <2>3. QED
    BY <1>10, <2>1, <2>2
<1>11. CASE UNCHANGED vars
  BY <1>11, <1>1, Zenon DEF vars, flags, history
<1>12. QED
  BY <1>2, <1>3, <1>4, <1>5, <1>6, <1>7, <1>8, <1>9, <1>10, <1>11 DEF Next

LEMMA StepDeadline ==
    ASSUME TypeOK, Operations, Registered, IdleUnbounded, InterruptedForGood,
           BoundedOnlyWhileWriting, [Next]_vars
    PROVE  IdleUnbounded' /\ InterruptedForGood' /\ BoundedOnlyWhileWriting'
<1> DEFINE Goal == IdleUnbounded' /\ InterruptedForGood' /\ BoundedOnlyWhileWriting'
<1> USE DEF TypeOK, Operations, IdleUnbounded, InterruptedForGood, BoundedOnlyWhileWriting,
            Deadline, Callbacks
<1>1. ASSUME NEW final \in BOOLEAN, BeginWrite(final) PROVE Goal
  BY <1>1 DEF BeginWrite
<1>2. CASE SocketTakes \/ SocketFails \/ EndWrite
  BY <1>2 DEF SocketTakes, SocketFails, EndWrite, flags, history
<1>3. CASE ClientCancels \/ Propagates \/ TimesOut
  BY <1>3 DEF ClientCancels, Propagates, TimesOut, flags, history
<1>4. ASSUME NEW k \in Callbacks, Fires(k) \/ Runs(k) PROVE Goal
  BY <1>4 DEF Fires, Runs, Registered, flags, history
<1>5. CASE StartRequest \/ EnterProxy
  BY <1>5 DEF StartRequest, EnterProxy, flags, history
<1>6. CASE LeaveProxy \/ LeaveHandler
  BY <1>6 DEF LeaveProxy, LeaveHandler, flags, history
<1>7. CASE FinalDeadline \/ Flushed
  BY <1>7 DEF FinalDeadline, Flushed, flags, history
<1>8. CASE UNCHANGED vars
  BY <1>8 DEF vars, flags, history
<1>9. QED
  BY <1>1, <1>2, <1>3, <1>4, <1>5, <1>6, <1>7, <1>8 DEF Next

LEMMA Inductive == SafeSpec => []IInv
<1>1. IInv /\ [Next]_vars => IInv'
  BY StepTypes, StepCallbacks, StepLive, StepDeadline DEF IInv
<1>2. QED
  BY InitIInv, <1>1, PTL DEF SafeSpec

\* The handler joins its callbacks before it leaves (interruptOnCancel's stop):
\* none outlives its response, however the contexts end.
THEOREM CallbacksJoined == SafeSpec => [](TypeOK /\ NoLateCallback)
<1>1. IInv => TypeOK /\ NoLateCallback
  BY DEF IInv, TypeOK, Registered, NoLateCallback, Callbacks
<1>2. QED
  BY Inductive, <1>1, PTL

\* beginWrite and the callback never cut a response that had not begun before
\* its context ended.
THEOREM ErrorsDelivered == SafeSpec => []ErrorResponsePermitted
<1>1. IInv => ErrorResponsePermitted
  BY DEF IInv
<1>2. QED
  BY Inductive, <1>1, PTL

\* setDeadlineLocked, under every order of its four callers: a cut response is
\* never given time again, and only a write in progress has a deadline.
THEOREM DeadlinesCorrect == SafeSpec => [](InterruptedForGood /\ BoundedOnlyWhileWriting)
<1>1. IInv => InterruptedForGood /\ BoundedOnlyWhileWriting
  BY DEF IInv
<1>2. QED
  BY Inductive, <1>1, PTL
=============================================================================
