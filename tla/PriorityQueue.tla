--------------------------- MODULE PriorityQueue ---------------------------
(***************************************************************************)
(* priorityAdmissionService (internal/app/server/priority_admission.go):   *)
(* the short ordering stage in front of the admission runtime. Every       *)
(* request handler calls Decide in its own goroutine; one worker goroutine *)
(* orders the queued calls by tier and age, asks the delegate about them   *)
(* one at a time and sends each caller its answer; one goroutine may call  *)
(* Close; a request's context may be canceled at any moment.               *)
(*                                                                         *)
(* Each action is one step between two points where the code takes the     *)
(* mutex, reads the clock or a context, or uses a channel. Requests stand  *)
(* for the calls: one call each. The counters of QueueSnapshot, and the    *)
(* records of refused calls kept for reporting, are left out; the guards   *)
(* against a nil service and the defaults of the constructor are too.      *)
(***************************************************************************)
EXTENDS RequestTier, Sequences, SequencesExt

CONSTANTS
    Requests,
    NoRequest,
    Tier,           \* the tier of each request
    MaxEntries,     \* maxEntries
    Coalesce,       \* how long the oldest call waits for others to join it
    MaxWait,        \* how old a call may be and still be put to the delegate
    \* bounds of the model
    Cancelable,     \* the requests whose context may be canceled
    LastArrival,    \* the last moment a call arrives
    MaxTime         \* the moment at which the clock stops

ASSUME QueueAssumption ==
    /\ NoRequest \notin Requests
    /\ Tier \in [Requests -> Tiers]
    /\ MaxEntries \in Nat \ {0} /\ Coalesce \in Nat
    /\ MaxWait \in Nat \ {0} /\ Coalesce <= MaxWait
    /\ Cancelable \subseteq Requests
    /\ LastArrival \in Nat /\ MaxTime \in Nat /\ LastArrival + MaxWait <= MaxTime

VARIABLES
    clock,
    canceled,       \* the requests whose context is done
    caller,         \* request -> where its Decide call stands
    enqueuedAt,     \* request -> the time it read before it took the mutex
    queue,
    wake,           \* a token in the wake channel, whose capacity is one
    closed,         \* intake is closed (under the mutex)
    closeCh,        \* the close channel is closed
    worker,         \* what the worker goroutine does next
    item,           \* the request it holds, or NoRequest
    deadline,       \* when its timer fires; 0 without a timer
    decision,       \* what the delegate said about the item
    result,         \* request -> the answer in its result channel, or "none"
    reserved,       \* requests with a live reservation in the delegate
    closer,         \* where the call of Close stands
    delegateOpen    \* the delegate has not been closed

callerVars == <<caller, enqueuedAt>>
workerVars == <<worker, item, deadline, decision>>
closeVars  == <<closed, closeCh, closer, delegateOpen>>
vars == <<clock, canceled, callerVars, queue, wake, workerVars, result, reserved, closeVars>>

Refusals == {"protected", "canceled", "timeout", "full", "closed"}
Answers  == {"admitted"} \cup Refusals

Init ==
    /\ clock = 1
    /\ canceled = {}
    /\ caller = [r \in Requests |-> "idle"]
    /\ enqueuedAt = [r \in Requests |-> 0]
    /\ queue = <<>>
    /\ wake = FALSE
    /\ closed = FALSE /\ closeCh = FALSE
    /\ worker = "next" /\ item = NoRequest /\ deadline = 0 /\ decision = "none"
    /\ result = [r \in Requests |-> "none"]
    /\ reserved = {}
    /\ closer = "idle" /\ delegateOpen = TRUE

-----------------------------------------------------------------------------
(***************************************************************************)
(* Decide, in the request's goroutine.                                     *)
(***************************************************************************)
Return(r, answer) ==
    /\ caller' = [caller EXCEPT ![r] = "returned"]
    /\ result' = [result EXCEPT ![r] = answer]

\* The context is read, then the clock.
Arrive(r) ==
    /\ caller[r] = "idle"
    /\ IF r \in canceled
         THEN Return(r, "canceled") /\ UNCHANGED enqueuedAt
         ELSE /\ clock <= LastArrival
              /\ caller' = [caller EXCEPT ![r] = "entering"]
              /\ enqueuedAt' = [enqueuedAt EXCEPT ![r] = clock]
              /\ UNCHANGED result
    /\ UNCHANGED <<clock, canceled, queue, wake, workerVars, reserved, closeVars>>

\* Under the mutex: refuse, or join the queue.
Enter(r) ==
    /\ caller[r] = "entering"
    /\ IF closed THEN Return(r, "closed") /\ UNCHANGED queue
       ELSE IF Len(queue) >= MaxEntries THEN Return(r, "full") /\ UNCHANGED queue
       ELSE /\ queue' = Append(queue, r)
            /\ caller' = [caller EXCEPT ![r] = "signalling"]
            /\ UNCHANGED result
    /\ UNCHANGED <<clock, canceled, enqueuedAt, wake, workerVars, reserved, closeVars>>

\* signal does not block: a token that is already there is enough.
Signal(r) ==
    /\ caller[r] = "signalling"
    /\ wake' = TRUE
    /\ caller' = [caller EXCEPT ![r] = "waiting"]
    /\ UNCHANGED <<clock, canceled, enqueuedAt, queue, workerVars, result, reserved, closeVars>>

\* The caller waits for its answer, whatever becomes of its context.
Receive(r) ==
    /\ caller[r] = "waiting" /\ result[r] # "none"
    /\ caller' = [caller EXCEPT ![r] = "returned"]
    /\ UNCHANGED <<clock, canceled, enqueuedAt, queue, wake, workerVars, result, reserved, closeVars>>

\* The handler that was admitted ends its request.
Finish(r) ==
    /\ caller[r] = "returned" /\ result[r] = "admitted" /\ r \in reserved
    /\ reserved' = reserved \ {r}
    /\ UNCHANGED <<clock, canceled, callerVars, queue, wake, workerVars, result, closeVars>>

Cancel(r) ==
    /\ r \in Cancelable \ canceled /\ caller[r] # "returned"
    /\ canceled' = canceled \cup {r}
    /\ UNCHANGED <<clock, callerVars, queue, wake, workerVars, result, reserved, closeVars>>

-----------------------------------------------------------------------------
(***************************************************************************)
(* The worker: next and chooseIndex.                                       *)
(***************************************************************************)
Age(r) == clock - enqueuedAt[r]

\* A slip: the order of joining the queue instead of the time read before.
EarliestToJoin(places) == CHOOSE i \in places : \A j \in places : i <= j

\* The earliest of some places of the queue; a tie goes to the front.
Earliest(places) ==
    CHOOSE i \in places :
        \A j \in places : \/ enqueuedAt[queue[i]] < enqueuedAt[queue[j]]
                          \/ enqueuedAt[queue[i]] = enqueuedAt[queue[j]] /\ i <= j

Expired == {i \in DOMAIN queue : Age(queue[i]) >= MaxWait}

\* Half the deadline promotes a sheddable call.
Aged == {i \in DOMAIN queue : Sheddable(Tier[queue[i]]) /\ Age(queue[i]) >= MaxWait \div 2}

Highest == {i \in DOMAIN queue :
              \A j \in DOMAIN queue : Rank(Tier[queue[i]]) >= Rank(Tier[queue[j]])}

\* A slip: nothing promotes a call that has waited half the deadline.
ChosenByRank == Earliest(IF Expired # {} THEN Expired ELSE Highest)

Chosen == Earliest(IF Expired # {} THEN Expired ELSE IF Aged # {} THEN Aged ELSE Highest)

ReadyAt == enqueuedAt[queue[Earliest(DOMAIN queue)]] + Coalesce

WorkerFrame == UNCHANGED <<clock, canceled, callerVars, closeVars>>

NextItem ==
    /\ worker = "next"
    /\ IF closed
         THEN worker' = "drain" /\ UNCHANGED <<item, deadline, queue>>
       ELSE IF queue = <<>>
         THEN worker' = "select" /\ deadline' = 0 /\ UNCHANGED <<item, queue>>
       ELSE IF clock < ReadyAt
         THEN worker' = "select" /\ deadline' = ReadyAt /\ UNCHANGED <<item, queue>>
       ELSE /\ item' = queue[Chosen]
            /\ queue' = RemoveAt(queue, Chosen)
            /\ worker' = "dispatch" /\ UNCHANGED deadline
    /\ UNCHANGED <<wake, decision, result, reserved>> /\ WorkerFrame

\* The select: whichever of the ready channels Go picks.
Wake ==
    /\ worker = "select" /\ wake
    /\ wake' = FALSE
    /\ worker' = "next" /\ deadline' = 0
    /\ UNCHANGED <<item, decision, queue, result, reserved>> /\ WorkerFrame

SeeClose ==
    /\ worker = "select" /\ closeCh
    /\ worker' = "drain" /\ deadline' = 0
    /\ UNCHANGED <<wake, item, decision, queue, result, reserved>> /\ WorkerFrame

TimerFires ==
    /\ worker = "select" /\ deadline # 0 /\ clock >= deadline
    /\ worker' = "next" /\ deadline' = 0
    /\ UNCHANGED <<wake, item, decision, queue, result, reserved>> /\ WorkerFrame

-----------------------------------------------------------------------------
(***************************************************************************)
(* The worker: dispatch and drain.                                         *)
(***************************************************************************)
Reply(answer) ==
    /\ result' = [result EXCEPT ![item] = answer]
    /\ worker' = "next" /\ item' = NoRequest /\ decision' = "none"

DispatchFrame == UNCHANGED <<queue, wake, deadline>> /\ WorkerFrame

CheckContext ==
    /\ worker = "dispatch"
    /\ IF item \in canceled
         THEN Reply("canceled")
         ELSE worker' = "checkWait" /\ UNCHANGED <<item, decision, result>>
    /\ UNCHANGED reserved /\ DispatchFrame

CheckWait ==
    /\ worker = "checkWait"
    /\ IF Age(item) >= MaxWait
         THEN Reply("timeout")
         ELSE worker' = "ask" /\ UNCHANGED <<item, decision, result>>
    /\ UNCHANGED reserved /\ DispatchFrame

(***************************************************************************)
(* safePriorityDelegateDecide: the delegate admits with a reservation or   *)
(* refuses; a panic or an ill-formed answer is a refusal. It refuses a     *)
(* request whose context is done, and everyone once it is closed.          *)
(***************************************************************************)
AskDelegate ==
    /\ worker = "ask" /\ worker' = "decided"
    /\ \/ /\ item \notin canceled /\ delegateOpen
          /\ decision' = "admitted" /\ reserved' = reserved \cup {item}
       \/ decision' = "protected" /\ UNCHANGED reserved
    /\ UNCHANGED <<item, result>> /\ DispatchFrame

\* A slip: the reservation of a canceled call is forgotten.
SendLeaking ==
    /\ worker = "decided"
    /\ IF item \in canceled THEN Reply("canceled") ELSE Reply(decision)
    /\ UNCHANGED reserved /\ DispatchFrame

\* Canceled while the delegate decided: the worker gives the reservation back.
Send ==
    /\ worker = "decided"
    /\ IF item \in canceled
         THEN Reply("canceled") /\ reserved' = reserved \ {item}
         ELSE Reply(decision) /\ UNCHANGED reserved
    /\ DispatchFrame

\* A slip: the worker goes on after it has drained the queue.
DrainForever ==
    /\ worker = "drain"
    /\ IF queue = <<>>
         THEN worker' = "next" /\ UNCHANGED <<queue, result>>
         ELSE /\ result' = [result EXCEPT ![Head(queue)] = "closed"]
              /\ queue' = Tail(queue) /\ UNCHANGED worker
    /\ UNCHANGED <<wake, item, deadline, decision, reserved>> /\ WorkerFrame

\* Nobody joins the queue any more: it is answered from the front, then doneCh
\* is closed.
Drain ==
    /\ worker = "drain"
    /\ IF queue = <<>>
         THEN worker' = "done" /\ UNCHANGED <<queue, result>>
         ELSE /\ result' = [result EXCEPT ![Head(queue)] = "closed"]
              /\ queue' = Tail(queue) /\ UNCHANGED worker
    /\ UNCHANGED <<wake, item, deadline, decision, reserved>> /\ WorkerFrame

Select == Wake \/ SeeClose \/ TimerFires
Worker == NextItem \/ Select \/ CheckContext \/ CheckWait \/ AskDelegate \/ Send \/ Drain

-----------------------------------------------------------------------------
(***************************************************************************)
(* Close.                                                                  *)
(***************************************************************************)
CloseFrame == UNCHANGED <<clock, canceled, callerVars, queue, workerVars, result>>

CloseIntake ==
    /\ closer = "idle"
    /\ closer' = "marked" /\ closed' = TRUE
    /\ UNCHANGED <<wake, closeCh, reserved, delegateOpen>> /\ CloseFrame

CloseChannel ==
    /\ closer = "marked"
    /\ closer' = "signalling" /\ closeCh' = TRUE
    /\ UNCHANGED <<wake, closed, reserved, delegateOpen>> /\ CloseFrame

CloseSignal ==
    /\ closer = "signalling"
    /\ closer' = "waiting" /\ wake' = TRUE
    /\ UNCHANGED <<closed, closeCh, reserved, delegateOpen>> /\ CloseFrame

\* doneCh is closed; the delegate's Close drops its reservations.
CloseDelegate ==
    /\ closer = "waiting" /\ worker = "done"
    /\ closer' = "returned" /\ delegateOpen' = FALSE /\ reserved' = {}
    /\ UNCHANGED <<wake, closed, closeCh>> /\ CloseFrame

CloseContinues == CloseChannel \/ CloseSignal \/ CloseDelegate

-----------------------------------------------------------------------------
Tick ==
    /\ clock < MaxTime /\ clock' = clock + 1
    /\ UNCHANGED <<canceled, callerVars, queue, wake, workerVars, result, reserved, closeVars>>

DecideContinues(r) == Enter(r) \/ Signal(r) \/ Receive(r)

Next ==
    \/ \E r \in Requests : Arrive(r) \/ DecideContinues(r) \/ Finish(r) \/ Cancel(r)
    \/ Worker
    \/ CloseIntake \/ CloseContinues
    \/ Tick

SafeSpec == Init /\ [][Next]_vars

(***************************************************************************)
(* Goroutines that can run do, the delegate's Decide returns (it takes one *)
(* mutex), and time passes. Nobody need call Decide, cancel, or Close.     *)
(***************************************************************************)
Fairness ==
    /\ \A r \in Requests : WF_vars(DecideContinues(r))
    /\ WF_vars(Worker) /\ WF_vars(CloseContinues) /\ WF_vars(Tick)

Spec == SafeSpec /\ Fairness

-----------------------------------------------------------------------------
(***************************************************************************)
(* Properties.                                                             *)
(***************************************************************************)
Holding == {"dispatch", "checkWait", "ask", "decided"}

\* Every variable keeps its type, the queue never holds more calls than it may
\* (maxEntries), however many arrive at once, and the worker
\* holds a request exactly while it dispatches one.
TypeOK ==
    /\ clock \in Nat \ {0} /\ canceled \subseteq Requests
    /\ caller \in [Requests -> {"idle", "entering", "signalling", "waiting", "returned"}]
    /\ enqueuedAt \in [Requests -> Nat]
    /\ queue \in Seq(Requests) /\ Len(queue) <= MaxEntries
    /\ wake \in BOOLEAN /\ closed \in BOOLEAN /\ closeCh \in BOOLEAN
    /\ worker \in {"next", "select", "drain", "done"} \cup Holding
    /\ item \in Requests \cup {NoRequest}
    /\ item # NoRequest <=> worker \in Holding
    /\ deadline \in Nat /\ decision \in {"none", "admitted", "protected"}
    /\ result \in [Requests -> Answers \cup {"none"}]
    /\ reserved \subseteq Requests
    /\ closer \in {"idle", "marked", "signalling", "waiting", "returned"}
    /\ delegateOpen \in BOOLEAN

\* The queue keeps the promise of the service it stands in front of: see
\* AdmissionService. A reservation counts as handed over once the worker has
\* sent the answer; until then the worker owns it.
ServiceCall ==
    [r \in Requests |->
       IF caller[r] = "idle" THEN "idle"
       ELSE IF result[r] = "none" THEN "waiting"
       ELSE IF result[r] = "admitted" THEN "admitted" ELSE "refused"]

ServiceHeld == IF worker = "decided" THEN reserved \ {item} ELSE reserved

Service == INSTANCE AdmissionService WITH
    call <- ServiceCall, held <- ServiceHeld, open <- delegateOpen

ImplementsService == Service!Spec

\* x is taken from the queue and y stays.
PassesOver(x, y) ==
    /\ item = NoRequest /\ item' = x
    /\ \E i \in DOMAIN queue' : queue'[i] = y

\* Within a tier, calls leave the queue in the order in which they read the
\* clock, although they may have joined it in another.
InOrderWithinTier ==
    [][\A x, y \in Requests :
          PassesOver(x, y) /\ Tier[x] = Tier[y] => enqueuedAt[x] <= enqueuedAt[y]]_vars

\* A call of a higher tier is passed over only for one that has waited half
\* the deadline, and a sheddable call that has waited half the deadline is
\* passed over only for an older one: no tier starves another.
NoStarvation ==
    [][\A x, y \in Requests :
          PassesOver(x, y) =>
            /\ Rank(Tier[y]) > Rank(Tier[x]) => Age(x) >= MaxWait \div 2
            /\ Sheddable(Tier[y]) /\ Age(y) >= MaxWait \div 2 =>
                 enqueuedAt[x] <= enqueuedAt[y]]_vars

\* Close returns, however many calls are queued, arriving or being decided.
CloseReturns == closer # "idle" ~> closer = "returned"
=============================================================================
