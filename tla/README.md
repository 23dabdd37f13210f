# A TLA+ verification of phala-inference-guard

phala-inference-guard (PIG) is a Go reverse proxy in front of one inference
backend (vLLM or SGLang). For each inference request it decides whether the
backend can take more work now; a request that is let in holds a *reservation*
until its response ends. Everything below is relative to the repository's root,
`src/`; "the controller" is `src/internal/admission/controller.go`.

Contents: 1 the system and its hard parts, 2 the modules and how they follow
the code, 3 the runs, 4 the proofs, 5 what the documents say and the code does
not, 6 what is not modelled, 7 the plan.

## 1. The system

### 1.1 Components

| component | state | operations | hard part |
|---|---|---|---|
| **Admission controller** `internal/admission/controller.go`, `policy_update.go` | one mutex over: reservations, their incremental totals (the *overlay*), the exposure ledger, the current observation, TPS window, policy, five sequence counters, two epochs | `Admit`, `MarkForwarded`, `MarkFirstByte`, `Terminate` (on handles), `StartSampleWindow`, `PublishObservation`, `UpdatePolicy`, `Snapshot`, `Close` | what interleaves between the calls: handles outliving a backend restart, metrics read without the lock while requests start and end, double termination, overlapping polls |
| **Admission policy** `policy.go`, `tps_gate.go`, `admission_bounds.go`, `tps_demand.go` | none | `evaluateDemand` | the order of its branches; the advertised availability must not promise what a tier is refused |
| **Reservations and overlay** `reservation.go`, `projector.go` | values | `contribution`, `addOverlay`, `subtractOverlay`, `replaceOverlay`, `project` | incremental totals against a full scan; a failed subtraction closes the node |
| **Exposure ledger** `sequence_exposure.go` | sequences in flight and decoding, their time integrals | `advance`, `addForwarded`, `addResponse`, `remove`, `snapshot`, `subtract` | every path that ends a request must take out exactly what it put in |
| **TPS window** `tps_window.go` | 61 one-second buckets and the latest interval | `observe`, `snapshot`, `expire`, `reset` | bucket reuse, boundaries, evidence of an earlier reference |
| **Priority queue** `internal/app/server/priority_admission.go` | queue, wake and close channels, one worker goroutine | `Decide`, `run`/`next`/`chooseIndex`/`dispatch`/`drain`, `Close` | cancellation against admission, shutdown against arrivals, lost wake-ups, starvation |
| **Admission runtime** `admission_runtime.go` | the controller, reporter and observer | `Decide`, `Snapshot`, `Close` | the clock is read before the lock |
| **Backend observer** `admission_backend_observer.go` | a ticker goroutine, `pollMu` | `poll`, `Close` | one poll = open a window, fetch without a lock, publish; what ends it, and who closes what first |
| **Proxy and response lifecycle** `proxy.go`, `backend.go`, `predictive_lifecycle.go`, `server_setup.go`, `admission_http.go`, `client_abort.go` | per request: reservation, terminal cause, body callbacks | `ServeHTTP`, `proxyRequest`, `modifyBackendResponse` | end of body, disconnect, timeout, panic: each must end the reservation, once |
| **Response write deadlines** `http_io.go` | per response: deadline, writing, interrupted | `beginWrite`, `endWrite`, `interruptOnCancel` and its `stop` | a cancellation callback racing a write and the next request of the connection |
| **Prompt cost mirror** `prompt_cost.go`, `app/request/prompt_fingerprint.go` | an LRU set of prompt-block hashes, two learned ratios | `Estimate`, `Admitted`, `Learn` | what eviction leaves of a prefix |
| **Startup, running limit** `predictive_factory.go`, `predictive_backend_probe.go`, `predictive_running_limit.go`, `run.go` | none after startup | probe, discover the limit, first publication | attempts with deadlines, a signal or a failure in the middle, a backend that changes between two reads |
| **Policy API** `predictive_policy_api.go` | none | `GET`/`PUT` of the revisioned policy | compare-and-swap (in the controller) |
| **Readiness, status, Router projection** `readiness.go`, `status.go`, `admission_projection.go` | none | projections of one `Snapshot` | |
| **Decision reporter, evidence, metrics** `admission_reporter.go`, `admission_evidence.go`, `tps_evidence.go`, … | counters | `Record`, `Snapshot` | nothing decides on them |
| **Request bodies** `app/request/classifier.go`, `json_output.go` | scanner tokens, the body budget, a pool of buffers | `acquire`, `readBoundedRequestBody`, `preserveBody`, `Close` | a body is closed by the transport, the proxy and the handler, in any order |
| **Request shape, priority rewriting** `domain/request/tps_shape.go`, `app/request/scheduling_priority.go` | a streaming transformer | `ParseTPSRequestShape`, `SetSchedulingPriority`, `transform` | members that come twice, limits, quotes and backslashes at any boundary |
| **Response usage parser** `infra/openai/completion_usage.go`, `infra/sse` | a streaming scanner | `Write`, `Complete`, `Censor` | events split across reads |
| **Metrics parsing** `infra/prometheus/*` | an index of lines | `FetchSampleContext`, `ParseSample` | lines of two engines, ranks or models in one scrape; absent is not zero |
| **Routes, authentication, attestation, configuration, simulator, tools** | | | outside the admission path |

### 1.2 How they interact

    handler goroutine (per request)           observer goroutine (ticker)
      ServeHTTP                                 poll
        ClassifyRequest: token, budget, buffer    StartSampleWindow   (lock)
        estimate from the prompt mirror
        decideAdmission
          PriorityQueue.Decide   [enforce]        fetch /metrics      (no lock)
            -> worker -> Runtime.Decide           PublishObservation  (lock)
                           -> Admit (lock)
        MarkForwarded (lock)                  operator
        proxy: upload (transport's goroutine)     UpdatePolicy        (lock)
               body first read -> MarkFirstByte
               body EOF        -> Terminate   startup, shutdown (goroutine of runServer)
        usage observed  -> prompt mirror          wait for metrics, discover, construct
        deferred Terminate (again, no effect)     Queue.Close -> Runtime.Close
        deferred Close of the body                  -> observer.Close -> Controller.Close

The controller's methods hold one mutex for their whole bodies, so one method is
one atomic action. Nothing else is atomic: a request's lifecycle, a poll, and a
queue decision are each a sequence of such actions that interleaves with all the
others, and those interleavings are what the models explore.

### 1.3 What makes each component correct

* Controller: the totals that decide admissions are exact at every moment; no
  order of calls makes its own accounting fail (it would close the node); a
  backend restart fences every handle of the earlier runtime; metrics reconcile
  only work they can have seen; an admission respects the window bound and the
  running limit given what is really pending; TPS evidence is of this backend
  runtime and this reference; what the node advertises, every tier would get.
* Queue: each call is answered exactly once, a reservation is never lost between
  the delegate and a canceled caller, nobody is admitted after shutdown,
  shutdown finishes, age bounds what priority can do to other tiers.
* Proxy: every reservation ends, whichever way the response does.
* Write deadlines: no callback outlives its request; a stuck write ends.
* TPS window: equals what the samples of the last sixty seconds hold.
* Readers of outside input: however the input is cut or ordered, what they say is
  what the whole of it says, and where two readers of it could differ it is refused.
* Startup and shutdown: both end, in an order that leaves nothing open or running.
* Request bodies: budget and buffer are one body's at a time, and what is sent is
  what the client sent; a price is lowered only for what a response has proven.

## 2. The modules

| module | stands for | kind |
|---|---|---|
| `Numeric`, `RequestTier` | `numeric.go`, tiers of `tps_demand.go` | operators |
| `AdmissionPolicy` | `policy.go`, `tps_gate.go`, `admission_bounds.go` | operators |
| `ReservationOverlay` | `reservation.go`, `slowOverlayLocked` of the controller | operators |
| `ExposureLedger` | `sequence_exposure.go` | operators |
| `AdmissionController` | `controller.go`, `policy_update.go`, the observer's poll | state machine |
| `AdmissionService` | the contract of `admissionService` (`admission_runtime.go` 12-34) | abstract specification |
| `PriorityQueue` | `priority_admission.go` | state machine, implements `AdmissionService` |
| `ResponseDeadline` | `http_io.go` with its two callbacks | state machine |
| `ProxyLifecycle` | `proxy.go`, `backend.go`, `predictive_lifecycle.go`, the callbacks of `server_setup.go`, `response_usage_evidence.go`, `client_abort.go`, `run.go` | state machine |
| `TPSWindow` | `tps_window.go` | operators |
| `MetricsSample` | `infra/prometheus/`: `metric_index.go`, `sample*.go` | operators |
| `ServerInfo` | the decoder of `predictive_running_limit.go` | operators |
| `RequestBody` | the grammar of `tps_shape.go`, `scheduling_priority.go` | operators |
| `RequestShape` | the fan-out of `tps_shape.go` | operators |
| `ResponseUsage` | `completion_usage.go` | operators |
| `InputStreams` | the six readers above, each fed piece after piece | state machine |
| `BodyGrammar` | what the bytes of a body say, as a recursive grammar of JSON | reference definition |
| `BackendRuntime` | `run.go`, `server_setup.go`, `predictive_factory.go`, `predictive_backend_probe.go`, `predictive_running_limit.go`, `admission_backend_observer.go`, `admission_runtime.go` | state machine |
| `PromptMirror` | `prompt_cost.go`, `prompt_fingerprint.go` | operators |
| `RequestIntake` | `classifier.go`, `json_output.go`, the parts of `proxy.go` and `response_usage_evidence.go` that touch a body or the mirror | state machine |
| `AdmissionControllerMC`, `PriorityQueueMC`, `ProxyLifecycleMC`, `InputStreamsMC`, `BackendRuntimeMC`, `RequestIntakeMC` | | instances for TLC |
| `AdmissionControllerProofs`, `AdmissionControllerAccounting`, `PriorityQueueProofs`, `ResponseDeadlineProofs`, `ProxyLifecycleProofs`, `BackendRuntimeProofs`, `RequestIntakeProofs`, `InputStreamsProofs` | | proofs |

### 2.1 AdmissionController

Variables carry the names of the struct's fields (`runtimeEpoch`,
`eventSequence`, `reservations`, `overlay`, `exposure`, `sampleSequence`,
`lastPublishedSample`, `lastExposure`, `observation`, `policy`,
`tpsPolicyEpoch`); `windows[s]` is the `SampleWindow` a sampler holds.
Each exported method is one action of the same name, with the branches of the
body as its disjuncts: `PublishObservation` is `PublishRejected` (an early
return), `PublishFatal` (identity drift, clock overflow, observation counter
exhausted), `PublishReset` (the backend restarted) or `PublishAccepted`, which
itself may end in `failClosedLocked`: because the reconciliation fails, or because
`tpsWindow.observe` returns false for an interval it walks (`ObserveFails`,
`counter_overflow`). That depends on the wall clock, which this module leaves
out, and so is a free choice here; `TPSWindow` and the run `tps_clock_step` show
when it happens (section 5). A call that changes nothing (a refusal, a
handle of an earlier epoch, a second termination, a policy conflict) is a
stuttering step, so its early return appears as the negated guard of the action.

Abstractions, all of data:

* Rates. A TPS mean is never computed; references and token counts
  are small naturals, and the comparison `mean >= reference` of the *latest*
  interval is computed from tokens and sequence-seconds. The *rolling* mean over
  sixty seconds, and how many samples are still inside it, is chosen by each
  reader (`Views`), so that every value the ring of buckets can yield is covered;
  the ring itself is `TPSWindow`.
* The ledger's 128-bit products are unbounded naturals (the code fails closed on
  a carry that needs centuries).
* `int64` width is `MaxInt64`, a small number in the runs, so that the overflow
  guards of the overlay are met; the five `uint64` counters have their own limits.
* Time is a natural; `clock - lag` is the time `admissionRuntime.Decide` read
  before it waited for the lock.
* Left out: fields that only reporting reads.

History variables, read by properties only: `watermark` (the event watermark of
the window last published) and `unseen` (per sampler, the reservations that were
forwarded or ended since its window opened).

### 2.2 PriorityQueue and AdmissionService

One action per step between two points where the code takes the mutex, reads the
clock or a context, or uses a channel. `caller[r]` is the program counter of
request `r`'s `Decide`, `worker` the worker's, `closer` that of `Close`. The
result channels (capacity one) are `result`, the wake channel is a boolean. The
delegate admits, or refuses, as it likes (`AskDelegate`), except that it admits
neither a done context nor anyone after its `Close`.

`AdmissionService` is what a caller may rely on: one answer per call, a
reservation held exactly by the calls that were admitted and have not ended, none
after shutdown, and every call answered. The refinement mapping reads `call` off
`caller` and `result`; while the worker holds an undelivered decision, the
reservation in it is not yet `held`. A leak (a reservation nobody can end) or a
double release is a step that the abstract specification does not allow.

### 2.3 ResponseDeadline

One connection serves several requests, one after the other. A step is what
happens between two acquisitions of the writer's mutex: `beginWrite` and
`endWrite` around a write that blocks in the kernel, the two `AfterFunc`
callbacks of `interruptOnCancel` (the request's context and the response's),
each of which may be scheduled, running or refused, and `stop`, which waits for
a callback that has started. Contexts end at any moment. The connection's
deadline is one of none, the write timeout, or past; a write under a past
deadline fails. Whether the peer reads is not under the server's control, so a
write may block for ever unless its deadline passes.

### 2.4 ProxyLifecycle

One goroutine per request runs `ServeHTTP`; `pc[r]` is where it stands between
two reads or writes of something another goroutine shares: the decision,
`MarkForwarded`, `Begin`, the round trip, each `Read` and `Write` of the copy
loop, the early `Terminate` at the end of the body (the context is looked at in
one step and the reservation ended in the next), the return, the second look at
the context, the result, and the two defers. A panic of the reverse proxy goes
to `aborted`, where `proxyRequest` recovers it; one that is raised again skips
to the defers. Against the handler run the client (`ClientLeaves`, and
`Propagates` to the child context), the deadline, the upstream, the controller
(`Reset`, `FailClosed`, `Reconcile`) and the shutdown.

The reservation is its phase, as `AdmissionController` has it: `MarkForwarded`
succeeds on a reserved one, `MarkFirstByte` on a forwarded one, `Terminate` on a
live one; `fenced` is a handle of an earlier epoch, on which every call fails.
Statuses are 2xx or other, a chunk is some bytes or none, and the usage parser
reports nothing or one outcome whenever it is fed (malformed usage stands with
unavailable: only available tokens are counted). `ended`, `charged`, `usage`,
`disconnects` and `rejected` are history variables or the counters taken apart
per request. Durations and the pricing of the prompt are left out. Two branches
cannot be reached and have no action: a nil backend (setup always builds one)
and a decision that is not `valid` (no implementation returns one). The end of
an upgraded connection (101) goes through the error handler as a failed round
trip does.

### 2.5 InputStreams and its readers

Much of the code is a reader: it takes what comes from outside in pieces, in an
order it does not choose, and must at each moment know what the whole input
says. `InputStreams` feeds one reader in each behaviour (`reader`), an input at
a time (`fed` remembers them), and keeps the reader's state (`value`). The
operators of the readers follow the code step by step; the properties compare
`value` with a definition over `fed` as a whole that shares nothing with the
reader: the ring of buckets with the intervals it covers, tick by tick; the
scanner of a body with a recursive grammar of JSON; the parser of a stream with
its lines and events, found by their places in the whole text; a fan-out with the
product over every choice among repeated members, refused unless all of them are positive and fit.

The state of each reader is the code's:

* `TPSWindow`: buckets by slot with the second they stand for, the oldest second
  that counts, the latest interval. A time has a wall and a monotonic reading, as
  Go's has: `observe` takes its interval from the monotonic one and its seconds
  from the wall clock. Amounts are naturals in units of 1/`Scale`, so that shares
  of a second are exact; the code uses floating point.
* `MetricsSample`: declared types and samples by metric, then `ParseSample` with
  what makes a sample unusable. A line is a record; the text of it is not parsed.
  What only the status reports (KV pool, cache counters) is left out.
* `ServerInfo`: the decoder's fields. A member is a record with a JSON type.
* `RequestBody`: the scanner's call stack is an explicit one, `open`; its bytes
  are the six that structure JSON, quote, backslash, space, and `x` for any other
  value or letter. The same bytes go through `transform`, the rewriting of a body
  that is not buffered, whose output is compared with the buffered rewriting.
* `RequestShape`: the root members read so far. An escaped spelling of a member's
  name is taken as the name.
* `ResponseUsage`: the line and the event under way, whether the rest of either is
  skipped, and the outcome so far; a document may be cut in two by a line. The data
  of an event is its pieces and the number of its lines, of which the newlines that
  the code puts between them count against the limit.

`InputAssumption` says what an input is: a time does not go back on the monotonic
clock, a metric's value is an integer, and the value of a member has the JSON type
it is said to have.
The one reference definition that needs recursive operators, the grammar of a
body, is in `BodyGrammar`, which `InputStreamsMC` extends; a loop over an input is
a recursive function (`Parse`, `ObserveChunk`, `SumTo`) or a fold. In the runs the inputs are bounded by
their length per reader (`Longest`); the proofs have no bound.

### 2.6 BackendRuntime

Two goroutines: `main` is where `runServer`'s is, from the first attempt to wait
for the backend to the end of `Close`, and `observer` where the poll loop's is.
Against them run the backend (`ChangeBackend`: another, none, or one whose
metrics are not coherent), the signal (`Cancel`), the deadline of an attempt
(`AttemptExpires`) and the controller, which may close itself (`FailClosed`). Of
the controller only what startup and the observer see is kept, whether it is
open and who closed it; its accounting, with the same poll, is
`AdmissionController`. A backend is its kind, its model, whether its metrics are
coherent and what its `server_info` says, decoded by `ServerInfo`; every fetch
returns what the backend that answers *by then* says, or an error. What may fail
in the wiring of the other parts of the server is one choice (`Wire`).

### 2.7 RequestIntake and PromptMirror

What a request borrows before and beside admission: a scanner token, a share of
the body budget, a pooled buffer. A handler's `pc` has the steps that take or
give back one of these; the transport's upload is a process of its own, since
by the contract of `http.RoundTripper` it may go on reading the body after the
round trip has returned. A body is thus closed up to three times, by the upload,
the proxy and the handler. `acquire` is two steps, since no lock holds them
together: a request that has the token and is then refused the bytes keeps the
token from others until it gives it back. `content` is the request whose bytes a buffer holds
now and `sent` those that an upload has sent.

The mirror is a list of block hashes, latest first; a block is the prefix of the
prompt it ends, as a chained hash without collisions is. `Admitted` touches the
blocks of a prompt from the first to the last, so that eviction takes a prompt's
*first* blocks before its last ones; the test
`src/internal/app/server/prompt_cost_test.go:41` expects this. Two histories are
only recorded: `uses`, every block that `Admitted` touched, in order, and `rooms`,
how many it had room for each time; `MirrorRecent` says what the mirror must hold
in terms of these alone. The number of blocks the mirror may hold follows
the learned ratio of bytes to tokens, and may change between the lock that
`Learn` takes and the one `Admitted` takes; here it is chosen (`Capacities`).
Admission is one choice, and what a request is charged is `matched`, the blocks
it does not pay for.

## 3. The runs

`tlc -config <run>.cfg <MC module>`; state counts are of distinct states.

| run | what varies | states | shows |
|---|---|---|---|
| `controller_lifecycle` | two requests of two fan-outs, tiers and prompts (cold and warm), all handle calls in any order, one sampler, a changing TPS reference, lease, stale clock, exhausted ids and events, Close | 140 k | `TypeOK`, `OverlayExact`, `LedgerExact`, `EvidenceCurrent`, `MinimumMostRestricted`, `AdmittedWithinBounds`, `ColdSerialised` |
| `controller_sampling` | two samplers (symmetric) that open, abandon and publish in any order, over three backend start times | 150 k | `NoInternalFailure`, `Fenced`, `DebtUncovered`, `ReconcileCovered` |
| `priority_queue_order` | three calls (two flex, one priority), different arrival times, joining in another order than the time they read | 2.5 M | `NoStarvation`, `InOrderWithinTier` |
| `priority_queue_liveness` | two cancelable calls, room for one, coalescing, Close | 342 k | `ImplementsService`, `CloseReturns` |
| `response_deadline` | two requests of one connection, contexts that end at any moment, writes that block, both callbacks | 1.7 k | `NoLateCallback`, `ErrorResponsePermitted`, `InterruptedForGood`, `CanceledWriteEnds` |
| `proxy_lifecycle` | one request of any kind in enforce mode with every fault at every step; two (symmetric) with at most one fault in a behaviour | 919 k | `ReservationReleased`, `UpstreamCallsCharged`, `SuccessMeansComplete`, `EvidenceOnce`, `TokensOnlyForSuccess`, `DisconnectCountedOnce`, `CountersExact` |
| `proxy_liveness` | one request in shadow mode, an upstream and a client that need never move | 42 k | `ReservationEnds` |
| `input_streams` | every short input of each reader: intervals of the TPS window with resets, lines after three scrapes, members of `server_info`, bytes and members of a body, chunks of a stream and of a JSON response | 538 k | `WindowExact`, `SampleExact`, `LimitHolds`, `BodyExact`, `ShapeExact`, `UsageExact` |
| `backend_runtime` | four backends that replace each other at any moment, failing fetches, a signal and a failure at every step | 14 k | `ClosedCleanly`, `SignalEnds`, `StartupEnds`, `DriftCloses` |
| `request_intake` | three requests of every kind of body, two with prompts of which one continues the other, a budget of three bytes where all would reserve five, one retained buffer, uploads that outlive their handler | 527 k | `BodiesOwned`, `NoSpeculativeHits`, `MirrorRecent` |
| `tps_clock_step`, `request_upload_docs` | | | section 5 |

Five of these properties are conjunctions of named parts over the same state:
`CountersExact` (the gauge `InflightExact`, and the counters `FailuresMeanFence`
and `RejectionsExact`), `SampleExact` (`OneBackend`, `TotalsOnly`), `BodyExact`
(`ScanExact`, `RewriteAgrees`), `ClosedCleanly` (with `TypeOK`, `NothingLeft`,
`ClosedAfterObserver`) and `BodiesOwned` (with `TypeOK`, `BudgetExact`,
`BuffersExclusive`). The type invariants of `ResponseDeadline`, `ProxyLifecycle`
and `PriorityQueue` are proved (section 4), and no run repeats them.

**Why the bounds are enough.** Two reservations are the least at which one
request's accounting can corrupt another's, and their fan-outs (2 and 1) make a
wrong amount differ from a wrong count; with `MaxInt64 = 4` two of the larger do
overflow. Four events let both be forwarded and one of them be answered and
ended, after which the counter is exhausted; `controller_sampling`, with one
request, has five. Two epochs give a
handle and a window of an earlier runtime; two observations give a watermark to
be compared with; two samplers give an older window published after a newer one.
The clock passes both the lease and the maximum age. `MinimumMostRestricted` is
asked in every state not only for the demands the run admits but for one sequence
of every tier, its prompt of unknown size or on either side of the warm size.
In the queue, three calls
are the least with one passed over for another while a third decides why;
`MaxWait = 2` gives the three ages fresh, aged (half the deadline) and expired;
`MaxEntries = 1` with two calls fills the queue; the clock stops after every
arrival's deadline has passed. The counters' limits are part of the code
(exhaustion is refused or fails closed), so they are no artificial fence.
The requests of `ProxyLifecycle` share only the gauges, the counters and the
controller's state, so that one request with every fault decides the properties
of a single request, and two with one fault (`MaxFaults`, a bound of the model)
those of what they share; the proofs below have no such bound.

The readers of `InputStreams` meet their boundaries in inputs as long as
`Longest` says. The window has two seconds of two ticks and a ring of three
buckets; four intervals of up to three seconds, the longest of them over the
maximum age, fill the ring, reuse its slots and
leave the window, and the snapshot is asked for until all of it has expired. Ten
bytes of body reach two levels of nesting and an escaped quote in a member's name.
Four root members have `n`, `best_of` and `prompt` and one of them twice, with a
product above `MaxInt64 = 6`. Ten pieces of a stream hold a document in two lines, one
that is too long, two usages, and something after `[DONE]`. In `RequestIntake`, two
requests fill the budget and the third does not fit; one buffer can be passed from
an answered request to the next; a mirror of two blocks holds neither prompt's
three and one of four does. `BackendRuntime` has no bound but its set of backends:
another model, another kind, incoherent, and one that states its limit badly.

**Deadlock** is not checked: a closed controller, and a queue whose calls are
answered, may stop.

**Fairness.** The controller has none, and only safety is claimed of it: it is a
passive object. `PriorityQueue` assumes weak fairness of the caller's own steps
inside `Decide`, of the worker's, of `Close` once begun, and of time: goroutines
that can run eventually do, and the delegate returns (`admissionRuntime.Decide`
takes one mutex that is never held across I/O, and a panic is recovered). Nobody
is obliged to call, cancel or close. Weak fairness of the whole worker, not of
each branch of its `select`, is all that Go's `select` justifies.
`ResponseDeadline` assumes that a canceled context reaches its `AfterFunc`, that
a callback that can run does, and that a write under a past deadline fails; no
peer is obliged to read. `ProxyLifecycle` assumes that a handler that can run
does, that `PROXY_TIMEOUT_SECONDS` pass, and, strongly, that a call whose context
has ended returns: the transport may first deliver chunks it had buffered, but
not for ever. A blocked write is covered by `ResponseDeadline`'s
`CanceledWriteEnds`. `BackendRuntime` assumes weak fairness of its two goroutines
and of the end of serving after a signal (five seconds, whatever the handlers do).
It is strong for two things that are tried again and again: a fetch is at some
time answered by a backend that stays, and the observer's `select`, whose context
is done and whose ticker may fire as well, takes the context in the end: Go
chooses among ready cases at random. No backend is obliged to stay or to answer
well, and nobody sends a signal. `InputStreams` and `RequestIntake` have only
safety.

Every property is also checked against a mutant of the model (the operators
introduced by "A slip:"): a dropped guard, a missing reset, a wrong amount that
the property must catch.

## 4. The proofs

Checked by `tlapm`, for every value of the constants that satisfies the
assumptions named in the modules (`NumericAssumption`, `PolicyAssumption`,
`ControllerAssumption`, `QueueAssumption`, `RequestsAssumption`, `ProxyAssumption`,
`BackendAssumption`, `WindowAssumption`, `IntakeAssumption`, `InputAssumption`), each
of which TLC evaluates in the runs.
Every invariant of the runs is proved but one, `BodyExact`.

**`AdmissionControllerProofs`.**

* `TypeCorrect`. `StepCases` splits `Next` once and for all into the cases every
  later proof uses (a handle event, an admission, a reset, a fail-closed step, an
  accepted publication, a step that leaves the lifecycle alone).
* The lemmas on the totals: what a scan (`SlowOverlay`) does when a reservation
  is added, removed, replaced, or reconciled. The scan counts *slots*, one per
  sequence, so that a sum is the cardinality of a finite set and the library's
  cardinality facts apply.
* `OverlayCorrect` (`OverlayExact`): inductive together with `TypeOK`; each case
  is one of the scan lemmas.
* `BoundsRespected` (`AdmittedWithinBounds`) and `ColdPromptsSerialised`
  (`ColdSerialised`): from `OverlayCorrect`, since the policy compares with the
  overlay and the properties with the reservations.
* `AvailabilityHonest` (`MinimumMostRestricted`): a comparison of the branches of
  `evaluateDemand` for the demand that is advertised and for any other of one
  sequence, those of `Demands` and of `OneSequenceDemands`: each refusal of the
  second is one of the first.
* `FencingCorrect` (`Fenced`), `EvidenceCorrect` (`EvidenceCurrent`).
* `DebtCorrect` (`DebtUncovered`): needs the strengthening that an event
  sequence in a reservation or a window is at most `eventSequence`, and that
  the watermark is too: a request ends with a number above every watermark.
* `ReconcileCorrect` (`ReconcileCovered`): needs that every reservation in
  `unseen[s]` carries a forwarded or terminal sequence above `windows[s]`'s
  watermark, which is what the code compares.

**`AdmissionControllerAccounting`**: that the controller's own checks cannot fail.

* `LedgerCorrect` (`LedgerExact`): the inductive invariant is `Accounts`: the
  overlay is exact, its liabilities fit an int64 (the check in `Admit` is what
  keeps them so), an active reservation has had its first byte, the ledger is
  exact and valid and not ahead of the clock. Each part is needed by another:
  a removal succeeds because the ledger is exact, and stays exact because the
  removal succeeds.
* `NeverFailsInternally` (`NoInternalFailure`): adds `SnapshotsOrdered`, that
  in the current epoch the ledger follows every snapshot taken of it and a
  later window follows an earlier one, and `WindowEpochsPast`, that no window
  is of a later epoch, so that a reset starts with none. Overlapping polls
  published out of order then subtract a snapshot only from a later one.

**`PriorityQueueProofs`**, for any set of requests, tiers and limits.

* The inductive invariant says who is where: a call that has joined and has no
  answer is in the queue or with the worker (`Kept`), once (`Distinct`), and
  nobody else is (`Pending`); a reservation belongs to an admitted call or to the
  worker (`Owned`); shutdown goes in one direction (`Closing`). `TypeCorrect`,
  `NoCallLost` and `NoReservationLeaks` are read off it. `TypeCorrect` includes that
  the queue never holds more than `MaxEntries` calls, however many arrive at once.
* `QueueIsService`: the queue implements the safety part of `AdmissionService`
  under the refinement mapping. The initial states map to initial ones, and each
  action maps to one of the service or to a stutter: a step that leaves `idle` to
  the call, one that sets `result` to the answer, the rest to a stutter. That no
  reservation is lost on the way is `Owned`.
* `TiersInOrder` (`InOrderWithinTier`) and `TiersDoNotStarve` (`NoStarvation`):
  the worker takes the element that `chooseIndex` ranks first, which exists
  because a non-empty set of naturals has a least one (`NatMinimum`, from the
  library's well-founded order). What is left of `ImplementsService` is liveness.

**`ResponseDeadlineProofs`**: `CallbacksJoined`, `ErrorsDelivered` and
`DeadlinesCorrect`, from one invariant: which operation of the handler is under
way, which callbacks are registered with it, and that between writes there is no
deadline.

**`ProxyLifecycleProofs`**, from `ProxyAssumption` (finitely many requests, one of
the two modes).

* The invariant of one request, `Request(q)`, has six parts, each preserved on the
  strength of those before it: `Inside` (who may hold a reservation, and where),
  `Charged`, `Reading` (what each place implies about the status and the last
  `Read`), `Ending` (if the whole body was read, the controller saw the success
  unless the handle was fenced or the context has ended, and the result then says
  so), `Disconnected` and `Recorded`. From them `ReservationCorrect`,
  `ChargedCorrect`, `SuccessCorrect`, `EvidenceCorrect`, `TokensCorrect` and
  `DisconnectCorrect`.
* `CountersCorrect` (`CountersExact`): the gauge is the number of handlers inside
  the call, and the two counters are the numbers of requests that were marked
  failed or rejected; a step adds at most one request to such a set and takes none
  out. It gives `TypeCorrect` that the gauge is never negative.

**`BackendRuntimeProofs`**: `ReleaseCorrect` (`ClosedCleanly`), for any set of
backends. The invariant adds to `TypeOK` where the controller and the observer can
be while startup is under way (`Placed`: a controller is made before an observer,
and a failed startup has neither open nor running) and that `Close` is the last to
touch either (`ClosedLast`).

**`RequestIntakeProofs`**, from `IntakeAssumption` (finitely many requests, of any
kinds, lengths and prompts).

* `BodiesAreOwned` (`BodiesOwned`): that the budget is the sum of the leases is
  proved by counting bytes (`Leased`), as the overlay counts slots; that a buffer is
  in the pool or one open body's, and only once, is inductive with the types.
* `HitsAreProven` (`NoSpeculativeHits`): every block of the mirror begins a
  prompt whose response gave a qualified usage (`MirrorProven`), through touches and
  evictions; `Learn`'s step comes after that response and before `Admitted`'s.
* `MirrorIsRecent` (`MirrorRecent`): the mirror holds the blocks last used, latest
  first, no more than it last had room for, and all of them unless some room it had
  was no larger than what it holds. What the loop of `Admitted`
  over the blocks of a prompt has computed after each of them is `TouchAllRecent`.

**`InputStreamsProofs`**, from `InputAssumption`, for inputs of every length.

* `LimitsHonest` (`LimitHolds`): the invariant `LimitInv` says that a decoded key
  holds what every member of that key says, so that it does not matter which one
  another reader would take; the limit is then the least of what is stated.
* `ShapesAgree` (`ShapeExact`): `ShapeInv` says that a shape is still supported
  exactly if the members read so far agree (`Agreed`), and what each field of it
  then holds. That agreement is what makes the product the same for all choices
  among the members (`ClearAgrees`, `AgreedAsks`), and the check before the
  multiplication is the check after it (`ProductFits`).
* `SamplesHonest` (`SampleExact`): `ScrapeInv` says that the index holds, for each
  metric, the samples and the declared type that its lines give. That a sample can
  be used then excludes every line of another framework, model or rank
  (`UsableIs`, `LabelsAre`), and makes a request gauge the largest of the
  scheduler's own totals (`GaugeIs`).
* `WindowTells` (`WindowExact`, if `ClockSteps = {0}`), of which `WindowSound`
  (`WindowNeverFails`) is a corollary. `WindowInv` says two things. A bucket that
  counts holds a second that has begun and has not left the window, in that second's
  place; two such seconds in one place are the same (`RingFits`), so that each second
  of an interval finds its bucket free or its own. And at every later moment the
  buckets that still count add up to what the observed intervals then hold of it
  (`SumsAgree`). An observation keeps the second because expiry drops only what no
  later snapshot counts (`ExpireKeeps`) and because what it adds to its buckets is
  the number of the interval's ticks still covered: the ticks are counted second by
  second of the loop (`TicksBySecond`, `HeldBySecond`), and a sum over the ring of
  which an interval of places changes by amounts of their own changes by the sum of
  these (`SumPlaces`, `AddSums`). A reset empties both sides. The hypothesis
  is needed: section 5 has the counterexample.
* `UsageTold` (`UsageExact`): while a text is read, `StreamInv` says where the open
  event and the open line of it began, that the observer holds of that event and that
  line what the text says (or has given the event up, and then it is too long), and
  that what it has concluded is what the closed events say, none of which is
  `[DONE]`; after `[DONE]`, that what it has concluded is what the events before
  say. A text that goes on keeps its lines and its events but the last
  (`Longer`, `BreaksKeep`, `SameEvent`, `TellsStill`), so that a piece is one of three
  cases: it goes on with the line (`LineGoesOn`), ends it (`LineEnds`) or ends the
  event (`EventEnds`). A chunk is the pieces of it (`ChunkKeeps`), wherever it is cut, and at the
  end of the text `Finish` treats the last line and event as an end of line would
  (`FinishTells`). For a JSON body `JSONInv` says that all of it is buffered unless it
  is too long.

A loop that is a recursive function (`TouchAll`, `Parse`, `SumTo`, `ObserveChunk`,
`Picked`) is reasoned about by the least number of steps for which a claim fails,
which `NatMinimum` provides: that the function is defined at all (`TouchAllDefined`,
`ParseDefined`, `SumDefined`, `PickedDefined`, `ObserveDefined`) and that its value
is the one claimed (`TouchAllRecent`, `ParseIndexes`, `SumPlaces`, `PickedIs`,
`ChunkKeeps`). The library's induction theorems, which take the claim as a
parameter, are not used.

**Only model-checked.**

* `BodyExact`: the grammar it compares with is a recursive operator, about which
  `tlapm` cannot reason.
* Liveness under fairness: `CloseReturns`, `CanceledWriteEnds`, `ReservationEnds`,
  `SignalEnds`, `StartupEnds`, `DriftCloses`, and the liveness half of
  `ImplementsService`.

## 5. Where documents and code differ

Two runs that TLC finds violated, each stating what a comment or a document says:

* `tps_clock_step` (`WindowNeverFails`), a defect. `tpsWindow.observe` says of its
  result (`src/internal/admission/tps_window.go:170-172`) that false is for an
  internal numeric failure and closes the controller. But an interval is bounded by
  the monotonic clock and walked by the seconds of the wall clock: a wall clock set
  forward or back by as much as the ring holds (61 seconds) makes an ordinary
  observation return false, and `PublishObservation` fails closed, for good. With
  clocks that agree (`ClockSteps = {0}`, run `input_streams`) it never fails, which
  `WindowSound` proves.
* `request_upload_docs` (`SendsOwnBody`). The algorithm flow document
  (`src/docs/PIG_INTERNAL_COMPONENT_ALGORITHM_FLOW.md`) says "proxy unchanged
  request" (74) and "Bounded body ownership and exact restoration" (183).
  `preservingReadCloser.Close` returns the buffer to the pool while the transport
  may still read it, when a backend answers before it has read the request; the
  buffer then holds the body of the next one. With the priority written into the
  body (`WritesPriority`) a scanned body is copied first, so the run has it off.

Differences seen while reading, which no run repeats:

* The flow document (127) says that the window bound limits only work not yet
  reflected by metrics and that a fresh observation reconciles it. The code
  (`controller.go:714`) keeps charging a forwarded request until its first byte,
  its end, or its lease's expiry with nothing waiting; `docs/ADVANCED.md` describes
  the code.
* The flow document (99) compares waiting with the window concurrency, the code
  (`tps_gate.go:63`) with the waiting allowance.
* `docs/ADVANCED.md:250` says that shadow mode returns no predictive 429; a request
  whose handle is fenced between the decision and `MarkForwarded` is answered 429
  in shadow mode too (`proxy.go:90`). `ProxyLifecycle` has the step.
* The comment at `run.go:65` says that admission is closed after the handlers
  finish; after five seconds they are no longer waited for (`run.go:76`).
  `ProxyLifecycle` and `BackendRuntime` have the code's order.

## 6. What is not modelled, and why

* Text: the lexing of a metrics line, of JSON numbers and escapes, and the output
  of metrics and logs. Stateless, and best tested.
* Policy administration API, readiness, status and Router projection: HTTP around
  `UpdatePolicy` and formatting of one `Snapshot`; they keep no state. What they
  promise of availability is `MinimumMostRestricted`.
* Decision reporter, evidence and metrics: counters and histograms that nothing
  decides on, the TPS window's denominator histogram and the KV pool and cache
  counters of a scrape among them.
* Attestation, configuration, routes, authentication, the simulator and the
  Python tools: outside the admission path.
* `tpsWindow`'s branch that fails on non-finite sums, and the 128-bit carry of
  the ledger: unreachable within the life of a process.
* `connectionStates` (`http_io.go`): a gauge of connections under one mutex.
* `KeepAliveBody` of `infra/sse`: used only by its tests.
* The prompt cost's two learned ratios: numbers, of which only the size of the
  mirror that follows from them matters, and is chosen.

## 7. The plan

Done, most important behaviour first: the controller with its operators, runs
and proofs; the priority queue, the service it implements and the proof that it
does; `ResponseDeadline` and `ProxyLifecycle` with their proofs; the readers of
`InputStreams`, all but the bytes of a body with proofs; `BackendRuntime` with its proof;
`PromptMirror` and `RequestIntake` with theirs.

Left:

1. `BodyExact` as a theorem: the grammar of a body as a recursive function over its
   places, and the scanner's stack as the values open at a place.
2. A controller whose rolling rate comes from `TPSWindow` instead of a choice, for
   the order of expiry, admission and publication at the edge of the window.
3. `connectionStates`, and the counters of the reporter.
