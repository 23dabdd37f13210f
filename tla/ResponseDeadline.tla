-------------------------- MODULE ResponseDeadline --------------------------
(***************************************************************************)
(* responseDeadlineWriter (internal/app/server/http_io.go): the deadline   *)
(* of the writes of a response, on one connection that serves several      *)
(* requests in turn. Three goroutines meet under the writer's mutex: the   *)
(* handler, which writes, and two callbacks that context.AfterFunc starts  *)
(* when a context ends, the outer one of the client's context              *)
(* (ServeHTTP in proxy.go) and the inner one of the proxied call's         *)
(* (proxyRequest in backend.go). A response has a new writer; the          *)
(* deadline is the connection's and survives it.                           *)
(*                                                                         *)
(* A deadline is "pending" (the write timeout from now), "now" (passed) or *)
(* "none". Each action is what the code does between taking the mutex and  *)
(* releasing it, or one step of the socket or of a context.                *)
(***************************************************************************)
EXTENDS Integers

CONSTANT MaxRequests    \* bound of the model: requests on the connection

ASSUME RequestsAssumption == MaxRequests \in Nat \ {0}

Callbacks == {"outer", "inner"}

VARIABLES
    requests,           \* requests served so far
    stage,              \* where the handler of the current one stands
    op,                 \* the operation it is in: "none", "socket", or its result
    clientDone,         \* the client's context has ended
    proxyDone,          \* the proxied call's context has ended
    callback,           \* the state of each registration
    ctx,                \* w.ctx: the context that beginWrite looks at
    writing, cancelable, started, interrupted,
    deadline,           \* the connection's write deadline
    \* history variables
    sawLive,            \* an operation of this response began with ctx live
    failed              \* an operation of this response failed

contexts == <<clientDone, proxyDone>>
flags    == <<writing, cancelable, started, interrupted>>
history  == <<sawLive, failed>>
vars == <<requests, stage, op, contexts, callback, ctx, flags, deadline, history>>

Done(c) == IF c = "client" THEN clientDone ELSE proxyDone

Init ==
    /\ requests = 0 /\ stage = "idle" /\ op = "none"
    /\ clientDone = FALSE /\ proxyDone = FALSE
    /\ callback = [k \in Callbacks |-> "none"]
    /\ ctx = "client"
    /\ writing = FALSE /\ cancelable = FALSE /\ started = FALSE /\ interrupted = FALSE
    /\ deadline = "none"
    /\ sawLive = FALSE /\ failed = FALSE

-----------------------------------------------------------------------------
(***************************************************************************)
(* The writer.                                                             *)
(***************************************************************************)

\* A slip: an active deadline is computed before the interruption is looked at.
DeadlineActiveFirst(cut, active) ==
    IF active THEN "pending" ELSE IF cut THEN "now" ELSE "none"

\* setDeadlineLocked.
Deadline(cut, active) == IF cut THEN "now" ELSE IF active THEN "pending" ELSE "none"

\* A slip: every write may be cut, the error response after a timeout too.
BeginWriteAlwaysCancelable(final) ==
    LET live == ~Done(ctx)
        cut  == interrupted \/ ~live
    IN  /\ stage \in {"local", "proxying"} /\ op = "none"
        /\ op' = "socket"
        /\ writing' = TRUE /\ cancelable' = TRUE
        /\ interrupted' = cut
        /\ started' = (started \/ (final /\ live))
        /\ deadline' = Deadline(cut, TRUE)
        /\ sawLive' = (sawLive \/ live)
        /\ UNCHANGED <<requests, stage, contexts, callback, ctx, failed>>

\* A slip: a write begun after the context ended is left to the callback,
\* which may have run already.
BeginWriteTrustingCallback(final) ==
    LET live == ~Done(ctx)
    IN  /\ stage \in {"local", "proxying"} /\ op = "none"
        /\ op' = "socket"
        /\ writing' = TRUE /\ cancelable' = (live \/ started)
        /\ started' = (started \/ (final /\ live))
        /\ deadline' = Deadline(interrupted, TRUE)
        /\ sawLive' = (sawLive \/ live)
        /\ UNCHANGED <<requests, stage, contexts, callback, ctx, interrupted, failed>>

\* WriteHeader, Write or Flush; only an informational header is not final.
BeginWrite(final) ==
    LET live == ~Done(ctx)
        cut  == interrupted \/ (~live /\ started)
    IN  /\ stage \in {"local", "proxying"} /\ op = "none"
        /\ op' = "socket"
        /\ writing' = TRUE /\ cancelable' = (live \/ started)
        /\ interrupted' = cut
        /\ started' = (started \/ (final /\ live))
        /\ deadline' = Deadline(cut, TRUE)
        /\ sawLive' = (sawLive \/ live)
        /\ UNCHANGED <<requests, stage, contexts, callback, ctx, failed>>

\* The socket: a buffer takes the bytes or the peer does. WriteHeader reports
\* no error, whatever became of its bytes.
SocketTakes ==
    /\ op = "socket" /\ op' = "ok"
    /\ UNCHANGED <<requests, stage, contexts, callback, ctx, flags, deadline, history>>

\* The peer is gone or the deadline has passed.
SocketFails ==
    /\ op = "socket" /\ op' = "failed"
    /\ failed' = TRUE
    /\ UNCHANGED <<requests, stage, contexts, callback, ctx, flags, deadline, sawLive>>

EndWrite ==
    /\ op \in {"ok", "failed"} /\ op' = "none"
    /\ writing' = FALSE /\ cancelable' = FALSE
    /\ deadline' = IF op = "ok" THEN Deadline(interrupted, FALSE) ELSE deadline
    /\ UNCHANGED <<requests, stage, contexts, callback, ctx, started, interrupted, history>>

-----------------------------------------------------------------------------
(***************************************************************************)
(* The contexts and the callbacks of interruptOnCancel.                    *)
(***************************************************************************)
ClientCancels ==
    /\ stage \notin {"idle", "closed"} /\ ~clientDone
    /\ clientDone' = TRUE
    /\ UNCHANGED <<requests, stage, op, proxyDone, callback, ctx, flags, deadline, history>>

\* The end of a context reaches its children one by one.
Propagates ==
    /\ stage = "proxying" /\ clientDone /\ ~proxyDone
    /\ proxyDone' = TRUE
    /\ UNCHANGED <<requests, stage, op, clientDone, callback, ctx, flags, deadline, history>>

TimesOut ==
    /\ stage = "proxying" /\ ~proxyDone
    /\ proxyDone' = TRUE
    /\ UNCHANGED <<requests, stage, op, clientDone, callback, ctx, flags, deadline, history>>

\* context.AfterFunc starts the callback's goroutine.
Fires(k) ==
    /\ callback[k] = "armed" /\ Done(IF k = "outer" THEN "client" ELSE "proxy")
    /\ callback' = [callback EXCEPT ![k] = "running"]
    /\ UNCHANGED <<requests, stage, op, contexts, ctx, flags, deadline, history>>

Runs(k) ==
    /\ callback[k] = "running"
    /\ callback' = [callback EXCEPT ![k] = "finished"]
    /\ IF writing /\ cancelable
         THEN interrupted' = TRUE /\ deadline' = Deadline(TRUE, TRUE)
         ELSE UNCHANGED <<interrupted, deadline>>
    /\ UNCHANGED <<requests, stage, op, contexts, ctx, writing, cancelable, started, history>>

-----------------------------------------------------------------------------
(***************************************************************************)
(* The handler.                                                            *)
(***************************************************************************)
\* ServeHTTP: a new writer, and the callback of the client's context.
StartRequest ==
    /\ stage = "idle" /\ requests < MaxRequests
    /\ requests' = requests + 1 /\ stage' = "local"
    /\ clientDone' = FALSE /\ proxyDone' = FALSE
    /\ ctx' = "client"
    /\ callback' = [callback EXCEPT !["outer"] = "armed"]
    /\ writing' = FALSE /\ cancelable' = FALSE /\ started' = FALSE /\ interrupted' = FALSE
    /\ sawLive' = FALSE /\ failed' = FALSE
    /\ UNCHANGED <<op, deadline>>

\* proxyRequest: a context of its own, with a timeout, and its callback.
EnterProxy ==
    /\ stage = "local" /\ op = "none"
    /\ stage' = "proxying"
    /\ proxyDone' = clientDone
    /\ ctx' = "proxy"
    /\ callback' = [callback EXCEPT !["inner"] = "armed"]
    /\ UNCHANGED <<requests, op, clientDone, flags, deadline, history>>

(***************************************************************************)
(* The stop functions: a callback that has not started never will; one     *)
(* that has is waited for. proxyRequest's then cancels its context.        *)
(***************************************************************************)
LeaveProxy ==
    /\ stage = "proxying" /\ op = "none" /\ callback["inner"] # "running"
    /\ stage' = "returned"
    /\ callback' = [callback EXCEPT !["inner"] = "none"]
    /\ proxyDone' = TRUE
    /\ UNCHANGED <<requests, op, clientDone, ctx, flags, deadline, history>>

\* A slip: a callback that has started is not waited for.
LeaveHandlerAtOnce ==
    /\ stage \in {"local", "returned"} /\ op = "none"
    /\ stage' = "final"
    /\ callback' = [callback EXCEPT !["outer"] = IF @ = "armed" THEN "none" ELSE @]
    /\ UNCHANGED <<requests, op, contexts, ctx, flags, deadline, history>>

LeaveHandler ==
    /\ stage \in {"local", "returned"} /\ op = "none" /\ callback["outer"] # "running"
    /\ stage' = "final"
    /\ callback' = [callback EXCEPT !["outer"] = "none"]
    /\ UNCHANGED <<requests, op, contexts, ctx, flags, deadline, history>>

\* setDeadline(true), for the flush that net/http does after the handler.
FinalDeadline ==
    /\ stage = "final"
    /\ stage' = "flushing"
    /\ deadline' = Deadline(interrupted, TRUE)
    /\ UNCHANGED <<requests, op, contexts, callback, ctx, flags, history>>

\* net/http flushes, clears the deadline and keeps the connection, or closes
\* it: always when an operation failed, the deadline has passed or the
\* handler panicked.
Flushed ==
    /\ stage = "flushing"
    /\ \/ stage' = "idle" /\ deadline' = "none" /\ ~failed /\ deadline # "now"
       \/ stage' = "closed" /\ UNCHANGED deadline
    /\ UNCHANGED <<requests, op, contexts, callback, ctx, flags, history>>

Next ==
    \/ \E final \in BOOLEAN : BeginWrite(final)
    \/ SocketTakes \/ SocketFails \/ EndWrite
    \/ ClientCancels \/ Propagates \/ TimesOut
    \/ \E k \in Callbacks : Fires(k) \/ Runs(k)
    \/ StartRequest \/ EnterProxy \/ LeaveProxy \/ LeaveHandler \/ FinalDeadline
    \/ Flushed

SafeSpec == Init /\ [][Next]_vars

\* A context that ends starts its callback, which gets the mutex, and a write
\* whose deadline has passed fails. No peer has to read, and no pending
\* deadline has to pass.
Fairness ==
    /\ WF_vars(Propagates)
    /\ \A k \in Callbacks : WF_vars(Fires(k)) /\ WF_vars(Runs(k))
    /\ WF_vars(SocketFails /\ deadline = "now")

Spec == SafeSpec /\ Fairness

-----------------------------------------------------------------------------
(***************************************************************************)
(* Properties.                                                             *)
(***************************************************************************)
\* Every variable keeps its type, and the writer's flag follows the operation.
TypeOK ==
    /\ requests \in 0..MaxRequests
    /\ stage \in {"idle", "local", "proxying", "returned", "final", "flushing", "closed"}
    /\ op \in {"none", "socket", "ok", "failed"}
    /\ clientDone \in BOOLEAN /\ proxyDone \in BOOLEAN
    /\ callback \in [Callbacks -> {"none", "armed", "running", "finished"}]
    /\ ctx \in {"client", "proxy"}
    /\ writing \in BOOLEAN /\ cancelable \in BOOLEAN
    /\ started \in BOOLEAN /\ interrupted \in BOOLEAN
    /\ deadline \in {"none", "pending", "now"}
    /\ sawLive \in BOOLEAN /\ failed \in BOOLEAN
    /\ writing <=> op # "none"

\* Once the handler has left, no callback of its response is armed or running:
\* none can touch the deadline of the flush that follows, or of the next
\* request on the connection (the comment in ServeHTTP).
NoLateCallback ==
    /\ stage \in {"idle", "final", "flushing", "closed"} => callback["outer"] \notin {"armed", "running"}
    /\ stage # "proxying" => callback["inner"] \notin {"armed", "running"}

\* A response that had not begun before its context ended is never cut: the
\* proxy can still say why it failed (the comment in interruptOnCancel).
ErrorResponsePermitted == interrupted => sawLive

\* A response that was cut stays cut: no later write, flush or end of the
\* handler gives its connection new time.
InterruptedForGood == interrupted /\ stage \notin {"idle", "closed"} => deadline = "now"

\* A write in progress has a deadline; the silence between two writes that
\* succeeded has none, whatever callbacks run in it.
BoundedOnlyWhileWriting ==
    /\ op = "socket" => deadline # "none"
    /\ stage \in {"local", "proxying"} /\ op = "none" /\ ~interrupted /\ ~failed =>
         deadline = "none"

\* A write that may be cut ends when its context has ended, although the peer
\* never reads: whether the context ended before or during the write, and
\* whether or not its callback had already run.
CanceledWriteEnds ==
    op = "socket" /\ cancelable /\ (clientDone \/ Done(ctx)) ~> op # "socket"
=============================================================================
