--------------------------- MODULE RequestIntake ---------------------------
(***************************************************************************)
(* What a request holds of PIG from the moment its body is read until its  *)
(* upload ends: a scanner token and a share of the body budget             *)
(* (src/internal/app/request/classifier.go), a pooled buffer with its body *)
(* (json_output.go), and what its prompt is charged for and leaves behind  *)
(* in the prompt mirror (src/internal/app/server: proxy.go, prompt_cost.go, *)
(* response_usage_evidence.go).                                            *)
(*                                                                         *)
(* The upload is the goroutine of net/http's transport that sends the body *)
(* to the backend. As RoundTripper says of itself, it may outlive the      *)
(* RoundTrip: a backend may answer before it has read the request, and the *)
(* handler may return and close the body while the upload goes on.         *)
(*                                                                         *)
(* Admission is AdmissionController; here a request is admitted or not.    *)
(***************************************************************************)
EXTENDS PromptMirror

CONSTANTS
    Requests,
    ContentLength(_),       \* what the client says; -1 for nothing
    Bodies(_),              \* what it may send: one of Kinds
    Parts,                  \* the parts that prompts are made of
    Prompt(_),              \* the prompt of a body that has one, in parts
    MaximumBodyBytes, MaximumConcurrent,
    MaximumReservedBytes,   \* outstandingBodyBudget
    RetainedBuffers,        \* retainedBodyBufferCount
    Capacities,             \* of the mirror in blocks: it follows the learned ratio
    WritesPriority          \* the backend orders its queue by the tier

None == "none"

\* A body with a prompt, one whose shape is not scanned, one that is not JSON, one
\* that is longer than it may be or cannot be read to its end, and one of another
\* type.
Kinds == {"prompt", "unsupported", "invalid", "partial", "text"}

ASSUME IntakeAssumption ==
    /\ IsFiniteSet(Requests) /\ None \notin Requests
    /\ \A r \in Requests :
          ContentLength(r) \in Int /\ Bodies(r) \subseteq Kinds /\ Prompt(r) \in Seq(Parts)
    /\ MaximumBodyBytes \in Nat /\ MaximumReservedBytes \in Nat
    /\ RetainedBuffers \in Nat /\ Capacities \subseteq Int

\* A buffer is named after the request that allocated it.
Buffers == Requests

VARIABLES
    body,       \* what a request carries
    pc,         \* where the handler of a request is
    scanning,   \* those that hold a scanner token
    reserved,   \* Classifier.reservedBodyBytes
    lease,      \* the share of it that a request's body holds
    pool,       \* Classifier.bodyPool
    buffer,     \* the buffer that a request's body reads from
    open,       \* the requests whose body has not given it back
    content,    \* the request whose body a buffer holds
    source,     \* what the upload reads: the connection, the buffer and then the
                \* connection ("both"), the buffer, or a copy of its own
    upload,     \* where the upload is
    sent,       \* the request whose bytes it has sent
    known,      \* the requests whose prompt has a fingerprint
    matched,    \* the blocks the estimate took for cached
    lru,        \* the mirror,
    capacity,   \* and how many blocks it holds now
    uses,       \* the blocks that Admitted has touched, in their order,
    rooms,      \* and how many it had room for, each time (both are only recorded)
    proven      \* the requests whose response gave a qualified usage

bodyVars   == <<reserved, lease, pool, buffer, open, content, source>>
uploadVars == <<upload, sent>>
mirrorVars == <<matched, lru, capacity, uses, rooms, proven>>
vars == <<body, pc, scanning, known, bodyVars, uploadVars, mirrorVars>>

WithToken == {"reserving", "refused", "reading", "scanning"}
Handler == WithToken \cup {"new", "classified", "forwarding", "learning", "recording",
                           "closing", "returned"}

TypeOK ==
    /\ body \in [Requests -> Kinds] /\ pc \in [Requests -> Handler]
    /\ scanning = {r \in Requests : pc[r] \in WithToken}
    /\ pool \subseteq Buffers /\ Cardinality(pool) <= RetainedBuffers
    /\ lease \in [Requests -> 0..MaximumBodyBytes] /\ open \subseteq Requests
    /\ buffer \in [Requests -> Buffers \cup {None}] /\ content \in [Buffers -> Requests \cup {None}]
    /\ source \in [Requests -> {"connection", "both", "buffer", "copy"}]
    /\ upload \in [Requests -> {"idle", "sending", "ended"}] /\ sent \in [Requests -> Requests \cup {None}]
    /\ matched \in [Requests -> Nat] /\ capacity \in Capacities
    /\ known \subseteq Requests /\ proven \subseteq Requests

Init ==
    /\ body \in {b \in [Requests -> Kinds] : \A r \in Requests : b[r] \in Bodies(r)}
    /\ pc = [r \in Requests |-> "new"]
    /\ scanning = {} /\ reserved = 0 /\ lease = [r \in Requests |-> 0]
    /\ pool = {} /\ buffer = [r \in Requests |-> None] /\ open = {}
    /\ content = [b \in Buffers |-> None] /\ source = [r \in Requests |-> "connection"]
    /\ upload = [r \in Requests |-> "idle"] /\ sent = [r \in Requests |-> None]
    /\ known = {} /\ matched = [r \in Requests |-> 0] /\ lru = <<>> /\ capacity \in Capacities
    /\ uses = <<>> /\ rooms = <<>> /\ proven = {}

Goto(r, where) == pc' = [pc EXCEPT ![r] = where]

-----------------------------------------------------------------------------
(* classifyJSONFields.                                                     *)

\* bodyReservationBytes.
Reservation(r) ==
    IF ContentLength(r) <= 0 \/ ContentLength(r) > MaximumBodyBytes
    THEN MaximumBodyBytes ELSE ContentLength(r)

\* The body is too large by its own account, or its type is not JSON: it is not
\* read, and the request counts as one sequence.
PassBody(r) ==
    /\ pc[r] = "new" /\ (ContentLength(r) > MaximumBodyBytes \/ body[r] = "text")
    /\ Goto(r, "classified")
    /\ UNCHANGED <<body, scanning, known, bodyVars, uploadVars, mirrorVars>>

\* reserveBodyBytes.
Fits(bytes) == reserved + bytes <= MaximumReservedBytes

\* acquire. Neither a token nor the bytes are waited for.
AcquireToken(r) ==
    /\ pc[r] = "new" /\ ContentLength(r) <= MaximumBodyBytes /\ body[r] # "text"
    /\ IF Cardinality(scanning) < MaximumConcurrent
       THEN scanning' = scanning \cup {r} /\ Goto(r, "reserving")
       ELSE Goto(r, "classified") /\ UNCHANGED scanning
    /\ UNCHANGED <<body, known, bodyVars, uploadVars, mirrorVars>>

AcquireBytes(r) ==
    /\ pc[r] = "reserving"
    /\ IF Fits(Reservation(r))
       THEN /\ reserved' = reserved + Reservation(r)
            /\ lease' = [lease EXCEPT ![r] = Reservation(r)]
            /\ Goto(r, "reading")
       ELSE Goto(r, "refused") /\ UNCHANGED <<reserved, lease>>
    /\ UNCHANGED <<body, scanning, known, pool, buffer, open, content, source,
                   uploadVars, mirrorVars>>

\* Without the bytes the token is given back; until then it keeps others away.
GiveTokenBack(r) ==
    /\ pc[r] = "refused"
    /\ scanning' = scanning \ {r}
    /\ Goto(r, "classified")
    /\ UNCHANGED <<body, known, bodyVars, uploadVars, mirrorVars>>

\* acquireBodyBuffer: a buffer of the pool, or a new one.
FreeBuffers(r) == IF pool = {} THEN {r} ELSE pool

Without(buffers, b) == buffers \ {b}

\* readBoundedRequestBody and preserveBody: from now on the body is read from the
\* buffer; of one that is too long or whose reading failed, the rest follows
\* from the connection, and classification ends.
ReadBody(r) ==
    LET whole == body[r] # "partial"
    IN  /\ pc[r] = "reading"
        /\ \E b \in FreeBuffers(r) :
              /\ pool' = Without(pool, b)
              /\ buffer' = [buffer EXCEPT ![r] = b]
              /\ content' = [content EXCEPT ![b] = r]
        /\ open' = open \cup {r}
        /\ source' = [source EXCEPT ![r] = IF whole THEN "buffer" ELSE "both"]
        /\ Goto(r, IF whole THEN "scanning" ELSE "classified")
        /\ scanning' = IF whole THEN scanning ELSE scanning \ {r}
        /\ UNCHANGED <<body, known, reserved, lease, uploadVars, mirrorVars>>

\* ParseTPSRequestShape and fingerprintPrompt. A body that is not JSON is
\* answered at once; one whose shape is not scanned has no prompt.
ScanBody(r) ==
    /\ pc[r] = "scanning"
    /\ scanning' = scanning \ {r}
    /\ Goto(r, IF body[r] = "invalid" THEN "closing" ELSE "classified")
    /\ known' = IF body[r] = "prompt" THEN known \cup {r} ELSE known
    /\ UNCHANGED <<body, bodyVars, uploadVars, mirrorVars>>

-----------------------------------------------------------------------------
(* serveHTTP, from the estimate on.                                        *)

Estimate(r) == IF r \in known THEN [matched EXCEPT ![r] = Matched(lru, Prompt(r))] ELSE matched

\* writeSchedulingPriority: a body that is wholly buffered is copied; another is
\* rewritten on the fly, and a scan that found no object may leave it alone.
Sources(r) ==
    IF WritesPriority /\ source[r] = "buffer"
    THEN {"copy"} \cup (IF r \in known THEN {} ELSE {"buffer"})
    ELSE {source[r]}

Reject(r) ==
    /\ pc[r] = "classified" /\ Goto(r, "closing")
    /\ matched' = Estimate(r)
    /\ UNCHANGED <<body, scanning, known, bodyVars, uploadVars, lru, capacity, uses, rooms, proven>>

Forward(r) ==
    /\ pc[r] = "classified" /\ Goto(r, "forwarding")
    /\ matched' = Estimate(r)
    /\ \E s \in Sources(r) : source' = [source EXCEPT ![r] = s]
    /\ upload' = [upload EXCEPT ![r] = "sending"]
    /\ UNCHANGED <<body, scanning, known, reserved, lease, pool, buffer, open, content, sent,
                   lru, capacity, uses, rooms, proven>>

\* releaseBodyBuffer.
Pooled(b) == IF Cardinality(pool) < RetainedBuffers THEN pool \cup {b} ELSE pool

\* A slip: the bytes are given back each time the body is closed.
CloseBodyAgain(r) ==
    /\ pool' = IF r \in open THEN Pooled(buffer[r]) ELSE pool
    /\ open' = open \ {r}
    /\ reserved' = Max({0, reserved - (IF source[r] = "connection" THEN 0 ELSE Reservation(r))})
    /\ lease' = [lease EXCEPT ![r] = 0]
    /\ UNCHANGED <<buffer, content, source>>

\* preservingReadCloser.Close, once: the buffer goes back to the pool, and the
\* bytes to the budget.
CloseBody(r) ==
    /\ pool' = IF r \in open THEN Pooled(buffer[r]) ELSE pool
    /\ open' = open \ {r}
    /\ reserved' = reserved - lease[r]
    /\ lease' = [lease EXCEPT ![r] = 0]
    /\ UNCHANGED <<buffer, content, source>>

\* A slip: a prompt is taken for cached once it has been forwarded.
LearnsFromAny(response) == TRUE

\* Complete learns from a successful response with a qualified usage only.
LearnsFrom(response) == response = "usage"

\* The proxy returns: ReverseProxy closes the body, whether or not the upload has
\* ended, and Complete sees the result.
Respond(r, response) ==
    /\ pc[r] = "forwarding"
    /\ Goto(r, IF LearnsFrom(response) /\ r \in known THEN "learning" ELSE "closing")
    /\ proven' = IF response = "usage" /\ r \in known THEN proven \cup {r} ELSE proven
    /\ CloseBody(r)
    /\ UNCHANGED <<body, scanning, known, uploadVars, matched, lru, capacity, uses, rooms>>

\* Learn: the ratio of bytes to tokens, and with it the size of the mirror.
Learn(r) ==
    /\ pc[r] = "learning" /\ Goto(r, "recording")
    /\ capacity' \in Capacities
    /\ UNCHANGED <<body, scanning, known, bodyVars, uploadVars, matched, lru, uses, rooms, proven>>

RecordPrompt(r) ==
    /\ pc[r] = "recording" /\ Goto(r, "closing")
    /\ lru' = Admitted(lru, Prompt(r), capacity)
    /\ IF Enters(Prompt(r), capacity)
       THEN uses' = uses \o Blocks(Prompt(r)) /\ rooms' = Append(rooms, capacity)
       ELSE UNCHANGED <<uses, rooms>>
    /\ UNCHANGED <<body, scanning, known, bodyVars, uploadVars, matched, capacity, proven>>

\* The deferred Close of every way out of the handler.
Return(r) ==
    /\ pc[r] = "closing" /\ Goto(r, "returned")
    /\ CloseBody(r)
    /\ UNCHANGED <<body, scanning, known, uploadVars, mirrorVars>>

-----------------------------------------------------------------------------
(* The transport's upload.                                                 *)

\* The reader goes on reading the memory of a buffer that was given back.
Read(r) == IF source[r] \in {"buffer", "both"} THEN content[buffer[r]] ELSE r

\* The body is sent, and the transport closes it then.
Upload(r) ==
    /\ upload[r] = "sending" /\ upload' = [upload EXCEPT ![r] = "ended"]
    /\ sent' = [sent EXCEPT ![r] = Read(r)]
    /\ CloseBody(r)
    /\ UNCHANGED <<body, pc, scanning, known, mirrorVars>>

Next == \E r \in Requests :
    \/ PassBody(r) \/ AcquireToken(r) \/ AcquireBytes(r) \/ GiveTokenBack(r)
    \/ ReadBody(r) \/ ScanBody(r) \/ Reject(r) \/ Forward(r)
    \/ \E response \in {"usage", "other"} : Respond(r, response)
    \/ Learn(r) \/ RecordPrompt(r) \/ Return(r)
    \/ Upload(r)

Spec == Init /\ [][Next]_vars

-----------------------------------------------------------------------------
(* Properties.                                                             *)

\* The bytes that the bodies hold of the budget.
Leased == {slot \in Requests \X (1..MaximumBodyBytes) : slot[2] <= lease[slot[1]]}

\* The budget counts each body once, from the reservation to the first of its
\* closes - by the transport, the proxy or the handler - and never goes over its
\* maximum; a handler that has returned holds nothing (acquire,
\* reserveBodyBytes, preservingReadCloser.Close).
BudgetExact ==
    /\ reserved = Cardinality(Leased)
    /\ reserved \in 0..MaximumReservedBytes
    /\ \A r \in Requests : pc[r] = "returned" => lease[r] = 0 /\ r \notin open \cup scanning

\* While a body is open, its buffer is neither in the pool nor another body's, and
\* holds what the client sent (acquireBodyBuffer, releaseBodyBuffer).
BuffersExclusive ==
    \A r \in open :
        /\ buffer[r] \notin pool /\ content[buffer[r]] = r
        /\ \A s \in open : buffer[s] = buffer[r] => s = r

\* What a request borrows of the classifier is its own while it has it, and given
\* back once: both of the above.
BodiesOwned == TypeOK /\ BudgetExact /\ BuffersExclusive

\* "proxy unchanged request" (docs/PIG_INTERNAL_COMPONENT_ALGORITHM_FLOW.md:74),
\* "Bounded body ownership and exact restoration" (:183): what is sent for a
\* request is what its client sent.
SendsOwnBody == \A r \in Requests : sent[r] \in {r, None}

\* A request that is admitted at a lower price shares the blocks it does not pay
\* for, from the first on, with a prompt whose response has shown that the
\* backend computed it: "in-flight, failed and queued background requests must
\* not create speculative cache hits" (response_usage_evidence.go:250-252).
NoSpeculativeHits ==
    \A r \in Requests : matched[r] > 0 =>
        \E q \in proven : IsPrefix(SubSeq(Prompt(r), 1, matched[r]), Prompt(q))

\* In a history, one block was touched after every touch of another; and a list has
\* the blocks that were touched last, in the order of that.
TouchedAfter(touches, block, other) ==
    \E i \in DOMAIN touches :
        touches[i] = block /\ \A j \in DOMAIN touches : touches[j] = other => j < i

Recent(blocks, touches) ==
    /\ ToSet(blocks) \subseteq ToSet(touches)
    /\ \A i, j \in DOMAIN blocks : i < j => TouchedAfter(touches, blocks[i], blocks[j])
    /\ \A i \in DOMAIN blocks, other \in ToSet(touches) \ ToSet(blocks) :
          TouchedAfter(touches, blocks[i], other)

\* The mirror holds the blocks used last, in the order of their use, no more of
\* them than had room the last time, and all of them or no fewer than had room
\* once, however its size follows the learned ratio between the lock of Learn and
\* the lock of Admitted.
MirrorRecent ==
    /\ Recent(lru, uses)
    /\ Len(lru) <= IF rooms = <<>> THEN 0 ELSE rooms[Len(rooms)]
    /\ ToSet(uses) \subseteq ToSet(lru) \/ \E i \in DOMAIN rooms : Len(lru) >= rooms[i]
=============================================================================
