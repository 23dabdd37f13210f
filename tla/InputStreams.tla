--------------------------- MODULE InputStreams ---------------------------
(***************************************************************************)
(* What the admission path reads from outside comes in pieces, in an order *)
(* PIG does not choose: the observations of a TPS window, the lines of a   *)
(* scrape, the members of a server_info document, the bytes and members of *)
(* a request body, the bytes of a response. Each reader below keeps a      *)
(* state of what it has read; a behaviour feeds one of them, and `fed`     *)
(* remembers the input, so that what the reader knows can be compared with *)
(* what the input as a whole says.                                         *)
(*                                                                         *)
(* The readers are the modules TPSWindow, MetricsSample, ServerInfo,       *)
(* RequestBody, RequestShape and ResponseUsage.                            *)
(***************************************************************************)
EXTENDS TPSWindow, Sequences, SequencesExt

CONSTANTS
    Amounts,        \* what an interval may hold: tokens, running, forwarded, response
    Intervals,      \* ticks between two observations
    ClockSteps,     \* steps of the wall clock between two observations
    Scrapes,        \* the lines a scrape may begin with,
    Lines,          \* and those it may go on with
    Members,        \* members of a server_info document
    MaximumBound,
    MaximumDepth,
    Letters,        \* the bytes that the strings of a request body hold
    RootMembers,    \* members of a request body
    MaxInt64,
    Chunks,         \* chunks of a streamed response, each a sequence of pieces
    Sizes,          \* sizes of the chunks of a JSON one,
    Documents,      \* and what it may hold
    MaximumEvent, MaximumBody,
    Longest         \* bound of the model: the length of an input, by reader

\* A line declares a type, which has a name ("none" stands for no declaration), or
\* gives a value.
IsLine(line) ==
    /\ line.is \in {"type", "sample"}
    /\ line.is = "type" => line.type # "none"
    /\ line.is = "sample" => line.sample.value \in Int

\* What a member's value holds is of the JSON type that it is said to have.
ASSUME InputAssumption ==
    /\ Intervals \subseteq Nat /\ ClockSteps \subseteq Int
    /\ \A amount \in Amounts : {amount.tokens, amount.running, amount.forwarded, amount.response} \subseteq Nat
    /\ \A scrape \in Scrapes : scrape \in Seq(ToSet(scrape)) /\ \A line \in ToSet(scrape) : IsLine(line)
    /\ \A line \in Lines : IsLine(line)
    /\ MaximumBound \in Nat /\ MaxInt64 \in Nat
    /\ MaximumEvent \in Nat \ {0} /\ MaximumBody \in Nat /\ Sizes \subseteq Nat
    /\ \A chunk \in Chunks : chunk \in Seq(ToSet(chunk))
    /\ \A member \in Members :
          /\ member.type = "number" => member.n \in Int
          /\ member.type = "boolean" => member.b \in BOOLEAN
          /\ member.type = "states" => member.states \in Seq(Seq(Nat))
    /\ \A member \in RootMembers :
          /\ member.value.is = "integer" => member.value.n \in Int
          /\ member.value.is = "array" => member.value.elements \in Seq({"string", "token", "tokens", "other"})

VARIABLES reader, fed, value
vars == <<reader, fed, value>>

Metrics == INSTANCE MetricsSample
Info    == INSTANCE ServerInfo
Body    == INSTANCE RequestBody
Shape   == INSTANCE RequestShape
Usage   == INSTANCE ResponseUsage

\* The controller before it has compared two observations.
NoObservation == [ok |-> TRUE, window |-> NewWindow, at |-> [wall |-> 0, mono |-> 0], running |-> 0]

\* The loop of newMetricIndex over the lines of a scrape.
Parse(lines) ==
    LET index[n \in 0..Len(lines)] ==
            IF n = 0 THEN Metrics!NoLines ELSE Metrics!IndexLine(index[n - 1], lines[n])
    IN  index[Len(lines)]

\* The loop of Observe over a chunk of a stream.
ObserveChunk(o, chunk) ==
    LET observed[n \in 0..Len(chunk)] ==
            IF n = 0 THEN o ELSE Usage!Observe(observed[n - 1], chunk[n])
    IN  observed[Len(chunk)]

Init ==
    \/ reader = "window"      /\ fed = <<>> /\ value = NoObservation
    \/ reader = "scrape"      /\ fed \in Scrapes /\ value = Parse(fed)
    \/ reader = "server_info" /\ fed = <<>> /\ value = Info!NothingDecoded
    \/ reader = "body"        /\ fed = <<>>
                              /\ value = [scan |-> Body!NotScanned, rewritten |-> Body!NotRewritten]
    \/ reader \in Shape!Endpoints /\ fed = <<>> /\ value = Shape!NewShape
    \/ reader = "stream"      /\ fed = <<>> /\ value = Usage!NothingObserved
    \/ reader = "json"        /\ fed = <<>> /\ value = Usage!NothingBuffered

Feed(input) ==
    /\ Len(fed) < Longest[reader]
    /\ fed' = Append(fed, input)
    /\ UNCHANGED reader

\* The sample between the last observation and one an interval later.
Sample(amount, interval, step) ==
    [start |-> value.at, end |-> [wall |-> value.at.wall + interval + step, mono |-> value.at.mono + interval],
     tokens |-> amount.tokens, previousRunning |-> value.running, running |-> amount.running,
     forwarded |-> amount.forwarded, response |-> amount.response]

\* PublishObservation: what it does to the window. A reset of the runtime, whose
\* counters tell no tokens, leaves nothing; a window that fails closes the
\* controller.
ObserveInterval(amount, interval, step, reset) ==
    LET sample   == Sample(amount, interval, step)
        observed == Observe(value.window, sample)
    IN  /\ reader = "window" /\ value.ok
        /\ reset => amount.tokens = 0
        /\ sample.end.wall >= 0
        /\ Feed([sample |-> sample, reset |-> reset])
        /\ value' = [ok      |-> reset \/ observed.ok,
                     window  |-> IF reset THEN NewWindow ELSE observed.window,
                     at      |-> sample.end,
                     running |-> amount.running]

ReadLine(line)     == reader = "scrape" /\ Feed(line) /\ value' = Metrics!IndexLine(value, line)
ReadMember(member) == reader = "server_info" /\ Feed(member) /\ value' = Info!Decode(value, member)

\* A body that is neither an object nor the beginning of one is not read on.
ReadByte(byte) ==
    /\ reader = "body" /\ Feed(byte)
    /\ value.scan.expect \notin {"invalid", "shape_scan_limit"}
    /\ value.scan.string # "out" => byte \in Letters
    /\ value' = [scan |-> Body!Scan(value.scan, byte), rewritten |-> Body!Transform(value.rewritten, byte)]

ReadRootMember(member) ==
    /\ reader \in Shape!Endpoints /\ Feed(member)
    /\ value' = Shape!ReadMember(value, reader, member)

\* A response has one format, that of its endpoint.
Formats(text) == {text[i].doc.format : i \in {j \in DOMAIN text : Usage!IsHalf(text[j])}}

ReadChunk(chunk) ==
    /\ reader = "stream"
    /\ Len(fed \o chunk) <= Longest[reader]
    /\ Cardinality(Formats(fed \o chunk)) <= 1
    /\ fed' = fed \o chunk
    /\ value' = ObserveChunk(value, chunk)
    /\ UNCHANGED reader

BufferChunk(size) == reader = "json" /\ Feed(size) /\ value' = Usage!ObserveJSON(value, size)

Next ==
    \/ \E amount \in Amounts, interval \in Intervals, step \in ClockSteps, reset \in BOOLEAN :
          ObserveInterval(amount, interval, step, reset)
    \/ \E line \in Lines : ReadLine(line)
    \/ \E member \in Members : ReadMember(member)
    \/ \E byte \in Body!Bytes : ReadByte(byte)
    \/ \E member \in RootMembers : ReadRootMember(member)
    \/ \E chunk \in Chunks : ReadChunk(chunk)
    \/ \E size \in Sizes : BufferChunk(size)

Spec == Init /\ [][Next]_vars

-----------------------------------------------------------------------------
(* The TPS window.                                                         *)

\* The observations that count: since the last reset of the runtime.
Counted == {i \in DOMAIN fed : Qualifies(fed[i].sample) /\ \A j \in i..Len(fed) : ~fed[j].reset}

\* While the clocks agree: the ticks of an interval that were in the window
\* when it ended and whose second has not left it since.
StillInWindow(tick, now) == (Second(tick) + 1) * TicksPerSecond > now - WindowTicks
TicksAt(sample, now) ==
    {tick \in Max({sample.start.wall, sample.end.wall - WindowTicks})..(sample.end.wall - 1) :
        StillInWindow(tick, now)}

\* What a whole interval still is in the window, by those ticks. Its sample goes
\* with its last tick.
Held(sample, now) ==
    LET ticks    == Cardinality(TicksAt(sample, now))
        unit     == Scale \div Interval(sample)
        sampled  == IF StillInWindow(sample.end.wall - 1, now) THEN 1 ELSE 0
        reliable == SequenceTicks(sample) > 0
    IN  [tokens  |-> sample.tokens * ticks * unit,
         active  |-> ticks * Scale,
         samples |-> sampled,
         sequenceTokens  |-> IF reliable THEN sample.tokens * ticks * unit ELSE 0,
         sequenceTicks   |-> SequenceTicks(sample) * ticks * unit,
         sequenceSamples |-> IF reliable THEN sampled ELSE 0]

HeldOf(now, field) ==
    [i \in DOMAIN fed |-> IF i \in Counted THEN Held(fed[i].sample, now)[field] ELSE 0]

\* "false is reserved for an internal numeric bound failure that requires the
\* Controller to fail closed" (tps_window.go:170-172): an observation that
\* PublishObservation accepts never makes the window fail.
WindowNeverFails == reader = "window" => value.ok

\* What a snapshot says at any moment after the last observation is what the
\* intervals it still covers hold: no bucket of the ring is counted twice, lost
\* at the edge of the window, or kept when its slot is taken by a later second
\* (tpsWindow.observe, expire, snapshot).
WindowExact ==
    /\ WindowNeverFails
    /\ reader = "window" => \A now \in value.at.wall..(value.at.wall + WindowTicks + TicksPerSecond) :
        Snapshot(value.window, now).total =
            [field \in DOMAIN Nothing |-> SumTo(HeldOf(now, field), Len(fed))]

-----------------------------------------------------------------------------
(* A scrape.                                                               *)

Sampled(metrics)  == {fed[i].sample : i \in {j \in DOMAIN fed : fed[j].is = "sample" /\ fed[j].metric \in metrics}}
Declared(metric)  == {fed[i].type : i \in {j \in DOMAIN fed : fed[j].is = "type" /\ fed[j].metric = metric}}
Mentioned         == {fed[i].metric : i \in DOMAIN fed}

\* A scrape is used only if all of it is of one backend: one framework, one
\* model, one data-parallel rank, and no metric declared in two ways, whatever
\* lines come later and in whatever order (ParseSample, recordType).
OneBackend ==
    reader = "scrape" /\ Metrics!Usable(Metrics!ParseSample(value)) =>
        LET own == IF Metrics!ParseSample(value).kind = "vllm"
                   THEN Metrics!VLLMIdentity ELSE Metrics!AdmissionIdentity
        IN  /\ \/ Mentioned \cap Metrics!VLLMSignatures = {}
               \/ Mentioned \cap Metrics!SGLangSignatures = {}
            /\ {s.labels.model : s \in Sampled(own)} = Metrics!ParseSample(value).model
            /\ own = Metrics!AdmissionIdentity => Cardinality({s.labels.rank : s \in Sampled(own)}) = 1
            /\ \A metric \in {"sglang:num_running_reqs", "sglang:num_queue_reqs"} \cup Metrics!VLLMIdentity :
                  Sampled({metric}) # {} => Cardinality(Declared(metric)) = 1

\* A usable number of running or waiting requests is the scheduler's own total,
\* and zero without a line that says so only while the family is untouched:
\* children of one priority are never taken for the whole
\* (parseSGLangRequestGauge).
TotalsOnly ==
    reader = "scrape" /\ Metrics!Usable(Metrics!ParseSample(value)) /\ Metrics!ParseSample(value).kind = "sglang" =>
        LET sample == Metrics!ParseSample(value)
            said(metric) == {s.value : s \in {t \in Sampled({metric}) : t.labels.priority = ""}}
            total(metric) == IF Sampled({metric}) = {} THEN {0} ELSE {Max({0} \cup said(metric))}
        IN  /\ sample.running = total("sglang:num_running_reqs")
            /\ sample.waiting = total("sglang:num_queue_reqs")
            /\ \A metric \in {"sglang:num_running_reqs", "sglang:num_queue_reqs"} :
                  Sampled({metric}) # {} => said(metric) # {}

\* What a scrape is taken to say is what all of it says of one backend: both of
\* the above (ParseSample).
SampleExact == OneBackend /\ TotalsOnly

-----------------------------------------------------------------------------
(* A server_info document.                                                 *)

Said(key) == {fed[i] : i \in {j \in DOMAIN fed : fed[j].key = key}}

\* Whichever of two members of a key a reader of the document takes, the limit
\* is at most the configured maximum and every pool an engine states, and the
\* backend orders its queue by priority only if nothing says otherwise
\* (decodeSGLangServerInfo).
LimitHolds ==
    reader = "server_info" /\ Info!DecodedOK(value) =>
        LET limit == Info!RunningLimit(value)
        IN  /\ \A member \in Said("max_running_requests") : limit <= member.n
            /\ \A member \in Said("internal_states") : member.type = "states" =>
                  /\ \A pool \in Info!Pools(member.states) : limit <= pool
                  /\ Info!Pools(member.states) = {} \/ \A i \in DOMAIN member.states : member.states[i] # <<>>
            /\ Info!TierScheduling(value) =>
                  /\ \A member \in Said("enable_priority_scheduling") : member.b
                  /\ \A member \in Said("schedule_low_priority_values_first") : ~member.b

-----------------------------------------------------------------------------
(* The members of a request body. What its bytes say is in BodyGrammar.    *)

Values(key) == {fed[i].value : i \in {j \in DOMAIN fed : fed[j].key = key}}
Times(key)  == Cardinality({i \in DOMAIN fed : fed[i].key = key})

AskedFor(key, endpoints) ==
    IF reader \notin endpoints \/ Values(key) = {} THEN {1}
    ELSE {IF v.is = "integer" THEN v.n ELSE IF v.is = "null" /\ key = "best_of" THEN 1 ELSE 0 : v \in Values(key)}

PromptsOf(v) ==
    IF v.is = "string" THEN 1
    ELSE IF v.is # "array" THEN 0
    ELSE IF v.elements = <<>> \/ \A i \in DOMAIN v.elements : v.elements[i] = "token" THEN 1
    ELSE IF \/ \A i \in DOMAIN v.elements : v.elements[i] = "string"
            \/ \A i \in DOMAIN v.elements : v.elements[i] = "tokens" THEN Len(v.elements)
    ELSE 0

AskedPrompts ==
    IF reader # "completions" \/ Times("prompt") = 0 THEN {1}
    ELSE IF Times("prompt") > 1 THEN {0} ELSE {PromptsOf(v) : v \in Values("prompt")}

NAsked      == AskedFor("n", {"chat", "completions"})
BestOfAsked == AskedFor("best_of", {"completions"})

\* Of each prompt, as many sequences as are compared, and at least those returned.
Asks(prompts, n, bestOf) == prompts * Max({n, bestOf})
SequencesAsked == {Asks(p, n, b) : p \in AskedPrompts, n \in NAsked, b \in BestOfAsked}

\* Whichever of repeated members a reader takes, it reads the same, and what it
\* reads can be asked for.
Unambiguous ==
    /\ Cardinality(NAsked) = 1 /\ Cardinality(BestOfAsked) = 1
    /\ reader = "completions" => Cardinality({v.is = "null" : v \in Values("best_of")}) <= 1
    /\ \A asks \in NAsked \cup BestOfAsked \cup AskedPrompts : asks >= 1
    /\ SequencesAsked \subseteq 1..MaxInt64

SaidOfStream == {v.is : v \in Values("stream")}

\* A request is charged what every reader of its body takes it to ask for, and
\* refused if two readers could differ: the number of sequences is the product
\* for any choice among repeated members, whether it streams is known only if
\* they agree (updatePositiveFanout, updateOptionalPositiveFanout).
ShapeExact ==
    reader \in Shape!Endpoints =>
        /\ {Shape!DecodeSequences(value, reader)} = IF Unambiguous THEN SequencesAsked ELSE {0}
        /\ value.streamKnown <=> SaidOfStream \in {{"true"}, {"false"}}
        /\ value.streaming /\ value.streamKnown => SaidOfStream = {"true"}

-----------------------------------------------------------------------------
(* A response.                                                             *)

\* A line ends with a newline, the first begins with the text.
Break(text, k) == k = 0 \/ (k \in DOMAIN text /\ text[k].is = "newline")
Blank(text, k) == Break(text, k) /\ Break(text, k + 1)
OnLine(text, i, k) == Break(text, i) /\ i < k /\ \A j \in (i + 1)..k : ~Break(text, j)

\* An event begins with the text or after an empty line, and ends before the next.
EventStarts(text) ==
    {s \in 0..(Len(text) - 1) : Break(text, s) /\ ~Break(text, s + 1) /\ (s = 0 \/ Blank(text, s - 1))}
EventOf(text, start) ==
    {k \in (start + 1)..Len(text) : \A j \in start..(k - 1) : ~Blank(text, j)}

\* Its data is what its data fields hold, one after another.
DataLines(text, start) ==
    {k \in EventOf(text, start) : Break(text, k - 1) /\ text[k].is = "data:"}
DataPieces(text, start) ==
    LET fields == DataLines(text, start)
    IN  {k \in EventOf(text, start) : \E i \in fields : i < k /\ OnLine(text, i - 1, k)}

Picked(text, places) ==
    LET picked[k \in 0..Len(text)] ==
            IF k = 0 THEN <<>>
            ELSE IF k \in places THEN Append(picked[k - 1], text[k]) ELSE picked[k - 1]
    IN  picked[Len(text)]
DataOf(text, start) == LET places == DataPieces(text, start) IN Picked(text, places)

\* A line, or its data, that an observer does not hold.
Overlong(text, start) ==
    \E k \in EventOf(text, start) : \E i \in start..k : OnLine(text, i, k) /\ k - i > MaximumEvent
Overflows(text, start) ==
    /\ DataLines(text, start) # {}
    /\ Len(DataOf(text, start)) + Cardinality(DataLines(text, start)) - 1 > MaximumEvent
TooLong(text, start) == Overlong(text, start) \/ Overflows(text, start)

Terminal(text, start) == ~TooLong(text, start) /\ Usage!IsDone(DataOf(text, start))
Outcome(text, start)  == IF TooLong(text, start) THEN "malformed" ELSE Usage!EventOutcome(DataOf(text, start))

\* The events that count: those before [DONE].
Before(text) ==
    {start \in EventStarts(text) :
        \A other \in EventStarts(text) : Terminal(text, other) => start < other}

\* The outcome of a response is what its whole text says, wherever it was split
\* and whether or not it ended with a newline: available for exactly one usage
\* that can be read before [DONE], and nothing an earlier event or a later byte
\* does hides one that cannot (Observe, processSSELine, finishSSEEvent, Finish).
UsageExact ==
    /\ reader = "stream" =>
        LET before == Before(fed)
            usages == {start \in before : Outcome(fed, start) = "available"}
            broken == {start \in before : Outcome(fed, start) = "malformed"}
        IN  Usage!Finish(value) = IF broken # {} \/ (\E s, t \in usages : s # t) THEN "malformed"
                                  ELSE IF usages # {} THEN "available" ELSE "unavailable"
    /\ reader = "json" => \A doc \in Documents :
        LET size == SumTo(fed, Len(fed))
        IN  Usage!FinishJSON(value, doc) = IF size > MaximumBody THEN "malformed"
                                           ELSE IF size = 0 THEN "unavailable"
                                           ELSE Usage!DecodeDocument(doc, FALSE)
===========================================================================
