--------------------------- MODULE InputStreamsMC ---------------------------
(***************************************************************************)
(* Small inputs of each reader of InputStreams. What the bytes of a body   *)
(* say is in BodyGrammar.                                                  *)
(***************************************************************************)
EXTENDS BodyGrammar

Amount(tokens, running, forwarded, response) ==
    [tokens |-> tokens, running |-> running, forwarded |-> forwarded, response |-> response]

\* An idle interval, one of streaming responses, and one whose tokens no
\* running sequence explains.
SomeAmounts == {Amount(0, 1, 0, 0), Amount(2, 2, 1, 5), Amount(1, 0, 0, 0)}

\* A wall clock that is set forward or back by as much as the ring holds.
SetClock == {0, BucketCount * TicksPerSecond, -(BucketCount * TicksPerSecond)}

-----------------------------------------------------------------------------
(* Scrapes.                                                                *)

Type(metric, type) == [is |-> "type", metric |-> metric, type |-> type]

Labelled(metric, labels, number) ==
    [is |-> "sample", metric |-> metric,
     sample |-> [labels |-> labels, labelsValid |-> TRUE, valueValid |-> TRUE, value |-> number]]

Unread(line) == [line EXCEPT !.sample.labelsValid = FALSE]

NoLabels == [model |-> "", engine |-> "", priority |-> "", mode |-> "", rank |-> ""]
OfEngine == [NoLabels EXCEPT !.model = "a", !.engine = "unified"]
Decoding == [OfEngine EXCEPT !.mode = "decode"]

Engine(metric, number) == Labelled(metric, OfEngine, number)

StaticLines ==
    <<Engine("sglang:max_total_num_tokens", 8), Engine("sglang:page_size", 2), Engine("sglang:num_pages", 4)>>

\* An engine that has served requests, one that has not, and a vLLM engine.
SGLangScrape == StaticLines \o
    <<Type("sglang:num_running_reqs", "gauge"), Engine("sglang:num_running_reqs", 1),
      Type("sglang:num_queue_reqs", "gauge"), Engine("sglang:num_queue_reqs", 0),
      Type("sglang:realtime_tokens_total", "counter"), Labelled("sglang:realtime_tokens_total", Decoding, 3)>>

ColdScrape == StaticLines \o
    <<Type("sglang:num_running_reqs", "gauge"), Type("sglang:num_queue_reqs", "gauge"),
      Type("sglang:realtime_tokens_total", "counter"), Type("sglang:num_retracted_requests_total", "counter"),
      Type("process_start_time_seconds", "gauge"), Labelled("process_start_time_seconds", NoLabels, 7)>>

VLLMScrape ==
    <<Type("vllm:num_requests_running", "gauge"), Engine("vllm:num_requests_running", 1),
      Type("vllm:num_requests_waiting", "gauge"), Engine("vllm:num_requests_waiting", 0),
      Type("vllm:num_preemptions_total", "counter"), Engine("vllm:num_preemptions_total", 0),
      Type("vllm:generation_tokens_total", "counter"), Engine("vllm:generation_tokens_total", 5),
      Labelled("process_start_time_seconds", NoLabels, 7)>>

SomeScrapes == {SGLangScrape, ColdScrape, VLLMScrape}

SomeLines ==
    {Engine("sglang:num_running_reqs", 2), Engine("sglang:num_queue_reqs", 1),
     Engine("sglang:num_running_reqs", 99), Engine("sglang:num_queue_reqs", -1),
     Labelled("sglang:num_running_reqs", [OfEngine EXCEPT !.priority = "5"], 3),
     Labelled("sglang:num_queue_reqs", [OfEngine EXCEPT !.priority = "5"], 3),
     Labelled("sglang:num_running_reqs", [OfEngine EXCEPT !.rank = "1"], 2),
     Labelled("sglang:num_queue_reqs", [OfEngine EXCEPT !.model = "b"], 0),
     Labelled("sglang:page_size", [OfEngine EXCEPT !.engine = "prefill"], 2),
     Unread(Engine("sglang:num_queue_reqs", 1)),
     Type("sglang:num_running_reqs", "counter"), Type("sglang:num_queue_reqs", "gauge"),
     Engine("sglang:num_retracted_requests_total", 1), Engine("sglang:num_retracted_reqs", 1),
     Labelled("sglang:realtime_tokens_total", [Decoding EXCEPT !.priority = "5"], 2),
     Labelled("vllm:num_requests_running", [OfEngine EXCEPT !.engine = "1"], 2),
     Labelled("vllm:num_requests_waiting", [OfEngine EXCEPT !.model = "b"], 1),
     Type("vllm:num_preemptions_total", "gauge"), Type("vllm:cache_config_info", "gauge")}

-----------------------------------------------------------------------------
(* server_info documents.                                                  *)

Number(key, n)     == [key |-> key, type |-> "number", n |-> n]
Boolean(key, b)    == [key |-> key, type |-> "boolean", b |-> b]
OfType(key, type)  == [key |-> key, type |-> type]
States(states)     == [key |-> "internal_states", type |-> "states", states |-> states]

SomeMembers ==
    {Number("max_running_requests", 2), Number("max_running_requests", 4), Number("max_running_requests", 0),
     States(<<>>), States(<<<<3>>, <<1>>>>), States(<<<<3>>, <<>>>>), States(<<<<3, 3>>>>), States(<<<<0>>>>),
     OfType("internal_states", "null"), OfType("internal_states", "other"),
     Number("chunked_prefill_size", -1), Number("chunked_prefill_size", 3),
     OfType("chunked_prefill_size", "null"),
     Boolean("enable_priority_scheduling", TRUE), Boolean("enable_priority_scheduling", FALSE),
     Boolean("schedule_low_priority_values_first", FALSE), Boolean("schedule_low_priority_values_first", TRUE),
     OfType("tp_size", "other")}

-----------------------------------------------------------------------------
(* Request bodies.                                                         *)

Whole(n)     == [is |-> "integer", n |-> n]
Is(is)       == [is |-> is]
Array(kinds) == [is |-> "array", elements |-> kinds]
Root(key, values) == {[key |-> key, value |-> v] : v \in values}

SomeRootMembers ==
    Root("n", {Whole(-1), Whole(2), Whole(3), Is("null")})
    \cup Root("best_of", {Whole(0), Whole(1), Whole(3), Is("null"), Is("string")})
    \cup Root("prompt", {Is("string"), Array(<<>>), Array(<<"token", "token">>), Array(<<"string", "string">>),
                         Array(<<"tokens", "tokens", "tokens">>), Array(<<"string", "token">>), Is("null")})
    \cup Root("stream", {Is("true"), Is("false"), Is("null")})
    \cup Root("model", {Is("string")})

-----------------------------------------------------------------------------
(* Responses.                                                              *)

Completion(usage, choices) ==
    [format |-> "completions", json |-> TRUE, usage |-> usage, choices |-> choices, metrics |-> TRUE, completed |-> FALSE]
Responding(usage, completed) ==
    [format |-> "responses", json |-> TRUE, usage |-> usage, choices |-> "absent", metrics |-> TRUE, completed |-> completed]

LastOfStream  == Completion("counted", "empty")
WholeResponse == Completion("counted", "filled")

SomeDocuments ==
    {LastOfStream, WholeResponse, Completion("null", "filled"), Completion("absent", "filled"),
     Completion("uncounted", "empty"), Completion("negative", "filled"), Completion("counted", "absent"),
     [WholeResponse EXCEPT !.metrics = FALSE], [WholeResponse EXCEPT !.json = FALSE],
     Responding("counted", TRUE), Responding("counted", FALSE), Responding("uncounted", TRUE)}

Newline  == [is |-> "newline"]
Data     == [is |-> "data:"]
Half(half, doc) == [is |-> "half", half |-> half, doc |-> doc]
Line(doc) == <<Data, Half(1, doc), Half(2, doc), Newline>>

SomeChunks ==
    {<<Newline>>, <<Data, [is |-> "done"], Newline>>, <<Data, [is |-> "x"]>>, <<[is |-> ":"]>>,
     <<Data, Half(1, LastOfStream), Newline>>, <<Data, Half(2, LastOfStream)>>}
    \cup {Line(doc) : doc \in {LastOfStream, WholeResponse, Completion("uncounted", "empty"),
                               Responding("counted", TRUE), Responding("counted", FALSE)}}

LongestInput ==
    [window |-> 4, scrape |-> 12, server_info |-> 4, body |-> 10, chat |-> 3, completions |-> 4,
     responses |-> 2, stream |-> 10, json |-> 4]
=============================================================================
