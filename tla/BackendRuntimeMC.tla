-------------------------- MODULE BackendRuntimeMC --------------------------
(***************************************************************************)
(* Backends that may answer at one URL: two SGLang engines of two models,  *)
(* of which one states its limit badly; a vLLM engine of the same model;   *)
(* and one whose metrics are not coherent yet.                             *)
(***************************************************************************)
EXTENDS BackendRuntime

Number(key, n)  == [key |-> key, type |-> "number", n |-> n]
Boolean(key, b) == [key |-> key, type |-> "boolean", b |-> b]

Document ==
    <<Number("max_running_requests", 4),
      [key |-> "internal_states", type |-> "states", states |-> <<<<3>>, <<2>>>>],
      Number("chunked_prefill_size", 2),
      Boolean("enable_priority_scheduling", TRUE), Boolean("schedule_low_priority_values_first", FALSE)>>

Engine(kind, model, coherent, document) ==
    [kind |-> kind, model |-> model, coherent |-> coherent, document |-> document]

SomeBackends ==
    {Engine("sglang", "a", TRUE, Document), Engine("sglang", "b", TRUE, Append(Document, Number("max_running_requests", 3))),
     Engine("vllm", "a", TRUE, <<>>), Engine("sglang", "a", FALSE, Document)}
=============================================================================
