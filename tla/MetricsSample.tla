--------------------------- MODULE MetricsSample ---------------------------
(***************************************************************************)
(* What one scrape of the backend's metrics says                           *)
(* (src/internal/infra/prometheus): the index of the lines by metric       *)
(* (metric_index.go), and the admission sample read from it (sample.go,    *)
(* sample_vllm.go, sample_sglang.go). What only the status reports, as the *)
(* size of the KV pool, is left out.                                       *)
(*                                                                         *)
(* A line declares the type of a metric, or gives a sample of it. A sample *)
(* has labels ("" for one that is absent), which may not parse, and a      *)
(* value, which may not parse; a value is an integer, of which Inexact     *)
(* stands for one too large to be exact (NaN is left out). A reading that  *)
(* may be absent or invalid is a set of at most one value.                 *)
(***************************************************************************)
EXTENDS Integers, Sequences, FiniteSets, FiniteSetsExt, SequencesExt

Inexact == 99

VLLMGauges   == {"vllm:num_requests_running", "vllm:num_requests_waiting"}
VLLMCounters == {"vllm:num_preemptions_total", "vllm:generation_tokens_total"}
VLLMIdentity   == VLLMGauges \cup VLLMCounters
VLLMSignatures == VLLMIdentity \cup {"vllm:cache_config_info", "vllm:kv_cache_usage_perc"}

StaticIdentity == {"sglang:max_total_num_tokens", "sglang:page_size", "sglang:num_pages"}
KVGauges       == {"sglang:kv_available_tokens", "sglang:kv_evictable_tokens", "sglang:kv_used_tokens"}
AdmissionIdentity ==
    StaticIdentity \cup KVGauges
    \cup {"sglang:num_running_reqs", "sglang:num_queue_reqs",
          "sglang:realtime_tokens_total", "sglang:num_retracted_requests_total"}
SGLangSignatures == AdmissionIdentity \cup {"sglang:num_retracted_reqs"}

Metrics == VLLMSignatures \cup SGLangSignatures \cup {"process_start_time_seconds"}

-----------------------------------------------------------------------------
(* The index.                                                              *)

NoLines == [samples |-> [metric \in Metrics |-> <<>>], types |-> [metric \in Metrics |-> "none"]]

RecordType(index, metric, type) ==
    [index EXCEPT !.types[metric] = IF @ \in {"none", type} THEN type ELSE "invalid"]

IndexLine(index, line) ==
    CASE line.metric \notin Metrics -> index
      [] line.metric \in Metrics /\ line.is = "type" -> RecordType(index, line.metric, line.type)
      [] line.metric \in Metrics /\ line.is = "sample" ->
            [index EXCEPT !.samples[line.metric] = Append(@, line.sample)]

SamplesOf(index, metric) == {index.samples[metric][i] : i \in DOMAIN index.samples[metric]}
HasSamples(index, metric) == SamplesOf(index, metric) # {}
Typed(index, metric, type) == index.types[metric] = type
Has(index, metric) == HasSamples(index, metric) \/ ~Typed(index, metric, "none")

AllReadable(index, metric) == \A s \in SamplesOf(index, metric) : s.labelsValid /\ s.valueValid

\* The sum over the children of a metric, and the largest of some of them; one
\* that cannot be read spoils them all.
SumOf(index, metric) ==
    LET samples == index.samples[metric]
        add(total, s) == IF Inexact \in {total, s.value} THEN Inexact ELSE total + s.value
    IN  IF samples # <<>> /\ AllReadable(index, metric)
        THEN {FoldLeft(add, 0, samples)} ELSE {}

MaximumOf(index, metric, included) ==
    IF included # {} /\ AllReadable(index, metric) THEN {Max({s.value : s \in included})} ELSE {}

\* exactNonNegativeMetricInt, ...Int64 and ...Uint64, of a metric of that type.
Exact(index, metric, type, values) ==
    IF Typed(index, metric, type) THEN {n \in values : n >= 0 /\ n # Inexact} ELSE {}

\* requiredUniqueLabel and uniqueLabelAcrossPresent.
LabelsOf(index, metrics, label) ==
    UNION {{s.labels[label] : s \in SamplesOf(index, metric)} : metric \in metrics}
LabelsReadable(index, metrics) ==
    \A metric \in metrics : \A s \in SamplesOf(index, metric) : s.labelsValid

RequiredUniqueLabel(index, metrics, label) ==
    LET values == LabelsOf(index, metrics, label)
    IN  IF /\ \A metric \in metrics : HasSamples(index, metric)
           /\ LabelsReadable(index, metrics) /\ Cardinality(values) = 1 /\ "" \notin values
        THEN values ELSE {}

UniqueLabelAcrossPresent(index, metrics, label, allowEmpty) ==
    LET values == LabelsOf(index, metrics, label)
    IN  IF /\ LabelsReadable(index, metrics) /\ Cardinality(values) = 1
           /\ allowEmpty \/ "" \notin values
        THEN values ELSE {}

-----------------------------------------------------------------------------
(* SGLang: one scheduler. Its totals are the children without a priority;  *)
(* the ranks of its tensor parallelism repeat them.                        *)

Total(index, metric) ==
    MaximumOf(index, metric, {s \in SamplesOf(index, metric) : s.labels.priority = ""})
DecodeTotal(labels)    == labels.mode = "decode" /\ labels.priority = ""
PrefillTotal(labels)   == labels.mode = "prefill_compute" /\ labels.priority = ""

\* A slip: two data-parallel replicas are taken for one.
SGLangModelOfAnyRank(index) == RequiredUniqueLabel(index, StaticIdentity, "model")

\* The model, if all the lines are of one model, one unified engine and one
\* data-parallel rank.
SGLangModel(index) ==
    LET model  == RequiredUniqueLabel(index, StaticIdentity, "model")
        engine == RequiredUniqueLabel(index, StaticIdentity, "engine")
    IN  IF /\ model = UniqueLabelAcrossPresent(index, AdmissionIdentity, "model", FALSE)
           /\ engine = {"unified"}
           /\ engine = UniqueLabelAcrossPresent(index, AdmissionIdentity, "engine", FALSE)
           /\ UniqueLabelAcrossPresent(index, AdmissionIdentity, "rank", TRUE) # {}
        THEN model ELSE {}

\* A family nobody has written to yet is an exact zero; one with children but
\* no total is not.
RequestGauge(index, metric) ==
    LET total == Total(index, metric)
    IN  IF total # {} THEN Exact(index, metric, "gauge", total)
        ELSE IF HasSamples(index, metric) \/ (Has(index, metric) /\ ~Typed(index, metric, "gauge"))
        THEN {} ELSE {0}

\* Running and waiting are materialized together, or the scrape is torn.
RequestGauges(index) ==
    LET present(metric) == Total(index, metric) # {}
        torn == present("sglang:num_running_reqs") # present("sglang:num_queue_reqs")
    IN  [running |-> IF torn THEN {} ELSE RequestGauge(index, "sglang:num_running_reqs"),
         waiting |-> IF torn THEN {} ELSE RequestGauge(index, "sglang:num_queue_reqs")]

Retractions(index) ==
    LET counter == "sglang:num_retracted_requests_total"
        legacy  == "sglang:num_retracted_reqs"
        total   == Total(index, counter)
        gauge   == Total(index, legacy)
    IN  CASE total # {} -> Exact(index, counter, "counter", total)
          [] total = {} /\ HasSamples(index, counter) -> {}
          [] ~HasSamples(index, counter) /\ Has(index, counter) ->
                IF Typed(index, counter, "counter") THEN {0} ELSE {}
          [] ~Has(index, counter) /\ gauge # {} ->
                Exact(index, legacy, "gauge", gauge) \cap {0}
          [] OTHER ->
                IF HasSamples(index, legacy) \/ (Has(index, legacy) /\ ~Typed(index, legacy, "gauge"))
                THEN {} ELSE {0}

\* hasMatchingSamples: the first that decides, in the order of the lines.
DecodeSeen(index) ==
    LET samples == index.samples["sglang:realtime_tokens_total"]
        decisive == {i \in DOMAIN samples : ~samples[i].labelsValid \/ samples[i].labels.mode = "decode"}
    IN  IF decisive = {} THEN "no"
        ELSE IF samples[Min(decisive)].labelsValid THEN "yes" ELSE "invalid"

SGLangGeneration(index) ==
    LET metric == "sglang:realtime_tokens_total"
        total  == MaximumOf(index, metric, {s \in SamplesOf(index, metric) : DecodeTotal(s.labels)})
    IN  IF total # {} THEN Exact(index, metric, "counter", total)
        ELSE IF DecodeSeen(index) # "no" THEN {}
        ELSE IF Has(index, metric) /\ ~Typed(index, metric, "counter") THEN {}
        ELSE {0}

PrefillCompute(index) ==
    LET metric == "sglang:realtime_tokens_total"
    IN  Exact(index, metric, "counter",
              MaximumOf(index, metric, {s \in SamplesOf(index, metric) : PrefillTotal(s.labels)}))

ParseSGLang(index) ==
    [kind |-> "sglang", model |-> SGLangModel(index),
     running |-> RequestGauges(index).running, waiting |-> RequestGauges(index).waiting,
     preemptions |-> Retractions(index), generation |-> SGLangGeneration(index),
     prefill |-> PrefillCompute(index), startTime |-> {}]

-----------------------------------------------------------------------------
(* vLLM: the children of a family are its engines, and add up.             *)

ParseVLLM(index) ==
    LET read(metric, type) == Exact(index, metric, type, SumOf(index, metric))
    IN  [kind |-> "vllm", model |-> RequiredUniqueLabel(index, VLLMIdentity, "model"),
         running |-> read("vllm:num_requests_running", "gauge"),
         waiting |-> read("vllm:num_requests_waiting", "gauge"),
         preemptions |-> read("vllm:num_preemptions_total", "counter"),
         generation |-> read("vllm:generation_tokens_total", "counter"),
         prefill |-> {}, startTime |-> {}]

NoSample == [kind |-> "", model |-> {}, running |-> {}, waiting |-> {}, preemptions |-> {},
             generation |-> {}, prefill |-> {}, startTime |-> {}]

\* applyRuntimeEpoch.
RuntimeStartTime(index) ==
    LET metric == "process_start_time_seconds"
    IN  {time \in MaximumOf(index, metric, SamplesOf(index, metric)) : time > 0}

\* A scrape cannot describe two serving frameworks.
ParseSample(index) ==
    LET vllm   == \E metric \in VLLMSignatures : Has(index, metric)
        sglang == \E metric \in SGLangSignatures : Has(index, metric)
        sample == IF vllm /\ ~sglang THEN ParseVLLM(index)
                  ELSE IF sglang /\ ~vllm THEN ParseSGLang(index)
                  ELSE NoSample
    IN  [sample EXCEPT !.startTime = RuntimeStartTime(index)]

\* predictiveBackendStartupFromSample and admissionBackendObserver.observation:
\* what startup and the observer take a sample for.
Usable(sample) ==
    /\ sample.kind # "" /\ sample.model # {}
    /\ sample.running # {} /\ sample.waiting # {}
    /\ sample.preemptions # {} /\ sample.generation # {}
=============================================================================
