---------------------------- MODULE ServerInfo ----------------------------
(***************************************************************************)
(* What startup reads from SGLang's /server_info                           *)
(* (src/internal/app/server/predictive_running_limit.go, 164-307): one     *)
(* JSON object, decoded member after member in the order of the document.  *)
(* A member that comes twice must say the same.                            *)
(*                                                                         *)
(* A member has a key and a value of a JSON type: a "number" n, a          *)
(* "boolean" b, "null", "other", or "states": the sequence of the engine's *)
(* states, each the sequence of the pool sizes it states (nothing, for a   *)
(* state that states none; 0 stands for every number out of range).        *)
(***************************************************************************)
EXTENDS Integers, Sequences, FiniteSets, FiniteSetsExt

CONSTANT MaximumBound   \* maximumPredictiveSequenceBound

Keys == {"max_running_requests", "internal_states", "chunked_prefill_size",
         "enable_priority_scheduling", "schedule_low_priority_values_first"}

\* decodeSGLangEffectiveRunningLimit: the smallest of the pools, 0 if no state
\* states one, and nothing if only some do.
Pools(states) == UNION {{states[i][j] : j \in DOMAIN states[i]} : i \in DOMAIN states}

EffectiveLimit(states) ==
    IF Pools(states) = {} THEN {0}
    ELSE IF /\ Pools(states) \subseteq 1..MaximumBound
            /\ \A i \in DOMAIN states : Cardinality({states[i][j] : j \in DOMAIN states[i]}) = 1
    THEN {Min(Pools(states))}
    ELSE {}

\* The value a member stands for, in a set; empty if it is an error.
Parsed(member) ==
    CASE member.key = "internal_states" ->
            IF member.type = "states" THEN EffectiveLimit(member.states)
            ELSE IF member.type = "null" THEN {0} ELSE {}
      [] member.key = "max_running_requests" ->
            IF member.type = "number" /\ member.n \in 1..MaximumBound THEN {member.n} ELSE {}
      [] member.key = "chunked_prefill_size" ->
            IF member.type = "null" THEN {0}
            ELSE IF member.type = "number" /\ member.n <= MaximumBound
            THEN {Max({0, member.n})} ELSE {}
      [] OTHER -> IF member.type = "boolean" THEN {member.b} ELSE {}

-----------------------------------------------------------------------------
(* decodeSGLangServerInfo. seen[key] holds the value that the members read *)
(* so far give to a key, if any did.                                       *)

NothingDecoded == [ok |-> TRUE, seen |-> [key \in Keys |-> {}]]

\* A slip: the later of two members wins.
DecodeLast(info, member) ==
    IF ~info.ok \/ member.key \notin Keys THEN info
    ELSE [info EXCEPT !.ok = Parsed(member) # {}, !.seen[member.key] = Parsed(member)]

Decode(info, member) ==
    IF ~info.ok \/ member.key \notin Keys THEN info
    ELSE IF Parsed(member) # {} /\ info.seen[member.key] \subseteq Parsed(member)
    THEN [info EXCEPT !.seen[member.key] = Parsed(member)]
    ELSE [info EXCEPT !.ok = FALSE]

\* The end of a whole object.
DecodedOK(info) == info.ok /\ info.seen["max_running_requests"] # {}

RunningLimit(info) ==
    Min(info.seen["max_running_requests"] \cup (info.seen["internal_states"] \ {0}))

ChunkedPrefillSize(info) == Max({0} \cup info.seen["chunked_prefill_size"])

TierScheduling(info) ==
    /\ TRUE  \in info.seen["enable_priority_scheduling"]
    /\ FALSE \in info.seen["schedule_low_priority_values_first"]
===========================================================================
