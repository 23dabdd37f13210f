--------------------------- MODULE RequestShape ---------------------------
(***************************************************************************)
(* How many sequences a request asks the backend to decode, and whether it *)
(* streams (src/internal/domain/request/tps_shape.go): what the root       *)
(* object of its body says, member after member. A client may repeat a     *)
(* member, and PIG cannot know which one the backend will take.            *)
(*                                                                         *)
(* A member has a key and a value: an "integer" n (also one in quotes),    *)
(* "null", "true", "false", "string", an array of prompt elements, or      *)
(* "other". The kind of an element is "string", "token", "tokens" or       *)
(* "other".                                                                *)
(***************************************************************************)
EXTENDS Integers, Sequences, FiniteSets, FiniteSetsExt

CONSTANT MaxInt64

Endpoints == {"chat", "completions", "responses"}

UsesDecodeFanout(endpoint) == endpoint \in {"chat", "completions"}

Unread == [seen |-> FALSE, null |-> FALSE, value |-> 1]

NewShape == [prompts |-> 1, supported |-> TRUE, promptSeen |-> FALSE,
             n |-> Unread, bestOf |-> Unread,
             streamPresent |-> FALSE, streamKnown |-> FALSE, streaming |-> FALSE]

Unsupported(shape) == [shape EXCEPT !.supported = FALSE]

-----------------------------------------------------------------------------
(* One member.                                                             *)

PositiveInteger(value) == value.is = "integer" /\ value.n \in 1..MaxInt64

\* updatePositiveFanout: a repeated member must say the same.
ReadN(shape, value) ==
    IF PositiveInteger(value) /\ (shape.n.seen => shape.n.value = value.n)
    THEN [shape EXCEPT !.n = [@ EXCEPT !.seen = TRUE, !.value = value.n]]
    ELSE Unsupported(shape)

\* A slip: null leaves an earlier value in force.
ReadBestOfPassingNull(shape, value) ==
    IF value.is = "null" THEN shape
    ELSE IF PositiveInteger(value) /\ (shape.bestOf.seen => shape.bestOf.value = value.n)
    THEN [shape EXCEPT !.bestOf = [@ EXCEPT !.seen = TRUE, !.value = value.n]]
    ELSE Unsupported(shape)

\* updateOptionalPositiveFanout: null asks for one, and agrees only with null.
ReadBestOf(shape, value) ==
    IF value.is = "null"
    THEN IF shape.bestOf.seen /\ ~shape.bestOf.null THEN Unsupported(shape)
         ELSE [shape EXCEPT !.bestOf = [seen |-> TRUE, null |-> TRUE, value |-> 1]]
    ELSE IF /\ ~shape.bestOf.null /\ PositiveInteger(value)
            /\ shape.bestOf.seen => shape.bestOf.value = value.n
    THEN [shape EXCEPT !.bestOf = [@ EXCEPT !.seen = TRUE, !.value = value.n]]
    ELSE Unsupported(shape)

\* parseCompletionPrompt: how many prompts a value is, in a set; nothing for a
\* value that is not supported. An array of tokens is one prompt.
PromptCount(value) ==
    LET kinds == {value.elements[i] : i \in DOMAIN value.elements}
    IN  IF value.is = "string" THEN {1}
        ELSE IF value.is # "array" \/ Cardinality(kinds) > 1 \/ "other" \in kinds THEN {}
        ELSE IF kinds \subseteq {"token"} THEN {1}
        ELSE {Len(value.elements)}

ReadPrompt(shape, value) ==
    [shape EXCEPT !.promptSeen = TRUE,
                  !.supported = @ /\ ~shape.promptSeen /\ PromptCount(value) # {},
                  !.prompts = IF PromptCount(value) = {} THEN @
                              ELSE CHOOSE count \in PromptCount(value) : TRUE]

\* Unlike a fan-out, a stream that is said twice differently only stays unknown.
ReadStream(shape, value) ==
    LET valid == value.is \in {"true", "false"}
        on    == value.is = "true"
    IN  IF ~shape.streamPresent
        THEN [shape EXCEPT !.streamPresent = TRUE, !.streamKnown = valid, !.streaming = on]
        ELSE IF ~valid \/ ~shape.streamKnown \/ shape.streaming # on
        THEN [shape EXCEPT !.streamKnown = FALSE, !.streaming = FALSE]
        ELSE shape

ReadMember(shape, endpoint, member) ==
    CASE member.key = "prompt"  /\ endpoint = "completions"   -> ReadPrompt(shape, member.value)
      [] member.key = "n"       /\ UsesDecodeFanout(endpoint) -> ReadN(shape, member.value)
      [] member.key = "best_of" /\ endpoint = "completions"   -> ReadBestOf(shape, member.value)
      [] member.key = "stream"                                -> ReadStream(shape, member.value)
      [] OTHER                                                -> shape

-----------------------------------------------------------------------------
(* The end of the object (finalizeTPSRequestShape).                        *)

Candidates(shape, endpoint) ==
    IF endpoint = "completions" THEN Max({shape.n.value, shape.bestOf.value}) ELSE shape.n.value

\* 0 for a shape that is not supported: the request is refused.
DecodeSequences(shape, endpoint) ==
    IF shape.supported /\ shape.prompts <= MaxInt64 \div Candidates(shape, endpoint)
    THEN shape.prompts * Candidates(shape, endpoint)
    ELSE 0
=============================================================================
