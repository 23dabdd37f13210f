--------------------------- MODULE ResponseUsage ---------------------------
(***************************************************************************)
(* How many tokens a response says it used                                 *)
(* (src/internal/infra/openai/completion_usage.go): the observer of a      *)
(* streamed body, a line of server-sent events after another, and of a     *)
(* JSON body, chunk after chunk; and what one document stands for.         *)
(*                                                                         *)
(* The bytes of a stream are taken in pieces: "newline", "data:" and ":"   *)
(* as a line may begin, "done" for [DONE], "x" for any other, and the two  *)
(* halves of a document d, [half |-> 1, doc |-> d] and 2; a first half     *)
(* holds the word "usage" if the document does. A document says of its     *)
(* usage whether it is "absent", "null", without a count ("uncounted"),    *)
(* "negative" or "counted"; of its choices (completions) whether they are  *)
(* absent, empty or filled; of its metrics whether they are durations; and *)
(* (responses) whether its type is that of the last event.                 *)
(***************************************************************************)
EXTENDS Integers, Sequences

CONSTANTS
    MaximumEvent,   \* maximumCompletionUsageSSEBytes, in pieces
    MaximumBody     \* maximumCompletionUsageJSONBytes, in chunks

Outcomes == {"available", "malformed", "unavailable"}

-----------------------------------------------------------------------------
(* One document.                                                           *)

Counted(usage) == IF usage = "counted" THEN "available" ELSE "malformed"

DecodeCompletions(doc, streaming) ==
    CASE ~doc.json                                       -> "malformed"
      [] doc.json /\ doc.usage \in {"absent", "null"}    -> "unavailable"
      [] doc.json /\ doc.usage = "uncounted"             -> "malformed"
      [] doc.json /\ doc.usage \in {"counted", "negative"} ->
            CASE doc.choices = "absent"                    -> "malformed"
              [] doc.choices = "filled" /\ streaming       -> "unavailable"
              [] doc.choices = "empty"  /\ ~streaming      -> "malformed"
              [] OTHER -> IF doc.metrics THEN Counted(doc.usage) ELSE "malformed"

DecodeResponses(doc, streaming) ==
    CASE ~doc.json                                      -> "malformed"
      [] doc.json /\ streaming /\ ~doc.completed        -> "unavailable"
      [] doc.json /\ (streaming => doc.completed) /\ doc.usage \in {"absent", "null"} -> "unavailable"
      [] OTHER                                          -> Counted(doc.usage)

DecodeDocument(doc, streaming) ==
    IF doc.format = "responses" THEN DecodeResponses(doc, streaming) ELSE DecodeCompletions(doc, streaming)

-----------------------------------------------------------------------------
(* A streamed body.                                                        *)

\* The data of an event is its pieces and the number of its lines, between which
\* the code puts newlines.
NothingObserved == [line |-> <<>>, data |-> <<>>, lines |-> 0, limited |-> FALSE,
                    candidate |-> FALSE, invalid |-> FALSE, terminal |-> FALSE]

IsHalf(piece) == piece.is = "half"

Mentions(data) == \E i \in DOMAIN data : IsHalf(data[i]) /\ data[i].half = 1 /\ data[i].doc.usage # "absent"
IsDone(data) == Len(data) = 1 /\ data[1].is = "done"

Whole(data) ==
    /\ Len(data) = 2 /\ IsHalf(data[1]) /\ IsHalf(data[2])
    /\ data[1].half = 1 /\ data[2].half = 2 /\ data[1].doc = data[2].doc

EventOutcome(data) ==
    IF ~Mentions(data) THEN "unavailable"
    ELSE IF Whole(data) THEN DecodeDocument(data[1].doc, TRUE) ELSE "malformed"

\* finishSSEEvent: a second usage, or one that cannot be read, spoils the first.
FinishEvent(o) ==
    LET outcome == IF o.limited THEN "malformed"
                   ELSE IF o.lines = 0 THEN "unavailable" ELSE EventOutcome(o.data)
    IN  [o EXCEPT !.candidate = @ \/ outcome = "available",
                  !.invalid   = @ \/ outcome = "malformed" \/ (outcome = "available" /\ o.candidate),
                  !.terminal  = ~o.limited /\ o.lines > 0 /\ IsDone(o.data),
                  !.data = <<>>, !.lines = 0, !.limited = FALSE]

\* processSSELine: only a data field of an event within the limit counts.
ProcessLine(o) ==
    LET line == o.line
        data == Tail(line)
        next == [o EXCEPT !.line = <<>>]
    IN  CASE line = <<>> -> FinishEvent(next)
          [] line # <<>> /\ (o.limited \/ line[1].is # "data:") -> next
          [] line # <<>> /\ ~o.limited /\ line[1].is = "data:" ->
                IF Len(o.data) + o.lines + Len(data) > MaximumEvent
                THEN [next EXCEPT !.data = <<>>, !.limited = TRUE]
                ELSE [next EXCEPT !.data = @ \o data, !.lines = @ + 1]

Observe(o, piece) ==
    IF o.terminal THEN o
    ELSE IF piece.is = "newline" THEN ProcessLine(o)
    ELSE IF Len(o.line) < MaximumEvent THEN [o EXCEPT !.line = Append(@, piece)]
    ELSE [o EXCEPT !.limited = TRUE]

\* A slip: the last event counts only if an empty line ends it.
FinishEnded(o) ==
    IF o.invalid THEN "malformed" ELSE IF o.candidate THEN "available" ELSE "unavailable"

\* Finish, at the end of the body: the last line and the last event need no
\* newline. Its outcome is the one evidence of the response.
Finish(o) ==
    LET lined == IF ~o.terminal /\ o.line # <<>> THEN ProcessLine(o) ELSE o
        ended == IF ~lined.terminal /\ (lined.lines > 0 \/ lined.limited) THEN FinishEvent(lined) ELSE lined
    IN  IF ended.invalid THEN "malformed"
        ELSE IF ended.candidate THEN "available" ELSE "unavailable"

-----------------------------------------------------------------------------
(* A JSON body: a document in chunks, of which the first may be too many.  *)

NothingBuffered == [size |-> 0, limited |-> FALSE]

ObserveJSON(o, chunks) ==
    IF o.limited \/ o.size + chunks > MaximumBody
    THEN [size |-> 0, limited |-> TRUE] ELSE [o EXCEPT !.size = @ + chunks]

FinishJSON(o, doc) ==
    IF o.limited THEN "malformed"
    ELSE IF o.size = 0 THEN "unavailable" ELSE DecodeDocument(doc, FALSE)
=============================================================================
