---------------------------- MODULE RequestBody ----------------------------
(***************************************************************************)
(* A JSON request body, byte after byte: the scan that tells a well-formed *)
(* object from another body (the grammar of tps_shape.go, which is a       *)
(* recursive descent; here its call stack is explicit), and the rewriting  *)
(* of scheduling_priority.go, which adds the tier's priority as the last   *)
(* member of the root object, once in a buffer and once on the fly.        *)
(*                                                                         *)
(* Bytes: the six that structure JSON, "quote", "backslash", "space", and  *)
(* "x" for any other value of one byte, which is also a letter of strings. *)
(***************************************************************************)
EXTENDS Integers, Sequences, FiniteSets, FiniteSetsExt, SequencesExt

CONSTANT MaximumDepth    \* maximumJSONShapeScanDepth

Bytes == {"{", "}", "[", "]", ",", ":", "quote", "backslash", "space", "x"}

-----------------------------------------------------------------------------
(* The scan. open is the stack of the containers entered, string where the *)
(* scan is in a string, and expect what must come next, outside of one.    *)

NotScanned == [open |-> <<>>, string |-> "out", expect |-> "root"]

Dead(scan)    == [scan EXCEPT !.expect = "invalid"]
Deep(scan)    == [scan EXCEPT !.expect = "shape_scan_limit"]
Expect(scan, what) == [scan EXCEPT !.expect = what]

AfterValue(scan) == Expect(scan, IF scan.open = <<>> THEN "end" ELSE "comma")

Enter(scan, container) ==
    IF Len(scan.open) >= MaximumDepth THEN Deep(scan)
    ELSE [scan EXCEPT !.open = Append(@, container),
                      !.expect = IF container = "{" THEN "first key" ELSE "first value"]

Leave(scan) == AfterValue([scan EXCEPT !.open = Front(@)])

ScanInString(scan, byte) ==
    CASE scan.string = "escape" ->
            IF byte \in {"quote", "backslash"} THEN [scan EXCEPT !.string = "in"] ELSE Dead(scan)
      [] scan.string = "in" /\ byte = "backslash" -> [scan EXCEPT !.string = "escape"]
      [] scan.string = "in" /\ byte = "quote" ->
            IF scan.expect = "key" THEN [scan EXCEPT !.string = "out", !.expect = "colon"]
            ELSE AfterValue([scan EXCEPT !.string = "out"])
      [] OTHER -> scan

ScanValue(scan, byte) ==
    CASE byte \in {"{", "["}  -> Enter(scan, byte)
      [] byte = "quote"       -> [scan EXCEPT !.string = "in", !.expect = "value"]
      [] byte = "x"           -> AfterValue(scan)
      [] OTHER                -> Dead(scan)

Closes(scan, byte) == scan.open # <<>> /\ <<Last(scan.open), byte>> \in {<<"{", "}">>, <<"[", "]">>}

ScanOutside(scan, byte) ==
    CASE byte = "space" -> scan
      [] scan.expect = "root" /\ byte # "space" ->
            IF byte = "{" THEN Enter(scan, byte) ELSE Dead(scan)
      [] scan.expect \in {"key", "first key"} /\ byte = "quote" ->
            [scan EXCEPT !.string = "in", !.expect = "key"]
      [] scan.expect = "colon" /\ byte = ":" -> Expect(scan, "value")
      [] scan.expect \in {"first key", "first value", "comma"} /\ Closes(scan, byte) -> Leave(scan)
      [] scan.expect = "comma" /\ byte = "," ->
            Expect(scan, IF Last(scan.open) = "{" THEN "key" ELSE "value")
      [] scan.expect = "value" \/ (scan.expect = "first value" /\ byte # "]") -> ScanValue(scan, byte)
      [] OTHER -> Dead(scan)

Scan(scan, byte) ==
    IF scan.expect \in {"invalid", "shape_scan_limit"} THEN scan
    ELSE IF scan.string # "out" THEN ScanInString(scan, byte)
    ELSE ScanOutside(scan, byte)

\* ParseTPSRequestShape accepts a whole object.
Accepted(scan) == scan.expect = "end"

-----------------------------------------------------------------------------
(* The rewriting.                                                          *)

Member == "priority"    \* the bytes of the added member, taken as one

\* SetSchedulingPriority on a buffered body: before its last brace, behind a
\* comma unless there is only space between it and the first. A body that does
\* not begin and end so is left alone.
Buffered(text) ==
    LET opening == {i \in DOMAIN text : text[i] = "{"}
        closing == {i \in DOMAIN text : text[i] = "}"}
        begin   == Min(opening)
        end     == Max(closing)
        comma   == IF \A i \in (begin + 1)..(end - 1) : text[i] = "space" THEN <<>> ELSE <<",">>
    IN  IF \/ opening = {} \/ closing = {}
           \/ begin > end
           \/ \E i \in (end + 1)..Len(text) : text[i] # "space"
        THEN text
        ELSE SubSeq(text, 1, end - 1) \o comma \o <<Member>> \o SubSeq(text, end, Len(text))

\* schedulingPriorityBody.transform, and what has been passed on.
NotRewritten == [started |-> FALSE, rootObject |-> FALSE, depth |-> 0, inString |-> FALSE,
                 escaped |-> FALSE, hasMember |-> FALSE, injected |-> FALSE, out |-> <<>>]

Begin(body, byte) ==
    IF byte = "space" THEN body
    ELSE [body EXCEPT !.started = TRUE, !.rootObject = byte = "{", !.depth = 1]

\* A slip: a quote ends a string even behind a backslash.
InStringUnescaped(body, byte) == [body EXCEPT !.inString = byte # "quote"]

InString(body, byte) ==
    [body EXCEPT !.escaped = ~body.escaped /\ byte = "backslash",
                 !.inString = body.escaped \/ byte # "quote"]

OutOfString(body, byte) ==
    LET closesRoot == byte = "}" /\ body.depth = 1
        depth == body.depth + (IF byte \in {"{", "["} THEN 1 ELSE 0) - (IF byte \in {"}", "]"} THEN 1 ELSE 0)
    IN  [body EXCEPT !.inString = byte = "quote", !.depth = depth,
                     !.injected = closesRoot,
                     !.hasMember = @ \/ (depth = 1 /\ byte # "space"),
                     !.out = IF closesRoot
                             THEN @ \o (IF body.hasMember THEN <<",">> ELSE <<>>) \o <<Member>>
                             ELSE @]

Transform(body, byte) ==
    LET next == CASE ~body.started -> Begin(body, byte)
                  [] body.started /\ (~body.rootObject \/ body.injected) -> body
                  [] body.rootObject /\ ~body.injected /\ body.inString -> InString(body, byte)
                  [] OTHER -> OutOfString(body, byte)
    IN  [next EXCEPT !.out = Append(@, byte)]
=============================================================================
