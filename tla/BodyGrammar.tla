---------------------------- MODULE BodyGrammar ----------------------------
(***************************************************************************)
(* What the bytes of a request body say: the grammar of JSON, against      *)
(* which the readers of a body (RequestBody, fed by InputStreams) are      *)
(* compared.                                                               *)
(***************************************************************************)
EXTENDS InputStreams

\* The grammar of JSON, with a budget of nesting.
RECURSIVE IsValue(_, _), IsElements(_, _), IsMembers(_, _)

Spaces(text) == \A i \in DOMAIN text : text[i] = "space"
Inside(text) == SubSeq(text, 2, Len(text) - 1)
Trim(text) ==
    LET solid == {i \in DOMAIN text : text[i] # "space"}
    IN  IF solid = {} THEN <<>> ELSE SubSeq(text, Min(solid), Max(solid))

\* Every backslash in it takes the byte after it, and no quote is left over.
IsString(text) ==
    LET escaped == {i \in 2..(Len(text) - 1) :
                       LET run == {j \in 1..(i - 1) : \A k \in j..(i - 1) : text[k] = "backslash"}
                       IN  Cardinality(run) % 2 = 1}
    IN  /\ Len(text) >= 2 /\ text[1] = "quote" /\ text[Len(text)] = "quote"
        /\ \A i \in 2..(Len(text) - 1) :
              IF i \in escaped THEN text[i] \in {"quote", "backslash"} ELSE text[i] # "quote"
        /\ LET run == {j \in 1..(Len(text) - 1) : \A k \in j..(Len(text) - 1) : text[k] = "backslash"}
           IN  Cardinality(run) % 2 = 0

IsMember(text, depth) ==
    \E i \in DOMAIN text :
        /\ text[i] = ":"
        /\ IsString(Trim(SubSeq(text, 1, i - 1))) /\ IsValue(SubSeq(text, i + 1, Len(text)), depth)

IsMembers(text, depth) ==
    \/ IsMember(text, depth)
    \/ \E i \in DOMAIN text :
          text[i] = "," /\ IsMember(SubSeq(text, 1, i - 1), depth) /\ IsMembers(SubSeq(text, i + 1, Len(text)), depth)

IsElements(text, depth) ==
    \/ IsValue(text, depth)
    \/ \E i \in DOMAIN text :
          text[i] = "," /\ IsValue(SubSeq(text, 1, i - 1), depth) /\ IsElements(SubSeq(text, i + 1, Len(text)), depth)

IsObject(text, depth) ==
    /\ depth > 0 /\ Len(text) >= 2 /\ text[1] = "{" /\ text[Len(text)] = "}"
    /\ Spaces(Inside(text)) \/ IsMembers(Inside(text), depth - 1)

IsArray(text, depth) ==
    /\ depth > 0 /\ Len(text) >= 2 /\ text[1] = "[" /\ text[Len(text)] = "]"
    /\ Spaces(Inside(text)) \/ IsElements(Inside(text), depth - 1)

IsValue(text, depth) ==
    LET trimmed == Trim(text)
    IN  trimmed = <<"x">> \/ IsString(trimmed) \/ IsObject(trimmed, depth) \/ IsArray(trimmed, depth)

\* The scan accepts the JSON objects that nest within the limit, and no other
\* body (ParseTPSRequestShape).
ScanExact == reader = "body" => (Body!Accepted(value.scan) <=> IsObject(Trim(fed), MaximumDepth))

\* The priority is added as the last member of an object, once, behind a comma
\* where one is needed; the body that was buffered and the one rewritten on the
\* fly read the same, and are still an object
\* (SetSchedulingPriority, schedulingPriorityBody.transform).
RewriteAgrees ==
    reader = "body" /\ Body!Accepted(value.scan) =>
        LET out     == value.rewritten.out
            added   == {i \in DOMAIN out : out[i] = Body!Member}
            member  == <<"quote", "x", "quote", ":", "x">>
            spelled == SubSeq(out, 1, Min(added) - 1) \o member \o SubSeq(out, Min(added) + 1, Len(out))
        IN  /\ out = Body!Buffered(fed)
            /\ Cardinality(added) = 1
            /\ Trim(SubSeq(out, Min(added) + 1, Len(out))) = <<"}">>
            /\ Body!Accepted(FoldLeft(Body!Scan, Body!NotScanned, spelled))

\* The two readers of a body, of which one judges it and one writes in it, see the
\* same structure wherever its quotes and backslashes are: both of the above.
BodyExact == ScanExact /\ RewriteAgrees
=============================================================================
