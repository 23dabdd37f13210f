------------------------ MODULE InputStreamsProofs ------------------------
(***************************************************************************)
(* Proofs about the readers of InputStreams (but of a body's bytes, which  *)
(* are read in BodyGrammar), for inputs of every length and, within        *)
(* InputAssumption, of every content.                                      *)
(*                                                                         *)
(* Each invariant below says of what has been read what the reader holds   *)
(* of it: LimitInv that a decoded key holds what all its members say,      *)
(* ShapeInv that a supported shape holds what the members of the body      *)
(* agree on (and that an unsupported one has members that do not), and     *)
(* ScrapeInv that the index of a scrape holds the samples and the type its *)
(* lines give of each metric. What is then taken from the reader follows   *)
(* from the invariant alone. WindowInv says that a second of the window is *)
(* in its own place while nobody sets the wall clock, and that at every    *)
(* later moment the buckets add up to what the intervals still are in it:  *)
(* what an observation adds is followed second by second of the loop.      *)
(* StreamInv says that the observer of a response holds the line and the   *)
(* data of the event that are open in the text so far, and of the events   *)
(* that are closed what they say of usage; JSONInv that all of a JSON body *)
(* is buffered. A chunk is followed piece by piece of the loop: what a     *)
(* text says of its closed events does not change when it goes on.         *)
(***************************************************************************)
EXTENDS InputStreams, FiniteSetTheorems, SequenceTheorems, WellFoundedInduction, TLAPS

LEMMA NatMinimum ==
    ASSUME NEW S \in SUBSET Nat, S # {}
    PROVE  \E n \in S : \A m \in S : n <= m
<1> DEFINE R == {ss \in Nat \X Nat : ss[1] < ss[2]}
<1>1. IsWellFoundedOn(R, Nat)
  BY NatLessThanWellFounded, Zenon DEF OpToRel
<1>2. PICK n \in S : \A m \in S : <<m, n>> \notin R
  <2> HIDE DEF R
  <2> QED
    BY <1>1, WFMin
<1>3. ASSUME NEW m \in S, m < n PROVE FALSE
  <2>1. <<m, n>> \in Nat \X Nat /\ <<m, n>>[1] < <<m, n>>[2]
    BY <1>3
  <2>2. <<m, n>> \in R
    BY <2>1, Zenon
  <2>3. QED
    BY <1>2, <2>2, Zenon
<1>4. QED
  BY <1>3

-----------------------------------------------------------------------------
(* A server_info document.                                                 *)

IsInfo(info) == info = [ok |-> info.ok, seen |-> [key \in Info!Keys |-> info.seen[key]]]

\* What has been decoded is what every member of its key says, of a document
\* that has not failed.
LimitInv ==
    reader = "server_info" =>
        /\ fed \in Seq(Members)
        /\ IsInfo(value)
        /\ value.ok => \A key \in Info!Keys :
              /\ \A i \in DOMAIN fed : fed[i].key = key => Info!Parsed(fed[i]) = value.seen[key]
              /\ value.seen[key] # {} <=> \E i \in DOMAIN fed : fed[i].key = key

\* A member stands for one value, or for none.
LEMMA ParsedOnce ==
    ASSUME NEW member
    PROVE  \A v, w \in Info!Parsed(member) : v = w
BY DEF Info!Parsed, Info!EffectiveLimit

LEMMA OneValue ==
    ASSUME NEW V, NEW W, \A v, w \in W : v = w, V \subseteq W, V # {}
    PROVE  V = W
OBVIOUS

\* The sequence after one more input: the old inputs where they were, and it.
LEMMA FedMore ==
    ASSUME NEW S, NEW s \in Seq(S), NEW e \in S
    PROVE  /\ Append(s, e) \in Seq(S)
           /\ DOMAIN Append(s, e) = DOMAIN s \cup {Len(s) + 1}
           /\ Len(s) + 1 \notin DOMAIN s
           /\ \A i \in DOMAIN s : Append(s, e)[i] = s[i]
           /\ Append(s, e)[Len(s) + 1] = e
BY AppendProperties, LenProperties

LEMMA DecodeIs ==
    ASSUME NEW info, IsInfo(info), NEW member
    PROVE  LET after == Info!Decode(info, member)
           IN  /\ IsInfo(after)
               /\ after.ok => info.ok
               /\ after.ok /\ member.key \notin Info!Keys => after = info
               /\ after.ok /\ member.key \in Info!Keys =>
                     /\ Info!Parsed(member) # {} /\ info.seen[member.key] \subseteq Info!Parsed(member)
                     /\ \A key \in Info!Keys :
                           after.seen[key] = IF key = member.key THEN Info!Parsed(member) ELSE info.seen[key]
<1> DEFINE ok == info.ok
           seen == info.seen
           after == Info!Decode(info, member)
<1>1. info = [ok |-> ok, seen |-> [key \in Info!Keys |-> seen[key]]]
  BY DEF IsInfo
<1>2. CASE ~info.ok \/ member.key \notin Info!Keys
  <2>1. after = info
    BY <1>2 DEF Info!Decode
  <2>2. QED
    BY <1>2, <2>1
<1>3. CASE /\ info.ok /\ member.key \in Info!Keys
           /\ Info!Parsed(member) # {} /\ info.seen[member.key] \subseteq Info!Parsed(member)
  <2>1. after = [info EXCEPT !.seen[member.key] = Info!Parsed(member)]
    BY <1>3, Zenon DEF Info!Decode
  <2> HIDE DEF after, ok, seen
  <2>2. after = [ok |-> ok, seen |-> [key \in Info!Keys |-> IF key = member.key THEN Info!Parsed(member) ELSE seen[key]]]
    BY <1>1, <2>1
  <2>3. IsInfo(after)
    BY <2>2 DEF IsInfo
  <2>4. ok = info.ok /\ seen = info.seen
    BY DEF ok, seen
  <2>5. \A key \in Info!Keys : after.seen[key] = IF key = member.key THEN Info!Parsed(member) ELSE info.seen[key]
    BY <2>2, <2>4
  <2>6. after.ok = info.ok
    BY <2>2, <2>4
  <2>7. QED
    BY <1>3, <2>3, <2>5, <2>6 DEF after
<1>4. CASE /\ info.ok /\ member.key \in Info!Keys
           /\ ~(Info!Parsed(member) # {} /\ info.seen[member.key] \subseteq Info!Parsed(member))
  <2>1. after = [info EXCEPT !.ok = FALSE]
    BY <1>4, Zenon DEF Info!Decode
  <2> HIDE DEF after, ok, seen
  <2>2. after = [ok |-> FALSE, seen |-> [key \in Info!Keys |-> seen[key]]]
    BY <1>1, <2>1
  <2>3. IsInfo(after) /\ ~after.ok
    BY <2>2 DEF IsInfo
  <2>7. QED
    BY <2>3 DEF after
<1>5. QED
  BY <1>2, <1>3, <1>4

LEMMA ReadMemberKeeps ==
    ASSUME LimitInv, NEW member \in Members, ReadMember(member)
    PROVE  LimitInv'
<1>1. /\ reader = "server_info" /\ reader' = "server_info" /\ fed' = Append(fed, member)
      /\ value' = Info!Decode(value, member)
  BY DEF ReadMember, Feed
<1>2. fed \in Seq(Members) /\ IsInfo(value)
  BY <1>1 DEF LimitInv, IsInfo
<1>3. /\ fed' \in Seq(Members) /\ DOMAIN fed' = DOMAIN fed \cup {Len(fed) + 1}
      /\ \A i \in DOMAIN fed : fed'[i] = fed[i]
      /\ fed'[Len(fed) + 1] = member
  <2>1. /\ Append(fed, member) \in Seq(Members) /\ DOMAIN Append(fed, member) = DOMAIN fed \cup {Len(fed) + 1}
        /\ \A i \in DOMAIN fed : Append(fed, member)[i] = fed[i]
        /\ Append(fed, member)[Len(fed) + 1] = member
    BY <1>2, FedMore
  <2>2. QED
    BY <1>1, <2>1
<1>4. IsInfo(value')
  BY <1>1, <1>2, DecodeIs
<1>5. ASSUME value'.ok, NEW key \in Info!Keys
      PROVE  /\ \A i \in DOMAIN fed' : fed'[i].key = key => Info!Parsed(fed'[i]) = value'.seen[key]
             /\ value'.seen[key] # {} <=> \E i \in DOMAIN fed' : fed'[i].key = key
  <2>1. /\ \A i \in DOMAIN fed : fed[i].key = key => Info!Parsed(fed[i]) = value.seen[key]
        /\ value.seen[key] # {} <=> \E i \in DOMAIN fed : fed[i].key = key
    BY <1>1, <1>2, <1>5, DecodeIs DEF LimitInv
  <2>2. CASE key # member.key
    <3>1. value'.seen[key] = value.seen[key]
      BY <1>1, <1>2, <1>5, <2>2, DecodeIs
    <3>2. QED
      BY <1>3, <2>1, <2>2, <3>1
  <2>3. CASE key = member.key
    <3>1. /\ value'.seen[key] = Info!Parsed(member) /\ Info!Parsed(member) # {}
          /\ value.seen[key] \subseteq Info!Parsed(member)
      BY <1>1, <1>2, <1>5, <2>3, DecodeIs
    <3>2. value.seen[key] # {} => value.seen[key] = Info!Parsed(member)
      <4>1. \A v, w \in Info!Parsed(member) : v = w
        BY ParsedOnce, Zenon
      <4>2. QED
        BY <3>1, <4>1, OneValue
    <3>3. QED
      BY <1>3, <2>1, <2>3, <3>1, <3>2
  <2>4. QED
    BY <2>2, <2>3
<1>6. QED
  BY <1>1, <1>3, <1>4, <1>5 DEF LimitInv, IsInfo

\* An instance counts as its instantiator does.
LEMMA InfoCardinality == \A S : Info!Cardinality(S) = Cardinality(S)
BY DEF Info!Cardinality, Cardinality

\* The least of the pools that the states name is one of them.
LEMMA PoolsMinimum ==
    ASSUME NEW states, states \in Seq(Seq(Nat)), Info!Pools(states) # {}
    PROVE  /\ Info!Min(Info!Pools(states)) \in Info!Pools(states)
           /\ \A pool \in Info!Pools(states) : pool \in Nat /\ Info!Min(Info!Pools(states)) <= pool
<1> DEFINE pools == Info!Pools(states)
<1>1. pools \in SUBSET Nat
  <2>1. ASSUME NEW i \in DOMAIN states, NEW j \in DOMAIN states[i] PROVE states[i][j] \in Nat
    <3>1. states[i] \in Seq(Nat)
      BY ElementOfSeq, LenProperties
    <3>2. QED
      BY <3>1, ElementOfSeq, LenProperties
  <2>2. QED
    BY <2>1 DEF Info!Pools
<1>2. PICK least \in pools : \A pool \in pools : least <= pool
  <2>1. pools # {}
    OBVIOUS
  <2> HIDE DEF pools
  <2>2. QED
    BY <1>1, <2>1, NatMinimum
<1> HIDE DEF pools
<1>3. Info!Min(pools) \in pools /\ \A pool \in pools : Info!Min(pools) <= pool
  BY <1>2 DEF Info!Min
<1>4. QED
  BY <1>1, <1>3 DEF pools

\* What the whole of the document says bounds the limit.
LEMMA LimitFollows ==
    ASSUME LimitInv
    PROVE  LimitHolds
<1> SUFFICES ASSUME reader = "server_info", Info!DecodedOK(value)
             PROVE  LET limit == Info!RunningLimit(value)
                    IN  /\ \A member \in Said("max_running_requests") : limit <= member.n
                        /\ \A member \in Said("internal_states") : member.type = "states" =>
                              /\ \A pool \in Info!Pools(member.states) : limit <= pool
                              /\ Info!Pools(member.states) = {} \/ \A i \in DOMAIN member.states : member.states[i] # <<>>
                        /\ Info!TierScheduling(value) =>
                              /\ \A member \in Said("enable_priority_scheduling") : member.b
                              /\ \A member \in Said("schedule_low_priority_values_first") : ~member.b
  BY DEF LimitHolds
<1> DEFINE limit == Info!RunningLimit(value)
<1>1. \A key \in Info!Keys : \A member \in Said(key) :
         member \in Members /\ member.key = key /\ Info!Parsed(member) = value.seen[key]
  <2>1. fed \in Seq(Members) /\ \A i \in DOMAIN fed : fed[i] \in Members
    BY ElementOfSeq, LenProperties DEF LimitInv
  <2>2. \A key \in Info!Keys : \A i \in DOMAIN fed : fed[i].key = key => Info!Parsed(fed[i]) = value.seen[key]
    BY DEF LimitInv, Info!DecodedOK
  <2>3. QED
    BY <2>1, <2>2 DEF Said
<1>2. \A key \in Info!Keys : value.seen[key] # {} <=> Said(key) # {}
  BY DEF LimitInv, Said, Info!DecodedOK
<1>3. PICK max \in 1..MaximumBound : value.seen["max_running_requests"] = {max}
  <2>1. PICK member \in Said("max_running_requests") : TRUE
    BY <1>2 DEF Info!Keys, Info!DecodedOK
  <2>2. QED
    BY <1>1, <2>1 DEF Info!Keys, Info!DecodedOK, Info!Parsed
<1>4. ASSUME NEW member \in Said("internal_states"), member.type = "states", Info!Pools(member.states) # {}
      PROVE  \E least \in Nat \ {0} :
                /\ value.seen["internal_states"] = {least}
                /\ \A pool \in Info!Pools(member.states) : pool \in Nat /\ least <= pool
                /\ \A i \in DOMAIN member.states : member.states[i] # <<>>
  <2>1. /\ member \in Members /\ member.key = "internal_states"
        /\ Info!EffectiveLimit(member.states) = value.seen["internal_states"]
    BY <1>1, <1>4 DEF Info!Keys, Info!Parsed
  <2>2. value.seen["internal_states"] # {}
    BY <1>2, <1>4 DEF Info!Keys
  <2> DEFINE states == member.states
             pools  == Info!Pools(states)
             stated(i) == {states[i][j] : j \in DOMAIN states[i]}
  <2>3. /\ pools \subseteq 1..MaximumBound
        /\ \A i \in DOMAIN states : Cardinality(stated(i)) = 1
        /\ value.seen["internal_states"] = {Info!Min(pools)}
    <3>1. Info!EffectiveLimit(states) # {} /\ pools # {}
      BY <1>4, <2>1, <2>2
    <3>2. pools \subseteq 1..MaximumBound /\ \A i \in DOMAIN states : Cardinality(stated(i)) = 1
      <4> DEFINE sound == /\ Info!Pools(states) \subseteq 1..MaximumBound
                          /\ \A i \in DOMAIN states : Cardinality({states[i][j] : j \in DOMAIN states[i]}) = 1
      <4>1. Info!EffectiveLimit(states) = IF pools = {} THEN {0} ELSE IF sound THEN {Info!Min(pools)} ELSE {}
        BY InfoCardinality DEF Info!EffectiveLimit
      <4>2. sound
        <5> HIDE DEF sound, pools
        <5> QED
          BY <3>1, <4>1
      <4>3. QED
        BY <4>2
    <3>3. Info!EffectiveLimit(states) = {Info!Min(pools)}
      BY <3>1, <3>2, Zenon DEF Info!EffectiveLimit
    <3>4. QED
      BY <2>1, <3>2, <3>3
  <2>4. states \in Seq(Seq(Nat))
    BY <1>4, <2>1, InputAssumption
  <2>5. /\ Info!Min(pools) \in pools
        /\ \A pool \in pools : pool \in Nat /\ Info!Min(pools) <= pool
    BY <1>4, <2>4, PoolsMinimum
  <2>6. Info!Min(pools) \in Nat \ {0}
    BY <2>3, <2>5, InputAssumption
  <2>7. ASSUME NEW i \in DOMAIN states, states[i] = <<>> PROVE FALSE
    <3>1. stated(i) = {}
      BY <2>7
    <3>2. Cardinality(stated(i)) = 1
      BY <2>3
    <3>3. Cardinality({}) = 0
      BY FS_EmptySet, Zenon
    <3>4. Cardinality(stated(i)) = 0
      BY <3>1, <3>3, Zenon
    <3>5. QED
      BY <3>2, <3>4
  <2>8. QED
    BY <2>3, <2>5, <2>6, <2>7
<1>5. value.seen["internal_states"] \subseteq Nat /\ \A v, w \in value.seen["internal_states"] : v = w
  <2>1. CASE Said("internal_states") = {}
    BY <1>2, <2>1 DEF Info!Keys
  <2>2. CASE Said("internal_states") # {}
    <3>1. PICK member \in Said("internal_states") : TRUE
      BY <2>2
    <3>2. Info!Parsed(member) = value.seen["internal_states"] /\ member \in Members /\ member.key = "internal_states"
      BY <1>1 DEF Info!Keys
    <3>3. CASE member.type = "states" /\ Info!Pools(member.states) # {}
      BY <1>4, <3>3
    <3>4. CASE ~(member.type = "states" /\ Info!Pools(member.states) # {})
      <4>1. Info!Parsed(member) \subseteq {0}
        BY <3>2, <3>4 DEF Info!Parsed, Info!EffectiveLimit
      <4>2. QED
        BY <3>2, <4>1
    <3>5. QED
      BY <3>3, <3>4
  <2>3. QED
    BY <2>1, <2>2
<1>6. limit <= max /\ \A pool \in value.seen["internal_states"] \ {0} : limit <= pool
  <2> DEFINE pools == value.seen["internal_states"] \ {0}
  <2>1. limit = Info!Min({max} \cup pools)
    BY <1>3 DEF Info!RunningLimit
  <2>2. \E least \in {max} \cup pools : \A pool \in {max} \cup pools : least <= pool
    BY <1>5
  <2>3. /\ Info!Min({max} \cup pools) \in {max} \cup pools
        /\ \A pool \in {max} \cup pools : Info!Min({max} \cup pools) <= pool
    BY <2>2 DEF Info!Min
  <2>4. QED
    BY <2>1, <2>3
<1>7. ASSUME NEW member \in Said("max_running_requests") PROVE limit <= member.n
  <2>1. Info!Parsed(member) = {max} /\ member.key = "max_running_requests"
    BY <1>1, <1>3 DEF Info!Keys
  <2>2. member.n = max
    BY <2>1 DEF Info!Parsed
  <2>3. QED
    BY <1>6, <2>2
<1>8. ASSUME NEW member \in Said("internal_states"), member.type = "states"
      PROVE  /\ \A pool \in Info!Pools(member.states) : limit <= pool
             /\ Info!Pools(member.states) = {} \/ \A i \in DOMAIN member.states : member.states[i] # <<>>
  <2>1. CASE Info!Pools(member.states) = {}
    BY <2>1
  <2>2. CASE Info!Pools(member.states) # {}
    <3>1. PICK least \in Nat \ {0} :
             /\ value.seen["internal_states"] = {least}
             /\ \A pool \in Info!Pools(member.states) : pool \in Nat /\ least <= pool
             /\ \A i \in DOMAIN member.states : member.states[i] # <<>>
      BY <1>4, <1>8, <2>2
    <3>2. limit <= least
      BY <1>6, <3>1
    <3>3. limit \in Nat
      <4>1. limit = Info!Min({max} \cup {least})
        BY <1>3, <3>1 DEF Info!RunningLimit
      <4>2. \E i \in {max} \cup {least} : \A j \in {max} \cup {least} : i <= j
        OBVIOUS
      <4>3. Info!Min({max} \cup {least}) \in {max} \cup {least}
        BY <4>2 DEF Info!Min
      <4>4. QED
        BY <4>1, <4>3
    <3> HIDE DEF limit
    <3>4. QED
      BY <3>1, <3>2, <3>3
  <2>3. QED
    BY <2>1, <2>2
<1>9. ASSUME Info!TierScheduling(value)
      PROVE  /\ \A member \in Said("enable_priority_scheduling") : member.b
             /\ \A member \in Said("schedule_low_priority_values_first") : ~member.b
  <2>1. ASSUME NEW key \in {"enable_priority_scheduling", "schedule_low_priority_values_first"},
               NEW member \in Said(key)
        PROVE  value.seen[key] = {member.b} /\ member.b \in BOOLEAN
    <3>1. Info!Parsed(member) = value.seen[key] /\ member \in Members /\ member.key = key
      BY <1>1 DEF Info!Keys
    <3>2. value.seen[key] # {}
      BY <1>2 DEF Info!Keys
    <3>3. Info!Parsed(member) = IF member.type = "boolean" THEN {member.b} ELSE {}
      BY <3>1 DEF Info!Parsed
    <3>4. QED
      BY <3>1, <3>2, <3>3, InputAssumption
  <2>2. QED
    BY <1>9, <2>1 DEF Info!TierScheduling
<1> HIDE DEF limit
<1>10. QED
  BY <1>7, <1>8, <1>9 DEF limit

-----------------------------------------------------------------------------
(* The members of a request body.                                          *)

\* Whether the members that PIG reads agree, whichever of them is taken,
NAgrees == \A v, w \in Values("n") : Shape!PositiveInteger(v) /\ v.n = w.n

BestOfAgrees ==
    \A v, w \in Values("best_of") :
        /\ v.is = "null" <=> w.is = "null"
        /\ v.is # "null" => Shape!PositiveInteger(v) /\ v.n = w.n

PromptAgrees == Times("prompt") <= 1 /\ \A v \in Values("prompt") : Shape!PromptCount(v) # {}

Agreed ==
    /\ reader \in {"chat", "completions"} => NAgrees
    /\ reader = "completions" => BestOfAgrees /\ PromptAgrees

\* and what the shape holds of them if they do.
NSays ==
    /\ value.n.seen <=> reader \in {"chat", "completions"} /\ Values("n") # {}
    /\ value.n.seen => \A v \in Values("n") : value.n.value = v.n
    /\ ~value.n.seen => value.n.value = 1

BestOfSays ==
    /\ value.bestOf.seen <=> reader = "completions" /\ Values("best_of") # {}
    /\ value.bestOf.seen => \A v \in Values("best_of") :
          /\ value.bestOf.null <=> v.is = "null"
          /\ ~value.bestOf.null => value.bestOf.value = v.n
    /\ ~value.bestOf.seen => ~value.bestOf.null
    /\ ~value.bestOf.seen \/ value.bestOf.null => value.bestOf.value = 1

PromptSays ==
    /\ value.promptSeen <=> reader = "completions" /\ Values("prompt") # {}
    /\ value.promptSeen => \A v \in Values("prompt") : Shape!PromptCount(v) = {value.prompts}
    /\ ~value.promptSeen => value.prompts = 1

StreamSays ==
    /\ value.streamPresent <=> Values("stream") # {}
    /\ value.streamKnown <=> SaidOfStream \in {{"true"}, {"false"}}
    /\ value.streaming <=> SaidOfStream = {"true"}

FanoutType == [seen : BOOLEAN, null : BOOLEAN, value : Nat]
ShapeType ==
    [prompts : Nat, supported : BOOLEAN, promptSeen : BOOLEAN, n : FanoutType, bestOf : FanoutType,
     streamPresent : BOOLEAN, streamKnown : BOOLEAN, streaming : BOOLEAN]

\* A shape is supported as long as its members agree, and what it says is what
\* they do.
ShapeInv ==
    reader \in Shape!Endpoints =>
        /\ fed \in Seq(RootMembers)
        /\ value \in ShapeType
        /\ value.supported <=> Agreed
        /\ value.supported => NSays /\ BestOfSays /\ PromptSays
        /\ StreamSays

SameStream(after, shape) ==
    /\ after.streamPresent = shape.streamPresent /\ after.streamKnown = shape.streamKnown
    /\ after.streaming = shape.streaming
SamePrompt(after, shape) == after.prompts = shape.prompts /\ after.promptSeen = shape.promptSeen

LEMMA UnsupportedIs ==
    ASSUME NEW shape \in ShapeType
    PROVE  LET after == Shape!Unsupported(shape)
           IN  /\ after \in ShapeType /\ ~after.supported
               /\ SameStream(after, shape) /\ SamePrompt(after, shape)
               /\ after.n = shape.n /\ after.bestOf = shape.bestOf
BY DEF ShapeType, FanoutType, SameStream, SamePrompt, Shape!Unsupported

LEMMA ReadNIs ==
    ASSUME NEW shape \in ShapeType, NEW v
    PROVE  LET after == Shape!ReadN(shape, v)
               takes == Shape!PositiveInteger(v) /\ (shape.n.seen => shape.n.value = v.n)
           IN  /\ after \in ShapeType
               /\ after.supported <=> shape.supported /\ takes
               /\ takes => after.n.seen /\ after.n.value = v.n
               /\ after.bestOf = shape.bestOf /\ SamePrompt(after, shape) /\ SameStream(after, shape)
<1> DEFINE takes == Shape!PositiveInteger(v) /\ (shape.n.seen => shape.n.value = v.n)
<1>1. CASE takes
  <2>1. Shape!ReadN(shape, v) = [shape EXCEPT !.n = [@ EXCEPT !.seen = TRUE, !.value = v.n]]
    BY <1>1, Zenon DEF Shape!ReadN
  <2>2. v.n \in Nat
    BY <1>1, InputAssumption DEF Shape!PositiveInteger
  <2>3. QED
    BY <1>1, <2>1, <2>2 DEF ShapeType, FanoutType, SameStream, SamePrompt
<1>2. CASE ~takes
  <2>1. Shape!ReadN(shape, v) = Shape!Unsupported(shape)
    BY <1>2, Zenon DEF Shape!ReadN
  <2>2. QED
    BY <1>2, <2>1, UnsupportedIs
<1>3. QED
  BY <1>1, <1>2

LEMMA ReadBestOfIs ==
    ASSUME NEW shape \in ShapeType, NEW v
    PROVE  LET after == Shape!ReadBestOf(shape, v)
               takes == \/ v.is = "null" /\ (shape.bestOf.seen => shape.bestOf.null)
                        \/ /\ v.is # "null" /\ ~shape.bestOf.null /\ Shape!PositiveInteger(v)
                           /\ shape.bestOf.seen => shape.bestOf.value = v.n
           IN  /\ after \in ShapeType
               /\ after.supported <=> shape.supported /\ takes
               /\ takes => /\ after.bestOf.seen
                           /\ after.bestOf.null <=> v.is = "null"
                           /\ after.bestOf.value = IF v.is = "null" THEN 1 ELSE v.n
               /\ after.n = shape.n /\ SamePrompt(after, shape) /\ SameStream(after, shape)
<1> DEFINE after == Shape!ReadBestOf(shape, v)
           null  == v.is = "null" /\ (shape.bestOf.seen => shape.bestOf.null)
           again == /\ v.is # "null" /\ ~shape.bestOf.null /\ Shape!PositiveInteger(v)
                    /\ shape.bestOf.seen => shape.bestOf.value = v.n
<1>1. CASE null
  <2> DEFINE asked == [seen |-> TRUE, null |-> TRUE, value |-> 1]
  <2>1. after = [shape EXCEPT !.bestOf = asked]
    BY <1>1, Zenon DEF Shape!ReadBestOf
  <2>2. asked \in FanoutType /\ asked.seen /\ asked.null /\ asked.value = 1
    BY DEF FanoutType
  <2> HIDE DEF asked
  <2>3. QED
    BY <1>1, <2>1, <2>2 DEF ShapeType, SameStream, SamePrompt
<1>2. CASE again
  <2>1. after = [shape EXCEPT !.bestOf = [@ EXCEPT !.seen = TRUE, !.value = v.n]]
    BY <1>2, Zenon DEF Shape!ReadBestOf
  <2>2. v.n \in Nat
    BY <1>2, InputAssumption DEF Shape!PositiveInteger
  <2>3. QED
    BY <1>2, <2>1, <2>2 DEF ShapeType, FanoutType, SameStream, SamePrompt
<1>3. CASE ~null /\ ~again
  <2>1. after = Shape!Unsupported(shape)
    BY <1>3, Zenon DEF Shape!ReadBestOf
  <2>2. QED
    BY <1>3, <2>1, UnsupportedIs
<1>4. QED
  BY <1>1, <1>2, <1>3

\* Cardinalities tell sets of one from others.
LEMMA SameOfOne ==
    ASSUME NEW S, IsFiniteSet(S), NEW a \in S, NEW b \in S, a # b
    PROVE  Cardinality(S) > 1
<1>1. IsFiniteSet(S \ {a}) /\ Cardinality(S \ {a}) = Cardinality(S) - 1
  BY FS_RemoveElement
<1>2. S \ {a} # {}
  OBVIOUS
<1>3. Cardinality(S \ {a}) # 0 /\ Cardinality(S \ {a}) \in Nat /\ Cardinality(S) \in Nat
  BY <1>1, <1>2, FS_EmptySet, FS_CardinalityType
<1>4. QED
  BY <1>1, <1>3

LEMMA OneOfOne == \A a : IsFiniteSet({a}) /\ Cardinality({a}) = 1
BY FS_Singleton

LEMMA ShapeCardinality == \A S : Shape!Cardinality(S) = Cardinality(S)
BY DEF Shape!Cardinality, Cardinality

\* A prompt counts once or not at all, and PIG counts the prompts there are.
LEMMA PromptOnce ==
    ASSUME NEW member \in RootMembers
    PROVE  \/ Shape!PromptCount(member.value) = {} /\ PromptsOf(member.value) = 0
           \/ \E count \in Nat \ {0} :
                 Shape!PromptCount(member.value) = {count} /\ PromptsOf(member.value) = count
<1> DEFINE v == member.value
           kinds == {v.elements[i] : i \in DOMAIN v.elements}
<1>1. CASE v.is = "string"
  BY <1>1 DEF Shape!PromptCount, PromptsOf
<1>2. CASE v.is # "string" /\ v.is # "array"
  BY <1>2 DEF Shape!PromptCount, PromptsOf
<1>3. CASE v.is = "array"
  <2>1. v.elements \in Seq({"string", "token", "tokens", "other"})
    BY <1>3, InputAssumption
  <2>2. /\ Len(v.elements) \in Nat /\ DOMAIN v.elements = 1..Len(v.elements)
        /\ \A i \in DOMAIN v.elements : v.elements[i] \in {"string", "token", "tokens", "other"}
        /\ Len(v.elements) = 0 <=> v.elements = <<>>
    BY <2>1, LenProperties, EmptySeq, ElementOfSeq
  <2>3. Shape!PromptCount(v) = IF Cardinality(kinds) > 1 \/ "other" \in kinds THEN {}
                               ELSE IF kinds \subseteq {"token"} THEN {1} ELSE {Len(v.elements)}
    <3>1. Shape!PromptCount(v) = IF Shape!Cardinality(kinds) > 1 \/ "other" \in kinds THEN {}
                                 ELSE IF kinds \subseteq {"token"} THEN {1} ELSE {Len(v.elements)}
      BY <1>3 DEF Shape!PromptCount
    <3>2. QED
      BY <3>1, ShapeCardinality, Zenon
  <2>4. PromptsOf(v) = IF v.elements = <<>> \/ \A i \in DOMAIN v.elements : v.elements[i] = "token" THEN 1
                       ELSE IF \/ \A i \in DOMAIN v.elements : v.elements[i] = "string"
                               \/ \A i \in DOMAIN v.elements : v.elements[i] = "tokens" THEN Len(v.elements)
                       ELSE 0
    BY <1>3 DEF PromptsOf
  <2>5. CASE kinds = {}
    <3>1. Cardinality(kinds) = 0 /\ v.elements = <<>>
      <4>1. Cardinality(kinds) = 0
        BY <2>5, FS_EmptySet, Zenon
      <4>2. 1 \notin DOMAIN v.elements
        BY <2>5
      <4>3. v.elements = <<>>
        BY <2>2, <4>2
      <4>4. QED
        BY <4>1, <4>3
    <3>2. QED
      BY <2>3, <2>4, <2>5, <3>1
  <2>6. CASE \E k : kinds = {k}
    <3>1. PICK k : kinds = {k}
      BY <2>6
    <3>2. Cardinality(kinds) = 1 /\ v.elements # <<>> /\ \A i \in DOMAIN v.elements : v.elements[i] = k
      <4>1. Cardinality(kinds) = 1
        BY <3>1, OneOfOne, Zenon
      <4>2. kinds # {}
        BY <3>1
      <4>3. DOMAIN v.elements # {}
        BY <4>2
      <4>4. v.elements # <<>>
        BY <2>2, <4>3
      <4>5. QED
        BY <3>1, <4>1, <4>4
    <3>3. k \in {"string", "token", "tokens", "other"} /\ Len(v.elements) \in Nat \ {0} /\ 1 \in DOMAIN v.elements
      BY <2>2, <3>1, <3>2
    <3>4. QED
      <4>1. CASE k = "other"
        <5>1. Shape!PromptCount(v) = {}
          BY <2>3, <3>1, <4>1
        <5>2. PromptsOf(v) = 0
          BY <2>4, <3>2, <3>3, <4>1
        <5>3. QED
          BY <5>1, <5>2
      <4>2. CASE k = "token"
        <5>1. Shape!PromptCount(v) = {1}
          <6> HIDE DEF kinds
          <6> QED
            BY <2>3, <3>1, <3>2, <4>2
        <5>2. PromptsOf(v) = 1
          BY <2>4, <3>2, <4>2
        <5>3. QED
          BY <5>1, <5>2
      <4>3. CASE k \in {"string", "tokens"}
        <5>1. Shape!PromptCount(v) = {Len(v.elements)}
          <6> HIDE DEF kinds
          <6> QED
            BY <2>3, <3>1, <3>2, <4>3
        <5>2. PromptsOf(v) = Len(v.elements)
          BY <2>4, <3>2, <3>3, <4>3
        <5>3. QED
          BY <3>3, <5>1, <5>2
      <4>4. QED
        BY <3>3, <4>1, <4>2, <4>3
  <2>7. CASE \E k, l \in kinds : k # l
    <3>1. PICK k \in kinds, l \in kinds : k # l
      BY <2>7
    <3>2. IsFiniteSet(kinds)
      <4>1. IsFiniteSet(1..Len(v.elements))
        BY <2>2, FS_Interval
      <4>2. IsFiniteSet({"string", "token", "tokens", "other"}) /\ kinds \subseteq {"string", "token", "tokens", "other"}
        <5>1. IsFiniteSet({"string"})
          BY OneOfOne
        <5>2. IsFiniteSet({"string"} \cup {"token"})
          BY <5>1, FS_AddElement
        <5>3. IsFiniteSet(({"string"} \cup {"token"}) \cup {"tokens"})
          BY <5>2, FS_AddElement
        <5>4. IsFiniteSet((({"string"} \cup {"token"}) \cup {"tokens"}) \cup {"other"})
          BY <5>3, FS_AddElement
        <5>5. {"string", "token", "tokens", "other"} = (({"string"} \cup {"token"}) \cup {"tokens"}) \cup {"other"}
          OBVIOUS
        <5>6. QED
          BY <2>2, <5>4, <5>5
      <4>3. QED
        BY <4>2, FS_Subset
    <3>3. Cardinality(kinds) > 1
      <4> HIDE DEF kinds
      <4>1. QED
        BY <3>1, <3>2, SameOfOne
    <3>4. /\ ~ \A i \in DOMAIN v.elements : v.elements[i] = "token"
          /\ ~ \A i \in DOMAIN v.elements : v.elements[i] = "string"
          /\ ~ \A i \in DOMAIN v.elements : v.elements[i] = "tokens"
          /\ v.elements # <<>>
      BY <2>2, <3>1
    <3>5. QED
      BY <2>3, <2>4, <3>3, <3>4
  <2>8. QED
    BY <2>5, <2>6, <2>7
<1>4. QED
  BY <1>1, <1>2, <1>3

LEMMA ReadPromptIs ==
    ASSUME NEW shape \in ShapeType, NEW v, NEW count \in Nat, Shape!PromptCount(v) \in {{}, {count}}
    PROVE  LET after == Shape!ReadPrompt(shape, v)
               takes == ~shape.promptSeen /\ Shape!PromptCount(v) # {}
           IN  /\ after \in ShapeType
               /\ after.supported <=> shape.supported /\ takes
               /\ takes => after.promptSeen /\ Shape!PromptCount(v) = {after.prompts}
               /\ after.n = shape.n /\ after.bestOf = shape.bestOf /\ SameStream(after, shape)
<1> DEFINE counts == Shape!PromptCount(v)
           first  == CHOOSE c \in counts : TRUE
           after  == Shape!ReadPrompt(shape, v)
           q      == IF counts = {} THEN shape.prompts ELSE first
           w      == shape.supported /\ ~shape.promptSeen /\ counts # {}
<1>1. counts # {} => first = count /\ counts = {first}
  OBVIOUS
<1>2. after = [shape EXCEPT !.promptSeen = TRUE,
                            !.supported = @ /\ ~shape.promptSeen /\ counts # {},
                            !.prompts = IF counts = {} THEN @ ELSE first]
  BY DEF Shape!ReadPrompt
<1>3. q \in Nat /\ w \in BOOLEAN
  BY <1>1 DEF ShapeType
<1> HIDE DEF counts, first, after
<1>4. after = [shape EXCEPT !.promptSeen = TRUE, !.supported = w, !.prompts = q]
  BY <1>2 DEF ShapeType
<1> HIDE DEF q, w
<1>5. /\ after \in ShapeType /\ after.n = shape.n /\ after.bestOf = shape.bestOf /\ SameStream(after, shape)
      /\ after.supported = w /\ after.promptSeen /\ after.prompts = q
  BY <1>3, <1>4 DEF ShapeType, SameStream
<1>6. QED
  BY <1>1, <1>5 DEF counts, after, first, q, w

LEMMA ReadStreamIs ==
    ASSUME NEW shape \in ShapeType, NEW v
    PROVE  LET after == Shape!ReadStream(shape, v)
               on    == v.is = "true"
               valid == v.is \in {"true", "false"}
               again == shape.streamPresent => shape.streamKnown /\ (shape.streaming <=> on)
           IN  /\ after \in ShapeType
               /\ after.streamPresent
               /\ after.streamKnown <=> valid /\ again
               /\ after.streaming <=> on /\ again
               /\ after.supported = shape.supported /\ after.n = shape.n /\ after.bestOf = shape.bestOf
               /\ SamePrompt(after, shape)
<1> DEFINE after == Shape!ReadStream(shape, v)
           on    == v.is = "true"
           valid == v.is \in {"true", "false"}
<1>1. on \in BOOLEAN /\ valid \in BOOLEAN /\ (on => valid)
  OBVIOUS
<1>2. CASE ~shape.streamPresent
  <2>1. after = [shape EXCEPT !.streamPresent = TRUE, !.streamKnown = valid, !.streaming = on]
    BY <1>2, Zenon DEF Shape!ReadStream
  <2> HIDE DEF after, on, valid
  <2>2. QED
    BY <1>1, <1>2, <2>1 DEF ShapeType, SamePrompt, after, on, valid
<1>3. CASE shape.streamPresent /\ (~valid \/ ~shape.streamKnown \/ shape.streaming # on)
  <2>1. after = [shape EXCEPT !.streamKnown = FALSE, !.streaming = FALSE]
    BY <1>3, Zenon DEF Shape!ReadStream
  <2> HIDE DEF after
  <2>2. QED
    BY <1>1, <1>3, <2>1 DEF ShapeType, SamePrompt, after
<1>4. CASE shape.streamPresent /\ valid /\ shape.streamKnown /\ shape.streaming = on
  <2>1. after = shape
    BY <1>4, Zenon DEF Shape!ReadStream
  <2>2. QED
    BY <1>1, <1>4, <2>1 DEF ShapeType, SamePrompt
<1>5. QED
  BY <1>2, <1>3, <1>4

\* One member more is one value more of its key.
LEMMA TimesCount ==
    ASSUME NEW S, fed \in Seq(S), NEW key
    PROVE  /\ IsFiniteSet({i \in DOMAIN fed : fed[i].key = key})
           /\ Times(key) \in Nat
           /\ Times(key) = 0 <=> Values(key) = {}
<1> DEFINE places == {i \in DOMAIN fed : fed[i].key = key}
<1>1. IsFiniteSet(DOMAIN fed)
  BY LenProperties, FS_Interval
<1>2. IsFiniteSet(places)
  BY <1>1, FS_Subset
<1>3. Values(key) = {} <=> places = {}
  BY DEF Values
<1>4. Times(key) = Cardinality(places)
  BY DEF Times
<1> HIDE DEF places
<1>5. Cardinality(places) \in Nat /\ (Cardinality(places) = 0 <=> places = {})
  BY <1>2, FS_EmptySet, FS_CardinalityType
<1>6. QED
  BY <1>2, <1>3, <1>4, <1>5 DEF places

LEMMA ValuesMore ==
    ASSUME NEW S, fed \in Seq(S), NEW member \in S, fed' = Append(fed, member), NEW key
    PROVE  /\ Values(key)' = Values(key) \cup (IF member.key = key THEN {member.value} ELSE {})
           /\ Times(key)' = IF member.key = key THEN Times(key) + 1 ELSE Times(key)
<1> DEFINE places == {i \in DOMAIN fed : fed[i].key = key}
           now == {i \in DOMAIN fed' : fed'[i].key = key}
           last == Len(fed) + 1
<1>1. /\ DOMAIN fed' = DOMAIN fed \cup {last} /\ last \notin DOMAIN fed
      /\ \A i \in DOMAIN fed : fed'[i] = fed[i]
      /\ fed'[last] = member
  <2>1. /\ DOMAIN Append(fed, member) = DOMAIN fed \cup {last} /\ last \notin DOMAIN fed
        /\ \A i \in DOMAIN fed : Append(fed, member)[i] = fed[i]
        /\ Append(fed, member)[last] = member
    BY FedMore
  <2>2. QED
    BY <2>1
<1> HIDE DEF last
<1>2. now = places \cup (IF member.key = key THEN {last} ELSE {})
  BY <1>1
<1>3. Values(key)' = {fed'[i].value : i \in now} /\ Values(key) = {fed[i].value : i \in places}
  BY DEF Values
<1>4. Values(key)' = Values(key) \cup (IF member.key = key THEN {member.value} ELSE {})
  BY <1>1, <1>2, <1>3
<1>5. Times(key)' = Cardinality(now) /\ Times(key) = Cardinality(places)
  BY DEF Times
<1>6. IsFiniteSet(places) /\ last \notin places
  BY <1>1, TimesCount
<1> HIDE DEF now, places
<1>7. Times(key)' = IF member.key = key THEN Times(key) + 1 ELSE Times(key)
  BY <1>2, <1>5, <1>6, FS_AddElement
<1>8. QED
  BY <1>4, <1>7

\* What is said of a key changes with the values of the key alone.
LEMMA NStill ==
    ASSUME Values("n")' = Values("n"), reader' = reader, value.n' = value.n
    PROVE  (NAgrees' <=> NAgrees) /\ (NSays' <=> NSays)
BY DEF NAgrees, NSays

LEMMA BestOfStill ==
    ASSUME Values("best_of")' = Values("best_of"), reader' = reader, value.bestOf' = value.bestOf
    PROVE  (BestOfAgrees' <=> BestOfAgrees) /\ (BestOfSays' <=> BestOfSays)
BY DEF BestOfAgrees, BestOfSays

LEMMA PromptStill ==
    ASSUME Values("prompt")' = Values("prompt"), Times("prompt")' = Times("prompt"),
           reader' = reader, SamePrompt(value', value)
    PROVE  (PromptAgrees' <=> PromptAgrees) /\ (PromptSays' <=> PromptSays)
BY DEF PromptAgrees, PromptSays, SamePrompt

LEMMA StreamStill ==
    ASSUME Values("stream")' = Values("stream"), SameStream(value', value)
    PROVE  StreamSays' <=> StreamSays
BY DEF StreamSays, SaidOfStream, SameStream

LEMMA ReadRootMemberKeeps ==
    ASSUME ShapeInv, NEW member \in RootMembers, ReadRootMember(member)
    PROVE  ShapeInv'
<1> DEFINE v == member.value
<1>1. /\ reader \in Shape!Endpoints /\ reader' = reader /\ fed' = Append(fed, member)
      /\ value' = Shape!ReadMember(value, reader, member)
  BY DEF ReadRootMember, Feed
<1>2. fed \in Seq(RootMembers) /\ value \in ShapeType
  BY <1>1 DEF ShapeInv
<1>3. fed' \in Seq(RootMembers)
  BY <1>1, <1>2, AppendProperties
<1>4. /\ value.supported <=> Agreed
      /\ value.supported => NSays /\ BestOfSays /\ PromptSays
      /\ StreamSays
  BY <1>1 DEF ShapeInv
<1>5. \A key : /\ Values(key)' = Values(key) \cup (IF member.key = key THEN {v} ELSE {})
               /\ Times(key)' = IF member.key = key THEN Times(key) + 1 ELSE Times(key)
               /\ Times(key) \in Nat
               /\ Times(key) = 0 <=> Values(key) = {}
  BY <1>1, <1>2, ValuesMore, TimesCount
<1>6. reader \in {"chat", "completions", "responses"}
  BY <1>1 DEF Shape!Endpoints
<1> DEFINE reads == \/ member.key = "stream"
                    \/ member.key = "n" /\ reader \in {"chat", "completions"}
                    \/ member.key \in {"prompt", "best_of"} /\ reader = "completions"
<1>7. CASE ~reads
  <2>1. value' = value
    BY <1>1, <1>7 DEF Shape!ReadMember, Shape!UsesDecodeFanout
  <2>2. value \in ShapeType /\ SamePrompt(value', value) /\ SameStream(value', value)
    BY <1>2, <2>1 DEF SamePrompt, SameStream
  <2>3. StreamSays'
    BY <1>4, <1>5, <1>7, <2>2, StreamStill
  <2>4. /\ reader \in {"chat", "completions"} => (NAgrees' <=> NAgrees)
        /\ NSays' <=> NSays
    <3>1. CASE reader \in {"chat", "completions"}
      BY <1>1, <1>5, <1>7, <2>1, <3>1, NStill
    <3>2. CASE reader \notin {"chat", "completions"}
      BY <1>1, <2>1, <3>2 DEF NSays
    <3>3. QED
      BY <3>1, <3>2
  <2>5. /\ reader = "completions" => (BestOfAgrees' <=> BestOfAgrees) /\ (PromptAgrees' <=> PromptAgrees)
        /\ (BestOfSays' <=> BestOfSays) /\ (PromptSays' <=> PromptSays)
    <3>1. CASE reader = "completions"
      BY <1>1, <1>5, <1>7, <2>1, <2>2, <3>1, BestOfStill, PromptStill
    <3>2. CASE reader # "completions"
      BY <1>1, <2>1, <3>2 DEF BestOfSays, PromptSays
    <3>3. QED
      BY <3>1, <3>2
  <2>6. QED
    BY <1>1, <1>3, <1>4, <2>1, <2>2, <2>3, <2>4, <2>5 DEF ShapeInv, Agreed
<1>8. CASE member.key = "n" /\ reader \in {"chat", "completions"}
  <2>1. value' = Shape!ReadN(value, v)
    BY <1>1, <1>8 DEF Shape!ReadMember, Shape!UsesDecodeFanout
  <2> DEFINE takes == Shape!PositiveInteger(v) /\ (value.n.seen => value.n.value = v.n)
  <2>2. /\ value' \in ShapeType
        /\ value'.supported <=> value.supported /\ takes
        /\ takes => value'.n.seen /\ value'.n.value = v.n
        /\ value'.bestOf = value.bestOf /\ SamePrompt(value', value) /\ SameStream(value', value)
    BY <1>2, <2>1, ReadNIs
  <2>3. /\ (BestOfAgrees' <=> BestOfAgrees) /\ (BestOfSays' <=> BestOfSays)
        /\ (PromptAgrees' <=> PromptAgrees) /\ (PromptSays' <=> PromptSays)
        /\ StreamSays'
    BY <1>1, <1>4, <1>5, <1>8, <2>2, BestOfStill, PromptStill, StreamStill
  <2>4. Values("n")' = Values("n") \cup {v}
    BY <1>5, <1>8
  <2>5. NAgrees' => NAgrees
    BY <2>4 DEF NAgrees
  <2>6. NAgrees /\ NSays => (NAgrees' <=> takes)
    BY <1>8, <2>4 DEF NAgrees, NSays
  <2>7. NAgrees' /\ NSays /\ takes => NSays'
    BY <1>1, <1>8, <2>2, <2>4 DEF NAgrees, NSays
  <2>8. value'.supported <=> Agreed'
    BY <1>1, <1>4, <1>8, <2>2, <2>3, <2>5, <2>6 DEF Agreed
  <2>9. value'.supported => NSays' /\ BestOfSays' /\ PromptSays'
    BY <1>4, <1>8, <2>2, <2>3, <2>6, <2>7 DEF Agreed
  <2>10. QED
    BY <1>3, <2>2, <2>3, <2>8, <2>9 DEF ShapeInv
<1>9. CASE member.key = "best_of" /\ reader = "completions"
  <2>1. value' = Shape!ReadBestOf(value, v)
    BY <1>1, <1>9 DEF Shape!ReadMember, Shape!UsesDecodeFanout
  <2> DEFINE takes == \/ v.is = "null" /\ (value.bestOf.seen => value.bestOf.null)
                      \/ /\ v.is # "null" /\ ~value.bestOf.null /\ Shape!PositiveInteger(v)
                         /\ value.bestOf.seen => value.bestOf.value = v.n
  <2>2. /\ value' \in ShapeType
        /\ value'.supported <=> value.supported /\ takes
        /\ takes => /\ value'.bestOf.seen
                    /\ value'.bestOf.null <=> v.is = "null"
                    /\ value'.bestOf.value = IF v.is = "null" THEN 1 ELSE v.n
        /\ value'.n = value.n /\ SamePrompt(value', value) /\ SameStream(value', value)
    <3> DEFINE after == Shape!ReadBestOf(value, v)
    <3>1. /\ after \in ShapeType
          /\ after.supported <=> value.supported /\ takes
          /\ takes => /\ after.bestOf.seen
                      /\ after.bestOf.null <=> v.is = "null"
                      /\ after.bestOf.value = IF v.is = "null" THEN 1 ELSE v.n
          /\ after.n = value.n /\ SamePrompt(after, value) /\ SameStream(after, value)
      BY <1>2, ReadBestOfIs, Zenon
    <3> HIDE DEF after
    <3>2. value' = after
      BY <2>1 DEF after
    <3>3. QED
      BY <3>1, <3>2, Zenon
  <2>3. /\ (NAgrees' <=> NAgrees) /\ (NSays' <=> NSays)
        /\ (PromptAgrees' <=> PromptAgrees) /\ (PromptSays' <=> PromptSays)
        /\ StreamSays'
    BY <1>1, <1>4, <1>5, <1>9, <2>2, NStill, PromptStill, StreamStill
  <2>4. Values("best_of")' = Values("best_of") \cup {v}
    BY <1>5, <1>9
  <2>5. BestOfAgrees' => BestOfAgrees
    BY <2>4 DEF BestOfAgrees
  <2>6. BestOfAgrees /\ BestOfSays => (BestOfAgrees' <=> takes)
    BY <1>9, <2>4 DEF BestOfAgrees, BestOfSays
  <2>7. BestOfAgrees' /\ BestOfSays /\ takes => BestOfSays'
    BY <1>1, <1>9, <2>2, <2>4 DEF BestOfAgrees, BestOfSays
  <2>8. value'.supported <=> Agreed'
    BY <1>1, <1>4, <1>9, <2>2, <2>3, <2>5, <2>6 DEF Agreed
  <2>9. value'.supported => NSays' /\ BestOfSays' /\ PromptSays'
    BY <1>4, <1>9, <2>2, <2>3, <2>6, <2>7 DEF Agreed
  <2>10. QED
    BY <1>3, <2>2, <2>3, <2>8, <2>9 DEF ShapeInv
<1>10. CASE member.key = "prompt" /\ reader = "completions"
  <2>1. value' = Shape!ReadPrompt(value, v)
    BY <1>1, <1>10 DEF Shape!ReadMember, Shape!UsesDecodeFanout
  <2> DEFINE takes == ~value.promptSeen /\ Shape!PromptCount(v) # {}
  <2>2. /\ value' \in ShapeType
        /\ value'.supported <=> value.supported /\ takes
        /\ takes => value'.promptSeen /\ Shape!PromptCount(v) = {value'.prompts}
        /\ value'.n = value.n /\ value'.bestOf = value.bestOf /\ SameStream(value', value)
    <3>1. \E count \in Nat : Shape!PromptCount(v) \in {{}, {count}}
      BY PromptOnce
    <3>2. QED
      BY <1>2, <2>1, <3>1, ReadPromptIs
  <2>3. /\ (NAgrees' <=> NAgrees) /\ (NSays' <=> NSays)
        /\ (BestOfAgrees' <=> BestOfAgrees) /\ (BestOfSays' <=> BestOfSays)
        /\ StreamSays'
    BY <1>1, <1>4, <1>5, <1>10, <2>2, NStill, BestOfStill, StreamStill
  <2>4. /\ Values("prompt")' = Values("prompt") \cup {v}
        /\ Times("prompt")' = Times("prompt") + 1 /\ Times("prompt") \in Nat
        /\ Times("prompt") = 0 <=> Values("prompt") = {}
    BY <1>5, <1>10
  <2>5. PromptAgrees' <=> Values("prompt") = {} /\ Shape!PromptCount(v) # {}
    BY <2>4 DEF PromptAgrees
  <2>6. Values("prompt") = {} => PromptAgrees
    BY <2>4 DEF PromptAgrees
  <2>7. PromptSays => (value.promptSeen <=> Values("prompt") # {})
    BY <1>10 DEF PromptSays
  <2>8. PromptSays /\ takes => PromptSays'
    BY <1>1, <1>10, <2>2, <2>4 DEF PromptSays
  <2>9. value'.supported <=> Agreed'
    BY <1>1, <1>4, <1>10, <2>2, <2>3, <2>5, <2>6, <2>7 DEF Agreed
  <2>10. value'.supported => NSays' /\ BestOfSays' /\ PromptSays'
    BY <1>4, <2>2, <2>3, <2>8
  <2>11. QED
    BY <1>3, <2>2, <2>3, <2>9, <2>10 DEF ShapeInv
<1>11. CASE member.key = "stream"
  <2>1. value' = Shape!ReadStream(value, v)
    BY <1>1, <1>11 DEF Shape!ReadMember, Shape!UsesDecodeFanout
  <2> DEFINE on    == v.is = "true"
             valid == v.is \in {"true", "false"}
             again == value.streamPresent => value.streamKnown /\ (value.streaming <=> on)
  <2>2. /\ value' \in ShapeType
        /\ value'.streamPresent
        /\ value'.streamKnown <=> valid /\ again
        /\ value'.streaming <=> on /\ again
        /\ value'.supported = value.supported /\ value'.n = value.n /\ value'.bestOf = value.bestOf
        /\ SamePrompt(value', value)
    BY <1>2, <2>1, ReadStreamIs
  <2>3. /\ (NAgrees' <=> NAgrees) /\ (NSays' <=> NSays)
        /\ (BestOfAgrees' <=> BestOfAgrees) /\ (BestOfSays' <=> BestOfSays)
        /\ (PromptAgrees' <=> PromptAgrees) /\ (PromptSays' <=> PromptSays)
    BY <1>1, <1>5, <1>11, <2>2, NStill, BestOfStill, PromptStill
  <2>4. SaidOfStream' = SaidOfStream \cup {v.is}
    BY <1>5, <1>11 DEF SaidOfStream
  <2>5. Values("stream")' # {} /\ (Values("stream") = {} <=> SaidOfStream = {})
    BY <1>5, <1>11 DEF SaidOfStream
  <2>6. StreamSays'
    BY <1>4, <2>2, <2>4, <2>5 DEF StreamSays
  <2>7. QED
    BY <1>1, <1>3, <1>4, <2>2, <2>3, <2>6 DEF ShapeInv, Agreed
<1>12. QED
  BY <1>7, <1>8, <1>9, <1>10, <1>11

LEMMA TwoMaximum ==
    ASSUME NEW a \in Int, NEW b \in Int
    PROVE  /\ Max({a, b}) = IF a >= b THEN a ELSE b
           /\ Shape!Max({a, b}) = IF a >= b THEN a ELSE b
<1>1. CASE a >= b
  BY <1>1 DEF Max, Shape!Max
<1>2. CASE ~(a >= b)
  BY <1>2 DEF Max, Shape!Max
<1>3. QED
  BY <1>1, <1>2

\* The check before the multiplication.
LEMMA ProductFits ==
    ASSUME NEW p \in Nat, NEW c \in Nat \ {0}, NEW m \in Nat
    PROVE  p <= m \div c <=> p * c <= m
OBVIOUS

LEMMA ProductGrows ==
    ASSUME NEW p \in Nat \ {0}, NEW c \in Nat
    PROVE  p * c >= c /\ p * c \in Nat
<1>1. PICK d \in Nat : p = 1 + d
  OBVIOUS
<1>2. p * c = c + d * c /\ d * c >= 0
  BY <1>1
<1>3. QED
  BY <1>2

LEMMA ImageFinite ==
    ASSUME NEW S, IsFiniteSet(S), NEW f, DOMAIN f = S
    PROVE  IsFiniteSet({f[x] : x \in S})
<1> DEFINE g == [x \in S |-> f[x]]
<1>1. g \in Surjection(S, {f[x] : x \in S})
  BY DEF Surjection
<1>2. QED
  BY <1>1, FS_Surjection

LEMMA ValuesTyped ==
    ASSUME ShapeInv, reader \in Shape!Endpoints, NEW key
    PROVE  /\ IsFiniteSet(Values(key))
           /\ \A v \in Values(key) : \E member \in RootMembers : member.value = v
           /\ \A v \in Values(key) : v.is = "integer" => v.n \in Int
           /\ Times(key) \in Nat /\ (Times(key) = 0 <=> Values(key) = {})
<1> DEFINE places == {i \in DOMAIN fed : fed[i].key = key}
<1>1. fed \in Seq(RootMembers)
  BY DEF ShapeInv
<1>2. IsFiniteSet(places) /\ Times(key) \in Nat /\ (Times(key) = 0 <=> Values(key) = {})
  BY <1>1, TimesCount
<1>3. IsFiniteSet(Values(key))
  <2> DEFINE f == [i \in places |-> fed[i].value]
  <2>1. Values(key) = {f[i] : i \in places}
    BY DEF Values
  <2>2. DOMAIN f = places
    OBVIOUS
  <2> HIDE DEF f, places
  <2>3. QED
    BY <1>2, <2>1, <2>2, ImageFinite
<1>4. \A i \in DOMAIN fed : fed[i] \in RootMembers
  BY <1>1, ElementOfSeq, LenProperties
<1>5. QED
  BY <1>2, <1>3, <1>4, InputAssumption DEF Values

\* A request whose members agree asks for what the shape holds,
LEMMA AgreedAsks ==
    ASSUME ShapeInv, reader \in Shape!Endpoints, value.supported
    PROVE  /\ value.n.value \in Nat \ {0} /\ NAsked = {value.n.value}
           /\ value.bestOf.value \in Nat \ {0} /\ BestOfAsked = {value.bestOf.value}
           /\ value.prompts \in Nat \ {0} /\ AskedPrompts = {value.prompts}
           /\ reader = "completions" => Cardinality({v.is = "null" : v \in Values("best_of")}) <= 1
           /\ reader # "completions" => value.bestOf.value = 1
<1>1. /\ value \in ShapeType /\ Agreed /\ NSays /\ BestOfSays /\ PromptSays
  BY DEF ShapeInv
<1>2. value.n.value \in Nat \ {0} /\ NAsked = {value.n.value}
  <2>1. CASE value.n.seen
    <3>1. /\ reader \in {"chat", "completions"} /\ Values("n") # {}
          /\ \A v \in Values("n") : v.is = "integer" /\ v.n \in Nat \ {0} /\ v.n = value.n.value
      BY <1>1, <2>1, InputAssumption DEF NSays, Agreed, NAgrees, Shape!PositiveInteger
    <3>2. QED
      BY <3>1 DEF NAsked, BestOfAsked, AskedFor
  <2>2. CASE ~value.n.seen
    BY <1>1, <2>2 DEF NSays, NAsked, AskedFor
  <2>3. QED
    BY <2>1, <2>2
<1>3. value.bestOf.value \in Nat \ {0} /\ BestOfAsked = {value.bestOf.value}
  <2>1. CASE value.bestOf.seen /\ ~value.bestOf.null
    <3>1. /\ reader = "completions" /\ Values("best_of") # {}
          /\ \A v \in Values("best_of") : v.is = "integer" /\ v.n \in Nat \ {0} /\ v.n = value.bestOf.value
      BY <1>1, <2>1, InputAssumption DEF BestOfSays, Agreed, BestOfAgrees, Shape!PositiveInteger
    <3>2. QED
      BY <3>1 DEF NAsked, BestOfAsked, AskedFor
  <2>2. CASE value.bestOf.seen /\ value.bestOf.null
    <3>1. /\ reader = "completions" /\ Values("best_of") # {} /\ value.bestOf.value = 1
          /\ \A v \in Values("best_of") : v.is = "null"
      BY <1>1, <2>2 DEF BestOfSays
    <3>2. QED
      BY <3>1 DEF NAsked, BestOfAsked, AskedFor
  <2>3. CASE ~value.bestOf.seen
    BY <1>1, <2>3 DEF BestOfSays, BestOfAsked, AskedFor
  <2>4. QED
    BY <2>1, <2>2, <2>3
<1>4. value.prompts \in Nat \ {0} /\ AskedPrompts = {value.prompts}
  <2>1. CASE value.promptSeen
    <3>1. /\ reader = "completions" /\ Values("prompt") # {} /\ Times("prompt") = 1
          /\ \A v \in Values("prompt") : Shape!PromptCount(v) = {value.prompts}
      BY <1>1, <2>1, ValuesTyped DEF PromptSays, Agreed, PromptAgrees
    <3>2. \A v \in Values("prompt") : PromptsOf(v) = value.prompts /\ value.prompts \in Nat \ {0}
      BY <3>1, ValuesTyped, PromptOnce
    <3>3. AskedPrompts = {PromptsOf(v) : v \in Values("prompt")}
      BY <3>1 DEF AskedPrompts
    <3>4. QED
      BY <3>1, <3>2, <3>3
  <2>2. CASE ~value.promptSeen
    BY <1>1, <2>2, ValuesTyped DEF PromptSays, AskedPrompts
  <2>3. QED
    BY <2>1, <2>2
<1>5. ASSUME reader = "completions" PROVE Cardinality({v.is = "null" : v \in Values("best_of")}) <= 1
  <2> DEFINE nulls == {v.is = "null" : v \in Values("best_of")}
  <2>1. \A v, w \in Values("best_of") : v.is = "null" <=> w.is = "null"
    BY <1>1, <1>5 DEF Agreed, BestOfAgrees
  <2>2. \A a, b \in nulls : a = b
    BY <2>1
  <2>3. nulls = {} \/ \E a : nulls = {a}
    <3> HIDE DEF nulls
    <3>1. QED
      BY <2>2
  <2> HIDE DEF nulls
  <2>4. Cardinality(nulls) \in {0, 1}
    BY <2>3, OneOfOne, FS_EmptySet
  <2>5. QED
    BY <2>4 DEF nulls
<1>6. reader # "completions" => value.bestOf.value = 1
  BY <1>1 DEF BestOfSays
<1>7. QED
  BY <1>2, <1>3, <1>4, <1>5, <1>6

LEMMA AskedTyped ==
    ASSUME ShapeInv, reader \in Shape!Endpoints, NEW key, NEW endpoints
    PROVE  AskedFor(key, endpoints) # {} /\ AskedFor(key, endpoints) \subseteq Int /\ IsFiniteSet(AskedFor(key, endpoints))
<1> DEFINE asks(v) == IF v.is = "integer" THEN v.n ELSE IF v.is = "null" /\ key = "best_of" THEN 1 ELSE 0
<1>1. CASE reader \notin endpoints \/ Values(key) = {}
  <2>1. AskedFor(key, endpoints) = {1}
    BY <1>1 DEF AskedFor
  <2>2. QED
    BY <2>1, OneOfOne
<1>2. CASE ~(reader \notin endpoints \/ Values(key) = {})
  <2> DEFINE f == [v \in Values(key) |-> asks(v)]
  <2>1. AskedFor(key, endpoints) = {asks(v) : v \in Values(key)}
    BY <1>2 DEF AskedFor
  <2>2. \A v \in Values(key) : asks(v) \in Int
    BY ValuesTyped
  <2>3. AskedFor(key, endpoints) # {} /\ AskedFor(key, endpoints) \subseteq Int
    <3> HIDE DEF asks
    <3>1. QED
      BY <1>2, <2>1, <2>2
  <2>4. AskedFor(key, endpoints) = {f[v] : v \in Values(key)}
    <3> HIDE DEF asks
    <3>1. QED
      BY <2>1
  <2>5. IsFiniteSet(Values(key)) /\ DOMAIN f = Values(key)
    BY ValuesTyped
  <2> HIDE DEF f
  <2>6. QED
    BY <2>3, <2>4, <2>5, ImageFinite
<1>3. QED
  BY <1>1, <1>2

LEMMA PromptsTyped ==
    ASSUME ShapeInv, reader \in Shape!Endpoints
    PROVE  AskedPrompts # {} /\ AskedPrompts \subseteq Nat
<1>1. \A v \in Values("prompt") : PromptsOf(v) \in Nat
  BY ValuesTyped, PromptOnce
<1>2. Times("prompt") = 0 <=> Values("prompt") = {}
  BY ValuesTyped
<1>3. QED
  BY <1>1, <1>2 DEF AskedPrompts

\* and if all who read it take it to ask for the same, its members agree.
LEMMA ClearAgrees ==
    ASSUME ShapeInv, reader \in Shape!Endpoints,
           Unambiguous
    PROVE  Agreed
<1> USE DEF Unambiguous
<1>1. reader \in {"chat", "completions", "responses"}
  BY DEF Shape!Endpoints
<1>2. NAsked # {} /\ NAsked \subseteq Nat \ {0} /\ IsFiniteSet(NAsked)
  <2>1. \A n \in NAsked : n \in Int /\ n >= 1
    BY AskedTyped DEF NAsked
  <2>2. NAsked # {} /\ IsFiniteSet(NAsked)
    BY AskedTyped DEF NAsked
  <2>3. QED
    BY <2>1, <2>2
<1>3. BestOfAsked # {} /\ BestOfAsked \subseteq Nat \ {0} /\ IsFiniteSet(BestOfAsked)
  <2>1. \A b \in BestOfAsked : b \in Int /\ b >= 1
    BY AskedTyped DEF BestOfAsked
  <2>2. BestOfAsked # {} /\ IsFiniteSet(BestOfAsked)
    BY AskedTyped DEF BestOfAsked
  <2>3. QED
    BY <2>1, <2>2
<1>4. AskedPrompts # {} /\ AskedPrompts \subseteq Nat \ {0}
  BY PromptsTyped
<1>5. \A n \in NAsked, b \in BestOfAsked : n <= MaxInt64 /\ b <= MaxInt64
  <2>1. PICK p \in AskedPrompts : TRUE
    BY <1>4
  <2>2. ASSUME NEW n \in NAsked, NEW b \in BestOfAsked PROVE n <= MaxInt64 /\ b <= MaxInt64
    <3>1. Asks(p, n, b) \in 1..MaxInt64
      BY <2>1, <2>2 DEF SequencesAsked
    <3>2. n \in Nat /\ b \in Nat /\ p \in Nat \ {0}
      BY <1>2, <1>3, <1>4, <2>1
    <3>3. Max({n, b}) \in Nat /\ n <= Max({n, b}) /\ b <= Max({n, b})
      BY <3>2, TwoMaximum
    <3>4. p * Max({n, b}) >= Max({n, b})
      BY <3>2, <3>3, ProductGrows
    <3>5. QED
      BY <3>1, <3>2, <3>3, <3>4, InputAssumption DEF Asks
  <2>3. QED
    BY <2>2
<1>6. (\A m, n \in NAsked : m = n) /\ (\A a, b \in BestOfAsked : a = b)
    <2>1. Cardinality(NAsked) = 1 /\ Cardinality(BestOfAsked) = 1
    BY DEF NAsked, BestOfAsked
  <2>2. QED
    BY <1>2, <1>3, <2>1, SameOfOne
<1>7. ASSUME reader \in {"chat", "completions"} PROVE NAgrees
  <2>1. ASSUME NEW v \in Values("n") PROVE Shape!PositiveInteger(v) /\ v.n \in NAsked
    <3>1. (IF v.is = "integer" THEN v.n ELSE 0) \in NAsked
      BY <1>7 DEF NAsked, AskedFor
    <3>2. (IF v.is = "integer" THEN v.n ELSE 0) \in 1..MaxInt64
      <4> DEFINE asks == IF v.is = "integer" THEN v.n ELSE 0
      <4> HIDE DEF asks
      <4>1. asks \in NAsked
        BY <3>1 DEF asks
      <4>2. asks \in Nat \ {0} /\ asks <= MaxInt64
        BY <1>2, <1>3, <1>5, <4>1
      <4>3. QED
        BY <4>2, InputAssumption DEF asks
    <3>3. QED
      BY <3>1, <3>2 DEF Shape!PositiveInteger
  <2>2. QED
    BY <1>6, <2>1 DEF NAgrees
<1>8. ASSUME reader = "completions" PROVE BestOfAgrees
  <2> DEFINE nulls == {v.is = "null" : v \in Values("best_of")}
             asks(v) == IF v.is = "integer" THEN v.n ELSE IF v.is = "null" THEN 1 ELSE 0
  <2>1. BestOfAsked = {asks(v) : v \in Values("best_of")} \/ Values("best_of") = {}
    BY <1>8 DEF BestOfAsked, AskedFor
  <2>2. \A v, w \in Values("best_of") : v.is = "null" <=> w.is = "null"
    <3>1. nulls \subseteq BOOLEAN /\ Cardinality(nulls) <= 1
      BY <1>8
    <3>2. IsFiniteSet(nulls)
      <4>1. IsFiniteSet({TRUE} \cup {FALSE})
        BY OneOfOne, FS_AddElement
      <4>2. nulls \subseteq {TRUE} \cup {FALSE}
        BY <3>1
      <4> HIDE DEF nulls
      <4>3. QED
        BY <4>1, <4>2, FS_Subset
    <3>3. \A a, b \in nulls : a = b
      <4>1. Cardinality(nulls) \in Nat
        BY <3>2, FS_CardinalityType
      <4> HIDE DEF nulls
      <4>2. QED
        BY <3>1, <3>2, <4>1, SameOfOne
    <3>4. ASSUME NEW v \in Values("best_of"), NEW w \in Values("best_of") PROVE v.is = "null" <=> w.is = "null"
      <4>1. (v.is = "null") \in nulls /\ (w.is = "null") \in nulls
        OBVIOUS
      <4> HIDE DEF nulls
      <4>2. (v.is = "null") = (w.is = "null")
        BY <3>3, <4>1, Zenon
      <4>3. QED
        BY <4>2
    <3>5. QED
      BY <3>4
  <2>3. ASSUME NEW v \in Values("best_of"), v.is # "null" PROVE Shape!PositiveInteger(v) /\ v.n \in BestOfAsked
    <3>1. asks(v) \in BestOfAsked
      BY <2>1, Zenon
    <3>2. asks(v) \in 1..MaxInt64
      <4> HIDE DEF asks
      <4>1. asks(v) \in Nat \ {0} /\ asks(v) <= MaxInt64
        BY <1>2, <1>3, <1>5, <3>1
      <4>2. QED
        BY <4>1, InputAssumption
    <3>3. QED
      BY <2>3, <3>1, <3>2 DEF Shape!PositiveInteger
  <2>4. QED
    BY <1>6, <2>2, <2>3 DEF BestOfAgrees
<1>9. ASSUME reader = "completions" PROVE PromptAgrees
  <2>1. Times("prompt") \in Nat /\ (Times("prompt") = 0 <=> Values("prompt") = {})
    BY ValuesTyped
  <2>2. Times("prompt") <= 1
    BY <1>4, <1>9, <2>1 DEF AskedPrompts
  <2>3. ASSUME NEW v \in Values("prompt") PROVE Shape!PromptCount(v) # {}
    <3>1. PromptsOf(v) \in AskedPrompts
      BY <1>9, <2>1, <2>2 DEF AskedPrompts
    <3>2. PromptsOf(v) # 0
      BY <1>4, <3>1
    <3>3. QED
      BY <3>2, ValuesTyped, PromptOnce
  <2>4. QED
    BY <2>2, <2>3 DEF PromptAgrees
<1>10. QED
  BY <1>7, <1>8, <1>9 DEF Agreed

LEMMA ShapeFollows ==
    ASSUME ShapeInv
    PROVE  ShapeExact
<1>0. CASE reader \notin Shape!Endpoints
  BY <1>0 DEF ShapeExact
<1> SUFFICES ASSUME reader \in Shape!Endpoints PROVE ShapeExact
  BY <1>0
<1> DEFINE charged == Shape!DecodeSequences(value, reader)
<1>1. {charged} = IF Unambiguous THEN SequencesAsked ELSE {0}
  <2>1. CASE ~value.supported
    <3>1. ~Unambiguous
      BY <2>1, ClearAgrees DEF ShapeInv
    <3>2. charged = 0
      BY <2>1 DEF Shape!DecodeSequences
    <3> HIDE DEF charged
    <3>3. QED
      BY <3>1, <3>2
  <2>2. CASE value.supported
    <3> DEFINE p == value.prompts
               n == value.n.value
               b == value.bestOf.value
               c == IF n >= b THEN n ELSE b
    <3>1. /\ n \in Nat \ {0} /\ NAsked = {n} /\ b \in Nat \ {0} /\ BestOfAsked = {b}
          /\ p \in Nat \ {0} /\ AskedPrompts = {p}
          /\ reader = "completions" => Cardinality({v.is = "null" : v \in Values("best_of")}) <= 1
          /\ reader # "completions" => b = 1
      BY <2>2, AgreedAsks
    <3>2. Asks(p, n, b) = p * c /\ Shape!Candidates(value, reader) = c
      <4>1. Shape!Candidates(value, reader) = IF reader = "completions" THEN Shape!Max({n, b}) ELSE n
        BY DEF Shape!Candidates
      <4> HIDE DEF p, n, b
      <4>2. Max({n, b}) = c /\ Shape!Max({n, b}) = c
        <5>1. n \in Int /\ b \in Int
          BY <3>1
        <5>2. QED
          BY <5>1, TwoMaximum
      <4>3. reader # "completions" => n = c
        BY <3>1
      <4>4. QED
        BY <4>1, <4>2, <4>3 DEF Asks
    <3>3. charged = IF p <= MaxInt64 \div c THEN p * c ELSE 0
      BY <2>2, <3>2 DEF Shape!DecodeSequences
    <3>4. SequencesAsked = {p * c}
      <4> HIDE DEF p, n, b, c
      <4>1. SequencesAsked = {Asks(p, n, b)}
        BY <3>1 DEF SequencesAsked
      <4>2. QED
        BY <3>2, <4>1
    <3>5. Cardinality(NAsked) = 1 /\ Cardinality(BestOfAsked) = 1
      BY <3>1, OneOfOne, Zenon
    <3>6. c \in Nat \ {0} /\ p \in Nat \ {0}
      BY <3>1
    <3>7. \A asks \in NAsked \cup BestOfAsked \cup AskedPrompts : asks >= 1
      <4> HIDE DEF p, n, b
      <4>1. QED
        BY <3>1
    <3> HIDE DEF charged, p, n, b, c
    <3>8. p * c \in Nat \ {0}
      BY <3>6, ProductGrows
    <3>9. Unambiguous <=> p * c <= MaxInt64
      BY <3>1, <3>4, <3>5, <3>7, <3>8, InputAssumption DEF Unambiguous
    <3>10. p <= MaxInt64 \div c <=> p * c <= MaxInt64
      BY <3>6, ProductFits, InputAssumption
    <3>11. QED
      BY <3>3, <3>4, <3>9, <3>10
  <2> HIDE DEF charged
  <2>3. QED
    BY <2>1, <2>2
<1>2. /\ value.streamKnown <=> SaidOfStream \in {{"true"}, {"false"}}
      /\ value.streaming /\ value.streamKnown => SaidOfStream = {"true"}
  BY DEF ShapeInv, StreamSays
<1>3. QED
  BY <1>1, <1>2 DEF ShapeExact

-----------------------------------------------------------------------------
(* The lines of a scrape.                                                  *)

AllLines == Lines \cup UNION {ToSet(scrape) : scrape \in Scrapes}
AllSamples == {line.sample : line \in {l \in AllLines : l.is = "sample"}}
AllTypes == {"none", "invalid"} \cup {line.type : line \in {l \in AllLines : l.is = "type"}}

IndexType == [samples : [Metrics!Metrics -> Seq(AllSamples)], types : [Metrics!Metrics -> AllTypes]]

\* What the first n lines give of a metric, and what they declare it to be.
SampledIn(lines, n, metric)  == {lines[i].sample : i \in {j \in 1..n : lines[j].is = "sample" /\ lines[j].metric = metric}}
DeclaredIn(lines, n, metric) == {lines[i].type : i \in {j \in 1..n : lines[j].is = "type" /\ lines[j].metric = metric}}

\* The index says what the first n lines do.
Indexes(lines, n, index) ==
    /\ index \in IndexType
    /\ \A metric \in Metrics!Metrics :
          /\ Metrics!SamplesOf(index, metric) = SampledIn(lines, n, metric)
          /\ index.types[metric] = "none" <=> DeclaredIn(lines, n, metric) = {}
          /\ index.types[metric] \notin {"none", "invalid"} =>
                DeclaredIn(lines, n, metric) = {index.types[metric]}

ScrapeInv ==
    reader = "scrape" => fed \in Seq(AllLines) /\ Indexes(fed, Len(fed), value)

LEMMA InMore ==
    ASSUME NEW lines, NEW n \in Nat, NEW metric
    PROVE  /\ SampledIn(lines, n + 1, metric) = SampledIn(lines, n, metric) \cup
                  (IF lines[n + 1].is = "sample" /\ lines[n + 1].metric = metric THEN {lines[n + 1].sample} ELSE {})
           /\ DeclaredIn(lines, n + 1, metric) = DeclaredIn(lines, n, metric) \cup
                  (IF lines[n + 1].is = "type" /\ lines[n + 1].metric = metric THEN {lines[n + 1].type} ELSE {})
<1>1. 1..(n + 1) = (1..n) \cup {n + 1}
  OBVIOUS
<1>2. QED
  BY <1>1 DEF SampledIn, DeclaredIn

\* One more line of a metric.
LEMMA IndexLineIs ==
    ASSUME NEW index \in IndexType, NEW line \in AllLines
    PROVE  LET after == Metrics!IndexLine(index, line)
           IN  /\ after \in IndexType
               /\ \A metric \in Metrics!Metrics :
                     /\ Metrics!SamplesOf(after, metric) = Metrics!SamplesOf(index, metric) \cup
                           (IF line.is = "sample" /\ line.metric = metric THEN {line.sample} ELSE {})
                     /\ after.types[metric] = IF line.is = "type" /\ line.metric = metric
                                              THEN IF index.types[metric] \in {"none", line.type}
                                                   THEN line.type ELSE "invalid"
                                              ELSE index.types[metric]
<1> DEFINE after == Metrics!IndexLine(index, line)
           of == line.metric
<1>1. IsLine(line)
  BY InputAssumption DEF AllLines
<1>2. CASE of \notin Metrics!Metrics
  <2>1. after = index
    BY <1>1, <1>2 DEF Metrics!IndexLine
  <2>2. QED
    BY <1>2, <2>1
<1>3. CASE of \in Metrics!Metrics /\ line.is = "type"
  <2> DEFINE type == IF index.types[of] \in {"none", line.type} THEN line.type ELSE "invalid"
  <2>1. after = [index EXCEPT !.types[of] = IF @ \in {"none", line.type} THEN line.type ELSE "invalid"]
    BY <1>3 DEF Metrics!IndexLine, Metrics!RecordType
  <2>2. type \in AllTypes
    BY <1>3 DEF AllTypes
  <2>3. after = [index EXCEPT !.types[of] = type]
    BY <2>1 DEF IndexType
  <2> HIDE DEF type, after
  <2>4. /\ after \in IndexType /\ after.samples = index.samples
        /\ \A metric \in Metrics!Metrics : after.types[metric] = IF metric = of THEN type ELSE index.types[metric]
    BY <1>3, <2>2, <2>3 DEF IndexType
  <2>5. QED
    BY <1>3, <2>4 DEF type, after, Metrics!SamplesOf
<1>4. CASE of \in Metrics!Metrics /\ line.is = "sample"
  <2>1. after = [index EXCEPT !.samples[of] = Append(@, line.sample)]
    BY <1>4 DEF Metrics!IndexLine
  <2>2. line.sample \in AllSamples
    BY <1>4 DEF AllSamples
  <2> DEFINE longer == Append(index.samples[of], line.sample)
  <2>3. index.samples[of] \in Seq(AllSamples)
    BY <1>4 DEF IndexType
  <2>4. longer \in Seq(AllSamples) /\ {longer[i] : i \in DOMAIN longer} = Metrics!SamplesOf(index, of) \cup {line.sample}
    <3>1. /\ longer \in Seq(AllSamples) /\ DOMAIN longer = DOMAIN index.samples[of] \cup {Len(index.samples[of]) + 1}
          /\ \A i \in DOMAIN index.samples[of] : longer[i] = index.samples[of][i]
          /\ longer[Len(index.samples[of]) + 1] = line.sample
          /\ Len(index.samples[of]) + 1 \notin DOMAIN index.samples[of]
      BY <2>2, <2>3, FedMore
    <3> HIDE DEF longer
    <3>2. QED
      BY <3>1 DEF Metrics!SamplesOf
  <2>5. after = [index EXCEPT !.samples[of] = longer]
    BY <2>1 DEF IndexType
  <2> HIDE DEF longer, after
  <2>6. /\ after \in IndexType /\ after.types = index.types
        /\ \A metric \in Metrics!Metrics : after.samples[metric] = IF metric = of THEN longer ELSE index.samples[metric]
    BY <1>4, <2>4, <2>5 DEF IndexType
  <2>7. QED
    BY <1>4, <2>4, <2>6 DEF after, Metrics!SamplesOf
<1>5. QED
  BY <1>1, <1>2, <1>3, <1>4 DEF IsLine

LEMMA IndexMore ==
    ASSUME NEW lines, NEW n \in Nat, NEW index, Indexes(lines, n, index), lines[n + 1] \in AllLines
    PROVE  Indexes(lines, n + 1, Metrics!IndexLine(index, lines[n + 1]))
<1> DEFINE line == lines[n + 1]
           after == Metrics!IndexLine(index, line)
<1>1. index \in IndexType /\ IsLine(line)
  BY InputAssumption DEF AllLines, Indexes
<1>2. /\ after \in IndexType
      /\ \A metric \in Metrics!Metrics :
            /\ Metrics!SamplesOf(after, metric) = Metrics!SamplesOf(index, metric) \cup
                  (IF line.is = "sample" /\ line.metric = metric THEN {line.sample} ELSE {})
            /\ after.types[metric] = IF line.is = "type" /\ line.metric = metric
                                     THEN IF index.types[metric] \in {"none", line.type}
                                          THEN line.type ELSE "invalid"
                                     ELSE index.types[metric]
  BY <1>1, IndexLineIs
<1> HIDE DEF after
<1>3. ASSUME NEW metric \in Metrics!Metrics
      PROVE  /\ Metrics!SamplesOf(after, metric) = SampledIn(lines, n + 1, metric)
             /\ after.types[metric] = "none" <=> DeclaredIn(lines, n + 1, metric) = {}
             /\ after.types[metric] \notin {"none", "invalid"} =>
                   DeclaredIn(lines, n + 1, metric) = {after.types[metric]}
  <2>1. /\ Metrics!SamplesOf(index, metric) = SampledIn(lines, n, metric)
        /\ index.types[metric] = "none" <=> DeclaredIn(lines, n, metric) = {}
        /\ index.types[metric] \notin {"none", "invalid"} =>
              DeclaredIn(lines, n, metric) = {index.types[metric]}
    BY DEF Indexes
  <2>2. /\ SampledIn(lines, n + 1, metric) = SampledIn(lines, n, metric) \cup
               (IF line.is = "sample" /\ line.metric = metric THEN {line.sample} ELSE {})
        /\ DeclaredIn(lines, n + 1, metric) = DeclaredIn(lines, n, metric) \cup
               (IF line.is = "type" /\ line.metric = metric THEN {line.type} ELSE {})
    BY InMore
  <2>3. CASE line.is = "type" /\ line.metric = metric
    BY <1>1, <1>2, <2>1, <2>2, <2>3 DEF IsLine
  <2>4. CASE ~(line.is = "type" /\ line.metric = metric)
    BY <1>2, <2>1, <2>2, <2>4
  <2>5. QED
    BY <2>3, <2>4
<1>4. QED
  BY <1>2, <1>3 DEF Indexes, after

\* The loop over the lines of a scrape computes what it says.
LEMMA ParseDefined ==
    ASSUME NEW lines, Len(lines) \in Nat
    PROVE  \E index :
              /\ index = [n \in 0..Len(lines) |->
                             IF n = 0 THEN Metrics!NoLines ELSE Metrics!IndexLine(index[n - 1], lines[n])]
              /\ Parse(lines) = index[Len(lines)]
<1> DEFINE Is(index, m) ==
             index = [n \in 0..m |-> IF n = 0 THEN Metrics!NoLines ELSE Metrics!IndexLine(index[n - 1], lines[n])]
           Missing == {m \in 0..Len(lines) : ~ \E index : Is(index, m)}
<1>1. Missing = {}
  <2>1. SUFFICES ASSUME Missing # {} PROVE FALSE
    OBVIOUS
  <2>2. PICK m \in Missing : \A n \in Missing : m <= n
    <3>1. Missing \in SUBSET Nat
      OBVIOUS
    <3> HIDE DEF Missing
    <3>2. QED
      BY <2>1, <3>1, NatMinimum
  <2>3. m # 0
    <3>1. Is([n \in 0..0 |-> Metrics!NoLines], 0)
      OBVIOUS
    <3>2. QED
      BY <3>1
  <2>4. m - 1 \in 0..Len(lines) /\ m - 1 \notin Missing
    <3>1. m \in 0..Len(lines)
      BY <2>2
    <3> HIDE DEF Missing
    <3>2. QED
      BY <2>2, <2>3, <3>1
  <2>5. PICK before : Is(before, m - 1)
    BY <2>4
  <2> DEFINE now == [n \in 0..m |-> IF n < m THEN before[n] ELSE Metrics!IndexLine(before[m - 1], lines[m])]
  <2>6. ASSUME NEW n \in 0..m
        PROVE  now[n] = IF n = 0 THEN Metrics!NoLines ELSE Metrics!IndexLine(now[n - 1], lines[n])
    <3>1. m - 1 \in Nat /\ m \in Nat /\ n \in Nat
      BY <2>4
    <3>2. CASE n < m
      <4>1. n \in 0..(m - 1) /\ now[n] = before[n]
        BY <3>1, <3>2
      <4>2. before[n] = IF n = 0 THEN Metrics!NoLines ELSE Metrics!IndexLine(before[n - 1], lines[n])
        BY <2>5, <4>1
      <4>3. n # 0 => now[n - 1] = before[n - 1]
        BY <3>1, <3>2
      <4>4. QED
        BY <4>1, <4>2, <4>3
    <3>3. CASE n = m
      BY <3>1, <3>3, <2>3
    <3>4. QED
      BY <3>1, <3>2, <3>3
  <2>7. Is(now, m)
    <3> DEFINE other == [n \in 0..m |-> IF n = 0 THEN Metrics!NoLines ELSE Metrics!IndexLine(now[n - 1], lines[n])]
    <3>1. \A n \in 0..m : now[n] = other[n]
      BY <2>6
    <3>2. QED
      BY <3>1
  <2> HIDE DEF now
  <2>8. QED
    BY <2>2, <2>7
<1>2. \E index : Is(index, Len(lines))
  BY <1>1
<1> DEFINE chosen == CHOOSE index : Is(index, Len(lines))
<1>3. Is(chosen, Len(lines))
  <2> HIDE DEF Is
  <2>1. QED
    BY <1>2
<1>4. Parse(lines) = chosen[Len(lines)]
  BY DEF Parse
<1> HIDE DEF chosen
<1>5. QED
  BY <1>3, <1>4

LEMMA NoLinesIndexed == \A lines : Indexes(lines, 0, Metrics!NoLines)
<1> DEFINE none == Metrics!NoLines
<1>1. none \in IndexType /\ \A metric \in Metrics!Metrics : none.samples[metric] = <<>> /\ none.types[metric] = "none"
  <2>1. <<>> \in Seq(AllSamples) /\ "none" \in AllTypes
    BY EmptySeq DEF AllTypes
  <2>2. QED
    BY <2>1 DEF Metrics!NoLines, IndexType
<1> HIDE DEF none
<1>2. ASSUME NEW lines PROVE Indexes(lines, 0, none)
  <2>1. \A metric : SampledIn(lines, 0, metric) = {} /\ DeclaredIn(lines, 0, metric) = {}
    BY DEF SampledIn, DeclaredIn
  <2>2. \A metric \in Metrics!Metrics : Metrics!SamplesOf(none, metric) = {}
    BY <1>1 DEF Metrics!SamplesOf
  <2>3. QED
    BY <1>1, <2>1, <2>2 DEF Indexes
<1>3. QED
  BY <1>2 DEF none

LEMMA ParseIndexes ==
    ASSUME NEW lines \in Seq(AllLines)
    PROVE  Indexes(lines, Len(lines), Parse(lines))
<1>1. Len(lines) \in Nat /\ \A n \in 1..Len(lines) : lines[n] \in AllLines
  BY LenProperties, ElementOfSeq
<1>2. PICK index :
         /\ index = [n \in 0..Len(lines) |->
                        IF n = 0 THEN Metrics!NoLines ELSE Metrics!IndexLine(index[n - 1], lines[n])]
         /\ Parse(lines) = index[Len(lines)]
  BY <1>1, ParseDefined
<1>3. /\ index[0] = Metrics!NoLines
      /\ \A n \in 1..Len(lines) : index[n] = Metrics!IndexLine(index[n - 1], lines[n])
  BY <1>1, <1>2
<1> DEFINE Missing == {n \in 0..Len(lines) : ~Indexes(lines, n, index[n])}
<1>4. ASSUME Missing # {} PROVE FALSE
  <2>1. PICK m \in Missing : \A n \in Missing : m <= n
    <3>1. Missing \in SUBSET Nat
      OBVIOUS
    <3> HIDE DEF Missing
    <3>2. QED
      BY <1>4, <3>1, NatMinimum
  <2>2. m # 0
    BY <1>3, NoLinesIndexed
  <2> DEFINE n == m - 1
  <2>3. n \in Nat /\ n \in 0..Len(lines) /\ n \notin Missing /\ n + 1 = m /\ m \in 1..Len(lines)
    BY <1>1, <2>1, <2>2
  <2>4. Indexes(lines, n, index[n]) /\ lines[n + 1] \in AllLines
    BY <1>1, <2>3
  <2>5. index[m] = Metrics!IndexLine(index[n], lines[n + 1])
    BY <1>3, <2>3
  <2> HIDE DEF n
  <2>6. Indexes(lines, n + 1, Metrics!IndexLine(index[n], lines[n + 1]))
    BY <2>3, <2>4, IndexMore
  <2>7. QED
    BY <2>1, <2>3, <2>5, <2>6
<1>5. Indexes(lines, Len(lines), index[Len(lines)])
  <2>1. Len(lines) \in 0..Len(lines) /\ Len(lines) \notin Missing
    <3> HIDE DEF Missing
    <3>1. QED
      BY <1>1, <1>4
  <2>2. QED
    BY <2>1
<1>6. QED
  BY <1>2, <1>5

LEMMA ReadLineKeeps ==
    ASSUME ScrapeInv, NEW line \in Lines, ReadLine(line)
    PROVE  ScrapeInv'
<1>1. /\ reader = "scrape" /\ reader' = reader /\ fed' = Append(fed, line)
      /\ value' = Metrics!IndexLine(value, line)
  BY DEF ReadLine, Feed
<1>2. fed \in Seq(AllLines) /\ Indexes(fed, Len(fed), value) /\ line \in AllLines
  BY <1>1 DEF ScrapeInv, AllLines
<1> DEFINE n == Len(fed)
<1>3. /\ fed' \in Seq(AllLines) /\ Len(fed') = n + 1 /\ n \in Nat
      /\ \A i \in 1..n : fed'[i] = fed[i]
      /\ fed'[n + 1] = line
  BY <1>1, <1>2, AppendProperties, LenProperties
<1> HIDE DEF n
<1>4. \A metric : SampledIn(fed', n, metric) = SampledIn(fed, n, metric) /\ DeclaredIn(fed', n, metric) = DeclaredIn(fed, n, metric)
  BY <1>3 DEF SampledIn, DeclaredIn
<1>5. Indexes(fed', n, value)
  BY <1>2, <1>4 DEF Indexes, n
<1>6. Indexes(fed', n + 1, Metrics!IndexLine(value, fed'[n + 1]))
  BY <1>2, <1>3, <1>5, IndexMore
<1>7. QED
  BY <1>1, <1>3, <1>6 DEF ScrapeInv

-----------------------------------------------------------------------------
(* What a scrape is taken to say.                                          *)

LEMMA MetricsCardinality == \A S : Metrics!Cardinality(S) = Cardinality(S)
BY DEF Metrics!Cardinality, Metrics!IsFiniteSet, Cardinality, IsFiniteSet

\* The largest of finitely many numbers and one more.
LEMMA Largest ==
    ASSUME NEW n \in Nat, NEW f, NEW D \in SUBSET (1..n), \A i \in D : f[i] \in Int,
           NEW base \in Int
    PROVE  \E x \in {base} \cup {f[i] : i \in D} : \A y \in {base} \cup {f[i] : i \in D} : x >= y
<1> DEFINE Upto(k) == {base} \cup {f[i] : i \in D \cap (1..k)}
           Missing == {k \in 0..n : ~ \E x \in Upto(k) : \A y \in Upto(k) : x >= y}
<1>1. ASSUME Missing # {} PROVE FALSE
  <2>1. PICK k \in Missing : \A j \in Missing : k <= j
    <3>1. Missing \in SUBSET Nat
      OBVIOUS
    <3> HIDE DEF Missing
    <3>2. QED
      BY <1>1, <3>1, NatMinimum
  <2>2. k \in 0..n /\ ~ \E x \in Upto(k) : \A y \in Upto(k) : x >= y
    OBVIOUS
  <2>3. k # 0
    <3>1. Upto(0) = {base}
      OBVIOUS
    <3>2. QED
      BY <2>2, <3>1
  <2>4. k - 1 \in 0..n /\ k - 1 \notin Missing
    <3> HIDE DEF Missing, Upto
    <3>1. QED
      BY <2>1, <2>2, <2>3
  <2>5. PICK x \in Upto(k - 1) : \A y \in Upto(k - 1) : x >= y
    BY <2>4
  <2>6. Upto(k) = Upto(k - 1) \cup (IF k \in D THEN {f[k]} ELSE {})
    <3>1. 1..k = (1..(k - 1)) \cup {k}
      <4>1. k \in Nat \ {0}
        BY <2>2, <2>3
      <4> HIDE DEF Missing, Upto
      <4>2. QED
        BY <4>1
    <3>2. QED
      BY <3>1
  <2>7. x \in Int /\ (k \in D => f[k] \in Int) /\ \A y \in Upto(k - 1) : y \in Int
    OBVIOUS
  <2> HIDE DEF Missing, Upto
  <2>8. CASE k \in D /\ f[k] > x
    BY <2>2, <2>5, <2>6, <2>7, <2>8
  <2>9. CASE ~(k \in D /\ f[k] > x)
    BY <2>2, <2>5, <2>6, <2>7, <2>9
  <2>10. QED
    BY <2>8, <2>9
<1>2. n \in 0..n /\ n \notin Missing
  <2> HIDE DEF Missing
  <2>1. QED
    BY <1>1
<1>3. Upto(n) = {base} \cup {f[i] : i \in D}
  OBVIOUS
<1>4. \E x \in Upto(n) : \A y \in Upto(n) : x >= y
  BY <1>2
<1> HIDE DEF Upto
<1>5. QED
  BY <1>3, <1>4

\* What the index holds is what the lines say.
LEMMA SampledIs ==
    ASSUME ScrapeInv, reader = "scrape"
    PROVE  /\ Len(fed) \in Nat /\ DOMAIN fed = 1..Len(fed)
           /\ \A i \in DOMAIN fed : IsLine(fed[i])
           /\ value \in IndexType
           /\ \A metric \in Metrics!Metrics :
                 /\ Sampled({metric}) = Metrics!SamplesOf(value, metric)
                 /\ Declared(metric) = {} <=> value.types[metric] = "none"
                 /\ \A type : type \notin {"none", "invalid"} /\ Metrics!Typed(value, metric, type) =>
                       Cardinality(Declared(metric)) = 1
                 /\ metric \in Mentioned => Metrics!Has(value, metric)
<1>1. fed \in Seq(AllLines) /\ Indexes(fed, Len(fed), value)
  BY DEF ScrapeInv
<1>2. Len(fed) \in Nat /\ DOMAIN fed = 1..Len(fed) /\ \A i \in 1..Len(fed) : fed[i] \in AllLines
  BY <1>1, LenProperties, ElementOfSeq
<1>3. \A i \in DOMAIN fed : IsLine(fed[i])
  BY <1>2, InputAssumption DEF AllLines
<1>4. ASSUME NEW metric \in Metrics!Metrics
      PROVE  /\ Sampled({metric}) = Metrics!SamplesOf(value, metric)
             /\ Declared(metric) = {} <=> value.types[metric] = "none"
             /\ \A type : type \notin {"none", "invalid"} /\ Metrics!Typed(value, metric, type) =>
                   Cardinality(Declared(metric)) = 1
             /\ metric \in Mentioned => Metrics!Has(value, metric)
  <2>1. Sampled({metric}) = SampledIn(fed, Len(fed), metric) /\ Declared(metric) = DeclaredIn(fed, Len(fed), metric)
    BY <1>2 DEF Sampled, Declared, SampledIn, DeclaredIn
  <2>2. /\ Sampled({metric}) = Metrics!SamplesOf(value, metric)
        /\ value.types[metric] = "none" <=> Declared(metric) = {}
        /\ value.types[metric] \notin {"none", "invalid"} => Declared(metric) = {value.types[metric]}
    BY <1>1, <2>1 DEF Indexes
  <2>3. ASSUME NEW type, type \notin {"none", "invalid"}, Metrics!Typed(value, metric, type)
        PROVE  Cardinality(Declared(metric)) = 1
    BY <2>2, <2>3, OneOfOne DEF Metrics!Typed
  <2>4. ASSUME metric \in Mentioned PROVE Metrics!Has(value, metric)
    <3>1. PICK i \in DOMAIN fed : fed[i].metric = metric
      BY <2>4 DEF Mentioned
    <3>2. CASE fed[i].is = "type"
      <4>1. Declared(metric) # {}
        BY <3>1, <3>2 DEF Declared
      <4>2. QED
        BY <2>2, <4>1 DEF Metrics!Has, Metrics!Typed
    <3>3. CASE fed[i].is = "sample"
      <4>1. Sampled({metric}) # {}
        BY <3>1, <3>3 DEF Sampled
      <4>2. QED
        BY <2>2, <4>1 DEF Metrics!Has, Metrics!HasSamples
    <3>4. QED
      BY <1>3, <3>2, <3>3 DEF IsLine
  <2>5. QED
    BY <2>2, <2>3, <2>4
<1>5. QED
  BY <1>1, <1>2, <1>3, <1>4 DEF Indexes

\* The samples of several metrics, and the labels of those.
LEMMA LabelsAre ==
    ASSUME ScrapeInv, reader = "scrape", NEW metrics \in SUBSET Metrics!Metrics, NEW label
    PROVE  Metrics!LabelsOf(value, metrics, label) = {s.labels[label] : s \in Sampled(metrics)}
<1>1. \A metric \in metrics : Sampled({metric}) = Metrics!SamplesOf(value, metric)
  BY SampledIs
<1>2. Sampled(metrics) = UNION {Sampled({metric}) : metric \in metrics}
  BY DEF Sampled
<1>3. Metrics!LabelsOf(value, metrics, label) = UNION {{s.labels[label] : s \in Sampled({metric})} : metric \in metrics}
  BY <1>1 DEF Metrics!LabelsOf
<1> DEFINE all == {s.labels[label] : s \in Sampled(metrics)}
<1>4. ASSUME NEW l \in Metrics!LabelsOf(value, metrics, label) PROVE l \in all
  <2>1. PICK metric \in metrics : l \in {s.labels[label] : s \in Sampled({metric})}
    BY <1>3
  <2>2. PICK s \in Sampled({metric}) : l = s.labels[label]
    BY <2>1
  <2>3. s \in Sampled(metrics)
    BY <1>2
  <2>4. QED
    BY <2>2, <2>3
<1>5. ASSUME NEW s \in Sampled(metrics) PROVE s.labels[label] \in Metrics!LabelsOf(value, metrics, label)
  <2>1. PICK metric \in metrics : s \in Sampled({metric})
    BY <1>2
  <2>2. s.labels[label] \in {t.labels[label] : t \in Sampled({metric})}
    BY <2>1
  <2>3. QED
    BY <1>3, <2>2
<1>6. QED
  BY <1>4, <1>5

Untiered(metric) == {s.value : s \in {t \in Sampled({metric}) : t.labels.priority = ""}}

\* What a number of requests that can be used is.
LEMMA GaugeIs ==
    ASSUME ScrapeInv, reader = "scrape", NEW metric \in Metrics!Metrics,
           Metrics!RequestGauge(value, metric) # {}
    PROVE  /\ Metrics!RequestGauge(value, metric) =
                 IF Sampled({metric}) = {} THEN {0} ELSE {Max({0} \cup Untiered(metric))}
           /\ Sampled({metric}) # {} => Untiered(metric) # {} /\ Metrics!Typed(value, metric, "gauge")
<1> DEFINE samples == Metrics!SamplesOf(value, metric)
           included == {s \in samples : s.labels.priority = ""}
           total == Metrics!Total(value, metric)
           numbers == {s.value : s \in included}
<1>1. samples = Sampled({metric})
  BY SampledIs
<1>2. numbers = Untiered(metric)
  BY <1>1 DEF Untiered
<1>3. total = IF included # {} /\ Metrics!AllReadable(value, metric) THEN {Metrics!Max(numbers)} ELSE {}
  BY DEF Metrics!Total, Metrics!MaximumOf
<1>4. Metrics!RequestGauge(value, metric) =
        IF total # {} THEN Metrics!Exact(value, metric, "gauge", total)
        ELSE IF samples # {} \/ (Metrics!Has(value, metric) /\ ~Metrics!Typed(value, metric, "gauge"))
        THEN {} ELSE {0}
  BY DEF Metrics!RequestGauge, Metrics!HasSamples
<1>5. CASE samples = {}
  <2>1. included = {}
    BY <1>5
  <2>2. total = {}
    <3> HIDE DEF included, numbers, total
    <3>1. QED
      BY <1>3, <2>1
  <2> HIDE DEF samples, included, numbers, total
  <2>3. Metrics!RequestGauge(value, metric) = {0}
    BY <1>4, <1>5, <2>2
  <2>4. QED
    BY <1>1, <1>5, <2>3
<1>6. CASE samples # {}
  <2>1. included # {} /\ total = {Metrics!Max(numbers)} /\ Metrics!Typed(value, metric, "gauge")
        /\ Metrics!RequestGauge(value, metric) = total /\ Metrics!Max(numbers) >= 0
    <3> HIDE DEF samples, included, numbers, total
    <3>1. total # {} /\ Metrics!RequestGauge(value, metric) = Metrics!Exact(value, metric, "gauge", total)
      BY <1>4, <1>6
    <3>2. included # {} /\ total = {Metrics!Max(numbers)}
      BY <1>3, <3>1
    <3>3. QED
      BY <3>1, <3>2 DEF Metrics!Exact
  <2>2. numbers # {}
    BY <2>1
  <2>3. /\ \E x \in numbers : \A y \in numbers : x >= y
        /\ \A x \in numbers : x \in Int
    <3> DEFINE f == [i \in 1..Len(fed) |-> fed[i].sample.value]
               D == {i \in 1..Len(fed) : fed[i].is = "sample" /\ fed[i].metric = metric /\ fed[i].sample.labels.priority = ""}
    <3>1. Len(fed) \in Nat /\ DOMAIN fed = 1..Len(fed) /\ \A i \in DOMAIN fed : IsLine(fed[i])
      BY SampledIs
    <3>2. Untiered(metric) = {f[i] : i \in D}
      BY <3>1 DEF Untiered, Sampled
    <3>3. \A i \in D : f[i] \in Int
      BY <3>1 DEF IsLine
    <3>4. D \in SUBSET (1..Len(fed))
      OBVIOUS
    <3> HIDE DEF f, D, numbers
    <3>5. PICK base \in numbers : TRUE
      BY <2>2
    <3>6. base \in Int
      BY <1>2, <3>2, <3>3, <3>5
    <3>7. \E x \in {base} \cup {f[i] : i \in D} : \A y \in {base} \cup {f[i] : i \in D} : x >= y
      BY <3>1, <3>3, <3>4, <3>6, Largest
    <3>8. {base} \cup {f[i] : i \in D} = numbers
      BY <1>2, <3>2, <3>5
    <3>9. QED
      BY <1>2, <3>2, <3>3, <3>7, <3>8
  <2> HIDE DEF samples, included, numbers, total
  <2>4. Metrics!Max(numbers) = Max({0} \cup numbers)
    <3>1. Metrics!Max(numbers) \in numbers /\ \A y \in numbers : Metrics!Max(numbers) >= y
      BY <2>3 DEF Metrics!Max
    <3>2. Metrics!Max(numbers) >= 0
      BY <2>1
    <3>3. /\ Max({0} \cup numbers) \in {0} \cup numbers
          /\ \A y \in {0} \cup numbers : Max({0} \cup numbers) >= y
      BY <2>3, <3>1, <3>2 DEF Max
    <3>4. QED
      BY <2>3, <3>1, <3>2, <3>3
  <2>5. QED
    BY <1>1, <1>2, <1>6, <2>1, <2>2, <2>4
<1>7. QED
  BY <1>5, <1>6

\* A sample that can be used is of one of the two frameworks, and the other has
\* no line.
LEMMA UsableIs ==
    ASSUME ScrapeInv, reader = "scrape", Metrics!Usable(Metrics!ParseSample(value))
    PROVE  LET sample == Metrics!ParseSample(value)
               parsed == IF sample.kind = "vllm" THEN Metrics!ParseVLLM(value) ELSE Metrics!ParseSGLang(value)
           IN  /\ sample.kind \in {"vllm", "sglang"}
               /\ sample.kind = "vllm" => Mentioned \cap Metrics!SGLangSignatures = {}
               /\ sample.kind = "sglang" => Mentioned \cap Metrics!VLLMSignatures = {}
               /\ sample.model = parsed.model /\ parsed.model # {}
               /\ sample.running = parsed.running /\ parsed.running # {}
               /\ sample.waiting = parsed.waiting /\ parsed.waiting # {}
               /\ sample.preemptions = parsed.preemptions /\ parsed.preemptions # {}
               /\ sample.generation = parsed.generation /\ parsed.generation # {}
<1> DEFINE sample == Metrics!ParseSample(value)
           vllm   == \E metric \in Metrics!VLLMSignatures : Metrics!Has(value, metric)
           sglang == \E metric \in Metrics!SGLangSignatures : Metrics!Has(value, metric)
           ofVLLM   == Metrics!ParseVLLM(value)
           ofSGLang == Metrics!ParseSGLang(value)
           start == Metrics!RuntimeStartTime(value)
<1>1. sample = [(IF vllm /\ ~sglang THEN ofVLLM ELSE IF sglang /\ ~vllm THEN ofSGLang ELSE Metrics!NoSample)
                   EXCEPT !.startTime = start]
  BY DEF Metrics!ParseSample
<1>2. /\ ofVLLM = [kind |-> "vllm", model |-> ofVLLM.model, running |-> ofVLLM.running, waiting |-> ofVLLM.waiting,
                   preemptions |-> ofVLLM.preemptions, generation |-> ofVLLM.generation,
                   prefill |-> ofVLLM.prefill, startTime |-> ofVLLM.startTime]
      /\ ofSGLang = [kind |-> "sglang", model |-> ofSGLang.model, running |-> ofSGLang.running, waiting |-> ofSGLang.waiting,
                   preemptions |-> ofSGLang.preemptions, generation |-> ofSGLang.generation,
                   prefill |-> ofSGLang.prefill, startTime |-> ofSGLang.startTime]
  BY DEF Metrics!ParseVLLM, Metrics!ParseSGLang
<1>3. \A metric \in Mentioned \cap Metrics!Metrics : Metrics!Has(value, metric)
  BY SampledIs
<1>4. (Mentioned \cap Metrics!VLLMSignatures # {} => vllm) /\ (Mentioned \cap Metrics!SGLangSignatures # {} => sglang)
  BY <1>3 DEF Metrics!Metrics
<1>5. sample.kind # "" /\ sample.model # {} /\ sample.running # {} /\ sample.waiting # {}
      /\ sample.preemptions # {} /\ sample.generation # {}
  BY DEF Metrics!Usable
<1> HIDE DEF sample, vllm, sglang, ofVLLM, ofSGLang, start
<1>6. CASE vllm /\ ~sglang
  <2>1. sample = [ofVLLM EXCEPT !.startTime = start]
    BY <1>1, <1>6
  <2>2. /\ sample.kind = "vllm" /\ sample.model = ofVLLM.model /\ sample.running = ofVLLM.running
        /\ sample.waiting = ofVLLM.waiting /\ sample.preemptions = ofVLLM.preemptions
        /\ sample.generation = ofVLLM.generation
    BY <1>2, <2>1
  <2>3. QED
    BY <1>4, <1>5, <1>6, <2>2 DEF sample, ofVLLM
<1>7. CASE sglang /\ ~vllm
  <2>1. sample = [ofSGLang EXCEPT !.startTime = start]
    BY <1>1, <1>7
  <2>2. /\ sample.kind = "sglang" /\ sample.model = ofSGLang.model /\ sample.running = ofSGLang.running
        /\ sample.waiting = ofSGLang.waiting /\ sample.preemptions = ofSGLang.preemptions
        /\ sample.generation = ofSGLang.generation
    BY <1>2, <2>1
  <2>3. QED
    BY <1>4, <1>5, <1>7, <2>2 DEF sample, ofSGLang
<1>8. CASE (vllm /\ sglang) \/ (~vllm /\ ~sglang)
  <2>1. sample = [Metrics!NoSample EXCEPT !.startTime = start]
    BY <1>1, <1>8
  <2>2. sample.kind = ""
    BY <2>1 DEF Metrics!NoSample
  <2>3. QED
    BY <1>5, <2>2
<1>9. QED
  BY <1>6, <1>7, <1>8

Requests == {"sglang:num_running_reqs", "sglang:num_queue_reqs"}

\* The numbers of requests of an SGLang sample that can be used.
LEMMA RequestsAre ==
    ASSUME ScrapeInv, reader = "scrape", Metrics!Usable(Metrics!ParseSample(value)),
           Metrics!ParseSample(value).kind = "sglang"
    PROVE  /\ Metrics!ParseSample(value).running = Metrics!RequestGauge(value, "sglang:num_running_reqs")
           /\ Metrics!ParseSample(value).waiting = Metrics!RequestGauge(value, "sglang:num_queue_reqs")
           /\ \A metric \in Requests : metric \in Metrics!Metrics /\ Metrics!RequestGauge(value, metric) # {}
<1>1. /\ Metrics!ParseSample(value).running = Metrics!RequestGauges(value).running
      /\ Metrics!ParseSample(value).waiting = Metrics!RequestGauges(value).waiting
      /\ Metrics!ParseSample(value).running # {} /\ Metrics!ParseSample(value).waiting # {}
  <2>1. /\ Metrics!ParseSGLang(value).running = Metrics!RequestGauges(value).running
        /\ Metrics!ParseSGLang(value).waiting = Metrics!RequestGauges(value).waiting
    BY DEF Metrics!ParseSGLang
  <2>2. QED
    BY <2>1, UsableIs
<1>2. /\ Metrics!RequestGauges(value).running \in {{}, Metrics!RequestGauge(value, "sglang:num_running_reqs")}
      /\ Metrics!RequestGauges(value).waiting \in {{}, Metrics!RequestGauge(value, "sglang:num_queue_reqs")}
  BY DEF Metrics!RequestGauges
<1>3. \A metric \in Requests : metric \in Metrics!Metrics
  BY DEF Requests, Metrics!Metrics, Metrics!SGLangSignatures, Metrics!AdmissionIdentity
<1>4. QED
  BY <1>1, <1>2, <1>3 DEF Requests

LEMMA TotalsFollow ==
    ASSUME ScrapeInv
    PROVE  TotalsOnly
<1> SUFFICES ASSUME reader = "scrape", Metrics!Usable(Metrics!ParseSample(value)),
                    Metrics!ParseSample(value).kind = "sglang"
             PROVE  TotalsOnly
  BY DEF TotalsOnly
<1>1. \A metric \in Requests :
        /\ Metrics!RequestGauge(value, metric) =
              IF Sampled({metric}) = {} THEN {0} ELSE {Max({0} \cup Untiered(metric))}
        /\ Sampled({metric}) # {} => Untiered(metric) # {}
  BY RequestsAre, GaugeIs
<1>2. QED
  BY <1>1, RequestsAre DEF TotalsOnly, Untiered, Requests

LEMMA BackendFollows ==
    ASSUME ScrapeInv
    PROVE  OneBackend
<1> DEFINE sample == Metrics!ParseSample(value)
           own == IF sample.kind = "vllm" THEN Metrics!VLLMIdentity ELSE Metrics!AdmissionIdentity
<1> SUFFICES ASSUME reader = "scrape", Metrics!Usable(sample)
             PROVE  OneBackend
  BY DEF OneBackend
<1>1. Metrics!VLLMIdentity \in SUBSET Metrics!Metrics /\ Metrics!AdmissionIdentity \in SUBSET Metrics!Metrics
      /\ Metrics!VLLMIdentity \in SUBSET Metrics!VLLMSignatures /\ Requests \in SUBSET Metrics!SGLangSignatures
      /\ Requests \in SUBSET Metrics!Metrics
  BY DEF Metrics!Metrics, Metrics!VLLMSignatures, Metrics!SGLangSignatures, Metrics!AdmissionIdentity, Requests
<1>2. Metrics!VLLMIdentity # Metrics!AdmissionIdentity
  <2>1. "vllm:num_requests_running" \in Metrics!VLLMIdentity
    BY DEF Metrics!VLLMIdentity, Metrics!VLLMGauges
  <2>2. "vllm:num_requests_running" \notin Metrics!AdmissionIdentity
    BY DEF Metrics!AdmissionIdentity, Metrics!StaticIdentity, Metrics!KVGauges
  <2>3. QED
    BY <2>1, <2>2
<1>3. \A metric : metric \notin Mentioned => Sampled({metric}) = {}
  BY DEF Mentioned, Sampled
<1>4. CASE sample.kind = "vllm"
  <2>1. Metrics!ParseVLLM(value).model # {} /\ sample.model = Metrics!ParseVLLM(value).model
        /\ Mentioned \cap Metrics!SGLangSignatures = {}
    BY <1>4, UsableIs
  <2>2. sample.model = Metrics!LabelsOf(value, Metrics!VLLMIdentity, "model")
    BY <2>1 DEF Metrics!ParseVLLM, Metrics!RequiredUniqueLabel
  <2>3. {s.labels.model : s \in Sampled(own)} = sample.model
    <3>1. Metrics!LabelsOf(value, Metrics!VLLMIdentity, "model") = {s.labels["model"] : s \in Sampled(Metrics!VLLMIdentity)}
      BY <1>1, LabelsAre
    <3>2. QED
      BY <1>4, <2>2, <3>1
  <2>4. \A metric \in Metrics!VLLMIdentity : \E type \in {"gauge", "counter"} : Metrics!Typed(value, metric, type)
    <3> DEFINE read(metric, type) == Metrics!Exact(value, metric, type, Metrics!SumOf(value, metric))
    <3>1. /\ read("vllm:num_requests_running", "gauge") # {} /\ read("vllm:num_requests_waiting", "gauge") # {}
          /\ read("vllm:num_preemptions_total", "counter") # {} /\ read("vllm:generation_tokens_total", "counter") # {}
      BY <1>4, UsableIs DEF Metrics!ParseVLLM
    <3>2. \A metric, type : read(metric, type) # {} => Metrics!Typed(value, metric, type)
      BY DEF Metrics!Exact
    <3> HIDE DEF read
    <3>3. QED
      BY <3>1, <3>2 DEF Metrics!VLLMIdentity, Metrics!VLLMGauges, Metrics!VLLMCounters
  <2>5. \A metric \in Metrics!VLLMIdentity : Cardinality(Declared(metric)) = 1
    BY <1>1, <2>4, SampledIs
  <2>6. \A metric \in Requests : Sampled({metric}) = {}
    BY <1>1, <1>3, <2>1
  <2>7. QED
    BY <1>2, <1>4, <2>1, <2>3, <2>5, <2>6 DEF OneBackend, Requests
<1>5. CASE sample.kind = "sglang"
  <2>1. Metrics!ParseSGLang(value).model # {} /\ sample.model = Metrics!ParseSGLang(value).model
        /\ Mentioned \cap Metrics!VLLMSignatures = {}
    BY <1>5, UsableIs
  <2>2. /\ sample.model = Metrics!SGLangModel(value) /\ Metrics!SGLangModel(value) # {}
    BY <2>1 DEF Metrics!ParseSGLang
  <2>3. /\ sample.model = Metrics!UniqueLabelAcrossPresent(value, Metrics!AdmissionIdentity, "model", FALSE)
        /\ Metrics!UniqueLabelAcrossPresent(value, Metrics!AdmissionIdentity, "model", FALSE) # {}
        /\ Metrics!UniqueLabelAcrossPresent(value, Metrics!AdmissionIdentity, "rank", TRUE) # {}
    BY <2>2 DEF Metrics!SGLangModel
  <2>4. /\ sample.model = Metrics!LabelsOf(value, Metrics!AdmissionIdentity, "model")
        /\ Metrics!Cardinality(Metrics!LabelsOf(value, Metrics!AdmissionIdentity, "rank")) = 1
    BY <2>3 DEF Metrics!UniqueLabelAcrossPresent
  <2>5. own = Metrics!AdmissionIdentity
    BY <1>5
  <2>6. {s.labels.model : s \in Sampled(own)} = sample.model
    <3>1. Metrics!LabelsOf(value, Metrics!AdmissionIdentity, "model") = {s.labels["model"] : s \in Sampled(Metrics!AdmissionIdentity)}
      BY <1>1, LabelsAre
    <3>2. QED
      BY <2>4, <2>5, <3>1
  <2>7. Cardinality({s.labels.rank : s \in Sampled(own)}) = 1
    <3>1. Metrics!LabelsOf(value, Metrics!AdmissionIdentity, "rank") = {s.labels["rank"] : s \in Sampled(Metrics!AdmissionIdentity)}
      BY <1>1, LabelsAre
    <3>2. QED
      BY <2>4, <2>5, <3>1, MetricsCardinality
  <2>8. \A metric \in Requests : Sampled({metric}) # {} => Metrics!Typed(value, metric, "gauge")
    BY <1>5, RequestsAre, GaugeIs
  <2>9. \A metric \in Requests : Sampled({metric}) # {} => Cardinality(Declared(metric)) = 1
    BY <1>1, <2>8, SampledIs
  <2>10. \A metric \in Metrics!VLLMIdentity : Sampled({metric}) = {}
    BY <1>1, <1>3, <2>1
  <2>11. QED
    BY <2>1, <2>6, <2>7, <2>9, <2>10 DEF OneBackend, Requests
<1>6. QED
  BY <1>4, <1>5, UsableIs

\* A scrape begins with lines of its own, which the loop has read.
LEMMA ScrapeBegins ==
    ASSUME Init
    PROVE  ScrapeInv
<1>1. ASSUME reader = "scrape" PROVE fed \in Seq(AllLines) /\ Indexes(fed, Len(fed), value)
  <2>1. fed \in Scrapes /\ value = Parse(fed)
    BY <1>1 DEF Init, Shape!Endpoints
  <2>2. fed \in Seq(ToSet(fed)) /\ ToSet(fed) \subseteq AllLines
    BY <2>1, InputAssumption DEF AllLines
  <2>3. fed \in Seq(AllLines)
    <3>1. Len(fed) \in Nat /\ fed = [i \in 1..Len(fed) |-> fed[i]] /\ \A i \in 1..Len(fed) : fed[i] \in ToSet(fed)
      BY <2>2, LenProperties, ElementOfSeq
    <3>2. QED
      BY <2>2, <3>1, IsASeq
  <2>4. QED
    BY <2>1, <2>3, ParseIndexes
<1>2. QED
  BY <1>1 DEF ScrapeInv

-----------------------------------------------------------------------------
(* Sums.                                                                   *)

\* The sums that the definition of SumTo goes through.
LEMMA SumDefined ==
    ASSUME NEW f, NEW n \in Nat
    PROVE  \E upto :
              /\ upto = [k \in 0..n |-> IF k = 0 THEN 0 ELSE upto[k - 1] + f[k]]
              /\ SumTo(f, n) = upto[n]
<1> DEFINE Is(upto, m) == upto = [k \in 0..m |-> IF k = 0 THEN 0 ELSE upto[k - 1] + f[k]]
           Missing == {m \in 0..n : ~ \E upto : Is(upto, m)}
<1>1. Missing = {}
  <2>1. SUFFICES ASSUME Missing # {} PROVE FALSE
    OBVIOUS
  <2>2. PICK m \in Missing : \A k \in Missing : m <= k
    <3>1. Missing \in SUBSET Nat
      OBVIOUS
    <3> HIDE DEF Missing
    <3>2. QED
      BY <2>1, <3>1, NatMinimum
  <2>3. m # 0
    <3>1. Is([k \in 0..0 |-> 0], 0)
      OBVIOUS
    <3>2. QED
      BY <3>1
  <2>4. m - 1 \in 0..n /\ m - 1 \notin Missing
    <3>1. m \in 0..n
      BY <2>2
    <3> HIDE DEF Missing
    <3>2. QED
      BY <2>2, <2>3, <3>1
  <2>5. PICK before : Is(before, m - 1)
    BY <2>4
  <2> DEFINE now == [k \in 0..m |-> IF k < m THEN before[k] ELSE before[m - 1] + f[m]]
  <2>6. ASSUME NEW k \in 0..m
        PROVE  now[k] = IF k = 0 THEN 0 ELSE now[k - 1] + f[k]
    <3>1. m - 1 \in Nat /\ m \in Nat /\ k \in Nat
      BY <2>4
    <3>2. CASE k < m
      <4>1. k \in 0..(m - 1) /\ now[k] = before[k]
        BY <3>1, <3>2
      <4>2. before[k] = IF k = 0 THEN 0 ELSE before[k - 1] + f[k]
        BY <2>5, <4>1
      <4>3. k # 0 => now[k - 1] = before[k - 1]
        BY <3>1, <3>2
      <4>4. QED
        BY <4>1, <4>2, <4>3
    <3>3. CASE k = m
      <4>1. now[k] = before[m - 1] + f[m]
        BY <3>1, <3>3
      <4>2. now[k - 1] = before[k - 1]
        BY <3>1, <3>3
      <4>3. QED
        BY <2>3, <3>3, <4>1, <4>2
    <3>4. QED
      BY <3>1, <3>2, <3>3
  <2>7. now = [k \in 0..m |-> now[k]]
    OBVIOUS
  <2>8. Is(now, m)
    <3> HIDE DEF now
    <3>1. QED
      BY <2>6, <2>7
  <2>9. QED
    BY <2>2, <2>8
<1>2. PICK some : Is(some, n)
  BY <1>1
<1>3. SumTo(f, n) = (CHOOSE upto : Is(upto, n))[n]
  BY DEF SumTo
<1>4. Is(CHOOSE u : Is(u, n), n)
  <2> HIDE DEF Is, Missing
  <2>1. QED
    BY <1>2, Zenon
<1>5. QED
  BY <1>3, <1>4

\* Whatever grows by each of the numbers is their sum.
LEMMA SumIs ==
    ASSUME NEW f, NEW n \in Nat, NEW s, s[0] = 0, \A k \in 1..n : s[k] = s[k - 1] + f[k]
    PROVE  SumTo(f, n) = s[n]
<1>1. PICK upto : /\ upto = [k \in 0..n |-> IF k = 0 THEN 0 ELSE upto[k - 1] + f[k]]
                  /\ SumTo(f, n) = upto[n]
  BY SumDefined
<1>2. upto[0] = 0 /\ \A k \in 1..n : upto[k] = upto[k - 1] + f[k]
  BY <1>1
<1> DEFINE Wrong == {k \in 0..n : upto[k] # s[k]}
<1>3. ASSUME Wrong # {} PROVE FALSE
  <2>1. PICK m \in Wrong : \A k \in Wrong : m <= k
    <3>1. Wrong \in SUBSET Nat
      OBVIOUS
    <3> HIDE DEF Wrong
    <3>2. QED
      BY <1>3, <3>1, NatMinimum
  <2>2. m \in 0..n /\ m # 0 /\ upto[m] # s[m]
    BY <1>2
  <2>3. m - 1 \in 0..n /\ m - 1 \notin Wrong
    BY <2>1, <2>2
  <2>4. QED
    BY <1>2, <2>2, <2>3
<1>4. QED
  BY <1>1, <1>3

LEMMA SumMore ==
    ASSUME NEW f, NEW n \in Nat
    PROVE  /\ SumTo(f, 0) = 0
           /\ n # 0 => SumTo(f, n) = SumTo(f, n - 1) + f[n]
<1>1. PICK upto : /\ upto = [k \in 0..n |-> IF k = 0 THEN 0 ELSE upto[k - 1] + f[k]]
                  /\ SumTo(f, n) = upto[n]
  BY SumDefined
<1>2. upto[0] = 0 /\ \A k \in 1..n : upto[k] = upto[k - 1] + f[k]
  BY <1>1
<1>3. \A k \in 0..n : SumTo(f, k) = upto[k]
  BY <1>2, SumIs
<1>4. QED
  BY <1>1, <1>2, <1>3

LEMMA SumSame ==
    ASSUME NEW n \in Nat, NEW f, NEW g, \A k \in 1..n : f[k] = g[k]
    PROVE  SumTo(f, n) = SumTo(g, n)
<1> DEFINE s == [k \in 0..n |-> SumTo(g, k)]
<1>1. s[0] = 0
  BY SumMore
<1>2. ASSUME NEW k \in 1..n PROVE s[k] = s[k - 1] + f[k]
  BY SumMore
<1> HIDE DEF s
<1>3. SumTo(f, n) = s[n]
  BY <1>1, <1>2, SumIs
<1>4. QED
  BY <1>3 DEF s

LEMMA SumNone ==
    ASSUME NEW n \in Nat, NEW f, \A k \in 1..n : f[k] = 0
    PROVE  SumTo(f, n) = 0
<1> DEFINE s == [k \in 0..n |-> 0]
<1>1. s[0] = 0 /\ \A k \in 1..n : s[k] = s[k - 1] + f[k]
  OBVIOUS
<1>2. s[n] = 0
  OBVIOUS
<1> HIDE DEF s
<1>3. QED
  BY <1>1, <1>2, SumIs

LEMMA SumType ==
    ASSUME NEW n \in Nat, NEW f, \A k \in 1..n : f[k] \in Int
    PROVE  \A m \in 0..n : SumTo(f, m) \in Int
<1> DEFINE Wrong == {k \in 0..n : SumTo(f, k) \notin Int}
<1>1. ASSUME Wrong # {} PROVE FALSE
  <2>1. PICK m \in Wrong : \A k \in Wrong : m <= k
    <3>1. Wrong \in SUBSET Nat
      OBVIOUS
    <3> HIDE DEF Wrong
    <3>2. QED
      BY <1>1, <3>1, NatMinimum
  <2>2. m \in 0..n /\ SumTo(f, m) \notin Int
    BY <2>1
  <2>3. m # 0
    BY <2>2, SumMore
  <2>4. m - 1 \in 0..n /\ SumTo(f, m - 1) \in Int
    BY <2>1, <2>2, <2>3
  <2>5. SumTo(f, m) = SumTo(f, m - 1) + f[m] /\ f[m] \in Int
    BY <2>2, <2>3, SumMore
  <2>6. QED
    BY <2>2, <2>4, <2>5
<1>2. QED
  BY <1>1

\* One of the numbers has changed.
LEMMA SumPoint ==
    ASSUME NEW n \in Nat, NEW f, NEW g, NEW p \in 1..n, NEW v \in Int,
           \A k \in 1..n : f[k] \in Int,
           g[p] = f[p] + v, \A k \in 1..n : k # p => g[k] = f[k]
    PROVE  SumTo(g, n) = SumTo(f, n) + v
<1> DEFINE s == [k \in 0..n |-> IF k < p THEN SumTo(f, k) ELSE SumTo(f, k) + v]
<1>1. \A k \in 0..n : SumTo(f, k) \in Int
  BY SumType
<1>2. s[0] = 0
  BY SumMore
<1>3. ASSUME NEW k \in 1..n PROVE s[k] = s[k - 1] + g[k]
  <2>1. SumTo(f, k) = SumTo(f, k - 1) + f[k] /\ SumTo(f, k - 1) \in Int /\ f[k] \in Int
    BY <1>1, SumMore
  <2>2. g[k] = IF k = p THEN f[k] + v ELSE f[k]
    OBVIOUS
  <2>3. s[k] = IF k < p THEN SumTo(f, k) ELSE SumTo(f, k) + v
    OBVIOUS
  <2>4. s[k - 1] = IF k - 1 < p THEN SumTo(f, k - 1) ELSE SumTo(f, k - 1) + v
    OBVIOUS
  <2> HIDE DEF s
  <2>5. QED
    BY <2>1, <2>2, <2>3, <2>4
<1>4. s[n] = SumTo(f, n) + v
  OBVIOUS
<1> HIDE DEF s
<1>5. SumTo(g, n) = s[n]
  BY <1>2, <1>3, SumIs
<1>6. QED
  BY <1>4, <1>5

\* g is f with the numbers of c added, each at a place of its own.
AddsTo(f, n, g, c, place, first, last) ==
    /\ \A k \in 1..n : f[k] \in Int
    /\ \A s \in first..last : place[s] \in 1..n /\ c[s] \in Int /\ g[place[s]] = f[place[s]] + c[s]
    /\ \A s, t \in first..last : place[s] = place[t] => s = t
    /\ \A k \in 1..n : (\A s \in first..last : place[s] # k) => g[k] = f[k]

\* Their own sum is what the sum grows by.
LEMMA SumPlaces ==
    ASSUME NEW n \in Nat, NEW f, NEW g, NEW c, NEW place,
           NEW first \in Int, NEW last \in Int, first <= last,
           AddsTo(f, n, g, c, place, first, last),
           NEW h, h[first - 1] = 0,
           \A s \in (first - 1)..last : h[s] \in Int,
           \A s \in first..last : h[s] = h[s - 1] + c[s]
    PROVE  SumTo(g, n) = SumTo(f, n) + h[last]
<1> DEFINE part(m) == [k \in 1..n |-> IF \E s \in first..m : place[s] = k THEN g[k] ELSE f[k]]
           Wrong == {m \in 0..(last - first + 1) : SumTo(part(first - 1 + m), n) # SumTo(f, n) + h[first - 1 + m]}
<1>1. SumTo(f, n) \in Int
  <2>1. \A m \in 0..n : SumTo(f, m) \in Int
    BY SumType DEF AddsTo
  <2>2. QED
    BY <2>1
<1>2. \A k \in 1..n : g[k] \in Int
  BY DEF AddsTo
<1>3. ASSUME Wrong # {} PROVE FALSE
  <2>1. PICK m \in Wrong : \A k \in Wrong : m <= k
    <3>1. Wrong \in SUBSET Nat
      OBVIOUS
    <3> HIDE DEF Wrong
    <3>2. QED
      BY <1>3, <3>1, NatMinimum
  <2>2. m \in 0..(last - first + 1) /\ SumTo(part(first - 1 + m), n) # SumTo(f, n) + h[first - 1 + m]
    BY <2>1
  <2>3. m # 0
    <3>1. ASSUME m = 0 PROVE FALSE
      <4>1. \A k \in 1..n : part(first - 1)[k] = f[k]
        OBVIOUS
      <4> HIDE DEF part
      <4>2. SumTo(part(first - 1), n) = SumTo(f, n)
        BY <4>1, SumSame
      <4>3. first - 1 + m = first - 1
        BY <3>1
      <4> HIDE DEF Wrong
      <4>4. QED
        BY <1>1, <2>2, <4>2, <4>3
    <3>2. QED
      BY <3>1
  <2> DEFINE now == first - 1 + m
  <2>4. now \in first..last /\ now - 1 = first - 1 + (m - 1)
    BY <2>2, <2>3
  <2>5. SumTo(part(now - 1), n) = SumTo(f, n) + h[now - 1]
    <3>1. m - 1 \in 0..(last - first + 1) /\ m - 1 \notin Wrong
      <4>1. m - 1 \in 0..(last - first + 1) /\ ~(m <= m - 1)
        BY <2>2, <2>3
      <4> HIDE DEF Wrong
      <4>2. QED
        BY <2>1, <4>1
    <3>2. QED
      BY <2>4, <3>1
  <2> HIDE DEF now
  <2>6. ASSUME NEW k \in 1..n
        PROVE  /\ part(now - 1)[k] \in Int
               /\ part(now)[k] = IF k = place[now] THEN part(now - 1)[k] + c[now] ELSE part(now - 1)[k]
    <3>1. first..now = (first..(now - 1)) \cup {now} /\ now \notin first..(now - 1)
      BY <2>4
    <3>2. first..now \subseteq first..last
      BY <2>4
    <3>3. part(now - 1)[k] \in Int /\ f[k] \in Int
      BY <1>2 DEF AddsTo
    <3>4. CASE k = place[now]
      <4>1. ~ \E s \in first..(now - 1) : place[s] = k
        BY <2>4, <3>1, <3>2, <3>4 DEF AddsTo
      <4>2. part(now - 1)[k] = f[k]
        BY <4>1
      <4>3. part(now)[k] = g[k]
        BY <3>1, <3>4
      <4>4. g[k] = f[k] + c[now]
        BY <2>4, <3>4 DEF AddsTo
      <4>5. QED
        BY <3>3, <3>4, <4>2, <4>3, <4>4
    <3>5. CASE k # place[now]
      <4>1. (\E s \in first..now : place[s] = k) <=> (\E s \in first..(now - 1) : place[s] = k)
        BY <3>1, <3>5
      <4>2. QED
        BY <3>3, <3>5, <4>1
    <3>6. QED
      BY <3>4, <3>5, <3>3
  <2>7. SumTo(part(now), n) = SumTo(part(now - 1), n) + c[now]
    <3>1. place[now] \in 1..n /\ c[now] \in Int
      BY <2>4 DEF AddsTo
    <3>2. ASSUME NEW old, NEW new, old = part(now - 1), new = part(now),
                 NEW p \in 1..n, p = place[now], NEW v \in Int, v = c[now]
          PROVE  SumTo(new, n) = SumTo(old, n) + v
      <4>1. \A k \in 1..n : old[k] \in Int
        BY <2>6, <3>2
      <4>2. new[p] = old[p] + v
        BY <2>6, <3>2
      <4>3. \A k \in 1..n : k # p => new[k] = old[k]
        BY <2>6, <3>2
      <4>4. QED
        BY <4>1, <4>2, <4>3, SumPoint
    <3> HIDE DEF part
    <3>3. QED
      BY <3>1, <3>2
  <2>8. h[now] = h[now - 1] + c[now] /\ c[now] \in Int
    BY <2>4 DEF AddsTo
  <2>9. SumTo(part(now - 1), n) \in Int
    <3>1. n \in 0..n
      OBVIOUS
    <3> HIDE DEF part
    <3>2. QED
      BY <2>6, <3>1, SumType
  <2>10. SumTo(part(now), n) # SumTo(f, n) + h[now]
    BY <2>2 DEF now
  <2>11. h[now - 1] \in Int
    BY <2>4
  <2> HIDE DEF part, Wrong
  <2>12. QED
    BY <1>1, <2>5, <2>7, <2>8, <2>10, <2>11
<1>4. QED
  <2>1. last - first + 1 \in 0..(last - first + 1) /\ first - 1 + (last - first + 1) = last
    OBVIOUS
  <2>2. SumTo(part(last), n) = SumTo(f, n) + h[last]
    <3>1. last - first + 1 \notin Wrong
      <4> HIDE DEF Wrong
      <4>1. QED
        BY <1>3
    <3>2. QED
      BY <2>1, <3>1
  <2>3. \A k \in 1..n : part(last)[k] = g[k]
    BY DEF AddsTo
  <2> DEFINE all == part(last)
  <2> HIDE DEF part
  <2>4. \A k \in 1..n : all[k] = g[k]
    BY <2>3
  <2> HIDE DEF all
  <2>5. SumTo(all, n) = SumTo(g, n)
    BY <2>4, SumSame
  <2>6. QED
    BY <2>2, <2>5 DEF all

-----------------------------------------------------------------------------
(* The TPS window.                                                         *)

IsTime(time) == time = [wall |-> time.wall, mono |-> time.mono] /\ time.wall \in Nat /\ time.mono \in Nat

\* A second that has begun before the moment, and has not left the window then.
InWindow(second, now) ==
    /\ second \in Int
    /\ second * TicksPerSecond < now
    /\ (second + 1) * TicksPerSecond > now - WindowTicks

LEMMA TimesMonotone ==
    ASSUME NEW a \in Int, NEW b \in Int, NEW t \in Nat \ {0}, a * t < b * t
    PROVE  a < b
<1>1. ASSUME a >= b PROVE FALSE
  <2>1. PICK d \in Nat : a = b + d
    BY <1>1
  <2>2. d * t >= 0 /\ a * t = b * t + d * t
    BY <2>1
  <2>3. QED
    BY <2>2
<1>2. QED
  BY <1>1

LEMMA SecondIs ==
    ASSUME NEW tick \in Int
    PROVE  /\ Second(tick) \in Int
           /\ Second(tick) * TicksPerSecond <= tick
           /\ (Second(tick) + 1) * TicksPerSecond > tick
BY WindowAssumption DEF Second

LEMMA DivideBack ==
    ASSUME NEW a \in Int, NEW n \in Nat \ {0}
    PROVE  a = n * (a \div n) + (a % n) /\ a \div n \in Int /\ a % n \in 0..(n - 1)
<1>1. a = n * (a \div n) + (a % n)
  OBVIOUS
<1>2. a \div n \in Int
  OBVIOUS
<1>3. a % n \in 0..(n - 1)
  OBVIOUS
<1>4. QED
  BY <1>1, <1>2, <1>3

LEMMA SamePlace ==
    ASSUME NEW a \in Int, NEW b \in Int, NEW n \in Nat \ {0}, a % n = b % n, a <= b, b - a < n
    PROVE  a = b
<1> DEFINE p == a \div n
           q == b \div n
           r == a % n
           d == q - p
<1>1. /\ a = n * p + r /\ p \in Int /\ r \in 0..(n - 1)
      /\ b = n * q + r /\ q \in Int
  <2>1. a = n * p + r /\ p \in Int /\ r \in 0..(n - 1)
    BY DivideBack
  <2>2. b = n * q + (b % n) /\ q \in Int
    BY DivideBack
  <2> HIDE DEF p, q
  <2>3. QED
    BY <2>1, <2>2
<1> HIDE DEF p, q, r
<1>2. b - a = n * d /\ d \in Int
  BY <1>1
<1> HIDE DEF d
<1>3. d < 1
  <2>1. ASSUME d >= 1 PROVE FALSE
    <3>1. PICK e \in Nat : d = 1 + e
      BY <1>2, <2>1
    <3>2. n * d = n + n * e /\ n * e >= 0
      BY <3>1
    <3>3. QED
      BY <1>2, <3>2
  <2>2. QED
    BY <1>2, <2>1
<1>4. d > -1
  <2>1. ASSUME d <= -1 PROVE FALSE
    <3>1. PICK e \in Nat : d = -1 - e
      BY <1>2, <2>1
    <3>2. n * d = -n - n * e /\ n * e >= 0
      BY <3>1
    <3>3. QED
      BY <1>2, <3>2
  <2>2. QED
    BY <1>2, <2>1
<1>5. d = 0
  BY <1>2, <1>3, <1>4
<1>6. QED
  BY <1>2, <1>5

\* The ring has a place for every second of the window.
LEMMA RingFits ==
    ASSUME NEW now \in Int, NEW a, NEW b, InWindow(a, now), InWindow(b, now), Index(a) = Index(b)
    PROVE  a = b
<1>1. ASSUME NEW x, NEW y, InWindow(x, now), InWindow(y, now), Index(x) = Index(y), x <= y
      PROVE  x = y
  <2>1. /\ WindowSeconds \in Nat \ {0} /\ TicksPerSecond \in Nat \ {0} /\ x \in Int /\ y \in Int
        /\ y * TicksPerSecond < now /\ (x + 1) * TicksPerSecond > now - WindowSeconds * TicksPerSecond
    BY <1>1, WindowAssumption DEF InWindow, WindowTicks
  <2>2. (x + 1) * TicksPerSecond + WindowSeconds * TicksPerSecond = (x + 1 + WindowSeconds) * TicksPerSecond
    BY <2>1
  <2>3. /\ y * TicksPerSecond \in Int /\ (x + 1) * TicksPerSecond \in Int
        /\ WindowSeconds * TicksPerSecond \in Int
    BY <2>1
  <2>4. y * TicksPerSecond < (x + 1 + WindowSeconds) * TicksPerSecond
    BY <2>1, <2>2, <2>3
  <2>5. y < x + 1 + WindowSeconds
    BY <2>1, <2>4, TimesMonotone
  <2>6. QED
    BY <1>1, <2>1, <2>5, SamePlace DEF Index, BucketCount
<1>2. a \in Int /\ b \in Int
  BY DEF InWindow
<1>3. CASE a <= b
  BY <1>1, <1>3
<1>4. CASE b <= a
  BY <1>1, <1>4
<1>5. QED
  BY <1>2, <1>3, <1>4

\* Between clocks that agree, an interval that counts touches only seconds of the
\* window that ends with it.
LEMMA SecondsInWindow ==
    ASSUME NEW sample, IsTime(sample.start), IsTime(sample.end),
           sample.start.wall = sample.start.mono, sample.end.wall = sample.end.mono,
           Interval(sample) >= 1,
           NEW s \in Seconds(sample)
    PROVE  InWindow(s, sample.end.wall)
<1> DEFINE from == CursorWall(sample)
           to == sample.end.wall
<1>1. WindowTicks \in Nat \ {0}
  BY WindowAssumption DEF WindowTicks
<1>2. from \in Int /\ from < to /\ from >= to - WindowTicks /\ to \in Nat
  BY <1>1 DEF CursorWall, IsTime, Interval
<1> HIDE DEF from, to
<1>3. s \in Second(from)..Max({Second(from), Second(to - 1)})
  BY DEF Seconds, from, to
<1>4. /\ Second(from) \in Int /\ Second(from) * TicksPerSecond <= from
      /\ (Second(from) + 1) * TicksPerSecond > from
      /\ Second(to - 1) \in Int /\ Second(to - 1) * TicksPerSecond <= to - 1
      /\ (Second(to - 1) + 1) * TicksPerSecond > to - 1
  BY <1>2, SecondIs
<1>5. s \in Int /\ s >= Second(from) /\ (s <= Second(from) \/ s <= Second(to - 1))
  BY <1>3, <1>4, TwoMaximum
<1>6. TicksPerSecond \in Nat \ {0}
  BY WindowAssumption
<1>7. \A a, b \in Int : a <= b => a * TicksPerSecond <= b * TicksPerSecond
  <2>1. ASSUME NEW a \in Int, NEW b \in Int, a <= b PROVE a * TicksPerSecond <= b * TicksPerSecond
    <3>1. PICK d \in Nat : b = a + d
      BY <2>1
    <3>2. b * TicksPerSecond = a * TicksPerSecond + d * TicksPerSecond /\ d * TicksPerSecond >= 0
      BY <1>6, <3>1
    <3>3. QED
      BY <1>6, <3>2
  <2>2. QED
    BY <2>1
<1>8. \A a \in Int : a * TicksPerSecond \in Int
  BY <1>6
<1>9. s * TicksPerSecond < to
  BY <1>2, <1>4, <1>5, <1>7, <1>8
<1>10. (s + 1) * TicksPerSecond > from
  <2>1. (Second(from) + 1) * TicksPerSecond <= (s + 1) * TicksPerSecond
    BY <1>4, <1>5, <1>7
  <2>2. QED
    BY <1>2, <1>4, <1>5, <1>8, <2>1
<1>11. (s + 1) * TicksPerSecond > to - WindowTicks
  BY <1>1, <1>2, <1>5, <1>8, <1>10
<1>12. QED
  BY <1>5, <1>9, <1>11 DEF InWindow, to

Moments      == [wall : Nat, mono : Nat]
Samples      == [start : Moments, end : Moments, tokens : Nat, previousRunning : Nat, running : Nat,
                 forwarded : Nat, response : Nat]
Observations == [sample : Samples, reset : BOOLEAN]

\* An interval of some length between clocks that agree.
Agreeing(sample) ==
    /\ sample \in Samples
    /\ sample.start.wall = sample.start.mono /\ sample.end.wall = sample.end.mono
    /\ Interval(sample) >= 1

LEMMA TimesKeep ==
    ASSUME NEW a \in Int, NEW b \in Int, a <= b, NEW t \in Nat
    PROVE  a * t <= b * t /\ a * t \in Int /\ b * t \in Int
<1>1. PICK d \in Nat : b = a + d
  OBVIOUS
<1>2. b * t = a * t + d * t /\ d * t >= 0 /\ a * t \in Int /\ d * t \in Int
  BY <1>1
<1>3. QED
  BY <1>2

\* The second of a tick is the one whose boundaries it lies between.
LEMMA SecondBetween ==
    ASSUME NEW tick \in Int, NEW k \in Int
    PROVE  /\ Second(tick) = k <=> k * TicksPerSecond <= tick /\ tick < (k + 1) * TicksPerSecond
           /\ Second(tick) <= k <=> tick < (k + 1) * TicksPerSecond
           /\ Second(tick) >= k <=> k * TicksPerSecond <= tick
<1> DEFINE s == Second(tick)
           t == TicksPerSecond
<1>1. t \in Nat \ {0}
  BY WindowAssumption
<1>2. s \in Int /\ s * t <= tick /\ (s + 1) * t > tick
  BY SecondIs
<1> HIDE DEF s, t
<1>3. /\ s * t \in Int /\ (s + 1) * t \in Int /\ k * t \in Int /\ (k + 1) * t \in Int
  BY <1>1, <1>2
<1>4. ASSUME s <= k PROVE tick < (k + 1) * t
  <2>1. (s + 1) * t <= (k + 1) * t
    BY <1>1, <1>2, <1>4, TimesKeep
  <2>2. QED
    BY <1>2, <1>3, <2>1
<1>5. ASSUME tick < (k + 1) * t PROVE s <= k
  <2>1. s * t < (k + 1) * t
    BY <1>2, <1>3, <1>5
  <2>2. s < k + 1
    BY <1>1, <1>2, <2>1, TimesMonotone
  <2>3. QED
    BY <1>2, <2>2
<1>6. ASSUME s >= k PROVE k * t <= tick
  <2>1. k * t <= s * t
    BY <1>1, <1>2, <1>6, TimesKeep
  <2>2. QED
    BY <1>2, <1>3, <2>1
<1>7. ASSUME k * t <= tick PROVE s >= k
  <2>1. k * t < (s + 1) * t
    BY <1>2, <1>3, <1>7
  <2>2. k < s + 1
    BY <1>1, <1>2, <2>1, TimesMonotone
  <2>3. QED
    BY <1>2, <2>2
<1>8. s = k <=> s <= k /\ s >= k
  BY <1>2
<1>9. QED
  BY <1>4, <1>5, <1>6, <1>7, <1>8 DEF s, t

\* An interval between clocks that agree is cut from where it is in the window to
\* its end, by a loop over the seconds between.
LEMMA CutFrom ==
    ASSUME NEW sample, Agreeing(sample)
    PROVE  LET from == CursorWall(sample)
               to   == sample.end.wall
           IN  /\ from \in Int /\ to \in Nat /\ from < to
               /\ from = Max({sample.start.wall, to - WindowTicks})
               /\ from = CursorMono(sample)
               /\ Second(from) \in Int /\ Second(to - 1) \in Int /\ Second(from) <= Second(to - 1)
               /\ Seconds(sample) = Second(from)..Second(to - 1)
               /\ Max(Seconds(sample)) = Second(to - 1)
<1> DEFINE from == CursorWall(sample)
           to   == sample.end.wall
<1>1. WindowTicks \in Nat \ {0}
  BY WindowAssumption DEF WindowTicks
<1>2. /\ sample.start.wall \in Nat /\ sample.start.mono \in Nat /\ to \in Nat /\ sample.end.mono \in Nat
      /\ sample.start.wall = sample.start.mono /\ to = sample.end.mono
      /\ to - sample.start.wall >= 1
  BY DEF Agreeing, Samples, Moments, Interval
<1>3. from = IF sample.start.mono < sample.end.mono - WindowTicks THEN to - WindowTicks ELSE sample.start.wall
  BY DEF CursorWall
<1> HIDE DEF to, from
<1>4. from \in Int /\ from < to /\ (from = sample.start.wall \/ from = to - WindowTicks)
      /\ from >= sample.start.wall /\ from >= to - WindowTicks
  BY <1>1, <1>2, <1>3
<1>5. from = Max({sample.start.wall, to - WindowTicks})
  <2>1. \A m \in {sample.start.wall, to - WindowTicks} : from >= m
    BY <1>4
  <2>2. from \in {sample.start.wall, to - WindowTicks}
    BY <1>4
  <2>3. {sample.start.wall, to - WindowTicks} \subseteq Int
    BY <1>1, <1>2
  <2>4. QED
    BY <2>1, <2>2, <2>3 DEF Max
<1>6. from = CursorMono(sample)
  BY <1>2, <1>5 DEF CursorMono, to
<1> DEFINE first == Second(from)
           last == Second(to - 1)
<1>7. first \in Int /\ last \in Int
  BY <1>2, <1>4, SecondIs
<1>8. first <= last
  <2>1. first * TicksPerSecond <= from
    BY <1>4, SecondIs
  <2>2. first * TicksPerSecond \in Int
    BY <1>7, WindowAssumption
  <2>3. first * TicksPerSecond <= to - 1
    BY <1>2, <1>4, <2>1, <2>2
  <2>4. to - 1 \in Int
    BY <1>2
  <2> HIDE DEF first
  <2>5. last >= first
    BY <1>7, <2>3, <2>4, SecondBetween
  <2>6. QED
    BY <1>7, <2>5
<1>9. Seconds(sample) = first..Max({first, last})
  BY DEF Seconds, from, to
<1> HIDE DEF first, last
<1>10. Max({first, last}) = last
  BY <1>7, <1>8 DEF Max
<1>11. Max(first..last) = last
  BY <1>7, <1>8 DEF Max
<1>12. QED
  BY <1>2, <1>4, <1>5, <1>6, <1>7, <1>8, <1>9, <1>10, <1>11 DEF from, to, first, last

\* The ticks of an interval that lie in one of its seconds are as many as the
\* segment has that the loop cuts off for it.
LEMMA TicksOfSecond ==
    ASSUME NEW sample, Agreeing(sample), NEW k \in Seconds(sample)
    PROVE  LET ticks == {tick \in CursorWall(sample)..(sample.end.wall - 1) : Second(tick) = k}
           IN  /\ k \in Int
               /\ IsFiniteSet(ticks) /\ Cardinality(ticks) = SegmentTicks(sample, k)
               /\ SegmentTicks(sample, k) \in Nat
<1> DEFINE from == CursorWall(sample)
           to   == sample.end.wall
           t    == TicksPerSecond
           first == Second(from)
           last  == Second(to - 1)
           ticks == {tick \in from..(to - 1) : Second(tick) = k}
           begin == IF from >= k * t THEN from ELSE k * t
           end   == IF (k + 1) * t > to THEN to ELSE (k + 1) * t
<1>1. /\ from \in Int /\ to \in Nat /\ from < to /\ from = CursorMono(sample)
      /\ first \in Int /\ last \in Int /\ first <= last
      /\ Seconds(sample) = first..last
  BY CutFrom
<1>2. k \in Int /\ first <= k /\ k <= last /\ t \in Nat \ {0} /\ to = sample.end.mono
  BY <1>1, WindowAssumption DEF Agreeing
<1>3. k * t \in Int /\ (k + 1) * t \in Int /\ (k + 1) * t = k * t + t
  BY <1>2
<1>4. from < (k + 1) * t
  BY <1>1, <1>2, SecondBetween
<1>5. k * t <= to - 1
  BY <1>1, <1>2, SecondBetween
<1>6. \A tick \in Int : Second(tick) = k <=> k * t <= tick /\ tick < (k + 1) * t
  BY <1>2, SecondBetween
<1>7. k = first <=> k * t <= from
  <2>1. first >= k <=> k * t <= from
    BY <1>1, <1>2, SecondBetween
  <2> HIDE DEF first, from, t
  <2>2. QED
    BY <1>1, <1>2, <2>1
<1>8. SegmentTicks(sample, k) = end - begin
  <2>1. Max({from, k * t}) = begin
    BY <1>1, <1>3, TwoMaximum
  <2>2. SegmentTicks(sample, k) = IF (k + 1) * t > to
                                  THEN IF k = first THEN to - from ELSE to - begin
                                  ELSE (k + 1) * t - begin
    BY <1>1, <1>2, <2>1 DEF SegmentTicks
  <2>3. k = first => begin = from
    BY <1>1, <1>3, <1>7
  <2> HIDE DEF from, to, t, first, begin
  <2>4. QED
    BY <2>2, <2>3
<1> HIDE DEF from, to, t, first, last
<1>9. begin \in Int /\ end \in Int /\ begin < end
  BY <1>1, <1>2, <1>3, <1>4, <1>5
<1>10. ticks = begin..(end - 1)
  <2>1. ASSUME NEW tick \in Int
        PROVE  tick \in ticks <=> tick \in begin..(end - 1)
    BY <1>1, <1>3, <1>6, <2>1
  <2>2. ticks \subseteq Int /\ begin..(end - 1) \subseteq Int
    BY <1>1, <1>9
  <2> HIDE DEF ticks, begin, end
  <2>3. QED
    BY <2>1, <2>2
<1> HIDE DEF begin, end
<1>11. IsFiniteSet(begin..(end - 1)) /\ Cardinality(begin..(end - 1)) = end - begin
  BY <1>9, FS_Interval
<1> HIDE DEF ticks
<1>12. IsFiniteSet(ticks) /\ Cardinality(ticks) = SegmentTicks(sample, k)
  BY <1>8, <1>10, <1>11
<1>13. SegmentTicks(sample, k) \in Nat
  BY <1>8, <1>9
<1>14. QED
  BY <1>2, <1>12, <1>13 DEF ticks, from, to

\* Those of its ticks whose second is in the window, second by second.
TicksTo(sample, now, k) == {tick \in TicksAt(sample, now) : Second(tick) <= k}

LEMMA TicksBySecond ==
    ASSUME NEW sample, Agreeing(sample), NEW now \in Int
    PROVE  LET first == Second(CursorWall(sample))
               last  == Second(sample.end.wall - 1)
               count(k) == Cardinality(TicksTo(sample, now, k))
           IN  /\ count(first - 1) = 0
               /\ TicksTo(sample, now, last) = TicksAt(sample, now)
               /\ \A k \in Int : count(k) \in Nat
               /\ \A k \in first..last :
                     count(k) = count(k - 1) + IF (k + 1) * TicksPerSecond > now - WindowTicks
                                               THEN SegmentTicks(sample, k) ELSE 0
<1> DEFINE from  == CursorWall(sample)
           to    == sample.end.wall
           first == Second(from)
           last  == Second(to - 1)
           In(k) == (k + 1) * TicksPerSecond > now - WindowTicks
           ticks(k) == {tick \in from..(to - 1) : Second(tick) = k}
<1>1. /\ from \in Int /\ to \in Nat /\ from < to
      /\ from = Max({sample.start.wall, to - WindowTicks})
      /\ first \in Int /\ last \in Int /\ first <= last /\ Seconds(sample) = first..last
  BY CutFrom
<1>2. TicksAt(sample, now) = {tick \in from..(to - 1) : In(Second(tick))}
  BY <1>1 DEF TicksAt, StillInWindow
<1>3. \A tick \in from..(to - 1) : Second(tick) \in Int /\ first <= Second(tick) /\ Second(tick) <= last
  <2>1. ASSUME NEW tick \in from..(to - 1)
        PROVE  Second(tick) \in Int /\ first <= Second(tick) /\ Second(tick) <= last
    <3>0. tick \in Int /\ from <= tick /\ tick <= to - 1 /\ to - 1 \in Int
      BY <1>1
    <3>1. tick \in Int /\ from <= tick /\ tick <= to - 1 /\ to - 1 \in Int /\ Second(tick) \in Int
      BY <3>0, SecondIs
    <3>2. first * TicksPerSecond <= from /\ (last + 1) * TicksPerSecond > to - 1
      BY <1>1, <3>1, SecondIs
    <3>3. first * TicksPerSecond \in Int /\ (last + 1) * TicksPerSecond \in Int
      BY <1>1, WindowAssumption
    <3> HIDE DEF first, last, from, to
    <3>4. first * TicksPerSecond <= tick /\ tick < (last + 1) * TicksPerSecond
      BY <1>1, <3>1, <3>2, <3>3
    <3>5. Second(tick) >= first /\ Second(tick) <= last
      BY <1>1, <3>1, <3>4, SecondBetween
    <3>6. QED
      BY <1>1, <3>1, <3>5
  <2>2. QED
    BY <2>1
<1>4. \A k \in Int : TicksTo(sample, now, k) = {tick \in from..(to - 1) : In(Second(tick)) /\ Second(tick) <= k}
  BY <1>2 DEF TicksTo
<1> HIDE DEF from, to, first, last, In
<1>5. IsFiniteSet(from..(to - 1))
  BY <1>1, FS_Interval
<1>6. \A k \in Int : IsFiniteSet(TicksTo(sample, now, k)) /\ Cardinality(TicksTo(sample, now, k)) \in Nat
  <2>1. ASSUME NEW k \in Int
        PROVE  IsFiniteSet(TicksTo(sample, now, k)) /\ Cardinality(TicksTo(sample, now, k)) \in Nat
    <3>1. TicksTo(sample, now, k) \in SUBSET (from..(to - 1))
      BY <1>4
    <3>2. IsFiniteSet(TicksTo(sample, now, k))
      BY <1>5, <3>1, FS_Subset
    <3>3. QED
      BY <3>2, FS_CardinalityType
  <2>2. QED
    BY <2>1
<1>7. Cardinality(TicksTo(sample, now, first - 1)) = 0
  <2>0. ASSUME NEW tick \in from..(to - 1), Second(tick) <= first - 1 PROVE FALSE
    <3>1. Second(tick) \in Int /\ first <= Second(tick)
      BY <1>3
    <3>2. QED
      BY <1>1, <2>0, <3>1
  <2>1. first - 1 \in Int
    BY <1>1
  <2>2. TicksTo(sample, now, first - 1) = {}
    BY <1>4, <2>0, <2>1
  <2>3. QED
    BY <2>2, FS_EmptySet
<1>8. TicksTo(sample, now, last) = TicksAt(sample, now)
  <2>1. \A tick \in from..(to - 1) : Second(tick) <= last
    BY <1>1, <1>3
  <2>2. QED
    BY <1>1, <1>2, <1>4, <2>1
<1>9. ASSUME NEW k \in first..last
      PROVE  Cardinality(TicksTo(sample, now, k)) =
                Cardinality(TicksTo(sample, now, k - 1)) + IF In(k) THEN SegmentTicks(sample, k) ELSE 0
  <2>1. k \in Int /\ k - 1 \in Int /\ k \in Seconds(sample)
    BY <1>1
  <2>2. \A tick \in from..(to - 1) :
           Second(tick) \in Int /\ (Second(tick) <= k <=> Second(tick) <= k - 1 \/ Second(tick) = k)
    <3>1. ASSUME NEW tick \in from..(to - 1)
          PROVE  Second(tick) \in Int /\ (Second(tick) <= k <=> Second(tick) <= k - 1 \/ Second(tick) = k)
      <4>1. Second(tick) \in Int
        BY <1>3
      <4>2. QED
        BY <2>1, <4>1
    <3>2. QED
      BY <3>1
  <2>3. CASE In(k)
    <3>1. TicksTo(sample, now, k) = TicksTo(sample, now, k - 1) \cup ticks(k)
      BY <1>4, <2>1, <2>2, <2>3
    <3>2. TicksTo(sample, now, k - 1) \cap ticks(k) = {}
      BY <1>4, <2>1, <2>2
    <3>3. IsFiniteSet(ticks(k)) /\ Cardinality(ticks(k)) = SegmentTicks(sample, k) /\ SegmentTicks(sample, k) \in Nat
      BY <2>1, TicksOfSecond DEF from, to
    <3>4. Cardinality(TicksTo(sample, now, k)) =
             Cardinality(TicksTo(sample, now, k - 1)) + Cardinality(ticks(k)) - Cardinality({})
      <4> HIDE DEF ticks
      <4>1. QED
        BY <1>6, <2>1, <3>1, <3>2, <3>3, FS_Union
    <3>5. Cardinality({}) = 0
      BY FS_EmptySet
    <3> HIDE DEF ticks
    <3>6. QED
      BY <1>6, <2>1, <2>3, <3>3, <3>4, <3>5
  <2>4. CASE ~In(k)
    <3>1. TicksTo(sample, now, k) = TicksTo(sample, now, k - 1)
      BY <1>4, <2>1, <2>2, <2>4
    <3>2. QED
      BY <1>6, <2>1, <2>4, <3>1
  <2>5. QED
    BY <2>3, <2>4
<1>10. QED
  BY <1>6, <1>7, <1>8, <1>9 DEF from, to, first, last, In

Fields == DOMAIN Nothing

\* What some of the ticks of an interval hold, and whether its sample is among them.
Part(sample, ticks, sampled) ==
    LET unit     == Scale \div Interval(sample)
        reliable == SequenceTicks(sample) > 0
    IN  [tokens  |-> sample.tokens * ticks * unit,
         active  |-> ticks * Scale,
         samples |-> sampled,
         sequenceTokens  |-> IF reliable THEN sample.tokens * ticks * unit ELSE 0,
         sequenceTicks   |-> SequenceTicks(sample) * ticks * unit,
         sequenceSamples |-> IF reliable THEN sampled ELSE 0]

LEMMA ThreeMaximum ==
    ASSUME NEW a \in Int, NEW b \in Int, NEW c \in Int
    PROVE  Max({a, b, c}) \in Int
<1>1. PICK m \in {a, b, c} : \A n \in {a, b, c} : m >= n
  <2>1. \E m \in {a, b, c} : m >= a /\ m >= b /\ m >= c
    <3>1. CASE a >= b /\ a >= c
      BY <3>1
    <3>2. CASE b >= a /\ b >= c
      BY <3>2
    <3>3. CASE c >= a /\ c >= b
      BY <3>3
    <3>4. QED
      BY <3>1, <3>2, <3>3
  <2>2. QED
    BY <2>1
<1>2. Max({a, b, c}) \in {a, b, c}
  BY <1>1 DEF Max
<1>3. QED
  BY <1>2

LEMMA SequenceTicksType ==
    ASSUME NEW sample, Agreeing(sample)
    PROVE  /\ SequenceTicks(sample) \in Int /\ Interval(sample) \in Nat \ {0}
           /\ Scale \div Interval(sample) \in Int
<1>1. /\ sample.previousRunning \in Nat /\ sample.running \in Nat /\ sample.forwarded \in Nat
      /\ sample.response \in Nat /\ Interval(sample) \in Nat \ {0}
  BY DEF Agreeing, Samples, Moments, Interval
<1>2. Max({sample.previousRunning, sample.running}) \in Nat
  BY <1>1, TwoMaximum
<1>3. Interval(sample) * Max({sample.previousRunning, sample.running}) \in Int
  BY <1>1, <1>2
<1>4. SequenceTicks(sample) \in Int
  BY <1>1, <1>3, ThreeMaximum DEF SequenceTicks
<1>5. Scale \div Interval(sample) \in Int
  BY <1>1, WindowAssumption
<1>6. QED
  BY <1>1, <1>4, <1>5

LEMMA ProductAdds ==
    ASSUME NEW a \in Int, NEW x \in Int, NEW y \in Int, NEW u \in Int
    PROVE  a * (x + y) * u = a * x * u + a * y * u /\ a * x * u \in Int
<1>1. a * (x + y) = a * x + a * y /\ a * x \in Int /\ a * y \in Int
  OBVIOUS
<1>2. QED
  BY <1>1

LEMMA PartsAdd ==
    ASSUME NEW sample, Agreeing(sample), NEW a \in Int, NEW b \in Int, NEW x \in Int, NEW y \in Int,
           NEW field \in Fields
    PROVE  /\ Part(sample, a + b, x + y)[field] = Part(sample, a, x)[field] + Part(sample, b, y)[field]
           /\ Part(sample, a, x)[field] \in Int
           /\ Part(sample, 0, 0)[field] = 0
<1> DEFINE n == sample.tokens
           q == SequenceTicks(sample)
           u == Scale \div Interval(sample)
<1>1. n \in Int /\ q \in Int /\ u \in Int /\ Scale \in Int
  BY SequenceTicksType, WindowAssumption DEF Agreeing, Samples
<1>2. \A ticks, sampled :
         Part(sample, ticks, sampled) =
           [tokens |-> n * ticks * u, active |-> ticks * Scale, samples |-> sampled,
            sequenceTokens |-> IF q > 0 THEN n * ticks * u ELSE 0,
            sequenceTicks |-> q * ticks * u, sequenceSamples |-> IF q > 0 THEN sampled ELSE 0]
  BY DEF Part
<1> HIDE DEF n, q, u
<1>3. n * (a + b) * u = n * a * u + n * b * u /\ n * a * u \in Int /\ n * b * u \in Int
  BY <1>1, ProductAdds
<1>4. q * (a + b) * u = q * a * u + q * b * u /\ q * a * u \in Int /\ q * b * u \in Int
  BY <1>1, ProductAdds
<1>5. (a + b) * Scale = a * Scale + b * Scale /\ a * Scale \in Int /\ b * Scale \in Int
  BY <1>1
<1>6. n * 0 * u = 0 /\ q * 0 * u = 0 /\ 0 * Scale = 0
  BY <1>1
<1>7. field \in {"tokens", "active", "samples", "sequenceTokens", "sequenceTicks", "sequenceSamples"}
  BY DEF Fields, Nothing
<1>8. /\ Part(sample, a + b, x + y) =
           [tokens |-> n * (a + b) * u, active |-> (a + b) * Scale, samples |-> x + y,
            sequenceTokens |-> IF q > 0 THEN n * (a + b) * u ELSE 0,
            sequenceTicks |-> q * (a + b) * u, sequenceSamples |-> IF q > 0 THEN x + y ELSE 0]
      /\ Part(sample, a, x) =
           [tokens |-> n * a * u, active |-> a * Scale, samples |-> x,
            sequenceTokens |-> IF q > 0 THEN n * a * u ELSE 0,
            sequenceTicks |-> q * a * u, sequenceSamples |-> IF q > 0 THEN x ELSE 0]
      /\ Part(sample, b, y) =
           [tokens |-> n * b * u, active |-> b * Scale, samples |-> y,
            sequenceTokens |-> IF q > 0 THEN n * b * u ELSE 0,
            sequenceTicks |-> q * b * u, sequenceSamples |-> IF q > 0 THEN y ELSE 0]
      /\ Part(sample, 0, 0) =
           [tokens |-> n * 0 * u, active |-> 0 * Scale, samples |-> 0,
            sequenceTokens |-> IF q > 0 THEN n * 0 * u ELSE 0,
            sequenceTicks |-> q * 0 * u, sequenceSamples |-> IF q > 0 THEN 0 ELSE 0]
  BY <1>2
<1>9. CASE field = "tokens"
  BY <1>3, <1>6, <1>8, <1>9
<1>10. CASE field = "active"
  BY <1>5, <1>6, <1>8, <1>10
<1>11. CASE field = "samples"
  BY <1>8, <1>11
<1>12. CASE field = "sequenceTokens"
  BY <1>3, <1>6, <1>8, <1>12
<1>13. CASE field = "sequenceTicks"
  BY <1>4, <1>6, <1>8, <1>13
<1>14. CASE field = "sequenceSamples"
  BY <1>8, <1>14
<1>15. QED
  BY <1>7, <1>9, <1>10, <1>11, <1>12, <1>13, <1>14

\* The shares that the loop gives the seconds of an interval that are in the
\* window at a moment add up to what the interval still is in it.
HeldTo(sample, now, field) ==
    LET last == Second(sample.end.wall - 1)
    IN  [k \in (Second(CursorWall(sample)) - 1)..last |->
            Part(sample, Cardinality(TicksTo(sample, now, k)),
                 IF k = last /\ (last + 1) * TicksPerSecond > now - WindowTicks THEN 1 ELSE 0)[field]]

Given(sample, now, field) ==
    [k \in Seconds(sample) |->
        IF (k + 1) * TicksPerSecond > now - WindowTicks THEN ShareOf(sample, k)[field] ELSE 0]

LEMMA HeldBySecond ==
    ASSUME NEW sample, Agreeing(sample), NEW now \in Int, NEW field \in Fields
    PROVE  LET first == Second(CursorWall(sample))
               last  == Second(sample.end.wall - 1)
               h     == HeldTo(sample, now, field)
               c     == Given(sample, now, field)
           IN  /\ h[first - 1] = 0
               /\ h[last] = Held(sample, now)[field]
               /\ \A k \in (first - 1)..last : h[k] \in Int
               /\ \A k \in first..last : c[k] \in Int /\ h[k] = h[k - 1] + c[k]
               /\ \A k \in first..last : ShareOf(sample, k)[field] \in Int
<1> DEFINE first == Second(CursorWall(sample))
           last  == Second(sample.end.wall - 1)
           h     == HeldTo(sample, now, field)
           c     == Given(sample, now, field)
           In(k) == (k + 1) * TicksPerSecond > now - WindowTicks
           count(k) == Cardinality(TicksTo(sample, now, k))
           sampled(k) == IF k = last /\ In(last) THEN 1 ELSE 0
<1>1. /\ first \in Int /\ last \in Int /\ first <= last /\ Seconds(sample) = first..last
      /\ Max(Seconds(sample)) = last
  BY CutFrom
<1>2. /\ count(first - 1) = 0
      /\ TicksTo(sample, now, last) = TicksAt(sample, now)
      /\ \A k \in Int : count(k) \in Nat
      /\ \A k \in first..last : count(k) = count(k - 1) + IF In(k) THEN SegmentTicks(sample, k) ELSE 0
  BY TicksBySecond
<1>3. \A k \in (first - 1)..last : h[k] = Part(sample, count(k), sampled(k))[field]
  BY DEF HeldTo
<1>4. \A k \in first..last : c[k] = IF In(k) THEN ShareOf(sample, k)[field] ELSE 0
  BY <1>1 DEF Given
<1>5. \A k \in first..last : ShareOf(sample, k) = Part(sample, SegmentTicks(sample, k), IF k = last THEN 1 ELSE 0)
  BY <1>1 DEF ShareOf, Part
<1>6. Held(sample, now) = Part(sample, count(last), sampled(last))
  <2>1. StillInWindow(sample.end.wall - 1, now) <=> In(last)
    BY DEF StillInWindow
  <2>2. count(last) = Cardinality(TicksAt(sample, now))
    BY <1>2
  <2> HIDE DEF count, last, In
  <2>3. QED
    BY <2>1, <2>2 DEF Held, Part
<1>7. \A k \in first..last : SegmentTicks(sample, k) \in Nat
  BY <1>1, TicksOfSecond
<1> HIDE DEF first, last, h, c, In, count
<1>8. \A k \in Int : sampled(k) \in Int
  OBVIOUS
<1>9. h[first - 1] = 0
  <2>1. first - 1 \in (first - 1)..last /\ sampled(first - 1) = 0
    BY <1>1
  <2>2. h[first - 1] = Part(sample, 0, 0)[field]
    BY <1>2, <1>3, <2>1
  <2>3. Part(sample, 0, 0)[field] = 0
    BY PartsAdd
  <2>4. QED
    BY <2>2, <2>3
<1>10. h[last] = Held(sample, now)[field]
  BY <1>1, <1>3, <1>6
<1>11. ASSUME NEW k \in (first - 1)..last PROVE h[k] \in Int
  <2>1. k \in Int /\ count(k) \in Int /\ sampled(k) \in Int
    BY <1>1, <1>2, <1>8
  <2> HIDE DEF sampled
  <2>2. Part(sample, count(k), sampled(k))[field] \in Int
    BY <2>1, PartsAdd
  <2>3. QED
    BY <1>3, <2>2
<1>12. ASSUME NEW k \in first..last
       PROVE  c[k] \in Int /\ h[k] = h[k - 1] + c[k] /\ ShareOf(sample, k)[field] \in Int
  <2> DEFINE a == count(k - 1)
             b == IF In(k) THEN SegmentTicks(sample, k) ELSE 0
             y == IF k = last /\ In(k) THEN 1 ELSE 0
  <2>1. k \in Int /\ k - 1 \in Int /\ k \in (first - 1)..last /\ k - 1 \in (first - 1)..last
    BY <1>1
  <2>2. a \in Int /\ b \in Int /\ y \in Int /\ count(k) = a + b
    BY <1>2, <1>7, <2>1
  <2>3. sampled(k - 1) = 0 /\ sampled(k) = 0 + y
    <3>1. k - 1 # last
      BY <1>1, <2>1
    <3>2. QED
      BY <3>1
  <2>4. Part(sample, SegmentTicks(sample, k), IF k = last THEN 1 ELSE 0)[field] \in Int
    <3>1. SegmentTicks(sample, k) \in Int /\ (IF k = last THEN 1 ELSE 0) \in Int
      BY <1>7
    <3>2. QED
      BY <3>1, PartsAdd
  <2>5. c[k] = Part(sample, b, y)[field]
    <3>1. CASE In(k)
      BY <1>4, <1>5, <3>1
    <3>2. CASE ~In(k)
      <4>1. Part(sample, 0, 0)[field] = 0
        BY PartsAdd
      <4>2. QED
        BY <1>4, <3>2, <4>1
    <3>3. QED
      BY <3>1, <3>2
  <2>6. h[k - 1] = Part(sample, a, 0)[field]
    BY <1>3, <2>1, <2>3
  <2>7. h[k] = Part(sample, a + b, 0 + y)[field]
    BY <1>3, <2>1, <2>2, <2>3
  <2> HIDE DEF a, b, y, sampled
  <2>8. /\ Part(sample, a + b, 0 + y)[field] = Part(sample, a, 0)[field] + Part(sample, b, y)[field]
        /\ Part(sample, b, y)[field] \in Int
    BY <2>2, PartsAdd
  <2>9. QED
    BY <1>5, <2>4, <2>5, <2>6, <2>7, <2>8
<1>13. QED
  BY <1>9, <1>10, <1>11, <1>12 DEF first, last, h, c

\* A bucket that holds no second holds nothing.
Shares(buckets) ==
    \A i \in 0..(BucketCount - 1) :
        /\ buckets[i].share \in [Fields -> Int]
        /\ ~buckets[i].valid => buckets[i].share = Nothing

\* The seconds that the ring holds are those of the window, in their own places.
Placed(buckets, now) ==
    /\ DOMAIN buckets = 0..(BucketCount - 1)
    /\ \A i \in 0..(BucketCount - 1) : buckets[i].valid =>
          InWindow(buckets[i].second, now) /\ Index(buckets[i].second) = i

LEMMA RingSize == BucketCount \in Nat \ {0} /\ WindowTicks \in Nat \ {0} /\ TicksPerSecond \in Nat \ {0}
BY WindowAssumption DEF BucketCount, WindowTicks

\* Every second of an interval has a bucket, free or its own, and finds its share
\* added there and nowhere else.
LEMMA AddIs ==
    ASSUME NEW sample, Agreeing(sample), NEW buckets, Placed(buckets, sample.end.wall)
    PROVE  /\ AddOK(buckets, Seconds(sample))
           /\ DOMAIN Add(buckets, sample) = DOMAIN buckets
           /\ \A s \in Seconds(sample) :
                 /\ InWindow(s, sample.end.wall) /\ Index(s) \in 0..(BucketCount - 1)
                 /\ buckets[Index(s)].valid => buckets[Index(s)].second = s
                 /\ Add(buckets, sample)[Index(s)] =
                       [second |-> s, valid |-> TRUE,
                        share |-> Plus(buckets[Index(s)].share, ShareOf(sample, s))]
           /\ \A s, t \in Seconds(sample) : Index(s) = Index(t) => s = t
           /\ \A i \in 0..(BucketCount - 1) :
                 (\A s \in Seconds(sample) : Index(s) # i) => Add(buckets, sample)[i] = buckets[i]
<1>1. /\ IsTime(sample.start) /\ IsTime(sample.end) /\ sample.end.wall \in Int
      /\ sample.start.wall = sample.start.mono /\ sample.end.wall = sample.end.mono
      /\ Interval(sample) >= 1
  BY DEF Agreeing, Samples, Moments, IsTime
<1>2. \A s \in Seconds(sample) : InWindow(s, sample.end.wall)
  BY <1>1, SecondsInWindow
<1>3. \A s, t \in Seconds(sample) : Index(s) = Index(t) => s = t
  BY <1>1, <1>2, RingFits
<1>4. \A s \in Seconds(sample) : Index(s) \in 0..(BucketCount - 1)
  <2>1. ASSUME NEW s \in Seconds(sample) PROVE Index(s) \in 0..(BucketCount - 1)
    <3>1. s \in Int
      BY <1>2 DEF InWindow
    <3>2. QED
      BY <3>1, RingSize, DivideBack DEF Index
  <2>2. QED
    BY <2>1
<1>5. ASSUME NEW s \in Seconds(sample), buckets[Index(s)].valid PROVE buckets[Index(s)].second = s
  <2>1. InWindow(buckets[Index(s)].second, sample.end.wall) /\ Index(buckets[Index(s)].second) = Index(s)
    BY <1>4, <1>5 DEF Placed
  <2>2. QED
    BY <1>1, <1>2, <2>1, RingFits
<1>6. AddOK(buckets, Seconds(sample))
  BY <1>3, <1>5 DEF AddOK
<1>7. DOMAIN Add(buckets, sample) = DOMAIN buckets
  BY DEF Add
<1>8. ASSUME NEW s \in Seconds(sample)
      PROVE  Add(buckets, sample)[Index(s)] =
                [second |-> s, valid |-> TRUE, share |-> Plus(buckets[Index(s)].share, ShareOf(sample, s))]
  <2>1. (CHOOSE t \in Seconds(sample) : Index(t) = Index(s)) = s
    BY <1>3
  <2>2. Index(s) \in DOMAIN buckets
    BY <1>4 DEF Placed
  <2>3. QED
    BY <2>1, <2>2 DEF Add
<1>9. ASSUME NEW i \in 0..(BucketCount - 1), \A s \in Seconds(sample) : Index(s) # i
      PROVE  Add(buckets, sample)[i] = buckets[i]
  BY <1>9 DEF Add, Placed
<1>10. QED
  BY <1>2, <1>3, <1>4, <1>5, <1>6, <1>7, <1>8, <1>9

LEMMA ShareType ==
    ASSUME NEW sample, Agreeing(sample), NEW s \in Seconds(sample)
    PROVE  ShareOf(sample, s) \in [Fields -> Int]
<1>1. s \in Second(CursorWall(sample))..Second(sample.end.wall - 1)
  BY CutFrom
<1>2. \A field \in Fields : ShareOf(sample, s)[field] \in Int
  <2>1. ASSUME NEW field \in Fields PROVE ShareOf(sample, s)[field] \in Int
    <3>1. 0 \in Int
      OBVIOUS
    <3>2. QED
      BY <1>1, <3>1, HeldBySecond
  <2>2. QED
    BY <2>1
<1>3. ShareOf(sample, s) = [field \in Fields |-> ShareOf(sample, s)[field]]
  BY DEF ShareOf, Fields, Nothing
<1>4. QED
  BY <1>2, <1>3

\* What is added in the buckets is what is added to their sums.
LEMMA AddSums ==
    ASSUME NEW sample, Agreeing(sample), NEW buckets, Placed(buckets, sample.end.wall), Shares(buckets),
           NEW now \in Int, NEW field \in Fields
    PROVE  SumTo(Counting(Add(buckets, sample), now, field), BucketCount) =
              SumTo(Counting(buckets, now, field), BucketCount) + Held(sample, now)[field]
<1> DEFINE first == Second(CursorWall(sample))
           last  == Second(sample.end.wall - 1)
           n == BucketCount
           f == Counting(buckets, now, field)
           g == Counting(Add(buckets, sample), now, field)
           c == Given(sample, now, field)
           h == HeldTo(sample, now, field)
           place == [s \in Seconds(sample) |-> Index(s) + 1]
           In(s) == (s + 1) * TicksPerSecond > now - WindowTicks
<1>1. /\ first \in Int /\ last \in Int /\ first <= last /\ Seconds(sample) = first..last
  BY CutFrom
<1>2. n \in Nat
  BY RingSize
<1>3. \A k \in 1..n : k - 1 \in 0..(n - 1)
  BY <1>2
<1>4. \A k \in 1..n : f[k] \in Int
  BY <1>3 DEF Counting, Shares
<1>5. \A s \in first..last :
         c[s] = (IF In(s) THEN ShareOf(sample, s)[field] ELSE 0) /\ ShareOf(sample, s)[field] \in Int /\ c[s] \in Int
  BY <1>1, HeldBySecond DEF Given
<1>6. ASSUME NEW s \in first..last
      PROVE  place[s] \in 1..n /\ g[place[s]] = f[place[s]] + c[s]
  <2> DEFINE i == Index(s)
             old == buckets[i]
             new == Add(buckets, sample)[i]
  <2>1. /\ s \in Seconds(sample) /\ i \in 0..(n - 1) /\ s \in Int
        /\ old.valid => old.second = s
        /\ new = [second |-> s, valid |-> TRUE, share |-> Plus(old.share, ShareOf(sample, s))]
    <3>1. s \in Seconds(sample)
      BY <1>1
    <3>2. InWindow(s, sample.end.wall)
      BY <3>1, AddIs
    <3>3. /\ i \in 0..(n - 1) /\ (old.valid => old.second = s)
          /\ new = [second |-> s, valid |-> TRUE, share |-> Plus(old.share, ShareOf(sample, s))]
      BY <3>1, AddIs
    <3>4. QED
      BY <3>1, <3>2, <3>3 DEF InWindow
  <2>2. place[s] = i + 1 /\ i + 1 \in 1..n /\ (i + 1) - 1 = i
    BY <1>2, <2>1
  <2>3. /\ old.share \in [Fields -> Int]
        /\ ~old.valid => old.share = Nothing
    BY <2>1 DEF Shares
  <2>4. g[i + 1] = IF In(s) THEN new.share[field] ELSE 0
    <3>1. g[i + 1] = IF ActiveAt(Add(buckets, sample)[i], now) THEN new.share[field] ELSE 0
      BY <2>2 DEF Counting
    <3>2. ActiveAt(new, now) <=> In(s)
      BY <2>1 DEF ActiveAt
    <3>3. QED
      BY <3>1, <3>2
  <2>5. f[i + 1] = IF In(s) THEN old.share[field] ELSE 0
    <3>1. f[i + 1] = IF ActiveAt(old, now) THEN old.share[field] ELSE 0
      BY <2>2 DEF Counting
    <3>2. CASE old.valid
      BY <2>1, <3>1, <3>2 DEF ActiveAt
    <3>3. CASE ~old.valid
      <4>1. old.share[field] = 0
        BY <2>3, <3>3 DEF Nothing, Fields
      <4>2. QED
        BY <3>1, <4>1
    <3>4. QED
      BY <3>2, <3>3
  <2>6. new.share[field] = old.share[field] + ShareOf(sample, s)[field]
    BY <2>1, <2>3 DEF Plus
  <2>7. c[s] = (IF In(s) THEN ShareOf(sample, s)[field] ELSE 0) /\ ShareOf(sample, s)[field] \in Int
    BY <1>5
  <2>8. old.share[field] \in Int
    BY <2>3
  <2> HIDE DEF f, g, c, place, In, i, old, new
  <2>9. QED
    BY <2>2, <2>4, <2>5, <2>6, <2>7, <2>8
<1>7. \A s, t \in first..last : place[s] = place[t] => s = t
  <2>1. \A s, t \in Seconds(sample) : Index(s) = Index(t) => s = t
    BY AddIs
  <2>2. \A s \in Seconds(sample) : Index(s) \in Int
    <3>1. \A s \in Seconds(sample) : Index(s) \in 0..(BucketCount - 1)
      BY AddIs
    <3>2. QED
      BY <1>2, <3>1
  <2>3. QED
    BY <1>1, <2>1, <2>2
<1>8. ASSUME NEW k \in 1..n, \A s \in first..last : place[s] # k
      PROVE  g[k] = f[k]
  <2>1. \A s \in Seconds(sample) : Index(s) # k - 1
    BY <1>1, <1>2, <1>8
  <2>2. Add(buckets, sample)[k - 1] = buckets[k - 1]
    BY <1>3, <2>1, AddIs
  <2>3. QED
    BY <2>2 DEF Counting
<1>9. /\ h[first - 1] = 0 /\ h[last] = Held(sample, now)[field]
      /\ \A s \in (first - 1)..last : h[s] \in Int
      /\ \A s \in first..last : h[s] = h[s - 1] + c[s]
  BY HeldBySecond
<1> HIDE DEF first, last, f, g, c, h, place, n
<1>10. AddsTo(f, n, g, c, place, first, last)
  BY <1>4, <1>5, <1>6, <1>7, <1>8 DEF AddsTo
<1>11. SumTo(g, n) = SumTo(f, n) + h[last]
  BY <1>1, <1>2, <1>9, <1>10, SumPlaces
<1>12. QED
  BY <1>9, <1>11 DEF f, g, n

\* One more observation adds what its interval holds, if it counts, and a reset
\* of the runtime leaves nothing.
LEMMA HeldMore ==
    ASSUME fed \in Seq(Observations), NEW o \in Observations, fed' = Append(fed, o),
           NEW now \in Int, NEW field \in Fields
    PROVE  /\ o.reset => SumTo(HeldOf(now, field)', Len(fed')) = 0
           /\ ~o.reset => SumTo(HeldOf(now, field)', Len(fed')) =
                 SumTo(HeldOf(now, field), Len(fed)) + IF Qualifies(o.sample) THEN Held(o.sample, now)[field] ELSE 0
<1> DEFINE n == Len(fed)
           f == HeldOf(now, field)
           g == HeldOf(now, field)'
<1>1. n \in Nat /\ DOMAIN fed = 1..n
  BY LenProperties
<1>2. /\ Len(fed') = n + 1 /\ DOMAIN fed' = 1..(n + 1)
      /\ \A i \in 1..n : fed'[i] = fed[i]
      /\ fed'[n + 1] = o
  BY <1>1, AppendProperties
<1>3. f = [i \in 1..n |-> IF i \in Counted THEN Held(fed[i].sample, now)[field] ELSE 0]
  BY <1>1 DEF HeldOf
<1>4. g = [i \in 1..(n + 1) |-> IF i \in Counted' THEN Held(fed'[i].sample, now)[field] ELSE 0]
  BY <1>2 DEF HeldOf
<1>5. ASSUME o.reset PROVE SumTo(g, n + 1) = 0
  <2>1. \A i \in 1..(n + 1) : n + 1 \in i..(n + 1)
    BY <1>1
  <2>2. Counted' = {}
    BY <1>2, <1>5, <2>1 DEF Counted
  <2>3. \A i \in 1..(n + 1) : g[i] = 0
    BY <1>4, <2>2
  <2>4. n + 1 \in Nat
    BY <1>1
  <2> HIDE DEF g, n
  <2>5. QED
    BY <2>3, <2>4, SumNone
<1>6. ASSUME ~o.reset
      PROVE  SumTo(g, n + 1) = SumTo(f, n) + IF Qualifies(o.sample) THEN Held(o.sample, now)[field] ELSE 0
  <2>1. \A i \in 1..n : i..(n + 1) = (i..n) \cup {n + 1} /\ i..n \subseteq 1..n
    BY <1>1
  <2>2. ASSUME NEW i \in 1..n PROVE i \in Counted' <=> i \in Counted
    <3>1. (\A j \in i..(n + 1) : ~fed'[j].reset) <=> (\A j \in i..n : ~fed[j].reset)
      BY <1>2, <1>6, <2>1
    <3>2. i \in 1..(n + 1) /\ i \in 1..n
      BY <1>1
    <3>3. i \in Counted' <=> Qualifies(fed'[i].sample) /\ \A j \in i..(n + 1) : ~fed'[j].reset
      BY <1>2, <3>2 DEF Counted
    <3>4. i \in Counted <=> Qualifies(fed[i].sample) /\ \A j \in i..n : ~fed[j].reset
      BY <1>1, <3>2 DEF Counted
    <3>5. QED
      BY <1>2, <3>1, <3>3, <3>4
  <2>3. n + 1 \in Counted' <=> Qualifies(o.sample)
    <3>1. n + 1 \in 1..(n + 1) /\ (n + 1)..(n + 1) = {n + 1}
      BY <1>1
    <3>2. QED
      BY <1>2, <1>6, <3>1 DEF Counted
  <2>4. \A i \in 1..n : g[i] = f[i]
    <3>1. \A i \in 1..n : i \in 1..(n + 1)
      BY <1>1
    <3>2. QED
      BY <1>2, <1>3, <1>4, <2>2, <3>1
  <2>5. g[n + 1] = IF Qualifies(o.sample) THEN Held(o.sample, now)[field] ELSE 0
    <3>1. n + 1 \in 1..(n + 1)
      BY <1>1
    <3>2. QED
      BY <1>2, <1>4, <2>3, <3>1
  <2>6. n + 1 \in Nat /\ n + 1 # 0 /\ n + 1 - 1 = n
    BY <1>1
  <2> HIDE DEF f, g, n
  <2>7. SumTo(g, n) = SumTo(f, n)
    BY <1>1, <2>4, SumSame
  <2>8. SumTo(g, n + 1) = SumTo(g, n) + g[n + 1]
    <3>1. \A m \in Nat : m # 0 => SumTo(g, m) = SumTo(g, m - 1) + g[m]
      BY SumMore
    <3>2. QED
      BY <1>1, <2>6, <3>1
  <2>9. QED
    BY <2>5, <2>7, <2>8
<1>7. QED
  BY <1>2, <1>5, <1>6 DEF f, g, n

\* While nobody sets the wall clock, the seconds that the ring holds have begun and
\* are in their own places,
Holding(buckets, now) ==
    /\ DOMAIN buckets = 0..(BucketCount - 1)
    /\ \A i \in DOMAIN buckets : buckets[i].valid =>
          /\ buckets[i].second \in Int
          /\ buckets[i].second * TicksPerSecond < now
          /\ Index(buckets[i].second) = i

\* and at every later moment the buckets that count then add up to what the
\* intervals that count still are in the window.
SumsAgree(buckets, from) ==
    \A now \in Nat : now >= from => \A field \in Fields :
        SumTo(Counting(buckets, now, field), BucketCount) = SumTo(HeldOf(now, field), Len(fed))

WindowInv ==
    reader = "window" =>
        /\ value.ok
        /\ IsTime(value.at) /\ value.at.wall = value.at.mono
        /\ Holding(value.window.buckets, value.at.wall)
        /\ fed \in Seq(Observations) /\ value.running \in Nat
        /\ Shares(value.window.buckets)
        /\ SumsAgree(value.window.buckets, value.at.wall)

\* What has left the window at a moment is out of it at every later one.
LEMMA ExpireKeeps ==
    ASSUME NEW buckets, NEW from \in Nat, NEW to \in Nat, from <= to,
           Holding(buckets, from), Shares(buckets)
    PROVE  /\ Placed(Expire(buckets, to), to) /\ Shares(Expire(buckets, to))
           /\ \A now \in Nat : now >= to => \A field \in Fields :
                 Counting(Expire(buckets, to), now, field) = Counting(buckets, now, field)
<1> DEFINE kept == Expire(buckets, to)
<1>1. /\ DOMAIN kept = 0..(BucketCount - 1) /\ DOMAIN buckets = 0..(BucketCount - 1)
      /\ \A i \in 0..(BucketCount - 1) : kept[i] = IF ActiveAt(buckets[i], to) THEN buckets[i] ELSE EmptyBucket
  BY DEF Expire, Holding
<1> HIDE DEF kept
<1>2. ASSUME NEW i \in 0..(BucketCount - 1), kept[i].valid
      PROVE  InWindow(kept[i].second, to) /\ Index(kept[i].second) = i
  <2>1. kept[i] = buckets[i] /\ ActiveAt(buckets[i], to)
    BY <1>1, <1>2 DEF EmptyBucket
  <2>2. /\ buckets[i].second \in Int /\ buckets[i].second * TicksPerSecond < from
        /\ Index(buckets[i].second) = i /\ (buckets[i].second + 1) * TicksPerSecond > to - WindowTicks
    BY <1>1, <2>1 DEF ActiveAt, Holding
  <2>3. buckets[i].second * TicksPerSecond \in Int
    BY <2>2, WindowAssumption
  <2>4. buckets[i].second * TicksPerSecond < to
    BY <2>2, <2>3
  <2>5. QED
    BY <2>1, <2>2, <2>4 DEF InWindow
<1>3. Shares(kept)
  <2>1. Nothing \in [Fields -> Int]
    BY DEF Nothing, Fields
  <2>2. QED
    BY <1>1, <2>1 DEF Shares, EmptyBucket
<1>4. ASSUME NEW now \in Nat, now >= to, NEW field \in Fields
      PROVE  Counting(kept, now, field) = Counting(buckets, now, field)
  <2>1. ASSUME NEW n \in 1..BucketCount
        PROVE  (IF ActiveAt(kept[n - 1], now) THEN kept[n - 1].share[field] ELSE 0) =
               (IF ActiveAt(buckets[n - 1], now) THEN buckets[n - 1].share[field] ELSE 0)
    <3>1. n - 1 \in 0..(BucketCount - 1)
      BY RingSize
    <3>2. CASE ActiveAt(buckets[n - 1], to)
      BY <1>1, <3>1, <3>2
    <3>3. CASE ~ActiveAt(buckets[n - 1], to)
      <4>1. kept[n - 1] = EmptyBucket
        BY <1>1, <3>1, <3>3
      <4>2. ~ActiveAt(kept[n - 1], now)
        BY <4>1 DEF EmptyBucket, ActiveAt
      <4>3. ~ActiveAt(buckets[n - 1], now)
        <5>1. ASSUME ActiveAt(buckets[n - 1], now) PROVE FALSE
          <6>1. buckets[n - 1].valid /\ (buckets[n - 1].second + 1) * TicksPerSecond > now - WindowTicks
            BY <5>1 DEF ActiveAt
          <6>2. buckets[n - 1].second \in Int
            BY <1>1, <3>1, <6>1 DEF Holding
          <6>3. (buckets[n - 1].second + 1) * TicksPerSecond \in Int
            BY <6>2, RingSize
          <6>4. (buckets[n - 1].second + 1) * TicksPerSecond > to - WindowTicks
            BY <1>4, <6>1, <6>3, RingSize
          <6>5. QED
            BY <3>3, <6>1, <6>4 DEF ActiveAt
        <5>2. QED
          BY <5>1
      <4>4. QED
        BY <4>2, <4>3
    <3>4. QED
      BY <3>2, <3>3
  <2>2. QED
    BY <2>1 DEF Counting
<1>5. QED
  BY <1>1, <1>2, <1>3, <1>4 DEF kept, Placed

\* The sums of the ring's buckets are integers, and those of a new one are 0.
LEMMA CountingSums ==
    ASSUME NEW buckets, Shares(buckets), NEW now, NEW field \in Fields
    PROVE  /\ SumTo(Counting(buckets, now, field), BucketCount) \in Int
           /\ SumTo(Counting(NewWindow.buckets, now, field), BucketCount) = 0
<1> DEFINE f == Counting(buckets, now, field)
           g == Counting(NewWindow.buckets, now, field)
<1>1. \A k \in 1..BucketCount : f[k] \in Int /\ g[k] = 0
  <2>1. \A k \in 1..BucketCount : k - 1 \in 0..(BucketCount - 1)
    BY RingSize
  <2>2. \A k \in 1..BucketCount : f[k] \in Int
    BY <2>1 DEF Counting, Shares
  <2>3. \A k \in 1..BucketCount : g[k] = 0
    BY <2>1 DEF Counting, NewWindow, EmptyBucket, ActiveAt
  <2>4. QED
    BY <2>2, <2>3
<1> HIDE DEF f, g
<1>2. BucketCount \in Nat /\ BucketCount \in 0..BucketCount
  BY RingSize
<1>3. \A m \in 0..BucketCount : SumTo(f, m) \in Int
  BY <1>1, <1>2, SumType
<1>4. SumTo(g, BucketCount) = 0
  BY <1>1, <1>2, SumNone
<1>5. QED
  BY <1>2, <1>3, <1>4 DEF f, g

LEMMA NewWindowIs == \A now : Holding(NewWindow.buckets, now) /\ Shares(NewWindow.buckets)
<1>1. \A i \in 0..(BucketCount - 1) : NewWindow.buckets[i] = EmptyBucket
  BY DEF NewWindow
<1>2. Nothing \in [Fields -> Int]
  BY DEF Nothing, Fields
<1>3. DOMAIN NewWindow.buckets = 0..(BucketCount - 1)
  BY DEF NewWindow
<1>4. QED
  BY <1>1, <1>2, <1>3 DEF Holding, Shares, EmptyBucket

\* An observation under clocks that agree.
LEMMA ObserveKeeps ==
    ASSUME ClockSteps = {0}, WindowInv,
           NEW amount \in Amounts, NEW interval \in Intervals, NEW step \in ClockSteps, NEW reset \in BOOLEAN,
           ObserveInterval(amount, interval, step, reset)
    PROVE  WindowInv'
<1> DEFINE sample == Sample(amount, interval, step)
           observed == Observe(value.window, sample)
           old == value.window.buckets
           to == sample.end.wall
           kept == Expire(old, to)
           new == value'.window.buckets
<1>1. /\ reader = "window" /\ reader' = reader
      /\ fed' = Append(fed, [sample |-> sample, reset |-> reset])
      /\ value' = [ok |-> reset \/ observed.ok, window |-> IF reset THEN NewWindow ELSE observed.window,
                   at |-> sample.end, running |-> amount.running]
  BY DEF ObserveInterval, Feed
<1>2. /\ IsTime(value.at) /\ value.at.wall = value.at.mono
      /\ Holding(old, value.at.wall)
      /\ fed \in Seq(Observations) /\ value.running \in Nat
      /\ Shares(old) /\ SumsAgree(old, value.at.wall)
  BY <1>1 DEF WindowInv, Holding
<1>3. /\ sample = [start |-> value.at,
                   end |-> [wall |-> value.at.wall + interval, mono |-> value.at.mono + interval],
                   tokens |-> amount.tokens, previousRunning |-> value.running, running |-> amount.running,
                   forwarded |-> amount.forwarded, response |-> amount.response]
      /\ interval \in Nat
      /\ amount.tokens \in Nat /\ amount.running \in Nat /\ amount.forwarded \in Nat /\ amount.response \in Nat
  <2>1. interval \in Nat /\ {amount.tokens, amount.running, amount.forwarded, amount.response} \subseteq Nat
    BY InputAssumption
  <2>2. step = 0
    OBVIOUS
  <2>3. value.at.wall \in Nat
    BY <1>2 DEF IsTime
  <2>4. value.at.wall + interval + step = value.at.wall + interval
    BY <2>1, <2>2, <2>3
  <2>5. QED
    BY <2>1, <2>4 DEF Sample
<1>4. /\ sample \in Samples
      /\ sample.start.wall = sample.start.mono /\ to = sample.end.mono
      /\ value.at.wall <= to /\ to \in Nat /\ value.at.wall \in Nat
      /\ IsTime(sample.end)
  <2>1. value.at \in Moments /\ value.at.wall \in Nat
    BY <1>2 DEF IsTime, Moments
  <2>2. value.at.mono = value.at.wall /\ value.at.wall + interval \in Nat
    BY <1>2, <1>3, <2>1
  <2>3. /\ sample \in Samples
        /\ sample.start = value.at
        /\ sample.end = [wall |-> value.at.wall + interval, mono |-> value.at.wall + interval]
    BY <1>2, <1>3, <2>1, <2>2 DEF Samples, Moments
  <2> HIDE DEF sample
  <2>4. QED
    BY <1>3, <2>1, <2>2, <2>3 DEF IsTime
<1> DEFINE observation == [sample |-> sample, reset |-> reset]
<1>5. observation \in Observations /\ observation.sample = sample /\ observation.reset = reset
  BY <1>4 DEF Observations
<1>6. /\ Placed(kept, to) /\ Shares(kept)
      /\ \A now \in Nat : now >= to => \A field \in Fields :
            Counting(kept, now, field) = Counting(old, now, field)
  BY <1>2, <1>4, ExpireKeeps
<1>7. observed = IF ~Qualifies(sample)
                 THEN [ok |-> TRUE, window |-> [buckets |-> kept, latest |-> NoInterval]]
                 ELSE IF AddOK(kept, Seconds(sample))
                 THEN [ok |-> TRUE, window |-> [buckets |-> Add(kept, sample), latest |-> observed.window.latest]]
                 ELSE observed
  BY DEF Observe
<1> HIDE DEF sample, to, old, kept, observed
<1>8. Qualifies(sample) => Agreeing(sample)
  BY <1>4, WindowAssumption DEF Qualifies, Agreeing, to
<1>9. /\ value'.ok
      /\ new = IF reset THEN NewWindow.buckets
               ELSE IF Qualifies(sample) THEN Add(kept, sample) ELSE kept
  <2>1. Qualifies(sample) => AddOK(kept, Seconds(sample))
    BY <1>6, <1>8, AddIs DEF to
  <2>2. /\ observed.ok
        /\ observed.window.buckets = IF Qualifies(sample) THEN Add(kept, sample) ELSE kept
    BY <1>7, <2>1
  <2>3. QED
    BY <1>1, <2>2
<1>10. value'.at = sample.end /\ value'.running = amount.running
  BY <1>1
<1>11. Holding(kept, to)
  BY <1>6 DEF Placed, Holding, InWindow
<1>12. ASSUME Qualifies(sample) PROVE Holding(Add(kept, sample), to) /\ Shares(Add(kept, sample))
  <2>1. Agreeing(sample) /\ Placed(kept, sample.end.wall)
    BY <1>6, <1>8, <1>12 DEF to
  <2>2. DOMAIN Add(kept, sample) = 0..(BucketCount - 1)
    BY <1>6, <2>1, AddIs DEF Placed
  <2>3. ASSUME NEW i \in 0..(BucketCount - 1)
        PROVE  LET bucket == Add(kept, sample)[i]
               IN  /\ bucket.share \in [Fields -> Int]
                   /\ ~bucket.valid => bucket.share = Nothing
                   /\ bucket.valid => /\ bucket.second \in Int
                                      /\ bucket.second * TicksPerSecond < to
                                      /\ Index(bucket.second) = i
    <3>1. CASE \A s \in Seconds(sample) : Index(s) # i
      <4>1. Add(kept, sample)[i] = kept[i]
        BY <2>1, <3>1, AddIs
      <4>2. QED
        BY <1>6, <1>11, <4>1 DEF Shares, Holding
    <3>2. ASSUME NEW s \in Seconds(sample), Index(s) = i
          PROVE  LET bucket == Add(kept, sample)[i]
                 IN  /\ bucket.share \in [Fields -> Int] /\ bucket.valid
                     /\ bucket.second \in Int
                     /\ bucket.second * TicksPerSecond < to
                     /\ Index(bucket.second) = i
      <4>1. InWindow(s, to)
        BY <2>1, <3>2, AddIs DEF to
      <4>2. Add(kept, sample)[i] =
               [second |-> s, valid |-> TRUE, share |-> Plus(kept[i].share, ShareOf(sample, s))]
        BY <2>1, <3>2, AddIs
      <4>3. kept[i].share \in [Fields -> Int] /\ ShareOf(sample, s) \in [Fields -> Int]
        BY <1>6, <2>1, ShareType DEF Shares
      <4>4. Plus(kept[i].share, ShareOf(sample, s)) \in [Fields -> Int]
        BY <4>3 DEF Plus
      <4>5. QED
        BY <3>2, <4>1, <4>2, <4>4 DEF InWindow
    <3>3. QED
      BY <3>1, <3>2
  <2>4. QED
    BY <2>2, <2>3 DEF Holding, Shares
<1>13. Holding(new, to) /\ Shares(new)
  BY <1>6, <1>9, <1>11, <1>12, NewWindowIs
<1>14. fed' \in Seq(Observations)
  <2>1. Append(fed, observation) \in Seq(Observations)
    BY <1>2, <1>5, FedMore
  <2>2. QED
    BY <1>1, <2>1
<1>15. ASSUME NEW now \in Nat, now >= to, NEW field \in Fields
       PROVE  SumTo(Counting(new, now, field), BucketCount) = SumTo(HeldOf(now, field)', Len(fed'))
  <2> DEFINE before == SumTo(HeldOf(now, field), Len(fed))
             after  == SumTo(HeldOf(now, field)', Len(fed'))
  <2>1. SumTo(Counting(kept, now, field), BucketCount) = before
    <3>1. now >= value.at.wall
      BY <1>4, <1>15
    <3>2. SumTo(Counting(old, now, field), BucketCount) = before
      BY <1>2, <3>1 DEF SumsAgree
    <3>3. QED
      BY <1>6, <1>15, <3>2
  <2>2. before \in Int
    <3>1. SumTo(Counting(kept, now, field), BucketCount) \in Int
      BY <1>6, CountingSums
    <3>2. QED
      BY <2>1, <3>1
  <2>3. /\ reset => after = 0
        /\ ~reset => after = before + IF Qualifies(sample) THEN Held(sample, now)[field] ELSE 0
    <3>1. fed' = Append(fed, observation) /\ now \in Int
      BY <1>1
    <3> HIDE DEF observation
    <3>2. /\ observation.reset => after = 0
          /\ ~observation.reset =>
                after = before + IF Qualifies(observation.sample) THEN Held(observation.sample, now)[field] ELSE 0
      BY <1>2, <1>5, <3>1, HeldMore
    <3>3. QED
      BY <1>5, <3>2
  <2> HIDE DEF before, after
  <2>4. CASE reset
    <3>1. SumTo(Counting(NewWindow.buckets, now, field), BucketCount) = 0
      BY <1>6, CountingSums
    <3>2. QED
      BY <1>9, <2>3, <2>4, <3>1 DEF after
  <2>5. CASE ~reset /\ Qualifies(sample)
    <3>1. SumTo(Counting(Add(kept, sample), now, field), BucketCount) =
             SumTo(Counting(kept, now, field), BucketCount) + Held(sample, now)[field]
      BY <1>6, <1>8, <2>5, AddSums DEF to
    <3>2. QED
      BY <1>9, <2>1, <2>3, <2>5, <3>1 DEF after
  <2>6. CASE ~reset /\ ~Qualifies(sample)
    BY <1>9, <2>1, <2>2, <2>3, <2>6 DEF after
  <2>7. QED
    BY <2>4, <2>5, <2>6
<1>16. SumsAgree(value.window.buckets, value.at.wall)'
  BY <1>10, <1>15 DEF SumsAgree, to
<1>17. value'.at.wall = to /\ value'.at.mono = to /\ IsTime(value'.at) /\ value'.running \in Nat
  BY <1>3, <1>4, <1>10 DEF to
<1>18. /\ DOMAIN value'.window.buckets = 0..(BucketCount - 1)
       /\ \A i \in DOMAIN value'.window.buckets : value'.window.buckets[i].valid =>
             /\ value'.window.buckets[i].second \in Int
             /\ value'.window.buckets[i].second * TicksPerSecond < value'.at.wall
             /\ Index(value'.window.buckets[i].second) = i
  BY <1>13, <1>17 DEF Holding
<1>19. QED
  BY <1>1, <1>9, <1>13, <1>14, <1>16, <1>17, <1>18 DEF WindowInv, IsTime

-----------------------------------------------------------------------------
(* A streamed response.                                                    *)

Pieces == UNION {ToSet(chunk) : chunk \in Chunks}

ObserverType ==
    [line : Seq(Pieces), data : Seq(Pieces), lines : Nat,
     limited : BOOLEAN, candidate : BOOLEAN, invalid : BOOLEAN, terminal : BOOLEAN]

\* The events that begin before s, and what they say of usage.
Closed(text, s) == {t \in EventStarts(text) : t < s}
Tells(text, events, o) ==
    /\ o.candidate <=> \E t \in events : Outcome(text, t) = "available"
    /\ o.invalid <=> \/ \E t \in events : Outcome(text, t) = "malformed"
                     \/ \E t, u \in events : t # u /\ Outcome(text, t) = "available" /\ Outcome(text, u) = "available"

\* What a line that has not ended adds to the data of its event.
IsData(line) == line # <<>> /\ line[1].is = "data:"
Open(o)      == IF IsData(o.line) THEN Tail(o.line) ELSE <<>>

\* The observer holds what the event that began at s has said so far.
Gathered(text, s, o) ==
    IF o.limited THEN TooLong(text, s)
    ELSE /\ ~Overlong(text, s)
         /\ DataOf(text, s) = o.data \o Open(o)
         /\ Cardinality(DataLines(text, s)) = o.lines + (IF IsData(o.line) THEN 1 ELSE 0)
         /\ o.lines = 0 => o.data = <<>>
         /\ o.lines > 0 => Len(o.data) + o.lines - 1 <= MaximumEvent

\* The text after b is the line.
OfLine(text, b, o) ==
    /\ o.line = <<>> <=> b = Len(text)
    /\ ~o.limited => Len(o.line) = Len(text) - b /\ \A i \in 1..Len(o.line) : o.line[i] = text[b + i]

\* An event has been open since s, and a line since b.
Reading(text, s, b, o) ==
    /\ s = 0 \/ Blank(text, s - 1)
    /\ \A j \in s..(Len(text) - 1) : ~Blank(text, j)
    /\ Break(text, b) /\ \A j \in (b + 1)..Len(text) : ~Break(text, j)
    /\ OfLine(text, b, o) /\ Gathered(text, s, o)
    /\ Tells(text, Closed(text, s), o)
    /\ \A t \in Closed(text, s) : ~Terminal(text, t)

\* The event that began at t was the last.
Ended(text, t, o) ==
    /\ Terminal(text, t) /\ \E j \in t..(Len(text) - 1) : Blank(text, j)
    /\ \A u \in Closed(text, t) : ~Terminal(text, u)
    /\ Tells(text, Closed(text, t), o)

Follows(text, o) ==
    /\ text \in Seq(Pieces) /\ o \in ObserverType
    /\ ~o.terminal => \E s \in 0..Len(text) : \E b \in s..Len(text) : Reading(text, s, b, o)
    /\ o.terminal => \E t \in EventStarts(text) : Ended(text, t, o)

StreamInv == reader = "stream" => Follows(fed, value)

-----------------------------------------------------------------------------
(* A text and one piece more.                                              *)

Longer(text, longer) ==
    /\ Len(text) \in Nat /\ DOMAIN text = 1..Len(text)
    /\ Len(longer) = Len(text) + 1 /\ DOMAIN longer = 1..(Len(text) + 1)
    /\ \A i \in 1..Len(text) : longer[i] = text[i]

LEMMA BreaksKeep ==
    ASSUME NEW text, NEW longer, Longer(text, longer)
    PROVE  /\ \A k \in 0..Len(text) : Break(longer, k) <=> Break(text, k)
           /\ Break(longer, Len(text) + 1) <=> longer[Len(text) + 1].is = "newline"
<1>1. Len(text) + 1 # 0
  BY DEF Longer
<1>2. QED
  BY <1>1 DEF Longer, Break

LEMMA BlanksKeep ==
    ASSUME NEW text, NEW longer, Longer(text, longer)
    PROVE  \A k \in 0..(Len(text) - 1) : Blank(longer, k) <=> Blank(text, k)
<1>1. ASSUME NEW k \in 0..(Len(text) - 1)
      PROVE  k \in 0..Len(text) /\ k + 1 \in 0..Len(text)
  BY DEF Longer
<1>2. QED
  BY <1>1, BreaksKeep DEF Blank

LEMMA LinesKeep ==
    ASSUME NEW text, NEW longer, Longer(text, longer), NEW i \in Int, NEW k \in 0..Len(text), i >= 0
    PROVE  OnLine(longer, i, k) <=> OnLine(text, i, k)
<1>1. k \in Int /\ Len(text) \in Nat /\ 0 <= k /\ k <= Len(text)
  BY DEF Longer
<1>2. CASE i < k
  <2>1. i \in 0..Len(text) /\ \A j \in (i + 1)..k : j \in 0..Len(text)
    BY <1>1, <1>2
  <2>2. QED
    BY <2>1, BreaksKeep DEF OnLine
<1>3. CASE ~(i < k)
  BY <1>3 DEF OnLine
<1>4. QED
  BY <1>2, <1>3

LEMMA EventMore ==
    ASSUME NEW text, NEW longer, Longer(text, longer), NEW s \in 0..Len(text)
    PROVE  EventOf(longer, s) = EventOf(text, s) \cup
              (IF \A j \in s..Len(text) : ~Blank(longer, j) THEN {Len(text) + 1} ELSE {})
<1> DEFINE n == Len(text)
<1>1. n \in Nat /\ s \in Nat /\ s <= n /\ Len(longer) = n + 1
  BY DEF Longer
<1>2. ASSUME NEW k \in (s + 1)..n
      PROVE  k \in EventOf(longer, s) <=> k \in EventOf(text, s)
  <2>1. \A j \in s..(k - 1) : Blank(longer, j) <=> Blank(text, j)
    <3>1. \A j \in s..(k - 1) : j \in 0..(n - 1)
      BY <1>1
    <3>2. QED
      BY <3>1, BlanksKeep
  <2>2. k \in (s + 1)..(n + 1)
    BY <1>1
  <2>3. QED
    BY <1>1, <2>1, <2>2 DEF EventOf
<1>3. n + 1 \in EventOf(longer, s) <=> \A j \in s..n : ~Blank(longer, j)
  <2>1. n + 1 \in (s + 1)..(n + 1) /\ (n + 1) - 1 = n
    BY <1>1
  <2>2. QED
    BY <1>1, <2>1 DEF EventOf
<1>4. EventOf(text, s) \subseteq (s + 1)..n /\ EventOf(longer, s) \subseteq ((s + 1)..n) \cup {n + 1}
  <2>1. (s + 1)..(n + 1) = ((s + 1)..n) \cup {n + 1}
    BY <1>1
  <2>2. QED
    BY <1>1, <2>1 DEF EventOf
<1> HIDE DEF n
<1>5. QED
  BY <1>2, <1>3, <1>4 DEF n

LEMMA EventBounds ==
    ASSUME NEW text, Len(text) \in Nat, NEW s \in Nat
    PROVE  /\ EventOf(text, s) \subseteq (s + 1)..Len(text)
           /\ EventOf(text, s) \subseteq 1..Len(text)
           /\ DataLines(text, s) \subseteq EventOf(text, s)
           /\ DataPieces(text, s) \subseteq EventOf(text, s)
<1>1. (s + 1)..Len(text) \subseteq 1..Len(text)
  OBVIOUS
<1>2. QED
  BY <1>1 DEF EventOf, DataLines, DataPieces

LEMMA DataLinesMore ==
    ASSUME NEW text, NEW longer, Longer(text, longer), NEW s \in 0..Len(text)
    PROVE  DataLines(longer, s) = DataLines(text, s) \cup
              (IF /\ Len(text) + 1 \in EventOf(longer, s)
                  /\ Break(text, Len(text)) /\ longer[Len(text) + 1].is = "data:" THEN {Len(text) + 1} ELSE {})
<1> DEFINE n == Len(text)
<1>1. n \in Nat /\ s \in Nat /\ (n + 1) - 1 = n
  BY DEF Longer
<1>2. EventOf(text, s) \subseteq 1..n /\ n + 1 \notin 1..n
  BY <1>1, EventBounds
<1>3. ASSUME NEW k \in 1..n
      PROVE  /\ k \in EventOf(longer, s) <=> k \in EventOf(text, s)
             /\ k \in DataLines(longer, s) <=> k \in DataLines(text, s)
  <2>1. k \in EventOf(longer, s) <=> k \in EventOf(text, s)
    <3>1. k # n + 1
      BY <1>1
    <3>2. QED
      BY <3>1, EventMore
  <2>2. longer[k] = text[k] /\ k - 1 \in 0..n
    BY <1>1 DEF Longer
  <2>3. Break(longer, k - 1) <=> Break(text, k - 1)
    BY <2>2, BreaksKeep
  <2>4. QED
    BY <2>1, <2>2, <2>3 DEF DataLines
<1>4. n + 1 \in DataLines(longer, s) <=>
         n + 1 \in EventOf(longer, s) /\ Break(text, n) /\ longer[n + 1].is = "data:"
  <2>1. Break(longer, n) <=> Break(text, n)
    BY <1>1, BreaksKeep
  <2>2. QED
    BY <1>1, <2>1 DEF DataLines
<1>5. DataLines(longer, s) \subseteq (1..n) \cup {n + 1} /\ DataLines(text, s) \subseteq 1..n
  <2>1. EventOf(longer, s) \subseteq (1..n) \cup {n + 1}
    BY <1>2, EventMore
  <2>2. QED
    BY <1>2, <2>1 DEF DataLines
<1> HIDE DEF n
<1>6. QED
  BY <1>3, <1>4, <1>5 DEF n

LEMMA DataPiecesMore ==
    ASSUME NEW text, NEW longer, Longer(text, longer), NEW s \in 0..Len(text)
    PROVE  DataPieces(longer, s) = DataPieces(text, s) \cup
              (IF /\ Len(text) + 1 \in EventOf(longer, s)
                  /\ \E i \in DataLines(text, s) : OnLine(longer, i - 1, Len(text) + 1) THEN {Len(text) + 1} ELSE {})
<1> DEFINE n == Len(text)
<1>1. n \in Nat /\ s \in Nat /\ Len(longer) = n + 1
  BY DEF Longer
<1>2. /\ EventOf(text, s) \subseteq 1..n /\ DataLines(text, s) \subseteq 1..n
      /\ DataLines(longer, s) \ {n + 1} = DataLines(text, s)
      /\ EventOf(longer, s) \subseteq (1..n) \cup {n + 1}
      /\ DataLines(longer, s) \subseteq 1..(n + 1)
  <2>1. EventOf(text, s) \subseteq 1..n /\ DataLines(text, s) \subseteq 1..n
    BY <1>1, EventBounds, Zenon
  <2>2. n + 1 \notin 1..n
    BY <1>1
  <2>3. DataLines(longer, s) \ {n + 1} = DataLines(text, s)
    BY <2>1, <2>2, DataLinesMore
  <2>4. EventOf(longer, s) \subseteq (1..n) \cup {n + 1}
    BY <2>1, EventMore
  <2>5. DataLines(longer, s) \subseteq 1..(n + 1)
    BY <1>1, EventBounds
  <2>6. QED
    BY <2>1, <2>3, <2>4, <2>5
<1>3. ASSUME NEW k \in 1..n
      PROVE  k \in DataPieces(longer, s) <=> k \in DataPieces(text, s)
  <2>1. k \in EventOf(longer, s) <=> k \in EventOf(text, s)
    <3>1. k # n + 1
      BY <1>1
    <3>2. QED
      BY <3>1, EventMore
  <2>2. ASSUME NEW i \in 1..(n + 1), i < k
        PROVE  /\ i \in DataLines(longer, s) <=> i \in DataLines(text, s)
               /\ OnLine(longer, i - 1, k) <=> OnLine(text, i - 1, k)
    <3>1. i # n + 1 /\ i - 1 \in Int /\ i - 1 >= 0 /\ k \in 0..n
      BY <1>1, <2>2
    <3>2. QED
      BY <1>2, <3>1, LinesKeep
  <2>3. (\E i \in DataLines(longer, s) : i < k /\ OnLine(longer, i - 1, k)) <=>
        (\E i \in DataLines(text, s) : i < k /\ OnLine(text, i - 1, k))
    <3>1. \A i : i \in DataLines(longer, s) \/ i \in DataLines(text, s) => i \in 1..(n + 1)
      BY <1>1, <1>2
    <3>2. QED
      BY <2>2, <3>1, Zenon
  <2>4. QED
    BY <2>1, <2>3, Zenon DEF DataPieces
<1>4. n + 1 \in DataPieces(longer, s) <=>
         n + 1 \in EventOf(longer, s) /\ \E i \in DataLines(text, s) : OnLine(longer, i - 1, n + 1)
  <2>1. \A i \in DataLines(longer, s) : i < n + 1 <=> i \in DataLines(text, s)
    <3>1. \A i \in DataLines(longer, s) : i \in 1..(n + 1)
      BY <1>2
    <3>2. \A i \in DataLines(text, s) : i \in 1..n
      BY <1>2
    <3>3. ASSUME NEW i \in DataLines(longer, s)
          PROVE  i < n + 1 <=> i # n + 1
      BY <1>1, <3>1
    <3>4. QED
      BY <1>2, <3>3
  <2>2. DataLines(text, s) \subseteq DataLines(longer, s)
    BY <1>2
  <2>3. (\E i \in DataLines(longer, s) : i < n + 1 /\ OnLine(longer, i - 1, n + 1)) <=>
        (\E i \in DataLines(text, s) : OnLine(longer, i - 1, n + 1))
    BY <2>1, <2>2, Zenon
  <2>4. QED
    BY <2>3, Zenon DEF DataPieces
<1>5. DataPieces(longer, s) \subseteq (1..n) \cup {n + 1} /\ DataPieces(text, s) \subseteq 1..n
  <2>1. DataPieces(longer, s) \subseteq EventOf(longer, s) /\ DataPieces(text, s) \subseteq EventOf(text, s)
    BY Zenon DEF DataPieces
  <2>2. QED
    BY <1>2, <2>1, Zenon
<1> HIDE DEF n
<1>6. QED
  BY <1>3, <1>4, <1>5 DEF n

\* The sequences that the definition of Picked goes through.
LEMMA PickedDefined ==
    ASSUME NEW text, NEW places, Len(text) \in Nat
    PROVE  \E picked :
              /\ picked = [k \in 0..Len(text) |->
                              IF k = 0 THEN <<>>
                              ELSE IF k \in places THEN Append(picked[k - 1], text[k]) ELSE picked[k - 1]]
              /\ Picked(text, places) = picked[Len(text)]
<1> DEFINE Is(picked, m) ==
             picked = [k \in 0..m |->
                          IF k = 0 THEN <<>>
                          ELSE IF k \in places THEN Append(picked[k - 1], text[k]) ELSE picked[k - 1]]
           n == Len(text)
           Missing == {m \in 0..n : ~ \E picked : Is(picked, m)}
<1>1. Missing = {}
  <2>1. SUFFICES ASSUME Missing # {} PROVE FALSE
    OBVIOUS
  <2>2. PICK m \in Missing : \A k \in Missing : m <= k
    <3>1. Missing \in SUBSET Nat
      OBVIOUS
    <3> HIDE DEF Missing
    <3>2. QED
      BY <2>1, <3>1, NatMinimum
  <2>3. m # 0
    <3>1. Is([k \in 0..0 |-> <<>>], 0)
      OBVIOUS
    <3>2. QED
      BY <3>1
  <2>4. m - 1 \in 0..n /\ m - 1 \notin Missing
    <3>1. m \in 0..n
      BY <2>2
    <3> HIDE DEF Missing
    <3>2. QED
      BY <2>2, <2>3, <3>1
  <2>5. PICK before : Is(before, m - 1)
    BY <2>4
  <2> DEFINE next == IF m \in places THEN Append(before[m - 1], text[m]) ELSE before[m - 1]
             now == [k \in 0..m |-> IF k < m THEN before[k] ELSE next]
  <2>6. ASSUME NEW k \in 0..m
        PROVE  now[k] = IF k = 0 THEN <<>>
                        ELSE IF k \in places THEN Append(now[k - 1], text[k]) ELSE now[k - 1]
    <3>1. m - 1 \in Nat /\ m \in Nat /\ k \in Nat
      BY <2>4
    <3>2. CASE k < m
      <4>1. k \in 0..(m - 1) /\ now[k] = before[k]
        BY <3>1, <3>2
      <4>2. before[k] = IF k = 0 THEN <<>>
                        ELSE IF k \in places THEN Append(before[k - 1], text[k]) ELSE before[k - 1]
        BY <2>5, <4>1
      <4>3. k # 0 => now[k - 1] = before[k - 1]
        BY <3>1, <3>2
      <4>4. QED
        BY <4>1, <4>2, <4>3
    <3>3. CASE k = m
      <4>1. now[k] = next
        BY <3>1, <3>3
      <4>2. now[k - 1] = before[k - 1]
        BY <3>1, <3>3
      <4>3. QED
        BY <2>3, <3>3, <4>1, <4>2
    <3>4. QED
      BY <3>1, <3>2, <3>3
  <2>7. now = [k \in 0..m |-> now[k]]
    OBVIOUS
  <2>8. Is(now, m)
    <3> HIDE DEF now
    <3>1. QED
      BY <2>6, <2>7
  <2>9. QED
    BY <2>2, <2>8
<1>2. PICK picked : Is(picked, n)
  BY <1>1
<1>3. Picked(text, places) = (CHOOSE p : Is(p, n))[n]
  BY DEF Picked
<1>4. Is(CHOOSE p : Is(p, n), n)
  <2> HIDE DEF Is, Missing
  <2>1. \E p : Is(p, n)
    BY <1>2, Zenon
  <2>2. QED
    BY <2>1, Zenon
<1>5. QED
  BY <1>3, <1>4

\* Whatever takes the pieces of the places one after another is what is picked.
LEMMA PickedLess ==
    ASSUME NEW text, NEW places, Len(text) \in Nat
    PROVE  \E picked :
              /\ Picked(text, places) = picked[Len(text)]
              /\ picked[0] = <<>>
              /\ \A k \in 1..Len(text) :
                    picked[k] = IF k \in places THEN Append(picked[k - 1], text[k]) ELSE picked[k - 1]
<1>1. PICK picked :
         /\ picked = [k \in 0..Len(text) |->
                         IF k = 0 THEN <<>>
                         ELSE IF k \in places THEN Append(picked[k - 1], text[k]) ELSE picked[k - 1]]
         /\ Picked(text, places) = picked[Len(text)]
  BY PickedDefined
<1>2. ASSUME NEW k \in 0..Len(text)
      PROVE  picked[k] = IF k = 0 THEN <<>>
                         ELSE IF k \in places THEN Append(picked[k - 1], text[k]) ELSE picked[k - 1]
  BY <1>1, Zenon
<1>3. 0 \in 0..Len(text) /\ \A k \in 1..Len(text) : k \in 0..Len(text) /\ k # 0
  OBVIOUS
<1>4. QED
  BY <1>1, <1>2, <1>3, Zenon

LEMMA PickedIs ==
    ASSUME NEW text, NEW places, Len(text) \in Nat, NEW s, s[0] = <<>>,
           \A k \in 1..Len(text) : s[k] = IF k \in places THEN Append(s[k - 1], text[k]) ELSE s[k - 1]
    PROVE  Picked(text, places) = s[Len(text)]
<1>1. PICK picked :
         /\ Picked(text, places) = picked[Len(text)]
         /\ picked[0] = <<>>
         /\ \A k \in 1..Len(text) : picked[k] = IF k \in places THEN Append(picked[k - 1], text[k]) ELSE picked[k - 1]
  BY PickedLess
<1>2. picked[0] = <<>>
  BY <1>1
<1> DEFINE n == Len(text)
           Wrong == {k \in 0..n : picked[k] # s[k]}
<1>3. ASSUME Wrong # {} PROVE FALSE
  <2>1. PICK m \in Wrong : \A k \in Wrong : m <= k
    <3>1. Wrong \in SUBSET Nat
      OBVIOUS
    <3> HIDE DEF Wrong
    <3>2. QED
      BY <1>3, <3>1, NatMinimum
  <2>2. m \in 0..n /\ m # 0 /\ picked[m] # s[m]
    BY <1>2
  <2>3. m - 1 \in 0..n /\ m - 1 \notin Wrong /\ m \in 1..n
    BY <2>1, <2>2
  <2>4. picked[m - 1] = s[m - 1]
    BY <2>3
  <2>5. QED
    BY <1>1, <2>2, <2>3, <2>4
<1>4. n \in 0..n /\ n \notin Wrong
  BY <1>3
<1>5. QED
  BY <1>1, <1>4

\* One more piece is picked, or is not.
LEMMA PickedMore ==
    ASSUME NEW text, NEW longer, Longer(text, longer), NEW places, NEW more,
           \A k \in 1..Len(text) : k \in places <=> k \in more
    PROVE  Picked(longer, more) = IF Len(text) + 1 \in more
                                  THEN Append(Picked(text, places), longer[Len(text) + 1]) ELSE Picked(text, places)
<1> DEFINE n == Len(text)
<1>1. n \in Nat /\ Len(longer) = n + 1 /\ \A i \in 1..n : longer[i] = text[i]
  BY DEF Longer
<1>2. PICK picked :
         /\ Picked(longer, more) = picked[n + 1]
         /\ picked[0] = <<>>
         /\ \A k \in 1..(n + 1) :
               picked[k] = IF k \in more THEN Append(picked[k - 1], longer[k]) ELSE picked[k - 1]
  <2>1. Len(longer) \in Nat
    BY <1>1
  <2>2. PICK p :
           /\ Picked(longer, more) = p[Len(longer)]
           /\ p[0] = <<>>
           /\ \A k \in 1..Len(longer) : p[k] = IF k \in more THEN Append(p[k - 1], longer[k]) ELSE p[k - 1]
    BY <2>1, PickedLess, Zenon
  <2>3. Len(longer) = n + 1
    BY <1>1
  <2> HIDE DEF n
  <2>4. QED
    BY <2>2, <2>3, Zenon
<1>3. \A k \in 1..n : picked[k] = IF k \in places THEN Append(picked[k - 1], text[k]) ELSE picked[k - 1]
  <2>1. ASSUME NEW k \in 1..n
        PROVE  picked[k] = IF k \in places THEN Append(picked[k - 1], text[k]) ELSE picked[k - 1]
    <3>1. k \in 1..(n + 1)
      BY <1>1
    <3>2. QED
      BY <1>1, <1>2, <3>1
  <2>2. QED
    BY <2>1
<1>4. Picked(text, places) = picked[n]
  BY <1>1, <1>2, <1>3, PickedIs
<1>5. n + 1 \in 1..(n + 1) /\ (n + 1) - 1 = n
  BY <1>1
<1>6. QED
  BY <1>2, <1>4, <1>5

\* What is picked are pieces of the text, no more than there are places.
LEMMA PickedType ==
    ASSUME NEW S, NEW text \in Seq(S), NEW places
    PROVE  Picked(text, places) \in Seq(S)
<1> DEFINE n == Len(text)
<1>1. n \in Nat /\ \A i \in 1..n : text[i] \in S
  BY LenProperties, ElementOfSeq
<1>2. PICK picked :
         /\ Picked(text, places) = picked[n]
         /\ picked[0] = <<>>
         /\ \A k \in 1..n : picked[k] = IF k \in places THEN Append(picked[k - 1], text[k]) ELSE picked[k - 1]
  BY <1>1, PickedLess
<1> DEFINE Wrong == {k \in 0..n : picked[k] \notin Seq(S)}
<1>3. ASSUME Wrong # {} PROVE FALSE
  <2>1. PICK m \in Wrong : \A k \in Wrong : m <= k
    <3>1. Wrong \in SUBSET Nat
      OBVIOUS
    <3> HIDE DEF Wrong
    <3>2. QED
      BY <1>3, <3>1, NatMinimum
  <2>2. m \in 0..n /\ m # 0
    BY <1>2, EmptySeq
  <2>3. m - 1 \in 0..n /\ m - 1 \notin Wrong /\ m \in 1..n
    BY <1>1, <2>1, <2>2
  <2>4. picked[m - 1] \in Seq(S) /\ text[m] \in S
    BY <1>1, <2>3
  <2>5. Append(picked[m - 1], text[m]) \in Seq(S)
    BY <2>4, AppendProperties
  <2>6. picked[m] \in Seq(S)
    BY <1>2, <2>3, <2>4, <2>5
  <2>7. QED
    BY <2>1, <2>6
<1>4. n \in 0..n /\ n \notin Wrong
  BY <1>1, <1>3
<1>5. QED
  BY <1>2, <1>4

-----------------------------------------------------------------------------
(* What an event says of a text, and of one that goes on.                  *)

\* All that is said of an event is the same of the two texts.
SameEvent(text, longer, s) ==
    /\ DataLines(longer, s) = DataLines(text, s) /\ DataOf(longer, s) = DataOf(text, s)
    /\ Overlong(longer, s) <=> Overlong(text, s)
    /\ TooLong(longer, s) <=> TooLong(text, s)
    /\ Outcome(longer, s) = Outcome(text, s)
    /\ Terminal(longer, s) <=> Terminal(text, s)

LEMMA NoLineEnds ==
    ASSUME NEW text, NEW k \in Int, Break(text, k), NEW i \in Int
    PROVE  ~OnLine(text, i, k)
<1>1. SUFFICES ASSUME i < k, \A j \in (i + 1)..k : ~Break(text, j) PROVE FALSE
  BY DEF OnLine
<1>2. k \in (i + 1)..k
  BY <1>1
<1>3. QED
  BY <1>1, <1>2

LEMMA EventStill ==
    ASSUME NEW text, NEW longer, Longer(text, longer), NEW s \in 0..Len(text),
           Len(text) + 1 \notin EventOf(longer, s) \/ longer[Len(text) + 1].is = "newline"
    PROVE  SameEvent(text, longer, s)
<1> DEFINE n == Len(text)
<1>1. n \in Nat /\ s \in Nat /\ s <= n /\ n + 1 \in Int
  BY DEF Longer
<1>2. \A i \in Int : n + 1 \in EventOf(longer, s) => ~OnLine(longer, i, n + 1)
  BY <1>1, BreaksKeep, NoLineEnds
<1>3. DataLines(longer, s) = DataLines(text, s)
  <2>1. ~(n + 1 \in EventOf(longer, s) /\ longer[n + 1].is = "data:")
    OBVIOUS
  <2>2. DataLines(longer, s) = DataLines(text, s) \cup {}
    BY <2>1, DataLinesMore, Zenon
  <2>3. QED
    BY <2>2
<1>4. DataPieces(longer, s) = DataPieces(text, s)
  <2>1. \A i \in DataLines(text, s) : i - 1 \in Int
    BY <1>1, EventBounds
  <2>2. ~(n + 1 \in EventOf(longer, s) /\ \E i \in DataLines(text, s) : OnLine(longer, i - 1, n + 1))
    BY <1>2, <2>1
  <2>3. DataPieces(longer, s) = DataPieces(text, s) \cup {}
    BY <2>2, DataPiecesMore, Zenon
  <2>4. QED
    BY <2>3
<1>5. DataOf(longer, s) = DataOf(text, s)
  <2>1. n + 1 \notin DataPieces(text, s)
    <3>1. DataPieces(text, s) \subseteq 1..n
      BY <1>1, EventBounds
    <3>2. QED
      BY <1>1, <3>1
  <2>2. Picked(longer, DataPieces(longer, s)) = Picked(text, DataPieces(text, s))
    BY <1>4, <2>1, PickedMore
  <2>3. QED
    BY <2>2 DEF DataOf
<1>6. Overlong(longer, s) <=> Overlong(text, s)
  <2>1. ASSUME NEW k \in EventOf(text, s)
        PROVE  /\ k \in EventOf(longer, s) /\ k \in 0..n
               /\ \A i \in s..k : OnLine(longer, i, k) <=> OnLine(text, i, k)
    <3>1. k \in EventOf(longer, s)
      BY EventMore
    <3>2. k \in (s + 1)..n
      BY <1>1, EventBounds
    <3>3. k \in 0..n /\ \A i \in s..k : i \in Int /\ i >= 0
      BY <1>1, <3>2
    <3>4. QED
      BY <3>1, <3>3, LinesKeep
  <2>2. ASSUME NEW k \in EventOf(longer, s), k \notin EventOf(text, s)
        PROVE  \A i \in s..k : ~OnLine(longer, i, k)
    <3>1. k = n + 1
      BY <2>2, EventMore
    <3>2. \A i \in s..k : i \in Int
      OBVIOUS
    <3>3. QED
      BY <1>2, <3>1, <3>2
  <2>3. Overlong(text, s) => Overlong(longer, s)
    BY <2>1, Zenon DEF Overlong
  <2>4. Overlong(longer, s) => Overlong(text, s)
    BY <2>1, <2>2, Zenon DEF Overlong
  <2>5. QED
    BY <2>3, <2>4
<1>7. Overflows(longer, s) <=> Overflows(text, s)
  BY <1>3, <1>5 DEF Overflows
<1>8. TooLong(longer, s) <=> TooLong(text, s)
  BY <1>6, <1>7 DEF TooLong
<1>9. QED
  BY <1>3, <1>5, <1>6, <1>8 DEF SameEvent, Outcome, Terminal

\* The events before one that began at s, and what they say, stay what they are.
LEMMA ClosedStill ==
    ASSUME NEW text, NEW longer, Longer(text, longer), NEW s \in 0..Len(text), s = 0 \/ Blank(text, s - 1)
    PROVE  /\ Closed(longer, s) = Closed(text, s)
           /\ \A t \in Closed(text, s) : SameEvent(text, longer, t)
<1> DEFINE n == Len(text)
<1>1. n \in Nat /\ s \in Nat /\ s <= n /\ Len(longer) = n + 1
  BY DEF Longer
<1>2. ASSUME NEW t \in Nat, t < s
      PROVE  t \in EventStarts(longer) <=> t \in EventStarts(text)
  <2>1. t \in 0..(n - 1) /\ t \in 0..((n + 1) - 1) /\ t \in 0..n /\ t + 1 \in 0..n /\ (t # 0 => t - 1 \in 0..(n - 1))
    BY <1>1, <1>2
  <2>2. (Break(longer, t) <=> Break(text, t)) /\ (Break(longer, t + 1) <=> Break(text, t + 1))
    BY <2>1, BreaksKeep
  <2>3. t # 0 => (Blank(longer, t - 1) <=> Blank(text, t - 1))
    BY <2>1, BlanksKeep
  <2>4. QED
    BY <1>1, <2>1, <2>2, <2>3 DEF EventStarts
<1>3. \A t : t \in EventStarts(longer) \/ t \in EventStarts(text) => t \in Nat
  BY <1>1 DEF EventStarts
<1>4. Closed(longer, s) = Closed(text, s)
  BY <1>2, <1>3 DEF Closed
<1>5. ASSUME NEW t \in Closed(text, s) PROVE SameEvent(text, longer, t)
  <2>1. t \in Nat /\ t < s
    BY <1>3 DEF Closed
  <2>2. s - 1 \in t..n /\ s - 1 \in 0..(n - 1) /\ s # 0 /\ t \in 0..n
    BY <1>1, <2>1
  <2>3. Blank(longer, s - 1)
    BY <2>2, BlanksKeep
  <2>4. n + 1 \notin EventOf(longer, t)
    <3>1. (n + 1) - 1 = n
      BY <1>1
    <3>2. QED
      BY <2>2, <2>3, <3>1 DEF EventOf
  <2>5. QED
    BY <2>2, <2>4, EventStill
<1>6. QED
  BY <1>4, <1>5

LEMMA TellsStill ==
    ASSUME NEW text, NEW longer, Longer(text, longer), NEW s \in 0..Len(text), s = 0 \/ Blank(text, s - 1), NEW o
    PROVE  /\ Tells(longer, Closed(longer, s), o) <=> Tells(text, Closed(text, s), o)
           /\ (\A t \in Closed(longer, s) : ~Terminal(longer, t)) <=> \A t \in Closed(text, s) : ~Terminal(text, t)
<1>1. Closed(longer, s) = Closed(text, s)
  BY ClosedStill
<1>2. \A t \in Closed(text, s) :
         Outcome(longer, t) = Outcome(text, t) /\ (Terminal(longer, t) <=> Terminal(text, t))
  BY ClosedStill DEF SameEvent
<1>3. QED
  BY <1>1, <1>2 DEF Tells

-----------------------------------------------------------------------------
(* What the observer does with a line.                                     *)

\* What an event that ends says of usage, and whether it is the last.
Verdict(o) == IF o.limited THEN "malformed" ELSE IF o.lines = 0 THEN "unavailable" ELSE Usage!EventOutcome(o.data)
Done(o)    == ~o.limited /\ o.lines > 0 /\ Usage!IsDone(o.data)

LEMMA FinishEventIs ==
    ASSUME NEW o \in ObserverType
    PROVE  LET after == Usage!FinishEvent(o)
           IN  /\ after \in ObserverType
               /\ after.line = o.line /\ after.data = <<>> /\ after.lines = 0 /\ ~after.limited
               /\ after.candidate <=> o.candidate \/ Verdict(o) = "available"
               /\ after.invalid <=> \/ o.invalid \/ Verdict(o) = "malformed"
                                    \/ Verdict(o) = "available" /\ o.candidate
               /\ after.terminal <=> Done(o)
<1> DEFINE outcome == Verdict(o)
           last == Done(o)
           after == [o EXCEPT !.candidate = @ \/ outcome = "available",
                              !.invalid   = @ \/ outcome = "malformed" \/ (outcome = "available" /\ o.candidate),
                              !.terminal  = last,
                              !.data = <<>>, !.lines = 0, !.limited = FALSE]
<1>1. Usage!FinishEvent(o) = after
  BY DEF Usage!FinishEvent, Verdict, Done
<1>2. last \in BOOLEAN /\ <<>> \in Seq(Pieces)
  BY EmptySeq DEF Done
<1> HIDE DEF outcome, last
<1>3. /\ after \in ObserverType
      /\ after.line = o.line /\ after.data = <<>> /\ after.lines = 0 /\ ~after.limited
      /\ after.candidate = (o.candidate \/ outcome = "available")
      /\ after.invalid = (o.invalid \/ outcome = "malformed" \/ (outcome = "available" /\ o.candidate))
      /\ after.terminal = last
  BY <1>2 DEF ObserverType
<1>4. QED
  BY <1>1, <1>3 DEF outcome, last

LEMMA ProcessLineIs ==
    ASSUME NEW o \in ObserverType, o.line # <<>>
    PROVE  LET after == Usage!ProcessLine(o)
               fits  == Len(o.data) + o.lines + Len(Tail(o.line)) <= MaximumEvent
           IN  /\ after \in ObserverType /\ after.line = <<>>
               /\ after.candidate = o.candidate /\ after.invalid = o.invalid /\ after.terminal = o.terminal
               /\ after.limited <=> o.limited \/ (IsData(o.line) /\ ~fits)
               /\ ~o.limited /\ ~IsData(o.line) => after.data = o.data /\ after.lines = o.lines
               /\ ~o.limited /\ IsData(o.line) /\ fits =>
                     after.data = o.data \o Tail(o.line) /\ after.lines = o.lines + 1
<1> DEFINE data == Tail(o.line)
           next == [o EXCEPT !.line = <<>>]
           size == Len(o.data) + o.lines + Len(data)
<1>1. /\ o.line \in Seq(Pieces) /\ o.data \in Seq(Pieces) /\ o.lines \in Nat
      /\ o.limited \in BOOLEAN /\ o.candidate \in BOOLEAN /\ o.invalid \in BOOLEAN /\ o.terminal \in BOOLEAN
  BY DEF ObserverType
<1>2. data \in Seq(Pieces) /\ <<>> \in Seq(Pieces) /\ o.data \o data \in Seq(Pieces)
  BY <1>1, HeadTailProperties, EmptySeq, ConcatProperties
<1>3. size \in Nat /\ MaximumEvent \in Nat
  BY <1>1, <1>2, LenProperties, InputAssumption
<1>4. /\ next \in ObserverType /\ next.line = <<>> /\ next.data = o.data /\ next.lines = o.lines
      /\ next.limited = o.limited /\ next.candidate = o.candidate /\ next.invalid = o.invalid /\ next.terminal = o.terminal
  BY <1>2 DEF ObserverType
<1>5. CASE o.limited \/ ~IsData(o.line)
  <2>1. Usage!ProcessLine(o) = next
    BY <1>5 DEF Usage!ProcessLine, IsData
  <2> HIDE DEF next
  <2>2. QED
    BY <1>1, <1>4, <1>5, <2>1
<1>6. CASE ~o.limited /\ IsData(o.line) /\ size > MaximumEvent
  <2> DEFINE full == [next EXCEPT !.data = <<>>, !.limited = TRUE]
  <2>1. Usage!ProcessLine(o) = full
    BY <1>6 DEF Usage!ProcessLine, IsData
  <2> HIDE DEF next
  <2>2. /\ full \in ObserverType /\ full.line = <<>> /\ full.limited
        /\ full.candidate = o.candidate /\ full.invalid = o.invalid /\ full.terminal = o.terminal
    BY <1>2, <1>4 DEF ObserverType
  <2> HIDE DEF full, data
  <2>3. ~(size <= MaximumEvent)
    BY <1>3, <1>6
  <2> HIDE DEF size
  <2>4. QED
    BY <1>6, <2>1, <2>2, <2>3 DEF size, data
<1>7. CASE ~o.limited /\ IsData(o.line) /\ size <= MaximumEvent
  <2> DEFINE joined == o.data \o data
             more == o.lines + 1
             longer == [next EXCEPT !.data = joined, !.lines = more]
  <2>1. Usage!ProcessLine(o) = longer
    <3>1. ~(size > MaximumEvent)
      BY <1>3, <1>7
    <3>2. QED
      BY <1>7, <3>1 DEF Usage!ProcessLine, IsData
  <2>2. joined \in Seq(Pieces) /\ more \in Nat
    BY <1>1, <1>2
  <2> HIDE DEF next, data, joined, more
  <2>3. /\ longer \in ObserverType /\ longer.line = <<>> /\ longer.limited = o.limited
        /\ longer.data = joined /\ longer.lines = more
        /\ longer.candidate = o.candidate /\ longer.invalid = o.invalid /\ longer.terminal = o.terminal
    BY <1>4, <2>2 DEF ObserverType
  <2> HIDE DEF longer
  <2>4. QED
    BY <1>7, <2>1, <2>3 DEF size, data, joined, more
<1>8. size > MaximumEvent \/ size <= MaximumEvent
  BY <1>3
<1> HIDE DEF size, data, next
<1>9. QED
  BY <1>5, <1>6, <1>7, <1>8, Zenon

LEMMA DataTyped ==
    ASSUME NEW text \in Seq(Pieces), NEW s \in Nat
    PROVE  /\ DataOf(text, s) \in Seq(Pieces) /\ Len(DataOf(text, s)) \in Nat
           /\ IsFiniteSet(DataLines(text, s)) /\ Cardinality(DataLines(text, s)) \in Nat
           /\ Cardinality(DataLines(text, s)) = 0 <=> DataLines(text, s) = {}
<1>1. DataOf(text, s) \in Seq(Pieces)
  BY PickedType DEF DataOf
<1>2. Len(DataOf(text, s)) \in Nat /\ Len(text) \in Nat
  BY <1>1, LenProperties
<1>3. IsFiniteSet(DataLines(text, s))
  <2>1. DataLines(text, s) \subseteq 1..Len(text)
    BY <1>2, EventBounds
  <2>2. IsFiniteSet(1..Len(text))
    BY <1>2, FS_Interval
  <2>3. QED
    BY <2>1, <2>2, FS_Subset
<1>4. QED
  BY <1>1, <1>2, <1>3, FS_CardinalityType, FS_EmptySet

\* A line that ends goes into what its event has said.
LEMMA LineGathered ==
    ASSUME NEW text \in Seq(Pieces), NEW s \in Nat, NEW o \in ObserverType, o.line # <<>>, Gathered(text, s, o)
    PROVE  Gathered(text, s, Usage!ProcessLine(o))
<1> DEFINE after == Usage!ProcessLine(o)
           fits  == Len(o.data) + o.lines + Len(Tail(o.line)) <= MaximumEvent
<1>1. /\ after \in ObserverType /\ after.line = <<>>
      /\ after.limited <=> o.limited \/ (IsData(o.line) /\ ~fits)
      /\ ~o.limited /\ ~IsData(o.line) => after.data = o.data /\ after.lines = o.lines
      /\ ~o.limited /\ IsData(o.line) /\ fits =>
            after.data = o.data \o Tail(o.line) /\ after.lines = o.lines + 1
  BY ProcessLineIs
<1>2. o.line \in Seq(Pieces) /\ o.data \in Seq(Pieces) /\ o.lines \in Nat /\ Tail(o.line) \in Seq(Pieces)
  BY HeadTailProperties DEF ObserverType
<1>3. Len(o.data) \in Nat /\ Len(Tail(o.line)) \in Nat /\ MaximumEvent \in Nat
  BY <1>2, LenProperties, InputAssumption
<1>4. /\ ~IsData(after.line) /\ Open(after) = <<>>
      /\ o.data \o <<>> = o.data /\ after.data \o <<>> = after.data
  <2>1. after.data \in Seq(Pieces)
    BY <1>1 DEF ObserverType
  <2>2. ~IsData(after.line)
    BY <1>1 DEF IsData
  <2>3. Open(after) = <<>>
    BY <2>2 DEF Open
  <2>4. QED
    BY <1>2, <2>1, <2>2, <2>3, ConcatEmptySeq
<1> SUFFICES Gathered(text, s, after)
  OBVIOUS
<1> HIDE DEF after
<1>5. (Len(o.data) + Len(Tail(o.line))) + (o.lines + 1) - 1 = Len(o.data) + o.lines + Len(Tail(o.line))
  <2>1. PICK held \in Nat : held = Len(o.data)
    BY <1>3
  <2>2. PICK said \in Nat : said = Len(Tail(o.line))
    BY <1>3
  <2>3. PICK lines \in Nat : lines = o.lines
    BY <1>2
  <2>4. (held + said) + (lines + 1) - 1 = held + lines + said
    OBVIOUS
  <2>5. QED
    BY <2>1, <2>2, <2>3, <2>4, Zenon
<1>6. CASE o.limited
  BY <1>1, <1>6 DEF Gathered
<1>7. CASE ~o.limited /\ ~IsData(o.line)
  <2>1. Open(o) = <<>>
    BY <1>7 DEF Open
  <2>2. o.lines + 0 = o.lines
    BY <1>2
  <2>3. /\ ~Overlong(text, s) /\ DataOf(text, s) = o.data \o <<>>
        /\ Cardinality(DataLines(text, s)) = o.lines
        /\ o.lines = 0 => o.data = <<>>
        /\ o.lines > 0 => Len(o.data) + o.lines - 1 <= MaximumEvent
    BY <1>7, <2>1, <2>2 DEF Gathered
  <2>4. QED
    BY <1>1, <1>4, <1>7, <2>2, <2>3 DEF Gathered
<1>8. CASE ~o.limited /\ IsData(o.line)
  <2>1. Open(o) = Tail(o.line)
    BY <1>8 DEF Open
  <2>2. ~Overlong(text, s) /\ DataOf(text, s) = o.data \o Tail(o.line) /\ Cardinality(DataLines(text, s)) = o.lines + 1
    BY <1>8, <2>1 DEF Gathered
  <2>3. Len(DataOf(text, s)) = Len(o.data) + Len(Tail(o.line))
    BY <1>2, <2>2, ConcatProperties
  <2>4. DataLines(text, s) # {}
    <3>1. Cardinality(DataLines(text, s)) # 0
      BY <1>2, <2>2
    <3>2. QED
      BY <3>1, DataTyped
  <2>5. CASE fits
    <3>1. ~after.limited /\ after.data = o.data \o Tail(o.line) /\ after.lines = o.lines + 1
      BY <1>1, <1>8, <2>5
    <3>2. after.lines # 0 /\ after.lines + 0 = after.lines
      BY <1>2, <3>1
    <3>3. Len(after.data) + after.lines - 1 <= MaximumEvent
      <4>1. Len(after.data) = Len(o.data) + Len(Tail(o.line))
        BY <2>2, <2>3, <3>1
      <4>2. QED
        BY <1>5, <2>5, <3>1, <4>1
    <3>4. QED
      BY <1>4, <2>2, <3>1, <3>2, <3>3 DEF Gathered
  <2>6. CASE ~fits
    <3>1. after.limited
      BY <1>1, <1>8, <2>6
    <3>2. Len(DataOf(text, s)) + Cardinality(DataLines(text, s)) - 1 > MaximumEvent
      <4>1. Len(DataOf(text, s)) + Cardinality(DataLines(text, s)) - 1 = Len(o.data) + o.lines + Len(Tail(o.line))
        BY <1>5, <2>2, <2>3
      <4>2. Len(o.data) + o.lines + Len(Tail(o.line)) > MaximumEvent
        BY <1>2, <1>3, <2>6
      <4>3. QED
        BY <4>1, <4>2
    <3>3. TooLong(text, s)
      BY <2>4, <3>2 DEF TooLong, Overflows
    <3>4. QED
      BY <3>1, <3>3 DEF Gathered
  <2>7. QED
    BY <2>5, <2>6
<1>9. QED
  BY <1>6, <1>7, <1>8

\* What the observer says of an event when no line is open is what the event says.
LEMMA EventTold ==
    ASSUME NEW text \in Seq(Pieces), NEW s \in Nat, NEW o \in ObserverType, o.line = <<>>, Gathered(text, s, o)
    PROVE  Verdict(o) = Outcome(text, s) /\ (Done(o) <=> Terminal(text, s))
<1>1. CASE o.limited
  BY <1>1 DEF Gathered, Verdict, Done, Outcome, Terminal
<1>2. CASE ~o.limited
  <2>1. o.data \in Seq(Pieces) /\ o.lines \in Nat /\ Len(o.data) \in Nat /\ MaximumEvent \in Nat
    BY LenProperties, InputAssumption DEF ObserverType
  <2>2. ~IsData(o.line) /\ Open(o) = <<>> /\ o.data \o <<>> = o.data
    <3>1. ~IsData(o.line)
      BY DEF IsData
    <3>2. QED
      BY <2>1, <3>1, ConcatEmptySeq DEF Open
  <2>3. o.lines + 0 = o.lines
    BY <2>1
  <2>4. /\ ~Overlong(text, s) /\ DataOf(text, s) = o.data
        /\ Cardinality(DataLines(text, s)) = o.lines
        /\ o.lines = 0 => o.data = <<>>
        /\ o.lines > 0 => Len(o.data) + o.lines - 1 <= MaximumEvent
    BY <1>2, <2>2, <2>3 DEF Gathered
  <2>5. ~TooLong(text, s)
    <3>1. DataLines(text, s) # {} => o.lines > 0
      BY <2>1, <2>4, DataTyped
    <3>2. ~Overflows(text, s)
      <4>1. o.lines > 0 => ~(Len(o.data) + o.lines - 1 > MaximumEvent)
        BY <2>1, <2>4
      <4>2. QED
        BY <2>4, <3>1, <4>1 DEF Overflows
    <3>3. QED
      BY <2>4, <3>2 DEF TooLong
  <2>6. CASE o.lines = 0
    <3>1. DOMAIN <<>> = {} /\ Len(<<>>) = 0
      BY EmptySeq
    <3>2. Usage!EventOutcome(<<>>) = "unavailable" /\ ~Usage!IsDone(<<>>)
      BY <3>1 DEF Usage!EventOutcome, Usage!Mentions, Usage!IsDone
    <3>3. QED
      BY <1>2, <2>4, <2>5, <2>6, <3>2 DEF Verdict, Done, Outcome, Terminal
  <2>7. CASE o.lines # 0
    <3>1. o.lines > 0
      BY <2>1, <2>7
    <3>2. QED
      BY <1>2, <2>4, <2>5, <2>7, <3>1 DEF Verdict, Done, Outcome, Terminal
  <2>8. QED
    BY <2>6, <2>7
<1>3. QED
  BY <1>1, <1>2

\* The last event says nothing of usage.
LEMMA DoneSaysNothing ==
    ASSUME NEW text \in Seq(Pieces), NEW s \in Nat, Terminal(text, s)
    PROVE  Outcome(text, s) = "unavailable"
<1> DEFINE data == DataOf(text, s)
<1>1. data \in Seq(Pieces) /\ Len(data) = 1 /\ data[1].is = "done" /\ ~TooLong(text, s)
  BY DataTyped DEF Terminal, Usage!IsDone
<1>2. DOMAIN data = 1..1
  BY <1>1, LenProperties
<1>3. \A i \in DOMAIN data : ~Usage!IsHalf(data[i])
  BY <1>1, <1>2 DEF Usage!IsHalf
<1> HIDE DEF data
<1>4. Usage!EventOutcome(data) = "unavailable"
  BY <1>3 DEF Usage!EventOutcome, Usage!Mentions
<1>5. QED
  BY <1>1, <1>4 DEF Outcome, data

\* One event more, of which the observer says what it says.
LEMMA TellsMore ==
    ASSUME NEW text, NEW events, NEW s, s \notin events, NEW o, NEW after, Tells(text, events, o),
           after.candidate <=> o.candidate \/ Outcome(text, s) = "available",
           after.invalid <=> \/ o.invalid \/ Outcome(text, s) = "malformed"
                             \/ Outcome(text, s) = "available" /\ o.candidate
    PROVE  Tells(text, events \cup {s}, after)
<1> DEFINE Counts(t) == Outcome(text, t) = "available"
           Lost(t) == Outcome(text, t) = "malformed"
           Twice(set) == \E t, u \in set : t # u /\ Counts(t) /\ Counts(u)
           more == events \cup {s}
<1>1. /\ o.candidate <=> \E t \in events : Counts(t)
      /\ o.invalid <=> (\E t \in events : Lost(t)) \/ Twice(events)
  BY DEF Tells
<1>2. after.candidate <=> o.candidate \/ Counts(s)
  OBVIOUS
<1>3. after.invalid <=> o.invalid \/ Lost(s) \/ (Counts(s) /\ o.candidate)
  OBVIOUS
<1> HIDE DEF Counts, Lost
<1>4. after.candidate <=> \E t \in more : Counts(t)
  BY <1>1, <1>2
<1>5. Twice(more) <=> Twice(events) \/ (Counts(s) /\ \E t \in events : Counts(t))
  OBVIOUS
<1>6. (\E t \in more : Lost(t)) <=> (\E t \in events : Lost(t)) \/ Lost(s)
  OBVIOUS
<1>7. after.invalid <=> (\E t \in more : Lost(t)) \/ Twice(more)
  <2> HIDE DEF Twice, more
  <2>1. QED
    BY <1>1, <1>3, <1>5, <1>6
<1>8. QED
  BY <1>4, <1>7 DEF Tells, Counts, Lost

\* A text that does not change what one holds, nor what is told of it.
LEMMA TellsSame ==
    ASSUME NEW text, NEW events, NEW o, NEW after, Tells(text, events, o),
           after.candidate = o.candidate, after.invalid = o.invalid
    PROVE  Tells(text, events, after)
BY DEF Tells

-----------------------------------------------------------------------------
(* One piece more.                                                         *)

LEMMA OverlongStays ==
    ASSUME NEW text, NEW longer, Longer(text, longer), NEW s \in 0..Len(text), Overlong(text, s)
    PROVE  Overlong(longer, s)
<1>0. PICK k \in EventOf(text, s) : \E i \in s..k : OnLine(text, i, k) /\ k - i > MaximumEvent
  BY DEF Overlong
<1>1. PICK i \in s..k : OnLine(text, i, k) /\ k - i > MaximumEvent
  BY <1>0
<1>2. Len(text) \in Nat /\ s \in Nat
  BY DEF Longer
<1>3. k \in EventOf(longer, s)
  BY EventMore
<1>4. k \in (s + 1)..Len(text)
  BY <1>2, EventBounds
<1>5. k \in 0..Len(text) /\ i \in Int /\ i >= 0
  BY <1>2, <1>4
<1>6. OnLine(longer, i, k)
  BY <1>1, <1>5, LinesKeep
<1>7. QED
  BY <1>1, <1>3, <1>6 DEF Overlong

LEMMA DataGrows ==
    ASSUME NEW text, NEW longer, Longer(text, longer), NEW s \in 0..Len(text)
    PROVE  DataOf(longer, s) =
              IF /\ Len(text) + 1 \in EventOf(longer, s)
                 /\ \E i \in DataLines(text, s) : OnLine(longer, i - 1, Len(text) + 1)
              THEN Append(DataOf(text, s), longer[Len(text) + 1]) ELSE DataOf(text, s)
<1> DEFINE n == Len(text)
           held == n + 1 \in EventOf(longer, s) /\ \E i \in DataLines(text, s) : OnLine(longer, i - 1, n + 1)
<1>1. n \in Nat /\ s \in Nat /\ n + 1 \notin 1..n
  BY DEF Longer
<1>2. DataPieces(longer, s) = DataPieces(text, s) \cup (IF held THEN {n + 1} ELSE {})
  BY DataPiecesMore, Zenon
<1>3. DataPieces(text, s) \subseteq 1..n
  BY <1>1, EventBounds
<1> HIDE DEF held
<1>4. /\ n + 1 \in DataPieces(longer, s) <=> held
      /\ \A k \in 1..n : k \in DataPieces(text, s) <=> k \in DataPieces(longer, s)
  <2> HIDE DEF n
  <2>1. \A k \in 1..n : k # n + 1
    BY <1>1
  <2>2. QED
    BY <1>1, <1>2, <1>3, <2>1
<1>5. Picked(longer, DataPieces(longer, s)) =
         IF n + 1 \in DataPieces(longer, s)
         THEN Append(Picked(text, DataPieces(text, s)), longer[n + 1]) ELSE Picked(text, DataPieces(text, s))
  BY <1>4, PickedMore
<1>6. QED
  BY <1>4, <1>5 DEF DataOf, held

LEMMA TooLongStays ==
    ASSUME NEW text \in Seq(Pieces), NEW longer \in Seq(Pieces), Longer(text, longer), NEW s \in 0..Len(text),
           TooLong(text, s)
    PROVE  TooLong(longer, s)
<1>1. s \in Nat /\ Len(text) \in Nat /\ MaximumEvent \in Nat
  BY InputAssumption DEF Longer
<1>2. CASE Overlong(text, s)
  BY <1>2, OverlongStays DEF TooLong
<1>3. CASE Overflows(text, s)
  <2>1. DataLines(text, s) \subseteq DataLines(longer, s)
    BY DataLinesMore
  <2>2. Cardinality(DataLines(text, s)) <= Cardinality(DataLines(longer, s))
    BY <1>1, <2>1, DataTyped, FS_Subset
  <2>3. Len(DataOf(text, s)) <= Len(DataOf(longer, s))
    <3>1. longer[Len(text) + 1] \in Pieces
      <4>1. Len(text) + 1 \in 1..Len(longer)
        BY <1>1 DEF Longer
      <4>2. QED
        BY <4>1, ElementOfSeq
    <3>2. DataOf(text, s) \in Seq(Pieces) /\ Len(DataOf(text, s)) \in Nat
      BY <1>1, DataTyped
    <3>3. Len(Append(DataOf(text, s), longer[Len(text) + 1])) = Len(DataOf(text, s)) + 1
      BY <3>1, <3>2, AppendProperties
    <3>4. DataOf(longer, s) \in {DataOf(text, s), Append(DataOf(text, s), longer[Len(text) + 1])}
      BY DataGrows
    <3>5. QED
      BY <3>2, <3>3, <3>4
  <2>4. /\ Len(DataOf(text, s)) \in Nat /\ Cardinality(DataLines(text, s)) \in Nat
        /\ Len(DataOf(longer, s)) \in Nat /\ Cardinality(DataLines(longer, s)) \in Nat
    BY <1>1, DataTyped
  <2>5. /\ DataLines(text, s) # {}
        /\ Len(DataOf(text, s)) + Cardinality(DataLines(text, s)) - 1 > MaximumEvent
    BY <1>3 DEF Overflows
  <2>6. \A a, b, c, d \in Nat : a <= c /\ b <= d /\ a + b - 1 > MaximumEvent => c + d - 1 > MaximumEvent
    BY <1>1
  <2>7. Len(DataOf(longer, s)) + Cardinality(DataLines(longer, s)) - 1 > MaximumEvent
    BY <2>2, <2>3, <2>4, <2>5, <2>6
  <2>8. DataLines(longer, s) # {}
    BY <2>1, <2>5
  <2>9. QED
    BY <2>7, <2>8 DEF TooLong, Overflows
<1>4. QED
  BY <1>2, <1>3 DEF TooLong

\* Of an event that has not begun nothing is said.
LEMMA NothingSaid ==
    ASSUME NEW text, Len(text) \in Nat
    PROVE  /\ DataLines(text, Len(text)) = {} /\ DataOf(text, Len(text)) = <<>>
           /\ ~Overlong(text, Len(text)) /\ ~TooLong(text, Len(text))
           /\ ~Terminal(text, Len(text)) /\ Outcome(text, Len(text)) = "unavailable"
<1> DEFINE n == Len(text)
<1>1. EventOf(text, n) = {}
  BY EventBounds
<1>2. DataLines(text, n) = {} /\ DataPieces(text, n) = {} /\ ~Overlong(text, n) /\ ~Overflows(text, n)
  BY <1>1 DEF DataLines, DataPieces, Overlong, Overflows
<1>3. Picked(text, {}) = <<>>
  <2> DEFINE none == [k \in 0..n |-> <<>>]
  <2>1. none[0] = <<>> /\ none[n] = <<>> /\ \A k \in 1..n : none[k] = none[k - 1]
    OBVIOUS
  <2>2. \A k \in 1..n : none[k] = IF k \in {} THEN Append(none[k - 1], text[k]) ELSE none[k - 1]
    BY <2>1
  <2> HIDE DEF none
  <2>3. Picked(text, {}) = none[n]
    BY <2>1, <2>2, PickedIs
  <2>4. QED
    BY <2>1, <2>3
<1>4. DataOf(text, n) = <<>>
  BY <1>2, <1>3 DEF DataOf
<1>5. ~Usage!IsDone(<<>>) /\ Usage!EventOutcome(<<>>) = "unavailable"
  <2>1. Len(<<>>) = 0 /\ DOMAIN <<>> = {}
    BY EmptySeq
  <2>2. QED
    BY <2>1 DEF Usage!IsDone, Usage!EventOutcome, Usage!Mentions
<1>6. QED
  BY <1>2, <1>4, <1>5 DEF TooLong, Terminal, Outcome

\* The line of a place is the one that begins last before it.
LEMMA LineOf ==
    ASSUME NEW text, NEW b \in Int, NEW k \in Int, Break(text, b), \A j \in (b + 1)..k : ~Break(text, j),
           NEW i \in Int, OnLine(text, i, k)
    PROVE  i = b \/ ~(b < k)
<1>1. Break(text, i) /\ i < k /\ \A j \in (i + 1)..k : ~Break(text, j)
  BY DEF OnLine
<1>2. CASE i < b /\ b < k
  <2>1. b \in (i + 1)..k
    BY <1>2
  <2>2. QED
    BY <1>1, <2>1
<1>3. CASE b < i
  <2>1. i \in (b + 1)..k
    BY <1>1, <1>3
  <2>2. QED
    BY <1>1, <2>1
<1>4. QED
  BY <1>2, <1>3

\* After an empty line, the event that was open is one of those that ended.
LEMMA NextEvent ==
    ASSUME NEW text, NEW longer, Longer(text, longer), NEW s \in 0..Len(text), s = 0 \/ Blank(text, s - 1),
           \A j \in s..(Len(text) - 1) : ~Blank(text, j), Break(longer, Len(text) + 1)
    PROVE  /\ Closed(longer, Len(text) + 1) = Closed(text, s) \cup (IF s < Len(text) THEN {s} ELSE {})
           /\ s \notin Closed(text, s)
<1> DEFINE n == Len(text)
<1>1. n \in Nat /\ s \in Nat /\ s <= n /\ Len(longer) = n + 1
  BY DEF Longer
<1>2. Closed(longer, s) = Closed(text, s)
  BY ClosedStill
<1>3. ASSUME NEW t \in EventStarts(longer), s < t, t < n + 1 PROVE FALSE
  <2>1. t \in Int /\ t # 0 /\ t - 1 \in s..(n - 1) /\ t - 1 \in 0..(n - 1)
    BY <1>1, <1>3 DEF EventStarts
  <2>2. Blank(longer, t - 1)
    BY <2>1 DEF EventStarts
  <2>3. Blank(text, t - 1)
    BY <2>1, <2>2, BlanksKeep
  <2>4. QED
    BY <2>1, <2>3
<1>4. s < n => s \in EventStarts(longer)
  <2>1. SUFFICES ASSUME s < n PROVE s \in EventStarts(longer)
    OBVIOUS
  <2>2. Break(text, s)
    <3>1. CASE s = 0
      BY <3>1 DEF Break
    <3>2. CASE s # 0
      <4>1. (s - 1) + 1 = s
        BY <1>1
      <4>2. QED
        BY <3>2, <4>1 DEF Blank
    <3>3. QED
      BY <3>1, <3>2
  <2>3. s \in s..(n - 1)
    BY <1>1, <2>1
  <2>4. ~Break(text, s + 1)
    BY <2>2, <2>3 DEF Blank
  <2>5. s \in 0..n /\ s + 1 \in 0..n
    BY <1>1, <2>1
  <2>6. Break(longer, s) /\ ~Break(longer, s + 1)
    BY <2>2, <2>4, <2>5, BreaksKeep
  <2>7. s # 0 => Blank(longer, s - 1)
    <3>1. s # 0 => s - 1 \in 0..(n - 1)
      BY <1>1
    <3>2. QED
      BY <3>1, BlanksKeep
  <2>8. s \in 0..(Len(longer) - 1)
    BY <1>1
  <2>9. QED
    BY <2>6, <2>7, <2>8 DEF EventStarts
<1>5. n \notin EventStarts(longer)
  BY <1>1 DEF EventStarts
<1>6. \A t \in EventStarts(longer) : t \in Int
  BY DEF EventStarts
<1>7. ASSUME NEW t \in EventStarts(longer)
      PROVE  t < n + 1 <=> t < s \/ (t = s /\ s < n)
  <2>1. t \in Int /\ t # n /\ ~(s < t /\ t < n + 1)
    BY <1>3, <1>5, <1>6
  <2>2. QED
    BY <1>1, <2>1
<1>8. Closed(longer, n + 1) = Closed(longer, s) \cup (IF s < n THEN {s} ELSE {})
  <2> HIDE DEF n
  <2>1. QED
    BY <1>4, <1>7 DEF Closed
<1>9. s \notin Closed(text, s)
  BY <1>1 DEF Closed
<1>10. QED
  BY <1>2, <1>8, <1>9

\* A newline of its own ends the event.
LEMMA EventEnds ==
    ASSUME NEW text \in Seq(Pieces), NEW longer \in Seq(Pieces), Longer(text, longer), NEW o \in ObserverType,
           NEW s \in 0..Len(text), NEW b \in s..Len(text), Reading(text, s, b, o),
           longer[Len(text) + 1].is = "newline", o.line = <<>>
    PROVE  Follows(longer, Usage!FinishEvent(o))
<1> DEFINE n == Len(text)
           after == Usage!FinishEvent(o)
<1>1. n \in Nat /\ s \in Nat /\ s <= n /\ Len(longer) = n + 1 /\ b = n
  <2>1. b = n
    BY Zenon DEF Reading, OfLine
  <2>2. QED
    BY <2>1 DEF Longer
<1>2. /\ s = 0 \/ Blank(text, s - 1)
      /\ \A j \in s..(n - 1) : ~Blank(text, j)
      /\ Gathered(text, s, o) /\ Tells(text, Closed(text, s), o)
      /\ \A t \in Closed(text, s) : ~Terminal(text, t)
  BY DEF Reading
<1>3. Break(longer, n + 1) /\ Blank(longer, n)
  <2>1. Break(text, n)
    BY <1>1 DEF Reading
  <2>2. n \in 0..n
    BY <1>1
  <2>3. QED
    BY <2>1, <2>2, BreaksKeep DEF Blank
<1>4. SameEvent(text, longer, s)
  BY EventStill
<1>5. Verdict(o) = Outcome(longer, s) /\ (Done(o) <=> Terminal(longer, s))
  BY <1>1, <1>2, <1>4, EventTold DEF SameEvent
<1>6. /\ after \in ObserverType
      /\ after.line = <<>> /\ after.data = <<>> /\ after.lines = 0 /\ ~after.limited
      /\ after.candidate <=> o.candidate \/ Outcome(longer, s) = "available"
      /\ after.invalid <=> \/ o.invalid \/ Outcome(longer, s) = "malformed"
                           \/ Outcome(longer, s) = "available" /\ o.candidate
      /\ after.terminal <=> Terminal(longer, s)
  BY <1>5, FinishEventIs
<1>7. /\ Closed(longer, s) = Closed(text, s)
      /\ Tells(longer, Closed(longer, s), o) /\ \A t \in Closed(longer, s) : ~Terminal(longer, t)
  BY <1>2, ClosedStill, TellsStill
<1>8. /\ Closed(longer, n + 1) = Closed(longer, s) \cup (IF s < n THEN {s} ELSE {})
      /\ s \notin Closed(longer, s)
  BY <1>2, <1>3, <1>7, NextEvent
<1>9. after.candidate \in BOOLEAN /\ after.invalid \in BOOLEAN /\ o.candidate \in BOOLEAN /\ o.invalid \in BOOLEAN
  BY <1>6 DEF ObserverType
<1>10. Outcome(longer, s) = "unavailable" => Tells(longer, Closed(longer, s), after)
  <2>1. SUFFICES ASSUME Outcome(longer, s) = "unavailable" PROVE Tells(longer, Closed(longer, s), after)
    OBVIOUS
  <2>2. after.candidate = o.candidate /\ after.invalid = o.invalid
    BY <1>6, <1>9, <2>1
  <2>3. QED
    BY <1>7, <2>2, TellsSame
<1>11. s = n => ~Terminal(longer, s) /\ Outcome(longer, s) = "unavailable"
  BY <1>1, <1>4, NothingSaid DEF SameEvent
<1> SUFFICES Follows(longer, after)
  OBVIOUS
<1> HIDE DEF after
<1>12. CASE Terminal(longer, s)
  <2>1. s < n
    BY <1>1, <1>11, <1>12
  <2>2. s \in EventStarts(longer)
    BY <1>8, <2>1 DEF Closed
  <2>3. Tells(longer, Closed(longer, s), after)
    BY <1>1, <1>10, <1>12, DoneSaysNothing
  <2>4. n \in s..(Len(longer) - 1)
    BY <1>1
  <2>5. Ended(longer, s, after)
    BY <1>3, <1>7, <1>12, <2>3, <2>4 DEF Ended
  <2>6. QED
    BY <1>6, <1>12, <2>2, <2>5 DEF Follows
<1>13. CASE ~Terminal(longer, s)
  <2>1. Tells(longer, Closed(longer, n + 1), after)
    <3>1. CASE s < n
      <4>1. Closed(longer, n + 1) = Closed(longer, s) \cup {s}
        BY <1>8, <3>1
      <4>2. Tells(longer, Closed(longer, s) \cup {s}, after)
        BY <1>6, <1>7, <1>8, TellsMore
      <4>3. QED
        BY <4>1, <4>2
    <3>2. CASE s = n
      <4>1. Closed(longer, n + 1) = Closed(longer, s)
        <5>1. ~(s < n)
          BY <1>1, <3>2
        <5>2. QED
          BY <1>8, <5>1
      <4>2. QED
        BY <1>10, <1>11, <3>2, <4>1
    <3>3. QED
      BY <1>1, <3>1, <3>2
  <2>2. \A t \in Closed(longer, n + 1) : ~Terminal(longer, t)
    BY <1>7, <1>8, <1>13
  <2>3. Gathered(longer, n + 1, after)
    <3>1. /\ DataLines(longer, n + 1) = {} /\ DataOf(longer, n + 1) = <<>> /\ ~Overlong(longer, n + 1)
      BY <1>1, NothingSaid
    <3>2. ~IsData(after.line) /\ Open(after) = <<>> /\ <<>> \o <<>> = <<>>
      BY <1>6, EmptySeq, ConcatEmptySeq DEF IsData, Open
    <3>3. Cardinality(DataLines(longer, n + 1)) = 0 /\ 0 + 0 = 0
      <4>1. Cardinality({}) = 0
        BY FS_EmptySet, Zenon
      <4>2. Cardinality(DataLines(longer, n + 1)) = Cardinality({})
        BY <3>1, Zenon
      <4>3. QED
        BY <4>1, <4>2
    <3>4. QED
      BY <1>6, <3>1, <3>2, <3>3 DEF Gathered
  <2>4. OfLine(longer, n + 1, after)
    <3>1. Len(<<>>) = 0 /\ (n + 1) - (n + 1) = 0 /\ 1..0 = {}
      BY <1>1, EmptySeq
    <3>2. QED
      BY <1>1, <1>6, <3>1 DEF OfLine
  <2>5. /\ (n + 1) - 1 = n /\ n + 1 \in 0..Len(longer) /\ n + 1 \in (n + 1)..Len(longer)
        /\ (n + 1)..(Len(longer) - 1) = {} /\ ((n + 1) + 1)..Len(longer) = {}
    BY <1>1
  <2>6. Reading(longer, n + 1, n + 1, after)
    BY <1>3, <2>1, <2>2, <2>3, <2>4, <2>5 DEF Reading
  <2>7. QED
    BY <1>6, <1>13, <2>5, <2>6 DEF Follows
<1>14. QED
  BY <1>12, <1>13

\* A newline after something ends the line.
LEMMA LineEnds ==
    ASSUME NEW text \in Seq(Pieces), NEW longer \in Seq(Pieces), Longer(text, longer), NEW o \in ObserverType,
           NEW s \in 0..Len(text), NEW b \in s..Len(text), Reading(text, s, b, o), ~o.terminal,
           longer[Len(text) + 1].is = "newline", o.line # <<>>
    PROVE  Follows(longer, Usage!ProcessLine(o))
<1> DEFINE n == Len(text)
           after == Usage!ProcessLine(o)
<1>1. n \in Nat /\ s \in Nat /\ s <= n /\ Len(longer) = n + 1 /\ b \in Nat /\ b < n
  <2>1. b # n
    BY Zenon DEF Reading, OfLine
  <2>2. n \in Nat /\ Len(longer) = n + 1
    BY DEF Longer
  <2>3. s \in Nat /\ s <= n
    BY <2>2
  <2>4. QED
    BY <2>1, <2>2, <2>3
<1>2. /\ s = 0 \/ Blank(text, s - 1)
      /\ \A j \in s..(n - 1) : ~Blank(text, j)
      /\ \A j \in (b + 1)..n : ~Break(text, j)
      /\ Gathered(text, s, o) /\ Tells(text, Closed(text, s), o)
      /\ \A t \in Closed(text, s) : ~Terminal(text, t)
  BY DEF Reading
<1>3. SameEvent(text, longer, s)
  BY EventStill
<1>4. /\ after \in ObserverType /\ after.line = <<>>
      /\ after.candidate = o.candidate /\ after.invalid = o.invalid /\ ~after.terminal
  BY ProcessLineIs
<1>5. Gathered(text, s, after)
  BY <1>1, <1>2, LineGathered
<1>6. Gathered(longer, s, after)
  BY <1>3, <1>5 DEF Gathered, SameEvent
<1>7. Tells(longer, Closed(longer, s), after) /\ \A t \in Closed(longer, s) : ~Terminal(longer, t)
  <2>1. Tells(longer, Closed(longer, s), o) /\ \A t \in Closed(longer, s) : ~Terminal(longer, t)
    BY <1>2, TellsStill
  <2>2. QED
    BY <1>4, <2>1, TellsSame
<1> SUFFICES Follows(longer, after)
  OBVIOUS
<1> HIDE DEF after
<1>8. s = 0 \/ Blank(longer, s - 1)
  <2>1. s # 0 => s - 1 \in 0..(n - 1)
    BY <1>1
  <2>2. QED
    BY <1>2, <2>1, BlanksKeep
<1>9. \A j \in s..n : ~Blank(longer, j)
  <2>1. \A j \in s..(n - 1) : ~Blank(longer, j)
    <3>1. \A j \in s..(n - 1) : j \in 0..(n - 1)
      BY <1>1
    <3>2. QED
      BY <1>2, <3>1, BlanksKeep
  <2>2. ~Blank(longer, n)
    <3>1. n \in (b + 1)..n /\ n \in 0..n
      BY <1>1
    <3>2. QED
      BY <1>2, <3>1, BreaksKeep DEF Blank
  <2>3. \A j \in s..n : j \in s..(n - 1) \/ j = n
    BY <1>1
  <2>4. QED
    BY <2>1, <2>2, <2>3
<1>10. OfLine(longer, n + 1, after)
  <2>1. Len(<<>>) = 0 /\ (n + 1) - (n + 1) = 0 /\ 1..0 = {}
    BY <1>1, EmptySeq
  <2>2. QED
    BY <1>1, <1>4, <2>1 DEF OfLine
<1>11. /\ n + 1 \in s..Len(longer) /\ s \in 0..Len(longer) /\ Len(longer) - 1 = n
       /\ ((n + 1) + 1)..Len(longer) = {}
  BY <1>1
<1>12. Break(longer, n + 1)
  BY BreaksKeep
<1>13. Reading(longer, s, n + 1, after)
  BY <1>6, <1>7, <1>8, <1>9, <1>10, <1>11, <1>12 DEF Reading
<1>14. QED
  BY <1>4, <1>11, <1>13 DEF Follows

\* Any other piece belongs to the open line, and to its event.
LEMMA LineGoesOn ==
    ASSUME NEW text, NEW longer, Longer(text, longer), NEW o,
           NEW s \in 0..Len(text), NEW b \in s..Len(text), Reading(text, s, b, o),
           longer[Len(text) + 1].is # "newline"
    PROVE  /\ s = 0 \/ Blank(longer, s - 1)
           /\ \A j \in s..(Len(longer) - 1) : ~Blank(longer, j)
           /\ Break(longer, b) /\ \A j \in (b + 1)..Len(longer) : ~Break(longer, j)
           /\ Tells(longer, Closed(longer, s), o) /\ \A t \in Closed(longer, s) : ~Terminal(longer, t)
           /\ Len(text) + 1 \in EventOf(longer, s)
           /\ \A i \in Int : OnLine(longer, i, Len(text) + 1) <=> i = b
<1> DEFINE n == Len(text)
<1>1. n \in Nat /\ s \in Nat /\ s <= n /\ Len(longer) = n + 1
  BY DEF Longer
<1>2. b \in Nat /\ b <= n
  BY <1>1
<1>3. /\ s = 0 \/ Blank(text, s - 1)
      /\ \A j \in s..(n - 1) : ~Blank(text, j)
      /\ Break(text, b) /\ \A j \in (b + 1)..n : ~Break(text, j)
      /\ Tells(text, Closed(text, s), o)
      /\ \A t \in Closed(text, s) : ~Terminal(text, t)
  BY DEF Reading
<1>4. s = 0 \/ Blank(longer, s - 1)
  <2>1. s # 0 => s - 1 \in 0..(n - 1)
    BY <1>1
  <2>2. QED
    BY <1>3, <2>1, BlanksKeep
<1>5. ~Break(longer, n + 1)
  BY BreaksKeep
<1>6. \A j \in s..n : ~Blank(longer, j)
  <2>1. \A j \in s..(n - 1) : ~Blank(longer, j)
    <3>1. \A j \in s..(n - 1) : j \in 0..(n - 1)
      BY <1>1
    <3>2. QED
      BY <1>3, <3>1, BlanksKeep
  <2>2. ~Blank(longer, n)
    BY <1>5 DEF Blank
  <2>3. \A j \in s..n : j \in s..(n - 1) \/ j = n
    BY <1>1
  <2>4. QED
    BY <2>1, <2>2, <2>3
<1>7. Break(longer, b) /\ \A j \in (b + 1)..(n + 1) : ~Break(longer, j)
  <2>1. b \in 0..n
    BY <1>2
  <2>2. Break(longer, b)
    BY <1>3, <2>1, BreaksKeep
  <2>3. \A j \in (b + 1)..(n + 1) : j = n + 1 \/ (j \in (b + 1)..n /\ j \in 0..n)
    BY <1>1, <1>2
  <2>4. QED
    BY <1>3, <1>5, <2>2, <2>3, BreaksKeep
<1>8. n + 1 \in EventOf(longer, s)
  BY <1>6, EventMore
<1>9. \A i \in Int : OnLine(longer, i, n + 1) <=> i = b
  <2>1. b < n + 1 /\ n + 1 \in Int /\ b \in Int
    BY <1>1, <1>2
  <2>2. OnLine(longer, b, n + 1)
    BY <1>7, <2>1 DEF OnLine
  <2>3. \A i \in Int : OnLine(longer, i, n + 1) => i = b
    BY <1>7, <2>1, LineOf
  <2>4. QED
    BY <2>2, <2>3
<1>10. Len(longer) - 1 = n
  BY <1>1
<1>11. QED
  BY <1>1, <1>3, <1>4, <1>6, <1>7, <1>8, <1>9, <1>10, TellsStill

LEMMA OverlongMore ==
    ASSUME NEW text, NEW longer, Longer(text, longer), NEW s \in 0..Len(text), NEW b \in s..Len(text),
           Len(text) + 1 \in EventOf(longer, s), \A i \in Int : OnLine(longer, i, Len(text) + 1) <=> i = b
    PROVE  Overlong(longer, s) <=> Overlong(text, s) \/ Len(text) + 1 - b > MaximumEvent
<1> DEFINE n == Len(text)
<1>1. n \in Nat /\ s \in Nat /\ s <= n
  BY DEF Longer
<1>2. b \in Nat /\ b <= n /\ b \in s..(n + 1)
  BY <1>1
<1>3. ASSUME Overlong(longer, s) PROVE Overlong(text, s) \/ n + 1 - b > MaximumEvent
  <2>1. PICK k \in EventOf(longer, s) : \E i \in s..k : OnLine(longer, i, k) /\ k - i > MaximumEvent
    BY <1>3 DEF Overlong
  <2>2. PICK i \in s..k : OnLine(longer, i, k) /\ k - i > MaximumEvent
    BY <2>1
  <2>3. CASE k = n + 1
    BY <2>2, <2>3
  <2>4. CASE k # n + 1
    <3>1. k \in EventOf(text, s)
      BY <2>4, EventMore
    <3>2. k \in (s + 1)..n
      BY <1>1, <3>1, EventBounds
    <3>3. k \in 0..n /\ i \in Int /\ i >= 0
      BY <1>1, <3>2
    <3>4. OnLine(text, i, k)
      BY <2>2, <3>3, LinesKeep
    <3>5. QED
      BY <2>2, <3>1, <3>4 DEF Overlong
  <2>5. QED
    BY <2>3, <2>4
<1>4. ASSUME n + 1 - b > MaximumEvent PROVE Overlong(longer, s)
  <2>1. OnLine(longer, b, n + 1) /\ n + 1 - b > MaximumEvent
    BY <1>2, <1>4
  <2> HIDE DEF n
  <2>2. QED
    BY <1>2, <2>1 DEF Overlong, n
<1>5. QED
  BY <1>3, <1>4, OverlongStays

\* What a sequence and one element more are.
Joins(a, c, e) == Append(a \o c, e) = a \o Append(c, e)
Extends(S, line, e, longer) ==
    /\ longer \in Seq(S) /\ longer # <<>> /\ Len(longer) = Len(line) + 1
    /\ \A i \in 1..Len(line) : longer[i] = line[i]
    /\ longer[Len(line) + 1] = e
    /\ Tail(longer) = IF line = <<>> THEN <<>> ELSE Append(Tail(line), e)

LEMMA AppendJoins ==
    ASSUME NEW S, NEW a \in Seq(S), NEW c \in Seq(S), NEW e \in S
    PROVE  Joins(a, c, e)
<1>1. a \o c \in Seq(S) /\ Len(a \o c) = Len(a) + Len(c)
      /\ \A i \in 1..(Len(a) + Len(c)) : (a \o c)[i] = IF i <= Len(a) THEN a[i] ELSE c[i - Len(a)]
  BY ConcatProperties
<1>2. /\ Append(c, e) \in Seq(S) /\ Len(Append(c, e)) = Len(c) + 1
      /\ \A i \in 1..Len(c) : Append(c, e)[i] = c[i]
      /\ Append(c, e)[Len(c) + 1] = e
  BY AppendProperties
<1> DEFINE longer == Append(c, e)
<1> HIDE DEF longer
<1>3. /\ a \o longer \in Seq(S) /\ Len(a \o longer) = Len(a) + Len(longer)
      /\ \A i \in 1..(Len(a) + Len(longer)) : (a \o longer)[i] = IF i <= Len(a) THEN a[i] ELSE longer[i - Len(a)]
  BY <1>2, ConcatProperties DEF longer
<1> DEFINE joined == a \o c
<1> HIDE DEF joined
<1>4. /\ Append(joined, e) \in Seq(S) /\ Len(Append(joined, e)) = Len(joined) + 1
      /\ \A i \in 1..Len(joined) : Append(joined, e)[i] = joined[i]
      /\ Append(joined, e)[Len(joined) + 1] = e
  BY <1>1, AppendProperties DEF joined
<1>5. Len(a) \in Nat /\ Len(c) \in Nat
  BY LenProperties
<1>6. Len(Append(joined, e)) = Len(a \o longer)
  BY <1>1, <1>2, <1>3, <1>4, <1>5 DEF joined, longer
<1>7. ASSUME NEW i \in 1..Len(Append(joined, e))
      PROVE  Append(joined, e)[i] = (a \o longer)[i]
  <2>1. CASE i <= Len(a)
    BY <1>1, <1>2, <1>3, <1>4, <1>5, <1>7, <2>1 DEF joined, longer
  <2>2. CASE Len(a) < i /\ i <= Len(a) + Len(c)
    BY <1>1, <1>2, <1>3, <1>4, <1>5, <1>7, <2>2 DEF joined, longer
  <2>3. CASE i = Len(a) + Len(c) + 1
    BY <1>1, <1>2, <1>3, <1>4, <1>5, <1>7, <2>3 DEF joined, longer
  <2>4. i \in 1..(Len(a) + Len(c) + 1)
    BY <1>1, <1>4, <1>5 DEF joined
  <2>5. i <= Len(a) \/ (Len(a) < i /\ i <= Len(a) + Len(c)) \/ i = Len(a) + Len(c) + 1
    BY <1>5, <2>4
  <2>6. QED
    BY <2>1, <2>2, <2>3, <2>5
<1>8. Append(joined, e) = a \o longer
  BY <1>3, <1>4, <1>6, <1>7, SeqEqual
<1>9. QED
  BY <1>8 DEF joined, longer, Joins

LEMMA LineMore ==
    ASSUME NEW S, NEW line \in Seq(S), NEW e \in S
    PROVE  Extends(S, line, e, Append(line, e))
BY AppendProperties, HeadTailAppend DEF Extends

\* The data of an event that began at s, by the lines that ended and the open one.
DataSaid(text, s, o) ==
    /\ DataOf(text, s) = o.data \o Open(o)
    /\ Cardinality(DataLines(text, s)) = o.lines + (IF IsData(o.line) THEN 1 ELSE 0)

\* It grows with the open line if that is a data field.
LEMMA DataHeld ==
    ASSUME NEW text \in Seq(Pieces), NEW longer \in Seq(Pieces), Longer(text, longer), NEW o \in ObserverType,
           NEW s \in 0..Len(text), NEW b \in s..Len(text), Reading(text, s, b, o), ~o.limited,
           longer[Len(text) + 1].is # "newline",
           NEW after, after.line = Append(o.line, longer[Len(text) + 1]), after.data = o.data, after.lines = o.lines
    PROVE  DataSaid(longer, s, after)
<1> DEFINE n == Len(text)
<1>0. PICK piece : piece = longer[n + 1]
  OBVIOUS
<1>1. n \in Nat /\ s \in Nat /\ s <= n /\ Len(longer) = n + 1
  BY DEF Longer
<1>2. b \in Nat /\ b <= n /\ s <= b
  BY <1>1
<1>3. piece \in Pieces
  <2>1. n + 1 \in 1..Len(longer)
    BY <1>1
  <2>2. QED
    BY <1>0, <2>1, ElementOfSeq
<1>4. o.line \in Seq(Pieces) /\ o.data \in Seq(Pieces) /\ o.lines \in Nat
  BY DEF ObserverType
<1>5. n + 1 \in EventOf(longer, s) /\ \A i \in Int : OnLine(longer, i, n + 1) <=> i = b
  BY LineGoesOn
<1>6. \A i \in DataLines(text, s) : OnLine(longer, i - 1, n + 1) <=> i = b + 1
  <2>1. \A i \in DataLines(text, s) : i \in Int
    BY <1>1, EventBounds
  <2>2. \A i \in Int : i - 1 \in Int /\ (i - 1 = b <=> i = b + 1)
    BY <1>2
  <2>3. QED
    BY <1>5, <2>1, <2>2
<1>7. DataOf(longer, s) = IF b + 1 \in DataLines(text, s)
                          THEN Append(DataOf(text, s), piece) ELSE DataOf(text, s)
  BY <1>0, <1>5, <1>6, DataGrows
<1>8. DataLines(longer, s) = DataLines(text, s) \cup (IF Break(text, n) /\ piece.is = "data:" THEN {n + 1} ELSE {})
  BY <1>0, <1>5, DataLinesMore
<1>9. /\ DataOf(text, s) = o.data \o Open(o)
      /\ Cardinality(DataLines(text, s)) = o.lines + (IF IsData(o.line) THEN 1 ELSE 0)
  BY DEF Reading, Gathered
<1>10. /\ Len(o.line) = n - b /\ \A i \in 1..Len(o.line) : o.line[i] = text[b + i]
       /\ o.line = <<>> <=> b = n
       /\ Break(text, b) /\ \A j \in (b + 1)..n : ~Break(text, j)
       /\ \A j \in s..(n - 1) : ~Blank(text, j)
  BY DEF Reading, OfLine
<1>11. /\ after.line \in Seq(Pieces) /\ after.line # <<>> /\ Len(after.line) = Len(o.line) + 1
       /\ \A i \in 1..Len(o.line) : after.line[i] = o.line[i]
       /\ after.line[Len(o.line) + 1] = piece
       /\ Tail(after.line) = IF o.line = <<>> THEN <<>> ELSE Append(Tail(o.line), piece)
  <2>1. after.line = Append(o.line, piece)
    BY <1>0
  <2>2. Extends(Pieces, o.line, piece, Append(o.line, piece))
    BY <1>3, <1>4, LineMore, Zenon
  <2>3. QED
    BY <2>1, <2>2 DEF Extends
<1>12. IsFiniteSet(DataLines(text, s)) /\ DataLines(text, s) \subseteq 1..n
  <2>1. DataLines(text, s) \subseteq 1..n
    BY <1>1, EventBounds
  <2>2. QED
    BY <1>1, <2>1, DataTyped
<1> SUFFICES /\ DataOf(longer, s) = after.data \o Open(after)
             /\ Cardinality(DataLines(longer, s)) = after.lines + (IF IsData(after.line) THEN 1 ELSE 0)
  BY DEF DataSaid
<1>13. CASE b = n
  <2>1. o.line = <<>> /\ Len(o.line) = 0 /\ ~IsData(o.line)
    BY <1>10, <1>13, EmptySeq DEF IsData
  <2>2. b + 1 \notin DataLines(text, s) /\ n + 1 \notin DataLines(text, s)
    BY <1>1, <1>12, <1>13
  <2>3. /\ IsData(after.line) <=> piece.is = "data:"
        /\ Open(after) = <<>> /\ Open(o) = <<>>
    <3>1. after.line[1] = piece
      BY <1>11, <2>1
    <3>2. QED
      BY <1>11, <2>1, <3>1 DEF IsData, Open
  <2>4. DataOf(longer, s) = after.data \o Open(after)
    BY <1>7, <1>9, <2>2, <2>3
  <2>5. Cardinality(DataLines(text, s)) = o.lines
    BY <1>4, <1>9, <2>1
  <2>6. CASE piece.is = "data:"
    <3>1. DataLines(longer, s) = DataLines(text, s) \cup {n + 1}
      BY <1>8, <1>10, <1>13, <2>6
    <3>2. Cardinality(DataLines(longer, s)) = Cardinality(DataLines(text, s)) + 1
      BY <1>12, <2>2, <3>1, FS_AddElement
    <3>3. QED
      BY <2>3, <2>4, <2>5, <2>6, <3>2
  <2>7. CASE piece.is # "data:"
    <3>1. DataLines(longer, s) = DataLines(text, s)
      BY <1>8, <2>7
    <3>2. o.lines + 0 = o.lines
      BY <1>4
    <3>3. QED
      BY <2>3, <2>4, <2>5, <2>7, <3>1, <3>2
  <2>8. QED
    BY <2>6, <2>7
<1>14. CASE b < n
  <2>1. o.line # <<>> /\ 1 \in 1..Len(o.line) /\ o.line[1] = text[b + 1] /\ after.line[1] = o.line[1]
    <3>1. o.line # <<>> /\ 1 \in 1..Len(o.line)
      BY <1>1, <1>2, <1>10, <1>14
    <3>2. QED
      BY <1>10, <1>11, <3>1
  <2>2. IsData(after.line) <=> IsData(o.line)
    BY <1>11, <2>1 DEF IsData
  <2>3. DataLines(longer, s) = DataLines(text, s)
    <3>1. n \in (b + 1)..n
      BY <1>1, <1>2, <1>14
    <3>2. ~Break(text, n)
      BY <1>10, <3>1
    <3>3. QED
      BY <1>8, <3>2
  <2>4. IsData(o.line) <=> b + 1 \in DataLines(text, s)
    <3>1. b + 1 \in EventOf(text, s)
      <4>1. b + 1 \in (s + 1)..n /\ \A j \in s..((b + 1) - 1) : j \in s..(n - 1)
        BY <1>1, <1>2, <1>14
      <4>2. QED
        BY <1>10, <4>1 DEF EventOf
    <3>2. (b + 1) - 1 = b
      BY <1>2
    <3>3. QED
      BY <1>10, <2>1, <3>1, <3>2 DEF IsData, DataLines
  <2>5. DataOf(longer, s) = after.data \o Open(after)
    <3>1. CASE IsData(o.line)
      <4>1. Open(o) = Tail(o.line) /\ Open(after) = Append(Tail(o.line), piece)
        BY <1>11, <2>1, <2>2, <3>1 DEF Open
      <4>2. Tail(o.line) \in Seq(Pieces)
        BY <1>4, <2>1, HeadTailProperties
      <4>3. DataOf(longer, s) = Append(o.data \o Tail(o.line), piece)
        BY <1>7, <1>9, <2>4, <3>1, <4>1
      <4>4. Append(o.data \o Tail(o.line), piece) = o.data \o Append(Tail(o.line), piece)
        <5>1. Joins(o.data, Tail(o.line), piece)
          BY <1>3, <1>4, <4>2, AppendJoins, Zenon
        <5>2. QED
          BY <5>1 DEF Joins
      <4>5. QED
        BY <4>1, <4>3, <4>4
    <3>2. CASE ~IsData(o.line)
      <4>1. Open(o) = <<>> /\ Open(after) = <<>>
        BY <2>2, <3>2 DEF Open
      <4>2. QED
        BY <1>7, <1>9, <2>4, <3>2, <4>1
    <3>3. QED
      BY <3>1, <3>2
  <2>6. QED
    BY <1>9, <2>2, <2>3, <2>5
<1>15. QED
  BY <1>1, <1>2, <1>13, <1>14

LEMMA PieceHeld ==
    ASSUME NEW text \in Seq(Pieces), NEW longer \in Seq(Pieces), Longer(text, longer), NEW o \in ObserverType,
           NEW s \in 0..Len(text), NEW b \in s..Len(text), Reading(text, s, b, o), ~o.terminal,
           longer[Len(text) + 1].is # "newline"
    PROVE  Follows(longer, Usage!Observe(o, longer[Len(text) + 1]))
<1> DEFINE n == Len(text)
<1>0. PICK piece : piece = longer[n + 1]
  OBVIOUS
<1>1. n \in Nat /\ Len(longer) = n + 1
  BY DEF Longer
<1>2. s \in Nat /\ s <= n /\ b \in Nat /\ b <= n /\ s <= b
  BY <1>1
<1>3. MaximumEvent \in Nat \ {0}
  BY InputAssumption
<1>4. piece \in Pieces
  <2>1. n + 1 \in 1..Len(longer)
    BY <1>1
  <2>2. QED
    BY <1>0, <2>1, ElementOfSeq
<1>5. o.line \in Seq(Pieces) /\ Len(o.line) \in Nat
  BY LenProperties DEF ObserverType
<1>6. PICK after : after = Usage!Observe(o, piece)
  OBVIOUS
<1>7. /\ s = 0 \/ Blank(longer, s - 1)
      /\ \A j \in s..(Len(longer) - 1) : ~Blank(longer, j)
      /\ Break(longer, b) /\ \A j \in (b + 1)..Len(longer) : ~Break(longer, j)
      /\ Tells(longer, Closed(longer, s), o) /\ \A t \in Closed(longer, s) : ~Terminal(longer, t)
      /\ n + 1 \in EventOf(longer, s)
      /\ \A i \in Int : OnLine(longer, i, n + 1) <=> i = b
  BY LineGoesOn
<1>8. Overlong(longer, s) <=> Overlong(text, s) \/ n + 1 - b > MaximumEvent
  BY <1>7, OverlongMore
<1>9. o.limited => TooLong(longer, s)
  <2>1. o.limited => TooLong(text, s)
    BY DEF Reading, Gathered
  <2>2. QED
    BY <2>1, TooLongStays
<1>10. ~o.limited => /\ Len(o.line) = n - b /\ \A i \in 1..Len(o.line) : o.line[i] = text[b + i]
                     /\ ~Overlong(text, s)
                     /\ o.lines = 0 => o.data = <<>>
                     /\ o.lines > 0 => Len(o.data) + o.lines - 1 <= MaximumEvent
  BY DEF Reading, Gathered, OfLine
<1>11. b # n + 1
  BY <1>1, <1>2
<1>12. CASE ~(Len(o.line) < MaximumEvent)
  <2>1. after = [o EXCEPT !.limited = TRUE]
    BY <1>0, <1>6, <1>12 DEF Usage!Observe
  <2>2. /\ after \in ObserverType /\ after.limited /\ after.line = o.line
        /\ after.candidate = o.candidate /\ after.invalid = o.invalid /\ ~after.terminal
    BY <2>1 DEF ObserverType
  <2>3. TooLong(longer, s)
    <3>1. CASE ~o.limited
      <4>1. n + 1 - b > MaximumEvent
        BY <1>1, <1>2, <1>3, <1>5, <1>10, <1>12, <3>1
      <4>2. QED
        BY <1>8, <4>1 DEF TooLong
    <3>2. QED
      BY <1>9, <3>1
  <2>4. after.line # <<>>
    <3>1. Len(<<>>) = 0
      BY EmptySeq
    <3>2. o.line # <<>>
      BY <1>3, <1>12, <3>1
    <3>3. QED
      BY <2>2, <3>2
  <2>5. OfLine(longer, b, after)
    BY <1>1, <1>11, <2>2, <2>4 DEF OfLine
  <2>6. Gathered(longer, s, after)
    BY <2>2, <2>3 DEF Gathered
  <2>7. Tells(longer, Closed(longer, s), after)
    BY <1>7, <2>2, TellsSame
  <2>8. Reading(longer, s, b, after)
    BY <1>7, <2>5, <2>6, <2>7 DEF Reading
  <2>9. s \in 0..Len(longer) /\ b \in s..Len(longer)
    BY <1>1, <1>2
  <2>10. Follows(longer, after)
    BY <2>2, <2>8, <2>9 DEF Follows
  <2>11. QED
    BY <1>0, <1>6, <2>10
<1>13. CASE Len(o.line) < MaximumEvent
  <2>1. after = [o EXCEPT !.line = Append(@, piece)]
    BY <1>0, <1>6, <1>13 DEF Usage!Observe
  <2>2. Extends(Pieces, o.line, piece, Append(o.line, piece))
    BY <1>4, <1>5, LineMore, Zenon
  <2>3. PICK line : line = Append(o.line, piece)
    OBVIOUS
  <2>4. /\ line \in Seq(Pieces) /\ line # <<>> /\ Len(line) = Len(o.line) + 1
        /\ \A i \in 1..Len(o.line) : line[i] = o.line[i]
        /\ line[Len(o.line) + 1] = piece
    BY <2>2, <2>3 DEF Extends
  <2>5. after = [o EXCEPT !.line = line]
    BY <2>1, <2>3
  <2>6. /\ after \in ObserverType /\ after.line = line /\ after.limited = o.limited
        /\ after.data = o.data /\ after.lines = o.lines
        /\ after.candidate = o.candidate /\ after.invalid = o.invalid /\ ~after.terminal
    BY <2>4, <2>5 DEF ObserverType
  <2>7. OfLine(longer, b, after)
    <3>1. after.line # <<>> /\ b # Len(longer)
      BY <1>1, <1>11, <2>4, <2>6
    <3>2. ASSUME ~o.limited
          PROVE  Len(after.line) = Len(longer) - b /\ \A i \in 1..Len(after.line) : after.line[i] = longer[b + i]
      <4>1. Len(o.line) = n - b /\ \A i \in 1..Len(o.line) : o.line[i] = text[b + i]
        BY <1>10, <3>2
      <4>2. Len(line) = (n + 1) - b
        BY <1>1, <1>2, <2>4, <4>1
      <4>3. ASSUME NEW i \in 1..Len(line) PROVE line[i] = longer[b + i]
        <5>1. CASE i = Len(o.line) + 1
          <6>1. b + i = n + 1
            BY <1>1, <1>2, <4>1, <5>1
          <6>2. QED
            BY <1>0, <2>4, <5>1, <6>1
        <5>2. CASE i # Len(o.line) + 1
          <6>1. i \in 1..Len(o.line) /\ b + i \in 1..n
            <7>1. i \in 1..(Len(o.line) + 1)
              BY <2>4, <4>3
            <7>2. i \in 1..Len(o.line)
              BY <1>5, <5>2, <7>1
            <7>3. i \in Nat /\ 1 <= i /\ i <= n - b
              BY <1>5, <4>1, <7>2
            <7>4. QED
              BY <1>1, <1>2, <7>2, <7>3
          <6>2. longer[b + i] = text[b + i]
            BY <6>1 DEF Longer
          <6>3. QED
            BY <2>4, <4>1, <6>1, <6>2
        <5>3. QED
          BY <5>1, <5>2
      <4>4. QED
        BY <1>1, <2>6, <4>2, <4>3
    <3>3. QED
      BY <2>6, <3>1, <3>2 DEF OfLine
  <2>8. Gathered(longer, s, after)
    <3>1. CASE o.limited
      BY <1>9, <2>6, <3>1 DEF Gathered
    <3>2. CASE ~o.limited
      <4>1. DataSaid(longer, s, after)
        <5>1. after.line = Append(o.line, longer[n + 1])
          BY <1>0, <2>3, <2>6
        <5>2. QED
          BY <2>6, <3>2, <5>1, DataHeld, Zenon
      <4>2. ~Overlong(longer, s)
        <5>1. ~(n + 1 - b > MaximumEvent)
          BY <1>1, <1>2, <1>3, <1>10, <1>13, <3>2
        <5>2. QED
          BY <1>8, <1>10, <3>2, <5>1
      <4>3. (after.lines = 0 => after.data = <<>>) /\ (after.lines > 0 => Len(after.data) + after.lines - 1 <= MaximumEvent)
        BY <1>10, <2>6, <3>2
      <4>4. QED
        BY <2>6, <3>2, <4>1, <4>2, <4>3 DEF Gathered, DataSaid
    <3>3. QED
      BY <3>1, <3>2
  <2>9. Tells(longer, Closed(longer, s), after)
    BY <1>7, <2>6, TellsSame
  <2>10. Reading(longer, s, b, after)
    BY <1>7, <2>7, <2>8, <2>9 DEF Reading
  <2>11. s \in 0..Len(longer) /\ b \in s..Len(longer)
    BY <1>1, <1>2
  <2>12. Follows(longer, after)
    BY <2>6, <2>10, <2>11 DEF Follows
  <2>13. QED
    BY <1>0, <1>6, <2>12
<1>14. QED
  BY <1>12, <1>13

\* The observer follows a text by one piece more.
LEMMA PieceKeeps ==
    ASSUME NEW text, NEW longer \in Seq(Pieces), Longer(text, longer), NEW o, Follows(text, o)
    PROVE  Follows(longer, Usage!Observe(o, longer[Len(text) + 1]))
<1> DEFINE n == Len(text)
<1>0. PICK piece : piece = longer[n + 1]
  OBVIOUS
<1>1. text \in Seq(Pieces) /\ o \in ObserverType /\ n \in Nat /\ Len(longer) = n + 1
  BY DEF Follows, Longer
<1>2. CASE o.terminal
  <2>1. Usage!Observe(o, piece) = o
    BY <1>2 DEF Usage!Observe
  <2>2. PICK t \in EventStarts(text) : Ended(text, t, o)
    BY <1>2 DEF Follows
  <2>3. t \in Nat /\ t \in 0..n /\ (t = 0 \/ Blank(text, t - 1)) /\ Break(text, t) /\ ~Break(text, t + 1) /\ t \in 0..(n - 1)
    BY <1>1 DEF EventStarts
  <2>4. PICK j \in t..(n - 1) : Blank(text, j)
    BY <2>2 DEF Ended
  <2>5. Blank(longer, j) /\ j \in t..n
    <3>1. j \in 0..(n - 1) /\ j \in t..n
      BY <1>1, <2>3
    <3>2. QED
      BY <2>4, <3>1, BlanksKeep
  <2>6. SameEvent(text, longer, t)
    <3>1. (n + 1) - 1 = n
      BY <1>1
    <3>2. n + 1 \notin EventOf(longer, t)
      BY <2>5, <3>1 DEF EventOf
    <3>3. QED
      BY <2>3, <3>2, EventStill
  <2>7. t \in EventStarts(longer)
    <3>1. t + 1 \in 0..n /\ t \in 0..(Len(longer) - 1) /\ (t # 0 => t - 1 \in 0..(n - 1))
      BY <1>1, <2>3
    <3>2. Break(longer, t) /\ ~Break(longer, t + 1)
      BY <2>3, <3>1, BreaksKeep
    <3>3. t = 0 \/ Blank(longer, t - 1)
      BY <2>3, <3>1, BlanksKeep
    <3>4. QED
      BY <3>1, <3>2, <3>3 DEF EventStarts
  <2>8. Ended(longer, t, o)
    <3>1. Len(longer) - 1 = n
      BY <1>1
    <3>2. /\ Tells(longer, Closed(longer, t), o) <=> Tells(text, Closed(text, t), o)
          /\ (\A u \in Closed(longer, t) : ~Terminal(longer, u)) <=> \A u \in Closed(text, t) : ~Terminal(text, u)
      BY <2>3, TellsStill
    <3>3. QED
      BY <2>2, <2>5, <2>6, <3>1, <3>2 DEF Ended, SameEvent
  <2>9. Follows(longer, o)
    BY <1>1, <1>2, <2>7, <2>8 DEF Follows
  <2>10. QED
    BY <1>0, <2>1, <2>9
<1>3. CASE ~o.terminal
  <2>1. PICK s \in 0..n : \E b \in s..n : Reading(text, s, b, o)
    BY <1>3 DEF Follows
  <2>2. PICK b \in s..n : Reading(text, s, b, o)
    BY <2>1
  <2>3. CASE piece.is # "newline"
    BY <1>0, <1>1, <1>3, <2>2, <2>3, PieceHeld
  <2>4. CASE piece.is = "newline" /\ o.line # <<>>
    <3>1. Usage!Observe(o, piece) = Usage!ProcessLine(o)
      BY <1>3, <2>4 DEF Usage!Observe
    <3>2. Follows(longer, Usage!ProcessLine(o))
      BY <1>0, <1>1, <1>3, <2>2, <2>4, LineEnds
    <3>3. QED
      BY <1>0, <3>1, <3>2
  <2>5. CASE piece.is = "newline" /\ o.line = <<>>
    <3>1. [o EXCEPT !.line = <<>>] = o
      BY <1>1, <2>5 DEF ObserverType
    <3>2. Usage!Observe(o, piece) = Usage!FinishEvent(o)
      BY <1>3, <2>5, <3>1 DEF Usage!Observe, Usage!ProcessLine
    <3>3. Follows(longer, Usage!FinishEvent(o))
      BY <1>0, <1>1, <2>2, <2>5, EventEnds
    <3>4. QED
      BY <1>0, <3>2, <3>3
  <2>6. QED
    BY <2>3, <2>4, <2>5
<1>4. QED
  BY <1>2, <1>3

-----------------------------------------------------------------------------
(* A chunk, and the end of the text.                                       *)

\* The loop over the pieces of a chunk.
Observing(o, chunk, observed) ==
    /\ ObserveChunk(o, chunk) = observed[Len(chunk)]
    /\ observed[0] = o
    /\ \A k \in 1..Len(chunk) : observed[k] = Usage!Observe(observed[k - 1], chunk[k])

LEMMA ObserveDefined ==
    ASSUME NEW o, NEW chunk, Len(chunk) \in Nat
    PROVE  \E observed : Observing(o, chunk, observed)
<1> DEFINE Is(observed, m) ==
             observed = [k \in 0..m |-> IF k = 0 THEN o ELSE Usage!Observe(observed[k - 1], chunk[k])]
           n == Len(chunk)
           Missing == {m \in 0..n : ~ \E observed : Is(observed, m)}
<1>1. Missing = {}
  <2>1. SUFFICES ASSUME Missing # {} PROVE FALSE
    OBVIOUS
  <2>2. PICK m \in Missing : \A k \in Missing : m <= k
    <3>1. Missing \in SUBSET Nat
      OBVIOUS
    <3> HIDE DEF Missing
    <3>2. QED
      BY <2>1, <3>1, NatMinimum
  <2>3. m # 0
    <3>1. Is([k \in 0..0 |-> o], 0)
      OBVIOUS
    <3>2. QED
      BY <3>1
  <2>4. m - 1 \in 0..n /\ m - 1 \notin Missing
    <3>1. m \in 0..n
      BY <2>2
    <3> HIDE DEF Missing
    <3>2. QED
      BY <2>2, <2>3, <3>1
  <2>5. PICK before : Is(before, m - 1)
    BY <2>4
  <2> DEFINE next == Usage!Observe(before[m - 1], chunk[m])
             now == [k \in 0..m |-> IF k < m THEN before[k] ELSE next]
  <2>6. ASSUME NEW k \in 0..m
        PROVE  now[k] = IF k = 0 THEN o ELSE Usage!Observe(now[k - 1], chunk[k])
    <3>1. m - 1 \in Nat /\ m \in Nat /\ k \in Nat
      BY <2>4
    <3>2. CASE k < m
      <4>1. k \in 0..(m - 1) /\ now[k] = before[k]
        BY <3>1, <3>2
      <4>2. before[k] = IF k = 0 THEN o ELSE Usage!Observe(before[k - 1], chunk[k])
        BY <2>5, <4>1
      <4>3. k # 0 => now[k - 1] = before[k - 1]
        BY <3>1, <3>2
      <4>4. QED
        BY <4>1, <4>2, <4>3
    <3>3. CASE k = m
      <4>1. now[k] = next
        BY <3>1, <3>3
      <4>2. now[k - 1] = before[k - 1]
        BY <3>1, <3>3
      <4>3. QED
        BY <2>3, <3>3, <4>1, <4>2
    <3>4. QED
      BY <3>1, <3>2, <3>3
  <2>7. now = [k \in 0..m |-> now[k]]
    OBVIOUS
  <2>8. Is(now, m)
    <3> HIDE DEF now
    <3>1. QED
      BY <2>6, <2>7
  <2>9. QED
    BY <2>2, <2>8
<1>2. PICK observed : Is(observed, n)
  BY <1>1
<1> DEFINE chosen == CHOOSE p : Is(p, n)
<1>3. ObserveChunk(o, chunk) = chosen[n]
  BY DEF ObserveChunk
<1>4. Is(chosen, n)
  <2> HIDE DEF Is, Missing
  <2>1. QED
    BY <1>2, Zenon
<1> HIDE DEF chosen
<1>5. ASSUME NEW k \in 0..n PROVE chosen[k] = IF k = 0 THEN o ELSE Usage!Observe(chosen[k - 1], chunk[k])
  BY <1>4, Zenon
<1>6. 0 \in 0..n /\ \A k \in 1..n : k \in 0..n /\ k # 0
  OBVIOUS
<1>7. chosen[0] = o /\ \A k \in 1..n : chosen[k] = Usage!Observe(chosen[k - 1], chunk[k])
  BY <1>5, <1>6, Zenon
<1>8. Observing(o, chunk, chosen)
  BY <1>3, <1>7 DEF Observing
<1>9. QED
  BY <1>8

\* The observer follows a text by one chunk more.
LEMMA ChunkKeeps ==
    ASSUME NEW text, NEW o, Follows(text, o), NEW chunk \in Seq(Pieces)
    PROVE  Follows(text \o chunk, ObserveChunk(o, chunk))
<1> DEFINE n == Len(text)
           m == Len(chunk)
           Upto(k) == text \o SubSeq(chunk, 1, k)
<1>1. text \in Seq(Pieces) /\ n \in Nat /\ m \in Nat /\ \A i \in 1..m : chunk[i] \in Pieces
  BY LenProperties, ElementOfSeq DEF Follows
<1>2. ASSUME NEW k \in 0..m
      PROVE  /\ Upto(k) \in Seq(Pieces) /\ Len(Upto(k)) = n + k /\ DOMAIN Upto(k) = 1..(n + k)
             /\ \A i \in 1..(n + k) : Upto(k)[i] = IF i <= n THEN text[i] ELSE chunk[i - n]
  <2>1. k \in Int /\ \A i \in 1..k : chunk[i] \in Pieces
    BY <1>1
  <2>2. PICK sub : sub = SubSeq(chunk, 1, k)
    OBVIOUS
  <2>3. /\ sub \in Seq(Pieces) /\ Len(sub) = k
        /\ \A i \in 1..k : sub[i] = chunk[i]
    <3>1. /\ SubSeq(chunk, 1, k) \in Seq(Pieces)
          /\ Len(SubSeq(chunk, 1, k)) = IF 1 <= k THEN k - 1 + 1 ELSE 0
          /\ \A i \in 1..(k - 1 + 1) : SubSeq(chunk, 1, k)[i] = chunk[1 + i - 1]
      BY <2>1, SubSeqProperties
    <3>2. k - 1 + 1 = k /\ (~(1 <= k) => k = 0) /\ \A i \in 1..k : 1 + i - 1 = i
      BY <1>1
    <3>3. QED
      BY <2>2, <3>1, <3>2
  <2>4. PICK all : all = text \o sub
    OBVIOUS
  <2>5. /\ all \in Seq(Pieces) /\ Len(all) = n + k
        /\ \A i \in 1..(n + k) : all[i] = IF i <= n THEN text[i] ELSE sub[i - n]
    BY <1>1, <2>3, <2>4, ConcatProperties
  <2>6. DOMAIN all = 1..(n + k)
    BY <2>5, LenProperties
  <2>7. \A i \in 1..(n + k) : ~(i <= n) => i - n \in 1..k
    BY <1>1
  <2>8. QED
    BY <2>2, <2>3, <2>4, <2>5, <2>6, <2>7
<1>3. Upto(0) = text /\ Upto(m) = text \o chunk
  <2>1. SubSeq(chunk, 1, 0) = <<>>
    BY SubSeqEmpty
  <2>2. SubSeq(chunk, 1, m) = chunk
    BY SubSeqFull
  <2>3. text \o <<>> = text
    BY <1>1, ConcatEmptySeq
  <2>4. QED
    BY <2>1, <2>2, <2>3
<1> HIDE DEF Upto
<1>4. PICK observed : Observing(o, chunk, observed)
  BY <1>1, ObserveDefined
<1>5. /\ ObserveChunk(o, chunk) = observed[m]
      /\ observed[0] = o
      /\ \A k \in 1..m : observed[k] = Usage!Observe(observed[k - 1], chunk[k])
  BY <1>4 DEF Observing
<1> DEFINE Missed == {k \in 0..m : ~Follows(Upto(k), observed[k])}
<1>6. ASSUME Missed # {} PROVE FALSE
  <2>1. PICK k \in Missed : \A j \in Missed : k <= j
    <3>1. Missed \in SUBSET Nat
      OBVIOUS
    <3> HIDE DEF Missed
    <3>2. QED
      BY <1>6, <3>1, NatMinimum
  <2>2. k \in 0..m /\ ~Follows(Upto(k), observed[k])
    BY <2>1
  <2>3. k # 0
    BY <1>3, <1>5, <2>2
  <2>4. k - 1 \in 0..m /\ k \in 1..m /\ k - 1 \notin Missed
    <3>1. k - 1 \in 0..m /\ k \in 1..m /\ ~(k <= k - 1)
      BY <1>1, <2>2, <2>3
    <3> HIDE DEF Missed
    <3>2. QED
      BY <2>1, <3>1
  <2>5. Follows(Upto(k - 1), observed[k - 1])
    BY <2>4
  <2>6. PICK text0, text1 : text0 = Upto(k - 1) /\ text1 = Upto(k)
    OBVIOUS
  <2>7. /\ text1 \in Seq(Pieces) /\ Len(text0) = n + (k - 1) /\ Len(text1) = n + k
        /\ DOMAIN text0 = 1..(n + (k - 1)) /\ DOMAIN text1 = 1..(n + k)
        /\ \A i \in 1..(n + (k - 1)) : text0[i] = IF i <= n THEN text[i] ELSE chunk[i - n]
        /\ \A i \in 1..(n + k) : text1[i] = IF i <= n THEN text[i] ELSE chunk[i - n]
    BY <1>2, <2>4, <2>6
  <2>8. n + (k - 1) \in Nat /\ n + (k - 1) + 1 = n + k /\ ~(n + k <= n) /\ (n + k) - n = k /\ n + k \in 1..(n + k)
    BY <1>1, <2>4
  <2>9. Longer(text0, text1)
    <3>1. \A i \in 1..(n + (k - 1)) : i \in 1..(n + k)
      BY <2>8
    <3>2. QED
      BY <2>7, <2>8, <3>1 DEF Longer
  <2>10. text1[Len(text0) + 1] = chunk[k]
    BY <2>7, <2>8
  <2>11. Follows(text1, Usage!Observe(observed[k - 1], chunk[k]))
    BY <2>5, <2>6, <2>7, <2>9, <2>10, PieceKeeps
  <2>12. QED
    BY <1>5, <2>2, <2>4, <2>6, <2>11
<1>7. m \in 0..m /\ m \notin Missed
  BY <1>1, <1>6
<1>8. QED
  BY <1>3, <1>5, <1>7

\* The events of a text: those that ended, and the one that is open.
LEMMA OpenStarts ==
    ASSUME NEW text, Len(text) \in Nat, NEW s \in 0..Len(text), s = 0 \/ Blank(text, s - 1),
           \A j \in s..(Len(text) - 1) : ~Blank(text, j)
    PROVE  /\ EventStarts(text) = Closed(text, s) \cup (IF s < Len(text) THEN {s} ELSE {})
           /\ \A t \in Closed(text, s) : t < s
<1> DEFINE n == Len(text)
<1>1. n \in Nat /\ s \in Nat /\ s <= n
  OBVIOUS
<1>2. ASSUME NEW t \in EventStarts(text), s < t PROVE FALSE
  <2>1. t \in Int /\ t # 0 /\ t - 1 \in s..(n - 1)
    BY <1>1, <1>2 DEF EventStarts
  <2>2. Blank(text, t - 1)
    BY <2>1 DEF EventStarts
  <2>3. QED
    BY <2>1, <2>2
<1>3. s < n => s \in EventStarts(text)
  <2>1. SUFFICES ASSUME s < n PROVE s \in EventStarts(text)
    OBVIOUS
  <2>2. Break(text, s)
    <3>1. CASE s = 0
      BY <3>1 DEF Break
    <3>2. CASE s # 0
      <4>1. (s - 1) + 1 = s
        BY <1>1
      <4>2. QED
        BY <3>2, <4>1 DEF Blank
    <3>3. QED
      BY <3>1, <3>2
  <2>3. s \in s..(n - 1) /\ s \in 0..(n - 1)
    BY <1>1, <2>1
  <2>4. ~Break(text, s + 1)
    BY <2>2, <2>3 DEF Blank
  <2>5. QED
    BY <2>2, <2>3, <2>4 DEF EventStarts
<1>4. \A t \in EventStarts(text) : t \in Int /\ t < n
  BY <1>1 DEF EventStarts
<1>5. ASSUME NEW t \in EventStarts(text) PROVE t < s \/ (t = s /\ s < n)
  BY <1>1, <1>2, <1>4
<1>6. QED
  BY <1>3, <1>5 DEF Closed

\* What the events of a set say of the usage of a response.
Verdicts(text, events) ==
    LET usages == {start \in events : Outcome(text, start) = "available"}
        broken == {start \in events : Outcome(text, start) = "malformed"}
    IN  IF broken # {} \/ (\E s, t \in usages : s # t) THEN "malformed"
        ELSE IF usages # {} THEN "available" ELSE "unavailable"

LEMMA ToldVerdict ==
    ASSUME NEW text, NEW events, NEW o, Tells(text, events, o)
    PROVE  (IF o.invalid THEN "malformed" ELSE IF o.candidate THEN "available" ELSE "unavailable")
           = Verdicts(text, events)
<1> DEFINE usages == {start \in events : Outcome(text, start) = "available"}
           broken == {start \in events : Outcome(text, start) = "malformed"}
<1>1. o.candidate <=> usages # {}
  BY DEF Tells
<1>2. o.invalid <=> broken # {} \/ (\E s, t \in usages : s # t)
  BY DEF Tells
<1> HIDE DEF usages, broken
<1>3. QED
  BY <1>1, <1>2 DEF Verdicts, usages, broken

\* An event that says nothing does not count.
LEMMA SilentEvent ==
    ASSUME NEW text, NEW events, NEW s, Outcome(text, s) = "unavailable"
    PROVE  Verdicts(text, events \cup {s}) = Verdicts(text, events)
<1>1. /\ {start \in events \cup {s} : Outcome(text, start) = "available"} = {start \in events : Outcome(text, start) = "available"}
      /\ {start \in events \cup {s} : Outcome(text, start) = "malformed"} = {start \in events : Outcome(text, start) = "malformed"}
  OBVIOUS
<1>2. QED
  BY <1>1 DEF Verdicts

\* The end of a text that [DONE] has not ended.
LEMMA TextEnds ==
    ASSUME NEW text \in Seq(Pieces), NEW o \in ObserverType, ~o.terminal,
           NEW s \in 0..Len(text), NEW b \in s..Len(text), Reading(text, s, b, o)
    PROVE  Usage!Finish(o) = Verdicts(text, Closed(text, s) \cup {s})
<1>1. Len(text) \in Nat /\ s \in Nat
  <2>1. Len(text) \in Nat
    BY LenProperties
  <2>2. QED
    BY <2>1
<1>2. PICK lined : lined = IF o.line # <<>> THEN Usage!ProcessLine(o) ELSE o
  OBVIOUS
<1>3. /\ lined \in ObserverType /\ lined.line = <<>> /\ ~lined.terminal
      /\ lined.candidate = o.candidate /\ lined.invalid = o.invalid
  BY <1>2, ProcessLineIs
<1>4. Gathered(text, s, lined)
  BY <1>1, <1>2, LineGathered DEF Reading
<1>5. Verdict(lined) = Outcome(text, s)
  BY <1>1, <1>3, <1>4, EventTold
<1>6. s \notin Closed(text, s)
  BY <1>1 DEF Closed
<1>7. Tells(text, Closed(text, s), lined)
  BY <1>3, TellsSame DEF Reading
<1>8. PICK ended : ended = IF lined.lines > 0 \/ lined.limited THEN Usage!FinishEvent(lined) ELSE lined
  OBVIOUS
<1>9. /\ ended.candidate <=> lined.candidate \/ Outcome(text, s) = "available"
      /\ ended.invalid <=> \/ lined.invalid \/ Outcome(text, s) = "malformed"
                           \/ Outcome(text, s) = "available" /\ lined.candidate
  <2>1. CASE lined.lines > 0 \/ lined.limited
    <3>1. ended = Usage!FinishEvent(lined)
      BY <1>8, <2>1
    <3>2. QED
      BY <1>3, <1>5, <3>1, FinishEventIs
  <2>2. CASE ~(lined.lines > 0 \/ lined.limited)
    <3>1. ended = lined /\ lined.lines = 0
      BY <1>3, <1>8, <2>2 DEF ObserverType
    <3>2. Outcome(text, s) = "unavailable"
      BY <1>5, <2>2, <3>1 DEF Verdict
    <3>3. QED
      BY <3>1, <3>2
  <2>3. QED
    BY <2>1, <2>2
<1>10. Tells(text, Closed(text, s) \cup {s}, ended)
  BY <1>6, <1>7, <1>9, TellsMore
<1>11. Usage!Finish(o) = IF ended.invalid THEN "malformed" ELSE IF ended.candidate THEN "available" ELSE "unavailable"
  BY <1>2, <1>3, <1>8 DEF Usage!Finish
<1>12. QED
  BY <1>10, <1>11, ToldVerdict

\* The outcome of a response is what its events before [DONE] say.
LEMMA FinishTells ==
    ASSUME NEW text, NEW o, Follows(text, o)
    PROVE  Usage!Finish(o) = Verdicts(text, Before(text))
<1>1. text \in Seq(Pieces) /\ o \in ObserverType /\ Len(text) \in Nat
  BY LenProperties DEF Follows
<1>2. \A t \in EventStarts(text) : t \in Nat
  BY <1>1 DEF EventStarts
<1>3. CASE o.terminal
  <2>1. PICK t \in EventStarts(text) : Ended(text, t, o)
    BY <1>3 DEF Follows
  <2>2. /\ Terminal(text, t) /\ \A u \in Closed(text, t) : ~Terminal(text, u)
        /\ Tells(text, Closed(text, t), o)
    BY <2>1 DEF Ended
  <2>3. ASSUME NEW u \in EventStarts(text)
        PROVE  u \in Before(text) <=> u < t
    <3>1. ASSUME u < t, NEW other \in EventStarts(text), Terminal(text, other) PROVE u < other
      <4>1. ~(other < t)
        BY <2>2, <3>1 DEF Closed
      <4>2. QED
        BY <1>2, <3>1, <4>1
    <3>2. QED
      BY <2>2, <3>1 DEF Before
  <2>4. Before(text) = Closed(text, t)
    BY <2>3 DEF Before, Closed
  <2>5. Usage!Finish(o) = IF o.invalid THEN "malformed" ELSE IF o.candidate THEN "available" ELSE "unavailable"
    BY <1>3 DEF Usage!Finish
  <2>6. QED
    BY <2>2, <2>4, <2>5, ToldVerdict
<1>4. CASE ~o.terminal
  <2>1. PICK s \in 0..Len(text) : \E b \in s..Len(text) : Reading(text, s, b, o)
    BY <1>4 DEF Follows
  <2>2. PICK b \in s..Len(text) : Reading(text, s, b, o)
    BY <2>1
  <2>3. Usage!Finish(o) = Verdicts(text, Closed(text, s) \cup {s})
    BY <1>1, <1>4, <2>2, TextEnds
  <2>4. /\ EventStarts(text) = Closed(text, s) \cup (IF s < Len(text) THEN {s} ELSE {})
        /\ \A t \in Closed(text, s) : t < s /\ ~Terminal(text, t)
    BY <1>1, <2>2, OpenStarts DEF Reading
  <2>5. s \in Nat /\ s <= Len(text)
    BY <1>1
  <2>6. ASSUME NEW t \in Closed(text, s) PROVE t \in Before(text)
    <3>1. t \in EventStarts(text) /\ t < s
      BY <2>4
    <3>2. \A other \in EventStarts(text) : Terminal(text, other) => other = s
      BY <2>4
    <3>3. QED
      BY <3>1, <3>2 DEF Before
  <2>7. CASE s < Len(text) /\ ~Terminal(text, s)
    <3>1. Before(text) = EventStarts(text)
      BY <2>4, <2>7 DEF Before
    <3>2. QED
      BY <2>3, <2>4, <2>7, <3>1
  <2>8. CASE ~(s < Len(text)) \/ Terminal(text, s)
    <3>1. s \notin Before(text)
      <4>1. ~(s < s) /\ ~(Len(text) < Len(text))
        BY <1>1, <2>5
      <4>2. s \in EventStarts(text) => s < Len(text)
        BY <1>1 DEF EventStarts
      <4>3. QED
        BY <2>8, <4>1, <4>2 DEF Before
    <3>2. Before(text) \subseteq EventStarts(text)
      BY DEF Before
    <3>3. Before(text) = Closed(text, s)
      BY <2>4, <2>6, <3>1, <3>2
    <3>4. Outcome(text, s) = "unavailable"
      <4>1. CASE s < Len(text)
        BY <1>1, <2>5, <2>8, <4>1, DoneSaysNothing
      <4>2. CASE ~(s < Len(text))
        <5>1. s = Len(text)
          BY <1>1, <2>5, <4>2
        <5>2. QED
          BY <1>1, <5>1, NothingSaid
      <4>3. QED
        BY <4>1, <4>2
    <3>5. QED
      BY <2>3, <3>3, <3>4, SilentEvent
  <2>9. QED
    BY <2>7, <2>8
<1>5. QED
  BY <1>3, <1>4

LEMMA NothingFollows == Follows(<<>>, Usage!NothingObserved)
<1> DEFINE o == Usage!NothingObserved
<1>1. <<>> \in Seq(Pieces) /\ Len(<<>>) = 0 /\ <<>> \o <<>> = <<>>
  BY EmptySeq, ConcatEmptySeq
<1>2. /\ o \in ObserverType /\ o.line = <<>> /\ o.data = <<>> /\ o.lines = 0 /\ ~o.limited
      /\ ~o.candidate /\ ~o.invalid /\ ~o.terminal
  BY <1>1 DEF Usage!NothingObserved, ObserverType
<1> HIDE DEF o
<1>3. DataLines(<<>>, 0) = {} /\ DataOf(<<>>, 0) = <<>> /\ ~Overlong(<<>>, 0)
  BY <1>1, NothingSaid
<1>4. Gathered(<<>>, 0, o)
  <2>1. ~IsData(o.line) /\ Open(o) = <<>>
    BY <1>2 DEF IsData, Open
  <2>2. Cardinality(DataLines(<<>>, 0)) = 0
    <3>1. Cardinality({}) = 0
      BY FS_EmptySet, Zenon
    <3>2. QED
      BY <1>3, <3>1, Zenon
  <2>3. 0 + 0 = 0
    OBVIOUS
  <2>4. QED
    BY <1>1, <1>2, <1>3, <2>1, <2>2, <2>3 DEF Gathered
<1>5. OfLine(<<>>, 0, o)
  BY <1>1, <1>2 DEF OfLine
<1>6. Closed(<<>>, 0) = {}
  BY <1>1 DEF Closed, EventStarts
<1>7. Tells(<<>>, Closed(<<>>, 0), o)
  BY <1>2, <1>6 DEF Tells
<1>8. Break(<<>>, 0) /\ 0..(0 - 1) = {} /\ (0 + 1)..0 = {}
  BY DEF Break
<1>9. Reading(<<>>, 0, 0, o)
  BY <1>1, <1>4, <1>5, <1>6, <1>7, <1>8 DEF Reading
<1>10. 0 \in 0..Len(<<>>)
  BY <1>1
<1>11. Follows(<<>>, o)
  BY <1>1, <1>2, <1>9, <1>10 DEF Follows
<1>12. QED
  BY <1>11 DEF o

LEMMA ReadChunkKeeps ==
    ASSUME StreamInv, NEW chunk \in Chunks, ReadChunk(chunk)
    PROVE  StreamInv'
<1>1. reader = "stream" /\ fed' = fed \o chunk /\ value' = ObserveChunk(value, chunk)
  BY DEF ReadChunk
<1>2. chunk \in Seq(Pieces)
  <2>1. chunk \in Seq(ToSet(chunk)) /\ ToSet(chunk) \subseteq Pieces
    BY InputAssumption DEF Pieces
  <2>2. QED
    BY <2>1, SeqMonotonic, Zenon
<1>3. Follows(fed, value)
  BY <1>1 DEF StreamInv
<1>4. Follows(fed \o chunk, ObserveChunk(value, chunk))
  BY <1>2, <1>3, ChunkKeeps
<1>5. Follows(fed', value')
  BY <1>1, <1>4
<1>6. QED
  BY <1>5 DEF StreamInv, Follows, Reading

-----------------------------------------------------------------------------
(* A JSON response.                                                        *)

\* What is buffered is all of the body, until that is more than may be.
JSONInv ==
    reader = "json" =>
        /\ fed \in Seq(Sizes)
        /\ value = IF SumTo(fed, Len(fed)) > MaximumBody
                   THEN [size |-> 0, limited |-> TRUE] ELSE [size |-> SumTo(fed, Len(fed)), limited |-> FALSE]

LEMMA BufferKeeps ==
    ASSUME JSONInv, NEW size \in Sizes, BufferChunk(size)
    PROVE  JSONInv'
<1> DEFINE n == Len(fed)
           sum == SumTo(fed, n)
<1>1. /\ reader = "json" /\ fed' = Append(fed, size) /\ value' = Usage!ObserveJSON(value, size)
      /\ fed \in Seq(Sizes)
      /\ value = IF sum > MaximumBody THEN [size |-> 0, limited |-> TRUE] ELSE [size |-> sum, limited |-> FALSE]
  BY DEF JSONInv, BufferChunk, Feed
<1>2. size \in Nat /\ MaximumBody \in Nat /\ Sizes \subseteq Nat
  BY InputAssumption
<1>3. /\ fed' \in Seq(Sizes) /\ Len(fed') = n + 1 /\ n \in Nat
      /\ \A i \in 1..n : fed'[i] = fed[i]
      /\ fed'[n + 1] = size
  BY <1>1, AppendProperties, LenProperties
<1>4. sum \in Int
  <2>1. \A k \in 1..n : fed[k] \in Int
    <3>1. \A k \in 1..n : fed[k] \in Sizes
      BY <1>1, ElementOfSeq
    <3>2. \A s \in Sizes : s \in Int
      BY <1>2
    <3>3. QED
      BY <3>1, <3>2, Zenon
  <2>2. n \in 0..n
    BY <1>3
  <2>3. QED
    BY <1>3, <2>1, <2>2, SumType
<1>5. SumTo(fed', n + 1) = sum + size
  <2>1. SumTo(fed', n + 1) = SumTo(fed', n) + fed'[n + 1]
    <3>1. n + 1 \in Nat /\ n + 1 # 0 /\ (n + 1) - 1 = n
      BY <1>3
    <3>2. SumTo(fed', n + 1) = SumTo(fed', (n + 1) - 1) + fed'[n + 1]
      BY <3>1, SumMore, Zenon
    <3>3. QED
      BY <3>1, <3>2
  <2>2. SumTo(fed', n) = SumTo(fed, n)
    BY <1>3, SumSame
  <2>3. QED
    BY <1>3, <2>1, <2>2
<1> HIDE DEF sum
<1>6. CASE sum > MaximumBody
  <2>1. value = [size |-> 0, limited |-> TRUE]
    BY <1>1, <1>6
  <2>2. value' = [size |-> 0, limited |-> TRUE]
    BY <1>1, <2>1 DEF Usage!ObserveJSON
  <2>3. sum + size > MaximumBody
    BY <1>2, <1>4, <1>6
  <2>4. QED
    BY <1>3, <1>5, <2>2, <2>3 DEF JSONInv
<1>7. CASE ~(sum > MaximumBody)
  <2>1. value = [size |-> sum, limited |-> FALSE]
    BY <1>1, <1>7
  <2>2. value' = IF sum + size > MaximumBody THEN [size |-> 0, limited |-> TRUE]
                 ELSE [size |-> sum + size, limited |-> FALSE]
    <3>1. value.size = sum /\ value.limited = FALSE
      BY <2>1
    <3>2. PICK more : more = sum + size
      OBVIOUS
    <3>3. more \in Int /\ value.size + size = more
      BY <1>2, <1>4, <3>1, <3>2
    <3>4. value \in [size : Int, limited : BOOLEAN]
      BY <1>4, <2>1
    <3>5. [value EXCEPT !.size = more] = [size |-> more, limited |-> value.limited]
      BY <3>3, <3>4
    <3>6. value' = IF value.limited \/ more > MaximumBody THEN [size |-> 0, limited |-> TRUE]
                   ELSE [value EXCEPT !.size = more]
      BY <1>1, <3>3, Zenon DEF Usage!ObserveJSON
    <3>7. QED
      BY <3>1, <3>2, <3>5, <3>6, Zenon
  <2>3. QED
    BY <1>3, <1>5, <2>2 DEF JSONInv
<1>8. QED
  BY <1>6, <1>7

LEMMA UsageFollows ==
    ASSUME StreamInv, JSONInv
    PROVE  UsageExact
<1>1. reader = "stream" => Usage!Finish(value) = Verdicts(fed, Before(fed))
  BY FinishTells DEF StreamInv
<1>2. ASSUME reader = "json", NEW doc \in Documents
      PROVE  Usage!FinishJSON(value, doc) = IF SumTo(fed, Len(fed)) > MaximumBody THEN "malformed"
                                            ELSE IF SumTo(fed, Len(fed)) = 0 THEN "unavailable"
                                            ELSE Usage!DecodeDocument(doc, FALSE)
  <2>1. PICK sum : sum = SumTo(fed, Len(fed))
    OBVIOUS
  <2>2. value = IF sum > MaximumBody THEN [size |-> 0, limited |-> TRUE] ELSE [size |-> sum, limited |-> FALSE]
    BY <1>2, <2>1 DEF JSONInv
  <2>3. CASE sum > MaximumBody
    <3>1. value.limited = TRUE
      BY <2>2, <2>3
    <3>2. QED
      BY <2>1, <2>3, <3>1 DEF Usage!FinishJSON
  <2>4. CASE ~(sum > MaximumBody)
    <3>1. value.limited = FALSE /\ value.size = sum
      BY <2>2, <2>4
    <3>2. QED
      BY <2>1, <2>4, <3>1 DEF Usage!FinishJSON
  <2>5. QED
    BY <2>3, <2>4
<1>3. QED
  BY <1>1, <1>2 DEF UsageExact, Verdicts

-----------------------------------------------------------------------------
(* Each reader reads its own input.                                        *)

LEMMA OneReader ==
    ASSUME Next
    PROVE  /\ reader' = reader
           /\ reader = "window" =>
                 \E amount \in Amounts, interval \in Intervals, step \in ClockSteps, reset \in BOOLEAN :
                    ObserveInterval(amount, interval, step, reset)
           /\ reader = "server_info" => \E member \in Members : ReadMember(member)
           /\ reader = "scrape" => \E line \in Lines : ReadLine(line)
           /\ reader \in Shape!Endpoints => \E member \in RootMembers : ReadRootMember(member)
           /\ reader = "stream" => \E chunk \in Chunks : ReadChunk(chunk)
           /\ reader = "json" => \E size \in Sizes : BufferChunk(size)
<1> USE DEF Feed, Shape!Endpoints
<1>1. CASE \E amount \in Amounts, interval \in Intervals, step \in ClockSteps, reset \in BOOLEAN :
              ObserveInterval(amount, interval, step, reset)
  BY <1>1 DEF ObserveInterval
<1>2. CASE \E line \in Lines : ReadLine(line)
  BY <1>2 DEF ReadLine
<1>3. CASE \E member \in Members : ReadMember(member)
  BY <1>3 DEF ReadMember
<1>4. CASE \E byte \in Body!Bytes : ReadByte(byte)
  BY <1>4 DEF ReadByte
<1>5. CASE \E member \in RootMembers : ReadRootMember(member)
  BY <1>5 DEF ReadRootMember
<1>6. CASE \E chunk \in Chunks : ReadChunk(chunk)
  BY <1>6 DEF ReadChunk
<1>7. CASE \E size \in Sizes : BufferChunk(size)
  BY <1>7 DEF BufferChunk
<1>8. QED
  BY <1>1, <1>2, <1>3, <1>4, <1>5, <1>6, <1>7 DEF Next

-----------------------------------------------------------------------------
(* The theorems.                                                           *)

\* The running limit taken from a server_info document is at most the
\* configured maximum and every pool the document states, whichever of two
\* members of a key another reader would take (decodeSGLangServerInfo).
THEOREM LimitsHonest == Spec => []LimitHolds
<1>1. Init => LimitInv
  BY DEF Init, LimitInv, IsInfo, Info!NothingDecoded, Shape!Endpoints
<1>2. LimitInv /\ [Next]_vars => LimitInv'
  <2>1. ASSUME LimitInv, Next PROVE LimitInv'
    <3>1. CASE reader = "server_info"
      BY <2>1, <3>1, OneReader, ReadMemberKeeps
    <3>2. CASE reader # "server_info"
      BY <2>1, <3>2, OneReader DEF LimitInv
    <3>3. QED
      BY <3>1, <3>2
  <2>2. ASSUME LimitInv, UNCHANGED vars PROVE LimitInv'
    BY <2>2 DEF LimitInv, IsInfo, vars
  <2>3. QED
    BY <2>1, <2>2
<1>3. LimitInv => LimitHolds
  BY LimitFollows
<1>4. QED
  BY <1>1, <1>2, <1>3, PTL DEF Spec

\* A request is charged for as many sequences as every reader of its body takes
\* it to ask for, and refused if two readers could differ or the product does
\* not fit; that it streams is known only if all its members say so
\* (updatePositiveFanout, updateOptionalPositiveFanout, finalizeTPSRequestShape).
THEOREM ShapesAgree == Spec => []ShapeExact
<1>1. Init => ShapeInv
  <2>1. ASSUME Init, reader \in Shape!Endpoints PROVE ShapeInv
    <3>1. fed = <<>> /\ value = Shape!NewShape
      BY <2>1 DEF Init, Shape!Endpoints
    <3>2. \A key : Values(key) = {} /\ Times(key) = 0
      BY <3>1, FS_EmptySet DEF Values, Times
    <3>3. /\ value \in ShapeType /\ value.supported
          /\ ~value.n.seen /\ value.n.value = 1
          /\ ~value.bestOf.seen /\ ~value.bestOf.null /\ value.bestOf.value = 1
          /\ ~value.promptSeen /\ value.prompts = 1
          /\ ~value.streamPresent /\ ~value.streamKnown /\ ~value.streaming
      BY <3>1 DEF Shape!NewShape, Shape!Unread, ShapeType, FanoutType
    <3>4. Agreed /\ NSays /\ BestOfSays /\ PromptSays
      BY <3>2, <3>3 DEF Agreed, NAgrees, BestOfAgrees, PromptAgrees, NSays, BestOfSays, PromptSays
    <3>5. StreamSays
      BY <3>2, <3>3 DEF StreamSays, SaidOfStream
    <3>6. fed \in Seq(RootMembers)
      BY <3>1, EmptySeq
    <3>7. QED
      BY <3>3, <3>4, <3>5, <3>6 DEF ShapeInv
  <2>2. QED
    BY <2>1 DEF ShapeInv
<1>2. ShapeInv /\ [Next]_vars => ShapeInv'
  <2>1. ASSUME ShapeInv, Next PROVE ShapeInv'
    <3>1. CASE reader \in Shape!Endpoints
      BY <2>1, <3>1, OneReader, ReadRootMemberKeeps
    <3>2. CASE reader \notin Shape!Endpoints
      BY <2>1, <3>2, OneReader DEF ShapeInv
    <3>3. QED
      BY <3>1, <3>2
  <2>2. ASSUME ShapeInv, UNCHANGED vars PROVE ShapeInv'
    <3>1. \A key : Values(key)' = Values(key) /\ Times(key)' = Times(key)
      BY <2>2 DEF Values, Times, vars
    <3>2. QED
      BY <2>2, <3>1, NStill, BestOfStill, PromptStill, StreamStill
         DEF ShapeInv, Agreed, vars, SamePrompt, SameStream
  <2>3. QED
    BY <2>1, <2>2
<1>3. ShapeInv => ShapeExact
  BY ShapeFollows
<1>4. QED
  BY <1>1, <1>2, <1>3, PTL DEF Spec

\* A scrape is used only if all of its lines are of one framework, one model and
\* one data-parallel rank, with every request gauge declared once, and the
\* numbers of requests taken from it are the scheduler's own totals, whatever
\* lines come in whatever order (ParseSample, parseSGLangRequestGauge).
THEOREM SamplesHonest == Spec => []SampleExact
<1>1. Init => ScrapeInv
  BY ScrapeBegins
<1>2. ScrapeInv /\ [Next]_vars => ScrapeInv'
  <2>1. ASSUME ScrapeInv, Next PROVE ScrapeInv'
    <3>1. CASE reader = "scrape"
      BY <2>1, <3>1, OneReader, ReadLineKeeps
    <3>2. CASE reader # "scrape"
      BY <2>1, <3>2, OneReader DEF ScrapeInv
    <3>3. QED
      BY <3>1, <3>2
  <2>2. ASSUME ScrapeInv, UNCHANGED vars PROVE ScrapeInv'
    BY <2>2 DEF ScrapeInv, vars
  <2>3. QED
    BY <2>1, <2>2
<1>3. ScrapeInv => SampleExact
  BY BackendFollows, TotalsFollow DEF SampleExact
<1>4. QED
  BY <1>1, <1>2, <1>3, PTL DEF Spec

\* While nobody sets the wall clock, a snapshot says at any moment exactly what the
\* observed intervals still are in the window: no tick is counted twice, lost at
\* the edge of the window or kept when its bucket is taken by a later second, of
\* however many intervals and whatever they hold (tpsWindow.observe, expire,
\* snapshot).
THEOREM WindowTells == ClockSteps = {0} /\ Spec => []WindowExact
<1> DEFINE Steady == ClockSteps = {0}
<1>1. Init => WindowInv
  <2>1. ASSUME Init, reader = "window" PROVE value = NoObservation /\ fed = <<>>
    BY <2>1 DEF Init, Shape!Endpoints
  <2>2. /\ NoObservation.ok /\ NoObservation.window = NewWindow /\ IsTime(NoObservation.at)
        /\ NoObservation.at.wall = NoObservation.at.mono /\ NoObservation.running \in Nat
    BY DEF NoObservation, IsTime
  <2>3. ASSUME fed = <<>>, NEW now \in Nat, NEW field \in Fields
        PROVE  SumTo(Counting(NewWindow.buckets, now, field), BucketCount) = SumTo(HeldOf(now, field), Len(fed))
    <3>1. SumTo(Counting(NewWindow.buckets, now, field), BucketCount) = 0
      BY NewWindowIs, CountingSums
    <3>2. Len(fed) = 0
      BY <2>3
    <3>3. SumTo(HeldOf(now, field), 0) = 0
      BY SumMore
    <3>4. QED
      BY <3>1, <3>2, <3>3
  <2>4. fed = <<>> => fed \in Seq(Observations)
    BY EmptySeq
  <2>5. QED
    BY <2>1, <2>2, <2>3, <2>4, NewWindowIs DEF WindowInv, SumsAgree
<1>2. Steady /\ WindowInv /\ [Next]_vars => Steady' /\ WindowInv'
  <2>1. ASSUME Steady, WindowInv, Next PROVE WindowInv'
    <3>1. CASE reader = "window"
      BY <2>1, <3>1, OneReader, ObserveKeeps
    <3>2. CASE reader # "window"
      BY <2>1, <3>2, OneReader DEF WindowInv
    <3>3. QED
      BY <3>1, <3>2
  <2>2. ASSUME WindowInv, UNCHANGED vars PROVE WindowInv'
    <3>1. \A now, field : HeldOf(now, field)' = HeldOf(now, field)
      BY <2>2 DEF HeldOf, Counted, vars
    <3>2. QED
      BY <2>2, <3>1 DEF WindowInv, SumsAgree, vars
  <2>3. QED
    BY <2>1, <2>2
<1>3. WindowInv => WindowExact
  <2>1. SUFFICES ASSUME WindowInv, reader = "window",
                        NEW now \in value.at.wall..(value.at.wall + WindowTicks + TicksPerSecond)
                 PROVE  Snapshot(value.window, now).total =
                           [field \in Fields |-> SumTo(HeldOf(now, field), Len(fed))]
    BY DEF WindowInv, WindowExact, WindowNeverFails, Fields
  <2>2. now \in Nat /\ now >= value.at.wall
    <3>1. value.at.wall \in Nat /\ WindowTicks \in Nat /\ TicksPerSecond \in Nat
      BY <2>1, RingSize DEF WindowInv, IsTime
    <3>2. QED
      BY <2>1, <3>1
  <2>3. \A field \in Fields :
           SumTo(Counting(value.window.buckets, now, field), BucketCount) = SumTo(HeldOf(now, field), Len(fed))
    BY <2>1, <2>2 DEF WindowInv, SumsAgree
  <2>4. Snapshot(value.window, now).total =
           [field \in Fields |-> SumTo(Counting(value.window.buckets, now, field), BucketCount)]
    BY DEF Snapshot, Total, Fields
  <2>5. QED
    BY <2>3, <2>4
<1>4. QED
  BY <1>1, <1>2, <1>3, PTL DEF Spec

\* Nor does an observation then make the window fail, over which the controller
\* would close: every second of an interval finds a bucket of its own, free or its
\* own already (tpsWindow.add, expire).
THEOREM WindowSound == ClockSteps = {0} /\ Spec => []WindowNeverFails
<1>1. WindowExact => WindowNeverFails
  BY DEF WindowExact
<1>2. QED
  BY <1>1, WindowTells, PTL

\* However the body of a response is split into chunks, and whether or not it ends
\* with a newline, its outcome is what its whole text says: available for exactly
\* one usage that can be read before [DONE], malformed if one cannot, if there
\* are two or if an event is too long to be held, and nothing after the last event
\* changes it; a JSON body counts as a whole or, when it is too long, not at all
\* (completionUsageStreamObserver.Observe, processSSELine, finishSSEEvent, Finish).
THEOREM UsageTold == Spec => []UsageExact
<1>1. Init => StreamInv /\ JSONInv
  <2>1. ASSUME Init, reader = "stream" PROVE Follows(fed, value)
    <3>1. fed = <<>> /\ value = Usage!NothingObserved
      BY <2>1 DEF Init, Shape!Endpoints
    <3>2. QED
      BY <3>1, NothingFollows
  <2>2. ASSUME Init, reader = "json" PROVE JSONInv
    <3>1. fed = <<>> /\ value = [size |-> 0, limited |-> FALSE]
      BY <2>2 DEF Init, Shape!Endpoints, Usage!NothingBuffered
    <3>2. fed \in Seq(Sizes) /\ Len(fed) = 0
      BY <3>1, EmptySeq
    <3>3. SumTo(fed, 0) = 0 /\ ~(0 > MaximumBody)
      BY SumMore, InputAssumption
    <3>4. QED
      BY <3>1, <3>2, <3>3 DEF JSONInv
  <2>3. QED
    BY <2>1, <2>2 DEF StreamInv, JSONInv
<1>2. StreamInv /\ JSONInv /\ [Next]_vars => StreamInv' /\ JSONInv'
  <2>1. ASSUME StreamInv, JSONInv, Next PROVE StreamInv' /\ JSONInv'
    <3>1. StreamInv'
      <4>1. CASE reader = "stream"
        BY <2>1, <4>1, OneReader, ReadChunkKeeps
      <4>2. CASE reader # "stream"
        BY <2>1, <4>2, OneReader DEF StreamInv
      <4>3. QED
        BY <4>1, <4>2
    <3>2. JSONInv'
      <4>1. CASE reader = "json"
        BY <2>1, <4>1, OneReader, BufferKeeps
      <4>2. CASE reader # "json"
        BY <2>1, <4>2, OneReader DEF JSONInv
      <4>3. QED
        BY <4>1, <4>2
    <3>3. QED
      BY <3>1, <3>2
  <2>2. ASSUME StreamInv, JSONInv, UNCHANGED vars PROVE StreamInv' /\ JSONInv'
    BY <2>2 DEF StreamInv, JSONInv, vars
  <2>3. QED
    BY <2>1, <2>2
<1>3. StreamInv /\ JSONInv => UsageExact
  BY UsageFollows
<1>4. QED
  BY <1>1, <1>2, <1>3, PTL DEF Spec
=============================================================================
