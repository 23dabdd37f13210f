---------------------------- MODULE PromptMirror ----------------------------
(***************************************************************************)
(* The mirror of the backend's prefix cache                                *)
(* (src/internal/app/server/prompt_cost.go, over the fingerprints of       *)
(* src/internal/app/request/prompt_fingerprint.go): an LRU list of blocks, *)
(* the latest first, which the code also indexes by a map.                 *)
(*                                                                         *)
(* A prompt is the sequence of its parts of 1 KiB, the last of which may   *)
(* be shorter. The hash of a block covers every byte up to its end; it is  *)
(* taken to be free of collisions, so that a block is the prefix it ends.  *)
(***************************************************************************)
EXTENDS Integers, Sequences, FiniteSets, FiniteSetsExt, SequencesExt

Blocks(prompt) == [i \in DOMAIN prompt |-> SubSeq(prompt, 1, i)]

\* Estimate: how many blocks of a prompt, from the first on, the mirror holds;
\* the rest is what the prompt is charged for.
Matched(lru, prompt) ==
    Max({n \in 0..Len(prompt) : \A i \in 1..n : Blocks(prompt)[i] \in ToSet(lru)})

\* Where the index finds a block of the mirror.
Place(lru, block) == CHOOSE i \in DOMAIN lru : lru[i] = block

\* A slip: a block that is there already keeps its place.
TouchNew(lru, block) == IF block \in ToSet(lru) THEN lru ELSE <<block>> \o lru

\* MoveToFront, or PushFront.
Touch(lru, block) ==
    IF block \in ToSet(lru) THEN <<block>> \o RemoveAt(lru, Place(lru, block)) ELSE <<block>> \o lru

\* The loop over the blocks of a prompt, in their order.
TouchAll(lru, blocks) ==
    LET after[n \in 0..Len(blocks)] == IF n = 0 THEN lru ELSE Touch(after[n - 1], blocks[n])
    IN  after[Len(blocks)]

\* Admitted: whether a prompt enters the mirror at all; its blocks are touched, and
\* then others are evicted from the end.
Enters(prompt, capacity) == capacity > 0 /\ prompt # <<>>

Admitted(lru, prompt, capacity) ==
    LET touched == TouchAll(lru, Blocks(prompt))
    IN  IF ~Enters(prompt, capacity) THEN lru
        ELSE IF Len(touched) > capacity THEN SubSeq(touched, 1, capacity) ELSE touched
=============================================================================
