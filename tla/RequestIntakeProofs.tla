------------------------ MODULE RequestIntakeProofs ------------------------
(***************************************************************************)
(* Proofs about the request intake, for every number of requests, every    *)
(* length and kind of their bodies, every prompt and every limit.          *)
(*                                                                         *)
(* TouchAllDefined shows that the loop over the blocks of a prompt has a   *)
(* value, and TouchAllRecent what it is, each by the least number of       *)
(* blocks at which it would not hold (NatMinimum).                         *)
(***************************************************************************)
EXTENDS RequestIntake, FiniteSetTheorems, SequenceTheorems, WellFoundedInduction, TLAPS

LEMMA NatMinimum ==
    ASSUME NEW S \in SUBSET Nat, S # {}
    PROVE  \E n \in S : \A m \in S : n <= m
<1> DEFINE R == {ss \in Nat \X Nat : ss[1] < ss[2]}
<1>1. IsWellFoundedOn(R, Nat)
  BY NatLessThanWellFounded, Zenon DEF OpToRel
<1>2. PICK n \in S : \A m \in S : <<m, n>> \notin R
  <2> HIDE DEF R
  <2> QED
    BY <1>1, WFMin
<1>3. ASSUME NEW m \in S, m < n PROVE FALSE
  <2>1. <<m, n>> \in Nat \X Nat /\ <<m, n>>[1] < <<m, n>>[2]
    BY <1>3
  <2>2. <<m, n>> \in R
    BY <2>1, Zenon
  <2>3. QED
    BY <1>2, <2>2, Zenon
<1>4. QED
  BY <1>3

\* The loop over the blocks of a prompt computes what it says.
LEMMA TouchAllDefined ==
    ASSUME NEW list, NEW blocks, Len(blocks) \in Nat
    PROVE  \E after :
              /\ after = [n \in 0..Len(blocks) |->
                             IF n = 0 THEN list ELSE Touch(after[n - 1], blocks[n])]
              /\ TouchAll(list, blocks) = after[Len(blocks)]
<1> DEFINE Is(after, m) ==
             after = [n \in 0..m |-> IF n = 0 THEN list ELSE Touch(after[n - 1], blocks[n])]
           Missing == {m \in 0..Len(blocks) : ~ \E after : Is(after, m)}
<1>1. Missing = {}
  <2>1. SUFFICES ASSUME Missing # {} PROVE FALSE
    OBVIOUS
  <2>2. PICK m \in Missing : \A n \in Missing : m <= n
    <3>1. Missing \in SUBSET Nat
      OBVIOUS
    <3> HIDE DEF Missing
    <3> QED
      BY <2>1, <3>1, NatMinimum
  <2>3. m # 0
    <3>1. Is([n \in 0..0 |-> list], 0)
      OBVIOUS
    <3> QED
      BY <3>1
  <2>4. m - 1 \in 0..Len(blocks) /\ m - 1 \notin Missing
    BY <2>2, <2>3
  <2>5. PICK before : Is(before, m - 1)
    BY <2>4
  <2> DEFINE now == [n \in 0..m |-> IF n < m THEN before[n] ELSE Touch(before[m - 1], blocks[m])]
  <2>6. ASSUME NEW n \in 0..m
        PROVE  now[n] = IF n = 0 THEN list ELSE Touch(now[n - 1], blocks[n])
    <3>1. m - 1 \in Nat /\ m \in Nat /\ n \in Nat
      BY <2>4
    <3>2. CASE n < m
      <4>1. n \in 0..(m - 1) /\ now[n] = before[n]
        BY <3>1, <3>2
      <4>2. before[n] = IF n = 0 THEN list ELSE Touch(before[n - 1], blocks[n])
        BY <2>5, <4>1
      <4>3. n # 0 => now[n - 1] = before[n - 1]
        BY <3>1, <3>2
      <4> QED
        BY <4>1, <4>2, <4>3
    <3>3. CASE n = m
      BY <3>1, <3>3, <2>3
    <3> QED
      BY <3>1, <3>2, <3>3
  <2>7. Is(now, m)
    <3> DEFINE other == [n \in 0..m |-> IF n = 0 THEN list ELSE Touch(now[n - 1], blocks[n])]
    <3>1. \A n \in 0..m : now[n] = other[n]
      BY <2>6
    <3> QED
      BY <3>1
  <2> HIDE DEF now
  <2> QED
    BY <2>2, <2>7
<1>2. \E after : Is(after, Len(blocks))
  BY <1>1
<1> DEFINE chosen == CHOOSE after : Is(after, Len(blocks))
<1>3. Is(chosen, Len(blocks))
  <2> HIDE DEF Is
  <2> QED
    BY <1>2
<1>4. TouchAll(list, blocks) = chosen[Len(blocks)]
  BY DEF TouchAll
<1> HIDE DEF chosen
<1> QED
  BY <1>3, <1>4

-----------------------------------------------------------------------------
(* The mirror.                                                             *)

\* Where the block that goes to the front was: its place, or just after the end.
Gap(list, block) == IF block \in ToSet(list) THEN Place(list, block) ELSE Len(list) + 1

LEMMA GapIs ==
    ASSUME NEW B, NEW list \in Seq(B), NEW block
    PROVE  /\ Gap(list, block) \in 1..(Len(list) + 1)
           /\ block \in ToSet(list) => Gap(list, block) \in DOMAIN list /\ list[Gap(list, block)] = block
<1>1. DOMAIN list = 1..Len(list) /\ Len(list) \in Nat
  BY LenProperties
<1>2. CASE block \in ToSet(list)
  <2>1. \E i \in DOMAIN list : list[i] = block
    BY <1>2 DEF ToSet
  <2>2. Place(list, block) \in DOMAIN list /\ list[Place(list, block)] = block
    BY <2>1, Zenon DEF Place
  <2> QED
    BY <1>1, <1>2, <2>2 DEF Gap
<1>3. CASE block \notin ToSet(list)
  BY <1>1, <1>3 DEF Gap
<1> QED
  BY <1>2, <1>3

\* What a touch does to each place of the list.
LEMMA TouchIs ==
    ASSUME NEW B, NEW list \in Seq(B), NEW block \in B
    PROVE  LET gap == Gap(list, block)
               touched == Touch(list, block)
           IN  /\ touched \in Seq(B)
               /\ Len(touched) = Len(list) + (IF block \in ToSet(list) THEN 0 ELSE 1)
               /\ touched[1] = block
               /\ \A i \in 2..Len(touched) :
                     touched[i] = list[IF i <= gap THEN i - 1 ELSE i]
<1> DEFINE gap == Gap(list, block)
           touched == Touch(list, block)
<1>1. Len(list) \in Nat /\ DOMAIN list = 1..Len(list) /\ \A i \in 1..Len(list) : list[i] \in B
  BY LenProperties, ElementOfSeq
<1>2. <<block>> \in Seq(B) /\ Len(<<block>>) = 1 /\ <<block>>[1] = block
  OBVIOUS
<1>3. CASE block \in ToSet(list)
  <2>1. gap \in 1..Len(list)
    BY <1>1, <1>3, GapIs
  <2> DEFINE head == SubSeq(list, 1, gap - 1)
             tail == SubSeq(list, gap + 1, Len(list))
  <2>2. /\ head \in Seq(B) /\ Len(head) = gap - 1
        /\ \A i \in 1..(gap - 1) : head[i] = list[i]
    <3>1. 1 \in Int /\ gap - 1 \in Int /\ \A i \in 1..(gap - 1) : list[i] \in B
      BY <1>1, <2>1
    <3>2. /\ SubSeq(list, 1, gap - 1) \in Seq(B)
          /\ Len(SubSeq(list, 1, gap - 1)) = IF 1 <= gap - 1 THEN gap - 1 - 1 + 1 ELSE 0
          /\ \A i \in 1..(gap - 1 - 1 + 1) : SubSeq(list, 1, gap - 1)[i] = list[1 + i - 1]
      <4> HIDE DEF gap
      <4> QED
        BY <3>1, SubSeqProperties
    <3> HIDE DEF gap
    <3> QED
      BY <2>1, <3>2
  <2>3. /\ tail \in Seq(B) /\ Len(tail) = Len(list) - gap
        /\ \A i \in 1..(Len(list) - gap) : tail[i] = list[gap + i]
    <3>1. gap + 1 \in Int /\ Len(list) \in Int /\ \A i \in (gap + 1)..Len(list) : list[i] \in B
      BY <1>1, <2>1
    <3>2. /\ SubSeq(list, gap + 1, Len(list)) \in Seq(B)
          /\ Len(SubSeq(list, gap + 1, Len(list)))
                = IF gap + 1 <= Len(list) THEN Len(list) - (gap + 1) + 1 ELSE 0
          /\ \A i \in 1..(Len(list) - (gap + 1) + 1) :
                SubSeq(list, gap + 1, Len(list))[i] = list[gap + 1 + i - 1]
      <4> HIDE DEF gap
      <4> QED
        BY <3>1, SubSeqProperties
    <3> HIDE DEF gap
    <3>3. ASSUME NEW i \in 1..(Len(list) - gap)
          PROVE  SubSeq(list, gap + 1, Len(list))[i] = list[gap + i]
      <4>1. i \in 1..(Len(list) - (gap + 1) + 1) /\ gap + 1 + i - 1 = gap + i
        BY <1>1, <2>1
      <4> QED
        BY <3>2, <4>1
    <3>4. Len(SubSeq(list, gap + 1, Len(list))) = Len(list) - gap
      <4>1. Len(list) \in Nat /\ gap \in Nat /\ gap <= Len(list)
        BY <1>1, <2>1
      <4>2. CASE gap + 1 <= Len(list)
        <5>1. Len(list) - (gap + 1) + 1 = Len(list) - gap
          BY <4>1
        <5> QED
          BY <3>2, <4>2, <5>1
      <4>3. CASE ~(gap + 1 <= Len(list))
        <5>1. 0 = Len(list) - gap
          BY <4>1, <4>3
        <5> QED
          BY <3>2, <4>3, <5>1
      <4> QED
        BY <4>2, <4>3
    <3> QED
      BY <3>2, <3>3, <3>4
  <2>4. touched = <<block>> \o (head \o tail)
    BY <1>3 DEF Touch, RemoveAt, Gap
  <2> HIDE DEF gap, touched, head, tail
  <2>5. /\ head \o tail \in Seq(B) /\ Len(head \o tail) = Len(list) - 1
        /\ \A i \in 1..(Len(list) - 1) : (head \o tail)[i] = list[IF i < gap THEN i ELSE i + 1]
    <3>1. /\ head \o tail \in Seq(B) /\ Len(head \o tail) = Len(head) + Len(tail)
          /\ \A i \in 1..(Len(head) + Len(tail)) :
                (head \o tail)[i] = IF i <= Len(head) THEN head[i] ELSE tail[i - Len(head)]
      BY <2>2, <2>3, ConcatProperties
    <3>2. Len(head) + Len(tail) = Len(list) - 1
      BY <1>1, <2>1, <2>2, <2>3
    <3>3. ASSUME NEW i \in 1..(Len(list) - 1)
          PROVE  (head \o tail)[i] = list[IF i < gap THEN i ELSE i + 1]
      <4>1. CASE i < gap
        BY <1>1, <2>1, <2>2, <3>1, <3>2, <4>1
      <4>2. CASE ~(i < gap)
        <5>1. i - (gap - 1) \in 1..(Len(list) - gap) /\ gap + (i - (gap - 1)) = i + 1
          BY <1>1, <2>1, <4>2
        <5>2. (head \o tail)[i] = tail[i - (gap - 1)]
          BY <1>1, <2>1, <2>2, <3>1, <3>2, <4>2
        <5> QED
          BY <2>3, <4>2, <5>1, <5>2
      <4> QED
        BY <4>1, <4>2
    <3> QED
      BY <3>1, <3>2, <3>3
  <2>6. /\ touched \in Seq(B) /\ Len(touched) = 1 + (Len(list) - 1)
        /\ \A i \in 1..(1 + (Len(list) - 1)) :
              touched[i] = IF i <= 1 THEN <<block>>[i] ELSE (head \o tail)[i - 1]
    BY <1>2, <2>4, <2>5, ConcatProperties
  <2>7. Len(touched) = Len(list) /\ touched[1] = block
    BY <1>1, <1>2, <2>1, <2>6
  <2>8. ASSUME NEW i \in 2..Len(touched)
        PROVE  touched[i] = list[IF i <= gap THEN i - 1 ELSE i]
    <3>1. i - 1 \in 1..(Len(list) - 1) /\ i \in 1..(1 + (Len(list) - 1)) /\ ~(i <= 1)
      BY <1>1, <2>7
    <3>2. touched[i] = list[IF i - 1 < gap THEN i - 1 ELSE i - 1 + 1]
      BY <2>5, <2>6, <3>1
    <3>3. (i - 1 < gap <=> i <= gap) /\ i - 1 + 1 = i
      BY <1>1, <2>1, <3>1
    <3> QED
      BY <3>2, <3>3
  <2> QED
    BY <1>1, <1>3, <2>6, <2>7, <2>8 DEF gap, touched
<1>4. CASE block \notin ToSet(list)
  <2>1. touched = <<block>> \o list /\ gap = Len(list) + 1
    BY <1>4 DEF Touch, Gap
  <2> HIDE DEF gap, touched
  <2>2. /\ touched \in Seq(B) /\ Len(touched) = 1 + Len(list)
        /\ \A i \in 1..(1 + Len(list)) : touched[i] = IF i <= 1 THEN <<block>>[i] ELSE list[i - 1]
    BY <1>1, <1>2, <2>1, ConcatProperties
  <2> QED
    BY <1>1, <1>2, <1>4, <2>1, <2>2 DEF gap, touched
<1> QED
  BY <1>3, <1>4

LEMMA SequenceIs ==
    ASSUME NEW B, NEW list \in Seq(B)
    PROVE  /\ Len(list) \in Nat /\ DOMAIN list = 1..Len(list)
           /\ \A i \in 1..Len(list) : list[i] \in B /\ list[i] \in ToSet(list)
           /\ ToSet(list) \in SUBSET B
BY LenProperties, ElementOfSeq DEF ToSet

LEMMA ToSetConcat ==
    ASSUME NEW B, NEW s \in Seq(B), NEW t \in Seq(B)
    PROVE  ToSet(s \o t) = ToSet(s) \cup ToSet(t)
<1>1. /\ s \o t \in Seq(B) /\ Len(s \o t) = Len(s) + Len(t)
      /\ \A i \in 1..(Len(s) + Len(t)) : (s \o t)[i] = IF i <= Len(s) THEN s[i] ELSE t[i - Len(s)]
  BY ConcatProperties
<1>2. /\ Len(s) \in Nat /\ DOMAIN s = 1..Len(s) /\ Len(t) \in Nat /\ DOMAIN t = 1..Len(t)
      /\ DOMAIN (s \o t) = 1..(Len(s) + Len(t))
  BY <1>1, LenProperties
<1>3. ASSUME NEW x \in ToSet(s \o t) PROVE x \in ToSet(s) \cup ToSet(t)
  <2>1. PICK i \in DOMAIN (s \o t) : (s \o t)[i] = x
    BY DEF ToSet
  <2>2. CASE i <= Len(s)
    BY <1>1, <1>2, <2>1, <2>2 DEF ToSet
  <2>3. CASE ~(i <= Len(s))
    <3>1. i - Len(s) \in DOMAIN t /\ t[i - Len(s)] = x
      BY <1>1, <1>2, <2>1, <2>3
    <3> QED
      BY <3>1 DEF ToSet
  <2> QED
    BY <2>2, <2>3
<1>4. ASSUME NEW x \in ToSet(s) PROVE x \in ToSet(s \o t)
  <2>1. PICK i \in DOMAIN s : s[i] = x
    BY DEF ToSet
  <2>2. i \in DOMAIN (s \o t) /\ (s \o t)[i] = x
    BY <1>1, <1>2, <2>1
  <2> QED
    BY <2>2 DEF ToSet
<1>5. ASSUME NEW x \in ToSet(t) PROVE x \in ToSet(s \o t)
  <2>1. PICK i \in DOMAIN t : t[i] = x
    BY DEF ToSet
  <2>2. i + Len(s) \in DOMAIN (s \o t) /\ ~(i + Len(s) <= Len(s)) /\ i + Len(s) - Len(s) = i
    BY <1>2
  <2>3. (s \o t)[i + Len(s)] = x
    BY <1>1, <1>2, <2>1, <2>2
  <2> QED
    BY <2>2, <2>3, Zenon DEF ToSet
<1> QED
  BY <1>3, <1>4, <1>5

LEMMA ToSetAppend ==
    ASSUME NEW B, NEW s \in Seq(B), NEW x \in B
    PROVE  ToSet(Append(s, x)) = ToSet(s) \cup {x}
<1>1. Append(s, x) \in Seq(B) /\ Append(s, x) = s \o <<x>>
  BY AppendProperties, AppendIsConcat
<1> DEFINE last == <<x>>
<1>2. last \in Seq(B) /\ ToSet(last) = {x}
  BY DEF ToSet
<1>3. Append(s, x) = s \o last
  BY <1>1
<1> HIDE DEF last
<1>4. ToSet(s \o last) = ToSet(s) \cup ToSet(last)
  BY <1>2, ToSetConcat
<1> QED
  BY <1>2, <1>3, <1>4

\* A touch of another block changes nothing of the order of two.
LEMMA TouchedBefore ==
    ASSUME NEW B, NEW touches \in Seq(B), NEW block \in B, NEW x, NEW y
    PROVE  /\ ~TouchedAfter(touches, x, x)
           /\ TouchedAfter(touches, x, y) /\ y # block => TouchedAfter(Append(touches, block), x, y)
           /\ y # block => TouchedAfter(Append(touches, block), block, y)
<1> DEFINE next == Append(touches, block)
<1>1. Len(touches) \in Nat /\ DOMAIN touches = 1..Len(touches)
  BY LenProperties
<1>2. /\ Len(next) = Len(touches) + 1 /\ DOMAIN next = 1..(Len(touches) + 1)
      /\ \A i \in 1..Len(touches) : next[i] = touches[i]
      /\ next[Len(touches) + 1] = block
  <2>1. next \in Seq(B)
    BY AppendProperties
  <2> QED
    BY <1>1, <2>1, AppendProperties, LenProperties
<1> HIDE DEF next
<1>3. ~TouchedAfter(touches, x, x)
  BY <1>1 DEF TouchedAfter
<1>4. ASSUME TouchedAfter(touches, x, y), y # block PROVE TouchedAfter(next, x, y)
  <2>1. PICK i \in DOMAIN touches :
           touches[i] = x /\ \A j \in DOMAIN touches : touches[j] = y => j < i
    BY <1>4 DEF TouchedAfter
  <2>2. i \in DOMAIN next /\ next[i] = x
    BY <1>1, <1>2, <2>1
  <2>3. ASSUME NEW j \in DOMAIN next, next[j] = y PROVE j < i
    BY <1>1, <1>2, <1>4, <2>1, <2>3
  <2> QED
    BY <2>2, <2>3 DEF TouchedAfter
<1>5. ASSUME y # block PROVE TouchedAfter(next, block, y)
  <2>1. Len(touches) + 1 \in DOMAIN next /\ next[Len(touches) + 1] = block
    BY <1>1, <1>2
  <2>2. ASSUME NEW j \in DOMAIN next, next[j] = y PROVE j < Len(touches) + 1
    BY <1>1, <1>2, <1>5, <2>2
  <2> QED
    BY <2>1, <2>2 DEF TouchedAfter
<1> QED
  BY <1>3, <1>4, <1>5 DEF next

\* MoveToFront and PushFront keep the order of the last use.
LEMMA TouchRecent ==
    ASSUME NEW B, NEW list \in Seq(B), NEW touches \in Seq(B), NEW block \in B,
           Recent(list, touches)
    PROVE  /\ Recent(Touch(list, block), Append(touches, block))
           /\ ToSet(Touch(list, block)) = ToSet(list) \cup {block}
<1> DEFINE gap == Gap(list, block)
           touched == Touch(list, block)
           next == Append(touches, block)
           from(i) == IF i <= gap THEN i - 1 ELSE i
<1>1. /\ Len(list) \in Nat /\ DOMAIN list = 1..Len(list)
      /\ \A i \in 1..Len(list) : list[i] \in B /\ list[i] \in ToSet(list)
  BY SequenceIs
<1>2. /\ touched \in Seq(B) /\ touched[1] = block
      /\ Len(touched) = Len(list) + (IF block \in ToSet(list) THEN 0 ELSE 1)
      /\ \A i \in 2..Len(touched) : touched[i] = list[from(i)]
  BY TouchIs
<1>3. DOMAIN touched = 1..Len(touched) /\ Len(touched) \in Nat /\ Len(touched) >= 1
  <2>1. block \in ToSet(list) => Len(list) >= 1
    BY <1>1 DEF ToSet
  <2> QED
    BY <1>1, <1>2, <2>1, SequenceIs
<1>4. /\ gap \in 1..(Len(list) + 1)
      /\ block \in ToSet(list) => gap \in 1..Len(list) /\ list[gap] = block
      /\ block \notin ToSet(list) => gap = Len(list) + 1
  BY <1>1, GapIs DEF Gap
<1> HIDE DEF gap, touched, next
<1>5. ASSUME NEW i \in 1..Len(list), NEW j \in 1..Len(list), i # j
      PROVE  list[i] # list[j]
  BY <1>1, <1>5, TouchedBefore DEF Recent
<1>6. ASSUME NEW i \in 2..Len(touched)
      PROVE  /\ from(i) \in 1..Len(list) /\ touched[i] = list[from(i)]
             /\ touched[i] # block /\ touched[i] \in ToSet(list)
  <2>1. from(i) \in 1..Len(list) /\ from(i) # gap
    BY <1>1, <1>2, <1>3, <1>4
  <2>2. list[from(i)] # block
    BY <1>1, <1>4, <1>5, <2>1
  <2> QED
    BY <1>1, <1>2, <2>1, <2>2
<1>7. ToSet(touched) = ToSet(list) \cup {block}
  <2>1. ASSUME NEW x \in ToSet(list), x # block PROVE x \in ToSet(touched)
    <3>1. PICK k \in 1..Len(list) : list[k] = x
      BY <1>1 DEF ToSet
    <3> DEFINE i == IF k < gap THEN k + 1 ELSE k
    <3>2. k # gap
      BY <1>1, <1>4, <2>1, <3>1
    <3>3. i \in 2..Len(touched) /\ from(i) = k
      BY <1>1, <1>2, <1>4, <3>2
    <3>4. touched[i] = x /\ i \in DOMAIN touched
      BY <1>2, <1>3, <3>1, <3>3
    <3> QED
      BY <3>4 DEF ToSet
  <2>2. ASSUME NEW i \in DOMAIN touched PROVE touched[i] \in ToSet(list) \cup {block}
    BY <1>2, <1>3, <1>6
  <2>3. block \in ToSet(touched)
    BY <1>2, <1>3 DEF ToSet
  <2> QED
    BY <2>1, <2>2, <2>3 DEF ToSet
<1>8. ToSet(next) = ToSet(touches) \cup {block}
  BY ToSetAppend DEF next
<1>9. ToSet(touched) \subseteq ToSet(next)
  BY <1>7, <1>8 DEF Recent
<1>10. ASSUME NEW i \in DOMAIN touched, NEW j \in DOMAIN touched, i < j
       PROVE  TouchedAfter(next, touched[i], touched[j])
  <2>1. j \in 2..Len(touched) /\ touched[j] # block
    BY <1>3, <1>6, <1>10
  <2>2. CASE i = 1
    BY <1>2, <2>1, <2>2, TouchedBefore DEF next
  <2>3. CASE i # 1
    <3>1. i \in 2..Len(touched)
      BY <1>3, <2>3
    <3>2. from(i) < from(j)
      BY <1>4, <1>10, <2>1, <3>1
    <3> DEFINE p == from(i)
               q == from(j)
    <3>3. /\ p \in DOMAIN list /\ q \in DOMAIN list /\ p < q
          /\ touched[i] = list[p] /\ touched[j] = list[q]
      BY <1>1, <1>6, <2>1, <3>1, <3>2
    <3> HIDE DEF p, q
    <3>4. TouchedAfter(touches, touched[i], touched[j])
      BY <3>3, Zenon DEF Recent
    <3> QED
      BY <2>1, <3>4, TouchedBefore DEF next
  <2> QED
    BY <2>2, <2>3
<1>11. ASSUME NEW i \in DOMAIN touched, NEW other \in ToSet(next) \ ToSet(touched)
       PROVE  TouchedAfter(next, touched[i], other)
  <2>1. other # block /\ other \in ToSet(touches) \ ToSet(list)
    BY <1>7, <1>8
  <2>2. CASE i = 1
    BY <1>2, <2>1, <2>2, TouchedBefore DEF next
  <2>3. CASE i # 1
    <3>1. i \in 2..Len(touched)
      BY <1>3, <2>3
    <3>2. TouchedAfter(touches, touched[i], other)
      BY <1>1, <1>6, <2>1, <3>1 DEF Recent
    <3> QED
      BY <2>1, <3>2, TouchedBefore DEF next
  <2> QED
    BY <2>2, <2>3
<1> QED
  BY <1>7, <1>9, <1>10, <1>11 DEF Recent, touched, next

\* So does the whole loop.
LEMMA TouchAllRecent ==
    ASSUME NEW B, NEW list \in Seq(B), NEW touches \in Seq(B), NEW blocks \in Seq(B),
           Recent(list, touches)
    PROVE  /\ TouchAll(list, blocks) \in Seq(B)
           /\ Recent(TouchAll(list, blocks), touches \o blocks)
           /\ ToSet(TouchAll(list, blocks)) = ToSet(list) \cup ToSet(blocks)
           /\ Len(TouchAll(list, blocks)) >= Len(list)
<1>1. Len(blocks) \in Nat /\ \A n \in 1..Len(blocks) : blocks[n] \in B
  BY SequenceIs
<1>2. PICK after :
         /\ after = [n \in 0..Len(blocks) |-> IF n = 0 THEN list ELSE Touch(after[n - 1], blocks[n])]
         /\ TouchAll(list, blocks) = after[Len(blocks)]
  BY <1>1, TouchAllDefined
<1> DEFINE Good(n) ==
             /\ after[n] \in Seq(B)
             /\ Recent(after[n], touches \o SubSeq(blocks, 1, n))
             /\ ToSet(after[n]) = ToSet(list) \cup ToSet(SubSeq(blocks, 1, n))
             /\ Len(after[n]) >= Len(list)
           Bad == {n \in 0..Len(blocks) : ~Good(n)}
<1>3. Good(0)
  <2>1. after[0] = list
    BY <1>1, <1>2
  <2>2. SubSeq(blocks, 1, 0) = <<>>
    BY SubSeqEmpty
  <2>3. touches \o SubSeq(blocks, 1, 0) = touches
    BY <2>2, ConcatEmptySeq
  <2>4. ToSet(SubSeq(blocks, 1, 0)) = {}
    BY <2>2 DEF ToSet
  <2>5. Len(list) >= Len(list)
    BY SequenceIs
  <2> QED
    BY <2>1, <2>3, <2>4, <2>5, Zenon
<1>4. ASSUME NEW n \in 1..Len(blocks), Good(n - 1) PROVE Good(n)
  <2> DEFINE begin == SubSeq(blocks, 1, n - 1)
             block == blocks[n]
             prior == after[n - 1]
             seen == touches \o begin
  <2>1. after[n] = Touch(prior, block)
    BY <1>1, <1>2
  <2>2. block \in B
    BY <1>1
  <2>3. begin \in Seq(B) /\ SubSeq(blocks, 1, n) = begin \o <<block>>
    <3>1. begin \in Seq(B)
      BY <1>1, SubSeqProperties
    <3>2. SubSeq(blocks, 1, n) = SubSeq(blocks, 1, n - 1) \o <<blocks[n]>>
      BY <1>1, SubSeqRecursiveSecond
    <3> QED
      BY <3>1, <3>2
  <2>4. prior \in Seq(B) /\ Recent(prior, seen) /\ Len(prior) >= Len(list)
        /\ ToSet(prior) = ToSet(list) \cup ToSet(begin)
    BY <1>4
  <2> HIDE DEF begin, block, prior, Good
  <2>5. seen \in Seq(B)
    BY <2>3, ConcatProperties
  <2> DEFINE last == <<block>>
  <2>6. last \in Seq(B) /\ ToSet(last) = {block}
    BY <2>2 DEF ToSet
  <2>7. /\ begin \o last = SubSeq(blocks, 1, n)
        /\ Append(seen, block) = seen \o last
    BY <2>2, <2>3, <2>5, AppendIsConcat
  <2> HIDE DEF last
  <2>8. touches \o SubSeq(blocks, 1, n) = Append(seen, block)
    <3>1. (touches \o begin) \o last = touches \o (begin \o last)
      <4>1. ASSUME NEW s \in Seq(B), NEW t \in Seq(B), NEW u \in Seq(B)
            PROVE  (s \o t) \o u = s \o (t \o u)
        BY ConcatAssociative, SMTT(30)
      <4> QED
        BY <2>3, <2>6, <4>1
    <3> QED
      BY <2>7, <3>1
  <2>9. ToSet(SubSeq(blocks, 1, n)) = ToSet(begin) \cup {block}
    <3>1. \A s, t \in Seq(B) : ToSet(s \o t) = ToSet(s) \cup ToSet(t)
      BY ToSetConcat
    <3>2. ToSet(begin \o last) = ToSet(begin) \cup ToSet(last)
      BY <2>3, <2>6, <3>1
    <3> QED
      BY <2>6, <2>7, <3>2
  <2> HIDE DEF seen
  <2>10. /\ Recent(Touch(prior, block), Append(seen, block))
         /\ ToSet(Touch(prior, block)) = ToSet(prior) \cup {block}
    BY <2>2, <2>4, <2>5, TouchRecent
  <2>11. Touch(prior, block) \in Seq(B) /\ Len(Touch(prior, block)) >= Len(prior)
    <3>1. Len(prior) \in Nat
      BY <2>4, SequenceIs
    <3>2. /\ Touch(prior, block) \in Seq(B)
          /\ Len(Touch(prior, block)) = Len(prior) + (IF block \in ToSet(prior) THEN 0 ELSE 1)
      BY <2>2, <2>4, TouchIs
    <3> QED
      BY <3>1, <3>2
  <2>12. Len(Touch(prior, block)) >= Len(list)
    <3>1. Len(prior) \in Nat /\ Len(list) \in Nat /\ Len(Touch(prior, block)) \in Nat
      BY <2>4, <2>11, SequenceIs
    <3> QED
      BY <2>4, <2>11, <3>1
  <2> QED
    BY <2>1, <2>4, <2>8, <2>9, <2>10, <2>11, <2>12 DEF Good
<1>5. Bad = {}
  <2>1. SUFFICES ASSUME Bad # {} PROVE FALSE
    OBVIOUS
  <2>2. PICK m \in Bad : \A n \in Bad : m <= n
    <3>1. Bad \in SUBSET Nat
      BY <1>1
    <3> HIDE DEF Bad
    <3> QED
      BY <2>1, <3>1, NatMinimum
  <2> HIDE DEF Good
  <2>3. m \in 1..Len(blocks)
    BY <1>1, <1>3
  <2>4. m - 1 \in 0..Len(blocks) /\ m - 1 \notin Bad
    BY <1>1, <2>2, <2>3
  <2>5. Good(m)
    BY <1>4, <2>3, <2>4
  <2> QED
    BY <2>5
<1>6. Good(Len(blocks))
  <2> HIDE DEF Good
  <2> QED
    BY <1>1, <1>5
<1>7. SubSeq(blocks, 1, Len(blocks)) = blocks
  BY SubSeqFull
<1> QED
  BY <1>2, <1>6, <1>7

\* What is left when blocks are evicted from the end.
LEMMA EvictRecent ==
    ASSUME NEW B, NEW list \in Seq(B), NEW touches \in Seq(B), NEW size \in 1..Len(list),
           Recent(list, touches)
    PROVE  LET kept == SubSeq(list, 1, size)
           IN  kept \in Seq(B) /\ Len(kept) = size /\ Recent(kept, touches)
<1> DEFINE kept == SubSeq(list, 1, size)
<1>1. /\ Len(list) \in Nat /\ DOMAIN list = 1..Len(list)
      /\ \A i \in 1..Len(list) : list[i] \in B /\ list[i] \in ToSet(list)
  BY SequenceIs
<1>2. /\ kept \in Seq(B) /\ Len(kept) = size /\ \A i \in 1..size : kept[i] = list[i]
  <2>1. /\ SubSeq(list, 1, size) \in Seq(B)
        /\ Len(SubSeq(list, 1, size)) = IF 1 <= size THEN size - 1 + 1 ELSE 0
        /\ \A i \in 1..(size - 1 + 1) : SubSeq(list, 1, size)[i] = list[1 + i - 1]
    BY <1>1, SubSeqProperties
  <2> QED
    BY <1>1, <2>1
<1>3. DOMAIN kept = 1..size
  BY <1>2, SequenceIs
<1> HIDE DEF kept
<1>4. ToSet(kept) \subseteq ToSet(touches)
  <2>1. ASSUME NEW x \in ToSet(kept) PROVE x \in ToSet(list)
    <3>1. PICK i \in DOMAIN kept : kept[i] = x
      BY DEF ToSet
    <3>2. i \in 1..Len(list) /\ list[i] = x
      BY <1>1, <1>2, <1>3, <3>1
    <3> QED
      BY <1>1, <3>2
  <2>2. ToSet(list) \subseteq ToSet(touches)
    BY DEF Recent
  <2> QED
    BY <2>1, <2>2
<1>5. ASSUME NEW i \in DOMAIN kept, NEW j \in DOMAIN kept, i < j
      PROVE  TouchedAfter(touches, kept[i], kept[j])
  <2>1. i \in DOMAIN list /\ j \in DOMAIN list /\ kept[i] = list[i] /\ kept[j] = list[j]
    BY <1>1, <1>2, <1>3
  <2> QED
    BY <1>5, <2>1 DEF Recent
<1>6. ASSUME NEW i \in DOMAIN kept, NEW other \in ToSet(touches) \ ToSet(kept)
      PROVE  TouchedAfter(touches, kept[i], other)
  <2>1. i \in DOMAIN list /\ kept[i] = list[i]
    BY <1>1, <1>2, <1>3
  <2>2. CASE other \in ToSet(list)
    <3>1. PICK j \in DOMAIN list : list[j] = other
      BY <2>2 DEF ToSet
    <3>2. j \notin DOMAIN kept
      BY <1>2, <1>3, <3>1 DEF ToSet
    <3>3. i < j
      BY <1>1, <1>3, <3>1, <3>2
    <3> QED
      BY <2>1, <3>1, <3>3 DEF Recent
  <2>3. CASE other \notin ToSet(list)
    BY <2>1, <2>3 DEF Recent
  <2> QED
    BY <2>2, <2>3
<1> QED
  BY <1>2, <1>4, <1>5, <1>6 DEF Recent, kept

\* Admitted keeps the blocks used last, as many as have room.
LEMMA AdmittedRecent ==
    ASSUME NEW B, NEW list \in Seq(B), NEW touches \in Seq(B), NEW size \in Int, NEW prompt,
           Blocks(prompt) \in Seq(B), Enters(prompt, size), Recent(list, touches)
    PROVE  LET now == Admitted(list, prompt, size)
           IN  /\ now \in Seq(B) /\ Recent(now, touches \o Blocks(prompt)) /\ Len(now) <= size
               /\ \/ Len(now) = size
                  \/ /\ ToSet(now) = ToSet(list) \cup ToSet(Blocks(prompt))
                     /\ Len(now) >= Len(list)
<1> DEFINE now == Admitted(list, prompt, size)
           touched == TouchAll(list, Blocks(prompt))
           next == touches \o Blocks(prompt)
<1>1. /\ touched \in Seq(B) /\ Recent(touched, next)
      /\ ToSet(touched) = ToSet(list) \cup ToSet(Blocks(prompt))
      /\ Len(touched) >= Len(list)
  BY TouchAllRecent
<1>2. size \in Nat /\ size > 0
  BY DEF Enters
<1>3. now = IF Len(touched) > size THEN SubSeq(touched, 1, size) ELSE touched
  BY DEF Admitted
<1>4. Len(touched) \in Nat
  BY <1>1, SequenceIs
<1>5. next \in Seq(B)
  BY ConcatProperties
<1> HIDE DEF now, touched, next
<1>6. CASE Len(touched) > size
  <2>1. size \in 1..Len(touched)
    BY <1>2, <1>4, <1>6
  <2>2. now \in Seq(B) /\ Len(now) = size /\ Recent(now, next)
    BY <1>1, <1>3, <1>5, <1>6, <2>1, EvictRecent
  <2> QED
    BY <1>2, <2>2 DEF now, next
<1>7. CASE ~(Len(touched) > size)
  BY <1>1, <1>2, <1>3, <1>4, <1>7 DEF now, next
<1> QED
  BY <1>6, <1>7

LEMMA BlocksAre ==
    ASSUME NEW P, NEW prompt \in Seq(P)
    PROVE  /\ DOMAIN prompt = 1..Len(prompt) /\ Len(prompt) \in Nat
           /\ \A i \in 1..Len(prompt) :
                 /\ Blocks(prompt)[i] = SubSeq(prompt, 1, i) /\ SubSeq(prompt, 1, i) \in Seq(P)
                 /\ Len(SubSeq(prompt, 1, i)) = i
           /\ Blocks(prompt) \in Seq(ToSet(Blocks(prompt)))
<1>1. /\ DOMAIN prompt = 1..Len(prompt) /\ Len(prompt) \in Nat
      /\ \A i \in 1..Len(prompt) : prompt[i] \in P
  BY SequenceIs
<1>2. /\ DOMAIN Blocks(prompt) = 1..Len(prompt)
      /\ \A i \in 1..Len(prompt) : Blocks(prompt)[i] = SubSeq(prompt, 1, i)
  BY <1>1 DEF Blocks
<1>3. ASSUME NEW i \in 1..Len(prompt)
      PROVE  SubSeq(prompt, 1, i) \in Seq(P) /\ Len(SubSeq(prompt, 1, i)) = i
  <2>1. \A j \in 1..i : prompt[j] \in P
    BY <1>1
  <2>2. /\ SubSeq(prompt, 1, i) \in Seq(P)
        /\ Len(SubSeq(prompt, 1, i)) = IF 1 <= i THEN i - 1 + 1 ELSE 0
    BY <2>1, SubSeqProperties
  <2> QED
    BY <1>1, <2>2
<1>4. Blocks(prompt) = [i \in 1..Len(prompt) |-> Blocks(prompt)[i]]
  BY <1>1 DEF Blocks
<1>5. Blocks(prompt) \in Seq(ToSet(Blocks(prompt)))
  BY <1>1, <1>2, <1>4, SeqDef DEF ToSet
<1> QED
  BY <1>1, <1>2, <1>3, <1>5

\* Estimate finds the longest beginning of a prompt that the mirror holds.
LEMMA MatchedIs ==
    ASSUME NEW P, NEW prompt \in Seq(P), NEW list
    PROVE  /\ Matched(list, prompt) \in 0..Len(prompt)
           /\ \A i \in 1..Matched(list, prompt) : Blocks(prompt)[i] \in ToSet(list)
<1> DEFINE Held == {n \in 0..Len(prompt) : \A i \in 1..n : Blocks(prompt)[i] \in ToSet(list)}
           Rest == {Len(prompt) - n : n \in Held}
<1>1. Len(prompt) \in Nat
  BY SequenceIs
<1>2. 0 \in Held /\ Held \subseteq 0..Len(prompt)
  BY <1>1
<1> HIDE DEF Held
<1>3. Rest \in SUBSET Nat /\ Rest # {}
  BY <1>1, <1>2
<1>4. PICK least \in Rest : \A m \in Rest : least <= m
  <2> HIDE DEF Rest
  <2> QED
    BY <1>3, NatMinimum
<1>5. PICK n \in Held : least = Len(prompt) - n
  OBVIOUS
<1>6. \A m \in Held : n >= m
  <2>1. ASSUME NEW m \in Held PROVE n >= m
    <3>1. Len(prompt) - n <= Len(prompt) - m
      BY <1>4, <1>5
    <3>2. m \in Int /\ n \in Int
      BY <1>1, <1>2
    <3> QED
      BY <1>1, <3>1, <3>2
  <2> QED
    BY <2>1
<1>7. Max(Held) \in Held
  BY <1>5, <1>6, Zenon DEF Max
<1>8. Matched(list, prompt) = Max(Held)
  BY DEF Matched, Held
<1> QED
  BY <1>2, <1>7, <1>8 DEF Held

-----------------------------------------------------------------------------
(* The budget and the buffers.                                             *)

\* The bytes of one request, and those of the others.
LEMMA LeaseChanges ==
    ASSUME TypeOK, NEW r \in Requests, NEW bytes \in 0..MaximumBodyBytes,
           lease' = [lease EXCEPT ![r] = bytes]
    PROVE  /\ Cardinality(Leased') = Cardinality(Leased) - lease[r] + bytes
           /\ Cardinality(Leased) \in Nat /\ lease[r] \in Nat /\ lease[r] <= Cardinality(Leased)
<1> DEFINE Others == {slot \in (Requests \ {r}) \X (1..MaximumBodyBytes) : slot[2] <= lease[slot[1]]}
           Own(n) == {r} \X (1..n)
<1>1. MaximumBodyBytes \in Nat /\ lease[r] \in 0..MaximumBodyBytes
  BY IntakeAssumption DEF TypeOK
<1>2. IsFiniteSet(Others)
  <2>1. IsFiniteSet(Requests \ {r}) /\ IsFiniteSet(1..MaximumBodyBytes)
    <3>1. IsFiniteSet(Requests)
      BY IntakeAssumption
    <3>2. IsFiniteSet(Requests \ {r})
      BY <3>1, FS_RemoveElement
    <3>3. IsFiniteSet(1..MaximumBodyBytes)
      BY <1>1, FS_Interval
    <3> QED
      BY <3>2, <3>3
  <2>2. IsFiniteSet((Requests \ {r}) \X (1..MaximumBodyBytes))
    BY <2>1, FS_Product
  <2>3. Others \in SUBSET ((Requests \ {r}) \X (1..MaximumBodyBytes))
    OBVIOUS
  <2> HIDE DEF Others
  <2> QED
    BY <2>2, <2>3, FS_Subset
<1>3. ASSUME NEW n \in 0..MaximumBodyBytes
      PROVE  IsFiniteSet(Own(n)) /\ Cardinality(Own(n)) = n
  <2>1. n \in Nat
    BY <1>1
  <2>2. IsFiniteSet({r}) /\ Cardinality({r}) = 1
    BY FS_Singleton
  <2>3. IsFiniteSet(1..n) /\ Cardinality(1..n) = IF 1 > n THEN 0 ELSE n - 1 + 1
    BY <2>1, FS_Interval
  <2>4. Cardinality(1..n) = n
    BY <2>1, <2>3
  <2>5. IsFiniteSet({r} \X (1..n)) /\ Cardinality({r} \X (1..n)) = Cardinality({r}) * Cardinality(1..n)
    BY <2>2, <2>3, FS_Product
  <2>6. Cardinality({r} \X (1..n)) = n
    BY <2>1, <2>2, <2>4, <2>5
  <2> QED
    BY <2>5, <2>6
<1>4. ASSUME NEW n \in 0..MaximumBodyBytes
      PROVE  Others \cap Own(n) = {} /\ Cardinality(Others \cup Own(n)) = Cardinality(Others) + n
  <2>1. Others \cap Own(n) = {}
    OBVIOUS
  <2>2. IsFiniteSet(Own(n)) /\ Cardinality(Own(n)) = n
    BY <1>3
  <2> HIDE DEF Others, Own
  <2>3. Cardinality(Others \cup Own(n)) = Cardinality(Others) + Cardinality(Own(n)) - Cardinality(Others \cap Own(n))
    BY <1>2, <2>2, FS_Union
  <2>4. Cardinality(Others \cap Own(n)) = 0
    BY <2>1, FS_EmptySet
  <2>5. Cardinality(Others) \in Nat
    BY <1>2, FS_CardinalityType
  <2> QED
    BY <1>1, <2>1, <2>2, <2>3, <2>4, <2>5
<1>5. Leased = Others \cup Own(lease[r])
  BY <1>1 DEF Leased
<1>6. Leased' = Others \cup Own(bytes)
  BY <1>1 DEF Leased, TypeOK
<1>7. Cardinality(Others) \in Nat
  BY <1>2, FS_CardinalityType
<1> HIDE DEF Others, Own
<1> QED
  BY <1>1, <1>4, <1>5, <1>6, <1>7

-----------------------------------------------------------------------------
(* The inductive invariant.                                                *)

\* Until its body is read nothing of a request is in the pool, or anyone's, and
\* until it is forwarded there is no upload; an open body has a buffer, as does one
\* that is read from one.
Unread == {"new", "reserving", "reading"}
Unsent == WithToken \cup {"new", "classified"}

Owned ==
    /\ \A r \in Requests :
          pc[r] \in Unread =>
             r \notin open /\ r \notin pool /\ \A s \in Requests : buffer[s] # r
    /\ \A r \in Requests : pc[r] \in {"new", "reserving"} => lease[r] = 0
    /\ \A r \in Requests :
          pc[r] \in Unsent => upload[r] = "idle"
    /\ \A r \in Requests : r \in open \/ source[r] \in {"buffer", "both"} => buffer[r] # None

USE DEF WithToken, Unread, Unsent

\* The blocks of the prompts that were proven.
ProvenBlocks == UNION {ToSet(Blocks(Prompt(q))) : q \in proven}

\* What the mirror has touched and what it holds are blocks of theirs.
MirrorProven ==
    /\ lru \in Seq(ProvenBlocks) /\ uses \in Seq(ProvenBlocks) /\ rooms \in Seq(Int)
    /\ \A r \in Requests : pc[r] \in {"learning", "recording"} => r \in proven

IInv ==
    /\ TypeOK /\ Owned /\ BudgetExact /\ BuffersExclusive
    /\ MirrorProven /\ NoSpeculativeHits /\ MirrorRecent

LEMMA InitInv ==
    Init => IInv
<1> SUFFICES ASSUME Init PROVE IInv
  OBVIOUS
<1>1. Cardinality({}) = 0 /\ IsFiniteSet({})
  BY FS_EmptySet
<1>2. TypeOK
  BY <1>1, IntakeAssumption DEF Init, TypeOK, Handler, Buffers
<1>3. Owned
  BY IntakeAssumption DEF Init, Owned
<1>4. BudgetExact
  <2>1. Leased = {}
    BY DEF Init, Leased
  <2> QED
    BY <1>1, <2>1, IntakeAssumption DEF Init, BudgetExact
<1>5. BuffersExclusive
  BY DEF Init, BuffersExclusive
<1>6. MirrorProven
  BY DEF Init, MirrorProven, ProvenBlocks
<1>7. NoSpeculativeHits
  BY DEF Init, NoSpeculativeHits
<1>8. MirrorRecent
  BY DEF Init, MirrorRecent, Recent, ToSet
<1> QED
  BY <1>2, <1>3, <1>4, <1>5, <1>6, <1>7, <1>8 DEF IInv

\* The first close of a body gives back what it holds, and any other nothing.
LEMMA CloseBodyGivesBack ==
    ASSUME IInv, NEW r \in Requests, CloseBody(r)
    PROVE  /\ lease' \in [Requests -> 0..MaximumBodyBytes] /\ lease'[r] = 0
           /\ \A q \in Requests : q # r => lease'[q] = lease[q]
           /\ reserved' = Cardinality(Leased') /\ reserved' \in 0..MaximumReservedBytes
           /\ open' = open \ {r} /\ UNCHANGED <<buffer, content, source>>
           /\ pool' \subseteq Buffers /\ Cardinality(pool') <= RetainedBuffers
           /\ pool' \subseteq pool \cup (IF r \in open THEN {buffer[r]} ELSE {})
<1>1. MaximumBodyBytes \in Nat /\ MaximumReservedBytes \in Nat /\ RetainedBuffers \in Nat
  BY IntakeAssumption
<1>2. lease' = [lease EXCEPT ![r] = 0] /\ lease \in [Requests -> 0..MaximumBodyBytes]
  BY DEF CloseBody, IInv, TypeOK
<1>3. /\ Cardinality(Leased') = Cardinality(Leased) - lease[r] + 0
      /\ Cardinality(Leased) \in Nat /\ lease[r] \in Nat /\ lease[r] <= Cardinality(Leased)
  <2>1. TypeOK /\ 0 \in 0..MaximumBodyBytes
    BY <1>1 DEF IInv
  <2> QED
    BY <1>2, <2>1, LeaseChanges
<1>4. reserved = Cardinality(Leased) /\ reserved \in 0..MaximumReservedBytes /\ reserved' = reserved - lease[r]
  BY DEF IInv, BudgetExact, CloseBody
<1>5. reserved' = Cardinality(Leased') /\ reserved' \in 0..MaximumReservedBytes
  BY <1>1, <1>3, <1>4
<1>6. /\ pool' \subseteq pool \cup (IF r \in open THEN {buffer[r]} ELSE {})
      /\ Cardinality(pool') <= RetainedBuffers /\ pool' \subseteq Buffers
  <2>1. pool \subseteq Buffers /\ Cardinality(pool) <= RetainedBuffers /\ IsFiniteSet(pool)
    <3>1. pool \subseteq Buffers /\ Cardinality(pool) <= RetainedBuffers
      BY DEF IInv, TypeOK
    <3>2. IsFiniteSet(Buffers)
      BY IntakeAssumption DEF Buffers
    <3> QED
      BY <3>1, <3>2, FS_Subset
  <2>2. CASE r \in open /\ Cardinality(pool) < RetainedBuffers
    <3>1. pool' = pool \cup {buffer[r]}
      BY <2>2 DEF CloseBody, Pooled
    <3>2. buffer[r] \in Buffers
      BY <2>2 DEF IInv, TypeOK, Owned
    <3>3. Cardinality(pool \cup {buffer[r]})
             = IF buffer[r] \in pool THEN Cardinality(pool) ELSE Cardinality(pool) + 1
      BY <2>1, FS_AddElement
    <3>4. Cardinality(pool) \in Nat
      BY <2>1, FS_CardinalityType
    <3> QED
      BY <1>1, <2>1, <2>2, <3>1, <3>2, <3>3, <3>4
  <2>3. CASE ~(r \in open /\ Cardinality(pool) < RetainedBuffers)
    BY <2>1, <2>3 DEF CloseBody, Pooled
  <2> QED
    BY <2>2, <2>3
<1> QED
  BY <1>1, <1>2, <1>5, <1>6 DEF CloseBody

\* The steps that take nothing of the classifier, and give back at most a token.
LEMMA StepElsewhere ==
    ASSUME IInv, NEW r \in Requests,
           \/ PassBody(r) \/ GiveTokenBack(r) \/ ScanBody(r) \/ Reject(r)
           \/ Forward(r) \/ Learn(r) \/ RecordPrompt(r)
    PROVE  TypeOK' /\ Owned' /\ BudgetExact' /\ BuffersExclusive'
<1>1. UNCHANGED <<body, reserved, lease, pool, buffer, open, content, sent>>
  BY DEF PassBody, GiveTokenBack, ScanBody, Reject, Forward, Learn, RecordPrompt,
         bodyVars, uploadVars, mirrorVars
<1>2. \E where \in Handler \ (WithToken \cup {"new", "returned"}) :
         /\ pc' = [pc EXCEPT ![r] = where]
         /\ pc[r] \notin {"reading", "returned"} /\ scanning' = scanning \ {r}
         /\ upload' \in {upload, [upload EXCEPT ![r] = "sending"]}
         /\ upload' # upload => where = "forwarding"
  <2>0. r \in scanning <=> pc[r] \in WithToken
    BY DEF IInv, TypeOK
  <2>1. CASE PassBody(r)
    BY <2>0, <2>1 DEF PassBody, Goto, Handler, uploadVars
  <2>2. CASE ScanBody(r)
    BY <2>0, <2>2 DEF ScanBody, Goto, Handler, uploadVars
  <2>3. CASE Reject(r)
    BY <2>0, <2>3 DEF Reject, Goto, Handler, uploadVars
  <2>4. CASE Forward(r)
    BY <2>0, <2>4 DEF Forward, Goto, Handler
  <2>5. CASE Learn(r)
    BY <2>0, <2>5 DEF Learn, Goto, Handler, uploadVars
  <2>6. CASE RecordPrompt(r)
    BY <2>0, <2>6 DEF RecordPrompt, Goto, Handler, uploadVars
  <2>7. CASE GiveTokenBack(r)
    BY <2>0, <2>7 DEF GiveTokenBack, Goto, Handler, uploadVars
  <2> QED
    BY <2>1, <2>2, <2>3, <2>4, <2>5, <2>6, <2>7
<1>3. PICK where \in Handler \ (WithToken \cup {"new", "returned"}) :
         /\ pc' = [pc EXCEPT ![r] = where]
         /\ pc[r] \notin {"reading", "returned"} /\ scanning' = scanning \ {r}
         /\ upload' \in {upload, [upload EXCEPT ![r] = "sending"]}
         /\ upload' # upload => where = "forwarding"
  BY <1>2
<1>4. matched' \in [Requests -> Nat]
  <2>1. matched \in [Requests -> Nat]
    BY DEF IInv, TypeOK
  <2>2. Matched(lru, Prompt(r)) \in Nat
    <3>1. Prompt(r) \in Seq(Parts)
      BY IntakeAssumption
    <3>2. Matched(lru, Prompt(r)) \in 0..Len(Prompt(r))
      BY <3>1, MatchedIs
    <3>3. Len(Prompt(r)) \in Nat
      BY <3>1, SequenceIs
    <3> QED
      BY <3>2, <3>3
  <2>3. matched' \in {matched, Estimate(r)}
    BY DEF PassBody, GiveTokenBack, ScanBody, Reject, Forward, Learn, RecordPrompt, mirrorVars
  <2> QED
    BY <2>1, <2>2, <2>3 DEF Estimate
<1>5. source' \in [Requests -> {"connection", "both", "buffer", "copy"}]
  <2>1. CASE Forward(r)
    <3>1. PICK s \in Sources(r) : source' = [source EXCEPT ![r] = s]
      BY <2>1 DEF Forward
    <3>2. s \in {"connection", "both", "buffer", "copy"}
      BY <3>1 DEF Sources, IInv, TypeOK
    <3> QED
      BY <3>1, <3>2 DEF IInv, TypeOK
  <2>2. CASE ~Forward(r)
    <3>1. source' = source
      BY <2>2 DEF PassBody, GiveTokenBack, ScanBody, Reject, Learn, RecordPrompt, bodyVars
    <3> QED
      BY <3>1 DEF IInv, TypeOK
  <2> QED
    BY <2>1, <2>2
<1>6. capacity' \in Capacities /\ known' \subseteq Requests /\ proven' \subseteq Requests
  BY DEF PassBody, GiveTokenBack, ScanBody, Reject, Forward, Learn, RecordPrompt,
         mirrorVars, IInv, TypeOK
<1>7. TypeOK'
  <2>1. pc \in [Requests -> Handler] /\ scanning = {q \in Requests : pc[q] \in WithToken}
        /\ upload \in [Requests -> {"idle", "sending", "ended"}]
    BY DEF IInv, TypeOK
  <2>2. pc' \in [Requests -> Handler] /\ upload' \in [Requests -> {"idle", "sending", "ended"}]
    BY <1>3, <2>1
  <2>3. scanning' = {q \in Requests : pc'[q] \in WithToken}
    BY <1>3, <2>1
  <2> QED
    BY <1>1, <1>4, <1>5, <1>6, <2>2, <2>3 DEF IInv, TypeOK
<1>8. Owned'
  <2>1. pc \in [Requests -> Handler] /\ upload \in [Requests -> {"idle", "sending", "ended"}]
    BY DEF IInv, TypeOK
  <2>2. ASSUME NEW q \in Requests, pc'[q] \in Unsent
        PROVE  upload'[q] = "idle" /\ (q # r => pc'[q] = pc[q])
    <3>1. CASE q = r
      <4>1. where = "classified" /\ upload' = upload
        BY <1>3, <2>1, <2>2, <3>1 DEF Handler
      <4>2. pc[r] \in {"new", "refused", "scanning"}
        BY <1>3, <2>1, <4>1 DEF PassBody, GiveTokenBack, ScanBody, Reject, Forward,
                                Learn, RecordPrompt, Goto
      <4> QED
        BY <3>1, <4>1, <4>2 DEF IInv, Owned
    <3>2. CASE q # r
      <4>1. pc'[q] = pc[q] /\ upload'[q] = upload[q]
        BY <1>3, <2>1, <3>2
      <4> QED
        BY <2>2, <4>1 DEF IInv, Owned
    <3> QED
      BY <3>1, <3>2
  <2>3. ASSUME NEW q \in Requests, pc'[q] \in Unread
        PROVE  pc[q] = pc'[q]
    BY <1>3, <2>1, <2>3
  <2>4. ASSUME NEW q \in Requests, q \in open' \/ source'[q] \in {"buffer", "both"}
        PROVE  buffer'[q] # None
    <3>1. source'[q] \in {"buffer", "both"} => source[q] \in {"buffer", "both"}
      <4>1. CASE Forward(r)
        <5>1. PICK s \in Sources(r) : source' = [source EXCEPT ![r] = s]
          BY <4>1 DEF Forward
        <5> QED
          BY <5>1 DEF Sources, IInv, TypeOK
      <4>2. CASE ~Forward(r)
        BY <4>2 DEF PassBody, GiveTokenBack, ScanBody, Reject, Learn, RecordPrompt, bodyVars
      <4> QED
        BY <4>1, <4>2
    <3> QED
      BY <1>1, <2>4, <3>1 DEF IInv, Owned
  <2> QED
    BY <1>1, <2>2, <2>3, <2>4 DEF IInv, Owned
<1>9. BudgetExact'
  <2>1. Leased' = Leased
    BY <1>1 DEF Leased
  <2>2. ASSUME NEW q \in Requests, pc'[q] = "returned"
        PROVE  pc[q] = "returned"
    BY <1>3, <2>2 DEF IInv, TypeOK
  <2> QED
    BY <1>1, <1>3, <2>1, <2>2 DEF IInv, BudgetExact
<1>10. BuffersExclusive'
  BY <1>1 DEF IInv, BuffersExclusive
<1> QED
  BY <1>7, <1>8, <1>9, <1>10

\* The reservation of a body never exceeds what a body may be.
LEMMA ReservationIs ==
    ASSUME NEW r \in Requests
    PROVE  Reservation(r) \in 0..MaximumBodyBytes
BY IntakeAssumption DEF Reservation

\* A token is taken before anything is reserved.
LEMMA StepAcquireToken ==
    ASSUME IInv, NEW r \in Requests, AcquireToken(r)
    PROVE  TypeOK' /\ Owned' /\ BudgetExact' /\ BuffersExclusive'
<1>1. /\ UNCHANGED <<body, reserved, lease, pool, buffer, open, content, source, upload, sent>>
      /\ UNCHANGED <<known, matched, capacity, proven>>
  BY DEF AcquireToken, bodyVars, uploadVars, mirrorVars
<1>2. /\ pc \in [Requests -> Handler] /\ pc[r] = "new"
      /\ scanning = {q \in Requests : pc[q] \in WithToken}
  BY DEF AcquireToken, IInv, TypeOK
<1>3. PICK where \in {"reserving", "classified"} :
         /\ pc' = [pc EXCEPT ![r] = where]
         /\ scanning' = IF where = "reserving" THEN scanning \cup {r} ELSE scanning
  BY DEF AcquireToken, Goto
<1>4. TypeOK'
  <2>1. pc' \in [Requests -> Handler]
    BY <1>2, <1>3 DEF Handler
  <2>2. scanning' = {q \in Requests : pc'[q] \in WithToken}
    BY <1>2, <1>3
  <2> QED
    BY <1>1, <2>1, <2>2 DEF IInv, TypeOK
<1>5. Owned'
  BY <1>1, <1>2, <1>3 DEF IInv, Owned
<1>6. BudgetExact'
  <2>1. Leased' = Leased
    BY <1>1 DEF Leased
  <2>2. \A q \in Requests : pc'[q] = "returned" => pc[q] = "returned" /\ q # r
    BY <1>2, <1>3
  <2> QED
    BY <1>1, <1>3, <2>1, <2>2 DEF IInv, BudgetExact
<1>7. BuffersExclusive'
  BY <1>1 DEF IInv, BuffersExclusive
<1> QED
  BY <1>4, <1>5, <1>6, <1>7

\* The bytes are reserved, or the token has to be given back.
LEMMA StepAcquireBytes ==
    ASSUME IInv, NEW r \in Requests, AcquireBytes(r)
    PROVE  TypeOK' /\ Owned' /\ BudgetExact' /\ BuffersExclusive'
<1>1. /\ UNCHANGED <<body, scanning, pool, buffer, open, content, source, upload, sent>>
      /\ UNCHANGED <<known, matched, capacity, proven>>
  BY DEF AcquireBytes, uploadVars, mirrorVars
<1>2. /\ pc \in [Requests -> Handler] /\ pc[r] = "reserving"
      /\ lease \in [Requests -> 0..MaximumBodyBytes]
      /\ scanning = {q \in Requests : pc[q] \in WithToken}
  BY DEF AcquireBytes, IInv, TypeOK
<1>3. CASE Fits(Reservation(r))
  <2>1. /\ reserved' = reserved + Reservation(r)
        /\ lease' = [lease EXCEPT ![r] = Reservation(r)] /\ pc' = [pc EXCEPT ![r] = "reading"]
    BY <1>3 DEF AcquireBytes, Goto
  <2>2. Reservation(r) \in 0..MaximumBodyBytes /\ MaximumBodyBytes \in Nat /\ MaximumReservedBytes \in Nat
    BY ReservationIs, IntakeAssumption
  <2>3. TypeOK'
    <3>1. pc' \in [Requests -> Handler] /\ lease' \in [Requests -> 0..MaximumBodyBytes]
      BY <1>2, <2>1, <2>2 DEF Handler
    <3>2. scanning' = {q \in Requests : pc'[q] \in WithToken}
      BY <1>1, <1>2, <2>1
    <3> QED
      BY <1>1, <3>1, <3>2 DEF IInv, TypeOK
  <2>4. Owned'
    BY <1>1, <1>2, <2>1 DEF IInv, Owned
  <2>5. BudgetExact'
    <3>1. Cardinality(Leased') = Cardinality(Leased) - lease[r] + Reservation(r)
      BY <2>1, <2>2, LeaseChanges DEF IInv
    <3>2. lease[r] = 0
      BY <1>2 DEF IInv, Owned
    <3>3. reserved = Cardinality(Leased) /\ reserved \in 0..MaximumReservedBytes
      BY DEF IInv, BudgetExact
    <3>4. reserved + Reservation(r) <= MaximumReservedBytes
      BY <1>3 DEF Fits
    <3>5. reserved' = Cardinality(Leased') /\ reserved' \in 0..MaximumReservedBytes
      BY <2>1, <2>2, <3>1, <3>2, <3>3, <3>4
    <3>6. ASSUME NEW q \in Requests, pc'[q] = "returned"
          PROVE  lease'[q] = 0 /\ q \notin open' \cup scanning'
      <4>1. q # r /\ pc[q] = "returned"
        BY <1>2, <2>1, <3>6
      <4>2. lease[q] = 0 /\ q \notin open \cup scanning
        BY <4>1 DEF IInv, BudgetExact
      <4> QED
        BY <1>1, <1>2, <2>1, <4>1, <4>2
    <3> QED
      BY <3>5, <3>6 DEF BudgetExact
  <2>6. BuffersExclusive'
    BY <1>1 DEF IInv, BuffersExclusive
  <2> QED
    BY <2>3, <2>4, <2>5, <2>6
<1>4. CASE ~Fits(Reservation(r))
  <2>1. UNCHANGED <<reserved, lease>> /\ pc' = [pc EXCEPT ![r] = "refused"]
    BY <1>4 DEF AcquireBytes, Goto
  <2>2. TypeOK'
    <3>1. pc' \in [Requests -> Handler]
      BY <1>2, <2>1 DEF Handler
    <3>2. scanning' = {q \in Requests : pc'[q] \in WithToken}
      BY <1>1, <1>2, <2>1
    <3> QED
      BY <1>1, <2>1, <3>1, <3>2 DEF IInv, TypeOK
  <2>3. Owned'
    BY <1>1, <1>2, <2>1 DEF IInv, Owned
  <2>4. BudgetExact'
    <3>1. Leased' = Leased
      BY <2>1 DEF Leased
    <3>2. \A q \in Requests : pc'[q] = "returned" => pc[q] = "returned"
      BY <1>2, <2>1
    <3> QED
      BY <1>1, <2>1, <3>1, <3>2 DEF IInv, BudgetExact
  <2>5. BuffersExclusive'
    BY <1>1 DEF IInv, BuffersExclusive
  <2> QED
    BY <2>2, <2>3, <2>4, <2>5
<1> QED
  BY <1>3, <1>4

\* A body is read into a buffer that no open body has.
LEMMA StepReadBody ==
    ASSUME IInv, NEW r \in Requests, ReadBody(r)
    PROVE  TypeOK' /\ Owned' /\ BudgetExact' /\ BuffersExclusive'
<1>1. /\ UNCHANGED <<body, reserved, lease, upload, sent>>
      /\ UNCHANGED <<known, matched, capacity, proven>>
  BY DEF ReadBody, uploadVars, mirrorVars
<1>2. /\ pc \in [Requests -> Handler] /\ pc[r] = "reading" /\ source \in [Requests -> {"connection", "both", "buffer", "copy"}]
      /\ scanning = {q \in Requests : pc[q] \in WithToken}
      /\ buffer \in [Requests -> Buffers \cup {None}] /\ content \in [Buffers -> Requests \cup {None}]
      /\ pool \subseteq Buffers /\ Cardinality(pool) <= RetainedBuffers /\ open \subseteq Requests
  BY DEF ReadBody, IInv, TypeOK
<1>3. PICK b \in FreeBuffers(r) :
         /\ pool' = pool \ {b} /\ buffer' = [buffer EXCEPT ![r] = b]
         /\ content' = [content EXCEPT ![b] = r]
  BY Zenon DEF ReadBody, Without
<1>4. PICK where \in {"scanning", "classified"} :
         /\ pc' = [pc EXCEPT ![r] = where]
         /\ scanning' = IF where = "scanning" THEN scanning ELSE scanning \ {r}
  BY DEF ReadBody, Goto
<1>5. open' = open \cup {r} /\ source' \in [Requests -> {"connection", "both", "buffer", "copy"}]
  BY <1>2 DEF ReadBody
<1>6. b \in Buffers /\ b # None /\ (b \in pool \/ b = r) /\ \A q \in Requests : q \in open => buffer[q] # b
  <2>1. b \in Buffers /\ (b \in pool \/ b = r)
    BY <1>2, <1>3 DEF FreeBuffers, Buffers
  <2>2. ASSUME NEW q \in Requests, q \in open PROVE buffer[q] # b
    BY <1>2, <2>1, <2>2 DEF IInv, Owned, BuffersExclusive
  <2> QED
    BY <2>1, <2>2, IntakeAssumption DEF Buffers
<1>7. TypeOK'
  <2>1. pc' \in [Requests -> Handler] /\ buffer' \in [Requests -> Buffers \cup {None}]
        /\ content' \in [Buffers -> Requests \cup {None}] /\ open' \subseteq Requests
    BY <1>2, <1>3, <1>4, <1>5, <1>6 DEF Handler
  <2>2. scanning' = {q \in Requests : pc'[q] \in WithToken}
    BY <1>2, <1>4
  <2>3. pool' \subseteq Buffers /\ Cardinality(pool') <= RetainedBuffers
    <3>1. IsFiniteSet(pool)
      <4>1. IsFiniteSet(Buffers)
        BY IntakeAssumption DEF Buffers
      <4> QED
        BY <1>2, <4>1, FS_Subset
    <3>2. Cardinality(pool') <= Cardinality(pool) /\ IsFiniteSet(pool')
      <4>1. pool' \in SUBSET pool
        BY <1>3
      <4> QED
        BY <3>1, <4>1, FS_Subset
    <3>3. Cardinality(pool) \in Nat /\ Cardinality(pool') \in Nat /\ RetainedBuffers \in Nat
      BY <3>1, <3>2, FS_CardinalityType, IntakeAssumption
    <3> QED
      BY <1>2, <1>3, <3>2, <3>3
  <2> QED
    BY <1>1, <1>5, <2>1, <2>2, <2>3 DEF IInv, TypeOK
<1>8. Owned'
  <2>1. ASSUME NEW q \in Requests, pc'[q] \in Unread
        PROVE  q # r /\ pc[q] = pc'[q]
    BY <1>2, <1>4, <2>1
  <2>2. ASSUME NEW q \in Requests, pc'[q] \in Unread
        PROVE  q \notin open' /\ q \notin pool' /\ \A s \in Requests : buffer'[s] # q
    <3>1. q \notin open /\ q \notin pool /\ \A s \in Requests : buffer[s] # q
      BY <2>1, <2>2 DEF IInv, Owned
    <3>2. b # q
      BY <1>6, <2>1, <2>2, <3>1
    <3> QED
      BY <1>2, <1>3, <1>5, <2>1, <2>2, <3>1, <3>2
  <2>3. \A q \in Requests : pc'[q] \in {"new", "reserving"} => lease'[q] = 0
    BY <1>1, <2>1 DEF IInv, Owned
  <2>4. \A q \in Requests :
           pc'[q] \in Unsent => upload'[q] = "idle"
    BY <1>1, <1>2, <1>4 DEF IInv, Owned
  <2>5. ASSUME NEW q \in Requests, q \in open' \/ source'[q] \in {"buffer", "both"}
        PROVE  buffer'[q] # None
    <3>1. CASE q = r
      BY <1>2, <1>3, <1>6, <3>1
    <3>2. CASE q # r
      <4>1. source'[q] = source[q] /\ buffer'[q] = buffer[q] /\ (q \in open' => q \in open)
        BY <1>2, <1>3, <1>5, <3>2 DEF ReadBody
      <4> QED
        BY <2>5, <4>1 DEF IInv, Owned
    <3> QED
      BY <3>1, <3>2
  <2> QED
    BY <2>2, <2>3, <2>4, <2>5 DEF Owned
<1>9. BudgetExact'
  <2>1. Leased' = Leased
    BY <1>1 DEF Leased
  <2>2. \A q \in Requests : pc'[q] = "returned" => pc[q] = "returned" /\ q # r
    BY <1>2, <1>4
  <2> QED
    BY <1>1, <1>4, <1>5, <2>1, <2>2 DEF IInv, BudgetExact
<1>10. BuffersExclusive'
  <2>1. buffer'[r] = b /\ content'[b] = r /\ r \notin open
    BY <1>2, <1>3, <1>6 DEF IInv, Owned
  <2>2. ASSUME NEW q \in open
        PROVE  /\ q # r /\ buffer'[q] = buffer[q] /\ buffer[q] # b
               /\ buffer[q] \notin pool' /\ content'[buffer[q]] = q
               /\ \A s \in open : buffer[s] = buffer[q] => s = q
    <3>1. q # r /\ buffer'[q] = buffer[q] /\ buffer[q] # b
      BY <1>2, <1>3, <1>6, <2>1
    <3>2. /\ buffer[q] \notin pool /\ content[buffer[q]] = q
          /\ \A s \in open : buffer[s] = buffer[q] => s = q
      BY DEF IInv, BuffersExclusive
    <3>3. buffer[q] \in Buffers
      BY <1>2 DEF IInv, Owned
    <3>4. content'[buffer[q]] = content[buffer[q]]
      BY <1>2, <1>3, <3>1, <3>3
    <3> QED
      BY <1>3, <3>1, <3>2, <3>4
  <2>3. ASSUME NEW q \in open'
        PROVE  /\ buffer'[q] \notin pool' /\ content'[buffer'[q]] = q
               /\ \A s \in open' : buffer'[s] = buffer'[q] => s = q
    <3>1. CASE q = r
      BY <1>3, <1>5, <2>1, <2>2, <3>1
    <3>2. CASE q \in open
      BY <1>5, <2>1, <2>2, <3>2
    <3> QED
      BY <1>5, <3>1, <3>2
  <2> QED
    BY <2>3 DEF BuffersExclusive
<1> QED
  BY <1>7, <1>8, <1>9, <1>10

\* The three that close a body: the proxy, the handler and the transport.
LEMMA StepClosing ==
    ASSUME IInv, NEW r \in Requests,
           (\E response \in {"usage", "other"} : Respond(r, response)) \/ Return(r) \/ Upload(r)
    PROVE  TypeOK' /\ Owned' /\ BudgetExact' /\ BuffersExclusive'
<1>1. CloseBody(r) /\ UNCHANGED <<body, scanning, known, matched, capacity>>
  BY DEF Respond, Return, Upload, uploadVars, mirrorVars
<1>2. /\ lease' \in [Requests -> 0..MaximumBodyBytes] /\ lease'[r] = 0
      /\ \A q \in Requests : q # r => lease'[q] = lease[q]
      /\ reserved' = Cardinality(Leased') /\ reserved' \in 0..MaximumReservedBytes
      /\ open' = open \ {r} /\ UNCHANGED <<buffer, content, source>>
      /\ pool' \subseteq Buffers /\ Cardinality(pool') <= RetainedBuffers
      /\ pool' \subseteq pool \cup (IF r \in open THEN {buffer[r]} ELSE {})
  BY <1>1, CloseBodyGivesBack
<1>3. /\ pc \in [Requests -> Handler] /\ upload \in [Requests -> {"idle", "sending", "ended"}]
      /\ scanning = {q \in Requests : pc[q] \in WithToken}
      /\ sent \in [Requests -> Requests \cup {None}] /\ proven \subseteq Requests
      /\ buffer \in [Requests -> Buffers \cup {None}] /\ content \in [Buffers -> Requests \cup {None}]
  BY DEF IInv, TypeOK
<1>4. \E where \in Handler \ Unsent :
         /\ pc' = [pc EXCEPT ![r] = where]
         /\ pc[r] \notin Unsent
  <2>1. CASE \E response \in {"usage", "other"} : Respond(r, response)
    BY <2>1 DEF Respond, Goto, Handler
  <2>2. CASE Return(r)
    BY <2>2 DEF Return, Goto, Handler
  <2>3. CASE Upload(r)
    <3>1. pc[r] \notin Unsent /\ pc' = pc
      BY <2>3 DEF Upload, IInv, Owned
    <3>2. pc' = [pc EXCEPT ![r] = pc[r]]
      BY <1>3, <3>1
    <3> QED
      BY <1>3, <3>1, <3>2
  <2> QED
    BY <2>1, <2>2, <2>3
<1>5. PICK where \in Handler \ Unsent :
         /\ pc' = [pc EXCEPT ![r] = where]
         /\ pc[r] \notin Unsent
  BY <1>4
<1>6. /\ upload' \in [Requests -> {"idle", "sending", "ended"}]
      /\ \A q \in Requests : q # r => upload'[q] = upload[q]
      /\ sent' \in [Requests -> Requests \cup {None}] /\ proven' \subseteq Requests
  <2>1. CASE (\E response \in {"usage", "other"} : Respond(r, response)) \/ Return(r)
    BY <1>3, <2>1 DEF Respond, Return, uploadVars, mirrorVars
  <2>2. CASE Upload(r)
    <3>1. Read(r) \in Requests \cup {None}
      <4>1. CASE source[r] \in {"buffer", "both"}
        <5>1. buffer[r] \in Buffers
          BY <1>3, <4>1 DEF IInv, Owned
        <5> QED
          BY <1>3, <4>1, <5>1 DEF Read
      <4>2. CASE source[r] \notin {"buffer", "both"}
        BY <4>2 DEF Read
      <4> QED
        BY <4>1, <4>2
    <3>2. /\ upload' = [upload EXCEPT ![r] = "ended"] /\ sent' = [sent EXCEPT ![r] = Read(r)]
          /\ proven' = proven
      BY <2>2 DEF Upload, mirrorVars
    <3> QED
      BY <1>3, <3>1, <3>2
  <2> QED
    BY <2>1, <2>2
<1>7. TypeOK'
  <2>1. pc' \in [Requests -> Handler]
    BY <1>3, <1>5
  <2>2. scanning' = {q \in Requests : pc'[q] \in WithToken}
    BY <1>1, <1>3, <1>5
  <2> QED
    BY <1>1, <1>2, <1>6, <2>1, <2>2 DEF IInv, TypeOK
<1>8. Owned'
  <2>1. ASSUME NEW q \in Requests, pc'[q] \in Unsent
        PROVE  q # r /\ pc[q] = pc'[q]
    BY <1>3, <1>5, <2>1
  <2>2. ASSUME NEW q \in Requests, pc'[q] \in Unread
        PROVE  q \notin open' /\ q \notin pool' /\ \A s \in Requests : buffer'[s] # q
    <3>1. q \notin open /\ q \notin pool /\ \A s \in Requests : buffer[s] # q
      BY <2>1, <2>2 DEF IInv, Owned
    <3> QED
      BY <1>2, <3>1
  <2> QED
    BY <1>2, <1>6, <2>1, <2>2 DEF IInv, Owned
<1>9. BudgetExact'
  <2>1. ASSUME NEW q \in Requests, pc'[q] = "returned"
        PROVE  lease'[q] = 0 /\ q \notin open' \cup scanning'
    <3>1. CASE q = r
      BY <1>1, <1>2, <1>3, <1>5, <3>1
    <3>2. CASE q # r
      BY <1>1, <1>2, <1>3, <1>5, <2>1, <3>2 DEF IInv, BudgetExact
    <3> QED
      BY <3>1, <3>2
  <2> QED
    BY <1>2, <2>1 DEF BudgetExact
<1>10. BuffersExclusive'
  <2>1. ASSUME NEW q \in open' PROVE buffer'[q] \notin pool'
    BY <1>2, <2>1 DEF IInv, BuffersExclusive
  <2> QED
    BY <1>2, <2>1 DEF IInv, BuffersExclusive
<1> QED
  BY <1>7, <1>8, <1>9, <1>10

-----------------------------------------------------------------------------
(* The mirror and the estimates.                                           *)

LEMMA SeqGrows ==
    ASSUME NEW B, NEW C, B \subseteq C, NEW list \in Seq(B)
    PROVE  list \in Seq(C)
<1>1. /\ Len(list) \in Nat /\ \A i \in 1..Len(list) : list[i] \in B
      /\ list = [i \in 1..Len(list) |-> list[i]]
  BY SequenceIs
<1>2. list \in [1..Len(list) -> C]
  BY <1>1
<1> QED
  BY <1>1, <1>2, SeqDef

\* What the mirror holds of a prompt was proven by another's response, or its own.
LEMMA MatchedIsProven ==
    ASSUME IInv, NEW r \in Requests, Matched(lru, Prompt(r)) > 0
    PROVE  \E q \in proven : IsPrefix(SubSeq(Prompt(r), 1, Matched(lru, Prompt(r))), Prompt(q))
<1> DEFINE n == Matched(lru, Prompt(r))
           start == SubSeq(Prompt(r), 1, n)
<1>1. Prompt(r) \in Seq(Parts)
  BY IntakeAssumption
<1>2. n \in 1..Len(Prompt(r)) /\ Len(Prompt(r)) \in Nat /\ Blocks(Prompt(r))[n] \in ToSet(lru)
  <2>1. n \in 0..Len(Prompt(r)) /\ \A i \in 1..n : Blocks(Prompt(r))[i] \in ToSet(lru)
    BY <1>1, MatchedIs
  <2>2. Len(Prompt(r)) \in Nat /\ n > 0
    BY <1>1, SequenceIs
  <2> HIDE DEF n
  <2> QED
    BY <2>1, <2>2
<1> HIDE DEF n
<1>3. Blocks(Prompt(r))[n] = start /\ start \in Seq(Parts) /\ Len(start) = n
  BY <1>1, <1>2, BlocksAre
<1>4. start \in ProvenBlocks
  <2>1. lru \in Seq(ProvenBlocks)
    BY DEF IInv, MirrorProven
  <2>2. ToSet(lru) \subseteq ProvenBlocks
    BY <2>1, SequenceIs
  <2> QED
    BY <1>2, <1>3, <2>2
<1>5. PICK q \in proven : start \in ToSet(Blocks(Prompt(q)))
  BY <1>4 DEF ProvenBlocks
<1>6. q \in Requests /\ Prompt(q) \in Seq(Parts)
  BY IntakeAssumption DEF IInv, TypeOK
<1>7. PICK i \in 1..Len(Prompt(q)) : start = SubSeq(Prompt(q), 1, i) /\ Len(SubSeq(Prompt(q), 1, i)) = i
  <2>1. PICK i \in DOMAIN Blocks(Prompt(q)) : Blocks(Prompt(q))[i] = start
    BY <1>5 DEF ToSet
  <2>2. i \in 1..Len(Prompt(q))
    BY <1>6, <2>1, BlocksAre DEF Blocks
  <2> QED
    BY <1>6, <2>1, <2>2, BlocksAre
<1>8. i = n /\ Len(start) <= Len(Prompt(q))
  <2>1. Len(Prompt(q)) \in Nat
    BY <1>6, SequenceIs
  <2> QED
    BY <1>3, <1>7, <2>1
<1>9. SubSeq(start, 1, Len(start)) = start
  BY <1>3, SubSeqFull
<1> HIDE DEF start
<1>10. IsPrefix(start, Prompt(q))
  BY <1>3, <1>7, <1>8, <1>9 DEF IsPrefix
<1> QED
  BY <1>10 DEF start, n

\* Every step but that of Admitted leaves the mirror as it is.
LEMMA StepMirrorKept ==
    ASSUME IInv, NEW r \in Requests,
           \/ PassBody(r) \/ AcquireToken(r) \/ AcquireBytes(r) \/ GiveTokenBack(r)
           \/ ReadBody(r) \/ ScanBody(r) \/ Reject(r) \/ Forward(r)
           \/ \E response \in {"usage", "other"} : Respond(r, response)
           \/ Learn(r) \/ Return(r) \/ Upload(r)
    PROVE  MirrorProven' /\ NoSpeculativeHits' /\ MirrorRecent'
<1>1. UNCHANGED <<lru, uses, rooms>>
  BY DEF PassBody, AcquireToken, AcquireBytes, GiveTokenBack, ReadBody, ScanBody,
         Reject, Forward, Respond, Learn, Return, Upload,
         mirrorVars
<1>2. proven \subseteq proven'
  BY DEF PassBody, AcquireToken, AcquireBytes, GiveTokenBack, ReadBody, ScanBody,
         Reject, Forward, Respond, Learn, Return, Upload,
         mirrorVars
<1>3. pc \in [Requests -> Handler]
  BY DEF IInv, TypeOK
<1>4. MirrorProven'
  <2>1. ProvenBlocks \subseteq ProvenBlocks'
    BY <1>2 DEF ProvenBlocks
  <2>2. lru' \in Seq(ProvenBlocks') /\ uses' \in Seq(ProvenBlocks') /\ rooms' \in Seq(Int)
    <3>1. lru \in Seq(ProvenBlocks) /\ uses \in Seq(ProvenBlocks) /\ rooms \in Seq(Int)
      BY DEF IInv, MirrorProven
    <3>2. lru \in Seq(ProvenBlocks') /\ uses \in Seq(ProvenBlocks')
      BY <2>1, <3>1, SeqGrows
    <3> QED
      BY <1>1, <3>1, <3>2
  <2>3. ASSUME NEW q \in Requests, pc'[q] \in {"learning", "recording"}
        PROVE  q \in proven'
    <3>1. CASE pc[q] \in {"learning", "recording"}
      BY <1>2, <3>1 DEF IInv, MirrorProven
    <3>2. CASE pc[q] \notin {"learning", "recording"}
      <4>1. PICK response \in {"usage", "other"} : Respond(r, response)
        BY <1>3, <2>3, <3>2
          DEF PassBody, AcquireToken, AcquireBytes, GiveTokenBack, ReadBody, ScanBody,
              Reject, Forward, Learn, Return, Upload, Goto
      <4>2. q = r /\ LearnsFrom(response) /\ r \in known
        BY <1>3, <2>3, <3>2, <4>1 DEF Respond, Goto
      <4> QED
        BY <4>1, <4>2 DEF Respond, LearnsFrom
    <3> QED
      BY <3>1, <3>2
  <2> QED
    BY <2>2, <2>3 DEF MirrorProven
<1>5. NoSpeculativeHits'
  <2>1. \A q \in Requests : matched[q] > 0 =>
           \E p \in proven' : IsPrefix(SubSeq(Prompt(q), 1, matched[q]), Prompt(p))
    BY <1>2 DEF IInv, NoSpeculativeHits
  <2>2. CASE matched' = matched
    BY <2>1, <2>2 DEF NoSpeculativeHits
  <2>3. CASE matched' # matched
    <3>1. matched' = [matched EXCEPT ![r] = Matched(lru, Prompt(r))] /\ proven' = proven
      BY <2>3 DEF PassBody, AcquireToken, AcquireBytes, GiveTokenBack, ReadBody,
                  ScanBody, Reject, Forward, Respond, Learn, Return,
                  Upload, mirrorVars, Estimate
    <3>2. ASSUME NEW q \in Requests, matched'[q] > 0
          PROVE  \E p \in proven' : IsPrefix(SubSeq(Prompt(q), 1, matched'[q]), Prompt(p))
      <4>1. CASE q = r
        <5>1. matched'[q] = Matched(lru, Prompt(r))
          BY <3>1, <4>1 DEF IInv, TypeOK
        <5> QED
          BY <3>1, <3>2, <4>1, <5>1, MatchedIsProven
      <4>2. CASE q # r
        <5>1. matched'[q] = matched[q]
          BY <3>1, <4>2 DEF IInv, TypeOK
        <5> QED
          BY <2>1, <3>2, <5>1
      <4> QED
        BY <4>1, <4>2
    <3> QED
      BY <3>2 DEF NoSpeculativeHits
  <2> QED
    BY <2>2, <2>3
<1>6. MirrorRecent'
  BY <1>1 DEF IInv, MirrorRecent, Recent, TouchedAfter
<1> QED
  BY <1>4, <1>5, <1>6

\* Admitted.
LEMMA StepRecordPrompt ==
    ASSUME IInv, NEW r \in Requests, RecordPrompt(r)
    PROVE  MirrorProven' /\ NoSpeculativeHits' /\ MirrorRecent'
<1> DEFINE prompt == Prompt(r)
<1>1. /\ pc[r] = "recording" /\ pc' = [pc EXCEPT ![r] = "closing"]
      /\ lru' = Admitted(lru, prompt, capacity)
      /\ UNCHANGED <<matched, capacity, proven>>
  BY DEF RecordPrompt, Goto
<1>2. pc \in [Requests -> Handler] /\ capacity \in Int
  BY IntakeAssumption DEF IInv, TypeOK
<1>3. lru \in Seq(ProvenBlocks) /\ uses \in Seq(ProvenBlocks) /\ rooms \in Seq(Int)
  BY DEF IInv, MirrorProven
<1>4. Blocks(prompt) \in Seq(ProvenBlocks)
  <2>1. r \in proven
    BY <1>1 DEF IInv, MirrorProven
  <2>2. ToSet(Blocks(prompt)) \subseteq ProvenBlocks
    BY <2>1 DEF ProvenBlocks
  <2>3. Blocks(prompt) \in Seq(ToSet(Blocks(prompt)))
    BY IntakeAssumption, BlocksAre
  <2> QED
    BY <2>2, <2>3, SeqGrows
<1>5. ProvenBlocks' = ProvenBlocks
  BY <1>1 DEF ProvenBlocks
<1>6. \A q \in Requests : pc'[q] \in {"learning", "recording"} => q \in proven'
  BY <1>1, <1>2 DEF IInv, MirrorProven
<1>7. NoSpeculativeHits'
  BY <1>1 DEF IInv, NoSpeculativeHits
<1>8. CASE ~Enters(prompt, capacity)
  <2>1. lru' = lru /\ uses' = uses /\ rooms' = rooms
    BY <1>1, <1>8 DEF RecordPrompt, Admitted
  <2>2. MirrorRecent'
    BY <2>1 DEF IInv, MirrorRecent, Recent, TouchedAfter
  <2> QED
    BY <1>3, <1>5, <1>6, <1>7, <2>1, <2>2 DEF MirrorProven
<1>9. CASE Enters(prompt, capacity)
  <2>1. uses' = uses \o Blocks(prompt) /\ rooms' = Append(rooms, capacity)
    BY <1>9 DEF RecordPrompt
  <2>2. Recent(lru, uses)
    BY DEF IInv, MirrorRecent
  <2>3. /\ lru' \in Seq(ProvenBlocks) /\ Recent(lru', uses') /\ Len(lru') <= capacity
        /\ \/ Len(lru') = capacity
           \/ ToSet(lru') = ToSet(lru) \cup ToSet(Blocks(prompt)) /\ Len(lru') >= Len(lru)
    <3> HIDE DEF prompt
    <3> QED
      BY <1>1, <1>2, <1>3, <1>4, <1>9, <2>1, <2>2, AdmittedRecent
  <2>4. uses' \in Seq(ProvenBlocks) /\ ToSet(uses') = ToSet(uses) \cup ToSet(Blocks(prompt))
    BY <1>3, <1>4, <2>1, ConcatProperties, ToSetConcat
  <2>5. /\ rooms' \in Seq(Int) /\ Len(rooms') = Len(rooms) + 1 /\ Len(rooms) \in Nat
        /\ rooms' # <<>> /\ rooms'[Len(rooms')] = capacity
        /\ \A i \in 1..Len(rooms) : rooms[i] \in Int /\ rooms'[i] = rooms[i]
    <3>1. Len(rooms) \in Nat /\ \A i \in 1..Len(rooms) : rooms[i] \in Int
      BY <1>3, SequenceIs
    <3>2. /\ rooms' \in Seq(Int) /\ Len(rooms') = Len(rooms) + 1
          /\ \A i \in 1..Len(rooms) : rooms'[i] = rooms[i]
          /\ rooms'[Len(rooms) + 1] = capacity
      BY <1>2, <1>3, <2>1, AppendProperties
    <3>3. rooms' # <<>>
      BY <3>1, <3>2
    <3> QED
      BY <3>1, <3>2, <3>3
  <2>6. DOMAIN rooms = 1..Len(rooms) /\ DOMAIN rooms' = 1..Len(rooms')
    BY <1>3, <2>5, SequenceIs
  <2>7. ToSet(uses') \subseteq ToSet(lru') \/ \E i \in DOMAIN rooms' : Len(lru') >= rooms'[i]
    <3>1. Len(lru) \in Nat /\ Len(lru') \in Nat
      BY <1>3, <2>3, SequenceIs
    <3>2. CASE Len(lru') = capacity
      <4>1. Len(rooms') \in DOMAIN rooms' /\ Len(lru') >= rooms'[Len(rooms')]
        BY <1>2, <2>5, <2>6, <3>2
      <4> QED
        BY <4>1
    <3>3. CASE ToSet(lru') = ToSet(lru) \cup ToSet(Blocks(prompt)) /\ Len(lru') >= Len(lru)
      <4>1. CASE ToSet(uses) \subseteq ToSet(lru)
        BY <2>4, <3>3, <4>1
      <4>2. CASE \E i \in DOMAIN rooms : Len(lru) >= rooms[i]
        <5>1. PICK i \in DOMAIN rooms : Len(lru) >= rooms[i]
          BY <4>2
        <5>2. i \in DOMAIN rooms' /\ Len(lru') >= rooms'[i]
          BY <2>5, <2>6, <3>1, <3>3, <5>1
        <5> QED
          BY <5>2
      <4> QED
        BY <4>1, <4>2 DEF IInv, MirrorRecent
    <3> QED
      BY <2>3, <3>2, <3>3
  <2>8. MirrorRecent'
    BY <2>3, <2>5, <2>7 DEF MirrorRecent
  <2> QED
    BY <1>5, <1>6, <1>7, <2>3, <2>4, <2>5, <2>8 DEF MirrorProven
<1> QED
  BY <1>8, <1>9

-----------------------------------------------------------------------------
(* The theorems.                                                           *)

LEMMA NextInv ==
    IInv /\ [Next]_vars => IInv'
<1> SUFFICES ASSUME IInv, [Next]_vars PROVE IInv'
  OBVIOUS
<1>1. CASE UNCHANGED vars
  <2>1. UNCHANGED <<body, pc, scanning, reserved, lease, pool, buffer, open, content, source, upload,
                    sent, known, matched, lru, capacity, uses, rooms, proven>>
    BY <1>1 DEF vars, bodyVars, uploadVars, mirrorVars
  <2> QED
    BY <2>1 DEF IInv, TypeOK, Owned, BudgetExact, Leased, BuffersExclusive, MirrorProven, ProvenBlocks,
                NoSpeculativeHits, MirrorRecent, Recent, TouchedAfter
<1>2. ASSUME NEW r \in Requests, RecordPrompt(r)
      PROVE  IInv'
  BY <1>2, StepElsewhere, StepRecordPrompt DEF IInv
<1>3. ASSUME NEW r \in Requests,
             PassBody(r) \/ GiveTokenBack(r) \/ ScanBody(r) \/ Reject(r) \/ Forward(r) \/ Learn(r)
      PROVE  IInv'
  BY <1>3, StepElsewhere, StepMirrorKept DEF IInv
<1>4. ASSUME NEW r \in Requests, AcquireToken(r) \/ AcquireBytes(r)
      PROVE  IInv'
  BY <1>4, StepAcquireToken, StepAcquireBytes, StepMirrorKept DEF IInv
<1>5. ASSUME NEW r \in Requests, ReadBody(r)
      PROVE  IInv'
  BY <1>5, StepReadBody, StepMirrorKept DEF IInv
<1>6. ASSUME NEW r \in Requests,
             (\E response \in {"usage", "other"} : Respond(r, response)) \/ Return(r) \/ Upload(r)
      PROVE  IInv'
  BY <1>6, StepClosing, StepMirrorKept DEF IInv
<1> QED
  BY <1>1, <1>2, <1>3, <1>4, <1>5, <1>6 DEF Next

LEMMA Invariant ==
    Spec => []IInv
BY InitInv, NextInv, PTL DEF Spec

\* Every reserved byte belongs to one body, whose first close gives it back, and a
\* buffer to one open body, which reads from it what its client sent (acquire,
\* preserveBody, preservingReadCloser.Close).
THEOREM BodiesAreOwned ==
    Spec => []BodiesOwned
<1>1. IInv => BodiesOwned
  BY DEF IInv, BodiesOwned
<1> QED
  BY <1>1, Invariant, PTL

\* No prompt is taken for cached before a response has shown that the backend
\* computed it (promptCostEstimator.Estimate, responseUsageRequestEvidence.Complete).
THEOREM HitsAreProven ==
    Spec => []NoSpeculativeHits
<1>1. IInv => NoSpeculativeHits
  BY DEF IInv
<1> QED
  BY <1>1, Invariant, PTL

\* The mirror evicts what was used longest ago, and only what has no room
\* (promptCostEstimator.Admitted).
THEOREM MirrorIsRecent ==
    Spec => []MirrorRecent
<1>1. IInv => MirrorRecent
  BY DEF IInv
<1> QED
  BY <1>1, Invariant, PTL
=============================================================================
