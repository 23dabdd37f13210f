------------------------ MODULE PriorityQueueProofs ------------------------
(***************************************************************************)
(* The safety of the admission queue, for any requests, tiers and limits.  *)
(* The inductive invariant says who is where: a call that has joined is    *)
(* kept, once, in the queue or by the worker, until it has its answer      *)
(* (Kept, Distinct, Pending), a reservation belongs to an admitted call or *)
(* to the worker (Owned), and shutdown goes in one direction (Closing). On *)
(* it rest that the queue implements AdmissionService, step by step, and   *)
(* the order in which the worker takes calls.                              *)
(***************************************************************************)
EXTENDS PriorityQueue, WellFoundedInduction, SequenceTheorems, TLAPS

Holds(s, x) == \E i \in DOMAIN s : s[i] = x

InQueue(r) == Holds(queue, r)

\* A call that has joined and has no answer yet is in the queue or with the worker.
Kept ==
    \A r \in Requests :
        caller[r] \in {"signalling", "waiting"} /\ result[r] = "none" => InQueue(r) \/ item = r

\* In one place of it, or with the worker.
Distinct ==
    /\ IsInjective(queue)
    /\ ~InQueue(item)

\* What is there has joined and is not answered; nor is who has not joined.
Pending ==
    /\ \A r \in Requests : InQueue(r) \/ item = r =>
          caller[r] \in {"signalling", "waiting"} /\ result[r] = "none"
    /\ \A r \in Requests : caller[r] \in {"idle", "entering"} => result[r] = "none"

\* A reservation is a call's that was told so, or the worker's that has yet to tell.
Owned ==
    /\ \A r \in reserved : result[r] = "admitted" \/ (r = item /\ worker = "decided")
    /\ worker = "decided" =>
          /\ decision \in {"admitted", "protected"}
          /\ decision = "admitted" <=> item \in reserved

\* The worker ends only when nobody can join, with an empty queue; the delegate
\* is closed only after it has, and no reservation outlives that.
Closing ==
    /\ closeCh \/ worker \in {"drain", "done"} \/ closer # "idle" => closed
    /\ worker = "done" => queue = <<>>
    /\ delegateOpen <=> closer # "returned"
    /\ closer = "returned" => worker = "done" /\ reserved = {}

IInv == TypeOK /\ Kept /\ Distinct /\ Pending /\ Owned /\ Closing

-----------------------------------------------------------------------------
(* The choice of the worker.                                               *)

LEMMA NatMinimum ==
    ASSUME NEW S \in SUBSET Nat, S # {}
    PROVE  \E n \in S : \A m \in S : n <= m
<1> DEFINE R == {ss \in Nat \X Nat : ss[1] < ss[2]}
<1>1. IsWellFoundedOn(R, Nat)
  BY NatLessThanWellFounded, Zenon DEF OpToRel
<1>2. PICK n \in S : \A m \in S : <<m, n>> \notin R
  <2> HIDE DEF R
  <2> QED
    BY <1>1, WFMin
<1>3. ASSUME NEW m \in S, m < n PROVE FALSE
  <2>1. <<m, n>> \in Nat \X Nat /\ <<m, n>>[1] < <<m, n>>[2]
    BY <1>3
  <2>2. <<m, n>> \in R
    BY <2>1, Zenon
  <2>3. QED
    BY <1>2, <2>2, Zenon
<1>4. QED
  BY <1>3

LEMMA Places ==
    ASSUME TypeOK
    PROVE  /\ Len(queue) \in Nat /\ DOMAIN queue = 1..Len(queue)
           /\ \A i \in DOMAIN queue : queue[i] \in Requests
           /\ queue # <<>> => Len(queue) > 0
BY LenProperties, EmptySeq DEF TypeOK

\* Whether i goes before j.
Before(i, j) ==
    \/ enqueuedAt[queue[i]] < enqueuedAt[queue[j]]
    \/ enqueuedAt[queue[i]] = enqueuedAt[queue[j]] /\ i <= j

\* chooseIndex finds one, whenever there is one to find.
LEMMA EarliestIs ==
    ASSUME TypeOK, NEW places \in SUBSET DOMAIN queue, places # {}
    PROVE  /\ Earliest(places) \in places
           /\ \A j \in places : Before(Earliest(places), j)
<1> DEFINE Times == {enqueuedAt[queue[i]] : i \in places}
<1>1. \A i \in places : i \in Nat /\ enqueuedAt[queue[i]] \in Nat
  BY Places DEF TypeOK
<1>2. Times \in SUBSET Nat /\ Times # {}
  BY <1>1
<1>3. PICK time \in Times : \A other \in Times : time <= other
  <2> HIDE DEF Times
  <2> QED
    BY <1>2, NatMinimum
<1> DEFINE First == {i \in places : enqueuedAt[queue[i]] = time}
<1>4. First \in SUBSET Nat /\ First # {}
  BY <1>1
<1>5. PICK i \in First : \A j \in First : i <= j
  <2> HIDE DEF First
  <2> QED
    BY <1>4, NatMinimum
<1>6. i \in places /\ \A j \in places : Before(i, j)
  <2>1. ASSUME NEW j \in places PROVE Before(i, j)
    <3>1. time <= enqueuedAt[queue[j]] /\ enqueuedAt[queue[i]] = time
      BY <1>3, <1>5
    <3>2. CASE j \in First
      BY <3>1, <3>2, <1>5 DEF Before
    <3>3. CASE j \notin First
      BY <3>1, <3>3, <1>1, <1>3 DEF Before
    <3>4. QED
      BY <3>2, <3>3
  <2>2. QED
    BY <2>1
<1>7. QED
  BY <1>6, Zenon DEF Earliest, Before

LEMMA HighestIs ==
    ASSUME TypeOK, queue # <<>>
    PROVE  Highest # {}
<1> DEFINE Of(rank) == {i \in DOMAIN queue : Rank(Tier[queue[i]]) = rank}
<1>1. \A i \in DOMAIN queue : Rank(Tier[queue[i]]) \in {0, 1, 2}
  BY DEF Rank
<1>2. DOMAIN queue # {}
  BY Places
<1>3. CASE Of(2) # {}
  BY <1>1, <1>3 DEF Highest
<1>4. CASE Of(2) = {} /\ Of(1) # {}
  BY <1>1, <1>4 DEF Highest
<1>5. CASE Of(2) = {} /\ Of(1) = {}
  BY <1>1, <1>2, <1>5 DEF Highest
<1>6. QED
  BY <1>3, <1>4, <1>5

\* The places the worker chooses from.
Candidates == IF Expired # {} THEN Expired ELSE IF Aged # {} THEN Aged ELSE Highest

LEMMA ChosenIs ==
    ASSUME TypeOK, queue # <<>>
    PROVE  /\ Chosen \in DOMAIN queue /\ Chosen \in Candidates
           /\ \A j \in Candidates : Before(Chosen, j)
<1>1. Candidates \in SUBSET DOMAIN queue /\ Candidates # {}
  BY HighestIs DEF Candidates, Expired, Aged, Highest
<1>2. Chosen = Earliest(Candidates)
  BY DEF Chosen, Candidates
<1>3. QED
  BY <1>1, <1>2, EarliestIs

LEMMA Removal ==
    ASSUME NEW S, NEW s \in Seq(S), NEW i \in 1..Len(s)
    PROVE  /\ RemoveAt(s, i) \in Seq(S)
           /\ Len(RemoveAt(s, i)) = Len(s) - 1
           /\ \A j \in 1..(Len(s) - 1) : RemoveAt(s, i)[j] = IF j < i THEN s[j] ELSE s[j + 1]
<1> DEFINE front == SubSeq(s, 1, i - 1)
           back  == SubSeq(s, i + 1, Len(s))
<1>1. Len(s) \in Nat /\ \A j \in 1..Len(s) : s[j] \in S
  BY LenProperties
<1>2. /\ front \in Seq(S) /\ Len(front) = i - 1
      /\ \A j \in 1..(i - 1) : front[j] = s[j]
  BY <1>1, SubSeqProperties
<1>3. /\ back \in Seq(S) /\ Len(back) = Len(s) - i
      /\ \A j \in 1..(Len(s) - i) : back[j] = s[i + j]
  BY <1>1, SubSeqProperties
<1>4. RemoveAt(s, i) = front \o back
  BY DEF RemoveAt
<1> HIDE DEF front, back
<1>5. /\ front \o back \in Seq(S) /\ Len(front \o back) = Len(s) - 1
      /\ \A j \in 1..(Len(s) - 1) :
            (front \o back)[j] = IF j <= i - 1 THEN front[j] ELSE back[j - (i - 1)]
  <2>1. /\ front \o back \in Seq(S) /\ Len(front \o back) = Len(front) + Len(back)
        /\ \A j \in 1..Len(front) + Len(back) :
              (front \o back)[j] = IF j <= Len(front) THEN front[j] ELSE back[j - Len(front)]
    BY <1>2, <1>3, ConcatProperties, Zenon
  <2>2. Len(front) + Len(back) = Len(s) - 1
    BY <1>1, <1>2, <1>3
  <2>3. QED
    BY <2>1, <2>2, <1>2, Zenon
<1>6. ASSUME NEW j \in 1..(Len(s) - 1)
      PROVE  (front \o back)[j] = IF j < i THEN s[j] ELSE s[j + 1]
  <2>1. CASE j < i
    BY <1>1, <1>2, <1>5, <2>1
  <2>2. CASE ~(j < i)
    <3>1. j - (i - 1) \in 1..(Len(s) - i) /\ i + (j - (i - 1)) = j + 1
      BY <1>1, <2>2
    <3>2. QED
      BY <1>3, <1>5, <2>2, <3>1
  <2>3. QED
    BY <2>1, <2>2
<1>7. QED
  BY <1>4, <1>5, <1>6

-----------------------------------------------------------------------------
(* What a sequence holds after a call has joined it or left it.            *)

LEMMA Joining ==
    ASSUME NEW S, NEW s \in Seq(S), NEW x \in S
    PROVE  /\ \A y : Holds(Append(s, x), y) <=> Holds(s, y) \/ y = x
           /\ IsInjective(s) /\ ~Holds(s, x) => IsInjective(Append(s, x))
<1> DEFINE t == Append(s, x)
<1>1. Len(s) \in Nat /\ DOMAIN s = 1..Len(s)
  BY LenProperties
<1>2. /\ DOMAIN t = 1..(Len(s) + 1)
      /\ \A i \in 1..Len(s) : t[i] = s[i]
      /\ t[Len(s) + 1] = x
  BY <1>1, AppendProperties, LenProperties
<1> HIDE DEF t
<1>3. \A i \in DOMAIN t : i \in DOMAIN s \/ i = Len(s) + 1
  BY <1>1, <1>2
<1>4. \A i \in DOMAIN s : i \in DOMAIN t /\ i # Len(s) + 1
  BY <1>1, <1>2
<1>5. Len(s) + 1 \in DOMAIN t
  BY <1>1, <1>2
<1>6. ASSUME NEW y PROVE Holds(t, y) <=> Holds(s, y) \/ y = x
  BY <1>1, <1>2, <1>3, <1>4, <1>5, Zenon DEF Holds
<1>7. ASSUME IsInjective(s), ~Holds(s, x) PROVE IsInjective(t)
  BY <1>1, <1>2, <1>3, <1>4, <1>7, Zenon DEF IsInjective, Holds
<1>8. QED
  BY <1>6, <1>7 DEF t

LEMMA Leaving ==
    ASSUME NEW S, NEW s \in Seq(S), NEW i \in 1..Len(s)
    PROVE  /\ \A y : Holds(RemoveAt(s, i), y) => Holds(s, y)
           /\ \A y : Holds(s, y) => Holds(RemoveAt(s, i), y) \/ y = s[i]
           /\ IsInjective(s) => /\ ~Holds(RemoveAt(s, i), s[i])
                                /\ IsInjective(RemoveAt(s, i))
<1> DEFINE t == RemoveAt(s, i)
           From(j) == IF j < i THEN j ELSE j + 1
<1>1. Len(s) \in Nat /\ DOMAIN s = 1..Len(s) /\ i \in 1..Len(s)
  BY LenProperties
<1>2. /\ DOMAIN t = 1..(Len(s) - 1)
      /\ \A j \in 1..(Len(s) - 1) : t[j] = IF j < i THEN s[j] ELSE s[j + 1]
  BY <1>1, Removal, LenProperties
<1> HIDE DEF t
<1>3. \A j \in DOMAIN t : From(j) \in DOMAIN s /\ From(j) # i /\ t[j] = s[From(j)]
  BY <1>1, <1>2
<1>4. \A j, k \in DOMAIN t : From(j) = From(k) => j = k
  BY <1>1, <1>2
<1>5. ASSUME NEW k \in DOMAIN s, k # i PROVE \E j \in DOMAIN t : k = From(j)
  <2>1. CASE k < i
    BY <1>1, <1>2, <2>1
  <2>2. CASE k > i
    <3>1. k - 1 \in DOMAIN t /\ k = From(k - 1)
      BY <1>1, <1>2, <2>2
    <3>2. QED
      BY <3>1
  <2>3. QED
    BY <1>1, <1>5, <2>1, <2>2
<1> HIDE DEF From
<1>6. ASSUME NEW y PROVE (Holds(t, y) => Holds(s, y)) /\ (Holds(s, y) => Holds(t, y) \/ y = s[i])
  <2>1. Holds(t, y) => Holds(s, y)
    BY <1>3, Zenon DEF Holds
  <2>2. ASSUME Holds(s, y), y # s[i] PROVE Holds(t, y)
    <3>1. PICK k \in DOMAIN s : s[k] = y
      BY <2>2 DEF Holds
    <3>2. PICK j \in DOMAIN t : k = From(j)
      BY <2>2, <3>1, <1>5
    <3>3. QED
      BY <1>3, <3>1, <3>2, Zenon DEF Holds
  <2>3. QED
    BY <2>1, <2>2, Zenon
<1>7. ASSUME IsInjective(s) PROVE ~Holds(t, s[i]) /\ IsInjective(t)
  <2>1. ~Holds(t, s[i])
    BY <1>1, <1>3, <1>7, Zenon DEF Holds, IsInjective
  <2>2. IsInjective(t)
    BY <1>3, <1>4, <1>7, Zenon DEF IsInjective
  <2>3. QED
    BY <2>1, <2>2
<1>8. QED
  BY <1>6, <1>7, Zenon DEF t

LEMMA LeavingFront ==
    ASSUME NEW S, NEW s \in Seq(S), s # <<>>
    PROVE  /\ 1 \in 1..Len(s) /\ Head(s) = s[1] /\ Head(s) \in S
           /\ Tail(s) = RemoveAt(s, 1)
<1>1. Len(s) \in Nat /\ Len(s) # 0
  BY EmptySeq, LenProperties
<1>2. Head(s) = s[1] /\ Head(s) \in S
  BY HeadTailProperties
<1>3. Tail(s) = SubSeq(s, 2, Len(s)) /\ Tail(s) \in Seq(S)
  BY TailIsSubSeq, HeadTailProperties
<1>4. RemoveAt(s, 1) = <<>> \o SubSeq(s, 2, Len(s))
  <2>1. SubSeq(s, 1, 1 - 1) = <<>>
    BY <1>1, SubSeqEmpty
  <2>2. 1 + 1 = 2
    OBVIOUS
  <2>3. QED
    BY <2>1, <2>2, Zenon DEF RemoveAt
<1>5. QED
  BY <1>1, <1>2, <1>3, <1>4, ConcatEmptySeq

-----------------------------------------------------------------------------
(* The types.                                                              *)

LEMMA InitHolds ==
    ASSUME Init PROVE IInv
<1> USE QueueAssumption
<1>1. TypeOK
  <2>1. queue \in Seq(Requests) /\ Len(queue) <= MaxEntries /\ item \in Requests \cup {NoRequest}
    BY EmptySeq DEF Init
  <2>2. item # NoRequest <=> worker \in Holding
    BY DEF Init, Holding
  <2>3. /\ caller \in [Requests -> {"idle", "entering", "signalling", "waiting", "returned"}]
        /\ enqueuedAt \in [Requests -> Nat]
        /\ result \in [Requests -> Answers \cup {"none"}]
    BY DEF Init
  <2>4. clock \in Nat \ {0} /\ deadline \in Nat
    BY DEF Init
  <2>5. QED
    BY <2>1, <2>2, <2>3, <2>4 DEF Init, TypeOK
<1>2. DOMAIN queue = {}
  BY DEF Init
<1>3. item = NoRequest /\ NoRequest \notin Requests
  BY DEF Init
<1>4. Kept /\ Distinct /\ Pending
  BY <1>2, <1>3 DEF Init, Kept, Distinct, Pending, InQueue, Holds, IsInjective
<1>5. Owned /\ Closing
  BY DEF Init, Owned, Closing
<1>6. QED
  BY <1>1, <1>4, <1>5 DEF IInv

LEMMA ReadyAtIs ==
    ASSUME TypeOK, queue # <<>>
    PROVE  ReadyAt \in Nat
<1>1. DOMAIN queue # {} /\ \A i \in DOMAIN queue : queue[i] \in Requests
  BY Places
<1>2. Earliest(DOMAIN queue) \in DOMAIN queue
  BY <1>1, EarliestIs
<1>3. QED
  BY <1>1, <1>2, QueueAssumption DEF ReadyAt, TypeOK

\* What the worker takes from the queue.
LEMMA Taking ==
    ASSUME TypeOK, queue # <<>>
    PROVE  /\ Chosen \in 1..Len(queue)
           /\ queue[Chosen] \in Requests /\ queue[Chosen] # NoRequest
           /\ RemoveAt(queue, Chosen) \in Seq(Requests)
           /\ Len(RemoveAt(queue, Chosen)) <= MaxEntries
<1>1. queue \in Seq(Requests) /\ Len(queue) \in Nat /\ Len(queue) <= MaxEntries
  BY LenProperties DEF TypeOK
<1>2. Chosen \in 1..Len(queue) /\ queue[Chosen] \in Requests
  BY ChosenIs, Places
<1>3. /\ RemoveAt(queue, Chosen) \in Seq(Requests)
      /\ Len(RemoveAt(queue, Chosen)) = Len(queue) - 1
  BY <1>1, <1>2, Removal
<1>4. QED
  BY <1>1, <1>2, <1>3, QueueAssumption

LEMMA Answering ==
    ASSUME TypeOK, NEW answer \in Answers \cup {"none"}, item # NoRequest, Reply(answer)
    PROVE  /\ result' \in [Requests -> Answers \cup {"none"}]
           /\ item' = NoRequest /\ worker' = "next" /\ decision' = "none"
           /\ item \in Requests
BY DEF TypeOK, Reply

LEMMA TypeByCaller ==
    ASSUME TypeOK, NEW r \in Requests,
           Arrive(r) \/ DecideContinues(r) \/ Finish(r) \/ Cancel(r)
    PROVE  TypeOK'
<1> USE DEF callerVars, workerVars, closeVars
<1>1. CASE Arrive(r)
  BY <1>1 DEF Arrive, Return, TypeOK, Answers, Refusals
<1>2. CASE Enter(r)
  <2>1. /\ Append(queue, r) \in Seq(Requests)
        /\ Len(queue) < MaxEntries => Len(Append(queue, r)) <= MaxEntries
    BY AppendProperties, LenProperties, QueueAssumption DEF TypeOK
  <2>2. Len(queue) >= MaxEntries \/ Len(queue) < MaxEntries
    BY LenProperties, QueueAssumption DEF TypeOK
  <2>3. QED
    BY <1>2, <2>1, <2>2 DEF Enter, Return, TypeOK, Answers, Refusals
<1>3. CASE Signal(r)
  BY <1>3 DEF Signal, TypeOK
<1>4. CASE Receive(r)
  BY <1>4 DEF Receive, TypeOK
<1>5. CASE Finish(r)
  BY <1>5 DEF Finish, TypeOK
<1>6. CASE Cancel(r)
  BY <1>6 DEF Cancel, TypeOK
<1>7. QED
  BY <1>1, <1>2, <1>3, <1>4, <1>5, <1>6 DEF DecideContinues

LEMMA TypeByWorker ==
    ASSUME TypeOK, Worker
    PROVE  TypeOK'
<1> USE DEF WorkerFrame, DispatchFrame, callerVars, closeVars, Holding
<1>1. CASE NextItem
  <2>1. CASE closed \/ queue = <<>>
    BY <1>1, <2>1 DEF NextItem, TypeOK
  <2>2. CASE ~closed /\ queue # <<>> /\ clock < ReadyAt
    BY <1>1, <2>2, ReadyAtIs DEF NextItem, TypeOK
  <2>3. CASE ~closed /\ queue # <<>> /\ ~(clock < ReadyAt)
    BY <1>1, <2>3, Taking DEF NextItem, TypeOK
  <2>4. QED
    BY <2>1, <2>2, <2>3
<1>2. CASE Select
  <2>1. CASE Wake
    BY <2>1 DEF Wake, TypeOK
  <2>2. CASE SeeClose
    BY <2>2 DEF SeeClose, TypeOK
  <2>3. CASE TimerFires
    BY <2>3 DEF TimerFires, TypeOK
  <2>4. QED
    BY <1>2, <2>1, <2>2, <2>3 DEF Select
<1>3. CASE CheckContext
  BY <1>3, Answering DEF CheckContext, Answers, Refusals, TypeOK
<1>4. CASE CheckWait
  BY <1>4, Answering DEF CheckWait, Answers, Refusals, TypeOK
<1>5. CASE AskDelegate
  BY <1>5 DEF AskDelegate, TypeOK
<1>6. CASE Send
  <2>1. item # NoRequest /\ decision \in Answers \cup {"none"} /\ "canceled" \in Answers
    BY <1>6 DEF Send, TypeOK, Answers, Refusals
  <2>2. PICK answer \in Answers \cup {"none"} : Reply(answer)
    BY <1>6, <2>1 DEF Send
  <2>3. /\ result' \in [Requests -> Answers \cup {"none"}]
        /\ item' = NoRequest /\ worker' = "next" /\ decision' = "none"
    BY <2>1, <2>2, Answering
  <2>4. reserved' \subseteq Requests
    BY <1>6 DEF Send, TypeOK
  <2>5. QED
    BY <1>6, <2>3, <2>4 DEF Send, TypeOK
<1>7. CASE Drain
  <2>1. CASE queue = <<>>
    BY <1>7, <2>1 DEF Drain, TypeOK
  <2>2. CASE queue # <<>>
    <3>1. /\ Head(queue) \in Requests /\ Tail(queue) \in Seq(Requests)
          /\ Len(Tail(queue)) <= MaxEntries
      BY <2>2, HeadTailProperties, LenProperties, QueueAssumption DEF TypeOK
    <3>2. QED
      BY <1>7, <2>2, <3>1 DEF Drain, TypeOK, Answers, Refusals
  <2>3. QED
    BY <2>1, <2>2
<1>8. QED
  BY <1>1, <1>2, <1>3, <1>4, <1>5, <1>6, <1>7 DEF Worker

LEMMA TypeByClose ==
    ASSUME TypeOK, CloseIntake \/ CloseContinues \/ Tick \/ UNCHANGED vars
    PROVE  TypeOK'
<1> USE DEF callerVars, workerVars, closeVars, CloseFrame
<1>1. CASE CloseIntake
  BY <1>1 DEF CloseIntake, TypeOK
<1>2. CASE CloseContinues
  BY <1>2 DEF CloseContinues, CloseChannel, CloseSignal, CloseDelegate, TypeOK
<1>3. CASE Tick
  BY <1>3 DEF Tick, TypeOK
<1>4. CASE UNCHANGED vars
  BY <1>4 DEF vars, TypeOK
<1>5. QED
  BY <1>1, <1>2, <1>3, <1>4

LEMMA TypeStep ==
    ASSUME TypeOK, [Next]_vars
    PROVE  TypeOK'
BY TypeByCaller, TypeByWorker, TypeByClose DEF Next

-----------------------------------------------------------------------------
(* Where every call is.                                                    *)

Whereabouts == Kept /\ Distinct /\ Pending

\* Only a request is ever in the queue.
LEMMA Queued ==
    ASSUME TypeOK, NEW r, InQueue(r)
    PROVE  r \in Requests /\ r # NoRequest
BY Places, QueueAssumption DEF InQueue, Holds

LEMMA WhereaboutsByCaller ==
    ASSUME TypeOK, Whereabouts, NEW r \in Requests,
           Arrive(r) \/ DecideContinues(r) \/ Finish(r) \/ Cancel(r)
    PROVE  Whereabouts'
<1> USE DEF Whereabouts, callerVars, workerVars, closeVars
<1>1. CASE Arrive(r)
  <2>1. ~InQueue(r) /\ item # r /\ result[r] = "none"
    BY <1>1 DEF Arrive, Pending
  <2>2. /\ \A x : InQueue(x)' <=> InQueue(x)
        /\ queue' = queue /\ item' = item
    BY <1>1 DEF Arrive, InQueue
  <2>3. /\ caller'[r] \in {"returned", "entering"}
        /\ caller'[r] = "entering" => result'[r] = "none"
        /\ \A x \in Requests \ {r} : caller'[x] = caller[x] /\ result'[x] = result[x]
    BY <1>1, <2>1 DEF Arrive, Return, TypeOK
  <2>4. Kept'
    BY <2>2, <2>3 DEF Kept
  <2>5. Distinct'
    BY <2>2 DEF Distinct
  <2>6. Pending'
    BY <2>1, <2>2, <2>3 DEF Pending
  <2>7. QED
    BY <2>4, <2>5, <2>6
<1>2. CASE Enter(r)
  <2>1. ~InQueue(r) /\ item # r /\ result[r] = "none"
    BY <1>2 DEF Enter, Pending
  <2>2. item' = item /\ \A x \in Requests \ {r} : caller'[x] = caller[x] /\ result'[x] = result[x]
    BY <1>2 DEF Enter, Return, TypeOK
  <2>3. CASE closed \/ Len(queue) >= MaxEntries
    <3>1. queue' = queue /\ \A x : InQueue(x)' <=> InQueue(x)
      BY <1>2, <2>3 DEF Enter, InQueue
    <3>2. caller'[r] = "returned"
      BY <1>2, <2>3 DEF Enter, Return, TypeOK
    <3>3. QED
      BY <2>1, <2>2, <3>1, <3>2 DEF Kept, Distinct, Pending
  <2>4. CASE ~(closed \/ Len(queue) >= MaxEntries)
    <3>1. queue' = Append(queue, r)
      BY <1>2, <2>4 DEF Enter
    <3>2. caller'[r] = "signalling" /\ result'[r] = "none"
      BY <1>2, <2>1, <2>4 DEF Enter, TypeOK
    <3>3. /\ \A x : InQueue(x)' <=> InQueue(x) \/ x = r
          /\ IsInjective(queue) => IsInjective(queue')
      BY <2>1, <3>1, Joining DEF InQueue, TypeOK
    <3>4. QED
      BY <2>1, <2>2, <3>2, <3>3 DEF Kept, Distinct, Pending
  <2>5. QED
    BY <2>3, <2>4
<1>3. CASE Signal(r)
  <2>1. queue' = queue /\ item' = item /\ result' = result /\ \A x : InQueue(x)' <=> InQueue(x)
    BY <1>3 DEF Signal, InQueue
  <2>2. /\ caller[r] = "signalling" /\ caller'[r] = "waiting"
        /\ \A x \in Requests \ {r} : caller'[x] = caller[x]
    BY <1>3 DEF Signal, TypeOK
  <2>3. QED
    BY <2>1, <2>2 DEF Kept, Distinct, Pending
<1>4. CASE Receive(r)
  <2>1. queue' = queue /\ item' = item /\ result' = result /\ \A x : InQueue(x)' <=> InQueue(x)
    BY <1>4 DEF Receive, InQueue
  <2>2. /\ caller'[r] = "returned" /\ result[r] # "none"
        /\ \A x \in Requests \ {r} : caller'[x] = caller[x]
    BY <1>4 DEF Receive, TypeOK
  <2>3. QED
    BY <2>1, <2>2 DEF Kept, Distinct, Pending
<1>5. CASE Finish(r) \/ Cancel(r)
  BY <1>5 DEF Finish, Cancel, Kept, Distinct, Pending, InQueue
<1>6. QED
  BY <1>1, <1>2, <1>3, <1>4, <1>5 DEF DecideContinues

\* An answer ends the wait of the call that the worker holds.
LEMMA WhereaboutsByReply ==
    ASSUME TypeOK, Whereabouts, item # NoRequest, NEW answer \in Answers, Reply(answer),
           UNCHANGED <<queue, caller>>
    PROVE  Whereabouts'
<1> USE DEF Whereabouts
<1>1. item \in Requests /\ item' = NoRequest /\ answer # "none"
  BY DEF TypeOK, Reply, Answers, Refusals
<1>2. /\ result'[item] = answer
      /\ \A x \in Requests \ {item} : result'[x] = result[x]
  BY <1>1 DEF TypeOK, Reply
<1>3. \A x : InQueue(x)' <=> InQueue(x)
  BY DEF InQueue
<1>4. ~InQueue(item) /\ ~InQueue(NoRequest) /\ NoRequest \notin Requests
  BY Queued, QueueAssumption DEF Distinct
<1>5. caller[item] \in {"signalling", "waiting"}
  BY <1>1 DEF Pending
<1>6. Kept'
  BY <1>1, <1>2, <1>3 DEF Kept
<1>7. Distinct'
  BY <1>1, <1>3, <1>4 DEF Distinct
<1>8. Pending'
  BY <1>1, <1>2, <1>3, <1>4, <1>5, Zenon DEF Pending
<1>9. QED
  BY <1>6, <1>7, <1>8

LEMMA WhereaboutsByWorker ==
    ASSUME TypeOK, Whereabouts, Owned, Worker
    PROVE  Whereabouts'
<1> USE DEF Whereabouts, WorkerFrame, DispatchFrame, callerVars, closeVars
<1>1. CASE NextItem /\ queue' = queue /\ item' = item
  BY <1>1 DEF NextItem, Kept, Distinct, Pending, InQueue
<1>2. CASE NextItem /\ ~(queue' = queue /\ item' = item)
  <2>1. /\ queue # <<>> /\ worker = "next" /\ UNCHANGED <<caller, result>>
        /\ item' = queue[Chosen] /\ queue' = RemoveAt(queue, Chosen)
    BY <1>2 DEF NextItem
  <2>2. item = NoRequest
    BY <2>1 DEF TypeOK, Holding
  <2>3. /\ Chosen \in 1..Len(queue) /\ queue \in Seq(Requests)
        /\ item' \in Requests /\ item' # NoRequest
    BY <2>1, Taking DEF TypeOK
  <2>4. InQueue(item')
    BY <2>1, <2>3, Places DEF InQueue, Holds
  <2>5. /\ \A x : InQueue(x)' => InQueue(x)
        /\ \A x : InQueue(x) => InQueue(x)' \/ x = item'
        /\ ~InQueue(item)' /\ IsInjective(queue')
    <3>1. IsInjective(queue)
      BY DEF Distinct
    <3>2. QED
      BY <2>1, <2>3, <3>1, Leaving DEF InQueue
  <2>6. Kept'
    BY <2>1, <2>2, <2>5, QueueAssumption DEF Kept
  <2>7. Distinct'
    BY <2>5 DEF Distinct
  <2>8. Pending'
    BY <2>1, <2>4, <2>5 DEF Pending
  <2>9. QED
    BY <2>6, <2>7, <2>8
<1>3. CASE Select
  BY <1>3 DEF Select, Wake, SeeClose, TimerFires, Kept, Distinct, Pending, InQueue
<1>4. CASE CheckContext \/ CheckWait
  <2>1. item # NoRequest /\ UNCHANGED <<queue, caller>>
    BY <1>4 DEF CheckContext, CheckWait, TypeOK, Holding
  <2>2. CASE Reply("canceled") \/ Reply("timeout")
    BY <2>1, <2>2, WhereaboutsByReply DEF Answers, Refusals
  <2>3. CASE UNCHANGED <<item, result>>
    BY <2>1, <2>3 DEF Kept, Distinct, Pending, InQueue
  <2>4. QED
    BY <1>4, <2>2, <2>3 DEF CheckContext, CheckWait
<1>5. CASE AskDelegate
  BY <1>5 DEF AskDelegate, Kept, Distinct, Pending, InQueue
<1>6. CASE Send
  <2>1. item # NoRequest /\ UNCHANGED <<queue, caller>>
    BY <1>6 DEF Send, TypeOK, Holding
  <2>2. "canceled" \in Answers /\ decision \in Answers
    BY <1>6 DEF Send, Owned, Answers, Refusals
  <2>3. QED
    BY <1>6, <2>1, <2>2, WhereaboutsByReply DEF Send
<1>7. CASE Drain /\ queue = <<>>
  BY <1>7 DEF Drain, Kept, Distinct, Pending, InQueue
<1>8. CASE Drain /\ queue # <<>>
  <2>1. queue \in Seq(Requests)
    BY DEF TypeOK
  <2>2. PICK head \in Requests :
           /\ 1 \in 1..Len(queue) /\ Head(queue) = head /\ queue[1] = head
           /\ Tail(queue) = RemoveAt(queue, 1)
    BY <1>8, <2>1, LeavingFront
  <2>3. /\ queue' = RemoveAt(queue, 1) /\ UNCHANGED <<item, caller>>
        /\ result' = [result EXCEPT ![head] = "closed"]
    BY <1>8, <2>2 DEF Drain
  <2>4. /\ result'[head] = "closed"
        /\ \A x \in Requests \ {head} : result'[x] = result[x]
    BY <2>3 DEF TypeOK
  <2>5. InQueue(head)
    BY <2>2, Places DEF InQueue, Holds
  <2>6. /\ \A x : InQueue(x)' => InQueue(x)
        /\ \A x : InQueue(x) => InQueue(x)' \/ x = head
        /\ ~InQueue(head)' /\ IsInjective(queue')
    <3>1. IsInjective(queue)
      BY DEF Distinct
    <3>2. QED
      BY <2>1, <2>2, <2>3, <3>1, Leaving DEF InQueue
  <2>7. head # item /\ caller[head] \in {"signalling", "waiting"}
    BY <2>5 DEF Distinct, Pending
  <2>8. Kept'
    BY <2>3, <2>4, <2>6 DEF Kept
  <2>9. Distinct'
    BY <2>3, <2>6 DEF Distinct
  <2>10. Pending'
    BY <2>3, <2>4, <2>6, <2>7 DEF Pending
  <2>11. QED
    BY <2>8, <2>9, <2>10
<1>9. QED
  BY <1>1, <1>2, <1>3, <1>4, <1>5, <1>6, <1>7, <1>8 DEF Worker

LEMMA WhereaboutsStep ==
    ASSUME TypeOK, Whereabouts, Owned, [Next]_vars
    PROVE  Whereabouts'
<1>1. CASE CloseIntake \/ CloseContinues \/ Tick \/ UNCHANGED vars
  BY <1>1 DEF CloseIntake, CloseContinues, CloseChannel, CloseSignal, CloseDelegate, CloseFrame, Tick,
     vars, callerVars, workerVars, Whereabouts, Kept, Distinct, Pending, InQueue
<1>2. QED
  BY <1>1, WhereaboutsByCaller, WhereaboutsByWorker DEF Next

-----------------------------------------------------------------------------
(* Whose a reservation is, and how the queue is shut down.                 *)

LEMMA OwnedByCaller ==
    ASSUME TypeOK, Whereabouts, Owned, NEW r \in Requests,
           Arrive(r) \/ DecideContinues(r) \/ Finish(r) \/ Cancel(r)
    PROVE  Owned'
<1> USE DEF callerVars, workerVars, closeVars
<1>1. CASE Arrive(r) \/ Enter(r)
  <2>1. r # item /\ r \notin reserved
    BY <1>1 DEF Arrive, Enter, Owned, Whereabouts, Pending
  <2>2. /\ UNCHANGED <<reserved, item, worker, decision>>
        /\ \A x \in Requests \ {r} : result'[x] = result[x]
    BY <1>1 DEF Arrive, Enter, Return, TypeOK
  <2>3. QED
    BY <2>1, <2>2 DEF Owned, TypeOK
<1>2. CASE Signal(r) \/ Receive(r) \/ Cancel(r)
  BY <1>2 DEF Signal, Receive, Cancel, Owned
<1>3. CASE Finish(r)
  <2>1. item # NoRequest => result[item] = "none"
    BY DEF Whereabouts, Pending, TypeOK
  <2>2. worker = "decided" => item # r
    BY <1>3, <2>1 DEF Finish, TypeOK, Holding
  <2>3. QED
    BY <1>3, <2>2 DEF Finish, Owned
<1>4. QED
  BY <1>1, <1>2, <1>3 DEF DecideContinues

LEMMA OwnedByWorker ==
    ASSUME TypeOK, Whereabouts, Owned, Worker
    PROVE  Owned'
<1> USE DEF WorkerFrame, DispatchFrame, callerVars, closeVars
<1>1. item # NoRequest => item \in Requests /\ result[item] = "none"
  BY DEF Whereabouts, Pending, TypeOK
<1>2. CASE NextItem \/ Select
  BY <1>2 DEF NextItem, Select, Wake, SeeClose, TimerFires, Owned
<1>3. CASE CheckContext \/ CheckWait
  <2>1. item # NoRequest /\ item \notin reserved
    BY <1>1, <1>3 DEF CheckContext, CheckWait, TypeOK, Holding, Owned
  <2>2. worker' # "decided" /\ reserved' = reserved
    BY <1>3 DEF CheckContext, CheckWait, Reply
  <2>3. \A x \in Requests \ {item} : result'[x] = result[x]
    BY <1>1, <1>3, <2>1 DEF CheckContext, CheckWait, Reply, TypeOK
  <2>4. worker # "decided"
    BY <1>3 DEF CheckContext, CheckWait
  <2>5. QED
    BY <2>1, <2>2, <2>3, <2>4 DEF Owned, TypeOK
<1>4. CASE AskDelegate
  <2>1. item \notin reserved
    BY <1>1, <1>4 DEF AskDelegate, TypeOK, Holding, Owned
  <2>2. QED
    BY <1>4, <2>1 DEF AskDelegate, Owned
<1>5. CASE Send
  <2>1. item # NoRequest /\ worker = "decided" /\ worker' # "decided"
    BY <1>5 DEF Send, TypeOK, Holding, Reply
  <2>2. \A x \in Requests \ {item} : result'[x] = result[x]
    BY <1>1, <1>5, <2>1 DEF Send, Reply, TypeOK
  <2>3. \/ reserved' = reserved \ {item}
        \/ reserved' = reserved /\ result'[item] = decision
    BY <1>1, <1>5, <2>1 DEF Send, Reply, TypeOK
  <2>4. QED
    BY <2>1, <2>2, <2>3 DEF Owned, TypeOK
<1>6. CASE Drain /\ queue = <<>>
  BY <1>6 DEF Drain, Owned
<1>7. CASE Drain /\ queue # <<>>
  <2>1. PICK head \in Requests : InQueue(head) /\ Head(queue) = head
    BY <1>7, LeavingFront, Places DEF TypeOK, InQueue, Holds
  <2>2. head \notin reserved /\ worker # "decided" /\ worker' # "decided" /\ reserved' = reserved
    BY <1>7, <2>1 DEF Drain, Whereabouts, Pending, Owned
  <2>3. \A x \in Requests \ {head} : result'[x] = result[x]
    BY <1>7, <2>1 DEF Drain, TypeOK
  <2>4. QED
    BY <2>2, <2>3 DEF Owned, TypeOK
<1>8. QED
  BY <1>2, <1>3, <1>4, <1>5, <1>6, <1>7 DEF Worker

LEMMA OwnedStep ==
    ASSUME TypeOK, Whereabouts, Owned, [Next]_vars
    PROVE  Owned'
<1>1. CASE CloseIntake \/ CloseContinues \/ Tick \/ UNCHANGED vars
  BY <1>1 DEF CloseIntake, CloseContinues, CloseChannel, CloseSignal, CloseDelegate, CloseFrame, Tick,
     vars, workerVars, Owned
<1>2. QED
  BY <1>1, OwnedByCaller, OwnedByWorker DEF Next

LEMMA ClosingStep ==
    ASSUME TypeOK, Closing, [Next]_vars
    PROVE  Closing'
<1> USE DEF callerVars, workerVars, closeVars
<1>1. ASSUME NEW r \in Requests, Arrive(r) \/ DecideContinues(r) \/ Finish(r) \/ Cancel(r)
      PROVE  Closing'
  <2>1. UNCHANGED <<workerVars, closeVars>>
    BY <1>1 DEF DecideContinues, Arrive, Enter, Signal, Receive, Finish, Cancel
  <2>2. closed => queue' = queue
    BY <1>1 DEF DecideContinues, Arrive, Enter, Signal, Receive, Finish, Cancel
  <2>3. reserved' \subseteq reserved
    BY <1>1 DEF DecideContinues, Arrive, Enter, Signal, Receive, Finish, Cancel
  <2>4. QED
    BY <2>1, <2>2, <2>3 DEF Closing
<1>2. CASE Worker
  <2>1. UNCHANGED closeVars /\ worker # "done"
    BY <1>2 DEF Worker, NextItem, Select, Wake, SeeClose, TimerFires, CheckContext, CheckWait, AskDelegate,
       Send, Drain, WorkerFrame, DispatchFrame
  <2>2. worker' \in {"drain", "done"} => closed
    BY <1>2 DEF Worker, NextItem, Select, Wake, SeeClose, TimerFires, CheckContext, CheckWait, AskDelegate,
       Send, Drain, Reply, Closing
  <2>3. worker' = "done" => queue' = <<>>
    BY <1>2 DEF Worker, NextItem, Select, Wake, SeeClose, TimerFires, CheckContext, CheckWait, AskDelegate,
       Send, Drain, Reply
  <2>4. QED
    BY <2>1, <2>2, <2>3 DEF Closing
<1>3. CASE CloseIntake \/ CloseContinues
  BY <1>3 DEF CloseIntake, CloseContinues, CloseChannel, CloseSignal, CloseDelegate, CloseFrame, Closing
<1>4. CASE Tick \/ UNCHANGED vars
  BY <1>4 DEF Tick, vars, Closing
<1>5. QED
  BY <1>1, <1>2, <1>3, <1>4 DEF Next

-----------------------------------------------------------------------------
LEMMA Invariance == SafeSpec => []IInv
<1>1. Init => IInv
  BY InitHolds
<1>2. IInv /\ [Next]_vars => IInv'
  BY TypeStep, WhereaboutsStep, OwnedStep, ClosingStep DEF IInv, Whereabouts
<1>3. QED
  BY <1>1, <1>2, PTL DEF SafeSpec

\* Every variable keeps its type: the queue never holds more calls than it may,
\* and the worker holds a request exactly while it dispatches one.
THEOREM TypeCorrect == SafeSpec => []TypeOK
BY Invariance, PTL DEF IInv

\* No call that has joined the queue is lost (Decide, next and drain): until its
\* answer is in its channel it is queued or with the worker, once; when the worker
\* has ended every one of them has its answer.
NobodyForgotten ==
    /\ \A r \in Requests :
          caller[r] \in {"signalling", "waiting"} /\ result[r] = "none" =>
            (InQueue(r) /\ item # r) \/ (item = r /\ ~InQueue(r))
    /\ worker = "done" => \A r \in Requests :
          caller[r] \in {"signalling", "waiting"} => result[r] # "none"

THEOREM NoCallLost == SafeSpec => []NobodyForgotten
<1>1. ASSUME IInv PROVE NobodyForgotten
  <2>1. worker = "done" => DOMAIN queue = {} /\ item = NoRequest
    BY <1>1 DEF IInv, Closing, TypeOK, Holding
  <2>2. worker = "done" => \A r \in Requests : ~InQueue(r) /\ item # r
    BY <2>1, QueueAssumption DEF InQueue, Holds
  <2>3. QED
    BY <1>1, <2>2 DEF IInv, Kept, Distinct, NobodyForgotten
<1>2. QED
  BY <1>1, Invariance, PTL

\* A reservation is an admitted call's, or the worker's that has just been given
\* it: a refused call leaves none behind (dispatch gives it back), and neither
\* does Close.
ReservationsOwned ==
    /\ \A r \in reserved : result[r] = "admitted" \/ (r = item /\ worker = "decided")
    /\ closer = "returned" => reserved = {}

THEOREM NoReservationLeaks == SafeSpec => []ReservationsOwned
<1>1. IInv => ReservationsOwned
  BY DEF IInv, Owned, Closing, ReservationsOwned
<1>2. QED
  BY <1>1, Invariance, PTL

-----------------------------------------------------------------------------
(* The order in which calls leave the queue.                               *)

\* Only the worker takes a request, and it takes the one at Chosen.
LEMMA PassingOver ==
    ASSUME TypeOK, [Next]_vars, NEW x \in Requests, NEW y \in Requests, PassesOver(x, y)
    PROVE  /\ Chosen \in Candidates /\ Chosen \in DOMAIN queue /\ queue[Chosen] = x
           /\ \E j \in DOMAIN queue : queue[j] = y
           /\ \A j \in Candidates : Before(Chosen, j)
<1>1. item = NoRequest /\ item' = x /\ x # NoRequest
  BY QueueAssumption DEF PassesOver
<1>2. NextItem
  BY <1>1 DEF Next, DecideContinues, Arrive, Enter, Signal, Receive, Finish, Cancel, Worker, Select, Wake,
     SeeClose, TimerFires, CheckContext, CheckWait, AskDelegate, Send, Drain, Reply, CloseIntake,
     CloseContinues, CloseChannel, CloseSignal, CloseDelegate, CloseFrame, Tick, vars, workerVars
<1>3. queue # <<>> /\ x = queue[Chosen] /\ queue' = RemoveAt(queue, Chosen)
  BY <1>1, <1>2 DEF NextItem
<1>4. Holds(queue', y)
  BY DEF PassesOver, Holds
<1>5. Holds(queue, y)
  BY <1>3, <1>4, Taking, Leaving DEF TypeOK
<1>6. QED
  BY <1>3, <1>5, ChosenIs DEF Holds

\* Within a tier, calls leave the queue in the order in which they read the clock
\* (chooseIndex), although they may have joined it in another.
THEOREM TiersInOrder == SafeSpec => InOrderWithinTier
<1> DEFINE Order == \A x, y \in Requests :
              PassesOver(x, y) /\ Tier[x] = Tier[y] => enqueuedAt[x] <= enqueuedAt[y]
<1>1. ASSUME IInv, [Next]_vars PROVE Order
  <2> SUFFICES ASSUME NEW x \in Requests, NEW y \in Requests, PassesOver(x, y), Tier[x] = Tier[y]
               PROVE  enqueuedAt[x] <= enqueuedAt[y]
    OBVIOUS
  <2>1. TypeOK
    BY <1>1 DEF IInv
  <2>2. /\ Chosen \in Candidates /\ Chosen \in DOMAIN queue /\ queue[Chosen] = x
        /\ \A j \in Candidates : Before(Chosen, j)
    BY <1>1, <2>1, PassingOver
  <2>3. PICK j \in DOMAIN queue : queue[j] = y
    BY <1>1, <2>1, PassingOver
  <2>4. enqueuedAt[x] \in Nat /\ enqueuedAt[y] \in Nat /\ clock \in Nat /\ MaxWait \in Nat
    BY <2>1, QueueAssumption DEF TypeOK
  <2>5. j \in Candidates => enqueuedAt[x] <= enqueuedAt[y]
    BY <2>2, <2>3, <2>4 DEF Before
  <2>6. CASE Expired # {}
    BY <2>2, <2>3, <2>4, <2>5, <2>6 DEF Candidates, Expired, Age
  <2>7. CASE Expired = {} /\ Aged # {}
    BY <2>2, <2>3, <2>4, <2>5, <2>7 DEF Candidates, Aged, Age
  <2>8. CASE Expired = {} /\ Aged = {}
    BY <2>2, <2>3, <2>5, <2>8 DEF Candidates, Highest
  <2>9. QED
    BY <2>6, <2>7, <2>8
<1>2. QED
  BY <1>1, Invariance, PTL DEF SafeSpec, InOrderWithinTier

\* A call of a higher tier is passed over only for one that has waited half the
\* deadline, and a sheddable call that has is passed over only for an older one:
\* chooseIndex lets no tier starve another.
THEOREM TiersDoNotStarve == SafeSpec => NoStarvation
<1> DEFINE Fair == \A x, y \in Requests :
              PassesOver(x, y) =>
                /\ Rank(Tier[y]) > Rank(Tier[x]) => Age(x) >= MaxWait \div 2
                /\ Sheddable(Tier[y]) /\ Age(y) >= MaxWait \div 2 =>
                     enqueuedAt[x] <= enqueuedAt[y]
<1>1. ASSUME IInv, [Next]_vars PROVE Fair
  <2> SUFFICES ASSUME NEW x \in Requests, NEW y \in Requests, PassesOver(x, y)
               PROVE  /\ Rank(Tier[y]) > Rank(Tier[x]) => Age(x) >= MaxWait \div 2
                      /\ Sheddable(Tier[y]) /\ Age(y) >= MaxWait \div 2 =>
                           enqueuedAt[x] <= enqueuedAt[y]
    OBVIOUS
  <2>1. TypeOK
    BY <1>1 DEF IInv
  <2>2. /\ Chosen \in Candidates /\ Chosen \in DOMAIN queue /\ queue[Chosen] = x
        /\ \A j \in Candidates : Before(Chosen, j)
    BY <1>1, <2>1, PassingOver
  <2>3. PICK j \in DOMAIN queue : queue[j] = y
    BY <1>1, <2>1, PassingOver
  <2>4. enqueuedAt[x] \in Nat /\ enqueuedAt[y] \in Nat /\ clock \in Nat /\ MaxWait \in Nat
    BY <2>1, QueueAssumption DEF TypeOK
  <2>5. j \in Candidates => enqueuedAt[x] <= enqueuedAt[y]
    BY <2>2, <2>3, <2>4 DEF Before
  <2>6. CASE Expired # {}
    BY <2>2, <2>3, <2>4, <2>5, <2>6 DEF Candidates, Expired, Age
  <2>7. CASE Expired = {} /\ Aged # {}
    BY <2>2, <2>3, <2>4, <2>5, <2>7 DEF Candidates, Aged, Age
  <2>8. CASE Expired = {} /\ Aged = {}
    <3>1. ~(Rank(Tier[y]) > Rank(Tier[x]))
      BY <2>2, <2>3, <2>8 DEF Candidates, Highest, Rank
    <3>2. ~(Sheddable(Tier[y]) /\ Age(y) >= MaxWait \div 2)
      BY <2>3, <2>8 DEF Aged
    <3>3. QED
      BY <3>1, <3>2
  <2>9. QED
    BY <2>6, <2>7, <2>8
<1>2. QED
  BY <1>1, Invariance, PTL DEF SafeSpec, NoStarvation

-----------------------------------------------------------------------------
(* The queue implements AdmissionService.                                  *)

\* The abstract call of r changes with r's Decide and with its answer only.
LEMMA CallOfOthers ==
    ASSUME TypeOK, TypeOK', NEW r \in Requests,
           \A x \in Requests \ {r} :
              (caller'[x] = "idle" <=> caller[x] = "idle") /\ result'[x] = result[x]
    PROVE  ServiceCall' = [ServiceCall EXCEPT ![r] = ServiceCall'[r]]
<1>1. \A x \in Requests \ {r} : ServiceCall'[x] = ServiceCall[x]
  BY DEF ServiceCall
<1>2. DOMAIN ServiceCall = Requests /\ DOMAIN ServiceCall' = Requests
  BY DEF ServiceCall
<1>3. ServiceCall = [x \in Requests |-> ServiceCall[x]] /\ ServiceCall' = [x \in Requests |-> ServiceCall'[x]]
  BY DEF ServiceCall
<1> HIDE DEF ServiceCall
<1>4. QED
  BY <1>1, <1>2, <1>3

LEMMA CallsKept ==
    ASSUME \A x \in Requests :
              (caller'[x] = "idle" <=> caller[x] = "idle") /\ result'[x] = result[x]
    PROVE  ServiceCall' = ServiceCall
BY DEF ServiceCall

\* The answer "none" is nobody's but that of who is waiting; an answer other than
\* "admitted" refuses the call.
LEMMA Refusing ==
    ASSUME TypeOK, TypeOK', NEW r \in Requests, result[r] = "none", caller'[r] # "idle",
           result'[r] \in Refusals,
           \A x \in Requests \ {r} :
              (caller'[x] = "idle" <=> caller[x] = "idle") /\ result'[x] = result[x],
           ServiceHeld' = ServiceHeld, delegateOpen' = delegateOpen
    PROVE  Service!Refuse(r) \/ Service!RefuseAtOnce(r)
<1>1. ServiceCall' = [ServiceCall EXCEPT ![r] = ServiceCall'[r]]
  BY CallOfOthers
<1>2. ServiceCall'[r] = "refused" /\ ServiceCall[r] \in {"idle", "waiting"}
  BY DEF ServiceCall, Refusals
<1>3. QED
  BY <1>1, <1>2 DEF Service!Refuse, Service!RefuseAtOnce

ServiceStep == Service!Next \/ UNCHANGED Service!vars

LEMMA RefusalIsStep ==
    ASSUME NEW r \in Requests, Service!Refuse(r) \/ Service!RefuseAtOnce(r)
    PROVE  ServiceStep
BY DEF ServiceStep, Service!Next, Service!Answer

LEMMA Stuttering ==
    ASSUME ServiceCall' = ServiceCall, ServiceHeld' = ServiceHeld, delegateOpen' = delegateOpen
    PROVE  ServiceStep
BY DEF ServiceStep, Service!vars

LEMMA ServiceByCaller ==
    ASSUME IInv, TypeOK', NEW r \in Requests,
           Arrive(r) \/ DecideContinues(r) \/ Finish(r) \/ Cancel(r)
    PROVE  ServiceStep
<1> USE DEF callerVars, workerVars, closeVars
<1>1. TypeOK
  BY DEF IInv
<1>2. CASE Arrive(r) \/ Enter(r)
  <2>1. result[r] = "none"
    BY <1>2 DEF Arrive, Enter, IInv, Pending
  <2>2. UNCHANGED <<reserved, worker, item, delegateOpen>>
    BY <1>2 DEF Arrive, Enter
  <2>3. ServiceHeld' = ServiceHeld
    BY <2>2 DEF ServiceHeld
  <2>4. /\ \A x \in Requests \ {r} : caller'[x] = caller[x] /\ result'[x] = result[x]
        /\ caller'[r] # "idle"
    BY <1>1, <1>2 DEF Arrive, Enter, Return, TypeOK
  <2>5. CASE result'[r] \in Refusals
    BY <1>1, <2>1, <2>2, <2>3, <2>4, <2>5, Refusing, RefusalIsStep
  <2>6. CASE Arrive(r) /\ result'[r] \notin Refusals
    <3>1. caller[r] = "idle" /\ result'[r] = "none"
      BY <1>1, <2>1, <2>6 DEF Arrive, Return, Refusals, TypeOK
    <3>2. ServiceCall[r] = "idle" /\ ServiceCall'[r] = "waiting"
      BY <2>4, <3>1 DEF ServiceCall
    <3>3. ServiceCall' = [ServiceCall EXCEPT ![r] = ServiceCall'[r]]
      BY <1>1, <2>4, CallOfOthers
    <3>4. Service!Ask(r)
      BY <2>2, <2>3, <3>2, <3>3 DEF Service!Ask
    <3>5. QED
      BY <3>4 DEF ServiceStep, Service!Next
  <2>7. CASE Enter(r) /\ result'[r] \notin Refusals
    <3>1. caller[r] # "idle" /\ result'[r] = result[r]
      BY <1>1, <2>7 DEF Enter, Return, Refusals, TypeOK
    <3>2. QED
      BY <2>2, <2>3, <2>4, <3>1, CallsKept, Stuttering
  <2>8. QED
    BY <1>2, <2>5, <2>6, <2>7
<1>3. CASE Signal(r) \/ Receive(r) \/ Cancel(r)
  <2>1. \A x \in Requests : (caller'[x] = "idle" <=> caller[x] = "idle") /\ result'[x] = result[x]
    BY <1>1, <1>3 DEF Signal, Receive, Cancel, TypeOK
  <2>2. ServiceHeld' = ServiceHeld /\ delegateOpen' = delegateOpen
    BY <1>3 DEF Signal, Receive, Cancel, ServiceHeld
  <2>3. QED
    BY <2>1, <2>2, CallsKept, Stuttering
<1>4. CASE Finish(r)
  <2>1. ~(worker = "decided" /\ item = r)
    BY <1>4 DEF Finish, IInv, Pending
  <2>2. r \in ServiceHeld /\ ServiceHeld' = ServiceHeld \ {r}
    BY <1>4, <2>1 DEF Finish, ServiceHeld
  <2>3. ServiceCall' = ServiceCall /\ delegateOpen' = delegateOpen
    BY <1>4 DEF Finish, ServiceCall
  <2>4. Service!Release(r)
    BY <2>2, <2>3 DEF Service!Release
  <2>5. QED
    BY <2>4 DEF ServiceStep, Service!Next
<1>5. QED
  BY <1>2, <1>3, <1>4 DEF DecideContinues

LEMMA ServiceByReply ==
    ASSUME IInv, TypeOK', NEW answer \in Refusals, item # NoRequest, Reply(answer),
           UNCHANGED <<caller, delegateOpen>>, reserved' = ServiceHeld
    PROVE  ServiceStep
<1>1. TypeOK /\ item \in Requests
  BY DEF IInv, TypeOK
<1>2. result[item] = "none" /\ caller[item] # "idle"
  BY <1>1 DEF IInv, Pending
<1>3. /\ result'[item] = answer
      /\ \A x \in Requests \ {item} : result'[x] = result[x]
  BY <1>1 DEF Reply, TypeOK
<1>4. ServiceHeld' = ServiceHeld
  BY DEF Reply, ServiceHeld
<1>5. \E r \in Requests : Service!Refuse(r) \/ Service!RefuseAtOnce(r)
  BY <1>1, <1>2, <1>3, <1>4, Refusing
<1>6. QED
  BY <1>5, RefusalIsStep

LEMMA ServiceByWorker ==
    ASSUME IInv, TypeOK', Worker
    PROVE  ServiceStep
<1> USE DEF WorkerFrame, DispatchFrame, callerVars, closeVars
<1>1. TypeOK /\ UNCHANGED <<caller, delegateOpen>>
  BY DEF IInv, Worker, NextItem, Select, Wake, SeeClose, TimerFires, CheckContext, CheckWait, AskDelegate,
     Send, Drain
<1>2. item # NoRequest => item \in Requests /\ result[item] = "none" /\ caller[item] # "idle"
  BY <1>1 DEF IInv, Pending, TypeOK
<1>3. CASE UNCHANGED <<result, reserved>> /\ worker # "decided" /\ worker' # "decided"
  <2>1. ServiceCall' = ServiceCall /\ ServiceHeld' = ServiceHeld
    BY <1>1, <1>3 DEF ServiceCall, ServiceHeld
  <2>2. QED
    BY <1>1, <2>1, Stuttering
<1>4. CASE (NextItem \/ Select) \/ (Drain /\ queue = <<>>)
  BY <1>3, <1>4 DEF NextItem, Select, Wake, SeeClose, TimerFires, Drain
<1>5. CASE CheckContext \/ CheckWait
  <2>1. item # NoRequest /\ worker # "decided" /\ reserved' = reserved
    BY <1>1, <1>5 DEF CheckContext, CheckWait, TypeOK, Holding
  <2>2. CASE Reply("canceled") \/ Reply("timeout")
    BY <1>1, <2>1, <2>2, ServiceByReply DEF Refusals, ServiceHeld
  <2>3. CASE UNCHANGED result /\ worker' \in {"checkWait", "ask"}
    BY <1>3, <2>1, <2>3
  <2>4. QED
    BY <1>5, <2>2, <2>3 DEF CheckContext, CheckWait
<1>6. CASE AskDelegate
  <2>1. item \notin reserved /\ worker = "ask" /\ worker' = "decided" /\ UNCHANGED <<item, result>>
    BY <1>1, <1>2, <1>6 DEF AskDelegate, TypeOK, Holding, IInv, Owned
  <2>2. reserved' = reserved \cup {item} \/ reserved' = reserved
    BY <1>6 DEF AskDelegate
  <2>3. ServiceCall' = ServiceCall /\ ServiceHeld' = ServiceHeld
    BY <1>1, <2>1, <2>2 DEF ServiceCall, ServiceHeld
  <2>4. QED
    BY <1>1, <2>3, Stuttering
<1>7. CASE Send
  <2>1. item # NoRequest /\ worker = "decided" /\ ServiceHeld = reserved \ {item}
    BY <1>1, <1>7 DEF Send, TypeOK, Holding, ServiceHeld
  <2>2. CASE item \in canceled
    BY <1>1, <1>7, <2>1, <2>2, ServiceByReply DEF Send, Refusals
  <2>3. CASE item \notin canceled /\ decision # "admitted"
    <3>1. decision \in Refusals /\ item \notin reserved
      BY <2>1, <2>3 DEF IInv, Owned, Refusals
    <3>2. Reply(decision) /\ reserved' = ServiceHeld
      BY <1>7, <2>1, <2>3, <3>1 DEF Send
    <3>3. QED
      BY <1>1, <2>1, <3>1, <3>2, ServiceByReply
  <2>4. CASE item \notin canceled /\ decision = "admitted"
    <3>1. Reply("admitted") /\ reserved' = reserved /\ item \in reserved
      BY <1>7, <2>1, <2>4 DEF Send, IInv, Owned
    <3>2. result'[item] = "admitted" /\ \A x \in Requests \ {item} : result'[x] = result[x]
      BY <1>1, <1>2, <2>1, <3>1 DEF Reply, TypeOK
    <3>3. ServiceCall[item] = "waiting" /\ ServiceCall'[item] = "admitted"
      BY <1>1, <1>2, <2>1, <3>2 DEF ServiceCall
    <3>4. PICK r \in Requests : r = item
      BY <1>2, <2>1
    <3>5. ServiceCall' = [ServiceCall EXCEPT ![r] = ServiceCall'[r]]
      BY <1>1, <3>2, <3>4, CallOfOthers
    <3>6. ServiceCall'[r] = "admitted"
      BY <1>1, <1>2, <2>1, <3>2, <3>4 DEF ServiceCall
    <3>7. ServiceHeld' = ServiceHeld \cup {item}
      BY <2>1, <3>1 DEF ServiceHeld, Reply
    <3>8. delegateOpen
      BY <2>1 DEF IInv, Closing
    <3>9. Service!Admit(r)
      BY <1>1, <3>3, <3>4, <3>5, <3>6, <3>7, <3>8 DEF Service!Admit
    <3>10. QED
      BY <3>9 DEF ServiceStep, Service!Next, Service!Answer
  <2>5. QED
    BY <2>2, <2>3, <2>4
<1>8. CASE Drain /\ queue # <<>>
  <2>1. PICK head \in Requests : InQueue(head) /\ Head(queue) = head
    BY <1>1, <1>8, LeavingFront, Places DEF TypeOK, InQueue, Holds
  <2>2. result[head] = "none" /\ caller[head] # "idle"
    BY <2>1 DEF IInv, Pending
  <2>3. result'[head] = "closed" /\ \A x \in Requests \ {head} : result'[x] = result[x]
    BY <1>1, <1>8, <2>1 DEF Drain, TypeOK
  <2>4. ServiceHeld' = ServiceHeld
    BY <1>8 DEF Drain, ServiceHeld
  <2>5. Service!Refuse(head) \/ Service!RefuseAtOnce(head)
    BY <1>1, <2>2, <2>3, <2>4, Refusing DEF Refusals
  <2>6. QED
    BY <2>5, RefusalIsStep
<1>9. QED
  BY <1>4, <1>5, <1>6, <1>7, <1>8 DEF Worker

LEMMA ServiceByClose ==
    ASSUME IInv, CloseIntake \/ CloseContinues \/ Tick \/ UNCHANGED vars
    PROVE  ServiceStep
<1> USE DEF callerVars, workerVars, closeVars, CloseFrame
<1>1. CASE CloseDelegate
  <2>1. ServiceHeld' = {} /\ ServiceCall' = ServiceCall
    BY <1>1 DEF CloseDelegate, ServiceHeld, ServiceCall
  <2>2. delegateOpen /\ delegateOpen' = FALSE
    BY <1>1 DEF CloseDelegate, IInv, Closing
  <2>3. Service!Shut
    BY <2>1, <2>2 DEF Service!Shut
  <2>4. QED
    BY <2>3 DEF ServiceStep, Service!Next
<1>2. CASE CloseIntake \/ CloseChannel \/ CloseSignal \/ Tick \/ UNCHANGED vars
  <2>1. UNCHANGED <<caller, result, reserved, worker, item, delegateOpen>>
    BY <1>2 DEF CloseIntake, CloseChannel, CloseSignal, Tick, vars
  <2>2. ServiceHeld' = ServiceHeld /\ ServiceCall' = ServiceCall
    BY <2>1 DEF ServiceHeld, ServiceCall
  <2>3. QED
    BY <2>1, <2>2, Stuttering
<1>3. QED
  BY <1>1, <1>2 DEF CloseContinues

\* The queue keeps the promise of the service it stands in front of: every call is
\* answered once, an admission hands over a reservation that the queue has, a
\* refusal leaves none behind, and nobody is admitted once Close has closed it.
\* Every step of a caller, of the worker and of Close is a step of AdmissionService
\* or none at all.
THEOREM QueueIsService == SafeSpec => Service!SafeSpec
<1>1. Init => Service!Init
  <2> SUFFICES ASSUME Init PROVE Service!Init
    OBVIOUS
  <2>1. ServiceCall = [r \in Requests |-> "idle"] /\ ServiceHeld = {} /\ delegateOpen = TRUE
    BY DEF Init, ServiceCall, ServiceHeld
  <2>2. QED
    BY <2>1 DEF Service!Init
<1>2. IInv /\ [Next]_vars => [Service!Next]_(Service!vars)
  <2> SUFFICES ASSUME IInv, [Next]_vars PROVE ServiceStep
    BY DEF ServiceStep
  <2>1. TypeOK'
    BY TypeStep DEF IInv
  <2>2. QED
    BY <2>1, ServiceByCaller, ServiceByWorker, ServiceByClose DEF Next
<1>3. QED
  BY <1>1, <1>2, Invariance, PTL DEF SafeSpec, Service!SafeSpec

=============================================================================
