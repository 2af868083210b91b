------------------------- MODULE PagedSchedulerProofs -------------------------
(***************************************************************************)
(* The paged scheduler, proved for every capacity, every set of requests   *)
(* and every order of arrival.                                             *)
(*                                                                         *)
(* It implements KVBlocks: whatever the worker loop does, it reaches the   *)
(* blocks only through BlockManager's operations, so the invariants proved *)
(* of the block layer hold under the scheduler.                            *)
(*                                                                         *)
(* Its queues: no request is lost or queued twice, a resting worker holds  *)
(* nothing, what a step runs is of one kind with its slots taken, the      *)
(* oldest request is never preempted, and requests are served in the order *)
(* they came while the mailbox was never crowded.  The queues alone are    *)
(* not inductive: that a preempted request is not done needs the loop the  *)
(* worker is in, that it will recompute needs the phase of each request,   *)
(* and that a request running alone gets its slot needs the length of its  *)
(* row.  SchedInv states all of them together.                             *)
(***************************************************************************)
EXTENDS PagedScheduler, KVBlocksProofs

\* What is left of a queue of requests after its first or its last is removed,
\* or one is added, is a queue of requests.
LEMMA QueueTypes ==
    ASSUME NEW s \in Seq(Reqs)
    PROVE  /\ \A r \in Reqs : Append(s, r) \in Seq(Reqs) /\ <<r>> \o s \in Seq(Reqs)
           /\ Range(s) \subseteq Reqs
           /\ s # <<>> => /\ Head(s) \in Reqs
                          /\ Tail(s) \in Seq(Reqs)
                          /\ s[Len(s)] \in Reqs
                          /\ SubSeq(s, 1, Len(s) - 1) \in Seq(Reqs)
<1>1. Range(s) \subseteq Reqs
  BY DEF Range
<1>2. ASSUME s # <<>>
      PROVE  /\ Head(s) \in Reqs
             /\ Tail(s) \in Seq(Reqs)
             /\ s[Len(s)] \in Reqs
  BY <1>2
<1>3. ASSUME s # <<>>
      PROVE  SubSeq(s, 1, Len(s) - 1) \in Seq(Reqs)
  <2>1. \A i \in 1..Len(s) - 1 : s[i] \in Reqs
    OBVIOUS
  <2>2. Len(s) - 1 \in Int /\ 1 \in Int
    OBVIOUS
  <2> QED
    BY <2>1, <1>3
<1>4. \A r \in Reqs : <<r>> \in Seq(Reqs)
  OBVIOUS
<1> QED
  BY <1>1, <1>2, <1>3, <1>4

\* A reordering of a queue of requests is a queue of requests.
LEMMA SortedQueue ==
    ASSUME NEW s \in Seq(Reqs)
    PROVE  /\ \A q \in ByArrival(s) : q \in Seq(Reqs)
           /\ \A S \in SUBSET Reqs : \A q \in InRowOrder(S, s) : q \in Seq(Reqs)
<1>1. ASSUME NEW q \in ByArrival(s)
      PROVE  q \in Seq(Reqs)
  <2>1. q \in [1..Len(s) -> Reqs]
    BY QueueTypes DEF ByArrival
  <2> QED
    BY <2>1, FunctionIsSeq
<1>2. ASSUME NEW S \in SUBSET Reqs, NEW q \in InRowOrder(S, s)
      PROVE  q \in Seq(Reqs)
  <2>1. q \in [1..Cardinality(S) -> Reqs]
    BY DEF InRowOrder
  <2>2. Cardinality(S) \in Nat
    BY RequestsAssumption, FS_Subset, FS_CardinalityType
  <2> QED
    BY <2>1, <2>2, FunctionIsSeq
<1> QED
  BY <1>1, <1>2

\* Popping the mailbox's heap leaves the other messages, each at most once, and
\* up to three messages come in the order they were sent.  The places the gap
\* comes through form a path: for two of them, the one that is further down is
\* at least as far down as the other's next.
LEMMA HeapRestProperties ==
    ASSUME NEW h \in Seq(Reqs), h # <<>>
    PROVE  /\ HeapRest(h) \in Seq(Reqs)
           /\ IsInjective(h) => /\ IsInjective(HeapRest(h))
                                /\ Range(HeapRest(h)) \subseteq Range(h) \ {Head(h)}
           /\ Len(h) <= 3 => HeapRest(h) = Tail(h)
<1> DEFINE m == Len(h) - 1
           below(i) == IF 2 * i + 1 <= m THEN 2 * i + 1
                       ELSE IF 2 * i = m THEN m ELSE m + 1
           Path == {S \in SUBSET (1..m + 1) :
                        1 \in S /\ \A i \in S : i <= m => below(i) \in S}
           gap(i) == \A S \in Path : i \in S
           from(i) == IF gap(i) THEN below(i) ELSE i
           rest == [i \in 1..m |-> IF gap(i) THEN h[below(i)] ELSE h[i]]
<1>1. m \in Nat /\ Len(h) = m + 1 /\ DOMAIN h = 1..m + 1 /\ Head(h) = h[1]
  OBVIOUS
<1> HIDE DEF m
<1>2. \A i \in 1..m + 1 : h[i] \in Reqs
  BY <1>1
<1>3. HeapRest(h) = rest
  BY DEF HeapRest, m
<1>4. 1..m + 1 \in Path
  <2>1. \A i \in 1..m + 1 : i <= m => below(i) \in 1..m + 1
    BY <1>1
  <2> HIDE DEF below, m
  <2>2. 1 \in 1..m + 1
    BY <1>1
  <2> QED
    BY <2>1, <2>2
<1>5. \A i : gap(i) => i \in 1..m + 1
  BY <1>4
<1>6. gap(1)
  OBVIOUS
<1>7. ASSUME NEW i \in 1..m, gap(i)
      PROVE  gap(below(i))
  <2>1. i <= m
    BY <1>1
  <2> HIDE DEF below, m
  <2> QED
    BY <1>7, <2>1
<1>8. ASSUME NEW S \in SUBSET (1..m + 1), 1 \in S,
             \A i \in S : gap(i) /\ i <= m => below(i) \in S
      PROVE  \A i : gap(i) => i \in S
  <2> DEFINE T == {i \in S : gap(i)}
  <2>1. ASSUME NEW i \in T, i <= m
        PROVE  below(i) \in T
    <3>1. i \in 1..m
      BY <1>1, <2>1
    <3> HIDE DEF below, m, gap
    <3> QED
      BY <1>7, <1>8, <2>1, <3>1
  <2>2. 1 \in T
    BY <1>6, <1>8
  <2>3. T \in SUBSET (1..m + 1)
    OBVIOUS
  <2>4. T \in Path
    <3> HIDE DEF T, below, m
    <3> QED
      BY <2>1, <2>2, <2>3
  <2> HIDE DEF Path
  <2> QED
    BY <2>4
<1>9. \A i \in 1..m : i < below(i) /\ below(i) \in 1..m + 1
  BY <1>1
<1>10. \A i, j \in 1..m : i <= j => below(i) <= below(j)
  BY <1>1
<1> HIDE DEF m, Path, gap, below, rest
<1> DEFINE Apart(i) == \A j \in 1..m + 1 : gap(j) => j <= i \/ below(i) <= j
<1>11. ASSUME NEW i \in 1..m, gap(i), Apart(i), below(i) <= m
       PROVE  Apart(below(i))
  <2> DEFINE S == {j \in 1..m + 1 : j <= below(i) \/ below(below(i)) <= j}
  <2>1. /\ i \in Int /\ m \in Int /\ 1 <= i /\ i < below(i) /\ below(i) \in 1..m
        /\ below(below(i)) \in Int /\ below(i) < below(below(i))
    BY <1>1, <1>9, <1>11
  <2>2. 1 \in S
    BY <1>1, <2>1
  <2>3. ASSUME NEW j \in S, gap(j), j <= m
        PROVE  below(j) \in S
    <3>1. j \in 1..m /\ below(j) \in 1..m + 1 /\ j < below(j) /\ j \in Int /\ below(j) \in Int
      BY <1>1, <1>9, <2>3
    <3>2. CASE below(below(i)) <= j
      BY <2>1, <3>1, <3>2
    <3>3. CASE j = below(i)
      BY <2>1, <3>1, <3>3
    <3>4. CASE j < below(i)
      <4>1. j <= i
        BY <1>11, <2>1, <2>3, <3>1, <3>4
      <4>2. below(j) <= below(i)
        BY <1>10, <3>1, <4>1
      <4> QED
        BY <3>1, <4>2
    <3> QED
      BY <2>1, <2>3, <3>1, <3>2, <3>3, <3>4
  <2>4. S \in SUBSET (1..m + 1)
    OBVIOUS
  <2>5. \A j : gap(j) => j \in S
    <3> HIDE DEF S
    <3> QED
      BY <1>8, <2>2, <2>3, <2>4
  <2> QED
    BY <2>5
<1>12. \A i \in 1..m : gap(i) => Apart(i)
  <2> DEFINE S == {i \in 1..m + 1 : i <= m => Apart(i)}
  <2>1. 1 \in S
    <3> DEFINE R == {j \in 1..m + 1 : j <= 1 \/ below(1) <= j}
    <3>1. CASE 1 <= m
      <4>1. 1 \in 1..m
        BY <1>1, <3>1
      <4>2. \A j \in R : gap(j) /\ j <= m => below(j) \in R
        <5> TAKE j \in R
        <5> HAVE gap(j) /\ j <= m
        <5>1. j \in 1..m /\ 1 <= j /\ below(j) \in 1..m + 1
          BY <1>1, <1>9
        <5>2. below(1) <= below(j)
          BY <1>10, <4>1, <5>1
        <5> QED
          BY <5>1, <5>2
      <4>3. 1 \in R /\ R \in SUBSET (1..m + 1)
        BY <1>1
      <4>4. \A j : gap(j) => j \in R
        <5> HIDE DEF R
        <5> QED
          BY <1>8, <4>2, <4>3
      <4> QED
        BY <1>1, <4>4
    <3>2. CASE ~(1 <= m)
      BY <1>1, <3>2
    <3> QED
      BY <3>1, <3>2
  <2>2. ASSUME NEW i \in S, gap(i), i <= m
        PROVE  below(i) \in S
    <3>1. i \in 1..m /\ below(i) \in 1..m + 1 /\ Apart(i)
      BY <1>1, <1>9, <2>2
    <3> HIDE DEF Apart
    <3>2. below(i) <= m => Apart(below(i))
      BY <1>11, <2>2, <3>1
    <3> QED
      BY <3>1, <3>2
  <2>3. S \in SUBSET (1..m + 1)
    OBVIOUS
  <2>4. \A i : gap(i) => i \in S
    <3> HIDE DEF S
    <3> QED
      BY <1>8, <2>1, <2>2, <2>3
  <2> HIDE DEF Apart
  <2>5. \A i \in 1..m : i <= m
    BY <1>1
  <2> QED
    BY <2>4, <2>5
<1>13. \A i \in 1..m : from(i) \in 2..m + 1
  <2> TAKE i \in 1..m
  <2>1. i \in Int /\ 1 <= i /\ i <= m /\ m \in Int
    BY <1>1
  <2>2. i < below(i) /\ below(i) \in 1..m + 1
    BY <1>9
  <2>3. ~gap(i) => i # 1
    BY <1>6
  <2> QED
    BY <2>1, <2>2, <2>3
<1>14. \A i, j \in 1..m : i < j => from(i) # from(j)
  <2> SUFFICES ASSUME NEW i \in 1..m, NEW j \in 1..m, i < j
               PROVE  from(i) # from(j)
    OBVIOUS
  <2>1. i < below(i) /\ j < below(j) /\ i \in Int /\ j \in Int /\ i <= m /\ j <= m
    BY <1>1, <1>9
  <2>2. below(i) \in 1..m + 1 /\ below(j) \in 1..m + 1 /\ j \in 1..m + 1 /\ i \in 1..m + 1
    BY <1>1, <1>9
  <2>3. CASE gap(i) /\ gap(j)
    <3>1. below(i) <= j
      BY <1>12, <2>1, <2>2, <2>3
    <3> QED
      BY <2>1, <2>2, <2>3, <3>1
  <2>4. CASE gap(i) /\ ~gap(j)
    <3>1. gap(below(i))
      BY <1>7, <2>4
    <3> QED
      BY <2>4, <3>1
  <2>5. CASE ~gap(i)
    BY <2>1, <2>2, <2>5
  <2> QED
    BY <2>3, <2>4, <2>5
<1>15. \A i \in 1..m : rest[i] = h[from(i)] /\ from(i) \in 1..m + 1 /\ from(i) # 1
  <2> TAKE i \in 1..m
  <2>1. rest[i] = h[from(i)]
    BY DEF rest
  <2>2. from(i) \in 2..m + 1
    BY <1>13
  <2> HIDE DEF from
  <2> QED
    BY <1>1, <2>1, <2>2
<1> HIDE DEF from
<1>16. rest \in Seq(Reqs) /\ DOMAIN rest = 1..m /\ Len(rest) = m
  <2>1. \A i \in 1..m : rest[i] \in Reqs
    BY <1>2, <1>15
  <2>2. rest = [i \in 1..m |-> rest[i]]
    BY DEF rest
  <2>3. rest \in [1..m -> Reqs]
    BY <2>1, <2>2
  <2> QED
    BY <1>1, <2>3, FunctionIsSeq
<1>17. ASSUME IsInjective(h)
       PROVE  IsInjective(rest) /\ Range(rest) \subseteq Range(h) \ {Head(h)}
  <2>1. \A i, j \in 1..m + 1 : h[i] = h[j] => i = j
    BY <1>1, <1>17 DEF IsInjective
  <2>2. \A i, j \in 1..m : from(i) = from(j) => i = j
    <3> TAKE i, j \in 1..m
    <3>1. i \in Int /\ j \in Int
      BY <1>1
    <3> QED
      BY <1>14, <3>1
  <2>3. \A i, j \in 1..m : rest[i] = rest[j] => i = j
    BY <1>15, <2>1, <2>2
  <2>4. 1 \in 1..m + 1
    BY <1>1
  <2>5. \A i \in 1..m : rest[i] # h[1] /\ rest[i] \in Range(h)
    BY <1>1, <1>15, <2>1, <2>4 DEF Range
  <2> QED
    BY <1>1, <1>16, <2>3, <2>5 DEF IsInjective, Range
<1>18. ASSUME Len(h) <= 3
       PROVE  rest = Tail(h)
  <2>1. m <= 2
    BY <1>1, <1>18
  <2>2. \A i \in 1..m : gap(i) /\ below(i) = i + 1
    <3>1. \A i \in 1..m : below(i) = i + 1
      BY <1>1, <2>1 DEF below
    <3>2. \A i \in 1..m : i = 1 \/ (i = 2 /\ 1 \in 1..m)
      BY <1>1, <2>1
    <3>3. 1 \in 1..m => gap(1 + 1)
      BY <1>6, <1>7, <3>1
    <3> QED
      BY <1>6, <3>1, <3>2, <3>3
  <2>3. \A i \in 1..m : rest[i] = h[i + 1]
    BY <2>2 DEF rest
  <2>4. Tail(h) \in Seq(Reqs) /\ Len(Tail(h)) = m /\ \A i \in 1..m : Tail(h)[i] = h[i + 1]
    BY <1>1
  <2> QED
    BY <1>16, <2>3, <2>4
<1> QED
  BY <1>3, <1>16, <1>17, <1>18

-----------------------------------------------------------------------------
(* Types *)

\* An idle worker satisfies the types.
LEMMA SchedInitTypes == SchedInit => SchedTypeOK
<1> SUFFICES ASSUME SchedInit
             PROVE  SchedTypeOK
  OBVIOUS
<1>1. <<>> \in Seq(Reqs)
  OBVIOUS
<1> QED
  BY <1>1 DEF SchedInit, SchedTypeOK, mail

\* What an ADD does to the scheduler keeps the types.
LEMMA AddRequestTypes ==
    ASSUME SchedTypeOK, NEW r \in Reqs, AddRequest(r), mailbox' \in Seq(Reqs),
           UNCHANGED crowded
    PROVE  SchedTypeOK'
<1>1. waiting' \in Seq(Reqs)
  BY QueueTypes DEF SchedTypeOK, mail, AddRequest
<1> QED
  BY <1>1 DEF SchedTypeOK, mail, AddRequest

\* A step between two messages keeps the types.
LEMMA MailboxTypes ==
    ASSUME SchedTypeOK
    PROVE  /\ \A r \in Reqs : Deliver(r) \/ Send(r) => SchedTypeOK'
           /\ Receive \/ StartStep => SchedTypeOK'
<1>1. ASSUME NEW r \in Reqs, Deliver(r)
      PROVE  SchedTypeOK'
  BY <1>1, AddRequestTypes DEF Deliver, SchedTypeOK, mail
<1>2. ASSUME NEW r \in Reqs, Send(r)
      PROVE  SchedTypeOK'
  <2>1. mailbox' \in Seq(Reqs)
    BY <1>2, QueueTypes DEF Send, SchedTypeOK, mail
  <2> QED
    BY <1>2, <2>1 DEF Send, SchedTypeOK, mail
<1>3. ASSUME Receive
      PROVE  SchedTypeOK'
  <2>1. mailbox \in Seq(Reqs) /\ mailbox # <<>>
    BY <1>3 DEF Receive, SchedTypeOK, mail
  <2>2. Head(mailbox) \in Reqs
    BY <2>1, QueueTypes
  <2>3. mailbox' \in Seq(Reqs)
    BY <1>3, <2>1, HeapRestProperties DEF Receive
  <2> QED
    BY <1>3, <2>2, <2>3, AddRequestTypes DEF Receive
<1>4. ASSUME StartStep
      PROVE  SchedTypeOK'
  <2>1. <<>> \in Seq(Reqs)
    OBVIOUS
  <2> QED
    BY <1>4, <2>1 DEF StartStep, SchedTypeOK, mail
<1> QED
  BY <1>1, <1>2, <1>3, <1>4

\* A step of schedule() keeps the types.
LEMMA ScheduleTypes ==
    ASSUME SchedTypeOK, Admit \/ EndAdmission \/ GiveSlot \/ Preempt \/ EndSlots
    PROVE  SchedTypeOK'
<1>1. CASE Admit
  <2>1. waiting \in Seq(Reqs) /\ waiting # <<>>
    BY <1>1 DEF Admit, MayAdmit, SchedTypeOK, mail
  <2>2. Head(waiting) \in Reqs /\ Tail(waiting) \in Seq(Reqs)
    BY <2>1, QueueTypes
  <2>3. running' \in Seq(Reqs) /\ batch' \in Seq(Reqs)
    BY <1>1, <2>2, QueueTypes DEF Admit, SchedTypeOK, mail
  <2> QED
    BY <1>1, <2>2, <2>3 DEF Admit, SchedTypeOK, mail
<1>2. CASE EndAdmission
  <2>1. <<>> \in Seq(Reqs)
    OBVIOUS
  <2>2. todo' \in Seq(Reqs) /\ running' \in Seq(Reqs)
    BY <1>2, <2>1, SortedQueue DEF EndAdmission, SchedTypeOK, mail
  <2> QED
    BY <1>2, <2>2 DEF EndAdmission, SchedTypeOK, mail
<1>3. CASE GiveSlot
  <2>1. todo \in Seq(Reqs) /\ todo # <<>>
    BY <1>3 DEF GiveSlot, SchedTypeOK, mail
  <2>2. Head(todo) \in Reqs /\ Tail(todo) \in Seq(Reqs)
    BY <2>1, QueueTypes
  <2>3. running' \in Seq(Reqs)
    BY <1>3, <2>2, QueueTypes DEF GiveSlot, SchedTypeOK, mail
  <2> QED
    BY <1>3, <2>2, <2>3 DEF GiveSlot, SchedTypeOK, mail
<1>4. CASE Preempt
  <2>1. todo \in Seq(Reqs) /\ todo # <<>>
    BY <1>4 DEF Preempt, SchedTypeOK, mail
  <2>2. todo[Len(todo)] \in Reqs /\ SubSeq(todo, 1, Len(todo) - 1) \in Seq(Reqs)
    BY <2>1, QueueTypes
  <2>3. waiting' \in Seq(Reqs)
    BY <1>4, <2>2, QueueTypes DEF Preempt, Requeued, SchedTypeOK, mail
  <2> QED
    BY <1>4, <2>2, <2>3 DEF Preempt, SchedTypeOK, mail
<1>5. CASE EndSlots
  BY <1>5 DEF EndSlots, SchedTypeOK, mail
<1> QED
  BY <1>1, <1>2, <1>3, <1>4, <1>5

\* A step of the loops after schedule() keeps the types.
LEMMA EffectTypes ==
    ASSUME SchedTypeOK,
           FinishRecompute \/ StepOne \/ CommitOne \/ FreeOne \/ NextLoop \/ EndStep
    PROVE  SchedTypeOK'
<1>1. todo # <<>> => Tail(todo) \in Seq(Reqs) /\ Head(todo) \in Reqs
  BY QueueTypes DEF SchedTypeOK, mail
<1>2. CASE FinishRecompute
  BY <1>1, <1>2 DEF FinishRecompute, SchedTypeOK, mail
<1>3. CASE StepOne
  BY <1>1, <1>3 DEF StepOne, SchedTypeOK, mail
<1>4. CASE CommitOne
  BY <1>1, <1>4 DEF CommitOne, SchedTypeOK, mail
<1>5. CASE FreeOne
  BY <1>1, <1>5 DEF FreeOne, SchedTypeOK, mail
<1>6. CASE NextLoop
  BY <1>6 DEF NextLoop, SchedTypeOK, mail
<1>7. CASE EndStep
  <2>1. {r \in Range(running) : ~IsDone(r)} \in SUBSET Reqs
    BY QueueTypes DEF SchedTypeOK, mail
  <2>2. running' \in Seq(Reqs)
    BY <1>7, <2>1, SortedQueue DEF EndStep, SchedTypeOK, mail
  <2>3. <<>> \in Seq(Reqs)
    OBVIOUS
  <2> QED
    BY <1>7, <2>2, <2>3 DEF EndStep, SchedTypeOK, mail
<1> QED
  BY <1>2, <1>3, <1>4, <1>5, <1>6, <1>7

\* Every step keeps the types.
LEMMA SchedNextTypes == SchedTypeOK /\ [SchedNext]_allVars => SchedTypeOK'
<1> SUFFICES ASSUME SchedTypeOK, [SchedNext]_allVars
             PROVE  SchedTypeOK'
  OBVIOUS
<1>1. CASE UNCHANGED allVars
  BY <1>1 DEF allVars, schedVars, SchedTypeOK, mail
<1>2. CASE SchedNext
  BY <1>2, MailboxTypes, ScheduleTypes, EffectTypes DEF SchedNext, WorkerNext
<1> QED
  BY <1>1, <1>2

\* The queues, the batch and the mailbox of the worker hold requests only, each
\* variable in its type, for every number of requests and every capacity.
THEOREM SchedulerTyped == SchedSpec => []SchedTypeOK
<1> QED
  BY SchedInitTypes, SchedNextTypes, PTL DEF SchedSpec

-----------------------------------------------------------------------------
(* Refinement *)

\* Every step of the worker is one block operation, or leaves the blocks alone.
LEMMA WorkerStepsBlocks == SchedTypeOK /\ [SchedNext]_allVars => [Next]_vars
<1> SUFFICES ASSUME SchedTypeOK, [SchedNext]_allVars
             PROVE  [Next]_vars
  OBVIOUS
<1>1. todo # <<>> => Head(todo) \in Reqs /\ todo[Len(todo)] \in Reqs
  BY QueueTypes DEF SchedTypeOK, mail
<1>2. ASSUME NEW r \in Reqs,
             \/ Allocate(r) \/ AppendSlot(r) \/ Step(r)
             \/ CommitInput(r) \/ Release(r) \/ Finish(r)
      PROVE  [Next]_vars
  BY <1>2 DEF Next
<1>3. CASE UNCHANGED allVars
  BY <1>3 DEF allVars
<1>4. CASE Admit
  <2>1. Head(waiting) \in Reqs
    BY <1>4, QueueTypes DEF Admit, MayAdmit, SchedTypeOK, mail
  <2> QED
    BY <1>2, <1>4, <2>1 DEF Admit
<1>5. CASE GiveSlot
  BY <1>1, <1>2, <1>5 DEF GiveSlot
<1>6. CASE Preempt
  BY <1>1, <1>2, <1>6 DEF Preempt
<1>7. CASE FinishRecompute
  BY <1>1, <1>2, <1>7 DEF FinishRecompute
<1>8. CASE StepOne
  BY <1>1, <1>2, <1>8 DEF StepOne
<1>9. CASE CommitOne
  BY <1>1, <1>2, <1>9 DEF CommitOne
<1>10. CASE FreeOne
  BY <1>1, <1>2, <1>10 DEF FreeOne
<1>11. CASE Receive
  BY <1>11 DEF Receive, AddRequest
<1>12. CASE \E r \in Reqs : Deliver(r) \/ Send(r)
  BY <1>12 DEF Deliver, Send, AddRequest
<1>13. CASE StartStep \/ EndAdmission \/ EndSlots \/ NextLoop \/ EndStep
  BY <1>13 DEF StartStep, EndAdmission, EndSlots, NextLoop, EndStep
<1> QED
  BY <1>3, <1>4, <1>5, <1>6, <1>7, <1>8, <1>9, <1>10, <1>11, <1>12, <1>13
     DEF SchedNext, WorkerNext

\* The scheduler implements the block layer: admission, slots, preemption,
\* recompute and completion are sequences of BlockManager operations.
THEOREM SchedulerImplementsBlocks == SchedSpec => Spec
<1>1. SchedInit => Init
  BY DEF SchedInit
<1> QED
  BY <1>1, WorkerStepsBlocks, SchedulerTyped, PTL DEF SchedSpec, Spec

\* Hence no schedule leaks a block, reuses one that is referenced or takes a
\* stale cache entry.
THEOREM SchedulerKeepsBlocks ==
    SchedSpec => [](RefCounts /\ FreeQueueExact /\ CacheSound)
<1> QED
  BY SchedulerImplementsBlocks, NoBlockLeaks, PrefixCacheSound, PTL

-----------------------------------------------------------------------------
(* Queues as sets *)

\* The last request of a queue and what is left without it.
LEMMA FrontRange ==
    ASSUME NEW s \in Seq(Reqs), s # <<>>, IsInjective(s)
    PROVE  LET front == SubSeq(s, 1, Len(s) - 1)
               last == s[Len(s)]
           IN  /\ front \in Seq(Reqs) /\ IsInjective(front)
               /\ last \in Range(s) /\ last \notin Range(front)
               /\ Range(s) = Range(front) \cup {last}
               /\ Len(front) = Len(s) - 1
               /\ \A i \in DOMAIN front : i \in DOMAIN s /\ front[i] = s[i]
<1> DEFINE front == SubSeq(s, 1, Len(s) - 1)
           n == Len(s)
<1>1. n \in Nat \ {0} /\ DOMAIN s = 1..n /\ \A i \in 1..n : s[i] \in Reqs
  OBVIOUS
<1>2. front \in Seq(Reqs) /\ Len(front) = n - 1 /\ DOMAIN front = 1..(n - 1)
  BY QueueTypes, <1>1
<1>3. \A i \in 1..(n - 1) : front[i] = s[i]
  BY <1>1
<1> HIDE DEF front, n
<1>4. \A i \in 1..n : i \in 1..(n - 1) \/ i = n
  BY <1>1
<1>5. \A i \in 1..(n - 1) : i \in 1..n /\ i # n
  BY <1>1
<1>6. n \in 1..n
  BY <1>1
<1>7. \A i, j \in 1..n : s[i] = s[j] => i = j
  BY <1>1 DEF IsInjective
<1>8. IsInjective(front)
  BY <1>2, <1>3, <1>5, <1>7 DEF IsInjective
<1>9. s[n] \in Range(s) /\ s[n] \notin Range(front)
  BY <1>1, <1>2, <1>3, <1>5, <1>6, <1>7 DEF Range
<1>10. Range(s) = Range(front) \cup {s[n]}
  BY <1>1, <1>2, <1>3, <1>4, <1>5, <1>6 DEF Range
<1> QED
  BY <1>1, <1>2, <1>3, <1>5, <1>8, <1>9, <1>10 DEF front, n

\* A request put in front of a queue.
LEMMA PrependRange ==
    ASSUME NEW s \in Seq(Reqs), NEW r \in Reqs
    PROVE  /\ <<r>> \o s \in Seq(Reqs)
           /\ Range(<<r>> \o s) = Range(s) \cup {r}
           /\ IsInjective(s) /\ r \notin Range(s) => IsInjective(<<r>> \o s)
<1> DEFINE one == <<r>>
<1>1. one \in Seq(Reqs) /\ Range(one) = {r} /\ IsInjective(one)
  BY DEF Range, IsInjective
<1> HIDE DEF one
<1>2. /\ one \o s \in Seq(Reqs) /\ Range(one \o s) = Range(one) \cup Range(s)
      /\ Range(one) \cap Range(s) = {} /\ IsInjective(s) => IsInjective(one \o s)
  BY <1>1, ConcatRange
<1> QED
  BY <1>1, <1>2 DEF one

\* The empty queue has no element, and only it has none.
LEMMA EmptyRange ==
    ASSUME NEW s \in Seq(Reqs)
    PROVE  /\ Range(s) = {} <=> s = <<>>
           /\ s # <<>> => s[1] \in Range(s) /\ s[1] = Head(s)
<1>1. ASSUME s # <<>>
      PROVE  s[1] \in Range(s) /\ s[1] = Head(s)
  <2>1. 1 \in DOMAIN s
    BY <1>1
  <2> QED
    BY <2>1 DEF Range
<1>2. ASSUME s = <<>>
      PROVE  Range(s) = {}
  BY <1>2 DEF Range
<1> QED
  BY <1>1, <1>2

LEMMA NoneRange == IsInjective(<<>>) /\ Range(<<>>) = {}
BY DEF Range, IsInjective

\* Sorting a queue by arrival keeps its requests, each once.
LEMMA ByArrivalProperties ==
    ASSUME NEW s \in Seq(Reqs), IsInjective(s), NEW q \in ByArrival(s)
    PROVE  /\ q \in Seq(Reqs) /\ IsInjective(q)
           /\ Range(q) = Range(s)
           /\ \A i, j \in DOMAIN q : i < j => Arrival[q[i]] <= Arrival[q[j]]
<1> DEFINE n == Len(s)
<1>1. n \in Nat /\ Range(s) \subseteq Reqs
  BY QueueTypes
<1>2. /\ q \in [1..n -> Range(s)] /\ DOMAIN q = 1..n
      /\ \A i, j \in 1..n : i < j =>
            \/ Arrival[q[i]] < Arrival[q[j]]
            \/ Arrival[q[i]] = Arrival[q[j]] /\ Pos(s, q[i]) < Pos(s, q[j])
  BY DEF ByArrival
<1> HIDE DEF n
<1>3. q \in Seq(Reqs) /\ q \in Seq(Range(s)) /\ Len(q) = n
  <2>1. q \in [1..n -> Reqs]
    BY <1>1, <1>2
  <2> QED
    BY <1>1, <1>2, <2>1, FunctionIsSeq
<1>4. \A i \in 1..n : Arrival[q[i]] \in Nat /\ Pos(s, q[i]) \in Int
  <2> TAKE i \in 1..n
  <2>1. q[i] \in Range(s) /\ q[i] \in Reqs
    BY <1>1, <1>2
  <2>2. PICK j \in DOMAIN s : s[j] = q[i]
    BY <2>1 DEF Range
  <2>3. Pos(s, q[i]) = j /\ j \in Int
    BY <2>2, PosOfElement
  <2> QED
    BY <2>1, <2>3, LimitsAssumption
<1>5. \A i, j \in 1..n : i < j => Arrival[q[i]] <= Arrival[q[j]] /\ q[i] # q[j]
  BY <1>2, <1>4
<1>6. IsInjective(q)
  <2>1. \A i, j \in 1..n : i = j \/ i < j \/ j < i
    BY <1>1
  <2> QED
    BY <1>2, <1>5, <2>1 DEF IsInjective
<1>7. Range(q) = Range(s)
  <2>1. /\ IsFiniteSet(Range(s)) /\ Cardinality(Range(s)) = n
        /\ Cardinality(Range(q)) = n
    BY <1>3, <1>6, InjectiveLength DEF n
  <2>2. Range(q) \in SUBSET Range(s)
    BY <1>2 DEF Range
  <2> QED
    BY <2>1, <2>2, FS_Subset
<1> QED
  BY <1>2, <1>3, <1>5, <1>6, <1>7

\* Dropping requests from a queue keeps the others, each once.
LEMMA InRowOrderProperties ==
    ASSUME NEW s \in Seq(Reqs), IsInjective(s), NEW S \in SUBSET Range(s),
           NEW q \in InRowOrder(S, s)
    PROVE  q \in Seq(Reqs) /\ IsInjective(q) /\ Range(q) = S
<1> DEFINE n == Cardinality(S)
<1>1. /\ q \in [1..n -> S] /\ Range(q) = S /\ DOMAIN q = 1..n
      /\ \A i, j \in 1..n : i < j => Pos(s, q[i]) < Pos(s, q[j])
  BY DEF InRowOrder
<1>2. Range(s) \subseteq Reqs
  BY QueueTypes
<1>3. q \in Seq(Reqs)
  BY <1>2, SortedQueue
<1>4. n \in Nat
  BY <1>2, RequestsAssumption, FS_Subset, FS_CardinalityType
<1> HIDE DEF n
<1>5. \A i \in 1..n : Pos(s, q[i]) \in Int
  <2> TAKE i \in 1..n
  <2>1. PICK j \in DOMAIN s : s[j] = q[i]
    BY <1>1 DEF Range
  <2>2. Pos(s, q[i]) = j /\ j \in Int
    BY <2>1, PosOfElement
  <2> QED
    BY <2>2
<1>6. \A i, j \in 1..n : i < j => q[i] # q[j]
  BY <1>1, <1>5
<1>7. IsInjective(q)
  <2>1. \A i, j \in 1..n : i = j \/ i < j \/ j < i
    BY <1>4
  <2> QED
    BY <1>1, <1>6, <2>1 DEF IsInjective
<1> QED
  BY <1>1, <1>3, <1>7

-----------------------------------------------------------------------------
(* What a block operation does to the rows *)

\* The number of blocks a request needs is positive, and a token more needs at
\* most one block more.
LEMMA NumLogicalProperties ==
    ASSUME TypeOK, NEW r \in Reqs
    PROVE  /\ NumLogical(r) \in Nat \ {0}
           /\ gen'[r] = gen[r] + 1 =>
                NumLogical(r)' \in {NumLogical(r), NumLogical(r) + 1}
<1> DEFINE x == PrefillLen[r] + gen[r] + BlockSize - 1
<1>1. /\ x \in Nat /\ BlockSize \in Nat \ {0} /\ BlockSize <= x
      /\ gen[r] \in Nat /\ PrefillLen[r] \in Nat
  BY SizesAssumption, RequestsAssumption DEF TypeOK
<1>2. NumLogical(r) = x \div BlockSize
  BY DEF NumLogical
<1>3. ASSUME gen'[r] = gen[r] + 1
      PROVE  NumLogical(r)' = (x + 1) \div BlockSize
  <2>1. PrefillLen[r] + gen'[r] + BlockSize - 1 = x + 1
    BY <1>1, <1>3
  <2> QED
    BY <2>1 DEF NumLogical
<1> HIDE DEF x
<1>4. PICK p \in Int, q \in Int : p = x \div BlockSize /\ q = (x + 1) \div BlockSize
  BY <1>1
<1>5. /\ p * BlockSize <= x /\ x < (p + 1) * BlockSize
      /\ q * BlockSize <= x + 1 /\ x + 1 < (q + 1) * BlockSize
  BY <1>1, <1>4
<1>6. p >= 1
  <2> SUFFICES ASSUME p + 1 <= 1
               PROVE  FALSE
    OBVIOUS
  <2>1. (p + 1) * BlockSize <= 1 * BlockSize
    BY <1>1
  <2> QED
    BY <1>1, <1>5, <2>1
<1>7. p <= q
  <2> SUFFICES ASSUME q + 1 <= p
               PROVE  FALSE
    OBVIOUS
  <2>1. (q + 1) * BlockSize <= p * BlockSize
    BY <1>1
  <2> QED
    BY <1>1, <1>5, <2>1
<1>8. q <= p + 1
  <2> SUFFICES ASSUME p + 2 <= q
               PROVE  FALSE
    OBVIOUS
  <2>1. (p + 2) * BlockSize <= q * BlockSize
    BY <1>1
  <2>2. (p + 2) * BlockSize = (p + 1) * BlockSize + BlockSize
    BY <1>1
  <2> QED
    BY <1>1, <1>5, <2>1, <2>2
<1> QED
  BY <1>2, <1>3, <1>4, <1>6, <1>7, <1>8

\* Admission gives a request exactly the blocks its tokens need.
LEMMA AllocateRow ==
    ASSUME IInv, NEW r \in Reqs, Allocate(r)
    PROVE  /\ gen' = gen /\ gen[r] < DecodeLen[r]
           /\ \A o \in Owners \ {r} : held'[o] = held[o]
           /\ Len(held'[r]) = NumLogical(r)
<1>1. PICK h \in 0..Len(InputKeys[r]) :
         /\ IsHitCount(r, h)
         /\ \E new \in [1..MissCount(r, h) -> Blocks] :
              Take(r, HitBlocks(r, h), new,
                   [i \in DOMAIN new |-> IF h + i <= Len(InputKeys[r])
                                         THEN InputKeys[r][h + i] ELSE NoKey])
  BY DEF Allocate
<1>2. PICK new \in [1..MissCount(r, h) -> Blocks] :
         held' = [held EXCEPT ![r] = (@ \o HitBlocks(r, h)) \o new]
  BY <1>1 DEF Take
<1>3. held \in [Owners -> Seq(Blocks)] /\ r \in Owners /\ held[r] = <<>>
  BY DEF IInv, TypeOK, Owners, Allocate
<1>4. HitBlocks(r, h) \in Seq(Blocks) /\ Len(HitBlocks(r, h)) = h
  BY <1>1, HitsAreThePrefix
<1>5. NumLogical(r) \in Int /\ Len(InputKeys[r]) <= NumLogical(r) /\ Len(InputKeys[r]) \in Nat
  BY LogicalCoversInput, ChainType
<1>6. MissCount(r, h) = NumLogical(r) - h /\ MissCount(r, h) \in Nat
  BY <1>5 DEF MissCount
<1>7. new \in Seq(Blocks) /\ Len(new) = MissCount(r, h)
  BY <1>6, FunctionIsSeq
<1>8. held'[r] = (<<>> \o HitBlocks(r, h)) \o new
  BY <1>2, <1>3
<1>9. <<>> \o HitBlocks(r, h) \in Seq(Blocks) /\ Len(<<>> \o HitBlocks(r, h)) = h
  BY <1>4
<1>10. Len(held'[r]) = h + MissCount(r, h)
  <2> DEFINE front == <<>> \o HitBlocks(r, h)
  <2>1. front \in Seq(Blocks) /\ Len(front) = h /\ held'[r] = front \o new
    BY <1>8, <1>9
  <2> HIDE DEF front
  <2>2. Len(front \o new) = Len(front) + Len(new)
    BY <1>7, <2>1, ConcatProperties
  <2> QED
    BY <1>7, <2>1, <2>2
<1>11. \A o \in Owners \ {r} : held'[o] = held[o]
  BY <1>2, <1>3
<1> QED
  BY <1>5, <1>6, <1>10, <1>11 DEF Allocate

\* append_slot() adds one block to the request's row.
LEMMA AppendSlotRow ==
    ASSUME IInv, NEW r \in Reqs, AppendSlot(r)
    PROVE  /\ gen' = gen
           /\ \A o \in Owners \ {r} : held'[o] = held[o]
           /\ Len(held'[r]) = Len(held[r]) + 1
<1>1. PICK new \in [1..1 -> Blocks] :
         held' = [held EXCEPT ![r] = (@ \o <<>>) \o new]
  BY DEF AppendSlot, Take
<1>2. held \in [Owners -> Seq(Blocks)] /\ r \in Owners
  BY DEF IInv, TypeOK, Owners
<1>3. new \in Seq(Blocks) /\ Len(new) = 1
  <2>1. PICK one \in Int : one = 1
    OBVIOUS
  <2>2. new \in [1..one -> Blocks]
    BY <2>1
  <2>3. new \in Seq(Blocks) /\ Len(new) = IF one >= 0 THEN one ELSE 0
    BY <2>2, FunctionIsSeq
  <2> QED
    BY <2>1, <2>3
<1>4. held'[r] = (held[r] \o <<>>) \o new
  BY <1>1, <1>2
<1>5. held[r] \o <<>> \in Seq(Blocks) /\ Len(held[r] \o <<>>) = Len(held[r])
  BY <1>2
<1>6. Len(held'[r]) = Len(held[r]) + 1
  <2> DEFINE front == held[r] \o <<>>
  <2>1. front \in Seq(Blocks) /\ Len(front) = Len(held[r]) /\ held'[r] = front \o new
    BY <1>4, <1>5
  <2> HIDE DEF front
  <2>2. Len(front \o new) = Len(front) + Len(new)
    BY <1>3, <2>1, ConcatProperties
  <2> QED
    BY <1>3, <2>1, <2>2
<1>7. \A o \in Owners \ {r} : held'[o] = held[o]
  BY <1>1, <1>2
<1> QED
  BY <1>6, <1>7 DEF AppendSlot

\* A request that is preempted or finished lets go of all its blocks.
LEMMA FreedRow ==
    ASSUME IInv, NEW r \in Reqs, Release(r) \/ Finish(r)
    PROVE  /\ gen' = gen
           /\ \A o \in Owners \ {r} : held'[o] = held[o]
           /\ held'[r] = <<>>
           /\ Finish(r) => gen[r] = DecodeLen[r]
<1>1. held \in [Owners -> Seq(Blocks)] /\ r \in Owners
  BY DEF IInv, TypeOK, Owners
<1>2. held' = [held EXCEPT ![r] = SubSeq(@, Len(held[r]) + 1, Len(@))]
  BY DEF Release, Finish, FreeFirst
<1>3. held'[r] = SubSeq(held[r], Len(held[r]) + 1, Len(held[r]))
  BY <1>1, <1>2
<1>4. held'[r] = <<>>
  BY <1>1, <1>3
<1>5. \A o \in Owners \ {r} : held'[o] = held[o]
  BY <1>1, <1>2
<1> QED
  BY <1>4, <1>5 DEF Release, Finish

-----------------------------------------------------------------------------
(* The invariant of the worker's queues *)

\* Where a loop is: which requests it has handled, and which it has not.
LoopsAgree ==
    /\ IsInjective(todo) /\ IsInjective(batch)
    /\ pc = "mailbox" => todo = <<>> /\ batch = <<>>
    /\ pc = "admit" => todo = <<>>
    /\ pc = "slots" => batch = <<>> /\ Range(todo) \cap Range(running) = {}
    /\ pc # "slots" => Range(todo) \subseteq Range(batch)
    /\ Range(batch) \subseteq Range(running)

\* A request that has all its tokens and is not yet freed is in the batch that
\* made the last one.
DoneIsFreed ==
    \A r \in Reqs : status[r] = "RUNNING" /\ IsDone(r) =>
        /\ r \in Range(batch)
        /\ \/ pc = "step" /\ r \notin Range(todo)
           \/ pc = "commit"
           \/ pc = "free" /\ r \in Range(todo)

\* What each request has to do next: a preempted one recomputes what it had.
PhasesAgree ==
    /\ \A r \in Reqs :
        /\ gen[r] <= DecodeLen[r]
        /\ status[r] = "NEW" => gen[r] = 0 /\ ~needsRecompute[r]
        /\ status[r] = "WAITING" => (needsRecompute[r] <=> gen[r] > 0)
        /\ status[r] = "RUNNING" =>
            IF pc = "admit" /\ r \in Range(batch) THEN needsRecompute[r] <=> gen[r] > 0
            ELSE IF pc = "recompute" /\ r \in Range(todo) THEN needsRecompute[r] /\ gen[r] > 0
            ELSE IF pc = "step" /\ r \in Range(todo) THEN ~needsRecompute[r]
            ELSE ~needsRecompute[r] /\ gen[r] > 0
    /\ pc = "admit" => \A r \in Range(batch) : needsRecompute[r] = needsRecompute[batch[1]]
    /\ pc = "step" => \/ \A r \in Range(todo) : gen[r] = 0
                      \/ \A r \in Range(todo) : gen[r] > 0

\* Which rows are as long as the tokens need, and which may lack a block.
RowsFit ==
    /\ \A r \in Reqs : status[r] = "RUNNING" =>
        /\ Len(held[r]) \in {NumLogical(r) - 1, NumLogical(r)}
        /\ \/ pc = "admit" /\ r \in Range(batch)
           \/ pc = "slots" /\ r \in Range(running)
           \/ pc = "step" /\ r \in Range(todo)
           => Len(held[r]) = NumLogical(r)
    /\ held[Reserve] = <<>>

\* A resting worker is between two messages.
RestsEmpty ==
    workerStatus = "WAITING" => pc = "mailbox" /\ waiting = <<>> /\ running = <<>>

\* The slot loop goes by arrival.
SlotsInOrder ==
    pc = "slots" =>
        /\ \A i, j \in DOMAIN todo : i < j => Arrival[todo[i]] <= Arrival[todo[j]]
        /\ \A r \in Range(running), s \in Range(todo) : Arrival[r] <= Arrival[s]

SchedInv ==
    /\ SchedTypeOK /\ QueuesAgree /\ LoopsAgree /\ DoneIsFreed /\ PhasesAgree
    /\ RowsFit /\ RestsEmpty /\ SlotsInOrder

\* As long as no token is made, each request needs the blocks it needed.
LEMMA SameLogical ==
    ASSUME gen' = gen
    PROVE  \A r \in Reqs : NumLogical(r)' = NumLogical(r)
BY DEF NumLogical

\* A worker that was just built.
LEMMA SchedInitInv == SchedInit => SchedInv
<1> SUFFICES ASSUME SchedInit
             PROVE  SchedInv
  OBVIOUS
<1>1. SchedTypeOK
  BY SchedInitTypes
<1>2. /\ pc = "mailbox" /\ waiting = <<>> /\ running = <<>> /\ mailbox = <<>>
      /\ todo = <<>> /\ batch = <<>>
      /\ \A r \in Reqs : /\ status[r] = "NEW" /\ gen[r] = 0 /\ held[r] = <<>>
                         /\ ~needsRecompute[r]
      /\ held[Reserve] = <<>>
  BY RequestsAssumption DEF SchedInit, Init, Owners
<1>a. \A r \in Reqs : DecodeLen[r] \in Nat
  BY RequestsAssumption
<1>3. IsInjective(<<>>) /\ Range(<<>>) = {}
  BY DEF IsInjective, Range
<1>4. QueuesAgree
  BY <1>2, <1>3 DEF QueuesAgree, Active
<1>5. LoopsAgree /\ DoneIsFreed
  BY <1>2, <1>3 DEF LoopsAgree, DoneIsFreed
<1>6. PhasesAgree /\ RowsFit /\ RestsEmpty /\ SlotsInOrder
  BY <1>2, <1>3, <1>a DEF PhasesAgree, RowsFit, RestsEmpty, SlotsInOrder
<1> QED
  BY <1>1, <1>4, <1>5, <1>6 DEF SchedInv

\* An ADD queues a request that was nowhere before.
LEMMA AddRequestInv ==
    ASSUME SchedInv, SchedTypeOK', NEW r \in Reqs, AddRequest(r),
           pc = "mailbox", status[r] = "NEW",
           IsInjective(mailbox'), Range(mailbox') \subseteq Range(mailbox) \ {r}
    PROVE  SchedInv'
<1>1. /\ SchedTypeOK /\ QueuesAgree /\ LoopsAgree /\ DoneIsFreed /\ PhasesAgree
      /\ RowsFit /\ RestsEmpty /\ SlotsInOrder
  BY DEF SchedInv
<1>2. /\ UNCHANGED <<held, gen, pc, running, todo, batch, needsRecompute>>
      /\ status' = [status EXCEPT ![r] = "WAITING"]
      /\ waiting' = Append(waiting, r) /\ workerStatus' = "RUNNING"
  BY DEF AddRequest, vars
<1>3. /\ status'[r] = "WAITING"
      /\ \A s \in Reqs : s # r => status'[s] = status[s]
  BY <1>1, <1>2 DEF SchedTypeOK
<1>4. r \notin Range(waiting)
  BY <1>1 DEF QueuesAgree
<1>5. /\ Range(waiting') = Range(waiting) \cup {r}
      /\ IsInjective(waiting')
  BY <1>1, <1>2, <1>4, AppendRange DEF SchedTypeOK, QueuesAgree
<1>6. \A s \in Reqs : NumLogical(s)' = NumLogical(s)
  BY <1>2, SameLogical
<1>7. QueuesAgree'
  BY <1>1, <1>2, <1>3, <1>5 DEF QueuesAgree, Active, IsDone
<1>8. LoopsAgree' /\ DoneIsFreed'
  BY <1>1, <1>2, <1>3 DEF LoopsAgree, DoneIsFreed, IsDone
<1>9. PhasesAgree'
  BY <1>1, <1>2, <1>3 DEF PhasesAgree
<1>10. RowsFit'
  BY <1>1, <1>2, <1>3, <1>6 DEF RowsFit
<1>11. RestsEmpty' /\ SlotsInOrder'
  BY <1>1, <1>2 DEF RestsEmpty, SlotsInOrder
<1> QED
  BY <1>7, <1>8, <1>9, <1>10, <1>11 DEF SchedInv

\* The steps between two messages.
LEMMA MailboxInv ==
    ASSUME SchedInv, SchedTypeOK'
    PROVE  /\ \A r \in Reqs : Deliver(r) \/ Send(r) => SchedInv'
           /\ Receive \/ StartStep => SchedInv'
<1>1. /\ SchedTypeOK /\ QueuesAgree /\ LoopsAgree /\ DoneIsFreed /\ PhasesAgree
      /\ RowsFit /\ RestsEmpty /\ SlotsInOrder
  BY DEF SchedInv
<1>2. ASSUME NEW r \in Reqs, Deliver(r)
      PROVE  SchedInv'
  <2>1. /\ AddRequest(r) /\ pc = "mailbox" /\ status[r] = "NEW"
        /\ mailbox' = mailbox /\ r \notin Range(mailbox)
    BY <1>2 DEF Deliver, Sendable, mail
  <2>2. IsInjective(mailbox') /\ Range(mailbox') \subseteq Range(mailbox) \ {r}
    BY <1>1, <2>1 DEF QueuesAgree
  <2> QED
    BY <2>1, <2>2, AddRequestInv
<1>3. ASSUME Receive
      PROVE  SchedInv'
  <2>1. mailbox \in Seq(Reqs) /\ mailbox # <<>> /\ IsInjective(mailbox)
    BY <1>1, <1>3 DEF Receive, SchedTypeOK, QueuesAgree
  <2>2. Head(mailbox) \in Reqs /\ Head(mailbox) \in Range(mailbox)
    BY <2>1, EmptyRange, QueueTypes
  <2>3. AddRequest(Head(mailbox)) /\ pc = "mailbox" /\ mailbox' = HeapRest(mailbox)
    BY <1>3 DEF Receive
  <2>4. status[Head(mailbox)] = "NEW"
    BY <1>1, <2>2 DEF QueuesAgree
  <2>5. /\ IsInjective(mailbox')
        /\ Range(mailbox') \subseteq Range(mailbox) \ {Head(mailbox)}
    BY <2>1, <2>3, HeapRestProperties
  <2> QED
    BY <2>2, <2>3, <2>4, <2>5, AddRequestInv
<1>4. ASSUME NEW r \in Reqs, Send(r)
      PROVE  SchedInv'
  <2>1. /\ UNCHANGED <<held, gen, pc, workerStatus, status, waiting, running, todo, batch, needsRecompute>>
        /\ mailbox' = Append(mailbox, r)
        /\ status[r] = "NEW" /\ r \notin Range(mailbox)
    BY <1>4 DEF Send, Sendable, vars
  <2>2. IsInjective(mailbox') /\ Range(mailbox') = Range(mailbox) \cup {r}
    BY <1>1, <2>1, AppendRange DEF SchedTypeOK, QueuesAgree
  <2>3. \A s \in Reqs : NumLogical(s)' = NumLogical(s)
    BY <2>1, SameLogical
  <2>4. QueuesAgree'
    BY <1>1, <2>1, <2>2 DEF QueuesAgree, Active, IsDone
  <2>5. LoopsAgree' /\ DoneIsFreed'
    BY <1>1, <2>1 DEF LoopsAgree, DoneIsFreed, IsDone
  <2>6. PhasesAgree'
    BY <1>1, <2>1 DEF PhasesAgree
  <2>7. RowsFit' /\ RestsEmpty' /\ SlotsInOrder'
    BY <1>1, <2>1, <2>3 DEF RowsFit, RestsEmpty, SlotsInOrder
  <2> QED
    BY <2>4, <2>5, <2>6, <2>7 DEF SchedInv
<1>5. ASSUME StartStep
      PROVE  SchedInv'
  <2>1. /\ UNCHANGED <<held, gen, workerStatus, mailbox, status, waiting, running, todo, needsRecompute>>
        /\ pc = "mailbox" /\ pc' = "admit" /\ workerStatus = "RUNNING" /\ batch' = <<>>
    BY <1>5 DEF StartStep, mail, vars
  <2>2. todo = <<>> /\ batch = <<>>
    BY <1>1, <2>1 DEF LoopsAgree
  <2>3. Range(<<>>) = {} /\ IsInjective(<<>>)
    BY DEF Range, IsInjective
  <2>4. \A s \in Reqs : NumLogical(s)' = NumLogical(s)
    BY <2>1, SameLogical
  <2>5. QueuesAgree'
    BY <1>1, <2>1 DEF QueuesAgree, Active, IsDone
  <2>6. LoopsAgree' /\ DoneIsFreed'
    BY <1>1, <2>1, <2>2, <2>3 DEF LoopsAgree, DoneIsFreed, IsDone
  <2>7. PhasesAgree'
    BY <1>1, <2>1, <2>2, <2>3 DEF PhasesAgree
  <2>8. RowsFit' /\ RestsEmpty' /\ SlotsInOrder'
    BY <1>1, <2>1, <2>2, <2>3, <2>4 DEF RowsFit, RestsEmpty, SlotsInOrder
  <2> QED
    BY <2>5, <2>6, <2>7, <2>8 DEF SchedInv
<1> QED
  BY <1>2, <1>3, <1>4, <1>5

\* Admission moves the head of waiting to running and into the batch.
LEMMA AdmitInv ==
    ASSUME IInv, SchedInv, SchedTypeOK', Admit
    PROVE  SchedInv'
<1> DEFINE r == Head(waiting)
<1>1. /\ SchedTypeOK /\ QueuesAgree /\ LoopsAgree /\ DoneIsFreed /\ PhasesAgree
      /\ RowsFit /\ RestsEmpty /\ SlotsInOrder
  BY DEF SchedInv
<1>2. /\ waiting \in Seq(Reqs) /\ waiting # <<>> /\ IsInjective(waiting)
      /\ running \in Seq(Reqs) /\ batch \in Seq(Reqs)
      /\ IsInjective(running) /\ IsInjective(batch)
  BY <1>1 DEF Admit, MayAdmit, SchedTypeOK, QueuesAgree, LoopsAgree
<1>3. /\ r \in Reqs /\ r \in Range(waiting) /\ IsInjective(Tail(waiting))
      /\ Range(waiting) = Range(Tail(waiting)) \cup {r} /\ r \notin Range(Tail(waiting))
  BY <1>2, QueueTypes, TailRange
<1> HIDE DEF r
<1>4. /\ Allocate(r) /\ pc = "admit"
      /\ status' = [status EXCEPT ![r] = "RUNNING"]
      /\ running' = Append(running, r) /\ batch' = Append(batch, r)
      /\ waiting' = Tail(waiting)
      /\ batch # <<>> => needsRecompute[r] = needsRecompute[batch[1]]
      /\ UNCHANGED <<pc, workerStatus, mailbox, todo, needsRecompute>>
  BY DEF Admit, MayAdmit, mail, r
<1>5. /\ status[r] = "WAITING" /\ r \notin Active /\ r \notin Range(running)
      /\ r \notin Range(batch) /\ r \notin Range(mailbox) /\ todo = <<>>
  BY <1>1, <1>3, <1>4 DEF QueuesAgree, LoopsAgree, Active
<1>6. /\ Range(running') = Range(running) \cup {r} /\ IsInjective(running')
      /\ Range(batch') = Range(batch) \cup {r} /\ IsInjective(batch')
      /\ batch'[1] = IF batch = <<>> THEN r ELSE batch[1]
  <2>1. batch' \in Seq(Reqs) /\ batch' # <<>> /\ Head(batch') = batch'[1]
    BY <1>2, <1>3, <1>4
  <2>2. batch # <<>> => Head(batch) = batch[1]
    BY <1>2
  <2> QED
    BY <1>2, <1>3, <1>4, <1>5, <2>1, <2>2, AppendRange
<1>7. /\ status'[r] = "RUNNING"
      /\ \A s \in Reqs : s # r => status'[s] = status[s]
  BY <1>1, <1>3, <1>4 DEF SchedTypeOK
<1>8. /\ gen' = gen /\ gen[r] < DecodeLen[r]
      /\ \A o \in Owners \ {r} : held'[o] = held[o]
      /\ Len(held'[r]) = NumLogical(r)
  BY <1>3, <1>4, AllocateRow
<1>9. /\ \A s \in Reqs : NumLogical(s)' = NumLogical(s)
      /\ \A s \in Reqs : s # r => held'[s] = held[s]
      /\ held'[Reserve] = held[Reserve]
  BY <1>3, <1>8, SameLogical, RequestsAssumption DEF Owners
<1>10. NumLogical(r) \in Nat \ {0}
  BY <1>3, NumLogicalProperties DEF IInv
<1>11. held'[r] # <<>>
  BY <1>8, <1>10
<1>12. gen[r] # DecodeLen[r]
  BY <1>3, <1>8, RequestsAssumption DEF IInv, TypeOK
<1>13. QueuesAgree'
  BY <1>1, <1>3, <1>4, <1>5, <1>6, <1>7, <1>8, <1>9, <1>11 DEF QueuesAgree, Active, IsDone
<1>14. LoopsAgree' /\ DoneIsFreed'
  BY <1>1, <1>4, <1>5, <1>6, <1>7, <1>8, <1>12, EmptyRange DEF LoopsAgree, DoneIsFreed, IsDone
<1>15. PhasesAgree'
  <2>1. \A s \in Range(batch) : needsRecompute[s] = needsRecompute[batch[1]] /\ batch # <<>>
    BY <1>1, <1>2, <1>4, EmptyRange DEF PhasesAgree
  <2>2. \A s \in Range(batch') : needsRecompute'[s] = needsRecompute'[batch'[1]]
    BY <1>4, <1>6, <2>1
  <2> QED
    BY <1>1, <1>4, <1>5, <1>6, <1>7, <1>8, <2>2 DEF PhasesAgree
<1>16. RowsFit'
  BY <1>1, <1>4, <1>6, <1>7, <1>8, <1>9, <1>10 DEF RowsFit
<1>17. RestsEmpty' /\ SlotsInOrder'
  BY <1>1, <1>4 DEF RestsEmpty, SlotsInOrder
<1> QED
  BY <1>13, <1>14, <1>15, <1>16, <1>17 DEF SchedInv

\* The end of admission: the batch is closed, or the slot loop begins.
LEMMA EndAdmissionInv ==
    ASSUME IInv, SchedInv, SchedTypeOK', EndAdmission
    PROVE  SchedInv'
<1>1. /\ SchedTypeOK /\ QueuesAgree /\ LoopsAgree /\ DoneIsFreed /\ PhasesAgree
      /\ RowsFit /\ RestsEmpty /\ SlotsInOrder
  BY DEF SchedInv
<1>2. /\ UNCHANGED <<held, gen, workerStatus, mailbox, status, waiting, batch, needsRecompute>>
      /\ pc = "admit" /\ todo = <<>>
  BY <1>1 DEF EndAdmission, vars, mail, LoopsAgree
<1>3. \A s \in Reqs : NumLogical(s)' = NumLogical(s)
  BY <1>2, SameLogical
<1>4. CASE batch # <<>>
  <2>1. /\ pc' = IF needsRecompute[batch[1]] THEN "recompute" ELSE "step"
        /\ todo' = batch /\ running' = running
    BY <1>4 DEF EndAdmission
  <2>2. QueuesAgree'
    BY <1>1, <1>2, <2>1 DEF QueuesAgree, Active, IsDone
  <2>3. LoopsAgree' /\ DoneIsFreed'
    BY <1>1, <1>2, <2>1 DEF LoopsAgree, DoneIsFreed, IsDone
  <2>4. \A r \in Range(batch) : r \in Reqs /\ status[r] = "RUNNING" /\ gen[r] \in Nat
    <3>1. Range(batch) \subseteq Range(running) /\ Range(running) \subseteq Reqs
      BY <1>1, QueueTypes DEF LoopsAgree, SchedTypeOK
    <3>2. \A r \in Reqs : gen[r] \in Nat
      BY DEF IInv, TypeOK
    <3> QED
      BY <1>1, <1>2, <3>1, <3>2 DEF QueuesAgree, Active
  <2>5. PhasesAgree'
    BY <1>1, <1>2, <2>1, <2>4 DEF PhasesAgree
  <2>6. RowsFit' /\ RestsEmpty' /\ SlotsInOrder'
    BY <1>1, <1>2, <1>3, <2>1 DEF RowsFit, RestsEmpty, SlotsInOrder
  <2> QED
    BY <2>2, <2>3, <2>5, <2>6 DEF SchedInv
<1>5. CASE batch = <<>>
  <2>1. /\ pc' = "slots" /\ todo' \in ByArrival(running) /\ running' = <<>>
    BY <1>5 DEF EndAdmission
  <2>2. /\ IsInjective(todo') /\ Range(todo') = Range(running)
        /\ \A i, j \in DOMAIN todo' : i < j => Arrival[todo'[i]] <= Arrival[todo'[j]]
    BY <1>1, <2>1, ByArrivalProperties DEF SchedTypeOK, QueuesAgree
  <2>3. Range(<<>>) = {} /\ IsInjective(<<>>)
    BY DEF Range, IsInjective
  <2>4. QueuesAgree'
    BY <1>1, <1>2, <2>1, <2>2, <2>3 DEF QueuesAgree, Active, IsDone
  <2>5. LoopsAgree' /\ DoneIsFreed'
    BY <1>1, <1>2, <1>5, <2>1, <2>2, <2>3 DEF LoopsAgree, DoneIsFreed, IsDone
  <2>6. PhasesAgree'
    BY <1>1, <1>2, <1>5, <2>1, <2>3 DEF PhasesAgree
  <2>7. RowsFit' /\ RestsEmpty'
    BY <1>1, <1>2, <1>3, <2>1, <2>3 DEF RowsFit, RestsEmpty
  <2>8. SlotsInOrder'
    BY <2>1, <2>2, <2>3 DEF SlotsInOrder
  <2> QED
    BY <2>4, <2>5, <2>6, <2>7, <2>8 DEF SchedInv
<1> QED
  BY <1>4, <1>5

\* A slot for the head of the loop's queue.
LEMMA GiveSlotInv ==
    ASSUME IInv, SchedInv, SchedTypeOK', GiveSlot
    PROVE  SchedInv'
<1> DEFINE r == Head(todo)
<1>1. /\ SchedTypeOK /\ QueuesAgree /\ LoopsAgree /\ DoneIsFreed /\ PhasesAgree
      /\ RowsFit /\ RestsEmpty /\ SlotsInOrder
  BY DEF SchedInv
<1>2. /\ todo \in Seq(Reqs) /\ todo # <<>> /\ IsInjective(todo)
      /\ running \in Seq(Reqs) /\ IsInjective(running)
  BY <1>1 DEF GiveSlot, SchedTypeOK, QueuesAgree, LoopsAgree
<1>3. /\ r \in Reqs /\ r \in Range(todo) /\ IsInjective(Tail(todo))
      /\ Range(todo) = Range(Tail(todo)) \cup {r} /\ r \notin Range(Tail(todo))
      /\ Len(Tail(todo)) = Len(todo) - 1
  BY <1>2, QueueTypes, TailRange
<1>4. \A i \in DOMAIN Tail(todo) : i + 1 \in DOMAIN todo /\ Tail(todo)[i] = todo[i + 1] /\ i \in Int
  BY <1>2
<1>5. \A i \in DOMAIN todo : i # 1 => 1 < i
  BY <1>2
<1>6. r = todo[1] /\ 1 \in DOMAIN todo
  BY <1>2
<1> HIDE DEF r
<1>7. /\ IF Len(held[r]) < NumLogical(r) THEN AppendSlot(r) ELSE UNCHANGED vars
      /\ pc = "slots"
      /\ running' = Append(running, r) /\ todo' = Tail(todo)
      /\ UNCHANGED <<pc, workerStatus, mailbox, status, waiting, batch, needsRecompute>>
  BY DEF GiveSlot, mail, r
<1>8. r \notin Range(running) /\ status[r] = "RUNNING" /\ batch = <<>>
  BY <1>1, <1>3, <1>7 DEF QueuesAgree, LoopsAgree, Active
<1>9. Range(running') = Range(running) \cup {r} /\ IsInjective(running')
  BY <1>2, <1>3, <1>7, <1>8, AppendRange
<1>10. Len(held[r]) \in {NumLogical(r) - 1, NumLogical(r)} /\ NumLogical(r) \in Nat \ {0}
  BY <1>1, <1>3, <1>8, NumLogicalProperties DEF RowsFit, IInv
<1>11. /\ gen' = gen
       /\ \A o \in Owners \ {r} : held'[o] = held[o]
       /\ Len(held'[r]) = NumLogical(r)
  <2>1. CASE Len(held[r]) < NumLogical(r)
    <3>1. AppendSlot(r)
      BY <1>7, <2>1
    <3> QED
      BY <1>3, <1>10, <2>1, <3>1, AppendSlotRow
  <2>2. CASE ~(Len(held[r]) < NumLogical(r))
    BY <1>7, <1>10, <2>2 DEF vars
  <2> QED
    BY <2>1, <2>2
<1>12. /\ \A s \in Reqs : NumLogical(s)' = NumLogical(s)
       /\ \A s \in Reqs : s # r => held'[s] = held[s]
       /\ held'[Reserve] = held[Reserve]
  BY <1>3, <1>11, SameLogical, RequestsAssumption DEF Owners
<1>13. held'[r] # <<>> /\ held[r] # <<>>
  BY <1>1, <1>3, <1>8, <1>10, <1>11 DEF QueuesAgree
<1>14. QueuesAgree'
  BY <1>1, <1>3, <1>7, <1>8, <1>9, <1>11, <1>12, <1>13 DEF QueuesAgree, Active, IsDone
<1>15. LoopsAgree' /\ DoneIsFreed'
  BY <1>1, <1>3, <1>7, <1>8, <1>9, <1>11 DEF LoopsAgree, DoneIsFreed, IsDone
<1>16. PhasesAgree'
  BY <1>1, <1>7, <1>11 DEF PhasesAgree
<1>17. RowsFit'
  BY <1>1, <1>7, <1>9, <1>10, <1>11, <1>12 DEF RowsFit
<1>18. SlotsInOrder'
  <2>1. \A i \in DOMAIN todo : Arrival[r] <= Arrival[todo[i]]
    <3>1. \A i \in DOMAIN todo : i # 1 => Arrival[todo[1]] <= Arrival[todo[i]]
      BY <1>1, <1>5, <1>6, <1>7 DEF SlotsInOrder
    <3>2. Arrival[r] <= Arrival[r]
      BY <1>3, LimitsAssumption
    <3> QED
      BY <1>6, <3>1, <3>2
  <2>2. \A s \in Range(todo) : Arrival[r] <= Arrival[s]
    BY <2>1 DEF Range
  <2>3. \A i, j \in DOMAIN todo' : i < j => Arrival[todo'[i]] <= Arrival[todo'[j]]
    BY <1>1, <1>4, <1>7, SMTT(30) DEF SlotsInOrder
  <2>4. \A x \in Range(running'), y \in Range(todo') : Arrival[x] <= Arrival[y]
    BY <1>1, <1>3, <1>7, <1>9, <2>2 DEF SlotsInOrder
  <2> QED
    BY <2>3, <2>4 DEF SlotsInOrder
<1>19. RestsEmpty'
  BY <1>1, <1>7 DEF RestsEmpty
<1> QED
  BY <1>14, <1>15, <1>16, <1>17, <1>18, <1>19 DEF SchedInv

\* Preemption moves the last of the loop's queue back to waiting, its tokens to
\* be recomputed.
LEMMA PreemptInv ==
    ASSUME IInv, SchedInv, SchedTypeOK', Preempt
    PROVE  SchedInv'
<1> DEFINE r == todo[Len(todo)]
<1>1. /\ SchedTypeOK /\ QueuesAgree /\ LoopsAgree /\ DoneIsFreed /\ PhasesAgree
      /\ RowsFit /\ RestsEmpty /\ SlotsInOrder
  BY DEF SchedInv
<1>2. /\ todo \in Seq(Reqs) /\ todo # <<>> /\ IsInjective(todo)
      /\ waiting \in Seq(Reqs) /\ IsInjective(waiting)
  BY <1>1 DEF Preempt, SchedTypeOK, QueuesAgree, LoopsAgree
<1>3. todo' = SubSeq(todo, 1, Len(todo) - 1)
  BY DEF Preempt
<1>4. /\ r \in Reqs /\ r \in Range(todo) /\ IsInjective(todo')
      /\ Range(todo) = Range(todo') \cup {r} /\ r \notin Range(todo')
      /\ \A i \in DOMAIN todo' : i \in DOMAIN todo /\ todo'[i] = todo[i]
  BY <1>2, <1>3, FrontRange, QueueTypes
<1> HIDE DEF r
<1>5. /\ Release(r) /\ pc = "slots"
      /\ needsRecompute' = [needsRecompute EXCEPT ![r] = TRUE]
      /\ status' = [status EXCEPT ![r] = "WAITING"]
      /\ waiting' = <<r>> \o waiting
      /\ UNCHANGED <<pc, workerStatus, mailbox, running, batch>>
  BY DEF Preempt, Requeued, mail, r
<1>6. /\ status[r] = "RUNNING" /\ r \notin Range(waiting) /\ r \notin Range(running)
      /\ r \notin Range(mailbox) /\ batch = <<>>
  BY <1>1, <1>4, <1>5 DEF QueuesAgree, LoopsAgree, Active
<1>7. Range(waiting') = Range(waiting) \cup {r} /\ IsInjective(waiting')
  BY <1>2, <1>4, <1>5, <1>6, PrependRange
<1>8. /\ status'[r] = "WAITING" /\ needsRecompute'[r] = TRUE
      /\ \A s \in Reqs : s # r => /\ status'[s] = status[s]
                                  /\ needsRecompute'[s] = needsRecompute[s]
  BY <1>1, <1>4, <1>5 DEF SchedTypeOK
<1>9. /\ gen' = gen /\ held'[r] = <<>>
      /\ \A o \in Owners \ {r} : held'[o] = held[o]
  BY <1>4, <1>5, FreedRow
<1>10. /\ \A s \in Reqs : NumLogical(s)' = NumLogical(s)
       /\ \A s \in Reqs : s # r => held'[s] = held[s]
       /\ held'[Reserve] = held[Reserve]
  BY <1>4, <1>9, SameLogical, RequestsAssumption DEF Owners
<1>11. gen[r] > 0
  BY <1>1, <1>4, <1>5, <1>6 DEF PhasesAgree
<1>12. Range(<<>>) = {}
  BY NoneRange
<1>13. QueuesAgree'
  BY <1>1, <1>4, <1>5, <1>6, <1>7, <1>8, <1>9, <1>10 DEF QueuesAgree, Active, IsDone
<1>14. LoopsAgree' /\ DoneIsFreed'
  BY <1>1, <1>4, <1>5, <1>6, <1>8, <1>9 DEF LoopsAgree, DoneIsFreed, IsDone
<1>15. PhasesAgree'
  BY <1>1, <1>5, <1>6, <1>8, <1>9, <1>11, <1>12 DEF PhasesAgree
<1>16. RowsFit'
  BY <1>1, <1>5, <1>6, <1>8, <1>9, <1>10 DEF RowsFit
<1>17. RestsEmpty'
  BY <1>1, <1>5 DEF RestsEmpty
<1>18. SlotsInOrder'
  BY <1>1, <1>4, <1>5 DEF SlotsInOrder
<1> QED
  BY <1>13, <1>14, <1>15, <1>16, <1>17, <1>18 DEF SchedInv

\* The end of the slot loop: what has a slot is the batch.
LEMMA EndSlotsInv ==
    ASSUME SchedInv, SchedTypeOK', EndSlots
    PROVE  SchedInv'
<1>1. /\ SchedTypeOK /\ QueuesAgree /\ LoopsAgree /\ DoneIsFreed /\ PhasesAgree
      /\ RowsFit /\ RestsEmpty /\ SlotsInOrder
  BY DEF SchedInv
<1>2. /\ UNCHANGED <<held, gen, workerStatus, mailbox, status, waiting, running, needsRecompute>>
      /\ pc = "slots" /\ todo = <<>> /\ batch' = running /\ todo' = running
      /\ pc' = IF running = <<>> THEN "free"
               ELSE IF needsRecompute[running[1]] THEN "recompute" ELSE "step"
      /\ batch = <<>>
  BY <1>1 DEF EndSlots, vars, mail, LoopsAgree
<1>3. \A s \in Reqs : NumLogical(s)' = NumLogical(s)
  BY <1>2, SameLogical
<1>4. Range(<<>>) = {} /\ running \in Seq(Reqs)
  BY <1>1, NoneRange DEF SchedTypeOK
<1>5. \A r \in Range(running) : /\ r \in Reqs /\ status[r] = "RUNNING"
                                /\ ~needsRecompute[r] /\ gen[r] > 0
  BY <1>1, <1>2, <1>4, QueueTypes DEF QueuesAgree, Active, PhasesAgree
<1>6. running # <<>> => running[1] \in Range(running)
  BY <1>4, EmptyRange
<1>7. pc' \in {"free", "step"} /\ (pc' = "free" => Range(running) = {})
  BY <1>2, <1>4, <1>5, <1>6
<1>8. QueuesAgree'
  BY <1>1, <1>2, <1>4, <1>7 DEF QueuesAgree, Active, IsDone
<1>9. LoopsAgree' /\ DoneIsFreed'
  BY <1>1, <1>2, <1>4, <1>7 DEF LoopsAgree, DoneIsFreed, QueuesAgree, IsDone
<1>10. PhasesAgree'
  BY <1>1, <1>2, <1>4, <1>5, <1>7 DEF PhasesAgree
<1>11. RowsFit' /\ RestsEmpty' /\ SlotsInOrder'
  BY <1>1, <1>2, <1>3, <1>7 DEF RowsFit, RestsEmpty, SlotsInOrder
<1> QED
  BY <1>8, <1>9, <1>10, <1>11 DEF SchedInv

\* The loops over the batch go on with the rest of it.
LEMMA LoopGoesOn ==
    ASSUME SchedInv, todo # <<>>, pc # "slots", NEW r, r = Head(todo), todo' = Tail(todo)
    PROVE  /\ r \in Reqs /\ r \in Range(todo) /\ IsInjective(todo')
           /\ Range(todo) = Range(todo') \cup {r} /\ r \notin Range(todo')
           /\ r \in Range(batch) /\ r \in Range(running) /\ r \in Active
           /\ pc # "free" => status[r] = "RUNNING"
<1>1. /\ todo \in Seq(Reqs) /\ IsInjective(todo)
      /\ Range(todo) \subseteq Range(batch) /\ Range(batch) \subseteq Range(running)
  BY DEF SchedInv, SchedTypeOK, LoopsAgree
<1>2. /\ r \in Reqs /\ r \in Range(todo) /\ IsInjective(todo')
      /\ Range(todo) = Range(todo') \cup {r} /\ r \notin Range(todo')
  BY <1>1, QueueTypes, TailRange
<1>3. r \in Active
  BY <1>1, <1>2 DEF Active
<1> QED
  BY <1>1, <1>2, <1>3 DEF SchedInv, QueuesAgree

\* A rebuilt cache.
LEMMA FinishRecomputeInv ==
    ASSUME SchedInv, SchedTypeOK', FinishRecompute
    PROVE  SchedInv'
<1> DEFINE r == Head(todo)
<1>1. /\ SchedTypeOK /\ QueuesAgree /\ LoopsAgree /\ DoneIsFreed /\ PhasesAgree
      /\ RowsFit /\ RestsEmpty /\ SlotsInOrder
  BY DEF SchedInv
<1>2. /\ todo # <<>> /\ pc = "recompute" /\ todo' = Tail(todo)
      /\ needsRecompute' = [needsRecompute EXCEPT ![r] = FALSE]
      /\ UNCHANGED <<held, gen, pc, workerStatus, mailbox, status, waiting, running, batch>>
  BY DEF FinishRecompute, CommitInput, vars, mail
<1>3. /\ r \in Reqs /\ r \in Range(todo) /\ IsInjective(todo')
      /\ Range(todo) = Range(todo') \cup {r} /\ r \notin Range(todo')
      /\ r \in Range(batch) /\ status[r] = "RUNNING"
  BY <1>2, LoopGoesOn
<1> HIDE DEF r
<1>4. /\ ~needsRecompute'[r]
      /\ \A s \in Reqs : s # r => needsRecompute'[s] = needsRecompute[s]
  BY <1>1, <1>2, <1>3 DEF SchedTypeOK
<1>5. \A s \in Reqs : NumLogical(s)' = NumLogical(s)
  BY <1>2, SameLogical
<1>6. QueuesAgree'
  BY <1>1, <1>2 DEF QueuesAgree, Active, IsDone
<1>7. LoopsAgree' /\ DoneIsFreed'
  BY <1>1, <1>2, <1>3 DEF LoopsAgree, DoneIsFreed, IsDone
<1>8. PhasesAgree'
  BY <1>1, <1>2, <1>3, <1>4 DEF PhasesAgree
<1>9. RowsFit' /\ RestsEmpty' /\ SlotsInOrder'
  BY <1>1, <1>2, <1>5 DEF RowsFit, RestsEmpty, SlotsInOrder
<1> QED
  BY <1>6, <1>7, <1>8, <1>9 DEF SchedInv

\* A token for the head of the batch's queue.
LEMMA StepOneInv ==
    ASSUME IInv, SchedInv, SchedTypeOK', StepOne
    PROVE  SchedInv'
<1>1. /\ SchedTypeOK /\ QueuesAgree /\ LoopsAgree /\ DoneIsFreed /\ PhasesAgree
      /\ RowsFit /\ RestsEmpty /\ SlotsInOrder
  BY DEF SchedInv
<1>a. /\ todo # <<>> /\ pc = "step" /\ todo' = Tail(todo) /\ Step(Head(todo))
      /\ UNCHANGED <<pc, workerStatus, mailbox, status, waiting, running, batch, needsRecompute>>
  BY DEF StepOne, mail
<1>b. PICK r \in Reqs : r = Head(todo)
  BY <1>1, <1>a, QueueTypes DEF SchedTypeOK
<1>2. /\ todo # <<>> /\ pc = "step" /\ todo' = Tail(todo) /\ Step(r)
      /\ UNCHANGED <<pc, workerStatus, mailbox, status, waiting, running, batch, needsRecompute>>
  BY <1>a, <1>b
<1>3. /\ r \in Reqs /\ r \in Range(todo) /\ IsInjective(todo')
      /\ Range(todo) = Range(todo') \cup {r} /\ r \notin Range(todo')
      /\ r \in Range(batch) /\ status[r] = "RUNNING"
  BY <1>2, <1>b, LoopGoesOn
<1>4. /\ gen \in [Reqs -> Nat] /\ gen' = [gen EXCEPT ![r] = @ + 1] /\ held' = held
  BY <1>2 DEF Step, IInv, TypeOK
<1>c. DecodeLen[r] \in Nat /\ gen[r] < DecodeLen[r]
  BY <1>2, <1>3, RequestsAssumption DEF Step
<1>5. /\ gen'[r] = gen[r] + 1 /\ gen[r] \in Nat /\ gen'[r] <= DecodeLen[r]
      /\ \A s \in Reqs : s # r => gen'[s] = gen[s]
  BY <1>3, <1>4, <1>c
<1>6. \A s \in Reqs : s # r => NumLogical(s)' = NumLogical(s)
  BY <1>5 DEF NumLogical
<1>7. NumLogical(r)' \in {NumLogical(r), NumLogical(r) + 1} /\ NumLogical(r) \in Nat \ {0}
  <2>1. TypeOK /\ r \in Reqs /\ gen'[r] = gen[r] + 1
    BY <1>3, <1>5 DEF IInv
  <2> QED
    BY <2>1, NumLogicalProperties
<1>8. QueuesAgree'
  BY <1>1, <1>2, <1>3, <1>4, <1>5 DEF QueuesAgree, Active, IsDone
<1>9. LoopsAgree' /\ DoneIsFreed'
  BY <1>1, <1>2, <1>3, <1>5 DEF LoopsAgree, DoneIsFreed, IsDone
<1>10. PhasesAgree'
  <2>1. \A s \in Range(todo) : s \in Reqs /\ status[s] = "RUNNING"
    BY <1>1, <1>2, QueueTypes DEF LoopsAgree, QueuesAgree, Active, SchedTypeOK
  <2>2. r \in Range(batch') /\ gen'[r] > 0 /\ ~needsRecompute'[r]
    BY <1>1, <1>2, <1>3, <1>5 DEF PhasesAgree
  <2>3. \/ \A s \in Range(todo') : gen'[s] = 0
        \/ \A s \in Range(todo') : gen'[s] > 0
    BY <1>1, <1>2, <1>3, <1>5, <2>1 DEF PhasesAgree
  <2> QED
    BY <1>1, <1>2, <1>3, <1>5, <2>2, <2>3 DEF PhasesAgree
<1>11. RowsFit'
  <2>1. Len(held[r]) = NumLogical(r)
    BY <1>1, <1>2, <1>3 DEF RowsFit
  <2>2. Len(held'[r]) \in {NumLogical(r)' - 1, NumLogical(r)'}
    BY <1>4, <1>7, <2>1
  <2> QED
    BY <1>1, <1>2, <1>3, <1>4, <1>6, <2>2 DEF RowsFit
<1>12. RestsEmpty' /\ SlotsInOrder'
  BY <1>1, <1>2 DEF RestsEmpty, SlotsInOrder
<1> QED
  BY <1>8, <1>9, <1>10, <1>11, <1>12 DEF SchedInv

\* The prompt of the head of the batch's queue becomes reusable.
LEMMA CommitOneInv ==
    ASSUME SchedInv, SchedTypeOK', CommitOne
    PROVE  SchedInv'
<1> DEFINE r == Head(todo)
<1>1. /\ SchedTypeOK /\ QueuesAgree /\ LoopsAgree /\ DoneIsFreed /\ PhasesAgree
      /\ RowsFit /\ RestsEmpty /\ SlotsInOrder
  BY DEF SchedInv
<1>2. /\ todo # <<>> /\ pc = "commit" /\ todo' = Tail(todo)
      /\ UNCHANGED <<held, gen, pc, workerStatus, mailbox, status, waiting, running, batch, needsRecompute>>
  BY DEF CommitOne, CommitInput, vars, mail
<1>3. /\ IsInjective(todo') /\ Range(todo) = Range(todo') \cup {r}
  BY <1>2, LoopGoesOn
<1> HIDE DEF r
<1>4. \A s \in Reqs : NumLogical(s)' = NumLogical(s)
  BY <1>2, SameLogical
<1>5. QueuesAgree'
  BY <1>1, <1>2 DEF QueuesAgree, Active, IsDone
<1>6. LoopsAgree' /\ DoneIsFreed'
  BY <1>1, <1>2, <1>3 DEF LoopsAgree, DoneIsFreed, IsDone
<1>7. PhasesAgree' /\ RowsFit' /\ RestsEmpty' /\ SlotsInOrder'
  BY <1>1, <1>2, <1>4 DEF PhasesAgree, RowsFit, RestsEmpty, SlotsInOrder
<1> QED
  BY <1>5, <1>6, <1>7 DEF SchedInv

\* A request with all its tokens is freed, another stays.
LEMMA FreeOneInv ==
    ASSUME IInv, SchedInv, SchedTypeOK', FreeOne
    PROVE  SchedInv'
<1> DEFINE r == Head(todo)
<1>1. /\ SchedTypeOK /\ QueuesAgree /\ LoopsAgree /\ DoneIsFreed /\ PhasesAgree
      /\ RowsFit /\ RestsEmpty /\ SlotsInOrder
  BY DEF SchedInv
<1>2. /\ todo # <<>> /\ pc = "free" /\ todo' = Tail(todo)
      /\ IF IsDone(r)
         THEN Finish(r) /\ status' = [status EXCEPT ![r] = "FINISHED_STOPPED"]
         ELSE UNCHANGED <<vars, status>>
      /\ UNCHANGED <<pc, workerStatus, mailbox, waiting, running, batch, needsRecompute>>
  BY DEF FreeOne, mail
<1>3. /\ r \in Reqs /\ r \in Range(todo) /\ IsInjective(todo')
      /\ Range(todo) = Range(todo') \cup {r} /\ r \notin Range(todo')
      /\ r \in Range(batch) /\ r \in Active
  BY <1>2, LoopGoesOn
<1> HIDE DEF r
<1>4. gen' = gen
  <2>1. CASE IsDone(r)
    BY <1>2, <1>3, <2>1, FreedRow
  <2>2. CASE ~IsDone(r)
    BY <1>2, <2>2 DEF vars
  <2> QED
    BY <2>1, <2>2
<1>5. \A s \in Reqs : NumLogical(s)' = NumLogical(s)
  BY <1>4, SameLogical
<1>6. CASE IsDone(r)
  <2>1. Finish(r) /\ held[r] # <<>> /\ status' = [status EXCEPT ![r] = "FINISHED_STOPPED"]
    BY <1>2, <1>6 DEF Finish
  <2>2. /\ held'[r] = <<>>
        /\ \A o \in Owners \ {r} : held'[o] = held[o]
    BY <1>3, <2>1, FreedRow
  <2>3. /\ \A s \in Reqs : s # r => held'[s] = held[s]
        /\ held'[Reserve] = held[Reserve]
    BY <1>3, <2>2, RequestsAssumption DEF Owners
  <2>4. /\ status'[r] = "FINISHED_STOPPED"
        /\ \A s \in Reqs : s # r => status'[s] = status[s]
    BY <1>1, <1>3, <2>1 DEF SchedTypeOK
  <2>5. status[r] = "RUNNING"
    BY <1>1, <1>3, <2>1 DEF QueuesAgree
  <2>6. QueuesAgree'
    BY <1>1, <1>2, <1>3, <1>4, <1>6, <2>2, <2>3, <2>4, <2>5 DEF QueuesAgree, Active, IsDone
  <2>7. LoopsAgree' /\ DoneIsFreed'
    BY <1>1, <1>2, <1>3, <1>4, <2>4 DEF LoopsAgree, DoneIsFreed, IsDone
  <2>8. PhasesAgree' /\ RowsFit'
    BY <1>1, <1>2, <1>3, <1>4, <1>5, <2>2, <2>3, <2>4 DEF PhasesAgree, RowsFit
  <2>9. RestsEmpty' /\ SlotsInOrder'
    BY <1>1, <1>2 DEF RestsEmpty, SlotsInOrder
  <2> QED
    BY <2>6, <2>7, <2>8, <2>9 DEF SchedInv
<1>7. CASE ~IsDone(r)
  <2>1. held' = held /\ status' = status
    BY <1>2, <1>7 DEF vars
  <2>2. QueuesAgree'
    BY <1>1, <1>2, <1>4, <2>1 DEF QueuesAgree, Active, IsDone
  <2>3. LoopsAgree' /\ DoneIsFreed'
    BY <1>1, <1>2, <1>3, <1>4, <1>7, <2>1 DEF LoopsAgree, DoneIsFreed, IsDone
  <2>4. PhasesAgree' /\ RowsFit' /\ RestsEmpty' /\ SlotsInOrder'
    BY <1>1, <1>2, <1>4, <1>5, <2>1 DEF PhasesAgree, RowsFit, RestsEmpty, SlotsInOrder
  <2> QED
    BY <2>2, <2>3, <2>4 DEF SchedInv
<1> QED
  BY <1>6, <1>7

\* From one loop over the batch to the next.
LEMMA NextLoopInv ==
    ASSUME SchedInv, SchedTypeOK', NextLoop
    PROVE  SchedInv'
<1>1. /\ SchedTypeOK /\ QueuesAgree /\ LoopsAgree /\ DoneIsFreed /\ PhasesAgree
      /\ RowsFit /\ RestsEmpty /\ SlotsInOrder
  BY DEF SchedInv
<1>2. /\ UNCHANGED <<held, gen, workerStatus, mailbox, status, waiting, running, batch, needsRecompute>>
      /\ \/ pc = "step" /\ pc' = "commit"
         \/ pc = "commit" /\ pc' = "free"
      /\ todo = <<>> /\ todo' = batch
  BY DEF NextLoop, vars, mail
<1>3. \A s \in Reqs : NumLogical(s)' = NumLogical(s)
  BY <1>2, SameLogical
<1>4. Range(<<>>) = {}
  BY NoneRange
<1>5. QueuesAgree'
  BY <1>1, <1>2 DEF QueuesAgree, Active, IsDone
<1>6. LoopsAgree' /\ DoneIsFreed'
  BY <1>1, <1>2, <1>4 DEF LoopsAgree, DoneIsFreed, IsDone
<1>7. PhasesAgree' /\ RowsFit' /\ RestsEmpty' /\ SlotsInOrder'
  BY <1>1, <1>2, <1>3, <1>4 DEF PhasesAgree, RowsFit, RestsEmpty, SlotsInOrder
<1> QED
  BY <1>5, <1>6, <1>7 DEF SchedInv

\* The end of a STEP: what is done has left, and nothing else.
LEMMA EndStepInv ==
    ASSUME SchedInv, SchedTypeOK', EndStep
    PROVE  SchedInv'
<1> DEFINE left == {r \in Range(running) : ~IsDone(r)}
<1>1. /\ SchedTypeOK /\ QueuesAgree /\ LoopsAgree /\ DoneIsFreed /\ PhasesAgree
      /\ RowsFit /\ RestsEmpty /\ SlotsInOrder
  BY DEF SchedInv
<1>2. /\ UNCHANGED <<held, gen, mailbox, status, waiting, todo, needsRecompute>>
      /\ pc \in {"recompute", "free"} /\ pc' = "mailbox"
      /\ todo = <<>> /\ batch' = <<>>
      /\ workerStatus' = IF running' = <<>> /\ waiting = <<>> THEN "WAITING" ELSE "RUNNING"
      /\ running' \in IF pc = "free" THEN InRowOrder(left, running) ELSE {running}
  BY DEF EndStep, vars, mail
<1>3. \A s \in Reqs : NumLogical(s)' = NumLogical(s)
  BY <1>2, SameLogical
<1>4. Range(<<>>) = {} /\ IsInjective(<<>>)
  BY NoneRange
<1>5. /\ IsInjective(running')
      /\ Range(running') = IF pc = "free" THEN left ELSE Range(running)
  <2>1. CASE pc = "free"
    <3>1. left \in SUBSET Range(running) /\ running' \in InRowOrder(left, running)
      BY <1>2, <2>1
    <3> HIDE DEF left
    <3> QED
      BY <1>1, <2>1, <3>1, InRowOrderProperties, SMTT(40) DEF SchedTypeOK, QueuesAgree
  <2>2. CASE pc # "free"
    BY <1>1, <1>2, <2>2 DEF QueuesAgree
  <2> QED
    BY <2>1, <2>2
<1>6. \A r \in Reqs : status[r] = "RUNNING" => ~IsDone(r)
  BY <1>1, <1>2, <1>4 DEF DoneIsFreed
<1>7. Range(running') \subseteq Range(running)
  BY <1>5
<1>8. QueuesAgree'
  BY <1>1, <1>2, <1>5, <1>6 DEF QueuesAgree, Active, IsDone
<1>9. LoopsAgree' /\ DoneIsFreed'
  BY <1>1, <1>2, <1>4, <1>6 DEF LoopsAgree, DoneIsFreed, IsDone
<1>10. PhasesAgree' /\ RowsFit' /\ RestsEmpty' /\ SlotsInOrder'
  BY <1>1, <1>2, <1>3, <1>4 DEF PhasesAgree, RowsFit, RestsEmpty, SlotsInOrder
<1> QED
  BY <1>8, <1>9, <1>10 DEF SchedInv

\* Every step keeps the invariant.
LEMMA SchedStepInv == IInv /\ SchedInv /\ [SchedNext]_allVars => SchedInv'
<1> SUFFICES ASSUME IInv, SchedInv, [SchedNext]_allVars
             PROVE  SchedInv'
  OBVIOUS
<1>1. SchedTypeOK'
  BY SchedNextTypes DEF SchedInv
<1>2. CASE UNCHANGED allVars
  <2>1. /\ UNCHANGED <<held, gen, pc, workerStatus, mailbox, status, waiting, running,
                       todo, batch, needsRecompute>>
    BY <1>2 DEF allVars, schedVars, vars, mail
  <2>2. \A s \in Reqs : NumLogical(s)' = NumLogical(s)
    BY <2>1, SameLogical
  <2>3. QueuesAgree' /\ LoopsAgree' /\ DoneIsFreed' /\ PhasesAgree'
    BY <2>1 DEF SchedInv, QueuesAgree, Active, IsDone, LoopsAgree, DoneIsFreed, PhasesAgree
  <2>4. RowsFit' /\ RestsEmpty' /\ SlotsInOrder'
    BY <2>1, <2>2 DEF SchedInv, RowsFit, RestsEmpty, SlotsInOrder
  <2> QED
    BY <1>1, <2>3, <2>4 DEF SchedInv
<1>3. CASE SchedNext
  BY <1>1, <1>3, MailboxInv, AdmitInv, EndAdmissionInv, GiveSlotInv, PreemptInv,
     EndSlotsInv, FinishRecomputeInv, StepOneInv, CommitOneInv, FreeOneInv,
     NextLoopInv, EndStepInv DEF SchedNext, WorkerNext
<1> QED
  BY <1>2, <1>3

\* The worker's queues, loops and phases agree in every reachable state, for
\* every number of requests, every capacity and every arrival order.
THEOREM SchedulerInvariant == SchedSpec => []SchedInv
<1>1. SchedSpec => []IInv
  BY SchedulerImplementsBlocks, BlocksInvariant, PTL
<1>2. SchedInit => SchedInv
  BY SchedInitInv
<1> QED
  BY <1>1, <1>2, SchedStepInv, PTL DEF SchedSpec

\* If one owner at most holds blocks, what it does not hold is free.
LEMMA OneHolder ==
    ASSUME IInv, NEW r \in Owners, \A o \in Owners : o # r => held[o] = <<>>
    PROVE  NumFree = NumBlocks - Len(held[r])
<1> DEFINE R == Range(held[r])
           F == Range(fifo)
<1>1. /\ held[r] \in Seq(Blocks) /\ IsInjective(held[r])
      /\ fifo \in Seq(Blocks) /\ IsInjective(fifo)
      /\ F = {b \in Blocks : ref[b] = 0 /\ ~cached[b]}
      /\ lru = {b \in Blocks : ref[b] = 0 /\ cached[b]}
      /\ \A b \in Blocks : ref[b] = Cardinality(Holders(b))
  BY DEF IInv, TypeOK, RefCounts, FreeQueueExact
<1>2. \A b \in Blocks : Holders(b) = IF b \in R THEN {r} ELSE {}
  <2>1. \A o \in Owners : o # r => Range(held[o]) = {}
    BY NoneRange
  <2> QED
    BY <2>1 DEF Holders
<1>3. \A b \in Blocks : ref[b] = IF b \in R THEN 1 ELSE 0
  BY <1>1, <1>2, FS_Singleton, FS_EmptySet, ZenonT(40)
<1>4. F \cup lru = Blocks \ R /\ F \cap lru = {}
  BY <1>1, <1>3
<1>5. R \subseteq Blocks
  BY <1>1 DEF Range
<1>6. IsFiniteSet(Blocks) /\ Cardinality(Blocks) = NumBlocks
  BY SizesAssumption, FS_Interval DEF Blocks
<1>7. /\ Cardinality(R) = Len(held[r]) /\ Cardinality(F) = Len(fifo)
      /\ IsFiniteSet(R) /\ IsFiniteSet(F)
  BY <1>1, InjectiveLength
<1> HIDE DEF R, F
<1>8. Cardinality(Blocks \ R) = NumBlocks - Cardinality(R)
  <2>1. Blocks \cap R = R
    BY <1>5
  <2> QED
    BY <1>6, <2>1, FS_Difference
<1>9. IsFiniteSet(lru)
  <2>1. lru \in SUBSET Blocks
    BY <1>1
  <2> QED
    BY <1>6, <2>1, FS_Subset
<1>10. Cardinality(F \cup lru) = Cardinality(F) + Cardinality(lru)
  <2>1. Cardinality(F \cap lru) = 0
    BY <1>4, FS_EmptySet
  <2>2. Cardinality(F \cup lru) = Cardinality(F) + Cardinality(lru) - Cardinality(F \cap lru)
    BY <1>7, <1>9, FS_Union
  <2>3. Cardinality(F) \in Nat /\ Cardinality(lru) \in Nat
    BY <1>7, <1>9, FS_CardinalityType
  <2> QED
    BY <2>1, <2>2, <2>3
<1> QED
  BY <1>4, <1>7, <1>8, <1>10 DEF NumFree

\* A worker that rests holds no block, so every block is free.
LEMMA RestingIsEmpty == IInv /\ SchedInv => IdleIsEmpty
<1> SUFFICES ASSUME IInv, SchedInv, workerStatus = "WAITING"
             PROVE  /\ pc = "mailbox" /\ waiting = <<>> /\ running = <<>>
                    /\ NumFree = NumBlocks
  BY DEF IdleIsEmpty
<1>1. pc = "mailbox" /\ waiting = <<>> /\ running = <<>>
  BY DEF SchedInv, RestsEmpty
<1>2. Active = {}
  BY <1>1, NoneRange DEF Active
<1>3. \A o \in Owners : held[o] = <<>>
  BY <1>2 DEF SchedInv, QueuesAgree, RowsFit, Owners
<1>4. Reserve \in Owners /\ Len(held[Reserve]) = 0
  BY <1>3 DEF Owners
<1>5. NumFree = NumBlocks - 0
  BY <1>3, <1>4, OneHolder
<1> QED
  BY <1>1, <1>5, SizesAssumption

\* Preemption, completion and admission neither lose a request, nor queue it
\* twice, nor leave it blocks it no longer uses, and the worker goes idle only
\* when it has nothing left, with every block free.
THEOREM NobodyIsLost == SchedSpec => []NobodyLost
<1>1. IInv /\ SchedInv => NobodyLost
  BY RestingIsEmpty DEF NobodyLost, SchedInv
<1>2. SchedSpec => []IInv
  BY SchedulerImplementsBlocks, BlocksInvariant, PTL
<1> QED
  BY <1>1, <1>2, SchedulerInvariant, PTL

\* A step never mixes recompute with other work, nor prefill with decode, and
\* every request it gives a token has the slot for it.
THEOREM BatchesAreReady == SchedSpec => []BatchesReady
<1>1. SchedInv => BatchesReady
  <2> SUFFICES ASSUME SchedInv
               PROVE  BatchesReady
    OBVIOUS
  <2>1. /\ SchedTypeOK /\ QueuesAgree /\ LoopsAgree /\ PhasesAgree /\ RowsFit
    BY DEF SchedInv
  <2>2. Range(running) \subseteq Reqs /\ Range(todo) \subseteq Reqs
    BY <2>1, QueueTypes DEF SchedTypeOK
  <2>3. pc \in {"recompute", "step"} => \A r \in Range(todo) : status[r] = "RUNNING"
    BY <2>1, <2>2 DEF LoopsAgree, QueuesAgree, Active
  <2>4. \A r \in Range(todo) : todo[1] \in Range(todo)
    BY <2>1, EmptyRange, NoneRange DEF SchedTypeOK
  <2>5. pc = "mailbox" => \A r \in Range(running) :
            status[r] = "RUNNING" /\ r \notin Range(batch)
    BY <2>1, <2>2, NoneRange DEF LoopsAgree, QueuesAgree, Active
  <2>6. BatchHomogeneous
    BY <2>1, <2>2, <2>3, <2>4, <2>5 DEF BatchHomogeneous, PhasesAgree
  <2>7. SlotBeforeToken
    BY <2>1, <2>2, <2>3 DEF SlotBeforeToken, RowsFit, Active
  <2> QED
    BY <2>6, <2>7 DEF BatchesReady
<1> QED
  BY <1>1, SchedulerInvariant, PTL

\* A request that runs alone gets the slot it needs: the engine has checked that
\* it fits.
LEMMA AloneFits ==
    ASSUME IInv, SchedInv, NEW r \in Reqs, Active = {r}, status[r] = "RUNNING"
    PROVE  CanAppendSlot(r)
<1>1. \A s \in Reqs : s # r => held[s] = <<>>
  BY DEF SchedInv, QueuesAgree
<1>2. \A o \in Owners : o # r => held[o] = <<>>
  BY <1>1 DEF SchedInv, RowsFit, Owners
<1>3. NumFree = NumBlocks - Len(held[r])
  BY <1>2, OneHolder DEF Owners
<1>4. Len(held[r]) \in {NumLogical(r) - 1, NumLogical(r)}
  BY DEF SchedInv, RowsFit
<1> DEFINE x == PrefillLen[r] + gen[r] + BlockSize - 1
           y == PrefillLen[r] + DecodeLen[r] + BlockSize - 1
<1>a. PrefillLen[r] \in Nat \ {0} /\ DecodeLen[r] \in Nat \ {0}
  BY RequestsAssumption
<1>b. gen[r] \in Nat /\ gen[r] <= DecodeLen[r]
  BY DEF IInv, TypeOK, SchedInv, PhasesAgree
<1>c. NumBlocks \in Nat /\ Watermark \in Nat /\ BlockSize \in Nat \ {0}
  BY SizesAssumption
<1>5. /\ x \in Nat /\ y \in Nat /\ x <= y
      /\ y \div BlockSize <= NumBlocks - Watermark
  BY <1>a, <1>b, <1>c, CapacityAssumption
<1>6. NumLogical(r) = x \div BlockSize
  BY DEF NumLogical
<1> HIDE DEF x, y
<1>7. NumLogical(r) \in Int /\ NumLogical(r) <= NumBlocks
  BY <1>5, <1>6, <1>c, DivMonotonic
<1>8. Len(held[r]) < NumLogical(r) => NumFree >= 1
  BY <1>3, <1>4, <1>7, <1>c
<1>9. NumFree >= 0
  BY <1>3, <1>4, <1>7, <1>c
<1> QED
  BY <1>8, <1>9 DEF CanAppendSlot

\* Only younger requests give way: a request is preempted only while another
\* runs that came no later, so that every slot pass moves someone forward.
THEOREM OldestGoesOn == SchedSpec => OldestAdvances
<1> DEFINE Older == \A r \in Reqs : status[r] = "RUNNING" /\ status'[r] = "WAITING" =>
                        \E s \in Active : s # r /\ Arrival[s] <= Arrival[r]
<1>1. ASSUME IInv, SchedInv, [SchedNext]_allVars
      PROVE  Older
  <2>1. /\ SchedTypeOK /\ QueuesAgree /\ LoopsAgree /\ SlotsInOrder
        /\ status \in [Reqs -> {"NEW", "WAITING", "RUNNING", "FINISHED_STOPPED"}]
        /\ todo \in Seq(Reqs) /\ running \in Seq(Reqs)
        /\ waiting \in Seq(Reqs) /\ mailbox \in Seq(Reqs)
    BY <1>1 DEF SchedInv, SchedTypeOK
  <2> SUFFICES ASSUME NEW r \in Reqs, status[r] = "RUNNING", status'[r] = "WAITING"
               PROVE  \E s \in Active : s # r /\ Arrival[s] <= Arrival[r]
    OBVIOUS
  <2>2. Preempt
    <3>1. CASE Admit
      <4>1. PICK q \in Reqs : status' = [status EXCEPT ![q] = "RUNNING"]
        BY <2>1, <3>1, EmptyRange, QueueTypes DEF Admit, MayAdmit
      <4> QED
        BY <2>1, <4>1
    <3>2. CASE FreeOne
      <4>1. PICK q \in Reqs :
              UNCHANGED status \/ status' = [status EXCEPT ![q] = "FINISHED_STOPPED"]
        BY <2>1, <3>2, EmptyRange, QueueTypes DEF FreeOne
      <4> QED
        BY <2>1, <4>1
    <3>3. CASE Receive \/ \E q \in Reqs : Deliver(q)
      <4>1. PICK q \in Reqs : status[q] = "NEW" /\ status' = [status EXCEPT ![q] = "WAITING"]
        BY <2>1, <3>3, EmptyRange, QueueTypes
           DEF Receive, Deliver, Sendable, AddRequest, QueuesAgree
      <4> QED
        BY <2>1, <4>1
    <3>4. CASE \/ UNCHANGED allVars \/ StartStep \/ EndAdmission \/ GiveSlot \/ EndSlots
               \/ FinishRecompute \/ StepOne \/ CommitOne \/ NextLoop \/ EndStep
               \/ \E q \in Reqs : Send(q)
      BY <3>4 DEF StartStep, EndAdmission, GiveSlot, EndSlots, FinishRecompute, StepOne,
                  CommitOne, NextLoop, EndStep, Send, allVars, schedVars
    <3> QED
      BY <1>1, <3>1, <3>2, <3>3, <3>4 DEF SchedNext, WorkerNext
  <2>3. /\ pc = "slots" /\ todo # <<>> /\ ~CanAppendSlot(Head(todo))
        /\ status' = [status EXCEPT ![todo[Len(todo)]] = "WAITING"]
    BY <2>2 DEF Preempt
  <2>4. r = todo[Len(todo)]
    BY <2>1, <2>3
  <2>5. /\ Len(todo) \in Nat \ {0} /\ 1 \in DOMAIN todo /\ Len(todo) \in DOMAIN todo
        /\ DOMAIN todo = 1..Len(todo)
    BY <2>1, <2>3
  <2>6. /\ Active = Range(running) \cup Range(todo)
        /\ todo[1] \in Range(todo) /\ todo[1] = Head(todo)
    BY <2>1, <2>3, EmptyRange DEF Active
  <2>7. CASE Len(todo) # 1
    <3>1. 1 < Len(todo)
      BY <2>5, <2>7
    <3>2. Arrival[todo[1]] <= Arrival[r] /\ todo[1] # r
      BY <2>1, <2>3, <2>4, <2>5, <2>7, <3>1 DEF SlotsInOrder, LoopsAgree, IsInjective
    <3> QED
      BY <2>6, <3>2
  <2>8. CASE Len(todo) = 1
    <3>1. Range(todo) = {r} /\ Head(todo) = r
      <4>1. \A i \in DOMAIN todo : i = 1
        BY <2>5, <2>8
      <4> QED
        BY <2>4, <2>6, <2>8, <4>1 DEF Range
    <3>2. Range(running) # {}
      <4> SUFFICES ASSUME Range(running) = {}
                   PROVE  FALSE
        OBVIOUS
      <4>1. Active = {r}
        BY <2>6, <3>1
      <4> QED
        BY <1>1, <2>3, <3>1, <4>1, AloneFits
    <3>3. PICK s \in Range(running) : TRUE
      BY <3>2
    <3>4. s # r /\ Arrival[s] <= Arrival[r]
      BY <2>1, <2>3, <3>1, <3>3 DEF SlotsInOrder, LoopsAgree
    <3> QED
      BY <2>6, <3>4
  <2> QED
    BY <2>7, <2>8
<1>2. SchedSpec => []IInv
  BY SchedulerImplementsBlocks, BlocksInvariant, PTL
<1>3. SchedSpec => [][SchedNext]_allVars
  BY PTL DEF SchedSpec
<1> HIDE DEF Older
<1>4. IInv /\ SchedInv /\ [SchedNext]_allVars => [Older]_allVars
  BY <1>1
<1>5. SchedSpec => [][Older]_allVars
  BY <1>2, <1>3, <1>4, SchedulerInvariant, PTL
<1> QED
  BY <1>5 DEF OldestAdvances, Older


-----------------------------------------------------------------------------
(* First come first served *)

Sorted(s) == \A i, j \in DOMAIN s : i < j => Arrival[s[i]] <= Arrival[s[j]]

\* While the mailbox was never crowded, every queue goes by arrival, and so do
\* the queues among them: what runs, what waits, the mailbox, what is to come.
ArrivalOrder ==
    ~crowded =>
        /\ Len(mailbox) <= 3
        /\ Sorted(waiting) /\ Sorted(mailbox)
        /\ Fcfs
        /\ \A r \in Active \cup Range(waiting), s \in Range(mailbox) : Arrival[r] <= Arrival[s]
        /\ \A r \in Active \cup Range(waiting) \cup Range(mailbox), s \in Reqs :
               status[s] = "NEW" /\ s \notin Range(mailbox) => Arrival[r] <= Arrival[s]

\* A queue by arrival stays one without its head, with the latest behind it or
\* the earliest in front of it.
LEMMA SortedProperties ==
    ASSUME NEW s \in Seq(Reqs), Sorted(s), NEW r \in Reqs
    PROVE  /\ s # <<>> => /\ Sorted(Tail(s))
                          /\ \A q \in Range(Tail(s)) : Arrival[Head(s)] <= Arrival[q]
           /\ (\A q \in Range(s) : Arrival[q] <= Arrival[r]) => Sorted(Append(s, r))
           /\ (\A q \in Range(s) : Arrival[r] <= Arrival[q]) => Sorted(<<r>> \o s)
<1> DEFINE n == Len(s)
<1>1. /\ n \in Nat /\ DOMAIN s = 1..n
      /\ \A i \in 1..n : s[i] \in Range(s)
      /\ \A i, j \in 1..n : i < j => Arrival[s[i]] <= Arrival[s[j]]
  BY DEF Range, Sorted
<1> HIDE DEF n
<1>2. ASSUME s # <<>>
      PROVE  /\ Sorted(Tail(s))
             /\ \A q \in Range(Tail(s)) : Arrival[Head(s)] <= Arrival[q]
  <2> DEFINE t == Tail(s)
  <2>1. n \in Nat \ {0} /\ DOMAIN t = 1..(n - 1) /\ Head(s) = s[1]
    BY <1>1, <1>2, HeadTailProperties, EmptySeq DEF n
  <2>2. \A i \in 1..(n - 1) : t[i] = s[i + 1]
    BY <1>1, <1>2, HeadTailProperties, EmptySeq DEF n
  <2> HIDE DEF t
  <2>3. \A i \in 1..(n - 1) : i + 1 \in 1..n /\ 1 < i + 1
    BY <2>1
  <2>4. Sorted(t)
    <3>1. \A i, j \in 1..(n - 1) : i < j => i + 1 < j + 1
      OBVIOUS
    <3> QED
      BY <1>1, <2>1, <2>2, <2>3, <3>1 DEF Sorted
  <2>5. \A q \in Range(t) : Arrival[s[1]] <= Arrival[q]
    <3> SUFFICES ASSUME NEW i \in 1..(n - 1)
                 PROVE  Arrival[s[1]] <= Arrival[t[i]]
      BY <2>1 DEF Range
    <3>1. i + 1 \in 1..n /\ 1 \in 1..n /\ 1 < i + 1
      BY <2>1, <2>3
    <3> QED
      BY <1>1, <2>2, <3>1
  <2> QED
    BY <2>1, <2>4, <2>5 DEF t
<1>3. ASSUME \A q \in Range(s) : Arrival[q] <= Arrival[r]
      PROVE  Sorted(Append(s, r))
  <2> DEFINE t == Append(s, r)
  <2>1. /\ DOMAIN t = 1..(n + 1) /\ t[n + 1] = r
        /\ \A i \in 1..n : t[i] = s[i]
    BY AppendProperties DEF n
  <2> HIDE DEF t
  <2>2. \A i, j \in 1..(n + 1) : i < j => i \in 1..n /\ (j \in 1..n \/ j = n + 1)
    BY <1>1
  <2>3. Sorted(t)
    BY <1>1, <1>3, <2>1, <2>2 DEF Sorted
  <2> QED
    BY <2>3 DEF t
<1>4. ASSUME \A q \in Range(s) : Arrival[r] <= Arrival[q]
      PROVE  Sorted(<<r>> \o s)
  <2> DEFINE one == <<r>>
             t == one \o s
  <2>1. one \in Seq(Reqs) /\ Len(one) = 1 /\ one[1] = r
    OBVIOUS
  <2> HIDE DEF one
  <2>a. /\ t \in Seq(Reqs) /\ Len(t) = Len(one) + Len(s)
        /\ \A i \in 1..(Len(one) + Len(s)) :
               t[i] = IF i <= Len(one) THEN one[i] ELSE s[i - Len(one)]
    BY <2>1, ConcatProperties, Zenon
  <2>2. /\ t \in Seq(Reqs) /\ Len(t) = 1 + n
        /\ \A i \in 1..(1 + n) : t[i] = IF i <= 1 THEN one[i] ELSE s[i - 1]
    BY <2>1, <2>a DEF n
  <2>3. DOMAIN t = 1..(n + 1)
    BY <1>1, <2>2
  <2> HIDE DEF t
  <2>4. \A i \in 1..(n + 1) : i # 1 => i - 1 \in 1..n /\ t[i] = s[i - 1]
    BY <1>1, <2>2
  <2>5. t[1] = r
    BY <1>1, <2>1, <2>2
  <2> SUFFICES ASSUME NEW i \in 1..(n + 1), NEW j \in 1..(n + 1), i < j
               PROVE  Arrival[t[i]] <= Arrival[t[j]]
    BY <2>3 DEF Sorted, t, one
  <2>6. j # 1 /\ j - 1 \in 1..n /\ t[j] = s[j - 1]
    BY <1>1, <2>4
  <2>7. CASE i = 1
    BY <1>1, <1>4, <2>5, <2>6, <2>7
  <2>8. CASE i # 1
    <3>1. i - 1 \in 1..n /\ t[i] = s[i - 1] /\ i - 1 < j - 1
      BY <1>1, <2>4, <2>8
    <3> QED
      BY <1>1, <2>6, <3>1
  <2> QED
    BY <2>7, <2>8
<1> QED
  BY <1>2, <1>3, <1>4

\* A step that queues nothing keeps the order.
LEMMA OrderKept ==
    ASSUME ArrivalOrder, UNCHANGED <<mailbox, crowded, waiting>>,
           Range(running') \cup (IF pc' = "slots" THEN Range(todo') ELSE {}) \subseteq Active,
           \A r \in Reqs : status'[r] = "NEW" => status[r] = "NEW"
    PROVE  ArrivalOrder'
<1>1. Active' \subseteq Active
  BY DEF Active
<1> QED
  BY <1>1 DEF ArrivalOrder, Fcfs, Sorted

\* Arrivals: the source sends in order, and a heap of at most three is a queue.
LEMMA MailboxOrder ==
    ASSUME SchedInv, ArrivalOrder
    PROVE  /\ \A r \in Reqs : Deliver(r) \/ Send(r) => ArrivalOrder'
           /\ Receive => ArrivalOrder'
<1>1. /\ mailbox \in Seq(Reqs) /\ waiting \in Seq(Reqs) /\ IsInjective(mailbox)
      /\ status \in [Reqs -> {"NEW", "WAITING", "RUNNING", "FINISHED_STOPPED"}]
      /\ Active \subseteq Reqs
      /\ \A r \in Range(mailbox) : status[r] = "NEW"
  BY QueueTypes DEF SchedInv, SchedTypeOK, QueuesAgree, Active
<1>2. \A q \in Reqs : Arrival[q] \in Nat
  BY LimitsAssumption
<1>3. \A r \in Reqs : Sendable(r) =>
        \A s \in Reqs : s # r /\ status[s] = "NEW" /\ s \notin Range(mailbox) =>
            Arrival[r] <= Arrival[s]
  BY <1>2 DEF Sendable
<1>4. ASSUME NEW r \in Reqs, Deliver(r), ~crowded'
      PROVE  ArrivalOrder'
  <2>1. /\ Sendable(r) /\ mailbox = <<>> /\ mailbox' = mailbox /\ ~crowded
        /\ status' = [status EXCEPT ![r] = "WAITING"] /\ waiting' = Append(waiting, r)
        /\ Active' = Active
    BY <1>4 DEF Deliver, AddRequest, mail, Active
  <2>2. Range(mailbox) = {} /\ Range(mailbox') = {}
    BY <2>1, NoneRange
  <2>3. /\ \A q \in Active \cup Range(waiting) : Arrival[q] <= Arrival[r]
        /\ Sorted(waiting)
    BY <2>1 DEF ArrivalOrder, Sendable
  <2>a. Range(waiting') = Range(waiting) \cup {r}
    BY <1>1, <2>1, AppendRange
  <2>b. Sorted(Append(waiting, r))
    BY <1>1, <2>3, SortedProperties
  <2>4. Range(waiting') = Range(waiting) \cup {r} /\ Sorted(waiting')
    BY <2>1, <2>a, <2>b
  <2>5. \A s \in Reqs : status'[s] = "NEW" => s # r /\ status[s] = "NEW"
    BY <1>1, <2>1
  <2>6. Fcfs'
    BY <2>1, <2>3, <2>4 DEF Fcfs, ArrivalOrder
  <2>7. Len(mailbox') <= 3 /\ Sorted(mailbox')
    BY <2>1 DEF ArrivalOrder
  <2>8. \A q \in Active' \cup Range(waiting') \cup Range(mailbox'), s \in Reqs :
            status'[s] = "NEW" /\ s \notin Range(mailbox') => Arrival[q] <= Arrival[s]
    BY <1>3, <2>1, <2>2, <2>4, <2>5 DEF ArrivalOrder
  <2> QED
    BY <2>2, <2>4, <2>6, <2>7, <2>8 DEF ArrivalOrder
<1>5. ASSUME NEW r \in Reqs, Send(r), ~crowded'
      PROVE  ArrivalOrder'
  <2>1. /\ Sendable(r) /\ mailbox' = Append(mailbox, r) /\ ~crowded /\ ~(Len(mailbox) >= 3)
        /\ status' = status /\ waiting' = waiting /\ Active' = Active
    BY <1>5 DEF Send, Active
  <2>2. Range(mailbox') = Range(mailbox) \cup {r} /\ Len(mailbox') = Len(mailbox) + 1
    BY <1>1, <2>1, AppendRange
  <2>3. \A q \in Active \cup Range(waiting) \cup Range(mailbox) : Arrival[q] <= Arrival[r]
    BY <2>1 DEF ArrivalOrder, Sendable
  <2>a. Sorted(mailbox) /\ Len(mailbox) \in Nat
    BY <1>1, <2>1 DEF ArrivalOrder
  <2>b. Sorted(Append(mailbox, r))
    BY <1>1, <2>3, <2>a, SortedProperties
  <2>4. Sorted(mailbox') /\ Len(mailbox') <= 3
    BY <2>1, <2>2, <2>a, <2>b
  <2>5. \A q \in Active \cup Range(waiting), s \in Range(mailbox') : Arrival[q] <= Arrival[s]
    BY <2>1, <2>2, <2>3 DEF ArrivalOrder
  <2>6. \A q \in Active \cup Range(waiting) \cup Range(mailbox'), s \in Reqs :
            status[s] = "NEW" /\ s \notin Range(mailbox') => Arrival[q] <= Arrival[s]
    BY <1>3, <2>1, <2>2 DEF ArrivalOrder
  <2> QED
    BY <2>1, <2>4, <2>5, <2>6 DEF ArrivalOrder, Fcfs, Sorted
<1>6. ASSUME Receive, ~crowded'
      PROVE  ArrivalOrder'
  <2>1. /\ mailbox # <<>> /\ mailbox' = HeapRest(mailbox) /\ ~crowded
        /\ AddRequest(Head(mailbox))
    BY <1>6 DEF Receive
  <2>2. Len(mailbox) <= 3 /\ Sorted(mailbox) /\ Sorted(waiting)
    BY <2>1 DEF ArrivalOrder
  <2>3. mailbox' = Tail(mailbox)
    BY <1>1, <2>1, <2>2, HeapRestProperties
  <2>4. PICK r \in Reqs : r = Head(mailbox)
    BY <1>1, <2>1, QueueTypes
  <2>5. /\ status' = [status EXCEPT ![r] = "WAITING"] /\ waiting' = Append(waiting, r)
        /\ Active' = Active
    BY <2>1, <2>4 DEF AddRequest, Active
  <2>6. /\ Range(mailbox) = Range(mailbox') \cup {r} /\ r \notin Range(mailbox')
        /\ Len(mailbox') = Len(mailbox) - 1 /\ Len(mailbox) \in Nat
    BY <1>1, <2>1, <2>3, <2>4, TailRange
  <2>7. Sorted(mailbox') /\ \A q \in Range(mailbox') : Arrival[r] <= Arrival[q]
    BY <1>1, <2>1, <2>2, <2>3, <2>4, SortedProperties
  <2>8. \A q \in Active \cup Range(waiting) : Arrival[q] <= Arrival[r]
    BY <2>1, <2>6 DEF ArrivalOrder
  <2>a. Range(waiting') = Range(waiting) \cup {r}
    BY <1>1, <2>5, AppendRange
  <2>b. Sorted(Append(waiting, r))
    BY <1>1, <2>2, <2>8, SortedProperties
  <2>9. Range(waiting') = Range(waiting) \cup {r} /\ Sorted(waiting')
    BY <2>5, <2>a, <2>b
  <2>10. Fcfs'
    BY <2>1, <2>5, <2>8, <2>9 DEF Fcfs, ArrivalOrder
  <2>11. \A q \in Active' \cup Range(waiting'), s \in Range(mailbox') : Arrival[q] <= Arrival[s]
    BY <2>1, <2>5, <2>6, <2>7, <2>9 DEF ArrivalOrder
  <2>12. \A s \in Reqs : status'[s] = "NEW" /\ s \notin Range(mailbox') =>
            status[s] = "NEW" /\ s \notin Range(mailbox)
    BY <1>1, <2>5, <2>6
  <2>13. \A q \in Active' \cup Range(waiting') \cup Range(mailbox'), s \in Reqs :
            status'[s] = "NEW" /\ s \notin Range(mailbox') => Arrival[q] <= Arrival[s]
    BY <2>1, <2>5, <2>6, <2>9, <2>12 DEF ArrivalOrder
  <2> QED
    BY <2>2, <2>6, <2>7, <2>9, <2>10, <2>11, <2>13 DEF ArrivalOrder
<1> QED
  BY <1>4, <1>5, <1>6 DEF ArrivalOrder

\* Admission takes the first that waits.
LEMMA AdmitOrder ==
    ASSUME SchedInv, ArrivalOrder, Admit
    PROVE  ArrivalOrder'
<1>1. /\ waiting \in Seq(Reqs) /\ waiting # <<>> /\ running \in Seq(Reqs)
      /\ status \in [Reqs -> {"NEW", "WAITING", "RUNNING", "FINISHED_STOPPED"}]
  BY DEF SchedInv, SchedTypeOK, Admit, MayAdmit
<1>2. PICK r \in Reqs : r = Head(waiting)
  BY <1>1, QueueTypes
<1>3. /\ status' = [status EXCEPT ![r] = "RUNNING"] /\ running' = Append(running, r)
      /\ waiting' = Tail(waiting) /\ pc = "admit" /\ UNCHANGED <<mailbox, crowded, pc>>
  BY <1>2 DEF Admit, mail
<1>4. Range(waiting) = Range(waiting') \cup {r} /\ Range(running') = Range(running) \cup {r}
  BY <1>1, <1>2, <1>3, TailRange, AppendRange
<1>5. Active' = Active \cup {r}
  BY <1>3, <1>4 DEF Active
<1>6. \A s \in Reqs : status'[s] = "NEW" => status[s] = "NEW"
  BY <1>1, <1>3
<1> SUFFICES ASSUME ~crowded
             PROVE  ArrivalOrder'
  BY <1>3 DEF ArrivalOrder
<1>7. Sorted(waiting') /\ \A q \in Range(waiting') : Arrival[r] <= Arrival[q]
  BY <1>1, <1>2, <1>3, SortedProperties DEF ArrivalOrder
<1> QED
  BY <1>3, <1>4, <1>5, <1>6, <1>7 DEF ArrivalOrder, Fcfs, Sorted

\* Preemption puts the latest that runs in front of all that wait.
LEMMA PreemptOrder ==
    ASSUME SchedInv, ArrivalOrder, Preempt
    PROVE  ArrivalOrder'
<1>1. /\ waiting \in Seq(Reqs) /\ todo \in Seq(Reqs) /\ todo # <<>> /\ IsInjective(todo)
      /\ status \in [Reqs -> {"NEW", "WAITING", "RUNNING", "FINISHED_STOPPED"}]
  BY DEF SchedInv, SchedTypeOK, LoopsAgree, Preempt
<1>2. PICK r \in Reqs : r = todo[Len(todo)]
  BY <1>1, QueueTypes
<1>3. /\ status' = [status EXCEPT ![r] = "WAITING"] /\ waiting' = <<r>> \o waiting
      /\ todo' = SubSeq(todo, 1, Len(todo) - 1) /\ pc = "slots"
      /\ UNCHANGED <<mailbox, crowded, running, pc>>
  BY <1>2 DEF Preempt, Requeued, mail
<1>4. /\ Range(todo) = Range(todo') \cup {r}
      /\ Range(waiting') = Range(waiting) \cup {r}
  BY <1>1, <1>2, <1>3, FrontRange, PrependRange
<1>5. /\ Active = Range(running) \cup Range(todo)
      /\ Active' = Range(running) \cup Range(todo')
  BY <1>3 DEF Active
<1>6. \A s \in Reqs : status'[s] = "NEW" => status[s] = "NEW"
  BY <1>1, <1>3
<1>7. \A q \in Active' : Arrival[q] <= Arrival[r]
  <2>1. Len(todo) \in DOMAIN todo /\ \A i \in DOMAIN todo : i < Len(todo) \/ i = Len(todo)
    BY <1>1
  <2>2. \A q \in Range(todo) : Arrival[q] <= Arrival[r]
    BY <1>2, <1>3, <2>1, LimitsAssumption DEF Range, SchedInv, SlotsInOrder
  <2>3. r \in Range(todo)
    BY <1>4
  <2> QED
    BY <1>3, <1>4, <1>5, <2>2, <2>3 DEF SchedInv, SlotsInOrder
<1> SUFFICES ASSUME ~crowded
             PROVE  ArrivalOrder'
  BY <1>3 DEF ArrivalOrder
<1>8. r \in Active
  BY <1>4, <1>5
<1>9. Sorted(waiting')
  BY <1>1, <1>3, <1>8, SortedProperties DEF ArrivalOrder, Fcfs
<1>10. Fcfs'
  BY <1>4, <1>5, <1>7 DEF ArrivalOrder, Fcfs
<1>11. Active' \cup Range(waiting') = Active \cup Range(waiting)
  BY <1>4, <1>5
<1> QED
  BY <1>3, <1>6, <1>9, <1>10, <1>11 DEF ArrivalOrder, Sorted

\* Every step keeps the order.
LEMMA StepOrder == SchedInv /\ ArrivalOrder /\ [SchedNext]_allVars => ArrivalOrder'
<1> SUFFICES ASSUME SchedInv, ArrivalOrder, [SchedNext]_allVars
             PROVE  ArrivalOrder'
  OBVIOUS
<1>1. /\ todo \in Seq(Reqs) /\ running \in Seq(Reqs) /\ IsInjective(running)
      /\ status \in [Reqs -> {"NEW", "WAITING", "RUNNING", "FINISHED_STOPPED"}]
      /\ Active = Range(running) \cup (IF pc = "slots" THEN Range(todo) ELSE {})
  BY DEF SchedInv, SchedTypeOK, QueuesAgree, Active
<1>2. CASE \/ UNCHANGED allVars \/ StartStep \/ FinishRecompute \/ StepOne \/ CommitOne
           \/ NextLoop
  <2>1. /\ UNCHANGED <<mailbox, crowded, waiting, running, status>>
        /\ \/ pc' = pc /\ todo' = todo
           \/ pc' # "slots"
    BY <1>2 DEF allVars, schedVars, mail, StartStep, FinishRecompute, StepOne, CommitOne, NextLoop
  <2> QED
    BY <1>1, <2>1, OrderKept
<1>3. CASE EndAdmission
  <2>1. /\ UNCHANGED <<mailbox, crowded, waiting, status>> /\ pc = "admit"
        /\ \/ running' = running /\ pc' # "slots"
           \/ running' = <<>> /\ todo' \in ByArrival(running)
    BY <1>3 DEF EndAdmission, mail
  <2>2. \A q \in ByArrival(running) : Range(q) = Range(running)
    BY <1>1, ByArrivalProperties
  <2> QED
    BY <1>1, <2>1, <2>2, NoneRange, OrderKept
<1>4. CASE GiveSlot
  <2>1. /\ UNCHANGED <<mailbox, crowded, waiting, status, pc>> /\ pc = "slots" /\ todo # <<>>
        /\ running' = Append(running, Head(todo)) /\ todo' = Tail(todo)
    BY <1>4 DEF GiveSlot, mail
  <2>2. /\ Range(todo) = Range(todo') \cup {Head(todo)}
        /\ Range(running') = Range(running) \cup {Head(todo)}
    BY <1>1, <2>1, TailRange, AppendRange, QueueTypes
  <2> QED
    BY <1>1, <2>1, <2>2, OrderKept
<1>5. CASE EndSlots
  <2>1. /\ UNCHANGED <<mailbox, crowded, waiting, status, running>> /\ pc' # "slots"
    BY <1>5 DEF EndSlots, mail
  <2> QED
    BY <1>1, <2>1, OrderKept
<1>6. CASE FreeOne
  <2>1. /\ UNCHANGED <<mailbox, crowded, waiting, running, pc>> /\ pc = "free" /\ todo # <<>>
        /\ \/ UNCHANGED status
           \/ status' = [status EXCEPT ![Head(todo)] = "FINISHED_STOPPED"]
    BY <1>6 DEF FreeOne, mail
  <2>2. \A s \in Reqs : status'[s] = "NEW" => status[s] = "NEW"
    BY <1>1, <2>1
  <2> QED
    BY <1>1, <2>1, <2>2, OrderKept
<1>7. CASE EndStep
  <2>1. /\ UNCHANGED <<mailbox, crowded, waiting, status>> /\ pc' = "mailbox"
        /\ \/ running' = running
           \/ running' \in InRowOrder({r \in Range(running) : ~IsDone(r)}, running)
    BY <1>7 DEF EndStep, mail
  <2>2. \A q \in InRowOrder({r \in Range(running) : ~IsDone(r)}, running) :
            Range(q) \subseteq Range(running)
    BY <1>1, InRowOrderProperties
  <2> QED
    BY <1>1, <2>1, <2>2, OrderKept
<1> QED
  BY <1>2, <1>3, <1>4, <1>5, <1>6, <1>7, MailboxOrder, AdmitOrder, PreemptOrder
     DEF SchedNext, WorkerNext

\* First come first served, for every load, as long as the mailbox never held
\* more than three requests: no request waits that came before one that runs,
\* through admission, preemption and recompute.
THEOREM ArrivalOrderKept == SchedSpec => []FcfsUnlessCrowded
<1>1. SchedInit => ArrivalOrder
  <2> SUFFICES ASSUME SchedInit
               PROVE  ArrivalOrder
    OBVIOUS
  <2>1. Active = {} /\ Range(waiting) = {} /\ Range(mailbox) = {}
    BY NoneRange DEF SchedInit, Active
  <2>2. Len(mailbox) = 0 /\ waiting = <<>> /\ mailbox = <<>>
    BY DEF SchedInit
  <2> QED
    BY <2>1, <2>2 DEF ArrivalOrder, Sorted, Fcfs
<1>2. ArrivalOrder => FcfsUnlessCrowded
  BY DEF ArrivalOrder, FcfsUnlessCrowded
<1>3. SchedSpec => []ArrivalOrder
  BY <1>1, StepOrder, SchedulerInvariant, PTL DEF SchedSpec
<1> QED
  BY <1>2, <1>3, PTL
=============================================================================
