--------------------------- MODULE ComponentProofs ---------------------------
(***************************************************************************)
(* Proofs about four components that have a model of their own.            *)
(*                                                                         *)
(* The pool of free blocks, for every number of blocks and however often   *)
(* they are released, reused and evicted: the index, the queues with their *)
(* stale entries and the count agree, and the pool implements the free     *)
(* list.                                                                   *)
(*                                                                         *)
(* The schedulers without paged memory, for every prompt, length and       *)
(* bound: no request is lost, and a static batch is of one kind.           *)
(*                                                                         *)
(* The connectors, for every number of workers and prompts: siblings keep  *)
(* their plans apart, and what a worker has saved the others find.         *)
(*                                                                         *)
(* The layout of a model, for every size of the parallel dimensions and    *)
(* every shape of the model: the ranks cover the grid, and each expert and *)
(* each layer with experts has one owner.                                  *)
(***************************************************************************)
EXTENDS FreeQueue, BatchScheduler, Connectors, ExpertPlacement, SequenceFacts

-----------------------------------------------------------------------------
(* The invariant of the pool *)

\* Entries go into the deque in the order they are made.
DequeInOrder ==
    /\ deque \in Seq(1..Made)
    /\ \A i, j \in DOMAIN deque : i < j => deque[i] < deque[j]

\* The heap has each entry once, and a valid one under its block's stamp.
HeapExact ==
    /\ \A s, t \in heap : s[2] = t[2] => s = t
    /\ \A t \in heap : t[2] \in valid => t[1] = stamp[entryBlock[t[2]]]

\* A block that was never handed out was never queued nor cached.
FreshUnused ==
    \A b \in Blocks :
        /\ entryOf[b] # NoEntry \/ cached[b] => b < nextFresh
        /\ cached[b] => stamp[b] > 0

PoolInv == PoolTypeOK /\ EntriesExact /\ DequeInOrder /\ HeapExact /\ FreshUnused

\* A valid entry is the one the index has for its block.
LEMMA EntryFacts ==
    ASSUME PoolInv
    PROVE  /\ \A e \in valid : /\ e \in 1..Made /\ e # NoEntry
                               /\ entryBlock[e] \in Blocks /\ entryOf[entryBlock[e]] = e
           /\ \A b \in Blocks : entryOf[b] # NoEntry =>
                  entryOf[b] \in valid /\ entryBlock[entryOf[b]] = b
           /\ Made \in Nat
           /\ NumBlocks \in Nat \ {0} /\ MaxAccess \in Nat
<1>1. /\ entryBlock \in Seq(Blocks) /\ valid \subseteq 1..Made /\ Made \in Nat
      /\ entryOf \in [Blocks -> 0..Made]
      /\ valid = {entryOf[b] : b \in Blocks} \ {NoEntry}
      /\ \A b \in Blocks : entryOf[b] # NoEntry => entryBlock[entryOf[b]] = b
  BY SMTT(30) DEF PoolInv, PoolTypeOK, EntriesExact, Made
<1>2. \A e \in valid : \E b \in Blocks : e = entryOf[b] /\ e # NoEntry
  BY <1>1
<1> QED
  BY <1>1, <1>2, PoolAssumption

\* A block is handed out, and its entry leaves the queues with others that no
\* longer count.
LEMMA HandOutInv ==
    ASSUME PoolInv, NEW e \in valid, HandOut(e),
           UNCHANGED <<nextFresh, entryBlock, clock>>,
           deque' \in Seq(1..Made),
           \A i, j \in DOMAIN deque' : i < j => deque'[i] < deque'[j],
           Range(deque') \subseteq Range(deque),
           \A d \in valid \ {e} : d \in Range(deque) => d \in Range(deque'),
           heap' \subseteq heap,
           \A t \in heap : t[2] \in valid \ {e} => t \in heap'
    PROVE  PoolInv'
<1>1. PICK b \in Blocks : b = entryBlock[e] /\ entryOf[b] = e
  BY EntryFacts
<1>2. /\ e # NoEntry /\ Made' = Made /\ Made \in Nat
      /\ \A c \in Blocks : c # b => entryOf[c] # e
      /\ NumBlocks \in Nat \ {0} /\ MaxAccess \in Nat
  BY <1>1, EntryFacts DEF Made
<1>3. /\ PoolTypeOK /\ EntriesExact /\ DequeInOrder /\ HeapExact /\ FreshUnused
  BY DEF PoolInv
<1>4. /\ entryOf \in [Blocks -> 0..Made] /\ cached \in [Blocks -> BOOLEAN]
      /\ stamp \in [Blocks -> 0..MaxAccess]
  BY <1>3 DEF PoolTypeOK
<1>5. /\ handed' = b /\ valid' = valid \ {e}
      /\ entryOf' = [entryOf EXCEPT ![b] = NoEntry]
      /\ cached' = [cached EXCEPT ![b] = FALSE]
      /\ stamp' = [stamp EXCEPT ![b] = IF cached[b] THEN 0 ELSE @]
      /\ UNCHANGED <<nextFresh, entryBlock, clock>>
  BY <1>1 DEF HandOut
<1>6. /\ entryOf'[b] = NoEntry /\ ~cached'[b] /\ stamp'[b] \in 0..MaxAccess
      /\ \A c \in Blocks : c # b => /\ entryOf'[c] = entryOf[c]
                                    /\ cached'[c] = cached[c]
                                    /\ stamp'[c] = stamp[c]
  BY <1>2, <1>4, <1>5
<1>7. PoolTypeOK'
  <2>1. /\ entryOf' \in [Blocks -> 0..Made] /\ cached' \in [Blocks -> BOOLEAN]
        /\ stamp' \in [Blocks -> 0..MaxAccess]
    BY <1>2, <1>4, <1>5 DEF NoEntry
  <2>2. Range(deque') \subseteq 1..Made
    BY <1>3 DEF PoolTypeOK
  <2> QED
    BY <1>2, <1>3, <1>5, <2>1, <2>2 DEF PoolTypeOK
<1>8. EntriesExact'
  <2>1. valid' = {entryOf'[c] : c \in Blocks} \ {NoEntry}
    BY <1>1, <1>2, <1>3, <1>5, <1>6 DEF EntriesExact
  <2>2. \A c \in Blocks : entryOf'[c] # NoEntry => entryOf[c] \in valid \ {e} /\ c # b
    BY <1>2, <1>6, EntryFacts
  <2>3. ASSUME NEW c \in Blocks, entryOf'[c] # NoEntry
        PROVE  /\ entryBlock'[entryOf'[c]] = c
               /\ entryOf'[c] \in Range(deque') <=> ~cached'[c]
               /\ entryOf'[c] \in {t[2] : t \in heap'} <=> cached'[c]
    <3>1. /\ entryOf[c] \in valid \ {e} /\ entryOf'[c] = entryOf[c] /\ cached'[c] = cached[c]
      BY <1>6, <2>2, <2>3
    <3>2. entryOf[c] \in Range(deque) <=> entryOf[c] \in Range(deque')
      BY <3>1
    <3>3. entryOf[c] \in {t[2] : t \in heap} <=> entryOf[c] \in {t[2] : t \in heap'}
      BY <3>1
    <3> QED
      BY <1>2, <1>3, <1>5, <2>3, <3>1, <3>2, <3>3 DEF EntriesExact
  <2> QED
    BY <2>1, <2>3 DEF EntriesExact
<1>9. DequeInOrder'
  BY <1>2 DEF DequeInOrder
<1>10. HeapExact'
  <2>1. \A t \in heap' : t[2] \in valid' => entryBlock[t[2]] \in Blocks /\ entryBlock[t[2]] # b
    BY <1>1, <1>5, EntryFacts
  <2> QED
    BY <1>3, <1>5, <1>6, <2>1 DEF HeapExact
<1>11. FreshUnused'
  BY <1>3, <1>5, <1>6 DEF FreshUnused
<1> QED
  BY <1>7, <1>8, <1>9, <1>10, <1>11 DEF PoolInv

\* The two ways to hand out a queued block.
LEMMA PopInv ==
    ASSUME PoolInv
    PROVE  PopDeque \/ PopHeap => PoolInv'
<1>1. /\ deque \in Seq(1..Made) /\ \A i, j \in DOMAIN deque : i < j => deque[i] < deque[j]
      /\ \A s, t \in heap : s[2] = t[2] => s = t
      /\ heap \subseteq (1..MaxAccess) \X (1..Made)
      /\ Made \in Nat /\ MaxAccess \in Nat
  BY EntryFacts DEF PoolInv, DequeInOrder, HeapExact, PoolTypeOK
<1>2. ASSUME PopDeque
      PROVE  PoolInv'
  <2>1. PICK i \in DOMAIN deque :
          /\ deque[i] \in valid
          /\ \A j \in 1..i - 1 : deque[j] \notin valid
          /\ HandOut(deque[i])
          /\ deque' = SubSeq(deque, i + 1, Len(deque))
    BY <1>2 DEF PopDeque
  <2>2. UNCHANGED <<nextFresh, entryBlock, heap, clock>>
    BY <1>2 DEF PopDeque
  <2>3. i \in Nat \ {0} /\ DOMAIN deque = 1..Len(deque) /\ Len(deque) \in Nat
    BY <1>1
  <2>4. /\ deque' \in Seq(1..Made)
        /\ \A k : k \in DOMAIN deque' <=> k \in Nat \ {0} /\ i + k \in DOMAIN deque
        /\ \A k \in DOMAIN deque' : deque'[k] = deque[i + k]
    <3> DEFINE t == SubSeq(deque, i + 1, Len(deque))
               S == 1..Made
    <3>1. deque \in Seq(S) /\ i \in Nat
      BY <1>1, <2>3
    <3> HIDE DEF S
    <3>2. /\ t \in Seq(S)
          /\ \A k : k \in DOMAIN t <=> k \in Nat \ {0} /\ i + k \in DOMAIN deque
          /\ \A k \in DOMAIN t : t[k] = deque[i + k]
      BY <3>1, SuffixProperties, SMTT(30)
    <3> HIDE DEF t
    <3>3. deque' = t
      BY <2>1 DEF t
    <3> QED
      BY <3>2, <3>3 DEF S
  <2>5. \A j, k \in DOMAIN deque' : j < k => deque'[j] < deque'[k]
    <3>1. \A j, k \in DOMAIN deque' : j < k => i + j < i + k
      BY <2>3, <2>4
    <3> QED
      BY <1>1, <2>4, <3>1
  <2>6. Range(deque') \subseteq Range(deque)
    BY <2>4 DEF Range
  <2>7. \A d \in valid \ {deque[i]} : d \in Range(deque) => d \in Range(deque')
    <3> SUFFICES ASSUME NEW d \in valid \ {deque[i]}, NEW j \in DOMAIN deque, d = deque[j]
                 PROVE  d \in Range(deque')
      BY DEF Range
    <3>1. i < j
      BY <2>1, <2>3
    <3>2. j - i \in Nat \ {0} /\ i + (j - i) = j
      BY <2>3, <3>1
    <3>3. j - i \in DOMAIN deque' /\ deque'[j - i] = deque[j]
      BY <2>4, <3>2
    <3> QED
      BY <3>3 DEF Range
  <2> QED
    BY <2>1, <2>2, <2>4, <2>5, <2>6, <2>7, HandOutInv
<1>3. ASSUME PopHeap
      PROVE  PoolInv'
  <2>1. PICK t \in heap :
          /\ t[2] \in valid
          /\ \A s \in heap : s[2] \in valid => ~Before(s, t)
          /\ HandOut(t[2])
          /\ heap' = {s \in heap : Before(t, s)}
    BY <1>3 DEF PopHeap
  <2>2. /\ deque' = <<>> /\ Range(deque) \cap valid = {}
        /\ UNCHANGED <<nextFresh, entryBlock, clock>>
    BY <1>3 DEF PopHeap
  <2>3. \A s \in heap : s[2] \in valid \ {t[2]} => s \in heap'
    <3> SUFFICES ASSUME NEW s \in heap, s[2] \in valid \ {t[2]}
                 PROVE  Before(t, s)
      BY <2>1
    <3>1. s[1] \in Nat /\ t[1] \in Nat /\ s[2] \in Nat /\ t[2] \in Nat
      BY <1>1
    <3>2. ~Before(s, t) /\ s[2] # t[2]
      BY <2>1
    <3> QED
      BY <3>1, <3>2 DEF Before
  <2>4. deque' \in Seq(1..Made) /\ DOMAIN deque' = {} /\ Range(deque') = {}
    BY <2>2 DEF Range
  <2>5. heap' \subseteq heap
    BY <2>1
  <2> QED
    BY <2>1, <2>2, <2>3, <2>4, <2>5, HandOutInv
<1> QED
  BY <1>2, <1>3

\* A block in use is touched, and a queued one is taken back.
LEMMA TouchInv ==
    ASSUME PoolInv, NEW b \in Blocks, Access(b) \/ Acquire(b)
    PROVE  PoolInv'
<1>1. /\ PoolTypeOK /\ EntriesExact /\ DequeInOrder /\ HeapExact /\ FreshUnused
  BY DEF PoolInv
<1>2. /\ entryOf \in [Blocks -> 0..Made] /\ cached \in [Blocks -> BOOLEAN]
      /\ stamp \in [Blocks -> 0..MaxAccess] /\ clock \in 0..MaxAccess
      /\ Made \in Nat /\ MaxAccess \in Nat
  BY <1>1, EntryFacts DEF PoolTypeOK
<1>3. /\ clock < MaxAccess /\ clock' = clock + 1
      /\ stamp' = [stamp EXCEPT ![b] = clock + 1]
      /\ UNCHANGED <<nextFresh, entryBlock, deque, heap, handed>> /\ Made' = Made
  BY DEF Access, Acquire, queueVars, Made
<1>4. /\ clock' \in 0..MaxAccess /\ stamp' \in [Blocks -> 0..MaxAccess]
      /\ stamp'[b] > 0 /\ \A c \in Blocks : c # b => stamp'[c] = stamp[c]
  BY <1>2, <1>3
<1>5. CASE Access(b)
  <2>1. /\ b < nextFresh /\ entryOf[b] = NoEntry /\ UNCHANGED <<entryOf, valid>>
        /\ cached' = [cached EXCEPT ![b] = TRUE]
    BY <1>5 DEF Access, Out, queueVars
  <2>2. \A e \in valid : entryBlock[e] \in Blocks /\ entryBlock[e] # b
    BY <2>1, EntryFacts
  <2>3. /\ cached' \in [Blocks -> BOOLEAN]
        /\ \A c \in Blocks : c # b => cached'[c] = cached[c]
    BY <1>2, <2>1
  <2>4. PoolTypeOK'
    BY <1>1, <1>3, <1>4, <2>1, <2>3 DEF PoolTypeOK
  <2>5. EntriesExact'
    BY <1>1, <1>3, <2>1, <2>3 DEF EntriesExact
  <2>6. DequeInOrder' /\ HeapExact'
    BY <1>1, <1>3, <1>4, <2>1, <2>2 DEF DequeInOrder, HeapExact
  <2>7. FreshUnused'
    BY <1>1, <1>3, <1>4, <2>1, <2>3 DEF FreshUnused
  <2> QED
    BY <2>4, <2>5, <2>6, <2>7 DEF PoolInv
<1>6. CASE Acquire(b)
  <2>1. /\ entryOf[b] # NoEntry /\ cached[b] /\ valid' = valid \ {entryOf[b]}
        /\ entryOf' = [entryOf EXCEPT ![b] = NoEntry] /\ cached' = cached
    BY <1>6 DEF Acquire, Invalidated
  <2>2. /\ entryOf' \in [Blocks -> 0..Made] /\ entryOf'[b] = NoEntry
        /\ \A c \in Blocks : c # b => entryOf'[c] = entryOf[c]
    BY <1>2, <2>1 DEF NoEntry
  <2>3. \A c \in Blocks : c # b /\ entryOf[c] # NoEntry => entryOf[c] # entryOf[b]
    BY <2>1, EntryFacts
  <2>4. \A e \in valid' : entryBlock[e] \in Blocks /\ entryBlock[e] # b
    BY <2>1, EntryFacts
  <2>5. PoolTypeOK'
    BY <1>1, <1>3, <1>4, <2>1, <2>2 DEF PoolTypeOK
  <2>6. EntriesExact'
    <3>1. valid' = {entryOf'[c] : c \in Blocks} \ {NoEntry}
      BY <1>1, <2>1, <2>2, <2>3 DEF EntriesExact
    <3> QED
      BY <1>1, <1>3, <2>1, <2>2, <3>1 DEF EntriesExact
  <2>7. DequeInOrder' /\ HeapExact'
    BY <1>1, <1>3, <1>4, <2>1, <2>4 DEF DequeInOrder, HeapExact
  <2>8. FreshUnused'
    BY <1>1, <1>3, <1>4, <2>1, <2>2 DEF FreshUnused
  <2> QED
    BY <2>5, <2>6, <2>7, <2>8 DEF PoolInv
<1> QED
  BY <1>5, <1>6

\* A block that comes back gets a new entry.
LEMMA ReleaseInv ==
    ASSUME PoolInv, NEW b \in Blocks, Release(b)
    PROVE  PoolInv'
<1>1. /\ PoolTypeOK /\ EntriesExact /\ DequeInOrder /\ HeapExact /\ FreshUnused
  BY DEF PoolInv
<1>2. PICK e \in Nat : e = Made + 1
  BY EntryFacts
<1>3. /\ entryOf \in [Blocks -> 0..Made] /\ cached \in [Blocks -> BOOLEAN]
      /\ stamp \in [Blocks -> 0..MaxAccess] /\ entryBlock \in Seq(Blocks)
      /\ Made \in Nat /\ MaxAccess \in Nat /\ valid \subseteq 1..Made
      /\ deque \in Seq(1..Made) /\ heap \subseteq (1..MaxAccess) \X (1..Made)
      /\ nextFresh \in 0..NumBlocks /\ NumBlocks \in Nat
  BY <1>1, EntryFacts DEF PoolTypeOK, DequeInOrder
<1>4. /\ b < nextFresh /\ entryOf[b] = NoEntry
      /\ entryBlock' = Append(entryBlock, b)
      /\ valid' = Invalidated(b) \cup {e}
      /\ entryOf' = [entryOf EXCEPT ![b] = e]
      /\ UNCHANGED <<nextFresh, cached, clock, handed>>
  BY <1>2 DEF Release, Out
<1>5. /\ Made' = e /\ entryBlock' \in Seq(Blocks) /\ entryBlock'[e] = b
      /\ \A d \in 1..Made : entryBlock'[d] = entryBlock[d]
  BY <1>2, <1>3, <1>4, AppendProperties DEF Made
<1>6. valid' = valid \cup {e}
  <2>1. NoEntry \notin valid
    BY EntryFacts
  <2> QED
    BY <1>4, <2>1 DEF Invalidated
<1>7. /\ e \notin 1..Made /\ e \in 1..e /\ \A d \in 1..Made : d \in 1..e /\ d < e
      /\ e # NoEntry
  BY <1>2, <1>3 DEF NoEntry
<1>8. /\ entryOf' \in [Blocks -> 0..e] /\ entryOf'[b] = e
      /\ \A c \in Blocks : c # b => entryOf'[c] = entryOf[c]
  <2>1. entryOf \in [Blocks -> 0..e] /\ e \in 0..e
    BY <1>2, <1>3
  <2> QED
    BY <1>4, <2>1
<1>9. /\ stamp' \in [Blocks -> 0..MaxAccess]
      /\ \A c \in Blocks : c # b \/ cached[b] => stamp'[c] = stamp[c]
      /\ cached[b] => stamp' = stamp
  BY <1>3 DEF Release
<1>10. \/ cached[b] /\ heap' = heap \cup {<<stamp[b], e>>} /\ deque' = deque
       \/ ~cached[b] /\ heap' = heap /\ deque' = Append(deque, e)
  BY <1>2 DEF Release, Pushed
<1>11. cached[b] => stamp[b] \in 1..MaxAccess
  BY <1>1, <1>3 DEF FreshUnused
<1>12. /\ deque \in Seq(1..e) /\ Range(deque) \subseteq 1..Made
       /\ deque' \in Seq(1..e)
       /\ Range(deque') = IF cached[b] THEN Range(deque) ELSE Range(deque) \cup {e}
  <2>1. Range(deque) \subseteq 1..Made
    BY <1>1 DEF PoolTypeOK
  <2>2. deque \in Seq(1..e)
    <3>1. deque \in [1..Len(deque) -> 1..Made] /\ Len(deque) \in Nat
      BY <1>3, LenProperties
    <3>2. deque \in [1..Len(deque) -> 1..e]
      BY <1>7, <3>1
    <3> QED
      BY <3>1, <3>2, FunctionIsSeq
  <2>3. /\ Append(deque, e) \in Seq(1..e)
        /\ Range(Append(deque, e)) = Range(deque) \cup {e}
    <3> DEFINE S == 1..e
    <3>1. deque \in Seq(S) /\ e \in S
      BY <1>7, <2>2
    <3> HIDE DEF S
    <3>2. /\ Append(deque, e) \in Seq(S)
          /\ Range(Append(deque, e)) = Range(deque) \cup {e}
      BY <3>1, AppendRange
    <3> QED
      BY <3>2 DEF S
  <2> QED
    BY <1>10, <2>1, <2>2, <2>3
<1>13. PoolTypeOK'
  <2>1. Range(deque') \subseteq 1..e
    BY <1>7, <1>12
  <2>2. heap' \subseteq (1..MaxAccess) \X (1..e)
    BY <1>3, <1>7, <1>10, <1>11
  <2>3. valid' \subseteq 1..e
    BY <1>3, <1>6, <1>7
  <2> QED
    BY <1>1, <1>4, <1>5, <1>8, <1>9, <2>1, <2>2, <2>3 DEF PoolTypeOK
<1>14. EntriesExact'
  <2>1. valid' = {entryOf'[c] : c \in Blocks} \ {NoEntry}
    <3>1. \A c \in Blocks : entryOf[c] # NoEntry => c # b
      BY <1>4
    <3> QED
      BY <1>1, <1>4, <1>6, <1>7, <1>8, <3>1 DEF EntriesExact
  <2>2. ASSUME NEW c \in Blocks, entryOf'[c] # NoEntry
        PROVE  /\ entryBlock'[entryOf'[c]] = c
               /\ entryOf'[c] \in Range(deque') <=> ~cached'[c]
               /\ entryOf'[c] \in {t[2] : t \in heap'} <=> cached'[c]
    <3>1. CASE c = b
      <4>1. e \notin {t[2] : t \in heap} /\ e \notin Range(deque)
        BY <1>3, <1>7, <1>12
      <4>2. cached[b] => e \in {t[2] : t \in heap'}
        BY <1>10
      <4> QED
        BY <1>4, <1>5, <1>8, <1>10, <1>12, <3>1, <4>1, <4>2
    <3>2. CASE c # b
      <4>1. /\ entryOf'[c] = entryOf[c] /\ entryOf[c] \in valid /\ entryOf[c] # e
            /\ entryOf[c] \in 1..Made
        BY <1>3, <1>7, <1>8, <2>2, <3>2, EntryFacts
      <4>2. entryOf[c] \in Range(deque) <=> entryOf[c] \in Range(deque')
        BY <1>12, <4>1
      <4>3. entryOf[c] \in {t[2] : t \in heap} <=> entryOf[c] \in {t[2] : t \in heap'}
        BY <1>10, <4>1
      <4> QED
        BY <1>1, <1>4, <1>5, <2>2, <4>1, <4>2, <4>3 DEF EntriesExact
    <3> QED
      BY <3>1, <3>2
  <2> QED
    BY <2>1, <2>2 DEF EntriesExact
<1>15. DequeInOrder'
  <2>1. CASE cached[b]
    BY <1>1, <1>5, <1>10, <1>12, <2>1 DEF DequeInOrder
  <2>2. CASE ~cached[b]
    <3>1. /\ DOMAIN deque' = 1..(Len(deque) + 1) /\ DOMAIN deque = 1..Len(deque)
          /\ Len(deque) \in Nat
          /\ \A i \in 1..Len(deque) : deque'[i] = deque[i] /\ deque[i] \in 1..Made
          /\ deque'[Len(deque) + 1] = e
      <4> DEFINE S == 1..e
      <4>1. deque \in Seq(S) /\ e \in S
        BY <1>7, <1>12
      <4> HIDE DEF S
      <4>2. /\ Append(deque, e) \in Seq(S) /\ Len(Append(deque, e)) = Len(deque) + 1
            /\ \A i \in 1..Len(deque) : Append(deque, e)[i] = deque[i]
            /\ Append(deque, e)[Len(deque) + 1] = e
        BY <4>1, AppendProperties
      <4>3. DOMAIN Append(deque, e) = 1..(Len(deque) + 1)
        BY <4>2, LenProperties
      <4>4. DOMAIN deque = 1..Len(deque) /\ Len(deque) \in Nat
        BY <4>1, LenProperties
      <4>5. \A i \in 1..Len(deque) : deque[i] \in 1..Made
        BY <1>3, <4>4
      <4> QED
        BY <1>10, <2>2, <4>2, <4>3, <4>4, <4>5
    <3>2. ASSUME NEW i \in DOMAIN deque', NEW j \in DOMAIN deque', i < j
          PROVE  deque'[i] < deque'[j]
      <4>1. i \in 1..Len(deque) /\ (j \in 1..Len(deque) \/ j = Len(deque) + 1)
        BY <3>1, <3>2
      <4> QED
        BY <1>1, <1>7, <3>1, <3>2, <4>1 DEF DequeInOrder
    <3> QED
      BY <1>5, <1>12, <3>2 DEF DequeInOrder
  <2> QED
    BY <2>1, <2>2
<1>16. HeapExact'
  <2>1. \A t \in heap : t[2] \in 1..Made /\ t[2] # e
    BY <1>3, <1>7
  <2>2. \A s, t \in heap' : s[2] = t[2] => s = t
    BY <1>1, <1>10, <2>1 DEF HeapExact
  <2>3. ASSUME NEW t \in heap', t[2] \in valid'
        PROVE  t[1] = stamp'[entryBlock'[t[2]]]
    <3>1. CASE t \in heap
      <4>1. t[2] \in valid /\ entryBlock'[t[2]] = entryBlock[t[2]]
        BY <1>5, <1>6, <2>1, <2>3, <3>1
      <4>2. entryBlock[t[2]] \in Blocks /\ entryBlock[t[2]] # b
        BY <1>4, <4>1, EntryFacts
      <4> QED
        BY <1>1, <1>9, <3>1, <4>1, <4>2 DEF HeapExact
    <3>2. CASE t \notin heap
      <4>1. cached[b] /\ t = <<stamp[b], e>>
        BY <1>10, <2>3, <3>2
      <4> QED
        BY <1>5, <1>9, <4>1
    <3> QED
      BY <3>1, <3>2
  <2> QED
    BY <2>2, <2>3 DEF HeapExact
<1>17. FreshUnused'
  BY <1>1, <1>4, <1>8, <1>9 DEF FreshUnused
<1> QED
  BY <1>13, <1>14, <1>15, <1>16, <1>17 DEF PoolInv

LEMMA PoolInitInv == PoolInit => PoolInv
<1> SUFFICES ASSUME PoolInit
             PROVE  PoolInv
  OBVIOUS
<1>1. /\ Made = 0 /\ Range(deque) = {} /\ valid = {} /\ heap = {} /\ deque \in Seq(1..Made)
      /\ DOMAIN deque = {}
      /\ NumBlocks \in Nat /\ MaxAccess \in Nat
      /\ \A b \in Blocks : entryOf[b] = NoEntry /\ ~cached[b]
  BY PoolAssumption DEF PoolInit, Made, Range
<1>2. PoolTypeOK
  BY <1>1 DEF PoolInit, PoolTypeOK, NoEntry
<1>3. EntriesExact
  BY <1>1 DEF EntriesExact
<1>4. DequeInOrder /\ HeapExact /\ FreshUnused
  BY <1>1 DEF DequeInOrder, HeapExact, FreshUnused
<1> QED
  BY <1>2, <1>3, <1>4 DEF PoolInv

LEMMA PoolStepInv == PoolInv /\ [PoolNext]_poolVars => PoolInv'
<1> SUFFICES ASSUME PoolInv, [PoolNext]_poolVars
             PROVE  PoolInv'
  OBVIOUS
<1>1. CASE PopFresh
  <2>1. nextFresh \in 0..NumBlocks /\ NumBlocks \in Nat
    BY EntryFacts DEF PoolInv, PoolTypeOK
  <2>2. /\ nextFresh < NumBlocks /\ nextFresh' = nextFresh + 1 /\ handed' = nextFresh
        /\ UNCHANGED <<entryBlock, valid, entryOf, deque, heap, cached, stamp, clock>>
        /\ Made' = Made
    BY <1>1 DEF PopFresh, Made
  <2>3. PoolTypeOK'
    BY <2>1, <2>2 DEF PoolInv, PoolTypeOK, Blocks
  <2>4. EntriesExact' /\ DequeInOrder' /\ HeapExact'
    BY <2>2 DEF PoolInv, EntriesExact, DequeInOrder, HeapExact
  <2>5. FreshUnused'
    <3>1. \A b \in Blocks : b < nextFresh => b < nextFresh + 1
      BY <2>1 DEF Blocks
    <3> QED
      BY <2>2, <3>1 DEF PoolInv, FreshUnused
  <2> QED
    BY <2>3, <2>4, <2>5 DEF PoolInv
<1>2. CASE UNCHANGED poolVars
  BY <1>2, SMTT(30) DEF poolVars, queueVars, PoolInv, PoolTypeOK, EntriesExact, DequeInOrder, HeapExact,
     FreshUnused, Made
<1> QED
  BY <1>1, <1>2, PopInv, TouchInv, ReleaseInv DEF PoolNext

\* Each free block has one valid entry, in the queue of its kind.
LEMMA CountsAgree == PoolInv => CountExact
<1> SUFFICES ASSUME PoolInv
             PROVE  CountExact
  OBVIOUS
<1> DEFINE Plain == {b \in Blocks : entryOf[b] # NoEntry /\ ~cached[b]}
           Aged == {b \in Blocks : entryOf[b] # NoEntry /\ cached[b]}
           Q == {b \in Blocks : entryOf[b] # NoEntry}
           D == {i \in DOMAIN deque : deque[i] \in valid}
           H == {t \in heap : t[2] \in valid}
           d == [i \in D |-> entryBlock[deque[i]]]
           h == [t \in H |-> entryBlock[t[2]]]
<1>1. /\ EntriesExact /\ DequeInOrder /\ HeapExact
      /\ cached \in [Blocks -> BOOLEAN] /\ nextFresh \in 0..NumBlocks /\ NumBlocks \in Nat
      /\ Made \in Nat
  BY EntryFacts DEF PoolInv, PoolTypeOK
<1>2. IsFiniteSet(Plain) /\ IsFiniteSet(Aged) /\ IsFiniteSet(Q)
  <2>1. IsFiniteSet(Blocks)
    BY <1>1, FS_Interval DEF Blocks
  <2>2. Plain \in SUBSET Blocks /\ Aged \in SUBSET Blocks /\ Q \in SUBSET Blocks
    OBVIOUS
  <2> QED
    BY <2>1, <2>2, FS_Subset
<1>3. Q = Plain \cup Aged /\ Plain \cap Aged = {}
  OBVIOUS
<1>4. IsFiniteSet(D) /\ Cardinality(D) = Cardinality(Plain)
  <2>1. \A i \in D : /\ entryBlock[deque[i]] \in Plain
                     /\ entryOf[entryBlock[deque[i]]] = deque[i]
    <3> SUFFICES ASSUME NEW i \in D
                 PROVE  /\ entryBlock[deque[i]] \in Plain
                        /\ entryOf[entryBlock[deque[i]]] = deque[i]
      OBVIOUS
    <3>1. /\ entryBlock[deque[i]] \in Blocks /\ deque[i] # NoEntry
          /\ entryOf[entryBlock[deque[i]]] = deque[i]
      BY EntryFacts
    <3>2. deque[i] \in Range(deque)
      BY DEF Range
    <3> QED
      BY <1>1, <3>1, <3>2 DEF EntriesExact
  <2>2. d \in [D -> Plain]
    BY <2>1
  <2>3. ASSUME NEW i \in D, NEW j \in D, d[i] = d[j]
        PROVE  i = j
    <3>1. deque[i] = deque[j] /\ deque[i] \in Nat
      BY <1>1, <2>1, <2>3 DEF DequeInOrder
    <3>2. DOMAIN deque = 1..Len(deque) /\ Len(deque) \in Nat
      BY <1>1 DEF DequeInOrder
    <3>3. i < j \/ j < i \/ i = j
      BY <3>2
    <3> QED
      BY <1>1, <3>1, <3>3 DEF DequeInOrder
  <2>4. ASSUME NEW b \in Plain
        PROVE  \E i \in D : d[i] = b
    <3>1. entryOf[b] \in valid /\ entryBlock[entryOf[b]] = b /\ entryOf[b] \in Range(deque)
      BY <1>1, EntryFacts DEF EntriesExact
    <3>2. PICK i \in DOMAIN deque : deque[i] = entryOf[b]
      BY <3>1 DEF Range
    <3> QED
      BY <3>1, <3>2
  <2> HIDE DEF d, D, Plain
  <2> QED
    BY <1>2, <2>2, <2>3, <2>4, SameSize
<1>5. IsFiniteSet(H) /\ Cardinality(H) = Cardinality(Aged)
  <2>1. \A t \in H : entryBlock[t[2]] \in Aged /\ entryOf[entryBlock[t[2]]] = t[2]
    <3> SUFFICES ASSUME NEW t \in H
                 PROVE  entryBlock[t[2]] \in Aged /\ entryOf[entryBlock[t[2]]] = t[2]
      OBVIOUS
    <3>1. /\ entryBlock[t[2]] \in Blocks /\ t[2] # NoEntry
          /\ entryOf[entryBlock[t[2]]] = t[2]
      BY EntryFacts
    <3>2. t[2] \in {s[2] : s \in heap}
      OBVIOUS
    <3> QED
      BY <1>1, <3>1, <3>2 DEF EntriesExact
  <2>2. h \in [H -> Aged]
    BY <2>1
  <2>3. ASSUME NEW s \in H, NEW t \in H, h[s] = h[t]
        PROVE  s = t
    BY <1>1, <2>1, <2>3 DEF HeapExact
  <2>4. ASSUME NEW b \in Aged
        PROVE  \E t \in H : h[t] = b
    <3>1. /\ entryOf[b] \in valid /\ entryBlock[entryOf[b]] = b
          /\ entryOf[b] \in {t[2] : t \in heap}
      BY <1>1, EntryFacts DEF EntriesExact
    <3> QED
      BY <3>1
  <2> HIDE DEF h, H, Aged
  <2> QED
    BY <1>2, <2>2, <2>3, <2>4, SameSize
<1>6. Cardinality(Q) = Cardinality(Plain) + Cardinality(Aged)
  <2>1. Cardinality(Plain \cap Aged) = 0
    BY <1>3, FS_EmptySet
  <2>2. Cardinality(Plain) \in Nat /\ Cardinality(Aged) \in Nat
    BY <1>2, FS_CardinalityType
  <2>3. Cardinality(Plain \cup Aged)
          = Cardinality(Plain) + Cardinality(Aged) - Cardinality(Plain \cap Aged)
    BY <1>2, FS_Union
  <2> HIDE DEF Q, Plain, Aged
  <2> QED
    BY <1>3, <2>1, <2>2, <2>3
<1>7. Cardinality(Plain) \in Nat /\ Cardinality(Aged) \in Nat
  BY <1>2, FS_CardinalityType
<1>8. NumFree = (NumBlocks - nextFresh) + Cardinality(Q)
  BY DEF NumFree
<1> HIDE DEF Q, D, H, Plain, Aged
<1>9. NumFree = (NumBlocks - nextFresh) + Cardinality(D) + Cardinality(H)
  BY <1>1, <1>4, <1>5, <1>6, <1>7, <1>8
<1> QED
  BY <1>9 DEF CountExact, D, H

\* The invariant of the pool holds in every reachable state, for every number
\* of blocks and of releases.
THEOREM PoolInvariant == PoolSpec => []PoolInv
BY PoolInitInv, PoolStepInv, PTL DEF PoolSpec

\* The index of entries, the deque and the heap with their stale entries and
\* get_num_free_blocks() always describe the same free blocks, each once.
THEOREM PoolStaysExact == PoolSpec => []PoolExact
<1>1. PoolInv => PoolExact
  BY CountsAgree DEF PoolInv, PoolExact
<1> QED
  BY <1>1, PoolInvariant, PTL

-----------------------------------------------------------------------------
(* The pool implements the free list *)

\* The entries of the deque that count, and the free blocks of either kind.
Waiting == Range(deque) \cap valid
PlainBlocks == {b \in Blocks : entryOf[b] # NoEntry /\ ~cached[b]}
AgedBlocks == {b \in Blocks : entryOf[b] # NoEntry /\ cached[b]}

\* The abstract list, read off the index.
ListRead ==
    /\ Waiting \in SUBSET Nat /\ IsFiniteSet(Waiting)
    /\ Waiting = {entryOf[b] : b \in PlainBlocks}
    /\ \A e \in Waiting : entryBlock[e] \in PlainBlocks
    /\ ValidDeque \in Seq(Waiting) /\ Range(ValidDeque) = Waiting
    /\ PlainList \in Seq(Blocks) /\ Len(PlainList) = Len(ValidDeque)
    /\ \A i \in 1..Len(ValidDeque) : PlainList[i] = entryBlock[ValidDeque[i]]
    /\ Range(PlainList) = PlainBlocks

LEMMA ListFacts == PoolInv => ListRead
<1> SUFFICES ASSUME PoolInv
             PROVE  ListRead
  OBVIOUS
<1>1. /\ EntriesExact /\ Made \in Nat /\ Range(deque) \subseteq 1..Made
  BY EntryFacts DEF PoolInv, PoolTypeOK
<1>2. Waiting \in SUBSET Nat /\ IsFiniteSet(Waiting)
  <2>1. Waiting \in SUBSET (1..Made)
    BY <1>1 DEF Waiting
  <2>2. IsFiniteSet(1..Made)
    BY <1>1, FS_Interval
  <2>3. IsFiniteSet(Waiting)
    BY <2>1, <2>2, FS_Subset
  <2> QED
    BY <1>1, <2>1, <2>3
<1>3. \A e \in Waiting : entryBlock[e] \in PlainBlocks /\ entryOf[entryBlock[e]] = e
  BY <1>1, EntryFacts DEF Waiting, PlainBlocks, EntriesExact
<1>4. \A b \in PlainBlocks : entryOf[b] \in Waiting /\ entryBlock[entryOf[b]] = b
  BY <1>1, EntryFacts DEF Waiting, PlainBlocks, EntriesExact
<1>5. Waiting = {entryOf[b] : b \in PlainBlocks}
  BY <1>3, <1>4
<1>6. /\ ValidDeque \in Seq(Waiting) /\ Range(ValidDeque) = Waiting
      /\ DOMAIN ValidDeque = 1..Len(ValidDeque) /\ Len(ValidDeque) \in Nat
  <2>1. ValidDeque = Listed(Waiting)
    BY DEF ValidDeque, Waiting
  <2> QED
    BY <1>2, <2>1, ListedIs, ListingFacts, LenProperties
<1>7. \A i \in 1..Len(ValidDeque) : ValidDeque[i] \in Waiting
  BY <1>6 DEF Range
<1>8. /\ PlainList \in [1..Len(ValidDeque) -> Blocks]
      /\ \A i \in 1..Len(ValidDeque) : PlainList[i] = entryBlock[ValidDeque[i]]
  BY <1>3, <1>6, <1>7 DEF PlainList, PlainBlocks
<1>9. PlainList \in Seq(Blocks) /\ Len(PlainList) = Len(ValidDeque)
  BY <1>6, <1>8, FunctionIsSeq
<1>10. Range(PlainList) = PlainBlocks
  <2>1. \A b \in Range(PlainList) : b \in PlainBlocks
    BY <1>3, <1>7, <1>8 DEF Range
  <2>2. ASSUME NEW b \in PlainBlocks
        PROVE  b \in Range(PlainList)
    <3>1. entryOf[b] \in Range(ValidDeque) /\ entryBlock[entryOf[b]] = b
      BY <1>4, <1>6
    <3>2. PICK i \in 1..Len(ValidDeque) : ValidDeque[i] = entryOf[b]
      BY <1>6, <3>1 DEF Range
    <3> QED
      BY <1>8, <3>1, <3>2 DEF Range
  <2> QED
    BY <2>1, <2>2
<1> QED
  BY <1>2, <1>3, <1>5, <1>6, <1>8, <1>9, <1>10 DEF ListRead

\* The heap holds the free cached blocks.
AgedRead ==
    /\ AgedStamps = [b \in AgedBlocks |-> stamp[b]]
    /\ \A b \in AgedBlocks : \E t \in heap :
           t[2] = entryOf[b] /\ t[2] \in valid /\ t[1] = stamp[b]

LEMMA AgedFacts == PoolInv => AgedRead
<1> SUFFICES ASSUME PoolInv
             PROVE  AgedRead
  OBVIOUS
<1>1. EntriesExact /\ HeapExact
  BY DEF PoolInv
<1>2. ASSUME NEW b \in AgedBlocks
      PROVE  \E t \in heap : t[2] = entryOf[b] /\ t[2] \in valid /\ t[1] = stamp[b]
  <2>1. /\ entryOf[b] \in valid /\ entryBlock[entryOf[b]] = b
        /\ entryOf[b] \in {t[2] : t \in heap}
    BY <1>1, EntryFacts DEF AgedBlocks, EntriesExact
  <2>2. PICK t \in heap : t[2] = entryOf[b]
    BY <2>1
  <2>3. t[1] = stamp[b]
    BY <1>1, <2>1, <2>2 DEF HeapExact
  <2> QED
    BY <2>1, <2>2, <2>3
<1>3. \A b \in AgedBlocks : b \in {entryBlock[t[2]] : t \in ValidHeap}
  BY <1>2, EntryFacts DEF ValidHeap, AgedBlocks
<1>4. ASSUME NEW t \in ValidHeap
      PROVE  entryBlock[t[2]] \in AgedBlocks
  <2>1. t \in heap /\ t[2] \in valid
    BY DEF ValidHeap
  <2>2. /\ entryBlock[t[2]] \in Blocks /\ t[2] # NoEntry
        /\ entryOf[entryBlock[t[2]]] = t[2]
    BY <2>1, EntryFacts
  <2>3. t[2] \in {s[2] : s \in heap}
    BY <2>1
  <2> QED
    BY <1>1, <2>2, <2>3 DEF AgedBlocks, EntriesExact
<1>5. {entryBlock[t[2]] : t \in ValidHeap} = AgedBlocks
  BY <1>3, <1>4
<1> QED
  BY <1>2, <1>5 DEF AgedStamps, AgedRead

\* The part of the list that was never used.
FreshRead ==
    /\ FreshList \in Seq(Blocks) /\ Len(FreshList) = NumBlocks - nextFresh
    /\ \A i \in 1..(NumBlocks - nextFresh) : FreshList[i] = nextFresh + i - 1
    /\ Range(FreshList) = nextFresh..(NumBlocks - 1)
    /\ nextFresh \in 0..NumBlocks /\ NumBlocks \in Nat \ {0}

LEMMA FreshFacts == PoolInv => FreshRead
<1> SUFFICES ASSUME PoolInv
             PROVE  FreshRead
  OBVIOUS
<1>1. nextFresh \in 0..NumBlocks /\ NumBlocks \in Nat \ {0}
  BY EntryFacts DEF PoolInv, PoolTypeOK
<1>2. /\ FreshList \in [1..(NumBlocks - nextFresh) -> Blocks]
      /\ \A i \in 1..(NumBlocks - nextFresh) : FreshList[i] = nextFresh + i - 1
  BY <1>1 DEF FreshList, Blocks
<1>3. /\ FreshList \in Seq(Blocks) /\ Len(FreshList) = NumBlocks - nextFresh
      /\ DOMAIN FreshList = 1..(NumBlocks - nextFresh)
  <2>1. NumBlocks - nextFresh \in Int /\ NumBlocks - nextFresh >= 0
    BY <1>1
  <2> QED
    BY <1>2, <2>1, FunctionIsSeq
<1>4. Range(FreshList) = nextFresh..(NumBlocks - 1)
  <2>1. \A b \in Range(FreshList) : b \in nextFresh..(NumBlocks - 1)
    BY <1>1, <1>2, <1>3 DEF Range
  <2>2. ASSUME NEW b \in nextFresh..(NumBlocks - 1)
        PROVE  b \in Range(FreshList)
    <3>1. /\ b - nextFresh + 1 \in 1..(NumBlocks - nextFresh)
          /\ nextFresh + (b - nextFresh + 1) - 1 = b
      BY <1>1
    <3>2. FreshList[b - nextFresh + 1] = b
      BY <1>2, <3>1
    <3> QED
      BY <1>3, <3>1, <3>2 DEF Range
  <2> QED
    BY <2>1, <2>2
<1> QED
  BY <1>1, <1>2, <1>3, <1>4 DEF FreshRead

\* All three before and after a step.
LEMMA ReadTwice ==
    PoolInv /\ PoolInv' => /\ ListRead /\ AgedRead /\ FreshRead
                           /\ ListRead' /\ AgedRead' /\ FreshRead'
BY ListFacts, AgedFacts, FreshFacts, PTL

\* While the blocks of the deque and their entries stay, so does their list.
LEMMA SamePlain ==
    ASSUME PoolInv, PoolInv', Waiting' = Waiting,
           \A e \in Waiting : entryBlock'[e] = entryBlock[e]
    PROVE  PlainList' = PlainList
<1>1. ValidDeque' = ValidDeque
  BY DEF ValidDeque, Waiting
<1>2. \A i \in DOMAIN ValidDeque : ValidDeque[i] \in Waiting
  BY ReadTwice DEF Range, ListRead
<1> QED
  BY <1>1, <1>2 DEF PlainList

LEMMA ListInitially == PoolInit => List!ListInit
<1> SUFFICES ASSUME PoolInit
             PROVE  List!ListInit
  OBVIOUS
<1>1. PoolInv
  BY PoolInitInv
<1>2. nextFresh = 0 /\ NumBlocks \in Nat /\ handed = NoBlock
  BY PoolAssumption DEF PoolInit
<1>3. FreshList = [i \in 1..NumBlocks |-> i - 1]
  BY <1>2 DEF FreshList
<1>4. Waiting = {}
  BY DEF PoolInit, Waiting
<1>5. PlainList = <<>>
  <2>1. DOMAIN ValidDeque = 1..Len(ValidDeque)
    BY <1>1, ListFacts, AgedFacts, FreshFacts, LenProperties DEF ListRead
  <2>2. Range(ValidDeque) = {} /\ DOMAIN ValidDeque = {}
    BY <1>1, <1>4, ListFacts, AgedFacts, FreshFacts DEF Range, ListRead
  <2> QED
    BY <2>2 DEF PlainList
<1>6. FreshList \o PlainList = FreshList
  BY <1>1, <1>5, ListFacts, AgedFacts, FreshFacts, ConcatEnds DEF ListRead, FreshRead
<1>7. AgedStamps = <<>>
  <2>1. AgedBlocks = {}
    BY DEF PoolInit, AgedBlocks
  <2> QED
    BY <1>1, <2>1, ListFacts, AgedFacts, FreshFacts DEF AgedRead
<1> QED
  BY <1>2, <1>3, <1>6, <1>7 DEF List!ListInit, List!NoBlock, NoBlock

\* The next never used block is the head of the list.
LEMMA PopFreshLists ==
    ASSUME PoolInv, PoolInv', PopFresh
    PROVE  List!HandOutUncached
<1>1. /\ nextFresh < NumBlocks /\ handed' = nextFresh /\ nextFresh' = nextFresh + 1
      /\ UNCHANGED <<entryBlock, valid, entryOf, deque, heap, cached, stamp>>
      /\ nextFresh \in 0..NumBlocks /\ NumBlocks \in Nat
  BY ReadTwice DEF PopFresh, FreshRead
<1>2. /\ FreshList \in Seq(Blocks) /\ Len(FreshList) = NumBlocks - nextFresh
      /\ \A i \in 1..(NumBlocks - nextFresh) : FreshList[i] = nextFresh + i - 1
      /\ FreshList' \in Seq(Blocks) /\ Len(FreshList') = NumBlocks - (nextFresh + 1)
      /\ \A i \in 1..(NumBlocks - (nextFresh + 1)) : FreshList'[i] = nextFresh + 1 + i - 1
  BY <1>1, ReadTwice DEF FreshRead
<1>3. FreshList # <<>> /\ Head(FreshList) = nextFresh /\ FreshList' = Tail(FreshList)
  <2>1. FreshList # <<>>
    BY <1>1, <1>2
  <2>2. /\ Tail(FreshList) \in Seq(Blocks)
        /\ Len(Tail(FreshList)) = NumBlocks - nextFresh - 1
        /\ Head(FreshList) = FreshList[1]
        /\ \A i \in 1..(NumBlocks - nextFresh - 1) : Tail(FreshList)[i] = FreshList[i + 1]
    BY <1>1, <1>2, <2>1, HeadTailProperties
  <2>3. \A i \in 1..(NumBlocks - (nextFresh + 1)) :
            /\ i \in 1..(NumBlocks - nextFresh - 1) /\ i + 1 \in 1..(NumBlocks - nextFresh)
            /\ nextFresh + 1 + i - 1 = nextFresh + (i + 1) - 1
    BY <1>1
  <2>4. \A i \in 1..Len(FreshList') : FreshList'[i] = Tail(FreshList)[i]
    BY <1>2, <2>2, <2>3
  <2>5. NumBlocks - (nextFresh + 1) = NumBlocks - nextFresh - 1 /\ nextFresh + 1 - 1 = nextFresh
    BY <1>1
  <2>6. Head(FreshList) = nextFresh
    BY <1>1, <1>2, <2>2
  <2> QED
    BY <1>2, <2>1, <2>2, <2>4, <2>5, <2>6, SameSequence
<1>4. PlainList' = PlainList
  BY <1>1, SamePlain DEF Waiting
<1>5. AgedStamps' = AgedStamps
  BY <1>1 DEF AgedStamps, ValidHeap
<1>6. PlainList \in Seq(Blocks)
  BY ReadTwice DEF ListRead
<1>7. /\ FreshList \o PlainList # <<>>
      /\ Head(FreshList \o PlainList) = nextFresh
      /\ Tail(FreshList \o PlainList) = FreshList' \o PlainList'
  BY <1>2, <1>3, <1>4, <1>6, ConcatEnds
<1> QED
  BY <1>1, <1>5, <1>7 DEF List!HandOutUncached

\* The first entry of the deque that counts is the oldest.
LEMMA PopDequeLists ==
    ASSUME PoolInv, PoolInv', PopDeque
    PROVE  List!HandOutUncached
<1>1. PICK i \in DOMAIN deque :
        /\ deque[i] \in valid
        /\ \A j \in 1..i - 1 : deque[j] \notin valid
        /\ HandOut(deque[i])
        /\ deque' = SubSeq(deque, i + 1, Len(deque))
  BY DEF PopDeque
<1> DEFINE e == deque[i]
           b == entryBlock[e]
<1>2. /\ nextFresh = NumBlocks /\ UNCHANGED <<nextFresh, entryBlock, heap, clock>>
  BY DEF PopDeque
<1>3. /\ e \in Waiting /\ b \in PlainBlocks /\ entryOf[b] = e /\ e # NoEntry
      /\ entryOf \in [Blocks -> 0..Made] /\ cached \in [Blocks -> BOOLEAN]
      /\ stamp \in [Blocks -> 0..MaxAccess] /\ b \in Blocks
  <2>1. e \in Waiting
    BY <1>1 DEF Waiting, Range
  <2> QED
    BY <1>1, <2>1, EntryFacts, ReadTwice DEF PoolInv, PoolTypeOK, ListRead
<1>4. /\ handed' = b /\ entryOf' = [entryOf EXCEPT ![b] = NoEntry]
      /\ cached' = [cached EXCEPT ![b] = FALSE]
      /\ stamp' = [stamp EXCEPT ![b] = IF cached[b] THEN 0 ELSE @]
  BY <1>1 DEF HandOut
<1>5. /\ entryOf'[b] = NoEntry
      /\ \A c \in Blocks : c # b => /\ entryOf'[c] = entryOf[c]
                                    /\ cached'[c] = cached[c]
                                    /\ stamp'[c] = stamp[c]
  BY <1>3, <1>4
<1>6. PlainBlocks' = PlainBlocks \ {b}
  BY <1>5 DEF PlainBlocks
<1>7. Waiting' = Waiting \ {e}
  <2>1. Waiting' = {entryOf'[c] : c \in PlainBlocks'}
    BY ReadTwice DEF ListRead
  <2>2. \A c \in PlainBlocks \ {b} : c \in Blocks /\ entryOf'[c] = entryOf[c]
    BY <1>5 DEF PlainBlocks
  <2>3. \A c \in PlainBlocks \ {b} : entryOf[c] # e
    BY <1>3, EntryFacts DEF PlainBlocks
  <2>4. Waiting = {entryOf[c] : c \in PlainBlocks}
    BY ReadTwice DEF ListRead
  <2> HIDE DEF e, b
  <2>5. Waiting' = {entryOf[c] : c \in PlainBlocks \ {b}}
    BY <1>6, <2>1, <2>2
  <2>6. \A x \in Waiting' : x \in Waiting \ {e}
    BY <2>3, <2>4, <2>5
  <2>7. \A x \in Waiting \ {e} : x \in Waiting'
    BY <1>3, <2>4, <2>5
  <2> QED
    BY <2>6, <2>7
<1>8. \A x \in Waiting : e <= x
  <2> SUFFICES ASSUME NEW j \in DOMAIN deque, deque[j] \in valid
               PROVE  e <= deque[j]
    BY DEF Waiting, Range
  <2>1. /\ DOMAIN deque = 1..Len(deque) /\ Len(deque) \in Nat
        /\ \A k, l \in DOMAIN deque : k < l => deque[k] < deque[l]
        /\ \A k \in DOMAIN deque : deque[k] \in Nat
    BY EntryFacts, SMTT(30) DEF PoolInv, DequeInOrder
  <2>2. i < j \/ i = j
    BY <1>1, <2>1
  <2> QED
    BY <2>1, <2>2
<1>9. /\ ValidDeque # <<>> /\ ValidDeque \in Seq(Waiting) /\ Head(ValidDeque) = e
      /\ ValidDeque' = Tail(ValidDeque)
  <2>1. Waiting \in SUBSET Nat /\ IsFiniteSet(Waiting)
    BY ReadTwice DEF ListRead
  <2>2. ValidDeque = Listed(Waiting) /\ ValidDeque' = Listed(Waiting')
    BY DEF ValidDeque, Waiting
  <2> HIDE DEF e
  <2>3. /\ Listed(Waiting) # <<>> /\ Listed(Waiting) \in Seq(Waiting)
        /\ Head(Listed(Waiting)) = e /\ Listed(Waiting \ {e}) = Tail(Listed(Waiting))
    BY <1>3, <1>8, <2>1, ListedTail
  <2> QED
    BY <1>7, <2>2, <2>3
<1>10. PlainList # <<>> /\ Head(PlainList) = b /\ PlainList' = Tail(PlainList)
  <2> DEFINE n == Len(ValidDeque)
  <2>1. /\ n \in Nat \ {0} /\ Head(ValidDeque) = ValidDeque[1]
        /\ Len(ValidDeque') = n - 1
        /\ \A k \in 1..(n - 1) : ValidDeque'[k] = ValidDeque[k + 1]
    BY <1>9, HeadTailProperties, EmptySeq
  <2>2. /\ PlainList \in Seq(Blocks) /\ Len(PlainList) = n
        /\ \A k \in 1..n : PlainList[k] = entryBlock[ValidDeque[k]]
        /\ PlainList' \in Seq(Blocks) /\ Len(PlainList') = n - 1
        /\ \A k \in 1..(n - 1) : PlainList'[k] = entryBlock[ValidDeque'[k]]
    BY <1>2, <2>1, ReadTwice DEF ListRead
  <2> HIDE DEF n
  <2>3. PlainList # <<>> /\ Head(PlainList) = PlainList[1]
    BY <2>1, <2>2, HeadTailProperties
  <2>4. /\ Tail(PlainList) \in Seq(Blocks) /\ Len(Tail(PlainList)) = n - 1
        /\ \A k \in 1..(n - 1) : Tail(PlainList)[k] = PlainList[k + 1]
    BY <2>1, <2>2, <2>3, HeadTailProperties
  <2>5. \A k \in 1..(n - 1) : k + 1 \in 1..n
    BY <2>1
  <2>6. \A k \in 1..(n - 1) : PlainList'[k] = Tail(PlainList)[k]
    BY <2>1, <2>2, <2>4, <2>5
  <2>7. PlainList' = Tail(PlainList)
    BY <2>2, <2>4, <2>6, SameSequence
  <2> QED
    BY <1>9, <2>1, <2>2, <2>3, <2>7
<1>11. FreshList = <<>> /\ FreshList' = <<>>
  <2>1. Len(FreshList) = 0 /\ Len(FreshList') = 0
    BY <1>2, ReadTwice DEF FreshRead
  <2> QED
    BY <2>1, ReadTwice, EmptySeq DEF FreshRead
<1>12. FreshList \o PlainList = PlainList /\ FreshList' \o PlainList' = PlainList'
  <2>1. /\ FreshList \in Seq(Blocks) /\ PlainList \in Seq(Blocks)
        /\ FreshList' \in Seq(Blocks) /\ PlainList' \in Seq(Blocks)
    <3>1. Blocks' = Blocks
      BY DEF Blocks
    <3> QED
      BY <3>1, ReadTwice DEF ListRead, FreshRead
  <2> QED
    BY <1>11, <2>1, ConcatEmptySeq
<1>13. AgedStamps' = AgedStamps
  <2>1. AgedBlocks' = AgedBlocks /\ b \notin AgedBlocks
    BY <1>3, <1>5 DEF AgedBlocks, PlainBlocks
  <2>2. \A c \in AgedBlocks : stamp'[c] = stamp[c]
    BY <1>5, <2>1 DEF AgedBlocks
  <2> QED
    BY <2>1, <2>2, ReadTwice DEF AgedRead
<1> QED
  BY <1>4, <1>10, <1>12, <1>13 DEF List!HandOutUncached

\* No uncached block is left, and the least recently accessed one goes.
LEMMA PopHeapLists ==
    ASSUME PoolInv, PoolInv', PopHeap
    PROVE  \E b \in Blocks : List!HandOutCached(b)
<1>1. PICK t \in heap :
        /\ t[2] \in valid
        /\ \A s \in heap : s[2] \in valid => ~Before(s, t)
        /\ HandOut(t[2])
  BY DEF PopHeap
<1>2. PICK b \in Blocks : b = entryBlock[t[2]] /\ entryOf[b] = t[2]
  BY <1>1, EntryFacts
<1>3. /\ nextFresh = NumBlocks /\ UNCHANGED <<nextFresh, entryBlock, clock>>
      /\ Waiting = {} /\ deque' = <<>>
  BY DEF PopHeap, Waiting
<1>4. /\ entryOf \in [Blocks -> 0..Made] /\ cached \in [Blocks -> BOOLEAN]
      /\ stamp \in [Blocks -> 0..MaxAccess] /\ MaxAccess \in Nat
      /\ heap \subseteq (1..MaxAccess) \X (1..Made) /\ EntriesExact /\ HeapExact
  BY EntryFacts DEF PoolInv, PoolTypeOK
<1>5. b \in AgedBlocks /\ stamp[b] = t[1]
  <2>1. entryOf[b] \in {s[2] : s \in heap} /\ entryOf[b] # NoEntry
    BY <1>1, <1>2, EntryFacts
  <2> QED
    BY <1>1, <1>2, <1>4, <2>1 DEF AgedBlocks, EntriesExact, HeapExact
<1>6. /\ handed' = b /\ entryOf' = [entryOf EXCEPT ![b] = NoEntry]
      /\ cached' = [cached EXCEPT ![b] = FALSE]
      /\ stamp' = [stamp EXCEPT ![b] = IF cached[b] THEN 0 ELSE @]
  BY <1>1, <1>2 DEF HandOut
<1>7. /\ entryOf'[b] = NoEntry
      /\ \A c \in Blocks : c # b => /\ entryOf'[c] = entryOf[c]
                                    /\ cached'[c] = cached[c]
                                    /\ stamp'[c] = stamp[c]
  BY <1>4, <1>6
<1>8. AgedBlocks' = AgedBlocks \ {b}
  BY <1>7 DEF AgedBlocks
<1>9. AgedStamps' = List!Restrict(AgedStamps, DOMAIN AgedStamps \ {b})
  <2>1. \A c \in AgedBlocks \ {b} : stamp'[c] = stamp[c]
    BY <1>7 DEF AgedBlocks
  <2>2. AgedStamps' = [c \in AgedBlocks \ {b} |-> stamp[c]]
    BY <1>8, <2>1, ReadTwice DEF AgedRead
  <2>3. AgedStamps = [c \in AgedBlocks |-> stamp[c]]
    BY ReadTwice DEF AgedRead
  <2> QED
    BY <2>2, <2>3 DEF List!Restrict
<1>10. ASSUME NEW c \in AgedBlocks
       PROVE  stamp[b] <= stamp[c]
  <2>1. PICK s \in heap : s[2] \in valid /\ s[1] = stamp[c]
    BY ReadTwice DEF AgedRead
  <2>2. ~Before(s, t) /\ s[1] \in Nat /\ t[1] \in Nat
    BY <1>1, <1>4, <2>1
  <2> QED
    BY <1>5, <2>1, <2>2 DEF Before
<1>11. FreshList \o PlainList = <<>> /\ FreshList' \o PlainList' = <<>>
  <2>1. Len(FreshList) = 0 /\ Len(FreshList') = 0
    BY <1>3, ReadTwice DEF FreshRead
  <2>2. Waiting' = {}
    BY <1>3 DEF Waiting, Range
  <2>3. /\ FreshList \in Seq(Blocks) /\ PlainList \in Seq(Blocks)
        /\ FreshList' \in Seq(Blocks) /\ PlainList' \in Seq(Blocks)
    <3>1. Blocks' = Blocks
      BY DEF Blocks
    <3> QED
      BY <3>1, ReadTwice DEF FreshRead, ListRead
  <2>4. PlainBlocks = {} /\ PlainBlocks' = {}
    BY <1>3, <2>2, ReadTwice DEF ListRead
  <2>5. Range(PlainList) = {} /\ Range(PlainList') = {}
    BY <2>4, ReadTwice DEF ListRead
  <2>6. PlainList = <<>> /\ PlainList' = <<>>
    BY <2>3, <2>5, TailRange
  <2>7. FreshList = <<>> /\ FreshList' = <<>>
    BY <2>1, <2>3, EmptySeq
  <2> QED
    BY <2>3, <2>6, <2>7, ConcatEmptySeq
<1>12. List!HandOutCached(b)
  <2>1. AgedStamps = [c \in AgedBlocks |-> stamp[c]]
    BY ReadTwice DEF AgedRead
  <2>2. \A c \in DOMAIN AgedStamps : AgedStamps[b] <= AgedStamps[c]
    BY <1>5, <1>10, <2>1
  <2>3. b \in DOMAIN AgedStamps
    BY <1>5, <2>1
  <2> QED
    BY <1>6, <1>9, <1>11, <2>2, <2>3 DEF List!HandOutCached
<1> QED
  BY <1>12

\* A touched block is not in the list.
LEMMA AccessLists ==
    ASSUME PoolInv, PoolInv', NEW b \in Blocks, Access(b)
    PROVE  UNCHANGED List!listVars
<1>1. /\ entryOf[b] = NoEntry /\ UNCHANGED <<queueVars, handed>>
      /\ cached' = [cached EXCEPT ![b] = TRUE]
      /\ stamp' = [stamp EXCEPT ![b] = clock + 1]
      /\ cached \in [Blocks -> BOOLEAN] /\ stamp \in [Blocks -> 0..MaxAccess]
  BY DEF Access, Out, PoolInv, PoolTypeOK
<1>2. UNCHANGED <<nextFresh, entryBlock, valid, entryOf, deque, heap, handed>>
  BY <1>1 DEF queueVars
<1>3. PlainList' = PlainList
  BY <1>2, SamePlain DEF Waiting
<1>4. FreshList' = FreshList
  BY <1>2 DEF FreshList
<1>5. AgedStamps' = AgedStamps
  <2>1. AgedBlocks' = AgedBlocks /\ b \notin AgedBlocks
    BY <1>1, <1>2 DEF AgedBlocks
  <2>2. \A c \in AgedBlocks : stamp'[c] = stamp[c]
    BY <1>1, <2>1 DEF AgedBlocks
  <2> QED
    BY <2>1, <2>2, ReadTwice DEF AgedRead
<1> QED
  BY <1>2, <1>3, <1>4, <1>5 DEF List!listVars

\* A cached block that a prefix hit takes back is no longer free.
LEMMA AcquireLists ==
    ASSUME PoolInv, PoolInv', NEW b \in Blocks, Acquire(b)
    PROVE  List!TakeBack(b)
<1>1. /\ entryOf[b] # NoEntry /\ cached[b]
      /\ valid' = valid \ {entryOf[b]} /\ entryOf' = [entryOf EXCEPT ![b] = NoEntry]
      /\ stamp' = [stamp EXCEPT ![b] = clock + 1]
      /\ UNCHANGED <<nextFresh, entryBlock, deque, heap, cached, handed>>
      /\ entryOf \in [Blocks -> 0..Made] /\ stamp \in [Blocks -> 0..MaxAccess]
      /\ EntriesExact
  BY DEF Acquire, Invalidated, PoolInv, PoolTypeOK
<1>2. Waiting' = Waiting
  BY <1>1 DEF Waiting, EntriesExact
<1>3. PlainList' = PlainList
  BY <1>1, <1>2, SamePlain
<1>4. FreshList' = FreshList
  BY <1>1 DEF FreshList
<1>5. AgedBlocks' = AgedBlocks \ {b} /\ b \in AgedBlocks
  BY <1>1 DEF AgedBlocks
<1>6. AgedStamps = [c \in AgedBlocks |-> stamp[c]]
  BY ReadTwice DEF AgedRead
<1>7. AgedStamps' = List!Restrict(AgedStamps, DOMAIN AgedStamps \ {b})
  <2>1. \A c \in AgedBlocks \ {b} : stamp'[c] = stamp[c]
    BY <1>1 DEF AgedBlocks
  <2>2. AgedStamps' = [c \in AgedBlocks \ {b} |-> stamp[c]]
    BY <1>5, <2>1, ReadTwice DEF AgedRead
  <2> QED
    BY <1>6, <2>2 DEF List!Restrict
<1> QED
  BY <1>1, <1>3, <1>4, <1>5, <1>6, <1>7 DEF List!TakeBack

\* A released block goes to the end of the list, or among the cached ones
\* under its last_accessed.
LEMMA ReleaseLists ==
    ASSUME PoolInv, PoolInv', NEW b \in Blocks, Release(b)
    PROVE  List!ReturnUncached(b) \/ \E t \in 1..MaxAccess : List!ReturnCached(b, t)
<1>1. PICK e \in Nat : e = Made + 1
  BY EntryFacts
<1>2. /\ b < nextFresh /\ entryOf[b] = NoEntry
      /\ entryBlock' = Append(entryBlock, b)
      /\ valid' = Invalidated(b) \cup {e}
      /\ entryOf' = [entryOf EXCEPT ![b] = e]
      /\ UNCHANGED <<nextFresh, cached, clock, handed>>
      /\ stamp' = IF cached[b] THEN stamp ELSE [stamp EXCEPT ![b] = 0]
  BY <1>1 DEF Release, Out
<1>3. /\ entryOf \in [Blocks -> 0..Made] /\ stamp \in [Blocks -> 0..MaxAccess]
      /\ entryBlock \in Seq(Blocks) /\ Made \in Nat /\ MaxAccess \in Nat
      /\ Range(deque) \subseteq 1..Made /\ deque \in Seq(1..Made)
      /\ NumBlocks \in Nat /\ nextFresh \in 0..NumBlocks /\ FreshUnused
  BY EntryFacts DEF PoolInv, PoolTypeOK, DequeInOrder
<1>4. valid' = valid \cup {e} /\ e # NoEntry /\ e \notin 1..Made
  <2>1. NoEntry \notin valid
    BY EntryFacts
  <2> QED
    BY <1>1, <1>2, <1>3, <2>1 DEF Invalidated, NoEntry
<1>5. entryBlock'[e] = b /\ \A d \in 1..Made : entryBlock'[d] = entryBlock[d]
  BY <1>1, <1>2, <1>3, AppendProperties DEF Made
<1>6. /\ entryOf'[b] = e
      /\ \A c \in Blocks : c # b => entryOf'[c] = entryOf[c] /\ stamp'[c] = stamp[c]
  BY <1>2, <1>3
<1>7. b \notin List!Free
  <2>1. AgedStamps = [c \in AgedBlocks |-> stamp[c]]
    BY ReadTwice DEF AgedRead
  <2>2. Range(FreshList \o PlainList) = (nextFresh..(NumBlocks - 1)) \cup PlainBlocks
    BY ReadTwice, ConcatRange DEF FreshRead, ListRead
  <2>3. b \notin AgedBlocks /\ b \notin PlainBlocks /\ b \notin nextFresh..(NumBlocks - 1)
    BY <1>2, <1>3 DEF AgedBlocks, PlainBlocks, Blocks
  <2>4. List!Range(FreshList \o PlainList) = Range(FreshList \o PlainList)
    BY DEF List!Range, Range
  <2> QED
    BY <2>1, <2>2, <2>3, <2>4 DEF List!Free
<1>8. FreshList' = FreshList
  BY <1>2 DEF FreshList
<1>9. /\ FreshList \in Seq(Blocks) /\ PlainList \in Seq(Blocks)
      /\ Waiting \in SUBSET Nat /\ IsFiniteSet(Waiting)
  BY ReadTwice DEF FreshRead, ListRead
<1>10. CASE cached[b]
  <2>1. heap' = Pushed(b, e) /\ deque' = deque /\ stamp' = stamp
    BY <1>1, <1>2, <1>10 DEF Release
  <2>2. Waiting' = Waiting
    BY <1>3, <1>4, <2>1 DEF Waiting
  <2>3. PlainList' = PlainList
    <3>1. \A x \in Waiting : x \in 1..Made
      BY <1>3 DEF Waiting
    <3> QED
      BY <1>5, <2>2, <3>1, SamePlain
  <2>4. AgedBlocks' = AgedBlocks \cup {b}
    BY <1>2, <1>4, <1>6, <1>10 DEF AgedBlocks
  <2>5. /\ AgedStamps = [c \in AgedBlocks |-> stamp[c]]
        /\ AgedStamps' = [c \in AgedBlocks \cup {b} |-> stamp[c]]
    BY <2>1, <2>4, ReadTwice DEF AgedRead
  <2>6. stamp[b] \in 1..MaxAccess
    BY <1>3, <1>10 DEF FreshUnused
  <2>7. AgedStamps' = [c \in DOMAIN AgedStamps \cup {b} |->
                         IF c = b THEN stamp[b] ELSE AgedStamps[c]]
    BY <2>5
  <2>8. List!ReturnCached(b, stamp[b])
    BY <1>2, <1>7, <1>8, <2>3, <2>7 DEF List!ReturnCached
  <2> QED
    BY <2>6, <2>8
<1>11. CASE ~cached[b]
  <2>1. deque' = Append(deque, e) /\ heap' = heap
    BY <1>1, <1>11 DEF Release
  <2>2. Waiting' = Waiting \cup {e}
    <3>1. Waiting' = {entryOf'[c] : c \in PlainBlocks'} /\ Waiting = {entryOf[c] : c \in PlainBlocks}
      BY ReadTwice DEF ListRead
    <3>2. PlainBlocks' = PlainBlocks \cup {b} /\ b \notin PlainBlocks
      BY <1>2, <1>4, <1>6, <1>11 DEF PlainBlocks
    <3>3. \A c \in PlainBlocks : entryOf'[c] = entryOf[c]
      BY <1>6, <3>2 DEF PlainBlocks
    <3> QED
      BY <1>6, <3>1, <3>2, <3>3
  <2>3. \A x \in Waiting : x < e
    BY <1>1, <1>3 DEF Waiting
  <2>4. ValidDeque' = Append(ValidDeque, e)
    <3>1. ValidDeque = Listed(Waiting) /\ ValidDeque' = Listed(Waiting')
      BY DEF ValidDeque, Waiting
    <3> QED
      BY <1>9, <2>2, <2>3, <3>1, ListedAppend
  <2>5. PlainList' = Append(PlainList, b)
    <3> DEFINE n == Len(ValidDeque)
    <3>1. /\ ValidDeque \in Seq(Waiting \cup {e}) /\ e \in Waiting \cup {e} /\ n \in Nat
          /\ \A i \in 1..n : ValidDeque[i] \in Waiting
      BY ReadTwice, LenProperties DEF ListRead, Range
    <3>2. /\ Len(ValidDeque') = n + 1 /\ ValidDeque'[n + 1] = e
          /\ \A i \in 1..n : ValidDeque'[i] = ValidDeque[i]
      BY <2>4, <3>1, AppendProperties
    <3>3. /\ PlainList \in Seq(Blocks) /\ Len(PlainList) = n
          /\ \A i \in 1..n : PlainList[i] = entryBlock[ValidDeque[i]]
          /\ PlainList' \in Seq(Blocks) /\ Len(PlainList') = n + 1
          /\ \A i \in 1..(n + 1) : PlainList'[i] = entryBlock'[ValidDeque'[i]]
      <4>1. Blocks' = Blocks
        BY DEF Blocks
      <4> QED
        BY <3>2, <4>1, ReadTwice DEF ListRead
    <3>4. /\ Append(PlainList, b) \in Seq(Blocks) /\ Len(Append(PlainList, b)) = n + 1
          /\ \A i \in 1..n : Append(PlainList, b)[i] = PlainList[i]
          /\ Append(PlainList, b)[n + 1] = b
      BY <3>3, AppendProperties
    <3> HIDE DEF n
    <3>5. \A i \in 1..n : entryBlock'[ValidDeque[i]] = entryBlock[ValidDeque[i]]
      BY <1>3, <1>5, <3>1 DEF Waiting
    <3>6. ASSUME NEW i \in 1..(n + 1)
          PROVE  PlainList'[i] = Append(PlainList, b)[i]
      <4>1. i \in 1..n \/ i = n + 1
        BY <3>1
      <4> QED
        BY <1>5, <3>2, <3>3, <3>4, <3>5, <4>1
    <3> QED
      BY <3>3, <3>4, <3>6, SameSequence
  <2>6. FreshList' \o PlainList' = Append(FreshList \o PlainList, b)
    BY <1>8, <1>9, <2>5, ConcatEnds
  <2>7. AgedStamps' = AgedStamps
    <3>1. AgedBlocks' = AgedBlocks /\ b \notin AgedBlocks
      BY <1>2, <1>6, <1>11 DEF AgedBlocks
    <3>2. \A c \in AgedBlocks : stamp'[c] = stamp[c]
      BY <1>6, <3>1 DEF AgedBlocks
    <3> QED
      BY <3>1, <3>2, ReadTwice DEF AgedRead
  <2>8. List!ReturnUncached(b)
    BY <1>2, <1>7, <2>6, <2>7 DEF List!ReturnUncached
  <2> QED
    BY <2>8
<1> QED
  BY <1>10, <1>11

\* Stale entries in the deque and the heap never show: what the pool hands out
\* is what free_queue.py:6 promises, uncached blocks first in the order of
\* their release, then cached blocks, least recently accessed first.
THEOREM PoolImplementsFreeList == PoolSpec => ImplementsFreeList
<1>1. PoolInv /\ PoolInv' /\ [PoolNext]_poolVars => [List!ListNext]_List!listVars
  <2> SUFFICES ASSUME PoolInv, PoolInv', [PoolNext]_poolVars
               PROVE  [List!ListNext]_List!listVars
    OBVIOUS
  <2>1. List!Blocks = Blocks
    BY DEF List!Blocks, Blocks
  <2>2. CASE PopFresh \/ PopDeque
    BY <2>2, PopFreshLists, PopDequeLists DEF List!ListNext
  <2>3. CASE PopHeap
    BY <2>1, <2>3, PopHeapLists DEF List!ListNext
  <2>4. ASSUME NEW b \in Blocks, Access(b)
        PROVE  UNCHANGED List!listVars
    BY <2>4, AccessLists
  <2>5. ASSUME NEW b \in Blocks, Acquire(b)
        PROVE  List!ListNext
    BY <2>1, <2>5, AcquireLists DEF List!ListNext
  <2>6. ASSUME NEW b \in Blocks, Release(b)
        PROVE  List!ListNext
    BY <2>1, <2>6, ReleaseLists DEF List!ListNext
  <2>7. CASE UNCHANGED poolVars
    BY <2>7 DEF poolVars, queueVars, List!listVars, FreshList, PlainList, AgedStamps,
       ValidDeque, ValidHeap
  <2> QED
    BY <2>2, <2>3, <2>4, <2>5, <2>6, <2>7 DEF PoolNext
<1> QED
  BY <1>1, ListInitially, PoolInvariant, PTL DEF PoolSpec, ImplementsFreeList, List!ListSpec

-----------------------------------------------------------------------------
(* The schedulers without paged memory *)

NumReqs == Cardinality(Reqs)

\* How often a list in which nothing is twice has an element.
LEMMA PlacesInList ==
  ASSUME NEW S, NEW s \in Seq(S), IsInjective(s), NEW x
  PROVE  Cardinality({i \in DOMAIN s : s[i] = x}) = IF x \in Range(s) THEN 1 ELSE 0
<1>1. CASE x \in Range(s)
  <2>1. PICK i \in DOMAIN s : s[i] = x
    BY <1>1 DEF Range
  <2>2. \A j \in DOMAIN s : s[j] = x => j = i
    BY <2>1 DEF IsInjective
  <2>3. {j \in DOMAIN s : s[j] = x} = {i}
    BY <2>1, <2>2
  <2> QED
    BY <1>1, <2>3, FS_Singleton
<1>2. CASE x \notin Range(s)
  <2>1. {j \in DOMAIN s : s[j] = x} = {}
    BY <1>2 DEF Range
  <2> QED
    BY <1>2, <2>1, FS_EmptySet
<1> QED
  BY <1>1, <1>2

\* Two lists that together have what a list has, nothing twice.
Splits(list, one, two) ==
  /\ one \in Seq(Reqs) /\ two \in Seq(Reqs)
  /\ IsInjective(one) /\ IsInjective(two)
  /\ Range(one) \cap Range(two) = {}
  /\ Range(one) \cup Range(two) = Range(list)

\* Wherever the sum cuts a list, or jumps over the bound.
LEMMA TakenSplits ==
  ASSUME NEW list \in Seq(Reqs), IsInjective(list)
  PROVE  Splits(list, Taken(list).taken, Taken(list).rest)
<1> DEFINE len == Len(list)
           backwards == Reverse(list)
           cuts == {n \in 1 .. len : Prompts(SubSeq(backwards, 1, n)) = MaxSum}
           n == IF cuts = {} THEN len ELSE CHOOSE m \in cuts : \A k \in cuts : m =< k
           taken == SubSeq(backwards, 1, n)
           rest == SubSeq(list, 1, len - n)
<1>1. len \in Nat /\ DOMAIN list = 1 .. len /\ \A i \in 1 .. len : list[i] \in Reqs
  BY LenProperties
<1>2. Taken(list).taken = taken /\ Taken(list).rest = rest
  BY DEF Taken
<1>3. n \in 0 .. len
  <2>1. CASE cuts = {}
    BY <1>1, <2>1
  <2>2. CASE cuts # {}
    <3>1. cuts \in SUBSET Nat
      OBVIOUS
    <3> HIDE DEF cuts
    <3>2. \E m \in cuts : \A k \in cuts : m =< k
      BY <2>2, <3>1, LeastNat
    <3>3. n \in cuts
      BY <2>2, <3>2
    <3> QED
      BY <3>3, <1>1 DEF cuts
  <2> QED
    BY <2>1, <2>2
<1> HIDE DEF n
<1>4. /\ backwards \in Seq(Reqs) /\ Len(backwards) = len
      /\ \A i \in 1 .. len : backwards[i] = list[len - i + 1]
  <2>1. \A i \in 1 .. len : len - i + 1 \in 1 .. len
    BY <1>1
  <2>2. backwards = [i \in 1 .. len |-> list[len - i + 1]]
    BY DEF Reverse
  <2>3. backwards \in [1 .. len -> Reqs]
    BY <1>1, <2>1, <2>2
  <2> QED
    BY <1>1, <2>2, <2>3, FunctionIsSeq
<1> HIDE DEF backwards
<1>5. /\ taken \in Seq(Reqs) /\ DOMAIN taken = 1 .. n
      /\ \A i \in 1 .. n : taken[i] = list[len - i + 1] /\ len - i + 1 \in 1 .. len
  BY <1>1, <1>3, <1>4
<1>6. /\ rest \in Seq(Reqs) /\ DOMAIN rest = 1 .. (len - n)
      /\ \A i \in 1 .. (len - n) : rest[i] = list[i] /\ i \in 1 .. len
  BY <1>1, <1>3
<1> HIDE DEF taken, rest, len
<1>7. \A i, j \in 1 .. len : list[i] = list[j] => i = j
  BY <1>1 DEF IsInjective
<1>8. IsInjective(taken) /\ IsInjective(rest)
  <2>1. ASSUME NEW i \in 1 .. n, NEW j \in 1 .. n, taken[i] = taken[j]
        PROVE  i = j
    <3>1. len - i + 1 = len - j + 1
      BY <1>5, <1>7, <2>1
    <3> QED
      BY <1>1, <1>3, <3>1
  <2>2. ASSUME NEW i \in 1 .. (len - n), NEW j \in 1 .. (len - n), rest[i] = rest[j]
        PROVE  i = j
    BY <1>6, <1>7, <2>2
  <2> QED
    BY <1>5, <1>6, <2>1, <2>2 DEF IsInjective
<1>9. Range(taken) \cap Range(rest) = {}
  <2> SUFFICES ASSUME NEW i \in 1 .. n, NEW j \in 1 .. (len - n), taken[i] = rest[j]
               PROVE  FALSE
    BY <1>5, <1>6 DEF Range
  <2>1. len - i + 1 = j
    BY <1>5, <1>6, <1>7
  <2> QED
    BY <1>1, <1>3, <2>1
<1>10. Range(taken) \cup Range(rest) = Range(list)
  <2>1. \A i \in 1 .. len : i \in 1 .. (len - n) \/ len - i + 1 \in 1 .. n
    BY <1>1, <1>3
  <2>2. \A i \in 1 .. len : len - (len - i + 1) + 1 = i
    BY <1>1
  <2>3. \A i \in 1 .. len : list[i] \in Range(taken) \cup Range(rest)
    BY <1>5, <1>6, <2>1, <2>2, SMTT(30) DEF Range
  <2>4. Range(list) \subseteq Range(taken) \cup Range(rest)
    BY <1>1, <2>3 DEF Range
  <2>5. Range(taken) \subseteq Range(list) /\ Range(rest) \subseteq Range(list)
    BY <1>1, <1>5, <1>6 DEF Range
  <2> QED
    BY <2>4, <2>5
<1> QED
  BY <1>2, <1>5, <1>6, <1>8, <1>9, <1>10 DEF Splits

\* One list after the other.
LEMMA JoinedLists ==
  ASSUME NEW list, NEW one, NEW two, Splits(list, one, two)
  PROVE  /\ two \o one \in Seq(Reqs)
         /\ IsInjective(two \o one)
         /\ Range(two \o one) = Range(list)
<1>1. /\ one \in Seq(Reqs) /\ two \in Seq(Reqs)
      /\ IsInjective(one) /\ IsInjective(two)
      /\ Range(two) \cap Range(one) = {} /\ Range(one) \cup Range(two) = Range(list)
  BY DEF Splits
<1>2. /\ two \o one \in Seq(Reqs)
      /\ Range(two \o one) = Range(two) \cup Range(one)
      /\ IsInjective(two \o one)
  BY <1>1, ConcatRange
<1> QED
  BY <1>1, <1>2

\* Those that run, the last arrival first.
LEMMA LatestFirstProperties ==
  ASSUME NEW set, arrived \in Nat, set \subseteq 1 .. arrived, arrived \in Reqs \cup {0},
         Reqs = 1 .. NumReqs, NumReqs \in Nat
  PROVE  /\ LatestFirst(set) \in Seq(Reqs)
         /\ IsInjective(LatestFirst(set))
         /\ Range(LatestFirst(set)) = set
<1> DEFINE all == [i \in 1 .. arrived |-> arrived + 1 - i]
<1>1. \A i \in 1 .. arrived : arrived + 1 - i \in 1 .. arrived /\ arrived + 1 - i \in Reqs
  OBVIOUS
<1>2. all \in [1 .. arrived -> Reqs]
  BY <1>1
<1>3. all \in Seq(Reqs)
  BY <1>2, FunctionIsSeq
<1>4. IsInjective(all)
  BY DEF IsInjective
<1>5. Range(all) = 1 .. arrived
  <2>1. \A i \in 1 .. arrived : all[arrived + 1 - i] = i
    BY <1>1
  <2>2. 1 .. arrived \subseteq Range(all)
    BY <1>1, <2>1 DEF Range
  <2>3. Range(all) \subseteq 1 .. arrived
    BY <1>1 DEF Range
  <2> QED
    BY <2>2, <2>3
<1>6. LatestFirst(set) = Kept(all, set)
  BY DEF LatestFirst
<1> HIDE DEF all
<1>7. /\ Kept(all, set) \in Seq(Reqs) /\ IsInjective(Kept(all, set))
      /\ Range(Kept(all, set)) = Range(all) \cap set
  BY <1>3, <1>4, KeptProperties
<1> QED
  BY <1>5, <1>6, <1>7

-----------------------------------------------------------------------------
(* Their invariant *)

\* Who is in which list.
Lists ==
  /\ waiting \in Seq(Reqs) /\ running \in Seq(Reqs) /\ batch \in Seq(Reqs)
  /\ IsInjective(waiting) /\ IsInjective(running)
  /\ Range(waiting) \cap Range(running) = {}
  /\ \A r \in Reqs :
       r \in Range(waiting) \cup Range(running) <=> r =< arrived /\ ~IsDone(r)

\* What waits has no token yet, what runs has one.
Tokens ==
  /\ generation \in [Reqs -> Nat]
  /\ \A r \in Reqs : r > arrived => generation[r] = 0
  /\ \A r \in Range(waiting) : generation[r] = 0
  /\ \A r \in Range(running) : generation[r] # 0

BatchInv ==
  /\ discipline \in {"static", "dynamic"} /\ arrived \in 0 .. NumReqs
  /\ Lists /\ Tokens /\ StaticBatchesPure

LEMMA BatchNow ==
  ASSUME BatchInv
  PROVE  PlainBatchesSound
<1>1. ASSUME NEW r \in Reqs
      PROVE  Cardinality({i \in DOMAIN waiting : waiting[i] = r})
               + Cardinality({i \in DOMAIN running : running[i] = r})
             = IF r =< arrived /\ ~IsDone(r) THEN 1 ELSE 0
  <2>1. /\ Cardinality({i \in DOMAIN waiting : waiting[i] = r})
             = IF r \in Range(waiting) THEN 1 ELSE 0
        /\ Cardinality({i \in DOMAIN running : running[i] = r})
             = IF r \in Range(running) THEN 1 ELSE 0
    BY PlacesInList DEF BatchInv, Lists
  <2>2. /\ r \in Range(waiting) \cup Range(running) <=> r =< arrived /\ ~IsDone(r)
        /\ ~(r \in Range(waiting) /\ r \in Range(running))
    BY DEF BatchInv, Lists
  <2> QED
    BY <2>1, <2>2
<1> QED
  BY <1>1 DEF BatchInv, Tokens, PlainBatchesSound, InOneList

LEMMA BatchInitially ==
  ASSUME BatchInit
  PROVE  BatchInv
<1>1. NumReqs \in Nat
  BY BatchAssumption, FS_CardinalityType DEF NumReqs
<1>2. /\ discipline \in {"static", "dynamic"} /\ arrived = 0
      /\ waiting = <<>> /\ running = <<>> /\ batch = <<>>
      /\ generation = [r \in Reqs |-> 0]
  BY DEF BatchInit, NothingYet
<1>3. <<>> \in Seq(Reqs) /\ IsInjective(<<>>) /\ Range(<<>>) = {}
  BY DEF IsInjective, Range
<1>4. \A r \in Reqs : r > 0 /\ ~(r =< 0)
  BY <1>1, BatchAssumption DEF NumReqs
<1>5. Lists
  BY <1>2, <1>3, <1>4 DEF Lists
<1>6. Tokens
  BY <1>2, <1>3 DEF Tokens
<1>7. StaticBatchesPure
  BY <1>2 DEF StaticBatchesPure
<1> QED
  BY <1>1, <1>2, <1>5, <1>6, <1>7 DEF BatchInv

\* A schedule moves requests between the lists and takes its batch from those that
\* run, the static one all from those that ran or all from those that waited.
LEMMA ScheduleMoves ==
  ASSUME BatchInv
  PROVE  LET s == Schedule IN
         /\ s.batch \in Seq(Reqs)
         /\ Splits(waiting \o running, s.waiting, s.running)
         /\ Range(s.batch) \subseteq Range(s.running)
         /\ Range(s.waiting) \subseteq Range(waiting)
         /\ Range(s.running) \subseteq Range(running) \cup Range(s.batch)
         /\ discipline = "static" => \/ Range(s.batch) \subseteq Range(running)
                                     \/ Range(s.batch) \subseteq Range(waiting)
<1> DEFINE run == Taken(running)
           new == Taken(waiting)
<1>1. /\ waiting \in Seq(Reqs) /\ running \in Seq(Reqs)
      /\ IsInjective(waiting) /\ IsInjective(running)
      /\ Range(waiting) \cap Range(running) = {}
  BY DEF BatchInv, Lists
<1>2. Splits(running, run.taken, run.rest) /\ Splits(waiting, new.taken, new.rest)
  BY <1>1, TakenSplits
<1>3. Range(waiting \o running) = Range(waiting) \cup Range(running)
  BY <1>1, ConcatRange
<1>4. /\ run.rest \o run.taken \in Seq(Reqs) /\ IsInjective(run.rest \o run.taken)
      /\ Range(run.rest \o run.taken) = Range(running)
  BY <1>2, JoinedLists
<1> HIDE DEF run, new
<1>5. CASE discipline = "static"
  <2>1. CASE running # <<>>
    <3>1. Schedule = [batch |-> run.taken, running |-> run.rest \o run.taken,
                      waiting |-> waiting]
      BY <1>5, <2>1 DEF Schedule, Static, run
    <3>2. Splits(waiting \o running, waiting, run.rest \o run.taken)
      BY <1>1, <1>3, <1>4 DEF Splits
    <3> QED
      BY <1>2, <1>4, <3>1, <3>2 DEF Splits
  <2>2. CASE running = <<>>
    <3>1. Schedule = [batch |-> new.taken, running |-> new.taken, waiting |-> new.rest]
      BY <1>5, <2>2 DEF Schedule, Static, new
    <3>2. Range(running) = {}
      BY <2>2 DEF Range
    <3>3. Splits(waiting \o running, new.rest, new.taken)
      BY <1>2, <1>3, <3>2 DEF Splits
    <3> QED
      BY <1>2, <3>1, <3>3 DEF Splits
  <2> QED
    BY <2>1, <2>2
<1>6. CASE discipline # "static"
  <2>1. CASE waiting # <<>>
    <3>1. Schedule = [batch |-> running \o new.taken, running |-> running \o new.taken,
                      waiting |-> new.rest]
      BY <1>6, <2>1 DEF Schedule, Dynamic, new
    <3>2. Range(running) \cap Range(new.taken) = {}
      BY <1>1, <1>2 DEF Splits
    <3>3. /\ running \o new.taken \in Seq(Reqs) /\ IsInjective(running \o new.taken)
          /\ Range(running \o new.taken) = Range(running) \cup Range(new.taken)
      BY <1>1, <1>2, <3>2, ConcatRange DEF Splits
    <3>4. Splits(waiting \o running, new.rest, running \o new.taken)
      BY <1>1, <1>2, <1>3, <3>3 DEF Splits
    <3>5. Range(new.rest) \subseteq Range(waiting)
      BY <1>2 DEF Splits
    <3> QED
      BY <1>6, <3>1, <3>3, <3>4, <3>5
  <2>2. CASE waiting = <<>>
    <3> DEFINE turned == LatestFirst(Range(running))
    <3>1. Schedule = [batch |-> turned, running |-> turned, waiting |-> waiting]
      BY <1>6, <2>2 DEF Schedule, Dynamic
    <3>2. /\ Reqs = 1 .. NumReqs /\ NumReqs \in Nat /\ arrived \in 0 .. NumReqs
          /\ arrived \in Nat /\ arrived \in Reqs \cup {0}
      BY BatchAssumption, FS_CardinalityType DEF NumReqs, BatchInv
    <3>3. Range(running) \subseteq 1 .. arrived
      <4>1. Range(running) \subseteq Reqs
        BY <1>1, LenProperties DEF Range
      <4> QED
        BY <3>2, <4>1 DEF BatchInv, Lists
    <3>4. turned \in Seq(Reqs) /\ IsInjective(turned) /\ Range(turned) = Range(running)
      BY <3>2, <3>3, LatestFirstProperties
    <3> HIDE DEF turned
    <3>5. Splits(waiting \o running, waiting, turned)
      BY <1>1, <1>3, <3>4 DEF Splits
    <3> QED
      BY <1>6, <3>1, <3>4, <3>5
  <2> QED
    BY <2>1, <2>2
<1> QED
  BY <1>5, <1>6

LEMMA AddKeeps ==
  ASSUME BatchInv, Add
  PROVE  BatchInv'
<1> DEFINE q == arrived + 1
<1>1. /\ NumReqs \in Nat /\ Reqs = 1 .. NumReqs /\ arrived \in Nat /\ arrived < NumReqs
      /\ q \in Reqs /\ q \in Nat
  BY BatchAssumption, FS_CardinalityType DEF NumReqs, BatchInv, Add
<1>2. /\ arrived' = q /\ waiting' = Append(waiting, q) /\ discipline' = discipline
      /\ running' = running /\ generation' = generation /\ batch' = batch
  BY DEF Add
<1>3. generation[q] = 0 /\ ~IsDone(q)
  BY <1>1, BatchAssumption DEF BatchInv, Tokens, IsDone
<1>4. q \notin Range(waiting) \cup Range(running)
  BY <1>1 DEF BatchInv, Lists
<1>5. /\ waiting' \in Seq(Reqs) /\ IsInjective(waiting')
      /\ Range(waiting') = Range(waiting) \cup {q}
  BY <1>1, <1>2, <1>4, AppendRange DEF BatchInv, Lists
<1>6. Lists'
  <2>1. \A r \in Reqs : r =< q <=> r =< arrived \/ r = q
    BY <1>1
  <2>2. \A r \in Reqs : IsDone(r)' <=> IsDone(r)
    BY <1>2 DEF IsDone
  <2>3. Range(waiting') \cap Range(running') = {}
    BY <1>2, <1>4, <1>5 DEF BatchInv, Lists
  <2>4. ASSUME NEW r \in Reqs
        PROVE  r \in Range(waiting') \cup Range(running') <=> r =< arrived' /\ ~IsDone(r)'
    BY <1>2, <1>3, <1>5, <2>1, <2>2 DEF BatchInv, Lists
  <2> QED
    BY <1>2, <1>5, <2>3, <2>4 DEF BatchInv, Lists
<1>7. Tokens'
  <2>1. \A r \in Reqs : r > q => r > arrived
    BY <1>1
  <2> QED
    BY <1>2, <1>3, <1>5, <2>1 DEF BatchInv, Tokens
<1>8. StaticBatchesPure'
  BY <1>2 DEF BatchInv, StaticBatchesPure
<1> QED
  BY <1>1, <1>2, <1>6, <1>7, <1>8 DEF BatchInv

LEMMA StepKeeps ==
  ASSUME BatchInv, Step
  PROVE  BatchInv'
<1> PICK s : s = Schedule
  OBVIOUS
<1> DEFINE next == [r \in Reqs |-> generation[r] + (IF r \in Range(s.batch) THEN 1 ELSE 0)]
           ready == {r \in Reqs : next[r] # DecodeLen[r]}
<1>1. /\ batch' = s.batch /\ waiting' = s.waiting /\ running' = Kept(s.running, ready)
      /\ generation' = next /\ discipline' = discipline /\ arrived' = arrived
  BY DEF Step
<1>2. /\ s.batch \in Seq(Reqs)
      /\ Splits(waiting \o running, s.waiting, s.running)
      /\ Range(s.batch) \subseteq Range(s.running)
      /\ Range(s.waiting) \subseteq Range(waiting)
      /\ Range(s.running) \subseteq Range(running) \cup Range(s.batch)
      /\ discipline = "static" => \/ Range(s.batch) \subseteq Range(running)
                                  \/ Range(s.batch) \subseteq Range(waiting)
  BY ScheduleMoves
<1>3. /\ waiting \in Seq(Reqs) /\ running \in Seq(Reqs) /\ generation \in [Reqs -> Nat]
      /\ Range(waiting \o running) = Range(waiting) \cup Range(running)
      /\ \A r \in Reqs :
           r \in Range(waiting) \cup Range(running) <=> r =< arrived /\ ~IsDone(r)
      /\ \A r \in Reqs : r > arrived => generation[r] = 0
      /\ \A r \in Range(waiting) : generation[r] = 0
      /\ \A r \in Range(running) : generation[r] # 0
      /\ Range(waiting) \subseteq Reqs /\ Range(running) \subseteq Reqs
      /\ arrived \in Nat /\ \A r \in Reqs : r \in Int
  <2>1. Range(waiting) \subseteq Reqs /\ Range(running) \subseteq Reqs
    BY LenProperties DEF BatchInv, Lists, Range
  <2>2. NumReqs \in Nat /\ Reqs = 1 .. NumReqs
    BY BatchAssumption, FS_CardinalityType DEF NumReqs
  <2> QED
    BY <2>1, <2>2, ConcatRange DEF BatchInv, Lists, Tokens
<1>4. /\ s.waiting \in Seq(Reqs) /\ s.running \in Seq(Reqs)
      /\ IsInjective(s.waiting) /\ IsInjective(s.running)
      /\ Range(s.waiting) \cap Range(s.running) = {}
      /\ Range(s.waiting) \cup Range(s.running) = Range(waiting) \cup Range(running)
  BY <1>2, <1>3 DEF Splits
<1>5. /\ running' \in Seq(Reqs) /\ IsInjective(running')
      /\ Range(running') = Range(s.running) \cap ready
  <2> HIDE DEF ready, next
  <2>1. /\ Kept(s.running, ready) \in Seq(Reqs)
        /\ Range(Kept(s.running, ready)) = Range(s.running) \cap ready
        /\ IsInjective(Kept(s.running, ready))
    BY <1>4, KeptProperties
  <2> QED
    BY <1>1, <2>1
<1>6. ASSUME NEW r \in Reqs
      PROVE  /\ generation'[r] \in Nat
             /\ r \in Range(s.batch) => generation'[r] = generation[r] + 1
             /\ r \notin Range(s.batch) => generation'[r] = generation[r]
             /\ r \in ready <=> ~IsDone(r)'
  <2>1. generation'[r] = generation[r] + (IF r \in Range(s.batch) THEN 1 ELSE 0)
    BY <1>1
  <2>2. r \in ready <=> ~IsDone(r)'
    BY <1>1 DEF IsDone
  <2> QED
    BY <1>3, <2>1, <2>2
<1>7. generation' \in [Reqs -> Nat]
  BY <1>1, <1>6
<1> HIDE DEF next, ready
<1>8. Lists'
  <2>1. Range(waiting') \cap Range(running') = {}
    BY <1>1, <1>4, <1>5
  <2>2. ASSUME NEW r \in Reqs
        PROVE  r \in Range(waiting') \cup Range(running') <=> r =< arrived' /\ ~IsDone(r)'
    <3>1. CASE r \in Range(s.waiting)
      <4>1. r \notin Range(s.batch) /\ r \in Range(waiting)
        BY <1>2, <1>4, <3>1
      <4>2. IsDone(r)' <=> IsDone(r)
        BY <1>6, <4>1 DEF IsDone
      <4> QED
        BY <1>1, <1>3, <3>1, <4>1, <4>2
    <3>2. CASE r \in Range(s.running)
      <4>1. r =< arrived
        BY <1>3, <1>4, <3>2
      <4> QED
        BY <1>1, <1>4, <1>5, <1>6, <3>2, <4>1
    <3>3. CASE r \notin Range(s.waiting) \cup Range(s.running)
      <4>1. r \notin Range(s.batch)
        BY <1>2, <3>3
      <4>2. IsDone(r)' <=> IsDone(r)
        BY <1>6, <4>1 DEF IsDone
      <4> QED
        BY <1>1, <1>3, <1>4, <1>5, <3>3, <4>2
    <3> QED
      BY <3>1, <3>2, <3>3
  <2> QED
    BY <1>1, <1>2, <1>4, <1>5, <2>1, <2>2 DEF Lists
<1>9. Tokens'
  <2>1. ASSUME NEW r \in Reqs, r > arrived'
        PROVE  generation'[r] = 0
    <3>1. r > arrived /\ ~(r =< arrived)
      BY <1>1, <1>3, <2>1
    <3>2. r \notin Range(s.batch)
      BY <1>2, <1>3, <1>4, <3>1
    <3> QED
      BY <1>3, <1>6, <3>1, <3>2
  <2>2. ASSUME NEW r \in Range(waiting')
        PROVE  generation'[r] = 0
    <3>1. r \in Range(waiting) /\ r \notin Range(s.batch) /\ r \in Reqs
      BY <1>1, <1>2, <1>3, <1>4
    <3> QED
      BY <1>3, <1>6, <3>1
  <2>3. ASSUME NEW r \in Range(running')
        PROVE  generation'[r] # 0
    <3>1. r \in Range(running) \cup Range(s.batch) /\ r \in Reqs
      BY <1>2, <1>3, <1>4, <1>5
    <3>2. generation[r] \in Nat
      BY <1>3, <3>1
    <3> QED
      BY <1>3, <1>6, <3>1, <3>2
  <2> QED
    BY <1>7, <2>1, <2>2, <2>3 DEF Tokens
<1>10. StaticBatchesPure'
  <2> SUFFICES ASSUME discipline = "static", NEW i \in DOMAIN batch', NEW j \in DOMAIN batch'
               PROVE  (generation'[batch'[i]] = 1) <=> (generation'[batch'[j]] = 1)
    BY <1>1 DEF StaticBatchesPure
  <2>1. /\ batch'[i] \in Range(s.batch) /\ batch'[j] \in Range(s.batch)
    BY <1>1 DEF Range
  <2>2. Range(s.batch) \subseteq Reqs
    BY <1>2, <1>3, <1>4
  <2>3. /\ generation'[batch'[i]] = generation[batch'[i]] + 1
        /\ generation'[batch'[j]] = generation[batch'[j]] + 1
        /\ generation[batch'[i]] \in Nat /\ generation[batch'[j]] \in Nat
    BY <1>3, <1>6, <2>1, <2>2
  <2>4. CASE Range(s.batch) \subseteq Range(running)
    BY <1>3, <2>1, <2>3, <2>4
  <2>5. CASE Range(s.batch) \subseteq Range(waiting)
    BY <1>3, <2>1, <2>3, <2>5
  <2> QED
    BY <1>2, <2>4, <2>5
<1> QED
  BY <1>1, <1>8, <1>9, <1>10 DEF BatchInv

LEMMA BatchKeeps ==
  ASSUME BatchInv, [BatchNext]_batchVars
  PROVE  BatchInv'
<1>1. CASE Add
  BY <1>1, AddKeeps
<1>2. CASE Step
  BY <1>2, StepKeeps
<1>3. CASE UNCHANGED batchVars
  BY <1>3 DEF batchVars, BatchInv, Lists, Tokens, StaticBatchesPure, IsDone
<1> QED
  BY <1>1, <1>2, <1>3 DEF BatchNext

\* Neither scheduler loses or doubles a request, wherever the sum cuts its lists,
\* and a static batch never mixes prompts and decodes (schedule(), update() of
\* LLMStaticScheduler and LLMDynamicScheduler).
THEOREM PlainBatchesAreSound == BatchSpec => []PlainBatchesSound
<1>1. BatchInit => BatchInv
  BY BatchInitially
<1>2. BatchInv /\ [BatchNext]_batchVars => BatchInv'
  BY BatchKeeps
<1>3. BatchInv => PlainBatchesSound
  BY BatchNow
<1> QED
  BY <1>1, <1>2, <1>3, PTL DEF BatchSpec

-----------------------------------------------------------------------------
(* The connectors *)

\* The kinds of the plans the connectors build.
Built == {TransferKind} \cup (IF HasStore THEN {"store"} ELSE {})

\* One child counts a plan.
CountedByOne(plan) == Cardinality(Counting(plan)) = 1

LEMMA BuiltKinds ==
  ASSUME layout \in Layouts, OneDirectChild
  PROVE  TransferKind \in {"p2p", "mooncake"} /\ TransferKind \in Range(Kinds)
<1> DEFINE direct == {"p2p", "mooncake"}
           builders == Kept(Kinds, direct)
<1>1. Kinds \in Seq({"p2p", "mooncake", "store"})
  BY ConnectorsAssumption DEF Kinds
<1>2. /\ builders \in Seq({"p2p", "mooncake", "store"})
      /\ Range(builders) = Range(Kinds) \cap direct
  BY <1>1, KeptProperties
<1>3. TransferKind = IF builders = <<>> THEN "p2p" ELSE Head(builders)
  BY DEF TransferKind
<1> HIDE DEF builders
<1>4. Range(builders) # {}
  <2>1. CASE Kinds = <<"p2p">>
    <3>1. 1 \in DOMAIN Kinds /\ Kinds[1] = "p2p"
      BY <2>1
    <3> QED
      BY <1>2, <3>1 DEF Range
  <2> QED
    BY <1>2, <2>1 DEF OneDirectChild
<1>5. builders # <<>> /\ Head(builders) \in Range(builders)
  <2>1. builders # <<>>
    BY <1>4 DEF Range
  <2>2. 1 \in DOMAIN builders /\ Head(builders) = builders[1]
    BY <1>2, <2>1
  <2> QED
    BY <2>1, <2>2 DEF Range
<1> QED
  BY <1>2, <1>3, <1>5

LEMMA BuiltAreCountedByOne ==
  ASSUME layout \in Layouts, OneDirectChild, NEW plan, plan.kind \in Built
  PROVE  CountedByOne(plan)
<1>1. /\ TransferKind \in {"p2p", "mooncake"} /\ TransferKind \in Range(Kinds)
      /\ HasStore <=> "store" \in Range(Kinds)
  BY BuiltKinds DEF HasStore, Children, Range
<1>2. CASE Kinds = <<"p2p">>
  <2>0. DOMAIN Kinds = {1} /\ Kinds[1] = "p2p"
    BY <1>2
  <2>1. Counting(plan) = {1}
    BY <2>0 DEF Counting, Children, Owns
  <2> QED
    BY <2>1, FS_Singleton DEF CountedByOne
<1>3. CASE "mooncake" \in Range(Kinds) /\ "p2p" \notin Range(Kinds)
  <2>1. plan.kind \in Range(Kinds) /\ plan.kind \in {"mooncake", "store"}
    BY <1>1, <1>3 DEF Built
  <2>2. PICK c \in Children : Kinds[c] = plan.kind
    BY <2>1 DEF Range, Children
  <2>3. \A d \in Children : /\ Kinds[d] \in {"mooncake", "store"}
                            /\ Kinds[d] = plan.kind => d = c
    <3>1. \A d \in Children : Kinds[d] \in Range(Kinds)
      BY DEF Range, Children
    <3>2. \A d \in Children : Kinds[d] \in {"p2p", "mooncake", "store"}
      BY ConnectorsAssumption, LenProperties DEF Kinds, Children
    <3> QED
      BY <1>3, <2>2, <3>1, <3>2 DEF OneDirectChild, IsInjective, Children
  <2>4. \A d \in Children : Owns(Kinds[d], plan) <=> d = c
    BY <2>1, <2>2, <2>3 DEF Owns
  <2>5. Counting(plan) = {c}
    BY <2>4 DEF Counting
  <2> QED
    BY <2>5, FS_Singleton DEF CountedByOne
<1> QED
  BY <1>2, <1>3 DEF OneDirectChild

\* What the connectors hold are plans they built, and so each is counted by one.
PlanRecords == [id : Nat, kind : Built, chunk : Chunks]

PlansTyped ==
  /\ plans \in Nat
  /\ incoming \in [Workers -> SUBSET PlanRecords]
  /\ bound \in [Workers -> [loads : SUBSET PlanRecords, saves : SUBSET PlanRecords]]

\* The tally holds no plan twice, and the connectors report what the workers waited.
ApartInv ==
  /\ layout \in Layouts /\ PlansTyped
  /\ OneDirectChild => CountedOnce
  /\ ~layout.overlap => loadWait = waited

\* What depends on the layout alone.
LEMMA LayoutStays ==
  ASSUME layout' = layout
  PROVE  Built' = Built /\ (OneDirectChild' <=> OneDirectChild)
BY DEF Built, TransferKind, HasStore, Children, Kinds, OneDirectChild

LEMMA TalliedOnce ==
  ASSUME layout \in Layouts, OneDirectChild, CountedOnce, NEW ps \in SUBSET PlanRecords, NEW way,
         tally' = Tallied(ps, way)
  PROVE  CountedOnce'
<1> DEFINE ran == {<<p.id, way>> : p \in ps}
           Of(x) == CHOOSE p \in ps : p.id = x[1]
<1>1. /\ DOMAIN tally' = ran \cup DOMAIN tally
      /\ \A x \in DOMAIN tally' :
           tally'[x] = IF x \in ran THEN Cardinality(Counting(Of(x))) ELSE tally[x]
  BY DEF Tallied
<1>2. ASSUME NEW x \in ran
      PROVE  Cardinality(Counting(Of(x))) = 1
  <2>1. \E p \in ps : p.id = x[1]
    OBVIOUS
  <2>2. Of(x) \in ps
    BY <2>1
  <2> HIDE DEF Of
  <2>3. Of(x).kind \in Built
    BY <2>2 DEF PlanRecords
  <2> QED
    BY <2>3, BuiltAreCountedByOne DEF CountedByOne
<1> HIDE DEF ran, Of
<1> QED
  BY <1>1, <1>2 DEF CountedOnce

\* Where no transfer overlaps, what is recorded is what is waited for.
LEMMA RecordedIsBlocking ==
  ASSUME ~layout.overlap, NEW ps
  PROVE  Recorded(ps) = Blocking(ps)
<1>1. \A p \in ps : {c \in Counting(p) : ~layout.overlap \/ Kinds[c] = "p2p"} = Counting(p)
  OBVIOUS
<1>2. [p \in ps |-> Cardinality(Counting(p))]
        = [p \in ps |-> Cardinality({c \in Counting(p) : ~layout.overlap \/ Kinds[c] = "p2p"})]
  BY <1>1
<1> QED
  BY <1>2 DEF Recorded, Blocking

LEMMA ApartInitially == ConnectorsInit => ApartInv
<1> SUFFICES ASSUME ConnectorsInit
             PROVE  ApartInv
  OBVIOUS
<1>1. PlansTyped
  BY DEF ConnectorsInit, NoPlans, PlansTyped
<1>2. CountedOnce
  BY DEF ConnectorsInit, CountedOnce
<1> QED
  BY <1>1, <1>2 DEF ConnectorsInit, ApartInv

LEMMA StartApart ==
  ASSUME ApartInv, layout' = layout,
         NEW w \in Workers, NEW chunk \in Chunks, StartStep(w, chunk)
  PROVE  ApartInv'
<1> DEFINE plan == Plan("store", chunk)
           mine == IF HasStore THEN {plan} ELSE {}
           loads == incoming[w] \cup IF Finds(w, chunk) THEN mine ELSE {}
           saves == IF Finds(w, chunk) THEN {} ELSE mine
<1>1. /\ bound' = [bound EXCEPT ![w] = [loads |-> loads, saves |-> saves]]
      /\ plans' = plans + Cardinality(mine)
      /\ tally' = Tallied(loads, "load")
      /\ loadWait' = [loadWait EXCEPT ![w] = @ + Recorded(loads)]
      /\ waited' = [waited EXCEPT ![w] = @ + Blocking(loads)]
      /\ incoming' = [incoming EXCEPT ![w] = {}]
  BY DEF StartStep
<1>2. mine \in SUBSET PlanRecords
  BY DEF Plan, PlanRecords, Built, ApartInv, PlansTyped
<1>3. Cardinality(mine) \in Nat
  BY FS_Singleton, FS_EmptySet
<1> HIDE DEF plan, mine
<1>4. loads \in SUBSET PlanRecords /\ saves \in SUBSET PlanRecords
  BY <1>2 DEF ApartInv, PlansTyped
<1> HIDE DEF loads, saves
<1>5. PlansTyped'
  BY <1>1, <1>3, <1>4, LayoutStays DEF ApartInv, PlansTyped, PlanRecords
<1>6. OneDirectChild => CountedOnce'
  BY <1>1, <1>4, TalliedOnce DEF ApartInv
<1>7. ASSUME ~layout.overlap
      PROVE  loadWait' = waited'
  <2>1. Recorded(loads) = Blocking(loads)
    BY <1>7, RecordedIsBlocking
  <2> QED
    BY <1>1, <1>7, <2>1 DEF ApartInv
<1> QED
  BY <1>5, <1>6, <1>7, LayoutStays DEF ApartInv

LEMMA EndApart ==
  ASSUME ApartInv, layout' = layout, NEW w \in Workers, EndStep(w)
  PROVE  ApartInv'
<1>1. bound[w].saves \in SUBSET PlanRecords
  BY DEF ApartInv, PlansTyped
<1>2. OneDirectChild => CountedOnce'
  BY <1>1, TalliedOnce DEF ApartInv, EndStep
<1>3. PlansTyped'
  BY LayoutStays DEF ApartInv, PlansTyped, PlanRecords, EndStep
<1> QED
  BY <1>2, <1>3, LayoutStays DEF ApartInv, EndStep

LEMMA HandOverApart ==
  ASSUME ApartInv, layout' = layout,
         NEW w \in Workers, NEW v \in Workers, NEW chunk \in Chunks, HandOver(w, v, chunk)
  PROVE  ApartInv'
<1> DEFINE plan == Plan(TransferKind, chunk)
<1>1. /\ bound' = [bound EXCEPT ![w] = [loads |-> {}, saves |-> {plan}]]
      /\ tally' = Tallied({plan}, "save")
      /\ incoming' = [incoming EXCEPT ![v] = {plan}]
      /\ plans' = plans + 1 /\ loadWait' = loadWait /\ waited' = waited
  BY DEF HandOver
<1>2. plan \in PlanRecords
  BY DEF Plan, PlanRecords, Built, ApartInv, PlansTyped
<1> HIDE DEF plan
<1>3. PlansTyped'
  BY <1>1, <1>2, LayoutStays DEF ApartInv, PlansTyped, PlanRecords
<1>4. OneDirectChild => CountedOnce'
  BY <1>1, <1>2, TalliedOnce DEF ApartInv
<1> QED
  BY <1>1, <1>3, <1>4, LayoutStays DEF ApartInv

LEMMA ApartKept ==
  ASSUME ApartInv, [ConnectorsNext]_connectorsVars
  PROVE  ApartInv'
<1>1. layout' = layout
  BY DEF ConnectorsNext, StartStep, EndStep, HandOver, connectorsVars
<1>2. CASE ConnectorsNext
  BY <1>1, <1>2, StartApart, EndApart, HandOverApart DEF ConnectorsNext
<1>3. CASE UNCHANGED connectorsVars
  BY <1>1, <1>3, LayoutStays DEF connectorsVars, ApartInv, PlansTyped, PlanRecords, CountedOnce
<1> QED
  BY <1>2, <1>3

\* However the plans of hand-overs and of the store meet on a worker, each is counted
\* by one child of its MultiConnector where one child transfers directly, and the load
\* wait the children report is the time the worker waited where transfers do not
\* overlap (_own_plans(), start_load_kv() of MultiConnector).
THEOREM PlansAreKeptApart == ConnectorsSpec => []PlansKeptApart
<1>1. ConnectorsInit => ApartInv
  BY ApartInitially
<1>2. ApartInv /\ [ConnectorsNext]_connectorsVars => ApartInv'
  BY ApartKept
<1>3. ApartInv => PlansKeptApart
  BY DEF ApartInv, PlansKeptApart, ReportedWaitIsWait
<1> QED
  BY <1>1, <1>2, <1>3, PTL DEF ConnectorsSpec

\* The services are those of the layout, and what is saved is found.
StoreServes ==
  /\ layout \in Layouts
  /\ DOMAIN stored = {Service(w, c) : w \in Workers, c \in Children}
  /\ saved \in [Workers -> SUBSET Chunks]
  /\ bound \in [Workers -> [loads : SUBSET PlanRecords, saves : SUBSET PlanRecords]]
  /\ SavedIsFound

LEMMA ServesInitially == ConnectorsInit => StoreServes
BY DEF ConnectorsInit, NoPlans, StoreServes, SavedIsFound

\* Without a MultiConnector the only connector of every worker is on one service.
LEMMA OneServiceThen ==
  ASSUME layout \in Layouts, ~layout.multi, HasStore
  PROVE  /\ Children = {1} /\ Kinds[1] = "store"
         /\ \A w \in Workers : Service(w, 1) = <<0, 1>>
BY ConnectorsAssumption DEF HasStore, Children, Kinds, Service

LEMMA EndServes ==
  ASSUME StoreServes, NEW w \in Workers, EndStep(w)
  PROVE  StoreServes'
<1> DEFINE mine(c) == {p \in bound[w].saves : Kinds[c] = "store" /\ Owns("store", p)}
           found == UNION {{p.chunk : p \in mine(c)} : c \in Children}
<1>1. /\ stored' = [s \in DOMAIN stored |->
                      stored[s] \cup UNION {{Key(w, p.chunk) : p \in mine(c)} :
                        c \in {c \in Children : Service(w, c) = s}}]
      /\ saved' = [saved EXCEPT ![w] = @ \cup found]
      /\ layout' = layout /\ bound' = bound
  BY DEF EndStep
<1>2. bound[w].saves \in SUBSET PlanRecords
  BY DEF StoreServes
<1>3. found \in SUBSET Chunks
  BY <1>2 DEF PlanRecords
<1>4. saved' \in [Workers -> SUBSET Chunks]
  BY <1>1, <1>3 DEF StoreServes
<1>5. DOMAIN stored' = DOMAIN stored
  BY <1>1
<1>6. ASSUME ~layout.multi, HasStore, NEW v \in Workers, NEW u \in Workers,
             layout.ranks[v] = layout.ranks[u], NEW chunk \in saved'[v]
      PROVE  Key(u, chunk) \in stored'[<<0, 1>>]
  <2>1. /\ Children = {1} /\ Kinds[1] = "store"
        /\ \A x \in Workers : Service(x, 1) = <<0, 1>>
    BY <1>6, OneServiceThen DEF StoreServes
  <2>2. <<0, 1>> \in DOMAIN stored
    BY <2>1 DEF StoreServes
  <2>3. stored'[<<0, 1>>] = stored[<<0, 1>>] \cup {Key(w, p.chunk) : p \in mine(1)}
    BY <1>1, <2>1, <2>2
  <2>4. CASE chunk \in saved[v]
    <3>1. Finds(u, chunk)
      BY <1>6, <2>4 DEF StoreServes, SavedIsFound
    <3>2. Key(u, chunk) \in stored[<<0, 1>>]
      BY <2>1, <3>1 DEF Finds
    <3> QED
      BY <2>3, <3>2
  <2>5. CASE chunk \notin saved[v]
    <3>1. v = w /\ chunk \in found
      BY <1>1, <1>6, <2>5 DEF StoreServes
    <3>2. PICK p \in mine(1) : p.chunk = chunk
      BY <2>1, <3>1
    <3>3. Key(u, chunk) = Key(w, p.chunk)
      BY <1>6, <3>1, <3>2 DEF Key
    <3> QED
      BY <2>3, <3>2, <3>3
  <2> QED
    BY <2>4, <2>5
<1>7. SavedIsFound'
  <2> SUFFICES ASSUME ~layout.multi, HasStore, NEW v \in Workers, NEW u \in Workers,
                      layout.ranks[v] = layout.ranks[u], NEW chunk \in saved'[v]
               PROVE  Finds(u, chunk)'
    BY <1>1 DEF SavedIsFound, HasStore, Children, Kinds
  <2>1. /\ Children = {1} /\ Kinds[1] = "store" /\ Service(u, 1) = <<0, 1>>
    BY OneServiceThen DEF StoreServes
  <2>2. Key(u, chunk) \in stored'[<<0, 1>>]
    BY <1>6
  <2> QED
    BY <1>1, <2>1, <2>2 DEF Finds, Children, Kinds, Service, Key
<1> QED
  BY <1>1, <1>4, <1>5, <1>7, LayoutStays DEF StoreServes, Service, Children, Kinds, PlanRecords

\* Steps that write nothing.
LEMMA UnwrittenServes ==
  ASSUME StoreServes, UNCHANGED <<layout, stored, saved>>,
         bound' \in [Workers -> [loads : SUBSET PlanRecords, saves : SUBSET PlanRecords]]
  PROVE  StoreServes'
<1>1. SavedIsFound'
  BY DEF StoreServes, SavedIsFound, Finds, HasStore, Children, Kinds, Service, Key
<1> QED
  BY <1>1, LayoutStays DEF StoreServes, Service, Children, Kinds, PlanRecords

LEMMA ServesKept ==
  ASSUME ApartInv, ApartInv', StoreServes, [ConnectorsNext]_connectorsVars
  PROVE  StoreServes'
<1>1. CASE UNCHANGED <<layout, stored, saved>>
  <2>1. Built' = Built
    BY <1>1, LayoutStays
  <2>2. bound' \in [Workers -> [loads : SUBSET PlanRecords, saves : SUBSET PlanRecords]]
    BY <2>1 DEF ApartInv, PlansTyped, PlanRecords
  <2> QED
    BY <1>1, <2>2, UnwrittenServes
<1>2. ASSUME NEW w \in Workers,
             \/ \E chunk \in Chunks : StartStep(w, chunk)
             \/ \E v \in Workers, chunk \in Chunks : HandOver(w, v, chunk)
      PROVE  StoreServes'
  BY <1>1, <1>2 DEF StartStep, HandOver
<1>3. CASE UNCHANGED connectorsVars
  BY <1>1, <1>3 DEF connectorsVars
<1> QED
  BY <1>2, <1>3, EndServes DEF ConnectorsNext

\* Every worker finds what any worker of its data-parallel group has saved
\* (get_mooncake_service(), build_key_metadata()), if the store is not below a
\* MultiConnector.
THEOREM SavedIsAlwaysFound == ConnectorsSpec => []SavedIsFound
<1>1. ConnectorsInit => ApartInv /\ StoreServes
  BY ApartInitially, ServesInitially
<1>2. ApartInv /\ StoreServes /\ [ConnectorsNext]_connectorsVars => (ApartInv /\ StoreServes)'
  BY ApartKept, ServesKept
<1>3. StoreServes => SavedIsFound
  BY DEF StoreServes
<1> QED
  BY <1>1, <1>2, <1>3, PTL DEF ConnectorsSpec

-----------------------------------------------------------------------------
(* Division *)

\* A number is its quotient times the divisor, and the remainder.
LEMMA DivisionFacts ==
    ASSUME NEW n \in Nat, NEW d \in Nat \ {0}
    PROVE  /\ n \div d \in Nat /\ n % d \in 0..(d - 1)
           /\ n = d * (n \div d) + (n % d)
OBVIOUS

\* Multiples of d are d apart.
LEMMA Apart ==
    ASSUME NEW d \in Nat \ {0}, NEW a \in Int, NEW b \in Int, a < b
    PROVE  d * a + d <= d * b
<1>1. PICK k \in Nat : b = a + 1 + k
  <2>1. b - a - 1 \in Nat /\ b = a + 1 + (b - a - 1)
    OBVIOUS
  <2> QED
    BY <2>1
<1>2. d * b = d * a + d + d * k
  BY <1>1
<1>3. d * k >= 0
  BY <1>1
<1>4. d * a \in Int /\ d * b \in Int /\ d * k \in Int
  OBVIOUS
<1> QED
  BY <1>2, <1>3, <1>4

\* Only one quotient and one remainder make up a number.
LEMMA DivisionUnique ==
    ASSUME NEW d \in Nat \ {0}, NEW q \in Nat, NEW r \in 0..(d - 1)
    PROVE  /\ d * q + r \in Nat
           /\ (d * q + r) \div d = q /\ (d * q + r) % d = r
<1>1. d * q \in Nat
  OBVIOUS
<1>2. PICK n \in Nat : n = d * q + r
  BY <1>1
<1>3. PICK p \in Nat, m \in 0..(d - 1) : p = n \div d /\ m = n % d /\ n = d * p + m
  BY <1>2, DivisionFacts
<1>4. ~(p < q)
  <2>1. p < q => d * p + d <= d * q
    BY Apart
  <2>2. d * p \in Int /\ d * q \in Int
    OBVIOUS
  <2> QED
    BY <1>2, <1>3, <2>1, <2>2
<1>5. ~(q < p)
  <2>1. q < p => d * q + d <= d * p
    BY Apart
  <2>2. d * p \in Int /\ d * q \in Int
    OBVIOUS
  <2> QED
    BY <1>2, <1>3, <2>1, <2>2
<1>6. p = q
  BY <1>4, <1>5
<1>7. m = r
  BY <1>1, <1>2, <1>3, <1>6
<1> QED
  BY <1>2, <1>3, <1>6, <1>7

-----------------------------------------------------------------------------
(* The grid of ranks *)

\* A configuration as PlacementAssumption lets it be (__post_init__ of both classes).
IsConfig(c) ==
    /\ c = [tp |-> c.tp, pp |-> c.pp, dp |-> c.dp, ep |-> c.ep, strategy |-> c.strategy,
            experts |-> c.experts, layers |-> c.layers,
            moeLayers |-> c.moeLayers, firstMoe |-> c.firstMoe, freq |-> c.freq]
    /\ c.tp \in Nat \ {0} /\ c.pp \in Nat \ {0} /\ c.dp \in Nat \ {0}
    /\ c.ep \in BOOLEAN /\ c.strategy \in {"linear", "round_robin"}
    /\ c.experts \in Nat \ {0} /\ c.layers \in Nat
    /\ c.moeLayers \in Nat \ {0} /\ c.firstMoe \in Nat /\ c.freq \in Nat \ {0}

\* The worker with three given ranks.
WorkerAt(c, d, s, t) == c.tp * c.pp * d + (c.tp * s + t)

\* Part i of b things each, in a parts: thing j of it is below a * b.
LEMMA ProductBound ==
    ASSUME NEW a \in Nat \ {0}, NEW b \in Nat \ {0}, NEW i \in 0..(a - 1), NEW j \in 0..(b - 1)
    PROVE  b * i + j \in 0..(a * b - 1)
<1>1. i < a
  OBVIOUS
<1>2. b * i + b <= b * a
  BY <1>1, Apart
<1>3. b * a = a * b /\ b * i \in Nat /\ a * b \in Int
  OBVIOUS
<1> QED
  BY <1>2, <1>3

\* A number below a * b has a quotient by b below a.
LEMMA ProductCut ==
    ASSUME NEW a \in Nat \ {0}, NEW b \in Nat \ {0}, NEW g \in 0..(a * b - 1)
    PROVE  g \div b \in 0..(a - 1)
<1>1. g \in Nat /\ a * b \in Int
  OBVIOUS
<1>2. PICK q \in Nat, r \in 0..(b - 1) : q = g \div b /\ r = g % b /\ g = b * q + r
  BY <1>1, DivisionFacts
<1>3. ~(a <= q)
  <2>1. a < q + 1 \/ ~(a <= q)
    BY <1>2
  <2>2. a <= q => b * a <= b * q
    <3>1. a < q => b * a + b <= b * q
      BY <1>2, Apart
    <3>2. b * a \in Int /\ b * q \in Int
      OBVIOUS
    <3> QED
      BY <3>1, <3>2
  <2>3. b * a = a * b /\ b * q \in Int
    OBVIOUS
  <2> QED
    BY <1>2, <2>2, <2>3
<1> QED
  BY <1>2, <1>3

\* The sizes of a group and of the world.
LEMMA WorldFacts ==
    ASSUME NEW c, IsConfig(c)
    PROVE  /\ RanksPerGroup(c) \in Nat \ {0} /\ WorldSize(c) \in Nat \ {0}
           /\ RanksPerGroup(c) = c.tp * c.pp /\ WorldSize(c) = c.dp * RanksPerGroup(c)
<1>1. c.tp * c.pp \in Nat \ {0}
  BY ProductBound DEF IsConfig
<1>2. \A a, b \in Nat \ {0} : a * b \in Nat \ {0} /\ a * b = b * a
  OBVIOUS
<1> QED
  BY <1>2 DEF IsConfig, RanksPerGroup, WorldSize

\* The ranks of a worker are in the grid, and make up its number.
LEMMA RankOfWorker ==
    ASSUME NEW c, IsConfig(c), NEW g \in GlobalRanks(c)
    PROVE  /\ RankInfo(g, c).dp \in 0..(c.dp - 1) /\ RankInfo(g, c).pp \in 0..(c.pp - 1)
           /\ RankInfo(g, c).tp \in 0..(c.tp - 1)
           /\ RankInfo(g, c) = [dp |-> RankInfo(g, c).dp, pp |-> RankInfo(g, c).pp,
                                tp |-> RankInfo(g, c).tp]
           /\ g = WorkerAt(c, RankInfo(g, c).dp, RankInfo(g, c).pp, RankInfo(g, c).tp)
<1>1. PICK m, W : m \in Nat \ {0} /\ m = RanksPerGroup(c) /\ m = c.tp * c.pp
                  /\ W = WorldSize(c) /\ W = c.dp * m
  BY WorldFacts
<1>2. PICK a, s, t : a \in Nat \ {0} /\ s \in Nat \ {0} /\ t \in Nat \ {0}
                     /\ a = c.dp /\ s = c.pp /\ t = c.tp
  BY DEF IsConfig
<1>3. g \in 0..(a * m - 1) /\ g \in Nat /\ ~(g >= W) /\ a * m \in Int
  BY <1>1, <1>2 DEF GlobalRanks
<1>4. RankInfo(g, c) = [dp |-> g \div m, pp |-> (g % m) \div t, tp |-> (g % m) % t]
  BY <1>1, <1>2, <1>3 DEF RankInfo
<1>5. g \div m \in 0..(a - 1)
  BY <1>1, <1>2, <1>3, ProductCut
<1>6. PICK q \in Nat, r \in 0..(m - 1) : q = g \div m /\ r = g % m /\ g = m * q + r
  <2>1. g \in Nat /\ m \in Nat \ {0}
    BY <1>1, <1>3
  <2> QED
    BY <2>1, DivisionFacts, ZenonT(30)
<1>7. m = s * t
  BY <1>1, <1>2
<1>8. r \div t \in 0..(s - 1)
  BY <1>2, <1>6, <1>7, ProductCut
<1>9. r % t \in 0..(t - 1) /\ r = t * (r \div t) + (r % t)
  <2>1. r \in Nat /\ t \in Nat \ {0}
    BY <1>2, <1>6
  <2> QED
    BY <2>1, DivisionFacts
<1>10. g = m * q + (t * (r \div t) + (r % t))
  <2>1. PICK x : x = t * (r \div t) + (r % t)
    OBVIOUS
  <2>2. g = m * q + x
    BY <1>6, <1>9, <2>1
  <2> QED
    BY <2>1, <2>2
<1>11. PICK y, z : y = r \div t /\ z = r % t
  OBVIOUS
<1>12. RankInfo(g, c) = [dp |-> q, pp |-> y, tp |-> z]
  BY <1>4, <1>6, <1>11, Zenon
<1>13. /\ q \in 0..(c.dp - 1) /\ y \in 0..(c.pp - 1) /\ z \in 0..(c.tp - 1)
       /\ g = m * q + (t * y + z)
  BY <1>2, <1>5, <1>6, <1>8, <1>9, <1>10, <1>11, Zenon
<1>14. WorkerAt(c, q, y, z) = m * q + (t * y + z)
  BY <1>1, <1>2, Zenon DEF WorkerAt
<1> QED
  BY <1>12, <1>13, <1>14

\* Every place of the grid is that of its worker.
LEMMA WorkerOfRank ==
    ASSUME NEW c, IsConfig(c),
           NEW d \in 0..(c.dp - 1), NEW s \in 0..(c.pp - 1), NEW t \in 0..(c.tp - 1)
    PROVE  /\ WorkerAt(c, d, s, t) \in GlobalRanks(c)
           /\ RankInfo(WorkerAt(c, d, s, t), c) = [dp |-> d, pp |-> s, tp |-> t]
<1>1. PICK m, W : m \in Nat \ {0} /\ m = RanksPerGroup(c) /\ m = c.tp * c.pp
                  /\ W = WorldSize(c) /\ W = c.dp * m
  BY WorldFacts
<1>2. PICK a, b, e : a \in Nat \ {0} /\ b \in Nat \ {0} /\ e \in Nat \ {0}
                     /\ a = c.dp /\ b = c.pp /\ e = c.tp
  BY DEF IsConfig
<1>3. d \in 0..(a - 1) /\ s \in 0..(b - 1) /\ t \in 0..(e - 1) /\ m = b * e
  BY <1>1, <1>2
<1>4. PICK r : r = e * s + t /\ r \in 0..(m - 1)
  BY <1>2, <1>3, ProductBound
<1>5. PICK g : g = m * d + r /\ g \in 0..(a * m - 1)
  BY <1>1, <1>2, <1>3, <1>4, ProductBound
<1>6. WorkerAt(c, d, s, t) = g
  BY <1>1, <1>2, <1>4, <1>5 DEF WorkerAt
<1>7. g \in GlobalRanks(c) /\ ~(g >= W) /\ a * m \in Int
  BY <1>1, <1>2, <1>5 DEF GlobalRanks
<1>8. g \div m = d /\ g % m = r
  <2>1. d \in Nat
    BY <1>3
  <2>2. (m * d + r) \div m = d /\ (m * d + r) % m = r
    BY <1>1, <1>4, <2>1, DivisionUnique
  <2> QED
    BY <1>5, <2>2
<1>9. r \div e = s /\ r % e = t
  <2>1. s \in Nat /\ e \in Nat \ {0} /\ t \in 0..(e - 1)
    BY <1>2, <1>3
  <2>2. (e * s + t) \div e = s /\ (e * s + t) % e = t
    BY <2>1, DivisionUnique
  <2> QED
    BY <1>4, <2>2
<1> QED
  BY <1>1, <1>2, <1>6, <1>7, <1>8, <1>9 DEF RankInfo

\* Two workers with the same ranks are one.
LEMMA SameRank ==
    ASSUME NEW c, IsConfig(c), NEW g \in GlobalRanks(c), NEW h \in GlobalRanks(c),
           RankInfo(g, c).dp = RankInfo(h, c).dp, RankInfo(g, c).pp = RankInfo(h, c).pp,
           RankInfo(g, c).tp = RankInfo(h, c).tp
    PROVE  g = h
<1>1. g = WorkerAt(c, RankInfo(g, c).dp, RankInfo(g, c).pp, RankInfo(g, c).tp)
  BY RankOfWorker
<1>2. h = WorkerAt(c, RankInfo(h, c).dp, RankInfo(h, c).pp, RankInfo(h, c).tp)
  BY RankOfWorker
<1> QED
  BY <1>1, <1>2

\* A set that f lists without repetition.
LEMMA CountedBy ==
    ASSUME NEW T, IsFiniteSet(T), NEW S, NEW f \in [T -> S],
           \A x, y \in T : f[x] = f[y] => x = y, \A z \in S : \E x \in T : f[x] = z
    PROVE  IsFiniteSet(S) /\ Cardinality(S) = Cardinality(T)
<1>1. DOMAIN f = T
  OBVIOUS
<1>2. f \in Bijection(T, S)
  BY <1>1 DEF Bijection, Injection, Surjection, IsInjective
<1> QED
  BY <1>2, FS_Bijection DEF ExistsBijection

\* The ranks of the workers are the whole grid.
LEMMA GridIsCovered ==
    ASSUME NEW c, IsConfig(c)
    PROVE  {RankInfo(g, c) : g \in GlobalRanks(c)}
             = [dp : 0..(c.dp - 1), pp : 0..(c.pp - 1), tp : 0..(c.tp - 1)]
<1> DEFINE Grid == [dp : 0..(c.dp - 1), pp : 0..(c.pp - 1), tp : 0..(c.tp - 1)]
<1>1. \A g \in GlobalRanks(c) : RankInfo(g, c) \in Grid
  BY RankOfWorker
<1>2. ASSUME NEW q \in Grid
      PROVE  \E g \in GlobalRanks(c) : RankInfo(g, c) = q
  <2>1. /\ q.dp \in 0..(c.dp - 1) /\ q.pp \in 0..(c.pp - 1) /\ q.tp \in 0..(c.tp - 1)
        /\ q = [dp |-> q.dp, pp |-> q.pp, tp |-> q.tp]
    OBVIOUS
  <2> QED
    BY <2>1, WorkerOfRank
<1> HIDE DEF Grid
<1>3. {RankInfo(g, c) : g \in GlobalRanks(c)} = Grid
  BY <1>1, <1>2
<1> QED
  BY <1>3 DEF Grid

\* One worker of a group takes requests.
LEMMA OneSchedulable ==
    ASSUME NEW c, IsConfig(c), NEW d \in 0..(c.dp - 1)
    PROVE  Cardinality({g \in GlobalRanks(c) : RankInfo(g, c).dp = d /\ Schedulable(g, c)}) = 1
<1> DEFINE S == {g \in GlobalRanks(c) : RankInfo(g, c).dp = d /\ Schedulable(g, c)}
<1>1. 0 \in 0..(c.pp - 1) /\ 0 \in 0..(c.tp - 1)
  BY DEF IsConfig
<1>2. PICK w \in GlobalRanks(c) : RankInfo(w, c) = [dp |-> d, pp |-> 0, tp |-> 0]
  BY <1>1, WorkerOfRank
<1>3. w \in S
  BY <1>2 DEF Schedulable
<1>4. ASSUME NEW g \in S
      PROVE  g = w
  <2>1. CASE WorldSize(c) = 1
    BY <2>1 DEF GlobalRanks
  <2>2. CASE RankInfo(g, c).tp = 0 /\ RankInfo(g, c).pp = 0
    BY <1>2, <2>2, SameRank
  <2> QED
    BY <2>1, <2>2 DEF Schedulable
<1>5. S = {w}
  BY <1>3, <1>4
<1> QED
  BY <1>5, FS_Singleton

\* The tensor peers of a worker are the rest of its tensor group.
LEMMA TensorGroupsWhole ==
    ASSUME NEW c, IsConfig(c), NEW g \in GlobalRanks(c)
    PROVE  Cardinality(TensorPeers(c, g)) = c.tp - 1
<1>1. PICK d, s, t : /\ d = RankInfo(g, c).dp /\ s = RankInfo(g, c).pp /\ t = RankInfo(g, c).tp
                     /\ d \in 0..(c.dp - 1) /\ s \in 0..(c.pp - 1) /\ t \in 0..(c.tp - 1)
  BY RankOfWorker
<1> DEFINE T == (0..(c.tp - 1)) \ {t}
           f == [x \in T |-> WorkerAt(c, d, s, x)]
<1>2. \A x \in T : WorkerAt(c, d, s, x) \in GlobalRanks(c)
                  /\ RankInfo(WorkerAt(c, d, s, x), c) = [dp |-> d, pp |-> s, tp |-> x]
  BY <1>1, WorkerOfRank
<1>3. ASSUME NEW x \in T
      PROVE  f[x] \in TensorPeers(c, g) /\ RankInfo(f[x], c).tp = x
  <2>1. PICK h \in GlobalRanks(c) : /\ h = WorkerAt(c, d, s, x)
                                   /\ RankInfo(h, c) = [dp |-> d, pp |-> s, tp |-> x]
    BY <1>2
  <2>2. f[x] = h
    BY <2>1
  <2>3. x # t
    OBVIOUS
  <2>4. h \in TensorPeers(c, g) /\ RankInfo(h, c).tp = x
    BY <1>1, <2>1, <2>3 DEF TensorPeers
  <2> QED
    BY <2>2, <2>4
<1>4. ASSUME NEW h \in TensorPeers(c, g)
      PROVE  \E x \in T : f[x] = h
  <2>1. /\ h \in GlobalRanks(c) /\ RankInfo(h, c).dp = d /\ RankInfo(h, c).pp = s
        /\ RankInfo(h, c).tp # t
    BY <1>1 DEF TensorPeers
  <2>2. RankInfo(h, c).tp \in T
    BY <2>1, RankOfWorker
  <2>3. h = WorkerAt(c, d, s, RankInfo(h, c).tp)
    BY <2>1, RankOfWorker
  <2> QED
    BY <2>2, <2>3
<1>5. IsFiniteSet(T) /\ Cardinality(T) = c.tp - 1
  <2>1. PICK n \in Nat \ {0} : n = c.tp
    BY DEF IsConfig
  <2>2. IsFiniteSet(0..(n - 1)) /\ Cardinality(0..(n - 1)) = n
    BY FS_Interval
  <2>4. t \in 0..(n - 1)
    BY <1>1, <2>1
  <2> HIDE DEF T
  <2>5. PICK S : S = 0..(n - 1)
    OBVIOUS
  <2>6. IsFiniteSet(S \ {t}) /\ Cardinality(S \ {t}) = Cardinality(S) - 1
    BY <2>2, <2>4, <2>5, FS_RemoveElement
  <2>3. IsFiniteSet((0..(n - 1)) \ {t}) /\ Cardinality((0..(n - 1)) \ {t}) = n - 1
    BY <2>2, <2>5, <2>6
  <2> QED
    BY <2>1, <2>3 DEF T
<1>6. f \in [T -> TensorPeers(c, g)]
  BY <1>3
<1> HIDE DEF T, f
<1>7. \A x, y \in T : f[x] = f[y] => x = y
  BY <1>3
<1>8. Cardinality(TensorPeers(c, g)) = Cardinality(T)
  BY <1>4, <1>5, <1>6, <1>7, CountedBy
<1> QED
  BY <1>5, <1>8

-----------------------------------------------------------------------------
(* Following the stages *)

\* The stage n after s of p.
Turn(s, n, p) == IF s + n < p THEN s + n ELSE s + n - p

\* The turn of the stages: it comes back to s after p of them and not before.
LEMMA TurnFacts ==
    ASSUME NEW p \in Nat \ {0}, NEW s \in 0..(p - 1), NEW n \in 0..p
    PROVE  /\ Turn(s, n, p) \in 0..(p - 1)
           /\ Turn(s, 0, p) = s /\ Turn(s, p, p) = s
           /\ n \in 1..(p - 1) => Turn(s, n, p) # s
           /\ n \in 1..p => (Turn(s, n - 1, p) + 1) % p = Turn(s, n, p)
<1>1. \A x \in 0..(p - 1) : (x + 1) % p = IF x + 1 < p THEN x + 1 ELSE 0
  <2> SUFFICES ASSUME NEW x \in 0..(p - 1)
               PROVE  (x + 1) % p = IF x + 1 < p THEN x + 1 ELSE 0
    OBVIOUS
  <2>1. CASE x + 1 < p
    <3>1. x + 1 \in 0..(p - 1) /\ 0 \in Nat /\ p * 0 + (x + 1) = x + 1
      BY <2>1
    <3> QED
      BY <2>1, <3>1, DivisionUnique
  <2>2. CASE x + 1 = p
    <3>1. 0 \in 0..(p - 1) /\ 1 \in Nat /\ p * 1 + 0 = p
      OBVIOUS
    <3>2. p % p = 0
      BY <3>1, DivisionUnique
    <3> QED
      BY <2>2, <3>2
  <2> QED
    BY <2>1, <2>2
<1>2. n \in 1..p => Turn(s, n - 1, p) \in 0..(p - 1)
  BY DEF Turn
<1>3. n \in 1..p => Turn(s, n, p)
        = IF Turn(s, n - 1, p) + 1 < p THEN Turn(s, n - 1, p) + 1 ELSE 0
  BY DEF Turn
<1>4. n \in 1..p => (Turn(s, n - 1, p) + 1) % p = Turn(s, n, p)
  BY <1>1, <1>2, <1>3
<1> QED
  BY <1>4 DEF Turn

\* The worker n stages after g.
After(c, g, n) ==
    WorkerAt(c, RankInfo(g, c).dp, Turn(RankInfo(g, c).pp, n, c.pp), RankInfo(g, c).tp)

\* The ranks of the worker n stages after g.
LEMMA AfterFacts ==
    ASSUME NEW c, IsConfig(c), NEW g \in GlobalRanks(c), NEW n \in 0..c.pp
    PROVE  /\ After(c, g, n) \in GlobalRanks(c)
           /\ RankInfo(After(c, g, n), c)
                = [dp |-> RankInfo(g, c).dp, pp |-> Turn(RankInfo(g, c).pp, n, c.pp),
                   tp |-> RankInfo(g, c).tp]
<1>1. PICK d, s, t : /\ d = RankInfo(g, c).dp /\ s = RankInfo(g, c).pp /\ t = RankInfo(g, c).tp
                     /\ d \in 0..(c.dp - 1) /\ s \in 0..(c.pp - 1) /\ t \in 0..(c.tp - 1)
  BY RankOfWorker
<1>2. Turn(s, n, c.pp) \in 0..(c.pp - 1)
  BY <1>1, TurnFacts DEF IsConfig
<1>3. After(c, g, n) = WorkerAt(c, d, Turn(s, n, c.pp), t)
  BY <1>1 DEF After
<1> QED
  BY <1>1, <1>2, <1>3, WorkerOfRank

\* One more stage leads to one worker, the one at the next turn.
LEMMA NextStageIs ==
    ASSUME NEW c, IsConfig(c), NEW g \in GlobalRanks(c), NEW n \in 1..c.pp
    PROVE  NextStage(c, After(c, g, n - 1)) = {After(c, g, n)}
<1>1. PICK d, s, t : /\ d = RankInfo(g, c).dp /\ s = RankInfo(g, c).pp /\ t = RankInfo(g, c).tp
                     /\ s \in 0..(c.pp - 1)
  BY RankOfWorker
<1>2. c.pp \in Nat \ {0} /\ n - 1 \in 0..c.pp /\ n \in 0..c.pp
  BY DEF IsConfig
<1>3. PICK a, b : /\ a = After(c, g, n - 1) /\ b = After(c, g, n) /\ b \in GlobalRanks(c)
                  /\ RankInfo(a, c) = [dp |-> d, pp |-> Turn(s, n - 1, c.pp), tp |-> t]
                  /\ RankInfo(b, c) = [dp |-> d, pp |-> Turn(s, n, c.pp), tp |-> t]
  BY <1>1, <1>2, AfterFacts
<1>4. (Turn(s, n - 1, c.pp) + 1) % c.pp = Turn(s, n, c.pp)
  BY <1>1, <1>2, TurnFacts
<1>5. b \in NextStage(c, a)
  BY <1>3, <1>4 DEF NextStage
<1>6. ASSUME NEW h \in NextStage(c, a)
      PROVE  h = b
  <2>1. /\ h \in GlobalRanks(c) /\ RankInfo(h, c).dp = d /\ RankInfo(h, c).tp = t
        /\ RankInfo(h, c).pp = Turn(s, n, c.pp)
    BY <1>3, <1>4 DEF NextStage
  <2> QED
    BY <1>3, <2>1, SameRank
<1> QED
  BY <1>3, <1>5, <1>6

\* Following the stages leads to one worker.
LEMMA ReachedIs ==
    ASSUME NEW c, IsConfig(c), NEW g \in GlobalRanks(c), NEW n \in 0..c.pp
    PROVE  Reached(c, g, n) = {After(c, g, n)}
<1> DEFINE p == c.pp
           Onwards(f, k) == IF k = 0 THEN {g} ELSE UNION {NextStage(c, h) : h \in f[k - 1]}
           Rec(f) == f = [k \in 0..p |-> IF k = 0 THEN {g}
                            ELSE UNION {NextStage(c, h) : h \in f[k - 1]}]
           reached == CHOOSE f : Rec(f)
           closed == [k \in 0..p |-> {After(c, g, k)}]
           G == {k \in 0..p : reached[k] = {After(c, g, k)}}
<1>1. p \in Nat \ {0} /\ n \in 0..p
  BY DEF IsConfig
<1>2. After(c, g, 0) = g
  <2>1. Turn(RankInfo(g, c).pp, 0, p) = RankInfo(g, c).pp
    BY <1>1, RankOfWorker, TurnFacts
  <2> QED
    BY <2>1, RankOfWorker DEF After
<1>3. \A k \in 1..p : NextStage(c, After(c, g, k - 1)) = {After(c, g, k)}
  BY NextStageIs
<1> HIDE DEF p
<1>4. \A f : \A k \in 1..p : f[k - 1] = {After(c, g, k - 1)}
                => UNION {NextStage(c, h) : h \in f[k - 1]} = {After(c, g, k)}
  BY <1>3
<1>5. Rec(closed)
  <2>1. ASSUME NEW k \in 1..p
        PROVE  UNION {NextStage(c, h) : h \in closed[k - 1]} = {After(c, g, k)}
    <3>1. closed[k - 1] = {After(c, g, k - 1)}
      BY <1>1
    <3> QED
      BY <1>4, <3>1
  <2>2. \A k \in 0..p : k = 0 \/ k \in 1..p
    BY <1>1
  <2>3. \A k \in 0..p : {After(c, g, k)} = Onwards(closed, k)
    BY <1>2, <2>1, <2>2
  <2> QED
    BY <2>3
<1>6. Rec(reached)
  <2> HIDE DEF closed
  <2> QED
    BY <1>5
<1>7. Reached(c, g, n) = reached[n]
  BY DEF Reached, p
<1> HIDE DEF reached
<1>8. 0 \in G
  <2>1. 0 \in 0..p
    BY <1>1
  <2> QED
    BY <1>2, <1>6, <2>1
<1>9. ASSUME NEW k \in 1..p, k - 1 \in G
      PROVE  k \in G
  <2>1. k \in 0..p /\ k # 0
    BY <1>1
  <2>2. reached[k] = UNION {NextStage(c, h) : h \in reached[k - 1]}
    BY <1>6, <2>1
  <2> QED
    BY <1>4, <1>9, <2>1, <2>2
<1>10. n \in G
  <2>1. \A k \in 1..n : k \in 1..p
    BY <1>1
  <2>2. \A k \in 1..n : k - 1 \in G => k \in G
    BY <1>9, <2>1
  <2> HIDE DEF G
  <2> QED
    BY <1>1, <1>8, <2>2, CountsUp
<1> QED
  BY <1>7, <1>10

\* Following the stages of a shard comes back after pp steps and not before.
LEMMA StagesComeRound ==
    ASSUME NEW c, IsConfig(c), NEW g \in GlobalRanks(c)
    PROVE  /\ Reached(c, g, c.pp) = {g}
           /\ \A n \in 1..(c.pp - 1) : g \notin Reached(c, g, n)
<1>1. PICK p, s : p = c.pp /\ s = RankInfo(g, c).pp /\ p \in Nat \ {0} /\ s \in 0..(p - 1)
  BY RankOfWorker DEF IsConfig
<1>2. p \in 0..p /\ \A n \in 1..(p - 1) : n \in 0..p
  BY <1>1
<1>3. Turn(s, p, p) = s
  BY <1>1, TurnFacts
<1>4. After(c, g, c.pp) = g
  BY <1>1, <1>3, RankOfWorker DEF After
<1>5. ASSUME NEW n \in 1..(c.pp - 1)
      PROVE  g \notin Reached(c, g, n)
  <2>1. Turn(s, n, p) # s
    BY <1>1, <1>2, TurnFacts
  <2>2. n \in 0..c.pp
    BY <1>1, <1>2
  <2>3. RankInfo(After(c, g, n), c).pp = Turn(s, n, p)
    BY <1>1, <2>2, AfterFacts
  <2>4. After(c, g, n) # g
    BY <1>1, <2>1, <2>3
  <2>5. Reached(c, g, n) = {After(c, g, n)}
    BY <2>2, ReachedIs
  <2> QED
    BY <2>4, <2>5
<1>6. c.pp \in 0..c.pp
  BY <1>1, <1>2
<1> QED
  BY <1>4, <1>5, <1>6, ReachedIs

\* The ranks of a run cover the grid.
LEMMA TheGridIsCovered ==
    ASSUME IsConfig(config)
    PROVE  RanksCoverTheGrid
<1> DEFINE G == GlobalRanks(config)
           rank == [g \in G |-> RankInfo(g, config)]
<1>1. {rank[g] : g \in DOMAIN rank}
        = [dp : 0 .. config.dp - 1, pp : Stages, tp : 0 .. config.tp - 1]
  <2>1. {rank[g] : g \in DOMAIN rank} = {RankInfo(g, config) : g \in G}
    OBVIOUS
  <2> QED
    BY <2>1, GridIsCovered DEF Stages
<1>2. ASSUME NEW d \in 0 .. config.dp - 1
      PROVE  Cardinality({g \in DOMAIN rank : rank[g].dp = d /\ Schedulable(g, config)}) = 1
  <2>1. {g \in DOMAIN rank : rank[g].dp = d /\ Schedulable(g, config)}
          = {g \in G : RankInfo(g, config).dp = d /\ Schedulable(g, config)}
    OBVIOUS
  <2> QED
    BY <2>1, OneSchedulable
<1>3. ASSUME NEW g \in DOMAIN rank
      PROVE  /\ Cardinality(TensorPeers(config, g)) = config.tp - 1
             /\ Reached(config, g, config.pp) = {g}
             /\ \A n \in 1 .. config.pp - 1 : g \notin Reached(config, g, n)
  BY TensorGroupsWhole, StagesComeRound
<1> QED
  BY <1>1, <1>2, <1>3, Zenon DEF RanksCoverTheGrid

-----------------------------------------------------------------------------
(* Cutting n things in parts *)

\* The smaller of two numbers.
Least(a, b) == IF a < b THEN a ELSE b

\* The shares of n things, by the quotient and the remainder.
LEMMA ShareIs ==
    ASSUME NEW n \in Nat, NEW p \in Nat \ {0}
    PROVE  \E q \in Nat, r \in 0..(p - 1) :
             /\ q = n \div p /\ r = n % p /\ n = p * q + r
             /\ \A i : Share(n, p, i) = q + (IF i < r THEN 1 ELSE 0)
<1>1. PICK q \in Nat, r \in 0..(p - 1) : q = n \div p /\ r = n % p /\ n = p * q + r
  BY DivisionFacts
<1> QED
  BY <1>1 DEF Share

\* The things before part i, counted at once.
LEMMA CursorIs ==
    ASSUME NEW n \in Nat, NEW p \in Nat \ {0}, NEW i \in 0..p
    PROVE  Cursor(n, p, i) = (n \div p) * i + Least(i, n % p)
<1> DEFINE Rec(f) == f = [k \in 0..p |-> IF k = 0 THEN 0
                            ELSE f[k - 1] + Share(n, p, k - 1)]
           cursor == CHOOSE f : Rec(f)
<1>1. PICK q \in Nat, r \in 0..(p - 1) :
        /\ q = n \div p /\ r = n % p /\ n = p * q + r
        /\ \A k : Share(n, p, k) = q + (IF k < r THEN 1 ELSE 0)
  BY ShareIs
<1> DEFINE closed == [k \in 0..p |-> q * k + Least(k, r)]
           G == {k \in 0..p : cursor[k] = q * k + Least(k, r)}
<1>2. q * 0 + Least(0, r) = 0
  BY DEF Least
<1>3. ASSUME NEW k \in 1..p
      PROVE  q * (k - 1) + Least(k - 1, r) + Share(n, p, k - 1) = q * k + Least(k, r)
  <2>1. q * k = q * (k - 1) + q /\ q * (k - 1) \in Int
    OBVIOUS
  <2>2. PICK a \in Int : a = q * (k - 1)
    BY <2>1
  <2>3. q * k = a + q
    BY <2>1, <2>2
  <2>4. Share(n, p, k - 1) = q + (IF k - 1 < r THEN 1 ELSE 0)
    BY <1>1
  <2>5. a + Least(k - 1, r) + (q + (IF k - 1 < r THEN 1 ELSE 0)) = a + q + Least(k, r)
    BY DEF Least
  <2> QED
    BY <2>2, <2>3, <2>4, <2>5
<1>4. Rec(closed)
  <2>1. ASSUME NEW k \in 0..p
        PROVE  closed[k] = IF k = 0 THEN 0 ELSE closed[k - 1] + Share(n, p, k - 1)
    <3>1. CASE k = 0
      BY <1>2, <3>1
    <3>2. CASE k # 0
      <4>1. k \in 1..p /\ k - 1 \in 0..p
        BY <3>2
      <4>2. closed[k] = q * k + Least(k, r)
            /\ closed[k - 1] = q * (k - 1) + Least(k - 1, r)
        BY <4>1
      <4> HIDE DEF closed
      <4> QED
        BY <1>3, <3>2, <4>1, <4>2
    <3> QED
      BY <3>1, <3>2
  <2> QED
    BY <2>1
<1>5. Rec(cursor)
  <2> HIDE DEF closed
  <2> QED
    BY <1>4
<1>6. Cursor(n, p, i) = cursor[i]
  BY DEF Cursor
<1> HIDE DEF cursor
<1>7. 0 \in G
  <2>1. 0 \in 0..p
    OBVIOUS
  <2> QED
    BY <1>2, <1>5, <2>1
<1>8. ASSUME NEW k \in 1..p, k - 1 \in G
      PROVE  k \in G
  <2>1. k \in 0..p /\ k # 0
    OBVIOUS
  <2>2. cursor[k] = cursor[k - 1] + Share(n, p, k - 1)
    BY <1>5, <2>1
  <2>3. cursor[k - 1] = q * (k - 1) + Least(k - 1, r)
    BY <1>8
  <2> QED
    BY <1>3, <2>1, <2>2, <2>3
<1>9. i \in G
  <2>1. \A k \in 1..i : k \in 1..p
    OBVIOUS
  <2>2. \A k \in 1..i : k - 1 \in G => k \in G
    BY <1>8, <2>1
  <2> HIDE DEF G
  <2> QED
    BY <1>7, <2>2, CountsUp
<1> QED
  BY <1>1, <1>6, <1>9

\* The parts follow each other without a gap, from the first thing to the last.
LEMMA CursorFacts ==
    ASSUME NEW n \in Nat, NEW p \in Nat \ {0}
    PROVE  /\ Cursor(n, p, 0) = 0 /\ Cursor(n, p, p) = n
           /\ \A i \in 0..p : Cursor(n, p, i) \in Nat
           /\ \A i \in 0..(p - 1) : /\ Share(n, p, i) \in Nat
                                    /\ Cursor(n, p, i + 1) = Cursor(n, p, i) + Share(n, p, i)
           /\ \A i, j \in 0..p : i <= j => Cursor(n, p, i) <= Cursor(n, p, j)
           /\ \A i, j \in 0..(p - 1) : Share(n, p, i) <= Share(n, p, j) + 1
<1>1. PICK q \in Nat, r \in 0..(p - 1) :
        /\ q = n \div p /\ r = n % p /\ n = p * q + r
        /\ \A k : Share(n, p, k) = q + (IF k < r THEN 1 ELSE 0)
  BY ShareIs
<1>2. ASSUME NEW i \in 0..p
      PROVE  Cursor(n, p, i) = q * i + Least(i, r) /\ q * i \in Nat
  <2>1. Cursor(n, p, i) = q * i + Least(i, r)
    BY <1>1, CursorIs
  <2>2. q * i \in Nat
    OBVIOUS
  <2> QED
    BY <2>1, <2>2
<1>3. Cursor(n, p, 0) = 0
  BY <1>2 DEF Least
<1>4. Cursor(n, p, p) = n
  <2>1. Least(p, r) = r /\ q * p = p * q /\ p \in 0..p
    BY DEF Least
  <2> QED
    BY <1>1, <1>2, <2>1
<1>5. \A i \in 0..p : Cursor(n, p, i) \in Nat
  BY <1>2 DEF Least
<1>6. ASSUME NEW i \in 0..(p - 1)
      PROVE  /\ Share(n, p, i) \in Nat
             /\ Cursor(n, p, i + 1) = Cursor(n, p, i) + Share(n, p, i)
  <2>1. q * (i + 1) = q * i + q /\ i \in 0..p /\ i + 1 \in 0..p
    OBVIOUS
  <2>2. PICK a \in Nat : a = q * i /\ q * (i + 1) = a + q
    BY <1>2, <2>1
  <2>3. Cursor(n, p, i) = a + Least(i, r) /\ Cursor(n, p, i + 1) = a + q + Least(i + 1, r)
    BY <1>2, <2>1, <2>2
  <2>4. Share(n, p, i) = q + (IF i < r THEN 1 ELSE 0)
    BY <1>1
  <2> QED
    BY <2>3, <2>4 DEF Least
<1>7. ASSUME NEW i \in 0..p, NEW j \in 0..p, i <= j
      PROVE  Cursor(n, p, i) <= Cursor(n, p, j)
  <2>1. PICK k \in Nat : j = i + k
    <3>1. j - i \in Nat /\ j = i + (j - i)
      BY <1>7
    <3> QED
      BY <3>1
  <2>2. q * j = q * i + q * k /\ q * k \in Nat
    BY <2>1
  <2>3. PICK a \in Nat, b \in Nat : a = q * i /\ b = q * k /\ q * j = a + b
    BY <1>2, <2>2
  <2>4. Cursor(n, p, i) = a + Least(i, r) /\ Cursor(n, p, j) = a + b + Least(j, r)
    BY <1>2, <2>3
  <2> QED
    BY <1>7, <2>4 DEF Least
<1>8. \A i, j \in 0..(p - 1) : Share(n, p, i) <= Share(n, p, j) + 1
  BY <1>1
<1> QED
  BY <1>3, <1>4, <1>5, <1>6, <1>7, <1>8

\* Part s holds thing x.
Holds(n, p, s, x) == /\ Cursor(n, p, s) =< x
                     /\ x < Cursor(n, p, s) + Share(n, p, s)

\* Each thing is in one part.
LEMMA OneHolder ==
    ASSUME NEW n \in Nat, NEW p \in Nat \ {0}, NEW x \in 0..(n - 1)
    PROVE  /\ \E s \in 0..(p - 1) : Holds(n, p, s, x)
           /\ \A s, t \in 0..(p - 1) : Holds(n, p, s, x) /\ Holds(n, p, t, x) => s = t
<1>1. /\ Cursor(n, p, 0) = 0 /\ Cursor(n, p, p) = n
      /\ \A i \in 0..p : Cursor(n, p, i) \in Nat
      /\ \A i \in 0..(p - 1) : Cursor(n, p, i + 1) = Cursor(n, p, i) + Share(n, p, i)
      /\ \A i, j \in 0..p : i <= j => Cursor(n, p, i) <= Cursor(n, p, j)
  BY CursorFacts
<1>2. \E s \in 0..(p - 1) : Holds(n, p, s, x)
  <2> DEFINE T == {j \in 1..p : x < Cursor(n, p, j)}
  <2>1. T \in SUBSET Nat /\ p \in T
    BY <1>1
  <2>2. PICK j \in T : \A k \in T : j <= k
    BY <2>1, LeastNat
  <2>3. j - 1 \in 0..(p - 1) /\ (j - 1) + 1 = j /\ j - 1 \in 0..p
    OBVIOUS
  <2>4. x < Cursor(n, p, j - 1) + Share(n, p, j - 1)
    BY <1>1, <2>3
  <2>5. Cursor(n, p, j - 1) <= x
    <3>1. CASE j = 1
      BY <1>1, <3>1
    <3>2. CASE j # 1
      <4>1. j - 1 \in 1..p /\ ~(j <= j - 1)
        BY <3>2
      <4>2. ~(x < Cursor(n, p, j - 1))
        BY <2>2, <4>1
      <4> QED
        BY <1>1, <2>3, <4>2
    <3> QED
      BY <3>1, <3>2
  <2> QED
    BY <2>3, <2>4, <2>5 DEF Holds
<1>3. ASSUME NEW s \in 0..(p - 1), NEW t \in 0..(p - 1), s < t,
             Holds(n, p, s, x), Holds(n, p, t, x)
      PROVE  FALSE
  <2>1. s + 1 \in 0..p /\ t \in 0..p /\ s + 1 <= t
    BY <1>3
  <2>2. Cursor(n, p, s + 1) <= Cursor(n, p, t) /\ x < Cursor(n, p, s + 1)
        /\ Cursor(n, p, t) <= x
    BY <1>1, <1>3, <2>1 DEF Holds
  <2>3. Cursor(n, p, s + 1) \in Nat /\ Cursor(n, p, t) \in Nat
    BY <1>1, <2>1
  <2> QED
    BY <2>2, <2>3
<1>4. \A s, t \in 0..(p - 1) : s = t \/ s < t \/ t < s
  OBVIOUS
<1> QED
  BY <1>2, <1>3, <1>4

-----------------------------------------------------------------------------
(* The layers of the stages *)

\* Each layer with experts is on one stage, and both cuts agree.
LEMMA LayersAreHeld ==
    ASSUME IsConfig(config)
    PROVE  StagesHoldTheirLayers
<1> DEFINE M == MoeLayerIndices(config)
<1>1. PICK n \in Nat, p \in Nat \ {0} : n = config.layers /\ p = config.pp
  BY DEF IsConfig
<1>2. Stages = 0..(p - 1)
  BY <1>1 DEF Stages
<1>3. ASSUME NEW l \in M
      PROVE  /\ StageOfLayer(config, l) \in 0..(p - 1)
             /\ Holds(n, p, StageOfLayer(config, l), l) /\ l \in Int
  <2>1. l \in 0..(n - 1)
    BY <1>1 DEF MoeLayerIndices, IsConfig
  <2>2. \E s \in 0..(p - 1) : Holds(n, p, s, l)
    BY <2>1, OneHolder
  <2>3. StageOfLayer(config, l) = CHOOSE s \in 0..(p - 1) : Holds(n, p, s, l)
    BY <1>1 DEF StageOfLayer, Holds
  <2> QED
    BY <2>1, <2>2, <2>3
<1>4. UNION {MoeLayersOfStage(config, s) : s \in Stages} = M
  <2>1. \A s \in Stages : MoeLayersOfStage(config, s) \subseteq M
    BY DEF MoeLayersOfStage
  <2>2. \A l \in M : \E s \in Stages : l \in MoeLayersOfStage(config, s)
    BY <1>2, <1>3 DEF MoeLayersOfStage
  <2> HIDE DEF M
  <2> QED
    BY <2>1, <2>2
<1>5. ASSUME NEW s \in Stages
      PROVE  /\ Cardinality(MoeLayersOfStage(config, s)) =< StageLayerCount(config, s)
             /\ MoeLayersOfStage(config, s) \subseteq
                  Cursor(config.layers, config.pp, s)
                    .. Cursor(config.layers, config.pp, s) + StageLayerCount(config, s) - 1
             /\ Cursor(config.layers, config.pp, s) + StageLayerCount(config, s)
                  = Cursor(config.layers, config.pp, s + 1)
  <2>1. PICK a \in Nat, b \in Nat : /\ a = Cursor(config.layers, config.pp, s)
                                    /\ b = Share(config.layers, config.pp, s)
    <3>1. s \in 0..(p - 1) /\ s \in 0..p
      BY <1>2
    <3> QED
      BY <1>1, <3>1, CursorFacts
  <2>6. Cursor(config.layers, config.pp, s + 1) = a + b
    BY <1>1, <1>2, <2>1, CursorFacts
  <2>2. StageLayerCount(config, s) = b
    BY <2>1 DEF StageLayerCount
  <2>3. MoeLayersOfStage(config, s) \subseteq a .. a + b - 1
    <3>1. \A l \in MoeLayersOfStage(config, s) : l \in M /\ StageOfLayer(config, l) = s
      BY DEF MoeLayersOfStage
    <3>2. \A l \in MoeLayersOfStage(config, s) : l \in Int /\ a =< l /\ l < a + b
      BY <1>1, <1>3, <2>1, <3>1 DEF Holds
    <3> QED
      BY <3>2
  <2>4. IsFiniteSet(a .. a + b - 1) /\ Cardinality(a .. a + b - 1) = b
    BY FS_Interval
  <2>5. Cardinality(MoeLayersOfStage(config, s)) =< b
    BY <2>3, <2>4, FS_Subset
  <2> QED
    BY <2>1, <2>2, <2>3, <2>5, <2>6
<1>6. Cursor(config.layers, config.pp, config.pp) = config.layers
  BY <1>1, CursorFacts
<1> QED
  BY <1>4, <1>5, <1>6 DEF StagesHoldTheirLayers

-----------------------------------------------------------------------------
(* The experts of the ranks *)

\* The places of a round robin: one in k, from place r on.
LEMMA OneInK ==
    ASSUME NEW n \in Nat, NEW k \in Nat \ {0}, NEW r \in 0..(k - 1)
    PROVE  /\ IsFiniteSet({e \in 0..(n - 1) : e % k = r})
           /\ Cardinality({e \in 0..(n - 1) : e % k = r}) = Share(n, k, r)
<1> DEFINE S == {e \in 0..(n - 1) : e % k = r}
<1> DEFINE b == Share(n, k, r)
<1>a. PICK q \in Nat, m \in 0..(k - 1) :
        /\ q = n \div k /\ m = n % k /\ n = k * q + m
        /\ \A i : Share(n, k, i) = q + (IF i < m THEN 1 ELSE 0)
  BY ShareIs
<1>1. n = k * q + m /\ b = q + (IF r < m THEN 1 ELSE 0) /\ b \in Nat
  BY <1>a
<1> HIDE DEF b
<1> DEFINE f == [j \in 0..(b - 1) |-> k * j + r]
<1>2. ASSUME NEW j \in 0..(b - 1)
      PROVE  f[j] \in S /\ f[j] \div k = j
  <2>1. PICK e \in Nat : e = k * j + r /\ e \div k = j /\ e % k = r
    BY DivisionUnique
  <2>2. e < n
    <3>1. CASE j < q
      <4>1. k * j + k <= k * q /\ k * j \in Int /\ k * q \in Int
        BY <3>1, Apart
      <4> QED
        BY <1>1, <2>1, <4>1
    <3>2. CASE ~(j < q)
      BY <1>1, <2>1, <3>2
    <3> QED
      BY <3>1, <3>2
  <2>3. f[j] = e
    BY <2>1
  <2> QED
    BY <2>1, <2>2, <2>3
<1>3. ASSUME NEW e \in S
      PROVE  \E j \in 0..(b - 1) : f[j] = e
  <2>0. e \in Nat /\ e % k = r /\ e < n
    OBVIOUS
  <2>1. PICK j \in Nat : e = k * j + r
    BY <2>0, DivisionFacts
  <2>2. j < b
    <3>1. j <= q
      <4>1. q < j => k * q + k <= k * j
        BY Apart
      <4>2. k * q \in Int /\ k * j \in Int
        OBVIOUS
      <4> QED
        BY <1>1, <2>1, <4>1, <4>2
    <3>2. j = q => r < m
      <4>1. k * q \in Int
        OBVIOUS
      <4> QED
        BY <1>1, <2>1, <4>1
    <3> QED
      BY <1>1, <3>1, <3>2
  <2>3. j \in 0..(b - 1)
    BY <1>1, <2>2
  <2>4. f[j] = e
    BY <2>1, <2>3
  <2> QED
    BY <2>3, <2>4
<1>4. f \in [0..(b - 1) -> S]
  BY <1>2
<1>5. \A x, y \in 0..(b - 1) : f[x] = f[y] => x = y
  <2> HIDE DEF f
  <2> QED
    BY <1>2
<1>6. IsFiniteSet(0..(b - 1)) /\ Cardinality(0..(b - 1)) = b
  BY <1>1, FS_Interval
<1> DEFINE T == 0..(b - 1)
<1> HIDE DEF f, S, T
<1>8. /\ IsFiniteSet(T) /\ f \in [T -> S]
      /\ \A x, y \in T : f[x] = f[y] => x = y
      /\ \A z \in S : \E x \in T : f[x] = z
  BY <1>3, <1>4, <1>5, <1>6 DEF T
<1>7. IsFiniteSet(S) /\ Cardinality(S) = Cardinality(T)
  BY <1>8, CountedBy
<1> QED
  BY <1>1, <1>6, <1>7 DEF S, T, b

\* The expert ranks cut the experts.
LEMMA ExpertsAreCut ==
    ASSUME NEW c, IsConfig(c), EpRankCount(c) \in Nat \ {0}
    PROVE  /\ \A r \in 0..(EpRankCount(c) - 1) :
                /\ ExpertsOfEpRank(c, r) \subseteq 0..(c.experts - 1)
                /\ Cardinality(ExpertsOfEpRank(c, r)) = Share(c.experts, EpRankCount(c), r)
           /\ \A e \in 0..(c.experts - 1) :
                /\ \E r \in 0..(EpRankCount(c) - 1) : e \in ExpertsOfEpRank(c, r)
                /\ \A r, t \in 0..(EpRankCount(c) - 1) :
                     e \in ExpertsOfEpRank(c, r) /\ e \in ExpertsOfEpRank(c, t) => r = t
<1>1. PICK n \in Nat, k \in Nat \ {0} : n = c.experts /\ k = EpRankCount(c)
  BY DEF IsConfig
<1>2. CASE c.strategy = "linear"
  <2>1. ASSUME NEW r \in 0..(k - 1)
        PROVE  /\ ExpertsOfEpRank(c, r) \subseteq 0..(n - 1)
               /\ Cardinality(ExpertsOfEpRank(c, r)) = Share(n, k, r)
               /\ \A e \in 0..(n - 1) : e \in ExpertsOfEpRank(c, r) <=> Holds(n, k, r, e)
    <3>1. r \in 0..k /\ r + 1 \in 0..k /\ k \in 0..k /\ r + 1 <= k
      OBVIOUS
    <3>a. /\ Cursor(n, k, r) \in Nat /\ Share(n, k, r) \in Nat
          /\ Cursor(n, k, r + 1) = Cursor(n, k, r) + Share(n, k, r)
          /\ Cursor(n, k, k) = n /\ Cursor(n, k, r + 1) <= Cursor(n, k, k)
      BY <3>1, CursorFacts
    <3>2. PICK a \in Nat, b \in Nat : a = Cursor(n, k, r) /\ b = Share(n, k, r)
      BY <3>a
    <3>3. a + b <= n
      BY <3>2, <3>a
    <3>4. ExpertsOfEpRank(c, r) = a .. a + b - 1
      BY <1>1, <1>2, <3>2 DEF ExpertsOfEpRank
    <3>5. Cardinality(a .. a + b - 1) = b
      BY FS_Interval
    <3>6. \A e \in 0..(n - 1) : e \in a .. a + b - 1 <=> Holds(n, k, r, e)
      BY <3>2 DEF Holds
    <3> QED
      BY <3>2, <3>3, <3>4, <3>5, <3>6, SMTT(30)
  <2>2. ASSUME NEW e \in 0..(n - 1)
        PROVE  /\ \E r \in 0..(k - 1) : e \in ExpertsOfEpRank(c, r)
               /\ \A r, t \in 0..(k - 1) :
                    e \in ExpertsOfEpRank(c, r) /\ e \in ExpertsOfEpRank(c, t) => r = t
    BY <2>1, OneHolder
  <2> QED
    BY <1>1, <2>1, <2>2
<1>3. CASE c.strategy # "linear"
  <2>1. \A r : ExpertsOfEpRank(c, r) = {e \in 0..(n - 1) : e % k = r}
    BY <1>1, <1>3 DEF ExpertsOfEpRank
  <2>2. ASSUME NEW r \in 0..(k - 1)
        PROVE  /\ ExpertsOfEpRank(c, r) \subseteq 0..(n - 1)
               /\ Cardinality(ExpertsOfEpRank(c, r)) = Share(n, k, r)
    BY <2>1, OneInK
  <2>3. ASSUME NEW e \in 0..(n - 1)
        PROVE  /\ \E r \in 0..(k - 1) : e \in ExpertsOfEpRank(c, r)
               /\ \A r, t \in 0..(k - 1) :
                    e \in ExpertsOfEpRank(c, r) /\ e \in ExpertsOfEpRank(c, t) => r = t
    <3>1. e % k \in 0..(k - 1)
      BY DivisionFacts
    <3> QED
      BY <2>1, <3>1
  <2> QED
    BY <1>1, <2>2, <2>3
<1> QED
  BY <1>2, <1>3

\* The workers of a stage have the expert ranks, each once.
LEMMA EpRanksOfStage ==
    ASSUME NEW c, IsConfig(c), c.ep, NEW s \in 0..(c.pp - 1)
    PROVE  LET W == {g \in GlobalRanks(c) : RankInfo(g, c).pp = s}
           IN  /\ EpRankCount(c) \in Nat \ {0}
               /\ \A g \in W : EpRank(g, c) \in 0..(EpRankCount(c) - 1)
               /\ \A g, h \in W : EpRank(g, c) = EpRank(h, c) => g = h
               /\ \A r \in 0..(EpRankCount(c) - 1) : \E g \in W : EpRank(g, c) = r
<1> DEFINE W == {g \in GlobalRanks(c) : RankInfo(g, c).pp = s}
<1>1. PICK a, b : /\ a \in Nat \ {0} /\ b \in Nat \ {0} /\ a = c.dp /\ b = c.tp
  BY DEF IsConfig
<1>2. a * b \in Nat \ {0} /\ a * b = b * a
  BY <1>1
<1>3. PICK k \in Nat \ {0} : k = a * b /\ EpRankCount(c) = k
  BY <1>1, <1>2 DEF EpRankCount
<1>4. ASSUME NEW g \in W
      PROVE  /\ RankInfo(g, c).dp \in 0..(a - 1) /\ RankInfo(g, c).tp \in 0..(b - 1)
             /\ EpRank(g, c) = b * RankInfo(g, c).dp + RankInfo(g, c).tp
             /\ EpRank(g, c) \in 0..(k - 1)
             /\ EpRank(g, c) \div b = RankInfo(g, c).dp
             /\ EpRank(g, c) % b = RankInfo(g, c).tp
  <2>1. PICK i \in 0..(a - 1), j \in 0..(b - 1) : i = RankInfo(g, c).dp /\ j = RankInfo(g, c).tp
    BY <1>1, RankOfWorker
  <2>2. i * b = b * i
    BY <1>1, <2>1
  <2>3. EpRank(g, c) = b * i + j
    BY <1>1, <2>1, <2>2 DEF EpRank
  <2>4. b * i + j \in 0..(a * b - 1)
    BY <1>1, <2>1, ProductBound
  <2>5. (b * i + j) \div b = i /\ (b * i + j) % b = j
    <3>1. b \in Nat \ {0} /\ i \in Nat /\ j \in 0..(b - 1)
      BY <1>1, <2>1
    <3> QED
      BY <3>1, DivisionUnique, ZenonT(30)
  <2> QED
    BY <1>3, <2>1, <2>3, <2>4, <2>5
<1>5. ASSUME NEW g \in W, NEW h \in W, EpRank(g, c) = EpRank(h, c)
      PROVE  g = h
  <2>1. RankInfo(g, c).dp = RankInfo(h, c).dp /\ RankInfo(g, c).tp = RankInfo(h, c).tp
    BY <1>4, <1>5
  <2> QED
    BY <2>1, SameRank
<1>6. ASSUME NEW r \in 0..(k - 1)
      PROVE  \E g \in W : EpRank(g, c) = r
  <2>1. r \in Nat /\ r \in 0..(a * b - 1)
    BY <1>3
  <2>a. a \in Nat \ {0} /\ b \in Nat \ {0}
    BY <1>1
  <2>b. r \div b \in 0..(a - 1)
    BY <2>1, <2>a, ProductCut
  <2>c. r % b \in 0..(b - 1) /\ r = b * (r \div b) + (r % b)
    BY <2>1, <2>a, DivisionFacts
  <2>2. PICK i \in 0..(a - 1) : i = r \div b
    BY <2>b
  <2>3. PICK j \in 0..(b - 1) : j = r % b /\ r = b * i + j
    BY <2>2, <2>c
  <2>d. i \in 0..(c.dp - 1) /\ j \in 0..(c.tp - 1)
    BY <1>1
  <2>e. /\ WorkerAt(c, i, s, j) \in GlobalRanks(c)
        /\ RankInfo(WorkerAt(c, i, s, j), c) = [dp |-> i, pp |-> s, tp |-> j]
    BY <2>d, WorkerOfRank
  <2>4. PICK g \in GlobalRanks(c) : RankInfo(g, c) = [dp |-> i, pp |-> s, tp |-> j]
    BY <2>e
  <2>5. g \in W
    BY <2>4
  <2> QED
    BY <1>4, <2>3, <2>4, <2>5
<1> HIDE DEF W
<1>7. /\ EpRankCount(c) \in Nat \ {0}
      /\ \A g \in W : EpRank(g, c) \in 0..(EpRankCount(c) - 1)
      /\ \A g, h \in W : EpRank(g, c) = EpRank(h, c) => g = h
      /\ \A r \in 0..(EpRankCount(c) - 1) : \E g \in W : EpRank(g, c) = r
  BY <1>3, <1>4, <1>5, <1>6
<1> QED
  BY <1>7 DEF W

\* Each expert has one owner in each stage.
LEMMA ExpertsAreOwned ==
    ASSUME IsConfig(config)
    PROVE  ExpertsOwnedOnce
<1> SUFFICES ASSUME config.ep, NEW s \in Stages
             PROVE  LET own == [g \in RanksOfStage(s) |-> ExpertsOf(config, g)] IN
                    /\ \A e \in 0 .. config.experts - 1 :
                         Cardinality({g \in DOMAIN own : e \in own[g]}) = 1
                    /\ \A g, h \in DOMAIN own : Cardinality(own[g]) =< Cardinality(own[h]) + 1
                    /\ \A g \in DOMAIN own :
                         UNION {own[h] : h \in ExpertPeers(config, g)}
                           = (0 .. config.experts - 1) \ own[g]
  BY DEF ExpertsOwnedOnce
<1> DEFINE own == [g \in RanksOfStage(s) |-> ExpertsOf(config, g)]
           W == RanksOfStage(s)
           E == 0 .. config.experts - 1
           k == EpRankCount(config)
           of(g) == ExpertsOfEpRank(config, EpRank(g, config))
<1>1. /\ k \in Nat \ {0}
      /\ \A g \in W : EpRank(g, config) \in 0..(k - 1)
      /\ \A g, h \in W : EpRank(g, config) = EpRank(h, config) => g = h
      /\ \A r \in 0..(k - 1) : \E g \in W : EpRank(g, config) = r
  BY EpRanksOfStage DEF Stages, RanksOfStage
<1>2. /\ \A r \in 0..(k - 1) :
           /\ ExpertsOfEpRank(config, r) \subseteq E
           /\ Cardinality(ExpertsOfEpRank(config, r)) = Share(config.experts, k, r)
      /\ \A e \in E :
           /\ \E r \in 0..(k - 1) : e \in ExpertsOfEpRank(config, r)
           /\ \A r, t \in 0..(k - 1) :
                e \in ExpertsOfEpRank(config, r) /\ e \in ExpertsOfEpRank(config, t) => r = t
  BY <1>1, ExpertsAreCut
<1>3. DOMAIN own = W /\ \A g \in W : own[g] = of(g)
  <2>1. \A g \in W : EpRank(g, config) < k
    BY <1>1
  <2>2. \A g \in W : ExpertsOf(config, g) = of(g)
    BY <2>1 DEF ExpertsOf
  <2> HIDE DEF of
  <2> QED
    BY <2>2
<1> HIDE DEF own, k
<1>4. \A g \in W : of(g) \subseteq E
  BY <1>1, <1>2
<1>5. \A e \in E : \E g \in W : e \in of(g)
  BY <1>1, <1>2
<1>6. \A e \in E : \A g, h \in W : e \in of(g) /\ e \in of(h) => g = h
  BY <1>1, <1>2
<1>7. \A g, h \in W : Cardinality(of(g)) =< Cardinality(of(h)) + 1
  <2>1. config.experts \in Nat
    BY DEF IsConfig
  <2>2. \A i, j \in 0..(k - 1) : Share(config.experts, k, i) <= Share(config.experts, k, j) + 1
    BY <1>1, <2>1, CursorFacts
  <2> QED
    BY <1>1, <1>2, <2>2
<1>8. \A g \in W : ExpertPeers(config, g) = W \ {g}
  <2> SUFFICES ASSUME NEW g \in W, NEW h
               PROVE  h \in ExpertPeers(config, g) <=> h \in W \ {g}
    OBVIOUS
  <2>1. g \in GlobalRanks(config) /\ RankInfo(g, config).pp = s
    BY DEF RanksOfStage
  <2>2. h \in ExpertPeers(config, g) => h \in W /\ h # g
    BY <2>1 DEF ExpertPeers, RanksOfStage
  <2>3. h \in W /\ h # g => h \in ExpertPeers(config, g)
    <3> SUFFICES ASSUME h \in W, h # g
                 PROVE  h \in ExpertPeers(config, g)
      OBVIOUS
    <3>1. h \in GlobalRanks(config) /\ RankInfo(h, config).pp = s
      BY DEF RanksOfStage
    <3>2. RankInfo(h, config).tp # RankInfo(g, config).tp
          \/ RankInfo(h, config).dp # RankInfo(g, config).dp
      BY <2>1, <3>1, SameRank
    <3> QED
      BY <2>1, <3>1, <3>2 DEF ExpertPeers
  <2> QED
    BY <2>2, <2>3
<1> HIDE DEF W, E, of
<1>9. ASSUME NEW e \in E
      PROVE  Cardinality({g \in DOMAIN own : e \in own[g]}) = 1
  <2>1. PICK w \in W : e \in of(w)
    BY <1>5
  <2>2. {g \in DOMAIN own : e \in own[g]} = {w}
    BY <1>3, <1>6, <2>1
  <2> QED
    BY <2>2, FS_Singleton
<1>10. \A g, h \in DOMAIN own : Cardinality(own[g]) =< Cardinality(own[h]) + 1
  BY <1>3, <1>7
<1>11. ASSUME NEW g \in DOMAIN own
       PROVE  UNION {own[h] : h \in ExpertPeers(config, g)} = E \ own[g]
  <2>1. g \in W /\ own[g] = of(g) /\ ExpertPeers(config, g) = W \ {g}
    BY <1>3, <1>8
  <2>2. UNION {own[h] : h \in W \ {g}} = E \ of(g)
    BY <1>3, <1>4, <1>5, <1>6, <2>1
  <2> QED
    BY <2>1, <2>2
<1> QED
  BY <1>9, <1>10, <1>11 DEF own, E

-----------------------------------------------------------------------------
(* The configurations a run ends up with *)

\* Whatever the command line overrides, the configuration is sound.
LEMMA PlacementInvariant == PlacementSpec => []IsConfig(config)
<1>1. PlacementInit => IsConfig(config)
  <2>1. ASSUME NEW p \in Parallel, NEW m \in Models, config = Effective(p, m)
        PROVE  IsConfig(config)
    <3>1. /\ p.tp \in Sizes /\ p.pp \in Sizes /\ p.dp \in Sizes
          /\ p.ep \in BOOLEAN /\ p.strategy \in {"linear", "round_robin"}
      BY DEF Parallel
    <3>2. /\ m.experts \in Nat \ {0} /\ m.layers \in Nat
          /\ m.moeLayers \in Nat \ {0} /\ m.firstMoe \in Nat /\ m.freq \in Nat \ {0}
      BY PlacementAssumption
    <3>3. Sizes \subseteq Nat \ {0}
      BY PlacementAssumption
    <3> QED
      BY <2>1, <3>1, <3>2, <3>3 DEF Effective, IsConfig
  <2> QED
    BY <2>1 DEF PlacementInit
<1>2. ASSUME IsConfig(config), [PlacementNext]_placementVars
      PROVE  IsConfig(config)'
  <2> USE PlacementAssumption
  <2>1. ASSUME NEW size \in Sizes, Override([config EXCEPT !.tp = size])
        PROVE  IsConfig(config)'
    BY <1>2, <2>1 DEF Override, IsConfig
  <2>2. ASSUME NEW size \in Sizes, Override([config EXCEPT !.pp = size])
        PROVE  IsConfig(config)'
    BY <1>2, <2>2 DEF Override, IsConfig
  <2>3. ASSUME NEW size \in Sizes, Override([config EXCEPT !.dp = size])
        PROVE  IsConfig(config)'
    BY <1>2, <2>3 DEF Override, IsConfig
  <2>4. ASSUME NEW enabled \in BOOLEAN, Override([config EXCEPT !.ep = enabled])
        PROVE  IsConfig(config)'
    BY <1>2, <2>4 DEF Override, IsConfig
  <2>5. ASSUME NEW strategy \in {"linear", "round_robin"},
               Override([config EXCEPT !.strategy = strategy])
        PROVE  IsConfig(config)'
    BY <1>2, <2>5 DEF Override, IsConfig
  <2>6. CASE UNCHANGED placementVars
    BY <1>2, <2>6 DEF placementVars, IsConfig
  <2> QED
    BY <1>2, <2>1, <2>2, <2>3, <2>4, <2>5, <2>6 DEF PlacementNext
<1> QED
  BY <1>1, <1>2, PTL DEF PlacementSpec

\* Whatever the sizes of the parallel dimensions and the shape of the model, and
\* whatever the command line overrides: the ranks cover the grid and its groups are
\* whole, each expert and each layer with experts has one owner, and the two cuts of
\* the model into stages agree (parallel_config.py, placement.py, cache_config.py).
THEOREM PlacedAlwaysOnce == PlacementSpec => []PlacedOnce
<1>1. IsConfig(config) => PlacedOnce
  BY TheGridIsCovered, ExpertsAreOwned, LayersAreHeld DEF PlacedOnce
<1> QED
  BY <1>1, PlacementInvariant, PTL
=============================================================================
