---------------------------- MODULE KVBlocksProofs ----------------------------
(* Proofs about KVBlocks: the invariants TLC checks on MCKVBlocks hold for   *)
(* every pool, every set of requests and every assignment of keys.           *)
EXTENDS KVBlocks, SequenceFacts

\* The inductive invariant: the invariants of KVBlocks support one another.
IInv ==
    /\ TypeOK
    /\ RefCounts
    /\ FreeQueueExact
    /\ IndexSound
    /\ SharedOnlyCached
    /\ RowsKeepKeys

-----------------------------------------------------------------------------
(* Rows, holders and the free queue *)

\* There are finitely many owners, so the holders of a block can be counted.
LEMMA HoldersFinite ==
    \A S : S \subseteq Owners => IsFiniteSet(S)
<1>1. IsFiniteSet(Owners)
  BY RequestsAssumption, FS_AddElement DEF Owners
<1>2. QED
  BY <1>1, FS_Subset

\* In an injective row the position of the i-th block is i.
LEMMA PosOfElement ==
    ASSUME NEW s, IsInjective(s), NEW i \in DOMAIN s
    PROVE  Pos(s, s[i]) = i
BY DEF IsInjective, Pos

\* A block is in a row exactly if its owner is among the holders; a block with
\* holders is referenced, and one with two holders twice.
LEMMA HeldIsReferenced ==
    ASSUME IInv, NEW b \in Blocks
    PROVE  /\ ref[b] \in Nat
           /\ \A o \in Owners : b \in Range(held[o]) => ref[b] > 0
           /\ \A o, p \in Owners :
                b \in Range(held[o]) /\ b \in Range(held[p]) /\ o # p => ref[b] > 1
           /\ ref[b] = 0 => Holders(b) = {}
           /\ \A o \in Owners : b \in Range(held[o]) /\ ref[b] = 1 => Holders(b) = {o}
<1>1. ref[b] \in Nat /\ ref[b] = Cardinality(Holders(b))
  BY DEF IInv, TypeOK, RefCounts
<1>2. IsFiniteSet(Holders(b))
  BY HoldersFinite DEF Holders
<1>3. ref[b] = 0 <=> Holders(b) = {}
  BY <1>1, <1>2, FS_EmptySet
<1>4. ref[b] = 1 <=> \E o : Holders(b) = {o}
  BY <1>1, <1>2, FS_Singleton
<1>5. \A o \in Owners : b \in Range(held[o]) <=> o \in Holders(b)
  BY DEF Holders
<1>6. \A o, p \in Owners :
         b \in Range(held[o]) /\ b \in Range(held[p]) /\ o # p => ref[b] # 0 /\ ref[b] # 1
  BY <1>3, <1>4, <1>5
<1>7. QED
  BY <1>1, <1>3, <1>4, <1>5, <1>6

\* What popleft() hands out is unreferenced, uncached or from the heap, and each
\* block once; what stays in the deque is the rest of it.
LEMMA Popped ==
    ASSUME IInv, NEW new \in Seq(Blocks), NEW heap \in SUBSET lru, IsPopOrder(new, heap)
    PROVE  LET rest == SubSeq(fifo, Len(new) + 1, Len(fifo))
           IN  /\ IsInjective(new)
               /\ \A b \in Range(new) : ref[b] = 0 /\ (~cached[b] \/ b \in heap)
               /\ rest \in Seq(Blocks) /\ IsInjective(rest)
               /\ Range(rest) = Range(fifo) \ Range(new)
<1> DEFINE rest == SubSeq(fifo, Len(new) + 1, Len(fifo))
<1>1. /\ fifo \in Seq(Blocks) /\ Len(fifo) \in Nat /\ Len(new) \in Nat
      /\ DOMAIN fifo = 1..Len(fifo) /\ DOMAIN new = 1..Len(new)
  BY DEF IInv, TypeOK
<1>2. \A i \in 1..Len(fifo) : ref[fifo[i]] = 0 /\ ~cached[fifo[i]] /\ fifo[i] \in Blocks
  BY <1>1 DEF IInv, FreeQueueExact, Range
<1>3. \A b \in heap : ref[b] = 0 /\ cached[b]
  BY DEF IInv, FreeQueueExact
<1>4. \A i \in DOMAIN new : i <= Len(fifo) => new[i] = fifo[i]
  BY DEF IsPopOrder
<1>5. \A i \in DOMAIN new : ~(i <= Len(fifo)) =>
          new[i] \in heap /\ \A j \in Len(fifo) + 1 .. i - 1 : new[j] # new[i]
  BY DEF IsPopOrder
<1>6. \A i, j \in DOMAIN fifo : fifo[i] = fifo[j] => i = j
  BY DEF IInv, FreeQueueExact, IsInjective
<1>7. \A i, j \in DOMAIN new : new[i] = new[j] => ~(i < j)
  BY <1>1, <1>2, <1>3, <1>4, <1>5, <1>6
<1>8. IsInjective(new)
  BY <1>1, <1>7 DEF IsInjective
<1>9. \A b \in Range(new) : ref[b] = 0 /\ (~cached[b] \/ b \in heap)
  BY <1>1, <1>2, <1>3, <1>4, <1>5 DEF Range
<1>10. /\ rest \in Seq(Blocks)
       /\ \A i : i \in DOMAIN rest <=> i \in Nat \ {0} /\ Len(new) + i \in DOMAIN fifo
       /\ \A i \in DOMAIN rest : rest[i] = fifo[Len(new) + i]
  BY <1>1, SuffixProperties
<1> HIDE DEF rest
<1>12. IsInjective(rest)
  <2>1. SUFFICES ASSUME NEW i \in DOMAIN rest, NEW j \in DOMAIN rest, rest[i] = rest[j]
                 PROVE  i = j
    BY DEF IsInjective
  <2>2. i \in Nat /\ j \in Nat /\ Len(new) + i = Len(new) + j
    BY <1>6, <1>10, <2>1
  <2>3. QED
    BY <1>1, <2>2
<1>13. Range(rest) \subseteq Range(fifo) \ Range(new)
  <2>1. SUFFICES ASSUME NEW i \in DOMAIN rest
                 PROVE  rest[i] \in Range(fifo) /\ rest[i] \notin Range(new)
    BY DEF Range
  <2>2. i \in Nat \ {0} /\ Len(new) + i \in DOMAIN fifo /\ rest[i] = fifo[Len(new) + i]
    BY <1>10
  <2>3. ASSUME NEW j \in DOMAIN new, new[j] = rest[i]
        PROVE  FALSE
    <3>1. CASE j <= Len(fifo)
      BY <1>1, <1>4, <1>6, <2>2, <2>3, <3>1
    <3>2. CASE ~(j <= Len(fifo))
      BY <1>1, <1>2, <1>3, <1>5, <2>2, <2>3, <3>2
    <3>3. QED
      BY <3>1, <3>2
  <2>4. QED
    BY <2>2, <2>3 DEF Range
<1>14. Range(fifo) \ Range(new) \subseteq Range(rest)
  <2>1. SUFFICES ASSUME NEW i \in DOMAIN fifo, fifo[i] \notin Range(new)
                 PROVE  fifo[i] \in Range(rest)
    BY DEF Range
  <2>2. ~(i <= Len(new))
    BY <1>1, <1>4, <2>1 DEF Range
  <2>3. i - Len(new) \in Nat \ {0} /\ Len(new) + (i - Len(new)) = i
    BY <1>1, <2>2
  <2>4. i - Len(new) \in DOMAIN rest /\ rest[i - Len(new)] = fifo[i]
    BY <1>10, <2>3
  <2>5. QED
    BY <2>3, <2>4 DEF Range
<1>15. QED
  BY <1>8, <1>9, <1>10, <1>12, <1>13, <1>14 DEF rest

-----------------------------------------------------------------------------
(* The two ways the pool changes hands *)

\* What holds after owner o took hits and new.
Taken(o, hits, new, newHash) ==
    /\ ref' \in [Blocks -> Nat]
    /\ hash' \in [Blocks -> Keys \cup {NoKey}]
    /\ cached' \in [Blocks -> BOOLEAN]
    /\ stamp' \in [Blocks -> Nat]
    /\ clock' \in Nat
    /\ fifo' \in Seq(Blocks)
    /\ lru' \in SUBSET Blocks
    /\ index' \in [Keys -> Blocks \cup {NoBlock}]
    /\ held' \in [Owners -> Seq(Blocks)]
    /\ RefCounts' /\ FreeQueueExact' /\ IndexSound' /\ SharedOnlyCached'
    /\ \A b \in Blocks \ Range(new) : hash'[b] = hash[b] /\ cached'[b] = cached[b]
    /\ \A p \in Owners : Range(held[p]) \cap Range(new) = {}
    /\ Range(hits) \cap Range(new) = {}
    /\ \A p \in Owners \ {o} : held'[p] = held[p]
    /\ held'[o] = (held[o] \o hits) \o new
    /\ \A i \in DOMAIN new : ~cached'[new[i]] /\ hash'[new[i]] = newHash[i]

\* Take: the hits gain a reference, the popped blocks their first one, and the
\* rows of the other owners keep what they hold.
LEMMA TakeKeeps ==
    ASSUME IInv, NEW o \in Owners,
           NEW hits \in Seq(Blocks), IsInjective(hits),
           \A b \in Range(hits) : cached[b] /\ b \notin Range(held[o]),
           NEW new \in Seq(Blocks),
           NEW newHash \in [DOMAIN new -> Keys \cup {NoKey}],
           Take(o, hits, new, newHash)
    PROVE  Taken(o, hits, new, newHash)
<1> DEFINE H == Range(hits)
           T == Range(new)
<1>1. /\ IsInjective(new)
      /\ \A b \in T : ref[b] = 0 /\ (~cached[b] \/ b \in lru \ H)
      /\ fifo' \in Seq(Blocks) /\ IsInjective(fifo')
      /\ Range(fifo') = Range(fifo) \ T
  <2>1. IsPopOrder(new, lru \ H) /\ fifo' = SubSeq(fifo, Len(new) + 1, Len(fifo))
    BY DEF Take, TakenRefs, HeapWithout
  <2>2. lru \ H \in SUBSET lru
    OBVIOUS
  <2>3. QED
    BY <2>1, <2>2, Popped
<1>2. T \subseteq Blocks /\ H \subseteq Blocks /\ T \cap H = {}
  <2>1. T \subseteq Blocks /\ H \subseteq Blocks
    BY DEF Range
  <2>2. \A b \in H : cached[b]
    OBVIOUS
  <2>3. QED
    BY <1>1, <2>1, <2>2
<1>3. \A p \in Owners : held[p] \in Seq(Blocks) /\ IsInjective(held[p])
  BY DEF IInv, TypeOK, RefCounts
<1>4. \A p \in Owners : Range(held[p]) \subseteq Blocks
  BY <1>3 DEF Range
<1>5. \A p \in Owners : Range(held[p]) \cap T = {}
  <2>1. SUFFICES ASSUME NEW p \in Owners, NEW b \in T, b \in Range(held[p])
                 PROVE  FALSE
    OBVIOUS
  <2>2. b \in Blocks /\ ref[b] = 0
    BY <1>1, <1>2
  <2>3. ref[b] > 0
    BY <2>1, <2>2, HeldIsReferenced
  <2>4. QED
    BY <2>2, <2>3
<1>6. /\ held'[o] = (held[o] \o hits) \o new
      /\ \A p \in Owners \ {o} : held'[p] = held[p]
      /\ DOMAIN held' = Owners /\ held' = [p \in Owners |-> held'[p]]
  BY DEF Take, TakenRefs, HeapWithout, IInv, TypeOK
<1>7. /\ held'[o] \in Seq(Blocks) /\ IsInjective(held'[o])
      /\ Range(held'[o]) = Range(held[o]) \cup H \cup T
  <2>1. /\ held[o] \o hits \in Seq(Blocks) /\ IsInjective(held[o] \o hits)
        /\ Range(held[o] \o hits) = Range(held[o]) \cup H
    <3>1. Range(held[o]) \cap Range(hits) = {}
      OBVIOUS
    <3>2. QED
      BY <1>3, <3>1, ConcatRange
  <2> DEFINE row == held[o] \o hits
  <2>2. Range(row) \cap Range(new) = {}
    BY <1>2, <1>5, <2>1
  <2>3. row \in Seq(Blocks) /\ IsInjective(row) /\ Range(row) = Range(held[o]) \cup H
    BY <2>1
  <2>4. held'[o] = row \o new
    BY <1>6
  <2> HIDE DEF row
  <2>5. /\ row \o new \in Seq(Blocks) /\ IsInjective(row \o new)
        /\ Range(row \o new) = Range(row) \cup Range(new)
    BY <1>1, <2>2, <2>3, ConcatRange
  <2>6. QED
    BY <2>3, <2>4, <2>5
<1>8. held' \in [Owners -> Seq(Blocks)]
  BY <1>3, <1>6, <1>7
<1>9. \A b \in Blocks : ref'[b] = IF b \in T THEN 1 ELSE IF b \in H THEN ref[b] + 1 ELSE ref[b]
  BY DEF Take, TakenRefs, HeapWithout
<1>10. \A b \in Blocks : /\ cached'[b] = (b \notin T /\ cached[b])
                         /\ hash'[b] = IF b \in T THEN newHash[Pos(new, b)] ELSE hash[b]
  BY DEF Take, TakenRefs, HeapWithout
<1>11. \A i \in DOMAIN new : /\ new[i] \in T /\ new[i] \in Blocks /\ Pos(new, new[i]) = i
  BY <1>1, <1>2, PosOfElement DEF Range
<1>12. \A b \in T : \E i \in DOMAIN new : b = new[i] /\ Pos(new, b) = i
  BY <1>11 DEF Range
<1>13. RefCounts'
  <2>1. \A p \in Owners : IsInjective(held'[p])
    BY <1>3, <1>6, <1>7
  <2>2. ASSUME NEW b \in Blocks
        PROVE  ref'[b] = Cardinality(Holders(b)')
    <3>1. /\ ref[b] \in Nat /\ ref[b] = Cardinality(Holders(b)) /\ IsFiniteSet(Holders(b))
      BY HoldersFinite DEF IInv, TypeOK, RefCounts, Holders
    <3>2. CASE b \in T
      <4>1. Holders(b)' = {o}
        BY <1>5, <1>6, <1>7, <3>2 DEF Holders
      <4>2. QED
        BY <1>9, <3>2, <4>1, FS_Singleton
    <3>3. CASE b \in H
      <4>1. Holders(b)' = Holders(b) \cup {o} /\ o \notin Holders(b)
        BY <1>6, <1>7, <3>3 DEF Holders
      <4>2. Cardinality(Holders(b) \cup {o}) = Cardinality(Holders(b)) + 1
        BY <3>1, <4>1, FS_AddElement
      <4>3. QED
        BY <1>2, <1>9, <3>1, <3>3, <4>1, <4>2
    <3>4. CASE b \notin T /\ b \notin H
      <4>1. Holders(b)' = Holders(b)
        BY <1>6, <1>7, <3>4 DEF Holders
      <4>2. QED
        BY <1>9, <3>1, <3>4, <4>1
    <3>5. QED
      BY <3>2, <3>3, <3>4
  <2>3. QED
    BY <2>1, <2>2 DEF RefCounts
<1>14. ref' \in [Blocks -> Nat]
  <2>1. \A b \in Blocks : ref[b] \in Nat
    BY DEF IInv, TypeOK
  <2>2. \A b \in Blocks : ref'[b] \in Nat
    BY <1>9, <2>1
  <2>3. QED
    BY <2>2 DEF Take, TakenRefs, HeapWithout
<1>15. FreeQueueExact'
  <2>1. \A b \in Blocks : ref[b] \in Nat
    BY DEF IInv, TypeOK
  <2>2. \A b \in Blocks : ref'[b] = 0 <=> ref[b] = 0 /\ b \notin T /\ b \notin H
    BY <1>9, <2>1
  <2>3. \A b \in H : cached[b]
    OBVIOUS
  <2>4. Range(fifo) = {b \in Blocks : ref[b] = 0 /\ ~cached[b]}
        /\ lru = {b \in Blocks : ref[b] = 0 /\ cached[b]}
    BY DEF IInv, FreeQueueExact
  <2>5. Range(fifo') = {b \in Blocks : ref'[b] = 0 /\ ~cached'[b]}
    BY <1>1, <1>10, <2>2, <2>3, <2>4
  <2>6. lru' = (lru \ H) \ T
    BY DEF Take, TakenRefs, HeapWithout
  <2>7. lru' = {b \in Blocks : ref'[b] = 0 /\ cached'[b]}
    BY <1>10, <2>2, <2>4, <2>6
  <2>8. QED
    BY <1>1, <2>5, <2>7 DEF FreeQueueExact
<1>16. index' \in [Keys -> Blocks \cup {NoBlock}] /\ IndexSound'
  <2>1. \A k \in Keys : index'[k] = IF index[k] \in T /\ cached[index[k]] /\ hash[index[k]] = k
                                    THEN NoBlock ELSE index[k]
    BY DEF Take, TakenRefs, HeapWithout, Evicted
  <2>2. \A k \in Keys : index[k] \in Blocks \cup {NoBlock}
                        /\ (index[k] # NoBlock => cached[index[k]] /\ hash[index[k]] = k)
    BY DEF IInv, TypeOK, IndexSound
  <2>3. index' \in [Keys -> Blocks \cup {NoBlock}]
    <3>1. index' = [k \in Keys |-> index'[k]]
      BY DEF Take, TakenRefs, HeapWithout, Evicted
    <3>2. QED
      BY <2>1, <2>2, <3>1
  <2>4. IndexSound'
    BY <1>10, <2>1, <2>2 DEF IndexSound
  <2>5. QED
    BY <2>3, <2>4
<1>17. SharedOnlyCached'
  <2>1. SUFFICES ASSUME NEW b \in Blocks, ~cached'[b]
                 PROVE  ref'[b] <= 1
    BY DEF SharedOnlyCached
  <2>2. CASE b \in T
    BY <1>9, <2>2
  <2>3. CASE b \notin T
    <3>1. ~cached[b]
      BY <1>10, <2>1, <2>3
    <3>2. b \notin H /\ ref[b] <= 1
      BY <3>1 DEF IInv, SharedOnlyCached
    <3>3. QED
      BY <1>9, <2>3, <3>2
  <2>4. QED
    BY <2>2, <2>3
<1>18. /\ hash' \in [Blocks -> Keys \cup {NoKey}]
       /\ cached' \in [Blocks -> BOOLEAN]
       /\ lru' \in SUBSET Blocks
  <2>1. \A b \in T : newHash[Pos(new, b)] \in Keys \cup {NoKey}
    BY <1>12
  <2>2. \A b \in Blocks : hash[b] \in Keys \cup {NoKey} /\ cached[b] \in BOOLEAN
    BY DEF IInv, TypeOK
  <2>3. \A b \in Blocks : hash'[b] \in Keys \cup {NoKey} /\ cached'[b] \in BOOLEAN
    BY <1>10, <2>1, <2>2
  <2>4. lru \in SUBSET Blocks
    BY DEF IInv, TypeOK
  <2>5. QED
    BY <2>3, <2>4 DEF Take, TakenRefs, HeapWithout
<1>19. clock' \in Nat /\ stamp' \in [Blocks -> Nat]
  <2>1. Len(hits) \in Nat /\ clock \in Nat /\ stamp \in [Blocks -> Nat]
        /\ DOMAIN hits = 1..Len(hits)
    BY DEF IInv, TypeOK
  <2>2. \A b \in H : Pos(hits, b) \in Nat
    <3>1. \A i \in DOMAIN hits : Pos(hits, hits[i]) = i
      BY PosOfElement
    <3>2. QED
      BY <2>1, <3>1 DEF Range
  <2>3. QED
    BY <2>1, <2>2 DEF Take, TakenRefs, HeapWithout
<1>20. /\ \A b \in Blocks \ T : hash'[b] = hash[b] /\ cached'[b] = cached[b]
       /\ \A i \in DOMAIN new : ~cached'[new[i]] /\ hash'[new[i]] = newHash[i]
  <2>1. \A b \in Blocks \ T : hash'[b] = hash[b] /\ cached'[b] = cached[b]
    BY <1>10 DEF IInv, TypeOK
  <2>2. \A i \in DOMAIN new : ~cached'[new[i]] /\ hash'[new[i]] = newHash[i]
    BY <1>10, <1>11
  <2>3. QED
    BY <2>1, <2>2
<1>21. QED
  BY <1>1, <1>2, <1>5, <1>6, <1>8, <1>13, <1>14, <1>15, <1>16, <1>17, <1>18, <1>19, <1>20
     DEF Taken

\* What holds after owner o gave up the first n blocks of its row.
Freed(o, n, isCached, newHash) ==
    /\ ref' \in [Blocks -> Nat]
    /\ hash' \in [Blocks -> Keys \cup {NoKey}]
    /\ cached' \in [Blocks -> BOOLEAN]
    /\ stamp' \in [Blocks -> Nat]
    /\ fifo' \in Seq(Blocks)
    /\ lru' \in SUBSET Blocks
    /\ held' \in [Owners -> Seq(Blocks)]
    /\ RefCounts' /\ FreeQueueExact' /\ SharedOnlyCached'
    /\ \A p \in Owners \ {o} : held'[p] = held[p]
    /\ held'[o] = SubSeq(held[o], n + 1, Len(held[o]))
    /\ \A p \in Owners : \A b \in Range(held'[p]) :
         /\ b \in Blocks /\ b \in Range(held[p])
         /\ hash'[b] = newHash[b]
    /\ Range(held'[o]) \subseteq Range(held[o])
    /\ \A b \in isCached : hash'[b] = newHash[b]

\* FreeFirst: the freed blocks lose a reference, the unreferenced ones enter the
\* free queue, and no other row is disturbed.
LEMMA FreeKeeps ==
    ASSUME IInv, NEW o \in Owners, NEW n \in 0..Len(held[o]),
           NEW isCached \in SUBSET Blocks,
           \A b \in Blocks : cached[b] => b \in isCached,
           \A b \in isCached : cached[b] \/ b \in Range(held[o]),
           cached' = [b \in Blocks |-> b \in isCached],
           NEW newHash \in [Blocks -> Keys \cup {NoKey}],
           NEW newStamp \in [Blocks -> Nat],
           FreeFirst(o, n, isCached, newHash, newStamp)
    PROVE  Freed(o, n, isCached, newHash)
<1> DEFINE row == held[o]
           out == {row[i] : i \in 1..n}
           idle == {b \in out : ref[b] = 1}
           plain == idle \ isCached
           left == SubSeq(row, n + 1, Len(row))
<1>1. /\ ref' = [b \in Blocks |-> IF b \in out THEN ref[b] - 1 ELSE ref[b]]
      /\ lru' = lru \cup (idle \cap isCached)
      /\ \E q \in InRowOrder(plain, row) : fifo' = fifo \o q
      /\ hash' = [b \in Blocks |-> IF b \in plain THEN NoKey ELSE newHash[b]]
      /\ stamp' = [b \in Blocks |-> IF b \in plain THEN 0 ELSE newStamp[b]]
      /\ held' = [held EXCEPT ![o] = left]
  BY DEF FreeFirst, LastReferences
<1>2. /\ row \in Seq(Blocks) /\ IsInjective(row) /\ Len(row) \in Nat
      /\ DOMAIN row = 1..Len(row) /\ n \in Nat /\ n <= Len(row)
  <2>1. row \in Seq(Blocks)
    BY DEF IInv, TypeOK
  <2>2. IsInjective(row)
    BY DEF IInv, RefCounts
  <2>3. QED
    BY <2>1, <2>2
<1> HIDE DEF row
<1>3. /\ left \in Seq(Blocks)
      /\ \A i : i \in DOMAIN left <=> i \in Nat \ {0} /\ n + i \in DOMAIN row
      /\ \A i \in DOMAIN left : left[i] = row[n + i]
  <2>1. row \in Seq(Blocks) /\ n \in Nat
    BY <1>2
  <2>2. QED
    BY ONLY <2>1, SuffixProperties
<1> HIDE DEF left
<1>4. IsInjective(left)
  <2>1. SUFFICES ASSUME NEW i \in DOMAIN left, NEW j \in DOMAIN left, left[i] = left[j]
                 PROVE  i = j
    BY DEF IsInjective
  <2>2. i \in Nat /\ j \in Nat /\ n + i = n + j
    BY <1>2, <1>3, <2>1 DEF IsInjective
  <2>3. QED
    BY <1>2, <2>2
<1>5. out \subseteq Range(row) /\ Range(row) \subseteq Blocks
  BY <1>2, SMTT(30) DEF Range
<1>6. Range(left) \subseteq Range(row) \ out
  <2>1. SUFFICES ASSUME NEW i \in DOMAIN left
                 PROVE  left[i] \in Range(row) /\ left[i] \notin out
    BY DEF Range
  <2>2. i \in Nat \ {0} /\ n + i \in DOMAIN row /\ left[i] = row[n + i]
    BY <1>3
  <2>3. ASSUME NEW j \in 1..n, row[j] = left[i]
        PROVE  FALSE
    <3>1. j \in DOMAIN row
      BY <1>2
    <3>2. j = n + i
      BY <1>2, <2>2, <2>3, <3>1 DEF IsInjective
    <3>3. QED
      BY <1>2, <2>2, <3>2
  <2>4. QED
    BY <2>2, <2>3 DEF Range
<1>7. Range(row) \ out \subseteq Range(left)
  <2>1. SUFFICES ASSUME NEW i \in DOMAIN row, row[i] \notin out
                 PROVE  row[i] \in Range(left)
    BY DEF Range
  <2>2. i \in 1..Len(row) /\ ~(i <= n)
    BY <1>2, <2>1
  <2>3. i - n \in Nat \ {0} /\ n + (i - n) = i
    BY <1>2, <2>2
  <2>4. i - n \in DOMAIN left /\ left[i - n] = row[i]
    BY <1>3, <2>3
  <2>5. QED
    BY <2>4 DEF Range
<1>8. /\ held'[o] = left /\ \A p \in Owners \ {o} : held'[p] = held[p]
      /\ held' \in [Owners -> Seq(Blocks)]
  BY <1>1, <1>3 DEF IInv, TypeOK
<1>9. \A p \in Owners : held[p] \in Seq(Blocks) /\ Range(held[p]) \subseteq Blocks
                        /\ IsInjective(held[p])
  <2>1. \A p \in Owners : held[p] \in Seq(Blocks) /\ IsInjective(held[p])
    BY DEF IInv, TypeOK, RefCounts
  <2>2. QED
    BY <2>1 DEF Range
<1>10. \A b \in Blocks : /\ ref[b] \in Nat
                         /\ \A p \in Owners : b \in Range(held[p]) => ref[b] > 0
                         /\ \A p, q \in Owners :
                              b \in Range(held[p]) /\ b \in Range(held[q]) /\ p # q
                                => ref[b] > 1
  BY HeldIsReferenced
<1>11. \A b \in out : b \in Blocks /\ ref[b] > 0 /\ b \in Range(held[o])
  BY <1>5, <1>10 DEF row
<1>12. \A b \in Blocks : ref'[b] = IF b \in out THEN ref[b] - 1 ELSE ref[b]
  BY <1>1
<1> HIDE DEF out
<1>13. ref' \in [Blocks -> Nat]
  <2>1. \A b \in Blocks : ref'[b] \in Nat
    BY <1>10, <1>11, <1>12
  <2>2. QED
    BY <1>1, <2>1
<1>14. RefCounts'
  <2>1. \A p \in Owners : IsInjective(held'[p])
    BY <1>4, <1>8, <1>9
  <2>2. ASSUME NEW b \in Blocks
        PROVE  ref'[b] = Cardinality(Holders(b)')
    <3>1. /\ ref[b] \in Nat /\ ref[b] = Cardinality(Holders(b)) /\ IsFiniteSet(Holders(b))
      BY HoldersFinite DEF IInv, TypeOK, RefCounts, Holders
    <3>2. CASE b \in out
      <4>1. b \notin Range(held'[o])
        BY <1>6, <1>8, <3>2
      <4>2. Holders(b)' = Holders(b) \ {o} /\ o \in Holders(b)
        BY <1>8, <1>11, <3>2, <4>1 DEF Holders
      <4>3. Cardinality(Holders(b) \ {o}) = Cardinality(Holders(b)) - 1
        BY <3>1, <4>2, FS_RemoveElement
      <4>4. QED
        BY <1>12, <3>1, <3>2, <4>2, <4>3
    <3>3. CASE b \notin out
      <4>1. b \in Range(held'[o]) <=> b \in Range(held[o])
        BY <1>6, <1>7, <1>8, <3>3 DEF row
      <4>2. \A p \in Owners : b \in Range(held'[p]) <=> b \in Range(held[p])
        BY <1>8, <4>1
      <4>3. Holders(b)' = Holders(b)
        BY <4>2 DEF Holders
      <4>4. QED
        BY <1>12, <3>1, <3>3, <4>3
    <3>4. QED
      BY <3>2, <3>3
  <2>3. QED
    BY <2>1, <2>2 DEF RefCounts
<1>15. /\ fifo \in Seq(Blocks) /\ IsInjective(fifo)
       /\ Range(fifo) = {b \in Blocks : ref[b] = 0 /\ ~cached[b]}
       /\ lru = {b \in Blocks : ref[b] = 0 /\ cached[b]}
  BY DEF IInv, TypeOK, FreeQueueExact
<1>16. \A b \in Blocks : ref'[b] = 0 <=> ref[b] = 0 \/ b \in idle
  BY <1>10, <1>11, <1>12
<1>17. \A b \in Blocks : ref[b] = 0 => (b \in isCached <=> cached[b])
  BY <1>10
<1>18. PICK q \in InRowOrder(plain, row) : fifo' = fifo \o q
  BY <1>1
<1>19. q \in Seq(Blocks) /\ IsInjective(q) /\ Range(q) = plain
  <2>1. /\ q \in [1..Cardinality(plain) -> plain]
        /\ Range(q) = plain
        /\ \A i, j \in DOMAIN q : i < j => Pos(row, q[i]) < Pos(row, q[j])
    BY <1>18 DEF InRowOrder
  <2>2. plain \in SUBSET Range(row)
    BY <1>5
  <2>3. Cardinality(plain) \in Nat
    <3>1. IsFiniteSet(Range(row))
      <4>1. IsFiniteSet(0..(NumBlocks - 1))
        BY SizesAssumption, FS_Interval
      <4>2. QED
        BY <1>5, <4>1, FS_Subset DEF Blocks
    <3>2. QED
      BY <2>2, <3>1, FS_Subset, FS_CardinalityType
  <2>4. q \in Seq(Blocks) /\ DOMAIN q = 1..Cardinality(plain)
    <3>1. q \in [1..Cardinality(plain) -> Blocks] /\ Cardinality(plain) \in Int
      BY <1>5, <2>1, <2>2, <2>3
    <3> HIDE DEF plain
    <3>2. QED
      BY <3>1, FunctionIsSeq
  <2>5. ASSUME NEW i \in DOMAIN q, NEW j \in DOMAIN q, q[i] = q[j], i < j
        PROVE  FALSE
    <3>1. q[i] \in Range(row)
      BY <2>1, <2>2
    <3>2. \E k \in DOMAIN row : Pos(row, q[i]) = k
      BY <1>2, <3>1, PosOfElement DEF Range
    <3>3. Pos(row, q[i]) \in Nat
      BY <1>2, <3>2
    <3>4. Pos(row, q[i]) < Pos(row, q[i])
      BY <2>1, <2>5
    <3>5. QED
      BY <3>3, <3>4
  <2>6. IsInjective(q)
    <3>1. \A i, j \in DOMAIN q : i \in Nat /\ j \in Nat /\ (q[i] = q[j] => ~(i < j) /\ ~(j < i))
      BY <2>3, <2>4, <2>5
    <3>2. QED
      BY <3>1 DEF IsInjective
  <2>7. QED
    BY <2>1, <2>4, <2>6
<1>20. FreeQueueExact' /\ fifo' \in Seq(Blocks)
  <2>1. Range(fifo) \cap Range(q) = {}
    BY <1>11, <1>15, <1>19
  <2>2. /\ fifo' \in Seq(Blocks) /\ IsInjective(fifo')
        /\ Range(fifo') = Range(fifo) \cup plain
    BY <1>15, <1>18, <1>19, <2>1, ConcatRange
  <2>3. \A b \in Blocks : cached'[b] <=> b \in isCached
    OBVIOUS
  <2>4. idle \subseteq Blocks
    BY <1>11
  <2>5. Range(fifo') = {b \in Blocks : ref'[b] = 0 /\ ~cached'[b]}
    BY <1>15, <1>16, <1>17, <2>2, <2>3, <2>4
  <2>6. lru' = {b \in Blocks : ref'[b] = 0 /\ cached'[b]}
    BY <1>1, <1>15, <1>16, <1>17, <2>3, <2>4
  <2>7. QED
    BY <2>2, <2>5, <2>6 DEF FreeQueueExact
<1>21. SharedOnlyCached'
  <2>1. SUFFICES ASSUME NEW b \in Blocks, ~cached'[b]
                 PROVE  ref'[b] <= 1
    BY DEF SharedOnlyCached
  <2>2. ref[b] <= 1
    BY <2>1 DEF IInv, SharedOnlyCached
  <2>3. QED
    BY <1>10, <1>11, <1>12, <2>2
<1>22. \A p \in Owners : \A b \in Range(held'[p]) :
          /\ b \in Blocks /\ b \in Range(held[p])
          /\ b \notin plain
  <2>1. SUFFICES ASSUME NEW p \in Owners, NEW b \in Range(held'[p])
                 PROVE  b \in Blocks /\ b \in Range(held[p]) /\ b \notin plain
    OBVIOUS
  <2>2. CASE p = o
    BY <1>5, <1>6, <1>8, <2>1, <2>2 DEF row
  <2>3. CASE p # o
    <3>1. b \in Range(held[p]) /\ b \in Blocks
      BY <1>8, <1>9, <2>1, <2>3
    <3>2. b \notin plain
      <4>1. SUFFICES ASSUME b \in out, ref[b] = 1
                     PROVE  FALSE
        OBVIOUS
      <4>2. ref[b] > 1
        BY <1>10, <1>11, <2>3, <3>1, <4>1
      <4>3. QED
        BY <4>1, <4>2
    <3>3. QED
      BY <3>1, <3>2
  <2>4. QED
    BY <2>2, <2>3
<1>23. \A b \in Blocks : b \notin plain => hash'[b] = newHash[b]
  BY <1>1
<1>24. /\ hash' \in [Blocks -> Keys \cup {NoKey}]
       /\ stamp' \in [Blocks -> Nat]
       /\ cached' \in [Blocks -> BOOLEAN]
       /\ lru' \in SUBSET Blocks
  BY <1>1, <1>11, <1>15
<1>25. QED
  BY <1>8, <1>13, <1>14, <1>20, <1>21, <1>22, <1>23, <1>24
     DEF left, row, Freed

-----------------------------------------------------------------------------
(* Keys and registration *)

\* The keys a request may register start with its input keys.
LEMMA ChainType ==
    ASSUME NEW r \in Reqs
    PROVE  /\ InputKeys[r] \in Seq(Keys) /\ Chain(r) \in Seq(Keys)
           /\ Len(InputKeys[r]) \in Nat /\ Len(Chain(r)) \in Nat
           /\ DOMAIN InputKeys[r] = 1..Len(InputKeys[r])
           /\ DOMAIN Chain(r) = 1..Len(Chain(r))
           /\ \A i \in DOMAIN InputKeys[r] :
                i \in DOMAIN Chain(r) /\ Chain(r)[i] = InputKeys[r][i]
<1>1. /\ InputKeys[r] \in Seq(Keys) /\ OutputKeys[r] \in Seq(Keys)
      /\ DecodeLen[r] \in Nat /\ BlockSize \in Nat \ {0}
  BY RequestsAssumption, SizesAssumption
<1>2. RegistrableOutput(r) \in Seq(Keys)
  <2>1. DecodeLen[r] \div BlockSize \in Int
    BY <1>1
  <2> DEFINE m == Lesser(Len(OutputKeys[r]), DecodeLen[r] \div BlockSize)
  <2>2. m \in Int /\ m <= Len(OutputKeys[r]) /\ Len(OutputKeys[r]) \in Nat
    BY <1>1, <2>1 DEF Lesser
  <2> HIDE DEF m
  <2>3. \A i \in 1..m : OutputKeys[r][i] \in Keys
    BY <1>1, <2>2
  <2>4. SubSeq(OutputKeys[r], 1, m) \in Seq(Keys)
    BY <2>2, <2>3, SubSeqProperties
  <2>5. QED
    BY <2>4 DEF RegistrableOutput, m
<1> DEFINE s == InputKeys[r]
           t == RegistrableOutput(r)
<1>3. s \in Seq(Keys) /\ t \in Seq(Keys) /\ Chain(r) = s \o t
  BY <1>1, <1>2 DEF Chain
<1> HIDE DEF s, t
<1>4. /\ Chain(r) \in Seq(Keys) /\ Len(Chain(r)) = Len(s) + Len(t)
      /\ \A i \in 1..Len(s) + Len(t) :
            Chain(r)[i] = IF i <= Len(s) THEN s[i] ELSE t[i - Len(s)]
  BY <1>3, ConcatProperties
<1>5. /\ Len(s) \in Nat /\ Len(t) \in Nat /\ DOMAIN s = 1..Len(s)
      /\ DOMAIN Chain(r) = 1..Len(Chain(r)) /\ Len(Chain(r)) \in Nat
  BY <1>3, <1>4
<1>6. \A i \in DOMAIN s : i \in DOMAIN Chain(r) /\ Chain(r)[i] = s[i]
  BY <1>4, <1>5
<1>7. QED
  BY <1>3, <1>5, <1>6, <1>4 DEF s

\* Registering r's blocks at the positions I gives each its key, makes the index
\* offer only blocks that carry the key asked for, and changes nothing that
\* another row relies on: what it shares it had registered before, under the
\* same key.
LEMMA RegisterKeeps ==
    ASSUME IInv, NEW r \in Reqs,
           NEW I, I \subseteq DOMAIN held[r], I \subseteq DOMAIN Chain(r)
    PROVE  /\ Registered(r, I) \subseteq Range(held[r])
           /\ Registered(r, I) \subseteq Blocks
           /\ RegisteredHash(r, I) \in [Blocks -> Keys \cup {NoKey}]
           /\ RegisteredIndex(r, I) \in [Keys -> Blocks \cup {NoBlock}]
           /\ \A k \in Keys :
                LET b == RegisteredIndex(r, I)[k]
                IN  b # NoBlock => /\ cached[b] \/ b \in Registered(r, I)
                                   /\ RegisteredHash(r, I)[b] = k
           /\ \A i \in I : /\ held[r][i] \in Registered(r, I)
                           /\ RegisteredHash(r, I)[held[r][i]] = Chain(r)[i]
           /\ \A b \in Blocks \ Registered(r, I) : RegisteredHash(r, I)[b] = hash[b]
           /\ \A p \in Owners \ {r} : \A b \in Range(held[p]) :
                /\ b \in Blocks
                /\ RegisteredHash(r, I)[b] = hash[b]
                /\ b \in Registered(r, I) => cached[b]
<1> DEFINE row == held[r]
           R == Registered(r, I)
           newHash == RegisteredHash(r, I)
<1>1. /\ r \in Owners /\ row \in Seq(Blocks) /\ IsInjective(row)
      /\ DOMAIN row = 1..Len(row) /\ Len(row) \in Nat
  BY DEF IInv, TypeOK, RefCounts, Owners
<1>2. R = {row[i] : i \in I} /\ \A i \in I : i \in DOMAIN row /\ row[i] \in Blocks
  BY <1>1 DEF Registered
<1>3. R \subseteq Range(row) /\ R \subseteq Blocks
  BY <1>2 DEF Range
<1>4. \A i \in I : row[i] \in R /\ Pos(row, row[i]) = i
  BY <1>1, <1>2, PosOfElement
<1>5. \A i \in I : Chain(r)[i] \in Keys
  BY ChainType
<1>6. \A b \in Blocks : newHash[b] = IF b \in R THEN Chain(r)[Pos(row, b)] ELSE hash[b]
  BY DEF RegisteredHash
<1>7. \A i \in I : newHash[row[i]] = Chain(r)[i]
  BY <1>2, <1>4, <1>6
<1>8. newHash \in [Blocks -> Keys \cup {NoKey}]
  <2>1. \A b \in R : newHash[b] \in Keys
    BY <1>2, <1>5, <1>7
  <2>2. \A b \in Blocks : hash[b] \in Keys \cup {NoKey}
    BY DEF IInv, TypeOK
  <2>3. \A b \in Blocks : newHash[b] \in Keys \cup {NoKey}
    BY <1>6, <2>1, <2>2
  <2>4. QED
    BY <2>3 DEF RegisteredHash
<1> DEFINE rekeyed == {b \in R : hash[b] # NoKey /\ hash[b] # Chain(r)[Pos(row, b)]}
<1>9. \A k \in Keys : RegisteredIndex(r, I)[k] =
          IF \E i \in I : Chain(r)[i] = k
          THEN row[CHOOSE i \in I : Chain(r)[i] = k] ELSE Evicted(rekeyed)[k]
  BY DEF RegisteredIndex
<1>10. ASSUME NEW k \in Keys
       PROVE  LET b == RegisteredIndex(r, I)[k]
              IN  /\ b \in Blocks \cup {NoBlock}
                  /\ b # NoBlock => (cached[b] \/ b \in R) /\ newHash[b] = k
  <2>1. CASE \E i \in I : Chain(r)[i] = k
    <3>1. PICK i \in I : Chain(r)[i] = k /\ RegisteredIndex(r, I)[k] = row[i]
      BY <1>9, <2>1
    <3>2. row[i] \in Blocks /\ row[i] \in R /\ newHash[row[i]] = k
      BY <1>2, <1>4, <1>7, <3>1
    <3>3. QED
      BY <3>1, <3>2
  <2>2. CASE ~\E i \in I : Chain(r)[i] = k
    <3>1. RegisteredIndex(r, I)[k] =
            IF index[k] \in rekeyed /\ cached[index[k]] /\ hash[index[k]] = k
            THEN NoBlock ELSE index[k]
      BY <1>9, <2>2 DEF Evicted
    <3>2. index[k] \in Blocks \cup {NoBlock}
          /\ (index[k] # NoBlock => cached[index[k]] /\ hash[index[k]] = k)
      BY DEF IInv, TypeOK, IndexSound
    <3>3. CASE RegisteredIndex(r, I)[k] = NoBlock
      BY <3>3
    <3>4. CASE RegisteredIndex(r, I)[k] # NoBlock
      <4>1. /\ RegisteredIndex(r, I)[k] = index[k] /\ index[k] \in Blocks
            /\ cached[index[k]] /\ hash[index[k]] = k /\ index[k] \notin rekeyed
        BY <3>1, <3>2, <3>4
      <4>2. index[k] \notin R
        <5>1. SUFFICES ASSUME index[k] \in R
                       PROVE  FALSE
          OBVIOUS
        <5>2. PICK i \in I : index[k] = row[i] /\ Pos(row, index[k]) = i
          BY <1>2, <1>4, <5>1
        <5>3. Chain(r)[i] # k /\ k # NoKey
          BY <2>2, RequestsAssumption
        <5>4. QED
          BY <4>1, <5>1, <5>2, <5>3
      <4>3. QED
        BY <1>6, <4>1, <4>2
    <3>5. QED
      BY <3>3, <3>4
  <2>3. QED
    BY <2>1, <2>2
<1>11. RegisteredIndex(r, I) \in [Keys -> Blocks \cup {NoBlock}]
  <2>1. RegisteredIndex(r, I) = [k \in Keys |-> RegisteredIndex(r, I)[k]]
    BY DEF RegisteredIndex
  <2>2. QED
    BY <1>10, <2>1
<1>12. ASSUME NEW p \in Owners \ {r}, NEW b \in Range(held[p])
       PROVE  b \in Blocks /\ newHash[b] = hash[b] /\ (b \in R => cached[b])
  <2>1. b \in Blocks
    BY DEF IInv, TypeOK, Range
  <2>2. CASE b \notin R
    BY <1>6, <2>1, <2>2
  <2>3. CASE b \in R
    <3>1. ref[b] > 1 /\ ref[b] \in Nat
      BY <1>1, <1>3, <2>1, <2>3, HeldIsReferenced
    <3>2. cached[b]
      BY <2>1, <3>1 DEF IInv, SharedOnlyCached
    <3>3. PICK i \in I : b = row[i]
      BY <1>2, <2>3
    <3>4. i \in DOMAIN held[r]
      BY <1>2
    <3>5. i <= Len(InputKeys[r]) /\ hash[b] = InputKeys[r][i]
      BY <3>2, <3>3, <3>4 DEF IInv, RowsKeepKeys, RowKeepsKeys
    <3>6. i \in DOMAIN InputKeys[r]
      BY <1>1, <3>4, <3>5, ChainType
    <3>7. newHash[b] = hash[b]
      BY <1>7, <3>3, <3>5, <3>6, ChainType
    <3>8. QED
      BY <2>1, <3>2, <3>7
  <2>4. QED
    BY <2>2, <2>3
<1>13. QED
  BY <1>3, <1>4, <1>6, <1>7, <1>8, <1>10, <1>11, <1>12

\* The stamps registration gives are accesses after the clock.
LEMMA RegisterStamps ==
    ASSUME IInv, NEW r \in Reqs, NEW first \in Nat \ {0}, NEW last \in Int,
           last <= Len(held[r])
    PROVE  LET I == first..last
           IN  /\ I \subseteq DOMAIN held[r]
               /\ RegisteredStamp(r, I, first) \in [Blocks -> Nat]
               /\ clock + Cardinality(I) \in Nat
<1> DEFINE I == first..last
           row == held[r]
<1>1. /\ row \in Seq(Blocks) /\ IsInjective(row) /\ Len(row) \in Nat
      /\ DOMAIN row = 1..Len(row) /\ clock \in Nat /\ stamp \in [Blocks -> Nat]
  BY DEF IInv, TypeOK, RefCounts, Owners
<1>2. I \subseteq DOMAIN row
  BY <1>1
<1>3. \A b \in Registered(r, I) : \E i \in I : Pos(row, b) = i
  BY <1>1, <1>2, PosOfElement DEF Registered
<1>4. \A b \in Registered(r, I) : clock + 1 + Pos(row, b) - first \in Nat
  BY <1>1, <1>3
<1>5. RegisteredStamp(r, I, first) \in [Blocks -> Nat]
  BY <1>1, <1>4 DEF RegisteredStamp
<1>6. Cardinality(I) \in Nat
  <2>1. IsFiniteSet(I)
    BY FS_Interval
  <2>2. QED
    BY <2>1, FS_CardinalityType
<1>7. QED
  BY <1>1, <1>2, <1>5, <1>6

-----------------------------------------------------------------------------
(* The operations preserve the invariant *)

\* A fresh pool, every block unused and in the queue, satisfies the invariant.
LEMMA InitIInv == Init => IInv
<1> SUFFICES ASSUME Init PROVE IInv
  OBVIOUS
<1>1. /\ \A b \in Blocks : ref[b] = 0 /\ ~cached[b] /\ hash[b] = NoKey
      /\ \A o \in Owners : held[o] = <<>>
      /\ \A k \in Keys : index[k] = NoBlock
      /\ lru = {} /\ fifo = [i \in 1..NumBlocks |-> i - 1]
  BY DEF Init
<1>2. NumBlocks \in Nat /\ Blocks = 0..(NumBlocks - 1)
  BY SizesAssumption DEF Blocks
<1>3. fifo \in Seq(Blocks) /\ DOMAIN fifo = 1..NumBlocks
      /\ \A i \in 1..NumBlocks : fifo[i] = i - 1
  <2>1. fifo \in [1..NumBlocks -> Blocks]
    BY <1>1, <1>2
  <2>2. QED
    BY <1>1, <1>2, <2>1, FunctionIsSeq
<1>4. TypeOK
  BY <1>3 DEF Init, TypeOK
<1>5. RefCounts
  <2>1. \A b \in Blocks : Holders(b) = {}
    BY <1>1 DEF Holders, Range
  <2>2. \A o \in Owners : IsInjective(held[o])
    <3>1. \A o \in Owners : DOMAIN held[o] = {}
      BY <1>1
    <3>2. QED
      BY <3>1 DEF IsInjective
  <2>3. QED
    BY <1>1, <2>1, <2>2, FS_EmptySet DEF RefCounts
<1>6. FreeQueueExact
  <2>1. IsInjective(fifo)
    BY <1>2, <1>3 DEF IsInjective
  <2>2. \A b \in Blocks : b + 1 \in 1..NumBlocks /\ fifo[b + 1] = b
    BY <1>2, <1>3
  <2>3. Blocks \subseteq Range(fifo)
    BY <1>3, <2>2 DEF Range
  <2>4. Range(fifo) \subseteq Blocks
    <3>1. \A i \in 1..NumBlocks : fifo[i] \in Blocks
      BY <1>2, <1>3
    <3>2. QED
      BY <1>3, <3>1 DEF Range
  <2>5. QED
    BY <1>1, <2>1, <2>3, <2>4 DEF FreeQueueExact
<1>7. IndexSound /\ SharedOnlyCached
  BY <1>1 DEF IndexSound, SharedOnlyCached
<1>8. RowsKeepKeys
  <2>1. \A o \in Owners : held[o] = <<>> /\ DOMAIN held[o] = {}
    BY <1>1
  <2>2. QED
    BY <2>1 DEF RowsKeepKeys, RowKeepsKeys, Owners, Range
<1>9. QED
  BY <1>4, <1>5, <1>6, <1>7, <1>8 DEF IInv

\* The blocks plan_reuse finds for a request are its own prefix: each carries
\* the key asked for, so no block is found twice.
LEMMA HitsAreThePrefix ==
    ASSUME IInv, NEW r \in Reqs, NEW h \in 0..Len(InputKeys[r]), IsHitCount(r, h)
    PROVE  /\ HitBlocks(r, h) \in Seq(Blocks)
           /\ DOMAIN HitBlocks(r, h) = 1..h /\ Len(HitBlocks(r, h)) = h
           /\ IsInjective(HitBlocks(r, h))
           /\ \A i \in 1..h : /\ cached[HitBlocks(r, h)[i]]
                              /\ hash[HitBlocks(r, h)[i]] = InputKeys[r][i]
<1>1. h \in Nat /\ \A i \in 1..h : i \in DOMAIN InputKeys[r] /\ InputKeys[r][i] \in Keys
  BY ChainType
<1>2. \A i \in 1..h : IsHit(InputKeys[r][i])
  BY DEF IsHitCount
<1>3. \A i \in 1..h : LET b == index[InputKeys[r][i]]
                      IN  b \in Blocks /\ cached[b] /\ hash[b] = InputKeys[r][i]
  BY <1>1, <1>2 DEF IsHit, IInv, TypeOK, IndexSound
<1>4. \A i \in 1..h : HitBlocks(r, h)[i] = index[InputKeys[r][i]]
  BY DEF HitBlocks
<1>5. HitBlocks(r, h) \in [1..h -> Blocks]
  BY <1>3 DEF HitBlocks
<1>6. \A i, j \in 1..h : InputKeys[r][i] = InputKeys[r][j] => i = j
  BY <1>1, ChainType, KeyChainAssumption
<1>7. IsInjective(HitBlocks(r, h))
  BY <1>3, <1>4, <1>5, <1>6 DEF IsInjective
<1>8. QED
  BY <1>1, <1>3, <1>4, <1>5, <1>7, FunctionIsSeq

\* A larger number of tokens fills at least as many blocks.
LEMMA DivMonotonic ==
    ASSUME NEW x \in Nat, NEW y \in Nat, NEW n \in Nat \ {0}, x <= y
    PROVE  x \div n \in Int /\ y \div n \in Int /\ x \div n <= y \div n
<1>1. PICK p \in Int, q \in Int : p = x \div n /\ q = y \div n
  OBVIOUS
<1>2. p * n <= x /\ y < (q + 1) * n
  BY <1>1
<1>3. ASSUME q + 1 <= p
      PROVE  FALSE
  <2>1. (q + 1) * n <= p * n
    BY <1>3
  <2>2. QED
    BY <1>2, <2>1
<1>4. QED
  BY <1>1, <1>3

\* A request's tokens need at least the blocks of its keyed prompt.
LEMMA LogicalCoversInput ==
    ASSUME IInv, NEW r \in Reqs
    PROVE  NumLogical(r) \in Int /\ Len(InputKeys[r]) <= NumLogical(r)
<1> DEFINE y == PrefillLen[r] + gen[r] + BlockSize - 1
<1>1. /\ gen[r] \in Nat /\ PrefillLen[r] \in Nat /\ BlockSize \in Nat \ {0}
      /\ y \in Nat /\ PrefillLen[r] <= y
  BY RequestsAssumption, SizesAssumption DEF IInv, TypeOK
<1> HIDE DEF y
<1>2. /\ PrefillLen[r] \div BlockSize \in Int /\ y \div BlockSize \in Int
      /\ PrefillLen[r] \div BlockSize <= y \div BlockSize
  BY <1>1, DivMonotonic
<1>3. Len(InputKeys[r]) <= PrefillLen[r] \div BlockSize /\ Len(InputKeys[r]) \in Nat
  BY ChainType, RequestsAssumption
<1>4. NumLogical(r) = y \div BlockSize
  BY DEF NumLogical, y
<1>5. QED
  BY <1>2, <1>3, <1>4

\* A row whose owner keeps it and whose blocks keep their metadata still carries
\* its keys.
LEMMA UndisturbedRow ==
    ASSUME IInv, NEW p \in Reqs,
           held'[p] = held[p], committed'[p] = committed[p],
           \A b \in Range(held[p]) : hash'[b] = hash[b] /\ cached'[b] = cached[b]
    PROVE  RowKeepsKeys(p)'
BY DEF IInv, RowsKeepKeys, RowKeepsKeys, Range

\* Admission keeps the invariant: acquired hits keep their keys, popped misses
\* carry the keys of the rest of the prompt.
LEMMA AllocateIInv ==
    ASSUME IInv, NEW r \in Reqs, Allocate(r)
    PROVE  IInv'
<1>1. PICK h \in 0..Len(InputKeys[r]) :
         /\ IsHitCount(r, h)
         /\ \E new \in [1..MissCount(r, h) -> Blocks] :
              Take(r, HitBlocks(r, h), new,
                   [i \in DOMAIN new |-> IF h + i <= Len(InputKeys[r])
                                         THEN InputKeys[r][h + i] ELSE NoKey])
  BY DEF Allocate
<1>2. PICK new \in [1..MissCount(r, h) -> Blocks] :
         Take(r, HitBlocks(r, h), new,
              [i \in DOMAIN new |-> IF h + i <= Len(InputKeys[r])
                                    THEN InputKeys[r][h + i] ELSE NoKey])
  BY <1>1
<1> DEFINE hits == HitBlocks(r, h)
           n == Len(InputKeys[r])
           newHash == [i \in DOMAIN new |-> IF h + i <= n THEN InputKeys[r][h + i] ELSE NoKey]
<1>3. n \in Nat /\ h \in Nat /\ h <= n /\ DOMAIN InputKeys[r] = 1..n
      /\ InputKeys[r] \in Seq(Keys)
  BY ChainType
<1>4. /\ new \in Seq(Blocks) /\ DOMAIN new = 1..MissCount(r, h)
      /\ MissCount(r, h) \in Int
  BY <1>3, LogicalCoversInput, FunctionIsSeq DEF MissCount
<1>5. newHash \in [DOMAIN new -> Keys \cup {NoKey}]
  <2>1. ASSUME NEW i \in DOMAIN new, h + i <= n
        PROVE  InputKeys[r][h + i] \in Keys
    <3>1. h + i \in DOMAIN InputKeys[r]
      BY <1>3, <1>4, <2>1
    <3>2. QED
      BY <1>3, <3>1
  <2>2. QED
    BY <2>1
<1>6. /\ hits \in Seq(Blocks) /\ DOMAIN hits = 1..h /\ Len(hits) = h /\ IsInjective(hits)
      /\ \A i \in 1..h : cached[hits[i]] /\ hash[hits[i]] = InputKeys[r][i]
  BY <1>1, HitsAreThePrefix
<1>7. r \in Owners /\ held[r] = <<>> /\ Range(held[r]) = {}
  BY DEF Allocate, Owners, Range
<1>8. \A b \in Range(hits) : cached[b] /\ b \notin Range(held[r])
  BY <1>6, <1>7 DEF Range
<1>9. Take(r, hits, new, newHash)
  BY <1>2
<1> HIDE DEF hits, newHash
<1>10. Taken(r, hits, new, newHash)
  BY <1>4, <1>5, <1>6, <1>7, <1>8, <1>9, TakeKeeps
<1>11. gen' = gen /\ committed' = [committed EXCEPT ![r] = FALSE]
  BY DEF Allocate
<1>12. TypeOK'
  BY <1>10, <1>11 DEF IInv, TypeOK, Taken
<1>13. \A p \in Owners \ {r} : \A b \in Range(held[p]) :
          hash'[b] = hash[b] /\ cached'[b] = cached[b]
  <2>1. \A p \in Owners : Range(held[p]) \subseteq Blocks
    BY DEF IInv, TypeOK, Range
  <2>2. QED
    BY <1>10, <2>1 DEF Taken
<1>14. ASSUME NEW p \in Reqs, p # r
       PROVE  RowKeepsKeys(p)'
  <2>1. p \in Owners \ {r} /\ held'[p] = held[p]
    BY <1>10, <1>14 DEF Owners, Taken
  <2>2. committed'[p] = committed[p]
    BY <1>11, <1>14 DEF IInv, TypeOK
  <2>3. QED
    BY <1>13, <2>1, <2>2, UndisturbedRow
<1>15. held'[r] = hits \o new
  <2>1. held'[r] = (<<>> \o hits) \o new
    BY <1>7, <1>10 DEF Taken
  <2>2. QED
    BY <1>6, <2>1, ConcatEmptySeq
<1>16. /\ Len(new) \in Nat /\ DOMAIN new = 1..Len(new)
      /\ Len(held'[r]) = h + Len(new) /\ DOMAIN held'[r] = 1..(h + Len(new))
      /\ \A j \in 1..(h + Len(new)) :
            held'[r][j] = IF j <= h THEN hits[j] ELSE new[j - h]
  <2>1. Len(new) \in Nat /\ DOMAIN new = 1..Len(new)
    BY <1>4
  <2>2. /\ hits \o new \in Seq(Blocks) /\ Len(hits \o new) = Len(hits) + Len(new)
        /\ \A j \in 1..(Len(hits) + Len(new)) :
              (hits \o new)[j] = IF j <= Len(hits) THEN hits[j] ELSE new[j - Len(hits)]
    <3>1. hits \in Seq(Blocks) /\ new \in Seq(Blocks)
      BY <1>4, <1>6
    <3>2. QED
      BY ONLY <3>1, ConcatProperties
  <2>3. DOMAIN (hits \o new) = 1..Len(hits \o new)
    BY <2>2
  <2>4. QED
    BY <1>6, <1>15, <2>1, <2>2, <2>3
<1>17. ASSUME NEW i \in DOMAIN held'[r]
       PROVE  IF i <= n
              THEN hash'[held'[r][i]] = InputKeys[r][i] /\ ~committed'[r]
              ELSE hash'[held'[r][i]] = NoKey /\ ~cached'[held'[r][i]]
  <2>3. ~committed'[r]
    BY <1>11 DEF IInv, TypeOK
  <2>4. CASE i <= h
    <3>1. i \in 1..h /\ held'[r][i] = hits[i] /\ i <= n
      BY <1>3, <1>16, <2>4
    <3>2. hits[i] \in Blocks \ Range(new)
      <4>1. hits[i] \in Range(hits) /\ hits[i] \in Blocks
        BY <1>6, <3>1 DEF Range
      <4>2. QED
        BY <1>10, <4>1 DEF Taken
    <3>3. hash'[hits[i]] = InputKeys[r][i]
      BY <1>6, <1>10, <3>1, <3>2, ZenonT(30) DEF Taken
    <3>4. QED
      BY <2>3, <3>1, <3>3
  <2>5. CASE ~(i <= h)
    <3>1. i - h \in DOMAIN new /\ held'[r][i] = new[i - h] /\ h + (i - h) = i
      BY <1>3, <1>16, <2>5
    <3>2. hash'[new[i - h]] = IF i <= n THEN InputKeys[r][i] ELSE NoKey
      BY <1>10, <3>1 DEF newHash, Taken
    <3>3. ~cached'[new[i - h]]
      BY <1>10, <3>1 DEF Taken
    <3>4. QED
      BY <2>3, <3>1, <3>2, <3>3
  <2>6. QED
    BY <2>4, <2>5
<1>18. n <= Len(held'[r])
  <2>1. MissCount(r, h) = NumLogical(r) - h /\ n <= NumLogical(r) /\ NumLogical(r) \in Int
    BY LogicalCoversInput DEF MissCount
  <2>2. Len(new) = IF MissCount(r, h) >= 0 THEN MissCount(r, h) ELSE 0
    BY <1>4, FunctionIsSeq
  <2>3. QED
    BY <1>3, <1>16, <2>1, <2>2
<1>19. \A b \in Range(held'[Reserve]) : hash'[b] = NoKey /\ ~cached'[b]
  <2>1. Reserve \in Owners \ {r}
    BY RequestsAssumption DEF Owners
  <2>2. QED
    <3>1. held'[Reserve] = held[Reserve]
      BY <1>10, <2>1 DEF Taken
    <3>2. \A b \in Range(held[Reserve]) : hash[b] = NoKey /\ ~cached[b]
      BY DEF IInv, RowsKeepKeys
    <3>3. QED
      BY <1>13, <2>1, <3>1, <3>2
<1>20. RowsKeepKeys'
  BY <1>14, <1>17, <1>18, <1>19 DEF RowsKeepKeys, RowKeepsKeys
<1>21. QED
  BY <1>10, <1>12, <1>20 DEF IInv, Taken

\* append_slot and reserve_gpu_blocks pop blocks for one owner without reuse.
LEMMA TakePlain ==
    ASSUME IInv, NEW o \in Owners, NEW n \in Int, NEW new \in [1..n -> Blocks],
           NEW newHash \in [DOMAIN new -> {NoKey}], Take(o, <<>>, new, newHash)
    PROVE  /\ Taken(o, <<>>, new, newHash)
           /\ held'[o] = held[o] \o new
           /\ \A i \in DOMAIN new : hash'[new[i]] = NoKey /\ ~cached'[new[i]]
           /\ new \in Seq(Blocks)
           /\ \A p \in Owners : \A b \in Range(held[p]) :
                hash'[b] = hash[b] /\ cached'[b] = cached[b]
<1>1. new \in Seq(Blocks) /\ newHash \in [DOMAIN new -> Keys \cup {NoKey}]
  BY FunctionIsSeq
<1>2. /\ <<>> \in Seq(Blocks) /\ IsInjective(<<>>) /\ Range(<<>>) = {}
  BY DEF IsInjective, Range
<1>3. Taken(o, <<>>, new, newHash)
  BY <1>1, <1>2, TakeKeeps
<1>4. held[o] \in Seq(Blocks) /\ \A p \in Owners : Range(held[p]) \subseteq Blocks
  BY DEF IInv, TypeOK, Range
<1>5. held'[o] = held[o] \o new
  <2>1. held'[o] = (held[o] \o <<>>) \o new
    BY <1>3 DEF Taken
  <2>2. QED
    BY <1>4, <2>1, ConcatEmptySeq
<1>6. \A p \in Owners : \A b \in Range(held[p]) : hash'[b] = hash[b] /\ cached'[b] = cached[b]
  BY <1>3, <1>4 DEF Taken
<1>7. \A i \in DOMAIN new : hash'[new[i]] = NoKey /\ ~cached'[new[i]]
  BY <1>3 DEF Taken
<1>8. QED
  BY <1>1, <1>3, <1>5, <1>6, <1>7

\* A new decode block keeps the invariant: it carries no key.
LEMMA AppendSlotIInv ==
    ASSUME IInv, NEW r \in Reqs, AppendSlot(r)
    PROVE  IInv'
<1>1. PICK new \in [1..1 -> Blocks] : Take(r, <<>>, new, <<NoKey>>)
  BY DEF AppendSlot
<1>2. /\ held[r] # <<>> /\ committed' = committed /\ gen' = gen
      /\ r \in Owners /\ held[r] \in Seq(Blocks)
  BY DEF AppendSlot, IInv, TypeOK, Owners
<1> DEFINE newHash == <<NoKey>>
           one == 1
<1>9. /\ Take(r, <<>>, new, newHash) /\ newHash \in [DOMAIN new -> {NoKey}]
      /\ one \in Int /\ new \in [1..one -> Blocks]
  BY <1>1
<1> HIDE DEF newHash, one
<1>3. /\ Taken(r, <<>>, new, newHash)
      /\ held'[r] = held[r] \o new
      /\ \A i \in DOMAIN new : hash'[new[i]] = NoKey /\ ~cached'[new[i]]
      /\ new \in Seq(Blocks)
      /\ \A p \in Owners : \A b \in Range(held[p]) :
           hash'[b] = hash[b] /\ cached'[b] = cached[b]
  BY <1>2, <1>9, TakePlain
<1>4. TypeOK'
  BY <1>2, <1>3 DEF IInv, TypeOK, Taken
<1>5. ASSUME NEW p \in Reqs, p # r
      PROVE  RowKeepsKeys(p)'
  BY <1>2, <1>3, <1>5, UndisturbedRow DEF Owners, Taken
<1>6. RowKeepsKeys(r)'
  <2> DEFINE row == held[r]
  <2>1. /\ Len(row) \in Nat /\ DOMAIN row = 1..Len(row) /\ Len(new) = 1 /\ DOMAIN new = 1..1
    BY <1>2, <1>3
  <2>2. /\ row \o new \in Seq(Blocks) /\ Len(row \o new) = Len(row) + Len(new)
        /\ \A i \in 1..(Len(row) + Len(new)) :
              (row \o new)[i] = IF i <= Len(row) THEN row[i] ELSE new[i - Len(row)]
    <3>1. row \in Seq(Blocks) /\ new \in Seq(Blocks)
      BY <1>2, <1>3
    <3>2. QED
      BY ONLY <3>1, ConcatProperties
  <2>3. DOMAIN (row \o new) = 1..Len(row \o new)
    BY <2>2
  <2>4. /\ Len(held'[r]) = Len(row) + 1 /\ DOMAIN held'[r] = 1..(Len(row) + 1)
        /\ \A i \in 1..Len(row) : held'[r][i] = row[i]
        /\ held'[r][Len(row) + 1] = new[1]
    <3>1. Len(row) + 1 \in 1..(Len(row) + Len(new)) /\ ~(Len(row) + 1 <= Len(row))
          /\ (Len(row) + 1) - Len(row) = 1
      BY <2>1
    <3>2. QED
      BY <1>3, <2>1, <2>2, <2>3, <3>1
  <2>5. /\ Len(InputKeys[r]) \in Nat /\ Len(InputKeys[r]) <= Len(row)
        /\ \A i \in DOMAIN row :
             IF i <= Len(InputKeys[r])
             THEN hash[row[i]] = InputKeys[r][i] /\ (committed[r] => cached[row[i]])
             ELSE hash[row[i]] = NoKey /\ ~cached[row[i]]
    BY <1>2, ChainType DEF IInv, RowsKeepKeys, RowKeepsKeys
  <2>6. ASSUME NEW i \in 1..Len(row)
        PROVE  IF i <= Len(InputKeys[r])
               THEN /\ hash'[held'[r][i]] = InputKeys[r][i]
                    /\ committed'[r] => cached'[held'[r][i]]
               ELSE hash'[held'[r][i]] = NoKey /\ ~cached'[held'[r][i]]
    <3>1. row[i] \in Range(held[r]) /\ i \in DOMAIN row
      BY <2>1 DEF Range
    <3>2. hash'[row[i]] = hash[row[i]] /\ cached'[row[i]] = cached[row[i]]
      BY <1>2, <1>3, <3>1
    <3>3. QED
      BY <1>2, <2>4, <2>5, <3>1, <3>2
  <2>7. hash'[new[1]] = NoKey /\ ~cached'[new[1]]
    BY <1>3, <2>1
  <2>8. \A i \in DOMAIN held'[r] :
           IF i <= Len(InputKeys[r])
           THEN /\ hash'[held'[r][i]] = InputKeys[r][i]
                /\ committed'[r] => cached'[held'[r][i]]
           ELSE hash'[held'[r][i]] = NoKey /\ ~cached'[held'[r][i]]
    <3>1. ASSUME NEW i \in DOMAIN held'[r], ~(i \in 1..Len(row))
          PROVE  /\ ~(i <= Len(InputKeys[r]))
                 /\ hash'[held'[r][i]] = NoKey /\ ~cached'[held'[r][i]]
      <4>1. i = Len(row) + 1
        BY <2>1, <2>4, <3>1
      <4>2. QED
        BY <2>1, <2>4, <2>5, <2>7, <4>1
    <3>2. QED
      BY <2>6, <3>1
  <2>9. Len(InputKeys[r]) <= Len(held'[r])
    BY <2>1, <2>4, <2>5
  <2>10. QED
    BY <2>8, <2>9 DEF RowKeepsKeys
<1>7. \A b \in Range(held'[Reserve]) : hash'[b] = NoKey /\ ~cached'[b]
  <2>1. Reserve \in Owners \ {r}
    BY RequestsAssumption DEF Owners
  <2>2. held'[Reserve] = held[Reserve]
    BY <1>3, <2>1 DEF Taken
  <2>3. \A b \in Range(held[Reserve]) : hash[b] = NoKey /\ ~cached[b]
    BY DEF IInv, RowsKeepKeys
  <2>4. QED
    BY <1>3, <2>1, <2>2, <2>3
<1>8. QED
  BY <1>3, <1>4, <1>5, <1>6, <1>7 DEF IInv, RowsKeepKeys, Taken

\* A generated token touches no block.
LEMMA StepIInv ==
    ASSUME IInv, NEW r \in Reqs, Step(r)
    PROVE  IInv'
<1>1. TypeOK'
  BY DEF Step, IInv, TypeOK
<1>2. QED
  BY <1>1 DEF Step, IInv, RefCounts, Holders, FreeQueueExact, IndexSound,
              SharedOnlyCached, RowsKeepKeys, RowKeepsKeys

\* A reservation keeps the invariant: reserved blocks carry no key.
LEMMA ReserveBlocksIInv ==
    ASSUME IInv, NEW n \in 1..NumBlocks, ReserveBlocks(n)
    PROVE  IInv'
<1>1. PICK new \in [1..n -> Blocks] : Take(Reserve, <<>>, new, [i \in 1..n |-> NoKey])
  BY DEF ReserveBlocks
<1>2. /\ committed' = committed /\ gen' = gen /\ n \in Int
      /\ Reserve \in Owners /\ held[Reserve] \in Seq(Blocks)
  BY SizesAssumption DEF ReserveBlocks, IInv, TypeOK, Owners
<1> DEFINE newHash == [i \in 1..n |-> NoKey]
<1>3. newHash \in [DOMAIN new -> {NoKey}]
  OBVIOUS
<1>4. Take(Reserve, <<>>, new, newHash)
  BY <1>1
<1> HIDE DEF newHash
<1>5. /\ Taken(Reserve, <<>>, new, newHash)
      /\ held'[Reserve] = held[Reserve] \o new
      /\ \A i \in DOMAIN new : hash'[new[i]] = NoKey /\ ~cached'[new[i]]
      /\ new \in Seq(Blocks)
      /\ \A p \in Owners : \A b \in Range(held[p]) :
           hash'[b] = hash[b] /\ cached'[b] = cached[b]
  BY <1>2, <1>3, <1>4, TakePlain
<1>6. TypeOK'
  BY <1>2, <1>5 DEF IInv, TypeOK, Taken
<1>7. ASSUME NEW p \in Reqs
      PROVE  RowKeepsKeys(p)'
  <2>1. p \in Owners \ {Reserve}
    BY RequestsAssumption DEF Owners
  <2>2. QED
    BY <1>2, <1>5, <2>1, UndisturbedRow DEF Taken
<1>8. \A b \in Range(held'[Reserve]) : hash'[b] = NoKey /\ ~cached'[b]
  <2>1. Range(held'[Reserve]) = Range(held[Reserve]) \cup Range(new)
    BY <1>2, <1>5, ConcatRange
  <2>2. \A b \in Range(held[Reserve]) : hash'[b] = NoKey /\ ~cached'[b]
    BY <1>2, <1>5 DEF IInv, RowsKeepKeys
  <2>3. \A b \in Range(new) : hash'[b] = NoKey /\ ~cached'[b]
    BY <1>5 DEF Range
  <2>4. QED
    BY <2>1, <2>2, <2>3
<1>9. QED
  BY <1>5, <1>6, <1>7, <1>8 DEF IInv, RowsKeepKeys, Taken

\* Committing a prompt keeps the invariant: its blocks already carry the keys
\* they are registered under, so none is evicted first.
LEMMA CommitInputIInv ==
    ASSUME IInv, NEW r \in Reqs, CommitInput(r)
    PROVE  IInv'
<1> DEFINE row == held[r]
           last == Lesser(Len(row), Len(InputKeys[r]))
           I == 1..last
           R == Registered(r, I)
<1>1. /\ row # <<>> /\ row \in Seq(Blocks) /\ IsInjective(row) /\ r \in Owners
      /\ Len(row) \in Nat /\ DOMAIN row = 1..Len(row)
  BY DEF CommitInput, IInv, TypeOK, RefCounts, Owners
<1>2. /\ Len(InputKeys[r]) \in Nat /\ Len(InputKeys[r]) <= Len(row)
      /\ DOMAIN InputKeys[r] = 1..Len(InputKeys[r]) /\ last = Len(InputKeys[r])
  BY <1>1, ChainType DEF IInv, RowsKeepKeys, RowKeepsKeys, Lesser
<1>3. I \subseteq DOMAIN held[r] /\ I \subseteq DOMAIN Chain(r)
  BY <1>1, <1>2, ChainType
<1>4. /\ hash' = RegisteredHash(r, I)
      /\ cached' = [b \in Blocks |-> b \in R \/ cached[b]]
      /\ stamp' = RegisteredStamp(r, I, 1)
      /\ clock' = clock + Cardinality(I)
      /\ index' = RegisteredIndex(r, I)
      /\ committed' = [committed EXCEPT ![r] = TRUE]
      /\ ref' = ref /\ fifo' = fifo /\ lru' = lru /\ held' = held /\ gen' = gen
  BY DEF CommitInput
<1>5. stamp' \in [Blocks -> Nat] /\ clock' \in Nat
  <2>1. 1 \in Nat \ {0} /\ last \in Int /\ last <= Len(held[r])
    BY <1>1, <1>2
  <2> HIDE DEF last
  <2>2. QED
    BY <1>4, <2>1, RegisterStamps
<1> HIDE DEF I
<1>6. /\ R \subseteq Range(held[r]) /\ R \subseteq Blocks
      /\ hash' \in [Blocks -> Keys \cup {NoKey}]
      /\ index' \in [Keys -> Blocks \cup {NoBlock}]
      /\ \A k \in Keys : index'[k] # NoBlock =>
            (cached[index'[k]] \/ index'[k] \in R) /\ hash'[index'[k]] = k
      /\ \A i \in I : row[i] \in R /\ hash'[row[i]] = Chain(r)[i]
      /\ \A b \in Blocks \ R : hash'[b] = hash[b]
      /\ \A p \in Owners \ {r} : \A b \in Range(held[p]) :
            b \in Blocks /\ hash'[b] = hash[b] /\ (b \in R => cached[b])
  BY <1>3, <1>4, RegisterKeeps
<1>7. \A b \in Blocks : cached'[b] <=> b \in R \/ cached[b]
  BY <1>4
<1>8. TypeOK'
  <2>1. cached' \in [Blocks -> BOOLEAN]
    BY <1>4 DEF IInv, TypeOK
  <2>2. QED
    BY <1>4, <1>5, <1>6, <2>1 DEF IInv, TypeOK
<1>9. RefCounts'
  BY <1>4 DEF IInv, RefCounts, Holders
<1>10. \A b \in R : ref[b] > 0
  BY <1>1, <1>6, HeldIsReferenced
<1>11. FreeQueueExact'
  BY <1>4, <1>7, <1>10 DEF IInv, FreeQueueExact
<1>12. IndexSound'
  BY <1>6, <1>7 DEF IndexSound
<1>13. SharedOnlyCached'
  BY <1>4, <1>7 DEF IInv, SharedOnlyCached
<1>14. \A p \in Owners \ {r} : \A b \in Range(held[p]) :
          hash'[b] = hash[b] /\ cached'[b] = cached[b]
  BY <1>4, <1>6, <1>7 DEF IInv, TypeOK
<1>15. ASSUME NEW p \in Reqs, p # r
       PROVE  RowKeepsKeys(p)'
  <2>1. held'[p] = held[p] /\ committed'[p] = committed[p] /\ p \in Owners \ {r}
    BY <1>4, <1>15 DEF IInv, TypeOK, Owners
  <2>2. QED
    BY <1>14, <2>1, UndisturbedRow
<1>16. ASSUME NEW i \in DOMAIN row
       PROVE  IF i <= Len(InputKeys[r])
              THEN hash'[row[i]] = InputKeys[r][i] /\ cached'[row[i]]
              ELSE hash'[row[i]] = NoKey /\ ~cached'[row[i]]
  <2>1. row[i] \in Blocks
    BY <1>1
  <2>2. CASE i <= Len(InputKeys[r])
    <3>1. i \in I /\ i \in DOMAIN InputKeys[r]
      BY <1>1, <1>2, <2>2 DEF I
    <3>2. QED
      BY <1>6, <1>7, <2>1, <2>2, <3>1, ChainType
  <2>3. CASE ~(i <= Len(InputKeys[r]))
    <3>1. row[i] \notin R
      <4>1. SUFFICES ASSUME NEW j \in I, row[j] = row[i]
                     PROVE  FALSE
        BY DEF Registered
      <4>2. j \in DOMAIN row /\ j <= Len(InputKeys[r]) /\ j = i
        BY <1>1, <1>2, <1>3, <4>1 DEF IsInjective, I
      <4>3. QED
        BY <2>3, <4>2
    <3>2. hash[row[i]] = NoKey /\ ~cached[row[i]]
      BY <2>3 DEF IInv, RowsKeepKeys, RowKeepsKeys
    <3>3. QED
      BY <1>6, <1>7, <2>1, <2>3, <3>1, <3>2
  <2>4. QED
    BY <2>2, <2>3
<1>17. RowKeepsKeys(r)'
  BY <1>2, <1>4, <1>16 DEF RowKeepsKeys
<1>18. \A b \in Range(held'[Reserve]) : hash'[b] = NoKey /\ ~cached'[b]
  <2>1. Reserve \in Owners \ {r}
    BY RequestsAssumption DEF Owners
  <2>2. QED
    BY <1>4, <1>14, <2>1 DEF IInv, RowsKeepKeys
<1>19. QED
  BY <1>8, <1>9, <1>11, <1>12, <1>13, <1>15, <1>17, <1>18 DEF IInv, RowsKeepKeys

\* A release without registration: of a request's whole row or of the oldest
\* reserved blocks.
LEMMA PlainFree ==
    ASSUME IInv, NEW o \in Owners, NEW n \in 0..Len(held[o]),
           FreeFirst(o, n, CachedBlocks, hash, stamp),
           UNCHANGED <<cached, clock, index, committed, gen>>
    PROVE  /\ Freed(o, n, CachedBlocks, hash)
           /\ TypeOK' /\ RefCounts' /\ FreeQueueExact' /\ SharedOnlyCached' /\ IndexSound'
           /\ \A p \in Reqs \ {o} : RowKeepsKeys(p)'
           /\ \A b \in Range(held'[Reserve]) : hash'[b] = NoKey /\ ~cached'[b]
<1>1. /\ CachedBlocks \in SUBSET Blocks
      /\ \A b \in Blocks : cached[b] <=> b \in CachedBlocks
      /\ cached' = [b \in Blocks |-> b \in CachedBlocks]
      /\ hash \in [Blocks -> Keys \cup {NoKey}] /\ stamp \in [Blocks -> Nat]
  BY DEF CachedBlocks, IInv, TypeOK
<1>2. Freed(o, n, CachedBlocks, hash)
  BY <1>1, FreeKeeps
<1>3. TypeOK'
  BY <1>2 DEF IInv, TypeOK, Freed
<1>4. IndexSound'
  <2>1. SUFFICES ASSUME NEW k \in Keys, index'[k] # NoBlock
                 PROVE  cached'[index'[k]] /\ hash'[index'[k]] = k
    BY DEF IndexSound
  <2>2. /\ index'[k] = index[k] /\ index[k] \in Blocks /\ cached' = cached
        /\ cached[index[k]] /\ hash[index[k]] = k
    BY <2>1 DEF IInv, TypeOK, IndexSound
  <2>3. hash'[index[k]] = hash[index[k]]
    BY <1>1, <1>2, <2>2 DEF Freed
  <2>4. QED
    BY <2>2, <2>3
<1>5. ASSUME NEW p \in Reqs \ {o}
      PROVE  RowKeepsKeys(p)'
  <2>1. p \in Owners /\ held'[p] = held[p]
    BY <1>2 DEF Owners, Freed
  <2>2. QED
    BY <1>2, <2>1, UndisturbedRow DEF Freed
<1>6. \A b \in Range(held'[Reserve]) : hash'[b] = NoKey /\ ~cached'[b]
  BY <1>2 DEF IInv, RowsKeepKeys, Freed, Owners
<1>7. QED
  BY <1>2, <1>3, <1>4, <1>5, <1>6 DEF Freed

\* Releasing a row keeps the invariant.
LEMMA ReleaseIInv ==
    ASSUME IInv, NEW r \in Reqs, Release(r)
    PROVE  IInv'
<1>1. /\ r \in Owners /\ held[r] \in Seq(Blocks) /\ Len(held[r]) \in 0..Len(held[r])
  BY DEF IInv, TypeOK, Owners
<1>2. /\ Freed(r, Len(held[r]), CachedBlocks, hash)
      /\ TypeOK' /\ RefCounts' /\ FreeQueueExact' /\ SharedOnlyCached' /\ IndexSound'
      /\ \A p \in Reqs \ {r} : RowKeepsKeys(p)'
      /\ \A b \in Range(held'[Reserve]) : hash'[b] = NoKey /\ ~cached'[b]
  BY <1>1, PlainFree DEF Release
<1>3. held'[r] = <<>>
  <2>1. SubSeq(held[r], Len(held[r]) + 1, Len(held[r])) = <<>>
    BY <1>1, SubSeqEmpty
  <2>2. QED
    BY <1>2, <2>1 DEF Freed
<1>4. RowKeepsKeys(r)'
  BY <1>3 DEF RowKeepsKeys
<1>5. QED
  BY <1>2, <1>4 DEF IInv, RowsKeepKeys

\* Releasing part of the reservation keeps the invariant.
LEMMA ReleaseReservedIInv ==
    ASSUME IInv, NEW n \in 1..NumBlocks, ReleaseReserved(n)
    PROVE  IInv'
<1>1. Reserve \in Owners /\ n \in 0..Len(held[Reserve]) /\ Reserve \notin Reqs
  BY SizesAssumption, RequestsAssumption DEF ReleaseReserved, Owners, IInv, TypeOK
<1>2. /\ TypeOK' /\ RefCounts' /\ FreeQueueExact' /\ SharedOnlyCached' /\ IndexSound'
      /\ \A p \in Reqs \ {Reserve} : RowKeepsKeys(p)'
      /\ \A b \in Range(held'[Reserve]) : hash'[b] = NoKey /\ ~cached'[b]
  BY <1>1, PlainFree DEF ReleaseReserved
<1>3. QED
  BY <1>1, <1>2 DEF IInv, RowsKeepKeys

\* Finishing a request keeps the invariant: what is registered at the end is
\* its own prompt and output blocks, which no other row holds unless cached.
LEMMA FinishIInv ==
    ASSUME IInv, NEW r \in Reqs, Finish(r)
    PROVE  IInv'
<1> DEFINE row == held[r]
           first == IF committed[r] THEN Len(InputKeys[r]) + 1 ELSE 1
           last == Lesser(Len(row), Len(Chain(r)))
           I == first..last
           R == Registered(r, I)
           keep == CachedBlocks \cup R
           newHash == RegisteredHash(r, I)
           newStamp == RegisteredStamp(r, I, first)
<1>1. /\ r \in Owners /\ row \in Seq(Blocks)
      /\ Len(row) \in Nat /\ DOMAIN row = 1..Len(row) /\ Len(row) \in 0..Len(row)
  BY DEF IInv, TypeOK, Owners
<1>2. /\ first \in Nat \ {0} /\ last \in Int
      /\ last <= Len(row) /\ last <= Len(Chain(r)) /\ Len(Chain(r)) \in Nat
      /\ DOMAIN Chain(r) = 1..Len(Chain(r))
  BY <1>1, ChainType DEF Lesser
<1>3. /\ FreeFirst(r, Len(row), keep, newHash, newStamp)
      /\ cached' = [b \in Blocks |-> b \in keep]
      /\ clock' = clock + Cardinality(I)
      /\ index' = RegisteredIndex(r, I)
      /\ committed' = [committed EXCEPT ![r] = TRUE]
      /\ gen' = gen
  BY DEF Finish
<1> HIDE DEF first, last
<1>4. newStamp \in [Blocks -> Nat] /\ clock' \in Nat /\ I \subseteq DOMAIN held[r]
  BY <1>2, <1>3, RegisterStamps
<1>5. I \subseteq DOMAIN Chain(r)
  BY <1>2
<1> HIDE DEF I
<1>6. /\ R \subseteq Range(held[r]) /\ R \subseteq Blocks
      /\ newHash \in [Blocks -> Keys \cup {NoKey}]
      /\ index' \in [Keys -> Blocks \cup {NoBlock}]
      /\ \A k \in Keys : index'[k] # NoBlock =>
            (cached[index'[k]] \/ index'[k] \in R) /\ newHash[index'[k]] = k
      /\ \A p \in Owners \ {r} : \A b \in Range(held[p]) :
            b \in Blocks /\ newHash[b] = hash[b] /\ (b \in R => cached[b])
  BY <1>3, <1>4, <1>5, RegisterKeeps
<1>7. /\ keep \in SUBSET Blocks
      /\ \A b \in Blocks : b \in keep <=> cached[b] \/ b \in R
      /\ \A b \in keep : cached[b] \/ b \in Range(held[r])
  BY <1>6 DEF CachedBlocks
<1> HIDE DEF keep, newHash, newStamp, R
<1>8. Freed(r, Len(row), keep, newHash)
  BY <1>1, <1>3, <1>4, <1>6, <1>7, FreeKeeps
<1>9. TypeOK'
  BY <1>3, <1>4, <1>6, <1>8 DEF IInv, TypeOK, Freed
<1>10. IndexSound'
  <2>1. SUFFICES ASSUME NEW k \in Keys, index'[k] # NoBlock
                 PROVE  cached'[index'[k]] /\ hash'[index'[k]] = k
    BY DEF IndexSound
  <2>2. index'[k] \in Blocks
    BY <1>6, <2>1
  <2>3. index'[k] \in keep /\ newHash[index'[k]] = k
    BY <1>6, <1>7, <2>1, <2>2
  <2>4. QED
    BY <1>3, <1>8, <2>2, <2>3 DEF Freed
<1>11. \A p \in Owners \ {r} : \A b \in Range(held[p]) :
          /\ held'[p] = held[p]
          /\ hash'[b] = hash[b] /\ cached'[b] = cached[b]
  <2>1. SUFFICES ASSUME NEW p \in Owners \ {r}, NEW b \in Range(held[p])
                 PROVE  /\ held'[p] = held[p]
                        /\ hash'[b] = hash[b] /\ cached'[b] = cached[b]
    OBVIOUS
  <2>2. held'[p] = held[p] /\ b \in Blocks /\ newHash[b] = hash[b] /\ (b \in R => cached[b])
    BY <1>6, <1>8 DEF Freed
  <2>3. hash'[b] = newHash[b]
    BY <1>8, <2>2 DEF Freed
  <2>4. cached'[b] = cached[b]
    BY <1>3, <1>7, <2>2 DEF IInv, TypeOK
  <2>5. QED
    BY <2>2, <2>3, <2>4
<1>12. ASSUME NEW p \in Reqs, p # r
       PROVE  RowKeepsKeys(p)'
  <2>1. held'[p] = held[p] /\ committed'[p] = committed[p] /\ p \in Owners \ {r}
    BY <1>3, <1>8, <1>12 DEF IInv, TypeOK, Owners, Freed
  <2>2. QED
    BY <1>11, <2>1, UndisturbedRow
<1>13. RowKeepsKeys(r)'
  <2>1. SubSeq(row, Len(row) + 1, Len(row)) = <<>>
    BY <1>1, SubSeqEmpty
  <2>2. held'[r] = <<>>
    BY <1>8, <2>1 DEF Freed
  <2>3. QED
    BY <2>2 DEF RowKeepsKeys
<1>14. \A b \in Range(held'[Reserve]) : hash'[b] = NoKey /\ ~cached'[b]
  <2>1. Reserve \in Owners \ {r}
    BY RequestsAssumption DEF Owners
  <2>2. held'[Reserve] = held[Reserve]
    BY <1>8, <2>1 DEF Freed
  <2>3. QED
    BY <1>11, <2>1, <2>2 DEF IInv, RowsKeepKeys
<1>15. QED
  BY <1>8, <1>9, <1>10, <1>12, <1>13, <1>14 DEF IInv, RowsKeepKeys, Freed

\* A failed reservation pops the whole free queue: what it queues again is what
\* was free before.
LEMMA AllPopped ==
    ASSUME IInv, NEW new \in [1..NumFree -> Blocks], IsPopOrder(new, lru)
    PROVE  /\ new \in Seq(Blocks) /\ IsInjective(new)
           /\ Range(new) = Range(fifo) \cup lru
<1> DEFINE n == Len(fifo)
           m == Cardinality(lru)
<1>1. /\ fifo \in Seq(Blocks) /\ n \in Nat /\ DOMAIN fifo = 1..n
      /\ lru \in SUBSET Blocks
  BY DEF IInv, TypeOK
<1>2. IsFiniteSet(lru)
  <2>1. IsFiniteSet(0..(NumBlocks - 1))
    BY SizesAssumption, FS_Interval
  <2>2. QED
    BY <1>1, <2>1, FS_Subset DEF Blocks
<1>3. m \in Nat
  BY <1>2, FS_CardinalityType
<1>4. NumFree = n + m
  BY DEF NumFree
<1> HIDE DEF n, m
<1>5. new \in Seq(Blocks) /\ DOMAIN new = 1..(n + m)
  <2>1. NumFree \in Int
    BY <1>1, <1>3, <1>4
  <2>2. QED
    BY <1>4, <2>1, FunctionIsSeq
<1>6. IsInjective(new)
  <2>1. lru \in SUBSET lru
    OBVIOUS
  <2>2. QED
    BY <1>5, <2>1, Popped
<1>7. \A i \in 1..n : i \in DOMAIN new /\ new[i] = fifo[i]
  BY <1>1, <1>3, <1>5 DEF IsPopOrder, n
<1>8. \A i \in 1..m : n + i \in DOMAIN new /\ new[n + i] \in lru
  <2>1. SUFFICES ASSUME NEW i \in 1..m
                 PROVE  n + i \in DOMAIN new /\ new[n + i] \in lru
    OBVIOUS
  <2>2. n + i \in DOMAIN new /\ ~(n + i <= n)
    BY <1>1, <1>3, <1>5
  <2>3. QED
    BY <2>2 DEF IsPopOrder, n
<1>9. \A i \in DOMAIN new : i \in 1..n \/ (i - n \in 1..m /\ n + (i - n) = i)
  BY <1>1, <1>3, <1>5
<1> DEFINE f == [i \in 1..m |-> new[n + i]]
<1>10. f \in Injection(1..m, lru)
  <2>1. ASSUME NEW i \in 1..m, NEW j \in 1..m, f[i] = f[j]
        PROVE  i = j
    <3>1. n + i = n + j
      BY <1>6, <1>8, <2>1 DEF IsInjective
    <3>2. QED
      BY <1>1, <1>3, <3>1
  <2>2. f \in [1..m -> lru]
    BY <1>8
  <2> HIDE DEF f
  <2>3. IsInjective(f)
    BY <2>1, <2>2 DEF IsInjective
  <2>4. QED
    BY <2>2, <2>3 DEF Injection
<1>11. f \in Surjection(1..m, lru)
  <2>1. Cardinality(1..m) = m
    BY <1>3, FS_Interval
  <2> HIDE DEF f
  <2>2. QED
    BY <1>2, <1>10, <2>1, FS_Injection DEF m
<1>12. \A b \in lru : \E i \in 1..m : new[n + i] = b
  BY <1>11 DEF Surjection
<1>13. Range(new) \subseteq Range(fifo) \cup lru
  <2>1. SUFFICES ASSUME NEW i \in DOMAIN new
                 PROVE  new[i] \in Range(fifo) \cup lru
    BY DEF Range
  <2>2. CASE i \in 1..n
    BY <1>1, <1>7, <2>2 DEF Range
  <2>3. CASE i - n \in 1..m /\ n + (i - n) = i
    BY <1>8, <2>3
  <2>4. QED
    BY <1>9, <2>2, <2>3
<1>14. Range(fifo) \cup lru \subseteq Range(new)
  <2>1. \A i \in DOMAIN fifo : fifo[i] \in Range(new)
    BY <1>1, <1>7 DEF Range
  <2>2. \A b \in lru : b \in Range(new)
    BY <1>8, <1>12 DEF Range
  <2>3. QED
    BY <2>1, <2>2 DEF Range
<1>15. QED
  BY <1>5, <1>6, <1>13, <1>14

\* The rollback of a failed reservation keeps the invariant: it queues again,
\* without their cache entries, exactly the blocks it popped.
LEMMA ReserveFailsIInv ==
    ASSUME IInv, NEW n \in 1..NumBlocks, ReserveFails(n)
    PROVE  IInv'
<1>1. PICK new \in [1..NumFree -> Blocks] :
         /\ IsPopOrder(new, lru)
         /\ fifo' = new
         /\ index' = Evicted(Range(new))
         /\ hash' = [b \in Blocks |-> IF b \in Range(new) THEN NoKey ELSE hash[b]]
         /\ cached' = [b \in Blocks |-> b \notin Range(new) /\ cached[b]]
         /\ stamp' = [b \in Blocks |-> IF b \in Range(new) THEN 0 ELSE stamp[b]]
  BY DEF ReserveFails
<1> DEFINE T == Range(new)
<1>2. /\ lru' = {} /\ ref' = ref /\ clock' = clock /\ held' = held
      /\ committed' = committed /\ gen' = gen
  BY DEF ReserveFails
<1>3. fifo' \in Seq(Blocks) /\ IsInjective(fifo') /\ Range(fifo') = T
      /\ T = Range(fifo) \cup lru
  BY <1>1, AllPopped
<1>4. /\ Range(fifo) = {b \in Blocks : ref[b] = 0 /\ ~cached[b]}
      /\ lru = {b \in Blocks : ref[b] = 0 /\ cached[b]}
  BY DEF IInv, FreeQueueExact
<1>5. \A b : b \in T <=> b \in Blocks /\ ref[b] = 0
  BY <1>3, <1>4
<1>6. \A b \in Blocks : /\ hash'[b] = IF b \in T THEN NoKey ELSE hash[b]
                        /\ cached'[b] = (b \notin T /\ cached[b])
  BY <1>1
<1> HIDE DEF T
<1>7. \A k \in Keys : /\ index[k] \in Blocks \cup {NoBlock}
                      /\ index[k] # NoBlock => cached[index[k]] /\ hash[index[k]] = k
                      /\ index'[k] = IF index[k] \in T /\ cached[index[k]]
                                        /\ hash[index[k]] = k
                                     THEN NoBlock ELSE index[k]
  BY <1>1 DEF IInv, TypeOK, IndexSound, Evicted, T
<1>8. TypeOK'
  <2>1. index' \in [Keys -> Blocks \cup {NoBlock}]
    <3>1. index' = [k \in Keys |-> index'[k]]
      BY <1>1 DEF Evicted
    <3>2. QED
      BY <1>7, <3>1
  <2>2. /\ hash' \in [Blocks -> Keys \cup {NoKey}] /\ cached' \in [Blocks -> BOOLEAN]
        /\ stamp' \in [Blocks -> Nat]
    BY <1>1 DEF IInv, TypeOK
  <2>3. QED
    BY <1>2, <1>3, <2>1, <2>2 DEF IInv, TypeOK
<1>9. RefCounts'
  BY <1>2 DEF IInv, RefCounts, Holders
<1>10. FreeQueueExact'
  BY <1>2, <1>3, <1>5, <1>6 DEF FreeQueueExact
<1>11. IndexSound'
  <2>1. SUFFICES ASSUME NEW k \in Keys, index'[k] # NoBlock
                 PROVE  cached'[index'[k]] /\ hash'[index'[k]] = k
    BY DEF IndexSound
  <2>2. /\ index'[k] = index[k] /\ index[k] \in Blocks /\ index[k] \notin T
        /\ cached[index[k]] /\ hash[index[k]] = k
    BY <1>7, <2>1
  <2>3. QED
    BY <1>6, <2>2
<1>12. SharedOnlyCached'
  <2>1. SUFFICES ASSUME NEW b \in Blocks, ~cached'[b]
                 PROVE  ref'[b] <= 1
    BY DEF SharedOnlyCached
  <2>2. CASE b \in T
    BY <1>2, <1>5, <2>2
  <2>3. CASE b \notin T
    BY <1>2, <1>6, <2>1, <2>3 DEF IInv, SharedOnlyCached
  <2>4. QED
    BY <2>2, <2>3
<1>13. ASSUME NEW p \in Owners, NEW b \in Range(held[p])
       PROVE  hash'[b] = hash[b] /\ cached'[b] = cached[b]
  <2>1. b \in Blocks /\ cached[b] \in BOOLEAN
    BY DEF IInv, TypeOK, Range
  <2>2. b \notin T
    BY <1>5, <2>1, HeldIsReferenced
  <2>3. QED
    BY <1>6, <2>1, <2>2
<1>14. ASSUME NEW p \in Reqs
       PROVE  RowKeepsKeys(p)'
  BY <1>2, <1>13, UndisturbedRow DEF Owners
<1>15. \A b \in Range(held'[Reserve]) : hash'[b] = NoKey /\ ~cached'[b]
  BY <1>2, <1>13 DEF IInv, RowsKeepKeys, Owners
<1>16. QED
  BY <1>8, <1>9, <1>10, <1>11, <1>12, <1>14, <1>15 DEF IInv, RowsKeepKeys

-----------------------------------------------------------------------------
(* The invariants *)

\* Every step keeps the invariant.
LEMMA StepKeepsIInv == IInv /\ [Next]_vars => IInv'
<1> SUFFICES ASSUME IInv, [Next]_vars
             PROVE  IInv'
  OBVIOUS
<1>1. ASSUME NEW r \in Reqs, Allocate(r)
      PROVE  IInv'
  BY <1>1, AllocateIInv
<1>2. ASSUME NEW r \in Reqs, AppendSlot(r)
      PROVE  IInv'
  BY <1>2, AppendSlotIInv
<1>3. ASSUME NEW r \in Reqs, Step(r)
      PROVE  IInv'
  BY <1>3, StepIInv
<1>4. ASSUME NEW r \in Reqs, CommitInput(r)
      PROVE  IInv'
  BY <1>4, CommitInputIInv
<1>5. ASSUME NEW r \in Reqs, Release(r)
      PROVE  IInv'
  BY <1>5, ReleaseIInv
<1>6. ASSUME NEW r \in Reqs, Finish(r)
      PROVE  IInv'
  BY <1>6, FinishIInv
<1>7. ASSUME NEW n \in 1..NumBlocks, ReserveBlocks(n)
      PROVE  IInv'
  BY <1>7, ReserveBlocksIInv
<1>8. ASSUME NEW n \in 1..NumBlocks, ReserveFails(n)
      PROVE  IInv'
  BY <1>8, ReserveFailsIInv
<1>9. ASSUME NEW n \in 1..NumBlocks, ReleaseReserved(n)
      PROVE  IInv'
  BY <1>9, ReleaseReservedIInv
<1>10. CASE UNCHANGED vars
  BY <1>10 DEF vars, IInv, TypeOK, RefCounts, Holders, FreeQueueExact, IndexSound,
               SharedOnlyCached, RowsKeepKeys, RowKeepsKeys
<1>11. QED
  BY <1>1, <1>2, <1>3, <1>4, <1>5, <1>6, <1>7, <1>8, <1>9, <1>10 DEF Next

\* The inductive invariant holds of every reachable state of the block layer.
THEOREM BlocksInvariant == Spec => []IInv
<1>1. QED
  BY InitIInv, StepKeepsIInv, PTL DEF Spec

\* Every variable keeps its type: no reference count is ever negative.
THEOREM BlocksTyped == Spec => []TypeOK
<1>1. IInv => TypeOK
  BY DEF IInv
<1>2. QED
  BY <1>1, BlocksInvariant, PTL

\* No operation leaks a block reference or drops one still in use, and the free
\* queue is exactly the set of unreferenced blocks.
THEOREM NoBlockLeaks == Spec => [](RefCounts /\ FreeQueueExact)
<1>1. IInv => RefCounts /\ FreeQueueExact
  BY DEF IInv
<1>2. QED
  BY <1>1, BlocksInvariant, PTL

\* The prefix cache never offers a block that is not cached under the key asked
\* for, only registered blocks are shared, and the blocks of a request keep its
\* keys while it holds them.
THEOREM PrefixCacheSound == Spec => []CacheSound
<1>1. IInv => CacheSound
  BY DEF IInv, CacheSound
<1>2. QED
  BY <1>1, BlocksInvariant, PTL

\* The hits an admission takes out of the free queue are those with no
\* reference: can_allocate counts every one of them.
LEMMA HitsLeaveTheQueue ==
    ASSUME IInv, NEW r \in Reqs, NEW h \in 0..Len(InputKeys[r]), IsHitCount(r, h)
    PROVE  /\ Cardinality(lru) - ZeroRefHits(r, h)
                <= Cardinality(lru \ Range(HitBlocks(r, h)))
           /\ ZeroRefHits(r, h) \in Nat /\ Cardinality(lru) \in Nat
           /\ Cardinality(lru \ Range(HitBlocks(r, h))) \in Nat
<1> DEFINE hits == HitBlocks(r, h)
           taken == lru \cap Range(hits)
           Z == {i \in 1..h : ref[hits[i]] = 0}
<1>1. hits \in Seq(Blocks) /\ DOMAIN hits = 1..h /\ h \in Int
      /\ \A i \in 1..h : cached[hits[i]]
  BY HitsAreThePrefix, ChainType
<1>2. lru = {b \in Blocks : ref[b] = 0 /\ cached[b]}
  BY DEF IInv, FreeQueueExact
<1> HIDE DEF hits
<1>3. IsFiniteSet(Z) /\ Cardinality(Z) \in Nat
  <2>1. IsFiniteSet(1..h)
    BY <1>1, FS_Interval
  <2>2. QED
    BY <2>1, FS_Subset, FS_CardinalityType
<1>4. IsFiniteSet(lru) /\ Cardinality(lru) \in Nat
  <2>1. IsFiniteSet(0..(NumBlocks - 1))
    BY SizesAssumption, FS_Interval
  <2>2. IsFiniteSet(lru)
    BY <1>2, <2>1, FS_Subset DEF Blocks
  <2>3. QED
    BY <2>2, FS_CardinalityType
<1>5. Cardinality(taken) <= Cardinality(Z)
  <2> DEFINE f == [i \in Z |-> hits[i]]
  <2>1. \A i \in Z : hits[i] \in taken
    BY <1>1, <1>2 DEF Range
  <2>2. \A b \in taken : \E i \in Z : hits[i] = b
    BY <1>1, <1>2 DEF Range
  <2> HIDE DEF taken, Z
  <2>3. f \in Surjection(Z, taken)
    BY <2>1, <2>2 DEF Surjection
  <2> HIDE DEF f
  <2>4. QED
    BY <1>3, <2>3, FS_Surjection
<1>6. /\ Cardinality(lru \ Range(hits)) = Cardinality(lru) - Cardinality(taken)
      /\ Cardinality(taken) \in Nat /\ Cardinality(lru \ Range(hits)) \in Nat
  <2> DEFINE left == lru \ Range(hits)
  <2>1. IsFiniteSet(taken) /\ IsFiniteSet(left)
    BY <1>4, FS_Subset
  <2>2. Cardinality(taken) \in Nat /\ Cardinality(left) \in Nat
    BY <2>1, FS_CardinalityType
  <2>3. left \cup taken = lru /\ left \cap taken = {}
    OBVIOUS
  <2> HIDE DEF left, taken
  <2>4. Cardinality(left \cup taken) =
          Cardinality(left) + Cardinality(taken) - Cardinality(left \cap taken)
    BY <2>1, FS_Union
  <2>5. Cardinality(lru) = Cardinality(left) + Cardinality(taken)
    <3>1. Cardinality(left \cap taken) = 0
      BY <2>3, FS_EmptySet, Zenon
    <3>2. Cardinality(left \cup taken) = Cardinality(lru)
      BY <2>3, Zenon
    <3>3. QED
      BY <2>2, <2>4, <3>1, <3>2
  <2>6. QED
    BY <1>4, <2>2, <2>5 DEF left
<1>7. ZeroRefHits(r, h) = Cardinality(Z)
  BY DEF ZeroRefHits, hits
<1>8. QED
  BY <1>3, <1>4, <1>5, <1>6, <1>7 DEF hits

\* can_allocate() is right: what it admits can be popped once the hits are gone
\* from the free queue, so no admission runs out of blocks half way.
THEOREM AdmissionNeverRunsOut == Spec => []AdmissionFits
<1>1. IInv => AdmissionFits
  <2>1. SUFFICES ASSUME IInv, NEW r \in Reqs, NEW h \in 0..Len(InputKeys[r]),
                        IsHitCount(r, h), CanAllocate(r, h)
                 PROVE  MissCount(r, h)
                          <= Len(fifo) + Cardinality(lru \ Range(HitBlocks(r, h)))
    BY DEF AdmissionFits
  <2>2. NumFree - ZeroRefHits(r, h) - MissCount(r, h) >= Watermark
    BY <2>1 DEF CanAllocate
  <2>3. /\ Cardinality(lru) - ZeroRefHits(r, h) <= Cardinality(lru \ Range(HitBlocks(r, h)))
        /\ ZeroRefHits(r, h) \in Nat /\ Cardinality(lru) \in Nat
        /\ Cardinality(lru \ Range(HitBlocks(r, h))) \in Nat
    BY <2>1, HitsLeaveTheQueue
  <2>4. /\ MissCount(r, h) \in Int /\ Watermark \in Nat /\ Len(fifo) \in Nat
        /\ NumFree = Len(fifo) + Cardinality(lru)
    BY <2>1, LogicalCoversInput, ChainType, SizesAssumption
       DEF MissCount, NumFree, IInv, TypeOK
  <2> HIDE DEF MissCount
  <2>5. QED
    BY <2>2, <2>3, <2>4
<1>2. QED
  BY <1>1, BlocksInvariant, PTL

-----------------------------------------------------------------------------
(* What no step may do *)

\* Evicting unreferenced blocks leaves the entry of a block in use.
LEMMA EvictionSparesUsed ==
    ASSUME IInv, NEW S, \A b \in S : ref[b] = 0,
           NEW k \in Keys, index[k] # NoBlock, ref[index[k]] > 0
    PROVE  Evicted(S)[k] = index[k]
<1>1. index[k] \in Blocks /\ ref[index[k]] \in Nat
  BY DEF IInv, TypeOK
<1>2. index[k] \notin S
  BY <1>1
<1>3. QED
  BY <1>2 DEF Evicted

\* The input keys of a request are the start of its chain.
LEMMA InputWithinChain ==
    ASSUME NEW r \in Reqs
    PROVE  /\ Len(InputKeys[r]) \in Nat /\ Len(InputKeys[r]) <= Len(Chain(r))
           /\ Len(Chain(r)) \in Nat /\ DOMAIN Chain(r) = 1..Len(Chain(r))
<1>1. /\ Len(InputKeys[r]) \in Nat /\ DOMAIN InputKeys[r] = 1..Len(InputKeys[r])
      /\ Len(Chain(r)) \in Nat /\ DOMAIN Chain(r) = 1..Len(Chain(r))
      /\ \A i \in DOMAIN InputKeys[r] : i \in DOMAIN Chain(r)
  BY ChainType
<1>2. Len(InputKeys[r]) = 0 \/ Len(InputKeys[r]) \in DOMAIN InputKeys[r]
  BY <1>1
<1>3. QED
  BY ONLY <1>1, <1>2

\* Registering blocks never takes a key out of the index: a block that carries
\* a key carries the one it is registered under.
LEMMA RegisteringKeepsKeys ==
    ASSUME IInv, NEW r \in Reqs,
           NEW I, I \subseteq DOMAIN held[r], I \subseteq DOMAIN Chain(r),
           NEW k \in Keys, index[k] # NoBlock
    PROVE  RegisteredIndex(r, I)[k] # NoBlock
<1>1. CASE \E i \in I : Chain(r)[i] = k
  <2> DEFINE i == CHOOSE j \in I : Chain(r)[j] = k
  <2>1. i \in I
    BY <1>1
  <2>2. held[r][i] \in Blocks
    BY <2>1 DEF IInv, TypeOK, Owners
  <2>3. RegisteredIndex(r, I)[k] = held[r][i]
    BY <1>1 DEF RegisteredIndex
  <2>4. QED
    BY <2>2, <2>3, SizesAssumption DEF Blocks, NoBlock
<1>2. CASE ~ \E i \in I : Chain(r)[i] = k
  <2> DEFINE rekeyed == {b \in Registered(r, I) :
                            hash[b] # NoKey /\ hash[b] # Chain(r)[Pos(held[r], b)]}
  <2>1. RegisteredIndex(r, I)[k] = Evicted(rekeyed)[k]
    BY <1>2 DEF RegisteredIndex
  <2>2. index[k] \in Blocks /\ hash[index[k]] = k /\ k # NoKey
    BY RequestsAssumption DEF IInv, TypeOK, IndexSound
  <2>3. ASSUME NEW i \in I, held[r][i] = index[k]
        PROVE  FALSE
    <3>1. i \in DOMAIN held[r] /\ RowKeepsKeys(r)
      BY DEF IInv, RowsKeepKeys
    <3>2. i <= Len(InputKeys[r]) /\ InputKeys[r][i] = k
      BY <2>2, <2>3, <3>1 DEF RowKeepsKeys
    <3>3. Chain(r)[i] = InputKeys[r][i]
      <4>1. held[r] \in Seq(Blocks)
        BY DEF IInv, TypeOK, Owners
      <4>2. i \in Nat \ {0}
        BY <3>1, <4>1
      <4>3. i \in DOMAIN InputKeys[r]
        BY <3>2, <4>2, ChainType
      <4>4. QED
        BY <4>3, ChainType
    <3>4. QED
      BY <1>2, <3>2, <3>3
  <2>4. index[k] \notin rekeyed
    BY <2>3 DEF Registered
  <2>5. Evicted(rekeyed)[k] = index[k]
    BY <2>4 DEF Evicted
  <2>6. QED
    BY <2>1, <2>5
<1>3. QED
  BY <1>1, <1>2

\* Taking blocks evicts only what is popped, which nobody uses.
LEMMA TakingSparesUsed ==
    ASSUME IInv, NEW o, NEW hits, NEW new \in Seq(Blocks), NEW newHash,
           Take(o, hits, new, newHash),
           NEW k \in Keys, index[k] # NoBlock, ref[index[k]] > 0
    PROVE  index'[k] = index[k]
<1>1. /\ IsPopOrder(new, lru \ Range(hits)) /\ lru \ Range(hits) \in SUBSET lru
      /\ index' = Evicted(Range(new))
  BY DEF Take, HeapWithout
<1>2. \A b \in Range(new) : ref[b] = 0
  BY <1>1, Popped
<1>3. QED
  BY <1>1, <1>2, EvictionSparesUsed

\* No operation but one that takes blocks ever takes a key out of the index.
LEMMA OnlyTakingEvicts ==
    ASSUME IInv, NEW r \in Reqs,
           \/ Step(r) \/ CommitInput(r)
           \/ Release(r) \/ Finish(r),
           NEW k \in Keys, index[k] # NoBlock
    PROVE  index'[k] # NoBlock
<1>1. ASSUME CommitInput(r)
      PROVE  index'[k] # NoBlock
  <2> DEFINE I == 1..Lesser(Len(held[r]), Len(InputKeys[r]))
  <2>1. index' = RegisteredIndex(r, I)
    BY <1>1 DEF CommitInput
  <2>2. I \subseteq DOMAIN held[r] /\ I \subseteq DOMAIN Chain(r)
    <3>1. held[r] \in Seq(Blocks)
      BY DEF IInv, TypeOK, Owners
    <3>2. /\ Len(InputKeys[r]) \in Nat /\ Len(InputKeys[r]) <= Len(Chain(r))
          /\ Len(Chain(r)) \in Nat /\ DOMAIN Chain(r) = 1..Len(Chain(r))
      BY InputWithinChain
    <3>3. QED
      BY <3>1, <3>2 DEF Lesser
  <2>3. QED
    BY <2>1, <2>2, RegisteringKeepsKeys
<1>2. ASSUME Finish(r)
      PROVE  index'[k] # NoBlock
  <2> DEFINE first == IF committed[r] THEN Len(InputKeys[r]) + 1 ELSE 1
             I == first..Lesser(Len(held[r]), Len(Chain(r)))
  <2>1. index' = RegisteredIndex(r, I)
    BY <1>2 DEF Finish
  <2>2. I \subseteq DOMAIN held[r] /\ I \subseteq DOMAIN Chain(r)
    <3>1. held[r] \in Seq(Blocks)
      BY DEF IInv, TypeOK, Owners
    <3>2. /\ Len(InputKeys[r]) \in Nat /\ Len(InputKeys[r]) <= Len(Chain(r))
          /\ Len(Chain(r)) \in Nat /\ DOMAIN Chain(r) = 1..Len(Chain(r))
      BY InputWithinChain
    <3>3. QED
      BY <3>1, <3>2 DEF Lesser
  <2>3. QED
    BY <2>1, <2>2, RegisteringKeepsKeys
<1>3. ASSUME Step(r) \/ Release(r)
      PROVE  index' = index
  BY <1>3 DEF Step, Release
<1> QED
  BY <1>1, <1>2, <1>3

\* No operation takes the entry of a block in use out of the index.
LEMMA StepSparesUsed ==
    ASSUME IInv, [Next]_vars,
           NEW k \in Keys, index[k] # NoBlock, ref[index[k]] > 0
    PROVE  index'[k] # NoBlock
<1>1. ASSUME NEW r \in Reqs, Allocate(r)
      PROVE  index'[k] # NoBlock
  <2>1. PICK h \in 0..Len(InputKeys[r]) : \E new \in [1..MissCount(r, h) -> Blocks] :
           Take(r, HitBlocks(r, h), new,
                [i \in DOMAIN new |-> IF h + i <= Len(InputKeys[r])
                                      THEN InputKeys[r][h + i] ELSE NoKey])
    BY <1>1 DEF Allocate
  <2>2. PICK new \in [1..MissCount(r, h) -> Blocks] :
           Take(r, HitBlocks(r, h), new,
                [i \in DOMAIN new |-> IF h + i <= Len(InputKeys[r])
                                      THEN InputKeys[r][h + i] ELSE NoKey])
    BY <2>1
  <2>3. MissCount(r, h) \in Int
    BY ChainType, LogicalCoversInput DEF MissCount
  <2>4. new \in Seq(Blocks)
    BY <2>3, FunctionIsSeq
  <2>5. QED
    BY <2>2, <2>4, TakingSparesUsed
<1>2. ASSUME NEW r \in Reqs, AppendSlot(r)
      PROVE  index'[k] # NoBlock
  <2>1. PICK new \in [1..1 -> Blocks] : Take(r, <<>>, new, <<NoKey>>)
    BY <1>2 DEF AppendSlot
  <2>2. ASSUME NEW m \in Int, new \in [1..m -> Blocks]
        PROVE  new \in Seq(Blocks)
    BY <2>2, FunctionIsSeq
  <2>3. 1 \in Int /\ new \in [1..1 -> Blocks]
    OBVIOUS
  <2>4. new \in Seq(Blocks)
    BY <2>2, <2>3
  <2>5. QED
    BY <2>1, <2>4, TakingSparesUsed
<1>3. ASSUME NEW n \in 1..NumBlocks, ReserveBlocks(n)
      PROVE  index'[k] # NoBlock
  <2>1. PICK new \in [1..n -> Blocks] :
           Take(Reserve, <<>>, new, [i \in 1..n |-> NoKey])
    BY <1>3 DEF ReserveBlocks
  <2>2. new \in Seq(Blocks)
    BY FunctionIsSeq
  <2>3. QED
    BY <2>1, <2>2, TakingSparesUsed
<1>4. ASSUME NEW n \in 1..NumBlocks, ReserveFails(n)
      PROVE  index'[k] # NoBlock
  <2>1. PICK new \in [1..NumFree -> Blocks] :
           IsPopOrder(new, lru) /\ index' = Evicted(Range(new))
    BY <1>4 DEF ReserveFails
  <2>2. new \in Seq(Blocks) /\ lru \in SUBSET lru
    BY <2>1, AllPopped
  <2>3. \A b \in Range(new) : ref[b] = 0
    BY <2>1, <2>2, Popped
  <2>4. QED
    BY <2>1, <2>3, EvictionSparesUsed
<1>5. ASSUME NEW r \in Reqs, CommitInput(r) \/ Finish(r)
      PROVE  index'[k] # NoBlock
  BY <1>5, OnlyTakingEvicts
<1>7. ASSUME index' = index
      PROVE  index'[k] # NoBlock
  BY <1>7
<1>8. ASSUME NEW r \in Reqs, Step(r) \/ Release(r)
      PROVE  index' = index
  BY <1>8 DEF Step, Release
<1>9. ASSUME NEW n \in 1..NumBlocks, ReleaseReserved(n)
      PROVE  index' = index
  BY <1>9 DEF ReleaseReserved
<1>10. QED
  BY <1>1, <1>2, <1>3, <1>4, <1>5, <1>7, <1>8, <1>9 DEF Next, vars

\* Eviction only ever takes idle blocks: while the block the index offers for a
\* key is referenced, the key stays resident.
THEOREM InUseKeysStay == Spec => InUseKeyStays
<1>1. IInv /\ [Next]_vars =>
        [\A k \in Keys :
            LET b == index[k]
            IN  b # NoBlock /\ ref[b] > 0 /\ ref'[b] > 0 => index'[k] # NoBlock]_vars
  BY StepSparesUsed
<1>2. QED
  BY <1>1, BlocksInvariant, PTL DEF Spec, InUseKeyStays

-----------------------------------------------------------------------------
\* An admission starts the row with the blocks plan_reuse found and evicts only
\* popped blocks, which none of them is.
LEMMA AllocateServesHits ==
    ASSUME IInv, NEW r \in Reqs, Allocate(r)
    PROVE  \E h \in 0..Len(InputKeys[r]) :
              /\ IsHitCount(r, h)
              /\ \A i \in 1..h :
                    /\ held'[r][i] = index[InputKeys[r][i]]
                    /\ index'[InputKeys[r][i]] = held'[r][i]
<1>1. PICK h \in 0..Len(InputKeys[r]) :
         /\ IsHitCount(r, h)
         /\ \E new \in [1..MissCount(r, h) -> Blocks] :
              Take(r, HitBlocks(r, h), new,
                   [i \in DOMAIN new |-> IF h + i <= Len(InputKeys[r])
                                         THEN InputKeys[r][h + i] ELSE NoKey])
  BY DEF Allocate
<1>2. PICK new \in [1..MissCount(r, h) -> Blocks] :
         Take(r, HitBlocks(r, h), new,
              [i \in DOMAIN new |-> IF h + i <= Len(InputKeys[r])
                                    THEN InputKeys[r][h + i] ELSE NoKey])
  BY <1>1
<1> DEFINE hits == HitBlocks(r, h)
<1>3. /\ hits \in Seq(Blocks) /\ DOMAIN hits = 1..h /\ Len(hits) = h
      /\ \A i \in 1..h : cached[hits[i]]
  BY <1>1, HitsAreThePrefix
<1>4. new \in Seq(Blocks)
  <2>1. MissCount(r, h) \in Int
    BY ChainType, LogicalCoversInput DEF MissCount
  <2>2. QED
    BY <2>1, FunctionIsSeq
<1>5. /\ IsPopOrder(new, lru \ Range(hits)) /\ lru \ Range(hits) \in SUBSET lru
      /\ index' = Evicted(Range(new))
      /\ held' = [held EXCEPT ![r] = (@ \o hits) \o new]
  BY <1>2 DEF Take, HeapWithout
<1>6. \A i \in 1..h : hits[i] \notin Range(new)
  <2>1. \A b \in Range(new) : ~cached[b] \/ b \in lru \ Range(hits)
    BY <1>4, <1>5, Popped
  <2>2. \A i \in 1..h : hits[i] \in Range(hits)
    BY <1>3 DEF Range
  <2>3. QED
    BY <1>3, <2>1, <2>2
<1>7. held'[r] = hits \o new
  <2>1. held[r] = <<>> /\ r \in Owners /\ held \in [Owners -> Seq(Blocks)]
    BY DEF Allocate, Owners, IInv, TypeOK
  <2>2. held'[r] = (<<>> \o hits) \o new
    BY <1>5, <2>1
  <2>3. QED
    BY <1>3, <2>2, ConcatEmptySeq
<1>8. \A i \in 1..h : hits[i] = index[InputKeys[r][i]] /\ InputKeys[r][i] \in Keys
  BY ChainType DEF HitBlocks
<1>9. ASSUME NEW i \in 1..h
      PROVE  /\ held'[r][i] = index[InputKeys[r][i]]
             /\ index'[InputKeys[r][i]] = held'[r][i]
  <2>1. held'[r][i] = hits[i]
    <3>1. i \in 1..(Len(hits) + Len(new)) /\ i <= Len(hits)
      BY <1>3, <1>4
    <3>2. (hits \o new)[i] = hits[i]
      BY ONLY <1>3, <1>4, <3>1, ConcatProperties
    <3>3. QED
      BY <1>7, <3>2
  <2>2. index'[InputKeys[r][i]] = index[InputKeys[r][i]]
    BY <1>5, <1>6, <1>8 DEF Evicted
  <2>3. QED
    BY <1>8, <2>1, <2>2
<1>10. QED
  BY <1>1, <1>9

\* The row of a request without blocks is filled by an admission and by no other
\* operation.
LEMMA OnlyAllocateAdmits ==
    ASSUME IInv, [Next]_vars, NEW r \in Reqs, held[r] = <<>>, held'[r] # <<>>
    PROVE  Allocate(r)
<1>1. /\ held \in [Owners -> Seq(Blocks)] /\ r \in Owners /\ r # Reserve
      /\ Reqs \subseteq Owners /\ Reserve \in Owners
  BY RequestsAssumption DEF IInv, TypeOK, Owners
<1>2. ASSUME NEW o \in Owners, NEW row, held' = [held EXCEPT ![o] = row]
      PROVE  o = r
  BY <1>1, <1>2
<1>3. ASSUME NEW p \in Reqs, Allocate(p)
      PROVE  p = r
  <2>1. \E row : held' = [held EXCEPT ![p] = row]
    BY <1>3 DEF Allocate, Take
  <2>2. QED
    BY <1>1, <1>2, <2>1
<1>4. ASSUME NEW p \in Reqs, AppendSlot(p)
      PROVE  FALSE
  <2>1. \E row : held' = [held EXCEPT ![p] = row]
    BY <1>4 DEF AppendSlot, Take
  <2>2. QED
    BY <1>1, <1>2, <1>4, <2>1 DEF AppendSlot
<1>5. ASSUME NEW p \in Reqs, Release(p) \/ Finish(p)
      PROVE  FALSE
  <2>1. \E row : held' = [held EXCEPT ![p] = row]
    BY <1>5 DEF Release, Finish, FreeFirst
  <2>2. held[p] # <<>>
    BY <1>5 DEF Release, Finish
  <2>3. QED
    BY <1>1, <1>2, <2>1, <2>2
<1>6. ASSUME NEW n \in 1..NumBlocks, ReserveBlocks(n) \/ ReleaseReserved(n)
      PROVE  FALSE
  <2>1. \E row : held' = [held EXCEPT ![Reserve] = row]
    BY <1>6 DEF ReserveBlocks, Take, ReleaseReserved, FreeFirst
  <2>2. QED
    BY <1>1, <1>2, <2>1
<1>7. ASSUME NEW p \in Reqs, Step(p) \/ CommitInput(p)
      PROVE  FALSE
  BY <1>7 DEF Step, CommitInput
<1>8. ASSUME NEW n \in 1..NumBlocks, ReserveFails(n)
      PROVE  FALSE
  BY <1>8 DEF ReserveFails
<1>9. QED
  BY <1>3, <1>4, <1>5, <1>6, <1>7, <1>8 DEF Next, vars

\* A resident prefix is at most as long as the one plan_reuse finds.
LEMMA ResidentPrefixHits ==
    ASSUME IInv, NEW r \in Reqs, NEW h \in 0..Len(InputKeys[r]), IsHitCount(r, h),
           NEW i \in 1..Len(InputKeys[r]),
           \A j \in 1..i : index[InputKeys[r][j]] # NoBlock
    PROVE  i \in 1..h
<1>1. Len(InputKeys[r]) \in Nat /\ \A j \in 1..i : InputKeys[r][j] \in Keys
  BY ChainType
<1>2. \A j \in 1..i : IsHit(InputKeys[r][j])
  BY <1>1 DEF IsHit, IInv, TypeOK, IndexSound
<1>3. SUFFICES ASSUME i > h PROVE FALSE
  BY <1>1
<1>4. h + 1 \in 1..i /\ h < Len(InputKeys[r])
  BY <1>1, <1>3
<1>5. QED
  BY <1>2, <1>4 DEF IsHitCount

\* An admission gets its whole resident prefix, and making room for its misses
\* evicts none of it.
THEOREM AdmissionKeepsItsHits == Spec => HitsSurviveAdmission
<1>1. ASSUME IInv, [Next]_vars, NEW r \in Reqs, held[r] = <<>>, held'[r] # <<>>,
             NEW i \in 1..Len(InputKeys[r]),
             \A j \in 1..i : index[InputKeys[r][j]] # NoBlock
      PROVE  /\ held'[r][i] = index[InputKeys[r][i]]
             /\ index'[InputKeys[r][i]] = held'[r][i]
  <2>1. Allocate(r)
    BY <1>1, OnlyAllocateAdmits
  <2>2. PICK h \in 0..Len(InputKeys[r]) :
           /\ IsHitCount(r, h)
           /\ \A j \in 1..h : /\ held'[r][j] = index[InputKeys[r][j]]
                              /\ index'[InputKeys[r][j]] = held'[r][j]
    BY <1>1, <2>1, AllocateServesHits
  <2>3. i \in 1..h
    BY <1>1, <2>2, ResidentPrefixHits
  <2>4. QED
    BY <2>2, <2>3
<1>2. IInv /\ [Next]_vars =>
        [\A r \in Reqs : held[r] = <<>> /\ held'[r] # <<>> =>
            \A i \in 1..Len(InputKeys[r]) :
                (\A j \in 1..i : index[InputKeys[r][j]] # NoBlock) =>
                    /\ held'[r][i] = index[InputKeys[r][i]]
                    /\ index'[InputKeys[r][i]] = held'[r][i]]_vars
  BY <1>1
<1>3. QED
  BY <1>2, BlocksInvariant, PTL DEF Spec, HitsSurviveAdmission

-----------------------------------------------------------------------------
(* Eviction takes the least recently accessed entry *)

\* Every touch has a number of its own, so no two cached blocks share one.
StampsOrdered ==
    /\ \A b \in Blocks : cached[b] => stamp[b] <= clock
    /\ \A b, c \in Blocks : cached[b] /\ cached[c] /\ stamp[b] = stamp[c] => b = c

\* An operation that touches the blocks of N, one after the other.
LEMMA TouchedInTurn ==
    ASSUME StampsOrdered, clock \in Nat, clock' \in Nat, clock <= clock',
           stamp \in [Blocks -> Nat], stamp' \in [Blocks -> Nat], NEW N,
           \A b \in Blocks : cached'[b] => b \in N \/ (cached[b] /\ stamp'[b] = stamp[b]),
           \A b \in N : b \in Blocks /\ clock < stamp'[b] /\ stamp'[b] <= clock',
           \A b, c \in N : stamp'[b] = stamp'[c] => b = c
    PROVE  StampsOrdered'
<1>1. Blocks' = Blocks
  BY DEF Blocks
<1>2. \A b \in Blocks : cached'[b] /\ b \notin N =>
          cached[b] /\ stamp'[b] = stamp[b] /\ stamp'[b] <= clock
  BY DEF StampsOrdered
<1>3. \A b \in Blocks : cached'[b] => stamp'[b] <= clock'
  BY <1>2
<1>4. ASSUME NEW b \in Blocks, NEW c \in Blocks, cached'[b], cached'[c], stamp'[b] = stamp'[c]
      PROVE  b = c
  <2>1. CASE b \in N /\ c \in N
    BY <1>4, <2>1
  <2>2. CASE b \notin N /\ c \notin N
    BY <1>2, <1>4, <2>2 DEF StampsOrdered
  <2>3. b \in N <=> c \in N
    BY <1>2, <1>4
  <2> QED
    BY <2>1, <2>2, <2>3
<1> QED
  BY <1>1, <1>3, <1>4 DEF StampsOrdered

\* Taking blocks touches the hits, in the order of the prefix.
LEMMA TakeTouches ==
    ASSUME IInv, StampsOrdered, IInv', NEW o,
           NEW hits \in Seq(Blocks), IsInjective(hits), NEW new, NEW newHash,
           Take(o, hits, new, newHash)
    PROVE  StampsOrdered'
<1>1. /\ clock \in Nat /\ clock' \in Nat /\ stamp \in [Blocks -> Nat]
      /\ stamp' \in [Blocks -> Nat] /\ Blocks' = Blocks
      /\ DOMAIN hits = 1..Len(hits) /\ Len(hits) \in Nat
  BY DEF IInv, TypeOK, Blocks
<1>2. /\ clock' = clock + Len(hits)
      /\ \A b \in Blocks : cached'[b] <=> b \notin Range(new) /\ cached[b]
      /\ \A b \in Blocks : b \notin Range(new) =>
            stamp'[b] = IF b \in Range(hits) THEN clock + Pos(hits, b) ELSE stamp[b]
  BY DEF Take
<1>3. \A b \in Range(hits) : b \in Blocks /\ Pos(hits, b) \in 1..Len(hits) /\ hits[Pos(hits, b)] = b
  BY <1>1, PosOfElement, SMTT(30) DEF Range
<1> DEFINE N == Range(hits) \ Range(new)
<1>4. \A b \in N : b \in Blocks /\ clock < stamp'[b] /\ stamp'[b] <= clock'
  BY <1>1, <1>2, <1>3
<1>5. \A b, c \in N : stamp'[b] = stamp'[c] => b = c
  <2>1. \A b \in N : stamp'[b] = clock + Pos(hits, b) /\ Pos(hits, b) \in Nat
    BY <1>1, <1>2, <1>3
  <2>2. \A b, c \in N : stamp'[b] = stamp'[c] => Pos(hits, b) = Pos(hits, c)
    BY <1>1, <2>1
  <2> QED
    BY <1>3, <2>2
<1>6. \A b \in Blocks : cached'[b] => b \in N \/ (cached[b] /\ stamp'[b] = stamp[b])
  BY <1>2
<1>7. clock <= clock'
  BY <1>1, <1>2
<1> HIDE DEF N
<1> QED
  BY <1>1, <1>4, <1>5, <1>6, <1>7, TouchedInTurn

\* So does registering, in the order of the row.
LEMMA RegisterTouches ==
    ASSUME IInv, StampsOrdered, IInv', NEW r \in Reqs, NEW first \in Nat \ {0},
           NEW last \in Int, last <= Len(held[r]),
           clock' = clock + Cardinality(first..last),
           \A b \in Blocks : cached'[b] => b \in Registered(r, first..last) \/ cached[b],
           \A b \in Blocks : cached'[b] => stamp'[b] = RegisteredStamp(r, first..last, first)[b],
           \A b \in Registered(r, first..last) : cached'[b]
    PROVE  StampsOrdered'
<1> DEFINE I == first..last
           N == Registered(r, I)
           row == held[r]
<1>1. /\ clock \in Nat /\ clock' \in Nat /\ stamp \in [Blocks -> Nat]
      /\ stamp' \in [Blocks -> Nat] /\ Blocks' = Blocks
      /\ row \in Seq(Blocks) /\ IsInjective(row) /\ DOMAIN row = 1..Len(row)
      /\ Len(row) \in Nat
  BY DEF IInv, TypeOK, RefCounts, Owners, Blocks
<1>2. I \subseteq DOMAIN row
  BY <1>1
<1>3. \A b \in N : b \in Blocks /\ Pos(row, b) \in I /\ row[Pos(row, b)] = b
  <2> SUFFICES ASSUME NEW b \in N
               PROVE  b \in Blocks /\ Pos(row, b) \in I /\ row[Pos(row, b)] = b
    OBVIOUS
  <2>0. PICK i \in I : b = row[i]
    BY DEF Registered
  <2> HIDE DEF I, N, row
  <2>1. i \in DOMAIN row
    BY <1>2
  <2>a. IsInjective(row)
    BY <1>1
  <2>2. Pos(row, row[i]) = i
    BY ONLY <2>1, <2>a, PosOfElement
  <2>3. row[i] \in Blocks
    BY ONLY <1>1, <2>1
  <2> QED
    BY ONLY i \in I, <2>0, <2>2, <2>3
<1>4. \A b \in N : stamp'[b] = clock + 1 + Pos(row, b) - first
  BY <1>3 DEF RegisteredStamp
<1>5. clock <= clock' /\ \A b \in N : stamp'[b] <= clock'
  <2>0. first \in Int /\ last \in Int
    OBVIOUS
  <2> HIDE DEF I, N, row
  <2>a. Cardinality(first..last) = IF first > last THEN 0 ELSE last - first + 1
    BY <2>0, FS_Interval, Zenon
  <2>1. clock' = clock + (IF first > last THEN 0 ELSE last - first + 1)
    BY <2>a
  <2> USE DEF I
  <2> QED
    BY <1>1, <1>3, <1>4, <2>1
<1>6. \A b \in N : clock < stamp'[b]
  BY <1>1, <1>3, <1>4
<1>7. \A b, c \in N : stamp'[b] = stamp'[c] => b = c
  <2>1. \A b, c \in N : stamp'[b] = stamp'[c] => Pos(row, b) = Pos(row, c)
    BY <1>1, <1>3, <1>4
  <2> QED
    BY <1>3, <2>1
<1>8. \A b \in Blocks : cached'[b] => b \in N \/ (cached[b] /\ stamp'[b] = stamp[b])
  BY DEF RegisteredStamp
<1> HIDE DEF N, I
<1> QED
  BY <1>1, <1>3, <1>5, <1>6, <1>7, <1>8, TouchedInTurn

\* What is popped loses its entry, the least recently accessed block first.
LEMMA TakeEvictsOldest ==
    ASSUME IInv, StampsOrdered, NEW o, NEW hits, NEW new \in Seq(Blocks), NEW newHash,
           Take(o, hits, new, newHash),
           NEW b \in Blocks, cached[b], ~cached'[b]
    PROVE  /\ Range(fifo') = {}
           /\ \A c \in lru \cap lru' : stamp[b] < stamp[c]
<1>1. /\ fifo \in Seq(Blocks) /\ Len(fifo) \in Nat /\ DOMAIN new = 1..Len(new)
      /\ Len(new) \in Nat /\ stamp \in [Blocks -> Nat] /\ lru \in SUBSET Blocks
  BY DEF IInv, TypeOK
<1>2. /\ IsPopOrder(new, lru \ Range(hits))
      /\ fifo' = SubSeq(fifo, Len(new) + 1, Len(fifo))
      /\ lru' = (lru \ Range(hits)) \ Range(new)
      /\ b \in Range(new)
  BY DEF Take, HeapWithout
<1>3. \A i \in 1..Len(fifo) : ~cached[fifo[i]]
  BY <1>1 DEF IInv, FreeQueueExact, Range
<1>4. PICK i \in DOMAIN new : new[i] = b
  BY <1>2 DEF Range
<1>5. ~(i <= Len(fifo))
  <2>1. i <= Len(fifo) => new[i] = fifo[i]
    BY <1>2 DEF IsPopOrder
  <2>2. i <= Len(fifo) => i \in 1..Len(fifo)
    BY <1>1
  <2> QED
    BY <1>3, <1>4, <2>1, <2>2
<1>6. Range(fifo') = {}
  <2>1. \A j : j \in DOMAIN fifo' <=> j \in Nat \ {0} /\ Len(new) + j \in DOMAIN fifo
    BY <1>1, <1>2, SuffixProperties
  <2>2. DOMAIN fifo = 1..Len(fifo) /\ Len(fifo) < Len(new)
    BY <1>1, <1>5
  <2>3. ASSUME NEW j \in DOMAIN fifo'
        PROVE  FALSE
    <3>1. j \in Nat /\ Len(new) + j \in 1..Len(fifo)
      BY <2>1, <2>2
    <3> QED
      BY <1>1, <2>2, <3>1
  <2> QED
    BY <2>3 DEF Range
<1>7. ASSUME NEW c \in lru \cap lru'
      PROVE  stamp[b] < stamp[c]
  <2>1. c \in lru \ Range(hits) /\ c \notin Range(new) /\ c \in Blocks /\ c # b
    BY <1>1, <1>2
  <2>2. ~(stamp[c] < stamp[b])
    <3>1. stamp[c] < stamp[b] => \E j \in Len(fifo) + 1 .. i - 1 : new[j] = c
      BY <1>2, <1>4, <1>5, <2>1 DEF IsPopOrder
    <3>2. \A j \in Len(fifo) + 1 .. i - 1 : j \in DOMAIN new
      BY <1>1
    <3> QED
      BY <2>1, <3>1, <3>2 DEF Range
  <2>3. stamp[c] # stamp[b]
    BY <2>1 DEF IInv, FreeQueueExact, StampsOrdered
  <2> QED
    BY <1>1, <2>1, <2>2, <2>3
<1> QED
  BY <1>6, <1>7

\* The step of EvictsOldestUnderPressure.
OldestEvicted ==
    \A b \in Blocks : cached[b] /\ ~cached'[b] =>
        /\ Range(fifo) \cap Range(fifo') = {} \/ lru' = {}
        /\ \A c \in lru \cap lru' : stamp[b] < stamp[c]

\* Every operation keeps the stamps in order and evicts the oldest.
LEMMA StepEvictsOldest ==
    ASSUME IInv, IInv', StampsOrdered, [Next]_vars
    PROVE  StampsOrdered' /\ OldestEvicted
<1>a. \A o, newHash : \A hits, new \in Seq(Blocks) :
          IsInjective(hits) /\ Take(o, hits, new, newHash) => StampsOrdered' /\ OldestEvicted
  <2> SUFFICES ASSUME NEW o, NEW newHash, NEW hits \in Seq(Blocks), NEW new \in Seq(Blocks),
                      IsInjective(hits), Take(o, hits, new, newHash)
               PROVE  StampsOrdered' /\ OldestEvicted
    OBVIOUS
  <2>1. StampsOrdered'
    BY TakeTouches
  <2>2. ASSUME NEW b \in Blocks, cached[b], ~cached'[b]
        PROVE  /\ Range(fifo') = {}
               /\ \A c \in lru \cap lru' : stamp[b] < stamp[c]
    BY <2>2, TakeEvictsOldest
  <2> QED
    BY <2>1, <2>2 DEF OldestEvicted
<1>b. <<>> \in Seq(Blocks) /\ IsInjective(<<>>)
  BY DEF IsInjective
<1>c. ASSUME UNCHANGED <<cached, stamp, clock>>
      PROVE  StampsOrdered' /\ OldestEvicted
  <2>1. Blocks' = Blocks
    BY DEF Blocks
  <2> QED
    BY <1>c, <2>1 DEF StampsOrdered, OldestEvicted
<1>1. ASSUME NEW r \in Reqs, Allocate(r)
      PROVE  StampsOrdered' /\ OldestEvicted
  <2>1. PICK h \in 0..Len(InputKeys[r]) :
          /\ IsHitCount(r, h)
          /\ \E new \in [1..MissCount(r, h) -> Blocks] :
               Take(r, HitBlocks(r, h), new,
                    [i \in DOMAIN new |-> IF h + i <= Len(InputKeys[r])
                                          THEN InputKeys[r][h + i] ELSE NoKey])
    BY <1>1 DEF Allocate
  <2>2. PICK new \in [1..MissCount(r, h) -> Blocks] :
           Take(r, HitBlocks(r, h), new,
                [i \in DOMAIN new |-> IF h + i <= Len(InputKeys[r])
                                      THEN InputKeys[r][h + i] ELSE NoKey])
    BY <2>1
  <2>3. MissCount(r, h) \in Int
    BY ChainType, LogicalCoversInput DEF MissCount
  <2>4. new \in Seq(Blocks)
    BY <2>3, FunctionIsSeq
  <2>5. HitBlocks(r, h) \in Seq(Blocks) /\ IsInjective(HitBlocks(r, h))
    BY <2>1, HitsAreThePrefix
  <2> QED
    BY <1>a, <2>2, <2>4, <2>5
<1>2. ASSUME NEW r \in Reqs, AppendSlot(r)
      PROVE  StampsOrdered' /\ OldestEvicted
  <2>1. PICK new \in [1..1 -> Blocks] : Take(r, <<>>, new, <<NoKey>>)
    BY <1>2 DEF AppendSlot
  <2>2. ASSUME NEW m \in Int, new \in [1..m -> Blocks]
        PROVE  new \in Seq(Blocks)
    BY <2>2, FunctionIsSeq
  <2>3. 1 \in Int /\ new \in [1..1 -> Blocks]
    OBVIOUS
  <2>4. new \in Seq(Blocks)
    BY <2>2, <2>3
  <2> QED
    BY <1>a, <1>b, <2>1, <2>4
<1>3. ASSUME NEW n \in 1..NumBlocks, ReserveBlocks(n)
      PROVE  StampsOrdered' /\ OldestEvicted
  <2>1. PICK new \in [1..n -> Blocks] :
           Take(Reserve, <<>>, new, [i \in 1..n |-> NoKey])
    BY <1>3 DEF ReserveBlocks
  <2>2. new \in Seq(Blocks)
    BY FunctionIsSeq
  <2> QED
    BY <1>a, <1>b, <2>1, <2>2
<1>4. ASSUME NEW n \in 1..NumBlocks, ReserveFails(n)
      PROVE  StampsOrdered' /\ OldestEvicted
  <2>1. PICK new \in [1..NumFree -> Blocks] :
          /\ cached' = [b \in Blocks |-> b \notin Range(new) /\ cached[b]]
          /\ stamp' = [b \in Blocks |-> IF b \in Range(new) THEN 0 ELSE stamp[b]]
    BY <1>4 DEF ReserveFails
  <2>2. /\ \A b \in Blocks : cached'[b] => cached[b] /\ stamp'[b] = stamp[b]
        /\ clock' = clock /\ lru' = {} /\ Blocks' = Blocks
    BY <1>4, <2>1 DEF ReserveFails, Blocks
  <2> QED
    BY <2>2 DEF StampsOrdered, OldestEvicted
<1>5. ASSUME NEW r \in Reqs, CommitInput(r)
      PROVE  StampsOrdered' /\ OldestEvicted
  <2> DEFINE last == Lesser(Len(held[r]), Len(InputKeys[r]))
             I == 1..last
  <2>1. /\ cached' = [b \in Blocks |-> b \in Registered(r, I) \/ cached[b]]
        /\ stamp' = RegisteredStamp(r, I, 1)
        /\ clock' = clock + Cardinality(I)
    BY <1>5 DEF CommitInput
  <2>2. /\ held[r] \in Seq(Blocks) /\ Len(held[r]) \in Nat /\ DOMAIN held[r] = 1..Len(held[r])
        /\ Len(InputKeys[r]) \in Nat
    BY ChainType DEF IInv, TypeOK, Owners
  <2>3. last \in Int /\ last <= Len(held[r]) /\ 1 \in Nat \ {0}
    BY <2>2 DEF Lesser
  <2>4. Registered(r, I) \subseteq Blocks
    BY <2>2, <2>3 DEF Registered
  <2> HIDE DEF last
  <2>5. StampsOrdered'
    BY <2>1, <2>3, <2>4, RegisterTouches
  <2>6. \A b \in Blocks : cached[b] => cached'[b]
    BY <2>1
  <2> QED
    BY <2>5, <2>6 DEF OldestEvicted
<1>6. ASSUME NEW r \in Reqs, Finish(r)
      PROVE  StampsOrdered' /\ OldestEvicted
  <2> DEFINE first == IF committed[r] THEN Len(InputKeys[r]) + 1 ELSE 1
             last == Lesser(Len(held[r]), Len(Chain(r)))
             I == first..last
             keep == CachedBlocks \cup Registered(r, I)
  <2>1. /\ FreeFirst(r, Len(held[r]), keep, RegisteredHash(r, I), RegisteredStamp(r, I, first))
        /\ cached' = [b \in Blocks |-> b \in keep]
        /\ clock' = clock + Cardinality(I)
    BY <1>6 DEF Finish
  <2>2. /\ held[r] \in Seq(Blocks) /\ Len(held[r]) \in Nat /\ DOMAIN held[r] = 1..Len(held[r])
        /\ Len(InputKeys[r]) \in Nat /\ Len(Chain(r)) \in Nat
    BY ChainType DEF IInv, TypeOK, Owners
  <2>3. last \in Int /\ last <= Len(held[r]) /\ first \in Nat \ {0}
    BY <2>2 DEF Lesser
  <2>4. Registered(r, I) \subseteq Blocks
    BY <2>2, <2>3 DEF Registered
  <2> HIDE DEF first, last
  <2>5. \A b \in Blocks : cached'[b] <=> b \in keep
    BY <2>1
  <2>6. \A b \in Blocks : b \in keep => stamp'[b] = RegisteredStamp(r, I, first)[b]
    BY <2>1 DEF FreeFirst
  <2>7. \A b \in Blocks : b \in CachedBlocks <=> cached[b]
    BY DEF CachedBlocks
  <2>8. StampsOrdered'
    <3>1. \A b \in Blocks : cached'[b] => b \in Registered(r, I) \/ cached[b]
      BY <2>5, <2>7
    <3>2. \A b \in Blocks : cached'[b] => stamp'[b] = RegisteredStamp(r, I, first)[b]
      BY <2>5, <2>6
    <3>3. \A b \in Registered(r, I) : cached'[b]
      BY <2>4, <2>5
    <3> QED
      BY <2>1, <2>3, <3>1, <3>2, <3>3, RegisterTouches
  <2>9. \A b \in Blocks : cached[b] => cached'[b]
    BY <2>5, <2>7
  <2> QED
    BY <2>8, <2>9 DEF OldestEvicted
<1>7. ASSUME NEW r \in Reqs, Step(r)
      PROVE  StampsOrdered' /\ OldestEvicted
  BY <1>7, <1>c DEF Step
<1>8. ASSUME NEW o \in Owners, NEW k \in 0..Len(held[o]),
             FreeFirst(o, k, CachedBlocks, hash, stamp), UNCHANGED <<cached, clock>>
      PROVE  StampsOrdered' /\ OldestEvicted
  <2>1. \A b \in Blocks : cached[b] => b \in CachedBlocks
    BY DEF CachedBlocks
  <2>2. \A b \in Blocks : cached[b] => stamp'[b] = stamp[b]
    BY <1>8, <2>1 DEF FreeFirst
  <2>3. Blocks' = Blocks
    BY DEF Blocks
  <2> QED
    BY <1>8, <2>2, <2>3 DEF StampsOrdered, OldestEvicted
<1>9. ASSUME NEW r \in Reqs, Release(r)
      PROVE  StampsOrdered' /\ OldestEvicted
  <2>1. r \in Owners /\ Len(held[r]) \in 0..Len(held[r])
    BY DEF IInv, TypeOK, Owners
  <2> QED
    BY <1>8, <1>9, <2>1 DEF Release
<1>10. ASSUME NEW n \in 1..NumBlocks, ReleaseReserved(n)
       PROVE  StampsOrdered' /\ OldestEvicted
  <2>1. Reserve \in Owners /\ n \in 0..Len(held[Reserve])
    BY <1>10, SizesAssumption DEF ReleaseReserved, IInv, TypeOK, Owners
  <2> QED
    BY <1>8, <1>10, <2>1 DEF ReleaseReserved
<1>11. CASE UNCHANGED vars
  BY <1>11, <1>c DEF vars
<1> QED
  BY <1>1, <1>2, <1>3, <1>4, <1>5, <1>6, <1>7, <1>9, <1>10, <1>11 DEF Next

\* A cache entry is lost only when no uncached block is left, and every cached
\* block that stays free was accessed later.
THEOREM OldestEntryGoesFirst == Spec => EvictsOldestUnderPressure
<1>1. Init => StampsOrdered
  BY DEF Init, StampsOrdered
<1>2. IInv /\ IInv' /\ StampsOrdered /\ [Next]_vars => StampsOrdered' /\ [OldestEvicted]_vars
  BY StepEvictsOldest
<1>3. [OldestEvicted]_vars
        <=> [\A b \in Blocks : cached[b] /\ ~cached'[b] =>
               /\ Range(fifo) \cap Range(fifo') = {} \/ lru' = {}
               /\ \A c \in lru \cap lru' : stamp[b] < stamp[c]]_vars
  BY DEF OldestEvicted
<1> QED
  BY <1>1, <1>2, <1>3, BlocksInvariant, PTL DEF Spec, EvictsOldestUnderPressure
=============================================================================
