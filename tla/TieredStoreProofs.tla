-------------------------- MODULE TieredStoreProofs --------------------------
(* Proofs about TieredStore: what TLC checks on two ranks of a few keys      *)
(* holds for every set of keys, every partition of them, every capacity and  *)
(* every policy.  The last part is about StoreLedger: the statistics agree   *)
(* with each other and with what the store did, however many calls there are *)
EXTENDS StoreLedger, SequenceFacts

-----------------------------------------------------------------------------
(* The invariant, on the store's contents as a record *)

Store ==
    [tier : [Keys -> {"none", "memory", "ssd"}],
     read : [Keys -> BOOLEAN],
     memLru : [Parts -> Seq(Keys)],
     memUsed : [Parts -> Nat],
     offLru : [Parts -> Seq(Keys)]]

\* The policy under which only blocks that were read go to the offload tier.
Filtered ==
    /\ policy.write = "write_back" /\ policy.demote = "if_read"
    /\ policy.evict = "lru" /\ MemCap > 0

Holds(s, k) == k \in Range(s.offLru[PartOf[k]])

MemorySound(s) ==
    \A p \in Parts :
        /\ IsInjective(s.memLru[p])
        /\ Range(s.memLru[p]) = {k \in Keys : PartOf[k] = p /\ s.tier[k] = "memory"}
        /\ s.memUsed[p] = Len(s.memLru[p])
        /\ s.memUsed[p] <= MemCap

OffloadSound(s) ==
    \A p \in Parts :
        /\ IsInjective(s.offLru[p])
        /\ \A k \in Range(s.offLru[p]) :
            /\ PartOf[k] = p /\ s.tier[k] # "none" /\ policy.offload
            /\ Filtered => s.read[k]
        /\ ~policy.unlimited => Len(s.offLru[p]) <= OffCap

Sound(s) ==
    /\ s \in Store
    /\ MemorySound(s)
    /\ OffloadSound(s)
    /\ \A k \in Keys : s.tier[k] = "ssd" => Holds(s, k)

\* Sound but for k, which the offload tier is about to be given.
ReadyToWrite(s, k) ==
    /\ s \in Store
    /\ MemorySound(s)
    /\ OffloadSound(s)
    /\ \A j \in Keys \ {k} : s.tier[j] = "ssd" => Holds(s, j)
    /\ policy.offload /\ s.tier[k] # "none"
    /\ Filtered => s.read[k]

-----------------------------------------------------------------------------
(* The orders *)

\* A list without k, with k moved to its end and with k stored at its end has
\* the other elements it had, each once.
LEMMA OrderWithout ==
    ASSUME NEW s \in Seq(Keys), IsInjective(s), NEW k \in Keys
    PROVE  /\ Without(s, k) \in Seq(Keys) /\ IsInjective(Without(s, k))
           /\ Range(Without(s, k)) = Range(s) \ {k}
           /\ Len(Without(s, k)) = IF k \in Range(s) THEN Len(s) - 1 ELSE Len(s)
<1>1. CASE k \in Range(s)
  <2> DEFINE i == CHOOSE j \in DOMAIN s : s[j] = k
  <2>1. i \in DOMAIN s /\ s[i] = k
    BY <1>1 DEF Range
  <2>2. Without(s, k) = SubSeq(s, 1, i - 1) \o SubSeq(s, i + 1, Len(s))
    BY <1>1 DEF Without
  <2> DEFINE t == SubSeq(s, 1, i - 1) \o SubSeq(s, i + 1, Len(s))
  <2> HIDE DEF i
  <2>3. /\ t \in Seq(Keys) /\ IsInjective(t)
        /\ Len(t) = Len(s) - 1
        /\ Range(t) = Range(s) \ {s[i]}
    BY ONLY s \in Seq(Keys), IsInjective(s), <2>1, RemovalRange
  <2> HIDE DEF t
  <2>4. Without(s, k) = t
    BY <2>2 DEF t
  <2>5. QED
    BY <1>1, <2>1, <2>3, <2>4
<1>2. CASE k \notin Range(s)
  BY <1>2 DEF Without
<1>3. QED
  BY <1>1, <1>2

LEMMA OrderMoved ==
    ASSUME NEW s \in Seq(Keys), IsInjective(s), NEW k \in Keys
    PROVE  /\ MoveToEnd(s, k) \in Seq(Keys) /\ IsInjective(MoveToEnd(s, k))
           /\ Range(MoveToEnd(s, k)) = Range(s)
           /\ Len(MoveToEnd(s, k)) = Len(s)
<1>1. CASE k \in Range(s)
  <2> DEFINE t == Without(s, k)
  <2>1. /\ t \in Seq(Keys) /\ IsInjective(t) /\ Range(t) = Range(s) \ {k}
        /\ Len(t) = Len(s) - 1 /\ Len(s) \in Nat
    BY <1>1, OrderWithout, LenProperties
  <2>2. MoveToEnd(s, k) = Append(t, k)
    BY <1>1 DEF MoveToEnd
  <2> HIDE DEF t
  <2>3. /\ Append(t, k) \in Seq(Keys) /\ IsInjective(Append(t, k))
        /\ Range(Append(t, k)) = Range(t) \cup {k} /\ Len(Append(t, k)) = Len(t) + 1
    BY <2>1, AppendRange
  <2>4. QED
    BY <1>1, <2>1, <2>2, <2>3
<1>2. CASE k \notin Range(s)
  BY <1>2 DEF MoveToEnd
<1>3. QED
  BY <1>1, <1>2

LEMMA OrderStored ==
    ASSUME NEW s \in Seq(Keys), IsInjective(s), NEW k \in Keys
    PROVE  /\ Stored(s, k) \in Seq(Keys) /\ IsInjective(Stored(s, k))
           /\ Range(Stored(s, k)) = Range(s) \cup {k}
           /\ Len(Stored(s, k)) = IF k \in Range(s) THEN Len(s) ELSE Len(s) + 1
           /\ Head(Stored(s, k)) = k => Len(Stored(s, k)) = 1
<1> DEFINE t == Without(s, k)
<1>1. /\ t \in Seq(Keys) /\ IsInjective(t) /\ Range(t) = Range(s) \ {k}
      /\ Len(t) = IF k \in Range(s) THEN Len(s) - 1 ELSE Len(s)
      /\ Len(s) \in Nat
  BY OrderWithout, LenProperties
<1>2. Stored(s, k) = Append(t, k)
  BY DEF Stored
<1> HIDE DEF t
<1>3. /\ Append(t, k) \in Seq(Keys) /\ IsInjective(Append(t, k))
      /\ Range(Append(t, k)) = Range(t) \cup {k} /\ Len(Append(t, k)) = Len(t) + 1
      /\ Head(Append(t, k)) = IF t = <<>> THEN k ELSE Head(t)
  BY <1>1, AppendRange
<1>4. t # <<>> => Head(t) \in Range(t)
  BY <1>1, TailRange
<1>5. t = <<>> => Len(t) = 0
  BY EmptySeq
<1>6. QED
  BY <1>1, <1>2, <1>3, <1>4, <1>5

-----------------------------------------------------------------------------
(* A write to the offload tier *)

\* What a full tier keeps when it evicts.
Rest(s, p) == IF FullTier(s, p) THEN Tail(s.offLru[p]) ELSE s.offLru[p]

\* Dropping keys changes their objects and nothing else.
LEMMA DroppedFields ==
    ASSUME NEW s \in Store, NEW K
    PROVE  LET t == Dropped(s, K)
           IN  /\ t \in Store
               /\ t.memLru = s.memLru /\ t.memUsed = s.memUsed /\ t.offLru = s.offLru
               /\ \A j \in Keys : t.tier[j] = IF j \in K THEN "none" ELSE s.tier[j]
               /\ \A j \in Keys : t.read[j] = (j \notin K /\ s.read[j])
BY DEF Dropped, Store

LEMMA WriteFields ==
    ASSUME NEW s \in Store, OffloadSound(s), NEW k \in Keys
    PROVE  LET t == OffloadWrite(s, k)
               p == PartOf[k]
               V == OffloadVictims(s, k)
           IN  /\ t \in Store
               /\ t.memLru = s.memLru /\ t.memUsed = s.memUsed
               /\ \A q \in Parts \ {p} : t.offLru[q] = s.offLru[q]
               /\ t.offLru[p] = Stored(Rest(s, p), k)
               /\ \A j \in Keys : t.tier[j] = IF j \in V THEN "none" ELSE s.tier[j]
               /\ \A j \in Keys : t.read[j] = (j \notin V /\ s.read[j])
<1> DEFINE p == PartOf[k]
           V == OffloadVictims(s, k)
           new == Stored(Rest(s, p), k)
           w == [s EXCEPT !.offLru[p] = new]
<1>1. p \in Parts /\ s.offLru[p] \in Seq(Keys) /\ IsInjective(s.offLru[p])
  BY StoreAssumption DEF Store, OffloadSound
<1>2. new \in Seq(Keys)
  <2>1. FullTier(s, p) => s.offLru[p] # <<>>
    BY <1>1, StoreAssumption, EmptySeq DEF FullTier
  <2>2. Rest(s, p) \in Seq(Keys) /\ IsInjective(Rest(s, p))
    BY <1>1, <2>1, TailRange DEF Rest
  <2>3. QED
    BY <2>2, OrderStored
<1>3. OffloadWrite(s, k) = Dropped(w, V)
  BY DEF OffloadWrite, Rest
<1> HIDE DEF V, new
<1>4. /\ w \in Store /\ w.tier = s.tier /\ w.read = s.read
      /\ w.memLru = s.memLru /\ w.memUsed = s.memUsed
      /\ w.offLru = [s.offLru EXCEPT ![p] = new]
  BY <1>1, <1>2 DEF Store
<1>5. w.offLru[p] = new /\ \A q \in Parts \ {p} : w.offLru[q] = s.offLru[q]
  BY <1>1, <1>4 DEF Store
<1> HIDE DEF w
<1>6. /\ Dropped(w, V) \in Store
      /\ Dropped(w, V).memLru = w.memLru /\ Dropped(w, V).memUsed = w.memUsed
      /\ Dropped(w, V).offLru = w.offLru
      /\ \A j \in Keys : Dropped(w, V).tier[j] = IF j \in V THEN "none" ELSE w.tier[j]
      /\ \A j \in Keys : Dropped(w, V).read[j] = (j \notin V /\ w.read[j])
  BY <1>4, DroppedFields
<1>7. QED
  BY <1>3, <1>4, <1>5, <1>6 DEF new, V

\* What a tier holds after a write: the key, and all it held unless it was full;
\* then it gave up its oldest entry first.
LEMMA WriteOrder ==
    ASSUME NEW s \in Store, OffloadSound(s), NEW k \in Keys
    PROVE  LET p == PartOf[k]
               old == s.offLru[p]
               new == OffloadWrite(s, k).offLru[p]
           IN  /\ old \in Seq(Keys) /\ new \in Seq(Keys) /\ IsInjective(new)
               /\ Head(new) = k => Len(new) = 1
               /\ FullTier(s, p) =>
                    /\ old # <<>> /\ Head(old) \in Range(old)
                    /\ Range(new) = (Range(old) \ {Head(old)}) \cup {k}
                    /\ Len(new) = IF k \in Range(old) \ {Head(old)}
                                  THEN Len(old) - 1 ELSE Len(old)
               /\ ~FullTier(s, p) =>
                    /\ Range(new) = Range(old) \cup {k}
                    /\ Len(new) = IF k \in Range(old) THEN Len(old) ELSE Len(old) + 1
<1> DEFINE p == PartOf[k]
           old == s.offLru[p]
           rest == Rest(s, p)
           new == OffloadWrite(s, k).offLru[p]
<1>1. p \in Parts /\ old \in Seq(Keys) /\ IsInjective(old) /\ Len(old) \in Nat
  BY StoreAssumption, LenProperties DEF Store, OffloadSound
<1>2. FullTier(s, p) => old # <<>>
  BY <1>1, StoreAssumption, EmptySeq DEF FullTier
<1>3. new = Stored(rest, k)
  BY WriteFields
<1>4. FullTier(s, p) => rest = Tail(old)
  BY DEF Rest
<1>5. ~FullTier(s, p) => rest = old
  BY DEF Rest
<1> HIDE DEF old, rest, new
<1>6. FullTier(s, p) =>
        /\ rest \in Seq(Keys) /\ IsInjective(rest) /\ Head(old) \in Range(old)
        /\ Range(rest) = Range(old) \ {Head(old)} /\ Len(rest) = Len(old) - 1
  <2>1. SUFFICES ASSUME FullTier(s, p)
                 PROVE  /\ rest \in Seq(Keys) /\ IsInjective(rest) /\ Head(old) \in Range(old)
                        /\ Range(rest) = Range(old) \ {Head(old)}
                        /\ Len(rest) = Len(old) - 1
    OBVIOUS
  <2>2. old # <<>> /\ rest = Tail(old)
    BY <1>2, <1>4, <2>1
  <2>3. /\ Tail(old) \in Seq(Keys) /\ Head(old) \in Range(old)
        /\ Len(Tail(old)) = Len(old) - 1
        /\ Range(old) = Range(Tail(old)) \cup {Head(old)}
        /\ IsInjective(Tail(old)) /\ Head(old) \notin Range(Tail(old))
    BY <1>1, <2>2, TailRange
  <2>4. QED
    BY <2>2, <2>3
<1>7. rest \in Seq(Keys) /\ IsInjective(rest)
  BY <1>1, <1>5, <1>6
<1>8. /\ new \in Seq(Keys) /\ IsInjective(new)
      /\ Range(new) = Range(rest) \cup {k}
      /\ Len(new) = IF k \in Range(rest) THEN Len(rest) ELSE Len(rest) + 1
      /\ Head(new) = k => Len(new) = 1
  BY <1>3, <1>7, OrderStored
<1>9. FullTier(s, p) =>
        Len(new) = IF k \in Range(old) \ {Head(old)} THEN Len(old) - 1 ELSE Len(old)
  BY <1>1, <1>6, <1>8
<1>10. QED
  BY <1>1, <1>2, <1>5, <1>6, <1>8, <1>9 DEF old, new

\* OffloadWrite: the key has its data, the victim loses its object with it.
LEMMA WriteKeeps ==
    ASSUME NEW s, NEW k \in Keys, ReadyToWrite(s, k)
    PROVE  Sound(OffloadWrite(s, k)) /\ OffloadWrite(s, k).tier[k] = s.tier[k]
<1> DEFINE t == OffloadWrite(s, k)
           p == PartOf[k]
           old == s.offLru[p]
           new == t.offLru[p]
           V == OffloadVictims(s, k)
<1>1. s \in Store /\ OffloadSound(s) /\ p \in Parts
  BY StoreAssumption DEF ReadyToWrite
<1>2. /\ t \in Store
      /\ t.memLru = s.memLru /\ t.memUsed = s.memUsed
      /\ \A q \in Parts \ {p} : t.offLru[q] = s.offLru[q]
      /\ \A j \in Keys : t.tier[j] = IF j \in V THEN "none" ELSE s.tier[j]
      /\ \A j \in Keys : t.read[j] = (j \notin V /\ s.read[j])
  BY <1>1, WriteFields
<1>3. V = {v \in Keys : FullTier(s, p) /\ v = Head(old) /\ v # k /\ s.tier[v] = "ssd"}
  BY DEF OffloadVictims
<1>4. /\ old \in Seq(Keys) /\ new \in Seq(Keys) /\ IsInjective(new)
      /\ FullTier(s, p) =>
           /\ Head(old) \in Range(old)
           /\ Range(new) = (Range(old) \ {Head(old)}) \cup {k}
           /\ Len(new) = IF k \in Range(old) \ {Head(old)} THEN Len(old) - 1 ELSE Len(old)
      /\ ~FullTier(s, p) =>
           /\ Range(new) = Range(old) \cup {k}
           /\ Len(new) = IF k \in Range(old) THEN Len(old) ELSE Len(old) + 1
  BY <1>1, WriteOrder
<1>5. Len(old) \in Nat /\ Len(new) \in Nat /\ (~policy.unlimited => Len(old) <= OffCap)
  BY <1>1, <1>4, LenProperties DEF OffloadSound
<1> HIDE DEF t, V, new, old
<1>6. \A j \in V : s.tier[j] = "ssd" /\ j # k /\ PartOf[j] = p /\ j \notin Range(new)
  <2>1. ASSUME NEW j \in V
        PROVE  /\ s.tier[j] = "ssd" /\ j # k /\ j \in Range(old) /\ j \notin Range(new)
    BY <1>3, <1>4
  <2>2. \A j \in Range(old) : PartOf[j] = p
    BY <1>1 DEF OffloadSound, old
  <2>3. QED
    BY <2>1, <2>2
<1>7. MemorySound(t)
  <2>1. \A j \in Keys : t.tier[j] = "memory" <=> s.tier[j] = "memory"
    BY <1>2, <1>6
  <2>2. MemorySound(s)
    BY DEF ReadyToWrite
  <2>3. QED
    BY <1>2, <2>1, <2>2 DEF MemorySound
<1>8. OffloadSound(t)
  <2>1. SUFFICES ASSUME NEW q \in Parts
                 PROVE  /\ IsInjective(t.offLru[q])
                        /\ \A j \in Range(t.offLru[q]) :
                             /\ PartOf[j] = q /\ t.tier[j] # "none" /\ policy.offload
                             /\ Filtered => t.read[j]
                        /\ ~policy.unlimited => Len(t.offLru[q]) <= OffCap
    BY DEF OffloadSound
  <2>2. /\ s.offLru[q] \in Seq(Keys) /\ IsInjective(s.offLru[q])
        /\ \A j \in Range(s.offLru[q]) :
             /\ j \in Keys /\ PartOf[j] = q /\ s.tier[j] # "none"
             /\ Filtered => s.read[j]
        /\ ~policy.unlimited => Len(s.offLru[q]) <= OffCap
    BY <1>1, RangeOfSeq DEF OffloadSound, Store
  <2>3. CASE q # p
    <3>1. t.offLru[q] = s.offLru[q]
      BY <1>2, <2>3
    <3>2. \A j \in Range(s.offLru[q]) : j \notin V
      BY <1>6, <2>2, <2>3
    <3>3. QED
      BY <1>2, <2>2, <3>1, <3>2 DEF ReadyToWrite
  <2>4. CASE q = p
    <3>1. t.offLru[q] = new /\ s.offLru[q] = old
      BY <2>4 DEF new, old
    <3>2. \A j \in Range(new) : j \in Range(old) \/ j = k
      BY <1>4
    <3>3. \A j \in Range(new) : j \notin V
      BY <1>6
    <3>4. /\ s.tier[k] # "none" /\ policy.offload /\ PartOf[k] = q
          /\ Filtered => s.read[k]
      BY <2>4 DEF ReadyToWrite
    <3>5. ~policy.unlimited => Len(new) <= OffCap
      BY <1>4, <1>5, StoreAssumption DEF FullTier, old
    <3>6. \A j \in Range(new) : j \in Keys /\ PartOf[j] = q /\ s.tier[j] # "none"
                                /\ (Filtered => s.read[j])
      BY <2>2, <3>1, <3>2, <3>4
    <3>7. \A j \in Range(new) : /\ t.tier[j] = IF j \in V THEN "none" ELSE s.tier[j]
                                /\ t.read[j] = (j \notin V /\ s.read[j])
      BY <1>2, <3>6
    <3>8. \A j \in Range(new) : /\ PartOf[j] = q /\ t.tier[j] # "none" /\ policy.offload
                                /\ Filtered => t.read[j]
      BY <3>3, <3>4, <3>6, <3>7
    <3>9. QED
      BY <1>4, <3>1, <3>5, <3>8
  <2>5. QED
    BY <2>3, <2>4
<1>9. \A j \in Keys : t.tier[j] = "ssd" => Holds(t, j)
  <2>1. SUFFICES ASSUME NEW j \in Keys, t.tier[j] = "ssd"
                 PROVE  j \in Range(t.offLru[PartOf[j]])
    BY DEF Holds
  <2>2. j \notin V /\ s.tier[j] = "ssd" /\ PartOf[j] \in Parts
    BY <1>2, <2>1, StoreAssumption
  <2>3. j # k => j \in Range(s.offLru[PartOf[j]])
    BY <2>2 DEF ReadyToWrite, Holds
  <2>4. CASE PartOf[j] # p
    BY <1>2, <2>2, <2>3, <2>4
  <2>5. CASE PartOf[j] = p
    <3>1. j = k \/ (j \in Range(old) /\ (FullTier(s, p) => j # Head(old)))
      BY <1>3, <2>2, <2>3, <2>5 DEF old
    <3>2. j \in Range(new)
      BY <1>4, <3>1
    <3>3. QED
      BY <2>5, <3>2 DEF new
  <2>6. QED
    BY <2>4, <2>5
<1>10. t.tier[k] = s.tier[k]
  BY <1>2, <1>6
<1>11. QED
  BY <1>2, <1>7, <1>8, <1>9, <1>10 DEF Sound, t

-----------------------------------------------------------------------------
(* Evictions and admissions of the memory tier *)

\* The memory tier after its oldest block left it, whatever becomes of the block.
LEMMA PoppedMemory ==
    ASSUME NEW s, Sound(s), NEW p \in Parts, s.memLru[p] # <<>>
    PROVE  LET u == Popped(s, p)
               v == Head(s.memLru[p])
           IN  /\ u \in Store
               /\ u.tier = s.tier /\ u.read = s.read /\ u.offLru = s.offLru
               /\ u.memUsed[p] = s.memUsed[p] - 1
               /\ v \in Keys /\ PartOf[v] = p /\ s.tier[v] = "memory"
               /\ \A t \in Store :
                    /\ t.memLru = u.memLru /\ t.memUsed = u.memUsed
                    /\ t.tier[v] # "memory"
                    /\ \A j \in Keys \ {v} : t.tier[j] = "memory" <=> s.tier[j] = "memory"
                    => MemorySound(t)
<1> DEFINE lru == s.memLru[p]
           v == Head(lru)
           u == Popped(s, p)
<1>1. /\ s \in Store /\ lru \in Seq(Keys) /\ IsInjective(lru)
      /\ Range(lru) = {k \in Keys : PartOf[k] = p /\ s.tier[k] = "memory"}
      /\ s.memUsed[p] = Len(lru) /\ s.memUsed[p] <= MemCap /\ s.memUsed[p] \in Nat
  BY DEF Sound, MemorySound, Store
<1>2. /\ Tail(lru) \in Seq(Keys) /\ v \in Range(lru) /\ IsInjective(Tail(lru))
      /\ Len(Tail(lru)) = Len(lru) - 1 /\ Len(lru) \in Nat \ {0}
      /\ Range(Tail(lru)) = Range(lru) \ {v}
  <2>1. lru # <<>>
    OBVIOUS
  <2> HIDE DEF lru
  <2>2. /\ Tail(lru) \in Seq(Keys) /\ v \in Range(lru) /\ IsInjective(Tail(lru))
        /\ Len(Tail(lru)) = Len(lru) - 1 /\ Len(lru) \in Nat \ {0}
        /\ Range(lru) = Range(Tail(lru)) \cup {v} /\ v \notin Range(Tail(lru))
    BY <1>1, <2>1, TailRange
  <2>3. QED
    BY <2>2
<1>3. v \in Keys /\ PartOf[v] = p /\ s.tier[v] = "memory"
  BY <1>1, <1>2
<1>4. /\ u \in Store
      /\ u.tier = s.tier /\ u.read = s.read /\ u.offLru = s.offLru
      /\ u.memLru[p] = Tail(lru) /\ u.memUsed[p] = s.memUsed[p] - 1
      /\ \A q \in Parts \ {p} : u.memLru[q] = s.memLru[q] /\ u.memUsed[q] = s.memUsed[q]
  <2>1. s.memUsed[p] - 1 \in Nat
    BY <1>1, <1>2
  <2>2. QED
    BY <1>1, <1>2, <2>1 DEF Popped, Store
<1> HIDE DEF lru, v, u
<1>5. ASSUME NEW t \in Store, t.memLru = u.memLru, t.memUsed = u.memUsed,
             t.tier[v] # "memory",
             \A j \in Keys \ {v} : t.tier[j] = "memory" <=> s.tier[j] = "memory"
      PROVE  MemorySound(t)
  <2>1. SUFFICES ASSUME NEW q \in Parts
                 PROVE  /\ IsInjective(t.memLru[q])
                        /\ Range(t.memLru[q]) =
                             {k \in Keys : PartOf[k] = q /\ t.tier[k] = "memory"}
                        /\ t.memUsed[q] = Len(t.memLru[q])
                        /\ t.memUsed[q] <= MemCap
    BY DEF MemorySound
  <2>2. CASE q = p
    <3>1. Range(Tail(lru)) = {k \in Keys : PartOf[k] = p /\ t.tier[k] = "memory"}
      BY <1>1, <1>2, <1>5
    <3>2. s.memUsed[p] - 1 = Len(Tail(lru)) /\ s.memUsed[p] - 1 <= MemCap
      BY <1>1, <1>2, StoreAssumption
    <3>3. QED
      BY <1>2, <1>4, <1>5, <2>2, <3>1, <3>2, ZenonT(30)
  <2>3. CASE q # p
    <3>1. /\ IsInjective(s.memLru[q])
          /\ Range(s.memLru[q]) = {k \in Keys : PartOf[k] = q /\ s.tier[k] = "memory"}
          /\ s.memUsed[q] = Len(s.memLru[q]) /\ s.memUsed[q] <= MemCap
      BY DEF Sound, MemorySound
    <3>2. {k \in Keys : PartOf[k] = q /\ t.tier[k] = "memory"}
            = {k \in Keys : PartOf[k] = q /\ s.tier[k] = "memory"}
      BY <1>3, <1>5, <2>3
    <3>3. QED
      BY <1>4, <1>5, <2>3, <3>1, <3>2
  <2>4. QED
    BY <2>2, <2>3
<1>6. QED
  BY <1>3, <1>4, <1>5 DEF lru, v, u

\* What the offload tier needs of the objects: those it holds keep theirs.
LEMMA OffloadUndisturbed ==
    ASSUME NEW s, Sound(s), NEW t \in Store, t.offLru = s.offLru,
           \A p \in Parts : \A k \in Range(s.offLru[p]) :
               t.tier[k] # "none" /\ (Filtered => t.read[k])
    PROVE  OffloadSound(t)
BY DEF Sound, OffloadSound

\* The block that the memory tier evicts is in the offload tier or gone.
LEMMA EvictKeeps ==
    ASSUME NEW s, Sound(s), NEW p \in Parts, s.memLru[p] # <<>>
    PROVE  LET t == EvictMemory(s, p)
           IN  /\ Sound(t)
               /\ t.memUsed[p] = s.memUsed[p] - 1
               /\ \A k \in Keys : s.tier[k] = "none" => t.tier[k] = "none"
<1> DEFINE u == Popped(s, p)
           v == Head(s.memLru[p])
           t == EvictMemory(s, p)
<1>1. /\ u \in Store
      /\ u.tier = s.tier /\ u.read = s.read /\ u.offLru = s.offLru
      /\ u.memUsed[p] = s.memUsed[p] - 1
      /\ v \in Keys /\ PartOf[v] = p /\ s.tier[v] = "memory"
  BY PoppedMemory
<1>2. ASSUME NEW x \in Store, x.memLru = u.memLru, x.memUsed = u.memUsed,
             x.tier[v] # "memory",
             \A j \in Keys \ {v} : x.tier[j] = "memory" <=> s.tier[j] = "memory"
      PROVE  MemorySound(x)
  BY <1>2, PoppedMemory
<1>3. /\ s \in Store
      /\ \A q \in Parts : \A k \in Range(s.offLru[q]) :
           k \in Keys /\ PartOf[k] = q /\ s.tier[k] # "none" /\ policy.offload /\ (Filtered => s.read[k])
      /\ \A k \in Keys : s.tier[k] = "ssd" => k \in Range(s.offLru[PartOf[k]])
      /\ \A k \in Keys : PartOf[k] \in Parts
  BY StoreAssumption, RangeOfSeq DEF Sound, OffloadSound, Holds, Store
<1> DEFINE dropped == Dropped(u, {v})
           moved == [u EXCEPT !.tier[v] = "ssd"]
<1>4. /\ t = IF ~policy.offload THEN dropped
             ELSE IF policy.demote = "if_read" /\ ~u.read[v] /\ v \in Range(s.offLru[p]) THEN moved
             ELSE IF policy.demote = "if_read" /\ ~u.read[v] THEN dropped
             ELSE OffloadWrite(moved, v)
  BY <1>1 DEF EvictMemory, NotDemoted
<1>5. /\ dropped \in Store
      /\ dropped.memLru = u.memLru /\ dropped.memUsed = u.memUsed /\ dropped.offLru = s.offLru
      /\ \A j \in Keys : dropped.tier[j] = IF j = v THEN "none" ELSE s.tier[j]
      /\ \A j \in Keys : dropped.read[j] = (j # v /\ s.read[j])
  BY <1>1, DroppedFields
<1>6. /\ moved \in Store
      /\ moved.memLru = u.memLru /\ moved.memUsed = u.memUsed /\ moved.offLru = s.offLru
      /\ \A j \in Keys : moved.tier[j] = IF j = v THEN "ssd" ELSE s.tier[j]
      /\ moved.read = s.read
  BY <1>1 DEF Store
<1> HIDE DEF u, v, t, dropped, moved
<1>7. ASSUME v \notin Range(s.offLru[p])
      PROVE  Sound(dropped)
  <2>1. MemorySound(dropped)
    BY <1>1, <1>2, <1>5
  <2>2. \A q \in Parts : \A k \in Range(s.offLru[q]) :
           dropped.tier[k] # "none" /\ (Filtered => dropped.read[k])
    <3>1. SUFFICES ASSUME NEW q \in Parts, NEW k \in Range(s.offLru[q])
                   PROVE  dropped.tier[k] # "none" /\ (Filtered => dropped.read[k])
      OBVIOUS
    <3>2. k \in Keys /\ k # v /\ s.tier[k] # "none" /\ (Filtered => s.read[k])
      BY <1>1, <1>3, <1>7
    <3>3. dropped.tier[k] = s.tier[k] /\ (s.read[k] => dropped.read[k])
      BY <1>5, <3>2
    <3>4. QED
      BY <3>2, <3>3
  <2>3. OffloadSound(dropped)
    BY <1>5, <2>2, OffloadUndisturbed
  <2>4. QED
    BY <1>3, <1>5, <2>1, <2>3 DEF Sound, Holds
<1>8. MemorySound(moved) /\ OffloadSound(moved)
  <2>1. MemorySound(moved)
    BY <1>1, <1>2, <1>6
  <2>2. \A q \in Parts : \A k \in Range(s.offLru[q]) :
           moved.tier[k] # "none" /\ (Filtered => moved.read[k])
    BY <1>1, <1>3, <1>6
  <2>3. QED
    BY <1>6, <2>1, <2>2, OffloadUndisturbed
<1>9. \A j \in Keys \ {v} : moved.tier[j] = "ssd" => Holds(moved, j)
  BY <1>3, <1>6 DEF Holds
<1>10. CASE t = dropped /\ v \notin Range(s.offLru[p])
  BY <1>1, <1>5, <1>7, <1>10 DEF t, u
<1>11. CASE t = moved /\ v \in Range(s.offLru[p])
  <2>1. Sound(moved)
    BY <1>1, <1>6, <1>8, <1>9, <1>11 DEF Sound, Holds
  <2>2. QED
    BY <1>1, <1>6, <1>11, <2>1 DEF t, u
<1>12. CASE /\ t = OffloadWrite(moved, v) /\ policy.offload
            /\ ~(policy.demote = "if_read" /\ ~u.read[v])
  <2>1. ReadyToWrite(moved, v)
    BY <1>1, <1>6, <1>8, <1>9, <1>12 DEF ReadyToWrite, Filtered
  <2>2. Sound(t)
    BY <1>1, <1>12, <2>1, WriteKeeps
  <2>3. /\ t.memUsed = moved.memUsed
        /\ \A j \in Keys : moved.tier[j] = "none" => t.tier[j] = "none"
    BY <1>1, <1>6, <1>8, <1>12, WriteFields
  <2>4. QED
    BY <1>1, <1>6, <2>2, <2>3 DEF t, u
<1>13. QED
  <2>1. ~policy.offload => v \notin Range(s.offLru[p])
    BY <1>3
  <2>2. QED
    BY <1>4, <1>10, <1>11, <1>12, <2>1

\* The store as the memory tier takes k, before a copy is written through.
Admitted(s, k) ==
    [s EXCEPT !.tier[k] = "memory", !.read[k] = FALSE,
              !.memLru[PartOf[k]] = Append(@, k), !.memUsed[PartOf[k]] = @ + 1]

LEMMA AdmittedKeeps ==
    ASSUME NEW s, Sound(s), NEW k \in Keys, s.tier[k] = "none",
           s.memUsed[PartOf[k]] < MemCap
    PROVE  LET t == Admitted(s, k)
           IN  /\ Sound(t)
               /\ t.offLru = s.offLru
               /\ t.tier[k] = "memory"
               /\ \A j \in Keys \ {k} : t.tier[j] = s.tier[j] /\ t.read[j] = s.read[j]
<1> DEFINE p == PartOf[k]
           lru == s.memLru[p]
           t == Admitted(s, k)
<1>1. /\ s \in Store /\ p \in Parts /\ lru \in Seq(Keys) /\ IsInjective(lru)
      /\ Range(lru) = {j \in Keys : PartOf[j] = p /\ s.tier[j] = "memory"}
      /\ s.memUsed[p] = Len(lru) /\ s.memUsed[p] \in Nat
  BY StoreAssumption DEF Sound, MemorySound, Store
<1>2. k \notin Range(lru)
  BY <1>1
<1>3. /\ Append(lru, k) \in Seq(Keys) /\ IsInjective(Append(lru, k))
      /\ Len(Append(lru, k)) = Len(lru) + 1
      /\ Range(Append(lru, k)) = Range(lru) \cup {k}
  BY <1>1, <1>2, AppendRange
<1>4. /\ t \in Store /\ t.offLru = s.offLru
      /\ t.tier[k] = "memory" /\ t.read[k] = FALSE
      /\ \A j \in Keys \ {k} : t.tier[j] = s.tier[j] /\ t.read[j] = s.read[j]
      /\ t.memLru[p] = Append(lru, k) /\ t.memUsed[p] = s.memUsed[p] + 1
      /\ \A q \in Parts \ {p} : t.memLru[q] = s.memLru[q] /\ t.memUsed[q] = s.memUsed[q]
  <2> DEFINE a == [s.tier EXCEPT ![k] = "memory"]
             b == [s.read EXCEPT ![k] = FALSE]
             c == [s.memLru EXCEPT ![p] = Append(lru, k)]
             d == [s.memUsed EXCEPT ![p] = s.memUsed[p] + 1]
  <2>1. t = [s EXCEPT !.tier = a, !.read = b, !.memLru = c, !.memUsed = d]
    BY DEF Admitted
  <2>2. s.memUsed[p] + 1 \in Nat
    BY <1>1
  <2>3. /\ a \in [Keys -> {"none", "memory", "ssd"}] /\ b \in [Keys -> BOOLEAN]
        /\ c \in [Parts -> Seq(Keys)] /\ d \in [Parts -> Nat]
    BY <1>1, <1>3, <2>2 DEF Store
  <2>4. /\ a[k] = "memory" /\ b[k] = FALSE
        /\ \A j \in Keys \ {k} : a[j] = s.tier[j] /\ b[j] = s.read[j]
        /\ c[p] = Append(lru, k) /\ d[p] = s.memUsed[p] + 1
        /\ \A q \in Parts \ {p} : c[q] = s.memLru[q] /\ d[q] = s.memUsed[q]
    BY <1>1 DEF Store
  <2> HIDE DEF a, b, c, d, lru, t
  <2>5. /\ t \in Store /\ t.tier = a /\ t.read = b /\ t.memLru = c /\ t.memUsed = d
        /\ t.offLru = s.offLru
    BY <1>1, <2>1, <2>3 DEF Store
  <2>6. QED
    BY <2>4, <2>5
<1> HIDE DEF lru, t
<1>5. MemorySound(t)
  <2>1. SUFFICES ASSUME NEW q \in Parts
                 PROVE  /\ IsInjective(t.memLru[q])
                        /\ Range(t.memLru[q]) =
                             {j \in Keys : PartOf[j] = q /\ t.tier[j] = "memory"}
                        /\ t.memUsed[q] = Len(t.memLru[q])
                        /\ t.memUsed[q] <= MemCap
    BY DEF MemorySound
  <2>2. CASE q = p
    <3>1. Range(Append(lru, k)) = {j \in Keys : PartOf[j] = p /\ t.tier[j] = "memory"}
      BY <1>1, <1>3, <1>4
    <3>2. s.memUsed[p] + 1 = Len(Append(lru, k)) /\ s.memUsed[p] + 1 <= MemCap
      BY <1>1, <1>3, StoreAssumption
    <3>3. QED
      BY <1>3, <1>4, <2>2, <3>1, <3>2
  <2>3. CASE q # p
    <3>1. /\ IsInjective(s.memLru[q])
          /\ Range(s.memLru[q]) = {j \in Keys : PartOf[j] = q /\ s.tier[j] = "memory"}
          /\ s.memUsed[q] = Len(s.memLru[q]) /\ s.memUsed[q] <= MemCap
      BY DEF Sound, MemorySound
    <3>2. {j \in Keys : PartOf[j] = q /\ t.tier[j] = "memory"}
            = {j \in Keys : PartOf[j] = q /\ s.tier[j] = "memory"}
      BY <1>4, <2>3
    <3>3. QED
      BY <1>4, <2>3, <3>1, <3>2
  <2>4. QED
    BY <2>2, <2>3
<1>6. OffloadSound(t)
  <2>1. \A q \in Parts : \A j \in Range(s.offLru[q]) :
           /\ j \in Keys /\ j # k
           /\ s.tier[j] # "none" /\ (Filtered => s.read[j])
    BY <1>1, RangeOfSeq DEF Sound, OffloadSound, Store
  <2>2. \A q \in Parts : \A j \in Range(s.offLru[q]) :
           t.tier[j] # "none" /\ (Filtered => t.read[j])
    BY <1>4, <2>1
  <2>3. QED
    BY <1>4, <2>2, OffloadUndisturbed
<1>7. \A j \in Keys : t.tier[j] = "ssd" => Holds(t, j)
  BY <1>4 DEF Sound, Holds
<1>8. QED
  BY <1>4, <1>5, <1>6, <1>7 DEF Sound, t

LEMMA AdmitKeeps ==
    ASSUME NEW s, Sound(s), NEW k \in Keys, s.tier[k] = "none",
           s.memUsed[PartOf[k]] < MemCap
    PROVE  Sound(AdmitMemory(s, k))
<1>1. /\ Sound(Admitted(s, k)) /\ Admitted(s, k).tier[k] = "memory"
  BY AdmittedKeeps
<1>2. AdmitMemory(s, k) = IF WritesThrough THEN OffloadWrite(Admitted(s, k), k)
                          ELSE Admitted(s, k)
  BY DEF AdmitMemory, Admitted
<1>3. WritesThrough => ReadyToWrite(Admitted(s, k), k)
  BY <1>1 DEF WritesThrough, Filtered, ReadyToWrite, Sound
<1>4. QED
  BY <1>1, <1>2, <1>3, WriteKeeps

\* The store as k goes straight to the offload tier, before it is written there.
Bypassed(s, k) == [s EXCEPT !.tier[k] = "ssd", !.read[k] = FALSE]

LEMMA BypassedReady ==
    ASSUME NEW s, Sound(s), NEW k \in Keys, s.tier[k] = "none",
           ~Filtered, policy.offload
    PROVE  LET t == Bypassed(s, k)
           IN  /\ ReadyToWrite(t, k)
               /\ t.offLru = s.offLru
               /\ \A j \in Keys \ {k} : t.tier[j] = s.tier[j]
<1> DEFINE t == Bypassed(s, k)
<1>1. /\ s \in Store /\ t \in Store /\ t.offLru = s.offLru
      /\ t.memLru = s.memLru /\ t.memUsed = s.memUsed
      /\ t.tier[k] = "ssd"
      /\ \A j \in Keys \ {k} : t.tier[j] = s.tier[j] /\ t.read[j] = s.read[j]
  BY DEF Bypassed, Sound, Store
<1> HIDE DEF t
<1>2. MemorySound(t)
  <2>1. \A j \in Keys : t.tier[j] = "memory" <=> s.tier[j] = "memory"
    BY <1>1
  <2>2. QED
    BY <1>1, <2>1 DEF Sound, MemorySound
<1>3. OffloadSound(t)
  <2>1. \A q \in Parts : \A j \in Range(s.offLru[q]) :
           j \in Keys /\ s.tier[j] # "none" /\ t.tier[j] # "none"
    BY <1>1, RangeOfSeq, ZenonT(40) DEF Sound, OffloadSound, Store
  <2>2. QED
    BY <1>1, <2>1, OffloadUndisturbed
<1>4. QED
  BY <1>1, <1>2, <1>3 DEF ReadyToWrite, Sound, Holds, t

\* A filtered store never bypasses: its memory tier has a block to evict.
LEMMA NoRoomNoVictim ==
    ASSUME NEW s, Sound(s), NEW p \in Parts,
           ~(s.memUsed[p] < MemCap), ~CanEvict(s, p)
    PROVE  ~Filtered
<1>1. /\ s.memLru[p] \in Seq(Keys)
      /\ s.memUsed[p] = Len(s.memLru[p]) /\ s.memUsed[p] \in Nat
  BY DEF Sound, MemorySound, Store
<1>2. MemCap > 0 => s.memLru[p] # <<>>
  BY <1>1, StoreAssumption, EmptySeq
<1>3. QED
  BY <1>2 DEF CanEvict, Filtered

\* Moving a key within its order changes no content.
LEMMA TouchedKeeps ==
    ASSUME NEW s, Sound(s), NEW k \in Keys
    PROVE  LET t == Touched(s, k)
           IN  /\ Sound(t)
               /\ t.tier = s.tier /\ t.read = s.read /\ t.offLru = s.offLru
<1> DEFINE p == PartOf[k]
           lru == s.memLru[p]
           t == Touched(s, k)
<1>1. /\ s \in Store /\ p \in Parts /\ lru \in Seq(Keys) /\ IsInjective(lru)
      /\ MemorySound(s)
  BY StoreAssumption DEF Sound, MemorySound, Store
<1>2. /\ MoveToEnd(lru, k) \in Seq(Keys) /\ IsInjective(MoveToEnd(lru, k))
      /\ Range(MoveToEnd(lru, k)) = Range(lru) /\ Len(MoveToEnd(lru, k)) = Len(lru)
  BY <1>1, OrderMoved
<1>3. /\ t \in Store /\ t.tier = s.tier /\ t.read = s.read /\ t.offLru = s.offLru
      /\ t.memUsed = s.memUsed
      /\ \A q \in Parts : t.memLru[q] = s.memLru[q] \/ (q = p /\ t.memLru[q] = MoveToEnd(lru, k))
  BY <1>1, <1>2 DEF Touched, Store
<1> HIDE DEF t
<1>4. MemorySound(t)
  BY <1>1, <1>2, <1>3 DEF MemorySound
<1>5. QED
  BY <1>3, <1>4 DEF Sound, OffloadSound, Holds, t

LEMMA PutKeeps ==
    ASSUME NEW s, Sound(s), NEW k \in Keys
    PROVE  Sound(Put(s, k))
<1> DEFINE p == PartOf[k]
<1>1. p \in Parts /\ s.memUsed[p] \in Nat /\ s.memUsed[p] <= MemCap
  BY StoreAssumption DEF Sound, MemorySound, Store
<1>2. CASE s.tier[k] # "none"
  BY <1>2, TouchedKeeps DEF Put
<1>3. CASE s.tier[k] = "none" /\ s.memUsed[p] < MemCap
  BY <1>3, AdmitKeeps DEF Put
<1>4. CASE s.tier[k] = "none" /\ ~(s.memUsed[p] < MemCap) /\ CanEvict(s, p)
  <2>1. s.memLru[p] # <<>>
    BY <1>4 DEF CanEvict
  <2>2. /\ Sound(EvictMemory(s, p))
        /\ EvictMemory(s, p).memUsed[p] = s.memUsed[p] - 1
        /\ EvictMemory(s, p).tier[k] = "none"
    BY <1>1, <1>4, <2>1, EvictKeeps
  <2>3. EvictMemory(s, p).memUsed[p] < MemCap
    BY <1>1, <2>2, StoreAssumption
  <2>4. Sound(AdmitMemory(EvictMemory(s, p), k))
    BY <2>2, <2>3, AdmitKeeps
  <2>5. QED
    BY <1>4, <2>4 DEF Put
<1>5. CASE s.tier[k] = "none" /\ ~(s.memUsed[p] < MemCap) /\ ~CanEvict(s, p)
  <2>1. Put(s, k) = Bypass(s, k)
    BY <1>5 DEF Put
  <2>2. CASE policy.offload
    <3>1. ReadyToWrite(Bypassed(s, k), k)
      BY <1>1, <1>5, <2>2, NoRoomNoVictim, BypassedReady
    <3>2. QED
      BY <2>1, <2>2, <3>1, WriteKeeps DEF Bypass, Bypassed
  <2>3. CASE ~policy.offload
    BY <2>1, <2>3 DEF Bypass
  <2>4. QED
    BY <2>2, <2>3
<1>6. QED
  BY <1>2, <1>3, <1>4, <1>5

\* get() of a key changes its place in an order and its read mark.
LEMMA GotKeeps ==
    ASSUME NEW s, Sound(s), NEW k \in Keys
    PROVE  LET t == Got(s, k)
           IN  /\ Sound(t)
               /\ t.tier = s.tier
               /\ \A p \in Parts : /\ Range(t.offLru[p]) = Range(s.offLru[p])
                                   /\ Len(t.offLru[p]) = Len(s.offLru[p])
<1>1. CASE s.tier[k] = "none"
  BY <1>1 DEF Got
<1>2. CASE s.tier[k] # "none"
  <2> DEFINE p == PartOf[k]
             u == Touched(s, k)
             order == s.offLru[p]
             t == Got(s, k)
  <2>1. /\ Sound(u) /\ u.tier = s.tier /\ u.read = s.read /\ u.offLru = s.offLru
        /\ u \in Store /\ s \in Store /\ p \in Parts
    BY TouchedKeeps, StoreAssumption DEF Sound
  <2>2. order \in Seq(Keys) /\ IsInjective(order)
    BY <2>1 DEF Sound, OffloadSound, Store
  <2>3. /\ MoveToEnd(order, k) \in Seq(Keys) /\ IsInjective(MoveToEnd(order, k))
        /\ Range(MoveToEnd(order, k)) = Range(order) /\ Len(MoveToEnd(order, k)) = Len(order)
    BY <2>2, OrderMoved
  <2>4. t = [u EXCEPT !.read[k] = @ \/ policy.credit = "served",
                      !.offLru[p] = IF s.tier[k] = "ssd" /\ policy.offload
                                    THEN MoveToEnd(@, k) ELSE @]
    BY <1>2 DEF Got
  <2> HIDE DEF u
  <2>5. u.read[k] \in BOOLEAN
    BY <2>1 DEF Store
  <2>6. (u.read[k] \/ policy.credit = "served") \in BOOLEAN
    OBVIOUS
  <2>7. /\ t \in Store /\ t.tier = u.tier /\ t.memLru = u.memLru /\ t.memUsed = u.memUsed
        /\ \A j \in Keys : u.read[j] => t.read[j]
        /\ \A q \in Parts : \/ t.offLru[q] = s.offLru[q]
                            \/ q = p /\ t.offLru[q] = MoveToEnd(order, k)
    <3> DEFINE mark == u.read[k] \/ policy.credit = "served"
               moved == IF s.tier[k] = "ssd" /\ policy.offload
                        THEN MoveToEnd(order, k) ELSE order
    <3>1. t = [u EXCEPT !.read = [u.read EXCEPT ![k] = mark],
                        !.offLru = [u.offLru EXCEPT ![p] = moved]]
      BY <2>1, <2>4 DEF Store
    <3>2. moved \in Seq(Keys) /\ (moved = order \/ moved = MoveToEnd(order, k))
      BY <2>2, <2>3
    <3>3. mark \in BOOLEAN /\ (u.read[k] => mark)
      BY <2>6
    <3> HIDE DEF t, mark, moved
    <3>4. /\ t \in Store /\ t.tier = u.tier /\ t.memLru = u.memLru /\ t.memUsed = u.memUsed
          /\ t.read = [u.read EXCEPT ![k] = mark]
          /\ t.offLru = [u.offLru EXCEPT ![p] = moved]
      BY <2>1, <3>1, <3>2, <3>3 DEF Store
    <3>5. \A j \in Keys : u.read[j] => t.read[j]
      BY <2>1, <3>3, <3>4 DEF Store
    <3>6. QED
      BY <2>1, <3>2, <3>4, <3>5 DEF Store
  <2> HIDE DEF t, order
  <2>8. \A q \in Parts : /\ IsInjective(t.offLru[q])
                         /\ Range(t.offLru[q]) = Range(s.offLru[q])
                         /\ Len(t.offLru[q]) = Len(s.offLru[q])
    BY <2>1, <2>3, <2>7 DEF Sound, OffloadSound, order
  <2>9. MemorySound(t)
    BY <2>1, <2>7 DEF Sound, MemorySound
  <2>10. OffloadSound(t)
    <3>1. \A q \in Parts : \A j \in Range(s.offLru[q]) :
             /\ j \in Keys /\ PartOf[j] = q /\ s.tier[j] # "none" /\ policy.offload
             /\ Filtered => s.read[j]
      BY <2>1, RangeOfSeq DEF Sound, OffloadSound, Store
    <3>2. \A q \in Parts : ~policy.unlimited => Len(s.offLru[q]) <= OffCap
      BY DEF Sound, OffloadSound
    <3>3. QED
      BY <2>1, <2>7, <2>8, <3>1, <3>2 DEF OffloadSound
  <2>11. \A j \in Keys : t.tier[j] = "ssd" => Holds(t, j)
    <3>1. \A j \in Keys : s.tier[j] = "ssd" => j \in Range(s.offLru[PartOf[j]])
      BY DEF Sound, Holds
    <3>2. \A j \in Keys : PartOf[j] \in Parts
      BY StoreAssumption
    <3>3. QED
      BY <2>1, <2>7, <2>8, <3>1, <3>2 DEF Holds
  <2>12. QED
    BY <2>1, <2>7, <2>8, <2>9, <2>10, <2>11 DEF Sound, t
<1>3. QED
  BY <1>1, <1>2

\* lookup() only adds read marks.
LEMMA CreditedKeeps ==
    ASSUME NEW s, Sound(s), NEW chain
    PROVE  /\ Sound(Credited(s, chain))
           /\ Credited(s, chain).tier = s.tier
           /\ Credited(s, chain).offLru = s.offLru
<1> DEFINE t == Credited(s, chain)
           marks == [k \in Keys |-> s.read[k] \/ k \in HitKeys(s, chain)]
<1>1. s \in Store
  BY DEF Sound
<1>2. /\ t \in Store /\ t.tier = s.tier /\ t.memLru = s.memLru /\ t.memUsed = s.memUsed
      /\ t.offLru = s.offLru
      /\ \A k \in Keys : s.read[k] => t.read[k]
  <2>1. \A k \in Keys : (s.read[k] \/ k \in HitKeys(s, chain)) \in BOOLEAN
    OBVIOUS
  <2>2. marks \in [Keys -> BOOLEAN] /\ \A k \in Keys : s.read[k] => marks[k]
    BY <2>1
  <2>3. t = [s EXCEPT !.read = marks] \/ t = s
    BY DEF Credited
  <2> HIDE DEF marks
  <2>4. QED
    BY <1>1, <2>2, <2>3 DEF Store
<1> HIDE DEF t
<1>3. OffloadSound(t)
  <2>1. \A q \in Parts : \A j \in Range(s.offLru[q]) :
           j \in Keys /\ s.tier[j] # "none" /\ (Filtered => s.read[j])
    BY <1>1, RangeOfSeq DEF Sound, OffloadSound, Store
  <2>2. QED
    BY <1>2, <2>1, OffloadUndisturbed
<1>4. QED
  BY <1>2, <1>3 DEF Sound, MemorySound, Holds, t

-----------------------------------------------------------------------------
(* The invariant and what follows from it *)

StoreInv == policy \in Policies /\ Sound(Contents)

LEMMA StoreInvInitially == StoreInit => StoreInv
<1>1. SUFFICES ASSUME StoreInit
               PROVE  StoreInv
  OBVIOUS
<1> DEFINE s == Contents
<1>2. /\ s.tier = [k \in Keys |-> "none"] /\ s.read = [k \in Keys |-> FALSE]
      /\ s.memLru = [p \in Parts |-> <<>>] /\ s.memUsed = [p \in Parts |-> 0]
      /\ s.offLru = [p \in Parts |-> <<>>]
  BY <1>1 DEF StoreInit, Contents
<1>3. s \in Store
  <2>1. tier \in [Keys -> {"none", "memory", "ssd"}] /\ read \in [Keys -> BOOLEAN]
    BY <1>1 DEF StoreInit
  <2>2. memLru \in [Parts -> Seq(Keys)] /\ memUsed \in [Parts -> Nat]
    BY <1>1 DEF StoreInit
  <2>3. offLru \in [Parts -> Seq(Keys)]
    BY <1>1 DEF StoreInit
  <2>4. QED
    BY <2>1, <2>2, <2>3 DEF Contents, Store
<1> HIDE DEF s
<1>4. IsInjective(<<>>) /\ Range(<<>>) = {} /\ Len(<<>>) = 0
  BY DEF IsInjective, Range
<1>5. MemorySound(s) /\ OffloadSound(s)
  BY <1>2, <1>4, StoreAssumption DEF MemorySound, OffloadSound
<1>6. QED
  BY <1>1, <1>2, <1>3, <1>5 DEF StoreInv, StoreInit, Sound, s

\* A step that makes the contents t keeps what holds of t.
LEMMA BecomesSound ==
    ASSUME NEW t, Sound(t), Becomes(t), UNCHANGED policy
    PROVE  Sound(Contents)'
<1>1. Contents' = t
  BY DEF Becomes, Contents, Sound, Store
<1>2. QED
  BY <1>1 DEF Sound, MemorySound, OffloadSound, Holds, Filtered

LEMMA StoreStepKeepsInv == StoreInv /\ [StoreNext]_storeVars => StoreInv'
<1>1. SUFFICES ASSUME StoreInv, [StoreNext]_storeVars
               PROVE  StoreInv'
  OBVIOUS
<1>2. Sound(Contents)
  BY <1>1 DEF StoreInv
<1>3. ASSUME NEW k \in Keys, PutKey(k)
      PROVE  StoreInv'
  BY <1>1, <1>2, <1>3, PutKeeps, BecomesSound DEF PutKey, StoreInv
<1>4. ASSUME NEW k \in Keys, GetKey(k)
      PROVE  StoreInv'
  BY <1>1, <1>2, <1>4, GotKeeps, BecomesSound DEF GetKey, StoreInv
<1>5. ASSUME NEW chain \in Chains, Lookup(chain)
      PROVE  StoreInv'
  BY <1>1, <1>2, <1>5, CreditedKeeps, BecomesSound DEF Lookup, StoreInv
<1>6. CASE UNCHANGED storeVars
  <2>1. Contents' = Contents /\ policy' = policy
    BY <1>6 DEF storeVars, Contents
  <2>2. QED
    BY <1>1, <2>1 DEF StoreInv, Sound, MemorySound, OffloadSound, Holds, Filtered
<1>7. QED
  BY <1>1, <1>3, <1>4, <1>5, <1>6 DEF StoreNext

\* The fields of the contents are the variables.
LEMMA ContentsFields ==
    /\ Contents.tier = tier /\ Contents.read = read /\ Contents.memLru = memLru
    /\ Contents.memUsed = memUsed /\ Contents.offLru = offLru
BY DEF Contents

LEMMA StoreInvMeans ==
    ASSUME StoreInv
    PROVE  TiersExact /\ NoDangling /\ OnlyReadBlocksWritten
<1>1. Sound(Contents) /\ Contents \in Store /\ policy \in Policies
  BY DEF StoreInv, Sound
<1>2. StoreTypeOK
  BY <1>1, ContentsFields DEF Store, StoreTypeOK
<1>3. MemAccounting
  BY <1>1, ContentsFields DEF Sound, MemorySound, MemAccounting
<1>4. OffloadOwned /\ OffloadFits
  BY <1>1, ContentsFields DEF Sound, OffloadSound, OffloadOwned, OffloadFits
<1>5. NoDangling
  BY <1>1, ContentsFields DEF Sound, Holds, NoDangling, Contains
<1>6. OnlyReadBlocksWritten
  BY <1>1, ContentsFields DEF Sound, OffloadSound, Filtered, OnlyReadBlocksWritten
<1>7. QED
  BY <1>2, <1>3, <1>4, <1>5, <1>6 DEF TiersExact

\* Put, get and lookup in any order keep the invariant, whatever the policy.
THEOREM StoreInvariant == StoreSpec => []StoreInv
BY StoreInvInitially, StoreStepKeepsInv, PTL DEF StoreSpec

\* The objects, the two LRU orders and the byte counter of a partition never
\* disagree, and neither tier holds more than its capacity: no put, get or
\* eviction of MooncakeStore leaks a byte or lists a block twice.
THEOREM StoreTiersExact == StoreSpec => []TiersExact
<1>1. StoreInv => TiersExact
  BY StoreInvMeans
<1>2. QED
  BY <1>1, StoreInvariant, PTL

\* An object of the offload tier always has its data there: every eviction of
\* OffloadTier.write drops the object of its victim, or the memory tier has it.
THEOREM NothingDangles == StoreSpec => []NoDangling
<1>1. StoreInv => NoDangling
  BY StoreInvMeans
<1>2. QED
  BY <1>1, StoreInvariant, PTL

\* With write_back and demote_policy if_read no block that was never read is
\* ever written to the offload tier.
THEOREM WriteFilterHolds == StoreSpec => []OnlyReadBlocksWritten
<1>1. StoreInv => OnlyReadBlocksWritten
  BY StoreInvMeans
<1>2. QED
  BY <1>1, StoreInvariant, PTL

-----------------------------------------------------------------------------
(* What leaves the store, and why *)

\* Copies by the write policy.  With write_through a block of the memory tier
\* has its copy below unless the offload tier is full and took it; with
\* write_back the offload tier holds no block that memory has.
CopiesTracked(s) ==
    policy.offload =>
        IF policy.write = "write_through"
        THEN \A k \in Keys : s.tier[k] = "memory" => Holds(s, k) \/ FullTier(s, PartOf[k])
        ELSE \A p \in Parts : \A k \in Range(s.offLru[p]) : s.tier[k] = "ssd"

\* A write drops at most the oldest entry of a full tier, never k itself.
LEMMA WriteLosses ==
    ASSUME NEW s \in Store, OffloadSound(s), NEW k \in Keys
    PROVE  LET t == OffloadWrite(s, k)
               p == PartOf[k]
           IN  /\ t \in Store /\ s.offLru[p] \in Seq(Keys) /\ t.offLru[p] \in Seq(Keys)
               /\ \A j \in Keys :
                    \/ t.tier[j] = s.tier[j]
                    \/ /\ t.tier[j] = "none" /\ s.tier[j] = "ssd" /\ j # k
                       /\ PartOf[j] = p /\ FullTier(s, p) /\ j = Head(s.offLru[p])
               /\ \A q \in Parts \ {p} : t.offLru[q] = s.offLru[q]
               /\ k \in Range(t.offLru[p])
               /\ ~FullTier(s, p) => Range(s.offLru[p]) \subseteq Range(t.offLru[p])
<1> DEFINE t == OffloadWrite(s, k)
           p == PartOf[k]
           V == OffloadVictims(s, k)
           old == s.offLru[p]
           new == t.offLru[p]
<1>1. /\ t \in Store
      /\ \A q \in Parts \ {p} : t.offLru[q] = s.offLru[q]
      /\ \A j \in Keys : t.tier[j] = IF j \in V THEN "none" ELSE s.tier[j]
  BY WriteFields
<1>2. /\ old \in Seq(Keys) /\ new \in Seq(Keys)
      /\ FullTier(s, p) => /\ Head(old) \in Range(old)
                           /\ Range(new) = (Range(old) \ {Head(old)}) \cup {k}
      /\ ~FullTier(s, p) => Range(new) = Range(old) \cup {k}
  BY WriteOrder
<1>3. \A j \in V : /\ FullTier(s, p) /\ j = Head(old) /\ j # k /\ s.tier[j] = "ssd"
                   /\ PartOf[j] = p
  <2>1. \A j \in V : FullTier(s, p) /\ j = Head(old) /\ j # k /\ s.tier[j] = "ssd"
    BY DEF OffloadVictims
  <2>2. p \in Parts
    BY StoreAssumption
  <2>3. \A j \in Range(old) : PartOf[j] = p
    BY <2>2 DEF OffloadSound
  <2>4. QED
    BY <1>2, <2>1, <2>3
<1> HIDE DEF t, V, old, new
<1>4. QED
  BY <1>1, <1>2, <1>3 DEF t, old, new

\* A key that the tier does not hold takes the place of what it pushes out.
LEMMA WriteOfNewKey ==
    ASSUME NEW s \in Store, OffloadSound(s), NEW k \in Keys, ~Holds(s, k)
    PROVE  LET t == OffloadWrite(s, k)
               p == PartOf[k]
           IN  /\ FullTier(s, p) => FullTier(t, p)
               /\ ~FullTier(s, p) => Len(t.offLru[p]) = Len(s.offLru[p]) + 1
<1> DEFINE old == s.offLru[PartOf[k]]
           new == OffloadWrite(s, k).offLru[PartOf[k]]
<1>1. /\ FullTier(s, PartOf[k]) =>
           Len(new) = IF k \in Range(old) \ {Head(old)} THEN Len(old) - 1 ELSE Len(old)
      /\ ~FullTier(s, PartOf[k]) =>
           Len(new) = IF k \in Range(old) THEN Len(old) ELSE Len(old) + 1
  BY WriteOrder
<1>2. k \notin Range(old)
  BY DEF Holds
<1>3. QED
  BY <1>1, <1>2 DEF FullTier

\* The store after the memory tier took k: what write_through pushed out is
\* gone, and a full offload tier is still full.
LEMMA AdmitLosses ==
    ASSUME NEW s, Sound(s), NEW k \in Keys, s.tier[k] = "none",
           s.memUsed[PartOf[k]] < MemCap
    PROVE  LET t == AdmitMemory(s, k)
               p == PartOf[k]
           IN  /\ t.tier[k] = "memory"
               /\ \A j \in Keys \ {k} :
                    \/ t.tier[j] = s.tier[j]
                    \/ /\ t.tier[j] = "none" /\ s.tier[j] = "ssd" /\ WritesThrough
                       /\ PartOf[j] = p /\ FullTier(s, p) /\ j = Head(s.offLru[p])
               /\ \A q \in Parts \ {p} : t.offLru[q] = s.offLru[q]
               /\ WritesThrough => k \in Range(t.offLru[p])
               /\ ~WritesThrough => t.offLru[p] = s.offLru[p]
               /\ ~FullTier(s, p) => Range(s.offLru[p]) \subseteq Range(t.offLru[p])
               /\ WritesThrough /\ ~FullTier(s, p) =>
                    Len(t.offLru[p]) = Len(s.offLru[p]) + 1
               /\ FullTier(s, p) => FullTier(t, p)
<1> DEFINE h == Admitted(s, k)
           p == PartOf[k]
           t == AdmitMemory(s, k)
<1>1. /\ Sound(h) /\ h.offLru = s.offLru /\ h.tier[k] = "memory"
      /\ \A j \in Keys \ {k} : h.tier[j] = s.tier[j]
  BY AdmittedKeeps
<1>2. t = IF WritesThrough THEN OffloadWrite(h, k) ELSE h
  BY DEF AdmitMemory, Admitted
<1>3. h \in Store /\ OffloadSound(h) /\ s \in Store /\ OffloadSound(s) /\ p \in Parts
  BY <1>1, StoreAssumption DEF Sound
<1>4. ~Holds(h, k)
  <2>1. k \notin Range(s.offLru[p])
    BY <1>3 DEF OffloadSound
  <2>2. QED
    BY <1>1, <2>1 DEF Holds
<1>5. FullTier(h, p) <=> FullTier(s, p)
  BY <1>1 DEF FullTier
<1> HIDE DEF h, t
<1>6. CASE ~WritesThrough
  <2>1. t = h
    BY <1>2, <1>6
  <2>2. QED
    BY <1>1, <1>5, <1>6, <2>1 DEF t
<1>7. CASE WritesThrough
  <2>1. t = OffloadWrite(h, k)
    BY <1>2, <1>7
  <2> DEFINE x == OffloadWrite(h, k)
  <2>2. /\ \A j \in Keys :
             \/ x.tier[j] = h.tier[j]
             \/ /\ x.tier[j] = "none" /\ h.tier[j] = "ssd" /\ j # k
                /\ PartOf[j] = p /\ FullTier(h, p) /\ j = Head(h.offLru[p])
        /\ \A q \in Parts \ {p} : x.offLru[q] = h.offLru[q]
        /\ k \in Range(x.offLru[p])
        /\ ~FullTier(h, p) => Range(h.offLru[p]) \subseteq Range(x.offLru[p])
    BY <1>3, WriteLosses
  <2>3. /\ FullTier(h, p) => FullTier(t, p)
        /\ ~FullTier(h, p) => Len(t.offLru[p]) = Len(h.offLru[p]) + 1
    BY <1>3, <1>4, <2>1, WriteOfNewKey
  <2>4. QED
    BY <1>1, <1>5, <1>7, <2>1, <2>2, <2>3 DEF t
<1>8. QED
  BY <1>6, <1>7

\* The store after the memory tier evicted its oldest block v, by whether there
\* is an offload tier, the block is refused by demote_policy, or it is written.
LEMMA EvictLosses ==
    ASSUME NEW s, Sound(s), NEW p \in Parts, s.memLru[p] # <<>>
    PROVE  LET t == EvictMemory(s, p)
               v == Head(s.memLru[p])
           IN  /\ v \in Keys /\ PartOf[v] = p /\ s.tier[v] = "memory"
               /\ t.tier[v] # "memory"
               /\ \A j \in Keys \ {v} :
                    \/ t.tier[j] = s.tier[j]
                    \/ /\ t.tier[j] = "none" /\ s.tier[j] = "ssd"
                       /\ PartOf[j] = p /\ FullTier(s, p)
               /\ \A q \in Parts \ {p} : t.offLru[q] = s.offLru[q]
               /\ \/ ~policy.offload /\ t.offLru = s.offLru
                  \/ /\ policy.offload /\ policy.demote = "if_read" /\ ~s.read[v]
                     /\ t.offLru = s.offLru
                     /\ Holds(s, v) => t.tier[v] = "ssd"
                  \/ /\ policy.offload
                     /\ t.tier[v] = "ssd" /\ v \in Range(t.offLru[p])
                     /\ Range(t.offLru[p]) \subseteq Range(s.offLru[p]) \cup {v}
                     /\ Head(t.offLru[p]) = v => Len(t.offLru[p]) = 1
                     /\ ~FullTier(s, p) => Range(s.offLru[p]) \subseteq Range(t.offLru[p])
                     /\ ~FullTier(s, p) /\ Holds(s, v) => ~FullTier(t, p)
                     /\ FullTier(s, p) => Len(t.offLru[p]) >= OffCap - 1
                     /\ FullTier(s, p) /\ ~Holds(s, v) => FullTier(t, p)
<1> DEFINE u == Popped(s, p)
           v == Head(s.memLru[p])
           t == EvictMemory(s, p)
           w == [u EXCEPT !.tier[v] = "ssd"]
<1>1. /\ u \in Store
      /\ u.tier = s.tier /\ u.read = s.read /\ u.offLru = s.offLru
      /\ v \in Keys /\ PartOf[v] = p /\ s.tier[v] = "memory"
  BY PoppedMemory
<1>2. /\ t = IF ~policy.offload THEN Dropped(u, {v})
             ELSE IF policy.demote = "if_read" /\ ~u.read[v] /\ v \in Range(s.offLru[p]) THEN w
             ELSE IF policy.demote = "if_read" /\ ~u.read[v] THEN Dropped(u, {v})
             ELSE OffloadWrite(w, v)
  BY <1>1 DEF EvictMemory, NotDemoted
<1>3. /\ Dropped(u, {v}).offLru = s.offLru
      /\ \A j \in Keys : Dropped(u, {v}).tier[j] = IF j = v THEN "none" ELSE s.tier[j]
  BY <1>1, DroppedFields
<1>4. /\ w \in Store /\ w.offLru = s.offLru /\ w.tier[v] = "ssd"
      /\ \A j \in Keys \ {v} : w.tier[j] = s.tier[j]
  BY <1>1 DEF Store
<1>5. FullTier(w, p) <=> FullTier(s, p)
  BY <1>4 DEF FullTier
<1>6. OffloadSound(w)
  <2>1. \A q \in Parts : \A j \in Range(s.offLru[q]) :
           j \in Keys /\ s.tier[j] # "none" /\ (Filtered => s.read[j])
    BY RangeOfSeq DEF Sound, OffloadSound, Store
  <2>2. \A j \in Keys : s.tier[j] # "none" => w.tier[j] # "none" /\ w.read[j] = s.read[j]
    BY <1>1, <1>4
  <2> HIDE DEF u, v, w
  <2>3. \A q \in Parts : \A j \in Range(s.offLru[q]) :
           w.tier[j] # "none" /\ (Filtered => w.read[j])
    BY <2>1, <2>2
  <2>4. QED
    BY <1>4, <2>3, OffloadUndisturbed
<1> HIDE DEF u, v, w, t
<1>7. CASE ~policy.offload
  BY <1>1, <1>2, <1>3, <1>7 DEF t, v
<1>8. CASE policy.offload /\ policy.demote = "if_read" /\ ~u.read[v]
  BY <1>1, <1>2, <1>3, <1>4, <1>8 DEF t, v, Holds
<1>9. CASE policy.offload /\ ~(policy.demote = "if_read" /\ ~u.read[v])
  <2>1. t = OffloadWrite(w, v)
    BY <1>2, <1>9
  <2> DEFINE x == OffloadWrite(w, v)
  <2>1a. /\ \A j \in Keys :
              \/ x.tier[j] = w.tier[j]
              \/ /\ x.tier[j] = "none" /\ w.tier[j] = "ssd" /\ j # v
                 /\ PartOf[j] = PartOf[v] /\ FullTier(w, PartOf[v])
                 /\ j = Head(w.offLru[PartOf[v]])
         /\ \A q \in Parts \ {PartOf[v]} : x.offLru[q] = w.offLru[q]
         /\ v \in Range(x.offLru[PartOf[v]])
         /\ ~FullTier(w, PartOf[v]) =>
              Range(w.offLru[PartOf[v]]) \subseteq Range(x.offLru[PartOf[v]])
         /\ w.offLru[PartOf[v]] \in Seq(Keys) /\ x.offLru[PartOf[v]] \in Seq(Keys)
    BY <1>1, <1>4, <1>6, WriteLosses
  <2> HIDE DEF x
  <2>2. /\ \A j \in Keys :
             \/ t.tier[j] = w.tier[j]
             \/ /\ t.tier[j] = "none" /\ w.tier[j] = "ssd" /\ j # v
                /\ PartOf[j] = p /\ FullTier(w, p)
        /\ \A q \in Parts \ {p} : t.offLru[q] = w.offLru[q]
        /\ v \in Range(t.offLru[p])
        /\ ~FullTier(w, p) => Range(w.offLru[p]) \subseteq Range(t.offLru[p])
        /\ w.offLru[p] \in Seq(Keys) /\ t.offLru[p] \in Seq(Keys)
    <3>1. t = x /\ PartOf[v] = p
      BY <1>1, <2>1 DEF x
    <3>2. QED
      BY <2>1a, <3>1
  <2>3. /\ Head(t.offLru[p]) = v => Len(t.offLru[p]) = 1
        /\ FullTier(w, p) =>
             /\ Range(t.offLru[p]) = (Range(w.offLru[p]) \ {Head(w.offLru[p])}) \cup {v}
             /\ Len(t.offLru[p]) = IF v \in Range(w.offLru[p]) \ {Head(w.offLru[p])}
                                   THEN Len(w.offLru[p]) - 1 ELSE Len(w.offLru[p])
        /\ ~FullTier(w, p) =>
             /\ Range(t.offLru[p]) = Range(w.offLru[p]) \cup {v}
             /\ Len(t.offLru[p]) = IF v \in Range(w.offLru[p]) THEN Len(w.offLru[p])
                                   ELSE Len(w.offLru[p]) + 1
    BY <1>1, <1>4, <1>6, <2>1, WriteOrder
  <2>4. Len(w.offLru[p]) \in Nat /\ Len(t.offLru[p]) \in Nat
    BY <2>2, LenProperties
  <2>5. Range(t.offLru[p]) \subseteq Range(s.offLru[p]) \cup {v}
    BY <1>4, <2>3
  <2>6. /\ ~FullTier(s, p) /\ Holds(s, v) => ~FullTier(t, p)
        /\ FullTier(s, p) => Len(t.offLru[p]) >= OffCap - 1
        /\ FullTier(s, p) /\ ~Holds(s, v) => FullTier(t, p)
    BY <1>1, <1>4, <2>3, <2>4, StoreAssumption DEF FullTier, Holds
  <2>7. t.tier[v] = "ssd"
    BY <1>1, <1>4, <2>2
  <2>8. \A j \in Keys \ {v} :
           \/ t.tier[j] = s.tier[j]
           \/ /\ t.tier[j] = "none" /\ s.tier[j] = "ssd"
              /\ PartOf[j] = p /\ FullTier(s, p)
    BY <1>4, <1>5, <2>2
  <2>9. QED
    BY <1>1, <1>4, <1>5, <1>9, <2>2, <2>3, <2>5, <2>6, <2>7, <2>8 DEF t, v
<1>10. QED
  BY <1>7, <1>8, <1>9

\* Why the key j may leave the store: LossNeedsPressure, of the contents s.
MayLeave(s, j) ==
    LET p == PartOf[j]
    IN  \/ s.tier[j] = "ssd" /\ FullTier(s, p)
        \/ /\ s.tier[j] = "memory"
           /\ j = Head(s.memLru[p]) /\ s.memUsed[p] = MemCap
           /\ policy.offload =>
                \/ /\ policy.demote = "if_read" /\ ~s.read[j]
                   /\ Holds(s, j) => FullTier(s, p)
                \/ OffCap = 1 /\ FullTier(s, p)

\* What a whole put does: its losses are of pressure, a tier that gave something
\* up is full when it ends, and the copies are tracked again.
Pressed(s, t) ==
    /\ CopiesTracked(t)
    /\ \A j \in Keys : s.tier[j] # "none" /\ t.tier[j] = "none" => MayLeave(s, j)
    /\ \A q \in Parts : \/ Range(s.offLru[q]) \subseteq Range(t.offLru[q])
                        \/ FullTier(t, q)

\* A step that keeps the objects and what the offload tier holds loses nothing.
LEMMA NothingLost ==
    ASSUME NEW s, CopiesTracked(s), NEW t, t.tier = s.tier,
           \A p \in Parts : Range(t.offLru[p]) = Range(s.offLru[p])
                            /\ Len(t.offLru[p]) = Len(s.offLru[p])
    PROVE  Pressed(s, t)
<1>1. \A k \in Keys : PartOf[k] \in Parts
  BY StoreAssumption
<1>2. CopiesTracked(t)
  BY <1>1 DEF CopiesTracked, Holds, FullTier
<1>3. QED
  BY <1>2 DEF Pressed

\* The copies are tracked after a step that adds k to what is tracked: a full
\* tier stays full, another one keeps what it holds, and the objects keep their
\* tier or lose it.
LEMMA TrackedAfter ==
    ASSUME NEW s, Sound(s), CopiesTracked(s), NEW t, NEW k \in Keys,
           \A j \in Keys : PartOf[j] \in Parts,
           \A j \in Keys \ {k} : t.tier[j] = s.tier[j] \/ t.tier[j] # "memory",
           t.tier[k] # "memory" \/ (WritesThrough => Holds(t, k)),
           \A q \in Parts : FullTier(s, q) => FullTier(t, q),
           \A q \in Parts : ~FullTier(s, q) /\ ~FullTier(t, q)
                            => Range(s.offLru[q]) \subseteq Range(t.offLru[q]),
           policy.offload /\ ~WritesThrough =>
               \A q \in Parts : \A j \in Range(t.offLru[q]) : t.tier[j] = "ssd"
    PROVE  CopiesTracked(t)
<1>1. CASE WritesThrough
  <2>1. SUFFICES ASSUME NEW j \in Keys, t.tier[j] = "memory"
                 PROVE  Holds(t, j) \/ FullTier(t, PartOf[j])
    BY <1>1 DEF CopiesTracked, WritesThrough
  <2>2. j # k => Holds(s, j) \/ FullTier(s, PartOf[j])
    BY <1>1, <2>1 DEF CopiesTracked, WritesThrough
  <2>3. CASE j = k
    BY <1>1, <2>1, <2>3
  <2>4. CASE j # k
    BY <2>2, <2>4 DEF Holds
  <2>5. QED
    BY <2>3, <2>4
<1>2. CASE ~WritesThrough
  BY <1>2 DEF CopiesTracked, WritesThrough
<1>3. QED
  BY <1>1, <1>2

\* A put into a memory tier with room.
LEMMA AdmitPressed ==
    ASSUME NEW s, Sound(s), CopiesTracked(s), NEW k \in Keys, s.tier[k] = "none",
           s.memUsed[PartOf[k]] < MemCap
    PROVE  Pressed(s, AdmitMemory(s, k))
<1> DEFINE t == AdmitMemory(s, k)
           p == PartOf[k]
<1>1. /\ t.tier[k] = "memory"
      /\ \A j \in Keys \ {k} :
           \/ t.tier[j] = s.tier[j]
           \/ /\ t.tier[j] = "none" /\ s.tier[j] = "ssd"
              /\ PartOf[j] = p /\ FullTier(s, p)
      /\ \A q \in Parts \ {p} : t.offLru[q] = s.offLru[q]
      /\ WritesThrough => k \in Range(t.offLru[p])
      /\ ~WritesThrough => t.offLru[p] = s.offLru[p]
      /\ ~FullTier(s, p) => Range(s.offLru[p]) \subseteq Range(t.offLru[p])
      /\ FullTier(s, p) => FullTier(t, p)
  BY AdmitLosses, SMTT(30)
<1>2. p \in Parts /\ \A j \in Keys : PartOf[j] \in Parts
  BY StoreAssumption
<1> HIDE DEF t
<1>3. \A q \in Parts : FullTier(s, q) => FullTier(t, q)
  BY <1>1 DEF FullTier
<1>4. \A q \in Parts : ~FullTier(s, q) => Range(s.offLru[q]) \subseteq Range(t.offLru[q])
  BY <1>1
<1>5. ASSUME policy.offload, ~WritesThrough, NEW q \in Parts, NEW j \in Range(t.offLru[q])
      PROVE  t.tier[j] = "ssd"
  <2>1. t.offLru[q] = s.offLru[q]
    BY <1>1, <1>5
  <2>2. j \in Keys /\ j # k /\ s.tier[j] = "ssd"
    BY <1>5, <2>1, RangeOfSeq
    DEF Sound, OffloadSound, Store, CopiesTracked, WritesThrough
  <2>3. ~FullTier(s, p) \/ t.tier[j] # "none"
    <3>1. Sound(t)
      BY AdmitKeeps DEF t
    <3>2. QED
      BY <1>5, <3>1 DEF Sound, OffloadSound
  <2>4. QED
    BY <1>1, <2>2, <2>3
<1>6. CopiesTracked(t)
  BY <1>1, <1>2, <1>3, <1>4, <1>5, TrackedAfter DEF Holds
<1>7. \A j \in Keys : s.tier[j] # "none" /\ t.tier[j] = "none" => MayLeave(s, j)
  BY <1>1 DEF MayLeave
<1>8. QED
  BY <1>3, <1>4, <1>6, <1>7 DEF Pressed, t

\* A put that goes straight to the offload tier.
LEMMA BypassPressed ==
    ASSUME NEW s, Sound(s), CopiesTracked(s), NEW k \in Keys, s.tier[k] = "none",
           ~Filtered, policy.offload
    PROVE  Pressed(s, OffloadWrite(Bypassed(s, k), k))
<1> DEFINE b == Bypassed(s, k)
           t == OffloadWrite(b, k)
           p == PartOf[k]
<1>1. /\ ReadyToWrite(b, k) /\ b \in Store /\ OffloadSound(b)
      /\ b.offLru = s.offLru /\ \A j \in Keys \ {k} : b.tier[j] = s.tier[j]
  BY BypassedReady DEF ReadyToWrite
<1>2. b.tier[k] = "ssd" /\ Sound(t) /\ t.tier[k] = "ssd"
  <2>1. b.tier[k] = "ssd"
    BY DEF Bypassed, Sound, Store
  <2> HIDE DEF b
  <2>2. QED
    BY <1>1, <2>1, WriteKeeps
<1>3. p \in Parts /\ \A j \in Keys : PartOf[j] \in Parts
  BY StoreAssumption
<1> HIDE DEF b
<1>4. ~Holds(b, k)
  BY <1>1, <1>3 DEF Sound, OffloadSound, Holds
<1>5. \A q \in Parts : FullTier(b, q) <=> FullTier(s, q)
  BY <1>1 DEF FullTier
<1>6. /\ \A j \in Keys :
           \/ t.tier[j] = b.tier[j]
           \/ /\ t.tier[j] = "none" /\ b.tier[j] = "ssd" /\ j # k
              /\ PartOf[j] = p /\ FullTier(b, p) /\ j = Head(b.offLru[p])
      /\ \A q \in Parts \ {p} : t.offLru[q] = b.offLru[q]
      /\ k \in Range(t.offLru[p])
      /\ ~FullTier(b, p) => Range(b.offLru[p]) \subseteq Range(t.offLru[p])
  <2>1. b \in Store /\ OffloadSound(b)
    BY <1>1
  <2>2. QED
    BY <2>1, WriteLosses
<1>7. FullTier(b, p) => FullTier(t, p)
  BY <1>1, <1>4, WriteOfNewKey
<1>8. Range(t.offLru[p]) \subseteq Range(b.offLru[p]) \cup {k}
  <2>1. /\ FullTier(b, p) => Range(t.offLru[p])
                               = (Range(b.offLru[p]) \ {Head(b.offLru[p])}) \cup {k}
        /\ ~FullTier(b, p) => Range(t.offLru[p]) = Range(b.offLru[p]) \cup {k}
    BY <1>1, WriteOrder
  <2>2. QED
    BY <2>1
<1> HIDE DEF t
<1>9. \A q \in Parts : FullTier(s, q) => FullTier(t, q)
  BY <1>1, <1>5, <1>6, <1>7 DEF FullTier
<1>10. \A q \in Parts : ~FullTier(s, q) => Range(s.offLru[q]) \subseteq Range(t.offLru[q])
  BY <1>1, <1>5, <1>6
<1>11. ASSUME ~WritesThrough, NEW q \in Parts, NEW j \in Range(t.offLru[q])
       PROVE  t.tier[j] = "ssd"
  <2>1. j \in Keys /\ t.tier[j] # "none"
    BY <1>2, RangeOfSeq DEF Sound, OffloadSound, Store
  <2>2. CASE j = k
    BY <1>2, <2>2
  <2>3. CASE j # k
    <3>1. j \in Range(s.offLru[q])
      BY <1>1, <1>6, <1>8, <1>11, <2>3
    <3>2. s.tier[j] = "ssd"
      BY <1>11, <3>1 DEF CopiesTracked, WritesThrough
    <3>3. QED
      BY <1>1, <1>6, <2>1, <2>3, <3>2
  <2>4. QED
    BY <2>2, <2>3
<1>12. CopiesTracked(t)
  <2>1. \A j \in Keys \ {k} : t.tier[j] = s.tier[j] \/ t.tier[j] # "memory"
    BY <1>1, <1>6
  <2>2. QED
    BY <1>2, <1>3, <1>9, <1>10, <1>11, <2>1, TrackedAfter
<1>13. \A j \in Keys : s.tier[j] # "none" /\ t.tier[j] = "none" => MayLeave(s, j)
  BY <1>1, <1>2, <1>3, <1>5, <1>6 DEF MayLeave
<1>14. QED
  BY <1>9, <1>10, <1>12, <1>13 DEF Pressed, t, b

\* A put into a full memory tier: the oldest block goes, then k comes.
LEMMA ReplacePressed ==
    ASSUME NEW s, Sound(s), CopiesTracked(s), NEW k \in Keys, s.tier[k] = "none",
           ~(s.memUsed[PartOf[k]] < MemCap), s.memLru[PartOf[k]] # <<>>
    PROVE  Pressed(s, AdmitMemory(EvictMemory(s, PartOf[k]), k))
<1> DEFINE p == PartOf[k]
           v == Head(s.memLru[p])
           m == EvictMemory(s, p)
           t == AdmitMemory(m, k)
<1>1. /\ p \in Parts /\ \A j \in Keys : PartOf[j] \in Parts
      /\ s \in Store /\ s.memUsed[p] \in Nat /\ s.memUsed[p] = MemCap
  BY StoreAssumption DEF Sound, MemorySound, Store
<1>2. /\ Sound(m) /\ m.memUsed[p] = s.memUsed[p] - 1
      /\ \A j \in Keys : s.tier[j] = "none" => m.tier[j] = "none"
  BY <1>1, EvictKeeps
<1>3. /\ v \in Keys /\ PartOf[v] = p /\ s.tier[v] = "memory"
      /\ m.tier[v] # "memory"
      /\ \A j \in Keys \ {v} :
           \/ m.tier[j] = s.tier[j]
           \/ /\ m.tier[j] = "none" /\ s.tier[j] = "ssd"
              /\ PartOf[j] = p /\ FullTier(s, p)
      /\ \A q \in Parts \ {p} : m.offLru[q] = s.offLru[q]
  BY <1>1, EvictLosses
<1> DEFINE NoTier == ~policy.offload /\ m.offLru = s.offLru
           Refused == /\ policy.offload /\ policy.demote = "if_read" /\ ~s.read[v]
                      /\ m.offLru = s.offLru
                      /\ Holds(s, v) => m.tier[v] = "ssd"
           Written == /\ policy.offload
                      /\ m.tier[v] = "ssd" /\ v \in Range(m.offLru[p])
                      /\ Range(m.offLru[p]) \subseteq Range(s.offLru[p]) \cup {v}
                      /\ Head(m.offLru[p]) = v => Len(m.offLru[p]) = 1
                      /\ ~FullTier(s, p) => Range(s.offLru[p]) \subseteq Range(m.offLru[p])
                      /\ ~FullTier(s, p) /\ Holds(s, v) => ~FullTier(m, p)
                      /\ FullTier(s, p) => Len(m.offLru[p]) >= OffCap - 1
                      /\ FullTier(s, p) /\ ~Holds(s, v) => FullTier(m, p)
<1>4. NoTier \/ Refused \/ Written
  BY <1>1, EvictLosses
<1>5. m.tier[k] = "none" /\ m.memUsed[p] < MemCap /\ k # v
  BY <1>1, <1>2, <1>3, StoreAssumption
<1>6. /\ t.tier[k] = "memory"
      /\ \A j \in Keys \ {k} :
           \/ t.tier[j] = m.tier[j]
           \/ /\ t.tier[j] = "none" /\ m.tier[j] = "ssd" /\ WritesThrough
              /\ PartOf[j] = p /\ FullTier(m, p) /\ j = Head(m.offLru[p])
      /\ \A q \in Parts \ {p} : t.offLru[q] = m.offLru[q]
      /\ WritesThrough => k \in Range(t.offLru[p])
      /\ ~WritesThrough => t.offLru[p] = m.offLru[p]
      /\ ~FullTier(m, p) => Range(m.offLru[p]) \subseteq Range(t.offLru[p])
      /\ WritesThrough /\ ~FullTier(m, p) => Len(t.offLru[p]) = Len(m.offLru[p]) + 1
      /\ FullTier(m, p) => FullTier(t, p)
  BY <1>2, <1>5, AdmitLosses
<1>7. Sound(t)
  BY <1>2, <1>5, AdmitKeeps
<1>8. Len(s.offLru[p]) \in Nat /\ Len(m.offLru[p]) \in Nat
  BY <1>1, <1>2, LenProperties DEF Sound, Store
<1> HIDE DEF v, m, t
\* Without write_through the offload tier has no copy of the block.
<1>9. Written /\ ~WritesThrough => ~Holds(s, v)
  BY <1>1, <1>3 DEF CopiesTracked, WritesThrough, Holds
\* With it, the block has its copy, or the tier was full.
<1>10. WritesThrough => Holds(s, v) \/ FullTier(s, p)
  BY <1>3 DEF CopiesTracked, WritesThrough
<1>11. FullTier(s, p) => FullTier(t, p)
  <2>1. SUFFICES ASSUME FullTier(s, p), ~FullTier(m, p)
                 PROVE  FullTier(t, p)
    BY <1>6
  <2>2. Written /\ Holds(s, v)
    BY <1>4, <2>1 DEF FullTier
  <2>3. WritesThrough
    BY <1>9, <2>2
  <2>4. Len(t.offLru[p]) >= OffCap
    BY <1>6, <1>8, <2>1, <2>2, <2>3, StoreAssumption
  <2>5. QED
    BY <2>1, <2>4 DEF FullTier
<1>12. ~FullTier(s, p) => \/ Range(s.offLru[p]) \subseteq Range(t.offLru[p])
                          \/ FullTier(t, p)
  <2>1. ~FullTier(s, p) => Range(s.offLru[p]) \subseteq Range(m.offLru[p])
    BY <1>4
  <2>2. QED
    BY <1>6, <2>1
<1>13. \A q \in Parts : FullTier(s, q) => FullTier(t, q)
  BY <1>3, <1>6, <1>11 DEF FullTier
<1>14. \A q \in Parts : \/ Range(s.offLru[q]) \subseteq Range(t.offLru[q])
                        \/ FullTier(t, q)
  BY <1>3, <1>6, <1>11, <1>12
<1>15. ASSUME policy.offload, ~WritesThrough, NEW q \in Parts, NEW j \in Range(t.offLru[q])
       PROVE  t.tier[j] = "ssd"
  <2>1. j \in Keys /\ t.tier[j] # "none" /\ j \in Range(m.offLru[q])
    BY <1>6, <1>7, <1>15, RangeOfSeq DEF Sound, OffloadSound, Store
  <2>2. m.tier[j] # "none" /\ j # k /\ t.tier[j] = m.tier[j]
    BY <1>2, <1>5, <1>6, <2>1 DEF Sound, OffloadSound
  <2>3. CASE j = v
    <3>1. ~Holds(s, v)
      BY <1>1, <1>3, <1>15 DEF CopiesTracked, WritesThrough, Holds
    <3>2. Written
      <4>1. v \in Range(m.offLru[p])
        BY <1>2, <1>3, <2>1, <2>3 DEF Sound, OffloadSound
      <4>2. m.offLru # s.offLru
        BY <1>3, <3>1, <4>1 DEF Holds
      <4>3. QED
        BY <1>4, <4>2
    <3>3. QED
      BY <2>2, <2>3, <3>2
  <2>4. CASE j # v
    <3>1. j \in Range(s.offLru[q])
      BY <1>3, <1>4, <2>1, <2>4
    <3>2. s.tier[j] = "ssd"
      BY <1>15, <3>1 DEF CopiesTracked, WritesThrough
    <3>3. QED
      BY <1>3, <2>1, <2>2, <2>4, <3>2
  <2>5. QED
    BY <2>3, <2>4
<1>16. CopiesTracked(t)
  <2>1. \A j \in Keys \ {k} : t.tier[j] = s.tier[j] \/ t.tier[j] # "memory"
    BY <1>3, <1>6
  <2>2. WritesThrough => Holds(t, k)
    BY <1>6 DEF Holds
  <2>3. QED
    BY <1>1, <1>13, <1>14, <1>15, <2>1, <2>2, TrackedAfter
<1>17. ASSUME NEW j \in Keys, s.tier[j] # "none", t.tier[j] = "none"
       PROVE  MayLeave(s, j)
  <2>1. j # k
    BY <1>17
  <2>2. CASE m.tier[j] = "none" /\ j # v
    BY <1>3, <1>17, <2>2 DEF MayLeave
  <2>3. CASE m.tier[j] = "none" /\ j = v
    <3>1. ~policy.offload \/ (policy.demote = "if_read" /\ ~s.read[v] /\ ~Holds(s, v))
      BY <1>4, <2>3
    <3>2. QED
      BY <1>1, <1>3, <2>3, <3>1 DEF MayLeave, v
  <2>4. CASE m.tier[j] # "none"
    <3>1. /\ m.tier[j] = "ssd" /\ WritesThrough /\ policy.offload
          /\ PartOf[j] = p /\ FullTier(m, p) /\ j = Head(m.offLru[p])
      BY <1>6, <1>17, <2>1, <2>4 DEF WritesThrough
    <3>2. CASE j # v
      <4>1. s.tier[j] = "ssd"
        BY <1>3, <3>1, <3>2
      <4>2. FullTier(s, p)
        BY <1>4, <1>10, <3>1 DEF FullTier
      <4>3. QED
        BY <3>1, <4>1, <4>2 DEF MayLeave
    <3>3. CASE j = v
      <4>1. CASE Refused
        <5>1. FullTier(s, p)
          BY <3>1, <4>1 DEF FullTier
        <5>2. QED
          BY <1>1, <1>3, <3>1, <3>3, <4>1, <5>1 DEF MayLeave, v
      <4>2. CASE Written
        <5>1. Len(m.offLru[p]) = 1 /\ ~policy.unlimited /\ Len(m.offLru[p]) >= OffCap
          BY <3>1, <3>3, <4>2 DEF FullTier
        <5>2. OffCap = 1
          BY <5>1, StoreAssumption
        <5>3. FullTier(s, p)
          BY <1>10, <3>1, <4>2
        <5>4. QED
          BY <1>1, <1>3, <3>1, <3>3, <5>2, <5>3 DEF MayLeave, v
      <4>3. QED
        BY <1>4, <3>1, <4>1, <4>2
    <3>4. QED
      BY <3>2, <3>3
  <2>5. QED
    BY <2>2, <2>3, <2>4
<1>18. QED
  BY <1>14, <1>16, <1>17 DEF Pressed, t, m

LEMMA PutPressed ==
    ASSUME NEW s, Sound(s), CopiesTracked(s), NEW k \in Keys
    PROVE  Pressed(s, Put(s, k))
<1> DEFINE p == PartOf[k]
<1>1. p \in Parts
  BY StoreAssumption
<1>2. CASE s.tier[k] # "none"
  <2>1. Touched(s, k).tier = s.tier /\ Touched(s, k).offLru = s.offLru
    BY TouchedKeeps
  <2>2. QED
    BY <1>2, <2>1, NothingLost DEF Put
<1>3. CASE s.tier[k] = "none" /\ s.memUsed[p] < MemCap
  BY <1>3, AdmitPressed DEF Put
<1>4. CASE s.tier[k] = "none" /\ ~(s.memUsed[p] < MemCap) /\ CanEvict(s, p)
  BY <1>4, ReplacePressed DEF Put, CanEvict
<1>5. CASE s.tier[k] = "none" /\ ~(s.memUsed[p] < MemCap) /\ ~CanEvict(s, p)
  <2>1. Put(s, k) = Bypass(s, k)
    BY <1>5 DEF Put
  <2>2. CASE policy.offload
    <3>1. ~Filtered
      BY <1>1, <1>5, NoRoomNoVictim
    <3>2. QED
      BY <1>5, <2>1, <2>2, <3>1, BypassPressed DEF Bypass, Bypassed
  <2>3. CASE ~policy.offload
    BY <2>1, <2>3, NothingLost DEF Bypass
  <2>4. QED
    BY <2>2, <2>3
<1>6. QED
  BY <1>2, <1>3, <1>4, <1>5

\* The invariant of the action property: what a store holds, and its copies.
PressureInv == StoreInv /\ CopiesTracked(Contents)

LEMMA PressureInvInitially == StoreInit => PressureInv
<1>1. StoreInit => CopiesTracked(Contents)
  <2>1. Range(<<>>) = {}
    BY DEF Range
  <2>2. QED
    BY <2>1, ContentsFields DEF StoreInit, CopiesTracked
<1>2. QED
  BY <1>1, StoreInvInitially DEF PressureInv

\* A step of the store, or none, is pressed.
LEMMA StepPressed ==
    ASSUME PressureInv, [StoreNext]_storeVars
    PROVE  Pressed(Contents, Contents') /\ policy' = policy
<1>1. Sound(Contents) /\ CopiesTracked(Contents)
  BY DEF PressureInv, StoreInv
<1>2. ASSUME NEW t, Sound(t), Becomes(t)
      PROVE  Contents' = t
  BY <1>2 DEF Becomes, Contents, Sound, Store
<1>3. ASSUME NEW k \in Keys, PutKey(k)
      PROVE  Pressed(Contents, Contents') /\ policy' = policy
  <2>1. Contents' = Put(Contents, k) /\ policy' = policy
    BY <1>1, <1>2, <1>3, PutKeeps DEF PutKey
  <2>2. QED
    BY <1>1, <2>1, PutPressed
<1>4. ASSUME NEW k \in Keys, GetKey(k)
      PROVE  Pressed(Contents, Contents') /\ policy' = policy
  <2>1. Contents' = Got(Contents, k) /\ policy' = policy
    BY <1>1, <1>2, <1>4, GotKeeps DEF GetKey
  <2>2. Pressed(Contents, Got(Contents, k))
    BY <1>1, GotKeeps, NothingLost
  <2>3. QED
    BY <2>1, <2>2
<1>5. ASSUME NEW chain \in Chains, Lookup(chain)
      PROVE  Pressed(Contents, Contents') /\ policy' = policy
  <2>1. Contents' = Credited(Contents, chain) /\ policy' = policy
    BY <1>1, <1>2, <1>5, CreditedKeeps DEF Lookup
  <2>2. Pressed(Contents, Credited(Contents, chain))
    BY <1>1, CreditedKeeps, NothingLost
  <2>3. QED
    BY <2>1, <2>2
<1>6. CASE UNCHANGED storeVars
  <2>1. Contents' = Contents /\ policy' = policy
    BY <1>6 DEF storeVars, Contents
  <2>2. Pressed(Contents, Contents)
    BY <1>1, NothingLost
  <2>3. QED
    BY <2>1, <2>2
<1>7. QED
  BY <1>3, <1>4, <1>5, <1>6 DEF StoreNext

LEMMA PressureStep == PressureInv /\ [StoreNext]_storeVars => PressureInv'
<1>1. SUFFICES ASSUME PressureInv, [StoreNext]_storeVars
               PROVE  PressureInv'
  OBVIOUS
<1>2. StoreInv'
  BY <1>1, StoreStepKeepsInv DEF PressureInv
<1>3. CopiesTracked(Contents') /\ policy' = policy
  BY <1>1, StepPressed DEF Pressed
<1>4. CopiesTracked(Contents)'
  BY <1>3 DEF CopiesTracked, Holds, FullTier, WritesThrough
<1>5. QED
  BY <1>2, <1>4 DEF PressureInv

\* The step of LossNeedsPressure and that of EvictsOnlyPastCapacity.
LossStep ==
    \A k \in Keys :
        LET p == PartOf[k]
        IN  tier[k] # "none" /\ tier'[k] = "none" =>
            \/ tier[k] = "ssd" /\ Full(p)
            \/ /\ tier[k] = "memory"
               /\ k = Head(memLru[p]) /\ memUsed[p] = MemCap
               /\ policy.offload =>
                    \/ /\ policy.demote = "if_read" /\ ~read[k]
                       /\ Contains(k) => Full(p)
                    \/ OffCap = 1 /\ Full(p)

EvictStep ==
    \A p \in Parts :
        Range(offLru[p]) \ Range(offLru'[p]) # {} =>
            Cardinality(Range(offLru[p]) \cup Range(offLru'[p])) > OffCap

LEMMA StepLosses == PressureInv /\ [StoreNext]_storeVars => LossStep /\ EvictStep
<1>1. SUFFICES ASSUME PressureInv, [StoreNext]_storeVars
               PROVE  LossStep /\ EvictStep
  OBVIOUS
<1>2. Pressed(Contents, Contents') /\ policy' = policy
  BY <1>1, StepPressed
<1>3. /\ Contents'.tier = tier' /\ Contents'.offLru = offLru'
  BY DEF Contents
<1>4. LossStep
  <2>1. \A j \in Keys : tier[j] # "none" /\ tier'[j] = "none" => MayLeave(Contents, j)
    BY <1>2, <1>3, ContentsFields DEF Pressed
  <2>2. QED
    BY <2>1, ContentsFields DEF LossStep, MayLeave, FullTier, Full, Holds, Contains
<1>5. EvictStep
  <2>1. SUFFICES ASSUME NEW p \in Parts, NEW x \in Range(offLru[p]), x \notin Range(offLru'[p])
                 PROVE  Cardinality(Range(offLru[p]) \cup Range(offLru'[p])) > OffCap
    BY DEF EvictStep
  <2>2. StoreInv /\ StoreInv'
    BY <1>1, PressureStep DEF PressureInv
  <2>3. offLru[p] \in Seq(Keys) /\ IsInjective(offLru[p])
    BY <2>2, ContentsFields DEF StoreInv, Sound, OffloadSound, Store
  <2>4. offLru'[p] \in Seq(Keys) /\ IsInjective(offLru'[p])
    <3>1. Contents' \in Store /\ OffloadSound(Contents)'
      BY <2>2 DEF StoreInv, Sound
    <3>2. IsInjective(offLru'[p])
      BY <3>1 DEF OffloadSound, Contents
    <3>3. QED
      BY <1>3, <3>1, <3>2 DEF Store
  <2>5. Len(offLru'[p]) >= OffCap
    BY <1>2, <1>3, <2>1, ContentsFields DEF Pressed, FullTier
  <2> DEFINE A == Range(offLru[p])
             B == Range(offLru'[p])
  <2>6. IsFiniteSet(A) /\ IsFiniteSet(B) /\ Cardinality(B) = Len(offLru'[p])
    BY <2>3, <2>4, InjectiveLength
  <2> HIDE DEF A, B
  <2>7. IsFiniteSet(B \cup {x}) /\ Cardinality(B \cup {x}) = Cardinality(B) + 1
    BY <2>1, <2>6, FS_AddElement DEF B
  <2>8. IsFiniteSet(A \cup B)
    BY <2>6, FS_Union
  <2>9. B \cup {x} \subseteq A \cup B
    BY <2>1 DEF A, B
  <2>10. Cardinality(B \cup {x}) <= Cardinality(A \cup B)
    BY <2>8, <2>9, FS_Subset
  <2>11. Cardinality(A \cup B) \in Nat /\ Cardinality(B) \in Nat
    BY <2>6, <2>8, FS_CardinalityType
  <2>12. Cardinality(A \cup B) > OffCap
    BY <2>5, <2>6, <2>7, <2>10, <2>11, StoreAssumption
  <2>13. QED
    BY <2>12 DEF A, B
<1>6. QED
  BY <1>4, <1>5

\* A block leaves the store, and its data the offload tier, only when the tier
\* it was in is full: no put, with whatever policy, throws away a block of
\* MooncakeStore that there was room for.
THEOREM NothingLeavesWithoutPressure == StoreSpec => LeavesUnderPressure
<1>1. PressureInv /\ [StoreNext]_storeVars => [LossStep]_storeVars /\ [EvictStep]_storeVars
  BY StepLosses
<1>2. StoreSpec => [][LossStep]_storeVars /\ [][EvictStep]_storeVars
  BY <1>1, PressureInvInitially, PressureStep, PTL DEF StoreSpec
<1>3. [][LossStep]_storeVars => LossNeedsPressure
  BY DEF LossStep, LossNeedsPressure
<1>4. [][EvictStep]_storeVars => EvictsOnlyPastCapacity
  BY DEF EvictStep, EvictsOnlyPastCapacity
<1>5. QED
  BY <1>2, <1>3, <1>4 DEF LeavesUnderPressure

-----------------------------------------------------------------------------
(* What a put does to the objects: which keys it loses, and which read marks *)
(* the memory tier still has                                                 *)

\* Nothing enters the memory tier already read.
MarksKept(s, t) ==
    \A j \in Keys : t.tier[j] = "memory" /\ t.read[j] => s.tier[j] = "memory" /\ s.read[j]

\* What demote_policy refuses.
Refused(s, v) == policy.demote = "if_read" /\ ~s.read[v]

\* An eviction with an offload tier below loses what the write of its block
\* pushes out, or the block it refuses to write.
LEMMA EvictEffect ==
    ASSUME NEW s, Sound(s), NEW p \in Parts, s.memLru[p] # <<>>,
           NEW v, v = Head(s.memLru[p])
    PROVE  LET t == EvictMemory(s, p)
               moved == [Popped(s, p) EXCEPT !.tier[v] = "ssd"]
           IN  /\ MarksKept(s, t)
               /\ v \in Keys /\ PartOf[v] = p /\ s.tier[v] = "memory"
               /\ policy.offload =>
                    \A j \in Keys : s.tier[j] # "none" /\ t.tier[j] = "none" =>
                        \/ ~Refused(s, v) /\ j \in OffloadVictims(moved, v)
                        \/ Refused(s, v) /\ j = v /\ v \notin Range(s.offLru[p])
<1> DEFINE u == Popped(s, p)
           t == EvictMemory(s, p)
           moved == [u EXCEPT !.tier[v] = "ssd"]
<1>1. /\ u \in Store
      /\ u.tier = s.tier /\ u.read = s.read /\ u.offLru = s.offLru
      /\ v \in Keys /\ PartOf[v] = p /\ s.tier[v] = "memory"
  BY PoppedMemory
<1>2. /\ t = IF ~policy.offload THEN Dropped(u, {v})
             ELSE IF Refused(s, v) /\ v \in Range(s.offLru[p]) THEN moved
             ELSE IF Refused(s, v) THEN Dropped(u, {v})
             ELSE OffloadWrite(moved, v)
  BY <1>1 DEF EvictMemory, NotDemoted, Refused
<1>3. /\ \A j \in Keys : Dropped(u, {v}).tier[j] = IF j = v THEN "none" ELSE s.tier[j]
      /\ \A j \in Keys : Dropped(u, {v}).read[j] = (j # v /\ s.read[j])
  BY <1>1, DroppedFields
<1>4. /\ moved \in Store /\ moved.offLru = s.offLru /\ moved.read = s.read
      /\ \A j \in Keys : moved.tier[j] = IF j = v THEN "ssd" ELSE s.tier[j]
  BY <1>1 DEF Store
<1>5. policy.offload => OffloadSound(moved)
  <2>1. \A q \in Parts : \A k \in Range(s.offLru[q]) :
           k \in Keys /\ s.tier[k] # "none" /\ (Filtered => s.read[k])
    BY RangeOfSeq DEF Sound, OffloadSound, Store
  <2>2. \A q \in Parts : \A k \in Range(s.offLru[q]) :
           moved.tier[k] # "none" /\ (Filtered => moved.read[k])
    BY <1>4, <2>1
  <2>3. QED
    BY <1>4, <2>2, OffloadUndisturbed
<1> DEFINE w == OffloadWrite(moved, v)
           V == OffloadVictims(moved, v)
<1> HIDE DEF u, t, moved
<1>6. policy.offload =>
        /\ \A j \in Keys : w.tier[j] = IF j \in V THEN "none" ELSE moved.tier[j]
        /\ \A j \in Keys : w.read[j] = (j \notin V /\ moved.read[j])
  <2>1. SUFFICES ASSUME policy.offload
                 PROVE  /\ \A j \in Keys : w.tier[j] = IF j \in V THEN "none" ELSE moved.tier[j]
                        /\ \A j \in Keys : w.read[j] = (j \notin V /\ moved.read[j])
    OBVIOUS
  <2>2. moved \in Store /\ OffloadSound(moved) /\ v \in Keys
    BY <1>1, <1>4, <1>5, <2>1
  <2>3. QED
    BY <2>2, WriteFields
<1> HIDE DEF w, V
<1>7. CASE ~policy.offload
  <2>1. t = Dropped(u, {v})
    BY <1>2, <1>7
  <2>2. QED
    BY <1>1, <1>3, <1>7, <2>1 DEF MarksKept, t
<1>8. CASE policy.offload /\ Refused(s, v) /\ v \in Range(s.offLru[p])
  <2>1. t = moved
    BY <1>2, <1>8
  <2>2. \A j \in Keys : s.tier[j] # "none" => t.tier[j] # "none"
    BY <1>4, <2>1
  <2>3. MarksKept(s, t)
    BY <1>4, <2>1 DEF MarksKept
  <2>4. QED
    BY <1>1, <2>2, <2>3 DEF t
<1>9. CASE policy.offload /\ Refused(s, v) /\ v \notin Range(s.offLru[p])
  <2>1. t = Dropped(u, {v})
    BY <1>2, <1>9
  <2>2. \A j \in Keys : s.tier[j] # "none" /\ t.tier[j] = "none" => j = v
    BY <1>3, <2>1
  <2>3. MarksKept(s, t)
    BY <1>3, <2>1 DEF MarksKept
  <2>4. QED
    BY <1>1, <1>9, <2>2, <2>3 DEF t
<1>10. CASE policy.offload /\ ~Refused(s, v)
  <2>1. t = w
    BY <1>2, <1>10 DEF w
  <2>2. \A j \in Keys : s.tier[j] # "none" /\ t.tier[j] = "none" => j \in V
    BY <1>4, <1>6, <1>10, <2>1
  <2>3. MarksKept(s, t)
    BY <1>4, <1>6, <1>10, <2>1 DEF MarksKept
  <2>4. QED
    BY <1>1, <1>10, <2>2, <2>3 DEF t, V, moved, u
<1>11. QED
  BY <1>7, <1>8, <1>9, <1>10

\* The victims of a write depend on the offload tier and on the other keys.
LEMMA SameVictims ==
    ASSUME NEW s, NEW t, NEW k \in Keys, t.offLru = s.offLru,
           \A j \in Keys \ {k} : t.tier[j] = s.tier[j]
    PROVE  OffloadVictims(t, k) = OffloadVictims(s, k)
BY DEF OffloadVictims, FullTier

\* An admission loses what its write-through copy pushes out.
LEMMA AdmitEffect ==
    ASSUME NEW s, Sound(s), NEW k \in Keys, s.tier[k] = "none",
           s.memUsed[PartOf[k]] < MemCap
    PROVE  LET t == AdmitMemory(s, k)
           IN  /\ MarksKept(s, t)
               /\ t.tier[k] # "none"
               /\ \A j \in Keys : s.tier[j] # "none" /\ t.tier[j] = "none" =>
                    WritesThrough /\ j \in OffloadVictims(s, k)
<1> DEFINE h == Admitted(s, k)
           w == OffloadWrite(h, k)
           V == OffloadVictims(h, k)
           t == AdmitMemory(s, k)
<1>1. /\ Sound(h) /\ h.offLru = s.offLru /\ h.tier[k] = "memory"
      /\ \A j \in Keys \ {k} : h.tier[j] = s.tier[j] /\ h.read[j] = s.read[j]
      /\ h \in Store /\ OffloadSound(h)
  BY AdmittedKeeps DEF Sound
<1>2. h.read[k] = FALSE
  BY DEF Admitted, Sound, Store
<1>3. t = IF WritesThrough THEN w ELSE h
  BY DEF AdmitMemory, Admitted
<1>4. /\ \A j \in Keys : w.tier[j] = IF j \in V THEN "none" ELSE h.tier[j]
      /\ \A j \in Keys : w.read[j] = (j \notin V /\ h.read[j])
  BY <1>1, WriteFields
<1>5. V = OffloadVictims(s, k) /\ k \notin V
  BY <1>1, SameVictims DEF OffloadVictims
<1> HIDE DEF h, w, V, t
<1>6. MarksKept(s, t)
  BY <1>1, <1>2, <1>3, <1>4 DEF MarksKept
<1>7. t.tier[k] # "none"
  BY <1>1, <1>3, <1>4, <1>5
<1>8. \A j \in Keys : s.tier[j] # "none" /\ t.tier[j] = "none" => WritesThrough /\ j \in V
  BY <1>1, <1>3, <1>4, <1>5
<1>9. QED
  BY <1>5, <1>6, <1>7, <1>8 DEF t

\* So does a write that goes straight to the offload tier.
LEMMA BypassEffect ==
    ASSUME NEW s, Sound(s), NEW k \in Keys, s.tier[k] = "none", ~Filtered, policy.offload
    PROVE  LET t == Bypass(s, k)
           IN  /\ MarksKept(s, t)
               /\ t.tier[k] # "none"
               /\ \A j \in Keys : s.tier[j] # "none" /\ t.tier[j] = "none" =>
                    j \in OffloadVictims(s, k)
<1> DEFINE h == Bypassed(s, k)
           V == OffloadVictims(h, k)
           t == Bypass(s, k)
<1>1. /\ ReadyToWrite(h, k) /\ h.offLru = s.offLru
      /\ \A j \in Keys \ {k} : h.tier[j] = s.tier[j]
  BY BypassedReady
<1>2. /\ h.tier[k] = "ssd" /\ h.read[k] = FALSE
      /\ \A j \in Keys \ {k} : h.read[j] = s.read[j]
  BY DEF Bypassed, Sound, Store
<1>3. t = OffloadWrite(h, k)
  BY DEF Bypass, Bypassed
<1>4. h \in Store /\ OffloadSound(h)
  BY <1>1 DEF ReadyToWrite
<1>5. /\ \A j \in Keys : OffloadWrite(h, k).tier[j] = IF j \in V THEN "none" ELSE h.tier[j]
      /\ \A j \in Keys : OffloadWrite(h, k).read[j] = (j \notin V /\ h.read[j])
  BY <1>4, WriteFields
<1>6. V = OffloadVictims(s, k) /\ k \notin V
  BY <1>1, SameVictims DEF OffloadVictims
<1> HIDE DEF h, V, t
<1>7. MarksKept(s, t)
  BY <1>1, <1>2, <1>3, <1>5 DEF MarksKept
<1>8. t.tier[k] # "none"
  BY <1>2, <1>3, <1>5, <1>6
<1>9. \A j \in Keys : s.tier[j] # "none" /\ t.tier[j] = "none" => j \in V
  BY <1>1, <1>3, <1>5, <1>6
<1>10. QED
  BY <1>6, <1>7, <1>8, <1>9 DEF t

\* A put brings in no key but its own, and with room below for everything it
\* brings that one in and loses none.
LEMMA PutBringsIn ==
    ASSUME NEW s, Sound(s), NEW k \in Keys
    PROVE  LET t == Put(s, k)
               roomy == policy.offload /\ policy.unlimited /\ policy.demote = "always"
           IN  /\ \A j \in Keys \ {k} : s.tier[j] = "none" => t.tier[j] = "none"
               /\ roomy => /\ t.tier[k] # "none"
                           /\ \A j \in Keys : s.tier[j] # "none" => t.tier[j] # "none"
<1> DEFINE p == PartOf[k]
           t == Put(s, k)
           e == EvictMemory(s, p)
           v == Head(s.memLru[p])
           roomy == policy.offload /\ policy.unlimited /\ policy.demote = "always"
<1>1. p \in Parts /\ s.memUsed[p] \in Nat /\ s.memUsed[p] <= MemCap /\ MemCap \in Nat
  BY StoreAssumption DEF Sound, MemorySound, Store
<1>2. roomy => \A x, j : OffloadVictims(x, j) = {}
  BY DEF OffloadVictims, FullTier
<1>3. ASSUME NEW u, Sound(u), u.tier[k] = "none", u.memUsed[p] < MemCap
      PROVE  /\ \A j \in Keys \ {k} : u.tier[j] = "none" => AdmitMemory(u, k).tier[j] = "none"
             /\ roomy => /\ AdmitMemory(u, k).tier[k] # "none"
                         /\ \A j \in Keys : u.tier[j] # "none" => AdmitMemory(u, k).tier[j] # "none"
  <2>1. \A j \in Keys \ {k} : u.tier[j] = "none" => AdmitMemory(u, k).tier[j] = "none"
    BY <1>3, AdmitLosses
  <2>2. /\ AdmitMemory(u, k).tier[k] # "none"
        /\ \A j \in Keys : u.tier[j] # "none" /\ AdmitMemory(u, k).tier[j] = "none" =>
             j \in OffloadVictims(u, k)
    BY <1>3, AdmitEffect
  <2> QED
    BY <1>2, <2>1, <2>2
<1>4. CASE s.tier[k] # "none"
  BY <1>4, TouchedKeeps DEF Put
<1>5. CASE s.tier[k] = "none" /\ s.memUsed[p] < MemCap
  <2>1. t = AdmitMemory(s, k)
    BY <1>5 DEF Put
  <2> HIDE DEF t, p, roomy
  <2> QED
    BY <1>3, <1>5, <2>1 DEF t, roomy
<1>6. CASE s.tier[k] = "none" /\ ~(s.memUsed[p] < MemCap) /\ CanEvict(s, p)
  <2>1. s.memLru[p] # <<>>
    BY <1>6 DEF CanEvict
  <2>2. /\ Sound(e) /\ e.tier[k] = "none" /\ e.memUsed[p] < MemCap
        /\ \A j \in Keys : s.tier[j] = "none" => e.tier[j] = "none"
    <3>1. /\ Sound(e) /\ e.memUsed[p] = s.memUsed[p] - 1
          /\ \A j \in Keys : s.tier[j] = "none" => e.tier[j] = "none"
      BY <1>1, <1>6, <2>1, EvictKeeps
    <3> QED
      BY <1>1, <1>6, <3>1
  <2>3. roomy => \A j \in Keys : s.tier[j] # "none" => e.tier[j] # "none"
    <3> DEFINE moved == [Popped(s, p) EXCEPT !.tier[v] = "ssd"]
    <3>1. policy.offload =>
            \A j \in Keys : s.tier[j] # "none" /\ e.tier[j] = "none" =>
                \/ ~Refused(s, v) /\ j \in OffloadVictims(moved, v)
                \/ Refused(s, v) /\ j = v /\ v \notin Range(s.offLru[p])
      BY <1>1, <2>1, EvictEffect
    <3> QED
      BY <1>2, <3>1 DEF Refused
  <2>4. t = AdmitMemory(e, k)
    BY <1>6 DEF Put
  <2> HIDE DEF t, e, p, roomy
  <2>5. /\ \A j \in Keys \ {k} : e.tier[j] = "none" => t.tier[j] = "none"
        /\ roomy => t.tier[k] # "none" /\ \A j \in Keys : e.tier[j] # "none" => t.tier[j] # "none"
    BY <1>3, <2>2, <2>4
  <2> QED
    BY <2>2, <2>3, <2>5 DEF t, roomy
<1>7. CASE s.tier[k] = "none" /\ ~(s.memUsed[p] < MemCap) /\ ~CanEvict(s, p)
  <2>1. t = Bypass(s, k)
    BY <1>7 DEF Put
  <2>2. CASE policy.offload
    <3>1. ~Filtered
      BY <1>1, <1>7, NoRoomNoVictim
    <3>2. /\ t.tier[k] # "none"
          /\ \A j \in Keys : s.tier[j] # "none" /\ t.tier[j] = "none" => j \in OffloadVictims(s, k)
      BY <1>7, <2>1, <2>2, <3>1, BypassEffect
    <3>3. \A j \in Keys \ {k} : s.tier[j] = "none" => t.tier[j] = "none"
      <4> DEFINE h == Bypassed(s, k)
      <4>1. /\ h \in Store /\ OffloadSound(h)
            /\ \A j \in Keys \ {k} : h.tier[j] = s.tier[j]
        BY <1>7, <2>2, <3>1, BypassedReady DEF ReadyToWrite
      <4>2. t = OffloadWrite(h, k)
        BY <2>1, <2>2 DEF Bypass, Bypassed
      <4> HIDE DEF h, t
      <4>3. \A j \in Keys : t.tier[j] = h.tier[j] \/ t.tier[j] = "none"
        BY <4>1, <4>2, WriteLosses
      <4> QED
        BY <4>1, <4>3
    <3> QED
      BY <1>2, <3>2, <3>3
  <2>3. CASE ~policy.offload
    BY <2>1, <2>3 DEF Bypass
  <2> QED
    BY <2>2, <2>3
<1> QED
  BY <1>4, <1>5, <1>6, <1>7

\* The store after the put of k, under an offload tier, has lost what the ledger
\* says: nothing else leaves it.
LEMMA PutEffect ==
    ASSUME StoreInv, NEW k \in Keys, PutKey(k)
    PROVE  /\ policy' = policy
           /\ tier[k] # "none" => tier' = tier
           /\ Admits(k) \/ Bypasses(k) => tier'[k] # "none"
           /\ \A v \in Keys : tier'[v] = "memory" /\ read'[v] => tier[v] = "memory" /\ read[v]
           /\ policy.offload =>
                \A v \in Keys : tier[v] # "none" /\ tier'[v] = "none" =>
                    v \in LostToHbf(k) \cup LostToDrop(k)
           /\ Evicts(k) => /\ Oldest(k) \in Keys /\ PartOf[Oldest(k)] = PartOf[k]
                           /\ tier[Oldest(k)] = "memory"
<1> DEFINE s == Contents
           p == PartOf[k]
           t == Put(s, k)
           e == EvictMemory(s, p)
           v == Oldest(k)
<1>1. /\ s.tier = tier /\ s.read = read /\ s.memLru = memLru
      /\ s.memUsed = memUsed /\ s.offLru = offLru
  BY ContentsFields
<1>2. /\ tier' = t.tier /\ read' = t.read /\ policy' = policy
  BY DEF PutKey, Becomes
<1>3. /\ Sound(s) /\ p \in Parts /\ s.memUsed[p] \in Nat /\ s.memUsed[p] <= MemCap
      /\ MemCap \in Nat
  BY StoreAssumption DEF StoreInv, Sound, MemorySound, Store
<1>4. Evicts(k) <=> s.tier[k] = "none" /\ ~(s.memUsed[p] < MemCap) /\ CanEvict(s, p)
  BY <1>1, <1>3 DEF Evicts
<1>5. BeforeAdmission(k) = IF Evicts(k) THEN e ELSE s
  BY DEF BeforeAdmission
<1> HIDE DEF s, t, e
<1>6. Evicts(k) =>
        /\ MarksKept(s, e)
        /\ v \in Keys /\ PartOf[v] = p /\ tier[v] = "memory"
        /\ Sound(e) /\ e.tier[k] = "none" /\ e.memUsed[p] < MemCap
        /\ policy.offload =>
             \A j \in Keys : s.tier[j] # "none" /\ e.tier[j] = "none" =>
                 j \in LostToHbf(k) \cup LostToDrop(k)
  <2>1. SUFFICES ASSUME Evicts(k)
                 PROVE  /\ MarksKept(s, e)
                        /\ v \in Keys /\ PartOf[v] = p /\ tier[v] = "memory"
                        /\ Sound(e) /\ e.tier[k] = "none" /\ e.memUsed[p] < MemCap
                        /\ policy.offload =>
                             \A j \in Keys : s.tier[j] # "none" /\ e.tier[j] = "none" =>
                                 j \in LostToHbf(k) \cup LostToDrop(k)
    OBVIOUS
  <2> DEFINE moved == [Popped(s, p) EXCEPT !.tier[v] = "ssd"]
  <2>2. s.memLru[p] # <<>> /\ v = Head(s.memLru[p]) /\ s.tier[k] = "none"
    BY <1>1, <1>4, <2>1 DEF CanEvict, Oldest
  <2>3. /\ MarksKept(s, e)
        /\ v \in Keys /\ PartOf[v] = p /\ s.tier[v] = "memory"
        /\ policy.offload =>
             \A j \in Keys : s.tier[j] # "none" /\ e.tier[j] = "none" =>
                 \/ ~Refused(s, v) /\ j \in OffloadVictims(moved, v)
                 \/ Refused(s, v) /\ j = v /\ v \notin Range(s.offLru[p])
    BY <1>3, <2>2, EvictEffect DEF e
  <2>4. Sound(e) /\ e.tier[k] = "none" /\ e.memUsed[p] = s.memUsed[p] - 1
    BY <1>3, <2>2, EvictKeeps DEF e
  <2>5. e.memUsed[p] < MemCap
    BY <1>3, <2>4
  <2>6. ASSUME policy.offload
        PROVE  /\ Demotes(k) <=> ~Refused(s, v)
               /\ BeforeDemotion(v) = moved
    BY <1>1, <2>1, <2>3, <2>6 DEF Demotes, Drops, Refused, BeforeDemotion, s
  <2>7. ASSUME policy.offload, NEW j \in Keys, ~Refused(s, v), j \in OffloadVictims(moved, v)
        PROVE  j \in LostToHbf(k)
    <3>1. Demotes(k) /\ j \in OffloadVictims(BeforeDemotion(v), v)
      BY <2>6, <2>7
    <3>2. QED
      BY <3>1 DEF LostToHbf
  <2>8. ASSUME policy.offload, NEW j \in Keys, Refused(s, v), j = v, v \notin Range(s.offLru[p])
        PROVE  j \in LostToDrop(k)
    <3>1. ~Demotes(k) /\ ~Contains(v)
      BY <1>1, <2>3, <2>6, <2>8 DEF Contains
    <3>2. QED
      BY <2>1, <2>8, <3>1 DEF LostToDrop
  <2> HIDE DEF v, moved
  <2>9. QED
    BY <1>1, <2>3, <2>4, <2>5, <2>7, <2>8
<1> DEFINE b == BeforeAdmission(k)
<1>7. CASE tier[k] # "none"
  <2>1. t = Touched(s, k)
    BY <1>1, <1>7 DEF Put, t
  <2>2. t.tier = s.tier /\ t.read = s.read
    BY <1>3, <2>1, TouchedKeeps
  <2>3. ~Admits(k) /\ ~Bypasses(k) /\ ~Evicts(k)
    BY <1>7 DEF Admits, Bypasses, Evicts
  <2>4. QED
    BY <1>1, <1>2, <2>2, <2>3
<1>8. CASE Admits(k)
  <2>1. /\ Sound(b) /\ b.tier[k] = "none" /\ b.memUsed[p] < MemCap
        /\ MarksKept(s, b)
    BY <1>1, <1>3, <1>5, <1>6, <1>8 DEF Admits, MarksKept
  <2>2. t = AdmitMemory(b, k)
    BY <1>1, <1>4, <1>5, <1>8 DEF Admits, Put, t, e
  <2> HIDE DEF b
  <2>3. /\ MarksKept(b, t) /\ t.tier[k] # "none"
        /\ \A j \in Keys : b.tier[j] # "none" /\ t.tier[j] = "none" =>
             WritesThrough /\ j \in OffloadVictims(b, k)
    BY <2>1, <2>2, AdmitEffect
  <2>4. ASSUME policy.offload, NEW j \in Keys, s.tier[j] # "none", t.tier[j] = "none"
        PROVE  j \in LostToHbf(k) \cup LostToDrop(k)
    <3>1. CASE b.tier[j] = "none"
      BY <1>5, <1>6, <2>4, <3>1 DEF b
    <3>2. CASE b.tier[j] # "none"
      <4>1. WritesCopy(k) /\ j \in OffloadVictims(BeforeAdmission(k), k)
        BY <1>8, <2>3, <2>4, <3>2 DEF WritesCopy, b
      <4>2. QED
        BY <4>1 DEF LostToHbf
    <3>3. QED
      BY <3>1, <3>2
  <2>5. MarksKept(s, t)
    BY <2>1, <2>3 DEF MarksKept
  <2>6. tier[k] = "none"
    BY <1>8 DEF Admits
  <2>7. QED
    BY <1>1, <1>2, <1>6, <2>3, <2>4, <2>5, <2>6 DEF MarksKept
<1>9. CASE tier[k] = "none" /\ ~Admits(k)
  <2>1. ~(s.memUsed[p] < MemCap) /\ ~CanEvict(s, p) /\ ~Evicts(k)
    BY <1>1, <1>4, <1>9 DEF Admits
  <2>2. t = Bypass(s, k) /\ b = s
    BY <1>1, <1>5, <1>9, <2>1 DEF Put, t
  <2>3. CASE policy.offload
    <3>1. /\ MarksKept(s, t) /\ t.tier[k] # "none"
          /\ \A j \in Keys : s.tier[j] # "none" /\ t.tier[j] = "none" =>
               j \in OffloadVictims(s, k)
      BY <1>1, <1>3, <1>9, <2>1, <2>2, <2>3, NoRoomNoVictim, BypassEffect
    <3>2. WritesCopy(k)
      BY <1>9, <2>3 DEF WritesCopy, Bypasses
    <3>3. \A j \in OffloadVictims(s, k) : j \in LostToHbf(k)
      BY <2>2, <3>2 DEF LostToHbf
    <3>4. QED
      BY <1>1, <1>2, <1>9, <2>1, <3>1, <3>3 DEF MarksKept
  <2>4. CASE ~policy.offload
    <3>1. t = s /\ ~Bypasses(k)
      BY <2>2, <2>4 DEF Bypass, Bypasses
    <3>2. QED
      BY <1>1, <1>2, <1>9, <2>1, <2>4, <3>1
  <2>5. QED
    BY <2>3, <2>4
<1>10. QED
  BY <1>7, <1>8, <1>9 DEF Admits

-----------------------------------------------------------------------------
(* What a call does to the counters *)

LEMMA BitIsNat == \A b : Bit(b) \in {0, 1}
BY DEF Bit

PutCounters ==
    {"put", "admitted", "bypassed", "rejected", "memoryWrites", "memoryEvictions",
     "demoted", "dropped", "ssdWrites", "written", "ssdEvictions", "useful", "wasted",
     "gatePasses", "gatePassesServed"}

\* What a put adds to each counter, but for the source of an admission.
LEMMA PutAdds ==
    ASSUME NEW k
    PROVE  LET more == PutCounts(k)
           IN  /\ DOMAIN more = PutCounters
               /\ \A c \in PutCounters : more[c] \in Nat
               /\ more["admitted"] = Bit(Admits(k) \/ Bypasses(k))
               /\ more["bypassed"] = Bit(Bypasses(k))
               /\ more["memoryWrites"] = Bit(Admits(k))
               /\ more["memoryEvictions"] = Bit(Evicts(k))
               /\ more["ssdEvictions"] = PushedOut(k)
               /\ more["demoted"] = Bit(Demotes(k))
               /\ more["ssdWrites"] = Bit(Demotes(k)) + Bit(WritesCopy(k))
               /\ more["written"] = Bit(Demotes(k)) + Bit(WritesCopy(k))
               /\ more["gatePasses"] = Bit(Passes(k))
               /\ more["gatePassesServed"] = Bit(Passes(k) /\ Oldest(k) \in served)
<1> DEFINE more == PutCounts(k)
<1>1. \A x, y : Bit(x) \in Nat /\ Bit(x) + Bit(y) \in Nat
  BY BitIsNat
<1>2. DOMAIN more = PutCounters
  BY DEF PutCounts, PutCounters
<1>3. /\ more["admitted"] = Bit(Admits(k) \/ Bypasses(k))
      /\ more["bypassed"] = Bit(Bypasses(k))
      /\ more["memoryWrites"] = Bit(Admits(k))
      /\ more["memoryEvictions"] = Bit(Evicts(k))
      /\ more["ssdEvictions"] = PushedOut(k)
      /\ more["demoted"] = Bit(Demotes(k))
      /\ more["ssdWrites"] = Bit(Demotes(k)) + Bit(WritesCopy(k))
      /\ more["written"] = Bit(Demotes(k)) + Bit(WritesCopy(k))
      /\ more["gatePasses"] = Bit(Passes(k))
      /\ more["gatePassesServed"] = Bit(Passes(k) /\ Oldest(k) \in served)
  BY DEF PutCounts
<1>4. \A c \in PutCounters : more[c] \in Nat
  BY <1>1 DEF PutCounts, PutCounters, PushedOut
<1>5. QED
  BY <1>2, <1>3, <1>4

NatCounters == n \in [Counters -> Nat]

\* Counting adds to each counter what is said of it.
LEMMA CountedAdds ==
    ASSUME NatCounters, NEW more, DOMAIN more \subseteq Counters,
           \A c \in DOMAIN more : more[c] \in Nat
    PROVE  /\ Counted(more) \in [Counters -> Nat]
           /\ \A c \in DOMAIN more : Counted(more)[c] = n[c] + more[c]
           /\ \A c \in Counters : c \notin DOMAIN more => Counted(more)[c] = n[c]
<1>1. \A c \in Counters : n[c] \in Nat
  BY DEF NatCounters
<1>2. \A c \in Counters : n[c] + (IF c \in DOMAIN more THEN more[c] ELSE 0) \in Nat
  BY <1>1
<1>3. Counted(more) \in [Counters -> Nat]
  BY <1>2 DEF Counted
<1>4. \A c \in Counters : Counted(more)[c] = n[c] + (IF c \in DOMAIN more THEN more[c] ELSE 0)
  BY DEF Counted
<1>5. QED
  BY <1>1, <1>3, <1>4

Sources == {"first", "afterDrop", "afterHbfEvict", "afterOther"}

\* The counters after a put.
LEMMA PutCounted ==
    ASSUME NatCounters, NEW k, n' = AddSource(Counted(PutCounts(k)), k)
    PROVE  /\ NatCounters'
           /\ n'.admitted = n.admitted + Bit(Admits(k) \/ Bypasses(k))
           /\ n'.bypassed = n.bypassed + Bit(Bypasses(k))
           /\ n'.memoryWrites = n.memoryWrites + Bit(Admits(k))
           /\ n'.memoryEvictions = n.memoryEvictions + Bit(Evicts(k))
           /\ n'.ssdEvictions = n.ssdEvictions + PushedOut(k)
           /\ n'.demoted = n.demoted + Bit(Demotes(k))
           /\ n'.ssdWrites = n.ssdWrites + (Bit(Demotes(k)) + Bit(WritesCopy(k)))
           /\ n'.written = n.written + (Bit(Demotes(k)) + Bit(WritesCopy(k)))
           /\ n'.gatePasses = n.gatePasses + Bit(Passes(k))
           /\ n'.gatePassesServed
                = n.gatePassesServed + Bit(Passes(k) /\ Oldest(k) \in served)
           /\ n'.readBack = n.readBack /\ n'.ssdReads = n.ssdReads
           /\ \A c \in Sources : n'[c] = n[c] + Bit(Admits(k) /\ c = Source(k))
<1> DEFINE more == PutCounts(k)
           m == Counted(more)
           P == {"admitted", "bypassed", "memoryWrites", "memoryEvictions", "demoted",
                 "ssdWrites", "ssdEvictions", "written", "gatePasses", "gatePassesServed"}
<1>1. /\ DOMAIN more = PutCounters
      /\ \A c \in PutCounters : more[c] \in Nat
      /\ more["admitted"] = Bit(Admits(k) \/ Bypasses(k))
      /\ more["bypassed"] = Bit(Bypasses(k))
      /\ more["memoryWrites"] = Bit(Admits(k))
      /\ more["memoryEvictions"] = Bit(Evicts(k))
      /\ more["ssdEvictions"] = PushedOut(k)
      /\ more["demoted"] = Bit(Demotes(k))
      /\ more["ssdWrites"] = Bit(Demotes(k)) + Bit(WritesCopy(k))
      /\ more["written"] = Bit(Demotes(k)) + Bit(WritesCopy(k))
      /\ more["gatePasses"] = Bit(Passes(k))
      /\ more["gatePassesServed"] = Bit(Passes(k) /\ Oldest(k) \in served)
  BY PutAdds
<1>2. /\ PutCounters \subseteq Counters /\ P \subseteq PutCounters
      /\ Sources \subseteq Counters /\ Sources \cap PutCounters = {}
      /\ {"readBack", "ssdReads"} \subseteq Counters
      /\ {"readBack", "ssdReads"} \cap (PutCounters \cup Sources) = {}
  BY DEF PutCounters, Counters, Sources
<1> HIDE DEF more
<1>3. /\ m \in [Counters -> Nat]
      /\ \A c \in PutCounters : m[c] = n[c] + more[c]
      /\ \A c \in Counters : c \notin PutCounters => m[c] = n[c]
  BY <1>1, <1>2, CountedAdds
<1>4. Source(k) \in Sources
  BY DEF Source, Sources
<1>5. n' = IF Admits(k) THEN [m EXCEPT ![Source(k)] = m[Source(k)] + 1] ELSE m
  BY DEF AddSource, more
<1> HIDE DEF m
<1>6. /\ n' \in [Counters -> Nat]
      /\ \A c \in Counters \ Sources : n'[c] = m[c]
      /\ \A c \in Sources : n'[c] = IF Admits(k) /\ c = Source(k) THEN m[c] + 1 ELSE m[c]
  <2>1. m[Source(k)] + 1 \in Nat
    BY <1>2, <1>3, <1>4
  <2>2. QED
    BY <1>2, <1>3, <1>4, <1>5, <2>1
<1>7. \A c \in P : n'[c] = n[c] + more[c]
  BY <1>2, <1>3, <1>6
<1>8. n'["readBack"] = n["readBack"] /\ n'["ssdReads"] = n["ssdReads"]
  BY <1>2, <1>3, <1>6
<1>9. \A c \in Sources : n'[c] = n[c] + Bit(Admits(k) /\ c = Source(k))
  <2>1. \A c \in Sources : m[c] = n[c] /\ n[c] \in Nat
    BY <1>2, <1>3 DEF NatCounters
  <2>2. \A c \in Sources : n[c] + 0 = n[c]
    BY <2>1
  <2>3. QED
    BY <1>6, <2>1, <2>2 DEF Bit
<1>10. NatCounters'
  BY <1>6 DEF NatCounters, Counters
<1>11. QED
  BY <1>1, <1>7, <1>8, <1>9, <1>10

-----------------------------------------------------------------------------
(* The invariant *)

\* Why a key left is "other" only without an offload tier.
DeparturesKnown ==
    /\ departed \in [Keys -> {"", "hbf_evict", "if_read_drop", "other"}]
    /\ policy.offload => \A k \in Keys : departed[k] # "other"

\* With read_credit "served" a read mark in the memory tier is a served block.
MarksServed ==
    policy.credit = "served" =>
        \A k \in Keys : tier[k] = "memory" /\ read[k] => k \in served

LedgerInv ==
    /\ StoreInv
    /\ NatCounters
    /\ unread \subseteq Keys /\ IsFiniteSet(unread) /\ seen \subseteq Keys
    /\ DeparturesKnown
    /\ MarksServed
    /\ WriteIdentity
    /\ SourcesKnown
    /\ ReadBackOnce
    /\ GatePassesServed

LEMMA PutKeepsIdentity ==
    ASSUME LedgerInv, NEW k \in Keys, LedgerPut(k)
    PROVE  WriteIdentity'
<1>1. SUFFICES ASSUME policy.offload
               PROVE  n'.ssdWrites
                        = n'.demoted + (IF WritesThrough THEN n'.admitted ELSE n'.bypassed)
  BY DEF LedgerPut, PutKey, WriteIdentity, WritesThrough
<1>2. /\ n.ssdWrites \in Nat /\ n.demoted \in Nat /\ n.admitted \in Nat /\ n.bypassed \in Nat
  BY DEF LedgerInv, NatCounters, Counters
<1>3. n.ssdWrites = n.demoted + (IF WritesThrough THEN n.admitted ELSE n.bypassed)
  BY <1>1 DEF LedgerInv, WriteIdentity
<1>4. /\ n'.admitted = n.admitted + Bit(Admits(k) \/ Bypasses(k))
      /\ n'.bypassed = n.bypassed + Bit(Bypasses(k))
      /\ n'.demoted = n.demoted + Bit(Demotes(k))
      /\ n'.ssdWrites = n.ssdWrites + (Bit(Demotes(k)) + Bit(WritesCopy(k)))
  BY PutCounted DEF LedgerInv, LedgerPut
<1>5. Bit(WritesCopy(k)) = IF WritesThrough THEN Bit(Admits(k) \/ Bypasses(k))
                                            ELSE Bit(Bypasses(k))
  BY DEF WritesCopy, Bit
<1>6. /\ Bit(Demotes(k)) \in Nat /\ Bit(Bypasses(k)) \in Nat
      /\ Bit(Admits(k) \/ Bypasses(k)) \in Nat
  BY BitIsNat
<1> DEFINE a == Bit(Demotes(k))
           b == Bit(WritesCopy(k))
<1> HIDE DEF a, b
<1>7. CASE WritesThrough
  BY <1>2, <1>3, <1>4, <1>5, <1>6, <1>7
<1>8. CASE ~WritesThrough
  BY <1>2, <1>3, <1>4, <1>5, <1>6, <1>8
<1>9. QED
  BY <1>7, <1>8

LEMMA PutKeepsSources ==
    ASSUME LedgerInv, NEW k \in Keys, LedgerPut(k)
    PROVE  SourcesKnown' /\ DeparturesKnown'
<1>1. /\ policy' = policy /\ PutKey(k) /\ StoreInv
      /\ departed' = Left(k) /\ seen' = seen \cup {v \in {k} : Admits(k) \/ Bypasses(k)}
  BY DEF LedgerPut, PutKey, LedgerInv
<1>2. /\ tier[k] # "none" => tier' = tier
      /\ Admits(k) \/ Bypasses(k) => tier'[k] # "none"
      /\ policy.offload =>
           \A v \in Keys : tier[v] # "none" /\ tier'[v] = "none" =>
               v \in LostToHbf(k) \cup LostToDrop(k)
  BY <1>1, PutEffect
<1>3. DeparturesKnown
  BY DEF LedgerInv
<1>4. \A v \in Keys :
        departed'[v] = IF v \in LostToHbf(k) THEN "hbf_evict"
                       ELSE IF v \in LostToDrop(k)
                       THEN (IF policy.offload THEN "if_read_drop" ELSE "other")
                       ELSE IF v = k /\ Admits(k) THEN "" ELSE departed[v]
  BY <1>1 DEF Left
<1>5. DeparturesKnown'
  <2>1. departed' \in [Keys -> {"", "hbf_evict", "if_read_drop", "other"}]
    <3> DEFINE D == {"", "hbf_evict", "if_read_drop", "other"}
    <3>1. \A v \in Keys : departed[v] \in D
      BY <1>3 DEF DeparturesKnown
    <3>2. \A v \in Keys :
            (IF v \in LostToHbf(k) THEN "hbf_evict"
             ELSE IF v \in LostToDrop(k)
             THEN (IF policy.offload THEN "if_read_drop" ELSE "other")
             ELSE IF v = k /\ Admits(k) THEN "" ELSE departed[v]) \in D
      BY <3>1
    <3> HIDE DEF D
    <3>3. departed' \in [Keys -> D]
      BY <1>1, <3>2 DEF Left
    <3>4. QED
      BY <3>3 DEF D
  <2>2. ASSUME policy.offload, NEW v \in Keys
        PROVE  departed'[v] # "other"
    <3>1. departed[v] # "other"
      BY <1>3, <2>2 DEF DeparturesKnown
    <3>2. departed'[v] \in {"hbf_evict", "if_read_drop", "", departed[v]}
      BY <1>4, <2>2
    <3>3. QED
      BY <3>1, <3>2
  <2>3. QED
    BY <1>1, <2>1, <2>2 DEF DeparturesKnown
<1>6. policy.offload /\ Admits(k) => Source(k) # "afterOther"
  <2>1. SUFFICES ASSUME policy.offload, Admits(k), k \in seen
                 PROVE  departed[k] \in {"hbf_evict", "if_read_drop"}
    BY DEF Source
  <2>2. tier[k] = "none"
    BY <2>1 DEF Admits
  <2>3. departed[k] # ""
    BY <2>1, <2>2 DEF LedgerInv, SourcesKnown
  <2>4. QED
    BY <1>3, <2>1, <2>3 DEF DeparturesKnown
<1>7. /\ n'.memoryWrites = n.memoryWrites + Bit(Admits(k))
      /\ \A c \in Sources : n'[c] = n[c] + Bit(Admits(k) /\ c = Source(k))
      /\ Source(k) \in Sources
  BY PutCounted DEF LedgerInv, LedgerPut, Source, Sources
<1>8. /\ n.first \in Nat /\ n.afterDrop \in Nat /\ n.afterHbfEvict \in Nat
      /\ n.afterOther \in Nat /\ n.memoryWrites \in Nat
      /\ n.first + n.afterDrop + n.afterHbfEvict + n.afterOther = n.memoryWrites
      /\ policy.offload => n.afterOther = 0
  BY DEF LedgerInv, NatCounters, Counters, SourcesKnown
<1>9. /\ n'.first = n.first + Bit(Admits(k) /\ "first" = Source(k))
      /\ n'.afterDrop = n.afterDrop + Bit(Admits(k) /\ "afterDrop" = Source(k))
      /\ n'.afterHbfEvict = n.afterHbfEvict + Bit(Admits(k) /\ "afterHbfEvict" = Source(k))
      /\ n'.afterOther = n.afterOther + Bit(Admits(k) /\ "afterOther" = Source(k))
  BY <1>7 DEF Sources
<1>10. n'.first + n'.afterDrop + n'.afterHbfEvict + n'.afterOther = n'.memoryWrites
  <2>1. Bit(Admits(k)) = Bit(Admits(k) /\ "first" = Source(k))
                           + Bit(Admits(k) /\ "afterDrop" = Source(k))
                           + Bit(Admits(k) /\ "afterHbfEvict" = Source(k))
                           + Bit(Admits(k) /\ "afterOther" = Source(k))
    BY <1>7 DEF Bit, Sources
  <2>2. /\ Bit(Admits(k) /\ "first" = Source(k)) \in Nat
        /\ Bit(Admits(k) /\ "afterDrop" = Source(k)) \in Nat
        /\ Bit(Admits(k) /\ "afterHbfEvict" = Source(k)) \in Nat
        /\ Bit(Admits(k) /\ "afterOther" = Source(k)) \in Nat
    BY BitIsNat
  <2>3. QED
    BY <1>7, <1>8, <1>9, <2>1, <2>2
<1>11. policy.offload => n'.afterOther = 0
  BY <1>6, <1>8, <1>9 DEF Bit
<1>12. policy.offload => \A v \in seen' \cap Keys : tier'[v] = "none" => departed'[v] # ""
  <2>1. SUFFICES ASSUME policy.offload, NEW v \in Keys, v \in seen', tier'[v] = "none"
                 PROVE  departed'[v] # ""
    OBVIOUS
  <2>2. CASE tier[v] # "none"
    BY <1>2, <1>4, <2>1, <2>2
  <2>3. CASE tier[v] = "none"
    <3>1. ~(v = k /\ (Admits(k) \/ Bypasses(k)))
      BY <1>2, <2>1
    <3>2. v # k
      BY <2>1, <2>3, <3>1 DEF Bypasses
    <3>3. v \in seen
      BY <1>1, <2>1, <3>2
    <3>4. departed[v] # ""
      BY <2>1, <2>3, <3>3 DEF LedgerInv, SourcesKnown
    <3>5. QED
      BY <1>4, <3>2, <3>4
  <2>4. QED
    BY <2>2, <2>3
<1>13. seen' \subseteq Keys
  BY <1>1 DEF LedgerInv
<1>14. QED
  BY <1>1, <1>5, <1>10, <1>11, <1>12, <1>13 DEF SourcesKnown

\* Adding at most as many keys as were written, or none, or taking one away.
LEMMA MarkCount ==
    ASSUME NEW U, IsFiniteSet(U), NEW k, NEW v, NEW A, NEW B
    PROVE  LET W == U \cup ({v} \cap A) \cup ({k} \cap B)
           IN  /\ IsFiniteSet(W)
               /\ Cardinality(W) <= Cardinality(U) + (Bit(v \in A) + Bit(k \in B))
<1> DEFINE X == U \cup ({v} \cap A)
           W == X \cup ({k} \cap B)
<1>1. ASSUME NEW Y, IsFiniteSet(Y), NEW x, NEW C
      PROVE  /\ IsFiniteSet(Y \cup ({x} \cap C))
             /\ Cardinality(Y \cup ({x} \cap C)) <= Cardinality(Y) + Bit(x \in C)
  <2>1. Cardinality(Y) \in Nat
    BY <1>1, FS_CardinalityType
  <2>2. CASE x \in C
    <3>1. Y \cup ({x} \cap C) = Y \cup {x}
      BY <2>2
    <3>2. /\ IsFiniteSet(Y \cup {x})
          /\ Cardinality(Y \cup {x}) = IF x \in Y THEN Cardinality(Y) ELSE Cardinality(Y) + 1
      BY <1>1, FS_AddElement
    <3>3. Cardinality(Y \cup {x}) <= Cardinality(Y) + 1
      BY <2>1, <3>2
    <3>4. QED
      BY <2>2, <3>1, <3>2, <3>3 DEF Bit
  <2>3. CASE x \notin C
    <3>1. Y \cup ({x} \cap C) = Y
      BY <2>3
    <3>2. Bit(x \in C) = 0 /\ Cardinality(Y) <= Cardinality(Y) + 0
      BY <2>1, <2>3 DEF Bit
    <3>3. QED
      BY <1>1, <3>1, <3>2
  <2>4. QED
    BY <2>2, <2>3
<1>2. IsFiniteSet(X) /\ Cardinality(X) <= Cardinality(U) + Bit(v \in A)
  BY <1>1
<1> HIDE DEF X
<1>3. IsFiniteSet(W) /\ Cardinality(W) <= Cardinality(X) + Bit(k \in B)
  BY <1>1, <1>2
<1>4. /\ Cardinality(U) \in Nat /\ Cardinality(X) \in Nat /\ Cardinality(W) \in Nat
      /\ Bit(v \in A) \in Nat /\ Bit(k \in B) \in Nat
  BY <1>2, <1>3, FS_CardinalityType, BitIsNat
<1>5. \A a, b, c, d, e \in Nat : b <= a + d /\ c <= b + e => c <= a + (d + e)
  OBVIOUS
<1>6. Cardinality(W) <= Cardinality(U) + (Bit(v \in A) + Bit(k \in B))
  BY <1>2, <1>3, <1>4, <1>5, Zenon
<1>7. QED
  BY <1>3, <1>6 DEF X

LEMMA PutKeepsReadBacks ==
    ASSUME LedgerInv, NEW k \in Keys, LedgerPut(k)
    PROVE  ReadBackOnce' /\ unread' \subseteq Keys /\ IsFiniteSet(unread')
<1>1. unread' = unread \cup {v \in Keys : \/ Demotes(k) /\ v = Oldest(k)
                                          \/ WritesCopy(k) /\ v = k}
  BY DEF LedgerPut
<1>2. unread \subseteq Keys /\ IsFiniteSet(unread) /\ ReadBackOnce /\ StoreInv /\ PutKey(k)
  BY DEF LedgerInv, LedgerPut
<1>3. Demotes(k) => Oldest(k) \in Keys
  BY <1>2, PutEffect DEF Demotes
<1> DEFINE A == {v \in Keys : Demotes(k)}
           B == {v \in Keys : WritesCopy(k)}
<1>4. unread' = unread \cup ({Oldest(k)} \cap A) \cup ({k} \cap B)
  BY <1>1, <1>3
<1>5. /\ IsFiniteSet(unread')
      /\ Cardinality(unread')
           <= Cardinality(unread) + (Bit(Oldest(k) \in A) + Bit(k \in B))
  <2> HIDE DEF A, B
  <2>1. QED
    BY <1>2, <1>4, MarkCount
<1>6. Bit(Oldest(k) \in A) = Bit(Demotes(k)) /\ Bit(k \in B) = Bit(WritesCopy(k))
  BY <1>3 DEF Bit
<1>7. /\ n'.readBack = n.readBack /\ n'.ssdReads = n.ssdReads
      /\ n'.written = n.written + (Bit(Demotes(k)) + Bit(WritesCopy(k)))
  BY PutCounted DEF LedgerInv, LedgerPut
<1>8. /\ n.readBack \in Nat /\ n.written \in Nat
      /\ Cardinality(unread) \in Nat /\ Cardinality(unread') \in Nat
      /\ Bit(Demotes(k)) + Bit(WritesCopy(k)) \in Nat
  <2>1. n.readBack \in Nat /\ n.written \in Nat
    BY DEF LedgerInv, NatCounters, Counters
  <2>2. Bit(Demotes(k)) + Bit(WritesCopy(k)) \in Nat
    BY BitIsNat
  <2>3. QED
    BY <1>2, <1>5, <2>1, <2>2, FS_CardinalityType
<1>9. \A r, c, w, d, e \in Nat : r + c <= w /\ e <= c + d => r + e <= w + d
  OBVIOUS
<1>10. n'.readBack + Cardinality(unread') <= n'.written
  <2>1. n.readBack + Cardinality(unread) <= n.written
    BY <1>2 DEF ReadBackOnce
  <2>2. Cardinality(unread') <= Cardinality(unread) + (Bit(Demotes(k)) + Bit(WritesCopy(k)))
    BY <1>5, <1>6
  <2>3. n.readBack + Cardinality(unread')
          <= n.written + (Bit(Demotes(k)) + Bit(WritesCopy(k)))
    BY <1>8, <1>9, <2>1, <2>2, Zenon
  <2>4. QED
    BY <1>7, <2>3
<1>11. QED
  BY <1>1, <1>2, <1>5, <1>7, <1>10 DEF ReadBackOnce

LEMMA PutKeepsGate ==
    ASSUME LedgerInv, NEW k \in Keys, LedgerPut(k)
    PROVE  MarksServed' /\ GatePassesServed'
<1>1. /\ StoreInv /\ PutKey(k) /\ policy' = policy
      /\ served' = served \ {v \in Keys : tier'[v] = "none" \/ tier[v] = "none"}
  BY DEF LedgerInv, LedgerPut, PutKey
<1>2. /\ \A v \in Keys : tier'[v] = "memory" /\ read'[v] => tier[v] = "memory" /\ read[v]
      /\ Evicts(k) => Oldest(k) \in Keys /\ tier[Oldest(k)] = "memory"
  BY <1>1, PutEffect
<1>3. MarksServed'
  BY <1>1, <1>2 DEF LedgerInv, MarksServed
<1>4. policy.credit = "served" /\ Passes(k) => Oldest(k) \in served
  BY <1>2 DEF Passes, Demotes, Drops, LedgerInv, MarksServed
<1>5. /\ n'.gatePasses = n.gatePasses + Bit(Passes(k))
      /\ n'.gatePassesServed
           = n.gatePassesServed + Bit(Passes(k) /\ Oldest(k) \in served)
  BY PutCounted DEF LedgerInv, LedgerPut
<1>6. policy.credit = "served" => n'.gatePasses = n'.gatePassesServed
  <2>1. policy.credit = "served" =>
          Bit(Passes(k)) = Bit(Passes(k) /\ Oldest(k) \in served)
    BY <1>4 DEF Bit
  <2>2. QED
    BY <1>5, <2>1 DEF LedgerInv, GatePassesServed
<1>7. QED
  BY <1>1, <1>3, <1>6 DEF GatePassesServed

\* The other counters stay as they are.
LEMMA OthersStay ==
    ASSUME NatCounters, NEW more, DOMAIN more \subseteq Counters,
           \A c \in DOMAIN more : more[c] \in Nat,
           n' = Counted(more)
    PROVE  /\ NatCounters'
           /\ \A c \in DOMAIN more : n'[c] = n[c] + more[c]
           /\ \A c \in Counters \ DOMAIN more : n'[c] = n[c]
<1>1. /\ Counted(more) \in [Counters -> Nat]
      /\ \A c \in DOMAIN more : Counted(more)[c] = n[c] + more[c]
      /\ \A c \in Counters : c \notin DOMAIN more => Counted(more)[c] = n[c]
  BY CountedAdds
<1>2. QED
  BY <1>1 DEF NatCounters, Counters

\* Equalities and sources between counters that do not change.
LEMMA UntouchedCounters ==
    ASSUME LedgerInv, policy' = policy, tier' = tier, UNCHANGED <<seen, departed>>,
           \A c \in {"ssdWrites", "demoted", "admitted", "bypassed", "memoryWrites",
                     "gatePasses", "gatePassesServed"} \cup Sources : n'[c] = n[c]
    PROVE  WriteIdentity' /\ SourcesKnown' /\ DeparturesKnown' /\ GatePassesServed'
<1>1. /\ n'["ssdWrites"] = n["ssdWrites"] /\ n'["demoted"] = n["demoted"]
      /\ n'["admitted"] = n["admitted"] /\ n'["bypassed"] = n["bypassed"]
      /\ n'["memoryWrites"] = n["memoryWrites"] /\ n'["gatePasses"] = n["gatePasses"]
      /\ n'["gatePassesServed"] = n["gatePassesServed"]
  OBVIOUS
<1>2. /\ n'["first"] = n["first"] /\ n'["afterDrop"] = n["afterDrop"]
      /\ n'["afterHbfEvict"] = n["afterHbfEvict"] /\ n'["afterOther"] = n["afterOther"]
  BY DEF Sources
<1>3. WriteIdentity'
  BY <1>1 DEF LedgerInv, WriteIdentity, WritesThrough
<1>4. SourcesKnown'
  BY <1>1, <1>2 DEF LedgerInv, SourcesKnown
<1>5. DeparturesKnown' /\ GatePassesServed'
  BY <1>1 DEF LedgerInv, DeparturesKnown, GatePassesServed
<1>6. QED
  BY <1>3, <1>4, <1>5

\* What a get does to the read marks.
LEMMA GotMarks ==
    ASSUME NEW s, s \in Store, NEW k \in Keys
    PROVE  \A j \in Keys \ {k} : Got(s, k).read[j] = s.read[j]
<1> DEFINE u == Touched(s, k)
<1>1. u \in [tier : {s.tier}, read : {s.read}, memLru : {u.memLru},
             memUsed : {s.memUsed}, offLru : {s.offLru}]
  BY DEF Touched, Store
<1> HIDE DEF u
<1>2. CASE s.tier[k] = "none"
  BY <1>2 DEF Got
<1>3. CASE s.tier[k] # "none"
  <2> DEFINE mark == u.read[k] \/ policy.credit = "served"
             marks == [u.read EXCEPT ![k] = mark]
             order == [u.offLru EXCEPT ![PartOf[k]] =
                         IF s.tier[k] = "ssd" /\ policy.offload THEN MoveToEnd(@, k) ELSE @]
  <2>1. Got(s, k) = [u EXCEPT !.read = marks, !.offLru = order]
    BY <1>1, <1>3 DEF Got, u
  <2>2. \A j \in Keys \ {k} : marks[j] = s.read[j]
    BY <1>1 DEF Store
  <2> HIDE DEF marks, order
  <2>3. Got(s, k).read = marks
    BY <1>1, <2>1
  <2>4. QED
    BY <2>2, <2>3
<1>4. QED
  BY <1>2, <1>3

LEMMA GetKeepsInv ==
    ASSUME LedgerInv, NEW k \in Keys, LedgerGet(k)
    PROVE  LedgerInv'
<1> DEFINE more == [get |-> 1, ssdReads |-> Bit(OnOffload(k) /\ Contains(k)),
                    readBack |-> Bit(ReadsBack(k))]
<1>1. /\ StoreInv /\ NatCounters /\ GetKey(k) /\ policy' = policy
      /\ n' = Counted(more) /\ UNCHANGED <<seen, departed>>
      /\ unread' = unread \ {v \in {k} : ReadsBack(k)}
      /\ served' = served \cup {v \in {k} : tier[k] # "none" /\ ~OnOffload(k)}
  BY DEF LedgerInv, LedgerGet, GetKey
<1>2. StoreInv'
  BY <1>1, StoreStepKeepsInv DEF StoreNext
<1>3. tier' = tier /\ \A j \in Keys \ {k} : read'[j] = read[j]
  <2>1. Sound(Contents) /\ Contents \in Store
    BY <1>1 DEF StoreInv, Sound
  <2>2. Got(Contents, k).tier = tier
    BY <2>1, GotKeeps, ContentsFields
  <2>3. \A j \in Keys \ {k} : Got(Contents, k).read[j] = read[j]
    BY <2>1, GotMarks, ContentsFields
  <2>4. QED
    BY <1>1, <2>2, <2>3 DEF GetKey, Becomes
<1>4. /\ DOMAIN more = {"get", "ssdReads", "readBack"}
      /\ \A c \in DOMAIN more : more[c] \in Nat
      /\ more["ssdReads"] = Bit(OnOffload(k) /\ Contains(k))
      /\ more["readBack"] = Bit(ReadsBack(k))
  BY BitIsNat
<1> HIDE DEF more
<1>5. /\ NatCounters'
      /\ \A c \in DOMAIN more : n'[c] = n[c] + more[c]
      /\ \A c \in Counters \ DOMAIN more : n'[c] = n[c]
  BY <1>1, <1>4, OthersStay DEF Counters
<1>6. /\ n'["ssdReads"] = n["ssdReads"] + Bit(OnOffload(k) /\ Contains(k))
      /\ n'["readBack"] = n["readBack"] + Bit(ReadsBack(k))
      /\ n'["written"] = n["written"]
  BY <1>4, <1>5 DEF Counters
<1>7. \A c \in {"ssdWrites", "demoted", "admitted", "bypassed", "memoryWrites",
                "gatePasses", "gatePassesServed"} \cup Sources : n'[c] = n[c]
  BY <1>4, <1>5 DEF Counters, Sources
<1>8. WriteIdentity' /\ SourcesKnown' /\ DeparturesKnown' /\ GatePassesServed'
  BY <1>1, <1>3, <1>7, UntouchedCounters
<1>9. MarksServed'
  <2>1. SUFFICES ASSUME policy.credit = "served", NEW j \in Keys, tier[j] = "memory", read'[j]
                 PROVE  j \in served'
    BY <1>1, <1>3 DEF MarksServed
  <2>2. CASE j = k
    BY <1>1, <2>1, <2>2 DEF OnOffload
  <2>3. CASE j # k
    BY <1>1, <1>3, <2>1, <2>3 DEF LedgerInv, MarksServed
  <2>4. QED
    BY <2>2, <2>3
<1>10. unread' \subseteq Keys /\ IsFiniteSet(unread') /\ ReadBackOnce'
  <2>1. /\ unread \subseteq Keys /\ IsFiniteSet(unread) /\ ReadBackOnce
        /\ n.readBack \in Nat /\ n.ssdReads \in Nat /\ n.written \in Nat
    BY <1>1 DEF LedgerInv, NatCounters, Counters
  <2>2. Cardinality(unread) \in Nat
    BY <2>1, FS_CardinalityType
  <2>3. CASE ReadsBack(k)
    <3>1. unread' = unread \ {k} /\ k \in unread
      BY <1>1, <2>3 DEF ReadsBack
    <3>2. IsFiniteSet(unread') /\ Cardinality(unread') = Cardinality(unread) - 1
      BY <2>1, <3>1, FS_RemoveElement
    <3>3. n'.readBack = n.readBack + 1 /\ n'.ssdReads = n.ssdReads + 1 /\ n'.written = n.written
      BY <1>6, <2>3 DEF ReadsBack, Bit
    <3>4. QED
      BY <2>1, <2>2, <3>1, <3>2, <3>3 DEF ReadBackOnce
  <2>4. CASE ~ReadsBack(k)
    <3>1. unread' = unread
      BY <1>1, <2>4
    <3>2. n'.readBack = n.readBack + 0 /\ n'.written = n.written
      BY <1>6, <2>4 DEF Bit
    <3>3. Bit(OnOffload(k) /\ Contains(k)) \in Nat
      BY BitIsNat
    <3>4. n'.readBack <= n'.ssdReads
      BY <1>6, <2>1, <3>2, <3>3 DEF ReadBackOnce
    <3>5. QED
      BY <2>1, <3>1, <3>2, <3>4 DEF ReadBackOnce
  <2>5. QED
    BY <2>3, <2>4
<1>11. seen' \subseteq Keys
  BY <1>1 DEF LedgerInv
<1>12. QED
  BY <1>2, <1>5, <1>8, <1>9, <1>10, <1>11 DEF LedgerInv

LEMMA LookupKeepsInv ==
    ASSUME LedgerInv, NEW chain \in Chains, LedgerLookup(chain)
    PROVE  LedgerInv'
<1> DEFINE hits == HitKeys(Contents, chain)
           onDisk == \E k \in hits : tier[k] = "ssd"
           more == [hit |-> Bit(hits # {}), miss |-> Bit(hits = {}),
                    diskHit |-> Bit(onDisk), memoryHit |-> Bit(hits # {} /\ ~onDisk)]
<1>1. /\ StoreInv /\ NatCounters /\ Lookup(chain) /\ policy' = policy
      /\ n' = Counted(more) /\ UNCHANGED <<unread, seen, departed, served>>
  BY DEF LedgerInv, LedgerLookup, Lookup
<1>2. StoreInv'
  BY <1>1, StoreStepKeepsInv DEF StoreNext
<1>3. tier' = tier /\ (policy.credit = "served" => read' = read)
  <2>1. Credited(Contents, chain).tier = tier
    BY <1>1, CreditedKeeps, ContentsFields DEF StoreInv
  <2>2. policy.credit = "served" => Credited(Contents, chain).read = read
    BY ContentsFields DEF Credited
  <2>3. QED
    BY <1>1, <2>1, <2>2 DEF Lookup, Becomes
<1> HIDE DEF onDisk, hits
<1>4. /\ DOMAIN more = {"hit", "miss", "diskHit", "memoryHit"}
      /\ \A c \in DOMAIN more : more[c] \in Nat
  BY BitIsNat
<1> HIDE DEF more
<1>5. /\ NatCounters'
      /\ \A c \in Counters \ DOMAIN more : n'[c] = n[c]
  BY <1>1, <1>4, OthersStay DEF Counters
<1>6. \A c \in {"ssdWrites", "demoted", "admitted", "bypassed", "memoryWrites",
                "gatePasses", "gatePassesServed"} \cup Sources : n'[c] = n[c]
  BY <1>4, <1>5 DEF Counters, Sources
<1>7. /\ n'["readBack"] = n["readBack"] /\ n'["written"] = n["written"]
      /\ n'["ssdReads"] = n["ssdReads"]
  BY <1>4, <1>5 DEF Counters
<1>8. WriteIdentity' /\ SourcesKnown' /\ DeparturesKnown' /\ GatePassesServed'
  BY <1>1, <1>3, <1>6, UntouchedCounters
<1>9. MarksServed' /\ ReadBackOnce'
  BY <1>1, <1>3, <1>7 DEF LedgerInv, MarksServed, ReadBackOnce
<1>10. unread' \subseteq Keys /\ IsFiniteSet(unread') /\ seen' \subseteq Keys
  BY <1>1 DEF LedgerInv
<1>11. QED
  BY <1>2, <1>5, <1>8, <1>9, <1>10 DEF LedgerInv

LEMMA PutKeepsInv ==
    ASSUME LedgerInv, NEW k \in Keys, LedgerPut(k)
    PROVE  LedgerInv'
<1>1. StoreInv'
  BY StoreStepKeepsInv DEF LedgerInv, LedgerPut, StoreNext
<1>2. NatCounters'
  BY PutCounted DEF LedgerInv, LedgerPut
<1>3. seen' \subseteq Keys
  BY DEF LedgerInv, LedgerPut
<1>4. QED
  BY <1>1, <1>2, <1>3, PutKeepsIdentity, PutKeepsSources, PutKeepsReadBacks, PutKeepsGate
     DEF LedgerInv

LEMMA LedgerInvInitially == LedgerInit => LedgerInv
<1>1. SUFFICES ASSUME LedgerInit
               PROVE  LedgerInv
  OBVIOUS
<1>2. StoreInv
  BY <1>1, StoreInvInitially DEF LedgerInit, CountersInit
<1>3. NatCounters /\ \A c \in Counters : n[c] = 0
  BY <1>1 DEF LedgerInit, CountersInit, NatCounters
<1>4. unread = {} /\ seen = {} /\ served = {} /\ departed = [k \in Keys |-> ""]
  BY <1>1 DEF LedgerInit, CountersInit
<1>5. read = [k \in Keys |-> FALSE]
  BY <1>1 DEF LedgerInit, CountersInit, StoreInit
<1>6. n.ssdWrites = 0 /\ n.demoted = 0 /\ n.admitted = 0 /\ n.bypassed = 0
  BY <1>3 DEF Counters
<1>7. /\ n.memoryWrites = 0 /\ n.first = 0 /\ n.afterDrop = 0 /\ n.afterHbfEvict = 0
      /\ n.afterOther = 0
  BY <1>3 DEF Counters
<1>8. /\ n.readBack = 0 /\ n.written = 0 /\ n.ssdReads = 0
      /\ n.gatePasses = 0 /\ n.gatePassesServed = 0
  BY <1>3 DEF Counters
<1>9. WriteIdentity
  BY <1>6 DEF WriteIdentity
<1>10. SourcesKnown
  <2>1. \A k \in seen : FALSE
    BY <1>4
  <2>2. n.first + n.afterDrop + n.afterHbfEvict + n.afterOther = 0
    BY <1>7
  <2>3. QED
    BY <1>7, <2>1, <2>2 DEF SourcesKnown
<1>11. ReadBackOnce /\ GatePassesServed
  <2>1. Cardinality(unread) = 0
    BY <1>4, FS_EmptySet
  <2>2. n.readBack + Cardinality(unread) = 0
    BY <1>8, <2>1
  <2>3. QED
    BY <1>8, <2>2 DEF ReadBackOnce, GatePassesServed
<1>12. DeparturesKnown /\ MarksServed
  BY <1>4, <1>5 DEF DeparturesKnown, MarksServed
<1>13. unread \subseteq Keys /\ IsFiniteSet(unread) /\ seen \subseteq Keys
  BY <1>4, FS_EmptySet
<1>14. QED
  BY <1>2, <1>3, <1>9, <1>10, <1>11, <1>12, <1>13 DEF LedgerInv

LEMMA LedgerStepKeepsInv == LedgerInv /\ [LedgerNext]_ledgerAll => LedgerInv'
<1>1. SUFFICES ASSUME LedgerInv, [LedgerNext]_ledgerAll
               PROVE  LedgerInv'
  OBVIOUS
<1>2. CASE UNCHANGED ledgerAll
  <2>1. UNCHANGED storeVars /\ UNCHANGED ledgerVars
    BY <1>2 DEF ledgerAll
  <2>2. StoreInv'
    BY <1>1, <2>1, StoreStepKeepsInv DEF LedgerInv
  <2>3. /\ policy' = policy /\ tier' = tier /\ read' = read
        /\ n' = n /\ unread' = unread /\ seen' = seen /\ departed' = departed
        /\ served' = served
    BY <2>1 DEF storeVars, ledgerVars
  <2>4. WriteIdentity' /\ SourcesKnown' /\ ReadBackOnce' /\ GatePassesServed'
    BY <1>1, <2>3 DEF LedgerInv, WriteIdentity, WritesThrough, SourcesKnown, ReadBackOnce,
                      GatePassesServed
  <2>5. QED
    BY <1>1, <2>2, <2>3, <2>4 DEF LedgerInv, NatCounters, DeparturesKnown, MarksServed
<1>3. QED
  BY <1>1, <1>2, PutKeepsInv, GetKeepsInv, LookupKeepsInv DEF LedgerNext

\* Every write of the offload tier has its cause among the counters, every
\* admission and every departure its reason, no block is read back more often than
\* it was written, and the if_read gate passes served blocks only: the counters of
\* MooncakeStats agree after any sequence of puts, gets and lookups.
THEOREM CountersAlwaysAgree == LedgerSpec => []CountersAgree
<1>1. LedgerInv => CountersAgree
  BY DEF LedgerInv, CountersAgree
<1>2. QED
  BY <1>1, LedgerInvInitially, LedgerStepKeepsInv, PTL DEF LedgerSpec

-----------------------------------------------------------------------------
(* What the tiers hold, counted                                              *)

\* The keys that a tier of the store s has.
MemoryOf(s) == {j \in Keys : s.tier[j] = "memory"}

FlashOf(s) == {j \in Keys : Holds(s, j)}

\* A write of a key that the offload tier does not have adds the key, and takes
\* the oldest entry away exactly when the tier is full.
LEMMA WriteTakesPlace ==
    ASSUME NEW s \in Store, OffloadSound(s), NEW k \in Keys, ~Holds(s, k)
    PROVE  LET old == Head(s.offLru[PartOf[k]])
               t == OffloadWrite(s, k)
           IN  /\ PushesOut(s, k) <=> FullTier(s, PartOf[k])
               /\ FullTier(s, PartOf[k]) =>
                    old \in FlashOf(s) /\ FlashOf(t) = (FlashOf(s) \ {old}) \cup {k}
               /\ ~FullTier(s, PartOf[k]) => FlashOf(t) = FlashOf(s) \cup {k}
<1> DEFINE p == PartOf[k]
           row == s.offLru[p]
           old == Head(row)
           t == OffloadWrite(s, k)
           new == t.offLru[p]
<1>1. p \in Parts /\ \A j \in Keys : PartOf[j] \in Parts
  BY StoreAssumption
<1>2. \A q \in Parts \ {p} : t.offLru[q] = s.offLru[q]
  BY WriteLosses
<1>3. /\ row \in Seq(Keys)
      /\ FullTier(s, p) => old \in Range(row) /\ Range(new) = (Range(row) \ {old}) \cup {k}
      /\ ~FullTier(s, p) => Range(new) = Range(row) \cup {k}
  BY WriteOrder
<1>4. k \notin Range(row)
  BY DEF Holds
<1>5. \A j \in Range(row) : j \in Keys /\ PartOf[j] = p /\ s.tier[j] # "none"
  BY <1>1, <1>3, RangeOfSeq DEF OffloadSound
<1>6. PushesOut(s, k) <=> FullTier(s, p)
  BY <1>3, <1>4, <1>5 DEF PushesOut
<1>7. FullTier(s, p) => old \in FlashOf(s)
  BY <1>3, <1>5 DEF FlashOf, Holds
<1> HIDE DEF old, t, new, row
<1>8. \A j \in Keys : PartOf[j] # p => (Holds(t, j) <=> Holds(s, j)) /\ j # k
  BY <1>1, <1>2 DEF Holds, p
<1>9. \A j \in Keys : PartOf[j] = p =>
          (Holds(t, j) <=> j \in Range(new)) /\ (Holds(s, j) <=> j \in Range(row))
  BY DEF Holds, new, row
<1>10. FullTier(s, p) => FlashOf(t) = (FlashOf(s) \ {old}) \cup {k}
  <2>1. SUFFICES ASSUME FullTier(s, p), NEW j \in Keys
                 PROVE  Holds(t, j) <=> (Holds(s, j) /\ j # old) \/ j = k
    BY DEF FlashOf
  <2>2. CASE PartOf[j] = p
    BY <1>3, <1>9, <2>1, <2>2
  <2>3. CASE PartOf[j] # p
    BY <1>3, <1>5, <1>8, <2>1, <2>3
  <2>4. QED
    BY <2>2, <2>3
<1>11. ~FullTier(s, p) => FlashOf(t) = FlashOf(s) \cup {k}
  <2>1. SUFFICES ASSUME ~FullTier(s, p), NEW j \in Keys
                 PROVE  Holds(t, j) <=> Holds(s, j) \/ j = k
    BY DEF FlashOf
  <2>2. CASE PartOf[j] = p
    BY <1>3, <1>9, <2>1, <2>2
  <2>3. CASE PartOf[j] # p
    BY <1>8, <2>3
  <2>4. QED
    BY <2>2, <2>3
<1>12. QED
  BY <1>6, <1>7, <1>10, <1>11 DEF old, t, row, p

\* An eviction changes the offload tier only by a demotion, and a demotion is the
\* write of a block whose object has just moved.
LEMMA EvictWrites ==
    ASSUME NEW s, Sound(s), NEW p \in Parts, s.memLru[p] # <<>>,
           NEW v, v = Head(s.memLru[p])
    PROVE  LET t == EvictMemory(s, p)
               moved == [Popped(s, p) EXCEPT !.tier[v] = "ssd"]
           IN  IF policy.offload /\ ~Refused(s, v)
               THEN /\ t = OffloadWrite(moved, v)
                    /\ moved \in Store /\ OffloadSound(moved) /\ moved.offLru = s.offLru
               ELSE t.offLru = s.offLru
<1> DEFINE u == Popped(s, p)
           t == EvictMemory(s, p)
           moved == [u EXCEPT !.tier[v] = "ssd"]
<1>1. /\ u \in Store
      /\ u.tier = s.tier /\ u.read = s.read /\ u.offLru = s.offLru
      /\ v \in Keys /\ PartOf[v] = p
  BY PoppedMemory
<1>2. /\ t = IF ~policy.offload THEN Dropped(u, {v})
             ELSE IF Refused(s, v) /\ v \in Range(s.offLru[p]) THEN moved
             ELSE IF Refused(s, v) THEN Dropped(u, {v})
             ELSE OffloadWrite(moved, v)
  BY <1>1 DEF EvictMemory, NotDemoted, Refused
<1>3. Dropped(u, {v}).offLru = s.offLru
  BY <1>1, DroppedFields
<1>4. /\ moved \in Store /\ moved.offLru = s.offLru /\ moved.read = s.read
      /\ \A j \in Keys : moved.tier[j] = IF j = v THEN "ssd" ELSE s.tier[j]
  BY <1>1 DEF Store
<1> HIDE DEF u, moved, t
<1>5. OffloadSound(moved)
  <2>1. \A q \in Parts : \A k \in Range(s.offLru[q]) :
           k \in Keys /\ s.tier[k] # "none" /\ (Filtered => s.read[k])
    BY RangeOfSeq DEF Sound, OffloadSound, Store
  <2>2. \A q \in Parts : \A k \in Range(s.offLru[q]) :
           moved.tier[k] # "none" /\ (Filtered => moved.read[k])
    BY <1>4, <2>1
  <2>3. QED
    BY <1>4, <2>2, OffloadUndisturbed
<1>6. QED
  BY <1>2, <1>3, <1>4, <1>5 DEF u, moved, t

\* What a put does to the memory tier: k comes if it is admitted, the oldest block
\* goes if the tier must evict for it.
LEMMA PutMemory ==
    ASSUME StoreInv, NEW k \in Keys, PutKey(k)
    PROVE  /\ Evicts(k) => Admits(k) /\ Oldest(k) \in InMemory
           /\ Admits(k) => k \notin InMemory
           /\ InMemory' = (InMemory \ {v \in Keys : Evicts(k) /\ v = Oldest(k)})
                          \cup {v \in {k} : Admits(k)}
<1> DEFINE s == Contents
           p == PartOf[k]
           t == Put(s, k)
           e == EvictMemory(s, p)
           v == Oldest(k)
<1>1. /\ s.tier = tier /\ s.memLru = memLru /\ s.memUsed = memUsed /\ tier' = t.tier
  BY ContentsFields DEF PutKey, Becomes
<1>2. /\ Sound(s) /\ p \in Parts /\ s.memUsed[p] \in Nat /\ s.memUsed[p] <= MemCap
      /\ MemCap \in Nat /\ s \in Store
  BY StoreAssumption DEF StoreInv, Sound, MemorySound, Store
<1>3. /\ Evicts(k) <=> s.tier[k] = "none" /\ ~(s.memUsed[p] < MemCap) /\ CanEvict(s, p)
      /\ Admits(k) <=> s.tier[k] = "none" /\ (s.memUsed[p] < MemCap \/ Evicts(k))
  BY <1>1, <1>2 DEF Evicts, Admits
<1>4. Evicts(k) => Admits(k) /\ v \in InMemory
  BY <1>3, PutEffect DEF InMemory
<1>5. Admits(k) => k \notin InMemory
  BY <1>1, <1>3 DEF InMemory
<1>6. t = IF s.tier[k] # "none" THEN Touched(s, k)
          ELSE IF s.memUsed[p] < MemCap THEN AdmitMemory(s, k)
          ELSE IF CanEvict(s, p) THEN AdmitMemory(e, k) ELSE Bypass(s, k)
  BY DEF Put
<1> HIDE DEF s, t, e
<1>7. ASSUME NEW u, Sound(u), u.tier[k] = "none", u.memUsed[p] < MemCap
      PROVE  \A j \in Keys : AdmitMemory(u, k).tier[j] = "memory"
                            <=> u.tier[j] = "memory" \/ j = k
  BY <1>7, AdmitLosses
<1>8. SUFFICES \A j \in Keys : tier'[j] = "memory" <=>
                    (tier[j] = "memory" /\ ~(Evicts(k) /\ j = v)) \/ (j = k /\ Admits(k))
  BY <1>4, <1>5 DEF InMemory
<1>9. CASE Evicts(k)
  <2>1. s.memLru[p] # <<>> /\ v = Head(s.memLru[p]) /\ s.tier[k] = "none"
    BY <1>1, <1>3, <1>9 DEF CanEvict, Oldest
  <2>2. Sound(e) /\ e.tier[k] = "none" /\ e.memUsed[p] = s.memUsed[p] - 1
    BY <1>2, <2>1, EvictKeeps DEF e
  <2>3. e.memUsed[p] < MemCap
    BY <1>2, <2>2
  <2>4. /\ e.tier[v] # "memory"
        /\ \A j \in Keys \ {v} : e.tier[j] = s.tier[j]
                                 \/ (e.tier[j] = "none" /\ s.tier[j] = "ssd")
    BY <1>2, <2>1, EvictLosses DEF e
  <2>5. t = AdmitMemory(e, k)
    BY <1>3, <1>6, <1>9
  <2> HIDE DEF v
  <2>6. \A j \in Keys : t.tier[j] = "memory" <=> e.tier[j] = "memory" \/ j = k
    BY <1>7, <2>2, <2>3, <2>5
  <2>7. QED
    BY <1>1, <1>4, <1>9, <2>4, <2>6
<1>10. CASE Admits(k) /\ ~Evicts(k)
  <2>1. t = AdmitMemory(s, k) /\ s.tier[k] = "none" /\ s.memUsed[p] < MemCap
    BY <1>3, <1>6, <1>10
  <2>2. QED
    BY <1>1, <1>2, <1>7, <1>10, <2>1
<1>11. CASE ~Admits(k) /\ s.tier[k] # "none"
  <2>1. t = Touched(s, k) /\ Touched(s, k).tier = s.tier
    BY <1>2, <1>6, <1>11, TouchedKeeps
  <2>2. QED
    BY <1>1, <1>4, <1>11, <2>1
<1>12. CASE ~Admits(k) /\ s.tier[k] = "none"
  <2>1. ~(s.memUsed[p] < MemCap) /\ ~CanEvict(s, p) /\ ~Evicts(k)
    BY <1>3, <1>12
  <2>2. t = Bypass(s, k)
    BY <1>6, <1>12, <2>1
  <2>3. CASE ~policy.offload
    BY <1>1, <1>12, <2>1, <2>2, <2>3 DEF Bypass
  <2>4. CASE policy.offload
    <3> DEFINE b == Bypassed(s, k)
    <3>1. /\ b \in Store /\ OffloadSound(b)
          /\ \A j \in Keys \ {k} : b.tier[j] = s.tier[j]
      BY <1>2, <1>12, <2>1, <2>4, NoRoomNoVictim, BypassedReady DEF ReadyToWrite
    <3>2. b.tier[k] = "ssd"
      BY <1>2 DEF Bypassed, Store
    <3>3. t = OffloadWrite(b, k)
      BY <2>2, <2>4 DEF Bypass, Bypassed
    <3> HIDE DEF b
    <3>4. \A j \in Keys : t.tier[j] = b.tier[j] \/ (t.tier[j] = "none" /\ b.tier[j] = "ssd")
      BY <3>1, <3>3, WriteLosses
    <3>5. QED
      BY <1>1, <1>12, <2>1, <3>1, <3>2, <3>4
  <2>5. QED
    BY <2>3, <2>4
<1>13. QED
  BY <1>9, <1>10, <1>11, <1>12

\* One write of a new key w into the offload tier that holds H, with `out` the
\* number of blocks it evicts, makes it hold W.
OneWrite(H, W, out) ==
    \E w, old : /\ w \notin H
                /\ \/ out = 1 /\ old \in H /\ W = (H \ {old}) \cup {w}
                   \/ out = 0 /\ W = H \cup {w}

LEMMA WriteIsOne ==
    ASSUME NEW s \in Store, OffloadSound(s), NEW k \in Keys, ~Holds(s, k)
    PROVE  OneWrite(FlashOf(s), FlashOf(OffloadWrite(s, k)), Bit(PushesOut(s, k)))
<1>1. /\ PushesOut(s, k) <=> FullTier(s, PartOf[k])
      /\ FullTier(s, PartOf[k]) =>
           /\ Head(s.offLru[PartOf[k]]) \in FlashOf(s)
           /\ FlashOf(OffloadWrite(s, k)) =
                (FlashOf(s) \ {Head(s.offLru[PartOf[k]])}) \cup {k}
      /\ ~FullTier(s, PartOf[k]) => FlashOf(OffloadWrite(s, k)) = FlashOf(s) \cup {k}
  BY WriteTakesPlace
<1>2. k \notin FlashOf(s)
  BY DEF FlashOf
<1>3. QED
  BY <1>1, <1>2 DEF OneWrite, Bit

\* With write_back a put writes at most one block to the offload tier, and one
\* that is not there.
LEMMA PutFlash ==
    ASSUME PressureInv, policy.write = "write_back", NEW k \in Keys, PutKey(k)
    PROVE  \/ /\ ~Demotes(k) /\ ~WritesCopy(k) /\ PushedOut(k) = 0
              /\ OnFlash' = OnFlash
           \/ /\ Bit(Demotes(k)) + Bit(WritesCopy(k)) = 1
              /\ OneWrite(OnFlash, OnFlash', PushedOut(k))
<1> DEFINE s == Contents
           p == PartOf[k]
           t == Put(s, k)
           e == EvictMemory(s, p)
           v == Oldest(k)
           moved == [Popped(s, p) EXCEPT !.tier[v] = "ssd"]
<1>1. /\ s.tier = tier /\ s.read = read /\ s.memLru = memLru /\ s.memUsed = memUsed
      /\ s.offLru = offLru /\ offLru' = t.offLru
  BY ContentsFields DEF PutKey, Becomes
<1>2. /\ Sound(s) /\ p \in Parts /\ s.memUsed[p] \in Nat /\ s.memUsed[p] <= MemCap
      /\ MemCap \in Nat /\ s \in Store /\ CopiesTracked(s) /\ StoreInv
  BY StoreAssumption DEF PressureInv, StoreInv, Sound, MemorySound, Store
<1>3. /\ Evicts(k) <=> s.tier[k] = "none" /\ ~(s.memUsed[p] < MemCap) /\ CanEvict(s, p)
      /\ Admits(k) <=> s.tier[k] = "none" /\ (s.memUsed[p] < MemCap \/ Evicts(k))
  BY <1>1, <1>2 DEF Evicts, Admits
<1>4. t = IF s.tier[k] # "none" THEN Touched(s, k)
          ELSE IF s.memUsed[p] < MemCap THEN AdmitMemory(s, k)
          ELSE IF CanEvict(s, p) THEN AdmitMemory(e, k) ELSE Bypass(s, k)
  BY DEF Put
<1>5. OnFlash = FlashOf(s) /\ OnFlash' = FlashOf(t)
  BY <1>1 DEF OnFlash, FlashOf, Contains, Holds
<1>6. /\ BeforeAdmission(k) = IF Evicts(k) THEN e ELSE s
      /\ ~WritesThrough
      /\ policy.offload => (Demotes(k) <=> Evicts(k) /\ ~Refused(s, v))
      /\ ~policy.offload => ~Demotes(k) /\ ~Bypasses(k)
      /\ WritesCopy(k) <=> Bypasses(k)
  BY <1>1 DEF BeforeAdmission, WritesThrough, Demotes, Drops, Refused, WritesCopy, Bypasses
<1>7. /\ ~Demotes(k) /\ ~WritesCopy(k) => PushedOut(k) = 0
      /\ Demotes(k) /\ ~WritesCopy(k) =>
           PushedOut(k) = Bit(PushesOut(BeforeDemotion(v), v))
      /\ ~Demotes(k) /\ WritesCopy(k) => PushedOut(k) = Bit(PushesOut(BeforeAdmission(k), k))
  BY DEF PushedOut, Bit
<1>8. s.tier[k] = "none" => ~Holds(s, k)
  BY <1>2 DEF Sound, OffloadSound, Holds
<1>9. \A x, y : x.offLru = y.offLru => FlashOf(x) = FlashOf(y)
  BY DEF FlashOf, Holds
<1> HIDE DEF s, t, e, moved
<1>10. ASSUME NEW u, Sound(u), u.tier[k] = "none", u.memUsed[p] < MemCap
       PROVE  FlashOf(AdmitMemory(u, k)) = FlashOf(u)
  <2>1. /\ \A q \in Parts \ {p} : AdmitMemory(u, k).offLru[q] = u.offLru[q]
        /\ AdmitMemory(u, k).offLru[p] = u.offLru[p]
    BY <1>6, <1>10, AdmitLosses
  <2>2. \A j \in Keys : PartOf[j] \in Parts
    BY StoreAssumption
  <2>3. QED
    BY <2>1, <2>2 DEF FlashOf, Holds
<1>11. CASE Evicts(k)
  <2>1. s.memLru[p] # <<>> /\ v = Head(s.memLru[p]) /\ s.tier[k] = "none" /\ Admits(k)
    BY <1>1, <1>3, <1>11 DEF CanEvict, Oldest
  <2>2. Sound(e) /\ e.tier[k] = "none" /\ e.memUsed[p] = s.memUsed[p] - 1
    BY <1>2, <2>1, EvictKeeps DEF e
  <2>3. e.memUsed[p] < MemCap
    BY <1>2, <2>2
  <2>4. t = AdmitMemory(e, k) /\ FlashOf(t) = FlashOf(e)
    BY <1>3, <1>4, <1>10, <1>11, <2>2, <2>3
  <2>5. ~WritesCopy(k)
    BY <1>6, <2>1 DEF Bypasses
  <2>6. v \in Keys /\ PartOf[v] = p /\ s.tier[v] = "memory"
    BY <1>1, <1>2, <1>11, PutEffect
  <2>7. IF policy.offload /\ ~Refused(s, v)
        THEN /\ e = OffloadWrite(moved, v)
             /\ moved \in Store /\ OffloadSound(moved) /\ moved.offLru = s.offLru
        ELSE e.offLru = s.offLru
    BY <1>2, <2>1, EvictWrites DEF e, moved
  <2>8. CASE policy.offload /\ ~Refused(s, v)
    <3>1. Demotes(k) /\ BeforeDemotion(v) = moved
      BY <1>6, <1>11, <2>6, <2>8 DEF BeforeDemotion, moved, s
    <3>2. ~Holds(s, v)
      BY <1>2, <2>6, <2>8 DEF CopiesTracked, Holds
    <3>3. ~Holds(moved, v)
      BY <2>7, <2>8, <3>2 DEF Holds
    <3>4. OneWrite(FlashOf(moved), FlashOf(e), Bit(PushesOut(moved, v)))
      BY <2>6, <2>7, <2>8, <3>3, WriteIsOne
    <3>5. PushedOut(k) = Bit(PushesOut(moved, v)) /\ FlashOf(moved) = FlashOf(s)
      BY <1>7, <1>9, <2>5, <2>7, <2>8, <3>1
    <3>6. Bit(Demotes(k)) + Bit(WritesCopy(k)) = 1
      BY <2>5, <3>1 DEF Bit
    <3>7. QED
      BY <1>5, <2>4, <3>4, <3>5, <3>6
  <2>9. CASE ~(policy.offload /\ ~Refused(s, v))
    BY <1>5, <1>6, <1>7, <1>9, <2>4, <2>5, <2>7, <2>9
  <2>10. QED
    BY <2>8, <2>9
<1>12. CASE Admits(k) /\ ~Evicts(k)
  <2>1. t = AdmitMemory(s, k) /\ s.tier[k] = "none" /\ s.memUsed[p] < MemCap
    BY <1>3, <1>4, <1>12
  <2>2. ~Demotes(k) /\ ~WritesCopy(k)
    BY <1>6, <1>12 DEF Demotes, Bypasses
  <2>3. QED
    BY <1>2, <1>5, <1>7, <1>10, <2>1, <2>2
<1>13. CASE ~Admits(k) /\ s.tier[k] # "none"
  <2>1. t = Touched(s, k) /\ Touched(s, k).offLru = s.offLru
    BY <1>2, <1>4, <1>13, TouchedKeeps
  <2>2. ~Demotes(k) /\ ~WritesCopy(k)
    BY <1>1, <1>3, <1>6, <1>13 DEF Demotes, Bypasses
  <2>3. QED
    BY <1>5, <1>7, <1>9, <2>1, <2>2
<1>14. CASE ~Admits(k) /\ s.tier[k] = "none"
  <2>1. ~(s.memUsed[p] < MemCap) /\ ~CanEvict(s, p) /\ ~Evicts(k) /\ ~Demotes(k)
    BY <1>3, <1>14 DEF Demotes
  <2>2. t = Bypass(s, k)
    BY <1>4, <1>14, <2>1
  <2>3. CASE ~policy.offload
    <3>1. t = s
      BY <2>2, <2>3 DEF Bypass
    <3>2. QED
      BY <1>5, <1>6, <1>7, <2>1, <2>3, <3>1
  <2>4. CASE policy.offload
    <3> DEFINE b == Bypassed(s, k)
    <3>1. /\ b \in Store /\ OffloadSound(b) /\ b.offLru = s.offLru
          /\ \A j \in Keys \ {k} : b.tier[j] = s.tier[j]
      BY <1>2, <1>14, <2>1, <2>4, NoRoomNoVictim, BypassedReady DEF ReadyToWrite
    <3>2. t = OffloadWrite(b, k)
      BY <2>2, <2>4 DEF Bypass, Bypassed
    <3>3. Bypasses(k) /\ WritesCopy(k)
      BY <1>1, <1>6, <1>14, <2>4 DEF Bypasses
    <3> HIDE DEF b
    <3>4. ~Holds(b, k) /\ FlashOf(b) = FlashOf(s)
      BY <1>8, <1>9, <1>14, <3>1 DEF Holds
    <3>5. OneWrite(FlashOf(b), FlashOf(t), Bit(PushesOut(b, k)))
      BY <3>1, <3>2, <3>4, WriteIsOne
    <3>6. PushesOut(b, k) <=> PushesOut(s, k)
      <4>1. FullTier(b, p) <=> FullTier(s, p)
        BY <3>1 DEF FullTier
      <4>2. FullTier(s, p) => Head(s.offLru[p]) \in Keys
        <5>1. s.offLru[p] \in Seq(Keys) /\ OffloadSound(s)
          BY <1>2 DEF Sound, Store
        <5>2. FullTier(s, p) => Head(s.offLru[p]) \in Range(s.offLru[p])
          BY <1>2, <5>1, WriteOrder
        <5>3. QED
          BY <5>1, <5>2, RangeOfSeq
      <4>3. QED
        BY <3>1, <4>1, <4>2 DEF PushesOut
    <3>7. PushedOut(k) = Bit(PushesOut(b, k))
      BY <1>6, <1>7, <2>1, <3>3, <3>6 DEF Bit
    <3>8. Bit(Demotes(k)) + Bit(WritesCopy(k)) = 1
      BY <2>1, <3>3 DEF Bit
    <3>9. QED
      BY <1>5, <3>4, <3>5, <3>7, <3>8
  <2>5. QED
    BY <2>3, <2>4
<1>15. QED
  BY <1>11, <1>12, <1>13, <1>14

\* The counters of the writes and evictions of both tiers, against the contents.
ContentsInv ==
    /\ PressureInv
    /\ NatCounters
    /\ IsFiniteSet(InMemory)
    /\ n.memoryWrites - n.memoryEvictions = Cardinality(InMemory)
    /\ policy.write = "write_back" =>
        /\ IsFiniteSet(OnFlash)
        /\ n.ssdWrites - n.ssdEvictions = Cardinality(OnFlash)

\* One write and `out` evictions change the number of keys so.
LEMMA OneWriteCounts ==
    ASSUME NEW H, NEW W, NEW out, IsFiniteSet(H), OneWrite(H, W, out)
    PROVE  IsFiniteSet(W) /\ out \in {0, 1} /\ Cardinality(W) = Cardinality(H) + 1 - out
<1>1. PICK w, old : /\ w \notin H
                    /\ \/ out = 1 /\ old \in H /\ W = (H \ {old}) \cup {w}
                       \/ out = 0 /\ W = H \cup {w}
  BY DEF OneWrite
<1>2. Cardinality(H) \in Nat
  BY FS_CardinalityType
<1>3. CASE out = 1 /\ old \in H /\ W = (H \ {old}) \cup {w}
  <2> DEFINE R == H \ {old}
  <2>1. IsFiniteSet(R) /\ Cardinality(R) = Cardinality(H) - 1 /\ w \notin R
    BY <1>1, <1>3, FS_RemoveElement
  <2>2. W = R \cup {w}
    BY <1>3
  <2> HIDE DEF R
  <2>3. IsFiniteSet(W) /\ Cardinality(W) = Cardinality(R) + 1
    BY <2>1, <2>2, FS_AddElement
  <2>4. QED
    BY <1>2, <1>3, <2>1, <2>3
<1>4. CASE out = 0 /\ W = H \cup {w}
  <2>1. IsFiniteSet(W) /\ Cardinality(W) = Cardinality(H) + 1
    BY <1>1, <1>4, FS_AddElement
  <2>2. QED
    BY <1>2, <1>4, <2>1
<1>5. QED
  BY <1>1, <1>3, <1>4

\* A put changes the number of blocks in memory by what it counts.
LEMMA PutMemoryCounts ==
    ASSUME StoreInv, NEW k \in Keys, PutKey(k), IsFiniteSet(InMemory)
    PROVE  /\ IsFiniteSet(InMemory')
           /\ Cardinality(InMemory')
                = Cardinality(InMemory) + Bit(Admits(k)) - Bit(Evicts(k))
<1>1. /\ Evicts(k) => Admits(k) /\ Oldest(k) \in InMemory
      /\ Admits(k) => k \notin InMemory
      /\ InMemory' = (InMemory \ {v \in Keys : Evicts(k) /\ v = Oldest(k)})
                     \cup {v \in {k} : Admits(k)}
      /\ InMemory \subseteq Keys
  BY PutMemory DEF InMemory
<1>2. Cardinality(InMemory) \in Nat
  BY FS_CardinalityType
<1>3. CASE Evicts(k)
  <2>1. /\ k \notin InMemory /\ Oldest(k) \in InMemory
        /\ InMemory' = (InMemory \ {Oldest(k)}) \cup {k}
    BY <1>1, <1>3
  <2>2. OneWrite(InMemory, InMemory', 1)
    BY <2>1 DEF OneWrite
  <2>3. /\ IsFiniteSet(InMemory')
        /\ Cardinality(InMemory') = Cardinality(InMemory) + 1 - 1
    BY <2>2, OneWriteCounts
  <2>4. Bit(Admits(k)) = 1 /\ Bit(Evicts(k)) = 1
    BY <1>1, <1>3 DEF Bit
  <2>5. QED
    BY <2>3, <2>4
<1>4. CASE Admits(k) /\ ~Evicts(k)
  <2>1. k \notin InMemory /\ InMemory' = InMemory \cup {k}
    BY <1>1, <1>4
  <2>2. OneWrite(InMemory, InMemory', 0)
    BY <2>1 DEF OneWrite
  <2>3. /\ IsFiniteSet(InMemory')
        /\ Cardinality(InMemory') = Cardinality(InMemory) + 1 - 0
    BY <2>2, OneWriteCounts
  <2>4. Bit(Admits(k)) = 1 /\ Bit(Evicts(k)) = 0
    BY <1>4 DEF Bit
  <2>5. QED
    BY <2>3, <2>4
<1>5. CASE ~Admits(k) /\ ~Evicts(k)
  <2>1. InMemory' = InMemory
    BY <1>1, <1>5
  <2>2. Bit(Admits(k)) = 0 /\ Bit(Evicts(k)) = 0
    BY <1>5 DEF Bit
  <2>3. QED
    BY <1>2, <2>1, <2>2
<1>6. QED
  BY <1>1, <1>3, <1>4, <1>5

\* With write_back it changes the number on the offload tier by what it counts.
LEMMA PutFlashCounts ==
    ASSUME PressureInv, policy.write = "write_back", NEW k \in Keys, PutKey(k),
           IsFiniteSet(OnFlash)
    PROVE  /\ IsFiniteSet(OnFlash')
           /\ PushedOut(k) \in {0, 1}
           /\ Cardinality(OnFlash')
                = Cardinality(OnFlash) + (Bit(Demotes(k)) + Bit(WritesCopy(k))) - PushedOut(k)
<1>1. Cardinality(OnFlash) \in Nat
  BY FS_CardinalityType
<1>2. CASE ~Demotes(k) /\ ~WritesCopy(k) /\ PushedOut(k) = 0 /\ OnFlash' = OnFlash
  <2>1. Bit(Demotes(k)) = 0 /\ Bit(WritesCopy(k)) = 0
    BY <1>2 DEF Bit
  <2>2. QED
    BY <1>1, <1>2, <2>1
<1>3. CASE /\ Bit(Demotes(k)) + Bit(WritesCopy(k)) = 1
           /\ OneWrite(OnFlash, OnFlash', PushedOut(k))
  <2>1. /\ IsFiniteSet(OnFlash') /\ PushedOut(k) \in {0, 1}
        /\ Cardinality(OnFlash') = Cardinality(OnFlash) + 1 - PushedOut(k)
    BY <1>3, OneWriteCounts
  <2>2. QED
    BY <1>3, <2>1
<1>4. QED
  BY <1>2, <1>3, PutFlash

LEMMA PutKeepsContents ==
    ASSUME ContentsInv, NEW k \in Keys, LedgerPut(k)
    PROVE  ContentsInv'
<1>1. /\ PressureInv /\ StoreInv /\ NatCounters /\ PutKey(k) /\ policy' = policy
      /\ n' = AddSource(Counted(PutCounts(k)), k)
  BY DEF ContentsInv, PressureInv, LedgerPut, PutKey
<1>2. PressureInv'
  BY <1>1, PressureStep DEF StoreNext
<1>3. /\ NatCounters'
      /\ n'.memoryWrites = n.memoryWrites + Bit(Admits(k))
      /\ n'.memoryEvictions = n.memoryEvictions + Bit(Evicts(k))
      /\ n'.ssdWrites = n.ssdWrites + (Bit(Demotes(k)) + Bit(WritesCopy(k)))
      /\ n'.ssdEvictions = n.ssdEvictions + PushedOut(k)
  BY <1>1, PutCounted
<1>4. /\ n.memoryWrites \in Nat /\ n.memoryEvictions \in Nat
      /\ n.ssdWrites \in Nat /\ n.ssdEvictions \in Nat
  BY <1>1 DEF NatCounters, Counters
<1>5. \A a, b, c, x, y \in Int : a - b = c => (a + x) - (b + y) = c + x - y
  OBVIOUS
<1>6. \A x, y : Bit(x) \in Int /\ Bit(x) + Bit(y) \in Int
  BY BitIsNat
<1>7. /\ IsFiniteSet(InMemory')
      /\ n'.memoryWrites - n'.memoryEvictions = Cardinality(InMemory')
  <2>1. /\ IsFiniteSet(InMemory) /\ Cardinality(InMemory) \in Int
        /\ n.memoryWrites - n.memoryEvictions = Cardinality(InMemory)
    BY FS_CardinalityType DEF ContentsInv
  <2>2. /\ IsFiniteSet(InMemory')
        /\ Cardinality(InMemory') = Cardinality(InMemory) + Bit(Admits(k)) - Bit(Evicts(k))
    BY <1>1, <2>1, PutMemoryCounts
  <2>3. (n.memoryWrites + Bit(Admits(k))) - (n.memoryEvictions + Bit(Evicts(k)))
          = Cardinality(InMemory) + Bit(Admits(k)) - Bit(Evicts(k))
    BY <1>4, <1>5, <1>6, <2>1
  <2>4. QED
    BY <1>3, <2>2, <2>3
<1>8. policy.write = "write_back" =>
        /\ IsFiniteSet(OnFlash')
        /\ n'.ssdWrites - n'.ssdEvictions = Cardinality(OnFlash')
  <2>1. SUFFICES ASSUME policy.write = "write_back"
                 PROVE  /\ IsFiniteSet(OnFlash')
                        /\ n'.ssdWrites - n'.ssdEvictions = Cardinality(OnFlash')
    OBVIOUS
  <2>2. /\ IsFiniteSet(OnFlash) /\ Cardinality(OnFlash) \in Int
        /\ n.ssdWrites - n.ssdEvictions = Cardinality(OnFlash)
    BY <2>1, FS_CardinalityType DEF ContentsInv
  <2>3. /\ IsFiniteSet(OnFlash') /\ PushedOut(k) \in Int
        /\ Cardinality(OnFlash')
             = Cardinality(OnFlash) + (Bit(Demotes(k)) + Bit(WritesCopy(k))) - PushedOut(k)
    BY <1>1, <2>1, <2>2, PutFlashCounts
  <2>4. (n.ssdWrites + (Bit(Demotes(k)) + Bit(WritesCopy(k)))) - (n.ssdEvictions + PushedOut(k))
          = Cardinality(OnFlash) + (Bit(Demotes(k)) + Bit(WritesCopy(k))) - PushedOut(k)
    BY <1>4, <1>5, <1>6, <2>2, <2>3
  <2>5. QED
    BY <1>3, <2>3, <2>4
<1>9. QED
  BY <1>1, <1>2, <1>3, <1>7, <1>8 DEF ContentsInv

\* A step that keeps what the tiers hold and the four counters keeps the rest.
LEMMA ContentsUntouched ==
    ASSUME ContentsInv, PressureInv', NatCounters', policy' = policy, tier' = tier,
           \A p \in Parts : Range(offLru'[p]) = Range(offLru[p]),
           \A c \in {"memoryWrites", "memoryEvictions", "ssdWrites", "ssdEvictions"} :
               n'[c] = n[c]
    PROVE  ContentsInv'
<1>1. /\ n'["memoryWrites"] = n["memoryWrites"] /\ n'["memoryEvictions"] = n["memoryEvictions"]
      /\ n'["ssdWrites"] = n["ssdWrites"] /\ n'["ssdEvictions"] = n["ssdEvictions"]
  OBVIOUS
<1>2. InMemory' = InMemory
  BY DEF InMemory
<1>3. OnFlash' = OnFlash
  BY StoreAssumption DEF OnFlash, Contains
<1>4. QED
  BY <1>1, <1>2, <1>3 DEF ContentsInv

LEMMA GetKeepsContents ==
    ASSUME ContentsInv, NEW k \in Keys, LedgerGet(k)
    PROVE  ContentsInv'
<1> DEFINE more == [get |-> 1, ssdReads |-> Bit(OnOffload(k) /\ Contains(k)),
                    readBack |-> Bit(ReadsBack(k))]
<1>1. /\ PressureInv /\ StoreInv /\ NatCounters /\ GetKey(k) /\ policy' = policy
      /\ n' = Counted(more)
  BY DEF ContentsInv, PressureInv, LedgerGet, GetKey
<1>2. PressureInv'
  BY <1>1, PressureStep DEF StoreNext
<1>3. tier' = tier /\ \A p \in Parts : Range(offLru'[p]) = Range(offLru[p])
  <2>1. /\ Got(Contents, k).tier = tier
        /\ \A p \in Parts : Range(Got(Contents, k).offLru[p]) = Range(offLru[p])
    BY <1>1, GotKeeps, ContentsFields DEF StoreInv
  <2>2. QED
    BY <1>1, <2>1 DEF GetKey, Becomes
<1>4. /\ DOMAIN more = {"get", "ssdReads", "readBack"}
      /\ \A c \in DOMAIN more : more[c] \in Nat
  BY BitIsNat
<1> HIDE DEF more
<1>5. NatCounters' /\ \A c \in Counters \ DOMAIN more : n'[c] = n[c]
  BY <1>1, <1>4, OthersStay DEF Counters
<1>6. \A c \in {"memoryWrites", "memoryEvictions", "ssdWrites", "ssdEvictions"} : n'[c] = n[c]
  BY <1>4, <1>5 DEF Counters
<1>7. QED
  BY <1>1, <1>2, <1>3, <1>5, <1>6, ContentsUntouched

LEMMA LookupKeepsContents ==
    ASSUME ContentsInv, NEW chain \in Chains, LedgerLookup(chain)
    PROVE  ContentsInv'
<1> DEFINE hits == HitKeys(Contents, chain)
           onDisk == \E k \in hits : tier[k] = "ssd"
           more == [hit |-> Bit(hits # {}), miss |-> Bit(hits = {}),
                    diskHit |-> Bit(onDisk), memoryHit |-> Bit(hits # {} /\ ~onDisk)]
<1>1. /\ PressureInv /\ StoreInv /\ NatCounters /\ Lookup(chain) /\ policy' = policy
      /\ n' = Counted(more)
  BY DEF ContentsInv, PressureInv, LedgerLookup, Lookup
<1>2. PressureInv'
  BY <1>1, PressureStep DEF StoreNext
<1>3. tier' = tier /\ offLru' = offLru
  <2>1. Credited(Contents, chain).tier = tier /\ Credited(Contents, chain).offLru = offLru
    BY <1>1, CreditedKeeps, ContentsFields DEF StoreInv
  <2>2. QED
    BY <1>1, <2>1 DEF Lookup, Becomes
<1> HIDE DEF onDisk, hits
<1>4. /\ DOMAIN more = {"hit", "miss", "diskHit", "memoryHit"}
      /\ \A c \in DOMAIN more : more[c] \in Nat
  BY BitIsNat
<1> HIDE DEF more
<1>5. NatCounters' /\ \A c \in Counters \ DOMAIN more : n'[c] = n[c]
  BY <1>1, <1>4, OthersStay DEF Counters
<1>6. \A c \in {"memoryWrites", "memoryEvictions", "ssdWrites", "ssdEvictions"} : n'[c] = n[c]
  BY <1>4, <1>5 DEF Counters
<1>7. QED
  BY <1>1, <1>2, <1>3, <1>5, <1>6, ContentsUntouched

LEMMA ContentsInvInitially == LedgerInit => ContentsInv
<1>1. SUFFICES ASSUME LedgerInit
               PROVE  ContentsInv
  OBVIOUS
<1>2. StoreInit /\ n = [c \in Counters |-> 0]
  BY <1>1 DEF LedgerInit, CountersInit
<1>3. PressureInv /\ NatCounters
  BY <1>2, PressureInvInitially DEF NatCounters
<1>4. /\ n.memoryWrites = 0 /\ n.memoryEvictions = 0
      /\ n.ssdWrites = 0 /\ n.ssdEvictions = 0
  BY <1>2 DEF Counters
<1>5. InMemory = {} /\ OnFlash = {}
  <2>1. Range(<<>>) = {}
    BY DEF Range
  <2>2. QED
    BY <1>2, <2>1, StoreAssumption DEF StoreInit, InMemory, OnFlash, Contains
<1>6. QED
  BY <1>3, <1>4, <1>5, FS_EmptySet DEF ContentsInv

LEMMA ContentsStep == ContentsInv /\ [LedgerNext]_ledgerAll => ContentsInv'
<1>1. SUFFICES ASSUME ContentsInv, [LedgerNext]_ledgerAll
               PROVE  ContentsInv'
  OBVIOUS
<1>2. CASE UNCHANGED ledgerAll
  <2>1. UNCHANGED storeVars /\ n' = n
    BY <1>2 DEF ledgerAll, ledgerVars
  <2>2. PressureInv'
    BY <1>1, <2>1, PressureStep DEF ContentsInv
  <2>3. NatCounters'
    BY <1>1, <2>1 DEF ContentsInv, NatCounters
  <2>4. policy' = policy /\ tier' = tier /\ offLru' = offLru
    BY <2>1 DEF storeVars
  <2>5. QED
    BY <1>1, <2>1, <2>2, <2>3, <2>4, ContentsUntouched
<1>3. QED
  BY <1>1, <1>2, PutKeepsContents, GetKeepsContents, LookupKeepsContents DEF LedgerNext

\* The report's block counts are the store's: after any sequence of puts, gets and
\* lookups, the blocks written to the memory tier less those it evicted are those
\* it holds, and with write_back the same is true of the offload tier, also when
\* one put evicts, demotes and pushes out.
THEOREM ContentsAlwaysCounted == LedgerSpec => []ContentsCounted
<1>1. ContentsInv => ContentsCounted
  BY DEF ContentsInv, ContentsCounted
<1>2. QED
  BY <1>1, ContentsInvInitially, ContentsStep, PTL DEF LedgerSpec
=============================================================================
