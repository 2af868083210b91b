---- MODULE ClusterProofs ----
\* The cluster, proved for every number of requests and workers, every layout of
\* roles and groups and every policy. The queues, the pools and the hand-over
\* keep each request in one place, and no worker sleeps on its requests. As long
\* as hand-overs do not raise, the cluster implements RequestFlow step by step, and
\* with a decode worker in every group that prefills, requests stay in the group
\* they are dealt to.
EXTENDS Cluster, SequenceFacts

-----------------------------------------------------------------------------
\* The pools

\* A pool of the members ms that was used any number of times.
PoolOf(ms) ==
  LET ranks == Range(Groups(ms)) IN
  {p \in [members: {ms}, groups: {Groups(ms)},
          group: {[g \in ranks |-> GroupMembers(ms, g)]},
          cursor: [ranks -> Nat], nextGroup: Nat, counts: [ranks -> Nat]] :
     /\ p.nextGroup < Len(Groups(ms))
     /\ \A g \in ranks : p.cursor[g] < Len(GroupMembers(ms, g))}

\* The members of a pool are a list of workers by id, not empty.
IsMembers(ms) == \E S \in SUBSET Workers : S # {} /\ ms = Listed(S)

LEMMA WorkersFinite == IsFiniteSet(Workers) /\ Workers \in SUBSET Nat
<1>1. 1 \in Int /\ NumWorkers \in Int
  BY ClusterAssumption
<1>2. IsFiniteSet(1..NumWorkers)
  BY <1>1, FS_Interval
<1> QED
  BY <1>2, ClusterAssumption DEF Workers

LEMMA MembersAre ==
  /\ IsMembers(PrefillMembers) /\ \A w \in Range(PrefillMembers) : w \in Workers /\ Role[w] # "decode"
  /\ IsMembers(DecodeMembers) /\ \A w \in Range(DecodeMembers) : w \in Workers /\ Role[w] # "prefill"
<1>1. \A S \in SUBSET Workers : S \in SUBSET Nat /\ IsFiniteSet(S)
  <2> QED
    BY WorkersFinite, FS_Subset
<1> DEFINE P == {w \in Workers : Role[w] \in {"hybrid", "prefill"}}
           D == {w \in Workers : Role[w] \in {"hybrid", "decode"}}
<1>2. P \in SUBSET Workers /\ D \in SUBSET Workers /\ P # {} /\ D # {}
  BY ClusterAssumption
<1>3. PrefillMembers = Listed(P) /\ DecodeMembers = Listed(D)
  BY DEF PrefillMembers, DecodeMembers, WithRole
<1>4. Range(Listed(P)) = P /\ Range(Listed(D)) = D
  BY <1>1, <1>2, ListedProperties
<1> QED
  BY <1>2, <1>3, <1>4, ClusterAssumption DEF IsMembers

\* Every pool has a group, and every group a member, all of them of the pool.
LEMMA GroupsAre ==
  ASSUME NEW ms, IsMembers(ms)
  PROVE  /\ Groups(ms) \in Seq(Nat) /\ Len(Groups(ms)) \in Nat \ {0}
         /\ IsInjective(Groups(ms))
         /\ \A g \in Range(Groups(ms)) :
              /\ GroupMembers(ms, g) \in Seq(Workers)
              /\ Len(GroupMembers(ms, g)) \in Nat \ {0}
              /\ Range(GroupMembers(ms, g)) \subseteq Range(ms)
              /\ Range(GroupMembers(ms, g)) # {}
              /\ DataParallel => \A w \in Range(GroupMembers(ms, g)) : DpRank[w] = g
         /\ DataParallel => \A w \in Range(ms) : DpRank[w] \in Range(Groups(ms))
         /\ ~DataParallel => Range(Groups(ms)) = {0}
         /\ ms \in Seq(Workers) /\ Len(ms) \in Nat \ {0}
<1>1. PICK S \in SUBSET Workers : S # {} /\ ms = Listed(S)
  BY DEF IsMembers
<1>2. IsFiniteSet(Workers) /\ Workers \in SUBSET Nat
  BY WorkersFinite
<1>3. S \in SUBSET Nat /\ IsFiniteSet(S)
  BY <1>1, <1>2, FS_Subset
<1>4. ms \in Seq(S) /\ Range(ms) = S /\ Len(ms) = Cardinality(S)
  BY <1>1, <1>3, ListedProperties
<1>5. Len(ms) \in Nat \ {0} /\ ms \in Seq(Workers)
  <2>1. Cardinality(S) \in Nat /\ Cardinality(S) # 0
    BY <1>1, <1>3, FS_CardinalityType, FS_EmptySet
  <2>2. ms \in Seq(Workers)
    BY <1>1, <1>4
  <2> QED
    BY <1>4, <2>1, <2>2
<1>6. CASE ~DataParallel
  <2>1. Groups(ms) = <<0>> /\ \A g : GroupMembers(ms, g) = ms
    BY <1>6 DEF Groups, GroupMembers
  <2>2. <<0>> \in Seq(Nat) /\ Len(<<0>>) = 1 /\ Range(<<0>>) = {0} /\ IsInjective(<<0>>)
    BY DEF Range, IsInjective
  <2> QED
    BY <1>1, <1>4, <1>5, <1>6, <2>1, <2>2
<1>7. CASE DataParallel
  <2> DEFINE R == {DpRank[w] : w \in S}
  <2>1. R \in SUBSET Nat /\ IsFiniteSet(R) /\ R # {}
    <3>a. [w \in S |-> DpRank[w]] \in Surjection(S, R)
      BY DEF Surjection
    <3>1. IsFiniteSet(R)
      BY <1>3, <3>a, FS_Surjection DEF ExistsSurjection
    <3> QED
      BY <1>1, <3>1, ClusterAssumption
  <2>a. \A w \in S : DpRank[w] \in R
    OBVIOUS
  <2>2. Groups(ms) = Listed(R)
    BY <1>4, <1>7 DEF Groups
  <2>3. /\ Listed(R) \in Seq(R) /\ Range(Listed(R)) = R /\ Len(Listed(R)) = Cardinality(R)
        /\ IsInjective(Listed(R))
    BY <2>1, ListedProperties
  <2>4. Cardinality(R) \in Nat \ {0}
    BY <2>1, FS_CardinalityType, FS_EmptySet
  <2>5. /\ Groups(ms) \in Seq(Nat) /\ Len(Groups(ms)) \in Nat \ {0} /\ Range(Groups(ms)) = R
        /\ IsInjective(Groups(ms))
    <3> HIDE DEF R
    <3>1. Listed(R) \in Seq(Nat)
      BY <2>1, <2>3, WiderSeq
    <3> QED
      BY <2>2, <2>3, <2>4, <3>1
  <2>6. ASSUME NEW g \in R
        PROVE  /\ GroupMembers(ms, g) \in Seq(Workers)
               /\ Len(GroupMembers(ms, g)) \in Nat \ {0}
               /\ Range(GroupMembers(ms, g)) \subseteq S
               /\ Range(GroupMembers(ms, g)) # {}
               /\ \A w \in Range(GroupMembers(ms, g)) : DpRank[w] = g
    <3> DEFINE G == {w \in S : DpRank[w] = g}
    <3>1. GroupMembers(ms, g) = Listed(G)
      BY <1>4, <1>7 DEF GroupMembers
    <3>2. G \in SUBSET S /\ G # {}
      BY <2>6
    <3>3. G \in SUBSET Nat /\ IsFiniteSet(G)
      BY <1>3, <3>2, FS_Subset
    <3>4. Listed(G) \in Seq(G) /\ Range(Listed(G)) = G /\ Len(Listed(G)) = Cardinality(G)
      BY <3>3, ListedProperties
    <3>5. Cardinality(G) \in Nat \ {0}
      BY <3>2, <3>3, FS_CardinalityType, FS_EmptySet
    <3>6. Listed(G) \in Seq(Workers)
      BY <1>1, <3>2, <3>4
    <3> QED
      BY <3>1, <3>2, <3>4, <3>5, <3>6
  <2> QED
    BY <1>1, <1>4, <1>5, <1>7, <2>5, <2>6
<1> QED
  BY <1>6, <1>7

\* No group of a pool is the missing rank.
LEMMA RanksAre ==
  ASSUME NEW ms, IsMembers(ms), DataParallel
  PROVE  NoRank \notin Range(Groups(ms))
<1>1. \A g \in Range(Groups(ms)) :
        /\ GroupMembers(ms, g) \in Seq(Workers) /\ Range(GroupMembers(ms, g)) # {}
        /\ \A w \in Range(GroupMembers(ms, g)) : DpRank[w] = g
  BY GroupsAre
<1>2. \A s \in Seq(Workers) : Range(s) \subseteq Workers
  BY DEF Range
<1> QED
  BY <1>1, <1>2, ClusterAssumption

\* Among some workers one is the least loaded.
LEMMA LeastExists ==
  ASSUME NEW load \in [Workers -> [active: Nat, memory: Nat]],
         NEW M \in SUBSET Workers, M # {}, Policy # "round_robin"
  PROVE  \E w \in M : \A v \in M : Before(w, v, load)
<1>1. Workers \in SUBSET Nat
  BY WorkersFinite
<1>2. \A w \in Workers : load[w].active \in Nat /\ load[w].memory \in Nat
  OBVIOUS
<1>3. ASSUME NEW N \in SUBSET Workers, N # {}
      PROVE  \E w \in N : \A v \in N :
               \/ load[w].memory < load[v].memory
               \/ load[w].memory = load[v].memory /\ w =< v
  <2> DEFINE T == {load[w].memory : w \in N}
  <2>1. T \in SUBSET Nat /\ T # {}
    BY <1>2, <1>3
  <2>2. PICK m \in T : \A k \in T : m <= k
    BY <2>1, LeastNat
  <2> DEFINE U == {w \in N : load[w].memory = m}
  <2>3. U \in SUBSET Nat /\ U # {}
    BY <1>1
  <2>4. PICK w \in U : \A v \in U : w <= v
    BY <2>3, LeastNat
  <2>5. \A v \in N : load[v].memory \in T
    OBVIOUS
  <2>6. \A v \in N : m < load[v].memory \/ m = load[v].memory
    <3>1. m \in Nat /\ \A v \in N : load[v].memory \in Nat /\ m <= load[v].memory
      BY <1>2, <2>1, <2>2, <2>5
    <3> HIDE DEF T, U
    <3> QED
      BY <3>1
  <2> QED
    BY <2>4, <2>6
<1>4. CASE Policy = "least_gpu_memory"
  BY <1>3, <1>4 DEF Before
<1>5. CASE Policy = "balanced_load"
  <2> DEFINE T == {load[w].active : w \in M}
  <2>1. T \in SUBSET Nat /\ T # {}
    BY <1>2
  <2>2. PICK m \in T : \A k \in T : m <= k
    BY <2>1, LeastNat
  <2> DEFINE N == {w \in M : load[w].active = m}
  <2>3. PICK w \in N : \A v \in N :
               \/ load[w].memory < load[v].memory
               \/ load[w].memory = load[v].memory /\ w =< v
    BY <1>3
  <2>4. \A v \in M : load[v].active \in T
    OBVIOUS
  <2>5. \A v \in M : m < load[v].active \/ (m = load[v].active /\ v \in N)
    <3>1. m \in Nat /\ \A v \in M : load[v].active \in Nat /\ m <= load[v].active
      BY <1>2, <2>1, <2>2, <2>4
    <3>2. \A v \in M : m < load[v].active \/ m = load[v].active
      <4> HIDE DEF T, N
      <4> QED
        BY <3>1
    <3> QED
      BY <3>2
  <2>6. \A v \in M : Before(w, v, load)
    BY <1>5, <2>3, <2>5 DEF Before
  <2> QED
    BY <2>6
<1> QED
  BY <1>4, <1>5, ClusterAssumption

\* A choice in a group is a member of it, and leaves a pool.
LEMMA Picks ==
  ASSUME NEW ms, IsMembers(ms), NEW pool \in PoolOf(ms), NEW g \in Range(Groups(ms)),
         NEW load \in [Workers -> [active: Nat, memory: Nat]]
  PROVE  LET pick == PickIn(pool, g, load)
         IN  /\ pick = [worker |-> pick.worker, pool |-> pick.pool]
             /\ pick.worker \in Range(GroupMembers(ms, g))
             /\ pick.pool \in PoolOf(ms)
<1> DEFINE ranks == Range(Groups(ms))
           mine == GroupMembers(ms, g)
           pick == PickIn(pool, g, load)
<1>1. /\ mine \in Seq(Workers) /\ Len(mine) \in Nat \ {0} /\ Range(mine) # {}
      /\ DOMAIN mine = 1..Len(mine) /\ Range(mine) \in SUBSET Workers
  <2>1. mine \in Seq(Workers) /\ Len(mine) \in Nat \ {0} /\ Range(mine) # {}
    BY GroupsAre
  <2> QED
    BY <2>1 DEF Range
<1>2. /\ pool.group[g] = mine /\ pool.cursor \in [ranks -> Nat]
      /\ pool.cursor[g] \in Nat /\ pool.cursor[g] < Len(mine)
      /\ pool = [members |-> pool.members, groups |-> pool.groups, group |-> pool.group,
                  cursor |-> pool.cursor, nextGroup |-> pool.nextGroup,
                  counts |-> pool.counts]
  BY DEF PoolOf
<1>3. CASE Policy = "round_robin"
  <2> DEFINE c == (pool.cursor[g] + 1) % Len(mine)
  <2>1. pick = [worker |-> mine[pool.cursor[g] + 1], pool |-> [pool EXCEPT !.cursor[g] = c]]
    BY <1>2, <1>3 DEF PickIn
  <2>2. pool.cursor[g] + 1 \in DOMAIN mine
    BY <1>1, <1>2
  <2>3. c \in Nat /\ c < Len(mine)
    BY <1>1, <1>2
  <2> HIDE DEF c
  <2>4. [pool EXCEPT !.cursor[g] = c] \in PoolOf(ms)
    BY <2>3 DEF PoolOf
  <2> QED
    BY <2>1, <2>2, <2>4 DEF Range
<1>4. CASE Policy # "round_robin"
  <2> DEFINE best == CHOOSE w \in Range(mine) : \A v \in Range(mine) : Before(w, v, load)
  <2>1. pick = [worker |-> best, pool |-> pool]
    BY <1>2, <1>4 DEF PickIn
  <2>2. \E w \in Range(mine) : \A v \in Range(mine) : Before(w, v, load)
    BY <1>1, <1>4, LeastExists
  <2>3. best \in Range(mine)
    BY <2>2
  <2> QED
    BY <2>1, <2>3
<1> QED
  BY <1>3, <1>4

\* So is a choice for a request, of its own group when the pool has that.
LEMMA Selects ==
  ASSUME NEW ms, IsMembers(ms), NEW pool \in PoolOf(ms), NEW rank,
         NEW load \in [Workers -> [active: Nat, memory: Nat]]
  PROVE  LET pick == Select(pool, rank, load)
         IN  /\ pick.worker \in Range(ms)
             /\ pick.pool \in PoolOf(ms)
             /\ DataParallel /\ rank \in Range(Groups(ms)) => DpRank[pick.worker] = rank
<1> DEFINE ranks == Range(Groups(ms))
           picked == IF DataParallel /\ rank \in DOMAIN pool.cursor
                     THEN PickIn(pool, rank, load) ELSE PickNext(pool, load)
           g == IF DataParallel THEN DpRank[picked.worker] ELSE 0
           pick == Select(pool, rank, load)
<1>1. /\ DOMAIN pool.cursor = ranks /\ pool.groups = Groups(ms)
      /\ pool.nextGroup \in Nat /\ pool.nextGroup < Len(Groups(ms))
  BY DEF PoolOf
<1>2. /\ picked = [worker |-> picked.worker, pool |-> picked.pool]
      /\ picked.worker \in Range(ms) /\ picked.pool \in PoolOf(ms)
      /\ DataParallel /\ rank \in ranks => DpRank[picked.worker] = rank
  <2>1. CASE DataParallel /\ rank \in ranks
    <3>1. picked = PickIn(pool, rank, load)
      BY <1>1, <2>1
    <3> HIDE DEF picked
    <3> QED
      BY <2>1, <3>1, Picks, GroupsAre
  <2>2. CASE ~(DataParallel /\ rank \in ranks)
    <3> DEFINE k == (pool.nextGroup + 1) % Len(Groups(ms))
               turned == [pool EXCEPT !.nextGroup = k]
               h == Groups(ms)[pool.nextGroup + 1]
    <3>1. Len(Groups(ms)) \in Nat \ {0} /\ Groups(ms) \in Seq(Nat)
      BY GroupsAre
    <3>2. k \in Nat /\ k < Len(Groups(ms))
      BY <1>1, <3>1
    <3>3. picked = PickIn(turned, h, load)
      BY <1>1, <2>2 DEF PickNext
    <3>4. h \in ranks
      BY <1>1, <3>1 DEF Range
    <3> HIDE DEF k, h
    <3>5. turned \in PoolOf(ms)
      BY <3>2 DEF PoolOf
    <3> HIDE DEF turned, picked
    <3> QED
      BY <2>2, <3>3, <3>4, <3>5, Picks, GroupsAre
  <2> QED
    BY <2>1, <2>2
<1>3. pick = [picked EXCEPT !.pool.counts[g] = @ + 1]
  BY DEF Select
<1>4. g \in ranks
  BY <1>2, GroupsAre
<1> HIDE DEF picked, g
<1>5. pick.worker = picked.worker /\ pick.pool = [picked.pool EXCEPT !.counts[g] = @ + 1]
  BY <1>2, <1>3
<1>6. [picked.pool EXCEPT !.counts[g] = @ + 1] \in PoolOf(ms)
  <2> DEFINE q == picked.pool
  <2>1. q \in PoolOf(ms)
    BY <1>2
  <2> HIDE DEF q
  <2>2. q.counts \in [ranks -> Nat] /\ q.counts[g] + 1 \in Nat
    BY <1>4, <2>1 DEF PoolOf
  <2>3. [q.counts EXCEPT ![g] = @ + 1] \in [ranks -> Nat]
    BY <1>4, <2>2
  <2>4. [q EXCEPT !.counts = [q.counts EXCEPT ![g] = @ + 1]] \in PoolOf(ms)
    BY <2>1, <2>3 DEF PoolOf
  <2>5. [q EXCEPT !.counts[g] = @ + 1] = [q EXCEPT !.counts = [q.counts EXCEPT ![g] = @ + 1]]
    BY <2>1 DEF PoolOf
  <2> QED
    BY <2>4, <2>5 DEF q
<1> QED
  BY <1>2, <1>5, <1>6

-----------------------------------------------------------------------------
\* The parts of a hand-over

LEMMA AtLeastOne ==
  ASSUME NEW x \in Nat, NEW d \in Nat \ {0}, x >= d
  PROVE  x \div d \in Nat \ {0}
<1>1. x \div d \in Nat /\ x < (x \div d) * d + d
  OBVIOUS
<1> QED
  BY <1>1

\* Cutting n positions into pieces of a size, every position is in one piece.
LEMMA Cuts ==
  ASSUME NEW len \in Nat \ {0}, NEW size \in Nat \ {0}
  PROVE  LET n == (len + size - 1) \div size
             first(i) == (i - 1) * size + 1
             last(i) == IF i * size < len THEN i * size ELSE len
         IN  /\ n \in Nat
             /\ \A i \in 1..n : /\ first(i) \in Nat \ {0} /\ last(i) \in Nat
                                /\ first(i) <= last(i) /\ last(i) <= len
             /\ \A k \in 1..len : \E i \in 1..n :
                  /\ first(i) <= k /\ k <= last(i)
                  /\ \A j \in 1..n : first(j) <= k /\ k <= last(j) => j = i
<1> DEFINE n == (len + size - 1) \div size
           first(i) == (i - 1) * size + 1
           last(i) == IF i * size < len THEN i * size ELSE len
<1>1. \A x \in Nat : /\ x \div size \in Nat /\ (x \div size) * size <= x
                     /\ x < (x \div size) * size + size
  OBVIOUS
<1>2. \A a, b \in Nat : a * size < b * size + size => a <= b
  OBVIOUS
<1>3. \A a \in Nat : a * size \in Nat /\ (a + 1) * size = a * size + size
  OBVIOUS
<1>4. len + size - 1 \in Nat
  OBVIOUS
<1>5. n \in Nat /\ n * size <= len + size - 1 /\ len + size - 1 < n * size + size
  BY <1>1, <1>4
<1> HIDE DEF n
<1>6. \A i \in 1..n : /\ i - 1 \in Nat /\ i \in Nat /\ (i - 1) * size \in Nat /\ i * size \in Nat
                      /\ i * size = (i - 1) * size + size
  <2> TAKE i \in 1..n
  <2>1. i - 1 \in Nat /\ (i - 1) + 1 = i /\ i \in Nat
    BY <1>5
  <2> QED
    BY <1>3, <2>1
<1>7. ASSUME NEW i \in 1..n
      PROVE  (i - 1) * size < len
  <2>1. n * size >= (i - 1) * size + size
    <3>1. \A a, b \in Nat : a <= b => a * size <= b * size
      OBVIOUS
    <3>2. i <= n
      BY <1>5
    <3> QED
      BY <1>5, <1>6, <3>1, <3>2
  <2> QED
    BY <1>3, <1>5, <1>6, <2>1
<1>8. ASSUME NEW i \in 1..n
      PROVE  /\ first(i) \in Nat \ {0} /\ last(i) \in Nat
             /\ first(i) <= last(i) /\ last(i) <= len
  BY <1>6, <1>7
<1>9. ASSUME NEW k \in 1..len
      PROVE  \E i \in 1..n : /\ first(i) <= k /\ k <= last(i)
                             /\ \A j \in 1..n : first(j) <= k /\ k <= last(j) => j = i
  <2> DEFINE q == (k - 1) \div size
             i == q + 1
  <2>1. k - 1 \in Nat
    OBVIOUS
  <2>2. q \in Nat /\ q * size <= k - 1 /\ k - 1 < q * size + size
    BY <1>1, <2>1
  <2> HIDE DEF q
  <2>3. i * size = q * size + size /\ q * size \in Nat /\ i - 1 = q
    BY <1>3, <2>2
  <2>4. n * size \in Nat
    BY <1>3, <1>5
  <2>5. q * size < n * size
    BY <1>5, <2>2, <2>3, <2>4
  <2>6. i \in 1..n
    <3>1. \A a, b \in Nat : a * size < b * size => a < b
      OBVIOUS
    <3>2. q < n
      BY <1>5, <2>2, <2>5, <3>1
    <3> QED
      BY <1>5, <2>2, <3>2
  <2>7. first(i) <= k /\ k <= last(i)
    BY <2>2, <2>3
  <2>8. ASSUME NEW j \in 1..n, first(j) <= k, k <= last(j)
        PROVE  j = i
    <3>1. (j - 1) * size <= k - 1 /\ k - 1 < (j - 1) * size + size
      BY <1>6, <2>8
    <3>2. (j - 1) * size < q * size + size /\ q * size < (j - 1) * size + size
      BY <1>6, <2>2, <2>3, <3>1
    <3>3. j - 1 <= q /\ q <= j - 1
      BY <1>2, <1>6, <2>2, <3>2
    <3> QED
      BY <1>6, <2>2, <3>3
  <2> QED
    BY <2>6, <2>7, <2>8
<1> QED
  BY <1>5, <1>8, <1>9 DEF n

\* The parts of a batch are not empty, and each of its requests is in one part.
LEMMA PartsAre ==
  ASSUME NEW rs \in Seq(Reqs), rs # <<>>, IsInjective(rs), NEW size \in Nat \ {0}
  PROVE  LET ps == Parts(rs, size)
             n == Len(ps)
         IN  /\ n \in Nat /\ ps \in [1..n -> Seq(Reqs)]
             /\ \A i \in 1..n : /\ ps[i] # <<>> /\ IsInjective(ps[i])
                                /\ Range(ps[i]) \subseteq Range(rs)
             /\ \A r \in Range(rs) : \E i \in 1..n :
                  \A j \in 1..n : r \in Range(ps[j]) <=> j = i
<1> DEFINE n == (Len(rs) + size - 1) \div size
           first(i) == (i - 1) * size + 1
           last(i) == IF i * size < Len(rs) THEN i * size ELSE Len(rs)
           ps == Parts(rs, size)
<1>1. Len(rs) \in Nat \ {0} /\ DOMAIN rs = 1..Len(rs) /\ \A k \in 1..Len(rs) : rs[k] \in Reqs
  BY EmptySeq, LenProperties
<1>2. /\ n \in Nat
      /\ \A i \in 1..n : /\ first(i) \in Nat \ {0} /\ last(i) \in Nat
                         /\ first(i) <= last(i) /\ last(i) <= Len(rs)
      /\ \A k \in 1..Len(rs) : \E i \in 1..n :
           /\ first(i) <= k /\ k <= last(i)
           /\ \A j \in 1..n : first(j) <= k /\ k <= last(j) => j = i
  BY <1>1, Cuts
<1>3. ps = [i \in 1..n |-> SubSeq(rs, first(i), last(i))]
  BY DEF Parts
<1> HIDE DEF n, first, last
<1>4. ASSUME NEW i \in 1..n
      PROVE  /\ ps[i] \in Seq(Reqs) /\ ps[i] # <<>> /\ IsInjective(ps[i])
             /\ \A r : r \in Range(ps[i]) <=>
                  \E k \in 1..Len(rs) : first(i) <= k /\ k <= last(i) /\ rs[k] = r
  <2> DEFINE t == ps[i]
             f == first(i)
             l == last(i)
  <2>1. t = SubSeq(rs, f, l)
    BY <1>3
  <2>2. f \in Nat \ {0} /\ l \in Nat /\ f <= l /\ l <= Len(rs)
    BY <1>2
  <2> HIDE DEF t, f, l
  <2>3. /\ t \in Seq(Reqs) /\ Len(t) = l - f + 1 /\ DOMAIN t = 1..(l - f + 1)
        /\ \A k \in 1..(l - f + 1) : t[k] = rs[f + k - 1]
    BY <1>1, <2>1, <2>2
  <2>4. t # <<>>
    BY <2>2, <2>3
  <2>5. \A k \in 1..(l - f + 1) : f + k - 1 \in 1..Len(rs) /\ f <= f + k - 1 /\ f + k - 1 <= l
    BY <1>1, <2>2
  <2>6. IsInjective(t)
    <3> SUFFICES ASSUME NEW a \in 1..(l - f + 1), NEW b \in 1..(l - f + 1), t[a] = t[b]
                 PROVE  a = b
      BY <2>3 DEF IsInjective
    <3>1. f + a - 1 = f + b - 1
      BY <1>1, <2>3, <2>5 DEF IsInjective
    <3> QED
      BY <2>2, <3>1
  <2>7. ASSUME NEW r
        PROVE  r \in Range(t) <=> \E k \in 1..Len(rs) : f <= k /\ k <= l /\ rs[k] = r
    <3>1. ASSUME r \in Range(t)
          PROVE  \E k \in 1..Len(rs) : f <= k /\ k <= l /\ rs[k] = r
      <4>1. PICK a \in 1..(l - f + 1) : t[a] = r
        BY <2>3, <3>1 DEF Range
      <4> QED
        BY <2>3, <2>5, <4>1
    <3>2. ASSUME NEW k \in 1..Len(rs), f <= k, k <= l, rs[k] = r
          PROVE  r \in Range(t)
      <4>1. k - f + 1 \in 1..(l - f + 1) /\ f + (k - f + 1) - 1 = k
        BY <1>1, <2>2, <3>2
      <4>2. t[k - f + 1] = r
        BY <2>3, <3>2, <4>1
      <4> QED
        BY <2>3, <4>1, <4>2 DEF Range
    <3> QED
      BY <3>1, <3>2
  <2> QED
    BY <2>3, <2>4, <2>6, <2>7 DEF t, f, l
<1>5. ps \in [1..n -> Seq(Reqs)]
  <2>1. \A i \in 1..n : ps[i] \in Seq(Reqs)
    BY <1>4
  <2> QED
    BY <1>3, <2>1
<1>6. Len(ps) = n
  BY <1>2, <1>5, FunctionIsSeq
<1>7. ASSUME NEW i \in 1..n, NEW r \in Range(ps[i])
      PROVE  r \in Range(rs)
  <2>1. PICK k \in 1..Len(rs) : rs[k] = r
    BY <1>4
  <2> QED
    BY <1>1, <2>1 DEF Range
<1>8. ASSUME NEW r \in Range(rs)
      PROVE  \E i \in 1..n : \A j \in 1..n : r \in Range(ps[j]) <=> j = i
  <2>1. PICK k \in 1..Len(rs) : rs[k] = r
    BY <1>1 DEF Range
  <2>2. \A j \in 1..Len(rs) : rs[j] = r => j = k
    BY <1>1, <2>1 DEF IsInjective
  <2>3. PICK i \in 1..n : /\ first(i) <= k /\ k <= last(i)
                          /\ \A j \in 1..n : first(j) <= k /\ k <= last(j) => j = i
    BY <1>2
  <2>4. ASSUME NEW j \in 1..n
        PROVE  r \in Range(ps[j]) <=> j = i
    BY <1>4, <2>1, <2>2, <2>3, ZenonT(60)
  <2> QED
    BY <2>4
<1> QED
  BY <1>2, <1>4, <1>5, <1>6, <1>7, <1>8

-----------------------------------------------------------------------------
\* What runs on after a step

\* update() keeps the requests that are not done, each once.
LEMMA NotDoneIs ==
  ASSUME NEW w, running[w] \in Seq(Reqs), IsInjective(running[w])
  PROVE  /\ NotDone(w) \in Seq(Reqs) /\ IsInjective(NotDone(w))
         /\ Range(NotDone(w)) =
              {r \in Range(running[w]) : TokensAfter(w, r) # DecodeLen[r]}
<1> DEFINE s == running[w]
           n == Len(s)
           Next1(i, q) == IF TokensAfter(w, s[i]) = DecodeLen[s[i]] THEN q ELSE Append(q, s[i])
           Rec(g) == g = [i \in 0..n |-> IF i = 0 THEN <<>>
                            ELSE LET r == running[w][i]
                                 IN  IF TokensAfter(w, r) = DecodeLen[r] THEN g[i - 1]
                                     ELSE Append(g[i - 1], r)]
           kept == CHOOSE g : Rec(g)
           step == [i \in 1..n |-> [q \in Seq(Reqs) |-> Next1(i, q)]]
<1>1. n \in Nat /\ DOMAIN s = 1..n /\ \A i \in 1..n : s[i] \in Reqs
  BY LenProperties
<1>2. \E f : Rec(f)
  <2>1. step \in [1..n -> [Seq(Reqs) -> Seq(Reqs)]]
    <3>1. \A i \in 1..n : \A q \in Seq(Reqs) : Next1(i, q) \in Seq(Reqs)
      BY <1>1
    <3> HIDE DEF n, Next1
    <3> QED
      BY <3>1
  <2>2. <<>> \in Seq(Reqs)
    OBVIOUS
  <2> HIDE DEF step, n
  <2> DEFINE S == Seq(Reqs)
             e == <<>>
  <2>a. n \in Nat /\ e \in S /\ step \in [1..n -> [S -> S]]
    BY <1>1, <2>1, <2>2
  <2> HIDE DEF S, e
  <2>b. \E f : IsChain(f, n, S, e, step)
    BY <2>a, StepsExist
  <2> USE DEF S, e
  <2>3. PICK f \in [0..n -> Seq(Reqs)] :
          f[0] = <<>> /\ \A i \in 1..n : f[i] = step[i][f[i - 1]]
    BY <2>b DEF IsChain
  <2>4. \A i \in 1..n : f[i - 1] \in Seq(Reqs) /\ i \in 0..n /\ i # 0
    BY <1>1
  <2>5. \A i \in 1..n : f[i] = Next1(i, f[i - 1])
    BY <2>3, <2>4 DEF step
  <2>6. \A i \in 0..n : i = 0 \/ i \in 1..n
    BY <1>1
  <2>7. Rec(f)
    BY <2>3, <2>5, <2>6
  <2> QED
    BY <2>7
<1>3. Rec(kept)
  BY <1>2
<1>4. NotDone(w) = kept[n]
  BY DEF NotDone
<1> HIDE DEF kept
<1>5. /\ kept[0] = <<>>
      /\ \A i \in 1..n : kept[i] = Next1(i, kept[i - 1])
  <2>1. \A i \in 1..n : i \in 0..n /\ i # 0
    BY <1>1
  <2>2. 0 \in 0..n
    BY <1>1
  <2> QED
    BY <1>3, <2>1, <2>2
<1> DEFINE Good(k) == /\ kept[k] \in Seq(Reqs) /\ IsInjective(kept[k])
                      /\ \A r : r \in Range(kept[k]) <=>
                           \E j \in 1..k : s[j] = r /\ TokensAfter(w, r) # DecodeLen[r]
           Bad == {k \in 0..n : ~Good(k)}
<1> HIDE DEF n
<1>6. Bad = {}
  <2> SUFFICES ASSUME Bad # {}
               PROVE  FALSE
    OBVIOUS
  <2>1. Bad \in SUBSET Nat
    BY <1>1
  <2> HIDE DEF Good
  <2>2. PICK k \in Bad : \A j \in Bad : k <= j
    BY <2>1, LeastNat
  <2>3. Good(0)
    <3>1. IsInjective(<<>>) /\ Range(<<>>) = {} /\ <<>> \in Seq(Reqs)
      BY DEF IsInjective, Range
    <3> QED
      BY <1>5, <3>1 DEF Good
  <2>4. k \in 1..n /\ k - 1 \in 0..n /\ ~(k <= k - 1)
    BY <1>1, <2>2, <2>3
  <2>5. Good(k - 1)
    BY <2>2, <2>4
  <2> DEFINE q == kept[k - 1]
  <2>6. /\ q \in Seq(Reqs) /\ IsInjective(q)
        /\ \A r : r \in Range(q) <=>
             \E j \in 1..(k - 1) : s[j] = r /\ TokensAfter(w, r) # DecodeLen[r]
    BY <2>5 DEF Good
  <2>7. kept[k] = Next1(k, q)
    BY <1>5, <2>4
  <2> HIDE DEF q
  <2>8. /\ \A j \in 1..k : j \in 1..(k - 1) \/ j = k
        /\ \A j \in 1..(k - 1) : j \in 1..k /\ j \in 1..n /\ j # k
        /\ k \in 1..k
    BY <1>1, <2>4
  <2>9. s[k] \in Reqs /\ s[k] \notin Range(q)
    <3>1. \A j \in 1..(k - 1) : s[j] # s[k]
      BY <1>1, <2>4, <2>8 DEF IsInjective
    <3> QED
      BY <1>1, <2>4, <2>6, <3>1
  <2>10. CASE TokensAfter(w, s[k]) = DecodeLen[s[k]]
    <3>1. kept[k] = q
      BY <2>7, <2>10
    <3> QED
      BY <2>2, <2>6, <2>8, <2>10, <3>1 DEF Good
  <2>11. CASE TokensAfter(w, s[k]) # DecodeLen[s[k]]
    <3>1. kept[k] = Append(q, s[k])
      BY <2>7, <2>11
    <3>2. /\ kept[k] \in Seq(Reqs) /\ IsInjective(kept[k])
          /\ Range(kept[k]) = Range(q) \cup {s[k]}
      BY <2>6, <2>9, <3>1, AppendRange
    <3>3. Good(k)
      BY <2>6, <2>8, <2>11, <3>2 DEF Good
    <3> QED
      BY <2>2, <3>3
  <2> QED
    BY <2>10, <2>11
<1>7. n \in 0..n
  BY <1>1
<1>8. Good(n)
  BY <1>6, <1>7
<1>9. \A r : r \in Range(running[w]) <=> \E j \in 1..n : s[j] = r
  BY <1>1 DEF Range
<1>10. \A r : r \in Range(kept[n]) <=>
              r \in Range(running[w]) /\ TokensAfter(w, r) # DecodeLen[r]
  BY <1>8, <1>9
<1> QED
  BY <1>4, <1>8, <1>10

-----------------------------------------------------------------------------
\* The hand-over

Ranks == {NoRank} \cup {DpRank[w] : w \in Workers}

\* The message of a part.
PartAdd(part) == Add(part, Range(part))

\* A message is put into the inbox of one of the workers ws.
Posts(before, after, m, ws) == \E w \in ws : after = [before EXCEPT ![w] = @ \cup {m}]

\* The members of a pool that may be chosen for a request of some rank: those of
\* its group, when the pool has that.
Hosts(ms, rank) ==
  {w \in Range(ms) : DataParallel /\ rank \in Range(Groups(ms)) => DpRank[w] = rank}

\* The batch rs is split into n parts, each request in one of them.
Splits(rs, n, parts) ==
  /\ \A i \in 1..n : /\ parts[i] # <<>> /\ IsInjective(parts[i])
                     /\ Range(parts[i]) \subseteq Range(rs)
  /\ \A r \in Range(rs) : \E i \in 1..n :
       \A j \in 1..n : r \in Range(parts[j]) <=> j = i

LEMMA HostsAre ==
  ASSUME NEW rank
  PROVE  Hosts(PrefillMembers, rank) \subseteq Workers
BY MembersAre DEF Hosts

\* The messages of the first k parts are sent, each to its target.
Holds(inboxes, k, parts, target) ==
  \A w \in Workers : \A m :
    m \in inboxes[w] <=> \/ m \in inbox[w]
                        \/ \E i \in 1..k : target[i] = w /\ m = PartAdd(parts[i])

\* The ranks a choice of a worker leaves.
LEMMA Assigns ==
  ASSUME NEW dp \in [Reqs -> Ranks], NEW r \in Reqs, NEW w \in Workers, NEW new \in BOOLEAN
  PROVE  [dp EXCEPT ![r] = Assigned(@, w, new)] \in [Reqs -> Ranks]
<1>1. Assigned(dp[r], w, new) \in Ranks
  BY DEF Assigned, Ranks
<1> QED
  BY <1>1

\* What is left of acc when a part was sent: its message is in the inbox of one
\* decode worker, in its group if it has one.
PartIsSent(M, acc, part, next) ==
  /\ next = [pool |-> next.pool, dp |-> next.dp, inbox |-> next.inbox]
  /\ next.pool \in PoolOf(DecodeMembers) /\ next.dp \in [Reqs -> Ranks]
  /\ next.inbox \in [Workers -> SUBSET M]
  /\ Posts(acc.inbox, next.inbox, PartAdd(part), Hosts(DecodeMembers, acc.dp[part[1]]))
  /\ acc.dp[part[1]] # NoRank \/ ~DataParallel => next.dp = acc.dp
  /\ \A r \in Reqs \ {part[1]} : next.dp[r] = acc.dp[r]

LEMMA SendsPart ==
  ASSUME NEW acc, acc.pool \in PoolOf(DecodeMembers), acc.dp \in [Reqs -> Ranks],
         NEW M, acc.inbox \in [Workers -> SUBSET M],
         NEW part \in Seq(Reqs), part # <<>>, PartAdd(part) \in M,
         NEW load \in [Workers -> [active: Nat, memory: Nat]]
  PROVE  PartIsSent(M, acc, part, SentPart(acc, part, load))
<1> DEFINE pick == Select(acc.pool, acc.dp[part[1]], load)
           w == pick.worker
           next == SentPart(acc, part, load)
<1>1. IsMembers(DecodeMembers) /\ \A v \in Range(DecodeMembers) : v \in Workers
  BY MembersAre
<1>2. w \in Workers /\ pick.pool \in PoolOf(DecodeMembers) /\ w \in Hosts(DecodeMembers, acc.dp[part[1]])
  BY <1>1, Selects DEF Hosts
<1>3. part[1] \in Reqs
  BY EmptySeq, LenProperties
<1>4. next = [pool |-> pick.pool,
              dp |-> [acc.dp EXCEPT ![part[1]] = Assigned(@, w, FALSE)],
              inbox |-> [acc.inbox EXCEPT ![w] = @ \cup {PartAdd(part)}]]
  BY DEF SentPart, PartAdd
<1> HIDE DEF pick, w, next
<1>5. [acc.dp EXCEPT ![part[1]] = Assigned(@, w, FALSE)] \in [Reqs -> Ranks]
  BY <1>2, <1>3, Assigns
<1>6. [acc.inbox EXCEPT ![w] = @ \cup {PartAdd(part)}] \in [Workers -> SUBSET M]
  BY <1>2
<1>7. /\ next = [pool |-> next.pool, dp |-> next.dp, inbox |-> next.inbox]
      /\ next.pool \in PoolOf(DecodeMembers) /\ next.dp \in [Reqs -> Ranks]
      /\ next.inbox \in [Workers -> SUBSET M]
  BY <1>2, <1>4, <1>5, <1>6
<1>8. Posts(acc.inbox, next.inbox, PartAdd(part), Hosts(DecodeMembers, acc.dp[part[1]]))
  BY <1>2, <1>4 DEF Posts
<1>9. acc.dp[part[1]] # NoRank \/ ~DataParallel => next.dp = acc.dp
  BY <1>3, <1>4 DEF Assigned
<1>10. \A r \in Reqs \ {part[1]} : next.dp[r] = acc.dp[r]
  BY <1>4
<1> QED
  <2>1. PartIsSent(M, acc, part, next)
    BY <1>7, <1>8, <1>9, <1>10 DEF PartIsSent
  <2> QED
    BY <2>1 DEF next

\* All requests of a batch belong to a group the decode pool has.
SameGroup(rs, g) ==
  DataParallel /\ g \in Range(Groups(DecodeMembers)) /\ \A r \in Range(rs) : dpRank[r] = g

\* The hand-over sends each request of a batch to one decode worker, of its group
\* if the whole batch is of that.
LEMMA Dispatches ==
  ASSUME decodePool \in PoolOf(DecodeMembers), dpRank \in [Reqs -> Ranks],
         NEW M, inbox \in [Workers -> SUBSET M],
         \A part \in Seq(Reqs) : part # <<>> /\ IsInjective(part) => PartAdd(part) \in M,
         Loads \subseteq [Workers -> [active: Nat, memory: Nat]],
         NEW rs \in Seq(Reqs), rs # <<>>, IsInjective(rs), NEW g,
         Dispatch(rs)
  PROVE  /\ decodePool' \in PoolOf(DecodeMembers) /\ dpRank' \in [Reqs -> Ranks]
         /\ inbox' \in [Workers -> SUBSET M]
         /\ prefillPool' = prefillPool
         /\ kv' = [r \in Reqs |-> IF r \in Range(rs) THEN "sent" ELSE kv[r]]
         /\ SameGroup(rs, g) \/ ~DataParallel => dpRank' = dpRank
         /\ \A r \in Reqs \ Range(rs) : dpRank'[r] = dpRank[r]
         /\ \E n \in Nat : \E parts \in [1..n -> Seq(Reqs)] : \E target \in [1..n -> Workers] :
              /\ Splits(rs, n, parts) /\ Holds(inbox', n, parts, target)
              /\ \A i \in 1..n : /\ target[i] \in Range(DecodeMembers)
                                 /\ SameGroup(rs, g) => DpRank[target[i]] = g
<1> DEFINE workers == Len(decodePool.members)
           size == (Len(rs) + workers - 1) \div workers
           parts == Parts(rs, size)
           n == Len(parts)
<1>l. PICK load \in Loads :
        LET sent[i \in 0..n] ==
              IF i = 0 THEN [pool |-> decodePool, dp |-> dpRank, inbox |-> inbox]
              ELSE SentPart(sent[i - 1], parts[i], load)
        IN  /\ decodePool' = sent[n].pool /\ dpRank' = sent[n].dp /\ inbox' = sent[n].inbox
            /\ kv' = [r \in Reqs |-> IF r \in Range(rs) THEN "sent" ELSE kv[r]]
            /\ prefillPool' = prefillPool
  BY DEF Dispatch
<1>t. load \in [Workers -> [active: Nat, memory: Nat]]
  OBVIOUS
<1> DEFINE first == [pool |-> decodePool, dp |-> dpRank, inbox |-> inbox]
           S == [pool: PoolOf(DecodeMembers), dp: [Reqs -> Ranks],
                 inbox: [Workers -> SUBSET M]]
           Rec(f) == f = [i \in 0..n |->
                            IF i = 0 THEN [pool |-> decodePool, dp |-> dpRank, inbox |-> inbox]
                            ELSE SentPart(f[i - 1], parts[i], load)]
           sent == CHOOSE f : Rec(f)
           hosts(acc, i) == Hosts(DecodeMembers, acc.dp[parts[i][1]])
           step == [i \in 1..n |-> [acc \in S |-> SentPart(acc, parts[i], load)]]
<1>1. workers \in Nat \ {0}
  BY MembersAre, GroupsAre DEF PoolOf
<1>2. Len(rs) \in Nat \ {0}
  BY EmptySeq, LenProperties
<1>3. size \in Nat \ {0}
  <2>2. Len(rs) + workers - 1 \in Nat /\ Len(rs) + workers - 1 >= workers
    BY <1>1, <1>2
  <2> HIDE DEF workers
  <2> QED
    BY <1>1, <2>2, AtLeastOne
<1> HIDE DEF size
<1>4. n \in Nat /\ parts \in [1..n -> Seq(Reqs)] /\ Splits(rs, n, parts)
  BY <1>3, PartsAre DEF Splits
<1>5. /\ decodePool' = sent[n].pool /\ dpRank' = sent[n].dp /\ inbox' = sent[n].inbox
      /\ kv' = [r \in Reqs |-> IF r \in Range(rs) THEN "sent" ELSE kv[r]]
      /\ prefillPool' = prefillPool
  BY <1>l DEF size
<1> HIDE DEF parts, n
<1>6. ASSUME NEW acc \in S, NEW i \in 1..n
      PROVE  /\ SentPart(acc, parts[i], load) \in S
             /\ Posts(acc.inbox, SentPart(acc, parts[i], load).inbox, PartAdd(parts[i]), hosts(acc, i))
             /\ acc.dp[parts[i][1]] # NoRank \/ ~DataParallel => SentPart(acc, parts[i], load).dp = acc.dp
             /\ \A r \in Reqs \ {parts[i][1]} : SentPart(acc, parts[i], load).dp[r] = acc.dp[r]
  <2>1. /\ acc.pool \in PoolOf(DecodeMembers) /\ acc.dp \in [Reqs -> Ranks]
        /\ acc.inbox \in [Workers -> SUBSET M]
    OBVIOUS
  <2>2. parts[i] \in Seq(Reqs) /\ parts[i] # <<>> /\ PartAdd(parts[i]) \in M
    BY <1>4 DEF Splits
  <2>3. PartIsSent(M, acc, parts[i], SentPart(acc, parts[i], load))
    <3> HIDE DEF S, Rec, sent, hosts, step, first
    <3> QED
      BY <1>t, <2>1, <2>2, SendsPart, Zenon
  <2>4. PICK next : next = SentPart(acc, parts[i], load)
    OBVIOUS
  <2>5. next \in S
    BY <2>3, <2>4 DEF PartIsSent
  <2> HIDE DEF S
  <2> QED
    BY <2>3, <2>4, <2>5 DEF PartIsSent
<1>7. first \in S
  OBVIOUS
<1> HIDE DEF S
<1>8. \E f : Rec(f)
  <2>1. step \in [1..n -> [S -> S]]
    <3>1. \A i \in 1..n : \A acc \in S : SentPart(acc, parts[i], load) \in S
      BY <1>6
    <3> QED
      BY <3>1
  <2> HIDE DEF step, first
  <2>2. PICK f : IsChain(f, n, S, first, step)
    BY <1>4, <1>7, <2>1, StepsExist
  <2>3. f \in [0..n -> S] /\ f[0] = first /\ \A i \in 1..n : f[i] = step[i][f[i - 1]]
    BY <2>2 DEF IsChain
  <2>4. \A i \in 1..n : f[i - 1] \in S /\ i \in 0..n /\ i # 0
    BY <1>4, <2>3
  <2>5. \A i \in 1..n : f[i] = SentPart(f[i - 1], parts[i], load)
    BY <2>3, <2>4 DEF step
  <2>6. \A i \in 0..n : i = 0 \/ i \in 1..n
    BY <1>4
  <2>7. f[0] = [pool |-> decodePool, dp |-> dpRank, inbox |-> inbox]
    BY <2>3 DEF first
  <2>8. Rec(f)
    BY <2>3, <2>5, <2>6, <2>7
  <2> QED
    BY <2>8
<1>9. Rec(sent)
  BY <1>8
<1> HIDE DEF sent
<1>10. /\ sent[0] = first
       /\ \A i \in 1..n : sent[i] = SentPart(sent[i - 1], parts[i], load)
  <2>1. \A i \in 1..n : i \in 0..n /\ i # 0
    BY <1>4
  <2>2. 0 \in 0..n
    BY <1>4
  <2> QED
    BY <1>9, <2>1, <2>2
<1>b. ASSUME NEW i \in 1..n
      PROVE  parts[i][1] \in Range(parts[i]) /\ parts[i][1] \in Range(rs)
  <2>1. parts[i] \in Seq(Reqs) /\ parts[i] # <<>> /\ Range(parts[i]) \subseteq Range(rs)
    BY <1>4 DEF Splits
  <2>2. 1 \in DOMAIN parts[i]
    BY <2>1, EmptySeq, LenProperties
  <2> QED
    BY <2>1, <2>2 DEF Range
<1>c. g \in Range(Groups(DecodeMembers)) /\ DataParallel => g # NoRank
  <2>1. IsMembers(DecodeMembers)
    BY MembersAre
  <2> QED
    BY <2>1, RanksAre
<1> DEFINE to == [i \in 1..n |-> CHOOSE w \in hosts(sent[i - 1], i) :
                     sent[i].inbox = [sent[i - 1].inbox EXCEPT ![w] = @ \cup {PartAdd(parts[i])}]]
           Has(k) == Holds(sent[k].inbox, k, parts, to)
           Sent(k) == \A i \in 1..k : /\ to[i] \in Range(DecodeMembers)
                                      /\ SameGroup(rs, g) => DpRank[to[i]] = g
           Others(k) == \A r \in Reqs \ Range(rs) : sent[k].dp[r] = dpRank[r]
           Good(k) == /\ sent[k] \in S /\ Sent(k) /\ Has(k) /\ Others(k)
                      /\ SameGroup(rs, g) \/ ~DataParallel => sent[k].dp = dpRank
           Bad == {k \in 0..n : ~Good(k)}
<1> HIDE DEF first, Good
<1>11. Bad = {}
  <2> SUFFICES ASSUME Bad # {}
               PROVE  FALSE
    OBVIOUS
  <2>1. Bad \in SUBSET Nat
    BY <1>4
  <2>2. PICK k \in Bad : \A j \in Bad : k <= j
    BY <2>1, LeastNat
  <2>3. Good(0)
    <3>1. sent[0].inbox = inbox /\ sent[0].dp = dpRank
      BY <1>10 DEF first
    <3>2. \A i \in 1..0 : FALSE
      OBVIOUS
    <3> HIDE DEF to
    <3> QED
      BY <1>7, <1>10, <3>1, <3>2 DEF Good, Holds
  <2>4. k \in 1..n /\ k - 1 \in 0..n /\ ~(k <= k - 1)
    BY <1>4, <2>2, <2>3
  <2>5. Good(k - 1)
    BY <2>2, <2>4
  <2> DEFINE q == sent[k - 1]
  <2>6. /\ q \in S /\ Sent(k - 1) /\ Has(k - 1)
        /\ \A r \in Reqs \ Range(rs) : q.dp[r] = dpRank[r]
        /\ SameGroup(rs, g) \/ ~DataParallel => q.dp = dpRank
    BY <2>5 DEF Good
  <2>7. sent[k] = SentPart(q, parts[k], load)
    BY <1>10, <2>4
  <2>8. /\ sent[k] \in S
        /\ Posts(q.inbox, sent[k].inbox, PartAdd(parts[k]), hosts(q, k))
        /\ q.dp[parts[k][1]] # NoRank \/ ~DataParallel => sent[k].dp = q.dp
        /\ \A r \in Reqs \ {parts[k][1]} : sent[k].dp[r] = q.dp[r]
    <3> HIDE DEF q, to, hosts, Has, Sent, Others
    <3>1. q \in S /\ k \in 1..n
      BY <2>4, <2>6
    <3>2. /\ SentPart(q, parts[k], load) \in S
          /\ Posts(q.inbox, SentPart(q, parts[k], load).inbox, PartAdd(parts[k]), hosts(q, k))
          /\ q.dp[parts[k][1]] # NoRank \/ ~DataParallel => SentPart(q, parts[k], load).dp = q.dp
          /\ \A r \in Reqs \ {parts[k][1]} : SentPart(q, parts[k], load).dp[r] = q.dp[r]
      BY <1>6, <3>1
    <3> QED
      BY <2>7, <3>2
  <2>9. /\ to[k] \in hosts(q, k)
        /\ sent[k].inbox = [q.inbox EXCEPT ![to[k]] = @ \cup {PartAdd(parts[k])}]
    BY <2>4, <2>8 DEF Posts
  <2>a. /\ to[k] \in Range(DecodeMembers)
        /\ SameGroup(rs, g) => DpRank[to[k]] = g /\ sent[k].dp = dpRank
        /\ ~DataParallel => sent[k].dp = dpRank
    <3> HIDE DEF to, q, hosts, Has, Sent, Others
    <3>a. SameGroup(rs, g) => q.dp = dpRank
      BY <2>6
    <3>b. parts[k][1] \in Range(rs)
      BY <1>b, <2>4
    <3>1. SameGroup(rs, g) => q.dp[parts[k][1]] = g
      BY <3>a, <3>b DEF SameGroup
    <3>2. SameGroup(rs, g) => g \in Range(Groups(DecodeMembers)) /\ DataParallel
      BY DEF SameGroup
    <3> QED
      BY <1>c, <2>6, <2>8, <2>9, <3>1, <3>2 DEF Hosts, hosts
  <2>10. q.inbox \in [Workers -> SUBSET M]
    BY <2>6 DEF S
  <2>11. /\ \A j \in 1..k : j \in 1..(k - 1) \/ j = k
         /\ \A j \in 1..(k - 1) : j \in 1..k
         /\ k \in 1..k
    BY <1>4, <2>4
  <2> HIDE DEF to, q
  <2>12. Has(k)
    <3> SUFFICES ASSUME NEW w \in Workers, NEW m
                 PROVE  m \in sent[k].inbox[w] <=>
                         \/ m \in inbox[w]
                         \/ \E i \in 1..k : to[i] = w /\ m = PartAdd(parts[i])
      BY DEF Holds
    <3>1. m \in q.inbox[w] <=> \/ m \in inbox[w]
                               \/ \E i \in 1..(k - 1) : to[i] = w /\ m = PartAdd(parts[i])
      BY <2>6 DEF q, Holds
    <3>2. m \in sent[k].inbox[w] <=> m \in q.inbox[w] \/ (to[k] = w /\ m = PartAdd(parts[k]))
      BY <2>9, <2>10
    <3> QED
      BY <2>11, <3>1, <3>2
  <2> HIDE DEF Has
  <2>b. Sent(k)
    BY <2>6, <2>11, <2>a
  <2> HIDE DEF Sent
  <2>c. Others(k)
    BY <1>b, <2>4, <2>6, <2>8
  <2> HIDE DEF Others
  <2>13. Good(k)
    BY <2>8, <2>12, <2>a, <2>b, <2>c DEF Good
  <2> QED
    BY <2>2, <2>13
<1> HIDE DEF Good
<1>a. n \in 0..n
  BY <1>4
<1>12. Good(n)
  BY <1>11, <1>a
<1> USE DEF Good
<1>13. to \in [1..n -> Workers]
  <2>1. \A w \in Range(DecodeMembers) : w \in Workers
    BY MembersAre
  <2> QED
    BY <1>12, <2>1
<1>d. /\ \A i \in 1..n : /\ to[i] \in Range(DecodeMembers)
                         /\ SameGroup(rs, g) => DpRank[to[i]] = g
      /\ SameGroup(rs, g) \/ ~DataParallel => sent[n].dp = dpRank
      /\ \A r \in Reqs \ Range(rs) : sent[n].dp[r] = dpRank[r]
  BY <1>12
<1>14. sent[n].pool \in PoolOf(DecodeMembers) /\ sent[n].dp \in [Reqs -> Ranks]
       /\ sent[n].inbox \in [Workers -> SUBSET M]
  BY <1>12 DEF S
<1> HIDE DEF to
<1>15. Holds(inbox', n, parts, to)
  BY <1>5, <1>12
<1> QED
  BY <1>4, <1>5, <1>13, <1>14, <1>15, <1>d

-----------------------------------------------------------------------------
\* The invariant

Metas == {NoMeta} \cup SUBSET Reqs
Messages ==
  {STOP} \cup [task: {"ADD"}, requests: {s \in Seq(Reqs) : s # <<>> /\ IsInjective(s)},
               metadata: Metas]

\* The types of all variables. The engine is sent single requests.
Types ==
  /\ arrived \in 0..NumReqs /\ engineUp \in BOOLEAN
  /\ engineQueue \in SUBSET ({STOP} \cup {Add(<<r>>, NoMeta) : r \in Reqs})
  /\ prefillPool \in PoolOf(PrefillMembers) /\ decodePool \in PoolOf(DecodeMembers)
  /\ dpRank \in [Reqs -> Ranks]
  /\ inbox \in [Workers -> SUBSET Messages]
  /\ pendingMeta \in [Workers -> Metas]
  /\ waiting \in [Workers -> Seq(Reqs)] /\ running \in [Workers -> Seq(Reqs)]
  /\ batch \in [Workers -> Seq(Reqs)]
  /\ status \in [Workers -> {"WAITING", "RUNNING", "STOPPED"}]
  /\ stepping \in [Workers -> BOOLEAN]
  /\ tokens \in [Reqs -> Nat] /\ \A r \in Reqs : tokens[r] <= DecodeLen[r]
  /\ kv \in [Reqs -> {"none", "sent", "loaded"}]

\* A worker serves what runs, each request once; a step under way is one of a
\* worker that was RUNNING, and is empty only when nothing runs; and who waits
\* has nothing to serve.
WorkerSound(w) ==
  /\ Range(batch[w]) \subseteq Range(running[w])
  /\ IsInjective(waiting[w]) /\ IsInjective(running[w])
  /\ stepping[w] => status[w] = "RUNNING"
  /\ stepping[w] /\ batch[w] = <<>> => running[w] = <<>>
  /\ status[w] = "WAITING" => waiting[w] = <<>> /\ running[w] = <<>>

\* Request r is in one place: not sent, done, in message m to the engine or to
\* worker w, or waiting or running at w; and in no other.
SitsAt(r, at, w, m) ==
  /\ at \in {"source", "done", "engine", "inbox", "waiting", "running"}
  /\ r > arrived <=> at = "source"
  /\ IsDone(r) <=> at = "done"
  /\ at = "engine" => m \in Adds(engineQueue)
  /\ \A e \in Adds(engineQueue) : r \in Range(e.requests) <=> at = "engine" /\ e = m
  /\ at = "inbox" => w \in Workers /\ m \in Adds(inbox[w])
  /\ \A v \in Workers : \A e \in Adds(inbox[v]) :
       r \in Range(e.requests) <=> at = "inbox" /\ v = w /\ e = m
  /\ at \in {"waiting", "running"} => w \in Workers
  /\ \A v \in Workers : r \in Range(waiting[v]) <=> at = "waiting" /\ v = w
  /\ \A v \in Workers : r \in Range(running[v]) <=> at = "running" /\ v = w

EachPlaced == \A r \in Reqs : \E at, w, m : SitsAt(r, at, w, m)

ClusterInv == Types /\ (\A w \in Workers : WorkerSound(w)) /\ EachPlaced

LEMMA NewPools ==
  ASSUME NEW ms, IsMembers(ms)
  PROVE  NewPool(ms) \in PoolOf(ms)
<1> DEFINE ranks == Range(Groups(ms))
<1>1. Len(Groups(ms)) \in Nat \ {0} /\ \A g \in ranks : Len(GroupMembers(ms, g)) \in Nat \ {0}
  BY GroupsAre
<1>2. NewPool(ms) = [members |-> ms, groups |-> Groups(ms),
                     group |-> [g \in ranks |-> GroupMembers(ms, g)],
                     cursor |-> [g \in ranks |-> 0], nextGroup |-> 0,
                     counts |-> [g \in ranks |-> 0]]
  BY DEF NewPool
<1> HIDE DEF ranks
<1>3. [g \in ranks |-> 0] \in [ranks -> Nat]
  OBVIOUS
<1> QED
  BY <1>1, <1>2, <1>3 DEF PoolOf, ranks

LEMMA LoadTyped == Types => Loads \subseteq [Workers -> [active: Nat, memory: Nat]]
<1> SUFFICES ASSUME Types, NEW load \in Loads
             PROVE  load \in [Workers -> [active: Nat, memory: Nat]]
  OBVIOUS
<1>1. PICK used \in [Workers -> {0, 1}] :
        load = [w \in Workers |->
                  [active |-> Len(running[w]) + Len(waiting[w]), memory |-> used[w]]]
  BY DEF Loads
<1>2. ASSUME NEW w \in Workers
      PROVE  Len(running[w]) + Len(waiting[w]) \in Nat
  <2>1. running[w] \in Seq(Reqs) /\ waiting[w] \in Seq(Reqs)
    BY DEF Types
  <2>2. \A s \in Seq(Reqs) : Len(s) \in Nat
    OBVIOUS
  <2>3. Len(running[w]) \in Nat /\ Len(waiting[w]) \in Nat
    BY <2>1, <2>2, Zenon
  <2>4. \A x, y \in Nat : x + y \in Nat
    OBVIOUS
  <2> QED
    BY <2>3, <2>4, Zenon
<1>3. \A w \in Workers : used[w] \in Nat
  OBVIOUS
<1> QED
  BY <1>1, <1>2, <1>3

\* A message with one request.
LEMMA SingleAdd ==
  ASSUME NEW r \in Reqs
  PROVE  LET m == Add(<<r>>, NoMeta)
         IN  /\ m \in Messages /\ m.task = "ADD" /\ m.metadata = NoMeta /\ m.requests = <<r>>
             /\ m.requests[1] = r /\ Range(m.requests) = {r} /\ m # STOP
<1>1. <<r>> \in Seq(Reqs) /\ <<r>> # <<>> /\ IsInjective(<<r>>) /\ Range(<<r>>) = {r}
  BY DEF IsInjective, Range
<1> QED
  BY <1>1 DEF Add, Messages, Metas, STOP

LEMMA MessageIs ==
  ASSUME NEW m \in Messages, m.task = "ADD"
  PROVE  /\ m.requests \in Seq(Reqs) /\ m.requests # <<>> /\ IsInjective(m.requests)
         /\ m.metadata \in Metas /\ m # STOP
BY DEF Messages, STOP

\* Adding a STOP changes no ADD.
LEMMA AddsKept ==
  ASSUME NEW q
  PROVE  Adds(q \cup {STOP}) = Adds(q) /\ Adds(q \ {STOP}) = Adds(q)
BY DEF Adds, STOP

LEMMA InitPlaced == Init => ClusterInv
<1> SUFFICES ASSUME Init
             PROVE  ClusterInv
  OBVIOUS
<1>1. Types
  <2>1. prefillPool \in PoolOf(PrefillMembers) /\ decodePool \in PoolOf(DecodeMembers)
    BY MembersAre, NewPools DEF Init
  <2>2. /\ <<>> \in Seq(Reqs) /\ {} \in SUBSET Messages /\ NoMeta \in Metas /\ NoRank \in Ranks
        /\ \A r \in Reqs : 0 <= DecodeLen[r]
    BY ClusterAssumption DEF Metas, Ranks
  <2>3. arrived \in 0..NumReqs
    BY ClusterAssumption DEF Init
  <2> QED
    BY <2>1, <2>2, <2>3 DEF Init, Types
<1>2. Range(<<>>) = {} /\ IsInjective(<<>>)
  BY DEF Range, IsInjective
<1>3. \A w \in Workers : WorkerSound(w)
  BY <1>2 DEF Init, WorkerSound
<1>4. ASSUME NEW r \in Reqs
      PROVE  SitsAt(r, "source", 0, STOP)
  <2>1. r > 0 /\ 0 # DecodeLen[r]
    BY ClusterAssumption DEF Reqs
  <2>2. Adds({}) = {}
    BY DEF Adds
  <2> QED
    BY <1>2, <2>1, <2>2 DEF Init, SitsAt, IsDone
<1> QED
  BY <1>1, <1>3, <1>4 DEF ClusterInv, EachPlaced

-----------------------------------------------------------------------------
\* The engine

LEMMA SendsRequest ==
  ASSUME Types, NEW r \in Reqs, SendToPrefill(r)
  PROVE  /\ prefillPool' \in PoolOf(PrefillMembers) /\ decodePool' = decodePool
         /\ dpRank' \in [Reqs -> Ranks] /\ inbox' \in [Workers -> SUBSET Messages]
         /\ Posts(inbox, inbox', Add(<<r>>, NoMeta), Hosts(PrefillMembers, dpRank[r]))
<1>l. PICK load \in Loads :
        LET pick == Select(prefillPool, dpRank[r], load)
        IN  /\ prefillPool' = pick.pool /\ decodePool' = decodePool
            /\ dpRank' = [dpRank EXCEPT ![r] = Assigned(@, pick.worker, TRUE)]
            /\ inbox' = [inbox EXCEPT ![pick.worker] = @ \cup {Add(<<r>>, NoMeta)}]
  BY DEF SendToPrefill
<1> DEFINE pick == Select(prefillPool, dpRank[r], load)
           w == pick.worker
<1>1. IsMembers(PrefillMembers) /\ \A v \in Range(PrefillMembers) : v \in Workers
  BY MembersAre
<1>2. load \in [Workers -> [active: Nat, memory: Nat]] /\ prefillPool \in PoolOf(PrefillMembers)
  BY LoadTyped DEF Types
<1>3. /\ w \in Workers /\ pick.pool \in PoolOf(PrefillMembers)
      /\ w \in Hosts(PrefillMembers, dpRank[r])
  BY <1>1, <1>2, Selects DEF Hosts
<1>4. /\ prefillPool' = pick.pool /\ decodePool' = decodePool
      /\ dpRank' = [dpRank EXCEPT ![r] = Assigned(@, w, TRUE)]
      /\ inbox' = [inbox EXCEPT ![w] = @ \cup {Add(<<r>>, NoMeta)}]
  BY <1>l
<1> HIDE DEF pick, w
<1>5. dpRank' \in [Reqs -> Ranks]
  BY <1>3, <1>4, Assigns DEF Types
<1>6. Add(<<r>>, NoMeta) \in Messages
  BY SingleAdd
<1>7. inbox' \in [Workers -> SUBSET Messages]
  BY <1>3, <1>4, <1>6 DEF Types
<1> QED
  BY <1>3, <1>4, <1>5, <1>7 DEF Posts

LEMMA ArriveKeeps == ClusterInv /\ Arrive => ClusterInv'
<1> SUFFICES ASSUME ClusterInv, Arrive
             PROVE  ClusterInv'
  OBVIOUS
<1> USE DEF ClusterInv
<1>a. arrived + 1 \in Reqs /\ arrived' = arrived + 1 /\ arrived \in Nat /\ arrived' \in 0..NumReqs
  BY ClusterAssumption DEF Types, Arrive, Reqs
<1>b. PICK r0 \in Reqs : r0 = arrived + 1
  BY <1>a
<1>c. PICK m0 : m0 = Add(<<r0>>, NoMeta)
  OBVIOUS
<1>1. r0 = arrived + 1 /\ arrived' = r0 /\ arrived \in Nat /\ arrived' \in 0..NumReqs
  BY <1>a, <1>b
<1>2. /\ m0 \in Messages /\ m0.task = "ADD" /\ Range(m0.requests) = {r0} /\ m0 # STOP
  BY <1>c, SingleAdd
<1>3. /\ UNCHANGED <<engineUp, pendingMeta, waiting, running, status, batch,
                     stepping, tokens, kv>>
  BY DEF Arrive, requestVars
<1>4. \A w \in Workers : WorkerSound(w)'
  BY <1>3 DEF WorkerSound
<1>5. CASE Burst
  <2>1. SendToPrefill(r0) /\ engineQueue' = engineQueue
    BY <1>1, <1>5 DEF Arrive
  <2>2. /\ prefillPool' \in PoolOf(PrefillMembers) /\ decodePool' = decodePool
        /\ dpRank' \in [Reqs -> Ranks] /\ inbox' \in [Workers -> SUBSET Messages]
        /\ Posts(inbox, inbox', m0, Hosts(PrefillMembers, dpRank[r0]))
    BY <1>c, <2>1, SendsRequest
  <2>3. Types'
    BY <1>1, <1>3, <2>1, <2>2 DEF Types
  <2>4. PICK w0 \in Workers : inbox' = [inbox EXCEPT ![w0] = @ \cup {m0}]
    BY <2>2, HostsAre DEF Posts
  <2>5. \A v \in Workers : \A e : e \in Adds(inbox'[v]) <=>
           e \in Adds(inbox[v]) \/ (v = w0 /\ e = m0)
    BY <1>2, <2>4 DEF Types, Adds
  <2>6. ASSUME NEW r \in Reqs
        PROVE  \E at, w, m : SitsAt(r, at, w, m)'
    <3>1. PICK at, w, m : SitsAt(r, at, w, m)
      BY DEF EachPlaced
    <3>2. CASE r = r0
      <4>1. at = "source"
        BY <1>1, <3>1, <3>2 DEF SitsAt
      <4>2. ~(r0 > r0)
        BY <1>1
      <4>3. SitsAt(r, "inbox", w0, m0)'
        BY <1>1, <1>2, <1>3, <2>1, <2>4, <2>5, <3>1, <3>2, <4>1, <4>2 DEF SitsAt, IsDone
      <4> QED
        BY <4>3
    <3>3. CASE r # r0
      <4>1. r > arrived <=> r > r0
        <5>1. \A a, b \in Nat : b # a + 1 => (b > a <=> b > a + 1)
          OBVIOUS
        <5>2. r \in Nat /\ arrived \in Nat
          BY <1>1 DEF Reqs
        <5> QED
          BY <1>1, <3>3, <5>1, <5>2, Zenon
      <4>2. SitsAt(r, at, w, m)'
        BY <1>1, <1>2, <1>3, <2>1, <2>5, <3>1, <3>3, <4>1 DEF SitsAt, IsDone
      <4> QED
        BY <4>2
    <3> QED
      BY <3>2, <3>3
  <2> QED
    BY <1>4, <2>3, <2>6 DEF EachPlaced
<1>6. CASE ~Burst
  <2>1. engineQueue' = engineQueue \cup {m0} /\ UNCHANGED <<prefillPool, decodePool, dpRank, inbox>>
    BY <1>1, <1>6, <1>c DEF Arrive, poolVars
  <2>2. m0 \in {Add(<<r>>, NoMeta) : r \in Reqs}
    BY <1>c
  <2>3. Types'
    BY <1>1, <1>3, <2>1, <2>2 DEF Types
  <2>4. \A e : e \in Adds(engineQueue') <=> e \in Adds(engineQueue) \/ e = m0
    BY <1>2, <2>1 DEF Adds
  <2>5. ASSUME NEW r \in Reqs
        PROVE  \E at, w, m : SitsAt(r, at, w, m)'
    <3>1. PICK at, w, m : SitsAt(r, at, w, m)
      BY DEF EachPlaced
    <3>2. CASE r = r0
      <4>1. at = "source"
        BY <1>1, <3>1, <3>2 DEF SitsAt
      <4>2. ~(r0 > r0)
        BY <1>1
      <4>3. SitsAt(r, "engine", w, m0)'
        BY <1>1, <1>2, <1>3, <2>1, <2>4, <3>1, <3>2, <4>1, <4>2 DEF SitsAt, IsDone
      <4> QED
        BY <4>3
    <3>3. CASE r # r0
      <4>1. r > arrived <=> r > r0
        <5>1. \A a, b \in Nat : b # a + 1 => (b > a <=> b > a + 1)
          OBVIOUS
        <5>2. r \in Nat /\ arrived \in Nat
          BY <1>1 DEF Reqs
        <5> QED
          BY <1>1, <3>3, <5>1, <5>2, Zenon
      <4>2. SitsAt(r, at, w, m)'
        BY <1>1, <1>2, <1>3, <2>1, <2>4, <3>1, <3>3, <4>1 DEF SitsAt, IsDone
      <4> QED
        BY <4>2
    <3> QED
      BY <3>2, <3>3
  <2> QED
    BY <1>4, <2>3, <2>5 DEF EachPlaced
<1> QED
  BY <1>5, <1>6

LEMMA EngineAddKeeps == ClusterInv /\ EngineAdd => ClusterInv'
<1> SUFFICES ASSUME ClusterInv, EngineAdd
             PROVE  ClusterInv'
  OBVIOUS
<1> USE DEF ClusterInv
<1>1. PICK m0 \in Adds(engineQueue) :
        engineQueue' = engineQueue \ {m0} /\ SendToPrefill(m0.requests[1])
  BY DEF EngineAdd
<1>2. PICK r0 \in Reqs : m0 = Add(<<r0>>, NoMeta)
  <2>1. engineQueue \subseteq {STOP} \cup {Add(<<r>>, NoMeta) : r \in Reqs}
    BY DEF Types
  <2>2. m0 \in engineQueue /\ m0 # STOP
    BY DEF Adds, STOP
  <2> QED
    BY <2>1, <2>2
<1>3. /\ m0 \in Messages /\ m0.task = "ADD" /\ m0.requests[1] = r0
      /\ Range(m0.requests) = {r0} /\ m0 # STOP
  BY <1>2, SingleAdd
<1>4. UNCHANGED <<arrived, engineUp, pendingMeta, waiting, running, status, batch,
                  stepping, tokens, kv>>
  BY DEF EngineAdd, requestVars
<1>5. \A w \in Workers : WorkerSound(w)'
  BY <1>4 DEF WorkerSound
<1>6. /\ prefillPool' \in PoolOf(PrefillMembers) /\ decodePool' = decodePool
      /\ dpRank' \in [Reqs -> Ranks] /\ inbox' \in [Workers -> SUBSET Messages]
      /\ Posts(inbox, inbox', m0, Hosts(PrefillMembers, dpRank[r0]))
  BY <1>1, <1>2, <1>3, SendsRequest
<1>7. Types'
  BY <1>1, <1>4, <1>6 DEF Types
<1>8. PICK w0 \in Workers : inbox' = [inbox EXCEPT ![w0] = @ \cup {m0}]
  BY <1>6, HostsAre DEF Posts
<1>9. \A v \in Workers : \A e : e \in Adds(inbox'[v]) <=>
        e \in Adds(inbox[v]) \/ (v = w0 /\ e = m0)
  BY <1>3, <1>8 DEF Types, Adds
<1>10. \A e : e \in Adds(engineQueue') <=> e \in Adds(engineQueue) /\ e # m0
  BY <1>1 DEF Adds
<1>11. ASSUME NEW r \in Reqs
       PROVE  \E at, w, m : SitsAt(r, at, w, m)'
  <2>1. PICK at, w, m : SitsAt(r, at, w, m)
    BY DEF EachPlaced
  <2>2. CASE r = r0
    <3>1. at = "engine" /\ m = m0
      BY <1>1, <1>3, <2>1, <2>2 DEF SitsAt
    <3>2. SitsAt(r, "inbox", w0, m0)'
      BY <1>3, <1>4, <1>9, <1>10, <2>1, <2>2, <3>1 DEF SitsAt, IsDone
    <3> QED
      BY <3>2
  <2>3. CASE r # r0
    <3>1. SitsAt(r, at, w, m)'
      BY <1>1, <1>3, <1>4, <1>9, <1>10, <2>1, <2>3 DEF SitsAt, IsDone
    <3> QED
      BY <3>1
  <2> QED
    BY <2>2, <2>3
<1> QED
  BY <1>5, <1>7, <1>11 DEF EachPlaced

LEMMA EngineStopKeeps == ClusterInv /\ EngineStop => ClusterInv'
<1> SUFFICES ASSUME ClusterInv, EngineStop
             PROVE  ClusterInv'
  OBVIOUS
<1> USE DEF ClusterInv
<1>1. /\ engineQueue' = engineQueue \ {STOP} /\ engineUp' = FALSE
      /\ inbox' = [w \in Workers |-> inbox[w] \cup {STOP}]
      /\ UNCHANGED <<arrived, prefillPool, decodePool, dpRank, pendingMeta, waiting,
                     running, status, batch, stepping, tokens, kv>>
  BY DEF EngineStop, Broadcast, poolVars, requestVars
<1>2. STOP \in Messages
  BY DEF Messages
<1>3. Types'
  BY <1>1, <1>2 DEF Types
<1>4. \A w \in Workers : WorkerSound(w)'
  BY <1>1 DEF WorkerSound
<1>5. Adds(engineQueue)' = Adds(engineQueue) /\ \A v \in Workers : Adds(inbox'[v]) = Adds(inbox[v])
  BY <1>1, AddsKept
<1>6. ASSUME NEW r \in Reqs
      PROVE  \E at, w, m : SitsAt(r, at, w, m)'
  <2>1. PICK at, w, m : SitsAt(r, at, w, m)
    BY DEF EachPlaced
  <2>2. SitsAt(r, at, w, m)'
    BY <1>1, <1>5, <2>1 DEF SitsAt, IsDone
  <2> QED
    BY <2>2
<1> QED
  BY <1>3, <1>4, <1>6 DEF EachPlaced

-----------------------------------------------------------------------------
\* The message loop

LEMMA TakeAddKeeps ==
  ASSUME NEW w0 \in Workers
  PROVE  ClusterInv /\ TakeAdd(w0) => ClusterInv'
<1> SUFFICES ASSUME ClusterInv, TakeAdd(w0)
             PROVE  ClusterInv'
  OBVIOUS
<1> USE DEF ClusterInv
<1>1. PICK m0 \in Adds(inbox[w0]) :
        /\ inbox' = [inbox EXCEPT ![w0] = @ \ {m0}]
        /\ pendingMeta' = IF m0.metadata = NoMeta THEN pendingMeta
                          ELSE [pendingMeta EXCEPT ![w0] = m0.metadata]
        /\ waiting' = [waiting EXCEPT ![w0] = @ \o m0.requests]
  BY DEF TakeAdd
<1>2. /\ status' = [status EXCEPT ![w0] = "RUNNING"]
      /\ UNCHANGED <<arrived, engineQueue, engineUp, prefillPool, decodePool, dpRank,
                     running, batch, stepping, tokens, kv>>
      /\ stepping[w0] = FALSE
  BY DEF TakeAdd, Listening, engineVars, poolVars, requestVars, Types
<1>3. m0 \in Messages /\ m0.task = "ADD"
  BY <1>1 DEF Types, Adds
<1>4. /\ m0.requests \in Seq(Reqs) /\ m0.requests # <<>> /\ IsInjective(m0.requests)
      /\ m0.metadata \in Metas
  BY <1>3, MessageIs
<1>5. waiting[w0] \in Seq(Reqs) /\ IsInjective(waiting[w0])
  BY DEF Types, WorkerSound
<1>6. Range(waiting[w0]) \cap Range(m0.requests) = {}
  <2> SUFFICES ASSUME NEW r \in Range(waiting[w0]), r \in Range(m0.requests)
               PROVE  FALSE
    OBVIOUS
  <2>1. r \in Reqs
    BY <1>5 DEF Range
  <2>2. PICK at, w, m : SitsAt(r, at, w, m)
    BY <2>1 DEF EachPlaced
  <2> QED
    BY <1>1, <2>2 DEF SitsAt
<1> DEFINE now == waiting[w0] \o m0.requests
<1>8. /\ now \in Seq(Reqs) /\ IsInjective(now)
      /\ Range(now) = Range(waiting[w0]) \cup Range(m0.requests)
  BY <1>4, <1>5, <1>6, ConcatRange
<1> HIDE DEF now
<1>9. waiting' = [waiting EXCEPT ![w0] = now]
  BY <1>1 DEF now
<1>10. Types'
  <2>1. waiting' \in [Workers -> Seq(Reqs)]
    BY <1>8, <1>9 DEF Types
  <2>2. pendingMeta' \in [Workers -> Metas]
    BY <1>1, <1>4 DEF Types
  <2>3. inbox' \in [Workers -> SUBSET Messages]
    BY <1>1 DEF Types
  <2> QED
    BY <1>2, <2>1, <2>2, <2>3 DEF Types
<1>11. \A w \in Workers : WorkerSound(w)'
  <2>1. \A w \in Workers : IsInjective(waiting'[w])
    BY <1>8, <1>9 DEF Types, WorkerSound
  <2>2. \A w \in Workers : w # w0 => waiting'[w] = waiting[w] /\ status'[w] = status[w]
    BY <1>2, <1>9 DEF Types
  <2>3. status'[w0] = "RUNNING"
    BY <1>2 DEF Types
  <2> QED
    BY <1>2, <2>1, <2>2, <2>3 DEF WorkerSound
<1>12. \A v \in Workers : \A e : e \in Adds(inbox'[v]) <=>
         e \in Adds(inbox[v]) /\ ~(v = w0 /\ e = m0)
  BY <1>1 DEF Types, Adds
<1>13. \A v \in Workers : \A r : r \in Range(waiting'[v]) <=>
         r \in Range(waiting[v]) \/ (v = w0 /\ r \in Range(m0.requests))
  BY <1>8, <1>9 DEF Types
<1>14. ASSUME NEW r \in Reqs
       PROVE  \E at, w, m : SitsAt(r, at, w, m)'
  <2>1. PICK at, w, m : SitsAt(r, at, w, m)
    BY DEF EachPlaced
  <2>2. CASE r \in Range(m0.requests)
    <3>1. at = "inbox" /\ w = w0 /\ m = m0
      BY <1>1, <2>1, <2>2 DEF SitsAt
    <3>2. SitsAt(r, "waiting", w0, m0)'
      BY <1>2, <1>12, <1>13, <2>1, <2>2, <3>1 DEF SitsAt, IsDone
    <3> QED
      BY <3>2
  <2>3. CASE r \notin Range(m0.requests)
    <3>1. SitsAt(r, at, w, m)'
      BY <1>1, <1>2, <1>12, <1>13, <2>1, <2>3 DEF SitsAt, IsDone
    <3> QED
      BY <3>1
  <2> QED
    BY <2>2, <2>3
<1> QED
  BY <1>10, <1>11, <1>14 DEF EachPlaced

LEMMA TakeStopKeeps ==
  ASSUME NEW w0 \in Workers
  PROVE  ClusterInv /\ TakeStop(w0) => ClusterInv'
<1> SUFFICES ASSUME ClusterInv, TakeStop(w0)
             PROVE  ClusterInv'
  OBVIOUS
<1> USE DEF ClusterInv
<1>1. /\ inbox[w0] = {STOP} /\ inbox' = [inbox EXCEPT ![w0] = {}]
      /\ status' = [status EXCEPT ![w0] = "STOPPED"]
      /\ UNCHANGED <<arrived, engineQueue, engineUp, prefillPool, decodePool, dpRank,
                     pendingMeta, waiting, running, batch, stepping, tokens, kv>>
      /\ stepping[w0] = FALSE
  BY DEF TakeStop, Listening, engineVars, poolVars, requestVars, Types
<1>2. Types'
  BY <1>1 DEF Types
<1>3. \A w \in Workers : WorkerSound(w)'
  BY <1>1 DEF WorkerSound, Types
<1>4. \A v \in Workers : Adds(inbox'[v]) = Adds(inbox[v])
  BY <1>1 DEF Types, Adds, STOP
<1>5. ASSUME NEW r \in Reqs
      PROVE  \E at, w, m : SitsAt(r, at, w, m)'
  <2>1. PICK at, w, m : SitsAt(r, at, w, m)
    BY DEF EachPlaced
  <2>2. SitsAt(r, at, w, m)'
    BY <1>1, <1>4, <2>1 DEF SitsAt, IsDone
  <2> QED
    BY <2>2
<1> QED
  BY <1>2, <1>3, <1>5 DEF EachPlaced

-----------------------------------------------------------------------------
\* The steps of a worker

\* The two ends of a sequence.
LEMMA SplitAt ==
  ASSUME NEW S, NEW s \in Seq(S), IsInjective(s), NEW k \in 0..Len(s)
  PROVE  LET a == SubSeq(s, 1, k)
             b == SubSeq(s, k + 1, Len(s))
         IN  /\ a \in Seq(S) /\ b \in Seq(S) /\ Len(a) = k
             /\ IsInjective(a) /\ IsInjective(b)
             /\ Range(s) = Range(a) \cup Range(b) /\ Range(a) \cap Range(b) = {}
<1> DEFINE a == SubSeq(s, 1, k)
           b == SubSeq(s, k + 1, Len(s))
<1>1. Len(s) \in Nat /\ DOMAIN s = 1..Len(s) /\ k \in Nat /\ k <= Len(s)
  BY LenProperties
<1>2. /\ b \in Seq(S)
      /\ \A i : i \in DOMAIN b <=> i \in Nat \ {0} /\ k + i \in DOMAIN s
      /\ \A i \in DOMAIN b : b[i] = s[k + i]
  BY <1>1, SuffixProperties
<1>3. /\ a \in Seq(S) /\ Len(a) = k /\ DOMAIN a = 1..k
      /\ \A i \in 1..k : a[i] = s[i]
  BY <1>1
<1> HIDE DEF a, b
<1>4. IsInjective(a) /\ IsInjective(b)
  <2>1. \A i, j \in DOMAIN s : s[i] = s[j] => i = j
    BY DEF IsInjective
  <2>2. ASSUME NEW i \in DOMAIN a, NEW j \in DOMAIN a, a[i] = a[j]
        PROVE  i = j
    <3>1. i \in DOMAIN s /\ j \in DOMAIN s /\ s[i] = s[j]
      BY <1>1, <1>3, <2>2
    <3> QED
      BY <2>1, <3>1
  <2>3. ASSUME NEW i \in DOMAIN b, NEW j \in DOMAIN b, b[i] = b[j]
        PROVE  i = j
    <3>1. k + i \in DOMAIN s /\ k + j \in DOMAIN s /\ s[k + i] = s[k + j]
      BY <1>2, <2>3
    <3>2. k + i = k + j /\ i \in Nat /\ j \in Nat
      BY <1>2, <2>1, <3>1
    <3> QED
      BY <1>1, <3>2
  <2> QED
    BY <2>2, <2>3 DEF IsInjective
<1>5. ASSUME NEW x \in Range(s)
      PROVE  x \in Range(a) \cup Range(b)
  <2>1. PICK i \in 1..Len(s) : s[i] = x
    BY <1>1 DEF Range
  <2>2. CASE i <= k
    BY <1>1, <1>3, <2>1, <2>2 DEF Range
  <2>3. CASE i > k
    <3>1. i - k \in Nat \ {0} /\ k + (i - k) = i
      BY <1>1, <2>3
    <3>2. i - k \in DOMAIN b
      BY <1>1, <1>2, <3>1
    <3> QED
      BY <1>2, <2>1, <3>1, <3>2 DEF Range
  <2> QED
    BY <1>1, <2>2, <2>3
<1>6. Range(a) \subseteq Range(s) /\ Range(b) \subseteq Range(s)
  BY <1>1, <1>2, <1>3 DEF Range
<1>7. ASSUME NEW x \in Range(a), x \in Range(b)
      PROVE  FALSE
  <2>1. PICK i \in 1..k : s[i] = x
    BY <1>3 DEF Range
  <2>2. PICK j \in DOMAIN b : s[k + j] = x
    BY <1>2, <1>7 DEF Range
  <2>3. i \in DOMAIN s /\ k + j \in DOMAIN s /\ j \in Nat \ {0} /\ i # k + j
    BY <1>1, <1>2
  <2> QED
    BY <2>1, <2>2, <2>3 DEF IsInjective
<1> QED
  BY <1>2, <1>3, <1>4, <1>5, <1>6, <1>7 DEF a, b

\* What a step admits is taken from the waiting list.
LEMMA AdmittedIs ==
  ASSUME NEW w, waiting[w] \in Seq(Reqs), IsInjective(waiting[w]), running[w] \in Seq(Reqs)
  PROVE  LET new == Admitted(w)
             left == SubSeq(waiting[w], Len(new) + 1, Len(waiting[w]))
         IN  /\ new \in Seq(Reqs) /\ left \in Seq(Reqs)
             /\ IsInjective(new) /\ IsInjective(left)
             /\ Range(waiting[w]) = Range(new) \cup Range(left)
             /\ Range(new) \cap Range(left) = {}
<1> DEFINE s == waiting[w]
           room == MaxRunning - Len(running[w])
           new == Admitted(w)
<1>1. Len(s) \in Nat /\ s = SubSeq(s, 1, Len(s)) /\ <<>> = SubSeq(s, 1, 0)
  BY LenProperties
<1>2. \E k \in 0..Len(s) : new = SubSeq(s, 1, k)
  <2>1. CASE room =< 0
    <3>1. new = <<>>
      BY <2>1 DEF Admitted
    <3>2. 0 \in 0..Len(s)
      BY <1>1
    <3> QED
      BY <1>1, <3>1, <3>2
  <2>2. CASE ~(room =< 0) /\ Len(s) =< room
    <3>1. new = s
      BY <2>2 DEF Admitted
    <3>2. Len(s) \in 0..Len(s)
      BY <1>1
    <3> QED
      BY <1>1, <3>1, <3>2
  <2>3. CASE ~(room =< 0) /\ ~(Len(s) =< room)
    <3>1. new = SubSeq(s, 1, room)
      BY <2>3 DEF Admitted
    <3>a. Len(running[w]) \in Nat /\ MaxRunning \in Nat
      BY LenProperties, ClusterAssumption
    <3>b. \A m, n, l \in Nat : ~(m - n =< 0) /\ ~(l =< m - n) => m - n \in 0..l
      OBVIOUS
    <3>2. room \in 0..Len(s)
      BY <1>1, <2>3, <3>a, <3>b, Zenon
    <3> QED
      BY <3>1, <3>2
  <2> QED
    BY <2>1, <2>2, <2>3
<1>3. PICK k \in 0..Len(s) : new = SubSeq(s, 1, k)
  BY <1>2
<1> HIDE DEF new
<1> DEFINE left == SubSeq(s, k + 1, Len(s))
<1>5. /\ new \in Seq(Reqs) /\ left \in Seq(Reqs) /\ Len(new) = k
      /\ IsInjective(new) /\ IsInjective(left)
      /\ Range(s) = Range(new) \cup Range(left) /\ Range(new) \cap Range(left) = {}
  BY <1>3, SplitAt
<1> QED
  BY <1>5 DEF new

LEMMA BeginStepKeeps ==
  ASSUME NEW w0 \in Workers
  PROVE  ClusterInv /\ BeginStep(w0) => ClusterInv'
<1> SUFFICES ASSUME ClusterInv, BeginStep(w0)
             PROVE  ClusterInv'
  OBVIOUS
<1> USE DEF ClusterInv
<1>1. /\ UNCHANGED <<arrived, engineQueue, engineUp, prefillPool, decodePool, dpRank,
                     inbox, status, tokens>>
      /\ kv' = IF pendingMeta[w0] = NoMeta THEN kv
               ELSE [r \in Reqs |-> IF r \in pendingMeta[w0] THEN "loaded" ELSE kv[r]]
      /\ pendingMeta' = [pendingMeta EXCEPT ![w0] = NoMeta]
      /\ stepping' = [stepping EXCEPT ![w0] = TRUE]
      /\ status[w0] = "RUNNING"
  BY DEF BeginStep, engineVars, poolVars
<1>2. /\ waiting[w0] \in Seq(Reqs) /\ IsInjective(waiting[w0])
      /\ running[w0] \in Seq(Reqs) /\ IsInjective(running[w0])
  BY DEF Types, WorkerSound
<1>3. kv' \in [Reqs -> {"none", "sent", "loaded"}]
  BY <1>1 DEF Types
<1>4. pendingMeta' \in [Workers -> Metas] /\ stepping' \in [Workers -> BOOLEAN]
  BY <1>1 DEF Types, Metas
<1>5. PICK new : new = Admitted(w0)
  OBVIOUS
<1>6. CASE new # <<>>
  <2> DEFINE left == SubSeq(waiting[w0], Len(new) + 1, Len(waiting[w0]))
             now == running[w0] \o new
  <2>1. /\ waiting' = [waiting EXCEPT ![w0] = left]
        /\ running' = [running EXCEPT ![w0] = now]
        /\ batch' = [batch EXCEPT ![w0] = new]
    BY <1>5, <1>6 DEF BeginStep
  <2>2. /\ new \in Seq(Reqs) /\ left \in Seq(Reqs)
        /\ IsInjective(new) /\ IsInjective(left)
        /\ Range(waiting[w0]) = Range(new) \cup Range(left)
        /\ Range(new) \cap Range(left) = {}
    BY <1>2, <1>5, AdmittedIs
  <2> HIDE DEF left
  <2>3. Range(running[w0]) \cap Range(new) = {}
    <3> SUFFICES ASSUME NEW r \in Range(running[w0]), r \in Range(new)
                 PROVE  FALSE
      OBVIOUS
    <3>a. Range(waiting[w0]) \subseteq Reqs
      BY <1>2 DEF Range
    <3>1. r \in Reqs /\ r \in Range(waiting[w0])
      BY <2>2, <3>a
    <3>2. PICK at, w, m : SitsAt(r, at, w, m)
      BY <3>1 DEF EachPlaced
    <3> QED
      BY <3>1, <3>2 DEF SitsAt
  <2>4. /\ now \in Seq(Reqs) /\ IsInjective(now)
        /\ Range(now) = Range(running[w0]) \cup Range(new)
    BY <1>2, <2>2, <2>3, ConcatRange
  <2> HIDE DEF now
  <2>5. Types'
    <3>1. /\ waiting' \in [Workers -> Seq(Reqs)] /\ running' \in [Workers -> Seq(Reqs)]
          /\ batch' \in [Workers -> Seq(Reqs)]
      BY <2>1, <2>2, <2>4 DEF Types
    <3> QED
      BY <1>1, <1>3, <1>4, <3>1 DEF Types
  <2>6. ASSUME NEW w \in Workers
        PROVE  WorkerSound(w)'
    <3>1. CASE w = w0
      <4>1. /\ waiting'[w] = left /\ running'[w] = now /\ batch'[w] = new
            /\ status'[w] = "RUNNING"
        BY <1>1, <2>1, <3>1 DEF Types
      <4> QED
        BY <1>6, <2>2, <2>4, <4>1 DEF WorkerSound
    <3>2. CASE w # w0
      <4>1. /\ waiting'[w] = waiting[w] /\ running'[w] = running[w]
            /\ batch'[w] = batch[w] /\ status'[w] = status[w] /\ stepping'[w] = stepping[w]
        BY <1>1, <2>1, <3>2 DEF Types
      <4> QED
        BY <4>1 DEF WorkerSound
    <3> QED
      BY <3>1, <3>2
  <2>7. \A v \in Workers : \A r :
          /\ r \in Range(waiting'[v]) <=> r \in Range(waiting[v]) /\ ~(v = w0 /\ r \in Range(new))
          /\ r \in Range(running'[v]) <=> r \in Range(running[v]) \/ (v = w0 /\ r \in Range(new))
    BY <2>1, <2>2, <2>4 DEF Types
  <2>8. ASSUME NEW r \in Reqs
        PROVE  \E at, w, m : SitsAt(r, at, w, m)'
    <3>1. PICK at, w, m : SitsAt(r, at, w, m)
      BY DEF EachPlaced
    <3>2. CASE r \in Range(new)
      <4>1. at = "waiting" /\ w = w0
        BY <2>2, <3>1, <3>2 DEF SitsAt
      <4>2. SitsAt(r, "running", w0, m)'
        BY <1>1, <2>7, <3>1, <3>2, <4>1 DEF SitsAt, IsDone
      <4> QED
        BY <4>2
    <3>3. CASE r \notin Range(new)
      <4>1. SitsAt(r, at, w, m)'
        BY <1>1, <2>7, <3>1, <3>3 DEF SitsAt, IsDone
      <4> QED
        BY <4>1
    <3> QED
      BY <3>2, <3>3
  <2> QED
    BY <2>5, <2>6, <2>8 DEF EachPlaced
<1>7. CASE new = <<>>
  <2> DEFINE now == Listed(Range(running[w0]))
  <2>1. /\ running' = [running EXCEPT ![w0] = now]
        /\ batch' = [batch EXCEPT ![w0] = running'[w0]]
        /\ waiting' = waiting
    BY <1>5, <1>7 DEF BeginStep
  <2>2. /\ now \in Seq(Reqs) /\ IsInjective(now) /\ Range(now) = Range(running[w0])
    <3>1. Range(running[w0]) \subseteq Reqs
      BY <1>2 DEF Range
    <3>2. Range(running[w0]) \in SUBSET Nat
      BY <3>1, ClusterAssumption DEF Reqs
    <3>3. IsFiniteSet(Range(running[w0]))
      BY <1>2, InjectiveLength
    <3>4. /\ now \in Seq(Range(running[w0])) /\ IsInjective(now)
          /\ Range(now) = Range(running[w0])
      BY <3>2, <3>3, ListedProperties
    <3> HIDE DEF now
    <3> QED
      BY <3>1, <3>4, WiderSeq
  <2> HIDE DEF now
  <2>3. running'[w0] = now /\ batch' = [batch EXCEPT ![w0] = now]
    BY <2>1 DEF Types
  <2>4. Types'
    <3>1. running' \in [Workers -> Seq(Reqs)] /\ batch' \in [Workers -> Seq(Reqs)]
      BY <2>1, <2>2, <2>3 DEF Types
    <3> QED
      BY <1>1, <1>3, <1>4, <2>1, <3>1 DEF Types
  <2>5. ASSUME NEW w \in Workers
        PROVE  WorkerSound(w)'
    <3>1. CASE w = w0
      <4>1. /\ waiting'[w] = waiting[w] /\ running'[w] = now /\ batch'[w] = now
            /\ status'[w] = "RUNNING"
        BY <1>1, <2>1, <2>3, <3>1 DEF Types
      <4> QED
        BY <1>2, <2>2, <3>1, <4>1 DEF WorkerSound
    <3>2. CASE w # w0
      <4>1. /\ waiting'[w] = waiting[w] /\ running'[w] = running[w]
            /\ batch'[w] = batch[w] /\ status'[w] = status[w] /\ stepping'[w] = stepping[w]
        BY <1>1, <2>1, <2>3, <3>2 DEF Types
      <4> QED
        BY <4>1 DEF WorkerSound
    <3> QED
      BY <3>1, <3>2
  <2>6. \A v \in Workers : Range(running'[v]) = Range(running[v])
    BY <2>1, <2>2 DEF Types
  <2>7. ASSUME NEW r \in Reqs
        PROVE  \E at, w, m : SitsAt(r, at, w, m)'
    <3>1. PICK at, w, m : SitsAt(r, at, w, m)
      BY DEF EachPlaced
    <3>2. SitsAt(r, at, w, m)'
      BY <1>1, <2>1, <2>6, <3>1 DEF SitsAt, IsDone
    <3> QED
      BY <3>2
  <2> QED
    BY <2>4, <2>5, <2>7 DEF EachPlaced
<1> QED
  BY <1>6, <1>7

\* A step gives tokens to requests that run, and what is not done runs on.
LEMMA SteppedIs ==
  ASSUME ClusterInv, NEW w0 \in Workers, stepping[w0]
  PROVE  /\ Stepped(w0) \in [Reqs -> Nat]
         /\ \A r \in Reqs : Stepped(w0)[r] <= DecodeLen[r]
         /\ \A r \in Reqs : r \notin Range(running[w0]) => Stepped(w0)[r] = tokens[r]
         /\ NotDone(w0) \in Seq(Reqs) /\ IsInjective(NotDone(w0))
         /\ \A r : r \in Range(NotDone(w0)) <=>
              r \in Range(running[w0]) /\ Stepped(w0)[r] # DecodeLen[r]
         /\ Range(running[w0]) \subseteq Reqs
<1> USE DEF ClusterInv
<1>1. /\ running[w0] \in Seq(Reqs) /\ IsInjective(running[w0])
      /\ Range(batch[w0]) \subseteq Range(running[w0])
  BY DEF Types, WorkerSound
<1>2. Range(running[w0]) \subseteq Reqs
  BY <1>1 DEF Range
<1>3. \A r \in Reqs : /\ tokens[r] \in Nat /\ DecodeLen[r] \in Nat /\ tokens[r] <= DecodeLen[r]
                      /\ Stepped(w0)[r] = TokensAfter(w0, r)
                      /\ tokens[r] + 0 = tokens[r]
  BY ClusterAssumption DEF Types, Stepped
<1>4. ASSUME NEW r \in Range(running[w0])
      PROVE  tokens[r] # DecodeLen[r]
  <2>1. PICK at, w, m : SitsAt(r, at, w, m)
    BY <1>2 DEF EachPlaced
  <2> QED
    BY <1>4, <2>1 DEF SitsAt, IsDone
<1>5. ASSUME NEW r \in Reqs
      PROVE  /\ TokensAfter(w0, r) \in Nat /\ TokensAfter(w0, r) <= DecodeLen[r]
             /\ r \notin Range(running[w0]) => TokensAfter(w0, r) = tokens[r]
  <2>1. CASE r \in Range(batch[w0])
    <3>1. TokensAfter(w0, r) = tokens[r] + 1
      BY <2>1 DEF TokensAfter
    <3>2. r \in Range(running[w0]) /\ tokens[r] # DecodeLen[r]
      BY <1>1, <1>4, <2>1
    <3>3. \A a, b \in Nat : a <= b /\ a # b => a + 1 \in Nat /\ a + 1 <= b
      OBVIOUS
    <3>4. tokens[r] + 1 \in Nat /\ tokens[r] + 1 <= DecodeLen[r]
      BY <1>3, <3>2, <3>3, Zenon
    <3> QED
      BY <3>1, <3>2, <3>4
  <2>2. CASE r \notin Range(batch[w0])
    <3>1. TokensAfter(w0, r) = tokens[r] + 0
      BY <2>2 DEF TokensAfter
    <3>2. TokensAfter(w0, r) = tokens[r]
      BY <1>3, <3>1, Zenon
    <3> QED
      BY <1>3, <3>2, Zenon
  <2> QED
    BY <2>1, <2>2
<1>6. Stepped(w0) = [r \in Reqs |-> TokensAfter(w0, r)]
  BY DEF Stepped
<1>7. /\ NotDone(w0) \in Seq(Reqs) /\ IsInjective(NotDone(w0))
      /\ Range(NotDone(w0)) =
           {r \in Range(running[w0]) : TokensAfter(w0, r) # DecodeLen[r]}
  BY <1>1, NotDoneIs
<1> QED
  BY <1>2, <1>3, <1>5, <1>6, <1>7

\* The end of a step, given what runs on.
LEMMA FinishIs ==
  ASSUME ClusterInv, NEW w0 \in Workers, FinishStep(w0)
  PROVE  \E rest \in Seq(Reqs) :
           /\ IsInjective(rest)
           /\ \A r : r \in Range(rest) <=>
                r \in Range(running[w0]) /\ Stepped(w0)[r] # DecodeLen[r]
           /\ tokens' = Stepped(w0) /\ stepping[w0]
           /\ \/ /\ rest # <<>> /\ Role[w0] = "prefill" /\ Dispatch(rest)
                 /\ running' = [running EXCEPT ![w0] = <<>>]
                 /\ status' = [status EXCEPT ![w0] = RestsAfter(w0, <<>>)]
              \/ /\ rest = <<>> \/ Role[w0] # "prefill"
                 /\ UNCHANGED <<prefillPool, decodePool, dpRank, inbox, kv>>
                 /\ running' = [running EXCEPT ![w0] = rest]
                 /\ status' = [status EXCEPT ![w0] = RestsAfter(w0, rest)]
<1> DEFINE rest == IF batch[w0] = <<>> THEN <<>> ELSE NotDone(w0)
           hands == rest # <<>> /\ Role[w0] = "prefill"
<1>1. /\ stepping[w0] /\ tokens' = Stepped(w0)
      /\ IF hands THEN Dispatch(rest)
         ELSE UNCHANGED <<prefillPool, decodePool, dpRank, inbox, kv>>
      /\ running' = [running EXCEPT ![w0] =
                       IF hands THEN <<>> ELSE IF batch[w0] = <<>> THEN @ ELSE rest]
      /\ status' = [status EXCEPT ![w0] =
                      RestsAfter(w0, IF hands THEN <<>> ELSE rest)]
  BY DEF FinishStep, poolVars
<1>2. /\ NotDone(w0) \in Seq(Reqs) /\ IsInjective(NotDone(w0))
      /\ \A r : r \in Range(NotDone(w0)) <=>
           r \in Range(running[w0]) /\ Stepped(w0)[r] # DecodeLen[r]
  BY <1>1, SteppedIs
<1>3. batch[w0] = <<>> => running[w0] = <<>>
  BY <1>1 DEF ClusterInv, WorkerSound
<1>4. <<>> \in Seq(Reqs) /\ IsInjective(<<>>) /\ Range(<<>>) = {}
  BY DEF IsInjective, Range
<1>5. /\ rest \in Seq(Reqs) /\ IsInjective(rest)
      /\ \A r : r \in Range(rest) <=>
           r \in Range(running[w0]) /\ Stepped(w0)[r] # DecodeLen[r]
  BY <1>2, <1>3, <1>4
<1>6. CASE hands
  <2>1. /\ rest # <<>> /\ Role[w0] = "prefill" /\ Dispatch(rest)
        /\ running' = [running EXCEPT ![w0] = <<>>]
        /\ status' = [status EXCEPT ![w0] = RestsAfter(w0, <<>>)]
    BY <1>1, <1>6
  <2> HIDE DEF rest
  <2> QED
    BY <1>1, <1>5, <2>1
<1>7. CASE ~hands
  <2>1. /\ rest = <<>> \/ Role[w0] # "prefill"
        /\ UNCHANGED <<prefillPool, decodePool, dpRank, inbox, kv>>
        /\ running' = [running EXCEPT ![w0] = rest]
        /\ status' = [status EXCEPT ![w0] = RestsAfter(w0, rest)]
    BY <1>1, <1>3, <1>7
  <2> HIDE DEF rest
  <2> QED
    BY <1>1, <1>5, <2>1
<1> QED
  BY <1>6, <1>7

\* After a step worker w0 is sound with now running.
LEMMA RestsSound ==
  ASSUME ClusterInv, NEW w0 \in Workers, stepping[w0],
         NEW now \in Seq(Reqs), IsInjective(now),
         running' = [running EXCEPT ![w0] = now],
         status' = [status EXCEPT ![w0] = RestsAfter(w0, now)],
         batch' = [batch EXCEPT ![w0] = <<>>],
         stepping' = [stepping EXCEPT ![w0] = FALSE],
         waiting' = waiting
  PROVE  /\ \A w \in Workers : WorkerSound(w)'
         /\ running' \in [Workers -> Seq(Reqs)]
         /\ batch' \in [Workers -> Seq(Reqs)]
         /\ status' \in [Workers -> {"WAITING", "RUNNING", "STOPPED"}]
         /\ stepping' \in [Workers -> BOOLEAN]
<1> USE DEF ClusterInv
<1>1. Range(<<>>) = {} /\ <<>> \in Seq(Reqs)
  BY DEF Range
<1>2. /\ status[w0] = "RUNNING" /\ RestsAfter(w0, now) \in {"WAITING", "RUNNING"}
      /\ RestsAfter(w0, now) = "WAITING" => now = <<>> /\ waiting[w0] = <<>>
  BY DEF WorkerSound, RestsAfter
<1>3. ASSUME NEW w \in Workers
      PROVE  WorkerSound(w)'
  <2>1. CASE w = w0
    <3>1. /\ running'[w] = now /\ status'[w] = RestsAfter(w0, now) /\ batch'[w] = <<>>
          /\ stepping'[w] = FALSE /\ waiting'[w] = waiting[w]
      BY <2>1 DEF Types
    <3>2. IsInjective(waiting[w])
      BY DEF WorkerSound
    <3> QED
      BY <1>1, <1>2, <2>1, <3>1, <3>2 DEF WorkerSound
  <2>2. CASE w # w0
    <3>1. /\ running'[w] = running[w] /\ status'[w] = status[w] /\ batch'[w] = batch[w]
          /\ stepping'[w] = stepping[w] /\ waiting'[w] = waiting[w]
      BY <2>2 DEF Types
    <3> QED
      BY <3>1 DEF WorkerSound
  <2> QED
    BY <2>1, <2>2
<1>4. /\ running' \in [Workers -> Seq(Reqs)] /\ batch' \in [Workers -> Seq(Reqs)]
      /\ status' \in [Workers -> {"WAITING", "RUNNING", "STOPPED"}]
      /\ stepping' \in [Workers -> BOOLEAN]
  BY <1>1, <1>2 DEF Types
<1> QED
  BY <1>3, <1>4

\* Requests that run on stay, and the others of the step are done.
LEMMA StepPlaces ==
  ASSUME ClusterInv, NEW w0 \in Workers, stepping[w0],
         NEW now, running' = [running EXCEPT ![w0] = now],
         \A r : r \in Range(now) <=> r \in Range(running[w0]) /\ Stepped(w0)[r] # DecodeLen[r],
         tokens' = Stepped(w0),
         UNCHANGED <<arrived, waiting, inbox>>, Adds(engineQueue)' = Adds(engineQueue)
  PROVE  EachPlaced'
<1> USE DEF ClusterInv
<1>1. \A v \in Workers : \A r : r \in Range(running'[v]) <=>
        r \in Range(running[v]) /\ ~(v = w0 /\ Stepped(w0)[r] = DecodeLen[r])
  BY DEF Types
<1>2. \A r \in Reqs : r \notin Range(running[w0]) => Stepped(w0)[r] = tokens[r]
  BY SteppedIs
<1>3. ASSUME NEW r \in Reqs
      PROVE  \E at, w, m : SitsAt(r, at, w, m)'
  <2>1. PICK at, w, m : SitsAt(r, at, w, m)
    BY DEF EachPlaced
  <2>2. CASE r \notin Range(running[w0])
    <3>1. tokens'[r] = tokens[r]
      BY <1>2, <2>2
    <3>2. SitsAt(r, at, w, m)'
      BY <1>1, <2>1, <2>2, <3>1 DEF SitsAt, IsDone
    <3> QED
      BY <3>2
  <2>3. CASE r \in Range(running[w0])
    <3>1. at = "running" /\ w = w0
      BY <2>1, <2>3 DEF SitsAt
    <3>2. CASE Stepped(w0)[r] = DecodeLen[r]
      <4>1. SitsAt(r, "done", w, m)'
        BY <1>1, <2>1, <2>3, <3>1, <3>2 DEF SitsAt, IsDone
      <4> QED
        BY <4>1
    <3>3. CASE Stepped(w0)[r] # DecodeLen[r]
      <4>1. SitsAt(r, "running", w, m)'
        BY <1>1, <2>1, <2>3, <3>1, <3>3 DEF SitsAt, IsDone
      <4> QED
        BY <4>1
    <3> QED
      BY <3>2, <3>3
  <2> QED
    BY <2>2, <2>3
<1> QED
  BY <1>3 DEF EachPlaced

\* A part is a message, and says which requests it has.
LEMMA PartMessage ==
  ASSUME NEW part \in Seq(Reqs), part # <<>>, IsInjective(part)
  PROVE  /\ PartAdd(part) \in Messages /\ PartAdd(part).task = "ADD"
         /\ PartAdd(part).requests = part /\ PartAdd(part) # STOP
<1>1. Range(part) \in SUBSET Reqs
  BY DEF Range
<1> QED
  BY <1>1 DEF PartAdd, Add, Messages, Metas, STOP

\* Requests that are handed over go to one inbox each.
LEMMA HandOverPlaces ==
  ASSUME ClusterInv, NEW w0 \in Workers, stepping[w0],
         running' = [running EXCEPT ![w0] = <<>>],
         NEW rest,
         \A r : r \in Range(rest) <=> r \in Range(running[w0]) /\ Stepped(w0)[r] # DecodeLen[r],
         NEW n \in Nat, NEW parts \in [1..n -> Seq(Reqs)], NEW target \in [1..n -> Workers],
         Splits(rest, n, parts), Holds(inbox', n, parts, target),
         tokens' = Stepped(w0),
         UNCHANGED <<arrived, engineQueue, waiting>>
  PROVE  EachPlaced'
<1> USE DEF ClusterInv
<1>1. \A v \in Workers : \A r : r \in Range(running'[v]) <=>
        r \in Range(running[v]) /\ v # w0
  <2>1. Range(<<>>) = {}
    BY DEF Range
  <2> QED
    BY <2>1 DEF Types
<1>2. \A r \in Reqs : r \notin Range(running[w0]) => Stepped(w0)[r] = tokens[r]
  BY SteppedIs
<1>3. \A i \in 1..n : /\ PartAdd(parts[i]).task = "ADD"
                      /\ PartAdd(parts[i]).requests = parts[i]
                      /\ Range(parts[i]) \subseteq Range(rest)
  BY PartMessage DEF Splits
<1>4. \A v \in Workers : \A e : e \in Adds(inbox'[v]) <=>
        \/ e \in Adds(inbox[v])
        \/ \E i \in 1..n : target[i] = v /\ e = PartAdd(parts[i])
  BY <1>3 DEF Holds, Adds
<1>5. Range(rest) \subseteq Range(running[w0])
  OBVIOUS
<1>6. ASSUME NEW r \in Reqs
      PROVE  \E at, w, m : SitsAt(r, at, w, m)'
  <2>1. PICK at, w, m : SitsAt(r, at, w, m)
    BY DEF EachPlaced
  <2>2. CASE r \notin Range(rest)
    <3>1. \A i \in 1..n : r \notin Range(PartAdd(parts[i]).requests)
      BY <1>3, <2>2
    <3>a. \A v \in Workers : \A e \in Adds(inbox'[v]) :
            e \in Adds(inbox[v]) \/ r \notin Range(e.requests)
      <4> SUFFICES ASSUME NEW v \in Workers, NEW e \in Adds(inbox'[v]), e \notin Adds(inbox[v])
                   PROVE  r \notin Range(e.requests)
        OBVIOUS
      <4>1. CASE \E i \in 1..n : target[i] = v /\ e = PartAdd(parts[i])
        BY <3>1, <4>1
      <4> QED
        BY <1>4, <4>1
    <3>b. /\ at = "inbox" => w \in Workers /\ m \in Adds(inbox[w])
          /\ \A v \in Workers : \A e \in Adds(inbox[v]) :
               r \in Range(e.requests) <=> at = "inbox" /\ v = w /\ e = m
      BY <2>1 DEF SitsAt
    <3>c. at = "inbox" => r \in Range(m.requests)
      BY <3>b
    <3>2. CASE r \notin Range(running[w0])
      <4>1. tokens'[r] = tokens[r]
        BY <1>2, <3>2
      <4>2. \A v \in Workers : \A e \in Adds(inbox'[v]) :
              r \in Range(e.requests) <=> at = "inbox" /\ v = w /\ e = m
        BY <3>a, <3>b, <3>c
      <4>3. at = "inbox" => w \in Workers /\ m \in Adds(inbox'[w])
        BY <1>4, <2>1 DEF SitsAt
      <4>4. SitsAt(r, at, w, m)'
        BY <1>1, <2>1, <3>2, <4>1, <4>2, <4>3 DEF SitsAt, IsDone
      <4> QED
        BY <4>4
    <3>3. CASE r \in Range(running[w0])
      <4>1. at = "running" /\ w = w0
        BY <2>1, <3>3 DEF SitsAt
      <4>2. tokens'[r] = DecodeLen[r]
        BY <2>2, <3>3
      <4>3. \A v \in Workers : \A e \in Adds(inbox'[v]) : r \notin Range(e.requests)
        BY <3>a, <3>b, <4>1
      <4>4. SitsAt(r, "done", w, m)'
        BY <1>1, <2>1, <3>3, <4>1, <4>2, <4>3 DEF SitsAt, IsDone
      <4> QED
        BY <4>4
    <3> QED
      BY <3>2, <3>3
  <2>3. CASE r \in Range(rest)
    <3>1. r \in Range(running[w0]) /\ tokens'[r] # DecodeLen[r]
      BY <2>3
    <3>2. at = "running" /\ w = w0
      BY <2>1, <3>1 DEF SitsAt
    <3>3. PICK i \in 1..n : \A j \in 1..n : r \in Range(parts[j]) <=> j = i
      BY <2>3 DEF Splits
    <3>4. PICK to \in Workers : to = target[i]
      OBVIOUS
    <3>5. PICK sent : sent = PartAdd(parts[i])
      OBVIOUS
    <3>6. r \in Range(sent.requests) /\ sent \in Adds(inbox'[to])
      BY <1>3, <1>4, <3>3, <3>4, <3>5
    <3>7. \A v \in Workers : \A e \in Adds(inbox[v]) : r \notin Range(e.requests)
      BY <2>1, <3>2 DEF SitsAt
    <3>8. ASSUME NEW v \in Workers, NEW e \in Adds(inbox'[v])
          PROVE  r \in Range(e.requests) <=> v = to /\ e = sent
      <4>1. CASE e \in Adds(inbox[v])
        BY <3>6, <3>7, <4>1
      <4>2. CASE \E j \in 1..n : target[j] = v /\ e = PartAdd(parts[j])
        <5>1. PICK j \in 1..n : target[j] = v /\ e = PartAdd(parts[j])
          BY <4>2
        <5>2. r \in Range(e.requests) <=> j = i
          BY <1>3, <3>3, <5>1
        <5> QED
          BY <3>4, <3>5, <3>6, <5>1, <5>2
      <4> QED
        BY <1>4, <4>1, <4>2
    <3>9. SitsAt(r, "inbox", to, sent)'
      BY <1>1, <2>1, <3>1, <3>2, <3>6, <3>8 DEF SitsAt, IsDone
    <3> QED
      BY <3>9
  <2> QED
    BY <2>2, <2>3
<1> QED
  BY <1>6 DEF EachPlaced

LEMMA FinishStepKeeps ==
  ASSUME NEW w0 \in Workers
  PROVE  ClusterInv /\ FinishStep(w0) => ClusterInv'
<1> SUFFICES ASSUME ClusterInv, FinishStep(w0)
             PROVE  ClusterInv'
  OBVIOUS
<1>1. /\ batch' = [batch EXCEPT ![w0] = <<>>]
      /\ stepping' = [stepping EXCEPT ![w0] = FALSE]
      /\ UNCHANGED <<arrived, engineQueue, engineUp, pendingMeta, waiting>>
  BY DEF FinishStep, engineVars
<1>2. PICK rest \in Seq(Reqs) :
        /\ IsInjective(rest)
        /\ \A r : r \in Range(rest) <=>
             r \in Range(running[w0]) /\ Stepped(w0)[r] # DecodeLen[r]
        /\ tokens' = Stepped(w0) /\ stepping[w0]
        /\ \/ /\ rest # <<>> /\ Role[w0] = "prefill" /\ Dispatch(rest)
              /\ running' = [running EXCEPT ![w0] = <<>>]
              /\ status' = [status EXCEPT ![w0] = RestsAfter(w0, <<>>)]
           \/ /\ rest = <<>> \/ Role[w0] # "prefill"
              /\ UNCHANGED <<prefillPool, decodePool, dpRank, inbox, kv>>
              /\ running' = [running EXCEPT ![w0] = rest]
              /\ status' = [status EXCEPT ![w0] = RestsAfter(w0, rest)]
  BY FinishIs
<1>3. tokens' \in [Reqs -> Nat] /\ \A r \in Reqs : tokens'[r] <= DecodeLen[r]
  BY <1>2, SteppedIs
<1>4. CASE /\ rest # <<>> /\ Role[w0] = "prefill" /\ Dispatch(rest)
           /\ running' = [running EXCEPT ![w0] = <<>>]
           /\ status' = [status EXCEPT ![w0] = RestsAfter(w0, <<>>)]
  <2>1. <<>> \in Seq(Reqs) /\ IsInjective(<<>>)
    BY DEF IsInjective
  <2>2. /\ \A w \in Workers : WorkerSound(w)'
        /\ running' \in [Workers -> Seq(Reqs)] /\ batch' \in [Workers -> Seq(Reqs)]
        /\ status' \in [Workers -> {"WAITING", "RUNNING", "STOPPED"}]
        /\ stepping' \in [Workers -> BOOLEAN]
    BY <1>1, <1>2, <1>4, <2>1, RestsSound
  <2>3. \A part \in Seq(Reqs) : part # <<>> /\ IsInjective(part) => PartAdd(part) \in Messages
    BY PartMessage
  <2>4. /\ decodePool \in PoolOf(DecodeMembers) /\ dpRank \in [Reqs -> Ranks]
        /\ inbox \in [Workers -> SUBSET Messages]
        /\ Loads \subseteq [Workers -> [active: Nat, memory: Nat]]
    BY LoadTyped DEF ClusterInv, Types
  <2>5. /\ decodePool' \in PoolOf(DecodeMembers) /\ dpRank' \in [Reqs -> Ranks]
        /\ inbox' \in [Workers -> SUBSET Messages]
        /\ prefillPool' = prefillPool
        /\ kv' = [r \in Reqs |-> IF r \in Range(rest) THEN "sent" ELSE kv[r]]
        /\ \E n \in Nat : \E parts \in [1..n -> Seq(Reqs)] : \E target \in [1..n -> Workers] :
             Splits(rest, n, parts) /\ Holds(inbox', n, parts, target)
    BY <1>2, <1>4, <2>3, <2>4, Dispatches
  <2>a. PICK n \in Nat :
          \E parts \in [1..n -> Seq(Reqs)] : \E target \in [1..n -> Workers] :
            Splits(rest, n, parts) /\ Holds(inbox', n, parts, target)
    BY <2>5
  <2>6. PICK parts \in [1..n -> Seq(Reqs)], target \in [1..n -> Workers] :
          Splits(rest, n, parts) /\ Holds(inbox', n, parts, target)
    BY <2>a
  <2>7. EachPlaced'
    BY <1>1, <1>2, <1>4, <2>6, HandOverPlaces
  <2>8. kv' \in [Reqs -> {"none", "sent", "loaded"}]
    BY <2>5 DEF ClusterInv, Types
  <2>9. Types'
    BY <1>1, <1>3, <2>2, <2>5, <2>8 DEF ClusterInv, Types
  <2> QED
    BY <2>2, <2>7, <2>9 DEF ClusterInv
<1>5. CASE /\ rest = <<>> \/ Role[w0] # "prefill"
           /\ UNCHANGED <<prefillPool, decodePool, dpRank, inbox, kv>>
           /\ running' = [running EXCEPT ![w0] = rest]
           /\ status' = [status EXCEPT ![w0] = RestsAfter(w0, rest)]
  <2>1. /\ \A w \in Workers : WorkerSound(w)'
        /\ running' \in [Workers -> Seq(Reqs)] /\ batch' \in [Workers -> Seq(Reqs)]
        /\ status' \in [Workers -> {"WAITING", "RUNNING", "STOPPED"}]
        /\ stepping' \in [Workers -> BOOLEAN]
    BY <1>1, <1>2, <1>5, RestsSound
  <2>2. EachPlaced'
    BY <1>1, <1>2, <1>5, StepPlaces
  <2>3. Types'
    BY <1>1, <1>3, <1>5, <2>1 DEF ClusterInv, Types
  <2> QED
    BY <2>1, <2>2, <2>3 DEF ClusterInv
<1> QED
  BY <1>2, <1>4, <1>5

LEMMA FailStepKeeps ==
  ASSUME NEW w0 \in Workers
  PROVE  ClusterInv /\ FailStep(w0) => ClusterInv'
<1> SUFFICES ASSUME ClusterInv, FailStep(w0)
             PROVE  ClusterInv'
  OBVIOUS
<1>1. PICK rest : rest = NotDone(w0)
  OBVIOUS
<1>l. PICK load \in Loads :
        LET pick == Select(decodePool, dpRank[rest[1]], load)
        IN  /\ decodePool' = pick.pool
            /\ dpRank' = [dpRank EXCEPT ![rest[1]] = Assigned(@, pick.worker, FALSE)]
  BY <1>1 DEF FailStep
<1> DEFINE pick == Select(decodePool, dpRank[rest[1]], load)
<1>2. /\ stepping[w0] /\ rest # <<>>
      /\ tokens' = Stepped(w0)
      /\ running' = [running EXCEPT ![w0] = rest]
      /\ decodePool' = pick.pool
      /\ dpRank' = [dpRank EXCEPT ![rest[1]] = Assigned(@, pick.worker, FALSE)]
      /\ engineQueue' = engineQueue \cup {STOP}
      /\ batch' = [batch EXCEPT ![w0] = <<>>]
      /\ stepping' = [stepping EXCEPT ![w0] = FALSE]
      /\ UNCHANGED <<arrived, engineUp, prefillPool, inbox, pendingMeta, waiting,
                     status, kv>>
  BY <1>1, <1>l DEF FailStep
<1>3. /\ rest \in Seq(Reqs) /\ IsInjective(rest)
      /\ \A r : r \in Range(rest) <=>
           r \in Range(running[w0]) /\ Stepped(w0)[r] # DecodeLen[r]
      /\ tokens' \in [Reqs -> Nat] /\ \A r \in Reqs : tokens'[r] <= DecodeLen[r]
  BY <1>1, <1>2, SteppedIs
<1>4. status' = [status EXCEPT ![w0] = RestsAfter(w0, rest)]
  <2>1. RestsAfter(w0, rest) = status[w0]
    BY <1>2 DEF RestsAfter
  <2> QED
    BY <1>2, <2>1 DEF ClusterInv, Types
<1>5. IsMembers(DecodeMembers) /\ \A v \in Range(DecodeMembers) : v \in Workers
  BY MembersAre
<1>6. load \in [Workers -> [active: Nat, memory: Nat]] /\ decodePool \in PoolOf(DecodeMembers)
  BY LoadTyped DEF ClusterInv, Types
<1>7. pick.worker \in Workers /\ pick.pool \in PoolOf(DecodeMembers)
  BY <1>5, <1>6, Selects
<1>8. rest[1] \in Reqs
  BY <1>2, <1>3, EmptySeq, LenProperties
<1> HIDE DEF pick
<1>9. dpRank' \in [Reqs -> Ranks]
  BY <1>2, <1>7, <1>8, Assigns DEF ClusterInv, Types
<1>10. /\ \A w \in Workers : WorkerSound(w)'
       /\ running' \in [Workers -> Seq(Reqs)] /\ batch' \in [Workers -> Seq(Reqs)]
       /\ status' \in [Workers -> {"WAITING", "RUNNING", "STOPPED"}]
       /\ stepping' \in [Workers -> BOOLEAN]
  BY <1>2, <1>3, <1>4, RestsSound
<1>11. Adds(engineQueue)' = Adds(engineQueue)
  BY <1>2, AddsKept
<1>12. EachPlaced'
  BY <1>2, <1>3, <1>11, StepPlaces
<1>13. Types'
  BY <1>2, <1>3, <1>7, <1>9, <1>10 DEF ClusterInv, Types
<1> QED
  BY <1>10, <1>12, <1>13 DEF ClusterInv

-----------------------------------------------------------------------------
\* The theorems

LEMMA NextKeeps == ClusterInv /\ [Next]_vars => ClusterInv'
<1> SUFFICES ASSUME ClusterInv, [Next]_vars
             PROVE  ClusterInv'
  OBVIOUS
<1>1. CASE Arrive
  BY <1>1, ArriveKeeps
<1>2. CASE EngineStep
  BY <1>2, EngineAddKeeps, EngineStopKeeps DEF EngineStep
<1>3. ASSUME NEW w \in Workers, WorkerStep(w)
      PROVE  ClusterInv'
  BY <1>3, TakeAddKeeps, TakeStopKeeps, BeginStepKeeps, FinishStepKeeps, FailStepKeeps
     DEF WorkerStep
<1>4. CASE UNCHANGED vars
  <2>1. UNCHANGED <<arrived, engineQueue, engineUp, prefillPool, decodePool, dpRank,
                    inbox, pendingMeta, waiting, running, status, batch, stepping,
                    tokens, kv>>
    BY <1>4 DEF vars, engineVars, poolVars, workerVars, requestVars
  <2>2. Types'
    BY <2>1 DEF ClusterInv, Types
  <2>3. \A w \in Workers : WorkerSound(w)'
    BY <2>1 DEF ClusterInv, WorkerSound
  <2>4. ASSUME NEW r \in Reqs
        PROVE  \E at, w, m : SitsAt(r, at, w, m)'
    <3>1. PICK at, w, m : SitsAt(r, at, w, m)
      BY DEF ClusterInv, EachPlaced
    <3>2. SitsAt(r, at, w, m)'
      BY <2>1, <3>1 DEF SitsAt, IsDone
    <3> QED
      BY <3>2
  <2> QED
    BY <2>2, <2>3, <2>4 DEF ClusterInv, EachPlaced
<1> QED
  BY <1>1, <1>2, <1>3, <1>4 DEF Next

\* The inductive invariant of the cluster: types, sound workers, and every
\* request in one place.
THEOREM ClusterInvariant == Spec => []ClusterInv
<1>1. Init => ClusterInv
  BY InitPlaced
<1>2. ClusterInv /\ [Next]_vars => ClusterInv'
  BY NextKeeps
<1> QED
  BY <1>1, <1>2, PTL DEF Spec

\* A worker that waits for messages has nothing to serve: the message loop of
\* LLMWorker loses no wake-up, whatever the roles, the policy and the failures.
THEOREM NobodySleepsOnWork == Spec => []NoSleepWithWork
<1>1. ClusterInv => NoSleepWithWork
  BY DEF ClusterInv, WorkerSound, NoSleepWithWork
<1> QED
  BY <1>1, ClusterInvariant, PTL

\* The places that OneHome counts, and who is there.
LEMMA HomesAre ==
  /\ \A h \in Homes :
       \/ h = Home("source", 0, STOP) \/ h = Home("done", 0, STOP)
       \/ \E e \in Adds(engineQueue) : h = Home("engine", 0, e)
       \/ \E v \in Workers : \E e \in Adds(inbox[v]) :
            h = Home("inbox", v, e)
       \/ \E v \in Workers : h = Home("waiting", v, STOP)
       \/ \E v \in Workers : h = Home("running", v, STOP)
  /\ Home("source", 0, STOP) \in Homes /\ Home("done", 0, STOP) \in Homes
  /\ \A e \in Adds(engineQueue) : Home("engine", 0, e) \in Homes
  /\ \A v \in Workers :
       /\ Home("waiting", v, STOP) \in Homes /\ Home("running", v, STOP) \in Homes
       /\ \A e \in Adds(inbox[v]) : Home("inbox", v, e) \in Homes
<1>1. ASSUME NEW h \in Homes
      PROVE  \/ h = Home("source", 0, STOP) \/ h = Home("done", 0, STOP)
             \/ \E e \in Adds(engineQueue) : h = Home("engine", 0, e)
             \/ \E v \in Workers : \E e \in Adds(inbox[v]) :
                  h = Home("inbox", v, e)
             \/ \E v \in Workers : h = Home("waiting", v, STOP)
             \/ \E v \in Workers : h = Home("running", v, STOP)
  BY DEF Homes
<1>2. Home("source", 0, STOP) \in Homes /\ Home("done", 0, STOP) \in Homes
  BY DEF Homes
<1>3. \A e \in Adds(engineQueue) : Home("engine", 0, e) \in Homes
  BY DEF Homes
<1>4. \A v \in Workers :
        Home("waiting", v, STOP) \in Homes /\ Home("running", v, STOP) \in Homes
  BY DEF Homes
<1>5. \A v \in Workers : \A e \in Adds(inbox[v]) :
        Home("inbox", v, e) \in Homes
  BY DEF Homes
<1> QED
  BY <1>1, <1>2, <1>3, <1>4, <1>5

LEMMA IsAtIs ==
  ASSUME NEW r
  PROVE  /\ IsAt(r, Home("source", 0, STOP)) <=> r > arrived
         /\ IsAt(r, Home("done", 0, STOP)) <=> IsDone(r)
         /\ \A e : IsAt(r, Home("engine", 0, e)) <=> r \in Range(e.requests)
         /\ \A v, e : IsAt(r, Home("inbox", v, e))
                        <=> r \in Range(e.requests)
         /\ \A v : IsAt(r, Home("waiting", v, STOP)) <=> r \in Range(waiting[v])
         /\ \A v : IsAt(r, Home("running", v, STOP)) <=> r \in Range(running[v])
BY DEF IsAt, Home

\* The place of a request is the only one that OneHome counts for it.
LEMMA OneHomeEach ==
  ASSUME NEW r \in Reqs, NEW at, NEW w, NEW m, SitsAt(r, at, w, m)
  PROVE  Cardinality({h \in Homes : IsAt(r, h)}) = 1
<1> DEFINE there == {h \in Homes : IsAt(r, h)}
<1>1. SUFFICES \E home : there = {home}
  BY FS_Singleton
<1>2. SUFFICES \E home \in there : \A h \in there : h = home
  OBVIOUS
<1>3. ASSUME NEW h \in there
      PROVE  \/ at = "source" /\ h = Home("source", 0, STOP)
             \/ at = "done" /\ h = Home("done", 0, STOP)
             \/ at = "engine" /\ h = Home("engine", 0, m)
             \/ at = "inbox" /\ h = Home("inbox", w, m)
             \/ at = "waiting" /\ h = Home("waiting", w, STOP)
             \/ at = "running" /\ h = Home("running", w, STOP)
  <2>1. h \in Homes /\ IsAt(r, h)
    OBVIOUS
  <2>2. CASE h = Home("source", 0, STOP)
    BY <2>1, <2>2, IsAtIs DEF SitsAt
  <2>3. CASE h = Home("done", 0, STOP)
    BY <2>1, <2>3, IsAtIs DEF SitsAt
  <2>4. ASSUME NEW e \in Adds(engineQueue), h = Home("engine", 0, e)
        PROVE  at = "engine" /\ h = Home("engine", 0, m)
    <3>1. r \in Range(e.requests)
      BY <2>1, <2>4 DEF IsAt, Home
    <3>2. at = "engine" /\ e = m
      BY <2>4, <3>1 DEF SitsAt
    <3> QED
      BY <2>4, <3>2
  <2>5. ASSUME NEW v \in Workers, NEW e \in Adds(inbox[v]),
               h = Home("inbox", v, e)
        PROVE  at = "inbox" /\ h = Home("inbox", w, m)
    <3>1. r \in Range(e.requests)
      BY <2>1, <2>5 DEF IsAt, Home
    <3>2. at = "inbox" /\ e = m /\ v = w
      BY <2>5, <3>1 DEF SitsAt
    <3> QED
      BY <2>5, <3>2
  <2>6. ASSUME NEW v \in Workers, h = Home("waiting", v, STOP)
        PROVE  at = "waiting" /\ h = Home("waiting", w, STOP)
    <3>1. r \in Range(waiting[v])
      BY <2>1, <2>6 DEF IsAt, Home
    <3>2. at = "waiting" /\ v = w
      BY <2>6, <3>1 DEF SitsAt
    <3> QED
      BY <2>6, <3>2
  <2>7. ASSUME NEW v \in Workers, h = Home("running", v, STOP)
        PROVE  at = "running" /\ h = Home("running", w, STOP)
    <3>1. r \in Range(running[v])
      BY <2>1, <2>7 DEF IsAt, Home
    <3>2. at = "running" /\ v = w
      BY <2>7, <3>1 DEF SitsAt
    <3> QED
      BY <2>7, <3>2
  <2> QED
    BY <2>1, <2>2, <2>3, <2>4, <2>5, <2>6, <2>7, HomesAre
<1>4. \E home \in there : TRUE
  <2>1. CASE at = "source"
    BY <2>1, HomesAre, IsAtIs DEF SitsAt
  <2>2. CASE at = "done"
    BY <2>2, HomesAre, IsAtIs DEF SitsAt
  <2>3. CASE at = "engine"
    BY <2>3, HomesAre, IsAtIs DEF SitsAt
  <2>4. CASE at = "inbox"
    BY <2>4, HomesAre, IsAtIs, ZenonT(60) DEF SitsAt
  <2>5. CASE at = "waiting"
    BY <2>5, HomesAre, IsAtIs DEF SitsAt
  <2>6. CASE at = "running"
    BY <2>6, HomesAre, IsAtIs DEF SitsAt
  <2> QED
    BY <2>1, <2>2, <2>3, <2>4, <2>5, <2>6 DEF SitsAt
<1> HIDE DEF there
<1> QED
  BY <1>3, <1>4

LEMMA InvKeeps == ClusterInv => RequestsKept
<1> SUFFICES ASSUME ClusterInv
             PROVE  RequestsKept
  OBVIOUS
<1> USE DEF ClusterInv
<1>1. \A m \in engineQueue : m = STOP \/ m \in Messages
  <2>1. \A r \in Reqs : Add(<<r>>, NoMeta) \in Messages
    BY SingleAdd
  <2> QED
    BY <2>1, ZenonT(60) DEF Types
<1>2. \A w \in Workers : \A m \in inbox[w] : m \in Messages
  BY DEF Types
<1>3. ASSUME NEW m \in Messages
      PROVE  /\ m = STOP \/ (m.task = "ADD" /\ Len(m.requests) > 0)
             /\ m.task = "ADD" => IsInjective(m.requests)
  <2>1. CASE m = STOP
    BY <2>1 DEF STOP
  <2>2. CASE m # STOP
    <3>1. m.task = "ADD"
      BY <2>2 DEF Messages
    <3>2. m.requests \in Seq(Reqs) /\ m.requests # <<>> /\ IsInjective(m.requests)
      BY <3>1, MessageIs
    <3>3. Len(m.requests) > 0
      BY <3>2, EmptySeq, LenProperties
    <3> QED
      BY <3>1, <3>2, <3>3
  <2> QED
    BY <2>1, <2>2
<1>4. TypeOK
  <2>1. \A m \in engineQueue \cup UNION {inbox[w] : w \in Workers} :
          m = STOP \/ (m.task = "ADD" /\ Len(m.requests) > 0)
    BY <1>1, <1>2, <1>3
  <2>2. \A r \in Reqs : tokens[r] \in 0..DecodeLen[r]
    BY ClusterAssumption DEF Types
  <2>3. \A w \in Workers : /\ Range(batch[w]) \subseteq Range(running[w])
                           /\ status[w] \in {"WAITING", "RUNNING", "STOPPED"}
                           /\ pendingMeta[w] \in {NoMeta} \cup SUBSET Reqs
    BY DEF Types, WorkerSound, Metas
  <2> QED
    BY <2>1, <2>2, <2>3 DEF Types, TypeOK, Ranks
<1>5. OneHome
  <2>1. \A r \in Reqs : Cardinality({h \in Homes : IsAt(r, h)}) = 1
    BY OneHomeEach DEF EachPlaced
  <2>2. \A m \in Adds(engineQueue) : IsInjective(m.requests)
    BY <1>1, <1>3 DEF Adds, STOP
  <2>3. \A w \in Workers : /\ IsInjective(waiting[w]) /\ IsInjective(running[w])
                           /\ \A m \in Adds(inbox[w]) : IsInjective(m.requests)
    BY <1>2, <1>3 DEF Adds, WorkerSound
  <2> QED
    BY <2>1, <2>2, <2>3 DEF OneHome
<1> QED
  BY <1>4, <1>5 DEF RequestsKept

\* No request is lost or duplicated on its way through the engine's queue, the
\* inboxes, the schedulers' lists and the hand-over in parts, also when the
\* hand-over raises; and none gets more tokens than it asked for.
THEOREM RequestsAreKept == Spec => []RequestsKept
BY ClusterInvariant, InvKeeps, PTL

-----------------------------------------------------------------------------
\* Places

AtEngine(r) == \E m \in Adds(engineQueue) : r \in Range(m.requests)

\* Place is what the lists and messages say, for each request one answer.
PlacesKnown ==
  \A r \in Reqs :
    /\ Place(r) \in {Source, Done, Engine} \cup Workers
    /\ Place(r) = Source <=> r > arrived
    /\ Place(r) = Done <=> IsDone(r)
    /\ Place(r) = Engine <=> AtEngine(r)
    /\ \A w \in Workers : Place(r) = w <=> Serves(w, r)

LEMMA PlacesApart ==
  /\ Source # Done /\ Source # Engine /\ Done # Engine
  /\ \A w \in Workers : w # Source /\ w # Done /\ w # Engine
BY ClusterAssumption

LEMMA PlacesAre == ClusterInv => PlacesKnown
<1> SUFFICES ASSUME ClusterInv, NEW r \in Reqs
             PROVE  /\ Place(r) \in {Source, Done, Engine} \cup Workers
                    /\ Place(r) = Source <=> r > arrived
                    /\ Place(r) = Done <=> IsDone(r)
                    /\ Place(r) = Engine <=> AtEngine(r)
                    /\ \A w \in Workers : Place(r) = w <=> Serves(w, r)
  BY DEF PlacesKnown
<1>1. PICK at, w0, m : SitsAt(r, at, w0, m)
  BY DEF ClusterInv, EachPlaced
<1>2. /\ r > arrived <=> at = "source"
      /\ IsDone(r) <=> at = "done"
      /\ AtEngine(r) <=> at = "engine"
      /\ at \in {"source", "done", "engine", "inbox", "waiting", "running"}
  BY <1>1 DEF SitsAt, AtEngine
<1>3. \A w \in Workers : Serves(w, r) <=> at \in {"inbox", "waiting", "running"} /\ w = w0
  BY <1>1 DEF SitsAt, Serves
<1>4. at \in {"inbox", "waiting", "running"} => w0 \in Workers
  BY <1>1 DEF SitsAt
<1>5. CASE at \in {"inbox", "waiting", "running"}
  <2>1. Place(r) = CHOOSE w \in Workers : Serves(w, r)
    BY <1>2, <1>5 DEF Place, AtEngine
  <2>2. Place(r) = w0
    BY <1>3, <1>4, <1>5, <2>1
  <2> QED
    BY <1>2, <1>3, <1>4, <1>5, <2>2, PlacesApart
<1>6. CASE at = "source"
  <2>1. Place(r) = Source
    BY <1>2, <1>6 DEF Place
  <2> QED
    BY <1>2, <1>3, <1>6, <2>1, PlacesApart
<1>7. CASE at = "done"
  <2>1. Place(r) = Done
    BY <1>2, <1>7 DEF Place
  <2> QED
    BY <1>2, <1>3, <1>7, <2>1, PlacesApart
<1>8. CASE at = "engine"
  <2>1. Place(r) = Engine
    BY <1>2, <1>8 DEF Place, AtEngine
  <2> QED
    BY <1>2, <1>3, <1>8, <2>1, PlacesApart
<1> QED
  BY <1>2, <1>5, <1>6, <1>7, <1>8

LEMMA PlacesBefore == ClusterInv /\ [Next]_vars => PlacesKnown /\ PlacesKnown'
BY PlacesAre, NextKeeps, PTL

\* A request that is where it was has the same place.
LEMMA Stays ==
  ASSUME PlacesKnown, PlacesKnown', NEW r \in Reqs,
         r > arrived => r > arrived', IsDone(r) => IsDone(r)',
         AtEngine(r) => AtEngine(r)', \A w \in Workers : Serves(w, r) => Serves(w, r)'
  PROVE  Place(r)' = Place(r)
<1>1. /\ Place(r) \in {Source, Done, Engine} \cup Workers
      /\ Place(r) = Source => r > arrived
      /\ Place(r) = Done => IsDone(r)
      /\ Place(r) = Engine => AtEngine(r)
      /\ \A w \in Workers : Place(r) = w => Serves(w, r)
  BY DEF PlacesKnown
<1>2. /\ r > arrived' => Place(r)' = Source
      /\ IsDone(r)' => Place(r)' = Done
      /\ AtEngine(r)' => Place(r)' = Engine
      /\ \A w \in Workers : Serves(w, r)' => Place(r)' = w
  BY DEF PlacesKnown
<1> QED
  BY <1>1, <1>2

-----------------------------------------------------------------------------
\* What the steps do to places, tokens and ranks

\* Request r0 goes to place p, the engine or a worker that prefills and was
\* selected for it.
GoesTo(r0, p) ==
  /\ Place(r0)' = p /\ \A r \in Reqs \ {r0} : Place(r)' = Place(r)
  /\ UNCHANGED <<tokens, running, batch>>
  /\ \/ p = Engine /\ UNCHANGED <<prefillPool, dpRank>>
     \/ /\ p \in Range(PrefillMembers) /\ DpRank[p] \in Nat
        /\ \E load \in Loads : prefillPool' = Select(prefillPool, dpRank[r0], load).pool
        /\ dpRank' = [dpRank EXCEPT ![r0] = Assigned(@, p, TRUE)]

\* Nothing moves.
NoMove ==
  /\ \A r \in Reqs : Place(r)' = Place(r)
  /\ UNCHANGED <<tokens, prefillPool, dpRank>>

\* Sending a request to a worker that prefills.
LEMMA SendMoves ==
  ASSUME ClusterInv, PlacesKnown', NEW r0 \in Reqs, SendToPrefill(r0),
         UNCHANGED <<tokens, running, batch, waiting>>,
         \A r \in Reqs \ {r0} : Place(r)' = Place(r)
  PROVE  \E p \in Range(PrefillMembers) : GoesTo(r0, p)
<1>l. PICK load \in Loads :
        LET pick == Select(prefillPool, dpRank[r0], load)
        IN  /\ prefillPool' = pick.pool
            /\ dpRank' = [dpRank EXCEPT ![r0] = Assigned(@, pick.worker, TRUE)]
            /\ inbox' = [inbox EXCEPT ![pick.worker] = @ \cup {Add(<<r0>>, NoMeta)}]
  BY DEF SendToPrefill
<1> DEFINE pick == Select(prefillPool, dpRank[r0], load)
<1>1. /\ prefillPool' = pick.pool
      /\ dpRank' = [dpRank EXCEPT ![r0] = Assigned(@, pick.worker, TRUE)]
      /\ inbox' = [inbox EXCEPT ![pick.worker] = @ \cup {Add(<<r0>>, NoMeta)}]
  BY <1>l
<1>2. IsMembers(PrefillMembers) /\ \A v \in Range(PrefillMembers) : v \in Workers
  BY MembersAre
<1>3. load \in [Workers -> [active: Nat, memory: Nat]] /\ prefillPool \in PoolOf(PrefillMembers)
  BY LoadTyped DEF ClusterInv, Types
<1>4. pick.worker \in Range(PrefillMembers)
  BY <1>2, <1>3, Selects
<1>5. PICK p \in Range(PrefillMembers) : p = pick.worker
  BY <1>4
<1>6. Add(<<r0>>, NoMeta).task = "ADD" /\ Range(Add(<<r0>>, NoMeta).requests) = {r0}
  BY SingleAdd
<1> HIDE DEF pick
<1>7. Add(<<r0>>, NoMeta) \in Adds(inbox'[p])
  BY <1>1, <1>2, <1>5, <1>6 DEF ClusterInv, Types, Adds
<1>8. Serves(p, r0)'
  BY <1>6, <1>7 DEF Serves
<1>9. p \in Workers /\ DpRank[p] \in Nat
  BY <1>2, ClusterAssumption
<1>10. Place(r0)' = p
  BY <1>8, <1>9 DEF PlacesKnown
<1>11. GoesTo(r0, p)
  BY <1>1, <1>5, <1>9, <1>10 DEF GoesTo, pick
<1> QED
  BY <1>11

LEMMA ArriveMoves ==
  ASSUME ClusterInv, PlacesKnown, PlacesKnown', Arrive
  PROVE  \E r0 \in Reqs : Place(r0) = Source /\
           \E p \in {Engine} \cup Range(PrefillMembers) : GoesTo(r0, p)
<1>1. /\ arrived + 1 \in Reqs /\ arrived' = arrived + 1 /\ arrived \in Nat
      /\ UNCHANGED <<tokens, running, batch, waiting>>
  BY ClusterAssumption DEF ClusterInv, Types, Arrive, Reqs, requestVars
<1>2. PICK r0 \in Reqs : r0 = arrived + 1
  BY <1>1
<1>3. Place(r0) = Source
  <2>1. r0 > arrived
    BY <1>1, <1>2
  <2> QED
    BY <2>1 DEF PlacesKnown
<1>4. \A r \in Reqs \ {r0} : r > arrived => r > arrived'
  <2>1. \A a, b \in Nat : b > a /\ b # a + 1 => b > a + 1
    OBVIOUS
  <2>2. \A r \in Reqs : r \in Nat
    BY DEF Reqs
  <2> QED
    BY <1>1, <1>2, <2>1, <2>2, Zenon
<1>5. \A r \in Reqs : IsDone(r) => IsDone(r)'
  BY <1>1 DEF IsDone
<1>6. CASE Burst
  <2>1. SendToPrefill(r0) /\ engineQueue' = engineQueue
    BY <1>1, <1>2, <1>6 DEF Arrive
  <2>2. \A w \in Workers : Adds(inbox[w]) \subseteq Adds(inbox'[w])
    BY <2>1 DEF SendToPrefill, ClusterInv, Types, Adds
  <2>3. \A w \in Workers : \A r \in Reqs : Serves(w, r) => Serves(w, r)'
    BY <1>1, <2>2 DEF Serves
  <2>4. \A r \in Reqs : AtEngine(r) => AtEngine(r)'
    BY <2>1 DEF AtEngine
  <2>5. \A r \in Reqs \ {r0} : Place(r)' = Place(r)
    BY <1>4, <1>5, <2>3, <2>4, Stays
  <2> QED
    BY <1>1, <1>3, <2>1, <2>5, SendMoves
<1>7. CASE ~Burst
  <2>1. /\ engineQueue' = engineQueue \cup {Add(<<r0>>, NoMeta)}
        /\ UNCHANGED <<prefillPool, dpRank, inbox>>
    BY <1>1, <1>2, <1>7 DEF Arrive, poolVars
  <2>2. Add(<<r0>>, NoMeta).task = "ADD" /\ Range(Add(<<r0>>, NoMeta).requests) = {r0}
    BY SingleAdd
  <2>3. AtEngine(r0)' /\ \A r \in Reqs : AtEngine(r) => AtEngine(r)'
    BY <2>1, <2>2 DEF AtEngine, Adds
  <2>4. \A w \in Workers : \A r \in Reqs : Serves(w, r) => Serves(w, r)'
    BY <1>1, <2>1 DEF Serves
  <2>5. \A r \in Reqs \ {r0} : Place(r)' = Place(r)
    BY <1>4, <1>5, <2>3, <2>4, Stays
  <2>6. Place(r0)' = Engine
    BY <2>3 DEF PlacesKnown
  <2>7. GoesTo(r0, Engine)
    BY <1>1, <2>1, <2>5, <2>6 DEF GoesTo
  <2> QED
    BY <1>3, <2>7
<1> QED
  BY <1>6, <1>7

LEMMA EngineAddMoves ==
  ASSUME ClusterInv, PlacesKnown, PlacesKnown', EngineAdd
  PROVE  \E r0 \in Reqs : Place(r0) = Engine /\ \E p \in Range(PrefillMembers) : GoesTo(r0, p)
<1>1. PICK m0 \in Adds(engineQueue) :
        engineQueue' = engineQueue \ {m0} /\ SendToPrefill(m0.requests[1])
  BY DEF EngineAdd
<1>2. PICK r0 \in Reqs : m0 = Add(<<r0>>, NoMeta)
  <2>1. engineQueue \subseteq {STOP} \cup {Add(<<r>>, NoMeta) : r \in Reqs}
    BY DEF ClusterInv, Types
  <2>2. m0 \in engineQueue /\ m0 # STOP
    BY DEF Adds, STOP
  <2> QED
    BY <2>1, <2>2
<1>3. m0.requests[1] = r0 /\ Range(m0.requests) = {r0}
  BY <1>2, SingleAdd
<1>4. UNCHANGED <<arrived, waiting, running, batch, tokens>>
  BY DEF EngineAdd, requestVars
<1>5. Place(r0) = Engine
  <2>1. AtEngine(r0)
    BY <1>3 DEF AtEngine
  <2> QED
    BY <2>1 DEF PlacesKnown
<1>6. SendToPrefill(r0)
  BY <1>1, <1>3
<1>7. \A r \in Reqs \ {r0} : AtEngine(r) => AtEngine(r)'
  BY <1>1, <1>3 DEF AtEngine, Adds
<1>8. \A w \in Workers : Adds(inbox[w]) \subseteq Adds(inbox'[w])
  BY <1>6 DEF SendToPrefill, ClusterInv, Types, Adds
<1>9. \A w \in Workers : \A r \in Reqs : Serves(w, r) => Serves(w, r)'
  BY <1>4, <1>8 DEF Serves
<1>10. \A r \in Reqs \ {r0} : Place(r)' = Place(r)
  BY <1>4, <1>7, <1>9, Stays DEF IsDone
<1> QED
  BY <1>4, <1>5, <1>6, <1>10, SendMoves

LEMMA EngineStopMoves ==
  ASSUME ClusterInv, PlacesKnown, PlacesKnown', EngineStop
  PROVE  NoMove /\ UNCHANGED <<running, batch>>
<1>1. /\ engineQueue' = engineQueue \ {STOP}
      /\ inbox' = [w \in Workers |-> inbox[w] \cup {STOP}]
      /\ UNCHANGED <<arrived, prefillPool, dpRank, waiting, running, batch, tokens>>
  BY DEF EngineStop, Broadcast, poolVars, requestVars
<1>2. Adds(engineQueue)' = Adds(engineQueue) /\ \A v \in Workers : Adds(inbox'[v]) = Adds(inbox[v])
  BY <1>1, AddsKept
<1>3. \A r \in Reqs : AtEngine(r) => AtEngine(r)'
  BY <1>2 DEF AtEngine
<1>4. \A w \in Workers : \A r \in Reqs : Serves(w, r) => Serves(w, r)'
  BY <1>1, <1>2 DEF Serves
<1>5. \A r \in Reqs : Place(r)' = Place(r)
  BY <1>1, <1>3, <1>4, Stays DEF IsDone
<1> QED
  BY <1>1, <1>5 DEF NoMove

LEMMA TakeAddMoves ==
  ASSUME ClusterInv, PlacesKnown, PlacesKnown', NEW w0 \in Workers, TakeAdd(w0)
  PROVE  NoMove /\ UNCHANGED <<running, batch>>
<1>1. PICK m0 \in Adds(inbox[w0]) :
        /\ inbox' = [inbox EXCEPT ![w0] = @ \ {m0}]
        /\ waiting' = [waiting EXCEPT ![w0] = @ \o m0.requests]
  BY DEF TakeAdd
<1>2. UNCHANGED <<arrived, engineQueue, prefillPool, dpRank, running, batch, tokens>>
  BY DEF TakeAdd, engineVars, poolVars, requestVars
<1>3. m0 \in Messages /\ m0.task = "ADD"
  BY <1>1 DEF ClusterInv, Types, Adds
<1>4. m0.requests \in Seq(Reqs) /\ waiting[w0] \in Seq(Reqs)
  BY <1>3, MessageIs DEF ClusterInv, Types
<1>5. PICK now : now = waiting[w0] \o m0.requests
  OBVIOUS
<1>6. Range(now) = Range(waiting[w0]) \cup Range(m0.requests)
  BY <1>4, <1>5, ConcatRange
<1>7. waiting' = [waiting EXCEPT ![w0] = now]
  BY <1>1, <1>5
<1>8. ASSUME NEW w \in Workers, NEW r \in Reqs, Serves(w, r)
      PROVE  Serves(w, r)'
  <2>1. CASE w = w0
    <3>1. waiting'[w] = now
      BY <1>7, <2>1 DEF ClusterInv, Types
    <3>2. \A m \in Adds(inbox[w]) : m = m0 \/ m \in Adds(inbox'[w])
      BY <1>1, <2>1 DEF ClusterInv, Types, Adds
    <3> QED
      BY <1>2, <1>6, <1>8, <2>1, <3>1, <3>2 DEF Serves
  <2>2. CASE w # w0
    <3>1. waiting'[w] = waiting[w] /\ inbox'[w] = inbox[w]
      BY <1>1, <1>7, <2>2 DEF ClusterInv, Types
    <3> QED
      BY <1>2, <1>8, <3>1 DEF Serves
  <2> QED
    BY <2>1, <2>2
<1>9. \A r \in Reqs : Place(r)' = Place(r)
  BY <1>2, <1>8, Stays DEF IsDone, AtEngine
<1> QED
  BY <1>2, <1>9 DEF NoMove

LEMMA TakeStopMoves ==
  ASSUME ClusterInv, PlacesKnown, PlacesKnown', NEW w0 \in Workers, TakeStop(w0)
  PROVE  NoMove /\ UNCHANGED <<running, batch>>
<1>1. /\ inbox[w0] = {STOP} /\ inbox' = [inbox EXCEPT ![w0] = {}]
      /\ UNCHANGED <<arrived, engineQueue, prefillPool, dpRank, waiting, running, batch, tokens>>
  BY DEF TakeStop, engineVars, poolVars, requestVars
<1>2. \A v \in Workers : Adds(inbox'[v]) = Adds(inbox[v])
  BY <1>1 DEF ClusterInv, Types, Adds, STOP
<1>3. \A w \in Workers : \A r \in Reqs : Serves(w, r) => Serves(w, r)'
  BY <1>1, <1>2 DEF Serves
<1>4. \A r \in Reqs : Place(r)' = Place(r)
  BY <1>1, <1>3, Stays DEF IsDone, AtEngine
<1> QED
  BY <1>1, <1>4 DEF NoMove

\* A prefill worker runs nothing but the batch of its step, and nobody has a
\* batch between two steps.
BatchWhole ==
  \A w \in Workers :
    /\ ~stepping[w] => batch[w] = <<>>
    /\ Role[w] = "prefill" => Range(running[w]) \subseteq Range(batch[w])

LEMMA BeginStepMoves ==
  ASSUME ClusterInv, PlacesKnown, PlacesKnown', NEW w0 \in Workers, BeginStep(w0)
  PROVE  NoMove /\ (BatchWhole => BatchWhole')
<1>1. /\ UNCHANGED <<arrived, engineQueue, prefillPool, dpRank, inbox, tokens>>
      /\ stepping' = [stepping EXCEPT ![w0] = TRUE] /\ stepping[w0] = FALSE
  BY DEF BeginStep, Listening, engineVars, poolVars, ClusterInv, Types
<1>2. /\ waiting[w0] \in Seq(Reqs) /\ IsInjective(waiting[w0])
      /\ running[w0] \in Seq(Reqs) /\ IsInjective(running[w0])
  BY DEF ClusterInv, Types, WorkerSound
<1>3. PICK new : new = Admitted(w0)
  OBVIOUS
<1>4. \E now \in Seq(Reqs), left \in Seq(Reqs), chosen \in Seq(Reqs) :
        /\ waiting' = [waiting EXCEPT ![w0] = left] /\ running' = [running EXCEPT ![w0] = now]
        /\ batch' = [batch EXCEPT ![w0] = chosen]
        /\ Range(waiting[w0]) \cup Range(running[w0]) \subseteq Range(left) \cup Range(now)
        /\ Range(now) \subseteq Range(running[w0]) \cup Range(chosen)
  <2>1. CASE new # <<>>
    <3> DEFINE left == SubSeq(waiting[w0], Len(new) + 1, Len(waiting[w0]))
               now == running[w0] \o new
    <3>1. /\ waiting' = [waiting EXCEPT ![w0] = left]
          /\ running' = [running EXCEPT ![w0] = now]
          /\ batch' = [batch EXCEPT ![w0] = new]
      BY <1>3, <2>1 DEF BeginStep
    <3>2. /\ new \in Seq(Reqs) /\ left \in Seq(Reqs)
          /\ Range(waiting[w0]) = Range(new) \cup Range(left)
      BY <1>2, <1>3, AdmittedIs
    <3> HIDE DEF left
    <3>3. now \in Seq(Reqs) /\ Range(now) = Range(running[w0]) \cup Range(new)
      BY <1>2, <3>2, ConcatRange
    <3> HIDE DEF now
    <3>4. /\ Range(waiting[w0]) \cup Range(running[w0]) \subseteq Range(left) \cup Range(now)
          /\ Range(now) \subseteq Range(running[w0]) \cup Range(new)
      BY <3>2, <3>3
    <3> QED
      BY <3>1, <3>2, <3>3, <3>4
  <2>2. CASE new = <<>>
    <3> DEFINE now == Listed(Range(running[w0]))
    <3>1. /\ running' = [running EXCEPT ![w0] = now]
          /\ batch' = [batch EXCEPT ![w0] = running'[w0]]
          /\ waiting' = waiting
      BY <1>3, <2>2 DEF BeginStep
    <3>2. now \in Seq(Reqs) /\ Range(now) = Range(running[w0])
      <4>1. Range(running[w0]) \subseteq Reqs
        BY <1>2 DEF Range
      <4>2. Range(running[w0]) \in SUBSET Nat
        BY <4>1, ClusterAssumption DEF Reqs
      <4>3. IsFiniteSet(Range(running[w0]))
        BY <1>2, InjectiveLength
      <4>4. now \in Seq(Range(running[w0])) /\ Range(now) = Range(running[w0])
        BY <4>2, <4>3, ListedProperties
      <4> HIDE DEF now
      <4> QED
        BY <4>1, <4>4, WiderSeq
    <3> HIDE DEF now
    <3>3. batch' = [batch EXCEPT ![w0] = now]
      BY <3>1 DEF ClusterInv, Types
    <3>4. waiting' = [waiting EXCEPT ![w0] = waiting[w0]]
      BY <3>1 DEF ClusterInv, Types
    <3> QED
      BY <1>2, <3>1, <3>2, <3>3, <3>4
  <2> QED
    BY <2>1, <2>2
<1>5. PICK now \in Seq(Reqs), left \in Seq(Reqs), chosen \in Seq(Reqs) :
        /\ waiting' = [waiting EXCEPT ![w0] = left] /\ running' = [running EXCEPT ![w0] = now]
        /\ batch' = [batch EXCEPT ![w0] = chosen]
        /\ Range(waiting[w0]) \cup Range(running[w0]) \subseteq Range(left) \cup Range(now)
        /\ Range(now) \subseteq Range(running[w0]) \cup Range(chosen)
  BY <1>4
<1>6. ASSUME NEW w \in Workers
      PROVE  IF w = w0 THEN waiting'[w] = left /\ running'[w] = now /\ batch'[w] = chosen
             ELSE waiting'[w] = waiting[w] /\ running'[w] = running[w] /\ batch'[w] = batch[w]
  BY <1>5 DEF ClusterInv, Types
<1>7. \A w \in Workers : \A r \in Reqs : Serves(w, r) => Serves(w, r)'
  <2> SUFFICES ASSUME NEW w \in Workers, NEW r \in Reqs, Serves(w, r)
               PROVE  Serves(w, r)'
    OBVIOUS
  <2>1. r \in Range(waiting[w]) \cup Range(running[w])
          => r \in Range(waiting'[w]) \cup Range(running'[w])
    BY <1>5, <1>6
  <2> QED
    BY <1>1, <2>1 DEF Serves
<1>8. \A r \in Reqs : Place(r)' = Place(r)
  BY <1>1, <1>7, Stays DEF IsDone, AtEngine
<1>9. ASSUME BatchWhole
      PROVE  BatchWhole'
  <2> SUFFICES ASSUME NEW w \in Workers
               PROVE  /\ ~stepping'[w] => batch'[w] = <<>>
                      /\ Role[w] = "prefill" => Range(running'[w]) \subseteq Range(batch'[w])
    BY DEF BatchWhole
  <2>1. CASE w = w0
    <3>1. stepping'[w] = TRUE
      BY <1>1, <2>1 DEF ClusterInv, Types
    <3>2. Role[w] = "prefill" => Range(running[w]) \subseteq Range(<<>>)
      BY <1>1, <1>9, <2>1 DEF BatchWhole
    <3>3. Range(<<>>) = {}
      BY DEF Range
    <3> QED
      BY <1>5, <1>6, <2>1, <3>1, <3>2, <3>3
  <2>2. CASE w # w0
    <3>1. stepping'[w] = stepping[w]
      BY <1>1, <2>2 DEF ClusterInv, Types
    <3> QED
      BY <1>6, <1>9, <2>2, <3>1 DEF BatchWhole
  <2> QED
    BY <2>1, <2>2
<1> QED
  BY <1>1, <1>8, <1>9 DEF NoMove

\* What a step's end does to the requests that ran: done ones leave, those of a
\* prefill worker go to a worker that decodes, the others run on.
Finishes(w0) ==
  /\ tokens' = Stepped(w0) /\ prefillPool' = prefillPool
  /\ \A r \in Reqs :
       IF r \notin Range(running[w0]) THEN Place(r)' = Place(r)
       ELSE IF tokens'[r] = DecodeLen[r] THEN Place(r)' = Done
       ELSE IF Role[w0] # "prefill" THEN Place(r)' = w0
       ELSE /\ Place(r)' \in Range(DecodeMembers)
            /\ \A g : SameGroup(running[w0], g) => DpRank[Place(r)'] = g
  /\ \A g : SameGroup(running[w0], g) => dpRank' = dpRank
  /\ Role[w0] # "prefill" \/ ~DataParallel => dpRank' = dpRank
  /\ \A r \in Reqs \ Range(running[w0]) : dpRank'[r] = dpRank[r]

LEMMA FinishMoves ==
  ASSUME ClusterInv, PlacesKnown, PlacesKnown', NEW w0 \in Workers, FinishStep(w0)
  PROVE  Finishes(w0) /\ (BatchWhole => BatchWhole')
<1>1. /\ batch' = [batch EXCEPT ![w0] = <<>>]
      /\ stepping' = [stepping EXCEPT ![w0] = FALSE]
      /\ UNCHANGED <<arrived, engineQueue, waiting>>
  BY DEF FinishStep, engineVars
<1>2. PICK rest \in Seq(Reqs) :
        /\ IsInjective(rest)
        /\ \A r : r \in Range(rest) <=>
             r \in Range(running[w0]) /\ Stepped(w0)[r] # DecodeLen[r]
        /\ tokens' = Stepped(w0) /\ stepping[w0]
        /\ \/ /\ rest # <<>> /\ Role[w0] = "prefill" /\ Dispatch(rest)
              /\ running' = [running EXCEPT ![w0] = <<>>]
              /\ status' = [status EXCEPT ![w0] = RestsAfter(w0, <<>>)]
           \/ /\ rest = <<>> \/ Role[w0] # "prefill"
              /\ UNCHANGED <<prefillPool, decodePool, dpRank, inbox, kv>>
              /\ running' = [running EXCEPT ![w0] = rest]
              /\ status' = [status EXCEPT ![w0] = RestsAfter(w0, rest)]
  BY FinishIs
<1>3. PICK ran : ran = Range(running[w0])
  OBVIOUS
<1>4. PICK now \in Seq(Reqs) : /\ running' = [running EXCEPT ![w0] = now]
                               /\ Role[w0] = "prefill" => now = <<>>
  <2>1. <<>> \in Seq(Reqs)
    OBVIOUS
  <2> QED
    BY <1>2, <2>1
<1>5. \A r \in Reqs : r \notin ran => tokens'[r] = tokens[r]
  BY <1>2, <1>3, SteppedIs
<1>6. \A r \in Reqs : r \in ran => r \in Range(rest) \/ tokens'[r] = DecodeLen[r]
  BY <1>2, <1>3
<1>7. ran \subseteq Reqs
  BY <1>2, <1>3, SteppedIs
<1>8. ASSUME BatchWhole
      PROVE  BatchWhole'
  <2> SUFFICES ASSUME NEW w \in Workers
               PROVE  /\ ~stepping'[w] => batch'[w] = <<>>
                      /\ Role[w] = "prefill" => Range(running'[w]) \subseteq Range(batch'[w])
    BY DEF BatchWhole
  <2>1. CASE w = w0
    <3>1. batch'[w] = <<>> /\ running'[w] = now
      BY <1>1, <1>4, <2>1 DEF ClusterInv, Types
    <3> QED
      BY <1>4, <2>1, <3>1
  <2>2. CASE w # w0
    <3>1. /\ stepping'[w] = stepping[w] /\ batch'[w] = batch[w] /\ running'[w] = running[w]
      BY <1>1, <1>4, <2>2 DEF ClusterInv, Types
    <3> QED
      BY <1>8, <2>2, <3>1 DEF BatchWhole
  <2> QED
    BY <2>1, <2>2
<1>9. ASSUME \A w \in Workers : Adds(inbox[w]) \subseteq Adds(inbox'[w])
      PROVE  \A r \in Reqs : r \notin ran => Place(r)' = Place(r)
  <2> SUFFICES ASSUME NEW r \in Reqs, r \notin ran
               PROVE  Place(r)' = Place(r)
    OBVIOUS
  <2>1. \A w \in Workers : r \in Range(running[w]) => r \in Range(running'[w])
    BY <1>3, <1>4 DEF ClusterInv, Types
  <2>2. \A w \in Workers : Serves(w, r) => Serves(w, r)'
    BY <1>1, <1>9, <2>1 DEF Serves
  <2>3. IsDone(r) => IsDone(r)'
    BY <1>5 DEF IsDone
  <2> QED
    BY <1>1, <2>2, <2>3, Stays DEF AtEngine
<1>10. \A r \in Reqs : tokens'[r] = DecodeLen[r] => Place(r)' = Done
  BY DEF PlacesKnown, IsDone
<1>11. CASE /\ rest # <<>> /\ Role[w0] = "prefill" /\ Dispatch(rest)
            /\ running' = [running EXCEPT ![w0] = <<>>]
            /\ status' = [status EXCEPT ![w0] = RestsAfter(w0, <<>>)]
  <2>1. \A part \in Seq(Reqs) : part # <<>> /\ IsInjective(part) => PartAdd(part) \in Messages
    BY PartMessage
  <2>2. /\ decodePool \in PoolOf(DecodeMembers) /\ dpRank \in [Reqs -> Ranks]
        /\ inbox \in [Workers -> SUBSET Messages]
        /\ Loads \subseteq [Workers -> [active: Nat, memory: Nat]]
    BY LoadTyped DEF ClusterInv, Types
  <2>3. ASSUME NEW g
        PROVE  /\ inbox' \in [Workers -> SUBSET Messages] /\ prefillPool' = prefillPool
               /\ SameGroup(rest, g) \/ ~DataParallel => dpRank' = dpRank
               /\ \A r \in Reqs \ Range(rest) : dpRank'[r] = dpRank[r]
               /\ \E n \in Nat : \E parts \in [1..n -> Seq(Reqs)] : \E target \in [1..n -> Workers] :
                    /\ Splits(rest, n, parts) /\ Holds(inbox', n, parts, target)
                    /\ \A i \in 1..n : /\ target[i] \in Range(DecodeMembers)
                                       /\ SameGroup(rest, g) => DpRank[target[i]] = g
    BY <1>2, <1>11, <2>1, <2>2, Dispatches
  <2>4. ASSUME NEW g
        PROVE  /\ \A w \in Workers : Adds(inbox[w]) \subseteq Adds(inbox'[w])
               /\ \A r \in Range(rest) :
                    /\ Place(r)' \in Range(DecodeMembers)
                    /\ SameGroup(rest, g) => DpRank[Place(r)'] = g
    <3>1. PICK n \in Nat :
            \E parts \in [1..n -> Seq(Reqs)] : \E target \in [1..n -> Workers] :
              /\ Splits(rest, n, parts) /\ Holds(inbox', n, parts, target)
              /\ \A i \in 1..n : /\ target[i] \in Range(DecodeMembers)
                                 /\ SameGroup(rest, g) => DpRank[target[i]] = g
      BY <2>3
    <3>2. PICK parts \in [1..n -> Seq(Reqs)], target \in [1..n -> Workers] :
            /\ Splits(rest, n, parts) /\ Holds(inbox', n, parts, target)
            /\ \A i \in 1..n : /\ target[i] \in Range(DecodeMembers)
                               /\ SameGroup(rest, g) => DpRank[target[i]] = g
      BY <3>1
    <3>3. \A w \in Workers : Adds(inbox[w]) \subseteq Adds(inbox'[w])
      BY <3>2 DEF Holds, Adds
    <3>4. ASSUME NEW r \in Range(rest)
          PROVE  /\ Place(r)' \in Range(DecodeMembers)
                 /\ SameGroup(rest, g) => DpRank[Place(r)'] = g
      <4>1. r \in Reqs
        BY <1>2, <1>3, <1>7
      <4>2. PICK i \in 1..n : r \in Range(parts[i])
        BY <3>2 DEF Splits
      <4>3. /\ PartAdd(parts[i]).task = "ADD" /\ PartAdd(parts[i]).requests = parts[i]
        BY <3>2, PartMessage DEF Splits
      <4>4. PartAdd(parts[i]) \in Adds(inbox'[target[i]])
        BY <3>2, <4>3 DEF Holds, Adds
      <4>5. PICK w \in Workers : w = target[i]
        OBVIOUS
      <4>6. Serves(w, r)'
        BY <4>2, <4>3, <4>4, <4>5 DEF Serves
      <4>7. Place(r)' = w
        BY <4>1, <4>6 DEF PlacesKnown
      <4> QED
        BY <3>2, <4>5, <4>7
    <3> QED
      BY <3>3, <3>4
  <2>5. \A g : SameGroup(running[w0], g) => SameGroup(rest, g)
    BY <1>2 DEF SameGroup
  <2>6. /\ \A g : SameGroup(running[w0], g) => dpRank' = dpRank
        /\ ~DataParallel => dpRank' = dpRank
        /\ prefillPool' = prefillPool
        /\ \A r \in Reqs \ Range(running[w0]) : dpRank'[r] = dpRank[r]
    BY <1>2, <2>3, <2>5
  <2>7. \A r \in Reqs : r \notin ran => Place(r)' = Place(r)
    BY <1>9, <2>4
  <2>8. \A r \in Range(rest) : /\ Place(r)' \in Range(DecodeMembers)
                               /\ \A g : SameGroup(running[w0], g) => DpRank[Place(r)'] = g
    BY <2>4, <2>5
  <2> QED
    BY <1>2, <1>3, <1>6, <1>8, <1>10, <1>11, <2>6, <2>7, <2>8 DEF Finishes
<1>12. CASE /\ rest = <<>> \/ Role[w0] # "prefill"
            /\ UNCHANGED <<prefillPool, decodePool, dpRank, inbox, kv>>
            /\ running' = [running EXCEPT ![w0] = rest]
            /\ status' = [status EXCEPT ![w0] = RestsAfter(w0, rest)]
  <2>1. \A r \in Reqs : r \notin ran => Place(r)' = Place(r)
    BY <1>9, <1>12
  <2>2. ASSUME NEW r \in Range(rest), r \in Reqs
        PROVE  Place(r)' = w0
    <3>1. Serves(w0, r)'
      BY <1>12 DEF Serves, ClusterInv, Types
    <3> QED
      BY <2>2, <3>1 DEF PlacesKnown
  <2>3. Range(<<>>) = {}
    BY DEF Range
  <2>4. \A r \in Range(rest) : Role[w0] # "prefill"
    BY <1>12, <2>3
  <2> QED
    BY <1>2, <1>3, <1>6, <1>8, <1>10, <1>12, <2>1, <2>2, <2>4 DEF Finishes
<1> QED
  BY <1>2, <1>11, <1>12

-----------------------------------------------------------------------------
\* The tokens of a request fit its place: none before its prefill, at least one
\* at a worker that only decodes.
TokensFit ==
  \A r \in Reqs :
    /\ Place(r) \in {Source, Engine} => tokens[r] = 0
    /\ \A w \in Workers : Place(r) = w =>
         /\ Role[w] = "prefill" => tokens[r] = 0
         /\ Role[w] = "decode" => tokens[r] > 0

FlowInv == BatchWhole /\ TokensFit

\* The step of the abstract specification.
FlowStep == Flow!FlowNext \/ UNCHANGED (Flow!flowVars)

LEMMA PrefillersAre == /\ Range(PrefillMembers) \subseteq Flow!Prefillers
                       /\ Range(DecodeMembers) \subseteq Flow!Decoders
<1>1. \A w \in Workers : Role[w] \in {"prefill", "decode", "hybrid"}
  BY ClusterAssumption
<1> QED
  BY <1>1, MembersAre DEF Flow!Prefillers, Flow!Decoders

LEMMA NoMoveFits ==
  ASSUME NoMove
  PROVE  UNCHANGED (Flow!flowVars) /\ (TokensFit => TokensFit')
BY DEF NoMove, TokensFit, Flow!flowVars

\* One request goes from the source or the engine to the engine or a worker.
LEMMA GoesToFits ==
  ASSUME NEW r0 \in Reqs, NEW p, GoesTo(r0, p),
         Place(r0) = Source \/ (Place(r0) = Engine /\ p \in Range(PrefillMembers)),
         p \in {Engine} \cup Range(PrefillMembers)
  PROVE  Flow!FlowNext /\ (TokensFit => TokensFit')
<1>1. /\ Place(r0)' = p /\ \A r \in Reqs \ {r0} : Place(r)' = Place(r)
      /\ tokens' = tokens
  BY DEF GoesTo
<1>2. [r \in Reqs |-> Place(r)]' = [[r \in Reqs |-> Place(r)] EXCEPT ![r0] = p]
  BY <1>1
<1>3. Flow!Arrives(r0) \/ Flow!IsRouted(r0)
  BY <1>1, <1>2, PrefillersAre DEF Flow!Arrives, Flow!IsRouted
<1>4. ASSUME TokensFit
      PROVE  TokensFit'
  <2>1. tokens[r0] = 0
    BY <1>4 DEF TokensFit
  <2>2. p \in Workers => Role[p] # "decode"
    BY PlacesApart, MembersAre
  <2> QED
    BY <1>1, <1>4, <2>1, <2>2 DEF TokensFit
<1> QED
  BY <1>3, <1>4 DEF Flow!FlowNext

\* The end of a step gives the batch its tokens and sends on what is prefilled.
LEMMA FinishFits ==
  ASSUME ClusterInv, PlacesKnown, FlowInv, NEW w0 \in Workers, Finishes(w0)
  PROVE  FlowStep /\ TokensFit'
<1> DEFINE R == Range(batch[w0])
           at == [r \in Reqs |-> Place(r)]
           done == {r \in R : tokens'[r] = DecodeLen[r]}
           rest == {r \in R \ done : Role[w0] = "prefill"}
<1>1. R \subseteq Range(running[w0]) /\ Range(running[w0]) \subseteq Reqs
  <2>1. R \subseteq Range(running[w0]) /\ running[w0] \in Seq(Reqs)
    BY DEF ClusterInv, Types, WorkerSound
  <2>2. \A s \in Seq(Reqs) : Range(s) \subseteq Reqs
    BY DEF Range
  <2> QED
    BY <2>1, <2>2, Zenon
<1>2. \A r \in Range(running[w0]) : Place(r) = w0
  BY <1>1 DEF PlacesKnown, Serves
<1>3. /\ \A r \in Reqs : tokens[r] \in Nat
      /\ tokens' = [r \in Reqs |-> tokens[r] + IF r \in R THEN 1 ELSE 0]
  BY DEF ClusterInv, Types, Finishes, Stepped, TokensAfter
<1>4. \A r \in Range(running[w0]) : ~IsDone(r)
  BY <1>1, <1>2, PlacesApart DEF PlacesKnown
<1>5. \A r \in Range(running[w0]) \ R : Role[w0] # "prefill" /\ tokens'[r] # DecodeLen[r]
  <2>1. \A n \in Nat : n + 0 = n
    OBVIOUS
  <2> QED
    BY <1>1, <1>3, <1>4, <2>1 DEF FlowInv, BatchWhole, IsDone
<1>6. \A r \in Reqs : Place(r)' = IF r \in done THEN Done
                                 ELSE IF r \in rest THEN Place(r)' ELSE Place(r)
  BY <1>1, <1>2, <1>5 DEF Finishes
<1>7. \A r \in rest : Place(r)' \in Range(DecodeMembers)
  BY <1>1 DEF Finishes
<1>8. FlowStep
  <2>1. CASE R = {}
    <3>1. \A r \in Reqs : Place(r)' = Place(r)
      BY <1>6, <2>1
    <3>2. \A r \in Reqs : tokens'[r] = tokens[r]
      <4>1. \A n \in Nat : n + 0 = n
        OBVIOUS
      <4> QED
        BY <1>3, <2>1, <4>1
    <3>3. tokens' = tokens
      BY <1>3, <3>2 DEF ClusterInv, Types
    <3> QED
      BY <3>1, <3>3 DEF FlowStep, Flow!flowVars
  <2>2. CASE R # {}
    <3>1. \A r \in R : /\ at[r] = w0
                       /\ Role[w0] = "prefill" => tokens[r] = 0
                       /\ Role[w0] = "decode" => tokens[r] > 0
      BY <1>1, <1>2 DEF FlowInv, TokensFit
    <3> DEFINE target == [r \in rest |-> Place(r)']
    <3>2. target \in [rest -> Flow!Decoders]
      BY <1>7, PrefillersAre
    <3>3. at' = [r \in Reqs |-> IF r \in done THEN Done
                                ELSE IF r \in rest THEN target[r] ELSE at[r]]
      BY <1>6
    <3>4. Flow!Generates(w0, R)
      BY <1>3, <2>2, <3>1, <3>2, <3>3 DEF Flow!Generates
    <3> QED
      BY <1>1, <3>4 DEF FlowStep, Flow!FlowNext
  <2> QED
    BY <2>1, <2>2
<1>9. TokensFit'
  <2> SUFFICES ASSUME NEW r \in Reqs
               PROVE  /\ Place(r)' \in {Source, Engine} => tokens'[r] = 0
                      /\ \A w \in Workers : Place(r)' = w =>
                           /\ Role[w] = "prefill" => tokens'[r] = 0
                           /\ Role[w] = "decode" => tokens'[r] > 0
    BY DEF TokensFit
  <2>1. /\ r \notin R => tokens'[r] = tokens[r]
        /\ r \in R => tokens'[r] > 0
    <3>1. \A n \in Nat : n + 0 = n /\ n + 1 > 0
      OBVIOUS
    <3> QED
      BY <1>3, <3>1
  <2>2. CASE r \in done
    BY <1>6, <2>2, PlacesApart
  <2>3. CASE r \in rest
    BY <1>7, <2>1, <2>3, PlacesApart, MembersAre
  <2>4. CASE r \notin done /\ r \notin rest
    <3>1. Place(r)' = Place(r)
      BY <1>6, <2>4
    <3>2. r \in R => Place(r) = w0 /\ Role[w0] # "prefill"
      BY <1>1, <1>2, <2>4
    <3>3. CASE r \in R
      BY <2>1, <3>1, <3>2, <3>3, PlacesApart
    <3>4. CASE r \notin R
      BY <2>1, <3>1, <3>4 DEF FlowInv, TokensFit
    <3> QED
      BY <3>3, <3>4
  <2> QED
    BY <2>2, <2>3, <2>4
<1> QED
  BY <1>8, <1>9

LEMMA FlowKeeps ==
  ASSUME ClusterInv, PlacesKnown, PlacesKnown', FlowInv, ~DispatchFails, [Next]_vars
  PROVE  FlowStep /\ FlowInv'
<1>1. ASSUME UNCHANGED <<running, batch, stepping>>
      PROVE  BatchWhole'
  BY <1>1 DEF FlowInv, BatchWhole
<1>2. CASE Arrive
  <2>1. stepping' = stepping
    BY <1>2 DEF Arrive
  <2>2. PICK r0 \in Reqs : Place(r0) = Source /\
          \E p \in {Engine} \cup Range(PrefillMembers) : GoesTo(r0, p)
    BY <1>2, ArriveMoves
  <2>3. PICK p \in {Engine} \cup Range(PrefillMembers) : GoesTo(r0, p)
    BY <2>2
  <2>4. UNCHANGED <<running, batch>>
    BY <2>3 DEF GoesTo
  <2>5. Flow!FlowNext /\ (TokensFit => TokensFit')
    BY <2>2, <2>3, GoesToFits
  <2> QED
    BY <1>1, <2>1, <2>4, <2>5 DEF FlowStep, FlowInv
<1>3. CASE EngineAdd
  <2>1. stepping' = stepping
    BY <1>3 DEF EngineAdd
  <2>2. PICK r0 \in Reqs : Place(r0) = Engine /\ \E p \in Range(PrefillMembers) : GoesTo(r0, p)
    BY <1>3, EngineAddMoves
  <2>3. PICK p \in Range(PrefillMembers) : GoesTo(r0, p)
    BY <2>2
  <2>4. UNCHANGED <<running, batch>>
    BY <2>3 DEF GoesTo
  <2>5. Flow!FlowNext /\ (TokensFit => TokensFit')
    BY <2>2, <2>3, GoesToFits
  <2> QED
    BY <1>1, <2>1, <2>4, <2>5 DEF FlowStep, FlowInv
<1>4. CASE EngineStop
  <2>1. stepping' = stepping
    BY <1>4 DEF EngineStop
  <2>2. NoMove /\ UNCHANGED <<running, batch>>
    BY <1>4, EngineStopMoves
  <2> QED
    BY <1>1, <2>1, <2>2, NoMoveFits DEF FlowStep, FlowInv
<1>5. ASSUME NEW w \in Workers, WorkerStep(w)
      PROVE  FlowStep /\ FlowInv'
  <2>1. CASE TakeAdd(w)
    <3>1. stepping' = stepping
      BY <2>1 DEF TakeAdd
    <3>2. NoMove /\ UNCHANGED <<running, batch>>
      BY <2>1, TakeAddMoves
    <3> QED
      BY <1>1, <3>1, <3>2, NoMoveFits DEF FlowStep, FlowInv
  <2>2. CASE TakeStop(w)
    <3>1. stepping' = stepping
      BY <2>2 DEF TakeStop
    <3>2. NoMove /\ UNCHANGED <<running, batch>>
      BY <2>2, TakeStopMoves
    <3> QED
      BY <1>1, <3>1, <3>2, NoMoveFits DEF FlowStep, FlowInv
  <2>3. CASE BeginStep(w)
    <3>1. NoMove /\ (BatchWhole => BatchWhole')
      BY <2>3, BeginStepMoves
    <3> QED
      BY <3>1, NoMoveFits DEF FlowStep, FlowInv
  <2>4. CASE FinishStep(w)
    <3>1. Finishes(w) /\ (BatchWhole => BatchWhole')
      BY <2>4, FinishMoves
    <3>2. FlowStep /\ TokensFit'
      BY <3>1, FinishFits
    <3> QED
      BY <3>1, <3>2 DEF FlowInv
  <2>5. CASE FailStep(w)
    BY <2>5 DEF FailStep
  <2> QED
    BY <1>5, <2>1, <2>2, <2>3, <2>4, <2>5 DEF WorkerStep
<1>6. CASE UNCHANGED vars
  <2>1. UNCHANGED <<arrived, engineQueue, prefillPool, dpRank, inbox, waiting, running, batch,
                    stepping, tokens>>
    BY <1>6 DEF vars, engineVars, poolVars, workerVars, requestVars
  <2>2. \A r \in Reqs : Place(r)' = Place(r)
    BY <2>1, Stays DEF IsDone, AtEngine, Serves
  <2>3. NoMove
    BY <2>1, <2>2 DEF NoMove
  <2> QED
    BY <1>1, <2>1, <2>3, NoMoveFits DEF FlowStep, FlowInv
<1> QED
  BY <1>2, <1>3, <1>4, <1>5, <1>6 DEF Next, EngineStep

LEMMA FlowBegins == Init => Flow!FlowInit /\ FlowInv
<1> SUFFICES ASSUME Init
             PROVE  Flow!FlowInit /\ FlowInv
  OBVIOUS
<1>1. arrived = 0 /\ tokens = [r \in Reqs |-> 0]
  BY DEF Init
<1>2. ASSUME NEW r \in Reqs
      PROVE  Place(r) = Source
  <2>1. r > arrived
    BY <1>1 DEF Reqs
  <2> QED
    BY <2>1 DEF Place
<1>3. TokensFit
  BY <1>1, <1>2, PlacesApart DEF TokensFit
<1>4. BatchWhole
  BY DEF Init, BatchWhole, Range
<1> QED
  BY <1>1, <1>2, <1>3, <1>4 DEF Flow!FlowInit, FlowInv

\* As long as hand-overs do not raise, every step of the cluster is a step of
\* RequestFlow or leaves it alone, whatever the roles, the policy and the order
\* of messages: a request is passed on only by a worker of the right role, and
\* each step of a worker gives one token to each request of its batch.
THEOREM ClusterImplementsFlow ==
  ASSUME ~DispatchFails
  PROVE  Spec => Flow!FlowInit /\ [][Flow!FlowNext]_(Flow!flowVars)
<1>1. Init => Flow!FlowInit /\ FlowInv
  BY FlowBegins
<1>2. ClusterInv /\ FlowInv /\ [Next]_vars => FlowInv' /\ [Flow!FlowNext]_(Flow!flowVars)
  <2>1. ClusterInv /\ FlowInv /\ [Next]_vars => PlacesKnown /\ PlacesKnown'
    BY PlacesBefore
  <2> QED
    BY <2>1, FlowKeeps DEF FlowStep
<1> QED
  BY <1>1, <1>2, ClusterInvariant, PTL DEF Spec

-----------------------------------------------------------------------------
\* The groups of data parallelism

\* The pool has dealt its requests to its groups in turn: the groups before the
\* next one have had one more than the others.
Dealt(p) ==
  \E c \in Nat : \A i \in 1..Len(p.groups) :
    p.counts[p.groups[i]] = c + IF i =< p.nextGroup THEN 1 ELSE 0

\* A choice in a group changes no more than the group's cursor.
LEMMA PicksKeep ==
  ASSUME NEW ms, NEW pool \in PoolOf(ms), NEW g, NEW load
  PROVE  LET after == PickIn(pool, g, load).pool
         IN  after.counts = pool.counts /\ after.nextGroup = pool.nextGroup
BY DEF PickIn, PoolOf

\* The turn goes to the next group, which gets a placement.
Advances(ms, pool, after) ==
  /\ after.nextGroup = (pool.nextGroup + 1) % Len(Groups(ms))
  /\ after.counts = [pool.counts EXCEPT ![Groups(ms)[pool.nextGroup + 1]] = @ + 1]

\* A request without a group gets the next one.
LEMMA SelectsNext ==
  ASSUME NEW ms, IsMembers(ms), NEW pool \in PoolOf(ms), NEW rank,
         DataParallel => rank \notin Range(Groups(ms)),
         NEW load \in [Workers -> [active: Nat, memory: Nat]]
  PROVE  Advances(ms, pool, Select(pool, rank, load).pool)
<1> DEFINE ranks == Range(Groups(ms))
           k == (pool.nextGroup + 1) % Len(Groups(ms))
           turned == [pool EXCEPT !.nextGroup = k]
           h == Groups(ms)[pool.nextGroup + 1]
           picked == PickIn(turned, h, load)
           g == IF DataParallel THEN DpRank[picked.worker] ELSE 0
<1>1. /\ DOMAIN pool.cursor = ranks /\ pool.groups = Groups(ms)
      /\ pool.nextGroup \in Nat /\ pool.nextGroup < Len(Groups(ms))
  BY DEF PoolOf
<1>2. Len(Groups(ms)) \in Nat \ {0} /\ Groups(ms) \in Seq(Nat)
  BY GroupsAre
<1>3. Select(pool, rank, load) = [picked EXCEPT !.pool.counts[g] = @ + 1]
  BY <1>1 DEF Select, PickNext
<1>4. k \in Nat /\ k < Len(Groups(ms))
  BY <1>1, <1>2
<1>5. h \in ranks
  BY <1>1, <1>2 DEF Range
<1> HIDE DEF k, h
<1>6. turned \in PoolOf(ms)
  BY <1>4 DEF PoolOf
<1>7. turned.nextGroup = k /\ turned.counts = pool.counts
  BY DEF PoolOf
<1> HIDE DEF turned
<1>8. /\ picked = [worker |-> picked.worker, pool |-> picked.pool]
      /\ picked.worker \in Range(GroupMembers(ms, h))
      /\ picked.pool \in PoolOf(ms)
  BY <1>5, <1>6, Picks
<1>9. picked.pool.counts = pool.counts /\ picked.pool.nextGroup = k
  BY <1>6, <1>7, PicksKeep
<1>10. g = h
  BY <1>5, <1>8, GroupsAre
<1> DEFINE q == picked.pool
<1> HIDE DEF picked, g
<1>11. Select(pool, rank, load).pool = [q EXCEPT !.counts[g] = @ + 1]
  BY <1>3, <1>8
<1>12. q \in PoolOf(ms) /\ q.counts = pool.counts /\ q.nextGroup = k
  BY <1>8, <1>9
<1> HIDE DEF q
<1>13. /\ [q EXCEPT !.counts[g] = @ + 1].nextGroup = q.nextGroup
       /\ [q EXCEPT !.counts[g] = @ + 1].counts = [q.counts EXCEPT ![g] = @ + 1]
  BY <1>12 DEF PoolOf
<1> QED
  BY <1>10, <1>11, <1>12, <1>13 DEF k, h, Advances

LEMMA DealtOn ==
  ASSUME NEW ms, IsMembers(ms), NEW pool \in PoolOf(ms), NEW after \in PoolOf(ms), Dealt(pool),
         Advances(ms, pool, after)
  PROVE  Dealt(after)
<1> DEFINE n == Len(Groups(ms))
           k == pool.nextGroup
<1>1. /\ k \in Nat /\ k < n /\ pool.groups = Groups(ms) /\ after.groups = Groups(ms)
      /\ pool.counts \in [Range(Groups(ms)) -> Nat]
  BY DEF PoolOf
<1>2. n \in Nat \ {0} /\ Groups(ms) \in Seq(Nat) /\ IsInjective(Groups(ms))
  BY GroupsAre
<1>3. PICK c \in Nat : \A i \in 1..n :
        pool.counts[Groups(ms)[i]] = c + IF i =< k THEN 1 ELSE 0
  BY <1>1 DEF Dealt
<1>4. /\ \A i \in 1..n : Groups(ms)[i] \in Range(Groups(ms))
      /\ \A i, j \in 1..n : Groups(ms)[i] = Groups(ms)[j] => i = j
  BY <1>2 DEF Range, IsInjective
<1>5. k + 1 \in 1..n
  BY <1>1, <1>2
<1>6. \A i \in 1..n : after.counts[Groups(ms)[i]] =
                        IF i = k + 1 THEN pool.counts[Groups(ms)[i]] + 1
                        ELSE pool.counts[Groups(ms)[i]]
  BY <1>1, <1>4, <1>5 DEF Advances
<1>7. \A i \in 1..n : after.counts[Groups(ms)[i]] = c + IF i =< k + 1 THEN 1 ELSE 0
  <2> SUFFICES ASSUME NEW i \in 1..n
               PROVE  after.counts[Groups(ms)[i]] = c + IF i =< k + 1 THEN 1 ELSE 0
    OBVIOUS
  <2>1. CASE i = k + 1
    <3>1. pool.counts[Groups(ms)[i]] = c + 0
      BY <1>1, <1>3, <2>1
    <3> QED
      BY <1>1, <1>6, <2>1, <3>1
  <2>2. CASE i # k + 1
    <3>1. i =< k <=> i =< k + 1
      BY <1>1, <1>2, <2>2
    <3>2. after.counts[Groups(ms)[i]] = pool.counts[Groups(ms)[i]]
      BY <1>6, <2>2
    <3> QED
      BY <1>3, <3>1, <3>2
  <2> QED
    BY <2>1, <2>2
<1>a. /\ after.groups = Groups(ms) /\ after.nextGroup = (k + 1) % n
      /\ k \in Nat /\ n \in Nat \ {0} /\ k + 1 \in 1..n
  BY <1>1, <1>2, <1>5 DEF Advances
<1>b. ASSUME NEW d \in Nat,
             \A i \in 1..n : after.counts[Groups(ms)[i]] =
                            d + IF i =< after.nextGroup THEN 1 ELSE 0
      PROVE  Dealt(after)
  BY <1>a, <1>b, Zenon DEF Dealt
<1> HIDE DEF n, k
<1>8. CASE k + 1 < n
  <2>1. after.nextGroup = k + 1
    BY <1>a, <1>8
  <2> QED
    BY <1>7, <1>b, <2>1
<1>9. CASE k + 1 = n
  <2>1. after.nextGroup = 0
    BY <1>a, <1>9
  <2>2. \A i \in 1..n : after.counts[Groups(ms)[i]] = (c + 1) + IF i =< 0 THEN 1 ELSE 0
    <3>1. \A i \in 1..n : i =< n /\ ~(i =< 0)
      BY <1>a
    <3>2. c + 1 = (c + 1) + 0
      OBVIOUS
    <3> QED
      BY <1>7, <1>9, <3>1, <3>2
  <2>3. c + 1 \in Nat
    OBVIOUS
  <2> QED
    BY <1>b, <2>1, <2>2, <2>3
<1>10. k + 1 < n \/ k + 1 = n
  BY <1>a
<1> QED
  BY <1>8, <1>9, <1>10

\* A failed hand-over: done requests leave, the others stay where they ran, and
\* none has a new group that had one.
Fails(w0) ==
  /\ prefillPool' = prefillPool
  /\ \A r \in Reqs \ Range(running[w0]) : Place(r)' = Place(r) /\ dpRank'[r] = dpRank[r]
  /\ \A r \in Range(running[w0]) : Place(r)' \in {Done, w0}
  /\ (\A r \in Range(running[w0]) : dpRank[r] # NoRank) \/ ~DataParallel => dpRank' = dpRank

LEMMA FailMoves ==
  ASSUME ClusterInv, PlacesKnown, PlacesKnown', NEW w0 \in Workers, FailStep(w0)
  PROVE  Fails(w0)
<1>1. PICK rest : rest = NotDone(w0)
  OBVIOUS
<1>2. PICK v : dpRank' = [dpRank EXCEPT ![rest[1]] = Assigned(@, v, FALSE)]
  BY <1>1 DEF FailStep
<1>3. /\ stepping[w0] /\ rest # <<>>
      /\ tokens' = Stepped(w0)
      /\ running' = [running EXCEPT ![w0] = rest]
      /\ dpRank' = [dpRank EXCEPT ![rest[1]] = Assigned(@, v, FALSE)]
      /\ engineQueue' = engineQueue \cup {STOP}
      /\ UNCHANGED <<arrived, prefillPool, inbox, waiting>>
  BY <1>1, <1>2 DEF FailStep
<1>4. /\ rest \in Seq(Reqs)
      /\ \A r : r \in Range(rest) <=>
           r \in Range(running[w0]) /\ Stepped(w0)[r] # DecodeLen[r]
      /\ \A r \in Reqs : r \notin Range(running[w0]) => Stepped(w0)[r] = tokens[r]
      /\ Range(running[w0]) \subseteq Reqs
  BY <1>1, <1>3, SteppedIs
<1>5. rest[1] \in Range(rest)
  <2>1. 1 \in DOMAIN rest
    BY <1>3, <1>4, EmptySeq, LenProperties
  <2> QED
    BY <2>1 DEF Range
<1>6. rest[1] \in Range(running[w0]) /\ rest[1] \in Reqs
  BY <1>4, <1>5
<1>7. \A r \in Reqs \ Range(running[w0]) : dpRank'[r] = dpRank[r]
  BY <1>3, <1>6 DEF ClusterInv, Types
<1>8. dpRank[rest[1]] # NoRank \/ ~DataParallel => dpRank' = dpRank
  BY <1>3 DEF Assigned, ClusterInv, Types
<1>9. Adds(engineQueue)' = Adds(engineQueue)
  BY <1>3, AddsKept
<1>10. ASSUME NEW r \in Reqs, r \notin Range(running[w0])
       PROVE  Place(r)' = Place(r)
  <2>1. \A w \in Workers : r \in Range(running[w]) => r \in Range(running'[w])
    BY <1>3, <1>10 DEF ClusterInv, Types
  <2>2. \A w \in Workers : Serves(w, r) => Serves(w, r)'
    BY <1>3, <2>1 DEF Serves
  <2>3. IsDone(r) => IsDone(r)'
    BY <1>3, <1>4, <1>10 DEF IsDone
  <2>4. (r > arrived => r > arrived') /\ (AtEngine(r) => AtEngine(r)')
    BY <1>3, <1>9 DEF AtEngine
  <2> QED
    BY <2>2, <2>3, <2>4, Stays
<1>11. ASSUME NEW r \in Range(running[w0])
       PROVE  Place(r)' \in {Done, w0}
  <2>1. CASE r \in Range(rest)
    <3>1. r \in Range(running'[w0])
      BY <1>3, <2>1 DEF ClusterInv, Types
    <3>2. Serves(w0, r)'
      BY <3>1 DEF Serves
    <3> QED
      BY <1>4, <3>2 DEF PlacesKnown
  <2>2. CASE r \notin Range(rest)
    <3>1. IsDone(r)'
      BY <1>3, <1>4, <2>2 DEF IsDone
    <3> QED
      BY <1>4, <3>1 DEF PlacesKnown
  <2> QED
    BY <2>1, <2>2
<1> QED
  BY <1>3, <1>6, <1>7, <1>8, <1>10, <1>11 DEF Fails

\* Request r0 is placed, by the source or by the engine.
Placed(r0, p) ==
  /\ Place(r0) \in {Source, Engine} /\ p \in {Engine} \cup Range(PrefillMembers)
  /\ GoesTo(r0, p)

LEMMA Moves ==
  ASSUME ClusterInv, PlacesKnown, PlacesKnown', [Next]_vars
  PROVE  \/ NoMove
         \/ \E r0 \in Reqs : \E p : Placed(r0, p)
         \/ \E w \in Workers : Finishes(w) \/ Fails(w)
<1>1. CASE Arrive
  BY <1>1, ArriveMoves DEF Placed
<1>2. CASE EngineAdd
  BY <1>2, EngineAddMoves DEF Placed
<1>3. CASE EngineStop
  BY <1>3, EngineStopMoves
<1>4. ASSUME NEW w \in Workers, WorkerStep(w)
      PROVE  NoMove \/ Finishes(w) \/ Fails(w)
  <2>1. CASE TakeAdd(w)
    BY <2>1, TakeAddMoves
  <2>2. CASE TakeStop(w)
    BY <2>2, TakeStopMoves
  <2>3. CASE BeginStep(w)
    BY <2>3, BeginStepMoves
  <2>4. CASE FinishStep(w)
    BY <2>4, FinishMoves
  <2>5. CASE FailStep(w)
    BY <2>5, FailMoves
  <2> QED
    BY <1>4, <2>1, <2>2, <2>3, <2>4, <2>5 DEF WorkerStep
<1>5. CASE UNCHANGED vars
  <2>1. UNCHANGED <<arrived, engineQueue, prefillPool, dpRank, inbox, waiting, running, tokens>>
    BY <1>5 DEF vars, engineVars, poolVars, workerVars, requestVars
  <2>2. \A r \in Reqs : Place(r)' = Place(r)
    BY <2>1, Stays DEF IsDone, AtEngine, Serves
  <2> QED
    BY <2>1, <2>2 DEF NoMove
<1> QED
  BY <1>1, <1>2, <1>3, <1>4, <1>5 DEF Next, EngineStep

\* A request has no group before it is placed, and the groups get one in turn.
Unplaced == \A r \in Reqs : Place(r) \in {Source, Engine} => dpRank[r] = NoRank
DealtInv == Dealt(prefillPool) /\ Unplaced

LEMMA PlacedDeals ==
  ASSUME ClusterInv, ClusterInv', DealtInv, NEW r0 \in Reqs, NEW p, Placed(r0, p)
  PROVE  DealtInv'
<1>1. /\ Place(r0)' = p /\ \A r \in Reqs \ {r0} : Place(r)' = Place(r)
      /\ dpRank[r0] = NoRank
  BY DEF Placed, GoesTo, DealtInv, Unplaced
<1>2. CASE p = Engine /\ UNCHANGED <<prefillPool, dpRank>>
  BY <1>1, <1>2 DEF DealtInv, Unplaced, Dealt
<1>3. CASE /\ p \in Range(PrefillMembers)
           /\ \E load \in Loads : prefillPool' = Select(prefillPool, dpRank[r0], load).pool
           /\ dpRank' = [dpRank EXCEPT ![r0] = Assigned(@, p, TRUE)]
  <2>1. /\ prefillPool \in PoolOf(PrefillMembers) /\ prefillPool' \in PoolOf(PrefillMembers)
        /\ IsMembers(PrefillMembers) /\ \A w \in Range(PrefillMembers) : w \in Workers
        /\ Loads \subseteq [Workers -> [active: Nat, memory: Nat]]
    BY MembersAre, LoadTyped DEF ClusterInv, Types
  <2>2. DataParallel => NoRank \notin Range(Groups(PrefillMembers))
    BY <2>1, RanksAre
  <2>l. PICK load \in Loads : prefillPool' = Select(prefillPool, dpRank[r0], load).pool
    BY <1>3
  <2>a. PICK ms, pool : ms = PrefillMembers /\ pool = prefillPool
    OBVIOUS
  <2> DEFINE after == Select(pool, NoRank, load).pool
  <2>3. prefillPool' = after
    BY <1>1, <2>a, <2>l
  <2>b. /\ pool \in PoolOf(ms) /\ IsMembers(ms) /\ (DataParallel => NoRank \notin Range(Groups(ms)))
        /\ load \in [Workers -> [active: Nat, memory: Nat]]
        /\ after \in PoolOf(ms) /\ Dealt(pool)
    BY <2>1, <2>2, <2>3, <2>a DEF DealtInv
  <2>4. Advances(ms, pool, after)
    BY <2>b, SelectsNext
  <2> HIDE DEF after
  <2>6. Dealt(after)
    BY <2>4, <2>b, DealtOn
  <2>7. Dealt(prefillPool)'
    BY <2>3, <2>6 DEF Dealt
  <2>8. Unplaced'
    <3>1. \A r \in Reqs \ {r0} : dpRank'[r] = dpRank[r]
      BY <1>3 DEF ClusterInv, Types
    <3>2. Place(r0)' \notin {Source, Engine}
      BY <1>1, <1>3, <2>1, PlacesApart
    <3> QED
      BY <1>1, <3>1, <3>2 DEF DealtInv, Unplaced
  <2> QED
    BY <2>7, <2>8 DEF DealtInv
<1> QED
  BY <1>2, <1>3 DEF Placed, GoesTo

LEMMA DealtKeeps ==
  ASSUME ClusterInv, ClusterInv', PlacesKnown, PlacesKnown', DealtInv, [Next]_vars
  PROVE  DealtInv'
<1>1. CASE NoMove
  BY <1>1 DEF NoMove, DealtInv, Unplaced, Dealt
<1>2. ASSUME NEW r0 \in Reqs, NEW p, Placed(r0, p)
      PROVE  DealtInv'
  BY <1>2, PlacedDeals
<1>3. ASSUME NEW w0 \in Workers, Finishes(w0) \/ Fails(w0)
      PROVE  DealtInv'
  <2>1. /\ prefillPool' = prefillPool
        /\ \A r \in Reqs \ Range(running[w0]) : Place(r)' = Place(r) /\ dpRank'[r] = dpRank[r]
    BY <1>3 DEF Finishes, Fails
  <2>2. \A r \in Reqs : r \in Range(running[w0]) => Place(r)' \notin {Source, Engine}
    BY <1>3, PlacesApart, MembersAre DEF Finishes, Fails
  <2>3. Dealt(prefillPool)'
    BY <2>1 DEF DealtInv, Dealt
  <2>4. Unplaced'
    BY <2>1, <2>2 DEF DealtInv, Unplaced
  <2> QED
    BY <2>3, <2>4 DEF DealtInv
<1> QED
  BY <1>1, <1>2, <1>3, Moves

LEMMA DealtBegins == Init => DealtInv
<1> SUFFICES ASSUME Init
             PROVE  DealtInv
  OBVIOUS
<1>1. dpRank = [r \in Reqs |-> NoRank] /\ prefillPool = NewPool(PrefillMembers)
  BY DEF Init
<1>2. Groups(PrefillMembers) \in Seq(Nat)
  BY MembersAre, GroupsAre
<1>3. /\ prefillPool.groups = Groups(PrefillMembers) /\ prefillPool.nextGroup = 0
      /\ prefillPool.counts = [g \in Range(Groups(PrefillMembers)) |-> 0]
  BY <1>1 DEF NewPool
<1>4. ASSUME NEW i \in 1..Len(Groups(PrefillMembers))
      PROVE  prefillPool.counts[Groups(PrefillMembers)[i]] = 0 + IF i =< 0 THEN 1 ELSE 0
  <2>1. Groups(PrefillMembers)[i] \in Range(Groups(PrefillMembers))
    BY <1>2 DEF Range
  <2>2. ~(i =< 0) /\ 0 + 0 = 0
    BY <1>2
  <2> QED
    BY <1>3, <2>1, <2>2
<1>5. Dealt(prefillPool)
  <2>1. \A i \in 1..Len(prefillPool.groups) :
          prefillPool.counts[prefillPool.groups[i]] =
            0 + IF i =< prefillPool.nextGroup THEN 1 ELSE 0
    BY <1>3, <1>4, Zenon
  <2>2. 0 \in Nat
    OBVIOUS
  <2> QED
    BY <2>1, <2>2, Zenon DEF Dealt
<1>6. Unplaced
  BY <1>1 DEF Unplaced
<1> QED
  BY <1>5, <1>6 DEF DealtInv

LEMMA DealtMeans == ClusterInv /\ DealtInv => GroupsEven
<1> SUFFICES ASSUME ClusterInv, DealtInv,
                    NEW g \in DOMAIN prefillPool.counts, NEW h \in DOMAIN prefillPool.counts
             PROVE  prefillPool.counts[g] - prefillPool.counts[h] \in {-1, 0, 1}
  BY DEF GroupsEven
<1>1. PICK p \in PoolOf(PrefillMembers) : p = prefillPool
  BY DEF ClusterInv, Types
<1>2. /\ p.groups = Groups(PrefillMembers)
      /\ DOMAIN p.counts = Range(Groups(PrefillMembers))
  BY DEF PoolOf
<1>3. Groups(PrefillMembers) \in Seq(Nat)
  BY MembersAre, GroupsAre
<1>4. PICK i \in 1..Len(p.groups), j \in 1..Len(p.groups) : g = p.groups[i] /\ h = p.groups[j]
  BY <1>1, <1>2, <1>3 DEF Range
<1>5. PICK c \in Nat : \A k \in 1..Len(p.groups) :
        p.counts[p.groups[k]] = c + IF k =< p.nextGroup THEN 1 ELSE 0
  BY <1>1 DEF DealtInv, Dealt
<1>6. p.counts[g] \in {c, c + 1} /\ p.counts[h] \in {c, c + 1}
  <2>1. c + 0 = c
    OBVIOUS
  <2> QED
    BY <1>4, <1>5, <2>1
<1>7. \A x, y \in {c, c + 1} : x - y \in {-1, 0, 1}
  OBVIOUS
<1> QED
  BY <1>1, <1>6, <1>7

\* New requests are dealt evenly to the groups that prefill, whatever order they
\* reach the engine in: no two groups differ by more than one placement.
THEOREM RequestsAreDealtEvenly == Spec => []GroupsEven
<1>1. Init => DealtInv
  BY DealtBegins
<1>2. ClusterInv /\ DealtInv /\ [Next]_vars => DealtInv'
  <2>1. ClusterInv /\ [Next]_vars => PlacesKnown /\ PlacesKnown' /\ ClusterInv'
    BY PlacesBefore, NextKeeps
  <2> QED
    BY <2>1, DealtKeeps
<1>3. ClusterInv /\ DealtInv => GroupsEven
  BY DealtMeans
<1> QED
  BY <1>1, <1>2, <1>3, ClusterInvariant, PTL DEF Spec

LEMMA AllDecode ==
  ASSUME NEW w \in Workers, Role[w] # "prefill"
  PROVE  w \in Range(DecodeMembers)
<1> DEFINE D == {v \in Workers : Role[v] \in {"hybrid", "decode"}}
<1>1. w \in D
  BY ClusterAssumption
<1>2. D \in SUBSET Nat /\ IsFiniteSet(D)
  BY WorkersFinite, FS_Subset
<1>3. DecodeMembers = Listed(D)
  BY DEF DecodeMembers, WithRole
<1> HIDE DEF D
<1> QED
  BY <1>1, <1>2, <1>3, ListedProperties

\* A request at a worker has the rank of the worker's group.
InGroup ==
  DataParallel => \A w \in Workers : \A r \in Reqs : Place(r) = w => dpRank[r] = DpRank[w]

LEMMA GroupsKept ==
  ASSUME GroupsComplete, DataParallel, ClusterInv, PlacesKnown, PlacesKnown', InGroup, [Next]_vars
  PROVE  InGroup'
<1>1. CASE NoMove
  BY <1>1 DEF NoMove, InGroup
<1>2. ASSUME NEW r0 \in Reqs, NEW p, Placed(r0, p)
      PROVE  InGroup'
  <2>1. /\ Place(r0)' = p /\ \A r \in Reqs \ {r0} : Place(r)' = Place(r)
    BY <1>2 DEF Placed, GoesTo
  <2>2. \A r \in Reqs \ {r0} : dpRank'[r] = dpRank[r]
    BY <1>2 DEF Placed, GoesTo, ClusterInv, Types
  <2>3. p \in Workers => dpRank'[r0] = DpRank[p]
    <3>1. p \in Workers => p # Engine
      BY PlacesApart
    <3> QED
      BY <1>2, <3>1 DEF Placed, GoesTo, Assigned, ClusterInv, Types
  <2> QED
    BY <2>1, <2>2, <2>3 DEF InGroup
<1>3. ASSUME NEW w0 \in Workers, Finishes(w0) \/ Fails(w0)
      PROVE  InGroup'
  <2>1. \A r \in Reqs : r \in Range(running[w0]) => dpRank[r] = DpRank[w0]
    BY DEF PlacesKnown, Serves, InGroup
  <2>2. Range(running[w0]) \subseteq Reqs
    <3>1. running[w0] \in Seq(Reqs)
      BY DEF ClusterInv, Types
    <3>2. \A s \in Seq(Reqs) : Range(s) \subseteq Reqs
      BY DEF Range
    <3> QED
      BY <3>1, <3>2, Zenon
  <2>3. CASE Fails(w0)
    <3>1. dpRank' = dpRank
      BY <2>1, <2>2, <2>3, ClusterAssumption DEF Fails
    <3>2. \A r \in Reqs : Place(r)' = Place(r) \/ Place(r)' = Done
                          \/ (r \in Range(running[w0]) /\ Place(r)' = w0)
      BY <2>3 DEF Fails
    <3> QED
      BY <2>1, <3>1, <3>2, PlacesApart DEF InGroup
  <2>4. CASE Finishes(w0) /\ Role[w0] # "prefill"
    <3>1. dpRank' = dpRank
      BY <2>4 DEF Finishes
    <3>2. \A r \in Reqs : Place(r)' = Place(r) \/ Place(r)' = Done
                          \/ (r \in Range(running[w0]) /\ Place(r)' = w0)
      BY <2>4 DEF Finishes
    <3> QED
      BY <2>1, <3>1, <3>2, PlacesApart DEF InGroup
  <2>5. CASE Finishes(w0) /\ Role[w0] = "prefill"
    <3>1. PICK v \in Workers : Role[v] # "prefill" /\ DpRank[v] = DpRank[w0]
      BY <2>5 DEF GroupsComplete
    <3>2. v \in Range(DecodeMembers)
      BY <3>1, AllDecode
    <3>3. DpRank[w0] \in Range(Groups(DecodeMembers))
      BY <3>1, <3>2, MembersAre, GroupsAre
    <3>4. SameGroup(running[w0], DpRank[w0])
      BY <2>1, <2>2, <3>3 DEF SameGroup
    <3>5. dpRank' = dpRank
      BY <2>5, <3>4 DEF Finishes
    <3>6. \A r \in Reqs : \/ Place(r)' = Place(r) \/ Place(r)' = Done
                          \/ r \in Range(running[w0]) /\ DpRank[Place(r)'] = DpRank[w0]
      BY <2>5, <3>4 DEF Finishes
    <3> QED
      BY <2>1, <3>5, <3>6, PlacesApart DEF InGroup
  <2> QED
    BY <1>3, <2>3, <2>4, <2>5
<1> QED
  BY <1>1, <1>2, <1>3, Moves

\* Without data parallelism no request gets a rank.
NoRanks == ~DataParallel => \A r \in Reqs : dpRank[r] = NoRank

LEMMA NoRanksKept ==
  ASSUME ClusterInv, PlacesKnown, PlacesKnown', NoRanks, [Next]_vars
  PROVE  NoRanks'
<1> SUFFICES ASSUME ~DataParallel, \A r \in Reqs : dpRank[r] = NoRank
             PROVE  \A r \in Reqs : dpRank'[r] = dpRank[r]
  BY DEF NoRanks
<1>1. CASE NoMove
  BY <1>1 DEF NoMove
<1>2. ASSUME NEW r0 \in Reqs, NEW p, Placed(r0, p)
      PROVE  \A r \in Reqs : dpRank'[r] = dpRank[r]
  BY <1>2 DEF Placed, GoesTo, Assigned, ClusterInv, Types
<1>3. ASSUME NEW w0 \in Workers, Finishes(w0) \/ Fails(w0)
      PROVE  \A r \in Reqs : dpRank'[r] = dpRank[r]
  BY <1>3 DEF Finishes, Fails
<1> QED
  BY <1>1, <1>2, <1>3, Moves

\* New requests are dealt evenly to the data-parallel groups. Each keeps its group
\* from its placement on, also through the hand-over to a decode worker and a
\* hand-over that raises, provided that every group that prefills has a worker that
\* decodes: without one the decode pool gives it a worker of another group and
\* leaves its rank as it was (DataParallelWorkerPool._select_for_request()).
THEOREM GroupsAlwaysHold == Spec => []GroupsHold
<1>1. Init => InGroup /\ NoRanks
  <2>1. ASSUME Init, NEW r \in Reqs
        PROVE  Place(r) = Source /\ dpRank[r] = NoRank
    <3>1. r > arrived
      BY <2>1 DEF Init, Reqs
    <3> QED
      BY <2>1, <3>1 DEF Init, Place
  <2> QED
    BY <2>1, PlacesApart DEF InGroup, NoRanks
<1>2. ClusterInv /\ (GroupsComplete => InGroup) /\ NoRanks /\ [Next]_vars
        => (GroupsComplete => InGroup)' /\ NoRanks'
  <2>1. ClusterInv /\ [Next]_vars => PlacesKnown /\ PlacesKnown'
    BY PlacesBefore
  <2>2. ~DataParallel => InGroup'
    BY DEF InGroup
  <2>3. GroupsComplete' => GroupsComplete
    BY DEF GroupsComplete
  <2> QED
    BY <2>1, <2>2, <2>3, GroupsKept, NoRanksKept
<1>3. ClusterInv /\ (GroupsComplete => InGroup) /\ NoRanks => (GroupsComplete => StaysInGroup)
  <2> SUFFICES ASSUME ClusterInv, InGroup, NoRanks, NEW w \in Workers, NEW r \in Reqs,
                      Serves(w, r)
               PROVE  /\ dpRank[r] \in {NoRank, DpRank[w]}
                      /\ DataParallel => dpRank[r] # NoRank
    BY DEF StaysInGroup
  <2>1. Place(r) = w
    BY PlacesAre DEF PlacesKnown
  <2> QED
    BY <2>1, ClusterAssumption DEF InGroup, NoRanks
<1> QED
  BY <1>1, <1>2, <1>3, ClusterInvariant, RequestsAreDealtEvenly, PTL DEF Spec, GroupsHold
====
