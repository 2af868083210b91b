------------------------- MODULE StoreConnectorProofs -------------------------
(***************************************************************************)
(* The store connector in the scheduler, proved for every configuration,   *)
(* every capacity and every set of requests.                               *)
(*                                                                         *)
(* The worker with a connector implements KVBlocks as the one without: its *)
(* hooks reach the blocks only through BlockManager's operations.  What is *)
(* in flight in a step (loads, puts, delayed releases) is bound to the     *)
(* batch, and the blocks of a put in flight stay allocated until it is     *)
(* reported.  The store of the connector is the one of TieredStore: what   *)
(* the eviction hook spills is kept, what else may enter is told apart     *)
(* step by step, what prefill computed is saved, and what a lookup counts  *)
(* is there when the step runs.                                            *)
(***************************************************************************)
EXTENDS StoreConnector, PagedSchedulerProofs

-----------------------------------------------------------------------------
(* Types *)

Plan == [req : Reqs, keys : Seq(Keys)]

Statuses == {"NEW", "WAITING", "RUNNING", "FINISHED_STOPPED", "WAITING_FOR_CONNECTOR_FREE"}

QueuesTyped ==
    /\ mailbox \in Seq(Reqs) /\ waiting \in Seq(Reqs) /\ running \in Seq(Reqs)
    /\ todo \in Seq(Reqs) /\ batch \in Seq(Reqs)
    /\ status \in [Reqs -> Statuses]

PlansTyped ==
    /\ cfg \in Configs
    /\ pendingLoads \in [Reqs -> Seq(Keys)]
    /\ loads \in Seq(Plan) /\ saves \in Seq(Plan)
    /\ savedIds \cup pendingPuts \cup delayed \cup preempted \cup everLoaded \subseteq Reqs

ConnTypes == QueuesTyped /\ PlansTyped

\* A stretch of a sequence.
LEMMA SliceProperties ==
    ASSUME NEW S, NEW s \in Seq(S), NEW m \in Nat, NEW n \in Int, n <= Len(s)
    PROVE  LET t == SubSeq(s, m + 1, n)
           IN  /\ t \in Seq(S)
               /\ Len(t) = IF m <= n THEN n - m ELSE 0
               /\ \A i \in 1..Len(t) : t[i] = s[m + i]
<1>1. \A i \in m + 1..n : s[i] \in S
  OBVIOUS
<1> QED
  BY <1>1

\* There is one number of leading keys that hit, so what allocate() reuses is
\* what the lookup started from.
LEMMA HitCountUnique ==
    ASSUME NEW r \in Reqs,
           NEW g \in 0..Len(InputKeys[r]), IsHitCount(r, g),
           NEW h \in 0..Len(InputKeys[r]), IsHitCount(r, h)
    PROVE  g = h
<1>1. Len(InputKeys[r]) \in Nat
  BY ChainType
<1>2. ASSUME NEW a \in 0..Len(InputKeys[r]), NEW b \in 0..Len(InputKeys[r]),
             IsHitCount(r, a), IsHitCount(r, b), a < b
      PROVE  FALSE
  <2>1. a + 1 \in 1..b /\ a < Len(InputKeys[r])
    BY <1>1, <1>2
  <2> QED
    BY <1>2, <2>1 DEF IsHitCount
<1>3. g < h \/ h < g \/ g = h
  BY <1>1
<1> QED
  BY <1>2, <1>3

LocalHits(r) == CHOOSE h \in 0..Len(InputKeys[r]) : IsHitCount(r, h)

\* The keys from some place on that the store has are no more than there are.
LEMMA FoundType ==
    ASSUME NEW r \in Reqs, NEW from \in 0..Len(InputKeys[r])
    PROVE  Found(r, from) \in Nat /\ from + Found(r, from) <= Len(InputKeys[r])
<1> DEFINE n == Len(InputKeys[r])
           F == {i \in from + 1 .. n : \A j \in from + 1 .. i : InStore(InputKeys[r][j])}
<1>1. n \in Nat /\ from \in Nat /\ from <= n
  BY ChainType
<1>2. IsFiniteSet(from + 1 .. n) /\ Cardinality(from + 1 .. n) = n - from
  <2>1. from + 1 \in Int /\ n \in Int
    BY <1>1
  <2> HIDE DEF n
  <2>2. /\ IsFiniteSet(from + 1 .. n)
        /\ Cardinality(from + 1 .. n) = IF from + 1 > n THEN 0 ELSE n - (from + 1) + 1
    BY <2>1, FS_Interval
  <2> QED
    BY <1>1, <2>2
<1>3. F \subseteq from + 1 .. n
  OBVIOUS
<1>4. IsFiniteSet(F) /\ Cardinality(F) <= n - from
  BY <1>2, <1>3, FS_Subset
<1>5. Cardinality(F) \in Nat
  BY <1>4, FS_CardinalityType
<1>6. Found(r, from) = Cardinality(F)
  BY DEF Found
<1> HIDE DEF F, n
<1>7. from + Cardinality(F) <= n
  BY <1>1, <1>4, <1>5
<1> QED
  BY <1>5, <1>6, <1>7 DEF n

LEMMA CappedType ==
    ASSUME NEW r \in Reqs, NEW n \in Nat
    PROVE  Capped(r, n) \in Nat /\ Capped(r, n) <= n
<1> DEFINE p == PrefillLen[r]
<1>1. p \in Nat \ {0} /\ BlockSize \in Nat \ {0}
  BY SizesAssumption, RequestsAssumption
<1>2. ASSUME n * BlockSize >= p
      PROVE  (p - 1) \div BlockSize \in Nat /\ (p - 1) \div BlockSize <= n
  <2> HIDE DEF p
  <2>1. p - 1 \in Nat /\ p - 1 <= n * BlockSize
    BY <1>1, <1>2
  <2>2. (p - 1) \div BlockSize \in Nat
    BY <1>1, <2>1
  <2>3. BlockSize * ((p - 1) \div BlockSize) <= p - 1
    BY <1>1, <2>1
  <2>4. \A a, b \in Nat : \A c \in Nat \ {0} : c * a <= b /\ b <= n * c => a <= n
    OBVIOUS
  <2> QED
    BY <1>1, <2>1, <2>2, <2>3, <2>4
<1> QED
  BY <1>2 DEF Capped

\* A lookup plans loads of keys of the prompt only.
LEMMA LoadSlice ==
    ASSUME NEW r \in Reqs, NEW local \in 0..Len(InputKeys[r])
    PROVE  /\ External(r, local) \in Nat
           /\ local + External(r, local) <= Len(InputKeys[r])
           /\ SubSeq(InputKeys[r], LoadStart(local) + 1, LoadStart(local) + External(r, local))
                \in Seq(Keys)
<1> DEFINE n == Len(InputKeys[r])
           from == LookupStart(local)
           found == Found(r, from)
           end == Capped(r, from + found)
           ext == External(r, local)
<1>1. n \in Nat /\ local \in Nat /\ local <= n /\ InputKeys[r] \in Seq(Keys)
  BY ChainType
<1>2. from \in 0..n /\ from <= local /\ from \in Nat
  BY <1>1 DEF LookupStart
<1>3. found \in Nat /\ from + found <= n
  BY <1>2, FoundType
<1>4. end \in Nat /\ end <= from + found
  BY <1>2, <1>3, CappedType
<1>5. ext = IF found = 0 \/ end <= local THEN 0 ELSE end - local
  BY DEF External
<1> HIDE DEF n, from, found, end, ext
<1>6. ext \in Nat /\ local + ext <= n
  BY <1>1, <1>2, <1>3, <1>4, <1>5
<1>7. LoadStart(local) \in Nat /\ LoadStart(local) <= local
  BY <1>1, <1>2 DEF LoadStart, from
<1>8. LoadStart(local) + ext \in Int /\ LoadStart(local) + ext <= n
  BY <1>1, <1>6, <1>7
<1>9. SubSeq(InputKeys[r], LoadStart(local) + 1, LoadStart(local) + ext) \in Seq(Keys)
  BY <1>1, <1>7, <1>8, SliceProperties DEF n
<1> QED
  BY <1>6, <1>9 DEF ext, n

-----------------------------------------------------------------------------
(* What build_connector_meta() leaves *)

LEMMA SaveKeysAre ==
    ASSUME NEW r \in Reqs
    PROVE  /\ SaveKeys(r) \in Seq(Keys)
           /\ Range(SaveKeys(r)) =
                IF Aligned THEN {k \in Range(InputKeys[r]) : ~InStore(k)} ELSE Range(InputKeys[r])
<1>1. InputKeys[r] \in Seq(Keys)
  BY ChainType
<1>2. Range(InputKeys[r]) \subseteq Keys
  BY <1>1 DEF Range
<1> DEFINE T == {k \in Keys : ~InStore(k)}
<1>3. Kept(InputKeys[r], T) \in Seq(Keys) /\ Range(Kept(InputKeys[r], T)) = Range(InputKeys[r]) \cap T
  BY <1>1, KeptProperties
<1>4. SaveKeys(r) = IF Aligned THEN Kept(InputKeys[r], T) ELSE InputKeys[r]
  BY DEF SaveKeys
<1> QED
  BY <1>1, <1>2, <1>3, <1>4

Loading(scheduled) == {r \in Range(scheduled) : pendingLoads[r] # <<>>}

Saving(scheduled) == {r \in Range(scheduled) : MaySave(r) /\ SaveKeys(r) # <<>>}

\* A list of plans has one for each of its requests, with the keys f says.
PlansFor(plans, R, f) ==
    /\ plans \in Seq(Plan)
    /\ \A i \in DOMAIN plans : plans[i].req \in R /\ plans[i].keys = f[plans[i].req]
    /\ \A r \in R : \E i \in DOMAIN plans : plans[i].req = r

LEMMA PlansListed ==
    ASSUME NEW s \in Seq(Reqs), NEW f \in [Reqs -> Seq(Keys)]
    PROVE  PlansFor([i \in DOMAIN s |-> [req |-> s[i], keys |-> f[s[i]]]], Range(s), f)
<1> DEFINE plans == [i \in DOMAIN s |-> [req |-> s[i], keys |-> f[s[i]]]]
<1>1. Len(s) \in Nat /\ DOMAIN s = 1..Len(s) /\ \A i \in DOMAIN s : s[i] \in Reqs
  OBVIOUS
<1>2. \A i \in DOMAIN s : plans[i] \in Plan /\ plans[i].req = s[i] /\ plans[i].keys = f[s[i]]
  BY <1>1 DEF Plan
<1>3. DOMAIN plans = DOMAIN s
  OBVIOUS
<1>4. plans \in [1..Len(s) -> Plan]
  BY <1>1, <1>2
<1> HIDE DEF plans
<1>5. plans \in Seq(Plan)
  <2>a. Len(s) \in Int
    OBVIOUS
  <2>1. PICK n \in Int : n = Len(s)
    BY <2>a, Zenon
  <2>2. plans \in [1..n -> Plan]
    BY <1>4, <2>1
  <2> QED
    BY <2>2, FunctionIsSeq
<1>6. \A i \in DOMAIN s : s[i] \in Range(s)
  BY DEF Range
<1>7. \A r \in Range(s) : \E i \in DOMAIN s : s[i] = r
  BY DEF Range
<1>8. \A i \in DOMAIN plans : plans[i].req \in Range(s) /\ plans[i].keys = f[plans[i].req]
  BY <1>2, <1>3, <1>6
<1>9. \A r \in Range(s) : \E i \in DOMAIN plans : plans[i].req = r
  BY <1>2, <1>3, <1>7
<1>10. PlansFor(plans, Range(s), f)
  BY <1>5, <1>8, <1>9, Zenon DEF PlansFor
<1> QED
  BY <1>10 DEF plans

LEMMA BuildMetaIs ==
    ASSUME PlansTyped, NEW scheduled \in Seq(Reqs), NEW victims, victims \subseteq Reqs,
           BuildMeta(scheduled, victims), preempted' \subseteq Reqs
    PROVE  /\ PlansFor(loads', Loading(scheduled), pendingLoads)
           /\ PlansFor(saves', Saving(scheduled), [r \in Reqs |-> SaveKeys(r)])
           /\ pendingPuts' = pendingPuts \cup (IF cfg.async THEN Saving(scheduled) ELSE {})
           /\ everLoaded' = everLoaded \cup Loading(scheduled)
           /\ pendingLoads' \in [Reqs -> Seq(Keys)]
           /\ \A r \in Reqs : pendingLoads'[r] # <<>> =>
                pendingLoads'[r] = pendingLoads[r] /\ r \notin Range(scheduled)
           /\ PlansTyped'
<1> DEFINE loading == Kept(scheduled, {r \in Reqs : pendingLoads[r] # <<>>})
           saving == Kept(scheduled, {r \in Reqs : MaySave(r) /\ SaveKeys(r) # <<>>})
           f == [r \in Reqs |-> SaveKeys(r)]
<1>1. Range(scheduled) \subseteq Reqs
  BY DEF Range
<1>2. loading \in Seq(Reqs) /\ Range(loading) = Loading(scheduled)
  BY <1>1, KeptProperties DEF Loading
<1>3. saving \in Seq(Reqs) /\ Range(saving) = Saving(scheduled)
  BY <1>1, KeptProperties DEF Saving
<1>4. f \in [Reqs -> Seq(Keys)] /\ pendingLoads \in [Reqs -> Seq(Keys)]
  BY SaveKeysAre DEF PlansTyped
<1>5. /\ loads' = [i \in DOMAIN loading |-> [req |-> loading[i], keys |-> pendingLoads[loading[i]]]]
      /\ saves' = [i \in DOMAIN saving |-> [req |-> saving[i], keys |-> SaveKeys(saving[i])]]
      /\ pendingPuts' = pendingPuts \cup (IF cfg.async THEN Range(saving) ELSE {})
      /\ everLoaded' = everLoaded \cup Range(loading)
      /\ UNCHANGED <<cfg, delayed>>
  BY DEF BuildMeta
<1>6. /\ pendingLoads' =
            Forgotten(pendingLoads, Range(scheduled) \cup (IF cfg.multi THEN {} ELSE victims))
      /\ savedIds' \subseteq savedIds \cup Range(scheduled)
  BY DEF BuildMeta
<1> HIDE DEF loading, saving
<1>7. \A i \in DOMAIN saving : saving[i] \in Reqs
  BY <1>3
<1>8. saves' = [i \in DOMAIN saving |-> [req |-> saving[i], keys |-> f[saving[i]]]]
  BY <1>5, <1>7
<1> HIDE DEF f
<1>9. PlansFor(loads', Loading(scheduled), pendingLoads)
  BY <1>2, <1>4, <1>5, PlansListed
<1>10. PlansFor(saves', Saving(scheduled), f)
  BY <1>3, <1>4, <1>8, PlansListed
<1>11. pendingLoads' \in [Reqs -> Seq(Keys)]
  BY <1>4, <1>6 DEF Forgotten
<1>12. \A r \in Reqs : pendingLoads'[r] # <<>> =>
         pendingLoads'[r] = pendingLoads[r] /\ r \notin Range(scheduled)
  BY <1>6 DEF Forgotten
<1>13. Loading(scheduled) \subseteq Reqs /\ Saving(scheduled) \subseteq Reqs
  BY <1>1 DEF Loading, Saving
<1>14. loads' \in Seq(Plan) /\ saves' \in Seq(Plan)
  BY <1>9, <1>10, Zenon DEF PlansFor
<1>15. PlansTyped'
  BY <1>1, <1>2, <1>3, <1>5, <1>6, <1>11, <1>13, <1>14 DEF PlansTyped
<1> QED
  BY <1>2, <1>3, <1>5, <1>9, <1>10, <1>11, <1>12, <1>15 DEF f

-----------------------------------------------------------------------------
(* Types are kept, and the blocks are reached through BlockManager only *)

\* The steps of the scheduler that the connector leaves as they are or adds to.
PlainStep ==
    \/ Receive \/ StartStep \/ Admit \/ EndAdmission \/ GiveSlot \/ Preempt \/ EndSlots
    \/ FinishRecompute \/ StepOne \/ CommitOne \/ FreeOne \/ NextLoop
    \/ \E r \in Reqs : Deliver(r) \/ Send(r)

LEMMA PlainStepTypes == QueuesTyped /\ PlainStep => QueuesTyped'
<1> SUFFICES ASSUME QueuesTyped, PlainStep
             PROVE  QueuesTyped'
  OBVIOUS
<1>1. /\ todo # <<>> => Tail(todo) \in Seq(Reqs) /\ Head(todo) \in Reqs
      /\ todo # <<>> => SubSeq(todo, 1, Len(todo) - 1) \in Seq(Reqs) /\ todo[Len(todo)] \in Reqs
      /\ waiting # <<>> => Tail(waiting) \in Seq(Reqs) /\ Head(waiting) \in Reqs
      /\ mailbox # <<>> => Head(mailbox) \in Reqs /\ HeapRest(mailbox) \in Seq(Reqs)
      /\ \A r \in Reqs : /\ Append(waiting, r) \in Seq(Reqs) /\ Append(running, r) \in Seq(Reqs)
                         /\ Append(batch, r) \in Seq(Reqs) /\ Append(mailbox, r) \in Seq(Reqs)
                         /\ <<r>> \o waiting \in Seq(Reqs)
      /\ \A q \in ByArrival(running) : q \in Seq(Reqs)
      /\ <<>> \in Seq(Reqs)
  BY QueueTypes, HeapRestProperties, SortedQueue DEF QueuesTyped
<1>2. /\ \A r \in Reqs : AddRequest(r) => waiting' \in Seq(Reqs) /\ status' \in [Reqs -> Statuses]
                                         /\ UNCHANGED <<running, todo, batch>>
  BY <1>1 DEF AddRequest, QueuesTyped, Statuses
<1>3. CASE \E r \in Reqs : Deliver(r) \/ Send(r)
  BY <1>1, <1>2, <1>3 DEF Deliver, Send, QueuesTyped, mail
<1>4. CASE Receive
  BY <1>1, <1>2, <1>4 DEF Receive, QueuesTyped
<1>5. CASE StartStep \/ EndSlots \/ NextLoop
  BY <1>1, <1>5 DEF StartStep, EndSlots, NextLoop, QueuesTyped, mail
<1>6. CASE Admit
  BY <1>1, <1>6 DEF Admit, MayAdmit, QueuesTyped, mail, Statuses
<1>7. CASE EndAdmission
  BY <1>1, <1>7 DEF EndAdmission, QueuesTyped, mail
<1>8. CASE GiveSlot
  BY <1>1, <1>8 DEF GiveSlot, QueuesTyped, mail
<1>9. CASE Preempt
  BY <1>1, <1>9 DEF Preempt, Requeued, QueuesTyped, mail, Statuses
<1>10. CASE FinishRecompute \/ StepOne \/ CommitOne
  BY <1>1, <1>10 DEF FinishRecompute, StepOne, CommitOne, QueuesTyped, mail
<1>11. CASE FreeOne
  BY <1>1, <1>11 DEF FreeOne, QueuesTyped, mail, Statuses
<1> QED
  BY <1>3, <1>4, <1>5, <1>6, <1>7, <1>8, <1>9, <1>10, <1>11 DEF PlainStep

\* What the steps with a hook change apart from the queues.
LEMMA AdmitPlans ==
    ASSUME ConnTypes, SAdmit
    PROVE  PlansTyped'
<1> DEFINE r == Head(waiting)
<1>1. r \in Reqs
  BY QueueTypes DEF ConnTypes, QueuesTyped, SAdmit, Admit, MayAdmit
<1>2. \E h \in 0..Len(InputKeys[r]) : IsHitCount(r, h)
  BY DEF SAdmit, Admit, Allocate
<1>3. LocalHits(r) \in 0..Len(InputKeys[r]) /\ IsHitCount(r, LocalHits(r))
  BY <1>2 DEF LocalHits
<1>4. pendingLoads' =
        [pendingLoads EXCEPT ![r] =
            IF External(r, LocalHits(r)) = 0 THEN @
            ELSE SubSeq(InputKeys[r], LoadStart(LocalHits(r)) + 1,
                        LoadStart(LocalHits(r)) + External(r, LocalHits(r)))]
  BY DEF SAdmit, LocalHits
<1>5. UNCHANGED <<cfg, loads, saves, savedIds, pendingPuts, delayed, preempted, everLoaded>>
  BY DEF SAdmit
<1> HIDE DEF r
<1>6. pendingLoads' \in [Reqs -> Seq(Keys)]
  BY <1>1, <1>3, <1>4, LoadSlice DEF ConnTypes, PlansTyped
<1> QED
  BY <1>5, <1>6 DEF ConnTypes, PlansTyped

LEMMA ConnStepTypes == ConnTypes /\ [ConnNext]_everything => ConnTypes'
<1> SUFFICES ASSUME ConnTypes, [ConnNext]_everything
             PROVE  ConnTypes'
  OBVIOUS
<1>1. QueuesTyped /\ PlansTyped
  BY DEF ConnTypes
<1>2. PlainStep => QueuesTyped'
  BY <1>1, PlainStepTypes
<1>3. UNCHANGED connVars => PlansTyped'
  BY <1>1 DEF connVars, PlansTyped
<1>4. /\ todo # <<>> => Tail(todo) \in Seq(Reqs) /\ Head(todo) \in Reqs /\ todo[Len(todo)] \in Reqs
      /\ <<>> \in Seq(Reqs) /\ <<>> \in Seq(Keys) /\ <<>> \in Seq(Plan)
      /\ \A R : Forgotten(pendingLoads, R) \in [Reqs -> Seq(Keys)]
  <2>1. <<>> \in Seq(Keys)
    OBVIOUS
  <2>2. \A R : Forgotten(pendingLoads, R) \in [Reqs -> Seq(Keys)]
    BY <1>1, <2>1 DEF Forgotten, PlansTyped
  <2>3. <<>> \in Seq(Reqs) /\ <<>> \in Seq(Plan)
    OBVIOUS
  <2> QED
    BY <1>1, <2>1, <2>2, <2>3, QueueTypes DEF QueuesTyped
<1>5. CASE UNCHANGED everything
  BY <1>1, <1>5 DEF everything, allVars, schedVars, mail, connVars, ConnTypes, QueuesTyped, PlansTyped
<1>6. CASE SAdmit
  BY <1>2, <1>6, AdmitPlans DEF SAdmit, PlainStep, ConnTypes
<1>7. CASE SGiveSlot
  <2>1. PlansTyped'
    BY <1>1, <1>7 DEF SGiveSlot, PlansTyped
  <2> QED
    BY <1>2, <1>7, <2>1 DEF SGiveSlot, PlainStep, ConnTypes
<1>8. CASE SPreempt
  <2>1. PlansTyped'
    BY <1>1, <1>4, <1>8 DEF SPreempt, Preempt, PlansTyped
  <2> QED
    BY <1>2, <1>8, <2>1 DEF SPreempt, PlainStep, ConnTypes
<1>9. CASE SEndAdmission
  <2>1. CASE batch # <<>>
    <3>1. BuildMeta(batch, {}) /\ preempted' \subseteq Reqs /\ batch \in Seq(Reqs)
      BY <1>1, <1>9, <2>1 DEF SEndAdmission, QueuesTyped
    <3>2. PlansTyped'
      BY <1>1, <3>1, BuildMetaIs
    <3> QED
      BY <1>2, <1>9, <3>2 DEF SEndAdmission, PlainStep, ConnTypes
  <2>2. CASE batch = <<>>
    <3>1. PlansTyped'
      BY <1>1, <1>9, <2>2 DEF SEndAdmission, PlansTyped
    <3> QED
      BY <1>2, <1>9, <3>1 DEF SEndAdmission, PlainStep, ConnTypes
  <2> QED
    BY <2>1, <2>2
<1>10. CASE SEndSlots
  <2> DEFINE scheduled == IF preempted = {} THEN running ELSE <<>>
  <2>1. /\ BuildMeta(scheduled, preempted) /\ preempted' \subseteq Reqs /\ preempted \subseteq Reqs
        /\ scheduled \in Seq(Reqs)
    BY <1>1, <1>10 DEF SEndSlots, QueuesTyped, PlansTyped
  <2> HIDE DEF scheduled
  <2>2. PlansTyped'
    BY <1>1, <2>1, BuildMetaIs
  <2> QED
    BY <1>2, <1>10, <2>2 DEF SEndSlots, PlainStep, ConnTypes
<1>11. CASE SFreeOne
  <2>1. CASE todo # <<>> /\ Head(todo) \in pendingPuts /\ IsDone(Head(todo))
    <3>1. QueuesTyped'
      BY <1>1, <1>4, <1>11, <2>1 DEF SFreeOne, QueuesTyped, mail, Statuses
    <3>2. PlansTyped'
      BY <1>1, <1>4, <1>11, <2>1 DEF SFreeOne, PlansTyped
    <3> QED
      BY <3>1, <3>2 DEF ConnTypes
  <2>2. CASE ~(todo # <<>> /\ Head(todo) \in pendingPuts /\ IsDone(Head(todo)))
    <3>1. /\ FreeOne /\ Forget({r \in Reqs : held[r] # <<>> /\ held'[r] = <<>>})
          /\ UNCHANGED <<cfg, store, matched, loads, saves, pendingPuts, delayed, preempted, everLoaded>>
      BY <1>11, <2>2 DEF SFreeOne
    <3>2. PlansTyped'
      BY <1>1, <1>4, <3>1 DEF Forget, PlansTyped
    <3> QED
      BY <1>2, <3>1, <3>2 DEF PlainStep, ConnTypes
  <2> QED
    BY <2>1, <2>2
<1>12. CASE EndUpdate
  <2>1. {r \in Range(running) : pc = "free" => ~IsDone(r)} \in SUBSET Reqs
    BY <1>1, QueueTypes DEF QueuesTyped
  <2>2. running' \in Seq(Reqs)
    BY <1>1, <1>12, <2>1, SortedQueue DEF EndUpdate, QueuesTyped
  <2>3. QueuesTyped'
    BY <1>1, <1>12, <2>2 DEF EndUpdate, QueuesTyped, mail
  <2> QED
    BY <1>3, <1>12, <2>3 DEF EndUpdate, ConnTypes
<1>13. CASE SaveBlocks
  BY <1>1, <1>13 DEF SaveBlocks, ConnTypes, QueuesTyped, PlansTyped, mail
<1>14. CASE EndFeedback
  <2>1. Range(running) \ pendingPuts \in SUBSET Reqs
    BY <1>1, QueueTypes DEF QueuesTyped
  <2>2. running' \in Seq(Reqs)
    BY <1>1, <1>14, <2>1, SortedQueue DEF EndFeedback, QueuesTyped
  <2>3. QueuesTyped'
    BY <1>1, <1>4, <1>14, <2>2 DEF EndFeedback, QueuesTyped, mail
  <2>4. PlansTyped'
    BY <1>1, <1>4, <1>14 DEF EndFeedback, Forget, PlansTyped
  <2> QED
    BY <2>3, <2>4 DEF ConnTypes
<1>15. CASE \E r \in Reqs : ReleaseDelayed(r)
  <2>1. PICK r \in Reqs : ReleaseDelayed(r)
    BY <1>15
  <2>2. QueuesTyped'
    BY <1>1, <2>1 DEF ReleaseDelayed, QueuesTyped, mail, Statuses
  <2>3. PlansTyped'
    BY <1>1, <1>4, <2>1 DEF ReleaseDelayed, Forget, PlansTyped
  <2> QED
    BY <2>2, <2>3 DEF ConnTypes
<1>16. CASE (Receive \/ StartStep \/ FinishRecompute \/ StepOne \/ CommitOne \/ NextLoop)
            /\ UNCHANGED connVars
  BY <1>2, <1>3, <1>16 DEF PlainStep, ConnTypes
<1>17. CASE \E r \in Reqs : (Deliver(r) \/ Send(r)) /\ UNCHANGED connVars
  BY <1>2, <1>3, <1>17 DEF PlainStep, ConnTypes
<1> QED
  BY <1>5, <1>6, <1>7, <1>8, <1>9, <1>10, <1>11, <1>12, <1>13, <1>14, <1>15, <1>16, <1>17
     DEF ConnNext, ConnStep

\* Every step of the worker with the connector is one block operation, or leaves
\* the blocks alone.
LEMMA ConnStepsBlocks == ConnTypes /\ [ConnNext]_everything => [Next]_vars
<1> SUFFICES ASSUME ConnTypes, [ConnNext]_everything
             PROVE  [Next]_vars
  OBVIOUS
<1>1. /\ todo # <<>> => Head(todo) \in Reqs /\ todo[Len(todo)] \in Reqs
      /\ waiting # <<>> => Head(waiting) \in Reqs
  BY QueueTypes DEF ConnTypes, QueuesTyped
<1>2. ASSUME NEW r \in Reqs,
             \/ Allocate(r) \/ AppendSlot(r) \/ Step(r)
             \/ CommitInput(r) \/ Release(r) \/ Finish(r)
      PROVE  [Next]_vars
  BY <1>2 DEF Next
<1>3. CASE UNCHANGED everything
  BY <1>3 DEF everything, allVars
<1>4. CASE SAdmit
  BY <1>1, <1>2, <1>4 DEF SAdmit, Admit, MayAdmit
<1>5. CASE SGiveSlot
  BY <1>1, <1>2, <1>5 DEF SGiveSlot, GiveSlot
<1>6. CASE SPreempt
  BY <1>1, <1>2, <1>6 DEF SPreempt, Preempt
<1>7. CASE SEndAdmission \/ SEndSlots
  BY <1>7 DEF SEndAdmission, EndAdmission, SEndSlots, EndSlots
<1>8. CASE SFreeOne
  BY <1>1, <1>2, <1>8 DEF SFreeOne, FreeOne
<1>9. CASE EndUpdate \/ SaveBlocks \/ EndFeedback
  BY <1>9 DEF EndUpdate, SaveBlocks, EndFeedback
<1>10. CASE \E r \in Reqs : ReleaseDelayed(r)
  BY <1>2, <1>10 DEF ReleaseDelayed
<1>11. CASE FinishRecompute \/ StepOne \/ CommitOne
  BY <1>1, <1>2, <1>11 DEF FinishRecompute, StepOne, CommitOne
<1>12. CASE Receive \/ StartStep \/ NextLoop
  BY <1>12 DEF Receive, StartStep, NextLoop, AddRequest
<1>13. CASE \E r \in Reqs : Deliver(r) \/ Send(r)
  BY <1>13 DEF Deliver, Send, AddRequest
<1> QED
  BY <1>3, <1>4, <1>5, <1>6, <1>7, <1>8, <1>9, <1>10, <1>11, <1>12, <1>13
     DEF ConnNext, ConnStep

LEMMA ConnInitTypes == ConnInit => ConnTypes
<1> SUFFICES ASSUME ConnInit
             PROVE  ConnTypes
  OBVIOUS
<1>1. <<>> \in Seq(Reqs) /\ <<>> \in Seq(Keys) /\ <<>> \in Seq(Plan)
  OBVIOUS
<1>2. QueuesTyped
  BY <1>1 DEF ConnInit, SchedInit, QueuesTyped, Statuses
<1>3. PlansTyped
  BY <1>1 DEF ConnInit, PlansTyped
<1> QED
  BY <1>2, <1>3 DEF ConnTypes

\* The scheduler with a store connector implements the block layer: no hook of
\* the connector and no delayed release goes past BlockManager's operations.
THEOREM ConnectorImplementsBlocks == ConnSpec => Spec
<1>1. ConnInit => Init
  BY DEF ConnInit, SchedInit
<1>2. ConnSpec => []ConnTypes
  BY ConnInitTypes, ConnStepTypes, PTL DEF ConnSpec
<1> QED
  BY <1>1, <1>2, ConnStepsBlocks, PTL DEF ConnSpec, Spec

-----------------------------------------------------------------------------
(* What is in flight *)

\* Loads are planned for the batch being admitted, puts are of the batch, and
\* delayed releases are of puts; between two steps there is none.
InFlight ==
    /\ \A r \in Reqs : pendingLoads[r] # <<>> => pc = "admit" /\ r \in Range(batch)
    /\ pendingPuts \subseteq Range(batch)
    /\ pc \in {"mailbox", "admit", "slots"} => pendingPuts = {}
    /\ delayed \subseteq pendingPuts
    /\ ReleaserInstalled =>
        \A r \in Reqs : status[r] = "WAITING_FOR_CONNECTOR_FREE" => r \in delayed

\* The phases from the metadata to the save.
Executing == pc \in {"step", "recompute", "commit", "free", "save"}

\* What is scheduled has blocks, and keeps them while it has a put in flight.
PutsPinned ==
    /\ pc = "admit" => \A r \in Range(batch) : held[r] # <<>>
    /\ pc = "slots" /\ preempted = {} => \A r \in Range(running) : held[r] # <<>>
    /\ Executing => \A r \in pendingPuts : held[r] # <<>>
    /\ Executing /\ cfg.async => \A i \in DOMAIN saves : saves[i].req \in pendingPuts

PinInv == IInv /\ ConnTypes /\ InFlight /\ PutsPinned

LEMMA PinnedNow == PinInv => PinnedWhileSaved
<1> SUFFICES ASSUME PinInv
             PROVE  PinnedWhileSaved
  OBVIOUS
<1>1. SavedBlocksStay
  BY DEF PinInv, PutsPinned, Executing, SavedBlocksStay
<1>2. NothingInFlight
  BY DEF PinInv, InFlight, NothingInFlight
<1> QED
  BY <1>1, <1>2 DEF PinnedWhileSaved

LEMMA PinInitially == ConnInit => PinInv
<1> SUFFICES ASSUME ConnInit
             PROVE  PinInv
  OBVIOUS
<1>1. IInv
  BY InitIInv DEF ConnInit, SchedInit
<1>2. ConnTypes
  BY ConnInitTypes
<1>3. /\ \A r \in Reqs : pendingLoads[r] = <<>> /\ status[r] = "NEW"
      /\ pendingPuts = {} /\ delayed = {} /\ pc = "mailbox"
  BY DEF ConnInit, SchedInit
<1>4. InFlight
  BY <1>3 DEF InFlight
<1>5. PutsPinned
  BY <1>3 DEF PutsPinned, Executing
<1> QED
  BY <1>1, <1>2, <1>4, <1>5 DEF PinInv

\* What the scheduler's own steps do to the rows.
LEMMA RowsStay ==
    ASSUME ConnTypes, StepOne \/ FinishRecompute \/ CommitOne
    PROVE  held' = held
BY DEF StepOne, FinishRecompute, CommitOne, Step, CommitInput, vars

LEMMA PinOfMailbox ==
    ASSUME PinInv, UNCHANGED connVars,
           \/ Receive \/ StartStep
           \/ \E r \in Reqs : Deliver(r) \/ Send(r)
    PROVE  InFlight' /\ PutsPinned'
<1>1. InFlight /\ PutsPinned /\ UNCHANGED <<cfg, pendingLoads, saves, pendingPuts, delayed, preempted>>
  BY DEF PinInv, connVars
<1>2. held' = held
  BY DEF Receive, StartStep, Deliver, Send, AddRequest, vars
<1>3. CASE StartStep
  <2>1. pc = "mailbox" /\ pc' = "admit" /\ batch' = <<>> /\ status' = status
    BY <1>3 DEF StartStep
  <2>2. Range(<<>>) = {}
    BY NoneRange
  <2>3. InFlight'
    BY <1>1, <2>1 DEF InFlight, ReleaserInstalled
  <2>4. PutsPinned'
    BY <1>1, <2>1, <2>2 DEF PutsPinned, Executing
  <2> QED
    BY <2>3, <2>4
<1>4. ASSUME NEW r \in Reqs, Deliver(r) \/ Send(r) \/ (Receive /\ r = Head(mailbox))
      PROVE  InFlight' /\ PutsPinned'
  <2>1. /\ UNCHANGED <<pc, running, batch>>
        /\ status' = [status EXCEPT ![r] = "WAITING"] \/ status' = status
    BY <1>4 DEF Deliver, Send, Receive, AddRequest
  <2>2. \A s \in Reqs : status'[s] = "WAITING_FOR_CONNECTOR_FREE" =>
                        status[s] = "WAITING_FOR_CONNECTOR_FREE"
    BY <2>1 DEF PinInv, ConnTypes, QueuesTyped
  <2>3. InFlight'
    BY <1>1, <2>1, <2>2 DEF InFlight, ReleaserInstalled
  <2>4. PutsPinned'
    BY <1>1, <1>2, <2>1 DEF PutsPinned, Executing
  <2> QED
    BY <2>3, <2>4
<1>5. Receive => Head(mailbox) \in Reqs
  BY QueueTypes DEF Receive, PinInv, ConnTypes, QueuesTyped
<1> QED
  BY <1>3, <1>4, <1>5

LEMMA PinOfAdmit ==
    ASSUME PinInv, SAdmit
    PROVE  InFlight' /\ PutsPinned'
<1> DEFINE r == Head(waiting)
<1>1. InFlight /\ PutsPinned /\ UNCHANGED <<cfg, saves, pendingPuts, delayed, preempted>>
  BY DEF PinInv, SAdmit
<1>2. /\ r \in Reqs /\ batch \in Seq(Reqs)
      /\ pendingLoads \in [Reqs -> Seq(Keys)] /\ status \in [Reqs -> Statuses]
  BY QueueTypes DEF PinInv, ConnTypes, QueuesTyped, PlansTyped, SAdmit, Admit, MayAdmit
<1>3. /\ pc = "admit" /\ pc' = "admit" /\ batch' = Append(batch, r) /\ Allocate(r)
      /\ status' = [status EXCEPT ![r] = "RUNNING"]
      /\ \A s \in Reqs \ {r} : pendingLoads'[s] = pendingLoads[s]
  BY <1>2 DEF SAdmit, Admit
<1> HIDE DEF r
<1>4. Range(batch') = Range(batch) \cup {r} /\ Range(batch) \subseteq Reqs
  BY <1>2, <1>3, AppendRange, QueueTypes
<1>5. /\ \A o \in Owners \ {r} : held'[o] = held[o]
      /\ Len(held'[r]) = NumLogical(r)
  BY <1>2, <1>3, AllocateRow DEF PinInv
<1>6. NumLogical(r) # 0
  BY <1>2, NumLogicalProperties DEF PinInv, IInv
<1>7. held'[r] # <<>> /\ \A s \in Reqs : s # r => held'[s] = held[s]
  BY <1>5, <1>6 DEF Owners
<1>8. InFlight'
  BY <1>1, <1>2, <1>3, <1>4 DEF InFlight, ReleaserInstalled
<1>9. PutsPinned'
  BY <1>1, <1>3, <1>4, <1>7 DEF PutsPinned, Executing
<1> QED
  BY <1>8, <1>9

LEMMA PinOfSlots ==
    ASSUME PinInv, SGiveSlot \/ SPreempt
    PROVE  InFlight' /\ PutsPinned'
<1>1. InFlight /\ PutsPinned /\ QueuesTyped
  BY DEF PinInv, ConnTypes
<1>2. CASE SGiveSlot
  <2> DEFINE r == Head(todo)
  <2>1. r \in Reqs /\ running \in Seq(Reqs)
    BY <1>1, <1>2, QueueTypes DEF QueuesTyped, SGiveSlot, GiveSlot
  <2>2. /\ pc = "slots" /\ running' = Append(running, r)
        /\ IF Len(held[r]) < NumLogical(r) THEN AppendSlot(r) ELSE UNCHANGED vars
        /\ UNCHANGED <<pc, batch, status, cfg, pendingLoads, saves, pendingPuts, delayed, preempted>>
    BY <1>2 DEF SGiveSlot, GiveSlot
  <2> HIDE DEF r
  <2>3. Range(running') = Range(running) \cup {r} /\ Range(running) \subseteq Reqs
    BY <2>1, <2>2, AppendRange, QueueTypes
  <2>4. NumLogical(r) \in Nat \ {0} /\ Len(held[r]) \in Nat /\ held[r] \in Seq(Blocks)
    BY <2>1, NumLogicalProperties DEF PinInv, IInv, TypeOK, Owners
  <2>5. held'[r] # <<>> /\ \A s \in Reqs : s # r => held'[s] = held[s]
    <3>1. CASE Len(held[r]) < NumLogical(r)
      <4>1. /\ \A o \in Owners \ {r} : held'[o] = held[o]
            /\ Len(held'[r]) = Len(held[r]) + 1
        BY <2>1, <2>2, <3>1, AppendSlotRow DEF PinInv
      <4> QED
        BY <2>4, <4>1 DEF Owners
    <3>2. CASE ~(Len(held[r]) < NumLogical(r))
      <4>1. held' = held /\ held[r] # <<>>
        BY <2>2, <2>4, <3>2 DEF vars
      <4> QED
        BY <4>1
    <3> QED
      BY <3>1, <3>2
  <2>6. InFlight'
    BY <1>1, <2>2 DEF InFlight, ReleaserInstalled
  <2>7. PutsPinned'
    BY <1>1, <2>2, <2>3, <2>5 DEF PutsPinned, Executing
  <2> QED
    BY <2>6, <2>7
<1>3. CASE SPreempt
  <2> DEFINE r == todo[Len(todo)]
  <2>1. /\ pc = "slots" /\ r \in preempted'
        /\ status' = [status EXCEPT ![r] = "WAITING"]
        /\ UNCHANGED <<pc, batch, cfg, pendingLoads, saves, pendingPuts, delayed>>
    BY <1>3 DEF SPreempt, Preempt
  <2> HIDE DEF r
  <2>2. InFlight'
    BY <1>1, <2>1 DEF InFlight, ReleaserInstalled, QueuesTyped
  <2>3. PutsPinned'
    BY <1>1, <2>1 DEF PutsPinned, Executing
  <2> QED
    BY <2>2, <2>3
<1> QED
  BY <1>2, <1>3

LEMMA PinOfBatch ==
    ASSUME PinInv, SEndAdmission \/ SEndSlots
    PROVE  InFlight' /\ PutsPinned'
<1>1. /\ InFlight /\ PutsPinned /\ QueuesTyped /\ PlansTyped
      /\ batch \in Seq(Reqs) /\ running \in Seq(Reqs)
  BY DEF PinInv, ConnTypes, QueuesTyped
<1>2. held' = held /\ status' = status
  BY DEF SEndAdmission, EndAdmission, SEndSlots, EndSlots, vars
<1>3. ASSUME NEW scheduled \in Seq(Reqs), NEW victims \in SUBSET Reqs,
             BuildMeta(scheduled, victims), preempted' \subseteq Reqs,
             pendingPuts = {},
             \A r \in Reqs : pendingLoads[r] # <<>> => r \in Range(scheduled),
             scheduled = <<>> \/ batch' = scheduled,
             \A r \in Range(scheduled) : held[r] # <<>>,
             pc' \in {"step", "recompute", "free"}
      PROVE  InFlight' /\ PutsPinned'
  <2>1. /\ PlansFor(saves', Saving(scheduled), [r \in Reqs |-> SaveKeys(r)])
        /\ pendingPuts' = pendingPuts \cup (IF cfg.async THEN Saving(scheduled) ELSE {})
        /\ \A r \in Reqs : pendingLoads'[r] # <<>> =>
              pendingLoads'[r] = pendingLoads[r] /\ r \notin Range(scheduled)
    BY <1>1, <1>3, BuildMetaIs
  <2>2. cfg' = cfg /\ delayed' = delayed
    BY <1>3 DEF BuildMeta
  <2>3. /\ \A i \in DOMAIN saves' : saves'[i].req \in Saving(scheduled)
        /\ Saving(scheduled) \subseteq Range(scheduled)
    BY <2>1 DEF PlansFor, Saving
  <2>4. Saving(scheduled) \subseteq Range(batch')
    BY <1>3, <2>3, NoneRange
  <2>5. InFlight'
    BY <1>1, <1>2, <1>3, <2>1, <2>2, <2>4 DEF InFlight, ReleaserInstalled
  <2>6. PutsPinned'
    BY <1>2, <1>3, <2>1, <2>2, <2>3 DEF PutsPinned, Executing
  <2> QED
    BY <2>5, <2>6
<1>4. CASE SEndAdmission
  <2>1. /\ pc = "admit" /\ batch' = batch
        /\ IF batch # <<>> THEN pc' \in {"step", "recompute"}
           ELSE pc' = "slots" /\ running' = <<>>
    BY <1>4 DEF SEndAdmission, EndAdmission
  <2>2. CASE batch # <<>>
    <3>1. BuildMeta(batch, {}) /\ preempted' \subseteq Reqs /\ {} \in SUBSET Reqs
      BY <1>4, <2>2 DEF SEndAdmission
    <3>2. /\ pendingPuts = {}
          /\ \A r \in Reqs : pendingLoads[r] # <<>> => r \in Range(batch)
      BY <1>1, <2>1 DEF InFlight
    <3>3. \A r \in Range(batch) : held[r] # <<>>
      BY <1>1, <2>1 DEF PutsPinned
    <3> QED
      BY <1>1, <1>3, <2>1, <2>2, <3>1, <3>2, <3>3
  <2>3. CASE batch = <<>>
    <3>1. UNCHANGED <<cfg, pendingLoads, saves, pendingPuts, delayed>>
      BY <1>4, <2>3 DEF SEndAdmission
    <3>2. Range(<<>>) = {}
      BY NoneRange
    <3>3. InFlight'
      BY <1>1, <1>2, <2>1, <2>3, <3>1, <3>2 DEF InFlight, ReleaserInstalled
    <3>4. PutsPinned'
      BY <2>1, <2>3, <3>2 DEF PutsPinned, Executing
    <3> QED
      BY <3>3, <3>4
  <2> QED
    BY <2>2, <2>3
<1>5. CASE SEndSlots
  <2> DEFINE scheduled == IF preempted = {} THEN running ELSE <<>>
  <2>1. /\ pc = "slots" /\ batch' = running /\ pc' \in {"step", "recompute", "free"}
        /\ BuildMeta(scheduled, preempted)
        /\ preempted' \subseteq Reqs /\ preempted \in SUBSET Reqs
    BY <1>1, <1>5 DEF SEndSlots, EndSlots, PlansTyped
  <2>2. scheduled \in Seq(Reqs) /\ (scheduled = <<>> \/ batch' = scheduled)
    BY <1>1, <2>1
  <2>3. \A r \in Range(scheduled) : held[r] # <<>>
    BY <1>1, <2>1, NoneRange DEF PutsPinned
  <2> HIDE DEF scheduled
  <2>4. pendingPuts = {} /\ \A r \in Reqs : pendingLoads[r] = <<>>
    BY <1>1, <2>1 DEF InFlight
  <2> QED
    BY <1>3, <2>1, <2>2, <2>3, <2>4
<1> QED
  BY <1>4, <1>5

LEMMA PinOfEffect ==
    ASSUME PinInv, UNCHANGED connVars, FinishRecompute \/ StepOne \/ CommitOne \/ NextLoop
    PROVE  InFlight' /\ PutsPinned'
<1>1. /\ InFlight /\ PutsPinned /\ ConnTypes
      /\ UNCHANGED <<cfg, pendingLoads, saves, pendingPuts, delayed, preempted>>
  BY DEF PinInv, connVars
<1>2. held' = held
  BY <1>1, RowsStay DEF NextLoop, vars
<1>3. /\ UNCHANGED <<status, running, batch>>
      /\ pc \in {"recompute", "step", "commit"} /\ pc' \in {"recompute", "step", "commit", "free"}
  BY DEF FinishRecompute, StepOne, CommitOne, NextLoop
<1>4. InFlight'
  BY <1>1, <1>3 DEF InFlight, ReleaserInstalled
<1>5. PutsPinned'
  BY <1>1, <1>2, <1>3 DEF PutsPinned, Executing
<1> QED
  BY <1>4, <1>5

LEMMA PinOfFree ==
    ASSUME PinInv, SFreeOne
    PROVE  InFlight' /\ PutsPinned'
<1> DEFINE r == Head(todo)
<1>1. InFlight /\ PutsPinned /\ QueuesTyped /\ PlansTyped
  BY DEF PinInv, ConnTypes
<1>2. /\ pc = "free" /\ todo # <<>> /\ UNCHANGED <<pc, running, batch, cfg, saves, pendingPuts>>
  BY DEF SFreeOne, FreeOne
<1>3. r \in Reqs
  BY <1>1, <1>2, QueueTypes DEF QueuesTyped
<1> HIDE DEF r
<1>4. CASE r \in pendingPuts /\ IsDone(r)
  <2>1. /\ status' = [status EXCEPT ![r] = "WAITING_FOR_CONNECTOR_FREE"]
        /\ delayed' = delayed \cup {r}
        /\ held' = held /\ pendingLoads' = pendingLoads
    BY <1>2, <1>4 DEF SFreeOne, vars, r
  <2>2. InFlight'
    BY <1>1, <1>2, <1>4, <2>1 DEF InFlight, ReleaserInstalled, QueuesTyped
  <2>3. PutsPinned'
    BY <1>1, <1>2, <2>1 DEF PutsPinned, Executing
  <2> QED
    BY <2>2, <2>3
<1>5. CASE ~(r \in pendingPuts /\ IsDone(r))
  <2>1. /\ FreeOne /\ delayed' = delayed
        /\ Forget({s \in Reqs : held[s] # <<>> /\ held'[s] = <<>>})
    BY <1>5 DEF SFreeOne, r
  <2>2. IF IsDone(r) THEN Finish(r) /\ status' = [status EXCEPT ![r] = "FINISHED_STOPPED"]
        ELSE UNCHANGED <<vars, status>>
    BY <2>1 DEF FreeOne, r
  <2>3. \A s \in Reqs : s # r \/ ~IsDone(r) => held'[s] = held[s]
    <3>1. CASE IsDone(r)
      <4>1. \A o \in Owners \ {r} : held'[o] = held[o]
        BY <1>3, <2>2, <3>1, FreedRow DEF PinInv
      <4> QED
        BY <3>1, <4>1 DEF Owners
    <3>2. CASE ~IsDone(r)
      BY <2>2, <3>2 DEF vars
    <3> QED
      BY <3>1, <3>2
  <2>4. \A s \in pendingPuts : held'[s] = held[s]
    BY <1>1, <1>5, <2>3 DEF PlansTyped
  <2>5. \A s \in Reqs : pendingLoads'[s] \in {<<>>, pendingLoads[s]}
    BY <2>1 DEF Forget, Forgotten
  <2>6. \A s \in Reqs : status'[s] = "WAITING_FOR_CONNECTOR_FREE" =>
                        status[s] = "WAITING_FOR_CONNECTOR_FREE"
    BY <1>1, <2>2 DEF QueuesTyped
  <2>7. InFlight'
    BY <1>1, <1>2, <2>1, <2>5, <2>6 DEF InFlight, ReleaserInstalled
  <2>8. PutsPinned'
    BY <1>1, <1>2, <2>4 DEF PutsPinned, Executing
  <2> QED
    BY <2>7, <2>8
<1> QED
  BY <1>4, <1>5

LEMMA PinOfSave ==
    ASSUME PinInv, EndUpdate \/ SaveBlocks
    PROVE  InFlight' /\ PutsPinned'
<1>1. /\ InFlight /\ PutsPinned
      /\ UNCHANGED <<held, status, batch, cfg, pendingLoads, saves, pendingPuts, delayed, preempted>>
  BY DEF PinInv, EndUpdate, SaveBlocks, connVars, vars
<1>2. /\ pc \in {"recompute", "free", "save"} /\ pc' \in {"mailbox", "save", "feedback"}
      /\ pc' = "mailbox" => batch = <<>>
  BY DEF EndUpdate, SaveBlocks
<1>3. InFlight'
  BY <1>1, <1>2, NoneRange DEF InFlight, ReleaserInstalled
<1>4. PutsPinned'
  BY <1>1, <1>2 DEF PutsPinned, Executing
<1> QED
  BY <1>3, <1>4

LEMMA PinOfFeedback ==
    ASSUME PinInv, EndFeedback \/ \E r \in Reqs : ReleaseDelayed(r)
    PROVE  InFlight' /\ PutsPinned'
<1>1. InFlight /\ PutsPinned /\ QueuesTyped /\ pc = "feedback" /\ cfg' = cfg
  BY DEF PinInv, ConnTypes, EndFeedback, ReleaseDelayed
<1>2. \A s \in Reqs : pendingLoads'[s] \in {<<>>, pendingLoads[s]}
  BY DEF EndFeedback, ReleaseDelayed, Forget, Forgotten
<1>3. CASE EndFeedback
  <2>1. /\ pc' = "mailbox" /\ pendingPuts' = {} /\ delayed' = delayed
        /\ pendingPuts \cap delayed = {} /\ status' = status
    BY <1>3 DEF EndFeedback
  <2>2. InFlight'
    BY <1>1, <1>2, <2>1 DEF InFlight, ReleaserInstalled
  <2>3. PutsPinned'
    BY <2>1 DEF PutsPinned, Executing
  <2> QED
    BY <2>2, <2>3
<1>4. CASE \E r \in Reqs : ReleaseDelayed(r)
  <2>1. PICK r \in Reqs : ReleaseDelayed(r)
    BY <1>4
  <2>2. /\ pc' = "feedback" /\ delayed' = delayed \ {r}
        /\ UNCHANGED <<pendingPuts, batch>>
        /\ IF ReleaserInstalled THEN status' = [status EXCEPT ![r] = "FINISHED_STOPPED"]
           ELSE status' = status
    BY <1>1, <2>1 DEF ReleaseDelayed
  <2>3. InFlight'
    BY <1>1, <1>2, <2>2 DEF InFlight, ReleaserInstalled, QueuesTyped
  <2>4. PutsPinned'
    BY <2>2 DEF PutsPinned, Executing
  <2> QED
    BY <2>3, <2>4
<1> QED
  BY <1>3, <1>4

LEMMA PinStep == PinInv /\ [ConnNext]_everything => PinInv'
<1> SUFFICES ASSUME PinInv, [ConnNext]_everything
             PROVE  PinInv'
  OBVIOUS
<1>1. ConnTypes'
  BY ConnStepTypes DEF PinInv
<1>2. IInv'
  BY ConnStepsBlocks, StepKeepsIInv DEF PinInv
<1>3. CASE UNCHANGED everything
  BY <1>1, <1>2, <1>3 DEF everything, allVars, vars, schedVars, connVars, PinInv, InFlight, PutsPinned,
     Executing, ReleaserInstalled
<1>4. CASE ConnNext
  <2>1. InFlight' /\ PutsPinned'
    BY <1>4, PinOfMailbox, PinOfAdmit, PinOfSlots, PinOfBatch, PinOfEffect, PinOfFree,
       PinOfSave, PinOfFeedback DEF ConnNext, ConnStep
  <2> QED
    BY <1>1, <1>2, <2>1 DEF PinInv
<1> QED
  BY <1>3, <1>4

\* The blocks of a put in flight stay allocated until it is reported, and no put,
\* load or delayed request is left over between two steps, for every
\* configuration, every capacity and every set of requests.
THEOREM PutsArePinned == ConnSpec => []PinnedWhileSaved
<1> QED
  BY PinInitially, PinStep, PinnedNow, PTL DEF ConnSpec

-----------------------------------------------------------------------------
(* The store of the connector: what TieredStoreProofs says of one partition. *)
(* Its last part has the counters, which play no role here.                  *)

SP == INSTANCE TieredStoreProofs WITH
    Parts <- {1}, PartOf <- [k \in Keys |-> 1], Chains <- {InputKeys[r] : r \in Reqs},
    policy <- cfg.policy, tier <- store.tier, read <- store.read,
    memLru <- store.memLru, memUsed <- store.memUsed, offLru <- store.offLru,
    LedgerPolicies <- {}, MaxCalls <- 0,
    n <- 0, unread <- {}, seen <- {}, departed <- <<>>, served <- {}

LEMMA StorePartition == SP!StoreAssumption
BY ConnAssumption, RequestsAssumption DEF SP!StoreAssumption

\* The operators of the two instances are the same.
LEMMA SameOrders ==
    ASSUME NEW s, NEW k
    PROVE  /\ Store!Without(s, k) = SP!Without(s, k)
           /\ Store!MoveToEnd(s, k) = SP!MoveToEnd(s, k)
           /\ Store!Stored(s, k) = SP!Stored(s, k)
           /\ Store!Touched(s, k) = SP!Touched(s, k)
           /\ Store!Served(s, k) = SP!Served(s, k)
<1>1. Store!Range(s) = SP!Range(s)
  BY DEF Store!Range, SP!Range
<1>2. Store!Without(s, k) = SP!Without(s, k)
  BY DEF Store!Without, SP!Without, Store!Range, SP!Range
<1>3. Store!MoveToEnd(s, k) = SP!MoveToEnd(s, k)
  BY <1>1, <1>2 DEF Store!MoveToEnd, SP!MoveToEnd
<1>4. Store!Stored(s, k) = SP!Stored(s, k)
  BY <1>2 DEF Store!Stored, SP!Stored
<1>5. Store!Touched(s, k) = SP!Touched(s, k)
  BY DEF Store!Touched, SP!Touched, Store!MoveToEnd, SP!MoveToEnd, Store!Without, SP!Without,
         Store!Range, SP!Range
<1>6. Store!Served(s, k) = SP!Served(s, k)
  BY DEF Store!Served, SP!Served, Store!Range, SP!Range
<1> QED
  BY <1>2, <1>3, <1>4, <1>5, <1>6

LEMMA SameStore ==
    ASSUME NEW s, NEW k
    PROVE  /\ Store!Put(s, k) = SP!Put(s, k)
           /\ Store!Got(s, k) = SP!Got(s, k)
           /\ Store!Credited(s, k) = SP!Credited(s, k)
<1>1. /\ \A x, K : Store!Dropped(x, K) = SP!Dropped(x, K)
      /\ \A x, p : Store!FullTier(x, p) = SP!FullTier(x, p)
      /\ \A x, p : Store!Popped(x, p) = SP!Popped(x, p)
      /\ \A x, p : Store!CanEvict(x, p) = SP!CanEvict(x, p)
      /\ Store!WritesThrough = SP!WritesThrough
  BY DEF Store!Dropped, SP!Dropped, Store!FullTier, SP!FullTier, Store!Popped, SP!Popped,
         Store!CanEvict, SP!CanEvict, Store!WritesThrough, SP!WritesThrough
<1>2. \A x, j : Store!OffloadVictims(x, j) = SP!OffloadVictims(x, j)
  BY <1>1 DEF Store!OffloadVictims, SP!OffloadVictims
<1>3. \A x, j : Store!OffloadWrite(x, j) = SP!OffloadWrite(x, j)
  BY <1>1, <1>2, SameOrders DEF Store!OffloadWrite, SP!OffloadWrite
<1>4. \A x, j : Store!NotDemoted(x, j) = SP!NotDemoted(x, j)
  BY <1>1 DEF Store!NotDemoted, SP!NotDemoted, Store!Range, SP!Range
<1>5. \A x, p : Store!EvictMemory(x, p) = SP!EvictMemory(x, p)
  BY <1>1, <1>3, <1>4 DEF Store!EvictMemory, SP!EvictMemory
<1>6. \A x, j : Store!AdmitMemory(x, j) = SP!AdmitMemory(x, j)
  BY <1>1, <1>3 DEF Store!AdmitMemory, SP!AdmitMemory
<1>7. \A x, j : Store!Bypass(x, j) = SP!Bypass(x, j)
  BY <1>3 DEF Store!Bypass, SP!Bypass
<1>8. Store!Put(s, k) = SP!Put(s, k)
  BY <1>1, <1>5, <1>6, <1>7, SameOrders DEF Store!Put, SP!Put
<1>9. Store!Got(s, k) = SP!Got(s, k)
  BY DEF Store!Got, SP!Got, Store!Touched, SP!Touched, Store!MoveToEnd, SP!MoveToEnd,
         Store!Without, SP!Without, Store!Range, SP!Range
<1>10. Store!Credited(s, k) = SP!Credited(s, k)
  BY DEF Store!Credited, SP!Credited, Store!HitKeys, SP!HitKeys, Store!Served, SP!Served,
         Store!Range, SP!Range
<1> QED
  BY <1>8, <1>9, <1>10

\* A store's contents in the order that its tiers keep.
SoundStores == {s \in SP!Store : SP!Sound(s)}

\* What puts of the keys K make of s: nothing but K comes in, and with room for
\* everything all of K is there and nothing left.
PutsOf(s, t, K) ==
    /\ \A k \in Keys \ K : s.tier[k] = "none" => t.tier[k] = "none"
    /\ Roomy => /\ \A k \in K : t.tier[k] # "none"
                /\ \A k \in Keys : s.tier[k] # "none" => t.tier[k] # "none"

LEMMA NoPuts ==
    ASSUME NEW s
    PROVE  PutsOf(s, s, {})
BY DEF PutsOf

LEMMA PutsCompose ==
    ASSUME NEW s, NEW t, NEW u, NEW K \in SUBSET Keys, NEW L \in SUBSET Keys,
           PutsOf(s, t, K), PutsOf(t, u, L)
    PROVE  PutsOf(s, u, K \cup L)
BY DEF PutsOf

LEMMA OnePut ==
    ASSUME NEW s \in SoundStores, NEW k \in Keys
    PROVE  Store!Put(s, k) \in SoundStores /\ PutsOf(s, Store!Put(s, k), {k})
<1> DEFINE t == Store!Put(s, k)
<1>1. SP!Sound(s) /\ t = SP!Put(s, k)
  BY SameStore DEF SoundStores
<1>2. SP!Sound(t)
  BY <1>1, StorePartition, SP!PutKeeps
<1>3. /\ \A j \in Keys \ {k} : s.tier[j] = "none" => t.tier[j] = "none"
      /\ Roomy => /\ t.tier[k] # "none"
                  /\ \A j \in Keys : s.tier[j] # "none" => t.tier[j] # "none"
  BY <1>1, StorePartition, SP!PutBringsIn DEF Roomy
<1> HIDE DEF t
<1>4. t \in SoundStores
  BY <1>2 DEF SoundStores, SP!Sound
<1> QED
  BY <1>3, <1>4 DEF PutsOf, t

LEMMA OneGet ==
    ASSUME NEW s \in SoundStores, NEW k \in Keys
    PROVE  Store!Got(s, k) \in SoundStores /\ Store!Got(s, k).tier = s.tier
<1>1. SP!Sound(s) /\ Store!Got(s, k) = SP!Got(s, k)
  BY SameStore DEF SoundStores
<1>2. SP!Sound(SP!Got(s, k)) /\ SP!Got(s, k).tier = s.tier
  BY <1>1, StorePartition, SP!GotKeeps
<1> QED
  BY <1>1, <1>2 DEF SoundStores, SP!Sound

LEMMA OneLookup ==
    ASSUME NEW s \in SoundStores, NEW chain
    PROVE  /\ Store!Credited(s, chain) \in SoundStores
           /\ Store!Credited(s, chain).tier = s.tier
<1>1. SP!Sound(s) /\ Store!Credited(s, chain) = SP!Credited(s, chain)
  BY SameStore DEF SoundStores
<1>2. SP!Sound(SP!Credited(s, chain)) /\ SP!Credited(s, chain).tier = s.tier
  BY <1>1, StorePartition, SP!CreditedKeeps
<1> QED
  BY <1>1, <1>2 DEF SoundStores, SP!Sound

\* The store has what it lists: data of the offload tier is never missing.
LEMMA ServedIsStored ==
    ASSUME NEW s \in SoundStores, NEW k \in Keys
    PROVE  Store!Served(s, k) <=> s.tier[k] # "none"
<1>1. SP!Sound(s) /\ Store!Served(s, k) = SP!Served(s, k)
  BY SameOrders DEF SoundStores
<1>2. s.tier[k] = "ssd" => SP!Holds(s, k)
  BY <1>1 DEF SP!Sound
<1> QED
  BY <1>1, <1>2 DEF SP!Served, SP!Holds

-----------------------------------------------------------------------------
(* A list of keys, and a list of plans *)

\* The states of the store between the puts of a list.
LEMMA PutAllSteps ==
    ASSUME NEW s \in SoundStores, NEW keys \in Seq(Keys)
    PROVE  \E f \in [0 .. Len(keys) -> SoundStores] :
                /\ f[0] = s /\ f[Len(keys)] = PutAll(s, keys)
                /\ \A i \in 1 .. Len(keys) : f[i] = Store!Put(f[i - 1], keys[i])
<1> DEFINE n == Len(keys)
           D == SoundStores
           Rec(g) == g = [i \in 0..n |-> IF i = 0 THEN s ELSE Store!Put(g[i - 1], keys[i])]
           after == CHOOSE g : Rec(g)
           step == [i \in 1..n |-> [q \in D |-> Store!Put(q, keys[i])]]
<1>1. n \in Nat /\ \A i \in 1..n : keys[i] \in Keys
  BY LenProperties
<1>2. \A i \in 1..n : \A q \in D : Store!Put(q, keys[i]) \in D
  <2> HIDE DEF n
  <2> QED
    BY <1>1, OnePut
<1>3. step \in [1..n -> [D -> D]]
  <2> HIDE DEF n, D
  <2> QED
    BY <1>2
<1>4. \E f : IsChain(f, n, D, s, step)
  <2> HIDE DEF n, step
  <2> QED
    BY <1>1, <1>3, StepsExist
<1>5. PICK f \in [0..n -> D] : f[0] = s /\ \A i \in 1..n : f[i] = step[i][f[i - 1]]
  BY <1>4 DEF IsChain
<1> HIDE DEF n, D, step
<1>6. \A i \in 1..n : f[i - 1] \in D /\ i \in 0..n /\ i # 0
  BY <1>1, <1>5
<1>7. \A i \in 1..n : f[i] = Store!Put(f[i - 1], keys[i])
  BY <1>5, <1>6 DEF step
<1>8. Rec(f)
  <2>1. \A i \in 0..n : i = 0 \/ i \in 1..n
    BY <1>1
  <2> QED
    BY <1>5, <1>7, <2>1
<1>9. Rec(after)
  BY <1>8
<1>10. PutAll(s, keys) = after[n]
  BY DEF PutAll, n
<1> HIDE DEF after
<1>11. after[0] = s /\ \A i \in 1..n : after[i] = Store!Put(after[i - 1], keys[i])
  <2>1. 0 \in 0..n /\ \A i \in 1..n : i \in 0..n /\ i # 0
    BY <1>1
  <2> QED
    BY <1>9, <2>1
<1> DEFINE G == {k \in 0..n : after[k] = f[k]}
<1>12. 0 \in G
  BY <1>1, <1>5, <1>11
<1>13. \A i \in 1..n : i - 1 \in G => i \in G
  BY <1>6, <1>7, <1>11
<1>14. n \in G
  <2> HIDE DEF G
  <2> QED
    BY <1>1, <1>12, <1>13, CountsUp
<1>15. f[n] = PutAll(s, keys)
  BY <1>10, <1>14
<1> QED
  BY <1>5, <1>7, <1>15 DEF n, D

\* The states of the store between the gets of a list.
LEMMA GotAllSteps ==
    ASSUME NEW s \in SoundStores, NEW keys \in Seq(Keys)
    PROVE  \E f \in [0 .. Len(keys) -> SoundStores] :
                /\ f[0] = s /\ f[Len(keys)] = GotAll(s, keys)
                /\ \A i \in 1 .. Len(keys) : f[i] = Store!Got(f[i - 1], keys[i])
<1> DEFINE n == Len(keys)
           D == SoundStores
           Rec(g) == g = [i \in 0..n |-> IF i = 0 THEN s ELSE Store!Got(g[i - 1], keys[i])]
           after == CHOOSE g : Rec(g)
           step == [i \in 1..n |-> [q \in D |-> Store!Got(q, keys[i])]]
<1>1. n \in Nat /\ \A i \in 1..n : keys[i] \in Keys
  BY LenProperties
<1>2. \A i \in 1..n : \A q \in D : Store!Got(q, keys[i]) \in D
  <2> HIDE DEF n
  <2> QED
    BY <1>1, OneGet
<1>3. step \in [1..n -> [D -> D]]
  <2> HIDE DEF n, D
  <2> QED
    BY <1>2
<1>4. \E f : IsChain(f, n, D, s, step)
  <2> HIDE DEF n, step
  <2> QED
    BY <1>1, <1>3, StepsExist
<1>5. PICK f \in [0..n -> D] : f[0] = s /\ \A i \in 1..n : f[i] = step[i][f[i - 1]]
  BY <1>4 DEF IsChain
<1> HIDE DEF n, D, step
<1>6. \A i \in 1..n : f[i - 1] \in D /\ i \in 0..n /\ i # 0
  BY <1>1, <1>5
<1>7. \A i \in 1..n : f[i] = Store!Got(f[i - 1], keys[i])
  BY <1>5, <1>6 DEF step
<1>8. Rec(f)
  <2>1. \A i \in 0..n : i = 0 \/ i \in 1..n
    BY <1>1
  <2> QED
    BY <1>5, <1>7, <2>1
<1>9. Rec(after)
  BY <1>8
<1>10. GotAll(s, keys) = after[n]
  BY DEF GotAll, n
<1> HIDE DEF after
<1>11. after[0] = s /\ \A i \in 1..n : after[i] = Store!Got(after[i - 1], keys[i])
  <2>1. 0 \in 0..n /\ \A i \in 1..n : i \in 0..n /\ i # 0
    BY <1>1
  <2> QED
    BY <1>9, <2>1
<1> DEFINE G == {k \in 0..n : after[k] = f[k]}
<1>12. 0 \in G
  BY <1>1, <1>5, <1>11
<1>13. \A i \in 1..n : i - 1 \in G => i \in G
  BY <1>6, <1>7, <1>11
<1>14. n \in G
  <2> HIDE DEF G
  <2> QED
    BY <1>1, <1>12, <1>13, CountsUp
<1>15. f[n] = GotAll(s, keys)
  BY <1>10, <1>14
<1> QED
  BY <1>5, <1>7, <1>15 DEF n, D

\* After it the store has what PutsOf says.
LEMMA PutAllEffect ==
    ASSUME NEW s \in SoundStores, NEW keys \in Seq(Keys)
    PROVE  PutAll(s, keys) \in SoundStores /\ PutsOf(s, PutAll(s, keys), Range(keys))
<1> DEFINE n == Len(keys)
           K(k) == {keys[j] : j \in 1..k}
<1>1. n \in Nat /\ DOMAIN keys = 1..n /\ \A i \in 1..n : keys[i] \in Keys /\ {keys[i]} \subseteq Keys
  BY LenProperties
<1>2. PICK f \in [0..n -> SoundStores] :
        /\ f[0] = s /\ f[n] = PutAll(s, keys)
        /\ \A i \in 1..n : f[i] = Store!Put(f[i - 1], keys[i])
  BY PutAllSteps
<1> HIDE DEF n
<1> DEFINE G == {k \in 0..n : PutsOf(s, f[k], K(k))}
<1>3. 0 \in G
  <2>1. K(0) = {} /\ 0 \in 0..n
    BY <1>1
  <2> QED
    BY <1>2, <2>1, NoPuts
<1>4. ASSUME NEW i \in 1..n, i - 1 \in G
      PROVE  i \in G
  <2>1. i - 1 \in 0..n /\ i \in 0..n /\ f[i - 1] \in SoundStores
    BY <1>1, <1>2
  <2>2. PutsOf(f[i - 1], f[i], {keys[i]})
    BY <1>1, <1>2, <2>1, OnePut
  <2>3. PutsOf(s, f[i - 1], K(i - 1))
    BY <1>4
  <2>4. K(i) = K(i - 1) \cup {keys[i]} /\ K(i - 1) \in SUBSET Keys /\ {keys[i]} \in SUBSET Keys
    <3>1. \A j : j \in 1..i <=> j \in 1..(i - 1) \/ j = i
      BY <1>1
    <3>2. \A j \in 1..(i - 1) : j \in 1..n
      BY <1>1
    <3> QED
      BY <1>1, <3>1, <3>2
  <2> HIDE DEF K
  <2>5. PutsOf(s, f[i], K(i))
    BY <2>2, <2>3, <2>4, PutsCompose
  <2> QED
    BY <2>1, <2>5
<1>5. n \in G
  <2> HIDE DEF G
  <2> QED
    BY <1>1, <1>3, <1>4, CountsUp
<1>6. K(n) = Range(keys)
  BY <1>1 DEF Range
<1>7. f[n] \in SoundStores
  BY <1>1, <1>2
<1> QED
  BY <1>2, <1>5, <1>6, <1>7 DEF n

\* Gets change the order of what the store has, not what it has.
LEMMA GotAllEffect ==
    ASSUME NEW s \in SoundStores, NEW keys \in Seq(Keys)
    PROVE  GotAll(s, keys) \in SoundStores /\ GotAll(s, keys).tier = s.tier
<1> DEFINE n == Len(keys)
<1>1. n \in Nat /\ \A i \in 1..n : keys[i] \in Keys
  BY LenProperties
<1>2. PICK f \in [0..n -> SoundStores] :
        /\ f[0] = s /\ f[n] = GotAll(s, keys)
        /\ \A i \in 1..n : f[i] = Store!Got(f[i - 1], keys[i])
  BY GotAllSteps
<1> HIDE DEF n
<1> DEFINE G == {k \in 0..n : f[k].tier = s.tier}
<1>3. 0 \in G
  BY <1>1, <1>2
<1>4. ASSUME NEW i \in 1..n, i - 1 \in G
      PROVE  i \in G
  <2>1. i - 1 \in 0..n /\ i \in 0..n /\ f[i - 1] \in SoundStores
    BY <1>1, <1>2
  <2>2. f[i] = Store!Got(f[i - 1], keys[i]) /\ keys[i] \in Keys
    BY <1>1, <1>2
  <2>3. f[i].tier = f[i - 1].tier
    BY <2>1, <2>2, OneGet
  <2> QED
    BY <1>4, <2>1, <2>3
<1>5. n \in G
  <2> HIDE DEF G
  <2> QED
    BY <1>1, <1>3, <1>4, CountsUp
<1>6. f[n] \in SoundStores
  BY <1>1, <1>2
<1> QED
  BY <1>2, <1>5, <1>6 DEF n

PlannedKeys(plans) == UNION {Range(plans[i].keys) : i \in DOMAIN plans}

\* The same for the plans of a step, which are put, or got, one after the other.
LEMMA PutPlansSteps ==
    ASSUME NEW s \in SoundStores, NEW plans \in Seq(Plan)
    PROVE  \E f \in [0 .. Len(plans) -> SoundStores] :
                /\ f[0] = s /\ f[Len(plans)] = PutPlans(s, plans)
                /\ \A i \in 1 .. Len(plans) : f[i] = PutAll(f[i - 1], plans[i].keys)
<1> DEFINE n == Len(plans)
           D == SoundStores
           Rec(g) == g = [i \in 0..n |-> IF i = 0 THEN s ELSE PutAll(g[i - 1], plans[i].keys)]
           after == CHOOSE g : Rec(g)
           step == [i \in 1..n |-> [q \in D |-> PutAll(q, plans[i].keys)]]
<1>1. n \in Nat /\ \A i \in 1..n : plans[i] \in Plan
  BY LenProperties
<1>2. \A i \in 1..n : \A q \in D : PutAll(q, plans[i].keys) \in D
  <2> HIDE DEF n
  <2> QED
    BY <1>1, PutAllEffect DEF Plan
<1>3. step \in [1..n -> [D -> D]]
  <2> HIDE DEF n, D
  <2> QED
    BY <1>2
<1>4. \E f : IsChain(f, n, D, s, step)
  <2> HIDE DEF n, step
  <2> QED
    BY <1>1, <1>3, StepsExist
<1>5. PICK f \in [0..n -> D] : f[0] = s /\ \A i \in 1..n : f[i] = step[i][f[i - 1]]
  BY <1>4 DEF IsChain
<1> HIDE DEF n, D, step
<1>6. \A i \in 1..n : f[i - 1] \in D /\ i \in 0..n /\ i # 0
  BY <1>1, <1>5
<1>7. \A i \in 1..n : f[i] = PutAll(f[i - 1], plans[i].keys)
  BY <1>5, <1>6 DEF step
<1>8. Rec(f)
  <2>1. \A i \in 0..n : i = 0 \/ i \in 1..n
    BY <1>1
  <2> QED
    BY <1>5, <1>7, <2>1
<1>9. Rec(after)
  BY <1>8
<1>10. PutPlans(s, plans) = after[n]
  BY DEF PutPlans, n
<1> HIDE DEF after
<1>11. after[0] = s /\ \A i \in 1..n : after[i] = PutAll(after[i - 1], plans[i].keys)
  <2>1. 0 \in 0..n /\ \A i \in 1..n : i \in 0..n /\ i # 0
    BY <1>1
  <2> QED
    BY <1>9, <2>1
<1> DEFINE G == {k \in 0..n : after[k] = f[k]}
<1>12. 0 \in G
  BY <1>1, <1>5, <1>11
<1>13. \A i \in 1..n : i - 1 \in G => i \in G
  BY <1>6, <1>7, <1>11
<1>14. n \in G
  <2> HIDE DEF G
  <2> QED
    BY <1>1, <1>12, <1>13, CountsUp
<1>15. f[n] = PutPlans(s, plans)
  BY <1>10, <1>14
<1> QED
  BY <1>5, <1>7, <1>15 DEF n, D

LEMMA GotPlansSteps ==
    ASSUME NEW s \in SoundStores, NEW plans \in Seq(Plan)
    PROVE  \E f \in [0 .. Len(plans) -> SoundStores] :
                /\ f[0] = s /\ f[Len(plans)] = GotPlans(s, plans)
                /\ \A i \in 1 .. Len(plans) : f[i] = GotAll(f[i - 1], plans[i].keys)
<1> DEFINE n == Len(plans)
           D == SoundStores
           Rec(g) == g = [i \in 0..n |-> IF i = 0 THEN s ELSE GotAll(g[i - 1], plans[i].keys)]
           after == CHOOSE g : Rec(g)
           step == [i \in 1..n |-> [q \in D |-> GotAll(q, plans[i].keys)]]
<1>1. n \in Nat /\ \A i \in 1..n : plans[i] \in Plan
  BY LenProperties
<1>2. \A i \in 1..n : \A q \in D : GotAll(q, plans[i].keys) \in D
  <2> HIDE DEF n
  <2> QED
    BY <1>1, GotAllEffect DEF Plan
<1>3. step \in [1..n -> [D -> D]]
  <2> HIDE DEF n, D
  <2> QED
    BY <1>2
<1>4. \E f : IsChain(f, n, D, s, step)
  <2> HIDE DEF n, step
  <2> QED
    BY <1>1, <1>3, StepsExist
<1>5. PICK f \in [0..n -> D] : f[0] = s /\ \A i \in 1..n : f[i] = step[i][f[i - 1]]
  BY <1>4 DEF IsChain
<1> HIDE DEF n, D, step
<1>6. \A i \in 1..n : f[i - 1] \in D /\ i \in 0..n /\ i # 0
  BY <1>1, <1>5
<1>7. \A i \in 1..n : f[i] = GotAll(f[i - 1], plans[i].keys)
  BY <1>5, <1>6 DEF step
<1>8. Rec(f)
  <2>1. \A i \in 0..n : i = 0 \/ i \in 1..n
    BY <1>1
  <2> QED
    BY <1>5, <1>7, <2>1
<1>9. Rec(after)
  BY <1>8
<1>10. GotPlans(s, plans) = after[n]
  BY DEF GotPlans, n
<1> HIDE DEF after
<1>11. after[0] = s /\ \A i \in 1..n : after[i] = GotAll(after[i - 1], plans[i].keys)
  <2>1. 0 \in 0..n /\ \A i \in 1..n : i \in 0..n /\ i # 0
    BY <1>1
  <2> QED
    BY <1>9, <2>1
<1> DEFINE G == {k \in 0..n : after[k] = f[k]}
<1>12. 0 \in G
  BY <1>1, <1>5, <1>11
<1>13. \A i \in 1..n : i - 1 \in G => i \in G
  BY <1>6, <1>7, <1>11
<1>14. n \in G
  <2> HIDE DEF G
  <2> QED
    BY <1>1, <1>12, <1>13, CountsUp
<1>15. f[n] = GotPlans(s, plans)
  BY <1>10, <1>14
<1> QED
  BY <1>5, <1>7, <1>15 DEF n, D

\* A save brings in the planned keys.
LEMMA PutPlansEffect ==
    ASSUME NEW s \in SoundStores, NEW plans \in Seq(Plan)
    PROVE  PutPlans(s, plans) \in SoundStores /\ PutsOf(s, PutPlans(s, plans), PlannedKeys(plans))
<1> DEFINE n == Len(plans)
           K(k) == UNION {Range(plans[j].keys) : j \in 1..k}
<1>1. /\ n \in Nat /\ DOMAIN plans = 1..n
      /\ \A i \in 1..n : plans[i] \in Plan /\ Range(plans[i].keys) \subseteq Keys
  <2>1. n \in Nat /\ DOMAIN plans = 1..n /\ \A i \in 1..n : plans[i] \in Plan
    BY LenProperties
  <2>2. \A p \in Plan : Range(p.keys) \subseteq Keys
    BY DEF Plan, Range
  <2> QED
    BY <2>1, <2>2
<1>2. PICK f \in [0..n -> SoundStores] :
        /\ f[0] = s /\ f[n] = PutPlans(s, plans)
        /\ \A i \in 1..n : f[i] = PutAll(f[i - 1], plans[i].keys)
  BY PutPlansSteps
<1> HIDE DEF n
<1> DEFINE G == {k \in 0..n : PutsOf(s, f[k], K(k))}
<1>3. 0 \in G
  <2>1. K(0) = {} /\ 0 \in 0..n
    BY <1>1
  <2> QED
    BY <1>2, <2>1, NoPuts
<1>4. ASSUME NEW i \in 1..n, i - 1 \in G
      PROVE  i \in G
  <2>1. i - 1 \in 0..n /\ i \in 0..n /\ f[i - 1] \in SoundStores
    BY <1>1, <1>2
  <2>2. PutsOf(f[i - 1], f[i], Range(plans[i].keys))
    BY <1>1, <1>2, <2>1, PutAllEffect DEF Plan
  <2>3. PutsOf(s, f[i - 1], K(i - 1))
    BY <1>4
  <2>4. /\ K(i) = K(i - 1) \cup Range(plans[i].keys)
        /\ K(i - 1) \in SUBSET Keys /\ Range(plans[i].keys) \in SUBSET Keys
    <3>1. \A j : j \in 1..i <=> j \in 1..(i - 1) \/ j = i
      BY <1>1
    <3>2. \A j \in 1..(i - 1) : j \in 1..n
      BY <1>1
    <3> QED
      BY <1>1, <3>1, <3>2
  <2> HIDE DEF K
  <2>5. PutsOf(s, f[i], K(i))
    BY <2>2, <2>3, <2>4, PutsCompose
  <2> QED
    BY <2>1, <2>5
<1>5. n \in G
  <2> HIDE DEF G
  <2> QED
    BY <1>1, <1>3, <1>4, CountsUp
<1>6. K(n) = PlannedKeys(plans)
  BY <1>1 DEF PlannedKeys
<1>7. f[n] \in SoundStores
  BY <1>1, <1>2
<1> QED
  BY <1>2, <1>5, <1>6, <1>7 DEF n

\* A load brings in nothing.
LEMMA GotPlansEffect ==
    ASSUME NEW s \in SoundStores, NEW plans \in Seq(Plan)
    PROVE  GotPlans(s, plans) \in SoundStores /\ GotPlans(s, plans).tier = s.tier
<1> DEFINE n == Len(plans)
<1>1. n \in Nat /\ \A i \in 1..n : plans[i] \in Plan
  BY LenProperties
<1>2. PICK f \in [0..n -> SoundStores] :
        /\ f[0] = s /\ f[n] = GotPlans(s, plans)
        /\ \A i \in 1..n : f[i] = GotAll(f[i - 1], plans[i].keys)
  BY GotPlansSteps
<1> HIDE DEF n
<1> DEFINE G == {k \in 0..n : f[k].tier = s.tier}
<1>3. 0 \in G
  BY <1>1, <1>2
<1>4. ASSUME NEW i \in 1..n, i - 1 \in G
      PROVE  i \in G
  <2>1. i - 1 \in 0..n /\ i \in 0..n /\ f[i - 1] \in SoundStores
    BY <1>1, <1>2
  <2>2. f[i] = GotAll(f[i - 1], plans[i].keys) /\ plans[i].keys \in Seq(Keys)
    BY <1>1, <1>2 DEF Plan
  <2>3. f[i].tier = f[i - 1].tier
    BY <2>1, <2>2, GotAllEffect
  <2> QED
    BY <1>4, <2>1, <2>3
<1>5. n \in G
  <2> HIDE DEF G
  <2> QED
    BY <1>1, <1>3, <1>4, CountsUp
<1>6. f[n] \in SoundStores
  BY <1>1, <1>2
<1> QED
  BY <1>2, <1>5, <1>6 DEF n

-----------------------------------------------------------------------------
(* What the eviction hook is given *)

LEMMA SuffixOfConcat ==
    ASSUME NEW S, NEW s \in Seq(S), NEW t \in Seq(S)
    PROVE  SubSeq(s \o t, Len(s) + 1, Len(s \o t)) = t
<1> DEFINE u == s \o t
           v == SubSeq(u, Len(s) + 1, Len(u))
<1>1. /\ Len(s) \in Nat /\ Len(t) \in Nat /\ Len(u) = Len(s) + Len(t) /\ u \in Seq(S)
      /\ \A i \in 1..(Len(s) + Len(t)) : u[i] = IF i <= Len(s) THEN s[i] ELSE t[i - Len(s)]
  BY ConcatProperties
<1> HIDE DEF u
<1>2. v \in Seq(S) /\ Len(v) = Len(t) /\ \A i \in 1..Len(v) : v[i] = u[Len(s) + i]
  <2>1. v \in Seq(S) /\ Len(v) = (IF Len(s) <= Len(u) THEN Len(u) - Len(s) ELSE 0)
        /\ \A i \in 1..Len(v) : v[i] = u[Len(s) + i]
    BY <1>1, SliceProperties
  <2> QED
    BY <1>1, <2>1
<1> HIDE DEF v
<1>3. ASSUME NEW i \in 1..Len(v)
      PROVE  v[i] = t[i]
  <2>1. Len(s) + i \in 1..(Len(s) + Len(t)) /\ ~(Len(s) + i <= Len(s)) /\ (Len(s) + i) - Len(s) = i
    BY <1>1, <1>2
  <2> QED
    BY <1>1, <1>2, <2>1
<1>4. v = t
  BY <1>2, <1>3, SameSequence
<1> QED
  BY <1>4 DEF v, u

\* The blocks `new` were popped, and the index lost what they were evicted from.
Popping(new) ==
    /\ new \in Seq(Blocks)
    /\ index' = Evicted(Range(new))
    /\ \A b \in Range(new) : ~cached'[b]

\* What an admission takes is its row after the blocks that it reuses.
LEMMA AdmissionPops ==
    ASSUME IInv, NEW r \in Reqs, Allocate(r)
    PROVE  \E h \in 0..Len(InputKeys[r]) :
                IsHitCount(r, h) /\ Popping(SubSeq(held'[r], h + 1, Len(held'[r])))
<1>1. PICK h \in 0..Len(InputKeys[r]) :
         /\ IsHitCount(r, h)
         /\ \E new \in [1..MissCount(r, h) -> Blocks] :
              Take(r, HitBlocks(r, h), new,
                   [i \in DOMAIN new |-> IF h + i <= Len(InputKeys[r])
                                         THEN InputKeys[r][h + i] ELSE NoKey])
  BY DEF Allocate
<1>2. PICK new \in [1..MissCount(r, h) -> Blocks] :
         /\ held' = [held EXCEPT ![r] = (@ \o HitBlocks(r, h)) \o new]
         /\ index' = Evicted(Range(new))
         /\ cached' = [b \in Blocks |-> b \notin Range(new) /\ cached[b]]
  BY <1>1 DEF Take
<1>3. held \in [Owners -> Seq(Blocks)] /\ r \in Owners /\ held[r] = <<>>
  BY DEF IInv, TypeOK, Owners, Allocate
<1>4. HitBlocks(r, h) \in Seq(Blocks) /\ Len(HitBlocks(r, h)) = h
  BY <1>1, HitsAreThePrefix
<1>5. new \in Seq(Blocks)
  <2>1. MissCount(r, h) \in Int
    BY ChainType, LogicalCoversInput DEF MissCount
  <2> QED
    BY <2>1, FunctionIsSeq
<1>6. held'[r] = (<<>> \o HitBlocks(r, h)) \o new
  BY <1>2, <1>3
<1>7. <<>> \o HitBlocks(r, h) \in Seq(Blocks) /\ Len(<<>> \o HitBlocks(r, h)) = h
  BY <1>4
<1>8. SubSeq(held'[r], h + 1, Len(held'[r])) = new
  <2> DEFINE front == <<>> \o HitBlocks(r, h)
  <2>1. front \in Seq(Blocks) /\ Len(front) = h /\ held'[r] = front \o new
    BY <1>6, <1>7
  <2> HIDE DEF front
  <2> QED
    BY <1>5, <2>1, SuffixOfConcat
<1>9. \A b \in Range(new) : ~cached'[b]
  <2>1. Range(new) \subseteq Blocks
    BY <1>5 DEF Range
  <2> QED
    BY <1>2, <2>1
<1> QED
  BY <1>1, <1>2, <1>5, <1>8, <1>9 DEF Popping

LEMMA SlotPops ==
    ASSUME IInv, NEW r \in Reqs, AppendSlot(r)
    PROVE  Popping(SubSeq(held'[r], Len(held[r]) + 1, Len(held'[r])))
<1>1. PICK new \in [1..1 -> Blocks] :
         /\ held' = [held EXCEPT ![r] = (@ \o <<>>) \o new]
         /\ index' = Evicted(Range(new))
         /\ cached' = [b \in Blocks |-> b \notin Range(new) /\ cached[b]]
  BY DEF AppendSlot, Take
<1>2. held \in [Owners -> Seq(Blocks)] /\ r \in Owners
  BY DEF IInv, TypeOK, Owners
<1>3. new \in Seq(Blocks)
  <2>1. PICK one \in Int : one = 1
    OBVIOUS
  <2>2. new \in [1..one -> Blocks]
    BY <2>1
  <2> QED
    BY <2>2, FunctionIsSeq
<1>4. held'[r] = held[r] \o new /\ held[r] \in Seq(Blocks)
  <2>1. held'[r] = (held[r] \o <<>>) \o new
    BY <1>1, <1>2
  <2> QED
    BY <1>2, <2>1, ConcatEmptySeq
<1>5. SubSeq(held'[r], Len(held[r]) + 1, Len(held'[r])) = new
  BY <1>3, <1>4, SuffixOfConcat
<1>6. \A b \in Range(new) : ~cached'[b]
  <2>1. Range(new) \subseteq Blocks
    BY <1>3 DEF Range
  <2> QED
    BY <1>1, <2>1
<1> QED
  BY <1>1, <1>3, <1>5, <1>6 DEF Popping

\* The hook gets the keys of the cached ones among the popped blocks.
LEMMA EvictedKeysAre ==
    ASSUME IInv, NEW new \in Seq(Blocks)
    PROVE  /\ EvictedKeys(new) \in Seq(Keys)
           /\ \A k : k \in Range(EvictedKeys(new)) <=>
                k \in Keys /\ \E b \in Range(new) : cached[b] /\ hash[b] = k
<1> DEFINE s == [i \in DOMAIN new |-> IF cached[new[i]] THEN hash[new[i]] ELSE NoKey]
           q == Kept(s, Keys)
<1>1. /\ DOMAIN new = 1..Len(new) /\ Len(new) \in Nat /\ \A i \in DOMAIN new : new[i] \in Blocks
      /\ hash \in [Blocks -> Keys \cup {NoKey}] /\ NoKey \notin Keys
  BY RequestsAssumption DEF IInv, TypeOK
<1>2. s \in Seq(Keys \cup {NoKey})
  <2>a. Len(new) \in Int
    BY <1>1
  <2>1. PICK n \in Int : n = Len(new)
    BY <2>a, Zenon
  <2>2. s \in [1..n -> Keys \cup {NoKey}]
    BY <1>1, <2>1
  <2> HIDE DEF s
  <2> QED
    BY <2>2, FunctionIsSeq
<1>3. \A k : k \in Range(s) \cap Keys <=> k \in Keys /\ \E b \in Range(new) : cached[b] /\ hash[b] = k
  BY <1>1 DEF Range
<1>4. EvictedKeys(new) = q
  BY DEF EvictedKeys
<1> HIDE DEF s
<1>5. q \in Seq(Keys \cup {NoKey}) /\ Range(q) = Range(s) \cap Keys
  BY <1>2, KeptProperties
<1> HIDE DEF q
<1>6. q \in Seq(Keys)
  <2>1. Len(q) \in Nat /\ DOMAIN q = 1..Len(q) /\ \A i \in 1..Len(q) : q[i] \in Keys
    BY <1>5 DEF Range
  <2>2. q \in [1..Len(q) -> Keys]
    BY <1>5, <2>1
  <2>a. Len(q) \in Int
    BY <2>1
  <2>3. PICK n \in Int : n = Len(q)
    BY <2>a, Zenon
  <2> QED
    BY <2>2, <2>3, FunctionIsSeq
<1> QED
  BY <1>3, <1>4, <1>5, <1>6

\* The entries that leave the index are those the hook is given.
LEMMA HookGetsEvicted ==
    ASSUME IInv, NEW new, Popping(new), NEW k \in Keys, index[k] # NoBlock, index'[k] = NoBlock
    PROVE  k \in Range(EvictedKeys(new))
<1>1. index[k] \in Range(new) /\ cached[index[k]] /\ hash[index[k]] = k
  BY DEF Popping, Evicted
<1> QED
  BY <1>1, EvictedKeysAre DEF Popping

-----------------------------------------------------------------------------
(* What each step does to the store *)

SpillInv ==
    /\ IInv
    /\ ConnTypes
    /\ store \in SoundStores
    /\ cfg.evict = "spill_only" => saves = <<>>

\* A step pops blocks and spills them, writes the saves of the step, or moves
\* nothing in and out of the store.
Spilling ==
    \E new, s : /\ Popping(new) /\ s \in SoundStores /\ s.tier = store.tier
                /\ store' = Spilled(s, new)

WritingSaves ==
    /\ SaveBlocks /\ index' = index
    /\ store' = PutPlans(store, saves)

Reading ==
    /\ store' \in SoundStores /\ store'.tier = store.tier
    /\ \A k \in Keys : index[k] # NoBlock => index'[k] # NoBlock

LEMMA SpilledIs ==
    ASSUME IInv, NEW s \in SoundStores, NEW new, Popping(new)
    PROVE  /\ Spilled(s, new) \in SoundStores
           /\ Spills => PutsOf(s, Spilled(s, new), Range(EvictedKeys(new)))
           /\ ~Spills => Spilled(s, new) = s
<1>1. EvictedKeys(new) \in Seq(Keys)
  BY EvictedKeysAre DEF Popping
<1>2. /\ PutAll(s, EvictedKeys(new)) \in SoundStores
      /\ PutsOf(s, PutAll(s, EvictedKeys(new)), Range(EvictedKeys(new)))
  BY <1>1, PutAllEffect
<1> QED
  BY <1>2 DEF Spilled

LEMMA AdmitSpills == SpillInv /\ SAdmit => Spilling
<1> SUFFICES ASSUME SpillInv, SAdmit
             PROVE  Spilling
  OBVIOUS
<1> DEFINE r == Head(waiting)
           local == LocalHits(r)
           new == SubSeq(held'[r], local + 1, Len(held'[r]))
           chain == SubSeq(InputKeys[r], LookupStart(local) + 1, Len(InputKeys[r]))
<1>1. r \in Reqs /\ Allocate(r)
  BY QueueTypes DEF SpillInv, ConnTypes, QueuesTyped, SAdmit, Admit, MayAdmit
<1>2. store' = Spilled(Store!Credited(store, chain), new)
  BY DEF SAdmit, LocalHits
<1> HIDE DEF r
<1>3. PICK h \in 0..Len(InputKeys[r]) :
        IsHitCount(r, h) /\ Popping(SubSeq(held'[r], h + 1, Len(held'[r])))
  BY <1>1, AdmissionPops DEF SpillInv
<1>4. local \in 0..Len(InputKeys[r]) /\ IsHitCount(r, local)
  BY <1>3 DEF LocalHits
<1>5. local = h
  BY <1>1, <1>3, <1>4, HitCountUnique
<1>6. Popping(new)
  BY <1>3, <1>5
<1>7. Store!Credited(store, chain) \in SoundStores /\ Store!Credited(store, chain).tier = store.tier
  BY OneLookup DEF SpillInv
<1> QED
  BY <1>2, <1>6, <1>7 DEF Spilling

LEMMA SlotSpills == SpillInv /\ SGiveSlot => Spilling
<1> SUFFICES ASSUME SpillInv, SGiveSlot
             PROVE  Spilling
  OBVIOUS
<1> DEFINE r == Head(todo)
           new == SubSeq(held'[r], Len(held[r]) + 1, Len(held'[r]))
<1>1. r \in Reqs
  BY QueueTypes DEF SpillInv, ConnTypes, QueuesTyped, SGiveSlot, GiveSlot
<1>2. store' = Spilled(store, new) /\ (AppendSlot(r) \/ UNCHANGED vars)
  BY DEF SGiveSlot, GiveSlot
<1> HIDE DEF r
<1>3. ASSUME AppendSlot(r)
      PROVE  Popping(new)
  BY <1>1, <1>3, SlotPops DEF SpillInv
<1>4. ASSUME UNCHANGED vars
      PROVE  Popping(new)
  <2>1. /\ held'[r] = held[r] /\ held[r] \in Seq(Blocks)
        /\ index' = index /\ index \in [Keys -> Blocks \cup {NoBlock}]
    BY <1>1, <1>4 DEF vars, SpillInv, IInv, TypeOK, Owners
  <2>2. new = <<>>
    <3>1. Len(held[r]) \in Nat
      BY <2>1
    <3>2. new \in Seq(Blocks) /\ Len(new) = 0
      <4>1. SubSeq(held[r], Len(held[r]) + 1, Len(held[r])) \in Seq(Blocks)
            /\ Len(SubSeq(held[r], Len(held[r]) + 1, Len(held[r]))) =
                 IF Len(held[r]) <= Len(held[r]) THEN Len(held[r]) - Len(held[r]) ELSE 0
        BY <2>1, <3>1, SliceProperties
      <4> QED
        BY <2>1, <3>1, <4>1
    <3> QED
      BY <3>2, EmptySeq
  <2>3. <<>> \in Seq(Blocks) /\ Range(<<>>) = {}
    BY NoneRange
  <2>4. Evicted({}) = index
    BY <2>1 DEF Evicted
  <2>5. Popping(<<>>)
    BY <2>1, <2>3, <2>4 DEF Popping
  <2> QED
    BY <2>2, <2>5
<1>5. Popping(new)
  BY <1>2, <1>3, <1>4
<1> QED
  BY <1>2, <1>5 DEF Spilling, SpillInv

\* build_connector_meta() and start_load_kv() read the store; under spill_only
\* they plan no save.
LEMMA MetaReads ==
    ASSUME SpillInv, NEW scheduled \in Seq(Reqs), NEW victims, victims \subseteq Reqs,
           BuildMeta(scheduled, victims), preempted' \subseteq Reqs, index' = index
    PROVE  Reading /\ (cfg.evict = "spill_only" => saves' = <<>>)
<1>1. /\ PlansFor(loads', Loading(scheduled), pendingLoads)
      /\ PlansFor(saves', Saving(scheduled), [r \in Reqs |-> SaveKeys(r)])
  BY BuildMetaIs DEF SpillInv, ConnTypes
<1>2. loads' \in Seq(Plan) /\ saves' \in Seq(Plan)
      /\ \A i \in DOMAIN saves' : saves'[i].req \in Saving(scheduled)
  BY <1>1 DEF PlansFor
<1>3. store' = GotPlans(store, loads')
  BY DEF BuildMeta
<1>4. store' \in SoundStores /\ store'.tier = store.tier
  BY <1>2, <1>3, GotPlansEffect DEF SpillInv
<1>5. cfg.evict = "spill_only" => Saving(scheduled) = {}
  BY DEF Saving, MaySave
<1>6. cfg.evict = "spill_only" => saves' = <<>>
  <2>1. saves' = <<>> \/ 1 \in DOMAIN saves'
    BY <1>2, EmptySeq
  <2> QED
    BY <1>2, <1>5, <2>1
<1> QED
  BY <1>4, <1>6 DEF Reading

LEMMA StoreMoves ==
    SpillInv /\ [ConnNext]_everything =>
        /\ cfg' = cfg
        /\ Spilling \/ WritingSaves \/ Reading
        /\ cfg.evict = "spill_only" => saves' = <<>>
<1> SUFFICES ASSUME SpillInv, [ConnNext]_everything
             PROVE  /\ cfg' = cfg
                    /\ Spilling \/ WritingSaves \/ Reading
                    /\ cfg.evict = "spill_only" => saves' = <<>>
  OBVIOUS
<1> USE DEF SpillInv
<1>0. /\ todo # <<>> => Head(todo) \in Reqs /\ todo[Len(todo)] \in Reqs
      /\ batch \in Seq(Reqs) /\ running \in Seq(Reqs) /\ preempted \subseteq Reqs
  BY QueueTypes DEF ConnTypes, QueuesTyped, PlansTyped
<1>1. ASSUME store' = store, index' = index \/
             (\E r \in Reqs : Step(r) \/ CommitInput(r) \/ Release(r) \/ Finish(r))
      PROVE  Reading
  BY <1>1, OnlyTakingEvicts DEF Reading
<1>2. CASE UNCHANGED everything
  BY <1>1, <1>2 DEF everything, allVars, connVars, vars
<1>3. CASE SAdmit
  BY <1>3, AdmitSpills DEF SAdmit
<1>4. CASE SGiveSlot
  BY <1>4, SlotSpills DEF SGiveSlot
<1>5. CASE SPreempt
  BY <1>0, <1>1, <1>5 DEF SPreempt, Preempt
<1>6. CASE SEndAdmission
  <2>1. index' = index /\ preempted' = {}
    BY <1>6 DEF SEndAdmission, EndAdmission, vars
  <2>2. CASE batch # <<>>
    <3>1. BuildMeta(batch, {})
      BY <1>6, <2>2 DEF SEndAdmission
    <3>2. cfg' = cfg
      BY <3>1 DEF BuildMeta
    <3>3. {} \subseteq Reqs /\ preempted' \subseteq Reqs
      BY <2>1
    <3>4. Reading /\ (cfg.evict = "spill_only" => saves' = <<>>)
      BY <1>0, <2>1, <3>1, <3>3, MetaReads
    <3> QED
      BY <3>2, <3>4
  <2>3. CASE batch = <<>>
    BY <1>1, <1>6, <2>1, <2>3 DEF SEndAdmission
  <2> QED
    BY <2>2, <2>3
<1>7. CASE SEndSlots
  <2> DEFINE scheduled == IF preempted = {} THEN running ELSE <<>>
  <2>1. /\ index' = index /\ preempted' = preempted /\ BuildMeta(scheduled, preempted)
        /\ scheduled \in Seq(Reqs)
    BY <1>0, <1>7 DEF SEndSlots, EndSlots, vars
  <2> HIDE DEF scheduled
  <2> QED
    BY <1>0, <2>1, MetaReads DEF BuildMeta
<1>8. CASE SFreeOne
  BY <1>0, <1>1, <1>8 DEF SFreeOne, FreeOne, vars
<1>9. CASE EndUpdate
  BY <1>1, <1>9 DEF EndUpdate, connVars, vars
<1>10. CASE SaveBlocks
  BY <1>10 DEF SaveBlocks, WritingSaves, vars
<1>11. CASE EndFeedback
  BY <1>1, <1>11 DEF EndFeedback, vars
<1>12. CASE \E r \in Reqs : ReleaseDelayed(r)
  BY <1>1, <1>12 DEF ReleaseDelayed, vars
<1>13. CASE (Receive \/ StartStep \/ FinishRecompute \/ StepOne \/ CommitOne \/ NextLoop)
            /\ UNCHANGED connVars
  <2>1. index' = index \/
             (\E r \in Reqs : Step(r) \/ CommitInput(r) \/ Release(r) \/ Finish(r))
    BY <1>0, <1>13 DEF Receive, AddRequest, StartStep, FinishRecompute, StepOne, CommitOne, NextLoop, vars
  <2> QED
    BY <1>1, <1>13, <2>1 DEF connVars
<1>14. CASE \E r \in Reqs : (Deliver(r) \/ Send(r)) /\ UNCHANGED connVars
  BY <1>1, <1>14 DEF Deliver, Send, AddRequest, connVars, vars
<1> QED
  BY <1>2, <1>3, <1>4, <1>5, <1>6, <1>7, <1>8, <1>9, <1>10, <1>11, <1>12, <1>13, <1>14
     DEF ConnNext, ConnStep

\* The policy of a run does not change, and with it what a sound store is.
LEMMA SoundStoresStay ==
    ASSUME cfg' = cfg
    PROVE  SoundStores' = SoundStores
BY DEF SoundStores, SP!Store, SP!Sound, SP!MemorySound, SP!OffloadSound, SP!Filtered, SP!Holds

LEMMA SpillStep == SpillInv /\ [ConnNext]_everything => SpillInv'
<1> SUFFICES ASSUME SpillInv, [ConnNext]_everything
             PROVE  SpillInv'
  OBVIOUS
<1>1. /\ cfg' = cfg
      /\ Spilling \/ WritingSaves \/ Reading
      /\ cfg.evict = "spill_only" => saves' = <<>>
  BY StoreMoves
<1>2. ConnTypes' /\ IInv'
  BY ConnStepTypes, ConnStepsBlocks, StepKeepsIInv DEF SpillInv
<1>3. store' \in SoundStores
  <2>1. CASE Spilling
    BY <2>1, SpilledIs DEF Spilling, SpillInv
  <2>2. CASE WritingSaves
    BY <2>2, PutPlansEffect DEF WritingSaves, SpillInv, ConnTypes, PlansTyped
  <2>3. CASE Reading
    BY <2>3 DEF Reading
  <2> QED
    BY <1>1, <2>1, <2>2, <2>3
<1>4. store' \in SoundStores'
  BY <1>1, <1>3, SoundStoresStay
<1> QED
  BY <1>1, <1>2, <1>4 DEF SpillInv

LEMMA SpillInitially == ConnInit => SpillInv
<1> SUFFICES ASSUME ConnInit
             PROVE  SpillInv
  OBVIOUS
<1>1. IInv /\ ConnTypes /\ saves = <<>>
  <2>1. Init
    BY DEF ConnInit, SchedInit
  <2> QED
    BY <2>1, InitIInv, ConnInitTypes DEF ConnInit
<1>2. store = [tier |-> [k \in Keys |-> "none"], read |-> [k \in Keys |-> FALSE],
               memLru |-> <<(<<>>)>>, memUsed |-> <<0>>, offLru |-> <<(<<>>)>>]
  BY DEF ConnInit
<1>3. /\ <<(<<>>)>> \in [{1} -> Seq(Keys)] /\ <<0>> \in [{1} -> Nat]
      /\ <<(<<>>)>>[1] = <<>> /\ <<0>>[1] = 0
  <2>1. <<>> \in Seq(Keys)
    OBVIOUS
  <2>2. \A S : \A x \in S : <<x>> \in [{1} -> S] /\ <<x>>[1] = x
    <3> SUFFICES ASSUME NEW S, NEW x \in S
                 PROVE  <<x>> \in [{1} -> S] /\ <<x>>[1] = x
      OBVIOUS
    <3>1. <<x>> \in Seq(S) /\ Len(<<x>>) = 1 /\ <<x>>[1] = x
      OBVIOUS
    <3>2. 1 .. 1 = {1}
      OBVIOUS
    <3>3. <<x>> \in [1 .. Len(<<x>>) -> S]
      BY <3>1
    <3> QED
      BY <3>1, <3>2, <3>3
  <2>3. 0 \in Nat
    OBVIOUS
  <2> QED
    BY <2>1, <2>2, <2>3
<1>4. store \in SP!Store
  BY <1>2, <1>3 DEF SP!Store
<1>5. /\ Len(<<>>) = 0 /\ SP!Range(<<>>) = {} /\ SP!IsInjective(<<>>)
      /\ MemCap \in Nat /\ OffCap \in Nat
  BY ConnAssumption DEF SP!Range, SP!IsInjective
<1>6. /\ \A p \in {1} : store.memLru[p] = <<>> /\ store.memUsed[p] = 0 /\ store.offLru[p] = <<>>
      /\ \A k \in Keys : store.tier[k] = "none"
  BY <1>2, <1>3
<1>7. SP!MemorySound(store) /\ SP!OffloadSound(store)
  BY <1>5, <1>6 DEF SP!MemorySound, SP!OffloadSound
<1>8. SP!Sound(store)
  BY <1>4, <1>6, <1>7 DEF SP!Sound
<1> QED
  BY <1>1, <1>4, <1>8 DEF SpillInv, SoundStores

-----------------------------------------------------------------------------
(* What HBM evicts is kept, and spill_only stores nothing else *)

\* A key that HBM loses is popped with its block, and so spilled.
LEMMA EvictedIsKept ==
    ASSUME SpillInv, [ConnNext]_everything, Roomy, Spills,
           NEW k \in Keys, index[k] # NoBlock, index'[k] = NoBlock
    PROVE  store'.tier[k] # "none"
<1>1. CASE Spilling
  <2>1. PICK new, s : /\ Popping(new) /\ s \in SoundStores
                      /\ store' = Spilled(s, new)
    BY <1>1 DEF Spilling
  <2>2. PutsOf(s, store', Range(EvictedKeys(new)))
    BY <2>1, SpilledIs DEF SpillInv
  <2>3. k \in Range(EvictedKeys(new))
    BY <2>1, HookGetsEvicted DEF SpillInv
  <2> QED
    BY <2>2, <2>3 DEF PutsOf
<1>2. CASE WritingSaves
  BY <1>2 DEF WritingSaves
<1>3. CASE Reading
  BY <1>3 DEF Reading
<1> QED
  BY <1>1, <1>2, <1>3, StoreMoves

\* Without a save plan a key enters with a block that is popped.
LEMMA EnteringIsEvicted ==
    ASSUME SpillInv, [ConnNext]_everything, cfg.evict = "spill_only",
           NEW k \in Keys, store.tier[k] = "none", store'.tier[k] # "none"
    PROVE  \E b \in Blocks : cached[b] /\ hash[b] = k /\ ~cached'[b]
<1>1. CASE Spilling
  <2>1. PICK new, s : /\ Popping(new) /\ s \in SoundStores /\ s.tier = store.tier
                      /\ store' = Spilled(s, new)
    BY <1>1 DEF Spilling
  <2>2. Spills
    BY <2>1, SpilledIs DEF SpillInv
  <2>3. PutsOf(s, store', Range(EvictedKeys(new)))
    BY <2>1, <2>2, SpilledIs DEF SpillInv
  <2>4. k \in Range(EvictedKeys(new))
    BY <2>1, <2>3 DEF PutsOf
  <2>5. PICK b \in Range(new) : cached[b] /\ hash[b] = k
    BY <2>1, <2>4, EvictedKeysAre DEF SpillInv, Popping
  <2>6. b \in Blocks
    BY <2>1 DEF Popping, Range
  <2> QED
    BY <2>1, <2>5, <2>6 DEF Popping
<1>2. CASE WritingSaves
  <2>1. saves = <<>> /\ saves \in Seq(Plan)
    BY DEF SpillInv, ConnTypes, PlansTyped
  <2>2. PlannedKeys(saves) = {}
    BY <2>1 DEF PlannedKeys
  <2>3. PutsOf(store, store', {})
    BY <1>2, <2>1, <2>2, PutPlansEffect DEF WritingSaves, SpillInv
  <2> QED
    BY <2>3 DEF PutsOf
<1>3. CASE Reading
  BY <1>3 DEF Reading
<1> QED
  BY <1>1, <1>2, <1>3, StoreMoves

LEMMA SpillsStepwise ==
    SpillInv /\ [ConnNext]_everything =>
        /\ Roomy /\ Spills =>
            \A k \in Keys :
                index[k] # NoBlock /\ index'[k] = NoBlock => Store!Served(store', k)
        /\ cfg.evict = "spill_only" =>
            \A k \in Keys : store.tier[k] = "none" /\ store'.tier[k] # "none" =>
                \E b \in Blocks : cached[b] /\ hash[b] = k /\ ~cached'[b]
<1> SUFFICES ASSUME SpillInv, [ConnNext]_everything
             PROVE  /\ Roomy /\ Spills =>
                        \A k \in Keys :
                            index[k] # NoBlock /\ index'[k] = NoBlock => Store!Served(store', k)
                    /\ cfg.evict = "spill_only" =>
                        \A k \in Keys : store.tier[k] = "none" /\ store'.tier[k] # "none" =>
                            \E b \in Blocks : cached[b] /\ hash[b] = k /\ ~cached'[b]
  OBVIOUS
<1>1. store' \in SoundStores
  <2>1. SpillInv' /\ cfg' = cfg
    BY SpillStep, StoreMoves
  <2>2. store' \in SoundStores'
    BY <2>1 DEF SpillInv
  <2> QED
    BY <2>1, <2>2, SoundStoresStay
<1>2. ASSUME Roomy, Spills, NEW k \in Keys, index[k] # NoBlock, index'[k] = NoBlock
      PROVE  Store!Served(store', k)
  BY <1>1, <1>2, EvictedIsKept, ServedIsStored
<1>3. ASSUME cfg.evict = "spill_only", NEW k \in Keys,
             store.tier[k] = "none", store'.tier[k] # "none"
      PROVE  \E b \in Blocks : cached[b] /\ hash[b] = k /\ ~cached'[b]
  BY <1>3, EnteringIsEvicted
<1> QED
  BY <1>2, <1>3

\* What HBM evicts under a policy that spills is served by a store that loses
\* nothing, from the step of the eviction on; and under spill_only a key enters
\* the store only in the step in which HBM evicts it (_on_hbm_evict()).
THEOREM SpillsAreExact == ConnSpec => SpillsExact
<1> QED
  BY SpillInitially, SpillStep, SpillsStepwise, PTL
     DEF ConnSpec, SpillsExact, SpillsKept, OnlySpilledEnter

-----------------------------------------------------------------------------
(* What prefill computed is saved *)

\* The policies for which PrefillIsSaved makes its promise.
SavesAll == Aligned /\ cfg.evict # "spill_only" /\ Roomy

\* Every keyed block of r is stored or in a plan that the step will write,
\* unless r loaded from the store.
Offered(r) ==
    \/ r \in everLoaded
    \/ \A k \in Range(InputKeys[r]) :
            store.tier[k] # "none" \/ (Executing /\ k \in PlannedKeys(saves))

\* A request is offered in the step that gives it its first token: build_connector_meta()
\* plans what is missing, or finds that an earlier step did.
OfferedInTime ==
    /\ \A r \in Reqs : gen[r] # 0 \/ r \in savedIds => Offered(r)
    /\ \A r \in Range(running) : (pc = "admit" /\ r \in Range(batch)) \/ Offered(r)
    /\ pc \in {"slots", "step"} => \A r \in Range(todo) : Offered(r)
    /\ Executing => \A i \in DOMAIN saves : saves[i].req \in Range(batch)

SavedInv == SpillInv /\ (SavesAll => OfferedInTime)

LEMMA SavedNow == SavedInv => PrefillIsSaved
<1> SUFFICES ASSUME SavedInv, Aligned, cfg.evict # "spill_only", Roomy, pc = "mailbox",
                    NEW r \in Range(running) \ everLoaded, NEW k \in Range(InputKeys[r])
             PROVE  InStore(k)
  BY DEF PrefillIsSaved
<1>1. Offered(r)
  BY DEF SavedInv, SavesAll, OfferedInTime
<1>2. store.tier[k] # "none"
  BY <1>1 DEF Offered, Executing
<1>3. r \in Reqs
  BY QueueTypes DEF SavedInv, SpillInv, ConnTypes, QueuesTyped
<1>4. k \in Keys
  BY <1>3, ChainType DEF Range
<1> QED
  BY <1>2, <1>4, ServedIsStored DEF SavedInv, SpillInv, InStore

LEMMA SavedInitially == ConnInit => SavedInv
<1> SUFFICES ASSUME ConnInit
             PROVE  SavedInv
  OBVIOUS
<1>1. SpillInv
  BY SpillInitially
<1>2. gen = [r \in Reqs |-> 0]
  BY DEF ConnInit, SchedInit, Init
<1>3. /\ \A r \in Reqs : gen[r] = 0
      /\ savedIds = {} /\ running = <<>> /\ pc = "mailbox"
  BY <1>2 DEF ConnInit, SchedInit
<1>4. OfferedInTime
  BY <1>3, NoneRange DEF OfferedInTime, Executing
<1> QED
  BY <1>1, <1>4 DEF SavedInv

\* A store that loses nothing keeps its keys, and gets those of the plans.
LEMMA StoredStay ==
    ASSUME SpillInv, [ConnNext]_everything, Roomy, NEW k \in Keys, store.tier[k] # "none"
    PROVE  store'.tier[k] # "none"
<1>1. CASE Spilling
  <2>1. PICK new, s : /\ Popping(new) /\ s \in SoundStores /\ s.tier = store.tier
                      /\ store' = Spilled(s, new)
    BY <1>1 DEF Spilling
  <2>2. CASE Spills
    <3>1. PutsOf(s, store', Range(EvictedKeys(new)))
      BY <2>1, <2>2, SpilledIs DEF SpillInv
    <3> QED
      BY <2>1, <3>1 DEF PutsOf
  <2>3. CASE ~Spills
    BY <2>1, <2>3, SpilledIs DEF SpillInv
  <2> QED
    BY <2>2, <2>3
<1>2. CASE WritingSaves
  <2>1. PutsOf(store, store', PlannedKeys(saves))
    BY <1>2, PutPlansEffect DEF WritingSaves, SpillInv, ConnTypes, PlansTyped
  <2> QED
    BY <2>1 DEF PutsOf
<1>3. CASE Reading
  BY <1>3 DEF Reading
<1> QED
  BY <1>1, <1>2, <1>3, StoreMoves

LEMMA PlannedAreWritten ==
    ASSUME SpillInv, SaveBlocks, Roomy, NEW k \in PlannedKeys(saves)
    PROVE  store'.tier[k] # "none"
<1>1. PutsOf(store, store', PlannedKeys(saves))
  BY PutPlansEffect DEF SaveBlocks, SpillInv, ConnTypes, PlansTyped
<1> QED
  BY <1>1 DEF PutsOf

\* The plans last until they are written; a step that runs nothing has none.
LEMMA PlansLast ==
    ASSUME SavedInv, [ConnNext]_everything
    PROVE  /\ everLoaded \subseteq everLoaded'
           /\ \/ ~Executing
              \/ SaveBlocks
              \/ Executing' /\ saves' = saves
              \/ batch = <<>>
<1>1. CASE SAdmit \/ SGiveSlot \/ SPreempt
  BY <1>1 DEF SAdmit, Admit, SGiveSlot, GiveSlot, SPreempt, Preempt, Executing
<1>2. CASE SEndAdmission \/ SEndSlots
  BY <1>2 DEF SEndAdmission, EndAdmission, SEndSlots, EndSlots, BuildMeta, Executing
<1>3. CASE SFreeOne
  BY <1>3 DEF SFreeOne, FreeOne, Executing
<1>4. CASE EndUpdate
  BY <1>4 DEF EndUpdate, connVars, Executing
<1>5. CASE SaveBlocks
  BY <1>5 DEF SaveBlocks
<1>6. CASE EndFeedback \/ \E r \in Reqs : ReleaseDelayed(r)
  BY <1>6 DEF EndFeedback, ReleaseDelayed, Executing
<1>7. CASE (Receive \/ StartStep \/ FinishRecompute \/ StepOne \/ CommitOne \/ NextLoop)
            /\ UNCHANGED connVars
  BY <1>7 DEF Receive, AddRequest, StartStep, FinishRecompute, StepOne, CommitOne, NextLoop,
     connVars, Executing
<1>8. CASE \E r \in Reqs : (Deliver(r) \/ Send(r)) /\ UNCHANGED connVars
  BY <1>8 DEF Deliver, Send, AddRequest, connVars, Executing
<1>9. CASE UNCHANGED everything
  BY <1>9 DEF everything, allVars, schedVars, connVars, Executing
<1> QED
  BY <1>1, <1>2, <1>3, <1>4, <1>5, <1>6, <1>7, <1>8, <1>9 DEF ConnNext, ConnStep

LEMMA OfferedStays ==
    ASSUME SavedInv, SavesAll, [ConnNext]_everything, NEW r \in Reqs, Offered(r)
    PROVE  Offered(r)'
<1>1. CASE r \in everLoaded
  BY <1>1, PlansLast DEF Offered
<1>2. ASSUME r \notin everLoaded, NEW k \in Range(InputKeys[r])
      PROVE  store'.tier[k] # "none" \/ (Executing' /\ k \in PlannedKeys(saves'))
  <2>1. k \in Keys /\ SpillInv /\ Roomy
    BY ChainType DEF Range, SavedInv, SavesAll
  <2>2. CASE store.tier[k] # "none"
    BY <2>1, <2>2, StoredStay
  <2>3. CASE Executing /\ k \in PlannedKeys(saves)
    <3>1. batch # <<>>
      <4>1. PICK i \in DOMAIN saves : k \in Range(saves[i].keys)
        BY <2>3 DEF PlannedKeys
      <4>2. saves[i].req \in Range(batch)
        BY <2>3, <4>1 DEF SavedInv, OfferedInTime
      <4> QED
        BY <4>2, NoneRange
    <3>2. CASE SaveBlocks
      BY <2>1, <2>3, <3>2, PlannedAreWritten
    <3>3. CASE Executing' /\ saves' = saves
      BY <2>3, <3>3
    <3> QED
      BY <2>3, <3>1, <3>2, <3>3, PlansLast
  <2> QED
    BY <1>2, <2>2, <2>3 DEF Offered
<1> QED
  BY <1>1, <1>2 DEF Offered

\* Whatever a step schedules is offered by its metadata.
LEMMA MetaOffers ==
    ASSUME SavedInv, SavesAll, [ConnNext]_everything, ~Executing, Executing',
           NEW scheduled \in Seq(Reqs), NEW victims, victims \subseteq Reqs,
           BuildMeta(scheduled, victims), preempted' \subseteq Reqs,
           scheduled = <<>> \/ batch' = scheduled
    PROVE  /\ \A r \in Range(scheduled) : Offered(r)'
           /\ \A r \in Reqs : r \in savedIds' => Offered(r)'
           /\ \A i \in DOMAIN saves' : saves'[i].req \in Range(batch')
<1>1. /\ PlansFor(saves', Saving(scheduled), [r \in Reqs |-> SaveKeys(r)])
      /\ everLoaded' = everLoaded \cup Loading(scheduled)
  BY BuildMetaIs DEF SavedInv, SpillInv, ConnTypes
<1>2. Range(scheduled) \subseteq Reqs
  BY QueueTypes
<1>3. \A r \in Reqs : Offered(r) => Offered(r)'
  BY OfferedStays
<1>4. OfferedInTime /\ Aligned /\ cfg.evict # "spill_only" /\ Roomy /\ SpillInv
  BY DEF SavedInv, SavesAll
<1>5. ASSUME NEW r \in Range(scheduled)
      PROVE  Offered(r)'
  <2>1. r \in Reqs
    BY <1>2
  <2>2. CASE pendingLoads[r] # <<>>
    <3>1. r \in everLoaded'
      BY <1>1, <2>2 DEF Loading
    <3> QED
      BY <3>1 DEF Offered
  <2>3. CASE gen[r] # 0 \/ r \in savedIds
    BY <1>3, <1>4, <2>1, <2>3 DEF OfferedInTime
  <2>4. CASE pendingLoads[r] = <<>> /\ gen[r] = 0 /\ r \notin savedIds
    <3>1. MaySave(r)
      BY <1>4, <2>4 DEF MaySave
    <3>2. /\ SaveKeys(r) \in Seq(Keys)
          /\ Range(SaveKeys(r)) = {k \in Range(InputKeys[r]) : ~InStore(k)}
      BY <1>4, <2>1, SaveKeysAre
    <3>3. ASSUME NEW k \in Range(InputKeys[r])
          PROVE  store'.tier[k] # "none" \/ (Executing' /\ k \in PlannedKeys(saves'))
      <4>1. k \in Keys
        BY <2>1, ChainType DEF Range
      <4>2. CASE InStore(k)
        <5>1. store.tier[k] # "none"
          BY <1>4, <4>1, <4>2, ServedIsStored DEF SpillInv, InStore
        <5> QED
          BY <1>4, <4>1, <5>1, StoredStay
      <4>3. CASE ~InStore(k)
        <5>1. k \in Range(SaveKeys(r))
          BY <3>2, <4>3
        <5>2. r \in Saving(scheduled)
          BY <3>1, <5>1, NoneRange DEF Saving
        <5>3. PICK i \in DOMAIN saves' : saves'[i].req = r
          BY <1>1, <5>2 DEF PlansFor
        <5>4. saves'[i].keys = SaveKeys(r)
          BY <1>1, <2>1, <5>3 DEF PlansFor
        <5>5. k \in PlannedKeys(saves')
          BY <5>1, <5>3, <5>4 DEF PlannedKeys
        <5> QED
          BY <5>5
      <4> QED
        BY <4>2, <4>3
    <3> QED
      BY <3>3 DEF Offered
  <2> QED
    BY <2>2, <2>3, <2>4
<1>6. ASSUME NEW r \in Reqs, r \in savedIds'
      PROVE  Offered(r)'
  <2>1. savedIds' \subseteq savedIds \cup Range(scheduled)
    BY DEF BuildMeta
  <2> QED
    BY <1>3, <1>4, <1>5, <1>6, <2>1 DEF OfferedInTime
<1>7. ASSUME NEW i \in DOMAIN saves'
      PROVE  saves'[i].req \in Range(batch')
  <2>1. saves'[i].req \in Range(scheduled)
    BY <1>1 DEF PlansFor, Saving
  <2> QED
    BY <2>1, NoneRange
<1> QED
  BY <1>5, <1>6, <1>7

LEMMA SavedOfQueues ==
    ASSUME SavedInv, SavesAll, [ConnNext]_everything,
           SAdmit \/ SGiveSlot \/ SPreempt \/ (StartStep /\ UNCHANGED connVars)
    PROVE  OfferedInTime'
<1>1. /\ OfferedInTime
      /\ waiting \in Seq(Reqs) /\ running \in Seq(Reqs) /\ todo \in Seq(Reqs) /\ batch \in Seq(Reqs)
  BY DEF SavedInv, SpillInv, ConnTypes, QueuesTyped
<1>2. \A r \in Reqs : Offered(r) => Offered(r)'
  BY OfferedStays
<1>3. gen' = gen /\ savedIds' = savedIds
  <2>1. ASSUME NEW r \in Reqs, Allocate(r) \/ AppendSlot(r) \/ Release(r)
        PROVE  gen' = gen
    BY <2>1 DEF Allocate, AppendSlot, Release
  <2>2. waiting # <<>> => Head(waiting) \in Reqs
    BY <1>1, QueueTypes
  <2>3. todo # <<>> => Head(todo) \in Reqs /\ todo[Len(todo)] \in Reqs
    BY <1>1, QueueTypes
  <2> QED
    BY <2>1, <2>2, <2>3 DEF SAdmit, Admit, MayAdmit, SGiveSlot, GiveSlot, SPreempt, Preempt,
       StartStep, connVars, vars
<1>4. \A r \in Reqs : gen'[r] # 0 \/ r \in savedIds' => Offered(r)'
  BY <1>1, <1>2, <1>3 DEF OfferedInTime
<1>5. ~Executing' /\ pc' # "step"
  BY DEF SAdmit, Admit, SGiveSlot, GiveSlot, SPreempt, Preempt, StartStep, Executing
<1>6. Range(running) \subseteq Reqs /\ Range(todo) \subseteq Reqs
  BY <1>1, QueueTypes
<1>7. CASE SAdmit
  <2> DEFINE r == Head(waiting)
  <2>1. /\ pc = "admit" /\ pc' = "admit" /\ waiting # <<>>
        /\ running' = Append(running, r) /\ batch' = Append(batch, r)
    BY <1>7 DEF SAdmit, Admit, MayAdmit
  <2>2. r \in Reqs
    BY <1>1, <2>1, QueueTypes
  <2> HIDE DEF r
  <2>3. Range(running') = Range(running) \cup {r} /\ Range(batch') = Range(batch) \cup {r}
    BY <1>1, <2>1, <2>2, AppendRange
  <2>4. \A s \in Range(running') : s \in Range(batch') \/ Offered(s)'
    BY <1>1, <1>2, <1>6, <2>1, <2>3 DEF OfferedInTime
  <2> QED
    BY <1>4, <1>5, <2>1, <2>4 DEF OfferedInTime
<1>8. CASE SGiveSlot
  <2> DEFINE r == Head(todo)
  <2>1. /\ pc = "slots" /\ pc' = "slots" /\ todo # <<>>
        /\ running' = Append(running, r) /\ todo' = Tail(todo)
    BY <1>8 DEF SGiveSlot, GiveSlot
  <2>2. r \in Range(todo) /\ r \in Reqs /\ Range(todo') \subseteq Range(todo)
    BY <1>1, <2>1, QueueTypes DEF Range
  <2> HIDE DEF r
  <2>3. Range(running') = Range(running) \cup {r}
    BY <1>1, <2>1, <2>2, AppendRange
  <2>4. /\ \A s \in Range(running') : Offered(s)'
        /\ \A s \in Range(todo') : Offered(s)'
    BY <1>1, <1>2, <1>6, <2>1, <2>2, <2>3 DEF OfferedInTime
  <2> QED
    BY <1>4, <1>5, <2>1, <2>4 DEF OfferedInTime
<1>9. CASE SPreempt
  <2>1. /\ pc = "slots" /\ pc' = "slots" /\ todo # <<>>
        /\ running' = running /\ todo' = SubSeq(todo, 1, Len(todo) - 1)
    BY <1>9 DEF SPreempt, Preempt
  <2>2. Range(todo') \subseteq Range(todo)
    BY <1>1, <2>1 DEF Range
  <2>3. /\ \A s \in Range(running') : Offered(s)'
        /\ \A s \in Range(todo') : Offered(s)'
    BY <1>1, <1>2, <1>6, <2>1, <2>2 DEF OfferedInTime
  <2> QED
    BY <1>4, <1>5, <2>1, <2>3 DEF OfferedInTime
<1>10. CASE StartStep
  <2>1. pc = "mailbox" /\ pc' = "admit" /\ running' = running
    BY <1>10 DEF StartStep
  <2>2. \A s \in Range(running') : Offered(s)'
    BY <1>1, <1>2, <1>6, <2>1 DEF OfferedInTime
  <2> QED
    BY <1>4, <1>5, <2>1, <2>2 DEF OfferedInTime
<1> QED
  BY <1>7, <1>8, <1>9, <1>10

LEMMA SavedOfBatch ==
    ASSUME SavedInv, SavesAll, [ConnNext]_everything, SEndAdmission \/ SEndSlots
    PROVE  OfferedInTime'
<1>1. /\ OfferedInTime
      /\ running \in Seq(Reqs) /\ todo \in Seq(Reqs) /\ batch \in Seq(Reqs)
      /\ preempted \subseteq Reqs
  BY DEF SavedInv, SpillInv, ConnTypes, QueuesTyped, PlansTyped
<1>2. \A r \in Reqs : Offered(r) => Offered(r)'
  BY OfferedStays
<1>3. gen' = gen
  BY DEF SEndAdmission, EndAdmission, SEndSlots, EndSlots, vars
<1>4. \A r \in Reqs : gen'[r] # 0 => Offered(r)'
  BY <1>1, <1>2, <1>3 DEF OfferedInTime
<1>5. Range(running) \subseteq Reqs /\ Range(batch) \subseteq Reqs
  BY <1>1, QueueTypes
<1>6. CASE SEndAdmission
  <2>1. /\ pc = "admit" /\ batch' = batch /\ preempted' = {}
        /\ IF batch # <<>>
           THEN pc' \in {"step", "recompute"} /\ todo' = batch /\ running' = running
           ELSE pc' = "slots" /\ todo' \in ByArrival(running) /\ running' = <<>>
    BY <1>6 DEF SEndAdmission, EndAdmission
  <2>2. CASE batch # <<>>
    <3>1. BuildMeta(batch, {}) /\ ~Executing /\ Executing' /\ {} \subseteq Reqs /\ preempted' \subseteq Reqs
      BY <1>6, <2>1, <2>2 DEF SEndAdmission, Executing
    <3>2. /\ \A r \in Range(batch) : Offered(r)'
          /\ \A r \in Reqs : r \in savedIds' => Offered(r)'
          /\ \A i \in DOMAIN saves' : saves'[i].req \in Range(batch')
      BY <1>1, <2>1, <3>1, MetaOffers
    <3>3. \A r \in Range(running') : Offered(r)'
      BY <1>1, <1>2, <1>5, <2>1, <2>2, <3>2 DEF OfferedInTime
    <3> QED
      BY <1>4, <2>1, <2>2, <3>2, <3>3 DEF OfferedInTime
  <2>3. CASE batch = <<>>
    <3>1. savedIds' = savedIds /\ ~Executing'
      BY <1>6, <2>1, <2>3 DEF SEndAdmission, Executing
    <3>2. Range(todo') \subseteq Range(running) /\ Range(running') = {}
      BY <2>1, <2>3, NoneRange DEF ByArrival, Range
    <3>3. \A r \in Range(todo') : Offered(r)'
      BY <1>1, <1>2, <1>5, <2>1, <2>3, <3>2, NoneRange DEF OfferedInTime
    <3>4. \A r \in Reqs : gen'[r] # 0 \/ r \in savedIds' => Offered(r)'
      BY <1>1, <1>2, <1>4, <3>1 DEF OfferedInTime
    <3> QED
      BY <3>1, <3>2, <3>3, <3>4 DEF OfferedInTime
  <2> QED
    BY <2>2, <2>3
<1>7. CASE SEndSlots
  <2> DEFINE scheduled == IF preempted = {} THEN running ELSE <<>>
  <2>1. /\ pc = "slots" /\ batch' = running /\ todo' = running /\ running' = running
        /\ pc' \in {"step", "recompute", "free"} /\ preempted' = preempted
        /\ BuildMeta(scheduled, preempted)
        /\ scheduled = <<>> \/ batch' = scheduled
        /\ scheduled \in Seq(Reqs)
    BY <1>1, <1>7 DEF SEndSlots, EndSlots
  <2> HIDE DEF scheduled
  <2>2. ~Executing /\ Executing'
    BY <2>1 DEF Executing
  <2>3. /\ \A r \in Reqs : r \in savedIds' => Offered(r)'
        /\ \A i \in DOMAIN saves' : saves'[i].req \in Range(batch')
    BY <1>1, <2>1, <2>2, MetaOffers
  <2>4. \A r \in Range(running) : Offered(r)'
    BY <1>1, <1>2, <1>5, <2>1 DEF OfferedInTime
  <2> QED
    BY <1>4, <2>1, <2>3, <2>4 DEF OfferedInTime
<1> QED
  BY <1>6, <1>7

LEMMA SavedOfRest ==
    ASSUME SavedInv, SavesAll, [ConnNext]_everything,
           \/ SFreeOne \/ EndUpdate \/ SaveBlocks \/ EndFeedback
           \/ \E r \in Reqs : ReleaseDelayed(r)
           \/ /\ Receive \/ FinishRecompute \/ StepOne \/ CommitOne \/ NextLoop
              /\ UNCHANGED connVars
           \/ \E r \in Reqs : (Deliver(r) \/ Send(r)) /\ UNCHANGED connVars
           \/ UNCHANGED everything
    PROVE  OfferedInTime'
<1>1. /\ OfferedInTime
      /\ running \in Seq(Reqs) /\ todo \in Seq(Reqs)
      /\ gen \in [Reqs -> Nat]
  BY DEF SavedInv, SpillInv, ConnTypes, QueuesTyped, IInv, TypeOK
<1>2. \A r \in Reqs : Offered(r) => Offered(r)'
  BY OfferedStays
<1>3. Range(running) \subseteq Reqs /\ Range(todo) \subseteq Reqs
  BY <1>1, QueueTypes
<1>4. savedIds' \subseteq savedIds
  BY DEF SFreeOne, EndUpdate, SaveBlocks, EndFeedback, ReleaseDelayed, Forget, connVars, everything
<1>5. \A r \in Reqs : gen'[r] # 0 => gen[r] # 0 \/ (pc = "step" /\ r \in Range(todo))
  <2>1. CASE StepOne
    <3>1. pc = "step" /\ todo # <<>> /\ gen' = [gen EXCEPT ![Head(todo)] = @ + 1]
      BY <2>1 DEF StepOne, Step
    <3>2. Head(todo) \in Range(todo)
      BY <1>1, <3>1 DEF Range
    <3> QED
      BY <1>1, <3>1, <3>2
  <2>2. CASE ~StepOne
    <3>1. ASSUME NEW r \in Reqs, CommitInput(r) \/ Release(r) \/ Finish(r)
          PROVE  gen' = gen
      BY <3>1 DEF CommitInput, Release, Finish
    <3>2. todo # <<>> => Head(todo) \in Reqs
      BY <1>1, QueueTypes
    <3>3. gen' = gen
      BY <2>2, <3>1, <3>2 DEF SFreeOne, FreeOne, EndUpdate, SaveBlocks, EndFeedback, ReleaseDelayed,
         Receive, AddRequest, FinishRecompute, CommitOne, NextLoop, Deliver, Send, vars,
         everything, allVars
    <3> QED
      BY <3>3
  <2> QED
    BY <2>1, <2>2
<1>6. \A r \in Reqs : gen'[r] # 0 \/ r \in savedIds' => Offered(r)'
  BY <1>1, <1>2, <1>4, <1>5 DEF OfferedInTime
<1>7. /\ Range(running') \subseteq Range(running)
      /\ (pc = "admit" <=> pc' = "admit")
      /\ batch' = batch \/ pc # "admit"
      /\ pc' \in {"slots", "step"} => pc' = pc /\ Range(todo') \subseteq Range(todo)
      /\ Executing' => Executing /\ batch' = batch /\ saves' = saves
  <2>1. CASE SFreeOne
    BY <2>1 DEF SFreeOne, FreeOne, Executing
  <2>2. CASE EndUpdate
    <3>1. Range(running') \subseteq Range(running)
      BY <2>2 DEF EndUpdate, InRowOrder
    <3> QED
      BY <2>2, <3>1 DEF EndUpdate, connVars, Executing
  <2>3. CASE SaveBlocks
    BY <2>3 DEF SaveBlocks, Executing
  <2>4. CASE EndFeedback
    <3>1. Range(running') \subseteq Range(running)
      BY <2>4 DEF EndFeedback, InRowOrder
    <3> QED
      BY <2>4, <3>1 DEF EndFeedback, Executing
  <2>5. CASE \E r \in Reqs : ReleaseDelayed(r)
    BY <2>5 DEF ReleaseDelayed, Executing
  <2>6. CASE (Receive \/ FinishRecompute \/ CommitOne \/ NextLoop) /\ UNCHANGED connVars
    BY <2>6 DEF Receive, AddRequest, FinishRecompute, CommitOne, NextLoop, connVars, Executing
  <2>7. CASE StepOne /\ UNCHANGED connVars
    <3>1. Range(todo') \subseteq Range(todo)
      BY <1>1, <2>7 DEF StepOne, Range
    <3> QED
      BY <2>7, <3>1 DEF StepOne, connVars, Executing
  <2>8. CASE \E r \in Reqs : (Deliver(r) \/ Send(r)) /\ UNCHANGED connVars
    BY <2>8 DEF Deliver, Send, AddRequest, connVars, Executing
  <2>9. CASE UNCHANGED everything
    BY <2>9 DEF everything, allVars, schedVars, connVars, Executing
  <2> QED
    BY <2>1, <2>2, <2>3, <2>4, <2>5, <2>6, <2>7, <2>8, <2>9
<1>8. \A r \in Range(running') : (pc' = "admit" /\ r \in Range(batch')) \/ Offered(r)'
  BY <1>1, <1>2, <1>3, <1>7 DEF OfferedInTime
<1>9. pc' \in {"slots", "step"} => \A r \in Range(todo') : Offered(r)'
  BY <1>1, <1>2, <1>3, <1>7 DEF OfferedInTime
<1>10. Executing' => \A i \in DOMAIN saves' : saves'[i].req \in Range(batch')
  BY <1>1, <1>7 DEF OfferedInTime
<1> QED
  BY <1>6, <1>8, <1>9, <1>10 DEF OfferedInTime

LEMMA SavedStep == SavedInv /\ [ConnNext]_everything => SavedInv'
<1> SUFFICES ASSUME SavedInv, [ConnNext]_everything
             PROVE  SavedInv'
  OBVIOUS
<1>1. SpillInv'
  BY SpillStep DEF SavedInv
<1>2. SavesAll' <=> SavesAll
  <2>1. cfg' = cfg
    BY StoreMoves DEF SavedInv
  <2> QED
    BY <2>1 DEF SavesAll, Aligned, Roomy
<1>3. ASSUME SavesAll
      PROVE  OfferedInTime'
  BY <1>3, SavedOfQueues, SavedOfBatch, SavedOfRest DEF ConnNext, ConnStep
<1> QED
  BY <1>1, <1>2, <1>3 DEF SavedInv

\* With room for everything and the reference's save policy, every keyed block of
\* the prompt of a request that has its first token is in the store when the
\* step is over, unless the request ever loaded from the store.
THEOREM PrefillAlwaysSaved == ConnSpec => []PrefillIsSaved
<1> QED
  BY SavedInitially, SavedStep, SavedNow, PTL DEF ConnSpec

-----------------------------------------------------------------------------
(* What a lookup counts is there *)

\* The keys a lookup finds are the leading ones that the store has.
LEMMA FoundAreStored ==
    ASSUME NEW r \in Reqs, NEW from \in 0..Len(InputKeys[r]),
           NEW i \in from + 1 .. from + Found(r, from)
    PROVE  InStore(InputKeys[r][i])
<1> DEFINE n == Len(InputKeys[r])
           F == {j \in from + 1 .. n : \A l \in from + 1 .. j : InStore(InputKeys[r][l])}
           Miss == {j \in from + 1 .. n : ~InStore(InputKeys[r][j])}
<1>1. n \in Nat /\ from \in Nat /\ from <= n
  BY ChainType
<1>2. Found(r, from) \in Nat /\ from + Found(r, from) <= n
  BY FoundType
<1>3. i \in Int /\ from + 1 <= i /\ i <= from + Found(r, from)
  BY <1>1, <1>2
<1>4. Found(r, from) = Cardinality(F)
  BY DEF Found
<1>5. CASE Miss = {}
  <2>1. i \in from + 1 .. n
    BY <1>1, <1>2, <1>3
  <2> QED
    BY <1>5, <2>1
<1>6. CASE Miss # {}
  <2>1. Miss \in SUBSET Nat
    BY <1>1
  <2>2. PICK m \in Miss : \A y \in Miss : m <= y
    BY <1>6, <2>1, LeastNat
  <2>3. m \in Nat /\ from + 1 <= m /\ m <= n
    BY <1>1, <2>2
  <2>4. F \subseteq from + 1 .. m - 1
    <3> SUFFICES ASSUME NEW j \in F, j >= m
                 PROVE  FALSE
      BY <1>1, <2>3
    <3>1. m \in from + 1 .. j
      BY <1>1, <2>3
    <3> QED
      BY <2>2, <3>1
  <2> DEFINE a == from + 1
             b == m - 1
  <2>5. IsFiniteSet(a .. b) /\ Cardinality(a .. b) = m - 1 - from
    <3>1. a \in Int /\ b \in Int
      BY <1>1, <2>3
    <3> HIDE DEF a, b
    <3>2. /\ IsFiniteSet(a .. b)
          /\ Cardinality(a .. b) = IF a > b THEN 0 ELSE b - a + 1
      BY <3>1, FS_Interval
    <3> QED
      BY <1>1, <2>3, <3>2 DEF a, b
  <2>6. Cardinality(F) <= m - 1 - from
    BY <2>4, <2>5, FS_Subset
  <2>7. i <= m - 1
    <3> HIDE DEF F, n, Miss
    <3> QED
      BY <1>1, <1>2, <1>3, <1>4, <2>3, <2>6
  <2>8. i \in from + 1 .. n /\ ~(m <= i)
    BY <1>1, <1>3, <2>3, <2>7
  <2>9. i \notin Miss
    BY <2>2, <2>8
  <2> QED
    BY <2>8, <2>9
<1> QED
  BY <1>5, <1>6

LEMMA ExternalAreStored ==
    ASSUME NEW r \in Reqs, NEW local \in 0..Len(InputKeys[r]),
           NEW i \in local + 1 .. local + External(r, local)
    PROVE  InStore(InputKeys[r][i])
<1> DEFINE n == Len(InputKeys[r])
           from == LookupStart(local)
           found == Found(r, from)
           end == Capped(r, from + found)
           ext == External(r, local)
<1>1. n \in Nat /\ local \in Nat /\ local <= n
  BY ChainType
<1>2. from \in 0..n /\ from <= local /\ from \in Nat
  BY <1>1 DEF LookupStart
<1>3. found \in Nat /\ from + found <= n
  BY <1>2, FoundType
<1>4. end \in Nat /\ end <= from + found
  BY <1>2, <1>3, CappedType
<1>5. ext = IF found = 0 \/ end <= local THEN 0 ELSE end - local
  BY DEF External
<1>6. i \in local + 1 .. local + ext
  OBVIOUS
<1> HIDE DEF n, from, found, end, ext
<1>7. i \in from + 1 .. from + found
  BY <1>1, <1>2, <1>3, <1>4, <1>5, <1>6
<1> QED
  BY <1>2, <1>7, FoundAreStored DEF n, from, found

\* The hits of an admission are cached after it, at the start of the row.
LEMMA AllocateHoldsHits ==
    ASSUME IInv, NEW r \in Reqs, Allocate(r)
    PROVE  \A i \in 1 .. LocalHits(r) : i \in DOMAIN held'[r] /\ cached'[held'[r][i]]
<1>1. PICK h \in 0..Len(InputKeys[r]) :
         /\ IsHitCount(r, h)
         /\ \A i \in 1..h : /\ held'[r][i] = index[InputKeys[r][i]]
                            /\ index'[InputKeys[r][i]] = held'[r][i]
  BY AllocateServesHits
<1>2. LocalHits(r) = h
  BY <1>1, HitCountUnique DEF LocalHits
<1>3. IInv'
  BY AllocateIInv
<1>4. /\ Len(held'[r]) = NumLogical(r) /\ NumLogical(r) \in Int
      /\ Len(InputKeys[r]) <= NumLogical(r) /\ Len(InputKeys[r]) \in Nat
  BY AllocateRow, LogicalCoversInput, ChainType
<1>5. held'[r] \in Seq(Blocks)
  BY <1>3 DEF IInv, TypeOK, Owners
<1>6. ASSUME NEW i \in 1..h
      PROVE  i \in DOMAIN held'[r] /\ cached'[held'[r][i]]
  <2>1. i \in DOMAIN InputKeys[r] /\ InputKeys[r][i] \in Keys
    BY ChainType
  <2>2. index[InputKeys[r][i]] # NoBlock
    BY <1>1 DEF IsHitCount, IsHit
  <2>3. index'[InputKeys[r][i]] # NoBlock /\ held'[r][i] = index'[InputKeys[r][i]]
    BY <1>1, <2>2
  <2>4. cached'[held'[r][i]]
    BY <1>3, <2>1, <2>3 DEF IInv, IndexSound
  <2>5. i \in 1 .. Len(held'[r])
    BY <1>4
  <2> QED
    BY <1>5, <2>4, <2>5
<1> QED
  BY <1>2, <1>6

\* An admission leaves the rows of the others alone, and their blocks cached.
LEMMA AllocateSparesRows ==
    ASSUME IInv, NEW r \in Reqs, Allocate(r), NEW p \in Reqs, p # r
    PROVE  /\ held'[p] = held[p]
           /\ \A b \in Range(held[p]) : cached'[b] = cached[b]
<1>1. PICK h \in 0..Len(InputKeys[r]) :
         /\ IsHitCount(r, h)
         /\ \E new \in [1..MissCount(r, h) -> Blocks] :
              Take(r, HitBlocks(r, h), new,
                   [i \in DOMAIN new |-> IF h + i <= Len(InputKeys[r])
                                         THEN InputKeys[r][h + i] ELSE NoKey])
  BY DEF Allocate
<1>2. PICK new \in [1..MissCount(r, h) -> Blocks] :
         /\ IsPopOrder(new, lru \ Range(HitBlocks(r, h)))
         /\ cached' = [b \in Blocks |-> b \notin Range(new) /\ cached[b]]
  BY <1>1 DEF Take, HeapWithout
<1>3. new \in Seq(Blocks)
  <2>1. MissCount(r, h) \in Int
    BY ChainType, LogicalCoversInput DEF MissCount
  <2> QED
    BY <2>1, FunctionIsSeq
<1>4. \A b \in Range(new) : ref[b] = 0
  BY <1>2, <1>3, Popped
<1>5. \A b \in Range(held[p]) : b \in Blocks /\ ref[b] # 0
  <2>1. held[p] \in Seq(Blocks) /\ p \in Owners
    BY DEF IInv, TypeOK, Owners
  <2>2. \A b \in Range(held[p]) : b \in Blocks
    BY <2>1 DEF Range
  <2> QED
    BY <2>1, <2>2, HeldIsReferenced
<1>6. held'[p] = held[p]
  BY AllocateRow DEF Owners
<1>7. cached \in [Blocks -> BOOLEAN]
  BY DEF IInv, TypeOK
<1>8. \A b \in Range(held[p]) : cached'[b] = cached[b]
  BY <1>2, <1>4, <1>5, <1>7
<1> QED
  BY <1>6, <1>8

-----------------------------------------------------------------------------
(* The queues under the connector *)

\* Its ADD has been received and it is not waiting for blocks.
Started(r) == status[r] \notin {"NEW", "WAITING"}

\* No queue has a request twice, and what waits has not started.  A request that
\* the feedback dropped from running is in no queue.
QueuesApart ==
    /\ IsInjective(mailbox) /\ IsInjective(waiting) /\ IsInjective(running)
    /\ \A r \in Range(mailbox) : status[r] = "NEW"
    /\ \A r \in Range(waiting) : status[r] = "WAITING"
    /\ \A r \in Range(running) \cup Range(batch) : Started(r)
    /\ pc \in {"mailbox", "slots"} => batch = <<>>
    /\ pc = "slots" =>
         /\ IsInjective(todo) /\ Range(todo) \cap Range(running) = {}
         /\ \A r \in Range(todo) : Started(r)
    /\ pc \in {"step", "recompute", "commit", "free"} => Range(todo) \subseteq Range(batch)

LEMMA ApartInitially == ConnInit => QueuesApart
BY NoneRange DEF ConnInit, SchedInit, QueuesApart

LEMMA ApartOfMailbox ==
    ASSUME PinInv, QueuesApart,
           \/ Receive \/ StartStep
           \/ \E r \in Reqs : Deliver(r) \/ Send(r)
    PROVE  QueuesApart'
<1>1. /\ mailbox \in Seq(Reqs) /\ waiting \in Seq(Reqs) /\ running \in Seq(Reqs)
      /\ batch \in Seq(Reqs) /\ status \in [Reqs -> Statuses]
  BY DEF PinInv, ConnTypes, QueuesTyped
<1>2. /\ Range(mailbox) \subseteq Reqs /\ Range(waiting) \subseteq Reqs
      /\ Range(running) \subseteq Reqs /\ Range(batch) \subseteq Reqs
  BY <1>1, QueueTypes
<1>3. ASSUME NEW r \in Reqs, AddRequest(r), status[r] = "NEW", pc = "mailbox",
             IsInjective(mailbox'), Range(mailbox') \subseteq Range(mailbox) \ {r}
      PROVE  QueuesApart'
  <2>1. /\ status' = [status EXCEPT ![r] = "WAITING"] /\ waiting' = Append(waiting, r)
        /\ UNCHANGED <<pc, running, todo, batch>>
    BY <1>3 DEF AddRequest
  <2>2. r \notin Range(waiting) \cup Range(running) \cup Range(batch)
    BY <1>3 DEF QueuesApart, Started
  <2>3. Range(waiting') = Range(waiting) \cup {r} /\ IsInjective(waiting')
    BY <1>1, <1>3, <2>1, <2>2, AppendRange DEF QueuesApart
  <2> QED
    BY <1>1, <1>2, <1>3, <2>1, <2>2, <2>3 DEF QueuesApart, Started
<1>4. CASE Receive
  <2>1. Head(mailbox) \in Reqs /\ Head(mailbox) \in Range(mailbox)
    BY <1>1, <1>4, QueueTypes, TailRange DEF Receive
  <2>2. /\ IsInjective(mailbox')
        /\ Range(mailbox') \subseteq Range(mailbox) \ {Head(mailbox)}
    BY <1>1, <1>4, HeapRestProperties DEF Receive, QueuesApart
  <2> QED
    BY <1>3, <1>4, <2>1, <2>2 DEF Receive, QueuesApart
<1>5. CASE StartStep
  BY <1>5, NoneRange DEF StartStep, mail, QueuesApart, Started
<1>6. ASSUME NEW r \in Reqs, Deliver(r)
      PROVE  QueuesApart'
  BY <1>3, <1>6 DEF Deliver, Sendable, mail, QueuesApart
<1>7. ASSUME NEW r \in Reqs, Send(r)
      PROVE  QueuesApart'
  <2>1. /\ mailbox' = Append(mailbox, r) /\ status[r] = "NEW" /\ r \notin Range(mailbox)
        /\ UNCHANGED <<pc, status, waiting, running, todo, batch>>
    BY <1>7 DEF Send, Sendable
  <2>2. Range(mailbox') = Range(mailbox) \cup {r} /\ IsInjective(mailbox')
    BY <1>1, <2>1, AppendRange DEF QueuesApart
  <2> QED
    BY <2>1, <2>2 DEF QueuesApart, Started
<1> QED
  BY <1>4, <1>5, <1>6, <1>7

LEMMA ApartOfQueues ==
    ASSUME PinInv, QueuesApart, SAdmit \/ SGiveSlot \/ SPreempt
    PROVE  QueuesApart'
<1>1. /\ waiting \in Seq(Reqs) /\ running \in Seq(Reqs) /\ todo \in Seq(Reqs)
      /\ mailbox \in Seq(Reqs) /\ batch \in Seq(Reqs) /\ status \in [Reqs -> Statuses]
  BY DEF PinInv, ConnTypes, QueuesTyped
<1>2. /\ Range(mailbox) \subseteq Reqs /\ Range(waiting) \subseteq Reqs
      /\ Range(running) \subseteq Reqs /\ Range(batch) \subseteq Reqs /\ Range(todo) \subseteq Reqs
  BY <1>1, QueueTypes
<1>3. CASE SAdmit
  <2> DEFINE r == Head(waiting)
  <2>1. /\ pc = "admit" /\ pc' = "admit" /\ waiting # <<>> /\ waiting' = Tail(waiting)
        /\ running' = Append(running, r) /\ batch' = Append(batch, r)
        /\ status' = [status EXCEPT ![r] = "RUNNING"] /\ mailbox' = mailbox
    BY <1>3 DEF SAdmit, Admit, MayAdmit, mail
  <2>2. /\ r \in Reqs /\ r \in Range(waiting)
        /\ IsInjective(waiting') /\ Range(waiting') \subseteq Range(waiting) \ {r}
    BY <1>1, <2>1, QueueTypes, TailRange DEF QueuesApart
  <2> HIDE DEF r
  <2>3. r \notin Range(running) \cup Range(mailbox)
    BY <2>2 DEF QueuesApart, Started
  <2>4. /\ Range(running') = Range(running) \cup {r} /\ IsInjective(running')
        /\ Range(batch') = Range(batch) \cup {r}
    BY <1>1, <2>1, <2>2, <2>3, AppendRange DEF QueuesApart
  <2> QED
    BY <1>1, <1>2, <2>1, <2>2, <2>3, <2>4 DEF QueuesApart, Started
<1>4. CASE SGiveSlot
  <2> DEFINE r == Head(todo)
  <2>1. /\ pc = "slots" /\ pc' = "slots" /\ todo # <<>> /\ todo' = Tail(todo)
        /\ running' = Append(running, r)
        /\ UNCHANGED <<mailbox, waiting, batch, status>>
    BY <1>4 DEF SGiveSlot, GiveSlot, mail
  <2>2. /\ r \in Reqs /\ r \in Range(todo)
        /\ IsInjective(todo') /\ Range(todo') \subseteq Range(todo) \ {r}
    BY <1>1, <2>1, QueueTypes, TailRange DEF QueuesApart
  <2> HIDE DEF r
  <2>3. Range(running') = Range(running) \cup {r} /\ IsInjective(running')
    BY <1>1, <2>1, <2>2, AppendRange DEF QueuesApart
  <2> QED
    BY <2>1, <2>2, <2>3 DEF QueuesApart, Started
<1>5. CASE SPreempt
  <2> DEFINE r == todo[Len(todo)]
  <2>1. /\ pc = "slots" /\ pc' = "slots" /\ todo # <<>>
        /\ todo' = SubSeq(todo, 1, Len(todo) - 1) /\ waiting' = <<r>> \o waiting
        /\ status' = [status EXCEPT ![r] = "WAITING"]
        /\ UNCHANGED <<mailbox, running, batch>>
    BY <1>5 DEF SPreempt, Preempt, Requeued, mail
  <2>2. r \in Reqs /\ r \in Range(todo)
    BY <1>1, <2>1, QueueTypes, FrontRange DEF QueuesApart
  <2>3. IsInjective(todo') /\ Range(todo') \subseteq Range(todo) \ {r}
    BY <1>1, <2>1, FrontRange DEF QueuesApart
  <2> HIDE DEF r
  <2>4. r \notin Range(waiting) \cup Range(mailbox) \cup Range(running) /\ batch = <<>>
    BY <2>1, <2>2 DEF QueuesApart, Started
  <2>5. Range(waiting') = Range(waiting) \cup {r} /\ IsInjective(waiting')
    BY <1>1, <2>1, <2>2, <2>4, PrependRange DEF QueuesApart
  <2> QED
    BY <1>1, <1>2, <2>1, <2>2, <2>3, <2>4, <2>5, NoneRange DEF QueuesApart, Started
<1> QED
  BY <1>3, <1>4, <1>5

LEMMA ApartOfBatch ==
    ASSUME PinInv, QueuesApart, SEndAdmission \/ SEndSlots
    PROVE  QueuesApart'
<1>1. running \in Seq(Reqs) /\ batch \in Seq(Reqs)
  BY DEF PinInv, ConnTypes, QueuesTyped
<1>2. CASE SEndAdmission
  <2>1. /\ batch' = batch /\ UNCHANGED <<mailbox, waiting, status>>
        /\ IF batch # <<>>
           THEN pc' \in {"step", "recompute"} /\ todo' = batch /\ running' = running
           ELSE pc' = "slots" /\ todo' \in ByArrival(running) /\ running' = <<>>
    BY <1>2 DEF SEndAdmission, EndAdmission, mail
  <2>2. CASE batch # <<>>
    BY <2>1, <2>2 DEF QueuesApart, Started
  <2>3. CASE batch = <<>>
    <3>1. IsInjective(todo') /\ Range(todo') = Range(running)
      BY <1>1, <2>1, <2>3, ByArrivalProperties DEF QueuesApart
    <3> QED
      BY <2>1, <2>3, <3>1, NoneRange DEF QueuesApart, Started
  <2> QED
    BY <2>2, <2>3
<1>3. CASE SEndSlots
  BY <1>3 DEF SEndSlots, EndSlots, mail, QueuesApart, Started
<1> QED
  BY <1>2, <1>3

LEMMA ApartOfEffect ==
    ASSUME PinInv, QueuesApart, FinishRecompute \/ StepOne \/ CommitOne \/ NextLoop \/ SFreeOne
    PROVE  QueuesApart'
<1>1. /\ todo \in Seq(Reqs) /\ batch \in Seq(Reqs) /\ status \in [Reqs -> Statuses]
      /\ mailbox \in Seq(Reqs) /\ waiting \in Seq(Reqs) /\ running \in Seq(Reqs)
  BY DEF PinInv, ConnTypes, QueuesTyped
<1>2. /\ Range(mailbox) \subseteq Reqs /\ Range(waiting) \subseteq Reqs
      /\ Range(running) \subseteq Reqs /\ Range(batch) \subseteq Reqs
  BY <1>1, QueueTypes
<1>3. todo # <<>> => Head(todo) \in Range(todo) /\ Range(Tail(todo)) \subseteq Range(todo)
  BY <1>1, TailRange
<1>4. CASE FinishRecompute \/ StepOne \/ CommitOne
  <2>1. /\ pc \in {"recompute", "step", "commit"} /\ todo # <<>> /\ todo' = Tail(todo)
        /\ UNCHANGED <<pc, mailbox, status, waiting, running, batch>>
    BY <1>4 DEF FinishRecompute, StepOne, CommitOne, mail
  <2> QED
    BY <1>3, <2>1 DEF QueuesApart, Started
<1>5. CASE NextLoop
  BY <1>5 DEF NextLoop, mail, QueuesApart, Started
<1>6. CASE SFreeOne
  <2> DEFINE r == Head(todo)
  <2>1. /\ pc = "free" /\ pc' = "free" /\ todo # <<>> /\ todo' = Tail(todo)
        /\ UNCHANGED <<mailbox, waiting, running, batch>>
        /\ \/ status' = status
           \/ status' = [status EXCEPT ![r] = "WAITING_FOR_CONNECTOR_FREE"]
           \/ status' = [status EXCEPT ![r] = "FINISHED_STOPPED"]
    BY <1>6 DEF SFreeOne, FreeOne, mail
  <2>2. r \in Range(batch)
    BY <1>3, <2>1 DEF QueuesApart
  <2> HIDE DEF r
  <2>3. r \notin Range(waiting) \cup Range(mailbox)
    BY <2>2 DEF QueuesApart, Started
  <2>4. /\ \A s \in Reqs : s # r => status'[s] = status[s]
        /\ status'[r] \notin {"NEW", "WAITING"}
    BY <1>1, <1>2, <2>1, <2>2 DEF QueuesApart, Started
  <2> QED
    BY <1>2, <1>3, <2>1, <2>2, <2>3, <2>4 DEF QueuesApart, Started
<1> QED
  BY <1>4, <1>5, <1>6

LEMMA ApartOfEnd ==
    ASSUME PinInv, QueuesApart,
           \/ EndUpdate \/ SaveBlocks \/ EndFeedback
           \/ \E r \in Reqs : ReleaseDelayed(r)
    PROVE  QueuesApart'
<1>1. /\ running \in Seq(Reqs) /\ batch \in Seq(Reqs) /\ status \in [Reqs -> Statuses]
      /\ mailbox \in Seq(Reqs) /\ waiting \in Seq(Reqs)
  BY DEF PinInv, ConnTypes, QueuesTyped
<1>2. /\ Range(mailbox) \subseteq Reqs /\ Range(waiting) \subseteq Reqs
      /\ Range(running) \subseteq Reqs /\ Range(batch) \subseteq Reqs
  BY <1>1, QueueTypes
<1>3. ASSUME NEW S \in SUBSET Range(running), running' \in InRowOrder(S, running)
      PROVE  IsInjective(running') /\ Range(running') \subseteq Range(running)
  BY <1>1, <1>3, InRowOrderProperties DEF QueuesApart
<1>4. CASE EndUpdate
  <2>1. IsInjective(running') /\ Range(running') \subseteq Range(running)
    <3> DEFINE S == {r \in Range(running) : pc = "free" => ~IsDone(r)}
    <3>1. S \in SUBSET Range(running) /\ running' \in InRowOrder(S, running)
      BY <1>4 DEF EndUpdate
    <3> QED
      BY <1>3, <3>1
  <2>2. /\ UNCHANGED <<mailbox, status, waiting, batch>>
        /\ pc' = "save" \/ (pc' = "mailbox" /\ batch = <<>>)
    BY <1>4 DEF EndUpdate, mail
  <2> QED
    BY <2>1, <2>2 DEF QueuesApart, Started
<1>5. CASE SaveBlocks
  BY <1>5 DEF SaveBlocks, mail, QueuesApart, Started
<1>6. CASE EndFeedback
  <2>1. IsInjective(running') /\ Range(running') \subseteq Range(running)
    <3>1. Range(running) \ pendingPuts \in SUBSET Range(running)
      OBVIOUS
    <3> QED
      BY <1>3, <1>6, <3>1 DEF EndFeedback
  <2> QED
    BY <1>6, <2>1, NoneRange DEF EndFeedback, mail, QueuesApart, Started
<1>7. ASSUME NEW r \in Reqs, ReleaseDelayed(r)
      PROVE  QueuesApart'
  <2>1. r \in Range(batch)
    BY <1>7 DEF ReleaseDelayed, PinInv, InFlight
  <2>2. r \notin Range(waiting) \cup Range(mailbox)
    BY <2>1 DEF QueuesApart, Started
  <2>3. /\ pc = "feedback" /\ pc' = "feedback"
        /\ UNCHANGED <<mailbox, waiting, running, batch>>
        /\ status' = status \/ status' = [status EXCEPT ![r] = "FINISHED_STOPPED"]
    BY <1>7 DEF ReleaseDelayed, mail
  <2>4. /\ \A s \in Reqs : s # r => status'[s] = status[s]
        /\ status'[r] \notin {"NEW", "WAITING"}
    BY <1>1, <2>1, <2>3 DEF QueuesApart, Started
  <2> QED
    BY <1>2, <2>1, <2>2, <2>3, <2>4 DEF QueuesApart, Started
<1> QED
  BY <1>4, <1>5, <1>6, <1>7

LEMMA ApartStep == PinInv /\ QueuesApart /\ [ConnNext]_everything => QueuesApart'
<1> SUFFICES ASSUME PinInv, QueuesApart, [ConnNext]_everything
             PROVE  QueuesApart'
  OBVIOUS
<1>1. CASE UNCHANGED everything
  BY <1>1 DEF everything, allVars, schedVars, mail, QueuesApart, Started
<1>2. CASE ConnNext
  BY <1>2, ApartOfMailbox, ApartOfQueues, ApartOfBatch, ApartOfEffect, ApartOfEnd
     DEF ConnNext, ConnStep
<1> QED
  BY <1>1, <1>2

-----------------------------------------------------------------------------
(* The phases of the requests under the connector *)

\* It has a token and its cache.
Settled(r) == gen[r] # 0 /\ ~needsRecompute[r]

\* What runs is settled, or of the batch that is admitted or under way; a batch is
\* of one kind, and what is recomputed had a token.
PhasesApart ==
    /\ needsRecompute \in [Reqs -> BOOLEAN]
    /\ \A r \in Reqs : needsRecompute[r] => gen[r] # 0
    /\ \A r \in Range(running) :
         \/ Settled(r)
         \/ pc = "admit" /\ r \in Range(batch)
         \/ pc \in {"step", "recompute"} /\ r \in Range(todo)
    /\ pc = "admit" => \A r \in Range(batch) : needsRecompute[r] = needsRecompute[batch[1]]
    /\ pc = "slots" => \A r \in Range(todo) : Settled(r)
    /\ pc = "step" => \A r \in Range(todo) : ~needsRecompute[r]
    /\ pc = "recompute" => \A r \in Range(todo) : gen[r] # 0

LEMMA PhasesInitially == ConnInit => PhasesApart
<1> SUFFICES ASSUME ConnInit
             PROVE  PhasesApart
  OBVIOUS
<1>1. /\ pc = "mailbox" /\ running = <<>>
      /\ needsRecompute = [r \in Reqs |-> FALSE]
  BY DEF ConnInit, SchedInit
<1> QED
  BY <1>1, NoneRange DEF PhasesApart

\* Only a step gives tokens.
LEMMA TokensOfSteps ==
    ASSUME ConnTypes, [ConnNext]_everything, ~StepOne
    PROVE  gen' = gen
<1>1. ASSUME NEW r \in Reqs,
             \/ Allocate(r) \/ AppendSlot(r) \/ CommitInput(r)
             \/ Release(r) \/ Finish(r)
      PROVE  gen' = gen
  BY <1>1 DEF Allocate, AppendSlot, CommitInput, Release, Finish
<1>2. /\ waiting # <<>> => Head(waiting) \in Reqs
      /\ todo # <<>> => Head(todo) \in Reqs /\ todo[Len(todo)] \in Reqs
  BY QueueTypes DEF ConnTypes, QueuesTyped
<1>3. CASE SAdmit \/ SGiveSlot \/ SPreempt
  BY <1>1, <1>2, <1>3 DEF SAdmit, Admit, MayAdmit, SGiveSlot, GiveSlot, SPreempt, Preempt, vars
<1>4. CASE SEndAdmission \/ SEndSlots \/ EndUpdate \/ SaveBlocks \/ EndFeedback
  BY <1>4 DEF SEndAdmission, EndAdmission, SEndSlots, EndSlots, EndUpdate, SaveBlocks,
     EndFeedback, vars
<1>5. CASE SFreeOne \/ \E r \in Reqs : ReleaseDelayed(r)
  BY <1>1, <1>2, <1>5 DEF SFreeOne, FreeOne, ReleaseDelayed, vars
<1>6. CASE Receive \/ StartStep \/ FinishRecompute \/ CommitOne \/ NextLoop
           \/ \E r \in Reqs : Deliver(r) \/ Send(r)
  BY <1>1, <1>2, <1>6 DEF Receive, AddRequest, StartStep, FinishRecompute, CommitOne, NextLoop,
     Deliver, Send, vars
<1>7. CASE UNCHANGED everything
  BY <1>7 DEF everything, allVars, vars
<1> QED
  BY <1>3, <1>4, <1>5, <1>6, <1>7 DEF ConnNext, ConnStep

LEMMA PhasesOfQueues ==
    ASSUME PinInv, QueuesApart, PhasesApart, gen' = gen,
           SAdmit \/ SGiveSlot \/ SPreempt \/ SEndAdmission \/ SEndSlots
    PROVE  PhasesApart'
<1>1. /\ waiting \in Seq(Reqs) /\ running \in Seq(Reqs) /\ todo \in Seq(Reqs) /\ batch \in Seq(Reqs)
  BY DEF PinInv, ConnTypes, QueuesTyped
<1>2. /\ Range(running) \subseteq Reqs /\ Range(batch) \subseteq Reqs /\ Range(todo) \subseteq Reqs
  BY <1>1, QueueTypes
<1>3. CASE SAdmit
  <2> DEFINE r == Head(waiting)
  <2>1. /\ pc = "admit" /\ pc' = "admit" /\ waiting # <<>>
        /\ batch # <<>> => needsRecompute[r] = needsRecompute[batch[1]]
        /\ running' = Append(running, r) /\ batch' = Append(batch, r)
        /\ needsRecompute' = needsRecompute
    BY <1>3 DEF SAdmit, Admit, MayAdmit
  <2>2. r \in Reqs
    BY <1>1, <2>1, QueueTypes
  <2> HIDE DEF r
  <2>3. /\ Range(running') = Range(running) \cup {r}
        /\ Range(batch') = Range(batch) \cup {r}
    BY <1>1, <2>1, <2>2, AppendRange
  <2>4. batch'[1] = IF batch = <<>> THEN r ELSE batch[1]
    BY <1>1, <2>1, <2>2
  <2>5. batch = <<>> => Range(batch) = {}
    BY NoneRange
  <2>6. \A s \in Range(batch') : needsRecompute[s] = needsRecompute[batch'[1]]
    BY <2>1, <2>3, <2>4, <2>5 DEF PhasesApart
  <2> QED
    BY <2>1, <2>3, <2>6 DEF PhasesApart, Settled
<1>4. CASE SGiveSlot
  <2> DEFINE r == Head(todo)
  <2>1. /\ pc = "slots" /\ pc' = "slots" /\ todo # <<>> /\ todo' = Tail(todo)
        /\ running' = Append(running, r) /\ needsRecompute' = needsRecompute
    BY <1>4 DEF SGiveSlot, GiveSlot
  <2>2. r \in Reqs /\ r \in Range(todo) /\ Range(todo') \subseteq Range(todo)
    BY <1>1, <2>1, QueueTypes, TailRange
  <2> HIDE DEF r
  <2>3. Range(running') = Range(running) \cup {r}
    BY <1>1, <2>1, <2>2, AppendRange
  <2> QED
    BY <2>1, <2>2, <2>3 DEF PhasesApart, Settled
<1>5. CASE SPreempt
  <2> DEFINE r == todo[Len(todo)]
  <2>1. /\ pc = "slots" /\ pc' = "slots" /\ todo # <<>>
        /\ todo' = SubSeq(todo, 1, Len(todo) - 1)
        /\ needsRecompute' = [needsRecompute EXCEPT ![r] = TRUE]
        /\ running' = running
    BY <1>5 DEF SPreempt, Preempt
  <2>2. r \in Range(todo) /\ Range(todo') \subseteq Range(todo) \ {r}
    BY <1>1, <2>1, FrontRange DEF QueuesApart
  <2> HIDE DEF r
  <2>3. r \notin Range(running)
    BY <2>1, <2>2 DEF QueuesApart
  <2>4. needsRecompute \in [Reqs -> BOOLEAN] /\ r \in Reqs /\ Settled(r)
    BY <1>2, <2>1, <2>2 DEF PhasesApart
  <2>5. \A s \in Reqs : s # r => needsRecompute'[s] = needsRecompute[s]
    BY <2>1, <2>4
  <2>6. needsRecompute' \in [Reqs -> BOOLEAN]
    BY <2>1, <2>4
  <2>7. \A s \in Reqs : needsRecompute'[s] => gen'[s] # 0
    BY <2>4, <2>5 DEF PhasesApart, Settled
  <2>8. \A s \in Range(running) \cup Range(todo') : gen'[s] # 0 /\ ~needsRecompute'[s]
    BY <1>2, <2>1, <2>2, <2>3, <2>5 DEF PhasesApart, Settled
  <2> QED
    BY <2>1, <2>6, <2>7, <2>8 DEF PhasesApart, Settled
<1>6. CASE SEndAdmission
  <2>1. /\ pc = "admit" /\ needsRecompute' = needsRecompute
        /\ IF batch # <<>>
           THEN /\ pc' = IF needsRecompute[batch[1]] THEN "recompute" ELSE "step"
                /\ todo' = batch /\ running' = running
           ELSE pc' = "slots" /\ todo' \in ByArrival(running) /\ running' = <<>>
    BY <1>6 DEF SEndAdmission, EndAdmission
  <2>2. CASE batch # <<>>
    BY <1>2, <2>1, <2>2 DEF PhasesApart, Settled
  <2>3. CASE batch = <<>>
    <3>1. Range(todo') = Range(running)
      BY <1>1, <2>1, <2>3, ByArrivalProperties DEF QueuesApart
    <3> QED
      BY <2>1, <2>3, <3>1, NoneRange DEF PhasesApart, Settled
  <2> QED
    BY <2>2, <2>3
<1>7. CASE SEndSlots
  <2>1. /\ pc = "slots" /\ pc' \in {"free", "recompute", "step"}
        /\ todo' = running /\ running' = running /\ needsRecompute' = needsRecompute
    BY <1>7 DEF SEndSlots, EndSlots
  <2> QED
    BY <2>1 DEF PhasesApart, Settled
<1> QED
  BY <1>3, <1>4, <1>5, <1>6, <1>7

LEMMA PhasesOfEffect ==
    ASSUME PinInv, PhasesApart, FinishRecompute \/ StepOne
    PROVE  PhasesApart'
<1> DEFINE r == Head(todo)
<1>1. /\ todo \in Seq(Reqs) /\ todo # <<>> /\ todo' = Tail(todo)
      /\ UNCHANGED <<pc, running, batch>>
  BY DEF FinishRecompute, StepOne, PinInv, ConnTypes, QueuesTyped
<1>2. /\ r \in Reqs /\ r \in Range(todo) /\ Range(todo) = Range(todo') \cup {r}
      /\ Range(todo) \subseteq Reqs /\ Range(running) \subseteq Reqs
  BY <1>1, QueueTypes, TailRange DEF PinInv, ConnTypes, QueuesTyped
<1>3. gen \in [Reqs -> Nat] /\ needsRecompute \in [Reqs -> BOOLEAN]
  BY DEF PinInv, IInv, TypeOK, PhasesApart
<1>4. CASE FinishRecompute
  <2>1. /\ pc = "recompute" /\ needsRecompute' = [needsRecompute EXCEPT ![r] = FALSE]
        /\ gen' = gen
    BY <1>4 DEF FinishRecompute, CommitInput, vars
  <2> HIDE DEF r
  <2>2. gen[r] # 0
    BY <1>2, <2>1 DEF PhasesApart
  <2> QED
    BY <1>1, <1>2, <1>3, <2>1, <2>2 DEF PhasesApart, Settled
<1>5. CASE StepOne
  <2>1. /\ pc = "step" /\ needsRecompute' = needsRecompute
        /\ gen' = [gen EXCEPT ![r] = @ + 1]
    BY <1>5 DEF StepOne, Step
  <2> HIDE DEF r
  <2>2. ~needsRecompute[r]
    BY <1>2, <2>1 DEF PhasesApart
  <2>3. \A s \in Reqs : gen'[s] # 0 <=> s = r \/ gen[s] # 0
    BY <1>2, <1>3, <2>1
  <2> QED
    BY <1>1, <1>2, <1>3, <2>1, <2>2, <2>3 DEF PhasesApart, Settled
<1> QED
  BY <1>4, <1>5

LEMMA PhasesOfRest ==
    ASSUME PinInv, QueuesApart, PhasesApart, gen' = gen,
           \/ Receive \/ StartStep \/ CommitOne \/ NextLoop \/ SFreeOne
           \/ EndUpdate \/ SaveBlocks \/ EndFeedback
           \/ \E r \in Reqs : ReleaseDelayed(r) \/ Deliver(r) \/ Send(r)
           \/ UNCHANGED everything
    PROVE  PhasesApart'
<1>1. needsRecompute' = needsRecompute
  BY DEF Receive, AddRequest, StartStep, CommitOne, NextLoop, SFreeOne, FreeOne, EndUpdate,
     SaveBlocks, EndFeedback, ReleaseDelayed, Deliver, Send, everything, allVars, schedVars
<1>2. /\ Range(running') \subseteq Range(running)
      /\ pc' \in {"admit", "slots", "step", "recompute"} =>
            \/ UNCHANGED <<pc, todo, batch>>
            \/ pc = "mailbox" /\ pc' = "admit" /\ batch' = <<>>
      /\ pc = "admit" => UNCHANGED <<pc, batch>>
      /\ pc \in {"step", "recompute"} => UNCHANGED <<pc, todo>> \/ todo = <<>>
  <2>1. CASE EndUpdate
    <3>1. Range(running') \subseteq Range(running)
      BY <2>1 DEF EndUpdate, InRowOrder
    <3> QED
      BY <2>1, <3>1 DEF EndUpdate
  <2>2. CASE EndFeedback
    <3>1. Range(running') \subseteq Range(running)
      BY <2>2 DEF EndFeedback, InRowOrder
    <3> QED
      BY <2>2, <3>1 DEF EndFeedback
  <2>3. CASE SFreeOne \/ SaveBlocks \/ \E r \in Reqs : ReleaseDelayed(r)
    BY <2>3 DEF SFreeOne, FreeOne, SaveBlocks, ReleaseDelayed
  <2>4. CASE Receive \/ StartStep \/ CommitOne \/ NextLoop
    BY <2>4 DEF Receive, AddRequest, StartStep, CommitOne, NextLoop
  <2>5. CASE \E r \in Reqs : Deliver(r) \/ Send(r)
    BY <2>5 DEF Deliver, Send, AddRequest
  <2>6. CASE UNCHANGED everything
    BY <2>6 DEF everything, allVars, schedVars
  <2> QED
    BY <2>1, <2>2, <2>3, <2>4, <2>5, <2>6
<1> QED
  BY <1>1, <1>2, NoneRange DEF PhasesApart, Settled

LEMMA PhasesStep ==
    PinInv /\ QueuesApart /\ PhasesApart /\ [ConnNext]_everything => PhasesApart'
<1> SUFFICES ASSUME PinInv, QueuesApart, PhasesApart, [ConnNext]_everything
             PROVE  PhasesApart'
  OBVIOUS
<1>1. CASE StepOne
  BY <1>1, PhasesOfEffect
<1>2. CASE ~StepOne
  <2>1. gen' = gen
    BY <1>2, TokensOfSteps DEF PinInv
  <2> QED
    BY <1>2, <2>1, PhasesOfQueues, PhasesOfEffect, PhasesOfRest DEF ConnNext, ConnStep
<1> QED
  BY <1>1, <1>2

-----------------------------------------------------------------------------
(* From the lookup to the step *)

\* A request is admitted and its step has not run yet.
Reusing(r) ==
    \/ pc = "admit" /\ r \in Range(batch)
    \/ pc \in {"step", "recompute"} /\ r \in Range(todo) /\ ~Settled(r)

\* The blocks it was admitted with are the first of its row and cached, ...
HitsHeld(r) ==
    /\ matched[r].local + matched[r].ext <= Len(InputKeys[r])
    /\ \A i \in 1 .. matched[r].local : i \in DOMAIN held[r] /\ cached[held[r][i]]

\* ... and those it will load are stored.
LoadsStored(r) ==
    \A i \in matched[r].local + 1 .. matched[r].local + matched[r].ext :
        store.tier[InputKeys[r][i]] # "none"

MatchesKept ==
    /\ matched \in [Reqs -> [local : Nat, ext : Nat]]
    /\ \A r \in Reqs : Reusing(r) => HitsHeld(r) /\ (~Spills => LoadsStored(r))

MatchInv == SpillInv /\ PinInv /\ QueuesApart /\ PhasesApart /\ MatchesKept

LEMMA MatchesNow == MatchInv => MatchesSound
<1> SUFFICES ASSUME MatchInv
             PROVE  MatchesSound
  OBVIOUS
<1>1. Store!StoreTypeOK
  <2>1. store \in SP!Store /\ cfg \in Configs
    BY DEF MatchInv, SpillInv, SoundStores, ConnTypes, PlansTyped
  <2>2. cfg.policy \in Store!Policies
    BY <2>1, ConnAssumption
  <2> QED
    BY <2>1, <2>2 DEF SP!Store, Store!StoreTypeOK
<1>2. ConnTypeOK
  BY <1>1 DEF MatchInv, SpillInv, ConnTypes, PlansTyped, Plan, MatchesKept, ConnTypeOK
<1>3. ASSUME ~Spills, pc \in {"step", "recompute"}, NEW r \in Range(todo),
             gen[r] = 0 \/ needsRecompute[r],
             NEW i \in 1 .. matched[r].local + matched[r].ext
      PROVE  \/ /\ i <= matched[r].local
                /\ cached[held[r][i]] /\ hash[held[r][i]] = InputKeys[r][i]
             \/ i > matched[r].local /\ InStore(InputKeys[r][i])
  <2>1. r \in Reqs
    BY QueueTypes DEF MatchInv, SpillInv, ConnTypes, QueuesTyped
  <2>2. HitsHeld(r) /\ LoadsStored(r)
    BY <1>3, <2>1 DEF MatchInv, MatchesKept, Reusing, Settled
  <2>3. matched[r].local \in Nat /\ matched[r].ext \in Nat
    BY <2>1 DEF MatchInv, MatchesKept
  <2>4. /\ i \in DOMAIN InputKeys[r] /\ InputKeys[r][i] \in Keys
        /\ i <= Len(InputKeys[r])
    BY <2>1, <2>2, <2>3, ChainType DEF HitsHeld
  <2>5. CASE i <= matched[r].local
    <3>1. i \in DOMAIN held[r] /\ cached[held[r][i]]
      BY <2>2, <2>3, <2>5 DEF HitsHeld
    <3>2. hash[held[r][i]] = InputKeys[r][i]
      BY <2>1, <2>4, <3>1 DEF MatchInv, SpillInv, IInv, RowsKeepKeys, RowKeepsKeys
    <3> QED
      BY <2>5, <3>1, <3>2
  <2>6. CASE i > matched[r].local
    <3>1. store.tier[InputKeys[r][i]] # "none"
      BY <2>2, <2>3, <2>6 DEF LoadsStored
    <3> QED
      BY <2>4, <2>6, <3>1, ServedIsStored DEF MatchInv, SpillInv, InStore
  <2> QED
    BY <2>3, <2>5, <2>6
<1>4. ~Spills => SkippedTokensBacked
  BY <1>3 DEF SkippedTokensBacked, Backed
<1> QED
  BY <1>2, <1>4 DEF MatchesSound

LEMMA MatchesInitially == ConnInit => MatchInv
<1> SUFFICES ASSUME ConnInit
             PROVE  MatchInv
  OBVIOUS
<1>1. /\ pc = "mailbox"
      /\ matched = [r \in Reqs |-> [local |-> 0, ext |-> 0]]
  BY DEF ConnInit, SchedInit
<1>2. MatchesKept
  BY <1>1 DEF MatchesKept, Reusing
<1> QED
  BY <1>2, SpillInitially, PinInitially, ApartInitially, PhasesInitially DEF MatchInv

\* Without spilling the tiers change at the end of a step only.
LEMMA TiersStay ==
    ASSUME SpillInv, [ConnNext]_everything, ~Spills, ~SaveBlocks
    PROVE  store'.tier = store.tier
<1>1. CASE Spilling
  <2>1. PICK new, s : /\ Popping(new) /\ s \in SoundStores /\ s.tier = store.tier
                      /\ store' = Spilled(s, new)
    BY <1>1 DEF Spilling
  <2> QED
    BY <2>1, SpilledIs DEF SpillInv
<1>2. CASE Reading
  BY <1>2 DEF Reading
<1> QED
  BY <1>1, <1>2, StoreMoves DEF WritingSaves

LEMMA MatchesOfAdmit ==
    ASSUME MatchInv, [ConnNext]_everything, SAdmit
    PROVE  MatchesKept'
<1>0. Head(waiting) \in Reqs
  BY QueueTypes DEF MatchInv, SpillInv, ConnTypes, QueuesTyped, SAdmit, Admit, MayAdmit
<1> PICK q \in Reqs : q = Head(waiting)
  BY <1>0
<1> DEFINE local == LocalHits(q)
           ext == External(q, local)
<1>1. /\ Allocate(q) /\ IInv /\ store \in SoundStores /\ batch \in Seq(Reqs)
      /\ matched \in [Reqs -> [local : Nat, ext : Nat]]
  BY DEF MatchInv, SpillInv, ConnTypes, QueuesTyped, MatchesKept, SAdmit, Admit
<1>2. /\ pc = "admit" /\ pc' = "admit" /\ batch' = Append(batch, q) /\ cfg' = cfg
      /\ matched' = [matched EXCEPT ![q] = [local |-> local, ext |-> ext]]
  BY DEF SAdmit, Admit, LocalHits
<1>3. local \in 0..Len(InputKeys[q]) /\ Len(InputKeys[q]) \in Nat
  <2>1. \E h \in 0..Len(InputKeys[q]) : IsHitCount(q, h)
    BY <1>1 DEF Allocate
  <2> QED
    BY <1>1, <2>1, ChainType DEF LocalHits
<1>4. ext \in Nat /\ local + ext <= Len(InputKeys[q]) /\ local \in Nat
  BY <1>1, <1>3, LoadSlice
<1>5. \A i \in 1 .. local : i \in DOMAIN held'[q] /\ cached'[held'[q][i]]
  BY <1>1, AllocateHoldsHits
<1>6. ASSUME ~Spills, NEW i \in local + 1 .. local + ext
      PROVE  store'.tier[InputKeys[q][i]] # "none"
  <2>1. InStore(InputKeys[q][i])
    BY <1>1, <1>3, ExternalAreStored
  <2>2. i \in DOMAIN InputKeys[q]
    BY <1>1, <1>3, <1>4, ChainType
  <2>3. InputKeys[q][i] \in Keys
    BY <1>1, <2>2, ChainType
  <2>4. store.tier[InputKeys[q][i]] # "none"
    BY <1>1, <2>1, <2>3, ServedIsStored DEF InStore
  <2>5. ~SaveBlocks
    BY <1>2 DEF SaveBlocks
  <2> QED
    BY <1>6, <2>4, <2>5, TiersStay DEF MatchInv
<1>7. matched'[q] = [local |-> local, ext |-> ext]
  BY <1>1, <1>2
<1> HIDE DEF local, ext
<1>8. Range(batch') = Range(batch) \cup {q}
  BY <1>1, <1>2, AppendRange
<1>9. HitsHeld(q)' /\ (~Spills => LoadsStored(q)')
  BY <1>4, <1>5, <1>6, <1>7 DEF HitsHeld, LoadsStored
<1>10. ASSUME NEW r \in Reqs, r # q, r \in Range(batch)
       PROVE  HitsHeld(r)' /\ (~Spills => LoadsStored(r)')
  <2>1. HitsHeld(r) /\ (~Spills => LoadsStored(r))
    BY <1>2, <1>10 DEF MatchInv, MatchesKept, Reusing
  <2>2. matched'[r] = matched[r] /\ held'[r] = held[r]
        /\ \A b \in Range(held[r]) : cached'[b] = cached[b]
    BY <1>1, <1>2, <1>10, AllocateSparesRows
  <2>3. HitsHeld(r)'
    BY <2>1, <2>2 DEF HitsHeld, Range
  <2>4. ~Spills => store'.tier = store.tier
    BY <1>2, TiersStay DEF MatchInv, SaveBlocks
  <2> QED
    BY <2>1, <2>2, <2>3, <2>4 DEF LoadsStored
<1>11. Spills' = Spills
  BY <1>2 DEF Spills, HookInstalled
<1>12. \A r \in Reqs : Reusing(r)' => r \in Range(batch')
  BY <1>2 DEF Reusing
<1>13. matched' \in [Reqs -> [local : Nat, ext : Nat]]
  BY <1>1, <1>2, <1>4
<1> QED
  BY <1>8, <1>9, <1>10, <1>11, <1>12, <1>13 DEF MatchesKept

\* Outside an admission nothing new is matched, and what still has to be read
\* stays where it was.
LEMMA MatchesOfRest ==
    ASSUME MatchInv, [ConnNext]_everything, ~SAdmit,
           matched' = matched, cfg' = cfg,
           \A r \in Reqs : Reusing(r)' =>
                /\ Reusing(r) /\ held'[r] = held[r] /\ ~SaveBlocks
                /\ \A b \in Range(held[r]) : cached[b] => cached'[b]
    PROVE  MatchesKept'
<1>1. Spills' = Spills
  BY DEF Spills, HookInstalled
<1>2. ASSUME NEW r \in Reqs, Reusing(r)'
      PROVE  HitsHeld(r)' /\ (~Spills => LoadsStored(r)')
  <2>1. HitsHeld(r) /\ (~Spills => LoadsStored(r))
    BY <1>2 DEF MatchInv, MatchesKept
  <2>2. HitsHeld(r)'
    BY <1>2, <2>1 DEF HitsHeld, Range
  <2>3. ~Spills => store'.tier = store.tier
    BY <1>2, TiersStay DEF MatchInv
  <2> QED
    BY <2>1, <2>2, <2>3 DEF LoadsStored
<1> QED
  BY <1>1, <1>2 DEF MatchInv, MatchesKept

LEMMA MatchesStep == MatchInv /\ [ConnNext]_everything => MatchesKept'
<1> SUFFICES ASSUME MatchInv, [ConnNext]_everything
             PROVE  MatchesKept'
  OBVIOUS
<1>1. /\ ConnTypes /\ QueuesApart /\ PhasesApart /\ IInv
      /\ todo \in Seq(Reqs) /\ batch \in Seq(Reqs) /\ running \in Seq(Reqs)
  BY DEF MatchInv, SpillInv, ConnTypes, QueuesTyped
<1>2. cfg' = cfg
  BY StoreMoves DEF MatchInv
<1>3. ~SAdmit => matched' = matched
  BY DEF ConnNext, ConnStep, SGiveSlot, SPreempt, SEndAdmission, SEndSlots, BuildMeta, SFreeOne,
     EndUpdate, SaveBlocks, EndFeedback, ReleaseDelayed, connVars, everything
<1>4. CASE SAdmit
  BY <1>4, MatchesOfAdmit
<1>5. ASSUME ~(pc' \in {"admit", "step", "recompute"}), ~SAdmit
      PROVE  MatchesKept'
  <2>1. \A r \in Reqs : ~Reusing(r)'
    BY <1>5 DEF Reusing
  <2> QED
    BY <1>2, <1>3, <1>5, <2>1, MatchesOfRest
<1>6. CASE SEndAdmission
  <2>1. /\ pc = "admit" /\ UNCHANGED <<held, cached>>
        /\ batch # <<>> => todo' = batch
        /\ batch = <<>> => pc' = "slots"
        /\ pc' \in {"slots", "step", "recompute"}
    BY <1>6 DEF SEndAdmission, EndAdmission, vars
  <2>2. ~SAdmit /\ ~SaveBlocks
    BY <1>6, <2>1 DEF SEndAdmission, EndAdmission, SAdmit, Admit, SaveBlocks
  <2>3. \A r \in Reqs : Reusing(r)' => Reusing(r)
    BY <2>1 DEF Reusing
  <2> QED
    BY <1>2, <1>3, <2>1, <2>2, <2>3, MatchesOfRest
<1>7. CASE SEndSlots
  <2>1. /\ pc = "slots" /\ todo' = running /\ UNCHANGED <<gen, needsRecompute>>
        /\ pc' \in {"free", "step", "recompute"}
    BY <1>7 DEF SEndSlots, EndSlots, vars
  <2>2. ~SAdmit
    BY <2>1 DEF SAdmit, Admit
  <2>3. \A r \in Reqs : ~Reusing(r)'
    BY <1>1, <2>1 DEF Reusing, PhasesApart, Settled
  <2> QED
    BY <1>2, <1>3, <2>2, <2>3, MatchesOfRest
<1>8. CASE StepOne \/ FinishRecompute
  <2>1. /\ pc \in {"step", "recompute"} /\ pc' = pc /\ todo # <<>> /\ todo' = Tail(todo)
    BY <1>8 DEF StepOne, FinishRecompute
  <2>2. /\ Head(todo) \in Reqs /\ Range(todo') \subseteq Range(todo)
    BY <1>1, <2>1, QueueTypes, TailRange
  <2>3. held' = held
    BY <1>1, <1>8, RowsStay
  <2>4. \A b \in Blocks : cached[b] => cached'[b]
    BY <1>8 DEF StepOne, Step, FinishRecompute, CommitInput, vars
  <2>5. \A r \in Reqs : Settled(r) => Settled(r)'
    <3>1. gen \in [Reqs -> Nat] /\ needsRecompute \in [Reqs -> BOOLEAN]
      BY <1>1 DEF IInv, TypeOK, PhasesApart
    <3>2. CASE StepOne
      BY <2>2, <3>1, <3>2 DEF StepOne, Step, Settled
    <3>3. CASE FinishRecompute
      BY <2>2, <3>1, <3>3 DEF FinishRecompute, CommitInput, vars, Settled
    <3> QED
      BY <1>8, <3>2, <3>3
  <2>6. ~SAdmit /\ ~SaveBlocks
    BY <2>1 DEF SAdmit, Admit, SaveBlocks
  <2>7. \A r \in Reqs : Range(held[r]) \subseteq Blocks
    <3>1. \A r \in Reqs : held[r] \in Seq(Blocks)
      BY <1>1 DEF IInv, TypeOK, Owners
    <3> QED
      BY <3>1 DEF Range
  <2>8. \A r \in Reqs : Reusing(r)' => Reusing(r)
    BY <2>1, <2>2, <2>5 DEF Reusing
  <2> QED
    BY <1>2, <1>3, <2>3, <2>4, <2>6, <2>7, <2>8, MatchesOfRest
<1>9. CASE StartStep
  <2>1. pc = "mailbox" /\ pc' = "admit" /\ batch' = <<>>
    BY <1>9 DEF StartStep
  <2>2. ~SAdmit
    BY <2>1 DEF SAdmit, Admit
  <2>3. \A r \in Reqs : ~Reusing(r)'
    BY <2>1, NoneRange DEF Reusing
  <2> QED
    BY <1>2, <1>3, <2>2, <2>3, MatchesOfRest
<1>10. CASE (\E r \in Reqs : Send(r) /\ UNCHANGED connVars) \/ UNCHANGED everything
  <2>1. UNCHANGED <<pc, todo, batch, running, needsRecompute, held, cached, gen, matched, store>>
    BY <1>10 DEF Send, everything, allVars, schedVars, connVars, vars
  <2>2. \A r \in Reqs : Reusing(r)' => Reusing(r)
    BY <2>1 DEF Reusing, Settled
  <2>3. CASE SAdmit
    BY <1>4, <2>3
  <2>4. CASE SaveBlocks
    <3>1. ~(pc' \in {"admit", "step", "recompute"}) /\ ~SAdmit
      BY <2>4 DEF SaveBlocks, SAdmit, Admit
    <3> QED
      BY <1>5, <3>1
  <2> QED
    BY <1>2, <1>3, <2>1, <2>2, <2>3, <2>4, MatchesOfRest
<1>11. ASSUME \/ SGiveSlot \/ SPreempt \/ SFreeOne \/ EndUpdate \/ SaveBlocks \/ EndFeedback
              \/ \E r \in Reqs : ReleaseDelayed(r)
              \/ Receive \/ CommitOne \/ NextLoop
              \/ \E r \in Reqs : Deliver(r)
       PROVE  MatchesKept'
  <2>1. pc' \notin {"admit", "step", "recompute"}
    BY <1>11 DEF SGiveSlot, GiveSlot, SPreempt, Preempt, SFreeOne, FreeOne, EndUpdate, SaveBlocks,
       EndFeedback, ReleaseDelayed, Receive, CommitOne, NextLoop, Deliver, AddRequest
  <2>2. ~SAdmit
    BY <2>1 DEF SAdmit, Admit
  <2> QED
    BY <1>5, <2>1, <2>2
<1> QED
  BY <1>4, <1>6, <1>7, <1>8, <1>9, <1>10, <1>11 DEF ConnNext, ConnStep

LEMMA MatchInvStep == MatchInv /\ [ConnNext]_everything => MatchInv'
BY SpillStep, PinStep, ApartStep, PhasesStep, MatchesStep DEF MatchInv

\* Every block that a lookup counted as matched is in HBM under the request's
\* key, or in the store, when the step that skips it runs, for every policy that
\* does not spill; and no lookup counts less than nothing.
THEOREM MatchesAreSound == ConnSpec => []MatchesSound
<1> QED
  BY MatchesInitially, MatchInvStep, MatchesNow, PTL DEF ConnSpec
====
