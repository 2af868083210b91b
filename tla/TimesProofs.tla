---- MODULE TimesProofs ----
\* Proofs about StepTiming: for every number of requests, their lengths, the
\* latencies of the phases and the preemptions, the reported times add up. And about
\* Workload: for every dataset and configuration of the loader, each jitter keeps
\* its bounds and the source its times.
EXTENDS StepTiming, Workload, SequenceFacts

----
\* The invariant.

Fields ==
  {"arrival", "last", "steps", "total", "prefill", "prefillService", "decode",
   "decodeMax", "decodeService", "recompute", "recomputeService"}

Typed(q) ==
  /\ DOMAIN q = Fields
  /\ q.arrival \in Nat \cup {NotArrived}
  /\ q.last \in Nat /\ q.steps \in Nat /\ q.total \in Nat
  /\ q.prefill \in Nat /\ q.prefillService \in Nat
  /\ q.decode \in Nat /\ q.decodeMax \in Nat /\ q.decodeService \in Nat
  /\ q.recompute \in BOOLEAN /\ q.recomputeService \in Nat

\* The aggregates q account for the time up to t. What is recomputed after the
\* last token is not in the decode time yet, but fits in the time since.
ReqSound(q, t) ==
  /\ Typed(q)
  /\ q.arrival = NotArrived => q = Fresh
  /\ q.steps = 0 => /\ q.prefill = 0 /\ q.prefillService = 0
                    /\ q.decode = 0 /\ q.decodeService = 0
                    /\ q.recomputeService = 0 /\ ~q.recompute
  /\ q.arrival # NotArrived => /\ q.total = q.last - q.arrival
                               /\ q.total = q.prefill + q.decode
  /\ q.decodeMax <= q.decode
  /\ q.last <= t
  /\ q.prefillService <= q.prefill
  /\ q.decodeService <= q.decode
  /\ q.decodeService + q.recomputeService <= q.decode + (t - q.last)

\* The compute phase under way is in no aggregate of its batch yet.
Since(r) == IF phase = "compute" /\ r \in Range(batch) THEN until - latency ELSE now

InStep == phase \in {"load", "compute"}

ClockSound ==
  /\ now \in Nat /\ until \in Nat /\ latency \in Nat
  /\ phase \in {"idle", "schedule", "load", "compute", "save"}
  /\ phase = "compute" => /\ until - latency \in Nat
                          /\ until - latency <= now
                          /\ now <= until

\* Who is in which list, and who runs without a token or its cache: nobody but
\* the batch of the step.
ListsSound ==
  /\ waiting \in Seq(Reqs) /\ running \in Seq(Reqs) /\ batch \in Seq(Reqs)
  /\ IsInjective(waiting) /\ IsInjective(running)
  /\ Range(waiting) \cap Range(running) = {}
  /\ \A r \in Range(waiting) \cup Range(running) :
       req[r].arrival # NotArrived /\ ~Done(r)
  /\ InStep => /\ Range(batch) \subseteq Range(running)
               /\ \A r, s \in Range(batch) : (req[r].recompute <=> req[s].recompute)
  /\ \A r \in Range(running) :
       req[r].steps = 0 \/ req[r].recompute => InStep /\ r \in Range(batch)

AreaSound ==
  /\ sample \in [area : Int, at : Nat, current : Nat, peak : Nat]
  /\ truth \in Nat
  /\ Closed(sample, now) >= truth
  /\ sample.current >= Len(running)
  /\ sample.peak >= sample.current

RequestsSound ==
  /\ DOMAIN req = Reqs
  /\ \A r \in Reqs :
       /\ ReqSound(req[r], Since(r))
       /\ Done(r) => req[r].decodeService + req[r].recomputeService <= req[r].decode

TimingInv == ClockSound /\ ListsSound /\ AreaSound /\ RequestsSound

----
\* The aggregates of one request.

\* Time that passes is only added to what is left.
LEMMA LaterSound ==
  ASSUME NEW q, NEW t \in Nat, NEW u \in Nat, t <= u, ReqSound(q, t)
  PROVE  ReqSound(q, u)
<1>1. q.last \in Nat /\ q.decode \in Nat /\ q.decodeService \in Nat /\ q.recomputeService \in Nat
  BY DEF ReqSound, Typed
<1>2. q.last <= u /\ q.decodeService + q.recomputeService <= q.decode + (u - q.last)
  BY <1>1 DEF ReqSound
<1>3. QED
  BY <1>2 DEF ReqSound

\* A recomputation that began at t.
LEMMA RecomputedSound ==
  ASSUME NEW q, NEW t \in Nat, NEW lat \in Nat, ReqSound(q, t),
         q.arrival # NotArrived, q.steps # 0
  PROVE  LET p == Recomputed(q, lat, t + lat)
         IN  /\ ReqSound(p, t + lat)
             /\ p.steps = q.steps /\ ~p.recompute /\ p.arrival = q.arrival
<1> DEFINE p == Recomputed(q, lat, t + lat)
<1>1. Typed(q)
  BY DEF ReqSound
<1>2. /\ p.arrival = q.arrival /\ p.last = q.last /\ p.steps = q.steps /\ p.total = q.total
      /\ p.prefill = q.prefill /\ p.prefillService = q.prefillService
      /\ p.decode = q.decode /\ p.decodeMax = q.decodeMax
      /\ p.decodeService = q.decodeService /\ p.recompute = FALSE
      /\ p.recomputeService = q.recomputeService + lat
  BY <1>1 DEF Recomputed, Typed, Fields
<1>3. Typed(p)
  BY <1>1 DEF Recomputed, Typed, Fields
<1> HIDE DEF p
<1>4. /\ q.last \in Nat /\ q.decode \in Nat /\ q.decodeService \in Nat
      /\ q.recomputeService \in Nat
  BY <1>1 DEF Typed
<1>5. /\ p.last <= t + lat
      /\ p.decodeService + p.recomputeService <= p.decode + ((t + lat) - p.last)
  BY <1>2, <1>4 DEF ReqSound
<1>6. ReqSound(p, t + lat)
  <2>1. p.arrival # NotArrived /\ p.steps # 0
    BY <1>2
  <2>2. /\ p.total = p.last - p.arrival /\ p.total = p.prefill + p.decode
        /\ p.decodeMax <= p.decode
        /\ p.prefillService <= p.prefill /\ p.decodeService <= p.decode
    BY <1>2 DEF ReqSound
  <2>3. QED
    BY <1>3, <1>5, <2>1, <2>2 DEF ReqSound
<1>7. QED
  BY <1>2, <1>6 DEF p

\* A step whose compute phase began at t.
LEMMA AdvancedSound ==
  ASSUME NEW q, NEW t \in Nat, NEW lat \in Nat, ReqSound(q, t),
         q.arrival # NotArrived, ~q.recompute
  PROVE  LET p == Advanced(q, lat, t + lat)
         IN  /\ ReqSound(p, t + lat)
             /\ p.steps # 0 /\ ~p.recompute /\ p.arrival = q.arrival
             /\ p.decodeService + p.recomputeService <= p.decode
<1> DEFINE p == Advanced(q, lat, t + lat)
           spent == (t + lat) - q.last
<1>1. /\ q.arrival \in Nat /\ q.last \in Nat /\ q.steps \in Nat /\ q.total \in Nat
      /\ q.prefill \in Nat /\ q.prefillService \in Nat /\ q.decode \in Nat
      /\ q.decodeMax \in Nat /\ q.decodeService \in Nat /\ q.recomputeService \in Nat
      /\ Typed(q)
  BY DEF ReqSound, Typed
<1>2. /\ q.last <= t /\ q.decodeMax <= q.decode /\ q.decodeService <= q.decode
      /\ q.prefillService <= q.prefill
      /\ q.total = q.last - q.arrival /\ q.total = q.prefill + q.decode
      /\ q.decodeService + q.recomputeService <= q.decode + (t - q.last)
  BY DEF ReqSound
<1>3. spent \in Nat /\ lat <= spent /\ t + lat \in Nat
  BY <1>1, <1>2
<1>4. CASE q.steps = 0
  <2>1. /\ q.prefill = 0 /\ q.prefillService = 0 /\ q.decode = 0 /\ q.decodeService = 0
        /\ q.recomputeService = 0
    BY <1>4 DEF ReqSound
  <2>2. /\ p.arrival = q.arrival /\ p.last = t + lat /\ p.steps = 1
        /\ p.total = q.total + spent /\ p.prefill = spent /\ p.prefillService = lat
        /\ p.decode = 0 /\ p.decodeMax = q.decodeMax /\ p.decodeService = 0
        /\ p.recompute = q.recompute /\ p.recomputeService = 0
    BY <1>1, <1>4, <2>1 DEF Advanced, Typed, Fields
  <2>3. Typed(p)
    BY <1>1, <1>3, <1>4 DEF Advanced, Typed, Fields
  <2> HIDE DEF p
  <2>4. /\ p.total = p.last - p.arrival /\ p.total = p.prefill + p.decode
        /\ p.decodeMax <= p.decode /\ p.last <= t + lat
        /\ p.prefillService <= p.prefill /\ p.decodeService <= p.decode
        /\ p.decodeService + p.recomputeService <= p.decode + ((t + lat) - p.last)
        /\ p.decodeService + p.recomputeService <= p.decode
        /\ p.steps # 0 /\ p.arrival # NotArrived
    <3>1. p.total = p.last - p.arrival /\ p.total = p.prefill + p.decode
      BY <1>1, <1>2, <2>1, <2>2, SMTT(30)
    <3>2. p.decodeMax <= p.decode
      BY <1>2, <2>1, <2>2
    <3>3. /\ p.prefillService <= p.prefill /\ p.decodeService <= p.decode
          /\ p.decodeService + p.recomputeService <= p.decode
          /\ p.decodeService + p.recomputeService <= p.decode + ((t + lat) - p.last)
          /\ p.last <= t + lat
      BY <1>3, <2>2
    <3>4. QED
      BY <2>2, <3>1, <3>2, <3>3
  <2>5. ReqSound(p, t + lat)
    BY <2>3, <2>4 DEF ReqSound
  <2>6. QED
    BY <2>2, <2>4, <2>5 DEF p
<1>5. CASE q.steps # 0
  <2>1. /\ Larger(q.decodeMax, spent) \in Nat
        /\ Larger(q.decodeMax, spent) <= q.decode + spent
    BY <1>1, <1>2, <1>3 DEF Larger
  <2>2. /\ p.arrival = q.arrival /\ p.last = t + lat /\ p.steps = q.steps + 1
        /\ p.total = q.total + spent /\ p.prefill = q.prefill
        /\ p.prefillService = q.prefillService /\ p.decode = q.decode + spent
        /\ p.decodeMax = Larger(q.decodeMax, spent)
        /\ p.decodeService = q.decodeService + lat
        /\ p.recompute = q.recompute /\ p.recomputeService = q.recomputeService
    BY <1>1, <1>5 DEF Advanced, Typed, Fields
  <2>3. Typed(p)
    <3>1. /\ q.steps + 1 \in Nat /\ q.total + spent \in Nat /\ q.decode + spent \in Nat
          /\ q.decodeService + lat \in Nat
      BY <1>1, <1>3
    <3> HIDE DEF spent
    <3>2. QED
      BY <1>1, <1>3, <1>5, <2>1, <3>1 DEF Advanced, Typed, Fields, spent
  <2> HIDE DEF p
  <2>4. /\ p.total = p.last - p.arrival /\ p.total = p.prefill + p.decode
        /\ p.decodeMax <= p.decode /\ p.last <= t + lat
        /\ p.prefillService <= p.prefill /\ p.decodeService <= p.decode
        /\ p.decodeService + p.recomputeService <= p.decode + ((t + lat) - p.last)
        /\ p.decodeService + p.recomputeService <= p.decode
        /\ p.steps # 0 /\ p.arrival # NotArrived
    BY <1>1, <1>2, <1>3, <2>1, <2>2
  <2>5. ReqSound(p, t + lat)
    BY <2>3, <2>4 DEF ReqSound
  <2>6. QED
    BY <2>2, <2>4, <2>5 DEF p
<1>6. QED
  BY <1>1, <1>4, <1>5

\* A request that is preempted has only its cache to recompute.
LEMMA PreemptedSound ==
  ASSUME NEW q, NEW t \in Nat, ReqSound(q, t), q.arrival # NotArrived, q.steps # 0
  PROVE  LET p == [q EXCEPT !.recompute = TRUE]
         IN  /\ ReqSound(p, t)
             /\ p.steps = q.steps /\ p.arrival = q.arrival
             /\ p.decodeService = q.decodeService /\ p.decode = q.decode
             /\ p.recomputeService = q.recomputeService
<1> DEFINE p == [q EXCEPT !.recompute = TRUE]
<1>1. Typed(q)
  BY DEF ReqSound
<1>2. /\ p.arrival = q.arrival /\ p.last = q.last /\ p.steps = q.steps /\ p.total = q.total
      /\ p.prefill = q.prefill /\ p.prefillService = q.prefillService
      /\ p.decode = q.decode /\ p.decodeMax = q.decodeMax
      /\ p.decodeService = q.decodeService
      /\ p.recomputeService = q.recomputeService
      /\ Typed(p)
  BY <1>1 DEF Typed, Fields
<1> HIDE DEF p
<1>3. ReqSound(p, t)
  BY <1>2 DEF ReqSound
<1>4. QED
  BY <1>2, <1>3 DEF p

\* A request that has just arrived.
LEMMA ArrivedSound ==
  ASSUME NEW t \in Nat
  PROVE  LET p == [Fresh EXCEPT !.arrival = t, !.last = t]
         IN  /\ ReqSound(p, t)
             /\ p.steps = 0 /\ p.arrival # NotArrived /\ ~p.recompute
             /\ p.decodeService + p.recomputeService <= p.decode
BY DEF Fresh, ReqSound, Typed, Fields, NotArrived

LEMMA FreshSound ==
  /\ ReqSound(Fresh, 0) /\ Fresh.steps = 0
  /\ Fresh.decodeService + Fresh.recomputeService <= Fresh.decode
BY DEF Fresh, ReqSound, Typed, Fields, NotArrived

----
\* One lemma per action.

\* What every state that is sound says of the times it has.
LEMMA TimesAreNumbers ==
  ASSUME TimingInv
  PROVE  /\ now \in Nat
         /\ \A r \in Reqs : Since(r) \in Nat /\ Since(r) <= now
         /\ \A r \in Reqs : Typed(req[r]) /\ req[r].steps \in Nat
BY DEF TimingInv, ClockSound, RequestsSound, ReqSound, Typed, Since

\* Where no request changes, time only goes on.
LEMMA RequestsStay ==
  ASSUME TimingInv, UNCHANGED req, \A r \in Reqs : Since(r)' \in Nat /\ Since(r) <= Since(r)'
  PROVE  RequestsSound'
<1>1. ASSUME NEW r \in Reqs
      PROVE  ReqSound(req[r], Since(r)')
  BY <1>1, TimesAreNumbers, LaterSound DEF TimingInv, RequestsSound
<1>2. QED
  BY <1>1 DEF TimingInv, RequestsSound, Done

LEMMA InitSound == TimingInit => TimingInv
<1> SUFFICES ASSUME TimingInit
             PROVE  TimingInv
  OBVIOUS
<1> USE DEF TimingInit
<1>1. ClockSound
  BY DEF ClockSound
<1>2. ListsSound
  <2>1. Range(<<>>) = {} /\ IsInjective(<<>>) /\ <<>> \in Seq(Reqs)
    BY DEF Range, IsInjective
  <2>2. QED
    BY <2>1 DEF ListsSound, InStep
<1>3. AreaSound
  <2>1. 0 * (0 - 0) = 0
    OBVIOUS
  <2>2. QED
    BY <2>1 DEF AreaSound, Closed
<1>4. RequestsSound
  <2>1. \A r \in Reqs : req[r] = Fresh /\ Since(r) = 0
    BY DEF Since
  <2>2. QED
    BY <2>1, FreshSound DEF RequestsSound, Done
<1>5. QED
  BY <1>1, <1>2, <1>3, <1>4 DEF TimingInv

LEMMA TickSound ==
  ASSUME TimingInv, Tick
  PROVE  TimingInv'
<1> USE DEF Tick
<1>1. ClockSound'
  BY DEF TimingInv, ClockSound
<1>2. ListsSound'
  BY DEF TimingInv, ListsSound, InStep, Done
<1>3. AreaSound'
  <2>1. \A a, c \in Int : \A n, t \in Nat : a + c * ((n + 1) - t) = (a + c * (n - t)) + c
    OBVIOUS
  <2>2. \A a, c, b, l \in Int : a >= b /\ c >= l => a + c >= b + l
    OBVIOUS
  <2>3. /\ now \in Nat /\ sample.area \in Int /\ sample.at \in Nat
        /\ sample.current \in Nat /\ sample.current \in Int
    BY DEF TimingInv, ClockSound, AreaSound
  <2>4. Closed(sample, now + 1) = Closed(sample, now) + sample.current
    BY <2>1, <2>3, ZenonT(60) DEF Closed
  <2>5. Closed(sample, now) \in Int /\ Len(running) \in Nat /\ truth \in Nat
    BY <2>3 DEF Closed, TimingInv, ListsSound, AreaSound
  <2>6. Closed(sample, now + 1) >= truth + Len(running)
    BY <2>2, <2>3, <2>4, <2>5 DEF TimingInv, AreaSound
  <2>7. QED
    BY <2>5, <2>6 DEF TimingInv, AreaSound
<1>4. RequestsSound'
  <2>1. \A r \in Reqs : Since(r)' \in Nat /\ Since(r) <= Since(r)'
    BY DEF TimingInv, ClockSound, Since
  <2>2. QED
    BY <2>1, RequestsStay
<1>5. QED
  BY <1>1, <1>2, <1>3, <1>4 DEF TimingInv

LEMMA ArriveSound ==
  ASSUME TimingInv, NEW r \in Reqs, Arrive(r)
  PROVE  TimingInv'
<1> USE DEF Arrive
<1> DEFINE fresh == [Fresh EXCEPT !.arrival = now, !.last = now]
<1>1. ClockSound'
  BY DEF TimingInv, ClockSound
<1>2. /\ req[r] = Fresh /\ DOMAIN req = Reqs
      /\ req'[r] = fresh /\ \A s \in Reqs \ {r} : req'[s] = req[s]
      /\ DOMAIN req' = Reqs
  BY DEF TimingInv, RequestsSound, ReqSound
<1>3. /\ ReqSound(fresh, now) /\ fresh.steps = 0 /\ fresh.arrival # NotArrived
      /\ ~fresh.recompute /\ fresh.decodeService + fresh.recomputeService <= fresh.decode
  BY ArrivedSound DEF TimingInv, ClockSound
<1> HIDE DEF fresh
<1>4. r \notin Range(waiting) /\ r \notin Range(running)
  BY DEF TimingInv, ListsSound
<1>5. InStep' <=> InStep
  BY DEF InStep
<1>6. InStep => r \notin Range(batch)
  BY <1>4 DEF TimingInv, ListsSound
<1>7. ListsSound'
  <2>1. /\ waiting' \in Seq(Reqs) /\ IsInjective(waiting')
        /\ Range(waiting') = Range(waiting) \cup {r}
    BY <1>4, AppendRange DEF TimingInv, ListsSound
  <2>2. \A s \in Range(waiting') \cup Range(running) :
          req'[s].arrival # NotArrived /\ req'[s].steps # DecodeLen[s]
    <3>1. DecodeLen[r] # 0
      BY TimingAssumption
    <3>2. Range(waiting) \subseteq Reqs /\ Range(running) \subseteq Reqs
      BY DEF TimingInv, ListsSound, Range
    <3>3. QED
      BY <1>2, <1>3, <2>1, <3>1, <3>2 DEF TimingInv, ListsSound, Done
  <2>3. Range(running) \subseteq Reqs /\ Range(batch) \subseteq Reqs
    BY DEF TimingInv, ListsSound, Range
  <2>4. \A s \in Range(running) : req'[s] = req[s]
    BY <1>2, <1>4, <2>3
  <2>5. InStep => \A s \in Range(batch) : req'[s] = req[s]
    BY <1>2, <1>6, <2>3
  <2>6. Range(waiting') \cap Range(running) = {}
    BY <1>4, <2>1 DEF TimingInv, ListsSound
  <2>7. InStep => /\ Range(batch) \subseteq Range(running)
                  /\ \A s, t \in Range(batch) : req'[s].recompute <=> req'[t].recompute
    BY <2>5 DEF TimingInv, ListsSound
  <2>8. \A s \in Range(running) :
          req'[s].steps = 0 \/ req'[s].recompute => InStep /\ s \in Range(batch)
    BY <2>4 DEF TimingInv, ListsSound
  <2>9. QED
    BY <1>5, <2>1, <2>2, <2>6, <2>7, <2>8 DEF TimingInv, ListsSound, Done
<1>8. AreaSound'
  BY DEF TimingInv, AreaSound
<1>9. RequestsSound'
  <2>1. Since(r)' = now
    BY <1>6 DEF Since, InStep
  <2>2. \A s \in Reqs : Since(s)' = Since(s)
    BY DEF Since, TimingInv, ClockSound
  <2>3. \A s \in Reqs : ReqSound(req'[s], Since(s)')
    BY <1>2, <1>3, <2>1, <2>2 DEF TimingInv, RequestsSound
  <2>4. \A s \in Reqs : Done(s)' => req'[s].decodeService + req'[s].recomputeService <= req'[s].decode
    BY <1>2, <1>3 DEF TimingInv, RequestsSound, Done
  <2>5. QED
    BY <1>2, <2>3, <2>4 DEF RequestsSound
<1>10. QED
  BY <1>1, <1>7, <1>8, <1>9 DEF TimingInv

\* Outside the steps every request that runs has a token and its cache.
LEMMA RunningReady ==
  ASSUME TimingInv, phase = "schedule", NEW r \in Range(running)
  PROVE  /\ r \in Reqs /\ req[r].arrival # NotArrived /\ ~Done(r)
         /\ req[r].steps # 0 /\ ~req[r].recompute /\ Since(r) = now
BY DEF TimingInv, ListsSound, InStep, Since, Range

LEMMA AdmissionSound ==
  ASSUME TimingInv, phase = "schedule", NEW n \in 1 .. Len(waiting), Admission(n),
         phase' = "load"
  PROVE  ListsSound' /\ UNCHANGED req
<1> DEFINE taken == SubSeq(waiting, 1, n)
           rest == SubSeq(waiting, n + 1, Len(waiting))
<1>1. /\ batch' = taken /\ running' = running \o taken /\ waiting' = rest
      /\ req' = req
      /\ \A i, j \in 1 .. n : req[taken[i]].recompute = req[taken[j]].recompute
  BY DEF Admission
<1>2. /\ waiting \in Seq(Reqs) /\ running \in Seq(Reqs)
      /\ IsInjective(waiting) /\ IsInjective(running)
      /\ Range(waiting) \cap Range(running) = {}
      /\ \A r \in Range(waiting) \cup Range(running) :
           req[r].arrival # NotArrived /\ ~Done(r)
  BY DEF TimingInv, ListsSound
<1>3. n \in 0 .. Len(waiting)
  BY <1>2
<1>4. /\ taken \in Seq(Reqs) /\ rest \in Seq(Reqs) /\ Len(taken) = n
      /\ Range(waiting) = Range(taken) \cup Range(rest)
      /\ IsInjective(taken) /\ IsInjective(rest)
      /\ Range(taken) \cap Range(rest) = {}
  BY <1>2, <1>3, SplitRange
<1> HIDE DEF taken, rest
<1>5. /\ running \o taken \in Seq(Reqs) /\ IsInjective(running \o taken)
      /\ Range(running \o taken) = Range(running) \cup Range(taken)
  BY <1>2, <1>4, ConcatRange
<1>6. \A r, s \in Range(taken) : req[r].recompute <=> req[s].recompute
  <2>1. DOMAIN taken = 1 .. n
    BY <1>4
  <2>2. QED
    BY <1>1, <2>1 DEF Range
<1>7. \A r \in Range(running) : req[r].steps # 0 /\ ~req[r].recompute
  BY RunningReady
<1>8. InStep'
  BY DEF InStep
<1>9. \A r \in Reqs : Done(r)' = Done(r)
  BY <1>1 DEF Done
<1>10. /\ running' \in Seq(Reqs) /\ waiting' \in Seq(Reqs) /\ batch' \in Seq(Reqs)
       /\ IsInjective(running') /\ IsInjective(waiting')
       /\ Range(waiting') \cap Range(running') = {}
       /\ Range(batch') \subseteq Range(running')
  BY <1>1, <1>2, <1>4, <1>5
<1>11. \A r \in Range(waiting') \cup Range(running') :
          req'[r].arrival # NotArrived /\ ~(req'[r].steps = DecodeLen[r])
  BY <1>1, <1>2, <1>4, <1>5 DEF Done
<1>12. \A r \in Range(running') :
          req'[r].steps = 0 \/ req'[r].recompute => r \in Range(batch')
  BY <1>1, <1>5, <1>7
<1>13. QED
  BY <1>1, <1>6, <1>8, <1>10, <1>11, <1>12 DEF ListsSound, Done

LEMMA DecodingSound ==
  ASSUME TimingInv, phase = "schedule", NEW n \in 0 .. Len(running), Decoding(n),
         phase' = "load", now' = now
  PROVE  ListsSound' /\ RequestsSound' /\ Len(running') <= Len(running)
<1> DEFINE m == Len(running) - n
           kept == SubSeq(running, 1, m)
           victims == SubSeq(running, m + 1, Len(running))
           Marked(r) == [req[r] EXCEPT !.recompute = TRUE]
<1>1. /\ batch' = kept /\ running' = kept /\ waiting' = victims \o waiting
      /\ req' = [r \in Reqs |-> IF r \in Range(victims) THEN Marked(r) ELSE req[r]]
  BY DEF Decoding
<1>2. /\ waiting \in Seq(Reqs) /\ running \in Seq(Reqs)
      /\ IsInjective(waiting) /\ IsInjective(running)
      /\ Range(waiting) \cap Range(running) = {}
      /\ \A r \in Range(waiting) \cup Range(running) :
           req[r].arrival # NotArrived /\ ~Done(r)
  BY DEF TimingInv, ListsSound
<1>3. m \in 0 .. Len(running)
  BY <1>2
<1>4. /\ kept \in Seq(Reqs) /\ victims \in Seq(Reqs) /\ Len(kept) = m
      /\ Range(running) = Range(kept) \cup Range(victims)
      /\ IsInjective(kept) /\ IsInjective(victims)
      /\ Range(kept) \cap Range(victims) = {}
  <2> HIDE DEF m
  <2> QED
    BY <1>2, <1>3, SplitRange
<1>5. Len(kept) <= Len(running)
  BY <1>2, <1>4
<1> HIDE DEF kept, victims, m
<1>6. /\ victims \o waiting \in Seq(Reqs) /\ IsInjective(victims \o waiting)
      /\ Range(victims \o waiting) = Range(victims) \cup Range(waiting)
  BY <1>2, <1>4, ConcatRange
<1>7. \A r \in Range(running) : /\ r \in Reqs /\ req[r].steps # 0 /\ ~req[r].recompute
                                /\ req[r].arrival # NotArrived
  BY RunningReady
<1>8. \A r \in Reqs : Since(r) = now /\ Since(r)' = now
  BY DEF Since
<1>9. \A r \in Reqs : ReqSound(req[r], now)
  BY <1>8 DEF TimingInv, RequestsSound
<1>10. \A r \in Range(victims) :
         /\ ReqSound(Marked(r), now)
         /\ Marked(r).steps = req[r].steps /\ Marked(r).arrival = req[r].arrival
         /\ Marked(r).decodeService = req[r].decodeService /\ Marked(r).decode = req[r].decode
         /\ Marked(r).recomputeService = req[r].recomputeService
  <2>1. now \in Nat
    BY TimesAreNumbers
  <2>2. SUFFICES ASSUME NEW r \in Range(victims)
                 PROVE  /\ ReqSound(Marked(r), now)
                        /\ Marked(r).steps = req[r].steps
                        /\ Marked(r).arrival = req[r].arrival
                        /\ Marked(r).decodeService = req[r].decodeService
                        /\ Marked(r).decode = req[r].decode
                        /\ Marked(r).recomputeService = req[r].recomputeService
    OBVIOUS
  <2>3. r \in Reqs /\ req[r].steps # 0 /\ req[r].arrival # NotArrived
    BY <1>4, <1>7
  <2>4. ReqSound(req[r], now)
    BY <1>9, <2>3
  <2>5. QED
    BY <2>1, <2>3, <2>4, PreemptedSound
<1> HIDE DEF Marked
<1>11. \A r \in Reqs : /\ req'[r].steps = req[r].steps
                       /\ req'[r].arrival = req[r].arrival
                       /\ req'[r].decodeService = req[r].decodeService
                       /\ req'[r].decode = req[r].decode
                       /\ req'[r].recomputeService = req[r].recomputeService
                       /\ ReqSound(req'[r], now)
                       /\ r \notin Range(victims) => req'[r] = req[r]
  BY <1>1, <1>9, <1>10
<1>12. RequestsSound'
  <2>1. DOMAIN req' = Reqs
    BY <1>1
  <2>2. QED
    BY <1>8, <1>11, <2>1 DEF TimingInv, RequestsSound, Done
<1>13. ListsSound'
  <2>1. InStep'
    BY DEF InStep
  <2>2. Range(waiting) \subseteq Reqs /\ Range(running) \subseteq Reqs
    BY <1>2 DEF Range
  <2>3. /\ running' \in Seq(Reqs) /\ waiting' \in Seq(Reqs) /\ batch' \in Seq(Reqs)
        /\ IsInjective(running') /\ IsInjective(waiting')
        /\ Range(waiting') \cap Range(running') = {}
        /\ Range(batch') = Range(running')
        /\ Range(waiting') \cup Range(running') \subseteq Range(waiting) \cup Range(running)
    BY <1>1, <1>2, <1>4, <1>6
  <2>4. \A r \in Range(waiting') \cup Range(running') :
          req'[r].arrival # NotArrived /\ ~(req'[r].steps = DecodeLen[r])
    BY <1>2, <1>11, <2>2, <2>3 DEF Done
  <2>5. \A r \in Range(batch') : ~req'[r].recompute
    BY <1>1, <1>4, <1>7, <1>11, <2>2
  <2>6. QED
    BY <2>1, <2>3, <2>4, <2>5 DEF ListsSound, Done
<1>14. QED
  BY <1>1, <1>5, <1>12, <1>13

LEMMA StartStepSound ==
  ASSUME TimingInv, StartStep
  PROVE  TimingInv'
<1>1. /\ phase = "schedule" /\ phase' = "load" /\ now' = now /\ latency' = latency
      /\ truth' = truth /\ sample' = Sampled(sample, now, running, running')
      /\ \E load \in Overheads : until' = now + load
  BY DEF StartStep
<1>2. ClockSound'
  BY <1>1, TimingAssumption DEF TimingInv, ClockSound
<1>3. ListsSound' /\ RequestsSound'
  <2>1. ASSUME NEW n \in 1 .. Len(waiting), Admission(n)
        PROVE  ListsSound' /\ RequestsSound'
    <3>1. ListsSound' /\ UNCHANGED req
      BY <1>1, <2>1, AdmissionSound
    <3>2. \A r \in Reqs : Since(r)' \in Nat /\ Since(r) <= Since(r)'
      BY <1>1 DEF Since, TimingInv, ClockSound
    <3>3. QED
      BY <3>1, <3>2, RequestsStay
  <2>2. ASSUME NEW n \in 0 .. Len(running), Decoding(n)
        PROVE  ListsSound' /\ RequestsSound'
    BY <1>1, <2>2, DecodingSound
  <2>3. QED
    BY <2>1, <2>2 DEF StartStep
<1>4. AreaSound'
  <2>1. /\ sample \in [area : Int, at : Nat, current : Nat, peak : Nat] /\ now \in Nat
        /\ truth \in Nat /\ Closed(sample, now) >= truth
    BY DEF TimingInv, AreaSound, ClockSound
  <2>2. Len(running') \in Nat
    BY <1>3 DEF ListsSound
  <2>3. Closed(sample, now) \in Int
    BY <2>1 DEF Closed
  <2>4. /\ sample'.area = Closed(sample, now) /\ sample'.at = now
        /\ sample'.current = Len(running') /\ sample'.peak = Larger(sample.peak, Len(running'))
        /\ sample' \in [area : Int, at : Nat, current : Nat, peak : Nat]
    BY <1>1, <2>1, <2>2, <2>3 DEF Sampled, Larger
  <2>5. \A a \in Int, c \in Nat, t \in Nat : a + c * (t - t) = a
    OBVIOUS
  <2>6. Closed(sample', now) = Closed(sample, now)
    <3>1. Closed(sample', now) = sample'.area + sample'.current * (now - sample'.at)
      BY DEF Closed
    <3>2. Closed(sample', now) = Closed(sample, now) + Len(running') * (now - now)
      BY <2>4, <3>1, Zenon
    <3>3. QED
      BY <2>1, <2>2, <2>3, <2>5, <3>2, Zenon
  <2>7. Closed(sample, now)' = Closed(sample', now)
    BY <1>1 DEF Closed
  <2>8. QED
    BY <1>1, <2>1, <2>2, <2>4, <2>6, <2>7 DEF AreaSound, Larger
<1>5. QED
  BY <1>2, <1>3, <1>4 DEF TimingInv

LEMMA StartComputeSound ==
  ASSUME TimingInv, StartCompute
  PROVE  TimingInv'
<1> USE DEF StartCompute
<1>1. PICK lat \in Latencies : latency' = lat /\ until' = now + lat
  OBVIOUS
<1>2. lat \in Nat /\ now \in Nat
  BY TimingAssumption DEF TimingInv, ClockSound
<1>3. until' - latency' = now
  BY <1>1, <1>2
<1>4. ClockSound'
  BY <1>1, <1>2, <1>3 DEF ClockSound
<1>5. ListsSound'
  BY DEF TimingInv, ListsSound, InStep, Done
<1>6. AreaSound'
  BY DEF TimingInv, AreaSound, Closed
<1>7. RequestsSound'
  <2>1. \A r \in Reqs : Since(r)' = now /\ Since(r) = now
    BY <1>3 DEF Since
  <2>2. QED
    BY <1>2, <2>1, RequestsStay
<1>8. QED
  BY <1>4, <1>5, <1>6, <1>7 DEF TimingInv

\* The end of a step changes the phase alone; who runs is then not in a step.
LEMMA PhaseEnds ==
  ASSUME TimingInv, phase # "compute", phase' \in {"idle", "schedule"},
         UNCHANGED <<now, until, latency, waiting, running, batch, req, sample, truth>>,
         phase = "save" \/ batch = <<>>
  PROVE  TimingInv'
<1>1. ClockSound' /\ AreaSound'
  BY DEF TimingInv, ClockSound, AreaSound, Closed
<1>2. ~InStep'
  BY DEF InStep
<1>3. \A r \in Range(running) : req[r].steps # 0 /\ ~req[r].recompute
  <2>1. Range(<<>>) = {}
    BY DEF Range
  <2>2. QED
    BY <2>1 DEF TimingInv, ListsSound, InStep
<1>4. ListsSound'
  BY <1>2, <1>3 DEF TimingInv, ListsSound, Done
<1>5. RequestsSound'
  <2>1. \A r \in Reqs : Since(r)' = now /\ Since(r) = now
    BY DEF Since
  <2>2. QED
    BY <2>1, RequestsStay, TimesAreNumbers
<1>6. QED
  BY <1>1, <1>4, <1>5 DEF TimingInv

LEMMA EndComputeSound ==
  ASSUME TimingInv, EndCompute
  PROVE  TimingInv'
<1> DEFINE recomputing == req[batch[1]].recompute
           next == [r \in Reqs |->
                      IF r \notin Range(batch) THEN req[r]
                      ELSE IF recomputing THEN Recomputed(req[r], latency, now)
                      ELSE Advanced(req[r], latency, now)]
           left == {r \in Reqs : next[r].steps # DecodeLen[r]}
           t == until - latency
<1>1. /\ phase = "compute" /\ phase' = "save" /\ until = now /\ now' = now
      /\ latency' = latency /\ waiting' = waiting /\ batch' = batch
      /\ sample' = sample /\ truth' = truth
      /\ req' = next /\ running' = Kept(running, left)
      /\ \E save \in Overheads : until' = now + save
  BY DEF EndCompute
<1>2. now \in Nat /\ latency \in Nat /\ t \in Nat /\ t + latency = now
  BY <1>1 DEF TimingInv, ClockSound
<1>3. /\ waiting \in Seq(Reqs) /\ running \in Seq(Reqs) /\ batch \in Seq(Reqs)
      /\ IsInjective(waiting) /\ IsInjective(running)
      /\ Range(waiting) \cap Range(running) = {}
      /\ \A r \in Range(waiting) \cup Range(running) :
           req[r].arrival # NotArrived /\ ~Done(r)
      /\ Range(batch) \subseteq Range(running)
      /\ \A r, s \in Range(batch) : (req[r].recompute <=> req[s].recompute)
      /\ \A r \in Range(running) :
           req[r].steps = 0 \/ req[r].recompute => r \in Range(batch)
  BY <1>1 DEF TimingInv, ListsSound, InStep
<1>4. \A r \in Range(batch) : req[r].recompute <=> recomputing
  <2>1. \A b \in Seq(Reqs) : \A r \in Range(b) : b[1] \in Range(b)
    BY DEF Range
  <2>2. QED
    BY <1>3, <2>1
<1>5. \A r \in Range(batch) : ReqSound(req[r], t) /\ r \in Reqs /\ r \in Range(running)
  <2>1. \A r \in Range(batch) : Since(r) = t
    BY <1>1 DEF Since
  <2>2. Range(batch) \subseteq Reqs
    BY <1>3 DEF Range
  <2>3. QED
    BY <1>3, <2>1, <2>2 DEF TimingInv, RequestsSound
<1> HIDE DEF t, next, recomputing
<1>6. \A r \in Reqs \ Range(batch) : next[r] = req[r]
  BY DEF next
<1>7. ASSUME NEW r \in Range(batch)
      PROVE  /\ ReqSound(next[r], now) /\ next[r].arrival # NotArrived
             /\ next[r].steps # 0 /\ ~next[r].recompute
             /\ next[r].steps = DecodeLen[r] =>
                  next[r].decodeService + next[r].recomputeService <= next[r].decode
  <2>1. /\ ReqSound(req[r], t) /\ r \in Reqs
        /\ req[r].arrival # NotArrived /\ req[r].steps # DecodeLen[r]
    BY <1>3, <1>5, <1>7 DEF Done
  <2>2. CASE recomputing
    <3>1. next[r] = Recomputed(req[r], latency, t + latency)
      BY <1>2, <1>7, <2>1, <2>2 DEF next
    <3>2. req[r].steps # 0
      BY <1>4, <1>7, <2>1, <2>2 DEF ReqSound
    <3>3. /\ ReqSound(next[r], t + latency)
          /\ next[r].steps = req[r].steps /\ ~next[r].recompute
          /\ next[r].arrival = req[r].arrival
      BY <1>2, <2>1, <3>1, <3>2, RecomputedSound
    <3>4. QED
      BY <1>2, <2>1, <3>2, <3>3
  <2>3. CASE ~recomputing
    <3>1. next[r] = Advanced(req[r], latency, t + latency)
      BY <1>2, <1>7, <2>1, <2>3 DEF next
    <3>2. ~req[r].recompute
      BY <1>4, <1>7, <2>3
    <3>3. /\ ReqSound(next[r], t + latency)
          /\ next[r].steps # 0 /\ ~next[r].recompute /\ next[r].arrival = req[r].arrival
          /\ next[r].decodeService + next[r].recomputeService <= next[r].decode
      BY <1>2, <2>1, <3>1, <3>2, AdvancedSound
    <3>4. QED
      BY <1>2, <2>1, <3>3
  <2>4. QED
    BY <2>2, <2>3
<1>8. /\ running' \in Seq(Reqs) /\ Range(running') = Range(running) \cap left
      /\ IsInjective(running') /\ Len(running') <= Len(running)
  BY <1>1, <1>3, KeptProperties
<1>9. Range(waiting) \subseteq Reqs /\ Range(running) \subseteq Reqs
  BY <1>3 DEF Range
<1>10. ClockSound'
  BY <1>1, <1>2, TimingAssumption DEF ClockSound
<1>11. ListsSound'
  <2>1. ~InStep'
    BY <1>1 DEF InStep
  <2>2. ASSUME NEW r \in Range(waiting)
        PROVE  next[r].arrival # NotArrived /\ next[r].steps # DecodeLen[r]
    <3>1. r \in Reqs \ Range(batch)
      BY <1>3, <1>9
    <3>2. QED
      BY <1>3, <1>6, <3>1 DEF Done
  <2>3. ASSUME NEW r \in Range(running')
        PROVE  /\ next[r].arrival # NotArrived /\ next[r].steps # DecodeLen[r]
               /\ next[r].steps # 0 /\ ~next[r].recompute
    <3>1. r \in Reqs /\ r \in Range(running) /\ next[r].steps # DecodeLen[r]
      BY <1>8, <2>3
    <3>2. CASE r \in Range(batch)
      BY <1>7, <3>1, <3>2
    <3>3. CASE r \notin Range(batch)
      BY <1>3, <1>6, <3>1, <3>3
    <3>4. QED
      BY <3>2, <3>3
  <2>4. Range(waiting) \cap Range(running') = {}
    BY <1>3, <1>8
  <2>5. QED
    BY <1>1, <1>3, <1>8, <2>1, <2>2, <2>3, <2>4 DEF ListsSound, Done
<1>12. AreaSound'
  <2>1. Len(running) \in Nat /\ Len(running') \in Nat
    BY <1>3, <1>8
  <2>2. Closed(sample, now)' = Closed(sample, now)
    BY <1>1 DEF Closed
  <2>3. QED
    BY <1>1, <1>8, <2>1, <2>2 DEF TimingInv, AreaSound
<1>13. RequestsSound'
  <2>1. DOMAIN next = Reqs
    BY DEF next
  <2>2. \A r \in Reqs : Since(r)' = now
    BY <1>1 DEF Since
  <2>3. ASSUME NEW r \in Reqs
        PROVE  /\ ReqSound(next[r], now)
               /\ next[r].steps = DecodeLen[r] =>
                    next[r].decodeService + next[r].recomputeService <= next[r].decode
    <3>1. CASE r \in Range(batch)
      BY <1>7, <3>1
    <3>2. CASE r \notin Range(batch)
      <4>1. Since(r) = now /\ next[r] = req[r]
        BY <1>6, <3>2 DEF Since
      <4>2. QED
        BY <4>1 DEF TimingInv, RequestsSound, Done
    <3>3. QED
      BY <3>1, <3>2
  <2>4. QED
    BY <1>1, <2>1, <2>2, <2>3 DEF RequestsSound, Done
<1>14. QED
  BY <1>10, <1>11, <1>12, <1>13 DEF TimingInv

----
\* The theorems.

LEMMA NextSound == TimingInv /\ [TimingNext]_timingVars => TimingInv'
<1>1. SUFFICES ASSUME TimingInv, [TimingNext]_timingVars
               PROVE  TimingInv'
  OBVIOUS
<1>2. CASE EndEmptyStep
  BY <1>1, <1>2, PhaseEnds DEF EndEmptyStep
<1>3. CASE EndStep
  BY <1>1, <1>3, PhaseEnds DEF EndStep
<1>4. CASE UNCHANGED timingVars
  <2>1. ClockSound' /\ ListsSound' /\ AreaSound'
    BY <1>1, <1>4 DEF timingVars, TimingInv, ClockSound, ListsSound, AreaSound, InStep,
                      Done, Closed
  <2>2. \A r \in Reqs : Since(r)' = Since(r)
    BY <1>4 DEF timingVars, Since
  <2>3. RequestsSound'
    BY <1>1, <1>4, <2>2, RequestsStay, TimesAreNumbers DEF timingVars
  <2>4. QED
    BY <2>1, <2>3 DEF TimingInv
<1>5. QED
  BY <1>1, <1>2, <1>3, <1>4, TickSound, ArriveSound, StartStepSound, StartComputeSound,
     EndComputeSound DEF TimingNext

LEMMA InvKeeps == TimingInv => TimesAddUp
<1> SUFFICES ASSUME TimingInv
             PROVE  TimesAddUp
  OBVIOUS
<1>1. ASSUME NEW r \in Reqs
      PROVE  /\ req[r].arrival # NotArrived =>
                  /\ req[r].total = req[r].last - req[r].arrival
                  /\ req[r].total = req[r].prefill + req[r].decode
                  /\ req[r].decodeMax =< req[r].decode
                  /\ req[r].last =< now
             /\ req[r].prefillService =< req[r].prefill
             /\ req[r].decodeService =< req[r].decode
             /\ Done(r) => req[r].decodeService + req[r].recomputeService =< req[r].decode
  <2>1. ReqSound(req[r], Since(r)) /\ Since(r) \in Nat /\ Since(r) <= now /\ now \in Nat
    BY <1>1, TimesAreNumbers DEF TimingInv, RequestsSound
  <2>2. req[r].last <= now
    BY <2>1 DEF ReqSound, Typed
  <2>3. QED
    BY <1>1, <2>1, <2>2 DEF TimingInv, RequestsSound, ReqSound
<1>2. TimesTelescope /\ ServiceFitsTime
  BY <1>1 DEF TimesTelescope, ServiceFitsTime
<1>3. AreaCoversRunning
  <2>1. Len(running) \in Nat
    BY DEF TimingInv, ListsSound
  <2>2. QED
    BY <2>1 DEF TimingInv, AreaSound, AreaCoversRunning
<1>4. QED
  BY <1>2, <1>3 DEF TimesAddUp

\* The reported times of every run add up: a request's prefill and decode times are
\* its life, its compute times fit in them through all preemptions and
\* recomputations, and the load integral and the peak miss no running request.
THEOREM TimesAlwaysAddUp == TimingSpec => []TimesAddUp
BY InitSound, NextSound, InvKeeps, PTL DEF TimingSpec


----
\* Requests and lists of them.

IsRequest(q) ==
  /\ q = [id |-> q.id, at |-> q.at, gap |-> q.gap]
  /\ q.at \in Int \cup {Absent} /\ q.gap \in Nat \cup {Absent}
  /\ q.at = Absent \/ q.gap = Absent

IsList(s) == s \in Seq(Range(s)) /\ \A i \in DOMAIN s : IsRequest(s[i])

LEMMA IsListed ==
  ASSUME NEW n \in Nat, NEW s, s = [i \in 1..n |-> s[i]], \A i \in 1..n : IsRequest(s[i])
  PROVE  IsList(s) /\ DOMAIN s = 1..n /\ Len(s) = n
<1>1. DOMAIN s = 1..n
  OBVIOUS
<1>2. s \in [1..n -> Range(s)]
  BY <1>1 DEF Range
<1>3. s \in Seq(Range(s)) /\ Len(s) = n
  BY <1>2, FunctionIsSeq
<1> QED
  BY <1>1, <1>3 DEF IsList

LEMMA ListLength ==
  ASSUME NEW s, IsList(s)
  PROVE  /\ Len(s) \in Nat /\ DOMAIN s = 1..Len(s)
         /\ s = [i \in 1..Len(s) |-> s[i]]
<1>1. s \in Seq(Range(s))
  BY DEF IsList
<1>2. Len(s) \in Nat /\ DOMAIN s = 1..Len(s) /\ s \in [1..Len(s) -> Range(s)]
  BY <1>1, LenProperties
<1> QED
  BY <1>2

\* A request with another time.
LEMMA Retimed ==
  ASSUME NEW q, IsRequest(q), q.at # Absent, NEW t \in Int
  PROVE  LET p == [q EXCEPT !.at = t]
         IN  IsRequest(p) /\ p.at = t /\ p.at # Absent /\ p.gap = q.gap /\ p.gap = Absent
<1>1. q = [id |-> q.id, at |-> q.at, gap |-> q.gap] /\ q.gap = Absent
  BY DEF IsRequest
<1>2. [q EXCEPT !.at = t] = [id |-> q.id, at |-> t, gap |-> q.gap]
  BY <1>1
<1>3. t # Absent
  BY WorkloadAssumption
<1> QED
  BY <1>1, <1>2, <1>3 DEF IsRequest

LEMMA TimeIsInt == ASSUME NEW q, IsRequest(q), q.at # Absent PROVE q.at \in Int
BY DEF IsRequest

\* A list whose requests got other times.
WithTimes(s, f) ==
  [i \in DOMAIN s |-> IF s[i].at = Absent THEN s[i] ELSE [s[i] EXCEPT !.at = f[i]]]

LEMMA RetimedList ==
  ASSUME NEW s, IsList(s), NEW f, \A i \in DOMAIN s : s[i].at # Absent => f[i] \in Int,
         NEW t, t = WithTimes(s, f)
  PROVE  /\ IsList(t) /\ DOMAIN t = DOMAIN s /\ Len(t) = Len(s)
         /\ \A i \in DOMAIN s : /\ (t[i].at = Absent) = (s[i].at = Absent)
                                /\ s[i].at # Absent => t[i].at = f[i]
<1>1. PICK n \in Nat : n = Len(s) /\ DOMAIN s = 1..n
  BY ListLength
<1>2. ASSUME NEW i \in 1..n
      PROVE  /\ IsRequest(t[i]) /\ (t[i].at = Absent) = (s[i].at = Absent)
             /\ s[i].at # Absent => t[i].at = f[i]
  <2>1. IsRequest(s[i])
    BY <1>1 DEF IsList
  <2>2. CASE s[i].at = Absent
    BY <1>1, <2>1, <2>2 DEF WithTimes
  <2>3. CASE s[i].at # Absent
    <3>1. t[i] = [s[i] EXCEPT !.at = f[i]] /\ f[i] \in Int
      BY <1>1, <2>3 DEF WithTimes
    <3>2. PICK q, v : q = s[i] /\ v = f[i]
      OBVIOUS
    <3>3. PICK p : p = [q EXCEPT !.at = v]
      OBVIOUS
    <3>4. IsRequest(p) /\ p.at = v /\ p.at # Absent
      <4>1. IsRequest(q) /\ q.at # Absent /\ v \in Int
        BY <2>1, <2>3, <3>1, <3>2
      <4> QED
        BY <3>3, <4>1, Retimed
    <3>5. t[i] = p
      BY <3>1, <3>2, <3>3
    <3>6. (p.at = Absent) = (s[i].at = Absent)
      BY <2>3, <3>4
    <3> QED
      BY <3>2, <3>4, <3>5, <3>6
  <2> QED
    BY <2>2, <2>3
<1>3. t = [i \in 1..n |-> t[i]]
  BY <1>1 DEF WithTimes
<1> QED
  BY <1>1, <1>2, <1>3, IsListed

----
\* The order of the replay.

LEMMA EarlierOrders ==
  ASSUME NEW s, IsList(s), NEW i \in DOMAIN s, NEW j \in DOMAIN s
  PROVE  /\ ~Earlier(s, i, i)
         /\ i # j => Earlier(s, i, j) \/ Earlier(s, j, i)
         /\ \A k \in DOMAIN s : Earlier(s, i, j) /\ Earlier(s, j, k) => Earlier(s, i, k)
<1>1. \A k \in DOMAIN s : k \in Int /\ (s[k].at # Absent => s[k].at \in Int)
  BY ListLength DEF IsList, IsRequest
<1> QED
  BY <1>1 DEF Earlier

\* How many requests come before one.
Before(s, i) == {j \in DOMAIN s : Earlier(s, j, i)}

LEMMA BeforeCounts ==
  ASSUME NEW s, IsList(s), NEW i \in DOMAIN s
  PROVE  /\ IsFiniteSet(Before(s, i))
         /\ Cardinality(Before(s, i)) \in 0..(Len(s) - 1)
         /\ \A j \in DOMAIN s : Earlier(s, i, j) =>
              Cardinality(Before(s, i)) < Cardinality(Before(s, j))
<1>1. PICK n \in Nat : n = Len(s) /\ DOMAIN s = 1..n
  BY ListLength
<1>2. IsFiniteSet(1..n) /\ Cardinality(1..n) = n
  BY FS_Interval
<1>3. \A k \in DOMAIN s : IsFiniteSet(Before(s, k)) /\ Cardinality(Before(s, k)) \in Nat
  <2>1. ASSUME NEW k \in DOMAIN s
        PROVE  IsFiniteSet(Before(s, k))
    <3>1. Before(s, k) \in SUBSET (1..n)
      BY <1>1 DEF Before
    <3> QED
      BY <1>2, <3>1, FS_Subset
  <2> QED
    BY <2>1, FS_CardinalityType
<1>4. Cardinality(Before(s, i)) <= n - 1
  <2>1. Before(s, i) \in SUBSET (1..n) /\ i \notin Before(s, i) /\ i \in 1..n
    BY <1>1, EarlierOrders DEF Before
  <2>2. Cardinality(Before(s, i)) <= n /\ Cardinality(Before(s, i)) # n
    BY <1>2, <2>1, FS_Subset
  <2> QED
    BY <1>3, <2>2
<1>5. ASSUME NEW j \in DOMAIN s, Earlier(s, i, j)
      PROVE  Cardinality(Before(s, i)) < Cardinality(Before(s, j))
  <2>1. Before(s, i) \in SUBSET Before(s, j)
    BY <1>5, EarlierOrders DEF Before
  <2>2. i \in Before(s, j) /\ i \notin Before(s, i)
    BY <1>5, EarlierOrders DEF Before
  <2>3. /\ Cardinality(Before(s, i)) <= Cardinality(Before(s, j))
        /\ Cardinality(Before(s, i)) # Cardinality(Before(s, j))
    BY <1>3, <2>1, <2>2, FS_Subset
  <2> QED
    BY <1>3, <2>3
<1> QED
  BY <1>1, <1>3, <1>4, <1>5

\* Every place of the replay is that of one request.
LEMMA EveryPlaceTaken ==
  ASSUME NEW s, IsList(s), NEW k \in DOMAIN s
  PROVE  \E i \in DOMAIN s : Cardinality(Before(s, i)) = k - 1
<1>1. PICK n \in Nat : n = Len(s) /\ DOMAIN s = 1..n
  BY ListLength
<1> DEFINE T == 0..(n - 1)
           f == [i \in 1..n |-> Cardinality(Before(s, i))]
<1>2. f \in [1..n -> T]
  BY <1>1, BeforeCounts
<1>3. \A i, j \in 1..n : f[i] = f[j] => i = j
  <2> SUFFICES ASSUME NEW i \in 1..n, NEW j \in 1..n, i # j
               PROVE  f[i] # f[j]
    OBVIOUS
  <2>1. Earlier(s, i, j) \/ Earlier(s, j, i)
    BY <1>1, EarlierOrders
  <2>2. f[i] < f[j] \/ f[j] < f[i]
    BY <1>1, <2>1, BeforeCounts
  <2>3. f[i] \in Int /\ f[j] \in Int
    BY <1>2
  <2> QED
    BY <2>2, <2>3
<1> HIDE DEF f
<1>4. f \in Injection(1..n, T)
  <2>1. DOMAIN f = 1..n
    BY <1>2
  <2> QED
    BY <1>2, <1>3, <2>1 DEF Injection, IsInjective
<1>5. IsFiniteSet(T) /\ Cardinality(T) = n /\ Cardinality(1..n) = n
  <2>1. 0 \in Int /\ n - 1 \in Int /\ 1 \in Int /\ n \in Int
    OBVIOUS
  <2> QED
    BY <2>1, FS_Interval
<1>6. f \in Surjection(1..n, T)
  BY <1>4, <1>5, FS_Injection
<1>7. k - 1 \in T
  BY <1>1
<1>8. PICK i \in 1..n : f[i] = k - 1
  BY <1>6, <1>7 DEF Surjection
<1> QED
  BY <1>1, <1>8 DEF f

\* The replay has every place of the list, requests with a time first, in the order
\* of time.
InOrder(s) ==
  \A i, j \in DOMAIN s : i < j /\ s[j].at # Absent => s[i].at # Absent /\ s[i].at =< s[j].at

LEMMA ByTimeSorts ==
  ASSUME NEW s, IsList(s)
  PROVE  ByTime(s) \in Seq(Range(s)) /\ Len(ByTime(s)) = Len(s) /\ InOrder(ByTime(s))
<1>1. PICK n \in Nat : n = Len(s) /\ DOMAIN s = 1..n
  BY ListLength
<1> DEFINE at(k) == CHOOSE i \in DOMAIN s : Cardinality(Before(s, i)) = k - 1
<1>2. \A k \in 1..n : at(k) \in DOMAIN s /\ Cardinality(Before(s, at(k))) = k - 1
  BY <1>1, EveryPlaceTaken
<1>3. ByTime(s) = [k \in DOMAIN s |-> s[at(k)]]
  BY DEF ByTime, Before
<1> HIDE DEF at
<1>4. ByTime(s) \in [1..n -> Range(s)]
  BY <1>1, <1>2, <1>3 DEF Range
<1>5. /\ ByTime(s) \in Seq(Range(s)) /\ Len(ByTime(s)) = n
      /\ \A k \in 1..n : ByTime(s)[k] = s[at(k)]
  BY <1>1, <1>3, <1>4, FunctionIsSeq
<1>6. ASSUME NEW k \in 1..n, NEW l \in 1..n, k < l, s[at(l)].at # Absent
      PROVE  s[at(k)].at # Absent /\ s[at(k)].at =< s[at(l)].at
  <2>1. at(k) # at(l)
    BY <1>2, <1>6
  <2>2. ~Earlier(s, at(l), at(k))
    <3>1. Earlier(s, at(l), at(k)) => l - 1 < k - 1
      BY <1>2, BeforeCounts
    <3> QED
      BY <1>6, <3>1
  <2>3. Earlier(s, at(k), at(l))
    BY <1>2, <2>1, <2>2, EarlierOrders
  <2>4. /\ s[at(k)].at # Absent => s[at(k)].at \in Int
        /\ s[at(l)].at # Absent => s[at(l)].at \in Int
    BY <1>2, TimeIsInt DEF IsList
  <2> QED
    BY <1>6, <2>3, <2>4 DEF Earlier
<1>7. InOrder(ByTime(s))
  <2>1. DOMAIN ByTime(s) = 1..n
    BY <1>4
  <2> QED
    BY <1>5, <1>6, <2>1 DEF InOrder
<1> QED
  BY <1>1, <1>5, <1>7
----
\* What the loader makes of a file.

LEMMA ConfigIsSound ==
  ASSUME NEW c \in Configs
  PROVE  /\ c.files \subseteq Seq(Rows)
         /\ c.counts \subseteq Nat \cup {Absent} /\ c.skips \subseteq Nat
         /\ c.jitter \in Nat /\ c.scale \in Nat \ {0}
         /\ c.waits \subseteq Nat /\ c.burst \in BOOLEAN
BY WorkloadAssumption

LEMMA RowIsRequest == ASSUME NEW q \in Rows PROVE IsRequest(q)
BY DEF Rows, IsRequest

LEMMA Sliced ==
  ASSUME NEW file \in Seq(Rows), NEW count \in Nat \cup {Absent}, NEW skip \in Nat,
         skip < Len(file)
  PROVE  IsList(RepeatAndSlice(file, count, skip))
<1>1. PICK rows : rows = SubSeq(file, skip + 1, Len(file))
  OBVIOUS
<1>2. PICK n \in Nat : n = IF count = Absent THEN Len(rows) ELSE count
  <2>1. rows \in Seq(Rows)
    BY <1>1, SuffixProperties
  <2> QED
    BY <2>1
<1>3. rows \in Seq(Rows) /\ Len(rows) \in Nat \ {0}
  <2>1. rows \in Seq(Rows) /\ (1 \in DOMAIN rows <=> 1 \in Nat \ {0} /\ skip + 1 \in DOMAIN file)
    BY <1>1, SuffixProperties
  <2>2. 1 \in DOMAIN rows
    BY <2>1
  <2> QED
    BY <2>1, <2>2
<1>4. PICK s : s = [i \in 1..n |-> rows[((i - 1) % Len(rows)) + 1]]
  OBVIOUS
<1>5. RepeatAndSlice(file, count, skip) = s
  BY <1>1, <1>2, <1>4 DEF RepeatAndSlice
<1>6. ASSUME NEW i \in 1..n
      PROVE  IsRequest(s[i])
  <2>1. PICK l \in Nat \ {0} : l = Len(rows)
    BY <1>3
  <2>2. PICK k \in 1..l : k = ((i - 1) % l) + 1
    <3>1. (i - 1) % l \in 0..(l - 1)
      OBVIOUS
    <3> QED
      BY <3>1
  <2>3. s[i] = rows[k] /\ rows[k] \in Rows
    BY <1>3, <1>4, <2>1, <2>2
  <2> QED
    BY <2>3, RowIsRequest
<1>7. s = [i \in 1..n |-> s[i]]
  BY <1>4
<1>8. IsList(s)
  BY <1>6, <1>7, IsListed
<1> QED
  BY <1>5, <1>8

\* The first timestamp of the rows is one of them: the request without an earlier
\* one has it.
LEMMA FirstTimestampIsInt ==
  ASSUME NEW rows, IsList(rows), NEW k \in DOMAIN rows, rows[k].at # Absent
  PROVE  FirstTimestamp(rows) \in Int
<1>1. 1 \in DOMAIN rows
  BY ListLength
<1>2. PICK i \in DOMAIN rows : Cardinality(Before(rows, i)) = 1 - 1
  BY <1>1, EveryPlaceTaken
<1>3. Before(rows, i) = {}
  <2>1. IsFiniteSet(Before(rows, i)) /\ Cardinality(Before(rows, i)) = 0
    BY <1>2, BeforeCounts
  <2> QED
    BY <2>1, FS_EmptySet
<1>4. \A j \in DOMAIN rows : ~Earlier(rows, j, i)
  BY <1>3 DEF Before
<1>5. rows[i].at # Absent
  BY <1>4 DEF Earlier
<1>6. \A j \in Timed(rows) : rows[j].at \in Int /\ ~(rows[j].at < rows[i].at)
  BY <1>4, <1>5, TimeIsInt DEF Timed, IsList, Earlier
<1>7. rows[i].at \in Int /\ i \in Timed(rows)
  BY <1>5, TimeIsInt DEF Timed, IsList
<1> DEFINE times == {rows[j].at : j \in Timed(rows)}
<1>8. rows[i].at \in times /\ times \subseteq Int
  BY <1>6, <1>7
<1>9. \A u \in times : rows[i].at =< u
  BY <1>6, <1>7
<1>10. FirstTimestamp(rows) = CHOOSE t \in times : \A u \in times : t =< u
  BY DEF FirstTimestamp
<1> HIDE DEF times
<1>11. FirstTimestamp(rows) \in times
  BY <1>8, <1>9, <1>10
<1> QED
  BY <1>8, <1>11

LEMMA LoadedIsList ==
  ASSUME NEW rows, IsList(rows)
  PROVE  IsList(Loaded(rows))
<1>1. PICK n \in Nat : n = Len(rows) /\ DOMAIN rows = 1..n
  BY ListLength
<1>2. PICK ids, first : ids = Ids(rows) /\ first = FirstTimestamp(rows)
  OBVIOUS
<1>3. PICK s : s = Loaded(rows)
  OBVIOUS
<1>4. s = [i \in 1..n |->
             IF config.format = "json_pairs"
             THEN [rows[i] EXCEPT !.id = i - 1]
             ELSE [id  |-> ids[i],
                   at  |-> IF rows[i].at = Absent THEN Absent ELSE rows[i].at - first,
                   gap |-> Absent]]
  BY <1>1, <1>2, <1>3 DEF Loaded
<1>5. ASSUME NEW i \in 1..n
      PROVE  IsRequest(s[i])
  <2>1. PICK q : q = rows[i] /\ IsRequest(q)
    BY <1>1 DEF IsList
  <2>2. CASE config.format = "json_pairs"
    <3>1. s[i] = [q EXCEPT !.id = i - 1]
      BY <1>4, <2>1, <2>2
    <3>2. [q EXCEPT !.id = i - 1] = [id |-> i - 1, at |-> q.at, gap |-> q.gap]
      BY <2>1 DEF IsRequest
    <3> QED
      BY <2>1, <3>1, <3>2 DEF IsRequest
  <2>3. CASE config.format # "json_pairs"
    <3>1. s[i] = [id |-> ids[i], at |-> IF q.at = Absent THEN Absent ELSE q.at - first,
                  gap |-> Absent]
      BY <1>4, <2>1, <2>3
    <3>2. q.at # Absent => q.at \in Int /\ first \in Int
      BY <1>1, <1>2, <2>1, FirstTimestampIsInt, TimeIsInt
    <3> QED
      BY <3>1, <3>2 DEF IsRequest
  <2> QED
    BY <2>2, <2>3
<1>6. s = [i \in 1..n |-> s[i]]
  BY <1>4
<1>7. IsList(s)
  BY <1>5, <1>6, IsListed
<1> QED
  BY <1>3, <1>7
----
\* The clocks of the jitters.

\* A time at a distance of at most d from o, and not negative, unless o is.
Near(t, o, d) == o >= 0 => t >= 0 /\ Distance(t, o) =< d

LEMMA ScaledTimes ==
  ASSUME NEW a \in Int, NEW b \in Int, NEW c \in Nat \ {0}, NEW d \in Nat
  PROVE  /\ a * c \in Int /\ (a < b => a * c < b * c)
         /\ (b - a) * c = b * c - a * c
         /\ Near(a, b, d) => Near(a * c, b * c, d * c)
<1>1. a * c \in Int /\ b * c \in Int /\ d * c \in Int
  OBVIOUS
<1>2. (b - a) * c = b * c - a * c /\ (a - b) * c = a * c - b * c
  OBVIOUS
<1>3. \A x, y \in Int : x =< y => x * c =< y * c
  OBVIOUS
<1>4. \A x, y \in Int : x < y => x * c < y * c
  OBVIOUS
<1>5. b * c >= 0 => b >= 0
  <2>1. b < 0 => b * c < 0 * c
    BY <1>4
  <2> QED
    BY <1>1, <2>1
<1>6. ASSUME Near(a, b, d), b >= 0
      PROVE  a * c >= 0 /\ Distance(a * c, b * c) =< d * c
  <2>1. a >= 0 /\ b - a =< d /\ a - b =< d
    BY <1>6 DEF Near, Distance
  <2>2. 0 * c =< a * c /\ (b - a) * c =< d * c /\ (a - b) * c =< d * c
    BY <1>3, <2>1
  <2> QED
    BY <1>1, <1>2, <2>2 DEF Distance
<1> QED
  BY <1>1, <1>2, <1>4, <1>5, <1>6 DEF Near

\* A time moved by an offset of at most d.
LEMMA MovedTime ==
  ASSUME NEW a \in Int, NEW d \in Nat, NEW o \in -d..d
  PROVE  NoneBelowZero(a + o) \in Nat /\ Near(NoneBelowZero(a + o), a, d)
BY DEF NoneBelowZero, Near, Distance

----
\* The invariant: the requests keep their number and which of them have a time; at
\* each stage of the loader they are as near to the times of the file as the jitters
\* behind it allow; the source has what is to come in the order of time, nothing of
\* it before its clock.

Stages == {"rows", "jitter", "scale", "burst", "replay", "rejected"}

\* The same requests with a time.
Matching(s, o) ==
  DOMAIN s = DOMAIN o /\ \A i \in DOMAIN s : (s[i].at = Absent) = (o[i].at = Absent)

Drift == IF PerBurst THEN 0 ELSE Jitter

ListInv ==
  /\ config \in Configs /\ stage \in Stages
  /\ IsList(list) /\ IsList(original) /\ Matching(list, original)

StageInv ==
  /\ stage \in {"rows", "jitter"} => list = original
  /\ stage = "scale" => \A i \in Timed(list) :
       /\ Near(list[i].at, original[i].at, Drift)
       /\ PerBurst => list[i].at = original[i].at
  /\ stage = "burst" => \A i \in Timed(list) :
       /\ Near(list[i].at, original[i].at * Scale, Drift * Scale)
       /\ PerBurst => list[i].at = original[i].at * Scale
  /\ JitterSound

SourceInv ==
  /\ clock \in Nat
  /\ arrivals \in Seq(Range(arrivals))
  /\ \A i \in DOMAIN arrivals : arrivals[i].time \in Nat /\ arrivals[i].time =< clock
  /\ stage # "replay" => arrivals = <<>> /\ clock = 0
  /\ stage = "replay" =>
       /\ IsList(queue) /\ InOrder(queue)
       /\ ~config.burst => \A i \in Timed(queue) : clock =< NoneBelowZero(queue[i].at)
  /\ ArrivesOnTime

WInv == ListInv /\ StageInv /\ SourceInv

LEMMA EmptyList == IsList(<<>>) /\ DOMAIN <<>> = {} /\ <<>> \in Seq(Range(<<>>))
<1>1. <<>> \in Seq(Range(<<>>)) /\ DOMAIN <<>> = {}
  OBVIOUS
<1> QED
  BY <1>1 DEF IsList

LEMMA WorkloadStart == WorkloadInit => WInv
<1> SUFFICES ASSUME WorkloadInit
             PROVE  WInv
  OBVIOUS
<1>1. ListInv
  BY EmptyList DEF WorkloadInit, ListInv, Matching, Stages
<1>2. StageInv
  BY DEF WorkloadInit, StageInv, JitterSound, JitterOnItsClock, BurstsStayTogether,
         SmallJitterAccepted
<1>3. SourceInv
  BY EmptyList DEF WorkloadInit, SourceInv, ArrivesOnTime
<1> QED
  BY <1>1, <1>2, <1>3 DEF WInv

LEMMA LoadKeeps ==
  ASSUME WInv, Load
  PROVE  WInv'
<1>1. PICK f \in config.files, count \in config.counts, skip \in config.skips :
        skip < Len(f) /\ list' = Loaded(RepeatAndSlice(f, count, skip))
  BY DEF Load
<1>2. f \in Seq(Rows) /\ count \in Nat \cup {Absent} /\ skip \in Nat
  BY <1>1, ConfigIsSound DEF WInv, ListInv
<1>3. IsList(list')
  BY <1>1, <1>2, Sliced, LoadedIsList
<1>4. /\ original' = list' /\ stage = "rows" /\ stage' = "jitter"
      /\ UNCHANGED <<config, queue, clock, arrivals>>
  BY DEF Load
<1>5. ListInv'
  BY <1>3, <1>4 DEF WInv, ListInv, Matching, Stages
<1>6. StageInv'
  BY <1>4 DEF StageInv, JitterSound, JitterOnItsClock, BurstsStayTogether, SmallJitterAccepted
<1>7. SourceInv'
  BY <1>4 DEF WInv, SourceInv, ArrivesOnTime
<1> QED
  BY <1>5, <1>6, <1>7 DEF WInv

\* What the invariant says of the configuration.
LEMMA ConfigBounds ==
  ASSUME ListInv
  PROVE  /\ Jitter \in Nat /\ Scale \in Nat \ {0} /\ Drift \in Nat
         /\ Len(list) \in Nat /\ DOMAIN list = 1..Len(list)
         /\ \A i \in Timed(list) : /\ i \in DOMAIN list /\ list[i].at \in Int
                                   /\ original[i].at \in Int /\ i \in Timed(original)
         /\ Timed(original) = Timed(list)
<1>1. config.jitter \in Nat /\ config.scale \in Nat \ {0}
  BY ConfigIsSound DEF ListInv
<1>2. Timed(original) = Timed(list)
  BY DEF ListInv, Matching, Timed
<1>3. ASSUME NEW i \in Timed(list)
      PROVE  i \in DOMAIN list /\ list[i].at \in Int /\ original[i].at \in Int
  <2>1. IsRequest(list[i]) /\ IsRequest(original[i]) /\ i \in DOMAIN list
        /\ list[i].at # Absent /\ original[i].at # Absent
    BY <1>2 DEF ListInv, IsList, Matching, Timed
  <2> QED
    BY <2>1, TimeIsInt
<1>4. Len(list) \in Nat /\ DOMAIN list = 1..Len(list)
  BY ListLength DEF ListInv
<1>5. Jitter \in Nat /\ Scale \in Nat \ {0} /\ Drift \in Nat
  BY <1>1 DEF Jitter, Scale, Drift
<1> QED
  BY <1>2, <1>3, <1>4, <1>5

LEMMA JitterRequestsKeeps ==
  ASSUME WInv, JitterRequests
  PROVE  WInv'
<1>1. ListInv /\ StageInv /\ SourceInv
  BY DEF WInv
<1>2. /\ stage = "jitter" /\ stage' = "scale"
      /\ UNCHANGED <<config, original, queue, clock, arrivals>>
  BY DEF JitterRequests
<1>3. Jitter \in Nat /\ \A i \in Timed(list) : i \in DOMAIN list /\ list[i].at \in Int
  BY <1>1, ConfigBounds
<1>4. list = original /\ IsList(list)
  BY <1>1, <1>2 DEF ListInv, StageInv
<1>5. /\ IsList(list') /\ DOMAIN list' = DOMAIN list
      /\ \A i \in DOMAIN list :
           /\ (list'[i].at = Absent) = (list[i].at = Absent)
           /\ list[i].at # Absent =>
                /\ Near(list'[i].at, list[i].at, Drift)
                /\ PerBurst => list'[i].at = list[i].at
  <2>1. CASE ~PerBurst /\ Jitter > 0
    <3>1. PICK offset \in [Timed(list) -> Offsets] :
            list' = [i \in Indices |->
              IF list[i].at = Absent THEN list[i]
              ELSE [list[i] EXCEPT !.at = NoneBelowZero(@ + offset[i])]]
      BY <2>1 DEF JitterRequests
    <3>2. PICK f : f = [i \in Indices |-> NoneBelowZero(list[i].at + offset[i])]
      OBVIOUS
    <3>3. list' = [i \in DOMAIN list |-> IF list[i].at = Absent THEN list[i]
                                        ELSE [list[i] EXCEPT !.at = f[i]]]
      BY <3>1, <3>2 DEF Indices
    <3>4. ASSUME NEW i \in DOMAIN list, list[i].at # Absent
          PROVE  f[i] \in Int /\ Near(f[i], list[i].at, Drift)
      <4>1. i \in Timed(list)
        BY <3>4 DEF Timed
      <4>2. list[i].at \in Int /\ offset[i] \in -Jitter .. Jitter
        BY <1>3, <3>1, <4>1 DEF Offsets
      <4>3. f[i] = NoneBelowZero(list[i].at + offset[i])
        BY <3>2 DEF Indices
      <4>4. f[i] \in Nat /\ Near(f[i], list[i].at, Jitter)
        BY <1>3, <4>2, <4>3, MovedTime
      <4> QED
        BY <2>1, <4>4 DEF Drift
    <3>5. PICK s, t : s = list /\ t = list'
      OBVIOUS
    <3>6. /\ IsList(t) /\ DOMAIN t = DOMAIN s
          /\ \A i \in DOMAIN s : /\ (t[i].at = Absent) = (s[i].at = Absent)
                                 /\ s[i].at # Absent => t[i].at = f[i]
      <4>1. IsList(s)
        BY <1>4, <3>5
      <4>2. \A i \in DOMAIN s : s[i].at # Absent => f[i] \in Int
        BY <3>4, <3>5
      <4>3. t = WithTimes(s, f)
        BY <3>3, <3>5 DEF WithTimes
      <4> QED
        BY <4>1, <4>2, <4>3, RetimedList
    <3> QED
      BY <2>1, <3>4, <3>5, <3>6
  <2>2. CASE ~(~PerBurst /\ Jitter > 0)
    <3>1. list' = list
      BY <2>2 DEF JitterRequests
    <3>2. \A i \in DOMAIN list : list[i].at # Absent => Near(list[i].at, list[i].at, Drift)
      <4>1. \A x \in Int : Distance(x, x) = 0
        BY DEF Distance
      <4>2. Drift = 0 \/ Drift \in Nat
        BY <1>1, ConfigBounds
      <4> QED
        BY <1>3, <4>1, <4>2 DEF Near, Timed
    <3> QED
      BY <1>4, <3>1, <3>2
  <2> QED
    BY <2>1, <2>2
<1>6. ListInv'
  BY <1>1, <1>2, <1>4, <1>5 DEF ListInv, Matching, Stages
<1>7. StageInv'
  <2>1. Drift' = Drift /\ PerBurst' = PerBurst
    BY <1>2 DEF Drift, PerBurst, Jitter
  <2>2. JitterSound'
    BY <1>2 DEF JitterSound, JitterOnItsClock, BurstsStayTogether, SmallJitterAccepted
  <2>3. \A i \in Timed(list)' : /\ Near(list'[i].at, original'[i].at, Drift')
                                /\ PerBurst' => list'[i].at = original'[i].at
    BY <1>2, <1>4, <1>5, <2>1 DEF Timed
  <2> QED
    BY <1>2, <2>2, <2>3 DEF StageInv, Near, Distance
<1>8. SourceInv'
  BY <1>1, <1>2 DEF SourceInv, ArrivesOnTime
<1> QED
  BY <1>6, <1>7, <1>8 DEF WInv

LEMMA ScaleTimestampsKeeps ==
  ASSUME WInv, ScaleTimestamps
  PROVE  WInv'
<1>1. ListInv /\ StageInv /\ SourceInv
  BY DEF WInv
<1>2. /\ stage = "scale" /\ stage' \in {"rejected", "burst"}
      /\ UNCHANGED <<config, original, queue, clock, arrivals>>
  BY DEF ScaleTimestamps
<1>3. /\ Scale \in Nat \ {0} /\ Drift \in Nat /\ Timed(original) = Timed(list)
      /\ \A i \in Timed(list) : i \in DOMAIN list /\ list[i].at \in Int /\ original[i].at \in Int
  BY <1>1, ConfigBounds
<1>4. SourceInv'
  BY <1>1, <1>2 DEF SourceInv, ArrivesOnTime
<1>5. CASE Scale # 1 /\ Timed(list) = {}
  <2>1. stage' = "rejected" /\ list' = list
    BY <1>5 DEF ScaleTimestamps
  <2>2. ListInv'
    BY <1>1, <1>2, <2>1 DEF ListInv, Matching, Stages
  <2>3. Timed(original') = {}
    BY <1>2, <1>3, <1>5
  <2>4. StageInv'
    BY <2>1, <2>3 DEF StageInv, JitterSound, JitterOnItsClock, BurstsStayTogether,
                      SmallJitterAccepted
  <2> QED
    BY <1>4, <2>2, <2>4 DEF WInv
<1>6. CASE ~(Scale # 1 /\ Timed(list) = {})
  <2>1. /\ stage' = "burst"
        /\ list' = [i \in Indices |->
             IF list[i].at = Absent THEN list[i] ELSE [list[i] EXCEPT !.at = @ * Scale]]
    BY <1>6 DEF ScaleTimestamps
  <2>2. PICK f : f = [i \in Indices |-> list[i].at * Scale]
    OBVIOUS
  <2>3. PICK s, t : s = list /\ t = list'
    OBVIOUS
  <2>4. t = WithTimes(s, f)
    BY <2>1, <2>2, <2>3 DEF Indices, WithTimes
  <2>5. ASSUME NEW i \in DOMAIN s, s[i].at # Absent
        PROVE  f[i] \in Int /\ f[i] = s[i].at * Scale
    <3>1. i \in Timed(list)
      BY <2>3, <2>5 DEF Timed
    <3>2. f[i] = list[i].at * Scale /\ list[i].at \in Int
      BY <1>3, <2>2, <3>1 DEF Indices
    <3> QED
      BY <1>3, <2>3, <3>2, ScaledTimes
  <2>6. /\ IsList(t) /\ DOMAIN t = DOMAIN s
        /\ \A i \in DOMAIN s : /\ (t[i].at = Absent) = (s[i].at = Absent)
                               /\ s[i].at # Absent => t[i].at = f[i]
    <3>1. IsList(s)
      BY <1>1, <2>3 DEF ListInv
    <3> QED
      BY <2>4, <2>5, <3>1, RetimedList
  <2>7. ListInv'
    BY <1>1, <1>2, <2>3, <2>6 DEF ListInv, Matching, Stages
  <2>8. Drift' = Drift /\ PerBurst' = PerBurst /\ Scale' = Scale
    BY <1>2 DEF Drift, PerBurst, Jitter, Scale
  <2>9. ASSUME NEW i \in Timed(t)
        PROVE  /\ Near(t[i].at, original[i].at * Scale, Drift * Scale)
               /\ PerBurst => t[i].at = original[i].at * Scale
    <3>1. i \in Timed(list) /\ t[i].at = list[i].at * Scale
      BY <2>3, <2>5, <2>6 DEF Timed
    <3>2. /\ Near(list[i].at, original[i].at, Drift)
          /\ PerBurst => list[i].at = original[i].at
      BY <1>1, <1>2, <3>1 DEF StageInv
    <3>3. Near(list[i].at * Scale, original[i].at * Scale, Drift * Scale)
      BY <1>3, <3>1, <3>2, ScaledTimes
    <3> QED
      BY <3>1, <3>2, <3>3
  <2>10. JitterSound'
    BY <2>1 DEF JitterSound, JitterOnItsClock, BurstsStayTogether, SmallJitterAccepted
  <2>11. StageInv'
    <3>1. \A i \in Timed(list)' :
            /\ Near(list'[i].at, original'[i].at * Scale', Drift' * Scale')
            /\ PerBurst' => list'[i].at = original'[i].at * Scale'
      <4>1. Timed(list)' = Timed(t)
        BY <2>3 DEF Timed
      <4> QED
        BY <1>2, <2>3, <2>8, <2>9, <4>1
    <3> QED
      BY <2>1, <2>10, <3>1 DEF StageInv, Near, Distance
  <2> QED
    BY <1>4, <2>7, <2>11 DEF WInv
<1> QED
  BY <1>5, <1>6

LEMMA ListOver ==
  ASSUME NEW S, \A q \in S : IsRequest(q), NEW s \in Seq(S)
  PROVE  IsList(s)
<1>1. Len(s) \in Nat /\ DOMAIN s = 1..Len(s) /\ s \in [1..Len(s) -> S]
  BY LenProperties
<1>2. PICK n \in Nat : n = Len(s)
  BY <1>1
<1>3. s = [i \in 1..n |-> s[i]] /\ \A i \in 1..n : IsRequest(s[i])
  BY <1>1, <1>2
<1> QED
  BY <1>3, IsListed

LEMMA ListOverRange == ASSUME NEW s, IsList(s) PROVE \A q \in Range(s) : IsRequest(q)
BY DEF IsList, Range

\* What JitterBursts makes of the times: at most Jitter from the scaled ones, the
\* same for the requests of a burst.
LEMMA BurstTimesMoved ==
  ASSUME ListInv, StageInv, JitterBursts, PerBurst, Jitter > 0
  PROVE  /\ IsList(list') /\ Matching(list', list)
         /\ \A i \in Timed(list) : list'[i].at \in Nat
         /\ \A i \in Timed(list) : Near(list'[i].at, original[i].at * Scale, Jitter)
         /\ \A i, j \in Timed(list) :
              original[i].at = original[j].at => list'[i].at = list'[j].at
         /\ \A i, j \in Timed(list) :
              2 * Jitter < (original[j].at - original[i].at) * Scale => list'[i].at =< list'[j].at
<1>1. PICK offset \in [BurstTimes -> Offsets] : list' = Moved(list, offset)
  BY DEF JitterBursts
<1>2. /\ Scale \in Nat \ {0} /\ Jitter \in Nat
      /\ \A i \in Timed(list) : i \in DOMAIN list /\ list[i].at \in Int /\ original[i].at \in Int
  BY ConfigBounds
<1>3. \A i \in Timed(list) : list[i].at = original[i].at * Scale
  BY DEF JitterBursts, StageInv
<1>4. PICK f : f = [i \in DOMAIN list |-> NoneBelowZero(list[i].at + offset[list[i].at])]
  OBVIOUS
<1>5. ASSUME NEW i \in Timed(list)
      PROVE  /\ offset[list[i].at] \in -Jitter .. Jitter
             /\ f[i] = NoneBelowZero(list[i].at + offset[list[i].at])
             /\ f[i] \in Nat /\ Near(f[i], list[i].at, Jitter)
  <2>1. list[i].at \in BurstTimes
    BY DEF BurstTimes
  <2>2. offset[list[i].at] \in -Jitter .. Jitter
    BY <1>1, <2>1 DEF Offsets
  <2>3. f[i] = NoneBelowZero(list[i].at + offset[list[i].at])
    BY <1>2, <1>4
  <2> QED
    BY <1>2, <2>2, <2>3, MovedTime
<1>6. PICK s, t : s = list /\ t = list'
  OBVIOUS
<1>7. t = WithTimes(s, f)
  BY <1>1, <1>4, <1>6 DEF Moved, WithTimes
<1>8. IsList(s)
  BY <1>6 DEF ListInv
<1>9. \A i \in DOMAIN s : s[i].at # Absent => f[i] \in Int
  BY <1>5, <1>6 DEF Timed
<1>10. /\ IsList(t) /\ DOMAIN t = DOMAIN s
       /\ \A i \in DOMAIN s : /\ (t[i].at = Absent) = (s[i].at = Absent)
                              /\ s[i].at # Absent => t[i].at = f[i]
  BY <1>7, <1>8, <1>9, RetimedList
<1>11. \A i \in Timed(list) : list'[i].at = f[i]
  BY <1>6, <1>10 DEF Timed
<1>12. ASSUME NEW i \in Timed(list), NEW j \in Timed(list),
              2 * Jitter < (original[j].at - original[i].at) * Scale
       PROVE  f[i] =< f[j]
  <2>1. (original[j].at - original[i].at) * Scale = list[j].at - list[i].at
    BY <1>2, <1>3, ScaledTimes
  <2>2. /\ list[i].at \in Int /\ list[j].at \in Int
        /\ offset[list[i].at] \in -Jitter .. Jitter /\ offset[list[j].at] \in -Jitter .. Jitter
    BY <1>2, <1>5
  <2>3. list[i].at + offset[list[i].at] =< list[j].at + offset[list[j].at]
    BY <1>2, <1>12, <2>1, <2>2
  <2> QED
    BY <1>5, <2>2, <2>3 DEF NoneBelowZero
<1>13. \A i, j \in Timed(list) : original[i].at = original[j].at => f[i] = f[j]
  BY <1>3, <1>5
<1> QED
  BY <1>3, <1>5, <1>6, <1>10, <1>11, <1>12, <1>13 DEF Matching

LEMMA JitterBurstsKeeps ==
  ASSUME WInv, JitterBursts
  PROVE  WInv'
<1>1. ListInv /\ StageInv /\ SourceInv
  BY DEF WInv
<1>2. /\ stage = "burst" /\ stage' \in {"replay", "rejected"}
      /\ queue' = IF Timed(list') # {} THEN ByTime(list') ELSE list'
      /\ UNCHANGED <<config, original, clock, arrivals>>
  BY DEF JitterBursts
<1>3. /\ Scale \in Nat \ {0} /\ Jitter \in Nat /\ Drift \in Nat /\ Timed(original) = Timed(list)
      /\ \A i \in Timed(list) : i \in DOMAIN list /\ list[i].at \in Int /\ original[i].at \in Int
  BY <1>1, ConfigBounds
<1>4. PerBurst' = PerBurst /\ Scale' = Scale /\ Jitter' = Jitter
  BY <1>2 DEF PerBurst, Jitter, Scale
<1>5. /\ \A i \in Timed(list) : Near(list[i].at, original[i].at * Scale, Drift * Scale)
      /\ PerBurst => \A i \in Timed(list) : list[i].at = original[i].at * Scale
  BY <1>1, <1>2 DEF StageInv
\* Both cases of the jitter.
<1>6. /\ IsList(list') /\ Matching(list', list)
      /\ \A i \in Timed(list) :
           Near(list'[i].at, original[i].at * Scale, Jitter * (IF PerBurst THEN 1 ELSE Scale))
      /\ PerBurst /\ stage' = "replay" => \A i, j \in Timed(list) :
           /\ original[i].at = original[j].at => list'[i].at = list'[j].at
           /\ InTimeOrder /\ original[i].at < original[j].at => list'[i].at =< list'[j].at
      /\ SmallJitterAccepted'
  <2>1. CASE PerBurst /\ Jitter > 0
    <3>1. stage' = IF InFileOrder(list') THEN "replay" ELSE "rejected"
      BY <2>1 DEF JitterBursts
    <3>2. /\ IsList(list') /\ Matching(list', list)
          /\ \A i \in Timed(list) : list'[i].at \in Nat
          /\ \A i \in Timed(list) : Near(list'[i].at, original[i].at * Scale, Jitter)
          /\ \A i, j \in Timed(list) :
               original[i].at = original[j].at => list'[i].at = list'[j].at
          /\ \A i, j \in Timed(list) :
               2 * Jitter < (original[j].at - original[i].at) * Scale => list'[i].at =< list'[j].at
      BY <1>1, <2>1, BurstTimesMoved
    <3>3. Timed(list') = Timed(list)
      BY <3>2 DEF Timed, Matching
    <3>4. DOMAIN list \subseteq Int
      BY <1>1, ConfigBounds
    <3>5. ASSUME stage' = "replay", InTimeOrder,
                 NEW i \in Timed(list), NEW j \in Timed(list), original[i].at < original[j].at
          PROVE  list'[i].at =< list'[j].at
      <4>1. i \in Int /\ j \in Int /\ i # j /\ ~(j < i)
        BY <1>3, <3>4, <3>5 DEF InTimeOrder
      <4>2. InFileOrder(list')
        BY <3>1, <3>5
      <4> QED
        BY <3>3, <4>1, <4>2 DEF InFileOrder
    <3>6. SmallJitterAccepted'
      <4> SUFFICES ASSUME InTimeOrder,
                          \A i, j \in Timed(original) : original[i].at < original[j].at =>
                            2 * Jitter < (original[j].at - original[i].at) * Scale
                   PROVE  stage' # "rejected"
        BY <1>2, <1>4 DEF SmallJitterAccepted, InTimeOrder
      <4>1. ASSUME NEW i \in Timed(list), NEW j \in Timed(list), i < j
            PROVE  list'[i].at =< list'[j].at
        <5>1. original[i].at =< original[j].at
          BY <1>3, <4>1 DEF InTimeOrder
        <5>2. CASE original[i].at = original[j].at
          BY <3>2, <5>2
        <5>3. CASE original[i].at < original[j].at
          BY <1>3, <3>2, <5>3
        <5> QED
          BY <1>3, <5>1, <5>2, <5>3
      <4>2. InFileOrder(list')
        BY <3>3, <4>1 DEF InFileOrder
      <4> QED
        BY <3>1, <4>2
    <3>7. Jitter * (IF PerBurst THEN 1 ELSE Scale) = Jitter
      BY <1>3, <2>1
    <3> QED
      BY <3>2, <3>5, <3>6, <3>7
  <2>2. CASE ~(PerBurst /\ Jitter > 0)
    <3>1. stage' = "replay" /\ list' = list
      BY <2>2 DEF JitterBursts
    <3>2. Drift * Scale = Jitter * (IF PerBurst THEN 1 ELSE Scale)
      BY <1>3, <2>2 DEF Drift
    <3>3. IsList(list') /\ Matching(list', list)
      BY <1>1, <3>1 DEF ListInv, Matching
    <3>4. ASSUME PerBurst, NEW i \in Timed(list), NEW j \in Timed(list)
          PROVE  /\ original[i].at = original[j].at => list[i].at = list[j].at
                 /\ original[i].at < original[j].at => list[i].at =< list[j].at
      <4>1. list[i].at = original[i].at * Scale /\ list[j].at = original[j].at * Scale
        BY <1>5, <3>4
      <4>2. original[i].at \in Int /\ original[j].at \in Int /\ list[i].at \in Int
            /\ list[j].at \in Int
        BY <1>3
      <4>3. original[i].at < original[j].at => original[i].at * Scale < original[j].at * Scale
        BY <1>3, <4>2, ScaledTimes
      <4> QED
        BY <4>1, <4>2, <4>3
    <3>5. SmallJitterAccepted'
      BY <3>1 DEF SmallJitterAccepted
    <3> QED
      BY <1>5, <3>1, <3>2, <3>3, <3>4, <3>5
  <2> QED
    BY <2>1, <2>2
<1>7. ListInv'
  BY <1>1, <1>2, <1>6 DEF ListInv, Matching, Stages
<1>8. Timed(list') = Timed(list) /\ DOMAIN list' = DOMAIN list
  BY <1>6 DEF Timed, Matching
<1>9. JitterOnItsClock'
  <2>1. ASSUME NEW i \in DOMAIN list, list'[i].at # Absent, original[i].at >= 0
        PROVE  /\ list'[i].at >= 0
               /\ Distance(list'[i].at, original[i].at * Scale)
                    =< Jitter * (IF PerBurst THEN 1 ELSE Scale)
    <3>1. i \in Timed(list)
      BY <1>8, <2>1 DEF Timed
    <3>2. original[i].at * Scale >= 0
      <4>1. PICK o, c \in Int : o = original[i].at /\ c = Scale /\ o >= 0 /\ c >= 0
        BY <1>3, <2>1, <3>1
      <4>2. o * c >= 0
        BY <4>1
      <4> QED
        BY <4>1, <4>2
    <3> QED
      BY <1>6, <3>1, <3>2 DEF Near
  <2>2. \A i \in DOMAIN list : (list'[i].at = Absent) = (original[i].at = Absent)
    BY <1>1, <1>6 DEF ListInv, Matching
  <2> QED
    BY <1>2, <1>4, <1>8, <2>1, <2>2 DEF JitterOnItsClock, Indices, Distance
<1>10. BurstsStayTogether'
  BY <1>2, <1>4, <1>6, <1>8 DEF BurstsStayTogether, InTimeOrder, Timed
<1>11. StageInv'
  BY <1>2, <1>6, <1>9, <1>10 DEF StageInv, JitterSound
<1>12. SourceInv'
  <2>1. PICK t : t = list' /\ IsList(t)
    BY <1>6
  <2>2. IsList(queue') /\ InOrder(queue') /\ Len(queue') = Len(list')
    <3>1. CASE Timed(t) # {}
      <4>1. queue' = ByTime(t)
        BY <1>2, <2>1, <3>1
      <4>2. IsList(ByTime(t)) /\ InOrder(ByTime(t)) /\ Len(ByTime(t)) = Len(t)
        BY <2>1, ByTimeSorts, ListOver, ListOverRange
      <4> QED
        BY <2>1, <4>1, <4>2
    <3>2. CASE Timed(t) = {}
      <4>1. queue' = t
        BY <1>2, <2>1, <3>2
      <4>2. InOrder(t)
        BY <3>2 DEF InOrder, Timed
      <4> QED
        BY <2>1, <4>1, <4>2
    <3> QED
      BY <3>1, <3>2
  <2>3. arrivals' = <<>> /\ clock' = 0 /\ Len(list') \in Nat
    BY <1>1, <1>2, <2>1, ListLength DEF SourceInv
  <2>4. \A i \in Timed(queue') : 0 =< NoneBelowZero(queue'[i].at)
    <3>1. \A i \in Timed(queue') : queue'[i].at \in Int
      BY <2>2, TimeIsInt DEF Timed, IsList
    <3> QED
      BY <3>1 DEF NoneBelowZero
  <2>5. ArrivesOnTime'
    BY <2>2, <2>3 DEF ArrivesOnTime
  <2>6. arrivals' \in Seq(Range(arrivals')) /\ DOMAIN arrivals' = {}
    BY <2>3, EmptyList
  <2> QED
    BY <2>2, <2>3, <2>4, <2>5, <2>6 DEF SourceInv, Timed
<1> QED
  BY <1>7, <1>11, <1>12 DEF WInv

LEMMA SendKeeps ==
  ASSUME WInv, Send
  PROVE  WInv'
<1>1. ListInv /\ StageInv /\ SourceInv
  BY DEF WInv
<1>2. PICK q : q = Head(queue)
  OBVIOUS
<1>3. PICK time :
        time = IF ~config.burst /\ q.at # Absent /\ q.at > clock THEN q.at ELSE clock
  OBVIOUS
<1>4. /\ stage = "replay" /\ queue # <<>> /\ queue' = Tail(queue)
      /\ UNCHANGED <<config, stage, list, original>>
      /\ arrivals' = Append(arrivals, [id |-> q.id, at |-> q.at, time |-> time])
  BY <1>2, <1>3 DEF Send
<1>5. PICK wait \in WaitsAfter(q) : clock' = IF config.burst THEN time ELSE time + wait
  BY <1>2, <1>3 DEF Send
<1>6. ListInv' /\ StageInv'
  BY <1>1, <1>4 DEF ListInv, Matching, StageInv, Near, Distance, Drift, PerBurst, Jitter, Scale,
     JitterSound, JitterOnItsClock, BurstsStayTogether, SmallJitterAccepted, Timed, Indices,
     InTimeOrder
\* The queue.
<1>7. IsList(queue) /\ InOrder(queue)
  BY <1>1, <1>4 DEF SourceInv
<1>8. PICK n \in Nat \ {0} : n = Len(queue) /\ DOMAIN queue = 1..n
  <2>1. Len(queue) \in Nat /\ DOMAIN queue = 1..Len(queue) /\ queue \in Seq(Range(queue))
    BY <1>7, ListLength DEF IsList
  <2>2. Len(queue) # 0
    BY <1>4, <2>1
  <2> QED
    BY <2>1, <2>2
<1>9. /\ q = queue[1] /\ IsRequest(q)
       /\ Len(queue') = n - 1 /\ IsList(queue') /\ DOMAIN queue' = 1..(n - 1)
       /\ \A i \in 1..(n - 1) : queue'[i] = queue[i + 1]
  <2>1. queue \in Seq(Range(queue))
    BY <1>7 DEF IsList
  <2>2. q = queue[1]
    BY <1>2, <1>4, <2>1
  <2>3. /\ queue' \in Seq(Range(queue)) /\ Len(queue') = n - 1
        /\ \A i \in 1..(n - 1) : queue'[i] = queue[i + 1]
    BY <1>4, <1>8, <2>1, HeadTailProperties
  <2>4. DOMAIN queue' = 1..(n - 1)
    BY <2>3
  <2>5. PICK t : t = queue' /\ t \in Seq(Range(queue))
    BY <2>3
  <2>6. IsList(t)
    BY <1>7, <2>5, ListOver, ListOverRange
  <2>7. IsRequest(q)
    BY <1>7, <1>8, <2>2 DEF IsList
  <2> QED
    BY <2>2, <2>3, <2>4, <2>5, <2>6, <2>7
<1>10. InOrder(queue')
  <2>1. \A i \in 1..(n - 1) : i + 1 \in 1..n /\ i \in Int
    OBVIOUS
  <2>2. \A i, j \in 1..(n - 1) : i < j => i + 1 < j + 1
    OBVIOUS
  <2> QED
    BY <1>7, <1>8, <1>9, <2>1, <2>2 DEF InOrder
\* The clock.
<1>11. /\ clock \in Nat /\ config.burst \in BOOLEAN /\ config.waits \subseteq Nat
       /\ ~config.burst => \A i \in Timed(queue) : clock =< NoneBelowZero(queue[i].at)
  BY <1>1, <1>4, ConfigIsSound DEF ListInv, SourceInv
<1>12. q.at # Absent => q.at \in Int /\ (~config.burst => clock =< NoneBelowZero(q.at))
  <2>1. q.at # Absent => 1 \in Timed(queue)
    BY <1>8, <1>9 DEF Timed
  <2> QED
    BY <1>9, <1>11, <2>1, TimeIsInt
<1>13. /\ time \in Nat /\ clock =< time
       /\ ~config.burst /\ q.at # Absent => time = NoneBelowZero(q.at)
  BY <1>3, <1>11, <1>12 DEF NoneBelowZero
<1>14. wait \in Nat /\ (q.at # Absent => wait = 0)
  <2>1. q.gap \in Nat \cup {Absent} /\ (q.at = Absent \/ q.gap = Absent)
    BY <1>9 DEF IsRequest
  <2> QED
    BY <1>5, <1>11, <2>1 DEF WaitsAfter
<1>15. clock' \in Nat /\ time =< clock' /\ (q.at # Absent => clock' = time)
  BY <1>5, <1>11, <1>13, <1>14
<1>16. ~config.burst => \A i \in Timed(queue') : clock' =< NoneBelowZero(queue'[i].at)
  <2> SUFFICES ASSUME ~config.burst, NEW i \in Timed(queue')
               PROVE  clock' =< NoneBelowZero(queue'[i].at)
    OBVIOUS
  <2>1. /\ i \in 1..(n - 1) /\ i + 1 \in 1..n /\ 1 \in 1..n /\ 1 < i + 1
        /\ queue'[i] = queue[i + 1] /\ queue[i + 1].at # Absent
    BY <1>9 DEF Timed
  <2>2. q.at # Absent /\ q.at =< queue[i + 1].at
    BY <1>7, <1>8, <1>9, <2>1 DEF InOrder
  <2>3. queue[i + 1].at \in Int
    BY <1>7, <1>8, <2>1, TimeIsInt DEF IsList
  <2>4. clock' = NoneBelowZero(q.at)
    BY <1>13, <1>15, <2>2
  <2> QED
    BY <1>12, <2>1, <2>2, <2>3, <2>4 DEF NoneBelowZero
\* The arrivals.
<1>17. PICK m \in Nat : m = Len(arrivals) /\ DOMAIN arrivals = 1..m
  BY <1>1, LenProperties DEF SourceInv
<1>18. PICK e : /\ e = [id |-> q.id, at |-> q.at, time |-> time]
                /\ arrivals' = Append(arrivals, e) /\ e.at = q.at /\ e.time = time
  BY <1>4
<1>19. /\ arrivals' \in Seq(Range(arrivals')) /\ Len(arrivals') = m + 1
       /\ DOMAIN arrivals' = 1..(m + 1) /\ arrivals'[m + 1] = e
       /\ \A i \in 1..m : arrivals'[i] = arrivals[i]
  <2>1. PICK S : S = Range(arrivals) \cup {e}
    OBVIOUS
  <2>2. PICK a : a = arrivals /\ a \in Seq(S) /\ e \in S
    <3>1. arrivals \in Seq(Range(arrivals))
      BY <1>1 DEF SourceInv
    <3> QED
      BY <2>1, <3>1, WiderSeq
  <2>3. /\ Append(a, e) \in Seq(S) /\ Len(Append(a, e)) = m + 1
        /\ Append(a, e)[m + 1] = e /\ \A i \in 1..m : Append(a, e)[i] = a[i]
    BY <1>17, <2>2, AppendProperties
  <2>4. PICK b : b = Append(a, e)
    OBVIOUS
  <2>5. DOMAIN b = 1..(m + 1) /\ b \in [1..(m + 1) -> S]
    BY <2>3, <2>4, LenProperties
  <2>6. b \in [1..(m + 1) -> Range(b)]
    BY <2>5 DEF Range
  <2>7. b \in Seq(Range(b))
    BY <2>6, FunctionIsSeq
  <2> QED
    BY <1>18, <2>2, <2>3, <2>4, <2>5, <2>7
<1>20. \A i \in 1..(m + 1) : i \in 1..m \/ i = m + 1
  OBVIOUS
<1>21. ASSUME NEW i \in 1..(m + 1)
       PROVE  /\ arrivals'[i].time \in Nat /\ arrivals'[i].time =< clock'
              /\ ~config.burst /\ arrivals'[i].at # Absent =>
                   arrivals'[i].time = NoneBelowZero(arrivals'[i].at)
  <2>1. CASE i \in 1..m
    <3>1. /\ arrivals[i].time \in Nat /\ arrivals[i].time =< clock
          /\ ~config.burst /\ arrivals[i].at # Absent =>
               arrivals[i].time = NoneBelowZero(arrivals[i].at)
      BY <1>1, <1>17, <2>1 DEF SourceInv, ArrivesOnTime
    <3> QED
      BY <1>11, <1>13, <1>15, <1>19, <2>1, <3>1
  <2>2. CASE i = m + 1
    BY <1>13, <1>15, <1>18, <1>19, <2>2
  <2> QED
    BY <1>20, <2>1, <2>2
<1>22. ASSUME NEW i \in 1..(m + 1), NEW j \in 1..(m + 1), i < j
       PROVE  arrivals'[i].time =< arrivals'[j].time
  <2>1. i \in 1..m /\ arrivals'[i] = arrivals[i]
    BY <1>19, <1>22
  <2>2. CASE j \in 1..m
    BY <1>1, <1>17, <1>19, <1>22, <2>1, <2>2 DEF SourceInv, ArrivesOnTime
  <2>3. CASE j = m + 1
    <3>1. arrivals[i].time \in Nat /\ arrivals[i].time =< clock
      BY <1>1, <1>17, <2>1 DEF SourceInv
    <3> QED
      BY <1>11, <1>13, <1>18, <1>19, <2>1, <2>3, <3>1
  <2> QED
    BY <1>20, <2>2, <2>3
<1>23. Len(arrivals') + Len(queue') = Len(list')
  <2>1. m + n = Len(list)
    BY <1>1, <1>4, <1>8, <1>17 DEF SourceInv, ArrivesOnTime
  <2> QED
    BY <1>4, <1>8, <1>9, <1>17, <1>19, <2>1
<1>24. ArrivesOnTime'
  BY <1>4, <1>19, <1>21, <1>22, <1>23 DEF ArrivesOnTime
<1>25. SourceInv'
  BY <1>4, <1>9, <1>10, <1>15, <1>16, <1>19, <1>21, <1>24 DEF SourceInv, Timed
<1> QED
  BY <1>6, <1>25 DEF WInv

LEMMA WorkloadStep == WInv /\ [WorkloadNext]_workloadVars => WInv'
<1> SUFFICES ASSUME WInv, [WorkloadNext]_workloadVars
             PROVE  WInv'
  OBVIOUS
<1>1. CASE Load
  BY <1>1, LoadKeeps
<1>2. CASE JitterRequests
  BY <1>2, JitterRequestsKeeps
<1>3. CASE ScaleTimestamps
  BY <1>3, ScaleTimestampsKeeps
<1>4. CASE JitterBursts
  BY <1>4, JitterBurstsKeeps
<1>5. CASE Send
  BY <1>5, SendKeeps
<1>6. CASE UNCHANGED workloadVars
  BY <1>6 DEF workloadVars, WInv, ListInv, Matching, StageInv, Near, Distance, Drift, PerBurst,
     Jitter, Scale, JitterSound, JitterOnItsClock, BurstsStayTogether, SmallJitterAccepted,
     Timed, Indices, InTimeOrder, SourceInv, ArrivesOnTime, InOrder
<1> QED
  BY <1>1, <1>2, <1>3, <1>4, <1>5, <1>6 DEF WorkloadNext

\* load_workload: each jitter moves a request on its own clock and no further, bursts
\* move as one and stay in order in every run it accepts, and it accepts them all when
\* the jitter is below half the smallest gap.
THEOREM JitterAlwaysSound == WorkloadSpec => []JitterSound
<1>1. WorkloadInit => WInv
  BY WorkloadStart
<1>2. WInv /\ [WorkloadNext]_workloadVars => WInv'
  BY WorkloadStep
<1>3. WInv => JitterSound
  BY DEF WInv, StageInv
<1> QED
  BY <1>1, <1>2, <1>3, PTL DEF WorkloadSpec

\* LLMSource: every request with a timestamp arrives exactly then, the arrivals are in
\* the order of time, and none is lost or sent twice.
THEOREM ArrivesAlwaysOnTime == WorkloadSpec => []ArrivesOnTime
<1>1. WorkloadInit => WInv
  BY WorkloadStart
<1>2. WInv /\ [WorkloadNext]_workloadVars => WInv'
  BY WorkloadStep
<1>3. WInv => ArrivesOnTime
  BY DEF WInv, SourceInv
<1> QED
  BY <1>1, <1>2, <1>3, PTL DEF WorkloadSpec
====
