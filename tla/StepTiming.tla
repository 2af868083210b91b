---- MODULE StepTiming ----
\* The times TokenSim reports: the aggregates each request keeps of its own steps
\* (llm/llm_request.py) and the integral of the running requests a worker keeps
\* (sample_batch_state and flush_batch_state of llm/llm_engine.py, get_batch_stats
\* of util/results.py). Time is discrete here, and a step has the phases of
\* LLMWorker.run: schedule and sample, load, compute, advance the requests, save.
\* The memory is abstract: how many requests are admitted or preempted is chosen.
EXTENDS Integers, Sequences, Functions, Listings

CONSTANTS
  Reqs,        \* the requests
  DecodeLen,   \* their decode_len
  Latencies,   \* the latencies of a compute phase
  Overheads,   \* the latencies of a load or a save
  MaxTime,     \* the end of the simulation (sim_time): a bound of the model
  MaxPreempt   \* how often a request is preempted: a bound of the model

ASSUME TimingAssumption ==
  /\ DecodeLen \in [Reqs -> Nat \ {0}]
  /\ Latencies \subseteq Nat
  /\ Overheads \subseteq Nat
  /\ MaxTime \in Nat
  /\ MaxPreempt \in Nat

VARIABLES
  now,       \* env.now
  phase,     \* "idle", "schedule", "load", "compute", "save"
  until,     \* when the timeout of the phase fires
  latency,   \* the latency of the compute phase
  waiting,   \* scheduler.waiting
  running,   \* scheduler.running
  batch,     \* the requests of the step
  preempts,  \* how often each request was preempted
  req,       \* the aggregates of each request
  sample,    \* the aggregates of the worker
  truth      \* history: the integral of the running requests over time

timingVars ==
  <<now, phase, until, latency, waiting, running, batch, preempts, req, sample, truth>>

NotArrived == -1

Fresh ==
  [arrival |-> NotArrived, last |-> 0, steps |-> 0, total |-> 0,
   prefill |-> 0, prefillService |-> 0, decode |-> 0, decodeMax |-> 0,
   decodeService |-> 0, recompute |-> FALSE, recomputeService |-> 0]

Larger(a, b) == IF a > b THEN a ELSE b

Done(r) == req[r].steps = DecodeLen[r]

----
\* The aggregates of a request.

\* Faulty variant: a recomputation moves the time of the last event as well, as if
\* it had been a step.
RecomputedNow(q, lat, t) ==
  [q EXCEPT !.recompute = FALSE, !.recomputeService = @ + lat, !.last = t]

\* finish_recompute: no token and no step, the time of the last event stays.
Recomputed(q, lat, t) ==
  [q EXCEPT !.recompute = FALSE, !.recomputeService = @ + lat]

\* Faulty variant: the first step counts as a decode step too.
AdvancedBoth(q, lat, t) ==
  LET spent == t - q.last
  IN  [q EXCEPT !.steps = @ + 1, !.last = t, !.total = @ + spent,
                !.prefill = IF q.steps = 0 THEN spent ELSE @,
                !.prefillService = IF q.steps = 0 THEN lat ELSE @,
                !.decode = @ + spent,
                !.decodeMax = Larger(@, spent),
                !.decodeService = IF q.steps > 0 THEN @ + lat ELSE @]

\* Request.step: the time since the last event goes to the prefill for the first
\* token and to the decodes for the others.
Advanced(q, lat, t) ==
  LET spent == t - q.last
  IN  IF q.steps = 0
      THEN [q EXCEPT !.steps = 1, !.last = t, !.total = @ + spent,
                     !.prefill = spent, !.prefillService = lat]
      ELSE [q EXCEPT !.steps = @ + 1, !.last = t, !.total = @ + spent,
                     !.decode = @ + spent, !.decodeMax = Larger(@, spent),
                     !.decodeService = @ + lat]

----
\* The aggregates of the worker.

\* The area up to time t: the last sampled count stands for the whole interval.
Closed(s, t) == s.area + s.current * (t - s.at)

\* Faulty variant: the count is taken before the scheduling decision.
SampledBefore(s, t, before, after) ==
  [area |-> Closed(s, t), at |-> t, current |-> Len(before),
   peak |-> Larger(s.peak, Len(before))]

\* sample_batch_state, after the scheduling decision.
Sampled(s, t, before, after) ==
  [area |-> Closed(s, t), at |-> t, current |-> Len(after),
   peak |-> Larger(s.peak, Len(after))]

----
TimingInit ==
  /\ now = 0
  /\ phase = "idle"
  /\ until = 0
  /\ latency = 0
  /\ waiting = <<>>
  /\ running = <<>>
  /\ batch = <<>>
  /\ preempts = [r \in Reqs |-> 0]
  /\ req = [r \in Reqs |-> Fresh]
  /\ sample = [area |-> 0, at |-> 0, current |-> 0, peak |-> 0]
  /\ truth = 0

\* Time passes when the worker waits for a timeout or for work.
Tick ==
  /\ now < MaxTime
  /\ phase = "idle" \/ (phase # "schedule" /\ until > now)
  /\ now' = now + 1
  /\ truth' = truth + Len(running)
  /\ UNCHANGED <<phase, until, latency, waiting, running, batch, preempts, req, sample>>

\* A request arrives (arrive, Task.ADD). The worker takes it from its queue
\* between two steps; whether that is now or then, it waits.
Arrive(r) ==
  /\ req[r].arrival = NotArrived
  /\ req' = [req EXCEPT ![r].arrival = now, ![r].last = now]
  /\ waiting' = Append(waiting, r)
  /\ phase' = IF phase = "idle" THEN "schedule" ELSE phase
  /\ UNCHANGED <<now, until, latency, running, batch, preempts, sample, truth>>

\* Requests are admitted from the front, of one kind, and run alone.
Admission(n) ==
  LET taken == SubSeq(waiting, 1, n) IN
  /\ \A i, j \in 1 .. n : req[taken[i]].recompute = req[taken[j]].recompute
  /\ batch' = taken
  /\ running' = running \o taken
  /\ waiting' = SubSeq(waiting, n + 1, Len(waiting))
  /\ UNCHANGED <<preempts, req>>

\* The last n running requests are preempted, the others decode.
Decoding(n) ==
  LET kept    == SubSeq(running, 1, Len(running) - n)
      victims == SubSeq(running, Len(running) - n + 1, Len(running))
  IN  /\ \A i \in 1 .. n : preempts[victims[i]] < MaxPreempt
      /\ batch' = kept
      /\ running' = kept
      /\ waiting' = victims \o waiting
      /\ preempts' = [r \in Reqs |->
                        preempts[r] + (IF r \in Range(victims) THEN 1 ELSE 0)]
      /\ req' = [r \in Reqs |->
           IF r \in Range(victims) THEN [req[r] EXCEPT !.recompute = TRUE] ELSE req[r]]

\* A step starts: schedule, sample, load.
StartStep ==
  /\ phase = "schedule"
  /\ \/ \E n \in 1 .. Len(waiting) : Admission(n)
     \/ running # <<>> /\ \E n \in 0 .. Len(running) : Decoding(n)
  /\ sample' = Sampled(sample, now, running, running')
  /\ \E load \in Overheads : until' = now + load
  /\ phase' = "load"
  /\ UNCHANGED <<now, latency, truth>>

StartCompute ==
  /\ phase = "load"
  /\ until = now
  /\ batch # <<>>
  /\ \E lat \in Latencies : latency' = lat /\ until' = now + lat
  /\ phase' = "compute"
  /\ UNCHANGED <<now, waiting, running, batch, preempts, req, sample, truth>>

\* Every running request was preempted: the step has nothing to compute or save.
EndEmptyStep ==
  /\ phase = "load"
  /\ until = now
  /\ batch = <<>>
  /\ phase' = "schedule"
  /\ UNCHANGED <<now, until, latency, waiting, running, batch, preempts, req, sample, truth>>

\* The requests of the batch get their token, or end their recomputation; the ones
\* that are done leave the running list. The save follows.
EndCompute ==
  /\ phase = "compute"
  /\ until = now
  /\ LET recomputing == req[batch[1]].recompute
         next == [r \in Reqs |->
           IF r \notin Range(batch) THEN req[r]
           ELSE IF recomputing THEN Recomputed(req[r], latency, now)
           ELSE Advanced(req[r], latency, now)]
     IN  /\ req' = next
         /\ running' = Kept(running, {r \in Reqs : next[r].steps # DecodeLen[r]})
  /\ \E save \in Overheads : until' = now + save
  /\ phase' = "save"
  /\ UNCHANGED <<now, latency, waiting, batch, preempts, sample, truth>>

\* The step is over: the next one follows unless there is no request left.
EndStep ==
  /\ phase = "save"
  /\ until = now
  /\ phase' = IF running = <<>> /\ waiting = <<>> THEN "idle" ELSE "schedule"
  /\ UNCHANGED <<now, until, latency, waiting, running, batch, preempts, req, sample, truth>>

TimingNext ==
  \/ Tick
  \/ \E r \in Reqs : Arrive(r)
  \/ StartStep
  \/ StartCompute
  \/ EndEmptyStep
  \/ EndCompute
  \/ EndStep

TimingSpec == TimingInit /\ [][TimingNext]_timingVars
----
\* The times of a request add up to its life (Request.step): from its arrival to
\* its last token nothing is lost and nothing counted twice, however often it
\* waited, was preempted or recomputed, and no decode gap is longer than all.
TimesTelescope ==
  \A r \in Reqs : req[r].arrival # NotArrived =>
    /\ req[r].total = req[r].last - req[r].arrival
    /\ req[r].total = req[r].prefill + req[r].decode
    /\ req[r].decodeMax =< req[r].decode
    /\ req[r].last =< now

\* No utilisation exceeds one (prompt_util, decode_util): the compute time of the
\* steps, and of the recomputations between them, fits in the time that passed.
ServiceFitsTime ==
  \A r \in Reqs :
    /\ req[r].prefillService =< req[r].prefill
    /\ req[r].decodeService =< req[r].decode
    /\ Done(r) =>
         req[r].decodeService + req[r].recomputeService =< req[r].decode

\* The reported area never misses a running request, and the peak is at least
\* every number of running requests there was (get_batch_stats): the list grows
\* only in the decision that is sampled at once.
AreaCoversRunning ==
  /\ Closed(sample, now) >= truth
  /\ phase # "schedule" => sample.peak >= Len(running)

\* A request's times add up to its life, the compute time fits in them, and the
\* worker's load integral misses no request that ran (step(), get_batch_stats()).
TimesAddUp == TimesTelescope /\ ServiceFitsTime /\ AreaCoversRunning
====
