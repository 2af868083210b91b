---- MODULE Cluster ----
\* The engine, its workers and their message queues (TokenSim/llm/llm_engine.py)
\* with the source of requests (util/request.py): arrivals, routing to a prefill
\* worker, the message loop of every worker, the hand-over of prefilled requests
\* to the decode workers with the metadata of their KV transfer, and the stop
\* after an exception.
\*
\* A queue is a simpy PriorityStore: a heap on the task alone, so an ADD comes
\* before a STOP and two ADDs come in any order. A worker sends itself STEP only
\* when it is RUNNING and its queue is empty, and takes it at once. A step waits
\* (load, compute and save latencies) between BeginStep and FinishStep, when the
\* other processes run.
\*
\* The block manager's part of the admission is PagedScheduler's: here blocks
\* are never short and a worker admits up to MaxRunning (max_parallem_sum)
\* requests, so nothing is preempted. The connector is one that only moves the
\* KV of dispatched requests (P2PConnector, MooncakeConnector, the default).
EXTENDS Integers, Sequences, FiniteSets, Functions, Listings

CONSTANTS
  NumReqs,      \* how many requests the source has; they arrive in this order
  DecodeLen,    \* the decode length of each request
  NumWorkers,   \* how many schedulable workers there are
  Role,         \* the role of each worker
  Burst,        \* whether the arrivals bypass the engine's queue
  MaxRunning,   \* max_parallem_sum
  DispatchFails,\* whether build_transfer_plan raises (a MultiConnector without
                \* a child that builds plans)
  Policy, DataParallel, DpRank, NoRank,
  NoMeta,       \* no connector metadata
  Source, Engine, Done \* the places of a request outside the workers

INSTANCE WorkerPools

Reqs == 1..NumReqs
Workers == 1..NumWorkers

\* Lengths are positive (workload/user_request.py:31), a pool without workers is
\* refused (placement/policies.py:22).
ASSUME ClusterAssumption ==
  /\ NumReqs \in Nat /\ NumWorkers \in Nat
  /\ DecodeLen \in [Reqs -> Nat \ {0}]
  /\ Role \in [Workers -> {"prefill", "decode", "hybrid"}]
  /\ \E w \in Workers : Role[w] # "decode"
  /\ \E w \in Workers : Role[w] # "prefill"
  /\ Burst \in BOOLEAN /\ DispatchFails \in BOOLEAN /\ DataParallel \in BOOLEAN
  /\ MaxRunning \in Nat
  /\ Policy \in {"round_robin", "least_gpu_memory", "balanced_load"}
  /\ DpRank \in [Workers -> Nat]
  /\ NoRank \notin {DpRank[w] : w \in Workers}
  /\ Source # Engine /\ Source # Done /\ Engine # Done
  /\ {Source, Engine, Done} \cap Workers = {}

VARIABLES
  arrived,      \* how many requests the source has sent
  engineQueue,  \* messages to the engine
  engineUp,     \* whether the engine's loop runs
  prefillPool, decodePool,
  dpRank,       \* the dp_rank of each request
  inbox,        \* messages to each worker
  pendingMeta,  \* pending_connector_metadata: the requests of its load plan
  waiting, running, \* the scheduler's lists
  status,       \* WAITING, RUNNING or STOPPED
  batch,        \* the requests of the step under way
  stepping,     \* whether a step is under way
  tokens,       \* generation_idx
  kv            \* "none", "sent" or "loaded": the transfer of each request

engineVars == <<arrived, engineQueue, engineUp>>
poolVars == <<prefillPool, decodePool, dpRank>>
workerVars == <<inbox, pendingMeta, waiting, running, status, batch, stepping>>
requestVars == <<tokens, kv>>
vars == <<engineVars, poolVars, workerVars, requestVars>>

STOP == [task |-> "STOP"]
Add(rs, meta) == [task |-> "ADD", requests |-> rs, metadata |-> meta]
Adds(queue) == {m \in queue : m.task = "ADD"}

\* The workers of some roles, by id.
WithRole(roles) == Listed({w \in Workers : Role[w] \in roles})
PrefillMembers == WithRole({"hybrid", "prefill"})

\* Faulty variant: every worker decodes.
AnyMember == WithRole({"hybrid", "prefill", "decode"})

DecodeMembers == WithRole({"hybrid", "decode"})

\* What the least loaded policies may read of the workers. The share of its GPU
\* blocks that a worker uses (workload) depends on blocks, which this module leaves
\* out, and ties in it go to the CPU transfers: it is left open here. A choice only
\* compares the members of one group, so two values let every one of them be least;
\* the round robin reads none.
Loads ==
  {[w \in Workers |->
      [active |-> Len(running[w]) + Len(waiting[w]), memory |-> used[w]]] :
     used \in [Workers -> IF Policy = "round_robin" THEN {0} ELSE {0, 1}]}

Init ==
  /\ arrived = 0 /\ engineQueue = {} /\ engineUp = TRUE
  /\ prefillPool = NewPool(PrefillMembers)
  /\ decodePool = NewPool(DecodeMembers)
  /\ dpRank = [r \in Reqs |-> NoRank]
  /\ inbox = [w \in Workers |-> {}]
  /\ pendingMeta = [w \in Workers |-> NoMeta]
  /\ waiting = [w \in Workers |-> <<>>]
  /\ running = [w \in Workers |-> <<>>]
  /\ status = [w \in Workers |-> "WAITING"]
  /\ batch = [w \in Workers |-> <<>>]
  /\ stepping = [w \in Workers |-> FALSE]
  /\ tokens = [r \in Reqs |-> 0]
  /\ kv = [r \in Reqs |-> "none"]

-----------------------------------------------------------------------------
\* The engine

\* _send_to_prefill_worker
SendToPrefill(r) ==
  \E load \in Loads : LET pick == Select(prefillPool, dpRank[r], load) IN
    /\ prefillPool' = pick.pool
    /\ dpRank' = [dpRank EXCEPT ![r] = Assigned(@, pick.worker, TRUE)]
    /\ inbox' = [inbox EXCEPT ![pick.worker] = @ \cup {Add(<<r>>, NoMeta)}]
    /\ UNCHANGED decodePool

Arrive ==
  /\ arrived < NumReqs
  /\ arrived' = arrived + 1
  /\ IF Burst
     THEN SendToPrefill(arrived + 1) /\ UNCHANGED engineQueue
     ELSE /\ engineQueue' = engineQueue \cup {Add(<<arrived + 1>>, NoMeta)}
          /\ UNCHANGED <<poolVars, inbox>>
  /\ UNCHANGED <<engineUp, pendingMeta, waiting, running, status, batch,
                 stepping, requestVars>>

EngineAdd ==
  /\ engineUp
  /\ \E m \in Adds(engineQueue) :
       /\ engineQueue' = engineQueue \ {m}
       /\ SendToPrefill(m.requests[1])
  /\ UNCHANGED <<arrived, engineUp, pendingMeta, waiting, running, status,
                 batch, stepping, requestVars>>

\* Faulty variant: the first worker is left out.
BroadcastButFirst ==
  inbox' = [w \in Workers |-> inbox[w] \cup IF w = 1 THEN {} ELSE {STOP}]

\* _broadcast_stop
Broadcast == inbox' = [w \in Workers |-> inbox[w] \cup {STOP}]

EngineStop ==
  /\ engineUp /\ Adds(engineQueue) = {} /\ STOP \in engineQueue
  /\ engineQueue' = engineQueue \ {STOP}
  /\ engineUp' = FALSE
  /\ Broadcast
  /\ UNCHANGED <<arrived, poolVars, pendingMeta, waiting, running, status,
                 batch, stepping, requestVars>>

-----------------------------------------------------------------------------
\* The message loop of a worker

Listening(w) == status[w] # "STOPPED" /\ ~stepping[w]

TakeAdd(w) ==
  /\ Listening(w)
  /\ \E m \in Adds(inbox[w]) :
       /\ inbox' = [inbox EXCEPT ![w] = @ \ {m}]
       /\ pendingMeta' = IF m.metadata = NoMeta THEN pendingMeta
                         ELSE [pendingMeta EXCEPT ![w] = m.metadata]
       /\ waiting' = [waiting EXCEPT ![w] = @ \o m.requests]
  /\ status' = [status EXCEPT ![w] = "RUNNING"]
  /\ UNCHANGED <<engineVars, poolVars, running, batch, stepping, requestVars>>

TakeStop(w) ==
  /\ Listening(w) /\ inbox[w] = {STOP}
  /\ inbox' = [inbox EXCEPT ![w] = {}]
  /\ status' = [status EXCEPT ![w] = "STOPPED"]
  /\ UNCHANGED <<engineVars, poolVars, pendingMeta, waiting, running, batch,
                 stepping, requestVars>>

\* The requests the scheduler admits in a step.
Admitted(w) ==
  LET room == MaxRunning - Len(running[w])
  IN  IF room =< 0 THEN <<>>
      ELSE IF Len(waiting[w]) =< room THEN waiting[w]
      ELSE SubSeq(waiting[w], 1, room)

\* A step begins: new requests when any can be admitted, else all that run in
\* the order they arrived (each runs once, so sorting the list is listing the
\* set); the load of the pending metadata starts.
BeginStep(w) ==
  /\ Listening(w) /\ status[w] = "RUNNING" /\ inbox[w] = {}
  /\ LET new == Admitted(w) IN
     IF new # <<>>
     THEN /\ waiting' = [waiting EXCEPT ![w] = SubSeq(@, Len(new) + 1, Len(@))]
          /\ running' = [running EXCEPT ![w] = @ \o new]
          /\ batch' = [batch EXCEPT ![w] = new]
     ELSE /\ running' = [running EXCEPT ![w] = Listed(Range(@))]
          /\ batch' = [batch EXCEPT ![w] = running'[w]]
          /\ UNCHANGED waiting
  /\ kv' = IF pendingMeta[w] = NoMeta THEN kv
           ELSE [r \in Reqs |-> IF r \in pendingMeta[w] THEN "loaded" ELSE kv[r]]
  /\ pendingMeta' = [pendingMeta EXCEPT ![w] = NoMeta]
  /\ stepping' = [stepping EXCEPT ![w] = TRUE]
  /\ UNCHANGED <<engineVars, poolVars, inbox, status, tokens>>

\* Every request of the batch gets a token (LLMWorker.step, Request.step).
TokensAfter(w, r) == tokens[r] + IF r \in Range(batch[w]) THEN 1 ELSE 0

Stepped(w) == [r \in Reqs |-> TokensAfter(w, r)]

\* Faulty variant: a request is done one token late.
NotDoneLate(w) ==
  LET kept[i \in 0..Len(running[w])] ==
        IF i = 0 THEN <<>>
        ELSE LET r == running[w][i]
             IN  IF TokensAfter(w, r) = DecodeLen[r] + 1 THEN kept[i - 1]
                 ELSE Append(kept[i - 1], r)
  IN  kept[Len(running[w])]

\* LLMScheduler.update: what runs on is what is not done.
NotDone(w) ==
  LET kept[i \in 0..Len(running[w])] ==
        IF i = 0 THEN <<>>
        ELSE LET r == running[w][i]
             IN  IF TokensAfter(w, r) = DecodeLen[r] THEN kept[i - 1]
                 ELSE Append(kept[i - 1], r)
  IN  kept[Len(running[w])]

\* Faulty variant: each part begins where the one before it ended.
PartsOverlapping(rs, size) ==
  [i \in 1..((Len(rs) + size - 1) \div size) |->
     SubSeq(rs, IF i = 1 THEN 1 ELSE (i - 1) * size,
            IF i * size < Len(rs) THEN i * size ELSE Len(rs))]

\* The parts of a batch, each of the given size but the last.
Parts(rs, size) ==
  [i \in 1..((Len(rs) + size - 1) \div size) |->
     SubSeq(rs, (i - 1) * size + 1,
            IF i * size < Len(rs) THEN i * size ELSE Len(rs))]

\* A part goes to a worker chosen for its first request, with the plan of its
\* transfer.
SentPart(acc, part, load) ==
  LET pick == Select(acc.pool, acc.dp[part[1]], load)
  IN  [pool |-> pick.pool,
       dp |-> [acc.dp EXCEPT ![part[1]] = Assigned(@, pick.worker, FALSE)],
       inbox |-> [acc.inbox EXCEPT ![pick.worker] =
                    @ \cup {Add(part, Range(part))}]]

\* dispatch_prefill_to_decode: the batch is split evenly over the decode
\* workers, and the sender's blocks are released before the load.
Dispatch(rs) ==
  \E load \in Loads :
  LET workers == Len(decodePool.members)
      parts == Parts(rs, (Len(rs) + workers - 1) \div workers)
      sent[i \in 0..Len(parts)] ==
        IF i = 0 THEN [pool |-> decodePool, dp |-> dpRank, inbox |-> inbox]
        ELSE SentPart(sent[i - 1], parts[i], load)
      all == sent[Len(parts)]
  IN  /\ decodePool' = all.pool /\ dpRank' = all.dp /\ inbox' = all.inbox
      /\ kv' = [r \in Reqs |-> IF r \in Range(rs) THEN "sent" ELSE kv[r]]
      /\ UNCHANGED prefillPool

\* Faulty variant: the requests that still wait are forgotten.
RestsUnlessRunning(w, rest) == IF rest = <<>> THEN "WAITING" ELSE status[w]

\* The status at the end of a step that leaves rest running.
RestsAfter(w, rest) ==
  IF rest = <<>> /\ waiting[w] = <<>> THEN "WAITING" ELSE status[w]

\* The step ends: tokens, finished requests, and on a prefill worker the
\* hand-over of all that still runs.
FinishStep(w) ==
  \E rest \in {IF batch[w] = <<>> THEN <<>> ELSE NotDone(w)} :
  LET hands == rest # <<>> /\ Role[w] = "prefill"
  IN  /\ stepping[w] /\ ~(hands /\ DispatchFails)
      /\ tokens' = Stepped(w)
      /\ IF hands THEN Dispatch(rest) ELSE UNCHANGED <<poolVars, inbox, kv>>
      /\ running' = [running EXCEPT ![w] =
                       IF hands THEN <<>> ELSE IF batch[w] = <<>> THEN @ ELSE rest]
      /\ status' = [status EXCEPT ![w] =
                      RestsAfter(w, IF hands THEN <<>> ELSE rest)]
      /\ batch' = [batch EXCEPT ![w] = <<>>]
      /\ stepping' = [stepping EXCEPT ![w] = FALSE]
      /\ UNCHANGED <<engineVars, pendingMeta, waiting>>

\* The hand-over raises at its first part, after the target was selected and
\* before anything is sent or released: the engine is told to stop and the
\* worker goes on with its loop, the requests still in running.
FailStep(w) ==
  LET rest == NotDone(w)
  IN  /\ stepping[w] /\ DispatchFails /\ Role[w] = "prefill"
      /\ batch[w] # <<>> /\ rest # <<>>
      /\ tokens' = Stepped(w)
      /\ running' = [running EXCEPT ![w] = rest]
      /\ \E load \in Loads : LET pick == Select(decodePool, dpRank[rest[1]], load) IN
           /\ decodePool' = pick.pool
           /\ dpRank' = [dpRank EXCEPT ![rest[1]] = Assigned(@, pick.worker, FALSE)]
      /\ engineQueue' = engineQueue \cup {STOP}
      /\ batch' = [batch EXCEPT ![w] = <<>>]
      /\ stepping' = [stepping EXCEPT ![w] = FALSE]
      /\ UNCHANGED <<arrived, engineUp, prefillPool, inbox, pendingMeta, waiting,
                     status, kv>>

EngineStep == EngineAdd \/ EngineStop
WorkerStep(w) ==
  \/ TakeAdd(w) \/ TakeStop(w) \/ BeginStep(w) \/ FinishStep(w) \/ FailStep(w)

Next == Arrive \/ EngineStep \/ \E w \in Workers : WorkerStep(w)

\* simpy runs every event that is due: no process waits for ever.
Spec ==
  /\ Init /\ [][Next]_vars
  /\ WF_vars(Arrive) /\ WF_vars(EngineStep)
  /\ \A w \in Workers : WF_vars(WorkerStep(w))

-----------------------------------------------------------------------------
\* The types of the engine's and the workers' state; no request gets more
\* tokens than its decode length.
TypeOK ==
  /\ arrived \in 0..NumReqs /\ engineUp \in BOOLEAN
  /\ \A m \in engineQueue \cup UNION {inbox[w] : w \in Workers} :
       m = STOP \/ (m.task = "ADD" /\ Len(m.requests) > 0)
  /\ dpRank \in [Reqs -> {NoRank} \cup {DpRank[w] : w \in Workers}]
  /\ \A w \in Workers : /\ Range(batch[w]) \subseteq Range(running[w])
                        /\ status[w] \in {"WAITING", "RUNNING", "STOPPED"}
                        /\ pendingMeta[w] \in {NoMeta} \cup SUBSET Reqs
  /\ \A r \in Reqs : tokens[r] \in 0..DecodeLen[r]
  /\ kv \in [Reqs -> {"none", "sent", "loaded"}]

IsDone(r) == tokens[r] = DecodeLen[r]

\* Where a request may be: not yet sent, done, in a message to the engine or to
\* a worker, waiting or running; where there is no worker or message, 0 and STOP.
Home(at, w, m) == [at |-> at, worker |-> w, message |-> m]
Homes ==
  {Home(p, 0, STOP) : p \in {"source", "done"}}
  \cup {Home("engine", 0, m) : m \in Adds(engineQueue)}
  \cup (UNION {{Home("inbox", w, m) : m \in Adds(inbox[w])} : w \in Workers})
  \cup {Home(p, w, STOP) : p \in {"waiting", "running"}, w \in Workers}

IsAt(r, h) ==
  CASE h.at = "source" -> r > arrived
    [] h.at = "done" -> IsDone(r)
    [] h.at \in {"engine", "inbox"} -> r \in Range(h.message.requests)
    [] h.at = "waiting" -> r \in Range(waiting[h.worker])
    [] h.at = "running" -> r \in Range(running[h.worker])

\* No request is lost or duplicated by the queues, the hand-over or a failure:
\* each is in one place, and no list has it twice.
OneHome ==
  /\ \A r \in Reqs : Cardinality({h \in Homes : IsAt(r, h)}) = 1
  /\ \A m \in Adds(engineQueue) : IsInjective(m.requests)
  /\ \A w \in Workers : /\ IsInjective(waiting[w]) /\ IsInjective(running[w])
                        /\ \A m \in Adds(inbox[w]) : IsInjective(m.requests)

\* Every request is in one place and has no more tokens than it asked for, across
\* the queues, the hand-over in parts and a failure of it.
RequestsKept == TypeOK /\ OneHome

\* A worker that waits for messages with nothing in its queue has no request
\* to serve: no wake-up is lost.
NoSleepWithWork ==
  \A w \in Workers :
    (status[w] = "WAITING" /\ ~stepping[w]) => waiting[w] = <<>> /\ running[w] = <<>>

\* Worker w has request r, in a list or in a message that it has yet to take.
Serves(w, r) ==
  \/ r \in Range(waiting[w]) \cup Range(running[w])
  \/ \E m \in Adds(inbox[w]) : r \in Range(m.requests)

\* Every data-parallel group that prefills can decode.
GroupsComplete ==
  \A w \in Workers : Role[w] # "decode" =>
    \E v \in Workers : Role[v] # "prefill" /\ DpRank[v] = DpRank[w]

\* A request stays in the data-parallel group it was placed in
\* (docs/parallelism.md:78); without data parallelism it has no rank.
StaysInGroup ==
  \A w \in Workers : \A r \in Reqs : Serves(w, r) =>
    /\ dpRank[r] \in {NoRank, DpRank[w]}
    /\ DataParallel => dpRank[r] # NoRank

\* New requests are placed round-robin across the groups
\* (docs/parallelism.md:77).
GroupsEven ==
  \A g, h \in DOMAIN prefillPool.counts :
    prefillPool.counts[g] - prefillPool.counts[h] \in {-1, 0, 1}

\* With data parallelism new requests are dealt evenly to the groups, and each
\* stays in its own; without a worker that decodes in its group it would go to
\* another one and keep its rank.
GroupsHold == GroupsEven /\ (GroupsComplete => StaysInGroup)

\* A decode worker computes only on KV it has loaded (docs/parallelism.md:17).
TransferredKvIsLoaded ==
  \A w \in Workers : \A i \in DOMAIN batch[w] :
    Role[w] = "decode" => kv[batch[w][i]] = "loaded"

\* After a stop of the engine every worker stops.
StopReachesAll == ~engineUp ~> \A w \in Workers : status[w] = "STOPPED"

\* The place of a request as RequestFlow sees it.
Place(r) ==
  IF r > arrived THEN Source
  ELSE IF IsDone(r) THEN Done
  ELSE IF \E m \in Adds(engineQueue) : r \in Range(m.requests) THEN Engine
  ELSE CHOOSE w \in Workers : Serves(w, r)

Flow == INSTANCE RequestFlow WITH
  place <- [r \in Reqs |-> Place(r)], tokens <- tokens
====
