--------------------------- MODULE PagedScheduler ---------------------------
(***************************************************************************)
(* LLMPagedAttnScheduler driven by the message loop of a hybrid LLMWorker: *)
(* admission, slot allocation with preemption by recompute, one token per  *)
(* request and step, release of finished requests.  The connector is the   *)
(* default NoOpConnector.                                                  *)
(*                                                                         *)
(* schedule() and update() are loops inside one STEP; each iteration is an *)
(* action here and pc says which loop is running.  The worker is one simpy *)
(* process and reads its mailbox only between steps, so nothing else       *)
(* touches its state meanwhile.  The block operations are those of         *)
(* KVBlocks.                                                               *)
(***************************************************************************)
EXTENDS KVBlocks

CONSTANTS
    Arrival,      \* arrival_at of each request
    MaxParallel,  \* max_parallem_sum
    MaxOccupied,  \* used blocks from which used/all reaches max_occupy_ratio
    MaxMail       \* bound: ADDs that pile up in the mailbox

VARIABLES
    pc,              \* "mailbox", "admit", "slots", "recompute", "step", "commit", "free"
    workerStatus,    \* LLMWorker.status
    mailbox,         \* msg_queue.items: the heap of the ADDs still to receive
    status,          \* RequestStatus of each request, "NEW" before its ADD
    waiting,         \* scheduler.waiting
    running,         \* scheduler.running; in "slots", the ones with a slot so far
    todo,            \* what the loop at pc has still to handle
    batch,           \* requests of the current step
    needsRecompute,  \* needs_recompute of each request
    crowded          \* history: whether more than three ADDs were ever in the mailbox

mail == <<mailbox, crowded>>
schedVars == <<pc, workerStatus, mail, status, waiting, running, todo, batch, needsRecompute>>
allVars == <<vars, schedVars>>

\* LLMEngine.validate_request_capacity accepted every request.
ASSUME CapacityAssumption ==
    \A r \in Reqs :
        (PrefillLen[r] + DecodeLen[r] + BlockSize - 1) \div BlockSize
            <= NumBlocks - Watermark

ASSUME LimitsAssumption ==
    /\ MaxParallel \in Nat \ {0}
    /\ MaxOccupied \in Nat \ {0}
    /\ MaxMail \in Nat
    /\ Arrival \in [Reqs -> Nat]

IsDone(r) == gen[r] = DecodeLen[r]

\* sorted(self.running, key=arrival_time), a stable sort.
ByArrival(s) ==
    {q \in [1..Len(s) -> Range(s)] :
        \A i, j \in 1..Len(s) : i < j =>
            \/ Arrival[q[i]] < Arrival[q[j]]
            \/ Arrival[q[i]] = Arrival[q[j]] /\ Pos(s, q[i]) < Pos(s, q[j])}

-----------------------------------------------------------------------------
(* The mailbox *)

\* heapq.heappop() of a heap h whose messages all compare equal: the last one
\* replaces the root, and since no child is smaller than the other the gap it
\* leaves moves down to the right as long as there is a right child; the last
\* message ends up where the gap stops.
HeapRest(h) ==
    LET m == Len(h) - 1
        below(i) == IF 2 * i + 1 <= m THEN 2 * i + 1
                    ELSE IF 2 * i = m THEN m ELSE m + 1
        Path == {S \in SUBSET (1..m + 1) : 1 \in S /\ \A i \in S : i <= m => below(i) \in S}
        gap(i) == \A S \in Path : i \in S
    IN  [i \in 1..m |-> IF gap(i) THEN h[below(i)] ELSE h[i]]

\* The source sends requests in arrival order.
Sendable(r) ==
    /\ status[r] = "NEW" /\ r \notin Range(mailbox)
    /\ \A s \in Reqs : Arrival[s] < Arrival[r] => status[s] # "NEW" \/ s \in Range(mailbox)

\* Faulty variant of AddRequest: the request keeps the status of a transfer.
AddRequestInTransfer(r) ==
    /\ status' = [status EXCEPT ![r] = "WAITING_FOR_KV"]
    /\ waiting' = Append(waiting, r)
    /\ workerStatus' = "RUNNING"
    /\ UNCHANGED <<vars, pc, running, todo, batch, needsRecompute>>

\* scheduler.add_requests().
AddRequest(r) ==
    /\ status' = [status EXCEPT ![r] = "WAITING"]
    /\ waiting' = Append(waiting, r)
    /\ workerStatus' = "RUNNING"
    /\ UNCHANGED <<vars, pc, running, todo, batch, needsRecompute>>

\* An ADD for a worker that waits in msg_queue.get().
Deliver(r) ==
    /\ pc = "mailbox" /\ workerStatus = "WAITING" /\ mailbox = <<>>
    /\ Sendable(r)
    /\ AddRequest(r)
    /\ UNCHANGED mail

\* An ADD that reaches a worker between two messages, or during the latency of
\* a step: heappush() leaves it last.
Send(r) ==
    /\ \/ pc = "mailbox" /\ (workerStatus = "RUNNING" \/ mailbox # <<>>)
       \/ pc \in {"step", "recompute"} /\ todo = batch
    /\ Len(mailbox) < MaxMail
    /\ Sendable(r)
    /\ mailbox' = Append(mailbox, r)
    /\ crowded' = (crowded \/ Len(mailbox) >= 3)
    /\ UNCHANGED <<vars, pc, workerStatus, status, waiting, running, todo, batch, needsRecompute>>

Receive ==
    /\ pc = "mailbox"
    /\ mailbox # <<>>
    /\ AddRequest(Head(mailbox))
    /\ mailbox' = HeapRest(mailbox)
    /\ UNCHANGED crowded

\* A running worker with an empty mailbox sends itself a STEP.
StartStep ==
    /\ pc = "mailbox"
    /\ mailbox = <<>>
    /\ workerStatus = "RUNNING"
    /\ pc' = "admit"
    /\ batch' = <<>>
    /\ UNCHANGED <<vars, workerStatus, mail, status, waiting, running, todo, needsRecompute>>

-----------------------------------------------------------------------------
(* schedule() *)

\* Faulty variant of MayAdmit: a batch may mix recompute and prefill.
MayAdmitAnyPhase ==
    /\ waiting # <<>>
    /\ NumBlocks - NumFree < MaxOccupied
    /\ Len(running) < MaxParallel
    /\ \E h \in 0..Len(InputKeys[Head(waiting)]) :
        IsHitCount(Head(waiting), h) /\ CanAllocate(Head(waiting), h)

\* The conditions under which the admission loop takes the head of waiting.
MayAdmit ==
    /\ waiting # <<>>
    /\ NumBlocks - NumFree < MaxOccupied
    /\ Len(running) < MaxParallel
    /\ batch # <<>> => needsRecompute[Head(waiting)] = needsRecompute[batch[1]]
    /\ \E h \in 0..Len(InputKeys[Head(waiting)]) :
        IsHitCount(Head(waiting), h) /\ CanAllocate(Head(waiting), h)

Admit ==
    /\ pc = "admit"
    /\ MayAdmit
    /\ LET r == Head(waiting)
       IN  /\ Allocate(r)
           /\ status' = [status EXCEPT ![r] = "RUNNING"]
           /\ running' = Append(running, r)
           /\ batch' = Append(batch, r)
    /\ waiting' = Tail(waiting)
    /\ UNCHANGED <<pc, workerStatus, mail, todo, needsRecompute>>

\* Admitted requests run alone this step; else every running request needs a
\* slot for its next token, in arrival order.
EndAdmission ==
    /\ pc = "admit"
    /\ ~MayAdmit
    /\ IF batch # <<>>
       THEN /\ pc' = IF needsRecompute[batch[1]] THEN "recompute" ELSE "step"
            /\ todo' = batch
            /\ UNCHANGED running
       ELSE /\ pc' = "slots"
            /\ todo' \in ByArrival(running)
            /\ running' = <<>>
    /\ UNCHANGED <<vars, workerStatus, mail, status, waiting, batch, needsRecompute>>

\* Faulty variant of GiveSlot: the request runs without a new block.
GiveSlotForNothing ==
    /\ pc = "slots"
    /\ todo # <<>>
    /\ CanAppendSlot(Head(todo))
    /\ running' = Append(running, Head(todo))
    /\ todo' = Tail(todo)
    /\ UNCHANGED <<vars, pc, workerStatus, mail, status, waiting, batch, needsRecompute>>

GiveSlot ==
    /\ pc = "slots"
    /\ todo # <<>>
    /\ LET r == Head(todo)
       IN  /\ CanAppendSlot(r)
           /\ IF Len(held[r]) < NumLogical(r) THEN AppendSlot(r) ELSE UNCHANGED vars
           /\ running' = Append(running, r)
    /\ todo' = Tail(todo)
    /\ UNCHANGED <<pc, workerStatus, mail, status, waiting, batch, needsRecompute>>

\* Faulty variants of Requeued: the victim is lost, or queues behind the others.
NotRequeued(r) == waiting

RequeuedLast(r) == Append(waiting, r)

\* _preempt() puts the victim at the front of waiting.
Requeued(r) == <<r>> \o waiting

\* Faulty variant of Preempt: the request that needs the slot gives way.
PreemptOldest ==
    /\ pc = "slots"
    /\ todo # <<>>
    /\ ~CanAppendSlot(Head(todo))
    /\ Release(Head(todo))
    /\ needsRecompute' = [needsRecompute EXCEPT ![Head(todo)] = TRUE]
    /\ status' = [status EXCEPT ![Head(todo)] = "WAITING"]
    /\ waiting' = Requeued(Head(todo))
    /\ todo' = Tail(todo)
    /\ UNCHANGED <<pc, workerStatus, mail, running, batch>>

\* No slot for the head: the last request, the head itself if it is alone, is
\* preempted.
Preempt ==
    /\ pc = "slots"
    /\ todo # <<>>
    /\ ~CanAppendSlot(Head(todo))
    /\ LET victim == todo[Len(todo)]
       IN  /\ Release(victim)
           /\ needsRecompute' = [needsRecompute EXCEPT ![victim] = TRUE]
           /\ status' = [status EXCEPT ![victim] = "WAITING"]
           /\ waiting' = Requeued(victim)
    /\ todo' = SubSeq(todo, 1, Len(todo) - 1)
    /\ UNCHANGED <<pc, workerStatus, mail, running, batch>>

\* schedule_output() takes the phase from the first request of the batch.
EndSlots ==
    /\ pc = "slots"
    /\ todo = <<>>
    /\ batch' = running
    /\ todo' = running
    /\ pc' = IF running = <<>> THEN "free"
             ELSE IF needsRecompute[running[1]] THEN "recompute" ELSE "step"
    /\ UNCHANGED <<vars, workerStatus, mail, status, waiting, running, needsRecompute>>

-----------------------------------------------------------------------------
(* The step's effect *)

\* Faulty variant of FinishRecompute: the request stays marked for recompute.
RecomputeForever ==
    /\ pc = "recompute"
    /\ todo # <<>>
    /\ IF committed[Head(todo)] THEN UNCHANGED vars ELSE CommitInput(Head(todo))
    /\ todo' = Tail(todo)
    /\ UNCHANGED <<pc, workerStatus, mail, status, waiting, running, batch, needsRecompute>>

\* finish_recompute(): the rebuilt cache is committed, no token is generated.
FinishRecompute ==
    /\ pc = "recompute"
    /\ todo # <<>>
    /\ LET r == Head(todo)
       IN  /\ IF committed[r] THEN UNCHANGED vars ELSE CommitInput(r)
           /\ needsRecompute' = [needsRecompute EXCEPT ![r] = FALSE]
    /\ todo' = Tail(todo)
    /\ UNCHANGED <<pc, workerStatus, mail, status, waiting, running, batch>>

\* LLMWorker.step(): every request of the batch gets its token.
StepOne ==
    /\ pc = "step"
    /\ todo # <<>>
    /\ Step(Head(todo))
    /\ todo' = Tail(todo)
    /\ UNCHANGED <<pc, workerStatus, mail, status, waiting, running, batch, needsRecompute>>

\* update(): commit the input blocks of every request of the batch ...
CommitOne ==
    /\ pc = "commit"
    /\ todo # <<>>
    /\ IF committed[Head(todo)] THEN UNCHANGED vars ELSE CommitInput(Head(todo))
    /\ todo' = Tail(todo)
    /\ UNCHANGED <<pc, workerStatus, mail, status, waiting, running, batch, needsRecompute>>

\* ... then free the finished ones.
FreeOne ==
    /\ pc = "free"
    /\ todo # <<>>
    /\ LET r == Head(todo)
       IN  IF IsDone(r)
           THEN /\ Finish(r)
                /\ status' = [status EXCEPT ![r] = "FINISHED_STOPPED"]
           ELSE UNCHANGED <<vars, status>>
    /\ todo' = Tail(todo)
    /\ UNCHANGED <<pc, workerStatus, mail, waiting, running, batch, needsRecompute>>

NextLoop ==
    /\ todo = <<>>
    /\ \/ pc = "step" /\ pc' = "commit"
       \/ pc = "commit" /\ pc' = "free"
    /\ todo' = batch
    /\ UNCHANGED <<vars, workerStatus, mail, status, waiting, running, batch, needsRecompute>>

\* Faulty variant of EndStep: the worker goes idle with requests waiting.
EndStepForgetsWaiting ==
    /\ pc \in {"recompute", "free"}
    /\ todo = <<>>
    /\ running' \in IF pc = "free"
                    THEN InRowOrder({r \in Range(running) : ~IsDone(r)}, running)
                    ELSE {running}
    /\ workerStatus' = IF running' = <<>> THEN "WAITING" ELSE "RUNNING"
    /\ pc' = "mailbox"
    /\ batch' = <<>>
    /\ UNCHANGED <<vars, mail, status, waiting, todo, needsRecompute>>

\* The end of a STEP: finished requests leave running, and the worker goes idle
\* when nothing runs and nothing waits.
EndStep ==
    /\ pc \in {"recompute", "free"}
    /\ todo = <<>>
    /\ running' \in IF pc = "free"
                    THEN InRowOrder({r \in Range(running) : ~IsDone(r)}, running)
                    ELSE {running}
    /\ workerStatus' = IF running' = <<>> /\ waiting = <<>> THEN "WAITING" ELSE "RUNNING"
    /\ pc' = "mailbox"
    /\ batch' = <<>>
    /\ UNCHANGED <<vars, mail, status, waiting, todo, needsRecompute>>

SchedInit ==
    /\ Init
    /\ pc = "mailbox"
    /\ workerStatus = "WAITING"
    /\ mailbox = <<>>
    /\ status = [r \in Reqs |-> "NEW"]
    /\ waiting = <<>>
    /\ running = <<>>
    /\ todo = <<>>
    /\ batch = <<>>
    /\ needsRecompute = [r \in Reqs |-> FALSE]
    /\ crowded = FALSE

WorkerNext ==
    \/ Receive \/ StartStep \/ Admit \/ EndAdmission
    \/ GiveSlot \/ Preempt \/ EndSlots
    \/ FinishRecompute \/ StepOne \/ CommitOne \/ FreeOne
    \/ NextLoop \/ EndStep

SchedNext == WorkerNext \/ \E r \in Reqs : Deliver(r) \/ Send(r)

\* simpy always runs the worker's next event; arrivals need no fairness.
SchedSpec == SchedInit /\ [][SchedNext]_allVars /\ WF_allVars(WorkerNext)

-----------------------------------------------------------------------------
(* Properties *)

\* Every variable of the worker has its type: the queues hold requests.
SchedTypeOK ==
    /\ pc \in {"mailbox", "admit", "slots", "recompute", "step", "commit", "free"}
    /\ workerStatus \in {"WAITING", "RUNNING"}
    /\ mailbox \in Seq(Reqs)
    /\ status \in [Reqs -> {"NEW", "WAITING", "RUNNING", "FINISHED_STOPPED"}]
    /\ waiting \in Seq(Reqs)
    /\ running \in Seq(Reqs)
    /\ todo \in Seq(Reqs)
    /\ batch \in Seq(Reqs)
    /\ needsRecompute \in [Reqs -> BOOLEAN]
    /\ crowded \in BOOLEAN

\* The requests the scheduler runs, also while the slot loop has split them.
Active == Range(running) \cup (IF pc = "slots" THEN Range(todo) ELSE {})

\* Where a request is queued, its status and the blocks it holds agree, and it
\* is queued once: preemption, completion and admission neither lose a request,
\* nor schedule it twice, nor leave it blocks it no longer uses.
QueuesAgree ==
    /\ IsInjective(waiting) /\ IsInjective(running) /\ IsInjective(mailbox)
    /\ \A r \in Reqs :
        /\ r \in Range(mailbox) => status[r] = "NEW"
        /\ status[r] = "WAITING" <=> r \in Range(waiting)
        /\ status[r] = "RUNNING" => r \in Active
        /\ r \in Active => status[r] = "RUNNING" \/ (pc = "free" /\ IsDone(r))
        /\ status[r] = "RUNNING" <=> held[r] # <<>>
        /\ status[r] = "FINISHED_STOPPED" => IsDone(r)

\* First come first served: no request waits that arrived before a request that
\* runs, across admission, preemption to the front of waiting and recompute.
Fcfs ==
    \A r \in Active, w \in Range(waiting) : Arrival[r] <= Arrival[w]

\* As long as the mailbox never held more than three ADDs: the heap of a fuller
\* one changes their order.
FcfsUnlessCrowded == crowded \/ Fcfs

\* The phase of a batch is read off its first request, so all must share it: a
\* step never mixes recompute with other work, nor prefill with decode.
BatchHomogeneous ==
    /\ pc \in {"recompute", "step"} =>
        \A r \in Range(todo) :
            /\ needsRecompute[r] <=> pc = "recompute"
            /\ pc = "step" => (gen[r] = 0 <=> gen[todo[1]] = 0)
    /\ pc = "mailbox" => \A r \in Range(running) : ~needsRecompute[r] /\ gen[r] > 0

\* Every request that is about to get a token has a slot for the tokens it has,
\* and no row is longer than what its tokens need.
SlotBeforeToken ==
    \A r \in Active :
        /\ pc = "step" /\ r \in Range(todo) => Len(held[r]) = NumLogical(r)
        /\ status[r] = "RUNNING" => Len(held[r]) \in {NumLogical(r) - 1, NumLogical(r)}

\* What one step runs is of one kind, with a slot for every token it makes: a
\* batch recomputes, prefills or decodes (schedule_output(), step()).
BatchesReady == BatchHomogeneous /\ SlotBeforeToken

\* The oldest running request is never preempted: with a validated capacity
\* only younger requests give way, so every slot pass moves someone forward.
OldestAdvances ==
    [][\A r \in Reqs : status[r] = "RUNNING" /\ status'[r] = "WAITING" =>
        \E s \in Active : s # r /\ Arrival[s] <= Arrival[r]]_allVars

\* Every request the worker was given is finished: no livelock of preemption
\* and recompute, no step loop without progress.
EveryRequestFinishes ==
    \A r \in Reqs : status[r] = "WAITING" \/ r \in Range(mailbox) ~> status[r] = "FINISHED_STOPPED"

\* A worker that stops stepping has nothing left: every block is free again.
IdleIsEmpty ==
    workerStatus = "WAITING" =>
        /\ pc = "mailbox"
        /\ waiting = <<>> /\ running = <<>>
        /\ NumFree = NumBlocks

\* The worker loses no request and has none twice while it moves them between
\* its lists, and it only rests when it has none (schedule(), update()).
NobodyLost == QueuesAgree /\ IdleIsEmpty
=============================================================================
