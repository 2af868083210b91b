---- MODULE Workload ----
\* From a dataset to the arrivals of a run: the loaders (workload/loaders.py) and
\* the source that replays the requests (util/request.py). A row is a record
\*   id     request_id of the trace, or Absent
\*   at     its timestamp or arrival_time, or Absent
\*   gap    its inter_arrival_time, or Absent (json_pairs only)
\* and a request the same with the id and the time it ends up with. Times are
\* integers; a scale of the timestamps multiplies them.
EXTENDS Integers, Sequences, FiniteSets, SequencesExt

CONSTANTS
  Configs,   \* the configurations of a run, as records:
             \*   files   the datasets: sequences of rows
             \*   format  "qwen_jsonl" or "json_pairs"
             \*   counts  request_count, or Absent for the whole dataset
             \*   skips   dataset_skip_count
             \*   mode    arrival_jitter_mode, "request" or "burst"
             \*   jitter  arrival_jitter_ms, 0 for none
             \*   scale   trace_timestamp_scale
             \*   waits   the waits of the arrival distribution (get_wait_time)
             \*   burst   whether the arrival distribution is "burst"
  Absent

VARIABLES
  config,    \* the configuration of the run
  stage,     \* "rows", "jitter", "scale", "burst", "replay" or "rejected"
  list,      \* the requests, in the order of the file
  original,  \* history: their times as the loader made them
  queue,     \* the requests the source still has to send
  clock,     \* env.now of the source
  arrivals   \* the requests that arrived, with the time

workloadVars == <<config, stage, list, original, queue, clock, arrivals>>

\* A row has a time or a gap, not both (UserRequest.__post_init__), and simpy
\* takes no negative wait.
Rows ==
  {q \in [id: Int \cup {Absent}, at: Int \cup {Absent}, gap: Nat \cup {Absent}] :
     q.at = Absent \/ q.gap = Absent}

\* What load_workload accepts.
ASSUME WorkloadAssumption ==
  /\ Absent \notin Int
  /\ \A c \in Configs :
       /\ c.files \subseteq Seq(Rows)
       /\ c.counts \subseteq Nat \cup {Absent} /\ c.skips \subseteq Nat
       /\ c.mode \in {"request", "burst"}
       /\ c.jitter \in Nat /\ c.scale \in Nat \ {0}
       /\ c.waits \subseteq Nat /\ c.burst \in BOOLEAN

Jitter == config.jitter
Scale == config.scale
PerBurst == config.mode = "burst"

Indices == DOMAIN list

Timed(requests) == {i \in DOMAIN requests : requests[i].at # Absent}

\* Faulty variant: a request may be moved before the start of the run.
AnyTime(t) == t

NoneBelowZero(t) == IF t < 0 THEN 0 ELSE t

----
\* The loader.

\* The rows after the skip, repeated as often as it takes and cut at the count.
RepeatAndSlice(file, count, skip) ==
  LET rows == SubSeq(file, skip + 1, Len(file))
      n == IF count = Absent THEN Len(rows) ELSE count
  IN  [i \in 1 .. n |-> rows[((i - 1) % Len(rows)) + 1]]

FirstTimestamp(rows) ==
  LET times == {rows[i].at : i \in Timed(rows)}
  IN  CHOOSE t \in times : \A u \in times : t =< u

\* The id of row i, counted from 0, when the ids in seen are taken: the trace's
\* own, or the number of the row.
RowId(row, i, seen) ==
  IF row.id = Absent \/ row.id \in seen THEN i ELSE row.id

Ids(rows) ==
  FoldLeft(LAMBDA ids, row : Append(ids, RowId(row, Len(ids), ToSet(ids))), <<>>, rows)

Loaded(rows) ==
  [i \in DOMAIN rows |->
     IF config.format = "json_pairs"
     THEN [rows[i] EXCEPT !.id = i - 1]
     ELSE [id  |-> Ids(rows)[i],
           at  |-> IF rows[i].at = Absent THEN Absent ELSE rows[i].at - FirstTimestamp(rows),
           gap |-> Absent]]

Load ==
  /\ stage = "rows"
  /\ \E f \in config.files, count \in config.counts, skip \in config.skips :
       /\ skip < Len(f)
       /\ list' = Loaded(RepeatAndSlice(f, count, skip))
  /\ original' = list'
  /\ stage' = "jitter"
  /\ UNCHANGED <<config, queue, clock, arrivals>>

Offsets == -Jitter .. Jitter

\* One draw per timestamped request, on the clock of the trace (apply_arrival_jitter).
JitterRequests ==
  /\ stage = "jitter"
  /\ IF ~PerBurst /\ Jitter > 0
     THEN \E offset \in [Timed(list) -> Offsets] :
            list' = [i \in Indices |->
              IF list[i].at = Absent THEN list[i]
              ELSE [list[i] EXCEPT !.at = NoneBelowZero(@ + offset[i])]]
     ELSE UNCHANGED list
  /\ stage' = "scale"
  /\ UNCHANGED <<config, original, queue, clock, arrivals>>

\* Every timestamp is multiplied; a scale needs at least one (Scale 1 is no scale).
ScaleTimestamps ==
  /\ stage = "scale"
  /\ IF Scale # 1 /\ Timed(list) = {}
     THEN stage' = "rejected" /\ UNCHANGED list
     ELSE /\ stage' = "burst"
          /\ list' = [i \in Indices |->
               IF list[i].at = Absent THEN list[i] ELSE [list[i] EXCEPT !.at = @ * Scale]]
  /\ UNCHANGED <<config, original, queue, clock, arrivals>>

BurstTimes == {list[i].at : i \in Timed(list)}

\* The stable order of the requests by time; the ones without time come last.
Earlier(requests, i, j) ==
  \/ requests[i].at # Absent /\ requests[j].at = Absent
  \/ /\ requests[i].at # Absent
     /\ requests[j].at # Absent
     /\ requests[i].at < requests[j].at
  \/ requests[i].at = requests[j].at /\ i < j

\* Request k in time is the one with k - 1 earlier ones.
ByTime(requests) ==
  LET place(i) == Cardinality({j \in DOMAIN requests : Earlier(requests, j, i)})
  IN  [k \in DOMAIN requests |->
         requests[CHOOSE i \in DOMAIN requests : place(i) = k - 1]]

\* Faulty variant: each request of a burst is moved on its own.
MovedAlone(requests, offset) ==
  [i \in DOMAIN requests |->
     IF requests[i].at = Absent THEN requests[i]
     ELSE [requests[i] EXCEPT !.at =
             NoneBelowZero(@ + (IF i % 2 = 0 THEN offset[@] ELSE 0))]]

Moved(requests, offset) ==
  [i \in DOMAIN requests |->
     IF requests[i].at = Absent THEN requests[i]
     ELSE [requests[i] EXCEPT !.at = NoneBelowZero(@ + offset[@])]]

\* Faulty variant: requests of one burst count as out of order.
InStrictOrder(requests) ==
  \A i, j \in Timed(requests) : i < j => requests[i].at < requests[j].at

InFileOrder(requests) ==
  \A i, j \in Timed(requests) : i < j => requests[i].at =< requests[j].at

\* One draw per burst, on the clock of the replay, and the run is rejected when
\* the order of the arrivals is not the order of the file (apply_burst_jitter).
JitterBursts ==
  /\ stage = "burst"
  /\ IF PerBurst /\ Jitter > 0
     THEN \E offset \in [BurstTimes -> Offsets] :
            /\ list' = Moved(list, offset)
            /\ stage' = IF InFileOrder(list') THEN "replay" ELSE "rejected"
     ELSE stage' = "replay" /\ UNCHANGED list
  /\ queue' = IF Timed(list') # {} THEN ByTime(list') ELSE list'
  /\ UNCHANGED <<config, original, clock, arrivals>>

----
\* LLMSource: the next request arrives at its time, or at once when the source is
\* late; a request without a time is followed by a wait.

\* Faulty variant: requests with a time are followed by a wait as well.
WaitsAfterAll(q) == IF q.gap # Absent THEN {q.gap} ELSE config.waits

WaitsAfter(q) ==
  IF q.gap # Absent THEN {q.gap} ELSE IF q.at = Absent THEN config.waits ELSE {0}

Send ==
  /\ stage = "replay"
  /\ queue # <<>>
  /\ LET q    == Head(queue)
         late == ~config.burst /\ q.at # Absent /\ q.at > clock
         time == IF late THEN q.at ELSE clock
     IN  /\ arrivals' = Append(arrivals, [id |-> q.id, at |-> q.at, time |-> time])
         /\ \E wait \in WaitsAfter(q) : clock' = IF config.burst THEN time ELSE time + wait
  /\ queue' = Tail(queue)
  /\ UNCHANGED <<config, stage, list, original>>

WorkloadInit ==
  /\ config \in Configs
  /\ stage = "rows"
  /\ list = <<>>
  /\ original = <<>>
  /\ queue = <<>>
  /\ clock = 0
  /\ arrivals = <<>>

WorkloadNext == Load \/ JitterRequests \/ ScaleTimestamps \/ JitterBursts \/ Send

WorkloadSpec == WorkloadInit /\ [][WorkloadNext]_workloadVars
----
Distance(a, b) == IF a < b THEN b - a ELSE a - b

\* Each jitter moves a request on its own clock (load_workload): per request at
\* most Jitter of the trace, so Jitter times the scale of the replay; per burst at
\* most Jitter of the replay. No time gets negative, none appears or vanishes.
JitterOnItsClock ==
  stage = "replay" =>
    \A i \in Indices :
      /\ (list[i].at = Absent) = (original[i].at = Absent)
      /\ list[i].at # Absent /\ original[i].at >= 0 =>
           /\ list[i].at >= 0
           /\ Distance(list[i].at, original[i].at * Scale)
                =< Jitter * (IF PerBurst THEN 1 ELSE Scale)

InTimeOrder == \A i, j \in Timed(original) : i < j => original[i].at =< original[j].at

\* Bursts move as one (apply_burst_jitter, "Requests within a burst keep identical
\* times"): requests that arrived together still do after the jitter, and in an
\* accepted run of a dataset in the order of time no draw brings a request before
\* one of an earlier burst, however large the jitter (the check of the order).
BurstsStayTogether ==
  stage = "replay" /\ PerBurst =>
    \A i, j \in Timed(list) :
      /\ original[i].at = original[j].at => list[i].at = list[j].at
      /\ InTimeOrder /\ original[i].at < original[j].at => list[i].at =< list[j].at

\* The docstring of apply_burst_jitter: with a jitter below half the smallest gap
\* between bursts, a dataset in the order of time is never rejected.
SmallJitterAccepted ==
  LET small == \A i, j \in Timed(original) :
                 original[i].at < original[j].at =>
                   2 * Jitter < (original[j].at - original[i].at) * Scale
  IN  PerBurst /\ InTimeOrder /\ small /\ Timed(original) # {} =>
        stage # "rejected"

\* Each jitter moves a request on its own clock and no further; bursts move as one
\* and stay in order in every run the loader accepts, and it accepts all of them
\* when the jitter is below half the smallest gap.
JitterSound == JitterOnItsClock /\ BurstsStayTogether /\ SmallJitterAccepted

\* LLMSource keeps time: a request with a timestamp arrives exactly then, at the
\* start of the run if it is negative, the arrivals are in the order of time, and
\* none is lost or sent twice, also when requests with and without a time are
\* mixed and the file is not sorted.
ArrivesOnTime ==
  /\ \A i \in DOMAIN arrivals : ~config.burst /\ arrivals[i].at # Absent =>
       arrivals[i].time = NoneBelowZero(arrivals[i].at)
  /\ \A i, j \in DOMAIN arrivals : i < j => arrivals[i].time =< arrivals[j].time
  /\ stage = "replay" =>
       Len(arrivals) + Len(queue) = Len(list)
====
