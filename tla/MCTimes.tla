---- MODULE MCTimes ----
\* The times of a run for TLC. The study "steps" has two requests of two and
\* three tokens on one worker; "trace" the loader and the source on files of three
\* rows: in and out of order with jitter per burst; with a time, with a gap and
\* with neither, and jitter per request; and unjittered, with times before the
\* start of the run.
EXTENDS StepTiming, Workload

CONSTANTS r1, r2

MCDecodeLen == [r \in Reqs |-> IF r = r1 THEN 2 ELSE 3]

Row(at) == [id |-> Absent, at |-> at, gap |-> Absent]

TraceConfig ==
  [files |-> {[i \in 1 .. 3 |-> Row(t[i])] : t \in [1 .. 3 -> {0, 3, 6}]},
   format |-> "qwen_jsonl", counts |-> {Absent, 2, 4}, skips |-> {0, 1},
   mode |-> "burst", jitter |-> 4, scale |-> 2, waits |-> {0, 1}, burst |-> FALSE]

MixedConfig ==
  [files |-> [1 .. 3 -> {Row(0), Row(2), Row(Absent), [Row(Absent) EXCEPT !.gap = 2]}],
   format |-> "json_pairs", counts |-> {Absent, 4}, skips |-> {0},
   mode |-> "request", jitter |-> 1, scale |-> 2, waits |-> {0, 1}, burst |-> FALSE]

PlainConfig(burst) ==
  [MixedConfig EXCEPT !.files = [1 .. 3 -> {Row(-1), Row(2), Row(Absent)}],
                      !.jitter = 0, !.burst = burst]

MCConfigs == {TraceConfig, MixedConfig, PlainConfig(FALSE), PlainConfig(TRUE)}

VARIABLE study

mcVars == <<study, timingVars, workloadVars>>

\* What a study leaves out keeps one initial state.
MCInit ==
  /\ study \in {"steps", "trace"}
  /\ TimingInit
  /\ WorkloadInit /\ (study = "steps" => config = TraceConfig)

MCNext ==
  \/ study = "steps" /\ TimingNext /\ UNCHANGED <<study, workloadVars>>
  \/ study = "trace" /\ WorkloadNext /\ UNCHANGED <<study, timingVars>>

MCSpec == MCInit /\ [][MCNext]_mcVars
====
