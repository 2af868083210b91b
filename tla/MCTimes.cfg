SPECIFICATION MCSpec
CONSTANTS
  r1 = r1
  r2 = r2
  Absent = Absent
  Configs <- MCConfigs
  Reqs = {r1, r2}
  DecodeLen <- MCDecodeLen
  Latencies = {1, 2}
  Overheads = {0, 1}
  MaxTime = 8
  MaxPreempt = 1
INVARIANTS
  TimesAddUp
  JitterSound
  ArrivesOnTime
CHECK_DEADLOCK FALSE
