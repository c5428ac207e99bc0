SPECIFICATION FairSpec
CONSTANTS
  Targets = {t1}
  NoJob = NoJob
  MaxGen = 1
  MaxCancels = 1
  OpSets = {{"preempt"}}
  EndsUnmarked = TRUE
PROPERTY SlurmSettles
CHECK_DEADLOCK FALSE
