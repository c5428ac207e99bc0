SPECIFICATION FairSpec
CONSTANTS
  Targets = {t1, t2}
  NoJob = NoJob
  MaxGen = 1
  MaxCancels = 1
  OpSets <- TheOpSets
  EndsUnmarked = FALSE
INVARIANTS ResultsOfFinalAttempt NeverEndedEarly SlotFollowsRecord RunningIsWatched OneJob
PROPERTY SlurmSettles
CHECK_DEADLOCK FALSE
