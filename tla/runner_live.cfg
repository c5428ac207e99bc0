SPECIFICATION FairSpec
CONSTANTS
  e1 = e1
  e2 = e2
  e3 = e3
  Exps = {e1, e2}
  Procs = {p1, p2}
  NoExp = NoExp
  NoProc = NoProc
  Config <- OneGpu
  Req <- Singles
  Deps <- Chain
  OnSuccess = {e1, e2}
  Rank <- Order
  HasScript = {e1, e2}
  Ops = {"wait", "requeue", "delete"}
  Subjects = {e2}
  MaxCrashes = 0
INVARIANT IInv
PROPERTIES UnitsComeBack QueueDrains
CHECK_DEADLOCK FALSE
