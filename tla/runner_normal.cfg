SPECIFICATION Spec
CONSTANTS
  e1 = e1
  e2 = e2
  e3 = e3
  Exps = {e1, e2, e3, e4}
  Procs = {p1, p2, p3}
  NoExp = NoExp
  NoProc = NoProc
  Config <- TwoGpus
  Req <- Singles
  Deps <- Chain
  OnSuccess = {e1, e2, e3}
  Rank <- Order
  HasScript = {e1, e2, e3}
  Ops = {"restart", "refuse"}
  Subjects = {e1}
  MaxCrashes = 0
PROPERTIES ImplementsLease CompletedIsFinal ParentsFinished
CHECK_DEADLOCK FALSE
