SPECIFICATION Spec
CONSTANTS
  e1 = e1
  e2 = e2
  e3 = e3
  Exps = {e1}
  Procs = {p1}
  NoExp = NoExp
  NoProc = NoProc
  Config <- OneGpu
  Req <- Singles
  Deps <- NoDeps
  OnSuccess = {e1}
  Rank <- Order
  HasScript = {e1}
  Ops = {"cancel"}
  Subjects = {e1}
  MaxCrashes = 0
PROPERTY CancelSticks
SYMMETRY Sym
CHECK_DEADLOCK FALSE
