SPECIFICATION Spec
CONSTANTS
  e1 = e1
  e2 = e2
  e3 = e3
  Exps = {e1, e2, e3}
  Procs = {p1, p2, p3}
  NoExp = NoExp
  NoProc = NoProc
  Config <- OneGpu
  Req <- Singles
  Deps <- NoDeps
  OnSuccess = {e1, e2, e3}
  Rank <- Order
  HasScript = {e1, e2, e3}
  Ops = {"cancel", "restart", "crash"}
  Subjects = {e3}
  MaxCrashes = 1
INVARIANTS UndisturbedExclusive UndisturbedFreed
PROPERTY MonitorsRespectCancel
SYMMETRY Sym
CHECK_DEADLOCK FALSE
