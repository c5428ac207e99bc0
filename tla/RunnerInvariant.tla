--------------------------- MODULE RunnerInvariant ---------------------------
(***************************************************************************)
(* The inductive invariant behind UndisturbedExclusive, UndisturbedHeld    *)
(* and UndisturbedFreed of Runner.  It speaks of the experiments nobody    *)
(* has interfered with: such an experiment is queued once, started once,   *)
(* has at most one process, and leaves status "queued" for good when that  *)
(* process is recorded.                                                    *)
(***************************************************************************)
EXTENDS Runner

Untouched == Exps \ disturbed
ProcsOf(e) == {p \in Procs : owner[p] = e}

\* The statuses an experiment can have once its start is recorded.
Begun == {"running", "completed", "failed"}
Reading == {"read", "termRead", "strip", "pollRead"}

\* Whoever is past a cancel or delete call is known to be interfered with.
CallsDisturb ==
  /\ deleting \subseteq disturbed
  /\ \A c \in cancelling : c[1] \in disturbed

\* A process id is free, or has an owner; only a used one is watched, and a
\* monitor reads the log of a process that is gone.
ProcsUsed ==
  \A p \in Procs :
    /\ proc[p] = "unused" <=> owner[p] = NoExp
    /\ proc[p] = "unused" => mon[p] = "none"
    /\ mon[p] \in Reading => Exited(p)

\* The coroutine of the pass: its local variables.
StartingWell ==
  /\ cur = NoExp <=> stage \in {"idle", "scan"}
  /\ ~up => stage = "idle"
  /\ stage = "spawned" => /\ child \in Procs
                          /\ owner[child] = cur
                          /\ gpus[child] = curUnits
                          /\ mon[child] = "none"

OneProcess ==
  \A e \in Untouched : \A p, q \in ProcsOf(e) : p = q

\* A process is the child of the start in progress, or it is recorded: then
\* its experiment has begun, and as long as it lives the record names it.
Recorded ==
  \A e \in Untouched : \A p \in ProcsOf(e) :
    \/ stage = "spawned" /\ child = p
    \/ /\ status[e] \in Begun
       /\ Live(p) => /\ status[e] = "running"
                     /\ pidOf[e] = p
                     /\ assigned[e] = gpus[p]
                     /\ up => allocs[e] = gpus[p]

\* The experiment being started is queued and holds what it will run on.
CurrentQueued ==
  cur \in Untouched =>
    /\ status[cur] = "queued"
    /\ allocs[cur] = curUnits /\ assigned[cur] = curUnits
    /\ stage = "prep" => ProcsOf(cur) = {}

RunningNamed ==
  \A e \in Untouched :
    status[e] = "running" => pidOf[e] \in Procs /\ owner[pidOf[e]] = e

ReconGone ==
  \A e \in Untouched :
    recon[e] # "none" => /\ status[e] \in Begun
                         /\ \A p \in ProcsOf(e) : ~Live(p)

TodoQueued ==
  \A e \in Untouched : e \in todo => status[e] = "queued" /\ cur # e

AllocsDisjoint ==
  up => \A e, f \in Untouched : e # f => allocs[e] \cap allocs[f] = {}

IInv ==
  /\ CallsDisturb /\ ProcsUsed /\ StartingWell
  /\ OneProcess /\ Recorded /\ CurrentQueued /\ RunningNamed
  /\ ReconGone /\ TodoQueued /\ AllocsDisjoint
  /\ UndisturbedExclusive /\ UndisturbedFreed

-----------------------------------------------------------------------------
(* Behind CompletedIsFinal and ParentsFinished: experiments nobody takes     *)
(* back, although failed ones may be started again and the server may crash. *)

NothingWithdraws == Ops \cap {"cancel", "requeue", "delete", "wait"} = {}

\* Who accepts a failed dependency is not surprised by its restart.
ParentsStay ==
  "restart" \in Ops => \A e \in Exps \ OnSuccess : Deps[e] \cap Subjects = {}

NoCallsSleep ==
  /\ cancelling = {} /\ deleting = {}
  /\ \A e \in Exps : recon[e] = "none"

\* What the pass has in hand is still as the pass has found it.
InHandQueued ==
  /\ \A e \in todo : status[e] = "queued" /\ e # cur
  /\ cur \in Exps => status[cur] = "queued"

\* Only the process its experiment's record names is watched.
WatchedRuns ==
  \A p \in Procs : mon[p] # "none" =>
    /\ owner[p] \in Exps
    /\ IF mon[p] = "strip" THEN status[owner[p]] = "completed"
       ELSE status[owner[p]] = "running" /\ pidOf[owner[p]] = p

\* The pass's snapshot of a finished experiment is true to the end of the pass.
SnapStands ==
  \A d \in Exps :
    /\ snap[d] = "completed" => status[d] = "completed"
    /\ snap[d] \in {"failed", "cancelled"} /\ ("restart" \in Ops => d \notin Subjects)
       => status[d] = snap[d]

\* The experiment being started has been judged ready.
CurrentReady ==
  cur \in Exps => \A d \in Deps[cur] :
    snap[d] \in IF cur \in OnSuccess THEN {"completed"}
                ELSE {"completed", "failed", "cancelled"}

FinalIInv ==
  /\ NoCallsSleep /\ InHandQueued /\ WatchedRuns
  /\ SnapStands /\ CurrentReady

=============================================================================
