------------------------------- MODULE Runner -------------------------------
(***************************************************************************)
(* The experiment runner of the_lab/runner.py on local resources: the      *)
(* scheduler pass, the start of a subprocess, the monitor of a child, the  *)
(* monitor of a process adopted after a restart, cancel, the reconcile     *)
(* step of wait_any, and the routes of routes/experiments.py that change   *)
(* an experiment's status under their feet.                                *)
(*                                                                         *)
(* Code between two awaits runs without interruption on the event loop, so *)
(* it is one action; what a coroutine has read before an await is kept in  *)
(* a variable of its own.  The scheduler pass holds the loop from one      *)
(* start to the next (stage "scan"), and the loop's other actions wait.    *)
(* Processes, and the two handlers that run on worker threads (delete and  *)
(* reconcile), may step at any time.                                       *)
(*                                                                         *)
(* Status "queued" stands for "queued" and for the legacy "pending": every *)
(* test in the code treats them alike.                                     *)
(***************************************************************************)
EXTENDS QueueResources

CONSTANTS
  Exps,        \* experiment labels
  Procs,       \* process ids, each used once (bounds the number of starts)
  NoExp, NoProc,
  Config,      \* the resource table, as QueueResources describes it
  Req,         \* meta.requirements of each experiment
  Deps,        \* meta.depends_on of each experiment
  OnSuccess,   \* the experiments with meta.depends_on_success
  Rank,        \* the scan order: -priority, then created_at
  HasScript,   \* the experiments whose script file exists
  Ops,         \* what the environment does besides creating experiments
  Subjects,    \* the experiments that clients cancel, start, requeue, delete
  MaxCrashes   \* bound on server crashes

OpNames == {"cancel", "restart", "requeue", "delete", "wait", "refuse", "crash"}

ASSUME NamesAssumption == NoExp \notin Exps /\ NoProc \notin Procs
ASSUME TablesAssumption ==
  /\ Deps \in [Exps -> SUBSET Exps]
  /\ OnSuccess \subseteq Exps
  /\ HasScript \subseteq Exps
  /\ Subjects \subseteq Exps
  /\ Ops \subseteq OpNames
  /\ MaxCrashes \in Nat

VARIABLES
  \* the experiment records of the store, which survive a crash
  status,      \* "absent" when there is no record
  pidOf,       \* field pid
  assigned,    \* meta.assigned_resource with meta.assigned_units
  \* the operating system
  proc,        \* "unused", "live", or the exit status "ok" / "err"
  owner,       \* the experiment a process runs
  gpus,        \* the units its environment names (CUDA_VISIBLE_DEVICES)
  \* the memory of the server process
  up,
  allocs,      \* Allocator._allocations
  stage,       \* the scheduler coroutine: "idle", "scan", "prep", "spawned"
  todo,        \* what is left of the pass's snapshot "queued"
  snap,        \* the statuses of the pass's snapshot "by_label"
  cur,         \* the experiment being started
  curUnits,    \* the local variable "assigned" of _dispatch_once
  child,       \* the process create_subprocess_exec has made
  mon,         \* the monitor task of each process
  cancelling,  \* cancel calls asleep between SIGTERM and SIGKILL
  recon,       \* reconcile calls on a worker thread, by stage
  deleting,    \* delete calls past their status check
  \* history and bounds
  disturbed,   \* experiments somebody has interfered with (see Disturb)
  crashes

store == <<status, pidOf, assigned>>
os == <<proc, owner, gpus>>
pass == <<todo, snap>>
starting == <<stage, cur, curUnits, child>>
history == <<disturbed, crashes>>
vars == <<store, os, up, allocs, pass, starting, mon, cancelling, recon,
          deleting, history>>

Status == {"absent", "queued", "running", "completed", "failed", "cancelled"}
Active == {"queued", "running"}
Units == UNION {{r} \X (0 .. Config[r].capacity - 1) : r \in DOMAIN Config}
MonStage == {"none", "child", "term", "read", "termRead", "strip",
             "poll", "pollRead"}

Exists(e) == status[e] # "absent"
Live(p) == proc[p] = "live"
Exited(p) == proc[p] \in {"ok", "err"}

\* The event loop is free for a handler or a task to run a step.
Loop == up /\ stage # "scan"

TypeOK ==
  /\ status \in [Exps -> Status]
  /\ pidOf \in [Exps -> Procs \cup {NoProc}]
  /\ assigned \in [Exps -> SUBSET Units]
  /\ proc \in [Procs -> {"unused", "live", "ok", "err"}]
  /\ owner \in [Procs -> Exps \cup {NoExp}]
  /\ gpus \in [Procs -> SUBSET Units]
  /\ up \in BOOLEAN
  /\ allocs \in [Exps -> SUBSET Units]
  /\ stage \in {"idle", "scan", "prep", "spawned"}
  /\ todo \subseteq Exps
  /\ snap \in [Exps -> Status]
  /\ cur \in Exps \cup {NoExp}
  /\ curUnits \subseteq Units
  /\ child \in Procs \cup {NoProc}
  /\ mon \in [Procs -> MonStage]
  /\ cancelling \subseteq Exps \X Procs
  /\ recon \in [Exps -> {"none", "read", "write"}]
  /\ deleting \subseteq Exps
  /\ disturbed \subseteq Exps
  /\ crashes \in Nat

Init ==
  /\ status = [e \in Exps |-> "absent"]
  /\ pidOf = [e \in Exps |-> NoProc]
  /\ assigned = [e \in Exps |-> {}]
  /\ proc = [p \in Procs |-> "unused"]
  /\ owner = [p \in Procs |-> NoExp]
  /\ gpus = [p \in Procs |-> {}]
  /\ up = TRUE
  /\ allocs = [e \in Exps |-> {}]
  /\ stage = "idle" /\ todo = {} /\ snap = [e \in Exps |-> "absent"]
  /\ cur = NoExp /\ curUnits = {} /\ child = NoProc
  /\ mon = [p \in Procs |-> "none"]
  /\ cancelling = {} /\ recon = [e \in Exps |-> "none"] /\ deleting = {}
  /\ disturbed = {} /\ crashes = 0

-----------------------------------------------------------------------------
(* Building blocks: a store write, the allocator, a helper for history.    *)

\* update_experiment on a record that may have been deleted: a no-op then.
Record(e, s, p) ==
  /\ status' = IF Exists(e) THEN [status EXCEPT ![e] = s] ELSE status
  /\ pidOf' = IF Exists(e) THEN [pidOf EXCEPT ![e] = p] ELSE pidOf

\* The scheduler's terminal writes leave the field pid alone.
Settle(e, s) ==
  /\ status' = IF Exists(e) THEN [status EXCEPT ![e] = s] ELSE status
  /\ UNCHANGED pidOf

\* Faulty: the units stay reserved.
ReleaseNothing(e) == UNCHANGED allocs

Release(e) == allocs' = [allocs EXCEPT ![e] = {}]

\* Somebody other than the runner acted on e.
Disturb(e) == disturbed' = disturbed \cup {e} /\ UNCHANGED crashes

-----------------------------------------------------------------------------
(* The scheduler pass: _scheduler_loop and _dispatch_once.                 *)

\* A pass starts: the queued experiments are snapshotted, and the statuses of
\* those somebody depends on (of by_label nothing else is read).
\* (A pass over no queued experiment changes nothing and is left out.)
ScanBegin ==
  /\ Loop /\ stage = "idle" /\ \E e \in Exps : status[e] = "queued"
  /\ stage' = "scan"
  /\ todo' = {e \in Exps : status[e] = "queued"}
  /\ snap' = [e \in Exps |-> IF \E f \in Exps : e \in Deps[f]
                             THEN status[e] ELSE "absent"]
  /\ UNCHANGED <<store, os, up, allocs, cur, curUnits, child, mon,
                 cancelling, recon, deleting, history>>

\* e is the next experiment of the sorted snapshot.
Next1(e) == e \in todo /\ \A f \in todo : Rank[e] <= Rank[f]

Missing(d) == snap[d] = "absent"

\* Faulty: a dependency that is still queued counts as finished.
UnfinishedRunningOnly(d) == snap[d] = "running"

Unfinished(d) == snap[d] \in Active
Sunk(e, d) == e \in OnSuccess /\ snap[d] \in {"failed", "cancelled"}
Ready(e) ==
  \A d \in Deps[e] : ~Missing(d) /\ ~Unfinished(d) /\ ~Sunk(e, d)

\* The matched resource has room, and e was not cancelled meanwhile.
Placeable(e, r) ==
  /\ r \in MatchResource(Config, Req[e])
  /\ status[e] = "queued"
  /\ CanReserve(Config, allocs, r, UnitsWanted(Config[r], Req[e]))

\* A dependency that does not exist fails the experiment.
ScanFail(e) ==
  /\ up /\ stage = "scan" /\ Next1(e)
  /\ \E d \in Deps[e] : Missing(d)
  /\ Settle(e, "failed")
  /\ todo' = todo \ {e}
  /\ UNCHANGED <<assigned, os, up, allocs, snap, starting, mon, cancelling,
                 recon, deleting, history>>

\* A failed or cancelled dependency cancels it.
ScanCancel(e) ==
  /\ up /\ stage = "scan" /\ Next1(e)
  /\ \E d \in Deps[e] : Sunk(e, d)
  /\ Settle(e, "cancelled")
  /\ todo' = todo \ {e}
  /\ UNCHANGED <<assigned, os, up, allocs, snap, starting, mon, cancelling,
                 recon, deleting, history>>

\* It has to wait: for a dependency, or for units.
ScanSkip(e) ==
  /\ up /\ stage = "scan" /\ Next1(e)
  /\ \/ \E d \in Deps[e] : Unfinished(d)
     \/ Ready(e) /\ MatchResource(Config, Req[e]) = {}
     \/ Ready(e) /\ \E r \in MatchResource(Config, Req[e]) : ~Placeable(e, r)
     \/ \A p \in Procs : proc[p] # "unused"     \* the bound on starts
  /\ todo' = todo \ {e}
  /\ UNCHANGED <<store, os, up, allocs, snap, starting, mon, cancelling,
                 recon, deleting, history>>

\* It gets its units and start() runs up to its first await.
ScanStart(e) ==
  /\ up /\ stage = "scan" /\ Next1(e) /\ Ready(e) /\ e \in HasScript
  /\ \E p \in Procs : proc[p] = "unused"
  /\ \E r \in DOMAIN Config :
       /\ Placeable(e, r)
       /\ curUnits' = Lowest(FreeUnits(Config, allocs, r),
                             UnitsWanted(Config[r], Req[e]))
  /\ allocs' = [allocs EXCEPT ![e] = curUnits']
  /\ assigned' = [assigned EXCEPT ![e] = curUnits']
  /\ stage' = "prep" /\ cur' = e /\ todo' = todo \ {e}
  /\ UNCHANGED <<status, pidOf, os, up, snap, child, mon, cancelling, recon,
                 deleting, history>>

\* Its script is missing: start() reads the name "label" before any
\* assignment, and the handler in _dispatch_once releases the units.
ScanNoScript(e) ==
  /\ up /\ stage = "scan" /\ Next1(e) /\ Ready(e) /\ e \notin HasScript
  /\ \E r \in DOMAIN Config :
       /\ Placeable(e, r)
       /\ assigned' = [assigned EXCEPT ![e] =
                         Lowest(FreeUnits(Config, allocs, r),
                                UnitsWanted(Config[r], Req[e]))]
  /\ Release(e)
  /\ todo' = todo \ {e}
  /\ UNCHANGED <<status, pidOf, os, up, snap, starting, mon, cancelling,
                 recon, deleting, history>>

ScanEnd ==
  /\ up /\ stage = "scan" /\ todo = {}
  /\ stage' = "idle" /\ snap' = [e \in Exps |-> "absent"]
  /\ UNCHANGED <<store, os, up, allocs, todo, cur, curUnits, child, mon,
                 cancelling, recon, deleting, history>>

-----------------------------------------------------------------------------
(* start(), from its first await on.  The status is not read again.        *)

\* The sandbox is unavailable, or an exception (its files were deleted, for
\* one): the units are released and the experiment stays as it is.
StartRefused ==
  /\ up /\ stage = "prep" /\ ("refuse" \in Ops \/ ~Exists(cur))
  /\ Release(cur)
  /\ stage' = "scan" /\ cur' = NoExp /\ curUnits' = {}
  /\ UNCHANGED <<store, os, up, pass, child, mon, cancelling, recon,
                 deleting, history>>

\* The operating system makes the process; create_subprocess_exec has not
\* resumed yet.
StartSpawn(p) ==
  /\ up /\ stage = "prep" /\ proc[p] = "unused"
  /\ proc' = [proc EXCEPT ![p] = "live"]
  /\ owner' = [owner EXCEPT ![p] = cur]
  /\ gpus' = [gpus EXCEPT ![p] = curUnits]
  /\ stage' = "spawned" /\ child' = p
  /\ UNCHANGED <<store, up, allocs, pass, cur, curUnits, mon, cancelling,
                 recon, deleting, history>>

\* start() resumes: the record becomes running, the monitor is created, and
\* the scan goes on.
StartRecord ==
  /\ up /\ stage = "spawned"
  /\ Record(cur, "running", child)
  /\ mon' = [mon EXCEPT ![child] = "child"]
  /\ stage' = "scan" /\ cur' = NoExp /\ curUnits' = {} /\ child' = NoProc
  /\ UNCHANGED <<assigned, os, up, allocs, pass, cancelling, recon,
                 deleting, history>>

-----------------------------------------------------------------------------
(* Processes and the monitors that wait for them.                          *)

\* A process ends by itself (or because of a SIGTERM), with either status.
ProcExit(p, s) ==
  /\ Live(p)
  /\ proc' = [proc EXCEPT ![p] = s]
  /\ UNCHANGED <<store, owner, gpus, up, allocs, pass, starting, mon,
                 cancelling, recon, deleting, history>>

\* Faulty: the units go back with the SIGTERM.
TimeoutReleases(p) ==
  /\ Loop /\ mon[p] = "child" /\ Live(p)
  /\ mon' = [mon EXCEPT ![p] = "term"]
  /\ Release(owner[p])
  /\ UNCHANGED <<store, os, up, pass, starting, cancelling, recon, deleting,
                 history>>

\* The deadline of a child passes: _monitor sends SIGTERM.
MonitorTimeout(p) ==
  /\ Loop /\ mon[p] = "child" /\ Live(p)
  /\ mon' = [mon EXCEPT ![p] = "term"]
  /\ UNCHANGED <<store, os, up, allocs, pass, starting, cancelling, recon,
                 deleting, history>>

\* Faulty: there is no SIGKILL after the SIGTERM.
MonitorNoKill(p) == Loop /\ mon[p] = "term" /\ UNCHANGED vars

\* Ten seconds later it is still there: SIGKILL.
MonitorKill(p) ==
  /\ Loop /\ mon[p] = "term" /\ Live(p)
  /\ proc' = [proc EXCEPT ![p] = "err"]
  /\ UNCHANGED <<store, owner, gpus, up, allocs, pass, starting, mon,
                 cancelling, recon, deleting, history>>

\* The child is gone.  _monitor gives up on a deleted or cancelled record
\* (it releases nothing), else it starts reading the log.
MonitorWake(p) ==
  /\ Loop /\ mon[p] \in {"child", "term"} /\ Exited(p)
  /\ mon' = [mon EXCEPT ![p] =
               IF status[owner[p]] \in {"absent", "cancelled"} THEN "none"
               ELSE IF mon[p] = "term" THEN "termRead" ELSE "read"]
  /\ UNCHANGED <<store, os, up, allocs, pass, starting, cancelling, recon,
                 deleting, history>>

\* Faulty: the status is not read again before the terminal write.
CancelledIgnored(p) == FALSE

CancelledNow(p) == status[owner[p]] = "cancelled"

Outcome(p) ==
  IF mon[p] = "read" /\ proc[p] = "ok" THEN "completed" ELSE "failed"

\* The log is read.  Unless the record is cancelled by now the outcome is
\* written, and the label's units are released.  A failure whose record was
\* deleted ends the task before the release: the directory of its .err file
\* is gone.
MonitorFinish(p) ==
  /\ Loop /\ mon[p] \in {"read", "termRead"}
  /\ IF CancelledNow(p) THEN UNCHANGED <<status, pidOf>>
     ELSE Record(owner[p], Outcome(p), NoProc)
  /\ IF ~Exists(owner[p]) /\ Outcome(p) = "failed" THEN UNCHANGED allocs
     ELSE Release(owner[p])
  /\ mon' = [mon EXCEPT ![p] = "none"]
  /\ UNCHANGED <<assigned, os, up, pass, starting, cancelling, recon,
                 deleting, history>>

\* A completed run whose log has a result line: the line is cut out on a
\* worker thread between the write and the release.  Both monitors do this.
MonitorStrip(p) ==
  /\ Loop
  /\ \/ mon[p] = "read" /\ proc[p] = "ok"
     \/ mon[p] = "pollRead"
  /\ ~CancelledNow(p)
  /\ Record(owner[p], "completed", NoProc)
  /\ mon' = [mon EXCEPT ![p] = "strip"]
  /\ UNCHANGED <<assigned, os, up, allocs, pass, starting, cancelling, recon,
                 deleting, history>>

MonitorRelease(p) ==
  /\ Loop /\ mon[p] = "strip"
  /\ Release(owner[p])
  /\ mon' = [mon EXCEPT ![p] = "none"]
  /\ UNCHANGED <<store, os, up, pass, starting, cancelling, recon, deleting,
                 history>>

\* The monitor of an adopted process (_monitor_pid) polls until it is gone;
\* it knows no deadline and no exit status.
PollWake(p) ==
  /\ Loop /\ mon[p] = "poll" /\ Exited(p)
  /\ mon' = [mon EXCEPT ![p] = "pollRead"]
  /\ UNCHANGED <<store, os, up, allocs, pass, starting, cancelling, recon,
                 deleting, history>>

PollFinish(p) ==
  /\ Loop /\ mon[p] = "pollRead"
  /\ IF CancelledNow(p)
     THEN UNCHANGED <<status, pidOf, allocs>>
     ELSE Record(owner[p], "completed", NoProc) /\ Release(owner[p])
  /\ mon' = [mon EXCEPT ![p] = "none"]
  /\ UNCHANGED <<assigned, os, up, pass, starting, cancelling, recon,
                 deleting, history>>

-----------------------------------------------------------------------------
(* wait_any: a running record whose process is gone is reconciled on a     *)
(* worker thread: read the log, look at the status, write.                 *)

\* Faulty: the process is not probed.
GoneUnprobed(e) == status[e] = "running" /\ pidOf[e] # NoProc

Gone(e) == status[e] = "running" /\ pidOf[e] # NoProc /\ ~Live(pidOf[e])

ReconcileBegin(e) ==
  /\ "wait" \in Ops /\ Loop
  /\ Gone(e)
  /\ recon[e] = "none"
  /\ recon' = [recon EXCEPT ![e] = "read"]
  /\ UNCHANGED <<store, os, up, allocs, pass, starting, mon, cancelling,
                 deleting, history>>

\* The log holds no result and the progress file no "done", or the record is
\* cancelled: nothing is written.
ReconcileDrop(e) ==
  /\ up /\ recon[e] = "read"
  /\ recon' = [recon EXCEPT ![e] = "none"]
  /\ UNCHANGED <<store, os, up, allocs, pass, starting, mon, cancelling,
                 deleting, history>>

ReconcileCheck(e) ==
  /\ up /\ recon[e] = "read" /\ status[e] # "cancelled"
  /\ recon' = [recon EXCEPT ![e] = "write"]
  /\ UNCHANGED <<store, os, up, allocs, pass, starting, mon, cancelling,
                 deleting, history>>

ReconcileWrite(e) ==
  /\ up /\ recon[e] = "write"
  /\ Record(e, "completed", NoProc)
  /\ Release(e)
  /\ recon' = [recon EXCEPT ![e] = "none"]
  /\ UNCHANGED <<assigned, os, up, pass, starting, mon, cancelling, deleting,
                 history>>

-----------------------------------------------------------------------------
(* The routes.                                                             *)

\* A client may make this call on e.
Call(op, e) == op \in Ops /\ e \in Subjects

\* POST /ideas/{id}/experiments and /rerun: a new record, its script written,
\* queued, without an await.  A deleted label may come back (see Store).
Create(e) ==
  /\ Loop /\ ~Exists(e)
  /\ status' = [status EXCEPT ![e] = "queued"]
  /\ pidOf' = [pidOf EXCEPT ![e] = NoProc]
  /\ assigned' = [assigned EXCEPT ![e] = {}]
  /\ UNCHANGED <<os, up, allocs, pass, starting, mon, cancelling, recon,
                 deleting, history>>

\* cancel of anything but a running experiment: the units go back first.
CancelNow(e) ==
  /\ Call("cancel", e) /\ Loop /\ Exists(e) /\ status[e] # "running"
  /\ Release(e)
  /\ status' = IF status[e] = "queued"
               THEN [status EXCEPT ![e] = "cancelled"] ELSE status
  /\ Disturb(e)
  /\ UNCHANGED <<pidOf, assigned, os, up, pass, starting, mon, cancelling,
                 recon, deleting>>

\* cancel of a running one: release, SIGTERM, then asleep for ten seconds.
\* One such call per process at a time is modelled.
CancelBegin(e) ==
  /\ Call("cancel", e) /\ Loop /\ status[e] = "running" /\ pidOf[e] # NoProc
  /\ <<e, pidOf[e]>> \notin cancelling
  /\ Release(e)
  /\ cancelling' = cancelling \cup {<<e, pidOf[e]>>}
  /\ Disturb(e)
  /\ UNCHANGED <<store, os, up, pass, starting, mon, recon, deleting>>

\* Awake again: SIGKILL, and the record becomes cancelled whatever it is now.
CancelEnd(e, p) ==
  /\ Loop /\ <<e, p>> \in cancelling
  /\ proc' = IF Live(p) THEN [proc EXCEPT ![p] = "err"] ELSE proc
  /\ Record(e, "cancelled", NoProc)
  /\ cancelling' = cancelling \ {<<e, p>>}
  /\ UNCHANGED <<assigned, owner, gpus, up, allocs, pass, starting, mon, recon,
                 deleting, history>>

\* Faulty: a completed experiment may be started again.
RestartableAny(e) == status[e] \in {"completed", "failed", "cancelled"}

Restartable(e) == status[e] \in {"failed", "cancelled"}

\* POST /experiments/{ref}/start: running is a no-op, completed is refused.
\* (An experiment that is queued already is queued again: no change.)
Restart(e) ==
  /\ Call("restart", e) /\ Loop /\ Restartable(e)
  /\ status' = [status EXCEPT ![e] = "queued"]
  /\ Disturb(e)
  /\ UNCHANGED <<pidOf, assigned, os, up, allocs, pass, starting, mon,
                 cancelling, recon, deleting>>

\* POST /experiments/{ref}/requeue on a record without a Slurm job.
Requeue(e) ==
  /\ Call("requeue", e) /\ Loop /\ status[e] \in {"running", "failed"}
  /\ status' = [status EXCEPT ![e] = "queued"]
  /\ Disturb(e)
  /\ UNCHANGED <<pidOf, assigned, os, up, allocs, pass, starting, mon,
                 cancelling, recon, deleting>>

\* DELETE /experiments/{ref}, on a worker thread: the status check, then the
\* removal of files and record.
DeleteBegin(e) ==
  /\ Call("delete", e) /\ up /\ Exists(e) /\ status[e] # "running"
  /\ e \notin deleting
  /\ deleting' = deleting \cup {e}
  /\ Disturb(e)
  /\ UNCHANGED <<store, os, up, allocs, pass, starting, mon, cancelling,
                 recon>>

DeleteEnd(e) ==
  /\ up /\ e \in deleting
  /\ status' = [status EXCEPT ![e] = "absent"]
  /\ deleting' = deleting \ {e}
  /\ UNCHANGED <<pidOf, assigned, os, up, allocs, pass, starting, mon,
                 cancelling, recon, history>>

-----------------------------------------------------------------------------
(* A crash of the server loses its memory; the processes, started in       *)
(* sessions of their own, live on.  Boot is the constructor's recovery     *)
(* followed by reattach_running.                                           *)

Crash ==
  /\ "crash" \in Ops /\ up /\ crashes < MaxCrashes
  /\ up' = FALSE
  /\ crashes' = crashes + 1
  /\ allocs' = [e \in Exps |-> {}]
  /\ stage' = "idle" /\ todo' = {} /\ snap' = [e \in Exps |-> "absent"]
  /\ cur' = NoExp /\ curUnits' = {} /\ child' = NoProc
  /\ mon' = [p \in Procs |-> "none"]
  /\ cancelling' = {} /\ recon' = [e \in Exps |-> "none"] /\ deleting' = {}
  /\ disturbed' = disturbed \cup ({cur} \ {NoExp})
  /\ UNCHANGED <<store, os>>

\* A running record is adopted when its process is alive.
Adopted(e) ==
  /\ status[e] = "running" /\ pidOf[e] # NoProc
  /\ pidOf[e] \in Procs /\ Live(pidOf[e])

\* Faulty: the allocator forgets the adopted runs.
RestoredNothing == [e \in Exps |-> {}]

\* restore_from_running: the units recorded in the metadata of adopted runs.
Restored == [e \in Exps |-> IF Adopted(e) THEN assigned[e] ELSE {}]

\* The dead running records in "done" left a result, the others did not.
Boot ==
  /\ ~up /\ up' = TRUE
  /\ \E done \in SUBSET Exps :
       status' = [e \in Exps |->
                    IF status[e] # "running" \/ Adopted(e) THEN status[e]
                    ELSE IF e \in done THEN "completed" ELSE "failed"]
  /\ pidOf' = [e \in Exps |->
                 IF status[e] # "running" \/ Adopted(e) THEN pidOf[e]
                 ELSE NoProc]
  /\ mon' = [p \in Procs |->
               IF \E e \in Exps : Adopted(e) /\ pidOf[e] = p /\ owner[p] = e
               THEN "poll" ELSE "none"]
  /\ allocs' = Restored
  /\ UNCHANGED <<assigned, os, pass, starting, cancelling, recon, deleting,
                 history>>

-----------------------------------------------------------------------------
Scheduler ==
  \/ ScanBegin \/ ScanEnd
  \/ \E e \in Exps : \/ ScanFail(e) \/ ScanCancel(e) \/ ScanSkip(e)
                     \/ ScanStart(e) \/ ScanNoScript(e)
  \/ StartRefused \/ StartRecord
  \/ \E p \in Procs : StartSpawn(p)

Monitor(p) ==
  \/ MonitorTimeout(p) \/ MonitorKill(p) \/ MonitorWake(p)
  \/ MonitorFinish(p) \/ MonitorStrip(p) \/ MonitorRelease(p)
  \/ PollWake(p) \/ PollFinish(p)

Reconcile(e) ==
  \/ ReconcileBegin(e) \/ ReconcileDrop(e) \/ ReconcileCheck(e)
  \/ ReconcileWrite(e)

Routes(e) ==
  \/ Create(e) \/ CancelNow(e) \/ CancelBegin(e)
  \/ \E p \in Procs : CancelEnd(e, p)
  \/ Restart(e) \/ Requeue(e) \/ DeleteBegin(e) \/ DeleteEnd(e)

Next ==
  \/ Scheduler
  \/ \E p \in Procs : Monitor(p)
  \/ \E p \in Procs, s \in {"ok", "err"} : ProcExit(p, s)
  \/ \E e \in Exps : Reconcile(e) \/ Routes(e)
  \/ Crash \/ Boot

Spec == Init /\ [][Next]_vars

\* The event loop serves its ready tasks first come, first served: the
\* scheduler's steps happen, and so do each monitor's, deadline and kill
\* included, although scheduler passes keep interrupting them (hence SF).
\* Nothing forces a process to end, a client to call or the server to crash;
\* a crashed server is restarted.
FairSpec ==
  /\ Spec
  /\ WF_vars(Scheduler)
  /\ \A p \in Procs : SF_vars(Monitor(p))
  /\ WF_vars(Boot)

-----------------------------------------------------------------------------
(* Properties.                                                             *)

Starting(e) == cur = e /\ stage \in {"prep", "spawned"}
Watched(e) == \E p \in Procs : owner[p] = e /\ mon[p] # "none"

\* Whatever is done to the others, crashes included, and in any order: two
\* live processes of experiments nobody interfered with (no cancel, start,
\* requeue or delete call; no crash in the middle of their own start) are of
\* different experiments and have no unit in common.
UndisturbedExclusive ==
  \A p, q \in Procs :
    /\ Live(p) /\ Live(q) /\ p # q
    /\ owner[p] \notin disturbed /\ owner[q] \notin disturbed
    => owner[p] # owner[q] /\ gpus[p] \cap gpus[q] = {}

\* The allocator's entry of such an experiment is exactly what its live
\* process uses, so no later reservation can take it away.
UndisturbedHeld ==
  \A p \in Procs :
    up /\ Live(p) /\ owner[p] \notin disturbed => allocs[owner[p]] = gpus[p]

\* And nothing it holds is forgotten.
UndisturbedFreed ==
  up => \A e \in Exps \ disturbed :
          allocs[e] # {} => Starting(e) \/ Watched(e)

\* A completed experiment stays completed (a completed run is final for its
\* clients: PROMPT_api.md tells them to stop on it).  Holds without cancel,
\* requeue and delete calls, and without wait_any's reconcile step.
CompletedIsFinal ==
  [][\A e \in Exps : status[e] = "completed" => status'[e] = "completed"]_vars

\* An experiment goes to running only after what it depends on: finished, and
\* completed where success is asked for.
ParentsFinished ==
  [][\A e \in Exps : status[e] # "running" /\ status'[e] = "running" =>
       \A d \in Deps[e] :
         status[d] \in IF e \in OnSuccess THEN {"completed"}
                      ELSE {"completed", "failed", "cancelled"}]_vars

\* No monitor and no recovery turns a cancelled experiment into a completed
\* or failed one, however late its process dies or its log is read.  (The pass
\* does, when it finds in its snapshot that a dependency is missing.)
MonitorsRespectCancel ==
  [][\A e \in Exps : status[e] = "cancelled" /\ ~ScanFail(e) =>
       status'[e] \notin {"completed", "failed"}]_vars

\* A cancelled experiment runs again only after a client has queued it again.
CancelSticks ==
  [][\A e \in Exps : status[e] = "cancelled" => status'[e] # "running"]_vars

\* Units that are held come back, unless somebody has interfered with their
\* experiment: no run, however long it hangs, keeps them.
UnitsComeBack ==
  \A e \in Exps : allocs[e] # {} ~> allocs[e] = {} \/ e \in disturbed

\* As long as nobody interferes every queued experiment is settled in the end.
QueueDrains ==
  \A e \in Exps : status[e] = "queued" ~>
                 status[e] \in {"completed", "failed", "cancelled"} \/ disturbed # {}

\* The runner implements UnitLease.
Used(e) == UNION {gpus[p] : p \in {q \in Procs : Live(q) /\ owner[q] = e}}

Lease == INSTANCE UnitLease
           WITH granted <- allocs, using <- [e \in Exps |-> Used(e)]

ImplementsLease == Lease!Spec

=============================================================================
