------------------------------- MODULE Slurm -------------------------------
(* One experiment on Slurm resources: its submission (runner.py,              *)
(* _start_slurm; executors/slurm.py, submit), the native requeues of its job,  *)
(* the monitor that follows the job and settles the record, the routes that    *)
(* act on the record meanwhile, and a crash and restart of the server.         *)
(*                                                                            *)
(* Slurm itself, the wrapper script and the remote job directory are the       *)
(* environment, with the parts the server reads.  A submission fails on a job  *)
(* directory that exists and directories are kept, so each resource runs at    *)
(* most one job of the experiment and names it.  A generation counts the       *)
(* requeues of a job.  What a file holds is told apart by the job and          *)
(* generation that wrote it and by how much of it is there.                    *)
EXTENDS Integers, FiniteSets, FiniteSetsExt

CONSTANTS
    Targets,    \* resources of kind "slurm" whose tags fit the experiment
    NoJob,
    MaxGen,     \* bound: requeues, of all jobs
    MaxCancels, \* bound: cancel calls
    OpSets,     \* what happens to the job and the record together in a behaviour
    EndsUnmarked \* may a job end before its wrapper records the generation?

OpNames == {"preempt", "cancel", "start", "pull", "progress", "recover", "crash", "errors",
            "unfit", "requeue"}

ASSUME SlurmAssumption ==
    /\ NoJob \notin Targets /\ {MaxGen, MaxCancels} \subseteq Nat
    /\ OpSets \subseteq SUBSET OpNames /\ OpSets # {}
    /\ EndsUnmarked \in BOOLEAN

VARIABLES
    ops,      \* the interferences of this behaviour
    rec,      \* the experiment's record
    jobs,     \* per resource, the job Slurm has
    remote,   \* per resource, the job directory
    sub,      \* the submission in progress
    mon,      \* per resource, the monitor task of its job
    lock,     \* label_lock and what its holder has in hand
    log,      \* the local script.log
    prog,     \* the local script.progress
    held,     \* is a slot of a resource reserved for the experiment?
    tokens,   \* jobs whose run token is registered
    past      \* what happened that the properties set apart

slurmVars  == <<jobs, remote>>
files      == <<log, prog>>
serverVars == <<rec, sub, mon, lock, log, prog, held, tokens>>
vars       == <<ops, rec, jobs, remote, sub, mon, lock, log, prog, held, tokens, past>>

Gens     == 0..MaxGen
NoGen    == -1
Ended    == {"completed", "failed", "cancelled"}
JobState == {"none", "pending", "booting", "running", "gap"} \union Ended

\* The content of a script.log; part "whole" has the job's last line.
Text(j, g, part) == [job |-> j, gen |-> g, part |-> part]
NoText == Text(NoJob, NoGen, "empty")
Texts  == [job: Targets \union {NoJob}, gen: Gens \union {NoGen},
           part: {"empty", "partial", "whole"}]

Stages == {"off", "sleep", "poll", "learn", "account", "advance",
           "live", "synth", "final", "settle", "finish", "release"}
Off == [at |-> "off", gen |-> 0, seen |-> 0, evidence |-> "failed"]

Asleep == [Off EXCEPT !.at = "sleep"]

Free == [by |-> "none", job |-> NoJob, gen |-> 0, step |-> "begin",
         before |-> NoGen, marker |-> NoGen, text |-> NoText]

TypeOK ==
    /\ ops \in OpSets
    /\ rec \in [status: {"queued", "running"} \union Ended,
                job: Targets \union {NoJob}, gen: Gens, result: Texts]
    /\ jobs \in [Targets -> [state: JobState, gen: Gens]]
    /\ remote \in [Targets -> [exists: BOOLEAN, ran: SUBSET Gens, text: Texts]]
    /\ sub \in [at: {"idle", "begun", "staged", "sent"}, on: Targets \union {NoJob}]
    /\ mon \in [Targets -> [at: Stages, gen: Gens, seen: Gens, evidence: Ended]]
    /\ lock \in [by: {"none", "monitor", "route", "progress", "recover"},
                 job: Targets \union {NoJob}, gen: Gens, step: {"begin", "copied"},
                 before: Gens \union {NoGen}, marker: Gens \union {NoGen}, text: Texts]
    /\ log \in Texts /\ prog \in Texts
    /\ held \in BOOLEAN /\ tokens \subseteq Targets
    /\ past \in [raced: BOOLEAN, orphan: BOOLEAN, recovered: BOOLEAN, crashed: BOOLEAN,
                unsent: BOOLEAN, cancels: 0..MaxCancels]

Init ==
    /\ ops \in OpSets
    /\ rec = [status |-> "queued", job |-> NoJob, gen |-> 0, result |-> NoText]
    /\ jobs = [t \in Targets |-> [state |-> "none", gen |-> 0]]
    /\ remote = [t \in Targets |-> [exists |-> FALSE, ran |-> {}, text |-> NoText]]
    /\ sub = [at |-> "idle", on |-> NoJob]
    /\ mon = [t \in Targets |-> Off]
    /\ lock = Free /\ log = NoText /\ prog = NoText
    /\ held = FALSE /\ tokens = {}
    /\ past = [raced |-> FALSE, orphan |-> FALSE, recovered |-> FALSE, crashed |-> FALSE,
             unsent |-> FALSE, cancels |-> 0]

\* .the_lab_generation: the last attempt whose wrapper came to write it.
Marker(t) == Max(remote[t].ran \union {NoGen})

Live(t) == jobs[t].state \in {"pending", "booting", "running", "gap"}

\* _slurm_owner
Owns(t, g) == rec.job = t /\ rec.gen = g

\* update_experiment_if(expected_status="running", job, generation)
StillRuns(t, g) == rec.status = "running" /\ Owns(t, g)

-----------------------------------------------------------------------------
(* Submission, by the scheduler.                                              *)

\* Resources are alike, so First may be the one that is taken first; another one
\* has room when the experiment is started again.
First == CHOOSE t \in Targets : TRUE

Fits(t) == t = First \/ (remote[First].exists /\ "start" \in ops)

\* _dispatch_once reserves a slot, _start_slurm registers a run token.
SubmitBegin(t) ==
    /\ rec.status = "queued" /\ sub.at = "idle" /\ ~held
    /\ Fits(t)
    /\ sub' = [at |-> "begun", on |-> t]
    /\ held' = TRUE /\ tokens' = tokens \union {t}
    /\ UNCHANGED <<ops, rec, slurmVars, mon, lock, files, past>>

\* The script is missing, or the commit is not the one the record expects: the
\* record fails before there is a job, and the slot is given back at once.
SubmitUnfit ==
    /\ "unfit" \in ops /\ rec.status = "queued" /\ sub.at = "idle" /\ ~held
    /\ rec' = [rec EXCEPT !.status = "failed"]
    /\ past' = [past EXCEPT !.unsent = TRUE]
    /\ UNCHANGED <<ops, slurmVars, sub, mon, lock, files, held, tokens>>

\* Faulty: the slot stays reserved.
GiveUpKeeping ==
    /\ sub' = [at |-> "idle", on |-> NoJob]
    /\ tokens' = tokens \ {sub.on}
    /\ UNCHANGED held

\* An exception in submit: the token goes, and the slot; the record stays queued.
GiveUp ==
    /\ sub' = [at |-> "idle", on |-> NoJob]
    /\ tokens' = tokens \ {sub.on}
    /\ held' = FALSE

\* The job directory is made; one that exists already is an error.
SubmitDirectory ==
    /\ sub.at = "begun" /\ ~remote[sub.on].exists
    /\ sub' = [sub EXCEPT !.at = "staged"]
    /\ remote' = [remote EXCEPT ![sub.on].exists = TRUE]
    /\ UNCHANGED <<ops, rec, jobs, mon, lock, files, held, tokens, past>>

SubmitRefused ==
    /\ sub.at = "begun" /\ remote[sub.on].exists
    /\ GiveUp
    /\ UNCHANGED <<ops, rec, slurmVars, mon, lock, files, past>>

\* Staging fails: the directory is there and the job is not.
SubmitFails ==
    /\ "errors" \in ops /\ sub.at = "staged"
    /\ GiveUp
    /\ UNCHANGED <<ops, rec, slurmVars, mon, lock, files, past>>

\* sbatch takes the job.
SubmitSend ==
    /\ sub.at = "staged"
    /\ sub' = [sub EXCEPT !.at = "sent"]
    /\ jobs' = [jobs EXCEPT ![sub.on].state = "pending"]
    /\ UNCHANGED <<ops, rec, remote, mon, lock, files, held, tokens, past>>

\* Its answer is lost: a job nobody knows of.
SubmitLost ==
    /\ "errors" \in ops /\ sub.at = "sent"
    /\ GiveUp
    /\ past' = [past EXCEPT !.orphan = TRUE]
    /\ UNCHANGED <<ops, rec, slurmVars, mon, lock, files>>

\* The record is written whatever became of it meanwhile, and watched.
SubmitRecord ==
    /\ sub.at = "sent"
    /\ rec' = [rec EXCEPT !.status = "running", !.job = sub.on, !.gen = 0]
    /\ mon' = [mon EXCEPT ![sub.on] = Asleep]
    /\ sub' = [at |-> "idle", on |-> NoJob]
    /\ past' = [past EXCEPT !.unsent = FALSE]
    /\ UNCHANGED <<ops, slurmVars, lock, files, held, tokens>>

-----------------------------------------------------------------------------
(* Slurm and the wrapper on the compute node.                                 *)

JobMoves(t, s) == jobs' = [jobs EXCEPT ![t].state = s]

\* The wrapper starts; what an earlier attempt left is archived and the log is
\* truncated before the new generation is recorded.
JobBoot(t) ==
    /\ jobs[t].state = "pending" /\ JobMoves(t, "booting")
    /\ remote' = [remote EXCEPT ![t].text = Text(t, jobs[t].gen, "empty")]
    /\ UNCHANGED <<ops, serverVars, past>>

JobMark(t) ==
    /\ jobs[t].state = "booting" /\ JobMoves(t, "running")
    /\ remote' = [remote EXCEPT ![t].ran = @ \union {jobs[t].gen},
                                ![t].text = Text(t, jobs[t].gen, "partial")]
    /\ UNCHANGED <<ops, serverVars, past>>

Requeues == MapThenSumSet(LAMBDA t : jobs[t].gen, Targets)

JobPreempted(t) ==
    /\ "preempt" \in ops
    /\ jobs[t].state \in {"booting", "running"} /\ Requeues < MaxGen
    /\ JobMoves(t, "gap")
    /\ UNCHANGED <<ops, remote, serverVars, past>>

JobRequeued(t) ==
    /\ jobs[t].state = "gap"
    /\ jobs' = [jobs EXCEPT ![t] = [state |-> "pending", gen |-> @.gen + 1]]
    /\ UNCHANGED <<ops, remote, serverVars, past>>

\* By itself, or cut short (cancelled stands for every such state).
JobEnds(t, how) ==
    /\ jobs[t].state = "running" /\ JobMoves(t, how)
    /\ remote' = [remote EXCEPT ![t].text =
                    IF how = "cancelled" THEN @ ELSE Text(t, jobs[t].gen, "whole")]
    /\ UNCHANGED <<ops, serverVars, past>>

\* Ended from outside before it ran, or before its wrapper got that far.
JobEndsEarly(t) ==
    /\ jobs[t].state \in {"pending", "booting"}
    /\ EndsUnmarked \/ Marker(t) = NoGen
    /\ JobMoves(t, "cancelled")
    /\ UNCHANGED <<ops, remote, serverVars, past>>

\* A job's row in accounting may be missing or lag behind.
Row(state, g) == [state |-> state, gen |-> g]

TrueRow(t) ==
    Row(IF Live(t) /\ jobs[t].state # "gap" THEN "active" ELSE jobs[t].state, jobs[t].gen)

Rows(t) ==
    {Row("none", 0), Row("active", jobs[t].gen), TrueRow(t)}
      \union {Row(s, g) : s \in {"active", "gap"}, g \in 0..jobs[t].gen - 1}

-----------------------------------------------------------------------------
(* What holds label_lock: a pull, a progress write, a recovery.               *)

Holding(by, j, g) ==
    [by |-> by, job |-> j, gen |-> g, step |-> "begin", marker |-> NoGen, text |-> NoText,
     before |-> IF by \in {"monitor", "route"} THEN Marker(j) ELSE NoGen]

\* pull_results reads the generation, copies aside, and reads it again.
PullCopy ==
    /\ lock.by \in {"monitor", "route"} /\ lock.step = "begin"
    /\ lock' = [lock EXCEPT !.step = "copied", !.marker = Marker(lock.job),
                            !.text = remote[lock.job].text]
    /\ UNCHANGED <<ops, slurmVars, rec, sub, mon, files, held, tokens, past>>

\* One generation before, in and after the copy.
Verified ==
    /\ lock.marker = lock.before
    /\ Marker(lock.job) = lock.marker

\* What is verified replaces the local files.  Progress that is no longer there
\* is removed, a log that is not there is left alone.
Publish ==
    /\ log' = IF Verified /\ lock.text # NoText THEN lock.text ELSE log
    /\ prog' = IF ~Verified THEN prog
               ELSE IF lock.text.part = "empty" THEN NoText
               ELSE [lock.text EXCEPT !.part = "partial"]
    /\ lock' = Free

-----------------------------------------------------------------------------
(* The monitor of a job (_monitor_slurm_job).                                 *)

MonAt(t, s) == mon' = [mon EXCEPT ![t] = IF s = "sleep" THEN Asleep ELSE [@ EXCEPT !.at = s]]
Again(t) == MonAt(t, "sleep") /\ UNCHANGED <<rec, lock, files, held, tokens>>
Answered(t) == UNCHANGED <<ops, slurmVars, sub, past>>

\* The task ends and takes the job's token with it.
MonStops(t) == mon' = [mon EXCEPT ![t] = Off] /\ tokens' = tokens \ {t}

\* After its sleep: a monitor of a job that is no longer the record's, or whose
\* record no longer runs, stops; otherwise it remembers the generation.
MonWake(t) ==
    /\ mon[t].at = "sleep" /\ rec.job = t /\ rec.status = "running"
    /\ mon' = [mon EXCEPT ![t].at = "poll", ![t].gen = rec.gen]
    /\ UNCHANGED <<rec, lock, files, held, tokens>> /\ Answered(t)

MonDismissed(t) ==
    /\ mon[t].at = "sleep" /\ (rec.job # t \/ rec.status # "running")
    /\ MonStops(t)
    /\ UNCHANGED <<rec, lock, files, held>> /\ Answered(t)

\* Faulty: any generation but the one remembered, none at all included.
NewerMarkerAny(t) == Marker(t) # mon[t].gen

NewerMarker(t) == Marker(t) > mon[t].gen

\* squeue, then the generation the wrapper has recorded.
MonPollLive(t) ==
    /\ mon[t].at = "poll" /\ jobs[t].state \in {"pending", "booting", "running"}
    /\ IF NewerMarker(t)
       THEN mon' = [mon EXCEPT ![t].at = "learn", ![t].seen = Marker(t)]
       ELSE MonAt(t, "live")
    /\ UNCHANGED <<rec, lock, files, held, tokens>> /\ Answered(t)

\* Faulty: a preempted run goes back to the queue.
MonPollGapQueues(t) ==
    /\ mon[t].at = "poll" /\ jobs[t].state = "gap"
    /\ rec' = [rec EXCEPT !.status = "queued"] /\ held' = FALSE /\ MonStops(t)
    /\ UNCHANGED <<lock, files>> /\ Answered(t)

\* squeue reports a preemption: the record waits.
MonPollGap(t) ==
    /\ mon[t].at = "poll" /\ jobs[t].state = "gap"
    /\ Again(t) /\ Answered(t)

\* squeue has no row or an ended one: accounting has to tell.
MonPollGone(t) ==
    /\ mon[t].at = "poll" /\ jobs[t].state \in {"gap"} \union Ended
    /\ MonAt(t, "account")
    /\ UNCHANGED <<rec, lock, files, held, tokens>> /\ Answered(t)

\* squeue, sacct or rsync fails.
MonError(t) ==
    /\ "errors" \in ops /\ mon[t].at \in {"poll", "account"}
    /\ Again(t) /\ Answered(t)

\* Faulty: a job that accounting does not know is taken for ended.
JudgeHasty(m, row) ==
    IF row.state \in Ended THEN [m EXCEPT !.at = "final", !.evidence = row.state]
    ELSE IF row.state = "none" THEN [m EXCEPT !.at = "final"]
    ELSE Asleep

\* Faulty: only evidence of the generation remembered is looked at.
JudgeSame(m, row) ==
    IF row.state \in Ended /\ row.gen = m.gen
    THEN [m EXCEPT !.at = "final", !.evidence = row.state]
    ELSE Asleep

\* sacct: nothing, an older attempt or one that has not ended is no evidence; a
\* newer attempt is learned first.
Judge(m, row) ==
    IF row.state = "none" \/ row.gen < m.gen THEN Asleep
    ELSE IF row.gen > m.gen THEN [m EXCEPT !.at = "advance", !.seen = row.gen]
    ELSE IF row.state \in Ended
    THEN [m EXCEPT !.at = "final", !.evidence = row.state]
    ELSE Asleep

MonAccount(t) ==
    /\ mon[t].at = "account"
    /\ \E row \in Rows(t) : mon' = [mon EXCEPT ![t] = Judge(@, row)]
    /\ UNCHANGED <<rec, lock, files, held, tokens>> /\ Answered(t)

\* A newer generation is stored, if the record is still what was read.
MonLearn(t) ==
    /\ mon[t].at \in {"learn", "advance"} /\ lock = Free
    /\ LET stored == StillRuns(t, mon[t].gen)
           next == IF stored /\ mon[t].at = "learn" THEN "live" ELSE "sleep"
       IN /\ rec' = IF stored THEN [rec EXCEPT !.gen = mon[t].seen] ELSE rec
          /\ mon' = [mon EXCEPT ![t] = IF next = "sleep" THEN Asleep
                                       ELSE [@ EXCEPT !.at = next, !.gen = mon[t].seen, !.seen = 0]]
    /\ UNCHANGED <<lock, files, held, tokens>> /\ Answered(t)

\* _pull_slurm_owned, with or without evidence that the job has ended.
MonPull(t) ==
    /\ mon[t].at \in {"live", "final"} /\ lock = Free
    /\ IF StillRuns(t, mon[t].gen)
       THEN lock' = Holding("monitor", t, mon[t].gen) /\ UNCHANGED mon
       ELSE MonAt(t, "sleep") /\ UNCHANGED lock
    /\ UNCHANGED <<rec, files, held, tokens>> /\ Answered(t)

\* The pull is over: only the monitor's own generation is of use to it.
MonPulled(t) ==
    /\ lock.by = "monitor" /\ lock.job = t /\ lock.step = "copied"
    /\ Publish
    /\ LET good == /\ Verified /\ StillRuns(t, mon[t].gen)
                   /\ lock.before \in {NoGen, mon[t].gen}
           next == IF mon[t].at = "final" THEN "settle" ELSE "synth"
       IN MonAt(t, IF good THEN next ELSE "sleep")
    /\ UNCHANGED <<rec, held, tokens>> /\ Answered(t)

\* After a live pull, progress is read off the log.
MonSynth(t) ==
    /\ mon[t].at = "synth" /\ lock = Free
    /\ prog' = IF Owns(t, mon[t].gen) /\ log.part # "empty"
             THEN [log EXCEPT !.part = "partial"] ELSE prog
    /\ MonAt(t, "sleep")
    /\ UNCHANGED <<rec, lock, log, held, tokens>> /\ Answered(t)

\* The job ended otherwise than well: the record fails and the slot is free.
MonFail(t) ==
    /\ mon[t].at = "settle" /\ mon[t].evidence # "completed"
    /\ IF StillRuns(t, mon[t].gen)
       THEN /\ rec' = [rec EXCEPT !.status = "failed", !.result = log]
            /\ held' = FALSE /\ MonStops(t)
       ELSE MonAt(t, "sleep") /\ UNCHANGED <<rec, held, tokens>>
    /\ UNCHANGED <<lock, files>> /\ Answered(t)

\* Faulty: the record is completed without regard to what became of it.
MonCompleteAnyway(t) ==
    /\ mon[t].at = "settle" /\ mon[t].evidence = "completed"
    /\ rec' = [rec EXCEPT !.status = "completed", !.result = log]
    /\ MonAt(t, "finish")
    /\ UNCHANGED <<lock, files, held, tokens>> /\ Answered(t)

MonComplete(t) ==
    /\ mon[t].at = "settle" /\ mon[t].evidence = "completed"
    /\ IF StillRuns(t, mon[t].gen)
       THEN /\ rec' = [rec EXCEPT !.status = "completed", !.result = log]
            /\ MonAt(t, "finish")
       ELSE MonAt(t, "sleep") /\ UNCHANGED rec
    /\ UNCHANGED <<lock, files, held, tokens>> /\ Answered(t)

\* A log without a result settles the record at once: it fails if it looks fatal.
MonNoResult(t) ==
    /\ mon[t].at = "settle" /\ mon[t].evidence = "completed" /\ StillRuns(t, mon[t].gen)
    /\ \E s \in {"completed", "failed"} : rec' = [rec EXCEPT !.status = s, !.result = log]
    /\ held' = FALSE /\ MonStops(t)
    /\ UNCHANGED <<lock, files>> /\ Answered(t)

\* The last word on progress; then the log loses its result line.
MonFinish(t) ==
    /\ mon[t].at = "finish" /\ lock = Free
    /\ IF Owns(t, mon[t].gen)
       THEN prog' = Text(t, mon[t].gen, "whole") /\ MonAt(t, "release")
       ELSE MonAt(t, "sleep") /\ UNCHANGED prog
    /\ UNCHANGED <<rec, lock, log, held, tokens>> /\ Answered(t)

MonRelease(t) ==
    /\ mon[t].at = "release"
    /\ MonStops(t) /\ held' = (IF Owns(t, mon[t].gen) THEN FALSE ELSE held)
    /\ UNCHANGED <<rec, lock, files>> /\ Answered(t)

-----------------------------------------------------------------------------
(* Calls on the experiment.                                                   *)

\* POST /start queues what failed or was cancelled; the record keeps its job.
Start ==
    /\ "start" \in ops /\ rec.status \in {"failed", "cancelled"}
    /\ rec' = [rec EXCEPT !.status = "queued"]
    /\ UNCHANGED <<ops, slurmVars, sub, mon, lock, files, held, tokens, past>>

\* POST /requeue, by an old wrapper or a client, is acknowledged and no more once the
\* record has had a job.
Requeue ==
    /\ "requeue" \in ops /\ lock = Free
    /\ rec.job = NoJob /\ rec.status \in {"running", "failed"}
    /\ rec' = [rec EXCEPT !.status = "queued"]
    /\ UNCHANGED <<ops, slurmVars, sub, mon, lock, files, held, tokens, past>>

\* The slot is released first, whatever the status; scancel may fail unnoticed.
Cancel(reaches) ==
    /\ "cancel" \in ops /\ past.cancels < MaxCancels /\ (reaches \/ "errors" \in ops)
    /\ held' = FALSE
    /\ rec' = IF rec.status \in {"queued", "running"}
              THEN [rec EXCEPT !.status = "cancelled"] ELSE rec
    /\ LET t == rec.job
           scancelled == rec.status = "running" /\ Live(t)
       IN /\ jobs' = IF scancelled /\ reaches
                     THEN [jobs EXCEPT ![t].state = "cancelled"] ELSE jobs
          /\ past' = [past EXCEPT !.cancels = @ + 1,
                                  !.raced = @ \/ sub.at # "idle",
                                  !.orphan = @ \/ (scancelled /\ ~reaches)]
    /\ UNCHANGED <<ops, remote, sub, mon, lock, files, tokens>>

\* POST /pull, by the wrapper or a client: the record need only be running.
PullRequest ==
    /\ "pull" \in ops /\ lock = Free /\ rec.status = "running"
    /\ lock' = Holding("route", rec.job, rec.gen)
    /\ UNCHANGED <<ops, slurmVars, rec, sub, mon, files, held, tokens, past>>

PullRequestEnd ==
    /\ lock.by = "route" /\ lock.step = "copied"
    /\ Publish
    /\ UNCHANGED <<ops, slurmVars, rec, sub, mon, held, tokens, past>>

\* POST /progress with the token of job t, from the watcher of attempt g, which
\* may have died meanwhile; the file is written off the loop.
Progress(t, g) ==
    /\ "progress" \in ops /\ lock = Free /\ t \in tokens
    /\ g \in remote[t].ran /\ StillRuns(t, g)
    /\ lock' = Holding("progress", t, g)
    /\ UNCHANGED <<ops, slurmVars, rec, sub, mon, files, held, tokens, past>>

ProgressWritten ==
    /\ lock.by = "progress"
    /\ prog' = Text(lock.job, lock.gen, "partial") /\ lock' = Free
    /\ UNCHANGED <<ops, slurmVars, rec, sub, mon, log, held, tokens, past>>

\* POST /recover-...-completion reads the log of a failed run for evidence that
\* it spent its budget and completes the record if it is still what was read.
Recover ==
    /\ "recover" \in ops /\ lock = Free
    /\ rec.status = "failed" /\ log.part = "whole"
    /\ lock' = [Holding("recover", rec.job, rec.gen) EXCEPT !.text = log]
    /\ UNCHANGED <<ops, slurmVars, rec, sub, mon, files, held, tokens, past>>

Recovered ==
    /\ lock.by = "recover" /\ lock' = Free
    /\ LET still == rec.status = "failed" /\ Owns(lock.job, lock.gen)
       IN /\ rec' = IF still THEN [rec EXCEPT !.status = "completed", !.result = lock.text]
                    ELSE rec
          /\ past' = [past EXCEPT !.recovered = @ \/ still]
    /\ UNCHANGED <<ops, slurmVars, sub, mon, files, held, tokens>>

-----------------------------------------------------------------------------
(* A crash of the server, and its next start.                                 *)

\* reattach_running: the record tells which job to watch.
Adopted == IF rec.status = "running" THEN {rec.job} ELSE {}

\* Faulty: the new process knows no token.
AdoptedTokensNone == {}

AdoptedTokens == Adopted

Crash ==
    /\ "crash" \in ops /\ ~past.crashed
    /\ mon' = [t \in Targets |-> IF t \in Adopted THEN Asleep ELSE Off]
    /\ tokens' = AdoptedTokens /\ held' = (Adopted # {})
    /\ sub' = [at |-> "idle", on |-> NoJob] /\ lock' = Free
    /\ past' = [past EXCEPT !.crashed = TRUE, !.orphan = @ \/ sub.at = "sent"]
    /\ UNCHANGED <<ops, rec, slurmVars, files>>

-----------------------------------------------------------------------------
Submitting ==
    \/ \E t \in Targets : SubmitBegin(t)
    \/ SubmitUnfit \/ SubmitDirectory \/ SubmitRefused \/ SubmitFails
    \/ SubmitSend \/ SubmitLost \/ SubmitRecord

JobRuns(t) ==
    \/ JobBoot(t) \/ JobMark(t) \/ JobPreempted(t) \/ JobRequeued(t)
    \/ \E how \in Ended : JobEnds(t, how)
    \/ JobEndsEarly(t)

Monitor(t) ==
    \/ MonWake(t) \/ MonDismissed(t)
    \/ MonPollLive(t) \/ MonPollGap(t) \/ MonPollGone(t) \/ MonError(t)
    \/ MonAccount(t) \/ MonLearn(t)
    \/ MonPull(t) \/ MonPulled(t) \/ MonSynth(t)
    \/ MonFail(t) \/ MonComplete(t) \/ MonNoResult(t) \/ MonFinish(t) \/ MonRelease(t)

Call ==
    \/ Start \/ Requeue \/ (\E reaches \in BOOLEAN : Cancel(reaches))
    \/ PullRequest \/ PullRequestEnd
    \/ (\E t \in Targets, g \in Gens : Progress(t, g)) \/ ProgressWritten
    \/ Recover \/ Recovered

Next ==
    \/ Submitting
    \/ \E t \in Targets : JobRuns(t) \/ Monitor(t)
    \/ PullCopy \/ Call \/ Crash

Spec == Init /\ [][Next]_vars

\* The job goes on and the monitor's task is scheduled; its queries are sooner or
\* later answered with the job's present state, and the lock is handed out in the
\* order it was asked for.
JobProgress(t) ==
    \/ JobBoot(t) \/ JobMark(t) \/ JobRequeued(t)
    \/ \E how \in Ended : JobEnds(t, how)

\* Accounting has caught up.
MonAccountTrue(t) ==
    /\ mon[t].at = "account"
    /\ mon' = [mon EXCEPT ![t] = Judge(@, TrueRow(t))]
    /\ UNCHANGED <<rec, lock, files, held, tokens>> /\ Answered(t)

MonLocks(t) == MonLearn(t) \/ MonPull(t) \/ MonSynth(t) \/ MonFinish(t)
LockHolder  == PullCopy \/ PullRequestEnd \/ ProgressWritten \/ Recovered

Fairness ==
    /\ \A t \in Targets :
          /\ WF_vars(JobProgress(t)) /\ WF_vars(Monitor(t))
          /\ SF_vars(MonPollGone(t)) /\ SF_vars(MonAccountTrue(t)) /\ SF_vars(MonLocks(t))
    /\ WF_vars(LockHolder)

FairSpec == Spec /\ Fairness

-----------------------------------------------------------------------------
(* Properties.                                                                *)

OwnResults == rec.result = Text(rec.job, rec.gen, "whole")

\* The monitor completes a record with the whole output of the last attempt of
\* the job it names, never with that of an attempt before a requeue, of an earlier
\* job or of a pull that was under way when the job ended.
ResultsOfFinalAttempt ==
    rec.status = "completed" /\ ~past.recovered => OwnResults

\* Slurm ended the job of a record that was submitted and has completed or failed,
\* in the generation the record has.
EndedBySlurm ==
    rec.status \in {"completed", "failed"} /\ ~past.unsent =>
       /\ jobs[rec.job].state \in Ended /\ jobs[rec.job].gen = rec.gen
       /\ rec.status = "completed" /\ ~past.recovered => jobs[rec.job].state = "completed"

\* No gap in squeue, lagging accounting or failed query ends a run; and when a record
\* has failed for want of its script or of the expected commit, before it was
\* submitted, no job of an earlier submission goes on behind it; set apart are the
\* jobs that OneJob sets apart.
NeverEndedEarly ==
    /\ EndedBySlurm
    /\ rec.status = "failed" /\ past.unsent /\ ~past.orphan /\ ~past.raced =>
          \A t \in Targets : ~Live(t)

\* The slot is kept while the record runs, preemptions and restarts of the server
\* included, and comes back once nobody has anything left to do for the record.
SlotFollowsRecord ==
    ~past.raced =>
       /\ rec.status = "running" => held
       /\ held => \/ rec.status = "running" \/ sub.at # "idle"
                  \/ \E t \in Targets : mon[t].at \in {"finish", "release"}

\* Whoever runs has a monitor for its job, and the calls of its wrapper pass.
RunningIsWatched ==
    rec.status = "running" => mon[rec.job].at # "off" /\ rec.job \in tokens

\* The Lab has one job at a time for the experiment: a preempted one is never
\* submitted again beside itself.  Set apart are jobs nobody knows of: sbatch's or
\* scancel's answer was lost (orphan), or the record was cancelled while it was being
\* submitted (raced).
OneJob ==
    ~past.orphan /\ ~past.raced => Cardinality({t \in Targets : Live(t)}) <= 1

\* Once the server stays up and calls are answered, a running record settles.
SlurmSettles == rec.status = "running" ~> rec.status # "running"
=============================================================================
