--------------------------- MODULE SlurmInvariant ---------------------------
(* The inductive invariant of Slurm, on which the proofs in SlurmProofs rest.  *)
(* It says why only the last attempt settles a record: what the monitor holds  *)
(* as evidence stays true, because an ended job does not come back; what it     *)
(* pulls with that evidence is the whole output; and what is pulled afterwards, *)
(* until the record is settled, is the same.                                   *)
EXTENDS Slurm

AnyText == [job: Targets \union {NoJob}, gen: Int, part: {"empty", "partial", "whole"}]

\* Types; generations are not bounded here.
Recs    == [status: {"queued", "running"} \union Ended, job: Targets \union {NoJob},
            gen: Nat, result: AnyText]
JobRecs == [state: JobState, gen: Nat]
Remotes == [exists: BOOLEAN, ran: SUBSET Nat, text: AnyText]
MonRecs == [at: Stages, gen: Nat, seen: Nat, evidence: Ended]
Locks   == [by: {"none", "monitor", "route", "progress", "recover"},
            job: Targets \union {NoJob}, gen: Int, step: {"begin", "copied"},
            before: Int, marker: Int, text: AnyText]
PastRecs == [raced: BOOLEAN, orphan: BOOLEAN, recovered: BOOLEAN, crashed: BOOLEAN,
             unsent: BOOLEAN, cancels: Nat]

Shapes ==
    /\ rec \in Recs
    /\ jobs \in [Targets -> JobRecs]
    /\ remote \in [Targets -> Remotes]
    /\ sub \in [at: {"idle", "begun", "staged", "sent"}, on: Targets \union {NoJob}]
    /\ mon \in [Targets -> MonRecs]
    /\ lock \in Locks /\ log \in AnyText
    /\ held \in BOOLEAN /\ tokens \subseteq Targets
    /\ past \in PastRecs

\* What has run, if anything, has a last generation.
HasLast(ran) == \E g \in ran \union {NoGen} : \A h \in ran \union {NoGen} : g >= h

Markers == \A t \in Targets : HasLast(remote[t].ran)

\* Nothing refers to a resource the experiment has not been submitted to.
Directories ==
    \A t \in Targets :
       ~remote[t].exists => jobs[t].state = "none" /\ mon[t].at = "off" /\ rec.job # t

\* While a submission is under way the record does not run, and the job it sends is
\* the first of its resource.
Submission ==
    sub.at # "idle" =>
       /\ sub.on \in Targets /\ rec.status \in {"queued", "cancelled"}
       /\ ~past.raced => held
       /\ sub.at # "begun" \/ ~remote[sub.on].exists =>
             mon[sub.on].at = "off" /\ rec.job # sub.on /\ sub.on \in tokens
       /\ sub.at = "begun" \/ remote[sub.on].exists
       /\ sub.at = "staged" => jobs[sub.on].state = "none"

\* What has run names its job.
Named ==
    rec.status = "running" \/ (rec.status \in {"completed", "failed"} /\ ~past.unsent) =>
       rec.job \in Targets

\* Evidence is true, and stays so.
Evidence ==
    \A t \in Targets : mon[t].at \in {"final", "settle"} =>
       jobs[t].state = mon[t].evidence /\ jobs[t].gen = mon[t].gen

WholeOutput ==
    \A t \in Targets : jobs[t].state = "completed" =>
       remote[t].text = Text(t, jobs[t].gen, "whole")

\* A monitor waits for its pull, and with evidence the pull has the whole output.
Pulling ==
    /\ lock.by \in {"monitor", "route"} => lock.job \in Targets
    /\ lock.by = "monitor" =>
          /\ mon[lock.job].at \in {"live", "final"}
          /\ mon[lock.job].at = "final" /\ mon[lock.job].evidence = "completed"
                /\ lock.step = "copied" =>
                   lock.text = Text(lock.job, mon[lock.job].gen, "whole")

\* From then on the local log is that output, other pulls or not.
Settling ==
    \A t \in Targets :
       mon[t].at = "settle" /\ mon[t].evidence = "completed" /\ StillRuns(t, mon[t].gen) =>
          /\ log = Text(t, mon[t].gen, "whole")
          /\ lock.by # "monitor"
          /\ lock.by = "route" =>
                lock.job = t /\ (lock.step = "copied" => lock.text = log)

\* A monitor that has completed its record only has its slot to give back.
Finishing ==
    \A t \in Targets : mon[t].at \in {"finish", "release"} =>
       rec.status = "completed" /\ Owns(t, mon[t].gen)

\* Whatever lives is the record's job, or about to be.
JobsOwned ==
    ~past.orphan /\ ~past.raced =>
       \A t \in Targets : Live(t) =>
          \/ rec.status = "running" /\ rec.job = t
          \/ sub.at = "sent" /\ sub.on = t

SlurmIInv ==
    /\ Shapes /\ Markers /\ Directories /\ Submission /\ Named /\ RunningIsWatched
    /\ Evidence /\ WholeOutput /\ Pulling /\ Settling /\ Finishing /\ JobsOwned
    /\ EndedBySlurm /\ ResultsOfFinalAttempt /\ SlotFollowsRecord
=============================================================================
