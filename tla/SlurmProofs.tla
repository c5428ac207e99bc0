---------------------------- MODULE SlurmProofs ----------------------------
(* Proofs about Slurm, for any resources, number of requeues and cancels, and  *)
(* choice of interferences: only the last attempt of its job settles a record. *)
EXTENDS SlurmInvariant, TLAPS, FiniteSetTheorems

LEMMA TextsAreTexts ==
    /\ NoText \in AnyText
    /\ \A t \in Targets, g \in Nat, part \in {"empty", "partial", "whole"} :
          Text(t, g, part) \in AnyText
BY DEF NoText, Text, AnyText, NoGen

LEMMA FreeIsFree ==
    /\ Free \in Locks /\ Free.by = "none"
    /\ Off \in MonRecs /\ Off.at = "off"
    /\ Asleep \in MonRecs /\ Asleep.at = "sleep"
BY TextsAreTexts DEF Free, Locks, NoGen, Off, Asleep, MonRecs, Stages, Ended

\* The last generation recorded is one that has run, if any has.
LEMMA MarkerRan ==
    ASSUME Shapes, Markers, NEW t \in Targets
    PROVE  /\ Marker(t) \in Int
           /\ \A g \in Nat : Marker(t) > g => Marker(t) \in Nat
<1> DEFINE S == remote[t].ran \union {NoGen}
<1>1. S \subseteq Nat \union {NoGen}
  BY DEF Shapes, Remotes
<1>2. PICK g \in S : \A h \in S : g >= h
  BY DEF Markers, HasLast
<1>3. Marker(t) \in S
  BY <1>2 DEF Marker, Max
<1> QED
  BY <1>1, <1>3 DEF NoGen

LEMMA SlurmInitSound == Init => SlurmIInv
<1> SUFFICES ASSUME Init PROVE SlurmIInv
  OBVIOUS
<1> USE DEF Init
<1>1. Shapes
  BY SlurmAssumption, TextsAreTexts, FreeIsFree
     DEF Shapes, PastRecs, Recs, JobRecs, JobState, Remotes
<1>2. Markers
  <2>1. \A t \in Targets : remote[t].ran = {}
    OBVIOUS
  <2>2. NoGen >= NoGen
    BY DEF NoGen
  <2> QED
    BY <2>1, <2>2 DEF Markers, HasLast
<1>3. Directories /\ Submission /\ Named /\ RunningIsWatched
  BY SlurmAssumption, FreeIsFree DEF Directories, Submission, Named, RunningIsWatched
<1>4. Evidence /\ WholeOutput /\ Pulling /\ Settling /\ Finishing
  BY FreeIsFree DEF Evidence, WholeOutput, Pulling, Settling, Finishing, StillRuns
<1>5. JobsOwned /\ EndedBySlurm /\ ResultsOfFinalAttempt /\ SlotFollowsRecord
  BY DEF JobsOwned, Live, EndedBySlurm, ResultsOfFinalAttempt, SlotFollowsRecord
<1> QED
  BY <1>1, <1>2, <1>3, <1>4, <1>5 DEF SlurmIInv

-----------------------------------------------------------------------------
(* Submission.                                                                *)

LEMMA SubmitBeginSound ==
    ASSUME SlurmIInv, NEW t \in Targets, SubmitBegin(t)
    PROVE  SlurmIInv'
<1> USE DEF SlurmIInv, SubmitBegin, slurmVars, files
<1>1. Shapes'
  BY DEF Shapes
<1>2. Submission'
  BY DEF Submission, Directories
<1>3. RunningIsWatched' /\ JobsOwned' /\ SlotFollowsRecord'
  BY DEF RunningIsWatched, JobsOwned, Live, SlotFollowsRecord
<1>4. Markers' /\ Directories' /\ Named' /\ Evidence' /\ WholeOutput'
  BY DEF Markers, Directories, Named, Evidence, WholeOutput
<1>5. Pulling' /\ Settling' /\ Finishing' /\ EndedBySlurm' /\ ResultsOfFinalAttempt'
  BY DEF Pulling, Settling, StillRuns, Owns, Finishing, EndedBySlurm,
         ResultsOfFinalAttempt, OwnResults
<1> QED
  BY <1>1, <1>2, <1>3, <1>4, <1>5

LEMMA SubmitDirectorySound ==
    ASSUME SlurmIInv, SubmitDirectory
    PROVE  SlurmIInv'
<1> USE DEF SlurmIInv, SubmitDirectory
<1>1. /\ sub.on \in Targets /\ sub'.at = "staged" /\ sub'.on = sub.on
      /\ sub' \in [at: {"idle", "begun", "staged", "sent"}, on: Targets \union {NoJob}]
  BY DEF Submission, Shapes
<1>2. /\ remote' \in [Targets -> Remotes] /\ remote'[sub.on].exists
      /\ \A t \in Targets : /\ remote'[t].ran = remote[t].ran /\ remote'[t].text = remote[t].text
                            /\ remote[t].exists => remote'[t].exists
  <2>1. \A t \in Targets : t # sub.on => remote'[t] = remote[t]
    BY <1>1 DEF Shapes
  <2>2. remote'[sub.on] = [remote[sub.on] EXCEPT !.exists = TRUE]
    BY <1>1 DEF Shapes
  <2>3. /\ remote'[sub.on] \in Remotes /\ remote'[sub.on].exists
        /\ remote'[sub.on].ran = remote[sub.on].ran
        /\ remote'[sub.on].text = remote[sub.on].text
    <3>1. \A r \in Remotes : /\ [r EXCEPT !.exists = TRUE] \in Remotes
                            /\ [r EXCEPT !.exists = TRUE].exists
                            /\ [r EXCEPT !.exists = TRUE].ran = r.ran
                            /\ [r EXCEPT !.exists = TRUE].text = r.text
      BY DEF Remotes
    <3>2. remote[sub.on] \in Remotes
      BY <1>1 DEF Shapes
    <3> QED
      BY ONLY <3>1, <3>2, <2>2
  <2> QED
    BY <2>1, <2>3 DEF Shapes
<1>3. Shapes'
  <2>1. Shapes /\ UNCHANGED <<rec, jobs, mon, lock, log, prog, held, tokens, past>>
    BY DEF files
  <2> QED
    BY ONLY <2>1, <1>1, <1>2 DEF Shapes
<1>4. Markers'
  BY <1>2 DEF Markers
<1>5. Directories'
  BY <1>2 DEF Directories
<1>6. Submission'
  BY <1>1, <1>2 DEF Submission, Directories
<1>7. WholeOutput'
  BY <1>2 DEF WholeOutput
<1>8. JobsOwned' /\ SlotFollowsRecord'
  BY <1>1 DEF JobsOwned, Live, SlotFollowsRecord
<1>9. Named' /\ RunningIsWatched' /\ Evidence' /\ EndedBySlurm' /\ ResultsOfFinalAttempt'
  BY DEF Named, RunningIsWatched, Evidence, EndedBySlurm, ResultsOfFinalAttempt, OwnResults
<1>10. Pulling' /\ Settling' /\ Finishing'
  BY DEF files, Pulling, Settling, StillRuns, Owns, Finishing
<1> QED
  BY <1>3, <1>4, <1>5, <1>6, <1>7, <1>8, <1>9, <1>10

\* A record that fails before it is submitted had no job that runs.
LEMMA SubmitUnfitSound ==
    ASSUME SlurmIInv, SubmitUnfit
    PROVE  SlurmIInv'
<1> USE DEF SlurmIInv, SubmitUnfit, slurmVars, files
<1>1. /\ rec' \in Recs /\ rec'.status = "failed" /\ rec'.job = rec.job
      /\ rec'.gen = rec.gen /\ rec'.result = rec.result /\ rec.status = "queued"
  BY DEF Shapes, Recs, Ended
<1>2. /\ past' \in PastRecs
      /\ past'.unsent /\ past'.raced = past.raced /\ past'.orphan = past.orphan
      /\ past'.recovered = past.recovered
  BY DEF Shapes, PastRecs
<1>3. Shapes'
  BY <1>1, <1>2 DEF Shapes
<1>4. Directories' /\ Submission' /\ Named' /\ RunningIsWatched'
  BY <1>1, <1>2 DEF Directories, Submission, Named, RunningIsWatched
<1>5. Settling' /\ Finishing'
  BY <1>1 DEF Settling, StillRuns, Finishing
<1>6. JobsOwned' /\ SlotFollowsRecord'
  BY <1>1, <1>2 DEF JobsOwned, Live, SlotFollowsRecord
<1>7. EndedBySlurm' /\ ResultsOfFinalAttempt'
  BY <1>1, <1>2 DEF EndedBySlurm, ResultsOfFinalAttempt
<1>8. Markers' /\ Evidence' /\ WholeOutput' /\ Pulling'
  BY DEF Markers, Evidence, WholeOutput, Pulling
<1> QED
  BY <1>3, <1>4, <1>5, <1>6, <1>7, <1>8

\* A submission that ends without a record; a job it has sent is lost.
LEMMA GiveUpSound ==
    ASSUME SlurmIInv, GiveUp, sub.at # "idle",
           past' = past \/ past' = [past EXCEPT !.orphan = TRUE],
           sub.at = "sent" => past'.orphan,
           UNCHANGED <<rec, slurmVars, mon, lock, files>>
    PROVE  SlurmIInv'
<1> USE DEF SlurmIInv, GiveUp, slurmVars, files
<1>1. /\ rec.status \in {"queued", "cancelled"} /\ sub'.at = "idle"
      /\ past'.raced = past.raced /\ past'.recovered = past.recovered
      /\ past'.unsent = past.unsent /\ (past.orphan => past'.orphan)
  BY DEF Submission, Shapes, PastRecs
<1>2. Shapes'
  BY DEF Shapes, PastRecs
<1>3. Submission' /\ RunningIsWatched' /\ SlotFollowsRecord'
  BY <1>1 DEF Submission, RunningIsWatched, SlotFollowsRecord
<1>4. JobsOwned'
  BY <1>1 DEF JobsOwned, Live
<1>5. EndedBySlurm' /\ ResultsOfFinalAttempt'
  BY <1>1 DEF EndedBySlurm, ResultsOfFinalAttempt
<1>6. Markers' /\ Directories' /\ Named' /\ Evidence' /\ WholeOutput'
  BY <1>1 DEF Markers, Directories, Named, Evidence, WholeOutput
<1>7. Pulling' /\ Settling' /\ Finishing'
  BY DEF Pulling, Settling, StillRuns, Owns, Finishing
<1> QED
  BY <1>2, <1>3, <1>4, <1>5, <1>6, <1>7

LEMMA SubmitStopsSound ==
    ASSUME SlurmIInv, SubmitRefused \/ SubmitFails \/ SubmitLost
    PROVE  SlurmIInv'
<1>1. CASE SubmitRefused
  BY <1>1, GiveUpSound DEF SubmitRefused
<1>2. CASE SubmitFails
  BY <1>2, GiveUpSound DEF SubmitFails
<1>3. CASE SubmitLost
  BY <1>3, GiveUpSound DEF SubmitLost, SlurmIInv, Shapes
<1> QED
  BY <1>1, <1>2, <1>3

LEMMA SubmitSendSound ==
    ASSUME SlurmIInv, SubmitSend
    PROVE  SlurmIInv'
<1> USE DEF SlurmIInv, SubmitSend
<1>1. /\ sub.on \in Targets /\ sub'.at = "sent" /\ sub'.on = sub.on
      /\ sub' \in [at: {"idle", "begun", "staged", "sent"}, on: Targets \union {NoJob}]
      /\ jobs[sub.on].state = "none" /\ remote[sub.on].exists
      /\ rec.status \in {"queued", "cancelled"}
  BY DEF Submission, Shapes
<1>2. /\ jobs' \in [Targets -> JobRecs] /\ jobs'[sub.on].state = "pending"
      /\ \A t \in Targets : t # sub.on => jobs'[t] = jobs[t]
  BY <1>1 DEF Shapes, JobRecs, JobState
<1>3. Shapes'
  <2>1. Shapes /\ UNCHANGED <<rec, remote, mon, lock, log, prog, held, tokens, past>>
    BY DEF files
  <2> QED
    BY ONLY <2>1, <1>1, <1>2 DEF Shapes
<1>4. Directories' /\ Submission'
  BY <1>1, <1>2 DEF Directories, Submission
<1>5. Evidence'
  BY <1>1, <1>2 DEF Evidence, Shapes, MonRecs, Ended
<1>6. WholeOutput'
  BY <1>1, <1>2 DEF WholeOutput
<1>7. JobsOwned' /\ SlotFollowsRecord'
  BY <1>1, <1>2 DEF JobsOwned, Live, SlotFollowsRecord
<1>8. EndedBySlurm' /\ ResultsOfFinalAttempt'
  BY <1>1 DEF EndedBySlurm, ResultsOfFinalAttempt, OwnResults
<1>9. Markers' /\ Named' /\ RunningIsWatched'
  BY DEF Markers, Named, RunningIsWatched
<1>10. Pulling' /\ Settling' /\ Finishing'
  BY DEF files, Pulling, Settling, StillRuns, Owns, Finishing
<1> QED
  BY <1>3, <1>4, <1>5, <1>6, <1>7, <1>8, <1>9, <1>10

\* The job is the first of its resource, so no older monitor takes the record for its
\* own.
LEMMA SubmitRecordSound ==
    ASSUME SlurmIInv, SubmitRecord
    PROVE  SlurmIInv'
<1> USE DEF SlurmIInv, SubmitRecord, slurmVars, files
<1>1. /\ sub.on \in Targets /\ remote[sub.on].exists /\ mon[sub.on].at = "off"
      /\ sub.on \in tokens /\ rec.status \in {"queued", "cancelled"} /\ sub'.at = "idle"
      /\ ~past.raced => held
  BY DEF Submission
<1>2. /\ rec' \in Recs /\ rec'.status = "running" /\ rec'.job = sub.on /\ rec'.gen = 0
      /\ rec'.result = rec.result
  BY <1>1 DEF Shapes, Recs
<1>3. /\ mon' \in [Targets -> MonRecs] /\ mon'[sub.on] = Asleep
      /\ \A t \in Targets : t # sub.on => mon'[t] = mon[t]
  BY <1>1, FreeIsFree DEF Shapes
<1>12. /\ past' \in PastRecs
       /\ past'.raced = past.raced /\ past'.orphan = past.orphan
       /\ past'.recovered = past.recovered
  BY DEF Shapes, PastRecs
<1>4. Shapes'
  BY <1>1, <1>2, <1>3, <1>12 DEF Shapes
<1>5. Directories' /\ Submission' /\ Named' /\ RunningIsWatched'
  BY <1>1, <1>2, <1>3, <1>12, FreeIsFree DEF Directories, Submission, Named, RunningIsWatched
<1>6. Evidence' /\ Finishing'
  BY <1>1, <1>2, <1>3, FreeIsFree DEF Evidence, Finishing
<1>7. Pulling'
  BY <1>1, <1>3 DEF Pulling
<1>8. Settling'
  BY <1>2, <1>3, FreeIsFree DEF Settling, StillRuns, Owns
<1>9. JobsOwned' /\ SlotFollowsRecord'
  BY <1>1, <1>2, <1>12 DEF JobsOwned, Live, SlotFollowsRecord
<1>10. EndedBySlurm' /\ ResultsOfFinalAttempt'
  BY <1>2, <1>12 DEF EndedBySlurm, ResultsOfFinalAttempt
<1>11. Markers' /\ WholeOutput'
  BY DEF Markers, WholeOutput
<1> QED
  BY <1>4, <1>5, <1>6, <1>7, <1>8, <1>9, <1>10, <1>11

-----------------------------------------------------------------------------
(* The job and its wrapper.                                                   *)

\* A job that has not ended goes on: nothing that is known of an ended job changes.
LEMMA JobStepSound ==
    ASSUME SlurmIInv, NEW t \in Targets, NEW j \in JobRecs, NEW r \in Remotes,
           jobs' = [jobs EXCEPT ![t] = j], remote' = [remote EXCEPT ![t] = r],
           jobs[t].state \in {"pending", "booting", "running", "gap"}, j.state # "none",
           j.state = "completed" => r.text = Text(t, j.gen, "whole"),
           r.exists = remote[t].exists,
           HasLast(r.ran),
           UNCHANGED <<ops, serverVars, past>>
    PROVE  SlurmIInv'
<1> USE DEF SlurmIInv, serverVars
<1>1. /\ jobs' \in [Targets -> JobRecs] /\ remote' \in [Targets -> Remotes]
      /\ jobs'[t] = j /\ remote'[t] = r
      /\ \A u \in Targets : u # t => jobs'[u] = jobs[u] /\ remote'[u] = remote[u]
  BY DEF Shapes
<1>2. Live(t) /\ jobs[t].state \notin Ended
  BY DEF Live, Ended
<1>3. Shapes'
  BY <1>1 DEF Shapes
<1>4. Markers'
  BY <1>1 DEF Markers
<1>5. Directories'
  BY <1>1 DEF Directories
<1>6. Submission'
  BY <1>1 DEF Submission
<1>7. Evidence'
  BY <1>1, <1>2 DEF Evidence, Shapes, MonRecs
<1>8. WholeOutput'
  BY <1>1 DEF WholeOutput
<1>9. JobsOwned'
  BY <1>1, <1>2 DEF JobsOwned, Live
<1>10. EndedBySlurm'
  BY <1>1, <1>2 DEF EndedBySlurm
<1>11. Named' /\ RunningIsWatched' /\ SlotFollowsRecord' /\ ResultsOfFinalAttempt'
  BY DEF Named, RunningIsWatched, SlotFollowsRecord, ResultsOfFinalAttempt, OwnResults
<1>12. Pulling' /\ Settling' /\ Finishing'
  BY DEF Pulling, Settling, StillRuns, Owns, Finishing
<1> QED
  BY <1>3, <1>4, <1>5, <1>6, <1>7, <1>8, <1>9, <1>10, <1>11, <1>12

\* The same when only the job's state moves.
LEMMA JobMovesSound ==
    ASSUME SlurmIInv, NEW t \in Targets, NEW s \in JobState, NEW g \in Nat,
           jobs' = [jobs EXCEPT ![t] = [state |-> s, gen |-> g]],
           jobs[t].state \in {"pending", "booting", "running", "gap"},
           s \notin {"none", "completed"},
           UNCHANGED <<ops, remote, serverVars, past>>
    PROVE  SlurmIInv'
<1>1. remote[t] \in Remotes /\ remote' = [remote EXCEPT ![t] = remote[t]]
  BY DEF SlurmIInv, Shapes
<1>2. [state |-> s, gen |-> g] \in JobRecs
  BY DEF JobRecs
<1>3. HasLast(remote[t].ran)
  BY DEF SlurmIInv, Markers
<1> QED
  BY <1>1, <1>2, <1>3, JobStepSound

\* And when the wrapper writes the log or its generation.
LEMMA WrapperWritesSound ==
    ASSUME SlurmIInv, NEW t \in Targets, NEW s \in JobState,
           NEW ran \in SUBSET Nat, NEW part \in {"empty", "partial", "whole"}, HasLast(ran),
           jobs' = [jobs EXCEPT ![t] = [state |-> s, gen |-> jobs[t].gen]],
           remote' = [remote EXCEPT ![t] = [exists |-> remote[t].exists, ran |-> ran,
                                            text |-> Text(t, jobs[t].gen, part)]],
           jobs[t].state \in {"pending", "booting", "running", "gap"},
           s # "none", s = "completed" => part = "whole",
           UNCHANGED <<ops, serverVars, past>>
    PROVE  SlurmIInv'
<1> DEFINE j == [state |-> s, gen |-> jobs[t].gen]
           r == [exists |-> remote[t].exists, ran |-> ran, text |-> Text(t, jobs[t].gen, part)]
<1>1. jobs[t].gen \in Nat /\ remote[t].exists \in BOOLEAN
  BY DEF SlurmIInv, Shapes, JobRecs, Remotes
<1>2. j \in JobRecs /\ j.state = s /\ j.gen = jobs[t].gen
  BY <1>1 DEF JobRecs
<1>3. /\ r \in Remotes /\ r.exists = remote[t].exists /\ r.ran = ran
      /\ r.text = Text(t, jobs[t].gen, part)
  BY <1>1, TextsAreTexts DEF Remotes
<1>4. j.state = "completed" => r.text = Text(t, j.gen, "whole")
  BY <1>2, <1>3
<1>5. jobs' = [jobs EXCEPT ![t] = j] /\ remote' = [remote EXCEPT ![t] = r]
  OBVIOUS
<1> HIDE DEF j, r
<1> QED
  BY <1>2, <1>3, <1>4, <1>5, JobStepSound

\* A new generation is among those that have run, or after them.
LEMMA OneMore ==
    ASSUME NEW S \in SUBSET Nat, NEW n \in Nat, HasLast(S)
    PROVE  HasLast(S \union {n})
<1>1. PICK g \in S \union {NoGen} : \A h \in S \union {NoGen} : g >= h
  BY DEF HasLast
<1>2. g \in Int /\ NoGen \in Int
  BY DEF NoGen
<1>3. CASE n >= g
  <2>1. \A h \in (S \union {n}) \union {NoGen} : n >= h
    BY <1>1, <1>2, <1>3 DEF NoGen
  <2> QED
    BY <2>1 DEF HasLast
<1>4. CASE ~(n >= g)
  <2>1. \A h \in (S \union {n}) \union {NoGen} : g >= h
    BY <1>1, <1>2, <1>4
  <2> QED
    BY <2>1 DEF HasLast
<1> QED
  BY <1>3, <1>4

LEMMA JobRunsSound ==
    ASSUME SlurmIInv, NEW t \in Targets, JobRuns(t)
    PROVE  SlurmIInv'
<1> DEFINE j == jobs[t]  r == remote[t]
<1>1. /\ j \in JobRecs /\ j.gen \in Nat /\ j.gen + 1 \in Nat
      /\ r \in Remotes /\ r.ran \in SUBSET Nat
      /\ jobs \in [Targets -> JobRecs] /\ remote \in [Targets -> Remotes]
      /\ HasLast(r.ran)
  BY DEF SlurmIInv, Shapes, JobRecs, Remotes, Markers
<1>2. ASSUME NEW s \in JobState, JobMoves(t, s)
      PROVE  jobs' = [jobs EXCEPT ![t] = [state |-> s, gen |-> j.gen]]
  <2>1. \A k \in JobRecs : [k EXCEPT !.state = s] = [state |-> s, gen |-> k.gen]
    BY DEF JobRecs
  <2> QED
    BY <1>1, <1>2, <2>1 DEF JobMoves
<1>3. ASSUME NEW part \in {"empty", "partial", "whole"}
      PROVE  [r EXCEPT !.text = Text(t, j.gen, part)] =
               [exists |-> r.exists, ran |-> r.ran, text |-> Text(t, j.gen, part)]
  <2>1. \A y \in Remotes : [y EXCEPT !.text = Text(t, j.gen, part)] =
           [exists |-> y.exists, ran |-> y.ran, text |-> Text(t, j.gen, part)]
    BY DEF Remotes
  <2> QED
    BY <1>1, <2>1
<1>4. CASE JobBoot(t)
  <2>1. remote' = [remote EXCEPT ![t] = [exists |-> r.exists, ran |-> r.ran,
                                         text |-> Text(t, j.gen, "empty")]]
    BY <1>1, <1>3, <1>4 DEF JobBoot
  <2>2. jobs' = [jobs EXCEPT ![t] = [state |-> "booting", gen |-> j.gen]]
    BY <1>2, <1>4 DEF JobBoot, JobState
  <2> QED
    BY <1>1, <1>4, <2>1, <2>2, WrapperWritesSound DEF JobBoot, JobState
<1>5. CASE JobMark(t)
  <2> DEFINE ran == r.ran \union {j.gen}
             x == [exists |-> r.exists, ran |-> ran, text |-> Text(t, j.gen, "partial")]
  <2>1. remote' = [remote EXCEPT ![t] = x]
    <3>1. \A y \in Remotes : [y EXCEPT !.ran = @ \union {j.gen}] =
             [exists |-> y.exists, ran |-> y.ran \union {j.gen}, text |-> y.text]
      BY DEF Remotes
    <3>2. remote' = [remote EXCEPT ![t] =
             [[r EXCEPT !.ran = @ \union {j.gen}] EXCEPT !.text = Text(t, j.gen, "partial")]]
      BY <1>1, <1>5 DEF JobMark
    <3>3. [r EXCEPT !.ran = @ \union {j.gen}] =
             [exists |-> r.exists, ran |-> ran, text |-> r.text]
      BY <1>1, <3>1
    <3>4. [[exists |-> r.exists, ran |-> ran, text |-> r.text]
             EXCEPT !.text = Text(t, j.gen, "partial")] = x
      OBVIOUS
    <3> QED
      BY <3>2, <3>3, <3>4
  <2>2. jobs' = [jobs EXCEPT ![t] = [state |-> "running", gen |-> j.gen]]
    BY <1>2, <1>5 DEF JobMark, JobState
  <2>3. HasLast(ran) /\ ran \in SUBSET Nat
    BY <1>1, OneMore
  <2> HIDE DEF ran
  <2> QED
    BY <1>1, <1>5, <2>1, <2>2, <2>3, WrapperWritesSound DEF JobMark, JobState
<1>6. CASE JobPreempted(t)
  BY <1>1, <1>2, <1>6, JobMovesSound DEF JobPreempted, JobState
<1>7. CASE JobRequeued(t)
  BY <1>1, <1>7, JobMovesSound DEF JobRequeued, JobState
<1>8. CASE JobEndsEarly(t)
  BY <1>1, <1>2, <1>8, JobMovesSound DEF JobEndsEarly, JobState, Ended
<1>9. ASSUME NEW how \in Ended, JobEnds(t, how) PROVE SlurmIInv'
  <2>1. jobs' = [jobs EXCEPT ![t] = [state |-> how, gen |-> j.gen]]
    BY <1>2, <1>9 DEF JobEnds, JobState
  <2>2. [state |-> how, gen |-> j.gen] \in JobRecs /\ how # "none"
    BY <1>1 DEF JobRecs, JobState, Ended
  <2>3. CASE how = "cancelled"
    <3>1. remote' = remote
      BY <1>1, <1>9, <2>3 DEF JobEnds, Remotes
    <3> QED
      BY <1>1, <1>9, <2>1, <2>2, <2>3, <3>1, JobMovesSound DEF JobEnds, JobState
  <2>4. CASE how # "cancelled"
    <3>1. remote' = [remote EXCEPT ![t] = [exists |-> r.exists, ran |-> r.ran,
                                           text |-> Text(t, j.gen, "whole")]]
      BY <1>1, <1>3, <1>9, <2>4 DEF JobEnds
    <3> QED
      BY <1>1, <1>9, <2>1, <2>2, <3>1, WrapperWritesSound DEF JobEnds, JobState
  <2> QED
    BY <2>3, <2>4
<1> QED
  BY <1>4, <1>5, <1>6, <1>7, <1>8, <1>9 DEF JobRuns

-----------------------------------------------------------------------------
(* The monitor.                                                               *)

\* A monitor that goes on without evidence, without holding the lock.
LEMMA WatchesOnSound ==
    ASSUME SlurmIInv, NEW t \in Targets, NEW m \in MonRecs,
           mon' = [mon EXCEPT ![t] = m],
           mon[t].at \notin {"off", "finish", "release"},
           m.at \notin {"off", "final", "settle", "finish", "release"},
           lock.by = "monitor" => lock.job # t,
           UNCHANGED <<rec, jobs, remote, sub, lock, log, held, tokens, past>>
    PROVE  SlurmIInv'
<1> USE DEF SlurmIInv
<1>1. /\ mon' \in [Targets -> MonRecs] /\ mon'[t] = m
      /\ \A u \in Targets : u # t => mon'[u] = mon[u]
  BY DEF Shapes
<1>2. Shapes'
  BY <1>1 DEF Shapes
<1>3. Directories' /\ Submission' /\ RunningIsWatched'
  BY <1>1 DEF Directories, Submission, RunningIsWatched
<1>4. Evidence' /\ Finishing'
  BY <1>1 DEF Evidence, Finishing, Owns
<1>5. Pulling'
  BY <1>1 DEF Pulling
<1>6. Settling'
  BY <1>1 DEF Settling, StillRuns, Owns
<1>7. SlotFollowsRecord'
  BY <1>1 DEF SlotFollowsRecord
<1>8. Markers' /\ Named' /\ WholeOutput' /\ JobsOwned' /\ EndedBySlurm' /\ ResultsOfFinalAttempt'
  BY DEF Markers, Named, WholeOutput, JobsOwned, Live, EndedBySlurm,
         ResultsOfFinalAttempt, OwnResults
<1> QED
  BY <1>2, <1>3, <1>4, <1>5, <1>6, <1>7, <1>8

LEMMA MonitorTypes ==
    ASSUME SlurmIInv, NEW t \in Targets
    PROVE  /\ mon[t] \in MonRecs /\ mon[t].gen \in Nat /\ mon[t].seen \in Nat
           /\ rec.gen \in Nat /\ jobs[t].gen \in Nat /\ jobs[t].state \in JobState
           /\ lock.by = "monitor" => mon[lock.job].at \in {"live", "final"}
           /\ lock = Free => lock.by = "none"
BY FreeIsFree DEF SlurmIInv, Shapes, MonRecs, Recs, JobRecs, Pulling

\* Going on from one of its stages to another.
LEMMA GoesOnSound ==
    ASSUME SlurmIInv, NEW t \in Targets,
           NEW s \in {"sleep", "poll", "learn", "account", "advance", "live", "synth"},
           MonAt(t, s), mon[t].at \notin {"off", "finish", "release"},
           lock.by = "monitor" => lock.job # t,
           UNCHANGED <<rec, jobs, remote, sub, lock, log, held, tokens, past>>
    PROVE  SlurmIInv'
<1> DEFINE m == IF s = "sleep" THEN Asleep ELSE [mon[t] EXCEPT !.at = s]
<1>1. m \in MonRecs /\ m.at = s
  BY MonitorTypes, FreeIsFree DEF MonRecs, Stages
<1>2. mon' = [mon EXCEPT ![t] = m]
  BY DEF MonAt, SlurmIInv, Shapes
<1> HIDE DEF m
<1> QED
  BY <1>1, <1>2, WatchesOnSound

LEMMA MonPollsSound ==
    ASSUME SlurmIInv, NEW t \in Targets,
           MonWake(t) \/ MonPollLive(t) \/ MonPollGap(t) \/ MonPollGone(t) \/ MonError(t)
    PROVE  SlurmIInv'
<1> USE MonitorTypes DEF Answered, Again, slurmVars, files
<1>1. mon[t].at \in {"sleep", "poll", "account"} /\ (lock.by = "monitor" => lock.job # t)
  BY DEF MonWake, MonPollLive, MonPollGap, MonPollGone, MonError
<1>2. CASE MonWake(t)
  <2> DEFINE m == [mon[t] EXCEPT !.at = "poll", !.gen = rec.gen]
  <2>1. m \in MonRecs /\ m.at = "poll"
    BY DEF MonRecs, Stages
  <2>2. mon' = [mon EXCEPT ![t] = m]
    BY <1>2 DEF MonWake, SlurmIInv, Shapes
  <2> HIDE DEF m
  <2> QED
    BY <1>1, <1>2, <2>1, <2>2, WatchesOnSound DEF MonWake
<1>3. CASE MonPollLive(t) /\ NewerMarker(t)
  <2> DEFINE m == [mon[t] EXCEPT !.at = "learn", !.seen = Marker(t)]
  <2>1. Marker(t) \in Nat
    BY <1>3, MarkerRan DEF NewerMarker, SlurmIInv
  <2>2. m \in MonRecs /\ m.at = "learn"
    BY <2>1 DEF MonRecs, Stages
  <2>3. mon' = [mon EXCEPT ![t] = m]
    BY <1>3 DEF MonPollLive, SlurmIInv, Shapes
  <2> HIDE DEF m
  <2> QED
    BY <1>1, <1>3, <2>2, <2>3, WatchesOnSound DEF MonPollLive
<1>4. CASE MonPollLive(t) /\ ~NewerMarker(t)
  BY <1>1, <1>4, GoesOnSound DEF MonPollLive
<1>5. CASE MonPollGap(t)
  BY <1>1, <1>5, GoesOnSound DEF MonPollGap
<1>6. CASE MonPollGone(t)
  BY <1>1, <1>6, GoesOnSound DEF MonPollGone
<1>7. CASE MonError(t)
  BY <1>1, <1>7, GoesOnSound DEF MonError
<1> QED
  BY <1>2, <1>3, <1>4, <1>5, <1>6, <1>7

\* Only the job's own row, once it has ended, is evidence.
LEMMA MonAccountSound ==
    ASSUME SlurmIInv, NEW t \in Targets, MonAccount(t)
    PROVE  SlurmIInv'
<1> USE DEF SlurmIInv
<1>1. PICK row \in Rows(t) : mon' = [mon EXCEPT ![t] = Judge(mon[t], row)]
  BY DEF MonAccount, Shapes
<1>2. /\ mon[t].at = "account" /\ (lock.by = "monitor" => lock.job # t)
      /\ UNCHANGED <<rec, jobs, remote, sub, lock, log, held, tokens, past>>
  BY MonitorTypes DEF MonAccount, Answered, slurmVars, files
<1>3. /\ row.gen \in Nat
      /\ row.state \in Ended => row.state = jobs[t].state /\ row.gen = jobs[t].gen
  <2>1. CASE row = TrueRow(t)
    BY <2>1, MonitorTypes DEF TrueRow, Row, Ended
  <2>2. CASE row # TrueRow(t)
    BY <1>1, <2>2, MonitorTypes DEF Rows, Row, Ended
  <2> QED
    BY <2>1, <2>2
<1> DEFINE m == Judge(mon[t], row)
<1>4. CASE m = Asleep
  BY <1>1, <1>2, <1>4, FreeIsFree, WatchesOnSound
<1>5. CASE m = [mon[t] EXCEPT !.at = "advance", !.seen = row.gen]
  <2>1. m \in MonRecs /\ m.at = "advance"
    BY <1>3, <1>5, MonitorTypes DEF MonRecs, Stages
  <2> HIDE DEF m
  <2> QED
    BY <1>1, <1>2, <2>1, WatchesOnSound DEF m
<1>6. CASE /\ m = [mon[t] EXCEPT !.at = "final", !.evidence = row.state]
           /\ row.state \in Ended /\ row.gen = mon[t].gen
  <2>1. /\ m \in MonRecs /\ m.at = "final"
        /\ m.evidence = jobs[t].state /\ m.gen = jobs[t].gen
    BY <1>3, <1>6, MonitorTypes DEF MonRecs, Stages
  <2>2. /\ mon' \in [Targets -> MonRecs] /\ mon'[t] = m
        /\ \A u \in Targets : u # t => mon'[u] = mon[u]
    BY <1>1, <2>1 DEF Shapes
  <2> HIDE DEF m
  <2>3. Shapes'
    BY <1>2, <2>2 DEF Shapes
  <2>4. Directories' /\ Submission' /\ RunningIsWatched'
    BY <1>2, <2>1, <2>2 DEF Directories, Submission, RunningIsWatched, Named
  <2>5. Evidence' /\ Finishing'
    BY <1>2, <2>1, <2>2 DEF Evidence, Finishing, Owns
  <2>6. Pulling'
    BY <1>2, <2>1, <2>2 DEF Pulling
  <2>7. Settling'
    BY <1>2, <2>1, <2>2 DEF Settling, StillRuns, Owns
  <2>8. SlotFollowsRecord'
    BY <1>2, <2>1, <2>2 DEF SlotFollowsRecord
  <2>9. /\ Markers' /\ Named' /\ WholeOutput' /\ JobsOwned' /\ EndedBySlurm'
        /\ ResultsOfFinalAttempt'
    BY <1>2 DEF Markers, Named, WholeOutput, JobsOwned, Live, EndedBySlurm,
                ResultsOfFinalAttempt, OwnResults
  <2> QED
    BY <2>3, <2>4, <2>5, <2>6, <2>7, <2>8, <2>9
<1>7. \/ m = Asleep
      \/ m = [mon[t] EXCEPT !.at = "advance", !.seen = row.gen]
      \/ /\ m = [mon[t] EXCEPT !.at = "final", !.evidence = row.state]
         /\ row.state \in Ended /\ row.gen = mon[t].gen
  BY <1>3, MonitorTypes DEF Judge
<1> QED
  BY <1>4, <1>5, <1>6, <1>7

\* The record runs, so no other monitor is at its end.
LEMMA MonLearnSound ==
    ASSUME SlurmIInv, NEW t \in Targets, MonLearn(t)
    PROVE  SlurmIInv'
<1> USE DEF SlurmIInv
<1> DEFINE stored == StillRuns(t, mon[t].gen)
           live   == [mon[t] EXCEPT !.at = "live", !.gen = mon[t].seen, !.seen = 0]
<1>1. /\ mon[t].at \in {"learn", "advance"} /\ lock = Free
      /\ (lock.by = "monitor" => lock.job # t)
      /\ UNCHANGED <<jobs, remote, sub, lock, log, held, tokens, past>>
  BY MonitorTypes DEF MonLearn, Answered, slurmVars, files
<1>2. live \in MonRecs /\ live.at = "live"
  BY MonitorTypes DEF MonRecs, Stages
<1>3. PICK m \in {Asleep, live} : mon' = [mon EXCEPT ![t] = m]
  BY DEF MonLearn, Shapes
<1>4. m \in MonRecs /\ m.at \in {"sleep", "live"}
  BY <1>2, FreeIsFree
<1>5. CASE ~stored
  <2>1. rec' = rec
    BY <1>5 DEF MonLearn
  <2> QED
    BY <1>1, <1>3, <1>4, <2>1, WatchesOnSound
<1>6. CASE stored
  <2>1. rec' = [rec EXCEPT !.gen = mon[t].seen]
    BY <1>6 DEF MonLearn
  <2>2. /\ rec' \in Recs /\ rec'.status = "running" /\ rec'.job = t /\ rec'.result = rec.result
        /\ rec.status = "running" /\ rec.job = t
    BY <1>6, <2>1, MonitorTypes DEF Shapes, Recs, StillRuns, Owns
  <2>3. /\ mon' \in [Targets -> MonRecs] /\ mon'[t] = m
        /\ \A u \in Targets : u # t => mon'[u] = mon[u]
    BY <1>3, <1>4 DEF Shapes
  <2>4. Shapes'
    BY <1>1, <2>2, <2>3 DEF Shapes
  <2>5. Directories' /\ Submission' /\ Named' /\ RunningIsWatched'
    BY <1>1, <1>4, <2>2, <2>3 DEF Directories, Submission, Named, RunningIsWatched
  <2>6. Evidence' /\ Finishing'
    BY <1>1, <1>4, <2>2, <2>3 DEF Evidence, Finishing
  <2>7. Pulling'
    BY <1>1, FreeIsFree DEF Pulling
  <2>8. Settling'
    BY <1>4, <2>2, <2>3 DEF Settling, StillRuns, Owns
  <2>9. JobsOwned' /\ SlotFollowsRecord'
    BY <1>1, <2>2 DEF JobsOwned, Live, SlotFollowsRecord
  <2>10. EndedBySlurm' /\ ResultsOfFinalAttempt'
    BY <2>2 DEF EndedBySlurm, ResultsOfFinalAttempt
  <2>11. Markers' /\ WholeOutput'
    BY <1>1 DEF Markers, WholeOutput
  <2> QED
    BY <2>4, <2>5, <2>6, <2>7, <2>8, <2>9, <2>10, <2>11
<1> QED
  BY <1>5, <1>6

\* A step that only takes, keeps or leaves the lock.
LEMMA LockStepSound ==
    ASSUME SlurmIInv, lock' \in Locks, Pulling', Settling',
           UNCHANGED <<rec, jobs, remote, sub, mon, log, held, tokens, past>>
    PROVE  SlurmIInv'
<1> USE DEF SlurmIInv
<1>1. Shapes'
  BY DEF Shapes
<1>2. Markers' /\ Directories' /\ Submission' /\ Named' /\ RunningIsWatched'
  BY DEF Markers, Directories, Submission, Named, RunningIsWatched
<1>3. Evidence' /\ WholeOutput' /\ Finishing' /\ JobsOwned'
  BY DEF Evidence, WholeOutput, Finishing, Owns, JobsOwned, Live
<1>4. EndedBySlurm' /\ ResultsOfFinalAttempt' /\ SlotFollowsRecord'
  BY DEF EndedBySlurm, ResultsOfFinalAttempt, OwnResults, SlotFollowsRecord
<1> QED
  BY <1>1, <1>2, <1>3, <1>4

LEMMA HoldingIs ==
    ASSUME SlurmIInv, NEW by \in {"monitor", "route", "progress", "recover"},
           NEW j \in Targets \union {NoJob}, NEW g \in Nat,
           by \in {"monitor", "route"} => j \in Targets
    PROVE  LET h == Holding(by, j, g)
           IN h \in Locks /\ h.by = by /\ h.job = j /\ h.step = "begin"
<1> DEFINE before == IF by \in {"monitor", "route"} THEN Marker(j) ELSE NoGen
<1>1. before \in Int
  BY MarkerRan DEF SlurmIInv, NoGen
<1>2. Holding(by, j, g) = [by |-> by, job |-> j, gen |-> g, step |-> "begin",
                           marker |-> NoGen, text |-> NoText, before |-> before]
  BY Zenon DEF Holding
<1> HIDE DEF before
<1> QED
  BY <1>1, <1>2, TextsAreTexts DEF Locks, NoGen

LEMMA MonPullSound ==
    ASSUME SlurmIInv, NEW t \in Targets, MonPull(t)
    PROVE  SlurmIInv'
<1>1. /\ mon[t].at \in {"live", "final"} /\ lock = Free /\ lock.by = "none"
      /\ UNCHANGED <<rec, jobs, remote, sub, log, held, tokens, past>>
  BY FreeIsFree DEF MonPull, Answered, slurmVars, files
<1>2. CASE ~StillRuns(t, mon[t].gen)
  <2>1. MonAt(t, "sleep") /\ UNCHANGED lock
    BY <1>2 DEF MonPull
  <2> QED
    BY <1>1, <2>1, GoesOnSound
<1>3. CASE StillRuns(t, mon[t].gen)
  <2>1. lock' = Holding("monitor", t, mon[t].gen) /\ UNCHANGED mon
    BY <1>3 DEF MonPull
  <2>2. lock' \in Locks /\ lock'.by = "monitor" /\ lock'.job = t /\ lock'.step = "begin"
    BY <2>1, HoldingIs, MonitorTypes
  <2>3. Pulling'
    BY <1>1, <2>1, <2>2 DEF Pulling
  <2>4. Settling'
    BY <1>1, <1>3, <2>1 DEF Settling, StillRuns, Owns
  <2> QED
    BY <1>1, <2>1, <2>2, <2>3, <2>4, LockStepSound
<1> QED
  BY <1>2, <1>3

\* With evidence, what has been pulled is the whole output of the attempt.
LEMMA MonPulledSound ==
    ASSUME SlurmIInv, NEW t \in Targets, MonPulled(t)
    PROVE  SlurmIInv'
<1> USE DEF SlurmIInv
<1>1. /\ lock.by = "monitor" /\ lock.job = t /\ lock.step = "copied" /\ lock' = Free
      /\ mon[t].at \in {"live", "final"}
      /\ log' = IF Verified /\ lock.text # NoText THEN lock.text ELSE log
      /\ UNCHANGED <<rec, jobs, remote, sub, held, tokens, past>>
  BY DEF MonPulled, Publish, Pulling, Answered, slurmVars
<1>2. PICK s \in {"sleep", "synth", "settle"} :
         /\ MonAt(t, s)
         /\ s = "settle" =>
               /\ mon[t].at = "final" /\ Verified /\ StillRuns(t, mon[t].gen)
  BY DEF MonPulled
<1> DEFINE m == IF s = "sleep" THEN Asleep ELSE [mon[t] EXCEPT !.at = s]
<1>3. /\ m \in MonRecs /\ m.at = s
      /\ s = "settle" => m.gen = mon[t].gen /\ m.evidence = mon[t].evidence
  BY MonitorTypes, FreeIsFree DEF MonRecs, Stages
<1>4. mon' = [mon EXCEPT ![t] = m]
  BY <1>2 DEF MonAt, Shapes
<1> HIDE DEF m
<1>5. /\ mon' \in [Targets -> MonRecs] /\ mon'[t] = m
      /\ \A u \in Targets : u # t => mon'[u] = mon[u]
  BY <1>3, <1>4 DEF Shapes
<1>6. Shapes'
  <2>1. log' \in AnyText
    BY <1>1 DEF Shapes, Locks
  <2> QED
    BY <1>1, <1>5, <2>1, FreeIsFree DEF Shapes
<1>7. Directories' /\ Submission' /\ RunningIsWatched'
  BY <1>1, <1>3, <1>5 DEF Directories, Submission, RunningIsWatched, Named
<1>8. Evidence' /\ Finishing'
  BY <1>1, <1>2, <1>3, <1>5 DEF Evidence, Finishing, Owns
<1>9. Pulling'
  BY <1>1, FreeIsFree DEF Pulling
<1>10. Settling'
  <2>1. CASE s # "settle"
    BY <1>1, <1>3, <1>5, <2>1, FreeIsFree DEF Settling, StillRuns, Owns
  <2>2. CASE s = "settle"
    <3>1. mon[t].evidence = "completed" => log' = Text(t, mon[t].gen, "whole")
      <4>1. Text(t, mon[t].gen, "whole") # NoText
        BY DEF Text, NoText
      <4> QED
        BY <1>1, <1>2, <2>2, <4>1 DEF Pulling
    <3>2. rec'.job = t
      BY <1>1, <1>2, <2>2 DEF StillRuns, Owns
    <3> QED
      BY <1>1, <1>3, <1>5, <2>2, <3>1, <3>2, FreeIsFree DEF Settling, StillRuns, Owns
  <2> QED
    BY <2>1, <2>2
<1>11. SlotFollowsRecord'
  BY <1>1, <1>3, <1>5 DEF SlotFollowsRecord
<1>12. /\ Markers' /\ Named' /\ WholeOutput' /\ JobsOwned' /\ EndedBySlurm'
       /\ ResultsOfFinalAttempt'
  BY <1>1 DEF Markers, Named, WholeOutput, JobsOwned, Live, EndedBySlurm,
              ResultsOfFinalAttempt, OwnResults
<1> QED
  BY <1>6, <1>7, <1>8, <1>9, <1>10, <1>11, <1>12

LEMMA MonSynthSound ==
    ASSUME SlurmIInv, NEW t \in Targets, MonSynth(t)
    PROVE  SlurmIInv'
BY MonitorTypes, GoesOnSound DEF MonSynth, Answered, slurmVars

\* The record settles: the monitor has evidence, and the log is that of the attempt.
LEMMA SettlesSound ==
    ASSUME SlurmIInv, NEW t \in Targets, NEW s \in {"completed", "failed"}, NEW m \in MonRecs,
           mon[t].at = "settle", StillRuns(t, mon[t].gen),
           s = "completed" => mon[t].evidence = "completed",
           rec' = [rec EXCEPT !.status = s, !.result = log],
           mon' = [mon EXCEPT ![t] = m],
           \/ m.at = "off" /\ tokens' = tokens \ {t} /\ held' = FALSE
           \/ /\ m.at = "finish" /\ m.gen = mon[t].gen /\ s = "completed"
              /\ UNCHANGED <<tokens, held>>,
           UNCHANGED <<jobs, remote, sub, lock, log, past>>
    PROVE  SlurmIInv'
<1> USE DEF SlurmIInv
<1>1. /\ rec' \in Recs /\ rec'.status = s /\ rec'.result = log
      /\ rec'.job = t /\ rec'.gen = mon[t].gen
      /\ rec.status = "running" /\ rec.job = t /\ sub.at = "idle"
  <2>1. rec.status = "running" /\ rec.job = t /\ rec.gen = mon[t].gen
    BY DEF StillRuns, Owns
  <2>2. sub.at = "idle"
    BY <2>1 DEF Submission
  <2>3. rec \in Recs /\ log \in AnyText /\ s \in {"queued", "running"} \union Ended
    BY DEF Shapes, Ended
  <2>4. \A r \in Recs : LET x == [[r EXCEPT !.status = s] EXCEPT !.result = log]
                      IN /\ x \in Recs /\ x.status = s /\ x.result = log
                         /\ x.job = r.job /\ x.gen = r.gen
    BY <2>3 DEF Recs
  <2> QED
    BY <2>1, <2>2, <2>3, <2>4
<1>2. /\ mon' \in [Targets -> MonRecs] /\ mon'[t] = m /\ m.at \in {"off", "finish"}
      /\ \A u \in Targets : u # t => mon'[u] = mon[u]
  BY DEF Shapes
<1>3. jobs[t].state = mon[t].evidence /\ jobs[t].gen = mon[t].gen /\ jobs[t].state \in Ended
  BY DEF Evidence, Shapes, MonRecs
<1>4. lock.by = "monitor" => lock.job # t
  BY MonitorTypes
<1>5. Shapes'
  BY <1>1, <1>2 DEF Shapes
<1>6. Directories' /\ Submission' /\ Named' /\ RunningIsWatched'
  BY <1>1, <1>2 DEF Directories, Submission, Named, RunningIsWatched
<1>7. Evidence'
  BY <1>2 DEF Evidence
<1>8. Pulling'
  BY <1>2, <1>4 DEF Pulling
<1>9. Settling'
  BY <1>1 DEF Settling, StillRuns
<1>10. Finishing'
  BY <1>1, <1>2 DEF Finishing, Owns
<1>11. JobsOwned'
  BY <1>1, <1>3 DEF JobsOwned, Live, Ended
<1>12. EndedBySlurm'
  BY <1>1, <1>3 DEF EndedBySlurm
<1>13. ResultsOfFinalAttempt'
  BY <1>1 DEF ResultsOfFinalAttempt, OwnResults, Settling
<1>14. SlotFollowsRecord'
  BY <1>1, <1>2 DEF SlotFollowsRecord
<1>15. Markers' /\ WholeOutput'
  BY DEF Markers, WholeOutput
<1> QED
  BY <1>5, <1>6, <1>7, <1>8, <1>9, <1>10, <1>11, <1>12, <1>13, <1>14, <1>15

LEMMA MonSettlesSound ==
    ASSUME SlurmIInv, NEW t \in Targets, MonFail(t) \/ MonComplete(t) \/ MonNoResult(t)
    PROVE  SlurmIInv'
<1> USE DEF Answered, slurmVars, files
<1>1. mon[t].at = "settle" /\ UNCHANGED <<jobs, remote, sub, lock, log, past>>
  BY DEF MonFail, MonComplete, MonNoResult
<1>2. lock.by = "monitor" => lock.job # t
  BY <1>1, MonitorTypes
<1>3. CASE ~StillRuns(t, mon[t].gen)
  <2>1. MonAt(t, "sleep") /\ UNCHANGED <<rec, held, tokens>>
    BY <1>3 DEF MonFail, MonComplete, MonNoResult
  <2> QED
    BY <1>1, <1>2, <2>1, GoesOnSound
<1>4. CASE StillRuns(t, mon[t].gen) /\ (MonFail(t) \/ MonNoResult(t))
  <2>1. PICK s \in {"completed", "failed"} :
           /\ rec' = [rec EXCEPT !.status = s, !.result = log]
           /\ s = "completed" => mon[t].evidence = "completed"
    BY <1>4 DEF MonFail, MonNoResult
  <2>2. mon' = [mon EXCEPT ![t] = Off] /\ tokens' = tokens \ {t} /\ held' = FALSE
    BY <1>4 DEF MonFail, MonNoResult, MonStops
  <2> QED
    BY <1>1, <1>4, <2>1, <2>2, FreeIsFree, SettlesSound
<1>5. CASE StillRuns(t, mon[t].gen) /\ MonComplete(t)
  <2> DEFINE m == [mon[t] EXCEPT !.at = "finish"]
  <2>1. m \in MonRecs /\ m.at = "finish" /\ m.gen = mon[t].gen
    BY MonitorTypes DEF MonRecs, Stages
  <2>2. mon' = [mon EXCEPT ![t] = m]
    BY <1>5 DEF MonComplete, MonAt, SlurmIInv, Shapes
  <2>3. /\ rec' = [rec EXCEPT !.status = "completed", !.result = log]
        /\ mon[t].evidence = "completed" /\ UNCHANGED <<tokens, held>>
    BY <1>5 DEF MonComplete
  <2> HIDE DEF m
  <2> QED
    BY <1>1, <1>5, <2>1, <2>2, <2>3, SettlesSound
<1> QED
  BY <1>3, <1>4, <1>5

\* The monitor ends, or takes its last step but one; the record runs no more.
LEMMA MonEndsSound ==
    ASSUME SlurmIInv, NEW t \in Targets, NEW m \in MonRecs,
           mon' = [mon EXCEPT ![t] = m],
           \/ /\ mon[t].at = "sleep" /\ (rec.job # t \/ rec.status # "running")
              /\ m.at = "off" /\ tokens' = tokens \ {t} /\ UNCHANGED held
           \/ /\ mon[t].at = "finish" /\ m.at = "release" /\ m.gen = mon[t].gen
              /\ UNCHANGED <<tokens, held>>
           \/ /\ mon[t].at = "release" /\ m.at = "off"
              /\ tokens' = tokens \ {t} /\ held' = FALSE,
           UNCHANGED <<rec, jobs, remote, sub, lock, log, past>>
    PROVE  SlurmIInv'
<1> USE DEF SlurmIInv
<1>1. /\ mon' \in [Targets -> MonRecs] /\ mon'[t] = m
      /\ \A u \in Targets : u # t => mon'[u] = mon[u]
  BY DEF Shapes
<1>2. /\ lock.by = "monitor" => lock.job # t
      /\ mon[t].at # "off" /\ (rec.job # t \/ rec.status # "running")
      /\ mon[t].at # "sleep" => rec.status = "completed" /\ Owns(t, mon[t].gen)
  BY MonitorTypes DEF Finishing
<1>3. Shapes'
  BY <1>1 DEF Shapes
<1>4. Directories' /\ RunningIsWatched'
  BY <1>1, <1>2 DEF Directories, RunningIsWatched, Named
<1>5. Submission'
  BY <1>1, <1>2 DEF Submission
<1>6. Evidence' /\ Finishing'
  BY <1>1, <1>2 DEF Evidence, Finishing, Owns
<1>7. Pulling'
  BY <1>1, <1>2 DEF Pulling
<1>8. Settling'
  BY <1>1 DEF Settling, StillRuns, Owns
<1>9. SlotFollowsRecord'
  BY <1>1, <1>2 DEF SlotFollowsRecord
<1>10. /\ Markers' /\ Named' /\ WholeOutput' /\ JobsOwned' /\ EndedBySlurm'
       /\ ResultsOfFinalAttempt'
  BY DEF Markers, Named, WholeOutput, JobsOwned, Live, EndedBySlurm,
         ResultsOfFinalAttempt, OwnResults
<1> QED
  BY <1>3, <1>4, <1>5, <1>6, <1>7, <1>8, <1>9, <1>10

LEMMA MonStopsSound ==
    ASSUME SlurmIInv, NEW t \in Targets, MonDismissed(t) \/ MonFinish(t) \/ MonRelease(t)
    PROVE  SlurmIInv'
<1> USE DEF Answered, slurmVars, files
<1>1. CASE MonDismissed(t)
  BY <1>1, FreeIsFree, MonEndsSound DEF MonDismissed, MonStops
<1>2. CASE MonFinish(t)
  <2> DEFINE m == [mon[t] EXCEPT !.at = "release"]
  <2>1. m \in MonRecs /\ m.at = "release" /\ m.gen = mon[t].gen
    BY MonitorTypes DEF MonRecs, Stages
  <2>2. Owns(t, mon[t].gen) /\ mon[t].at = "finish"
    BY <1>2 DEF MonFinish, SlurmIInv, Finishing
  <2>3. mon' = [mon EXCEPT ![t] = m]
    BY <1>2, <2>2 DEF MonFinish, MonAt, SlurmIInv, Shapes
  <2> HIDE DEF m
  <2> QED
    BY <1>2, <2>1, <2>2, <2>3, MonEndsSound DEF MonFinish
<1>3. CASE MonRelease(t)
  <2>1. Owns(t, mon[t].gen) /\ mon[t].at = "release"
    BY <1>3 DEF MonRelease, SlurmIInv, Finishing
  <2> QED
    BY <1>3, <2>1, FreeIsFree, MonEndsSound DEF MonRelease, MonStops
<1> QED
  BY <1>1, <1>2, <1>3

LEMMA MonitorSound ==
    ASSUME SlurmIInv, NEW t \in Targets, Monitor(t)
    PROVE  SlurmIInv'
BY MonPollsSound, MonAccountSound, MonLearnSound, MonPullSound, MonPulledSound,
   MonSynthSound, MonSettlesSound, MonStopsSound DEF Monitor

-----------------------------------------------------------------------------
(* Calls on the experiment.                                                   *)

LEMMA StartSound ==
    ASSUME SlurmIInv, Start
    PROVE  SlurmIInv'
<1> USE DEF SlurmIInv, Start, slurmVars, files
<1>1. /\ rec' \in Recs /\ rec'.status = "queued" /\ rec'.job = rec.job
      /\ rec'.gen = rec.gen /\ rec.status \in {"failed", "cancelled"}
  BY DEF Shapes, Recs
<1>2. Shapes'
  BY <1>1 DEF Shapes
<1>3. Directories' /\ Submission' /\ Named' /\ RunningIsWatched'
  BY <1>1 DEF Directories, Submission, Named, RunningIsWatched
<1>4. Settling' /\ Finishing'
  BY <1>1 DEF Settling, StillRuns, Finishing
<1>5. JobsOwned' /\ SlotFollowsRecord'
  BY <1>1 DEF JobsOwned, Live, SlotFollowsRecord
<1>6. EndedBySlurm' /\ ResultsOfFinalAttempt'
  BY <1>1 DEF EndedBySlurm, ResultsOfFinalAttempt
<1>7. Markers' /\ Evidence' /\ WholeOutput' /\ Pulling'
  BY DEF Markers, Evidence, WholeOutput, Pulling
<1> QED
  BY <1>2, <1>3, <1>4, <1>5, <1>6, <1>7

\* A record without a job is queued again; no monitor is its own.
LEMMA RequeueSound ==
    ASSUME SlurmIInv, Requeue
    PROVE  SlurmIInv'
<1> USE DEF SlurmIInv, Requeue, slurmVars, files
<1>1. /\ rec' \in Recs /\ rec'.status = "queued" /\ rec'.job = rec.job
      /\ rec'.gen = rec.gen /\ rec.status = "failed"
  BY SlurmAssumption DEF Shapes, Recs, Named
<1>2. Shapes'
  BY <1>1 DEF Shapes
<1>3. Directories' /\ Submission' /\ Named' /\ RunningIsWatched'
  BY <1>1 DEF Directories, Submission, Named, RunningIsWatched
<1>4. Settling' /\ Finishing'
  BY <1>1 DEF Settling, StillRuns, Finishing
<1>5. JobsOwned' /\ SlotFollowsRecord'
  BY <1>1 DEF JobsOwned, Live, SlotFollowsRecord
<1>6. EndedBySlurm' /\ ResultsOfFinalAttempt'
  BY <1>1 DEF EndedBySlurm, ResultsOfFinalAttempt
<1>7. Markers' /\ Evidence' /\ WholeOutput' /\ Pulling'
  BY DEF Markers, Evidence, WholeOutput, Pulling
<1> QED
  BY <1>2, <1>3, <1>4, <1>5, <1>6, <1>7

\* A job that is cancelled lives no more; one that is not is told apart.
LEMMA CancelSound ==
    ASSUME SlurmIInv, NEW reaches \in BOOLEAN, Cancel(reaches)
    PROVE  SlurmIInv'
<1> USE DEF SlurmIInv
<1> DEFINE scancelled == rec.status = "running" /\ Live(rec.job)
           p == [past EXCEPT !.cancels = @ + 1, !.raced = @ \/ sub.at # "idle",
                             !.orphan = @ \/ (scancelled /\ ~reaches)]
<1>1. /\ held' = FALSE /\ past' = p
      /\ UNCHANGED <<remote, sub, mon, lock, log, tokens>>
  BY DEF Cancel, files
<1>2. /\ past' \in PastRecs
      /\ past'.recovered = past.recovered /\ past'.unsent = past.unsent
      /\ past'.raced = (past.raced \/ sub.at # "idle")
      /\ past'.orphan = (past.orphan \/ (scancelled /\ ~reaches))
  <2> DEFINE Set == PastRecs
             raced  == past.raced \/ sub.at # "idle"
             orphan == past.orphan \/ (scancelled /\ ~reaches)
             both(r, a, b) == [[r EXCEPT !.raced = a] EXCEPT !.orphan = b]
  <2>1. \A r \in Set, a \in BOOLEAN, b \in BOOLEAN :
           /\ both(r, a, b) \in Set /\ both(r, a, b).recovered = r.recovered
           /\ both(r, a, b).unsent = r.unsent
           /\ both(r, a, b).raced = a /\ both(r, a, b).orphan = b
    BY DEF PastRecs
  <2>2. raced \in BOOLEAN /\ orphan \in BOOLEAN
    BY Zenon
  <2> DEFINE q == [past EXCEPT !.cancels = @ + 1]
  <2>3. q \in Set /\ q.recovered = past.recovered /\ q.unsent = past.unsent
    BY DEF Shapes, PastRecs
  <2>4. past' = both(q, raced, orphan)
    <3>1. q.raced = past.raced /\ q.orphan = past.orphan
      BY DEF Shapes, PastRecs
    <3> QED
      BY Zenon, <1>1, <3>1
  <2> HIDE DEF q, raced, orphan, both, Set
  <2>5. /\ past' \in Set /\ past'.recovered = past.recovered /\ past'.raced = raced
        /\ past'.orphan = orphan /\ past'.unsent = past.unsent
    BY <2>1, <2>2, <2>3, <2>4
  <2> QED
    BY Zenon, <2>5 DEF Set, raced, orphan
<1>3. /\ rec' \in Recs /\ rec'.job = rec.job /\ rec'.gen = rec.gen
      /\ rec'.result = rec.result /\ rec'.status # "running"
      /\ rec'.status \in {rec.status, "cancelled"}
      /\ rec.status = "completed" => rec'.status = "completed"
  <2>1. \A r \in Recs : LET x == [r EXCEPT !.status = "cancelled"]
                        IN /\ x \in Recs /\ x.status = "cancelled" /\ x.job = r.job
                           /\ x.gen = r.gen /\ x.result = r.result
    BY DEF Recs, Ended
  <2>2. rec \in Recs
    BY DEF Shapes
  <2>3. CASE rec.status \in {"queued", "running"}
    BY <2>1, <2>2, <2>3 DEF Cancel
  <2>4. CASE rec.status \notin {"queued", "running"}
    <3>1. rec' = rec
      BY Zenon, <2>4 DEF Cancel
    <3> QED
      BY <2>2, <3>1, <2>4
  <2> QED
    BY <2>3, <2>4
<1>4. /\ jobs' \in [Targets -> JobRecs]
      /\ \A t \in Targets : jobs'[t] # jobs[t] =>
            t = rec.job /\ Live(t) /\ scancelled /\ reaches /\ jobs'[t].state = "cancelled"
      /\ scancelled /\ reaches => jobs'[rec.job].state = "cancelled"
  <2>1. CASE ~(scancelled /\ reaches)
    BY <2>1 DEF Cancel, Shapes
  <2>2. CASE scancelled /\ reaches
    <3>1. rec.job \in Targets /\ Live(rec.job)
      BY <2>2 DEF Named
    <3>2. jobs' = [jobs EXCEPT ![rec.job].state = "cancelled"]
      BY <2>2 DEF Cancel
    <3>3. \A j \in JobRecs : LET x == [j EXCEPT !.state = "cancelled"]
                             IN x \in JobRecs /\ x.state = "cancelled"
      BY DEF JobRecs, JobState, Ended
    <3> QED
      BY <2>2, <3>1, <3>2, <3>3 DEF Shapes
  <2> QED
    BY <2>1, <2>2
<1> HIDE DEF p, scancelled
<1>5. Shapes'
  BY <1>1, <1>2, <1>3, <1>4 DEF Shapes
<1>6. \A t \in Targets : Live(t) => jobs[t].state \notin Ended \union {"none"}
  BY DEF Live, Ended
<1>7. Directories'
  BY <1>1, <1>3, <1>4, <1>6 DEF Directories
<1>8. Submission'
  BY <1>1, <1>2, <1>3, <1>4, <1>6 DEF Submission
<1>9. Named' /\ RunningIsWatched' /\ SlotFollowsRecord'
  BY <1>1, <1>2, <1>3 DEF Named, RunningIsWatched, SlotFollowsRecord
<1>10. Evidence'
  BY <1>1, <1>4, <1>6 DEF Evidence, Shapes, MonRecs
<1>11. WholeOutput'
  BY <1>1, <1>4 DEF WholeOutput
<1>12. Pulling' /\ Settling' /\ Finishing'
  BY <1>1, <1>3 DEF Pulling, Settling, StillRuns, Finishing, Owns
<1>13. JobsOwned'
  <2>1. \A t \in Targets : Live(t)' => Live(t)
    BY <1>4 DEF Live
  <2>2. ASSUME NEW t \in Targets, Live(t)', ~past'.orphan, ~past'.raced PROVE FALSE
    <3>1. rec.status = "running" /\ rec.job = t
      BY <1>2, <2>1, <2>2 DEF JobsOwned
    <3>2. scancelled /\ reaches
      BY <1>2, <2>1, <2>2, <3>1 DEF scancelled
    <3> QED
      BY <1>4, <2>2, <3>1, <3>2 DEF Live
  <2> QED
    BY <2>2 DEF JobsOwned
<1>14. EndedBySlurm'
  <2>1. rec'.status \in {"completed", "failed"} =>
           /\ rec'.status = rec.status
           /\ ~past.unsent => rec.job \in Targets /\ jobs[rec.job].state \in Ended
    BY <1>3 DEF Named, EndedBySlurm
  <2> QED
    BY <1>2, <1>3, <1>4, <1>6, <2>1 DEF EndedBySlurm
<1>15. Markers' /\ ResultsOfFinalAttempt'
  BY <1>1, <1>2, <1>3 DEF Markers, ResultsOfFinalAttempt, OwnResults
<1> QED
  BY <1>5, <1>7, <1>8, <1>9, <1>10, <1>11, <1>12, <1>13, <1>14, <1>15

\* What is copied of a job that has ended well is its whole output.
LEMMA PullCopySound ==
    ASSUME SlurmIInv, PullCopy
    PROVE  SlurmIInv'
<1> USE DEF SlurmIInv
<1>1. /\ lock.by \in {"monitor", "route"} /\ lock.job \in Targets
      /\ UNCHANGED <<rec, jobs, remote, sub, mon, log, held, tokens, past>>
  BY DEF PullCopy, Pulling, slurmVars, files
<1>2. /\ Marker(lock.job) \in Int /\ remote[lock.job].text \in AnyText
  BY <1>1, MarkerRan DEF Shapes, Remotes
<1>3. /\ lock' \in Locks /\ lock'.by = lock.by /\ lock'.job = lock.job
      /\ lock'.step = "copied" /\ lock'.text = remote[lock.job].text
  <2>1. lock \in Locks
    BY DEF Shapes
  <2> DEFINE x == Marker(lock.job)  y == remote[lock.job].text
  <2>2. /\ lock' = [lock EXCEPT !.step = "copied", !.marker = x, !.text = y]
        /\ x \in Int /\ y \in AnyText
    BY <1>2 DEF PullCopy
  <2> HIDE DEF x, y
  <2>3. lock' \in Locks /\ lock'.text = y /\ lock'.step = "copied"
    BY <2>1, <2>2 DEF Locks
  <2>4. lock'.by = lock.by /\ lock'.job = lock.job
    BY <2>1, <2>2 DEF Locks
  <2> QED
    BY <2>3, <2>4 DEF y
<1>4. Pulling'
  BY <1>1, <1>3 DEF Pulling, Evidence, WholeOutput
<1>5. Settling'
  BY <1>1, <1>3 DEF Settling, StillRuns, Owns, Evidence, WholeOutput
<1> QED
  BY <1>1, <1>3, <1>4, <1>5, LockStepSound

LEMMA PullRequestSound ==
    ASSUME SlurmIInv, PullRequest
    PROVE  SlurmIInv'
<1>1. /\ rec.status = "running" /\ rec.job \in Targets /\ rec.gen \in Nat
      /\ lock' = Holding("route", rec.job, rec.gen)
      /\ UNCHANGED <<rec, jobs, remote, sub, mon, log, held, tokens, past>>
  BY DEF PullRequest, slurmVars, files, SlurmIInv, Named, Shapes, Recs
<1>2. lock' \in Locks /\ lock'.by = "route" /\ lock'.job = rec.job /\ lock'.step = "begin"
  BY <1>1, HoldingIs
<1>3. Pulling'
  BY <1>1, <1>2 DEF Pulling
<1>4. Settling'
  BY <1>1, <1>2 DEF SlurmIInv, Settling, StillRuns, Owns
<1> QED
  BY <1>1, <1>2, <1>3, <1>4, LockStepSound

\* A pull that ends while a record is being settled leaves the log what it was.
LEMMA PullRequestEndSound ==
    ASSUME SlurmIInv, PullRequestEnd
    PROVE  SlurmIInv'
<1> USE DEF SlurmIInv
<1>1. /\ lock.by = "route" /\ lock.step = "copied" /\ lock' = Free
      /\ log' = IF Verified /\ lock.text # NoText THEN lock.text ELSE log
      /\ UNCHANGED <<rec, jobs, remote, sub, mon, held, tokens, past>>
  BY DEF PullRequestEnd, Publish, slurmVars
<1>2. log' \in {log, lock.text} /\ log' \in AnyText
  BY <1>1 DEF Shapes, Locks
<1>3. Shapes'
  BY <1>1, <1>2, FreeIsFree DEF Shapes
<1>4. Pulling'
  BY <1>1, FreeIsFree DEF Pulling
<1>5. Settling'
  BY <1>1, <1>2, FreeIsFree DEF Settling, StillRuns, Owns
<1>6. Markers' /\ Directories' /\ Submission' /\ Named' /\ RunningIsWatched'
  BY <1>1 DEF Markers, Directories, Submission, Named, RunningIsWatched
<1>7. Evidence' /\ WholeOutput' /\ Finishing' /\ JobsOwned'
  BY <1>1 DEF Evidence, WholeOutput, Finishing, Owns, JobsOwned, Live
<1>8. EndedBySlurm' /\ ResultsOfFinalAttempt' /\ SlotFollowsRecord'
  BY <1>1 DEF EndedBySlurm, ResultsOfFinalAttempt, OwnResults, SlotFollowsRecord
<1> QED
  BY <1>3, <1>4, <1>5, <1>6, <1>7, <1>8

\* A progress write, and a recovery that is begun, have nothing to do with pulls.
LEMMA OtherLockSound ==
    ASSUME SlurmIInv, lock' \in Locks, lock'.by \in {"none", "progress", "recover"},
           UNCHANGED <<rec, jobs, remote, sub, mon, log, held, tokens, past>>
    PROVE  SlurmIInv'
BY LockStepSound DEF SlurmIInv, Pulling, Settling, StillRuns, Owns

LEMMA ProgressSound ==
    ASSUME SlurmIInv, (\E t \in Targets, g \in Gens : Progress(t, g)) \/ ProgressWritten
    PROVE  SlurmIInv'
<1>1. CASE ProgressWritten
  BY <1>1, FreeIsFree, OtherLockSound DEF ProgressWritten, slurmVars
<1>2. ASSUME NEW t \in Targets, NEW g \in Gens, Progress(t, g) PROVE SlurmIInv'
  BY <1>2, HoldingIs, OtherLockSound DEF Progress, slurmVars, files, Gens
<1> QED
  BY <1>1, <1>2

LEMMA RecoverSound ==
    ASSUME SlurmIInv, Recover
    PROVE  SlurmIInv'
<1>1. /\ rec.job \in Targets \union {NoJob} /\ rec.gen \in Nat /\ log \in AnyText
      /\ lock' = [Holding("recover", rec.job, rec.gen) EXCEPT !.text = log]
      /\ UNCHANGED <<rec, jobs, remote, sub, mon, log, held, tokens, past>>
  BY DEF Recover, slurmVars, files, SlurmIInv, Shapes, Recs
<1>2. \A l \in Locks : LET x == [l EXCEPT !.text = log] IN x \in Locks /\ x.by = l.by
  BY <1>1 DEF Locks
<1>3. LET h == Holding("recover", rec.job, rec.gen) IN h \in Locks /\ h.by = "recover"
  BY <1>1, HoldingIs
<1> QED
  BY <1>1, <1>2, <1>3, OtherLockSound

\* What is recovered is told apart; its job has ended.
LEMMA RecoveredSound ==
    ASSUME SlurmIInv, Recovered
    PROVE  SlurmIInv'
<1> USE DEF SlurmIInv
<1> DEFINE still == rec.status = "failed" /\ Owns(lock.job, lock.gen)
<1>1. /\ lock' = Free
      /\ rec' = IF still THEN [rec EXCEPT !.status = "completed", !.result = lock.text] ELSE rec
      /\ past' = [past EXCEPT !.recovered = @ \/ still]
      /\ UNCHANGED <<jobs, remote, sub, mon, log, held, tokens>>
  BY DEF Recovered, slurmVars, files
<1>2. /\ past' \in PastRecs
      /\ past'.recovered = (past.recovered \/ still)
      /\ past'.raced = past.raced /\ past'.orphan = past.orphan
      /\ past'.unsent = past.unsent
  <2> HIDE DEF still
  <2>1. past \in PastRecs
    BY DEF Shapes
  <2> QED
    BY <1>1, <2>1 DEF PastRecs
<1>3. CASE ~still
  <2>1. rec' = rec /\ past'.recovered = past.recovered
    BY <1>1, <1>2, <1>3 DEF Shapes, PastRecs
  <2>2. Shapes'
    BY <1>1, <1>2, <2>1, FreeIsFree DEF Shapes
  <2>3. Pulling' /\ Settling'
    BY <1>1, <2>1, FreeIsFree DEF Pulling, Settling, StillRuns, Owns
  <2>4. Markers' /\ Directories' /\ Submission' /\ Named' /\ RunningIsWatched'
    BY <1>1, <1>2, <2>1 DEF Markers, Directories, Submission, Named, RunningIsWatched
  <2>5. Evidence' /\ WholeOutput' /\ Finishing' /\ JobsOwned'
    BY <1>1, <1>2, <2>1 DEF Evidence, WholeOutput, Finishing, Owns, JobsOwned, Live
  <2>6. EndedBySlurm' /\ ResultsOfFinalAttempt' /\ SlotFollowsRecord'
    BY <1>1, <1>2, <2>1 DEF EndedBySlurm, ResultsOfFinalAttempt, OwnResults,
                            SlotFollowsRecord
  <2> QED
    BY <2>2, <2>3, <2>4, <2>5, <2>6
<1>4. CASE still
  <2>1. /\ rec.status = "failed" /\ past'.recovered
        /\ rec' \in Recs /\ rec'.status = "completed" /\ rec'.job = rec.job
        /\ rec'.gen = rec.gen
    <3>1. lock.text \in AnyText /\ rec \in Recs
      BY DEF Shapes, Locks
    <3>2. \A r \in Recs :
             LET x == [[r EXCEPT !.status = "completed"] EXCEPT !.result = lock.text]
             IN x \in Recs /\ x.status = "completed" /\ x.job = r.job /\ x.gen = r.gen
      BY <3>1 DEF Recs, Ended
    <3> QED
      BY <1>1, <1>2, <1>4, <3>1, <3>2
  <2> HIDE DEF still
  <2>2. Shapes'
    BY <1>1, <1>2, <2>1, FreeIsFree DEF Shapes
  <2>3. Pulling' /\ Settling'
    BY <1>1, <2>1, FreeIsFree DEF Pulling, Settling, StillRuns, Owns
  <2>4. Markers' /\ Directories' /\ Submission' /\ Named' /\ RunningIsWatched'
    BY <1>1, <1>2, <2>1 DEF Markers, Directories, Submission, Named, RunningIsWatched
  <2>5. Evidence' /\ WholeOutput' /\ Finishing' /\ JobsOwned'
    BY <1>1, <1>2, <2>1 DEF Evidence, WholeOutput, Finishing, Owns, JobsOwned, Live
  <2>6. EndedBySlurm' /\ ResultsOfFinalAttempt' /\ SlotFollowsRecord'
    BY <1>1, <1>2, <2>1 DEF EndedBySlurm, ResultsOfFinalAttempt, SlotFollowsRecord
  <2> QED
    BY <2>2, <2>3, <2>4, <2>5, <2>6
<1> QED
  BY <1>3, <1>4

\* The next process watches what the record says, and holds its slot and token.
LEMMA CrashSound ==
    ASSUME SlurmIInv, Crash
    PROVE  SlurmIInv'
<1> USE DEF SlurmIInv
<1>1. /\ mon' = [t \in Targets |-> IF t \in Adopted THEN Asleep ELSE Off]
      /\ tokens' = Adopted /\ held' = (Adopted # {})
      /\ sub' = [at |-> "idle", on |-> NoJob] /\ lock' = Free
      /\ past' = [past EXCEPT !.crashed = TRUE, !.orphan = @ \/ sub.at = "sent"]
      /\ UNCHANGED <<rec, jobs, remote, log>>
  BY DEF Crash, AdoptedTokens, slurmVars, files
<1>2. /\ Adopted \subseteq Targets
      /\ rec.status = "running" => Adopted = {rec.job}
      /\ rec.status # "running" => Adopted = {}
  BY DEF Adopted, Named
<1>3. /\ mon' \in [Targets -> MonRecs]
      /\ \A t \in Targets : mon'[t].at = IF t \in Adopted THEN "sleep" ELSE "off"
  BY <1>1, FreeIsFree
<1>4. /\ past' \in PastRecs
      /\ past'.recovered = past.recovered /\ past'.raced = past.raced
      /\ past'.unsent = past.unsent
      /\ past'.orphan = (past.orphan \/ sub.at = "sent")
  <2> DEFINE both(r, b) == [[r EXCEPT !.crashed = TRUE] EXCEPT !.orphan = b]
             Set == PastRecs
             orphan == past.orphan \/ sub.at = "sent"
  <2>1. \A r \in Set, b \in BOOLEAN :
           /\ both(r, b) \in Set /\ both(r, b).recovered = r.recovered
           /\ both(r, b).raced = r.raced /\ both(r, b).orphan = b
           /\ both(r, b).unsent = r.unsent
    BY DEF PastRecs
  <2>2. past \in Set
    BY DEF Shapes
  <2>3. orphan \in BOOLEAN
    BY Zenon
  <2>4. past' = both(past, orphan)
    BY <2>2, <1>1
  <2> HIDE DEF Set, both, orphan
  <2>5. past' \in Set /\ past'.recovered = past.recovered /\ past'.raced = past.raced
        /\ past'.orphan = orphan /\ past'.unsent = past.unsent
    BY <2>1, <2>2, <2>3, <2>4
  <2> QED
    BY Zenon, <2>5 DEF Set, orphan
<1>5. Shapes'
  BY <1>1, <1>2, <1>3, <1>4, FreeIsFree DEF Shapes
<1>6. Directories'
  BY <1>1, <1>2, <1>3 DEF Directories
<1>7. Submission' /\ Named'
  BY <1>1 DEF Submission, Named
<1>8. RunningIsWatched'
  BY <1>1, <1>2, <1>3 DEF RunningIsWatched, Named
<1>9. Evidence' /\ Finishing'
  BY <1>3 DEF Evidence, Finishing
<1>10. Pulling' /\ Settling'
  BY <1>1, <1>3, FreeIsFree DEF Pulling, Settling
<1>11. JobsOwned'
  BY <1>1, <1>4 DEF JobsOwned, Live
<1>12. SlotFollowsRecord'
  BY <1>1, <1>2 DEF SlotFollowsRecord
<1>13. Markers' /\ WholeOutput' /\ EndedBySlurm' /\ ResultsOfFinalAttempt'
  BY <1>1, <1>4 DEF Markers, WholeOutput, EndedBySlurm, ResultsOfFinalAttempt, OwnResults
<1> QED
  BY <1>5, <1>6, <1>7, <1>8, <1>9, <1>10, <1>11, <1>12, <1>13

LEMMA SlurmUnchangedSound ==
    ASSUME SlurmIInv, UNCHANGED vars
    PROVE  SlurmIInv'
<1>1. lock' = lock /\ UNCHANGED <<rec, jobs, remote, sub, mon, log, held, tokens, past>>
  BY DEF vars
<1>2. lock' \in Locks
  BY <1>1 DEF SlurmIInv, Shapes
<1>3. Pulling' /\ Settling'
  BY <1>1 DEF SlurmIInv, Pulling, Settling, StillRuns, Owns
<1> QED
  BY <1>1, <1>2, <1>3, LockStepSound

LEMMA SlurmStepSound ==
    ASSUME SlurmIInv, [Next]_vars
    PROVE  SlurmIInv'
<1>1. CASE Submitting
  BY <1>1, SubmitBeginSound, SubmitUnfitSound, SubmitDirectorySound, SubmitStopsSound,
     SubmitSendSound, SubmitRecordSound DEF Submitting
<1>2. ASSUME NEW t \in Targets, JobRuns(t) \/ Monitor(t) PROVE SlurmIInv'
  BY <1>2, JobRunsSound, MonitorSound
<1>3. CASE PullCopy
  BY <1>3, PullCopySound
<1>4. CASE Call
  BY <1>4, StartSound, RequeueSound, CancelSound, PullRequestSound, PullRequestEndSound, ProgressSound,
     RecoverSound, RecoveredSound DEF Call
<1>5. CASE Crash
  BY <1>5, CrashSound
<1>6. CASE UNCHANGED vars
  BY <1>6, SlurmUnchangedSound
<1> QED
  BY <1>1, <1>2, <1>3, <1>4, <1>5, <1>6 DEF Next

\* The evidence a monitor holds, what it pulls and the slot it gives back stay in step
\* with the record through every interference (_monitor_slurm_job, _pull_slurm_owned,
\* _start_slurm, cancel, reattach_running): the inductive invariant holds.
THEOREM SlurmSound == Spec => []SlurmIInv
<1>1. Init => SlurmIInv
  BY SlurmInitSound
<1>2. SlurmIInv /\ [Next]_vars => SlurmIInv'
  BY SlurmStepSound
<1> QED
  BY <1>1, <1>2, PTL DEF Spec

-----------------------------------------------------------------------------
(* What it gives.                                                             *)

\* _monitor_slurm_job completes a record with the whole output of the last attempt of
\* its job, however pulls, requeues, cancels and restarts fall.
THEOREM ResultsOfFinalAttemptHolds == Spec => []ResultsOfFinalAttempt
<1>1. SlurmIInv => ResultsOfFinalAttempt
  BY DEF SlurmIInv
<1> QED
  BY <1>1, SlurmSound, PTL

\* A record that was submitted completes or fails only once Slurm has ended its job in
\* the generation the record has: accounting that lags or says nothing settles nothing.
\* One that fails in _start_slurm before it is submitted has no job that still runs,
\* unless an answer of sbatch or scancel was lost or a cancel raced a submission.
THEOREM NeverEndedEarlyHolds == Spec => []NeverEndedEarly
<1>1. SlurmIInv => NeverEndedEarly
  <2> SUFFICES ASSUME SlurmIInv PROVE NeverEndedEarly
    OBVIOUS
  <2>1. EndedBySlurm
    BY DEF SlurmIInv
  <2>2. ASSUME rec.status = "failed", ~past.orphan, ~past.raced, NEW t \in Targets
        PROVE  ~Live(t)
    BY <2>2 DEF SlurmIInv, JobsOwned, Submission
  <2> QED
    BY <2>1, <2>2 DEF NeverEndedEarly
<1> QED
  BY <1>1, SlurmSound, PTL

\* The slot reserved by _dispatch_once is kept while the record runs and comes back
\* when it has settled, unless a cancel came between its reservation and the record.
THEOREM SlotFollowsRecordHolds == Spec => []SlotFollowsRecord
<1>1. SlurmIInv => SlotFollowsRecord
  BY DEF SlurmIInv
<1> QED
  BY <1>1, SlurmSound, PTL

\* A record that runs has a monitor, and its job a run token, after a restart of the
\* server too (reattach_running).
THEOREM RunningIsWatchedHolds == Spec => []RunningIsWatched
<1>1. SlurmIInv => RunningIsWatched
  BY DEF SlurmIInv
<1> QED
  BY <1>1, SlurmSound, PTL

\* What lives is the record's job or the one just sent, and while a job is sent the
\* record does not run: of a set of resources no two have a live job.
LEMMA OneJobOfInvariant == SlurmIInv => OneJob
<1> SUFFICES ASSUME SlurmIInv, ~past.orphan, ~past.raced
             PROVE  Cardinality({t \in Targets : Live(t)}) <= 1
  BY DEF OneJob
<1> DEFINE L == {t \in Targets : Live(t)}
<1>1. \A t, u \in L : t = u
  BY DEF SlurmIInv, JobsOwned, Submission
<1>2. CASE L = {}
  BY <1>2, FS_EmptySet
<1>3. CASE L # {}
  <2>1. PICK t : L = {t}
    BY <1>1, <1>3
  <2> HIDE DEF L
  <2>2. Cardinality({t}) = 1
    BY FS_Singleton
  <2> QED
    BY <2>1, <2>2 DEF L
<1> QED
  BY <1>2, <1>3

\* The Lab never has two live jobs for the experiment (_start_slurm and the monitor on
\* a preemption), unless an answer of sbatch or scancel was lost or a cancel raced it.
THEOREM OneJobHolds == Spec => []OneJob
BY SlurmSound, OneJobOfInvariant, PTL
=============================================================================
