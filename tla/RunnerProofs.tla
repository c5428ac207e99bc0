---------------------------- MODULE RunnerProofs ----------------------------
(***************************************************************************)
(* Theorems about Runner: its type invariant, and what the runner          *)
(* guarantees to the experiments nobody interferes with, whatever is done  *)
(* to the others; and that it implements UnitLease, for any experiments,   *)
(* processes and resources, as long as clients leave the experiments alone *)
(* and the server stays up: starts may be refused, waiters may reconcile.  *)
(***************************************************************************)
EXTENDS RunnerInvariant, TLAPS

-----------------------------------------------------------------------------
(* The allocator.                                                          *)

\* What a reservation picks (free[:count]) are units of the resource, and
\* none of them is held by anybody.
LEMMA PickIsFree ==
  ASSUME NEW r \in DOMAIN Config, NEW n, NEW table
  PROVE  /\ Lowest(FreeUnits(Config, table, r), n) \subseteq Units
         /\ \A l \in DOMAIN table :
              Lowest(FreeUnits(Config, table, r), n) \cap table[l] = {}
<1>1. Lowest(FreeUnits(Config, table, r), n)
        \subseteq FreeUnits(Config, table, r)
  BY DEF Lowest
<1>2. FreeUnits(Config, table, r) \subseteq Units
  BY DEF FreeUnits, Units
<1>3. \A l \in DOMAIN table : FreeUnits(Config, table, r) \cap table[l] = {}
  BY DEF FreeUnits, Taken
<1> QED BY <1>1, <1>2, <1>3

-----------------------------------------------------------------------------
(* Types.                                                                  *)

\* Every step of the scheduler keeps the types.
LEMMA SchedulerTypes == TypeOK /\ Scheduler => TypeOK'
<1> SUFFICES ASSUME TypeOK, Scheduler PROVE TypeOK'
  OBVIOUS
<1> USE DEF TypeOK, store, os, pass, starting, history, Status, MonStage
<1>1. CASE ScanBegin
  BY <1>1 DEF ScanBegin
<1>2. CASE ScanEnd
  BY <1>2 DEF ScanEnd
<1>3. ASSUME NEW e \in Exps, ScanFail(e) \/ ScanCancel(e) \/ ScanSkip(e)
      PROVE  TypeOK'
  BY <1>3 DEF ScanFail, ScanCancel, ScanSkip, Settle
<1>4. ASSUME NEW e \in Exps, ScanStart(e)
      PROVE  TypeOK'
  <2>1. curUnits' \subseteq Units
    BY <1>4, PickIsFree DEF ScanStart
  <2> QED BY <1>4, <2>1 DEF ScanStart
<1>5. ASSUME NEW e \in Exps, ScanNoScript(e)
      PROVE  TypeOK'
  <2>1. PICK r \in DOMAIN Config :
          assigned' = [assigned EXCEPT ![e] =
                         Lowest(FreeUnits(Config, allocs, r),
                                UnitsWanted(Config[r], Req[e]))]
    BY <1>5 DEF ScanNoScript
  <2> DEFINE pick == Lowest(FreeUnits(Config, allocs, r),
                            UnitsWanted(Config[r], Req[e]))
  <2>2. pick \subseteq Units
    BY PickIsFree
  <2> HIDE DEF pick
  <2>3. assigned' \in [Exps -> SUBSET Units]
    <3>1. assigned' = [assigned EXCEPT ![e] = pick]
      BY <2>1 DEF pick
    <3> QED BY <3>1, <2>2
  <2> QED BY <1>5, <2>3 DEF ScanNoScript, Release
<1>6. CASE StartRefused
  BY <1>6 DEF StartRefused, Release
<1>7. CASE StartRecord
  BY <1>7 DEF StartRecord, Record
<1>8. ASSUME NEW p \in Procs, StartSpawn(p)
      PROVE  TypeOK'
  BY <1>8 DEF StartSpawn
<1> QED BY <1>1, <1>2, <1>3, <1>4, <1>5, <1>6, <1>7, <1>8 DEF Scheduler

\* So do the monitors, processes and reconcile threads.
LEMMA MonitorTypes ==
  TypeOK /\ (\E p \in Procs : Monitor(p)) => TypeOK'
<1> SUFFICES ASSUME TypeOK, NEW p \in Procs, Monitor(p) PROVE TypeOK'
  OBVIOUS
<1> USE DEF TypeOK, store, os, pass, starting, history, Status, MonStage
<1>1. CASE MonitorTimeout(p) \/ MonitorKill(p) \/ MonitorWake(p) \/ PollWake(p)
  BY <1>1 DEF MonitorTimeout, MonitorKill, MonitorWake, PollWake
<1>2. CASE MonitorFinish(p)
  BY <1>2 DEF MonitorFinish, Record, Release, Outcome
<1>3. CASE MonitorStrip(p) \/ MonitorRelease(p)
  BY <1>3 DEF MonitorStrip, MonitorRelease, Record, Release
<1>4. CASE PollFinish(p)
  BY <1>4 DEF PollFinish, Record, Release
<1> QED BY <1>1, <1>2, <1>3, <1>4 DEF Monitor

LEMMA ReconcileTypes ==
  TypeOK /\ (\E e \in Exps : Reconcile(e)) => TypeOK'
BY DEF TypeOK, Reconcile, ReconcileBegin, ReconcileDrop, ReconcileCheck,
       ReconcileWrite, Record, Release, store, os, pass, starting, history,
       Status, MonStage

\* And the routes.
LEMMA RoutesTypes ==
  TypeOK /\ (\E e \in Exps : Routes(e)) => TypeOK'
<1> SUFFICES ASSUME TypeOK, NEW e \in Exps, Routes(e) PROVE TypeOK'
  OBVIOUS
<1> USE DEF TypeOK, store, os, pass, starting, history, Status, MonStage
<1>1. CASE Create(e)
  BY <1>1 DEF Create
<1>2. CASE CancelNow(e) \/ CancelBegin(e)
  BY <1>2 DEF CancelNow, CancelBegin, Release, Disturb
<1>3. ASSUME NEW p \in Procs, CancelEnd(e, p) PROVE TypeOK'
  BY <1>3 DEF CancelEnd, Record
<1>4. CASE Restart(e) \/ Requeue(e)
  BY <1>4 DEF Restart, Requeue, Disturb
<1>5. CASE DeleteBegin(e) \/ DeleteEnd(e)
  BY <1>5 DEF DeleteBegin, DeleteEnd, Disturb
<1> QED BY <1>1, <1>2, <1>3, <1>4, <1>5 DEF Routes

\* The other steps: a process ends, the server crashes or comes back.
LEMMA OutsideTypes ==
  TypeOK /\ (\/ \E p \in Procs, s \in {"ok", "err"} : ProcExit(p, s)
             \/ Crash \/ Boot) => TypeOK'
<1> SUFFICES ASSUME TypeOK,
                    \/ \E p \in Procs, s \in {"ok", "err"} : ProcExit(p, s)
                    \/ Crash \/ Boot
             PROVE  TypeOK'
  OBVIOUS
<1> USE DEF TypeOK, store, os, pass, starting, history, Status, MonStage
<1>1. ASSUME NEW p \in Procs, NEW s \in {"ok", "err"}, ProcExit(p, s)
      PROVE  TypeOK'
  BY <1>1 DEF ProcExit
<1>2. CASE Crash
  <2>1. disturbed' \subseteq Exps
    BY <1>2 DEF Crash
  <2>2. crashes' \in Nat
    BY <1>2 DEF Crash
  <2> QED BY <1>2, <2>1, <2>2 DEF Crash
<1>3. CASE Boot
  <2>1. status' \in [Exps -> Status] /\ pidOf' \in [Exps -> Procs \cup {NoProc}]
    BY <1>3 DEF Boot
  <2>2. mon' \in [Procs -> MonStage] /\ allocs' \in [Exps -> SUBSET Units]
    BY <1>3 DEF Boot, Restored
  <2> QED BY <1>3, <2>1, <2>2 DEF Boot
<1> QED BY <1>1, <1>2, <1>3

\* In every reachable state the variables have their types, for any set of
\* experiments and processes and any resource table.
THEOREM TypeCorrect == Spec => []TypeOK
<1>1. Init => TypeOK
  BY DEF Init, TypeOK, Status, MonStage
<1>2. TypeOK /\ [Next]_vars => TypeOK'
  <2> SUFFICES ASSUME TypeOK, [Next]_vars PROVE TypeOK'
    OBVIOUS
  <2>1. CASE UNCHANGED vars
    BY <2>1 DEF vars, TypeOK, store, os, pass, starting, history
  <2>2. CASE Next
    BY <2>2, SchedulerTypes, MonitorTypes, ReconcileTypes, RoutesTypes,
       OutsideTypes DEF Next
  <2> QED BY <2>1, <2>2
<1> QED BY <1>1, <1>2, PTL DEF Spec

-----------------------------------------------------------------------------
(* The invariant IInv: one lemma for each group of steps.  Under each step,  *)
(* the conjuncts that need no other come first, in one leaf.                 *)

\* A step of the scheduler keeps the invariant.
LEMMA SchedulerKeeps ==
  ASSUME TypeOK, TypeOK', IInv,
         Scheduler
  PROVE  IInv'
<1> USE NamesAssumption
<1> USE DEF TypeOK, Status, MonStage, Exists, Live, Exited, Loop, store, os,
            pass, starting, history, Record, Release, Settle, Disturb,
            Untouched, ProcsOf, Begun, Reading, Starting, Watched
<1>1. CASE ScanBegin
  <2>1. /\ CallsDisturb' /\ ProcsUsed' /\ OneProcess' /\ Recorded'
        /\ CurrentQueued' /\ RunningNamed' /\ ReconGone' /\ AllocsDisjoint'
        /\ UndisturbedExclusive' /\ UndisturbedFreed'
    BY <1>1 DEF IInv, ScanBegin, CallsDisturb, ProcsUsed, OneProcess,
        Recorded, CurrentQueued, RunningNamed, ReconGone, AllocsDisjoint,
        UndisturbedExclusive, UndisturbedFreed
  <2>2. StartingWell'
    BY <1>1 DEF IInv, ScanBegin, StartingWell
  <2>3. TodoQueued'
    BY <1>1 DEF IInv, ScanBegin, TodoQueued, StartingWell
  <2> QED BY <2>1, <2>2, <2>3 DEF IInv
<1>2. CASE ScanEnd
  BY <1>2 DEF IInv, ScanEnd, CallsDisturb, ProcsUsed, StartingWell,
      OneProcess, Recorded, CurrentQueued, RunningNamed, ReconGone,
      TodoQueued, AllocsDisjoint, UndisturbedExclusive, UndisturbedFreed
<1>3. ASSUME NEW e \in Exps, ScanFail(e)
      PROVE  IInv'
  <2>1. /\ CallsDisturb' /\ ProcsUsed' /\ StartingWell' /\ OneProcess'
        /\ RunningNamed' /\ TodoQueued' /\ AllocsDisjoint'
        /\ UndisturbedExclusive' /\ UndisturbedFreed'
    BY <1>3 DEF IInv, ScanFail, CallsDisturb, ProcsUsed, StartingWell,
        OneProcess, RunningNamed, TodoQueued, AllocsDisjoint,
        UndisturbedExclusive, UndisturbedFreed
  <2>2. Recorded'
    <3>1. /\ todo' \subseteq todo
          /\ UNCHANGED <<up, allocs, assigned, pidOf, cur, stage, child,
                         proc, owner, gpus, recon, disturbed>>
      BY <1>3 DEF ScanFail
    <3>2. e \in todo /\ \A f \in Exps : f # e => status'[f] = status[f]
      BY <1>3 DEF ScanFail, Next1
    <3>3. e \in Untouched => status[e] = "queued"
      BY <3>2 DEF IInv, TodoQueued
    <3> QED BY <3>1, <3>2, <3>3 DEF IInv, Recorded
  <2>3. CurrentQueued'
    BY <1>3 DEF IInv, ScanFail, CurrentQueued, StartingWell
  <2>4. ReconGone'
    <3>1. /\ todo' \subseteq todo
          /\ UNCHANGED <<up, allocs, assigned, pidOf, cur, stage, child,
                         proc, owner, gpus, recon, disturbed>>
      BY <1>3 DEF ScanFail
    <3>2. e \in todo /\ \A f \in Exps : f # e => status'[f] = status[f]
      BY <1>3 DEF ScanFail, Next1
    <3>3. e \in Untouched => status[e] = "queued"
      BY <3>2 DEF IInv, TodoQueued
    <3> QED BY <3>1, <3>2, <3>3 DEF IInv, ReconGone
  <2> QED BY <2>1, <2>2, <2>3, <2>4 DEF IInv
<1>4. ASSUME NEW e \in Exps, ScanCancel(e)
      PROVE  IInv'
  <2>1. /\ CallsDisturb' /\ ProcsUsed' /\ StartingWell' /\ OneProcess'
        /\ RunningNamed' /\ TodoQueued' /\ AllocsDisjoint'
        /\ UndisturbedExclusive' /\ UndisturbedFreed'
    BY <1>4 DEF IInv, ScanCancel, CallsDisturb, ProcsUsed, StartingWell,
        OneProcess, RunningNamed, TodoQueued, AllocsDisjoint,
        UndisturbedExclusive, UndisturbedFreed
  <2>2. Recorded'
    <3>1. /\ todo' \subseteq todo
          /\ UNCHANGED <<up, allocs, assigned, pidOf, cur, stage, child,
                         proc, owner, gpus, recon, disturbed>>
      BY <1>4 DEF ScanCancel
    <3>2. e \in todo /\ \A f \in Exps : f # e => status'[f] = status[f]
      BY <1>4 DEF ScanCancel, Next1
    <3>3. e \in Untouched => status[e] = "queued"
      BY <3>2 DEF IInv, TodoQueued
    <3> QED BY <3>1, <3>2, <3>3 DEF IInv, Recorded
  <2>3. CurrentQueued'
    BY <1>4 DEF IInv, ScanCancel, CurrentQueued, StartingWell
  <2>4. ReconGone'
    <3>1. /\ todo' \subseteq todo
          /\ UNCHANGED <<up, allocs, assigned, pidOf, cur, stage, child,
                         proc, owner, gpus, recon, disturbed>>
      BY <1>4 DEF ScanCancel
    <3>2. e \in todo /\ \A f \in Exps : f # e => status'[f] = status[f]
      BY <1>4 DEF ScanCancel, Next1
    <3>3. e \in Untouched => status[e] = "queued"
      BY <3>2 DEF IInv, TodoQueued
    <3> QED BY <3>1, <3>2, <3>3 DEF IInv, ReconGone
  <2> QED BY <2>1, <2>2, <2>3, <2>4 DEF IInv
<1>5. ASSUME NEW e \in Exps, ScanSkip(e)
      PROVE  IInv'
  BY <1>5 DEF IInv, ScanSkip, CallsDisturb, ProcsUsed, StartingWell,
      OneProcess, Recorded, CurrentQueued, RunningNamed, ReconGone,
      TodoQueued, AllocsDisjoint, UndisturbedExclusive, UndisturbedFreed
<1>6. ASSUME NEW e \in Exps, ScanStart(e)
      PROVE  IInv'
  <2>1. /\ CallsDisturb' /\ ProcsUsed' /\ StartingWell' /\ OneProcess'
        /\ RunningNamed' /\ ReconGone' /\ TodoQueued'
        /\ UndisturbedExclusive' /\ UndisturbedFreed'
    BY <1>6 DEF IInv, ScanStart, Placeable, CallsDisturb, ProcsUsed,
        StartingWell, OneProcess, RunningNamed, ReconGone, TodoQueued,
        UndisturbedExclusive, UndisturbedFreed
  <2>2. Recorded'
    BY <1>6 DEF IInv, ScanStart, Placeable, Recorded, TodoQueued
  <2>3. CurrentQueued'
    BY <1>6 DEF IInv, ScanStart, Placeable, CurrentQueued, TodoQueued,
        Recorded, StartingWell
  <2>4. AllocsDisjoint'
    <3>1. \A f \in Exps : curUnits' \cap allocs[f] = {}
      BY <1>6, PickIsFree DEF ScanStart
    <3> QED BY <1>6, <3>1 DEF IInv, ScanStart, AllocsDisjoint
  <2> QED BY <2>1, <2>2, <2>3, <2>4 DEF IInv
<1>7. ASSUME NEW e \in Exps, ScanNoScript(e)
      PROVE  IInv'
  <2>1. /\ CallsDisturb' /\ ProcsUsed' /\ StartingWell' /\ OneProcess'
        /\ RunningNamed' /\ ReconGone' /\ TodoQueued' /\ AllocsDisjoint'
        /\ UndisturbedExclusive' /\ UndisturbedFreed'
    BY <1>7 DEF IInv, ScanNoScript, Placeable, CallsDisturb, ProcsUsed,
        StartingWell, OneProcess, RunningNamed, ReconGone, TodoQueued,
        AllocsDisjoint, UndisturbedExclusive, UndisturbedFreed
  <2>2. Recorded'
    BY <1>7 DEF IInv, ScanNoScript, Placeable, Recorded, TodoQueued
  <2>3. CurrentQueued'
    BY <1>7 DEF IInv, ScanNoScript, Placeable, CurrentQueued, StartingWell
  <2> QED BY <2>1, <2>2, <2>3 DEF IInv
<1>8. CASE StartRefused
  <2>1. /\ CallsDisturb' /\ ProcsUsed' /\ StartingWell' /\ OneProcess'
        /\ CurrentQueued' /\ RunningNamed' /\ ReconGone' /\ TodoQueued'
        /\ AllocsDisjoint' /\ UndisturbedExclusive' /\ UndisturbedFreed'
    BY <1>8 DEF IInv, StartRefused, CallsDisturb, ProcsUsed, StartingWell,
        OneProcess, CurrentQueued, RunningNamed, ReconGone, TodoQueued,
        AllocsDisjoint, UndisturbedExclusive, UndisturbedFreed
  <2>2. Recorded'
    BY <1>8 DEF IInv, StartRefused, Recorded, StartingWell, CurrentQueued
  <2> QED BY <2>1, <2>2 DEF IInv
<1>9. ASSUME NEW p \in Procs, StartSpawn(p)
      PROVE  IInv'
  <2>1. /\ CallsDisturb' /\ Recorded' /\ CurrentQueued' /\ TodoQueued'
        /\ AllocsDisjoint'
    BY <1>9 DEF IInv, StartSpawn, CallsDisturb, Recorded, CurrentQueued,
        TodoQueued, AllocsDisjoint
  <2>2. ProcsUsed'
    BY <1>9 DEF IInv, StartSpawn, ProcsUsed, StartingWell
  <2>3. StartingWell'
    BY <1>9 DEF IInv, StartSpawn, StartingWell, ProcsUsed
  <2>4. OneProcess'
    BY <1>9 DEF IInv, StartSpawn, OneProcess, ProcsUsed, StartingWell,
        CurrentQueued
  <2>5. RunningNamed'
    BY <1>9 DEF IInv, StartSpawn, RunningNamed, ProcsUsed
  <2>6. ReconGone'
    BY <1>9 DEF IInv, StartSpawn, ReconGone, StartingWell, CurrentQueued
  <2>7. UndisturbedExclusive'
    <3>1. ASSUME NEW q \in Procs, q # p, Live(q), owner[q] \in Untouched,
                 cur \in Untouched
          PROVE  owner[q] # cur /\ gpus[q] \cap curUnits = {}
      <4>1. cur \in Exps /\ ProcsOf(cur) = {} /\ allocs[cur] = curUnits
        BY <1>9, <3>1 DEF IInv, StartSpawn, StartingWell, CurrentQueued
      <4>2. owner[q] # cur
        BY <4>1
      <4>3. up /\ allocs[owner[q]] = gpus[q]
        BY <1>9, <3>1 DEF IInv, StartSpawn, Recorded
      <4> QED BY <3>1, <4>1, <4>2, <4>3 DEF IInv, AllocsDisjoint
    <3>2. \A q \in Procs : q # p => /\ proc'[q] = proc[q]
                                   /\ owner'[q] = owner[q]
                                   /\ gpus'[q] = gpus[q]
      BY <1>9 DEF StartSpawn
    <3>3. owner'[p] = cur /\ gpus'[p] = curUnits /\ disturbed' = disturbed
      BY <1>9 DEF StartSpawn
    <3>4. \A q \in Procs : Live(q) => owner[q] \in Exps
      BY DEF IInv, ProcsUsed
    <3>5. ASSUME NEW a \in Procs, NEW b \in Procs, a # b, Live(a)', Live(b)',
                 owner'[a] \notin disturbed', owner'[b] \notin disturbed'
          PROVE  owner'[a] # owner'[b] /\ gpus'[a] \cap gpus'[b] = {}
      <4>1. CASE a = p
        BY <4>1, <3>1, <3>2, <3>3, <3>4, <3>5, <1>9 DEF IInv, StartSpawn,
           StartingWell
      <4>2. CASE b = p
        BY <4>2, <3>1, <3>2, <3>3, <3>4, <3>5, <1>9 DEF IInv, StartSpawn,
           StartingWell
      <4>3. CASE a # p /\ b # p
        BY <4>3, <3>2, <3>3, <3>5 DEF IInv, UndisturbedExclusive
      <4> QED BY <4>1, <4>2, <4>3
    <3> QED BY <3>5 DEF UndisturbedExclusive
  <2>8. UndisturbedFreed'
    BY <1>9 DEF IInv, StartSpawn, UndisturbedFreed, ProcsUsed
  <2> QED BY <2>1, <2>2, <2>3, <2>4, <2>5, <2>6, <2>7, <2>8 DEF IInv
<1>10. CASE StartRecord
  <2>1. /\ CallsDisturb' /\ StartingWell' /\ OneProcess' /\ CurrentQueued'
        /\ ReconGone' /\ TodoQueued' /\ AllocsDisjoint'
        /\ UndisturbedExclusive'
    BY <1>10 DEF IInv, StartRecord, CallsDisturb, StartingWell, OneProcess,
        CurrentQueued, ReconGone, TodoQueued, AllocsDisjoint,
        UndisturbedExclusive
  <2>2. ProcsUsed'
    BY <1>10 DEF IInv, StartRecord, ProcsUsed, StartingWell
  <2>3. Recorded'
    BY <1>10 DEF IInv, StartRecord, Recorded, StartingWell, CurrentQueued,
        OneProcess
  <2>4. RunningNamed'
    BY <1>10 DEF IInv, StartRecord, RunningNamed, StartingWell
  <2>5. UndisturbedFreed'
    BY <1>10 DEF IInv, StartRecord, UndisturbedFreed, StartingWell
  <2> QED BY <2>1, <2>2, <2>3, <2>4, <2>5 DEF IInv
<1> QED BY <1>1, <1>2, <1>3, <1>4, <1>5, <1>6, <1>7, <1>8, <1>9, <1>10
    DEF Scheduler

\* So does a step of a monitor.
LEMMA MonitorKeeps ==
  ASSUME TypeOK, TypeOK', IInv,
         \E p \in Procs : Monitor(p)
  PROVE  IInv'
<1> USE NamesAssumption
<1> USE DEF TypeOK, Status, MonStage, Exists, Live, Exited, Loop, store, os,
            pass, starting, history, Record, Release, Settle, Disturb,
            Untouched, ProcsOf, Begun, Reading, Starting, Watched
<1>1. ASSUME NEW p \in Procs, MonitorTimeout(p)
      PROVE  IInv'
  BY <1>1 DEF IInv, MonitorTimeout, CallsDisturb, ProcsUsed, StartingWell,
      OneProcess, Recorded, CurrentQueued, RunningNamed, ReconGone,
      TodoQueued, AllocsDisjoint, UndisturbedExclusive, UndisturbedFreed
<1>2. ASSUME NEW p \in Procs, MonitorKill(p)
      PROVE  IInv'
  BY <1>2 DEF IInv, MonitorKill, CallsDisturb, ProcsUsed, StartingWell,
      OneProcess, Recorded, CurrentQueued, RunningNamed, ReconGone,
      TodoQueued, AllocsDisjoint, UndisturbedExclusive, UndisturbedFreed
<1>3. ASSUME NEW p \in Procs, MonitorWake(p)
      PROVE  IInv'
  <2>1. /\ CallsDisturb' /\ ProcsUsed' /\ StartingWell' /\ OneProcess'
        /\ Recorded' /\ CurrentQueued' /\ RunningNamed' /\ ReconGone'
        /\ TodoQueued' /\ AllocsDisjoint' /\ UndisturbedExclusive'
    BY <1>3 DEF IInv, MonitorWake, CallsDisturb, ProcsUsed, StartingWell,
        OneProcess, Recorded, CurrentQueued, RunningNamed, ReconGone,
        TodoQueued, AllocsDisjoint, UndisturbedExclusive
  <2>2. UndisturbedFreed'
    BY <1>3 DEF IInv, MonitorWake, UndisturbedFreed, StartingWell, Recorded
  <2> QED BY <2>1, <2>2 DEF IInv
<1>4. ASSUME NEW p \in Procs, MonitorFinish(p)
      PROVE  IInv'
  <2>1. /\ CallsDisturb' /\ ProcsUsed' /\ StartingWell' /\ OneProcess'
        /\ RunningNamed' /\ ReconGone' /\ AllocsDisjoint'
        /\ UndisturbedExclusive'
    BY <1>4 DEF IInv, MonitorFinish, CancelledNow, Outcome, CallsDisturb,
        ProcsUsed, StartingWell, OneProcess, RunningNamed, ReconGone,
        AllocsDisjoint, UndisturbedExclusive
  <2>2. Recorded'
    BY <1>4 DEF IInv, MonitorFinish, CancelledNow, Outcome, Recorded,
        ProcsUsed, StartingWell, OneProcess
  <2>3. CurrentQueued'
    BY <1>4 DEF IInv, MonitorFinish, CancelledNow, Outcome, CurrentQueued,
        StartingWell, Recorded
  <2>4. TodoQueued'
    BY <1>4 DEF IInv, MonitorFinish, CancelledNow, Outcome, TodoQueued,
        StartingWell, Recorded
  <2>5. UndisturbedFreed'
    BY <1>4 DEF IInv, MonitorFinish, CancelledNow, Outcome, UndisturbedFreed,
        StartingWell, Recorded
  <2> QED BY <2>1, <2>2, <2>3, <2>4, <2>5 DEF IInv
<1>5. ASSUME NEW p \in Procs, MonitorStrip(p)
      PROVE  IInv'
  <2>1. /\ CallsDisturb' /\ ProcsUsed' /\ StartingWell' /\ OneProcess'
        /\ RunningNamed' /\ ReconGone' /\ AllocsDisjoint'
        /\ UndisturbedExclusive' /\ UndisturbedFreed'
    BY <1>5 DEF IInv, MonitorStrip, CancelledNow, CallsDisturb, ProcsUsed,
        StartingWell, OneProcess, RunningNamed, ReconGone, AllocsDisjoint,
        UndisturbedExclusive, UndisturbedFreed
  <2>2. Recorded'
    BY <1>5 DEF IInv, MonitorStrip, CancelledNow, Recorded, ProcsUsed,
        StartingWell, OneProcess
  <2>3. CurrentQueued'
    BY <1>5 DEF IInv, MonitorStrip, CancelledNow, CurrentQueued, StartingWell,
        Recorded
  <2>4. TodoQueued'
    BY <1>5 DEF IInv, MonitorStrip, CancelledNow, TodoQueued, StartingWell,
        Recorded
  <2> QED BY <2>1, <2>2, <2>3, <2>4 DEF IInv
<1>6. ASSUME NEW p \in Procs, MonitorRelease(p)
      PROVE  IInv'
  <2>1. /\ CallsDisturb' /\ ProcsUsed' /\ StartingWell' /\ OneProcess'
        /\ RunningNamed' /\ ReconGone' /\ TodoQueued' /\ AllocsDisjoint'
        /\ UndisturbedExclusive' /\ UndisturbedFreed'
    BY <1>6 DEF IInv, MonitorRelease, CallsDisturb, ProcsUsed, StartingWell,
        OneProcess, RunningNamed, ReconGone, TodoQueued, AllocsDisjoint,
        UndisturbedExclusive, UndisturbedFreed
  <2>2. Recorded'
    BY <1>6 DEF IInv, MonitorRelease, Recorded, ProcsUsed, StartingWell,
        OneProcess
  <2>3. CurrentQueued'
    BY <1>6 DEF IInv, MonitorRelease, CurrentQueued, StartingWell, Recorded
  <2> QED BY <2>1, <2>2, <2>3 DEF IInv
<1>7. ASSUME NEW p \in Procs, PollWake(p)
      PROVE  IInv'
  BY <1>7 DEF IInv, PollWake, CallsDisturb, ProcsUsed, StartingWell,
      OneProcess, Recorded, CurrentQueued, RunningNamed, ReconGone,
      TodoQueued, AllocsDisjoint, UndisturbedExclusive, UndisturbedFreed
<1>8. ASSUME NEW p \in Procs, PollFinish(p)
      PROVE  IInv'
  <2>1. /\ CallsDisturb' /\ ProcsUsed' /\ StartingWell' /\ OneProcess'
        /\ RunningNamed' /\ ReconGone' /\ AllocsDisjoint'
        /\ UndisturbedExclusive'
    BY <1>8 DEF IInv, PollFinish, CancelledNow, CallsDisturb, ProcsUsed,
        StartingWell, OneProcess, RunningNamed, ReconGone, AllocsDisjoint,
        UndisturbedExclusive
  <2>2. Recorded'
    BY <1>8 DEF IInv, PollFinish, CancelledNow, Recorded, ProcsUsed,
        StartingWell, OneProcess
  <2>3. CurrentQueued'
    BY <1>8 DEF IInv, PollFinish, CancelledNow, CurrentQueued, StartingWell,
        Recorded
  <2>4. TodoQueued'
    BY <1>8 DEF IInv, PollFinish, CancelledNow, TodoQueued, StartingWell,
        Recorded
  <2>5. UndisturbedFreed'
    BY <1>8 DEF IInv, PollFinish, CancelledNow, UndisturbedFreed,
        StartingWell, Recorded
  <2> QED BY <2>1, <2>2, <2>3, <2>4, <2>5 DEF IInv
<1> QED BY <1>1, <1>2, <1>3, <1>4, <1>5, <1>6, <1>7, <1>8
    DEF Monitor

\* And a step of wait_any's reconcile threads.
LEMMA ReconcileKeeps ==
  ASSUME TypeOK, TypeOK', IInv,
         \E e \in Exps : Reconcile(e)
  PROVE  IInv'
<1> USE NamesAssumption
<1> USE DEF TypeOK, Status, MonStage, Exists, Live, Exited, Loop, store, os,
            pass, starting, history, Record, Release, Settle, Disturb,
            Untouched, ProcsOf, Begun, Reading, Starting, Watched
<1>1. ASSUME NEW e \in Exps, ReconcileBegin(e)
      PROVE  IInv'
  <2>1. /\ CallsDisturb' /\ ProcsUsed' /\ StartingWell' /\ OneProcess'
        /\ Recorded' /\ CurrentQueued' /\ RunningNamed' /\ TodoQueued'
        /\ AllocsDisjoint' /\ UndisturbedExclusive' /\ UndisturbedFreed'
    BY <1>1 DEF IInv, ReconcileBegin, Gone, CallsDisturb, ProcsUsed,
        StartingWell, OneProcess, Recorded, CurrentQueued, RunningNamed,
        TodoQueued, AllocsDisjoint, UndisturbedExclusive, UndisturbedFreed
  <2>2. ReconGone'
    BY <1>1 DEF IInv, ReconcileBegin, Gone, ReconGone, RunningNamed,
        OneProcess
  <2> QED BY <2>1, <2>2 DEF IInv
<1>2. ASSUME NEW e \in Exps, ReconcileDrop(e)
      PROVE  IInv'
  BY <1>2 DEF IInv, ReconcileDrop, CallsDisturb, ProcsUsed, StartingWell,
      OneProcess, Recorded, CurrentQueued, RunningNamed, ReconGone,
      TodoQueued, AllocsDisjoint, UndisturbedExclusive, UndisturbedFreed
<1>3. ASSUME NEW e \in Exps, ReconcileCheck(e)
      PROVE  IInv'
  BY <1>3 DEF IInv, ReconcileCheck, CallsDisturb, ProcsUsed, StartingWell,
      OneProcess, Recorded, CurrentQueued, RunningNamed, ReconGone,
      TodoQueued, AllocsDisjoint, UndisturbedExclusive, UndisturbedFreed
<1>4. ASSUME NEW e \in Exps, ReconcileWrite(e)
      PROVE  IInv'
  <2>1. /\ CallsDisturb' /\ ProcsUsed' /\ StartingWell' /\ OneProcess'
        /\ RunningNamed' /\ ReconGone' /\ AllocsDisjoint'
        /\ UndisturbedExclusive' /\ UndisturbedFreed'
    BY <1>4 DEF IInv, ReconcileWrite, CallsDisturb, ProcsUsed, StartingWell,
        OneProcess, RunningNamed, ReconGone, AllocsDisjoint,
        UndisturbedExclusive, UndisturbedFreed
  <2>2. Recorded'
    BY <1>4 DEF IInv, ReconcileWrite, Recorded, ReconGone
  <2>3. CurrentQueued'
    BY <1>4 DEF IInv, ReconcileWrite, CurrentQueued, ReconGone
  <2>4. TodoQueued'
    BY <1>4 DEF IInv, ReconcileWrite, TodoQueued, ReconGone
  <2> QED BY <2>1, <2>2, <2>3, <2>4 DEF IInv
<1> QED BY <1>1, <1>2, <1>3, <1>4
    DEF Reconcile

\* And what clients ask for.
LEMMA RoutesKeeps ==
  ASSUME TypeOK, TypeOK', IInv,
         \E e \in Exps : Routes(e)
  PROVE  IInv'
<1> USE NamesAssumption
<1> USE DEF TypeOK, Status, MonStage, Exists, Live, Exited, Loop, store, os,
            pass, starting, history, Record, Release, Settle, Disturb,
            Untouched, ProcsOf, Begun, Reading, Starting, Watched
<1>1. ASSUME NEW e \in Exps, Create(e)
      PROVE  IInv'
  BY <1>1 DEF IInv, Create, CallsDisturb, ProcsUsed, StartingWell, OneProcess,
      Recorded, CurrentQueued, RunningNamed, ReconGone, TodoQueued,
      AllocsDisjoint, UndisturbedExclusive, UndisturbedFreed
<1>2. ASSUME NEW e \in Exps, CancelNow(e)
      PROVE  IInv'
  BY <1>2 DEF IInv, CancelNow, Call, CallsDisturb, ProcsUsed, StartingWell,
      OneProcess, Recorded, CurrentQueued, RunningNamed, ReconGone,
      TodoQueued, AllocsDisjoint, UndisturbedExclusive, UndisturbedFreed
<1>3. ASSUME NEW e \in Exps, CancelBegin(e)
      PROVE  IInv'
  BY <1>3 DEF IInv, CancelBegin, Call, CallsDisturb, ProcsUsed, StartingWell,
      OneProcess, Recorded, CurrentQueued, RunningNamed, ReconGone,
      TodoQueued, AllocsDisjoint, UndisturbedExclusive, UndisturbedFreed
<1>4. ASSUME NEW e \in Exps, NEW p \in Procs, CancelEnd(e, p)
      PROVE  IInv'
  <2>1. /\ CallsDisturb' /\ ProcsUsed' /\ StartingWell' /\ OneProcess'
        /\ RunningNamed' /\ AllocsDisjoint' /\ UndisturbedExclusive'
        /\ UndisturbedFreed'
    BY <1>4 DEF IInv, CancelEnd, CallsDisturb, ProcsUsed, StartingWell,
        OneProcess, RunningNamed, AllocsDisjoint, UndisturbedExclusive,
        UndisturbedFreed
  <2>2. Recorded'
    BY <1>4 DEF IInv, CancelEnd, Recorded, CallsDisturb
  <2>3. CurrentQueued'
    BY <1>4 DEF IInv, CancelEnd, CurrentQueued, CallsDisturb
  <2>4. ReconGone'
    BY <1>4 DEF IInv, CancelEnd, ReconGone, CallsDisturb
  <2>5. TodoQueued'
    BY <1>4 DEF IInv, CancelEnd, TodoQueued, CallsDisturb
  <2> QED BY <2>1, <2>2, <2>3, <2>4, <2>5 DEF IInv
<1>5. ASSUME NEW e \in Exps, Restart(e)
      PROVE  IInv'
  BY <1>5 DEF IInv, Restart, Call, Restartable, CallsDisturb, ProcsUsed,
      StartingWell, OneProcess, Recorded, CurrentQueued, RunningNamed,
      ReconGone, TodoQueued, AllocsDisjoint, UndisturbedExclusive,
      UndisturbedFreed
<1>6. ASSUME NEW e \in Exps, Requeue(e)
      PROVE  IInv'
  BY <1>6 DEF IInv, Requeue, Call, CallsDisturb, ProcsUsed, StartingWell,
      OneProcess, Recorded, CurrentQueued, RunningNamed, ReconGone,
      TodoQueued, AllocsDisjoint, UndisturbedExclusive, UndisturbedFreed
<1>7. ASSUME NEW e \in Exps, DeleteBegin(e)
      PROVE  IInv'
  BY <1>7 DEF IInv, DeleteBegin, Call, CallsDisturb, ProcsUsed, StartingWell,
      OneProcess, Recorded, CurrentQueued, RunningNamed, ReconGone,
      TodoQueued, AllocsDisjoint, UndisturbedExclusive, UndisturbedFreed
<1>8. ASSUME NEW e \in Exps, DeleteEnd(e)
      PROVE  IInv'
  <2>1. /\ CallsDisturb' /\ ProcsUsed' /\ StartingWell' /\ OneProcess'
        /\ RunningNamed' /\ AllocsDisjoint' /\ UndisturbedExclusive'
        /\ UndisturbedFreed'
    BY <1>8 DEF IInv, DeleteEnd, CallsDisturb, ProcsUsed, StartingWell,
        OneProcess, RunningNamed, AllocsDisjoint, UndisturbedExclusive,
        UndisturbedFreed
  <2>2. Recorded'
    BY <1>8 DEF IInv, DeleteEnd, Recorded, CallsDisturb
  <2>3. CurrentQueued'
    BY <1>8 DEF IInv, DeleteEnd, CurrentQueued, CallsDisturb
  <2>4. ReconGone'
    BY <1>8 DEF IInv, DeleteEnd, ReconGone, CallsDisturb
  <2>5. TodoQueued'
    BY <1>8 DEF IInv, DeleteEnd, TodoQueued, CallsDisturb
  <2> QED BY <2>1, <2>2, <2>3, <2>4, <2>5 DEF IInv
<1> QED BY <1>1, <1>2, <1>3, <1>4, <1>5, <1>6, <1>7, <1>8
    DEF Routes

\* And the end of a process, a crash, a restart of the server.
LEMMA OutsideKeeps ==
  ASSUME TypeOK, TypeOK', IInv,
         \/ \E p \in Procs, s \in {"ok", "err"} : ProcExit(p, s)
         \/ Crash \/ Boot
  PROVE  IInv'
<1> USE NamesAssumption
<1> USE DEF TypeOK, Status, MonStage, Exists, Live, Exited, Loop, store, os,
            pass, starting, history, Record, Release, Settle, Disturb,
            Untouched, ProcsOf, Begun, Reading, Starting, Watched
<1>1. ASSUME NEW p \in Procs, NEW s \in {"ok", "err"}, ProcExit(p, s)
      PROVE  IInv'
  BY <1>1 DEF IInv, ProcExit, CallsDisturb, ProcsUsed, StartingWell,
      OneProcess, Recorded, CurrentQueued, RunningNamed, ReconGone,
      TodoQueued, AllocsDisjoint, UndisturbedExclusive, UndisturbedFreed
<1>2. CASE Crash
  <2>1. /\ CallsDisturb' /\ ProcsUsed' /\ StartingWell' /\ OneProcess'
        /\ CurrentQueued' /\ RunningNamed' /\ ReconGone' /\ TodoQueued'
        /\ AllocsDisjoint' /\ UndisturbedExclusive' /\ UndisturbedFreed'
    BY <1>2 DEF IInv, Crash, CallsDisturb, ProcsUsed, StartingWell,
        OneProcess, CurrentQueued, RunningNamed, ReconGone, TodoQueued,
        AllocsDisjoint, UndisturbedExclusive, UndisturbedFreed
  <2>2. Recorded'
    BY <1>2 DEF IInv, Crash, Recorded, StartingWell
  <2> QED BY <2>1, <2>2 DEF IInv
<1>3. CASE Boot
  <2>1. /\ CallsDisturb' /\ ProcsUsed' /\ StartingWell' /\ OneProcess'
        /\ Recorded' /\ RunningNamed' /\ ReconGone' /\ TodoQueued'
        /\ UndisturbedExclusive'
    BY <1>3 DEF IInv, Boot, Adopted, Restored, CallsDisturb, ProcsUsed,
        StartingWell, OneProcess, Recorded, RunningNamed, ReconGone,
        TodoQueued, UndisturbedExclusive
  <2>2. CurrentQueued'
    BY <1>3 DEF IInv, Boot, Adopted, Restored, CurrentQueued, StartingWell
  <2>3. AllocsDisjoint'
    BY <1>3 DEF IInv, Boot, Adopted, Restored, AllocsDisjoint, StartingWell,
        RunningNamed, Recorded, UndisturbedExclusive
  <2>4. UndisturbedFreed'
    BY <1>3 DEF IInv, Boot, Adopted, Restored, UndisturbedFreed, RunningNamed
  <2> QED BY <2>1, <2>2, <2>3, <2>4 DEF IInv
<1> QED BY <1>1, <1>2, <1>3

-----------------------------------------------------------------------------
(* The theorems.                                                           *)

\* The inductive invariant holds in every reachable state: an experiment that
\* nobody interferes with is queued once, started once, has at most one
\* process, and leaves status "queued" for good when that process is recorded.
THEOREM InvariantHolds == Spec => []IInv
<1>1. Init => IInv
  <2> SUFFICES ASSUME Init PROVE IInv
    OBVIOUS
  <2> USE NamesAssumption DEF Init
  <2>1. /\ CallsDisturb /\ ProcsUsed /\ StartingWell /\ OneProcess /\ Recorded
        /\ CurrentQueued /\ RunningNamed
    BY DEF CallsDisturb, ProcsUsed, Reading, StartingWell, OneProcess,
           Recorded, CurrentQueued, RunningNamed, Untouched, ProcsOf
  <2>2. ReconGone /\ TodoQueued /\ AllocsDisjoint
    BY DEF ReconGone, TodoQueued, AllocsDisjoint, Untouched
  <2>3. UndisturbedExclusive /\ UndisturbedFreed
    BY DEF UndisturbedExclusive, UndisturbedFreed, Live
  <2> QED BY <2>1, <2>2, <2>3 DEF IInv
<1>2. TypeOK /\ TypeOK' /\ IInv /\ [Next]_vars => IInv'
  <2> SUFFICES ASSUME TypeOK, TypeOK', IInv, [Next]_vars PROVE IInv'
    OBVIOUS
  <2>1. CASE UNCHANGED vars
    BY <2>1 DEF vars, store, os, pass, starting, history, IInv, CallsDisturb,
       ProcsUsed, StartingWell, OneProcess, Recorded, CurrentQueued,
       RunningNamed, ReconGone, TodoQueued, AllocsDisjoint,
       UndisturbedExclusive, UndisturbedFreed, Exists, Live, Exited,
       Untouched, ProcsOf, Begun, Reading, Starting, Watched
  <2>2. CASE Next
    BY <2>2, SchedulerKeeps, MonitorKeeps, ReconcileKeeps, RoutesKeeps,
       OutsideKeeps DEF Next
  <2> QED BY <2>1, <2>2
<1> QED BY <1>1, <1>2, TypeCorrect, PTL DEF Spec

\* Two live processes of experiments nobody interfered with are of different
\* experiments and never share a unit, whatever clients do to the others,
\* however often the server crashes, for any resource table.
THEOREM ExclusiveUndisturbed == Spec => []UndisturbedExclusive
<1>1. IInv => UndisturbedExclusive
  BY DEF IInv
<1> QED BY <1>1, InvariantHolds, PTL

\* While the server is up, the allocator's entry of such an experiment is
\* what its live process uses: also after restore_from_running.
THEOREM HeldUndisturbed == Spec => []UndisturbedHeld
<1>1. TypeOK /\ IInv => UndisturbedHeld
  <2> SUFFICES ASSUME TypeOK, IInv, up, NEW p \in Procs, Live(p),
                      owner[p] \notin disturbed
               PROVE  allocs[owner[p]] = gpus[p]
    BY DEF UndisturbedHeld
  <2>1. owner[p] \in Untouched /\ p \in ProcsOf(owner[p])
    BY DEF TypeOK, IInv, ProcsUsed, Live, Untouched, ProcsOf
  <2>2. CASE stage = "spawned" /\ child = p
    BY <2>1, <2>2, NamesAssumption
       DEF IInv, StartingWell, CurrentQueued, Untouched
  <2>3. CASE ~(stage = "spawned" /\ child = p)
    BY <2>1, <2>3 DEF IInv, Recorded
  <2> QED BY <2>2, <2>3
<1> QED BY <1>1, TypeCorrect, InvariantHolds, PTL

\* And nothing such an experiment holds is forgotten: its start is still in
\* progress, or a monitor that will release it waits for its process.
THEOREM FreedUndisturbed == Spec => []UndisturbedFreed
<1>1. IInv => UndisturbedFreed
  BY DEF IInv
<1> QED BY <1>1, InvariantHolds, PTL

-----------------------------------------------------------------------------
(* A cancelled experiment, and the monitors.                               *)

\* Without waiters no reconcile step is under way.
ReconNone == \A e \in Exps : recon[e] = "none"

\* As long as no waiter reconciles, no monitor and no recovery makes a cancelled
\* experiment a completed or failed one, whatever clients call, however late its
\* process dies, however often the server crashes.
THEOREM CancelRespected ==
  ASSUME "wait" \notin Ops
  PROVE  Spec => MonitorsRespectCancel
<1>1. Init => ReconNone
  BY DEF Init, ReconNone
<1>2. TypeOK /\ ReconNone /\ [Next]_vars => ReconNone'
  <2> SUFFICES ASSUME TypeOK, ReconNone, [Next]_vars PROVE ReconNone'
    OBVIOUS
  <2> USE DEF TypeOK, ReconNone
  <2>1. CASE Scheduler
    BY <2>1 DEF Scheduler, ScanBegin, ScanEnd, ScanFail, ScanCancel, ScanSkip,
                ScanStart, ScanNoScript, StartRefused, StartRecord, StartSpawn
  <2>2. CASE \E p \in Procs : Monitor(p)
    BY <2>2 DEF Monitor, MonitorTimeout, MonitorKill, MonitorWake, MonitorFinish,
                MonitorStrip, MonitorRelease, PollWake, PollFinish
  <2>3. CASE \E p \in Procs, s \in {"ok", "err"} : ProcExit(p, s)
    BY <2>3 DEF ProcExit
  <2>4. CASE \E e \in Exps : Reconcile(e)
    BY <2>4 DEF Reconcile, ReconcileBegin, ReconcileDrop, ReconcileCheck, ReconcileWrite
  <2>5. CASE \E e \in Exps : Routes(e)
    BY <2>5 DEF Routes, Create, CancelNow, CancelBegin, CancelEnd, Restart, Requeue,
                DeleteBegin, DeleteEnd
  <2>6. CASE Crash \/ Boot
    BY <2>6 DEF Crash, Boot
  <2>7. CASE UNCHANGED vars
    BY <2>7 DEF vars
  <2> QED BY <2>1, <2>2, <2>3, <2>4, <2>5, <2>6, <2>7 DEF Next
<1>3. TypeOK /\ ReconNone /\ [Next]_vars
      => [\A e \in Exps : status[e] = "cancelled" /\ ~ScanFail(e) =>
            status'[e] \notin {"completed", "failed"}]_vars
  <2> SUFFICES ASSUME TypeOK, ReconNone, Next,
                      NEW e \in Exps, status[e] = "cancelled", ~ScanFail(e)
               PROVE  status'[e] \notin {"completed", "failed"}
    OBVIOUS
  <2> USE DEF TypeOK, Record, Settle
  <2>1. CASE Scheduler
    BY <2>1 DEF Scheduler, ScanBegin, ScanEnd, ScanFail, ScanCancel, ScanSkip, store,
                ScanStart, ScanNoScript, StartRefused, StartRecord, StartSpawn
  <2>2. CASE \E p \in Procs : Monitor(p)
    BY <2>2 DEF Monitor, MonitorTimeout, MonitorKill, MonitorWake, MonitorFinish, store,
                MonitorStrip, MonitorRelease, PollWake, PollFinish, CancelledNow
  <2>3. CASE \E p \in Procs, s \in {"ok", "err"} : ProcExit(p, s)
    BY <2>3 DEF ProcExit, store
  <2>4. CASE \E f \in Exps : Reconcile(f)
    BY <2>4 DEF Reconcile, ReconcileBegin, ReconcileDrop, ReconcileCheck,
                ReconcileWrite, ReconNone, store
  <2>5. CASE \E f \in Exps : Routes(f)
    BY <2>5 DEF Routes, Create, CancelNow, CancelBegin, CancelEnd, Restart, Requeue,
                DeleteBegin, DeleteEnd, store
  <2>6. CASE Crash \/ Boot
    BY <2>6 DEF Crash, Boot, store
  <2> QED BY <2>1, <2>2, <2>3, <2>4, <2>5, <2>6 DEF Next
<1> QED BY <1>1, <1>2, <1>3, TypeCorrect, PTL DEF Spec, MonitorsRespectCancel

-----------------------------------------------------------------------------
(* Completed is final, and parents come first.  FinalIInv, one lemma for each *)
(* group of steps.                                                         *)

\* A step of the pass keeps it.
LEMMA SchedulerKeepsFinal ==
  ASSUME TypeOK, IInv, FinalIInv, Scheduler
  PROVE  FinalIInv'
<1> USE NamesAssumption, TablesAssumption
<1>0. /\ ProcsUsed /\ StartingWell
      /\ NoCallsSleep /\ InHandQueued /\ WatchedRuns /\ SnapStands /\ CurrentReady
  BY DEF IInv, FinalIInv
<1> USE DEF TypeOK, Status, Exists, Loop, store, os, pass, starting, history,
            Record, Release, Settle
<1>1. CASE ScanBegin
  <2>1. cur = NoExp
    BY <1>0, <1>1 DEF ScanBegin, StartingWell
  <2>2. NoCallsSleep' /\ WatchedRuns'
    BY <1>0, <1>1 DEF ScanBegin, NoCallsSleep, WatchedRuns
  <2>3. InHandQueued' /\ SnapStands' /\ CurrentReady'
    BY <1>1, <2>1 DEF ScanBegin, InHandQueued, SnapStands, CurrentReady
  <2> QED BY <2>2, <2>3 DEF FinalIInv
<1>2. CASE ScanEnd
  <2>1. cur = NoExp
    BY <1>0, <1>2 DEF ScanEnd, StartingWell
  <2> QED BY <1>0, <1>2, <2>1 DEF ScanEnd, FinalIInv, NoCallsSleep, WatchedRuns, InHandQueued,
                                 SnapStands, CurrentReady
<1>3. ASSUME NEW e \in Exps, ScanFail(e) \/ ScanCancel(e)
      PROVE  FinalIInv'
  <2>1. /\ cur = NoExp /\ e \in todo /\ status[e] = "queued"
        /\ todo' = todo \ {e}
        /\ UNCHANGED <<pidOf, owner, snap, cur, mon, cancelling, deleting, recon>>
        /\ \A f \in Exps : f # e => status'[f] = status[f]
    BY <1>0, <1>3 DEF ScanFail, ScanCancel, StartingWell, InHandQueued, Next1
  <2>2. NoCallsSleep' /\ InHandQueued' /\ CurrentReady'
    BY <1>0, <2>1 DEF NoCallsSleep, InHandQueued, CurrentReady
  <2>3. WatchedRuns'
    BY <1>0, <2>1 DEF WatchedRuns
  <2>4. SnapStands'
    BY <1>0, <2>1 DEF SnapStands
  <2> QED BY <2>2, <2>3, <2>4 DEF FinalIInv
<1>4. ASSUME NEW e \in Exps, ScanSkip(e) \/ ScanNoScript(e)
      PROVE  FinalIInv'
  <2>1. /\ todo' \subseteq todo
        /\ UNCHANGED <<status, pidOf, owner, snap, cur, mon, cancelling, deleting, recon>>
    BY <1>4 DEF ScanSkip, ScanNoScript
  <2> QED BY <1>0, <2>1 DEF FinalIInv, NoCallsSleep, WatchedRuns, InHandQueued,
                             SnapStands, CurrentReady
<1>5. ASSUME NEW e \in Exps, ScanStart(e)
      PROVE  FinalIInv'
  <2>1. /\ cur' = e /\ e \in todo /\ todo' = todo \ {e} /\ Ready(e)
        /\ UNCHANGED <<status, pidOf, owner, snap, mon, cancelling, deleting, recon>>
    BY <1>5 DEF ScanStart, Next1
  <2>2. NoCallsSleep' /\ WatchedRuns' /\ SnapStands' /\ InHandQueued'
    BY <1>0, <2>1 DEF NoCallsSleep, WatchedRuns, SnapStands, InHandQueued
  <2>3. CurrentReady'
    BY <2>1 DEF CurrentReady, Ready, Missing, Unfinished, Active, Sunk
  <2> QED BY <2>2, <2>3 DEF FinalIInv
<1>6. CASE StartRefused
  <2>1. /\ cur' = NoExp
        /\ UNCHANGED <<status, pidOf, owner, snap, todo, mon, cancelling, deleting, recon>>
    BY <1>6 DEF StartRefused
  <2> QED BY <1>0, <2>1 DEF FinalIInv, NoCallsSleep, WatchedRuns, InHandQueued,
                             SnapStands, CurrentReady
<1>7. ASSUME NEW p \in Procs, StartSpawn(p)
      PROVE  FinalIInv'
  <2>1. /\ mon[p] = "none" /\ \A q \in Procs : q # p => owner'[q] = owner[q]
        /\ UNCHANGED <<status, pidOf, cur, snap, todo, mon, cancelling, deleting, recon>>
    BY <1>0, <1>7 DEF StartSpawn, ProcsUsed
  <2> QED BY <1>0, <2>1 DEF FinalIInv, NoCallsSleep, WatchedRuns, InHandQueued,
                             SnapStands, CurrentReady
<1>8. CASE StartRecord
  <2>1. /\ child \in Procs /\ owner[child] = cur /\ cur \in Exps /\ status[cur] = "queued"
    BY <1>0, <1>8 DEF StartRecord, StartingWell, InHandQueued
  <2>2. /\ status' = [status EXCEPT ![cur] = "running"]
        /\ pidOf' = [pidOf EXCEPT ![cur] = child]
        /\ mon' = [mon EXCEPT ![child] = "child"] /\ cur' = NoExp
        /\ UNCHANGED <<owner, snap, todo, cancelling, deleting, recon>>
    BY <1>8, <2>1 DEF StartRecord
  <2>3. NoCallsSleep' /\ CurrentReady' /\ InHandQueued'
    BY <1>0, <2>1, <2>2 DEF NoCallsSleep, CurrentReady, InHandQueued
  <2>4. WatchedRuns'
    BY <1>0, <2>1, <2>2 DEF WatchedRuns
  <2>5. SnapStands'
    BY <1>0, <2>1, <2>2 DEF SnapStands
  <2> QED BY <2>3, <2>4, <2>5 DEF FinalIInv
<1> QED BY <1>1, <1>2, <1>3, <1>4, <1>5, <1>6, <1>7, <1>8 DEF Scheduler

\* A monitor's step keeps it: its experiment runs, as long as it has not settled it.
LEMMA MonitorKeepsFinal ==
  ASSUME TypeOK, FinalIInv, NEW p \in Procs, Monitor(p)
  PROVE  FinalIInv'
<1> USE NamesAssumption, TablesAssumption
<1>0. /\ NoCallsSleep /\ InHandQueued /\ WatchedRuns /\ SnapStands /\ CurrentReady
  BY DEF FinalIInv
<1>1. mon[p] # "none" /\ owner[p] \in Exps
  BY <1>0 DEF Monitor, MonitorTimeout, MonitorKill, MonitorWake, MonitorFinish, MonitorStrip,
     MonitorRelease, PollWake, PollFinish, WatchedRuns
<1>2. UNCHANGED <<owner, snap, todo, cur, cancelling, deleting, recon>>
  BY DEF Monitor, MonitorTimeout, MonitorKill, MonitorWake, MonitorFinish, MonitorStrip,
     MonitorRelease, PollWake, PollFinish, os, pass, starting
<1>3. ASSUME UNCHANGED <<status, pidOf>>,
             \A q \in Procs : mon'[q] \in {mon[q], "none"}
                \/ (mon[q] \notin {"none", "strip"} /\ mon'[q] \notin {"none", "strip"})
      PROVE  FinalIInv'
  BY <1>0, <1>2, <1>3 DEF FinalIInv, NoCallsSleep, WatchedRuns, InHandQueued, SnapStands,
                          CurrentReady
<1>4. ASSUME mon[p] # "strip", NEW s \in {"completed", "failed"}, NEW m \in {"strip", "none"},
             m = "strip" => s = "completed",
             status' = [status EXCEPT ![owner[p]] = s],
             pidOf' = [pidOf EXCEPT ![owner[p]] = NoProc],
             mon' = [mon EXCEPT ![p] = m]
      PROVE  FinalIInv'
  <2>1. status[owner[p]] = "running" /\ pidOf[owner[p]] = p
    BY <1>0, <1>1, <1>4 DEF WatchedRuns
  <2>2. NoCallsSleep' /\ InHandQueued' /\ CurrentReady'
    BY <1>0, <1>2, <1>4, <2>1 DEF NoCallsSleep, InHandQueued, CurrentReady, TypeOK
  <2>3. WatchedRuns'
    BY <1>0, <1>1, <1>2, <1>4, <2>1 DEF WatchedRuns, TypeOK
  <2>4. SnapStands'
    BY <1>0, <1>2, <1>4, <2>1 DEF SnapStands, TypeOK
  <2> QED BY <2>2, <2>3, <2>4 DEF FinalIInv
<1> USE DEF TypeOK
<1>5. CASE MonitorTimeout(p) \/ MonitorKill(p) \/ MonitorWake(p) \/ MonitorRelease(p) \/ PollWake(p)
  BY <1>3, <1>5 DEF MonitorTimeout, MonitorKill, MonitorWake, MonitorRelease, PollWake, store
<1>6. CASE MonitorFinish(p) \/ MonitorStrip(p) \/ PollFinish(p)
  <2>1. mon[p] # "strip" /\ status[owner[p]] = "running"
    BY <1>0, <1>1, <1>6 DEF MonitorFinish, MonitorStrip, PollFinish, WatchedRuns
  <2>2. Exists(owner[p]) /\ ~CancelledNow(p)
    BY <2>1 DEF Exists, CancelledNow
  <2>3. PICK s \in {"completed", "failed"}, m \in {"strip", "none"} :
           /\ m = "strip" => s = "completed"
           /\ Record(owner[p], s, NoProc)
           /\ mon' = [mon EXCEPT ![p] = m]
    BY <1>6, <2>2 DEF MonitorFinish, MonitorStrip, PollFinish, Outcome
  <2> QED BY <1>4, <2>1, <2>2, <2>3 DEF Record
<1> QED BY <1>5, <1>6 DEF Monitor

\* No client's call but creating and starting comes, and no waiter reconciles.
LEMMA CallsKeepFinal ==
  ASSUME NothingWithdraws, TypeOK, FinalIInv,
         NEW e \in Exps, Reconcile(e) \/ Routes(e)
  PROVE  FinalIInv'
<1> USE NamesAssumption, TablesAssumption
<1>0. /\ NoCallsSleep /\ InHandQueued /\ WatchedRuns /\ SnapStands /\ CurrentReady
  BY DEF FinalIInv
<1>1. Create(e) \/ Restart(e)
  BY <1>0 DEF Reconcile, Routes, ReconcileBegin, ReconcileDrop, ReconcileCheck, ReconcileWrite,
     CancelNow, CancelBegin, CancelEnd, Requeue, DeleteBegin, DeleteEnd, Call, NothingWithdraws,
     NoCallsSleep
<1>2. /\ status[e] \in {"absent", "failed", "cancelled"}
      /\ status[e] # "absent" => "restart" \in Ops /\ e \in Subjects
      /\ status' = [status EXCEPT ![e] = "queued"]
      /\ \A f \in Exps : f # e => pidOf'[f] = pidOf[f]
      /\ UNCHANGED <<owner, snap, todo, cur, mon, cancelling, deleting, recon>>
  BY <1>1 DEF Create, Restart, Restartable, Call, Exists, TypeOK, os, pass, starting
<1>3. NoCallsSleep' /\ InHandQueued' /\ CurrentReady'
  BY <1>0, <1>2 DEF NoCallsSleep, InHandQueued, CurrentReady, TypeOK
<1>4. WatchedRuns'
  BY <1>0, <1>2 DEF WatchedRuns, TypeOK
<1>5. SnapStands'
  BY <1>0, <1>2 DEF SnapStands, TypeOK
<1> QED BY <1>3, <1>4, <1>5 DEF FinalIInv

\* Processes end, and the server crashes and recovers.
LEMMA OutsideKeepsFinal ==
  ASSUME TypeOK, FinalIInv,
         \/ \E p \in Procs, s \in {"ok", "err"} : ProcExit(p, s)
         \/ Crash \/ Boot
  PROVE  FinalIInv'
<1> USE NamesAssumption, TablesAssumption
<1>0. /\ NoCallsSleep /\ InHandQueued /\ WatchedRuns /\ SnapStands /\ CurrentReady
  BY DEF FinalIInv
<1>1. CASE \E p \in Procs, s \in {"ok", "err"} : ProcExit(p, s)
  BY <1>0, <1>1 DEF ProcExit, store, pass, starting, FinalIInv, NoCallsSleep, WatchedRuns,
     InHandQueued, SnapStands, CurrentReady
<1>2. CASE Crash
  BY <1>2 DEF Crash, store, os, FinalIInv, NoCallsSleep, WatchedRuns, InHandQueued,
     SnapStands, CurrentReady
<1>3. CASE Boot
  <2>1. /\ \A e \in Exps : status[e] # "running" \/ Adopted(e) =>
              status'[e] = status[e] /\ pidOf'[e] = pidOf[e]
        /\ UNCHANGED <<owner, snap, todo, cur, cancelling, deleting, recon>>
    BY <1>3 DEF Boot, os, pass, starting
  <2>2. NoCallsSleep' /\ InHandQueued' /\ CurrentReady' /\ SnapStands'
    BY <1>0, <2>1 DEF NoCallsSleep, InHandQueued, CurrentReady, SnapStands, TypeOK
  <2>3. ASSUME NEW p \in Procs, mon'[p] # "none"
        PROVE  \E e \in Exps : /\ mon'[p] = "poll" /\ owner[p] = e
                               /\ Adopted(e) /\ pidOf[e] = p
    BY <1>3, <2>3 DEF Boot
  <2>4. WatchedRuns'
    BY <2>1, <2>3 DEF WatchedRuns, Adopted
  <2> QED BY <2>2, <2>4 DEF FinalIInv
<1> QED BY <1>1, <1>2, <1>3

\* Where nobody withdraws an experiment, though failed ones are started again
\* and the server crashes, what the pass has in hand is still queued when it acts
\* on it, and a monitor's experiment runs until the monitor settles it.
THEOREM FinalSound ==
  ASSUME NothingWithdraws
  PROVE  Spec => []FinalIInv
<1>1. Init => FinalIInv
  BY NamesAssumption, TablesAssumption
     DEF Init, FinalIInv, NoCallsSleep, WatchedRuns, InHandQueued, SnapStands, CurrentReady
<1>2. TypeOK /\ IInv /\ FinalIInv /\ [Next]_vars => FinalIInv'
  <2> SUFFICES ASSUME TypeOK, IInv, FinalIInv, [Next]_vars PROVE FinalIInv'
    OBVIOUS
  <2>1. CASE UNCHANGED vars
    BY <2>1 DEF vars, store, os, pass, starting, FinalIInv, NoCallsSleep, WatchedRuns,
       InHandQueued, SnapStands, CurrentReady
  <2>2. CASE Next
    BY <2>2, SchedulerKeepsFinal, MonitorKeepsFinal, CallsKeepFinal, OutsideKeepsFinal DEF Next
  <2> QED BY <2>1, <2>2
<1> QED BY <1>1, <1>2, TypeCorrect, InvariantHolds, PTL DEF Spec

-----------------------------------------------------------------------------
(* What a step does to statuses.                                           *)

\* Only a start is recorded as running, and only what is in hand or runs is settled.
LEMMA StatusMoves ==
  ASSUME NothingWithdraws, TypeOK, IInv, FinalIInv, Next, NEW e \in Exps
  PROVE  /\ status[e] = "completed" => status'[e] = "completed"
         /\ status[e] # "running" /\ status'[e] = "running" => cur = e
<1>0. /\ StartingWell /\ NoCallsSleep /\ InHandQueued /\ WatchedRuns
  BY DEF IInv, FinalIInv
<1> USE NamesAssumption DEF TypeOK, Record, Settle, store
<1>1. CASE Scheduler
  <2>1. CASE \E f \in Exps : ScanFail(f) \/ ScanCancel(f)
    BY <1>0, <2>1 DEF ScanFail, ScanCancel, InHandQueued, Next1
  <2>2. CASE StartRecord
    BY <1>0, <2>2 DEF StartRecord, InHandQueued, StartingWell
  <2>3. CASE UNCHANGED status
    BY <2>3
  <2> QED BY <1>1, <2>1, <2>2, <2>3 DEF Scheduler, ScanBegin, ScanEnd, ScanSkip, ScanStart,
             ScanNoScript, StartRefused, StartSpawn
<1>2. ASSUME NEW p \in Procs, Monitor(p)
      PROVE  /\ status[e] = "completed" => status'[e] = "completed"
             /\ ~(status[e] # "running" /\ status'[e] = "running")
  <2>1. CASE MonitorFinish(p) \/ MonitorStrip(p) \/ PollFinish(p)
    <3>1. owner[p] \in Exps /\ status[owner[p]] = "running"
      BY <1>0, <2>1 DEF MonitorFinish, MonitorStrip, PollFinish, WatchedRuns
    <3> QED BY <2>1, <3>1 DEF MonitorFinish, MonitorStrip, PollFinish, Outcome
  <2>2. CASE UNCHANGED status
    BY <2>2
  <2> QED BY <1>2, <2>1, <2>2 DEF Monitor, MonitorTimeout, MonitorKill, MonitorWake,
             MonitorRelease, PollWake
<1>3. CASE \E p \in Procs, s \in {"ok", "err"} : ProcExit(p, s)
  BY <1>3 DEF ProcExit
<1>4. ASSUME NEW f \in Exps, Reconcile(f) \/ Routes(f)
      PROVE  /\ status[e] = "completed" => status'[e] = "completed"
             /\ ~(status[e] # "running" /\ status'[e] = "running")
  <2>1. Create(f) \/ Restart(f)
    BY <1>0, <1>4 DEF Reconcile, Routes, ReconcileBegin, ReconcileDrop, ReconcileCheck,
       ReconcileWrite, CancelNow, CancelBegin, CancelEnd, Requeue, DeleteBegin, DeleteEnd,
       Call, NothingWithdraws, NoCallsSleep
  <2> QED BY <2>1 DEF Create, Restart, Restartable, Exists
<1>5. CASE Crash \/ Boot
  BY <1>5 DEF Crash, Boot
<1> QED BY <1>1, <1>2, <1>3, <1>4, <1>5 DEF Next

\* A completed experiment stays completed, over any crashes of the server, where
\* nobody withdraws experiments.
THEOREM CompletedStays ==
  ASSUME NothingWithdraws
  PROVE  Spec => CompletedIsFinal
<1>1. TypeOK /\ IInv /\ FinalIInv /\ [Next]_vars
      => [\A e \in Exps : status[e] = "completed" => status'[e] = "completed"]_vars
  BY StatusMoves
<1> QED BY <1>1, TypeCorrect, InvariantHolds, FinalSound, PTL DEF Spec, CompletedIsFinal

\* What goes to running has its parents finished, and completed where it asks for
\* success, although they were judged by a snapshot and a start has yielded since.
THEOREM ParentsFirst ==
  ASSUME NothingWithdraws, ParentsStay
  PROVE  Spec => ParentsFinished
<1>1. TypeOK /\ IInv /\ FinalIInv /\ [Next]_vars
      => [\A e \in Exps : status[e] # "running" /\ status'[e] = "running" =>
            \A d \in Deps[e] :
              status[d] \in IF e \in OnSuccess THEN {"completed"}
                           ELSE {"completed", "failed", "cancelled"}]_vars
  <2> SUFFICES ASSUME TypeOK, IInv, FinalIInv, Next,
                      NEW e \in Exps, status[e] # "running", status'[e] = "running",
                      NEW d \in Deps[e]
               PROVE  status[d] \in IF e \in OnSuccess THEN {"completed"}
                                   ELSE {"completed", "failed", "cancelled"}
    OBVIOUS
  <2>1. cur = e /\ d \in Exps
    BY StatusMoves, TablesAssumption
  <2>2. CurrentReady /\ SnapStands
    BY DEF FinalIInv
  <2> QED BY <2>1, <2>2 DEF CurrentReady, SnapStands, ParentsStay
<1> QED BY <1>1, TypeCorrect, InvariantHolds, FinalSound, PTL DEF Spec, ParentsFinished

-----------------------------------------------------------------------------
(* The units are leased.                                                      *)

Peaceful == Ops \subseteq {"wait", "refuse"}

Quiet == up /\ disturbed = {}

Using == [e \in Exps |-> Used(e)]

-----------------------------------------------------------------------------
(* Nobody interferes.                                                      *)

LEMMA QuietStays ==
  ASSUME Peaceful, IInv, Quiet, [Next]_vars
  PROVE  Quiet'
<1> USE DEF Peaceful, Quiet, store, os, pass, starting, history
<1>1. CASE Scheduler
  BY <1>1 DEF Scheduler, ScanBegin, ScanEnd, ScanFail, ScanCancel, ScanSkip,
              ScanStart, ScanNoScript, StartRefused, StartRecord, StartSpawn
<1>2. CASE \E p \in Procs : Monitor(p)
  BY <1>2 DEF Monitor, MonitorTimeout, MonitorKill, MonitorWake, MonitorFinish,
              MonitorStrip, MonitorRelease, PollWake, PollFinish
<1>3. CASE \E p \in Procs, s \in {"ok", "err"} : ProcExit(p, s)
  BY <1>3 DEF ProcExit
<1>4. CASE \E e \in Exps : Reconcile(e)
  BY <1>4 DEF Reconcile, ReconcileBegin, ReconcileDrop, ReconcileCheck, ReconcileWrite
<1>5. CASE \E e \in Exps : Routes(e)
  BY <1>5 DEF Routes, Create, CancelNow, CancelBegin, CancelEnd, Restart, Requeue,
              DeleteBegin, DeleteEnd, Call
<1>6. CASE Crash \/ Boot
  BY <1>6 DEF Crash, Boot
<1>7. CASE UNCHANGED vars
  BY <1>7 DEF vars
<1> QED
  BY <1>1, <1>2, <1>3, <1>4, <1>5, <1>6, <1>7 DEF Next

\* The calls that would disturb are not under way either.
LEMMA NoCalls ==
  ASSUME IInv, Quiet
  PROVE  cancelling = {} /\ deleting = {} /\ Untouched = Exps
BY DEF IInv, CallsDisturb, Quiet, Untouched

-----------------------------------------------------------------------------
(* What an experiment uses.                                                *)

LEMMA UsesNothing ==
  ASSUME NEW e \in Exps, \A p \in ProcsOf(e) : ~Live(p)
  PROVE  Used(e) = {}
BY DEF Used, ProcsOf

LEMMA UsesSame ==
  ASSUME UNCHANGED os
  PROVE  Using' = Using
BY DEF os, Using, Used, Live

\* An experiment that waits in the queue has no process and no units.
LEMMA QueuedHasNothing ==
  ASSUME TypeOK, IInv, Quiet, NEW e \in Exps, status[e] = "queued", cur # e
  PROVE  ProcsOf(e) = {} /\ allocs[e] = {}
<1>1. e \in Untouched
  BY NoCalls
<1>2. ASSUME NEW p \in ProcsOf(e)
      PROVE  FALSE
  <2>1. stage = "spawned" => owner[child] = cur
    BY DEF IInv, StartingWell
  <2>2. owner[p] = e
    BY DEF ProcsOf
  <2>3. status[e] \in Begun
    BY <1>1, <2>1, <2>2 DEF IInv, Recorded
  <2> QED
    BY <2>3 DEF Begun
<1>3. ~Starting(e) /\ ~Watched(e)
  BY <1>2 DEF Starting, Watched, ProcsOf
<1> QED
  BY <1>1, <1>2, <1>3 DEF IInv, UndisturbedFreed, Untouched, Quiet

-----------------------------------------------------------------------------
(* Steps of the lease.                                                     *)

LEMMA ReleaseReturns ==
  ASSUME NEW e \in Exps, Used(e) = {}, Release(e), UNCHANGED os
  PROVE  Lease!Next
<1>1. Using' = Using
  BY UsesSame
<1>2. Lease!Return(e)
  BY <1>1 DEF Lease!Return, Release, Using
<1> QED
  BY <1>2 DEF Lease!Next

LEMMA NothingMoves ==
  ASSUME UNCHANGED <<os, allocs>>
  PROVE  UNCHANGED Lease!vars
BY UsesSame DEF Lease!vars, Using

\* A process that ends uses its experiment's units no longer.
LEMMA ExitStops ==
  ASSUME TypeOK, IInv, Quiet, NEW p \in Procs, Live(p), NEW s \in {"ok", "err"},
         proc' = [proc EXCEPT ![p] = s], UNCHANGED <<owner, gpus, allocs>>
  PROVE  Lease!Next
<1> DEFINE e == owner[p]
<1>1. e \in Exps
  BY DEF IInv, ProcsUsed, TypeOK, Live
<1>2. \A q \in ProcsOf(e) : q = p
  BY <1>1, NoCalls DEF IInv, OneProcess, ProcsOf
<1>3. Used(e)' = {}
  BY <1>2 DEF Used, Live, ProcsOf, TypeOK
<1>4. ASSUME NEW f \in Exps, f # e
      PROVE  Used(f)' = Used(f)
  BY <1>4 DEF Used, Live, TypeOK
<1>5. Using' = [Using EXCEPT ![e] = {}]
  BY <1>1, <1>3, <1>4 DEF Using
<1>6. Lease!Stop(e)
  BY <1>5 DEF Lease!Stop, Using
<1> QED
  BY <1>1, <1>6 DEF Lease!Next

\* The process that start() makes uses what its experiment was given.
LEMMA SpawnRuns ==
  ASSUME TypeOK, IInv, Quiet, NEW p \in Procs, StartSpawn(p)
  PROVE  Lease!Next
<1>1. cur \in Exps /\ cur \in Untouched
  BY NoCalls DEF StartSpawn, IInv, StartingWell, TypeOK
<1>2. ProcsOf(cur) = {} /\ allocs[cur] = curUnits
  BY <1>1 DEF StartSpawn, IInv, CurrentQueued
<1>3. owner[p] = NoExp /\ proc[p] = "unused"
  BY DEF StartSpawn, IInv, ProcsUsed
<1>4. /\ proc' = [proc EXCEPT ![p] = "live"] /\ owner' = [owner EXCEPT ![p] = cur]
      /\ gpus' = [gpus EXCEPT ![p] = curUnits] /\ allocs' = allocs /\ cur' = cur
  BY DEF StartSpawn
<1>5. Used(cur) = {}
  BY <1>1, <1>2, UsesNothing
<1>6. Used(cur)' = allocs[cur]
  <2>1. \A q \in Procs : Live(q)' /\ owner'[q] = cur <=> q = p
    BY <1>1, <1>2, <1>4 DEF Live, ProcsOf, TypeOK
  <2>2. gpus'[p] = allocs[cur]
    BY <1>2, <1>4 DEF TypeOK
  <2>3. Used(cur)' = UNION {gpus'[q] : q \in {q \in Procs : Live(q)' /\ owner'[q] = cur}}
    BY DEF StartSpawn, Used
  <2> QED
    BY <2>1, <2>2, <2>3
<1>7. ASSUME NEW f \in Exps, f # cur
      PROVE  Used(f)' = Used(f)
  BY <1>1, <1>3, <1>4, <1>7, NamesAssumption DEF Used, Live, TypeOK
<1>8. Using' = [Using EXCEPT ![cur] = allocs[cur]]
  BY <1>1, <1>4, <1>6, <1>7 DEF Using
<1>9. Lease!Run(cur)
  BY <1>1, <1>4, <1>5, <1>8 DEF Lease!Run, Using
<1> QED
  BY <1>1, <1>9 DEF Lease!Next

-----------------------------------------------------------------------------
(* The steps of the runner.                                                *)

\* The pass grants units nobody holds, to an experiment that has none.
LEMMA ScanGrants ==
  ASSUME TypeOK, IInv, Quiet, NEW e \in Exps, ScanStart(e)
  PROVE  Lease!Next
<1>1. status[e] = "queued" /\ cur # e
  BY NoCalls DEF ScanStart, Next1, IInv, TodoQueued
<1>2. ProcsOf(e) = {} /\ allocs[e] = {}
  BY <1>1, QueuedHasNothing
<1>3. Used(e) = {}
  BY <1>2, UsesNothing
<1>4. PICK r \in DOMAIN Config :
        curUnits' = Lowest(FreeUnits(Config, allocs, r), UnitsWanted(Config[r], Req[e]))
  BY DEF ScanStart
<1>5. curUnits' \subseteq Units /\ \A f \in Exps : allocs[f] \cap curUnits' = {}
  BY <1>4, PickIsFree DEF TypeOK
<1>6. allocs' = [allocs EXCEPT ![e] = curUnits'] /\ Using' = Using
  BY UsesSame DEF ScanStart
<1>7. Lease!Grant(e, curUnits')
  BY <1>2, <1>3, <1>5, <1>6 DEF Lease!Grant, Using
<1> QED
  BY <1>5, <1>7 DEF Lease!Next

LEMMA SchedulerLeases ==
  ASSUME TypeOK, IInv, Quiet, Scheduler
  PROVE  [Lease!Next]_Lease!vars
<1>1. CASE ScanBegin \/ ScanEnd \/ StartRecord
  BY <1>1, NothingMoves DEF ScanBegin, ScanEnd, StartRecord
<1>2. CASE \E e \in Exps : ScanFail(e) \/ ScanCancel(e) \/ ScanSkip(e)
  BY <1>2, NothingMoves DEF ScanFail, ScanCancel, ScanSkip
<1>3. CASE \E e \in Exps : ScanStart(e)
  BY <1>3, ScanGrants
<1>4. ASSUME NEW e \in Exps, ScanNoScript(e)
      PROVE  Lease!Next
  <2>1. status[e] = "queued" /\ cur # e
    BY <1>4, NoCalls DEF ScanNoScript, Next1, IInv, TodoQueued
  <2>2. Used(e) = {}
    BY <2>1, QueuedHasNothing, UsesNothing
  <2> QED
    BY <1>4, <2>2, ReleaseReturns DEF ScanNoScript
<1>5. CASE StartRefused
  <2>1. cur \in Exps /\ cur \in Untouched
    BY <1>5, NoCalls DEF StartRefused, IInv, StartingWell, TypeOK
  <2>2. Used(cur) = {}
    BY <1>5, <2>1, UsesNothing DEF StartRefused, IInv, CurrentQueued
  <2> QED
    BY <1>5, <2>1, <2>2, ReleaseReturns DEF StartRefused
<1>6. CASE \E p \in Procs : StartSpawn(p)
  BY <1>6, SpawnRuns
<1> QED
  BY <1>1, <1>2, <1>3, <1>4, <1>5, <1>6 DEF Scheduler

\* A monitor that has begun to read the log releases for a process that is gone.
LEMMA ReadersFindNothing ==
  ASSUME TypeOK, IInv, Quiet, NEW p \in Procs, mon[p] \in Reading
  PROVE  owner[p] \in Exps /\ Used(owner[p]) = {}
<1>1. Exited(p)
  BY DEF IInv, ProcsUsed
<1>2. owner[p] \in Exps
  BY <1>1 DEF IInv, ProcsUsed, TypeOK, Exited
<1>3. \A q \in ProcsOf(owner[p]) : ~Live(q)
  BY <1>1, <1>2, NoCalls DEF IInv, OneProcess, ProcsOf, Live, Exited
<1> QED
  BY <1>2, <1>3, UsesNothing

LEMMA MonitorLeases ==
  ASSUME TypeOK, IInv, Quiet, NEW p \in Procs, Monitor(p)
  PROVE  [Lease!Next]_Lease!vars
<1>1. CASE MonitorTimeout(p) \/ MonitorWake(p) \/ MonitorStrip(p) \/ PollWake(p)
  BY <1>1, NothingMoves DEF MonitorTimeout, MonitorWake, MonitorStrip, PollWake
<1>2. CASE MonitorKill(p)
  BY <1>2, ExitStops DEF MonitorKill
<1>3. CASE MonitorFinish(p) \/ MonitorRelease(p) \/ PollFinish(p)
  <2>1. mon[p] \in Reading /\ UNCHANGED os
    BY <1>3 DEF MonitorFinish, MonitorRelease, PollFinish, Reading
  <2>2. Release(owner[p]) \/ UNCHANGED allocs
    BY <1>3 DEF MonitorFinish, MonitorRelease, PollFinish
  <2> QED
    BY <2>1, <2>2, ReadersFindNothing, ReleaseReturns, NothingMoves
<1> QED
  BY <1>1, <1>2, <1>3 DEF Monitor

LEMMA ReconcileLeases ==
  ASSUME TypeOK, IInv, Quiet, NEW e \in Exps, Reconcile(e)
  PROVE  [Lease!Next]_Lease!vars
<1>1. CASE ReconcileBegin(e) \/ ReconcileDrop(e) \/ ReconcileCheck(e)
  BY <1>1, NothingMoves DEF ReconcileBegin, ReconcileDrop, ReconcileCheck
<1>2. CASE ReconcileWrite(e)
  <2>1. \A p \in ProcsOf(e) : ~Live(p)
    BY <1>2, NoCalls DEF ReconcileWrite, IInv, ReconGone
  <2> QED
    BY <1>2, <2>1, UsesNothing, ReleaseReturns DEF ReconcileWrite
<1> QED
  BY <1>1, <1>2 DEF Reconcile

\* Of the routes only the creation of an experiment remains.
LEMMA RoutesLease ==
  ASSUME Peaceful, IInv, Quiet, NEW e \in Exps, Routes(e)
  PROVE  UNCHANGED Lease!vars
<1>1. Create(e)
  BY NoCalls DEF Peaceful, Routes, CancelNow, CancelBegin, CancelEnd, Restart,
                 Requeue, DeleteBegin, DeleteEnd, Call
<1> QED
  BY <1>1, NothingMoves DEF Create

\* The runner's behaviours, seen as grants, uses and returns, are those of the
\* lease specification.
THEOREM RunnerImplementsLease ==
  ASSUME Peaceful
  PROVE  Spec => ImplementsLease
<1>1. Init => Lease!Init
  BY DEF Init, Lease!Init, Used, Live
<1>2. Init => Quiet
  BY DEF Init, Quiet
<1>3. IInv /\ Quiet /\ [Next]_vars => Quiet'
  BY QuietStays
<1>4. TypeOK /\ IInv /\ Quiet /\ [Next]_vars => [Lease!Next]_Lease!vars
  <2> SUFFICES ASSUME TypeOK, IInv, Quiet, [Next]_vars
               PROVE  [Lease!Next]_Lease!vars
    OBVIOUS
  <2>1. CASE Scheduler
    BY <2>1, SchedulerLeases
  <2>2. CASE \E p \in Procs : Monitor(p)
    BY <2>2, MonitorLeases
  <2>3. ASSUME NEW p \in Procs, NEW s \in {"ok", "err"}, ProcExit(p, s)
        PROVE  Lease!Next
    BY <2>3, ExitStops DEF ProcExit
  <2>4. CASE \E e \in Exps : Reconcile(e)
    BY <2>4, ReconcileLeases
  <2>5. CASE \E e \in Exps : Routes(e)
    BY <2>5, RoutesLease
  <2>6. CASE Crash \/ Boot
    BY <2>6 DEF Crash, Boot, Peaceful, Quiet
  <2>7. CASE UNCHANGED vars
    BY <2>7, NothingMoves DEF vars
  <2> QED
    BY <2>1, <2>2, <2>3, <2>4, <2>5, <2>6, <2>7 DEF Next
<1> QED
  BY <1>1, <1>2, <1>3, <1>4, TypeCorrect, InvariantHolds, PTL
     DEF Spec, ImplementsLease, Lease!Spec
=============================================================================
