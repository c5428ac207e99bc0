--------------------------- MODULE RecordsProofs ----------------------------
(* Proofs about the records of experiments and the answers kept of them.      *)
EXTENDS Records, TLAPS

-----------------------------------------------------------------------------
(* Calls.                                                                     *)

LEMMA Sizes ==
    /\ MaxSeq \in Nat \ {0} /\ CacheMax \in Nat \ {0} /\ MaxWrites \in Nat
    /\ 0 \notin Labels /\ 0 \in 0..MaxSeq /\ \A l \in Labels : l \in 0..MaxSeq
BY RecordsAssumption DEF Labels

LEMMA NothingTyped == Nothing \in ViewSet /\ NoChart \in ChartSet /\ \A l \in Labels : Nothing[l] = 0
BY DEF Nothing, ViewSet, NoChart, ChartSet

\* A call as it comes in.
Incoming(c, op, stage, l) ==
    /\ c \in JobSet /\ c.op = op /\ c.at = stage /\ c.label = l /\ c.renders = TRUE
    /\ c.rec.rev = 0 /\ c.since = Nothing /\ c.sent = NoChart

LEMMA RequestTyped ==
    ASSUME NEW op \in WriterOps \union ReaderOps, NEW stage \in WriterStages \union ReaderStages,
           NEW l \in 0..MaxSeq
    PROVE  Incoming(Call(op, stage, l), op, stage, l)
<1>1. Gone(0) \in [rev: Nat, status: Statuses \union {"gone", "same"}] /\ Gone(0).rev = 0
  BY DEF Gone
<1>2. << >> \in Seq(Nat)
  OBVIOUS
<1> QED
  BY <1>1, <1>2, NothingTyped DEF Call, JobSet, Incoming

LEMMA NoJobTyped ==
    /\ NoJob \in JobSet /\ NoJob.op = "none" /\ NoJob.at = "none" /\ NoJob.label = 0
    /\ NoJob.rec.rev = 0 /\ NoJob.renders = TRUE /\ NoJob.since = Nothing /\ NoJob.sent = NoChart
<1>1. Gone(0) \in [rev: Nat, status: Statuses \union {"gone", "same"}] /\ Gone(0).rev = 0
  BY DEF Gone
<1>2. << >> \in Seq(Nat) /\ 0 \in 0..MaxSeq
  BY Sizes
<1> QED
  BY <1>1, <1>2, NothingTyped DEF NoJob, Call, JobSet

\* Nobody is at a record with no label; readers have none.
LEMMA TouchesNone ==
    ASSUME NEW j \in JobSet, j.label = 0, j.op # "reload all", NEW l \in Labels
    PROVE  ~Touches(j, l)
BY Sizes DEF Touches

LEMMA StagesDistinct ==
    /\ ReaderStages \cap WriterStages = {} /\ "none" \notin ReaderStages \union WriterStages
    /\ ReaderOps \cap WriterOps = {} /\ "none" \notin ReaderOps \union WriterOps
BY DEF ReaderStages, WriterStages, ReaderOps, WriterOps

-----------------------------------------------------------------------------
(* Who works alone.                                                           *)

LEMMA BecomesAlone ==
    ASSUME WorksAlone, NEW p \in Callers, NEW new, Becomes(p, new), job \in [Callers -> JobSet]
    PROVE  WorksAlone' /\ raced \subseteq raced' /\ job' = [job EXCEPT ![p] = new]
<1>1. job' = [job EXCEPT ![p] = new] /\ raced' = raced \union Races(p, new)
  BY DEF Becomes
<1>2. job'[p] = new /\ \A q \in Callers \ {p} : job'[q] = job[q]
  BY <1>1
<1>3. ASSUME NEW q \in Callers \ {p}, Alone(new) \/ Alone(job[q]), NEW l \in Labels,
             Touches(new, l), Touches(job[q], l)
      PROVE  l \in raced'
  BY <1>1, <1>3 DEF Races
<1>4. ASSUME NEW q \in Callers, NEW r \in Callers, q # r, Alone(job'[q]), NEW l \in Labels \ raced'
      PROVE  ~(Touches(job'[q], l) /\ Touches(job'[r], l))
  <2>1. CASE q = p
    BY <1>2, <1>3, <1>4, <2>1
  <2>2. CASE r = p
    BY <1>2, <1>3, <1>4, <2>2
  <2>3. CASE q # p /\ r # p
    BY <1>1, <1>2, <1>4, <2>3 DEF WorksAlone
  <2> QED
    BY <2>1, <2>2, <2>3
<1> QED
  BY <1>1, <1>4 DEF WorksAlone

LEMMA StaysAlone ==
    ASSUME WorksAlone, NEW p \in Callers, job \in [Callers -> JobSet], raced' = raced,
           \A q \in Callers \ {p} : job'[q] = job[q],
           Alone(job'[p]) => Alone(job[p]),
           \A l \in Labels : Touches(job'[p], l) => Touches(job[p], l)
    PROVE  WorksAlone'
BY DEF WorksAlone

-----------------------------------------------------------------------------
(* Views and their keys.                                                      *)

LEMMA KeysTyped ==
    ASSUME RecordsTypeOK
    PROVE  /\ version \in Nat /\ nonce \in Nat
           /\ <<version>> \in Seq(Nat) /\ Len(<<version>>) = 1 /\ <<version>>[1] = version
           /\ Tag \in Seq(Nat) /\ Len(Tag) = 2 /\ Tag[1] = nonce /\ Tag[2] = version
           /\ Len(<< >>) = 0
BY DEF RecordsTypeOK, Tag

\* What has no key serves nobody.
LEMMA NoChartServes ==
    ASSUME RecordsTypeOK, KeysRead
    PROVE  Serves(NoChart.tag, NoChart.view)
<1>1. NoChart.tag = << >>
  BY DEF NoChart
<1>2. << >> \notin KeysNow
  BY KeysTyped DEF KeysNow
<1> QED
  BY <1>1, <1>2 DEF Serves, PastKey, KeysRead

LEMMA NoChartTag == Len(NoChart.tag) # 1
<1>1. NoChart.tag = << >> /\ Len(<< >>) = 0
  BY DEF NoChart
<1> QED
  BY <1>1

\* A step that changes no record in memory, tells nobody and bumps nothing.
ReadersStay ==
    /\ UNCHANGED <<known, owed, version, nonce>> /\ raced \subseteq raced'
    /\ \A p \in Callers : job[p].at = "bump" => job'[p] = job[p]
    /\ \A p \in Callers : Keyed(job'[p]) =>
          Keyed(job[p]) /\ job'[p].key = job[p].key /\ job'[p].since = job[p].since

LEMMA UnannouncedStays ==
    ASSUME \A p \in Callers : job[p].at = "bump" => job'[p] = job[p], NEW l
    PROVE  Unannounced(l) => Unannounced(l)'
BY DEF Unannounced, Touches

LEMMA QuietServes ==
    ASSUME ReadersStay, NEW k, NEW v, Serves(k, v)
    PROVE  Serves(k, v)'
<1>1. PastKey(k)' /\ KeysNow' = KeysNow
  BY DEF ReadersStay, Serves, PastKey, KeysNow, Tag
<1>2. ShowsTold(v) => ShowsTold(v)'
  BY UnannouncedStays DEF ReadersStay, ShowsTold
<1> QED
  BY <1>1, <1>2 DEF Serves, ReadersStay

\* A record enters the memory, not told of yet.
Entering(p) ==
    /\ UNCHANGED <<owed, version, nonce, raced>>
    /\ job[p].at \notin {"bump"} \union ReaderStages /\ job'[p].at = "bump"
    /\ \A q \in Callers \ {p} : job'[q] = job[q]
    /\ \A l \in Labels \ raced : known'[l].rev = known[l].rev \/ (job'[p].renders /\ Touches(job'[p], l))

LEMMA EnteringServes ==
    ASSUME NEW p \in Callers, Entering(p), NEW k, NEW v, Serves(k, v)
    PROVE  Serves(k, v)'
<1>1. PastKey(k)' /\ KeysNow' = KeysNow
  BY DEF Entering, Serves, PastKey, KeysNow, Tag
<1>2. \A q \in Callers : job[q].at = "bump" => job'[q] = job[q]
  BY DEF Entering
<1>3. ShowsTold(v) => ShowsTold(v)'
  <2>1. ASSUME ShowsTold(v), NEW l \in Labels \ raced
        PROVE  v[l] >= owed[l] /\ (v[l] >= known'[l].rev \/ Unannounced(l)')
    <3>1. CASE known'[l].rev = known[l].rev
      BY <1>2, <2>1, <3>1, UnannouncedStays DEF ShowsTold
    <3>2. CASE job'[p].renders /\ Touches(job'[p], l)
      BY <2>1, <3>2 DEF ShowsTold, Unannounced, Touches, Entering
    <3> QED
      BY <3>1, <3>2 DEF Entering
  <2> QED
    BY <2>1 DEF ShowsTold, Entering
<1>4. \A t \in Callers : Keyed(job'[t]) => t # p /\ job'[t] = job[t]
  BY DEF Entering, Keyed
<1> QED
  BY <1>1, <1>3, <1>4 DEF Serves, Entering

LEMMA MaxOfTwo ==
    ASSUME NEW a \in Nat, NEW b \in Nat
    PROVE  LET m == Max({a, b}) IN m \in {a, b} /\ m >= a /\ m >= b
<1>1. \E x \in {a, b} : \A y \in {a, b} : x >= y
  OBVIOUS
<1> QED
  BY <1>1 DEF Max

\* Callers are told of records as they are.
LEMMA TellsTyped ==
    ASSUME RecordsTypeOK, FileAhead, NEW p \in Callers, Tells(p)
    PROVE  /\ owed' \in ViewSet
           /\ \A l \in Labels : owed[l] <= owed'[l]
           /\ \A l \in Labels \ raced : owed'[l] <= known[l].rev
           /\ \A l \in Labels : ~Touches(job[p], l) => owed'[l] = owed[l]
<1>1. \A l \in Labels : owed[l] \in Nat /\ known[l].rev \in Nat
  BY DEF RecordsTypeOK, ViewSet, RecordSet
<1>2. ASSUME NEW l \in Labels
      PROVE  /\ Max({owed[l], known[l].rev}) \in Nat
             /\ Max({owed[l], known[l].rev}) >= owed[l]
             /\ l \notin raced => Max({owed[l], known[l].rev}) <= known[l].rev
  BY <1>1, MaxOfTwo DEF FileAhead
<1>3. \A l \in Labels :
         owed'[l] = IF Touches(job[p], l) THEN Max({owed[l], known[l].rev}) ELSE owed[l]
  BY DEF Tells
<1>4. owed' \in ViewSet
  BY <1>1, <1>2 DEF Tells, ViewSet
<1>5. ASSUME NEW l \in Labels PROVE owed[l] <= owed'[l]
  <2>1. CASE Touches(job[p], l)
    BY <1>1, <1>2, <1>3, <2>1
  <2>2. CASE ~Touches(job[p], l)
    <3>1. owed'[l] = owed[l]
      BY <1>3, <2>2, Zenon
    <3> QED
      BY <1>1, <3>1
  <2> QED
    BY <2>1, <2>2
<1>6. \A l \in Labels \ raced : owed'[l] <= known[l].rev
  BY <1>1, <1>2, <1>3 DEF FileAhead
<1> QED
  BY <1>3, <1>4, <1>5, <1>6

\* The version tells of a change; a key of before is then a key of the past.
LEMMA BumpedServes ==
    ASSUME RecordsTypeOK, NEW k \in Seq(Nat), NEW v, Serves(k, v),
           version' = version + 1, nonce' = nonce, raced' = raced,
           \A t \in Callers : Keyed(job'[t]) => job'[t] = job[t]
    PROVE  Serves(k, v)'
<1>1. PastKey(k) => PastKey(k)'
  BY KeysTyped DEF PastKey
<1>2. PastKey(k) => k \notin KeysNow'
  <2>1. k = <<version'>> => Len(k) = 1 /\ k[1] = version'
    OBVIOUS
  <2>2. k = <<nonce', version'>> => Len(k) = 2 /\ k[1] = nonce' /\ k[2] = version'
    OBVIOUS
  <2>3. k = << >> => Len(k) = 0
    OBVIOUS
  <2> QED
    BY <2>1, <2>2, <2>3, KeysTyped DEF PastKey, KeysNow, Tag
<1> QED
  BY <1>1, <1>2 DEF Serves

\* Without a bump callers are told of nothing that readers do not have already.
LEMMA ToldServes ==
    ASSUME RecordsTypeOK, FileAhead, LockHeld, NEW k, NEW v, Serves(k, v), NEW p \in Callers,
           job[p].at = "bump", ~job[p].renders,
           UNCHANGED <<known, version, nonce, raced>>, Tells(p),
           \A t \in Callers : Keyed(job'[t]) => job'[t] = job[t]
    PROVE  Serves(k, v)'
<1>1. PastKey(k)' /\ KeysNow' = KeysNow
  BY DEF Serves, PastKey, KeysNow, Tag
<1>2. \A l : ~Unannounced(l)
  BY DEF Unannounced, LockHeld
<1>3. ASSUME ShowsTold(v), NEW l \in Labels \ raced
      PROVE  v[l] >= owed'[l] /\ v[l] >= known[l].rev
  <2>1. owed'[l] <= known[l].rev /\ owed'[l] \in Nat /\ known[l].rev \in Nat
    BY TellsTyped, <1>3 DEF RecordsTypeOK, ViewSet, RecordSet
  <2>2. v[l] >= known[l].rev /\ v[l] >= owed[l]
    BY <1>2, <1>3 DEF ShowsTold
  <2>3. owed'[l] \in {owed[l], known[l].rev}
    BY MaxOfTwo DEF Tells, RecordsTypeOK, ViewSet, RecordSet
  <2> QED
    BY <2>2, <2>3
<1>4. ShowsTold(v) => ShowsTold(v)'
  BY <1>3 DEF ShowsTold
<1> QED
  BY <1>1, <1>4 DEF Serves

\* A view that is drawn now serves every reader.
LEMMA DrawnServes ==
    ASSUME RecordsTypeOK, FileAhead, AskedBefore, NEW k, PastKey(k)
    PROVE  Serves(k, View) /\ View \in ViewSet
<1>1. View \in ViewSet /\ \A l \in Labels : View[l] = known[l].rev /\ known[l].rev \in Nat /\ owed[l] \in Nat
  BY DEF View, ViewSet, RecordsTypeOK, RecordSet
<1>2. ShowsTold(View)
  BY <1>1 DEF ShowsTold, FileAhead
<1>3. \A t \in Callers : \A l \in Labels \ raced : View[l] >= job[t].since[l]
  <2>1. \A t \in Callers, l \in Labels : job[t].since[l] \in Nat
    BY DEF RecordsTypeOK, JobSet, ViewSet
  <2> QED
    BY <1>1, <2>1 DEF AskedBefore, FileAhead
<1> QED
  BY <1>1, <1>2, <1>3 DEF Serves

\* A reader that reads a key of now is served by all that is kept under it.
LEMMA ReadKeyServes ==
    ASSUME RecordsTypeOK, AskedBefore, NEW t \in Callers, NEW k, NEW v \in ViewSet, Serves(k, v),
           UNCHANGED <<known, owed, version, nonce, raced>>,
           job[t].at \notin {"bump"},
           \A q \in Callers \ {t} : job'[q] = job[q],
           job'[t].key \in KeysNow, job'[t].since = job[t].since, job'[t].at # "bump"
    PROVE  Serves(k, v)'
<1>1. PastKey(k)' /\ KeysNow' = KeysNow
  BY DEF Serves, PastKey, KeysNow, Tag
<1>2. \A q \in Callers : job[q].at = "bump" => job'[q] = job[q]
  OBVIOUS
<1>3. ShowsTold(v) => ShowsTold(v)'
  BY <1>2, UnannouncedStays DEF ShowsTold
<1>4. k \in KeysNow => \A l \in Labels \ raced : v[l] >= job'[t].since[l]
  <2>1. \A l \in Labels : v[l] \in Nat /\ owed[l] \in Nat /\ job[t].since[l] \in Nat
    BY DEF RecordsTypeOK, JobSet, ViewSet
  <2> QED
    BY <2>1 DEF Serves, ShowsTold, AskedBefore
<1> QED
  BY <1>1, <1>3, <1>4 DEF Serves

-----------------------------------------------------------------------------
(* Readers.                                                                   *)

\* What a reader's step may make of its call.
Reading(t, new) ==
    /\ job[t].at \in ReaderStages /\ new \in JobSet
    /\ \/ new = NoJob
       \/ /\ new.at \in ReaderStages /\ new.op = job[t].op /\ new.label = 0
          /\ new.since = job[t].since /\ new.rec = job[t].rec /\ new.renders = job[t].renders
          /\ new.sent = job[t].sent

\* A reader's step leaves the records as they are.
LEMMA ReaderKeepsStore ==
    ASSUME RecordsIInv, NEW t \in Callers, NEW new, Reading(t, new), Reads(t, new)
    PROVE  /\ job' \in [Callers -> JobSet] /\ job'[t] = new
           /\ \A q \in Callers \ {t} : job'[q] = job[q]
           /\ LockHeld' /\ StepsFit' /\ WorksAlone' /\ RevsWritten' /\ FileAhead'
           /\ EntersNewer' /\ AskedBefore'
<1>1. /\ job' \in [Callers -> JobSet] /\ job'[t] = new
      /\ \A q \in Callers \ {t} : job'[q] = job[q]
      /\ UNCHANGED <<known, listed, saved, version, holder, nonce, owed, raced, spent>>
  BY DEF Reads, Reading, RecordsIInv, RecordsTypeOK, storeVars
<1>2. /\ new.at \in ReaderStages \union {"none"} /\ new.label = 0
      /\ new.op \in ReaderOps \union {"none"} /\ job[t].op \in ReaderOps
      /\ new.at = "none" => new = NoJob
      /\ new.at \in ReaderStages => new.op \in ReaderOps
      /\ new.at \notin {"swap", "bump", "publish", "pop"} /\ job[t].at \notin {"swap", "bump"}
      /\ new.rec.rev <= spent.writes
      /\ \A l \in Labels : new.since[l] <= owed[l]
  <2>1. job[t].op \in ReaderOps /\ job[t].rec.rev <= spent.writes
        /\ \A l \in Labels : job[t].since[l] <= owed[l] /\ owed[l] \in Nat
    BY DEF Reading, RecordsIInv, StepsFit, StepFits, RevsWritten, AskedBefore, RecordsTypeOK, ViewSet
  <2>2. spent.writes \in Nat /\ \A l \in Labels : owed[l] \in Nat
    BY DEF RecordsIInv, RecordsTypeOK, ViewSet
  <2>3. CASE new = NoJob
    BY <2>1, <2>2, <2>3, NoJobTyped, NothingTyped DEF ReaderStages, Reading
  <2>4. CASE /\ new.at \in ReaderStages /\ new.op = job[t].op /\ new.label = 0
             /\ new.since = job[t].since /\ new.rec = job[t].rec
    BY <2>1, <2>4 DEF ReaderStages, Reading
  <2> QED
    BY <2>3, <2>4 DEF Reading
<1>3. LockHeld'
  BY <1>1, <1>2 DEF RecordsIInv, LockHeld
<1>4. StepsFit'
  <2>1. /\ new.at \notin {"reserve", "file", "publish", "script", "files", "pop", "write", "scan", "swap"}
        /\ new.at \notin WriterStages
    BY <1>2, StagesDistinct DEF ReaderStages, WriterStages
  <2>4. new.op \notin WriterOps
    BY <1>2, StagesDistinct
  <2>2. new.renders \/ new.op = "update"
    BY NoJobTyped DEF Reading, RecordsIInv, StepsFit, StepFits
  <2>3. StepFits(new)
    BY <1>2, <2>1, <2>2, <2>4 DEF StepFits
  <2> QED
    BY <1>1, <2>3 DEF RecordsIInv, StepsFit
<1>5. WorksAlone'
  <2>1. ~Alone(new) /\ \A l \in Labels : ~Touches(new, l)
    BY <1>2, TouchesNone DEF Alone, Reading, ReaderOps
  <2> QED
    BY <1>1, <2>1, StaysAlone DEF RecordsIInv, RecordsTypeOK
<1>6. RevsWritten' /\ FileAhead' /\ AskedBefore'
  BY <1>1, <1>2 DEF RecordsIInv, RevsWritten, FileAhead, AskedBefore
<1>7. EntersNewer'
  BY <1>1, <1>2 DEF RecordsIInv, EntersNewer
<1> QED
  BY <1>1, <1>3, <1>4, <1>5, <1>6, <1>7

\* A reader that keeps its key leaves the views kept serve whoever they served.
LEMMA ReaderSound ==
    ASSUME RecordsIInv, NEW t \in Callers, NEW new, Reading(t, new), Reads(t, new),
           Keyed(new) => Keyed(job[t]) /\ new.key = job[t].key,
           cache' \in Seq([key: Seq(Nat), view: ViewSet]), Len(cache') <= CacheMax,
           shared' \subseteq [key: Seq(Nat), failed: BOOLEAN, view: ViewSet],
           chart' \in ChartSet, browser' \in ChartSet,
           \A i \in DOMAIN cache' : Serves(cache'[i].key, cache'[i].view),
           \A s \in shared' : s.failed \/ Serves(s.key, s.view),
           new.at \in {"store", "keep"} => Serves(new.key, new.view),
           new.at \in {"match", "keep"} => job[t].at \in {"match", "keep"} /\ new.key = job[t].key,
           Len(chart'.tag) # 1, Len(browser'.tag) # 1,
           Serves(chart'.tag, chart'.view), Serves(browser'.tag, browser'.view),
           new.at = "answered" => \A l \in Labels \ raced : new.view[l] >= new.since[l]
    PROVE  RecordsIInv'
<1>1. /\ job' \in [Callers -> JobSet] /\ job'[t] = new
      /\ \A q \in Callers \ {t} : job'[q] = job[q]
      /\ LockHeld' /\ StepsFit' /\ WorksAlone' /\ RevsWritten' /\ FileAhead'
      /\ EntersNewer' /\ AskedBefore'
  BY ReaderKeepsStore
<1>2. /\ UNCHANGED <<known, listed, saved, version, holder, nonce, owed, raced, spent>>
      /\ job[t].at # "bump" /\ new.sent \in {job[t].sent, NoChart}
      /\ Keyed(new) => new.since = job[t].since
  BY NoJobTyped DEF Reads, Reading, storeVars, ReaderStages, Keyed
<1>3. ReadersStay
  BY <1>1, <1>2 DEF ReadersStay
<1>4. RecordsTypeOK'
  BY <1>1, <1>2 DEF RecordsIInv, RecordsTypeOK
<1>5. KeysRead'
  <2>1. \A k : PastKey(k) => PastKey(k)'
    BY <1>2 DEF PastKey
  <2> QED
    BY <1>1, <2>1 DEF RecordsIInv, KeysRead
<1>6. ViewsServe'
  <2>1. \A u \in Callers : job'[u].at \in {"store", "keep"} => Serves(job'[u].key, job'[u].view)
    BY <1>1 DEF RecordsIInv, ViewsServe
  <2>2. \A u \in Callers : Serves(job'[u].sent.tag, job'[u].sent.view)
    BY <1>1, <1>2, NoChartServes DEF RecordsIInv, ViewsServe
  <2>3. \A k, v : Serves(k, v) => Serves(k, v)'
    BY <1>3, QuietServes
  <2> QED
    BY <2>1, <2>2, <2>3 DEF ViewsServe
<1>7. FreshReads'
  BY <1>1, <1>2 DEF RecordsIInv, FreshReads
<1>8. TagsRead'
  <2>1. Len(new.sent.tag) # 1
    <3>1. Len(job[t].sent.tag) # 1
      BY DEF RecordsIInv, TagsRead
    <3> QED
      BY <1>2, <3>1, NoChartTag
  <2>2. new.at \in {"match", "keep"} => Len(new.key) = 2
    BY DEF RecordsIInv, TagsRead
  <2>3. \A q \in Callers \ {t} :
           /\ job'[q].at \in {"match", "keep"} => Len(job'[q].key) = 2
           /\ Len(job'[q].sent.tag) # 1
    BY <1>1 DEF RecordsIInv, TagsRead
  <2> QED
    BY <1>1, <2>1, <2>2, <2>3 DEF TagsRead
<1> QED
  BY <1>1, <1>4, <1>5, <1>6, <1>7, <1>8 DEF RecordsIInv

LEMMA ElementsTyped ==
    ASSUME NEW S, NEW s \in Seq(S), NEW i \in DOMAIN s
    PROVE  s[i] \in S
<1>1. DOMAIN s = 1..Len(s)
  OBVIOUS
<1> QED
  BY <1>1

\* A key that is read now is one that all views kept under it are up to date for.
LEMMA ReadsKeySound ==
    ASSUME RecordsIInv, NEW t \in Callers, NEW k \in KeysNow, NEW stage \in {"decide", "match"},
           stage = "match" => k = Tag,
           Reads(t, [job[t] EXCEPT !.key = k, !.at = stage]), job[t].at \in {"version", "tag"},
           UNCHANGED readVars
    PROVE  RecordsIInv'
<1> DEFINE new == [job[t] EXCEPT !.key = k, !.at = stage]
<1>1. /\ RecordsTypeOK /\ job[t] \in JobSet /\ k \in Seq(Nat) /\ PastKey(k) /\ k # << >>
      /\ job[t].op \in ReaderOps /\ job[t].label = 0
  <2>1. RecordsTypeOK /\ job[t] \in JobSet /\ job[t].op \in ReaderOps /\ job[t].label = 0
    BY DEF RecordsIInv, RecordsTypeOK, StepsFit, StepFits, ReaderStages
  <2>2. CASE k = <<version>>
    BY <2>1, <2>2, KeysTyped DEF PastKey
  <2>3. CASE k = Tag
    <3>1. Len(k) = 2 /\ k[1] = nonce /\ k[2] <= version /\ k \in Seq(Nat) /\ Len(<< >>) = 0
      BY <2>1, <2>3, KeysTyped
    <3>2. PastKey(k)
      BY <3>1 DEF PastKey
    <3>3. k # << >>
      BY <3>1
    <3> QED
      BY <2>1, <3>1, <3>2, <3>3
  <2> QED
    BY <2>1, <2>2, <2>3 DEF KeysNow
<1>2. /\ new \in JobSet /\ new.at = stage /\ new.key = k
      /\ new.op = job[t].op /\ new.label = 0 /\ new.since = job[t].since
      /\ new.rec = job[t].rec /\ new.renders = job[t].renders /\ new.sent = job[t].sent
  <2>1. \A j \in JobSet :
           LET n == [j EXCEPT !.key = k, !.at = stage] IN
           /\ n \in JobSet /\ n.at = stage /\ n.key = k /\ n.op = j.op /\ n.label = j.label
           /\ n.since = j.since /\ n.rec = j.rec /\ n.renders = j.renders /\ n.sent = j.sent
    BY <1>1 DEF JobSet, ReaderStages
  <2> QED
    BY <1>1, <2>1
<1> HIDE DEF new
<1>3. Reading(t, new) /\ Reads(t, new)
  BY <1>2 DEF Reading, ReaderStages, new
<1>4. /\ job' \in [Callers -> JobSet] /\ job'[t] = new
      /\ \A q \in Callers \ {t} : job'[q] = job[q]
      /\ LockHeld' /\ StepsFit' /\ WorksAlone' /\ RevsWritten' /\ FileAhead'
      /\ EntersNewer' /\ AskedBefore'
  BY <1>3, ReaderKeepsStore
<1>5. /\ UNCHANGED <<known, listed, saved, version, holder, nonce, owed, raced, spent>>
      /\ UNCHANGED <<cache, computing, shared, chart, browser>>
  BY <1>3 DEF Reads, storeVars, readVars
<1>6. RecordsTypeOK'
  BY <1>4, <1>5 DEF RecordsIInv, RecordsTypeOK
<1>7. KeysRead'
  <2>1. \A i : PastKey(i) => PastKey(i)'
    BY <1>5 DEF PastKey
  <2> QED
    BY <1>1, <1>2, <1>4, <2>1 DEF RecordsIInv, KeysRead
<1>8. ViewsServe'
  <2>1. /\ job[t].at # "bump" /\ job'[t].at # "bump" /\ job'[t].key \in KeysNow
        /\ job'[t].since = job[t].since /\ job'[t].at \notin {"store", "keep"}
        /\ job'[t].sent = job[t].sent
    BY <1>2, <1>4
  <2>2. \A i : \A v \in ViewSet : Serves(i, v) => Serves(i, v)'
    BY <1>1, <1>4, <1>5, <2>1, ReadKeyServes DEF RecordsIInv
  <2>3. \A i \in DOMAIN cache' : cache'[i].view \in ViewSet /\ Serves(cache'[i].key, cache'[i].view)
    <3>1. cache \in Seq([key: Seq(Nat), view: ViewSet])
      BY <1>1 DEF RecordsTypeOK
    <3>2. \A i \in DOMAIN cache : cache[i] \in [key: Seq(Nat), view: ViewSet]
      BY <3>1, ElementsTyped
    <3>3. \A i \in DOMAIN cache : cache[i].view \in ViewSet
      BY <3>2
    <3> QED
      BY <1>5, <3>3 DEF RecordsIInv, ViewsServe
  <2>4. \A s \in shared' : s.view \in ViewSet /\ (s.failed \/ Serves(s.key, s.view))
    BY <1>1, <1>5 DEF RecordsIInv, ViewsServe, RecordsTypeOK
  <2>5. \A q \in Callers :
           /\ job'[q].view \in ViewSet /\ job'[q].sent.view \in ViewSet
           /\ job'[q].at \in {"store", "keep"} => Serves(job'[q].key, job'[q].view)
           /\ Serves(job'[q].sent.tag, job'[q].sent.view)
    <3>1. \A q \in Callers : job'[q].view \in ViewSet /\ job'[q].sent.view \in ViewSet
      BY <1>4 DEF JobSet, ChartSet
    <3>2. \A q \in Callers :
             /\ job'[q].at \in {"store", "keep"} => Serves(job'[q].key, job'[q].view)
             /\ Serves(job'[q].sent.tag, job'[q].sent.view)
      BY <1>4, <2>1 DEF RecordsIInv, ViewsServe
    <3> QED
      BY <3>1, <3>2
  <2>6. /\ chart'.view \in ViewSet /\ browser'.view \in ViewSet
        /\ Serves(chart'.tag, chart'.view) /\ Serves(browser'.tag, browser'.view)
    <3>1. chart \in ChartSet /\ browser \in ChartSet
      BY <1>1 DEF RecordsTypeOK
    <3>2. chart.view \in ViewSet /\ browser.view \in ViewSet
      BY <3>1 DEF ChartSet
    <3> QED
      BY <1>5, <3>2 DEF RecordsIInv, ViewsServe
  <2> QED
    BY <2>2, <2>3, <2>4, <2>5, <2>6 DEF ViewsServe
<1>9. FreshReads'
  BY <1>2, <1>4, <1>5 DEF RecordsIInv, FreshReads
<1>10. TagsRead'
  <2>1. job'[t].at # "keep" /\ job'[t].sent = job[t].sent /\ job'[t].at = "match" => Len(job'[t].key) = 2
    BY <1>1, <1>2, <1>4, KeysTyped
  <2>2. job'[t].at # "keep" /\ job'[t].sent = job[t].sent
    BY <1>2, <1>4
  <2> QED
    BY <1>4, <1>5, <2>1, <2>2 DEF RecordsIInv, TagsRead
<1> QED
  BY <1>4, <1>6, <1>7, <1>8, <1>9, <1>10 DEF RecordsIInv

LEMMA ReadVersionSound ==
    ASSUME RecordsIInv, NEW t \in Callers, ReadVersion(t)
    PROVE  RecordsIInv'
BY ReadsKeySound DEF ReadVersion, KeysNow

LEMMA ReadTagSound ==
    ASSUME RecordsIInv, NEW t \in Callers, ReadTag(t)
    PROVE  RecordsIInv'
BY ReadsKeySound DEF ReadTag, KeysNow

\* A reader's call with a view, to answer with or to keep.
With(j, stage, v) == [j EXCEPT !.at = stage, !.view = v]

LEMMA AnswersReading ==
    ASSUME RecordsIInv, NEW t \in Callers, NEW v \in ViewSet, NEW stage \in {"answered", "store", "keep"},
           job[t].at \in ReaderStages
    PROVE  LET new == With(job[t], stage, v) IN
           /\ Reading(t, new) /\ new.at = stage /\ new.view = v
           /\ new.key = job[t].key /\ new.since = job[t].since
<1>1. job[t] \in JobSet /\ job[t].label = 0 /\ stage \in ReaderStages
  BY DEF RecordsIInv, RecordsTypeOK, StepsFit, StepFits, ReaderStages
<1>2. \A j \in JobSet :
         LET n == With(j, stage, v) IN
         /\ n \in JobSet /\ n.at = stage /\ n.key = j.key /\ n.op = j.op /\ n.label = j.label
         /\ n.since = j.since /\ n.rec = j.rec /\ n.renders = j.renders /\ n.sent = j.sent
         /\ n.view = v
  BY <1>1 DEF JobSet, With
<1> QED
  BY <1>1, <1>2 DEF Reading

LEMMA AnswersWith ==
    ASSUME NEW t \in Callers, NEW v
    PROVE  Answers(t, v) <=> Reads(t, With(job[t], "answered", v))
BY DEF Answers, With

\* What a step that keeps nothing new leaves: the views as they are.
LEMMA KeptViews ==
    ASSUME RecordsIInv
    PROVE  /\ cache \in Seq([key: Seq(Nat), view: ViewSet]) /\ Len(cache) <= CacheMax
           /\ shared \subseteq [key: Seq(Nat), failed: BOOLEAN, view: ViewSet]
           /\ chart \in ChartSet /\ browser \in ChartSet
           /\ \A i \in DOMAIN cache : Serves(cache[i].key, cache[i].view)
           /\ \A s \in shared : s.failed \/ Serves(s.key, s.view)
           /\ Serves(chart.tag, chart.view) /\ Serves(browser.tag, browser.view)
           /\ Len(chart.tag) # 1 /\ Len(browser.tag) # 1
BY DEF RecordsIInv, RecordsTypeOK, ViewsServe, TagsRead

\* A view that serves a reader's key may be its answer.
LEMMA AnswerFresh ==
    ASSUME RecordsIInv, NEW t \in Callers, Keyed(job[t]), NEW v, Serves(job[t].key, v)
    PROVE  \A l \in Labels \ raced : v[l] >= job[t].since[l]
BY DEF Serves

\* An answer that is kept nowhere new.
LEMMA AnswersSound ==
    ASSUME RecordsIInv, NEW t \in Callers, NEW v \in ViewSet, Keyed(job[t]), Serves(job[t].key, v),
           Answers(t, v), UNCHANGED <<cache, shared, chart, browser>>
    PROVE  RecordsIInv'
<1>1. job[t].at \in ReaderStages
  BY DEF Keyed, ReaderStages
<1>2. PICK new : /\ Reading(t, new) /\ new.at = "answered" /\ new.view = v
                 /\ new.key = job[t].key /\ new.since = job[t].since /\ Reads(t, new)
  BY <1>1, AnswersReading, AnswersWith
<1> QED
  BY <1>2, KeptViews, AnswerFresh, ReaderSound DEF Keyed

\* A reader that goes away or goes on, with nothing new.
LEMMA GoesOnSound ==
    ASSUME RecordsIInv, NEW t \in Callers, NEW new, Reading(t, new), Reads(t, new),
           Keyed(new) => Keyed(job[t]) /\ new.key = job[t].key,
           new.at \notin {"store", "keep", "answered", "match"},
           UNCHANGED <<cache, chart, browser>>,
           shared' \subseteq [key: Seq(Nat), failed: BOOLEAN, view: ViewSet],
           \A s \in shared' \ shared : s.failed
    PROVE  RecordsIInv'
BY KeptViews, ReaderSound

LEMMA StageReading ==
    ASSUME RecordsIInv, NEW t \in Callers, NEW stage \in {"wait", "compute"}, job[t].at \in ReaderStages
    PROVE  LET new == [job[t] EXCEPT !.at = stage] IN
           Reading(t, new) /\ new.at = stage /\ new.key = job[t].key
<1>1. job[t] \in JobSet /\ job[t].label = 0 /\ stage \in ReaderStages
  BY DEF RecordsIInv, RecordsTypeOK, StepsFit, StepFits, ReaderStages
<1>2. \A j \in JobSet :
         LET n == [j EXCEPT !.at = stage] IN
         /\ n \in JobSet /\ n.at = stage /\ n.key = j.key /\ n.op = j.op /\ n.label = j.label
         /\ n.since = j.since /\ n.rec = j.rec /\ n.renders = j.renders /\ n.sent = j.sent
  BY <1>1 DEF JobSet
<1> QED
  BY <1>1, <1>2 DEF Reading

LEMMA LeavesReading ==
    ASSUME NEW t \in Callers, job[t].at \in ReaderStages
    PROVE  Reading(t, NoJob) /\ ~Keyed(NoJob) /\ NoJob.at = "none"
BY NoJobTyped DEF Reading, Keyed

LEMMA DecidesSound ==
    ASSUME RecordsIInv, NEW t \in Callers, Decides(t)
    PROVE  RecordsIInv'
<1>1. /\ job[t].at = "decide" /\ Keyed(job[t]) /\ job[t].at \in ReaderStages
      /\ UNCHANGED <<cache, shared, chart, browser>>
  BY DEF Decides, Keyed, ReaderStages
<1>2. CASE \E k \in Cached(job[t].key) : Answers(t, cache[k].view)
  <2>1. PICK k \in Cached(job[t].key) : Answers(t, cache[k].view)
    BY <1>2
  <2>2. k \in DOMAIN cache /\ cache[k].key = job[t].key
    BY DEF Cached
  <2>3. cache[k] \in [key: Seq(Nat), view: ViewSet]
    BY <2>2, KeptViews, ElementsTyped
  <2>4. cache[k].view \in ViewSet /\ Serves(job[t].key, cache[k].view)
    BY <2>2, <2>3, KeptViews
  <2> QED
    BY <1>1, <2>1, <2>4, AnswersSound
<1>3. ASSUME NEW stage \in {"wait", "compute"}, Reads(t, [job[t] EXCEPT !.at = stage])
      PROVE  RecordsIInv'
  <2> DEFINE new == [job[t] EXCEPT !.at = stage]
  <2>1. Reading(t, new) /\ new.at = stage /\ new.key = job[t].key /\ Reads(t, new)
    BY <1>1, <1>3, StageReading
  <2> HIDE DEF new
  <2> QED
    BY <1>1, <2>1, KeptViews, GoesOnSound
<1> QED
  BY <1>2, <1>3 DEF Decides

LEMMA ComputesSound ==
    ASSUME RecordsIInv, NEW t \in Callers, Computes(t)
    PROVE  RecordsIInv'
<1>1. /\ job[t].at = "compute" /\ Keyed(job[t]) /\ job[t].at \in ReaderStages
      /\ UNCHANGED <<cache, chart, browser>> /\ job[t].key \in Seq(Nat)
  BY DEF Computes, Keyed, ReaderStages, RecordsIInv, RecordsTypeOK, JobSet
<1>2. CASE Reads(t, [job[t] EXCEPT !.view = View, !.at = "store"]) /\ UNCHANGED <<computing, shared>>
  <2>1. Serves(job[t].key, View) /\ View \in ViewSet
    BY <1>1, DrawnServes DEF RecordsIInv, KeysRead
  <2>2. PICK v \in ViewSet : v = View /\ Serves(job[t].key, v)
    BY <2>1
  <2>3. Reads(t, With(job[t], "store", v))
    <3>1. With(job[t], "store", v) = [job[t] EXCEPT !.view = v, !.at = "store"]
      BY DEF RecordsIInv, RecordsTypeOK, JobSet, With
    <3> QED
      BY <1>2, <2>2, <3>1
  <2>4. PICK new : /\ Reading(t, new) /\ new.at = "store" /\ new.view = v
                   /\ new.key = job[t].key /\ new.since = job[t].since /\ Reads(t, new)
    <3>1. job[t].at \in ReaderStages
      BY <1>1
    <3> QED
      BY <2>2, <2>3, <3>1, AnswersReading
  <2> QED
    BY <1>1, <1>2, <2>2, <2>4, KeptViews, ReaderSound
<1>3. CASE /\ shared' = shared \union {[key |-> job[t].key, failed |-> TRUE, view |-> Nothing]}
           /\ Reads(t, NoJob)
  <2>1. shared' \subseteq [key: Seq(Nat), failed: BOOLEAN, view: ViewSet]
    <3>1. [key |-> job[t].key, failed |-> TRUE, view |-> Nothing]
             \in [key: Seq(Nat), failed: BOOLEAN, view: ViewSet]
      BY <1>1, NothingTyped
    <3> QED
      BY <1>3, <3>1, KeptViews
  <2>2. \A s \in shared' \ shared : s.failed
    BY <1>3
  <2> QED
    BY <1>1, <1>3, <2>1, <2>2, LeavesReading, GoesOnSound
<1> QED
  BY <1>2, <1>3 DEF Computes

\* An entry at the end of the cache, the oldest gone if it was full.
CacheWith(c, e) == Append(IF Len(c) >= CacheMax THEN Tail(c) ELSE c, e)

LEMMA AppendKeeps ==
    ASSUME NEW S, NEW c \in Seq(S), Len(c) <= CacheMax, NEW e \in S
    PROVE  /\ CacheWith(c, e) \in Seq(S) /\ Len(CacheWith(c, e)) <= CacheMax
           /\ \A i \in DOMAIN CacheWith(c, e) :
                 CacheWith(c, e)[i] = e \/ \E k \in DOMAIN c : CacheWith(c, e)[i] = c[k]
<1> DEFINE d == CacheWith(c, e)
<1> DEFINE b == IF Len(c) >= CacheMax THEN Tail(c) ELSE c
<1>1. b \in Seq(S) /\ Len(b) < CacheMax /\ \A i \in 1..Len(b) : \E k \in DOMAIN c : b[i] = c[k]
  <2>1. CASE Len(c) >= CacheMax
    <3>1. c # << >> /\ Len(c) \in Nat /\ CacheMax \in Nat \ {0}
      BY <2>1, Sizes
    <3>2. /\ Tail(c) \in Seq(S) /\ Len(Tail(c)) = Len(c) - 1
          /\ \A i \in 1..Len(Tail(c)) : Tail(c)[i] = c[i + 1]
      BY <3>1
    <3>3. \A i \in 1..Len(Tail(c)) : i + 1 \in DOMAIN c
      BY <3>1, <3>2
    <3> QED
      BY <2>1, <3>1, <3>2, <3>3
  <2>2. CASE ~(Len(c) >= CacheMax)
    BY <2>2, Sizes
  <2> QED
    BY <2>1, <2>2
<1> HIDE DEF b
<1>2. /\ Append(b, e) \in Seq(S) /\ Len(Append(b, e)) = Len(b) + 1
      /\ \A i \in 1..Len(b) : Append(b, e)[i] = b[i] /\ Append(b, e)[Len(b) + 1] = e
  BY <1>1
<1>3. d = Append(b, e)
  BY DEF b, CacheWith
<1> HIDE DEF d
<1>4. d \in Seq(S) /\ Len(d) <= CacheMax /\ DOMAIN d = 1..(Len(b) + 1)
  BY <1>1, <1>2, <1>3, Sizes
<1>5. d[Len(b) + 1] = e
  BY <1>1, <1>3
<1>6. /\ d \in Seq(S) /\ Len(d) <= CacheMax
      /\ \A i \in DOMAIN d : d[i] = e \/ \E k \in DOMAIN c : d[i] = c[k]
  BY <1>1, <1>2, <1>3, <1>4, <1>5
<1> QED
  BY <1>6 DEF d

LEMMA StoresSound ==
    ASSUME RecordsIInv, NEW t \in Callers, Stores(t)
    PROVE  RecordsIInv'
<1>1. /\ job[t].at = "store" /\ Keyed(job[t]) /\ job[t].at \in ReaderStages
      /\ UNCHANGED <<chart, browser>> /\ job[t].key \in Seq(Nat) /\ job[t].view \in ViewSet
      /\ Serves(job[t].key, job[t].view)
  BY DEF Stores, Keyed, ReaderStages, RecordsIInv, RecordsTypeOK, JobSet, ViewsServe
<1>2. PICK v \in ViewSet : v = job[t].view /\ Serves(job[t].key, v)
  BY <1>1
<1>3. PICK S : S = [key: Seq(Nat), view: ViewSet]
  OBVIOUS
<1>4. PICK e \in S : e.key = job[t].key /\ e.view = v /\ e = [key |-> job[t].key, view |-> v]
  BY <1>1, <1>3
<1>5. Answers(t, v) /\ cache' = CacheWith(cache, e)
      /\ shared' = shared \union {[key |-> job[t].key, failed |-> FALSE, view |-> v]}
  BY <1>2, <1>4 DEF Stores, CacheWith
<1>6. PICK new : /\ Reading(t, new) /\ new.at = "answered" /\ new.view = v
                 /\ new.key = job[t].key /\ new.since = job[t].since /\ Reads(t, new)
  <2>1. job[t].at \in ReaderStages /\ v \in ViewSet
    BY <1>1, <1>2
  <2> QED
    BY <1>5, <2>1, AnswersReading, AnswersWith
<1>7. /\ cache' \in Seq(S) /\ Len(cache') <= CacheMax
      /\ \A i \in DOMAIN cache' : cache'[i] = e \/ \E k \in DOMAIN cache : cache'[i] = cache[k]
  <2>1. cache \in Seq(S) /\ Len(cache) <= CacheMax
    BY <1>3, KeptViews
  <2> QED
    BY <1>4, <1>5, <2>1, AppendKeeps
<1>8. \A i \in DOMAIN cache' : Serves(cache'[i].key, cache'[i].view)
  BY <1>2, <1>4, <1>7, KeptViews
<1>9. /\ shared' \subseteq [key: Seq(Nat), failed: BOOLEAN, view: ViewSet]
      /\ \A s \in shared' : s.failed \/ Serves(s.key, s.view)
  <2>1. PICK s \in [key: Seq(Nat), failed: BOOLEAN, view: ViewSet] :
           s = [key |-> job[t].key, failed |-> FALSE, view |-> v] /\ s.key = job[t].key /\ s.view = v
    <3>1. [key |-> job[t].key, failed |-> FALSE, view |-> v]
             \in [key: Seq(Nat), failed: BOOLEAN, view: ViewSet]
      BY <1>1, <1>2
    <3> QED
      BY <3>1
  <2> QED
    BY <1>2, <1>5, <2>1, KeptViews
<1> QED
  BY <1>1, <1>2, <1>3, <1>6, <1>7, <1>8, <1>9, KeptViews, AnswerFresh, ReaderSound DEF Keyed

LEMMA WakesSound ==
    ASSUME RecordsIInv, NEW t \in Callers, Wakes(t)
    PROVE  RecordsIInv'
<1>1. /\ job[t].at = "wait" /\ Keyed(job[t]) /\ job[t].at \in ReaderStages
      /\ UNCHANGED <<cache, shared, chart, browser>>
  BY DEF Wakes, Keyed, ReaderStages, readVars
<1>2. CASE \E s \in shared : s.key = job[t].key /\ ~s.failed /\ Answers(t, s.view)
  <2>1. PICK s \in shared : s.key = job[t].key /\ ~s.failed /\ Answers(t, s.view)
    BY <1>2
  <2>2. s.view \in ViewSet /\ Serves(job[t].key, s.view)
    BY <2>1, KeptViews
  <2> QED
    BY <1>1, <2>1, <2>2, AnswersSound
<1>3. CASE Reads(t, NoJob)
  BY <1>1, <1>3, KeptViews, LeavesReading, GoesOnSound
<1>4. CASE Answers(t, View)
  <2>1. Serves(job[t].key, View) /\ View \in ViewSet
    BY <1>1, DrawnServes DEF RecordsIInv, KeysRead
  <2> QED
    BY <1>1, <1>4, <2>1, AnswersSound
<1> QED
  BY <1>2, <1>3, <1>4 DEF Wakes

LEMMA MatchesSound ==
    ASSUME RecordsIInv, NEW t \in Callers, Matches(t)
    PROVE  RecordsIInv'
<1>1. /\ job[t].at = "match" /\ Keyed(job[t]) /\ job[t].at \in ReaderStages
      /\ UNCHANGED <<cache, shared, chart>> /\ job[t] \in JobSet
      /\ chart \in ChartSet /\ browser \in ChartSet
  BY DEF Matches, Keyed, ReaderStages, RecordsIInv, RecordsTypeOK
<1>2. CASE job[t].sent.tag = job[t].key /\ Answers(t, job[t].sent.view) /\ UNCHANGED browser
  <2>1. job[t].sent \in ChartSet
    BY <1>1 DEF JobSet
  <2>2. job[t].sent.view \in ViewSet
    BY <2>1 DEF ChartSet
  <2>3. Serves(job[t].key, job[t].sent.view)
    BY <1>2 DEF RecordsIInv, ViewsServe
  <2> QED
    BY <1>1, <1>2, <2>2, <2>3, AnswersSound
<1>3. CASE chart.tag = job[t].key /\ Answers(t, chart.view) /\ browser' = chart
  <2>1. PICK v \in ViewSet : v = chart.view /\ Serves(job[t].key, v)
    BY <1>1, <1>3, KeptViews DEF ChartSet
  <2>2. PICK new : /\ Reading(t, new) /\ new.at = "answered" /\ new.view = v
                   /\ new.key = job[t].key /\ new.since = job[t].since /\ Reads(t, new)
    <3>1. job[t].at \in ReaderStages
      BY <1>1
    <3> QED
      BY <1>3, <2>1, <3>1, AnswersReading, AnswersWith
  <2> QED
    BY <1>1, <1>3, <2>1, <2>2, KeptViews, AnswerFresh, ReaderSound DEF Keyed
<1>4. CASE Reads(t, [job[t] EXCEPT !.view = Chart, !.at = "keep"]) /\ UNCHANGED browser
  <2>1. Serves(job[t].key, View) /\ View \in ViewSet
    BY <1>1, DrawnServes DEF RecordsIInv, KeysRead
  <2>2. PICK v \in ViewSet : v = Chart /\ Serves(job[t].key, v)
    BY <2>1 DEF Chart
  <2>3. Reads(t, With(job[t], "keep", v))
    <3>1. With(job[t], "keep", v) = [job[t] EXCEPT !.view = v, !.at = "keep"]
      BY DEF RecordsIInv, RecordsTypeOK, JobSet, With
    <3> QED
      BY <1>4, <2>2, <3>1
  <2>4. PICK new : /\ Reading(t, new) /\ new.at = "keep" /\ new.view = v
                   /\ new.key = job[t].key /\ new.since = job[t].since /\ Reads(t, new)
    <3>1. job[t].at \in ReaderStages
      BY <1>1
    <3> QED
      BY <2>2, <2>3, <3>1, AnswersReading
  <2> QED
    BY <1>1, <1>4, <2>2, <2>4, KeptViews, ReaderSound
<1> QED
  BY <1>2, <1>3, <1>4 DEF Matches

LEMMA KeepsChartSound ==
    ASSUME RecordsIInv, NEW t \in Callers, KeepsChart(t)
    PROVE  RecordsIInv'
<1>1. /\ job[t].at = "keep" /\ Keyed(job[t]) /\ job[t].at \in ReaderStages
      /\ UNCHANGED <<cache, shared>> /\ job[t].key \in Seq(Nat) /\ job[t].view \in ViewSet
      /\ Serves(job[t].key, job[t].view)
  BY DEF KeepsChart, Keyed, ReaderStages, RecordsIInv, RecordsTypeOK, JobSet, ViewsServe
<1>2. PICK v \in ViewSet : v = job[t].view /\ Serves(job[t].key, v)
  BY <1>1
<1>3. PICK c \in ChartSet : c.tag = job[t].key /\ c.view = v /\ c = [tag |-> job[t].key, view |-> v]
  BY <1>1, <1>2 DEF ChartSet
<1>4. chart' = c /\ browser' = c /\ Answers(t, v)
  BY <1>2, <1>3 DEF KeepsChart
<1>5. PICK new : /\ Reading(t, new) /\ new.at = "answered" /\ new.view = v
                 /\ new.key = job[t].key /\ new.since = job[t].since /\ Reads(t, new)
  <2>1. job[t].at \in ReaderStages /\ v \in ViewSet
    BY <1>1, <1>2
  <2> QED
    BY <1>4, <2>1, AnswersReading, AnswersWith
<1>6. Len(job[t].key) = 2
  BY <1>1 DEF RecordsIInv, TagsRead
<1>7. Len(c.tag) # 1
  BY <1>3, <1>6
<1> QED
  BY <1>7, <1>1, <1>2, <1>3, <1>4, <1>5, KeptViews, AnswerFresh, ReaderSound DEF Keyed

LEMMA HeardSound ==
    ASSUME RecordsIInv, NEW t \in Callers, Heard(t)
    PROVE  RecordsIInv'
<1>1. job[t].at \in ReaderStages /\ Reads(t, NoJob) /\ UNCHANGED <<cache, shared, chart, browser>>
  BY DEF Heard, ReaderStages, readVars
<1> QED
  BY <1>1, KeptViews, LeavesReading, GoesOnSound

LEMMA ForgetsSound ==
    ASSUME RecordsIInv, Forgets
    PROVE  RecordsIInv'
<1>1. /\ UNCHANGED <<known, listed, saved, version, holder, job, cache, chart, browser, nonce, owed, raced, spent>>
      /\ shared' \subseteq shared
  BY DEF Forgets, storeVars
<1>2. ReadersStay
  BY <1>1 DEF ReadersStay
<1>3. \A k, v : Serves(k, v) => Serves(k, v)'
  BY <1>2, QuietServes
<1>4. RecordsTypeOK'
  BY <1>1 DEF RecordsIInv, RecordsTypeOK
<1>5. LockHeld' /\ StepsFit' /\ RevsWritten' /\ FileAhead' /\ EntersNewer' /\ AskedBefore' /\ FreshReads'
  BY <1>1 DEF RecordsIInv, LockHeld, StepsFit, RevsWritten, FileAhead, EntersNewer, AskedBefore, FreshReads
<1>6. WorksAlone'
  BY <1>1 DEF RecordsIInv, WorksAlone
<1>7. KeysRead'
  BY <1>1 DEF RecordsIInv, KeysRead, PastKey
<1>8. ViewsServe'
  BY <1>1, <1>3 DEF RecordsIInv, ViewsServe
<1>9. TagsRead'
  BY <1>1 DEF RecordsIInv, TagsRead
<1> QED
  BY <1>4, <1>5, <1>6, <1>7, <1>8, <1>9 DEF RecordsIInv

-----------------------------------------------------------------------------
(* Calls that change records.                                                 *)

\* Nobody holds the lock, or one caller.
LEMMA OneHolder ==
    ASSUME LockHeld
    PROVE  /\ holder = Nobody => \A q \in Callers : job[q].at \notin {"swap", "bump"}
           /\ \A p \in Callers : holder = p => \A q \in Callers \ {p} : job[q].at \notin {"swap", "bump"}
           /\ Nobody \notin Callers
BY RecordsAssumption DEF LockHeld, Nobody, Callers

\* What a step of a call that changes records has to show: the rest is kept.
LEMMA WriterSound ==
    ASSUME RecordsIInv, NEW p \in Callers, NEW new \in JobSet, job' = [job EXCEPT ![p] = new],
           StepFits(new), new.at \notin ReaderStages \ {"version", "tag"},
           new.sent \in {job[p].sent, NoChart, browser},
           UNCHANGED <<cache, computing, shared, chart, browser, nonce>>,
           raced \subseteq raced', raced' \subseteq Labels,
           known' \in [Labels -> RecordSet], saved' \in [Labels -> RecordSet], listed' \subseteq Labels,
           version' \in Nat, version <= version', spent' \in [writes: Nat, requests: Nat],
           owed' \in ViewSet, \A l \in Labels : owed[l] <= owed'[l] /\ new.since[l] <= owed'[l],
           holder' \in Callers \union {Nobody}, holder' = p <=> new.at \in {"swap", "bump"},
           \A q \in Callers \ {p} : holder' = q <=> holder = q,
           WorksAlone', RevsWritten', FileAhead', EntersNewer',
           \A k \in Seq(Nat) : \A v : Serves(k, v) => Serves(k, v)'
    PROVE  RecordsIInv'
<1>1. /\ job' \in [Callers -> JobSet] /\ job'[p] = new
      /\ \A q \in Callers \ {p} : job'[q] = job[q]
  BY DEF RecordsIInv, RecordsTypeOK
<1>2. RecordsTypeOK'
  BY <1>1 DEF RecordsIInv, RecordsTypeOK
<1>3. LockHeld'
  BY <1>1 DEF RecordsIInv, LockHeld
<1>4. StepsFit'
  BY <1>1 DEF RecordsIInv, StepsFit
<1>5. AskedBefore'
  <2>1. ASSUME NEW q \in Callers \ {p}, NEW l \in Labels
        PROVE  job'[q].since[l] <= owed'[l]
    <3>1. job[q].since[l] \in Nat /\ owed[l] \in Nat /\ owed'[l] \in Nat
      BY DEF RecordsIInv, RecordsTypeOK, JobSet, ViewSet
    <3>2. job[q].since[l] <= owed[l] /\ owed[l] <= owed'[l]
      BY DEF RecordsIInv, AskedBefore
    <3> QED
      BY <1>1, <3>1, <3>2
  <2> QED
    BY <1>1, <2>1 DEF AskedBefore
<1>6. new.at \notin {"store", "keep", "answered"} /\ ~Keyed(new)
  BY DEF Keyed, ReaderStages
<1>7. KeysRead'
  <2>1. ASSUME NEW k \in Seq(Nat), PastKey(k) PROVE PastKey(k)'
    <3>1. version \in Nat /\ version' \in Nat /\ version <= version' /\ nonce' = nonce
      BY DEF RecordsIInv, RecordsTypeOK
    <3>2. Len(k) = 1 => k[1] \in Nat
      OBVIOUS
    <3>3. Len(k) = 2 => k[1] \in Nat /\ k[2] \in Nat
      <4>1. Len(k) = 2 => 1 \in DOMAIN k /\ 2 \in DOMAIN k
        OBVIOUS
      <4> QED
        BY <4>1, ElementsTyped
    <3> QED
      BY <2>1, <3>1, <3>2, <3>3 DEF PastKey
  <2>2. \A q \in Callers : job[q].key \in Seq(Nat)
    BY DEF RecordsIInv, RecordsTypeOK, JobSet
  <2> QED
    BY <1>1, <1>6, <2>1, <2>2 DEF RecordsIInv, KeysRead
<1>8. ViewsServe'
  <2>1. \A q \in Callers : job[q].key \in Seq(Nat) /\ job[q].sent.tag \in Seq(Nat)
    BY DEF RecordsIInv, RecordsTypeOK, JobSet, ChartSet
  <2>2. chart.tag \in Seq(Nat) /\ browser.tag \in Seq(Nat) /\ NoChart.tag \in Seq(Nat)
    BY NothingTyped DEF RecordsIInv, RecordsTypeOK, ChartSet
  <2>3. \A i \in DOMAIN cache : cache[i].key \in Seq(Nat)
    <3>1. \A i \in DOMAIN cache : cache[i] \in [key: Seq(Nat), view: ViewSet]
      BY KeptViews, ElementsTyped
    <3> QED
      BY <3>1
  <2>4. \A s \in shared : s.key \in Seq(Nat)
    BY KeptViews
  <2>5. \A q \in Callers :
           Serves(job'[q].sent.tag, job'[q].sent.view) /\ job'[q].sent.tag \in Seq(Nat)
    BY <1>1, <2>1, <2>2, NoChartServes DEF RecordsIInv, ViewsServe
  <2>6. \A q \in Callers : job'[q].at \in {"store", "keep"} =>
           Serves(job'[q].key, job'[q].view) /\ job'[q].key \in Seq(Nat)
    BY <1>1, <1>6, <2>1 DEF RecordsIInv, ViewsServe
  <2>7. \A i \in DOMAIN cache' : Serves(cache'[i].key, cache'[i].view) /\ cache'[i].key \in Seq(Nat)
    BY <2>3 DEF RecordsIInv, ViewsServe
  <2>8. \A s \in shared' : s.key \in Seq(Nat) /\ (s.failed \/ Serves(s.key, s.view))
    BY <2>4 DEF RecordsIInv, ViewsServe
  <2>9. /\ Serves(chart'.tag, chart'.view) /\ Serves(browser'.tag, browser'.view)
        /\ chart'.tag \in Seq(Nat) /\ browser'.tag \in Seq(Nat)
    BY <2>2 DEF RecordsIInv, ViewsServe
  <2> QED
    BY <2>5, <2>6, <2>7, <2>8, <2>9 DEF ViewsServe
<1>9. FreshReads'
  BY <1>1, <1>6 DEF RecordsIInv, FreshReads
<1>10. TagsRead'
  <2>1. Len(new.sent.tag) # 1
    <3>1. Len(job[p].sent.tag) # 1 /\ Len(browser.tag) # 1
      BY DEF RecordsIInv, TagsRead
    <3> QED
      BY <3>1, NoChartTag
  <2>2. new.at \notin {"match", "keep"}
    BY <1>6 DEF Keyed
  <2>3. \A q \in Callers \ {p} :
           /\ job'[q].at \in {"match", "keep"} => Len(job'[q].key) = 2
           /\ Len(job'[q].sent.tag) # 1
    BY <1>1 DEF RecordsIInv, TagsRead
  <2>4. Len(chart'.tag) # 1 /\ Len(browser'.tag) # 1
    BY DEF RecordsIInv, TagsRead
  <2> QED
    BY <1>1, <2>1, <2>2, <2>3, <2>4 DEF TagsRead
<1> QED
  BY <1>2, <1>3, <1>4, <1>5, <1>7, <1>8, <1>9, <1>10 DEF RecordsIInv

\* A step that changes no record, in memory or on file, and tells nobody.
LEMMA QuietSound ==
    ASSUME RecordsIInv, NEW p \in Callers, NEW new \in JobSet, job' = [job EXCEPT ![p] = new],
           StepFits(new), new.at \notin (ReaderStages \ {"version", "tag"}) \union {"publish", "swap", "pop", "bump"},
           job[p].at \notin {"swap", "bump"}, new.sent \in {job[p].sent, NoChart, browser},
           UNCHANGED <<known, saved, version, holder, owed, cache, computing, shared, chart, browser, nonce>>,
           raced \subseteq raced', raced' \subseteq Labels, listed' \subseteq Labels,
           spent' \in [writes: Nat, requests: Nat], spent'.writes = spent.writes,
           new.rec.rev <= spent.writes, \A l \in Labels : new.since[l] <= owed[l],
           WorksAlone'
    PROVE  RecordsIInv'
<1>1. /\ job' \in [Callers -> JobSet] /\ job'[p] = new
      /\ \A q \in Callers \ {p} : job'[q] = job[q]
  BY DEF RecordsIInv, RecordsTypeOK
<1>2. ReadersStay
  BY <1>1 DEF ReadersStay, Keyed, ReaderStages
<1>3. \A k, v : Serves(k, v) => Serves(k, v)'
  BY <1>2, QuietServes
<1>4. RevsWritten' /\ FileAhead' /\ EntersNewer'
  <2>1. RevsWritten' /\ FileAhead'
    BY <1>1 DEF RecordsIInv, RevsWritten, FileAhead
  <2>2. EntersNewer'
    BY <1>1 DEF RecordsIInv, EntersNewer
  <2> QED
    BY <2>1, <2>2
<1>5. holder' = p <=> new.at \in {"swap", "bump"}
  BY DEF RecordsIInv, LockHeld
<1>6. /\ known' \in [Labels -> RecordSet] /\ saved' \in [Labels -> RecordSet]
      /\ version' \in Nat /\ version <= version' /\ owed' \in ViewSet
      /\ holder' \in Callers \union {Nobody}
  BY DEF RecordsIInv, RecordsTypeOK
<1>7. \A l \in Labels : owed[l] <= owed'[l] /\ new.since[l] <= owed'[l]
  BY DEF RecordsIInv, RecordsTypeOK, ViewSet
<1>8. \A q \in Callers \ {p} : holder' = q <=> holder = q
  OBVIOUS
<1>9. new.at \notin ReaderStages \ {"version", "tag"}
  OBVIOUS
<1> QED
  BY <1>3, <1>4, <1>5, <1>6, <1>7, <1>8, <1>9, WriterSound

\* A call that ends without a change.
LEMMA EndsSound ==
    ASSUME RecordsIInv, NEW p \in Callers, Finishes(p), job[p].at \notin {"swap", "bump"},
           UNCHANGED <<known, saved, version, holder, owed, spent>>, ReadersSame,
           listed' \subseteq Labels
    PROVE  RecordsIInv'
<1>1. /\ RecordsTypeOK /\ job' = [job EXCEPT ![p] = NoJob] /\ raced' = raced
      /\ job' \in [Callers -> JobSet] /\ job'[p] = NoJob
      /\ \A q \in Callers \ {p} : job'[q] = job[q]
      /\ UNCHANGED <<cache, computing, shared, chart, browser, nonce>>
  BY NoJobTyped DEF RecordsIInv, RecordsTypeOK, Finishes, ReadersSame, readVars
<1>2. StepFits(NoJob) /\ ~Alone(NoJob) /\ \A l \in Labels : ~Touches(NoJob, l)
  BY NoJobTyped, TouchesNone DEF StepFits, Alone, ReaderStages, WriterStages, WriterOps
<1>3. WorksAlone'
  BY <1>1, <1>2, StaysAlone DEF RecordsIInv, RecordsTypeOK
<1>4. NoJob.rec.rev <= spent.writes /\ \A l \in Labels : NoJob.since[l] <= owed[l]
  BY <1>1, NoJobTyped, NothingTyped DEF RecordsTypeOK, ViewSet
<1>5. raced \subseteq Labels /\ spent \in [writes: Nat, requests: Nat]
  BY <1>1 DEF RecordsTypeOK
<1>6. NoJob.at \notin (ReaderStages \ {"version", "tag"}) \union {"publish", "swap", "pop", "bump"}
  BY NoJobTyped DEF ReaderStages
<1> QED
  BY <1>1, <1>2, <1>3, <1>4, <1>5, <1>6, NoJobTyped, QuietSound

LEMMA RacesLabels == ASSUME NEW p, NEW new PROVE Races(p, new) \subseteq Labels
BY DEF Races

LEMMA StartsSound ==
    ASSUME RecordsIInv, NEW p \in Callers, NEW new \in JobSet, Starts(p, new), StepFits(new),
           new.at \notin (ReaderStages \ {"version", "tag"}) \union {"publish", "swap", "pop", "bump"},
           new.rec.rev = 0, new.since \in {Nothing, owed}, new.sent \in {NoChart, browser}
    PROVE  RecordsIInv'
<1>1. /\ RecordsTypeOK /\ job[p] = NoJob /\ Becomes(p, new) /\ spent' = [spent EXCEPT !.requests = @ + 1]
      /\ UNCHANGED <<known, listed, saved, version, holder, owed, cache, computing, shared, chart, browser, nonce>>
  BY DEF RecordsIInv, Starts, storeVars, readVars
<1>2. WorksAlone' /\ raced \subseteq raced' /\ job' = [job EXCEPT ![p] = new]
  BY <1>1, BecomesAlone DEF RecordsIInv, RecordsTypeOK
<1>3. raced' \subseteq Labels /\ listed \subseteq Labels
  BY <1>1, RacesLabels DEF Becomes, RecordsTypeOK
<1>4. spent' \in [writes: Nat, requests: Nat] /\ spent'.writes = spent.writes /\ spent.writes \in Nat
  <2>1. spent \in [writes: Nat, requests: Nat]
    BY <1>1 DEF RecordsTypeOK
  <2> QED
    BY <1>1, <2>1
<1>5. \A l \in Labels : new.since[l] <= owed[l]
  BY <1>1, NothingTyped DEF RecordsTypeOK, ViewSet
<1>6. job[p].at \notin {"swap", "bump"} /\ new.rec.rev <= spent.writes
  BY <1>1, <1>4, NoJobTyped
<1> QED
  BY <1>1, <1>2, <1>3, <1>4, <1>5, <1>6, QuietSound

-----------------------------------------------------------------------------
(* Calls that come in.                                                        *)

LEMMA CreateTyped ==
    ASSUME NEW n \in Nat
    PROVE  \E new \in JobSet :
              /\ new = [Call("create", "reserve", 0) EXCEPT !.left = n]
              /\ new.op = "create" /\ new.at = "reserve" /\ new.label = 0 /\ new.renders = TRUE
              /\ new.rec.rev = 0 /\ new.since = Nothing /\ new.sent = NoChart
<1>1. LET c == Call("create", "reserve", 0) IN
      /\ c \in JobSet /\ c.op = "create" /\ c.at = "reserve" /\ c.label = 0 /\ c.renders = TRUE
      /\ c.rec.rev = 0 /\ c.since = Nothing /\ c.sent = NoChart
  <2>1. "create" \in WriterOps /\ "reserve" \in WriterStages /\ 0 \in 0..MaxSeq
    BY Sizes DEF WriterOps, WriterStages
  <2>2. Incoming(Call("create", "reserve", 0), "create", "reserve", 0)
    BY <2>1, RequestTyped
  <2> QED
    BY <2>2 DEF Incoming
<1>2. PICK c \in JobSet :
         /\ c = Call("create", "reserve", 0)
         /\ c.op = "create" /\ c.at = "reserve" /\ c.label = 0 /\ c.renders = TRUE
         /\ c.rec.rev = 0 /\ c.since = Nothing /\ c.sent = NoChart
  BY <1>1
<1>3. LET d == [c EXCEPT !.left = n] IN
      /\ d \in JobSet /\ d.op = c.op /\ d.at = c.at /\ d.label = c.label /\ d.renders = c.renders
      /\ d.rec = c.rec /\ d.since = c.since /\ d.sent = c.sent
  BY DEF JobSet
<1> QED
  BY <1>2, <1>3

LEMMA CreatesSound ==
    ASSUME RecordsIInv, NEW n \in Nat, Creates(n)
    PROVE  RecordsIInv'
<1>1. PICK new \in JobSet :
         /\ new = [Call("create", "reserve", 0) EXCEPT !.left = n]
         /\ new.op = "create" /\ new.at = "reserve" /\ new.label = 0 /\ new.renders = TRUE
         /\ new.rec.rev = 0 /\ new.since = Nothing /\ new.sent = NoChart
  BY CreateTyped
<1>2. StepFits(new)
  BY <1>1 DEF StepFits, WriterOps, WriterStages, ReaderStages
<1>3. Loop \in Callers /\ Starts(Loop, new)
  BY <1>1 DEF Creates, Callers
<1>4. new.at \notin (ReaderStages \ {"version", "tag"}) \union {"publish", "swap", "pop", "bump"}
  BY <1>1 DEF ReaderStages
<1> QED
  BY <1>1, <1>2, <1>3, <1>4, StartsSound

LEMMA CreateCallsSound ==
    ASSUME RecordsIInv, CreateOne \/ CreateBatch \/ Rerun \/ Clone
    PROVE  RecordsIInv'
<1>1. 1 \in Nat /\ 2..MaxSeq \subseteq Nat /\ Labels \subseteq Nat
  BY Sizes DEF Labels
<1> QED
  BY <1>1, CreatesSound DEF CreateOne, CreateBatch, Rerun, Clone

LEMMA UpdatesSound ==
    ASSUME RecordsIInv, NEW p \in Callers, NEW l \in Labels,
           NEW status \in {"queued", "running", "done", "same"}, NEW renders \in BOOLEAN,
           Updates(p, l, status, renders)
    PROVE  RecordsIInv'
<1>1. PICK new \in JobSet :
         /\ new = [Call("update", "write", l) EXCEPT !.rec.status = status, !.renders = renders]
         /\ new.op = "update" /\ new.at = "write" /\ new.label = l
         /\ new.rec.rev = 0 /\ new.since = Nothing /\ new.sent = NoChart
  <2>1. PICK c \in JobSet :
           /\ c = Call("update", "write", l) /\ c.op = "update" /\ c.at = "write" /\ c.label = l
           /\ c.rec.rev = 0 /\ c.since = Nothing /\ c.sent = NoChart
    <3>1. "update" \in WriterOps /\ "write" \in WriterStages /\ l \in 0..MaxSeq
      BY Sizes DEF WriterOps, WriterStages
    <3>2. Incoming(Call("update", "write", l), "update", "write", l)
      BY <3>1, RequestTyped
    <3> QED
      BY <3>2 DEF Incoming
  <2>2. LET d == [c EXCEPT !.rec.status = status, !.renders = renders] IN
        /\ d \in JobSet /\ d.op = c.op /\ d.at = c.at /\ d.label = c.label
        /\ d.rec.rev = c.rec.rev /\ d.since = c.since /\ d.sent = c.sent
    BY DEF JobSet, Statuses
  <2> QED
    BY <2>1, <2>2
<1>2. StepFits(new)
  BY <1>1, Sizes DEF StepFits, WriterOps, WriterStages, ReaderStages
<1>3. Starts(p, new)
  BY <1>1 DEF Updates
<1>4. new.at \notin (ReaderStages \ {"version", "tag"}) \union {"publish", "swap", "pop", "bump"}
  BY <1>1 DEF ReaderStages
<1> QED
  BY <1>1, <1>2, <1>3, <1>4, StartsSound

LEMMA UpdateCallsSound ==
    ASSUME RecordsIInv, UpdateStatus \/ UpdateTags \/ SetPriority
    PROVE  RecordsIInv'
BY UpdatesSound DEF UpdateStatus, UpdateTags, SetPriority, Callers

\* Calls that delete or reload.
LEMMA OtherCallsSound ==
    ASSUME RecordsIInv, NEW p \in Callers, NEW l \in 0..MaxSeq, NEW op, NEW stage,
           Starts(p, Call(op, stage, l)),
           \/ op = "delete" /\ stage = "files" /\ l \in Labels
           \/ op = "reload" /\ stage = "scan" /\ l \in Labels
           \/ op = "reload all" /\ stage = "scan"
    PROVE  RecordsIInv'
<1>1. PICK new \in JobSet :
         /\ new = Call(op, stage, l) /\ new.op = op /\ new.at = stage /\ new.label = l /\ new.renders = TRUE
         /\ new.rec.rev = 0 /\ new.since = Nothing /\ new.sent = NoChart
  <2>1. op \in WriterOps /\ stage \in WriterStages
    BY DEF WriterOps, WriterStages
  <2>2. Incoming(Call(op, stage, l), op, stage, l)
    BY <2>1, RequestTyped
  <2> QED
    BY <2>2 DEF Incoming
<1>2. StepFits(new)
  <2>1. CASE op = "delete"
    BY <1>1, <2>1, Sizes DEF StepFits, WriterOps, WriterStages, ReaderStages
  <2>2. CASE op \in {"reload", "reload all"}
    BY <1>1, <2>2, Sizes DEF StepFits, WriterOps, WriterStages, ReaderStages
  <2> QED
    BY <2>1, <2>2
<1>3. new.at \notin (ReaderStages \ {"version", "tag"}) \union {"publish", "swap", "pop", "bump"}
  BY <1>1 DEF ReaderStages
<1> QED
  BY <1>1, <1>2, <1>3, StartsSound

LEMMA DeleteReloadSound ==
    ASSUME RecordsIInv, Delete \/ Reload \/ ReloadAll
    PROVE  RecordsIInv'
BY Sizes, OtherCallsSound DEF Delete, Reload, ReloadAll, Callers

LEMMA AskedSound ==
    ASSUME RecordsIInv, NEW t \in Callers, NEW op, NEW stage, Asked(t, op, stage),
           (op = "ideas" /\ stage = "version") \/ (op = "chart" /\ stage = "tag")
    PROVE  RecordsIInv'
<1>1. owed \in ViewSet /\ browser \in ChartSet
  BY DEF RecordsIInv, RecordsTypeOK
<1>2. PICK new \in JobSet :
         /\ new = [Call(op, stage, 0) EXCEPT !.since = owed, !.sent = browser]
         /\ new.op = op /\ new.at = stage /\ new.label = 0 /\ new.renders = TRUE
         /\ new.rec.rev = 0 /\ new.since = owed /\ new.sent = browser
  <2>1. PICK c \in JobSet :
           /\ c = Call(op, stage, 0) /\ c.op = op /\ c.at = stage /\ c.label = 0 /\ c.renders = TRUE
           /\ c.rec.rev = 0
    <3>1. op \in ReaderOps /\ stage \in ReaderStages /\ 0 \in 0..MaxSeq
      BY Sizes DEF ReaderOps, ReaderStages
    <3>2. Incoming(Call(op, stage, 0), op, stage, 0)
      BY <3>1, RequestTyped
    <3> QED
      BY <3>2 DEF Incoming
  <2>2. LET d == [c EXCEPT !.since = owed, !.sent = browser] IN
        /\ d \in JobSet /\ d.op = c.op /\ d.at = c.at /\ d.label = c.label /\ d.renders = c.renders
        /\ d.rec = c.rec /\ d.since = owed /\ d.sent = browser
    BY <1>1 DEF JobSet
  <2> QED
    BY <2>1, <2>2
<1>3. StepFits(new)
  BY <1>2 DEF StepFits, ReaderOps, WriterOps, WriterStages, ReaderStages
<1>4. new.at \notin (ReaderStages \ {"version", "tag"}) \union {"publish", "swap", "pop", "bump"}
  BY <1>2 DEF ReaderStages
<1>5. Starts(t, new)
  BY <1>2 DEF Asked
<1> QED
  BY <1>2, <1>3, <1>4, <1>5, StartsSound

LEMMA ReaderAsksSound ==
    ASSUME RecordsIInv, ListIdeas \/ GetChart
    PROVE  RecordsIInv'
<1>1. CASE ListIdeas
  <2>1. PICK t \in Callers : Asked(t, "ideas", "version")
    BY <1>1 DEF ListIdeas, Callers
  <2> QED
    BY <2>1, AskedSound
<1>2. CASE GetChart
  <2>1. PICK t \in Callers : Asked(t, "chart", "tag")
    BY <1>2 DEF GetChart, Callers
  <2> QED
    BY <2>1, AskedSound
<1> QED
  BY <1>1, <1>2

-----------------------------------------------------------------------------
(* Steps of a call that leave every record.                                   *)

\* What a call keeps of itself, whatever it comes to.
LEMMA CallerTyped ==
    ASSUME RecordsIInv, NEW p \in Callers
    PROVE  /\ job[p] \in JobSet /\ StepFits(job[p])
           /\ job[p].label \in 0..MaxSeq /\ job[p].rec \in [rev: Nat, status: Statuses \union {"gone", "same"}]
           /\ job[p].rec.rev \in Nat /\ job[p].rec.rev <= spent.writes
           /\ \A l \in Labels : job[p].since[l] <= owed[l] /\ owed[l] \in Nat
           /\ job[p].label # 0 => job[p].label \in Labels
           /\ job[p].at \in {"file", "publish", "script", "write", "swap", "files", "pop"} => job[p].label # 0
<1>1. job[p] \in JobSet /\ StepFits(job[p]) /\ job[p].rec.rev <= spent.writes /\ owed \in ViewSet
      /\ \A l \in Labels : job[p].since[l] <= owed[l]
  BY DEF RecordsIInv, RecordsTypeOK, StepsFit, RevsWritten, AskedBefore
<1>2. job[p].label \in 0..MaxSeq /\ job[p].rec \in [rev: Nat, status: Statuses \union {"gone", "same"}]
  BY <1>1 DEF JobSet
<1>3. job[p].rec.rev \in Nat
  BY <1>2
<1>4. job[p].at \in {"file", "publish", "script", "write", "swap", "files", "pop"} => job[p].label # 0
  BY <1>1 DEF StepFits, WriterOps
<1> QED
  BY <1>1, <1>2, <1>3, <1>4, Sizes DEF ViewSet, Labels

LEMMA ReserveSound ==
    ASSUME RecordsIInv, NEW p \in Callers, Reserve(p)
    PROVE  RecordsIInv'
<1> DEFINE s == NextSeq
<1>1. /\ job[p].op = "create" /\ job[p].at = "reserve" /\ s \in Labels
      /\ listed' = listed \union {s}
      /\ Becomes(p, [job[p] EXCEPT !.label = s, !.at = "file"])
      /\ UNCHANGED <<known, saved, version, holder, owed, spent, cache, computing, shared, chart, browser, nonce>>
  BY DEF Reserve, ReadersSame, readVars
<1> HIDE DEF s
<1>2. PICK new \in JobSet :
         /\ new = [job[p] EXCEPT !.label = s, !.at = "file"]
         /\ new.op = "create" /\ new.at = "file" /\ new.label = s /\ new.renders = job[p].renders
         /\ new.rec = job[p].rec /\ new.since = job[p].since /\ new.sent = job[p].sent
  <2> PICK j \in JobSet : j = job[p]
    BY CallerTyped
  <2>1. LET d == [j EXCEPT !.label = s, !.at = "file"] IN
           /\ d \in JobSet /\ d.op = j.op /\ d.at = "file" /\ d.label = s /\ d.renders = j.renders
           /\ d.rec = j.rec /\ d.since = j.since /\ d.sent = j.sent
    BY <1>1, Sizes DEF JobSet, WriterStages
  <2> QED
    BY <1>1, <2>1
<1>3. StepFits(new)
  <2>1. job[p].renders
    BY <1>1, CallerTyped DEF StepFits
  <2>2. s # 0
    BY <1>1, Sizes
  <2> QED
    BY <1>2, <2>1, <2>2 DEF StepFits, WriterOps, WriterStages, ReaderStages
<1>4. WorksAlone' /\ raced \subseteq raced' /\ job' = [job EXCEPT ![p] = new]
  <2>1. Becomes(p, new)
    BY <1>1, <1>2
  <2> QED
    BY <2>1, BecomesAlone DEF RecordsIInv, RecordsTypeOK
<1>5. raced' \subseteq Labels /\ listed' \subseteq Labels /\ spent' \in [writes: Nat, requests: Nat]
  BY <1>1, RacesLabels DEF Becomes, RecordsIInv, RecordsTypeOK
<1>6. new.rec.rev <= spent.writes /\ \A l \in Labels : new.since[l] <= owed[l]
  BY <1>2, CallerTyped
<1>7. new.at \notin (ReaderStages \ {"version", "tag"}) \union {"publish", "swap", "pop", "bump"}
      /\ job[p].at \notin {"swap", "bump"}
  BY <1>1, <1>2 DEF ReaderStages
<1> QED
  BY <1>1, <1>2, <1>3, <1>4, <1>5, <1>6, <1>7, QuietSound

LEMMA WriteScriptSound ==
    ASSUME RecordsIInv, NEW p \in Callers, WriteScript(p)
    PROVE  RecordsIInv'
<1>1. /\ job[p].op = "create" /\ job[p].at = "script" /\ ReadersSame
      /\ UNCHANGED <<known, listed, saved, version, holder, owed, spent, cache, computing, shared, chart, browser, nonce>>
      /\ listed \subseteq Labels /\ spent \in [writes: Nat, requests: Nat]
  BY DEF WriteScript, ReadersSame, readVars, storeVars, RecordsIInv, RecordsTypeOK
<1>2. CASE Finishes(p)
  <2>1. job[p].at \notin {"swap", "bump"} /\ listed' \subseteq Labels
    BY <1>1
  <2> QED
    BY <1>1, <1>2, <2>1, EndsSound
<1>3. CASE Becomes(p, [job[p] EXCEPT !.at = "write", !.rec.status = "queued"])
  <2>1. PICK new \in JobSet :
           /\ new = [job[p] EXCEPT !.at = "write", !.rec.status = "queued"]
           /\ new.op = "create" /\ new.at = "write" /\ new.label = job[p].label /\ new.renders = job[p].renders
           /\ new.rec.rev = job[p].rec.rev /\ new.since = job[p].since /\ new.sent = job[p].sent
    <3> PICK j \in JobSet : j = job[p]
      BY CallerTyped
    <3>1. LET d == [j EXCEPT !.at = "write", !.rec.status = "queued"] IN
             /\ d \in JobSet /\ d.op = j.op /\ d.at = "write" /\ d.label = j.label /\ d.renders = j.renders
             /\ d.rec.rev = j.rec.rev /\ d.since = j.since /\ d.sent = j.sent
      BY DEF JobSet, WriterStages, Statuses
    <3> QED
      BY <1>1, <3>1
  <2>2. StepFits(new)
    <3>1. job[p].renders /\ job[p].label # 0
      BY <1>1, CallerTyped DEF StepFits
    <3> QED
      BY <2>1, <3>1 DEF StepFits, WriterOps, WriterStages, ReaderStages
  <2>3. WorksAlone' /\ raced \subseteq raced' /\ job' = [job EXCEPT ![p] = new] /\ raced' \subseteq Labels
    <3>1. Becomes(p, new)
      BY <1>3, <2>1
    <3>2. raced' \subseteq Labels
      BY <3>1, RacesLabels DEF Becomes, RecordsIInv, RecordsTypeOK
    <3> QED
      BY <3>1, <3>2, BecomesAlone DEF RecordsIInv, RecordsTypeOK
  <2>4. new.rec.rev <= spent.writes /\ \A l \in Labels : new.since[l] <= owed[l]
    BY <2>1, CallerTyped
  <2>5. new.at \notin (ReaderStages \ {"version", "tag"}) \union {"publish", "swap", "pop", "bump"}
        /\ job[p].at \notin {"swap", "bump"} /\ listed' \subseteq Labels /\ spent'.writes = spent.writes
        /\ spent' \in [writes: Nat, requests: Nat]
    BY <1>1, <2>1 DEF ReaderStages
  <2> QED
    BY <1>1, <2>1, <2>2, <2>3, <2>4, <2>5, QuietSound
<1> QED
  BY <1>2, <1>3 DEF WriteScript

-----------------------------------------------------------------------------
(* Steps that write or remove a file.                                         *)

LEMMA SpentTyped ==
    ASSUME RecordsIInv
    PROVE  /\ spent \in [writes: Nat, requests: Nat] /\ spent.writes \in Nat
           /\ Writes => spent' \in [writes: Nat, requests: Nat] /\ spent'.writes = spent.writes + 1
<1>1. spent \in [writes: Nat, requests: Nat]
  BY DEF RecordsIInv, RecordsTypeOK
<1> QED
  BY <1>1 DEF Writes

LEMMA RevsTyped ==
    ASSUME RecordsIInv, NEW l \in Labels
    PROVE  /\ known[l] \in RecordSet /\ saved[l] \in RecordSet
           /\ known[l].rev \in Nat /\ saved[l].rev \in Nat /\ owed[l] \in Nat
           /\ known[l].rev <= spent.writes /\ saved[l].rev <= spent.writes
           /\ l \notin raced => owed[l] <= known[l].rev /\ known[l].rev <= saved[l].rev
<1>1. known[l] \in RecordSet /\ saved[l] \in RecordSet /\ owed[l] \in Nat
  BY DEF RecordsIInv, RecordsTypeOK, ViewSet
<1> QED
  BY <1>1 DEF RecordsIInv, RevsWritten, FileAhead, RecordSet

\* The files of other records stay, and the one that is written is as new as what
\* the call is about to enter.
LEMMA SavesNewer ==
    ASSUME RecordsIInv, NEW p \in Callers, NEW new \in JobSet, job' = [job EXCEPT ![p] = new],
           NEW r \in RecordSet, NEW l \in Labels, job[p].label = l, new.label = l, new.rec = r,
           saved' = [saved EXCEPT ![l] = r], raced \subseteq raced', UNCHANGED <<known, owed>>,
           spent' \in [writes: Nat, requests: Nat], spent.writes <= spent'.writes,
           \/ r.rev = spent.writes + 1 /\ spent'.writes = spent.writes + 1
           \/ r.rev = known[l].rev /\ holder = Nobody,
           new.renders \/ r.rev = known[l].rev
    PROVE  RevsWritten' /\ FileAhead' /\ EntersNewer'
<1>1. /\ job' \in [Callers -> JobSet] /\ job'[p] = new
      /\ \A q \in Callers \ {p} : job'[q] = job[q]
      /\ saved \in [Labels -> RecordSet]
  BY DEF RecordsIInv, RecordsTypeOK
<1>2. saved'[l] = r /\ \A i \in Labels \ {l} : saved'[i] = saved[i]
  BY <1>1
<1>3. r.rev \in Nat /\ spent.writes \in Nat /\ spent'.writes \in Nat /\ r.rev <= spent'.writes
      /\ \A i \in Labels : saved[i].rev <= spent'.writes /\ known[i].rev <= spent'.writes
  <2>1. r.rev \in Nat /\ spent.writes \in Nat /\ spent'.writes \in Nat
    BY SpentTyped DEF RecordSet
  <2>2. \A i \in Labels : /\ saved[i].rev \in Nat /\ known[i].rev \in Nat
                          /\ saved[i].rev <= spent.writes /\ known[i].rev <= spent.writes
    BY RevsTyped
  <2> QED
    BY <2>1, <2>2
<1>4. RevsWritten'
  <2>1. \A i \in Labels : known'[i].rev <= spent'.writes /\ saved'[i].rev <= spent'.writes
    BY <1>2, <1>3
  <2>2. \A q \in Callers : job'[q].rec.rev <= spent'.writes
    <3>1. \A q \in Callers : job[q].rec.rev <= spent.writes /\ job[q].rec.rev \in Nat
      BY CallerTyped
    <3> QED
      BY <1>1, <1>3, <3>1
  <2> QED
    BY <2>1, <2>2 DEF RevsWritten
<1>5. FileAhead'
  <2>1. \A i \in Labels \ raced' : owed[i] <= known[i].rev /\ known[i].rev <= saved[i].rev
    BY DEF RecordsIInv, FileAhead
  <2>2. l \notin raced' => known[l].rev <= r.rev
    BY <1>3, RevsTyped
  <2>3. \A i \in Labels \ raced' : owed'[i] <= known'[i].rev /\ known'[i].rev <= saved'[i].rev
    BY <1>2, <2>1, <2>2
  <2> QED
    BY <2>3 DEF FileAhead
<1>6. ASSUME NEW q \in Callers, job'[q].at \in {"publish", "swap", "pop"}
      PROVE  /\ job'[q].rec \in RecordSet
             /\ \A i \in Labels \ raced' : job'[q].label = i =>
                   /\ owed[i] <= job'[q].rec.rev /\ job'[q].rec.rev <= saved'[i].rev
                   /\ ~job'[q].renders => job'[q].rec.rev = known[i].rev
  <2>1. CASE q = p
    <3>1. l \notin raced' => owed[l] <= r.rev
      BY <1>3, RevsTyped
    <3> QED
      BY <1>1, <1>2, <1>3, <2>1, <3>1
  <2>2. CASE q # p
    <3>1. /\ job'[q] = job[q] /\ job[q].rec \in RecordSet /\ job[q].rec.rev \in Nat
          /\ \A i \in Labels \ raced' : job[q].label = i =>
                   /\ owed[i] <= job[q].rec.rev /\ job[q].rec.rev <= saved[i].rev
                   /\ ~job[q].renders => job[q].rec.rev = known[i].rev
      BY <1>1, <1>6, <2>2, CallerTyped DEF RecordsIInv, EntersNewer
    <3>2. ASSUME l \notin raced', job[q].label = l
          PROVE  job[q].rec.rev <= r.rev
      <4>1. CASE r.rev = spent.writes + 1
        BY <1>3, <3>1, <4>1, CallerTyped
      <4>2. CASE r.rev = known[l].rev /\ holder = Nobody
        <5>1. job[q].at \in {"publish", "pop"}
          BY <1>6, <3>1, <4>2, OneHolder DEF RecordsIInv
        <5>2. Alone(job[q])
          BY <5>1 DEF RecordsIInv, StepsFit, StepFits, Alone
        <5>3. Touches(job[q], l) /\ Touches(job[p], l) /\ l \notin raced
          BY <3>2 DEF Touches
        <5> QED
          BY <2>2, <5>2, <5>3 DEF RecordsIInv, WorksAlone
      <4> QED
        BY <4>1, <4>2
    <3> QED
      BY <1>2, <3>1, <3>2
  <2> QED
    BY <2>1, <2>2
<1>7. EntersNewer'
  BY <1>6 DEF EntersNewer
<1> QED
  BY <1>4, <1>5, <1>7

LEMMA SavesSound ==
    ASSUME RecordsIInv, NEW p \in Callers, NEW new \in JobSet, job' = [job EXCEPT ![p] = new],
           NEW r \in RecordSet, NEW l \in Labels, job[p].label = l, new.label = l, new.rec = r,
           saved' = [saved EXCEPT ![l] = r], raced \subseteq raced', raced' \subseteq Labels,
           UNCHANGED <<known, listed, version, owed, cache, computing, shared, chart, browser, nonce>>,
           spent' \in [writes: Nat, requests: Nat], spent.writes <= spent'.writes,
           \/ r.rev = spent.writes + 1 /\ spent'.writes = spent.writes + 1
           \/ r.rev = known[l].rev /\ holder = Nobody,
           new.renders \/ r.rev = known[l].rev,
           StepFits(new), new.at \in {"publish", "swap", "pop"}, job[p].at \notin {"swap", "bump"},
           new.since = job[p].since, new.sent = job[p].sent, WorksAlone',
           holder' \in Callers \union {Nobody}, holder' = p <=> new.at = "swap",
           \A q \in Callers \ {p} : holder' = q <=> holder = q
    PROVE  RecordsIInv'
<1>1. /\ job' \in [Callers -> JobSet] /\ job'[p] = new
      /\ \A q \in Callers \ {p} : job'[q] = job[q]
  BY DEF RecordsIInv, RecordsTypeOK
<1>2. ReadersStay
  BY <1>1 DEF ReadersStay, Keyed
<1>3. \A k, v : Serves(k, v) => Serves(k, v)'
  BY <1>2, QuietServes
<1>4. RevsWritten' /\ FileAhead' /\ EntersNewer'
  BY SavesNewer
<1>5. /\ known' \in [Labels -> RecordSet] /\ listed' \subseteq Labels
      /\ version' \in Nat /\ version <= version' /\ owed' \in ViewSet
  BY DEF RecordsIInv, RecordsTypeOK
<1>6. saved' \in [Labels -> RecordSet]
  BY DEF RecordsIInv, RecordsTypeOK
<1>7. \A i \in Labels : owed[i] <= owed'[i] /\ new.since[i] <= owed'[i]
  BY CallerTyped
<1>8. /\ holder' = p <=> new.at \in {"swap", "bump"}
      /\ new.at \notin ReaderStages \ {"version", "tag"}
  BY DEF ReaderStages
<1> QED
  BY <1>1, <1>3, <1>4, <1>5, <1>6, <1>7, <1>8, WriterSound

\* A call that has written a file and is about to enter the record.
Written(j, stage, r) == [j EXCEPT !.rec = r, !.at = stage]

LEMMA WrittenTyped ==
    ASSUME NEW j \in JobSet, NEW stage \in {"publish", "swap", "pop"}, NEW r \in RecordSet,
           StepFits(j), j.label # 0, j.renders \/ j.op = "update", j.op \in WriterOps,
           stage = "swap" => j.op \in {"create", "update"}, stage = "publish" => j.op = "create", stage = "pop" => j.op = "delete"
    PROVE  LET new == Written(j, stage, r) IN
           /\ new \in JobSet /\ StepFits(new) /\ new.at = stage /\ new.rec = r /\ new.op = j.op
           /\ new.label = j.label /\ new.renders = j.renders /\ new.since = j.since /\ new.sent = j.sent
<1>1. LET new == Written(j, stage, r) IN
      /\ new \in JobSet /\ new.at = stage /\ new.rec = r /\ new.op = j.op
      /\ new.label = j.label /\ new.renders = j.renders /\ new.since = j.since /\ new.sent = j.sent
  BY DEF Written, JobSet, WriterStages, RecordSet
<1> DEFINE new == Written(j, stage, r)
<1>2. PICK n : n = new /\ n.at = stage /\ n.rec = r /\ n.op = j.op /\ n.label = j.label /\ n.renders = j.renders
  BY <1>1
<1>3. StepFits(n)
  BY <1>2 DEF StepFits, WriterOps, WriterStages, ReaderStages
<1> QED
  BY <1>1, <1>2, <1>3

LEMMA RecordTyped ==
    ASSUME NEW n \in Nat, NEW s \in Statuses \union {"gone"}
    PROVE  \E r \in RecordSet : r = [rev |-> n, status |-> s] /\ r.rev = n
<1>1. [rev |-> n, status |-> s] \in RecordSet
  BY DEF RecordSet
<1> QED
  BY <1>1

LEMMA WriteNewSound ==
    ASSUME RecordsIInv, NEW p \in Callers, WriteNew(p)
    PROVE  RecordsIInv'
<1>1. /\ job[p].op = "create" /\ job[p].at = "file" /\ ReadersSame
      /\ UNCHANGED <<known, version, holder, owed, cache, computing, shared, chart, browser, nonce>>
      /\ listed \subseteq Labels
  BY DEF WriteNew, ReadersSame, readVars, RecordsIInv, RecordsTypeOK
<1>2. /\ job[p] \in JobSet /\ StepFits(job[p]) /\ job[p].label \in Labels /\ job[p].label # 0 /\ job[p].renders
  BY <1>1, CallerTyped DEF StepFits
<1>3. CASE Finishes(p) /\ listed' = listed \ {job[p].label} /\ UNCHANGED <<saved, spent>>
  <2>1. listed' \subseteq Labels /\ job[p].at \notin {"swap", "bump"}
    BY <1>1, <1>3
  <2> QED
    BY <1>1, <1>3, <2>1, EndsSound
<1>4. CASE /\ Writes /\ saved' = [saved EXCEPT ![job[p].label] = [rev |-> spent.writes + 1, status |-> "pending"]]
           /\ Becomes(p, [job[p] EXCEPT !.rec = [rev |-> spent.writes + 1, status |-> "pending"], !.at = "publish"])
           /\ UNCHANGED listed
  <2>1. /\ spent' \in [writes: Nat, requests: Nat] /\ spent'.writes = spent.writes + 1
        /\ spent.writes \in Nat /\ spent.writes <= spent'.writes
    BY <1>4, SpentTyped
  <2>2. PICK r \in RecordSet : r = [rev |-> spent.writes + 1, status |-> "pending"] /\ r.rev = spent.writes + 1
    <3>1. spent.writes + 1 \in Nat /\ "pending" \in Statuses
      BY <2>1 DEF Statuses
    <3> QED
      BY <3>1, RecordTyped
  <2>3. PICK new \in JobSet :
           /\ new = Written(job[p], "publish", r) /\ StepFits(new) /\ new.at = "publish" /\ new.rec = r
           /\ new.label = job[p].label /\ new.renders /\ new.since = job[p].since /\ new.sent = job[p].sent
    <3>1. job[p].op \in WriterOps
      BY <1>1 DEF WriterOps
    <3> QED
      BY <1>1, <1>2, <3>1, WrittenTyped
  <2>4. Becomes(p, new) /\ saved' = [saved EXCEPT ![job[p].label] = r]
    BY <1>4, <2>2, <2>3 DEF Written
  <2>5. WorksAlone' /\ raced \subseteq raced' /\ job' = [job EXCEPT ![p] = new] /\ raced' \subseteq Labels
    <3>1. raced' \subseteq Labels
      BY <2>4, RacesLabels DEF Becomes, RecordsIInv, RecordsTypeOK
    <3> QED
      BY <2>4, <3>1, BecomesAlone DEF RecordsIInv, RecordsTypeOK
  <2>6. /\ holder' \in Callers \union {Nobody} /\ (holder' = p <=> new.at = "swap")
        /\ \A q \in Callers \ {p} : holder' = q <=> holder = q
    BY <1>1, <2>3 DEF RecordsIInv, RecordsTypeOK, LockHeld
  <2>7. /\ job[p].at \notin {"swap", "bump"} /\ new.at \in {"publish", "swap", "pop"}
        /\ \/ r.rev = spent.writes + 1 /\ spent'.writes = spent.writes + 1
           \/ r.rev = known[job[p].label].rev /\ holder = Nobody
        /\ new.renders \/ r.rev = known[job[p].label].rev
    BY <1>1, <2>1, <2>2, <2>3
  <2>8. UNCHANGED listed
    BY <1>4
  <2> QED
    BY <1>1, <1>2, <2>8, <2>1, <2>2, <2>3, <2>4, <2>5, <2>6, <2>7, SavesSound
<1> QED
  BY <1>3, <1>4 DEF WriteNew

LEMMA WriteRecordSound ==
    ASSUME RecordsIInv, NEW p \in Callers, WriteRecord(p)
    PROVE  RecordsIInv'
<1> DEFINE l == job[p].label
           cur == known[l]
           rec == [rev |-> IF job[p].renders THEN spent.writes + 1 ELSE cur.rev,
                   status |-> IF job[p].rec.status = "same" THEN cur.status ELSE job[p].rec.status]
<1>1. /\ job[p].at = "write" /\ holder = Nobody /\ ReadersSame
      /\ UNCHANGED <<known, listed, version, owed, cache, computing, shared, chart, browser, nonce>>
      /\ listed \subseteq Labels
  BY DEF WriteRecord, ReadersSame, readVars, RecordsIInv, RecordsTypeOK
<1>2. /\ job[p] \in JobSet /\ StepFits(job[p]) /\ l \in Labels /\ l # 0
      /\ job[p].op \in {"create", "update"} /\ (job[p].renders \/ job[p].op = "update")
  BY <1>1, CallerTyped DEF StepFits
<1>3. CASE Finishes(p) /\ UNCHANGED <<saved, holder, spent>>
  <2>1. listed' \subseteq Labels /\ job[p].at \notin {"swap", "bump"}
    BY <1>1
  <2> QED
    BY <1>1, <1>3, <2>1, EndsSound
<1>4. CASE /\ IF job[p].renders THEN Writes ELSE UNCHANGED spent
           /\ saved' = [saved EXCEPT ![l] = rec] /\ holder' = p
           /\ job' = [job EXCEPT ![p].rec = rec, ![p].at = "swap"] /\ UNCHANGED raced
  <2>1. /\ cur \in RecordSet /\ cur.rev \in Nat /\ spent.writes \in Nat
        /\ spent \in [writes: Nat, requests: Nat]
    BY <1>2, RevsTyped, SpentTyped
  <2>2. PICK r \in RecordSet :
           /\ r = rec
           /\ r.rev = IF job[p].renders THEN spent.writes + 1 ELSE cur.rev
    <3>1. job[p].rec.status \in Statuses \union {"gone", "same"} /\ cur.status \in Statuses \union {"gone"}
      BY <2>1, CallerTyped DEF RecordSet
    <3>2. PICK n \in Nat, s \in Statuses \union {"gone"} :
             /\ n = IF job[p].renders THEN spent.writes + 1 ELSE cur.rev
             /\ s = IF job[p].rec.status = "same" THEN cur.status ELSE job[p].rec.status
      <4>1. (IF job[p].renders THEN spent.writes + 1 ELSE cur.rev) \in Nat
        BY <2>1
      <4>2. (IF job[p].rec.status = "same" THEN cur.status ELSE job[p].rec.status)
               \in Statuses \union {"gone"}
        BY <3>1
      <4> QED
        BY <4>1, <4>2
    <3>3. rec = [rev |-> n, status |-> s]
      BY <3>2
    <3> QED
      BY <3>2, <3>3, RecordTyped
  <2> HIDE DEF rec
  <2>3. PICK new \in JobSet :
           /\ new = Written(job[p], "swap", r) /\ StepFits(new) /\ new.at = "swap" /\ new.rec = r
           /\ new.op = job[p].op
           /\ new.label = l /\ new.renders = job[p].renders /\ new.since = job[p].since /\ new.sent = job[p].sent
    <3>1. job[p].op \in WriterOps
      BY <1>2 DEF WriterOps
    <3> QED
      BY <1>2, <3>1, WrittenTyped
  <2>4. job' = [job EXCEPT ![p] = new]
    <3>1. job' = [job EXCEPT ![p] = Written(job[p], "swap", r)]
      BY <1>4, <2>2 DEF Written, RecordsIInv, RecordsTypeOK, JobSet
    <3> QED
      BY <2>3, <3>1
  <2>5. WorksAlone'
    <3>1. job'[p] = new /\ \A q \in Callers \ {p} : job'[q] = job[q]
      BY <2>4 DEF RecordsIInv, RecordsTypeOK
    <3>2. (Alone(new) => Alone(job[p])) /\ \A i \in Labels : Touches(new, i) => Touches(job[p], i)
      BY <1>2, <2>3 DEF Alone, Touches
    <3> QED
      BY <1>4, <3>1, <3>2, StaysAlone DEF RecordsIInv, RecordsTypeOK
  <2>6. /\ holder' \in Callers \union {Nobody} /\ (holder' = p <=> new.at = "swap")
        /\ \A q \in Callers \ {p} : holder' = q <=> holder = q
    BY <1>1, <1>4, <2>3, OneHolder DEF RecordsIInv
  <2>7. /\ spent' \in [writes: Nat, requests: Nat] /\ spent.writes <= spent'.writes
        /\ \/ r.rev = spent.writes + 1 /\ spent'.writes = spent.writes + 1
           \/ r.rev = known[l].rev /\ holder = Nobody
        /\ new.renders \/ r.rev = known[l].rev
    <3>1. CASE job[p].renders
      <4>1. /\ spent' \in [writes: Nat, requests: Nat] /\ spent'.writes = spent.writes + 1
            /\ r.rev = spent.writes + 1 /\ new.renders
        BY <1>4, <2>2, <2>3, <3>1, SpentTyped
      <4> QED
        BY <2>1, <4>1
    <3>2. CASE ~job[p].renders
      BY <1>1, <1>4, <2>1, <2>2, <2>3, <3>2
    <3> QED
      BY <3>1, <3>2
  <2>8. raced \subseteq raced' /\ raced' \subseteq Labels /\ saved' = [saved EXCEPT ![l] = r]
        /\ job[p].at \notin {"swap", "bump"}
    BY <1>1, <1>4, <2>2 DEF RecordsIInv, RecordsTypeOK
  <2> QED
    BY <1>1, <1>2, <2>3, <2>4, <2>5, <2>6, <2>7, <2>8, SavesSound
<1> QED
  BY <1>3, <1>4 DEF WriteRecord

LEMMA DeleteFilesSound ==
    ASSUME RecordsIInv, NEW p \in Callers, DeleteFiles(p)
    PROVE  RecordsIInv'
<1> DEFINE l == job[p].label
<1>1. /\ job[p].op = "delete" /\ job[p].at = "files" /\ Writes
      /\ saved' = [saved EXCEPT ![l] = Gone(spent.writes + 1)]
      /\ job' = [job EXCEPT ![p].rec = Gone(spent.writes + 1), ![p].at = "pop"]
      /\ UNCHANGED <<known, listed, version, holder, owed, raced, cache, computing, shared, chart, browser, nonce>>
      /\ raced \subseteq Labels
  BY DEF DeleteFiles, ReadersSame, readVars, RecordsIInv, RecordsTypeOK
<1>2. /\ job[p] \in JobSet /\ StepFits(job[p]) /\ l \in Labels /\ l # 0 /\ job[p].renders
  BY <1>1, CallerTyped DEF StepFits
<1>3. /\ spent' \in [writes: Nat, requests: Nat] /\ spent'.writes = spent.writes + 1
      /\ spent.writes \in Nat /\ spent.writes <= spent'.writes
  BY <1>1, SpentTyped
<1>4. PICK r \in RecordSet : r = Gone(spent.writes + 1) /\ r.rev = spent.writes + 1
  <2>1. spent.writes + 1 \in Nat
    BY <1>3
  <2> QED
    BY <2>1, RecordTyped DEF Gone
<1>5. PICK new \in JobSet :
         /\ new = Written(job[p], "pop", r) /\ StepFits(new) /\ new.at = "pop" /\ new.rec = r
         /\ new.op = job[p].op
         /\ new.label = l /\ new.renders /\ new.since = job[p].since /\ new.sent = job[p].sent
  <2>1. job[p].op \in WriterOps
    BY <1>1 DEF WriterOps
  <2> QED
    BY <1>1, <1>2, <2>1, WrittenTyped
<1>6. job' = [job EXCEPT ![p] = new]
  <2>1. job' = [job EXCEPT ![p] = Written(job[p], "pop", r)]
    BY <1>1, <1>4 DEF Written, RecordsIInv, RecordsTypeOK, JobSet
  <2> QED
    BY <1>5, <2>1
<1>7. WorksAlone'
  <2>1. job'[p] = new /\ \A q \in Callers \ {p} : job'[q] = job[q]
    BY <1>6 DEF RecordsIInv, RecordsTypeOK
  <2>2. Alone(job[p]) /\ \A i \in Labels : Touches(new, i) => Touches(job[p], i)
    BY <1>1, <1>5 DEF Alone, Touches
  <2> QED
    BY <1>1, <2>1, <2>2, StaysAlone DEF RecordsIInv, RecordsTypeOK
<1>8. /\ holder' \in Callers \union {Nobody} /\ (holder' = p <=> new.at = "swap")
      /\ \A q \in Callers \ {p} : holder' = q <=> holder = q
  BY <1>1, <1>5 DEF RecordsIInv, RecordsTypeOK, LockHeld
<1>9. /\ saved' = [saved EXCEPT ![l] = r] /\ job[p].at \notin {"swap", "bump"}
      /\ raced \subseteq raced' /\ raced' \subseteq Labels /\ new.at \in {"publish", "swap", "pop"}
      /\ \/ r.rev = spent.writes + 1 /\ spent'.writes = spent.writes + 1
         \/ r.rev = known[l].rev /\ holder = Nobody
      /\ new.renders \/ r.rev = known[l].rev
  BY <1>1, <1>3, <1>4, <1>5
<1>10. UNCHANGED <<known, listed, version, owed, cache, computing, shared, chart, browser, nonce>>
  BY <1>1
<1> QED
  BY <1>10, <1>2, <1>3, <1>4, <1>5, <1>6, <1>7, <1>8, <1>9, SavesSound

LEMMA EditFileSound ==
    ASSUME RecordsIInv, EditFile
    PROVE  RecordsIInv'
<1>1. PICK l \in Labels : saved' = [saved EXCEPT ![l].rev = spent.writes + 1]
  BY DEF EditFile
<1>2. /\ UNCHANGED <<known, listed, version, holder, job, owed, raced, cache, computing, shared, chart, browser, nonce>>
      /\ spent' \in [writes: Nat, requests: Nat] /\ spent'.writes = spent.writes + 1 /\ spent.writes \in Nat
  BY SpentTyped DEF EditFile, ReadersSame, readVars
<1>3. /\ saved' \in [Labels -> RecordSet] /\ saved'[l].rev = spent.writes + 1
      /\ \A i \in Labels \ {l} : saved'[i] = saved[i]
  <2>1. saved \in [Labels -> RecordSet]
    BY DEF RecordsIInv, RecordsTypeOK
  <2> QED
    BY <1>1, <1>2, <2>1 DEF RecordSet
<1>4. \A i \in Labels : /\ saved'[i].rev \in Nat /\ saved[i].rev \in Nat
                        /\ saved[i].rev <= saved'[i].rev /\ saved'[i].rev <= spent'.writes
  BY <1>2, <1>3, RevsTyped
<1>5. ReadersStay
  BY <1>2 DEF ReadersStay
<1>6. \A k, v : Serves(k, v) => Serves(k, v)'
  BY <1>5, QuietServes
<1>7. RecordsTypeOK'
  BY <1>2, <1>3 DEF RecordsIInv, RecordsTypeOK
<1>8. LockHeld' /\ StepsFit' /\ AskedBefore' /\ FreshReads' /\ WorksAlone'
  BY <1>2 DEF RecordsIInv, LockHeld, StepsFit, AskedBefore, FreshReads, WorksAlone
<1>9. RevsWritten'
  <2>1. \A i \in Labels : known'[i].rev <= spent'.writes
    BY <1>2, RevsTyped
  <2>2. \A q \in Callers : job'[q].rec.rev <= spent'.writes
    BY <1>2, CallerTyped
  <2> QED
    BY <1>4, <2>1, <2>2 DEF RevsWritten
<1>10. FileAhead'
  BY <1>2, <1>4, RevsTyped DEF FileAhead
<1>11. EntersNewer'
  <2>1. ASSUME NEW q \in Callers, job[q].at \in {"publish", "swap", "pop"}, NEW i \in Labels \ raced,
               job[q].label = i
        PROVE  job[q].rec.rev <= saved'[i].rev
    <3>1. job[q].rec.rev <= saved[i].rev /\ job[q].rec.rev \in Nat
      BY <2>1, CallerTyped DEF RecordsIInv, EntersNewer
    <3> QED
      BY <1>4, <3>1
  <2> QED
    BY <1>2, <2>1 DEF RecordsIInv, EntersNewer
<1>12. KeysRead'
  BY <1>2 DEF RecordsIInv, KeysRead, PastKey
<1>13. ViewsServe'
  BY <1>2, <1>6 DEF RecordsIInv, ViewsServe
<1>14. TagsRead'
  BY <1>2 DEF RecordsIInv, TagsRead
<1> QED
  BY <1>7, <1>8, <1>9, <1>10, <1>11, <1>12, <1>13, <1>14 DEF RecordsIInv

-----------------------------------------------------------------------------
(* Steps that enter records into the memory.                                  *)

LEMMA EntersSound ==
    ASSUME RecordsIInv, NEW p \in Callers, NEW new \in JobSet, job' = [job EXCEPT ![p] = new],
           new.at = "bump", StepFits(new), job[p].at \notin {"bump"} \union ReaderStages,
           holder \in {p, Nobody}, holder' = p,
           new.op = job[p].op, new.label = job[p].label, new.rec = job[p].rec,
           new.since = job[p].since, new.sent = job[p].sent,
           known' \in [Labels -> RecordSet], listed' \subseteq Labels,
           UNCHANGED <<saved, version, owed, raced, spent, cache, computing, shared, chart, browser, nonce>>,
           \A i \in Labels : known'[i].rev <= spent.writes,
           \A i \in Labels \ raced :
              /\ owed[i] <= known'[i].rev /\ known'[i].rev <= saved[i].rev
              /\ known'[i].rev = known[i].rev \/ (new.renders /\ Touches(new, i))
    PROVE  RecordsIInv'
<1>1. /\ job' \in [Callers -> JobSet] /\ job'[p] = new
      /\ \A q \in Callers \ {p} : job'[q] = job[q]
  BY DEF RecordsIInv, RecordsTypeOK
<1>2. Entering(p)
  BY <1>1 DEF Entering
<1>3. \A k, v : Serves(k, v) => Serves(k, v)'
  BY <1>2, EnteringServes
<1>4. RevsWritten'
  BY <1>1 DEF RecordsIInv, RevsWritten
<1>5. FileAhead'
  BY DEF FileAhead
<1>6. EntersNewer'
  <2>1. ASSUME NEW q \in Callers, job'[q].at \in {"publish", "swap", "pop"}
        PROVE  job'[q] = job[q] /\ job[q].at \in {"publish", "pop"} /\ job[q].renders
    <3>1. q # p /\ job'[q] = job[q]
      BY <1>1, <2>1
    <3>2. job[q].at \in {"publish", "pop"}
      BY <2>1, <3>1, OneHolder DEF RecordsIInv
    <3>3. job[q].renders
      BY <3>2 DEF RecordsIInv, StepsFit, StepFits
    <3> QED
      BY <3>1, <3>2, <3>3
  <2> QED
    BY <2>1 DEF RecordsIInv, EntersNewer
<1>7. WorksAlone'
  <2>1. Alone(new) => Alone(job[p])
    BY DEF Alone
  <2>2. \A i \in Labels : Touches(new, i) => Touches(job[p], i)
    BY DEF Touches
  <2> QED
    BY <1>1, <2>1, <2>2, StaysAlone DEF RecordsIInv, RecordsTypeOK
<1>8. /\ saved' \in [Labels -> RecordSet] /\ version' \in Nat /\ version <= version'
      /\ owed' \in ViewSet /\ raced' \subseteq Labels /\ raced \subseteq raced'
      /\ spent' \in [writes: Nat, requests: Nat]
  BY DEF RecordsIInv, RecordsTypeOK
<1>9. \A i \in Labels : owed[i] <= owed'[i] /\ new.since[i] <= owed'[i]
  BY CallerTyped
<1>10. /\ holder' = p <=> new.at \in {"swap", "bump"}
       /\ holder' \in Callers \union {Nobody}
       /\ \A q \in Callers \ {p} : holder' = q <=> holder = q
       /\ new.at \notin ReaderStages \ {"version", "tag"}
  BY OneHolder DEF RecordsIInv, ReaderStages
<1> QED
  BY <1>1, <1>3, <1>4, <1>5, <1>6, <1>7, <1>8, <1>9, <1>10, WriterSound

\* A call that goes on to the bump.
LEMMA BumpTyped ==
    ASSUME RecordsIInv, NEW p \in Callers, job[p].op \in WriterOps, At(p, "bump"), job[p].label # 0 \/ job[p].at = "scan",
           job[p].at # "none"
    PROVE  \E new \in JobSet :
              /\ job' = [job EXCEPT ![p] = new] /\ StepFits(new) /\ new.at = "bump" /\ new.op = job[p].op
              /\ new.label = job[p].label /\ new.rec = job[p].rec /\ new.renders = job[p].renders
              /\ new.since = job[p].since /\ new.sent = job[p].sent
<1> DEFINE n == [job[p] EXCEPT !.at = "bump"]
<1>1. /\ n \in JobSet /\ n.at = "bump" /\ n.op = job[p].op
      /\ n.label = job[p].label /\ n.rec = job[p].rec /\ n.renders = job[p].renders
      /\ n.since = job[p].since /\ n.sent = job[p].sent
  BY CallerTyped DEF JobSet, WriterStages
<1>2. job' = [job EXCEPT ![p] = n]
  BY DEF At, RecordsIInv, RecordsTypeOK
<1>3. /\ job[p].renders \/ job[p].op = "update"
      /\ job[p].op \in WriterOps \ {"reload all"} => job[p].label # 0
  BY CallerTyped DEF StepFits
<1> HIDE DEF n
<1>4. StepFits(n)
  BY <1>1, <1>3 DEF StepFits, WriterOps, WriterStages, ReaderStages
<1> QED
  BY <1>1, <1>2, <1>4

\* The record of the call is the one that is entered.
LEMMA EntersOwnSound ==
    ASSUME RecordsIInv, NEW p \in Callers, job[p].at \in {"publish", "swap", "pop"}, job[p].op \in WriterOps,
           holder \in {p, Nobody}, holder' = p, At(p, "bump"),
           known' = [known EXCEPT ![job[p].label] = job[p].rec], listed' \subseteq Labels,
           UNCHANGED <<saved, version, owed, raced, spent, cache, computing, shared, chart, browser, nonce>>
    PROVE  RecordsIInv'
<1>1. job[p].label # 0 /\ job[p].label \in Labels /\ job[p].rec \in RecordSet /\ job[p].rec.rev <= spent.writes
  BY CallerTyped DEF RecordsIInv, EntersNewer, StepFits
<1>2. PICK new \in JobSet :
         /\ job' = [job EXCEPT ![p] = new] /\ StepFits(new) /\ new.at = "bump" /\ new.op = job[p].op
         /\ new.label = job[p].label /\ new.rec = job[p].rec /\ new.renders = job[p].renders
         /\ new.since = job[p].since /\ new.sent = job[p].sent
  BY <1>1, BumpTyped
<1>3. /\ known' \in [Labels -> RecordSet] /\ known'[job[p].label] = job[p].rec
      /\ \A i \in Labels : i # job[p].label => known'[i] = known[i]
  BY <1>1 DEF RecordsIInv, RecordsTypeOK
<1>4. \A i \in Labels : known'[i].rev <= spent.writes
  BY <1>1, <1>3, RevsTyped
<1>5. ASSUME NEW i \in Labels \ raced
      PROVE  /\ owed[i] <= known'[i].rev /\ known'[i].rev <= saved[i].rev
             /\ known'[i].rev = known[i].rev \/ (new.renders /\ Touches(new, i))
  <2>1. CASE i = job[p].label
    BY <1>2, <1>3, <2>1 DEF RecordsIInv, EntersNewer, Touches
  <2>2. CASE i # job[p].label
    BY <1>3, <2>2, RevsTyped
  <2> QED
    BY <2>1, <2>2
<1>6. job[p].at \notin {"bump"} \union ReaderStages
  BY DEF ReaderStages
<1> QED
  BY <1>2, <1>3, <1>4, <1>5, <1>6, EntersSound

LEMMA EnterCallsSound ==
    ASSUME RecordsIInv, NEW p \in Callers, PublishNew(p) \/ SwapRecord(p) \/ PopRecord(p)
    PROVE  RecordsIInv'
<1>1. /\ RecordsTypeOK /\ LockHeld /\ job[p] \in JobSet /\ StepFits(job[p])
      /\ holder = Nobody \/ (holder = p /\ job[p].at = "swap")
      /\ At(p, "bump") /\ job[p].at \in {"publish", "swap", "pop"}
      /\ known' = [known EXCEPT ![job[p].label] = job[p].rec]
      /\ UNCHANGED <<saved, version, owed, spent, cache, computing, shared, chart, browser, nonce>>
  BY CallerTyped DEF PublishNew, SwapRecord, PopRecord, RecordsIInv, LockHeld, ReadersSame, readVars
<1>2. job[p].label \in Labels /\ job[p].op \in WriterOps
  BY <1>1, CallerTyped DEF StepFits, WriterStages
<1>3. listed' \subseteq Labels /\ holder' = p /\ raced' = raced
  BY <1>1, <1>2 DEF PublishNew, SwapRecord, PopRecord, RecordsTypeOK, LockHeld, At
<1> QED
  BY <1>1, <1>2, <1>3, EntersOwnSound

LEMMA ScanSound ==
    ASSUME RecordsIInv, NEW p \in Callers, Scan(p)
    PROVE  RecordsIInv'
<1>1. /\ job[p].at = "scan" /\ holder = Nobody /\ ReadersSame /\ job[p].op \in {"reload", "reload all"}
      /\ UNCHANGED <<saved, version, owed, spent, cache, computing, shared, chart, browser, nonce>>
      /\ listed \subseteq Labels /\ known \in [Labels -> RecordSet] /\ saved \in [Labels -> RecordSet]
      /\ job[p].renders
  BY CallerTyped DEF Scan, RecordsIInv, RecordsTypeOK, ReadersSame, readVars, StepFits
<1>2. CASE Finishes(p) /\ UNCHANGED <<known, listed, holder>>
  <2>1. listed' \subseteq Labels /\ job[p].at \notin {"swap", "bump"}
    BY <1>1, <1>2
  <2> QED
    BY <1>1, <1>2, <2>1, EndsSound
<1>3. ASSUME At(p, "bump"), holder' = p, listed' \subseteq Labels, known' \in [Labels -> RecordSet],
             \A i \in Labels : known'[i].rev \in {known[i].rev, saved[i].rev},
             \A i \in Labels : known'[i].rev = known[i].rev \/ Touches(job[p], i)
      PROVE  RecordsIInv'
  <2>1. PICK new \in JobSet :
           /\ job' = [job EXCEPT ![p] = new] /\ StepFits(new) /\ new.at = "bump" /\ new.op = job[p].op
           /\ new.label = job[p].label /\ new.rec = job[p].rec /\ new.renders = job[p].renders
           /\ new.since = job[p].since /\ new.sent = job[p].sent
    <3>1. job[p].op \in WriterOps /\ job[p].at # "none"
      BY <1>1 DEF WriterOps
    <3> QED
      BY <1>1, <1>3, <3>1, BumpTyped
  <2>2. \A i \in Labels : known'[i].rev <= spent.writes
    BY <1>3, RevsTyped
  <2>3. ASSUME NEW i \in Labels \ raced
        PROVE  /\ owed[i] <= known'[i].rev /\ known'[i].rev <= saved[i].rev
               /\ known'[i].rev = known[i].rev \/ (new.renders /\ Touches(new, i))
    <3>1. owed[i] <= known'[i].rev /\ known'[i].rev <= saved[i].rev
      BY <1>3, RevsTyped
    <3>2. Touches(job[p], i) => Touches(new, i)
      BY <2>1 DEF Touches
    <3> QED
      BY <1>1, <1>3, <2>1, <3>1, <3>2
  <2>4. job[p].at \notin {"bump"} \union ReaderStages /\ raced' = raced
    BY <1>1, <1>3 DEF ReaderStages, At
  <2> QED
    BY <1>1, <1>3, <2>1, <2>2, <2>3, <2>4, EntersSound
<1>4. CASE /\ job[p].op = "reload" /\ known' = [known EXCEPT ![job[p].label] = saved[job[p].label]]
           /\ listed' = listed \union {job[p].label} /\ holder' = p /\ At(p, "bump")
           /\ Here(saved[job[p].label])
  <2> DEFINE l == job[p].label
  <2>1. l \in Labels
    BY <1>1, <1>4, CallerTyped DEF StepFits, WriterOps
  <2>2. /\ known' \in [Labels -> RecordSet] /\ known'[l] = saved[l]
        /\ \A i \in Labels \ {l} : known'[i] = known[i]
    BY <1>1, <1>4, <2>1
  <2>3. Touches(job[p], l) /\ listed' \subseteq Labels
    BY <1>1, <1>4, <2>1 DEF Touches
  <2> QED
    BY <1>3, <1>4, <2>2, <2>3
<1>5. CASE /\ job[p].op = "reload all" /\ known' = Scanned /\ listed' = {l \in Labels : Here(Scanned[l])}
           /\ holder' = p /\ At(p, "bump")
  <2>1. known' \in [Labels -> RecordSet] /\ \A i \in Labels : known'[i] \in {known[i], saved[i]}
    BY <1>1, <1>5 DEF Scanned
  <2>2. listed' \subseteq Labels /\ \A i : Touches(job[p], i)
    BY <1>5 DEF Touches
  <2> QED
    BY <1>3, <1>5, <2>1, <2>2
<1> QED
  BY <1>2, <1>4, <1>5 DEF Scan

-----------------------------------------------------------------------------
(* The bump, and restarts.                                                    *)

LEMMA BumpsSound ==
    ASSUME RecordsIInv, NEW p \in Callers, NEW new \in JobSet, job' = [job EXCEPT ![p] = new],
           job[p].at = "bump", StepFits(new),
           new.at \in {"none", "reserve", "script"}, \A i \in Labels : Touches(new, i) => Touches(job[p], i),
           new.rec.rev <= spent.writes, new.since \in {job[p].since, Nothing}, new.sent \in {job[p].sent, NoChart},
           version' = IF job[p].renders THEN version + 1 ELSE version,
           Tells(p) \/ (job[p].renders /\ owed' = owed), holder' = Nobody,
           UNCHANGED <<known, listed, saved, spent, raced, cache, computing, shared, chart, browser, nonce>>
    PROVE  RecordsIInv'
<1>1. /\ job' \in [Callers -> JobSet] /\ job'[p] = new
      /\ \A q \in Callers \ {p} : job'[q] = job[q]
      /\ holder = p /\ RecordsTypeOK /\ FileAhead /\ LockHeld
  BY DEF RecordsIInv, RecordsTypeOK, LockHeld
<1>2. /\ owed' \in ViewSet
      /\ \A l \in Labels : owed[l] <= owed'[l] /\ owed[l] \in Nat /\ owed'[l] \in Nat
      /\ \A l \in Labels \ raced : owed'[l] <= known[l].rev
      /\ \A l \in Labels : ~Touches(job[p], l) => owed'[l] = owed[l]
  <2>1. \A l \in Labels : owed[l] \in Nat
    BY <1>1 DEF RecordsTypeOK, ViewSet
  <2>2. CASE Tells(p)
    <3>1. owed' \in ViewSet
      BY <1>1, <2>2, TellsTyped
    <3>2. \A l \in Labels : owed'[l] \in Nat
      BY <3>1 DEF ViewSet
    <3> QED
      BY <1>1, <2>1, <2>2, <3>1, <3>2, TellsTyped
  <2>3. CASE owed' = owed
    BY <1>1, <2>1, <2>3 DEF RecordsTypeOK, FileAhead
  <2> QED
    BY <2>2, <2>3
<1>3. ~Keyed(new) /\ ~Alone(new) /\ new.at \notin {"publish", "swap", "pop", "bump"}
  <2>1. new.op # "delete" /\ new.at \notin {"file", "publish"}
    BY NoJobTyped DEF StepFits
  <2> QED
    BY <2>1 DEF Keyed, Alone
<1>4. \A k \in Seq(Nat) : \A v : Serves(k, v) => Serves(k, v)'
  <2>1. \A t \in Callers : Keyed(job'[t]) => job'[t] = job[t]
    BY <1>1, <1>3
  <2>2. CASE job[p].renders
    BY <1>1, <2>1, <2>2, BumpedServes
  <2>3. CASE ~job[p].renders
    BY <1>1, <2>1, <2>3, ToldServes
  <2> QED
    BY <2>2, <2>3
<1>5. RevsWritten'
  BY <1>1 DEF RecordsIInv, RevsWritten
<1>6. FileAhead'
  BY <1>1, <1>2 DEF FileAhead
<1>7. EntersNewer'
  <2>1. ASSUME NEW q \in Callers, job'[q].at \in {"publish", "swap", "pop"}
        PROVE  /\ q # p /\ job'[q] = job[q] /\ job[q].at \in {"publish", "pop"}
               /\ \A l \in Labels \ raced : job[q].label = l => owed'[l] = owed[l]
    <3>1. q # p /\ job'[q] = job[q]
      BY <1>1, <1>3, <2>1
    <3>2. job[q].at \in {"publish", "pop"}
      BY <1>1, <2>1, <3>1, OneHolder
    <3>3. Alone(job[q])
      BY <3>2 DEF RecordsIInv, StepsFit, StepFits, Alone
    <3>4. \A l \in Labels \ raced : job[q].label = l => ~Touches(job[p], l)
      BY <3>1, <3>3 DEF RecordsIInv, WorksAlone, Touches
    <3> QED
      BY <1>2, <3>1, <3>2, <3>4
  <2> QED
    BY <2>1 DEF RecordsIInv, EntersNewer
<1>8. WorksAlone'
  BY <1>1, <1>3, StaysAlone DEF RecordsIInv, RecordsTypeOK
<1>9. /\ known' \in [Labels -> RecordSet] /\ saved' \in [Labels -> RecordSet] /\ listed' \subseteq Labels
      /\ version' \in Nat /\ version <= version' /\ raced' \subseteq Labels
      /\ spent' \in [writes: Nat, requests: Nat]
  BY <1>1 DEF RecordsTypeOK
<1>10. \A l \in Labels : owed[l] <= owed'[l] /\ new.since[l] <= owed'[l]
  <2>1. ASSUME NEW l \in Labels
        PROVE  new.since[l] <= owed'[l]
    <3>1. job[p].since[l] <= owed[l] /\ job[p].since[l] \in Nat
      BY CallerTyped DEF JobSet, ViewSet
    <3>2. Nothing[l] = 0
      BY NothingTyped
    <3> QED
      BY <1>2, <3>1, <3>2
  <2> QED
    BY <1>2, <2>1
<1>11. /\ holder' = p <=> new.at \in {"swap", "bump"}
       /\ holder' \in Callers \union {Nobody}
       /\ \A q \in Callers \ {p} : holder' = q <=> holder = q
       /\ new.at \notin ReaderStages \ {"version", "tag"}
  BY <1>1, OneHolder DEF ReaderStages
<1> QED
  BY <1>1, <1>2, <1>4, <1>5, <1>6, <1>7, <1>8, <1>9, <1>10, <1>11, WriterSound

LEMMA BumpSound ==
    ASSUME RecordsIInv, NEW p \in Callers, Bump(p)
    PROVE  RecordsIInv'
<1>1. /\ job[p].at = "bump" /\ job[p] \in JobSet /\ StepFits(job[p]) /\ holder' = Nobody
      /\ version' = IF job[p].renders THEN version + 1 ELSE version
      /\ UNCHANGED <<known, listed, saved, spent, cache, computing, shared, chart, browser, nonce>>
      /\ raced' = raced /\ job[p].rec.rev <= spent.writes /\ spent.writes \in Nat
  BY CallerTyped, SpentTyped DEF Bump, At, Finishes, ReadersSame, readVars
<1>2. CASE job[p].op = "create" /\ At(p, "script") /\ UNCHANGED owed
  <2> PICK j \in JobSet : j = job[p]
    BY <1>1
  <2>1. PICK new \in JobSet :
           /\ new = [j EXCEPT !.at = "script"] /\ new.at = "script" /\ new.op = j.op
           /\ new.label = j.label /\ new.rec = j.rec /\ new.renders = j.renders
           /\ new.since = j.since /\ new.sent = j.sent
    <3>1. LET d == [j EXCEPT !.at = "script"] IN
          /\ d \in JobSet /\ d.at = "script" /\ d.op = j.op
          /\ d.label = j.label /\ d.rec = j.rec /\ d.renders = j.renders
          /\ d.since = j.since /\ d.sent = j.sent
      BY DEF JobSet, WriterStages
    <3> QED
      BY <3>1
  <2>2. job[p].renders /\ job[p].label # 0
    BY <1>1, <1>2 DEF StepFits, WriterOps
  <2>3. StepFits(new)
    BY <1>2, <2>1, <2>2 DEF StepFits, WriterOps, WriterStages, ReaderStages
  <2>4. job' = [job EXCEPT ![p] = new]
    BY <1>2, <2>1 DEF At, RecordsIInv, RecordsTypeOK
  <2>5. \A i \in Labels : Touches(new, i) => Touches(job[p], i)
    BY <2>1 DEF Touches
  <2> QED
    BY <1>1, <1>2, <2>1, <2>2, <2>3, <2>4, <2>5, BumpsSound
<1>3. CASE /\ job' = [job EXCEPT ![p] = [Call("create", "reserve", 0) EXCEPT !.left = job[p].left - 1]]
           /\ Tells(p) /\ job[p].left > 1
  <2>1. job[p].left - 1 \in Nat
    BY <1>1, <1>3 DEF JobSet
  <2>2. PICK n \in Nat : n = job[p].left - 1
    BY <2>1
  <2>3. PICK new \in JobSet :
           /\ new = [Call("create", "reserve", 0) EXCEPT !.left = n]
           /\ new.op = "create" /\ new.at = "reserve" /\ new.label = 0 /\ new.renders = TRUE
           /\ new.rec.rev = 0 /\ new.since = Nothing /\ new.sent = NoChart
    BY CreateTyped
  <2>4. StepFits(new) /\ \A i \in Labels : ~Touches(new, i)
    BY <2>3, TouchesNone DEF StepFits, WriterOps, WriterStages, ReaderStages
  <2>5. job' = [job EXCEPT ![p] = new]
    BY <1>3, <2>2, <2>3
  <2>6. Tells(p) /\ new.rec.rev <= spent.writes /\ new.at \in {"none", "reserve", "script"}
    BY <1>1, <1>3, <2>3
  <2> QED
    BY <1>1, <2>3, <2>4, <2>5, <2>6, BumpsSound
<1>4. CASE Finishes(p) /\ Tells(p)
  <2>1. /\ StepFits(NoJob) /\ NoJob.at = "none" /\ NoJob.since = Nothing /\ NoJob.sent = NoChart
        /\ \A i \in Labels : ~Touches(NoJob, i)
    BY NoJobTyped, TouchesNone DEF StepFits, WriterStages, ReaderStages, WriterOps
  <2>2. job' = [job EXCEPT ![p] = NoJob] /\ NoJob \in JobSet /\ NoJob.rec.rev <= spent.writes
    BY <1>1, <1>4, NoJobTyped DEF Finishes
  <2> QED
    BY <1>1, <1>4, <2>1, <2>2, BumpsSound
<1>5. \/ job[p].op = "create" /\ At(p, "script") /\ UNCHANGED owed
      \/ /\ job' = [job EXCEPT ![p] = [Call("create", "reserve", 0) EXCEPT !.left = job[p].left - 1]]
         /\ Tells(p) /\ job[p].left > 1
      \/ Finishes(p) /\ Tells(p)
  BY Zenon DEF Bump
<1> QED
  BY <1>2, <1>3, <1>4, <1>5

\* Of the server only the files, and of the readers only the browser, survive.
LEMMA RebootSound ==
    ASSUME RecordsIInv, Reboot
    PROVE  RecordsIInv'
<1>1. /\ nonce' = nonce + 1 /\ known' = saved /\ listed' = {l \in Labels : Here(saved[l])}
      /\ version' = 0 /\ holder' = Nobody /\ job' = [p \in Callers |-> NoJob]
      /\ cache' = << >> /\ computing' = {} /\ shared' = {} /\ chart' = NoChart
      /\ UNCHANGED <<saved, browser, owed, raced, spent>>
  BY DEF Reboot
<1>2. /\ \A p \in Callers : job'[p] = NoJob /\ job'[p].at = "none"
      /\ job' \in [Callers -> JobSet]
  BY <1>1, NoJobTyped
<1>3. RecordsTypeOK'
  <2>1. cache' \in Seq([key: Seq(Nat), view: ViewSet]) /\ Len(cache') <= CacheMax
    <3>1. << >> \in Seq([key: Seq(Nat), view: ViewSet]) /\ Len(<< >>) = 0
      OBVIOUS
    <3> QED
      BY <1>1, <3>1, Sizes
  <2> QED
    BY <1>1, <1>2, <2>1, NothingTyped DEF RecordsIInv, RecordsTypeOK
<1>4. LockHeld' /\ StepsFit' /\ EntersNewer' /\ KeysRead' /\ FreshReads'
  <2>1. StepFits(NoJob)
    BY NoJobTyped DEF StepFits, WriterStages, ReaderStages, WriterOps
  <2>2. Nobody \notin Callers
    BY OneHolder DEF RecordsIInv
  <2> QED
    BY <1>1, <1>2, <2>1, <2>2 DEF LockHeld, StepsFit, EntersNewer, KeysRead, FreshReads, Keyed
<1>5. WorksAlone'
  <2>1. ~Alone(NoJob)
    BY NoJobTyped DEF Alone
  <2> QED
    BY <1>2, <2>1 DEF WorksAlone
<1>6. RevsWritten'
  <2>1. \A l \in Labels : known'[l].rev <= spent'.writes /\ saved'[l].rev <= spent'.writes
    BY <1>1, RevsTyped
  <2>2. \A p \in Callers : job'[p].rec.rev <= spent'.writes
    BY <1>1, <1>2, NoJobTyped, SpentTyped
  <2> QED
    BY <2>1, <2>2 DEF RevsWritten
<1>7. FileAhead'
  BY <1>1, RevsTyped DEF FileAhead
<1>8. AskedBefore'
  <2>1. \A l \in Labels : owed[l] \in Nat
    BY RevsTyped
  <2> QED
    BY <1>1, <1>2, <2>1, NoJobTyped, NothingTyped DEF AskedBefore
<1>9. TagsRead'
  BY <1>1, <1>2, NoJobTyped, NoChartTag DEF RecordsIInv, TagsRead
<1>10. ViewsServe'
  <2>1. \A k \in Seq(Nat) : \A v : PastKey(k) /\ Len(k) # 1 => Serves(k, v)'
    <3>1. ASSUME NEW k \in Seq(Nat), PastKey(k), Len(k) # 1
          PROVE  PastKey(k)' /\ k \notin KeysNow'
      <4>1. nonce \in Nat /\ nonce' = nonce + 1 /\ version' = 0
        BY <1>1 DEF RecordsIInv, RecordsTypeOK
      <4>2. Len(k) = 2 => k[1] \in Nat /\ k[1] <= nonce
        <5>1. Len(k) = 2 => 1 \in DOMAIN k
          OBVIOUS
        <5>2. Len(k) = 2 => k[1] \in Nat
          BY <5>1, ElementsTyped
        <5>3. k = << >> => Len(k) = 0
          OBVIOUS
        <5> QED
          BY <3>1, <4>1, <5>2, <5>3 DEF PastKey
      <4>3. PastKey(k)'
        BY <3>1, <4>1, <4>2 DEF PastKey
      <4>4. k = <<version'>> => Len(k) = 1
        OBVIOUS
      <4>5. k = <<nonce', version'>> => Len(k) = 2 /\ k[1] = nonce'
        OBVIOUS
      <4>6. k \notin KeysNow'
        BY <3>1, <4>1, <4>2, <4>4, <4>5 DEF KeysNow, Tag
      <4> QED
        BY <4>3, <4>6
    <3>2. \A t \in Callers : ~Keyed(job'[t])
      BY <1>2 DEF Keyed
    <3> QED
      BY <3>1, <3>2 DEF Serves
  <2>2. PastKey(browser.tag) /\ Len(browser.tag) # 1 /\ browser.tag \in Seq(Nat)
    BY DEF RecordsIInv, ViewsServe, Serves, TagsRead, RecordsTypeOK, ChartSet
  <2>3. PastKey(NoChart.tag) /\ Len(NoChart.tag) # 1 /\ NoChart.tag \in Seq(Nat)
    BY NoChartTag, NothingTyped DEF PastKey, NoChart
  <2>4. /\ browser'.tag = browser.tag /\ chart'.tag = NoChart.tag
        /\ \A t \in Callers : job'[t].sent.tag = NoChart.tag /\ job'[t].at \notin {"store", "keep"}
    BY <1>1, <1>2, NoJobTyped
  <2>5. DOMAIN cache' = {} /\ shared' = {}
    BY <1>1
  <2> QED
    BY <2>1, <2>2, <2>3, <2>4, <2>5 DEF ViewsServe
<1> QED
  BY <1>3, <1>4, <1>5, <1>6, <1>7, <1>8, <1>9, <1>10 DEF RecordsIInv

-----------------------------------------------------------------------------
(* Theorems.                                                                  *)

LEMMA InitSound ==
    ASSUME RecordsInit
    PROVE  RecordsIInv
<1>1. /\ job = [p \in Callers |-> NoJob] /\ holder = Nobody /\ known \in [Labels -> RecordSet]
      /\ \A l \in Labels : known[l].rev = 0
      /\ saved = known /\ listed \subseteq Labels /\ version = 0
      /\ cache = << >> /\ computing = {} /\ shared = {}
      /\ chart = NoChart /\ browser = NoChart /\ nonce = 0 /\ owed = Nothing /\ raced = {}
      /\ spent \in [writes: Nat, requests: Nat] /\ spent.writes = 0
  <2>1. \A l \in Labels : [rev |-> 0, status |-> IF l = 1 THEN "done" ELSE "gone"] \in RecordSet
    BY DEF RecordSet, Statuses
  <2> QED
    BY <2>1 DEF RecordsInit
<1>2. /\ \A p \in Callers : job[p] = NoJob /\ job[p].at = "none"
      /\ job \in [Callers -> JobSet]
  BY <1>1, NoJobTyped
<1>3. RecordsTypeOK
  <2>1. cache \in Seq([key: Seq(Nat), view: ViewSet]) /\ Len(cache) <= CacheMax
    <3>1. << >> \in Seq([key: Seq(Nat), view: ViewSet]) /\ Len(<< >>) = 0
      OBVIOUS
    <3> QED
      BY <1>1, <3>1, Sizes
  <2> QED
    BY <1>1, <1>2, <2>1, NothingTyped DEF RecordsTypeOK
<1>4. LockHeld /\ StepsFit /\ EntersNewer /\ KeysRead /\ FreshReads
  <2>1. StepFits(NoJob)
    BY NoJobTyped DEF StepFits, WriterStages, ReaderStages, WriterOps
  <2>2. Nobody \notin Callers
    BY RecordsAssumption DEF Nobody, Callers
  <2> QED
    BY <1>1, <1>2, <2>1, <2>2 DEF LockHeld, StepsFit, EntersNewer, KeysRead, FreshReads, Keyed
<1>5. WorksAlone
  <2>1. ~Alone(NoJob)
    BY NoJobTyped DEF Alone
  <2> QED
    BY <1>2, <2>1 DEF WorksAlone
<1>6. RevsWritten /\ FileAhead /\ AskedBefore
  BY <1>1, <1>2, NoJobTyped, NothingTyped DEF RevsWritten, FileAhead, AskedBefore
<1>7. TagsRead
  BY <1>1, <1>2, NoJobTyped, NoChartTag DEF TagsRead
<1>8. ViewsServe
  <2>1. Serves(NoChart.tag, NoChart.view)
    BY <1>3, <1>4, NoChartServes
  <2>2. DOMAIN cache = {} /\ shared = {}
    BY <1>1
  <2> QED
    BY <1>1, <1>2, <2>1, <2>2, NoJobTyped DEF ViewsServe
<1> QED
  BY <1>3, <1>4, <1>5, <1>6, <1>7, <1>8 DEF RecordsIInv

LEMMA CallerSound ==
    ASSUME RecordsIInv, NEW p \in Callers,
           \/ Reserve(p) \/ WriteNew(p) \/ PublishNew(p) \/ WriteScript(p)
           \/ WriteRecord(p) \/ SwapRecord(p) \/ DeleteFiles(p) \/ PopRecord(p) \/ Scan(p) \/ Bump(p)
           \/ ReadVersion(p) \/ Decides(p) \/ Computes(p) \/ Stores(p) \/ Wakes(p)
           \/ ReadTag(p) \/ Matches(p) \/ KeepsChart(p) \/ Heard(p)
    PROVE  RecordsIInv'
BY ReserveSound, WriteNewSound, EnterCallsSound, WriteScriptSound, WriteRecordSound, DeleteFilesSound,
   ScanSound, BumpSound, ReadVersionSound, DecidesSound, ComputesSound, StoresSound, WakesSound,
   ReadTagSound, MatchesSound, KeepsChartSound, HeardSound

LEMMA NextSound ==
    ASSUME RecordsIInv, [RecordsNext]_recordVars
    PROVE  RecordsIInv'
<1>1. CASE UNCHANGED recordVars
  <2>1. UNCHANGED <<known, listed, saved, version, holder, job, cache, computing, shared, chart,
                    browser, nonce, owed, raced, spent>>
    BY <1>1 DEF recordVars, storeVars, readVars
  <2>2. ReadersStay
    BY <2>1 DEF ReadersStay
  <2>3. \A k, v : Serves(k, v) => Serves(k, v)'
    BY <2>2, QuietServes
  <2>4. RecordsTypeOK' /\ LockHeld' /\ StepsFit' /\ WorksAlone' /\ RevsWritten' /\ FileAhead'
    BY <2>1 DEF RecordsIInv, RecordsTypeOK, LockHeld, StepsFit, WorksAlone, RevsWritten, FileAhead
  <2>5. EntersNewer' /\ AskedBefore' /\ KeysRead' /\ TagsRead' /\ FreshReads'
    BY <2>1 DEF RecordsIInv, EntersNewer, AskedBefore, KeysRead, PastKey, TagsRead, FreshReads
  <2>6. ViewsServe'
    BY <2>1, <2>3 DEF RecordsIInv, ViewsServe
  <2> QED
    BY <2>4, <2>5, <2>6 DEF RecordsIInv
<1>2. CASE CreateOne \/ CreateBatch \/ Rerun \/ Clone
  BY <1>2, CreateCallsSound
<1>3. CASE UpdateStatus \/ UpdateTags \/ SetPriority
  BY <1>3, UpdateCallsSound
<1>4. CASE Delete \/ Reload \/ ReloadAll
  BY <1>4, DeleteReloadSound
<1>5. CASE ListIdeas \/ GetChart
  BY <1>5, ReaderAsksSound
<1>6. CASE EditFile
  BY <1>6, EditFileSound
<1>7. CASE Forgets
  BY <1>7, ForgetsSound
<1>8. CASE Reboot
  BY <1>8, RebootSound
<1>9. CASE \E p \in Callers :
         \/ Reserve(p) \/ WriteNew(p) \/ PublishNew(p) \/ WriteScript(p)
         \/ WriteRecord(p) \/ SwapRecord(p) \/ DeleteFiles(p) \/ PopRecord(p) \/ Scan(p) \/ Bump(p)
         \/ ReadVersion(p) \/ Decides(p) \/ Computes(p) \/ Stores(p) \/ Wakes(p)
         \/ ReadTag(p) \/ Matches(p) \/ KeepsChart(p) \/ Heard(p)
  BY <1>9, CallerSound
<1> QED
  BY <1>1, <1>2, <1>3, <1>4, <1>5, <1>6, <1>7, <1>8, <1>9 DEF RecordsNext

\* The store's lock, the order of file, memory and version, and the keys of what
\* is kept of answers fit together for any number of records, readers and restarts.
THEOREM RecordsCorrect == RecordsSpec => []RecordsIInv
<1>1. RecordsInit => RecordsIInv
  BY InitSound
<1>2. RecordsIInv /\ [RecordsNext]_recordVars => RecordsIInv'
  BY NextSound
<1> QED
  BY <1>1, <1>2, PTL DEF RecordsSpec

\* No reader is given a list of ideas or a chart that misses a write which was
\* acknowledged before it asked, whatever is cached, shared or answered with a 304.
THEOREM ReadsAlwaysFresh == RecordsSpec => []FreshReads
<1>1. RecordsIInv => FreshReads
  BY DEF RecordsIInv
<1> QED
  BY <1>1, RecordsCorrect, PTL
=============================================================================
