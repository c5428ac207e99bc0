------------------------------ MODULE Records ------------------------------
(* The records of one active idea's experiments, in memory and on disk         *)
(* (the_lab/store.py), the calls that create, change, delete and reload them,  *)
(* and two ways to read them that keep earlier answers: the response cache     *)
(* (the_lab/cache.py) and the conditional GET of the chart                     *)
(* (routes/overview.py), over restarts of the server.                          *)
(*                                                                            *)
(* Async handlers and the runner share the event loop and do not yield between *)
(* the steps modelled here; the other routes run in threads.  A record is      *)
(* known by the number of the write that made it (rev), a deleted one too.     *)
EXTENDS Integers, SequencesExt

CONSTANTS
    Loop,       \* the event loop
    Pool,       \* threads that serve the synchronous routes
    CacheMax,   \* _MAX
    MaxSeq,     \* bound: experiments of the idea
    MaxWrites,  \* bound: writes of records
    MaxRequests, \* bound: calls
    MaxReboots  \* bound: restarts of the server

ASSUME RecordsAssumption ==
    /\ Loop \notin Pool /\ "nobody" \notin Pool \union {Loop}
    /\ {CacheMax, MaxSeq} \subseteq Nat \ {0}
    /\ {MaxWrites, MaxRequests, MaxReboots} \subseteq Nat

VARIABLES
    known,     \* _experiments
    listed,    \* _exp_by_idea
    saved,     \* experiment.json of each
    version,   \* _version
    holder,    \* who has the store's lock
    job,       \* per caller, the call it serves
    cache,     \* _cache, oldest first
    computing, \* _inflight
    shared,    \* _inflight_results and _inflight_errors
    chart,     \* _chart_data_last
    browser,   \* the chart in a browser's HTTP cache
    nonce,     \* _ETAG_PROCESS_NONCE
    owed,      \* per record, the last write a caller was told of
    raced,     \* records somebody deleted or created while another call was at them
    spent      \* writes and calls so far

storeVars == <<known, listed, saved, version, holder>>
readVars  == <<cache, computing, shared, chart, browser>>
recordVars == <<storeVars, job, readVars, nonce, owed, raced, spent>>

Labels  == 1..MaxSeq
Callers == Pool \union {Loop}
Nobody  == "nobody"

Gone(rev) == [rev |-> rev, status |-> "gone"]
Here(r)   == r.status # "gone"

Nothing == [l \in Labels |-> 0]
NoChart == [tag |-> << >>, view |-> Nothing]

Call(op, stage, l) ==
    [op |-> op, at |-> stage, label |-> l, rec |-> Gone(0), renders |-> TRUE,
     left |-> 0, since |-> Nothing, key |-> << >>, view |-> Nothing, sent |-> NoChart]

NoJob == Call("none", "none", 0)

Statuses  == {"pending", "queued", "running", "done"}
RecordSet == [rev: Nat, status: Statuses \union {"gone"}]
ViewSet   == [Labels -> Nat]
ChartSet  == [tag: Seq(Nat), view: ViewSet]

ReaderOps    == {"ideas", "chart"}
ReaderStages == {"version", "decide", "wait", "compute", "store", "tag", "match", "keep", "answered"}
WriterOps    == {"create", "update", "delete", "reload", "reload all"}
WriterStages == {"reserve", "file", "publish", "script", "write", "swap", "files", "pop", "scan", "bump"}

JobSet == [op: {"none"} \union ReaderOps \union WriterOps,
           at: {"none"} \union ReaderStages \union WriterStages,
           label: 0..MaxSeq, rec: [rev: Nat, status: Statuses \union {"gone", "same"}],
           renders: BOOLEAN, left: Nat, since: ViewSet, key: Seq(Nat), view: ViewSet,
           sent: ChartSet]

RecordsTypeOK ==
    /\ known \in [Labels -> RecordSet] /\ saved \in [Labels -> RecordSet]
    /\ listed \subseteq Labels /\ holder \in Callers \union {Nobody}
    /\ job \in [Callers -> JobSet]
    /\ version \in Nat /\ nonce \in Nat /\ spent \in [writes: Nat, requests: Nat]
    /\ cache \in Seq([key: Seq(Nat), view: ViewSet]) /\ Len(cache) <= CacheMax
    /\ shared \subseteq [key: Seq(Nat), failed: BOOLEAN, view: ViewSet]
    /\ {chart, browser} \subseteq ChartSet
    /\ owed \in ViewSet /\ raced \subseteq Labels

\* A server that has found one finished experiment on disk.
RecordsInit ==
    /\ known = [l \in Labels |-> [rev |-> 0, status |-> IF l = 1 THEN "done" ELSE "gone"]]
    /\ saved = known /\ listed = {l \in Labels : Here(known[l])}
    /\ version = 0 /\ holder = Nobody
    /\ job = [p \in Callers |-> NoJob]
    /\ cache = << >> /\ computing = {} /\ shared = {}
    /\ chart = NoChart /\ browser = NoChart /\ nonce = 0
    /\ owed = Nothing /\ raced = {}
    /\ spent = [writes |-> 0, requests |-> 0]

-----------------------------------------------------------------------------
(* Steps of a call.                                                           *)

\* The lock-free part of a create or of a delete and another call on the record.
Alone(j)      == j.op = "delete" \/ (j.op = "create" /\ j.at \in {"file", "publish"})
Touches(j, l) == j.op = "reload all" \/ j.label = l

Races(p, new) ==
    {l \in Labels : Touches(new, l) /\ \E q \in Callers \ {p} :
        Touches(job[q], l) /\ (Alone(new) \/ Alone(job[q]))}

Becomes(p, new) ==
    /\ job' = [job EXCEPT ![p] = new]
    /\ raced' = raced \union Races(p, new)

Starts(p, new) ==
    /\ job[p] = NoJob /\ spent.requests < MaxRequests
    /\ spent' = [spent EXCEPT !.requests = @ + 1]
    /\ Becomes(p, new)
    /\ UNCHANGED <<storeVars, readVars, nonce, owed>>

At(p, stage)   == job' = [job EXCEPT ![p].at = stage] /\ UNCHANGED raced
Finishes(p)    == job' = [job EXCEPT ![p] = NoJob] /\ UNCHANGED raced
Writes         == spent.writes < MaxWrites /\ spent' = [spent EXCEPT !.writes = @ + 1]
ReadersSame    == UNCHANGED <<readVars, nonce>>

-----------------------------------------------------------------------------
(* Calls that create records: one, several, or copies of another whose script  *)
(* is still there.                                                            *)

Creates(n) == Starts(Loop, [Call("create", "reserve", 0) EXCEPT !.left = n])

CreateOne == Creates(1)
CreateBatch == \E n \in 2..MaxSeq : Creates(n)

Copyable == {l \in Labels : Here(known[l]) /\ Here(saved[l])}

Rerun == Copyable # {} /\ Creates(1)
Clone == Copyable # {} /\ \E n \in Labels : Creates(n)

\* _next_seq: the label is reserved before the record is written.
NextSeq == Max(listed \union {0}) + 1

Reserve(p) ==
    /\ job[p].op = "create" /\ job[p].at = "reserve" /\ holder = Nobody
    /\ NextSeq \in Labels
    /\ listed' = listed \union {NextSeq}
    /\ Becomes(p, [job[p] EXCEPT !.label = NextSeq, !.at = "file"])
    /\ UNCHANGED <<known, saved, version, holder, owed, spent>> /\ ReadersSame

\* The file is written without the lock; if it cannot be, the label is free again.
WriteNew(p) ==
    LET j == job[p] IN
    /\ j.op = "create" /\ j.at = "file"
    /\ \/ /\ Writes
          /\ LET r == [rev |-> spent.writes + 1, status |-> "pending"] IN
             /\ saved' = [saved EXCEPT ![j.label] = r]
             /\ Becomes(p, [j EXCEPT !.rec = r, !.at = "publish"])
          /\ UNCHANGED listed
       \/ /\ holder = Nobody
          /\ listed' = listed \ {j.label} /\ Finishes(p)
          /\ UNCHANGED <<saved, spent>>
    /\ UNCHANGED <<known, version, holder, owed>> /\ ReadersSame

PublishNew(p) ==
    LET j == job[p] IN
    /\ j.op = "create" /\ j.at = "publish" /\ holder = Nobody
    /\ known' = [known EXCEPT ![j.label] = j.rec]
    /\ listed' = listed \union {j.label}
    /\ holder' = p /\ At(p, "bump")
    /\ UNCHANGED <<saved, version, owed, spent>> /\ ReadersSame

\* Without its script the record stays pending.
WriteScript(p) ==
    /\ job[p].op = "create" /\ job[p].at = "script"
    /\ \/ Becomes(p, [job[p] EXCEPT !.at = "write", !.rec.status = "queued"])
       \/ Finishes(p)
    /\ UNCHANGED <<storeVars, owed, spent>> /\ ReadersSame

-----------------------------------------------------------------------------
(* Calls that change records.                                                 *)

Updates(p, l, status, renders) ==
    /\ Here(known[l])
    /\ Starts(p, [Call("update", "write", l) EXCEPT !.rec.status = status, !.renders = renders])

\* The runner and the handlers that set a status.
UpdateStatus == \E l \in Labels, s \in {"queued", "running", "done"} : Updates(Loop, l, s, TRUE)

\* The status stays what it is by then.  A write of meta only, such as a priority, bumps
\* no version and keeps the number: views are of the other fields.  One answer has meta
\* too, an idea in full, and it may be out of date in it.
UpdateTags  == \E t \in Pool, l \in Labels : Updates(t, l, "same", TRUE)
SetPriority == \E t \in Pool, l \in Labels : Updates(t, l, "same", FALSE)

\* update_experiment: the merged record is written under the lock, or cannot be.
WriteRecord(p) ==
    LET j == job[p]
        cur == known[j.label]
        r == [rev |-> IF j.renders THEN spent.writes + 1 ELSE cur.rev,
              status |-> IF j.rec.status = "same" THEN cur.status ELSE j.rec.status]
    IN /\ j.at = "write" /\ holder = Nobody
       /\ \/ /\ Here(cur)
             /\ IF j.renders THEN Writes ELSE UNCHANGED spent
             /\ saved' = [saved EXCEPT ![j.label] = r]
             /\ holder' = p
             /\ job' = [job EXCEPT ![p].rec = r, ![p].at = "swap"] /\ UNCHANGED raced
          \/ Finishes(p) /\ UNCHANGED <<saved, holder, spent>>
       /\ UNCHANGED <<known, listed, version, owed>> /\ ReadersSame

SwapRecord(p) ==
    LET j == job[p] IN
    /\ j.at = "swap"
    /\ known' = [known EXCEPT ![j.label] = j.rec]
    /\ At(p, "bump")
    /\ UNCHANGED <<listed, saved, version, holder, owed, spent>> /\ ReadersSame

\* The caller is told: of one record, or of all that a reload has read.
Tells(p) ==
    owed' = [l \in Labels |-> IF Touches(job[p], l) THEN Max({owed[l], known[l].rev}) ELSE owed[l]]

Bump(p) ==
    LET j == job[p] IN
    /\ j.at = "bump"
    /\ version' = IF j.renders THEN version + 1 ELSE version
    /\ holder' = Nobody
    /\ CASE j.op = "create" /\ j.rec.status = "pending" -> At(p, "script") /\ UNCHANGED owed
         [] j.op = "create" /\ j.left > 1 ->
               /\ job' = [job EXCEPT ![p] = [Call("create", "reserve", 0) EXCEPT !.left = j.left - 1]]
               /\ UNCHANGED raced /\ Tells(p)
         [] OTHER -> Finishes(p) /\ Tells(p)
    /\ UNCHANGED <<known, listed, saved, spent>> /\ ReadersSame

-----------------------------------------------------------------------------
(* Calls that delete and reload.                                              *)

\* Refused for a running one.
Delete ==
    \E t \in Pool, l \in Labels :
       /\ Here(known[l]) /\ known[l].status # "running"
       /\ Starts(t, Call("delete", "files", l))

\* The files go first, without the lock.
DeleteFiles(p) ==
    LET j == job[p] IN
    /\ j.op = "delete" /\ j.at = "files" /\ Writes
    /\ saved' = [saved EXCEPT ![j.label] = Gone(spent.writes + 1)]
    /\ job' = [job EXCEPT ![p].rec = Gone(spent.writes + 1), ![p].at = "pop"]
    /\ UNCHANGED <<known, listed, version, holder, owed, raced>> /\ ReadersSame

PopRecord(p) ==
    LET j == job[p] IN
    /\ j.op = "delete" /\ j.at = "pop" /\ holder = Nobody
    /\ known' = [known EXCEPT ![j.label] = j.rec]
    /\ listed' = listed \ {j.label}
    /\ holder' = p /\ At(p, "bump")
    /\ UNCHANGED <<saved, version, owed, spent>> /\ ReadersSame

Reload    == \E l \in Labels : Starts(Loop, Call("reload", "scan", l))
ReloadAll == \E t \in Pool : Starts(t, Call("reload all", "scan", 0))

\* Active records whose files are gone stay.
Scanned == [l \in Labels |->
              IF ~Here(saved[l]) /\ known[l].status \in {"queued", "running"} THEN known[l]
              ELSE saved[l]]

\* A file that cannot be read changes nothing.
Scan(p) ==
    LET j == job[p] IN
    /\ j.at = "scan" /\ holder = Nobody
    /\ \/ /\ j.op = "reload" /\ Here(saved[j.label])
          /\ known' = [known EXCEPT ![j.label] = saved[j.label]]
          /\ listed' = listed \union {j.label}
          /\ holder' = p /\ At(p, "bump")
       \/ /\ j.op = "reload all"
          /\ known' = Scanned /\ listed' = {l \in Labels : Here(Scanned[l])}
          /\ holder' = p /\ At(p, "bump")
       \/ Finishes(p) /\ UNCHANGED <<known, listed, holder>>
    /\ UNCHANGED <<saved, version, owed, spent>> /\ ReadersSame

\* Somebody edits a file.
EditFile ==
    /\ Writes
    /\ \E l \in Labels :
          Here(saved[l]) /\ saved' = [saved EXCEPT ![l].rev = spent.writes + 1]
    /\ UNCHANGED <<known, listed, version, holder, job, owed, raced>> /\ ReadersSame

-----------------------------------------------------------------------------
(* Reading through the response cache: the list of ideas, or one idea but for  *)
(* the meta of its experiments.                                                *)

View == [l \in Labels |-> known[l].rev]

Asked(t, op, stage) ==
    Starts(t, [Call(op, stage, 0) EXCEPT !.since = owed, !.sent = browser])

ListIdeas == \E t \in Pool : Asked(t, "ideas", "version")

Reads(t, new) ==
    /\ job' = [job EXCEPT ![t] = new]
    /\ UNCHANGED <<storeVars, nonce, owed, raced, spent>>

Answers(t, v) == Reads(t, [job[t] EXCEPT !.at = "answered", !.view = v])

ReadVersion(t) ==
    /\ job[t].at = "version"
    /\ Reads(t, [job[t] EXCEPT !.key = <<version>>, !.at = "decide"])
    /\ UNCHANGED readVars

Cached(key) == {k \in DOMAIN cache : cache[k].key = key}

\* A hit, a follower of somebody who computes the same, or a leader.
Decides(t) ==
    LET j == job[t] IN
    /\ j.at = "decide"
    /\ \/ \E k \in Cached(j.key) : Answers(t, cache[k].view) /\ UNCHANGED computing
       \/ /\ Cached(j.key) = {} /\ j.key \in computing
          /\ Reads(t, [j EXCEPT !.at = "wait"]) /\ UNCHANGED computing
       \/ /\ Cached(j.key) = {} /\ j.key \notin computing
          /\ computing' = computing \union {j.key}
          /\ Reads(t, [j EXCEPT !.at = "compute"])
    /\ UNCHANGED <<cache, shared, chart, browser>>

\* The function runs without a lock, or raises.
Computes(t) ==
    LET j == job[t] IN
    /\ j.at = "compute"
    /\ \/ /\ Reads(t, [j EXCEPT !.view = View, !.at = "store"])
          /\ UNCHANGED <<computing, shared>>
       \/ /\ computing' = computing \ {j.key}
          /\ shared' = shared \union {[key |-> j.key, failed |-> TRUE, view |-> Nothing]}
          /\ Reads(t, NoJob)
    /\ UNCHANGED <<cache, chart, browser>>

\* Faulty: the answer is kept under the version there is by now.
StoresLate(t) ==
    LET j == job[t] IN
    /\ j.at = "store"
    /\ cache' = Append(IF Len(cache) >= CacheMax THEN Tail(cache) ELSE cache,
                       [key |-> <<version>>, view |-> j.view])
    /\ shared' = shared \union {[key |-> j.key, failed |-> FALSE, view |-> j.view]}
    /\ computing' = computing \ {j.key}
    /\ Answers(t, j.view)
    /\ UNCHANGED <<chart, browser>>

\* The oldest entry of a full cache goes.
Stores(t) ==
    LET j == job[t] IN
    /\ j.at = "store"
    /\ cache' = Append(IF Len(cache) >= CacheMax THEN Tail(cache) ELSE cache,
                       [key |-> j.key, view |-> j.view])
    /\ shared' = shared \union {[key |-> j.key, failed |-> FALSE, view |-> j.view]}
    /\ computing' = computing \ {j.key}
    /\ Answers(t, j.view)
    /\ UNCHANGED <<chart, browser>>

\* The follower has the leader's answer or error, or computes for itself when a
\* timer has removed both.
Wakes(t) ==
    LET j == job[t]
        found == {s \in shared : s.key = j.key}
    IN /\ j.at = "wait" /\ (found # {} \/ j.key \notin computing)
       /\ \/ \E s \in found : ~s.failed /\ Answers(t, s.view)
          \/ found # {} /\ (\A s \in found : s.failed) /\ Reads(t, NoJob)
          \/ found = {} /\ Answers(t, View)
       /\ UNCHANGED readVars

Forgets ==
    /\ \E s \in shared : shared' = shared \ {s}
    /\ UNCHANGED <<storeVars, job, cache, computing, chart, browser, nonce, owed, raced, spent>>

-----------------------------------------------------------------------------
(* Reading the chart.                                                         *)

GetChart == \E t \in Pool : Asked(t, "chart", "tag")

\* _build_chart_data draws the same records; how much of each is left out here.
Chart == View

\* _chart_data_etag
Tag == <<nonce, version>>

ReadTag(t) ==
    /\ job[t].at = "tag"
    /\ Reads(t, [job[t] EXCEPT !.key = Tag, !.at = "match"])
    /\ UNCHANGED readVars

\* 304, the last chart built, or another.
Matches(t) ==
    LET j == job[t] IN
    /\ j.at = "match"
    /\ \/ /\ j.sent.tag = j.key
          /\ Answers(t, j.sent.view) /\ UNCHANGED browser
       \/ /\ j.sent.tag # j.key /\ chart.tag = j.key
          /\ Answers(t, chart.view) /\ browser' = chart
       \/ /\ j.sent.tag # j.key /\ chart.tag # j.key
          /\ Reads(t, [j EXCEPT !.view = Chart, !.at = "keep"]) /\ UNCHANGED browser
    /\ UNCHANGED <<cache, computing, shared, chart>>

KeepsChart(t) ==
    LET j == job[t] IN
    /\ j.at = "keep"
    /\ chart' = [tag |-> j.key, view |-> j.view] /\ browser' = chart'
    /\ Answers(t, j.view)
    /\ UNCHANGED <<cache, computing, shared>>

Heard(t) ==
    /\ job[t].at = "answered"
    /\ Reads(t, NoJob) /\ UNCHANGED readVars

-----------------------------------------------------------------------------
\* The server dies between any two steps and starts again: _scan.
Reboot ==
    /\ nonce < MaxReboots /\ nonce' = nonce + 1
    /\ known' = saved /\ listed' = {l \in Labels : Here(saved[l])}
    /\ version' = 0 /\ holder' = Nobody
    /\ job' = [p \in Callers |-> NoJob]
    /\ cache' = << >> /\ computing' = {} /\ shared' = {} /\ chart' = NoChart
    /\ UNCHANGED <<saved, browser, owed, raced, spent>>

RecordsNext ==
    \/ CreateOne \/ CreateBatch \/ Rerun \/ Clone \/ UpdateStatus \/ Reload
    \/ UpdateTags \/ SetPriority \/ Delete \/ ReloadAll \/ EditFile
    \/ ListIdeas \/ GetChart \/ Forgets \/ Reboot
    \/ \E p \in Callers :
          \/ Reserve(p) \/ WriteNew(p) \/ PublishNew(p) \/ WriteScript(p)
          \/ WriteRecord(p) \/ SwapRecord(p) \/ DeleteFiles(p) \/ PopRecord(p) \/ Scan(p) \/ Bump(p)
          \/ ReadVersion(p) \/ Decides(p) \/ Computes(p) \/ Stores(p) \/ Wakes(p)
          \/ ReadTag(p) \/ Matches(p) \/ KeepsChart(p) \/ Heard(p)

RecordsSpec == RecordsInit /\ [][RecordsNext]_recordVars

-----------------------------------------------------------------------------
(* Properties.                                                                *)

\* A read that begins after a write was acknowledged shows that write or a newer
\* one, from the cache, a shared answer, a 304 or a fresh build, over restarts;
\* but for records that somebody deleted or created while another call was at them.
\* Writes are those of fields other than meta.
FreshReads ==
    \A t \in Callers : job[t].at = "answered" =>
       \A l \in Labels \ raced : job[t].view[l] >= job[t].since[l]

-----------------------------------------------------------------------------
(* Why.                                                                       *)

\* The lock is held by the one call that is between its first change and the bump.
LockHeld == \A p \in Callers : job[p].at \in {"swap", "bump"} <=> holder = p

\* What a call may be at, by its kind; only one of a priority changes nothing that
\* is shown.
StepFits(j) ==
    /\ j.at \in {"reserve", "file", "publish", "script"} => j.op = "create"
    /\ j.at \in {"files", "pop"} => j.op = "delete"
    /\ j.at \in {"write", "swap"} => j.op \in {"create", "update"}
    /\ j.at = "scan" => j.op \in {"reload", "reload all"}
    /\ j.at = "none" => j = NoJob
    /\ j.at \in ReaderStages => j.op \in ReaderOps /\ j.label = 0
    /\ j.at \in WriterStages => j.op \in WriterOps
    /\ j.op \in WriterOps \ {"reload all"} /\ j.at # "reserve" => j.label # 0
    /\ ~j.renders => j.op = "update"

StepsFit == \A p \in Callers : StepFits(job[p])

\* Nobody else is at a record somebody creates or deletes.
WorksAlone ==
    \A p, q \in Callers : p # q /\ Alone(job[p]) =>
       \A l \in Labels \ raced : ~(Touches(job[p], l) /\ Touches(job[q], l))

\* No record is newer than the last write.
RevsWritten ==
    /\ \A l \in Labels : known[l].rev <= spent.writes /\ saved[l].rev <= spent.writes
    /\ \A p \in Callers : job[p].rec.rev <= spent.writes

\* The file of a record is never behind the memory, nor the memory behind what
\* somebody was told.
FileAhead ==
    \A l \in Labels \ raced : owed[l] <= known[l].rev /\ known[l].rev <= saved[l].rev

\* A record about to be entered is as new as what was told of it, and on file.
EntersNewer ==
    \A p \in Callers : job[p].at \in {"publish", "swap", "pop"} =>
       /\ job[p].rec \in RecordSet
       /\ \A l \in Labels \ raced : job[p].label = l =>
             /\ owed[l] <= job[p].rec.rev /\ job[p].rec.rev <= saved[l].rev
             /\ ~job[p].renders => job[p].rec.rev = known[l].rev

\* What a reader is owed was told before.
AskedBefore == \A p \in Callers, l \in Labels : job[p].since[l] <= owed[l]

\* A change in memory that the version does not tell yet.
Unannounced(l) ==
    \E p \in Callers : job[p].at = "bump" /\ job[p].renders /\ Touches(job[p], l)

\* A view that shows every change the version tells.
ShowsTold(v) ==
    \A l \in Labels \ raced : v[l] >= owed[l] /\ (v[l] >= known[l].rev \/ Unannounced(l))

\* Keys of the cache and tags of the chart that readers can have by now.
KeysNow == {<<version>>, Tag}
PastKey(k) ==
    \/ k = << >>
    \/ Len(k) = 1 /\ k[1] <= version
    \/ Len(k) = 2 /\ (k[1] < nonce \/ (k[1] = nonce /\ k[2] <= version))

\* A reader that has read its key.
Keyed(j) == j.at \in {"decide", "wait", "compute", "store", "match", "keep"}

\* A view may be kept under a key: while the key stands, it shows every change that
\* was told, and it serves every reader that has the key.
Serves(key, v) ==
    /\ PastKey(key)
    /\ key \in KeysNow => ShowsTold(v)
    /\ \A t \in Callers : Keyed(job[t]) /\ job[t].key = key =>
          \A l \in Labels \ raced : v[l] >= job[t].since[l]

\* Every view that is kept: in the cache, for followers, in the hands of a caller,
\* on the server and in the browser.
ViewsServe ==
    /\ \A i \in DOMAIN cache : Serves(cache[i].key, cache[i].view)
    /\ \A s \in shared : s.failed \/ Serves(s.key, s.view)
    /\ \A t \in Callers : job[t].at \in {"store", "keep"} => Serves(job[t].key, job[t].view)
    /\ \A t \in Callers : Serves(job[t].sent.tag, job[t].sent.view)
    /\ Serves(chart.tag, chart.view) /\ Serves(browser.tag, browser.view)

\* A reader's key is one there has been.
KeysRead ==
    \A t \in Callers : Keyed(job[t]) => PastKey(job[t].key) /\ job[t].key # << >>

\* Tags have two parts.
TagsRead ==
    /\ \A t \in Callers : job[t].at \in {"match", "keep"} => Len(job[t].key) = 2
    /\ \A t \in Callers : Len(job[t].sent.tag) # 1
    /\ Len(chart.tag) # 1 /\ Len(browser.tag) # 1

RecordsIInv ==
    /\ RecordsTypeOK
    /\ LockHeld
    /\ StepsFit
    /\ WorksAlone
    /\ RevsWritten
    /\ FileAhead
    /\ EntersNewer
    /\ AskedBefore
    /\ KeysRead
    /\ TagsRead
    /\ ViewsServe
    /\ FreshReads
=============================================================================
