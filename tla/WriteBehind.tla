---------------------------- MODULE WriteBehind ----------------------------
(* The write-behind persistence of the message store (the_lab/messages.py).   *)
(* Every mutation of the store ends in _write, which bumps a generation and   *)
(* makes sure that a timer is pending; the timer, the shutdown hook and the   *)
(* atexit hook call flush, which snapshots the store under _lock and writes   *)
(* the file outside it, under _flush_io_lock.  Several flushes may be under   *)
(* way at once and reach the I/O lock in any order.                           *)
(*                                                                            *)
(* A store is the set of changes it contains; change k is the k-th _write     *)
(* since the file was created.  What the changes are (messages, markers,      *)
(* threads) makes no difference to how they are saved.                        *)
EXTENDS Integers

CONSTANTS
    Threads,       \* threads that may mutate the store or run flush
    NoThread,      \* nobody: a lock that is free
    Modes,         \* whether THE_LAB_MESSAGES_WRITE_DELAY may be 0 (TRUE) or not
    MaxChanges,    \* bound: _write calls, over all lives of the server
    MaxCrashes,    \* bound: restarts of the server
    MaxFailures,   \* bound: failed writes of the file
    Unreadable     \* whether the file may fail to load at a restart

ASSUME ThreadsAssumption == NoThread \notin Threads
ASSUME ModeAssumption == Modes \subseteq BOOLEAN /\ Unreadable \in BOOLEAN
ASSUME BoundsAssumption ==
    MaxChanges \in Nat /\ MaxCrashes \in Nat /\ MaxFailures \in Nat

VARIABLES
    mem,        \* _cache: the live store
    disk,       \* the store in messages.json
    loaded,     \* the store this life of the server started from
    base,       \* the changes made in earlier lives (generations restart at 0)
    dirty,      \* _dirty_gen
    flushed,    \* _flushed_gen
    through,    \* _WRITE_DELAY <= 0, read when the module is loaded
    timer,      \* _flush_timer is not None
    lock,       \* who keeps _lock over the I/O (write-through only)
    io,         \* who holds _flush_io_lock
    pc,         \* where each thread is
    snap,       \* the snapshot each thread is persisting
    asked,      \* the live store when the thread's flush or write began
    crashes, failures

store  == <<mem, disk, loaded, base>>
gens   == <<dirty, flushed, through, timer>>
locks  == <<lock, io>>
faults == <<crashes, failures>>
vars   == <<mem, disk, loaded, base, dirty, flushed, through, timer, lock, io,
            pc, snap, asked, crashes, failures>>

Changes   == 1..MaxChanges
NoStore   == {}
NoSnap    == [content |-> NoStore, gen |-> 0]
Snapshots == [content: SUBSET Changes, gen: 0..MaxChanges]

\* idle, waiting for the I/O lock, writing the file, recording the generation,
\* about to return
Places == {"idle", "persist", "replace", "record", "done"}

Persisting(t) == pc[t] \in {"persist", "replace", "record"}

TypeOK ==
    /\ mem \subseteq Changes /\ disk \subseteq Changes /\ loaded \subseteq Changes
    /\ base \in 0..MaxChanges
    /\ dirty \in 0..MaxChanges /\ flushed \in 0..MaxChanges
    /\ through \in BOOLEAN /\ timer \in BOOLEAN
    /\ lock \in Threads \union {NoThread}
    /\ io \in Threads \union {NoThread}
    /\ pc \in [Threads -> Places]
    /\ snap \in [Threads -> Snapshots]
    /\ asked \in [Threads -> SUBSET Changes]
    /\ crashes \in 0..MaxCrashes /\ failures \in 0..MaxFailures

Init ==
    /\ mem = NoStore /\ disk = NoStore /\ loaded = NoStore /\ base = 0
    /\ dirty = 0 /\ flushed = 0 /\ timer = FALSE
    /\ through \in Modes
    /\ lock = NoThread /\ io = NoThread
    /\ pc = [t \in Threads |-> "idle"]
    /\ snap = [t \in Threads |-> NoSnap]
    /\ asked = [t \in Threads |-> NoStore]
    /\ crashes = 0 /\ failures = 0

\* Faulty: the snapshot is stamped with the generation of the next write.
SnapshotNext == [content |-> mem, gen |-> dirty + 1]

\* _snapshot_locked
Snapshot == [content |-> mem, gen |-> dirty]

Release(t) == lock' = IF lock = t THEN NoThread ELSE lock

-----------------------------------------------------------------------------
(* Faulty variants of the operations below, to show that the properties can   *)
(* fail.                                                                      *)

\* The mutation is applied to a copy of the store taken before _lock.
WriteStale(t) ==
    /\ pc[t] = "idle" /\ lock = NoThread
    /\ base + dirty < MaxChanges
    /\ mem' = asked[t] \union {base + dirty + 1}
    /\ dirty' = dirty + 1
    /\ asked' = [asked EXCEPT ![t] = mem']
    /\ timer' = TRUE
    /\ UNCHANGED <<disk, loaded, base, flushed, through, io, snap, pc, lock, faults>>

\* No timer is started while the file is being written.
WriteNoTimer(t) ==
    /\ pc[t] = "idle" /\ lock = NoThread
    /\ base + dirty < MaxChanges
    /\ mem' = mem \union {base + dirty + 1}
    /\ dirty' = dirty + 1
    /\ asked' = [asked EXCEPT ![t] = mem']
    /\ timer' = (timer \/ io = NoThread)
    /\ UNCHANGED <<disk, loaded, base, flushed, through, io, snap, pc, lock, faults>>

\* Flush leaves the work to a thread that is already writing the file.
FlushUnlessBusy(t) ==
    /\ pc[t] = "idle" /\ lock = NoThread
    /\ timer' = FALSE
    /\ asked' = [asked EXCEPT ![t] = mem]
    /\ IF dirty # flushed /\ io = NoThread
       THEN /\ snap' = [snap EXCEPT ![t] = Snapshot]
            /\ pc' = [pc EXCEPT ![t] = "persist"]
       ELSE /\ pc' = [pc EXCEPT ![t] = "done"]
            /\ UNCHANGED snap
    /\ UNCHANGED <<store, dirty, flushed, through, locks, faults>>

\* The generations are not compared under the I/O lock.
EnterIoUnchecked(t) ==
    /\ pc[t] = "persist" /\ io = NoThread
    /\ pc' = [pc EXCEPT ![t] = "replace"]
    /\ io' = t
    /\ UNCHANGED <<store, gens, lock, snap, asked, faults>>

\* The I/O lock is tried, not waited for.
EnterIoNonblocking(t) ==
    /\ pc[t] = "persist"
    /\ IF io # NoThread \/ snap[t].gen <= flushed
       THEN /\ pc' = [pc EXCEPT ![t] = "done"]
            /\ UNCHANGED io
       ELSE /\ pc' = [pc EXCEPT ![t] = "replace"]
            /\ io' = t
    /\ UNCHANGED <<store, gens, lock, snap, asked, faults>>

\* The generation recorded is the live store's, not the snapshot's.
RecordLive(t) ==
    /\ pc[t] = "record"
    /\ flushed' = dirty
    /\ io' = NoThread
    /\ pc' = [pc EXCEPT ![t] = "done"]
    /\ UNCHANGED <<store, dirty, through, timer, lock, snap, asked, faults>>
-----------------------------------------------------------------------------
(* The operations.                                                            *)

\* _write, at the end of every mutation and under _lock: a change is made, and
\* either it is written through before _lock is released, or a timer is left
\* pending that will flush it.
Write(t) ==
    /\ pc[t] = "idle" /\ lock = NoThread
    /\ base + dirty < MaxChanges
    /\ mem' = mem \union {base + dirty + 1}
    /\ dirty' = dirty + 1
    /\ asked' = [asked EXCEPT ![t] = mem']
    /\ IF through
       THEN /\ snap' = [snap EXCEPT ![t] = [content |-> mem', gen |-> dirty']]
            /\ pc' = [pc EXCEPT ![t] = "persist"]
            /\ lock' = t
            /\ UNCHANGED timer
       ELSE /\ timer' = TRUE
            /\ UNCHANGED <<snap, pc, lock>>
    /\ UNCHANGED <<disk, loaded, base, flushed, through, io, faults>>

\* flush up to the release of _lock: called by the timer, and at any moment by
\* the shutdown hook, by atexit, or by a timer that another flush has
\* forgotten (clearing _flush_timer does not cancel it).
Flush(t) ==
    /\ pc[t] = "idle" /\ lock = NoThread
    /\ timer' = FALSE
    /\ asked' = [asked EXCEPT ![t] = mem]
    /\ IF dirty # flushed
       THEN /\ snap' = [snap EXCEPT ![t] = Snapshot]
            /\ pc' = [pc EXCEPT ![t] = "persist"]
       ELSE /\ pc' = [pc EXCEPT ![t] = "done"]
            /\ UNCHANGED snap
    /\ UNCHANGED <<store, dirty, flushed, through, locks, faults>>

FireTimer(t) == timer /\ Flush(t)

\* _persist: enter the I/O lock and compare generations.
EnterIo(t) ==
    /\ pc[t] = "persist" /\ io = NoThread
    /\ IF snap[t].gen <= flushed
       THEN /\ pc' = [pc EXCEPT ![t] = "done"]
            /\ UNCHANGED io
       ELSE /\ pc' = [pc EXCEPT ![t] = "replace"]
            /\ io' = t
    /\ UNCHANGED <<store, gens, lock, snap, asked, faults>>

\* _persist: the atomic replacement of the file.
Replace(t) ==
    /\ pc[t] = "replace"
    /\ disk' = snap[t].content
    /\ pc' = [pc EXCEPT ![t] = "record"]
    /\ UNCHANGED <<mem, loaded, base, gens, locks, snap, asked, faults>>

\* _persist: the generation is recorded and the I/O lock left.
Record(t) ==
    /\ pc[t] = "record"
    /\ flushed' = snap[t].gen
    /\ io' = NoThread
    /\ pc' = [pc EXCEPT ![t] = "done"]
    /\ UNCHANGED <<store, dirty, through, timer, lock, snap, asked, faults>>

\* The write of the temporary file or its rename raises: the exception leaves
\* both locks; a timer's thread ends with it.
IoFails(t) ==
    /\ pc[t] = "replace"
    /\ failures < MaxFailures
    /\ failures' = failures + 1
    /\ io' = NoThread
    /\ Release(t)
    /\ pc' = [pc EXCEPT ![t] = "idle"]
    /\ UNCHANGED <<store, gens, snap, asked, crashes>>

Return(t) ==
    /\ pc[t] = "done"
    /\ pc' = [pc EXCEPT ![t] = "idle"]
    /\ Release(t)
    /\ UNCHANGED <<store, gens, io, snap, asked, faults>>

\* The server dies and a new one loads content from the file at its first _read.
Restart(content) ==
    /\ crashes < MaxCrashes
    /\ crashes' = crashes + 1
    /\ mem' = content /\ loaded' = content
    /\ base' = base + dirty
    /\ dirty' = 0 /\ flushed' = 0 /\ timer' = FALSE
    /\ through' \in Modes
    /\ lock' = NoThread /\ io' = NoThread
    /\ pc' = [t \in Threads |-> "idle"]
    /\ snap' = [t \in Threads |-> NoSnap]
    /\ asked' = [t \in Threads |-> NoStore]
    /\ UNCHANGED <<disk, failures>>

\* _read takes an unreadable or malformed file for an empty store.
Loadable == {disk} \union (IF Unreadable THEN {NoStore} ELSE {})

Crash == \E content \in Loadable: Restart(content)

Persist(t) == EnterIo(t) \/ Replace(t) \/ Record(t)

Next ==
    \/ \E t \in Threads: \/ Write(t) \/ Flush(t)
                         \/ Persist(t) \/ IoFails(t) \/ Return(t)
    \/ Crash

\* A timer fires, and a thread that holds or waits for a lock goes on.
Fairness ==
    /\ \A t \in Threads: WF_vars(EnterIo(t)) /\ WF_vars(Replace(t) \/ IoFails(t))
                         /\ WF_vars(Record(t)) /\ WF_vars(Return(t))
    /\ SF_vars(\E t \in Threads: FireTimer(t))

Spec == Init /\ [][Next]_vars
FairSpec == Spec /\ Fairness
-----------------------------------------------------------------------------
Promise == INSTANCE DurableStore

\* The file only moves forward through stores that were live, and a restart
\* finds one of them: the threads, timers and generations implement what
\* DurableStore promises.
ImplementsPromise == Promise!Spec

\* No write of the file ever drops a change the file already had, whichever
\* flush wins the I/O lock and whatever a restart loaded.
DiskNeverBack == [][disk \subseteq disk']_vars

\* Whatever the file lacks is at most one delay old: a timer is pending that
\* will save it, or a thread is saving it now.
LossIsBounded ==
    mem # disk =>
        \/ timer
        \/ \E t \in Threads: Persisting(t) /\ snap[t].content = mem

\* So it is as long as the I/O works.
LossIsRecent == failures = 0 => LossIsBounded

\* A flush that finds nothing to do is right: when the generations agree, the
\* file is the live store.
CleanMeansSaved == dirty = flushed => mem = disk

\* When flush returns to the shutdown hook, or a write-through mutation to its
\* caller, everything that was live when it was called is in the file, even if
\* another thread's I/O did the work.
ReturnMeansSaved == \A t \in Threads: pc[t] = "done" => asked[t] \subseteq disk

\* Every change reaches the file, unless the server dies first (only a restart
\* takes a change out of the live store) or its I/O fails.
EventuallySaved ==
    \A k \in Changes: k \in mem ~> (k \in disk \/ k \notin mem \/ failures > 0)
=============================================================================
