------------------------- MODULE WriteBehindProofs -------------------------
(* Proofs about WriteBehind, for any number of threads and changes, both      *)
(* write modes, restarts and failing I/O.                                     *)
EXTENDS WriteBehind, TLAPS

\* The store g changes after a life that began with store l after b changes.
StoreAfter(l, b, g) == l \union ((b + 1)..(b + g))

\* The store right after this life's g-th change.
Version(g) == StoreAfter(loaded, base, g)

Busy(t) == pc[t] \in {"replace", "record"}

\* The live store is the one the generation counts, and generations recorded
\* on disk never run ahead of it.
Counted ==
    /\ base + dirty <= MaxChanges
    /\ flushed <= dirty
    /\ loaded \subseteq 1..base
    /\ mem = Version(dirty)

\* A thread on its way to the file holds a store that was live in this life,
\* no older than what its caller was promised.
SnapshotsLive ==
    \A t \in Threads: Persisting(t) =>
        /\ snap[t].gen \in 1..dirty
        /\ snap[t].content = Version(snap[t].gen)
        /\ asked[t] \subseteq snap[t].content

\* One thread at a time is past the generation check, with a newer snapshot.
IoExclusive ==
    /\ \A t \in Threads: Busy(t) <=> io = t
    /\ \A t \in Threads: io = t => flushed < snap[t].gen

\* The file is the store whose generation is recorded, except between the
\* replacement of the file and the record of its generation.
DiskCounted ==
    /\ \A t \in Threads: pc[t] = "record" => disk = snap[t].content
    /\ (\A t \in Threads: pc[t] # "record") => disk = Version(flushed)

IInv ==
    /\ TypeOK
    /\ Counted
    /\ SnapshotsLive
    /\ IoExclusive
    /\ DiskCounted
    /\ ReturnMeansSaved

\* While no I/O has failed, an unsaved change is somebody's business.
Scheduled ==
    failures = 0 /\ dirty # flushed =>
        \/ timer
        \/ \E t \in Threads: Persisting(t) /\ snap[t].gen = dirty
-----------------------------------------------------------------------------
(* Types.                                                                     *)

Bounded == TypeOK /\ base + dirty <= MaxChanges

\* A snapshot is made of a store and a generation.
LEMMA SnapshotTyped ==
  /\ NoSnap \in Snapshots
  /\ \A c \in SUBSET Changes, g \in 0..MaxChanges:
         [content |-> c, gen |-> g] \in Snapshots
BY BoundsAssumption DEF NoSnap, NoStore, Snapshots

\* Every step keeps the types and the count of changes within its bound.
LEMMA BoundedStep == Bounded /\ [Next]_vars => Bounded'
<1> SUFFICES ASSUME Bounded, [Next]_vars PROVE Bounded'
  OBVIOUS
<1> USE SnapshotTyped, ModeAssumption, BoundsAssumption
    DEF Bounded, TypeOK, Places, NoStore, store, gens, locks, faults, Release
<1>1. ASSUME NEW t \in Threads, Write(t) PROVE Bounded'
  <2>1. /\ mem' \in SUBSET Changes /\ dirty' \in 0..MaxChanges
        /\ base' + dirty' <= MaxChanges
    BY <1>1 DEF Write, Changes
  <2>2. asked' \in [Threads -> SUBSET Changes]
    BY <1>1, <2>1 DEF Write
  <2>3. snap' \in [Threads -> Snapshots]
    BY <1>1, <2>1 DEF Write
  <2>4. pc' \in [Threads -> Places] /\ lock' \in Threads \union {NoThread}
    BY <1>1 DEF Write
  <2> QED BY <1>1, <2>1, <2>2, <2>3, <2>4 DEF Write
<1>2. ASSUME NEW t \in Threads, Flush(t) PROVE Bounded'
  <2>1. asked' \in [Threads -> SUBSET Changes]
    BY <1>2 DEF Flush
  <2>2. snap' \in [Threads -> Snapshots]
    BY <1>2 DEF Flush, Snapshot
  <2>3. pc' \in [Threads -> Places]
    BY <1>2 DEF Flush
  <2> QED BY <1>2, <2>1, <2>2, <2>3 DEF Flush
<1>3. ASSUME NEW t \in Threads, Persist(t) PROVE Bounded'
  <2>1. snap[t].content \in SUBSET Changes /\ snap[t].gen \in 0..MaxChanges
    BY DEF Snapshots
  <2> QED BY <1>3, <2>1 DEF Persist, EnterIo, Replace, Record
<1>4. ASSUME NEW t \in Threads, IoFails(t) \/ Return(t) PROVE Bounded'
  BY <1>4 DEF IoFails, Return
<1>5. ASSUME NEW c \in SUBSET Changes, Restart(c) PROVE Bounded'
  <2>1. /\ asked' \in [Threads -> SUBSET Changes]
        /\ snap' \in [Threads -> Snapshots]
        /\ pc' \in [Threads -> Places]
    BY <1>5 DEF Restart
  <2>2. base' \in 0..MaxChanges /\ base' + dirty' <= MaxChanges
    BY <1>5 DEF Restart
  <2>3. crashes' \in 0..MaxCrashes /\ failures' \in 0..MaxFailures
    BY <1>5 DEF Restart
  <2>4. /\ mem' \subseteq Changes /\ disk' \subseteq Changes
        /\ loaded' \subseteq Changes
    BY <1>5 DEF Restart
  <2>5. /\ dirty' \in 0..MaxChanges /\ flushed' \in 0..MaxChanges
        /\ lock' \in Threads \union {NoThread}
        /\ io' \in Threads \union {NoThread}
    BY <1>5 DEF Restart
  <2>6. through' \in BOOLEAN /\ timer' \in BOOLEAN
    BY <1>5, ModeAssumption, Zenon DEF Restart
  <2> QED BY ONLY <2>1, <2>2, <2>3, <2>4, <2>5, <2>6 DEF Bounded, TypeOK
<1>6. CASE UNCHANGED vars
  BY <1>6 DEF vars
<1> QED BY <1>1, <1>2, <1>3, <1>4, <1>5, <1>6 DEF Next, Crash, Loadable

\* The initial state is typed.
LEMMA InitBounded == Init => Bounded
<1> SUFFICES ASSUME Init PROVE Bounded
  OBVIOUS
<1>1. snap \in [Threads -> Snapshots]
  BY SnapshotTyped DEF Init
<1>2. asked \in [Threads -> SUBSET Changes] /\ pc \in [Threads -> Places]
  BY DEF Init, Places, NoStore
<1>3. /\ mem \subseteq Changes /\ disk \subseteq Changes /\ loaded \subseteq Changes
      /\ through \in BOOLEAN /\ timer \in BOOLEAN
      /\ lock \in Threads \union {NoThread} /\ io \in Threads \union {NoThread}
  BY ModeAssumption DEF Init, NoStore
<1>4. /\ base \in 0..MaxChanges /\ base + dirty <= MaxChanges
      /\ dirty \in 0..MaxChanges /\ flushed \in 0..MaxChanges
      /\ crashes \in 0..MaxCrashes /\ failures \in 0..MaxFailures
  BY BoundsAssumption DEF Init
<1> QED BY ONLY <1>1, <1>2, <1>3, <1>4 DEF Bounded, TypeOK

\* WriteBehind is type correct: generations, snapshots and promises stay in
\* range through any interleaving of writes, flushes, failures and restarts.
THEOREM SavingTypeCorrect == Spec => []TypeOK
BY InitBounded, BoundedStep, PTL DEF Spec, Bounded
-----------------------------------------------------------------------------
(* The invariant.                                                             *)

\* A later version of this life contains every earlier one, and no other.
LEMMA VersionsGrow ==
  ASSUME TypeOK, NEW g \in Nat, NEW h \in Nat, g <= h
  PROVE  Version(g) \subseteq Version(h)
BY DEF TypeOK, Version, StoreAfter

\* While nobody is between the replacement and the record, the file holds the
\* recorded generation; otherwise it holds the newer snapshot of the thread
\* that has the I/O lock.
LEMMA DiskIsVersion ==
  ASSUME IInv
  PROVE  \E g \in flushed..dirty: disk = Version(g)
<1>1. CASE \A t \in Threads: pc[t] # "record"
  BY <1>1 DEF IInv, TypeOK, Counted, DiskCounted
<1>2. ASSUME NEW t \in Threads, pc[t] = "record"
      PROVE  \E g \in flushed..dirty: disk = Version(g)
  <2>1. /\ disk = Version(snap[t].gen) /\ snap[t].gen \in 1..dirty
        /\ flushed < snap[t].gen
    BY <1>2 DEF IInv, DiskCounted, SnapshotsLive, Persisting, IoExclusive, Busy
  <2> QED BY <2>1 DEF IInv, TypeOK
<1> QED BY <1>1, <1>2

\* A thread about to replace the file holds a strictly newer store than the
\* one the file has.
LEMMA ReplaceMovesForward ==
  ASSUME IInv, NEW t \in Threads, pc[t] = "replace"
  PROVE  disk = Version(flushed) /\ disk \subseteq snap[t].content
<1>1. io = t /\ flushed < snap[t].gen
  BY DEF IInv, IoExclusive, Busy
<1>2. \A u \in Threads: pc[u] # "record"
  BY <1>1 DEF IInv, IoExclusive, Busy
<1>3. disk = Version(flushed)
  BY <1>2 DEF IInv, DiskCounted
<1>4. snap[t].content = Version(snap[t].gen) /\ snap[t].gen \in Nat
  BY DEF IInv, SnapshotsLive, Persisting, TypeOK
<1>5. flushed \in Nat
  BY DEF IInv, TypeOK
<1> QED BY <1>1, <1>3, <1>4, <1>5, VersionsGrow DEF IInv

\* The initial state satisfies the invariant.
LEMMA InitInvariant == Init => IInv
<1> SUFFICES ASSUME Init PROVE IInv
  OBVIOUS
<1>1. TypeOK /\ Counted
  BY InitBounded, BoundsAssumption DEF Init, Bounded, Counted, Version, StoreAfter, NoStore
<1>2. SnapshotsLive /\ IoExclusive /\ ReturnMeansSaved
  BY ThreadsAssumption
  DEF Init, SnapshotsLive, Persisting, IoExclusive, Busy, ReturnMeansSaved
<1>3. DiskCounted
  BY DEF Init, DiskCounted, Version, StoreAfter, NoStore
<1> QED BY <1>1, <1>2, <1>3 DEF IInv

\* A mutation of the store keeps the invariant.
LEMMA WriteInvariant ==
  ASSUME IInv, NEW t \in Threads, Write(t), Bounded'
  PROVE  IInv'
<1> USE DEF IInv, Version
<1>1. loaded' = loaded /\ base' = base
  BY DEF Write
<1>2. Counted'
  <2>1. base + dirty < MaxChanges /\ dirty' = dirty + 1 /\ flushed' = flushed
    BY DEF Write
  <2>2. mem' = StoreAfter(loaded, base, dirty) \union {base + dirty + 1}
    BY DEF Write, Counted
  <2>3. mem' = StoreAfter(loaded, base, dirty + 1)
    BY <2>2 DEF StoreAfter, TypeOK
  <2> QED BY <1>1, <2>1, <2>3, BoundsAssumption DEF Counted, TypeOK
<1>3. mem \subseteq mem' /\ disk' = disk /\ flushed' = flushed /\ io' = io
  BY DEF Write
<1>4. ASSUME NEW u \in Threads, u # t
      PROVE  pc'[u] = pc[u] /\ snap'[u] = snap[u] /\ asked'[u] = asked[u]
  BY <1>4 DEF Write, TypeOK
<1>5. pc[t] = "idle" /\ asked'[t] = mem' /\ pc'[t] \in {"idle", "persist"}
  BY DEF Write, TypeOK
<1>6. pc'[t] = "persist" => snap'[t] = [content |-> mem', gen |-> dirty']
  BY DEF Write, TypeOK
<1>7. SnapshotsLive'
  <2> SUFFICES ASSUME NEW u \in Threads, Persisting(u)'
               PROVE  /\ snap'[u].gen \in 1..dirty'
                      /\ snap'[u].content = StoreAfter(loaded', base', snap'[u].gen)
                      /\ asked'[u] \subseteq snap'[u].content
    BY DEF SnapshotsLive
  <2>1. CASE u = t
    <3>1. snap'[t] = [content |-> mem', gen |-> dirty']
      BY <2>1, <1>5, <1>6 DEF Persisting
    <3>2. mem' = StoreAfter(loaded', base', dirty') /\ dirty' \in 1..dirty'
      BY <1>2 DEF Counted, Write, TypeOK
    <3> QED BY <2>1, <3>1, <3>2, <1>5
  <2>2. CASE u # t
    <3>1. Persisting(u)
      BY <2>2, <1>4 DEF Persisting
    <3>2. snap[u].gen \in 1..dirty'
      BY <3>1 DEF SnapshotsLive, Write, TypeOK
    <3> QED BY <2>2, <3>1, <3>2, <1>1, <1>4 DEF SnapshotsLive
  <2> QED BY <2>1, <2>2
<1>8. IoExclusive'
  <2>1. io # t
    BY <1>5 DEF IoExclusive, Busy
  <2> QED BY <2>1, <1>3, <1>4, <1>5 DEF IoExclusive, Busy
<1>9. DiskCounted'
  BY <1>1, <1>3, <1>4, <1>5 DEF DiskCounted
<1>10. ReturnMeansSaved'
  BY <1>3, <1>4, <1>5 DEF ReturnMeansSaved
<1> QED BY <1>2, <1>7, <1>8, <1>9, <1>10 DEF Bounded

\* So does flush: its snapshot is the live store, and when it takes none the
\* file is the live store already.
LEMMA FlushInvariant ==
  ASSUME IInv, NEW t \in Threads, Flush(t), Bounded'
  PROVE  IInv'
<1> USE DEF IInv, Version
<1>1. UNCHANGED <<mem, disk, loaded, base, dirty, flushed, io>>
  BY DEF Flush, store, locks
<1>2. Counted'
  BY <1>1 DEF Counted
<1>4. ASSUME NEW u \in Threads, u # t
      PROVE  pc'[u] = pc[u] /\ snap'[u] = snap[u] /\ asked'[u] = asked[u]
  BY <1>4 DEF Flush, TypeOK
<1>5. pc[t] = "idle" /\ asked'[t] = mem /\ pc'[t] \in {"done", "persist"}
  BY DEF Flush, TypeOK
<1>6. pc'[t] = "persist" =>
        dirty # flushed /\ snap'[t] = [content |-> mem, gen |-> dirty]
  BY DEF Flush, TypeOK, Snapshot
<1>7. pc'[t] = "done" => dirty = flushed
  BY DEF Flush, TypeOK
<1>8. SnapshotsLive'
  <2> SUFFICES ASSUME NEW u \in Threads, Persisting(u)'
               PROVE  /\ snap'[u].gen \in 1..dirty'
                      /\ snap'[u].content = StoreAfter(loaded', base', snap'[u].gen)
                      /\ asked'[u] \subseteq snap'[u].content
    BY DEF SnapshotsLive
  <2>1. CASE u = t
    <3>1. dirty # flushed /\ snap'[t] = [content |-> mem, gen |-> dirty]
      BY <2>1, <1>5, <1>6 DEF Persisting
    <3>2. mem = Version(dirty) /\ dirty \in 1..dirty
      BY <3>1 DEF Counted, TypeOK
    <3> QED BY <2>1, <3>1, <3>2, <1>1, <1>5
  <2>2. CASE u # t
    <3>1. Persisting(u)
      BY <2>2, <1>4 DEF Persisting
    <3> QED BY <2>2, <3>1, <1>1, <1>4 DEF SnapshotsLive
  <2> QED BY <2>1, <2>2
<1>9. IoExclusive'
  <2>1. io # t
    BY <1>5 DEF IoExclusive, Busy
  <2> QED BY <2>1, <1>1, <1>4, <1>5 DEF IoExclusive, Busy
<1>10. DiskCounted'
  BY <1>1, <1>4, <1>5 DEF DiskCounted
<1>11. ReturnMeansSaved'
  <2>1. ASSUME pc'[t] = "done" PROVE mem = disk
    <3>1. PICK g \in flushed..dirty: disk = Version(g)
      BY DiskIsVersion
    <3>2. g = dirty
      BY <2>1, <1>7, <3>1 DEF TypeOK
    <3> QED BY <3>1, <3>2 DEF Counted
  <2> QED BY <2>1, <1>1, <1>4, <1>5 DEF ReturnMeansSaved
<1> QED BY <1>2, <1>8, <1>9, <1>10, <1>11 DEF Bounded

\* A thread enters the I/O lock with a newer generation, or leaves because a
\* newer store, with everything its caller was promised, is in the file.
LEMMA EnterIoInvariant ==
  ASSUME IInv, NEW t \in Threads, EnterIo(t), Bounded'
  PROVE  IInv'
<1> USE DEF IInv, Version
<1>1. UNCHANGED <<mem, disk, loaded, base, dirty, flushed, snap, asked>>
  BY DEF EnterIo, store, gens
<1>2. pc[t] = "persist" /\ io = NoThread
  BY DEF EnterIo
<1>3. ASSUME NEW u \in Threads, u # t PROVE pc'[u] = pc[u]
  BY <1>3 DEF EnterIo, TypeOK
<1>4. \A u \in Threads: ~Busy(u)
  BY <1>2, ThreadsAssumption DEF IoExclusive
<1>5. disk = StoreAfter(loaded, base, flushed)
  BY <1>4 DEF DiskCounted, Busy
<1>6. \/ pc'[t] = "done" /\ snap[t].gen <= flushed /\ io' = io
      \/ pc'[t] = "replace" /\ ~(snap[t].gen <= flushed) /\ io' = t
  BY DEF EnterIo, TypeOK
<1>7. Counted' /\ DiskCounted'
  BY <1>1, <1>3, <1>4, <1>5, <1>6 DEF Counted, DiskCounted, Busy
<1>8. snap[t].gen \in 1..dirty /\ flushed \in Nat
  BY <1>2 DEF SnapshotsLive, Persisting, TypeOK
<1>9. SnapshotsLive'
  BY <1>1, <1>2, <1>3, <1>6 DEF SnapshotsLive, Persisting
<1>10. IoExclusive'
  BY <1>1, <1>2, <1>3, <1>4, <1>6, <1>8, ThreadsAssumption DEF IoExclusive, Busy
<1>11. ReturnMeansSaved'
  <2>1. ASSUME snap[t].gen <= flushed PROVE asked[t] \subseteq disk
    <3>1. asked[t] \subseteq StoreAfter(loaded, base, snap[t].gen)
      BY <1>2 DEF SnapshotsLive, Persisting
    <3>2. StoreAfter(loaded, base, snap[t].gen) \subseteq StoreAfter(loaded, base, flushed)
      BY <2>1, <1>8, VersionsGrow DEF Counted, TypeOK
    <3> QED BY <3>1, <3>2, <1>5
  <2> QED BY <2>1, <1>1, <1>3, <1>6 DEF ReturnMeansSaved
<1> QED BY <1>7, <1>9, <1>10, <1>11 DEF Bounded

\* Replacing the file moves it forward, so nothing promised is lost from it.
LEMMA ReplaceInvariant ==
  ASSUME IInv, NEW t \in Threads, Replace(t), Bounded'
  PROVE  IInv'
<1> USE DEF IInv, Version
<1>1. /\ UNCHANGED <<mem, loaded, base, dirty, flushed, io, snap, asked>>
      /\ disk' = snap[t].content
  BY DEF Replace, gens, locks
<1>2. pc[t] = "replace" /\ pc'[t] = "record"
  BY DEF Replace, TypeOK
<1>3. ASSUME NEW u \in Threads, u # t PROVE pc'[u] = pc[u]
  BY <1>3 DEF Replace, TypeOK
<1>4. io = t
  BY <1>2 DEF IoExclusive, Busy
<1>5. disk \subseteq disk'
  BY <1>1, <1>2, ReplaceMovesForward
<1>6. Counted' /\ SnapshotsLive' /\ IoExclusive'
  BY <1>1, <1>2, <1>3 DEF Counted, SnapshotsLive, Persisting, IoExclusive, Busy
<1>7. DiskCounted'
  BY <1>1, <1>2, <1>3, <1>4 DEF DiskCounted, IoExclusive, Busy
<1>8. ReturnMeansSaved'
  BY <1>1, <1>2, <1>3, <1>5 DEF ReturnMeansSaved
<1> QED BY <1>6, <1>7, <1>8 DEF Bounded

\* Recording the generation brings it back in line with the file.
LEMMA RecordInvariant ==
  ASSUME IInv, NEW t \in Threads, Record(t), Bounded'
  PROVE  IInv'
<1> USE DEF IInv, Version
<1>1. /\ UNCHANGED <<mem, disk, loaded, base, dirty, snap, asked>>
      /\ flushed' = snap[t].gen /\ io' = NoThread
  BY DEF Record, store
<1>2. pc[t] = "record" /\ pc'[t] = "done"
  BY DEF Record, TypeOK
<1>3. ASSUME NEW u \in Threads, u # t PROVE pc'[u] = pc[u]
  BY <1>3 DEF Record, TypeOK
<1>4. \A u \in Threads: u # t => ~Busy(u)
  BY <1>2 DEF IoExclusive, Busy
<1>5. /\ snap[t].gen \in 1..dirty /\ disk = snap[t].content
      /\ snap[t].content = StoreAfter(loaded, base, snap[t].gen)
      /\ asked[t] \subseteq snap[t].content
  BY <1>2 DEF SnapshotsLive, Persisting, DiskCounted
<1>6. Counted'
  BY <1>1, <1>5 DEF Counted, TypeOK
<1>7. SnapshotsLive'
  BY <1>1, <1>2, <1>3 DEF SnapshotsLive, Persisting
<1>8. IoExclusive'
  BY <1>1, <1>2, <1>3, <1>4, ThreadsAssumption DEF IoExclusive, Busy
<1>9. DiskCounted'
  BY <1>1, <1>2, <1>3, <1>4, <1>5 DEF DiskCounted, Busy
<1>10. ReturnMeansSaved'
  BY <1>1, <1>2, <1>3, <1>5 DEF ReturnMeansSaved
<1> QED BY <1>6, <1>7, <1>8, <1>9, <1>10 DEF Bounded

\* A thread that returns, or whose I/O fails, promises nothing any more.
LEMMA LeaveInvariant ==
  ASSUME IInv, NEW t \in Threads, IoFails(t) \/ Return(t), Bounded'
  PROVE  IInv'
<1> USE DEF IInv, Version
<1>1. UNCHANGED <<mem, disk, loaded, base, dirty, flushed, snap, asked>>
  BY DEF IoFails, Return, store, gens
<1>2. pc'[t] = "idle" /\ pc[t] \in {"replace", "done"}
  BY DEF IoFails, Return, TypeOK
<1>3. ASSUME NEW u \in Threads, u # t PROVE pc'[u] = pc[u]
  BY <1>3 DEF IoFails, Return, TypeOK
<1>4. \/ pc[t] = "replace" /\ io' = NoThread
      \/ pc[t] = "done" /\ io' = io
  BY DEF IoFails, Return
<1>5. Counted' /\ SnapshotsLive'
  BY <1>1, <1>2, <1>3 DEF Counted, SnapshotsLive, Persisting
<1>6. IoExclusive'
  BY <1>1, <1>2, <1>3, <1>4, ThreadsAssumption DEF IoExclusive, Busy
<1>7. DiskCounted'
  BY <1>1, <1>2, <1>3 DEF DiskCounted
<1>8. ReturnMeansSaved'
  BY <1>1, <1>2, <1>3 DEF ReturnMeansSaved
<1> QED BY <1>5, <1>6, <1>7, <1>8 DEF Bounded

\* A new server starts from the file, with no snapshot under way.
LEMMA CrashInvariant ==
  ASSUME IInv, ~Unreadable, Crash, Bounded'
  PROVE  IInv'
<1> USE DEF IInv, Version
<1>1. /\ mem' = disk /\ loaded' = disk /\ disk' = disk /\ base' = base + dirty
      /\ dirty' = 0 /\ flushed' = 0 /\ io' = NoThread
      /\ \A u \in Threads: pc'[u] = "idle"
  BY DEF Crash, Loadable, Restart
<1>2. \A l, b: b \in Nat => StoreAfter(l, b, 0) = l
  BY DEF StoreAfter
<1>3. base' \in Nat /\ base \in Nat /\ dirty \in Nat
  BY <1>1 DEF TypeOK
<1>4. disk \subseteq 1..base'
  <2>1. PICK g \in flushed..dirty: disk = StoreAfter(loaded, base, g)
    BY DiskIsVersion
  <2>2. loaded \subseteq 1..base /\ flushed \in Nat
    BY DEF Counted, TypeOK
  <2> QED BY <2>1, <2>2, <1>1, <1>3 DEF StoreAfter
<1>5. Counted'
  BY <1>1, <1>2, <1>3, <1>4, BoundsAssumption DEF Counted, Bounded, TypeOK
<1>6. SnapshotsLive' /\ ReturnMeansSaved'
  BY <1>1 DEF SnapshotsLive, Persisting, ReturnMeansSaved
<1>7. IoExclusive'
  BY <1>1, ThreadsAssumption DEF IoExclusive, Busy
<1>8. DiskCounted'
  BY <1>1, <1>2, <1>3 DEF DiskCounted
<1> QED BY <1>5, <1>6, <1>7, <1>8 DEF Bounded

\* A step that changes nothing.
LEMMA StutterInvariant ==
  ASSUME IInv, UNCHANGED vars
  PROVE  IInv'
BY DEF IInv, TypeOK, Counted, SnapshotsLive, Persisting, IoExclusive, Busy,
       DiskCounted, ReturnMeansSaved, Version, vars

\* Every step keeps the invariant, when the file can be read.
LEMMA InvariantStep ==
  ASSUME ~Unreadable
  PROVE  IInv /\ [Next]_vars => IInv'
<1> SUFFICES ASSUME IInv, [Next]_vars PROVE IInv'
  OBVIOUS
<1>1. Bounded'
  BY BoundedStep DEF IInv, Bounded, Counted
<1>2. CASE UNCHANGED vars
  BY <1>2, StutterInvariant
<1>3. CASE Crash
  BY <1>1, <1>3, CrashInvariant
<1>4. ASSUME NEW t \in Threads, Write(t) \/ Flush(t) PROVE IInv'
  BY <1>1, <1>4, WriteInvariant, FlushInvariant
<1>5. ASSUME NEW t \in Threads, Persist(t) PROVE IInv'
  BY <1>1, <1>5, EnterIoInvariant, ReplaceInvariant, RecordInvariant DEF Persist
<1>6. ASSUME NEW t \in Threads, IoFails(t) \/ Return(t) PROVE IInv'
  BY <1>1, <1>6, LeaveInvariant
<1> QED BY <1>2, <1>3, <1>4, <1>5, <1>6 DEF Next

\* The invariant holds throughout, when the file can be read.
LEMMA SavingInvariant ==
  ASSUME ~Unreadable
  PROVE  Spec => []IInv
BY InitInvariant, InvariantStep, PTL DEF Spec
-----------------------------------------------------------------------------
(* What the invariant gives.                                                  *)

\* A flush that finds the generations equal may return at once: the file is
\* the live store, whatever other threads were saving.
THEOREM CleanIsSaved ==
  ASSUME ~Unreadable
  PROVE  Spec => []CleanMeansSaved
<1>1. IInv => CleanMeansSaved
  <2> SUFFICES ASSUME IInv, dirty = flushed PROVE mem = disk
    BY DEF CleanMeansSaved
  <2>1. PICK g \in flushed..dirty: disk = Version(g)
    BY DiskIsVersion
  <2>2. g = dirty
    BY <2>1 DEF IInv, TypeOK
  <2> QED BY <2>1, <2>2 DEF IInv, Counted
<1> QED BY <1>1, SavingInvariant, PTL

\* What was live when flush, or a write-through mutation, was called is in the
\* file when it returns, even if another thread saved it.
THEOREM ReturnIsSaved ==
  ASSUME ~Unreadable
  PROVE  Spec => []ReturnMeansSaved
<1>1. IInv => ReturnMeansSaved
  BY DEF IInv
<1> QED BY <1>1, SavingInvariant, PTL

\* The only step that writes the file adds to it.
LEMMA DiskForward ==
  ASSUME IInv, [Next]_vars
  PROVE  disk \subseteq disk'
<1>1. ASSUME NEW t \in Threads, Replace(t) PROVE disk \subseteq disk'
  BY <1>1, ReplaceMovesForward DEF Replace
<1>2. ASSUME NEW t \in Threads,
             Write(t) \/ Flush(t) \/ EnterIo(t) \/ Record(t) \/ IoFails(t) \/ Return(t)
      PROVE  disk' = disk
  BY <1>2 DEF Write, Flush, EnterIo, Record, IoFails, Return, store
<1>3. CASE Crash
  BY <1>3 DEF Crash, Restart
<1>4. CASE UNCHANGED vars
  BY <1>4 DEF vars
<1> QED BY <1>1, <1>2, <1>3, <1>4 DEF Next, Persist

\* The file never loses a change, through any order of the flushes' I/O and
\* any number of crashes and I/O failures.
THEOREM FileMovesForward ==
  ASSUME ~Unreadable
  PROVE  Spec => DiskNeverBack
<1>1. IInv /\ [Next]_vars => [disk \subseteq disk']_vars
  BY DiskForward
<1> QED BY <1>1, SavingInvariant, PTL DEF Spec, DiskNeverBack

\* The mutations, flushes and restarts are steps of DurableStore: each one is
\* a change, a save of a store that was live, a return to the file, or nothing
\* that the promise can see.
THEOREM WriteBehindImplementsPromise ==
  ASSUME ~Unreadable
  PROVE  Spec => ImplementsPromise
<1>1. Init => Promise!Init
  BY DEF Init, Promise!Init, NoStore
<1>2. IInv /\ [Next]_vars => [Promise!Next]_<<mem, disk>>
  <2> SUFFICES ASSUME IInv, [Next]_vars
               PROVE  Promise!Next \/ UNCHANGED <<mem, disk>>
    OBVIOUS
  <2>1. ASSUME NEW t \in Threads, Write(t) PROVE Promise!Next
    <3> DEFINE k == base + dirty + 1
    <3>1. mem' = mem \union {k} /\ disk' = disk /\ k \in Nat
      BY <2>1 DEF Write, IInv, TypeOK
    <3>2. PICK g \in flushed..dirty: disk = Version(g)
      BY DiskIsVersion
    <3>3. \A j \in mem \union disk: j < k
      BY <3>2 DEF IInv, Counted, TypeOK, Version, StoreAfter
    <3> HIDE DEF k
    <3>4. Promise!Change
      BY <3>1, <3>3 DEF Promise!Change
    <3> QED BY <3>4 DEF Promise!Next
  <2>2. ASSUME NEW t \in Threads, Replace(t) PROVE Promise!Next
    <3> DEFINE k == base + snap[t].gen
    <3>1. disk' = snap[t].content /\ mem' = mem /\ pc[t] = "replace"
      BY <2>2 DEF Replace
    <3>2. /\ snap[t].content = StoreAfter(loaded, base, snap[t].gen)
          /\ snap[t].gen \in 1..dirty
      BY <3>1 DEF IInv, SnapshotsLive, Persisting, Version
    <3>3. /\ mem = StoreAfter(loaded, base, dirty) /\ loaded \subseteq 1..base
          /\ base \in Nat /\ dirty \in Nat
      BY DEF IInv, Counted, TypeOK, Version
    <3>4. k \in mem
      BY <3>2, <3>3 DEF StoreAfter
    <3>5. disk' = {j \in mem: j <= k}
      <4>1. ASSUME NEW j \in disk' PROVE j \in mem /\ j <= k
        <5>1. j \in loaded \union ((base + 1)..(base + snap[t].gen))
          BY <3>1, <3>2 DEF StoreAfter
        <5>2. CASE j \in loaded
          BY <5>2, <3>2, <3>3 DEF StoreAfter
        <5>3. CASE j \in (base + 1)..(base + snap[t].gen)
          BY <5>3, <3>2, <3>3 DEF StoreAfter
        <5> QED BY <5>1, <5>2, <5>3
      <4>2. \A j \in mem: j <= k => j \in disk'
        BY <3>1, <3>2, <3>3 DEF StoreAfter
      <4> HIDE DEF k
      <4> QED BY <4>1, <4>2
    <3>6. disk \subseteq disk'
      BY <3>1, ReplaceMovesForward
    <3> HIDE DEF k
    <3>7. Promise!Save
      BY <3>1, <3>4, <3>5, <3>6 DEF Promise!Save
    <3> QED BY <3>7 DEF Promise!Next
  <2>3. CASE Crash
    BY <2>3 DEF Crash, Loadable, Restart, Promise!Next, Promise!Restart
  <2>4. ASSUME NEW t \in Threads,
               Flush(t) \/ EnterIo(t) \/ Record(t) \/ IoFails(t) \/ Return(t)
        PROVE  UNCHANGED <<mem, disk>>
    BY <2>4 DEF Flush, EnterIo, Record, IoFails, Return, store
  <2>5. CASE UNCHANGED vars
    BY <2>5 DEF vars
  <2> QED BY <2>1, <2>2, <2>3, <2>4, <2>5 DEF Next, Persist
<1> QED BY <1>1, <1>2, SavingInvariant, PTL DEF Spec, ImplementsPromise, Promise!Spec
-----------------------------------------------------------------------------
(* No change is forgotten while the I/O works.                                *)

\* As long as no I/O has failed, a step leaves an unsaved change to a timer or
\* to a thread that holds it.
LEMMA ScheduledStep == IInv /\ Scheduled /\ [Next]_vars => Scheduled'
<1> SUFFICES ASSUME IInv, Scheduled, [Next]_vars, failures' = 0, (dirty # flushed)'
             PROVE  timer' \/ \E u \in Threads: (Persisting(u) /\ snap[u].gen = dirty)'
  BY DEF Scheduled
<1> USE DEF IInv, TypeOK
<1>1. ASSUME NEW t \in Threads, Write(t)
      PROVE  timer' \/ (Persisting(t) /\ snap[t].gen = dirty)'
  BY <1>1 DEF Write, Persisting
<1>2. ASSUME NEW t \in Threads, Flush(t)
      PROVE  (Persisting(t) /\ snap[t].gen = dirty)'
  BY <1>2 DEF Flush, Snapshot, Persisting
<1>3. ASSUME NEW t \in Threads, Persist(t) \/ Return(t)
      PROVE  timer' \/ \E u \in Threads: (Persisting(u) /\ snap[u].gen = dirty)'
  <2>1. UNCHANGED <<dirty, timer, snap, failures>>
    BY <1>3 DEF Persist, EnterIo, Replace, Record, Return, gens, faults
  <2>2. \A u \in Threads: u # t => pc'[u] = pc[u]
    BY <1>3 DEF Persist, EnterIo, Replace, Record, Return
  <2>3. Persisting(t) /\ snap[t].gen = dirty => Persisting(t)'
    BY <1>3, <2>1 DEF Persist, EnterIo, Replace, Record, Return, Persisting,
                      Counted, store, gens
  <2>4. dirty # flushed
    <3>1. CASE Record(t)
      <4>1. snap[t].gen \in 1..dirty /\ flushed < snap[t].gen
        BY <3>1 DEF Record, SnapshotsLive, Persisting, IoExclusive, Busy
      <4> QED BY <4>1
    <3>2. CASE ~Record(t)
      BY <1>3, <2>1, <3>2 DEF Persist, EnterIo, Replace, Return, gens
    <3> QED BY <3>1, <3>2
  <2>5. timer \/ \E u \in Threads: Persisting(u) /\ snap[u].gen = dirty
    BY <2>1, <2>4 DEF Scheduled
  <2> QED BY <2>1, <2>2, <2>3, <2>5 DEF Persisting
<1>4. ASSUME NEW t \in Threads, IoFails(t) PROVE FALSE
  BY <1>4 DEF IoFails
<1>5. CASE Crash
  BY <1>5 DEF Crash, Restart
<1>6. CASE UNCHANGED vars
  BY <1>6 DEF vars, Scheduled, Persisting
<1> QED BY <1>1, <1>2, <1>3, <1>4, <1>5, <1>6 DEF Next

\* While no I/O fails, what the file lacks is at most one delay old: a pending
\* timer will save it or a thread is saving it now.
THEOREM LossStaysRecent ==
  ASSUME ~Unreadable
  PROVE  Spec => []LossIsRecent
<1>1. Init => Scheduled
  BY DEF Init, Scheduled
<1>2. IInv /\ Scheduled => LossIsRecent
  <2> SUFFICES ASSUME IInv, Scheduled, failures = 0, mem # disk
               PROVE  \/ timer
                      \/ \E t \in Threads: Persisting(t) /\ snap[t].content = mem
    BY DEF LossIsRecent, LossIsBounded
  <2>1. PICK g \in flushed..dirty: disk = Version(g)
    BY DiskIsVersion
  <2>2. dirty # flushed
    BY <2>1 DEF IInv, Counted, TypeOK
  <2>4. \A t \in Threads: Persisting(t) /\ snap[t].gen = dirty => snap[t].content = mem
    BY DEF IInv, SnapshotsLive, Counted
  <2> QED BY <2>2, <2>4 DEF Scheduled
<1> QED BY <1>1, <1>2, ScheduledStep, SavingInvariant, PTL DEF Spec
=============================================================================
