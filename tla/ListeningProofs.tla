-------------------------- MODULE ListeningProofs --------------------------
(* What the store of messages and its channels keep, for any agents, humans,   *)
(* ids and pages: the walks through threads and inboxes, replies, claims,      *)
(* delivery and the listeners' cursors.                                        *)
EXTENDS Listening, FiniteSetTheorems, SequenceTheorems, WellFoundedInduction, NaturalsInduction, TLAPS

-----------------------------------------------------------------------------
(* Least and greatest ids.                                                    *)

LEMMA LeastOfNats ==
    ASSUME NEW S \in SUBSET Nat, S # {}
    PROVE  \E x \in S : \A y \in S : x <= y
<1>1. \E x \in S : \A y \in S : ~(y < x)
  <2> DEFINE R == OpToRel(<, Nat)
  <2>1. \A p : p \in R <=> p \in Nat \X Nat /\ p[1] < p[2]
    BY DEF OpToRel
  <2> HIDE DEF R
  <2>2. IsWellFoundedOn(R, Nat)
    BY NatLessThanWellFounded DEF R
  <2>3. PICK x \in S : \A y \in S : ~ (<<y, x>> \in R)
    BY <2>2, WFMin
  <2> QED BY <2>1, <2>3
<1> QED BY <1>1

LEMMA IdsAreNats == Ids \subseteq Nat /\ Ids \subseteq Int /\ NoId \notin Ids /\ NoId \in Nat
BY IdentityAssumption DEF Ids, NoId

LEMMA LeastId ==
    ASSUME NEW S \in SUBSET Ids, S # {}
    PROVE  Min(S) \in S /\ \A y \in S : Min(S) <= y
<1>1. S \subseteq Nat
  BY IdentityAssumption DEF Ids
<1>2. \E x \in S : \A y \in S : x <= y
  BY <1>1, LeastOfNats
<1> QED BY <1>2 DEF Min

LEMMA GreatestId ==
    ASSUME NEW S \in SUBSET Ids, S # {}
    PROVE  Max(S) \in S /\ \A y \in S : Max(S) >= y
<1> DEFINE T == {MaxId - x : x \in S}
<1>1. T \subseteq Nat /\ T # {}
  BY IdentityAssumption DEF Ids
<1>2. PICK z \in T : \A y \in T : z <= y
  BY <1>1, LeastOfNats
<1>3. PICK x \in S : z = MaxId - x
  BY <1>2
<1>4. \A y \in S : x >= y
  <2> TAKE y \in S
  <2>1. MaxId - x <= MaxId - y
    BY <1>2, <1>3
  <2> QED BY <2>1, IdentityAssumption DEF Ids
<1> QED BY <1>3, <1>4 DEF Max

LEMMA GreatestOrNot ==
    ASSUME NEW S \in SUBSET Ids, NEW c \in Cursors
    PROVE  /\ Greatest(S, c) \in Cursors
           /\ S = {} => Greatest(S, c) = c
           /\ S # {} => Greatest(S, c) \in S
           /\ \A y \in S : Greatest(S, c) >= y
BY GreatestId DEF Greatest, Cursors

LEMMA LargerOfTwo ==
    ASSUME NEW x \in Int, NEW y \in Int
    PROVE  Max({x, y}) = IF x >= y THEN x ELSE y
<1>1. CASE x >= y
  BY <1>1 DEF Max
<1>2. CASE ~(x >= y)
  BY <1>2 DEF Max
<1> QED BY <1>1, <1>2

-----------------------------------------------------------------------------
(* Pages: the newest of some ids are above the others, the oldest below.       *)

LEMMA IdsFinite ==
    ASSUME NEW S \in SUBSET Ids
    PROVE  IsFiniteSet(S) /\ Cardinality(S) \in Nat
<1>1. IsFiniteSet(Ids)
  BY IdentityAssumption, FS_Interval DEF Ids
<1>2. IsFiniteSet(S)
  BY <1>1, FS_Subset
<1> QED BY <1>2, FS_CardinalityType

LEMMA NewestAbove ==
    ASSUME NEW S \in SUBSET Ids, NEW n \in Nat
    PROVE  /\ Newest(S, n) \subseteq S
           /\ \A i \in S \ Newest(S, n), x \in Newest(S, n) : i < x
           /\ n > 0 /\ S # {} => Newest(S, n) # {}
<1>1. \A i \in S \ Newest(S, n), x \in Newest(S, n) : i < x
  <2> SUFFICES ASSUME NEW i \in S \ Newest(S, n), NEW x \in Newest(S, n), ~(i < x)
               PROVE  FALSE
    OBVIOUS
  <2> DEFINE A == {j \in S : j > i}  B == {j \in S : j > x}
  <2>1. Cardinality(B) < n /\ ~(Cardinality(A) < n)
    BY DEF Newest
  <2>2. A \subseteq B
    <3>1. i \in Int /\ x \in Int /\ S \subseteq Int
      BY IdsAreNats DEF Newest
    <3>2. \A j \in S : j > i => j > x
      BY <3>1
    <3> QED BY <3>2
  <2>3. IsFiniteSet(B) /\ Cardinality(B) \in Nat /\ Cardinality(A) \in Nat
    BY IdsFinite
  <2>4. Cardinality(A) <= Cardinality(B)
    BY <2>2, <2>3, FS_Subset
  <2> HIDE DEF A, B
  <2> QED BY <2>1, <2>3, <2>4
<1>2. ASSUME n > 0, S # {} PROVE Newest(S, n) # {}
  <2>1. PICK m \in S : \A y \in S : m >= y
    BY <1>2, GreatestId
  <2>2. m \in Int /\ \A y \in S : y \in Int
    BY IdsAreNats
  <2>3. {j \in S : j > m} = {}
    <3>1. \A y \in S : ~(y > m)
      BY <2>1, <2>2
    <3> QED BY <3>1, Zenon
  <2>4. m \in Newest(S, n)
    BY <1>2, <2>3, FS_EmptySet DEF Newest
  <2> QED BY <2>4
<1> QED BY <1>1, <1>2 DEF Newest

LEMMA OldestBelow ==
    ASSUME NEW S \in SUBSET Ids, NEW n \in Nat
    PROVE  /\ Oldest(S, n) \subseteq S
           /\ \A i \in S \ Oldest(S, n), x \in Oldest(S, n) : i > x
           /\ n > 0 /\ S # {} => Oldest(S, n) # {}
<1>1. \A i \in S \ Oldest(S, n), x \in Oldest(S, n) : i > x
  <2> SUFFICES ASSUME NEW i \in S \ Oldest(S, n), NEW x \in Oldest(S, n), ~(i > x)
               PROVE  FALSE
    OBVIOUS
  <2> DEFINE A == {j \in S : j < i}  B == {j \in S : j < x}
  <2>1. Cardinality(B) < n /\ ~(Cardinality(A) < n)
    BY DEF Oldest
  <2>2. A \subseteq B
    <3>1. i \in Int /\ x \in Int /\ S \subseteq Int
      BY IdsAreNats DEF Oldest
    <3>2. \A j \in S : j < i => j < x
      BY <3>1
    <3> QED BY <3>2
  <2>3. IsFiniteSet(B) /\ Cardinality(B) \in Nat /\ Cardinality(A) \in Nat
    BY IdsFinite
  <2>4. Cardinality(A) <= Cardinality(B)
    BY <2>2, <2>3, FS_Subset
  <2> HIDE DEF A, B
  <2> QED BY <2>1, <2>3, <2>4
<1>2. ASSUME n > 0, S # {} PROVE Oldest(S, n) # {}
  <2>1. PICK m \in S : \A y \in S : m <= y
    BY <1>2, LeastId
  <2>2. m \in Int /\ \A y \in S : y \in Int
    BY IdsAreNats
  <2>3. {j \in S : j < m} = {}
    <3>1. \A y \in S : ~(y < m)
      BY <2>1, <2>2
    <3> QED BY <3>1, Zenon
  <2>4. m \in Oldest(S, n)
    BY <1>2, <2>3, FS_EmptySet DEF Oldest
  <2> QED BY <2>4
<1> QED BY <1>1, <1>2 DEF Oldest

\* A link leads to whatever is beyond the page.
LEMMA LinkBefore ==
    ASSUME NEW S \in SUBSET Ids, NEW page \in SUBSET S, page # {},
           NEW i \in S, \A x \in page : i < x
    PROVE  NextBefore(S, page) # NoId /\ i < NextBefore(S, page)
<1>1. Min(page) \in page
  BY LeastId
<1>2. i \in Below(S, Min(page))
  BY <1>1 DEF Below
<1> QED BY <1>1, <1>2, IdsAreNats DEF NextBefore

LEMMA LinkAfter ==
    ASSUME NEW S \in SUBSET Ids, NEW page \in SUBSET S, page # {},
           NEW i \in S, \A x \in page : i > x
    PROVE  NextAfter(S, page) # NoId /\ i > NextAfter(S, page)
<1>1. Max(page) \in page
  BY GreatestId
<1>2. i \in Above(S, Max(page))
  BY <1>1 DEF Above
<1> QED BY <1>1, <1>2, IdsAreNats DEF NextAfter

LEMMA LinkType ==
    ASSUME NEW S \in SUBSET Ids, NEW page \in SUBSET S
    PROVE  /\ NextBefore(S, page) \in Ids \union {NoId}
           /\ NextAfter(S, page) \in Ids \union {NoId}
BY LeastId, GreatestId DEF NextBefore, NextAfter

-----------------------------------------------------------------------------
(* Marks: a message keeps its text and loses no mark.                          *)

SameMessage(m, n) ==
    n.from = m.from /\ n.to = m.to /\ n.thread = m.thread /\ n.parent = m.parent /\ n.at = m.at

KeptMessage(m, n) == SameMessage(m, n) /\ m.read \subseteq n.read /\ m.delivered \subseteq n.delivered

Marked(ms, ns) == DOMAIN ns = DOMAIN ms /\ \A i \in DOMAIN ms : KeptMessage(ms[i], ns[i])

Stores == UNION {[S -> MessageRecords] : S \in SUBSET Ids}

LEMMA StoreForm ==
    ASSUME NEW ms
    PROVE  ms \in Stores <=> DOMAIN ms \subseteq Ids /\ ms \in [DOMAIN ms -> MessageRecords]
BY DEF Stores

LEMMA NotMarked ==
    ASSUME NEW ms
    PROVE  Marked(ms, ms)
BY DEF Marked, KeptMessage, SameMessage

LEMMA DeliveredMarks ==
    ASSUME NEW ms \in Stores, NEW S, NEW a \in Receivers
    PROVE  /\ MarkedDelivered(ms, S, a) \in Stores
           /\ Marked(ms, MarkedDelivered(ms, S, a))
           /\ \A i \in DOMAIN ms :
                 LET n == MarkedDelivered(ms, S, a)[i] IN
                 /\ n.read = ms[i].read
                 /\ n.delivered # ms[i].delivered => i \in S /\ n.delivered = ms[i].delivered \union {a}
                 /\ i \in S => Delivered(n, a)
<1> DEFINE ns == MarkedDelivered(ms, S, a)
<1>1. DOMAIN ms \subseteq Ids /\ ms \in [DOMAIN ms -> MessageRecords]
  BY StoreForm
<1>2. DOMAIN ns = DOMAIN ms
  BY DEF MarkedDelivered
<1>3. ASSUME NEW i \in DOMAIN ms
      PROVE  /\ ns[i] \in MessageRecords /\ KeptMessage(ms[i], ns[i]) /\ ns[i].read = ms[i].read
             /\ ns[i].delivered # ms[i].delivered
                  => i \in S /\ ns[i].delivered = ms[i].delivered \union {a}
             /\ i \in S => Delivered(ns[i], a)
  <2>1. ms[i] \in MessageRecords
    BY <1>1
  <2>2. CASE i \in S /\ ~Delivered(ms[i], a)
    <3>1. ns[i] = [ms[i] EXCEPT !.delivered = @ \union {a}]
      BY <2>2 DEF MarkedDelivered
    <3> QED BY <2>1, <2>2, <3>1 DEF MessageRecords, KeptMessage, SameMessage, Delivered
  <2>3. CASE ~(i \in S /\ ~Delivered(ms[i], a))
    <3>1. ns[i] = ms[i]
      BY <2>3 DEF MarkedDelivered
    <3> QED BY <2>1, <2>3, <3>1 DEF KeptMessage, SameMessage
  <2> QED BY <2>2, <2>3
<1>4. ns \in [DOMAIN ns -> MessageRecords]
  BY <1>2, <1>3 DEF MarkedDelivered
<1>5. ns \in Stores
  BY <1>1, <1>2, <1>4, StoreForm
<1> QED BY <1>2, <1>3, <1>5 DEF Marked

LEMMA ReadMarks ==
    ASSUME NEW ms \in Stores, NEW S, NEW a \in Receivers
    PROVE  /\ MarkedRead(ms, S, a) \in Stores
           /\ Marked(ms, MarkedRead(ms, S, a))
           /\ \A i \in DOMAIN ms : MarkedRead(ms, S, a)[i].delivered = ms[i].delivered
<1> DEFINE ns == MarkedRead(ms, S, a)
<1>1. DOMAIN ms \subseteq Ids /\ ms \in [DOMAIN ms -> MessageRecords]
  BY StoreForm
<1>2. DOMAIN ns = DOMAIN ms
  BY DEF MarkedRead
<1>3. ASSUME NEW i \in DOMAIN ms
      PROVE  /\ ns[i] \in MessageRecords /\ KeptMessage(ms[i], ns[i])
             /\ ns[i].delivered = ms[i].delivered
  <2>1. ms[i] \in MessageRecords
    BY <1>1
  <2>2. ns[i] = IF i \in S THEN [ms[i] EXCEPT !.read = @ \union {a}] ELSE ms[i]
    BY DEF MarkedRead
  <2> QED BY <2>1, <2>2 DEF MessageRecords, KeptMessage, SameMessage
<1>4. ns \in [DOMAIN ns -> MessageRecords]
  BY <1>2, <1>3 DEF MarkedRead
<1>5. ns \in Stores
  BY <1>1, <1>2, <1>4, StoreForm
<1> QED BY <1>2, <1>3, <1>5 DEF Marked

LEMMA NotifiedMarks ==
    ASSUME NEW ms \in Stores, NEW S, NEW a \in Receivers
    PROVE  /\ MarkedNotified(ms, S, a) \in Stores
           /\ Marked(ms, MarkedNotified(ms, S, a))
           /\ \A i \in DOMAIN ms : MarkedNotified(ms, S, a)[i].delivered = ms[i].delivered
<1> DEFINE ns == MarkedNotified(ms, S, a)
<1>1. DOMAIN ms \subseteq Ids /\ ms \in [DOMAIN ms -> MessageRecords]
  BY StoreForm
<1>2. DOMAIN ns = DOMAIN ms
  BY DEF MarkedNotified
<1>3. ASSUME NEW i \in DOMAIN ms
      PROVE  /\ ns[i] \in MessageRecords /\ KeptMessage(ms[i], ns[i])
             /\ ns[i].delivered = ms[i].delivered
  <2>1. ms[i] \in MessageRecords
    BY <1>1
  <2>2. ns[i] = IF i \in S THEN [ms[i] EXCEPT !.notified = @ \union {a}] ELSE ms[i]
    BY DEF MarkedNotified
  <2> QED BY <2>1, <2>2 DEF MessageRecords, KeptMessage, SameMessage
<1>4. ns \in [DOMAIN ns -> MessageRecords]
  BY <1>2, <1>3 DEF MarkedNotified
<1>5. ns \in Stores
  BY <1>1, <1>2, <1>4, StoreForm
<1> QED BY <1>2, <1>3, <1>5 DEF Marked

-----------------------------------------------------------------------------
(* What a reader pages through does not depend on marks.                       *)

LEMMA SameGroups ==
    ASSUME NEW ms, NEW ns, Marked(ms, ns)
    PROVE  /\ \A i \in DOMAIN ms : ThreadKey(ns, i) = ThreadKey(ms, i)
           /\ \A t : Group(ns, t) = Group(ms, t)
<1>1. \A i \in DOMAIN ms : ThreadKey(ns, i) = ThreadKey(ms, i)
  BY DEF Marked, KeptMessage, SameMessage, ThreadKey
<1> QED BY <1>1 DEF Marked, Group

LEMMA SameSight ==
    ASSUME NEW m, NEW n, SameMessage(m, n), NEW p, NEW th
    PROVE  IsFor(n, p, th) = IsFor(m, p, th) /\ CanSee(n, p, th) = CanSee(m, p, th)
<1>1. IsFor(n, p, th) = IsFor(m, p, th)
  BY DEF SameMessage, IsFor, InThread
<1> QED BY <1>1 DEF SameMessage, CanSee, InThread

LEMMA SameReadable ==
    ASSUME NEW ms, NEW ns, Marked(ms, ns), NEW th, NEW p
    PROVE  Readable(ns, th, p) = Readable(ms, th, p)
<1>1. \A i \in DOMAIN ms : CanSee(ns[i], p, th) = CanSee(ms[i], p, th)
  BY SameSight DEF Marked, KeptMessage
<1> QED BY <1>1 DEF Marked, Readable

LEMMA SameMembers ==
    ASSUME NEW ms, DOMAIN ms \subseteq Ids, NEW ns, Marked(ms, ns), NEW th, NEW t,
           Group(ms, t) # {}
    PROVE  DOMAIN InboxMeta(ns, th, t).members = DOMAIN InboxMeta(ms, th, t).members
<1> DEFINE root == IF t \in DOMAIN ms THEN t ELSE Min(Group(ms, t))
           group == Group(ms, t)
<1>1. group \subseteq DOMAIN ms /\ Group(ns, t) = group /\ DOMAIN ns = DOMAIN ms
  BY SameGroups DEF Group, Marked
<1>2. root \in DOMAIN ms
  BY <1>1, LeastId
<1>3. CASE t \in DOMAIN th
  BY <1>3 DEF InboxMeta
<1>4. CASE t \notin DOMAIN th
  <2>1. /\ InboxMeta(ns, th, t) = DerivedFrom(ns, root, group)
        /\ InboxMeta(ms, th, t) = DerivedFrom(ms, root, group)
    BY <1>1, <1>4 DEF InboxMeta
  <2>2. {ns[i].from : i \in group} = {ms[i].from : i \in group}
    BY <1>1 DEF Marked, KeptMessage, SameMessage
  <2>3. Addressee(ns[root]) = Addressee(ms[root])
    BY <1>2 DEF Marked, KeptMessage, SameMessage, Addressee
  <2> HIDE DEF root, group
  <2>4. \A xs : DOMAIN DerivedFrom(xs, root, group).members
                   = ({xs[i].from : i \in group} \ {Anonymous}) \union Addressee(xs[root])
    BY DEF DerivedFrom
  <2> QED BY <2>1, <2>2, <2>3, <2>4
<1> QED BY <1>3, <1>4

LEMMA SameThere ==
    ASSUME NEW ms, DOMAIN ms \subseteq Ids, NEW ns, Marked(ms, ns), NEW th,
           NEW w, w.kind \in {"thread", "all", "mine"}
    PROVE  There(ns, th, w) = There(ms, th, w)
<1>1. \A t : Group(ns, t) = Group(ms, t)
  BY SameGroups
<1>2. Readable(ns, th, w.by) = Readable(ms, th, w.by)
  BY SameReadable
<1>3. ASSUME NEW h, NEW view \in {"all", "mine"}
      PROVE  InboxCursors(ns, th, h, view) = InboxCursors(ms, th, h, view)
  <2>1. {ThreadKey(ns, i) : i \in DOMAIN ns} = {ThreadKey(ms, i) : i \in DOMAIN ms}
    BY SameGroups DEF Marked
  <2>2. Personal(ns, h) = Personal(ms, h)
    <3>1. {i \in DOMAIN ns : ns[i].from = h} = {i \in DOMAIN ms : ms[i].from = h}
      BY DEF Marked, KeptMessage, SameMessage
    <3> QED BY <3>1 DEF Personal, Marked, KeptMessage, SameMessage
  <2>3. ASSUME NEW t \in {ThreadKey(ms, i) : i \in DOMAIN ms}
        PROVE  /\ DOMAIN InboxMeta(ns, th, t).members = DOMAIN InboxMeta(ms, th, t).members
               /\ (\E i \in Group(ns, t) : ns[i].from = h) <=> (\E i \in Group(ms, t) : ms[i].from = h)
    <3>1. Group(ms, t) # {} /\ Group(ms, t) \subseteq DOMAIN ms
      BY DEF Group
    <3>2. DOMAIN InboxMeta(ns, th, t).members = DOMAIN InboxMeta(ms, th, t).members
      BY <3>1, SameMembers
    <3>3. \A i \in Group(ms, t) : ns[i].from = ms[i].from
      BY <3>1 DEF Marked, KeptMessage, SameMessage
    <3> QED BY <3>2, <3>3, <1>1
  <2>4. InboxThreads(ns, th, h, view) = InboxThreads(ms, th, h, view)
    <3>1. CASE view = "all"
      BY <2>1, <3>1 DEF InboxThreads
    <3>2. CASE view = "mine"
      <4> DEFINE Mine(xs, t) == \/ \E i \in Group(xs, t) : xs[i].from = h
                                \/ h \in DOMAIN InboxMeta(xs, th, t).members
                 Keys(xs) == {ThreadKey(xs, i) : i \in DOMAIN xs}
      <4>1. \A xs : InboxThreads(xs, th, h, view) = {t \in Keys(xs) : Mine(xs, t)}
        BY <3>2 DEF InboxThreads
      <4>2. Keys(ns) = Keys(ms) /\ \A t \in Keys(ms) : Mine(ns, t) <=> Mine(ms, t)
        BY <2>1, <2>3
      <4> HIDE DEF Mine, Keys
      <4> QED BY <4>1, <4>2
    <3> QED BY <3>1, <3>2
  <2> QED BY <1>1, <2>4 DEF InboxCursors, InboxCursor
<1>4. CASE w.kind = "thread"
  BY <1>1, <1>2, <1>4 DEF There
<1>5. CASE w.kind # "thread"
  BY <1>3, <1>5 DEF There
<1> QED BY <1>4, <1>5

-----------------------------------------------------------------------------
(* Metadata: a member that stays keeps the time of joining.                    *)

Tables == UNION {[S -> MetaRecords] : S \in SUBSET Ids}

LEMMA TableForm ==
    ASSUME NEW th
    PROVE  th \in Tables <=> DOMAIN th \subseteq Ids /\ th \in [DOMAIN th -> MetaRecords]
BY DEF Tables

LEMMA MetaForm ==
    ASSUME NEW public \in BOOLEAN, NEW closed \in BOOLEAN,
           NEW members, DOMAIN members \subseteq People, members \in [DOMAIN members -> Membership]
    PROVE  [public |-> public, closed |-> closed, members |-> members] \in MetaRecords
BY DEF MetaRecords

LEMMA MetaParts ==
    ASSUME NEW meta \in MetaRecords
    PROVE  /\ meta.public \in BOOLEAN /\ meta.closed \in BOOLEAN
           /\ DOMAIN meta.members \subseteq People
           /\ meta.members \in [DOMAIN meta.members -> Membership]
           /\ meta = [public |-> meta.public, closed |-> meta.closed, members |-> meta.members]
BY DEF MetaRecords

\* What meta says of the members it shares with the older one.
SameJoined(old, meta) ==
    \A p \in DOMAIN old.members \cap DOMAIN meta.members :
        meta.members[p].joined = old.members[p].joined

Stay(old, meta) ==
    \A p \in DOMAIN old.members : p \in DOMAIN meta.members
                                  /\ meta.members[p] = old.members[p]

LEMMA MemberAdded ==
    ASSUME NEW meta \in MetaRecords, NEW p \in People, NEW at \in 0..MaxClock
    PROVE  /\ WithMember(meta, p, at) \in MetaRecords
           /\ Stay(meta, WithMember(meta, p, at))
           /\ p \in DOMAIN WithMember(meta, p, at).members
<1> DEFINE ns == [q \in DOMAIN meta.members \union {p} |->
                     IF q = p THEN Joined(at) ELSE meta.members[q]]
<1>1. CASE p \in DOMAIN meta.members
  BY <1>1 DEF WithMember, Stay
<1>2. CASE p \notin DOMAIN meta.members
  <2>1. WithMember(meta, p, at) = [public |-> meta.public, closed |-> meta.closed, members |-> ns]
    BY <1>2, MetaParts DEF WithMember
  <2>2. DOMAIN ns = DOMAIN meta.members \union {p} /\ DOMAIN ns \subseteq People
    BY MetaParts
  <2>3. ns \in [DOMAIN ns -> Membership]
    BY MetaParts DEF Joined, Membership
  <2>4. [public |-> meta.public, closed |-> meta.closed, members |-> ns] \in MetaRecords
    <3> HIDE DEF ns
    <3> QED BY <2>2, <2>3, MetaForm, MetaParts
  <2>5. \A q \in DOMAIN meta.members : q \in DOMAIN ns /\ ns[q] = meta.members[q]
    BY <1>2
  <2> HIDE DEF ns
  <2> QED BY <2>1, <2>2, <2>4, <2>5 DEF Stay
<1> QED BY <1>1, <1>2

LEMMA MemberRemoved ==
    ASSUME NEW meta \in MetaRecords, NEW p
    PROVE  /\ WithoutMember(meta, p) \in MetaRecords
           /\ SameJoined(meta, WithoutMember(meta, p))
<1> DEFINE ns == [q \in DOMAIN meta.members \ {p} |-> meta.members[q]]
<1>1. WithoutMember(meta, p) = [public |-> meta.public, closed |-> meta.closed, members |-> ns]
  BY MetaParts DEF WithoutMember
<1>2. DOMAIN ns = DOMAIN meta.members \ {p} /\ DOMAIN ns \subseteq People
  BY MetaParts
<1>3. ns \in [DOMAIN ns -> Membership]
  BY MetaParts
<1>4. \A q \in DOMAIN ns : ns[q] = meta.members[q]
  OBVIOUS
<1> HIDE DEF ns
<1> QED BY <1>1, <1>2, <1>3, <1>4, MetaForm, MetaParts DEF SameJoined

LEMMA MemberMuted ==
    ASSUME NEW meta \in MetaRecords, NEW p \in DOMAIN meta.members, NEW muted \in BOOLEAN
    PROVE  /\ [meta EXCEPT !.members[p].muted = muted] \in MetaRecords
           /\ SameJoined(meta, [meta EXCEPT !.members[p].muted = muted])
<1> DEFINE ns == [meta.members EXCEPT ![p].muted = muted]
<1>1. [meta EXCEPT !.members[p].muted = muted]
         = [public |-> meta.public, closed |-> meta.closed, members |-> ns]
  BY MetaParts
<1>2. DOMAIN ns = DOMAIN meta.members
  OBVIOUS
<1>3. \A q \in DOMAIN ns : ns[q] \in Membership /\ ns[q].joined = meta.members[q].joined
  <2>1. \A q \in DOMAIN meta.members : meta.members[q] \in Membership
    BY MetaParts
  <2>2. ns[p] = [meta.members[p] EXCEPT !.muted = muted]
    OBVIOUS
  <2>3. \A q \in DOMAIN meta.members : q # p => ns[q] = meta.members[q]
    OBVIOUS
  <2> HIDE DEF ns
  <2> QED BY <1>2, <2>1, <2>2, <2>3 DEF Membership
<1>4. ns \in [DOMAIN ns -> Membership]
  BY <1>3
<1> HIDE DEF ns
<1> QED BY <1>1, <1>2, <1>3, <1>4, MetaForm, MetaParts DEF SameJoined

LEMMA MetaUpdated ==
    ASSUME NEW meta \in MetaRecords, NEW public \in BOOLEAN, NEW closed \in BOOLEAN
    PROVE  /\ [meta EXCEPT !.public = public, !.closed = closed] \in MetaRecords
           /\ Stay(meta, [meta EXCEPT !.public = public, !.closed = closed])
<1> DEFINE n == [meta EXCEPT !.public = public, !.closed = closed]
<1>1. n \in MetaRecords /\ n.members = meta.members
  BY DEF MetaRecords
<1> QED BY <1>1 DEF Stay

LEMMA LeastOfSome ==
    ASSUME NEW S \in SUBSET (0..MaxClock), S # {}
    PROVE  Min(S) \in S
<1>1. S \subseteq Nat
  BY MessagesAssumption
<1> QED BY <1>1, LeastOfNats DEF Min

LEMMA DerivedTyped ==
    ASSUME NEW ms \in Stores, NEW root \in DOMAIN ms, NEW group \in SUBSET DOMAIN ms
    PROVE  DerivedFrom(ms, root, group) \in MetaRecords
<1> DEFINE posters == {ms[i].from : i \in group} \ {Anonymous}
           since(p) == IF p \in Addressee(ms[root]) THEN ms[root].at
                       ELSE Min({ms[i].at : i \in {j \in group : ms[j].from = p}})
           members == [p \in posters \union Addressee(ms[root]) |-> Joined(since(p))]
           public == \E i \in group : ms[i].to = ToAll
<1>1. \A i \in DOMAIN ms : ms[i].from \in Callers /\ ms[i].at \in 0..MaxClock
  BY StoreForm DEF MessageRecords
<1>2. Addressee(ms[root]) \subseteq People
  BY IdentityAssumption DEF Addressee, People
<1>3. posters \subseteq People
  BY <1>1 DEF Callers
<1>4. ASSUME NEW p \in posters \union Addressee(ms[root])
      PROVE  since(p) \in 0..MaxClock
  <2>1. CASE p \in Addressee(ms[root])
    BY <1>1, <2>1
  <2>2. CASE p \notin Addressee(ms[root])
    <3> DEFINE times == {ms[i].at : i \in {j \in group : ms[j].from = p}}
    <3>1. times \subseteq 0..MaxClock /\ times # {}
      BY <1>1, <2>2
    <3>2. Min(times) \in times
      <4> HIDE DEF times
      <4> QED BY <3>1, LeastOfSome
    <3> QED BY <2>2, <3>1, <3>2
  <2> QED BY <2>1, <2>2
<1>5. DOMAIN members \subseteq People
  BY <1>2, <1>3
<1>6. members \in [DOMAIN members -> Membership]
  <2> HIDE DEF since
  <2> QED BY <1>4 DEF Joined, Membership
<1>7. DerivedFrom(ms, root, group) = [public |-> public, closed |-> FALSE, members |-> members]
  BY DEF DerivedFrom
<1>8. public \in BOOLEAN
  OBVIOUS
<1> HIDE DEF public, members
<1> QED BY <1>5, <1>6, <1>7, <1>8, MetaForm

LEMMA MetaTyped ==
    ASSUME NEW ms \in Stores, NEW th \in Tables, NEW t, HasMeta(ms, th, t)
    PROVE  Meta(ms, th, t) \in MetaRecords
<1>1. CASE t \in DOMAIN th
  BY <1>1, TableForm DEF Meta
<1>2. CASE t \notin DOMAIN th
  <2> DEFINE group == IF Group(ms, t) = {} THEN {t} ELSE Group(ms, t)
  <2>1. t \in DOMAIN ms /\ group \subseteq DOMAIN ms
    BY <1>2 DEF HasMeta, Group
  <2>2. Meta(ms, th, t) = DerivedFrom(ms, t, group)
    BY <1>2 DEF Meta, DerivedMeta
  <2> HIDE DEF group
  <2> QED BY <2>1, <2>2, DerivedTyped
<1> QED BY <1>1, <1>2

LEMMA MetaStored ==
    ASSUME NEW th \in Tables, NEW t \in Ids, NEW meta \in MetaRecords
    PROVE  /\ WithMeta(th, t, meta) \in Tables
           /\ DOMAIN WithMeta(th, t, meta) = DOMAIN th \union {t}
           /\ WithMeta(th, t, meta)[t] = meta
           /\ \A u \in DOMAIN th : u # t => WithMeta(th, t, meta)[u] = th[u]
<1> DEFINE ns == WithMeta(th, t, meta)
<1>1. DOMAIN th \subseteq Ids /\ th \in [DOMAIN th -> MetaRecords]
  BY TableForm
<1>2. DOMAIN ns = DOMAIN th \union {t} /\ ns[t] = meta
         /\ \A u \in DOMAIN th : u # t => ns[u] = th[u]
  BY DEF WithMeta
<1>3. ns \in [DOMAIN ns -> MetaRecords]
  BY <1>1 DEF WithMeta
<1> HIDE DEF ns
<1>4. ns \in Tables
  BY <1>1, <1>2, <1>3, TableForm
<1> QED BY <1>2, <1>4 DEF ns

\* A table in which no thread is lost and whoever is a member in both has the
\* same time of joining.
KeepsJoined(th, ns) ==
    \A t \in DOMAIN th : t \in DOMAIN ns /\ SameJoined(th[t], ns[t])

LEMMA NothingJoined ==
    ASSUME NEW th
    PROVE  KeepsJoined(th, th)
BY DEF KeepsJoined, SameJoined

LEMMA MetaStoredJoined ==
    ASSUME NEW th \in Tables, NEW t \in Ids, NEW meta \in MetaRecords,
           t \in DOMAIN th => SameJoined(th[t], meta)
    PROVE  KeepsJoined(th, WithMeta(th, t, meta))
<1> DEFINE ns == WithMeta(th, t, meta)
<1>1. /\ DOMAIN ns = DOMAIN th \union {t} /\ ns[t] = meta
      /\ \A u \in DOMAIN th : u # t => ns[u] = th[u]
  BY MetaStored
<1> HIDE DEF ns
<1>2. \A u \in DOMAIN th : SameJoined(th[u], ns[u])
  BY <1>1 DEF SameJoined
<1> QED BY <1>1, <1>2 DEF KeepsJoined, ns

\* A posting: no member is lost or joins again.
LEMMA PostedMeta ==
    ASSUME NEW ms \in Stores, NEW th \in Tables, NEW m \in MessageRecords
    PROVE  LET ns == MetaAfterPost(ms, th, m) IN
           /\ ns \in Tables
           /\ \A t \in DOMAIN th : t \in DOMAIN ns /\ Stay(th[t], ns[t])
           /\ DOMAIN ns \subseteq DOMAIN th \union DOMAIN ms
           /\ m.from # Anonymous /\ m.thread # NoId /\ HasMeta(ms, th, m.thread)
                 => m.thread \in DOMAIN ns
<1> DEFINE t == m.thread
<1>0. m.thread \in Ids \union {NoId} /\ m.from \in Callers /\ m.at \in 0..MaxClock
  BY DEF MessageRecords
<1>1. CASE t = NoId \/ m.from = Anonymous \/ ~HasMeta(ms, th, t)
  <2>1. MetaAfterPost(ms, th, m) = th
    BY <1>1 DEF MetaAfterPost
  <2> QED BY <1>1, <2>1 DEF Stay
<1>2. CASE ~(t = NoId \/ m.from = Anonymous \/ ~HasMeta(ms, th, t))
  <2> DEFINE old == Meta(ms, th, t)
             meta == WithMember(old, m.from, m.at)
  <2>1. MetaAfterPost(ms, th, m) = WithMeta(th, t, meta)
    BY <1>2 DEF MetaAfterPost
  <2>2. old \in MetaRecords /\ m.from \in People /\ t \in Ids
    BY <1>0, <1>2, MetaTyped DEF Callers
  <2>3. meta \in MetaRecords /\ Stay(old, meta)
    <3> HIDE DEF old
    <3> QED BY <1>0, <2>2, MemberAdded
  <2>4. t \in DOMAIN th => old = th[t]
    BY DEF Meta
  <2>5. t \in DOMAIN th \union DOMAIN ms
    BY <1>2 DEF HasMeta
  <2> HIDE DEF old, meta
  <2>6. /\ WithMeta(th, t, meta) \in Tables
        /\ DOMAIN WithMeta(th, t, meta) = DOMAIN th \union {t}
        /\ WithMeta(th, t, meta)[t] = meta
        /\ \A u \in DOMAIN th : u # t => WithMeta(th, t, meta)[u] = th[u]
    BY <2>2, <2>3, MetaStored
  <2>7. \A u \in DOMAIN th : Stay(th[u], WithMeta(th, t, meta)[u])
    <3> TAKE u \in DOMAIN th
    <3>1. CASE u = t
      BY <2>3, <2>4, <2>6, <3>1
    <3>2. CASE u # t
      BY <2>6, <3>2 DEF Stay
    <3> QED BY <3>1, <3>2
  <2> QED BY <2>1, <2>5, <2>6, <2>7
<1> QED BY <1>1, <1>2

-----------------------------------------------------------------------------
(* The inductive invariant, but for the types.                                 *)

\* Ids are given out in order.
IdsKept ==
    /\ \A i \in DOMAIN msgs : i < nextId
    /\ \A t \in DOMAIN threads : t < nextId

\* What was claimed is marked.
ClaimsKept ==
    /\ again = {}
    /\ \A i \in Ids : \A a \in claimed[i] :
          i < nextId /\ (i \in DOMAIN msgs => Delivered(msgs[i], a))

\* A reply by somebody with a name has stored its thread's metadata.
RepliesKept ==
    /\ \A i \in DOMAIN msgs :
          LET t == msgs[i].thread
          IN \/ t = NoId \/ t \in DOMAIN threads \/ t \in severed
             \/ t \in DOMAIN msgs /\ msgs[i].from = Anonymous
    /\ \A p \in Senders :
          LET t == draft[p].thread
          IN t = NoId \/ HasMeta(msgs, threads, t) \/ t \in severed

\* What a client takes for seen, or is about to acknowledge, it was given.
PrintedFirst ==
    \A a \in Receivers : \A i \in client[a].seen \union client[a].job.acks : a \in given[i]

\* What was followed is still there, and it was got or a link leads to it.
WalkKept ==
    walk.kind # "none" =>
        /\ walk.kind # "thread" => walk.newer = NoId
        /\ \A i \in walk.must :
              /\ i \in There(msgs, threads, walk)
              /\ \/ i \in walk.got
                 \/ walk.older # NoId /\ i < walk.older
                 \/ walk.newer # NoId /\ i > walk.newer

\* Every cursor covers the direct messages up to it: given, told of as backlog,
\* passed over by a full page, or in the frames before it.
Told(a) == {i \in Ids : a \in given[i]} \union backlog[a] \union passed[a]

Direct(a) ==
    {i \in DOMAIN msgs : msgs[i].to = ToAgent(a) /\ msgs[i].from # a /\ ~Delivered(msgs[i], a)}

CoveredBy(D, T, n, c, X) == c < n /\ \A i \in D : i <= c => i \in T \union X

Covers(a, c, X) == CoveredBy(Direct(a), Told(a), nextId, c, X)

SentBy(s, k) == UNION {s[j].ids : j \in 1..k}

CursorsKeptFor(a) ==
    /\ Covers(a, client[a].cursor, {}) /\ client[a].saved <= client[a].cursor
    /\ client[a].job.busy => Covers(a, client[a].job.upto, {})
    /\ \A k \in 1..Len(frames[a]) : Covers(a, frames[a][k].upto, SentBy(frames[a], k))
    /\ Covers(a, conn[a].cursor, SentBy(frames[a], Len(frames[a])))

CursorsKept == mode \in {"ack", "poll"} => \A a \in Receivers : CursorsKeptFor(a)

StoreKept == MessagesTypeOK /\ IdsKept /\ RepliesKept /\ WalkKept

IInv == /\ StoreKept /\ ListeningTypeOK /\ ClaimsKept /\ PrintedFirst
        /\ DeliveredMeansGiven /\ CursorsKept

\* What any step leaves of a message, of a membership and of what was given.
Grows ==
    /\ nextId' \in {nextId, nextId + 1}
    /\ \A i \in DOMAIN msgs' :
          \/ i \in DOMAIN msgs /\ KeptMessage(msgs[i], msgs'[i])
          \/ /\ i = nextId /\ nextId' = nextId + 1
             /\ msgs'[i].read = {} /\ msgs'[i].delivered = {}
    /\ KeepsJoined(threads, threads')
    /\ \A a \in Agents : registered[a] > 0 => registered'[a] = registered[a]
    /\ \A i \in Ids : given[i] \subseteq given'[i]

\* Nothing is marked as delivered but what was given.
MarksGiven ==
    \A i \in DOMAIN msgs' : \A a \in msgs'[i].delivered :
        \/ a \in given'[i]
        \/ i \in DOMAIN msgs /\ a \in msgs[i].delivered

LEMMA StoreTypes ==
    MessagesTypeOK =>
        /\ msgs \in Stores /\ threads \in Tables
        /\ nextId \in 1..(MaxId + 1) /\ clock \in 0..MaxClock /\ nextId \in Int
BY StoreForm, TableForm, IdentityAssumption DEF MessagesTypeOK

-----------------------------------------------------------------------------
(* Steps of the store that append a message.                                   *)

LEMMA AppendedForm ==
    ASSUME NEW ms \in Stores, NEW i \in Ids, NEW m \in MessageRecords
    PROVE  /\ Appended(ms, i, m) \in Stores
           /\ DOMAIN Appended(ms, i, m) = DOMAIN ms \union {i}
           /\ Appended(ms, i, m)[i] = m
           /\ \A j \in DOMAIN ms : j # i => Appended(ms, i, m)[j] = ms[j]
<1> DEFINE ns == Appended(ms, i, m)
<1>1. DOMAIN ms \subseteq Ids /\ ms \in [DOMAIN ms -> MessageRecords]
  BY StoreForm
<1>2. /\ DOMAIN ns = DOMAIN ms \union {i} /\ ns[i] = m
      /\ \A j \in DOMAIN ms : j # i => ns[j] = ms[j]
  BY DEF Appended
<1>3. ns \in [DOMAIN ns -> MessageRecords]
  BY <1>1 DEF Appended
<1> HIDE DEF ns
<1>4. ns \in Stores
  BY <1>1, <1>2, <1>3, StoreForm
<1> QED BY <1>2, <1>4 DEF ns

LEMMA NewMessageForm ==
    ASSUME NEW from \in Callers, NEW to \in Addresses, NEW thread \in Ids \union {NoId},
           NEW parent \in Ids \union {NoId}, NEW at \in 0..MaxClock
    PROVE  LET m == NewMessage(from, to, thread, parent, at) IN
           /\ m \in MessageRecords /\ m.read = {} /\ m.delivered = {}
           /\ m.from = from /\ m.to = to /\ m.thread = thread
BY DEF NewMessage, MessageRecords

LEMMA AppendedToStore ==
    ASSUME MessagesTypeOK, nextId \in Ids, nextId \notin DOMAIN msgs, NEW m \in MessageRecords,
           msgs' = Appended(msgs, nextId, m)
    PROVE  /\ msgs' \in Stores /\ DOMAIN msgs' = DOMAIN msgs \union {nextId}
           /\ msgs'[nextId] = m /\ \A i \in DOMAIN msgs : msgs'[i] = msgs[i]
<1> DEFINE ns == Appended(msgs, nextId, m)
<1>1. msgs \in Stores
  BY StoreTypes
<1>2. /\ ns \in Stores /\ DOMAIN ns = DOMAIN msgs \union {nextId} /\ ns[nextId] = m
      /\ \A j \in DOMAIN msgs : j # nextId => ns[j] = msgs[j]
  BY <1>1, AppendedForm
<1>3. msgs' = ns
  OBVIOUS
<1> HIDE DEF ns
<1>4. \A j \in DOMAIN msgs : j # nextId
  OBVIOUS
<1> QED BY <1>2, <1>3, <1>4

LEMMA AppendSound ==
    ASSUME MessagesTypeOK, IdsKept, NEW th \in Tables,
           DOMAIN th \subseteq DOMAIN threads \union DOMAIN msgs \union {nextId},
           \A t \in DOMAIN threads : t \in DOMAIN th /\ Stay(threads[t], th[t]),
           NEW m \in MessageRecords, m.read = {}, m.delivered = {},
           AppendMessage(th, m)
    PROVE  /\ nextId \in Ids /\ nextId' = nextId + 1 /\ nextId' \in 1..(MaxId + 1)
           /\ msgs' \in Stores /\ threads' \in Tables
           /\ DOMAIN msgs' = DOMAIN msgs \union {nextId} /\ nextId \notin DOMAIN msgs
           /\ msgs'[nextId] = m
           /\ \A i \in DOMAIN msgs : msgs'[i] = msgs[i]
           /\ IdsKept'
           /\ KeepsJoined(threads, threads')
           /\ \A t \in DOMAIN th : t \in DOMAIN threads'
           /\ m.from # Anonymous /\ m.thread # NoId /\ HasMeta(msgs', th, m.thread)
                 => m.thread \in DOMAIN threads'
<1>1. /\ nextId \in Ids /\ nextId' = nextId + 1 /\ msgs' = Appended(msgs, nextId, m)
      /\ threads' = MetaAfterPost(msgs', th, m)
  BY DEF AppendMessage
<1>2. nextId' \in 1..(MaxId + 1)
  BY <1>1, IdentityAssumption DEF Ids
<1>3. nextId \notin DOMAIN msgs /\ nextId \in Int
  BY <1>1, IdsAreNats DEF IdsKept
<1>4. /\ msgs' \in Stores /\ DOMAIN msgs' = DOMAIN msgs \union {nextId}
      /\ msgs'[nextId] = m /\ \A i \in DOMAIN msgs : msgs'[i] = msgs[i]
  BY <1>1, <1>3, AppendedToStore
<1>5. /\ threads' \in Tables
      /\ \A t \in DOMAIN th : t \in DOMAIN threads' /\ Stay(th[t], threads'[t])
      /\ DOMAIN threads' \subseteq DOMAIN th \union DOMAIN msgs'
      /\ m.from # Anonymous /\ m.thread # NoId /\ HasMeta(msgs', th, m.thread)
            => m.thread \in DOMAIN threads'
  BY <1>1, <1>4, PostedMeta
<1>6. IdsKept'
  <2>1. DOMAIN threads' \subseteq DOMAIN threads \union DOMAIN msgs \union {nextId}
    BY <1>4, <1>5
  <2>2. \A i \in DOMAIN threads \union DOMAIN msgs : i \in Int /\ i < nextId
    BY IdsAreNats, StoreTypes, StoreForm, TableForm DEF IdsKept
  <2> QED BY <1>1, <1>3, <1>4, <2>1, <2>2 DEF IdsKept
<1>7. KeepsJoined(threads, threads')
  BY <1>5 DEF KeepsJoined, SameJoined, Stay
<1> QED BY <1>1, <1>2, <1>3, <1>4, <1>5, <1>6, <1>7

WalkRecords ==
    [kind: {"none", "thread", "all", "mine"}, of: Ids \union {NoId}, by: People,
     older: Ids \union {NoId}, newer: Ids \union {NoId}, got: SUBSET Ids, must: SUBSET Ids]

LEMMA FollowedSound ==
    ASSUME walk \in WalkRecords, WalkKept, walk' = Followed(msgs', threads')
    PROVE  walk' \in WalkRecords /\ WalkKept'
<1> DEFINE there == There(msgs', threads', walk)
           kept == {i \in walk.must : i \in there}
<1>1. walk' = [walk EXCEPT !.must = kept]
  BY DEF Followed
<1>2. /\ walk' \in WalkRecords /\ walk'.must = kept
      /\ walk'.kind = walk.kind /\ walk'.of = walk.of /\ walk'.by = walk.by
      /\ walk'.got = walk.got /\ walk'.older = walk.older /\ walk'.newer = walk.newer
  BY <1>1 DEF WalkRecords
<1>3. There(msgs', threads', walk') = there
  BY <1>2 DEF There
<1>4. \A i \in kept : i \in walk.must /\ i \in there
  OBVIOUS
<1> HIDE DEF there, kept
<1>5. WalkKept'
  BY <1>2, <1>3, <1>4 DEF WalkKept
<1> QED BY <1>2, <1>5

LEMMA AppendKept ==
    ASSUME StoreKept, NEW th \in Tables,
           DOMAIN th \subseteq DOMAIN threads \union DOMAIN msgs \union {nextId},
           \A t \in DOMAIN threads : t \in DOMAIN th /\ Stay(threads[t], th[t]),
           NEW m \in MessageRecords, m.read = {}, m.delivered = {},
           m.thread = NoId \/ HasMeta(msgs, th, m.thread) \/ m.thread \in severed,
           AppendMessage(th, m),
           Tick, walk' = Followed(msgs', threads'),
           draft' \in [Senders -> Drafts \union {NoDraft}],
           \A p \in Senders : draft'[p] = draft[p] \/ draft'[p] = NoDraft,
           UNCHANGED <<registered, history>>
    PROVE  StoreKept' /\ Grows /\ MarksGiven
<1>0. MessagesTypeOK /\ IdsKept
  BY DEF StoreKept
<1>1. /\ nextId \in Ids /\ nextId' = nextId + 1 /\ nextId' \in 1..(MaxId + 1)
      /\ msgs' \in Stores /\ threads' \in Tables
      /\ DOMAIN msgs' = DOMAIN msgs \union {nextId} /\ nextId \notin DOMAIN msgs
      /\ msgs'[nextId] = m
      /\ \A i \in DOMAIN msgs : msgs'[i] = msgs[i]
      /\ IdsKept'
      /\ KeepsJoined(threads, threads')
      /\ \A t \in DOMAIN th : t \in DOMAIN threads'
      /\ m.from # Anonymous /\ m.thread # NoId /\ HasMeta(msgs', th, m.thread)
            => m.thread \in DOMAIN threads'
  BY <1>0, AppendSound
<1>2. clock' \in 0..MaxClock
  BY <1>0, StoreTypes, MessagesAssumption DEF Tick
<1>3. walk' \in WalkRecords /\ WalkKept'
  <2>1. walk \in WalkRecords /\ WalkKept
    BY DEF StoreKept, MessagesTypeOK, WalkRecords
  <2> QED BY <2>1, FollowedSound
<1>4. MessagesTypeOK'
  <2>1. /\ registered' = registered /\ given' = given /\ claimed' = claimed
        /\ again' = again /\ severed' = severed
    BY DEF history
  <2>2. /\ DOMAIN msgs' \subseteq Ids /\ msgs' \in [DOMAIN msgs' -> MessageRecords]
        /\ DOMAIN threads' \subseteq Ids /\ threads' \in [DOMAIN threads' -> MetaRecords]
    BY <1>1, StoreForm, TableForm
  <2> QED BY <1>0, <1>1, <1>2, <1>3, <2>1, <2>2 DEF MessagesTypeOK, WalkRecords
<1>5. RepliesKept'
  <2>1. \A t : HasMeta(msgs, threads, t) => HasMeta(msgs, th, t) /\ HasMeta(msgs', threads', t)
    BY <1>1 DEF HasMeta
  <2>2. \A t : HasMeta(msgs, th, t) => HasMeta(msgs', th, t)
    BY <1>1 DEF HasMeta
  <2>3. severed' = severed /\ RepliesKept
    BY DEF StoreKept, history
  <2>4. ASSUME NEW i \in DOMAIN msgs'
        PROVE  LET t == msgs'[i].thread
               IN \/ t = NoId \/ t \in DOMAIN threads' \/ t \in severed'
                  \/ t \in DOMAIN msgs' /\ msgs'[i].from = Anonymous
    <3>1. CASE i = nextId
      <4>1. CASE HasMeta(msgs, th, m.thread)
        <5>1. HasMeta(msgs', th, m.thread)
          BY <2>2, <4>1
        <5> QED BY <1>1, <3>1, <5>1 DEF HasMeta
      <4>2. CASE m.thread = NoId \/ m.thread \in severed
        BY <1>1, <2>3, <3>1, <4>2
      <4> QED BY <4>1, <4>2
    <3>2. CASE i # nextId
      BY <1>1, <2>3, <3>2 DEF RepliesKept
    <3> QED BY <3>1, <3>2
  <2>5. ASSUME NEW p \in Senders
        PROVE  LET t == draft'[p].thread
               IN t = NoId \/ HasMeta(msgs', threads', t) \/ t \in severed'
    <3>1. CASE draft'[p] = draft[p]
      BY <2>1, <2>3, <3>1 DEF RepliesKept
    <3>2. CASE draft'[p] = NoDraft
      BY <3>2 DEF NoDraft
    <3> QED BY <3>1, <3>2
  <2> QED BY <2>4, <2>5 DEF RepliesKept
<1>6. Grows
  <2>1. \A i \in DOMAIN msgs : KeptMessage(msgs[i], msgs'[i])
    BY <1>1 DEF KeptMessage, SameMessage
  <2>2. registered' = registered /\ given' = given
    BY DEF history
  <2> QED BY <1>1, <2>1, <2>2 DEF Grows
<1>7. MarksGiven
  BY <1>1 DEF MarksGiven
<1> QED BY <1>1, <1>3, <1>4, <1>5, <1>6, <1>7 DEF StoreKept

\* A message that was checked is filed in a thread that was there, or cut off.
LEMMA DraftSound ==
    ASSUME StoreKept, NEW p \in Senders, NEW to \in Recipients \union {Unset},
           NEW parent \in Ids \union {NoId}, NEW threadId \in Ids \union {NoId},
           MayPost(p, to, parent, threadId)
    PROVE  LET d == Addressed(p, to, parent, threadId) IN
           /\ d \in Drafts
           /\ d.thread = NoId \/ HasMeta(msgs, threads, d.thread) \/ d.thread \in severed
<1> DEFINE t == FiledIn(to, parent, threadId)
<1>0. MessagesTypeOK /\ RepliesKept /\ msgs \in Stores
  BY StoreTypes DEF StoreKept
<1>1. to # Unset => to \in Addresses
  BY MessagesAssumption
<1>2. Named(to, threadId) \in Ids \union {NoId}
  <2>1. CASE to[1] # "thread"
    BY <2>1 DEF Named
  <2>2. CASE to[1] = "thread"
    <3>1. to # Unset
      BY <2>2 DEF Unset
    <3>2. to \in {ToThread(u) : u \in Ids}
      BY <1>1, <2>2, <3>1 DEF Addresses, ToAll, ToUser, ToHuman, ToAgent, ToRole
    <3> QED BY <2>2, <3>2 DEF Named, ToThread
  <2> QED BY <2>1, <2>2
<1>3. /\ t \in Ids \union {NoId}
      /\ t = NoId \/ HasMeta(msgs, threads, t) \/ t \in severed
  <2>1. CASE parent = NoId
    <3>1. t = Named(to, threadId)
      BY <2>1 DEF FiledIn
    <3>2. Named(to, threadId) # NoId => HasMeta(msgs, threads, t)
      BY <2>1 DEF MayPost, MayFile
    <3> QED BY <1>2, <3>1, <3>2
  <2>2. CASE parent # NoId
    <3>1. parent \in DOMAIN msgs /\ t = ThreadKey(msgs, parent)
      BY <2>2 DEF MayPost, FiledIn
    <3>2. msgs[parent].thread \in Ids \union {NoId} /\ parent \in Ids
      BY <1>0, <3>1, StoreForm DEF MessageRecords
    <3> QED BY <1>0, <3>1, <3>2 DEF ThreadKey, RepliesKept, HasMeta
  <2> QED BY <2>1, <2>2
<1>4. (IF to = Unset THEN ToThread(t) ELSE to) \in Addresses
  <2>1. CASE to = Unset
    <3>1. t \in Ids
      BY <1>3, <2>1 DEF MayPost
    <3> QED BY <2>1, <3>1 DEF Addresses
  <2>2. CASE to # Unset
    BY <1>1, <2>2
  <2> QED BY <2>1, <2>2
<1>5. p \in Callers
  BY MessagesAssumption
<1> HIDE DEF t
<1> QED BY <1>3, <1>4, <1>5 DEF Addressed, Drafts, t

LEMMA AppendsKept ==
    ASSUME StoreKept, NEW d \in Drafts,
           d.thread = NoId \/ HasMeta(msgs, threads, d.thread) \/ d.thread \in severed,
           Appends(d),
           draft' \in [Senders -> Drafts \union {NoDraft}],
           \A p \in Senders : draft'[p] = draft[p] \/ draft'[p] = NoDraft
    PROVE  StoreKept' /\ Grows /\ MarksGiven
<1> DEFINE m == NewMessage(d.from, d.to, d.thread, d.parent, clock)
<1>1. threads \in Tables /\ clock \in 0..MaxClock
  BY StoreTypes DEF StoreKept
<1>2. m \in MessageRecords /\ m.read = {} /\ m.delivered = {} /\ m.thread = d.thread
  <2>1. /\ d.from \in Callers /\ d.to \in Addresses
        /\ d.thread \in Ids \union {NoId} /\ d.parent \in Ids \union {NoId}
    BY DEF Drafts
  <2> QED BY <1>1, <2>1 DEF NewMessage, MessageRecords
<1>3. /\ AppendMessage(threads, m) /\ Tick /\ walk' = Followed(msgs', threads')
      /\ UNCHANGED <<registered, history>>
  BY DEF Appends
<1>4. \A t \in DOMAIN threads : Stay(threads[t], threads[t])
  BY DEF Stay
<1> HIDE DEF m
<1> QED BY <1>1, <1>2, <1>3, <1>4, AppendKept

LEMMA PostKept ==
    ASSUME StoreKept, NEW p \in Senders, NEW to \in Recipients \union {Unset},
           NEW parent \in Ids \union {NoId}, NEW threadId \in Ids \union {NoId},
           Post(p, to, parent, threadId)
    PROVE  StoreKept' /\ Grows /\ MarksGiven
<1>1. draft \in [Senders -> Drafts \union {NoDraft}] /\ draft' = draft
  BY DEF StoreKept, MessagesTypeOK, Post
<1> QED BY <1>1, DraftSound, AppendsKept DEF Post

LEMMA EndPostKept ==
    ASSUME StoreKept, NEW p \in Senders, EndPost(p)
    PROVE  StoreKept' /\ Grows /\ MarksGiven
<1>1. draft \in [Senders -> Drafts \union {NoDraft}] /\ RepliesKept
  BY DEF StoreKept, MessagesTypeOK
<1>2. draft[p] \in Drafts /\ Appends(draft[p]) /\ draft' = [draft EXCEPT ![p] = NoDraft]
  BY <1>1 DEF EndPost
<1>3. /\ draft' \in [Senders -> Drafts \union {NoDraft}]
      /\ \A q \in Senders : draft'[q] = draft[q] \/ draft'[q] = NoDraft
  BY <1>1, <1>2
<1>4. LET t == draft[p].thread IN t = NoId \/ HasMeta(msgs, threads, t) \/ t \in severed
  BY <1>1 DEF RepliesKept
<1> QED BY <1>2, <1>3, <1>4, AppendsKept

LEMMA CreateKept ==
    ASSUME StoreKept, NEW p \in Senders \ {Anonymous}, NEW public \in BOOLEAN,
           NEW announce \in BOOLEAN, NEW S \in SUBSET Receivers,
           Create(p, public, announce, S)
    PROVE  StoreKept' /\ Grows /\ MarksGiven
<1> DEFINE members == [q \in S \union {p} |-> Joined(clock)]
           meta == [public |-> public, closed |-> FALSE, members |-> members]
           to == IF announce THEN ToAll ELSE ToThread(nextId)
           m == NewMessage(p, to, nextId, NoId, clock)
           th == WithMeta(threads, nextId, meta)
<1>0. /\ MessagesTypeOK /\ IdsKept /\ threads \in Tables /\ clock \in 0..MaxClock
      /\ draft \in [Senders -> Drafts \union {NoDraft}]
  BY StoreTypes DEF StoreKept, MessagesTypeOK
<1>1. /\ AppendMessage(th, m) /\ Tick /\ walk' = Followed(msgs', threads')
      /\ UNCHANGED <<registered, draft, history>>
  BY DEF Create
<1>2. nextId \in Ids
  BY <1>1 DEF AppendMessage
<1>3. p \in People /\ S \subseteq People
  BY MessagesAssumption DEF Callers, People
<1>4. meta \in MetaRecords
  <2>1. DOMAIN members \subseteq People
    BY <1>3
  <2>2. members \in [DOMAIN members -> Membership]
    BY <1>0 DEF Joined, Membership
  <2> HIDE DEF members
  <2> QED BY <2>1, <2>2, MetaForm
<1>5. m \in MessageRecords /\ m.read = {} /\ m.delivered = {} /\ m.thread = nextId
  <2>1. to \in Addresses
    BY <1>2 DEF Addresses
  <2>2. p \in Callers
    BY <1>3 DEF Callers
  <2> HIDE DEF to
  <2> QED BY <1>0, <1>2, <2>1, <2>2, NewMessageForm
<1> HIDE DEF meta, m
<1>6. /\ th \in Tables /\ DOMAIN th = DOMAIN threads \union {nextId}
      /\ \A u \in DOMAIN threads : u # nextId => th[u] = threads[u]
  BY <1>0, <1>2, <1>4, MetaStored
<1>7. \A t \in DOMAIN threads : t \in DOMAIN th /\ Stay(threads[t], th[t])
  <2>1. \A t \in DOMAIN threads : t # nextId
    BY <1>0, <1>2, IdsAreNats DEF IdsKept
  <2> QED BY <1>6, <2>1 DEF Stay
<1>8. HasMeta(msgs, th, m.thread)
  BY <1>5, <1>6 DEF HasMeta
<1> HIDE DEF th
<1> QED BY <1>0, <1>1, <1>5, <1>6, <1>7, <1>8, AppendKept

\* Steps that store metadata of a thread and append nothing.
LEMMA MetaKept ==
    ASSUME StoreKept, NEW t, NEW meta \in MetaRecords,
           HasMeta(msgs, threads, t), t \in DOMAIN threads => SameJoined(threads[t], meta),
           threads' = WithMeta(threads, t, meta), clock' \in 0..MaxClock,
           walk' = Followed(msgs, threads'),
           UNCHANGED <<msgs, nextId, registered, draft, history>>
    PROVE  StoreKept' /\ Grows /\ MarksGiven
<1>0. MessagesTypeOK /\ IdsKept /\ RepliesKept /\ threads \in Tables /\ msgs \in Stores
  BY StoreTypes DEF StoreKept
<1>1. t \in Ids
  BY <1>0, StoreForm, TableForm DEF HasMeta
<1>2. /\ threads' \in Tables /\ DOMAIN threads' = DOMAIN threads \union {t}
      /\ KeepsJoined(threads, threads')
  BY <1>0, <1>1, MetaStored, MetaStoredJoined
<1>3. /\ registered' = registered /\ given' = given /\ claimed' = claimed
      /\ again' = again /\ severed' = severed /\ draft' = draft /\ msgs' = msgs /\ nextId' = nextId
  BY DEF history
<1>4. walk' \in WalkRecords /\ WalkKept'
  <2>1. walk \in WalkRecords /\ WalkKept
    BY DEF StoreKept, MessagesTypeOK, WalkRecords
  <2> QED BY <1>3, <2>1, FollowedSound
<1>5. MessagesTypeOK'
  <2>1. DOMAIN threads' \subseteq Ids /\ threads' \in [DOMAIN threads' -> MetaRecords]
    BY <1>2, TableForm
  <2> QED BY <1>0, <1>3, <1>4, <2>1 DEF MessagesTypeOK, WalkRecords
<1>6. IdsKept'
  BY <1>0, <1>2, <1>3 DEF IdsKept, HasMeta
<1>7. RepliesKept'
  BY <1>0, <1>2, <1>3 DEF RepliesKept, HasMeta
<1>8. Grows
  BY <1>0, <1>2, <1>3, NotMarked DEF Grows, Marked
<1>9. MarksGiven
  BY <1>3 DEF MarksGiven
<1> QED BY <1>4, <1>5, <1>6, <1>7, <1>8, <1>9 DEF StoreKept

LEMMA JoinKept ==
    ASSUME StoreKept, NEW p \in Movers, NEW t \in Ids, NEW mute \in {"keep", "mute", "unmute"},
           Join(p, t, mute)
    PROVE  StoreKept' /\ Grows /\ MarksGiven
<1> DEFINE old == Meta(msgs, threads, t)
           joined == WithMember(old, p, clock)
           meta == IF mute = "keep" THEN joined
                   ELSE [joined EXCEPT !.members[p].muted = (mute = "mute")]
<1>0. clock \in 0..MaxClock /\ msgs \in Stores /\ threads \in Tables
  BY StoreTypes DEF StoreKept
<1>1. /\ HasMeta(msgs, threads, t) /\ threads' = WithMeta(threads, t, meta)
      /\ Tick /\ walk' = Followed(msgs, threads')
      /\ UNCHANGED <<msgs, nextId, registered, draft, history>>
  BY DEF Join
<1>2. clock' \in 0..MaxClock
  BY <1>0, <1>1, MessagesAssumption DEF Tick
<1>3. old \in MetaRecords /\ p \in People
  BY <1>0, <1>1, MetaTyped, MessagesAssumption
<1>4. t \in DOMAIN threads => old = threads[t]
  BY DEF Meta
<1> HIDE DEF old
<1>5. joined \in MetaRecords /\ Stay(old, joined) /\ p \in DOMAIN joined.members
  BY <1>0, <1>3, MemberAdded
<1> HIDE DEF joined
<1>6. meta \in MetaRecords /\ SameJoined(joined, meta)
  <2>1. CASE mute = "keep"
    BY <1>5, <2>1 DEF SameJoined
  <2>2. CASE mute # "keep"
    <3>1. (mute = "mute") \in BOOLEAN
      OBVIOUS
    <3> QED BY <1>5, <2>2, <3>1, MemberMuted
  <2> QED BY <2>1, <2>2
<1> HIDE DEF meta
<1>7. SameJoined(old, meta)
  BY <1>5, <1>6 DEF SameJoined, Stay
<1> QED BY <1>1, <1>2, <1>4, <1>6, <1>7, MetaKept

LEMMA LeaveKept ==
    ASSUME StoreKept, NEW p \in Movers, NEW t \in Ids, Leave(p, t)
    PROVE  StoreKept' /\ Grows /\ MarksGiven
<1> DEFINE old == Meta(msgs, threads, t)
           meta == WithoutMember(old, p)
<1>0. clock \in 0..MaxClock /\ msgs \in Stores /\ threads \in Tables
  BY StoreTypes DEF StoreKept
<1>1. /\ HasMeta(msgs, threads, t) /\ threads' = WithMeta(threads, t, meta)
      /\ walk' = Followed(msgs, threads')
      /\ clock' = clock /\ UNCHANGED <<msgs, nextId, registered, draft, history>>
  BY DEF Leave
<1>2. old \in MetaRecords
  BY <1>0, <1>1, MetaTyped
<1>3. t \in DOMAIN threads => old = threads[t]
  BY DEF Meta
<1> HIDE DEF old
<1>4. meta \in MetaRecords /\ SameJoined(old, meta)
  BY <1>2, MemberRemoved
<1> HIDE DEF meta
<1> QED BY <1>0, <1>1, <1>3, <1>4, MetaKept

LEMMA AddMemberKept ==
    ASSUME StoreKept, NEW p \in Senders, NEW t \in Ids, NEW q \in Movers, AddMember(p, t, q)
    PROVE  StoreKept' /\ Grows /\ MarksGiven
<1> DEFINE old == Meta(msgs, threads, t)
           meta == WithMember(old, q, clock)
<1>0. clock \in 0..MaxClock /\ msgs \in Stores /\ threads \in Tables
  BY StoreTypes DEF StoreKept
<1>1. /\ HasMeta(msgs, threads, t) /\ threads' = WithMeta(threads, t, meta)
      /\ Tick /\ walk' = Followed(msgs, threads')
      /\ UNCHANGED <<msgs, nextId, registered, draft, history>>
  BY DEF AddMember, Owned
<1>2. clock' \in 0..MaxClock
  BY <1>0, <1>1, MessagesAssumption DEF Tick
<1>3. old \in MetaRecords /\ q \in People
  BY <1>0, <1>1, MetaTyped, MessagesAssumption
<1>4. t \in DOMAIN threads => old = threads[t]
  BY DEF Meta
<1> HIDE DEF old
<1>5. meta \in MetaRecords /\ Stay(old, meta)
  BY <1>0, <1>3, MemberAdded
<1> HIDE DEF meta
<1>6. SameJoined(old, meta)
  BY <1>5 DEF SameJoined, Stay
<1> QED BY <1>1, <1>2, <1>4, <1>5, <1>6, MetaKept

LEMMA UpdateKept ==
    ASSUME StoreKept, NEW p \in Senders \ {Anonymous}, NEW t \in Ids, NEW public \in BOOLEAN,
           NEW closed \in BOOLEAN, Update(p, t, public, closed)
    PROVE  StoreKept' /\ Grows /\ MarksGiven
<1> DEFINE old == Meta(msgs, threads, t)
           meta == [old EXCEPT !.public = public, !.closed = closed]
           m == NewMessage(p, ToThread(t), t, NoId, clock)
           th == WithMeta(threads, t, meta)
<1>0. /\ clock \in 0..MaxClock /\ msgs \in Stores /\ threads \in Tables
      /\ draft \in [Senders -> Drafts \union {NoDraft}]
  BY StoreTypes DEF StoreKept, MessagesTypeOK
<1>1. /\ HasMeta(msgs, threads, t)
      /\ \/ AppendMessage(th, m) /\ Tick
         \/ threads' = th /\ UNCHANGED <<msgs, nextId, clock>>
      /\ walk' = Followed(msgs', threads') /\ UNCHANGED <<registered, draft, history>>
  BY DEF Update, Owned
<1>2. old \in MetaRecords
  BY <1>0, <1>1, MetaTyped
<1>3. t \in DOMAIN threads => old = threads[t]
  BY DEF Meta
<1> HIDE DEF old
<1>4. meta \in MetaRecords /\ Stay(old, meta)
  BY <1>2, MetaUpdated
<1>5. m \in MessageRecords /\ m.read = {} /\ m.delivered = {} /\ m.thread = t
  <2>1. ToThread(t) \in Addresses
    BY DEF Addresses
  <2>2. p \in Callers
    BY MessagesAssumption
  <2> QED BY <1>0, <2>1, <2>2, NewMessageForm
<1> HIDE DEF meta, m
<1>6. /\ th \in Tables /\ DOMAIN th = DOMAIN threads \union {t} /\ th[t] = meta
      /\ \A u \in DOMAIN threads : u # t => th[u] = threads[u]
  BY <1>0, <1>4, MetaStored
<1>7. CASE AppendMessage(th, m) /\ Tick
  <2>1. \A u \in DOMAIN threads : u \in DOMAIN th /\ Stay(threads[u], th[u])
    BY <1>3, <1>4, <1>6 DEF Stay
  <2>2. HasMeta(msgs, th, m.thread)
    BY <1>5, <1>6 DEF HasMeta
  <2>3. DOMAIN th \subseteq DOMAIN threads \union DOMAIN msgs \union {nextId}
    BY <1>1, <1>6 DEF HasMeta
  <2>4. \A q \in Senders : draft'[q] = draft[q]
    BY <1>1
  <2> HIDE DEF th
  <2> QED
    BY <1>0, <1>1, <1>5, <1>6, <1>7, <2>1, <2>2, <2>3, <2>4, AppendKept
<1>8. CASE threads' = th /\ UNCHANGED <<msgs, nextId, clock>>
  <2>1. SameJoined(old, meta)
    BY <1>4 DEF SameJoined, Stay
  <2>2. walk' = Followed(msgs, threads')
    BY <1>1, <1>8
  <2> QED BY <1>0, <1>1, <1>3, <1>4, <1>8, <2>1, <2>2, MetaKept
<1> QED BY <1>1, <1>7, <1>8

-----------------------------------------------------------------------------
(* The store's other steps.                                                   *)

LEMMA BeginPostKept ==
    ASSUME StoreKept, NEW p \in Senders, NEW to \in Recipients \union {Unset},
           NEW parent \in Ids \union {NoId}, NEW threadId \in Ids \union {NoId},
           BeginPost(p, to, parent, threadId)
    PROVE  StoreKept' /\ Grows /\ MarksGiven
<1> DEFINE d == Addressed(p, to, parent, threadId)
<1>0. MessagesTypeOK /\ IdsKept /\ RepliesKept /\ WalkKept
  BY DEF StoreKept
<1>1. /\ d \in Drafts
      /\ d.thread = NoId \/ HasMeta(msgs, threads, d.thread) \/ d.thread \in severed
  BY DraftSound DEF BeginPost
<1>2. /\ draft' = [draft EXCEPT ![p] = d]
      /\ msgs' = msgs /\ threads' = threads /\ nextId' = nextId /\ clock' = clock
      /\ registered' = registered /\ given' = given /\ claimed' = claimed
      /\ again' = again /\ severed' = severed /\ walk' = walk
  BY DEF BeginPost, stored, history
<1> HIDE DEF d
<1>3. draft \in [Senders -> Drafts \union {NoDraft}]
  BY <1>0 DEF MessagesTypeOK
<1>4. MessagesTypeOK'
  <2>1. draft' \in [Senders -> Drafts \union {NoDraft}]
    BY <1>1, <1>2, <1>3
  <2> QED BY <1>0, <1>2, <2>1 DEF MessagesTypeOK
<1>5. RepliesKept'
  <2>1. \A q \in Senders : q # p => draft'[q] = draft[q]
    BY <1>2, <1>3
  <2>2. draft'[p] = d
    BY <1>2, <1>3
  <2> QED BY <1>0, <1>1, <1>2, <2>1, <2>2 DEF RepliesKept, HasMeta
<1>6. IdsKept' /\ WalkKept'
  BY <1>0, <1>2 DEF IdsKept, WalkKept, There
<1>7. Grows
  BY <1>2, NotMarked, NothingJoined DEF Grows, Marked
<1>8. MarksGiven
  BY <1>2 DEF MarksGiven
<1> QED BY <1>4, <1>5, <1>6, <1>7, <1>8 DEF StoreKept

LEMMA RegisterKept ==
    ASSUME StoreKept, NEW a \in Receivers, Register(a)
    PROVE  StoreKept' /\ Grows /\ MarksGiven
<1>0. MessagesTypeOK /\ IdsKept /\ RepliesKept /\ WalkKept
  BY DEF StoreKept
<1>1. /\ registered[a] = 0 /\ registered' = [registered EXCEPT ![a] = clock]
      /\ Tick /\ msgs' = msgs /\ threads' = threads /\ nextId' = nextId /\ draft' = draft
      /\ given' = given /\ claimed' = claimed
      /\ again' = again /\ severed' = severed /\ walk' = walk
  BY DEF Register, history
<1>2. /\ registered \in [Agents -> 0..MaxClock] /\ clock \in 0..MaxClock
      /\ clock' \in 0..MaxClock /\ a \in Agents
  BY <1>0, <1>1, MessagesAssumption DEF MessagesTypeOK, Tick
<1>3. /\ registered' \in [Agents -> 0..MaxClock]
      /\ \A b \in Agents : registered[b] > 0 => registered'[b] = registered[b]
  BY <1>1, <1>2
<1>4. MessagesTypeOK'
  BY <1>0, <1>1, <1>2, <1>3 DEF MessagesTypeOK
<1>5. IdsKept' /\ WalkKept' /\ RepliesKept'
  BY <1>0, <1>1 DEF IdsKept, WalkKept, There, RepliesKept, HasMeta
<1>6. Grows
  BY <1>1, <1>3, NotMarked, NothingJoined DEF Grows, Marked
<1>7. MarksGiven
  BY <1>1 DEF MarksGiven
<1> QED BY <1>4, <1>5, <1>6, <1>7 DEF StoreKept

LEMMA DeleteKept ==
    ASSUME StoreKept, NEW i \in Ids, Delete(i)
    PROVE  StoreKept' /\ Grows /\ MarksGiven
<1>0. MessagesTypeOK /\ IdsKept /\ RepliesKept /\ WalkKept
  BY DEF StoreKept
<1>1. /\ msgs' = [j \in DOMAIN msgs \ {i} |-> msgs[j]] /\ walk' = Followed(msgs', threads')
      /\ threads' = threads /\ nextId' = nextId /\ clock' = clock /\ registered' = registered
      /\ draft' = draft /\ given' = given /\ claimed' = claimed /\ again' = again
      /\ severed' \in {severed, severed \union {i}}
      /\ (/\ i \notin DOMAIN threads
          /\ \/ \E p \in Senders : draft[p] # NoDraft /\ draft[p].thread = i
             \/ \E j \in DOMAIN msgs : msgs[j].thread = i /\ msgs[j].from = Anonymous)
            => i \in severed'
  BY DEF Delete, Followed
<1>2. DOMAIN msgs' = DOMAIN msgs \ {i} /\ \A j \in DOMAIN msgs' : msgs'[j] = msgs[j]
  BY <1>1
<1>3. walk' \in WalkRecords /\ WalkKept'
  <2>1. walk \in WalkRecords /\ WalkKept
    BY <1>0 DEF MessagesTypeOK, WalkRecords
  <2> QED BY <1>1, <2>1, FollowedSound
<1>4. MessagesTypeOK'
  <2>1. DOMAIN msgs' \subseteq Ids /\ msgs' \in [DOMAIN msgs' -> MessageRecords]
    BY <1>0, <1>1 DEF MessagesTypeOK
  <2> QED BY <1>0, <1>1, <1>3, <2>1 DEF MessagesTypeOK, WalkRecords
<1>5. IdsKept'
  BY <1>0, <1>1, <1>2 DEF IdsKept
<1>6. RepliesKept'
  <2>1. ASSUME NEW j \in DOMAIN msgs'
        PROVE  LET t == msgs'[j].thread
               IN \/ t = NoId \/ t \in DOMAIN threads' \/ t \in severed'
                  \/ t \in DOMAIN msgs' /\ msgs'[j].from = Anonymous
    BY <1>0, <1>1, <1>2 DEF RepliesKept
  <2>2. ASSUME NEW p \in Senders
        PROVE  LET t == draft'[p].thread
               IN t = NoId \/ HasMeta(msgs', threads', t) \/ t \in severed'
    <3>1. CASE draft[p] = NoDraft
      BY <1>1, <3>1 DEF NoDraft
    <3>2. CASE draft[p] # NoDraft
      BY <1>0, <1>1, <1>2, <3>2 DEF RepliesKept, HasMeta
    <3> QED BY <3>1, <3>2
  <2> QED BY <2>1, <2>2 DEF RepliesKept
<1>7. Grows
  BY <1>1, <1>2, NotMarked, NothingJoined DEF Grows, Marked
<1>8. MarksGiven
  BY <1>2 DEF MarksGiven
<1> QED BY <1>3, <1>4, <1>5, <1>6, <1>7, <1>8 DEF StoreKept

\* Steps that only mark messages and give them out.
LEMMA MarksKept ==
    ASSUME StoreKept, msgs' \in Stores, Marked(msgs, msgs'),
           given' \in [Ids -> SUBSET Receivers], \A i \in Ids : given[i] \subseteq given'[i],
           claimed' \in [Ids -> SUBSET Receivers], again' \subseteq Ids \X Receivers,
           walk' \in WalkRecords, WalkKept',
           UNCHANGED <<threads, nextId, clock, registered, draft, severed>>
    PROVE  StoreKept' /\ Grows
<1>0. MessagesTypeOK /\ IdsKept /\ RepliesKept
  BY DEF StoreKept
<1>1. /\ threads' = threads /\ nextId' = nextId /\ clock' = clock
      /\ registered' = registered /\ draft' = draft /\ severed' = severed
  OBVIOUS
<1>2. MessagesTypeOK'
  <2>1. DOMAIN msgs' \subseteq Ids /\ msgs' \in [DOMAIN msgs' -> MessageRecords]
    BY StoreForm
  <2> QED BY <1>0, <1>1, <2>1 DEF MessagesTypeOK, WalkRecords
<1>3. IdsKept'
  BY <1>0, <1>1 DEF IdsKept, Marked
<1>4. RepliesKept'
  BY <1>0, <1>1 DEF RepliesKept, Marked, KeptMessage, SameMessage, HasMeta
<1>5. Grows
  BY <1>1, NothingJoined DEF Grows, Marked
<1> QED BY <1>2, <1>3, <1>4, <1>5 DEF StoreKept

\* The walk goes on where it was.
LEMMA WalkStays ==
    ASSUME StoreKept, Marked(msgs, msgs'), UNCHANGED <<threads, walk>>
    PROVE  walk' \in WalkRecords /\ WalkKept'
<1>1. walk \in WalkRecords /\ WalkKept /\ DOMAIN msgs \subseteq Ids
  BY DEF StoreKept, MessagesTypeOK, WalkRecords
<1>2. walk.kind # "none" => There(msgs', threads, walk) = There(msgs, threads, walk)
  BY <1>1, SameThere DEF WalkRecords
<1> QED BY <1>1, <1>2 DEF WalkKept

LEMMA GivesForm ==
    ASSUME given \in [Ids -> SUBSET Receivers], NEW S, NEW a \in Receivers, Gives(S, a)
    PROVE  /\ given' \in [Ids -> SUBSET Receivers]
           /\ \A i \in Ids : given[i] \subseteq given'[i]
           /\ \A i \in Ids : i \in S => a \in given'[i]
BY DEF Gives

\* The same, when the marks say who has read or was told of a message.
LEMMA OthersMarked ==
    ASSUME StoreKept, msgs' \in Stores, Marked(msgs, msgs'),
           \A i \in DOMAIN msgs : msgs'[i].delivered = msgs[i].delivered,
           UNCHANGED <<threads, nextId, clock, registered, draft, history, walk>>
    PROVE  StoreKept' /\ Grows /\ MarksGiven
<1>1. /\ given' = given /\ claimed' = claimed /\ again' = again /\ severed' = severed
      /\ threads' = threads /\ walk' = walk
  BY DEF history
<1>2. walk' \in WalkRecords /\ WalkKept'
  BY <1>1, WalkStays
<1>3. /\ given \in [Ids -> SUBSET Receivers] /\ claimed \in [Ids -> SUBSET Receivers]
      /\ again \subseteq Ids \X Receivers
  BY DEF StoreKept, MessagesTypeOK
<1>4. StoreKept' /\ Grows
  BY <1>1, <1>2, <1>3, MarksKept
<1>5. MarksGiven
  BY DEF MarksGiven, Marked
<1> QED BY <1>4, <1>5

LEMMA ListKept ==
    ASSUME StoreKept, NEW a \in Receivers, NEW filter, List(a, filter)
    PROVE  StoreKept' /\ Grows /\ MarksGiven
<1> DEFINE page == Newest(Inbox(a, filter), PageLimit)
           acked == {i \in page : /\ IsFor(msgs[i], a, threads)
                                  /\ Eligible(msgs[i], a, threads, registered[a])}
<1>1. /\ msgs' = MarkedDelivered(msgs, acked, a) /\ Gives(page, a)
      /\ threads' = threads /\ nextId' = nextId /\ clock' = clock
      /\ registered' = registered /\ draft' = draft /\ severed' = severed
      /\ claimed' = claimed /\ again' = again /\ walk' = walk
  BY DEF List
<1>2. acked \subseteq page
  OBVIOUS
<1> HIDE DEF acked, page
<1>3. /\ msgs \in Stores /\ DOMAIN msgs \subseteq Ids /\ given \in [Ids -> SUBSET Receivers]
      /\ claimed \in [Ids -> SUBSET Receivers] /\ again \subseteq Ids \X Receivers
  BY StoreTypes DEF StoreKept, MessagesTypeOK
<1>4. /\ msgs' \in Stores /\ Marked(msgs, msgs')
      /\ \A i \in DOMAIN msgs : msgs'[i].delivered # msgs[i].delivered
            => i \in acked /\ msgs'[i].delivered = msgs[i].delivered \union {a}
  BY <1>1, <1>3, DeliveredMarks
<1>5. /\ given' \in [Ids -> SUBSET Receivers] /\ \A i \in Ids : given[i] \subseteq given'[i]
      /\ \A i \in Ids : i \in page => a \in given'[i]
  BY <1>1, <1>3, GivesForm
<1>6. walk' \in WalkRecords /\ WalkKept'
  BY <1>1, <1>4, WalkStays
<1>7. StoreKept' /\ Grows
  BY <1>1, <1>3, <1>4, <1>5, <1>6, MarksKept
<1>8. MarksGiven
  BY <1>2, <1>3, <1>4, <1>5 DEF MarksGiven, Marked
<1> QED BY <1>7, <1>8

LEMMA ReadKept ==
    ASSUME StoreKept, NEW a \in Receivers, NEW i, Read(a, i)
    PROVE  StoreKept' /\ Grows /\ MarksGiven
<1>1. msgs' = MarkedRead(msgs, {i}, a) /\ msgs \in Stores
  BY StoreTypes DEF Read, StoreKept
<1> QED BY <1>1, ReadMarks, OthersMarked DEF Read

LEMMA ReadAllKept ==
    ASSUME StoreKept, NEW a \in Receivers, NEW before, ReadAll(a, before)
    PROVE  StoreKept' /\ Grows /\ MarksGiven
<1> DEFINE S == {i \in DOMAIN msgs : IsFor(msgs[i], a, threads) /\ i < before}
<1>1. msgs' = MarkedRead(msgs, S, a) /\ msgs \in Stores
  BY StoreTypes DEF ReadAll, StoreKept
<1> HIDE DEF S
<1> QED BY <1>1, ReadMarks, OthersMarked DEF ReadAll

LEMMA NotifyKept ==
    ASSUME StoreKept, NEW a \in Receivers, Notify(a)
    PROVE  StoreKept' /\ Grows /\ MarksGiven
<1> DEFINE S == Newest(Unnotified(msgs, threads, a, registered[a]), PageLimit)
<1>1. msgs' = MarkedNotified(msgs, S, a) /\ msgs \in Stores
  BY StoreTypes DEF Notify, StoreKept
<1> HIDE DEF S
<1> QED BY <1>1, NotifiedMarks, OthersMarked DEF Notify

-----------------------------------------------------------------------------
(* Pages of a thread or an inbox.                                              *)

LEMMA ReadPageForm ==
    ASSUME StoreKept, NEW p, NEW S, ReadPage(p, S)
    PROVE  /\ msgs' \in Stores /\ Marked(msgs, msgs')
           /\ given' \in [Ids -> SUBSET Receivers] /\ \A i \in Ids : given[i] \subseteq given'[i]
           /\ MarksGiven
<1>1. /\ msgs \in Stores /\ DOMAIN msgs \subseteq Ids /\ given \in [Ids -> SUBSET Receivers]
  BY StoreTypes DEF StoreKept, MessagesTypeOK
<1>2. CASE p \in Receivers
  <2> DEFINE T == {i \in S : IsFor(msgs[i], p, threads)}
  <2>1. msgs' = MarkedDelivered(msgs, T, p) /\ Gives(S, p)
    BY <1>2 DEF ReadPage
  <2>2. T \subseteq S
    OBVIOUS
  <2> HIDE DEF T
  <2>3. /\ msgs' \in Stores /\ Marked(msgs, msgs')
        /\ \A i \in DOMAIN msgs : msgs'[i].delivered # msgs[i].delivered
              => i \in T /\ msgs'[i].delivered = msgs[i].delivered \union {p}
    BY <1>1, <1>2, <2>1, DeliveredMarks
  <2>4. /\ given' \in [Ids -> SUBSET Receivers] /\ \A i \in Ids : given[i] \subseteq given'[i]
        /\ \A i \in Ids : i \in S => p \in given'[i]
    BY <1>1, <1>2, <2>1, GivesForm
  <2>5. MarksGiven
    BY <1>1, <2>2, <2>3, <2>4 DEF MarksGiven, Marked
  <2> QED BY <2>3, <2>4, <2>5
<1>3. CASE p \notin Receivers
  <2>1. msgs' = msgs /\ given' = given
    BY <1>3 DEF ReadPage
  <2> QED BY <1>1, <2>1, NotMarked DEF MarksGiven
<1> QED BY <1>2, <1>3

\* The ids of S that are not on the page are below or above it.
Part(S, page) ==
    /\ page \subseteq S /\ page # {}
    /\ \A i \in S \ page : (\A x \in page : i < x) \/ (\A x \in page : i > x)

LEMMA WindowPart ==
    ASSUME NEW S \in SUBSET Ids, NEW k \in Ids, NEW how \in {"newest", "around"},
           S # {}, how = "around" => k \in S
    PROVE  Part(S, Window(S, PageLimit, how, k))
<1>0. PageLimit \in Nat /\ PageLimit > 0
  BY MessagesAssumption
<1>1. CASE how = "newest"
  <2>1. Window(S, PageLimit, how, k) = Newest(S, PageLimit)
    BY <1>1 DEF Window
  <2> QED BY <1>0, <2>1, NewestAbove DEF Part
<1>2. CASE how = "around"
  <2> DEFINE half == PageLimit \div 2
             from == Newest(Below(S, k), half)
             T == {i \in S : i >= k \/ i \in from}
             page == Oldest(T, PageLimit)
  <2>1. Window(S, PageLimit, how, k) = page
    BY <1>2 DEF Window
  <2>2. half \in Nat /\ Below(S, k) \subseteq Ids
    BY <1>0 DEF Below
  <2>3. /\ from \subseteq Below(S, k)
        /\ \A i \in Below(S, k) \ from, x \in from : i < x
    BY <2>2, NewestAbove
  <2> HIDE DEF from
  <2>4. k \in T /\ T \subseteq S
    BY <1>2, IdsAreNats
  <2>5. \A i \in S \ T, x \in T : i < x
    <3> SUFFICES ASSUME NEW i \in S \ T, NEW x \in T PROVE i < x
      OBVIOUS
    <3>0. i \in Int /\ x \in Int /\ k \in Int
      BY IdsAreNats
    <3>1. i \in Below(S, k) /\ i \notin from
      BY <3>0 DEF Below
    <3>2. CASE x \in from
      BY <2>3, <3>1, <3>2
    <3>3. CASE x >= k
      BY <3>0, <3>1, <3>3 DEF Below
    <3> QED BY <3>2, <3>3
  <2> HIDE DEF T
  <2>6. /\ page \subseteq T /\ page # {}
        /\ \A i \in T \ page, x \in page : i > x
    BY <1>0, <2>4, OldestBelow
  <2> HIDE DEF page
  <2> QED BY <2>1, <2>4, <2>5, <2>6 DEF Part
<1> QED BY <1>1, <1>2

\* What the links of a page leave out is on it.
LEMMA PartLinked ==
    ASSUME NEW S \in SUBSET Ids, NEW page, Part(S, page), NEW i \in S
    PROVE  \/ i \in page
           \/ NextBefore(S, page) # NoId /\ i < NextBefore(S, page)
           \/ NextAfter(S, page) # NoId /\ i > NextAfter(S, page)
<1>1. CASE i \in page
  BY <1>1
<1>2. CASE \A x \in page : i < x
  BY <1>2, LinkBefore DEF Part
<1>3. CASE \A x \in page : i > x
  BY <1>3, LinkAfter DEF Part
<1> QED BY <1>1, <1>2, <1>3 DEF Part

\* The next page before k, and the one after.
LEMMA BeforeLinked ==
    ASSUME NEW S \in SUBSET Ids, NEW k \in Ids, NEW i \in S, i < k
    PROVE  LET page == Newest(Below(S, k), PageLimit) IN
           \/ i \in page
           \/ NextBefore(S, page) # NoId /\ i < NextBefore(S, page)
<1> DEFINE page == Newest(Below(S, k), PageLimit)
<1>1. i \in Below(S, k) /\ Below(S, k) \subseteq S
  BY DEF Below
<1>2. PageLimit \in Nat /\ PageLimit > 0
  BY MessagesAssumption
<1>3. /\ page \subseteq Below(S, k) /\ page # {}
      /\ \A j \in Below(S, k) \ page, x \in page : j < x
  BY <1>1, <1>2, NewestAbove
<1> HIDE DEF page
<1>4. CASE i \notin page
  <2>1. \A x \in page : i < x
    BY <1>1, <1>3, <1>4
  <2> QED BY <1>1, <1>3, <2>1, LinkBefore DEF page
<1> QED BY <1>4 DEF page

LEMMA AfterLinked ==
    ASSUME NEW S \in SUBSET Ids, NEW k \in Ids, NEW i \in S, i > k
    PROVE  LET page == Oldest(Above(S, k), PageLimit) IN
           \/ i \in page
           \/ NextAfter(S, page) # NoId /\ i > NextAfter(S, page)
<1> DEFINE page == Oldest(Above(S, k), PageLimit)
<1>1. i \in Above(S, k) /\ Above(S, k) \subseteq S
  BY DEF Above
<1>2. PageLimit \in Nat /\ PageLimit > 0
  BY MessagesAssumption
<1>3. /\ page \subseteq Above(S, k) /\ page # {}
      /\ \A j \in Above(S, k) \ page, x \in page : j > x
  BY <1>1, <1>2, OldestBelow
<1> HIDE DEF page
<1>4. CASE i \notin page
  <2>1. \A x \in page : i > x
    BY <1>1, <1>3, <1>4
  <2> QED BY <1>1, <1>3, <2>1, LinkAfter DEF page
<1> QED BY <1>4 DEF page

LEMMA PageInside ==
    ASSUME NEW S \in SUBSET Ids, NEW k \in Ids,
           NEW how \in {"newest", "around", "before", "after"}, how = "around" => k \in S
    PROVE  Window(S, PageLimit, how, k) \subseteq S
<1>0. PageLimit \in Nat /\ Below(S, k) \subseteq S /\ Above(S, k) \subseteq S
  BY MessagesAssumption DEF Below, Above
<1>1. CASE how = "newest"
  BY <1>0, <1>1, NewestAbove DEF Window
<1>2. CASE how = "before"
  BY <1>0, <1>2, NewestAbove DEF Window
<1>3. CASE how = "after"
  BY <1>0, <1>3, OldestBelow DEF Window
<1>4. CASE how = "around"
  BY <1>4, WindowPart DEF Part
<1> QED BY <1>1, <1>2, <1>3, <1>4

\* What a turn of the walk changes; the links are the caller's to follow.
LEMMA TurnForm ==
    ASSUME StoreKept, NEW p \in People, NEW t, NEW k \in Ids,
           NEW how \in {"newest", "around", "before", "after"},
           how = "around" => k \in ThreadMessages(p, t),
           NEW links \in WalkRecords, links.kind = "thread", links.of = t, links.by = p,
           Turn(p, t, how, k, links)
    PROVE  LET all == ThreadMessages(p, t)
               page == Window(all, PageLimit, how, k)
           IN /\ all \subseteq Ids /\ page \subseteq all
              /\ There(msgs', threads', walk') = all
              /\ walk' \in WalkRecords /\ walk'.kind = "thread"
              /\ walk'.got = links.got \union page /\ walk'.must = links.must
              /\ walk'.older = IF how = "after" THEN links.older ELSE NextBefore(all, page)
              /\ walk'.newer = IF how = "before" THEN links.newer ELSE NextAfter(all, page)
              /\ WalkKept' => StoreKept' /\ Grows /\ MarksGiven
<1> DEFINE all == ThreadMessages(p, t)
           page == Window(all, PageLimit, how, k)
           older == IF how = "after" THEN links.older ELSE NextBefore(all, page)
           newer == IF how = "before" THEN links.newer ELSE NextAfter(all, page)
<1>1. /\ ReadPage(p, page)
      /\ walk' = [links EXCEPT !.got = @ \union page, !.older = older, !.newer = newer]
      /\ threads' = threads /\ nextId' = nextId /\ clock' = clock
      /\ registered' = registered /\ draft' = draft /\ severed' = severed
      /\ claimed' = claimed /\ again' = again
  BY DEF Turn
<1>2. /\ DOMAIN msgs \subseteq Ids /\ claimed \in [Ids -> SUBSET Receivers]
      /\ again \subseteq Ids \X Receivers
  BY DEF StoreKept, MessagesTypeOK
<1>3. all \subseteq Ids
  BY <1>2 DEF ThreadMessages, Group
<1>4. page \subseteq all
  BY <1>3, PageInside
<1>5. older \in Ids \union {NoId} /\ newer \in Ids \union {NoId}
  <2>1. links.older \in Ids \union {NoId} /\ links.newer \in Ids \union {NoId}
    BY DEF WalkRecords
  <2>2. NextBefore(all, page) \in Ids \union {NoId} /\ NextAfter(all, page) \in Ids \union {NoId}
    BY <1>3, <1>4, LinkType
  <2> QED BY <2>1, <2>2
<1>6. /\ msgs' \in Stores /\ Marked(msgs, msgs')
      /\ given' \in [Ids -> SUBSET Receivers] /\ \A i \in Ids : given[i] \subseteq given'[i]
      /\ MarksGiven
  BY <1>1, ReadPageForm
<1> HIDE DEF older, newer, page
<1>7. /\ walk' \in WalkRecords /\ walk'.kind = "thread" /\ walk'.of = t /\ walk'.by = p
      /\ walk'.got = links.got \union page /\ walk'.must = links.must
      /\ walk'.older = older /\ walk'.newer = newer
  BY <1>1, <1>3, <1>4, <1>5 DEF WalkRecords
<1>8. There(msgs', threads', walk') = all
  <2>1. There(msgs', threads, walk') = There(msgs, threads, walk')
    BY <1>2, <1>6, <1>7, SameThere
  <2>2. There(msgs, threads, walk') = all
    BY <1>7 DEF There, ThreadMessages
  <2> QED BY <1>1, <2>1, <2>2
<1>9. WalkKept' => StoreKept' /\ Grows /\ MarksGiven
  BY <1>1, <1>2, <1>6, <1>7, MarksKept
<1> HIDE DEF all
<1> QED BY <1>3, <1>4, <1>7, <1>8, <1>9 DEF older, newer, page, all

LEMMA OpenKept ==
    ASSUME StoreKept, NEW p \in Readers, NEW t \in Ids, NEW how \in {"newest", "around"},
           NEW k \in Ids, Open(p, t, how, k)
    PROVE  StoreKept' /\ Grows /\ MarksGiven
<1> DEFINE all == ThreadMessages(p, t)
           page == Window(all, PageLimit, how, k)
           links == Begun("thread", t, p, all)
<1>1. /\ how = "around" => k \in all
      /\ all # {} /\ Turn(p, t, how, k, links)
  BY DEF Open
<1>2. p \in People /\ all \subseteq Ids
  BY MessagesAssumption DEF StoreKept, MessagesTypeOK, ThreadMessages, Group
<1>3. /\ links \in WalkRecords /\ links.kind = "thread" /\ links.of = t /\ links.by = p
      /\ links.must = all
  <2> HIDE DEF all
  <2> QED BY <1>2 DEF Begun, NoWalk, WalkRecords
<1> HIDE DEF links
<1>4. /\ There(msgs', threads', walk') = all /\ walk'.kind = "thread"
      /\ walk'.must = all /\ page \subseteq walk'.got
      /\ walk'.older = NextBefore(all, page) /\ walk'.newer = NextAfter(all, page)
      /\ WalkKept' => StoreKept' /\ Grows /\ MarksGiven
  BY <1>1, <1>2, <1>3, TurnForm
<1>5. Part(all, page)
  BY <1>1, <1>2, WindowPart
<1> HIDE DEF all, page
<1>6. WalkKept'
  BY <1>2, <1>4, <1>5, PartLinked DEF WalkKept
<1> QED BY <1>4, <1>6

LEMMA OpenOlderKept ==
    ASSUME StoreKept, OpenOlder
    PROVE  StoreKept' /\ Grows /\ MarksGiven
<1> DEFINE all == ThreadMessages(walk.by, walk.of)
           page == Window(all, PageLimit, "before", walk.older)
<1>1. /\ walk.kind = "thread" /\ walk.older # NoId
      /\ Turn(walk.by, walk.of, "before", walk.older, walk)
  BY DEF OpenOlder
<1>2. walk \in WalkRecords /\ WalkKept /\ walk.by \in People /\ walk.older \in Ids
  BY <1>1 DEF StoreKept, MessagesTypeOK, WalkRecords
<1>3. /\ all \subseteq Ids /\ There(msgs', threads', walk') = all /\ walk'.kind = "thread"
      /\ walk'.must = walk.must /\ walk'.got = walk.got \union page
      /\ walk'.older = NextBefore(all, page) /\ walk'.newer = walk.newer
      /\ WalkKept' => StoreKept' /\ Grows /\ MarksGiven
  BY <1>1, <1>2, TurnForm
<1>4. page = Newest(Below(all, walk.older), PageLimit)
  BY DEF Window
<1>5. There(msgs, threads, walk) = all
  BY <1>1 DEF There, ThreadMessages
<1> HIDE DEF all, page
<1>6. ASSUME NEW i \in walk.must
      PROVE  /\ i \in all
             /\ \/ i \in walk.got \union page
                \/ NextBefore(all, page) # NoId /\ i < NextBefore(all, page)
                \/ walk.newer # NoId /\ i > walk.newer
  <2>1. i \in all
    BY <1>1, <1>2, <1>5 DEF WalkKept
  <2>2. CASE i < walk.older
    BY <1>2, <1>3, <1>4, <2>1, <2>2, BeforeLinked
  <2>3. CASE ~(i < walk.older)
    BY <1>1, <1>2, <2>1, <2>3 DEF WalkKept
  <2> QED BY <2>1, <2>2, <2>3
<1>7. WalkKept'
  BY <1>3, <1>6 DEF WalkKept
<1> QED BY <1>3, <1>7

LEMMA OpenNewerKept ==
    ASSUME StoreKept, OpenNewer
    PROVE  StoreKept' /\ Grows /\ MarksGiven
<1> DEFINE all == ThreadMessages(walk.by, walk.of)
           page == Window(all, PageLimit, "after", walk.newer)
<1>1. /\ walk.kind = "thread" /\ walk.newer # NoId
      /\ Turn(walk.by, walk.of, "after", walk.newer, walk)
  BY DEF OpenNewer
<1>2. walk \in WalkRecords /\ WalkKept /\ walk.by \in People /\ walk.newer \in Ids
  BY <1>1 DEF StoreKept, MessagesTypeOK, WalkRecords
<1>3. /\ all \subseteq Ids /\ There(msgs', threads', walk') = all /\ walk'.kind = "thread"
      /\ walk'.must = walk.must /\ walk'.got = walk.got \union page
      /\ walk'.newer = NextAfter(all, page) /\ walk'.older = walk.older
      /\ WalkKept' => StoreKept' /\ Grows /\ MarksGiven
  BY <1>1, <1>2, TurnForm
<1>4. page = Oldest(Above(all, walk.newer), PageLimit)
  BY DEF Window
<1>5. There(msgs, threads, walk) = all
  BY <1>1 DEF There, ThreadMessages
<1> HIDE DEF all, page
<1>6. ASSUME NEW i \in walk.must
      PROVE  /\ i \in all
             /\ \/ i \in walk.got \union page
                \/ NextAfter(all, page) # NoId /\ i > NextAfter(all, page)
                \/ walk.older # NoId /\ i < walk.older
  <2>1. i \in all
    BY <1>1, <1>2, <1>5 DEF WalkKept
  <2>2. CASE i > walk.newer
    BY <1>2, <1>3, <1>4, <2>1, <2>2, AfterLinked
  <2>3. CASE ~(i > walk.newer)
    BY <1>1, <1>2, <2>1, <2>3 DEF WalkKept
  <2> QED BY <2>1, <2>2, <2>3
<1>7. WalkKept'
  BY <1>3, <1>6 DEF WalkKept
<1> QED BY <1>3, <1>7

LEMMA InboxIds ==
    ASSUME StoreKept, NEW h, NEW view
    PROVE  InboxCursors(msgs, threads, h, view) \subseteq Ids
<1>1. DOMAIN msgs \subseteq Ids
  BY DEF StoreKept, MessagesTypeOK
<1>2. \A t \in {ThreadKey(msgs, i) : i \in DOMAIN msgs} : Max(Group(msgs, t)) \in Ids
  <2> TAKE t \in {ThreadKey(msgs, i) : i \in DOMAIN msgs}
  <2>1. Group(msgs, t) \subseteq Ids /\ Group(msgs, t) # {}
    BY <1>1 DEF Group
  <2> QED BY <2>1, GreatestId
<1>3. InboxThreads(msgs, threads, h, view) \subseteq {ThreadKey(msgs, i) : i \in DOMAIN msgs}
  BY DEF InboxThreads
<1> QED BY <1>2, <1>3 DEF InboxCursors, InboxCursor

\* The inbox is paged from its newest thread down.
LEMMA TurnInboxKept ==
    ASSUME StoreKept, NEW h \in People, NEW view \in {"all", "mine"}, NEW older,
           NEW links \in WalkRecords, links.kind = view, links.by = h, links.newer = NoId,
           TurnInbox(h, view, older, links),
           older \subseteq InboxCursors(msgs, threads, h, view),
           LET all == InboxCursors(msgs, threads, h, view)
               page == Newest(older, PageLimit)
           IN \A i \in links.must :
                 /\ i \in all
                 /\ \/ i \in links.got \union page
                    \/ NextBefore(all, page) # NoId /\ i < NextBefore(all, page)
    PROVE  StoreKept' /\ Grows /\ MarksGiven
<1> DEFINE all == InboxCursors(msgs, threads, h, view)
           page == Newest(older, PageLimit)
           link == NextBefore(all, page)
<1>1. /\ walk' = [links EXCEPT !.got = @ \union page, !.older = link]
      /\ msgs' = msgs /\ threads' = threads
      /\ UNCHANGED <<nextId, clock, registered, draft, history>>
  BY DEF TurnInbox, stored
<1>2. all \subseteq Ids /\ page \subseteq all
  <2>1. all \subseteq Ids
    BY InboxIds
  <2> QED BY <2>1 DEF Newest
<1>3. link \in Ids \union {NoId}
  BY <1>2, LinkType
<1>4. \A i \in links.must : /\ i \in all
                            /\ i \in links.got \union page \/ (link # NoId /\ i < link)
  OBVIOUS
<1> HIDE DEF page, link
<1>5. /\ walk' \in WalkRecords /\ walk'.kind = view /\ walk'.by = h
      /\ walk'.got = links.got \union page /\ walk'.must = links.must
      /\ walk'.older = link /\ walk'.newer = NoId
  BY <1>1, <1>2, <1>3 DEF WalkRecords
<1>6. There(msgs', threads', walk') = all
  BY <1>1, <1>5 DEF There
<1> HIDE DEF all
<1>7. WalkKept'
  BY <1>4, <1>5, <1>6 DEF WalkKept
<1>8. /\ given' = given /\ claimed' = claimed /\ again' = again /\ severed' = severed
  BY <1>1 DEF history
<1>9. /\ given \in [Ids -> SUBSET Receivers] /\ claimed \in [Ids -> SUBSET Receivers]
      /\ again \subseteq Ids \X Receivers /\ msgs \in Stores
  BY StoreTypes DEF StoreKept, MessagesTypeOK
<1>10. StoreKept' /\ Grows
  BY <1>1, <1>5, <1>7, <1>8, <1>9, NotMarked, MarksKept
<1>11. MarksGiven
  BY <1>1 DEF MarksGiven
<1> QED BY <1>10, <1>11

LEMMA OpenInboxKept ==
    ASSUME StoreKept, NEW h \in Humans, NEW view \in {"all", "mine"}, OpenInbox(h, view)
    PROVE  StoreKept' /\ Grows /\ MarksGiven
<1> DEFINE all == InboxCursors(msgs, threads, h, view)
           page == Newest(all, PageLimit)
           links == Begun(view, NoId, h, all)
<1>1. all # {} /\ TurnInbox(h, view, all, links) /\ h \in People
  BY DEF OpenInbox, People
<1>2. all \subseteq Ids
  BY InboxIds
<1>3. /\ links \in WalkRecords /\ links.kind = view /\ links.by = h /\ links.newer = NoId
      /\ links.must = all /\ links.got = {}
  <2> HIDE DEF all
  <2> QED BY <1>1, <1>2 DEF Begun, NoWalk, WalkRecords
<1>4. \A i \in all : i \in page \/ (NextBefore(all, page) # NoId /\ i < NextBefore(all, page))
  <2>1. PageLimit \in Nat /\ PageLimit > 0
    BY MessagesAssumption
  <2>2. /\ page \subseteq all /\ page # {}
        /\ \A i \in all \ page, x \in page : i < x
    BY <1>1, <1>2, <2>1, NewestAbove
  <2> HIDE DEF all, page
  <2> QED BY <1>2, <2>2, LinkBefore
<1> HIDE DEF links
<1> QED BY <1>1, <1>3, <1>4, TurnInboxKept

LEMMA InboxOlderKept ==
    ASSUME StoreKept, InboxOlder
    PROVE  StoreKept' /\ Grows /\ MarksGiven
<1> DEFINE all == InboxCursors(msgs, threads, walk.by, walk.kind)
           older == Below(all, walk.older)
           page == Newest(older, PageLimit)
<1>1. /\ walk.kind \in {"all", "mine"} /\ walk.older # NoId
      /\ TurnInbox(walk.by, walk.kind, older, walk)
  BY DEF InboxOlder
<1>2. walk \in WalkRecords /\ WalkKept /\ walk.by \in People /\ walk.older \in Ids
  BY <1>1 DEF StoreKept, MessagesTypeOK, WalkRecords
<1>3. all \subseteq Ids /\ older \subseteq all
  BY InboxIds DEF Below
<1>4. There(msgs, threads, walk) = all
  BY <1>1 DEF There
<1> HIDE DEF all
<1>5. ASSUME NEW i \in walk.must
      PROVE  /\ i \in all
             /\ \/ i \in walk.got \union page
                \/ NextBefore(all, page) # NoId /\ i < NextBefore(all, page)
  <2>1. i \in all
    BY <1>1, <1>2, <1>4 DEF WalkKept
  <2>2. CASE i < walk.older
    BY <1>2, <1>3, <2>1, <2>2, BeforeLinked
  <2>3. CASE ~(i < walk.older)
    BY <1>1, <1>2, <2>1, <2>3 DEF WalkKept
  <2> QED BY <2>1, <2>2, <2>3
<1>6. walk.newer = NoId
  BY <1>1, <1>2 DEF WalkKept
<1> QED BY <1>1, <1>2, <1>3, <1>5, <1>6, TurnInboxKept DEF all

LEMMA StoreNext ==
    ASSUME StoreKept, MessagesNext
    PROVE  StoreKept' /\ Grows /\ MarksGiven /\ UNCHANGED <<claimed, again>>
<1>1. CASE Posting
  <2>1. ASSUME NEW p \in Senders, NEW to \in Recipients \union {Unset},
               NEW parent \in Ids \union {NoId}, NEW threadId \in Ids \union {NoId},
               Post(p, to, parent, threadId) \/ BeginPost(p, to, parent, threadId)
        PROVE  StoreKept' /\ Grows /\ MarksGiven /\ UNCHANGED <<claimed, again>>
    BY <2>1, PostKept, BeginPostKept DEF Post, BeginPost, Appends, history
  <2>2. ASSUME NEW p \in Senders, EndPost(p)
        PROVE  StoreKept' /\ Grows /\ MarksGiven /\ UNCHANGED <<claimed, again>>
    BY <2>2, EndPostKept DEF EndPost, Appends, history
  <2>3. ASSUME NEW i \in Ids, Delete(i)
        PROVE  StoreKept' /\ Grows /\ MarksGiven /\ UNCHANGED <<claimed, again>>
    BY <2>3, DeleteKept DEF Delete
  <2>4. ASSUME NEW a \in Receivers, Register(a)
        PROVE  StoreKept' /\ Grows /\ MarksGiven /\ UNCHANGED <<claimed, again>>
    BY <2>4, RegisterKept DEF Register, history
  <2> QED BY <1>1, <2>1, <2>2, <2>3, <2>4 DEF Posting
<1>2. CASE Conversing
  <2>1. ASSUME NEW p \in Senders \ {Anonymous}, NEW public \in BOOLEAN,
               NEW announce \in BOOLEAN, NEW S \in SUBSET Receivers,
               Create(p, public, announce, S)
        PROVE  StoreKept' /\ Grows /\ MarksGiven /\ UNCHANGED <<claimed, again>>
    BY <2>1, CreateKept DEF Create, history
  <2>2. ASSUME NEW p \in Movers, NEW t \in Ids, NEW mute \in {"keep", "mute", "unmute"},
               Join(p, t, mute)
        PROVE  StoreKept' /\ Grows /\ MarksGiven /\ UNCHANGED <<claimed, again>>
    BY <2>2, JoinKept DEF Join, history
  <2>3. ASSUME NEW p \in Movers, NEW t \in Ids, Leave(p, t)
        PROVE  StoreKept' /\ Grows /\ MarksGiven /\ UNCHANGED <<claimed, again>>
    BY <2>3, LeaveKept DEF Leave, history
  <2>4. ASSUME NEW p \in Senders \ {Anonymous}, NEW q \in Movers, NEW t \in Ids,
               AddMember(p, t, q)
        PROVE  StoreKept' /\ Grows /\ MarksGiven /\ UNCHANGED <<claimed, again>>
    BY <2>4, AddMemberKept DEF AddMember, history
  <2>5. ASSUME NEW p \in Senders \ {Anonymous}, NEW t \in Ids, NEW public \in BOOLEAN,
               NEW closed \in BOOLEAN, Update(p, t, public, closed)
        PROVE  StoreKept' /\ Grows /\ MarksGiven /\ UNCHANGED <<claimed, again>>
    BY <2>5, UpdateKept DEF Update, history
  <2> QED BY <1>2, <2>1, <2>2, <2>3, <2>4, <2>5 DEF Conversing
<1>3. CASE Reading
  <2>1. ASSUME NEW a \in Receivers, NEW filter, List(a, filter)
        PROVE  StoreKept' /\ Grows /\ MarksGiven /\ UNCHANGED <<claimed, again>>
    BY <2>1, ListKept DEF List
  <2>2. ASSUME NEW a \in Receivers, NEW i, Read(a, i) \/ ReadAll(a, i) \/ Notify(a)
        PROVE  StoreKept' /\ Grows /\ MarksGiven /\ UNCHANGED <<claimed, again>>
    BY <2>2, ReadKept, ReadAllKept, NotifyKept DEF Read, ReadAll, Notify, history
  <2>3. ASSUME NEW p \in Readers, NEW t \in Ids, NEW k \in Ids,
               NEW how \in {"newest", "around"}, Open(p, t, how, k)
        PROVE  StoreKept' /\ Grows /\ MarksGiven /\ UNCHANGED <<claimed, again>>
    BY <2>3, OpenKept DEF Open, Turn
  <2>4. ASSUME OpenOlder \/ OpenNewer \/ InboxOlder
        PROVE  StoreKept' /\ Grows /\ MarksGiven /\ UNCHANGED <<claimed, again>>
    BY <2>4, OpenOlderKept, OpenNewerKept, InboxOlderKept
       DEF OpenOlder, OpenNewer, InboxOlder, Turn, TurnInbox, history
  <2>5. ASSUME NEW h \in Humans \cap Readers, NEW view \in {"all", "mine"}, OpenInbox(h, view)
        PROVE  StoreKept' /\ Grows /\ MarksGiven /\ UNCHANGED <<claimed, again>>
    BY <2>5, OpenInboxKept DEF OpenInbox, TurnInbox, history
  <2>6. ASSUME NEW a \in Receivers, Notify(a)
        PROVE  StoreKept' /\ Grows /\ MarksGiven /\ UNCHANGED <<claimed, again>>
    BY <2>6, NotifyKept DEF Notify, history
  <2> QED BY <1>3, <2>1, <2>2, <2>3, <2>4, <2>5, <2>6 DEF Reading
<1> QED BY <1>1, <1>2, <1>3 DEF MessagesNext

\* Steps of a channel: they mark messages, give them out or claim them.
LEMMA ChannelKept ==
    ASSUME StoreKept, msgs' \in Stores, Marked(msgs, msgs'),
           given' \in [Ids -> SUBSET Receivers], \A i \in Ids : given[i] \subseteq given'[i],
           claimed' \in [Ids -> SUBSET Receivers], again' \subseteq Ids \X Receivers,
           UNCHANGED <<threads, nextId, clock, registered, draft, severed, walk>>
    PROVE  StoreKept' /\ Grows
<1>1. walk' \in WalkRecords /\ WalkKept'
  BY WalkStays
<1> QED BY <1>1, MarksKept

LEMMA StoreForms ==
    ASSUME StoreKept
    PROVE  /\ msgs \in Stores /\ threads \in Tables /\ DOMAIN msgs \subseteq Ids
           /\ given \in [Ids -> SUBSET Receivers] /\ claimed \in [Ids -> SUBSET Receivers]
           /\ again \subseteq Ids \X Receivers /\ nextId \in Int /\ nextId >= 1
           /\ \A i \in DOMAIN msgs : i < nextId
           /\ registered \in [Agents -> 0..MaxClock]
BY StoreTypes, IdentityAssumption DEF StoreKept, MessagesTypeOK, IdsKept

LEMMA StoreStill ==
    ASSUME StoreKept, UNCHANGED msgVars
    PROVE  StoreKept' /\ Grows /\ MarksGiven
<1>1. /\ msgs' = msgs /\ given' = given /\ claimed' = claimed /\ again' = again
      /\ UNCHANGED <<threads, nextId, clock, registered, draft, severed, walk>>
  BY DEF msgVars
<1>2. StoreKept' /\ Grows
  BY <1>1, StoreForms, NotMarked, ChannelKept
<1> QED BY <1>1, <1>2 DEF MarksGiven

-----------------------------------------------------------------------------
(* Claims.                                                                    *)

LEMMA ClaimsStay ==
    ASSUME StoreKept, ClaimsKept, Grows, UNCHANGED <<claimed, again>>
    PROVE  ClaimsKept'
<1>1. nextId \in Int /\ nextId' \in {nextId, nextId + 1}
  BY StoreForms DEF Grows
<1>2. ASSUME NEW i \in Ids, NEW a \in claimed[i]
      PROVE  i < nextId' /\ (i \in DOMAIN msgs' => Delivered(msgs'[i], a))
  <2>1. i < nextId /\ (i \in DOMAIN msgs => Delivered(msgs[i], a)) /\ i \in Int
    BY IdsAreNats DEF ClaimsKept
  <2>2. i \in DOMAIN msgs' => i \in DOMAIN msgs /\ KeptMessage(msgs[i], msgs'[i])
    BY <1>1, <2>1 DEF Grows
  <2> QED BY <1>1, <2>1, <2>2 DEF Delivered, KeptMessage
<1> QED BY <1>2 DEF ClaimsKept

LEMMA ClaimSound ==
    ASSUME StoreKept, ClaimsKept, NEW a \in Receivers, NEW S, S \subseteq Waiting(a), Claim(a, S)
    PROVE  /\ msgs' \in Stores /\ Marked(msgs, msgs')
           /\ \A i \in DOMAIN msgs : msgs'[i].delivered # msgs[i].delivered
                 => i \in S /\ msgs'[i].delivered = msgs[i].delivered \union {a}
           /\ claimed' \in [Ids -> SUBSET Receivers] /\ again' = {}
           /\ nextId' = nextId => ClaimsKept'
<1>0. /\ msgs' = MarkedDelivered(msgs, S, a)
      /\ claimed' = [i \in Ids |-> IF i \in S THEN claimed[i] \union {a} ELSE claimed[i]]
      /\ again' = again \union {<<i, a>> : i \in {j \in S : a \in claimed[j]}}
  BY DEF Claim
<1>1. /\ msgs' \in Stores /\ Marked(msgs, msgs')
      /\ \A i \in DOMAIN msgs :
            /\ msgs'[i].delivered # msgs[i].delivered
                  => i \in S /\ msgs'[i].delivered = msgs[i].delivered \union {a}
            /\ i \in S => Delivered(msgs'[i], a)
  BY <1>0, StoreForms, DeliveredMarks
<1>2. claimed' \in [Ids -> SUBSET Receivers]
  BY <1>0, StoreForms
<1>3. \A i \in S : i \in DOMAIN msgs /\ i \in Ids /\ ~Delivered(msgs[i], a)
  BY StoreForms DEF Waiting, Awaiting
<1>4. again' = {}
  <2>1. \A i \in S : a \notin claimed[i]
    BY <1>3 DEF ClaimsKept
  <2> QED BY <1>0, <2>1 DEF ClaimsKept
<1>5. ASSUME nextId' = nextId
      PROVE  ClaimsKept'
  <2>1. ASSUME NEW i \in Ids, NEW b \in claimed'[i]
        PROVE  i < nextId /\ (i \in DOMAIN msgs' => Delivered(msgs'[i], b))
    <3>1. CASE b \in claimed[i]
      BY <1>1, <3>1 DEF ClaimsKept, Marked, KeptMessage, Delivered
    <3>2. CASE i \in S /\ b = a
      BY <1>1, <1>3, <3>2, StoreForms
    <3> QED BY <1>0, <3>1, <3>2
  <2> QED BY <1>4, <1>5, <2>1 DEF ClaimsKept
<1> QED BY <1>1, <1>2, <1>4, <1>5

-----------------------------------------------------------------------------
(* Cursors.                                                                   *)

\* A direct message does not come back, and a new one is above every cursor.
LEMMA DirectShrinks ==
    ASSUME StoreKept, Grows, NEW a, NEW i \in Direct(a)'
    PROVE  i \in Direct(a) \/ (i = nextId /\ nextId' = nextId + 1)
BY DEF Direct, Grows, KeptMessage, SameMessage, Delivered

LEMMA ToldGrows ==
    ASSUME Grows, NEW a, backlog[a] \subseteq backlog'[a], passed[a] \subseteq passed'[a]
    PROVE  Told(a) \subseteq Told(a)'
BY DEF Told, Grows

LEMMA CoverageStays ==
    ASSUME StoreKept, Grows, NEW a,
           backlog[a] \subseteq backlog'[a], passed[a] \subseteq passed'[a]
    PROVE  \A c \in Cursors : \A X, Y :
              CoveredBy(Direct(a), Told(a), nextId, c, X) /\ X \subseteq Told(a)' \union Y
              => CoveredBy(Direct(a)', Told(a)', nextId', c, Y)
<1> SUFFICES ASSUME NEW c \in Cursors, NEW X, NEW Y,
                    CoveredBy(Direct(a), Told(a), nextId, c, X), X \subseteq Told(a)' \union Y
             PROVE  CoveredBy(Direct(a)', Told(a)', nextId', c, Y)
  OBVIOUS
<1>1. c \in Int /\ nextId \in Int /\ nextId' \in {nextId, nextId + 1} /\ c < nextId
  BY IdsAreNats, StoreForms DEF Cursors, NoCursor, NoId, Grows, CoveredBy
<1>2. Told(a) \subseteq Told(a)'
  BY ToldGrows
<1>3. \A i \in Direct(a)' : i <= c => i \in Direct(a)
  BY <1>1, DirectShrinks
<1>4. \A i \in Direct(a)' : i <= c => i \in Told(a)' \union Y
  BY <1>2, <1>3 DEF CoveredBy
<1> QED BY <1>1, <1>4 DEF CoveredBy

\* What waits for an agent holds what is addressed to it alone.
LEMMA DirectWaits ==
    ASSUME StoreKept, NEW a \in Receivers
    PROVE  /\ Direct(a) = {i \in Waiting(a) : msgs[i].to = ToAgent(a)}
           /\ Waiting(a) \subseteq Ids /\ \A i \in Waiting(a) : i < nextId
<1>1. Waiting(a) \subseteq DOMAIN msgs /\ Direct(a) \subseteq DOMAIN msgs
  BY DEF Waiting, Awaiting, Direct
<1>2. ASSUME NEW i \in DOMAIN msgs, msgs[i].to = ToAgent(a)
      PROVE  i \in Waiting(a) <=> i \in Direct(a)
  <2>1. IsFor(msgs[i], a, threads)
    BY <1>2 DEF IsFor
  <2>2. Eligible(msgs[i], a, threads, registered[a])
    BY <1>2 DEF Eligible, InThread, ToAgent, ToAll
  <2> QED BY <1>2, <2>1, <2>2 DEF Waiting, Awaiting, Direct
<1>3. \A i \in Direct(a) : msgs[i].to = ToAgent(a)
  BY DEF Direct
<1> QED BY <1>1, <1>2, <1>3, StoreForms

ClientRecords ==
    [seen: SUBSET Ids, cursor: Cursors, saved: Cursors, first: BOOLEAN,
     job: [busy: BOOLEAN, acks: SUBSET Ids, upto: Cursors]]

FrameRecords == [ids: SUBSET Ids, upto: Cursors]

ConnRecords == [stage: {"down", "init", "live"}, cursor: Cursors, wake: BOOLEAN]

LEMMA ListeningForms ==
    ASSUME ListeningTypeOK, NEW a \in Receivers
    PROVE  /\ client[a] \in ClientRecords /\ conn[a] \in ConnRecords
           /\ frames[a] \in Seq(FrameRecords)
           /\ client[a].cursor \in Cursors /\ client[a].saved \in Cursors
           /\ client[a].job.upto \in Cursors /\ conn[a].cursor \in Cursors
           /\ client[a].seen \subseteq Ids /\ client[a].job.acks \subseteq Ids
           /\ \A k \in 1..Len(frames[a]) : frames[a][k] \in FrameRecords
           /\ \A k \in 1..Len(frames[a]) :
                 frames[a][k].ids \subseteq Ids /\ frames[a][k].upto \in Cursors
<1>1. client[a] \in ClientRecords /\ conn[a] \in ConnRecords /\ frames[a] \in Seq(FrameRecords)
  BY DEF ListeningTypeOK, ClientRecords, FrameRecords, ConnRecords
<1>2. \A k \in 1..Len(frames[a]) : frames[a][k] \in FrameRecords
  BY <1>1
<1> QED BY <1>1, <1>2 DEF ClientRecords, FrameRecords, ConnRecords

LEMMA CursorsStayFor ==
    ASSUME StoreKept, Grows, ListeningTypeOK, NEW a \in Receivers, CursorsKeptFor(a),
           backlog[a] \subseteq backlog'[a], passed[a] \subseteq passed'[a],
           client'[a].cursor = client[a].cursor, client'[a].saved = client[a].saved,
           client'[a].job.busy = client[a].job.busy, client'[a].job.upto = client[a].job.upto,
           frames'[a] = frames[a], conn'[a].cursor = conn[a].cursor
    PROVE  CursorsKeptFor(a)'
<1>1. /\ client[a].cursor \in Cursors /\ client[a].job.upto \in Cursors
      /\ conn[a].cursor \in Cursors
      /\ \A k \in 1..Len(frames[a]) : frames[a][k].upto \in Cursors
  BY ListeningForms
<1>2. \A c \in Cursors : \A X :
         CoveredBy(Direct(a), Told(a), nextId, c, X)
         => CoveredBy(Direct(a)', Told(a)', nextId', c, X)
  BY CoverageStays
<1>3. \A k : SentBy(frames'[a], k) = SentBy(frames[a], k)
  OBVIOUS
<1> QED BY <1>1, <1>2, <1>3 DEF CursorsKeptFor, Covers

LEMMA CursorsStay ==
    ASSUME StoreKept, Grows, ListeningTypeOK, CursorsKept, mode' = mode,
           \A a \in Receivers :
              /\ backlog[a] \subseteq backlog'[a] /\ passed[a] \subseteq passed'[a]
              /\ client'[a].cursor = client[a].cursor /\ client'[a].saved = client[a].saved
              /\ client'[a].job.busy = client[a].job.busy
              /\ client'[a].job.upto = client[a].job.upto
              /\ frames'[a] = frames[a] /\ conn'[a].cursor = conn[a].cursor
    PROVE  CursorsKept'
BY CursorsStayFor DEF CursorsKept

\* One more frame at the end.
LEMMA SentMore ==
    ASSUME NEW s \in Seq(FrameRecords), NEW f \in FrameRecords
    PROVE  /\ Append(s, f) \in Seq(FrameRecords) /\ Len(Append(s, f)) = Len(s) + 1
           /\ Append(s, f)[Len(s) + 1] = f
           /\ \A k \in 1..Len(s) : /\ Append(s, f)[k] = s[k]
                                   /\ SentBy(Append(s, f), k) = SentBy(s, k)
           /\ SentBy(Append(s, f), Len(s) + 1) = SentBy(s, Len(s)) \union f.ids
<1> DEFINE t == Append(s, f)
<1>1. /\ t \in Seq(FrameRecords) /\ Len(t) = Len(s) + 1 /\ t[Len(s) + 1] = f
      /\ \A k \in 1..Len(s) : t[k] = s[k]
      /\ Len(s) \in Nat
  OBVIOUS
<1> HIDE DEF t
<1>2. \A k \in 1..Len(s) : SentBy(t, k) = SentBy(s, k)
  <2> TAKE k \in 1..Len(s)
  <2>1. \A j \in 1..k : t[j] = s[j]
    BY <1>1
  <2> QED BY <2>1 DEF SentBy
<1>3. SentBy(t, Len(s) + 1) = SentBy(s, Len(s)) \union f.ids
  <2>1. 1..(Len(s) + 1) = (1..Len(s)) \union {Len(s) + 1}
    BY <1>1
  <2> QED BY <1>1, <2>1 DEF SentBy
<1> QED BY <1>1, <1>2, <1>3 DEF t

\* One frame less at the front.
LEMMA SentLess ==
    ASSUME NEW s \in Seq(FrameRecords), s # << >>
    PROVE  /\ Tail(s) \in Seq(FrameRecords) /\ Len(Tail(s)) = Len(s) - 1 /\ Len(s) \in Nat
           /\ Head(s) = s[1] /\ Len(s) >= 1
           /\ \A k \in 0..(Len(s) - 1) :
                 SentBy(s, k + 1) = Head(s).ids \union SentBy(Tail(s), k)
           /\ \A k \in 1..(Len(s) - 1) : Tail(s)[k] = s[k + 1]
<1> DEFINE t == Tail(s)
<1>1. /\ t \in Seq(FrameRecords) /\ Len(t) = Len(s) - 1 /\ Len(s) \in Nat /\ Len(s) >= 1
      /\ Head(s) = s[1] /\ \A k \in 1..(Len(s) - 1) : t[k] = s[k + 1]
  OBVIOUS
<1> HIDE DEF t
<1>2. ASSUME NEW k \in 0..(Len(s) - 1)
      PROVE  SentBy(s, k + 1) = s[1].ids \union SentBy(t, k)
  <2>1. ASSUME NEW x \in SentBy(s, k + 1)
        PROVE  x \in s[1].ids \union SentBy(t, k)
    <3>1. PICK j \in 1..(k + 1) : x \in s[j].ids
      BY DEF SentBy
    <3>2. CASE j = 1
      BY <3>1, <3>2
    <3>3. CASE j # 1
      <4>1. j - 1 \in 1..k /\ t[j - 1] = s[j]
        BY <1>1, <3>3
      <4> QED BY <3>1, <4>1 DEF SentBy
    <3> QED BY <3>2, <3>3
  <2>2. ASSUME NEW x \in s[1].ids
        PROVE  x \in SentBy(s, k + 1)
    <3>1. 1 \in 1..(k + 1)
      BY <1>1
    <3> QED BY <3>1 DEF SentBy
  <2>3. ASSUME NEW x \in SentBy(t, k)
        PROVE  x \in SentBy(s, k + 1)
    <3>1. PICK j \in 1..k : x \in t[j].ids
      BY DEF SentBy
    <3>2. j + 1 \in 1..(k + 1) /\ t[j] = s[j + 1]
      BY <1>1
    <3> QED BY <3>1, <3>2 DEF SentBy
  <2> QED BY <2>1, <2>2, <2>3
<1> QED BY <1>1, <1>2 DEF t

LEMMA FrameSentFor ==
    ASSUME StoreKept, Grows, ListeningTypeOK, NEW a \in Receivers, CursorsKeptFor(a),
           backlog[a] \subseteq backlog'[a], passed[a] \subseteq passed'[a],
           client'[a] = client[a], NEW f \in FrameRecords, frames'[a] = Append(frames[a], f),
           conn'[a].cursor = f.upto,
           CoveredBy(Direct(a)', Told(a)', nextId', f.upto,
                     SentBy(frames[a], Len(frames[a])) \union f.ids)
    PROVE  CursorsKeptFor(a)'
<1>1. /\ client[a].cursor \in Cursors /\ client[a].job.upto \in Cursors
      /\ frames[a] \in Seq(FrameRecords) /\ Len(frames[a]) \in Nat
      /\ \A k \in 1..Len(frames[a]) : frames[a][k].upto \in Cursors
  BY ListeningForms
<1>2. \A c \in Cursors : \A X :
         CoveredBy(Direct(a), Told(a), nextId, c, X)
         => CoveredBy(Direct(a)', Told(a)', nextId', c, X)
  BY CoverageStays
<1> DEFINE s == frames[a]
           t == frames'[a]
<1>3. /\ Len(t) = Len(s) + 1 /\ t[Len(s) + 1] = f
      /\ \A k \in 1..Len(s) : t[k] = s[k] /\ SentBy(t, k) = SentBy(s, k)
      /\ SentBy(t, Len(s) + 1) = SentBy(s, Len(s)) \union f.ids
  BY <1>1, SentMore
<1>4. ASSUME NEW k \in 1..Len(t)
      PROVE  CoveredBy(Direct(a)', Told(a)', nextId', t[k].upto, SentBy(t, k))
  <2>1. CASE k = Len(s) + 1
    BY <1>3, <2>1
  <2>2. CASE k # Len(s) + 1
    <3>1. k \in 1..Len(s)
      BY <1>1, <1>3, <2>2
    <3>2. CoveredBy(Direct(a), Told(a), nextId, s[k].upto, SentBy(s, k))
      BY <3>1 DEF CursorsKeptFor, Covers
    <3> QED BY <1>1, <1>2, <1>3, <3>1, <3>2
  <2> QED BY <2>1, <2>2
<1>5. CoveredBy(Direct(a)', Told(a)', nextId', conn'[a].cursor, SentBy(t, Len(t)))
  BY <1>3
<1>6. /\ CoveredBy(Direct(a)', Told(a)', nextId', client'[a].cursor, {})
      /\ client'[a].saved <= client'[a].cursor
      /\ client'[a].job.busy => CoveredBy(Direct(a)', Told(a)', nextId', client'[a].job.upto, {})
  BY <1>1, <1>2 DEF CursorsKeptFor, Covers
<1> QED BY <1>4, <1>5, <1>6 DEF CursorsKeptFor, Covers

LEMMA DeliveredStays ==
    ASSUME DeliveredMeansGiven, StoreKept, Grows, MarksGiven, mode' = mode
    PROVE  DeliveredMeansGiven'
<1>1. DOMAIN msgs \subseteq Ids
  BY StoreForms
<1> QED BY <1>1 DEF DeliveredMeansGiven, MarksGiven, Grows

LEMMA PrintedStays ==
    ASSUME PrintedFirst, Grows, ListeningTypeOK,
           \A a \in Receivers : /\ client'[a].seen \subseteq client[a].seen
                                /\ client'[a].job.acks \subseteq client[a].job.acks
    PROVE  PrintedFirst'
<1>1. \A a \in Receivers : client[a].seen \subseteq Ids /\ client[a].job.acks \subseteq Ids
  BY ListeningForms
<1> QED BY <1>1 DEF PrintedFirst, Grows

\* The invariants of a step of the channels are shown one by one.
AllKept == /\ StoreKept' /\ ListeningTypeOK' /\ ClaimsKept' /\ PrintedFirst'
           /\ DeliveredMeansGiven' /\ CursorsKept' /\ Grows

LEMMA StoreCallKept ==
    ASSUME IInv, StoreCall
    PROVE  AllKept
<1> USE DEF IInv
<1>1. /\ conn' = [a \in Receivers |->
                    IF Arrives /\ conn[a].stage # "down"
                    THEN [conn[a] EXCEPT !.wake = TRUE] ELSE conn[a]]
      /\ wakeEvent' = (wakeEvent \/ Arrives) /\ MessagesNext
      /\ mode' = mode /\ frames' = frames /\ client' = client /\ backlog' = backlog
      /\ passed' = passed /\ waiter' = waiter /\ faults' = faults
  BY DEF StoreCall
<1>2. StoreKept' /\ Grows /\ MarksGiven /\ UNCHANGED <<claimed, again>>
  BY <1>1, StoreNext
<1>3. /\ conn' \in [Receivers -> ConnRecords]
      /\ \A a \in Receivers : conn'[a].cursor = conn[a].cursor
  <2>1. \A a \in Receivers : conn[a] \in ConnRecords
    BY ListeningForms
  <2>2. \A a \in Receivers : conn'[a] \in ConnRecords /\ conn'[a].cursor = conn[a].cursor
    BY <1>1, <2>1 DEF ConnRecords
  <2> QED BY <1>1, <2>2
<1>4. ListeningTypeOK'
  <2>1. wakeEvent' \in BOOLEAN
    BY <1>1 DEF ListeningTypeOK, Arrives
  <2> QED BY <1>1, <1>3, <2>1 DEF ListeningTypeOK, ConnRecords
<1>5. ClaimsKept'
  BY <1>2, ClaimsStay
<1>6. PrintedFirst'
  BY <1>1, <1>2, PrintedStays
<1>7. DeliveredMeansGiven'
  BY <1>1, <1>2, DeliveredStays
<1>8. CursorsKept'
  BY <1>1, <1>2, <1>3, CursorsStay
<1> QED BY <1>2, <1>4, <1>5, <1>6, <1>7, <1>8 DEF AllKept

\* Steps that leave the store alone.
LEMMA StoreAlone ==
    ASSUME IInv, UNCHANGED msgVars, mode' = mode,
           \A a \in Receivers : /\ client'[a].seen \subseteq client[a].seen
                                /\ client'[a].job.acks \subseteq client[a].job.acks
    PROVE  StoreKept' /\ Grows /\ ClaimsKept' /\ PrintedFirst' /\ DeliveredMeansGiven'
<1>1. StoreKept' /\ Grows /\ MarksGiven
  BY StoreStill DEF IInv
<1>2. claimed' = claimed /\ again' = again
  BY DEF msgVars
<1> QED BY <1>1, <1>2, ClaimsStay, PrintedStays, DeliveredStays DEF IInv

\* The other receivers' cursors stay where they were.
LEMMA CursorsOf ==
    ASSUME IInv, Grows, mode' = mode, NEW a \in Receivers,
           mode \in {"ack", "poll"} => CursorsKeptFor(a)',
           \A b \in Receivers \ {a} :
              /\ backlog[b] \subseteq backlog'[b] /\ passed[b] \subseteq passed'[b]
              /\ client'[b] = client[b] /\ frames'[b] = frames[b] /\ conn'[b] = conn[b]
    PROVE  CursorsKept'
<1>1. ASSUME mode \in {"ack", "poll"}, NEW b \in Receivers
      PROVE  CursorsKeptFor(b)'
  <2>1. CASE b = a
    BY <1>1, <2>1
  <2>2. CASE b # a
    <3>1. CursorsKeptFor(b) /\ StoreKept /\ ListeningTypeOK
      BY <1>1 DEF IInv, CursorsKept
    <3> QED BY <2>2, <3>1, CursorsStayFor
  <2> QED BY <2>1, <2>2
<1> QED BY <1>1 DEF CursorsKept

LEMMA ConnectKept ==
    ASSUME IInv, NEW a \in Receivers, Connect(a)
    PROVE  AllKept
<1> USE DEF IInv
<1>1. /\ UNCHANGED msgVars /\ mode' = mode /\ frames' = frames /\ client' = client
      /\ backlog' = backlog /\ passed' = passed /\ waiter' = waiter /\ wakeEvent' = wakeEvent
      /\ faults' = faults
      /\ conn' = [conn EXCEPT ![a] = [stage |-> "init", cursor |-> client[a].cursor, wake |-> FALSE]]
  BY DEF Connect, waitVars
<1>2. StoreKept' /\ Grows /\ ClaimsKept' /\ PrintedFirst' /\ DeliveredMeansGiven'
  BY <1>1, StoreAlone
<1>3. conn \in [Receivers -> ConnRecords] /\ client[a].cursor \in Cursors
  BY ListeningForms DEF ListeningTypeOK, ConnRecords
<1>4. /\ conn' \in [Receivers -> ConnRecords] /\ conn'[a].cursor = client[a].cursor
      /\ \A b \in Receivers \ {a} : conn'[b] = conn[b]
  BY <1>1, <1>3 DEF ConnRecords
<1>5. ListeningTypeOK'
  BY <1>1, <1>4 DEF ListeningTypeOK, ConnRecords
<1>6. ASSUME mode \in {"ack", "poll"}
      PROVE  CursorsKeptFor(a)'
  <2>1. CursorsKeptFor(a)
    BY <1>6 DEF CursorsKept
  <2>2. \A c \in Cursors : \A X, Y :
              CoveredBy(Direct(a), Told(a), nextId, c, X) /\ X \subseteq Told(a)' \union Y
              => CoveredBy(Direct(a)', Told(a)', nextId', c, Y)
    BY <1>1, <1>2, CoverageStays
  <2>3. /\ client[a].cursor \in Cursors /\ client[a].job.upto \in Cursors
        /\ \A k \in 1..Len(frames[a]) : frames[a][k].upto \in Cursors
    BY ListeningForms
  <2> QED BY <1>1, <1>4, <2>1, <2>2, <2>3 DEF CursorsKeptFor, Covers
<1>7. CursorsKept'
  BY <1>1, <1>2, <1>4, <1>6, CursorsOf
<1> QED BY <1>2, <1>5, <1>7 DEF AllKept

-----------------------------------------------------------------------------
(* The socket.                                                                *)

\* A frame's messages are claimed in the legacy mode, and only then.
LEMMA SelectKept ==
    ASSUME IInv, NEW a \in Receivers, NEW S, mode = "claim" => S \subseteq Waiting(a),
           Select(a, S), UNCHANGED storeRest, mode' = mode
    PROVE  StoreKept' /\ Grows /\ ClaimsKept' /\ DeliveredMeansGiven'
<1> USE DEF IInv
<1>1. /\ given' = given /\ nextId' = nextId
      /\ UNCHANGED <<threads, nextId, clock, registered, draft, severed, walk>>
  BY DEF storeRest
<1>2. CASE mode = "claim"
  <2>1. Claim(a, S) /\ S \subseteq Waiting(a)
    BY <1>2 DEF Select
  <2>2. /\ msgs' \in Stores /\ Marked(msgs, msgs')
        /\ claimed' \in [Ids -> SUBSET Receivers] /\ again' = {} /\ ClaimsKept'
    BY <1>1, <2>1, ClaimSound
  <2>3. given' \in [Ids -> SUBSET Receivers] /\ \A i \in Ids : given[i] \subseteq given'[i]
    BY <1>1, StoreForms
  <2>4. StoreKept' /\ Grows
    BY <1>1, <2>2, <2>3, ChannelKept
  <2> QED BY <1>2, <2>2, <2>4 DEF DeliveredMeansGiven
<1>3. CASE mode # "claim"
  <2>1. msgs' = msgs /\ claimed' = claimed /\ again' = again
    BY <1>3 DEF Select
  <2>2. StoreKept' /\ Grows
    BY <1>1, <2>1, StoreForms, NotMarked, ChannelKept
  <2>3. MarksGiven
    BY <2>1 DEF MarksGiven
  <2> QED BY <2>1, <2>2, <2>3, ClaimsStay, DeliveredStays
<1> QED BY <1>2, <1>3

LEMMA SnapshotKept ==
    ASSUME IInv, NEW a \in Receivers, Snapshot(a)
    PROVE  AllKept
<1> USE DEF IInv
<1> DEFINE all == Waiting(a)
           recent == Newest(all, RecentLimit)
           cursor == Greatest(all, NoCursor)
           f == Frame(recent, cursor)
<1>1. /\ UNCHANGED storeRest /\ mode' = mode /\ client' = client /\ passed' = passed
      /\ waiter' = waiter /\ wakeEvent' = wakeEvent /\ faults' = faults
      /\ Select(a, recent)
      /\ conn' = [conn EXCEPT ![a].stage = "live", ![a].cursor = cursor]
      /\ frames' = [frames EXCEPT ![a] = Append(@, f)]
      /\ backlog' = [backlog EXCEPT ![a] = @ \union (all \ recent)]
  BY DEF Snapshot, waitVars
<1>2. /\ all \subseteq Ids /\ recent \subseteq all /\ cursor \in Cursors
      /\ \A i \in all : i <= cursor
      /\ all = {} => cursor = NoCursor
      /\ all # {} => cursor \in all
  <2>1. all \in SUBSET Ids /\ NoCursor \in Cursors
    BY DirectWaits DEF Cursors
  <2>2. RecentLimit \in Nat
    BY ListeningAssumption
  <2>3. recent \subseteq all
    BY <2>1, <2>2, NewestAbove
  <2>4. /\ cursor \in Cursors /\ \A i \in all : cursor >= i
        /\ all = {} => cursor = NoCursor
        /\ all # {} => cursor \in all
    BY <2>1, GreatestOrNot
  <2>5. \A i \in all : i <= cursor
    BY <2>1, <2>4, IdsAreNats DEF Cursors, NoCursor
  <2> QED BY <2>1, <2>3, <2>4, <2>5
<1>3. \A i \in all : i < nextId
  BY DirectWaits
<1>4. cursor < nextId /\ nextId' = nextId
  BY <1>1, <1>2, <1>3, StoreForms DEF NoCursor, storeRest
<1>5. f \in FrameRecords /\ f.ids = recent /\ f.upto = cursor
  BY <1>2 DEF FrameRecords, Frame
<1> HIDE DEF all, recent, cursor, f
<1>6. StoreKept' /\ Grows /\ ClaimsKept' /\ DeliveredMeansGiven'
  BY <1>1, <1>2, SelectKept DEF all
<1>7. PrintedFirst'
  BY <1>1, <1>6, PrintedStays
<1>8. /\ conn \in [Receivers -> ConnRecords] /\ frames \in [Receivers -> Seq(FrameRecords)]
      /\ backlog \in [Receivers -> SUBSET Ids]
  BY DEF ListeningTypeOK, ConnRecords, FrameRecords
<1>9. /\ conn' \in [Receivers -> ConnRecords] /\ conn'[a].cursor = cursor
      /\ \A b \in Receivers \ {a} : conn'[b] = conn[b]
  <2>1. [conn[a] EXCEPT !.stage = "live", !.cursor = cursor] \in ConnRecords
    BY <1>2, <1>8 DEF ConnRecords
  <2> QED BY <1>1, <1>2, <1>8, <2>1 DEF ConnRecords
<1>10. /\ frames' \in [Receivers -> Seq(FrameRecords)] /\ frames'[a] = Append(frames[a], f)
       /\ \A b \in Receivers \ {a} : frames'[b] = frames[b]
  BY <1>1, <1>5, <1>8
<1>11. /\ backlog' \in [Receivers -> SUBSET Ids] /\ backlog'[a] = backlog[a] \union (all \ recent)
       /\ \A b \in Receivers : backlog[b] \subseteq backlog'[b]
  BY <1>1, <1>2, <1>8
<1>12. ListeningTypeOK'
  BY <1>1, <1>9, <1>10, <1>11 DEF ListeningTypeOK, ConnRecords, FrameRecords
<1>13. ASSUME mode \in {"ack", "poll"}
       PROVE  CursorsKeptFor(a)'
  <2>1. CursorsKeptFor(a)
    BY <1>13 DEF CursorsKept
  <2>2. ASSUME NEW i \in Direct(a)'
        PROVE  i \in backlog'[a] \/ i \in recent
    <3>1. i \in Direct(a)
      BY <1>4, <1>6, StoreForms, DirectShrinks
    <3>2. i \in all
      BY <3>1, DirectWaits DEF all
    <3> QED BY <1>11, <3>2
  <2>3. CoveredBy(Direct(a)', Told(a)', nextId', cursor,
                  SentBy(frames[a], Len(frames[a])) \union recent)
    BY <1>4, <2>2 DEF CoveredBy, Told
  <2> QED BY <1>1, <1>5, <1>6, <1>9, <1>10, <1>11, <2>1, <2>3, FrameSentFor
<1>14. CursorsKept'
  BY <1>1, <1>6, <1>9, <1>10, <1>11, <1>13, CursorsOf
<1> QED BY <1>6, <1>7, <1>12, <1>14 DEF AllKept

LEMMA FetchKept ==
    ASSUME IInv, NEW a \in Receivers, Fetch(a)
    PROVE  AllKept
<1> USE DEF IInv
<1> DEFINE old == conn[a].cursor
           all == Above(Pending(a), old)
           page == Newest(all, SocketPage)
           cursor == Greatest(page, old)
           f == Frame(page, cursor)
<1>1. /\ UNCHANGED storeRest /\ mode' = mode /\ client' = client /\ backlog' = backlog
      /\ waiter' = waiter /\ wakeEvent' = wakeEvent /\ faults' = faults
      /\ Select(a, page)
      /\ passed' = [passed EXCEPT ![a] = @ \union (all \ page)]
      /\ conn' = [conn EXCEPT ![a].stage = "live", ![a].wake = FALSE, ![a].cursor = cursor]
      /\ frames' = IF page = {} THEN frames ELSE [frames EXCEPT ![a] = Append(@, f)]
  BY DEF Fetch, waitVars
<1>2. /\ Pending(a) \subseteq Ids /\ \A i \in Pending(a) : i < nextId
      /\ mode # "peek" => Pending(a) = Waiting(a)
  <2>1. CASE mode = "peek"
    BY <2>1, StoreForms DEF Pending, Unread
  <2>2. CASE mode # "peek"
    BY <2>2, DirectWaits DEF Pending
  <2> QED BY <2>1, <2>2
<1>3. /\ all \subseteq Pending(a) /\ all \subseteq Ids /\ page \subseteq all /\ cursor \in Cursors
      /\ old \in Cursors
      /\ page = {} => all = {} /\ cursor = old
      /\ page # {} => cursor \in page
      /\ \A i \in all : i > old
      /\ \A i \in Pending(a) \ all : ~(i > old)
  <2>1. all \in SUBSET Ids /\ all \subseteq Pending(a) /\ old \in Cursors
    BY <1>2, ListeningForms DEF Above
  <2>2. SocketPage \in Nat /\ SocketPage > 0
    BY ListeningAssumption
  <2>3. page \subseteq all /\ (page = {} => all = {})
    BY <2>1, <2>2, NewestAbove
  <2>4. /\ cursor \in Cursors
        /\ page = {} => cursor = old
        /\ page # {} => cursor \in page
    BY <2>1, <2>3, GreatestOrNot
  <2> QED BY <2>1, <2>3, <2>4 DEF Above
<1>4. nextId' = nextId
  BY <1>1 DEF storeRest
<1>5. f \in FrameRecords /\ f.ids = page /\ f.upto = cursor
  BY <1>3 DEF FrameRecords, Frame
<1> HIDE DEF old, all, page, cursor, f
<1>6. StoreKept' /\ Grows /\ ClaimsKept' /\ DeliveredMeansGiven'
  <2>1. mode = "claim" => page \subseteq Waiting(a)
    BY <1>2, <1>3
  <2> QED BY <1>1, <2>1, SelectKept
<1>7. PrintedFirst'
  BY <1>1, <1>6, PrintedStays
<1>8. /\ conn \in [Receivers -> ConnRecords] /\ frames \in [Receivers -> Seq(FrameRecords)]
      /\ passed \in [Receivers -> SUBSET Ids]
  BY DEF ListeningTypeOK, ConnRecords, FrameRecords
<1>9. /\ conn' \in [Receivers -> ConnRecords] /\ conn'[a].cursor = cursor
      /\ \A b \in Receivers \ {a} : conn'[b] = conn[b]
  <2>1. [conn[a] EXCEPT !.stage = "live", !.wake = FALSE, !.cursor = cursor] \in ConnRecords
    BY <1>3, <1>8 DEF ConnRecords
  <2> QED BY <1>1, <1>3, <1>8, <2>1 DEF ConnRecords
<1>10. /\ frames' \in [Receivers -> Seq(FrameRecords)]
       /\ page = {} => frames'[a] = frames[a]
       /\ page # {} => frames'[a] = Append(frames[a], f)
       /\ \A b \in Receivers \ {a} : frames'[b] = frames[b]
  BY <1>1, <1>5, <1>8
<1>11. /\ passed' \in [Receivers -> SUBSET Ids] /\ passed'[a] = passed[a] \union (all \ page)
       /\ \A b \in Receivers : passed[b] \subseteq passed'[b]
  BY <1>1, <1>3, <1>8
<1>12. ListeningTypeOK'
  BY <1>1, <1>9, <1>10, <1>11 DEF ListeningTypeOK, ConnRecords, FrameRecords
<1>13. ASSUME mode \in {"ack", "poll"}
       PROVE  CursorsKeptFor(a)'
  <2>1. CursorsKeptFor(a)
    BY <1>13 DEF CursorsKept
  <2>2. CASE page = {}
    BY <1>1, <1>3, <1>6, <1>9, <1>10, <1>11, <2>1, <2>2, CursorsStayFor DEF old
  <2>3. CASE page # {}
    <3>1. Covers(a, old, SentBy(frames[a], Len(frames[a])))
      BY <2>1 DEF CursorsKeptFor, old
    <3>2. ASSUME NEW i \in Direct(a)'
          PROVE  i \in Told(a)' \/ i \in page \/ i \in SentBy(frames[a], Len(frames[a]))
      <4>1. i \in Direct(a) /\ i \in Pending(a)
        <5>1. i \in Direct(a)
          BY <1>4, <1>6, StoreForms, DirectShrinks
        <5> QED BY <1>2, <1>13, <5>1, DirectWaits
      <4>2. CASE i \in all
        BY <1>11, <4>2 DEF Told
      <4>3. CASE i \notin all
        <5>1. i <= old
          BY <1>2, <1>3, <4>1, <4>3, IdsAreNats DEF Cursors, NoCursor
        <5>2. Told(a) \subseteq Told(a)'
          BY <1>1, <1>6, <1>11, ToldGrows
        <5> QED BY <3>1, <4>1, <5>1, <5>2 DEF Covers, CoveredBy
      <4> QED BY <4>2, <4>3
    <3>3. cursor < nextId
      BY <1>2, <1>3, <2>3
    <3>4. CoveredBy(Direct(a)', Told(a)', nextId', cursor,
                    SentBy(frames[a], Len(frames[a])) \union page)
      BY <1>4, <3>2, <3>3 DEF CoveredBy
    <3> QED BY <1>1, <1>5, <1>6, <1>9, <1>10, <1>11, <2>1, <2>3, <3>4, FrameSentFor
  <2> QED BY <2>2, <2>3
<1>14. CursorsKept'
  BY <1>1, <1>6, <1>9, <1>10, <1>11, <1>13, CursorsOf
<1> QED BY <1>6, <1>7, <1>12, <1>14 DEF AllKept

LEMMA SocketKept ==
    ASSUME IInv, NEW a \in Receivers, Socket(a)
    PROVE  AllKept
BY ConnectKept, SnapshotKept, FetchKept DEF Socket, Resume, Sweep, Ping

-----------------------------------------------------------------------------
(* Lost connections and killed clients.                                       *)

\* No message is as old as no cursor.
LEMMA NoneBelow ==
    ASSUME StoreKept, NEW a, NEW T, NEW X
    PROVE  CoveredBy(Direct(a), T, nextId, NoCursor, X)
<1>1. nextId \in Int /\ nextId >= 1 /\ Direct(a) \subseteq Nat
  BY StoreForms, IdsAreNats DEF Direct
<1>2. \A i \in Nat : ~(i <= -1)
  OBVIOUS
<1>3. -1 < nextId
  BY <1>1
<1>4. \A i \in Direct(a) : ~(i <= -1)
  BY <1>1, <1>2, Zenon
<1> QED BY <1>3, <1>4 DEF CoveredBy, NoCursor

LEMMA OneFaultMore ==
    ASSUME ListeningTypeOK
    PROVE  LET F == [drops: 0..MaxDrops, kills: 0..MaxKills, acks: 0..MaxLostAcks]
           IN /\ faults.drops < MaxDrops => [faults EXCEPT !.drops = @ + 1] \in F
              /\ faults.kills < MaxKills => [faults EXCEPT !.kills = @ + 1] \in F
              /\ faults.acks < MaxLostAcks => [faults EXCEPT !.acks = @ + 1] \in F
<1>1. MaxDrops \in Nat /\ MaxKills \in Nat /\ MaxLostAcks \in Nat
  BY ListeningAssumption
<1>2. faults \in [drops: 0..MaxDrops, kills: 0..MaxKills, acks: 0..MaxLostAcks]
  BY DEF ListeningTypeOK
<1> QED BY <1>1, <1>2

LEMMA DropKept ==
    ASSUME IInv, NEW a \in Receivers, Drop(a)
    PROVE  AllKept
<1> USE DEF IInv
<1>1. /\ UNCHANGED msgVars /\ mode' = mode /\ client' = client
      /\ backlog' = backlog /\ passed' = passed /\ waiter' = waiter /\ wakeEvent' = wakeEvent
      /\ faults.drops < MaxDrops /\ faults' = [faults EXCEPT !.drops = @ + 1]
      /\ conn' = [conn EXCEPT ![a] = Down] /\ frames' = [frames EXCEPT ![a] = << >>]
  BY DEF Drop, waitVars
<1>2. StoreKept' /\ Grows /\ ClaimsKept' /\ PrintedFirst' /\ DeliveredMeansGiven'
  BY <1>1, StoreAlone
<1>3. /\ conn' \in [Receivers -> ConnRecords] /\ conn'[a].cursor = NoCursor
      /\ \A b \in Receivers \ {a} : conn'[b] = conn[b] /\ frames'[b] = frames[b]
      /\ frames' \in [Receivers -> Seq(FrameRecords)] /\ frames'[a] = << >>
  <2>1. Down \in ConnRecords /\ Down.cursor = NoCursor
    BY DEF Down, ConnRecords, Cursors
  <2>2. << >> \in Seq(FrameRecords)
    OBVIOUS
  <2> QED BY <1>1, <2>1, <2>2 DEF ListeningTypeOK, ConnRecords, FrameRecords
<1>4. faults' \in [drops: 0..MaxDrops, kills: 0..MaxKills, acks: 0..MaxLostAcks]
  BY <1>1, OneFaultMore
<1>5. ListeningTypeOK'
  BY <1>1, <1>3, <1>4 DEF ListeningTypeOK, ConnRecords, FrameRecords
<1>6. ASSUME mode \in {"ack", "poll"}
      PROVE  CursorsKeptFor(a)'
  <2>1. CursorsKeptFor(a)
    BY <1>6 DEF CursorsKept
  <2>2. \A c \in Cursors : \A X, Y :
              CoveredBy(Direct(a), Told(a), nextId, c, X) /\ X \subseteq Told(a)' \union Y
              => CoveredBy(Direct(a)', Told(a)', nextId', c, Y)
    BY <1>1, <1>2, CoverageStays
  <2>3. client[a].cursor \in Cursors /\ client[a].job.upto \in Cursors /\ NoCursor \in Cursors
    BY ListeningForms DEF Cursors
  <2>4. CoveredBy(Direct(a), Told(a), nextId, NoCursor, {})
    BY NoneBelow
  <2>5. CoveredBy(Direct(a)', Told(a)', nextId', NoCursor, SentBy(frames'[a], Len(frames'[a])))
    <3>1. NoCursor \in Cursors
      BY <2>3
    <3> QED BY <2>2, <2>4, <3>1
  <2>6. Len(frames'[a]) = 0
    BY <1>3
  <2>7. 1..Len(frames'[a]) = {}
    BY <2>6
  <2> QED BY <1>1, <1>3, <2>1, <2>2, <2>3, <2>5, <2>7 DEF CursorsKeptFor, Covers
<1>7. CursorsKept'
  BY <1>1, <1>2, <1>3, <1>6, CursorsOf
<1> QED BY <1>2, <1>5, <1>7 DEF AllKept

LEMMA KillKept ==
    ASSUME IInv, NEW a \in Receivers, Kill(a)
    PROVE  AllKept
<1> USE DEF IInv
<1>1. /\ UNCHANGED msgVars /\ mode' = mode /\ client' = [client EXCEPT ![a] = Fresh(@.saved)]
      /\ backlog' = backlog /\ passed' = passed /\ waiter' = waiter /\ wakeEvent' = wakeEvent
      /\ faults.kills < MaxKills /\ faults' = [faults EXCEPT !.kills = @ + 1]
      /\ conn' = [conn EXCEPT ![a] = Down] /\ frames' = [frames EXCEPT ![a] = << >>]
  BY DEF Kill, waitVars
<1>2. client \in [Receivers -> ClientRecords] /\ client[a].saved \in Cursors
  BY ListeningForms DEF ListeningTypeOK, ClientRecords
<1>3. /\ client' \in [Receivers -> ClientRecords]
      /\ client'[a].seen = {} /\ client'[a].job.acks = {} /\ client'[a].job.busy = FALSE
      /\ client'[a].cursor = client[a].saved /\ client'[a].saved = client[a].saved
      /\ \A b \in Receivers \ {a} : client'[b] = client[b]
  <2>1. Fresh(client[a].saved) \in ClientRecords
    BY <1>2 DEF Fresh, Quiet, ClientRecords, Cursors
  <2> QED BY <1>1, <1>2, <2>1 DEF Fresh, Quiet
<1>4. \A b \in Receivers : /\ client'[b].seen \subseteq client[b].seen
                           /\ client'[b].job.acks \subseteq client[b].job.acks
  BY <1>3
<1>5. StoreKept' /\ Grows /\ ClaimsKept' /\ PrintedFirst' /\ DeliveredMeansGiven'
  BY <1>1, <1>4, StoreAlone
<1>6. /\ conn' \in [Receivers -> ConnRecords] /\ conn'[a].cursor = NoCursor
      /\ \A b \in Receivers \ {a} : conn'[b] = conn[b] /\ frames'[b] = frames[b]
      /\ frames' \in [Receivers -> Seq(FrameRecords)] /\ frames'[a] = << >>
  <2>1. Down \in ConnRecords /\ Down.cursor = NoCursor
    BY DEF Down, ConnRecords, Cursors
  <2>2. << >> \in Seq(FrameRecords)
    OBVIOUS
  <2> QED BY <1>1, <2>1, <2>2 DEF ListeningTypeOK, ConnRecords, FrameRecords
<1>7. faults' \in [drops: 0..MaxDrops, kills: 0..MaxKills, acks: 0..MaxLostAcks]
  BY <1>1, OneFaultMore
<1>8. ListeningTypeOK'
  BY <1>1, <1>3, <1>6, <1>7 DEF ListeningTypeOK, ConnRecords, FrameRecords, ClientRecords
<1>9. ASSUME mode \in {"ack", "poll"}
      PROVE  CursorsKeptFor(a)'
  <2>1. CursorsKeptFor(a)
    BY <1>9 DEF CursorsKept
  <2>2. \A c \in Cursors : \A X, Y :
              CoveredBy(Direct(a), Told(a), nextId, c, X) /\ X \subseteq Told(a)' \union Y
              => CoveredBy(Direct(a)', Told(a)', nextId', c, Y)
    BY <1>1, <1>5, CoverageStays
  <2>3. /\ client[a].saved \in Cursors /\ client[a].cursor \in Cursors /\ NoCursor \in Cursors
        /\ Cursors \subseteq Int /\ Direct(a) \subseteq Int /\ nextId \in Int
    <3>1. Cursors \subseteq Int /\ NoCursor \in Cursors
      BY IdsAreNats DEF Cursors, NoCursor
    <3>2. Direct(a) \subseteq Int /\ nextId \in Int
      BY StoreForms, IdsAreNats DEF Direct
    <3> QED BY <3>1, <3>2, ListeningForms
  <2>4. CoveredBy(Direct(a), Told(a), nextId, NoCursor, {})
    BY NoneBelow
  <2>5. CoveredBy(Direct(a), Told(a), nextId, client[a].saved, {})
    <3>1. /\ client[a].saved <= client[a].cursor
          /\ CoveredBy(Direct(a), Told(a), nextId, client[a].cursor, {})
      BY <2>1 DEF CursorsKeptFor, Covers
    <3>2. client[a].saved \in Int /\ client[a].cursor \in Int
      BY <2>3
    <3>3. \A i \in Direct(a) : i \in Int
      BY <2>3
    <3> QED BY <2>3, <3>1, <3>2, <3>3 DEF CoveredBy
  <2>6. /\ CoveredBy(Direct(a)', Told(a)', nextId', NoCursor, SentBy(frames'[a], Len(frames'[a])))
        /\ CoveredBy(Direct(a)', Told(a)', nextId', client[a].saved, {})
    <3>1. NoCursor \in Cursors /\ client[a].saved \in Cursors
      BY <2>3
    <3>2. CoveredBy(Direct(a)', Told(a)', nextId', client[a].saved, {})
      BY <2>2, <2>5, <3>1
    <3>3. CoveredBy(Direct(a)', Told(a)', nextId', NoCursor, SentBy(frames'[a], Len(frames'[a])))
      BY <2>2, <2>4, <3>1
    <3> QED BY <3>2, <3>3
  <2>7. Len(frames'[a]) = 0
    BY <1>6
  <2>8. 1..Len(frames'[a]) = {}
    BY <2>7
  <2>9. client'[a].saved <= client'[a].cursor
    <3>1. client[a].saved \in Int
      BY <2>3
    <3> QED BY <1>3, <3>1
  <2> QED BY <1>3, <1>6, <2>6, <2>8, <2>9 DEF CursorsKeptFor, Covers
<1>10. CursorsKept'
  BY <1>1, <1>3, <1>5, <1>6, <1>9, CursorsOf
<1> QED BY <1>5, <1>8, <1>10 DEF AllKept

LEMMA AckLostKept ==
    ASSUME IInv, NEW a \in Receivers, NEW i \in Ids, AckLost(a, i)
    PROVE  AllKept
<1> USE DEF IInv
<1>1. /\ UNCHANGED msgVars /\ mode' = mode /\ conn' = conn /\ frames' = frames
      /\ client' = [client EXCEPT ![a].job.acks = @ \ {i}]
      /\ backlog' = backlog /\ passed' = passed /\ waiter' = waiter /\ wakeEvent' = wakeEvent
      /\ faults.acks < MaxLostAcks /\ faults' = [faults EXCEPT !.acks = @ + 1]
  BY DEF AckLost, waitVars
<1>2. client \in [Receivers -> ClientRecords]
  BY DEF ListeningTypeOK, ClientRecords
<1>3. /\ client' \in [Receivers -> ClientRecords]
      /\ \A b \in Receivers :
            /\ client'[b].seen \subseteq client[b].seen
            /\ client'[b].job.acks \subseteq client[b].job.acks
            /\ client'[b].cursor = client[b].cursor /\ client'[b].saved = client[b].saved
            /\ client'[b].job.busy = client[b].job.busy
            /\ client'[b].job.upto = client[b].job.upto
  BY <1>1, <1>2 DEF ClientRecords
<1>4. StoreKept' /\ Grows /\ ClaimsKept' /\ PrintedFirst' /\ DeliveredMeansGiven'
  BY <1>1, <1>3, StoreAlone
<1>5. faults' \in [drops: 0..MaxDrops, kills: 0..MaxKills, acks: 0..MaxLostAcks]
  BY <1>1, OneFaultMore
<1>6. ListeningTypeOK'
  BY <1>1, <1>3, <1>5 DEF ListeningTypeOK, ClientRecords
<1>7. CursorsKept'
  BY <1>1, <1>3, <1>4, CursorsStay
<1> QED BY <1>4, <1>6, <1>7 DEF AllKept

LEMMA FaultsKept ==
    ASSUME IInv, NEW a \in Receivers, Faults(a)
    PROVE  AllKept
BY DropKept, KillKept, AckLostKept DEF Faults

-----------------------------------------------------------------------------
(* The client.                                                                *)

\* What is received is given to the agent before it is acknowledged.
LEMMA HandleKept ==
    ASSUME IInv, NEW a \in Receivers, NEW S \in SUBSET Ids, NEW upto \in Cursors,
           Handle(a, S, upto), mode' = mode,
           UNCHANGED <<stored, registered, draft, claimed, again, severed, walk>>
    PROVE  /\ StoreKept' /\ Grows /\ ClaimsKept' /\ PrintedFirst' /\ DeliveredMeansGiven'
           /\ client' \in [Receivers -> ClientRecords]
           /\ client'[a].cursor = client[a].cursor /\ client'[a].saved = client[a].saved
           /\ client'[a].job.busy = TRUE /\ client'[a].job.upto = upto
           /\ \A b \in Receivers \ {a} : client'[b] = client[b]
           /\ \A i \in S : a \in given'[i]
<1> USE DEF IInv
<1>1. /\ msgs' = msgs /\ claimed' = claimed /\ again' = again
      /\ UNCHANGED <<threads, nextId, clock, registered, draft, severed, walk>>
  BY DEF stored
<1> DEFINE job == [busy |-> TRUE, acks |-> IF mode = "peek" THEN {} ELSE S, upto |-> upto]
<1>2. /\ client' = [client EXCEPT ![a].seen = @ \union S, ![a].first = FALSE, ![a].job = job]
      /\ Gives(S \ client[a].seen, a)
  BY DEF Handle
<1>3. client \in [Receivers -> ClientRecords] /\ client[a] \in ClientRecords
  BY ListeningForms DEF ListeningTypeOK, ClientRecords
<1>4. /\ job \in [busy: BOOLEAN, acks: SUBSET Ids, upto: Cursors]
      /\ job.busy = TRUE /\ job.upto = upto /\ job.acks \subseteq S
  OBVIOUS
<1> HIDE DEF job
<1> DEFINE c == [client[a] EXCEPT !.seen = @ \union S, !.first = FALSE, !.job = job]
<1>5. /\ c \in ClientRecords /\ c.seen = client[a].seen \union S /\ c.job = job
      /\ c.cursor = client[a].cursor /\ c.saved = client[a].saved
  BY <1>3, <1>4 DEF ClientRecords
<1>6. client'[a] = c /\ \A b \in Receivers \ {a} : client'[b] = client[b]
  BY <1>2, <1>3
<1>7. client' \in [Receivers -> ClientRecords]
  <2>1. client' = [client EXCEPT ![a] = c]
    BY <1>2
  <2> HIDE DEF c
  <2> QED BY <1>3, <1>5, <2>1
<1> HIDE DEF c
<1>8. /\ given' \in [Ids -> SUBSET Receivers]
      /\ \A i \in Ids : given[i] \subseteq given'[i]
      /\ \A i \in S \ client[a].seen : a \in given'[i]
  BY <1>2, StoreForms, GivesForm
<1>9. \A i \in S : a \in given'[i]
  BY <1>8 DEF PrintedFirst
<1>10. StoreKept' /\ Grows
  BY <1>1, <1>8, StoreForms, NotMarked, ChannelKept
<1>11. MarksGiven
  BY <1>1 DEF MarksGiven
<1>12. PrintedFirst'
  <2>1. ASSUME NEW i \in client'[a].seen \union client'[a].job.acks
        PROVE  a \in given'[i]
    <3>1. i \in S \/ i \in client[a].seen
      BY <1>4, <1>5, <1>6
    <3>2. client[a].seen \subseteq Ids
      BY ListeningForms
    <3> QED BY <1>8, <1>9, <3>1, <3>2 DEF PrintedFirst
  <2>2. ASSUME NEW b \in Receivers \ {a}, NEW i \in client'[b].seen \union client'[b].job.acks
        PROVE  b \in given'[i]
    <3>1. client[b].seen \subseteq Ids /\ client[b].job.acks \subseteq Ids
      BY ListeningForms
    <3> QED BY <1>6, <1>8, <3>1 DEF PrintedFirst
  <2> QED BY <2>1, <2>2 DEF PrintedFirst
<1> QED BY <1>1, <1>4, <1>5, <1>6, <1>7, <1>9, <1>10, <1>11, <1>12, ClaimsStay, DeliveredStays

LEMMA ReceiveKept ==
    ASSUME IInv, NEW a \in Receivers, Receive(a)
    PROVE  AllKept
<1> USE DEF IInv
<1> DEFINE s == frames[a]
           f == Head(s)
<1>1. /\ UNCHANGED <<stored, registered, draft, claimed, again, severed, walk>>
      /\ mode' = mode /\ conn' = conn /\ backlog' = backlog /\ passed' = passed
      /\ waiter' = waiter /\ wakeEvent' = wakeEvent /\ faults' = faults
      /\ s # << >> /\ Handle(a, f.ids, f.upto)
      /\ frames' = [frames EXCEPT ![a] = Tail(@)]
  BY DEF Receive, waitVars
<1>2. s \in Seq(FrameRecords) /\ frames \in [Receivers -> Seq(FrameRecords)]
  BY ListeningForms DEF ListeningTypeOK, FrameRecords
<1>3. /\ Tail(s) \in Seq(FrameRecords) /\ Len(Tail(s)) = Len(s) - 1 /\ Len(s) \in Nat
      /\ f = s[1] /\ Len(s) >= 1
      /\ \A k \in 0..(Len(s) - 1) : SentBy(s, k + 1) = f.ids \union SentBy(Tail(s), k)
      /\ \A k \in 1..(Len(s) - 1) : Tail(s)[k] = s[k + 1]
  BY <1>1, <1>2, SentLess
<1>4. f \in FrameRecords /\ f.ids \in SUBSET Ids /\ f.upto \in Cursors
  <2>1. 1 \in 1..Len(s)
    BY <1>3
  <2> QED BY <1>3, <2>1, ListeningForms
<1> HIDE DEF f
<1>5. /\ StoreKept' /\ Grows /\ ClaimsKept' /\ PrintedFirst' /\ DeliveredMeansGiven'
      /\ client' \in [Receivers -> ClientRecords]
      /\ client'[a].cursor = client[a].cursor /\ client'[a].saved = client[a].saved
      /\ client'[a].job.busy = TRUE /\ client'[a].job.upto = f.upto
      /\ \A b \in Receivers \ {a} : client'[b] = client[b]
      /\ \A i \in f.ids : a \in given'[i]
  BY <1>1, <1>4, HandleKept
<1>6. /\ frames' \in [Receivers -> Seq(FrameRecords)] /\ frames'[a] = Tail(s)
      /\ \A b \in Receivers \ {a} : frames'[b] = frames[b]
  BY <1>1, <1>2, <1>3
<1>7. ListeningTypeOK'
  BY <1>1, <1>5, <1>6 DEF ListeningTypeOK, FrameRecords, ClientRecords
<1>8. ASSUME mode \in {"ack", "poll"}
      PROVE  CursorsKeptFor(a)'
  <2>1. CursorsKeptFor(a)
    BY <1>8 DEF CursorsKept
  <2>2. \A c \in Cursors : \A X, Y :
              CoveredBy(Direct(a), Told(a), nextId, c, X) /\ X \subseteq Told(a)' \union Y
              => CoveredBy(Direct(a)', Told(a)', nextId', c, Y)
    BY <1>1, <1>5, CoverageStays
  <2>3. f.ids \subseteq Told(a)'
    BY <1>4, <1>5 DEF Told
  <2>4. \A k \in 0..(Len(s) - 1) : \A c \in Cursors :
           CoveredBy(Direct(a), Told(a), nextId, c, SentBy(s, k + 1))
           => CoveredBy(Direct(a)', Told(a)', nextId', c, SentBy(Tail(s), k))
    <3> TAKE k \in 0..(Len(s) - 1)
    <3> TAKE c \in Cursors
    <3>1. SentBy(s, k + 1) \subseteq Told(a)' \union SentBy(Tail(s), k)
      BY <1>3, <2>3
    <3> QED BY <2>2, <3>1
  <2>5. /\ client[a].cursor \in Cursors /\ conn[a].cursor \in Cursors
        /\ \A k \in 1..Len(s) : s[k].upto \in Cursors
    BY ListeningForms
  <2>6. CoveredBy(Direct(a)', Told(a)', nextId', f.upto, {})
    <3>1. 1 \in 1..Len(s) /\ 0 \in 0..(Len(s) - 1)
      BY <1>3
    <3>2. CoveredBy(Direct(a), Told(a), nextId, f.upto, SentBy(s, 1))
      BY <1>3, <2>1, <3>1 DEF CursorsKeptFor, Covers
    <3>3. SentBy(Tail(s), 0) = {}
      <4>1. 1..0 = {}
        OBVIOUS
      <4> QED BY <4>1 DEF SentBy
    <3>4. SentBy(s, 1) = f.ids
      <4>1. SentBy(s, 0 + 1) = f.ids \union SentBy(Tail(s), 0)
        BY <1>3, <3>1
      <4> QED BY <3>3, <4>1
    <3> QED BY <1>4, <2>2, <2>3, <3>2, <3>4
  <2>7. ASSUME NEW k \in 1..Len(frames'[a])
        PROVE  CoveredBy(Direct(a)', Told(a)', nextId', frames'[a][k].upto, SentBy(frames'[a], k))
    <3>1. k \in 1..(Len(s) - 1) /\ k \in 0..(Len(s) - 1) /\ k + 1 \in 1..Len(s)
      BY <1>3, <1>6
    <3>2. CoveredBy(Direct(a), Told(a), nextId, s[k + 1].upto, SentBy(s, k + 1))
      BY <2>1, <3>1 DEF CursorsKeptFor, Covers
    <3> QED BY <1>3, <1>6, <2>4, <2>5, <3>1, <3>2
  <2>8. CoveredBy(Direct(a)', Told(a)', nextId', conn[a].cursor,
                  SentBy(frames'[a], Len(frames'[a])))
    <3>1. Len(s) - 1 \in 0..(Len(s) - 1) /\ (Len(s) - 1) + 1 = Len(s)
      BY <1>3
    <3>2. CoveredBy(Direct(a), Told(a), nextId, conn[a].cursor, SentBy(s, Len(s)))
      BY <2>1 DEF CursorsKeptFor, Covers
    <3> QED BY <1>3, <1>6, <2>4, <2>5, <3>1, <3>2
  <2>9. /\ CoveredBy(Direct(a)', Told(a)', nextId', client'[a].cursor, {})
        /\ client'[a].saved <= client'[a].cursor
    BY <1>5, <2>1, <2>2, <2>5 DEF CursorsKeptFor, Covers
  <2> QED BY <1>1, <1>5, <2>6, <2>7, <2>8, <2>9 DEF CursorsKeptFor, Covers
<1>9. CursorsKept'
  BY <1>1, <1>5, <1>6, <1>8, CursorsOf
<1> QED BY <1>5, <1>7, <1>9 DEF AllKept

LEMMA PollKept ==
    ASSUME IInv, NEW a \in Receivers, Poll(a)
    PROVE  AllKept
<1> USE DEF IInv
<1> DEFINE all == Above(Waiting(a), client[a].cursor)
           page == Newest(all, SocketPage)
           upto == Max(page)
<1>1. /\ UNCHANGED <<stored, registered, draft, claimed, again, severed, walk>>
      /\ mode' = mode /\ conn' = conn /\ frames' = frames
      /\ waiter' = waiter /\ wakeEvent' = wakeEvent /\ faults' = faults
      /\ page # {} /\ Handle(a, page, upto)
      /\ \/ backlog' = [backlog EXCEPT ![a] = @ \union (all \ page)] /\ passed' = passed
         \/ passed' = [passed EXCEPT ![a] = @ \union (all \ page)] /\ backlog' = backlog
  BY DEF Poll, waitVars
<1>2. /\ all \subseteq Waiting(a) /\ all \in SUBSET Ids /\ page \in SUBSET Ids
      /\ page \subseteq all /\ upto \in page /\ upto \in Cursors /\ upto < nextId
      /\ \A i \in Waiting(a) \ all : ~(i > client[a].cursor)
  <2>1. /\ all \in SUBSET Ids /\ all \subseteq Waiting(a) /\ \A i \in Waiting(a) : i < nextId
        /\ \A i \in Waiting(a) \ all : ~(i > client[a].cursor)
    BY DirectWaits DEF Above
  <2>2. SocketPage \in Nat
    BY ListeningAssumption
  <2>3. page \subseteq all
    BY <2>1, <2>2, NewestAbove
  <2>4. upto \in page
    BY <1>1, <2>1, <2>3, GreatestId
  <2> QED BY <2>1, <2>3, <2>4 DEF Cursors
<1> HIDE DEF all, page, upto
<1>3. /\ StoreKept' /\ Grows /\ ClaimsKept' /\ PrintedFirst' /\ DeliveredMeansGiven'
      /\ client' \in [Receivers -> ClientRecords]
      /\ client'[a].cursor = client[a].cursor /\ client'[a].saved = client[a].saved
      /\ client'[a].job.busy = TRUE /\ client'[a].job.upto = upto
      /\ \A b \in Receivers \ {a} : client'[b] = client[b]
      /\ \A i \in page : a \in given'[i]
  BY <1>1, <1>2, HandleKept
<1>4. /\ backlog' \in [Receivers -> SUBSET Ids] /\ passed' \in [Receivers -> SUBSET Ids]
      /\ \A b \in Receivers : backlog[b] \subseteq backlog'[b] /\ passed[b] \subseteq passed'[b]
      /\ \A i \in all \ page : i \in backlog'[a] \/ i \in passed'[a]
  <2>1. /\ backlog \in [Receivers -> SUBSET Ids] /\ passed \in [Receivers -> SUBSET Ids]
    BY DEF ListeningTypeOK
  <2> QED BY <1>1, <1>2, <2>1
<1>5. ListeningTypeOK'
  BY <1>1, <1>3, <1>4 DEF ListeningTypeOK, ClientRecords
<1>6. ASSUME mode \in {"ack", "poll"}
      PROVE  CursorsKeptFor(a)'
  <2>1. CursorsKeptFor(a)
    BY <1>6 DEF CursorsKept
  <2>2. \A c \in Cursors : \A X, Y :
              CoveredBy(Direct(a), Told(a), nextId, c, X) /\ X \subseteq Told(a)' \union Y
              => CoveredBy(Direct(a)', Told(a)', nextId', c, Y)
    BY <1>3, <1>4, CoverageStays
  <2>3. /\ client[a].cursor \in Cursors /\ conn[a].cursor \in Cursors
        /\ \A k \in 1..Len(frames[a]) : frames[a][k].upto \in Cursors
    BY ListeningForms
  <2>4. nextId' = nextId
    BY <1>1 DEF stored
  <2>5. ASSUME NEW i \in Direct(a)'
        PROVE  i \in Told(a)'
    <3>1. i \in Direct(a)
      BY <1>3, <2>4, StoreForms, DirectShrinks
    <3>2. i \in Waiting(a) /\ i \in Ids
      BY <3>1, DirectWaits
    <3>3. CASE i \in page
      BY <1>2, <1>3, <3>2, <3>3 DEF Told
    <3>4. CASE i \in all \ page
      BY <1>4, <3>4 DEF Told
    <3>5. CASE i \notin all
      <4>1. i <= client[a].cursor
        <5>1. i \in Int /\ client[a].cursor \in Int
          BY <2>3, <3>2, IdsAreNats DEF Cursors, NoCursor
        <5>2. ~(i > client[a].cursor)
          BY <1>2, <3>2, <3>5
        <5> QED BY <5>1, <5>2
      <4>2. i \in Told(a)
        BY <2>1, <3>1, <4>1 DEF CursorsKeptFor, Covers, CoveredBy
      <4> QED BY <1>3, <1>4, <4>2, ToldGrows
    <3> QED BY <3>3, <3>4, <3>5
  <2>6. CoveredBy(Direct(a)', Told(a)', nextId', upto, {})
    BY <1>2, <2>4, <2>5 DEF CoveredBy
  <2>7. \A k : SentBy(frames'[a], k) = SentBy(frames[a], k)
    BY <1>1
  <2> QED BY <1>1, <1>3, <2>1, <2>2, <2>3, <2>6, <2>7 DEF CursorsKeptFor, Covers
<1>7. CursorsKept'
  BY <1>1, <1>3, <1>4, <1>6, CursorsOf
<1> QED BY <1>3, <1>5, <1>7 DEF AllKept

LEMMA PollNothingKept ==
    ASSUME IInv, NEW a \in Receivers, PollNothing(a)
    PROVE  AllKept
<1> USE DEF IInv
<1>1. /\ UNCHANGED msgVars /\ mode' = mode /\ conn' = conn /\ frames' = frames
      /\ client' = [client EXCEPT ![a].first = FALSE]
      /\ backlog' = backlog /\ passed' = passed /\ waiter' = waiter /\ wakeEvent' = wakeEvent
      /\ faults' = faults
  BY DEF PollNothing, waitVars
<1>2. client \in [Receivers -> ClientRecords]
  BY DEF ListeningTypeOK, ClientRecords
<1>3. /\ client' \in [Receivers -> ClientRecords]
      /\ \A b \in Receivers :
            /\ client'[b].seen = client[b].seen /\ client'[b].job = client[b].job
            /\ client'[b].cursor = client[b].cursor /\ client'[b].saved = client[b].saved
  BY <1>1, <1>2 DEF ClientRecords
<1>4. StoreKept' /\ Grows /\ ClaimsKept' /\ PrintedFirst' /\ DeliveredMeansGiven'
  BY <1>1, <1>3, StoreAlone
<1>5. ListeningTypeOK'
  BY <1>1, <1>3 DEF ListeningTypeOK, ClientRecords
<1>6. CursorsKept'
  BY <1>1, <1>3, <1>4, CursorsStay
<1> QED BY <1>4, <1>5, <1>6 DEF AllKept

\* What is acknowledged was given.
LEMMA AcknowledgeKept ==
    ASSUME IInv, NEW a \in Receivers, NEW i \in Ids, Acknowledge(a, i)
    PROVE  AllKept
<1> USE DEF IInv
<1>1. /\ UNCHANGED storeRest /\ claimed' = claimed /\ again' = again
      /\ mode' = mode /\ conn' = conn /\ frames' = frames
      /\ i \in client[a].job.acks
      /\ client' = [client EXCEPT ![a].job.acks = @ \ {i}]
      /\ backlog' = backlog /\ passed' = passed /\ waiter' = waiter /\ wakeEvent' = wakeEvent
      /\ faults' = faults
      /\ msgs' = IF i \in DOMAIN msgs /\ IsFor(msgs[i], a, threads)
                 THEN MarkedDelivered(msgs, {i}, a) ELSE msgs
  BY DEF Acknowledge, waitVars
<1>2. client \in [Receivers -> ClientRecords]
  BY DEF ListeningTypeOK, ClientRecords
<1>3. /\ client' \in [Receivers -> ClientRecords]
      /\ \A b \in Receivers :
            /\ client'[b].seen \subseteq client[b].seen
            /\ client'[b].job.acks \subseteq client[b].job.acks
            /\ client'[b].cursor = client[b].cursor /\ client'[b].saved = client[b].saved
            /\ client'[b].job.busy = client[b].job.busy
            /\ client'[b].job.upto = client[b].job.upto
  BY <1>1, <1>2 DEF ClientRecords
<1>4. /\ given' = given
      /\ UNCHANGED <<threads, nextId, clock, registered, draft, severed, walk>>
  BY <1>1 DEF storeRest
<1>5. /\ msgs' \in Stores /\ Marked(msgs, msgs')
      /\ \A j \in DOMAIN msgs : msgs'[j].delivered # msgs[j].delivered
            => j = i /\ msgs'[j].delivered = msgs[j].delivered \union {a}
  <2>1. CASE msgs' = MarkedDelivered(msgs, {i}, a)
    <3>1. msgs \in Stores
      BY StoreForms
    <3> DEFINE one == {i}
    <3> DEFINE ns == MarkedDelivered(msgs, one, a)
    <3>2. msgs' = ns /\ \A j \in one : j = i
      BY <2>1
    <3> HIDE DEF one
    <3>3. /\ ns \in Stores /\ Marked(msgs, ns)
          /\ \A j \in DOMAIN msgs : ns[j].delivered # msgs[j].delivered
                => j \in one /\ ns[j].delivered = msgs[j].delivered \union {a}
      BY <3>1, DeliveredMarks
    <3> HIDE DEF ns
    <3> QED BY <3>2, <3>3
  <2>2. CASE msgs' = msgs
    BY <2>2, StoreForms, NotMarked
  <2> QED BY <1>1, <2>1, <2>2
<1>6. StoreKept' /\ Grows
  <2>1. given' \in [Ids -> SUBSET Receivers] /\ \A j \in Ids : given[j] \subseteq given'[j]
    BY <1>4, StoreForms
  <2>2. claimed' \in [Ids -> SUBSET Receivers] /\ again' \subseteq Ids \X Receivers
    BY <1>1, StoreForms
  <2> QED BY <1>4, <1>5, <2>1, <2>2, ChannelKept
<1>7. MarksGiven
  <2>1. a \in given[i]
    BY <1>1 DEF PrintedFirst
  <2> QED BY <1>4, <1>5, <2>1 DEF MarksGiven, Marked
<1>8. ClaimsKept'
  BY <1>1, <1>6, ClaimsStay
<1>9. PrintedFirst'
  BY <1>3, <1>6, PrintedStays
<1>10. DeliveredMeansGiven'
  BY <1>1, <1>6, <1>7, DeliveredStays
<1>11. ListeningTypeOK'
  BY <1>1, <1>3 DEF ListeningTypeOK, ClientRecords
<1>12. CursorsKept'
  BY <1>1, <1>3, <1>6, CursorsStay
<1> QED BY <1>6, <1>8, <1>9, <1>10, <1>11, <1>12 DEF AllKept

\* The larger of two covered cursors is covered.
LEMMA AdvanceKept ==
    ASSUME IInv, NEW a \in Receivers, Advance(a)
    PROVE  AllKept
<1> USE DEF IInv
<1> DEFINE old == client[a].cursor
           upto == client[a].job.upto
           saved == client[a].saved
           cursor == Max({old, upto})
           next == IF mode = "peek" THEN saved ELSE Max({saved, cursor})
<1>1. /\ UNCHANGED msgVars /\ mode' = mode /\ conn' = conn /\ frames' = frames
      /\ client[a].job.busy
      /\ client' = [client EXCEPT ![a].cursor = cursor, ![a].job = Quiet, ![a].saved = next]
      /\ backlog' = backlog /\ passed' = passed /\ waiter' = waiter /\ wakeEvent' = wakeEvent
      /\ faults' = faults
  BY DEF Advance, waitVars
<1>2. client \in [Receivers -> ClientRecords] /\ client[a] \in ClientRecords
  BY DEF ListeningTypeOK, ClientRecords
<1>3. /\ old \in Cursors /\ upto \in Cursors /\ saved \in Cursors
      /\ old \in Int /\ upto \in Int /\ saved \in Int
  <2>1. Cursors \subseteq Int
    BY IdsAreNats DEF Cursors, NoCursor
  <2> QED BY <2>1, ListeningForms
<1>4. cursor = (IF old >= upto THEN old ELSE upto) /\ cursor \in Cursors /\ cursor \in Int
  BY <1>3, LargerOfTwo
<1>5. /\ next \in Cursors
      /\ mode # "peek" /\ saved <= old => next <= cursor
  <2>1. Max({saved, cursor}) = IF saved >= cursor THEN saved ELSE cursor
    BY <1>3, <1>4, LargerOfTwo
  <2> QED BY <1>3, <1>4, <2>1
<1> HIDE DEF cursor, next
<1> DEFINE c == [client[a] EXCEPT !.cursor = cursor, !.job = Quiet, !.saved = next]
<1>6. /\ c \in ClientRecords /\ c.seen = client[a].seen /\ c.job.acks = {} /\ c.job.busy = FALSE
      /\ c.cursor = cursor /\ c.saved = next
  BY <1>2, <1>4, <1>5 DEF ClientRecords, Quiet, Cursors
<1>7. client' = [client EXCEPT ![a] = c]
  BY <1>1
<1> HIDE DEF c
<1>8. /\ client' \in [Receivers -> ClientRecords] /\ client'[a] = c
      /\ \A b \in Receivers \ {a} : client'[b] = client[b]
  BY <1>2, <1>6, <1>7
<1>9. \A b \in Receivers : /\ client'[b].seen \subseteq client[b].seen
                           /\ client'[b].job.acks \subseteq client[b].job.acks
  BY <1>6, <1>8
<1>10. StoreKept' /\ Grows /\ ClaimsKept' /\ PrintedFirst' /\ DeliveredMeansGiven'
  BY <1>1, <1>9, StoreAlone
<1>11. ListeningTypeOK'
  BY <1>1, <1>8 DEF ListeningTypeOK, ClientRecords
<1>12. ASSUME mode \in {"ack", "poll"}
       PROVE  CursorsKeptFor(a)'
  <2>1. CursorsKeptFor(a)
    BY <1>12 DEF CursorsKept
  <2>2. \A x \in Cursors : \A X :
              CoveredBy(Direct(a), Told(a), nextId, x, X)
              => CoveredBy(Direct(a)', Told(a)', nextId', x, X)
    BY <1>1, <1>10, CoverageStays
  <2>3. CoveredBy(Direct(a), Told(a), nextId, cursor, {})
    BY <1>1, <1>4, <2>1 DEF CursorsKeptFor, Covers
  <2>4. CoveredBy(Direct(a)', Told(a)', nextId', client'[a].cursor, {})
    BY <1>4, <1>6, <1>8, <2>2, <2>3
  <2>5. client'[a].saved <= client'[a].cursor /\ client'[a].job.busy = FALSE
    <3>1. mode # "peek" /\ saved <= old
      BY <1>12, <2>1 DEF CursorsKeptFor
    <3> QED BY <1>5, <1>6, <1>8, <3>1
  <2>6. \A k : SentBy(frames'[a], k) = SentBy(frames[a], k)
    BY <1>1
  <2>7. conn[a].cursor \in Cursors /\ \A k \in 1..Len(frames[a]) : frames[a][k].upto \in Cursors
    BY ListeningForms
  <2> QED BY <1>1, <2>1, <2>2, <2>4, <2>5, <2>6, <2>7 DEF CursorsKeptFor, Covers
<1>13. CursorsKept'
  BY <1>1, <1>8, <1>10, <1>12, CursorsOf
<1> QED BY <1>10, <1>11, <1>13 DEF AllKept

LEMMA ClientKept ==
    ASSUME IInv, NEW a \in Receivers, Client(a)
    PROVE  AllKept
BY ReceiveKept, PollKept, PollNothingKept, AdvanceKept, AcknowledgeKept DEF Client

-----------------------------------------------------------------------------
(* wait_any.                                                                   *)

\* Steps that park, wake or end a call.
LEMMA WaiterKept ==
    ASSUME IInv, NEW a \in Receivers,
           NEW stage \in {"none", "check", "clear", "parked"}, NEW w \in BOOLEAN,
           waiter' = [waiter EXCEPT ![a] = stage], wakeEvent' = w,
           UNCHANGED <<msgVars, socketVars, faults>>
    PROVE  AllKept
<1> USE DEF IInv
<1>1. /\ UNCHANGED msgVars /\ mode' = mode /\ conn' = conn /\ frames' = frames
      /\ client' = client /\ backlog' = backlog /\ passed' = passed /\ faults' = faults
  BY DEF socketVars
<1>2. StoreKept' /\ Grows /\ ClaimsKept' /\ PrintedFirst' /\ DeliveredMeansGiven'
  BY <1>1, StoreAlone
<1>3. ListeningTypeOK'
  BY <1>1 DEF ListeningTypeOK
<1>4. CursorsKept'
  BY <1>1, <1>2, CursorsStay
<1> QED BY <1>2, <1>3, <1>4 DEF AllKept

LEMMA WaitCheckKept ==
    ASSUME IInv, NEW a \in Receivers, WaitCheck(a)
    PROVE  AllKept
<1> USE DEF IInv
<1> DEFINE page == Newest(Waiting(a), WaitLimit)
<1>1. /\ UNCHANGED <<threads, nextId, clock, registered, draft, severed, walk>>
      /\ mode' = mode /\ conn' = conn /\ frames' = frames
      /\ client' = client /\ backlog' = backlog /\ passed' = passed
      /\ wakeEvent' = wakeEvent /\ faults' = faults
      /\ Claim(a, page) /\ Gives(page, a)
      /\ waiter' = [waiter EXCEPT ![a] = IF page = {} THEN "clear" ELSE "none"]
  BY DEF WaitCheck, socketVars
<1>2. page \subseteq Waiting(a) /\ page \subseteq Ids
  BY DirectWaits DEF Newest
<1> HIDE DEF page
<1>3. /\ msgs' \in Stores /\ Marked(msgs, msgs')
      /\ \A i \in DOMAIN msgs : msgs'[i].delivered # msgs[i].delivered
            => i \in page /\ msgs'[i].delivered = msgs[i].delivered \union {a}
      /\ claimed' \in [Ids -> SUBSET Receivers] /\ again' = {} /\ ClaimsKept'
  BY <1>1, <1>2, ClaimSound
<1>4. /\ given' \in [Ids -> SUBSET Receivers]
      /\ \A i \in Ids : given[i] \subseteq given'[i]
      /\ \A i \in Ids : i \in page => a \in given'[i]
  BY <1>1, StoreForms, GivesForm
<1>5. StoreKept' /\ Grows
  BY <1>1, <1>3, <1>4, ChannelKept
<1>6. MarksGiven
  BY <1>2, <1>3, <1>4 DEF MarksGiven, Marked
<1>7. PrintedFirst'
  BY <1>1, <1>5, PrintedStays
<1>8. DeliveredMeansGiven'
  BY <1>1, <1>5, <1>6, DeliveredStays
<1>9. ListeningTypeOK'
  BY <1>1 DEF ListeningTypeOK
<1>10. CursorsKept'
  BY <1>1, <1>5, CursorsStay
<1> QED BY <1>3, <1>5, <1>7, <1>8, <1>9, <1>10 DEF AllKept

LEMMA WaitsKept ==
    ASSUME IInv, NEW a \in Receivers, WaitCall(a) \/ Wait(a) \/ WaitTimeout(a)
    PROVE  AllKept
<1>1. wakeEvent \in BOOLEAN /\ FALSE \in BOOLEAN
  BY DEF IInv, ListeningTypeOK
<1>2. CASE WaitCall(a) \/ WaitPark(a) \/ WaitWoken(a) \/ WaitPoll(a) \/ WaitTimeout(a)
  BY <1>1, <1>2, WaiterKept DEF WaitCall, WaitPark, WaitWoken, WaitPoll, WaitTimeout
<1>3. CASE WaitCheck(a)
  BY <1>3, WaitCheckKept
<1> QED BY <1>2, <1>3 DEF Wait

-----------------------------------------------------------------------------
(* The inductive invariant.                                                   *)

LEMMA InitIInv == Init => IInv
<1> SUFFICES ASSUME Init PROVE IInv
  OBVIOUS
<1>1. /\ MessagesInit
      /\ mode \in (IF "socket" \in calls THEN Modes ELSE {"poll"})
      /\ conn = [a \in Receivers |-> Down]
      /\ frames = [a \in Receivers |-> << >>]
      /\ client = [a \in Receivers |-> Fresh(NoCursor)]
      /\ backlog = [a \in Receivers |-> {}] /\ passed = [a \in Receivers |-> {}]
      /\ waiter = [a \in Receivers |-> "none"] /\ wakeEvent = FALSE
      /\ faults = [drops |-> 0, kills |-> 0, acks |-> 0]
  BY DEF Init
<1>2. DOMAIN msgs = {} /\ DOMAIN threads = {} /\ nextId = 1 /\ again = {}
  BY <1>1, SMTT(30) DEF MessagesInit
<1>3. MessagesTypeOK
  <2>1. /\ msgs \in [DOMAIN msgs -> MessageRecords] /\ threads \in [DOMAIN threads -> MetaRecords]
        /\ DOMAIN msgs \subseteq Ids /\ DOMAIN threads \subseteq Ids
    <3>1. msgs = << >> /\ threads = << >>
      BY <1>1 DEF MessagesInit
    <3> QED BY <1>2, <3>1
  <2>2. nextId \in 1..(MaxId + 1) /\ clock \in 0..MaxClock
    BY <1>1, IdentityAssumption, MessagesAssumption DEF MessagesInit
  <2>3. registered \in [Agents -> 0..MaxClock]
    BY <1>1, MessagesAssumption DEF MessagesInit
  <2>4. draft \in [Senders -> Drafts \union {NoDraft}] /\ severed \subseteq Ids
    BY <1>1 DEF MessagesInit
  <2>5. /\ given \in [Ids -> SUBSET Receivers] /\ claimed \in [Ids -> SUBSET Receivers]
        /\ again \subseteq Ids \X Receivers
    BY <1>1 DEF MessagesInit
  <2>6. walk \in WalkRecords
    BY <1>1, IdentityAssumption DEF MessagesInit, NoWalk, WalkRecords, People
  <2> QED BY <2>1, <2>2, <2>3, <2>4, <2>5, <2>6 DEF MessagesTypeOK, WalkRecords
<1>4. IdsKept /\ RepliesKept /\ WalkKept
  <2>1. \A p \in Senders : draft[p].thread = NoId
    BY <1>1 DEF MessagesInit, NoDraft
  <2>2. walk.kind = "none"
    BY <1>1 DEF MessagesInit, NoWalk
  <2>3. IdsKept
    BY <1>2 DEF IdsKept
  <2>4. RepliesKept
    BY <1>2, <2>1 DEF RepliesKept
  <2> QED BY <2>2, <2>3, <2>4 DEF WalkKept
<1>5. ListeningTypeOK
  <2>1. mode \in Modes \union {"poll"}
    BY <1>1
  <2>2. conn \in [Receivers -> ConnRecords]
    BY <1>1 DEF Down, ConnRecords, Cursors
  <2>3. client \in [Receivers -> ClientRecords]
    <3>1. Fresh(NoCursor) \in ClientRecords
      BY DEF Fresh, Quiet, ClientRecords, Cursors
    <3> QED BY <1>1, <3>1
  <2>4. frames \in [Receivers -> Seq(FrameRecords)]
    <3>1. << >> \in Seq(FrameRecords)
      OBVIOUS
    <3> QED BY <1>1, <3>1
  <2>5. /\ backlog \in [Receivers -> SUBSET Ids] /\ passed \in [Receivers -> SUBSET Ids]
        /\ waiter \in [Receivers -> {"none", "check", "clear", "parked"}] /\ wakeEvent \in BOOLEAN
    BY <1>1
  <2>6. faults \in [drops: 0..MaxDrops, kills: 0..MaxKills, acks: 0..MaxLostAcks]
    <3>1. MaxDrops \in Nat /\ MaxKills \in Nat /\ MaxLostAcks \in Nat
      BY ListeningAssumption
    <3>2. 0 \in 0..MaxDrops /\ 0 \in 0..MaxKills /\ 0 \in 0..MaxLostAcks
      BY <3>1
    <3> QED BY <1>1, <3>2
  <2> QED BY <2>1, <2>2, <2>3, <2>4, <2>5, <2>6
          DEF ListeningTypeOK, ConnRecords, ClientRecords, FrameRecords
<1>6. ClaimsKept /\ PrintedFirst /\ DeliveredMeansGiven
  BY <1>1, <1>2 DEF MessagesInit, ClaimsKept, PrintedFirst, DeliveredMeansGiven, Fresh, Quiet
<1>7. CursorsKept
  <2>1. ASSUME NEW a \in Receivers
        PROVE  CursorsKeptFor(a)
    <3>1. \A X : Covers(a, NoCursor, X)
      <4>1. StoreKept
        BY <1>3, <1>4 DEF StoreKept
      <4> QED BY <4>1, NoneBelow DEF Covers
    <3>2. client[a].cursor = NoCursor /\ client[a].saved = NoCursor /\ client[a].job.busy = FALSE
      BY <1>1 DEF Fresh, Quiet
    <3>3. conn[a].cursor = NoCursor /\ frames[a] = << >>
      BY <1>1 DEF Down
    <3>4. 1..Len(frames[a]) = {}
      <4>1. Len(frames[a]) = 0
        BY <3>3
      <4> QED BY <4>1
    <3>5. NoCursor <= NoCursor
      BY DEF NoCursor
    <3> QED BY <3>1, <3>2, <3>3, <3>4, <3>5 DEF CursorsKeptFor
  <2> QED BY <2>1 DEF CursorsKept
<1> QED BY <1>3, <1>4, <1>5, <1>6, <1>7 DEF IInv, StoreKept

LEMMA NextKept ==
    ASSUME IInv, Next
    PROVE  AllKept
<1>1. CASE StoreCall
  BY <1>1, StoreCallKept
<1>2. ASSUME NEW a \in Receivers,
             Socket(a) \/ Client(a) \/ WaitCall(a) \/ Wait(a) \/ WaitTimeout(a) \/ Faults(a)
      PROVE  AllKept
  <2>1. CASE Socket(a)
    BY <2>1, SocketKept
  <2>2. CASE Client(a)
    BY <2>2, ClientKept
  <2>3. CASE WaitCall(a) \/ Wait(a) \/ WaitTimeout(a)
    BY <2>3, WaitsKept
  <2>4. CASE Faults(a)
    BY <2>4, FaultsKept
  <2> QED BY <1>2, <2>1, <2>2, <2>3, <2>4
<1> QED BY <1>1, <1>2 DEF Next

LEMMA StutterKept ==
    ASSUME IInv, UNCHANGED vars
    PROVE  AllKept
<1> USE DEF IInv
<1>1. /\ UNCHANGED msgVars /\ mode' = mode /\ conn' = conn /\ frames' = frames
      /\ client' = client /\ backlog' = backlog /\ passed' = passed
      /\ waiter' = waiter /\ wakeEvent' = wakeEvent /\ faults' = faults
  BY DEF vars
<1>2. StoreKept' /\ Grows /\ ClaimsKept' /\ PrintedFirst' /\ DeliveredMeansGiven'
  BY <1>1, StoreAlone
<1>3. ListeningTypeOK'
  BY <1>1 DEF ListeningTypeOK
<1>4. CursorsKept'
  BY <1>1, <1>2, CursorsStay
<1> QED BY <1>2, <1>3, <1>4 DEF AllKept

LEMMA StepKept == IInv /\ [Next]_vars => AllKept
BY NextKept, StutterKept

\* The inductive invariant holds whatever the calls, the channels and the faults do.
THEOREM ListeningSound == Spec => []IInv
<1>1. IInv /\ [Next]_vars => IInv'
  BY StepKept DEF AllKept, IInv
<1> QED BY InitIInv, <1>1, PTL DEF Spec

-----------------------------------------------------------------------------
(* What it implies.                                                           *)

\* The store, the sockets, their clients and the parked calls keep their types.
THEOREM ListeningTyped == Spec => []TypeOK
<1>1. IInv => TypeOK
  BY DEF IInv, StoreKept, TypeOK
<1> QED BY <1>1, ListeningSound, PTL

\* claim_unread_for hands a message out once: whatever the other channels, the
\* handlers and the deletions between two calls do, what an agent has claimed
\* is marked, and what is marked is not selected again.
THEOREM ClaimsOnce == Spec => []ClaimedOnce
<1>1. IInv => ClaimedOnce
  BY DEF IInv, ClaimsKept, ClaimedOnce
<1> QED BY <1>1, ListeningSound, PTL

\* Replies do not lose their thread when its root is deleted (delete_message,
\* _post_thread_meta_locked), but for a reply that was on its way and those
\* of senders without a name.
THEOREM RepliesStayReachable == Spec => []RepliesReachable
<1>1. IInv => RepliesReachable
  <2>1. ASSUME IInv, NEW i \in DOMAIN msgs
        PROVE  HasMeta(msgs, threads, ThreadKey(msgs, i)) \/ ThreadKey(msgs, i) \in severed
    <3>1. CASE msgs[i].thread = NoId
      BY <3>1 DEF ThreadKey, HasMeta
    <3>2. CASE msgs[i].thread # NoId
      BY <2>1, <3>2 DEF IInv, StoreKept, RepliesKept, ThreadKey, HasMeta
    <3> QED BY <3>1, <3>2
  <2> QED BY <2>1 DEF RepliesReachable
<1> QED BY <1>1, ListeningSound, PTL

\* Following older_id, newer_id and the inbox cursors to their ends misses
\* nothing that was there from the first page on (get_thread, get_inbox).
THEOREM WalksAreComplete == Spec => []WalkIsComplete
<1>1. IInv => WalkIsComplete
  BY DEF IInv, StoreKept, WalkKept, WalkIsComplete
<1> QED BY <1>1, ListeningSound, PTL

\* No acknowledgement goes out before the client has printed the message, and no
\* other channel marks what it does not hand over, but for the legacy mode.
THEOREM DeliveredWasGiven == Spec => []DeliveredMeansGiven
<1>1. IInv => DeliveredMeansGiven
  BY DEF IInv
<1> QED BY <1>1, ListeningSound, PTL

\* Through lost frames, reconnections and killed clients no direct message lies
\* below a client's cursor unless it was given, told of as backlog, or passed over
\* by a full page (_fetch_deliver, connect_snapshot_for, _cmd_messages_poll).
THEOREM NothingIsSkipped == Spec => []NothingSkipped
<1>1. IInv => NothingSkipped
  <2>1. ASSUME IInv, mode \in {"ack", "poll"}, NEW a \in Receivers, NEW i \in Overtaken(a)
        PROVE  a \in given[i] \/ i \in backlog[a] \/ i \in passed[a]
    <3>1. StoreKept /\ Covers(a, client[a].cursor, {})
      BY <2>1 DEF IInv, CursorsKept, CursorsKeptFor
    <3>2. i \in Direct(a) /\ i <= client[a].cursor
      BY <3>1, DirectWaits DEF Overtaken
    <3> QED BY <3>1, <3>2 DEF Covers, CoveredBy, Told
  <2> QED BY <2>1 DEF NothingSkipped
<1> QED BY <1>1, ListeningSound, PTL

LEMMA StillWaits ==
    ASSUME IInv, AllKept, mode' = mode, mode # "claim",
           NEW a \in Receivers, Calls(a), NEW i \in Waiting(a) \ Waiting(a)'
    PROVE  Withdrawn(a, i)
<1> USE DEF IInv
<1> SUFFICES ASSUME i \in DOMAIN msgs', a \notin given'[i], a \notin msgs'[i].read,
                    IsFor(msgs'[i], a, threads')
             PROVE  i \in Waiting(a)'
  BY DEF Withdrawn
<1>1. Grows /\ DeliveredMeansGiven'
  BY DEF AllKept
<1>2. /\ i \in DOMAIN msgs /\ IsFor(msgs[i], a, threads) /\ msgs[i].from # a
      /\ Eligible(msgs[i], a, threads, registered[a])
  BY DEF Waiting, Awaiting
<1>3. KeptMessage(msgs[i], msgs'[i])
  BY <1>1, <1>2, StoreForms DEF Grows
<1> DEFINE m == msgs[i]
           n == msgs'[i]
<1>4. n.from = m.from /\ n.to = m.to /\ n.at = m.at
  BY <1>3 DEF KeptMessage, SameMessage
<1>5. ~Delivered(n, a)
  BY <1>1 DEF DeliveredMeansGiven, Delivered
<1>6. registered'[a] = registered[a]
  <2>1. a \in Agents
    BY MessagesAssumption
  <2> QED BY <1>1, <2>1 DEF Grows, Calls
<1>7. Eligible(n, a, threads', registered'[a])
  <2>1. ASSUME InThread(n)
        PROVE  n.at >= threads'[n.to[2]].members[a].joined
    <3>1. InThread(m)
      BY <1>4, <2>1 DEF InThread
    <3> DEFINE t == m.to[2]
    <3>2. Listens(threads, t, a) /\ Listens(threads', t, a)
      BY <1>2, <1>4, <2>1, <3>1 DEF IsFor, InThread, ToAll, ToUser, ToHuman, ToAgent, ToRole
    <3>3. threads'[t].members[a].joined = threads[t].members[a].joined
      BY <1>1, <3>2 DEF Grows, KeepsJoined, SameJoined, Listens
    <3>4. m.at >= threads[t].members[a].joined
      BY <1>2, <3>1, <3>2 DEF Eligible, Listens
    <3> QED BY <1>4, <3>3, <3>4
  <2> QED BY <1>2, <1>4, <1>6, <2>1 DEF Eligible
<1> QED BY <1>2, <1>4, <1>5, <1>7 DEF Waiting, Awaiting

LEMMA SameMode == [Next]_vars => mode' = mode
<1>1. ASSUME NEW a \in Receivers, Socket(a)
      PROVE  mode' = mode
  <2>1. Fetch(a) => mode' = mode
    BY DEF Fetch
  <2>2. Connect(a) \/ Snapshot(a) => mode' = mode
    BY DEF Connect, Snapshot
  <2> QED BY <1>1, <2>1, <2>2 DEF Socket, Resume, Sweep, Ping
<1>2. ASSUME NEW a \in Receivers, Client(a)
      PROVE  mode' = mode
  <2>1. Receive(a) \/ Poll(a) \/ PollNothing(a) \/ Advance(a) => mode' = mode
    BY DEF Receive, Poll, PollNothing, Advance
  <2>2. \A i \in Ids : Acknowledge(a, i) => mode' = mode
    BY DEF Acknowledge
  <2> QED BY <1>2, <2>1, <2>2 DEF Client
<1>3. ASSUME NEW a \in Receivers, WaitCall(a) \/ Wait(a) \/ WaitTimeout(a)
      PROVE  mode' = mode
  <2>1. WaitCheck(a) => mode' = mode
    BY DEF WaitCheck, socketVars
  <2>2. WaitCall(a) \/ WaitPark(a) \/ WaitWoken(a) \/ WaitPoll(a) \/ WaitTimeout(a) => mode' = mode
    BY DEF WaitCall, WaitPark, WaitWoken, WaitPoll, WaitTimeout, socketVars
  <2> QED BY <1>3, <2>1, <2>2 DEF Wait
<1>4. ASSUME NEW a \in Receivers, Faults(a)
      PROVE  mode' = mode
  <2>1. Drop(a) \/ Kill(a) => mode' = mode
    BY DEF Drop, Kill
  <2>2. \A i \in Ids : AckLost(a, i) => mode' = mode
    BY DEF AckLost
  <2> QED BY <1>4, <2>1, <2>2 DEF Faults
<1>5. StoreCall \/ UNCHANGED vars => mode' = mode
  BY DEF StoreCall, vars
<1> QED BY <1>1, <1>2, <1>3, <1>4, <1>5 DEF Next

\* No step takes a message from those that wait for a registered agent unless the
\* agent is given it, has read it, is no longer addressed, or the message is
\* deleted: who joins, posts, registers or updates a thread loses nothing.
THEOREM NothingIsWithdrawn == Spec => NothingWithdrawn
<1> DEFINE A == mode # "claim" =>
              \A a \in {b \in Receivers : Calls(b)} : \A i \in Waiting(a) \ Waiting(a)' : Withdrawn(a, i)
<1>1. IInv /\ [Next]_vars => [A]_vars
  BY StepKept, SameMode, StillWaits
<1> QED BY <1>1, ListeningSound, PTL DEF Spec, NothingWithdrawn

=============================================================================
