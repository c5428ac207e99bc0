------------------------------ MODULE Threads ------------------------------
(* Who a message is for, who can see it, what is waiting for whom, and the     *)
(* pages in which threads and inboxes are read (the_lab/messages.py).          *)
(*                                                                            *)
(* A store is a pair of tables: ms, the messages by id, and th, the stored     *)
(* metadata of threads by the id of their root.  Texts, titles, references     *)
(* and mentions are left out.                                                  *)
EXTENDS Integers, FiniteSets, FiniteSetsExt

CONSTANTS
    Agents,      \* registered or not, they name themselves with X-Agent-Id
    Humans,      \* the identities "user" and "user:<name>"
    User,        \* the catch-all human
    Anonymous,   \* an operator who gives no identity
    RoleOf,      \* the role each agent is registered with
    MaxId        \* bound: message ids

ASSUME IdentityAssumption ==
    /\ User \in Humans /\ Agents \cap Humans = {}
    /\ Anonymous \notin Agents \union Humans
    /\ MaxId \in Nat

People  == Agents \union Humans
Callers == People \union {Anonymous}
Ids     == 1..MaxId
NoId    == 0

\* The dashboard and the command line, as against an agent.
Operators == Humans \union {Anonymous}

ToAll       == <<"all">>
ToUser      == <<"user">>
ToHuman(h)  == <<"human", h>>
ToAgent(a)  == <<"agent", a>>
ToRole(r)   == <<"role", r>>
ToThread(t) == <<"thread", t>>

Addresses ==
    {ToAll, ToUser} \union {ToHuman(h) : h \in Humans}
      \union {ToAgent(a) : a \in Agents} \union {ToRole(RoleOf[a]) : a \in Agents}
      \union {ToThread(t) : t \in Ids}

InThread(m) == m.to[1] = "thread"

\* thread_key: a message that names no thread is the root of its own.
ThreadKey(ms, i) == IF ms[i].thread = NoId THEN i ELSE ms[i].thread

Group(ms, t) == {i \in DOMAIN ms : ThreadKey(ms, i) = t}

-----------------------------------------------------------------------------
(* Metadata of threads.                                                       *)

Joined(at) == [joined |-> at, muted |-> FALSE]

Addressee(m) ==
    IF m.to = ToUser THEN {User}
    ELSE {p \in People : m.to \in {ToHuman(p), ToAgent(p)}}

\* _derive_thread: a thread that has no metadata is public when anything in it
\* was broadcast; the root's addressee and whoever posted are its members.
DerivedFrom(ms, root, group) ==
    LET posters == {ms[i].from : i \in group} \ {Anonymous}
        since(p) == IF p \in Addressee(ms[root]) THEN ms[root].at
                    ELSE Min({ms[i].at : i \in {j \in group : ms[j].from = p}})
    IN [public  |-> \E i \in group : ms[i].to = ToAll,
        closed  |-> FALSE,
        members |-> [p \in posters \union Addressee(ms[root]) |-> Joined(since(p))]]

\* The thread of a message that is itself filed elsewhere is that message alone.
DerivedMeta(ms, t) ==
    DerivedFrom(ms, t, IF Group(ms, t) = {} THEN {t} ELSE Group(ms, t))

\* _thread_meta_locked
HasMeta(ms, th, t) == t \in DOMAIN th \/ t \in DOMAIN ms
Meta(ms, th, t) == IF t \in DOMAIN th THEN th[t] ELSE DerivedMeta(ms, t)

WithMeta(th, t, meta) ==
    [u \in DOMAIN th \union {t} |-> IF u = t THEN meta ELSE th[u]]

\* Faulty: who is a member joins again.
WithMemberAnew(meta, p, at) ==
    [meta EXCEPT !.members =
        [q \in DOMAIN meta.members \union {p} |->
            IF q = p THEN Joined(at) ELSE meta.members[q]]]

\* members.setdefault: who is a member already keeps the time of joining.
WithMember(meta, p, at) ==
    IF p \in DOMAIN meta.members THEN meta
    ELSE [meta EXCEPT !.members =
            [q \in DOMAIN meta.members \union {p} |->
                IF q = p THEN Joined(at) ELSE meta.members[q]]]

WithoutMember(meta, p) ==
    [meta EXCEPT !.members =
        [q \in DOMAIN meta.members \ {p} |-> meta.members[q]]]

-----------------------------------------------------------------------------
(* Recipients and visibility.                                                 *)

\* An unmuted member, by the stored metadata alone.
Listens(th, t, p) ==
    /\ t \in DOMAIN th
    /\ p \in DOMAIN th[t].members
    /\ ~th[t].members[p].muted

IsFor(m, p, th) ==
    \/ m.to = ToAll /\ m.from # p
    \/ m.to = ToUser /\ p \in Humans
    \/ m.to \in {ToHuman(p), ToAgent(p)}
    \/ p \in Agents /\ m.to = ToRole(RoleOf[p])
    \/ InThread(m) /\ m.from # p /\ Listens(th, m.to[2], p)

CanSee(m, p, th) ==
    \/ IsFor(m, p, th)
    \/ m.from = p
    \/ /\ InThread(m) /\ m.to[2] \in DOMAIN th
       /\ th[m.to[2]].public \/ p \in DOMAIN th[m.to[2]].members

\* _thread_visible
ThreadVisible(ms, th, t, p) ==
    \/ p \in Operators
    \/ Meta(ms, th, t).public
    \/ p \in DOMAIN Meta(ms, th, t).members
    \/ t \in DOMAIN ms /\ CanSee(ms[t], p, th)

Readable(ms, th, p) ==
    {i \in DOMAIN ms : p \in Operators \/ CanSee(ms[i], p, th)}

\* automatic_delivery_eligible: what was said to all or to a role before an
\* agent registered, or in a thread before it joined, is not pushed to it.
Eligible(m, p, th, registered) ==
    /\ InThread(m) =>
        \/ ~(m.to[2] \in DOMAIN th /\ p \in DOMAIN th[m.to[2]].members)
        \/ m.at >= th[m.to[2]].members[p].joined
    /\ (m.to = ToAll \/ m.to[1] = "role") => m.at >= registered

\* _delivered
Delivered(m, p) == p \in m.delivered \union m.read

Unread(ms, th, p) ==
    {i \in DOMAIN ms : IsFor(ms[i], p, th) /\ ms[i].from # p /\ p \notin ms[i].read}

\* The selection that undelivered_for, claim_unread_for and
\* connect_snapshot_for share.
Awaiting(ms, th, p, registered) ==
    {i \in DOMAIN ms :
        /\ IsFor(ms[i], p, th) /\ ms[i].from # p
        /\ ~Delivered(ms[i], p)
        /\ Eligible(ms[i], p, th, registered)}

Unnotified(ms, th, p, registered) ==
    {i \in Awaiting(ms, th, p, registered) : p \notin ms[i].notified}

-----------------------------------------------------------------------------
(* Pages.                                                                     *)

Newest(S, n) == {i \in S : Cardinality({j \in S : j > i}) < n}
Oldest(S, n) == {i \in S : Cardinality({j \in S : j < i}) < n}
Above(S, k)  == {i \in S : i > k}
Below(S, k)  == {i \in S : i < k}

Greatest(S, otherwise) == IF S = {} THEN otherwise ELSE Max(S)

\* Faulty: the link to the older page skips a message.
NextBeforeSkipping(S, window) ==
    IF window # {} /\ Below(S, Min(window)) # {} THEN Min(window) - 1 ELSE NoId

\* get_thread: a window of n of the messages S, chosen by its mode.
Window(S, n, mode, k) ==
    CASE mode = "newest" -> Newest(S, n)
      [] mode = "before" -> Newest(Below(S, k), n)
      [] mode = "after"  -> Oldest(Above(S, k), n)
      [] mode = "around" ->
            LET half == n \div 2
                from == Newest(Below(S, k), half)
            IN Oldest({i \in S : i >= k \/ i \in from}, n)

NextBefore(S, window) ==
    IF window # {} /\ Below(S, Min(window)) # {} THEN Min(window) ELSE NoId

NextAfter(S, window) ==
    IF window # {} /\ Above(S, Max(window)) # {} THEN Max(window) ELSE NoId

\* dashboard_inbox: what addresses a human, and the threads of a view, each
\* known by the id of its last message.
Personal(ms, h) ==
    LET mine == {i \in DOMAIN ms : ms[i].from = h}
    IN {i \in DOMAIN ms \ mine :
            ms[i].to \in {ToUser, ToHuman(h)} \/ ms[i].parent \in mine}

InboxMeta(ms, th, t) ==
    IF t \in DOMAIN th THEN th[t]
    ELSE DerivedFrom(ms, IF t \in DOMAIN ms THEN t ELSE Min(Group(ms, t)), Group(ms, t))

InboxThreads(ms, th, h, view) ==
    {t \in {ThreadKey(ms, i) : i \in DOMAIN ms} :
        CASE view = "all"     -> TRUE
          [] view = "for_you" -> Group(ms, t) \cap Personal(ms, h) # {}
          [] view = "mine"    -> \/ \E i \in Group(ms, t) : ms[i].from = h
                                 \/ h \in DOMAIN InboxMeta(ms, th, t).members}

InboxCursor(ms, t) == Max(Group(ms, t))
InboxCursors(ms, th, h, view) ==
    {InboxCursor(ms, t) : t \in InboxThreads(ms, th, h, view)}
=============================================================================
