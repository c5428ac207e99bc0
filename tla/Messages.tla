------------------------------ MODULE Messages ------------------------------
(* The message store as its routes change it (the_lab/messages.py,             *)
(* routes/messages.py).  Every call is one critical section under _lock, but   *)
(* for the reads of a paged thread or inbox, which take one call per page      *)
(* while the others go on, and for a posting, which looks up what it replies   *)
(* to before it appends.                                                       *)
EXTENDS Threads

CONSTANTS
    CallSets,      \* the kinds of calls that are made in a behaviour, one set each
    Receivers,     \* the agents whose marks and reading are followed
    Senders,       \* who posts
    Readers,       \* who pages through threads and inboxes
    Movers,        \* who joins and leaves threads
    Recipients,    \* the addresses they post to
    PageLimit,     \* ?limit= of a list or thread page
    MaxClock       \* bound: time stamps

ASSUME MessagesAssumption ==
    /\ Receivers \subseteq Agents /\ Senders \subseteq Callers
    /\ Readers \subseteq People /\ Movers \subseteq People
    /\ Recipients \subseteq Addresses
    /\ PageLimit \in Nat \ {0} /\ MaxClock \in Nat \ {0}

VARIABLES
    calls,        \* the kinds of calls made in this behaviour
    msgs,         \* data["messages"], by id
    threads,      \* data["threads"]
    nextId,       \* data["next_id"]
    clock,        \* _now: one tick per time stamp
    registered,   \* created_at of each agent's registration, 0 for none
    draft,        \* by sender, the message it has checked and is about to append
    given,        \* by id, the agents it was answered to or whose listener printed it
    claimed,      \* by id, the agents a claiming call gave it to
    again,        \* what a claiming call gave a second time
    severed,      \* threads without metadata whose root was deleted too early
    walk          \* the reader that pages through a thread or an inbox

stored  == <<msgs, threads, nextId, clock>>
history == <<given, claimed, again, severed>>
msgVars == <<calls, msgs, threads, nextId, clock, registered, draft, given, claimed, again, severed,
             walk>>

Unset == <<"unset">>

MessageRecords ==
    [from: Callers, to: Addresses, thread: Ids \union {NoId}, parent: Ids \union {NoId},
     at: 0..MaxClock, read: SUBSET Receivers, delivered: SUBSET Receivers,
     notified: SUBSET Receivers]

\* A reader has the pages between two ids and follows the links to the older
\* and to the newer messages, while there are any.
NoWalk == [kind |-> "none", of |-> NoId, by |-> User, older |-> NoId, newer |-> NoId,
           got |-> {}, must |-> {}]

\* What a sender is about to post.
Drafts == [from: Callers, to: Addresses, thread: Ids \union {NoId}, parent: Ids \union {NoId}]
NoDraft == [from |-> Anonymous, to |-> Unset, thread |-> NoId, parent |-> NoId]

Membership == [joined: 0..MaxClock, muted: BOOLEAN]

MetaRecords ==
    [public: BOOLEAN, closed: BOOLEAN,
     members: UNION {[S -> Membership] : S \in SUBSET People}]

MessagesTypeOK ==
    /\ DOMAIN msgs \subseteq Ids /\ msgs \in [DOMAIN msgs -> MessageRecords]
    /\ DOMAIN threads \subseteq Ids /\ threads \in [DOMAIN threads -> MetaRecords]
    /\ nextId \in 1..(MaxId + 1) /\ clock \in 0..MaxClock
    /\ registered \in [Agents -> 0..MaxClock]
    /\ draft \in [Senders -> Drafts \union {NoDraft}] /\ severed \subseteq Ids
    /\ given \in [Ids -> SUBSET Receivers] /\ claimed \in [Ids -> SUBSET Receivers]
    /\ again \subseteq Ids \X Receivers
    /\ walk \in [kind: {"none", "thread", "all", "mine"}, of: Ids \union {NoId}, by: People,
                 older: Ids \union {NoId}, newer: Ids \union {NoId},
                 got: SUBSET Ids, must: SUBSET Ids]

\* What the reader pages through.
There(ms, th, w) ==
    IF w.kind = "thread" THEN Group(ms, w.of) \cap Readable(ms, th, w.by)
    ELSE InboxCursors(ms, th, w.by, w.kind)

\* Only what stays where it is can be missed.
Followed(ms, th) == [walk EXCEPT !.must = {i \in @ : i \in There(ms, th, walk)}]

MessagesInit ==
    /\ calls \in CallSets
    /\ msgs = << >> /\ threads = << >> /\ nextId = 1
    /\ clock = 1
    /\ registered = [a \in Agents |-> IF "register" \in calls THEN 0 ELSE 1]
    /\ draft = [p \in Senders |-> NoDraft] /\ severed = {}
    /\ given = [i \in Ids |-> {}] /\ claimed = [i \in Ids |-> {}] /\ again = {}
    /\ walk = NoWalk

Tick == clock < MaxClock /\ clock' = clock + 1

-----------------------------------------------------------------------------
(* Changes of the store, as functions of it.                                  *)

NewMessage(from, to, thread, parent, at) ==
    [from |-> from, to |-> to, thread |-> thread, parent |-> parent, at |-> at,
     read |-> {}, delivered |-> {}, notified |-> {}]

Appended(ms, i, m) == [j \in DOMAIN ms \union {i} |-> IF j = i THEN m ELSE ms[j]]

\* Faulty: metadata that was only derived is not kept when somebody posts.
MetaAfterPostDerived(ms, th, m) ==
    IF m.thread \notin DOMAIN th \/ m.from = Anonymous THEN th
    ELSE WithMeta(th, m.thread, WithMember(th[m.thread], m.from, m.at))

\* _append_locked: posting into a thread makes its sender a member.
MetaAfterPost(ms, th, m) ==
    IF m.thread = NoId \/ m.from = Anonymous \/ ~HasMeta(ms, th, m.thread) THEN th
    ELSE WithMeta(th, m.thread, WithMember(Meta(ms, th, m.thread), m.from, m.at))

AppendMessage(th, m) ==
    /\ nextId \in Ids
    /\ nextId' = nextId + 1
    /\ msgs' = Appended(msgs, nextId, m)
    /\ threads' = MetaAfterPost(msgs', th, m)

\* mark_delivered_many: who has read a message has it delivered already.
MarkedDelivered(ms, S, a) ==
    [i \in DOMAIN ms |->
        IF i \in S /\ ~Delivered(ms[i], a)
        THEN [ms[i] EXCEPT !.delivered = @ \union {a}] ELSE ms[i]]

MarkedRead(ms, S, a) ==
    [i \in DOMAIN ms |->
        IF i \in S THEN [ms[i] EXCEPT !.read = @ \union {a}] ELSE ms[i]]

MarkedNotified(ms, S, a) ==
    [i \in DOMAIN ms |->
        IF i \in S THEN [ms[i] EXCEPT !.notified = @ \union {a}] ELSE ms[i]]

Gives(S, a) ==
    given' = [i \in Ids |-> IF i \in S THEN given[i] \union {a} ELSE given[i]]

Waiting(a) == Awaiting(msgs, threads, a, registered[a])

\* Faulty: the messages are selected, and marked by a call of its own that is lost.
ClaimUnmarked(a, S) ==
    /\ msgs' = msgs
    /\ claimed' = [i \in Ids |-> IF i \in S THEN claimed[i] \union {a} ELSE claimed[i]]
    /\ again' = again \union {<<i, a>> : i \in {j \in S : a \in claimed[j]}}

\* claim_unread_for: select and mark in one critical section.
Claim(a, S) ==
    /\ msgs' = MarkedDelivered(msgs, S, a)
    /\ claimed' = [i \in Ids |-> IF i \in S THEN claimed[i] \union {a} ELSE claimed[i]]
    /\ again' = again \union {<<i, a>> : i \in {j \in S : a \in claimed[j]}}

-----------------------------------------------------------------------------
(* Posting.                                                                   *)

\* _resolve_thread_id_conflict: the id of a message of the thread will do.
SameThread(ms, id, t) == id = t \/ (id \in DOMAIN ms /\ ThreadKey(ms, id) = t)

Named(to, threadId) == IF to[1] = "thread" THEN to[2] ELSE threadId

FiledIn(to, parent, threadId) ==
    IF parent = NoId THEN Named(to, threadId) ELSE ThreadKey(msgs, parent)

MayFile(p, to, parent, threadId) ==
    LET named == Named(to, threadId)
        t == FiledIn(to, parent, threadId)
    IN /\ threadId # NoId /\ to[1] = "thread" => SameThread(msgs, threadId, to[2])
       /\ IF parent = NoId
          THEN named # NoId => /\ HasMeta(msgs, threads, t)
                               /\ ThreadVisible(msgs, threads, t, p)
          ELSE named # NoId => SameThread(msgs, named, t)

\* send_message: to whom, in reply to what, in which thread.  An explicit
\* recipient stays as it was given.
MayPost(p, to, parent, threadId) ==
    /\ "post" \in calls /\ draft[p] = NoDraft
    /\ p \in Humans => "human" \in calls
    /\ p = Anonymous => "anonymous" \in calls
    /\ to = ToAll => "broadcast" \in calls
    /\ threadId # NoId \/ InThread([to |-> to]) => "file" \in calls
    /\ parent # NoId =>
          /\ "reply" \in calls
          /\ parent \in DOMAIN msgs
          /\ p \in Operators \/ CanSee(msgs[parent], p, threads)
    /\ MayFile(p, to, parent, threadId)
    /\ to = Unset => FiledIn(to, parent, threadId) # NoId

Addressed(p, to, parent, threadId) ==
    LET t == FiledIn(to, parent, threadId)
    IN [from |-> p, to |-> IF to = Unset THEN ToThread(t) ELSE to, thread |-> t, parent |-> parent]

\* add_message
Appends(d) ==
    /\ AppendMessage(threads, NewMessage(d.from, d.to, d.thread, d.parent, clock))
    /\ Tick
    /\ walk' = Followed(msgs', threads')
    /\ UNCHANGED <<calls, registered, history>>

Post(p, to, parent, threadId) ==
    /\ MayPost(p, to, parent, threadId)
    /\ Appends(Addressed(p, to, parent, threadId))
    /\ UNCHANGED draft

\* Another call may come in between the checks and the message.
BeginPost(p, to, parent, threadId) ==
    /\ "slow" \in calls
    /\ MayPost(p, to, parent, threadId)
    /\ draft' = [draft EXCEPT ![p] = Addressed(p, to, parent, threadId)]
    /\ UNCHANGED <<calls, stored, registered, history, walk>>

EndPost(p) ==
    /\ draft[p] # NoDraft
    /\ Appends(draft[p])
    /\ draft' = [draft EXCEPT ![p] = NoDraft]

\* delete_message.  A root takes its thread along, unless metadata was stored when
\* somebody who has a name replied: replies without, or on their way, are left.
Delete(i) ==
    /\ "delete" \in calls /\ i \in DOMAIN msgs
    /\ msgs' = [j \in DOMAIN msgs \ {i} |-> msgs[j]]
    /\ severed' = IF /\ i \notin DOMAIN threads
                     /\ \/ \E p \in Senders : draft[p] # NoDraft /\ draft[p].thread = i
                        \/ \E j \in DOMAIN msgs : msgs[j].thread = i /\ msgs[j].from = Anonymous
                  THEN severed \union {i} ELSE severed
    /\ walk' = Followed(msgs', threads)
    /\ UNCHANGED <<calls, threads, nextId, clock, registered, draft, given, claimed, again>>

Register(a) ==
    /\ "register" \in calls /\ registered[a] = 0
    /\ registered' = [registered EXCEPT ![a] = clock]
    /\ Tick
    /\ UNCHANGED <<calls, msgs, threads, nextId, draft, history, walk>>

-----------------------------------------------------------------------------
(* Threads.                                                                   *)

Owned(p, t) ==
    /\ HasMeta(msgs, threads, t)
    /\ p \in Operators \/ p \in DOMAIN Meta(msgs, threads, t).members

\* create_thread, with its opening message; announced to all or to its members.
Create(p, public, announce, S) ==
    /\ "thread" \in calls
    /\ announce => public
    /\ LET meta == [public |-> public, closed |-> FALSE,
                    members |-> [q \in S \union {p} |-> Joined(clock)]]
           to == IF announce THEN ToAll ELSE ToThread(nextId)
       IN AppendMessage(WithMeta(threads, nextId, meta),
                 NewMessage(p, to, nextId, NoId, clock))
    /\ Tick
    /\ walk' = Followed(msgs', threads')
    /\ UNCHANGED <<calls, registered, draft, history>>

\* join_thread: join, mute or unmute a thread one can see.
Join(p, t, mute) ==
    /\ "member" \in calls
    /\ HasMeta(msgs, threads, t) /\ ThreadVisible(msgs, threads, t, p)
    /\ LET meta == WithMember(Meta(msgs, threads, t), p, clock)
       IN threads' = WithMeta(threads, t,
              IF mute = "keep" THEN meta
              ELSE [meta EXCEPT !.members[p].muted = (mute = "mute")])
    /\ Tick
    /\ walk' = Followed(msgs, threads')
    /\ UNCHANGED <<calls, msgs, nextId, registered, draft, history>>

Leave(p, t) ==
    /\ "member" \in calls
    /\ HasMeta(msgs, threads, t) /\ p \in DOMAIN Meta(msgs, threads, t).members
    /\ threads' = WithMeta(threads, t, WithoutMember(Meta(msgs, threads, t), p))
    /\ walk' = Followed(msgs, threads')
    /\ UNCHANGED <<calls, msgs, nextId, clock, registered, draft, history>>

\* add_thread_members
AddMember(p, t, q) ==
    /\ "member" \in calls
    /\ Owned(p, t)
    /\ threads' = WithMeta(threads, t, WithMember(Meta(msgs, threads, t), q, clock))
    /\ Tick
    /\ walk' = Followed(msgs, threads')
    /\ UNCHANGED <<calls, msgs, nextId, registered, draft, history>>

\* update_thread: closing an open thread posts a message to it.
Update(p, t, public, closed) ==
    /\ "update" \in calls
    /\ Owned(p, t)
    /\ LET meta == [Meta(msgs, threads, t) EXCEPT !.public = public, !.closed = closed]
           closes == closed /\ ~Meta(msgs, threads, t).closed
       IN IF closes
          THEN /\ AppendMessage(WithMeta(threads, t, meta),
                         NewMessage(p, ToThread(t), t, NoId, clock))
               /\ Tick
          ELSE /\ threads' = WithMeta(threads, t, meta)
               /\ UNCHANGED <<msgs, nextId, clock>>
    /\ walk' = Followed(msgs', threads')
    /\ UNCHANGED <<calls, registered, draft, history>>

-----------------------------------------------------------------------------
(* Reading.                                                                   *)

Calls(a) == registered[a] > 0

\* GET /messages: the filters of an identified caller.
Inbox(a, filter) ==
    CASE filter = "unread"  -> Unread(msgs, threads, a)
      [] filter = "for_me"  -> {i \in DOMAIN msgs : IsFor(msgs[i], a, threads)}
      [] filter = "visible" ->
            {i \in DOMAIN msgs : IsFor(msgs[i], a, threads) \/ msgs[i].from = a}

\* A listed page counts as delivered, as far as it would have been pushed.
List(a, filter) ==
    /\ "list" \in calls /\ Calls(a)
    /\ LET page == Newest(Inbox(a, filter), PageLimit)
           acked == {i \in page : /\ IsFor(msgs[i], a, threads)
                                  /\ Eligible(msgs[i], a, threads, registered[a])}
       IN /\ page # {}
          /\ msgs' = MarkedDelivered(msgs, acked, a)
          /\ Gives(page, a)
    /\ UNCHANGED <<calls, threads, nextId, clock, registered, draft, claimed, again, severed, walk>>

\* POST /messages/{id}/read, of a message one can see.
Read(a, i) ==
    /\ "read" \in calls /\ Calls(a)
    /\ i \in DOMAIN msgs /\ CanSee(msgs[i], a, threads)
    /\ msgs' = MarkedRead(msgs, {i}, a)
    /\ UNCHANGED <<calls, threads, nextId, clock, registered, draft, history, walk>>

\* mark_all_read, up to an id or for all.
ReadAll(a, before) ==
    /\ "read" \in calls /\ Calls(a)
    /\ msgs' = MarkedRead(msgs, {i \in DOMAIN msgs : /\ IsFor(msgs[i], a, threads)
                                                     /\ i < before}, a)
    /\ UNCHANGED <<calls, threads, nextId, clock, registered, draft, history, walk>>

\* The previews of inject_notifications: marked as notified, not as delivered.
Notify(a) ==
    /\ "notify" \in calls /\ Calls(a)
    /\ LET S == Newest(Unnotified(msgs, threads, a, registered[a]), PageLimit)
       IN S # {} /\ msgs' = MarkedNotified(msgs, S, a)
    /\ UNCHANGED <<calls, threads, nextId, clock, registered, draft, history, walk>>

\* What a reader of thread t gets; reading counts as delivery.
ThreadMessages(p, t) == Group(msgs, t) \cap Readable(msgs, threads, p)

ReadPage(p, S) ==
    IF p \in Receivers
    THEN /\ msgs' = MarkedDelivered(msgs, {i \in S : IsFor(msgs[i], p, threads)}, p)
         /\ Gives(S, p)
    ELSE UNCHANGED <<msgs, given>>

\* A window of the thread's messages, with its links.
Turn(p, t, mode, k, links) ==
    LET all == ThreadMessages(p, t)
        page == Window(all, PageLimit, mode, k)
    IN /\ HasMeta(msgs, threads, t) /\ ThreadVisible(msgs, threads, t, p)
       /\ ReadPage(p, page)
       /\ walk' = [links EXCEPT !.got = @ \union page,
              !.older = IF mode = "after" THEN @ ELSE NextBefore(all, page),
              !.newer = IF mode = "before" THEN @ ELSE NextAfter(all, page)]
       /\ UNCHANGED <<calls, threads, nextId, clock, registered, draft, claimed, again, severed>>

Begun(kind, t, p, must) ==
    [NoWalk EXCEPT !.kind = kind, !.of = t, !.by = p, !.must = must]

\* The newest messages, or those around one.
Open(p, t, mode, k) ==
    /\ "walk" \in calls /\ walk.kind = "none"
    /\ mode = "around" => k \in ThreadMessages(p, t)
    /\ ThreadMessages(p, t) # {}
    /\ Turn(p, t, mode, k, Begun("thread", t, p, ThreadMessages(p, t)))

OpenOlder ==
    /\ walk.kind = "thread" /\ walk.older # NoId
    /\ Turn(walk.by, walk.of, "before", walk.older, walk)

OpenNewer ==
    /\ walk.kind = "thread" /\ walk.newer # NoId
    /\ Turn(walk.by, walk.of, "after", walk.newer, walk)

\* The dashboard pages through its inbox by the last message of each thread.
TurnInbox(h, view, older, links) ==
    LET all == InboxCursors(msgs, threads, h, view)
        page == Newest(older, PageLimit)
    IN /\ walk' = [links EXCEPT !.got = @ \union page, !.older = NextBefore(all, page)]
       /\ UNCHANGED <<calls, stored, registered, draft, history>>

OpenInbox(h, view) ==
    LET all == InboxCursors(msgs, threads, h, view)
    IN /\ "walk" \in calls /\ walk.kind = "none" /\ all # {}
       /\ TurnInbox(h, view, all, Begun(view, NoId, h, all))

InboxOlder ==
    /\ walk.kind \in {"all", "mine"} /\ walk.older # NoId
    /\ TurnInbox(walk.by, walk.kind,
           Below(InboxCursors(msgs, threads, walk.by, walk.kind), walk.older), walk)

-----------------------------------------------------------------------------
Posting ==
    \/ \E p \in Senders, to \in Recipients \union {Unset},
          parent, threadId \in Ids \union {NoId} :
          Post(p, to, parent, threadId) \/ BeginPost(p, to, parent, threadId)
    \/ \E p \in Senders : EndPost(p)
    \/ \E i \in Ids : Delete(i)
    \/ \E a \in Receivers : Register(a)

Conversing ==
    \/ \E p \in Senders \ {Anonymous}, public, announce \in BOOLEAN, S \in SUBSET Receivers :
          Create(p, public, announce, S)
    \/ \E p \in Movers, t \in Ids, mute \in {"keep", "mute", "unmute"} : Join(p, t, mute)
    \/ \E p \in Movers, t \in Ids : Leave(p, t)
    \/ \E p \in Senders \ {Anonymous}, q \in Movers, t \in Ids : AddMember(p, t, q)
    \/ \E p \in Senders \ {Anonymous}, t \in Ids, public, closed \in BOOLEAN : Update(p, t, public, closed)

Reading ==
    \/ \E a \in Receivers, filter \in {"unread", "for_me", "visible"} : List(a, filter)
    \/ \E a \in Receivers, i \in Ids : Read(a, i)
    \/ \E a \in Receivers, before \in 1..(MaxId + 1) : ReadAll(a, before)
    \/ \E a \in Receivers : Notify(a)
    \/ \E p \in Readers, t \in Ids, k \in Ids, mode \in {"newest", "around"} :
          Open(p, t, mode, k)
    \/ OpenOlder \/ OpenNewer
    \/ \E h \in Humans \cap Readers, view \in {"all", "mine"} : OpenInbox(h, view)
    \/ InboxOlder

MessagesNext == Posting \/ Conversing \/ Reading

MessagesSpec == MessagesInit /\ [][MessagesNext]_msgVars

-----------------------------------------------------------------------------
(* Properties.                                                                *)

\* A reader that has followed the links to both ends has got everything that
\* was there when it began and stayed, however the thread or the inbox grew and
\* shrank meanwhile (get_thread: "stable even while the thread keeps growing").
WalkIsComplete ==
    walk.kind # "none" /\ walk.older = NoId /\ walk.newer = NoId
        => walk.must \subseteq walk.got

\* A reply stays where a thread view finds it: whatever is deleted, the thread
\* a message is filed in has metadata, stored or derivable, unless its root was
\* deleted while a reply was on its way or had been made by nobody in particular.
RepliesReachable ==
    \A i \in DOMAIN msgs :
        HasMeta(msgs, threads, ThreadKey(msgs, i)) \/ ThreadKey(msgs, i) \in severed

\* A message handed out by a claiming call is not handed out by another one.
ClaimedOnce == again = {}
=============================================================================
