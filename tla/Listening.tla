----------------------------- MODULE Listening -----------------------------
(* The channels by which a message reaches an agent: the listener's socket     *)
(* (app.py, messages_ws_endpoint) with its command line client (cli.py,        *)
(* cmd_messages) or that client polling, and a parked /wait call (runner.py,   *)
(* wait_any), over the store of Messages.                                      *)
(*                                                                            *)
(* Each receiver has one client and at most one parked call.  Frames are sets  *)
(* of message ids; a lost connection loses those on their way, while an answer  *)
(* to an HTTP call counts as received.                                         *)
EXTENDS Messages, Sequences

CONSTANTS
    Modes,        \* how the clients listen: "ack", "claim", "peek" or "poll"
    SocketPage,   \* messages in a frame (50 in the code)
    RecentLimit,  \* _RECENT_BACKLOG_LIMIT
    WaitLimit,    \* messages returned by a wait (20 in the code)
    MaxDrops,     \* bound: lost connections
    MaxKills,     \* bound: clients killed
    MaxLostAcks   \* bound: failed acknowledgements

ASSUME ListeningAssumption ==
    /\ Modes \subseteq {"ack", "claim", "peek", "poll"}
    /\ {SocketPage, RecentLimit, WaitLimit} \subseteq Nat \ {0}
    /\ {MaxDrops, MaxKills, MaxLostAcks} \subseteq Nat

VARIABLES
    mode,      \* the clients' mode
    conn,      \* per receiver, the server's end of its socket
    frames,    \* per receiver, the frames on their way to the client
    client,    \* per receiver, the client
    backlog,   \* per receiver, what a snapshot left alone as older backlog
    passed,    \* per receiver, what was older than a full page above the cursor
    waiter,    \* per receiver, a call of wait_any
    wakeEvent, \* messages._wake
    faults     \* lost connections, kills and acknowledgements so far

socketVars == <<mode, conn, frames, client, backlog, passed>>
waitVars   == <<waiter, wakeEvent>>
vars       == <<msgVars, mode, conn, frames, client, backlog, passed, waiter, wakeEvent, faults>>

NoCursor == -1
Cursors  == Ids \union {NoId, NoCursor}

Down == [stage |-> "down", cursor |-> NoCursor, wake |-> FALSE]

\* Nothing received is being handled.
Quiet == [busy |-> FALSE, acks |-> {}, upto |-> NoCursor]

Fresh(cursor) == [seen |-> {}, cursor |-> cursor, saved |-> cursor, first |-> TRUE, job |-> Quiet]

ListeningTypeOK ==
    /\ mode \in Modes \union {"poll"}
    /\ conn \in [Receivers -> [stage: {"down", "init", "live"}, cursor: Cursors, wake: BOOLEAN]]
    /\ frames \in [Receivers -> Seq([ids: SUBSET Ids, upto: Cursors])]
    /\ client \in [Receivers ->
          [seen: SUBSET Ids, cursor: Cursors, saved: Cursors, first: BOOLEAN,
           job: [busy: BOOLEAN, acks: SUBSET Ids, upto: Cursors]]]
    /\ backlog \in [Receivers -> SUBSET Ids] /\ passed \in [Receivers -> SUBSET Ids]
    /\ waiter \in [Receivers -> {"none", "check", "clear", "parked"}]
    /\ wakeEvent \in BOOLEAN
    /\ faults \in [drops: 0..MaxDrops, kills: 0..MaxKills, acks: 0..MaxLostAcks]

TypeOK == MessagesTypeOK /\ ListeningTypeOK

Init ==
    /\ MessagesInit
    /\ mode \in (IF "socket" \in calls THEN Modes ELSE {"poll"})
    /\ conn = [a \in Receivers |-> Down]
    /\ frames = [a \in Receivers |-> << >>]
    /\ client = [a \in Receivers |-> Fresh(NoCursor)]
    /\ backlog = [a \in Receivers |-> {}] /\ passed = [a \in Receivers |-> {}]
    /\ waiter = [a \in Receivers |-> "none"]
    /\ wakeEvent = FALSE
    /\ faults = [drops |-> 0, kills |-> 0, acks |-> 0]

-----------------------------------------------------------------------------
(* The store's own calls: a message that arrives wakes the listeners and the   *)
(* parked calls (_after_add).                                                  *)

Arrives == nextId' # nextId

StoreCall ==
    /\ MessagesNext
    /\ conn' = [a \in Receivers |->
                  IF Arrives /\ conn[a].stage # "down"
                  THEN [conn[a] EXCEPT !.wake = TRUE] ELSE conn[a]]
    /\ wakeEvent' = (wakeEvent \/ Arrives)
    /\ UNCHANGED <<mode, frames, client, backlog, passed, waiter, faults>>

-----------------------------------------------------------------------------
(* The socket, server side.                                                    *)

\* What the mode selects: unread history, or what awaits delivery.
Pending(a) == IF mode = "peek" THEN Unread(msgs, threads, a) ELSE Waiting(a)

\* The legacy mode claims what it is about to send, in the same critical section.
Select(a, S) ==
    IF mode = "claim" THEN Claim(a, S) ELSE UNCHANGED <<msgs, claimed, again>>

storeRest == <<calls, threads, nextId, clock, registered, draft, given, severed, walk>>

Frame(S, upto) == [ids |-> S, upto |-> upto]

\* The handshake: the subscription comes before the first look at the store.
Connect(a) ==
    /\ "socket" \in calls /\ mode # "poll" /\ Calls(a)
    /\ conn[a].stage = "down" /\ ~client[a].job.busy
    /\ conn' = [conn EXCEPT ![a] = [stage |-> "init", cursor |-> client[a].cursor,
                                    wake |-> FALSE]]
    /\ UNCHANGED <<msgVars, mode, frames, client, backlog, passed, waitVars, faults>>

\* Faulty: the snapshot is taken for delivered although the client acknowledges.
SnapshotClaiming(a) ==
    /\ conn[a].stage = "init" /\ conn[a].cursor = NoCursor
    /\ LET all == Waiting(a)
           recent == Newest(all, RecentLimit)
           cursor == Greatest(all, NoCursor)
       IN /\ Claim(a, recent)
          /\ conn' = [conn EXCEPT ![a].stage = "live", ![a].cursor = cursor]
          /\ frames' = [frames EXCEPT ![a] = Append(@, Frame(recent, cursor))]
          /\ backlog' = [backlog EXCEPT ![a] = @ \union (all \ recent)]
    /\ UNCHANGED <<storeRest, mode, client, passed, waitVars, faults>>

\* Faulty: the older messages are passed over without a word.
SnapshotSilent(a) ==
    /\ conn[a].stage = "init" /\ conn[a].cursor = NoCursor
    /\ LET all == Waiting(a)
           recent == Newest(all, RecentLimit)
           cursor == Greatest(all, NoCursor)
       IN /\ Select(a, recent)
          /\ conn' = [conn EXCEPT ![a].stage = "live", ![a].cursor = cursor]
          /\ frames' = [frames EXCEPT ![a] = Append(@, Frame(recent, cursor))]
    /\ UNCHANGED <<storeRest, mode, client, backlog, passed, waitVars, faults>>

\* connect_snapshot_for: a listener without a cursor gets the most recent of
\* what awaits it, the number of the older ones, and the newest id as cursor.
Snapshot(a) ==
    /\ conn[a].stage = "init" /\ conn[a].cursor = NoCursor
    /\ LET all == Waiting(a)
           recent == Newest(all, RecentLimit)
           cursor == Greatest(all, NoCursor)
       IN /\ Select(a, recent)
          /\ conn' = [conn EXCEPT ![a].stage = "live", ![a].cursor = cursor]
          /\ frames' = [frames EXCEPT ![a] = Append(@, Frame(recent, cursor))]
          /\ backlog' = [backlog EXCEPT ![a] = @ \union (all \ recent)]
    /\ UNCHANGED <<storeRest, mode, client, passed, waitVars, faults>>

\* _fetch_deliver: the newest page above the cursor, which then moves past it, and
\* past what is older than a full page.
Fetch(a) ==
    LET all == Above(Pending(a), conn[a].cursor)
        page == Newest(all, SocketPage)
        cursor == Greatest(page, conn[a].cursor)
    IN /\ Select(a, page)
       /\ passed' = [passed EXCEPT ![a] = @ \union (all \ page)]
       /\ conn' = [conn EXCEPT ![a].stage = "live", ![a].wake = FALSE, ![a].cursor = cursor]
       /\ frames' = IF page = {} THEN frames
                    ELSE [frames EXCEPT ![a] = Append(@, Frame(page, cursor))]
       /\ UNCHANGED <<storeRest, mode, client, backlog, waitVars, faults>>

\* The initial frame of a listener that resumes from a cursor.
Resume(a) == conn[a].stage = "init" /\ conn[a].cursor # NoCursor /\ Fetch(a)

\* _send_loop: a message has been broadcast.
Sweep(a) == conn[a].stage = "live" /\ conn[a].wake /\ Fetch(a)

\* _ping_loop, every half minute, when the client acknowledges; the broadcast
\* stays queued.
Ping(a) ==
    /\ conn[a].stage = "live" /\ mode = "ack"
    /\ Above(Pending(a), conn[a].cursor) # {}
    /\ Fetch(a)

\* The connection is lost, with the frames on their way.
Drop(a) ==
    /\ conn[a].stage # "down" /\ faults.drops < MaxDrops
    /\ faults' = [faults EXCEPT !.drops = @ + 1]
    /\ conn' = [conn EXCEPT ![a] = Down]
    /\ frames' = [frames EXCEPT ![a] = << >>]
    /\ UNCHANGED <<msgVars, mode, client, backlog, passed, waitVars>>

-----------------------------------------------------------------------------
(* The client.                                                                *)

\* What is new is printed; then everything received is acknowledged.
Handle(a, S, upto) ==
    /\ client' = [client EXCEPT ![a].seen = @ \union S, ![a].first = FALSE,
                                ![a].job = [busy |-> TRUE,
                                            acks |-> IF mode = "peek" THEN {} ELSE S,
                                            upto |-> upto]]
    /\ Gives(S \ client[a].seen, a)

Receive(a) ==
    /\ frames[a] # << >> /\ ~client[a].job.busy
    /\ Handle(a, Head(frames[a]).ids, Head(frames[a]).upto)
    /\ frames' = [frames EXCEPT ![a] = Tail(@)]
    /\ UNCHANGED <<calls, stored, registered, draft, claimed, again, severed, walk, mode, conn,
                   backlog, passed, waitVars, faults>>

\* _cmd_messages_poll: the newest undelivered page above the cursor.  What is older
\* is told of only when the first answer is this one and there was no cursor.
Poll(a) ==
    /\ "socket" \in calls /\ mode = "poll" /\ Calls(a) /\ ~client[a].job.busy
    /\ LET all == Above(Waiting(a), client[a].cursor)
           page == Newest(all, SocketPage)
       IN /\ page # {}
          /\ Handle(a, page, Max(page))
          /\ IF client[a].cursor = NoCursor /\ client[a].first
             THEN backlog' = [backlog EXCEPT ![a] = @ \union (all \ page)] /\ UNCHANGED passed
             ELSE passed' = [passed EXCEPT ![a] = @ \union (all \ page)] /\ UNCHANGED backlog
    /\ UNCHANGED <<calls, stored, registered, draft, claimed, again, severed, walk, mode, conn,
                   frames, waitVars, faults>>

PollNothing(a) ==
    /\ "socket" \in calls /\ mode = "poll" /\ Calls(a) /\ ~client[a].job.busy
    /\ Above(Waiting(a), client[a].cursor) = {} /\ client[a].first
    /\ client' = [client EXCEPT ![a].first = FALSE]
    /\ UNCHANGED <<msgVars, mode, conn, frames, backlog, passed, waitVars, faults>>

\* POST /messages/{id}/delivered, refused when the message is gone or no longer
\* for the agent.
Acknowledge(a, i) ==
    /\ i \in client[a].job.acks
    /\ client' = [client EXCEPT ![a].job.acks = @ \ {i}]
    /\ msgs' = IF i \in DOMAIN msgs /\ IsFor(msgs[i], a, threads)
               THEN MarkedDelivered(msgs, {i}, a) ELSE msgs
    /\ UNCHANGED <<storeRest, claimed, again, mode, conn, frames, backlog, passed, waitVars, faults>>

\* Best effort: the answer or the request is lost and nobody retries.
AckLost(a, i) ==
    /\ i \in client[a].job.acks /\ faults.acks < MaxLostAcks
    /\ faults' = [faults EXCEPT !.acks = @ + 1]
    /\ client' = [client EXCEPT ![a].job.acks = @ \ {i}]
    /\ UNCHANGED <<msgVars, mode, conn, frames, backlog, passed, waitVars>>

\* Faulty: the cursor is moved to the id after the last one.
AdvancePast(a) ==
    /\ client[a].job.busy /\ client[a].job.acks = {}
    /\ client' = [client EXCEPT ![a].cursor = client[a].job.upto + 1, ![a].job = Quiet]
    /\ UNCHANGED <<msgVars, mode, conn, frames, backlog, passed, waitVars, faults>>

\* _advance_cursor and _save_cursor, which never move back.
Advance(a) ==
    /\ client[a].job.busy /\ client[a].job.acks = {}
    /\ LET cursor == Max({client[a].cursor, client[a].job.upto})
       IN client' = [client EXCEPT ![a].cursor = cursor, ![a].job = Quiet,
                        ![a].saved = IF mode = "peek" THEN @ ELSE Max({@, cursor})]
    /\ UNCHANGED <<msgVars, mode, conn, frames, backlog, passed, waitVars, faults>>

\* The client is killed and started again: it remembers its saved cursor alone.
Kill(a) ==
    /\ "socket" \in calls /\ faults.kills < MaxKills
    /\ faults' = [faults EXCEPT !.kills = @ + 1]
    /\ client' = [client EXCEPT ![a] = Fresh(@.saved)]
    /\ conn' = [conn EXCEPT ![a] = Down]
    /\ frames' = [frames EXCEPT ![a] = << >>]
    /\ UNCHANGED <<msgVars, mode, backlog, passed, waitVars>>

-----------------------------------------------------------------------------
(* wait_any.                                                                   *)

WaitCall(a) ==
    /\ "wait" \in calls /\ Calls(a) /\ waiter[a] = "none"
    /\ waiter' = [waiter EXCEPT ![a] = "check"]
    /\ UNCHANGED <<msgVars, socketVars, wakeEvent, faults>>

\* The call returns what it claims, or goes on to park.
WaitCheck(a) ==
    /\ waiter[a] = "check"
    /\ LET page == Newest(Waiting(a), WaitLimit)
       IN /\ Claim(a, page)
          /\ Gives(page, a)
          /\ waiter' = [waiter EXCEPT ![a] = IF page = {} THEN "clear" ELSE "none"]
    /\ UNCHANGED <<calls, threads, nextId, clock, registered, draft, severed, walk, socketVars,
                   wakeEvent, faults>>

\* The wake event is cleared after the check, not before.
WaitPark(a) ==
    /\ waiter[a] = "clear"
    /\ waiter' = [waiter EXCEPT ![a] = "parked"]
    /\ wakeEvent' = FALSE
    /\ UNCHANGED <<msgVars, socketVars, faults>>

WaitWoken(a) ==
    /\ waiter[a] = "parked" /\ wakeEvent
    /\ waiter' = [waiter EXCEPT ![a] = "check"]
    /\ UNCHANGED <<msgVars, socketVars, wakeEvent, faults>>

\* The poll every five seconds.
WaitPoll(a) ==
    /\ waiter[a] = "parked" /\ ~wakeEvent
    /\ waiter' = [waiter EXCEPT ![a] = "check"]
    /\ UNCHANGED <<msgVars, socketVars, wakeEvent, faults>>

\* The deadline of the call.
WaitTimeout(a) ==
    /\ waiter[a] \in {"clear", "parked"}
    /\ waiter' = [waiter EXCEPT ![a] = "none"]
    /\ UNCHANGED <<msgVars, socketVars, wakeEvent, faults>>

-----------------------------------------------------------------------------
Socket(a) == Connect(a) \/ Snapshot(a) \/ Resume(a) \/ Sweep(a) \/ Ping(a)

Client(a) ==
    \/ Receive(a) \/ Poll(a) \/ PollNothing(a) \/ Advance(a)
    \/ \E i \in Ids : Acknowledge(a, i)

Wait(a) == WaitCheck(a) \/ WaitPark(a) \/ WaitWoken(a) \/ WaitPoll(a)

Faults(a) == Drop(a) \/ Kill(a) \/ \E i \in Ids : AckLost(a, i)

Next ==
    \/ StoreCall
    \/ \E a \in Receivers :
          Socket(a) \/ Client(a) \/ WaitCall(a) \/ Wait(a) \/ WaitTimeout(a) \/ Faults(a)

Spec == Init /\ [][Next]_vars

-----------------------------------------------------------------------------
(* Properties.                                                                *)

\* A message counts as delivered to an agent only once the agent was given its
\* text: the acknowledgement follows the print, over lost connections, killed
\* clients and any interleaving with the other channels.  The legacy mode
\* promises less.
DeliveredMeansGiven ==
    mode # "claim" =>
        \A i \in DOMAIN msgs : \A a \in msgs[i].delivered : a \in given[i]

\* A message stops waiting for an agent only when the agent is given it, or
\* reads it, leaves or mutes its thread, or it is deleted: joining again,
\* posting, or an acknowledgement for something else never takes it away.
Withdrawn(a, i) ==
    \/ i \notin DOMAIN msgs' \/ a \in given'[i] \/ a \in msgs'[i].read
    \/ ~IsFor(msgs'[i], a, threads')

NothingWithdrawn ==
    [][mode # "claim" =>
          \A a \in {b \in Receivers : Calls(b)} : \A i \in Waiting(a) \ Waiting(a)' : Withdrawn(a, i)]_vars

\* What a listening client has moved its cursor past, it was given, or told of
\* as older backlog: a direct message is skipped in silence only when more than a
\* page was waiting at once.
Overtaken(a) == {i \in Waiting(a) : msgs[i].to = ToAgent(a) /\ i <= client[a].cursor}

NothingSkipped ==
    mode \in {"ack", "poll"} =>
        \A a \in Receivers : \A i \in Overtaken(a) :
            a \in given[i] \/ i \in backlog[a] \/ i \in passed[a]

\* Not even then: the pings "drain additional pages" (app.py, _ping_loop).
PagesDrained ==
    mode = "ack" =>
        \A a \in Receivers : \A i \in Overtaken(a) : a \in given[i] \/ i \in backlog[a]
=============================================================================
