------------------------------- MODULE Events -------------------------------
(* The event stream (the_lab/ws.py, Broadcaster): the replay ring, the journal *)
(* a thread writes behind it, and one dashboard that follows the stream over a *)
(* socket (app.py, ws_endpoint) or by long polls (routes/operational.py,       *)
(* get_events), loses its connection and comes back with the last number it    *)
(* has, over a restart of the server.                                          *)
(*                                                                            *)
(* An event is known by when it happened (n) and by the number it was given    *)
(* (seq).  The files are read a file at a time.                                *)
EXTENDS Integers, SequencesExt

CONSTANTS
    RingSize,   \* _RING_SIZE
    QueueMax,   \* _QUEUE_MAX
    FileMax,    \* events in a journal file (_JOURNAL_MAX_BYTES)
    MaxEvents,  \* bound: events
    MaxFailures, \* bound: lost connections, and journal writes that fail
    MaxRestarts \* bound: restarts of the server

ASSUME EventsAssumption ==
    /\ {RingSize, QueueMax, FileMax} \subseteq Nat \ {0}
    /\ {MaxEvents, MaxFailures, MaxRestarts} \subseteq Nat

VARIABLES
    ring,      \* _ring, oldest first
    seqNo,     \* _seq
    unwritten, \* _journal_q
    journal,   \* events.jsonl.1 and events.jsonl
    link,      \* the connection or long poll, server side
    queue,     \* its subscriber queue
    page,      \* the dashboard
    happened,  \* how many events there were
    excused,   \* events the dashboard may miss
    troubles   \* restarts, lost connections and failed writes so far

eventVars == <<ring, seqNo, unwritten, journal, link, queue, page, happened, excused, troubles>>

Event(n, s) == [n |-> n, seq |-> s]

Off == [by |-> "none", stage |-> "off", cursor |-> 0, snap |-> << >>, files |-> << >>, out |-> << >>]

\* Along a sequence the numbers rise (StreamKept): those above c are its end.
Ns(s)       == {s[k].n : k \in DOMAIN s}
After(s, c) == LET above == {k \in DOMAIN s : s[k].seq > c}
               IN IF above = {} THEN << >> ELSE SubSeq(s, Min(above), Len(s))
LastOf(s, size) == SubSeq(s, Max({1, Len(s) - size + 1}), Len(s))
Highest(s, c) == Max({c} \union {s[k].seq : k \in DOMAIN s})

EventSeqs == Seq([n: 1..MaxEvents, seq: 1..MaxEvents])

FileLists == {<< >>, <<"old">>, <<"current">>, <<"old", "current">>}

EventsTypeOK ==
    /\ {ring, unwritten, queue} \subseteq EventSeqs
    /\ journal \in [old: EventSeqs, current: EventSeqs]
    /\ Len(ring) <= RingSize /\ Len(queue) <= QueueMax /\ Len(journal.current) <= FileMax
    /\ seqNo \in 0..MaxEvents /\ happened \in 0..MaxEvents /\ excused \subseteq 1..MaxEvents
    /\ link \in [by: {"none", "socket", "poll"},
                 stage: {"off", "ring", "read", "send", "live", "answer"},
                 cursor: 0..MaxEvents, snap: EventSeqs, files: FileLists, out: EventSeqs]
    /\ page \in [last: 0..MaxEvents, got: SUBSET (1..MaxEvents)]
    /\ troubles \in [restarts: 0..MaxRestarts, drops: 0..MaxFailures, writes: 0..MaxFailures]

EventsInit ==
    /\ ring = << >> /\ seqNo = 0 /\ unwritten = << >>
    /\ journal = [old |-> << >>, current |-> << >>]
    /\ link = Off /\ queue = << >>
    /\ page = [last |-> 0, got |-> {}]
    /\ happened = 0 /\ excused = {}
    /\ troubles = [restarts |-> 0, drops |-> 0, writes |-> 0]

-----------------------------------------------------------------------------
(* The broadcaster and its journal.                                           *)

\* Faulty: a full queue loses its oldest event only when it is over the limit.
BroadcastOver ==
    /\ happened < MaxEvents /\ Len(unwritten) < RingSize
    /\ LET e == Event(happened + 1, seqNo + 1)
           full == Len(queue) > QueueMax
       IN /\ happened' = e.n /\ seqNo' = e.seq
          /\ ring' = LastOf(Append(ring, e), RingSize)
          /\ unwritten' = Append(unwritten, e)
          /\ queue' = IF link.stage = "off" THEN queue
                      ELSE Append(IF full THEN Tail(queue) ELSE queue, e)
          /\ excused' = excused
                 \union (IF full THEN {Head(queue).n} ELSE {})
                 \union (IF troubles.restarts > 0 /\ e.seq <= page.last THEN {e.n} ELSE {})
    /\ UNCHANGED <<journal, link, page, troubles>>

\* broadcast: a full queue loses its oldest event.  After a restart that lost
\* unwritten events, numbers the dashboard has seen are given out again.  The
\* writer is assumed never to be a whole ring behind.
Broadcast ==
    /\ happened < MaxEvents /\ Len(unwritten) < RingSize
    /\ LET e == Event(happened + 1, seqNo + 1)
           full == Len(queue) >= QueueMax
       IN /\ happened' = e.n /\ seqNo' = e.seq
          /\ ring' = LastOf(Append(ring, e), RingSize)
          /\ unwritten' = Append(unwritten, e)
          /\ queue' = IF link.stage = "off" THEN queue
                      ELSE Append(IF full THEN Tail(queue) ELSE queue, e)
          /\ excused' = excused
                 \union (IF full THEN {Head(queue).n} ELSE {})
                 \union (IF troubles.restarts > 0 /\ e.seq <= page.last THEN {e.n} ELSE {})
    /\ UNCHANGED <<journal, link, page, troubles>>

\* _journal_writer
JournalAppend ==
    /\ unwritten # << >> /\ Len(journal.current) < FileMax
    /\ journal' = [journal EXCEPT !.current = Append(@, Head(unwritten))]
    /\ unwritten' = Tail(unwritten)
    /\ UNCHANGED <<ring, seqNo, link, queue, page, happened, excused, troubles>>

\* Persistence is best effort.
JournalFails ==
    /\ unwritten # << >> /\ troubles.writes < MaxFailures
    /\ unwritten' = Tail(unwritten)
    /\ excused' = excused \union {Head(unwritten).n}
    /\ troubles' = [troubles EXCEPT !.writes = @ + 1]
    /\ UNCHANGED <<ring, seqNo, journal, link, queue, page, happened>>

\* The full file replaces the older one, whose events are gone; a replay that is
\* reading the files may miss those that move.
JournalRotate ==
    /\ Len(journal.current) >= FileMax
    /\ journal' = [old |-> journal.current, current |-> << >>]
    /\ excused' = excused \union Ns(journal.old)
                     \union (IF link.stage = "read" THEN Ns(journal.current) ELSE {})
    /\ UNCHANGED <<ring, seqNo, unwritten, link, queue, page, happened, troubles>>

\* The server dies, its unwritten events with it, and starts again
\* (attach_journal): numbers go on from the last line of the journal.
Restart ==
    /\ troubles.restarts < MaxRestarts
    /\ LET lines == journal.old \o journal.current
       IN /\ ring' = LastOf(lines, RingSize)
          /\ seqNo' = Highest(LastOf(lines, 1), 0)
    /\ excused' = excused \union Ns(unwritten)
    /\ unwritten' = << >> /\ link' = Off /\ queue' = << >>
    /\ troubles' = [troubles EXCEPT !.restarts = @ + 1]
    /\ UNCHANGED <<journal, page, happened>>

-----------------------------------------------------------------------------
(* Both transports: the subscription comes before the replay.                  *)

Quiet == UNCHANGED <<ring, seqNo, unwritten, journal, happened, troubles>>

\* A dashboard that has nothing yet gets the ring alone over the socket.
Open ==
    /\ link.stage = "off"
    /\ IF page.last = 0
       THEN /\ link' = [Off EXCEPT !.by = "socket", !.stage = "send", !.out = ring]
            /\ excused' = excused \union (1..happened \ Ns(ring))
       ELSE /\ link' = [Off EXCEPT !.by = "socket", !.stage = "ring", !.cursor = page.last]
            /\ UNCHANGED excused
    /\ queue' = << >> /\ UNCHANGED page /\ Quiet

Poll ==
    /\ link.stage = "off"
    /\ link' = [Off EXCEPT !.by = "poll", !.stage = "ring", !.cursor = page.last]
    /\ queue' = << >> /\ UNCHANGED <<page, excused>> /\ Quiet

Replayed(out) ==
    [link EXCEPT !.stage = IF link.by = "socket" THEN "send" ELSE "answer",
                 !.snap = << >>, !.files = << >>, !.out = out]

Named(f) == IF journal[f] = << >> THEN << >> ELSE <<f>>

\* replay_with_journal, on a thread: the ring if it goes back far enough, else the
\* files that are there.
ReplayRing ==
    /\ link.stage = "ring"
    /\ link' = IF ring # << >> /\ link.cursor >= ring[1].seq - 1
               THEN Replayed(After(ring, link.cursor))
               ELSE [link EXCEPT !.stage = "read", !.snap = ring,
                        !.files = Named("old") \o Named("current")]
    /\ UNCHANGED <<queue, page, excused>> /\ Quiet

\* A file that has gone meanwhile ends the reading.
ReplayFile ==
    /\ link.stage = "read" /\ link.files # << >>
    /\ LET lines == journal[Head(link.files)]
       IN link' = [link EXCEPT !.out = @ \o After(lines, link.cursor),
                               !.files = IF lines = << >> THEN << >> ELSE Tail(@)]
    /\ UNCHANGED <<queue, page, excused>> /\ Quiet

\* Faulty: the files are taken to hold everything.
ReplayMergeFiles ==
    /\ link.stage = "read" /\ link.files = << >>
    /\ link' = Replayed(link.out)
    /\ UNCHANGED <<queue, page, excused>> /\ Quiet

\* The ring may hold events newer than the last line read.
ReplayMerge ==
    /\ link.stage = "read" /\ link.files = << >>
    /\ LET last == IF link.out = << >> THEN link.cursor ELSE Last(link.out).seq
       IN link' = Replayed(link.out \o After(link.snap, last))
    /\ UNCHANGED <<queue, page, excused>> /\ Quiet

-----------------------------------------------------------------------------
(* What the dashboard gets.                                                   *)

Gets(events) == [last |-> Highest(events, page.last), got |-> page.got \union Ns(events)]

\* Over the socket an event at a time, each above the last one sent.
SendFrom(s, rest) ==
    LET e == Head(s) IN
    IF e.seq > link.cursor
    THEN link' = [rest EXCEPT !.cursor = e.seq] /\ page' = Gets(<<e>>)
    ELSE link' = rest /\ UNCHANGED page

SendReplay ==
    /\ link.stage = "send"
    /\ IF link.out = << >> THEN link' = [link EXCEPT !.stage = "live"] /\ UNCHANGED page
       ELSE SendFrom(link.out, [link EXCEPT !.out = Tail(@)])
    /\ UNCHANGED <<queue, excused>> /\ Quiet

SendLive ==
    /\ link.stage = "live" /\ link.by = "socket" /\ queue # << >>
    /\ SendFrom(queue, link) /\ queue' = Tail(queue)
    /\ UNCHANGED excused /\ Quiet

\* A poll is answered with the replay if there is any, else it waits.
AnswerReplay ==
    /\ link.stage = "answer"
    /\ IF link.out # << >>
       THEN link' = Off /\ queue' = << >> /\ page' = Gets(link.out)
       ELSE link' = [link EXCEPT !.stage = "live"] /\ UNCHANGED <<queue, page>>
    /\ UNCHANGED excused /\ Quiet

\* It is answered with what the queue holds.
AnswerLive ==
    /\ link.stage = "live" /\ link.by = "poll" /\ queue # << >>
    /\ LET fresh == After(queue, link.cursor)
       IN IF fresh # << >> THEN link' = Off /\ page' = Gets(fresh)
          ELSE link' = link /\ UNCHANGED page
    /\ queue' = << >> /\ UNCHANGED excused /\ Quiet

\* A poll ends without an answer, a connection is lost.
Drop ==
    /\ link.stage # "off" /\ troubles.drops < MaxFailures
    /\ link' = Off /\ queue' = << >>
    /\ troubles' = [troubles EXCEPT !.drops = @ + 1]
    /\ UNCHANGED <<ring, seqNo, unwritten, journal, page, happened, excused>>

-----------------------------------------------------------------------------
EventsNext ==
    \/ Broadcast \/ JournalAppend \/ JournalFails \/ JournalRotate \/ Restart
    \/ Open \/ Poll \/ ReplayRing \/ ReplayFile \/ ReplayMerge
    \/ SendReplay \/ SendLive \/ AnswerReplay \/ AnswerLive \/ Drop

EventsSpec == EventsInit /\ [][EventsNext]_eventVars

-----------------------------------------------------------------------------
\* The dashboard misses no event between those it got, and none once a live
\* connection has nothing left to send: replay and live delivery join without a
\* gap, whatever the journal's writer has written by then.  Excused are events
\* that were before a fresh dashboard's ring, dropped from a full queue, gone
\* from the journal or never in it, or moved by a rotation while they were read,
\* and those whose numbers the dashboard had seen before a restart.
UpToDate == link.stage = "live" /\ queue = << >>

NothingMissed ==
    \A n \in 1..happened :
        (UpToDate \/ \E later \in page.got : later > n) => n \in page.got \union excused

-----------------------------------------------------------------------------
(* The inductive invariant.                                                   *)

Logged  == Range(journal.old) \union Range(journal.current) \union Range(unwritten)
Around  == UNION {Logged, Range(ring), Range(queue), Range(link.snap), Range(link.out)}
Missing == {e \in Logged : e.n \notin page.got \union excused}

Earlier(e, f) == e.n < f.n /\ e.seq < f.seq
Rises(s)      == \A j, k \in DOMAIN s : j < k => Earlier(s[j], s[k])
Before(s, t)  == \A e \in Range(s), f \in Range(t) : Earlier(e, f)
EndsWith(s, t) == Len(t) <= Len(s) /\ \A k \in DOMAIN t : t[k] = s[k + Len(s) - Len(t)]

\* Numbers rise as events happen, in every place; the journal and what is unwritten
\* follow each other.
StreamKept ==
    /\ seqNo <= happened
    /\ \A e \in Around : e.n <= happened /\ e.seq <= seqNo
    /\ \A e, f \in Around : e = f \/ Earlier(e, f) \/ Earlier(f, e)
    /\ \A s \in {journal.old, journal.current, unwritten, ring, queue, link.snap, link.out} : Rises(s)
    /\ Before(journal.old, journal.current)
    /\ Before(journal.old, unwritten) /\ Before(journal.current, unwritten)

\* The ring has all that was logged since its oldest event, last what is unwritten.
RingKept ==
    /\ EndsWith(ring, unwritten)
    /\ ring = << >> => Logged = {}
    /\ ring # << >> => \A e \in Logged : e.seq >= ring[1].seq => e \in Range(ring)

\* An event is in the journal, about to be written to it, or excused.
Accounted == \A n \in 1..happened : n \in excused \/ \E e \in Logged : e.n = n

\* The dashboard misses nothing up to its last number, nor before what it has got.
PageKept ==
    /\ page.got \subseteq 1..happened
    /\ troubles.restarts = 0 => page.last <= seqNo
    /\ link.cursor <= page.last
    /\ \A e \in Missing : e.seq > page.last
    /\ \A n \in 1..happened : (\E later \in page.got : later > n) => n \in page.got \union excused

\* What it misses is to come: in the replay, in a file still to be read, in the copy of
\* the ring, or in the queue behind all these.
ToCome ==
    /\ link.stage = "ring" => link.out = << >>
    /\ link.stage \in {"send", "answer"} =>
          \A e \in Missing :
             e \in Range(link.out) \/ (e \in Range(queue) /\ Before(link.out, <<e>>))
    /\ link.stage = "live" => Missing \subseteq Range(queue)
    /\ link.stage = "read" =>
          /\ Before(link.out, unwritten)
          /\ "old" \in Range(link.files) => journal.old # << >> /\ link.out = << >>
          /\ "current" \in Range(link.files) => Before(link.out, journal.current)
          /\ \A e \in Missing :
                \/ e \in Range(link.out)
                \/ e \in Range(journal.old) /\ "old" \in Range(link.files)
                \/ e \in Range(journal.current) /\ "current" \in Range(link.files)
                \/ /\ e \notin Range(journal.old) /\ Before(link.out, <<e>>)
                   /\ \/ e \in Range(link.snap)
                      \/ e \in Range(queue) /\ Before(link.snap, <<e>>)

EventsIInv == EventsTypeOK /\ StreamKept /\ RingKept /\ Accounted /\ PageKept /\ ToCome
=============================================================================
