------------------------------- MODULE Collab -------------------------------
(* Live editing of one artifact (the_lab/collab.py): the document the server   *)
(* holds while somebody has it open, the editors' sessions in their browsers   *)
(* (dashboard/src/state/collab.ts), and the file, which is saved behind the    *)
(* edits and which an agent may write at any time.                             *)
(*                                                                            *)
(* The event loop runs a handler from one await to the next; a task that is    *)
(* cancelled while a thread writes for it leaves the thread behind.  Sends are *)
(* taken never to block, and the document to be loaded by one session at a     *)
(* time.  Every insert is of a letter of its own.                              *)
EXTENDS TextOps

CONSTANTS
    Editors,       \* browser tabs
    StartText,     \* the file at first
    MaxEdits,      \* bound: edits in the browsers
    MaxTroubles,   \* bound: edits of the file by an agent, and lost connections
    MaxJoins,      \* bound: connections made
    MaxEvents      \* bound: all of these together

ASSUME CollabAssumption ==
    /\ StartText # NoText /\ {MaxEdits, MaxTroubles, MaxJoins, MaxEvents} \subseteq Nat

VARIABLES
    doc,      \* the CollabDoc, when there is one
    file,     \* the text on disk
    timer,    \* the debounced flush sleeps or waits for the lock
    saver,    \* the task that holds flush_lock and writes
    strays,   \* texts that threads left behind have still to write
    listed,   \* doc.clients
    stale,    \* per editor, lost connections the server has not noticed
    session,  \* per editor, the tab's CollabSession
    up, down, \* per editor, the frames on their way to the server, and back
    tally,    \* edits, troubles and joins so far
    applied,  \* letters that have been in the document
    removed,  \* letters somebody has deleted
    replayed, \* letters that a tab which came back has undone or repeated, see GetsJoined
    misread,  \* letters undone or repeated where an unrecorded text was merged or left
    author,   \* whose text the file holds: "server" if the document's own, saved or read
              \* from there, "agent", or "unrecorded" if what a cancelled task or its
              \* thread has written or read is not known as flushed
    stream,   \* per editor, the version up to which it has been told all, in order,
              \* or Astray
    nulled,   \* per editor, whether the operation it awaits the acknowledgement of has
              \* come to nothing ("void"), and has done harm since ("misled")
    unflushed \* an edit has been applied and no flush scheduled, see SubmitGone

serverVars == <<doc, file, timer, saver, strays, listed, stale>>
letters    == <<applied, removed, replayed, misread>>
streams    == <<stream, nulled>>
ghosts     == <<letters, streams, author, unflushed>>
collabVars == <<serverVars, session, up, down, tally, ghosts>>

Letters(text) == {text[k] : k \in DOMAIN text} \ {0}

\* once
Holds(text, n) == \E k \in DOMAIN text : text[k] = n /\ \A j \in DOMAIN text \ {k} : text[j] # n

NoDoc == [loaded |-> FALSE, text |-> << >>, history |-> << >>, flushed |-> << >>,
          flushedVersion |-> 0, known |-> << >>]

Loaded(text) == [loaded |-> TRUE, text |-> text, history |-> << >>, flushed |-> text,
                 flushedVersion |-> 0, known |-> text]

NoSaver == [by |-> "none", stage |-> "none", text |-> << >>, version |-> 0, ops |-> << >>]

NewSession == [conn |-> "off", joined |-> FALSE, version |-> 0, text |-> << >>,
               confirmed |-> << >>, outstanding |-> << >>, buffer |-> << >>, pending |-> FALSE,
               suspect |-> FALSE]

NoneStale == [on |-> FALSE, frames |-> << >>]

Version == Len(doc.history)

Astray == -1  \* told something out of order since it joined

AllLetters == 1..(Len(StartText) + MaxEdits + MaxTroubles)

CollabTypeOK ==
    /\ doc.text # NoText /\ Letters(doc.text) \union Letters(file) \subseteq AllLetters
    /\ doc.flushedVersion \in 0..Version
    /\ {timer, unflushed} \subseteq BOOLEAN /\ author \in {"server", "agent", "unrecorded"}
    /\ saver.by \in {"none", "flush", "poll", "unload"}
    /\ saver.stage \in {"none", "write", "written"}
    /\ listed \subseteq Editors /\ \A e \in Editors : stream[e] \in Nat \union {Astray}
    /\ \A e \in Editors : session[e].conn \in {"off", "joining", "on", "ended"} /\ stale[e].on \in BOOLEAN
    /\ nulled \in [Editors -> {"no", "void", "misled"}]
    /\ applied \union removed \union replayed \union misread \subseteq AllLetters

CollabInit ==
    /\ doc = NoDoc /\ file = StartText /\ timer = FALSE /\ saver = NoSaver /\ strays = {}
    /\ listed = {} /\ stale = [e \in Editors |-> NoneStale]
    /\ session = [e \in Editors |-> NewSession]
    /\ up = [e \in Editors |-> << >>] /\ down = [e \in Editors |-> << >>]
    /\ tally = [edits |-> 0, troubles |-> 0, joins |-> 0]
    /\ applied = Letters(StartText) /\ removed = {} /\ replayed = {} /\ misread = {}
    /\ author = "server" /\ unflushed = FALSE
    /\ stream = [e \in Editors |-> 0] /\ nulled = [e \in Editors |-> "no"]

Allowed(kind, max) ==
    tally[kind] < max /\ tally.edits + tally.troubles + tally.joins < MaxEvents

-----------------------------------------------------------------------------
(* The document.                                                              *)

OpFrame(v, ops) == [type |-> "op", v |-> v, ops |-> ops, text |-> << >>]
Ack(v, text)    == [type |-> "ack", v |-> v, ops |-> << >>, text |-> text]
Joined(v, text) == [type |-> "joined", v |-> v, ops |-> << >>, text |-> text]
Error           == [type |-> "error", v |-> 0, ops |-> << >>, text |-> << >>]

\* The server has hung up, and the tab does not know it yet.
HungUp(e) == \E k \in DOMAIN down[e] : down[e][k].type = "error"

\* A frame for each of some editors, lost where the connection is.
Tells(frame) ==
    LET told == {e \in DOMAIN frame : session[e].conn \in {"joining", "on"}}
    IN /\ down' = [e \in Editors |-> IF e \in told THEN Append(down[e], frame[e]) ELSE down[e]]
       /\ stream' = [e \in Editors |-> IF e \notin told THEN stream[e]
                                      ELSE IF frame[e].v = stream[e] THEN stream[e] + 1 ELSE Astray]

\* _broadcast
Broadcasts(v, ops, others) == Tells([e \in others |-> OpFrame(v, ops)])

\* _apply_ops: transformed against the history it missed, and recorded.
Applied(d, ops, base) ==
    LET late == AfterAll(ops, SubSeq(d.history, base + 1, Len(d.history)))
    IN [d EXCEPT !.text = ApplyOp(d.text, late), !.history = Append(@, late)]

\* A task cancelled while its thread writes: the lock is free, nothing is
\* recorded, and the file is or will be replaced.
Cancelled(by) ==
    IF saver.by = by
    THEN /\ saver' = NoSaver
         /\ strays' = IF saver.stage = "write" THEN strays \union {saver.text} ELSE strays
         /\ author' = IF saver.stage = "written" \/ by = "poll" THEN "unrecorded" ELSE author
    ELSE UNCHANGED <<saver, strays, author>>


\* An operation is applied: who gets the acknowledgement, and who is told.
Takes(frame, acked, told) ==
    LET new == Applied(doc, frame.ops, frame.v)
    IN /\ new.text # NoText /\ doc' = new
       /\ Tells([e \in acked \union told |->
                   IF e \in acked THEN Ack(Version, new.text)
                   ELSE OpFrame(Version, Last(new.history))])
       /\ applied' = applied \union Letters(new.text)

\* An operation that does not fit is refused.
Refuses(frame) == Applied(doc, frame.ops, frame.v).text = NoText

\* _handle_op and schedule_flush: the sender gets the acknowledgement, the others
\* the operation, and the flush starts over, cancelled even as it writes.
Submit(e) ==
    /\ up[e] # << >>
    /\ Takes(Head(up[e]), {e}, listed \ {e})
    /\ up' = [up EXCEPT ![e] = Tail(@)]
    /\ timer' = TRUE /\ Cancelled("flush")
    /\ unflushed' = FALSE
    /\ UNCHANGED <<file, listed, stale, session, tally, removed, replayed, misread, nulled>>

\* The same for what a tab sent before it lost its connection.
SubmitLate(e) ==
    /\ stale[e].frames # << >>
    /\ IF Refuses(Head(stale[e].frames))
       THEN /\ stale' = [stale EXCEPT ![e].frames = << >>]
            /\ UNCHANGED <<doc, timer, saver, strays, down, applied, stream, author, unflushed>>
       ELSE /\ stale' = [stale EXCEPT ![e].frames = Tail(@)]
            /\ Takes(Head(stale[e].frames), {}, listed \ {e})
            /\ timer' = TRUE /\ Cancelled("flush") /\ unflushed' = FALSE
    /\ UNCHANGED <<file, listed, session, up, tally, removed, replayed, misread, nulled>>

\* The acknowledgement raises, since the connection is known to be closed: the
\* edit has been applied, but nobody is told and no flush scheduled.
SubmitGone(e) ==
    /\ stale[e].frames # << >>
    /\ Takes(Head(stale[e].frames), {}, {})
    /\ stale' = [stale EXCEPT ![e].frames = << >>]
    /\ unflushed' = TRUE
    /\ UNCHANGED <<file, timer, saver, strays, listed, session, up, tally, removed, replayed,
                   misread, author, nulled>>

Leaves(e) ==
    /\ listed' = listed \ {e}
    /\ IF listed' = {} THEN Cancelled("poll") ELSE UNCHANGED <<saver, strays, author>>

\* The tab is told, and its session ends.
SubmitRefused(e) ==
    /\ up[e] # << >> /\ Refuses(Head(up[e]))
    /\ up' = [up EXCEPT ![e] = << >>]
    /\ down' = [down EXCEPT ![e] = Append(@, Error)]
    /\ Leaves(e)
    /\ UNCHANGED <<doc, file, timer, stale, session, tally, letters, streams, unflushed>>

-----------------------------------------------------------------------------
(* Saving, and what an agent writes.                                           *)

\* The start of _flush_locked.
Saves(by) ==
    /\ IF doc.text = doc.flushed THEN UNCHANGED saver
       ELSE saver' = [by |-> by, stage |-> "write", text |-> doc.text, version |-> Version,
                       ops |-> << >>]
    /\ unflushed' = FALSE

\* The debounced flush gets the lock.
Flush ==
    /\ timer /\ saver = NoSaver
    /\ timer' = FALSE /\ Saves("flush")
    /\ UNCHANGED <<doc, file, strays, listed, stale, session, up, down, tally, letters, streams,
                   author>>

\* os.replace, on a thread.
Replace ==
    /\ saver.stage = "write"
    /\ file' = saver.text /\ saver' = [saver EXCEPT !.stage = "written"]
    /\ author' = "server"
    /\ UNCHANGED <<doc, timer, strays, listed, stale, session, up, down, tally, letters, streams,
                   unflushed>>

\* Letters that are, once, in one of the texts only.
Differing(a, b) == {n \in Letters(a) \union Letters(b) : ~(Holds(a, n) /\ Holds(b, n))}

\* The same on a thread whose task has been cancelled.  Without a document it
\* overwrites what was saved last.
StrayReplace ==
    /\ \E text \in strays :
          /\ file' = text /\ strays' = strays \ {text}
          /\ misread' = IF doc.loaded THEN misread ELSE misread \union Differing(file, text)
    /\ author' = "unrecorded"
    /\ UNCHANGED <<doc, timer, saver, listed, stale, session, up, down, tally, applied, removed,
                   replayed, streams, unflushed>>

\* What a merge has applied is told only now, whatever has been applied since.
TellsMerged ==
    IF saver.ops = << >> THEN UNCHANGED <<down, stream>>
    ELSE Broadcasts(saver.version - 1, saver.ops, listed)

\* The document is dropped, and the file is what there is.
Drops ==
    /\ doc' = NoDoc
    /\ misread' = IF author = "unrecorded" THEN misread \union Differing(file, doc.text) ELSE misread


Flushed ==
    [doc EXCEPT !.flushed = saver.text, !.flushedVersion = saver.version, !.known = saver.text]

\* The end of _flush_locked.  After the last one the document is dropped.
Record ==
    /\ saver.stage = "written"
    /\ IF saver.by = "unload" THEN Drops ELSE doc' = Flushed /\ UNCHANGED misread
    /\ TellsMerged /\ saver' = NoSaver
    /\ UNCHANGED <<file, timer, strays, listed, stale, session, up, tally, applied, removed,
                   replayed, nulled, author, unflushed>>

\* Faulty: the difference is taken from the text in memory.
DiskOpCurrent == [type |-> "op", v |-> Version, ops |-> DiffOps(doc.text, file)]

\* What has changed on disk is an operation on the text of the last flush.
DiskOp == [type |-> "op", v |-> doc.flushedVersion, ops |-> DiffOps(doc.flushed, file)]

Touched(op) == UNION {Letters(op[k].s) : k \in DOMAIN op}

\* check_and_merge_external, while somebody is listed: it is applied, the merged text
\* is saved, and the operation told afterwards.  What a thread left behind has
\* written is read as an agent's.
Merge ==
    /\ doc.loaded /\ listed # {} /\ saver = NoSaver /\ file # doc.known
    /\ LET op == DiskOp
           noted == [doc EXCEPT !.known = file]
           new == IF op.ops = << >> THEN noted ELSE Applied(noted, op.ops, op.v)
           merged == IF op.ops = << >> THEN << >> ELSE Last(new.history)
       IN /\ doc' = new
          /\ applied' = applied \union Letters(new.text)
          /\ misread' = IF author = "unrecorded" THEN misread \union Touched(op.ops) ELSE misread
          /\ IF new.text # doc.flushed
             THEN /\ saver' = [by |-> "poll", stage |-> "write", text |-> new.text,
                               version |-> Len(new.history), ops |-> merged]
                  /\ UNCHANGED <<down, stream>>
             ELSE /\ UNCHANGED saver
                  /\ IF op.ops = << >> THEN UNCHANGED <<down, stream>>
                     ELSE Broadcasts(Version, merged, listed)
    /\ author' = "server" /\ unflushed' = FALSE
    /\ UNCHANGED <<file, timer, strays, listed, stale, session, up, tally, removed, replayed,
                   nulled>>

\* schedule_unload: half a minute after the last one left, when the debounced
\* flush is long done, the document is saved and dropped.  That it is dropped while
\* a tab is connected whose entry an earlier connection has taken away is left out.
Unload ==
    /\ doc.loaded /\ listed = {} /\ ~timer /\ saver = NoSaver
    /\ \A e \in Editors : session[e].conn \in {"off", "ended"} /\ ~stale[e].on
    /\ Saves("unload")
    /\ IF doc.text = doc.flushed THEN Drops ELSE UNCHANGED <<doc, misread>>
    /\ UNCHANGED <<file, timer, strays, listed, stale, session, up, down, tally, applied, removed,
                   replayed, streams, author>>

NewLetter == Len(StartText) + tally.edits + tally.troubles + 1

Changes(text) ==
    {<<Insert(p, <<NewLetter>>)>> : p \in 0..Len(text)}
    \union {<<Delete(q[1], SubSeq(text, q[1] + 1, q[2]))>> :
               q \in {r \in (0..Len(text)) \X (1..Len(text)) : r[2] - r[1] \in 1..2}}

Deleted(op) == UNION {Letters(op[k].s) : k \in {j \in DOMAIN op : ~op[j].ins}}

\* Somebody replaces the file: an agent, or the plain editor, whose PUT is refused
\* unless it was made from what the file holds (write_artifact_file).
AgentWrites ==
    /\ Allowed("troubles", MaxTroubles)
    /\ \E op \in Changes(file) :
          /\ file' = ApplyOp(file, op) /\ file' # NoText
          /\ removed' = removed \union Deleted(op)
    /\ tally' = [tally EXCEPT !.troubles = @ + 1]
    /\ author' = IF author = "unrecorded" THEN author ELSE "agent"
    /\ UNCHANGED <<doc, timer, saver, strays, listed, stale, session, up, down, applied,
                   replayed, misread, streams, unflushed>>

-----------------------------------------------------------------------------
(* A browser tab.                                                             *)

\* get_doc, join, start_polling.  A pending unload is cancelled.  What the tab had
\* sent before has been handled, a second later.
Join(e) ==
    /\ session[e].conn = "off" /\ stale[e].frames = << >> /\ Allowed("joins", MaxJoins)
    /\ tally' = [tally EXCEPT !.joins = @ + 1]
    /\ session' = [session EXCEPT ![e].conn = "joining"]
    /\ doc' = IF doc.loaded THEN doc ELSE Loaded(file)
    /\ applied' = IF doc.loaded THEN applied ELSE Letters(file)
    /\ listed' = listed \union {e}
    /\ down' = [down EXCEPT ![e] = <<Joined(Len(doc'.history), doc'.text)>>]
    /\ IF doc.loaded THEN Cancelled("unload")
       ELSE author' = "server" /\ UNCHANGED <<saver, strays>>
    /\ stream' = [stream EXCEPT ![e] = Len(doc'.history)]
    /\ UNCHANGED <<file, timer, stale, up, removed, replayed, misread, nulled, unflushed>>

Sends(e, v, ops) ==
    up' = IF HungUp(e) THEN up ELSE [up EXCEPT ![e] = Append(@, OpFrame(v, ops))]

\* The tab without its connection.
Closed(s) == [s EXCEPT !.conn = "off", !.suspect = FALSE,
                       !.pending = @ \/ s.outstanding # << >> \/ s.buffer # << >>]

\* The tab closes it, and the server gets what was sent before.
Closes(e, s) ==
    /\ session' = [session EXCEPT ![e] = Closed(s)]
    /\ stale' = [stale EXCEPT ![e] = IF HungUp(e) THEN @
                                     ELSE [on |-> TRUE, frames |-> @.frames \o up[e]]]
    /\ up' = [up EXCEPT ![e] = << >>] /\ down' = [down EXCEPT ![e] = << >>]

Goes(e, s) ==
    /\ session' = [session EXCEPT ![e] = s]
    /\ down' = [down EXCEPT ![e] = Tail(@)]
    /\ UNCHANGED stale

\* handleJoined.  A tab that had something pending when it lost its connection
\* sends the difference between its text and the server's, which undoes what the
\* others did meanwhile, and repeats what it was told twice; else it takes the
\* server's text.
GetsJoined(e, frame) ==
    LET s == session[e]
        diff == DiffOps(frame.text, s.text)
        keeps == s.joined /\ s.pending /\ diff # << >>
    IN /\ Goes(e, [NewSession EXCEPT !.conn = "on", !.joined = TRUE, !.version = frame.v,
                      !.text = IF keeps THEN s.text ELSE frame.text, !.confirmed = frame.text,
                      !.outstanding = IF keeps THEN diff ELSE << >>])
       /\ IF keeps THEN Sends(e, frame.v, diff) ELSE UNCHANGED up
       /\ replayed' = IF keeps THEN replayed \union Differing(frame.text, s.text) ELSE replayed
       /\ nulled' = [nulled EXCEPT ![e] = "no"]

\* handleRemoteOp: past what the tab has pending, if an operation awaits its
\* acknowledgement; if that has come to nothing, what was typed after it is passed
\* by.  An operation that does not fit, or clashes, closes the connection.
GetsOp(e, frame) ==
    LET s == session[e]
        none == [left |-> s.buffer, right |-> frame.ops]
        x == TransformX("client", s.outstanding, frame.ops)
        y == IF s.outstanding = << >> THEN none ELSE TransformX("client", s.buffer, x.right)
        confirmed == ApplyOp(s.confirmed, frame.ops)
        text == ApplyOp(s.text, y.right)
        confirms == [s EXCEPT !.confirmed = confirmed]
        moved == [confirms EXCEPT !.outstanding = x.left]
        past == [moved EXCEPT !.buffer = y.left]
    IN /\ IF confirmed = NoText THEN Closes(e, s)
          ELSE IF Clashes(x.left) THEN Closes(e, confirms)
          ELSE IF Clashes(y.left) THEN Closes(e, moved)
          ELSE IF text = NoText THEN Closes(e, past)
          ELSE Goes(e, [past EXCEPT !.version = frame.v + 1, !.text = text]) /\ UNCHANGED up
       /\ nulled' = [nulled EXCEPT ![e] =
                       IF s.outstanding # << >> THEN IF x.left = << >> THEN "void" ELSE @
                       ELSE IF @ = "void" /\ s.buffer # << >> THEN "misled" ELSE @]
       /\ UNCHANGED replayed

\* handleAck, which takes the acknowledgement for the operation that is pending
\* now, and sends what was typed since.  A hash that does not agree is found out
\* later.
GetsAck(e, frame) ==
    LET s == session[e]
        confirmed == ApplyOp(s.confirmed, s.outstanding)
        acked == [s EXCEPT !.version = frame.v + 1, !.confirmed = confirmed,
                           !.outstanding = s.buffer, !.buffer = << >>,
                           !.suspect = @ \/ confirmed # frame.text]
    IN /\ IF confirmed = NoText THEN Closes(e, s)
          ELSE /\ Goes(e, acked)
               /\ IF s.buffer = << >> THEN UNCHANGED up ELSE Sends(e, frame.v + 1, s.buffer)
       /\ nulled' = [nulled EXCEPT ![e] = IF @ = "void" THEN "no" ELSE @]
       /\ UNCHANGED replayed

\* The operation was refused: the tab comes back, unless it sees the code the server
\* closed with before it has closed the connection itself.
GetsError(e) ==
    /\ \E conn \in {"off", "ended"} : Goes(e, [Closed(session[e]) EXCEPT !.conn = conn])
    /\ UNCHANGED <<up, replayed, nulled>>

Gets(e) ==
    /\ down[e] # << >>
    /\ LET frame == Head(down[e])
       IN CASE frame.type = "joined" -> GetsJoined(e, frame)
            [] frame.type = "op" -> GetsOp(e, frame)
            [] frame.type = "ack" -> GetsAck(e, frame)
            [] frame.type = "error" -> GetsError(e)
    /\ UNCHANGED <<doc, file, timer, saver, strays, listed, tally, applied, removed, misread,
                   author, stream, unflushed>>

\* verifyHash: the tab has hashed its copy and closes the connection.  It need not
\* come to that: a page that is not served over HTTPS has nothing to hash with.
Verify(e) ==
    /\ session[e].suspect /\ Closes(e, session[e])
    /\ UNCHANGED <<doc, file, timer, saver, strays, listed, tally, ghosts>>

\* submitLocalOp: an edit, which is sent unless another one is pending.  It is made
\* without a connection as well.
Edit(e) ==
    LET s == session[e] IN
    /\ s.joined /\ Allowed("edits", MaxEdits)
    /\ tally' = [tally EXCEPT !.edits = @ + 1]
    /\ \E op \in Changes(s.text) :
          /\ session' = [session EXCEPT ![e] =
                [s EXCEPT !.text = ApplyOp(@, op),
                          !.outstanding = IF @ = << >> THEN op ELSE @,
                          !.buffer = IF s.outstanding = << >> THEN @
                                     ELSE AppendAll("client", @, op)]]
          /\ IF s.outstanding = << >> /\ s.conn = "on"
             THEN Sends(e, s.version, op) ELSE UNCHANGED up
          /\ removed' = removed \union Deleted(op)
    /\ nulled' = [nulled EXCEPT ![e] = IF @ = "void" THEN "misled" ELSE @]
    /\ UNCHANGED <<serverVars, down, applied, replayed, misread, author, stream, unflushed>>

\* The connection is lost.  What the tab sent may have arrived or not, and the
\* server notices some time later.
Lose(e) ==
    /\ session[e].conn \in {"joining", "on"} /\ ~HungUp(e) /\ Allowed("troubles", MaxTroubles)
    /\ tally' = [tally EXCEPT !.troubles = @ + 1]
    /\ session' = [session EXCEPT ![e] = Closed(@)]
    /\ \E n \in 0..Len(up[e]) :
          stale' = [stale EXCEPT ![e] = [on |-> TRUE, frames |-> @.frames \o SubSeq(up[e], 1, n)]]
    /\ up' = [up EXCEPT ![e] = << >>] /\ down' = [down EXCEPT ![e] = << >>]
    /\ UNCHANGED <<doc, file, timer, saver, strays, listed, ghosts>>

\* The end of handle_collab_socket: the entry goes, whoever made it.  The last one
\* to go stops the polling.
Notice(e) ==
    /\ stale[e].on /\ stale[e].frames = << >>
    /\ stale' = [stale EXCEPT ![e] = NoneStale] /\ Leaves(e)
    /\ UNCHANGED <<doc, file, timer, session, up, down, tally, letters, streams, unflushed>>

-----------------------------------------------------------------------------
CollabNext ==
    \/ Flush \/ Replace \/ StrayReplace \/ Record \/ Merge \/ Unload \/ AgentWrites
    \/ \E e \in Editors : Submit(e) \/ SubmitLate(e) \/ SubmitGone(e) \/ SubmitRefused(e)
                          \/ Join(e) \/ Gets(e) \/ Verify(e)
                          \/ Edit(e) \/ Lose(e) \/ Notice(e)

CollabSpec == CollabInit /\ [][CollabNext]_collabVars

-----------------------------------------------------------------------------
(* Properties.                                                                *)

\* An editor at rest has nothing pending and nothing on its way, and was told of all
\* edits, in their order.
AtRest(e) ==
    /\ session[e].conn = "on" /\ session[e].outstanding = << >>
    /\ up[e] = << >> /\ down[e] = << >> /\ stream[e] = Version


\* Editors at rest see the same text, whatever became of their operations
\* (handleRemoteOp, of what is said to be an ot.js-style client), unless the tab has yet
\* to find out that its copy differs.
TabsConverge ==
    \A e \in Editors : AtRest(e) /\ ~session[e].suspect => session[e].text = doc.text

\* An edit that has been applied stays until somebody deletes it, once, whatever is
\* saved, merged and dropped meanwhile, and however late it came.  Set apart are the
\* letters that a returning tab's difference has undone or repeated (OthersKept is
\* about those) and the ones in what a thread left behind has written, once the poll
\* has read it or the document is dropped (AppliedOnce is about those).
EditsKept ==
    \A n \in applied \ (removed \union replayed \union misread) :
       Holds(IF doc.loaded THEN doc.text ELSE file, n)

\* No text of the document is applied a second time (check_and_merge_external, whose
\* lock is to see to that), but by a tab that has lost its acknowledgement.
AppliedOnce == \A n \in Letters(doc.text) \ replayed : Holds(doc.text, n)

\* A tab that comes back replays its own edits and undoes nobody's (handleJoined).
OthersKept ==
    \A n \in applied \ (removed \union misread) :
       n \in Letters(IF doc.loaded THEN doc.text ELSE file)


\* An editor gets the edits in the order in which the server has applied them.
InOrder ==
    \A e \in Editors : session[e].conn = "on" =>
       \A k \in DOMAIN down[e] : down[e][k].v >= session[e].version
=============================================================================
