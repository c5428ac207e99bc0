------------------------------ MODULE Notices ------------------------------
(* Notices that ride on the answers to an agent's calls (the_lab/app.py):       *)
(* failed experiments, suggested ideas, agents that came or left, each under a  *)
(* stable key and shown to an agent once; what it has seen is in memory and in  *)
(* notif_seen.json.  One agent, whose calls may overlap: another has its own    *)
(* entry under the same lock.                                                  *)
EXTENDS Integers, FiniteSetsExt

CONSTANTS
    Keys,        \* keys of notices
    AnswerSlots, \* calls the agent has under way at a time
    BatchMax,    \* _NOTIF_EVENT_LIMIT
    MaxAnswers,  \* bound: answers
    MaxReloads   \* bound: restarts of the server

ASSUME NoticesAssumption ==
    /\ {BatchMax, MaxAnswers, MaxReloads} \subseteq Nat
    /\ "unknown" \notin Keys

VARIABLES
    current,   \* what there is to tell
    stale,     \* agents that came or left too long ago to tell
    seen,      \* _notif_seen_cache: the agent's keys, or Unknown
    seenFile,  \* notif_seen.json
    answer,    \* per call, what its answer is made of
    shown,     \* per key, the answers that carried it
    baseline,  \* what there was when the agent was first told anything
    lost,      \* notices of answers that never arrived
    unsaved,   \* notices whose entry could not be written and is gone
    counted    \* answers and restarts so far

noticeVars == <<current, stale, seen, seenFile, answer, shown, baseline, lost, unsaved, counted>>

Unknown == {"unknown"}
NoAnswer == [at |-> "none", keyed |-> {}, all |-> {}, out |-> {}]

AnswerRecords == [at: {"none", "asked", "collected", "made"}, keyed: SUBSET Keys,
            all: SUBSET Keys, out: SUBSET Keys]

NoticesTypeOK ==
    /\ {current, stale, baseline, lost, unsaved} \subseteq SUBSET Keys
    /\ {seen, seenFile} \subseteq (SUBSET Keys) \union {Unknown}
    /\ answer \in [AnswerSlots -> AnswerRecords]
    /\ shown \in [Keys -> Nat]

NoticesInit ==
    /\ current = {} /\ stale = {}
    /\ seen = Unknown /\ seenFile = Unknown
    /\ answer = [c \in AnswerSlots |-> NoAnswer]
    /\ shown = [k \in Keys |-> 0]
    /\ baseline = {} /\ lost = {} /\ unsaved = {}
    /\ counted = [answers |-> 0, restarts |-> 0]

-----------------------------------------------------------------------------
LabSame == UNCHANGED <<current, stale>>
SeenSame == UNCHANGED <<seen, seenFile, baseline, unsaved>>

\* Something fails, is suggested, comes or goes; or is over.
Occurs ==
    /\ \E k \in Keys :
          \/ current' = current \union {k} /\ stale' = stale \ {k}
          \/ current' = current \ {k} /\ UNCHANGED stale
          \/ k \in current /\ current' = current \ {k} /\ stale' = stale \union {k}
    /\ <<current', stale'>> # <<current, stale>>
    /\ SeenSame /\ UNCHANGED <<answer, shown, lost, counted>>

Sends(c) ==
    /\ answer[c].at = "none" /\ counted.answers < MaxAnswers
    /\ counted' = [counted EXCEPT !.answers = @ + 1]
    /\ answer' = [answer EXCEPT ![c].at = "asked"]
    /\ LabSame /\ SeenSame /\ UNCHANGED <<shown, lost>>

\* An error, a list, a file or a large answer goes out as it is.
PassesThrough(c) ==
    /\ answer[c].at = "asked"
    /\ answer' = [answer EXCEPT ![c] = NoAnswer]
    /\ LabSame /\ SeenSame /\ UNCHANGED <<shown, lost, counted>>

\* build_notifications, in a thread: what there is, without a lock.
Collects(c) ==
    /\ answer[c].at = "asked"
    /\ answer' = [answer EXCEPT ![c] = [at |-> "collected", keyed |-> current,
                                         all |-> current \union stale, out |-> {}]]
    /\ LabSame /\ SeenSame /\ UNCHANGED <<shown, lost, counted>>

\* The file follows the memory, or cannot be written.
Saves(s) == seen' = s /\ seenFile' \in {s, seenFile}

Makes(c, out) == answer' = [answer EXCEPT ![c].at = "made", ![c].out = out]

\* The first answer an agent gets tells nothing: what there is counts as seen.
FirstTime(c) ==
    /\ answer[c].at = "collected" /\ seen = Unknown
    /\ Saves(answer[c].all)
    /\ baseline' = baseline \union answer[c].all
    /\ Makes(c, {})
    /\ LabSame /\ UNCHANGED <<shown, lost, unsaved, counted>>

\* Faulty: what is withheld counts as seen too.
ShowsAll(c) ==
    LET unseen == answer[c].keyed \ seen IN
    /\ answer[c].at = "collected" /\ seen # Unknown
    /\ \E out \in SUBSET unseen :
          /\ Cardinality(out) <= BatchMax
          /\ IF out = {} THEN UNCHANGED <<seen, seenFile>> ELSE Saves(seen \union unseen)
          /\ Makes(c, out)
    /\ LabSame /\ UNCHANGED <<shown, baseline, lost, unsaved, counted>>

\* _filter_and_mark_seen: a batch bounded in number and size; the others wait.
Shows(c) ==
    LET unseen == answer[c].keyed \ seen IN
    /\ answer[c].at = "collected" /\ seen # Unknown
    /\ \E out \in SUBSET unseen :
          /\ Cardinality(out) <= BatchMax
          /\ IF out = {} THEN UNCHANGED <<seen, seenFile>> ELSE Saves(seen \union out)
          /\ Makes(c, out)
    /\ LabSame /\ UNCHANGED <<shown, baseline, lost, unsaved, counted>>

Arrived(c) ==
    /\ answer[c].at = "made"
    /\ \/ shown' = [k \in Keys |-> IF k \in answer[c].out THEN shown[k] + 1 ELSE shown[k]]
          /\ UNCHANGED lost
       \/ lost' = lost \union answer[c].out /\ UNCHANGED shown
    /\ answer' = [answer EXCEPT ![c] = NoAnswer]
    /\ LabSame /\ SeenSame /\ UNCHANGED counted

\* The server dies: answers under way with it.
Reloads ==
    /\ counted.restarts < MaxReloads
    /\ counted' = [counted EXCEPT !.restarts = @ + 1]
    /\ seen' = seenFile
    /\ unsaved' = unsaved \union (IF seen = Unknown THEN {} ELSE seen \ seenFile)
    /\ lost' = lost \union UNION {answer[c].out : c \in AnswerSlots}
    /\ answer' = [c \in AnswerSlots |-> NoAnswer]
    /\ LabSame /\ UNCHANGED <<seenFile, shown, baseline>>

NoticesNext ==
    \/ Occurs \/ Reloads
    \/ \E c \in AnswerSlots :
          Sends(c) \/ PassesThrough(c) \/ Collects(c) \/ FirstTime(c) \/ Shows(c) \/ Arrived(c)

NoticesSpec == NoticesInit /\ [][NoticesNext]_noticeVars

-----------------------------------------------------------------------------
(* Properties.                                                                *)

\* Each notice reaches the agent once: never twice, unless its entry could not be
\* written before a restart, and none is taken for seen that was neither there when
\* the agent came nor put into an answer.
ShownOnce ==
    /\ \A k \in Keys \ unsaved : shown[k] <= 1
    /\ seen # Unknown =>
          \A k \in seen :
             \/ k \in baseline \union lost \/ shown[k] > 0
             \/ \E c \in AnswerSlots : k \in answer[c].out

-----------------------------------------------------------------------------
(* Why.                                                                       *)

Recorded == IF seen = Unknown THEN {} ELSE seen

\* A restart finds nothing that memory does not have.
FileBehind == seenFile # Unknown => seen # Unknown /\ seenFile \subseteq seen

\* What was shown, or is on its way, is recorded.
ShownRecorded == \A k \in Keys \ unsaved : shown[k] > 0 => k \in Recorded
OutRecorded   == \A c \in AnswerSlots : answer[c].out \subseteq Recorded

\* Only an answer that has been made carries any.
OutMade == \A c \in AnswerSlots : answer[c].out # {} => answer[c].at = "made"

\* What is on its way has not been shown, and is in one answer.
OutOnce ==
    \A c \in AnswerSlots :
       /\ \A k \in answer[c].out \ unsaved : shown[k] = 0
       /\ \A d \in AnswerSlots \ {c} : answer[c].out \cap answer[d].out = {}

NoticesIInv ==
    /\ NoticesTypeOK
    /\ FileBehind
    /\ ShownRecorded
    /\ OutRecorded
    /\ OutMade
    /\ OutOnce
    /\ ShownOnce
=============================================================================
