------------------------------ MODULE Registry ------------------------------
(* Agents come and go (the_lab/agents.py, routes/agents.py, and the wrapper    *)
(* agent_cli.py): the registry of live agents and the history of past ones, in *)
(* memory and each in a file, the worktrees, the wrapper processes that        *)
(* register, resume an agent, run it and unregister it on exit, and the server *)
(* that may die between any two steps and prunes dead agents when it starts.   *)
(*                                                                            *)
(* A file is replaced by the text its writer made before; every route runs in  *)
(* a thread of its own.                                                       *)
EXTENDS Integers, FiniteSetsExt

CONSTANTS
    Wrappers,   \* processes that wrap agents, one pid each
    Manager,    \* an operator at the dashboard
    HereHost, AwayHost, \* the server's machine and another
    HostOf,     \* machine of a wrapper
    MaxLive,    \* MAX_REGISTERED_AGENTS
    MaxIds,     \* bound: agent ids
    MaxVisits,  \* bound: requests
    MaxCrashes  \* bound: restarts of the server

ASSUME RegistryAssumption ==
    /\ Manager \notin Wrappers
    /\ "no pid" \notin Wrappers
    /\ HostOf \in [Wrappers -> {HereHost, AwayHost}]
    /\ {MaxLive, MaxIds, MaxVisits, MaxCrashes} \subseteq Nat

VARIABLES
    live,      \* _registry_cache: per agent, its pid
    liveFile,  \* registry.json
    past,      \* _history_cache
    pastFile,  \* history.json
    checkout,  \* agents that have their worktree
    wrapper,   \* the processes
    visit,     \* per caller, the request the server works on
    serving,   \* the server has started
    usedIds,   \* agent ids given out
    visits,    \* requests so far
    crashes,   \* restarts so far
    granted,   \* agents a wrapper was told it has
    overtaken,   \* agents in the middle of a change when another call wrote the registry
    dismissed  \* agents an unregister call may hit that is not their process's own

registryVars == <<live, liveFile, past, pastFile, checkout, wrapper, visit, serving, usedIds,
                  visits, crashes, granted, overtaken, dismissed>>

AgentIds == 1..MaxIds
Visitors == Wrappers \union {Manager}
NoPid    == "no pid"

OnRecord(reg) == {a \in AgentIds : reg[a] # NoPid}

Request(op, stage, a, pid) ==
    [op |-> op, at |-> stage, id |-> a, keep |-> TRUE, pid |-> pid, text |-> << >>]

NoVisit == Request("none", "none", 0, NoPid)
Away    == [stage |-> "off", id |-> 0]

Registries == [AgentIds -> Wrappers \union {NoPid}]
Stages  == {"none", "count", "create", "look", "worktree", "enter", "pop", "history", "remove", "replace"}
Visits  == [op: {"none", "register", "resume", "unregister"}, at: Stages, id: 0..MaxIds,
            keep: BOOLEAN, pid: Wrappers \union {NoPid}, text: Registries \union {<< >>}]

RegistryTypeOK ==
    /\ {live, liveFile} \subseteq Registries
    /\ {past, pastFile, checkout, granted, overtaken, dismissed} \subseteq SUBSET AgentIds
    /\ wrapper \in [Wrappers -> [stage: {"off", "asking", "running", "over"}, id: 0..MaxIds]]
    /\ visit \in [Visitors -> Visits]
    /\ serving \in BOOLEAN /\ usedIds \in 0..MaxIds
    /\ visits \in 0..MaxVisits /\ crashes \in 0..MaxCrashes

RegistryInit ==
    /\ live = [a \in AgentIds |-> NoPid] /\ liveFile = live
    /\ past = {} /\ pastFile = {} /\ checkout = {}
    /\ wrapper = [w \in Wrappers |-> Away]
    /\ visit = [v \in Visitors |-> NoVisit]
    /\ serving = TRUE /\ usedIds = 0 /\ visits = 0 /\ crashes = 0
    /\ granted = {} /\ overtaken = {} /\ dismissed = {}

-----------------------------------------------------------------------------
FilesSame == UNCHANGED <<liveFile, past, pastFile>>
GhostsSame == UNCHANGED <<granted, overtaken, dismissed>>
HostSame == UNCHANGED <<serving, crashes>>

\* A request that comes in.
Comes(v, new) ==
    /\ serving /\ visit[v] = NoVisit /\ visits < MaxVisits
    /\ visits' = visits + 1
    /\ visit' = [visit EXCEPT ![v] = new]

Visiting(v, stage) == serving /\ visit[v].at = stage
Moves(v, stage) == visit' = [visit EXCEPT ![v].at = stage] /\ UNCHANGED visits
Leaves(v) == visit' = [visit EXCEPT ![v] = NoVisit] /\ UNCHANGED visits

\* _write_registry makes the text of the file first.
Dumps(v, reg) ==
    visit' = [visit EXCEPT ![v].at = "replace", ![v].text = reg] /\ UNCHANGED visits

\* The wrapper gives up: a refusal, a 404 or a 500.
TurnedAway(v) ==
    /\ Leaves(v)
    /\ wrapper' = [wrapper EXCEPT ![v] = Away]

-----------------------------------------------------------------------------
(* Registering and resuming.                                                  *)

Enrol(w) ==
    /\ wrapper[w].stage = "off"
    /\ wrapper' = [wrapper EXCEPT ![w].stage = "asking"]
    /\ Comes(w, Request("register", "count", 0, w))
    /\ UNCHANGED <<live, checkout, usedIds>> /\ FilesSame /\ HostSame /\ GhostsSame

\* The wrapper asks for the live agents first and refuses when a process runs here
\* under that id; elsewhere it cannot tell.
RunsHere(a, w) ==
    /\ live[a] \notin {NoPid, w}
    /\ HostOf[live[a]] = HostOf[w] /\ wrapper[live[a]].stage \in {"asking", "running"}

AsksToResume(w, a) ==
    /\ Comes(w, Request("resume", "count", a, w))
    /\ dismissed' = IF \/ \E v \in Visitors \ {w} : visit[v].id = a
                       \/ \E u \in Wrappers \ {w} : wrapper[u].id = a
                    THEN dismissed \union {a} ELSE dismissed
    /\ UNCHANGED <<live, checkout, usedIds, granted, overtaken>> /\ FilesSame /\ HostSame

Resume(w) ==
    /\ wrapper[w].stage = "off"
    /\ \E a \in granted :
          /\ ~RunsHere(a, w)
          /\ wrapper' = [wrapper EXCEPT ![w] = [stage |-> "asking", id |-> a]]
          /\ AsksToResume(w, a)

\* A server that went away meanwhile is asked again.
AsksAgain(w) ==
    /\ wrapper[w].stage = "asking" /\ visit[w] = NoVisit /\ serving
    /\ \/ wrapper[w].id # 0 /\ AsksToResume(w, wrapper[w].id) /\ UNCHANGED wrapper
       \/ /\ wrapper' = [wrapper EXCEPT ![w] = Away]
          /\ UNCHANGED <<live, checkout, visit, visits, usedIds>> /\ FilesSame /\ HostSame /\ GhostsSame

\* The limit is checked before the agent is entered.
CountLive(w) ==
    LET c == visit[w] IN
    /\ Visiting(w, "count")
    /\ IF Cardinality(OnRecord(live)) >= MaxLive /\ c.id \notin OnRecord(live)
       THEN TurnedAway(w)
       ELSE Moves(w, IF c.op = "register" THEN "create" ELSE "look") /\ UNCHANGED wrapper
    /\ UNCHANGED <<live, checkout, usedIds>> /\ FilesSame /\ HostSame /\ GhostsSame

\* A fresh id, its branch and its worktree, or an error from git.
CreateWorktree(w) ==
    /\ Visiting(w, "create") /\ usedIds < MaxIds
    /\ usedIds' = usedIds + 1
    /\ \/ /\ checkout' = checkout \union {usedIds'}
          /\ visit' = [visit EXCEPT ![w].id = usedIds', ![w].at = "enter"]
          /\ UNCHANGED <<wrapper, visits>>
       \/ TurnedAway(w) /\ UNCHANGED checkout
    /\ UNCHANGED live /\ FilesSame /\ HostSame /\ GhostsSame

\* reactivate_agent: a live entry or a past one.
LookUp(w) ==
    /\ Visiting(w, "look")
    /\ IF visit[w].id \in OnRecord(live) \union past
       THEN Moves(w, "worktree") /\ UNCHANGED wrapper
       ELSE TurnedAway(w)
    /\ UNCHANGED <<live, checkout, usedIds>> /\ FilesSame /\ HostSame /\ GhostsSame

\* A worktree that is gone is made again.
RecreateWorktree(w) ==
    LET a == visit[w].id IN
    /\ Visiting(w, "worktree")
    /\ \/ checkout' = checkout \union {a} /\ Moves(w, "enter") /\ UNCHANGED wrapper
       \/ a \notin checkout /\ TurnedAway(w) /\ UNCHANGED checkout
    /\ UNCHANGED <<live, usedIds>> /\ FilesSame /\ HostSame /\ GhostsSame

Enter(w) ==
    LET c == visit[w] IN
    /\ Visiting(w, "enter")
    /\ live' = [live EXCEPT ![c.id] = c.pid]
    /\ Dumps(w, live')
    /\ UNCHANGED <<checkout, wrapper, usedIds>> /\ FilesSame /\ HostSame /\ GhostsSame

\* The file is written last; then the wrapper is told.
Replace(v) ==
    LET c == visit[v] IN
    /\ Visiting(v, "replace")
    /\ liveFile' = c.text
    /\ overtaken' = overtaken \union {a \in OnRecord(live) : c.text[a] # live[a]}
                          \union {visit[u].id : u \in {u \in Visitors : visit[u].at = "history"}}
    /\ Leaves(v)
    /\ IF c.op # "unregister"
       THEN /\ wrapper' = [wrapper EXCEPT ![v] = IF @.stage = "asking"
                                                 THEN [stage |-> "running", id |-> c.id] ELSE @]
            /\ granted' = granted \union {c.id}
       ELSE UNCHANGED <<wrapper, granted>>
    /\ UNCHANGED <<live, past, pastFile, checkout, usedIds, dismissed>> /\ HostSame

-----------------------------------------------------------------------------
(* Unregistering.                                                             *)

\* The wrapper's process ends; its call, if there is one, may come late.
Exit(w) ==
    /\ wrapper[w].stage = "running"
    /\ wrapper' = [wrapper EXCEPT ![w].stage = "over"]
    /\ UNCHANGED <<live, checkout, visit, visits, usedIds>> /\ FilesSame /\ HostSame /\ GhostsSame

Dismisses(a, v) ==
    dismissed' = IF v = Manager \/ \E w \in Wrappers \ {v} : wrapper[w].id = a
                 THEN dismissed \union {a} ELSE dismissed

SaysGoodbye(w) ==
    /\ wrapper[w].stage = "over"
    /\ \/ /\ Comes(w, Request("unregister", "pop", wrapper[w].id, NoPid))
          /\ Dismisses(wrapper[w].id, w)
       \/ UNCHANGED <<visit, visits, dismissed>>
    /\ wrapper' = [wrapper EXCEPT ![w] = Away]
    /\ UNCHANGED <<live, checkout, usedIds, granted, overtaken>> /\ FilesSame /\ HostSame

\* An operator removes an agent, with its worktree or without.
Dismiss ==
    /\ \E a \in granted, keep \in BOOLEAN :
          /\ Comes(Manager, [Request("unregister", "pop", a, NoPid) EXCEPT !.keep = keep])
          /\ Dismisses(a, Manager)
    /\ UNCHANGED <<live, checkout, wrapper, usedIds, granted, overtaken>> /\ FilesSame /\ HostSame

PopEntry(v) ==
    LET a == visit[v].id IN
    /\ Visiting(v, "pop")
    /\ IF a \in OnRecord(live)
       THEN live' = [live EXCEPT ![a] = NoPid] /\ Moves(v, "history")
       ELSE Leaves(v) /\ UNCHANGED live
    /\ UNCHANGED <<checkout, wrapper, usedIds>> /\ FilesSame /\ HostSame /\ GhostsSame

\* Faulty: the history follows the registry.
RecordCompletedLate(v) ==
    /\ Visiting(v, "history")
    /\ past' = past \union {visit[v].id} /\ UNCHANGED pastFile
    /\ IF visit[v].keep THEN Dumps(v, live) ELSE Moves(v, "remove")
    /\ UNCHANGED <<live, liveFile, checkout, wrapper, usedIds>> /\ HostSame /\ GhostsSame

\* record_completed_agent
RecordCompleted(v) ==
    /\ Visiting(v, "history")
    /\ past' = past \union {visit[v].id} /\ pastFile' = past'
    /\ IF visit[v].keep THEN Dumps(v, live) ELSE Moves(v, "remove")
    /\ UNCHANGED <<live, liveFile, checkout, wrapper, usedIds>> /\ HostSame /\ GhostsSame

\* Its data is archived, the worktree removed, the branch kept.
RemoveWorktree(v) ==
    /\ Visiting(v, "remove")
    /\ checkout' = checkout \ {visit[v].id}
    /\ Dumps(v, live)
    /\ UNCHANGED <<live, wrapper, usedIds>> /\ FilesSame /\ HostSame /\ GhostsSame

-----------------------------------------------------------------------------
(* The server dies, and starts: what it reads, and prune_dead_agents.          *)

Crash ==
    /\ crashes < MaxCrashes /\ crashes' = crashes + 1
    /\ serving' = FALSE
    /\ live' = liveFile /\ past' = pastFile
    /\ visit' = [v \in Visitors |-> NoVisit]
    /\ UNCHANGED <<liveFile, pastFile, checkout, wrapper, visits, usedIds>> /\ GhostsSame

\* Faulty: a pid of another machine is looked for here.
DeadAnywhere ==
    {a \in OnRecord(live) : HostOf[live[a]] # HereHost \/ wrapper[live[a]].stage = "off"}

\* Only a pid of this machine says anything.
Dead ==
    {a \in OnRecord(live) : HostOf[live[a]] = HereHost /\ wrapper[live[a]].stage = "off"}

Retire ==
    /\ ~serving
    /\ \E a \in Dead :
          /\ past' = past \union {a} /\ pastFile' = past'
          /\ live' = [live EXCEPT ![a] = NoPid]
    /\ UNCHANGED <<liveFile, checkout, wrapper, visit, visits, usedIds>> /\ HostSame /\ GhostsSame

Serve ==
    /\ ~serving /\ Dead = {}
    /\ serving' = TRUE /\ liveFile' = live
    /\ UNCHANGED <<live, past, pastFile, checkout, wrapper, visit, visits, usedIds, crashes>> /\ GhostsSame

-----------------------------------------------------------------------------
RegistryNext ==
    \/ Dismiss \/ Crash \/ Retire \/ Serve
    \/ \E w \in Wrappers :
          \/ Enrol(w) \/ Resume(w) \/ AsksAgain(w) \/ CountLive(w) \/ CreateWorktree(w)
          \/ LookUp(w) \/ RecreateWorktree(w) \/ Enter(w) \/ Exit(w) \/ SaysGoodbye(w)
    \/ \E v \in Visitors :
          Replace(v) \/ PopEntry(v) \/ RecordCompleted(v) \/ RemoveWorktree(v)

RegistrySpec == RegistryInit /\ [][RegistryNext]_registryVars

-----------------------------------------------------------------------------
(* Properties.                                                                *)

\* An agent somebody was told about can always be resumed: it is in one of the two
\* files a restart reads, wherever the server dies; but for one that another call's
\* write of the registry overlapped: the dict is shared and its text may be old.
AgentsKept ==
    \A a \in granted \ overtaken : a \in OnRecord(liveFile) \union pastFile

\* A running agent is registered under its own process and has its worktree, over
\* restarts and prunes; but for one that an operator, or another process of the
\* same agent, has unregistered or may yet.
RunningKept ==
    \A w \in Wrappers :
       LET a == wrapper[w].id IN
       wrapper[w].stage = "running" /\ a \notin overtaken \union dismissed =>
          /\ a \in checkout
          /\ live[a] = w

-----------------------------------------------------------------------------
(* Why.                                                                       *)

\* A server that has not started works on nothing.
NoneBefore == ~serving => \A v \in Visitors : visit[v] = NoVisit

\* What a request may be at, by its kind.
StagesFit ==
    \A v \in Visitors :
       /\ visit[v].op = "none" => visit[v] = NoVisit
       /\ visit[v].op = "register" => visit[v].at \in {"count", "create", "enter", "replace"}
       /\ visit[v].op = "resume" => visit[v].at \in {"count", "look", "worktree", "enter", "replace"}
       /\ visit[v].op = "unregister" => visit[v].at \in {"pop", "history", "remove", "replace"}
       /\ visit[v].at = "replace" => visit[v].text \in Registries

\* Where the process of a request is meanwhile.
ProcessesFit ==
    /\ visit[Manager].op \in {"none", "unregister"}
    /\ \A w \in Wrappers :
          /\ visit[w].op = "register" => wrapper[w].stage = "asking" /\ wrapper[w].id = 0
          /\ visit[w].op = "resume" => wrapper[w].stage = "asking" /\ wrapper[w].id = visit[w].id
          /\ visit[w].op = "unregister" => wrapper[w].stage = "off"
          /\ visit[w].op \in {"register", "resume"} => visit[w].pid = w
          /\ wrapper[w].stage = "off" => wrapper[w].id = 0
          /\ wrapper[w].stage \in {"running", "over"} => wrapper[w].id # 0

\* Ids that are in use have been given out, and told to somebody once a process has
\* them or a request other than a registration names them.
IdsKnown ==
    /\ granted \subseteq 1..usedIds
    /\ \A w \in Wrappers : wrapper[w].id # 0 => wrapper[w].id \in granted
    /\ \A v \in Visitors :
          /\ visit[v].id <= usedIds
          /\ visit[v].op \in {"resume", "unregister"} => visit[v].id \in granted
          /\ visit[v].op = "register" =>
                (visit[v].id = 0 <=> visit[v].at \in {"count", "create"})

\* An id that is being registered is nobody else's.
FreshAlone ==
    \A v \in Visitors : visit[v].op = "register" /\ visit[v].id # 0 =>
       /\ visit[v].id \notin granted
       /\ \A u \in Visitors \ {v} : visit[u].id # visit[v].id

\* One process has an agent, and no request but its own names it, unless it may be
\* dismissed.
OwnersAlone ==
    \A w \in Wrappers : wrapper[w].id \notin {0} \union dismissed =>
       /\ \A u \in Wrappers \ {w} : wrapper[u].id # wrapper[w].id
       /\ \A v \in Visitors \ {w} : visit[v].id # wrapper[w].id

\* The memory and the file of the history agree: both are written under one lock.
HistoryOnFile == past = pastFile

\* The memory has an agent, or is about to move it to the history.
KeptInMemory(a) ==
    \/ a \in OnRecord(live) \union pastFile
    \/ \E u \in Visitors : visit[u].at = "history" /\ visit[u].id = a

\* Every agent that somebody was told about, or is about to be, is kept there.
OnItsWay(v) == visit[v].at = "replace" /\ visit[v].op # "unregister"
MemoryKeeps ==
    /\ \A a \in granted \ overtaken : KeptInMemory(a)
    /\ \A v \in Visitors : OnItsWay(v) =>
          KeptInMemory(visit[v].id) /\ visit[v].text[visit[v].id] = v

\* An agent that is being entered has its worktree, and then its entry.
EnteredKept ==
    \A w \in Wrappers : visit[w].op \in {"register", "resume"} /\ visit[w].id \notin dismissed =>
       /\ visit[w].at \in {"enter", "replace"} => visit[w].id \in checkout
       /\ visit[w].at = "replace" => live[visit[w].id] = w

\* A running agent's entry is on file, too.
RunningOnFile ==
    \A w \in Wrappers :
       wrapper[w].stage = "running" /\ wrapper[w].id \notin overtaken \union dismissed =>
          liveFile[wrapper[w].id] = w

RegistryIInv ==
    /\ RegistryTypeOK
    /\ NoneBefore
    /\ StagesFit
    /\ ProcessesFit
    /\ IdsKnown
    /\ FreshAlone
    /\ OwnersAlone
    /\ HistoryOnFile
    /\ AgentsKept
    /\ MemoryKeeps
    /\ EnteredKept
    /\ RunningKept
    /\ RunningOnFile
=============================================================================
