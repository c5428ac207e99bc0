----------------------------- MODULE Workspaces -----------------------------
(* Ideas and their branches (the_lab/routes/ideas.py, the_lab/git_ops.py and   *)
(* the ideas in the_lab/store.py): every agent works in a worktree of its own, *)
(* on branches of one repository with one stash.  The routes run on threads;   *)
(* between two git commands of one call anything may happen in the others.     *)
(*                                                                            *)
(* The work of the agents is a set of edits.  What a branch or a worktree      *)
(* holds is the set of the edits that are in its files; a merge or a popped    *)
(* stash may conflict, whatever the edits.  An agent makes one call at a time  *)
(* and leaves its files alone meanwhile.  Names of branches are the ids of the *)
(* ideas, Trunk for the default branch, and the agents for those they start on.*)
EXTENDS Integers, FiniteSets, SequencesExt

CONSTANTS
    Agents,
    Trunk,      \* the default branch
    MaxIdeas,   \* bound: ideas, one of them there from the start
    MaxWork,    \* bound: edits
    MaxCalls    \* bound: calls

ASSUME WorkspacesAssumption ==
    /\ MaxIdeas \in Nat \ {0} /\ {MaxWork, MaxCalls} \subseteq Nat
    /\ IsFiniteSet(Agents) /\ Trunk \notin Agents
    /\ (Agents \union {Trunk}) \intersect 1..MaxIdeas = {}

VARIABLES
    tip,       \* per branch, its edits; NoBranch for none
    kept,      \* edits reachable from refs/the-lab/rebased
    head,      \* per agent, the branch checked out in its worktree
    tree,      \* per agent, the edits in its files
    stash,     \* the stash list, oldest first
    nextIdea,  \* _next_idea_id
    ideas,     \* _ideas
    call,      \* per agent, the call it waits for
    works,     \* edits so far
    calls,     \* calls so far
    author,    \* per edit, who made it
    landed,    \* per edit, a branch it should have been committed on, 0 for none
    swept,     \* edits others had put on a branch that a failed merge deleted
    undone     \* ideas others were at when it did

workVars == <<tip, kept, head, tree, stash, nextIdea, ideas, call, works, calls, author, landed,
              swept, undone>>

IdeaIds  == 1..MaxIdeas
Branches == IdeaIds \union Agents \union {Trunk}
Work     == 1..MaxWork
NoBranch == {0}  \* not a set of edits

Exists(b)  == tip[b] # NoBranch
Held(b, a) == \E x \in Agents \ {a} : head[x] = b
Dirty(a)   == tree[a] # tip[head[a]]

NoIdea == [status |-> "none", parents |-> {}, branch |-> FALSE]

NoCall == [op |-> "none", at |-> "idle", id |-> 0, parents |-> {}, from |-> Trunk,
           had |-> FALSE, seen |-> "none", old |-> {}, new |-> {}]

IdeaStates == {"none", "suggested", "active", "concluded", "abandoned"}

IdeaRecord == [status : IdeaStates, parents : SUBSET IdeaIds, branch : BOOLEAN]

CallStages == {"idle", "branch", "save", "stash", "switch", "first parent", "new branch", "merge",
           "back", "drop", "pop", "pop only", "commit", "commit first", "switch first",
           "stash rest", "switch again", "status", "rebase", "move", "parents"}

CallRecord == [op : {"none", "create", "adopt", "checkout", "status", "reparent"}, at : CallStages,
         id : 0..MaxIdeas, parents : SUBSET IdeaIds, from : Branches, had : BOOLEAN,
         seen : IdeaStates, old : SUBSET Work, new : SUBSET Work]

WorkTypeOK ==
    /\ tip \in [Branches -> (SUBSET Work) \union {NoBranch}] /\ kept \subseteq Work
    /\ head \in [Agents -> Branches] /\ tree \in [Agents -> SUBSET Work]
    /\ stash \in Seq(SUBSET Work)
    /\ nextIdea \in 1..(MaxIdeas + 1) /\ ideas \in [IdeaIds -> IdeaRecord]
    /\ call \in [Agents -> CallRecord]
    /\ works \in 0..MaxWork /\ calls \in 0..MaxCalls
    /\ swept \subseteq Work /\ undone \subseteq IdeaIds

\* One idea under way, perhaps others suggested that merge all before them, and the
\* agents on the branches they start on.
WorkInit ==
    /\ tip = [b \in Branches |-> IF b \in IdeaIds \ {1} THEN NoBranch ELSE {}]
    /\ kept = {} /\ stash = << >>
    /\ head = [a \in Agents |-> a] /\ tree = [a \in Agents |-> {}]
    /\ \E known \in {1, MaxIdeas} :
          /\ nextIdea = known + 1
          /\ ideas = [i \in IdeaIds |->
                        IF i = 1 THEN [status |-> "active", parents |-> {}, branch |-> TRUE]
                        ELSE IF i <= known
                        THEN [status |-> "suggested", parents |-> 1..(i-1), branch |-> FALSE]
                        ELSE NoIdea]
    /\ call = [a \in Agents |-> NoCall]
    /\ works = 0 /\ calls = 0
    /\ author = [w \in Work |-> Trunk] /\ landed = [w \in Work |-> 0]
    /\ swept = {} /\ undone = {}

-----------------------------------------------------------------------------
(* Git.                                                                       *)

GitSame   == UNCHANGED <<tip, kept, head, tree, stash>>
StoreSame == UNCHANGED <<nextIdea, ideas>>
SweepsNone == UNCHANGED <<swept, undone>>
Counted   == UNCHANGED <<works, calls, author>> /\ SweepsNone

Goes(a, stage) == call' = [call EXCEPT ![a].at = stage]
Ends(a)        == call' = [call EXCEPT ![a] = NoCall]

\* git stash push, if there is anything to stash.
Push(a) ==
    /\ stash' = IF Dirty(a) THEN Append(stash, tree[a] \ tip[head[a]]) ELSE stash
    /\ tree' = [tree EXCEPT ![a] = tip[head[a]]]

\* git checkout b.
Switch(a, b) ==
    /\ head' = [head EXCEPT ![a] = b]
    /\ tree' = [tree EXCEPT ![a] = tip[b] \union (tree[a] \ tip[head[a]])]

\* Faulty: git checkout --force b.
SwitchForced(a, b) ==
    /\ head' = [head EXCEPT ![a] = b]
    /\ tree' = [tree EXCEPT ![a] = tip[b]]

\* Git refuses a branch that is not there or is checked out elsewhere, and when
\* uncommitted changes are in the way.
Refuses(a, b) == ~Exists(b) \/ Held(b, a)

\* git stash pop: the last entry, whoever pushed it.
Pop(a) ==
    /\ tree' = [tree EXCEPT ![a] = @ \union Last(stash)]
    /\ stash' = Front(stash)

\* auto_commit
Commit(a) == tip' = [tip EXCEPT ![head[a]] = tree[a]]

-----------------------------------------------------------------------------
(* What agents do by themselves.                                               *)

Works(a) ==
    /\ call[a] = NoCall /\ works < MaxWork
    /\ works' = works + 1
    /\ tree' = [tree EXCEPT ![a] = @ \union {works'}]
    /\ author' = [author EXCEPT ![works'] = a]
    /\ UNCHANGED <<tip, kept, head, stash, nextIdea, ideas, call, calls, landed>> /\ SweepsNone

Commits(a) ==
    /\ call[a] = NoCall /\ Dirty(a)
    /\ Commit(a)
    /\ UNCHANGED <<kept, head, tree, stash, nextIdea, ideas, call, landed>> /\ Counted

-----------------------------------------------------------------------------
(* POST /ideas/new.  Two stages each: the branch, then the worktree.           *)

MayCall(a) == call[a] = NoCall /\ calls < MaxCalls

Calls(a, new) ==
    /\ calls' = calls + 1 /\ call' = [call EXCEPT ![a] = new]
    /\ GitSame /\ UNCHANGED <<ideas, works, author, landed>> /\ SweepsNone

\* What the agent has not committed is to land on the branch of the idea.
Carrying(a, b) ==
    landed' = [w \in Work |-> IF w \in tree[a] \ tip[head[a]] /\ author[w] = a THEN b ELSE landed[w]]

\* Faulty: the id is read here and taken when the idea is saved.
CreateIdeaUntaken(a) ==
    /\ MayCall(a)
    /\ nextIdea <= MaxIdeas
    /\ \E parents \in SUBSET {i \in IdeaIds : ideas[i].status # "none"} :
          /\ Cardinality(parents) <= 2
          /\ Calls(a, [NoCall EXCEPT !.op = "create", !.id = nextIdea, !.parents = parents,
                          !.from = head[a],
                          !.at = IF Cardinality(parents) < 2 THEN "branch" ELSE "stash"])
    /\ UNCHANGED nextIdea

\* The id is taken; the record is not in the store yet.
CreateIdea(a) ==
    /\ MayCall(a)
    /\ nextIdea <= MaxIdeas
    /\ \E parents \in SUBSET {i \in IdeaIds : ideas[i].status # "none"} :
          /\ Cardinality(parents) <= 2
          /\ Calls(a, [NoCall EXCEPT !.op = "create", !.id = nextIdea, !.parents = parents,
                          !.from = head[a],
                          !.at = IF Cardinality(parents) < 2 THEN "branch" ELSE "stash"])
    /\ nextIdea' = nextIdea + 1

\* release_unused_idea_id: an id nobody has saved and nobody has followed.
Release(a) ==
    nextIdea' = IF /\ call[a].op = "create" /\ nextIdea = call[a].id + 1
                   /\ ideas[call[a].id].status = "none"
                THEN call[a].id ELSE nextIdea

\* The agent's work need not land any more.
Misses(a) == landed' = [w \in Work |-> IF author[w] = a THEN 0 ELSE landed[w]]

\* A GitError ends the call.
Fails(a) == Ends(a) /\ Release(a) /\ Misses(a) /\ UNCHANGED ideas

GoesOn(a, stage) == Goes(a, stage) /\ UNCHANGED <<nextIdea, ideas, landed>>

Source(parents, default) == IF parents = {} THEN default ELSE CHOOSE p \in parents : TRUE

HasBranch(b) == b \in IdeaIds => ideas[b].branch

\* create_branch_from, at the parent's branch or what get_default_branch says: the one
\* that is checked out.
MakeBranch(a) ==
    LET c == call[a]
        from == Source(c.parents, head[a])
    IN /\ c.at = "branch"
       /\ IF Exists(c.id) \/ ~HasBranch(from) \/ ~Exists(from)
          THEN Fails(a) /\ UNCHANGED tip
          ELSE tip' = [tip EXCEPT ![c.id] = tip[from]] /\ GoesOn(a, "save")
       /\ UNCHANGED <<kept, head, tree, stash>> /\ Counted

\* save_idea for a new one, update_idea for an adopted one.  The tree is switched
\* to it next, unless a merge has done so or a creation asks not to.
SaveIdea(a) ==
    LET c == call[a] IN
    /\ c.at = "save"
    /\ ideas' = [ideas EXCEPT ![c.id] =
                   [status |-> "active", branch |-> TRUE,
                    parents |-> IF c.op = "adopt" THEN @.parents ELSE c.parents]]
    /\ \/ Goes(a, IF c.op = "adopt" THEN "commit first" ELSE "stash")
          /\ (c.op = "create" => Cardinality(c.parents) < 2)
       \/ c.op = "create" /\ Ends(a)
    /\ GitSame /\ UNCHANGED <<nextIdea, landed>> /\ Counted

\* checkout_idea_carry and create_branch_from_merge: first what is not committed
\* is stashed.
StashWork(a) ==
    LET c == call[a] IN
    /\ c.at = "stash"
    /\ Push(a) /\ Carrying(a, c.id)
    /\ call' = [call EXCEPT ![a] =
                   [c EXCEPT !.had = Dirty(a),
                             !.at = IF Cardinality(c.parents) < 2 THEN "switch" ELSE "first parent"]]
    /\ UNCHANGED <<tip, kept, head>> /\ StoreSame /\ Counted

\* A call that cannot switch pops at once and is taken for done.
SwitchCarrying(a) ==
    LET c == call[a] IN
    /\ c.at = "switch"
    /\ IF Refuses(a, c.id) THEN UNCHANGED <<head, tree>> ELSE Switch(a, c.id)
    /\ IF c.had THEN Goes(a, IF Refuses(a, c.id) THEN "pop only" ELSE "pop") ELSE Ends(a)
    /\ UNCHANGED <<tip, kept, stash, landed>> /\ StoreSame /\ Counted

\* _ensure_clean_checkout of the first parent: when somebody else has it the call
\* fails and what has been stashed stays there.
SwitchToParent(a) ==
    LET c == call[a] IN
    /\ c.at = "first parent"
    /\ \E p \in c.parents :
          IF Refuses(a, p) \/ ~HasBranch(p) THEN Fails(a) /\ UNCHANGED <<head, tree>>
          ELSE Switch(a, p) /\ GoesOn(a, "new branch")
    /\ UNCHANGED <<tip, kept, stash>> /\ Counted

\* git checkout -b
SwitchToNew(a) ==
    LET c == call[a] IN
    /\ c.at = "new branch"
    /\ IF Exists(c.id) THEN Fails(a) /\ UNCHANGED <<tip, head>>
       ELSE /\ tip' = [tip EXCEPT ![c.id] = tip[head[a]]]
            /\ head' = [head EXCEPT ![a] = c.id]
            /\ call' = [call EXCEPT ![a] = [c EXCEPT !.at = "merge", !.old = tip[head[a]]]]
            /\ UNCHANGED <<nextIdea, ideas, landed>>
    /\ UNCHANGED <<kept, tree, stash>> /\ Counted

MergeParents(a) ==
    LET c == call[a] IN
    /\ c.at = "merge"
    /\ \/ /\ \A p \in c.parents : HasBranch(p) /\ Exists(p)
          /\ tip' = [tip EXCEPT ![c.id] = @ \union UNION {tip[p] : p \in c.parents}]
          /\ tree' = [tree EXCEPT ![a] = tip'[c.id]]
          /\ Goes(a, IF c.had THEN "pop" ELSE "save")
       \/ Goes(a, "back") /\ UNCHANGED <<tip, tree>>
    /\ UNCHANGED <<kept, head, stash, landed>> /\ StoreSame /\ Counted

\* After a conflict, back to where the agent was: if somebody has taken that branch
\* meanwhile, the new one stays.
SwitchBack(a) ==
    LET c == call[a] IN
    /\ c.at = "back"
    /\ IF Refuses(a, c.from) THEN Fails(a) /\ UNCHANGED <<head, tree>>
       ELSE Switch(a, c.from) /\ GoesOn(a, "drop")
    /\ UNCHANGED <<tip, kept, stash>> /\ Counted

\* git branch -D, which git refuses for a branch that is checked out.  Another call
\* may have had the branch meanwhile, or may take the idea for adopted.
DropBranch(a) ==
    LET c == call[a] IN
    /\ c.at = "drop"
    /\ IF ~Exists(c.id) \/ \E x \in Agents : head[x] = c.id
       THEN UNCHANGED tip /\ SweepsNone
       ELSE /\ tip' = [tip EXCEPT ![c.id] = NoBranch]
            /\ swept' = swept \union (tip[c.id] \ c.old)
            /\ undone' = IF ideas[c.id].branch \/ \E x \in Agents \ {a} : call[x].id = c.id
                         THEN undone \union {c.id} ELSE undone
    /\ IF c.had THEN Goes(a, "pop only") ELSE Ends(a)
    /\ UNCHANGED <<kept, head, tree, stash, landed, works, calls, author>> /\ StoreSame

\* The stash is popped, or cannot be and keeps it.
AfterCarry(a) == IF call[a].op = "adopt" \/ Cardinality(call[a].parents) = 2
                 THEN Goes(a, "save") ELSE Ends(a)

PopWork(a) ==
    LET c == call[a] IN
    /\ c.at \in {"pop", "pop only"}
    /\ \/ /\ stash # << >> /\ Pop(a)
          /\ IF c.at = "pop" THEN Goes(a, "commit") ELSE Ends(a)
          /\ IF c.at = "pop" THEN UNCHANGED landed ELSE Misses(a)
       \/ /\ UNCHANGED <<tree, stash>>
          /\ IF c.at = "pop" THEN AfterCarry(a) ELSE Ends(a)
          /\ Misses(a)
    /\ UNCHANGED <<tip, kept, head>> /\ StoreSame /\ Counted

CommitWork(a) ==
    /\ call[a].at = "commit"
    /\ \/ Commit(a) /\ UNCHANGED landed
       \/ UNCHANGED tip /\ Misses(a)
    /\ AfterCarry(a)
    /\ UNCHANGED <<kept, head, tree, stash>> /\ StoreSame /\ Counted

-----------------------------------------------------------------------------
(* POST /ideas/{id}/checkout and adopt.                                        *)

\* A branch that somebody else has is refused.  One that is checked out already is
\* left alone.
CheckoutIdea(a) ==
    /\ MayCall(a)
    /\ \E i \in IdeaIds \ {head[a]} :
          /\ ideas[i].status # "none" /\ ~Held(i, a)
          /\ Calls(a, [NoCall EXCEPT !.op = "checkout", !.id = i, !.at = "commit first"])
    /\ UNCHANGED nextIdea

\* A suggested idea; its branch may be there from an earlier attempt.
AdoptIdea(a) ==
    /\ MayCall(a)
    /\ \E i \in IdeaIds :
          /\ ideas[i].status = "suggested" /\ ~Held(i, a)
          /\ Calls(a, [NoCall EXCEPT !.op = "adopt", !.id = i, !.parents = ideas[i].parents,
                          !.from = head[a],
                          !.at = IF Exists(i) THEN "save"
                                 ELSE IF Cardinality(ideas[i].parents) < 2 THEN "branch"
                                 ELSE "stash"])
    /\ UNCHANGED nextIdea

\* checkout_idea: what is there is committed on the old branch, or cannot be.
CommitFirst(a) ==
    /\ call[a].at = "commit first"
    /\ IF head[a] = call[a].id THEN Ends(a) /\ UNCHANGED tip
       ELSE Goes(a, "switch first") /\ (Commit(a) \/ UNCHANGED tip)
    /\ UNCHANGED <<kept, head, tree, stash, landed>> /\ StoreSame /\ Counted

\* Uncommitted changes come along or are in the way.
SwitchFirst(a) ==
    LET c == call[a] IN
    /\ c.at = "switch first"
    /\ \/ ~Refuses(a, c.id) /\ Switch(a, c.id) /\ Ends(a)
       \/ (Refuses(a, c.id) \/ Dirty(a)) /\ Goes(a, "stash rest") /\ UNCHANGED <<head, tree>>
    /\ UNCHANGED <<tip, kept, stash, landed>> /\ StoreSame /\ Counted

\* Then they are stashed, and stay there.
StashRest(a) ==
    /\ call[a].at = "stash rest"
    /\ Push(a) /\ Goes(a, "switch again")
    /\ UNCHANGED <<tip, kept, head, landed>> /\ StoreSame /\ Counted

SwitchAgain(a) ==
    LET c == call[a] IN
    /\ c.at = "switch again"
    /\ IF Refuses(a, c.id) THEN Fails(a) /\ UNCHANGED <<head, tree>>
       ELSE Switch(a, c.id) /\ Ends(a) /\ StoreSame /\ UNCHANGED landed
    /\ UNCHANGED <<tip, kept, stash>> /\ Counted

-----------------------------------------------------------------------------
(* The other routes.                                                          *)

\* suggest_idea
SuggestIdea(a) ==
    /\ MayCall(a) /\ nextIdea <= MaxIdeas
    /\ calls' = calls + 1 /\ nextIdea' = nextIdea + 1
    /\ \E parents \in SUBSET {i \in IdeaIds : ideas[i].status # "none"} :
          ideas' = [ideas EXCEPT ![nextIdea] =
                      [status |-> "suggested", parents |-> parents, branch |-> FALSE]]
    /\ GitSame /\ UNCHANGED <<call, works, author, landed>> /\ SweepsNone

\* conclude_idea, abandon_idea, reopen_idea: the status is read, then written.
From(status) ==
    CASE status = "concluded" -> {"active"}
      [] status = "abandoned" -> {"active", "suggested"}
      [] status = "active"    -> {"concluded", "abandoned"}

AsksStatus(a) ==
    /\ MayCall(a)
    /\ \E i \in IdeaIds, status \in {"concluded", "abandoned", "active"} :
          /\ ideas[i].status \in From(status)
          /\ Calls(a, [NoCall EXCEPT !.op = "status", !.at = "status", !.id = i, !.seen = status])
    /\ UNCHANGED nextIdea

SetsStatus(a) ==
    LET c == call[a] IN
    /\ c.at = "status"
    /\ ideas' = [ideas EXCEPT ![c.id].status = c.seen]
    /\ Ends(a) /\ GitSame /\ UNCHANGED <<nextIdea, landed>> /\ Counted

\* reparent_idea: no cycle and, to rebase, nobody on the branch.
Descendants(i) ==
    LET Children(s) == {j \in IdeaIds : ideas[j].parents \intersect s # {}}
        down[n \in 0..MaxIdeas] == IF n = 0 THEN {i} ELSE down[n-1] \union Children(down[n-1])
    IN down[MaxIdeas] \ {i}

ReparentIdea(a) ==
    /\ MayCall(a)
    /\ \E i \in IdeaIds, rebase \in BOOLEAN :
       \E parents \in SUBSET ({j \in IdeaIds : ideas[j].status # "none"} \ {i}) :
          /\ ideas[i].status # "none" /\ parents \intersect Descendants(i) = {}
          /\ IF rebase
             THEN /\ Cardinality(parents) <= 1 /\ Cardinality(ideas[i].parents) <= 1
                  /\ Exists(i) /\ \A x \in Agents : head[x] # i
                  /\ \A p \in parents : HasBranch(p) /\ Exists(p)
             ELSE parents # ideas[i].parents
          /\ Calls(a, [NoCall EXCEPT !.op = "reparent", !.id = i, !.parents = parents,
                          !.at = IF rebase THEN "rebase" ELSE "parents"])
    /\ UNCHANGED nextIdea

\* rebase_branch_onto, in a worktree of its own: the branch's own edits, on top of the
\* new parent's.  Or there is a conflict and nothing has changed.
Rebased(c) ==
    LET base == Source(ideas[c.id].parents, Trunk)
        upstream == IF HasBranch(base) /\ Exists(base) THEN tip[base] \intersect tip[c.id] ELSE {}
    IN tip[Source(c.parents, Trunk)] \union (tip[c.id] \ upstream)

Rebase(a) ==
    LET c == call[a] IN
    /\ c.at = "rebase"
    /\ \/ /\ Exists(c.id) /\ Exists(Source(c.parents, Trunk))
          /\ call' = [call EXCEPT ![a] = [c EXCEPT !.at = "move", !.old = tip[c.id], !.new = Rebased(c)]]
       \/ Ends(a)
    /\ GitSame /\ StoreSame /\ UNCHANGED landed /\ Counted

\* Faulty: the branch is moved wherever it is by now.
MoveBranchUnchecked(a) ==
    LET c == call[a] IN
    /\ c.at = "move"
    /\ tip' = [tip EXCEPT ![c.id] = c.new]
    /\ kept' = kept \union c.old
    /\ Goes(a, "parents")
    /\ UNCHANGED <<head, tree, stash, landed>> /\ StoreSame /\ Counted

\* git update-ref with the old head: a branch that has moved meanwhile stays.
MoveBranch(a) ==
    LET c == call[a] IN
    /\ c.at = "move"
    /\ kept' = kept \union c.old
    /\ IF tip[c.id] = c.old
       THEN tip' = [tip EXCEPT ![c.id] = c.new] /\ Goes(a, "parents")
       ELSE UNCHANGED tip /\ Ends(a)
    /\ UNCHANGED <<head, tree, stash, landed>> /\ StoreSame /\ Counted

SetsParents(a) ==
    LET c == call[a] IN
    /\ c.at = "parents"
    /\ ideas' = [ideas EXCEPT ![c.id].parents = c.parents]
    /\ Ends(a) /\ GitSame /\ UNCHANGED <<nextIdea, landed>> /\ Counted

-----------------------------------------------------------------------------
WorkStep(a) ==
    \/ Works(a) \/ Commits(a)
    \/ CreateIdea(a) \/ MakeBranch(a) \/ SaveIdea(a) \/ StashWork(a) \/ SwitchCarrying(a)
    \/ SwitchToParent(a) \/ SwitchToNew(a) \/ MergeParents(a) \/ SwitchBack(a)
    \/ DropBranch(a) \/ PopWork(a) \/ CommitWork(a)
    \/ CheckoutIdea(a) \/ AdoptIdea(a) \/ CommitFirst(a) \/ SwitchFirst(a)
    \/ StashRest(a) \/ SwitchAgain(a)
    \/ SuggestIdea(a) \/ AsksStatus(a) \/ SetsStatus(a)
    \/ ReparentIdea(a) \/ Rebase(a) \/ MoveBranch(a) \/ SetsParents(a)

WorkNext == \E a \in Agents : WorkStep(a)

WorkSpec == WorkInit /\ [][WorkNext]_workVars

-----------------------------------------------------------------------------
(* Properties.                                                                *)

\* Nothing an agent has written gets lost: every edit is in somebody's files, on a
\* branch, among the rebased commits or in the stash, whatever calls run at the
\* same time, fail or conflict half-way; but for edits that others commit on the
\* branch of a merge that has failed before it is deleted.
InStash == UNION {stash[k] : k \in DOMAIN stash}
OnBranches == (UNION {tip[b] : b \in Branches}) \ NoBranch

WorkKept ==
    1..works \ swept \subseteq kept \union InStash \union OnBranches \union UNION {tree[a] : a \in Agents}

\* Ideas and branches agree: no two calls are about to save the same new idea, none
\* is about to overwrite a saved one, and an idea that says it has a branch has it,
\* unless another call's failed merge has deleted it under the one that saved it.
Creating(a) == call[a].op = "create"

IdeasSound ==
    /\ \A a \in Agents : Creating(a) /\ call[a].at = "save" => ideas[call[a].id].status = "none"
    /\ \A a, b \in Agents : Creating(a) /\ Creating(b) /\ a # b => call[a].id # call[b].id
    /\ \A i \in IdeaIds : ideas[i].branch => Exists(i) \/ i \in undone

\* What an agent had not committed when it created an idea lands on the branch of
\* that idea, if its call gets to the end without a git command failing
\* (checkout_idea_carry).
WorkLands ==
    \A w \in 1..works :
       landed[w] # 0 /\ call[author[w]] = NoCall /\ w \notin InStash =>
          w \in tip[landed[w]]

-----------------------------------------------------------------------------
(* Why they hold.                                                             *)

\* Two worktrees are never on one branch, and a branch that is checked out is there.
HeadsApart == \A a, b \in Agents : head[a] = head[b] => a = b
HeadsExist == \A a \in Agents : Exists(head[a])

Merging(a) == call[a].at \in {"merge", "back", "drop"}

\* An edit on a branch stays reachable when those who have the branch checked out have
\* it in their files, and it is not what a merge under way started from: the next
\* commit keeps it, and no failed merge takes it along.
Firm(w, b) ==
    /\ w \in tip[b]
    /\ \A a \in Agents : head[a] = b => w \in tree[a]
    /\ \A a \in Agents : Merging(a) /\ call[a].id = b => w \notin call[a].old

Durable == kept \union swept \union {w \in Work : \E b \in Branches : Firm(w, b)}

\* Whatever is on a branch, or in the hands of a call that will set one, is durable.
TipsDurable == \A b \in Branches : Exists(b) => tip[b] \subseteq Durable

HandsDurable ==
    \A a \in Agents :
       /\ Merging(a) \/ call[a].at = "move" => call[a].old \subseteq Durable
       /\ call[a].at = "move" => call[a].new \subseteq Durable
       /\ call[a].at \in {"first parent", "new branch", "merge"} => tree[a] \subseteq Durable

WorkPlaced == 1..works \subseteq Durable \union InStash \union UNION {tree[a] : a \in Agents}

\* A merge under way has a branch of its own.
MergesApart ==
    /\ \A a \in Agents : Merging(a) => Exists(call[a].id)
    /\ \A a \in Agents : call[a].at = "merge" => head[a] = call[a].id
    /\ \A a, b \in Agents : Merging(a) /\ Merging(b) /\ call[a].id = call[b].id => a = b

CallsNamed == \A a \in Agents : call[a].at # "idle" => call[a].id \in IdeaIds

\* Which calls get where.
CallsMatch ==
    \A a \in Agents :
       /\ call[a].op = "none" <=> call[a].at = "idle"
       /\ call[a].at \in {"branch", "save", "stash", "switch", "first parent", "new branch", "merge",
                         "pop", "commit"} => call[a].op \in {"create", "adopt"}
       /\ call[a].at = "status" => call[a].op = "status" /\ call[a].seen # "none"
       /\ Creating(a) => Cardinality(call[a].parents) <= 2

\* Ids not given out, and those of creations that have not saved, are free.
Unsaved(a) == Creating(a) /\ (call[a].at \in {"branch", "save"} \/ Cardinality(call[a].parents) = 2)

IdsFresh ==
    /\ \A i \in IdeaIds : nextIdea <= i => ideas[i].status = "none"
    /\ \A a \in Agents : Creating(a) => call[a].id < nextIdea
    /\ \A a, b \in Agents : Creating(a) /\ Creating(b) /\ a # b => call[a].id # call[b].id
    /\ \A a \in Agents : Unsaved(a) => ideas[call[a].id].status = "none"
    /\ \A a \in Agents : call[a].op \in {"adopt", "checkout", "status", "reparent"} =>
          ideas[call[a].id].status # "none"

\* A call is about to save an idea only when it has made or found the branch.
Merges(a) == call[a].op = "adopt" \/ Cardinality(call[a].parents) = 2

SavesReady ==
    \A a \in Agents :
       /\ call[a].at = "save" \/ (call[a].at \in {"pop", "commit"} /\ Merges(a)) =>
             Exists(call[a].id) \/ call[a].id \in undone
       /\ call[a].at = "stash" /\ call[a].op = "adopt" => Cardinality(call[a].parents) >= 2
       /\ call[a].at = "switch" => ~Merges(a)
       /\ call[a].at \in {"first parent", "new branch", "merge"} => Merges(a)

BranchesThere == \A i \in IdeaIds : ideas[i].branch => Exists(i) \/ i \in undone

WorkIInv ==
    /\ WorkTypeOK /\ HeadsApart /\ HeadsExist
    /\ TipsDurable /\ HandsDurable /\ WorkPlaced
    /\ MergesApart /\ CallsNamed /\ CallsMatch /\ IdsFresh /\ SavesReady /\ BranchesThere
=============================================================================
