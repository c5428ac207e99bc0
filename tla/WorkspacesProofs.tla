-------------------------- MODULE WorkspacesProofs --------------------------
(* Proofs about Workspaces, for any agents and any number of ideas, edits and   *)
(* calls: nothing an agent has written gets lost, and ideas and branches agree. *)
EXTENDS Workspaces, TLAPS, FiniteSetTheorems

-----------------------------------------------------------------------------
(* Sets of edits and of branches.                                              *)

\* No set of edits is the mark of a branch that is not there.
LEMMA WorkIsNotNone == \A s \in SUBSET Work : s # NoBranch
BY WorkspacesAssumption DEF Work, NoBranch

\* The branch an idea is made from is one of the branches.
LEMMA SourceIsBranch ==
    ASSUME NEW parents \in SUBSET IdeaIds, NEW default \in Branches
    PROVE  Source(parents, default) \in Branches
<1>1. parents # {} => (CHOOSE p \in parents : TRUE) \in parents
  OBVIOUS
<1> QED
  BY <1>1 DEF Source, Branches

\* The parents of an idea can be counted.
LEMMA CountIsNat ==
    ASSUME NEW parents \in SUBSET IdeaIds
    PROVE  Cardinality(parents) \in Nat
<1>1. IsFiniteSet(IdeaIds)
  BY FS_Interval, WorkspacesAssumption DEF IdeaIds
<1> QED
  BY <1>1, FS_Subset, FS_CardinalityType

\* A branch that is there holds edits.
LEMMA TipThere ==
    ASSUME WorkTypeOK, NEW b \in Branches, Exists(b)
    PROVE  tip[b] \in SUBSET Work
BY DEF WorkTypeOK, Exists

-----------------------------------------------------------------------------
(* Types.                                                                     *)

\* An agent that waits for nothing.
LEMMA NoCallTyped == NoCall \in CallRecord
BY WorkspacesAssumption DEF NoCall, CallRecord, CallStages, IdeaStates, Branches

\* The end of a call.
LEMMA EndsTyped ==
    ASSUME call \in [Agents -> CallRecord], NEW a \in Agents, Ends(a)
    PROVE  call' \in [Agents -> CallRecord] /\ call'[a] = NoCall
BY NoCallTyped DEF Ends

\* A call that goes on keeps everything but its stage.
LEMMA GoesTyped ==
    ASSUME call \in [Agents -> CallRecord], NEW a \in Agents, NEW stage \in CallStages,
           Goes(a, stage)
    PROVE  /\ call' \in [Agents -> CallRecord]
           /\ call'[a] = [call[a] EXCEPT !.at = stage]
           /\ call'[a].at = stage /\ call'[a].op = call[a].op /\ call'[a].id = call[a].id
           /\ call'[a].parents = call[a].parents /\ call'[a].old = call[a].old
           /\ call'[a].seen = call[a].seen
<1>1. call[a] \in CallRecord
  OBVIOUS
<1>2. call' = [call EXCEPT ![a] = [call[a] EXCEPT !.at = stage]]
  BY DEF Goes
<1>3. [call[a] EXCEPT !.at = stage] \in CallRecord
  BY <1>1 DEF CallRecord
<1> QED
  BY <1>1, <1>2, <1>3 DEF CallRecord

\* A call that begins.
LEMMA CallsTyped ==
    ASSUME call \in [Agents -> CallRecord], NEW a \in Agents, NEW new \in CallRecord,
           Calls(a, new)
    PROVE  /\ call' \in [Agents -> CallRecord] /\ call'[a] = new
           /\ GitSame /\ UNCHANGED <<ideas, works, swept, undone>> /\ calls' = calls + 1
BY DEF Calls, SweepsNone

\* What a rebase makes are edits.
LEMMA SourceThere ==
    ASSUME WorkTypeOK, NEW a \in Agents, Exists(call[a].id),
           Exists(Source(call[a].parents, Trunk)), CallsNamed, call[a].at # "idle"
    PROVE  Rebased(call[a]) \in SUBSET Work
<1> DEFINE c == call[a]
           base == Source(ideas[c.id].parents, Trunk)
           upstream == IF HasBranch(base) /\ Exists(base) THEN tip[base] \intersect tip[c.id] ELSE {}
<1>1. c \in CallRecord /\ c.id \in IdeaIds
  BY DEF WorkTypeOK, CallsNamed
<1>2. Source(c.parents, Trunk) \in Branches /\ c.id \in Branches
  BY <1>1, SourceIsBranch DEF CallRecord, Branches
<1>3. tip[Source(c.parents, Trunk)] \in SUBSET Work /\ tip[c.id] \in SUBSET Work
  BY <1>2, TipThere
<1>4. Rebased(c) = tip[Source(c.parents, Trunk)] \union (tip[c.id] \ upstream)
  BY DEF Rebased
<1> HIDE DEF c, upstream
<1> QED
  BY <1>3, <1>4 DEF c

\* The records that calls begin with.
LEMMA NewCallTyped ==
    ASSUME WorkTypeOK, NEW id \in IdeaIds, NEW parents \in SUBSET IdeaIds, NEW a \in Agents,
           NEW op \in {"create", "adopt", "checkout", "status", "reparent"},
           NEW stage \in CallStages, NEW status \in IdeaStates
    PROVE  /\ [NoCall EXCEPT !.op = op, !.id = id, !.parents = parents, !.from = head[a],
                             !.at = stage] \in CallRecord
           /\ [NoCall EXCEPT !.op = op, !.id = id, !.at = stage] \in CallRecord
           /\ [NoCall EXCEPT !.op = op, !.at = stage, !.id = id, !.seen = status] \in CallRecord
           /\ [NoCall EXCEPT !.op = op, !.id = id, !.parents = parents, !.at = stage] \in CallRecord
<1>1. id \in 0..MaxIdeas /\ head[a] \in Branches
  BY WorkspacesAssumption DEF IdeaIds, WorkTypeOK
<1>2. NoCall \in CallRecord
  BY NoCallTyped
<1> QED
  BY <1>1, <1>2 DEF CallRecord

\* Calls stay calls, step by step.
LEMMA GitCallTyped ==
    ASSUME WorkTypeOK, HeadsExist, CallsNamed, NEW a \in Agents, WorkStep(a)
    PROVE  call' \in [Agents -> CallRecord]
<1> USE DEF WorkTypeOK, GitSame, StoreSame, Counted, SweepsNone, GoesOn, Fails, AfterCarry
<1>0. /\ call[a] \in CallRecord /\ IdeaStates # {}
      /\ {"branch", "save", "stash", "switch", "first parent", "new branch", "merge",
          "back", "drop", "pop", "pop only", "commit", "commit first", "switch first",
           "stash rest", "switch again", "status", "rebase", "move", "parents"} \subseteq CallStages
      /\ {"suggested", "active", "concluded", "abandoned"} \subseteq IdeaStates
  BY DEF CallStages, IdeaStates
<1>1. CASE UNCHANGED call
  BY <1>1
<1>2. CASE MakeBranch(a)
  BY <1>2, <1>0, EndsTyped, GoesTyped DEF MakeBranch
<1>3. CASE SaveIdea(a)
  <2>1. {"commit first", "stash"} \subseteq CallStages
    BY <1>0
  <2> QED
    BY <1>3, <2>1, EndsTyped, GoesTyped DEF SaveIdea
<1>4. CASE StashWork(a)
  <2>1. [call[a] EXCEPT !.had = Dirty(a),
            !.at = IF Cardinality(call[a].parents) < 2 THEN "switch" ELSE "first parent"] \in CallRecord
    BY <1>0 DEF CallRecord, Dirty
  <2> QED
    BY <1>4, <2>1 DEF StashWork
<1>5. CASE SwitchCarrying(a)
  BY <1>5, <1>0, EndsTyped, GoesTyped DEF SwitchCarrying
<1>6. CASE SwitchToParent(a)
  BY <1>6, <1>0, EndsTyped, GoesTyped DEF SwitchToParent
<1>7. CASE SwitchToNew(a)
  <2>1. tip[head[a]] \in SUBSET Work
    BY TipThere DEF HeadsExist
  <2>2. [call[a] EXCEPT !.at = "merge", !.old = tip[head[a]]] \in CallRecord
    BY <1>0, <2>1 DEF CallRecord
  <2> QED
    BY <1>7, <2>2, EndsTyped DEF SwitchToNew
<1>8. CASE MergeParents(a)
  BY <1>8, <1>0, GoesTyped DEF MergeParents
<1>9. CASE SwitchBack(a)
  BY <1>9, <1>0, EndsTyped, GoesTyped DEF SwitchBack
<1>10. CASE DropBranch(a)
  BY <1>10, <1>0, EndsTyped, GoesTyped DEF DropBranch
<1>11. CASE PopWork(a)
  BY <1>11, <1>0, EndsTyped, GoesTyped DEF PopWork
<1>12. CASE CommitWork(a)
  BY <1>12, <1>0, EndsTyped, GoesTyped DEF CommitWork
<1>13. CASE CommitFirst(a)
  BY <1>13, <1>0, EndsTyped, GoesTyped DEF CommitFirst
<1>14. CASE SwitchFirst(a)
  BY <1>14, <1>0, EndsTyped, GoesTyped DEF SwitchFirst
<1>15. CASE StashRest(a)
  BY <1>15, <1>0, GoesTyped DEF StashRest
<1>16. CASE SwitchAgain(a) \/ SetsStatus(a) \/ SetsParents(a)
  BY <1>16, EndsTyped DEF SwitchAgain, SetsStatus, SetsParents
<1>17. CASE MoveBranch(a)
  BY <1>17, <1>0, EndsTyped, GoesTyped DEF MoveBranch
<1>18. CASE Rebase(a)
  <2>1. CASE Ends(a)
    BY <2>1, EndsTyped
  <2>2. CASE ~Ends(a)
    <3>1. /\ Exists(call[a].id) /\ Exists(Source(call[a].parents, Trunk)) /\ call[a].at = "rebase"
          /\ call' = [call EXCEPT ![a] = [call[a] EXCEPT !.at = "move", !.old = tip[call[a].id],
                                                         !.new = Rebased(call[a])]]
      BY <1>18, <2>2 DEF Rebase
    <3>2. Rebased(call[a]) \in SUBSET Work /\ tip[call[a].id] \in SUBSET Work
      BY <3>1, SourceThere, TipThere DEF CallsNamed, Branches
    <3>3. [call[a] EXCEPT !.at = "move", !.old = tip[call[a].id], !.new = Rebased(call[a])] \in CallRecord
      BY <1>0, <3>2 DEF CallRecord
    <3> QED
      BY <3>1, <3>3
  <2> QED
    BY <2>1, <2>2
<1>19. CASE CreateIdea(a)
  <2>1. nextIdea \in IdeaIds
    BY <1>19 DEF CreateIdea, IdeaIds
  <2>2. PICK parents \in SUBSET IdeaIds :
          Calls(a, [NoCall EXCEPT !.op = "create", !.id = nextIdea, !.parents = parents,
                          !.from = head[a],
                          !.at = IF Cardinality(parents) < 2 THEN "branch" ELSE "stash"])
    BY <1>19 DEF CreateIdea
  <2>3. (IF Cardinality(parents) < 2 THEN "branch" ELSE "stash") \in CallStages
    BY <1>0
  <2> QED
    BY <1>0, <2>1, <2>2, <2>3, NewCallTyped, CallsTyped
<1>20. CASE CheckoutIdea(a)
  BY <1>20, <1>0, NewCallTyped, CallsTyped DEF CheckoutIdea
<1>21. CASE AdoptIdea(a)
  <2>1. PICK i \in IdeaIds :
          Calls(a, [NoCall EXCEPT !.op = "adopt", !.id = i, !.parents = ideas[i].parents,
                          !.from = head[a],
                          !.at = IF Exists(i) THEN "save"
                                 ELSE IF Cardinality(ideas[i].parents) < 2 THEN "branch"
                                 ELSE "stash"])
    BY <1>21 DEF AdoptIdea
  <2> DEFINE stage == IF Exists(i) THEN "save"
                      ELSE IF Cardinality(ideas[i].parents) < 2 THEN "branch" ELSE "stash"
  <2>2. stage \in CallStages
    BY <1>0
  <2>3. ideas[i].parents \in SUBSET IdeaIds
    BY DEF IdeaRecord
  <2> HIDE DEF stage
  <2>4. [NoCall EXCEPT !.op = "adopt", !.id = i, !.parents = ideas[i].parents,
                       !.from = head[a], !.at = stage] \in CallRecord
    BY <1>0, <2>2, <2>3, NewCallTyped
  <2> QED
    BY <2>1, <2>4, CallsTyped DEF stage
<1>22. CASE AsksStatus(a)
  <2>1. PICK i \in IdeaIds, status \in {"concluded", "abandoned", "active"} :
          Calls(a, [NoCall EXCEPT !.op = "status", !.at = "status", !.id = i, !.seen = status])
    BY <1>22 DEF AsksStatus
  <2>2. status \in IdeaStates /\ "status" \in CallStages
    BY <1>0
  <2>3. [NoCall EXCEPT !.op = "status", !.at = "status", !.id = i, !.seen = status] \in CallRecord
    BY <2>2, NewCallTyped
  <2> QED
    BY <2>1, <2>3, CallsTyped
<1>23. CASE ReparentIdea(a)
  <2>1. PICK i \in IdeaIds, rebase \in BOOLEAN, parents \in SUBSET IdeaIds :
          Calls(a, [NoCall EXCEPT !.op = "reparent", !.id = i, !.parents = parents,
                          !.at = IF rebase THEN "rebase" ELSE "parents"])
    BY <1>23 DEF ReparentIdea
  <2> DEFINE stage == IF rebase THEN "rebase" ELSE "parents"
  <2>2. stage \in CallStages
    BY <1>0
  <2> HIDE DEF stage
  <2>3. [NoCall EXCEPT !.op = "reparent", !.id = i, !.parents = parents, !.at = stage] \in CallRecord
    BY <1>0, <2>2, NewCallTyped
  <2> QED
    BY <2>1, <2>3, CallsTyped DEF stage
<1> QED
  BY <1>1, <1>2, <1>3, <1>4, <1>5, <1>6, <1>7, <1>8, <1>9, <1>10, <1>11, <1>12, <1>13, <1>14,
     <1>15, <1>16, <1>17, <1>18, <1>19, <1>20, <1>21, <1>22, <1>23
     DEF WorkStep, Works, Commits, SuggestIdea

\* A step of one agent's call leaves the others' calls and worktrees alone.
LEMMA OthersStand ==
    ASSUME WorkTypeOK, NEW a \in Agents, NEW x \in Agents \ {a}, WorkStep(a)
    PROVE  call'[x] = call[x] /\ head'[x] = head[x] /\ tree'[x] = tree[x]
<1> USE DEF WorkTypeOK, GitSame, StoreSame, Counted, SweepsNone, Fails, GoesOn, Goes, Ends, Calls,
            AfterCarry
<1>1. CASE Works(a) \/ Commits(a) \/ SuggestIdea(a)
  BY <1>1 DEF Works, Commits, SuggestIdea
<1>2. CASE CreateIdea(a) \/ CheckoutIdea(a) \/ AdoptIdea(a) \/ AsksStatus(a) \/ ReparentIdea(a)
  BY <1>2 DEF CreateIdea, CheckoutIdea, AdoptIdea, AsksStatus, ReparentIdea
<1>3. CASE MakeBranch(a) \/ SaveIdea(a) \/ SetsStatus(a) \/ SetsParents(a) \/ Rebase(a) \/ MoveBranch(a)
  BY <1>3 DEF MakeBranch, SaveIdea, SetsStatus, SetsParents, Rebase, MoveBranch
<1>4. CASE StashWork(a) \/ StashRest(a)
  BY <1>4 DEF StashWork, StashRest, Push
<1>5. CASE SwitchCarrying(a) \/ SwitchToParent(a)
  BY <1>5 DEF SwitchCarrying, SwitchToParent, Switch
<1>6. CASE SwitchBack(a) \/ SwitchFirst(a) \/ SwitchAgain(a)
  BY <1>6 DEF SwitchBack, SwitchFirst, SwitchAgain, Switch
<1>7. CASE SwitchToNew(a) \/ MergeParents(a) \/ DropBranch(a)
  BY <1>7 DEF SwitchToNew, MergeParents, DropBranch
<1>8. CASE PopWork(a) \/ CommitWork(a) \/ CommitFirst(a)
  BY <1>8 DEF PopWork, Pop, CommitWork, CommitFirst
<1> QED
  BY <1>1, <1>2, <1>3, <1>4, <1>5, <1>6, <1>7, <1>8 DEF WorkStep

-----------------------------------------------------------------------------
(* What the git commands do.                                                  *)

\* git checkout of a branch that is there.
LEMMA SwitchTyped ==
    ASSUME WorkTypeOK, HeadsExist, NEW a \in Agents, NEW b \in Branches, Exists(b), Switch(a, b)
    PROVE  /\ head' \in [Agents -> Branches] /\ tree' \in [Agents -> SUBSET Work]
           /\ head'[a] = b /\ tree'[a] = tip[b] \union (tree[a] \ tip[head[a]])
<1>1. tip[b] \in SUBSET Work
  BY TipThere
<1> QED
  BY <1>1 DEF Switch, WorkTypeOK

\* git stash push: what was not committed goes, the branch's files stay.
LEMMA PushTyped ==
    ASSUME WorkTypeOK, HeadsExist, NEW a \in Agents, Push(a)
    PROVE  tree' \in [Agents -> SUBSET Work] /\ stash' \in Seq(SUBSET Work) /\ tree'[a] = tip[head[a]]
<1>1. tip[head[a]] \in SUBSET Work
  BY TipThere DEF HeadsExist, WorkTypeOK
<1>2. tree[a] \ tip[head[a]] \in SUBSET Work
  BY DEF WorkTypeOK
<1> QED
  BY <1>1, <1>2 DEF Push, WorkTypeOK

\* git stash pop: what leaves the stash is in the files.
LEMMA PopTyped ==
    ASSUME WorkTypeOK, NEW a \in Agents, stash # << >>, Pop(a)
    PROVE  /\ tree' \in [Agents -> SUBSET Work] /\ stash' \in Seq(SUBSET Work)
           /\ tree'[a] = tree[a] \union Last(stash)
           /\ \A k \in DOMAIN stash : stash[k] = Last(stash) \/ (k \in DOMAIN stash' /\ stash'[k] = stash[k])
<1>1. stash \in Seq(SUBSET Work) /\ Len(stash) \in Nat \ {0} /\ DOMAIN stash = 1..Len(stash)
  BY DEF WorkTypeOK
<1>2. Last(stash) = stash[Len(stash)] /\ Last(stash) \in SUBSET Work
  BY <1>1 DEF Last
<1>3. Front(stash) = [i \in 1..(Len(stash) - 1) |-> stash[i]]
  BY <1>1 DEF Front
<1>4. stash' = [i \in 1..(Len(stash) - 1) |-> stash[i]]
  BY <1>3 DEF Pop
<1>5. stash' \in Seq(SUBSET Work) /\ DOMAIN stash' = 1..(Len(stash) - 1)
  BY <1>1, <1>4
<1>6. tree' = [tree EXCEPT ![a] = @ \union Last(stash)]
  BY DEF Pop
<1>7. \A k \in DOMAIN stash : k = Len(stash) \/ k \in DOMAIN stash'
  BY <1>1, <1>5
<1> QED
  BY <1>1, <1>2, <1>4, <1>5, <1>6, <1>7 DEF WorkTypeOK

\* A commit.
LEMMA CommitTyped ==
    ASSUME WorkTypeOK, NEW a \in Agents, Commit(a)
    PROVE  tip' \in [Branches -> (SUBSET Work) \union {NoBranch}]
BY DEF Commit, WorkTypeOK

\* A merge conflicts, or the branch and the files hold what the parents hold.
LEMMA MergeOutcome ==
    ASSUME WorkTypeOK, CallsNamed, MergesApart, NEW a \in Agents, MergeParents(a)
    PROVE  \/ UNCHANGED <<tip, tree>> /\ Goes(a, "back")
           \/ \E s \in SUBSET Work :
                 /\ tip' = [tip EXCEPT ![call[a].id] = s] /\ tree' = [tree EXCEPT ![a] = s]
                 /\ tip[call[a].id] \subseteq s
                 /\ \A w \in s : \E b \in Branches : Exists(b) /\ w \in tip[b]
                 /\ Goes(a, IF call[a].had THEN "pop" ELSE "save")
<1> DEFINE s == tip[call[a].id] \union UNION {tip[p] : p \in call[a].parents}
<1>1. /\ call[a].at = "merge" /\ call[a].id \in Branches /\ Exists(call[a].id)
      /\ call[a].parents \in SUBSET Branches
  BY DEF MergeParents, MergesApart, Merging, CallsNamed, Branches, WorkTypeOK, CallRecord
<1>2. ASSUME ~(UNCHANGED <<tip, tree>> /\ Goes(a, "back"))
      PROVE  /\ \A p \in call[a].parents : Exists(p)
             /\ tip' = [tip EXCEPT ![call[a].id] = @ \union UNION {tip[p] : p \in call[a].parents}]
             /\ tree' = [tree EXCEPT ![a] = tip'[call[a].id]]
             /\ Goes(a, IF call[a].had THEN "pop" ELSE "save")
  BY <1>2 DEF MergeParents
<1>3. ASSUME \A p \in call[a].parents : Exists(p) PROVE s \in SUBSET Work
  <2>1. \A p \in call[a].parents : tip[p] \in SUBSET Work
    BY <1>1, <1>3, TipThere
  <2>2. tip[call[a].id] \in SUBSET Work
    BY <1>1, TipThere
  <2> QED
    BY <2>1, <2>2
<1>4. ASSUME \A p \in call[a].parents : Exists(p), NEW w \in s
      PROVE  \E b \in Branches : Exists(b) /\ w \in tip[b]
  BY <1>1, <1>4
<1>5. tip' = [tip EXCEPT ![call[a].id] = @ \union UNION {tip[p] : p \in call[a].parents}]
      => tip' = [tip EXCEPT ![call[a].id] = s] /\ tip'[call[a].id] = s
  BY <1>1 DEF WorkTypeOK
<1>6. tip[call[a].id] \subseteq s
  OBVIOUS
<1> HIDE DEF s
<1> QED
  BY <1>2, <1>3, <1>4, <1>5, <1>6

\* Branches, worktrees and the stash keep their types.
LEMMA GitTyped ==
    ASSUME WorkTypeOK, HeadsExist, CallsNamed, MergesApart, NEW a \in Agents, WorkStep(a)
    PROVE  /\ tip' \in [Branches -> (SUBSET Work) \union {NoBranch}]
           /\ head' \in [Agents -> Branches] /\ tree' \in [Agents -> SUBSET Work]
           /\ stash' \in Seq(SUBSET Work)
<1> USE DEF GitSame, WorkTypeOK
<1>0. /\ call[a] \in CallRecord /\ (call[a].id \in Branches \/ call[a].at = "idle")
      /\ call[a].parents \in SUBSET Branches /\ call[a].from \in Branches
  BY DEF CallRecord, CallsNamed, Branches
<1>1. CASE UNCHANGED <<tip, head, tree, stash>>
  BY <1>1
<1>2. CASE Works(a)
  <2>1. works' \in Work
    BY <1>2, WorkspacesAssumption DEF Works, Work
  <2> QED
    BY <1>2, <2>1 DEF Works
<1>3. CASE Commits(a) \/ CommitWork(a) \/ CommitFirst(a)
  BY <1>3, CommitTyped DEF Commits, CommitWork, CommitFirst
<1>4. CASE MakeBranch(a)
  <2>1. Source(call[a].parents, head[a]) \in Branches
    BY SourceIsBranch DEF CallRecord
  <2> QED
    BY <1>4, <2>1 DEF MakeBranch
<1>5. CASE StashWork(a) \/ StashRest(a)
  BY <1>5, PushTyped DEF StashWork, StashRest
<1>6. CASE SwitchCarrying(a) \/ SwitchFirst(a) \/ SwitchAgain(a) \/ SwitchBack(a)
  BY <1>6, <1>0, SwitchTyped DEF SwitchCarrying, SwitchFirst, SwitchAgain, SwitchBack, Refuses
<1>7. CASE SwitchToParent(a)
  BY <1>7, <1>0, SwitchTyped DEF SwitchToParent, Refuses
<1>8. CASE SwitchToNew(a)
  BY <1>8, <1>0 DEF SwitchToNew
<1>9. CASE MergeParents(a)
  BY <1>9, MergeOutcome DEF MergeParents
<1>10. CASE DropBranch(a)
  BY <1>10 DEF DropBranch
<1>11. CASE PopWork(a)
  BY <1>11, PopTyped DEF PopWork
<1>12. CASE MoveBranch(a)
  BY <1>12, <1>0 DEF MoveBranch, CallRecord
<1> QED
  BY <1>1, <1>2, <1>3, <1>4, <1>5, <1>6, <1>7, <1>8, <1>9, <1>10, <1>11, <1>12
     DEF WorkStep, CreateIdea, SaveIdea, CheckoutIdea, AdoptIdea, SuggestIdea, AsksStatus, SetsStatus,
         ReparentIdea, Rebase, SetsParents, Calls

-----------------------------------------------------------------------------
(* The store, and a whole step.                                               *)

\* So do the ideas.
LEMMA StoreTyped ==
    ASSUME WorkTypeOK, CallsNamed, NEW a \in Agents, WorkStep(a)
    PROVE  nextIdea' \in 1..(MaxIdeas + 1) /\ ideas' \in [IdeaIds -> IdeaRecord]
<1> USE DEF WorkTypeOK, StoreSame, GoesOn, Fails
<1>0. /\ call[a] \in CallRecord /\ (call[a].id \in IdeaIds \/ call[a].at = "idle")
      /\ call[a].parents \in SUBSET IdeaIds /\ call[a].seen \in IdeaStates
  BY DEF CallRecord, CallsNamed
<1>1. CASE UNCHANGED <<nextIdea, ideas>>
  BY <1>1
<1>2. ASSUME Release(a), call[a].at # "idle" PROVE nextIdea' \in 1..(MaxIdeas + 1)
  BY <1>0, <1>2, WorkspacesAssumption DEF Release, IdeaIds
<1>3. CASE MakeBranch(a) \/ SwitchToParent(a) \/ SwitchToNew(a) \/ SwitchBack(a) \/ SwitchAgain(a)
  BY <1>2, <1>3 DEF MakeBranch, SwitchToParent, SwitchToNew, SwitchBack, SwitchAgain
<1>4. CASE CreateIdea(a)
  BY <1>4, WorkspacesAssumption DEF CreateIdea, Calls
<1>5. CASE SuggestIdea(a)
  <2>1. PICK parents \in SUBSET IdeaIds :
          ideas' = [ideas EXCEPT ![nextIdea] =
                      [status |-> "suggested", parents |-> parents, branch |-> FALSE]]
    BY <1>5 DEF SuggestIdea
  <2>2. [status |-> "suggested", parents |-> parents, branch |-> FALSE] \in IdeaRecord
    BY DEF IdeaRecord, IdeaStates
  <2>3. ideas' \in [IdeaIds -> IdeaRecord]
    BY <2>1, <2>2
  <2>4. nextIdea' \in 1..(MaxIdeas + 1)
    BY <1>5, WorkspacesAssumption DEF SuggestIdea
  <2> QED
    BY <2>3, <2>4
<1>6. CASE SaveIdea(a)
  <2> DEFINE old == ideas[call[a].id]
             new == [status |-> "active", branch |-> TRUE,
                     parents |-> IF call[a].op = "adopt" THEN old.parents ELSE call[a].parents]
  <2>1. old \in IdeaRecord
    BY <1>0, <1>6 DEF SaveIdea
  <2>2. new \in IdeaRecord
    BY <1>0, <2>1 DEF IdeaRecord, IdeaStates
  <2>3. ideas' = [ideas EXCEPT ![call[a].id] = new] /\ nextIdea' = nextIdea
    BY <1>6 DEF SaveIdea
  <2> QED
    BY <2>2, <2>3
<1>7. CASE SetsStatus(a)
  <2>1. [ideas[call[a].id] EXCEPT !.status = call[a].seen] \in IdeaRecord
    BY <1>0, <1>7 DEF SetsStatus, IdeaRecord
  <2>2. ideas' = [ideas EXCEPT ![call[a].id] = [ideas[call[a].id] EXCEPT !.status = call[a].seen]]
    BY <1>7 DEF SetsStatus
  <2> QED
    BY <1>7, <2>1, <2>2 DEF SetsStatus
<1>8. CASE SetsParents(a)
  <2>1. [ideas[call[a].id] EXCEPT !.parents = call[a].parents] \in IdeaRecord
    BY <1>0, <1>8 DEF SetsParents, IdeaRecord
  <2>2. ideas' = [ideas EXCEPT ![call[a].id] = [ideas[call[a].id] EXCEPT !.parents = call[a].parents]]
    BY <1>8 DEF SetsParents
  <2> QED
    BY <1>8, <2>1, <2>2 DEF SetsParents
<1> QED
  BY <1>1, <1>3, <1>4, <1>5, <1>6, <1>7, <1>8
     DEF WorkStep, Works, Commits, StashWork, SwitchCarrying, MergeParents, DropBranch, PopWork,
         CommitWork, CheckoutIdea, AdoptIdea, CommitFirst, SwitchFirst, StashRest, AsksStatus,
         ReparentIdea, Rebase, MoveBranch, Calls

\* A step keeps the types.
LEMMA StepTyped ==
    ASSUME WorkTypeOK, HeadsExist, CallsNamed, MergesApart, NEW a \in Agents, WorkStep(a)
    PROVE  WorkTypeOK'
<1> USE DEF WorkTypeOK, Counted, SweepsNone
<1>1. kept' \subseteq Work
  <2>1. CASE MoveBranch(a)
    <3>1. call[a].old \in SUBSET Work
      BY DEF CallRecord
    <3> QED
      BY <2>1, <3>1 DEF MoveBranch
  <2> QED
    BY <2>1 DEF WorkStep, GitSame, Calls, Works, Commits, CreateIdea, MakeBranch, SaveIdea, StashWork,
                SwitchCarrying, SwitchToParent, SwitchToNew, MergeParents, SwitchBack, DropBranch,
                PopWork, CommitWork, CheckoutIdea, AdoptIdea, CommitFirst, SwitchFirst, StashRest,
                SwitchAgain, SuggestIdea, AsksStatus, SetsStatus, ReparentIdea, Rebase, SetsParents
<1>2. swept' \subseteq Work /\ undone' \subseteq IdeaIds
  <2>1. CASE DropBranch(a)
    <3>1. call[a].id \in IdeaIds /\ call[a].id \in Branches
      BY <2>1 DEF DropBranch, CallsNamed, Branches
    <3>2. Exists(call[a].id) => tip[call[a].id] \in SUBSET Work
      BY <3>1, TipThere
    <3> QED
      BY <2>1, <3>1, <3>2 DEF DropBranch
  <2> QED
    BY <2>1 DEF WorkStep, Calls, Works, Commits, CreateIdea, MakeBranch, SaveIdea, StashWork,
                SwitchCarrying, SwitchToParent, SwitchToNew, MergeParents, SwitchBack,
                PopWork, CommitWork, CheckoutIdea, AdoptIdea, CommitFirst, SwitchFirst, StashRest,
                SwitchAgain, SuggestIdea, AsksStatus, SetsStatus, ReparentIdea, Rebase, SetsParents,
                MoveBranch
<1>3. works' \in 0..MaxWork /\ calls' \in 0..MaxCalls
  <2>1. MaxWork \in Nat /\ MaxCalls \in Nat
    BY WorkspacesAssumption
  <2>2. CASE UNCHANGED <<works, calls>>
    BY <2>2
  <2>3. CASE Works(a)
    BY <2>1, <2>3 DEF Works
  <2>4. CASE calls < MaxCalls /\ calls' = calls + 1 /\ works' = works
    BY <2>1, <2>4
  <2> QED
    BY <2>2, <2>3, <2>4 DEF WorkStep, Calls, MayCall, Commits, CreateIdea, MakeBranch, SaveIdea,
                StashWork, SwitchCarrying, SwitchToParent, SwitchToNew, MergeParents, SwitchBack,
                DropBranch, PopWork, CommitWork, CheckoutIdea, AdoptIdea, CommitFirst, SwitchFirst,
                StashRest, SwitchAgain, SuggestIdea, AsksStatus, SetsStatus, ReparentIdea, Rebase,
                SetsParents, MoveBranch
<1> QED
  BY <1>1, <1>2, <1>3, GitCallTyped, GitTyped, StoreTyped

-----------------------------------------------------------------------------
(* Branches, and who has them checked out.                                     *)

\* A branch that is there goes only when a failed merge drops it.
LEMMA BranchesStay ==
    ASSUME WorkTypeOK, HeadsExist, CallsNamed, MergesApart, NEW a \in Agents, WorkStep(a),
           NEW b \in Branches, Exists(b)
    PROVE  Exists(b)' \/ (/\ DropBranch(a) /\ b = call[a].id /\ \A x \in Agents : head[x] # b
                          /\ undone' = IF ideas[b].branch \/ \E x \in Agents \ {a} : call[x].id = b
                                       THEN undone \union {b} ELSE undone)
<1> USE DEF GitSame, WorkTypeOK, Exists
<1>0. \A s \in SUBSET Work : s # NoBranch
  BY WorkIsNotNone
<1>1. CASE tip' = tip
  BY <1>1
<1>2. CASE Commits(a) \/ CommitWork(a) \/ CommitFirst(a)
  BY <1>0, <1>2 DEF Commits, CommitWork, CommitFirst, Commit
<1>3. CASE MakeBranch(a)
  BY <1>3 DEF MakeBranch
<1>4. CASE SwitchToNew(a)
  BY <1>4 DEF SwitchToNew
<1>5. CASE MergeParents(a)
  BY <1>0, <1>5, MergeOutcome
<1>6. CASE DropBranch(a)
  BY <1>6 DEF DropBranch
<1>7. CASE MoveBranch(a)
  <2>1. call[a].new \in SUBSET Work
    BY DEF CallRecord
  <2> QED
    BY <1>0, <1>7, <2>1 DEF MoveBranch
<1> QED
  BY <1>1, <1>2, <1>3, <1>4, <1>5, <1>6, <1>7
     DEF WorkStep, CreateIdea, SaveIdea, CheckoutIdea, AdoptIdea, SuggestIdea, AsksStatus, SetsStatus,
         ReparentIdea, Rebase, SetsParents, Calls, Works, StashWork, SwitchCarrying, SwitchToParent,
         SwitchBack, PopWork, SwitchFirst, StashRest, SwitchAgain

\* git gives a branch to one worktree, and only one that is there.
LEMMA HeadsSound ==
    ASSUME WorkTypeOK, HeadsApart, HeadsExist, CallsNamed, MergesApart, NEW a \in Agents, WorkStep(a)
    PROVE  HeadsApart' /\ HeadsExist'
<1> USE DEF GitSame, WorkTypeOK
<1>0. \A x \in Agents \ {a} : head'[x] = head[x]
  BY OthersStand
<1>1. head'[a] = head[a]
      \/ (head'[a] \in Branches /\ tip'[head'[a]] # NoBranch /\ \A x \in Agents \ {a} : head[x] # head'[a])
  <2>0. /\ call[a] \in CallRecord /\ (call[a].id \in Branches \/ call[a].at = "idle")
        /\ call[a].parents \in SUBSET Branches /\ call[a].from \in Branches
    BY DEF CallRecord, CallsNamed, Branches
  <2>1. CASE UNCHANGED head
    BY <2>1
  <2>2. CASE SwitchCarrying(a) \/ SwitchFirst(a) \/ SwitchAgain(a) \/ SwitchBack(a)
    BY <2>0, <2>2, SwitchTyped DEF SwitchCarrying, SwitchFirst, SwitchAgain, SwitchBack, Refuses,
                                   Exists, Held
  <2>3. CASE SwitchToParent(a)
    <3>1. PICK p \in call[a].parents : UNCHANGED head \/ (~Refuses(a, p) /\ Switch(a, p))
      BY <2>3 DEF SwitchToParent
    <3>2. UNCHANGED tip
      BY <2>3 DEF SwitchToParent
    <3> QED
      BY <2>0, <3>1, <3>2, SwitchTyped DEF Refuses, Exists, Held
  <2>4. CASE SwitchToNew(a)
    <3>1. tip[head[a]] # NoBranch
      BY DEF HeadsExist, Exists
    <3> QED
      BY <2>0, <2>4, <3>1 DEF SwitchToNew, HeadsExist, Exists
  <2> QED
    BY <2>1, <2>2, <2>3, <2>4
       DEF WorkStep, CreateIdea, SaveIdea, CheckoutIdea, AdoptIdea, SuggestIdea, AsksStatus, SetsStatus,
           ReparentIdea, Rebase, SetsParents, Calls, Works, Commits, MakeBranch, StashWork,
           MergeParents, DropBranch, PopWork, CommitWork, CommitFirst, StashRest, MoveBranch
<1>2. HeadsApart'
  BY <1>0, <1>1 DEF HeadsApart
<1>3. ASSUME NEW x \in Agents PROVE tip'[head'[x]] # NoBranch
  <2>1. head[x] \in Branches /\ Exists(head[x])
    BY DEF HeadsExist
  <2>2. head'[x] = head[x] => tip'[head'[x]] # NoBranch
    BY <2>1, BranchesStay DEF Exists
  <2> QED
    BY <1>0, <1>1, <2>2
<1> QED
  BY <1>2, <1>3 DEF HeadsExist, Exists

-----------------------------------------------------------------------------
(* The stages of a call.                                                       *)

Onwards(x, y) ==
    \/ x = "branch" /\ y = "save"
    \/ x = "save" /\ y \in {"commit first", "stash"}
    \/ x = "stash" /\ y \in {"switch", "first parent"}
    \/ x = "switch" /\ y \in {"pop", "pop only"}
    \/ x = "first parent" /\ y = "new branch"
    \/ x = "new branch" /\ y = "merge"
    \/ x = "merge" /\ y \in {"pop", "save", "back"}
    \/ x = "back" /\ y = "drop"
    \/ x = "drop" /\ y = "pop only"
    \/ x = "pop" /\ y \in {"commit", "save"}
    \/ x = "commit" /\ y = "save"
    \/ x = "commit first" /\ y = "switch first"
    \/ x = "switch first" /\ y = "stash rest"
    \/ x = "stash rest" /\ y = "switch again"
    \/ x = "rebase" /\ y = "move"
    \/ x = "move" /\ y = "parents"

GoesOnwards(a) ==
    /\ Onwards(call[a].at, call'[a].at)
    /\ call'[a].op = call[a].op /\ call'[a].id = call[a].id
    /\ call'[a].parents = call[a].parents /\ call'[a].seen = call[a].seen
    /\ call'[a].at \notin {"merge", "move"} => call'[a].old = call[a].old

Begins(a) ==
    \/ CreateIdea(a) \/ CheckoutIdea(a) \/ AdoptIdea(a) \/ AsksStatus(a) \/ ReparentIdea(a)

\* A step of a call leaves it, ends it, begins it or takes it on to its next stage.
LEMMA StageAfter ==
    ASSUME WorkTypeOK, NEW a \in Agents, WorkStep(a)
    PROVE  call'[a] = call[a] \/ call'[a] = NoCall \/ Begins(a) \/ GoesOnwards(a)
<1> USE DEF WorkTypeOK, Fails, GoesOn, AfterCarry
<1>0. /\ call[a] \in CallRecord
      /\ {"branch", "save", "stash", "switch", "first parent", "new branch", "merge",
          "back", "drop", "pop", "pop only", "commit", "commit first", "switch first",
           "stash rest", "switch again", "status", "rebase", "move", "parents"} \subseteq CallStages
  BY DEF CallStages
<1>1. ASSUME NEW stage \in CallStages, Goes(a, stage), Onwards(call[a].at, stage),
             stage \notin {"merge", "move"}
      PROVE  GoesOnwards(a)
  BY <1>1, GoesTyped DEF GoesOnwards
<1>2. Ends(a) => call'[a] = NoCall
  BY EndsTyped
<1>3. CASE Begins(a)
  BY <1>3
<1>4. CASE MakeBranch(a)
  BY <1>0, <1>1, <1>2, <1>4 DEF MakeBranch, Onwards
<1>5. CASE SaveIdea(a)
  BY <1>0, <1>1, <1>2, <1>5 DEF SaveIdea, Onwards
<1>6. CASE StashWork(a)
  <2>1. call' = [call EXCEPT ![a] =
                   [call[a] EXCEPT !.had = Dirty(a),
                      !.at = IF Cardinality(call[a].parents) < 2 THEN "switch" ELSE "first parent"]]
    BY <1>6 DEF StashWork
  <2>2. call'[a] = [call[a] EXCEPT !.had = Dirty(a),
                      !.at = IF Cardinality(call[a].parents) < 2 THEN "switch" ELSE "first parent"]
    BY <2>1
  <2>3. /\ call'[a].at \in {"switch", "first parent"} /\ call'[a].old = call[a].old
        /\ call'[a].op = call[a].op /\ call'[a].id = call[a].id
        /\ call'[a].parents = call[a].parents /\ call'[a].seen = call[a].seen
    BY <1>0, <2>2 DEF CallRecord
  <2>4. call[a].at = "stash"
    BY <1>6 DEF StashWork
  <2> QED
    BY <2>3, <2>4 DEF GoesOnwards, Onwards
<1>7. CASE SwitchCarrying(a)
  BY <1>0, <1>1, <1>2, <1>7 DEF SwitchCarrying, Onwards
<1>8. CASE SwitchToParent(a)
  BY <1>0, <1>1, <1>2, <1>8 DEF SwitchToParent, Onwards
<1>9. CASE SwitchToNew(a)
  <2>1. call'[a] = NoCall \/ call' = [call EXCEPT ![a] = [call[a] EXCEPT !.at = "merge", !.old = tip[head[a]]]]
    BY <1>2, <1>9 DEF SwitchToNew
  <2>2. call'[a] = NoCall \/ call'[a] = [call[a] EXCEPT !.at = "merge", !.old = tip[head[a]]]
    BY <2>1
  <2>3. call'[a] = NoCall \/
        /\ call'[a].at = "merge"
        /\ call'[a].op = call[a].op /\ call'[a].id = call[a].id
        /\ call'[a].parents = call[a].parents /\ call'[a].seen = call[a].seen
    BY <1>0, <2>2 DEF CallRecord
  <2>4. call[a].at = "new branch"
    BY <1>9 DEF SwitchToNew
  <2> QED
    BY <2>3, <2>4 DEF GoesOnwards, Onwards
<1>10. CASE MergeParents(a)
  BY <1>0, <1>1, <1>2, <1>10 DEF MergeParents, Onwards
<1>11. CASE SwitchBack(a)
  BY <1>0, <1>1, <1>2, <1>11 DEF SwitchBack, Onwards
<1>12. CASE DropBranch(a)
  BY <1>0, <1>1, <1>2, <1>12 DEF DropBranch, Onwards
<1>13. CASE PopWork(a)
  BY <1>0, <1>1, <1>2, <1>13 DEF PopWork, Onwards
<1>14. CASE CommitWork(a)
  BY <1>0, <1>1, <1>2, <1>14 DEF CommitWork, Onwards
<1>15. CASE CommitFirst(a) \/ SwitchFirst(a) \/ StashRest(a)
  BY <1>0, <1>1, <1>2, <1>15 DEF CommitFirst, SwitchFirst, StashRest, Onwards
<1>16. CASE SwitchAgain(a) \/ SetsStatus(a) \/ SetsParents(a)
  BY <1>2, <1>16 DEF SwitchAgain, SetsStatus, SetsParents
<1>17. CASE Rebase(a)
  <2>1. call'[a] = NoCall
        \/ call' = [call EXCEPT ![a] = [call[a] EXCEPT !.at = "move", !.old = tip[call[a].id],
                                                       !.new = Rebased(call[a])]]
    BY <1>2, <1>17 DEF Rebase
  <2>2. call'[a] = NoCall
        \/ call'[a] = [call[a] EXCEPT !.at = "move", !.old = tip[call[a].id], !.new = Rebased(call[a])]
    BY <2>1
  <2>3. call'[a] = NoCall \/
        /\ call'[a].at = "move"
        /\ call'[a].op = call[a].op /\ call'[a].id = call[a].id
        /\ call'[a].parents = call[a].parents /\ call'[a].seen = call[a].seen
    BY <1>0, <2>2 DEF CallRecord
  <2>4. call[a].at = "rebase"
    BY <1>17 DEF Rebase
  <2> QED
    BY <2>3, <2>4 DEF GoesOnwards, Onwards
<1>18. CASE MoveBranch(a)
  BY <1>0, <1>1, <1>2, <1>18 DEF MoveBranch, Onwards
<1> QED
  BY <1>3, <1>4, <1>5, <1>6, <1>7, <1>8, <1>9, <1>10, <1>11, <1>12, <1>13, <1>14, <1>15, <1>16,
     <1>17, <1>18 DEF WorkStep, Works, Commits, SuggestIdea, Begins

\* A new call, of an agent that waits for none.
LEMMA CallBegins ==
    ASSUME WorkTypeOK, NEW a \in Agents, Begins(a)
    PROVE  /\ call[a] = NoCall /\ call'[a].id \in IdeaIds
           /\ call'[a].at \in {"branch", "stash", "save", "commit first", "status", "rebase", "parents"}
           /\ call'[a].at \in {"branch", "stash"} => call'[a].op \in {"create", "adopt"}
           /\ call'[a].at = "save" => call'[a].op = "adopt"
<1> USE DEF WorkTypeOK
<1>1. CASE CreateIdea(a)
  <2>1. PICK parents \in SUBSET IdeaIds :
          Calls(a, [NoCall EXCEPT !.op = "create", !.id = nextIdea, !.parents = parents,
                          !.from = head[a],
                          !.at = IF Cardinality(parents) < 2 THEN "branch" ELSE "stash"])
    BY <1>1 DEF CreateIdea
  <2>2. call[a] = NoCall /\ nextIdea \in IdeaIds
    BY <1>1 DEF CreateIdea, MayCall, IdeaIds
  <2> QED
    BY <2>1, <2>2 DEF Calls, NoCall
<1>2. CASE CheckoutIdea(a)
  BY <1>2 DEF CheckoutIdea, Calls, NoCall, MayCall
<1>3. CASE AdoptIdea(a)
  <2>1. PICK i \in IdeaIds :
          Calls(a, [NoCall EXCEPT !.op = "adopt", !.id = i, !.parents = ideas[i].parents,
                          !.from = head[a],
                          !.at = IF Exists(i) THEN "save"
                                 ELSE IF Cardinality(ideas[i].parents) < 2 THEN "branch"
                                 ELSE "stash"])
    BY <1>3 DEF AdoptIdea
  <2>2. call[a] = NoCall
    BY <1>3 DEF AdoptIdea, MayCall
  <2> QED
    BY <2>1, <2>2 DEF Calls, NoCall
<1>4. CASE AsksStatus(a)
  BY <1>4 DEF AsksStatus, Calls, NoCall, MayCall
<1>5. CASE ReparentIdea(a)
  BY <1>5 DEF ReparentIdea, Calls, NoCall, MayCall
<1> QED
  BY <1>1, <1>2, <1>3, <1>4, <1>5 DEF Begins

\* The stage tells which step a call takes next.
LEMMA WhichStep ==
    ASSUME NEW a \in Agents, WorkStep(a)
    PROVE  /\ call[a].at = "branch" => MakeBranch(a)
           /\ call[a].at = "save" => SaveIdea(a)
           /\ call[a].at = "stash" => StashWork(a)
           /\ call[a].at = "switch" => SwitchCarrying(a)
           /\ call[a].at = "first parent" => SwitchToParent(a)
           /\ call[a].at = "new branch" => SwitchToNew(a)
           /\ call[a].at = "merge" => MergeParents(a)
           /\ call[a].at = "back" => SwitchBack(a)
           /\ call[a].at = "drop" => DropBranch(a)
           /\ call[a].at \in {"pop", "pop only"} => PopWork(a)
           /\ call[a].at = "commit" => CommitWork(a)
           /\ call[a].at = "rebase" => Rebase(a)
           /\ call[a].at = "move" => MoveBranch(a)
<1>1. call[a] = NoCall => call[a].at = "idle"
  BY DEF NoCall
<1> QED
  BY <1>1 DEF WorkStep, MayCall, Works, Commits, CreateIdea, MakeBranch, SaveIdea, StashWork,
      SwitchCarrying, SwitchToParent, SwitchToNew, MergeParents, SwitchBack, DropBranch, PopWork,
      CommitWork, CheckoutIdea, AdoptIdea, CommitFirst, SwitchFirst, StashRest, SwitchAgain,
      SuggestIdea, AsksStatus, SetsStatus, ReparentIdea, Rebase, SetsParents, MoveBranch

\* git checkout -b that succeeds.
LEMMA MadeNew ==
    ASSUME WorkTypeOK, CallsNamed, NEW a \in Agents, SwitchToNew(a), call'[a] # NoCall
    PROVE  /\ ~Exists(call[a].id) /\ call[a].id \in Branches
           /\ tip' = [tip EXCEPT ![call[a].id] = tip[head[a]]]
           /\ head' = [head EXCEPT ![a] = call[a].id]
           /\ call'[a].at = "merge" /\ call'[a].id = call[a].id /\ call'[a].old = tip[head[a]]
           /\ UNCHANGED <<kept, tree, stash, ideas, nextIdea, works, swept, undone>>
<1>1. call[a] \in CallRecord /\ call[a].at = "new branch"
  BY DEF SwitchToNew, WorkTypeOK
<1>2. call[a].id \in Branches
  BY <1>1 DEF CallsNamed, Branches
<1>3. ~Fails(a)
  BY EndsTyped DEF Fails, WorkTypeOK
<1>4. /\ ~Exists(call[a].id)
      /\ tip' = [tip EXCEPT ![call[a].id] = tip[head[a]]]
      /\ head' = [head EXCEPT ![a] = call[a].id]
      /\ call' = [call EXCEPT ![a] = [call[a] EXCEPT !.at = "merge", !.old = tip[head[a]]]]
      /\ UNCHANGED <<kept, tree, stash, ideas, nextIdea, works, swept, undone>>
  BY <1>3 DEF SwitchToNew, Counted, SweepsNone
<1>5. call'[a] = [call[a] EXCEPT !.at = "merge", !.old = tip[head[a]]]
  BY <1>4 DEF WorkTypeOK
<1>6. call'[a].at = "merge" /\ call'[a].id = call[a].id /\ call'[a].old = tip[head[a]]
  BY <1>1, <1>5 DEF CallRecord
<1> QED
  BY <1>2, <1>4, <1>6

\* A call gets to its merge by making the branch, and keeps it to the end of it.
LEMMA MergingAfter ==
    ASSUME WorkTypeOK, CallsNamed, NEW a \in Agents, WorkStep(a), Merging(a)'
    PROVE  \/ SwitchToNew(a) /\ call'[a] # NoCall
           \/ /\ Merging(a) /\ call'[a].id = call[a].id /\ call'[a].old = call[a].old
              /\ call'[a].at = "merge" => call'[a] = call[a]
              /\ ~DropBranch(a)
<1>1. call'[a].at \in {"merge", "back", "drop"} /\ call'[a] # NoCall
  BY DEF Merging, NoCall
<1>2. ~Begins(a)
  BY <1>1, CallBegins
<1>3. CASE call'[a] = call[a]
  <2>1. ~DropBranch(a)
    <3>1. DropBranch(a) => Goes(a, "pop only") \/ Ends(a)
      BY DEF DropBranch
    <3>2. "pop only" \in CallStages
      BY DEF CallStages
    <3> QED
      BY <1>1, <3>1, <3>2, GoesTyped, EndsTyped DEF WorkTypeOK
  <2> QED
    BY <1>1, <1>3, <2>1 DEF Merging
<1>4. CASE GoesOnwards(a)
  <2>1. Onwards(call[a].at, call'[a].at) /\ call'[a].id = call[a].id
        /\ (call'[a].at \notin {"merge", "move"} => call'[a].old = call[a].old)
    BY <1>4 DEF GoesOnwards
  <2>2. CASE call'[a].at = "merge"
    BY <1>1, <2>1, <2>2, WhichStep DEF Onwards
  <2>3. CASE call'[a].at \in {"back", "drop"}
    <3>1. call[a].at \in {"merge", "back"}
      BY <2>1, <2>3 DEF Onwards
    <3>2. ~DropBranch(a)
      BY <3>1 DEF DropBranch
    <3> QED
      BY <2>1, <2>3, <3>1, <3>2 DEF Merging
  <2> QED
    BY <1>1, <2>2, <2>3
<1> QED
  BY <1>1, <1>2, <1>3, <1>4, StageAfter

\* Merges stay apart: a new one has a branch nobody could have had before.
LEMMA MergesSound ==
    ASSUME WorkTypeOK, HeadsExist, CallsNamed, MergesApart, NEW a \in Agents, WorkStep(a)
    PROVE  MergesApart' /\ CallsNamed'
<1> USE DEF WorkTypeOK
<1>0. \A x \in Agents \ {a} : call'[x] = call[x] /\ head'[x] = head[x]
  BY OthersStand
<1>1. CallsNamed'
  <2>1. call'[a] = NoCall => call'[a].at = "idle"
    BY DEF NoCall
  <2>2. Begins(a) => call'[a].id \in IdeaIds
    BY CallBegins
  <2>3. GoesOnwards(a) => call[a].at # "idle" /\ call'[a].id = call[a].id
    BY DEF GoesOnwards, Onwards
  <2> QED
    BY <1>0, <2>1, <2>2, <2>3, StageAfter DEF CallsNamed
<1>2. ASSUME NEW x \in Agents, Merging(x), call'[x].id = call[x].id, ~(x = a /\ DropBranch(a))
      PROVE  tip'[call'[x].id] # NoBranch
  <2>1. call[x].id \in Branches /\ Exists(call[x].id)
    BY <1>2 DEF MergesApart, Merging, CallsNamed, Branches
  <2>2. ~(DropBranch(a) /\ call[x].id = call[a].id)
    BY <1>2 DEF MergesApart, Merging, DropBranch
  <2> QED
    BY <1>2, <2>1, <2>2, BranchesStay DEF Exists
<1>3. ASSUME SwitchToNew(a), call'[a] # NoCall PROVE tip'[call'[a].id] # NoBranch /\ head'[a] = call'[a].id
  <2>1. tip[head[a]] # NoBranch
    BY DEF HeadsExist, Exists
  <2> QED
    BY <1>3, <2>1, MadeNew
<1>4. ASSUME NEW x \in Agents, Merging(x)' PROVE tip'[call'[x].id] # NoBranch
  <2>1. CASE x # a
    BY <1>0, <1>2, <1>4, <2>1 DEF Merging
  <2>2. CASE x = a
    BY <1>2, <1>3, <1>4, <2>2, MergingAfter
  <2> QED
    BY <2>1, <2>2
<1>5. ASSUME NEW x \in Agents, call'[x].at = "merge" PROVE head'[x] = call'[x].id
  <2>1. CASE x # a
    BY <1>0, <1>5, <2>1 DEF MergesApart
  <2>2. CASE x = a
    <3>1. Merging(a)'
      BY <1>5, <2>2 DEF Merging
    <3>2. CASE SwitchToNew(a) /\ call'[a] # NoCall
      BY <1>3, <2>2, <3>2
    <3>3. CASE call'[a] = call[a]
      <4>1. MergeParents(a)
        BY <1>5, <2>2, <3>3, WhichStep
      <4>2. head' = head
        BY <4>1 DEF MergeParents
      <4> QED
        BY <1>5, <2>2, <3>3, <4>2 DEF MergesApart
    <3> QED
      BY <1>5, <2>2, <3>1, <3>2, <3>3, MergingAfter
  <2> QED
    BY <2>1, <2>2
<1>6. ASSUME NEW x \in Agents \ {a}, Merging(x)', Merging(a)' PROVE call'[x].id # call'[a].id
  <2>1. Merging(x) /\ call'[x].id = call[x].id
    BY <1>0, <1>6 DEF Merging
  <2>2. CASE SwitchToNew(a) /\ call'[a] # NoCall
    BY <2>1, <2>2, MadeNew DEF MergesApart
  <2>3. CASE Merging(a) /\ call'[a].id = call[a].id
    BY <2>1, <2>3 DEF MergesApart
  <2> QED
    BY <1>6, <2>2, <2>3, MergingAfter
<1>7. ASSUME NEW x \in Agents, NEW y \in Agents, Merging(x)', Merging(y)', call'[x].id = call'[y].id
      PROVE  x = y
  <2>1. CASE x # a /\ y # a
    BY <1>0, <1>7, <2>1 DEF MergesApart, Merging
  <2>2. CASE x = a \/ y = a
    BY <1>6, <1>7, <2>2 DEF Merging
  <2> QED
    BY <2>1, <2>2
<1> QED
  BY <1>1, <1>4, <1>5, <1>7 DEF MergesApart, Exists, Merging

-----------------------------------------------------------------------------
(* Nothing gets lost.                                                          *)

SafeInv ==
    /\ WorkTypeOK /\ HeadsApart /\ HeadsExist /\ CallsNamed /\ MergesApart
    /\ TipsDurable /\ HandsDurable /\ WorkPlaced

\* A firm edit is durable.
LEMMA FirmIsDurable ==
    ASSUME NEW w \in Work, NEW b \in Branches, Firm(w, b)
    PROVE  w \in Durable
BY DEF Durable

\* What is durable stays so if what was firm is, and nothing is taken out of the rest.
LEMMA DurableGrows ==
    ASSUME kept \subseteq kept', swept \subseteq swept',
           \A w \in Work, b \in Branches : Firm(w, b) => w \in Durable'
    PROVE  Durable \subseteq Durable'
BY DEF Durable

\* An edit on a branch stays firm under a step of a that leaves the branch alone, and
\* begins no merge on it, when a has it in its files or is not there.
LEMMA StaysFirm ==
    ASSUME WorkTypeOK, CallsNamed, NEW a \in Agents, WorkStep(a), NEW b \in Branches, NEW w \in Work,
           Firm(w, b), w \in tip'[b],
           head'[a] = b => w \in tree'[a],
           ~(SwitchToNew(a) /\ call'[a] # NoCall /\ b = call[a].id)
    PROVE  Firm(w, b)'
<1>1. \A x \in Agents \ {a} : call'[x] = call[x] /\ head'[x] = head[x] /\ tree'[x] = tree[x]
  BY OthersStand
<1>2. \A x \in Agents : head'[x] = b => w \in tree'[x]
  BY <1>1 DEF Firm
<1>3. ASSUME Merging(a)', call'[a].id = b PROVE w \notin call'[a].old
  <2>1. CASE SwitchToNew(a) /\ call'[a] # NoCall
    BY <1>3, <2>1, MadeNew
  <2>2. CASE Merging(a) /\ call'[a].id = call[a].id /\ call'[a].old = call[a].old
    BY <1>3, <2>2 DEF Firm
  <2> QED
    BY <1>3, <2>1, <2>2, MergingAfter
<1>4. \A x \in Agents : Merging(x)' /\ call'[x].id = b => w \notin call'[x].old
  BY <1>1, <1>3 DEF Firm, Merging
<1> QED
  BY <1>2, <1>4 DEF Firm

\* Steps that touch no branch.
LEMMA TipsStill ==
    ASSUME SafeInv, NEW a \in Agents, WorkStep(a), UNCHANGED <<tip, kept, swept>>,
           head'[a] \in Branches,
           IF head'[a] = head[a] THEN tree[a] \intersect tip[head[a]] \subseteq tree'[a]
           ELSE tip[head'[a]] \subseteq tree'[a]
    PROVE  Durable \subseteq Durable' /\ TipsDurable'
<1>0. WorkTypeOK /\ CallsNamed
  BY DEF SafeInv
<1>1. ASSUME NEW w \in Work, NEW b \in Branches, Firm(w, b) PROVE w \in Durable'
  <2>1. w \in tip'[b] /\ w \in tip[b]
    BY <1>1 DEF Firm
  <2>2. head'[a] = b => w \in tree'[a]
    BY <1>1, <2>1 DEF Firm
  <2>3. ~(SwitchToNew(a) /\ call'[a] # NoCall /\ b = call[a].id)
    <3>1. SwitchToNew(a) /\ call'[a] # NoCall => tip' = [tip EXCEPT ![call[a].id] = tip[head[a]]]
             /\ ~Exists(call[a].id)
      BY <1>0, MadeNew
    <3> QED
      BY <2>1, <3>1, WorkspacesAssumption DEF Exists, NoBranch, Work
  <2>4. Firm(w, b)'
    BY <1>0, <1>1, <2>1, <2>2, <2>3, StaysFirm
  <2> QED
    BY <2>4 DEF Durable
<1>2. Durable \subseteq Durable'
  BY <1>1, DurableGrows
<1> QED
  BY <1>2 DEF SafeInv, TipsDurable, Exists

\* What is left to see once the durable edits are known to stay.
LEMMA HandsAfter ==
    ASSUME SafeInv, NEW a \in Agents, WorkStep(a), Durable \subseteq Durable',
           call'[a].at \in {"merge", "back", "drop", "move"} => call'[a].old \subseteq Durable',
           call'[a].at = "move" => call'[a].new \subseteq Durable',
           call'[a].at \in {"first parent", "new branch", "merge"} => tree'[a] \subseteq Durable'
    PROVE  HandsDurable'
<1>1. \A x \in Agents \ {a} : call'[x] = call[x] /\ tree'[x] = tree[x]
  BY OthersStand DEF SafeInv
<1> QED
  BY <1>1 DEF SafeInv, HandsDurable, Merging

StillSomewhere(w) == w \in Durable \union InStash \/ \E x \in Agents : w \in tree[x]

\* No edit is lost by a step that keeps what was durable, in the stash or in the files.
LEMMA PlacedAfter ==
    ASSUME SafeInv, NEW a \in Agents, WorkStep(a), Durable \subseteq Durable',
           works' # works => works' = works + 1 /\ works' \in tree'[a],
           \A w \in InStash \union tree[a] : w \in Durable' \union InStash' \union tree'[a]
    PROVE  WorkPlaced'
<1>1. \A x \in Agents \ {a} : call'[x] = call[x] /\ tree'[x] = tree[x]
  BY OthersStand DEF SafeInv
<1>2. ASSUME NEW w, StillSomewhere(w) PROVE StillSomewhere(w)'
  BY <1>1, <1>2 DEF StillSomewhere
<1>3. \A w \in 1..works : StillSomewhere(w)
  BY DEF SafeInv, WorkPlaced, StillSomewhere
<1>4. ASSUME NEW w, works' # works, w = works' PROVE StillSomewhere(w)'
  BY <1>4 DEF StillSomewhere
<1>5. works \in Nat
  BY WorkspacesAssumption DEF SafeInv, WorkTypeOK
<1>6. \A w \in 1..works' : w \in 1..works \/ (works' # works /\ w = works')
  <2>1. CASE works' = works
    BY <2>1
  <2>2. CASE works' = works + 1
    BY <1>5, <2>2
  <2> QED
    BY <2>1, <2>2
<1>7. \A w \in 1..works' : StillSomewhere(w)'
  BY <1>2, <1>3, <1>4, <1>6
<1>8. \A w \in 1..works' : w \in Durable' \union InStash' \union UNION {tree'[x] : x \in Agents}
  BY <1>7 DEF StillSomewhere
<1> QED
  BY <1>8 DEF WorkPlaced

\* A push leaves the rest of the stash, and adds what it takes from the files.
LEMMA StashGrows ==
    ASSUME WorkTypeOK, NEW a \in Agents, Push(a), NEW w,
           w \in InStash \/ w \in tree[a] \ tip[head[a]]
    PROVE  w \in InStash'
<1>1. stash \in Seq(SUBSET Work) /\ tree[a] \ tip[head[a]] \in SUBSET Work
  BY DEF WorkTypeOK
<1>2. CASE stash' = stash
  <2>1. w \in InStash
    <3>1. Dirty(a) => stash' # stash
      BY <1>1 DEF Push
    <3>2. w \in tree[a] \ tip[head[a]] => Dirty(a)
      BY DEF Dirty
    <3> QED
      BY <1>2, <3>1, <3>2
  <2> QED
    BY <1>2, <2>1 DEF InStash
<1>3. CASE stash' = Append(stash, tree[a] \ tip[head[a]])
  <2>1. /\ Len(stash') = Len(stash) + 1 /\ stash' \in Seq(SUBSET Work)
        /\ stash'[Len(stash) + 1] = tree[a] \ tip[head[a]]
        /\ \A k \in 1..Len(stash) : stash'[k] = stash[k]
    BY <1>1, <1>3
  <2>2. DOMAIN stash = 1..Len(stash) /\ DOMAIN stash' = 1..(Len(stash) + 1) /\ Len(stash) \in Nat
    BY <1>1, <2>1
  <2>3. ASSUME NEW k \in DOMAIN stash, w \in stash[k] PROVE k \in DOMAIN stash' /\ w \in stash'[k]
    BY <2>1, <2>2, <2>3
  <2>4. w \in tree[a] \ tip[head[a]] =>
          Len(stash) + 1 \in DOMAIN stash' /\ w \in stash'[Len(stash) + 1]
    BY <2>1, <2>2
  <2> QED
    BY <2>3, <2>4 DEF InStash
<1> QED
  BY <1>2, <1>3 DEF Push

\* A pop takes one entry, into the files.
LEMMA StashComesBack ==
    ASSUME WorkTypeOK, NEW a \in Agents, stash # << >>, Pop(a), NEW w \in InStash
    PROVE  w \in InStash' \/ w \in tree'[a]
<1>1. PICK k \in DOMAIN stash : w \in stash[k]
  BY DEF InStash
<1>2. CASE stash[k] = Last(stash)
  BY <1>1, <1>2, PopTyped
<1>3. CASE k \in DOMAIN stash' /\ stash'[k] = stash[k]
  BY <1>1, <1>3 DEF InStash
<1> QED
  BY <1>2, <1>3, PopTyped

\* How steps that leave the branches alone change the files and the stash.
StaysSafe(a) ==
    \/ UNCHANGED <<head, tree, stash, works>>
    \/ UNCHANGED <<stash, works>> /\ \E b \in Branches : Exists(b) /\ Switch(a, b)
    \/ UNCHANGED <<head, works>> /\ Push(a)
    \/ UNCHANGED <<head, works>> /\ stash # << >> /\ Pop(a)
    \/ Works(a)

LEMMA StillSafe ==
    ASSUME SafeInv, NEW a \in Agents, WorkStep(a), UNCHANGED <<tip, kept, swept>>, StaysSafe(a)
    PROVE  Durable \subseteq Durable' /\ TipsDurable' /\ WorkPlaced'
<1>0. /\ WorkTypeOK /\ HeadsExist /\ TipsDurable
      /\ head[a] \in Branches /\ tip[head[a]] \subseteq Durable
  BY DEF SafeInv, TipsDurable, HeadsExist, WorkTypeOK
<1>1. SUFFICES /\ head'[a] \in Branches
               /\ IF head'[a] = head[a] THEN tree[a] \intersect tip[head[a]] \subseteq tree'[a]
                  ELSE tip[head'[a]] \subseteq tree'[a]
               /\ works' # works => works' = works + 1 /\ works' \in tree'[a]
               /\ \A w \in tree[a] : w \in tip[head[a]] \/ w \in InStash' \union tree'[a]
               /\ \A w \in InStash : w \in InStash' \union tree'[a]
  <2>1. Durable \subseteq Durable' /\ TipsDurable'
    BY <1>1, TipsStill
  <2>2. \A w \in InStash \union tree[a] : w \in Durable' \union InStash' \union tree'[a]
    BY <1>0, <1>1, <2>1
  <2> QED
    BY <1>1, <2>1, <2>2, PlacedAfter
<1>2. CASE UNCHANGED <<head, tree, stash, works>>
  BY <1>0, <1>2 DEF InStash
<1>3. CASE UNCHANGED <<stash, works>> /\ \E b \in Branches : Exists(b) /\ Switch(a, b)
  BY <1>0, <1>3, SwitchTyped DEF InStash
<1>4. CASE UNCHANGED <<head, works>> /\ Push(a)
  BY <1>0, <1>4, PushTyped, StashGrows
<1>5. CASE UNCHANGED <<head, works>> /\ stash # << >> /\ Pop(a)
  BY <1>0, <1>5, PopTyped, StashComesBack
<1>6. CASE Works(a)
  BY <1>0, <1>6 DEF Works, InStash, WorkTypeOK
<1> QED
  BY <1>2, <1>3, <1>4, <1>5, <1>6 DEF StaysSafe

\* Hands change when a call stashes, switches, makes a branch to merge into or rebases.
LEMMA HandsStay ==
    ASSUME SafeInv, NEW a \in Agents, WorkStep(a), Durable \subseteq Durable',
           ~StashWork(a), ~SwitchToParent(a), ~SwitchToNew(a), ~Rebase(a)
    PROVE  HandsDurable'
<1>0. WorkTypeOK
  BY DEF SafeInv
<1>1. call'[a].at \notin {"first parent", "new branch", "merge", "move"}
      /\ (call'[a].at \in {"back", "drop"} => call[a].at \in {"merge", "back", "drop"}
                                              /\ call'[a].old = call[a].old)
  <2>1. CASE call'[a] = NoCall
    BY <2>1 DEF NoCall
  <2>2. CASE Begins(a)
    BY <1>0, <2>2, CallBegins
  <2>3. CASE GoesOnwards(a)
    BY <2>3, WhichStep DEF GoesOnwards, Onwards
  <2>4. CASE call'[a] = call[a]
    <3>1. call[a].at = "merge" => call'[a].at # "merge"
      <4>1. {"back", "pop", "save"} \subseteq CallStages
        BY DEF CallStages
      <4>2. MergeParents(a) => \E stage \in {"back", "pop", "save"} : Goes(a, stage)
        BY DEF MergeParents
      <4> QED
        BY <1>0, <4>1, <4>2, WhichStep, GoesTyped DEF WorkTypeOK
    <3>2. call[a].at = "move" => call'[a].at # "move"
      <4>1. "parents" \in CallStages
        BY DEF CallStages
      <4>2. MoveBranch(a) => Goes(a, "parents") \/ Ends(a)
        BY DEF MoveBranch
      <4>3. Goes(a, "parents") => call'[a].at = "parents"
        BY <1>0, <4>1, GoesTyped DEF WorkTypeOK
      <4>4. Ends(a) => call'[a].at = "idle"
        BY <1>0, EndsTyped DEF WorkTypeOK, NoCall
      <4> QED
        BY <4>2, <4>3, <4>4, WhichStep
    <3> QED
      BY <2>4, <3>1, <3>2, WhichStep
  <2> QED
    BY <1>0, <2>1, <2>2, <2>3, <2>4, StageAfter
<1>2. call[a].at \in {"merge", "back", "drop"} => call[a].old \subseteq Durable
  BY DEF SafeInv, HandsDurable, Merging
<1> QED
  BY <1>1, <1>2, HandsAfter

\* Steps that set one branch: what is firm stays durable, and the branch is durable.
LEMMA OneTip ==
    ASSUME SafeInv, NEW a \in Agents, WorkStep(a), WorkTypeOK', NEW b \in Branches,
           \A c \in Branches \ {b} : tip'[c] = tip[c],
           kept \subseteq kept', swept \subseteq swept',
           head'[a] \in {head[a], b}, head'[a] = head[a] => tree[a] \intersect tip[head[a]] \subseteq tree'[a],
           SwitchToNew(a) /\ call'[a] # NoCall => call[a].id = b,
           \A w \in Work : Firm(w, b) => w \in kept' \union swept' \/ Firm(w, b)'
    PROVE  Durable \subseteq Durable' /\ \A c \in Branches \ {b} : Exists(c)' => tip'[c] \subseteq Durable'
<1>0. WorkTypeOK /\ CallsNamed /\ TipsDurable
  BY DEF SafeInv
<1>1. ASSUME NEW w \in Work, NEW c \in Branches, Firm(w, c) PROVE w \in Durable'
  <2>1. CASE c = b
    BY <1>1, <2>1 DEF Durable
  <2>2. CASE c # b
    <3>1. w \in tip'[c] /\ w \in tip[c]
      BY <1>1, <2>2 DEF Firm
    <3>2. head'[a] = c => w \in tree'[a]
      BY <1>1, <2>2, <3>1 DEF Firm
    <3>3. Firm(w, c)'
      BY <1>0, <1>1, <2>2, <3>1, <3>2, StaysFirm
    <3> QED
      BY <3>3 DEF Durable
  <2> QED
    BY <2>1, <2>2
<1>2. Durable \subseteq Durable'
  BY <1>1, DurableGrows
<1>3. ASSUME NEW c \in Branches \ {b}, tip'[c] # NoBranch PROVE tip'[c] \subseteq Durable'
  <2>1. tip'[c] = tip[c]
    OBVIOUS
  <2>2. Exists(c)
    BY <1>3, <2>1 DEF Exists
  <2> QED
    BY <1>0, <1>2, <2>1, <2>2 DEF TipsDurable
<1> QED
  BY <1>2, <1>3 DEF Exists

\* Commits: the tree has all that was firm on the branch, since nobody else is on it.
LEMMA CommitSafe ==
    ASSUME SafeInv, NEW a \in Agents, Commits(a) \/ CommitWork(a) \/ CommitFirst(a), WorkTypeOK'
    PROVE  Durable \subseteq Durable' /\ TipsDurable' /\ HandsDurable' /\ WorkPlaced'
<1>0. /\ WorkTypeOK /\ CallsNamed /\ HeadsApart /\ HeadsExist /\ TipsDurable
      /\ WorkStep(a) /\ head[a] \in Branches
  BY DEF SafeInv, WorkStep, WorkTypeOK
<1>1. UNCHANGED <<kept, swept, head, tree, stash, works>>
  BY DEF Commits, CommitWork, CommitFirst, Counted, SweepsNone
<1>2. ~StashWork(a) /\ ~SwitchToParent(a) /\ ~SwitchToNew(a) /\ ~Rebase(a)
  <2>1. call[a].at \in {"idle", "commit", "commit first"}
    <3>1. Commits(a) => call[a].at = "idle"
      BY DEF Commits, NoCall
    <3> QED
      BY <3>1 DEF CommitWork, CommitFirst
  <2>2. /\ StashWork(a) => call[a].at = "stash"
        /\ SwitchToParent(a) => call[a].at = "first parent"
        /\ SwitchToNew(a) => call[a].at = "new branch"
        /\ Rebase(a) => call[a].at = "rebase"
    BY DEF StashWork, SwitchToParent, SwitchToNew, Rebase
  <2> QED
    BY <2>1, <2>2
<1>3. CASE tip' = tip
  BY <1>0, <1>1, <1>2, <1>3, StillSafe, HandsStay DEF StaysSafe
<1>4. CASE Commit(a)
  <2>0. PICK b \in Branches : b = head[a]
    BY <1>0
  <2>1. tip'[b] = tree[a] /\ \A c \in Branches \ {b} : tip'[c] = tip[c]
    BY <2>0, <1>0, <1>4 DEF Commit, WorkTypeOK
  <2>2. \A w \in Work : Firm(w, b) => Firm(w, b)'
    <3> SUFFICES ASSUME NEW w \in Work, Firm(w, b) PROVE Firm(w, b)'
      OBVIOUS
    <3>1. w \in tree[a] /\ tree' = tree
      BY <2>0, <1>0, <1>1 DEF Firm
    <3> QED
      BY <2>0, <1>0, <1>2, <2>1, <3>1, StaysFirm
  <2>3. Durable \subseteq Durable' /\ \A c \in Branches \ {b} : Exists(c)' => tip'[c] \subseteq Durable'
    BY <2>0, <1>0, <1>1, <1>2, <2>1, <2>2, OneTip
  <2>4. HandsDurable'
    BY <2>0, <1>0, <1>2, <2>3, HandsStay
  <2>5. ASSUME NEW w \in tree[a] PROVE w \in Durable'
    <3>1. w \in Work /\ w \in tip'[b]
      BY <2>0, <1>0, <2>1 DEF WorkTypeOK
    <3>2. \A x \in Agents : head'[x] = b => w \in tree'[x]
      BY <2>0, <1>0, <1>1 DEF HeadsApart
    <3>3. CASE \E x \in Agents : Merging(x)' /\ call'[x].id = b /\ w \in call'[x].old
      BY <2>4, <3>3 DEF HandsDurable
    <3>4. CASE \A x \in Agents : Merging(x)' /\ call'[x].id = b => w \notin call'[x].old
      <4>1. Firm(w, b)'
        BY <2>0, <1>1, <3>1, <3>2, <3>4 DEF Firm
      <4> QED
        BY <2>0, <1>0, <3>1, <4>1 DEF Durable
    <3> QED
      BY <3>3, <3>4
  <2>6. TipsDurable'
    BY <2>0, <2>1, <2>3, <2>5 DEF TipsDurable
  <2>7. WorkPlaced'
    BY <2>0, <1>0, <1>1, <2>3, PlacedAfter DEF InStash
  <2> QED
    BY <2>3, <2>4, <2>6, <2>7
<1> QED
  BY <1>3, <1>4 DEF Commits, CommitWork, CommitFirst

\* A new branch from one that is there.
LEMMA NewTipSafe ==
    ASSUME SafeInv, NEW a \in Agents, WorkStep(a), WorkTypeOK', NEW b \in Branches, NEW c \in Branches,
           ~Exists(b), Exists(c), tip' = [tip EXCEPT ![b] = tip[c]],
           UNCHANGED <<kept, swept, tree, stash, works>>, head'[a] \in {head[a], b},
           SwitchToNew(a) /\ call'[a] # NoCall => call[a].id = b
    PROVE  Durable \subseteq Durable' /\ TipsDurable' /\ WorkPlaced'
<1>0. WorkTypeOK /\ TipsDurable
  BY DEF SafeInv
<1>1. tip'[b] = tip[c] /\ \A d \in Branches \ {b} : tip'[d] = tip[d]
  BY <1>0 DEF WorkTypeOK
<1>2. \A w \in Work : ~Firm(w, b)
  BY WorkspacesAssumption DEF Firm, Exists, NoBranch, Work
<1>3. Durable \subseteq Durable' /\ \A d \in Branches \ {b} : Exists(d)' => tip'[d] \subseteq Durable'
  BY <1>1, <1>2, OneTip
<1>4. TipsDurable'
  BY <1>0, <1>1, <1>3 DEF TipsDurable
<1>5. WorkPlaced'
  BY <1>3, PlacedAfter DEF InStash
<1> QED
  BY <1>3, <1>4, <1>5

\* A branch for a new idea.
LEMMA MakeBranchSafe ==
    ASSUME SafeInv, NEW a \in Agents, MakeBranch(a), WorkTypeOK'
    PROVE  TipsDurable' /\ HandsDurable' /\ WorkPlaced'
<1>0. /\ WorkTypeOK /\ WorkStep(a) /\ head[a] \in Branches /\ call[a] \in CallRecord
      /\ call[a].at = "branch" /\ call[a].id \in Branches
  BY DEF SafeInv, WorkStep, MakeBranch, WorkTypeOK, CallsNamed, Branches
<1>1. /\ UNCHANGED <<kept, swept, head, tree, stash, works>>
      /\ ~StashWork(a) /\ ~SwitchToParent(a) /\ ~SwitchToNew(a) /\ ~Rebase(a)
  BY <1>0 DEF MakeBranch, Counted, SweepsNone, StashWork, SwitchToParent, SwitchToNew, Rebase
<1>2. CASE tip' = tip
  BY <1>0, <1>1, <1>2, StillSafe, HandsStay DEF StaysSafe
<1>3. CASE tip' # tip
  <2> DEFINE from == Source(call[a].parents, head[a])
  <2>1. ~Exists(call[a].id) /\ Exists(from) /\ tip' = [tip EXCEPT ![call[a].id] = tip[from]]
    BY <1>3 DEF MakeBranch
  <2>2. from \in Branches
    BY <1>0, SourceIsBranch DEF CallRecord
  <2> HIDE DEF from
  <2>3. Durable \subseteq Durable' /\ TipsDurable' /\ WorkPlaced'
    BY <1>0, <1>1, <2>1, <2>2, NewTipSafe
  <2> QED
    BY <1>0, <1>1, <2>3, HandsStay
<1> QED
  BY <1>2, <1>3

\* The branch of a merge, with what it starts from noted as not its own.
LEMMA SwitchToNewSafe ==
    ASSUME SafeInv, NEW a \in Agents, SwitchToNew(a), WorkTypeOK'
    PROVE  TipsDurable' /\ HandsDurable' /\ WorkPlaced'
<1>0. /\ WorkTypeOK /\ WorkStep(a) /\ head[a] \in Branches /\ Exists(head[a]) /\ CallsNamed
      /\ tip[head[a]] \subseteq Durable
      /\ call[a].at = "new branch" /\ tree[a] \subseteq Durable
  BY DEF SafeInv, WorkStep, SwitchToNew, WorkTypeOK, HeadsExist, TipsDurable, HandsDurable
<1>1. CASE call'[a] = NoCall
  <2>1. UNCHANGED <<kept, tip, swept, head, tree, stash, works>>
    <3>1. call' # [call EXCEPT ![a] = [call[a] EXCEPT !.at = "merge", !.old = tip[head[a]]]]
      <4>1. call[a] \in CallRecord
        BY <1>0 DEF WorkTypeOK
      <4>2. [call[a] EXCEPT !.at = "merge", !.old = tip[head[a]]].at = "merge"
        BY <4>1 DEF CallRecord
      <4>3. NoCall.at = "idle"
        BY DEF NoCall
      <4> QED
        BY <1>0, <1>1, <4>2, <4>3 DEF WorkTypeOK
    <3> QED
      BY <3>1 DEF SwitchToNew, Counted, SweepsNone
  <2>2. Durable \subseteq Durable' /\ TipsDurable' /\ WorkPlaced'
    BY <1>0, <2>1, StillSafe DEF StaysSafe
  <2>3. call'[a].at = "idle"
    BY <1>1 DEF NoCall
  <2>4. HandsDurable'
    BY <1>0, <2>2, <2>3, HandsAfter
  <2> QED
    BY <2>2, <2>4
<1>2. CASE call'[a] # NoCall
  <2>1. /\ ~Exists(call[a].id) /\ call[a].id \in Branches
        /\ tip' = [tip EXCEPT ![call[a].id] = tip[head[a]]]
        /\ head' = [head EXCEPT ![a] = call[a].id]
        /\ call'[a].at = "merge" /\ call'[a].id = call[a].id /\ call'[a].old = tip[head[a]]
        /\ UNCHANGED <<kept, tree, stash, works, swept>>
    BY <1>0, <1>2, MadeNew
  <2>2. head'[a] = call[a].id
    BY <1>0, <2>1 DEF WorkTypeOK
  <2>3. Durable \subseteq Durable' /\ TipsDurable' /\ WorkPlaced'
    BY <1>0, <2>1, <2>2, NewTipSafe
  <2> QED
    BY <1>0, <2>1, <2>3, HandsAfter
<1> QED
  BY <1>1, <1>2

\* A merge adds to its branch what is durable on others.
LEMMA MergeSafe ==
    ASSUME SafeInv, NEW a \in Agents, MergeParents(a), WorkTypeOK'
    PROVE  TipsDurable' /\ HandsDurable' /\ WorkPlaced'
<1>0. /\ WorkTypeOK /\ WorkStep(a) /\ CallsNamed /\ MergesApart /\ TipsDurable
      /\ call[a].at = "merge" /\ tree[a] \subseteq Durable /\ call[a].id \in Branches
      /\ head[a] = call[a].id
  BY DEF SafeInv, WorkStep, MergeParents, HandsDurable, CallsNamed, Branches, MergesApart
<1>1. /\ UNCHANGED <<kept, swept, head, stash, works>>
      /\ ~StashWork(a) /\ ~SwitchToParent(a) /\ ~SwitchToNew(a) /\ ~Rebase(a)
  BY <1>0 DEF MergeParents, Counted, SweepsNone, StashWork, SwitchToParent, SwitchToNew, Rebase
<1>2. CASE UNCHANGED <<tip, tree>>
  BY <1>0, <1>1, <1>2, StillSafe, HandsStay DEF StaysSafe
<1>3. ASSUME NEW s \in SUBSET Work,
             tip' = [tip EXCEPT ![call[a].id] = s], tree' = [tree EXCEPT ![a] = s],
             tip[call[a].id] \subseteq s,
             \A w \in s : \E b \in Branches : Exists(b) /\ w \in tip[b]
      PROVE  TipsDurable' /\ HandsDurable' /\ WorkPlaced'
  <2>0. PICK b \in Branches : b = call[a].id
    BY <1>0
  <2>1. tip'[b] = s /\ tree'[a] = s /\ \A c \in Branches \ {b} : tip'[c] = tip[c]
    BY <2>0, <1>0, <1>3 DEF WorkTypeOK
  <2>2. ASSUME NEW w \in Work, Firm(w, b) PROVE Firm(w, b)'
    <3>1. w \in s
      BY <2>0, <1>3, <2>2 DEF Firm
    <3> QED
      BY <2>0, <1>0, <1>1, <2>1, <2>2, <3>1, StaysFirm
  <2>3. Durable \subseteq Durable' /\ \A c \in Branches \ {b} : Exists(c)' => tip'[c] \subseteq Durable'
    BY <2>0, <1>0, <1>1, <1>3, <2>1, <2>2, OneTip
  <2>4. s \subseteq Durable'
    BY <2>0, <1>0, <1>3, <2>3 DEF TipsDurable
  <2>5. TipsDurable'
    BY <2>0, <2>1, <2>3, <2>4 DEF TipsDurable
  <2>6. WorkPlaced'
    BY <2>0, <1>0, <1>1, <2>3, PlacedAfter DEF InStash
  <2> QED
    BY <2>0, <1>0, <1>1, <2>3, <2>5, <2>6, HandsStay
<1> QED
  BY <1>0, <1>2, <1>3, MergeOutcome

\* A failed merge takes along only what it started from, or what swept names.
LEMMA DropBranchSafe ==
    ASSUME SafeInv, NEW a \in Agents, DropBranch(a), WorkTypeOK'
    PROVE  TipsDurable' /\ HandsDurable' /\ WorkPlaced'
<1>0. /\ WorkTypeOK /\ WorkStep(a) /\ CallsNamed /\ TipsDurable
      /\ tip \in [Branches -> (SUBSET Work) \union {NoBranch}]
      /\ call[a].at = "drop" /\ call[a].id \in Branches /\ head[a] \in Branches
  BY DEF SafeInv, WorkStep, DropBranch, WorkTypeOK, CallsNamed, Branches
<1>1. /\ UNCHANGED <<kept, head, tree, stash, works>>
      /\ ~StashWork(a) /\ ~SwitchToParent(a) /\ ~SwitchToNew(a) /\ ~Rebase(a)
  BY <1>0 DEF DropBranch, StashWork, SwitchToParent, SwitchToNew, Rebase
<1>2. CASE UNCHANGED <<tip, swept>>
  BY <1>0, <1>1, <1>2, StillSafe, HandsStay DEF StaysSafe
<1>3. CASE /\ tip' = [tip EXCEPT ![call[a].id] = NoBranch]
           /\ swept' = swept \union (tip[call[a].id] \ call[a].old)
  <2>0. PICK b \in Branches : b = call[a].id
    BY <1>0
  <2>1. tip'[b] = NoBranch /\ \A c \in Branches \ {b} : tip'[c] = tip[c]
    BY <1>0, <1>3, <2>0
  <2>2. ASSUME NEW w \in Work, Firm(w, b) PROVE w \in swept'
    <3>1. Merging(a)
      BY <1>0 DEF Merging
    <3>2. w \in tip[b] /\ w \notin call[a].old
      BY <2>0, <2>2, <3>1 DEF Firm
    <3> QED
      BY <1>3, <2>0, <3>2
  <2>3. swept \subseteq swept' /\ kept \subseteq kept'
    BY <1>1, <1>3
  <2>4. Durable \subseteq Durable' /\ \A c \in Branches \ {b} : Exists(c)' => tip'[c] \subseteq Durable'
    BY <1>0, <1>1, <2>0, <2>1, <2>2, <2>3, OneTip
  <2>5. TipsDurable'
    BY <2>1, <2>4 DEF TipsDurable, Exists, NoBranch
  <2>6. WorkPlaced'
    BY <1>0, <1>1, <2>4, PlacedAfter DEF InStash
  <2> QED
    BY <1>0, <1>1, <2>4, <2>5, <2>6, HandsStay
<1> QED
  BY <1>2, <1>3 DEF DropBranch, SweepsNone

\* A rebase moves a branch only if it is as it was read, and keeps what it held.
LEMMA MoveBranchSafe ==
    ASSUME SafeInv, NEW a \in Agents, MoveBranch(a), WorkTypeOK'
    PROVE  TipsDurable' /\ HandsDurable' /\ WorkPlaced'
<1>0. /\ WorkTypeOK /\ WorkStep(a) /\ CallsNamed /\ TipsDurable
      /\ tip \in [Branches -> (SUBSET Work) \union {NoBranch}]
      /\ call[a].at = "move" /\ call[a].id \in Branches /\ head[a] \in Branches
      /\ call[a].new \subseteq Durable
  BY DEF SafeInv, WorkStep, MoveBranch, WorkTypeOK, CallsNamed, Branches, HandsDurable
<1>1. /\ UNCHANGED <<head, tree, stash, works, swept>> /\ kept' = kept \union call[a].old
      /\ ~StashWork(a) /\ ~SwitchToParent(a) /\ ~SwitchToNew(a) /\ ~Rebase(a)
  BY <1>0 DEF MoveBranch, StashWork, SwitchToParent, SwitchToNew, Rebase, Counted, SweepsNone
<1>2. PICK b \in Branches : b = call[a].id
  BY <1>0
<1>3. CASE tip[b] = call[a].old /\ tip' = [tip EXCEPT ![b] = call[a].new]
  <2>1. tip'[b] = call[a].new /\ \A c \in Branches \ {b} : tip'[c] = tip[c]
    BY <1>0, <1>3
  <2>2. \A w \in Work : Firm(w, b) => w \in kept'
    BY <1>1, <1>3 DEF Firm
  <2>3. Durable \subseteq Durable' /\ \A c \in Branches \ {b} : Exists(c)' => tip'[c] \subseteq Durable'
    BY <1>0, <1>1, <1>2, <2>1, <2>2, OneTip
  <2>4. TipsDurable'
    BY <1>0, <2>1, <2>3 DEF TipsDurable
  <2>5. WorkPlaced'
    BY <1>0, <1>1, <2>3, PlacedAfter DEF InStash
  <2> QED
    BY <1>0, <1>1, <2>3, <2>4, <2>5, HandsStay
<1>4. CASE tip' = tip
  <2>1. ASSUME NEW w \in Work, Firm(w, b) PROVE Firm(w, b)'
    <3>1. w \in tip'[b] /\ (head'[a] = b => w \in tree'[a])
      BY <1>1, <1>4, <2>1 DEF Firm
    <3> QED
      BY <1>0, <1>1, <2>1, <3>1, StaysFirm
  <2>2. Durable \subseteq Durable' /\ \A c \in Branches \ {b} : Exists(c)' => tip'[c] \subseteq Durable'
    BY <1>0, <1>1, <1>2, <1>4, <2>1, OneTip
  <2>3. Exists(b)' => tip'[b] \subseteq Durable'
    BY <1>0, <1>4, <2>2 DEF TipsDurable, Exists, NoBranch
  <2>4. TipsDurable'
    BY <2>2, <2>3 DEF TipsDurable
  <2>5. WorkPlaced'
    BY <1>0, <1>1, <2>2, PlacedAfter DEF InStash
  <2> QED
    BY <1>0, <1>1, <2>2, <2>4, <2>5, HandsStay
<1> QED
  BY <1>2, <1>3, <1>4 DEF MoveBranch

\* A stash push leaves the files of the branch, which are durable.
LEMMA StashWorkSafe ==
    ASSUME SafeInv, NEW a \in Agents, StashWork(a), WorkTypeOK'
    PROVE  TipsDurable' /\ HandsDurable' /\ WorkPlaced'
<1>0. /\ WorkTypeOK /\ WorkStep(a) /\ head[a] \in Branches /\ tip[head[a]] \subseteq Durable
      /\ tree \in [Agents -> SUBSET Work] /\ call \in [Agents -> CallRecord]
  BY DEF SafeInv, WorkStep, WorkTypeOK, HeadsExist, TipsDurable
<1>1. UNCHANGED <<tip, kept, swept, head, works>> /\ Push(a) /\ tree'[a] = tip[head[a]]
  BY <1>0 DEF StashWork, Push, Counted, SweepsNone
<1>2. Durable \subseteq Durable' /\ TipsDurable' /\ WorkPlaced'
  BY <1>0, <1>1, StillSafe DEF StaysSafe
<1>3. call'[a].at \in {"switch", "first parent"}
  <2>1. PICK stage \in {"switch", "first parent"}, had \in BOOLEAN :
           call' = [call EXCEPT ![a] = [call[a] EXCEPT !.had = had, !.at = stage]]
    BY DEF StashWork, Dirty
  <2>2. call'[a] = [call[a] EXCEPT !.had = had, !.at = stage] /\ call[a] \in CallRecord
    BY <1>0, <2>1
  <2>3. call'[a].at = stage
    BY <2>2 DEF CallRecord
  <2> QED
    BY <2>1, <2>3
<1>4. HandsDurable'
  BY <1>0, <1>1, <1>2, <1>3, HandsAfter
<1> QED
  BY <1>2, <1>4

\* A switch to the first parent, from files that are durable to such files.
LEMMA SwitchToParentSafe ==
    ASSUME SafeInv, NEW a \in Agents, SwitchToParent(a), WorkTypeOK'
    PROVE  TipsDurable' /\ HandsDurable' /\ WorkPlaced'
<1>0. /\ WorkTypeOK /\ WorkStep(a) /\ CallsNamed /\ TipsDurable /\ tree[a] \subseteq Durable
      /\ tree \in [Agents -> SUBSET Work] /\ call \in [Agents -> CallRecord]
      /\ call[a] \in CallRecord /\ call[a].at = "first parent"
  BY DEF SafeInv, WorkStep, WorkTypeOK, HandsDurable, SwitchToParent
<1>1. UNCHANGED <<tip, kept, swept, stash, works>>
  BY DEF SwitchToParent, Counted, SweepsNone
<1>2. CASE Ends(a) /\ UNCHANGED <<head, tree>>
  <2>1. Durable \subseteq Durable' /\ TipsDurable' /\ WorkPlaced'
    BY <1>0, <1>1, <1>2, StillSafe DEF StaysSafe
  <2>2. call'[a].at = "idle"
    <3>1. call'[a] = NoCall
      BY <1>0, <1>2, EndsTyped
    <3> QED
      BY <3>1 DEF NoCall
  <2>3. HandsDurable'
    BY <1>0, <2>1, <2>2, HandsAfter
  <2> QED
    BY <2>1, <2>3
<1>3. ASSUME NEW p \in Branches, Exists(p), Switch(a, p), Goes(a, "new branch")
      PROVE  TipsDurable' /\ HandsDurable' /\ WorkPlaced'
  <2>1. Durable \subseteq Durable' /\ TipsDurable' /\ WorkPlaced'
    BY <1>0, <1>1, <1>3, StillSafe DEF StaysSafe
  <2>2. tree'[a] \subseteq Durable
    BY <1>0, <1>3 DEF Switch, TipsDurable
  <2>3. call'[a].at = "new branch"
    <3>1. "new branch" \in CallStages
      BY DEF CallStages
    <3> QED
      BY <1>0, <1>3, <3>1, GoesTyped
  <2>4. HandsDurable'
    BY <1>0, <2>1, <2>2, <2>3, HandsAfter
  <2> QED
    BY <2>1, <2>4
<1>4. PICK p \in call[a].parents :
         IF Refuses(a, p) \/ ~HasBranch(p) THEN Fails(a) /\ UNCHANGED <<head, tree>>
         ELSE Switch(a, p) /\ GoesOn(a, "new branch")
  BY DEF SwitchToParent
<1>5. p \in Branches
  BY <1>0, <1>4 DEF CallRecord, Branches
<1> QED
  BY <1>2, <1>3, <1>4, <1>5 DEF Fails, GoesOn, Refuses

\* What a rebase holds, before and after, comes from branches.
LEMMA RebaseSafe ==
    ASSUME SafeInv, NEW a \in Agents, Rebase(a), WorkTypeOK'
    PROVE  TipsDurable' /\ HandsDurable' /\ WorkPlaced'
<1>0. /\ WorkTypeOK /\ WorkStep(a) /\ CallsNamed /\ TipsDurable
      /\ call \in [Agents -> CallRecord] /\ call[a].at = "rebase" /\ call[a].id \in Branches
  BY DEF SafeInv, WorkStep, WorkTypeOK, Rebase, CallsNamed, Branches
<1>1. UNCHANGED <<tip, kept, swept, head, tree, stash, works>>
  BY DEF Rebase, Counted, SweepsNone, GitSame
<1>2. Durable \subseteq Durable' /\ TipsDurable' /\ WorkPlaced'
  BY <1>0, <1>1, StillSafe DEF StaysSafe
<1>3. CASE Ends(a)
  <2>1. call'[a].at = "idle"
    BY <1>0, <1>3, EndsTyped DEF NoCall
  <2> QED
    BY <1>0, <1>2, <2>1, HandsAfter
<1>4. CASE /\ Exists(call[a].id) /\ Exists(Source(call[a].parents, Trunk))
           /\ call' = [call EXCEPT ![a] = [call[a] EXCEPT !.at = "move", !.old = tip[call[a].id],
                                                          !.new = Rebased(call[a])]]
  <2> DEFINE onto == Source(call[a].parents, Trunk)
  <2>1. onto \in Branches
    BY <1>0, SourceIsBranch DEF CallRecord, Branches
  <2>2. Rebased(call[a]) \subseteq tip[onto] \union tip[call[a].id]
    BY DEF Rebased
  <2> HIDE DEF onto
  <2>3. tip[call[a].id] \subseteq Durable /\ Rebased(call[a]) \subseteq Durable
    <3>1. Exists(onto)
      BY <1>4 DEF onto
    <3> QED
      BY <1>0, <1>4, <2>1, <2>2, <3>1 DEF TipsDurable
  <2>4. call'[a].at = "move" /\ call'[a].old = tip[call[a].id] /\ call'[a].new = Rebased(call[a])
    <3>1. call'[a] = [call[a] EXCEPT !.at = "move", !.old = tip[call[a].id], !.new = Rebased(call[a])]
      BY <1>0, <1>4
    <3> QED
      BY <1>0, <3>1 DEF CallRecord
  <2>5. HandsDurable'
    BY <1>0, <1>2, <2>3, <2>4, HandsAfter
  <2> QED
    BY <1>2, <2>5
<1> QED
  BY <1>3, <1>4 DEF Rebase

\* The others leave the branches as they are, and have nothing to set.
Undisturbed(a) ==
    \/ Works(a) \/ CreateIdea(a) \/ SaveIdea(a) \/ SwitchCarrying(a) \/ SwitchBack(a) \/ PopWork(a)
    \/ CheckoutIdea(a) \/ AdoptIdea(a) \/ SwitchFirst(a) \/ StashRest(a) \/ SwitchAgain(a)
    \/ SuggestIdea(a) \/ AsksStatus(a) \/ SetsStatus(a) \/ ReparentIdea(a) \/ SetsParents(a)

\* None of them changes a branch.
LEMMA QuietMoves ==
    ASSUME WorkTypeOK, CallsNamed, NEW a \in Agents, Undisturbed(a)
    PROVE  UNCHANGED <<tip, kept, swept>> /\ StaysSafe(a)
<1> USE DEF Counted, SweepsNone, StaysSafe
<1>0. call[a].at # "idle" => call[a].id \in Branches
  BY DEF CallsNamed, Branches
<1>1. CASE CreateIdea(a) \/ CheckoutIdea(a) \/ AdoptIdea(a) \/ AsksStatus(a) \/ ReparentIdea(a)
  <2>1. GitSame /\ UNCHANGED <<works, swept>>
    BY <1>1 DEF CreateIdea, CheckoutIdea, AdoptIdea, AsksStatus, ReparentIdea, Calls
  <2> QED
    BY <2>1 DEF GitSame
<1>2. CASE SaveIdea(a) \/ SuggestIdea(a) \/ SetsStatus(a) \/ SetsParents(a)
  <2>1. GitSame /\ UNCHANGED <<works, swept>>
    BY <1>2 DEF SaveIdea, SuggestIdea, SetsStatus, SetsParents
  <2> QED
    BY <2>1 DEF GitSame
<1>3. CASE Works(a)
  BY <1>3 DEF Works
<1>4. CASE PopWork(a)
  BY <1>4 DEF PopWork
<1>5. CASE StashRest(a)
  BY <1>5 DEF StashRest
<1>6. CASE SwitchCarrying(a)
  BY <1>0, <1>6 DEF SwitchCarrying, Refuses
<1>7. CASE SwitchBack(a)
  <2>1. call[a].from \in Branches
    BY DEF WorkTypeOK, CallRecord
  <2> QED
    BY <1>7, <2>1 DEF SwitchBack, Refuses
<1>8. CASE SwitchFirst(a)
  BY <1>0, <1>8 DEF SwitchFirst, Refuses
<1>9. CASE SwitchAgain(a)
  BY <1>0, <1>9 DEF SwitchAgain, Refuses
<1> QED
  BY <1>1, <1>2, <1>3, <1>4, <1>5, <1>6, <1>7, <1>8, <1>9 DEF Undisturbed

\* None of them is one of the steps that take edits into a call's hands.
LEMMA QuietStage ==
    ASSUME NEW a \in Agents, Undisturbed(a)
    PROVE  ~StashWork(a) /\ ~SwitchToParent(a) /\ ~SwitchToNew(a) /\ ~Rebase(a)
<1>1. call[a].at \notin {"stash", "first parent", "new branch", "rebase"}
  <2>1. CASE call[a] = NoCall
    BY <2>1 DEF NoCall
  <2>2. CASE Works(a) \/ CreateIdea(a) \/ CheckoutIdea(a) \/ AdoptIdea(a) \/ SuggestIdea(a)
             \/ AsksStatus(a) \/ ReparentIdea(a)
    BY <2>1, <2>2 DEF Works, CreateIdea, CheckoutIdea, AdoptIdea, SuggestIdea, AsksStatus, ReparentIdea,
                      MayCall
  <2>3. CASE SaveIdea(a) \/ SwitchCarrying(a) \/ SwitchBack(a) \/ PopWork(a) \/ SwitchFirst(a)
             \/ StashRest(a) \/ SwitchAgain(a) \/ SetsStatus(a) \/ SetsParents(a)
    BY <2>3 DEF SaveIdea, SwitchCarrying, SwitchBack, PopWork, SwitchFirst, StashRest, SwitchAgain,
                SetsStatus, SetsParents
  <2> QED
    BY <2>2, <2>3 DEF Undisturbed
<1> QED
  BY <1>1 DEF StashWork, SwitchToParent, SwitchToNew, Rebase

\* Every step keeps what is durable durable, and every edit somewhere.
LEMMA NothingLost ==
    ASSUME SafeInv, NEW a \in Agents, WorkStep(a), WorkTypeOK'
    PROVE  TipsDurable' /\ HandsDurable' /\ WorkPlaced'
<1>1. CASE Undisturbed(a)
  BY <1>1, QuietMoves, QuietStage, StillSafe, HandsStay DEF SafeInv
<1>2. CASE Commits(a) \/ CommitWork(a) \/ CommitFirst(a)
  BY <1>2, CommitSafe
<1>3. CASE MakeBranch(a) \/ SwitchToNew(a) \/ MergeParents(a) \/ DropBranch(a) \/ MoveBranch(a)
  BY <1>3, MakeBranchSafe, SwitchToNewSafe, MergeSafe, DropBranchSafe, MoveBranchSafe
<1>4. CASE StashWork(a) \/ SwitchToParent(a) \/ Rebase(a)
  BY <1>4, StashWorkSafe, SwitchToParentSafe, RebaseSafe
<1> QED
  BY <1>1, <1>2, <1>3, <1>4 DEF WorkStep, Undisturbed

-----------------------------------------------------------------------------
(* Ideas and branches agree.                                                   *)

\* A creation takes the next id.
LEMMA CreationIs ==
    ASSUME WorkTypeOK, NEW a \in Agents, CreateIdea(a)
    PROVE  /\ call'[a].op = "create" /\ call'[a].id = nextIdea /\ nextIdea \in IdeaIds
           /\ nextIdea' = nextIdea + 1 /\ ideas' = ideas
           /\ call'[a].parents \in SUBSET IdeaIds /\ Cardinality(call'[a].parents) <= 2
           /\ call'[a].at \in {"branch", "stash"}
           /\ call'[a].at = "stash" => ~(Cardinality(call'[a].parents) < 2)
<1>1. PICK parents \in SUBSET IdeaIds :
        /\ Cardinality(parents) <= 2
        /\ Calls(a, [NoCall EXCEPT !.op = "create", !.id = nextIdea, !.parents = parents,
                        !.from = head[a],
                        !.at = IF Cardinality(parents) < 2 THEN "branch" ELSE "stash"])
  BY DEF CreateIdea
<1>2. call'[a] = [NoCall EXCEPT !.op = "create", !.id = nextIdea, !.parents = parents,
                        !.from = head[a],
                        !.at = IF Cardinality(parents) < 2 THEN "branch" ELSE "stash"]
  BY <1>1 DEF Calls, WorkTypeOK
<1>3. /\ call'[a].op = "create" /\ call'[a].id = nextIdea /\ call'[a].parents = parents
      /\ call'[a].at = IF Cardinality(parents) < 2 THEN "branch" ELSE "stash"
  BY <1>2 DEF NoCall
<1>4. nextIdea \in IdeaIds
  BY WorkspacesAssumption DEF CreateIdea, WorkTypeOK, IdeaIds
<1>5. nextIdea' = nextIdea + 1 /\ ideas' = ideas
  BY <1>1 DEF CreateIdea, Calls
<1>6. call'[a].at \in {"branch", "stash"} /\ (call'[a].at = "stash" => ~(Cardinality(parents) < 2))
  BY <1>3
<1> QED
  BY <1>1, <1>3, <1>4, <1>5, <1>6

\* The other calls are about an idea that is there.
LEMMA OtherCallIs ==
    ASSUME WorkTypeOK, NEW a \in Agents, Begins(a), ~CreateIdea(a)
    PROVE  /\ call'[a].op \in {"adopt", "checkout", "status", "reparent"}
           /\ call'[a].id \in IdeaIds /\ ideas[call'[a].id].status # "none"
           /\ call'[a].at \in {"save", "branch", "stash"} => call'[a].op = "adopt"
           /\ call'[a].at \notin {"idle", "switch", "first parent", "new branch", "merge", "pop", "commit"}
           /\ call'[a].at = "save" => Exists(call'[a].id)
           /\ call'[a].at = "stash" => ~(Cardinality(call'[a].parents) < 2)
           /\ call'[a].at = "status" => call'[a].op = "status" /\ call'[a].seen # "none"
           /\ UNCHANGED <<nextIdea, ideas>> /\ tip' = tip
<1> USE DEF WorkTypeOK
<1>1. CASE CheckoutIdea(a)
  <2>1. PICK i \in IdeaIds :
           /\ ideas[i].status # "none"
           /\ Calls(a, [NoCall EXCEPT !.op = "checkout", !.id = i, !.at = "commit first"])
    BY <1>1 DEF CheckoutIdea
  <2>2. UNCHANGED <<nextIdea, ideas>> /\ tip' = tip
    BY <1>1, <2>1 DEF CheckoutIdea, Calls, GitSame
  <2>3. call'[a].op = "checkout" /\ call'[a].id = i /\ call'[a].at = "commit first"
    BY <2>1 DEF Calls, NoCall
  <2> QED
    BY <2>1, <2>2, <2>3
<1>2. CASE AdoptIdea(a)
  <2>1. PICK i \in IdeaIds :
          /\ ideas[i].status = "suggested"
          /\ Calls(a, [NoCall EXCEPT !.op = "adopt", !.id = i, !.parents = ideas[i].parents,
                          !.from = head[a],
                          !.at = IF Exists(i) THEN "save"
                                 ELSE IF Cardinality(ideas[i].parents) < 2 THEN "branch"
                                 ELSE "stash"])
    BY <1>2 DEF AdoptIdea
  <2>2. UNCHANGED <<nextIdea, ideas>> /\ tip' = tip
    BY <1>2, <2>1 DEF AdoptIdea, Calls, GitSame
  <2>3. /\ call'[a].op = "adopt" /\ call'[a].id = i /\ call'[a].parents = ideas[i].parents
        /\ call'[a].at = IF Exists(i) THEN "save"
                         ELSE IF Cardinality(ideas[i].parents) < 2 THEN "branch" ELSE "stash"
    BY <2>1 DEF Calls, NoCall
  <2>4. /\ call'[a].at \in {"save", "branch", "stash"}
        /\ call'[a].at = "save" => Exists(i)
        /\ call'[a].at = "stash" => ~(Cardinality(ideas[i].parents) < 2)
    BY <2>3
  <2> QED
    BY <2>1, <2>2, <2>3, <2>4
<1>3. CASE AsksStatus(a)
  <2>1. PICK i \in IdeaIds, status \in {"concluded", "abandoned", "active"} :
           /\ ideas[i].status \in From(status)
           /\ Calls(a, [NoCall EXCEPT !.op = "status", !.at = "status", !.id = i, !.seen = status])
    BY <1>3 DEF AsksStatus
  <2>2. UNCHANGED <<nextIdea, ideas>> /\ tip' = tip
    BY <1>3, <2>1 DEF AsksStatus, Calls, GitSame
  <2>3. /\ call'[a].op = "status" /\ call'[a].id = i /\ call'[a].at = "status"
        /\ call'[a].seen = status
    BY <2>1 DEF Calls, NoCall
  <2>4. ideas[i].status # "none"
    BY <2>1 DEF From
  <2> QED
    BY <2>1, <2>2, <2>3, <2>4
<1>4. CASE ReparentIdea(a)
  <2>1. PICK i \in IdeaIds, parents \in SUBSET IdeaIds, stage \in {"rebase", "parents"} :
           /\ ideas[i].status # "none"
           /\ Calls(a, [NoCall EXCEPT !.op = "reparent", !.id = i, !.parents = parents, !.at = stage])
    BY <1>4 DEF ReparentIdea
  <2>2. UNCHANGED <<nextIdea, ideas>> /\ tip' = tip
    BY <1>4, <2>1 DEF ReparentIdea, Calls, GitSame
  <2>3. call'[a].op = "reparent" /\ call'[a].id = i /\ call'[a].at = stage
    BY <2>1 DEF Calls, NoCall
  <2> QED
    BY <2>1, <2>2, <2>3
<1> QED
  BY <1>1, <1>2, <1>3, <1>4 DEF Begins

\* Calls get only where their kind does.
LEMMA CallsMatchAfter ==
    ASSUME WorkTypeOK, CallsMatch, NEW a \in Agents, WorkStep(a)
    PROVE  CallsMatch'
<1>1. \A x \in Agents \ {a} : call'[x] = call[x]
  BY OthersStand
<1> DEFINE Match(c) ==
      /\ c.op = "none" <=> c.at = "idle"
      /\ c.at \in {"branch", "save", "stash", "switch", "first parent", "new branch", "merge",
                   "pop", "commit"} => c.op \in {"create", "adopt"}
      /\ c.at = "status" => c.op = "status" /\ c.seen # "none"
      /\ c.op = "create" => Cardinality(c.parents) <= 2
<1>2. \A x \in Agents : Match(call[x])
  BY DEF CallsMatch, Creating
<1>3. Match(call'[a])
  <2>1. CASE call'[a] = call[a]
    BY <1>2, <2>1
  <2>2. CASE call'[a] = NoCall
    <3>1. call'[a].op = "none" /\ call'[a].at = "idle"
      BY <2>2 DEF NoCall
    <3> QED
      BY <3>1
  <2>3. CASE CreateIdea(a)
    <3>1. call'[a].op = "create" /\ call'[a].at \in {"branch", "stash"} /\ Cardinality(call'[a].parents) <= 2
      BY <2>3, CreationIs
    <3> QED
      BY <3>1
  <2>4. CASE Begins(a) /\ ~CreateIdea(a)
    BY <2>4, OtherCallIs
  <2>5. CASE GoesOnwards(a)
    <3>1. Match(call[a])
      BY <1>2
    <3> QED
      BY <2>5, <3>1 DEF GoesOnwards, Onwards
  <2> QED
    BY <2>1, <2>2, <2>3, <2>4, <2>5, StageAfter
<1>4. \A x \in Agents : Match(call'[x])
  BY <1>1, <1>2, <1>3
<1> QED
  BY <1>4 DEF CallsMatch, Creating

\* A call gets to saving an idea by making the branch, or by merging.
LEMMA SaveNext ==
    ASSUME WorkTypeOK, CallsNamed, SavesReady, NEW a \in Agents, WorkStep(a), GoesOnwards(a), call'[a].at = "save"
    PROVE  \/ MakeBranch(a) /\ call[a].at = "branch" /\ Exists(call[a].id)'
           \/ call[a].at = "merge" /\ Merges(a)
           \/ call[a].at \in {"pop", "commit"} /\ Merges(a)
<1> USE DEF WorkTypeOK
<1>0. call[a].at \in {"branch", "merge", "pop", "commit"} /\ call'[a] # NoCall
  BY DEF GoesOnwards, Onwards, NoCall
<1>1. ~Ends(a)
  BY <1>0, EndsTyped
<1>2. CASE call[a].at = "branch"
  <2>1. MakeBranch(a)
    BY <1>2, WhichStep
  <2>2. PICK from : /\ tip' = [tip EXCEPT ![call[a].id] = tip[from]]
                    /\ tip[from] # NoBranch
    BY <1>1, <2>1 DEF MakeBranch, Fails, Exists
  <2>3. Exists(call[a].id)'
    <3>1. call'[a].id = call[a].id /\ call[a].id \in IdeaIds
      BY <1>2 DEF GoesOnwards, CallsNamed
    <3>2. tip'[call[a].id] = tip[from]
      BY <2>2, <3>1 DEF Branches
    <3> QED
      BY <2>2, <3>1, <3>2 DEF Exists, NoBranch
  <2> QED
    BY <1>2, <2>1, <2>3
<1>3. CASE call[a].at = "merge"
  BY <1>3 DEF SavesReady
<1>4. CASE call[a].at \in {"pop", "commit"}
  <2>1. ~Goes(a, "commit")
    <3>1. "commit" \in CallStages
      BY DEF CallStages
    <3> QED
      BY <3>1, GoesTyped
  <2>2. AfterCarry(a)
    BY <1>1, <1>4, <2>1, WhichStep DEF PopWork, CommitWork
  <2> QED
    BY <1>1, <1>4, <2>2 DEF AfterCarry, Merges
<1> QED
  BY <1>0, <1>2, <1>3, <1>4

\* What happens to the ideas.
LEMMA StoreAfter ==
    ASSUME NEW a \in Agents, WorkStep(a)
    PROVE  \/ UNCHANGED <<nextIdea, ideas>>
           \/ CreateIdea(a) \/ SuggestIdea(a) \/ SaveIdea(a) \/ SetsStatus(a) \/ SetsParents(a)
           \/ Ends(a) /\ Release(a) /\ UNCHANGED ideas
BY DEF WorkStep, Works, Commits, MakeBranch, StashWork, SwitchCarrying, SwitchToParent, SwitchToNew,
       MergeParents, SwitchBack, DropBranch, PopWork, CommitWork, CheckoutIdea, AdoptIdea, CommitFirst,
       SwitchFirst, StashRest, SwitchAgain, AsksStatus, ReparentIdea, Rebase, MoveBranch,
       StoreSame, GoesOn, Fails, Calls

FreshInv ==
    WorkTypeOK /\ CallsNamed /\ CallsMatch /\ IdsFresh /\ SavesReady

\* When no id is taken or given back and no idea comes or goes.
LEMMA FreshStays ==
    ASSUME FreshInv, NEW a \in Agents, WorkStep(a), ~Begins(a), nextIdea' = nextIdea,
           \A i \in IdeaIds : ideas'[i].status = "none" <=> ideas[i].status = "none"
    PROVE  IdsFresh'
<1>0. WorkTypeOK /\ IdsFresh /\ SavesReady /\ CallsNamed
  BY DEF FreshInv
<1>1. \A x \in Agents \ {a} : call'[x] = call[x]
  BY <1>0, OthersStand
<1>2. call'[a].op \in {"create", "adopt", "checkout", "status", "reparent"} =>
         /\ call'[a].op = call[a].op /\ call'[a].id = call[a].id
         /\ Unsaved(a)' => Unsaved(a)
  <2>1. CASE call'[a] = call[a]
    BY <2>1 DEF Unsaved, Creating
  <2>2. CASE call'[a] = NoCall
    BY <2>2 DEF NoCall
  <2>3. CASE GoesOnwards(a)
    <3>1. /\ call'[a].op = call[a].op /\ call'[a].id = call[a].id /\ call'[a].parents = call[a].parents
          /\ call'[a].at # "branch"
      BY <2>3 DEF GoesOnwards, Onwards
    <3>2. call'[a].at = "save" => call[a].at = "branch" \/ Merges(a)
      BY <1>0, <2>3, SaveNext
    <3> QED
      BY <3>1, <3>2 DEF Unsaved, Creating, Merges
  <2> QED
    BY <1>0, <2>1, <2>2, <2>3, StageAfter
<1>3. \A x \in Agents : call'[x].op \in {"create", "adopt", "checkout", "status", "reparent"} =>
         /\ call'[x].op = call[x].op /\ call'[x].id = call[x].id
         /\ Unsaved(x)' => Unsaved(x)
  BY <1>1, <1>2 DEF Unsaved, Creating
<1>4. \A x \in Agents : /\ Creating(x)' => Creating(x) /\ call'[x].id = call[x].id
                        /\ Unsaved(x)' => Unsaved(x) /\ call'[x].id = call[x].id
  BY <1>3 DEF Creating, Unsaved
<1>5. \A x \in Agents : call[x].op # "none" => call[x].id \in IdeaIds
  BY DEF FreshInv, CallsNamed, CallsMatch
<1>6. \A i \in IdeaIds : nextIdea' <= i => ideas'[i].status = "none"
  BY <1>0 DEF IdsFresh
<1>7. \A x \in Agents : Creating(x)' => call'[x].id < nextIdea'
  BY <1>0, <1>4 DEF IdsFresh
<1>8. \A x, y \in Agents : Creating(x)' /\ Creating(y)' /\ x # y => call'[x].id # call'[y].id
  BY <1>0, <1>4 DEF IdsFresh
<1>9. \A x \in Agents : Unsaved(x)' => ideas'[call'[x].id].status = "none"
  BY <1>0, <1>4, <1>5 DEF IdsFresh, Unsaved, Creating
<1>10. \A x \in Agents : call'[x].op \in {"adopt", "checkout", "status", "reparent"} =>
          ideas'[call'[x].id].status # "none"
  BY <1>0, <1>3, <1>5 DEF IdsFresh
<1> QED
  BY <1>6, <1>7, <1>8, <1>9, <1>10 DEF IdsFresh

\* A creation: its id is above those of the others.
LEMMA CreateFresh ==
    ASSUME FreshInv, NEW a \in Agents, CreateIdea(a)
    PROVE  IdsFresh'
<1>0. WorkTypeOK /\ IdsFresh /\ WorkStep(a)
  BY DEF FreshInv, WorkStep
<1>1. \A x \in Agents \ {a} : call'[x] = call[x]
  BY <1>0, OthersStand
<1>2. /\ call'[a].op = "create" /\ call'[a].id = nextIdea /\ nextIdea \in IdeaIds
      /\ nextIdea' = nextIdea + 1 /\ ideas' = ideas
  BY <1>0, CreationIs
<1>3. nextIdea \in Int /\ \A i \in IdeaIds : i \in Int
  BY <1>2, WorkspacesAssumption DEF IdeaIds
<1>4. \A x \in Agents \ {a} : Creating(x)' => Creating(x) /\ call'[x].id < nextIdea /\ call'[x].id \in Int
  <2>1. \A x \in Agents : Creating(x) => call[x].id \in IdeaIds
    BY DEF FreshInv, CallsNamed, CallsMatch, Creating
  <2> QED
    BY <1>0, <1>1, <1>3, <2>1 DEF IdsFresh, Creating
<1>5. \A i \in IdeaIds : nextIdea' <= i => ideas'[i].status = "none"
  BY <1>0, <1>2, <1>3 DEF IdsFresh
<1>6. \A x \in Agents : Creating(x)' => call'[x].id < nextIdea'
  BY <1>2, <1>3, <1>4
<1>7. \A x \in Agents \ {a} : Creating(x)' => call'[x].id # nextIdea
  BY <1>3, <1>4
<1>8. \A x, y \in Agents : Creating(x)' /\ Creating(y)' /\ x # y => call'[x].id # call'[y].id
  BY <1>0, <1>1, <1>2, <1>4, <1>7 DEF IdsFresh
<1>9. \A x \in Agents : Unsaved(x)' => ideas'[call'[x].id].status = "none"
  <2>1. ideas[nextIdea].status = "none"
    BY <1>0, <1>2, <1>3 DEF IdsFresh
  <2> QED
    BY <1>0, <1>1, <1>2, <2>1 DEF IdsFresh, Unsaved, Creating
<1>10. \A x \in Agents : call'[x].op \in {"adopt", "checkout", "status", "reparent"} =>
          ideas'[call'[x].id].status # "none"
  BY <1>0, <1>1, <1>2 DEF IdsFresh
<1> QED
  BY <1>5, <1>6, <1>8, <1>9, <1>10 DEF IdsFresh

\* Another call: its idea is there already, so it is nobody's new one.
LEMMA BeginFresh ==
    ASSUME FreshInv, NEW a \in Agents, Begins(a), ~CreateIdea(a)
    PROVE  IdsFresh'
<1>0. WorkTypeOK /\ IdsFresh /\ WorkStep(a)
  BY DEF FreshInv, WorkStep, Begins
<1>1. \A x \in Agents \ {a} : call'[x] = call[x]
  BY <1>0, OthersStand
<1>2. /\ call'[a].op \in {"adopt", "checkout", "status", "reparent"}
      /\ ideas[call'[a].id].status # "none" /\ UNCHANGED <<nextIdea, ideas>>
  BY <1>0, OtherCallIs
<1> QED
  BY <1>0, <1>1, <1>2 DEF IdsFresh, Creating, Unsaved

\* An id is given back only when it was the last, so that nobody else can have it.
LEMMA ReleaseFresh ==
    ASSUME FreshInv, NEW a \in Agents, WorkStep(a), Ends(a), Release(a), UNCHANGED ideas
    PROVE  IdsFresh'
<1>0. WorkTypeOK /\ IdsFresh
  BY DEF FreshInv
<1>1. \A x \in Agents \ {a} : call'[x] = call[x]
  BY <1>0, OthersStand
<1>2. call'[a].op = "none"
  <2>1. call'[a] = NoCall
    BY <1>0, EndsTyped DEF WorkTypeOK
  <2> QED
    BY <2>1 DEF NoCall
<1>3. \A x \in Agents : Creating(x) => call[x].id \in IdeaIds
  BY DEF FreshInv, CallsNamed, CallsMatch, Creating
<1>4. nextIdea \in Int /\ \A i \in IdeaIds : i \in Int
  BY <1>0, WorkspacesAssumption DEF WorkTypeOK, IdeaIds
<1>5. CASE nextIdea' = nextIdea
  BY <1>0, <1>1, <1>2, <1>5 DEF IdsFresh, Creating, Unsaved
<1>6. CASE /\ Creating(a) /\ nextIdea = call[a].id + 1 /\ ideas[call[a].id].status = "none"
           /\ nextIdea' = call[a].id
  <2>1. call[a].id \in Int
    BY <1>3, <1>4, <1>6
  <2>2. \A i \in IdeaIds : call[a].id <= i => i = call[a].id \/ nextIdea <= i
    BY <1>4, <1>6, <2>1
  <2>3. \A i \in IdeaIds : nextIdea' <= i => ideas'[i].status = "none"
    BY <1>0, <1>6, <2>2 DEF IdsFresh
  <2>4. \A x \in Agents : Creating(x)' => x # a /\ Creating(x) /\ call'[x].id = call[x].id
    BY <1>1, <1>2 DEF Creating
  <2>5. \A i \in IdeaIds : i < nextIdea /\ i # call[a].id => i < call[a].id
    BY <1>4, <1>6, <2>1
  <2>6. \A x \in Agents : Creating(x)' => call'[x].id < nextIdea'
    BY <1>0, <1>3, <1>6, <2>4, <2>5 DEF IdsFresh
  <2>7. \A x, y \in Agents : Creating(x)' /\ Creating(y)' /\ x # y => call'[x].id # call'[y].id
    BY <1>0, <2>4 DEF IdsFresh
  <2>8. \A x \in Agents : Unsaved(x)' => ideas'[call'[x].id].status = "none"
    BY <1>0, <1>1, <1>2 DEF IdsFresh, Unsaved, Creating
  <2>9. \A x \in Agents : call'[x].op \in {"adopt", "checkout", "status", "reparent"} =>
          ideas'[call'[x].id].status # "none"
    BY <1>0, <1>1, <1>2 DEF IdsFresh
  <2> QED
    BY <2>3, <2>6, <2>7, <2>8, <2>9 DEF IdsFresh
<1> QED
  BY <1>5, <1>6 DEF Release, Creating

\* A suggestion takes the next id, and has saved its idea.
LEMMA SuggestFresh ==
    ASSUME FreshInv, NEW a \in Agents, SuggestIdea(a)
    PROVE  IdsFresh'
<1>0. WorkTypeOK /\ IdsFresh /\ call' = call /\ nextIdea' = nextIdea + 1 /\ nextIdea \in IdeaIds
  BY WorkspacesAssumption DEF FreshInv, SuggestIdea, WorkTypeOK, IdeaIds
<1>1. PICK parents : ideas' = [ideas EXCEPT ![nextIdea] =
                                 [status |-> "suggested", parents |-> parents, branch |-> FALSE]]
  BY DEF SuggestIdea
<1>2. ideas'[nextIdea].status = "suggested" /\ \A i \in IdeaIds \ {nextIdea} : ideas'[i] = ideas[i]
  BY <1>0, <1>1 DEF WorkTypeOK
<1>3. nextIdea \in Int /\ \A i \in IdeaIds : i \in Int
  BY <1>0, WorkspacesAssumption DEF IdeaIds
<1>4. \A x \in Agents : call[x].op # "none" => call[x].id \in IdeaIds
  BY DEF FreshInv, CallsNamed, CallsMatch
<1>5. \A i \in IdeaIds : /\ i < nextIdea => i # nextIdea /\ i < nextIdea + 1
                         /\ nextIdea + 1 <= i => i # nextIdea /\ nextIdea <= i
  BY <1>3
<1>6. \A i \in IdeaIds : nextIdea' <= i => ideas'[i].status = "none"
  BY <1>0, <1>2, <1>5 DEF IdsFresh
<1>7. \A x \in Agents : Creating(x) => call[x].id < nextIdea' /\ call[x].id # nextIdea /\ call[x].id \in IdeaIds
  BY <1>0, <1>4, <1>5 DEF IdsFresh, Creating
<1>8. \A x \in Agents : Unsaved(x) => ideas'[call[x].id].status = "none"
  BY <1>0, <1>2, <1>7 DEF IdsFresh, Unsaved
<1>9. \A x \in Agents : call[x].op \in {"adopt", "checkout", "status", "reparent"} =>
          ideas'[call[x].id].status # "none"
  BY <1>0, <1>2, <1>4 DEF IdsFresh
<1> QED
  BY <1>0, <1>6, <1>7, <1>8, <1>9 DEF IdsFresh, Creating, Unsaved

\* A saved idea is the creation's own, or one that was there.
LEMMA SaveFresh ==
    ASSUME FreshInv, NEW a \in Agents, SaveIdea(a)
    PROVE  IdsFresh'
<1>0. /\ WorkTypeOK /\ IdsFresh /\ WorkStep(a) /\ nextIdea' = nextIdea /\ call[a].at = "save"
      /\ call[a].op \in {"create", "adopt"} /\ call[a].id \in IdeaIds
  BY DEF FreshInv, WorkStep, SaveIdea, CallsMatch, CallsNamed
<1>1. \A x \in Agents \ {a} : call'[x] = call[x]
  BY <1>0, OthersStand
<1>2. ideas'[call[a].id].status = "active" /\ \A i \in IdeaIds \ {call[a].id} : ideas'[i] = ideas[i]
  <2>1. PICK parents : ideas' = [ideas EXCEPT ![call[a].id] =
                                   [status |-> "active", branch |-> TRUE, parents |-> parents]]
    BY DEF SaveIdea
  <2> QED
    BY <1>0, <2>1 DEF WorkTypeOK
<1>3. nextIdea \in Int /\ \A i \in IdeaIds : i \in Int
  BY <1>0, WorkspacesAssumption DEF WorkTypeOK, IdeaIds
<1>4. \A x \in Agents : call[x].op # "none" => call[x].id \in IdeaIds
  BY DEF FreshInv, CallsNamed, CallsMatch
<1>5. ~(nextIdea <= call[a].id)
  <2>1. CASE Creating(a)
    <3>1. call[a].id < nextIdea
      BY <1>0, <2>1 DEF IdsFresh
    <3> QED
      BY <1>0, <1>3, <3>1
  <2>2. CASE call[a].op = "adopt"
    BY <1>0, <2>2 DEF IdsFresh
  <2> QED
    BY <1>0, <2>1, <2>2 DEF Creating
<1>6. /\ call'[a].op \in {"none", call[a].op} /\ (call'[a].op # "none" => call'[a].id = call[a].id)
      /\ ~Unsaved(a)'
  <2>1. CASE Ends(a)
    <3>1. call'[a] = NoCall
      BY <1>0, <2>1, EndsTyped DEF WorkTypeOK
    <3> QED
      BY <3>1 DEF NoCall, Unsaved, Creating
  <2>2. CASE /\ Goes(a, IF call[a].op = "adopt" THEN "commit first" ELSE "stash")
             /\ (call[a].op = "create" => Cardinality(call[a].parents) < 2)
    <3>1. {"commit first", "stash"} \subseteq CallStages
      BY DEF CallStages
    <3>2. /\ call'[a].op = call[a].op /\ call'[a].id = call[a].id /\ call'[a].parents = call[a].parents
          /\ call'[a].at \in {"commit first", "stash"}
      BY <1>0, <2>2, <3>1, GoesTyped DEF WorkTypeOK
    <3>3. Creating(a)' => Cardinality(call'[a].parents) # 2
      <4>1. call[a].parents \in SUBSET IdeaIds
        BY <1>0 DEF WorkTypeOK, CallRecord
      <4>2. Cardinality(call[a].parents) \in Nat
        BY <4>1, CountIsNat
      <4>3. call'[a].op = "create" => Cardinality(call[a].parents) < 2
        BY <2>2, <3>2
      <4>4. call'[a].op = "create" => Cardinality(call[a].parents) # 2
        BY <4>2, <4>3
      <4> QED
        BY <3>2, <4>4 DEF Creating
    <3> QED
      BY <3>2, <3>3 DEF Unsaved
  <2> QED
    BY <2>1, <2>2 DEF SaveIdea
<1>7. \A i \in IdeaIds : nextIdea' <= i => ideas'[i].status = "none"
  BY <1>0, <1>2, <1>5 DEF IdsFresh
<1>8. \A x \in Agents : Creating(x)' => Creating(x) /\ call'[x].id = call[x].id
  BY <1>1, <1>6 DEF Creating
<1>9. \A x \in Agents : Creating(x)' => call'[x].id < nextIdea'
  BY <1>0, <1>8 DEF IdsFresh
<1>10. \A x, y \in Agents : Creating(x)' /\ Creating(y)' /\ x # y => call'[x].id # call'[y].id
  BY <1>0, <1>8 DEF IdsFresh
<1>11. ASSUME NEW x \in Agents, Unsaved(x)' PROVE ideas'[call'[x].id].status = "none"
  <2>1. x # a /\ call'[x] = call[x] /\ Unsaved(x) /\ Creating(x)
    BY <1>1, <1>6, <1>11 DEF Unsaved, Creating
  <2>2. ideas[call[x].id].status = "none" /\ call[x].id \in IdeaIds
    BY <1>0, <1>4, <2>1 DEF IdsFresh, Creating
  <2>3. call[x].id # call[a].id
    <3>1. CASE Creating(a)
      BY <1>0, <2>1, <3>1 DEF IdsFresh
    <3>2. CASE call[a].op = "adopt"
      BY <1>0, <2>2, <3>2 DEF IdsFresh
    <3> QED
      BY <1>0, <3>1, <3>2 DEF Creating
  <2> QED
    BY <1>2, <2>1, <2>2, <2>3
<1>12. \A x \in Agents : call'[x].op \in {"adopt", "checkout", "status", "reparent"} =>
          ideas'[call'[x].id].status # "none"
  <2>1. \A x \in Agents : call'[x].op \in {"adopt", "checkout", "status", "reparent"} =>
            call'[x].op = call[x].op /\ call'[x].id = call[x].id
    BY <1>1, <1>6
  <2> QED
    BY <1>0, <1>2, <1>4, <2>1 DEF IdsFresh
<1> QED
  BY <1>7, <1>9, <1>10, <1>11, <1>12 DEF IdsFresh

\* Every step.
LEMMA IdsStayFresh ==
    ASSUME FreshInv, NEW a \in Agents, WorkStep(a)
    PROVE  IdsFresh'
<1>0. WorkTypeOK /\ IdsFresh /\ CallsNamed /\ CallsMatch
  BY DEF FreshInv
<1>1. CASE CreateIdea(a)
  BY <1>1, CreateFresh
<1>2. CASE Begins(a) /\ ~CreateIdea(a)
  BY <1>2, BeginFresh
<1>3. CASE SaveIdea(a)
  BY <1>3, SaveFresh
<1>4. CASE SuggestIdea(a)
  BY <1>4, SuggestFresh
<1>5. CASE Ends(a) /\ Release(a) /\ UNCHANGED ideas
  BY <1>5, ReleaseFresh
<1>6. CASE SetsStatus(a) /\ ~Begins(a)
  <2>1. /\ ideas' = [ideas EXCEPT ![call[a].id].status = call[a].seen] /\ nextIdea' = nextIdea
        /\ call[a].at = "status"
    BY <1>6 DEF SetsStatus
  <2>2. call[a].id \in IdeaIds /\ call[a].op = "status" /\ call[a].seen # "none"
    BY <1>0, <2>1 DEF CallsNamed, CallsMatch
  <2>3. ideas[call[a].id].status # "none"
    BY <1>0, <2>2 DEF IdsFresh
  <2>4. ideas'[call[a].id].status = call[a].seen /\ \A i \in IdeaIds \ {call[a].id} : ideas'[i] = ideas[i]
    BY <1>0, <2>1, <2>2 DEF WorkTypeOK, IdeaRecord
  <2> QED
    BY <1>6, <2>1, <2>2, <2>3, <2>4, FreshStays
<1>7. CASE SetsParents(a) /\ ~Begins(a)
  <2>1. /\ ideas' = [ideas EXCEPT ![call[a].id].parents = call[a].parents] /\ nextIdea' = nextIdea
    BY <1>7 DEF SetsParents
  <2>2. \A i \in IdeaIds : ideas'[i].status = ideas[i].status
    BY <1>0, <2>1 DEF WorkTypeOK, IdeaRecord
  <2> QED
    BY <1>7, <2>1, <2>2, FreshStays
<1>8. CASE UNCHANGED <<nextIdea, ideas>> /\ ~Begins(a)
  BY <1>8, FreshStays
<1> QED
  BY <1>1, <1>2, <1>3, <1>4, <1>5, <1>6, <1>7, <1>8, StoreAfter

\* What has been undone stays so.
LEMMA UndoneGrows ==
    ASSUME NEW a \in Agents, WorkStep(a)
    PROVE  undone \subseteq undone'
BY DEF WorkStep, Works, Commits, CreateIdea, MakeBranch, SaveIdea, StashWork, SwitchCarrying,
       SwitchToParent, SwitchToNew, MergeParents, SwitchBack, DropBranch, PopWork, CommitWork,
       CheckoutIdea, AdoptIdea, CommitFirst, SwitchFirst, StashRest, SwitchAgain, SuggestIdea,
       AsksStatus, SetsStatus, ReparentIdea, Rebase, MoveBranch, SetsParents, Calls, Counted, SweepsNone

BranchInv ==
    FreshInv /\ HeadsExist /\ MergesApart /\ BranchesThere

\* What the branch of an idea is or was, it still is or was.
LEMMA HadBranch ==
    ASSUME BranchInv, NEW a \in Agents, WorkStep(a), NEW i \in IdeaIds, Exists(i) \/ i \in undone,
           \/ ideas[i].branch
           \/ \E x \in Agents \ {a} : call[x].id = i
           \/ ~DropBranch(a)
    PROVE  Exists(i)' \/ i \in undone'
<1>1. i \in Branches
  BY DEF Branches
<1>2. CASE i \in undone
  BY <1>2, UndoneGrows
<1>3. CASE Exists(i)
  BY <1>1, <1>3, BranchesStay DEF BranchInv, FreshInv
<1> QED
  BY <1>2, <1>3

\* Ideas that say they have a branch have it, or it has been undone.
LEMMA BranchesStayThere ==
    ASSUME BranchInv, NEW a \in Agents, WorkStep(a)
    PROVE  BranchesThere'
<1>0. WorkTypeOK /\ CallsNamed /\ SavesReady /\ BranchesThere /\ nextIdea \in Int
      /\ ideas \in [IdeaIds -> IdeaRecord]
  BY WorkspacesAssumption DEF BranchInv, FreshInv, WorkTypeOK
<1>1. \A i \in IdeaIds : ideas'[i].branch => ideas[i].branch \/ (SaveIdea(a) /\ i = call[a].id)
  <2>1. CASE SaveIdea(a)
    BY <1>0, <2>1 DEF SaveIdea
  <2>2. CASE SuggestIdea(a)
    BY <1>0, <2>2 DEF SuggestIdea
  <2>3. CASE SetsStatus(a)
    BY <1>0, <2>3 DEF SetsStatus, IdeaRecord
  <2>4. CASE SetsParents(a)
    BY <1>0, <2>4 DEF SetsParents, IdeaRecord
  <2>5. CASE ideas' = ideas
    BY <2>5
  <2>6. CreateIdea(a) => ideas' = ideas
    BY DEF CreateIdea, Calls
  <2> QED
    BY <2>1, <2>2, <2>3, <2>4, <2>5, <2>6, StoreAfter
<1>2. ASSUME NEW i \in IdeaIds, ideas[i].branch PROVE Exists(i)' \/ i \in undone'
  BY <1>0, <1>2, HadBranch DEF BranchesThere
<1>3. ASSUME NEW i \in IdeaIds, SaveIdea(a), i = call[a].id PROVE Exists(i)' \/ i \in undone'
  <2>1. call[a].at = "save" /\ ~DropBranch(a)
    BY <1>3 DEF SaveIdea, DropBranch
  <2> QED
    BY <1>0, <1>3, <2>1, HadBranch DEF SavesReady
<1>4. \A i \in IdeaIds : ideas'[i].branch => Exists(i)' \/ i \in undone'
  BY <1>1, <1>2, <1>3
<1> QED
  BY <1>4 DEF BranchesThere

\* A call comes to its save with the branch, or with its branch undone.
LEMMA SavesStayReady ==
    ASSUME BranchInv, NEW a \in Agents, WorkStep(a)
    PROVE  SavesReady'
<1>0. WorkTypeOK /\ CallsNamed /\ CallsMatch /\ SavesReady /\ MergesApart
  BY DEF BranchInv, FreshInv
<1> DEFINE Ready(c) ==
      /\ c.at = "stash" /\ c.op = "adopt" => Cardinality(c.parents) >= 2
      /\ c.at = "switch" => ~(c.op = "adopt" \/ Cardinality(c.parents) = 2)
      /\ c.at \in {"first parent", "new branch", "merge"} => c.op = "adopt" \/ Cardinality(c.parents) = 2
      Saves(c) == c.at = "save" \/ (c.at \in {"pop", "commit"} /\ (c.op = "adopt" \/ Cardinality(c.parents) = 2))
<1>1. \A x \in Agents \ {a} : call'[x] = call[x]
  BY <1>0, OthersStand
<1>2. \A x \in Agents : Ready(call[x]) /\ (Saves(call[x]) => Exists(call[x].id) \/ call[x].id \in undone)
  BY <1>0 DEF SavesReady, Merges
<1>3. \A x \in Agents : Saves(call[x]) => call[x].id \in IdeaIds
  BY <1>0 DEF CallsNamed
<1>4. \A c \in CallRecord : Cardinality(c.parents) \in Nat
  BY CountIsNat DEF CallRecord
<1>5. call[a] \in CallRecord /\ call' \in [Agents -> CallRecord]
  BY <1>0, GitCallTyped DEF BranchInv, WorkTypeOK
<1>6. Cardinality(call[a].parents) \in Nat /\ Cardinality(call'[a].parents) \in Nat
  BY <1>4, <1>5
<1>7. call'[a] = NoCall => call'[a].at = "idle"
  BY DEF NoCall
<1>8. Ready(call'[a])
  <2>1. CASE call'[a] = call[a]
    <3>1. Ready(call[a])
      BY <1>2
    <3> HIDE DEF Ready
    <3> QED
      BY <2>1, <3>1
  <2>2. CASE call'[a] = NoCall
    BY <1>7, <2>2
  <2>3. CASE CreateIdea(a)
    <3>1. call'[a].op = "create" /\ call'[a].at \in {"branch", "stash"}
      BY <1>0, <2>3, CreationIs
    <3> QED
      BY <3>1
  <2>4. CASE Begins(a) /\ ~CreateIdea(a)
    <3>1. /\ call'[a].at \notin {"idle", "switch", "first parent", "new branch", "merge", "pop", "commit"}
          /\ call'[a].at = "stash" => ~(Cardinality(call'[a].parents) < 2)
      BY <1>0, <2>4, OtherCallIs
    <3>2. call'[a].at = "stash" => Cardinality(call'[a].parents) >= 2
      BY <1>6, <3>1
    <3> QED
      BY <3>1, <3>2
  <2>5. CASE GoesOnwards(a)
    <3>1. call'[a].op = call[a].op /\ call'[a].parents = call[a].parents /\ Onwards(call[a].at, call'[a].at)
      BY <2>5 DEF GoesOnwards
    <3>2. CASE call[a].at = "save"
      <4>1. call'[a].at = "stash" => call[a].op # "adopt"
        <5>1. {"commit first", "stash"} \subseteq CallStages
          BY DEF CallStages
        <5>2. SaveIdea(a)
          BY <3>2, WhichStep
        <5>3. Ends(a) => call'[a] = NoCall
          BY <1>0, EndsTyped DEF WorkTypeOK
        <5>4. call[a].op = "adopt" => Goes(a, "commit first") \/ Ends(a)
          BY <5>2 DEF SaveIdea
        <5>5. Goes(a, "commit first") => call'[a].at = "commit first"
          BY <1>0, <5>1, GoesTyped DEF WorkTypeOK
        <5> QED
          BY <1>7, <5>3, <5>4, <5>5
      <4>2. call'[a].at \in {"commit first", "stash"}
        BY <3>1, <3>2 DEF Onwards
      <4> QED
        BY <3>1, <4>1, <4>2
    <3>3. CASE call[a].at = "stash"
      <4>1. call[a].op \in {"create", "adopt"} /\ (call[a].op = "create" => Cardinality(call[a].parents) <= 2)
        BY <1>0, <3>3 DEF CallsMatch, Creating
      <4>2. PICK had \in BOOLEAN :
              call' = [call EXCEPT ![a] = [call[a] EXCEPT !.had = had,
                          !.at = IF Cardinality(call[a].parents) < 2 THEN "switch" ELSE "first parent"]]
        BY <3>3, WhichStep DEF StashWork, Dirty
      <4> DEFINE stage == IF Cardinality(call[a].parents) < 2 THEN "switch" ELSE "first parent"
      <4>3. call'[a] = [call[a] EXCEPT !.had = had, !.at = stage]
        BY <1>0, <4>2 DEF WorkTypeOK
      <4> HIDE DEF stage
      <4>4. call'[a].at = stage
        BY <1>5, <4>3 DEF CallRecord
      <4>5. Ready(call[a])
        BY <1>2
      <4>6. CASE Cardinality(call[a].parents) < 2
        <5>1. call[a].op # "adopt" /\ Cardinality(call[a].parents) # 2
          BY <1>6, <3>3, <4>5, <4>6
        <5> QED
          BY <3>1, <4>4, <4>6, <5>1 DEF stage
      <4>7. CASE ~(Cardinality(call[a].parents) < 2)
        <5>1. call[a].op = "adopt" \/ Cardinality(call[a].parents) = 2
          BY <1>6, <4>1, <4>7
        <5> QED
          BY <3>1, <4>4, <4>7, <5>1 DEF stage
      <4> QED
        BY <4>6, <4>7
    <3>4. CASE call[a].at \in {"first parent", "new branch"}
      <4>1. Ready(call[a])
        BY <1>2
      <4>2. call'[a].at \in {"new branch", "merge"}
        BY <3>1, <3>4 DEF Onwards
      <4> QED
        BY <3>1, <3>4, <4>1, <4>2
    <3>5. CASE call[a].at \notin {"save", "stash", "first parent", "new branch"}
      <4>1. call'[a].at \notin {"stash", "switch", "first parent", "new branch", "merge"}
        BY <3>1, <3>5 DEF Onwards
      <4> QED
        BY <4>1
    <3> QED
      BY <3>2, <3>3, <3>4, <3>5
  <2> QED
    BY <1>0, <2>1, <2>2, <2>3, <2>4, <2>5, StageAfter
<1>9. ASSUME NEW i \in IdeaIds, NEW x \in Agents, i = call'[x].id, Saves(call'[x])
      PROVE  Exists(i)' \/ i \in undone'
  <2>1. CASE x # a
    <3>1. call'[x] = call[x]
      BY <1>1, <2>1
    <3>2. Saves(call[x])
      BY <1>9, <3>1
    <3>3. i = call[x].id /\ (Exists(i) \/ i \in undone)
      BY <1>2, <1>9, <3>1, <3>2
    <3> QED
      BY <2>1, <3>3, HadBranch
  <2>2. CASE x = a /\ call'[a] = call[a]
    <3>1. ~DropBranch(a)
      BY <1>9, <2>2 DEF DropBranch
    <3> QED
      BY <1>2, <1>9, <2>2, <3>1, HadBranch
  <2>3. CASE x = a /\ call'[a] = NoCall
    BY <1>7, <1>9, <2>3
  <2>4. CASE x = a /\ CreateIdea(a)
    <3>1. call'[a].at \in {"branch", "stash"}
      BY <1>0, <2>4, CreationIs
    <3> QED
      BY <1>9, <2>4, <3>1
  <2>5. CASE x = a /\ Begins(a) /\ ~CreateIdea(a)
    <3>1. call'[a].at = "save" /\ Exists(i) /\ tip' = tip
      BY <1>0, <1>9, <2>5, OtherCallIs
    <3> QED
      BY <3>1 DEF Exists, NoBranch
  <2>6. CASE x = a /\ GoesOnwards(a)
    <3>1. call'[a].op = call[a].op /\ call'[a].parents = call[a].parents /\ i = call[a].id
          /\ Onwards(call[a].at, call'[a].at) /\ call'[a].at \in {"save", "pop", "commit"}
      BY <1>9, <2>6 DEF GoesOnwards
    <3>2. CASE MakeBranch(a) /\ call[a].at = "branch" /\ call'[a].at = "save"
      BY <1>0, <1>9, <2>6, <3>2, SaveNext DEF Exists
    <3>3. CASE call[a].at = "merge"
      <4>1. Exists(i) /\ ~DropBranch(a)
        BY <1>0, <3>1, <3>3 DEF MergesApart, Merging, DropBranch
      <4> QED
        BY <4>1, HadBranch
    <3>4. CASE call[a].at \in {"pop", "commit"}
      <4>1. Merges(a)
        <5>1. call'[a].at = "save" => Merges(a)
          BY <1>0, <2>6, <3>4, SaveNext
        <5>2. call'[a].at # "save" => Merges(a)
          BY <1>9, <2>6, <3>1 DEF Merges
        <5> QED
          BY <5>1, <5>2
      <4>2. (Exists(i) \/ i \in undone) /\ ~DropBranch(a)
        BY <1>0, <3>1, <3>4, <4>1 DEF SavesReady, DropBranch
      <4> QED
        BY <4>2, HadBranch
    <3>5. CASE call[a].at = "switch"
      <4>1. Ready(call[a]) /\ call'[a].at = "pop"
        BY <1>2, <3>1, <3>5 DEF Onwards
      <4> QED
        BY <1>9, <2>6, <3>1, <3>5, <4>1
    <3>6. call[a].at \in {"branch", "merge", "pop", "commit", "switch"}
          /\ (call[a].at = "branch" => call'[a].at = "save" /\ MakeBranch(a))
      BY <3>1, WhichStep DEF Onwards
    <3> QED
      BY <3>2, <3>3, <3>4, <3>5, <3>6
  <2> QED
    BY <1>0, <2>1, <2>2, <2>3, <2>4, <2>5, <2>6, StageAfter
<1>10. \A x \in Agents : Saves(call'[x]) => call'[x].id \in IdeaIds
  <2>1. CallsNamed'
    BY MergesSound DEF BranchInv, FreshInv
  <2> QED
    BY <2>1 DEF CallsNamed
<1>11. \A x \in Agents : Ready(call'[x])
  <2> HIDE DEF Ready
  <2> QED
    BY <1>1, <1>2, <1>8
<1>12. ASSUME NEW x \in Agents PROVE Saves(call'[x]) => Exists(call[x].id)' \/ call'[x].id \in undone'
  <2>1. ASSUME Saves(call'[x]) PROVE \E i \in IdeaIds : i = call'[x].id /\ (Exists(i)' \/ i \in undone')
    BY <1>9, <1>10, <2>1
  <2> QED
    BY <2>1 DEF Exists
<1> QED
  BY <1>11, <1>12 DEF SavesReady, Merges

-----------------------------------------------------------------------------
(* The specification.                                                          *)

\* At the start everything is where it should be.
LEMMA WorkInitSound == WorkInit => WorkIInv
<1> SUFFICES ASSUME WorkInit PROVE WorkIInv
  OBVIOUS
<1>1. PICK known \in {1, MaxIdeas} :
        /\ nextIdea = known + 1
        /\ ideas = [i \in IdeaIds |->
                      IF i = 1 THEN [status |-> "active", parents |-> {}, branch |-> TRUE]
                      ELSE IF i <= known
                      THEN [status |-> "suggested", parents |-> 1..(i-1), branch |-> FALSE]
                      ELSE NoIdea]
  BY DEF WorkInit
<1>2. known \in 1..MaxIdeas /\ MaxIdeas \in Nat /\ MaxWork \in Nat /\ MaxCalls \in Nat
  BY WorkspacesAssumption
<1>3. \A i \in IdeaIds : i \in Nat /\ 1 <= i /\ i <= MaxIdeas /\ 1..(i-1) \subseteq IdeaIds
  BY <1>2 DEF IdeaIds
<1>4. \A b \in Branches : tip[b] = IF b \in IdeaIds \ {1} THEN NoBranch ELSE {}
  BY DEF WorkInit
<1>5. \A a \in Agents : call[a] = NoCall /\ head[a] = a /\ tree[a] = {} /\ a \in Branches /\ a \notin IdeaIds
  BY WorkspacesAssumption DEF WorkInit, Branches, IdeaIds
<1>6. \A a \in Agents : call[a].at = "idle" /\ call[a].op = "none"
  BY <1>5 DEF NoCall
<1>7. WorkTypeOK
  <2>1. tip \in [Branches -> (SUBSET Work) \union {NoBranch}] /\ kept \subseteq Work
    BY DEF WorkInit
  <2>2. head \in [Agents -> Branches] /\ tree \in [Agents -> SUBSET Work] /\ stash \in Seq(SUBSET Work)
    BY DEF WorkInit, Branches
  <2>3. nextIdea \in 1..(MaxIdeas + 1)
    BY <1>1, <1>2
  <2>4. ideas \in [IdeaIds -> IdeaRecord]
    <3>1. \A i \in IdeaIds : ideas[i] \in IdeaRecord
      <4>1. [status |-> "active", parents |-> {}, branch |-> TRUE] \in IdeaRecord /\ NoIdea \in IdeaRecord
        BY DEF IdeaRecord, IdeaStates, NoIdea
      <4>2. \A i \in IdeaIds : [status |-> "suggested", parents |-> 1..(i-1), branch |-> FALSE] \in IdeaRecord
        BY <1>3 DEF IdeaRecord, IdeaStates
      <4> QED
        BY <1>1, <4>1, <4>2
    <3> QED
      BY <1>1, <3>1
  <2>5. call \in [Agents -> CallRecord]
    BY NoCallTyped DEF WorkInit
  <2>6. works \in 0..MaxWork /\ calls \in 0..MaxCalls
    BY <1>2 DEF WorkInit
  <2>7. swept \subseteq Work /\ undone \subseteq IdeaIds
    BY DEF WorkInit
  <2> QED
    BY <2>1, <2>2, <2>3, <2>4, <2>5, <2>6, <2>7 DEF WorkTypeOK
<1>8. HeadsApart
  BY <1>5 DEF HeadsApart
<1>9. HeadsExist
  <2>1. {} # NoBranch
    BY DEF NoBranch
  <2> QED
    BY <1>4, <1>5, <2>1 DEF HeadsExist, Exists
<1>10. TipsDurable
  BY <1>4 DEF TipsDurable, Exists
<1>11. HandsDurable /\ MergesApart /\ CallsNamed
  BY <1>6 DEF HandsDurable, MergesApart, Merging, CallsNamed
<1>12. WorkPlaced
  BY DEF WorkPlaced, WorkInit
<1>13. CallsMatch
  BY <1>6 DEF CallsMatch, Creating
<1>14. IdsFresh
  <2>1. \A i \in IdeaIds : nextIdea <= i => ideas[i].status = "none"
    <3>1. \A i \in IdeaIds : nextIdea <= i => i # 1 /\ ~(i <= known)
      BY <1>1, <1>2, <1>3
    <3>2. NoIdea.status = "none"
      BY DEF NoIdea
    <3> QED
      BY <1>1, <3>1, <3>2
  <2> QED
    BY <1>6, <2>1 DEF IdsFresh, Creating, Unsaved
<1>15. SavesReady
  BY <1>6 DEF SavesReady
<1>16. BranchesThere
  <2>1. \A i \in IdeaIds : ideas[i].branch => i = 1
    BY <1>1 DEF NoIdea
  <2>2. tip[1] = {} \/ 1 \notin IdeaIds
    BY <1>4 DEF Branches
  <2>3. {} # NoBranch
    BY DEF NoBranch
  <2> QED
    BY <2>1, <2>2, <2>3 DEF BranchesThere, Exists
<1> QED
  BY <1>7, <1>8, <1>9, <1>10, <1>11, <1>12, <1>13, <1>14, <1>15, <1>16 DEF WorkIInv

\* Every step preserves the invariant.
LEMMA WorkStepSound ==
    ASSUME WorkIInv, NEW a \in Agents, WorkStep(a)
    PROVE  WorkIInv'
<1>1. SafeInv /\ BranchInv /\ FreshInv
  BY DEF WorkIInv, SafeInv, BranchInv, FreshInv
<1>2. WorkTypeOK'
  BY StepTyped DEF WorkIInv
<1>3. HeadsApart' /\ HeadsExist' /\ MergesApart' /\ CallsNamed'
  BY HeadsSound, MergesSound DEF WorkIInv
<1>4. TipsDurable' /\ HandsDurable' /\ WorkPlaced'
  BY <1>1, <1>2, NothingLost
<1>5. CallsMatch' /\ IdsFresh' /\ SavesReady' /\ BranchesThere'
  BY <1>1, CallsMatchAfter, IdsStayFresh, SavesStayReady, BranchesStayThere DEF WorkIInv
<1> QED
  BY <1>2, <1>3, <1>4, <1>5 DEF WorkIInv

\* And so does doing nothing.
LEMMA WorkStutterSound ==
    ASSUME WorkIInv, UNCHANGED workVars
    PROVE  WorkIInv'
<1> USE DEF workVars
<1>1. WorkTypeOK' /\ HeadsApart' /\ HeadsExist' /\ MergesApart' /\ CallsNamed' /\ CallsMatch'
  BY DEF WorkIInv, WorkTypeOK, HeadsApart, HeadsExist, MergesApart, CallsNamed, CallsMatch, Exists,
         Merging, Creating
<1>2. \A w, b : Firm(w, b)' <=> Firm(w, b)
  BY DEF Firm, Merging
<1>3. Durable' = Durable /\ InStash' = InStash
  BY <1>2 DEF Durable, InStash
<1>4. TipsDurable' /\ HandsDurable' /\ WorkPlaced'
  BY <1>3 DEF WorkIInv, TipsDurable, HandsDurable, WorkPlaced, Exists, Merging
<1>5. IdsFresh' /\ SavesReady' /\ BranchesThere'
  BY DEF WorkIInv, IdsFresh, SavesReady, BranchesThere, Exists, Creating, Unsaved, Merges
<1> QED
  BY <1>1, <1>4, <1>5 DEF WorkIInv

\* What the invariant makes of every state: the work is kept, ideas and branches agree.
LEMMA WorkIsKept == WorkIInv => WorkKept
<1> SUFFICES ASSUME WorkIInv, NEW w \in 1..works, w \notin swept
             PROVE  w \in kept \union InStash \union OnBranches \union UNION {tree[a] : a \in Agents}
  BY DEF WorkKept
<1>1. w \in Durable \/ w \in InStash \union UNION {tree[a] : a \in Agents}
  BY DEF WorkIInv, WorkPlaced
<1>2. ASSUME NEW b \in Branches, Firm(w, b) PROVE w \in OnBranches
  <2>1. w \in tip[b]
    BY <1>2 DEF Firm
  <2>2. w \notin NoBranch
    <3>1. works \in Nat
      BY WorkspacesAssumption DEF WorkIInv, WorkTypeOK
    <3>2. w # 0
      BY <3>1
    <3> QED
      BY <3>2 DEF NoBranch
  <2> QED
    BY <2>1, <2>2 DEF OnBranches
<1> QED
  BY <1>1, <1>2 DEF Durable

LEMMA IdeasAreSound == WorkIInv => IdeasSound
<1> SUFFICES ASSUME WorkIInv PROVE IdeasSound
  OBVIOUS
<1>1. \A a \in Agents : Creating(a) /\ call[a].at = "save" => ideas[call[a].id].status = "none"
  BY DEF WorkIInv, IdsFresh, Unsaved
<1> QED
  BY <1>1 DEF WorkIInv, IdsFresh, BranchesThere, IdeasSound

LEMMA WorkNextSound == WorkIInv /\ [WorkNext]_workVars => WorkIInv'
<1>1. ASSUME WorkIInv, [WorkNext]_workVars PROVE WorkIInv'
  BY <1>1, WorkStepSound, WorkStutterSound DEF WorkNext
<1> QED BY <1>1

\* Ideas, branches and worktrees (git_ops.py, routes/ideas.py): whatever calls of
\* whatever agents interleave, no two have one branch checked out, what is on a branch
\* stays reachable, every id is taken once, and a call saves an idea only when its
\* branch is there.
THEOREM WorkspacesCorrect == WorkSpec => []WorkIInv
<1> QED
  BY WorkNextSound, WorkInitSound, PTL DEF WorkSpec

\* No edit gets lost, for any number of agents, ideas, edits and calls.
THEOREM WorkAlwaysKept == WorkSpec => []WorkKept
BY WorkspacesCorrect, WorkIsKept, PTL

\* No two calls save one idea, none overwrites another, and an idea that says it has
\* a branch has it.
THEOREM IdeasAlwaysSound == WorkSpec => []IdeasSound
BY WorkspacesCorrect, IdeasAreSound, PTL
=============================================================================
