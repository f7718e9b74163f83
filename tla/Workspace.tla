------------------------------ MODULE Workspace ------------------------------
(***************************************************************************)
(* workspace.rs: how pull() finds out what separates the revision it is    *)
(* given (theirs) from its own (ours).  build_diffs() searches breadth     *)
(* first from both until they meet, sorts what it found from the meeting   *)
(* point upwards, and searches again from every parent the sorting came    *)
(* across but the search did not.  The outcome decides whether pull()      *)
(* returns, fast-forwards or merges, and which diffs it emits.             *)
(*                                                                         *)
(* A step is one visit of a branch, one sorting or the final decision.     *)
(***************************************************************************)
EXTENDS RevisionGraph, FiniteSets, SequencesExt

CONSTANT MaxEntries \* bound: entries of the DAG

ASSUME MaxEntriesAssumption == MaxEntries \in Nat

VARIABLES
    parents,   \* parents[r]: the parents of r in the order of the entry
    theirs, ours, \* what build_diffs() was called with
    phase,     \* "growing" the DAG, then "collecting", "sorting", "deciding", "done", "failed"
    search,    \* per side: found_ancestors, bfs_branches, reached_end
    turn,      \* the side whose branches are visited, the next branch and the last
    common,    \* common_ancestors, the last one found by the current search
    diffs,     \* keys of diffs
    backLinks, \* back_links
    sorted,    \* the revisions in sorted_diffs
    sideBranches, \* unexplored_side_branches
    outcome    \* what pull() concludes, once done

workspaceVars == <<parents, theirs, ours, phase, search, turn, common, diffs, backLinks,
          sorted, sideBranches, outcome>>

NULL_NODE == 0
NotYet == -1 \* no common ancestor yet

Revisions == 1..Len(parents)
Nodes == Revisions \cup {NULL_NODE}

Graph == [r \in Revisions |-> [parents |-> ToSet(parents[r])]]

Sides == {"theirs", "ours"}
OtherSide(side) == IF side = "theirs" THEN "ours" ELSE "theirs"

NewSearch(start) == [found |-> <<>>, branches |-> <<start>>, reachedEnd |-> FALSE]

\* Vec::dedup(): drops an element equal to the one before it.
Dedup(s) == LET keep == {i \in DOMAIN s : i = 1 \/ s[i] # s[i - 1]}
            IN  [n \in 1..Cardinality(keep) |->
                    s[CHOOSE i \in keep : Cardinality({j \in keep : j <= i}) = n]]

-----------------------------------------------------------------------------
(* The DAG *)

WorkspaceInit ==
    /\ parents = <<>>
    /\ theirs = NotYet /\ ours = NotYet
    /\ phase = "growing"
    /\ search = [side \in Sides |-> NewSearch(NotYet)]
    /\ turn = [side |-> "theirs", next |-> 1, last |-> 1]
    /\ common = NotYet
    /\ diffs = {}
    /\ backLinks = [n \in 0..MaxEntries |-> {}]
    /\ sorted = {}
    /\ sideBranches = {}
    /\ outcome = [ahead |-> FALSE, fastForward |-> FALSE, unseen |-> {}]

\* Agents commit on top of anything or nothing and merge forks.
Grow ==
    /\ phase = "growing"
    /\ Len(parents) < MaxEntries
    /\ \/ parents' = Append(parents, <<>>)
       \/ \E p \in Revisions : parents' = Append(parents, <<p>>)
       \/ \E p, q \in Revisions :
            /\ p \notin Ancestors(Graph, q) /\ q \notin Ancestors(Graph, p)
            /\ parents' = Append(parents, <<p, q>>)
    /\ UNCHANGED <<theirs, ours, phase, search, turn, common, diffs, backLinks, sorted,
                   sideBranches, outcome>>

-----------------------------------------------------------------------------
(* collect_until_common_ancestor() *)

StartSearch(a, b) ==
    /\ search' = [side \in Sides |-> NewSearch(IF side = "theirs" THEN a ELSE b)]
    /\ turn' = [side |-> "theirs", next |-> 1, last |-> 1]
    /\ common' = NotYet
    /\ phase' = "collecting"

\* pull() of a revision that is not our own.  Other entries play no part.
Pull ==
    /\ phase = "growing"
    /\ \E a, b \in Revisions :
        /\ a # b
        /\ Ancestors(Graph, a) \cup Ancestors(Graph, b) = Revisions
        /\ theirs' = a /\ ours' = b
        /\ StartSearch(a, b)
    /\ UNCHANGED <<parents, diffs, backLinks, sorted, sideBranches, outcome>>

This == search[turn.side]
Other == search[OtherSide(turn.side)]
Current == This.branches[turn.next]

Visiting == phase = "collecting" /\ turn.next <= turn.last
Visited == Current \in ToSet(This.found)
SeenOnOtherSide == Current \in ToSet(Other.found) \cup ToSet(Other.branches)

\* `break`: the other branches of this side wait for the next round.
Break == turn' = [turn EXCEPT !.next = turn.last + 1]

\* We have been here on this side: close the branch.
CloseBranch ==
    /\ Visiting /\ Visited
    /\ search' = [search EXCEPT ![turn.side].branches = RemoveAt(@, turn.next)]
    /\ Break
    /\ UNCHANGED <<parents, theirs, ours, phase, common, diffs, backLinks, sorted,
                   sideBranches, outcome>>

PushNew(s, x) == IF x \in ToSet(s) THEN s ELSE Append(s, x)

\* The searches meet.
Meet ==
    /\ Visiting /\ ~Visited /\ SeenOnOtherSide
    /\ search' = [side \in Sides |-> [search[side] EXCEPT !.found = PushNew(@, Current)]]
    /\ diffs' = diffs \cup ({Current} \ {NULL_NODE})
    /\ common' = Current
    /\ Break
    /\ UNCHANGED <<parents, theirs, ours, phase, backLinks, sorted, sideBranches, outcome>>

\* The children NULL_NODE gets when both sides have come to an end.
Ends == ({Current} \cup (IF Other.found = <<>> THEN {} ELSE {Last(Other.found)})) \ {NULL_NODE}

\* The end of the DAG, or its substitute.  When the other side has reached an end as
\* well there is no common ancestor (terminate_with_null_node): this end and whatever
\* the other side found last become children of NULL_NODE.
ReachEnd ==
    /\ Visiting /\ ~Visited /\ ~SeenOnOtherSide
    /\ Current # NULL_NODE => parents[Current] = <<>>
    /\ LET here == [This EXCEPT !.found = Append(@, Current),
                                !.branches = RemoveAt(@, turn.next),
                                !.reachedEnd = TRUE]
           end(s) == [s EXCEPT !.found = PushNew(@, NULL_NODE)]
           known == diffs \cup ({Current} \ {NULL_NODE})
       IN  IF common = NotYet /\ Other.reachedEnd
           THEN /\ search' = [side \in Sides |-> end(IF side = turn.side THEN here ELSE Other)]
                /\ diffs' = known \cup {NULL_NODE}
                /\ backLinks' = [backLinks EXCEPT ![NULL_NODE] = @ \cup Ends]
                /\ common' = NULL_NODE
           ELSE /\ search' = [search EXCEPT ![turn.side] = here]
                /\ diffs' = known
                /\ UNCHANGED <<backLinks, common>>
    /\ Break
    /\ UNCHANGED <<parents, theirs, ours, phase, sorted, sideBranches, outcome>>

\* The first parent takes the place of the revision; another parent becomes a branch
\* of its own unless this side has found it or the other side has it anywhere.
FollowParents ==
    /\ Visiting /\ ~Visited /\ ~SeenOnOtherSide
    /\ Current # NULL_NODE /\ parents[Current] # <<>>
    /\ LET found == Append(This.found, Current)
           known == ToSet(found) \cup ToSet(Other.branches) \cup ToSet(Other.found)
           more == SetToSeq(ToSet(Tail(parents[Current])) \ known) \* one: entries have two parents
           first == [This.branches EXCEPT ![turn.next] = Head(parents[Current])]
       IN  search' = [search EXCEPT ![turn.side] =
                        [This EXCEPT !.found = found, !.branches = first \o more]]
    /\ diffs' = diffs \cup {Current}
    /\ backLinks' = [n \in DOMAIN backLinks |->
                        IF n \in ToSet(parents[Current]) THEN backLinks[n] \cup {Current}
                                                         ELSE backLinks[n]]
    /\ turn' = [turn EXCEPT !.next = @ + 1]
    /\ UNCHANGED <<parents, theirs, ours, phase, common, sorted, sideBranches, outcome>>

\* The other side's turn, also when a common ancestor is known already; the loop ends
\* after a round of both sides.
NextTurn ==
    /\ phase = "collecting" /\ turn.next > turn.last
    /\ IF turn.side = "ours" /\ common # NotYet
       THEN /\ phase' = "sorting"
            /\ UNCHANGED <<search, turn>>
       ELSE LET side == OtherSide(turn.side)
                branches == Dedup(search[side].branches)
            IN  /\ search' = [search EXCEPT ![side].branches = branches]
                /\ turn' = [side |-> side, next |-> 1, last |-> Len(branches)]
                /\ UNCHANGED phase
    /\ UNCHANGED <<parents, theirs, ours, common, diffs, backLinks, sorted, sideBranches, outcome>>

-----------------------------------------------------------------------------
(* sort_graph() and the rest of build_diffs() *)

\* What back_links lead to from node n: the least set around n that they do not leave.
Linked(n) == {S \in SUBSET Nodes : n \in S /\ \A x \in S : backLinks[x] \subseteq S}

Above(n) == LET linked == Linked(n)
            IN  {x \in Nodes : \A S \in linked : x \in S}

\* The revisions the back links of S mention: their parents should all be in S.
Mentioned(S) == UNION {ToSet(parents[child]) : child \in UNION {backLinks[n] : n \in S}}

MentionedParents(S) == Mentioned(S) \* mutant: without dropping the sorted ones

\* unexplored_side_branches: they have to be searched as well.
SideBranches(S) == Mentioned(S) \ S

Sort ==
    /\ phase = "sorting"
    /\ sorted' = Above(common)
    /\ sideBranches' = SideBranches(sorted')
    /\ phase' = IF ~(sorted' \subseteq diffs) THEN "failed"
                ELSE IF sideBranches' = {} THEN "deciding" ELSE "exploring"
    /\ UNCHANGED <<parents, theirs, ours, search, turn, common, diffs, backLinks, outcome>>

\* The next side branch is the one with the largest hash, so any of them.
Explore ==
    /\ phase = "exploring"
    /\ \E branch \in sideBranches : StartSearch(branch, common)
    /\ UNCHANGED <<parents, theirs, ours, diffs, backLinks, sorted, sideBranches, outcome>>

UncutGraph == Graph \* mutant: the first element keeps its parents

\* The graph that build_graph() makes of sorted_diffs, its first element made an orphan.
BuiltGraph == [r \in Revisions |->
                [parents |-> IF r = common THEN {} ELSE ToSet(parents[r])]]

\* mutant: as if seen_diffs were empty
NotOurs(seen) == sorted \ {ours, NULL_NODE}

\* The sorted diffs that are not in seen_diffs.
Unseen(seen) == sorted \ (seen \cup {NULL_NODE})

\* topo_sort fails on a parent that is missing, all_ancestors() on a revision that is.
Decide ==
    /\ phase = "deciding"
    /\ IF /\ {theirs, ours} \subseteq sorted
          /\ ParentClosed(BuiltGraph, sorted \ {NULL_NODE})
       THEN /\ phase' = "done"
            /\ outcome' = LET seen == Ancestors(BuiltGraph, ours)
                          IN  [ahead |-> theirs \in seen,
                               fastForward |-> ours \in Ancestors(BuiltGraph, theirs),
                               unseen |-> Unseen(seen)]
       ELSE phase' = "failed" /\ UNCHANGED outcome
    /\ UNCHANGED <<parents, theirs, ours, search, turn, common, diffs, backLinks, sorted, sideBranches>>

BuildDiffs == \/ Pull
        \/ CloseBranch \/ Meet \/ ReachEnd \/ FollowParents \/ NextTurn
        \/ Sort \/ Explore \/ Decide

WorkspaceNext == Grow \/ BuildDiffs

WorkspaceSpec == WorkspaceInit /\ [][WorkspaceNext]_workspaceVars

-----------------------------------------------------------------------------
(* Properties *)

\* The search comes to the conclusions the definition of ancestors asks for: whether
\* we are ahead, whether we can fast-forward, and exactly the diffs we have not seen.
FindsUnseen ==
    phase = "done" =>
        outcome = [ahead       |-> theirs \in Ancestors(Graph, ours),
                   fastForward |-> ours \in Ancestors(Graph, theirs),
                   unseen      |-> Ancestors(Graph, theirs) \ Ancestors(Graph, ours)]

\* No DAG makes pull() fail.
NeverFails == phase # "failed"

\* The searches from side branches come to an end: each round of sorting reaches revisions
\* that the rounds before it did not, and there are finitely many.
SortsMoreEachRound == [][phase = "sorting" => sorted \subseteq sorted' /\ sorted # sorted']_workspaceVars
=============================================================================
