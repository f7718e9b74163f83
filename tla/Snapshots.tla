------------------------------ MODULE Snapshots ------------------------------
(***************************************************************************)
(* Snapshots of the history: commit() makes one when enough entries have   *)
(* been made since the last (snapshots.rs), and collect_only_from_latest()  *)
(* of workspace.rs, which render() and the pull of a first revision use,    *)
(* takes it for all that is below.  Both walk the DAG from one revision,    *)
(* and a snapshot's link may not be found yet by either.                    *)
(*                                                                         *)
(* A step is one iteration of either loop.                                  *)
(***************************************************************************)
EXTENDS Workspace

CONSTANT SNAPSHOT_INTERVAL

ASSUME IntervalAssumption == SNAPSHOT_INTERVAL \in Nat \ {0}

VARIABLES
    since,      \* since[r]: diffs_since_snapshot of revision r
    snapshots,  \* snapshots[r]: the revisions whose diffs are in r's snapshot, {} if it has none
    walk,       \* the walk under way: "no", "generate", "collect", and "collected" at its end
    latest,     \* where the walk began
    branches,   \* search_position and unseen_parents, or unprocessed_branches
    isUnseen,   \* SearchPosition::is_unseen
    seen,       \* generate: seen.  collect: the keys of entry_map
    covered,    \* snapshot_seen
    collected   \* collect: the revisions whose diffs are in entry_map

walkVars == <<walk, latest, branches, isUnseen, seen, covered, collected>>
snapshotVars == <<workspaceVars, since, snapshots, walkVars>>

NoSnapshot == {}

NotWalking ==
    /\ walk = "no" /\ latest = NotYet /\ branches = <<>> /\ isUnseen = FALSE
    /\ seen = {} /\ covered = {} /\ collected = {}

SnapshotInit ==
    /\ WorkspaceInit
    /\ since = <<>> /\ snapshots = <<>>
    /\ NotWalking

-----------------------------------------------------------------------------

\* commit() counts on from its parent, merge() adds the counts of both.
SinceSnapshot(ps) ==
    LET count == IF ps = <<>> THEN 1 ELSE since[ps[1]] + 1
    IN  IF Len(ps) = 2 THEN count + since[ps[2]]
        ELSE IF count >= SNAPSHOT_INTERVAL THEN 0 ELSE count

StartWalk(kind, r) ==
    /\ walk' = kind
    /\ latest' = r
    /\ branches' = <<r>>
    /\ isUnseen' = FALSE
    /\ seen' = {} /\ covered' = {} /\ collected' = {}

EndWalk ==
    /\ walk' = "no" /\ latest' = NotYet /\ branches' = <<>> /\ isUnseen' = FALSE
    /\ seen' = {} /\ covered' = {} /\ collected' = {}

\* A commit or merge.  The commit that reaches the interval makes a snapshot.
Extend ==
    /\ walk = "no"
    /\ Grow
    /\ since' = Append(since, SinceSnapshot(Last(parents')))
    /\ snapshots' = Append(snapshots, NoSnapshot)
    /\ IF Last(since') = 0 THEN StartWalk("generate", Len(parents')) ELSE UNCHANGED walkVars

Position == Head(branches)

-----------------------------------------------------------------------------
(* generate_snapshot() *)

\* On to the next of unseen_parents, or done: the snapshot holds what was seen, the diffs
\* of which were all loaded.
NextUnseen(nowSeen) ==
    IF Tail(branches) = <<>>
    THEN /\ snapshots' = [snapshots EXCEPT ![latest] = nowSeen]
         /\ EndWalk
    ELSE /\ branches' = Tail(branches)
         /\ isUnseen' = TRUE
         /\ seen' = nowSeen
         /\ UNCHANGED <<snapshots, walk, latest, covered, collected>>

\* mutant: the walk ends with the first snapshot it comes to
EndsAtSnapshot ==
    /\ walk = "generate"
    /\ Position # latest /\ since[Position] = 0
    /\ snapshots' = [snapshots EXCEPT ![latest] = seen \cup snapshots[Position]]
    /\ EndWalk
    /\ UNCHANGED <<workspaceVars, since>>

\* A snapshot below takes the place of all that it includes.
UseSnapshot ==
    /\ walk = "generate"
    /\ Position # latest /\ since[Position] = 0
    /\ NextUnseen(seen \cup snapshots[Position])
    /\ UNCHANGED <<workspaceVars, since>>

\* handle_parents(), also where a snapshot should be and its link is not found.  A parent
\* that was queued and has been seen since is dropped; a first parent that has been seen
\* is gone through again.
VisitParents ==
    /\ walk = "generate"
    /\ LET nowSeen == seen \cup {Position}
       IN  IF (Position \in seen /\ isUnseen) \/ ToSet(parents[Position]) \subseteq nowSeen
           THEN NextUnseen(nowSeen)
           ELSE /\ branches' = <<Head(parents[Position])>> \o Tail(branches) \o Tail(parents[Position])
                /\ isUnseen' = FALSE
                /\ seen' = nowSeen
                /\ UNCHANGED <<snapshots, walk, latest, covered, collected>>
    /\ UNCHANGED <<workspaceVars, since>>

-----------------------------------------------------------------------------
(* collect_only_from_latest() *)

\* render(), or pull() without a revision.  Other entries play no part.
StartCollecting ==
    /\ walk = "no" /\ phase = "growing"
    /\ \E r \in Revisions :
        /\ Ancestors(Graph, r) = Revisions
        /\ StartWalk("collect", r)
    /\ UNCHANGED <<workspaceVars, since, snapshots>>

GoTo(rest) ==
    /\ branches' = rest
    /\ walk' = IF rest = <<>> THEN "collected" ELSE "collect"
    /\ UNCHANGED <<workspaceVars, since, snapshots, latest, isUnseen>>

BeenHere == Position \in seen \ covered

\* A branch that leads to where we have been is closed, unless a snapshot includes it.
CloseKnownBranch ==
    /\ walk = "collect"
    /\ BeenHere
    /\ GoTo(Tail(branches))
    /\ UNCHANGED <<seen, covered, collected>>

\* A snapshot ends its branch like an orphan.
CollectSnapshot ==
    /\ walk = "collect"
    /\ ~BeenHere
    /\ since[Position] = 0
    /\ seen' = seen \cup {Position}
    /\ collected' = collected \cup snapshots[Position]
    /\ covered' = covered \cup snapshots[Position]
    /\ GoTo(Tail(branches))

\* handle_parents(), also where the link of the snapshot is not found.
CollectEntry ==
    /\ walk = "collect"
    /\ ~BeenHere
    /\ seen' = seen \cup {Position}
    /\ collected' = collected \cup {Position}
    /\ LET ps == parents[Position]
       IN  GoTo(IF ps = <<>> THEN Tail(branches) ELSE <<Head(ps)>> \o Tail(branches) \o Tail(ps))
    /\ UNCHANGED covered

SnapshotNext ==
    \/ Extend
    \/ UseSnapshot \/ VisitParents
    \/ StartCollecting \/ CloseKnownBranch \/ CollectSnapshot \/ CollectEntry
    \/ walk = "no" /\ BuildDiffs /\ UNCHANGED <<since, snapshots, walkVars>>

SnapshotSpec == SnapshotInit /\ [][SnapshotNext]_snapshotVars

-----------------------------------------------------------------------------
(* Properties *)

\* What render() shows and a new member is told is the whole history of the revision, and
\* so is every snapshot, in any DAG with any snapshots in it, found or not, although
\* branches that a snapshot covers in part lead around it.
CollectsHistory ==
    /\ walk = "collected" => collected = Ancestors(Graph, latest)
    /\ \A r \in DOMAIN snapshots : snapshots[r] # NoSnapshot => snapshots[r] = Ancestors(Graph, r)
=============================================================================
