------------------------------ MODULE SharedLinks ------------------------------
(***************************************************************************)
(* The links of a neighbourhood from store to store: what executors commit *)
(* goes through the zome (PerspectiveDiffSync) and comes out of it as      *)
(* diffs, each applied to the receiving executor's store by a task of its  *)
(* own.  A mutation and its commit are one step here; CommitQueue is about *)
(* what lies between them.                                                 *)
(***************************************************************************)
EXTENDS PerspectiveDiffSync

CONSTANT Links \* link expressions: same source, predicate and target, other timestamps

VARIABLES
    change,  \* change[r]: the links entry r adds and removes
    store,   \* store[a]: the links in a's SurrealDB
    removed, \* removed[a]: the indices in signals[a] of the diffs a has applied the removals of
    applied  \* applied[a]: and the additions, too

tasks == <<removed, applied>>
sharedVars == <<vars, change, store, tasks>>

NoChange == [additions |-> {}, removals |-> {}]
Change == [additions : SUBSET Links, removals : SUBSET Links]

AdditionsOf(rs) == UNION {change[r].additions : r \in rs}
RemovalsOf(rs) == UNION {change[r].removals : r \in rs}

\* render() at agent a's current revision.
Rendered(a) == AdditionsOf(History(a)) \ RemovalsOf(History(a))

Unapplied(a) == DOMAIN signals[a] \ applied[a]

SharedInit ==
    /\ Init
    /\ change = <<>>
    /\ store = [a \in Agents |-> {}]
    /\ removed = [a \in Agents |-> {}]
    /\ applied = [a \in Agents |-> {}]

-----------------------------------------------------------------------------

SameTriple(l, r) == TRUE \* mutant: matches source, predicate and target only

\* remove_link() of the store matches author and timestamp, too.
Matches(l, r) == l = r

Without(links, removals) == {l \in links : ~\E r \in removals : Matches(l, r)}

\* commit() of the zome with a diff of the executor's.
CommitChange(a, c) ==
    /\ Commit(a, FALSE)
    /\ change' = Append(change, c)

\* A member adds links, removes some it has, or both.
Mutate(a, c) ==
    /\ c # NoChange
    /\ c.additions \cap AdditionsOf(DOMAIN change) = {}
    /\ c.removals \subseteq store[a]
    /\ CommitChange(a, c)
    /\ store' = [store EXCEPT ![a] = Without(@, c.removals) \cup c.additions]
    /\ UNCHANGED tasks

\* ensure_public_links_are_shared(): what the store has and the render has not is committed.
Reshare(a) ==
    /\ store[a] \ Rendered(a) # {}
    /\ CommitChange(a, [additions |-> store[a] \ Rendered(a), removals |-> {}])
    /\ UNCHANGED <<store, tasks>>

\* persist_link_diff(): the removals of a diff first, if there are any, then its additions.
HasRemovals(a, i) == RemovalsOf(signals[a][i]) # {}

PersistRemovals(a, i) ==
    /\ i \in DOMAIN signals[a] \ removed[a]
    /\ HasRemovals(a, i)
    /\ store' = [store EXCEPT ![a] = Without(@, RemovalsOf(signals[a][i]))]
    /\ removed' = [removed EXCEPT ![a] = @ \cup {i}]
    /\ UNCHANGED <<vars, change, applied>>

PersistAdditions(a, i) ==
    /\ i \in DOMAIN signals[a] \ applied[a]
    /\ HasRemovals(a, i) => i \in removed[a]
    /\ store' = [store EXCEPT ![a] = @ \cup AdditionsOf(signals[a][i])]
    /\ applied' = [applied EXCEPT ![a] = @ \cup {i}]
    /\ UNCHANGED <<vars, change, removed>>

\* diff_from_link_language(), a task per diff.  The tasks interleave.
ApplyDiff(a, i) == PersistRemovals(a, i) \/ PersistAdditions(a, i)

\* pull(): a merge entry changes nothing itself.
PullAny(a, r) ==
    /\ \E is_scribe \in BOOLEAN : Pull(a, r, is_scribe)
    /\ change' = IF entries' = entries THEN change ELSE Append(change, NoChange)

Replicate(a) ==
    /\ \/ \E m \in sent : PullAny(a, m[2])
       \/ /\ \/ \E m \in sent : HandleBroadcast(a, m[1], m[2])
             \/ BroadcastCurrent(a)
             \/ \E r \in DOMAIN entries : Integrate(a, r)
          /\ UNCHANGED change
    /\ UNCHANGED <<store, tasks>>

SharedNext ==
    \E a \in Agents :
        \/ \E c \in Change : Mutate(a, c)
        \/ Reshare(a)
        \/ \E i \in DOMAIN signals[a] : ApplyDiff(a, i)
        \/ Replicate(a)

SharedSpec == SharedInit /\ [][SharedNext]_sharedVars

-----------------------------------------------------------------------------
(* Properties *)

SharedTypeOK ==
    /\ change \in Seq(Change) /\ Len(change) = Len(entries)
    /\ store \in [Agents -> SUBSET Links]
    /\ applied \in [Agents -> SUBSET Nat] /\ removed \in [Agents -> SUBSET Nat]
    /\ \A a \in Agents : applied[a] \cup removed[a] \subseteq DOMAIN signals[a]

\* A link that the neighbourhood has is in the store of every member whose revision
\* includes it, or in a diff about to be applied: in whatever order tasks run and diffs
\* are squashed, a removal takes away the one link expression it is about.
NothingMissing ==
    \A a \in Agents :
        Rendered(a) \subseteq store[a] \cup UNION {AdditionsOf(signals[a][i]) : i \in Unapplied(a)}

\* The link language "implements a CRDT algorithm for consistency": members at the same
\* revision that have applied all diffs they were given have the same links.
SameRevisionSameLinks ==
    \A a, b \in Agents :
        current[a] = current[b] /\ Unapplied(a) = {} /\ Unapplied(b) = {} => store[a] = store[b]
=============================================================================
