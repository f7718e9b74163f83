------------------------- MODULE PerspectiveDiffSync -------------------------
(***************************************************************************)
(* The coordinator zome of bootstrap-languages/p-diff-sync: a DAG of       *)
(* PerspectiveDiffEntryReference entries on a DHT, one private             *)
(* current_revision per agent, and the zome calls that move it.            *)
(*                                                                         *)
(* A zome call is one atomic step: its writes reach the source chain       *)
(* together or, when the chain head moved meanwhile, not at all          *)
(* CommitCall takes commit() apart, which may wait for its chunks.         *)
(* pull is called here with any broadcast revision and either value of     *)
(* is_scribe, so whatever holds of this module holds for every schedule of *)
(* the LinkAdapter, which chooses both.                                    *)
(***************************************************************************)
EXTENDS RevisionGraph, FiniteSets

CONSTANTS Agents,     \* the agents of the neighbourhood
          MaxEntries, \* bound: entries created in a behaviour
          MaxChunked  \* bound: commits large enough to be stored as chunks

ASSUME MaxEntriesAssumption == MaxEntries \in Nat
ASSUME MaxChunkedAssumption == MaxChunked \in Nat

VARIABLES
    entries,  \* every entry created, in creation order; its index is its hash
    held,     \* held[a]: the entries a's get() returns
    chunks,   \* chunks[a]: the chunked entries whose chunk entries a's get() returns
    current,  \* current[a]: newest LocalHashReference on a's chain
    sent,     \* <<author, revision>> of every HashBroadcast sent; any of them may
              \* still arrive, again or for the first time, or never
    signals   \* signals[a]: the diffs emitted to a's executor, in order, each the
              \* set of the entries whose additions and removals it concatenates

vars == <<entries, held, chunks, current, sent, signals>>

-----------------------------------------------------------------------------
(* The DAG of diffs *)

NoRevision == 0                  \* current_revision() of an agent without one

Revisions == 1..Len(entries)

Entry == [author: Agents, parents: SUBSET Nat, diff: BOOLEAN, chunked: BOOLEAN]

Parents(r) == entries[r].parents

\* all_ancestors()
AllAncestors(r) == Ancestors(entries, r)

\* The entries among S that carry links: merge entries have an empty diff.
DiffsIn(S) == {r \in S : entries[r].diff}

\* The diffs a perspective at agent a's current revision consists of.
History(a) == DiffsIn(AllAncestors(current[a]))

\* What agent a committed itself.  The executor writes these links to its own
\* store, the link language never emits them.
OwnDiffs(a) == {r \in Revisions : entries[r].diff /\ entries[r].author = a}

Emitted(a) == UNION {signals[a][i] : i \in DOMAIN signals[a]}

\* get() of the current revision: after handle_broadcast moved it to a revision
\* known only from a signal, this may fail until the DHT catches up.
CurrentRetrievable(a) == current[a] \in held[a]

\* load_diff_from_entry(): an inline diff always loads, a chunked one only when
\* its chunk entries are retrievable.
LoadsDiff(a, r) == entries[r].chunked => r \in chunks[a]

-----------------------------------------------------------------------------
(* Zome calls *)

Init ==
    /\ entries = <<>>
    /\ held = [a \in Agents |-> {}]
    /\ chunks = [a \in Agents |-> {}]
    /\ current = [a \in Agents |-> NoRevision]
    /\ sent = {}
    /\ signals = [a \in Agents |-> <<>>]

\* create_entry followed by update_current_revision: both land on a's chain.
CreateAndMoveTo(a, entry) ==
    LET new == Len(entries) + 1
    IN  /\ entries' = Append(entries, entry)
        /\ held' = [held EXCEPT ![a] = @ \cup {new}]
        /\ current' = [current EXCEPT ![a] = new]

\* emit_signal
Emit(a, diffs) == signals' = [signals EXCEPT ![a] = Append(@, diffs)]

EmitIfNonEmpty(a, diffs) == IF diffs = {} THEN UNCHANGED signals ELSE Emit(a, diffs)

\* commit(): a new entry on top of the current revision, which has to be
\* retrievable; the new revision is broadcast in the same call.
Commit(a, chunked) ==
    /\ Len(entries) < MaxEntries
    /\ chunked => Cardinality({r \in Revisions : entries[r].chunked}) < MaxChunked
    /\ current[a] # NoRevision => CurrentRetrievable(a)
    /\ CreateAndMoveTo(a, [author  |-> a,
                           parents |-> {current[a]} \ {NoRevision},
                           diff    |-> TRUE,
                           chunked |-> chunked])
    /\ chunks' = IF chunked THEN [chunks EXCEPT ![a] = @ \cup {Len(entries) + 1}] ELSE chunks
    /\ sent' = sent \cup {<<a, Len(entries) + 1>>}
    /\ UNCHANGED signals

\* mutant: broadcasts also when there is no current revision
BroadcastAnything(a) ==
    /\ sent' = sent \cup {<<a, current[a]>>}
    /\ UNCHANGED <<entries, held, chunks, current, signals>>

\* sync() = broadcast_current(): the signal carries the entry, so it has to be
\* retrievable.
BroadcastCurrent(a) ==
    /\ CurrentRetrievable(a)
    /\ sent' = sent \cup {<<a, current[a]>>}
    /\ UNCHANGED <<entries, held, chunks, current, signals>>

-----------------------------------------------------------------------------
(* handle_broadcast() of a signal from agent b *)

Received(a, b, r) == a # b /\ <<b, r>> \in sent

HasCurrentAsParent(a, r) == current[a] \in Parents(r)  \* mutant: merges count as children
HasRevision(a, r) == current[a] # NoRevision           \* mutant: parents not compared

IsChildOfCurrent(a, r) == current[a] # NoRevision /\ Parents(r) = {current[a]}

\* The broadcast entry is the next one: load its diff, move to it, emit the diff.
FastForwardSignal(a, b, r) ==
    /\ Received(a, b, r)
    /\ IsChildOfCurrent(a, r)
    /\ LoadsDiff(a, r)
    /\ current' = [current EXCEPT ![a] = r]
    /\ Emit(a, {r})
    /\ UNCHANGED <<entries, held, chunks, sent>>

\* Nothing to fast-forward, or the chunks did not load and the call failed.
IgnoreSignal(a, b, r) ==
    /\ Received(a, b, r)
    /\ ~(IsChildOfCurrent(a, r) /\ LoadsDiff(a, r))
    /\ UNCHANGED vars

HandleBroadcast(a, b, r) == FastForwardSignal(a, b, r) \/ IgnoreSignal(a, b, r)

-----------------------------------------------------------------------------
(* pull() of a revision a peer broadcast *)

FastForwardBackwards(a, theirs) == theirs \in AllAncestors(current[a])   \* mutant: swapped
NotAheadOfThem(a, theirs) == theirs \notin AllAncestors(current[a])       \* mutant: forks too

FastForwardPossible(a, theirs) == current[a] \in AllAncestors(theirs)

AheadOf(a, theirs) == theirs \in AllAncestors(current[a])

OursWalkable(a, theirs) == CurrentRetrievable(a)  \* mutant: theirs taken from the signal

\* build_diffs() walks from both revisions to their common ancestors.
Walkable(a, theirs) == theirs \in held[a] /\ CurrentRetrievable(a)

TheirDiffs(a, theirs) == DiffsIn(AllAncestors(theirs))  \* mutant: without seen_diffs

UnseenDiffs(a, theirs) == DiffsIn(AllAncestors(theirs) \ AllAncestors(current[a]))

\* No revision yet: adopt theirs and emit its whole history, squashed.
PullInitial(a, theirs) ==
    /\ current[a] = NoRevision
    /\ theirs \in held[a]
    /\ current' = [current EXCEPT ![a] = theirs]
    /\ Emit(a, DiffsIn(AllAncestors(theirs)))
    /\ UNCHANGED <<entries, held, chunks, sent>>

PullFastForward(a, theirs) ==
    /\ current[a] \notin {NoRevision, theirs}
    /\ Walkable(a, theirs)
    /\ FastForwardPossible(a, theirs)
    /\ current' = [current EXCEPT ![a] = theirs]
    /\ EmitIfNonEmpty(a, UnseenDiffs(a, theirs))
    /\ UNCHANGED <<entries, held, chunks, sent>>

ForkedOrBehind(a, theirs) ==  \* mutant: without the check for being ahead
    current[a] # NoRevision /\ Walkable(a, theirs) /\ ~FastForwardPossible(a, theirs)

Forked(a, theirs) ==
    /\ current[a] # NoRevision
    /\ Walkable(a, theirs)
    /\ ~AheadOf(a, theirs)
    /\ ~FastForwardPossible(a, theirs)

\* merge(): only a scribe joins the two branches; the next sync broadcasts it.
PullMerge(a, theirs) ==
    /\ Len(entries) < MaxEntries
    /\ Forked(a, theirs)
    /\ CreateAndMoveTo(a, [author  |-> a,
                           parents |-> {theirs, current[a]},
                           diff    |-> FALSE,
                           chunked |-> FALSE])
    /\ EmitIfNonEmpty(a, UnseenDiffs(a, theirs))
    /\ UNCHANGED <<chunks, sent>>

\* The early returns: same revision, ahead of them, or forked and not a scribe.
NothingToPull(a, theirs, is_scribe) ==
    \/ current[a] = theirs
    \/ Walkable(a, theirs) /\ AheadOf(a, theirs)
    \/ ~is_scribe /\ Forked(a, theirs)

PullNothing(a, theirs, is_scribe) == NothingToPull(a, theirs, is_scribe) /\ UNCHANGED vars

Pull(a, theirs, is_scribe) ==
    \/ PullInitial(a, theirs)
    \/ PullFastForward(a, theirs)
    \/ is_scribe /\ PullMerge(a, theirs)
    \/ PullNothing(a, theirs, is_scribe)

-----------------------------------------------------------------------------
(* The DHT, as the integrity zome's validate() shapes it *)

\* Chunk entries have no dependencies of their own.
FetchChunks(a, r) ==
    /\ entries[r].chunked
    /\ r \notin chunks[a]
    /\ chunks' = [chunks EXCEPT ![a] = @ \cup {r}]
    /\ UNCHANGED <<entries, held, current, sent, signals>>

\* An entry is not valid, hence not served, before its parents and its chunks are.
Integrate(a, r) ==
    /\ r \notin held[a]
    /\ Parents(r) \subseteq held[a]
    /\ LoadsDiff(a, r)
    /\ held' = [held EXCEPT ![a] = @ \cup {r}]
    /\ UNCHANGED <<entries, chunks, current, sent, signals>>

-----------------------------------------------------------------------------

Next ==
    \E a \in Agents :
        \/ \E chunked \in BOOLEAN : Commit(a, chunked)
        \/ BroadcastCurrent(a)
        \/ \E m \in sent : HandleBroadcast(a, m[1], m[2])
        \/ \E m \in sent, is_scribe \in BOOLEAN : Pull(a, m[2], is_scribe)
        \/ \E r \in Revisions : FetchChunks(a, r) \/ Integrate(a, r)

Spec == Init /\ [][Next]_vars

-----------------------------------------------------------------------------
(* Properties *)

\* The state variables hold what their comments say; parents are older entries.
TypeOK ==
    /\ entries \in Seq(Entry)
    /\ ParentsAreOlder(entries)
    /\ held \in [Agents -> SUBSET Revisions]
    /\ chunks \in [Agents -> SUBSET Revisions]
    /\ current \in [Agents -> Revisions \cup {NoRevision}]
    /\ sent \subseteq Agents \X Revisions
    /\ signals \in [Agents -> Seq(SUBSET Revisions)]

\* The executor of every agent was given exactly the diffs in the history of its
\* current revision, by its own commits and by emitted signals: pull, merge and
\* handle_broadcast move the revision and emit the matching diffs together.
HistoryDelivered ==
    \A a \in Agents : History(a) = Emitted(a) \cup OwnDiffs(a)

\* No diff reaches an executor twice, and none comes back to its author, however
\* often signals are repeated and revisions pulled again (the seen_diffs filter).
NoDiffTwice ==
    \A a \in Agents :
        /\ Emitted(a) \cap OwnDiffs(a) = {}
        /\ \A i, j \in DOMAIN signals[a] : i # j => signals[a][i] \cap signals[a][j] = {}

\* An executor never sees a diff before one that diff was committed on top of.
SignalsInCausalOrder ==
    \A a \in Agents : \A i, j \in DOMAIN signals[a] :
        i < j => \A x \in signals[a][i] : signals[a][j] \cap AllAncestors(x) = {}

\* The revision may run ahead of the DHT, on one path only: an entry of the history
\* that get() does not return yet came in a signal that carried its diff, so the
\* executor has it although render, commit and pull fail until the entry arrives.
UnretrievableWasSignalled ==
    \A a \in Agents : \A r \in AllAncestors(current[a]) \ held[a] :
        \E i \in DOMAIN signals[a] : signals[a][i] = {r}

\* pull() merges forks only: no merge entry joins a revision with its own ancestor.
MergesJoinForks ==
    \A r \in Revisions : \A p, q \in Parents(r) : p # q => p \notin AllAncestors(q)

\* No zome call rewinds a revision: whatever an agent had in its history stays
\* there, its own commits included, whoever merges or fast-forwards.
NeverRewinds ==
    [][\A a \in Agents : AllAncestors(current[a]) \subseteq AllAncestors(current[a])']_vars

CRDT == INSTANCE PerspectiveCRDT WITH
            Diffs    <- 1..MaxEntries,
            known    <- [a \in Agents |-> History(a)],
            versions <- {DiffsIn(AllAncestors(r)) : r \in Revisions}

\* Seen from the executor, the zome is a set of replicas that only ever commit
\* new diffs and join published versions.
ImplementsCRDT == CRDT!Spec
=============================================================================
