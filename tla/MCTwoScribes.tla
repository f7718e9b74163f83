---------------------------- MODULE MCTwoScribes ----------------------------
(* LinkAdapter with three agents of which two take themselves for the scribe.  *)
EXTENDS LinkAdapter

CONSTANT MaxBlindMerges \* bound: merges of agent 2 before a signal of 1 gets through to it

\* Three agents; 2 and 3 committed without hearing of each other.  1 has heard of both
\* and 2 of 3 only, so 1 and 2 both took themselves for the scribe and merged the same
\* fork.  Every entry has reached everyone, neither merge has been broadcast yet.
MergedTwice ==
    /\ entries = <<[author |-> 2, parents |-> {}, diff |-> TRUE, chunked |-> FALSE],
                   [author |-> 3, parents |-> {}, diff |-> TRUE, chunked |-> FALSE],
                   [author |-> 1, parents |-> {1, 2}, diff |-> FALSE, chunked |-> FALSE],
                   [author |-> 2, parents |-> {1, 2}, diff |-> FALSE, chunked |-> FALSE]>>
    /\ held = [a \in Agents |-> 1..4]
    /\ chunks = [a \in Agents |-> {}]
    /\ current = <<3, 4, 2>>
    /\ sent = {<<2, 1>>, <<3, 2>>}
    /\ signals = <<<<{1}, {2}>>, <<{2}>>, <<>>>>
    /\ peers = <<<<0, 1, 2>>, <<0, 0, 2>>, <<0, 0, 0>>>>
    /\ myRevision = <<0, 1, 2>>
    /\ syncState = <<"unknown", "notSynced", "unknown">>
    /\ phase = [a \in Agents |-> "idle"]
    /\ isScribe = <<TRUE, TRUE, FALSE>>
    /\ revisions = [a \in Agents |-> {}]
    /\ stale = 0
    /\ lost = 0
    /\ restarts = 0

Merges == {r \in Revisions : ~entries[r].diff}

\* Signals get through in the end: 2, which is a scribe as long as it has not heard of 1,
\* hears of it before it goes on after MaxBlindMerges merges.  Weak fairness alone would
\* not oblige any of 1's signals to arrive, because 1 moves on with every merge.
HearsOfFirst ==
    phase[2] = "idle" /\ phase'[2] = "synced" /\ peers[2][1] = NoRevision
        => Cardinality({r \in Merges : entries[r].author = 2}) < MaxBlindMerges

\* Three agents are too many for TLC unless only one of them is busy at a time, ...
InTurns == Cardinality({a \in Agents : phase'[a] # "idle"}) <= 1

\* ... a merge reaches the others before anything else happens, ...
ArrivesAtOnce ==
    (\E a \in Agents : held[a] # Revisions) => entries' = entries /\ held' # held

\* ... and signals arrive after the first half of somebody's sync() only.  No other step
\* of these behaviours tells apart when: the peers map is read by StartGossip, merges
\* are no children of a current revision, and a signal that the busy agent's merge would
\* make stale can still arrive before.
HeardBeforeGossip == peers' # peers => \E a \in Agents : phase[a] = "synced"

\* None of the four keeps an agent from going on for ever: turns end, entries arrive,
\* signals of 1 are due again with each of its sync()s, and with MaxEntries above what
\* MergesEnd allows no merge is held up.  So Fairness discards no behaviour for them.
MergedTwiceNext ==
    AdapterNext /\ HearsOfFirst /\ InTurns /\ ArrivesAtOnce /\ HeardBeforeGossip

MergedTwiceSpec == MergedTwice /\ [][MergedTwiceNext]_adapterVars /\ Fairness

-----------------------------------------------------------------------------
(* Properties *)

\* Two scribes do not merge each other's merges for ever: as soon as 2 has heard of 1 it
\* merges no more, and each of its merges costs 1 at most one of its own, with one more
\* for the fork they began with.
MergesEnd == Cardinality(Merges) <= 2 * MaxBlindMerges + 1
=============================================================================
