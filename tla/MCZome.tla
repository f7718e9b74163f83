------------------------------- MODULE MCZome -------------------------------
(* The zome by itself, where a commit() may take its time, and the zome under  *)
(* the stores of the executors.                                                *)
EXTENDS CommitCall, SharedLinks, TLC

CONSTANT MaxCommits  \* bound: entries under the stores that are no merges

VARIABLE part \* what a behaviour is about

zomeVars == <<part, callVars, change, store, tasks>>

ZomeInit ==
    /\ part \in {"zome", "stores"}
    /\ CallInit
    /\ SharedInit

\* A chunked commit counts twice, a commit() under way as an entry.
FewEntries ==
    Len(entries') + Cardinality({r \in DOMAIN entries' : entries'[r].chunked})
        + Cardinality(committing') <= MaxEntries

CommitAtOnce ==
    /\ \E a \in Agents, chunked \in BOOLEAN : Commit(a, chunked)
    /\ UNCHANGED <<committing, initial>>

\* The zome alone: diffs without links will do.
RunZome ==
    /\ part = "zome"
    /\ CallNext \/ CommitAtOnce
    /\ FewEntries
    /\ change' = [r \in DOMAIN entries' |-> NoChange]
    /\ UNCHANGED <<store, tasks>>

FewCommits == Cardinality({r \in DOMAIN entries' : entries'[r].diff}) <= MaxCommits

RunStores ==
    /\ part = "stores"
    /\ SharedNext
    /\ FewCommits
    /\ UNCHANGED <<committing, initial>>

ZomeNext ==
    /\ RunZome \/ RunStores
    /\ UNCHANGED part

ZomeSpec == ZomeInit /\ [][ZomeNext]_zomeVars

\* No definition orders the agents, or the links: they are interchangeable in runs of
\* invariants and step properties.
AgentsAndLinks == Permutations(Agents) \cup Permutations(Links)
=============================================================================
