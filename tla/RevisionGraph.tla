---------------------------- MODULE RevisionGraph ----------------------------
(***************************************************************************)
(* The DAG that PerspectiveDiffEntryReference entries form.  A graph is a  *)
(* sequence of entries in creation order; an entry's index stands for its  *)
(* hash, and an entry names its parents by their hashes, so parents are    *)
(* always older entries.                                                   *)
(***************************************************************************)
EXTENDS Integers, Sequences

ParentsAreOlder(es) == \A r \in 1..Len(es) : es[r].parents \subseteq 1..(r - 1)

\* A set of revisions that contains the parents of its members.
ParentClosed(es, S) == \A r \in S : es[r].parents \subseteq S

Closures(es, r) == {S \in SUBSET (1..r) : r \in S /\ ParentClosed(es, S)}

\* r, its parents, their parents ...: the least parent-closed set around r.
\* Empty for 0, which stands for no revision.
Ancestors(es, r) == LET closures == Closures(es, r)
                    IN  {x \in 1..r : \A S \in closures : x \in S}
=============================================================================
