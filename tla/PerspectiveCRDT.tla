--------------------------- MODULE PerspectiveCRDT ---------------------------
(***************************************************************************)
(* What the link language p-diff-sync promises to the executor, without    *)
(* entries, signals or a DHT: every agent holds a growing set of diffs,    *)
(* and the only sets it ever holds are joins of published versions.  Two   *)
(* agents that have learned the same versions hold the same diffs, in      *)
(* whatever order they learned them.                                       *)
(***************************************************************************)
CONSTANTS Agents, \* the members of the neighbourhood
          Diffs   \* identities of the diffs they may commit

VARIABLES known,    \* known[a]: the diffs in the perspective as agent a sees it
          versions  \* every version of the perspective any agent ever pointed at

vars == <<known, versions>>

Init == /\ known = [a \in Agents |-> {}]
        /\ versions = {}

\* The agent adds one diff nobody has committed before and publishes the result.
Commit(a, d) ==
    /\ d \notin UNION versions
    /\ known' = [known EXCEPT ![a] = @ \cup {d}]
    /\ versions' = versions \cup {known'[a]}

\* The agent joins its own version with a published one.
Learn(a, v) ==
    /\ v \in versions
    /\ known' = [known EXCEPT ![a] = @ \cup v]
    /\ versions' = versions \cup {known'[a]}

Next == \E a \in Agents : \/ \E d \in Diffs : Commit(a, d)
                          \/ \E v \in versions : Learn(a, v)

Spec == Init /\ [][Next]_vars
=============================================================================
