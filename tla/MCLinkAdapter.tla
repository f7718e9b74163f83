---------------------------- MODULE MCLinkAdapter ----------------------------
(* Small instances of LinkAdapter.                                             *)
EXTENDS LinkAdapter

\* Chunked commits and restarts in one half of the behaviours, stale signals and silent
\* peers in the other: all four at a time are too many for TLC.  None of them is fair,
\* so leaving them out takes nothing from what Fairness obliges.
OneKindOfFault ==
    /\ AdapterNext
    /\ \/ stale' + lost' = 0
       \/ restarts' = 0 /\ \A r \in DOMAIN entries' : ~entries'[r].chunked
    /\ restarts' + Cardinality({r \in DOMAIN entries' : entries'[r].chunked}) <= 1

OneKindOfFaultSpec == AdapterInit /\ [][OneKindOfFault]_adapterVars /\ Fairness
==============================================================================
