------------------------- MODULE MCQuerySubscriptions -------------------------
(* Instances of QuerySubscriptions: one in which links change and keepalives   *)
(* are missed twice in all, and one that starts from a reachable state in which*)
(* all clients share a subscription, listen, and have the newest result.       *)
EXTENDS QuerySubscriptions

MaxEvents == 2

FewEvents == changes' + lates' <= MaxEvents

\* No action that fairness is about counts as an event.
FewEventsSpec == Init /\ [][Next /\ FewEvents]_vars /\ Fairness

ListeningInit ==
    /\ store \in Results
    /\ subs = [i \in {1} |-> [last |-> store, late |-> FALSE]]
    /\ client = [c \in Clients |-> [stage |-> "listening", id |-> 1, result |-> store]]
    /\ toWrite = 0 /\ spawned = 0
    /\ trigger = FALSE
    /\ round = "idle"
    /\ futures = <<>>
    /\ timedOut = {}
    /\ updates = {}
    /\ fresh = FALSE /\ owed = {}
    /\ changes = 0 /\ batches = 0 /\ lates = 0

ListeningSpec == ListeningInit /\ [][Next]_vars /\ Fairness
=============================================================================
