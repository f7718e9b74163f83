------------------------------- MODULE MCFlows -------------------------------
(* Small instances of Flows: the flow of the documentation.                    *)
EXTENDS Flows

\* ready, doing, done
FlowTransitions == {<<1, 2>>, <<2, 3>>}
=============================================================================
