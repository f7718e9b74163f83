------------------------------- MODULE Flows -------------------------------
(* A Social DNA flow on one expression: startFlow() and runFlowAction() change *)
(* its state by commands that interleave, flowState() asks for one state after *)
(* the other, in whatever order the store returned the flow's states.          *)
EXTENDS LinkCommands

CONSTANTS
    StatePredicate,     \* the predicate of the flow's stateChecks
    States,             \* the number of states
    Transitions,        \* <<from, to>> pairs
    MaxActions          \* bound on the actions run

\* The flow of the documentation: a new state is added before the old one is removed, and
\* no transition leads back.
ASSUME FlowAssumption ==
    /\ States \in Nat \ {0}
    /\ MaxActions \in Nat
    /\ 1..States \subseteq Targets
    /\ StatePredicate \in Predicates
    /\ \A t \in Transitions : t \in (1..States) \X (1..States) /\ t[1] < t[2]

VARIABLES
    furthest,   \* the highest state that has been stored
    asking,     \* per client: flowState() is running
    unchecked,  \* per client: the states flowState() has yet to check
    wasIn,      \* per client: what furthest was when flowState() was called
    actions     \* actions run

flowVars == <<commandVars, furthest, asking, unchecked, wasIn, actions>>

FlowInit ==
    /\ CommandInit
    /\ furthest = 0
    /\ asking = [c \in Clients |-> FALSE]
    /\ unchecked = [c \in Clients |-> {}]
    /\ wasIn = [c \in Clients |-> 0]
    /\ actions = 0

StateLink(action, s) == [action |-> action, predicate |-> StatePredicate, targets |-> {s}]

\* mutant: the old state is removed first
OldStateFirst(t) == <<StateLink("removeLink", t[1]), StateLink("addLink", t[2])>>

TransitionActions(t) == <<StateLink("addLink", t[2]), StateLink("removeLink", t[1])>>

InState(s) == \E l \in links : l.predicate = StatePredicate /\ l.target = s

-----------------------------------------------------------------------------

ExecuteAction(c, cmds) ==
    /\ ~asking[c]
    /\ actions < MaxActions
    /\ actions' = actions + 1
    /\ Request(c, cmds, "direct")
    /\ UNCHANGED <<furthest, asking, unchecked, wasIn>>

\* startFlow() does not ask whether the expression is in the flow already.
StartFlow(c) == ExecuteAction(c, <<StateLink("addLink", 1)>>)

\* runFlowAction() takes the transition of that name: that the expression is in its
\* fromState is neither checked here nor by the executor.
RunFlowAction(c, t) == ExecuteAction(c, TransitionActions(t))

\* flowState(): getFlow() has read the flow.  Its query has no ORDER BY, and the states
\* are kept as they come, not sorted by their values.
AskFlowState(c) ==
    /\ Idle(c)
    /\ ~asking[c]
    /\ asking' = [asking EXCEPT ![c] = TRUE]
    /\ unchecked' = [unchecked EXCEPT ![c] = 1..States]
    /\ wasIn' = [wasIn EXCEPT ![c] = furthest]
    /\ UNCHANGED <<commandVars, furthest, actions>>

\* One query per state, each awaited: the first that finds a link is the answer.
CheckState(c, s) ==
    /\ asking[c]
    /\ s \in unchecked[c]
    /\ asking' = [asking EXCEPT ![c] = ~InState(s)]
    /\ unchecked' = [unchecked EXCEPT ![c] = IF InState(s) THEN {} ELSE @ \ {s}]
    /\ UNCHANGED <<commandVars, furthest, wasIn, actions>>

FoundNone(c) == asking[c] /\ unchecked[c] = {}

\* "Expression is not in any state of flow"
NotInFlow(c) ==
    /\ FoundNone(c)
    /\ asking' = [asking EXCEPT ![c] = FALSE]
    /\ UNCHANGED <<commandVars, furthest, unchecked, wasIn, actions>>

StoreState(c, pair) ==
    /\ AddLink(c, pair)
    /\ furthest' = IF pair[2] > furthest THEN pair[2] ELSE furthest
    /\ UNCHANGED <<asking, unchecked, wasIn, actions>>

RunCommands(c) ==
    /\ Execute(c) \/ RequestDone(c)
    /\ UNCHANGED <<furthest, asking, unchecked, wasIn, actions>>

FlowNext ==
    \E c \in Clients :
        \/ StartFlow(c)
        \/ \E t \in Transitions : RunFlowAction(c, t)
        \/ AskFlowState(c)
        \/ \E s \in unchecked[c] : CheckState(c, s)
        \/ NotInFlow(c)
        \/ \E pair \in additions[c] : StoreState(c, pair)
        \/ RunCommands(c)

FlowSpec == FlowInit /\ [][FlowNext]_flowVars

-----------------------------------------------------------------------------
(* Properties *)

\* The types of the flow's and its readers' state.
FlowTypeOK ==
    /\ CommandTypeOK
    /\ furthest \in 0..States
    /\ asking \in [Clients -> BOOLEAN]
    /\ unchecked \in [Clients -> SUBSET (1..States)]
    /\ wasIn \in [Clients -> 0..States]
    /\ actions \in 0..MaxActions

\* Whatever actions several clients run at once, also actions that do not apply to the
\* state the expression is in, and whichever of them fail half-way: the furthest state
\* the flow has reached is never lost.
FurthestStateIsKept == furthest > 0 => InState(furthest)

\* flowState() asks state by state, in any order, while actions run: when it reports of
\* an expression that was in the flow that it is in no state, it is because the expression
\* has moved on to a later state since the call.
OnlyMovesAreMissed == \A c \in Clients : FoundNone(c) => wasIn[c] = 0 \/ wasIn[c] < furthest

\* "Get current state of an expression in a flow": an expression that was in the flow when
\* flowState() was called is found in one of its states.
FlowStateAnswers == \A c \in Clients : FoundNone(c) => wasIn[c] = 0
=============================================================================
