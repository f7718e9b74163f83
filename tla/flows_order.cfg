CONSTANTS
    c1 = c1
    c2 = c2
    Clients = {c1, c2}
    state = state
    Predicates = {state}
    Targets = {1, 2, 3}
    StatePredicate = state
    States = 3
    Transitions <- FlowTransitions
    MaxActions = 3
SPECIFICATION FlowSpec
INVARIANTS
    FlowStateAnswers
CHECK_DEADLOCK FALSE
