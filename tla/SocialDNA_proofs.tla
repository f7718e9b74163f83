--------------------------- MODULE SocialDNA_proofs ---------------------------
(* Social DNA, for any number of clients, versions, states and actions: a flow   *)
(* keeps the furthest state it has reached and flowState() misses only moves, a  *)
(* shape or flow found by its name is complete, and a class is added once.       *)
EXTENDS Flows, SocialDNA, TLAPS, SequenceTheorems

-----------------------------------------------------------------------------
(* Flows *)

AddState(s) == StateLink("addLink", s)
RemoveState(s) == StateLink("removeLink", s)

\* What a request still has to carry out.
FlowCommands ==
    {<<>>} \cup {<<AddState(s)>> : s \in 1..States}
           \cup {<<AddState(t[2]), RemoveState(t[1])>> : t \in Transitions}
           \cup {<<RemoveState(s)>> : s \in 1..States}

\* Requests are direct, and their fields fit to where they are.
RequestsOK ==
    \A c \in Clients :
        /\ mode[c] = "direct"
        /\ step[c] \in {"idle", "command", "removing", "found", "adding"}
        /\ commands[c] \in FlowCommands
        /\ step[c] = "idle" => commands[c] = <<>>
        /\ step[c] \in {"removing", "found", "adding"} => commands[c] # <<>>
        /\ step[c] = "adding" => signed[c] \in 1..now
        /\ additions[c] # {} => step[c] = "adding"

\* What a request adds now is its command's; once nothing is left the state is stored.
AddsItsState ==
    \A c \in Clients : step[c] = "adding" =>
        /\ additions[c] \subseteq Additions(Head(commands[c]))
        /\ (Head(commands[c]).action = "addLink" /\ additions[c] = {}) =>
               \A s \in Head(commands[c]).targets : s <= furthest

\* A command that removes comes after the addition of a later state.
RemovesEarlierStates ==
    \A c \in Clients : (commands[c] # <<>> /\ Head(commands[c]).action = "removeLink") =>
        \A s \in Head(commands[c]).targets : s < furthest

\* So the links about to be removed are those of earlier states.
FoundEarlierStates ==
    \A c \in Clients : \A l \in matched[c] \cup removals[c] : l.target \in 1..(furthest - 1)

\* While flowState() is running and the expression has not moved on, the state it is in is
\* still to be checked.
FurthestIsUnchecked ==
    \A c \in Clients :
        /\ wasIn[c] <= furthest
        /\ asking[c] /\ wasIn[c] = furthest /\ furthest > 0 => furthest \in unchecked[c]

FlowInv ==
    /\ FlowTypeOK
    /\ RequestsOK
    /\ AddsItsState
    /\ RemovesEarlierStates
    /\ FoundEarlierStates
    /\ FurthestStateIsKept

-----------------------------------------------------------------------------
(* The commands of a request *)

LEMMA StateCommands ==
    ASSUME NEW s \in 1..States
    PROVE  /\ AddState(s) \in Command /\ RemoveState(s) \in Command
           /\ AddState(s).action = "addLink" /\ AddState(s).targets = {s}
           /\ RemoveState(s).action = "removeLink" /\ RemoveState(s).targets = {s}
           /\ AddState(s).predicate = StatePredicate /\ RemoveState(s).predicate = StatePredicate
BY FlowAssumption DEF AddState, RemoveState, StateLink, Command, Actions

LEMMA OneElement ==
    ASSUME NEW S, NEW x \in S
    PROVE  <<x>> \in Seq(S) /\ Head(<<x>>) = x /\ Tail(<<x>>) = <<>>
<1>1. <<x>> \in Seq(S) /\ <<x>> # <<>> /\ Len(<<x>>) = 1
  OBVIOUS
<1>2. Tail(<<x>>) \in Seq(S) /\ Len(Tail(<<x>>)) = 0
  BY <1>1, HeadTailProperties
<1>3. Tail(<<x>>) = <<>>
  BY <1>2, EmptySeq
<1> QED BY <1>1, <1>3

LEMMA TwoElements ==
    ASSUME NEW S, NEW x \in S, NEW y \in S
    PROVE  <<x, y>> \in Seq(S) /\ Head(<<x, y>>) = x /\ Tail(<<x, y>>) = <<y>>
OBVIOUS

LEMMA CommandsInOrder ==
    ASSUME NEW cmds \in FlowCommands, cmds # <<>>
    PROVE  /\ Head(cmds) \in Command
           /\ Head(cmds).predicate = StatePredicate
           /\ Head(cmds).action \in {"addLink", "removeLink"}
           /\ \E s \in 1..States : Head(cmds).targets = {s}
           /\ Tail(cmds) \in FlowCommands
           /\ Tail(cmds) # <<>> =>
                  /\ Head(cmds).action = "addLink"
                  /\ Head(Tail(cmds)).action = "removeLink"
                  /\ \A s \in Head(cmds).targets, r \in Head(Tail(cmds)).targets : r < s
<1>1. ASSUME NEW s \in 1..States, cmds = <<AddState(s)>> \/ cmds = <<RemoveState(s)>>
      PROVE  /\ Head(cmds) \in {AddState(s), RemoveState(s)}
             /\ Tail(cmds) = <<>>
  <2>1. PICK x \in {AddState(s), RemoveState(s)} : cmds = <<x>>
    BY <1>1
  <2>2. Head(<<x>>) = x /\ Tail(<<x>>) = <<>>
    BY OneElement
  <2> QED BY <2>1, <2>2
<1>2. ASSUME NEW t \in Transitions, cmds = <<AddState(t[2]), RemoveState(t[1])>>
      PROVE  /\ Head(cmds) = AddState(t[2])
             /\ Tail(cmds) = <<RemoveState(t[1])>>
             /\ Head(Tail(cmds)) = RemoveState(t[1])
             /\ t[1] \in 1..States /\ t[2] \in 1..States /\ t[1] < t[2]
  <2>1. t[1] \in 1..States /\ t[2] \in 1..States /\ t[1] < t[2]
    BY FlowAssumption
  <2>2. AddState(t[2]) \in Command /\ RemoveState(t[1]) \in Command
    BY <2>1, StateCommands
  <2>3. Head(cmds) = AddState(t[2]) /\ Tail(cmds) = <<RemoveState(t[1])>>
    BY <1>2, <2>2, TwoElements
  <2>4. Head(<<RemoveState(t[1])>>) = RemoveState(t[1])
    BY <2>2, OneElement
  <2> QED BY <2>1, <2>3, <2>4
<1>3. \/ \E s \in 1..States : cmds = <<AddState(s)>> \/ cmds = <<RemoveState(s)>>
      \/ \E t \in Transitions : cmds = <<AddState(t[2]), RemoveState(t[1])>>
  BY DEF FlowCommands
<1>4. ASSUME NEW s \in 1..States, cmds = <<AddState(s)>> \/ cmds = <<RemoveState(s)>>
      PROVE  /\ Head(cmds) \in Command
             /\ Head(cmds).predicate = StatePredicate
             /\ Head(cmds).action \in {"addLink", "removeLink"}
             /\ Head(cmds).targets = {s}
             /\ Tail(cmds) \in FlowCommands
             /\ Tail(cmds) = <<>>
  BY <1>1, <1>4, StateCommands DEF FlowCommands
<1>5. ASSUME NEW t \in Transitions, cmds = <<AddState(t[2]), RemoveState(t[1])>>
      PROVE  /\ Head(cmds) \in Command
             /\ Head(cmds).predicate = StatePredicate
             /\ Head(cmds).action = "addLink"
             /\ Head(cmds).targets = {t[2]} /\ t[2] \in 1..States
             /\ Tail(cmds) \in FlowCommands
             /\ Head(Tail(cmds)).action = "removeLink"
             /\ Head(Tail(cmds)).targets = {t[1]} /\ t[1] < t[2]
  BY <1>2, <1>5, StateCommands DEF FlowCommands
<1> QED
  <2>1. CASE \E s \in 1..States : cmds = <<AddState(s)>> \/ cmds = <<RemoveState(s)>>
    <3>1. PICK s \in 1..States : cmds = <<AddState(s)>> \/ cmds = <<RemoveState(s)>>
      BY <2>1
    <3> QED BY <3>1, <1>4
  <2>2. CASE \E t \in Transitions : cmds = <<AddState(t[2]), RemoveState(t[1])>>
    <3>1. PICK t \in Transitions : cmds = <<AddState(t[2]), RemoveState(t[1])>>
      BY <2>2
    <3> QED BY <3>1, <1>5
  <2> QED BY <1>3, <2>1, <2>2

LEMMA CommandsAreSequences ==
    ASSUME NEW cmds \in FlowCommands
    PROVE  cmds \in Seq(Command)
<1>1. ASSUME NEW s \in 1..States
      PROVE  <<AddState(s)>> \in Seq(Command) /\ <<RemoveState(s)>> \in Seq(Command)
  BY StateCommands, OneElement
<1>2. ASSUME NEW t \in Transitions
      PROVE  <<AddState(t[2]), RemoveState(t[1])>> \in Seq(Command)
  <2>1. t[1] \in 1..States /\ t[2] \in 1..States
    BY FlowAssumption
  <2>2. AddState(t[2]) \in Command /\ RemoveState(t[1]) \in Command
    BY <2>1, StateCommands
  <2> QED BY <2>2, TwoElements
<1>3. <<>> \in Seq(Command)
  OBVIOUS
<1> QED BY <1>1, <1>2, <1>3 DEF FlowCommands

-----------------------------------------------------------------------------
(* The steps *)

FlowFrame == UNCHANGED <<furthest, asking, unchecked, wasIn, actions>>

Checks(c) == \E s \in unchecked[c] : CheckState(c, s)

\* What a direct request of a client does in one step.
DirectStep(c) ==
    \/ ListLinks(c)
    \/ \E l \in matched[c] : FindLink(c, l)
    \/ LinkNotFound(c)
    \/ DeleteLink(c)
    \/ SignAdditions(c)
    \/ CommandDone(c)
    \/ RequestDone(c)

\* Requests of a flow are never batches.
LEMMA FlowSteps ==
    ASSUME RequestsOK, FlowNext
    PROVE  \E c \in Clients :
               \/ StartFlow(c)
               \/ \E t \in Transitions : RunFlowAction(c, t)
               \/ AskFlowState(c)
               \/ Checks(c)
               \/ NotInFlow(c)
               \/ \E pair \in additions[c] : StoreState(c, pair)
               \/ DirectStep(c) /\ FlowFrame
<1>1. ASSUME NEW c \in Clients, RunCommands(c)
      PROVE  DirectStep(c) /\ FlowFrame
  <2>1. ~NoteAdditions(c) /\ ~CommitBatch(c)
    BY DEF RequestsOK, NoteAdditions, CommitBatch
  <2>2. \A l \in removals[c] : ~RemoveCommitted(c, l)
    BY DEF RequestsOK, RemoveCommitted
  <2> QED BY <1>1, <2>1, <2>2 DEF RunCommands, Execute, DirectStep, FlowFrame
<1> QED BY <1>1 DEF FlowNext, Checks

LEMMA FlowInitially == FlowInit => FlowInv
<1> SUFFICES ASSUME FlowInit PROVE FlowInv
  OBVIOUS
<1> USE FlowAssumption DEF FlowInit, CommandInit
<1>1. CommandTypeOK
  BY DEF CommandTypeOK, Command
<1>2. FlowTypeOK
  BY <1>1 DEF FlowTypeOK
<1>3. RequestsOK
  BY DEF RequestsOK, FlowCommands
<1>4. AddsItsState /\ RemovesEarlierStates /\ FoundEarlierStates /\ FurthestStateIsKept
  BY DEF AddsItsState, RemovesEarlierStates, FoundEarlierStates, FurthestStateIsKept
<1> QED BY <1>2, <1>3, <1>4 DEF FlowInv

LEMMA RequestsAreKept ==
    ASSUME FlowTypeOK, RequestsOK, FlowNext
    PROVE  RequestsOK'
<1> USE DEF RequestsOK, FlowTypeOK, CommandTypeOK
<1>1. ASSUME NEW c \in Clients, NEW cmds \in FlowCommands, ExecuteAction(c, cmds)
      PROVE  RequestsOK'
  BY <1>1 DEF ExecuteAction, Request, Idle, store
<1>2. ASSUME NEW c \in Clients, AskFlowState(c) \/ Checks(c) \/ NotInFlow(c)
      PROVE  RequestsOK'
  BY <1>2 DEF AskFlowState, Checks, CheckState, NotInFlow, commandVars, store, requests
<1>3. ASSUME NEW c \in Clients, NEW pair \in additions[c], StoreState(c, pair)
      PROVE  RequestsOK'
  BY <1>3 DEF StoreState, AddLink
<1>4. ASSUME NEW c \in Clients, DirectStep(c)
      PROVE  RequestsOK'
  <2>1. CASE ListLinks(c)
    BY <2>1 DEF ListLinks, store
  <2>2. ASSUME NEW l \in matched[c], FindLink(c, l)
        PROVE  RequestsOK'
    BY <2>2 DEF FindLink, store
  <2>3. CASE LinkNotFound(c)
    BY <2>3 DEF LinkNotFound, store, FlowCommands
  <2>4. CASE DeleteLink(c)
    BY <2>4 DEF DeleteLink
  <2>5. CASE SignAdditions(c)
    BY <2>5 DEF SignAdditions
  <2>6. CASE CommandDone(c)
    <3>1. Tail(commands[c]) \in FlowCommands
      BY <2>6, CommandsInOrder DEF CommandDone
    <3> QED BY <2>6, <3>1 DEF CommandDone, store
  <2>7. CASE RequestDone(c)
    BY <2>7 DEF RequestDone, store
  <2> QED BY <1>4, <2>1, <2>2, <2>3, <2>4, <2>5, <2>6, <2>7 DEF DirectStep
<1>5. \A c \in Clients : StartFlow(c) => \E cmds \in FlowCommands : ExecuteAction(c, cmds)
  BY FlowAssumption DEF StartFlow, FlowCommands, AddState
<1>6. \A c \in Clients, t \in Transitions :
          RunFlowAction(c, t) => \E cmds \in FlowCommands : ExecuteAction(c, cmds)
  BY DEF RunFlowAction, TransitionActions, FlowCommands, AddState, RemoveState
<1> QED BY <1>1, <1>2, <1>3, <1>4, <1>5, <1>6, FlowSteps

\* Every state that is stored is one of the flow's, and every command of a request removes
\* or adds one.
LEMMA TypesAreKept ==
    ASSUME FlowTypeOK, RequestsOK, AddsItsState, FlowNext
    PROVE  FlowTypeOK'
<1> USE DEF FlowTypeOK, CommandTypeOK
<1>1. ASSUME NEW c \in Clients, NEW cmds \in FlowCommands, ExecuteAction(c, cmds)
      PROVE  FlowTypeOK'
  <2>1. cmds \in Seq(Command)
    BY CommandsAreSequences
  <2> QED BY <1>1, <2>1, FlowAssumption, SMTT(30) DEF ExecuteAction, Request, store
<1>2. ASSUME NEW c \in Clients, AskFlowState(c) \/ Checks(c) \/ NotInFlow(c)
      PROVE  FlowTypeOK'
  <2>1. CommandTypeOK'
    BY <1>2 DEF AskFlowState, Checks, CheckState, NotInFlow, commandVars, store, requests
  <2>2. asking' \in [Clients -> BOOLEAN] /\ unchecked' \in [Clients -> SUBSET (1..States)]
    <3>1. CASE AskFlowState(c)
      BY <3>1 DEF AskFlowState
    <3>2. ASSUME NEW s \in unchecked[c], CheckState(c, s)
          PROVE  asking' \in [Clients -> BOOLEAN] /\ unchecked' \in [Clients -> SUBSET (1..States)]
      <4>1. PICK next \in SUBSET (1..States) : unchecked' = [unchecked EXCEPT ![c] = next]
        BY <3>2 DEF CheckState
      <4>2. PICK b \in BOOLEAN : asking' = [asking EXCEPT ![c] = b]
        BY <3>2 DEF CheckState
      <4> QED BY <4>1, <4>2
    <3>3. CASE NotInFlow(c)
      BY <3>3 DEF NotInFlow
    <3> QED BY <1>2, <3>1, <3>2, <3>3 DEF Checks
  <2>3. wasIn' \in [Clients -> 0..States]
    BY <1>2 DEF AskFlowState, Checks, CheckState, NotInFlow
  <2> QED BY <1>2, <2>1, <2>2, <2>3 DEF AskFlowState, Checks, CheckState, NotInFlow
<1>3. ASSUME NEW c \in Clients, NEW pair \in additions[c], StoreState(c, pair)
      PROVE  FlowTypeOK'
  <2>1. step[c] = "adding" /\ signed[c] \in 1..now /\ commands[c] # <<>> /\ commands[c] \in FlowCommands
    BY <1>3 DEF RequestsOK
  <2>2. pair \in Pairs(Head(commands[c])) /\ pair \in Predicates \X Targets
    BY <1>3, <2>1 DEF AddsItsState, Additions
  <2>3. pair[2] \in 1..States
    BY <2>1, <2>2, CommandsInOrder DEF Pairs
  <2>4. links' \subseteq [predicate : Predicates, target : Targets, time : 1..now]
    BY <1>3, <2>1, <2>2 DEF StoreState, AddLink
  <2>5. furthest' \in 0..States
    BY <1>3, <2>3, FlowAssumption DEF StoreState
  <2>6. additions' \in [Clients -> SUBSET (Predicates \X Targets)]
    BY <1>3 DEF StoreState, AddLink
  <2> QED BY <1>3, <2>4, <2>5, <2>6 DEF StoreState, AddLink
<1>4. ASSUME NEW c \in Clients, DirectStep(c), FlowFrame
      PROVE  FlowTypeOK'
  <2> USE <1>4 DEF FlowFrame
  <2>1. CASE ListLinks(c)
    <3>1. Matching(Head(commands[c])) \subseteq links
      BY DEF Matching
    <3>2. matched' = [matched EXCEPT ![c] = Matching(Head(commands[c]))] /\ UNCHANGED removals
      BY <2>1 DEF ListLinks, RequestsOK
    <3>3. \A d \in Clients : matched'[d] \cup removals'[d]
                                 \subseteq [predicate : Predicates, target : Targets, time : 1..now]
      BY <3>1, <3>2
    <3>4. step' \in [Clients -> {"idle", "command", "removing", "found", "adding", "committing"}]
      BY <2>1 DEF ListLinks
    <3>5. matched' \in [Clients -> SUBSET Link] /\ removals' \in [Clients -> SUBSET Link]
      <4>1. Matching(Head(commands[c])) \in SUBSET Link
        BY <3>1 DEF Link
      <4> QED BY <3>2, <4>1
    <3> QED BY <2>1, <3>3, <3>4, <3>5 DEF ListLinks, store
  <2>2. ASSUME NEW l \in matched[c], FindLink(c, l)
        PROVE  FlowTypeOK'
    BY <2>2 DEF FindLink, store
  <2>3. CASE LinkNotFound(c)
    <3>1. <<>> \in Seq(Command)
      OBVIOUS
    <3> QED BY <2>3, <3>1 DEF LinkNotFound, store
  <2>4. CASE DeleteLink(c)
    BY <2>4 DEF DeleteLink
  <2>5. CASE SignAdditions(c)
    <3>1. commands[c] # <<>> /\ commands[c] \in FlowCommands
      BY <2>5 DEF SignAdditions, RequestsOK
    <3>2. Head(commands[c]) \in Command
      BY <3>1, CommandsInOrder
    <3>3. Additions(Head(commands[c])) \subseteq Predicates \X Targets
      BY <3>2 DEF Additions, Pairs, Command
    <3> QED BY <2>5, <3>3 DEF SignAdditions
  <2>6. CASE CommandDone(c)
    <3>1. commands[c] # <<>> /\ commands[c] \in FlowCommands
      BY <2>6 DEF CommandDone, RequestsOK
    <3>2. Tail(commands[c]) \in Seq(Command)
      BY <3>1, CommandsInOrder, CommandsAreSequences
    <3> QED BY <2>6, <3>2 DEF CommandDone, store
  <2>7. CASE RequestDone(c)
    BY <2>7 DEF RequestDone, store
  <2> QED BY <1>4, <2>1, <2>2, <2>3, <2>4, <2>5, <2>6, <2>7 DEF DirectStep
<1>5. \A c \in Clients : StartFlow(c) => \E cmds \in FlowCommands : ExecuteAction(c, cmds)
  BY FlowAssumption DEF StartFlow, FlowCommands, AddState
<1>6. \A c \in Clients, t \in Transitions :
          RunFlowAction(c, t) => \E cmds \in FlowCommands : ExecuteAction(c, cmds)
  BY DEF RunFlowAction, TransitionActions, FlowCommands, AddState, RemoveState
<1> QED BY <1>1, <1>2, <1>3, <1>4, <1>5, <1>6, FlowSteps

\* The furthest state only grows.
LEMMA FurthestGrows ==
    ASSUME FlowTypeOK, RequestsOK, AddsItsState, FlowNext
    PROVE  furthest' \in Nat /\ furthest' >= furthest
<1>1. ASSUME NEW c \in Clients, NEW pair \in additions[c], StoreState(c, pair)
      PROVE  furthest' \in Nat /\ furthest' >= furthest
  <2>1. furthest \in Nat
    BY FlowAssumption DEF FlowTypeOK
  <2>2. furthest' \in Nat
    BY TypesAreKept, FlowAssumption DEF FlowTypeOK
  <2>3. step[c] = "adding" /\ commands[c] # <<>> /\ commands[c] \in FlowCommands
    BY <1>1 DEF RequestsOK
  <2>4. pair[2] \in 1..States
    BY <1>1, <2>3, CommandsInOrder DEF AddsItsState, Additions, Pairs
  <2> QED BY <1>1, <2>1, <2>2, <2>4 DEF StoreState
<1>2. ASSUME UNCHANGED furthest
      PROVE  furthest' \in Nat /\ furthest' >= furthest
  BY <1>2, FlowAssumption DEF FlowTypeOK
<1> QED BY <1>1, <1>2, FlowSteps DEF StartFlow, RunFlowAction, ExecuteAction, AskFlowState,
           Checks, CheckState, NotInFlow, FlowFrame

\* What a request adds is taken from its command when it is signed, and gone only once stored.
LEMMA AdditionsAreKept ==
    ASSUME FlowTypeOK, RequestsOK, AddsItsState, FlowNext
    PROVE  AddsItsState'
<1> USE DEF FlowTypeOK, CommandTypeOK
<1>0. furthest \in Nat /\ furthest' \in Nat /\ furthest' >= furthest
  BY FurthestGrows, FlowAssumption
<1>1. ASSUME NEW c \in Clients, NEW cmds, ExecuteAction(c, cmds)
      PROVE  AddsItsState'
  BY <1>1 DEF ExecuteAction, Request, store, AddsItsState, Additions, Pairs
<1>2. ASSUME NEW c \in Clients, AskFlowState(c) \/ Checks(c) \/ NotInFlow(c)
      PROVE  AddsItsState'
  BY <1>2 DEF AskFlowState, Checks, CheckState, NotInFlow, commandVars, store, requests,
              AddsItsState, Additions, Pairs
<1>3. ASSUME NEW c \in Clients, NEW pair \in additions[c], StoreState(c, pair)
      PROVE  AddsItsState'
  <2> SUFFICES ASSUME NEW d \in Clients, step'[d] = "adding"
               PROVE  /\ additions'[d] \subseteq Additions(Head(commands[d]))
                      /\ (Head(commands[d]).action = "addLink" /\ additions'[d] = {}) =>
                             \A s \in Head(commands[d]).targets : s <= furthest'
    BY <1>3 DEF AddsItsState, StoreState, AddLink, Additions, Pairs
  <2>1. step[d] = "adding"
    BY <1>3 DEF StoreState, AddLink
  <2>2. additions'[d] \subseteq additions[d]
    BY <1>3 DEF StoreState, AddLink
  <2>3. furthest \in Nat /\ furthest' \in Nat /\ furthest' >= furthest
    BY <1>0
  <2>4. commands[d] # <<>> /\ commands[d] \in FlowCommands
    BY <2>1 DEF RequestsOK
  <2>5. PICK s \in 1..States : Head(commands[d]).targets = {s}
    BY <2>4, CommandsInOrder
  <2>6. additions[d] \subseteq Additions(Head(commands[d]))
    BY <2>1 DEF AddsItsState
  <2>7. CASE d = c
    <3>1. pair \in Pairs(Head(commands[d]))
      BY <2>6, <2>7, <1>3 DEF Additions
    <3>2. pair[2] = s
      BY <3>1, <2>5 DEF Pairs
    <3>3. furthest' >= s
      BY <1>3, <3>2, <2>3, <2>5 DEF StoreState
    <3> QED BY <2>2, <2>3, <2>5, <2>6, <3>3
  <2>8. CASE d # c
    <3>1. additions'[d] = additions[d]
      BY <1>3, <2>8 DEF StoreState, AddLink
    <3>2. (Head(commands[d]).action = "addLink" /\ additions[d] = {}) => s <= furthest
      BY <2>1, <2>5 DEF AddsItsState
    <3> QED BY <2>3, <2>5, <2>6, <3>1, <3>2
  <2> QED BY <2>7, <2>8
<1>4. ASSUME NEW c \in Clients, DirectStep(c), FlowFrame
      PROVE  AddsItsState'
  <2> USE <1>4 DEF FlowFrame, AddsItsState, Pairs
  <2>1. CASE ListLinks(c)
    BY <2>1 DEF ListLinks, store, Additions
  <2>2. ASSUME NEW l \in matched[c], FindLink(c, l)
        PROVE  AddsItsState'
    BY <2>2 DEF FindLink, store, Additions
  <2>3. CASE LinkNotFound(c)
    BY <2>3 DEF LinkNotFound, store, Additions
  <2>4. CASE DeleteLink(c)
    BY <2>4 DEF DeleteLink, Additions
  <2>5. CASE SignAdditions(c)
    <3> SUFFICES ASSUME NEW d \in Clients, step'[d] = "adding"
                 PROVE  /\ additions'[d] \subseteq Additions(Head(commands[d]))
                        /\ (Head(commands[d]).action = "addLink" /\ additions'[d] = {}) =>
                               \A s \in Head(commands[d]).targets : s <= furthest
      BY <2>5 DEF SignAdditions, Additions
    <3>1. CASE d = c
      <4>1. additions'[d] = Additions(Head(commands[d]))
        BY <2>5, <3>1 DEF SignAdditions
      <4>2. commands[d] # <<>> /\ commands[d] \in FlowCommands
        BY <2>5, <3>1 DEF SignAdditions, RequestsOK
      <4>3. PICK s \in 1..States : Head(commands[d]).targets = {s}
        BY <4>2, CommandsInOrder
      <4>4. Head(commands[d]).action = "addLink" =>
                <<Head(commands[d]).predicate, s>> \in Additions(Head(commands[d]))
        BY <4>3 DEF Additions
      <4> QED BY <4>1, <4>4
    <3>2. CASE d # c
      BY <2>5, <3>2 DEF SignAdditions
    <3> QED BY <3>1, <3>2
  <2>6. CASE CommandDone(c)
    BY <2>6 DEF CommandDone, store, Additions
  <2>7. CASE RequestDone(c)
    BY <2>7 DEF RequestDone, store, Additions
  <2> QED BY <1>4, <2>1, <2>2, <2>3, <2>4, <2>5, <2>6, <2>7 DEF DirectStep
<1> QED BY <1>1, <1>2, <1>3, <1>4, FlowSteps DEF StartFlow, RunFlowAction

\* The command that removes comes up when the addition before it is done.
LEMMA RemovalsAreKept ==
    ASSUME FlowTypeOK, RequestsOK, AddsItsState, RemovesEarlierStates, FlowNext
    PROVE  RemovesEarlierStates'
<1> USE DEF FlowTypeOK, CommandTypeOK
<1>0. furthest \in Nat /\ furthest' \in Nat /\ furthest' >= furthest
  BY FurthestGrows, FlowAssumption
<1> SUFFICES ASSUME NEW d \in Clients, commands'[d] # <<>>, Head(commands'[d]).action = "removeLink",
                    NEW r \in Head(commands'[d]).targets
             PROVE  r < furthest'
  BY DEF RemovesEarlierStates
<1>1. ASSUME commands'[d] = commands[d]
      PROVE  r < furthest'
  <2>1. commands[d] \in FlowCommands /\ commands[d] # <<>>
    BY <1>1 DEF RequestsOK
  <2>2. r < furthest
    BY <1>1 DEF RemovesEarlierStates
  <2>3. PICK s \in 1..States : Head(commands[d]).targets = {s}
    BY <2>1, CommandsInOrder
  <2>4. r = s
    BY <1>1, <2>3
  <2> QED BY <1>0, <2>2, <2>4
<1>2. ASSUME NEW c \in Clients, NEW s \in 1..States, NEW cmds, ExecuteAction(c, cmds),
             Head(cmds) = AddState(s)
      PROVE  r < furthest'
  <2>1. CASE d = c
    <3>1. commands'[d] = cmds
      BY <1>2, <2>1 DEF ExecuteAction, Request
    <3> QED BY <1>2, <3>1, StateCommands
  <2>2. CASE d # c
    <3>1. commands'[d] = commands[d]
      BY <1>2, <2>2 DEF ExecuteAction, Request
    <3> QED BY <3>1, <1>1
  <2> QED BY <2>1, <2>2
<1>3. ASSUME NEW c \in Clients, CommandDone(c)
      PROVE  r < furthest'
  <2>1. CASE d = c
    <3>1. commands'[d] = Tail(commands[d]) /\ step[d] = "adding" /\ additions[d] = {}
      BY <1>3, <2>1 DEF CommandDone
    <3>2. commands[d] # <<>> /\ commands[d] \in FlowCommands
      BY <3>1 DEF RequestsOK
    <3>3. /\ Head(commands[d]).action = "addLink"
          /\ \A s \in Head(commands[d]).targets : r < s
      BY <3>1, <3>2, CommandsInOrder
    <3>4. PICK s \in 1..States : Head(commands[d]).targets = {s}
      BY <3>2, CommandsInOrder
    <3>5. s <= furthest
      BY <3>1, <3>3, <3>4 DEF AddsItsState
    <3>6. PICK q \in 1..States : Head(Tail(commands[d])).targets = {q}
      BY <3>1, <3>2, CommandsInOrder
    <3>7. r = q /\ q < s
      BY <3>1, <3>3, <3>4, <3>6
    <3> QED BY <1>0, <3>5, <3>7
  <2>2. CASE d # c
    <3>1. commands'[d] = commands[d]
      BY <1>3, <2>2 DEF CommandDone
    <3> QED BY <3>1, <1>1
  <2> QED BY <2>1, <2>2
<1>4. ASSUME NEW c \in Clients, LinkNotFound(c)
      PROVE  r < furthest'
  <2>1. CASE d = c
    BY <1>4, <2>1 DEF LinkNotFound
  <2>2. CASE d # c
    <3>1. commands'[d] = commands[d]
      BY <1>4, <2>2 DEF LinkNotFound
    <3> QED BY <3>1, <1>1
  <2> QED BY <2>1, <2>2
<1>5. ASSUME NEW c \in Clients, DirectStep(c)
      PROVE  r < furthest'
  <2>1. commands' = commands \/ CommandDone(c) \/ LinkNotFound(c)
    BY <1>5 DEF DirectStep, ListLinks, FindLink, DeleteLink, SignAdditions, RequestDone
  <2> QED BY <2>1, <1>1, <1>3, <1>4
<1>6. ASSUME NEW c \in Clients, StartFlow(c)
      PROVE  r < furthest'
  <2>1. AddState(1) \in Command /\ 1 \in 1..States
    BY StateCommands, FlowAssumption
  <2>2. Head(<<AddState(1)>>) = AddState(1)
    BY <2>1, OneElement
  <2> QED BY <1>2, <1>6, <2>1, <2>2 DEF StartFlow, AddState
<1>7. ASSUME NEW c \in Clients, NEW t \in Transitions, RunFlowAction(c, t)
      PROVE  r < furthest'
  <2>1. t[1] \in 1..States /\ t[2] \in 1..States
    BY FlowAssumption
  <2>2. AddState(t[2]) \in Command /\ RemoveState(t[1]) \in Command
    BY <2>1, StateCommands
  <2>3. Head(<<AddState(t[2]), RemoveState(t[1])>>) = AddState(t[2])
    BY <2>2, TwoElements
  <2> QED BY <1>2, <1>7, <2>1, <2>3 DEF RunFlowAction, TransitionActions, AddState, RemoveState
<1>8. ASSUME NEW c \in Clients,
             \/ AskFlowState(c) \/ Checks(c) \/ NotInFlow(c)
             \/ \E pair \in additions[c] : StoreState(c, pair)
      PROVE  r < furthest'
  <2>1. commands' = commands
    BY <1>8 DEF AskFlowState, Checks, CheckState, NotInFlow, StoreState, AddLink, commandVars, requests
  <2> QED BY <2>1, <1>1
<1> QED BY <1>5, <1>6, <1>7, <1>8, FlowSteps

\* What is found to be removed is what the command names, and stays below the furthest state.
LEMMA FoundAreKept ==
    ASSUME FlowInv, FlowNext
    PROVE  FoundEarlierStates'
<1> USE DEF FlowInv, FlowTypeOK, CommandTypeOK
<1>0. furthest \in Nat /\ furthest' \in Nat /\ furthest' >= furthest
  BY FurthestGrows, FlowAssumption
<1> SUFFICES ASSUME NEW d \in Clients, NEW l \in matched'[d] \cup removals'[d]
             PROVE  l.target \in 1..(furthest' - 1)
  BY DEF FoundEarlierStates
<1>1. ASSUME NEW c \in Clients, NEW s \in 1..States, ListLinks(c),
             Head(commands[c]).targets = {s}
      PROVE  l \in matched[d] \cup removals[d] \/ l.target \in 1..(furthest - 1)
  <2>1. mode[c] = "direct" /\ commands[c] # <<>> /\ commands[c] \in FlowCommands
    BY <1>1 DEF ListLinks, RequestsOK
  <2>2. matched' = [matched EXCEPT ![c] = Matching(Head(commands[c]))] /\ UNCHANGED removals
    BY <1>1, <2>1 DEF ListLinks
  <2>3. ASSUME NEW k \in Matching(Head(commands[c]))
        PROVE  k.target \in 1..(furthest - 1)
    <3>1. Head(commands[c]).action = "removeLink"
      BY <2>1, <2>3, CommandsInOrder DEF Matching
    <3>2. k.target = s
      BY <1>1, <2>3, <3>1 DEF Matching
    <3>3. s < furthest
      BY <1>1, <2>1, <3>1 DEF RemovesEarlierStates
    <3> QED BY <1>0, <3>2, <3>3
  <2> QED BY <2>2, <2>3
<1>2. ASSUME NEW c \in Clients, DirectStep(c), ~ListLinks(c)
      PROVE  l \in matched[d] \cup removals[d]
  <2>1. ASSUME NEW k \in matched[c], FindLink(c, k)
        PROVE  l \in matched[d] \cup removals[d]
    BY <2>1 DEF FindLink
  <2>2. CASE LinkNotFound(c)
    <3>1. matched'[d] \in {{}, matched[d]} /\ removals'[d] \in {{}, removals[d]}
      BY <2>2 DEF LinkNotFound
    <3> QED BY <3>1
  <2>4. CASE DeleteLink(c)
    <3>1. matched'[d] = matched[d] /\ removals'[d] \in {{}, removals[d]}
      BY <2>4 DEF DeleteLink
    <3> QED BY <3>1
  <2>3. CASE SignAdditions(c) \/ CommandDone(c) \/ RequestDone(c)
    BY <2>3 DEF SignAdditions, CommandDone, RequestDone
  <2> QED BY <1>2, <2>1, <2>2, <2>3, <2>4 DEF DirectStep
<1>3. ASSUME NEW c \in Clients, ListLinks(c)
      PROVE  l \in matched[d] \cup removals[d] \/ l.target \in 1..(furthest - 1)
  <2>1. commands[c] # <<>> /\ commands[c] \in FlowCommands
    BY <1>3 DEF ListLinks, RequestsOK
  <2>2. PICK s \in 1..States : Head(commands[c]).targets = {s}
    BY <2>1, CommandsInOrder
  <2> QED BY <1>1, <1>3, <2>2
<1>4. ASSUME NEW c \in Clients,
             \/ StartFlow(c) \/ \E t \in Transitions : RunFlowAction(c, t)
             \/ AskFlowState(c) \/ Checks(c) \/ NotInFlow(c)
             \/ \E pair \in additions[c] : StoreState(c, pair)
      PROVE  l \in matched[d] \cup removals[d]
  BY <1>4 DEF StartFlow, RunFlowAction, ExecuteAction, Request, AskFlowState, Checks, CheckState, NotInFlow,
              StoreState, AddLink, commandVars, requests
<1>5. l \in matched[d] \cup removals[d] \/ l.target \in 1..(furthest - 1)
  BY <1>2, <1>3, <1>4, FlowSteps
<1>6. l.target \in 1..(furthest - 1)
  BY <1>5 DEF FoundEarlierStates
<1> QED BY <1>0, <1>6

\* Only links of earlier states are deleted, and a new furthest state comes with its link.
LEMMA FurthestIsKept ==
    ASSUME FlowInv, FlowNext
    PROVE  FurthestStateIsKept'
<1> USE DEF FlowInv, FlowTypeOK, CommandTypeOK, FurthestStateIsKept, InState
<1>0. furthest \in Nat
  BY FlowAssumption
<1>1. ASSUME NEW c \in Clients, NEW pair \in additions[c], StoreState(c, pair)
      PROVE  FurthestStateIsKept'
  <2>1. step[c] = "adding" /\ commands[c] # <<>> /\ commands[c] \in FlowCommands
    BY <1>1 DEF RequestsOK
  <2>2. pair \in Pairs(Head(commands[c]))
    BY <1>1, <2>1 DEF AddsItsState, Additions
  <2>3. pair[1] = StatePredicate /\ pair[2] \in 1..States
    BY <2>1, <2>2, CommandsInOrder DEF Pairs
  <2>4. [predicate |-> pair[1], target |-> pair[2], time |-> signed[c]] \in links'
    BY <1>1 DEF StoreState, AddLink
  <2>5. links \subseteq links'
    BY <1>1 DEF StoreState, AddLink
  <2>6. CASE pair[2] > furthest
    <3>1. furthest' = pair[2]
      BY <1>1, <2>6 DEF StoreState
    <3> QED BY <2>3, <2>4, <3>1
  <2>7. CASE ~(pair[2] > furthest)
    <3>1. furthest' = furthest
      BY <1>1, <2>7 DEF StoreState
    <3> QED BY <2>5, <3>1
  <2> QED BY <2>6, <2>7
<1>2. ASSUME NEW c \in Clients, DeleteLink(c), FlowFrame
      PROVE  FurthestStateIsKept'
  <2>1. \A l \in removals[c] : l.target \in 1..(furthest - 1)
    BY DEF FoundEarlierStates
  <2>2. links' = links \ removals[c] /\ furthest' = furthest
    BY <1>2 DEF DeleteLink, FlowFrame
  <2>3. ASSUME furthest > 0
        PROVE  \E l \in links' : l.predicate = StatePredicate /\ l.target = furthest
    <3>1. PICK l \in links : l.predicate = StatePredicate /\ l.target = furthest
      BY <2>3
    <3>2. l \notin removals[c]
      BY <1>0, <2>1, <3>1
    <3> QED BY <2>2, <3>1, <3>2
  <2> QED BY <2>2, <2>3
<1>3. ASSUME NEW c \in Clients, DirectStep(c), ~DeleteLink(c), FlowFrame
      PROVE  UNCHANGED <<links, furthest>>
  BY <1>3 DEF DirectStep, ListLinks, FindLink, LinkNotFound, SignAdditions, CommandDone, RequestDone,
              store, FlowFrame
<1>4. ASSUME NEW c \in Clients,
             \/ StartFlow(c) \/ \E t \in Transitions : RunFlowAction(c, t)
             \/ AskFlowState(c) \/ Checks(c) \/ NotInFlow(c)
      PROVE  UNCHANGED <<links, furthest>>
  BY <1>4 DEF StartFlow, RunFlowAction, ExecuteAction, Request, AskFlowState, Checks, CheckState, NotInFlow,
              commandVars, store
<1>5. ASSUME UNCHANGED <<links, furthest>>
      PROVE  FurthestStateIsKept'
  BY <1>5
<1> QED BY <1>1, <1>2, <1>3, <1>4, <1>5, FlowSteps

LEMMA FlowInvariant == FlowSpec => []FlowInv
<1>1. FlowInv /\ [FlowNext]_flowVars => FlowInv'
  <2> SUFFICES ASSUME FlowInv, [FlowNext]_flowVars
               PROVE  FlowInv'
    OBVIOUS
  <2>1. CASE FlowNext
    BY <2>1, TypesAreKept, RequestsAreKept, AdditionsAreKept, RemovalsAreKept, FoundAreKept,
       FurthestIsKept DEF FlowInv
  <2>2. CASE UNCHANGED flowVars
    BY <2>2 DEF FlowInv, FlowTypeOK, CommandTypeOK, RequestsOK, AddsItsState, Additions, Pairs,
                RemovesEarlierStates, FoundEarlierStates, FurthestStateIsKept, InState,
                flowVars, commandVars, store, requests
  <2> QED BY <2>1, <2>2
<1> QED BY <1>1, FlowInitially, PTL DEF FlowSpec

-----------------------------------------------------------------------------
(* flowState() *)

\* The check of the furthest state finds it, so checks that go on have it before them.
LEMMA ChecksReachFurthest ==
    ASSUME FlowInv, FurthestIsUnchecked, [FlowNext]_flowVars
    PROVE  FurthestIsUnchecked'
<1> USE DEF FlowInv, FlowTypeOK, FurthestIsUnchecked
<1>0. furthest \in Nat /\ wasIn \in [Clients -> Nat]
  BY FlowAssumption
<1> SUFFICES ASSUME NEW d \in Clients
             PROVE  /\ wasIn'[d] <= furthest'
                    /\ asking'[d] /\ wasIn'[d] = furthest' /\ furthest' > 0 => furthest' \in unchecked'[d]
  OBVIOUS
<1> DEFINE Goal == /\ wasIn'[d] <= furthest'
                   /\ asking'[d] /\ wasIn'[d] = furthest' /\ furthest' > 0 => furthest' \in unchecked'[d]
<1>1. ASSUME UNCHANGED <<asking, unchecked, wasIn>>, furthest' \in Nat, furthest' >= furthest
      PROVE  Goal
  <2>1. wasIn[d] <= furthest /\ wasIn[d] \in Nat
    BY <1>0
  <2>2. wasIn'[d] = furthest' => furthest' = furthest
    BY <1>0, <1>1, <2>1
  <2> QED BY <1>0, <1>1, <2>1, <2>2
<1>2. ASSUME NEW c \in Clients, AskFlowState(c)
      PROVE  Goal
  <2>1. furthest' = furthest
    BY <1>2 DEF AskFlowState
  <2>2. CASE d = c
    <3>1. unchecked'[d] = 1..States /\ wasIn'[d] = furthest
      BY <1>2, <2>2 DEF AskFlowState
    <3>2. furthest > 0 => furthest \in 1..States
      BY FlowAssumption
    <3> QED BY <1>0, <2>1, <3>1, <3>2
  <2>3. CASE d # c
    BY <1>2, <2>1, <2>3 DEF AskFlowState
  <2> QED BY <2>2, <2>3
<1>3. ASSUME NEW c \in Clients, NEW s \in unchecked[c], CheckState(c, s)
      PROVE  Goal
  <2>1. furthest' = furthest /\ wasIn' = wasIn
    BY <1>3 DEF CheckState
  <2>2. CASE d = c
    <3>1. CASE InState(s)
      <4>1. ~asking'[d]
        BY <1>3, <2>2, <3>1 DEF CheckState
      <4> QED BY <2>1, <4>1
    <3>2. CASE ~InState(s)
      <4>1. furthest > 0 => s # furthest
        BY <3>2 DEF FurthestStateIsKept
      <4>2. unchecked'[d] = unchecked[d] \ {s} /\ asking[d]
        BY <1>3, <2>2, <3>2 DEF CheckState
      <4> QED BY <2>1, <4>1, <4>2
    <3> QED BY <3>1, <3>2
  <2>3. CASE d # c
    BY <1>3, <2>1, <2>3 DEF CheckState
  <2> QED BY <2>2, <2>3
<1>4. ASSUME NEW c \in Clients, NotInFlow(c)
      PROVE  Goal
  <2>1. furthest' = furthest /\ wasIn' = wasIn /\ unchecked' = unchecked
    BY <1>4 DEF NotInFlow
  <2>2. asking'[d] => asking[d]
    BY <1>4 DEF NotInFlow
  <2> QED BY <2>1, <2>2
<1>5. ASSUME NEW c \in Clients,
             \/ StartFlow(c) \/ \E t \in Transitions : RunFlowAction(c, t)
             \/ \E pair \in additions[c] : StoreState(c, pair)
             \/ FlowFrame
      PROVE  UNCHANGED <<asking, unchecked, wasIn>>
  BY <1>5 DEF StartFlow, RunFlowAction, ExecuteAction, StoreState, FlowFrame
<1>6. CASE FlowNext
  <2>1. furthest' \in Nat /\ furthest' >= furthest
    BY <1>6, FurthestGrows
  <2>2. ASSUME UNCHANGED <<asking, unchecked, wasIn>>
        PROVE  Goal
    BY <2>1, <2>2, <1>1
  <2>3. ASSUME NEW c \in Clients, Checks(c)
        PROVE  Goal
    BY <2>3, <1>3 DEF Checks
  <2>4. ASSUME NEW c \in Clients,
               \/ StartFlow(c) \/ \E t \in Transitions : RunFlowAction(c, t)
               \/ \E pair \in additions[c] : StoreState(c, pair)
               \/ FlowFrame
        PROVE  Goal
    BY <2>4, <1>5, <2>2
  <2> HIDE DEF Goal
  <2>5. Goal
    BY <1>6, <2>3, <2>4, <1>2, <1>4, FlowSteps
  <2> QED BY <2>5 DEF Goal
<1>7. CASE UNCHANGED flowVars
  BY <1>0, <1>1, <1>7 DEF flowVars
<1> QED BY <1>6, <1>7

-----------------------------------------------------------------------------

\* The types of a flow's state and of the commands that change it.
THEOREM FlowTypeCorrect == FlowSpec => []FlowTypeOK
BY FlowInvariant, PTL DEF FlowInv

\* startFlow() and runFlowAction() of any number of clients, in any state and any order,
\* half-way failures included, never lose the furthest state the flow has reached.
THEOREM FurthestStateNeverLost == FlowSpec => []FurthestStateIsKept
BY FlowInvariant, PTL DEF FlowInv

\* When flowState() reports that an expression is in no state of a flow it was in when
\* flowState() was called, the expression has moved on meanwhile: in whatever order the
\* states are checked, and whatever actions run, one it stays in is found.
THEOREM OnlyMovedOnIsMissed == FlowSpec => []OnlyMovesAreMissed
<1>1. FlowInit => FurthestIsUnchecked
  BY DEF FlowInit, FurthestIsUnchecked
<1>2. FlowInv /\ FurthestIsUnchecked => OnlyMovesAreMissed
  <2> SUFFICES ASSUME FlowInv, FurthestIsUnchecked, NEW c \in Clients, FoundNone(c), wasIn[c] # 0
               PROVE  wasIn[c] < furthest
    BY DEF OnlyMovesAreMissed
  <2>1. furthest \in Nat /\ wasIn[c] \in Nat
    BY FlowAssumption DEF FlowInv, FlowTypeOK
  <2> QED BY <2>1 DEF FurthestIsUnchecked, FoundNone
<1> QED BY <1>1, <1>2, FlowInvariant, ChecksReachFurthest, PTL DEF FlowSpec

-----------------------------------------------------------------------------
(* Adding and reading a class or flow *)

Whats == {"has_subject_class", "sdna", "has_shacl", "uri", "class", "type",
          "element", "path", "rest"}

DnaLink == [what : Whats, of : SUBSET Elements]

AllStored(seq) == \A i \in DOMAIN seq : Stored(seq[i].what, seq[i].of)

\* What client a has yet to store is the end of seq, and all before it is stored.
StoredUpTo(a, seq, k) ==
    /\ Len(toStore[a]) = Len(seq) - k
    /\ \A i \in 1..Len(toStore[a]) : toStore[a][i] = seq[k + i]
    /\ \A i \in 1..k : Stored(seq[i].what, seq[i].of)

Storing(a, seq) == \E k \in 0..Len(seq) : StoredUpTo(a, seq, k)

WholeVersion(b) == AllStored(NamedLinks(Version[b]))

OnlyVersion(b) == AllStored(SdnaLinks(Version[b])) /\ \A l \in stored : l.by = b

\* The lists of links have their type, and only who is storing has one.
ListsOK ==
    /\ toStore \in [Apps -> Seq(DnaLink)]
    /\ \A a \in Apps : adding[a] # "storing" => toStore[a] = <<>>

\* addShacl() and addFlow(): where the name is stored, some version is; and who found the
\* name asks for all elements of such a version.
NameComesLast ==
    /\ \A a \in Apps : adding[a] \notin {"waiting", "checking"}
    /\ \A a \in Apps : adding[a] = "storing" => Storing(a, NamedLinks(Version[a]))
    /\ Stored("uri", {}) => \E b \in Apps : WholeVersion(b)
    /\ \A a \in Apps : reading[a] # "no" =>
           \E b \in Apps : /\ WholeVersion(b)
                           /\ reading[a] = "querying" => ToSet(Version[b]) \subseteq sources[a]

\* add_sdna(): one client at a time checks and stores; between them there is nothing or
\* one whole class of one client.
OneAtATime ==
    /\ \A a \in Apps : adding[a] \in {"checking", "storing"} => mutex = {a}
    /\ (\A a \in Apps : adding[a] # "storing") => stored = {} \/ \E b \in Apps : OnlyVersion(b)
    /\ \A a \in Apps : adding[a] = "storing" =>
           \/ Storing(a, SdnaLinks(Version[a])) /\ \A l \in stored : l.by = a
           \/ toStore[a] = <<>> /\ \E b \in Apps : OnlyVersion(b)
    /\ \A a \in Apps : adding[a] = "done" => \E b \in Apps : OnlyVersion(b)

DnaInv ==
    /\ DnaTypeOK
    /\ ListsOK
    /\ way # "addSdna" => NameComesLast
    /\ FoundIsComplete
    /\ (way = "addSdna" /\ ~torn) => OneAtATime

-----------------------------------------------------------------------------
(* The lists of links *)

LEMMA ThreeEach ==
    ASSUME NEW n \in Nat
    PROVE  /\ \A i \in 1..(3 * n) : ((i - 1) \div 3) + 1 \in 1..n /\ ((i - 1) % 3) + 1 \in 1..3
           /\ \A i \in 1..n, j \in 1..3 :
                  LET m == 3 * (i - 1) + j
                  IN  m \in 1..(3 * n) /\ ((m - 1) \div 3) + 1 = i /\ ((m - 1) % 3) + 1 = j
OBVIOUS

LEMMA FunctionsAreLists ==
    ASSUME NEW S, NEW n \in Nat, NEW f \in [1..n -> S]
    PROVE  f \in Seq(S) /\ Len(f) = n
OBVIOUS

\* The elements of two lists joined.
LEMMA JoinedLists ==
    ASSUME NEW s \in Seq(DnaLink), NEW t \in Seq(DnaLink)
    PROVE  /\ s \o t \in Seq(DnaLink) /\ Len(s \o t) = Len(s) + Len(t)
           /\ \A i \in DOMAIN s : i \in DOMAIN (s \o t) /\ (s \o t)[i] = s[i]
           /\ \A i \in DOMAIN t : Len(s) + i \in DOMAIN (s \o t) /\ (s \o t)[Len(s) + i] = t[i]
           /\ \A i \in DOMAIN (s \o t) :
                  \/ i \in DOMAIN s
                  \/ i - Len(s) \in DOMAIN t /\ (s \o t)[i] = t[i - Len(s)]
<1>1. Len(s) \in Nat /\ Len(t) \in Nat /\ DOMAIN s = 1..Len(s) /\ DOMAIN t = 1..Len(t)
    OBVIOUS
<1>2. s \o t \in Seq(DnaLink) /\ Len(s \o t) = Len(s) + Len(t) /\ DOMAIN (s \o t) = 1..(Len(s) + Len(t))
    OBVIOUS
<1> QED BY <1>1, <1>2

LEMMA ElementLinksType ==
    ASSUME NEW e \in Elements
    PROVE  /\ ElementLinks(e) \in Seq(DnaLink) /\ Len(ElementLinks(e)) = 3
           /\ \A j \in 1..3 : /\ ElementLinks(e)[j] \in DnaLink
                              /\ ElementLinks(e)[j].of = {e}
           /\ ElementLinks(e)[1].what = "element"
<1>1. \A j \in 1..3 : <<"element", "path", "rest">>[j] \in Whats
    <2> TAKE j \in 1..3
    <2>1. <<"element", "path", "rest">>[j] \in {"element", "path", "rest"}
        OBVIOUS
    <2> QED BY <2>1 DEF Whats
<1>2. \A j \in 1..3 : ElementLinks(e)[j] = [what |-> <<"element", "path", "rest">>[j], of |-> {e}]
    BY DEF ElementLinks
<1>3. \A j \in 1..3 : ElementLinks(e)[j] \in DnaLink /\ ElementLinks(e)[j].of = {e}
    BY <1>1, <1>2 DEF DnaLink
<1>4. ElementLinks(e)[1].what = "element"
    BY <1>2
<1>5. ElementLinks(e) \in [1..3 -> DnaLink]
    BY <1>1 DEF ElementLinks, DnaLink
<1>6. Len(ElementLinks(e)) = 3 /\ ElementLinks(e) \in Seq(DnaLink)
    <2>1. 3 \in Nat
        OBVIOUS
    <2> QED BY <1>5, <2>1, FunctionsAreLists
<1> QED BY <1>3, <1>4, <1>6

LEMMA SaysType ==
    ASSUME NEW w \in Whats
    PROVE  /\ Says(w) \in Seq(DnaLink) /\ Len(Says(w)) = 1
           /\ Says(w)[1] = [what |-> w, of |-> {}]
BY DEF Says, DnaLink

\* toLinks() says all of every element, and nothing of its own is the name.
LEMMA ToLinksSays ==
    ASSUME NEW elements \in Seq(Elements)
    PROVE  /\ ToLinks(elements) \in Seq(DnaLink)
           /\ \A i \in DOMAIN ToLinks(elements) : ToLinks(elements)[i].of = {} =>
                  ToLinks(elements)[i].what = "type"
           /\ \A e \in ToSet(elements) : \A j \in 1..3 :
                  \E i \in DOMAIN ToLinks(elements) : ToLinks(elements)[i] = ElementLinks(e)[j]
<1> DEFINE n == Len(elements)
           link(i) == ElementLinks(elements[((i - 1) \div 3) + 1])[((i - 1) % 3) + 1]
           rest == [i \in 1..(3 * n) |-> link(i)]
<1>1. n \in Nat /\ \A i \in 1..n : elements[i] \in Elements
    OBVIOUS
<1>2. \A i \in 1..(3 * n) : link(i) \in DnaLink /\ link(i).of # {}
    <2> TAKE i \in 1..(3 * n)
    <2> DEFINE x == ((i - 1) \div 3) + 1
               y == ((i - 1) % 3) + 1
    <2>1. x \in 1..n /\ y \in 1..3
        BY <1>1, ThreeEach
    <2>2. elements[x] \in Elements
        BY <1>1, <2>1
    <2>3. ElementLinks(elements[x])[y] \in DnaLink /\ ElementLinks(elements[x])[y].of = {elements[x]}
        BY <2>1, <2>2, ElementLinksType
    <2> QED BY <2>3
<1>3. rest \in Seq(DnaLink) /\ Len(rest) = 3 * n
    <2> HIDE DEF link, n
    <2>1. rest \in [1..(3 * n) -> DnaLink] /\ 3 * n \in Nat
        BY <1>1, <1>2
    <2> QED BY <2>1
<1>4. ToLinks(elements) = Says("type") \o rest
    BY DEF ToLinks
<1>5. "type" \in Whats
    BY DEF Whats
<1>6. /\ ToLinks(elements) \in Seq(DnaLink)
      /\ Len(ToLinks(elements)) = 1 + 3 * n
      /\ ToLinks(elements)[1] = [what |-> "type", of |-> {}]
      /\ \A i \in 1..(3 * n) : ToLinks(elements)[1 + i] = link(i)
    <2>1. Says("type") \in Seq(DnaLink) /\ Len(Says("type")) = 1 /\ Says("type")[1] = [what |-> "type", of |-> {}]
        BY <1>5, SaysType
    <2>2. \A i \in 1..(3 * n) : rest[i] = link(i)
        OBVIOUS
    <2> HIDE DEF link, n, rest
    <2>3. 3 * n \in Nat
        BY <1>1
    <2>4. /\ ToLinks(elements) \in Seq(DnaLink)
          /\ Len(ToLinks(elements)) = 1 + 3 * n
          /\ ToLinks(elements)[1] = Says("type")[1]
        <3>1. 1 \in DOMAIN Says("type")
            BY <2>1
        <3>2. Says("type") \o rest \in Seq(DnaLink) /\ Len(Says("type") \o rest) = 1 + 3 * n
            <4> HIDE DEF rest, n
            <4>1. Says("type") \in Seq(DnaLink) /\ rest \in Seq(DnaLink)
                BY <1>3, <2>1
            <4>2. /\ Says("type") \o rest \in Seq(DnaLink)
                  /\ Len(Says("type") \o rest) = Len(Says("type")) + Len(rest)
                BY <4>1, JoinedLists
            <4> QED BY <1>3, <2>1, <4>2
        <3>3. (Says("type") \o rest)[1] = Says("type")[1]
            <4> HIDE DEF rest, n
            <4> QED BY <1>3, <2>1, <3>1, JoinedLists
        <3> HIDE DEF rest, n
        <3> QED BY <1>4, <3>2, <3>3
    <2>5. \A i \in 1..(3 * n) : ToLinks(elements)[1 + i] = rest[i]
        <3> HIDE DEF rest, n
        <3>1. DOMAIN rest = 1..(3 * n)
            BY <1>3, <2>3
        <3>2. Says("type") \in Seq(DnaLink) /\ rest \in Seq(DnaLink)
            BY <1>3, <2>1
        <3>3. \A i \in DOMAIN rest : (Says("type") \o rest)[Len(Says("type")) + i] = rest[i]
            BY <3>2, JoinedLists
        <3> QED BY <1>4, <2>1, <3>1, <3>3
    <2> QED BY <2>1, <2>2, <2>4, <2>5
<1>7. \A i \in DOMAIN ToLinks(elements) : ToLinks(elements)[i].of = {} =>
          ToLinks(elements)[i].what = "type"
    <2> HIDE DEF link, n, rest
    <2> TAKE i \in DOMAIN ToLinks(elements)
    <2>1. i = 1 \/ i - 1 \in 1..(3 * n)
        BY <1>1, <1>6
    <2>2. CASE i - 1 \in 1..(3 * n)
        <3>1. ToLinks(elements)[1 + (i - 1)] = link(i - 1)
            BY <2>2, <1>6
        <3>2. 1 + (i - 1) = i
            BY <1>6
        <3> QED BY <3>1, <3>2, <2>2, <1>2
    <2>3. CASE i = 1
        BY <2>3, <1>6
    <2> QED BY <2>1, <2>2, <2>3
<1>8. ASSUME NEW e \in ToSet(elements), NEW j \in 1..3
      PROVE  \E i \in DOMAIN ToLinks(elements) : ToLinks(elements)[i] = ElementLinks(e)[j]
    <2>1. PICK x \in 1..n : elements[x] = e
        BY DEF ToSet
    <2> DEFINE m == 3 * (x - 1) + j
    <2>2. m \in 1..(3 * n) /\ ((m - 1) \div 3) + 1 = x /\ ((m - 1) % 3) + 1 = j
        BY <1>1, ThreeEach
    <2>3. link(m) = ElementLinks(e)[j]
        BY <2>1, <2>2
    <2> HIDE DEF link, n, rest, m
    <2>4. ToLinks(elements)[1 + m] = link(m)
        BY <2>2, <1>6
    <2>5. 1 + m \in DOMAIN ToLinks(elements)
        BY <1>1, <1>6, <2>2
    <2> QED BY <2>3, <2>4, <2>5
<1> QED BY <1>6, <1>7, <1>8

\* The name is the last of the links of addShacl() and addFlow().
LEMMA NamedLinksSay ==
    ASSUME NEW elements \in Seq(Elements)
    PROVE  LET named == NamedLinks(elements) IN
           /\ named \in Seq(DnaLink)
           /\ \A i \in DOMAIN named : named[i] = [what |-> "uri", of |-> {}] => i = Len(named)
           /\ \A e \in ToSet(elements) : \A j \in 1..3 :
                  \E i \in DOMAIN named : named[i] = ElementLinks(e)[j]
<1> DEFINE to == ToLinks(elements)
           first == to \o Says("has_shacl")
           named == NamedLinks(elements)
<1>1. "has_shacl" \in Whats /\ "uri" \in Whats
    BY DEF Whats
<1>2. /\ Says("has_shacl") \in Seq(DnaLink) /\ Len(Says("has_shacl")) = 1
      /\ Says("has_shacl")[1] = [what |-> "has_shacl", of |-> {}]
      /\ Says("uri") \in Seq(DnaLink) /\ Len(Says("uri")) = 1
    BY <1>1, SaysType
<1>3. to \in Seq(DnaLink)
    BY ToLinksSays
<1>4. first \in Seq(DnaLink) /\ Len(first) = Len(to) + 1
    BY <1>2, <1>3, JoinedLists
<1>5. named = first \o Says("uri")
    BY DEF NamedLinks
<1>6. named \in Seq(DnaLink) /\ Len(named) = Len(to) + 2
    <2>1. Len(to) \in Nat
        BY <1>3
    <2> QED BY <1>2, <1>4, <1>5, <2>1, JoinedLists
<1>7. ASSUME NEW i \in DOMAIN named, named[i] = [what |-> "uri", of |-> {}], i # Len(named)
      PROVE  FALSE
    <2>1. i \in 1..(Len(to) + 1) /\ Len(to) \in Nat
        BY <1>3, <1>6, <1>7
    <2>2. i \in DOMAIN first
        BY <1>4, <2>1
    <2>3. named[i] = first[i]
        BY <1>2, <1>4, <1>5, <2>2, JoinedLists
    <2>4. CASE i \in DOMAIN to
        <3>1. first[i] = to[i]
            BY <1>2, <1>3, <2>4, JoinedLists
        <3>2. to[i].of = {} => to[i].what = "type"
            BY <2>4, ToLinksSays
        <3>3. to[i] = [what |-> "uri", of |-> {}]
            BY <3>1, <2>3, <1>7
        <3>4. to[i].of = {} /\ to[i].what = "uri"
            BY <3>3
        <3> HIDE DEF to
        <3> QED BY <3>2, <3>4
    <2>5. CASE i = Len(to) + 1
        <3>1. 1 \in DOMAIN Says("has_shacl")
            BY <1>2
        <3>2. first[Len(to) + 1] = Says("has_shacl")[1]
            BY <1>2, <1>3, <3>1, JoinedLists
        <3> QED BY <3>2, <2>3, <2>5, <1>2, <1>7
    <2> QED BY <2>1, <2>4, <2>5, <1>3
<1>8. ASSUME NEW e \in ToSet(elements), NEW j \in 1..3
      PROVE  \E i \in DOMAIN named : named[i] = ElementLinks(e)[j]
    <2>1. PICK i \in DOMAIN to : to[i] = ElementLinks(e)[j]
        BY ToLinksSays
    <2>2. i \in DOMAIN first /\ first[i] = to[i]
        BY <1>2, <1>3, JoinedLists
    <2>3. i \in DOMAIN named /\ named[i] = first[i]
        BY <1>2, <1>4, <1>5, <2>2, JoinedLists
    <2> QED BY <2>1, <2>2, <2>3
<1> QED BY <1>6, <1>7, <1>8

\* The links of add_sdna() have the class among them.
LEMMA SdnaLinksSay ==
    ASSUME NEW elements \in Seq(Elements)
    PROVE  LET sdna == SdnaLinks(elements) IN
           /\ sdna \in Seq(DnaLink)
           /\ \E i \in DOMAIN sdna : sdna[i] = [what |-> "class", of |-> {}]
<1> DEFINE to == ToLinks(elements)
           four == Says("has_subject_class") \o Says("sdna") \o Says("has_shacl") \o Says("uri")
           first == four \o Says("class")
           sdna == SdnaLinks(elements)
<1>1. /\ Says("has_subject_class") \in Seq(DnaLink) /\ Says("sdna") \in Seq(DnaLink)
      /\ Says("has_shacl") \in Seq(DnaLink) /\ Says("uri") \in Seq(DnaLink)
      /\ Says("class") \in Seq(DnaLink) /\ Len(Says("class")) = 1
      /\ Says("class")[1] = [what |-> "class", of |-> {}]
    BY SaysType DEF Whats
<1>2. to \in Seq(DnaLink)
    BY ToLinksSays
<1>3. four \in Seq(DnaLink)
    BY <1>1, JoinedLists
<1>4. first \in Seq(DnaLink) /\ \E i \in DOMAIN first : first[i] = [what |-> "class", of |-> {}]
    <2> HIDE DEF four
    <2>1. 1 \in DOMAIN Says("class")
        BY <1>1
    <2>2. first \in Seq(DnaLink)
        BY <1>1, <1>3, JoinedLists
    <2>3. Len(four) + 1 \in DOMAIN first /\ first[Len(four) + 1] = Says("class")[1]
        BY <1>1, <1>3, <2>1, JoinedLists
    <2> HIDE DEF first
    <2> QED BY <1>1, <2>2, <2>3
<1>5. sdna = first \o to
    BY DEF SdnaLinks
<1>6. \A i \in DOMAIN first : i \in DOMAIN sdna /\ sdna[i] = first[i]
    <2> HIDE DEF first, to, sdna
    <2> QED BY <1>2, <1>4, <1>5, JoinedLists
<1> QED BY <1>2, <1>4, <1>5, <1>6, JoinedLists
-----------------------------------------------------------------------------
(* Steps *)

LEMMA Versions ==
    ASSUME NEW a \in Apps
    PROVE  /\ Version[a] \in Seq(Elements)
           /\ NamedLinks(Version[a]) \in Seq(DnaLink)
           /\ SdnaLinks(Version[a]) \in Seq(DnaLink)
           /\ ToSet(Version[a]) \subseteq Elements
<1>1. Version[a] \in Seq(Elements)
    BY VersionAssumption
<1>2. ToSet(Version[a]) \subseteq Elements
    BY <1>1 DEF ToSet
<1> QED BY <1>1, <1>2, NamedLinksSay, SdnaLinksSay

\* Links are only added, and the way of adding them does not change.
LEMMA StoreGrows ==
    ASSUME [DnaNext]_dnaVars
    PROVE  way' = way /\ stored \subseteq stored' /\ (torn => torn')
<1>1. ASSUME NEW a \in Apps,
             \/ Add(a) \/ LockMutex(a) \/ CheckClass(a) \/ StoreNext(a) \/ Added(a)
             \/ LookUp(a) \/ ListElements(a) \/ QueryLinks(a)
      PROVE  way' = way /\ stored \subseteq stored' /\ torn' = torn
    BY <1>1 DEF Add, LockMutex, CheckClass, StoreNext, Added, LookUp, ListElements, QueryLinks, adders
<1>2. CASE Restart
    BY <1>2 DEF Restart
<1>3. CASE UNCHANGED dnaVars
    BY <1>3 DEF dnaVars, adders
<1> QED BY <1>1, <1>2, <1>3 DEF DnaNext

LEMMA StillStored ==
    ASSUME stored \subseteq stored'
    PROVE  /\ \A what, of : Stored(what, of) => Stored(what, of)'
           /\ \A seq : AllStored(seq) => AllStored(seq)'
BY DEF Stored, AllStored

LEMMA TypesKept ==
    ASSUME DnaTypeOK, ListsOK, [DnaNext]_dnaVars
    PROVE  DnaTypeOK' /\ ListsOK'
<1>1. ASSUME NEW a \in Apps, Add(a)
      PROVE  DnaTypeOK' /\ ListsOK'
    <2>1. LinksToAdd(a) \in Seq(DnaLink)
        BY Versions DEF LinksToAdd
    <2>2. ListsOK'
        BY <1>1, <2>1 DEF ListsOK, Add, DnaTypeOK
    <2>3. DnaTypeOK'
        BY <1>1 DEF Add, DnaTypeOK, readers
    <2> QED BY <2>2, <2>3
<1>2. ASSUME NEW a \in Apps, LockMutex(a)
      PROVE  DnaTypeOK' /\ ListsOK'
    BY <1>2 DEF LockMutex, DnaTypeOK, ListsOK, readers
<1>3. ASSUME NEW a \in Apps, CheckClass(a)
      PROVE  DnaTypeOK' /\ ListsOK'
    <2>1. LinksToAdd(a) \in Seq(DnaLink)
        BY Versions DEF LinksToAdd
    <2>2. ListsOK'
        BY <1>3, <2>1 DEF ListsOK, CheckClass, DnaTypeOK
    <2>3. DnaTypeOK'
        BY <1>3 DEF CheckClass, DnaTypeOK, readers
    <2> QED BY <2>2, <2>3
<1>4. ASSUME NEW a \in Apps, StoreNext(a)
      PROVE  DnaTypeOK' /\ ListsOK'
    <2>1. toStore[a] \in Seq(DnaLink) /\ toStore[a] # <<>>
        BY <1>4 DEF ListsOK, StoreNext
    <2>2. Head(toStore[a]) \in DnaLink /\ Tail(toStore[a]) \in Seq(DnaLink)
        BY <2>1
    <2>3. ListsOK'
        BY <1>4, <2>2 DEF ListsOK, StoreNext, DnaTypeOK
    <2>4. \A l \in stored' : l.by \in Apps /\ l.of \subseteq Elements
        BY <1>4, <2>2 DEF StoreNext, DnaTypeOK, DnaLink
    <2>5. DnaTypeOK'
        BY <1>4, <2>4 DEF StoreNext, DnaTypeOK, readers
    <2> QED BY <2>3, <2>5
<1>5. ASSUME NEW a \in Apps, Added(a)
      PROVE  DnaTypeOK' /\ ListsOK'
    BY <1>5 DEF Added, DnaTypeOK, ListsOK, readers
<1>6. ASSUME NEW a \in Apps, LookUp(a)
      PROVE  DnaTypeOK' /\ ListsOK'
    BY <1>6 DEF LookUp, DnaTypeOK, ListsOK, adders, NothingRead
<1>7. ASSUME NEW a \in Apps, ListElements(a)
      PROVE  DnaTypeOK' /\ ListsOK'
    BY <1>7 DEF ListElements, DnaTypeOK, ListsOK, adders
<1>8. ASSUME NEW a \in Apps, QueryLinks(a)
      PROVE  DnaTypeOK' /\ ListsOK'
    BY <1>8 DEF QueryLinks, DnaTypeOK, ListsOK, adders
<1>9. CASE Restart
    <2>1. restarts' \in 0..MaxRestarts
        BY <1>9, VersionAssumption DEF Restart, DnaTypeOK
    <2>2. torn' \in BOOLEAN
        BY <1>9 DEF Restart
    <2> QED BY <1>9, <2>1, <2>2 DEF Restart, DnaTypeOK, ListsOK
<1>10. CASE UNCHANGED dnaVars
    BY <1>10 DEF dnaVars, adders, readers, DnaTypeOK, ListsOK
<1> QED BY <1>1, <1>2, <1>3, <1>4, <1>5, <1>6, <1>7, <1>8, <1>9, <1>10 DEF DnaNext

\* A client about to store seq has all of it left.
LEMMA StoringBegins ==
    ASSUME NEW a \in Apps, NEW seq \in Seq(DnaLink), toStore'[a] = seq
    PROVE  Storing(a, seq)'
<1>1. 0 \in 0..Len(seq) /\ Len(seq) - 0 = Len(seq) /\ \A i \in 1..Len(seq) : 0 + i = i
    OBVIOUS
<1>2. StoredUpTo(a, seq, 0)'
    BY <1>1 DEF StoredUpTo
<1> QED BY <1>1, <1>2 DEF Storing

LEMMA StoringGoesOn ==
    ASSUME ListsOK, stored \subseteq stored', NEW a \in Apps, NEW seq \in Seq(DnaLink),
           Storing(a, seq), toStore'[a] = toStore[a] \/ StoreNext(a)
    PROVE  Storing(a, seq)'
<1>1. PICK k \in 0..Len(seq) : StoredUpTo(a, seq, k)
    BY DEF Storing
<1>2. CASE toStore'[a] = toStore[a]
    <2>1. StoredUpTo(a, seq, k)'
        BY <1>1, <1>2, StillStored DEF StoredUpTo
    <2> QED BY <2>1 DEF Storing
<1>3. CASE StoreNext(a)
    <2> DEFINE rest == toStore[a]
    <2>1. rest \in Seq(DnaLink) /\ rest # <<>> /\ Len(rest) \in Nat \ {0} /\ Len(seq) \in Nat
        BY <1>3 DEF StoreNext, ListsOK
    <2>2. /\ toStore'[a] = Tail(rest)
          /\ Len(Tail(rest)) = Len(rest) - 1
          /\ \A i \in 1..(Len(rest) - 1) : Tail(rest)[i] = rest[i + 1]
          /\ Head(rest) = rest[1]
        BY <1>3, <2>1 DEF StoreNext, ListsOK
    <2>3. Len(rest) = Len(seq) - k /\ rest[1] = seq[k + 1] /\ k + 1 \in 0..Len(seq)
        <3>1. 1 \in 1..Len(rest)
            BY <2>1
        <3>2. Len(rest) = Len(seq) - k /\ \A i \in 1..Len(rest) : rest[i] = seq[k + i]
            BY <1>1 DEF StoredUpTo
        <3>3. rest[1] = seq[k + 1]
            BY <3>1, <3>2
        <3> HIDE DEF rest
        <3>4. k + 1 \in 0..Len(seq)
            <4>1. k \in 0..Len(seq) /\ Len(seq) - k >= 1
                BY <2>1, <3>2
            <4> QED BY <4>1, <2>1
        <3> QED BY <3>2, <3>3, <3>4
    <2>4. Stored(seq[k + 1].what, seq[k + 1].of)'
        <3> DEFINE l == [what |-> seq[k + 1].what, of |-> seq[k + 1].of, by |-> a]
        <3>1. l \in stored'
            BY <1>3, <2>2, <2>3 DEF StoreNext
        <3>2. l.what = seq[k + 1].what /\ l.of = seq[k + 1].of
            OBVIOUS
        <3> HIDE DEF l
        <3> QED BY <3>1, <3>2 DEF Stored
    <2>5. \A i \in 1..(k + 1) : Stored(seq[i].what, seq[i].of)'
        BY <1>1, <2>4, StillStored DEF StoredUpTo
    <2>6. \A i \in 1..Len(Tail(rest)) : Tail(rest)[i] = seq[k + 1 + i]
        <3> TAKE i \in 1..Len(Tail(rest))
        <3>1. i + 1 \in 1..Len(rest) /\ Tail(rest)[i] = rest[i + 1]
            BY <2>1, <2>2
        <3>2. rest[i + 1] = seq[k + (i + 1)]
            BY <3>1, <1>1 DEF StoredUpTo
        <3> QED BY <3>1, <3>2
    <2>7. Len(Tail(rest)) = Len(seq) - (k + 1)
        BY <2>1, <2>2, <2>3
    <2>8. StoredUpTo(a, seq, k + 1)'
        <3> HIDE DEF rest
        <3> QED BY <2>2, <2>5, <2>6, <2>7 DEF StoredUpTo
    <2> QED BY <2>3, <2>8 DEF Storing
<1> QED BY <1>2, <1>3

\* Nothing left to store: all is stored.
LEMMA StoringEnds ==
    ASSUME NEW a \in Apps, NEW seq \in Seq(DnaLink), Storing(a, seq), toStore[a] = <<>>
    PROVE  AllStored(seq)
<1>1. PICK k \in 0..Len(seq) : StoredUpTo(a, seq, k)
    BY DEF Storing
<1>2. k = Len(seq)
    BY <1>1 DEF StoredUpTo
<1> QED BY <1>1, <1>2 DEF StoredUpTo, AllStored
-----------------------------------------------------------------------------
(* The name comes last *)

LEMMA NamedStoring ==
    ASSUME DnaTypeOK, ListsOK, NameComesLast, way # "addSdna", [DnaNext]_dnaVars,
           NEW a \in Apps, adding'[a] = "storing"
    PROVE  Storing(a, NamedLinks(Version[a]))'
<1> DEFINE seq == NamedLinks(Version[a])
<1>1. seq \in Seq(DnaLink) /\ stored \subseteq stored'
    BY Versions, StoreGrows
<1>2. CASE Add(a)
    <2>1. toStore'[a] = seq
        BY <1>2 DEF Add, LinksToAdd, ListsOK
    <2>2. Storing(a, seq)'
        <3> HIDE DEF seq
        <3> QED BY <1>1, <2>1, StoringBegins
    <2> QED BY <2>2
<1>3. CASE adding[a] = "storing" /\ (toStore'[a] = toStore[a] \/ StoreNext(a))
    <2>1. Storing(a, seq)
        BY <1>3 DEF NameComesLast
    <2>2. Storing(a, seq)'
        <3> HIDE DEF seq
        <3> QED BY <1>1, <1>3, <2>1, StoringGoesOn
    <2> QED BY <2>2
<1>4. Add(a) \/ adding[a] = "storing"
    <2>1. ASSUME NEW b \in Apps, CheckClass(b)
          PROVE  adding[b] = "checking"
        BY <2>1 DEF CheckClass
    <2>2. ASSUME NEW b \in Apps,
                 LockMutex(b) \/ StoreNext(b) \/ Added(b)
                 \/ LookUp(b) \/ ListElements(b) \/ QueryLinks(b)
          PROVE  adding[a] = "storing"
        BY <2>2 DEF DnaTypeOK, LockMutex, StoreNext, Added, LookUp, ListElements, QueryLinks, adders
    <2>3. ASSUME NEW b \in Apps, Add(b)
          PROVE  b = a \/ adding[a] = "storing"
        BY <2>3 DEF Add, DnaTypeOK
    <2>4. CASE Restart \/ UNCHANGED dnaVars
        BY <2>4 DEF Restart, dnaVars, adders
    <2>5. ASSUME NEW b \in Apps, CheckClass(b)
          PROVE  Add(a) \/ adding[a] = "storing"
        BY <2>5 DEF CheckClass, NameComesLast, DnaTypeOK
    <2> QED BY <2>2, <2>3, <2>4, <2>5 DEF DnaNext
<1>5. adding[a] = "storing" => toStore'[a] = toStore[a] \/ StoreNext(a)
    <2>1. ASSUME NEW b \in Apps,
                 Add(b) \/ LockMutex(b) \/ CheckClass(b) \/ Added(b)
                 \/ LookUp(b) \/ ListElements(b) \/ QueryLinks(b), adding[a] = "storing"
          PROVE  toStore'[a] = toStore[a]
        BY <2>1 DEF DnaTypeOK, ListsOK, Add, LockMutex, CheckClass, Added, LookUp, ListElements,
                    QueryLinks, adders
    <2>2. ASSUME NEW b \in Apps, StoreNext(b), b # a
          PROVE  toStore'[a] = toStore[a]
        BY <2>2 DEF StoreNext, ListsOK
    <2>3. CASE Restart
        BY <2>3 DEF Restart
    <2>4. CASE UNCHANGED dnaVars
        BY <2>4 DEF dnaVars, adders
    <2> QED BY <2>1, <2>2, <2>3, <2>4 DEF DnaNext
<1> QED BY <1>2, <1>3, <1>4, <1>5

\* The name is stored when all that comes before it is.
LEMMA NameStored ==
    ASSUME DnaTypeOK, ListsOK, NameComesLast, way # "addSdna", [DnaNext]_dnaVars,
           Stored("uri", {})'
    PROVE  \E b \in Apps : WholeVersion(b)'
<1>1. stored \subseteq stored'
    BY StoreGrows
<1>2. CASE Stored("uri", {})
    <2>1. PICK b \in Apps : WholeVersion(b)
        BY <1>2 DEF NameComesLast
    <2>2. WholeVersion(b)'
        BY <1>1, <2>1, StillStored DEF WholeVersion
    <2> QED BY <2>2
<1>3. ASSUME NEW a \in Apps, StoreNext(a), ~Stored("uri", {})
      PROVE  WholeVersion(a)'
    <2> DEFINE seq == NamedLinks(Version[a])
    <2>1. seq \in Seq(DnaLink) /\ Len(seq) \in Nat
        BY Versions
    <2>2. PICK k \in 0..Len(seq) : StoredUpTo(a, seq, k)
        BY <1>3 DEF StoreNext, NameComesLast, Storing
    <2>3. toStore[a] \in Seq(DnaLink) /\ toStore[a] # <<>> /\ Len(toStore[a]) \in Nat \ {0}
        BY <1>3 DEF StoreNext, ListsOK
    <2>4. Head(toStore[a]) = seq[k + 1] /\ k + 1 \in DOMAIN seq
        <3>1. 1 \in 1..Len(toStore[a]) /\ Head(toStore[a]) = toStore[a][1]
            BY <2>3
        <3> HIDE DEF seq
        <3> QED BY <2>1, <2>2, <2>3, <3>1 DEF StoredUpTo
    <2>5. seq[k + 1] \in DnaLink
        <3> HIDE DEF seq
        <3> QED BY <2>1, <2>4
    <2>6. PICK l \in stored' : l.what = "uri" /\ l.of = {}
        BY DEF Stored
    <2>7. l \notin stored
        BY <1>3, <2>6 DEF Stored
    <2>8. l = [what |-> seq[k + 1].what, of |-> seq[k + 1].of, by |-> a]
        <3> HIDE DEF seq
        <3> QED BY <1>3, <2>4, <2>6, <2>7 DEF StoreNext
    <2>9. seq[k + 1] = [what |-> "uri", of |-> {}]
        <3> HIDE DEF seq
        <3>1. seq[k + 1].what = "uri" /\ seq[k + 1].of = {}
            BY <2>6, <2>8
        <3> QED BY <2>5, <3>1 DEF DnaLink
    <2>10. k + 1 = Len(seq)
        BY <2>4, <2>9, Versions, NamedLinksSay
    <2>11. \A i \in 1..k : Stored(seq[i].what, seq[i].of)'
        BY <1>1, <2>2, StillStored DEF StoredUpTo
    <2>12. \A i \in DOMAIN seq : Stored(seq[i].what, seq[i].of)'
        <3>1. Stored(seq[k + 1].what, seq[k + 1].of)'
            <4> HIDE DEF seq
            <4> QED BY <2>6, <2>8 DEF Stored
        <3> HIDE DEF seq
        <3> TAKE i \in DOMAIN seq
        <3>2. i \in 1..k \/ i = k + 1
            BY <2>1, <2>10
        <3> QED BY <3>1, <3>2, <2>11
    <2> QED BY <2>12 DEF WholeVersion, AllStored
<1>4. CASE UNCHANGED stored
    <2>1. Stored("uri", {})
        BY <1>4 DEF Stored
    <2> QED BY <2>1, <1>2
<1>5. (\E a \in Apps : StoreNext(a)) \/ UNCHANGED stored
    BY DEF DnaNext, dnaVars, adders, Add, LockMutex, CheckClass, Added, LookUp, ListElements,
           QueryLinks, Restart
<1> QED BY <1>2, <1>3, <1>4, <1>5

\* A stored version is there with all its elements, and all that is said of them.
LEMMA WholeVersionSays ==
    ASSUME NEW b \in Apps, WholeVersion(b), NEW e \in ToSet(Version[b])
    PROVE  Stored("element", {e}) /\ Whole(e)
<1>1. e \in Elements
    BY Versions
<1>2. \A j \in 1..3 : Stored(ElementLinks(e)[j].what, ElementLinks(e)[j].of)
    <2> TAKE j \in 1..3
    <2>1. PICK i \in DOMAIN NamedLinks(Version[b]) : NamedLinks(Version[b])[i] = ElementLinks(e)[j]
        BY Versions, NamedLinksSay
    <2> QED BY <2>1 DEF WholeVersion, AllStored
<1>3. Stored("element", {e})
    <2>1. ElementLinks(e)[1].what = "element" /\ ElementLinks(e)[1].of = {e}
        BY <1>1, ElementLinksType
    <2> QED BY <1>2, <2>1
<1>4. DOMAIN ElementLinks(e) = 1..3
    BY DEF ElementLinks
<1> QED BY <1>2, <1>3, <1>4 DEF Whole, ToSet

\* Who goes on reading has found a name.
LEMMA ReadersKept ==
    ASSUME DnaTypeOK, ListsOK, NameComesLast, way # "addSdna", [DnaNext]_dnaVars,
           NEW a \in Apps, reading'[a] # "no"
    PROVE  \E b \in Apps : /\ WholeVersion(b)'
                           /\ reading'[a] = "querying" => ToSet(Version[b]) \subseteq sources'[a]
<1>1. stored \subseteq stored'
    BY StoreGrows
<1>2. CASE LookUp(a)
    <2>1. Stored("uri", {})'
        BY <1>2 DEF LookUp, DnaTypeOK, Stored, adders
    <2>2. PICK b \in Apps : WholeVersion(b)'
        BY <2>1, NameStored
    <2>3. reading'[a] = "querying" => sources'[a] = Elements
        BY <1>2 DEF LookUp, DnaTypeOK
    <2> QED BY <2>2, <2>3, Versions
<1>3. CASE ListElements(a)
    <2>1. PICK b \in Apps : WholeVersion(b)
        BY <1>3 DEF ListElements, NameComesLast
    <2>2. sources'[a] = {e \in Elements : Stored("element", {e})}
        BY <1>3 DEF ListElements, DnaTypeOK
    <2>3. ToSet(Version[b]) \subseteq sources'[a]
        BY <2>1, <2>2, WholeVersionSays, Versions
    <2>4. WholeVersion(b)'
        BY <1>1, <2>1, StillStored DEF WholeVersion
    <2> QED BY <2>3, <2>4
<1>4. CASE reading'[a] = reading[a] /\ sources'[a] = sources[a]
    <2>1. PICK b \in Apps : /\ WholeVersion(b)
                            /\ reading[a] = "querying" => ToSet(Version[b]) \subseteq sources[a]
        BY <1>4 DEF NameComesLast
    <2>2. WholeVersion(b)'
        BY <1>1, <2>1, StillStored DEF WholeVersion
    <2> QED BY <1>4, <2>1, <2>2
<1>5. LookUp(a) \/ ListElements(a) \/ (reading'[a] = reading[a] /\ sources'[a] = sources[a])
    <2>1. ASSUME NEW b \in Apps, b # a, LookUp(b) \/ ListElements(b) \/ QueryLinks(b)
          PROVE  reading'[a] = reading[a] /\ sources'[a] = sources[a]
        BY <2>1 DEF LookUp, ListElements, QueryLinks, DnaTypeOK
    <2>2. CASE QueryLinks(a) \/ Restart
        BY <2>2 DEF QueryLinks, Restart, DnaTypeOK
    <2>3. ASSUME NEW b \in Apps,
                 Add(b) \/ LockMutex(b) \/ CheckClass(b) \/ StoreNext(b) \/ Added(b)
          PROVE  reading'[a] = reading[a] /\ sources'[a] = sources[a]
        BY <2>3 DEF Add, LockMutex, CheckClass, StoreNext, Added, readers
    <2>4. CASE UNCHANGED dnaVars
        BY <2>4 DEF dnaVars, readers
    <2> QED BY <2>1, <2>2, <2>3, <2>4 DEF DnaNext
<1> QED BY <1>2, <1>3, <1>4, <1>5

LEMMA NameComesLastKept ==
    ASSUME DnaTypeOK, ListsOK, NameComesLast, way # "addSdna", [DnaNext]_dnaVars
    PROVE  NameComesLast'
<1>1. \A a \in Apps : adding'[a] \notin {"waiting", "checking"}
    BY DEF NameComesLast, DnaTypeOK, DnaNext, dnaVars, adders, Add, LockMutex, CheckClass,
           StoreNext, Added, LookUp, ListElements, QueryLinks, Restart
<1> QED BY <1>1, NamedStoring, NameStored, ReadersKept DEF NameComesLast

LEMMA ResultsKept ==
    ASSUME DnaTypeOK, ListsOK, way # "addSdna" => NameComesLast, FoundIsComplete,
           [DnaNext]_dnaVars
    PROVE  FoundIsComplete'
<1> SUFFICES ASSUME way' # "addSdna", NEW a \in Apps, result'[a].found
             PROVE  \E b \in Apps : ToSet(Version[b]) \subseteq result'[a].complete
    BY DEF FoundIsComplete
<1>1. way # "addSdna"
    BY StoreGrows
<1>2. CASE result'[a] = result[a]
    BY <1>1, <1>2 DEF FoundIsComplete
<1>3. CASE LookUp(a)
    BY <1>3 DEF LookUp, DnaTypeOK, NothingRead
<1>4. CASE QueryLinks(a)
    <2>1. PICK b \in Apps : WholeVersion(b) /\ ToSet(Version[b]) \subseteq sources[a]
        BY <1>1, <1>4 DEF QueryLinks, NameComesLast
    <2>2. result'[a].complete = {e \in sources[a] : Whole(e)}
        BY <1>4 DEF QueryLinks, DnaTypeOK
    <2> QED BY <2>1, <2>2, WholeVersionSays
<1>5. LookUp(a) \/ QueryLinks(a) \/ result'[a] = result[a]
    <2>1. ASSUME NEW b \in Apps, b # a, LookUp(b) \/ QueryLinks(b)
          PROVE  result'[a] = result[a]
        BY <2>1 DEF LookUp, QueryLinks, DnaTypeOK
    <2>2. ASSUME NEW b \in Apps,
                 \/ Add(b) \/ LockMutex(b) \/ CheckClass(b) \/ StoreNext(b) \/ Added(b)
                 \/ ListElements(b)
          PROVE  result'[a] = result[a]
        BY <2>2 DEF Add, LockMutex, CheckClass, StoreNext, Added, readers, ListElements
    <2>3. CASE Restart \/ UNCHANGED dnaVars
        BY <2>3 DEF Restart, dnaVars, readers
    <2> QED BY <2>1, <2>2, <2>3 DEF DnaNext
<1> QED BY <1>2, <1>3, <1>4, <1>5
-----------------------------------------------------------------------------
(* One client at a time *)

LEMMA OnlyVersionStays ==
    ASSUME stored \subseteq stored', NEW b \in Apps, OnlyVersion(b), \A l \in stored' : l.by = b
    PROVE  OnlyVersion(b)'
BY StillStored DEF OnlyVersion

\* What is stored last completes a version: there was nothing else before it.
LEMMA StoredWhole ==
    ASSUME NEW a \in Apps, Storing(a, SdnaLinks(Version[a])), \A l \in stored : l.by = a,
           toStore[a] = <<>>
    PROVE  OnlyVersion(a)
BY Versions, StoringEnds DEF OnlyVersion

LEMMA ClassOfVersion ==
    ASSUME NEW b \in Apps, OnlyVersion(b)
    PROVE  Stored("class", {}) /\ stored # {}
<1>1. PICK i \in DOMAIN SdnaLinks(Version[b]) : SdnaLinks(Version[b])[i] = [what |-> "class", of |-> {}]
    BY Versions, SdnaLinksSay
<1>2. Stored("class", {})
    BY <1>1 DEF OnlyVersion, AllStored
<1> QED BY <1>2 DEF Stored

LEMMA OneAtATimeKept ==
    ASSUME DnaTypeOK, ListsOK, way = "addSdna", ~torn, OneAtATime, [DnaNext]_dnaVars, ~torn'
    PROVE  OneAtATime'
<1>1. stored \subseteq stored'
    BY StoreGrows
<1>2. CASE UNCHANGED <<stored, toStore>> /\ UNCHANGED <<adding, mutex>>
    BY <1>2 DEF OneAtATime, Storing, StoredUpTo, OnlyVersion, AllStored, Stored
<1>3. ASSUME NEW a \in Apps, Add(a)
      PROVE  OneAtATime'
    <2>1. UNCHANGED <<stored, mutex>> /\ toStore' = [toStore EXCEPT ![a] = <<>>]
          /\ adding' = [adding EXCEPT ![a] = "waiting"] /\ adding[a] = "no"
        BY <1>3 DEF Add
    <2>2. toStore' = toStore
        BY <2>1 DEF ListsOK
    <2>3. \A c \in Apps : adding'[c] # "waiting" => adding'[c] = adding[c]
        BY <2>1 DEF DnaTypeOK
    <2>4. (\A c \in Apps : adding'[c] # "storing") => (\A c \in Apps : adding[c] # "storing")
        BY <2>1 DEF DnaTypeOK
    <2> QED BY <2>1, <2>2, <2>3, <2>4
            DEF OneAtATime, Storing, StoredUpTo, OnlyVersion, AllStored, Stored
<1>4. ASSUME NEW a \in Apps, LockMutex(a)
      PROVE  OneAtATime'
    <2>1. /\ UNCHANGED <<stored, toStore>> /\ mutex = {} /\ mutex' = {a}
          /\ adding' = [adding EXCEPT ![a] = "checking"] /\ adding[a] = "waiting"
        BY <1>4 DEF LockMutex
    <2>2. \A c \in Apps : adding[c] \notin {"checking", "storing"}
        BY <2>1 DEF OneAtATime
    <2>3. \A c \in Apps : c # a => adding'[c] = adding[c]
        BY <2>1 DEF DnaTypeOK
    <2>4. adding'[a] = "checking"
        BY <2>1 DEF DnaTypeOK
    <2> QED BY <2>1, <2>2, <2>3, <2>4 DEF OneAtATime, OnlyVersion, AllStored, Stored
<1>5. ASSUME NEW a \in Apps, CheckClass(a)
      PROVE  OneAtATime'
    <2>1. /\ UNCHANGED <<stored, mutex>> /\ adding[a] = "checking" /\ mutex = {a}
          /\ adding' = [adding EXCEPT ![a] = "storing"]
          /\ toStore' = [toStore EXCEPT ![a] = IF Stored("class", {}) THEN <<>> ELSE LinksToAdd(a)]
        BY <1>5 DEF CheckClass, OneAtATime
    <2>2. \A c \in Apps : c # a => adding'[c] = adding[c] /\ adding[c] \notin {"checking", "storing"}
        BY <2>1 DEF DnaTypeOK, OneAtATime
    <2>3. stored = {} \/ \E b \in Apps : OnlyVersion(b)
        BY <2>1, <2>2 DEF OneAtATime
    <2>4. \A b \in Apps : OnlyVersion(b) => OnlyVersion(b)'
        BY <2>1 DEF OnlyVersion, AllStored, Stored
    <2>5. \/ Storing(a, SdnaLinks(Version[a]))' /\ \A l \in stored' : l.by = a
          \/ toStore'[a] = <<>> /\ \E b \in Apps : OnlyVersion(b)'
        <3>1. CASE Stored("class", {})
            <4>1. toStore'[a] = <<>>
                BY <2>1, <3>1 DEF ListsOK
            <4>2. stored # {}
                BY <3>1 DEF Stored
            <4> QED BY <4>1, <4>2, <2>3, <2>4
        <3>2. CASE ~Stored("class", {})
            <4>1. toStore'[a] = SdnaLinks(Version[a])
                BY <2>1, <3>2 DEF ListsOK, LinksToAdd
            <4>2. Storing(a, SdnaLinks(Version[a]))'
                <5>1. SdnaLinks(Version[a]) \in Seq(DnaLink)
                    BY Versions
                <5> QED BY <4>1, <5>1, StoringBegins
            <4>3. stored' = {}
                BY <2>1, <2>3, <3>2, ClassOfVersion
            <4> QED BY <4>2, <4>3
        <3> QED BY <3>1, <3>2
    <2>6. adding'[a] = "storing"
        BY <2>1 DEF DnaTypeOK
    <2> QED BY <2>1, <2>2, <2>4, <2>5, <2>6 DEF OneAtATime
<1>6. ASSUME NEW a \in Apps, StoreNext(a)
      PROVE  OneAtATime'
    <2>1. /\ UNCHANGED <<adding, mutex>> /\ adding[a] = "storing" /\ mutex = {a}
          /\ toStore[a] # <<>> /\ \A l \in stored' : l \in stored \/ l.by = a
        BY <1>6 DEF StoreNext, OneAtATime
    <2>2. \A c \in Apps : c # a => adding[c] \notin {"checking", "storing"}
        BY <2>1 DEF OneAtATime
    <2>3. Storing(a, SdnaLinks(Version[a])) /\ \A l \in stored : l.by = a
        BY <2>1 DEF OneAtATime
    <2>4. \A l \in stored' : l.by = a
        BY <2>1, <2>3
    <2>5. Storing(a, SdnaLinks(Version[a]))'
        BY <1>1, <1>6, <2>3, Versions, StoringGoesOn
    <2>6. \A b \in Apps : OnlyVersion(b) => OnlyVersion(b)'
        <3> TAKE b \in Apps
        <3> HAVE OnlyVersion(b)
        <3>1. b = a
            BY <2>3, ClassOfVersion DEF OnlyVersion
        <3> QED BY <1>1, <2>4, <3>1, OnlyVersionStays
    <2> QED BY <2>1, <2>2, <2>4, <2>5, <2>6 DEF OneAtATime
<1>7. ASSUME NEW a \in Apps, Added(a)
      PROVE  OneAtATime'
    <2>1. /\ UNCHANGED <<stored, toStore>> /\ adding[a] = "storing" /\ mutex = {a}
          /\ toStore[a] = <<>>
          /\ adding' = [adding EXCEPT ![a] = "done"]
        BY <1>7 DEF Added, OneAtATime
    <2>2. \A c \in Apps : c # a => adding'[c] = adding[c] /\ adding[c] \notin {"checking", "storing"}
        BY <2>1 DEF DnaTypeOK, OneAtATime
    <2>3. \E b \in Apps : OnlyVersion(b)
        BY <2>1, StoredWhole DEF OneAtATime
    <2>4. \E b \in Apps : OnlyVersion(b)'
        BY <2>1, <2>3 DEF OnlyVersion, AllStored, Stored
    <2>5. adding'[a] = "done"
        BY <2>1 DEF DnaTypeOK
    <2> QED BY <2>2, <2>4, <2>5 DEF OneAtATime
<1>8. CASE Restart
    <2>1. /\ UNCHANGED stored /\ \A c \in Apps : toStore[c] = <<>>
          /\ \A c \in Apps : adding'[c] = IF adding[c] = "done" THEN "done" ELSE "no"
        BY <1>8 DEF Restart
    <2>2. stored = {} \/ \E b \in Apps : OnlyVersion(b)
        BY <2>1, StoredWhole DEF OneAtATime
    <2>3. \A b \in Apps : OnlyVersion(b) => OnlyVersion(b)'
        BY <2>1 DEF OnlyVersion, AllStored, Stored
    <2> QED BY <2>1, <2>2, <2>3 DEF OneAtATime
<1>9. \/ UNCHANGED <<stored, toStore>> /\ UNCHANGED <<adding, mutex>>
      \/ \E a \in Apps : Add(a) \/ LockMutex(a) \/ CheckClass(a) \/ StoreNext(a) \/ Added(a)
      \/ Restart
    BY DEF DnaNext, dnaVars, adders, LookUp, ListElements, QueryLinks
<1> QED BY <1>2, <1>3, <1>4, <1>5, <1>6, <1>7, <1>8, <1>9

-----------------------------------------------------------------------------

LEMMA DnaInitially == DnaInit => DnaInv
<1> SUFFICES ASSUME DnaInit PROVE DnaInv
    OBVIOUS
<1>1. DnaTypeOK
    <2>1. restarts \in 0..MaxRestarts
        BY VersionAssumption DEF DnaInit
    <2>2. \A l \in stored : l.by \in Apps /\ l.of \subseteq Elements
        BY DEF DnaInit
    <2>3. result \in [Apps -> [found : BOOLEAN, complete : SUBSET Elements]]
        BY DEF DnaInit, NothingRead
    <2>4. /\ adding \in [Apps -> {"no", "waiting", "checking", "storing", "done"}]
          /\ reading \in [Apps -> {"no", "found", "querying"}]
        BY DEF DnaInit
    <2>5. /\ way \in {"addShacl", "addSdna", "addFlow"} /\ torn \in BOOLEAN
          /\ mutex \subseteq Apps /\ sources \in [Apps -> SUBSET Elements]
        BY DEF DnaInit
    <2> QED BY <2>1, <2>2, <2>3, <2>4, <2>5 DEF DnaTypeOK
<1>2. ListsOK
    BY DEF DnaInit, ListsOK
<1>3. NameComesLast
    BY DEF DnaInit, NameComesLast, Stored
<1>4. FoundIsComplete
    BY DEF DnaInit, FoundIsComplete, NothingRead
<1>5. OneAtATime
    BY DEF DnaInit, OneAtATime
<1> QED BY <1>1, <1>2, <1>3, <1>4, <1>5 DEF DnaInv

LEMMA DnaInvariant == DnaSpec => []DnaInv
<1>1. DnaInv /\ [DnaNext]_dnaVars => DnaInv'
    <2> SUFFICES ASSUME DnaInv, [DnaNext]_dnaVars PROVE DnaInv'
        OBVIOUS
    <2>1. way' = way /\ (torn => torn')
        BY StoreGrows
    <2>2. DnaTypeOK' /\ ListsOK'
        BY TypesKept DEF DnaInv
    <2>3. way' # "addSdna" => NameComesLast'
        BY <2>1, NameComesLastKept DEF DnaInv
    <2>4. FoundIsComplete'
        BY ResultsKept DEF DnaInv
    <2>5. (way' = "addSdna" /\ ~torn') => OneAtATime'
        BY <2>1, OneAtATimeKept DEF DnaInv
    <2> QED BY <2>2, <2>3, <2>4, <2>5 DEF DnaInv
<1> QED BY <1>1, DnaInitially, PTL DEF DnaSpec

\* The requests' states, the links they store and what readers get have their types.
THEOREM DnaTypeCorrect == DnaSpec => []DnaTypeOK
<1>1. DnaInv => DnaTypeOK
    BY DEF DnaInv
<1> QED BY <1>1, DnaInvariant, PTL

\* Whatever clients, versions and elements there are: because the name is stored last, a
\* shape or flow that getShacl() or getFlow() finds is complete, also when an executor
\* stopped in the middle of adding it.
THEOREM WhatIsFoundIsComplete == DnaSpec => []FoundIsComplete
<1>1. DnaInv => FoundIsComplete
    BY DEF DnaInv
<1> QED BY <1>1, DnaInvariant, PTL

\* Any number of clients that ensure a class at once add one version of it, and each has
\* the whole of it when its call returns, unless a restart tore an addition.
THEOREM ClassAddedOnce == DnaSpec => []AddedOnceAndWhole
<1>1. DnaInv => AddedOnceAndWhole
    <2> SUFFICES ASSUME DnaInv, way = "addSdna", ~torn
                 PROVE  /\ \A k, l \in stored : k.by = l.by
                        /\ \A a \in Apps : adding[a] = "done" =>
                               \E b \in Apps : \A i \in DOMAIN SdnaLinks(Version[b]) :
                                   LET l == SdnaLinks(Version[b])[i] IN Stored(l.what, l.of)
        BY DEF AddedOnceAndWhole
    <2>1. OneAtATime
        BY DEF DnaInv
    <2>2. \A k, l \in stored : k.by = l.by
        BY <2>1 DEF OneAtATime, OnlyVersion
    <2>3. ASSUME NEW a \in Apps, adding[a] = "done"
          PROVE  \E b \in Apps : \A i \in DOMAIN SdnaLinks(Version[b]) :
                     LET l == SdnaLinks(Version[b])[i] IN Stored(l.what, l.of)
        BY <2>1, <2>3 DEF OneAtATime, OnlyVersion, AllStored
    <2> QED BY <2>2, <2>3
<1> QED BY <1>1, DnaInvariant, PTL
=============================================================================
