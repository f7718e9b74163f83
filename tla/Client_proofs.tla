---------------------------- MODULE Client_proofs ----------------------------
(* The TypeScript client, for any number of clients, fields, instances and       *)
(* requests: the value written last stays, paging misses no instance, and a      *)
(* subscribed proxy keeps its subscription alive.                                *)
EXTENDS ModelUpdates, ModelQueries, SubscriptionProxy, TLAPS, SequenceTheorems, FiniteSetTheorems

-----------------------------------------------------------------------------
(* Writing instances *)

\* Where a request is tells which of its fields are in use.
RequestOK(c) ==
    /\ step[c] \in {"removing", "found", "adding"} => commands[c] # <<>>
    /\ step[c] \in {"idle", "committing"} => commands[c] = <<>>
    /\ step[c] \in {"idle", "command", "adding", "committing"} => matched[c] = {}
    /\ mode[c] = "mutation" => matched[c] = {}
    /\ step[c] \in {"found", "adding"} => mode[c] = "direct"
    /\ step[c] = "committing" => mode[c] # "direct"
    /\ step[c] = "idle" => mode[c] = "direct"
    /\ step[c] \in {"adding", "committing"} => signed[c] \in 1..now
    /\ (mode[c] = "direct" /\ step[c] # "found") => removals[c] = {}
    /\ (mode[c] = "direct" /\ step[c] # "adding") => additions[c] = {}

RequestsOK == \A c \in Clients : RequestOK(c)

\* What a client sends when it writes.
Sent(c, values, cmds) == \E m \in {"direct", "batch", "mutation"}, r \in BOOLEAN : Send(c, values, cmds, m, r)

Old == [predicate : Predicates, target : Targets, time : 1..now]

\* Without delete(), the commands of a request write each field once, and one value.
WritesOnce(cmds) ==
    /\ \A i, j \in 1..Len(cmds) : cmds[i].predicate = cmds[j].predicate => i = j
    /\ \A i \in 1..Len(cmds) :
           /\ cmds[i].action # "removeLink"
           /\ cmds[i].predicate \in Properties => \E v \in Targets : cmds[i].targets = {v}

OneValueEach(values) == \A p \in Properties : \A v, w \in values[p] : v = w

\* What client c has noted fits to its commands: a value for each property it removes a
\* link of, and links that it removes from the oldest to the latest.
CommandsFit(c) ==
    /\ WritesOnce(commands[c])
    /\ \A p \in Properties : \A v, w \in Targets :
           <<p, v>> \in additions[c] /\ <<p, w>> \in additions[c] => v = w
    /\ mode[c] # "direct" =>
           \A i \in 1..Len(commands[c]), v \in Targets : <<commands[c][i].predicate, v>> \notin additions[c]
    /\ \A l \in matched[c] : l.predicate = Head(commands[c]).predicate
    /\ \A l, m \in matched[c] : l.predicate \in Properties /\ l.time = m.time => l = m
    /\ step[c] = "found" => \A l \in removals[c] : l.predicate = Head(commands[c]).predicate
    /\ step[c] = "found" =>
           \A l \in removals[c], m \in matched[c] : l.predicate \in Properties => l.time < m.time
    /\ mode[c] # "direct" =>
           \A l \in removals[c] : l.predicate \in Properties =>
               \/ \E v \in Targets : <<l.predicate, v>> \in additions[c]
               \/ step[c] = "removing" /\ Head(commands[c]).predicate = l.predicate
    /\ step[c] = "committing" => \A l \in removals[c] : l.time < signed[c]

\* Links of one property are told apart by their time.
OneLinkPerTime ==
    \A l, m \in links : l.predicate \in Properties /\ l.predicate = m.predicate /\ l.time = m.time => l = m

\* The links of property p that some client still knows of.
Known(p) ==
    newest[p] \cup {l \in links : l.predicate = p}
              \cup {l \in UNION {matched[c] \cup removals[c] : c \in Clients} : l.predicate = p}

\* Only the newest link has the latest time.
NewestIsLatest ==
    \A p \in Properties : \A l \in Known(p) :
        newest[p] # {} /\ \A n \in newest[p] : l = n \/ l.time < n.time

SignedApart == \A c, d \in Clients : c # d /\ signed[c] = signed[d] => signed[c] = 0

\* Nothing has been stored yet with the time of an addition.
AdditionsAreFresh ==
    \A c \in Clients : step[c] \in {"adding", "committing"} =>
        \A p \in Properties, v \in Targets : <<p, v>> \in additions[c] =>
            /\ \A l \in links : l.predicate = p => l.time # signed[c]
            /\ \A l \in newest[p] : l.time # signed[c]

\* A client that is going to store a link of p later than the newest one.
Writes(c, p) ==
    /\ step[c] \in {"adding", "committing"}
    /\ \E v \in Targets : <<p, v>> \in additions[c]
    /\ \A n \in newest[p] : n.time < signed[c]

WillWrite(c, p) ==
    /\ mode[c] = "direct" /\ step[c] = "removing" /\ matched[c] = {}
    /\ Head(commands[c]).predicate = p

KeptOrWritten ==
    \A p \in Properties : newest[p] \subseteq links \/ \E c \in Clients : Writes(c, p) \/ WillWrite(c, p)

WriteInv ==
    /\ \A c \in Clients : OneValueEach(copy[c]) /\ CommandsFit(c)
    /\ OneLinkPerTime
    /\ NewestIsLatest
    /\ SignedApart
    /\ AdditionsAreFresh
    /\ KeptOrWritten

ModelInv == ModelTypeOK /\ RequestsOK /\ (deletes = 0 => WriteInv)

-----------------------------------------------------------------------------
(* Sequences of commands *)

LEMMA CommandsOf ==
    ASSUME NEW S, NEW n \in Nat, NEW cmds, cmds \in [1..n -> S]
    PROVE  cmds \in Seq(S) /\ Len(cmds) = n
BY SeqDef, LenProperties

LEMMA FirstAndRest ==
    ASSUME NEW cmds \in Seq(Command), cmds # <<>>
    PROVE  /\ Head(cmds) = cmds[1] /\ 1 \in 1..Len(cmds)
           /\ Head(cmds) \in Command
           /\ Tail(cmds) \in Seq(Command)
           /\ \A i \in 1..Len(Tail(cmds)) : i + 1 \in 1..Len(cmds) /\ Tail(cmds)[i] = cmds[i + 1]
<1>1. Len(cmds) \in Nat \ {0}
  BY EmptySeq
<1>2. Len(Tail(cmds)) = Len(cmds) - 1
  BY HeadTailProperties
<1> QED BY <1>1, <1>2, HeadTailProperties

\* The order in which fields are written is a sequence of all of them.
LEMMA OrdersAreFinite ==
    ASSUME NEW S, S \subseteq Fields, NEW fields \in Orders(S)
    PROVE  \E n \in Nat : fields \in [1..n -> S]
<1>1. IsFiniteSet(S)
  BY FieldsAssumption, FS_Subset
<1>2. Cardinality(S) \in Nat
  BY <1>1, FS_CardinalityType
<1> QED BY <1>2 DEF Orders

\* A field's setter, or the constructor's command, is a command.
LEMMA SettersAreCommands ==
    ASSUME NEW values \in [Fields -> SUBSET Targets], NEW f \in Fields
    PROVE  Setter(values, f) \in Command /\ Creator(values, f) \in Command
BY FieldsAssumption DEF Setter, Creator, Cmd, Command, Actions

-----------------------------------------------------------------------------
(* What clients send *)

GoodRequest(c) ==
    \E values \in [Fields -> SUBSET Targets], cmds \in Seq(Command) :
        /\ Sent(c, values, cmds)
        /\ deletes' \in 0..MaxDeletes
        /\ deletes' = 0 => deletes = 0
        /\ (deletes' = 0 /\ OneValueEach(copy[c])) => WritesOnce(cmds) /\ OneValueEach(values)

\* save() and update() write every field at most once, a property with its one value.
LEMMA FieldsOnce ==
    ASSUME NEW values \in [Fields -> SUBSET Targets], OneValueEach(values),
           NEW fields \in Orders(Written(values)), NEW cmds \in Seq(Command),
           \/ cmds = [i \in DOMAIN fields |-> Setter(values, fields[i])]
           \/ cmds = [i \in DOMAIN fields |-> Creator(values, fields[i])]
    PROVE  WritesOnce(cmds)
<1>1. PICK n \in Nat : fields \in [1..n -> Written(values)]
  <2>1. Written(values) \subseteq Fields
    BY DEF Written
  <2> QED BY <2>1, OrdersAreFinite
<1>2. DOMAIN fields = 1..n /\ Len(cmds) = n
  <2>1. DOMAIN fields = 1..n
    BY <1>1
  <2>2. DOMAIN cmds = 1..n
    BY <2>1
  <2>3. Len(cmds) \in Nat /\ DOMAIN cmds = 1..Len(cmds)
    BY LenProperties
  <2> QED BY <2>1, <2>2, <2>3
<1>3. ASSUME NEW i \in 1..n
      PROVE  /\ fields[i] \in Written(values) /\ fields[i] \in Fields
             /\ cmds[i].predicate = fields[i]
             /\ cmds[i].targets = values[fields[i]]
             /\ cmds[i].action # "removeLink"
  <2>1. fields[i] \in Written(values) /\ fields[i] \in Fields
    BY <1>1 DEF Written
  <2>2. cmds[i] = Setter(values, fields[i]) \/ cmds[i] = Creator(values, fields[i])
    BY <1>2
  <2> QED BY <2>1, <2>2 DEF Setter, Creator, Cmd
<1>4. ASSUME NEW i \in 1..n, NEW j \in 1..n, cmds[i].predicate = cmds[j].predicate
      PROVE  i = j
  <2>1. fields[i] = fields[j]
    BY <1>3, <1>4
  <2> QED BY <2>1, <1>2 DEF Orders
<1>5. ASSUME NEW i \in 1..n, cmds[i].predicate \in Properties
      PROVE  \E v \in Targets : cmds[i].targets = {v}
  <2>1. fields[i] \in Properties /\ fields[i] \notin Collections
    BY <1>3, <1>5, FieldsAssumption
  <2>2. values[fields[i]] # {} /\ values[fields[i]] \subseteq Targets
    BY <1>3, <2>1 DEF Written
  <2>3. PICK v \in Targets : v \in values[fields[i]]
    BY <2>2
  <2>4. values[fields[i]] = {v}
    BY <2>1, <2>3 DEF OneValueEach
  <2> QED BY <1>3, <2>4
<1> QED BY <1>2, <1>3, <1>4, <1>5 DEF WritesOnce

\* The instance's values with one field edited.
LEMMA EditedValues ==
    ASSUME ModelTypeOK, NEW c \in Clients, NEW f \in Fields, NEW edit \in Edits(f)
    PROVE  /\ [copy[c] EXCEPT ![f] = edit] \in [Fields -> SUBSET Targets]
           /\ OneValueEach(copy[c]) => OneValueEach([copy[c] EXCEPT ![f] = edit])
<1>1. edit \in SUBSET Targets
  BY FieldsAssumption DEF Edits
<1>2. copy[c] \in [Fields -> SUBSET Targets]
  BY DEF ModelTypeOK
<1>3. f \in Properties => \A v, w \in edit : v = w
  BY FieldsAssumption DEF Edits
<1>4. ASSUME OneValueEach(copy[c])
      PROVE  OneValueEach([copy[c] EXCEPT ![f] = edit])
  BY <1>2, <1>3, <1>4 DEF OneValueEach, Fields
<1> QED BY <1>1, <1>2, <1>4

LEMMA RequestsAreGood ==
    ASSUME ModelTypeOK, NEW c \in Clients,
           \/ \E f \in Fields : \E edit \in Edits(f) : Update(c, f, edit) \/ Save(c, f, edit)
           \/ \E p \in Properties, v \in Values : SetSingleTarget(c, p, v)
           \/ Delete(c)
    PROVE  GoodRequest(c)
<1>0. deletes \in 0..MaxDeletes /\ MaxDeletes \in Nat /\ copy[c] \in [Fields -> SUBSET Targets]
  BY FieldsAssumption DEF ModelTypeOK
<1>1. ASSUME NEW f \in Fields, NEW edit \in Edits(f), Update(c, f, edit) \/ Save(c, f, edit)
      PROVE  GoodRequest(c)
  <2> DEFINE values == [copy[c] EXCEPT ![f] = edit]
  <2>1. values \in [Fields -> SUBSET Targets]
    BY EditedValues
  <2>2. OneValueEach(copy[c]) => OneValueEach(values)
    BY EditedValues
  <2>3. deletes' = deletes
    BY <1>1 DEF Update, Save
  <2>4. \E fields \in Orders(Written(values)), m \in {"direct", "batch", "mutation"} :
            \/ Send(c, values, [i \in DOMAIN fields |-> Setter(values, fields[i])], m, TRUE)
            \/ Send(c, values, [i \in DOMAIN fields |-> Creator(values, fields[i])], m, TRUE)
    BY <1>1 DEF Update, Save
  <2> HIDE DEF values
  <2>5. PICK fields \in Orders(Written(values)) : \E m \in {"direct", "batch", "mutation"} :
            \/ Send(c, values, [i \in DOMAIN fields |-> Setter(values, fields[i])], m, TRUE)
            \/ Send(c, values, [i \in DOMAIN fields |-> Creator(values, fields[i])], m, TRUE)
    BY <2>4
  <2>6. PICK n \in Nat : fields \in [1..n -> Written(values)]
    <3>1. Written(values) \subseteq Fields
      BY DEF Written
    <3> QED BY <3>1, OrdersAreFinite
  <2>7. \A i \in 1..n : fields[i] \in Fields
    BY <2>6 DEF Written
  <2>8. \A i \in 1..n : Setter(values, fields[i]) \in Command /\ Creator(values, fields[i]) \in Command
    BY <2>1, <2>7, SettersAreCommands
  <2>9. PICK cmds : /\ \E m \in {"direct", "batch", "mutation"} : Send(c, values, cmds, m, TRUE)
                    /\ \/ cmds = [i \in DOMAIN fields |-> Setter(values, fields[i])]
                       \/ cmds = [i \in DOMAIN fields |-> Creator(values, fields[i])]
    BY <2>5
  <2>10. cmds \in [1..n -> Command]
    BY <2>6, <2>8, <2>9
  <2>11. cmds \in Seq(Command)
    BY <2>10, CommandsOf
  <2>12. OneValueEach(values) => WritesOnce(cmds)
    BY <2>1, <2>9, <2>11, FieldsOnce
  <2> QED BY <1>0, <2>1, <2>2, <2>3, <2>9, <2>11, <2>12 DEF GoodRequest, Sent
<1>2. ASSUME NEW p \in Properties, NEW v \in Values, SetSingleTarget(c, p, v)
      PROVE  GoodRequest(c)
  <2> DEFINE cmd == Cmd("setSingleTarget", p, {v})
             cmds == <<cmd>>
  <2>1. v \in Targets /\ p \in Predicates
    BY FieldsAssumption DEF Fields
  <2>2. cmd \in Command /\ cmd.action # "removeLink" /\ cmd.targets = {v}
    BY <2>1 DEF Cmd, Command, Actions
  <2>3. Send(c, copy[c], cmds, "mutation", FALSE) /\ deletes' = deletes
    BY <1>2 DEF SetSingleTarget
  <2> HIDE DEF cmd
  <2>4. cmds \in Seq(Command) /\ Len(cmds) = 1 /\ cmds[1] = cmd
    BY <2>2
  <2>5. WritesOnce(cmds)
    BY <2>1, <2>2, <2>4 DEF WritesOnce
  <2> HIDE DEF cmds
  <2> QED BY <1>0, <2>3, <2>4, <2>5 DEF GoodRequest, Sent
<1>3. ASSUME Delete(c)
      PROVE  GoodRequest(c)
  <2>1. PICK fields \in Orders(Initial) :
            Send(c, copy[c], [i \in DOMAIN fields |-> Cmd("removeLink", fields[i], Targets)], "direct", FALSE)
    BY <1>3 DEF Delete
  <2>2. Initial \subseteq Fields
    BY DEF Fields, Properties
  <2>3. PICK n \in Nat : fields \in [1..n -> Initial]
    BY <2>2, OrdersAreFinite
  <2>4. \A i \in 1..n : Cmd("removeLink", fields[i], Targets) \in Command
    BY <2>2, <2>3, FieldsAssumption DEF Cmd, Command, Actions
  <2>5. PICK cmds : /\ Send(c, copy[c], cmds, "direct", FALSE)
                    /\ cmds = [i \in DOMAIN fields |-> Cmd("removeLink", fields[i], Targets)]
    BY <2>1
  <2>6. cmds \in [1..n -> Command]
    BY <2>3, <2>4, <2>5
  <2>7. cmds \in Seq(Command)
    BY <2>6, CommandsOf
  <2>8. deletes' = deletes + 1 /\ deletes < MaxDeletes
    BY <1>3 DEF Delete
  <2>9. deletes' \in 0..MaxDeletes /\ deletes' # 0
    BY <1>0, <2>8
  <2> QED BY <1>0, <2>5, <2>7, <2>9 DEF GoodRequest, Sent
<1> QED BY <1>1, <1>2, <1>3

-----------------------------------------------------------------------------
(* The steps *)

LEMMA ModelSteps ==
    ASSUME ModelTypeOK, ModelNext
    PROVE  \E c \in Clients :
               \/ GoodRequest(c)
               \/ Get(c)
               \/ Answer(c)
               \/ \E pair \in additions[c] : Store(c, pair)
               \/ Run(c)
BY RequestsAreGood DEF ModelNext

\* What getData() reads are targets of links, or what the instance had.
LEMMA LoadedTypes ==
    ASSUME ModelTypeOK, NEW c \in Clients
    PROVE  Loaded(c) \in [Fields -> SUBSET Targets]
<1>1. copy[c] \in [Fields -> SUBSET Targets]
  BY DEF ModelTypeOK
<1>2. ASSUME NEW f \in Fields
      PROVE  Shown(f, copy[c][f]) \in SUBSET Targets
  <2>1. \A l \in links : l.target \in Targets
    BY DEF ModelTypeOK, CommandTypeOK
  <2>2. copy[c][f] \in SUBSET Targets
    BY <1>1
  <2> QED BY <2>1, <2>2 DEF Shown
<1> QED BY <1>1, <1>2 DEF Loaded

\* One step of the executor, by the types of the request's state.
LEMMA ExecuteTypes ==
    ASSUME CommandTypeOK, RequestsOK, NEW c \in Clients, Execute(c)
    PROVE  CommandTypeOK' /\ now' \in Nat /\ now' >= now
<1> USE DEF CommandTypeOK
<1>1. CASE ListLinks(c)
  <2>1. Matching(Head(commands[c])) \subseteq links
    BY DEF Matching
  <2>2. links' = links /\ now' = now
    BY <1>1 DEF ListLinks, store
  <2>3. ASSUME NEW d \in Clients
        PROVE  matched'[d] \cup removals'[d] \subseteq [predicate : Predicates, target : Targets, time : 1..now]
    <3>1. matched'[d] \cup removals'[d] \subseteq matched[d] \cup removals[d] \cup links
      <4>1. CASE mode[c] = "mutation"
        <5>1. removals' = [removals EXCEPT ![c] = @ \cup Matching(Head(commands[c]))] /\ matched' = matched
          BY <1>1, <4>1 DEF ListLinks
        <5> QED BY <2>1, <5>1
      <4>2. CASE mode[c] # "mutation"
        <5>1. matched' = [matched EXCEPT ![c] = Matching(Head(commands[c]))] /\ removals' = removals
          BY <1>1, <4>2 DEF ListLinks
        <5> QED BY <2>1, <5>1
      <4> QED BY <4>1, <4>2
    <3> QED BY <3>1
  <2>4. step' \in [Clients -> {"idle", "command", "removing", "found", "adding", "committing"}]
    BY <1>1 DEF ListLinks
  <2>5. matched' \in [Clients -> SUBSET Link] /\ removals' \in [Clients -> SUBSET Link]
    <3>1. Matching(Head(commands[c])) \in SUBSET Link
      BY <2>1 DEF Link
    <3> QED
      <4>1. CASE mode[c] = "mutation"
        <5>1. removals' = [removals EXCEPT ![c] = @ \cup Matching(Head(commands[c]))] /\ matched' = matched
          BY <1>1, <4>1 DEF ListLinks
        <5> QED BY <3>1, <5>1
      <4>2. CASE mode[c] # "mutation"
        <5>1. matched' = [matched EXCEPT ![c] = Matching(Head(commands[c]))] /\ removals' = removals
          BY <1>1, <4>2 DEF ListLinks
        <5> QED BY <3>1, <5>1
      <4> QED BY <4>1, <4>2
  <2> QED BY <1>1, <2>2, <2>3, <2>4, <2>5 DEF ListLinks
<1>2. ASSUME NEW l \in matched[c], FindLink(c, l)
      PROVE  CommandTypeOK' /\ now' \in Nat /\ now' >= now
  <2>1. links' = links /\ now' = now
    BY <1>2 DEF FindLink, store
  <2>2. ASSUME NEW d \in Clients
        PROVE  matched'[d] \cup removals'[d] \subseteq [predicate : Predicates, target : Targets, time : 1..now]
    <3>1. matched'[d] \cup removals'[d] \subseteq matched[d] \cup removals[d]
      BY <1>2 DEF FindLink
    <3> QED BY <3>1
  <2> QED BY <1>2, <2>1, <2>2 DEF FindLink
<1>3. CASE LinkNotFound(c)
  <2>1. <<>> \in Seq(Command)
    OBVIOUS
  <2>2. links' = links /\ now' = now
    BY <1>3 DEF LinkNotFound, store
  <2> QED BY <1>3, <2>1, <2>2 DEF LinkNotFound
<1>4. CASE DeleteLink(c)
  BY <1>4 DEF DeleteLink
<1>5. ASSUME Additions(Head(commands[c])) \subseteq Predicates \X Targets, SignAdditions(c)
      PROVE  CommandTypeOK' /\ now' \in Nat /\ now' >= now
  BY <1>5 DEF SignAdditions
<1>6. ASSUME Additions(Head(commands[c])) \subseteq Predicates \X Targets,
             Tail(commands[c]) \in Seq(Command), NoteAdditions(c)
      PROVE  CommandTypeOK' /\ now' \in Nat /\ now' >= now
  BY <1>6 DEF NoteAdditions, store
<1>7. CASE CommitBatch(c)
  BY <1>7 DEF CommitBatch
<1>8. ASSUME NEW l \in removals[c], RemoveCommitted(c, l)
      PROVE  CommandTypeOK' /\ now' \in Nat /\ now' >= now
  BY <1>8 DEF RemoveCommitted
<1>9. ASSUME Tail(commands[c]) \in Seq(Command), CommandDone(c)
      PROVE  CommandTypeOK' /\ now' \in Nat /\ now' >= now
  BY <1>9 DEF CommandDone, store
<1>10. ASSUME commands[c] # <<>>
       PROVE  /\ Additions(Head(commands[c])) \subseteq Predicates \X Targets
              /\ Tail(commands[c]) \in Seq(Command)
  <2>1. Head(commands[c]) \in Command /\ Tail(commands[c]) \in Seq(Command)
    BY <1>10, FirstAndRest
  <2> QED BY <2>1 DEF Additions, Pairs, Command
<1>11. SignAdditions(c) \/ NoteAdditions(c) \/ CommandDone(c) => commands[c] # <<>>
  BY DEF RequestsOK, RequestOK, SignAdditions, NoteAdditions, CommandDone
<1> QED BY <1>1, <1>2, <1>3, <1>4, <1>5, <1>6, <1>7, <1>8, <1>9, <1>10, <1>11 DEF Execute

LEMMA TypesAreKept ==
    ASSUME ModelTypeOK, RequestsOK, ModelNext
    PROVE  ModelTypeOK'
<1> USE DEF ModelTypeOK
<1>1. ASSUME NEW c \in Clients, GoodRequest(c)
      PROVE  ModelTypeOK'
  <2>1. PICK values \in [Fields -> SUBSET Targets], cmds \in Seq(Command),
             m \in {"direct", "batch", "mutation"}, r \in BOOLEAN :
             Send(c, values, cmds, m, r) /\ deletes' \in 0..MaxDeletes
    BY <1>1 DEF GoodRequest, Sent
  <2>2. CommandTypeOK'
    BY <2>1 DEF Send, Request, store, CommandTypeOK
  <2>3. copy' \in [Clients -> [Fields -> SUBSET Targets]]
    BY <2>1 DEF Send
  <2>4. reload' \in [Clients -> BOOLEAN]
    BY <2>1, Zenon DEF Send
  <2>5. started' \in 0..MaxRequests
    BY <2>1, FieldsAssumption DEF Send
  <2>6. newest' = newest /\ now' = now
    BY <2>1 DEF Send, Request, store
  <2> QED BY <2>1, <2>2, <2>3, <2>4, <2>5, <2>6
<1>2. ASSUME NEW c \in Clients, Get(c)
      PROVE  ModelTypeOK'
  <2>1. CommandTypeOK'
    BY <1>2 DEF Get, commandVars, store, requests, CommandTypeOK
  <2>2. copy' \in [Clients -> [Fields -> SUBSET Targets]]
    BY <1>2, LoadedTypes DEF Get
  <2> QED BY <1>2, <2>1, <2>2 DEF Get, commandVars, store
<1>3. ASSUME NEW c \in Clients, Answer(c)
      PROVE  ModelTypeOK'
  <2>1. CommandTypeOK'
    BY <1>3 DEF Answer, RequestDone, store, CommandTypeOK
  <2>2. copy' \in [Clients -> [Fields -> SUBSET Targets]]
    <3>1. PICK new \in {Loaded(c), copy[c]} : copy' = [copy EXCEPT ![c] = new]
      BY <1>3 DEF Answer
    <3> QED BY <3>1, LoadedTypes
  <2> QED BY <1>3, <2>1, <2>2 DEF Answer, RequestDone, store
<1>4. ASSUME NEW c \in Clients, NEW pair \in additions[c], Store(c, pair)
      PROVE  ModelTypeOK'
  <2>1. signed[c] \in 1..now /\ now \in Nat /\ now' = now
    BY <1>4 DEF Store, AddLink, RequestsOK, RequestOK, CommandTypeOK
  <2>2. pair \in Predicates \X Targets
    BY DEF CommandTypeOK
  <2>3. CommandTypeOK'
    <3>1. links' \subseteq [predicate : Predicates, target : Targets, time : 1..now]
      BY <1>4, <2>1, <2>2 DEF Store, AddLink, CommandTypeOK
    <3>2. additions' \in [Clients -> SUBSET (Predicates \X Targets)]
      BY <1>4 DEF Store, AddLink, CommandTypeOK
    <3> QED BY <1>4, <3>1, <3>2 DEF Store, AddLink, CommandTypeOK
  <2>4. ASSUME NEW p \in Properties
        PROVE  newest'[p] \subseteq {l \in Link : l.predicate = p /\ l.time <= now}
    <3>1. p = pair[1] => [predicate |-> p, target |-> pair[2], time |-> signed[c]]
                             \in {l \in Link : l.predicate = p /\ l.time <= now}
      BY <2>1, <2>2 DEF Link
    <3> QED BY <1>4, <3>1 DEF Store
  <2> QED BY <1>4, <2>1, <2>3, <2>4 DEF Store
<1>5. ASSUME NEW c \in Clients, Run(c)
      PROVE  ModelTypeOK'
  <2>1. CommandTypeOK' /\ now \in Nat /\ now' \in Nat /\ now' >= now
    BY <1>5, ExecuteTypes DEF Run, CommandTypeOK
  <2>2. ASSUME NEW p \in Properties
        PROVE  newest'[p] \subseteq {l \in Link : l.predicate = p /\ l.time <= now'}
    BY <1>5, <2>1 DEF Run, Link
  <2> QED BY <1>5, <2>1, <2>2 DEF Run
<1> QED BY <1>1, <1>2, <1>3, <1>4, <1>5, ModelSteps

\* What the executor reads when it carries out a command.
LEMMA ListedLinks ==
    ASSUME CommandTypeOK, NEW c \in Clients, ListLinks(c)
    PROVE  LET found == Matching(Head(commands[c]))
           IN  \/ /\ mode[c] = "mutation"
                  /\ removals' = [removals EXCEPT ![c] = @ \cup found] /\ matched' = matched
               \/ /\ mode[c] # "mutation"
                  /\ matched' = [matched EXCEPT ![c] = found] /\ removals' = removals
<1>1. CASE mode[c] = "mutation"
  BY <1>1 DEF ListLinks
<1>2. CASE mode[c] # "mutation"
  BY <1>2 DEF ListLinks
<1> QED BY <1>1, <1>2

SameRequest(d) ==
    /\ commands'[d] = commands[d] /\ mode'[d] = mode[d] /\ step'[d] = step[d]
    /\ matched'[d] = matched[d] /\ removals'[d] = removals[d]
    /\ additions'[d] = additions[d] /\ signed'[d] = signed[d]

\* Clients do not touch each other's requests.
LEMMA OthersRequests ==
    ASSUME CommandTypeOK, NEW c \in Clients, NEW d \in Clients, d # c,
           \/ \E cmds \in Seq(Command), m \in {"direct", "batch", "mutation"} : Request(c, cmds, m)
           \/ RequestDone(c)
           \/ \E pair \in additions[c] : AddLink(c, pair)
           \/ Execute(c)
    PROVE  SameRequest(d)
<1> USE DEF CommandTypeOK, SameRequest
<1>1. CASE \E cmds \in Seq(Command), m \in {"direct", "batch", "mutation"} : Request(c, cmds, m)
  BY <1>1 DEF Request
<1>2. CASE RequestDone(c)
  BY <1>2 DEF RequestDone
<1>3. CASE \E pair \in additions[c] : AddLink(c, pair)
  BY <1>3 DEF AddLink
<1>4. CASE ListLinks(c)
  <2>1. matched'[d] = matched[d] /\ removals'[d] = removals[d]
    BY <1>4, ListedLinks
  <2>2. step'[d] = step[d] /\ UNCHANGED <<commands, mode, additions, signed>>
    BY <1>4 DEF ListLinks
  <2> QED BY <2>1, <2>2
<1>5. ASSUME NEW l \in matched[c], FindLink(c, l)
      PROVE  SameRequest(d)
  BY <1>5 DEF FindLink
<1>6. CASE LinkNotFound(c)
  BY <1>6 DEF LinkNotFound
<1>7. CASE DeleteLink(c)
  BY <1>7 DEF DeleteLink
<1>8. CASE SignAdditions(c)
  BY <1>8 DEF SignAdditions
<1>9. CASE NoteAdditions(c)
  BY <1>9 DEF NoteAdditions
<1>10. CASE CommitBatch(c)
  BY <1>10 DEF CommitBatch
<1>11. ASSUME NEW l \in removals[c], RemoveCommitted(c, l)
       PROVE  SameRequest(d)
  BY <1>11 DEF RemoveCommitted
<1>12. CASE CommandDone(c)
  BY <1>12 DEF CommandDone
<1> QED BY <1>1, <1>2, <1>3, <1>4, <1>5, <1>6, <1>7, <1>8, <1>9, <1>10, <1>11, <1>12 DEF Execute

\* Every step leaves the fields of its client's request as its place demands.
LEMMA OwnRequest ==
    ASSUME CommandTypeOK, RequestsOK, NEW c \in Clients,
           \/ \E cmds \in Seq(Command), m \in {"direct", "batch", "mutation"} : Request(c, cmds, m)
           \/ RequestDone(c)
           \/ \E pair \in additions[c] : AddLink(c, pair)
           \/ Execute(c)
    PROVE  RequestOK(c)'
<1> USE DEF CommandTypeOK, RequestOK
<1>0. RequestOK(c)
  BY DEF RequestsOK
<1>1. ASSUME NEW cmds \in Seq(Command), NEW m \in {"direct", "batch", "mutation"}, Request(c, cmds, m)
      PROVE  RequestOK(c)'
  BY <1>0, <1>1 DEF Request, Idle
<1>2. CASE RequestDone(c)
  BY <1>0, <1>2 DEF RequestDone
<1>3. ASSUME NEW pair \in additions[c], AddLink(c, pair)
      PROVE  RequestOK(c)'
  BY <1>0, <1>3 DEF AddLink
<1>4. CASE ListLinks(c)
  <2>1. /\ step[c] = "command" /\ step'[c] = "removing" /\ commands[c] # <<>>
        /\ UNCHANGED <<commands, mode, additions, signed>>
    BY <1>4 DEF ListLinks
  <2>2. mode[c] = "mutation" => matched'[c] = matched[c]
    BY <1>4, ListedLinks
  <2>3. mode[c] = "direct" => removals'[c] = removals[c]
    BY <1>4, ListedLinks
  <2> QED BY <1>0, <2>1, <2>2, <2>3
<1>5. ASSUME NEW l \in matched[c], FindLink(c, l)
      PROVE  RequestOK(c)'
  BY <1>0, <1>5 DEF FindLink
<1>6. CASE LinkNotFound(c)
  <2>1. /\ commands'[c] = <<>> /\ mode'[c] = "direct" /\ step'[c] = "idle"
        /\ matched'[c] = {} /\ removals'[c] = {} /\ additions'[c] = {}
    BY <1>6 DEF LinkNotFound
  <2> QED BY <2>1
<1>7. CASE DeleteLink(c)
  <2>1. step[c] = "found" /\ step'[c] = "removing" /\ removals'[c] = {}
    BY <1>7 DEF DeleteLink
  <2>2. UNCHANGED <<commands, mode, matched, additions, signed>>
    BY <1>7 DEF DeleteLink
  <2> QED BY <1>0, <2>1, <2>2
<1>8. CASE SignAdditions(c)
  BY <1>0, <1>8 DEF SignAdditions
<1>9. CASE NoteAdditions(c)
  BY <1>0, <1>9 DEF NoteAdditions
<1>10. CASE CommitBatch(c)
  BY <1>0, <1>10 DEF CommitBatch
<1>11. ASSUME NEW l \in removals[c], RemoveCommitted(c, l)
       PROVE  RequestOK(c)'
  BY <1>0, <1>11 DEF RemoveCommitted
<1>12. CASE CommandDone(c)
  BY <1>0, <1>12 DEF CommandDone
<1> QED BY <1>1, <1>2, <1>3, <1>4, <1>5, <1>6, <1>7, <1>8, <1>9, <1>10, <1>11, <1>12 DEF Execute

\* What a step is to the requests, whatever it is to the instances.
LEMMA RequestSteps ==
    ASSUME ModelTypeOK, ModelNext
    PROVE  \/ UNCHANGED commandVars
           \/ \E c \in Clients :
                  \/ \E cmds \in Seq(Command), m \in {"direct", "batch", "mutation"} : Request(c, cmds, m)
                  \/ RequestDone(c)
                  \/ \E pair \in additions[c] : AddLink(c, pair)
                  \/ Execute(c)
<1>1. ASSUME NEW c \in Clients, GoodRequest(c)
      PROVE  \E cmds \in Seq(Command), m \in {"direct", "batch", "mutation"} : Request(c, cmds, m)
  BY <1>1 DEF GoodRequest, Sent, Send
<1> QED BY <1>1, ModelSteps DEF Get, Answer, Store, Run

LEMMA TimeGoesOn ==
    ASSUME ModelTypeOK, RequestsOK, ModelNext
    PROVE  now \in Nat /\ now' \in Nat /\ now' >= now
<1>1. now \in Nat
  BY DEF ModelTypeOK, CommandTypeOK
<1>2. ASSUME UNCHANGED now
      PROVE  now \in Nat /\ now' \in Nat /\ now' >= now
  BY <1>1, <1>2
<1>3. ASSUME NEW c \in Clients, Execute(c)
      PROVE  now \in Nat /\ now' \in Nat /\ now' >= now
  BY <1>1, <1>3, ExecuteTypes DEF ModelTypeOK
<1> QED BY <1>2, <1>3, RequestSteps DEF commandVars, store, Request, RequestDone, AddLink

LEMMA RequestsAreKept ==
    ASSUME ModelTypeOK, RequestsOK, ModelNext
    PROVE  RequestsOK'
<1>1. CASE UNCHANGED commandVars
  BY <1>1 DEF RequestsOK, RequestOK, commandVars, store, requests
<1>2. ASSUME NEW c \in Clients, NEW d \in Clients,
             \/ \E cmds \in Seq(Command), m \in {"direct", "batch", "mutation"} : Request(c, cmds, m)
             \/ RequestDone(c)
             \/ \E pair \in additions[c] : AddLink(c, pair)
             \/ Execute(c)
      PROVE  RequestOK(d)'
  <2>1. CASE d = c
    BY <1>2, <2>1, OwnRequest DEF ModelTypeOK
  <2>2. CASE d # c
    <3>1. SameRequest(d)
      BY <1>2, <2>2, OthersRequests DEF ModelTypeOK
    <3>2. RequestOK(d)
      BY DEF RequestsOK
    <3> QED BY <3>1, <3>2, TimeGoesOn DEF SameRequest, RequestOK
  <2> QED BY <2>1, <2>2
<1> QED BY <1>1, <1>2, RequestSteps DEF RequestsOK

-----------------------------------------------------------------------------
(* Commands and what has been noted for them *)

LEMMA RestWritesOnce ==
    ASSUME NEW cmds \in Seq(Command), cmds # <<>>, WritesOnce(cmds)
    PROVE  /\ WritesOnce(Tail(cmds))
           /\ \A i \in 1..Len(Tail(cmds)) : Tail(cmds)[i].predicate # Head(cmds).predicate
<1>1. Len(Tail(cmds)) \in Nat /\ Len(cmds) \in Nat
  BY FirstAndRest
<1>2. ASSUME NEW i \in 1..Len(Tail(cmds)), NEW j \in 1..Len(Tail(cmds)),
             Tail(cmds)[i].predicate = Tail(cmds)[j].predicate
      PROVE  i = j
  <2>1. i + 1 \in 1..Len(cmds) /\ j + 1 \in 1..Len(cmds)
    BY FirstAndRest
  <2>2. cmds[i + 1].predicate = cmds[j + 1].predicate
    BY <1>2, FirstAndRest
  <2>3. i + 1 = j + 1
    BY <2>1, <2>2 DEF WritesOnce
  <2> QED BY <2>3
<1>3. ASSUME NEW i \in 1..Len(Tail(cmds)), Tail(cmds)[i].predicate = Head(cmds).predicate
      PROVE  FALSE
  <2>1. i + 1 \in 1..Len(cmds) /\ 1 \in 1..Len(cmds)
    BY FirstAndRest
  <2>2. cmds[i + 1].predicate = cmds[1].predicate
    BY <1>3, FirstAndRest
  <2>3. i + 1 = 1
    BY <2>1, <2>2 DEF WritesOnce
  <2> QED BY <2>3
<1>4. ASSUME NEW i \in 1..Len(Tail(cmds))
      PROVE  /\ Tail(cmds)[i].action # "removeLink"
             /\ Tail(cmds)[i].predicate \in Properties => \E v \in Targets : Tail(cmds)[i].targets = {v}
  <2>1. i + 1 \in 1..Len(cmds) /\ Tail(cmds)[i] = cmds[i + 1]
    BY FirstAndRest
  <2> QED BY <2>1 DEF WritesOnce
<1> QED BY <1>2, <1>3, <1>4 DEF WritesOnce

\* What a command adds: for a property its one value.
LEMMA HeadAdds ==
    ASSUME NEW cmds \in Seq(Command), cmds # <<>>, WritesOnce(cmds)
    PROVE  /\ \A pair \in Additions(Head(cmds)) : pair[1] = Head(cmds).predicate
           /\ \A p \in Properties : \A v, w :
                  <<p, v>> \in Additions(Head(cmds)) /\ <<p, w>> \in Additions(Head(cmds)) => v = w
           /\ Head(cmds).predicate \in Properties =>
                  \E v \in Targets : <<Head(cmds).predicate, v>> \in Additions(Head(cmds))
<1>1. Head(cmds) = cmds[1] /\ 1 \in 1..Len(cmds)
  BY FirstAndRest
<1>2. /\ Head(cmds).action # "removeLink"
      /\ Head(cmds).predicate \in Properties => \E v \in Targets : Head(cmds).targets = {v}
  BY <1>1 DEF WritesOnce
<1>3. Additions(Head(cmds)) = {Head(cmds).predicate} \X Head(cmds).targets
  BY <1>2 DEF Additions, Pairs
<1> QED BY <1>2, <1>3

\* Every step of a client's request keeps what it has noted in line with its commands.
LEMMA OwnCommandsFit ==
    ASSUME CommandTypeOK, RequestsOK, OneLinkPerTime, NEW c \in Clients, CommandsFit(c),
           \/ \E cmds \in Seq(Command), m \in {"direct", "batch", "mutation"} :
                  WritesOnce(cmds) /\ Request(c, cmds, m)
           \/ RequestDone(c)
           \/ \E pair \in additions[c] : AddLink(c, pair)
           \/ Execute(c)
    PROVE  CommandsFit(c)'
<1> USE DEF CommandTypeOK
<1>0. RequestOK(c)
  BY DEF RequestsOK
<1>1. ASSUME NEW cmds \in Seq(Command), NEW m \in {"direct", "batch", "mutation"},
             WritesOnce(cmds), Request(c, cmds, m)
      PROVE  CommandsFit(c)'
  <2>1. /\ commands'[c] = cmds /\ step'[c] = "command" /\ matched'[c] = matched[c]
        /\ removals'[c] = removals[c] /\ additions'[c] = additions[c] /\ step[c] = "idle"
    BY <1>1 DEF Request, Idle
  <2>2. matched[c] = {} /\ removals[c] = {} /\ additions[c] = {}
    BY <1>0, <2>1 DEF RequestOK
  <2> QED BY <1>1, <2>1, <2>2 DEF CommandsFit, WritesOnce
<1>2. CASE RequestDone(c)
  <2>1. /\ commands'[c] = <<>> /\ step'[c] = "idle" /\ matched'[c] = {}
        /\ removals'[c] = {} /\ additions'[c] = {}
    BY <1>0, <1>2 DEF RequestDone, RequestOK
  <2> QED BY <2>1 DEF CommandsFit, WritesOnce
<1>3. ASSUME NEW pair \in additions[c], AddLink(c, pair)
      PROVE  CommandsFit(c)'
  <2>1. removals[c] = {} /\ step[c] \in {"adding", "committing"} /\ step' = step
    BY <1>0, <1>3 DEF AddLink, RequestOK
  <2>2. additions'[c] \subseteq additions[c] /\ UNCHANGED <<commands, mode, matched, removals>>
    BY <1>3 DEF AddLink
  <2> QED BY <2>1, <2>2 DEF CommandsFit, WritesOnce
<1>4. CASE ListLinks(c)
  <2> DEFINE found == Matching(Head(commands[c]))
  <2>1. /\ step[c] = "command" /\ step'[c] = "removing"
        /\ UNCHANGED <<commands, mode, additions, signed>>
    BY <1>4 DEF ListLinks
  <2>2. matched[c] = {} /\ (mode[c] = "direct" => removals[c] = {})
    BY <1>0, <2>1 DEF RequestOK
  <2>3. /\ matched'[c] \in {{}, found}
        /\ removals'[c] \in {removals[c], removals[c] \cup found}
        /\ mode[c] = "direct" => removals'[c] = {}
    BY <1>4, <2>2, ListedLinks
  <2>4. found \subseteq links /\ \A l \in found : l.predicate = Head(commands[c]).predicate
    BY DEF Matching
  <2> HIDE DEF found
  <2>5. WritesOnce(commands[c])'
    BY <2>1 DEF CommandsFit, WritesOnce
  <2>6. /\ \A l \in matched'[c] : l.predicate = Head(commands[c]).predicate
        /\ \A l, m \in matched'[c] : l.predicate \in Properties /\ l.time = m.time => l = m
    BY <2>3, <2>4 DEF OneLinkPerTime
  <2>7. mode[c] # "direct" =>
           \A l \in removals'[c] : l.predicate \in Properties =>
               \/ \E v \in Targets : <<l.predicate, v>> \in additions[c]
               \/ Head(commands[c]).predicate = l.predicate
    BY <2>1, <2>3, <2>4 DEF CommandsFit
  <2> QED BY <2>1, <2>5, <2>6, <2>7 DEF CommandsFit
<1>5. ASSUME NEW l \in matched[c], FindLink(c, l)
      PROVE  CommandsFit(c)'
  <2>1. /\ step[c] = "removing" /\ UNCHANGED <<commands, mode, additions, signed>>
        /\ matched'[c] = matched[c] \ {l} /\ removals'[c] = removals[c] \cup {l}
        /\ \A m \in matched[c] : l.time <= m.time
    BY <1>5 DEF FindLink, Oldest
  <2>2. \A m \in matched[c] : l.time \in Nat /\ m.time \in Nat
    BY DEF Link
  <2>3. mode[c] # "mutation" /\ (mode[c] = "direct" => removals[c] = {})
    BY <1>0, <2>1 DEF RequestOK
  <2>4. step'[c] = IF mode[c] = "batch" THEN "removing" ELSE "found"
    BY <1>5 DEF FindLink
  <2>5. \A m \in matched'[c] : l.predicate \in Properties => l.time < m.time
    BY <2>1, <2>2 DEF CommandsFit
  <2>6. CASE mode[c] = "direct"
    <3>1. step'[c] = "found" /\ removals'[c] = {l}
      BY <2>1, <2>3, <2>4, <2>6
    <3> QED BY <2>1, <2>5, <2>6, <3>1 DEF CommandsFit, WritesOnce
  <2>7. CASE mode[c] = "batch"
    <3>1. step'[c] = "removing"
      BY <2>4, <2>7
    <3> QED BY <2>1, <2>7, <3>1 DEF CommandsFit, WritesOnce
  <2> QED BY <2>3, <2>6, <2>7
<1>6. CASE LinkNotFound(c)
  <2>1. /\ commands'[c] = <<>> /\ step'[c] = "idle" /\ matched'[c] = {}
        /\ removals'[c] = {} /\ additions'[c] = {}
    BY <1>6 DEF LinkNotFound
  <2> QED BY <2>1 DEF CommandsFit, WritesOnce
<1>7. CASE DeleteLink(c)
  <2>1. /\ step'[c] = "removing" /\ removals'[c] = {}
        /\ UNCHANGED <<commands, mode, matched, additions>>
    BY <1>7 DEF DeleteLink
  <2> QED BY <2>1 DEF CommandsFit, WritesOnce
<1>8. CASE SignAdditions(c)
  <2>1. /\ step[c] = "removing" /\ mode[c] = "direct" /\ step'[c] = "adding"
        /\ additions'[c] = Additions(Head(commands[c]))
        /\ UNCHANGED <<commands, mode, matched, removals>>
    BY <1>8 DEF SignAdditions
  <2>2. commands[c] # <<>> /\ WritesOnce(commands[c])
    BY <1>0, <2>1 DEF RequestOK, CommandsFit
  <2>3. \A p \in Properties : \A v, w \in Targets :
            <<p, v>> \in additions'[c] /\ <<p, w>> \in additions'[c] => v = w
    BY <2>1, <2>2, HeadAdds
  <2> QED BY <2>1, <2>3 DEF CommandsFit, WritesOnce
<1>9. CASE NoteAdditions(c)
  <2>1. /\ step[c] = "removing" /\ mode[c] # "direct" /\ step'[c] = "command" /\ matched[c] = {}
        /\ additions'[c] = additions[c] \cup Additions(Head(commands[c]))
        /\ commands'[c] = Tail(commands[c])
        /\ UNCHANGED <<mode, matched, removals>>
    BY <1>9 DEF NoteAdditions
  <2>2. commands[c] # <<>> /\ WritesOnce(commands[c])
    BY <1>0, <2>1 DEF RequestOK, CommandsFit
  <2>3. \A v \in Targets : <<Head(commands[c]).predicate, v>> \notin additions[c]
    BY <2>1, <2>2, FirstAndRest DEF CommandsFit
  <2>4. \A i \in 1..Len(Tail(commands[c])), v \in Targets :
            <<Tail(commands[c])[i].predicate, v>> \notin additions[c] \cup Additions(Head(commands[c]))
    BY <2>1, <2>2, FirstAndRest, RestWritesOnce, HeadAdds DEF CommandsFit
  <2>5. ASSUME NEW p \in Properties, NEW v \in Targets, NEW w \in Targets,
               <<p, v>> \in additions'[c], <<p, w>> \in additions'[c]
        PROVE  v = w
    <3>1. CASE p = Head(commands[c]).predicate
      <4>1. <<p, v>> \in Additions(Head(commands[c])) /\ <<p, w>> \in Additions(Head(commands[c]))
        BY <2>1, <2>3, <2>5, <3>1
      <4> QED BY <2>2, <4>1, HeadAdds
    <3>2. CASE p # Head(commands[c]).predicate
      <4>1. <<p, v>> \notin Additions(Head(commands[c])) /\ <<p, w>> \notin Additions(Head(commands[c]))
        BY <2>2, <3>2, HeadAdds
      <4>2. <<p, v>> \in additions[c] /\ <<p, w>> \in additions[c]
        BY <2>1, <2>5, <4>1
      <4> QED BY <4>2 DEF CommandsFit
    <3> QED BY <3>1, <3>2
  <2>6. ASSUME NEW l \in removals'[c], l.predicate \in Properties
        PROVE  \E v \in Targets : <<l.predicate, v>> \in additions'[c]
    BY <2>1, <2>2, <2>6, HeadAdds DEF CommandsFit
  <2>7. WritesOnce(commands'[c])
    BY <2>1, <2>2, RestWritesOnce
  <2> QED BY <2>1, <2>4, <2>5, <2>6, <2>7 DEF CommandsFit, WritesOnce
<1>10. CASE CommitBatch(c)
  <2>1. /\ step'[c] = "committing" /\ signed'[c] = now + 1 /\ mode[c] # "direct" /\ step[c] = "command"
        /\ UNCHANGED <<commands, mode, matched, removals, additions>>
    BY <1>10 DEF CommitBatch
  <2>2. \A l \in removals'[c] : l.time \in 1..now
    BY <2>1
  <2>3. \A l \in removals'[c] : l.time < signed'[c]
    BY <2>1, <2>2
  <2>4. commands'[c] = commands[c] /\ mode'[c] = mode[c] /\ additions'[c] = additions[c] /\ matched'[c] = matched[c]
    BY <2>1
  <2> QED BY <2>1, <2>3, <2>4 DEF CommandsFit, WritesOnce
<1>11. ASSUME NEW l \in removals[c], RemoveCommitted(c, l)
       PROVE  CommandsFit(c)'
  <2>1. /\ step' = step /\ step[c] = "committing" /\ removals'[c] \subseteq removals[c]
        /\ UNCHANGED <<commands, mode, matched, additions, signed>>
    BY <1>11 DEF RemoveCommitted
  <2> QED BY <2>1 DEF CommandsFit, WritesOnce
<1>12. CASE CommandDone(c)
  <2>1. /\ step[c] = "adding" /\ step'[c] = "command" /\ commands'[c] = Tail(commands[c])
        /\ additions[c] = {} /\ UNCHANGED <<mode, matched, removals, additions>>
    BY <1>12 DEF CommandDone
  <2>2. mode[c] = "direct" /\ matched[c] = {} /\ removals[c] = {} /\ commands[c] # <<>>
    BY <1>0, <2>1 DEF RequestOK
  <2>3. WritesOnce(commands'[c])
    BY <2>1, <2>2, RestWritesOnce DEF CommandsFit
  <2> QED BY <2>1, <2>2, <2>3 DEF CommandsFit, WritesOnce
<1> QED BY <1>1, <1>2, <1>3, <1>4, <1>5, <1>6, <1>7, <1>8, <1>9, <1>10, <1>11, <1>12 DEF Execute

\* A client sends what it writes, with one value for each property.
OneWrite(c) ==
    \E values \in [Fields -> SUBSET Targets], cmds \in Seq(Command), m \in {"direct", "batch", "mutation"} :
        /\ WritesOnce(cmds) /\ OneValueEach(values)
        /\ Request(c, cmds, m)
        /\ copy' = [copy EXCEPT ![c] = values]
        /\ UNCHANGED newest

LEMMA WriteSteps ==
    ASSUME ModelTypeOK, ModelNext, deletes' = 0, deletes = 0 => WriteInv
    PROVE  /\ WriteInv
           /\ \E c \in Clients :
                  \/ OneWrite(c)
                  \/ Get(c)
                  \/ Answer(c)
                  \/ \E pair \in additions[c] : Store(c, pair)
                  \/ Run(c)
<1>1. deletes = 0
  BY ModelSteps DEF GoodRequest, Get, Answer, Store, Run
<1>2. ASSUME NEW c \in Clients, GoodRequest(c)
      PROVE  OneWrite(c)
  <2>1. OneValueEach(copy[c])
    BY <1>1 DEF WriteInv
  <2> QED BY <1>2, <2>1 DEF GoodRequest, Sent, Send, OneWrite
<1> QED BY <1>1, <1>2, ModelSteps

LEMMA AllCommandsFit ==
    ASSUME ModelTypeOK, RequestsOK, ModelNext, deletes' = 0, WriteInv, NEW d \in Clients
    PROVE  CommandsFit(d)'
<1>0. CommandTypeOK /\ CommandsFit(d) /\ OneLinkPerTime
  BY DEF ModelTypeOK, WriteInv
<1>1. ASSUME NEW c \in Clients,
             \/ \E cmds \in Seq(Command), m \in {"direct", "batch", "mutation"} :
                    WritesOnce(cmds) /\ Request(c, cmds, m)
             \/ RequestDone(c)
             \/ \E pair \in additions[c] : AddLink(c, pair)
             \/ Execute(c)
      PROVE  CommandsFit(d)'
  <2>1. CASE d = c
    BY <1>0, <1>1, <2>1, OwnCommandsFit
  <2>2. CASE d # c
    <3>1. SameRequest(d)
      BY <1>0, <1>1, <2>2, OthersRequests
    <3> QED BY <1>0, <3>1 DEF SameRequest, CommandsFit, WritesOnce
  <2> QED BY <2>1, <2>2
<1>2. ASSUME UNCHANGED commandVars
      PROVE  CommandsFit(d)'
  BY <1>0, <1>2 DEF commandVars, store, requests, CommandsFit, WritesOnce
<1> QED BY <1>1, <1>2, WriteSteps DEF OneWrite, Get, Answer, Store, Run

-----------------------------------------------------------------------------
(* Links and their times *)

\* Apart from additions, steps take links away, and what they find are links.
LEMMA LinksOnlyGo ==
    ASSUME CommandTypeOK, NEW c \in Clients,
           \/ \E cmds \in Seq(Command), m \in {"direct", "batch", "mutation"} : Request(c, cmds, m)
           \/ RequestDone(c)
           \/ Execute(c)
    PROVE  /\ links' \subseteq links
           /\ \A d \in Clients : matched'[d] \cup removals'[d] \subseteq matched[d] \cup removals[d] \cup links
<1> USE DEF CommandTypeOK
<1>1. ASSUME NEW cmds, NEW m, Request(c, cmds, m)
      PROVE  UNCHANGED <<links, matched, removals>>
  BY <1>1 DEF Request, store
<1>2. CASE RequestDone(c) \/ SignAdditions(c) \/ NoteAdditions(c) \/ CommitBatch(c) \/ CommandDone(c)
  BY <1>2 DEF RequestDone, SignAdditions, NoteAdditions, CommitBatch, CommandDone, store
<1>3. CASE ListLinks(c)
  <2>1. Matching(Head(commands[c])) \subseteq links /\ links' = links
    BY <1>3 DEF Matching, ListLinks, store
  <2>2. ASSUME NEW d \in Clients
        PROVE  matched'[d] \cup removals'[d] \subseteq matched[d] \cup removals[d] \cup links
    <3>1. CASE mode[c] = "mutation"
      <4>1. removals' = [removals EXCEPT ![c] = @ \cup Matching(Head(commands[c]))] /\ matched' = matched
        BY <1>3, <3>1, ListedLinks
      <4> QED BY <2>1, <4>1
    <3>2. CASE mode[c] # "mutation"
      <4>1. matched' = [matched EXCEPT ![c] = Matching(Head(commands[c]))] /\ removals' = removals
        BY <1>3, <3>2, ListedLinks
      <4> QED BY <2>1, <4>1
    <3> QED BY <3>1, <3>2
  <2> QED BY <2>1, <2>2
<1>4. ASSUME NEW l \in matched[c], FindLink(c, l)
      PROVE  /\ links' \subseteq links
             /\ \A d \in Clients : matched'[d] \cup removals'[d] \subseteq matched[d] \cup removals[d] \cup links
  BY <1>4 DEF FindLink, store
<1>5. CASE LinkNotFound(c)
  BY <1>5 DEF LinkNotFound, store
<1>6. CASE DeleteLink(c)
  BY <1>6 DEF DeleteLink
<1>7. ASSUME NEW l \in removals[c], RemoveCommitted(c, l)
      PROVE  /\ links' \subseteq links
             /\ \A d \in Clients : matched'[d] \cup removals'[d] \subseteq matched[d] \cup removals[d] \cup links
  BY <1>7 DEF RemoveCommitted
<1> QED BY <1>1, <1>2, <1>3, <1>4, <1>5, <1>6, <1>7 DEF Execute

\* The link that is stored for a pair.
Stored(c, pair) == [predicate |-> pair[1], target |-> pair[2], time |-> signed[c]]

LEMMA StoredLinks ==
    ASSUME ModelTypeOK, RequestsOK, NEW c \in Clients, NEW pair \in additions[c], Store(c, pair)
    PROVE  /\ links' = links \cup {Stored(c, pair)}
           /\ step[c] \in {"adding", "committing"}
           /\ pair = <<pair[1], pair[2]>> /\ pair[1] \in Predicates /\ pair[2] \in Targets
           /\ Stored(c, pair).predicate = pair[1] /\ Stored(c, pair).time = signed[c]
           /\ signed[c] \in 1..now /\ signed' = signed /\ step' = step /\ mode' = mode
           /\ UNCHANGED <<matched, removals, commands, copy>>
           /\ \A p \in Properties :
                  newest'[p] = IF p = pair[1] /\ \A l \in newest[p] : l.time < signed[c]
                               THEN {Stored(c, pair)} ELSE newest[p]
<1>1. pair \in Predicates \X Targets
  BY DEF ModelTypeOK, CommandTypeOK
<1>2. step[c] \in {"adding", "committing"} /\ signed[c] \in 1..now
  BY DEF Store, AddLink, RequestsOK, RequestOK
<1>3. links' = links \cup {Stored(c, pair)}
  BY DEF Store, AddLink, Stored
<1>4. \A p \in Properties :
          newest'[p] = IF p = pair[1] /\ \A l \in newest[p] : l.time < signed[c]
                       THEN {Stored(c, pair)} ELSE newest[p]
  BY DEF Store, Stored
<1>5. /\ signed' = signed /\ step' = step /\ mode' = mode
      /\ UNCHANGED <<matched, removals, commands, copy>>
  BY DEF Store, AddLink
<1>6. Stored(c, pair).predicate = pair[1] /\ Stored(c, pair).time = signed[c]
  BY DEF Stored
<1>7. pair = <<pair[1], pair[2]>> /\ pair[1] \in Predicates /\ pair[2] \in Targets
  BY <1>1
<1> QED BY <1>2, <1>3, <1>4, <1>5, <1>6, <1>7

LEMMA OneLinkPerTimeKept ==
    ASSUME ModelTypeOK, RequestsOK, ModelNext, deletes' = 0, WriteInv
    PROVE  OneLinkPerTime'
<1>0. CommandTypeOK /\ OneLinkPerTime /\ AdditionsAreFresh
  BY DEF ModelTypeOK, WriteInv
<1>1. ASSUME links' \subseteq links
      PROVE  OneLinkPerTime'
  BY <1>0, <1>1 DEF OneLinkPerTime
<1>2. ASSUME NEW c \in Clients, NEW pair \in additions[c], Store(c, pair)
      PROVE  OneLinkPerTime'
  <2>1. ASSUME NEW l \in links, l.predicate = pair[1], pair[1] \in Properties
        PROVE  l.time # signed[c]
    <3>1. <<pair[1], pair[2]>> \in additions[c] /\ pair[2] \in Targets /\ step[c] \in {"adding", "committing"}
      BY <1>2, StoredLinks
    <3> QED BY <1>0, <2>1, <3>1 DEF AdditionsAreFresh
  <2>2. links' = links \cup {Stored(c, pair)}
    BY <1>2, StoredLinks
  <2>3. Stored(c, pair).predicate = pair[1] /\ Stored(c, pair).time = signed[c]
    BY <1>2, StoredLinks
  <2> QED BY <1>0, <2>1, <2>2, <2>3 DEF OneLinkPerTime
<1> QED BY <1>0, <1>1, <1>2, WriteSteps, LinksOnlyGo DEF OneWrite, Get, Answer, Run, commandVars, store

\* What a client reads has one value for each property.
LEMMA OneValueKept ==
    ASSUME ModelTypeOK, RequestsOK, ModelNext, deletes' = 0, WriteInv, NEW d \in Clients
    PROVE  OneValueEach(copy'[d])
<1>0. OneValueEach(copy[d]) /\ copy \in [Clients -> [Fields -> SUBSET Targets]] /\ OneLinkPerTime
  BY DEF ModelTypeOK, WriteInv
<1>1. ASSUME NEW c \in Clients, NEW p \in Properties, NEW v \in Loaded(c)[p], NEW w \in Loaded(c)[p],
             OneValueEach(copy[c])
      PROVE  v = w
  <2>1. CASE links = {}
    BY <1>1, <2>1 DEF Loaded, OneValueEach
  <2>2. CASE links # {}
    <3>1. p \in Fields /\ p \notin Collections
      BY FieldsAssumption DEF Fields
    <3>2. v \in Shown(p, copy[c][p]) /\ w \in Shown(p, copy[c][p])
      BY <1>1, <2>2, <3>1 DEF Loaded
    <3>3. CASE {l \in links : l.predicate = p} = {}
      BY <1>1, <3>1, <3>2, <3>3 DEF Shown, OneValueEach
    <3>4. CASE {l \in links : l.predicate = p} # {}
      <4>1. PICK k \in links : k.predicate = p /\ k.target = v /\ \A m \in links : m.predicate = p => m.time <= k.time
        BY <3>1, <3>2, <3>4 DEF Shown
      <4>2. PICK l \in links : l.predicate = p /\ l.target = w /\ \A m \in links : m.predicate = p => m.time <= l.time
        BY <3>1, <3>2, <3>4 DEF Shown
      <4>3. k.time \in Nat /\ l.time \in Nat
        BY DEF ModelTypeOK, CommandTypeOK
      <4>4. k.time = l.time
        BY <4>1, <4>2, <4>3
      <4> QED BY <1>0, <4>1, <4>2, <4>4 DEF OneLinkPerTime
    <3> QED BY <3>3, <3>4
  <2> QED BY <2>1, <2>2
<1>2. ASSUME NEW c \in Clients
      PROVE  OneValueEach(Loaded(c))
  <2>1. OneValueEach(copy[c])
    BY DEF WriteInv
  <2> QED BY <1>1, <2>1 DEF OneValueEach
<1>3. ASSUME NEW c \in Clients, NEW new, OneValueEach(new), copy' = [copy EXCEPT ![c] = new]
      PROVE  OneValueEach(copy'[d])
  BY <1>0, <1>3
<1>4. ASSUME NEW c \in Clients, Answer(c)
      PROVE  OneValueEach(copy'[d])
  <2>1. PICK new \in {Loaded(c), copy[c]} : copy' = [copy EXCEPT ![c] = new]
    BY <1>4 DEF Answer
  <2>2. OneValueEach(new)
    BY <1>2, <2>1 DEF WriteInv
  <2> QED BY <1>3, <2>1, <2>2
<1>5. ASSUME UNCHANGED copy
      PROVE  OneValueEach(copy'[d])
  BY <1>0, <1>5
<1> QED BY <1>2, <1>3, <1>4, <1>5, WriteSteps DEF OneWrite, Get, Store, Run

\* Every link that is known has a time, and so do the newest ones.
LEMMA KnownTimes ==
    ASSUME ModelTypeOK, NEW p \in Properties, NEW l \in Known(p)
    PROVE  l.predicate = p /\ l.time \in Nat /\ l.time <= now
<1>1. \A k \in newest[p] : k.predicate = p /\ k.time \in Nat /\ k.time <= now
  BY DEF ModelTypeOK, Link
<1>2. \A k \in links : k.time \in Nat /\ k.time <= now
  BY DEF ModelTypeOK, CommandTypeOK
<1>3. \A c \in Clients : \A k \in matched[c] \cup removals[c] : k.time \in Nat /\ k.time <= now
  BY DEF ModelTypeOK, CommandTypeOK
<1> QED BY <1>1, <1>2, <1>3 DEF Known

\* A newest link is the only one.
LEMMA OneNewest ==
    ASSUME ModelTypeOK, NewestIsLatest, NEW p \in Properties, NEW k \in newest[p], NEW n \in newest[p]
    PROVE  k = n
<1>1. k \in Known(p) /\ n \in Known(p)
  BY DEF Known
<1>2. k.time \in Nat /\ n.time \in Nat
  BY <1>1, KnownTimes
<1> QED BY <1>1, <1>2 DEF NewestIsLatest

LEMMA NewestIsLatestKept ==
    ASSUME ModelTypeOK, RequestsOK, ModelNext, deletes' = 0, WriteInv
    PROVE  NewestIsLatest'
<1>0. CommandTypeOK /\ NewestIsLatest /\ AdditionsAreFresh
  BY DEF ModelTypeOK, WriteInv
<1>1. ASSUME links' \subseteq links, newest' = newest,
             \A d \in Clients : matched'[d] \cup removals'[d] \subseteq matched[d] \cup removals[d] \cup links
      PROVE  NewestIsLatest'
  <2>1. \A p \in Properties : Known(p)' \subseteq Known(p)
    BY <1>1 DEF Known
  <2> QED BY <1>0, <1>1, <2>1 DEF NewestIsLatest
<1>2. ASSUME NEW c \in Clients, NEW pair \in additions[c], Store(c, pair)
      PROVE  NewestIsLatest'
  <2> DEFINE new == Stored(c, pair)
  <2>1. /\ links' = links \cup {new} /\ UNCHANGED <<matched, removals>>
        /\ new.predicate = pair[1] /\ new.time = signed[c] /\ signed[c] \in 1..now
        /\ \A p \in Properties :
               newest'[p] = IF p = pair[1] /\ \A l \in newest[p] : l.time < signed[c]
                            THEN {new} ELSE newest[p]
    BY <1>2, StoredLinks
  <2> HIDE DEF new
  <2> SUFFICES ASSUME NEW p \in Properties, NEW l \in Known(p)'
               PROVE  newest'[p] # {} /\ \A n \in newest'[p] : l = n \/ l.time < n.time
    BY DEF NewestIsLatest
  <2>2. l \in Known(p) \/ (l = new /\ p = pair[1])
    BY <2>1 DEF Known
  <2>3. CASE p # pair[1]
    BY <1>0, <2>1, <2>2, <2>3 DEF NewestIsLatest
  <2>4. CASE p = pair[1] /\ \A n \in newest[p] : n.time < signed[c]
    <3>1. newest'[p] = {new}
      BY <2>1, <2>4
    <3>2. ASSUME l \in Known(p)
          PROVE  l.time < new.time
      <4>1. PICK n \in newest[p] : l = n \/ l.time < n.time
        BY <1>0, <3>2 DEF NewestIsLatest
      <4>2. n.time \in Nat /\ l.time \in Nat
        BY <3>2, KnownTimes DEF Known
      <4> QED BY <2>1, <2>4, <4>1, <4>2
    <3> QED BY <2>2, <3>1, <3>2
  <2>5. CASE p = pair[1] /\ ~\A n \in newest[p] : n.time < signed[c]
    <3>1. PICK n \in newest[p] : ~(n.time < signed[c])
      BY <2>5
    <3>2. newest'[p] = newest[p]
      BY <2>1, <2>5
    <3>3. n.time # signed[c]
      <4>1. <<pair[1], pair[2]>> \in additions[c] /\ pair[2] \in Targets /\ step[c] \in {"adding", "committing"}
        BY <1>2, StoredLinks
      <4> QED BY <1>0, <2>5, <4>1 DEF AdditionsAreFresh
    <3>4. n.time \in Nat
      BY KnownTimes DEF Known
    <3>5. new.time < n.time
      BY <2>1, <3>1, <3>3, <3>4
    <3>6. \A k \in newest[p] : k = n
      BY <1>0, OneNewest
    <3> QED BY <1>0, <2>2, <3>2, <3>5, <3>6 DEF NewestIsLatest
  <2> QED BY <2>3, <2>4, <2>5
<1>3. ASSUME NEW c \in Clients, OneWrite(c) \/ Answer(c) \/ Run(c)
      PROVE  NewestIsLatest'
  BY <1>0, <1>1, <1>3, LinksOnlyGo DEF OneWrite, Answer, Run
<1>4. ASSUME NEW c \in Clients, Get(c)
      PROVE  NewestIsLatest'
  BY <1>1, <1>4 DEF Get, commandVars, store, requests
<1> QED BY <1>2, <1>3, <1>4, WriteSteps

-----------------------------------------------------------------------------
(* Signatures *)

LEMMA SignedSteps ==
    ASSUME ModelTypeOK, ModelNext
    PROVE  \/ signed' = signed
           \/ \E c \in Clients : signed' = [signed EXCEPT ![c] = 0]
           \/ \E c \in Clients : signed' = [signed EXCEPT ![c] = now + 1]
BY RequestSteps DEF commandVars, requests, Request, RequestDone, AddLink, Execute, ListLinks, FindLink,
                    LinkNotFound, DeleteLink, SignAdditions, NoteAdditions, CommitBatch, RemoveCommitted,
                    CommandDone

LEMMA SignedApartKept ==
    ASSUME ModelTypeOK, ModelNext, SignedApart
    PROVE  SignedApart'
<1>1. signed \in [Clients -> 0..now] /\ now \in Nat
  BY DEF ModelTypeOK, CommandTypeOK
<1>2. ASSUME NEW c \in Clients, signed' = [signed EXCEPT ![c] = 0]
      PROVE  SignedApart'
  BY <1>1, <1>2 DEF SignedApart
<1>3. ASSUME NEW c \in Clients, signed' = [signed EXCEPT ![c] = now + 1]
      PROVE  SignedApart'
  BY <1>1, <1>3 DEF SignedApart
<1>4. CASE signed' = signed
  BY <1>4 DEF SignedApart
<1> QED BY <1>2, <1>3, <1>4, SignedSteps

\* Where the client of a step stands when it is about to add links.
LEMMA AboutToAdd ==
    ASSUME CommandTypeOK, NEW c \in Clients, step'[c] \in {"adding", "committing"},
           \/ \E cmds \in Seq(Command), m \in {"direct", "batch", "mutation"} : Request(c, cmds, m)
           \/ RequestDone(c)
           \/ Execute(c)
    PROVE  \/ signed'[c] = now + 1 /\ links' = links
           \/ /\ step[c] \in {"adding", "committing"}
              /\ signed'[c] = signed[c] /\ additions'[c] = additions[c] /\ links' \subseteq links
<1> USE DEF CommandTypeOK
<1>1. ~\E cmds \in Seq(Command), m \in {"direct", "batch", "mutation"} : Request(c, cmds, m)
  BY DEF Request
<1>2. ~RequestDone(c) /\ ~LinkNotFound(c) /\ ~DeleteLink(c) /\ ~NoteAdditions(c) /\ ~CommandDone(c)
  BY DEF RequestDone, LinkNotFound, DeleteLink, NoteAdditions, CommandDone
<1>3. ~ListLinks(c)
  BY DEF ListLinks
<1>4. \A l \in matched[c] : ~FindLink(c, l)
  BY DEF FindLink
<1>5. SignAdditions(c) \/ CommitBatch(c) => signed'[c] = now + 1 /\ links' = links
  BY DEF SignAdditions, CommitBatch
<1>6. \A l \in removals[c] : RemoveCommitted(c, l) =>
          /\ step[c] \in {"adding", "committing"}
          /\ signed'[c] = signed[c] /\ additions'[c] = additions[c] /\ links' \subseteq links
  BY DEF RemoveCommitted
<1> QED BY <1>1, <1>2, <1>3, <1>4, <1>5, <1>6 DEF Execute

LEMMA AdditionsAreFreshKept ==
    ASSUME ModelTypeOK, RequestsOK, ModelNext, deletes' = 0, WriteInv
    PROVE  AdditionsAreFresh'
<1>0. CommandTypeOK /\ SignedApart /\ AdditionsAreFresh /\ now \in Nat
  BY DEF ModelTypeOK, CommandTypeOK, WriteInv
<1> SUFFICES ASSUME NEW d \in Clients, step'[d] \in {"adding", "committing"},
                    NEW p \in Properties, NEW v \in Targets, <<p, v>> \in additions'[d]
             PROVE  /\ \A l \in links' : l.predicate = p => l.time # signed'[d]
                    /\ \A l \in newest'[p] : l.time # signed'[d]
  BY DEF AdditionsAreFresh
<1>1. ASSUME step[d] \in {"adding", "committing"}, <<p, v>> \in additions[d], signed'[d] = signed[d],
             links' \subseteq links, newest' = newest
      PROVE  /\ \A l \in links' : l.predicate = p => l.time # signed'[d]
             /\ \A l \in newest'[p] : l.time # signed'[d]
  BY <1>0, <1>1 DEF AdditionsAreFresh
<1>2. ASSUME NEW c \in Clients, NEW pair \in additions[c], Store(c, pair)
      PROVE  /\ \A l \in links' : l.predicate = p => l.time # signed'[d]
             /\ \A l \in newest'[p] : l.time # signed'[d]
  <2>1. /\ links' = links \cup {Stored(c, pair)}
        /\ newest'[p] \subseteq newest[p] \cup {Stored(c, pair)}
        /\ p # pair[1] => newest'[p] = newest[p]
        /\ Stored(c, pair).predicate = pair[1] /\ Stored(c, pair).time = signed[c]
        /\ step' = step /\ signed' = signed /\ pair = <<pair[1], pair[2]>> /\ pair[2] \in Targets
    <3>1. newest'[p] = IF p = pair[1] /\ \A l \in newest[p] : l.time < signed[c]
                       THEN {Stored(c, pair)} ELSE newest[p]
      BY <1>2, StoredLinks
    <3>2. newest'[p] \subseteq newest[p] \cup {Stored(c, pair)} /\ (p # pair[1] => newest'[p] = newest[p])
      BY <3>1
    <3> QED BY <1>2, <3>2, StoredLinks
  <2>2. <<p, v>> \in additions[d] /\ (d = c => <<p, v>> # pair)
    BY <1>0, <1>2 DEF Store, AddLink, CommandTypeOK
  <2>3. signed[d] # 0
    BY <2>1 DEF RequestsOK, RequestOK
  <2>4. CASE d # c
    <3>1. signed[c] # signed[d]
      BY <1>0, <2>3, <2>4 DEF SignedApart
    <3> QED BY <1>0, <2>1, <2>2, <3>1 DEF AdditionsAreFresh
  <2>5. CASE d = c
    <3>1. p # pair[1]
      BY <2>1, <2>2, <2>5 DEF WriteInv, CommandsFit
    <3> QED BY <1>0, <2>1, <2>2, <3>1 DEF AdditionsAreFresh
  <2> QED BY <2>4, <2>5
<1>3. ASSUME NEW c \in Clients, newest' = newest,
             \/ \E cmds \in Seq(Command), m \in {"direct", "batch", "mutation"} : Request(c, cmds, m)
             \/ RequestDone(c)
             \/ Execute(c)
      PROVE  /\ \A l \in links' : l.predicate = p => l.time # signed'[d]
             /\ \A l \in newest'[p] : l.time # signed'[d]
  <2>1. CASE d # c
    <3>1. SameRequest(d) /\ links' \subseteq links
      BY <1>0, <1>3, <2>1, OthersRequests, LinksOnlyGo
    <3> QED BY <1>1, <1>3, <3>1 DEF SameRequest
  <2>2. CASE d = c
    <3>1. CASE signed'[d] = now + 1 /\ links' = links
      <4>1. \A l \in links : l.time \in Nat /\ l.time <= now
        BY <1>0 DEF CommandTypeOK
      <4>2. \A l \in newest[p] : l.time \in Nat /\ l.time <= now
        BY KnownTimes DEF Known
      <4> QED BY <1>0, <1>3, <3>1, <4>1, <4>2
    <3>2. CASE /\ step[d] \in {"adding", "committing"}
               /\ signed'[d] = signed[d] /\ additions'[d] = additions[d] /\ links' \subseteq links
      BY <1>1, <1>3, <3>2
    <3> QED BY <1>0, <1>3, <2>2, <3>1, <3>2, AboutToAdd
  <2> QED BY <2>1, <2>2
<1>4. ASSUME NEW c \in Clients, Get(c)
      PROVE  /\ \A l \in links' : l.predicate = p => l.time # signed'[d]
             /\ \A l \in newest'[p] : l.time # signed'[d]
  BY <1>1, <1>4 DEF Get, commandVars, store, requests
<1> QED BY <1>2, <1>3, <1>4, WriteSteps DEF OneWrite, Answer, Run

-----------------------------------------------------------------------------
(* The newest link is there, or somebody is about to write a newer one *)

\* Deleting the newest link leaves its writer with the new one.
LEMMA DeletedByWriter ==
    ASSUME ModelTypeOK, RequestsOK, WriteInv, NEW c \in Clients, Execute(c),
           NEW p \in Properties, NEW n \in newest[p], n \in links, n \notin links', newest' = newest
    PROVE  Writes(c, p)' \/ WillWrite(c, p)'
<1>0. CommandTypeOK /\ NewestIsLatest /\ CommandsFit(c) /\ RequestOK(c)
  BY DEF ModelTypeOK, WriteInv, RequestsOK
<1>1. n.predicate = p /\ n.time \in Nat
  BY KnownTimes DEF Known
<1>2. CASE DeleteLink(c)
  <2>1. step[c] = "found" /\ n \in removals[c]
    BY <1>2 DEF DeleteLink
  <2>2. mode[c] = "direct" /\ Head(commands[c]).predicate = p
    BY <1>0, <1>1, <2>1 DEF CommandsFit, RequestOK
  <2>3. ASSUME NEW m \in matched[c]
        PROVE  FALSE
    <3>1. n.time < m.time /\ m.predicate = p
      BY <1>0, <1>1, <2>1, <2>2 DEF CommandsFit
    <3>2. m \in Known(p)
      BY <3>1 DEF Known
    <3>3. m.time \in Nat
      BY <3>2, KnownTimes
    <3>4. m = n \/ m.time < n.time
      BY <1>0, <3>2 DEF NewestIsLatest
    <3> QED BY <1>1, <3>1, <3>3, <3>4
  <2>4. matched[c] = {}
    BY <2>3
  <2>5. step'[c] = "removing" /\ UNCHANGED <<mode, matched, commands>>
    BY <1>0, <1>2 DEF DeleteLink, CommandTypeOK
  <2> QED BY <2>2, <2>4, <2>5 DEF WillWrite
<1>3. ASSUME NEW l \in removals[c], RemoveCommitted(c, l)
      PROVE  Writes(c, p)'
  <2>1. /\ l = n /\ step[c] = "committing"
        /\ UNCHANGED <<mode, step, additions, signed>>
    BY <1>3 DEF RemoveCommitted
  <2>2. mode[c] # "direct"
    BY <1>0, <2>1 DEF RequestOK
  <2>3. \E v \in Targets : <<p, v>> \in additions[c]
    BY <1>0, <1>1, <2>1, <2>2 DEF CommandsFit
  <2>4. n.time < signed[c]
    BY <1>0, <2>1 DEF CommandsFit
  <2>5. \A k \in newest[p] : k = n
    BY <1>0, OneNewest
  <2> QED BY <2>1, <2>3, <2>4, <2>5 DEF Writes
<1>4. CASE /\ ~DeleteLink(c)
           /\ ~\E l \in removals[c] : RemoveCommitted(c, l)
  <2>1. links' = links
    BY <1>4 DEF Execute, ListLinks, FindLink, LinkNotFound, SignAdditions, NoteAdditions, CommitBatch,
                CommandDone, store
  <2> QED BY <2>1
<1> QED BY <1>2, <1>3, <1>4

\* A writer goes on writing until its link is stored.
LEMMA WritersGoOn ==
    ASSUME ModelTypeOK, RequestsOK, WriteInv, NEW c \in Clients, NEW p \in Properties, newest' = newest,
           Writes(c, p) \/ WillWrite(c, p),
           \/ \E cmds \in Seq(Command), m \in {"direct", "batch", "mutation"} : Request(c, cmds, m)
           \/ RequestDone(c)
           \/ Execute(c)
    PROVE  Writes(c, p)'
<1>0. CommandTypeOK /\ CommandsFit(c) /\ RequestOK(c)
  BY DEF ModelTypeOK, WriteInv, RequestsOK
<1>1. CASE Writes(c, p)
  <2>1. step[c] \in {"adding", "committing"} /\ additions[c] # {} /\ matched[c] = {}
    BY <1>0, <1>1 DEF Writes, RequestOK
  <2>2. ~\E cmds \in Seq(Command), m \in {"direct", "batch", "mutation"} : Request(c, cmds, m)
    BY <2>1 DEF Request, Idle
  <2>3. ~RequestDone(c) /\ ~CommandDone(c)
    BY <2>1 DEF RequestDone, CommandDone
  <2>4. /\ ~ListLinks(c) /\ ~LinkNotFound(c) /\ ~DeleteLink(c) /\ ~SignAdditions(c)
        /\ ~NoteAdditions(c) /\ ~CommitBatch(c)
    BY <2>1 DEF ListLinks, LinkNotFound, DeleteLink, SignAdditions, NoteAdditions, CommitBatch
  <2>5. PICK l \in removals[c] : RemoveCommitted(c, l)
    BY <2>1, <2>2, <2>3, <2>4 DEF Execute
  <2>6. UNCHANGED <<step, additions, signed>>
    BY <2>5 DEF RemoveCommitted
  <2> QED BY <1>1, <2>6 DEF Writes
<1>2. CASE WillWrite(c, p)
  <2>1. mode[c] = "direct" /\ step[c] = "removing" /\ matched[c] = {} /\ Head(commands[c]).predicate = p
    BY <1>2 DEF WillWrite
  <2>2. ~\E cmds \in Seq(Command), m \in {"direct", "batch", "mutation"} : Request(c, cmds, m)
    BY <2>1 DEF Request, Idle
  <2>3. ~RequestDone(c) /\ ~CommandDone(c)
    BY <2>1 DEF RequestDone, CommandDone
  <2>4. /\ ~ListLinks(c) /\ ~LinkNotFound(c) /\ ~DeleteLink(c)
        /\ ~NoteAdditions(c) /\ ~CommitBatch(c)
    BY <2>1 DEF ListLinks, LinkNotFound, Oldest, DeleteLink, NoteAdditions, CommitBatch
  <2>5. \A l \in removals[c] : ~RemoveCommitted(c, l)
    BY <2>1 DEF RemoveCommitted
  <2>6. SignAdditions(c)
    BY <2>1, <2>2, <2>3, <2>4, <2>5 DEF Execute
  <2>7. /\ step'[c] = "adding" /\ signed'[c] = now + 1
        /\ additions'[c] = Additions(Head(commands[c]))
    BY <1>0, <2>6 DEF SignAdditions, CommandTypeOK
  <2>8. \E v \in Targets : <<p, v>> \in additions'[c]
    <3>1. commands[c] # <<>> /\ WritesOnce(commands[c]) /\ commands[c] \in Seq(Command)
      BY <1>0, <2>1 DEF RequestOK, CommandsFit, CommandTypeOK
    <3>2. \E v \in Targets : <<Head(commands[c]).predicate, v>> \in Additions(Head(commands[c]))
      BY <2>1, <3>1, HeadAdds
    <3> QED BY <2>1, <2>7, <3>2
  <2>9. \A n \in newest[p] : n.time \in Nat /\ n.time <= now
    BY KnownTimes DEF Known
  <2>10. now \in Nat
    BY <1>0 DEF CommandTypeOK
  <2> QED BY <2>7, <2>8, <2>9, <2>10 DEF Writes
<1> QED BY <1>1, <1>2

LEMMA KeptOrWrittenKept ==
    ASSUME ModelTypeOK, RequestsOK, ModelNext, deletes' = 0, WriteInv
    PROVE  KeptOrWritten'
<1>0. CommandTypeOK /\ KeptOrWritten
  BY DEF ModelTypeOK, WriteInv
<1> SUFFICES ASSUME NEW p \in Properties
             PROVE  newest'[p] \subseteq links' \/ \E d \in Clients : Writes(d, p)' \/ WillWrite(d, p)'
  BY DEF KeptOrWritten
<1>1. ASSUME NEW d \in Clients, SameRequest(d), newest'[p] = newest[p], Writes(d, p) \/ WillWrite(d, p)
      PROVE  Writes(d, p)' \/ WillWrite(d, p)'
  BY <1>1 DEF SameRequest, Writes, WillWrite
<1>2. ASSUME NEW c \in Clients, NEW pair \in additions[c], Store(c, pair)
      PROVE  newest'[p] \subseteq links' \/ \E d \in Clients : Writes(d, p)' \/ WillWrite(d, p)'
  <2>1. links' = links \cup {Stored(c, pair)}
    BY <1>2, StoredLinks
  <2>2. newest'[p] = IF p = pair[1] /\ \A l \in newest[p] : l.time < signed[c]
                     THEN {Stored(c, pair)} ELSE newest[p]
    BY <1>2, StoredLinks
  <2>3. step[c] \in {"adding", "committing"} /\ step' = step /\ signed' = signed
    BY <1>2, StoredLinks
  <2>4. CASE newest[p] \subseteq links
    BY <2>1, <2>2, <2>4
  <2>5. CASE p = pair[1] /\ \A l \in newest[p] : l.time < signed[c]
    BY <2>1, <2>2, <2>5
  <2>6. ASSUME NEW d \in Clients, Writes(d, p) \/ WillWrite(d, p),
               ~(p = pair[1] /\ \A l \in newest[p] : l.time < signed[c])
        PROVE  Writes(d, p)' \/ WillWrite(d, p)'
    <3>1. newest'[p] = newest[p]
      BY <2>2, <2>6
    <3>2. CASE d # c
      <4>1. SameRequest(d)
        BY <1>0, <1>2, <3>2, OthersRequests DEF Store
      <4> QED BY <1>1, <2>6, <3>1, <4>1
    <3>3. CASE d = c
      <4>1. Writes(c, p)
        BY <2>3, <2>6, <3>3 DEF WillWrite
      <4>2. p # pair[1]
        BY <2>6, <4>1 DEF Writes
      <4>3. PICK v \in Targets : <<p, v>> \in additions[c]
        BY <4>1 DEF Writes
      <4>4. <<p, v>> \in additions'[c]
        <5>1. <<p, v>> # pair
          BY <4>2
        <5> QED BY <1>0, <1>2, <4>3, <5>1 DEF Store, AddLink, CommandTypeOK
      <4> QED BY <2>3, <3>1, <3>3, <4>1, <4>4 DEF Writes
    <3> QED BY <3>2, <3>3
  <2> QED BY <1>0, <2>4, <2>5, <2>6 DEF KeptOrWritten
<1>3. ASSUME NEW c \in Clients, newest' = newest,
             \/ \E cmds \in Seq(Command), m \in {"direct", "batch", "mutation"} : Request(c, cmds, m)
             \/ RequestDone(c)
             \/ Execute(c)
      PROVE  newest'[p] \subseteq links' \/ \E d \in Clients : Writes(d, p)' \/ WillWrite(d, p)'
  <2>1. ASSUME NEW d \in Clients, Writes(d, p) \/ WillWrite(d, p)
        PROVE  Writes(d, p)' \/ WillWrite(d, p)'
    <3>1. CASE d = c
      BY <1>3, <2>1, <3>1, WritersGoOn
    <3>2. CASE d # c
      <4>1. SameRequest(d)
        BY <1>0, <1>3, <3>2, OthersRequests
      <4> QED BY <1>1, <1>3, <2>1, <4>1
    <3> QED BY <3>1, <3>2
  <2>2. CASE newest[p] \subseteq links
    <3>1. CASE newest[p] \subseteq links'
      BY <1>3, <3>1
    <3>2. CASE \E n \in newest[p] : n \notin links'
      <4>1. PICK n \in newest[p] : n \in links /\ n \notin links'
        BY <2>2, <3>2
      <4>2. Execute(c)
        BY <1>3, <4>1 DEF Request, RequestDone, store
      <4> QED BY <1>3, <4>1, <4>2, DeletedByWriter
    <3> QED BY <3>1, <3>2
  <2> QED BY <1>0, <2>1, <2>2 DEF KeptOrWritten
<1>4. ASSUME NEW c \in Clients, Get(c)
      PROVE  newest'[p] \subseteq links' \/ \E d \in Clients : Writes(d, p)' \/ WillWrite(d, p)'
  BY <1>0, <1>4 DEF Get, commandVars, store, requests, KeptOrWritten, Writes, WillWrite
<1> QED BY <1>2, <1>3, <1>4, WriteSteps DEF OneWrite, Answer, Run

-----------------------------------------------------------------------------

LEMMA ModelInitially == ModelInit => ModelInv
<1> SUFFICES ASSUME ModelInit PROVE ModelInv
  OBVIOUS
<1> USE FieldsAssumption DEF ModelInit, CommandInit
<1>1. CommandTypeOK
  BY DEF CommandTypeOK
<1>2. ModelTypeOK
  BY <1>1 DEF ModelTypeOK
<1>3. RequestsOK
  BY DEF RequestsOK, RequestOK
<1>4. ASSUME NEW c \in Clients
      PROVE  OneValueEach(copy[c]) /\ CommandsFit(c)
  BY DEF OneValueEach, Fields, CommandsFit, WritesOnce
<1>5. OneLinkPerTime /\ SignedApart /\ AdditionsAreFresh /\ KeptOrWritten
  BY DEF OneLinkPerTime, SignedApart, AdditionsAreFresh, KeptOrWritten
<1>6. NewestIsLatest
  BY DEF NewestIsLatest, Known
<1> QED BY <1>2, <1>3, <1>4, <1>5, <1>6 DEF ModelInv, WriteInv

LEMMA ModelInvariant == ModelSpec => []ModelInv
<1>1. ModelInv /\ [ModelNext]_modelVars => ModelInv'
  <2> SUFFICES ASSUME ModelInv, [ModelNext]_modelVars
               PROVE  ModelInv'
    OBVIOUS
  <2>1. CASE ModelNext
    <3>1. ModelTypeOK' /\ RequestsOK'
      BY <2>1, TypesAreKept, RequestsAreKept DEF ModelInv
    <3>2. ASSUME deletes' = 0
          PROVE  WriteInv'
      <4>1. ModelTypeOK /\ RequestsOK /\ WriteInv
        BY <2>1, <3>2, WriteSteps DEF ModelInv
      <4>2. \A c \in Clients : OneValueEach(copy[c])' /\ CommandsFit(c)'
        BY <2>1, <3>2, <4>1, AllCommandsFit, OneValueKept DEF OneValueEach
      <4>3. OneLinkPerTime' /\ NewestIsLatest'
        BY <2>1, <3>2, <4>1, OneLinkPerTimeKept, NewestIsLatestKept
      <4>4. SignedApart' /\ AdditionsAreFresh' /\ KeptOrWritten'
        <5>1. SignedApart
          BY <4>1 DEF WriteInv
        <5> QED BY <2>1, <3>2, <4>1, <5>1, SignedApartKept, AdditionsAreFreshKept, KeptOrWrittenKept
      <4> QED BY <4>2, <4>3, <4>4 DEF WriteInv
    <3> QED BY <3>1, <3>2 DEF ModelInv
  <2>2. CASE UNCHANGED modelVars
    <3> USE <2>2 DEF modelVars, commandVars, store, requests
    <3>1. ModelTypeOK'
      BY DEF ModelInv, ModelTypeOK, CommandTypeOK
    <3>2. RequestsOK'
      BY DEF ModelInv, RequestsOK, RequestOK
    <3>3. ASSUME deletes = 0
          PROVE  WriteInv'
      <4>1. WriteInv
        BY <3>3 DEF ModelInv
      <4>2. ASSUME NEW c \in Clients
            PROVE  OneValueEach(copy[c])' /\ CommandsFit(c)'
        BY <4>1 DEF WriteInv, OneValueEach, CommandsFit, WritesOnce
      <4>3. OneLinkPerTime' /\ SignedApart'
        BY <4>1 DEF WriteInv, OneLinkPerTime, SignedApart
      <4>4. NewestIsLatest'
        <5>1. \A p \in Properties : Known(p)' = Known(p)
          BY DEF Known
        <5> QED BY <4>1, <5>1 DEF WriteInv, NewestIsLatest
      <4>5. AdditionsAreFresh'
        BY <4>1 DEF WriteInv, AdditionsAreFresh
      <4>6. KeptOrWritten'
        BY <4>1 DEF WriteInv, KeptOrWritten, Writes, WillWrite
      <4> QED BY <4>2, <4>3, <4>4, <4>5, <4>6 DEF WriteInv
    <3> QED BY <3>1, <3>2, <3>3 DEF ModelInv
  <2> QED BY <2>1, <2>2
<1> QED BY <1>1, ModelInitially, PTL DEF ModelSpec

\* The types of the instances, their requests and the links.
THEOREM ModelTypeCorrect == ModelSpec => []ModelTypeOK
BY ModelInvariant, PTL DEF ModelInv

\* save(), update() and setSingleTarget() of any number of clients on any fields, failing
\* half-way or overtaking each other between signature and store, never lose a property's
\* latest value: the executor adds the new link of a command that removes the old ones.
THEOREM LastWriteNeverLost == ModelSpec => []LastWriteIsKept
<1>1. ModelInv => LastWriteIsKept
  <2> SUFFICES ASSUME ModelInv, \A c \in Clients : Idle(c), deletes = 0, NEW p \in Properties
               PROVE  newest[p] \subseteq links
    BY DEF LastWriteIsKept
  <2>1. ~\E c \in Clients : Writes(c, p) \/ WillWrite(c, p)
    BY DEF Idle, Writes, WillWrite
  <2> QED BY <2>1 DEF ModelInv, WriteInv, KeptOrWritten
<1> QED BY <1>1, ModelInvariant, PTL

-----------------------------------------------------------------------------
(* The proxy of a subscription *)

FlagsOK ==
    /\ subscribed \in BOOLEAN /\ disposed \in BOOLEAN /\ gaveUp \in BOOLEAN
    /\ timer \in BOOLEAN /\ initTimer \in BOOLEAN

NumbersOK ==
    /\ calls \in [Origins -> Nat]
    /\ keepalives \in Nat /\ lostTimers \in Nat /\ lostInitTimers \in Nat
    /\ id \in Nat
    /\ leaked \cup {listening} \subseteq 0..id
    /\ server \subseteq {id}
    /\ failures \in 0..MaxFailures /\ expired \in 0..MaxExpired /\ timeouts \in 0..MaxTimeouts

\* All that the three properties need: each of them is kept by itself once the types are known.
ProxyInv == ProxyTypeOK /\ KeepaliveGoesOn /\ ListensToWhatItKeeps

LEMMA TypesInParts == ProxyTypeOK <=> FlagsOK /\ NumbersOK
BY DEF ProxyTypeOK, FlagsOK, NumbersOK

LEMMA ProxyInitially == ProxyInit => ProxyInv
<1> SUFFICES ASSUME ProxyInit PROVE ProxyInv
  OBVIOUS
<1>1. FlagsOK
  BY Zenon DEF ProxyInit, FlagsOK
<1>2. NumbersOK
  BY ProxyAssumption DEF ProxyInit, NumbersOK, Origins, NoSubscription
<1>3. ~subscribed
  BY DEF ProxyInit
<1> QED BY <1>1, <1>2, <1>3, TypesInParts DEF ProxyInv, KeepaliveGoesOn, ListensToWhatItKeeps

-----------------------------------------------------------------------------

LEMMA FlagsAreKept ==
    ASSUME FlagsOK, ProxyNext
    PROVE  FlagsOK'
<1> USE DEF FlagsOK, Subscribe
<1>1. CASE StartSubscription
  BY <1>1, Zenon DEF StartSubscription
<1>2. ASSUME NEW o \in Origins, SubscribeAnswered(o)
      PROVE  FlagsOK'
  BY <1>2, Zenon DEF SubscribeAnswered, ArmTimers, ArmInitTimer
<1>3. ASSUME NEW o \in Origins, SubscribeFails(o)
      PROVE  FlagsOK'
  BY <1>3, Zenon DEF SubscribeFails
<1>4. CASE UpdateArrives
  BY <1>4, Zenon DEF UpdateArrives
<1>5. CASE InitTimeout
  BY <1>5, Zenon DEF InitTimeout
<1>6. CASE KeepaliveFires
  BY <1>6, Zenon DEF KeepaliveFires
<1>7. CASE KeepaliveAnswered
  BY <1>7, Zenon DEF KeepaliveAnswered, Rearm, ArmTimers
<1>8. CASE KeepaliveError
  BY <1>8, Zenon DEF KeepaliveError
<1>9. CASE Dispose
  BY <1>9, Zenon DEF Dispose
<1>10. CASE ExpireUnattended
  BY <1>10, Zenon DEF ExpireUnattended, clientState
<1>11. CASE ExpireLate
  BY <1>11, Zenon DEF ExpireLate, clientState
<1> QED BY <1>1, <1>2, <1>3, <1>4, <1>5, <1>6, <1>7, <1>8, <1>9, <1>10, <1>11 DEF ProxyNext

\* An answer that opens a new subscription takes a new id, and a listener is one of a
\* subscription there has been.
LEMMA NumbersAreKept ==
    ASSUME NumbersOK, ProxyNext
    PROVE  NumbersOK'
<1> USE ProxyAssumption DEF NumbersOK, Origins, NoSubscription
<1>1. CASE StartSubscription
  BY <1>1 DEF StartSubscription, Subscribe
<1>2. ASSUME NEW o \in Origins, SubscribeAnswered(o)
      PROVE  NumbersOK'
  <2>1. id' \in Nat /\ id' >= id /\ server' = {id'}
    BY <1>2 DEF SubscribeAnswered, Answered
  <2>2. leaked' \cup {listening'} \subseteq 0..id'
    BY <1>2, <2>1 DEF SubscribeAnswered, Listen
  <2>3. lostTimers' \in Nat /\ lostInitTimers' \in Nat
    BY <1>2 DEF SubscribeAnswered, ArmTimers, ArmInitTimer
  <2>4. calls' \in [Origins -> Nat]
    BY <1>2 DEF SubscribeAnswered
  <2> QED BY <1>2, <2>1, <2>2, <2>3, <2>4 DEF SubscribeAnswered
<1>3. ASSUME NEW o \in Origins, SubscribeFails(o)
      PROVE  NumbersOK'
  BY <1>3 DEF SubscribeFails, Fail
<1>4. CASE UpdateArrives
  BY <1>4 DEF UpdateArrives
<1>5. CASE InitTimeout
  BY <1>5 DEF InitTimeout, Subscribe
<1>6. CASE KeepaliveFires
  BY <1>6 DEF KeepaliveFires
<1>7. CASE KeepaliveAnswered
  BY <1>7 DEF KeepaliveAnswered, Rearm, ArmTimers
<1>8. CASE KeepaliveError
  BY <1>8 DEF KeepaliveError, Fail, Subscribe
<1>9. CASE Dispose
  <2>1. \/ server' = {} /\ UNCHANGED failures
        \/ Fail /\ UNCHANGED server
    BY <1>9, Zenon DEF Dispose
  <2>3. failures' \in 0..MaxFailures /\ server' \subseteq {id}
    <3>1. CASE server' = {} /\ UNCHANGED failures
      BY <3>1
    <3>2. CASE Fail /\ UNCHANGED server
      BY <3>2 DEF Fail
    <3> QED BY <2>1, <3>1, <3>2
  <2>2. listening' = 0 /\ UNCHANGED <<calls, keepalives, lostTimers, lostInitTimers, leaked, id,
                                     expired, timeouts>>
    BY <1>9 DEF Dispose
  <2> QED BY <2>2, <2>3
<1>10. CASE ExpireUnattended
  BY <1>10 DEF ExpireUnattended, clientState
<1>11. CASE ExpireLate
  BY <1>11 DEF ExpireLate, clientState
<1> QED BY <1>1, <1>2, <1>3, <1>4, <1>5, <1>6, <1>7, <1>8, <1>9, <1>10, <1>11 DEF ProxyNext

LEMMA PositiveSum ==
    ASSUME NEW m \in Nat, NEW n \in Nat
    PROVE  1 + m + n > 0
OBVIOUS

\* Whoever clears the timer has a call or a request under way.
LEMMA LoopIsKept ==
    ASSUME ProxyInv, ProxyNext
    PROVE  KeepaliveGoesOn'
<1> USE DEF ProxyInv, ProxyTypeOK, KeepaliveGoesOn, Attended, Loops, Calling, Origins
<1>1. CASE StartSubscription
  <2>1. calls'["app"] > 0
    BY <1>1 DEF StartSubscription, Subscribe
  <2> QED BY <2>1
<1>2. ASSUME NEW o \in Origins, SubscribeAnswered(o)
      PROVE  KeepaliveGoesOn'
  <2>1. timer' = TRUE /\ lostTimers' \in Nat /\ keepalives' \in Nat
    BY <1>2 DEF SubscribeAnswered, ArmTimers
  <2>2. (IF timer' THEN 1 ELSE 0) = 1
    BY <2>1, Zenon
  <2>3. 1 + lostTimers' + keepalives' > 0
    BY <2>1, PositiveSum
  <2>4. Loops' > 0
    BY <2>2, <2>3, Zenon DEF Loops
  <2> QED BY <2>4, Zenon DEF Attended, KeepaliveGoesOn
<1>3. ASSUME NEW o \in Origins, SubscribeFails(o)
      PROVE  KeepaliveGoesOn'
  BY <1>3 DEF SubscribeFails
<1>4. CASE UpdateArrives
  BY <1>4 DEF UpdateArrives
<1>5. CASE InitTimeout
  <2>1. calls'["timeout"] > 0
    BY <1>5 DEF InitTimeout, Subscribe
  <2> QED BY <2>1
<1>6. CASE KeepaliveFires
  BY <1>6 DEF KeepaliveFires, GoesOn
<1>7. CASE KeepaliveAnswered
  BY <1>7 DEF KeepaliveAnswered, Rearm, ArmTimers, GoesOn
<1>8. CASE KeepaliveError
  <2>1. calls'["keepalive"] > 0
    BY <1>8 DEF KeepaliveError, Subscribe
  <2> QED BY <2>1
<1>9. CASE Dispose
  BY <1>9 DEF Dispose
<1>10. CASE ExpireUnattended
  BY <1>10 DEF ExpireUnattended, clientState
<1>11. CASE ExpireLate
  BY <1>11 DEF ExpireLate, clientState
<1> QED BY <1>1, <1>2, <1>3, <1>4, <1>5, <1>6, <1>7, <1>8, <1>9, <1>10, <1>11 DEF ProxyNext

\* A listener is cleared only by a call that will bring its own, and an answer listens to
\* the very subscription it stores as the one to keep alive.
LEMMA ListenerIsKept ==
    ASSUME ProxyInv, ProxyNext
    PROVE  ListensToWhatItKeeps'
<1> USE DEF ProxyInv, ProxyTypeOK, ListensToWhatItKeeps, Calling, Origins
<1>1. CASE StartSubscription
  <2>1. calls'["app"] > 0
    BY <1>1 DEF StartSubscription, Subscribe
  <2> QED BY <2>1
<1>2. ASSUME NEW o \in Origins, SubscribeAnswered(o)
      PROVE  ListensToWhatItKeeps'
  BY <1>2 DEF SubscribeAnswered, Listen
<1>3. ASSUME NEW o \in Origins, SubscribeFails(o)
      PROVE  ListensToWhatItKeeps'
  BY <1>3 DEF SubscribeFails
<1>4. CASE UpdateArrives
  BY <1>4 DEF UpdateArrives
<1>5. CASE InitTimeout
  <2>1. calls'["timeout"] > 0
    BY <1>5 DEF InitTimeout, Subscribe
  <2> QED BY <2>1
<1>6. CASE KeepaliveFires
  BY <1>6 DEF KeepaliveFires
<1>7. CASE KeepaliveAnswered
  BY <1>7 DEF KeepaliveAnswered
<1>8. CASE KeepaliveError
  <2>1. calls'["keepalive"] > 0
    BY <1>8 DEF KeepaliveError, Subscribe
  <2> QED BY <2>1
<1>9. CASE Dispose
  BY <1>9 DEF Dispose
<1>10. CASE ExpireUnattended
  BY <1>10 DEF ExpireUnattended, clientState
<1>11. CASE ExpireLate
  BY <1>11 DEF ExpireLate, clientState
<1> QED BY <1>1, <1>2, <1>3, <1>4, <1>5, <1>6, <1>7, <1>8, <1>9, <1>10, <1>11 DEF ProxyNext

LEMMA ProxyInvariant == ProxySpec => []ProxyInv
<1>1. ProxyInv /\ [ProxyNext]_proxyVars => ProxyInv'
  <2> SUFFICES ASSUME ProxyInv, [ProxyNext]_proxyVars
               PROVE  ProxyInv'
    OBVIOUS
  <2>1. CASE ProxyNext
    <3>1. FlagsOK /\ NumbersOK
      BY TypesInParts DEF ProxyInv
    <3>2. FlagsOK' /\ NumbersOK'
      BY <2>1, <3>1, FlagsAreKept, NumbersAreKept
    <3>3. ProxyTypeOK'
      BY <3>2 DEF FlagsOK, NumbersOK, ProxyTypeOK
    <3> QED BY <2>1, <3>3, LoopIsKept, ListenerIsKept DEF ProxyInv
  <2>2. CASE UNCHANGED proxyVars
    BY <2>2 DEF ProxyInv, ProxyTypeOK, KeepaliveGoesOn, ListensToWhatItKeeps, Attended, Loops,
                Calling, proxyVars, clientState
  <2> QED BY <2>1, <2>2
<1> QED BY <1>1, ProxyInitially, PTL DEF ProxySpec

-----------------------------------------------------------------------------

\* The types of the proxy's fields (QuerySubscriptionProxy), and one live subscription at most.
THEOREM ProxyTypeCorrect == ProxySpec => []ProxyTypeOK
BY ProxyInvariant, PTL DEF ProxyInv

\* A proxy in use is never without a keepalive timer or request, or a subscribe() under way
\* (PerspectiveProxy.ts, subscribe() and its keepaliveLoop), unless a subscribe() failed.
THEOREM LoopNeverStops == ProxySpec => []KeepaliveGoesOn
BY ProxyInvariant, PTL DEF ProxyInv

\* However many subscribe() calls run into each other: when none is under way, the
\* subscription the loop keeps alive has a listener.
THEOREM KeepsWhatItHears == ProxySpec => []ListensToWhatItKeeps
BY ProxyInvariant, PTL DEF ProxyInv
-----------------------------------------------------------------------------
(* Reading page by page *)

\* Client c is about to add a link of predicate p.
AddsTo(c, p) ==
    \/ \E i \in 1..Len(commands[c]) : commands[c][i].predicate = p
    \/ \E pair \in additions[c] : pair[1] = p

Makes(c, b) == AddsTo(c, Flag(b))
Concerns(c, b) == AddsTo(c, Flag(b)) \/ AddsTo(c, Rating(b))

\* Nobody knows of an expression that no instance was made of.
Untouched ==
    \A b \in Bases \ created : LinksOf(b) = {} /\ \A c \in Clients : ~Concerns(c, b)

\* The commands of save() and setSingleTarget().
CalmCommands ==
    {Single("addLink", Flag(b), FlagValue) : b \in Bases}
        \cup {Single("setSingleTarget", Rating(b), v) : b \in Bases, v \in Ratings}

\* They are sent in batches or as mutations, and never remove a flag.
CalmRequest(c) ==
    /\ Idle(c) \/ mode[c] # "direct"
    /\ \A i \in 1..Len(commands[c]) : commands[c][i] \in CalmCommands
    /\ \A l \in matched[c] \cup removals[c] : \A b \in Bases : l.predicate # Flag(b)
    /\ \A pair \in additions[c] : \A b \in Bases : pair[1] = Flag(b) => pair[2] = FlagValue

\* Who creates an instance is alone with it until its flag is stored.
MakersAlone ==
    \A c \in Clients, b \in Bases : Makes(c, b) =>
        /\ b \notin Instances
        /\ \A d \in Clients : Concerns(d, b) => d = c
        /\ \/ LinksOf(b) = {}
           \/ step[c] = "committing" /\ \A l \in LinksOf(b) : l.time = signed[c]

OnlyInstances ==
    \A c \in Clients, b \in Bases : Concerns(c, b) => b \in Instances \/ Makes(c, b)

\* t is the time of b's flag, and no other link of b is or will be older.
FlagTime(b, t) ==
    /\ \E f \in LinksOf(b) : f.predicate = Flag(b) /\ f.time = t
    /\ \A l \in LinksOf(b) : t <= l.time
    /\ \A c \in Clients : step[c] = "committing" /\ Concerns(c, b) => t <= signed[c]

FlagsFirst == \A b \in Instances : \E t \in Nat : FlagTime(b, t)

Calm == (\A c \in Clients : CalmRequest(c)) /\ MakersAlone /\ OnlyInstances /\ FlagsFirst

\* An instance that was there when the reader began is on a page he has, or on a later one.
SeenOrComes ==
    page > 0 => \A b \in expected :
        b \in Instances /\ (b \in seen \/ Cardinality(Before(b)) >= PageSize * (page - 1))

QueryInv ==
    /\ QueryTypeOK
    /\ RequestsOK
    /\ Untouched
    /\ ~disturbed => Calm /\ SeenOrComes
    /\ PagingMissesNothing

-----------------------------------------------------------------------------
(* Requests *)

\* Predicates of different bases, and a base's flag and rating, are not the same.
LEMMA PredicatesDiffer ==
    \A a, b : /\ Flag(a) = Flag(b) => a = b
              /\ Rating(a) = Rating(b) => a = b
              /\ Flag(a) # Rating(b)
BY DEF Flag, Rating

LEMMA SinglesAreCommands ==
    ASSUME NEW b \in Bases
    PROVE  /\ Single("addLink", Flag(b), FlagValue) \in Command
           /\ Single("setSingleTarget", Flag(b), FlagValue) \in Command
           /\ \A v \in Ratings : Single("setSingleTarget", Rating(b), v) \in Command
BY QueriesAssumption DEF Single, Command, Actions

LEMMA OneOrTwo ==
    ASSUME NEW S, NEW x \in S, NEW y \in S
    PROVE  /\ <<x>> \in Seq(S) /\ Len(<<x>>) = 1 /\ <<x>>[1] = x
           /\ <<x, y>> \in Seq(S) /\ Len(<<x, y>>) = 2 /\ <<x, y>>[1] = x /\ <<x, y>>[2] = y
OBVIOUS

\* What writing an instance asks for, for whatever reason.
WriteOf(c, b) ==
    \E cmds \in Seq(Command), m \in {"direct", "batch", "mutation"} :
        /\ Request(c, cmds, m)
        /\ \A i \in 1..Len(cmds) : cmds[i].predicate \in {Flag(b), Rating(b)}

LEMMA WritesOf ==
    ASSUME NEW c \in Clients, NEW b \in Bases, NEW v \in Ratings,
           Create(c, b, v) \/ Rate(c, b, v) \/ UpdateInstance(c, b, v)
    PROVE  WriteOf(c, b)
<1> DEFINE make == Single("addLink", Flag(b), FlagValue)
           flag == Single("setSingleTarget", Flag(b), FlagValue)
           rate == Single("setSingleTarget", Rating(b), v)
<1>1. make \in Command /\ flag \in Command /\ rate \in Command
    BY SinglesAreCommands
<1>2. make.predicate = Flag(b) /\ flag.predicate = Flag(b) /\ rate.predicate = Rating(b)
    BY DEF Single
<1>3. \/ Request(c, <<make, rate>>, "batch")
      \/ Request(c, <<rate>>, "mutation")
      \/ Request(c, <<flag, rate>>, "direct")
    BY DEF Create, Rate, UpdateInstance, Write
<1> HIDE DEF make, flag, rate
<1>4. /\ <<make, rate>> \in Seq(Command)
      /\ \A i \in 1..Len(<<make, rate>>) : <<make, rate>>[i].predicate \in {Flag(b), Rating(b)}
    BY <1>1, <1>2, OneOrTwo
<1>5. /\ <<rate>> \in Seq(Command)
      /\ \A i \in 1..Len(<<rate>>) : <<rate>>[i].predicate \in {Flag(b), Rating(b)}
    BY <1>1, <1>2, OneOrTwo
<1>6. /\ <<flag, rate>> \in Seq(Command)
      /\ \A i \in 1..Len(<<flag, rate>>) : <<flag, rate>>[i].predicate \in {Flag(b), Rating(b)}
    BY <1>1, <1>2, OneOrTwo
<1> QED BY <1>3, <1>4, <1>5, <1>6 DEF WriteOf

LEMMA QuerySteps ==
    ASSUME QueryNext
    PROVE  \/ UNCHANGED commandVars
           \/ \E c \in Clients, b \in Bases : WriteOf(c, b)
           \/ \E c \in Clients : RunWrites(c)
BY WritesOf DEF QueryNext, BeginPaging, FetchPage

LEMMA RunSteps ==
    ASSUME NEW c \in Clients, RunWrites(c)
    PROVE  Execute(c) \/ RequestDone(c) \/ \E pair \in additions[c] : AddLink(c, pair)
BY DEF RunWrites

LEMMA StoredTypes ==
    ASSUME CommandTypeOK, RequestsOK, NEW c \in Clients, NEW pair \in additions[c], AddLink(c, pair)
    PROVE  CommandTypeOK'
<1>1. signed[c] \in 1..now /\ now \in Nat /\ now' = now
    BY DEF AddLink, RequestsOK, RequestOK, CommandTypeOK
<1>2. pair \in Predicates \X Targets
    BY DEF CommandTypeOK
<1>3. links' \subseteq [predicate : Predicates, target : Targets, time : 1..now]
    BY <1>1, <1>2 DEF AddLink, CommandTypeOK
<1>4. additions' \in [Clients -> SUBSET (Predicates \X Targets)]
    BY DEF AddLink, CommandTypeOK
<1> QED BY <1>1, <1>3, <1>4 DEF AddLink, CommandTypeOK

LEMMA QueryTypesKept ==
    ASSUME QueryTypeOK, RequestsOK, [QueryNext]_queryVars
    PROVE  QueryTypeOK' /\ RequestsOK'
<1>1. CommandTypeOK
    BY DEF QueryTypeOK
<1>2. ASSUME UNCHANGED commandVars
      PROVE  CommandTypeOK' /\ RequestsOK'
    BY <1>1, <1>2 DEF commandVars, store, requests, CommandTypeOK, RequestsOK, RequestOK
<1>3. ASSUME NEW c \in Clients,
             \/ \E cmds \in Seq(Command), m \in {"direct", "batch", "mutation"} : Request(c, cmds, m)
             \/ RequestDone(c)
             \/ \E pair \in additions[c] : AddLink(c, pair)
             \/ Execute(c)
      PROVE  CommandTypeOK' /\ RequestsOK'
    <2>1. CommandTypeOK' /\ now \in Nat /\ now' \in Nat /\ now' >= now
        <3>1. CASE \E cmds \in Seq(Command), m \in {"direct", "batch", "mutation"} : Request(c, cmds, m)
            BY <1>1, <3>1 DEF Request, store, CommandTypeOK
        <3>2. CASE RequestDone(c)
            BY <1>1, <3>2 DEF RequestDone, store, CommandTypeOK
        <3>3. CASE \E pair \in additions[c] : AddLink(c, pair)
            <4>1. now' = now
                BY <3>3 DEF AddLink
            <4> QED BY <1>1, <3>3, <4>1, StoredTypes DEF CommandTypeOK
        <3>4. CASE Execute(c)
            BY <1>1, <3>4, ExecuteTypes DEF CommandTypeOK
        <3> QED BY <1>3, <3>1, <3>2, <3>3, <3>4
    <2>2. ASSUME NEW d \in Clients, d # c
          PROVE  RequestOK(d)'
        <3>1. SameRequest(d)
            BY <1>1, <1>3, <2>2, OthersRequests
        <3>2. RequestOK(d)
            BY DEF RequestsOK
        <3> QED BY <2>1, <3>1, <3>2 DEF SameRequest, RequestOK
    <2>3. RequestOK(c)'
        BY <1>1, <1>3, OwnRequest
    <2> QED BY <2>1, <2>2, <2>3 DEF RequestsOK
<1>4. CommandTypeOK' /\ RequestsOK'
    <2>1. CASE UNCHANGED queryVars
        BY <2>1, <1>2 DEF queryVars
    <2>2. CASE QueryNext
        BY <2>2, <1>2, <1>3, QuerySteps, RunSteps DEF WriteOf
    <2> QED BY <2>1, <2>2
<1>5. /\ page' \in Nat
      /\ seen' \subseteq Bases /\ expected' \subseteq Bases
      /\ disturbed' \in BOOLEAN
    <2>1. CASE BeginPaging
        BY <2>1 DEF BeginPaging, Instances, QueryTypeOK
    <2>2. CASE FetchPage
        <3>1. OnPage(page) \subseteq Bases
            BY DEF OnPage, Instances
        <3>2. page' \in Nat
            BY <2>2 DEF FetchPage, QueryTypeOK
        <3> QED BY <2>2, <3>1, <3>2 DEF FetchPage, QueryTypeOK
    <2>3. CASE UNCHANGED <<page, seen, expected>> /\ disturbed' \in {disturbed, TRUE}
        BY <2>3 DEF QueryTypeOK
    <2>4. \/ BeginPaging \/ FetchPage
          \/ UNCHANGED <<page, seen, expected>> /\ disturbed' \in {disturbed, TRUE}
        BY DEF QueryNext, queryVars, readerVars, Create, Rate, UpdateInstance, RunWrites
    <2> QED BY <2>1, <2>2, <2>3, <2>4
<1>6. created' \subseteq Bases
    BY DEF QueryTypeOK, QueryNext, queryVars, Create, Rate, UpdateInstance, RunWrites, BeginPaging,
           FetchPage
<1>7. writes' \in 0..MaxWrites
    <2>1. writes \in 0..MaxWrites
        BY DEF QueryTypeOK
    <2>2. writes' = writes \/ (writes < MaxWrites /\ writes' = writes + 1)
        BY DEF QueryNext, queryVars, Create, Rate, UpdateInstance, Write, RunWrites, BeginPaging,
               FetchPage
    <2> QED BY <2>1, <2>2, QueriesAssumption
<1> QED BY <1>4, <1>5, <1>6, <1>7 DEF QueryTypeOK

-----------------------------------------------------------------------------
(* What clients are about to add *)

LEMMA SameAdds ==
    ASSUME NEW c \in Clients, NEW p, commands'[c] = commands[c], additions'[c] = additions[c]
    PROVE  AddsTo(c, p)' <=> AddsTo(c, p)
BY DEF AddsTo

\* What a command has noted as additions was its own to add.
LEMMA HeadToAdditions ==
    ASSUME CommandTypeOK, NEW c \in Clients, commands[c] # <<>>, NEW p,
           AddsTo(c, p)',
           commands'[c] \in {commands[c], Tail(commands[c])},
           additions'[c] \subseteq additions[c] \cup Additions(Head(commands[c]))
    PROVE  AddsTo(c, p)
<1>1. /\ Head(commands[c]) = commands[c][1] /\ 1 \in 1..Len(commands[c])
      /\ \A i \in 1..Len(Tail(commands[c])) :
             i + 1 \in 1..Len(commands[c]) /\ Tail(commands[c])[i] = commands[c][i + 1]
    BY FirstAndRest DEF CommandTypeOK
<1>2. CASE \E i \in 1..Len(commands'[c]) : commands'[c][i].predicate = p
    BY <1>1, <1>2 DEF AddsTo
<1>3. ASSUME NEW pair \in additions'[c], pair[1] = p
      PROVE  AddsTo(c, p)
    <2>1. pair \in Additions(Head(commands[c])) => pair[1] = Head(commands[c]).predicate
        BY DEF Additions, Pairs
    <2> QED BY <1>1, <1>3, <2>1 DEF AddsTo
<1> QED BY <1>2, <1>3 DEF AddsTo

\* Carrying out a request adds nothing to what it is about to add.
LEMMA AddsLess ==
    ASSUME CommandTypeOK, RequestsOK, NEW c \in Clients, RunWrites(c),
           NEW d \in Clients, NEW p, AddsTo(d, p)'
    PROVE  AddsTo(d, p)
<1>1. CASE d # c
    <2>1. SameRequest(d)
        BY <1>1, RunSteps, OthersRequests
    <2> QED BY <2>1, SameAdds DEF SameRequest
<1>2. ASSUME d = c, UNCHANGED <<commands, additions>>
      PROVE  AddsTo(d, p)
    BY <1>2, SameAdds
<1>3. ASSUME d = c, NEW pair \in additions[c], AddLink(c, pair)
      PROVE  AddsTo(d, p)
    <2>1. commands'[c] = commands[c] /\ additions'[c] \subseteq additions[c]
        BY <1>3 DEF AddLink, CommandTypeOK
    <2> QED BY <1>3, <2>1 DEF AddsTo
<1>4. CASE d = c /\ LinkNotFound(c)
    <2>1. commands'[c] = <<>> /\ additions'[c] = {} /\ Len(<<>>) = 0
        BY <1>4 DEF LinkNotFound, CommandTypeOK
    <2> QED BY <1>4, <2>1 DEF AddsTo
<1>5. CASE d = c /\ SignAdditions(c)
    <2>1. commands[c] # <<>>
        BY <1>5 DEF SignAdditions, RequestsOK, RequestOK
    <2>2. commands'[c] = commands[c] /\ additions'[c] = Additions(Head(commands[c]))
        BY <1>5 DEF SignAdditions, CommandTypeOK
    <2> QED BY <1>5, <2>1, <2>2, HeadToAdditions
<1>6. CASE d = c /\ NoteAdditions(c)
    <2>1. commands[c] # <<>>
        BY <1>6 DEF NoteAdditions, RequestsOK, RequestOK
    <2>2. /\ commands'[c] = Tail(commands[c])
          /\ additions'[c] = additions[c] \cup Additions(Head(commands[c]))
        BY <1>6 DEF NoteAdditions, CommandTypeOK
    <2> QED BY <1>6, <2>1, <2>2, HeadToAdditions
<1>7. CASE d = c /\ CommandDone(c)
    <2>1. commands[c] # <<>>
        BY <1>7 DEF CommandDone, RequestsOK, RequestOK
    <2>2. commands'[c] = Tail(commands[c]) /\ additions'[c] = additions[c]
        BY <1>7 DEF CommandDone, CommandTypeOK
    <2> QED BY <1>7, <2>1, <2>2, HeadToAdditions
<1>8. CASE ListLinks(c)
    BY <1>1, <1>2, <1>8 DEF ListLinks
<1>9. CASE \/ \E l \in matched[c] : FindLink(c, l)
           \/ DeleteLink(c) \/ CommitBatch(c) \/ RequestDone(c)
           \/ \E l \in removals[c] : RemoveCommitted(c, l)
    BY <1>1, <1>2, <1>9 DEF FindLink, DeleteLink, CommitBatch, RequestDone, RemoveCommitted
<1> QED BY <1>1, <1>3, <1>4, <1>5, <1>6, <1>7, <1>8, <1>9, RunSteps DEF Execute

\* A request that is sent adds what it says.
LEMMA WriteAdds ==
    ASSUME CommandTypeOK, RequestsOK, NEW c \in Clients, NEW b \in Bases, WriteOf(c, b)
    PROVE  /\ UNCHANGED <<links, matched, removals, additions, signed, now>>
           /\ Idle(c) /\ step' = [step EXCEPT ![c] = "command"]
           /\ \A d \in Clients : d # c => SameRequest(d)
           /\ \A d \in Clients \ {c} : \A p : AddsTo(d, p)' <=> AddsTo(d, p)
           /\ \A p : AddsTo(c, p)' => p \in {Flag(b), Rating(b)}
           /\ \A p : ~AddsTo(c, p)
<1>1. PICK cmds \in Seq(Command), m \in {"direct", "batch", "mutation"} :
          /\ Request(c, cmds, m)
          /\ \A i \in 1..Len(cmds) : cmds[i].predicate \in {Flag(b), Rating(b)}
    BY DEF WriteOf
<1>2. \A d \in Clients : d # c => SameRequest(d)
    BY <1>1, OthersRequests
<1>3. \A d \in Clients \ {c} : \A p : AddsTo(d, p)' <=> AddsTo(d, p)
    BY <1>2, SameAdds DEF SameRequest
<1>4. /\ Idle(c) /\ additions[c] = {} /\ commands[c] = <<>> /\ Len(<<>>) = 0
      /\ commands'[c] = cmds /\ additions' = additions
    <2>1. RequestOK(c)
        BY DEF RequestsOK
    <2>2. Idle(c) /\ step[c] = "idle"
        BY <1>1 DEF Request, Idle
    <2>3. commands'[c] = cmds /\ additions' = additions
        BY <1>1 DEF Request, CommandTypeOK
    <2> QED BY <2>1, <2>2, <2>3 DEF RequestOK
<1>5. \A p : AddsTo(c, p)' => p \in {Flag(b), Rating(b)}
    BY <1>1, <1>4 DEF AddsTo
<1>6. \A p : ~AddsTo(c, p)
    BY <1>4 DEF AddsTo
<1> QED BY <1>1, <1>2, <1>3, <1>4, <1>5, <1>6 DEF Request, store

\* Only additions are stored, and only what is stored is removed.
LEMMA LinksOfRun ==
    ASSUME NEW c \in Clients, RunWrites(c)
    PROVE  \/ links' \subseteq links
           \/ \E pair \in additions[c] :
                  links' = links \cup {[predicate |-> pair[1], target |-> pair[2], time |-> signed[c]]}
<1>1. CASE \E pair \in additions[c] : AddLink(c, pair)
    BY <1>1 DEF AddLink
<1>2. CASE ListLinks(c)
    BY <1>2 DEF ListLinks, store
<1>3. CASE \/ \E l \in matched[c] : FindLink(c, l)
           \/ LinkNotFound(c) \/ DeleteLink(c) \/ SignAdditions(c) \/ NoteAdditions(c)
           \/ CommitBatch(c) \/ CommandDone(c) \/ RequestDone(c)
           \/ \E l \in removals[c] : RemoveCommitted(c, l)
    BY <1>3 DEF FindLink, LinkNotFound, DeleteLink, SignAdditions, NoteAdditions, CommitBatch,
                CommandDone, RequestDone, RemoveCommitted, store
<1> QED BY <1>1, <1>2, <1>3, RunSteps DEF Execute

LEMMA UntouchedKept ==
    ASSUME QueryTypeOK, RequestsOK, Untouched, [QueryNext]_queryVars
    PROVE  Untouched'
<1>0. CommandTypeOK
    BY DEF QueryTypeOK
<1> SUFFICES ASSUME NEW b \in Bases, b \notin created'
             PROVE  LinksOf(b)' = {} /\ \A d \in Clients : ~Concerns(d, b)'
    BY DEF Untouched
<1>1. created \subseteq created'
    BY DEF QueryNext, queryVars, Create, Rate, UpdateInstance, RunWrites, BeginPaging, FetchPage
<1>2. LinksOf(b) = {} /\ \A d \in Clients : ~Concerns(d, b)
    BY <1>1 DEF Untouched
<1>3. CASE UNCHANGED commandVars
    BY <1>2, <1>3 DEF commandVars, store, requests, LinksOf, Concerns, AddsTo
<1>4. ASSUME NEW c \in Clients, NEW a \in Bases, NEW v \in Ratings,
             Create(c, a, v) \/ Rate(c, a, v) \/ UpdateInstance(c, a, v)
      PROVE  LinksOf(b)' = {} /\ \A d \in Clients : ~Concerns(d, b)'
    <2>1. WriteOf(c, a)
        BY <1>4, WritesOf
    <2>2. a # b
        <3>1. Create(c, a, v) => a \in created'
            BY DEF Create
        <3>2. Rate(c, a, v) \/ UpdateInstance(c, a, v) => LinksOf(a) # {}
            BY DEF Rate, UpdateInstance, IsInstance
        <3> QED BY <1>2, <1>4, <3>1, <3>2
    <2>3. LinksOf(b)' = {}
        BY <1>0, <1>2, <2>1, WriteAdds DEF LinksOf
    <2>4. ASSUME NEW d \in Clients, Concerns(d, b)'
          PROVE  FALSE
        <3>1. PICK p \in {Flag(b), Rating(b)} : AddsTo(d, p)'
            BY <2>4 DEF Concerns
        <3>2. p \notin {Flag(a), Rating(a)}
            BY <2>2, PredicatesDiffer
        <3>3. d # c
            BY <1>0, <2>1, <3>1, <3>2, WriteAdds
        <3>4. AddsTo(d, p)
            BY <1>0, <2>1, <3>1, <3>3, WriteAdds
        <3> QED BY <1>2, <3>1, <3>4 DEF Concerns
    <2> QED BY <2>3, <2>4
<1>5. ASSUME NEW c \in Clients, RunWrites(c)
      PROVE  LinksOf(b)' = {} /\ \A d \in Clients : ~Concerns(d, b)'
    <2>1. \A d \in Clients : ~Concerns(d, b)'
        BY <1>0, <1>2, <1>5, AddsLess DEF Concerns
    <2>2. \A pair \in additions[c] : pair[1] \notin {Flag(b), Rating(b)}
        BY <1>2 DEF Concerns, AddsTo
    <2>3. LinksOf(b)' = {}
        <3>1. CASE links' \subseteq links
            BY <1>2, <3>1 DEF LinksOf
        <3>2. ASSUME NEW pair \in additions[c],
                     links' = links \cup {[predicate |-> pair[1], target |-> pair[2], time |-> signed[c]]}
              PROVE  LinksOf(b)' = {}
            BY <1>2, <2>2, <3>2 DEF LinksOf
        <3> QED BY <1>5, <3>1, <3>2, LinksOfRun
    <2> QED BY <2>1, <2>3
<1>6. CASE UNCHANGED queryVars
    BY <1>3, <1>6 DEF queryVars
<1> QED BY <1>3, <1>4, <1>5, <1>6 DEF QueryNext, BeginPaging, FetchPage

-----------------------------------------------------------------------------
(* Without update() *)

\* The instances there are stay, created when they were.
FlagsStay ==
    \A b \in Instances :
        b \in Instances' /\ \E t \in Nat : FlagTime(b, t) /\ FlagTime(b, t)'

LEMMA InstanceLinks ==
    ASSUME NEW b \in Bases
    PROVE  b \in Instances <=>
               \E l \in links : l.predicate = Flag(b) /\ l.target = FlagValue
BY DEF Instances, IsInstance, LinksOf

\* Batches and mutations are carried out in these steps.
LEMMA CalmSteps ==
    ASSUME RequestsOK, NEW c \in Clients, CalmRequest(c), RunWrites(c)
    PROVE  \/ ListLinks(c) \/ LinkNotFound(c) \/ NoteAdditions(c) \/ CommitBatch(c) \/ RequestDone(c)
           \/ \E l \in matched[c] : FindLink(c, l)
           \/ \E l \in removals[c] : RemoveCommitted(c, l)
           \/ \E pair \in additions[c] :
                  AddLink(c, pair) /\ step[c] = "committing" /\ commands[c] = <<>>
<1>1. step[c] \notin {"found", "adding"}
    BY DEF RequestsOK, RequestOK, CalmRequest, Idle
<1>2. ~DeleteLink(c) /\ ~CommandDone(c)
    BY <1>1 DEF DeleteLink, CommandDone
<1>3. ~SignAdditions(c)
    BY DEF SignAdditions, CalmRequest, Idle
<1>4. ASSUME NEW pair \in additions[c], AddLink(c, pair)
      PROVE  step[c] = "committing" /\ commands[c] = <<>>
    BY <1>1, <1>4 DEF AddLink, RequestsOK, RequestOK
<1> QED BY <1>2, <1>3, <1>4, RunSteps DEF Execute

LEMMA CalmHead ==
    ASSUME CommandTypeOK, NEW c \in Clients, CalmRequest(c), commands[c] # <<>>
    PROVE  /\ Head(commands[c]) \in CalmCommands
           /\ \A i \in 1..Len(Tail(commands[c])) : Tail(commands[c])[i] \in CalmCommands
           /\ \A l \in Matching(Head(commands[c])), b \in Bases : l.predicate # Flag(b)
           /\ \A pair \in Additions(Head(commands[c])), b \in Bases :
                  pair[1] = Flag(b) => pair[2] = FlagValue
           /\ \A p : Head(commands[c]).predicate = p =>
                  \E pair \in Additions(Head(commands[c])) : pair[1] = p
<1> DEFINE head == Head(commands[c])
<1>1. /\ head = commands[c][1] /\ 1 \in 1..Len(commands[c])
      /\ \A i \in 1..Len(Tail(commands[c])) :
             i + 1 \in 1..Len(commands[c]) /\ Tail(commands[c])[i] = commands[c][i + 1]
    BY FirstAndRest DEF CommandTypeOK
<1>2. head \in CalmCommands /\ \A i \in 1..Len(Tail(commands[c])) : Tail(commands[c])[i] \in CalmCommands
    BY <1>1 DEF CalmRequest
<1>3. ASSUME NEW a \in Bases, head = Single("addLink", Flag(a), FlagValue)
      PROVE  /\ Matching(head) = {}
             /\ Additions(head) = {<<Flag(a), FlagValue>>}
             /\ head.predicate = Flag(a)
    <2> HIDE DEF head
    <2>1. head.action = "addLink" /\ head.predicate = Flag(a) /\ head.targets = {FlagValue}
        BY <1>3 DEF Single
    <2> QED BY <2>1 DEF Matching, Additions, Pairs
<1>4. ASSUME NEW a \in Bases, NEW v \in Ratings, head = Single("setSingleTarget", Rating(a), v)
      PROVE  /\ \A l \in Matching(head) : l.predicate = Rating(a)
             /\ Additions(head) = {<<Rating(a), v>>}
             /\ head.predicate = Rating(a)
    <2> HIDE DEF head
    <2>1. head.action = "setSingleTarget" /\ head.predicate = Rating(a) /\ head.targets = {v}
        BY <1>4 DEF Single
    <2> QED BY <2>1 DEF Matching, Additions, Pairs
<1>5. \/ \E a \in Bases : head = Single("addLink", Flag(a), FlagValue)
      \/ \E a \in Bases, v \in Ratings : head = Single("setSingleTarget", Rating(a), v)
    BY <1>2 DEF CalmCommands
<1> HIDE DEF head
<1>6. \A l \in Matching(head), b \in Bases : l.predicate # Flag(b)
    BY <1>3, <1>4, <1>5, PredicatesDiffer
<1>7. \A pair \in Additions(head), b \in Bases : pair[1] = Flag(b) => pair[2] = FlagValue
    BY <1>3, <1>4, <1>5, PredicatesDiffer
<1>8. \E pair \in Additions(head) : pair[1] = head.predicate
    <2>1. \A a \in Bases : <<Flag(a), FlagValue>>[1] = Flag(a)
        OBVIOUS
    <2>2. \A a \in Bases, v \in Ratings : <<Rating(a), v>>[1] = Rating(a)
        OBVIOUS
    <2>3. CASE \E a \in Bases : head = Single("addLink", Flag(a), FlagValue)
        BY <1>3, <2>1, <2>3
    <2>4. CASE \E a \in Bases, v \in Ratings : head = Single("setSingleTarget", Rating(a), v)
        BY <1>4, <2>2, <2>4
    <2> QED BY <1>5, <2>3, <2>4
<1> QED BY <1>2, <1>6, <1>7, <1>8 DEF head

LEMMA CalmRequestsKept ==
    ASSUME CommandTypeOK, RequestsOK, NEW c \in Clients, RunWrites(c), \A d \in Clients : CalmRequest(d)
    PROVE  \A d \in Clients : CalmRequest(d)'
<1>1. ASSUME NEW d \in Clients, d # c
      PROVE  CalmRequest(d)'
    <2>1. SameRequest(d)
        BY <1>1, RunSteps, OthersRequests
    <2> QED BY <2>1 DEF SameRequest, CalmRequest, Idle
<1>0. CalmRequest(c)
    OBVIOUS
<1>2. CASE ListLinks(c)
    <2>1. commands[c] # <<>> /\ step'[c] = "removing" /\ step[c] = "command"
          /\ UNCHANGED <<commands, mode, additions>>
        BY <1>2 DEF ListLinks, CommandTypeOK
    <2>2. \A l \in matched'[c] \cup removals'[c] : \A b \in Bases : l.predicate # Flag(b)
        <3>1. matched'[c] \cup removals'[c] \subseteq matched[c] \cup removals[c] \cup Matching(Head(commands[c]))
            <4> DEFINE found == Matching(Head(commands[c]))
            <4>1. /\ DOMAIN matched = Clients /\ DOMAIN removals = Clients
                  /\ \/ removals' = [removals EXCEPT ![c] = @ \cup found] /\ matched' = matched
                     \/ matched' = [matched EXCEPT ![c] = found] /\ removals' = removals
                BY <1>2, ListedLinks DEF CommandTypeOK
            <4> HIDE DEF found
            <4>2. matched'[c] \in {matched[c], found} /\ removals'[c] \in {removals[c], removals[c] \cup found}
                BY <4>1
            <4> QED BY <4>2 DEF found
        <3> QED BY <2>1, <3>1, <1>0, CalmHead DEF CalmRequest
    <2>3. CalmRequest(c)'
        BY <1>0, <2>1, <2>2 DEF CalmRequest, Idle
    <2> QED BY <1>1, <2>3
<1>3. ASSUME NEW l \in matched[c], FindLink(c, l)
      PROVE  CalmRequest(c)'
    BY <1>0, <1>3 DEF FindLink, CalmRequest, Idle, CommandTypeOK
<1>4. CASE LinkNotFound(c)
    <2>1. /\ step'[c] = "idle" /\ commands'[c] = <<>> /\ Len(<<>>) = 0
          /\ matched'[c] = {} /\ removals'[c] = {} /\ additions'[c] = {}
        BY <1>4 DEF LinkNotFound, CommandTypeOK
    <2> QED BY <1>1, <2>1 DEF CalmRequest, Idle
<1>5. CASE NoteAdditions(c)
    <2>1. /\ commands[c] # <<>>
          /\ commands'[c] = Tail(commands[c])
          /\ additions'[c] = additions[c] \cup Additions(Head(commands[c]))
          /\ step'[c] = "command" /\ mode[c] # "direct" /\ UNCHANGED <<mode, matched, removals>>
        BY <1>5 DEF NoteAdditions, CommandTypeOK, RequestsOK, RequestOK
    <2>2. /\ \A i \in 1..Len(commands'[c]) : commands'[c][i] \in CalmCommands
          /\ \A pair \in additions'[c] : \A b \in Bases : pair[1] = Flag(b) => pair[2] = FlagValue
        BY <1>0, <2>1, CalmHead DEF CalmRequest
    <2>3. CalmRequest(c)'
        BY <1>0, <2>1, <2>2 DEF CalmRequest, Idle
    <2> QED BY <1>1, <2>3
<1>6. CASE CommitBatch(c)
    <2>1. CalmRequest(c)'
        BY <1>0, <1>6 DEF CommitBatch, CalmRequest, Idle, CommandTypeOK
    <2> QED BY <1>1, <2>1
<1>7. CASE RequestDone(c)
    <2>1. step'[c] = "idle" /\ UNCHANGED <<commands, matched, removals, additions>>
        BY <1>7 DEF RequestDone, CommandTypeOK
    <2>2. CalmRequest(c)'
        BY <1>0, <2>1 DEF CalmRequest, Idle
    <2> QED BY <1>1, <2>2
<1>8. ASSUME NEW l \in removals[c], RemoveCommitted(c, l)
      PROVE  CalmRequest(c)'
    BY <1>0, <1>8 DEF RemoveCommitted, CalmRequest, Idle, CommandTypeOK
<1>9. ASSUME NEW pair \in additions[c], AddLink(c, pair)
      PROVE  CalmRequest(c)'
    BY <1>0, <1>9 DEF AddLink, CalmRequest, Idle, CommandTypeOK
<1> QED BY <1>0, <1>1, <1>2, <1>3, <1>4, <1>5, <1>6, <1>7, <1>8, <1>9, CalmSteps

\* A step that stores no link, and removes no flag.
LEMMA QuietStep ==
    ASSUME QueryTypeOK, MakersAlone, OnlyInstances, FlagsFirst,
           links' \subseteq links,
           \A l \in links \ links', b \in Bases : l.predicate # Flag(b),
           \A d \in Clients : \A p : AddsTo(d, p)' => AddsTo(d, p),
           \A d \in Clients, b \in Bases : Concerns(d, b)' /\ Makes(d, b) => Makes(d, b)',
           \A d \in Clients : step'[d] = "committing" =>
               signed'[d] = now + 1 \/ (step[d] = "committing" /\ signed'[d] = signed[d]),
           \A d \in Clients, b \in Bases : step[d] = "committing" /\ Concerns(d, b)' =>
               step'[d] = "committing" /\ signed'[d] = signed[d]
    PROVE  MakersAlone' /\ OnlyInstances' /\ FlagsFirst' /\ FlagsStay
<1>1. \A b \in Bases : b \in Instances' <=> b \in Instances
    <2> TAKE b \in Bases
    <2>1. b \in Instances' => b \in Instances
        BY DEF Instances, IsInstance, LinksOf
    <2>2. b \in Instances => b \in Instances'
        BY DEF Instances, IsInstance, LinksOf
    <2> QED BY <2>1, <2>2
<1>2. \A d \in Clients, b \in Bases :
          (Concerns(d, b)' => Concerns(d, b)) /\ (Makes(d, b)' => Makes(d, b) /\ Concerns(d, b)')
    BY DEF Concerns, Makes
<1>3. \A b \in Bases : LinksOf(b)' \subseteq LinksOf(b)
    BY DEF LinksOf
<1>4. MakersAlone'
    <2> SUFFICES ASSUME NEW c \in Clients, NEW b \in Bases, Makes(c, b)'
                 PROVE  /\ b \notin Instances'
                        /\ \A d \in Clients : Concerns(d, b)' => d = c
                        /\ \/ LinksOf(b)' = {}
                           \/ step'[c] = "committing" /\ \A l \in LinksOf(b)' : l.time = signed'[c]
        BY DEF MakersAlone
    <2>1. /\ b \notin Instances
          /\ \A d \in Clients : Concerns(d, b) => d = c
          /\ \/ LinksOf(b) = {}
             \/ step[c] = "committing" /\ \A l \in LinksOf(b) : l.time = signed[c]
        BY <1>2 DEF MakersAlone
    <2> QED BY <1>1, <1>2, <1>3, <2>1
<1>5. OnlyInstances'
    BY <1>1, <1>2 DEF OnlyInstances
<1>6. ASSUME NEW b \in Bases, NEW t \in Nat, FlagTime(b, t)
      PROVE  FlagTime(b, t)'
    <2>1. PICK f \in LinksOf(b) : f.predicate = Flag(b) /\ f.time = t
        BY <1>6 DEF FlagTime
    <2>2. f \in LinksOf(b)'
        BY <2>1 DEF LinksOf
    <2>3. t <= now + 1
        <3>1. f.time \in 1..now /\ now \in Nat
            BY DEF LinksOf, QueryTypeOK, CommandTypeOK
        <3> QED BY <2>1, <3>1
    <2>4. \A d \in Clients : step'[d] = "committing" /\ Concerns(d, b)' => t <= signed'[d]
        BY <1>2, <1>6, <2>3 DEF FlagTime
    <2> QED BY <1>3, <1>6, <2>1, <2>2, <2>4 DEF FlagTime
<1>7. FlagsFirst' /\ FlagsStay
    <2>1. \A b \in Instances : b \in Bases
        BY DEF Instances
    <2>2. \A b \in Instances' : b \in Bases
        BY DEF Instances
    <2> QED BY <1>1, <1>6, <2>1, <2>2 DEF FlagsFirst, FlagsStay
<1> QED BY <1>4, <1>5, <1>7

\* A client stores a link of an instance, or the first links of one.
LEMMA StoreStep ==
    ASSUME QueryTypeOK, RequestsOK, MakersAlone, OnlyInstances, FlagsFirst,
           NEW c \in Clients, CalmRequest(c), NEW pair \in additions[c], AddLink(c, pair),
           step[c] = "committing", commands[c] = <<>>
    PROVE  MakersAlone' /\ OnlyInstances' /\ FlagsFirst' /\ FlagsStay
<1> DEFINE new == [predicate |-> pair[1], target |-> pair[2], time |-> signed[c]]
<1>1. /\ links' = links \cup {new} /\ UNCHANGED <<commands, step, signed>>
      /\ additions'[c] = additions[c] \ {pair}
      /\ \A d \in Clients : d # c => additions'[d] = additions[d]
    BY DEF AddLink, QueryTypeOK, CommandTypeOK
<1>2. new.predicate = pair[1] /\ new.target = pair[2] /\ new.time = signed[c] /\ signed[c] \in Nat
    BY DEF QueryTypeOK, CommandTypeOK
<1> HIDE DEF new
<1>3. /\ \A d \in Clients : \A p : AddsTo(d, p)' => AddsTo(d, p)
      /\ \A d \in Clients : \A p : d # c \/ p # pair[1] => (AddsTo(d, p) => AddsTo(d, p)')
      /\ AddsTo(c, pair[1])
    BY <1>1 DEF AddsTo
<1>4. \A b \in Bases : pair[1] = Flag(b) => pair[2] = FlagValue /\ ~AddsTo(c, Flag(b))'
    <2> SUFFICES ASSUME NEW b \in Bases, pair[1] = Flag(b)
                 PROVE  pair[2] = FlagValue /\ ~AddsTo(c, Flag(b))'
        OBVIOUS
    <2>1. pair[2] = FlagValue /\ \A other \in additions[c] : other[1] = Flag(b) => other[2] = FlagValue
        BY DEF CalmRequest
    <2>2. \A other \in additions[c] : other = <<other[1], other[2]>>
        BY DEF QueryTypeOK, CommandTypeOK
    <2>3. \A other \in additions'[c] : other[1] # Flag(b)
        BY <1>1, <2>1, <2>2
    <2>4. Len(<<>>) = 0
        OBVIOUS
    <2> QED BY <1>1, <2>1, <2>3, <2>4 DEF AddsTo
<1>5. \A b \in Bases : /\ LinksOf(b) \subseteq LinksOf(b)'
                       /\ LinksOf(b)' \subseteq LinksOf(b) \cup {new}
                       /\ pair[1] \notin {Flag(b), Rating(b)} => LinksOf(b)' = LinksOf(b)
    BY <1>1, <1>2 DEF LinksOf
<1>6. \A b \in Bases : /\ b \in Instances => b \in Instances'
                       /\ b \in Instances' => b \in Instances \/ pair[1] = Flag(b)
                       /\ pair[1] = Flag(b) => b \in Instances'
    BY <1>1, <1>2, <1>4 DEF Instances, IsInstance, LinksOf
<1>7. \A d \in Clients, b \in Bases :
          (Concerns(d, b)' => Concerns(d, b)) /\ (Makes(d, b)' => Makes(d, b))
    BY <1>3 DEF Concerns, Makes
<1>8. \A b \in Bases : pair[1] \in {Flag(b), Rating(b)} => Concerns(c, b)
    BY <1>3 DEF Concerns
<1>9. MakersAlone'
    <2> SUFFICES ASSUME NEW m \in Clients, NEW b \in Bases, Makes(m, b)'
                 PROVE  /\ b \notin Instances'
                        /\ \A d \in Clients : Concerns(d, b)' => d = m
                        /\ \/ LinksOf(b)' = {}
                           \/ step'[m] = "committing" /\ \A l \in LinksOf(b)' : l.time = signed'[m]
        BY DEF MakersAlone
    <2>1. /\ b \notin Instances
          /\ \A d \in Clients : Concerns(d, b) => d = m
          /\ \/ LinksOf(b) = {}
             \/ step[m] = "committing" /\ \A l \in LinksOf(b) : l.time = signed[m]
        BY <1>7 DEF MakersAlone
    <2>2. pair[1] # Flag(b)
        <3> SUFFICES ASSUME pair[1] = Flag(b) PROVE FALSE
            OBVIOUS
        <3>1. m = c
            BY <1>8, <2>1
        <3> QED BY <3>1, <1>4 DEF Makes
    <2>3. b \notin Instances'
        BY <1>6, <2>1, <2>2
    <2>4. CASE pair[1] = Rating(b)
        <3>1. m = c
            BY <1>8, <2>1, <2>4
        <3> QED BY <1>1, <1>2, <1>5, <1>7, <2>1, <2>3, <3>1
    <2>5. CASE pair[1] # Rating(b)
        BY <1>1, <1>5, <1>7, <2>1, <2>2, <2>3, <2>5
    <2> QED BY <2>4, <2>5
<1>10. OnlyInstances'
    <2> SUFFICES ASSUME NEW d \in Clients, NEW b \in Bases, Concerns(d, b)'
                 PROVE  b \in Instances' \/ Makes(d, b)'
        BY DEF OnlyInstances
    <2>1. b \in Instances \/ Makes(d, b)
        BY <1>7 DEF OnlyInstances
    <2> QED BY <1>3, <1>6, <2>1 DEF Makes
<1>11. ASSUME NEW b \in Bases, b \in Instances, NEW t \in Nat, FlagTime(b, t)
       PROVE  FlagTime(b, t)'
    <2>1. pair[1] \in {Flag(b), Rating(b)} => t <= signed[c]
        BY <1>8, <1>11 DEF FlagTime
    <2>2. \A l \in LinksOf(b)' : t <= l.time
        BY <1>2, <1>5, <1>11, <2>1 DEF FlagTime
    <2>3. \A d \in Clients : step'[d] = "committing" /\ Concerns(d, b)' => t <= signed'[d]
        BY <1>1, <1>7, <1>11 DEF FlagTime
    <2>4. \E f \in LinksOf(b)' : f.predicate = Flag(b) /\ f.time = t
        BY <1>5, <1>11 DEF FlagTime
    <2> QED BY <2>2, <2>3, <2>4 DEF FlagTime
<1>12. ASSUME NEW b \in Bases, pair[1] = Flag(b)
       PROVE  FlagTime(b, signed[c])'
    <2>1. /\ \A d \in Clients : Concerns(d, b) => d = c
          /\ LinksOf(b) = {} \/ \A l \in LinksOf(b) : l.time = signed[c]
        BY <1>3, <1>12 DEF MakersAlone, Makes
    <2>2. new \in LinksOf(b)' /\ \A l \in LinksOf(b)' : l.time = signed[c]
        <3>1. new \in LinksOf(b)'
            BY <1>1, <1>2, <1>12 DEF LinksOf
        <3> QED BY <1>2, <1>5, <2>1, <3>1
    <2>3. \A d \in Clients : step'[d] = "committing" /\ Concerns(d, b)' => signed'[d] = signed[c]
        BY <1>1, <1>7, <2>1
    <2>4. \A t : t = signed[c] => FlagTime(b, t)'
        BY <1>2, <1>12, <2>2, <2>3 DEF FlagTime
    <2> QED BY <1>1, <2>4
<1>13. FlagsStay
    <2>1. \A b \in Instances : b \in Bases
        BY DEF Instances
    <2> QED BY <1>6, <1>11, <2>1 DEF FlagsFirst, FlagsStay
<1>14. FlagsFirst'
    <2> SUFFICES ASSUME NEW b \in Instances'
                 PROVE  \E t \in Nat : FlagTime(b, t)'
        BY DEF FlagsFirst
    <2>1. b \in Bases
        BY DEF Instances
    <2>2. CASE b \in Instances
        BY <1>13, <2>2 DEF FlagsStay
    <2>3. CASE pair[1] = Flag(b)
        <3>1. \A t : t = signed[c] => FlagTime(b, t)'
            BY <1>1, <1>12, <2>1, <2>3
        <3> QED BY <1>2, <3>1
    <2> QED BY <1>6, <2>1, <2>2, <2>3
<1> QED BY <1>9, <1>10, <1>13, <1>14

\* Noting a command's additions keeps what its client is about to add.
LEMMA NotedIsKept ==
    ASSUME CommandTypeOK, RequestsOK, NEW c \in Clients, CalmRequest(c), NoteAdditions(c),
           NEW p, AddsTo(c, p)
    PROVE  AddsTo(c, p)'
<1>1. /\ commands[c] \in Seq(Command) /\ commands[c] # <<>>
      /\ commands'[c] = Tail(commands[c])
      /\ additions'[c] = additions[c] \cup Additions(Head(commands[c]))
    BY DEF NoteAdditions, CommandTypeOK, RequestsOK, RequestOK
<1>2. CASE \E pair \in additions[c] : pair[1] = p
    BY <1>1, <1>2 DEF AddsTo
<1>3. ASSUME NEW i \in 1..Len(commands[c]), commands[c][i].predicate = p
      PROVE  AddsTo(c, p)'
    <2>1. CASE i = 1
        <3>1. Head(commands[c]).predicate = p
            BY <1>1, <1>3, <2>1, FirstAndRest
        <3>2. \E pair \in Additions(Head(commands[c])) : pair[1] = p
            BY <1>1, <3>1, CalmHead
        <3> QED BY <1>1, <3>2 DEF AddsTo
    <2>2. CASE i # 1
        <3>1. Len(Tail(commands[c])) = Len(commands[c]) - 1 /\ Len(commands[c]) \in Nat
            BY <1>1, HeadTailProperties
        <3>2. i - 1 \in 1..Len(Tail(commands[c])) /\ (i - 1) + 1 = i
            BY <2>2, <3>1
        <3>3. Tail(commands[c])[i - 1] = commands[c][i]
            BY <1>1, <3>2, FirstAndRest
        <3> QED BY <1>1, <1>3, <3>2, <3>3 DEF AddsTo
    <2> QED BY <2>1, <2>2
<1> QED BY <1>2, <1>3 DEF AddsTo

\* What the steps that store nothing leave of a request.
LEMMA QuietRequest ==
    ASSUME CommandTypeOK, RequestsOK, NEW c \in Clients, CalmRequest(c),
           \/ ListLinks(c) \/ LinkNotFound(c) \/ NoteAdditions(c) \/ CommitBatch(c) \/ RequestDone(c)
           \/ \E l \in matched[c] : FindLink(c, l)
           \/ \E l \in removals[c] : RemoveCommitted(c, l)
    PROVE  /\ links' \subseteq links
           /\ \A l \in links \ links', b \in Bases : l.predicate # Flag(b)
           /\ \/ \A p : ~AddsTo(c, p)'
              \/ \A p : AddsTo(c, p) => AddsTo(c, p)'
           /\ step'[c] = "committing" =>
                  signed'[c] = now + 1 \/ (step[c] = "committing" /\ signed'[c] = signed[c])
           /\ step[c] = "committing" =>
                  \/ \A p : ~AddsTo(c, p)'
                  \/ step'[c] = "committing" /\ signed'[c] = signed[c]
<1>1. CASE ListLinks(c) \/ \E l \in matched[c] : FindLink(c, l)
    <2>1. /\ UNCHANGED <<links, commands, additions, signed>>
          /\ step[c] # "committing" /\ step'[c] # "committing"
        BY <1>1 DEF ListLinks, FindLink, store, CommandTypeOK
    <2> QED BY <2>1, SameAdds
<1>2. CASE LinkNotFound(c)
    <2>1. /\ UNCHANGED links /\ commands'[c] = <<>> /\ additions'[c] = {} /\ Len(<<>>) = 0
          /\ step'[c] # "committing"
        BY <1>2 DEF LinkNotFound, store, CommandTypeOK
    <2>2. \A p : ~AddsTo(c, p)'
        BY <2>1 DEF AddsTo
    <2> QED BY <2>1, <2>2
<1>3. CASE NoteAdditions(c)
    <2>1. UNCHANGED links /\ step[c] = "removing" /\ step'[c] = "command"
        BY <1>3 DEF NoteAdditions, store, CommandTypeOK
    <2> QED BY <1>3, <2>1, NotedIsKept
<1>4. CASE CommitBatch(c)
    <2>1. /\ UNCHANGED <<links, commands, additions>>
          /\ step[c] = "command" /\ signed'[c] = now + 1
        BY <1>4 DEF CommitBatch, CommandTypeOK
    <2> QED BY <2>1, SameAdds
<1>5. CASE RequestDone(c)
    <2>1. /\ UNCHANGED <<links, commands, additions>> /\ step'[c] = "idle"
          /\ step[c] = "committing" => additions[c] = {}
        BY <1>5 DEF RequestDone, store, CommandTypeOK
    <2>2. step[c] = "committing" => commands[c] = <<>>
        BY DEF RequestsOK, RequestOK
    <2>3. step[c] = "committing" => \A p : ~AddsTo(c, p)'
        <3>1. Len(<<>>) = 0
            OBVIOUS
        <3> QED BY <2>1, <2>2, <3>1 DEF AddsTo
    <2> QED BY <2>1, <2>3, SameAdds
<1>6. ASSUME NEW l \in removals[c], RemoveCommitted(c, l)
      PROVE  /\ links' \subseteq links
             /\ \A k \in links \ links', b \in Bases : k.predicate # Flag(b)
             /\ UNCHANGED <<commands, additions, step, signed>>
    BY <1>6 DEF RemoveCommitted, CalmRequest
<1> QED BY <1>1, <1>2, <1>3, <1>4, <1>5, <1>6, SameAdds

LEMMA RunKeepsCalm ==
    ASSUME QueryTypeOK, RequestsOK, Calm, NEW c \in Clients, RunWrites(c)
    PROVE  Calm' /\ FlagsStay
<1>1. CommandTypeOK /\ CalmRequest(c) /\ MakersAlone /\ OnlyInstances /\ FlagsFirst
    BY DEF QueryTypeOK, Calm
<1>2. \A d \in Clients : CalmRequest(d)'
    BY <1>1, CalmRequestsKept DEF Calm
<1>3. ASSUME NEW pair \in additions[c], AddLink(c, pair), step[c] = "committing", commands[c] = <<>>
      PROVE  MakersAlone' /\ OnlyInstances' /\ FlagsFirst' /\ FlagsStay
    BY <1>1, <1>3, StoreStep
<1>4. CASE \/ ListLinks(c) \/ LinkNotFound(c) \/ NoteAdditions(c) \/ CommitBatch(c) \/ RequestDone(c)
           \/ \E l \in matched[c] : FindLink(c, l)
           \/ \E l \in removals[c] : RemoveCommitted(c, l)
    <2>1. /\ links' \subseteq links
          /\ \A l \in links \ links', b \in Bases : l.predicate # Flag(b)
          /\ \/ \A p : ~AddsTo(c, p)'
             \/ \A p : AddsTo(c, p) => AddsTo(c, p)'
          /\ step'[c] = "committing" =>
                 signed'[c] = now + 1 \/ (step[c] = "committing" /\ signed'[c] = signed[c])
          /\ step[c] = "committing" =>
                 \/ \A p : ~AddsTo(c, p)'
                 \/ step'[c] = "committing" /\ signed'[c] = signed[c]
        BY <1>1, <1>4, QuietRequest
    <2>2. \A d \in Clients : d # c => SameRequest(d)
        BY <1>1, RunSteps, OthersRequests
    <2>3. \A d \in Clients : \A p : AddsTo(d, p)' => AddsTo(d, p)
        BY <1>1, AddsLess
    <2>4. \A d \in Clients, b \in Bases : Concerns(d, b)' /\ Makes(d, b) => Makes(d, b)'
        <3> SUFFICES ASSUME NEW d \in Clients, NEW b \in Bases, Concerns(d, b)', Makes(d, b)
                     PROVE  Makes(d, b)'
            OBVIOUS
        <3>1. CASE d = c
            BY <2>1, <3>1 DEF Concerns, Makes
        <3>2. CASE d # c
            BY <2>2, <3>2, SameAdds DEF SameRequest, Makes
        <3> QED BY <3>1, <3>2
    <2>5. \A d \in Clients : step'[d] = "committing" =>
               signed'[d] = now + 1 \/ (step[d] = "committing" /\ signed'[d] = signed[d])
        BY <2>1, <2>2 DEF SameRequest
    <2>6. \A d \in Clients, b \in Bases : step[d] = "committing" /\ Concerns(d, b)' =>
               step'[d] = "committing" /\ signed'[d] = signed[d]
        BY <2>1, <2>2 DEF SameRequest, Concerns
    <2>7. MakersAlone' /\ OnlyInstances' /\ FlagsFirst' /\ FlagsStay
        BY <1>1, <2>1, <2>3, <2>4, <2>5, <2>6, QuietStep
    <2> QED BY <1>2, <2>7 DEF Calm
<1> QED BY <1>1, <1>2, <1>3, <1>4, CalmSteps DEF Calm

\* A new instance is nobody else's, and the rating of an instance waits for its signature.
LEMMA WriteKeepsCalm ==
    ASSUME QueryTypeOK, RequestsOK, Untouched, Calm,
           NEW c \in Clients, NEW b \in Bases, NEW v \in Ratings,
           Create(c, b, v) \/ Rate(c, b, v)
    PROVE  Calm' /\ FlagsStay
<1> DEFINE make == Single("addLink", Flag(b), FlagValue)
           rate == Single("setSingleTarget", Rating(b), v)
<1>0. CommandTypeOK
    BY DEF QueryTypeOK
<1>1. WriteOf(c, b)
    BY WritesOf
<1>2. /\ UNCHANGED <<links, matched, removals, additions, signed, now>>
      /\ Idle(c) /\ step' = [step EXCEPT ![c] = "command"]
      /\ \A d \in Clients : d # c => SameRequest(d)
      /\ \A d \in Clients \ {c} : \A p : AddsTo(d, p)' <=> AddsTo(d, p)
      /\ \A p : AddsTo(c, p)' => p \in {Flag(b), Rating(b)}
      /\ \A p : ~AddsTo(c, p)
    BY <1>0, <1>1, WriteAdds
<1>3. /\ step'[c] = "command" /\ \A d \in Clients : d # c => step'[d] = step[d]
      /\ \A d \in Clients : step'[d] = "committing" => d # c /\ step[d] = "committing"
    BY <1>0, <1>2 DEF CommandTypeOK
<1>4. \/ commands'[c] = <<make, rate>> /\ mode'[c] = "batch" /\ b \notin created
      \/ commands'[c] = <<rate>> /\ mode'[c] = "mutation" /\ b \in Instances
    BY <1>0 DEF Create, Rate, Write, Request, CommandTypeOK, Instances
<1>5. make \in CalmCommands /\ rate \in CalmCommands /\ rate.predicate = Rating(b)
    <2>1. make \in CalmCommands /\ rate \in CalmCommands
        BY DEF CalmCommands
    <2>2. rate.predicate = Rating(b)
        BY DEF Single
    <2> QED BY <2>1, <2>2
<1>6. \A i \in 1..Len(commands'[c]) : commands'[c][i] \in CalmCommands
    <2> HIDE DEF make, rate
    <2> QED BY <1>4, <1>5, OneOrTwo
<1>7. \A d \in Clients : CalmRequest(d)'
    <2>1. ASSUME NEW d \in Clients, d # c
          PROVE  CalmRequest(d)'
        <3>1. CalmRequest(d)
            BY DEF Calm
        <3> QED BY <1>2, <2>1, <3>1 DEF SameRequest, CalmRequest, Idle
    <2>2. CalmRequest(c)'
        <3>1. CalmRequest(c)
            BY DEF Calm
        <3>2. mode'[c] # "direct"
            BY <1>4
        <3> QED BY <1>2, <1>6, <3>1, <3>2 DEF CalmRequest
    <2> QED BY <2>1, <2>2
<1>8. /\ \A a \in Bases : LinksOf(a)' = LinksOf(a) /\ IsInstance(a)' = IsInstance(a)
      /\ Instances' = Instances
    BY <1>2 DEF LinksOf, Instances, IsInstance
<1>9. \A d \in Clients, a \in Bases : d # c \/ a # b =>
          (Concerns(d, a)' => Concerns(d, a)) /\ (Makes(d, a)' <=> Makes(d, a))
    <2> SUFFICES ASSUME NEW d \in Clients, NEW a \in Bases, d # c \/ a # b
                 PROVE  (Concerns(d, a)' => Concerns(d, a)) /\ (Makes(d, a)' <=> Makes(d, a))
        OBVIOUS
    <2>1. CASE d # c
        BY <1>2, <2>1 DEF Concerns, Makes
    <2>2. CASE d = c
        <3>1. Flag(a) \notin {Flag(b), Rating(b)} /\ Rating(a) \notin {Flag(b), Rating(b)}
            BY <2>2, PredicatesDiffer
        <3> QED BY <1>2, <2>2, <3>1 DEF Concerns, Makes
    <2> QED BY <2>1, <2>2
<1>10. \/ /\ b \notin Instances /\ LinksOf(b) = {} /\ \A d \in Clients : ~Concerns(d, b)
          /\ Makes(c, b)'
       \/ b \in Instances /\ ~Makes(c, b)'
    <2>1. CASE commands'[c] = <<make, rate>> /\ b \notin created
        <3>1. LinksOf(b) = {} /\ \A d \in Clients : ~Concerns(d, b)
            BY <2>1 DEF Untouched
        <3>2. b \notin Instances
            BY <3>1 DEF Instances, IsInstance
        <3>3. Makes(c, b)'
            <4>1. make.predicate = Flag(b)
                BY DEF Single
            <4> HIDE DEF make, rate
            <4>2. 1 \in 1..Len(<<make, rate>>) /\ <<make, rate>>[1].predicate = Flag(b)
                BY <4>1
            <4> QED BY <2>1, <4>2 DEF Makes, AddsTo
        <3> QED BY <3>1, <3>2, <3>3
    <2>2. CASE commands'[c] = <<rate>> /\ b \in Instances
        <3>1. additions'[c] = {}
            BY <1>2 DEF RequestsOK, RequestOK, Idle
        <3>2. \A i \in 1..Len(<<rate>>) : <<rate>>[i].predicate # Flag(b)
            <4> HIDE DEF rate
            <4>1. Rating(b) # Flag(b)
                BY PredicatesDiffer
            <4> QED BY <1>5, <4>1
        <3>3. ~Makes(c, b)'
            BY <2>2, <3>1, <3>2 DEF Makes, AddsTo
        <3> QED BY <2>2, <3>3
    <2> QED BY <1>4, <2>1, <2>2
<1>11. MakersAlone'
    <2> SUFFICES ASSUME NEW m \in Clients, NEW a \in Bases, Makes(m, a)'
                 PROVE  /\ a \notin Instances'
                        /\ \A d \in Clients : Concerns(d, a)' => d = m
                        /\ \/ LinksOf(a)' = {}
                           \/ step'[m] = "committing" /\ \A l \in LinksOf(a)' : l.time = signed'[m]
        BY DEF MakersAlone
    <2>1. CASE a # b
        <3>1. /\ a \notin Instances
              /\ \A d \in Clients : Concerns(d, a) => d = m
              /\ \/ LinksOf(a) = {}
                 \/ step[m] = "committing" /\ \A l \in LinksOf(a) : l.time = signed[m]
            BY <1>9, <2>1 DEF Calm, MakersAlone
        <3>2. Makes(m, a)
            BY <1>9, <2>1
        <3>3. m # c
            BY <1>2, <3>2 DEF Makes
        <3> QED BY <1>2, <1>3, <1>8, <1>9, <2>1, <3>1, <3>3
    <2>2. CASE a = b /\ m # c
        <3>1. Makes(m, b) /\ Concerns(m, b)
            BY <1>9, <2>2 DEF Makes, Concerns
        <3>2. b \notin Instances
            BY <3>1 DEF Calm, MakersAlone
        <3> QED BY <1>10, <3>1, <3>2
    <2>3. CASE a = b /\ m = c
        <3>1. b \notin Instances /\ LinksOf(b) = {} /\ \A d \in Clients : ~Concerns(d, b)
            BY <1>10, <2>3
        <3>2. \A d \in Clients : d # c => ~Concerns(d, b)'
            BY <1>9, <3>1
        <3> QED BY <1>8, <2>3, <3>1, <3>2
    <2> QED BY <2>1, <2>2, <2>3
<1>12. OnlyInstances'
    <2> SUFFICES ASSUME NEW d \in Clients, NEW a \in Bases, Concerns(d, a)'
                 PROVE  a \in Instances' \/ Makes(d, a)'
        BY DEF OnlyInstances
    <2>1. CASE d # c \/ a # b
        BY <1>8, <1>9, <2>1 DEF Calm, OnlyInstances
    <2>2. CASE d = c /\ a = b
        BY <1>8, <1>10, <2>2
    <2> QED BY <2>1, <2>2
<1>13. ASSUME NEW a \in Bases, NEW t \in Nat, FlagTime(a, t)
       PROVE  FlagTime(a, t)'
    <2>1. \A d \in Clients : step'[d] = "committing" /\ Concerns(d, a)' => t <= signed'[d]
        BY <1>2, <1>3, <1>9, <1>13 DEF FlagTime
    <2> QED BY <1>8, <1>13, <2>1 DEF FlagTime
<1>14. FlagsFirst' /\ FlagsStay
    <2>1. \A a \in Instances : a \in Bases
        BY DEF Instances
    <2> QED BY <1>8, <1>13, <2>1 DEF Calm, FlagsFirst, FlagsStay
<1> QED BY <1>7, <1>11, <1>12, <1>14 DEF Calm

-----------------------------------------------------------------------------
(* Pages *)

LEMMA EarliestTime ==
    ASSUME NEW S, NEW t \in Nat, \E f \in S : f.time = t,
           \A l \in S : l.time \in Nat /\ t <= l.time
    PROVE  (CHOOSE x \in {l.time : l \in S} : \A l \in S : x <= l.time) = t
<1> DEFINE x0 == CHOOSE x \in {l.time : l \in S} : \A l \in S : x <= l.time
<1>1. \E x \in {l.time : l \in S} : \A l \in S : x <= l.time
    OBVIOUS
<1>2. x0 \in {l.time : l \in S} /\ \A l \in S : x0 <= l.time
    BY <1>1
<1> HIDE DEF x0
<1>3. x0 \in Nat /\ x0 <= t /\ t <= x0
    BY <1>2
<1>4. x0 = t
    BY <1>3
<1> QED BY <1>4 DEF x0

\* The order of instances does not change, but new ones may come between them.
LEMMA BeforeGrows ==
    ASSUME QueryTypeOK, QueryTypeOK', FlagsStay, NEW b \in Instances
    PROVE  /\ b \in Instances'
           /\ Cardinality(Before(b)) <= Cardinality(Before(b)')
           /\ Cardinality(Before(b)) \in Nat /\ Cardinality(Before(b)') \in Nat
<1>1. ASSUME NEW a \in Instances
      PROVE  CreatedAt(a)' = CreatedAt(a)
    <2>1. PICK t \in Nat : FlagTime(a, t) /\ FlagTime(a, t)'
        BY DEF FlagsStay
    <2>2. /\ \A l \in LinksOf(a) : l.time \in Nat
          /\ \A l \in LinksOf(a)' : l.time \in Nat
        BY DEF LinksOf, QueryTypeOK, CommandTypeOK
    <2>3. CreatedAt(a) = t
        BY <2>1, <2>2, EarliestTime DEF FlagTime, CreatedAt
    <2>4. CreatedAt(a)' = t
        BY <2>1, <2>2, EarliestTime DEF FlagTime, CreatedAt
    <2> QED BY <2>3, <2>4
<1>2. Instances \subseteq Instances'
    BY DEF FlagsStay
<1>3. Before(b) \subseteq Before(b)'
    BY <1>1, <1>2 DEF Before
<1>4. IsFiniteSet(Before(b)')
    <2>1. Before(b)' \subseteq Bases
        BY DEF Before, Instances
    <2> QED BY <2>1, QueriesAssumption, FS_Subset
<1> QED BY <1>2, <1>3, <1>4, FS_Subset, FS_CardinalityType

LEMMA StillSeenOrComes ==
    ASSUME QueryTypeOK, QueryTypeOK', FlagsStay, SeenOrComes, UNCHANGED <<page, seen, expected>>
    PROVE  SeenOrComes'
<1> SUFFICES ASSUME page > 0, NEW b \in expected
             PROVE  /\ b \in Instances'
                    /\ b \in seen \/ Cardinality(Before(b)') >= PageSize * (page - 1)
    BY DEF SeenOrComes
<1>1. b \in Instances /\ (b \in seen \/ Cardinality(Before(b)) >= PageSize * (page - 1))
    BY DEF SeenOrComes
<1>2. PageSize * (page - 1) \in Int
    BY QueriesAssumption DEF QueryTypeOK
<1>3. /\ b \in Instances'
      /\ Cardinality(Before(b)) <= Cardinality(Before(b)')
      /\ Cardinality(Before(b)) \in Nat /\ Cardinality(Before(b)') \in Nat
    BY <1>1, BeforeGrows
<1> QED BY <1>1, <1>2, <1>3

\* Nothing under way, and all flags oldest: whatever ran before, writes are calm from now on.
LEMMA SettledIsCalm ==
    ASSUME QueryTypeOK, RequestsOK, Settled
    PROVE  Calm
<1>1. ASSUME NEW c \in Clients
      PROVE  /\ commands[c] = <<>> /\ Len(<<>>) = 0 /\ step[c] = "idle" /\ Idle(c)
             /\ additions[c] = {} /\ matched[c] = {} /\ removals[c] = {}
    BY DEF Settled, Idle, RequestsOK, RequestOK
<1>2. \A c \in Clients : CalmRequest(c)
    BY <1>1 DEF CalmRequest
<1>3. \A c \in Clients, b \in Bases : ~Makes(c, b) /\ ~Concerns(c, b)
    BY <1>1 DEF Makes, Concerns, AddsTo
<1>4. FlagsFirst
    <2> SUFFICES ASSUME NEW b \in Instances
                 PROVE  \E t \in Nat : FlagTime(b, t)
        BY DEF FlagsFirst
    <2>1. PICK f \in Oldest(LinksOf(b)) : f.predicate = Flag(b)
        BY DEF Settled
    <2>2. f \in LinksOf(b) /\ \A l \in LinksOf(b) : f.time <= l.time
        BY <2>1 DEF Oldest
    <2>3. f.time \in Nat
        BY <2>2 DEF LinksOf, QueryTypeOK, CommandTypeOK
    <2>4. \A c \in Clients : step[c] # "committing"
        BY <1>1
    <2>5. FlagTime(b, f.time)
        BY <2>1, <2>2, <2>4 DEF FlagTime
    <2> QED BY <2>3, <2>5
<1> QED BY <1>2, <1>3, <1>4 DEF Calm, MakersAlone, OnlyInstances

LEMMA CalmUnchanged ==
    ASSUME UNCHANGED commandVars
    PROVE  /\ Calm => Calm'
           /\ Instances' = Instances /\ \A b : Before(b)' = Before(b)
BY DEF commandVars, store, requests, Calm, CalmRequest, MakersAlone, OnlyInstances, FlagsFirst,
       FlagTime, Makes, Concerns, AddsTo, LinksOf, Instances, IsInstance, Idle, Before, CreatedAt

\* A page has the instances that belong on it; and while there are instances left on later
\* pages the reader goes on.
LEMMA PageSeen ==
    ASSUME QueryTypeOK, Calm, SeenOrComes, FetchPage
    PROVE  SeenOrComes' /\ (page' = 0 => expected' \subseteq seen')
<1> DEFINE from == PageSize * (page - 1)
           to == PageSize * page
<1>1. /\ page \in Nat /\ page > 0 /\ UNCHANGED <<commandVars, expected>>
      /\ seen' = seen \cup OnPage(page)
      /\ page' = IF to < Cardinality(Instances) THEN page + 1 ELSE 0
    BY DEF FetchPage, QueryTypeOK
<1>2. from \in Nat /\ to \in Nat /\ PageSize * ((page + 1) - 1) = to
    BY <1>1, QueriesAssumption
<1>3. Instances' = Instances /\ \A b : Before(b)' = Before(b)
    BY <1>1, CalmUnchanged
<1>4. ASSUME NEW b \in expected
      PROVE  /\ b \in Instances
             /\ b \in seen' \/ (Cardinality(Before(b)) >= to /\ to < Cardinality(Instances))
    <2>1. b \in Instances /\ (b \in seen \/ Cardinality(Before(b)) >= from)
        BY <1>1 DEF SeenOrComes
    <2>2. IsFiniteSet(Instances)
        BY QueriesAssumption, FS_Subset DEF Instances
    <2>3. Cardinality(Before(b)) \in Nat /\ Cardinality(Before(b)) < Cardinality(Instances)
        <3>1. Before(b) \subseteq Instances
            BY DEF Before
        <3>2. b \notin Before(b)
            <4>1. \A l \in LinksOf(b) : l.time \in Nat
                BY DEF LinksOf, QueryTypeOK, CommandTypeOK
            <4>2. PICK t \in Nat : FlagTime(b, t)
                BY <2>1 DEF Calm, FlagsFirst
            <4>3. CreatedAt(b) = t
                BY <4>1, <4>2, EarliestTime DEF FlagTime, CreatedAt
            <4> QED BY <4>3 DEF Before
        <3>3. Before(b) # Instances
            BY <2>1, <3>2
        <3> QED BY <2>2, <3>1, <3>3, FS_Subset, FS_CardinalityType
    <2>4. CASE Cardinality(Before(b)) >= to
        <3>1. Cardinality(Instances) \in Nat
            BY <2>2, FS_CardinalityType
        <3> HIDE DEF to
        <3> QED BY <1>2, <2>1, <2>3, <2>4, <3>1
    <2>5. CASE ~(Cardinality(Before(b)) >= to) /\ Cardinality(Before(b)) >= from
        <3>1. Cardinality(Before(b)) \in from..(to - 1)
            <4> HIDE DEF from, to
            <4> QED BY <1>2, <2>3, <2>5
        <3>2. b \in OnPage(page)
            BY <2>1, <3>1 DEF OnPage
        <3> QED BY <1>1, <2>1, <3>2
    <2> QED BY <1>1, <2>1, <2>4, <2>5
<1>5. SeenOrComes'
    <2> SUFFICES ASSUME page' > 0, NEW b \in expected'
                 PROVE  /\ b \in Instances'
                        /\ b \in seen' \/ Cardinality(Before(b)') >= PageSize * (page' - 1)
        BY DEF SeenOrComes
    <2>1. page' = page + 1
        BY <1>1
    <2> QED BY <1>1, <1>2, <1>3, <1>4, <2>1
<1>6. page' = 0 => expected' \subseteq seen'
    BY <1>1, <1>4
<1> QED BY <1>5, <1>6

-----------------------------------------------------------------------------

LEMMA QueryInitially == QueryInit => QueryInv
<1> SUFFICES ASSUME QueryInit PROVE QueryInv
    OBVIOUS
<1>1. CommandTypeOK
    BY EmptySeq DEF QueryInit, CommandInit, CommandTypeOK, Link
<1>2. QueryTypeOK
    <2>1. writes \in 0..MaxWrites
        BY QueriesAssumption DEF QueryInit
    <2>2. page \in Nat /\ seen \subseteq Bases /\ expected \subseteq Bases
          /\ disturbed \in BOOLEAN /\ created \subseteq Bases
        BY DEF QueryInit
    <2> QED BY <1>1, <2>1, <2>2 DEF QueryTypeOK
<1>3. RequestsOK
    BY DEF QueryInit, CommandInit, RequestsOK, RequestOK
<1>4. Untouched /\ Instances = {}
    <2>1. Len(<<>>) = 0
        OBVIOUS
    <2> QED BY <2>1 DEF QueryInit, CommandInit, Untouched, LinksOf, Concerns, AddsTo, Instances, IsInstance
<1>5. Calm
    <2>1. Settled
        BY <1>4 DEF QueryInit, CommandInit, Settled, Idle
    <2> QED BY <1>2, <1>3, <2>1, SettledIsCalm
<1>6. SeenOrComes /\ PagingMissesNothing
    BY DEF QueryInit, SeenOrComes, PagingMissesNothing
<1> QED BY <1>2, <1>3, <1>4, <1>5, <1>6 DEF QueryInv

LEMMA QueryInvKept ==
    ASSUME QueryInv, [QueryNext]_queryVars
    PROVE  QueryInv'
<1>1. QueryTypeOK /\ RequestsOK /\ QueryTypeOK' /\ RequestsOK' /\ Untouched'
    BY QueryTypesKept, UntouchedKept DEF QueryInv
<1>2. ASSUME UNCHANGED commandVars, ~disturbed
      PROVE  Calm' /\ Instances' = Instances /\ \A b : Before(b)' = Before(b)
    BY <1>2, CalmUnchanged DEF QueryInv
<1>3. ASSUME NEW c \in Clients, ~disturbed,
             \/ RunWrites(c)
             \/ \E b \in Bases, v \in Ratings : Create(c, b, v) \/ Rate(c, b, v)
      PROVE  Calm' /\ SeenOrComes'
    <2>1. Calm' /\ FlagsStay
        BY <1>1, <1>3, RunKeepsCalm, WriteKeepsCalm DEF QueryInv
    <2>2. UNCHANGED <<page, seen, expected>>
        BY <1>3 DEF RunWrites, Create, Rate, readerVars
    <2> QED BY <1>1, <1>3, <2>1, <2>2, StillSeenOrComes DEF QueryInv
<1>4. ~disturbed' => Calm' /\ SeenOrComes'
    <2> SUFFICES ASSUME ~disturbed' PROVE Calm' /\ SeenOrComes'
        OBVIOUS
    <2>1. CASE BeginPaging
        <3>1. page' = 1 /\ expected' = Instances /\ UNCHANGED commandVars
              /\ disturbed' = (disturbed /\ ~Settled)
            BY <2>1 DEF BeginPaging
        <3>2. Calm
            BY <1>1, <3>1, SettledIsCalm DEF QueryInv
        <3>3. Calm' /\ Instances' = Instances
            BY <3>1, <3>2, CalmUnchanged
        <3>4. \A b \in Bases : Cardinality(Before(b)') \in Nat
            <4> TAKE b \in Bases
            <4>1. Before(b)' \subseteq Bases
                BY DEF Before, Instances
            <4> QED BY <4>1, QueriesAssumption, FS_Subset, FS_CardinalityType
        <3>5. PageSize * (1 - 1) = 0
            BY QueriesAssumption
        <3>6. \A b \in Instances : b \in Bases
            BY DEF Instances
        <3>7. SeenOrComes'
            <4> SUFFICES ASSUME NEW b \in expected'
                         PROVE  b \in Instances' /\ Cardinality(Before(b)') >= PageSize * (page' - 1)
                BY DEF SeenOrComes
            <4>1. Cardinality(Before(b)') \in Nat
                BY <3>1, <3>4, <3>6
            <4> QED BY <3>1, <3>3, <3>5, <4>1
        <3> QED BY <3>3, <3>7
    <2>2. CASE FetchPage
        <3>1. ~disturbed /\ UNCHANGED commandVars
            BY <2>2 DEF FetchPage
        <3> QED BY <1>1, <1>2, <2>2, <3>1, PageSeen DEF QueryInv
    <2>3. CASE UNCHANGED queryVars
        <3>1. ~disturbed /\ UNCHANGED <<commandVars, page, seen, expected>>
            BY <2>3 DEF queryVars, readerVars
        <3>2. Calm' /\ Instances' = Instances /\ \A b : Before(b)' = Before(b)
            BY <1>2, <3>1
        <3> QED BY <3>1, <3>2 DEF QueryInv, SeenOrComes
    <2>4. ASSUME NEW c \in Clients, NEW b \in Bases, NEW v \in Ratings, UpdateInstance(c, b, v)
          PROVE  FALSE
        BY <2>4 DEF UpdateInstance
    <2>5. ASSUME NEW c \in Clients, RunWrites(c) \/ \E b \in Bases, v \in Ratings : Create(c, b, v) \/ Rate(c, b, v)
          PROVE  Calm' /\ SeenOrComes'
        <3>1. ~disturbed
            BY <2>5 DEF RunWrites, Create, Rate, readerVars
        <3> QED BY <1>3, <2>5, <3>1
    <2> QED BY <2>1, <2>2, <2>3, <2>4, <2>5 DEF QueryNext
<1>5. PagingMissesNothing'
    <2> SUFFICES ASSUME page' = 0, ~disturbed'
                 PROVE  expected' \subseteq seen'
        BY DEF PagingMissesNothing
    <2>1. CASE FetchPage
        BY <1>1, <2>1, PageSeen DEF QueryInv, FetchPage
    <2>2. CASE UNCHANGED <<page, seen, expected>> /\ disturbed' \in {disturbed, TRUE}
        BY <2>2 DEF QueryInv, PagingMissesNothing
    <2>3. ~BeginPaging
        BY DEF BeginPaging
    <2> QED BY <2>1, <2>2, <2>3
            DEF QueryNext, queryVars, readerVars, Create, Rate, UpdateInstance, RunWrites
<1> QED BY <1>1, <1>4, <1>5 DEF QueryInv

LEMMA QueryInvariant == QuerySpec => []QueryInv
BY QueryInitially, QueryInvKept, PTL DEF QuerySpec

\* The reader's state and the requests of the writers have their types.
THEOREM QueryTypeCorrect == QuerySpec => []QueryTypeOK
<1>1. QueryInv => QueryTypeOK
    BY DEF QueryInv
<1> QED BY <1>1, QueryInvariant, PTL

\* For any clients, instances, values and page size: paginate() shows every instance that
\* was there at its beginning, however creations and single writes interleave with it.
THEOREM PagesMissNothing == QuerySpec => []PagingMissesNothing
<1>1. QueryInv => PagingMissesNothing
    BY DEF QueryInv
<1> QED BY <1>1, QueryInvariant, PTL
=============================================================================
