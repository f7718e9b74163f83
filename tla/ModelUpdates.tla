---------------------------- MODULE ModelUpdates ----------------------------
(* Instances of an Ad4mModel class that several clients hold of one expression: *)
(* save(), update(), get(), delete() and the perspective's setSingleTarget().   *)
EXTENDS LinkCommands

CONSTANTS
    Values,         \* what fields may be set to
    Initial,        \* properties with an initial value: the constructor adds them, the destructor removes them
    Optional,       \* the other writable properties
    Collections,
    MaxRequests,    \* bound on the writing requests
    MaxDeletes      \* bound on the delete()s among them

Properties == Initial \cup Optional
Fields == Properties \cup Collections

ASSUME FieldsAssumption ==
    /\ Initial \cap Optional = {} /\ Properties \cap Collections = {}
    /\ Fields \subseteq Predicates /\ IsFiniteSet(Fields)
    /\ Values \subseteq Targets
    /\ MaxRequests \in Nat /\ MaxDeletes \in Nat

\* What a client may set a field of its instance to.
Edits(f) == IF f \in Collections THEN SUBSET Values ELSE {{v} : v \in Values}

VARIABLES
    copy,       \* per client: the values its instance has for every field
    reload,     \* per client: getData() follows when the request is done
    newest,     \* per property: the link with the latest time that was ever stored, as a set
    started,    \* writing requests sent
    deletes     \* delete()s sent

modelVars == <<commandVars, copy, reload, newest, started, deletes>>

ModelInit ==
    /\ CommandInit
    /\ copy = [c \in Clients |-> [f \in Fields |-> {}]]
    /\ reload = [c \in Clients |-> FALSE]
    /\ newest = [p \in Properties |-> {}]
    /\ started = 0
    /\ deletes = 0

-----------------------------------------------------------------------------

Cmd(action, f, values) == [action |-> action, predicate |-> f, targets |-> values]

\* setProperty() leaves a property without a value alone; an empty array clears a collection.
Written(values) == {f \in Fields : f \in Collections \/ values[f] # {}}

Setter(values, f) ==
    Cmd(IF f \in Collections THEN "collectionSetter" ELSE "setSingleTarget", f, values[f])

\* createSubject(): initial values take the place of the target of the constructor's
\* addLink, the other properties are set; collections follow in innerUpdate(false).
\* What has no initial value and is empty is not written.
Creator(values, f) ==
    IF f \in Initial THEN Cmd("addLink", f, values[f]) ELSE Setter(values, f)

\* Object.entries(): the fields one after the other, in some order.
Orders(S) == {s \in [1..Cardinality(S) -> S] : \A i, j \in DOMAIN s : s[i] = s[j] => i = j}

Send(c, values, cmds, m, reloads) ==
    /\ started < MaxRequests
    /\ started' = started + 1
    /\ Request(c, cmds, m)
    /\ copy' = [copy EXCEPT ![c] = values]
    /\ reload' = [reload EXCEPT ![c] = reloads]
    /\ UNCHANGED newest

\* update(): the client sets a field; every field the instance has a value for is written, changed or not.
\* Without a batch each field is a request of its own; the first to fail throws.
Update(c, f, edit) ==
    LET values == [copy[c] EXCEPT ![f] = edit]
    IN  /\ \E fields \in Orders(Written(values)) :
               Send(c, values, [i \in DOMAIN fields |-> Setter(values, fields[i])], "direct", TRUE)
        /\ UNCHANGED deletes

\* save(): all in one batch.
Save(c, f, edit) ==
    LET values == [copy[c] EXCEPT ![f] = edit]
    IN  /\ \A p \in Initial : values[p] # {}
        /\ \E fields \in Orders(Written(values)) :
               Send(c, values, [i \in DOMAIN fields |-> Creator(values, fields[i])], "batch", TRUE)
        /\ UNCHANGED deletes

\* PerspectiveProxy.setSingleTarget(): read, then one linkMutations.
SetSingleTarget(c, p, v) ==
    /\ Send(c, copy[c], <<Cmd("setSingleTarget", p, {v})>>, "mutation", FALSE)
    /\ UNCHANGED deletes

\* delete(): the destructor removes what the constructor adds, and nothing else.
Delete(c) ==
    /\ deletes < MaxDeletes
    /\ deletes' = deletes + 1
    /\ \E fields \in Orders(Initial) :
           Send(c, copy[c], [i \in DOMAIN fields |-> Cmd("removeLink", fields[i], Targets)], "direct", FALSE)

\* getData(): a property takes its latest link and keeps the old value if there is
\* none; a collection takes what there is.  Without any link nothing is touched.
Shown(f, old) ==
    LET found == {l \in links : l.predicate = f}
    IN  IF f \in Collections THEN {l.target : l \in found}
        ELSE IF found = {} THEN old
        ELSE {l.target : l \in {k \in found : \A m \in found : m.time <= k.time}}

Loaded(c) == IF links = {} THEN copy[c] ELSE [f \in Fields |-> Shown(f, copy[c][f])]

Get(c) ==
    /\ Idle(c)
    /\ copy' = [copy EXCEPT ![c] = Loaded(c)]
    /\ UNCHANGED <<commandVars, reload, newest, started, deletes>>

Answer(c) ==
    /\ RequestDone(c)
    /\ copy' = [copy EXCEPT ![c] = IF reload[c] THEN Loaded(c) ELSE @]
    /\ UNCHANGED <<reload, newest, started, deletes>>

Store(c, pair) ==
    /\ AddLink(c, pair)
    /\ newest' = [p \in Properties |->
           IF p = pair[1] /\ \A l \in newest[p] : l.time < signed[c]
           THEN {[predicate |-> p, target |-> pair[2], time |-> signed[c]]}
           ELSE newest[p]]
    /\ UNCHANGED <<copy, reload, started, deletes>>

Run(c) ==
    /\ Execute(c)
    /\ UNCHANGED <<copy, reload, newest, started, deletes>>

ModelNext ==
    \E c \in Clients :
        \/ \E f \in Fields : \E edit \in Edits(f) : Update(c, f, edit) \/ Save(c, f, edit)
        \/ \E p \in Properties, v \in Values : SetSingleTarget(c, p, v)
        \/ Delete(c)
        \/ Get(c)
        \/ Answer(c)
        \/ \E pair \in additions[c] : Store(c, pair)
        \/ Run(c)

ModelSpec == ModelInit /\ [][ModelNext]_modelVars

-----------------------------------------------------------------------------
(* Properties *)

\* The types of the instances and their requests.
ModelTypeOK ==
    /\ CommandTypeOK
    /\ copy \in [Clients -> [Fields -> SUBSET Targets]]
    /\ reload \in [Clients -> BOOLEAN]
    /\ \A p \in Properties : newest[p] \subseteq {l \in Link : l.predicate = p /\ l.time <= now}
    /\ started \in 0..MaxRequests /\ deletes \in 0..MaxDeletes

\* However the requests of several clients interleave, fail half-way or overtake each
\* other between signature and store: once they are done a property that nobody deleted
\* has the link that was signed last, which getData() shows.  Two clients that replace a
\* value at once may leave two links, never none.
LastWriteIsKept ==
    ((\A c \in Clients : Idle(c)) /\ deletes = 0) =>
        \A p \in Properties : newest[p] \subseteq links
=============================================================================
