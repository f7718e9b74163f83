---------------------------- MODULE LinkCommands ----------------------------
(* How the executor carries out what its clients ask for: add, remove and set  *)
(* links of one expression, as single requests or collected in a batch.  Every *)
(* await of a request is a step, and the requests of several clients interleave.*)
EXTENDS Integers, Sequences, FiniteSets

CONSTANTS Clients, Predicates, Targets

VARIABLES
    links,      \* the store: links [predicate, target, time] of the expression
    now,        \* the time of the latest signature
    commands,   \* per client: the commands of its request still to be carried out
    mode,       \* per client: "direct", "batch" or "mutation"
    step,       \* per client: where its request is
    matched,    \* per client: links it found and has yet to remove
    removals,   \* per client: the link it is removing, or the removals of its batch
    additions,  \* per client: <<predicate, target>> pairs it has yet to add
    signed      \* per client: the time its additions are signed with

store == <<links, now>>
requests == <<commands, mode, step, matched, removals, additions, signed>>
commandVars == <<store, requests>>

Link == [predicate : Predicates, target : Targets, time : Nat]

Actions == {"addLink", "removeLink", "setSingleTarget", "collectionSetter"}

\* removeLink takes the targets it removes, "*" being all of them.
Command == [action : Actions, predicate : Predicates, targets : SUBSET Targets]

Pairs(cmd) == {cmd.predicate} \X cmd.targets

\* mutant: whatever its target
AllOfPredicate(cmd) ==
    IF cmd.action = "addLink" THEN {} ELSE {l \in links : l.predicate = cmd.predicate}

\* The links a command removes: get_links() of its predicate, and target for removeLink.
Matching(cmd) ==
    IF cmd.action = "addLink" THEN {}
    ELSE {l \in links : /\ l.predicate = cmd.predicate
                        /\ cmd.action = "removeLink" => l.target \in cmd.targets}

Additions(cmd) == IF cmd.action = "removeLink" THEN {} ELSE Pairs(cmd)

\* get_links() sorts by time, and links are removed in that order.
Oldest(S) == {l \in S : \A m \in S : l.time <= m.time}

Idle(c) == step[c] = "idle"

CommandInit ==
    /\ links = {}
    /\ now = 0
    /\ commands = [c \in Clients |-> <<>>]
    /\ mode = [c \in Clients |-> "direct"]
    /\ step = [c \in Clients |-> "idle"]
    /\ matched = [c \in Clients |-> {}]
    /\ removals = [c \in Clients |-> {}]
    /\ additions = [c \in Clients |-> {}]
    /\ signed = [c \in Clients |-> 0]

-----------------------------------------------------------------------------

\* A client sends a request.
Request(c, cmds, m) ==
    /\ Idle(c)
    /\ commands' = [commands EXCEPT ![c] = cmds]
    /\ mode' = [mode EXCEPT ![c] = m]
    /\ step' = [step EXCEPT ![c] = "command"]
    /\ UNCHANGED <<store, matched, removals, additions, signed>>

\* The next command: what it replaces or removes is read first.  linkMutations takes
\* what its client has read (PerspectiveProxy.setSingleTarget) as it is.
ListLinks(c) ==
    /\ step[c] = "command"
    /\ commands[c] # <<>>
    /\ IF mode[c] = "mutation"
       THEN removals' = [removals EXCEPT ![c] = @ \cup Matching(Head(commands[c]))] /\ UNCHANGED matched
       ELSE matched' = [matched EXCEPT ![c] = Matching(Head(commands[c]))] /\ UNCHANGED removals
    /\ step' = [step EXCEPT ![c] = "removing"]
    /\ UNCHANGED <<store, commands, mode, additions, signed>>

\* remove_link() looks the link up: a batch notes it, a direct request goes on to delete it.
FindLink(c, l) ==
    /\ step[c] = "removing"
    /\ l \in Oldest(matched[c])
    /\ l \in links
    /\ matched' = [matched EXCEPT ![c] = @ \ {l}]
    /\ removals' = [removals EXCEPT ![c] = @ \cup {l}]
    /\ step' = [step EXCEPT ![c] = IF mode[c] = "batch" THEN "removing" ELSE "found"]
    /\ UNCHANGED <<store, commands, mode, additions, signed>>

\* "Link not found": the request fails, what it has done so far stays, a batch is given up.
LinkNotFound(c) ==
    /\ step[c] = "removing"
    /\ \E l \in Oldest(matched[c]) : l \notin links
    /\ step' = [step EXCEPT ![c] = "idle"]
    /\ commands' = [commands EXCEPT ![c] = <<>>]
    /\ matched' = [matched EXCEPT ![c] = {}]
    /\ removals' = [removals EXCEPT ![c] = {}]
    /\ additions' = [additions EXCEPT ![c] = {}]
    /\ mode' = [mode EXCEPT ![c] = "direct"]
    /\ signed' = [signed EXCEPT ![c] = 0]
    /\ UNCHANGED store

\* mutant: the statement names predicate and target only
DeleteEqual(c) ==
    /\ step[c] = "found"
    /\ links' = {l \in links : \A r \in removals[c] : l.predicate # r.predicate \/ l.target # r.target}
    /\ removals' = [removals EXCEPT ![c] = {}]
    /\ step' = [step EXCEPT ![c] = "removing"]
    /\ UNCHANGED <<now, commands, mode, matched, additions, signed>>

\* The deletion itself does not mind a link that is gone.
DeleteLink(c) ==
    /\ step[c] = "found"
    /\ links' = links \ removals[c]
    /\ removals' = [removals EXCEPT ![c] = {}]
    /\ step' = [step EXCEPT ![c] = "removing"]
    /\ UNCHANGED <<now, commands, mode, matched, additions, signed>>

\* create_signed_expression(): direct requests sign a command's additions after its removals.
SignAdditions(c) ==
    /\ step[c] = "removing"
    /\ mode[c] = "direct"
    /\ matched[c] = {}
    /\ now' = now + 1
    /\ signed' = [signed EXCEPT ![c] = now + 1]
    /\ additions' = [additions EXCEPT ![c] = Additions(Head(commands[c]))]
    /\ step' = [step EXCEPT ![c] = "adding"]
    /\ UNCHANGED <<links, commands, mode, matched, removals>>

\* A command of a batch is done when its additions are noted.
NoteAdditions(c) ==
    /\ step[c] = "removing"
    /\ mode[c] # "direct"
    /\ matched[c] = {}
    /\ additions' = [additions EXCEPT ![c] = @ \cup Additions(Head(commands[c]))]
    /\ commands' = [commands EXCEPT ![c] = Tail(@)]
    /\ step' = [step EXCEPT ![c] = "command"]
    /\ UNCHANGED <<store, mode, matched, removals, signed>>

\* commit_batch() and link_mutations(): all additions are signed, then one diff is
\* applied, removals first.
CommitBatch(c) ==
    /\ step[c] = "command"
    /\ mode[c] # "direct"
    /\ commands[c] = <<>>
    /\ now' = now + 1
    /\ signed' = [signed EXCEPT ![c] = now + 1]
    /\ step' = [step EXCEPT ![c] = "committing"]
    /\ UNCHANGED <<links, commands, mode, matched, removals, additions>>

RemoveCommitted(c, l) ==
    /\ step[c] = "committing"
    /\ l \in removals[c]
    /\ links' = links \ {l}
    /\ removals' = [removals EXCEPT ![c] = @ \ {l}]
    /\ UNCHANGED <<now, commands, mode, step, matched, additions, signed>>

\* persist_link_diff() adds one link after the other, once its removals are done.
AddLink(c, pair) ==
    /\ step[c] \in {"adding", "committing"}
    /\ step[c] = "committing" => removals[c] = {}
    /\ pair \in additions[c]
    /\ links' = links \cup {[predicate |-> pair[1], target |-> pair[2], time |-> signed[c]]}
    /\ additions' = [additions EXCEPT ![c] = @ \ {pair}]
    /\ UNCHANGED <<now, commands, mode, step, matched, removals, signed>>

\* The next command of a direct request.
CommandDone(c) ==
    /\ step[c] = "adding"
    /\ additions[c] = {}
    /\ commands' = [commands EXCEPT ![c] = Tail(@)]
    /\ step' = [step EXCEPT ![c] = "command"]
    /\ UNCHANGED <<store, mode, matched, removals, additions, signed>>

\* The client gets its answer.
RequestDone(c) ==
    /\ \/ step[c] = "command" /\ mode[c] = "direct" /\ commands[c] = <<>>
       \/ step[c] = "committing" /\ removals[c] = {} /\ additions[c] = {}
    /\ step' = [step EXCEPT ![c] = "idle"]
    /\ mode' = [mode EXCEPT ![c] = "direct"]
    /\ signed' = [signed EXCEPT ![c] = 0]
    /\ UNCHANGED <<store, commands, matched, removals, additions>>

\* What the executor does for a client, except for storing additions and answering.
Execute(c) ==
    \/ ListLinks(c)
    \/ \E l \in matched[c] : FindLink(c, l)
    \/ LinkNotFound(c)
    \/ DeleteLink(c)
    \/ SignAdditions(c)
    \/ NoteAdditions(c)
    \/ CommitBatch(c)
    \/ \E l \in removals[c] : RemoveCommitted(c, l)
    \/ CommandDone(c)

-----------------------------------------------------------------------------

\* The request's part of the state.
CommandTypeOK ==
    /\ links \subseteq [predicate : Predicates, target : Targets, time : 1..now]
    /\ now \in Nat
    /\ commands \in [Clients -> Seq(Command)]
    /\ mode \in [Clients -> {"direct", "batch", "mutation"}]
    /\ step \in [Clients -> {"idle", "command", "removing", "found", "adding", "committing"}]
    /\ matched \in [Clients -> SUBSET Link]
    /\ removals \in [Clients -> SUBSET Link]
    /\ \A c \in Clients : matched[c] \cup removals[c]
                              \subseteq [predicate : Predicates, target : Targets, time : 1..now]
    /\ additions \in [Clients -> SUBSET (Predicates \X Targets)]
    /\ signed \in [Clients -> 0..now]
=============================================================================
