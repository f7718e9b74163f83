-------------------------- MODULE QuerySubscriptions --------------------------
(***************************************************************************)
(* Live queries: the subscriptions that one PerspectiveInstance keeps for  *)
(* its clients (PerspectiveProxy.ts: QuerySubscriptionProxy) and the loop  *)
(* that runs their queries again when links changed.  All clients ask one  *)
(* query as one user, the case in which they share a subscription.  Of the *)
(* links only the query's result matters; queries and writes do not fail.  *)
(***************************************************************************)
EXTENDS Naturals, FiniteSets, Functions

CONSTANTS Clients,
          Results,    \* what the query can result in
          NoResult,   \* null
          MaxChanges, \* bound: mutations
          MaxBatches, \* bound: mutations that are batches
          MaxLate,    \* bound: times that no keepalive came for 60 s
          MaxIds      \* bound: ids in use at a time

ASSUME ResultsAssumption == Results # {} /\ NoResult \notin Results
ASSUME BoundsAssumption == {MaxChanges, MaxBatches, MaxLate, MaxIds} \subseteq Nat

VARIABLES
    store,    \* the result of the query on the links in the store
    toWrite,  \* batches whose trigger task is spawned and whose links are not written yet
    spawned,  \* spawn_prolog_facts_update() tasks that did not run yet
    trigger,  \* trigger_surreal_subscription_check
    subs,     \* surreal_subscribed_queries: id -> last_result, late: timed out by last_keepalive
    round,    \* where surreal_subscription_cleanup_loop() is: "idle", "checking", "clearing"
    futures,  \* id -> the query check of this round, not there when it is over
    timedOut, \* queries_to_remove
    updates,  \* tasks of send_subscription_update() that did not publish yet
    client,   \* a client's subscription: where it is, its id, the newest result
    fresh,    \* no link changed since the last round began, nor was an older result about
              \* to be inserted then
    owed,     \* clients that round owes the new result: they listened, their subscription
              \* had another result, and no older update of it was on its way
    changes, batches, lates \* counters behind the bounds

links == <<store, toWrite, spawned, changes, batches>>
checks == <<subs, round, futures, timedOut, updates, lates>>
history == <<fresh, owed>>
vars == <<links, trigger, checks, client, history>>

Ids == 1..MaxIds
NoId == 0

NoSubscription(stage) == [stage |-> stage, id |-> NoId, result |-> NoResult]

Init ==
    /\ store = CHOOSE r \in Results : TRUE
    /\ toWrite = 0 /\ spawned = 0
    /\ trigger = FALSE
    /\ subs = <<>>
    /\ round = "idle"
    /\ futures = <<>>
    /\ timedOut = {}
    /\ updates = {}
    /\ client = [c \in Clients |-> NoSubscription("subscribing")]
    /\ fresh = FALSE /\ owed = {}
    /\ changes = 0 /\ batches = 0 /\ lates = 0

-----------------------------------------------------------------------------
(* Changes of the links *)

Write == store' \in Results /\ fresh' = FALSE /\ owed' = {}

\* add_links(), link_mutations() and the like, and diffs from the link language: written
\* first, then the task that triggers the checks is spawned.
Mutate ==
    /\ changes < MaxChanges
    /\ changes' = changes + 1
    /\ Write
    /\ spawned' = spawned + 1
    /\ UNCHANGED <<toWrite, batches, trigger, checks, client>>

\* commit_batch() spawns that task before it writes.
CommitBatch ==
    /\ changes < MaxChanges /\ batches < MaxBatches
    /\ changes' = changes + 1
    /\ batches' = batches + 1
    /\ spawned' = spawned + 1
    /\ toWrite' = toWrite + 1
    /\ UNCHANGED <<store, trigger, checks, client, history>>

PersistBatch ==
    /\ toWrite > 0
    /\ toWrite' = toWrite - 1
    /\ Write
    /\ UNCHANGED <<spawned, changes, batches, trigger, checks, client>>

\* The task of spawn_prolog_facts_update(), PROLOG_MODE being Disabled.
TriggerChecks ==
    /\ spawned > 0
    /\ spawned' = spawned - 1
    /\ trigger' = TRUE
    /\ UNCHANGED <<store, toWrite, changes, batches, checks, client, history>>

-----------------------------------------------------------------------------
(* surreal_subscription_cleanup_loop() and check_surreal_subscribed_queries() *)

HasSubscription(c) == client[c].id \in DOMAIN subs
Listening(c) == client[c].stage = "listening" /\ HasSubscription(c)

NoOlderUpdate(c) == \A u \in updates : u.id = client[c].id => u.result = store

\* One round starts with a copy of ids and keepalives; what timed out is not queried.
StartRound ==
    /\ round = "idle"
    /\ trigger
    /\ round' = "checking"
    /\ timedOut' = {i \in DOMAIN subs : subs[i].late}
    /\ futures' = [i \in DOMAIN subs \ timedOut' |-> [stage |-> "querying", result |-> NoResult]]
    /\ fresh' = \A c \in Clients : client[c].stage = "inserting" => client[c].result = store
    /\ owed' = {c \in Clients : Listening(c) /\ subs[client[c].id].last # store /\ NoOlderUpdate(c)}
    /\ UNCHANGED <<links, trigger, subs, updates, lates, client>>

RunQuery(i) ==
    /\ i \in DOMAIN futures /\ futures[i].stage = "querying"
    /\ futures' = [futures EXCEPT ![i] = [stage |-> "comparing", result |-> store]]
    /\ UNCHANGED <<links, trigger, subs, round, timedOut, updates, lates, client, history>>

EndFuture(i) == futures' = Restrict(futures, DOMAIN futures \ {i})

\* mutant: the result is stored, nothing is sent
CompareQuietly(i) ==
    /\ i \in DOMAIN futures /\ futures[i].stage = "comparing"
    /\ futures' = [futures EXCEPT ![i].stage = "storing"]
    /\ UNCHANGED <<links, trigger, subs, round, timedOut, updates, lates, client, history>>

\* A result that differs from the last one is sent, and only then stored.
CompareResult(i) ==
    /\ i \in DOMAIN futures /\ futures[i].stage = "comparing"
    /\ IF i \in DOMAIN subs /\ subs[i].last # futures[i].result
       THEN /\ updates' = updates \cup {[id |-> i, result |-> futures[i].result]}
            /\ futures' = [futures EXCEPT ![i].stage = "storing"]
       ELSE EndFuture(i) /\ UNCHANGED updates
    /\ UNCHANGED <<links, trigger, subs, round, timedOut, lates, client, history>>

NotStored(i) == subs \* mutant: last_result is not updated
WithResult(i) ==
    [j \in DOMAIN subs |-> IF j = i THEN [subs[j] EXCEPT !.last = futures[i].result] ELSE subs[j]]

StoreResult(i) ==
    /\ i \in DOMAIN futures /\ futures[i].stage = "storing"
    /\ subs' = WithResult(i)
    /\ EndFuture(i)
    /\ UNCHANGED <<links, trigger, round, timedOut, updates, lates, client, history>>

\* By the keepalives of the start of the round: one that came since does not help.
RemoveTimedOut ==
    /\ round = "checking"
    /\ DOMAIN futures = {}
    /\ round' = "clearing"
    /\ subs' = Restrict(subs, DOMAIN subs \ timedOut)
    /\ timedOut' = {}
    /\ UNCHANGED <<links, trigger, futures, updates, lates, client, history>>

\* The trigger is cleared after the check, whether or not it was set again meanwhile.
ClearTrigger ==
    /\ round = "clearing"
    /\ round' = "idle"
    /\ trigger' = FALSE
    /\ UNCHANGED <<links, subs, futures, timedOut, updates, lates, client, history>>

\* QUERY_SUBSCRIPTION_TIMEOUT passes without a keepalive.
MissKeepalive(i) ==
    /\ lates < MaxLate
    /\ i \in DOMAIN subs /\ ~subs[i].late
    /\ lates' = lates + 1
    /\ subs' = [subs EXCEPT ![i].late = TRUE]
    /\ UNCHANGED <<links, trigger, round, futures, timedOut, updates, client, history>>

-----------------------------------------------------------------------------
(* subscribe_and_query_surreal() and QuerySubscriptionProxy *)

\* The client's subscribe() is answered with the subscription that is there and its last
\* result; otherwise the query is run and a subscription inserted.
FindExisting(c) ==
    /\ client[c].stage = "subscribing"
    /\ \/ \E i \in DOMAIN subs :
            client' = [client EXCEPT ![c] = [stage |-> "answered", id |-> i, result |-> subs[i].last]]
       \/ /\ DOMAIN subs = {}
          /\ client' = [client EXCEPT ![c].stage = "querying"]
    /\ UNCHANGED <<links, trigger, checks, history>>

RunFirstQuery(c) ==
    /\ client[c].stage = "querying"
    /\ client' = [client EXCEPT ![c].stage = "inserting", ![c].result = store]
    /\ UNCHANGED <<links, trigger, checks, history>>

\* A new uuid: nobody has it.
UnusedIds ==
    Ids \ UNION {DOMAIN subs, DOMAIN futures, timedOut,
                 {u.id : u \in updates}, {client[c].id : c \in Clients}}

InsertSubscription(c) ==
    /\ client[c].stage = "inserting"
    /\ UnusedIds # {}
    /\ LET i == CHOOSE i \in UnusedIds : TRUE
       IN  /\ subs' = [j \in DOMAIN subs \cup {i} |->
                           IF j = i THEN [last |-> client[c].result, late |-> FALSE] ELSE subs[j]]
           /\ client' = [client EXCEPT ![c].stage = "answered", ![c].id = i]
    /\ UNCHANGED <<links, trigger, round, futures, timedOut, updates, lates, history>>

\* The answer reaches the client, which then listens for updates.  The #init# messages
\* that follow repeat the answer; the client skips them.
StartListening(c) ==
    /\ client[c].stage = "answered"
    /\ client' = [client EXCEPT ![c].stage = "listening"]
    /\ UNCHANGED <<links, trigger, checks, history>>

\* An update reaches those that listen.
Publish(u) ==
    /\ updates' = updates \ {u}
    /\ client' = [c \in Clients |->
                     IF client[c].stage = "listening" /\ client[c].id = u.id
                     THEN [client[c] EXCEPT !.result = u.result] ELSE client[c]]
    /\ UNCHANGED <<links, trigger, subs, round, futures, timedOut, lates, history>>

\* mutant: the error of a lost subscription is only logged
KeepaliveIgnoringErrors(c) ==
    /\ client[c].stage = "listening"
    /\ client[c].id \in DOMAIN subs
    /\ subs' = [subs EXCEPT ![client[c].id].late = FALSE]
    /\ UNCHANGED <<links, trigger, round, futures, timedOut, updates, lates, client, history>>

\* keepalive_surreal_query() fails when the subscription is gone; the client subscribes anew.
Keepalive(c) ==
    /\ client[c].stage = "listening"
    /\ IF client[c].id \in DOMAIN subs
       THEN /\ subs' = [subs EXCEPT ![client[c].id].late = FALSE]
            /\ UNCHANGED <<client, owed>>
       ELSE /\ client' = [client EXCEPT ![c] = NoSubscription("subscribing")]
            /\ owed' = owed \ {c}
            /\ UNCHANGED subs
    /\ UNCHANGED <<links, trigger, round, futures, timedOut, updates, lates, fresh>>

Leave(c) ==
    /\ client' = [client EXCEPT ![c] = NoSubscription("gone")]
    /\ owed' = owed \ {c}
    /\ UNCHANGED fresh

\* dispose() removes the subscription, also for those that share it.
Dispose(c) ==
    /\ client[c].stage = "listening"
    /\ Leave(c)
    /\ subs' = Restrict(subs, DOMAIN subs \ {client[c].id})
    /\ UNCHANGED <<links, trigger, round, futures, timedOut, updates, lates>>

\* A client goes without dispose().
Vanish(c) ==
    /\ client[c].stage = "listening"
    /\ Leave(c)
    /\ UNCHANGED <<links, trigger, checks>>

-----------------------------------------------------------------------------

CheckSubscription(i) == RunQuery(i) \/ CompareResult(i) \/ StoreResult(i)
Subscribe(c) == FindExisting(c) \/ RunFirstQuery(c) \/ InsertSubscription(c) \/ StartListening(c)

Next ==
    \/ Mutate \/ CommitBatch \/ PersistBatch \/ TriggerChecks
    \/ StartRound \/ RemoveTimedOut \/ ClearTrigger
    \/ \E i \in Ids : CheckSubscription(i) \/ MissKeepalive(i)
    \/ \E c \in Clients : Subscribe(c) \/ Keepalive(c) \/ Dispose(c) \/ Vanish(c)
    \/ \E u \in updates : Publish(u)

\* Tasks that were spawned run, the loops go round and round, a client's timer sends
\* keepalives and its requests are answered.  Nobody has to change links or to leave.
Fairness ==
    /\ WF_vars(PersistBatch) /\ WF_vars(TriggerChecks)
    /\ WF_vars(StartRound) /\ WF_vars(RemoveTimedOut) /\ WF_vars(ClearTrigger)
    /\ \A i \in Ids : WF_vars(CheckSubscription(i))
    /\ \A c \in Clients : WF_vars(Subscribe(c)) /\ WF_vars(Keepalive(c))
    /\ \A i \in Ids, r \in Results :
           WF_vars([id |-> i, result |-> r] \in updates /\ Publish([id |-> i, result |-> r]))

Spec == Init /\ [][Next]_vars /\ Fairness

-----------------------------------------------------------------------------
(* Properties *)

Subscription == [last : Results, late : BOOLEAN]
QueryCheck == [stage : {"querying", "comparing", "storing"}, result : Results \cup {NoResult}]
ClientState == [stage : {"subscribing", "querying", "inserting", "answered", "listening", "gone"},
                id : Ids \cup {NoId}, result : Results \cup {NoResult}]

\* The types of the executor's tables and of the clients.
TypeOK ==
    /\ store \in Results
    /\ {toWrite, spawned} \subseteq Nat
    /\ trigger \in BOOLEAN
    /\ DOMAIN subs \subseteq Ids
    /\ subs \in [DOMAIN subs -> Subscription]
    /\ round \in {"idle", "checking", "clearing"}
    /\ DOMAIN futures \subseteq Ids
    /\ futures \in [DOMAIN futures -> QueryCheck]
    /\ timedOut \subseteq Ids
    /\ updates \subseteq [id : Ids, result : Results]
    /\ client \in [Clients -> ClientState]
    /\ fresh \in BOOLEAN
    /\ owed \subseteq Clients
    /\ changes \in 0..MaxChanges /\ batches \in 0..MaxBatches /\ lates \in 0..MaxLate

\* A round that ran while no link changed leaves every subscription with the result of its
\* query, also those that came meanwhile, and has sent it to whom it owed it, with no older
\* one still to come, unless his subscription ended; and so it stays until links change.
RoundBringsUpToDate ==
    (fresh /\ round # "checking") =>
        /\ \A i \in DOMAIN subs : subs[i].last = store
        /\ \A c \in owed :
               /\ NoOlderUpdate(c)
               /\ HasSubscription(c) => \/ client[c].result = store
                                        \/ [id |-> client[c].id, result |-> store] \in updates

\* No change is under way.
Settled == toWrite = 0 /\ spawned = 0

\* A trigger that is set while no round runs brings all subscriptions up to date, unless
\* links change again or a subscriber is about to insert a result that is old already.
SubscriptionsCatchUp ==
    LET quiet == Settled /\ \A c \in Clients :
                    client[c].stage = "inserting" => client[c].result = store
    IN  (quiet /\ trigger /\ round = "idle")
            ~> (~quiet \/ \A i \in DOMAIN subs : subs[i].last = store)

\* It also brings the new result to every client that listens, unless its subscription ends.
ListenersCatchUp ==
    \A c \in Clients :
        (/\ Settled /\ trigger /\ round = "idle" /\ updates = {}
         /\ Listening(c) /\ subs[client[c].id].last # store)
            ~> (~Settled \/ ~Listening(c) \/ client[c].result = store)

\* A client whose subscription timed out, perhaps right after its keepalive, or that another
\* client disposed of, ends up with a subscription.
ClientsKeepASubscription ==
    \A c \in Clients : <>[](client[c].stage = "gone" \/ Listening(c))

\* When all is quiet every client that listens has the query's result.
EveryChangeIsDelivered ==
    (/\ Settled /\ ~trigger /\ round = "idle" /\ updates = {})
        => \A c \in Clients : Listening(c) => client[c].result = store
=============================================================================
