----------------------- MODULE QuerySubscriptions_proofs -----------------------
(***************************************************************************)
(* The subscriptions of a live query, for every number of clients, results *)
(* and changes: what the executor's tables hold, and what a round of the   *)
(* loop leaves behind when no link changes while it runs.                  *)
(***************************************************************************)
EXTENDS QuerySubscriptions, TLAPS

-----------------------------------------------------------------------------
(* The inductive invariant *)

\* Outside of a round nothing is left of the last one.
OnlyInRound == round # "checking" => DOMAIN futures = {} /\ timedOut = {}

\* The result is there from the moment on that the code uses it.
ResultsAreThere ==
    /\ \A i \in DOMAIN futures : futures[i].stage # "querying" => futures[i].result \in Results
    /\ \A c \in Clients :
           client[c].stage \in {"inserting", "answered", "listening"} => client[c].result \in Results

\* No link having changed since the round began, the results it has, and those about to be
\* inserted, are the store's; a subscription with another one is still to be dealt with.
OldOnesAreChecked ==
    fresh =>
        /\ \A c \in Clients : client[c].stage = "inserting" => client[c].result = store
        /\ \A i \in DOMAIN futures : futures[i].stage # "querying" => futures[i].result = store
        /\ \A i \in DOMAIN subs : subs[i].last = store \/ i \in DOMAIN futures \/ i \in timedOut

\* Client c has the new result, it is on its way to c, or the round is going to send it.
GetsResult(c) ==
    \/ client[c].result = store
    \/ [id |-> client[c].id, result |-> store] \in updates
    \/ client[c].id \in timedOut
    \/ /\ client[c].id \in DOMAIN futures
       /\ futures[client[c].id].stage \in {"querying", "comparing"}
       /\ subs[client[c].id].last # store

\* Whom the round owes the result listens, and no older update is going to undo it.
OwedIsPaid ==
    fresh => \A c \in owed :
        /\ client[c].stage = "listening"
        /\ NoOlderUpdate(c)
        /\ HasSubscription(c) => GetsResult(c)

IInv == TypeOK /\ OnlyInRound /\ ResultsAreThere /\ OldOnesAreChecked /\ OwedIsPaid

\* TypeOK by the parts that change together.
LinksOK == /\ store \in Results /\ {toWrite, spawned} \subseteq Nat
           /\ changes \in 0..MaxChanges /\ batches \in 0..MaxBatches
FlagsOK == trigger \in BOOLEAN /\ fresh \in BOOLEAN /\ owed \subseteq Clients
SubsOK == DOMAIN subs \subseteq Ids /\ subs \in [DOMAIN subs -> Subscription]
FuturesOK == DOMAIN futures \subseteq Ids /\ futures \in [DOMAIN futures -> QueryCheck]
LoopOK == /\ round \in {"idle", "checking", "clearing"}
          /\ timedOut \subseteq Ids /\ lates \in 0..MaxLate
UpdatesOK == updates \subseteq [id : Ids, result : Results]
ClientsOK == client \in [Clients -> ClientState]

LEMMA TypeParts ==
    /\ TypeOK <=> /\ LinksOK /\ FlagsOK /\ SubsOK /\ FuturesOK /\ LoopOK /\ UpdatesOK /\ ClientsOK
    /\ TypeOK' <=> /\ LinksOK' /\ FlagsOK' /\ SubsOK' /\ FuturesOK' /\ LoopOK' /\ UpdatesOK' /\ ClientsOK'
BY DEF TypeOK, LinksOK, FlagsOK, SubsOK, FuturesOK, LoopOK, UpdatesOK, ClientsOK

LEMMA IInvInit == Init => IInv
<1> SUFFICES ASSUME Init PROVE IInv
    OBVIOUS
<1>1. store \in Results
    BY ResultsAssumption DEF Init
<1>2. DOMAIN subs = {} /\ DOMAIN futures = {}
    BY DEF Init
<1>3. client \in [Clients -> ClientState]
    BY DEF Init, NoSubscription, ClientState
<1>4. TypeOK
    <2>1. SubsOK /\ FuturesOK
        BY <1>2 DEF Init, SubsOK, FuturesOK
    <2>2. changes \in 0..MaxChanges /\ batches \in 0..MaxBatches /\ lates \in 0..MaxLate
        BY BoundsAssumption DEF Init
    <2>3. LinksOK
        BY <1>1, <2>2 DEF Init, LinksOK
    <2>4. FlagsOK /\ LoopOK /\ UpdatesOK
        BY <2>2, Zenon DEF Init, FlagsOK, LoopOK, UpdatesOK
    <2> QED BY <1>3, <2>1, <2>3, <2>4, TypeParts DEF ClientsOK
<1> QED BY <1>2, <1>4 DEF Init, IInv, OnlyInRound, ResultsAreThere, OldOnesAreChecked, OwedIsPaid,
                          NoSubscription

\* A step of the specification is one of these.
LEMMA NextCases ==
    ASSUME Next
    PROVE  \/ Mutate \/ CommitBatch \/ PersistBatch \/ TriggerChecks
           \/ StartRound \/ RemoveTimedOut \/ ClearTrigger
           \/ \E i \in Ids : RunQuery(i) \/ CompareResult(i) \/ StoreResult(i) \/ MissKeepalive(i)
           \/ \E c \in Clients : \/ FindExisting(c) \/ RunFirstQuery(c) \/ InsertSubscription(c)
                                 \/ StartListening(c) \/ Keepalive(c) \/ Dispose(c) \/ Vanish(c)
           \/ \E u \in updates : Publish(u)
BY DEF Next, CheckSubscription, Subscribe

-----------------------------------------------------------------------------
(* Steps *)

\* The id of a new subscription is an id that occurs nowhere.
LEMMA InsertedId ==
    ASSUME NEW c \in Clients, InsertSubscription(c)
    PROVE  \E i \in Ids :
              /\ i \notin DOMAIN subs /\ i \notin DOMAIN futures /\ i \notin timedOut
              /\ \A u \in updates : u.id # i
              /\ \A d \in Clients : client[d].id # i
              /\ subs' = [j \in DOMAIN subs \cup {i} |->
                             IF j = i THEN [last |-> client[c].result, late |-> FALSE] ELSE subs[j]]
              /\ client' = [client EXCEPT ![c].stage = "answered", ![c].id = i]
<1> DEFINE i == CHOOSE i \in UnusedIds : TRUE
<1>1. i \in UnusedIds
    BY DEF InsertSubscription
<1>2. /\ subs' = [j \in DOMAIN subs \cup {i} |->
                     IF j = i THEN [last |-> client[c].result, late |-> FALSE] ELSE subs[j]]
      /\ client' = [client EXCEPT ![c].stage = "answered", ![c].id = i]
    BY DEF InsertSubscription
<1> HIDE DEF i
<1> QED BY <1>1, <1>2 DEF UnusedIds

LEMMA LinksNext == LinksOK /\ [Next]_vars => LinksOK'
<1> SUFFICES ASSUME LinksOK, [Next]_vars PROVE LinksOK'
    OBVIOUS
<1>1. CASE Mutate \/ CommitBatch \/ PersistBatch \/ TriggerChecks
    BY <1>1, BoundsAssumption
       DEF LinksOK, Write, Mutate, CommitBatch, PersistBatch, TriggerChecks
<1>2. CASE UNCHANGED links
    BY <1>2 DEF links, LinksOK
<1> QED BY <1>1, <1>2, NextCases
        DEF vars, StartRound, RemoveTimedOut, ClearTrigger, RunQuery, CompareResult, StoreResult,
            MissKeepalive, FindExisting, RunFirstQuery, InsertSubscription, StartListening,
            Keepalive, Dispose, Vanish, Publish

LEMMA FlagsNext == FlagsOK /\ [Next]_vars => FlagsOK'
BY NextCases, ZenonT(30)
   DEF FlagsOK, vars, history, Write, Mutate, CommitBatch, PersistBatch, TriggerChecks, StartRound,
       RemoveTimedOut, ClearTrigger, RunQuery, CompareResult, StoreResult, MissKeepalive,
       FindExisting, RunFirstQuery, InsertSubscription, StartListening, Keepalive, Dispose,
       Vanish, Leave, Publish

LEMMA LoopNext ==
    ASSUME LoopOK, SubsOK, [Next]_vars
    PROVE  LoopOK'
<1>1. CASE StartRound \/ RemoveTimedOut \/ ClearTrigger
    BY <1>1 DEF LoopOK, SubsOK, StartRound, RemoveTimedOut, ClearTrigger
<1>2. CASE \E i \in Ids : MissKeepalive(i)
    BY <1>2, BoundsAssumption DEF LoopOK, MissKeepalive
<1>3. CASE UNCHANGED <<round, timedOut, lates>>
    BY <1>3 DEF LoopOK
<1> QED BY <1>1, <1>2, <1>3, NextCases
        DEF vars, checks, Mutate, CommitBatch, PersistBatch, TriggerChecks, RunQuery, CompareResult,
            StoreResult, FindExisting, RunFirstQuery, InsertSubscription, StartListening,
            Keepalive, Dispose, Vanish, Publish

LEMMA UpdatesNext ==
    ASSUME UpdatesOK, FuturesOK, ResultsAreThere, [Next]_vars
    PROVE  UpdatesOK'
<1>1. ASSUME NEW i \in Ids, CompareResult(i)
      PROVE  UpdatesOK'
    <2>1. futures[i].result \in Results
        BY <1>1 DEF CompareResult, ResultsAreThere
    <2> QED BY <1>1, <2>1 DEF CompareResult, UpdatesOK
<1>2. CASE \E u \in updates : Publish(u)
    BY <1>2 DEF UpdatesOK, Publish
<1>3. CASE UNCHANGED updates
    BY <1>3 DEF UpdatesOK
<1> QED BY <1>1, <1>2, <1>3, NextCases
        DEF vars, checks, Mutate, CommitBatch, PersistBatch, TriggerChecks, StartRound,
            RemoveTimedOut, ClearTrigger, RunQuery, StoreResult, MissKeepalive, FindExisting,
            RunFirstQuery, InsertSubscription, StartListening, Keepalive, Dispose, Vanish

LEMMA FuturesNext ==
    ASSUME FuturesOK, SubsOK, LinksOK, [Next]_vars
    PROVE  FuturesOK'
<1>1. CASE StartRound
    <2> DEFINE ids == DOMAIN subs \ timedOut'
               check == [stage |-> "querying", result |-> NoResult]
    <2>1. futures' = [i \in ids |-> check]
        BY <1>1 DEF StartRound
    <2>2. check \in QueryCheck
        BY DEF QueryCheck
    <2> HIDE DEF check
    <2> QED BY <2>1, <2>2 DEF FuturesOK, SubsOK
<1>2. ASSUME NEW i \in Ids, RunQuery(i)
      PROVE  FuturesOK'
    <2>1. futures' = [futures EXCEPT ![i] = [stage |-> "comparing", result |-> store]]
        BY <1>2 DEF RunQuery
    <2>2. [stage |-> "comparing", result |-> store] \in QueryCheck
        BY DEF LinksOK, QueryCheck
    <2> QED BY <2>1, <2>2 DEF FuturesOK
<1>3. ASSUME NEW i \in Ids, EndFuture(i)
      PROVE  FuturesOK'
    BY <1>3 DEF EndFuture, Restrict, FuturesOK
<1>4. ASSUME NEW i \in Ids, i \in DOMAIN futures, futures' = [futures EXCEPT ![i].stage = "storing"]
      PROVE  FuturesOK'
    BY <1>4 DEF FuturesOK, QueryCheck
<1>5. CASE UNCHANGED futures
    BY <1>5 DEF FuturesOK
<1>6. ASSUME NEW i \in Ids, CompareResult(i) \/ StoreResult(i)
      PROVE  FuturesOK'
    BY <1>3, <1>4, <1>6 DEF CompareResult, StoreResult
<1> QED BY <1>1, <1>2, <1>5, <1>6, NextCases
        DEF vars, checks, Mutate, CommitBatch, PersistBatch, TriggerChecks, RemoveTimedOut,
            ClearTrigger, MissKeepalive, FindExisting, RunFirstQuery, InsertSubscription,
            StartListening, Keepalive, Dispose, Vanish, Publish

LEMMA SubsNext ==
    ASSUME SubsOK, FuturesOK, ClientsOK, ResultsAreThere, [Next]_vars
    PROVE  SubsOK'
<1>1. ASSUME NEW S, subs' = Restrict(subs, DOMAIN subs \ S)
      PROVE  SubsOK'
    BY <1>1 DEF SubsOK, Restrict
<1>2. ASSUME NEW i \in DOMAIN subs, NEW late \in BOOLEAN, subs' = [subs EXCEPT ![i].late = late]
      PROVE  SubsOK'
    BY <1>2 DEF SubsOK, Subscription
<1>3. ASSUME NEW i \in Ids, StoreResult(i)
      PROVE  SubsOK'
    <2>1. futures[i].result \in Results
        BY <1>3 DEF StoreResult, ResultsAreThere
    <2> QED BY <1>3, <2>1 DEF StoreResult, WithResult, SubsOK, Subscription
<1>4. ASSUME NEW c \in Clients, InsertSubscription(c)
      PROVE  SubsOK'
    <2> DEFINE new == [last |-> client[c].result, late |-> FALSE]
    <2>1. new \in Subscription
        BY <1>4, Zenon DEF InsertSubscription, ResultsAreThere, Subscription
    <2>2. PICK i \in Ids : subs' = [j \in DOMAIN subs \cup {i} |-> IF j = i THEN new ELSE subs[j]]
        BY <1>4, InsertedId
    <2> HIDE DEF new
    <2> QED BY <2>1, <2>2 DEF SubsOK
<1>5. ASSUME NEW i \in Ids, MissKeepalive(i)
      PROVE  SubsOK'
    BY <1>2, <1>5, Zenon DEF MissKeepalive
<1>6. ASSUME NEW c \in Clients, Keepalive(c)
      PROVE  SubsOK' \/ UNCHANGED subs
    BY <1>2, <1>6, Zenon DEF Keepalive
<1>7. ASSUME NEW c \in Clients, Dispose(c)
      PROVE  SubsOK'
    BY <1>1, <1>7 DEF Dispose
<1>8. CASE RemoveTimedOut
    BY <1>1, <1>8 DEF RemoveTimedOut
<1>9. CASE UNCHANGED subs
    BY <1>9 DEF SubsOK
<1> QED BY <1>3, <1>4, <1>5, <1>6, <1>7, <1>8, <1>9, NextCases
        DEF vars, checks, Mutate, CommitBatch, PersistBatch, TriggerChecks, StartRound, ClearTrigger,
            RunQuery, CompareResult, FindExisting, RunFirstQuery, StartListening, Vanish, Publish

LEMMA ClientsNext ==
    ASSUME ClientsOK, SubsOK, LinksOK, UpdatesOK, [Next]_vars
    PROVE  ClientsOK'
<1> DEFINE results == Results \cup {NoResult}
           ids == Ids \cup {NoId}
<1>1. ASSUME NEW c \in Clients, NEW s \in ClientState, client' = [client EXCEPT ![c] = s]
      PROVE  ClientsOK'
    BY <1>1 DEF ClientsOK
<1>2. \A c \in Clients : client[c].id \in ids /\ client[c].result \in results
    BY DEF ClientsOK, ClientState
<1>3. ASSUME NEW c \in Clients, FindExisting(c)
      PROVE  ClientsOK'
    <2>1. CASE client' = [client EXCEPT ![c].stage = "querying"]
        BY <2>1 DEF ClientsOK, ClientState
    <2>2. ASSUME NEW i \in DOMAIN subs,
                 client' = [client EXCEPT ![c] = [stage |-> "answered", id |-> i, result |-> subs[i].last]]
          PROVE  ClientsOK'
        <3>1. i \in Ids /\ subs[i].last \in Results
            BY DEF SubsOK, Subscription
        <3> QED BY <1>1, <2>2, <3>1 DEF ClientState
    <2> QED BY <1>3, <2>1, <2>2 DEF FindExisting
<1>4. ASSUME NEW c \in Clients, RunFirstQuery(c)
      PROVE  ClientsOK'
    <2> DEFINE s == [client[c] EXCEPT !.stage = "inserting", !.result = store]
    <2>1. client' = [client EXCEPT ![c] = s]
        BY <1>4 DEF RunFirstQuery, ClientsOK, ClientState
    <2>2. s \in ClientState
        BY DEF LinksOK, ClientsOK, ClientState
    <2> HIDE DEF s
    <2> QED BY <1>1, <2>1, <2>2
<1>5. ASSUME NEW c \in Clients, InsertSubscription(c)
      PROVE  ClientsOK'
    <2>1. PICK i \in Ids : client' = [client EXCEPT ![c].stage = "answered", ![c].id = i]
        BY <1>5, InsertedId
    <2> DEFINE s == [client[c] EXCEPT !.stage = "answered", !.id = i]
    <2>2. client' = [client EXCEPT ![c] = s]
        BY <2>1 DEF ClientsOK, ClientState
    <2>3. s \in ClientState
        BY DEF ClientsOK, ClientState
    <2> HIDE DEF s
    <2> QED BY <1>1, <2>2, <2>3
<1>6. ASSUME NEW c \in Clients, StartListening(c)
      PROVE  ClientsOK'
    BY <1>6 DEF StartListening, ClientsOK, ClientState
<1>7. ASSUME NEW u \in updates, Publish(u)
      PROVE  ClientsOK'
    <2>1. u.result \in results
        BY DEF UpdatesOK
    <2>2. \A c \in Clients : [client[c] EXCEPT !.result = u.result] \in ClientState
        BY <2>1 DEF ClientsOK, ClientState
    <2> QED BY <1>7, <2>2 DEF Publish, ClientsOK
<1>8. \A stage \in {"subscribing", "gone"} : NoSubscription(stage) \in ClientState
    BY DEF NoSubscription, ClientState
<1>9. ASSUME NEW c \in Clients, Keepalive(c) \/ Dispose(c) \/ Vanish(c)
      PROVE  ClientsOK' \/ UNCHANGED client
    BY <1>1, <1>8, <1>9 DEF Keepalive, Dispose, Vanish, Leave
<1>10. CASE UNCHANGED client
    BY <1>10 DEF ClientsOK
<1> QED BY <1>3, <1>4, <1>5, <1>6, <1>7, <1>9, <1>10, NextCases
        DEF vars, Mutate, CommitBatch, PersistBatch, TriggerChecks, StartRound, RemoveTimedOut,
            ClearTrigger, RunQuery, CompareResult, StoreResult, MissKeepalive

LEMMA TypeNext ==
    ASSUME TypeOK, ResultsAreThere, [Next]_vars
    PROVE  TypeOK'
BY TypeParts, LinksNext, FlagsNext, LoopNext, UpdatesNext, FuturesNext, SubsNext, ClientsNext

-----------------------------------------------------------------------------
(* The other parts of the invariant *)

LEMMA OnlyInRoundNext ==
    ASSUME OnlyInRound, [Next]_vars
    PROVE  OnlyInRound'
<1>1. CASE StartRound \/ RemoveTimedOut
    BY <1>1 DEF OnlyInRound, StartRound, RemoveTimedOut
<1>2. ASSUME NEW i \in Ids, RunQuery(i) \/ CompareResult(i) \/ StoreResult(i)
      PROVE  OnlyInRound'
    <2>1. round = "checking"
        BY <1>2 DEF OnlyInRound, RunQuery, CompareResult, StoreResult
    <2> QED BY <1>2, <2>1 DEF OnlyInRound, RunQuery, CompareResult, StoreResult
<1>3. CASE ClearTrigger \/ UNCHANGED <<round, futures, timedOut>>
    BY <1>3 DEF OnlyInRound, ClearTrigger
<1> QED BY <1>1, <1>2, <1>3, NextCases
        DEF vars, checks, Mutate, CommitBatch, PersistBatch, TriggerChecks, MissKeepalive,
            FindExisting, RunFirstQuery, InsertSubscription, StartListening, Keepalive, Dispose,
            Vanish, Publish

\* What a step may do to the checks of a round.
LEMMA FuturesStep ==
    ASSUME FuturesOK, [Next]_vars
    PROVE  \/ UNCHANGED futures
           \/ StartRound /\ futures' = [i \in DOMAIN futures' |-> [stage |-> "querying", result |-> NoResult]]
           \/ \E i \in DOMAIN futures :
                 \/ RunQuery(i) /\ futures' = [futures EXCEPT ![i] = [stage |-> "comparing", result |-> store]]
                 \/ CompareResult(i) /\ futures[i].stage = "comparing"
                                     /\ futures' = [futures EXCEPT ![i].stage = "storing"]
                 \/ (CompareResult(i) \/ StoreResult(i))
                     /\ futures' = [j \in DOMAIN futures \ {i} |-> futures[j]]
<1>1. CASE StartRound
    BY <1>1 DEF StartRound
<1>2. ASSUME NEW i \in Ids, RunQuery(i) \/ CompareResult(i) \/ StoreResult(i)
      PROVE  \E j \in DOMAIN futures :
                 \/ RunQuery(j) /\ futures' = [futures EXCEPT ![j] = [stage |-> "comparing", result |-> store]]
                 \/ CompareResult(j) /\ futures[j].stage = "comparing"
                                     /\ futures' = [futures EXCEPT ![j].stage = "storing"]
                 \/ (CompareResult(j) \/ StoreResult(j))
                     /\ futures' = [k \in DOMAIN futures \ {j} |-> futures[k]]
    BY <1>2, Zenon DEF RunQuery, CompareResult, StoreResult, EndFuture, Restrict
<1> QED BY <1>1, <1>2, NextCases
        DEF vars, checks, Mutate, CommitBatch, PersistBatch, TriggerChecks, RemoveTimedOut,
            ClearTrigger, MissKeepalive, FindExisting, RunFirstQuery, InsertSubscription,
            StartListening, Keepalive, Dispose, Vanish, Publish

\* What a step may do to a client, by where that leaves it.
LEMMA ClientStep ==
    ASSUME ClientsOK, [Next]_vars, NEW c \in Clients
    PROVE  \/ client'[c] = client[c]
           \/ client'[c].stage \in {"subscribing", "querying", "gone"}
           \/ /\ client'[c].stage = "inserting"
              /\ client'[c].result = store
           \/ /\ client[c].stage = "subscribing" /\ client'[c].stage = "answered"
              /\ \E i \in DOMAIN subs : client'[c].result = subs[i].last
           \/ /\ client[c].stage \in {"inserting", "answered"}
              /\ client'[c].stage \in {"answered", "listening"}
              /\ client'[c].result = client[c].result
           \/ \E u \in updates : /\ Publish(u)
                                 /\ client[c].stage = "listening" /\ client[c].id = u.id
                                 /\ client'[c] = [client[c] EXCEPT !.result = u.result]
<1> DEFINE Step(d) ==
           \/ client'[d] = client[d]
           \/ client'[d].stage \in {"subscribing", "querying", "gone"}
           \/ /\ client'[d].stage = "inserting"
              /\ client'[d].result = store
           \/ /\ client[d].stage = "subscribing" /\ client'[d].stage = "answered"
              /\ \E i \in DOMAIN subs : client'[d].result = subs[i].last
           \/ /\ client[d].stage \in {"inserting", "answered"}
              /\ client'[d].stage \in {"answered", "listening"}
              /\ client'[d].result = client[d].result
           \/ \E u \in updates : /\ Publish(u)
                                 /\ client[d].stage = "listening" /\ client[d].id = u.id
                                 /\ client'[d] = [client[d] EXCEPT !.result = u.result]
<1>1. ASSUME NEW d \in Clients, FindExisting(d)
      PROVE  Step(c)
    BY <1>1 DEF FindExisting, ClientsOK, ClientState
<1>2. ASSUME NEW d \in Clients, RunFirstQuery(d)
      PROVE  Step(c)
    BY <1>2 DEF RunFirstQuery, ClientsOK, ClientState
<1>3. ASSUME NEW d \in Clients, InsertSubscription(d)
      PROVE  Step(c)
    <2>1. PICK i \in Ids : client' = [client EXCEPT ![d].stage = "answered", ![d].id = i]
        BY <1>3, InsertedId
    <2>2. client[d].stage = "inserting"
        BY <1>3 DEF InsertSubscription
    <2> QED BY <2>1, <2>2 DEF ClientsOK, ClientState
<1>4. ASSUME NEW d \in Clients, StartListening(d)
      PROVE  Step(c)
    BY <1>4 DEF StartListening, ClientsOK, ClientState
<1>5. ASSUME NEW d \in Clients, Keepalive(d) \/ Dispose(d) \/ Vanish(d)
      PROVE  Step(c)
    BY <1>5 DEF Keepalive, Dispose, Vanish, Leave, NoSubscription, ClientsOK
<1>6. ASSUME NEW u \in updates, Publish(u)
      PROVE  Step(c)
    <2>1. client'[c] = IF client[c].stage = "listening" /\ client[c].id = u.id
                       THEN [client[c] EXCEPT !.result = u.result] ELSE client[c]
        BY <1>6 DEF Publish
    <2> QED BY <1>6, <2>1
<1>7. UNCHANGED client => Step(c)
    OBVIOUS
<1> HIDE DEF Step
<1>8. \/ \E d \in Clients : \/ FindExisting(d) \/ RunFirstQuery(d) \/ InsertSubscription(d)
                            \/ StartListening(d) \/ Keepalive(d) \/ Dispose(d) \/ Vanish(d)
      \/ \E u \in updates : Publish(u)
      \/ UNCHANGED client
    BY NextCases
       DEF vars, Mutate, CommitBatch, PersistBatch, TriggerChecks, StartRound, RemoveTimedOut,
           ClearTrigger, RunQuery, CompareResult, StoreResult, MissKeepalive
<1>9. Step(c)
    BY <1>1, <1>2, <1>3, <1>4, <1>5, <1>6, <1>7, <1>8
<1> QED BY <1>9 DEF Step

LEMMA ResultsAreThereNext ==
    ASSUME TypeOK, ResultsAreThere, [Next]_vars
    PROVE  ResultsAreThere'
<1>1. LinksOK /\ SubsOK /\ FuturesOK /\ UpdatesOK /\ ClientsOK
    BY TypeParts
<1>2. ASSUME NEW i \in DOMAIN futures', futures'[i].stage # "querying"
      PROVE  futures'[i].result \in Results
    <2>1. CASE UNCHANGED futures
        BY <1>2, <2>1 DEF ResultsAreThere
    <2>2. CASE futures' = [j \in DOMAIN futures' |-> [stage |-> "querying", result |-> NoResult]]
        BY <1>2, <2>2
    <2>3. ASSUME NEW j \in DOMAIN futures,
                 futures' = [futures EXCEPT ![j] = [stage |-> "comparing", result |-> store]]
          PROVE  futures'[i].result \in Results
        BY <1>1, <1>2, <2>3 DEF ResultsAreThere, LinksOK
    <2>4. ASSUME NEW j \in DOMAIN futures, futures[j].stage = "comparing",
                 futures' = [futures EXCEPT ![j].stage = "storing"]
          PROVE  futures'[i].result \in Results
        BY <1>1, <1>2, <2>4 DEF ResultsAreThere, FuturesOK, QueryCheck
    <2>5. ASSUME NEW j, futures' = [k \in DOMAIN futures \ {j} |-> futures[k]]
          PROVE  futures'[i].result \in Results
        BY <1>2, <2>5 DEF ResultsAreThere
    <2> QED BY <1>1, <2>1, <2>2, <2>3, <2>4, <2>5, FuturesStep
<1>3. ASSUME NEW c \in Clients, client'[c].stage \in {"inserting", "answered", "listening"}
      PROVE  client'[c].result \in Results
    <2>1. \A i \in DOMAIN subs : subs[i].last \in Results
        BY <1>1 DEF SubsOK, Subscription
    <2>2. \A u \in updates : u.result \in Results
        BY <1>1 DEF UpdatesOK
    <2>3. client[c] \in ClientState
        BY <1>1 DEF ClientsOK
    <2> QED BY <1>1, <1>3, <2>1, <2>2, <2>3, ClientStep DEF ResultsAreThere, LinksOK, ClientState
<1> QED BY <1>2, <1>3 DEF ResultsAreThere

\* A round that is still fresh after a step has just begun, or no link changed in the step
\* and no client came to be owed a result.
LEMMA FreshStep ==
    ASSUME [Next]_vars, fresh', ~StartRound
    PROVE  fresh /\ store' = store /\ owed' \subseteq owed
BY NextCases, Zenon
   DEF vars, links, checks, history, Write, Mutate, CommitBatch, PersistBatch, TriggerChecks,
       RemoveTimedOut, ClearTrigger, RunQuery, CompareResult, StoreResult, MissKeepalive,
       FindExisting, RunFirstQuery, InsertSubscription, StartListening, Keepalive, Dispose,
       Vanish, Leave, Publish

\* What a step may do to a subscription.
LEMMA SubsStep ==
    ASSUME SubsOK, [Next]_vars, NEW i \in DOMAIN subs'
    PROVE  \/ /\ i \in DOMAIN subs /\ subs'[i].last = subs[i].last
              /\ ~StoreResult(i)
              /\ RemoveTimedOut => i \notin timedOut
           \/ StoreResult(i) /\ i \in DOMAIN subs /\ subs'[i].last = futures[i].result
           \/ \E c \in Clients : /\ InsertSubscription(c)
                                 /\ i \notin DOMAIN subs
                                 /\ subs'[i].last = client[c].result
<1> DEFINE Kept == i \in DOMAIN subs /\ subs'[i].last = subs[i].last
<1>1. CASE StoreResult(i)
    BY <1>1 DEF StoreResult, WithResult, SubsOK, Subscription
<1>2. ASSUME NEW j \in Ids, StoreResult(j), j # i
      PROVE  Kept /\ ~RemoveTimedOut
    BY <1>2 DEF StoreResult, WithResult, RemoveTimedOut
<1>3. ASSUME RemoveTimedOut
      PROVE  Kept /\ i \notin timedOut
    BY <1>3 DEF RemoveTimedOut, Restrict
<1>4. ASSUME NEW j \in DOMAIN subs, NEW late, subs' = [subs EXCEPT ![j].late = late]
      PROVE  Kept
    BY <1>4 DEF SubsOK, Subscription
<1>5. ASSUME NEW c \in Clients, Dispose(c)
      PROVE  Kept
    BY <1>5 DEF Dispose, Restrict
<1>6. ASSUME NEW c \in Clients, InsertSubscription(c)
      PROVE  Kept \/ (i \notin DOMAIN subs /\ subs'[i].last = client[c].result)
    <2>1. PICK j \in Ids :
            /\ j \notin DOMAIN subs
            /\ subs' = [k \in DOMAIN subs \cup {j} |->
                           IF k = j THEN [last |-> client[c].result, late |-> FALSE] ELSE subs[k]]
        BY <1>6, InsertedId
    <2> QED BY <2>1
<1>7. UNCHANGED subs => Kept
    OBVIOUS
<1>8. \A j \in Ids : MissKeepalive(j) => Kept
    BY <1>4, Zenon DEF MissKeepalive
<1>9. \A c \in Clients : Keepalive(c) => Kept
    BY <1>4, <1>7, Zenon DEF Keepalive
<1>10. \/ Kept
       \/ \E c \in Clients : /\ InsertSubscription(c)
                             /\ i \notin DOMAIN subs
                             /\ subs'[i].last = client[c].result
       \/ StoreResult(i)
    <2> HIDE DEF Kept
    <2> QED BY <1>2, <1>3, <1>5, <1>6, <1>7, <1>8, <1>9, NextCases
            DEF vars, checks, Mutate, CommitBatch, PersistBatch, TriggerChecks, StartRound,
                ClearTrigger, RunQuery, CompareResult, FindExisting, RunFirstQuery, StartListening,
                Vanish, Publish
<1> QED BY <1>1, <1>3, <1>10

LEMMA OldOnesAreCheckedNext ==
    ASSUME TypeOK, OldOnesAreChecked, [Next]_vars
    PROVE  OldOnesAreChecked'
<1> USE DEF OldOnesAreChecked
<1>1. LinksOK /\ SubsOK /\ FuturesOK /\ ClientsOK
    BY TypeParts
<1>2. CASE StartRound
    <2>1. DOMAIN subs \subseteq DOMAIN futures' \cup timedOut'
        BY <1>2 DEF StartRound
    <2>2. \A i \in DOMAIN futures' : futures'[i].stage = "querying"
        BY <1>2 DEF StartRound
    <2>3. fresh' => \A c \in Clients : client[c].stage = "inserting" => client[c].result = store
        BY <1>2, Zenon DEF StartRound
    <2>4. UNCHANGED <<subs, client, store>>
        BY <1>2 DEF StartRound, links
    <2> QED BY <2>1, <2>2, <2>3, <2>4
<1>3. ASSUME ~StartRound, fresh'
      PROVE  OldOnesAreChecked'
    <2>1. fresh /\ store' = store
        BY <1>3, FreshStep
    <2>2. ASSUME NEW c \in Clients, client'[c].stage = "inserting"
          PROVE  client'[c].result = store
        <3>1. client[c] \in ClientState
            BY <1>1 DEF ClientsOK
        <3> QED BY <1>1, <2>1, <2>2, <3>1, ClientStep DEF ClientState
    <2>3. ASSUME NEW i \in DOMAIN futures', futures'[i].stage # "querying"
          PROVE  futures'[i].result = store
        <3>1. CASE UNCHANGED futures
            BY <2>1, <2>3, <3>1
        <3>2. ASSUME NEW j \in DOMAIN futures,
                     futures' = [futures EXCEPT ![j] = [stage |-> "comparing", result |-> store]]
              PROVE  futures'[i].result = store
            BY <2>1, <2>3, <3>2
        <3>3. ASSUME NEW j \in DOMAIN futures, futures[j].stage = "comparing",
                     futures' = [futures EXCEPT ![j].stage = "storing"]
              PROVE  futures'[i].result = store
            BY <1>1, <2>1, <2>3, <3>3 DEF FuturesOK, QueryCheck
        <3>4. ASSUME NEW j, futures' = [k \in DOMAIN futures \ {j} |-> futures[k]]
              PROVE  futures'[i].result = store
            BY <2>1, <2>3, <3>4
        <3> QED BY <1>1, <1>3, <3>1, <3>2, <3>3, <3>4, FuturesStep
    <2>4. ASSUME NEW i \in DOMAIN subs'
          PROVE  subs'[i].last = store \/ i \in DOMAIN futures' \/ i \in timedOut'
        <3>1. CASE StoreResult(i)
            BY <1>1, <2>1, <3>1 DEF StoreResult, WithResult, SubsOK, Subscription
        <3>2. CASE \E c \in Clients : InsertSubscription(c) /\ subs'[i].last = client[c].result
            BY <2>1, <3>2 DEF InsertSubscription
        <3>3. ASSUME i \in DOMAIN subs, subs'[i].last = subs[i].last, ~StoreResult(i),
                     RemoveTimedOut => i \notin timedOut
              PROVE  subs'[i].last = store \/ i \in DOMAIN futures' \/ i \in timedOut'
            <4>1. CASE subs[i].last = store
                BY <3>3, <4>1
            <4>2. CASE i \in timedOut /\ subs[i].last # store
                <5>1. timedOut' = timedOut
                    BY <1>3, <3>3, <4>2, NextCases
                       DEF vars, checks, Mutate, CommitBatch, PersistBatch, TriggerChecks,
                           ClearTrigger, RunQuery, CompareResult, StoreResult, MissKeepalive,
                           FindExisting, RunFirstQuery, InsertSubscription, StartListening,
                           Keepalive, Dispose, Vanish, Publish
                <5> QED BY <4>2, <5>1
            <4>3. CASE i \in DOMAIN futures /\ subs[i].last # store
                <5>1. ASSUME CompareResult(i)
                      PROVE  i \in DOMAIN futures'
                    <6>1. futures[i].result = store
                        BY <2>1, <5>1 DEF CompareResult
                    <6> QED BY <3>3, <4>3, <5>1, <6>1 DEF CompareResult
                <5> QED BY <1>1, <1>3, <3>3, <4>3, <5>1, FuturesStep
            <4>4. subs[i].last = store \/ i \in DOMAIN futures \/ i \in timedOut
                BY <2>1, <3>3
            <4> QED BY <4>1, <4>2, <4>3, <4>4
        <3> QED BY <1>1, <3>1, <3>2, <3>3, SubsStep
    <2> QED BY <2>1, <2>2, <2>3, <2>4
<1> QED BY <1>2, <1>3

\* A client that a round owes the result keeps its subscription, or it is owed no more.
LEMMA OwedStays ==
    ASSUME ClientsOK, [Next]_vars, ~StartRound, fresh', NEW c \in owed',
           c \in Clients, client[c].stage = "listening"
    PROVE  \/ client'[c] = client[c]
           \/ \E u \in updates : /\ Publish(u)
                                 /\ client[c].id = u.id
                                 /\ client'[c] = [client[c] EXCEPT !.result = u.result]
<1>1. ASSUME NEW d \in Clients, FindExisting(d) \/ RunFirstQuery(d) \/ InsertSubscription(d) \/ StartListening(d)
      PROVE  client'[c] = client[c]
    <2>1. client[d].stage # "listening"
        BY <1>1, Zenon DEF FindExisting, RunFirstQuery, InsertSubscription, StartListening
    <2>2. \A e \in Clients : e # d => client'[e] = client[e]
        BY <1>1, InsertedId DEF ClientsOK, FindExisting, RunFirstQuery, StartListening
    <2> QED BY <2>1, <2>2
<1>2. ASSUME NEW d \in Clients, Keepalive(d) \/ Dispose(d) \/ Vanish(d)
      PROVE  client'[c] = client[c]
    <2>1. client' = client \/ d \notin owed'
        BY <1>2, Zenon DEF Keepalive, Dispose, Vanish, Leave
    <2>2. \A e \in Clients : e # d => client'[e] = client[e]
        BY <1>2 DEF ClientsOK, Keepalive, Dispose, Vanish, Leave
    <2> QED BY <2>1, <2>2
<1>3. ASSUME NEW u \in updates, Publish(u)
      PROVE  \/ client'[c] = client[c]
             \/ /\ client[c].id = u.id
                /\ client'[c] = [client[c] EXCEPT !.result = u.result]
    BY <1>3 DEF Publish
<1> QED BY <1>1, <1>2, <1>3, NextCases
        DEF vars, Mutate, CommitBatch, PersistBatch, TriggerChecks, StartRound, RemoveTimedOut,
            ClearTrigger, RunQuery, CompareResult, StoreResult, MissKeepalive

\* An update is on its way until it is published.
LEMMA UpdatesStay ==
    ASSUME [Next]_vars
    PROVE  \/ updates \subseteq updates'
           \/ \E u \in updates : Publish(u) /\ updates' = updates \ {u}
<1>1. CASE \E u \in updates : Publish(u)
    BY <1>1 DEF Publish
<1>2. CASE \E i \in Ids : CompareResult(i)
    BY <1>2 DEF CompareResult
<1>3. \/ \E u \in updates : Publish(u)
      \/ \E i \in Ids : CompareResult(i)
      \/ UNCHANGED updates
    BY NextCases
       DEF vars, checks, Mutate, CommitBatch, PersistBatch, TriggerChecks, StartRound,
           RemoveTimedOut, ClearTrigger, RunQuery, StoreResult, MissKeepalive, FindExisting,
           RunFirstQuery, InsertSubscription, StartListening, Keepalive, Dispose, Vanish
<1> QED BY <1>1, <1>2, <1>3

\* The updates that a step adds have the result of the store.
LEMMA NewUpdates ==
    ASSUME OldOnesAreChecked, fresh, [Next]_vars, NEW u \in updates', u \notin updates
    PROVE  u.result = store
<1>1. PICK i \in Ids : CompareResult(i)
    BY NextCases
       DEF vars, checks, Mutate, CommitBatch, PersistBatch, TriggerChecks, StartRound,
           RemoveTimedOut, ClearTrigger, RunQuery, StoreResult, MissKeepalive, FindExisting,
           RunFirstQuery, InsertSubscription, StartListening, Keepalive, Dispose, Vanish, Publish
<1> QED BY <1>1 DEF CompareResult, OldOnesAreChecked

\* A round that begins owes only what it is going to query or to remove.
LEMMA StartRoundPays ==
    ASSUME TypeOK, StartRound
    PROVE  OwedIsPaid'
<1>1. /\ owed' = {c \in Clients : Listening(c) /\ subs[client[c].id].last # store /\ NoOlderUpdate(c)}
      /\ timedOut' = {i \in DOMAIN subs : subs[i].late}
      /\ futures' = [i \in DOMAIN subs \ timedOut' |-> [stage |-> "querying", result |-> NoResult]]
      /\ UNCHANGED <<store, subs, client, updates>>
    BY DEF StartRound, links
<1> SUFFICES ASSUME NEW c \in owed'
             PROVE  /\ client'[c].stage = "listening"
                    /\ NoOlderUpdate(c)'
                    /\ GetsResult(c)'
    BY DEF OwedIsPaid
<1>2. Listening(c) /\ subs[client[c].id].last # store /\ NoOlderUpdate(c)
    BY <1>1
<1>3. NoOlderUpdate(c)'
    BY <1>1, <1>2 DEF NoOlderUpdate
<1>4. CASE client[c].id \in timedOut'
    BY <1>1, <1>2, <1>3, <1>4 DEF Listening, GetsResult
<1>5. CASE client[c].id \notin timedOut'
    <2>1. client[c].id \in DOMAIN futures' /\ futures'[client[c].id].stage = "querying"
        BY <1>1, <1>2, <1>5 DEF Listening, HasSubscription
    <2> QED BY <1>1, <1>2, <1>3, <2>1 DEF Listening, GetsResult
<1> QED BY <1>4, <1>5

\* As long as the subscription is there, what is owed is queried, compared, sent, published.
LEMMA GetsResultNext ==
    ASSUME IInv, [Next]_vars, ~StartRound, fresh', NEW c \in owed', HasSubscription(c)'
    PROVE  GetsResult(c)'
<1>1. SubsOK /\ FuturesOK /\ ClientsOK /\ owed \subseteq Clients /\ OldOnesAreChecked /\ OwedIsPaid
    BY TypeParts DEF IInv, FlagsOK
<1>2. fresh /\ store' = store /\ c \in owed /\ c \in Clients
    BY <1>1, FreshStep
<1>3. client[c].stage = "listening" /\ NoOlderUpdate(c)
    BY <1>1, <1>2 DEF OwedIsPaid
<1> DEFINE i == client[c].id
<1>4. \/ client'[c] = client[c]
      \/ \E u \in updates : Publish(u) /\ i = u.id /\ client'[c] = [client[c] EXCEPT !.result = u.result]
    BY <1>1, <1>2, <1>3, OwedStays
<1>5. client'[c].id = i /\ (client[c].result = store => client'[c].result = store)
    <2>1. client[c] \in ClientState
        BY <1>1, <1>2 DEF ClientsOK
    <2> QED BY <1>3, <1>4, <2>1 DEF NoOlderUpdate, ClientState
<1>6. i \in DOMAIN subs'
    BY <1>5 DEF HasSubscription
<1>7. ASSUME NEW d \in Clients, InsertSubscription(d), i \notin DOMAIN subs
      PROVE  FALSE
    <2>1. PICK j \in Ids :
            /\ client[c].id # j
            /\ subs' = [k \in DOMAIN subs \cup {j} |->
                           IF k = j THEN [last |-> client[d].result, late |-> FALSE] ELSE subs[k]]
        BY <1>2, <1>7, InsertedId
    <2> QED BY <1>6, <1>7, <2>1
<1>8. /\ i \in DOMAIN subs
      /\ StoreResult(i) \/ (subs'[i].last = subs[i].last /\ (RemoveTimedOut => i \notin timedOut))
    BY <1>1, <1>6, <1>7, SubsStep
<1>9. GetsResult(c)
    BY <1>1, <1>2, <1>8 DEF OwedIsPaid, HasSubscription
<1>10. CASE client[c].result = store
    BY <1>2, <1>5, <1>10 DEF GetsResult
<1>11. CASE [id |-> i, result |-> store] \in updates
    <2> DEFINE new == [id |-> i, result |-> store]
    <2>1. CASE Publish(new)
        <3>1. client'[c] = [client[c] EXCEPT !.result = store]
            BY <1>2, <1>3, <2>1 DEF Publish
        <3>2. client[c] \in ClientState
            BY <1>1, <1>2 DEF ClientsOK
        <3> QED BY <1>2, <3>1, <3>2 DEF GetsResult, ClientState
    <2>2. CASE ~Publish(new)
        <3>1. new \in updates'
            BY <1>11, <2>2, UpdatesStay
        <3> QED BY <1>2, <1>5, <3>1 DEF GetsResult
    <2> QED BY <2>1, <2>2
<1>12. CASE i \in timedOut
    <2>1. CASE RemoveTimedOut
        <3>1. ~StoreResult(i)
            BY <2>1 DEF RemoveTimedOut, StoreResult
        <3> QED BY <1>8, <1>12, <2>1, <3>1
    <2>2. CASE ~RemoveTimedOut
        <3>1. timedOut' = timedOut
            BY <2>2, NextCases
               DEF vars, checks, Mutate, CommitBatch, PersistBatch, TriggerChecks, ClearTrigger,
                   RunQuery, CompareResult, StoreResult, MissKeepalive, FindExisting,
                   RunFirstQuery, InsertSubscription, StartListening, Keepalive, Dispose,
                   Vanish, Publish
        <3> QED BY <1>5, <1>12, <3>1 DEF GetsResult
    <2> QED BY <2>1, <2>2
<1>13. CASE /\ i \in DOMAIN futures
            /\ futures[i].stage \in {"querying", "comparing"}
            /\ subs[i].last # store
    <2>1. subs'[i].last # store'
        BY <1>2, <1>8, <1>13 DEF StoreResult
    <2>2. CASE CompareResult(i)
        <3>1. futures[i].result = store
            BY <1>1, <1>2, <2>2 DEF CompareResult, OldOnesAreChecked
        <3>2. [id |-> i, result |-> store] \in updates'
            BY <1>8, <1>13, <2>2, <3>1 DEF CompareResult
        <3> QED BY <1>2, <1>5, <3>2 DEF GetsResult
    <2>3. CASE ~CompareResult(i)
        <3>1. i \in DOMAIN futures' /\ futures'[i].stage \in {"querying", "comparing"}
            <4>1. ~StoreResult(i)
                BY <1>13 DEF StoreResult
            <4>2. ASSUME NEW j \in DOMAIN futures,
                         futures' = [futures EXCEPT ![j] = [stage |-> "comparing", result |-> store]]
                  PROVE  i \in DOMAIN futures' /\ futures'[i].stage \in {"querying", "comparing"}
                BY <1>13, <4>2
            <4>3. ASSUME NEW j \in DOMAIN futures, j # i,
                         \/ futures' = [futures EXCEPT ![j].stage = "storing"]
                         \/ futures' = [k \in DOMAIN futures \ {j} |-> futures[k]]
                  PROVE  i \in DOMAIN futures' /\ futures'[i].stage \in {"querying", "comparing"}
                BY <1>13, <4>3
            <4>4. CASE UNCHANGED futures
                BY <1>13, <4>4
            <4> QED BY <1>1, <2>3, <4>1, <4>2, <4>3, <4>4, FuturesStep
        <3> QED BY <1>5, <2>1, <3>1 DEF GetsResult
    <2> QED BY <2>2, <2>3
<1> QED BY <1>9, <1>10, <1>11, <1>12, <1>13 DEF GetsResult

LEMMA OwedIsPaidNext ==
    ASSUME IInv, [Next]_vars
    PROVE  OwedIsPaid'
<1>1. CASE StartRound
    BY <1>1, StartRoundPays DEF IInv
<1>2. ASSUME ~StartRound, fresh', NEW c \in owed'
      PROVE  client'[c].stage = "listening" /\ NoOlderUpdate(c)'
    <2>1. ClientsOK /\ owed \subseteq Clients /\ OldOnesAreChecked /\ OwedIsPaid
        BY TypeParts DEF IInv, FlagsOK
    <2>2. fresh /\ store' = store /\ c \in owed /\ c \in Clients
        BY <1>2, <2>1, FreshStep
    <2>3. client[c].stage = "listening" /\ NoOlderUpdate(c) /\ client[c] \in ClientState
        BY <2>1, <2>2 DEF OwedIsPaid, ClientsOK
    <2>4. client'[c].stage = "listening" /\ client'[c].id = client[c].id
        BY <1>2, <2>1, <2>2, <2>3, OwedStays DEF ClientState
    <2>5. ASSUME NEW u \in updates', u.id = client[c].id
          PROVE  u.result = store
        BY <2>1, <2>2, <2>3, <2>5, NewUpdates DEF NoOlderUpdate
    <2> QED BY <2>2, <2>4, <2>5 DEF NoOlderUpdate
<1> QED BY <1>1, <1>2, GetsResultNext DEF OwedIsPaid

LEMMA IInvNext == IInv /\ [Next]_vars => IInv'
BY TypeNext, OnlyInRoundNext, ResultsAreThereNext, OldOnesAreCheckedNext, OwedIsPaidNext DEF IInv

-----------------------------------------------------------------------------
(* Theorems *)

\* The tables of the executor and the clients hold what their comments say.
THEOREM TypeCorrect == Spec => []TypeOK
<1>1. IInv => TypeOK
    BY DEF IInv
<1> QED BY <1>1, IInvInit, IInvNext, PTL DEF Spec

\* However many clients share or leave subscriptions, time out and come again, and in
\* whatever order queries, updates and keepalives interleave: a round during which no link
\* changed ends with the result of the store in every subscription, and everyone it owed
\* that result has it or is about to get it, with no older one behind it.
THEOREM RoundsBringUpToDate == Spec => []RoundBringsUpToDate
<1>1. IInv => RoundBringsUpToDate
    BY DEF IInv, OnlyInRound, OldOnesAreChecked, OwedIsPaid, GetsResult, RoundBringsUpToDate
<1> QED BY <1>1, IInvInit, IInvNext, PTL DEF Spec
=============================================================================
