-------------------------- MODULE SubscriptionProxy --------------------------
(* The client's end of one live query (PerspectiveProxy.ts:                    *)
(* QuerySubscriptionProxy): subscribing, the timers that keep the subscription *)
(* alive or start it anew, and dispose().  The executor's end is what            *)
(* QuerySubscriptions describes; here it only knows whether a subscription is   *)
(* alive, and requests to it may fail.                                           *)
EXTENDS Integers

CONSTANTS
    MaxFailures,    \* bound on the requests that fail
    MaxExpired,     \* bound on the subscriptions that expire although they are kept alive
    MaxTimeouts     \* bound on the initialization timeouts

ASSUME ProxyAssumption == MaxFailures \in Nat /\ MaxExpired \in Nat /\ MaxTimeouts \in Nat

VARIABLES
    subscribed,        \* the app has called subscribe()
    disposed,       \* #disposed
    calls,          \* per origin: subscribe() calls that await the executor
    keepalives,     \* keepalive requests that await the executor
    timer,          \* the keepalive timer of #keepaliveTimer will fire
    lostTimers,     \* keepalive timers that will fire and no field refers to any more
    initTimer,      \* the timer of #initTimeoutId will fire
    lostInitTimers, \* likewise
    listening,      \* the subscription whose updates #unsubscribe() ends, 0 for none
    leaked,         \* the subscriptions of listeners that nothing refers to any more
    id,             \* #subscriptionId
    server,         \* the executor's live subscriptions of this query
    gaveUp,         \* a subscribe() has failed
    failures, expired, timeouts     \* counters behind the bounds

clientState == <<subscribed, disposed, calls, keepalives, timer, lostTimers, initTimer,
                 lostInitTimers, listening, leaked, id>>
proxyVars == <<clientState, server, gaveUp, failures, expired, timeouts>>

Origins == {"app", "keepalive", "timeout"}
NoSubscription == 0

ProxyInit ==
    /\ subscribed = FALSE /\ disposed = FALSE /\ gaveUp = FALSE
    /\ calls = [o \in Origins |-> 0]
    /\ keepalives = 0
    /\ timer = FALSE /\ lostTimers = 0
    /\ initTimer = FALSE /\ lostInitTimers = 0
    /\ listening = NoSubscription /\ leaked = {}
    /\ id = NoSubscription
    /\ server = {}
    /\ failures = 0 /\ expired = 0 /\ timeouts = 0

Calling == \E o \in Origins : calls[o] > 0

\* The keepalive loops: a timer or a request each.
Loops == (IF timer THEN 1 ELSE 0) + lostTimers + keepalives

\* mutant: the keepalive loop does not ask whether the proxy was disposed of
Always == TRUE

\* The loop goes on until the proxy is disposed of.
GoesOn == ~disposed

Attended == Loops > 0 \/ Calling

-----------------------------------------------------------------------------

\* subscribe() up to its request: the previous attempt's listener and timers are cleared.
\* It does not look at #disposed.
Subscribe(origin) ==
    /\ calls' = [calls EXCEPT ![origin] = @ + 1]
    /\ listening' = NoSubscription
    /\ initTimer' = FALSE
    /\ timer' = FALSE

StartSubscription ==
    /\ ~subscribed
    /\ subscribed' = TRUE
    /\ Subscribe("app")
    /\ UNCHANGED <<disposed, keepalives, lostTimers, lostInitTimers, leaked, id, server, gaveUp,
                   failures, expired, timeouts>>

\* The executor's answer: a subscription of the same query and user is shared while it lives.
Answered == id' = (IF server = {} THEN id + 1 ELSE id) /\ server' = {id'}

\* mutant: the previous attempt is cleaned up once the new one is answered
ListenThenClean == listening' = (IF listening = NoSubscription THEN id' ELSE NoSubscription) /\ UNCHANGED leaked

\* subscribeToQueryUpdates(): a listener of another call is not ended.
Listen ==
    /\ listening' = id'
    /\ leaked' = IF listening = NoSubscription THEN leaked ELSE leaked \cup {listening}

\* A timer is armed and stored over what the field referred to.
ArmInitTimer ==
    /\ initTimer' = TRUE
    /\ lostInitTimers' = IF initTimer THEN lostInitTimers + 1 ELSE lostInitTimers

ArmTimers(count) ==
    /\ timer' = TRUE
    /\ lostTimers' = lostTimers + (IF timer THEN count ELSE count - 1)

\* The rest of subscribe(), in one turn of the event loop.  It arms a keepalive timer; a
\* keepalive loop that called it then arms another one, unless the proxy was disposed of.
SubscribeAnswered(origin) ==
    /\ calls[origin] > 0
    /\ calls' = [calls EXCEPT ![origin] = @ - 1]
    /\ Answered
    /\ ArmInitTimer
    /\ Listen
    /\ ArmTimers(IF origin = "keepalive" /\ GoesOn THEN 2 ELSE 1)
    /\ UNCHANGED <<subscribed, disposed, keepalives, gaveUp, failures, expired, timeouts>>

Fail == failures < MaxFailures /\ failures' = failures + 1

\* subscribe() throws; neither the keepalive loop nor the timeout tries again.
SubscribeFails(origin) ==
    /\ calls[origin] > 0
    /\ Fail
    /\ calls' = [calls EXCEPT ![origin] = @ - 1]
    /\ gaveUp' = TRUE
    /\ UNCHANGED <<subscribed, disposed, keepalives, timer, lostTimers, initTimer, lostInitTimers,
                   listening, leaked, id, server, expired, timeouts>>

\* An update arrives: the initialization timer is cleared.
UpdateArrives ==
    /\ server \cap ({listening} \cup leaked) # {}
    /\ initTimer
    /\ initTimer' = FALSE
    /\ UNCHANGED <<subscribed, disposed, calls, keepalives, timer, lostTimers, lostInitTimers,
                   listening, leaked, id, server, gaveUp, failures, expired, timeouts>>

\* No update for 30 seconds: subscribe() is called again.  An initialization timer that
\* another subscribe() has replaced without clearing it fires as well.
InitTimeout ==
    /\ timeouts < MaxTimeouts
    /\ timeouts' = timeouts + 1
    /\ \/ initTimer /\ UNCHANGED lostInitTimers
       \/ lostInitTimers > 0 /\ lostInitTimers' = lostInitTimers - 1
    /\ Subscribe("timeout")
    /\ UNCHANGED <<subscribed, disposed, keepalives, lostTimers, leaked, id, server, gaveUp,
                   failures, expired>>

KeepaliveFires ==
    /\ \/ timer /\ timer' = FALSE /\ UNCHANGED lostTimers
       \/ lostTimers > 0 /\ lostTimers' = lostTimers - 1 /\ UNCHANGED timer
    /\ keepalives' = IF GoesOn THEN keepalives + 1 ELSE keepalives
    /\ UNCHANGED <<subscribed, disposed, calls, initTimer, lostInitTimers, listening, leaked, id,
                   server, gaveUp, failures, expired, timeouts>>

\* mutant: the loop is not continued
Stop == UNCHANGED <<timer, lostTimers>>

Rearm == IF GoesOn THEN ArmTimers(1) ELSE UNCHANGED <<timer, lostTimers>>

KeepaliveAnswered ==
    /\ keepalives > 0
    /\ id \in server
    /\ keepalives' = keepalives - 1
    /\ Rearm
    /\ UNCHANGED <<subscribed, disposed, calls, initTimer, lostInitTimers, listening, leaked, id,
                   server, gaveUp, failures, expired, timeouts>>

\* mutant: an error is logged and the loop goes on
KeepaliveErrorLogged ==
    /\ keepalives > 0
    /\ id \notin server
    /\ keepalives' = keepalives - 1
    /\ Rearm
    /\ UNCHANGED <<subscribed, disposed, calls, initTimer, lostInitTimers, listening, leaked, id,
                   server, gaveUp, failures, expired, timeouts>>

\* The executor does not know the subscription any more, or the request fails: the loop
\* subscribes anew.
KeepaliveError ==
    /\ keepalives > 0
    /\ IF id \in server THEN Fail ELSE UNCHANGED failures
    /\ keepalives' = keepalives - 1
    /\ Subscribe("keepalive")
    /\ UNCHANGED <<subscribed, disposed, lostTimers, lostInitTimers, leaked, id, server, gaveUp,
                   expired, timeouts>>

\* dispose(): what the fields refer to is cleared, the executor is told.
Dispose ==
    /\ subscribed /\ ~disposed
    /\ disposed' = TRUE
    /\ timer' = FALSE /\ initTimer' = FALSE /\ listening' = NoSubscription
    /\ \/ server' = {} /\ UNCHANGED failures
       \/ Fail /\ UNCHANGED server
    /\ UNCHANGED <<subscribed, calls, keepalives, lostTimers, lostInitTimers, leaked, id, gaveUp,
                   expired, timeouts>>

\* The executor drops a subscription that nobody keeps alive ...
ExpireUnattended ==
    /\ server # {}
    /\ ~Attended
    /\ server' = {}
    /\ UNCHANGED <<clientState, gaveUp, failures, expired, timeouts>>

\* ... or whose keepalive came too late.
ExpireLate ==
    /\ expired < MaxExpired
    /\ expired' = expired + 1
    /\ server # {}
    /\ server' = {}
    /\ UNCHANGED <<clientState, gaveUp, failures, timeouts>>

ProxyNext ==
    \/ StartSubscription
    \/ \E o \in Origins : SubscribeAnswered(o) \/ SubscribeFails(o)
    \/ UpdateArrives
    \/ InitTimeout
    \/ KeepaliveFires
    \/ KeepaliveAnswered
    \/ KeepaliveError
    \/ Dispose
    \/ ExpireUnattended
    \/ ExpireLate

\* Timers fire and the executor answers in the end; an answer may be an error only as
\* often as the bounds say.  Nothing obliges the app to subscribe or to dispose.
ProxyFairness ==
    /\ \A o \in Origins : WF_proxyVars(SubscribeAnswered(o))
    /\ WF_proxyVars(KeepaliveFires)
    /\ WF_proxyVars(KeepaliveAnswered)
    /\ WF_proxyVars(id \notin server /\ KeepaliveError)
    /\ WF_proxyVars(ExpireUnattended)

ProxySpec == ProxyInit /\ [][ProxyNext]_proxyVars /\ ProxyFairness

-----------------------------------------------------------------------------
(* Properties *)

\* The types of the proxy's fields; the executor has one subscription of it at most.
ProxyTypeOK ==
    /\ subscribed \in BOOLEAN /\ disposed \in BOOLEAN /\ gaveUp \in BOOLEAN
    /\ timer \in BOOLEAN /\ initTimer \in BOOLEAN
    /\ calls \in [Origins -> Nat]
    /\ keepalives \in Nat /\ lostTimers \in Nat /\ lostInitTimers \in Nat
    /\ id \in Nat
    /\ leaked \cup {listening} \subseteq 0..id
    /\ server \subseteq {id}
    /\ failures \in 0..MaxFailures /\ expired \in 0..MaxExpired /\ timeouts \in 0..MaxTimeouts

\* A proxy in use has a keepalive loop, whatever calls of subscribe() by the loop itself
\* and by the initialization timeout run into each other and clear each other's timers;
\* only a subscribe() that failed may end it.
KeepaliveGoesOn == (subscribed /\ ~disposed /\ ~gaveUp) => Attended

\* The subscription that is kept alive is the one updates are listened to, after any
\* number of concurrent attempts to subscribe.
ListensToWhatItKeeps ==
    (subscribed /\ ~disposed /\ ~gaveUp /\ ~Calling) => id \in {listening} \cup leaked

\* A proxy whose subscription expired subscribes again, unless a request failed.
SubscribesAgain == subscribed ~> (id \in server \/ disposed \/ gaveUp)

\* What was disposed of is not kept alive: also when dispose() came while the proxy was
\* subscribing, or the loop was waiting, the executor's subscription ends and stays so.
DisposedIsReleased == disposed ~> [](server = {})
=============================================================================
