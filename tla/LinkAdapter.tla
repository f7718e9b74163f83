----------------------------- MODULE LinkAdapter -----------------------------
(***************************************************************************)
(* linksAdapter.ts, the JavaScript half of p-diff-sync, on top of the zome *)
(* (PerspectiveDiffSync).  Each agent's executor calls sync() every few    *)
(* seconds: broadcast the current revision, then gossip(): decide whether  *)
(* to be the scribe, and pull every revision its peers are known to be at. *)
(* Signals from the zome update the peers map at any moment, because       *)
(* handleHolochainSignal takes no lock.                                    *)
(***************************************************************************)
EXTENDS PerspectiveDiffSync

CONSTANTS MaxCommits,  \* bound: entries that are commits
          MaxStale,    \* bound: broadcasts delivered after their author moved on
          MaxLost,     \* bound: peers dropped because they were silent for 10 s
          MaxRestarts  \* bound: restarts of an executor

\* The agents are their DIDs, as numbers in the lexical order.
ASSUME AgentsAssumption == Agents \subseteq Nat \ {0} /\ IsFiniteSet(Agents)
ASSUME BoundsAssumption ==
    {MaxCommits, MaxStale, MaxLost, MaxRestarts} \subseteq Nat

VARIABLES
    peers,      \* peers[a][b]: the revision of peer b as a last heard it, 0: not a peer
    myRevision, \* myCurrentRevision, a's cache of its own revision, 0: null
    syncState,  \* what a's adapter last reported to the executor
    phase,      \* where a's sync() is: "idle", "synced" (gossip() still to come), "pulling"
    isScribe,   \* is_scribe, decided when a's gossip() started
    revisions,  \* the peers' revisions a's gossip() still has to pull
    stale, lost, restarts \* counters behind the bounds

adapter == <<peers, myRevision, syncState, phase, isScribe, revisions>>
counters == <<stale, lost, restarts>>
adapterVars == <<vars, adapter, counters>>

AdapterInit ==
    /\ Init
    /\ peers = [a \in Agents |-> [b \in Agents |-> NoRevision]]
    /\ myRevision = [a \in Agents |-> NoRevision]
    /\ syncState = [a \in Agents |-> "unknown"]
    /\ phase = [a \in Agents |-> "idle"]
    /\ isScribe = [a \in Agents |-> FALSE]
    /\ revisions = [a \in Agents |-> {}]
    /\ stale = 0
    /\ lost = 0
    /\ restarts = 0

\* generalMutex is held by gossip() from deciding the scribe to the last pull.
MutexFree(a) == phase[a] # "pulling"

\* Peers whose currentRevision is set.
KnownPeers(known) == {b \in Agents : known[b] # NoRevision}

ScribeAnyway(a, known) == TRUE \* mutant: everybody is a scribe
OnlyWhenAlone(a, known) == KnownPeers(known) = {} \* mutant: sorts before adding me

\* is_scribe: this agent comes first among the peers it knows and itself.
FirstOfPeers(a, known) == \A b \in KnownPeers(known) : a <= b

\* checkSyncState(): do more peers agree with my revision, me included, than not?
\* Peers are counted one by one: the Set of revisions holds distinct objects.
\* With a null revision nothing counts and nothing is reported.
CheckSyncState(a, known, mine) ==
    LET different == {b \in KnownPeers(known) : known[b] # mine}
        same      == KnownPeers(known) \ different
    IN  IF mine = NoRevision THEN syncState[a]
        ELSE IF Cardinality(same) + 1 <= Cardinality(different) THEN "notSynced" ELSE "synced"

-----------------------------------------------------------------------------

\* commit(): under the mutex; the zome call is retried until it succeeds.  A commit
\* that fails five times leaves nothing behind here.
CommitLinks(a) ==
    /\ MutexFree(a)
    /\ Cardinality({r \in DOMAIN entries : entries[r].diff}) < MaxCommits
    /\ \E chunked \in BOOLEAN : Commit(a, chunked)
    /\ myRevision' = [myRevision EXCEPT ![a] = current'[a]]
    /\ UNCHANGED <<peers, syncState, phase, isScribe, revisions, counters>>

\* mutant: the cache is left to gossip() to refresh
SyncWithoutRefresh(a) ==
    /\ phase[a] = "idle"
    /\ BroadcastCurrent(a) \/ (~CurrentRetrievable(a) /\ UNCHANGED vars)
    /\ phase' = [phase EXCEPT ![a] = "synced"]
    /\ UNCHANGED <<peers, myRevision, syncState, isScribe, revisions, counters>>

\* The first half of sync(): broadcast and refresh the cache.  An error, or no
\* revision to broadcast, does not keep gossip() from running.
Sync(a) ==
    /\ phase[a] = "idle"
    /\ \/ /\ BroadcastCurrent(a)
          /\ myRevision' = [myRevision EXCEPT ![a] = current[a]]
       \/ /\ ~CurrentRetrievable(a)
          /\ UNCHANGED <<vars, myRevision>>
    /\ phase' = [phase EXCEPT ![a] = "synced"]
    /\ UNCHANGED <<peers, syncState, isScribe, revisions, counters>>

\* gossip() up to its loop: drop the silent peers, decide who is the scribe, report
\* the sync state and collect the revisions to pull.
StartGossip(a, silent) ==
    LET known == [b \in Agents |-> IF b \in silent THEN NoRevision ELSE peers[a][b]]
    IN  /\ phase[a] = "synced"
        /\ silent \subseteq KnownPeers(peers[a])
        /\ lost + Cardinality(silent) <= MaxLost
        /\ lost' = lost + Cardinality(silent)
        /\ peers' = [peers EXCEPT ![a] = known]
        /\ isScribe' = [isScribe EXCEPT ![a] = FirstOfPeers(a, known)]
        /\ revisions' = [revisions EXCEPT ![a] = {known[b] : b \in KnownPeers(known)}]
        /\ syncState' = [syncState EXCEPT ![a] = CheckSyncState(a, known, myRevision[a])]
        /\ phase' = [phase EXCEPT ![a] = "pulling"]
        /\ UNCHANGED <<vars, myRevision, stale, restarts>>

\* One round of the loop: skip what the cache says we are at.
SkipRevision(a, hash) ==
    /\ hash = myRevision[a]
    /\ revisions' = [revisions EXCEPT ![a] = @ \ {hash}]
    /\ UNCHANGED <<vars, peers, myRevision, syncState, phase, isScribe, counters>>

\* mutant: the cache takes the revision that was pulled for our own
PullCachingHash(a, hash) ==
    /\ hash # myRevision[a]
    /\ Pull(a, hash, isScribe[a])
    /\ myRevision' = [myRevision EXCEPT ![a] = hash]
    /\ revisions' = [revisions EXCEPT ![a] = @ \ {hash}]
    /\ UNCHANGED <<peers, syncState, phase, isScribe, counters>>

\* The cache and the reported state stay as they are until the next sync(): gossip()
\* takes the revision pull() returns only if it is a Buffer, and the executor hands
\* it over as a plain Uint8Array.
PullRevision(a, hash) ==
    /\ hash # myRevision[a]
    /\ Pull(a, hash, isScribe[a])
    /\ revisions' = [revisions EXCEPT ![a] = @ \ {hash}]
    /\ UNCHANGED <<peers, myRevision, syncState, phase, isScribe, counters>>

\* An entry on the way is not retrievable: the exception ends the whole loop.
PullFails(a, hash) ==
    /\ hash # myRevision[a]
    /\ current[a] # hash
    /\ ~(hash \in held[a] /\ (current[a] # NoRevision => CurrentRetrievable(a)))
    /\ revisions' = [revisions EXCEPT ![a] = {}]
    /\ UNCHANGED <<vars, peers, myRevision, syncState, phase, isScribe, counters>>

GossipRound(a) ==
    /\ phase[a] = "pulling"
    /\ \E hash \in revisions[a] : SkipRevision(a, hash) \/ PullRevision(a, hash) \/ PullFails(a, hash)

EndGossip(a) ==
    /\ phase[a] = "pulling"
    /\ revisions[a] = {}
    /\ phase' = [phase EXCEPT ![a] = "idle"]
    /\ UNCHANGED <<vars, peers, myRevision, syncState, isScribe, revisions, counters>>

\* mutant: only a broadcast that fast-forwards the zome is remembered
RecordsFastForwards(a, b, r) ==
    peers' = IF IsChildOfCurrent(a, r) THEN [peers EXCEPT ![a][b] = r] ELSE peers

\* this.peers.set(): the adapter gets the signal unless the zome failed on it.
RecordPeer(a, b, r) ==
    IF IsChildOfCurrent(a, r) /\ ~LoadsDiff(a, r)
    THEN UNCHANGED peers
    ELSE peers' = [peers EXCEPT ![a][b] = r]

\* A broadcast of b arrives: the zome handles it and the adapter records where b is.
\* Neither waits for the mutex.
HandleSignal(a, b, r) ==
    /\ HandleBroadcast(a, b, r)
    /\ RecordPeer(a, b, r)
    /\ stale' = stale + (IF r = current[b] THEN 0 ELSE 1)
    /\ stale' <= MaxStale
    /\ UNCHANGED <<myRevision, syncState, phase, isScribe, revisions, lost, restarts>>

\* mutant: the zome's revision is kept in memory as well
RestartWithoutRevision(a) ==
    /\ restarts < MaxRestarts
    /\ restarts' = restarts + 1
    /\ current' = [current EXCEPT ![a] = NoRevision]
    /\ phase' = [phase EXCEPT ![a] = "idle"]
    /\ UNCHANGED <<entries, held, chunks, sent, signals, peers, myRevision, syncState,
                   isScribe, revisions, stale, lost>>

\* The zome's state is on disk, the adapter's is not.
Restart(a) ==
    /\ restarts < MaxRestarts
    /\ restarts' = restarts + 1
    /\ peers' = [peers EXCEPT ![a] = [b \in Agents |-> NoRevision]]
    /\ myRevision' = [myRevision EXCEPT ![a] = NoRevision]
    /\ syncState' = [syncState EXCEPT ![a] = "unknown"]
    /\ phase' = [phase EXCEPT ![a] = "idle"]
    /\ isScribe' = [isScribe EXCEPT ![a] = FALSE]
    /\ revisions' = [revisions EXCEPT ![a] = {}]
    /\ UNCHANGED <<vars, stale, lost>>

Arrive(a) ==
    /\ \E r \in DOMAIN entries : FetchChunks(a, r) \/ Integrate(a, r)
    /\ UNCHANGED <<adapter, counters>>

-----------------------------------------------------------------------------

AdapterNext ==
    \E a \in Agents :
        \/ CommitLinks(a)
        \/ Sync(a)
        \/ \E silent \in SUBSET Agents : StartGossip(a, silent)
        \/ GossipRound(a)
        \/ EndGossip(a)
        \/ \E m \in sent : HandleSignal(a, m[1], m[2])
        \/ Restart(a)
        \/ Arrive(a)

\* nh_sync_loop calls sync() forever and sync() runs to its end; the DHT eventually
\* delivers every entry; a revision its author stays at is broadcast again and
\* again, so one of the broadcasts arrives.  Nothing obliges anyone to commit,
\* a stale signal to arrive, a peer to fall silent or an executor to restart.
Fairness ==
    \A a \in Agents :
        /\ WF_adapterVars(Sync(a))
        /\ WF_adapterVars(\E silent \in SUBSET Agents : StartGossip(a, silent))
        /\ WF_adapterVars(GossipRound(a))
        /\ WF_adapterVars(EndGossip(a))
        /\ WF_adapterVars(Arrive(a))
        /\ \A b \in Agents : WF_adapterVars(peers[a][b] # current[b] /\ HandleSignal(a, b, current[b]))

AdapterSpec == AdapterInit /\ [][AdapterNext]_adapterVars /\ Fairness

-----------------------------------------------------------------------------
(* Properties *)

\* The adapter's part of the state.
AdapterTypeOK ==
    /\ peers \in [Agents -> [Agents -> 0..Len(entries)]]
    /\ myRevision \in [Agents -> 0..Len(entries)]
    /\ syncState \in [Agents -> {"unknown", "synced", "notSynced"}]
    /\ phase \in [Agents -> {"idle", "synced", "pulling"}]
    /\ isScribe \in [Agents -> BOOLEAN]
    /\ revisions \in [Agents -> SUBSET (1..Len(entries))]
    /\ stale \in 0..MaxStale /\ lost \in 0..MaxLost /\ restarts \in 0..MaxRestarts

\* The cached revision may lag behind the zome's, which moves on signals without
\* telling the adapter, but it is always in its history: a peer's revision that
\* gossip() skips because of the cache has nothing to pull.
SkippingLosesNothing ==
    \A a \in Agents : myRevision[a] # NoRevision =>
        myRevision[a] \in AllAncestors(current[a])

\* gossip() of b's revision leaves a where it is, although a knows of it: the cache skips
\* it, or pull() returns early.
NothingToGossip(a, b) ==
    /\ peers[a][b] = current[b]
    /\ \/ current[b] = myRevision[a]
       \/ NothingToPull(a, current[b], FirstOfPeers(a, peers[a]))

\* No fork gets stuck: when nobody has anything to gossip, all are at one revision.  Among
\* agents that know of each other exactly one is the scribe, so no fork waits for somebody
\* else to merge it, and what a stale cache skips is in the history already.
NoForkIsStuck ==
    (\A a, b \in Agents : a # b /\ current[b] # NoRevision => NothingToGossip(a, b))
        => \A a, b \in Agents : current[a] = current[b]

\* Once commits cease, all agents reach one and the same revision and stay there: some
\* agent is the scribe for every fork, and two agents that both took themselves for the
\* scribe and merged one fork twice do not chase each other's merges for ever.
Convergence == <>[](\A a, b \in Agents : current[a] = current[b])

\* Every diff reaches everyone: through a signal, a fast-forward or a merge, also
\* when signals were lost, peers fell silent or an executor restarted on the way.
EveryDiffArrives ==
    \A r \in 1..MaxEntries :
        (r \in DOMAIN entries /\ entries[r].diff)
            ~> (\A a \in Agents : r \in AllAncestors(current[a]))

\* A neighbourhood with commits ends up reported as synced by every agent.
EventuallySynced ==
    (entries # <<>>) ~> [](\A a \in Agents : syncState[a] = "synced")

\* The adapter calls the zome as the zome expects to be called.
UsesZome == Spec
=============================================================================
