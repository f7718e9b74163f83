-------------------------- MODULE Neighbourhood_proofs --------------------------
(***************************************************************************)
(* What runs on the zome, for every set of agents, links and every bound.  *)
(*                                                                         *)
(* The adapters call the zome as it may be called, so the zome's theorems  *)
(* hold under them; gossip() loses nothing by skipping what its cache says *)
(* it is at; and no fork is left that nobody is to merge.                  *)
(*                                                                         *)
(* The stores: their composition with the zome runs the zome, too, and no  *)
(* store misses a link.                                                    *)
(*                                                                         *)
(* A commit() that other calls overlap looks like one step.                *)
(***************************************************************************)
EXTENDS LinkAdapter, SharedLinks, CommitCall, PerspectiveDiffSync_proofs, FiniteSetTheorems

-----------------------------------------------------------------------------
(* The zome under the adapters *)

Broadcast == {m[2] : m \in sent}

\* What an adapter knows of its peers, and what gossip() pulls, was broadcast.
KnownWereBroadcast ==
    /\ peers \in [Agents -> [Agents -> Broadcast \cup {NoRevision}]]
    /\ revisions \in [Agents -> SUBSET Broadcast]

LEMMA AdapterStepIsZomeStep ==
    ASSUME TypeOK, KnownWereBroadcast, [AdapterNext]_adapterVars
    PROVE  [Next]_vars
<1>1. ASSUME NEW a \in Agents, CommitLinks(a) \/ Sync(a)
      PROVE  [Next]_vars
    BY <1>1 DEF CommitLinks, Sync, Next
<1>2. ASSUME NEW a \in Agents, GossipRound(a)
      PROVE  [Next]_vars
    <2>1. CASE \E hash \in revisions[a] : PullRevision(a, hash)
        <3>1. PICK hash \in Broadcast : PullRevision(a, hash)
            BY <2>1 DEF KnownWereBroadcast
        <3>2. PICK m \in sent : Pull(a, m[2], isScribe[a])
            BY <3>1 DEF PullRevision, Broadcast
        <3>3. \E is_scribe \in BOOLEAN : Pull(a, m[2], is_scribe)
            BY <3>2 DEF Pull, PullNothing, NothingToPull
        <3> QED BY <3>3 DEF Next
    <2>2. CASE \E hash \in revisions[a] : SkipRevision(a, hash) \/ PullFails(a, hash)
        BY <2>2 DEF SkipRevision, PullFails
    <2> QED BY <1>2, <2>1, <2>2 DEF GossipRound
<1>3. ASSUME NEW a \in Agents, NEW m \in sent, HandleSignal(a, m[1], m[2])
      PROVE  [Next]_vars
    BY <1>3 DEF HandleSignal, Next
<1>4. ASSUME NEW a \in Agents, Arrive(a)
      PROVE  [Next]_vars
    <2>1. DOMAIN entries = Revisions
        BY DEF TypeOK, Revisions
    <2> QED BY <1>4, <2>1 DEF Arrive, Next
<1> QED BY <1>1, <1>2, <1>3, <1>4
        DEF AdapterNext, adapterVars, StartGossip, EndGossip, Restart

LEMMA ZomeGrows ==
    ASSUME TypeOK, [Next]_vars
    PROVE  /\ Len(entries) \in Nat /\ Len(entries') \in Nat /\ Len(entries) <= Len(entries')
           /\ Broadcast \subseteq Broadcast' /\ Broadcast' \subseteq 1..Len(entries')
<1>1. Len(entries) \in Nat /\ Len(entries') \in Nat
    BY TypeNext DEF TypeOK
<1>2. Broadcast' \subseteq 1..Len(entries')
    BY TypeNext DEF TypeOK, Broadcast, Revisions
<1>3. \/ entries' = entries
      \/ \E e : entries' = Append(entries, e)
    BY NextCases, ZenonT(30) DEF Commit, PullMerge, CreateAndMoveTo, BroadcastCurrent, FastForwardSignal,
                     PullInitial, PullFastForward, FetchChunks, Integrate, vars
<1>4. sent \subseteq sent'
    BY NextCases DEF Commit, PullMerge, BroadcastCurrent, FastForwardSignal,
                     PullInitial, PullFastForward, FetchChunks, Integrate, vars
<1>5. Len(entries) <= Len(entries')
    BY <1>1, <1>3 DEF TypeOK
<1> QED BY <1>1, <1>2, <1>4, <1>5 DEF Broadcast

LEMMA KnownInit == AdapterInit => KnownWereBroadcast
BY DEF AdapterInit, KnownWereBroadcast

LEMMA KnownNext ==
    ASSUME TypeOK, KnownWereBroadcast, [AdapterNext]_adapterVars
    PROVE  KnownWereBroadcast'
<1>1. Broadcast \subseteq Broadcast'
    BY AdapterStepIsZomeStep, ZomeGrows
<1>2. CASE UNCHANGED <<peers, revisions>>
    BY <1>1, <1>2 DEF KnownWereBroadcast
<1>3. ASSUME NEW a \in Agents, NEW silent \in SUBSET Agents, StartGossip(a, silent)
      PROVE  KnownWereBroadcast'
    <2> DEFINE known == [b \in Agents |-> IF b \in silent THEN NoRevision ELSE peers[a][b]]
    <2>1. known \in [Agents -> Broadcast \cup {NoRevision}]
        BY DEF KnownWereBroadcast
    <2>2. {known[b] : b \in KnownPeers(known)} \in SUBSET Broadcast
        BY <2>1 DEF KnownPeers
    <2>3. /\ peers' = [peers EXCEPT ![a] = known]
          /\ revisions' = [revisions EXCEPT ![a] = {known[b] : b \in KnownPeers(known)}]
        BY <1>3 DEF StartGossip
    <2> HIDE DEF known
    <2> QED BY <1>1, <2>1, <2>2, <2>3 DEF KnownWereBroadcast
<1>4. ASSUME NEW a \in Agents, GossipRound(a)
      PROVE  KnownWereBroadcast'
    <2>1. /\ peers' = peers
          /\ \E hash : revisions' = [revisions EXCEPT ![a] = @ \ {hash}] \/ revisions' = [revisions EXCEPT ![a] = {}]
        BY <1>4 DEF GossipRound, SkipRevision, PullRevision, PullFails
    <2> QED BY <1>1, <2>1 DEF KnownWereBroadcast
<1>5. ASSUME NEW a \in Agents, NEW m \in sent, HandleSignal(a, m[1], m[2])
      PROVE  KnownWereBroadcast'
    <2>1. m[1] \in Agents /\ m[2] \in Broadcast
        BY SentRevision DEF Broadcast
    <2>2. revisions' = revisions /\ (peers' = peers \/ peers' = [peers EXCEPT ![a][m[1]] = m[2]])
        BY <1>5 DEF HandleSignal, RecordPeer
    <2> QED BY <1>1, <2>1, <2>2 DEF KnownWereBroadcast
<1>6. ASSUME NEW a \in Agents, Restart(a)
      PROVE  KnownWereBroadcast'
    BY <1>1, <1>6 DEF Restart, KnownWereBroadcast
<1> QED BY <1>2, <1>3, <1>4, <1>5, <1>6
        DEF AdapterNext, adapterVars, adapter, CommitLinks, Sync, EndGossip, Arrive

LEMMA AdapterRunsZome ==
    /\ AdapterInit => Init /\ TypeOK /\ KnownWereBroadcast
    /\ TypeOK /\ KnownWereBroadcast /\ [AdapterNext]_adapterVars
         => (TypeOK /\ KnownWereBroadcast)' /\ [Next]_vars
BY TypeInit, TypeNext, KnownInit, KnownNext, AdapterStepIsZomeStep DEF AdapterInit

\* The adapters only ever pull revisions that were broadcast, and whatever they do is a
\* behaviour of the zome: all that holds of PerspectiveDiffSync holds under them.
THEOREM AdaptersUseZome == AdapterSpec => UsesZome
BY AdapterRunsZome, PTL DEF AdapterSpec, UsesZome, Spec

\* Seen from outside, members that sync and gossip, whose signals are lost or late and
\* whose executors restart, are replicas that add diffs and join versions, and each has
\* been told the diffs of its history, no diff twice.
THEOREM AdaptersImplementCRDT ==
    AdapterSpec => ImplementsCRDT /\ [](HistoryDelivered /\ NoDiffTwice)
BY AdaptersUseZome, Refinement, DeliveredExactlyOnce, PTL DEF UsesZome

-----------------------------------------------------------------------------
(* The adapters' own state *)

AdapterInv == TypeOK /\ KnownWereBroadcast /\ AdapterTypeOK /\ SkippingLosesNothing

LEMMA Bounds ==
    /\ MaxStale \in Nat /\ MaxLost \in Nat /\ MaxRestarts \in Nat
    /\ \A S \in SUBSET Agents : Cardinality(S) \in Nat
BY BoundsAssumption, AgentsAssumption, FS_Subset, FS_CardinalityType

LEMMA AdapterInvInit == AdapterInit => AdapterInv
<1> SUFFICES ASSUME AdapterInit PROVE AdapterInv
    OBVIOUS
<1>1. Len(entries) = 0
    BY DEF AdapterInit, Init
<1>2. AdapterTypeOK
    BY <1>1, Bounds DEF AdapterInit, AdapterTypeOK, NoRevision
<1>3. SkippingLosesNothing
    BY DEF AdapterInit, SkippingLosesNothing
<1> QED BY <1>2, <1>3, AdapterRunsZome DEF AdapterInv

\* What a step does to the cache of an adapter: it takes the zome's revision or forgets.
LEMMA CacheStep ==
    ASSUME [AdapterNext]_adapterVars
    PROVE  \/ myRevision' = myRevision
           \/ \E b \in Agents : \/ myRevision' = [myRevision EXCEPT ![b] = current'[b]]
                               \/ myRevision' = [myRevision EXCEPT ![b] = NoRevision]
<1>1. \A b \in Agents : CommitLinks(b) \/ Sync(b) =>
        \/ myRevision' = myRevision
        \/ myRevision' = [myRevision EXCEPT ![b] = current'[b]]
    BY DEF CommitLinks, Sync, BroadcastCurrent
<1>2. \A b \in Agents : Restart(b) => myRevision' = [myRevision EXCEPT ![b] = NoRevision]
    BY DEF Restart
<1>3. \/ \E b \in Agents : CommitLinks(b) \/ Sync(b) \/ Restart(b)
      \/ myRevision' = myRevision
    BY DEF AdapterNext, adapterVars, adapter, StartGossip, GossipRound, SkipRevision, PullRevision,
           PullFails, EndGossip, HandleSignal, Arrive
<1> QED BY <1>1, <1>2, <1>3

\* The peers' revisions are typed by KnownWereBroadcast, the rest is set to constants or to
\* the zome's own revision.
LEMMA AdapterTypeNext ==
    ASSUME AdapterInv, [AdapterNext]_adapterVars
    PROVE  AdapterTypeOK'
<1> USE Bounds
<1> DEFINE n == Len(entries)
<1>1. TypeOK /\ AdapterTypeOK /\ TypeOK' /\ KnownWereBroadcast' /\ [Next]_vars
    BY AdapterRunsZome DEF AdapterInv
<1>2. /\ n \in Nat /\ n' \in Nat /\ n <= n' /\ Broadcast' \subseteq 1..n'
    BY <1>1, ZomeGrows
<1>3. peers' \in [Agents -> [Agents -> 0..n']] /\ revisions' \in [Agents -> SUBSET (1..n')]
    <2>1. Broadcast' \cup {NoRevision} \subseteq 0..n'
        BY <1>2 DEF NoRevision
    <2>2. /\ peers' \in [Agents -> [Agents -> Broadcast' \cup {NoRevision}]]
          /\ revisions' \in [Agents -> SUBSET (Broadcast')]
        BY <1>1 DEF KnownWereBroadcast
    <2> QED BY <1>2, <2>1, <2>2
<1>4. myRevision \in [Agents -> 0..n'] /\ current \in [Agents -> 0..n'] /\ current' \in [Agents -> 0..n']
    BY <1>1, <1>2 DEF AdapterTypeOK, TypeOK, Revisions, NoRevision
<1>5. myRevision' \in [Agents -> 0..n']
    BY <1>4, <1>2, CacheStep DEF NoRevision
<1>6. /\ phase' \in [Agents -> {"idle", "synced", "pulling"}]
      /\ isScribe' \in [Agents -> BOOLEAN]
    <2> USE <1>1 DEF AdapterTypeOK, AdapterNext, adapterVars, adapter, CommitLinks, Sync, StartGossip,
                     GossipRound, SkipRevision, PullRevision, PullFails, EndGossip, HandleSignal,
                     Restart, Arrive, FirstOfPeers
    <2>1. phase' \in [Agents -> {"idle", "synced", "pulling"}]
        BY ZenonT(60)
    <2>2. isScribe' \in [Agents -> BOOLEAN]
        BY ZenonT(60)
    <2> QED BY <2>1, <2>2
<1>7. syncState' \in [Agents -> {"unknown", "synced", "notSynced"}]
    <2>1. \A a \in Agents : \A known, mine :
            CheckSyncState(a, known, mine) \in {"unknown", "synced", "notSynced"}
        BY <1>1 DEF CheckSyncState, AdapterTypeOK
    <2>2. \/ syncState' = syncState
          \/ \E a \in Agents, state \in {"unknown", "synced", "notSynced"} :
                syncState' = [syncState EXCEPT ![a] = state]
        <3>1. \A a \in Agents : \A silent \in SUBSET Agents : StartGossip(a, silent) =>
                \E state \in {"unknown", "synced", "notSynced"} :
                    syncState' = [syncState EXCEPT ![a] = state]
            <4> SUFFICES ASSUME NEW a \in Agents, NEW silent \in SUBSET Agents
                         PROVE  StartGossip(a, silent) =>
                                    \E state \in {"unknown", "synced", "notSynced"} :
                                        syncState' = [syncState EXCEPT ![a] = state]
                OBVIOUS
            <4> DEFINE known == [b \in Agents |-> IF b \in silent THEN NoRevision ELSE peers[a][b]]
                       state == CheckSyncState(a, known, myRevision[a])
            <4>1. state \in {"unknown", "synced", "notSynced"}
                BY <2>1
            <4>2. StartGossip(a, silent) => syncState' = [syncState EXCEPT ![a] = state]
                BY DEF StartGossip
            <4> QED BY <4>1, <4>2
        <3>2. \A a \in Agents : Restart(a) => syncState' = [syncState EXCEPT ![a] = "unknown"]
            BY DEF Restart
        <3>3. \/ \E a \in Agents : Restart(a) \/ \E silent \in SUBSET Agents : StartGossip(a, silent)
              \/ syncState' = syncState
            BY DEF AdapterNext, adapterVars, adapter, CommitLinks, Sync, GossipRound, SkipRevision,
                   PullRevision, PullFails, EndGossip, HandleSignal, Arrive
        <3> QED BY <3>1, <3>2, <3>3
    <2>3. syncState \in [Agents -> {"unknown", "synced", "notSynced"}]
        BY <1>1 DEF AdapterTypeOK
    <2> QED BY <2>2, <2>3
<1>8. stale' \in 0..MaxStale /\ lost' \in 0..MaxLost /\ restarts' \in 0..MaxRestarts
    <2>1. stale \in 0..MaxStale /\ lost \in 0..MaxLost /\ restarts \in 0..MaxRestarts
        BY <1>1 DEF AdapterTypeOK
    <2>2. \A a \in Agents : \A silent \in SUBSET Agents : StartGossip(a, silent) =>
            lost' \in 0..MaxLost /\ UNCHANGED <<stale, restarts>>
        BY <2>1 DEF StartGossip
    <2>3. \A a, b, r : HandleSignal(a, b, r) =>
            stale' \in 0..MaxStale /\ UNCHANGED <<lost, restarts>>
        BY <2>1 DEF HandleSignal
    <2>4. \A a \in Agents : Restart(a) => restarts' \in 0..MaxRestarts /\ UNCHANGED <<stale, lost>>
        BY <2>1 DEF Restart
    <2>5. \/ \E a \in Agents : \/ Restart(a)
                             \/ \E silent \in SUBSET Agents : StartGossip(a, silent)
                             \/ \E m \in sent : HandleSignal(a, m[1], m[2])
          \/ UNCHANGED <<stale, lost, restarts>>
        BY DEF AdapterNext, adapterVars, counters, CommitLinks, Sync, GossipRound, SkipRevision,
               PullRevision, PullFails, EndGossip, Arrive
    <2> QED BY <2>1, <2>2, <2>3, <2>4, <2>5
<1> QED BY <1>3, <1>5, <1>6, <1>7, <1>8 DEF AdapterTypeOK

\* The cache is set to the zome's revision of that moment, and revisions never rewind.
LEMMA SkippingNext ==
    ASSUME AdapterInv, [AdapterNext]_adapterVars
    PROVE  SkippingLosesNothing'
<1>1. TypeOK /\ AdapterTypeOK /\ SkippingLosesNothing /\ TypeOK' /\ [Next]_vars
    BY AdapterRunsZome DEF AdapterInv
<1>2. \A a \in Agents : AllAncestors(current[a]) \subseteq AllAncestors(current[a])'
    BY <1>1, StepNeverRewinds DEF vars, AllAncestors
<1> SUFFICES ASSUME NEW a \in Agents, myRevision'[a] # NoRevision
             PROVE  myRevision'[a] \in AllAncestors(current[a])'
    BY DEF SkippingLosesNothing
<1>3. CASE myRevision'[a] = myRevision[a]
    BY <1>1, <1>2, <1>3 DEF SkippingLosesNothing
<1>4. CASE myRevision'[a] = current'[a]
    <2>1. current'[a] \in Nat \ {0}
        BY <1>1, <1>4 DEF TypeOK, Revisions, NoRevision
    <2> QED BY <1>4, <2>1, AncestorsReflexive DEF AllAncestors
<1>5. myRevision'[a] \in {myRevision[a], current'[a], NoRevision}
    BY <1>1, CacheStep DEF AdapterTypeOK
<1> QED BY <1>3, <1>4, <1>5

LEMMA AdapterInvNext == AdapterInv /\ [AdapterNext]_adapterVars => AdapterInv'
BY AdapterRunsZome, AdapterTypeNext, SkippingNext DEF AdapterInv

\* Of two revisions that are in each other's history neither is older.
LEMMA SameHistorySameRevision ==
    ASSUME NEW r \in Nat, NEW q \in Nat, r \in AllAncestors(q), q \in AllAncestors(r)
    PROVE  r = q
<1>1. AllAncestors(q) \subseteq 1..q /\ AllAncestors(r) \subseteq 1..r
    BY AncestorsBounded DEF AllAncestors
<1> QED BY <1>1

\* An agent that has nothing to gossip with another has its revision in the history, unless
\* they forked and another agent is the scribe; and then it has a revision itself.
LEMMA NothingToGossipFacts ==
    ASSUME AdapterInv, NEW a \in Agents, NEW b \in Agents, current[b] # NoRevision,
           NothingToGossip(a, b)
    PROVE  /\ current[a] # NoRevision
           /\ \/ current[b] \in AllAncestors(current[a])
              \/ ~FirstOfPeers(a, peers[a]) /\ current[a] \notin AllAncestors(current[b])
<1>1. current[a] \in Nat /\ current[b] \in Nat \ {0}
    BY DEF AdapterInv, TypeOK, Revisions, NoRevision
<1>2. CASE current[a] = current[b]
    BY <1>1, <1>2, AncestorsReflexive DEF AllAncestors, NoRevision
<1>3. AllAncestors(NoRevision) = {}
    BY NoRevisionNoAncestors DEF AllAncestors, NoRevision
<1>4. CASE current[b] \in AllAncestors(current[a])
    BY <1>3, <1>4
<1>5. CASE current[b] = myRevision[a]
    BY <1>4, <1>5 DEF AdapterInv, SkippingLosesNothing
<1>6. CASE ~FirstOfPeers(a, peers[a]) /\ Forked(a, current[b])
    BY <1>6 DEF Forked, FastForwardPossible
<1> QED BY <1>2, <1>4, <1>5, <1>6 DEF NothingToGossip, NothingToPull, AheadOf

\* The least of the agents is the scribe, so everyone's revision is in its history; and
\* nobody is forked from it, so everyone has its revision in his history, too.
LEMMA NoForkStuck == AdapterInv => NoForkIsStuck
<1> SUFFICES ASSUME AdapterInv,
                    \A a, b \in Agents : a # b /\ current[b] # NoRevision => NothingToGossip(a, b),
                    NEW c \in Agents, current[c] # NoRevision
             PROVE  \A a, b \in Agents : current[a] = current[b]
    BY DEF NoForkIsStuck
<1>1. \A a \in Agents : current[a] # NoRevision
    BY NothingToGossipFacts
<1>2. Agents \in SUBSET Nat
    BY AgentsAssumption
<1>3. PICK m \in Agents : \A a \in Agents : m <= a
    BY <1>2, LeastNat
<1>4. FirstOfPeers(m, peers[m])
    BY <1>3 DEF FirstOfPeers, KnownPeers
<1>5. ASSUME NEW a \in Agents, a # m
      PROVE  current[a] = current[m]
    <2>1. current[a] \in AllAncestors(current[m])
        BY <1>1, <1>4, <1>5, NothingToGossipFacts
    <2>2. current[m] \in AllAncestors(current[a])
        BY <1>1, <1>5, <2>1, NothingToGossipFacts
    <2>3. current[a] \in Nat /\ current[m] \in Nat
        BY DEF AdapterInv, TypeOK, Revisions, NoRevision
    <2> QED BY <2>1, <2>2, <2>3, SameHistorySameRevision
<1> QED BY <1>5

\* The adapters' state holds what its comments say, whatever signals and restarts do to it.
THEOREM AdapterTypeCorrect == AdapterSpec => []AdapterTypeOK
<1>1. AdapterInv => AdapterTypeOK
    BY DEF AdapterInv
<1> QED BY <1>1, AdapterInvInit, AdapterInvNext, PTL DEF AdapterSpec

\* The cached revision, stale as it may be, is in the history of the zome's: the peers'
\* revisions that gossip() skips because of it have nothing to pull.
THEOREM NothingLostBySkipping == AdapterSpec => []SkippingLosesNothing
<1>1. AdapterInv => SkippingLosesNothing
    BY DEF AdapterInv
<1> QED BY <1>1, AdapterInvInit, AdapterInvNext, PTL DEF AdapterSpec

\* When nobody has anything to gossip all agents are at one revision: the agents that know
\* of each other agree on one scribe, whoever came late, fell silent or restarted.
THEOREM AtRestAllAgree == AdapterSpec => []NoForkIsStuck
BY NoForkStuck, AdapterInvInit, AdapterInvNext, PTL DEF AdapterSpec

-----------------------------------------------------------------------------
(* The zome inside the composition *)

LEMMA SharedStepIsZomeStep ==
    ASSUME TypeOK, [SharedNext]_sharedVars
    PROVE  [Next]_vars
<1>1. ASSUME NEW a \in Agents, NEW c, CommitChange(a, c)
      PROVE  Next
    BY <1>1 DEF CommitChange, Next
<1>2. ASSUME NEW a \in Agents, Replicate(a)
      PROVE  Next
    <2>1. DOMAIN entries = Revisions
        BY DEF TypeOK, Revisions
    <2> QED BY <1>2, <2>1 DEF Replicate, PullAny, Next
<1> QED BY <1>1, <1>2 DEF SharedNext, sharedVars, Mutate, Reshare, ApplyDiff,
                          PersistRemovals, PersistAdditions

\* The composition is a behaviour of the zome, as every executor runs it: what holds of
\* PerspectiveDiffSync holds below the stores, whatever executors commit and when.
THEOREM SharedLinksRunZome == SharedSpec => Spec
<1>1. SharedInit => Init
    BY DEF SharedInit
<1>2. TypeOK /\ [SharedNext]_sharedVars => TypeOK' /\ [Next]_vars
    BY SharedStepIsZomeStep, TypeNext
<1>3. SharedInit => TypeOK
    BY <1>1, TypeInit
<1> QED BY <1>1, <1>2, <1>3, PTL DEF SharedSpec, Spec

-----------------------------------------------------------------------------
(* What a step of the zome does to what the stores depend on *)

\* Entries, and diffs that were emitted, stay as they are.
Extends(a) ==
    /\ \A i \in DOMAIN signals[a] : i \in DOMAIN signals'[a] /\ signals'[a][i] = signals[a][i]
    /\ OwnDiffs(a) \subseteq OwnDiffs(a)'

LEMMA EmitExtends ==
    ASSUME TypeOK, NEW a \in Agents, NEW D \in SUBSET Revisions,
           Emit(a, D) \/ EmitIfNonEmpty(a, D), NEW b \in Agents
    PROVE  \A i \in DOMAIN signals[b] : i \in DOMAIN signals'[b] /\ signals'[b][i] = signals[b][i]
<1>1. \/ b = a /\ signals'[b] = Append(signals[b], D)
      \/ signals'[b] = signals[b]
    BY EmitFacts
<1>2. signals[b] \in Seq(SUBSET Revisions)
    BY DEF TypeOK
<1> QED BY <1>1, <1>2, SMTT(30)

\* A commit emits nothing and adds one diff of its author's.
LEMMA CommitFacts ==
    ASSUME TypeOK, NEW a \in Agents, NEW chunked \in BOOLEAN, Commit(a, chunked)
    PROVE  /\ signals' = signals
           /\ Len(entries') = Len(entries) + 1
           /\ OwnDiffs(a)' = OwnDiffs(a) \cup {Len(entries) + 1}
           /\ \A b \in Agents \ {a} : OwnDiffs(b)' = OwnDiffs(b)
<1> DEFINE n == Len(entries) + 1
           e == [author |-> a, parents |-> {current[a]} \ {NoRevision},
                 diff |-> TRUE, chunked |-> chunked]
<1>1. e.parents \subseteq Revisions
    BY DEF TypeOK
<1>2. e \in Entry
    BY <1>1, GraphFacts DEF Entry
<1>3. entries' = Append(entries, e) /\ signals' = signals
    BY DEF Commit, CreateAndMoveTo
<1>4. /\ Revisions' = Revisions \cup {n}
      /\ n \notin Revisions
      /\ \A x \in Revisions : entries'[x] = entries[x]
      /\ entries'[n] = e
      /\ Len(entries') = n
    BY <1>1, <1>2, <1>3, GraphGrows
<1>5. e.diff /\ e.author = a
    OBVIOUS
<1> HIDE DEF e
<1>6. ASSUME NEW b \in Agents
      PROVE  OwnDiffs(b)' = OwnDiffs(b) \cup {x \in {n} : b = a}
    BY <1>4, <1>5 DEF OwnDiffs
<1> QED BY <1>3, <1>4, <1>6

\* Any other step leaves every agent's own diffs alone; at most it appends a merge entry.
LEMMA OtherStepFacts ==
    ASSUME TypeOK, NEW a \in Agents,
           \/ \E r \in Revisions, is_scribe \in BOOLEAN : Pull(a, r, is_scribe)
           \/ \E b \in Agents, r \in Revisions : HandleBroadcast(a, b, r)
           \/ BroadcastCurrent(a)
           \/ \E r \in Revisions : Integrate(a, r)
           \/ UNCHANGED vars
    PROVE  /\ entries' = entries \/ Len(entries') = Len(entries) + 1
           /\ \A b \in Agents : OwnDiffs(b)' = OwnDiffs(b) /\ Extends(b)
<1> USE GraphFacts
<1>1. CASE UNCHANGED <<entries, signals>>
    BY <1>1 DEF OwnDiffs, Revisions, Extends
<1>2. ASSUME NEW D \in SUBSET Revisions, UNCHANGED entries, Emit(a, D) \/ EmitIfNonEmpty(a, D)
      PROVE  \A b \in Agents : OwnDiffs(b)' = OwnDiffs(b) /\ Extends(b)
    <2>1. \A b \in Agents : OwnDiffs(b)' = OwnDiffs(b)
        BY <1>2 DEF OwnDiffs, Revisions
    <2> QED BY <1>2, <2>1, EmitExtends DEF Extends
<1>3. ASSUME NEW b \in Agents, NEW r \in Revisions, FastForwardSignal(a, b, r)
      PROVE  entries' = entries /\ \A c \in Agents : OwnDiffs(c)' = OwnDiffs(c) /\ Extends(c)
    BY <1>3, <1>2 DEF FastForwardSignal
<1>4. ASSUME NEW r \in Revisions, PullInitial(a, r) \/ PullFastForward(a, r)
      PROVE  entries' = entries /\ \A c \in Agents : OwnDiffs(c)' = OwnDiffs(c) /\ Extends(c)
    <2>1. DiffsIn(AllAncestors(r)) \in SUBSET Revisions /\ UnseenDiffs(a, r) \in SUBSET Revisions
        BY DEF DiffsIn, UnseenDiffs, Revisions
    <2> QED BY <1>4, <2>1, <1>2 DEF PullInitial, PullFastForward
<1>5. ASSUME NEW r \in Revisions, PullMerge(a, r)
      PROVE  /\ Len(entries') = Len(entries) + 1
             /\ \A c \in Agents : OwnDiffs(c)' = OwnDiffs(c) /\ Extends(c)
    <2> DEFINE e == [author |-> a, parents |-> {r, current[a]}, diff |-> FALSE, chunked |-> FALSE]
    <2>1. e.parents \subseteq Revisions
        BY <1>5 DEF TypeOK, PullMerge, Forked
    <2>2. e \in Entry
        BY <2>1 DEF Entry
    <2>3. entries' = Append(entries, e)
        BY <1>5 DEF PullMerge, CreateAndMoveTo
    <2>4. /\ Revisions' = Revisions \cup {Len(entries) + 1}
          /\ \A x \in Revisions : entries'[x] = entries[x]
          /\ entries'[Len(entries) + 1] = e
          /\ Len(entries') = Len(entries) + 1
        BY <2>1, <2>2, <2>3, GraphGrows
    <2>5. \A c \in Agents : OwnDiffs(c)' = OwnDiffs(c)
        BY <2>4 DEF OwnDiffs
    <2>6. UnseenDiffs(a, r) \in SUBSET Revisions
        BY DEF DiffsIn, UnseenDiffs, Revisions
    <2>7. \A c \in Agents : Extends(c)
        BY <1>5, <2>5, <2>6, EmitExtends DEF PullMerge, Extends
    <2> QED BY <2>4, <2>5, <2>7
<1> QED BY <1>1, <1>3, <1>4, <1>5
        DEF Pull, PullNothing, HandleBroadcast, IgnoreSignal, BroadcastCurrent, Integrate, vars

-----------------------------------------------------------------------------
(* No store misses a link *)

SharedInv == IInv /\ SharedTypeOK /\ NothingMissing

LEMMA SharedGraph ==
    ASSUME IInv, SharedTypeOK
    PROVE  /\ Len(entries) \in Nat /\ Revisions = 1..Len(entries)
           /\ DOMAIN entries = Revisions /\ DOMAIN change = Revisions
           /\ change \in Seq(Change) /\ Len(change) = Len(entries)
           /\ \A a \in Agents : OwnDiffs(a) \in SUBSET Revisions
           /\ \A a \in Agents : History(a) \in SUBSET Revisions
           /\ \A a \in Agents : \A i \in DOMAIN signals[a] :
                 signals[a][i] \in SUBSET Revisions /\ signals[a][i] \subseteq History(a)
<1>1. TypeOK /\ HistoryDelivered
    BY DEF IInv
<1>2. \A a \in Agents : \A i \in DOMAIN signals[a] :
        signals[a][i] \in SUBSET Revisions /\ signals[a][i] \subseteq Emitted(a)
    BY <1>1 DEF TypeOK, Emitted
<1>3. \A a \in Agents : OwnDiffs(a) \in SUBSET Revisions
    BY DEF OwnDiffs
<1>4. \A a \in Agents : Emitted(a) \in SUBSET Revisions
    BY <1>2 DEF Emitted
<1> QED BY <1>1, <1>2, <1>3, <1>4, GraphFacts DEF HistoryDelivered, SharedTypeOK, TypeOK

\* A link rendered after a step was rendered before it, or one of the diffs that the step
\* added to the history adds it; and no diff of the history removes it.
LEMMA RenderedLinks ==
    ASSUME IInv, IInv', SharedTypeOK, SharedTypeOK', NEW a \in Agents, Extends(a),
           \A r \in Revisions : r \in Revisions' /\ change'[r] = change[r],
           NEW l, l \in Rendered(a)'
    PROVE  /\ \A r \in History(a)' : l \notin change'[r].removals
           /\ \/ l \in Rendered(a)
              \/ \E r \in History(a)' \ History(a) : l \in change'[r].additions
<1>1. History(a) = Emitted(a) \cup OwnDiffs(a) /\ History(a)' = Emitted(a)' \cup OwnDiffs(a)'
    BY DEF IInv, HistoryDelivered
<1>2. Emitted(a) \subseteq Emitted(a)'
    BY DEF Extends, Emitted
<1>3. History(a) \subseteq History(a)' /\ History(a) \in SUBSET Revisions
    BY <1>1, <1>2, SharedGraph DEF Extends
<1>4. PICK r \in History(a)' : l \in change'[r].additions
    BY DEF Rendered, AdditionsOf
<1>5. \A q \in History(a)' : l \notin change'[q].removals
    BY DEF Rendered, RemovalsOf
<1>6. CASE r \in History(a)
    <2>1. l \in change[r].additions /\ \A q \in History(a) : l \notin change[q].removals
        BY <1>3, <1>4, <1>5, <1>6
    <2> QED BY <1>5, <1>6, <2>1 DEF Rendered, AdditionsOf, RemovalsOf
<1> QED BY <1>4, <1>5, <1>6

Waiting(a) == UNION {AdditionsOf(signals[a][i]) : i \in Unapplied(a)}

\* Diffs that wait to be applied still wait after a step that applies none.
LEMMA WaitingGrows ==
    ASSUME IInv, SharedTypeOK, NEW a \in Agents, Extends(a), UNCHANGED applied,
           \A r \in Revisions : change'[r] = change[r]
    PROVE  Waiting(a) \subseteq Waiting(a)'
<1> SUFFICES ASSUME NEW l \in Waiting(a) PROVE l \in Waiting(a)'
    OBVIOUS
<1>1. PICK i \in Unapplied(a) : l \in AdditionsOf(signals[a][i])
    BY DEF Waiting
<1>2. i \in DOMAIN signals[a] /\ signals[a][i] \in SUBSET Revisions
    BY SharedGraph DEF Unapplied
<1>3. i \in Unapplied(a)' /\ signals'[a][i] = signals[a][i]
    BY <1>1, <1>2 DEF Unapplied, Extends
<1>4. l \in AdditionsOf(signals[a][i])'
    BY <1>1, <1>2, <1>3 DEF AdditionsOf
<1> QED BY <1>3, <1>4 DEF Waiting

\* A commit of c by agent a: a's store has what it adds, and loses at most what it removes.
LEMMA CommitKeeps ==
    ASSUME SharedInv, IInv', SharedTypeOK', NEW a \in Agents, NEW c \in Change,
           CommitChange(a, c), UNCHANGED applied,
           c.additions \subseteq store'[a], store[a] \ c.removals \subseteq store'[a],
           \A b \in Agents \ {a} : store'[b] = store[b]
    PROVE  NothingMissing'
<1> DEFINE n == Len(entries) + 1
<1>1. /\ signals' = signals /\ Len(entries') = n
      /\ OwnDiffs(a)' = OwnDiffs(a) \cup {n}
      /\ \A b \in Agents \ {a} : OwnDiffs(b)' = OwnDiffs(b)
    BY CommitFacts DEF CommitChange, SharedInv, IInv
<1>2. /\ \A r \in Revisions : r \in Revisions' /\ change'[r] = change[r]
      /\ change'[n] = c
    <2>1. change \in Seq(Change) /\ Len(change) = Len(entries) /\ Len(entries) \in Nat
        BY SharedGraph DEF SharedInv
    <2>2. change' = Append(change, c)
        BY DEF CommitChange
    <2> QED BY <1>1, <2>1, <2>2 DEF Revisions
<1>3. \A b \in Agents : Extends(b)
    BY <1>1 DEF Extends
<1>4. \A b \in Agents : Emitted(b)' = Emitted(b)
    BY <1>1 DEF Emitted
<1>5. \A b \in Agents : History(b)' = Emitted(b)' \cup OwnDiffs(b)' /\ History(b) = Emitted(b) \cup OwnDiffs(b)
    BY DEF SharedInv, IInv, HistoryDelivered
<1>6. History(a)' = History(a) \cup {n} /\ \A b \in Agents \ {a} : History(b)' = History(b)
    BY <1>1, <1>4, <1>5
<1> SUFFICES ASSUME NEW b \in Agents, NEW l \in Rendered(b)'
             PROVE  l \in store'[b] \cup Waiting(b)'
    BY DEF NothingMissing, Waiting
<1>7. /\ \A r \in History(b)' : l \notin change'[r].removals
      /\ \/ l \in Rendered(b)
         \/ \E r \in History(b)' \ History(b) : l \in change'[r].additions
    BY <1>2, <1>3, RenderedLinks DEF SharedInv
<1>8. CASE l \in Rendered(b)
    <2>1. l \in store[b] \cup Waiting(b)
        BY <1>8 DEF SharedInv, NothingMissing, Waiting
    <2>2. Waiting(b) \subseteq Waiting(b)'
        BY <1>2, <1>3, WaitingGrows DEF SharedInv
    <2>3. b = a => l \notin c.removals
        BY <1>2, <1>6, <1>7
    <2> QED BY <2>1, <2>2, <2>3
<1>9. CASE \E r \in History(b)' \ History(b) : l \in change'[r].additions
    <2>1. b = a /\ l \in c.additions
        BY <1>2, <1>6, <1>9
    <2> QED BY <2>1
<1> QED BY <1>7, <1>8, <1>9

\* What a peer's revision brings is emitted, hence waits to be applied.
LEMMA ReplicateKeeps ==
    ASSUME SharedInv, IInv', SharedTypeOK', UNCHANGED <<store, applied>>,
           \A b \in Agents : OwnDiffs(b)' = OwnDiffs(b) /\ Extends(b),
           \A r \in Revisions : r \in Revisions' /\ change'[r] = change[r]
    PROVE  NothingMissing'
<1> SUFFICES ASSUME NEW b \in Agents, NEW l \in Rendered(b)'
             PROVE  l \in store'[b] \cup Waiting(b)'
    BY DEF NothingMissing, Waiting
<1>1. \/ l \in Rendered(b)
      \/ \E r \in History(b)' \ History(b) : l \in change'[r].additions
    BY RenderedLinks DEF SharedInv
<1>2. CASE l \in Rendered(b)
    <2>1. l \in store[b] \cup Waiting(b)
        BY <1>2 DEF SharedInv, NothingMissing, Waiting
    <2>2. Waiting(b) \subseteq Waiting(b)'
        BY WaitingGrows DEF SharedInv
    <2> QED BY <2>1, <2>2
<1>3. CASE \E r \in History(b)' \ History(b) : l \in change'[r].additions
    <2>1. PICK r \in History(b)' \ History(b) : l \in change'[r].additions
        BY <1>3
    <2>2. r \in Emitted(b)' \ Emitted(b)
        BY <2>1 DEF SharedInv, IInv, HistoryDelivered
    <2>3. PICK i \in DOMAIN signals'[b] : r \in signals'[b][i]
        BY <2>2 DEF Emitted
    <2>4. i \notin DOMAIN signals[b]
        BY <2>2, <2>3 DEF Emitted, Extends
    <2>5. i \in Unapplied(b)'
        BY <2>3, <2>4 DEF Unapplied, SharedInv, SharedTypeOK
    <2>6. l \in AdditionsOf(signals[b][i])'
        BY <2>1, <2>3 DEF AdditionsOf
    <2> QED BY <2>5, <2>6 DEF Waiting
<1> QED BY <1>1, <1>2, <1>3

\* Applying a diff removes nothing that is rendered, because the diff is in the history;
\* what it adds stops waiting only when it is in the store.
LEMMA ApplyKeeps ==
    ASSUME SharedInv, NEW a \in Agents, NEW i \in DOMAIN signals[a], ApplyDiff(a, i)
    PROVE  NothingMissing'
<1>1. UNCHANGED <<entries, signals, current, change>>
    BY DEF ApplyDiff, PersistRemovals, PersistAdditions, vars
<1>2. \A b \in Agents : Rendered(b)' = Rendered(b)
    BY <1>1 DEF Rendered, AdditionsOf, RemovalsOf, History, DiffsIn, AllAncestors
<1> SUFFICES ASSUME NEW b \in Agents, NEW l \in Rendered(b)
             PROVE  l \in store'[b] \cup Waiting(b)'
    BY <1>2 DEF NothingMissing, Waiting
<1>3. l \in store[b] \cup Waiting(b)
    BY DEF SharedInv, NothingMissing, Waiting
<1>4. store \in [Agents -> SUBSET Links]
    BY DEF SharedInv, SharedTypeOK
<1>5. CASE PersistRemovals(a, i)
    <2>1. l \notin RemovalsOf(signals[a][i]) \/ b # a
        <3>1. signals[a][i] \subseteq History(a)
            BY SharedGraph DEF SharedInv
        <3> QED BY <3>1 DEF Rendered, RemovalsOf
    <2>2. l \in store[b] => l \in store'[b]
        BY <1>4, <1>5, <2>1 DEF PersistRemovals, Without, Matches
    <2>3. Waiting(b)' = Waiting(b)
        BY <1>1, <1>5 DEF PersistRemovals, Waiting, Unapplied, AdditionsOf
    <2> QED BY <1>3, <2>2, <2>3
<1>6. CASE PersistAdditions(a, i)
    <2>1. store[b] \subseteq store'[b]
        BY <1>4, <1>6 DEF PersistAdditions
    <2>2. CASE l \in Waiting(b)
        <3>1. PICK j \in Unapplied(b) : l \in AdditionsOf(signals[b][j])
            BY <2>2 DEF Waiting
        <3>2. CASE b = a /\ j = i
            BY <1>4, <1>6, <3>1, <3>2 DEF PersistAdditions
        <3>3. CASE ~(b = a /\ j = i)
            <4>1. j \in Unapplied(b)'
                BY <1>1, <1>6, <3>1, <3>3 DEF PersistAdditions, Unapplied, SharedInv, SharedTypeOK
            <4>2. l \in AdditionsOf(signals[b][j])'
                BY <1>1, <3>1 DEF AdditionsOf
            <4> QED BY <4>1, <4>2 DEF Waiting
        <3> QED BY <3>2, <3>3
    <2> QED BY <1>3, <2>1, <2>2
<1> QED BY <1>5, <1>6 DEF ApplyDiff

LEMMA SharedTypeInit == SharedInit => SharedTypeOK /\ NothingMissing
<1> SUFFICES ASSUME SharedInit PROVE SharedTypeOK /\ NothingMissing
    OBVIOUS
<1>1. entries = <<>> /\ change = <<>> /\ signals = [a \in Agents |-> <<>>]
    BY DEF SharedInit, Init
<1>2. \A a \in Agents : DOMAIN signals[a] = {}
    BY <1>1
<1>3. SharedTypeOK
    BY <1>1, <1>2 DEF SharedInit, SharedTypeOK
<1>4. \A a \in Agents : History(a) = {}
    BY TypeInit, GraphFacts DEF SharedInit, Init, History, DiffsIn
<1>5. NothingMissing
    BY <1>4 DEF NothingMissing, Rendered, AdditionsOf
<1> QED BY <1>3, <1>5

\* Diffs stay emitted, so those applied still are among them.
LEMMA AppliedAreEmitted ==
    ASSUME SharedTypeOK, UNCHANGED tasks, \A a \in Agents : Extends(a)
    PROVE  /\ applied' \in [Agents -> SUBSET Nat] /\ removed' \in [Agents -> SUBSET Nat]
           /\ \A a \in Agents : applied'[a] \cup removed'[a] \subseteq DOMAIN signals'[a]
BY DEF SharedTypeOK, tasks, Extends

LEMMA CommitChangeType ==
    ASSUME IInv, SharedTypeOK, NEW a \in Agents, NEW c \in Change, CommitChange(a, c),
           UNCHANGED tasks, store' \in [Agents -> SUBSET Links]
    PROVE  SharedTypeOK'
<1>1. /\ signals' = signals /\ Len(entries') = Len(entries) + 1
      /\ \A b \in Agents : OwnDiffs(b) \subseteq OwnDiffs(b)'
    BY CommitFacts DEF CommitChange, IInv
<1>2. change' \in Seq(Change) /\ Len(change') = Len(entries')
    BY <1>1 DEF CommitChange, SharedTypeOK
<1>3. \A b \in Agents : Extends(b)
    BY <1>1 DEF Extends
<1> QED BY <1>2, <1>3, AppliedAreEmitted DEF SharedTypeOK

\* What the steps of the zome other than commits do to changes and emitted diffs.
LEMMA ReplicateFacts ==
    ASSUME IInv, SharedTypeOK, NEW a \in Agents, Replicate(a)
    PROVE  /\ \A b \in Agents : OwnDiffs(b)' = OwnDiffs(b) /\ Extends(b)
           /\ change' \in Seq(Change) /\ Len(change') = Len(entries')
           /\ \A r \in Revisions : r \in Revisions' /\ change'[r] = change[r]
<1>1. TypeOK /\ DOMAIN entries = Revisions
    BY SharedGraph DEF IInv
<1>2. \/ \E r \in Revisions : PullAny(a, r)
      \/ /\ \/ \E b \in Agents, r \in Revisions : HandleBroadcast(a, b, r)
            \/ BroadcastCurrent(a)
            \/ \E r \in Revisions : Integrate(a, r)
         /\ UNCHANGED change
    BY <1>1, SentRevision DEF Replicate
<1>3. /\ entries' = entries \/ Len(entries') = Len(entries) + 1
      /\ \A b \in Agents : OwnDiffs(b)' = OwnDiffs(b) /\ Extends(b)
    BY <1>1, <1>2, OtherStepFacts DEF PullAny
<1>4. NoChange \in Change /\ change \in Seq(Change) /\ Len(change) = Len(entries)
      /\ Revisions = 1..Len(entries) /\ Len(entries) \in Nat
    BY SharedGraph DEF NoChange, Change
<1>5. CASE entries' = entries /\ change' = change
    BY <1>3, <1>4, <1>5 DEF Revisions
<1>6. CASE Len(entries') = Len(entries) + 1 /\ change' = Append(change, NoChange)
    BY <1>3, <1>4, <1>6 DEF Revisions
<1>7. ASSUME BroadcastCurrent(a) \/ (\E r \in Revisions : Integrate(a, r))
             \/ (\E b \in Agents, r \in Revisions : HandleBroadcast(a, b, r))
      PROVE  entries' = entries
    BY <1>7 DEF BroadcastCurrent, Integrate, HandleBroadcast, FastForwardSignal, IgnoreSignal, vars
<1> QED BY <1>2, <1>3, <1>5, <1>6, <1>7 DEF PullAny

LEMMA SharedInvNext == SharedInv /\ [SharedNext]_sharedVars => SharedInv'
<1> SUFFICES ASSUME SharedInv, [SharedNext]_sharedVars PROVE SharedInv'
    OBVIOUS
<1>1. IInv /\ SharedTypeOK /\ TypeOK
    BY DEF SharedInv, IInv
<1>2. IInv'
    BY <1>1, SharedStepIsZomeStep, IInvNext
<1>3. store \in [Agents -> SUBSET Links]
    BY <1>1 DEF SharedTypeOK
<1>4. ASSUME NEW a \in Agents, NEW c \in Change, Mutate(a, c)
      PROVE  SharedInv'
    <2>1. store' = [store EXCEPT ![a] = Without(store[a], c.removals) \cup c.additions]
        BY <1>4 DEF Mutate
    <2>2. Without(store[a], c.removals) = store[a] \ c.removals
        BY DEF Without, Matches
    <2>3. /\ store' \in [Agents -> SUBSET Links]
          /\ store'[a] = (store[a] \ c.removals) \cup c.additions
          /\ \A b \in Agents \ {a} : store'[b] = store[b]
        BY <1>3, <2>1, <2>2 DEF Change
    <2>4. SharedTypeOK'
        BY <1>1, <1>4, <2>3, CommitChangeType DEF Mutate
    <2>5. NothingMissing'
        BY <1>2, <1>4, <2>3, <2>4, CommitKeeps DEF Mutate, tasks
    <2> QED BY <1>2, <2>4, <2>5 DEF SharedInv
<1>5. ASSUME NEW a \in Agents, Reshare(a)
      PROVE  SharedInv'
    <2> DEFINE c == [additions |-> store[a] \ Rendered(a), removals |-> {}]
    <2>1. c \in Change
        BY <1>3 DEF Change
    <2>2. c.additions \subseteq store[a] /\ c.removals = {}
        OBVIOUS
    <2>3. CommitChange(a, c) /\ UNCHANGED <<store, tasks>>
        BY <1>5 DEF Reshare
    <2> HIDE DEF c
    <2>4. SharedTypeOK'
        BY <1>1, <1>3, <2>1, <2>3, CommitChangeType
    <2>5. NothingMissing'
        BY <1>2, <2>1, <2>2, <2>3, <2>4, CommitKeeps DEF tasks
    <2> QED BY <1>2, <2>4, <2>5 DEF SharedInv
<1>6. ASSUME NEW a \in Agents, NEW i \in DOMAIN signals[a], ApplyDiff(a, i)
      PROVE  SharedInv'
    <2>1. signals[a][i] \in SUBSET Revisions /\ i \in Nat
        BY <1>1, SharedGraph DEF TypeOK
    <2>2. AdditionsOf(signals[a][i]) \in SUBSET Links
        <3>1. \A r \in signals[a][i] : change[r] \in Change
            BY <1>1, <2>1, SharedGraph
        <3> QED BY <3>1 DEF AdditionsOf, Change
    <2>3. store' \in [Agents -> SUBSET Links]
        BY <1>3, <1>6, <2>2 DEF ApplyDiff, PersistRemovals, PersistAdditions, Without
    <2>4. SharedTypeOK'
        BY <1>1, <1>6, <2>1, <2>3 DEF ApplyDiff, PersistRemovals, PersistAdditions, SharedTypeOK, vars
    <2>5. NothingMissing'
        BY <1>6, ApplyKeeps
    <2> QED BY <1>2, <2>4, <2>5 DEF SharedInv
<1>7. ASSUME NEW a \in Agents, Replicate(a)
      PROVE  SharedInv'
    <2>1. /\ \A b \in Agents : OwnDiffs(b)' = OwnDiffs(b) /\ Extends(b)
          /\ change' \in Seq(Change) /\ Len(change') = Len(entries')
          /\ \A r \in Revisions : r \in Revisions' /\ change'[r] = change[r]
        BY <1>1, <1>7, ReplicateFacts
    <2>2. UNCHANGED <<store, tasks>>
        BY <1>7 DEF Replicate
    <2>3. SharedTypeOK'
        BY <1>1, <2>1, <2>2, AppliedAreEmitted DEF SharedTypeOK
    <2>4. NothingMissing'
        BY <1>2, <2>1, <2>2, <2>3, ReplicateKeeps DEF tasks
    <2> QED BY <1>2, <2>3, <2>4 DEF SharedInv
<1>8. CASE UNCHANGED sharedVars
    <2>1. UNCHANGED <<entries, signals, current, change, store, applied, removed>>
        BY <1>8 DEF sharedVars, vars, tasks
    <2> QED BY <1>1, <1>2, <2>1 DEF SharedInv, SharedTypeOK, NothingMissing, Rendered, Unapplied,
                  AdditionsOf, RemovalsOf, History, DiffsIn, AllAncestors
<1> QED BY <1>4, <1>5, <1>6, <1>7, <1>8 DEF SharedNext

\* The types, and every store has, or is about to get, whatever its member's revision
\* renders: in whatever order the tasks of several diffs interleave, for all members and links.
THEOREM SharedTypeCorrect == SharedSpec => []SharedTypeOK
<1>1. SharedInit => SharedInv
    BY SharedTypeInit, IInvInit DEF SharedInit, SharedInv
<1>2. SharedInv => SharedTypeOK
    BY DEF SharedInv
<1> QED BY <1>1, <1>2, SharedInvNext, PTL DEF SharedSpec

THEOREM NoLinkMissing == SharedSpec => []NothingMissing
<1>1. SharedInit => SharedInv
    BY SharedTypeInit, IInvInit DEF SharedInit, SharedInv
<1>2. SharedInv => NothingMissing
    BY DEF SharedInv
<1> QED BY <1>1, <1>2, SharedInvNext, PTL DEF SharedSpec
-----------------------------------------------------------------------------
(* A commit() that takes its time *)

\* As long as nothing moved the revision, it can still be retrieved.
InitialRetrievable ==
    /\ initial \in [Agents -> Nat]
    /\ committing \subseteq Agents
    /\ \A a \in committing : initial[a] # NoRevision => initial[a] \in held[a]

LEMMA HeldGrows ==
    ASSUME TypeOK, [Next]_vars, NEW a \in Agents
    PROVE  held[a] \subseteq held'[a]
BY NextCases DEF Commit, PullMerge, CreateAndMoveTo, BroadcastCurrent, FastForwardSignal,
                 PullInitial, PullFastForward, FetchChunks, Integrate, vars, TypeOK

LEMMA CallStepIsZomeStep ==
    ASSUME TypeOK, InitialRetrievable, [CallNext]_callVars
    PROVE  [Next]_vars
<1>1. ASSUME NEW a \in Agents, NEW chunked \in BOOLEAN, FinishCommit(a, chunked)
      PROVE  Next
    <2>1. initial[a] = current[a]
        BY <1>1 DEF FinishCommit, NotOvertaken
    <2>2. current[a] # NoRevision => CurrentRetrievable(a)
        BY <1>1, <2>1 DEF FinishCommit, InitialRetrievable, CurrentRetrievable
    <2>3. Commit(a, chunked)
        BY <1>1, <2>1, <2>2 DEF FinishCommit, Commit
    <2> QED BY <2>3 DEF Next
<1>2. CASE OtherCalls
    BY <1>2 DEF OtherCalls, Next
<1>3. ASSUME NEW a \in Agents, CallCommit(a) \/ AbortCommit(a)
      PROVE  UNCHANGED vars
    BY <1>3 DEF CallCommit, AbortCommit
<1> QED BY <1>1, <1>2, <1>3 DEF CallNext, callVars

LEMMA InitialRetrievableNext ==
    ASSUME TypeOK, InitialRetrievable, [CallNext]_callVars
    PROVE  InitialRetrievable'
<1>1. \A a \in Agents : held[a] \subseteq held'[a]
    BY CallStepIsZomeStep, HeldGrows
<1>2. ASSUME NEW a \in Agents, CallCommit(a)
      PROVE  InitialRetrievable'
    <2>1. current[a] \in Nat
        BY DEF TypeOK, Revisions, NoRevision
    <2>2. current[a] # NoRevision => current[a] \in held[a]
        BY <1>2 DEF CallCommit, CurrentRetrievable
    <2>3. initial' = [initial EXCEPT ![a] = current[a]] /\ committing' = committing \cup {a}
        BY <1>2 DEF CallCommit
    <2>4. initial' \in [Agents -> Nat]
        BY <2>1, <2>3 DEF InitialRetrievable
    <2>5. committing \subseteq Agents
        BY DEF InitialRetrievable
    <2>6. ASSUME NEW b \in committing', initial'[b] # NoRevision
          PROVE  initial'[b] \in held'[b]
        <3>1. CASE b = a
            BY <1>1, <2>2, <2>3, <2>6, <3>1 DEF InitialRetrievable
        <3>2. CASE b # a
            BY <1>1, <2>3, <2>5, <2>6, <3>2 DEF InitialRetrievable
        <3> QED BY <3>1, <3>2
    <2> QED BY <2>3, <2>4, <2>5, <2>6 DEF InitialRetrievable
<1>3. ASSUME NEW a \in Agents, EndCall(a)
      PROVE  InitialRetrievable'
    BY <1>1, <1>3 DEF EndCall, InitialRetrievable, NoRevision
<1>4. CASE UNCHANGED <<committing, initial>>
    BY <1>1, <1>4 DEF InitialRetrievable
<1> QED BY <1>2, <1>3, <1>4 DEF CallNext, callVars, FinishCommit, AbortCommit, OtherCalls

\* Whatever else is called while a commit() is under way, signals included: the entry goes
\* on top of the current revision or nowhere.  So all that is proved of the zome, for
\* which commit() is one step, holds of a commit() that takes its time, in the first place
\* that it does not rewind the revision.
THEOREM CommitIsOneStep == CallSpec => CommitsInOneStep /\ NeverRewinds
<1>1. CallInit => Init /\ TypeOK /\ InitialRetrievable
    BY TypeInit DEF CallInit, InitialRetrievable, NoRevision
<1>2. TypeOK /\ InitialRetrievable /\ [CallNext]_callVars
        => (TypeOK /\ InitialRetrievable)' /\ [Next]_vars
    BY CallStepIsZomeStep, InitialRetrievableNext, TypeNext
<1>3. CallSpec => Spec
    BY <1>1, <1>2, PTL DEF CallSpec, Spec
<1> QED BY <1>3, RevisionsNeverRewind DEF CommitsInOneStep
=============================================================================
