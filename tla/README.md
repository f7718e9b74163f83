# A TLA+ verification project for AD4M

AD4M is an agent-centric collaboration layer. An *executor* (Rust) keeps
*perspectives*, sets of signed links, in a local store. A perspective may be
shared as a *neighbourhood*: its links then also live in a *link language*, a
plug-in that replicates them among the members. The one that ships with AD4M
and that neighbourhoods use is `p-diff-sync`, a CRDT on Holochain: a
coordinator zome in Rust and an adapter in TypeScript.

What a user relies on is that links committed by one member reach all the
others, once, in an order that makes sense, across lost messages, restarts and
concurrent commits, and that all members end up with the same links. The code
that has to achieve this is the core of this project: `p-diff-sync` first, the
executor's queues around it next. On top of it
sits what applications do with links: the executor's commands, and in the
TypeScript client the models, flows, Social DNA and live queries.

## 1. Inventory

### The replication path (in order from one executor to another)

| Part | Source | State | Operations |
|---|---|---|---|
| PerspectiveInstance, outgoing | `rust-executor/src/perspectives/perspective_instance.rs` 413-760, 4292-4499 | links in the store, the `perspective_diff` queue in SQLite, the immediate-commit counter, spawned commit tasks | `commit`, `commit_pending_diffs`, `pending_diffs_loop`, `ensure_public_links_are_shared`, `fallback_sync_loop`, `commit_batch` |
| LinkAdapter | `bootstrap-languages/p-diff-sync/linksAdapter.ts` | `peers`, `myCurrentRevision`, the last reported sync state, `generalMutex` | `sync`, `gossip`, `commit`, `render`, `handleHolochainSignal`, `checkSyncState` |
| Coordinator zome | `.../perspective_diff_sync/src/` | per agent: source chain, current revision (newest `LocalHashReference`); shared: DHT entries | `commit`, `sync`, `pull`, `merge`, `handle_broadcast`, `render`, snapshots, telepresence |
| Workspace | `.../link_adapter/workspace.rs`, `topo_sort.rs` | the search of one call: branches and ancestors of either side, back links, diffs | `build_diffs`, `collect_until_common_ancestor`, `terminate_with_null_node`, `sort_graph`, `build_graph`, `all_ancestors` |
| Snapshots | `.../link_adapter/snapshots.rs`, `workspace.rs` 108-245 | `diffs_since_snapshot` of each entry, snapshots linked from entries; the walk of one call | `generate_snapshot`, `collect_only_from_latest` |
| Integrity zome | `.../perspective_diff_sync_integrity/src/lib.rs` | none | `validate` |
| PerspectiveInstance, incoming | `perspective_instance.rs` 756-816, 2556-2593; `surreal_service/` | the link store | `diff_from_link_language`, `persist_link_diff` |
| Subscriptions | `perspective_instance.rs` 3842-4290, 509-542 | the table of subscribed queries with results and keep-alives, the triggers | `subscribe_and_query`, `keepalive_query`, the check loops, `commit_batch` |

How they interact. A mutation writes the store and spawns `commit`, which calls
the link language or queues the diff. The adapter calls the zome under its
mutex. The zome's `commit` and `sync` send a `HashBroadcast` signal to every
peer, unreliably. A received signal goes to `handle_broadcast` in the zome,
which may fast-forward and emits the diff to the adapter, and the adapter
records which revision the peer is at. Every few seconds `nh_sync_loop` calls
`sync`, which broadcasts again and runs `gossip`: pull every revision a peer is
known to be at. `pull` returns, fast-forwards or, for the *scribe*, merges; what
it learns is emitted. Emitted diffs go through the language controller to
`diff_from_link_language`, one task per diff.

What is hard here: signals are lost, repeated and reordered; DHT entries arrive
late, and after a signal the own revision may not be retrievable; several agents
may take themselves for the scribe; `gossip` works with a cached revision and a
scribe decision that signals overtake; the search for the common ancestor works
on a DAG with several roots, and so do the walks that snapshots cut short; an
executor may stop between any two steps.
`PROJECT.json` lists these under "hazards" at the lines where they bite.

What makes the parts correct:

- zome: the executor has been told exactly the history of the current revision,
  each diff once and in causal order; a revision is never rewound; merges join
  forks only;
- workspace: the search finds exactly what separates two revisions, in any DAG,
  and each of its rounds sorts more, so that it comes to an end;
- snapshots: a walk that uses them collects what a walk without them does;
- adapter: every diff arrives everywhere and all agents settle on one revision;
  the reported sync state settles on synced;
- outgoing side: no diff is dropped between the mutation and the link language;
- incoming side: the store equals what the link language renders;
- subscriptions: a change of the links is eventually reflected in every live
  subscription and told to its listeners, and clients do not stay without one.

### What applications do with links

| Part | Source | State | Operations |
|---|---|---|---|
| Commands and batches | `perspective_instance.rs` 832-1019, 1560-1600, 2556-2593, 3228-3375, 3569-3651, 4377-4500 | the link store, the batch store, one request's command list | `execute_commands`, `remove_link`, `link_mutations`, `create_batch`, `commit_batch` |
| Ad4mModel | `core/src/model/Ad4mModel.ts` | the fields of an instance held by a client; the links of its expression | `save`, `update`, `get`, `delete`, `paginate` |
| Flows | `core/src/perspectives/PerspectiveProxy.ts` | the links of an expression that say which states of a flow it is in | `startFlow`, `runFlowAction`, `flowState` |
| Social DNA | `PerspectiveProxy.ts`, `core/src/shacl/`, `perspective_instance.rs`, `shacl_parser.rs` | the links that make up a shape, a class or a flow; `sdna_change_mutex` | `addShacl`, `getShacl`, `addFlow`, `getFlow`, `ensureSDNASubjectClass`, `add_sdna` |
| Subscription proxy | `PerspectiveProxy.ts` 60-300 | the subscription's id, listener, keepalive timer and initialization timer | `subscribe`, the keepalive loop, the timeout, `dispose` |

How they interact. A client's request is a list of commands; the executor
carries them out one after the other, reading links before it removes them,
with an `await` between any two steps, so that requests of several clients
interleave link by link. A batch notes removals and additions and applies them
as one diff at its end. Models, flows and Social DNA have no state in the
executor but their links. The proxy calls the executor's subscription handlers
and hears of results by a GraphQL subscription.

What is hard here: the links a command removes were read earlier; a link that
somebody else removed meanwhile makes a request fail in the middle; additions are
signed before they are stored, and later ones may be stored first; `flowState`
and the readers of shapes ask several queries while others write; a shape is
stored link by link and the executor may stop in between; the proxy's
`subscribe` is called by the application, by the keepalive loop and by the
timeout, and each replaces the timers of the others while a call is under way.

What makes the parts correct:

- models: a value written last is not lost, whatever runs beside it; reading
  page by page misses no instance while others create and change instances (it may
  where they `update` or `delete` them);
- flows: the furthest state is not lost, and an expression in a flow is reported
  to be in no state only if it has moved on meanwhile (that it never is would be
  better, and is documented, but is not so);
- Social DNA: what is found is complete; a class is added once;
- proxy: a subscription in use is kept alive and is the one listened to, and what
  was disposed of is let go.

### Other parts

The remaining components (perspective registry, notifications, migration of
SDNA, Prolog engines, language controller, agents and capabilities, users, AI,
Holochain conductor, GraphQL, MCP, PubSub, runtime, Rust client, user
interfaces, test waker) are listed with their sources and the reason for their
status in `PROJECT.json` "components".

## 2. Modules

| Module | Models | Role |
|---|---|---|
| `RevisionGraph` | the DAG of `PerspectiveDiffEntryReference`s | `Ancestors` as the least parent-closed set; no recursion, so that it can be reasoned about in proofs |
| `PerspectiveDiffSync` | the coordinator zome and the DHT as `validate` shapes it | one action per zome call outcome; every broadcast ever sent may be delivered at any time, any number of times |
| `PerspectiveCRDT` | nothing in particular | abstract specification: replicas that add new diffs and join published versions |
| `Workspace` | `workspace.rs`, `topo_sort.rs` | the search as a state machine, checked against `Ancestors`: it justifies that `PerspectiveDiffSync` uses `Ancestors` for `pull` |
| `CommitCall` | `commit()` of the zome as a call that takes its time | extends `PerspectiveDiffSync` with a beginning and an end of each commit, other calls in between: it justifies that `PerspectiveDiffSync` makes it one step |
| `LinkAdapter` | `linksAdapter.ts` and its caller `nh_sync_loop` | extends `PerspectiveDiffSync` with the adapters of N agents, which call the zome |
| `CommitQueue` | the outgoing side of `PerspectiveInstance` | mutations, commit tasks, the queue and the loops of one executor, against a link language that may fail |
| `SharedLinks` | the incoming side of `PerspectiveInstance`, over the zome | extends `PerspectiveDiffSync` with the links and the stores of N executors |
| `Snapshots` | `snapshots.rs`, `collect_only_from_latest` | extends `Workspace` with snapshots and the two walks that use them, on the same DAG |
| `QuerySubscriptions` | the subscriptions of `PerspectiveInstance`, and of their clients what these see | the check loop step by step, between changes of the links and clients that come and go |
| `SubscriptionProxy` | `QuerySubscriptionProxy` of the client | the timers, calls and listeners of one proxy, against an executor that forgets subscriptions and fails |
| `LinkCommands` | commands and batches of `PerspectiveInstance` | how the requests of several clients are carried out on the links of one expression; no specification of its own |
| `ModelUpdates` | `Ad4mModel`: one instance | extends `LinkCommands` with the requests of `save`, `update`, `delete`, `setSingleTarget` and what `get` shows |
| `ModelQueries` | `Ad4mModel`: `paginate` | extends `LinkCommands` with clients that create and change instances and a reader |
| `Flows` | flows of `PerspectiveProxy` | extends `LinkCommands` with flow actions and the queries of `flowState` |
| `SocialDNA` | shapes, classes and flows as links | adding them link by link and reading them by several queries |
| `RevisionGraph_proofs`, `PerspectiveDiffSync_proofs`, `CommitQueue_proofs`, `QuerySubscriptions_proofs` | | lemmas and theorems about the module of that name |
| `Neighbourhood_proofs` | | the same for what runs on the zome, `LinkAdapter`, `SharedLinks` and `CommitCall` |
| `Snapshots_proofs` | | the same for `Workspace` and `Snapshots` |
| `SocialDNA_proofs` | | the same for `Flows` and `SocialDNA` |
| `Client_proofs` | | the same for `ModelUpdates`, `ModelQueries` and `SubscriptionProxy` |
| `MCZome` | | `CommitCall` and `SharedLinks`, one of them per behaviour, over one zome |
| `MCLinkAdapter`, `MCQuerySubscriptions`, `MCFlows` | | reachable initial states, narrower instances, the flow of the documentation |
| `MCTwoScribes` | | three adapters after one fork was merged twice, with the schedules TLC can take |
| `MCComponents` | | `ModelUpdates`, `ModelQueries`, `Flows`, `SocialDNA` and `SubscriptionProxy` side by side: they share no state, so in each behaviour one of them runs |

### PerspectiveDiffSync

An entry's hash is its index in `entries`. `held[a]` and `chunks[a]` say what
agent `a`'s `get` returns; `Integrate` and `FetchChunks` let entries arrive in
any order in which `validate` finds their dependencies. `current[a]` is the
newest `LocalHashReference`; `signals[a]` is the log of what `emit_signal`
handed to the executor, kept as sets of the entries whose links were emitted.
Links themselves are not modelled: a diff is told apart by its entry.

| Action | Code |
|---|---|
| `Commit` | `commit()`; fails when the current revision cannot be retrieved |
| `BroadcastCurrent` | `sync()`, i.e. `broadcast_current()` |
| `FastForwardSignal`, `IgnoreSignal` | `handle_broadcast()` |
| `PullInitial`, `PullFastForward`, `PullMerge`, `PullNothing` | `pull()` and `merge()` by the return they take |
| `Integrate`, `FetchChunks` | arrival of entries, `validate()` |

A zome call is atomic: Holochain commits the writes of a call together, or not
at all when the chain head moved. Calls that fail leave no trace and are
stuttering steps.

`commit` is the one call that may wait for long, up to ten times for each of its
chunks. `CommitCall` takes it apart: `CallCommit` reads the current revision
(`initial`), any other calls follow, `FinishCommit` creates the entry on top of
`initial` if that is still current (`commit.rs:174`), `AbortCommit` is each of the
errors. The properties of the zome are checked with commits like that, and
`CommitsInOneStep`, which is proved, says that they implement the one step that they
are in `PerspectiveDiffSync`.

### LinkAdapter

`sync()` is three phases per agent: `Sync` (broadcast, refresh of
`myCurrentRevision`), `StartGossip` (drop silent peers, decide the scribe,
report the sync state), then `GossipRound`s until `EndGossip`. `HandleSignal`
may come between any two of them, because `handleHolochainSignal` takes no
mutex; `CommitLinks` waits for the mutex. `Restart` empties everything the adapter
keeps in memory and keeps the zome's state. `gossip` takes the revision `pull`
returns only if it is a `Buffer` (`linksAdapter.ts:181`), and the executor hands
over a `Uint8Array`
(`rust-executor/src/holochain_service/holochain_service_extension.js:25`), so
the cache is refreshed by `sync` and `commit` only.

### Workspace

`Grow` builds any DAG agents can build (commits on top of anything or nothing,
merges of forks, the parents in either order), `Pull` chooses two revisions.
`CloseBranch`, `Meet`, `ReachEnd` and `FollowParents` are the branches of the
loop body of `collect_until_common_ancestor`, with its `break`s; `NextTurn` is
the alternation between the sides. `Sort` is `sort_graph` and the computation of
the side branches, `Explore` the next search for a side branch (picked by
largest hash in the code, so any), `Decide` is `build_graph`, the topological
sort and `pull`'s verdict.

### Snapshots

`since` is `diffs_since_snapshot`: `commit` counts on from its parent and makes a
snapshot when it gets to `SNAPSHOT_INTERVAL`, `merge` adds up both parents.
`UseSnapshot` and `VisitParents` are the branches of the loop of
`generate_snapshot`, `CloseKnownBranch`, `CollectSnapshot` and `CollectEntry`
those of `collect_only_from_latest`. `get_links` looks into the local store only,
so either loop may find an entry that should have a snapshot without one, and
goes on to its parents. `seen` of `generate_snapshot` also stands for the diffs
it gathers: the code loads a diff where it marks its entry. A zome call is
atomic, so the DAG does not grow while a walk is under way. A snapshot's content
may be collected a second time by way of a branch that it covers in part; this
is left out (collected diffs are a set), because `diff_from_link_language` and
the store do not keep a link twice.

### CommitQueue

A mutation (`Mutate`) writes the store and spawns one task for its diff;
`commit_batch` (`CommitBatch`, `PersistBatch`) spawns the task first, and only
if a link language is installed, and writes the store afterwards. `task[d]` is
how far `commit(d)` has come, one stage per `await` at which the other tasks and
the loops can get in between:

| Stage, action | Code |
|---|---|
| `spawned`, `CheckQueue` | is anything pending? Then the diff is queued, too |
| `unqueued`, `CheckRevision` | is there a language, has it a revision? |
| `waiting`, `TakeImmediate` | lock `immediate_commits_remaining` and take one |
| `committing`, `CommitDirectly` or `DirectCommitFails` | the call of the link language, with the counter still locked |
| `failed`, `Queue` | `add_pending_diff` |

`pending_diffs_loop` is `ReadQueue`, `CommitQueued` or `QueuedCommitFails`,
`ClearQueue`, `ResetCounter`: it reads a prefix of the rows, commits them
squashed, deletes the rows it has read and resets the counter.
`fallback_sync_loop` is `ReadStore`, `Render`, `Reshare` or `ReshareFails`.
`Restart` keeps the database (`store`, `pending`) and what the link language
has, and ends every task and loop. `skipped`, `lost` and `torn` are history
variables that record what a restart or a missing language did to a diff, so
that the properties can say exactly when a diff is excused. The extra run of
`ensure_public_links_are_shared` that `ensure_link_language` makes is left out:
the loop may run right after `InstallLanguage`.

### SharedLinks

`change[r]` is what the diff of entry `r` adds and removes. `Mutate` and
`Reshare` are a mutation and the fallback sync together with their commit, in
one step (what lies in between is `CommitQueue`); `Replicate` is any step of the
zome. A signal of the zome names the entries whose diffs are squashed into it,
and `ApplyDiff` is the task `diff_from_link_language` spawns for it:
`PersistRemovals` and `PersistAdditions` are the two halves of
`persist_link_diff`, and those of several tasks interleave. The links of an instance have the same source, predicate and target and
differ in their timestamps: `remove_link` of the store matches the timestamp and
the author as well, which `NothingMissing` depends on.

### QuerySubscriptions

One query of one user, asked by all clients, so that they share a subscription
(`FindExisting`) unless two of them look for one at the same time. Of the links
only the query's result (`store`) is kept.

| Action | Code |
|---|---|
| `Mutate`; `CommitBatch`, `PersistBatch` | a mutation writes and then spawns `spawn_prolog_facts_update`; a batch spawns first |
| `TriggerChecks` | that task |
| `StartRound`, `RunQuery`, `CompareResult`, `StoreResult`, `RemoveTimedOut` | `check_surreal_subscribed_queries`: copy ids and keepalives, then per subscription a future with a step per `await`, then the removals |
| `ClearTrigger` | the last line of `surreal_subscription_cleanup_loop` |
| `FindExisting`, `RunFirstQuery`, `InsertSubscription` | `subscribe_and_query_surreal` |
| `StartListening`, `Keepalive`, `Dispose`, `Vanish` | what a client's proxy calls of the executor |
| `Publish`, `MissKeepalive` | a task of `send_subscription_update`; 60 s without a keepalive |

`fresh` and `owed` are history variables: no guard reads them. `fresh` says that no link
changed since the last round began, and that no client was then about to insert an older
result, which the round cannot know of. `owed` are the clients that this round has to
tell: they listened to a subscription with another result, and no older update of it
was on its way (updates are tasks of their own and may overtake each other). With them
`RoundBringsUpToDate` can say of a round that has ended what it must have done, where
the liveness properties say only that something will happen.

The Prolog subscriptions (`check_subscribed_queries` and so on) are the same code
once more; `PROLOG_MODE` is `Disabled` in this build, where their loop returns at
once. The `#init#` repetitions of the first result are left out because the
client skips them. The proxy's timers and failing requests are in
`SubscriptionProxy`.

### LinkCommands, ModelUpdates, ModelQueries, Flows

A link is its predicate, target and time of signature; the source is fixed
(`ModelQueries`, which is about several, lets a predicate stand for a source and
a predicate). `step[c]` is how far client `c`'s request has come:

| Action | Code |
|---|---|
| `ListLinks` | `get_links` of a command that removes (`execute_commands`), or what the client itself reads before `linkMutations` |
| `FindLink`, `LinkNotFound` | the lookup of `remove_link`: the link, noted by a batch, or the error that ends the request |
| `DeleteLink` | the deletion, after the await that follows the lookup |
| `SignAdditions`, `AddLink` | `create_signed_expression`, then `persist_link_diff` |
| `NoteAdditions`, `CommitBatch`, `RemoveCommitted` | a batch: its diff, signed and applied at the end, removals first |
| `CommandDone`, `RequestDone` | the next command, the answer |

In `ModelUpdates` every client has a copy of the instance. `Update` sends a
command for each field the copy has a value for, `Save` sends all in one batch,
`SetSingleTarget` reads and sends one mutation, `Delete` sends the destructor's
removals. A writable property is replaced by `setSingleTarget`, a collection by
`collectionSetter`; `Object.entries` gives the fields in any order. Clients do not
wait for each other. `newest` remembers the latest link of each property that was
stored, for the property `LastWriteIsKept`.

In `ModelQueries` an instance is an expression with the flag of its class, and
`createdAt` is the time of its earliest link. `FetchPage` is one query and the
slice of the page. `disturbed` says that an `update` ran: `update` writes the flag
anew, as a field like any other, and thereby moves `createdAt`, so that an
instance may move past the reader. The comment at `Ad4mModel.ts:1922` ("This
ensures consistent pagination behavior") therefore holds for readers of
instances that are created, but not for those that are updated meanwhile. The
effect outlasts the `update`: run beside the `save` that creates the instance, it
may leave a link of the other property that is older than its flag, and whoever
sets that property later moves `createdAt`, with four writing requests or more. So
`disturbed` is reset at the start of a reading only when all is `Settled`: no request
under way, and every instance's flag among its oldest links.

In `Flows` an action adds the new state's link and then removes the old one's,
as in the documentation's example, and whether the expression is in the action's
`fromState` is checked by nobody. `flowState` asks for one state after the other,
in any order: `getFlow` reads them without an `ORDER BY` and `fromLinks` does not
sort them. An expression that moves from a state not yet asked for to one that
was is then found in neither. Transitions lead forward (`FlowAssumption`), which
the properties need, as no state is the furthest otherwise.

### SocialDNA

Three ways of adding: `addShacl` and `addFlow` store a shape's links with those of
its name last, `add_sdna` (called by `ensureSDNASubjectClass`) stores the names
first but under `sdna_change_mutex` and only if there is no class of the name.
`StoreNext` is one link of `persist_link_diff`, `LookUp`, `ListElements` and
`QueryLinks` are the queries of `getShacl` and `getFlow`. `Restart` ends requests
where they are. After a restart in the middle of `add_sdna` the class exists and is
never completed, because the next call finds it: `AddedOnceAndWhole` leaves that
case out (`torn`), and it is listed as a hazard.

### SubscriptionProxy

`calls`, `keepalives`, `timer` and `initTimer` are the awaits and timers of the
proxy, by what started them; `lostTimers` and `lostInitTimers` are those whose
field has been overwritten, which fire all the same. `SubscribeAnswered` is the
rest of `subscribe` after its request: it arms timers without clearing those that
a concurrent call armed. A keepalive loop that re-subscribes ends up with two
timers, so their number grows with every failure, although the comment at
`PerspectiveProxy.ts:107` describes one per subscription. `ExpireUnattended` and
`ExpireLate` are the executor's timeout. `gaveUp` marks that a `subscribe` failed:
neither the loop nor the timeout tries again then.

## 3. Runs

| Run | Instance | Shows |
|---|---|---|
| `zome` | 2 agents; either the zome alone, 5 entries, 1 less for a chunked commit or while a commit is under way; or under the stores, 2 links, 3 commits, 5 entries | `TypeOK`, `HistoryDelivered`, `NoDiffTwice`, `SignalsInCausalOrder`, `UnretrievableWasSignalled`, `MergesJoinForks`, `NeverRewinds`, `NothingMissing` |
| `linkadapter` | 2 agents, 2 commits, 4 entries; 1 stale broadcast and 1 dropped peer, or 1 chunked commit, or 1 restart | `NoForkIsStuck`, `SkippingLosesNothing`, `Convergence`, `EveryDiffArrives`, `EventuallySynced`, `ImplementsCRDT`, `UsesZome` |
| `linkadapter_two_scribes` | 3 agents after one fork was merged twice, at most 2 merges by the scribe who has not heard of the other | `MergesEnd`, `Convergence` |
| `workspace_graphs` | all DAGs of up to 6 entries, a snapshot every 2 | `FindsUnseen`, `NeverFails`, `SortsMoreEachRound`, `CollectsHistory` |
| `commitqueue` | 2 links, 2 mutations, 1 immediate commit, 1 restart | `TypeOK`, `NothingDropped`, `CommittedOnce`, `EveryDiffCommitted`, `NeighbourhoodCatchesUp` |
| `subscriptions` | 2 clients, 2 changes, 1 of them perhaps a batch, or 1 change and 1 missed keepalive | `RoundBringsUpToDate`, `SubscriptionsCatchUp`, `ListenersCatchUp`, `ClientsKeepASubscription` |
| `components` | one of: 2 clients, 1 property, 1 collection, 3 requests, 1 of them a `delete`; 2 clients, 3 instances, 3 writes, pages of 1; 2 clients, 3 states, 3 actions; 2 clients with different versions, 1 restart; 1 failure, 1 expiry, 1 timeout | `LastWriteIsKept`, `PagingMissesNothing`, `FurthestStateIsKept`, `OnlyMovesAreMissed`, `FoundIsComplete`, `AddedOnceAndWhole`, `KeepaliveGoesOn`, `ListensToWhatItKeeps`, `SubscribesAgain`, `DisposedIsReleased` |
| `commitqueue_overtaking` | 2 links, 2 mutations, no restart | a violation of `NoOvertaking` |
| `commitqueue_batches` | 2 links, 2 mutations, no restart | a violation of `BatchesAreAtomic` |
| `sharedlinks_consistency` | 2 agents, 2 links, 4 entries | a violation of `SameRevisionSameLinks` |
| `subscriptions_missed` | 1 client that listens, 2 changes | a violation of `EveryChangeIsDelivered` |
| `flows_order` | 2 clients, 3 states, 3 actions | a violation of `FlowStateAnswers` |

Why the bounds are enough to be interesting. Five entries hold two concurrent
commits, both scribes' merges of them and a commit on top, so a merge of merges
and an old broadcast arriving after it occur. Four agents add nothing to the
zome that two do not: a call involves one agent and one revision, and every
revision may be pulled by everyone. Six entries are the fewest with two roots, a
merge, a side branch that the first search misses and a branch below it; they
include all criss-cross merges. With a snapshot every two entries they also hold
snapshots made of snapshots, and a snapshot below one side of a merge while the
other leads around it; an interval of three was checked as well. The adapter's
runs bound commits (`MaxCommits`)
apart from entries (`MaxEntries`): the entries left over are for merges. In
`linkadapter`, `Convergence` says that the two agents do not use them up by
merging merges, since agents that cannot merge for want of entries would never
agree. The faults of `linkadapter` are taken one kind at a time
(`OneKindOfFaultSpec`); the safety properties are proved for all of them together.
In `zome` a commit may begin before and end after the other agent's commit and the
merge of both.

`linkadapter_two_scribes` starts from the state that this hazard leads to, which
is reachable from `Init`: agents 1 and 2 have merged one fork, because 2 has not
heard of 1. As long as it has not, 2 remains a scribe, and may merge what 3 passes
on of 1's merges, while 1 merges 2's. That this ends rests on 1's signals
reaching 2 some time. Weak fairness of their delivery does not say so: 1 broadcasts
another revision after each merge, so no single delivery stays enabled, and a
network that loses all of 1's signals to 2 and none of the others could keep both
merging for ever. A network like that is what the run excludes, by a bound:
after `MaxBlindMerges` merges of 2, a signal of 1 arrives before 2 goes on
(`HearsOfFirst`). `MergesEnd` then bounds all merges of the run, and
`MaxEntries` of 9 is beyond that bound, so that no agent is ever held up
for want of an entry: the largest DAG of the run has 7. Bounds of 1 and 3 were
checked as well. Three agents are too many for TLC in every schedule. So
one agent is busy at a time (`InTurns`), a merge arrives before anything else
happens (`ArrivesAtOnce`), and signals arrive when somebody has just broadcast
(`HeardBeforeGossip`); overlapping gossip and late entries are in `linkadapter`.
Each of these lets every state go on to what fairness obliges: a turn ends, since
no pull is stuck, an entry arrives at once, and the signal of a revision its author
stays at is sent again with each of its `sync`s. So no behaviour is discarded for
being unfair that could have been continued.

In `commitqueue` two
mutations are enough for every pair of task, queue and loop to meet, an update
to remove what another diff added, one diff to be over the limit of immediate
commits, and a restart to fall between any two steps; `MaxPending` of 2 lets the
loop read the queue in one piece or in two. Under the stores, three commits hold
an addition, its removal and a concurrent one, and the entries left hold a merge
by either member. In `subscriptions`
two changes let one fall into the round of the other, and two clients are enough
to share a subscription, to have two of the same query, and to take one from
each other; `MaxIds` of 4 is never reached by what is in use, or
`ClientsKeepASubscription` would fail for want of an id.

In `components` three requests are two that interleave and a third that starts
from what they left; a property and a collection differ in everything the code
distinguishes, and one value is enough for `LastWriteIsKept`, because links are
told apart by their time (two values and two properties were checked with fewer
requests). Three instances and pages of one let an instance be created before,
between and behind those the reader has seen, and change place in the order of the
stores; nobody deletes one, which would move those behind it. Three states in a row are the fewest in which a client may
ask for a state that others have already left for good. Two versions of a shape, of which one has an element more, let a reader meet a mixture
of both. In the proxy one failure, one expiry and one timeout already run three
calls of `subscribe` into each other; more timeouts add timers that do the same,
since the executor repeats its first message and an initialization timer seldom
fires.

Five runs state what a comment or a page of the documentation says and the
code does not do; `PROJECT.json` quotes them under "findings".

- `commitqueue_overtaking`: `commit` looks at the queue "to not overtake older
  commits" (`perspective_instance.rs:665`), but asks for the revision and waits
  for the counter between that look and its own commit. A diff that fails
  meanwhile is queued, and the newer one is committed before it.
- `commitqueue_batches`: `commit_batch` commits to the neighbourhood only if the
  link language is installed at that moment (`:4451`), where single mutations
  queue their diff. The fallback sync later shares a skipped batch's additions,
  never its removals, so an update appears as a second link: half of the batch.
- `sharedlinks_consistency`: what a member missed arrives as one diff with all
  additions and all removals (`pull.rs`, `Workspace::squashed_diff`), and
  removals are applied first. A link added and removed in that span stays in the
  store of the member that catches up, although nobody else has it and `render`
  does not return it. Since `render` never shows it, that member's fallback sync
  also commits it again every time it runs. This is why `NothingMissing` is
  stated in one direction only.

- `subscriptions_missed`: the loop clears the trigger after the round
  (`:4048`), so a change that came while the queries ran is not looked at until
  another one triggers a round; a client that listens keeps the old result,
  against `PerspectiveProxy.ts:253`. Two more ways to the same end appear with
  other bounds: from `Init`, a round between a subscription's first query and
  its insertion (`:4003`); with `MaxBatches` of 1, a batch that is written after
  the round it triggered (`:4488`). `SubscriptionsCatchUp` and
  `ListenersCatchUp` say what remains true: the next trigger that the idle loop
  sees repairs it.
- `flows_order`: the documentation has `flowState` return the "current state of an
  expression in a flow" (`social-dna.mdx:455`). One client asks for a later state,
  another runs the transition to it, the first asks for the earlier state and is told
  that the expression is in no state. `OnlyMovesAreMissed` says what remains true:
  asked again, after the moves, `flowState` finds it.

Deadlock is checked except in `workspace_graphs`, where a search that is done
has no next step, in the runs of `QuerySubscriptions`, where all clients may
have gone, and in `components` and `flows_order`, whose clients stop after their last
request. Every other run lets agents broadcast, or loops run, for ever.

Fairness (`LinkAdapter!Fairness`). `nh_sync_loop` calls `sync` for ever and
`sync` catches its errors, hence weak fairness of each of its phases. The DHT
eventually integrates every entry (`Arrive`). A revision at which its author
stays is broadcast on every `sync`, so eventually one of the broadcasts gets
through: weak fairness of delivering a current revision to a peer that does not
have it. Nothing obliges a commit, a stale delivery, a dropped peer or a
restart to happen.

Fairness (`CommitQueue!Fairness`). Spawned tasks and the loops run on: weak
fairness, and one conjunct for all commit tasks is enough because each ends
after a few steps. The language is installed some time after a restart
(`ensure_link_language` is a background task that tries until it is). The link
language may fail to commit, but not for ever, hence strong fairness of
`CommitQueued` and `Reshare`, which become disabled by each failure. A direct
commit may fail always, then it is queued.

Fairness (`QuerySubscriptions!Fairness`). Spawned tasks and the loop run on, the
proxy's timer sends keepalives as long as its client is there and requests are
answered: weak fairness. Changes, missed keepalives and leaving are not obliged.

Fairness (`SubscriptionProxy!ProxyFairness`). Timers fire, requests are answered,
if only by an error, and the executor's loop removes what timed out: weak
fairness. An error is obliged only where the executor has forgotten the
subscription. Subscribing, disposing, updates and initialization timeouts are not
obliged.

## 4. Proofs

Proved for any set of agents (finite for the adapters), any links, clients and
fields, and any bounds:

| Module | Theorem | States |
|---|---|---|
| `PerspectiveDiffSync_proofs` | `TypeCorrect` | `Spec => []TypeOK` |
| | `DeliveredExactlyOnce` | `Spec => [](HistoryDelivered /\ NoDiffTwice)` |
| | `RevisionsNeverRewind` | `Spec => NeverRewinds` |
| | `MergesOnlyForks` | `Spec => []MergesJoinForks` |
| | `NothingDeliveredTwice` | `Spec => []NoDiffTwice` |
| | `DiffsComeInCausalOrder` | `Spec => []SignalsInCausalOrder` |
| | `AheadOfDHTBySignalOnly` | `Spec => []UnretrievableWasSignalled` |
| | `Refinement` | `Spec => ImplementsCRDT` |
| `Neighbourhood_proofs` | `AdaptersUseZome` | `AdapterSpec => UsesZome`, so all of the above holds under the adapters |
| | `AdaptersImplementCRDT` | `AdapterSpec => ImplementsCRDT /\ [](HistoryDelivered /\ NoDiffTwice)`: the same from end to end |
| | `AdapterTypeCorrect` | `AdapterSpec => []AdapterTypeOK` |
| | `NothingLostBySkipping` | `AdapterSpec => []SkippingLosesNothing` |
| | `AtRestAllAgree` | `AdapterSpec => []NoForkIsStuck` |
| | `CommitIsOneStep` | `CallSpec => CommitsInOneStep /\ NeverRewinds`, so all of the above holds of commits that take their time |
| | `SharedLinksRunZome` | `SharedSpec => Spec`, so all of the above holds below the stores |
| | `SharedTypeCorrect` | `SharedSpec => []SharedTypeOK` |
| | `NoLinkMissing` | `SharedSpec => []NothingMissing` |
| `CommitQueue_proofs` | `TypeCorrect` | `Spec => []TypeOK` |
| | `NoDiffDropped` | `Spec => []NothingDropped` |
| | `CommitsAreNotRepeated` | `Spec => []CommittedOnce` |
| `QuerySubscriptions_proofs` | `TypeCorrect` | `Spec => []TypeOK` |
| | `RoundsBringUpToDate` | `Spec => []RoundBringsUpToDate` |
| `Snapshots_proofs` | `WorkspaceInvariant` | `WorkspaceSpec => []WorkspaceInv`, the invariant behind the next three |
| | `SnapshotsImplementWorkspace` | `SnapshotSpec => WorkspaceSpec`: snapshots leave the search alone |
| | `PullFindsUnseen` | `SnapshotSpec => []FindsUnseen` |
| | `PullNeverFails` | `SnapshotSpec => []NeverFails` |
| | `RoundsSortMore` | `SnapshotSpec => SortsMoreEachRound` |
| | `WalksCollectHistory` | `SnapshotSpec => []CollectsHistory` |
| `SocialDNA_proofs` | `FlowTypeCorrect` | `FlowSpec => []FlowTypeOK` |
| | `FurthestStateNeverLost` | `FlowSpec => []FurthestStateIsKept` |
| | `OnlyMovedOnIsMissed` | `FlowSpec => []OnlyMovesAreMissed` |
| | `DnaTypeCorrect` | `DnaSpec => []DnaTypeOK` |
| | `WhatIsFoundIsComplete` | `DnaSpec => []FoundIsComplete` |
| | `ClassAddedOnce` | `DnaSpec => []AddedOnceAndWhole` |
| `Client_proofs` | `ModelTypeCorrect` | `ModelSpec => []ModelTypeOK` |
| | `LastWriteNeverLost` | `ModelSpec => []LastWriteIsKept` |
| | `ProxyTypeCorrect` | `ProxySpec => []ProxyTypeOK` |
| | `LoopNeverStops` | `ProxySpec => []KeepaliveGoesOn` |
| | `KeepsWhatItHears` | `ProxySpec => []ListensToWhatItKeeps` |
| | `QueryTypeCorrect` | `QuerySpec => []QueryTypeOK` |
| | `PagesMissNothing` | `QuerySpec => []PagingMissesNothing` |

Assumptions: `MaxEntries`, `MaxChunked` and the limits and bounds of
`LinkAdapter` and `CommitQueue` are natural numbers, `MaxPending` is not zero.
Nothing is assumed of `Links`, and of `Agents` only by `LinkAdapter`, which
compares DIDs and counts peers: there they are finitely many positive numbers. `FieldsAssumption` says that the
fields of a class are finitely many and a property is not a collection as well,
`FlowAssumption` that a flow's transitions lead forward, `VersionAssumption` that a
version of a shape is a sequence of elements, `QueriesAssumption` that expressions
are finitely many and a page is not empty; that the snapshot interval is positive is
all `Snapshots` asks for; `ResultsAssumption` that a query has some result and none is
`null`. The bounds may be as large as one likes, so the theorems
hold for neighbourhoods without them.

Where a type invariant is proved, a run need not check it again: `AdapterTypeOK`,
`SharedTypeOK` and the types of `QuerySubscriptions` and of the parts of `MCComponents` are no properties of runs.

The argument for the zome. `RevisionGraph_proofs` shows that `Ancestors` is itself
parent-closed, that it is monotone and contains its starting point, that the
ancestors of a new entry are itself and the ancestors of its parents, and that
appending an entry leaves the ancestors of the older ones alone. With these the
four properties become statements about sets. `TypeOK` and
`ParentsAreOlder` are inductive together. `HistoryDelivered` is not inductive
alone: that a fast-forward emits exactly what is new needs `NoDiffTwice` for the
diffs already emitted, and both need to know that entries with several parents
carry no diff (`MergesHaveTwoParents`), because `handle_broadcast` accepts only
an entry with a single parent. The inductive invariant is
`IInv == TypeOK /\ MergesHaveTwoParents /\ HistoryDelivered /\ NoDiffTwice`.
`NeverRewinds` and the refinement follow from `IInv` step by step: a commit maps
to `Commit`, a fast-forward, an initial pull or a merge to `Learn` of the version
at the other revision, everything else to a stutter. The refinement mapping is
`known[a]` = the diffs in the history of `current[a]`, `versions` = the diffs in
the history of each entry.

For the order of signals and for revisions ahead of the DHT (`OrderInv`), every
step is shown to be an `Advances`: an agent is told only what its history does not
contain yet, and what enters its history it holds or was just told. The first half
gives `SignalsInCausalOrder`: what was emitted earlier is in the history
(`HistoryDelivered`), so its ancestors are, and a new signal contains none of them.
The second half gives `UnretrievableWasSignalled`; it needs that whatever an agent
holds comes with its ancestors (`HeldIsClosed`), which `Integrate` respects and
which `commit` and `merge` keep, since they create entries on retrievable parents only.

The argument for the adapter (`AdapterInv`). `Pull` in the zome expects a revision
that was broadcast. The adapter pulls from the set it collected when gossip
started, possibly many signals ago, so the invariant `KnownWereBroadcast` says it
of everything in `peers` and `revisions`; it is preserved because `sent` only
grows. Hence every step is a zome step or a stutter, and `AdaptersUseZome`
follows. For `NothingLostBySkipping`: the cache only ever takes the zome's
revision of the moment (`CacheStep`), and no later step of anybody takes
anything out of that revision's history (`StepNeverRewinds`).

`NoForkIsStuck` is the safety half of `Convergence`: fairness brings the adapters to
where nobody has anything to gossip, and there all are at one revision. Of agents that
know each other the least is the scribe (`LeastNat`), so it is never left forked from
another, and has everyone's revision in its history: because it pulled it, or because its
cache let it skip it (`SkippingLosesNothing`). An agent whose revision is in the
scribe's history could fast-forward; if it cannot, it has the scribe's revision in its
history, too, and of two revisions in each other's history neither is older.

The argument for commits that take their time: while `initial` is still the current
revision, its entry is as retrievable as it was (`InitialRetrievable`, `HeldGrows`), so
`FinishCommit` is a `Commit` of that moment.

The argument for the shared links (`SharedInv`). Every step of the composition
is a step of the zome or none, so `IInv` holds along it. A link rendered after a
step was rendered before or is added by a diff that the step added to the
history (`RenderedLinks`). By `HistoryDelivered` such a diff is the member's
own, whose links its store has, or was emitted in this step and waits. What is
applied removes only what the history removes, because every emitted diff is in
the history, so nothing rendered is taken away. This needs that a removal
matches exactly the link it is about; it does not need any order of the tasks.

The argument for the queue (`CommitQueue_proofs!IInv`). `NothingDropped` and
`CommittedOnce` need to know where a diff is: with its task or in the queue,
never both (`OneTaskOrQueue`), in one row (`QueuedOnce`), and nowhere before it
was made (`OnlyMade`). The rows the loop has read stay the first ones of the
queue until it clears them (`ReadIsPrefix`), so it clears exactly what it
committed (`ClearsCommitted`) and leaves what came meanwhile. `QueuedCommits`
says why a row can be committed twice: only a restart comes between its commit
and its clearing.

The argument for the subscriptions (`QuerySubscriptions_proofs!IInv`). While no link
changes, every result that a round queries is the store's, and so is what clients insert
meanwhile; a subscription with another result is still to be checked or has timed out
(`OldOnesAreChecked`). A future that ends without storing found the result to be the
same. A listener that the round owes the result has it, or it is on its way, or his
subscription has timed out, or the future that compares the two is still to come
(`GetsResult`): it is sent before it is stored, so at no step it is neither. No older
update comes behind it, since all that are sent in such a round have the store's result
(`NewUpdates`). A new subscription's id is one that nobody has (`InsertedId`), otherwise
it would pass for somebody's subscription that ended. When the round is over no future
and no removal is left (`OnlyInRound`), which leaves the first two cases.

The argument for the search (`Snapshots_proofs!WorkspaceInv`). `Above(n)` is where
back links lead to from `n`, a least closed set like `Ancestors`, turned around. A
search has two starting points, `a` on their side and `b` on ours: at first the two
revisions, later a side branch and the common ancestor found before. Whatever a
side has met leads back to its start (`LeadsBack`), so where they meet lies below
both (`CommonOK`); the two revisions are above `a` or `b`, and all that was sorted
before is above `b` (`SearchOK`). The next round therefore sorts it again, and `a` in
addition, which no round had sorted: that is `RoundsSortMore`. Nothing is looked up
that was not loaded, since back links lead to loaded entries only (`LinksOK`). When no
side branch is left, the sorted entries contain the parents of all entries above the
common ancestor (`Mentioned(sorted) \subseteq sorted`), and every sorted entry has the
common ancestor, if there is one, among its ancestors. In the graph that `build_graph`
makes, where the common ancestor has no parents, a sorted entry then has the same
ancestors among the sorted ones as in the whole DAG, and what is not sorted is an
ancestor of the common one and thereby of both revisions; `FindsUnseen` follows.

The argument for the snapshots (`WalkInv`). What a walk has gone through and the
branches still to come contain the revision and, with each entry gone through, its
parents (`Reaches`). Closing a branch, stopping at a snapshot, which holds the whole
history of its entry (`SnapshotsOK`), and following parents keep this up, wherever a
link is found or not. When no branch is left, what was gone through is closed under
parents and contains the revision, hence all ancestors, which are the least such set.

The argument for Social DNA (`SocialDNA_proofs!DnaInv`). With the name stored last
(`NameComesLast`), what a client still has to store is an end of its list and all
before it is stored (`Storing`); so where the name is, some client's whole version is,
and since nothing is removed, it still is when the later queries ask for its elements.
A restart takes away the rest of a list and with it the name. For `add_sdna` the mutex
makes checking and storing the business of one client (`OneAtATime`): between two of
them there is nothing or the whole class of one client, and who checks finds it.

The argument for the models (`Client_proofs!ModelInv`). That the newest
link of a property is stored is not inductive, since requests remove links they
read long ago. As long as nobody calls `delete()`, whoever removes a link of a
property goes on to write one: `KeptOrWritten` says that the newest link is stored,
or some client has signed a later one and not yet stored it (`Writes`), or a direct
request has removed what it found and signs next (`WillWrite`). For this the requests
must be of the shape that clients send, with one value per property, and remove
links of the property they write, the latest last (`CommandsFit`), so that a request
that fails because a link is gone has not removed the newest one. No link anybody
still knows of may be later than the newest (`NewestIsLatest`), signatures must not
repeat (`OneLinkPerTime`, `SignedApart`), and nothing may have been stored yet with
the time of an addition (`AdditionsAreFresh`). These hold while `deletes = 0`; types
and the phases of requests (`RequestsOK`) hold always. At the end no request is
under way, so the first case is left, which is `LastWriteIsKept`.

The argument for reading page by page (`Client_proofs!QueryInv`). A page is a range of
places in the order by `createdAt`, so an instance is missed only if it moves to an
earlier place. While no `update` runs (`Calm`), an instance comes into being with its
flag's addition, by a client that is alone with it until then (`MakersAlone`), and the
flag's time is and remains the earliest of its links, those on their way included
(`FlagsFirst`): what is signed later is later, and no calm request removes a flag.
Hence `createdAt` never changes and no instance goes; new ones can only push others back. An
instance that the reader does not have yet is therefore not before his page
(`SeenOrComes`), and no page is left when he ends.

The argument for the flows (`SocialDNA_proofs!FlowInv`). A command that removes a
state's links comes after one that added a later state
(`AddsItsState`, `RemovesEarlierStates`), so what is about to be removed are
links of states before the furthest (`FoundEarlierStates`), which is never removed.
For `OnlyMovesAreMissed`: as long as the furthest state is the one of the time of the
call, `flowState` has not asked for it yet (`FurthestIsUnchecked`), since it would have
found it there, in whatever order it asks. So when no state is left to ask for, there
is a later one.

The argument for the proxy (`Client_proofs!ProxyInv`). Each step that
ends a timer, a keepalive or a call starts another one or sets `gaveUp` or
follows `disposed`, except the clearing of timers by `Subscribe`, which starts a
call. Each call that is answered listens to the id it sets, in one turn of the event
loop, and the executor has one subscription at a time, so as soon as no call is under
way the current `id` is listened to. The two properties are inductive by themselves
once the types are known.

Left to TLC, and why:

- liveness under fairness: `Convergence`, `EveryDiffArrives`, `EventuallySynced`,
  `EveryDiffCommitted`, `NeighbourhoodCatchesUp`, `SubscribesAgain`,
  `DisposedIsReleased`, `SubscriptionsCatchUp`, `ListenersCatchUp` and
  `ClientsKeepASubscription`. They rest on `WF_` and `SF_`, that is on `ENABLED`,
  which the prover does not handle;
- `MergesEnd`, which is about one initial state and the schedules of that run;
- the composition in `MCComponents`, which only saves runs: the theorems are about its
  parts, each under its own specification;
- the violations: a counterexample is its own proof.

No module that is proved about declares a `RECURSIVE` operator, which would cost it
the SMT solver; for that reason `Ancestors` and `Above` are least fixed points. The
library's induction theorems, which take a predicate as a parameter, are not usable
here; where an induction over numbers is needed, as for `Dedup`, which the search
calls at the end of each turn, the least counterexample is taken instead (`LeastNat`).

## 5. What is not modelled, and why

Simplifications inside what is modelled: a chunked diff's chunks arrive together;
`PullInitial` emits the whole history in one step, and `Snapshots` shows that the
walk behind it finds just that; the retries of `commit` in the adapter are the
zome's `Commit` taken later; wall-clock intervals are nondeterministic. In
`QuerySubscriptions` queries and requests do not fail: the code only logs the
former, the latter are in `SubscriptionProxy`. In `LinkCommands` every direct
request is of one client and links are those of one source; a write that fails
in the middle of a diff is a hazard without a property, since `persist_link_diff`
just returns the error. Filters, ordering by other fields, relations and the
SurrealQL that `Ad4mModel` generates are data and left out.

Not modelled, with the reason in `PROJECT.json`:

- user interfaces (`ui`, `connect`, `dapp`), bundled JavaScript languages and test
  fixtures, which make up most of the repository's lines: rendering, or code built
  from elsewhere;
- services of the executor that wrap something external (Holochain, Prolog engines,
  JavaScript runtimes, AI models, SMTP), and the API layers (GraphQL, MCP, Rust
  client, CLI) that check a capability and delegate;
- telepresence and DID links, notifications, the registry of perspectives, agents,
  capabilities and user sessions: state machines of their own, which link sharing
  does not depend on. They are what could be modelled next, in this order, and
  after them the translation between SHACL, SDNA and Prolog, which is sequential.
