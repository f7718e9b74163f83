------------------------------ MODULE CommitQueue ------------------------------
(***************************************************************************)
(* perspective_instance.rs: how one executor hands the changes of a shared *)
(* perspective to the link language.  Every mutation spawns a task that    *)
(* commits its diff at once or queues it in the database; one loop commits *)
(* what is queued, squashed; another compares the store with the link      *)
(* language's render and commits the links that are missing there.         *)
(*                                                                         *)
(* All links here are shared ones.  A link is signed with a timestamp, so  *)
(* it is added once.  The link language is its set of committed changes.   *)
(***************************************************************************)
EXTENDS Integers, Sequences, FiniteSets, SequencesExt

CONSTANTS Links,            \* the link expressions of a behaviour
          ImmediateCommits, \* IMMEDIATE_COMMITS_COUNT
          MaxPending,       \* MAX_PENDING_DIFFS_COUNT
          MaxMutations,     \* bound: mutations in a behaviour
          MaxRestarts       \* bound: restarts of the executor

ASSUME BoundsAssumption ==
    /\ {ImmediateCommits, MaxMutations, MaxRestarts} \subseteq Nat
    /\ MaxPending \in Nat \ {0}

Addition(l) == [additions |-> {l}, removals |-> {}]
Removal(l) == [additions |-> {}, removals |-> {l}]
Update(old, new) == [additions |-> {new}, removals |-> {old}]

Diffs == {Addition(l) : l \in Links} \cup {Removal(l) : l \in Links}
         \cup {Update(m[1], m[2]) : m \in {n \in Links \X Links : n[1] # n[2]}}

AdditionsOf(ds) == UNION {d.additions : d \in ds}
RemovalsOf(ds) == UNION {d.removals : d \in ds}

VARIABLES
    store,      \* the links in SurrealDB, on disk
    pending,    \* the rows of perspective_diff in the order of their ids, on disk
    task,       \* task[d]: where the spawned commit(d) is, "none" if there is none
    unwritten,  \* diffs of batches that are committed but not written to the store yet
    language,   \* is link_language set?
    revision,   \* has the link language a current revision?
    remaining,  \* immediate_commits_remaining
    flush,      \* commit_pending_diffs(): its stage and the rows it has read
    fallback,   \* ensure_public_links_are_shared(): its stage and the links it works on
    committed,  \* committed[d]: how often the link language accepted d
    reshared,   \* links the link language accepted from the fallback sync
    mutations,  \* every diff made, in order
    skipped,    \* batches made without a link language, never to be committed
    lost, torn, \* diffs whose task, or whose write to the store, ended with a restart
    restarts    \* counter behind the bound

disk == <<store, pending, committed, reshared, revision>>
loops == <<flush, fallback>>
history == <<mutations, skipped, lost, torn, restarts>>
vars == <<disk, task, unwritten, language, remaining, loops, history>>

Stages == {"none", "spawned", "unqueued", "waiting", "committing", "failed"}

Idle == [stage |-> "idle", diffs |-> <<>>]
Asleep == [stage |-> "asleep", links |-> {}]

Made == ToSet(mutations)
Pending == ToSet(pending)
Committed == {d \in Diffs : committed[d] > 0}

\* render(): the additions of the whole history without those removed anywhere in it.
Rendered == (AdditionsOf(Committed) \cup reshared) \ RemovalsOf(Committed)

Init ==
    /\ store = {} /\ pending = <<>>
    /\ task = [d \in Diffs |-> "none"]
    /\ unwritten = {}
    /\ language = FALSE /\ revision = FALSE
    /\ remaining = ImmediateCommits
    /\ flush = Idle /\ fallback = Asleep
    /\ committed = [d \in Diffs |-> 0]
    /\ reshared = {}
    /\ mutations = <<>>
    /\ skipped = {} /\ lost = {} /\ torn = {} /\ restarts = 0

-----------------------------------------------------------------------------
(* Mutations *)

\* New links are new; links are removed when they are found in the store.
Makes(d) ==
    /\ Len(mutations) < MaxMutations
    /\ d \notin Made
    /\ d.additions \cap AdditionsOf(Made) = {}
    /\ d.removals \subseteq store
    /\ mutations' = Append(mutations, d)

\* persist_link_diff(): removals first.
Persist(d) == store' = (store \ d.removals) \cup d.additions

\* spawn_commit_and_handle_error()
SpawnCommit(d) == task' = [task EXCEPT ![d] = "spawned"]

\* add_link, add_links, link_mutations, update_link, remove_link(s) without a batch.
Mutate(d) ==
    /\ Makes(d)
    /\ Persist(d)
    /\ SpawnCommit(d)
    /\ UNCHANGED <<pending, committed, reshared, revision, unwritten, language, remaining,
                   loops, skipped, lost, torn, restarts>>

\* commit_batch() up to the write: it spawns a commit only if there is a link language.
CommitBatch(d) ==
    /\ Makes(d)
    /\ IF language THEN SpawnCommit(d) /\ UNCHANGED skipped
                   ELSE skipped' = skipped \cup {d} /\ UNCHANGED task
    /\ unwritten' = unwritten \cup {d}
    /\ UNCHANGED <<disk, language, remaining, loops, lost, torn, restarts>>

PersistBatch(d) ==
    /\ d \in unwritten
    /\ unwritten' = unwritten \ {d}
    /\ Persist(d)
    /\ UNCHANGED <<pending, committed, reshared, revision, task, language, remaining, loops, history>>

-----------------------------------------------------------------------------
(* commit(), one task per diff *)

MoveTask(d, from, to) == task[d] = from /\ task' = [task EXCEPT ![d] = to]

\* "to not overtake older commits but instead add this one to the queue"
CheckQueue(d) ==
    /\ MoveTask(d, "spawned", IF pending = <<>> THEN "unqueued" ELSE "failed")
    /\ UNCHANGED <<disk, unwritten, language, remaining, loops, history>>

\* Without a language or a revision the diff is queued.  So it is when asking for the
\* revision fails, by the handler of the spawned task.
CheckRevision(d) ==
    /\ \/ language /\ revision /\ MoveTask(d, "unqueued", "waiting")
       \/ MoveTask(d, "unqueued", "failed")
    /\ UNCHANGED <<disk, unwritten, language, remaining, loops, history>>

\* immediate_commits_remaining stays locked while the link language commits.
CounterFree == \A d \in Diffs : task[d] # "committing"

\* mutant: the counter is not compared with zero
TakeAlways(d) ==
    /\ CounterFree
    /\ MoveTask(d, "waiting", "committing") /\ remaining' = remaining - 1
    /\ UNCHANGED <<disk, unwritten, language, loops, history>>

TakeImmediate(d) ==
    /\ CounterFree
    /\ IF remaining > 0
       THEN MoveTask(d, "waiting", "committing") /\ remaining' = remaining - 1
       ELSE MoveTask(d, "waiting", "failed") /\ UNCHANGED remaining
    /\ UNCHANGED <<disk, unwritten, language, loops, history>>

\* The link language has the diffs ds; it has a revision from now on.
Accept(ds) ==
    /\ committed' = [d \in Diffs |-> committed[d] + (IF d \in ds THEN 1 ELSE 0)]
    /\ revision' = TRUE

\* mutant: a commit that reports no revision is queued although it was accepted
CommitUnnoticed(d) ==
    /\ MoveTask(d, "committing", "failed")
    /\ Accept({d})
    /\ UNCHANGED <<store, pending, reshared, unwritten, language, remaining, loops, history>>

CommitDirectly(d) ==
    /\ MoveTask(d, "committing", "none")
    /\ Accept({d})
    /\ UNCHANGED <<store, pending, reshared, unwritten, language, remaining, loops, history>>

\* An error, or no revision: the adapter gives up after five attempts.
DirectCommitFails(d) ==
    /\ MoveTask(d, "committing", "failed")
    /\ UNCHANGED <<disk, unwritten, language, remaining, loops, history>>

\* add_pending_diff()
Queue(d) ==
    /\ MoveTask(d, "failed", "none")
    /\ pending' = Append(pending, d)
    /\ UNCHANGED <<store, committed, reshared, revision, unwritten, language, remaining, loops, history>>

-----------------------------------------------------------------------------
(* pending_diffs_loop() and commit_pending_diffs() *)

\* mutant: waits for a revision, as commit() does
ReadQueueOnceSynced ==
    /\ flush.stage = "idle" /\ language /\ revision
    /\ \E n \in 1..Len(pending) :
        /\ n <= MaxPending
        /\ flush' = [stage |-> "committing", diffs |-> SubSeq(pending, 1, n)]
    /\ UNCHANGED <<disk, task, unwritten, language, remaining, fallback, history>>

\* Any number of the oldest rows, as their size allows.  The loop does not ask whether
\* there is a revision: the first commit of a neighbourhood goes this way.
ReadQueue ==
    /\ flush.stage = "idle" /\ language
    /\ \E n \in 1..Len(pending) :
        /\ n <= MaxPending
        /\ flush' = [stage |-> "committing", diffs |-> SubSeq(pending, 1, n)]
    /\ UNCHANGED <<disk, task, unwritten, language, remaining, fallback, history>>

\* The diffs are committed as one.
CommitQueued ==
    /\ flush.stage = "committing"
    /\ Accept(ToSet(flush.diffs))
    /\ flush' = [flush EXCEPT !.stage = "clearing"]
    /\ UNCHANGED <<store, pending, reshared, task, unwritten, language, remaining, fallback, history>>

QueuedCommitFails ==
    /\ flush.stage = "committing"
    /\ flush' = Idle
    /\ UNCHANGED <<disk, task, unwritten, language, remaining, fallback, history>>

ClearAll(read) == <<>> \* mutant: clears every row of the perspective

\* clear_pending_diffs() with the ids that were read: ids grow and nobody else deletes rows,
\* so these are still the oldest ones.
StillPending(read) == SubSeq(pending, Len(read) + 1, Len(pending))

ClearQueue ==
    /\ flush.stage = "clearing"
    /\ pending' = StillPending(flush.diffs)
    /\ flush' = [Idle EXCEPT !.stage = "resetting"]
    /\ UNCHANGED <<store, committed, reshared, revision, task, unwritten, language, remaining,
                   fallback, history>>

ResetCounter ==
    /\ flush.stage = "resetting" /\ CounterFree
    /\ remaining' = ImmediateCommits
    /\ flush' = Idle
    /\ UNCHANGED <<disk, task, unwritten, language, fallback, history>>

-----------------------------------------------------------------------------
(* fallback_sync_loop() and ensure_public_links_are_shared() *)

ReadStore ==
    /\ fallback.stage = "asleep" /\ language
    /\ fallback' = [stage |-> "rendering", links |-> store]
    /\ UNCHANGED <<disk, task, unwritten, language, remaining, flush, history>>

\* mutant: without a revision there is nothing to compare with
RenderOnceSynced ==
    /\ fallback.stage = "rendering"
    /\ LET missing == fallback.links \ Rendered
       IN  fallback' = IF ~revision \/ missing = {} THEN Asleep
                       ELSE [stage |-> "sharing", links |-> missing]
    /\ UNCHANGED <<disk, task, unwritten, language, remaining, flush, history>>

\* A render that fails counts as an empty one.
Render ==
    /\ fallback.stage = "rendering"
    /\ \E rendered \in {Rendered, {}} :
        LET missing == fallback.links \ rendered
        IN  fallback' = IF missing = {} THEN Asleep
                        ELSE [stage |-> "sharing", links |-> missing]
    /\ UNCHANGED <<disk, task, unwritten, language, remaining, flush, history>>

Reshare ==
    /\ fallback.stage = "sharing"
    /\ reshared' = reshared \cup fallback.links
    /\ revision' = TRUE
    /\ fallback' = Asleep
    /\ UNCHANGED <<store, pending, committed, task, unwritten, language, remaining, flush, history>>

ReshareFails ==
    /\ fallback.stage = "sharing"
    /\ fallback' = Asleep
    /\ UNCHANGED <<disk, task, unwritten, language, remaining, flush, history>>

-----------------------------------------------------------------------------

\* ensure_link_language()
InstallLanguage ==
    /\ ~language
    /\ language' = TRUE
    /\ UNCHANGED <<disk, task, unwritten, remaining, loops, history>>

\* The link language pulls a peer's revision.
PullFromPeers ==
    /\ language /\ ~revision
    /\ revision' = TRUE
    /\ UNCHANGED <<store, pending, committed, reshared, task, unwritten, language, remaining,
                   loops, history>>

\* Only what is on disk survives.
Restart ==
    /\ restarts < MaxRestarts
    /\ restarts' = restarts + 1
    /\ lost' = lost \cup {d \in Diffs : task[d] # "none"}
    /\ torn' = torn \cup unwritten
    /\ task' = [d \in Diffs |-> "none"]
    /\ unwritten' = {}
    /\ language' = FALSE
    /\ remaining' = ImmediateCommits
    /\ flush' = Idle /\ fallback' = Asleep
    /\ UNCHANGED <<disk, mutations, skipped>>

Commit(d) == \/ CheckQueue(d) \/ CheckRevision(d) \/ TakeImmediate(d)
             \/ CommitDirectly(d) \/ DirectCommitFails(d) \/ Queue(d)

CommitPendingDiffs == ReadQueue \/ CommitQueued \/ QueuedCommitFails \/ ClearQueue \/ ResetCounter

EnsurePublicLinksAreShared == ReadStore \/ Render \/ Reshare \/ ReshareFails

Next ==
    \/ \E d \in Diffs : Mutate(d) \/ CommitBatch(d) \/ PersistBatch(d) \/ Commit(d)
    \/ CommitPendingDiffs
    \/ EnsurePublicLinksAreShared
    \/ InstallLanguage \/ PullFromPeers \/ Restart

\* Spawned tasks and the loops run on; one fairness for all tasks is enough, since each
\* ends after a few steps.  The link language may fail to commit what is queued or missing,
\* but not for ever; nobody has to make a change, and no peer has to be there.
Fairness ==
    /\ WF_vars(\E d \in Diffs : PersistBatch(d))
    /\ WF_vars(\E d \in Diffs : Commit(d))
    /\ WF_vars(InstallLanguage)
    /\ WF_vars(CommitPendingDiffs) /\ SF_vars(CommitQueued)
    /\ WF_vars(EnsurePublicLinksAreShared) /\ SF_vars(Reshare)

Spec == Init /\ [][Next]_vars /\ Fairness

-----------------------------------------------------------------------------
(* Properties *)

TypeOK ==
    /\ store \subseteq Links /\ reshared \subseteq Links
    /\ pending \in Seq(Diffs)
    /\ task \in [Diffs -> Stages]
    /\ unwritten \subseteq Diffs
    /\ language \in BOOLEAN /\ revision \in BOOLEAN
    /\ remaining \in 0..ImmediateCommits
    /\ flush \in [stage : {"idle", "committing", "clearing", "resetting"}, diffs : Seq(Diffs)]
    /\ fallback \in [stage : {"asleep", "rendering", "sharing"}, links : SUBSET Links]
    /\ committed \in [Diffs -> Nat]
    /\ mutations \in Seq(Diffs)
    /\ skipped \subseteq Diffs /\ lost \subseteq Diffs /\ torn \subseteq Diffs
    /\ restarts \in 0..MaxRestarts

\* Outside of a restart no diff falls between the task that should commit it, the queue
\* and the link language, whichever of them fails when: what the loop clears from the
\* queue was committed, and what came into the queue meanwhile stays.
NothingDropped ==
    \A d \in Made \ (skipped \cup lost) : task[d] # "none" \/ d \in Pending \cup Committed

\* A diff is committed once, unless a restart comes between the commit of the queue and
\* the clearing of the rows.
CommittedOnce == \A d \in Diffs : committed[d] <= 1 + restarts

Older(d, e) == \E i, j \in DOMAIN mutations : i < j /\ mutations[i] = d /\ mutations[j] = e

\* commit() looks for pending diffs "to not overtake older commits but instead add this one
\* to the queue": no diff is committed directly while an older one is in the queue.
NoOvertaking ==
    [][\A d \in Diffs : CommitDirectly(d) => \A e \in Pending : ~Older(e, d)]_vars

\* "All operations in a batch are applied together or none are applied": in the
\* neighbourhood, too, an update's new link does not stay next to the link it replaced.
BatchesAreAtomic ==
    <>[](\A d \in Made : d.additions # {} /\ d.additions \subseteq Rendered
                            => d.removals \cap Rendered = {})

\* Every diff that was to be committed is committed, also the first one of a neighbourhood
\* that has no revision yet and those beyond the immediate commits, unless a restart
\* ended its task.
EveryDiffCommitted == <>[](Made \ skipped \subseteq Committed \cup lost)

\* The neighbourhood ends up with the links of the store: tasks that a restart ended and
\* batches that were never committed cost removals only, the fallback sync finds additions.
\* (A batch that was committed but not written to the store is different for good.)
NeighbourhoodCatchesUp ==
    <>[](\A l \in Links \ (RemovalsOf(lost \cup skipped \cup torn) \cup AdditionsOf(torn)) :
            l \in Rendered <=> l \in store)
=============================================================================
