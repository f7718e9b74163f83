--------------------------- MODULE CommitQueue_proofs ---------------------------
(***************************************************************************)
(* The outgoing side, for any links, limits and bounds: no diff is dropped *)
(* and none is committed more often than restarts account for.             *)
(***************************************************************************)
EXTENDS CommitQueue, TLAPS

-----------------------------------------------------------------------------
(* Types *)

LEMMA DiffFacts ==
    /\ \A d \in Diffs : d.additions \subseteq Links /\ d.removals \subseteq Links
    /\ ImmediateCommits \in Nat /\ MaxPending \in Nat /\ MaxRestarts \in Nat
BY BoundsAssumption DEF Diffs, Addition, Removal, Update

Flushes == [stage : {"idle", "committing", "clearing", "resetting"}, diffs : Seq(Diffs)]
Fallbacks == [stage : {"asleep", "rendering", "sharing"}, links : SUBSET Links]

LEMMA RestFacts ==
    /\ Idle \in Flushes /\ [Idle EXCEPT !.stage = "resetting"] \in Flushes
    /\ Asleep \in Fallbacks
<1>1. <<>> \in Seq(Diffs)
    OBVIOUS
<1> QED BY <1>1 DEF Idle, Asleep, Flushes, Fallbacks

LEMMA TypeInit == Init => TypeOK
<1> SUFFICES ASSUME Init PROVE TypeOK
    OBVIOUS
<1>1. flush \in Flushes /\ fallback \in Fallbacks
    BY RestFacts DEF Init
<1>2. pending \in Seq(Diffs) /\ mutations \in Seq(Diffs)
    BY DEF Init
<1>3. task \in [Diffs -> Stages] /\ committed \in [Diffs -> Nat]
    BY DEF Init, Stages
<1>4. remaining \in 0..ImmediateCommits /\ restarts \in 0..MaxRestarts
    BY DiffFacts DEF Init
<1> QED BY <1>1, <1>2, <1>3, <1>4 DEF Init, TypeOK, Flushes, Fallbacks

\* How a task moves.
LEMMA TaskType ==
    ASSUME TypeOK, NEW d \in Diffs, NEW from, NEW to \in Stages, MoveTask(d, from, to)
    PROVE  task' \in [Diffs -> Stages]
BY DEF TypeOK, MoveTask

LEMMA AcceptType ==
    ASSUME TypeOK, NEW ds, Accept(ds)
    PROVE  committed' \in [Diffs -> Nat] /\ revision' \in BOOLEAN
BY DEF TypeOK, Accept

LEMMA TypeNext == TypeOK /\ [Next]_vars => TypeOK'
<1> SUFFICES ASSUME TypeOK, [Next]_vars PROVE TypeOK'
    OBVIOUS
<1> USE DiffFacts DEF TypeOK, vars, disk, loops, history
<1>1. ASSUME NEW d \in Diffs, Mutate(d) \/ CommitBatch(d) \/ PersistBatch(d)
      PROVE  TypeOK'
    <2>1. Makes(d) => mutations' \in Seq(Diffs)
        BY DEF Makes
    <2>2. Persist(d) => store' \subseteq Links
        BY DEF Persist
    <2>3. SpawnCommit(d) => task' \in [Diffs -> Stages]
        BY DEF SpawnCommit, Stages
    <2> QED BY <1>1, <2>1, <2>2, <2>3 DEF Mutate, CommitBatch, PersistBatch
<1>2. ASSUME NEW d \in Diffs, Commit(d)
      PROVE  TypeOK'
    <2> USE DEF Stages
    <2>1. CASE CheckQueue(d) \/ CheckRevision(d) \/ DirectCommitFails(d)
        BY <2>1, TaskType DEF CheckQueue, CheckRevision, DirectCommitFails
    <2>2. CASE TakeImmediate(d)
        <3>1. task' \in [Diffs -> Stages]
            BY <2>2, TaskType DEF TakeImmediate
        <3>2. remaining' \in 0..ImmediateCommits
            BY <2>2 DEF TakeImmediate
        <3> QED BY <2>2, <3>1, <3>2 DEF TakeImmediate
    <2>3. CASE CommitDirectly(d)
        BY <2>3, TaskType, AcceptType DEF CommitDirectly
    <2>4. CASE Queue(d)
        BY <2>4, TaskType DEF Queue
    <2> QED BY <1>2, <2>1, <2>2, <2>3, <2>4 DEF Commit
<1>3. ASSUME CommitPendingDiffs
      PROVE  TypeOK'
    <2>1. CASE ReadQueue
        <3>1. PICK n \in 1..Len(pending) : flush' = [stage |-> "committing", diffs |-> SubSeq(pending, 1, n)]
            BY <2>1 DEF ReadQueue
        <3>2. SubSeq(pending, 1, n) \in Seq(Diffs)
            BY <3>1
        <3> QED BY <2>1, <3>1, <3>2 DEF ReadQueue
    <2>2. CASE CommitQueued
        BY <2>2, AcceptType DEF CommitQueued
    <2>3. CASE QueuedCommitFails
        BY <2>3, RestFacts DEF QueuedCommitFails, Flushes
    <2>4. CASE ClearQueue
        <3>1. StillPending(flush.diffs) \in Seq(Diffs)
            BY DEF StillPending
        <3>2. flush' \in Flushes
            BY <2>4, RestFacts DEF ClearQueue
        <3> QED BY <2>4, <3>1, <3>2 DEF ClearQueue, Flushes
    <2>5. CASE ResetCounter
        BY <2>5, RestFacts DEF ResetCounter, Flushes
    <2> QED BY <1>3, <2>1, <2>2, <2>3, <2>4, <2>5 DEF CommitPendingDiffs
<1>4. ASSUME EnsurePublicLinksAreShared
      PROVE  TypeOK'
    <2>1. fallback' \in Fallbacks
        BY <1>4, RestFacts DEF EnsurePublicLinksAreShared, ReadStore, Render, Reshare, ReshareFails,
                               Fallbacks
    <2> QED BY <1>4, <2>1 DEF EnsurePublicLinksAreShared, ReadStore, Render, Reshare, ReshareFails,
                              Fallbacks
<1>5. ASSUME InstallLanguage \/ PullFromPeers
      PROVE  TypeOK'
    BY <1>5 DEF InstallLanguage, PullFromPeers
<1>6. ASSUME Restart
      PROVE  TypeOK'
    <2>1. flush' \in Flushes /\ fallback' \in Fallbacks
        BY <1>6, RestFacts DEF Restart
    <2>2. task' \in [Diffs -> Stages]
        BY <1>6 DEF Restart, Stages
    <2>3. remaining' \in 0..ImmediateCommits /\ restarts' \in 0..MaxRestarts
        BY <1>6 DEF Restart
    <2> QED BY <1>6, <2>1, <2>2, <2>3 DEF Restart, Flushes, Fallbacks
<1>7. CASE UNCHANGED vars
    BY <1>7
<1> QED BY <1>1, <1>2, <1>3, <1>4, <1>5, <1>6, <1>7 DEF Next

\* The state variables hold what their comments say, the counter of immediate commits is
\* never negative and never above its limit.
THEOREM TypeCorrect == Spec => []TypeOK
BY TypeInit, TypeNext, PTL DEF Spec

-----------------------------------------------------------------------------
(* Where a diff is *)

\* The loop works on the oldest rows, and they stay where they are until it clears them.
ReadIsPrefix ==
    flush.stage \in {"committing", "clearing"} =>
        /\ Len(flush.diffs) <= Len(pending)
        /\ \A i \in 1..Len(flush.diffs) : flush.diffs[i] = pending[i]

ClearsCommitted == flush.stage = "clearing" => ToSet(flush.diffs) \subseteq Committed

QueuedOnce == \A i, j \in DOMAIN pending : i # j => pending[i] # pending[j]

OnlyMade == /\ Pending \subseteq Made
            /\ \A d \in Diffs \ Made : committed[d] = 0 /\ task[d] = "none"

\* A diff that a task is still to commit is not in the queue and was not committed.
OneTaskOrQueue == \A d \in Diffs : task[d] # "none" => d \notin Pending /\ committed[d] = 0

BeingCleared(d) == flush.stage = "clearing" /\ d \in ToSet(flush.diffs)

\* A queued diff was committed before only if a restart kept the loop from clearing its row.
QueuedCommits == \A d \in Pending : committed[d] <= restarts \/ BeingCleared(d)

IInv == /\ TypeOK /\ ReadIsPrefix /\ ClearsCommitted /\ QueuedOnce /\ OnlyMade
        /\ OneTaskOrQueue /\ QueuedCommits /\ CommittedOnce /\ NothingDropped

LEMMA QueueFacts ==
    ASSUME TypeOK
    PROVE  /\ pending \in Seq(Diffs) /\ Len(pending) \in Nat /\ DOMAIN pending = 1..Len(pending)
           /\ flush.diffs \in Seq(Diffs) /\ Len(flush.diffs) \in Nat
           /\ DOMAIN flush.diffs = 1..Len(flush.diffs)
           /\ Pending = {pending[i] : i \in 1..Len(pending)} /\ Pending \subseteq Diffs
           /\ ToSet(flush.diffs) = {flush.diffs[i] : i \in 1..Len(flush.diffs)}
           /\ ToSet(flush.diffs) \subseteq Diffs
           /\ Made \subseteq Diffs
           /\ restarts \in Nat /\ committed \in [Diffs -> Nat] /\ task \in [Diffs -> Stages]
<1>1. pending \in Seq(Diffs) /\ flush.diffs \in Seq(Diffs) /\ mutations \in Seq(Diffs)
    BY DEF TypeOK
<1>2. restarts \in Nat /\ committed \in [Diffs -> Nat] /\ task \in [Diffs -> Stages]
    BY DiffFacts DEF TypeOK
<1> QED BY <1>1, <1>2 DEF Pending, Made, ToSet

\* Steps that neither commit nor queue, and move tasks only from one stage to another.
LEMMA Elsewhere ==
    ASSUME IInv, TypeOK', UNCHANGED <<pending, committed, flush, mutations, skipped, lost, restarts>>,
           \A d \in Diffs : task'[d] = "none" <=> task[d] = "none"
    PROVE  IInv'
<1>1. Pending' = Pending /\ Committed' = Committed /\ Made' = Made
    BY DEF Pending, Committed, Made
<1>2. (ReadIsPrefix /\ ClearsCommitted /\ QueuedOnce)'
    BY <1>1 DEF IInv, ReadIsPrefix, ClearsCommitted, QueuedOnce
<1>3. (OnlyMade /\ OneTaskOrQueue)'
    BY <1>1 DEF IInv, OnlyMade, OneTaskOrQueue
<1>4. (QueuedCommits /\ CommittedOnce)'
    BY <1>1 DEF IInv, QueuedCommits, BeingCleared, CommittedOnce
<1>5. NothingDropped'
    <2> SUFFICES ASSUME NEW d \in Made \ (skipped \cup lost)
                 PROVE  task'[d] # "none" \/ d \in Pending \cup Committed
        BY <1>1 DEF NothingDropped
    <2>1. d \in Diffs
        BY QueueFacts DEF IInv
    <2> QED BY <2>1 DEF IInv, NothingDropped
<1> QED BY <1>2, <1>3, <1>4, <1>5 DEF IInv

\* A new diff gets a task, or is never to be committed.
LEMMA MakesKeeps ==
    ASSUME IInv, TypeOK', NEW d \in Diffs, Makes(d),
           UNCHANGED <<pending, committed, flush, lost, restarts>>,
           \/ SpawnCommit(d) /\ UNCHANGED skipped
           \/ skipped' = skipped \cup {d} /\ UNCHANGED task
    PROVE  IInv'
<1> USE QueueFacts
<1>1. Pending' = Pending /\ Committed' = Committed
    BY DEF Pending, Committed
<1>2. Made' = Made \cup {d} /\ d \notin Made
    <2>1. mutations \in Seq(Diffs) /\ mutations' = Append(mutations, d)
        BY DEF IInv, TypeOK, Makes
    <2> QED BY <2>1 DEF Made, ToSet, Makes
<1>3. committed[d] = 0 /\ d \notin Pending /\ task[d] = "none"
    BY <1>2 DEF IInv, OnlyMade
<1>4. \A e \in Diffs \ {d} : task'[e] = task[e]
    BY DEF SpawnCommit, IInv
<1>5. (ReadIsPrefix /\ ClearsCommitted /\ QueuedOnce)'
    BY <1>1 DEF IInv, ReadIsPrefix, ClearsCommitted, QueuedOnce
<1>6. (OnlyMade /\ OneTaskOrQueue)'
    BY <1>1, <1>2, <1>3, <1>4 DEF IInv, OnlyMade, OneTaskOrQueue
<1>7. (QueuedCommits /\ CommittedOnce)'
    BY <1>1 DEF IInv, QueuedCommits, BeingCleared, CommittedOnce
<1>8. NothingDropped'
    <2>1. task'[d] # "none" \/ d \in skipped'
        BY DEF SpawnCommit, IInv
    <2> SUFFICES ASSUME NEW e \in Made \ (skipped \cup lost), e # d
                 PROVE  task'[e] # "none" \/ e \in Pending \cup Committed
        BY <1>1, <1>2, <2>1 DEF NothingDropped
    <2> QED BY <1>4 DEF IInv, NothingDropped
<1> QED BY <1>5, <1>6, <1>7, <1>8 DEF IInv

LEMMA CommitDirectlyKeeps ==
    ASSUME IInv, TypeOK', NEW d \in Diffs, CommitDirectly(d)
    PROVE  IInv'
<1> USE QueueFacts
<1>1. /\ Pending' = Pending /\ Made' = Made
      /\ UNCHANGED <<pending, flush, mutations, skipped, lost, restarts>>
    BY DEF CommitDirectly, loops, history, Pending, Made
<1>2. /\ task[d] # "none" /\ task'[d] = "none" /\ \A e \in Diffs \ {d} : task'[e] = task[e]
      /\ committed'[d] = committed[d] + 1 /\ \A e \in Diffs \ {d} : committed'[e] = committed[e]
    BY DEF CommitDirectly, MoveTask, Accept, IInv
<1>3. d \notin Pending /\ committed[d] = 0 /\ d \in Made
    BY <1>2 DEF IInv, OneTaskOrQueue, OnlyMade
<1>4. Committed' = Committed \cup {d}
    BY <1>2, <1>3 DEF Committed
<1>5. (ReadIsPrefix /\ ClearsCommitted /\ QueuedOnce)'
    BY <1>1, <1>4 DEF IInv, ReadIsPrefix, ClearsCommitted, QueuedOnce
<1>6. (OnlyMade /\ OneTaskOrQueue)'
    BY <1>1, <1>2, <1>3 DEF IInv, OnlyMade, OneTaskOrQueue
<1>7. (QueuedCommits /\ CommittedOnce)'
    BY <1>1, <1>2, <1>3 DEF IInv, QueuedCommits, BeingCleared, CommittedOnce
<1>8. NothingDropped'
    BY <1>1, <1>2, <1>4 DEF IInv, NothingDropped
<1> QED BY <1>5, <1>6, <1>7, <1>8 DEF IInv

LEMMA QueueKeeps ==
    ASSUME IInv, TypeOK', NEW d \in Diffs, Queue(d)
    PROVE  IInv'
<1> USE QueueFacts
<1>1. /\ Made' = Made /\ Committed' = Committed
      /\ UNCHANGED <<committed, flush, mutations, skipped, lost, restarts>>
    BY DEF Queue, loops, history, Committed, Made
<1>2. task[d] # "none" /\ task'[d] = "none" /\ \A e \in Diffs \ {d} : task'[e] = task[e]
    BY DEF Queue, MoveTask, IInv
<1>3. d \notin Pending /\ committed[d] = 0 /\ d \in Made
    BY <1>2 DEF IInv, OneTaskOrQueue, OnlyMade
<1>4. /\ pending \in Seq(Diffs) /\ pending' = Append(pending, d)
      /\ Len(pending') = Len(pending) + 1 /\ DOMAIN pending' = 1..(Len(pending) + 1)
      /\ \A i \in 1..Len(pending) : pending'[i] = pending[i]
      /\ pending'[Len(pending) + 1] = d
    BY DEF Queue, IInv
<1>5. Pending' = Pending \cup {d}
    BY <1>4 DEF IInv, Pending, ToSet
<1>6. (ReadIsPrefix /\ ClearsCommitted)'
    BY <1>1, <1>4 DEF IInv, ReadIsPrefix, ClearsCommitted
<1>7. QueuedOnce'
    <2>1. \A i \in 1..Len(pending) : pending[i] # d
        BY <1>3 DEF IInv
    <2> QED BY <1>4, <2>1 DEF IInv, QueuedOnce
<1>8. (OnlyMade /\ OneTaskOrQueue)'
    BY <1>1, <1>2, <1>3, <1>5 DEF IInv, OnlyMade, OneTaskOrQueue
<1>9. (QueuedCommits /\ CommittedOnce)'
    BY <1>1, <1>3, <1>5 DEF IInv, QueuedCommits, BeingCleared, CommittedOnce
<1>10. NothingDropped'
    BY <1>1, <1>2, <1>5 DEF IInv, NothingDropped
<1> QED BY <1>6, <1>7, <1>8, <1>9, <1>10 DEF IInv

LEMMA ReadQueueKeeps ==
    ASSUME IInv, TypeOK', ReadQueue \/ QueuedCommitFails \/ ResetCounter
    PROVE  IInv'
<1> USE QueueFacts
<1>1. /\ Pending' = Pending /\ Committed' = Committed /\ Made' = Made
      /\ UNCHANGED <<pending, task, committed, mutations, skipped, lost, restarts>>
    BY DEF ReadQueue, QueuedCommitFails, ResetCounter, disk, history, Pending, Committed, Made
<1>2. ReadIsPrefix' /\ flush.stage # "clearing" /\ flush'.stage # "clearing"
    <2>1. CASE ReadQueue
        <3>1. PICK n \in 1..Len(pending) : flush' = [stage |-> "committing", diffs |-> SubSeq(pending, 1, n)]
            BY <2>1 DEF ReadQueue
        <3>2. /\ flush'.stage = "committing" /\ Len(flush'.diffs) = n
              /\ \A i \in 1..n : flush'.diffs[i] = pending[i]
            BY <3>1 DEF IInv
        <3> QED BY <1>1, <2>1, <3>2 DEF ReadQueue, ReadIsPrefix, IInv
    <2>2. CASE QueuedCommitFails \/ ResetCounter
        BY <2>2 DEF QueuedCommitFails, ResetCounter, ReadIsPrefix, Idle
    <2> QED BY <2>1, <2>2
<1>3. (ClearsCommitted /\ QueuedCommits)'
    BY <1>1, <1>2 DEF IInv, ClearsCommitted, QueuedCommits, BeingCleared
<1>4. (QueuedOnce /\ OnlyMade /\ OneTaskOrQueue /\ CommittedOnce /\ NothingDropped)'
    BY <1>1 DEF IInv, QueuedOnce, OnlyMade, OneTaskOrQueue, CommittedOnce, NothingDropped
<1> QED BY <1>2, <1>3, <1>4 DEF IInv

LEMMA CommitQueuedKeeps ==
    ASSUME IInv, TypeOK', CommitQueued
    PROVE  IInv'
<1> USE QueueFacts
<1> DEFINE read == ToSet(flush.diffs)
<1>1. /\ Pending' = Pending /\ Made' = Made
      /\ UNCHANGED <<pending, task, mutations, skipped, lost, restarts>>
    BY DEF CommitQueued, history, Pending, Made
<1>2. flush.stage = "committing" /\ flush'.stage = "clearing" /\ flush'.diffs = flush.diffs
    BY DEF CommitQueued, IInv, TypeOK
<1>3. \A e \in Diffs : committed'[e] = IF e \in read THEN committed[e] + 1 ELSE committed[e]
    BY DEF CommitQueued, Accept, IInv
<1>4. read \subseteq Pending
    <2>1. /\ Len(flush.diffs) <= Len(pending)
          /\ \A i \in 1..Len(flush.diffs) : flush.diffs[i] = pending[i]
        BY <1>2 DEF IInv, ReadIsPrefix
    <2>2. /\ Len(pending) \in Nat /\ Len(flush.diffs) \in Nat
          /\ read = {flush.diffs[i] : i \in 1..Len(flush.diffs)}
          /\ Pending = {pending[i] : i \in 1..Len(pending)}
        BY DEF IInv
    <2>3. \A i \in 1..Len(flush.diffs) : i \in 1..Len(pending)
        BY <2>1, <2>2
    <2> HIDE QueueFacts DEF read
    <2> QED BY <2>1, <2>2, <2>3
<1>5. \A e \in read : committed[e] <= restarts
    BY <1>2, <1>4 DEF IInv, QueuedCommits, BeingCleared
<1>6. Committed' = Committed \cup read
    BY <1>3 DEF Committed, IInv
<1>7. (ReadIsPrefix /\ ClearsCommitted /\ QueuedOnce)'
    BY <1>1, <1>2, <1>6 DEF IInv, ReadIsPrefix, ClearsCommitted, QueuedOnce
<1>8. (OnlyMade /\ OneTaskOrQueue)'
    BY <1>1, <1>3, <1>4 DEF IInv, OnlyMade, OneTaskOrQueue
<1>9. CommittedOnce'
    BY <1>1, <1>3, <1>5 DEF IInv, CommittedOnce
<1>10. QueuedCommits'
    BY <1>1, <1>2, <1>3 DEF IInv, QueuedCommits, BeingCleared
<1>11. NothingDropped'
    BY <1>1, <1>6 DEF IInv, NothingDropped
<1> QED BY <1>7, <1>8, <1>9, <1>10, <1>11 DEF IInv

\* A sequence without its first n elements.
LEMMA RestOfSequence ==
    ASSUME NEW T, NEW s \in Seq(T), NEW n \in 0..Len(s), NEW t, t = SubSeq(s, n + 1, Len(s))
    PROVE  /\ Len(s) - n \in Nat /\ Len(t) = Len(s) - n /\ DOMAIN t = 1..(Len(s) - n)
           /\ \A i \in 1..(Len(s) - n) :
                i + n \in 1..Len(s) /\ i + n > n /\ t[i] = s[i + n]
<1>1. Len(s) \in Nat /\ Len(s) - n \in Nat
    OBVIOUS
<1>2. t = [i \in 1..(Len(s) - n) |-> s[i + n]]
    OBVIOUS
<1>3. DOMAIN t = 1..(Len(s) - n)
    BY <1>2
<1>4. Len(t) = Len(s) - n
    BY <1>1
<1>5. \A i \in 1..(Len(s) - n) : t[i] = s[i + n] /\ i + n \in 1..Len(s) /\ i + n > n
    BY <1>1, <1>2
<1> QED BY <1>1, <1>3, <1>4, <1>5

LEMMA ClearQueueKeeps ==
    ASSUME IInv, TypeOK', ClearQueue
    PROVE  IInv'
<1> USE QueueFacts
<1> DEFINE n == Len(flush.diffs)
<1>1. /\ Committed' = Committed /\ Made' = Made
      /\ UNCHANGED <<task, committed, mutations, skipped, lost, restarts>>
    BY DEF ClearQueue, history, Committed, Made
<1>2. flush.stage = "clearing" /\ flush'.stage = "resetting"
    BY DEF ClearQueue, Idle
<1>3. /\ n \in Nat /\ n <= Len(pending) /\ \A i \in 1..n : flush.diffs[i] = pending[i]
      /\ Len(pending) \in Nat /\ pending \in Seq(Diffs) /\ DOMAIN pending = 1..Len(pending)
      /\ Pending = {pending[i] : i \in 1..Len(pending)}
      /\ ToSet(flush.diffs) = {pending[i] : i \in 1..n}
    <2>1. TypeOK /\ n <= Len(pending) /\ \A i \in 1..n : flush.diffs[i] = pending[i]
        BY <1>2 DEF IInv, ReadIsPrefix
    <2> QED BY <2>1
<1>4. pending' = SubSeq(pending, n + 1, Len(pending))
    BY DEF ClearQueue, StillPending
<1> DEFINE m == Len(pending) - n
<1> HIDE DEF n
<1>5. /\ m \in Nat /\ Len(pending') = m /\ DOMAIN pending' = 1..m
      /\ \A i \in 1..m : i + n \in 1..Len(pending) /\ i + n > n /\ pending'[i] = pending[i + n]
    <2>1. n \in 0..Len(pending)
        BY <1>3
    <2>2. /\ Len(pending) - n \in Nat /\ Len(pending') = Len(pending) - n
          /\ DOMAIN pending' = 1..(Len(pending) - n)
          /\ \A i \in 1..(Len(pending) - n) :
               i + n \in 1..Len(pending) /\ i + n > n /\ pending'[i] = pending[i + n]
        BY <1>3, <1>4, <2>1, RestOfSequence, ZenonT(30)
    <2> QED BY <2>2
<1>6. Pending' = {pending'[i] : i \in 1..m}
    BY <1>5 DEF Pending, ToSet
<1>7. Pending' \subseteq Pending /\ Pending \subseteq Pending' \cup ToSet(flush.diffs)
    <2>1. Pending' \subseteq Pending
        BY <1>3, <1>5, <1>6
    <2>2. ASSUME NEW i \in 1..Len(pending)
          PROVE  pending[i] \in Pending' \cup ToSet(flush.diffs)
        <3>1. CASE i <= n
            BY <1>3, <3>1
        <3>2. CASE i > n
            <4>1. i - n \in 1..m /\ (i - n) + n = i
                BY <1>3, <3>2
            <4>2. pending'[i - n] = pending[i]
                BY <1>5, <4>1
            <4> QED BY <1>6, <4>1, <4>2
        <3> QED BY <1>3, <3>1, <3>2
    <2> QED BY <1>3, <2>1, <2>2
<1>8. \A i, j \in 1..Len(pending) : i # j => pending[i] # pending[j]
    BY <1>3 DEF IInv, QueuedOnce
<1>9. Pending' \cap ToSet(flush.diffs) = {}
    BY <1>3, <1>5, <1>6, <1>8
<1>10. (ReadIsPrefix /\ ClearsCommitted)'
    BY <1>2 DEF ReadIsPrefix, ClearsCommitted
<1>11. QueuedOnce'
    <2> SUFFICES ASSUME NEW i \in 1..m, NEW j \in 1..m, i # j
                 PROVE  pending'[i] # pending'[j]
        BY <1>5 DEF QueuedOnce
    <2>1. i + n # j + n
        BY <1>3
    <2> QED BY <1>5, <1>8, <2>1
<1>12. (OnlyMade /\ OneTaskOrQueue /\ CommittedOnce)'
    BY <1>1, <1>7 DEF IInv, OnlyMade, OneTaskOrQueue, CommittedOnce
<1>13. QueuedCommits'
    BY <1>1, <1>7, <1>9 DEF IInv, QueuedCommits, BeingCleared
<1>14. NothingDropped'
    BY <1>1, <1>2, <1>7 DEF IInv, NothingDropped, ClearsCommitted
<1> QED BY <1>10, <1>11, <1>12, <1>13, <1>14 DEF IInv

LEMMA RestartKeeps ==
    ASSUME IInv, TypeOK', Restart
    PROVE  IInv'
<1> USE QueueFacts
<1>1. /\ Pending' = Pending /\ Committed' = Committed /\ Made' = Made
      /\ UNCHANGED <<pending, committed, mutations, skipped>>
    BY DEF Restart, disk, Pending, Committed, Made
<1>2. /\ flush'.stage = "idle" /\ restarts' = restarts + 1
      /\ \A d \in Diffs : task'[d] = "none"
      /\ lost' = lost \cup {d \in Diffs : task[d] # "none"}
    BY DEF Restart, Idle
<1>3. (ReadIsPrefix /\ ClearsCommitted /\ QueuedOnce /\ OnlyMade /\ OneTaskOrQueue)'
    BY <1>1, <1>2 DEF IInv, ReadIsPrefix, ClearsCommitted, QueuedOnce, OnlyMade, OneTaskOrQueue
<1>4. \A d \in Diffs : committed[d] \in Nat /\ committed[d] <= 1 + restarts /\ restarts \in Nat
    BY DEF IInv, CommittedOnce
<1>5. (QueuedCommits /\ CommittedOnce)'
    BY <1>1, <1>2, <1>4 DEF IInv, QueuedCommits, CommittedOnce
<1>6. NothingDropped'
    BY <1>1, <1>2 DEF IInv, NothingDropped
<1> QED BY <1>3, <1>5, <1>6 DEF IInv

LEMMA IInvInit == Init => IInv
<1> SUFFICES ASSUME Init PROVE IInv
    OBVIOUS
<1>1. /\ Pending = {} /\ Made = {} /\ DOMAIN pending = {}
      /\ flush.stage = "idle"
      /\ \A d \in Diffs : committed[d] = 0 /\ task[d] = "none"
      /\ restarts = 0
    BY DEF Init, Pending, Made, ToSet, Idle
<1> QED BY <1>1, TypeInit DEF IInv, ReadIsPrefix, ClearsCommitted, QueuedOnce, OnlyMade,
                          OneTaskOrQueue, QueuedCommits, CommittedOnce, NothingDropped

LEMMA IInvNext == IInv /\ [Next]_vars => IInv'
<1> SUFFICES ASSUME IInv, [Next]_vars PROVE IInv'
    OBVIOUS
<1>1. TypeOK'
    BY TypeNext DEF IInv
<1> USE DEF disk, loops, history
<1>2. ASSUME NEW d \in Diffs, Mutate(d) \/ CommitBatch(d)
      PROVE  IInv'
    BY <1>1, <1>2, MakesKeeps DEF Mutate, CommitBatch
<1>3. ASSUME NEW d \in Diffs,
             \/ PersistBatch(d) \/ CheckQueue(d) \/ CheckRevision(d) \/ TakeImmediate(d)
             \/ DirectCommitFails(d)
      PROVE  IInv'
    <2>1. ASSUME NEW from \in Stages \ {"none"}, NEW to \in Stages \ {"none"}, MoveTask(d, from, to)
          PROVE  \A e \in Diffs : task'[e] = "none" <=> task[e] = "none"
        BY <2>1 DEF MoveTask, IInv, TypeOK
    <2>2. \A e \in Diffs : task'[e] = "none" <=> task[e] = "none"
        BY <1>3, <2>1 DEF PersistBatch, CheckQueue, CheckRevision, TakeImmediate, DirectCommitFails, Stages
    <2>3. UNCHANGED <<pending, committed, flush, mutations, skipped, lost, restarts>>
        BY <1>3 DEF PersistBatch, CheckQueue, CheckRevision, TakeImmediate, DirectCommitFails
    <2> QED BY <1>1, <2>2, <2>3, Elsewhere
<1>4. ASSUME NEW d \in Diffs, CommitDirectly(d) \/ Queue(d)
      PROVE  IInv'
    BY <1>1, <1>4, CommitDirectlyKeeps, QueueKeeps
<1>5. ASSUME CommitPendingDiffs
      PROVE  IInv'
    BY <1>1, <1>5, ReadQueueKeeps, CommitQueuedKeeps, ClearQueueKeeps DEF CommitPendingDiffs
<1>6. ASSUME EnsurePublicLinksAreShared \/ InstallLanguage \/ PullFromPeers
      PROVE  IInv'
    <2>1. UNCHANGED <<pending, task, committed, flush, mutations, skipped, lost, restarts>>
        BY <1>6 DEF EnsurePublicLinksAreShared, ReadStore, Render, Reshare, ReshareFails,
                    InstallLanguage, PullFromPeers
    <2> QED BY <1>1, <2>1, Elsewhere
<1>7. CASE Restart
    BY <1>1, <1>7, RestartKeeps
<1>8. CASE UNCHANGED vars
    BY <1>1, <1>8, Elsewhere DEF vars
<1> QED BY <1>2, <1>3, <1>4, <1>5, <1>6, <1>7, <1>8 DEF Next, Commit

\* Whichever of task, queue and link language fails, and in whatever order they run, only a
\* restart makes the executor forget a diff, and only the one a task holds at that moment.
THEOREM NoDiffDropped == Spec => []NothingDropped
<1>1. IInv => NothingDropped
    BY DEF IInv
<1> QED BY <1>1, IInvInit, IInvNext, PTL DEF Spec

\* The link language gets a diff again only after a restart between the commit of the queue
\* and the clearing of its rows.
THEOREM CommitsAreNotRepeated == Spec => []CommittedOnce
<1>1. IInv => CommittedOnce
    BY DEF IInv
<1> QED BY <1>1, IInvInit, IInvNext, PTL DEF Spec
=============================================================================
