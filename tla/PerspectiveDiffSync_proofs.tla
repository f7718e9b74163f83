---------------------- MODULE PerspectiveDiffSync_proofs ----------------------
(***************************************************************************)
(* Safety of the p-diff-sync zome for every set of agents and every bound. *)
(***************************************************************************)
EXTENDS PerspectiveDiffSync, RevisionGraph_proofs

-----------------------------------------------------------------------------
(* Lemmas *)

LEMMA SeqMonotone ==
    ASSUME NEW S, NEW T, S \subseteq T
    PROVE  Seq(S) \subseteq Seq(T)
OBVIOUS

\* What a sequence of emitted sets contains after one more emission.
LEMMA MemberOfAppend ==
    ASSUME NEW T, NEW s \in Seq(T), NEW D, NEW x
    PROVE  (\E i \in DOMAIN Append(s, D) : x \in Append(s, D)[i])
             <=> (\E i \in DOMAIN s : x \in s[i]) \/ x \in D
<1>1. Len(s) \in Nat /\ DOMAIN s = 1..Len(s)
    OBVIOUS
<1>2. DOMAIN Append(s, D) = 1..(Len(s) + 1)
    OBVIOUS
<1>3. \A i \in 1..Len(s) : Append(s, D)[i] = s[i]
    OBVIOUS
<1>4. Append(s, D)[Len(s) + 1] = D
    OBVIOUS
<1> QED BY <1>1, <1>2, <1>3, <1>4

\* Facts about the DAG that hold in every well-typed state.
LEMMA GraphFacts ==
    ASSUME TypeOK
    PROVE  /\ Len(entries) \in Nat
           /\ Revisions = 1..Len(entries)
           /\ \A r \in Revisions : Parents(r) \in SUBSET Revisions
           /\ \A r \in 0..Len(entries) : AllAncestors(r) \subseteq 1..r
           /\ \A r \in 0..Len(entries) : AllAncestors(r) \subseteq Revisions
           /\ AllAncestors(NoRevision) = {}
           /\ \A r \in Revisions : r \in AllAncestors(r)
           /\ \A a \in Agents : current[a] \in 0..Len(entries)
<1>1. Len(entries) \in Nat /\ entries \in Seq(Entry)
    BY DEF TypeOK
<1>2. \A r \in Revisions : Parents(r) \in SUBSET Revisions
    BY <1>1 DEF TypeOK, ParentsAreOlder, Revisions, Parents
<1>3. \A r \in 0..Len(entries) : AllAncestors(r) \subseteq 1..r
    BY <1>1, AncestorsBounded DEF AllAncestors
<1>4. \A r \in 0..Len(entries) : AllAncestors(r) \subseteq Revisions
    BY <1>1, <1>3 DEF Revisions
<1>5. AllAncestors(NoRevision) = {}
    BY NoRevisionNoAncestors DEF AllAncestors, NoRevision
<1>6. \A r \in Revisions : r \in AllAncestors(r)
    BY <1>1, AncestorsReflexive DEF AllAncestors, Revisions
<1>7. \A a \in Agents : current[a] \in 0..Len(entries)
    BY <1>1 DEF TypeOK, Revisions, NoRevision
<1> QED BY <1>1, <1>2, <1>3, <1>4, <1>5, <1>6, <1>7 DEF Revisions

\* Creating an entry leaves everything said about the older ones as it was.
LEMMA GraphGrows ==
    ASSUME TypeOK, NEW e \in Entry, e.parents \subseteq Revisions,
           entries' = Append(entries, e)
    PROVE  /\ entries' \in Seq(Entry)
           /\ ParentsAreOlder(entries)'
           /\ Len(entries') = Len(entries) + 1
           /\ Revisions' = Revisions \cup {Len(entries) + 1}
           /\ Len(entries) + 1 \notin Revisions
           /\ \A r \in Revisions : entries'[r] = entries[r]
           /\ entries'[Len(entries) + 1] = e
           /\ \A r \in 0..Len(entries) : AllAncestors(r)' = AllAncestors(r)
           /\ \A S \in SUBSET Revisions : DiffsIn(S)' = DiffsIn(S)
           /\ Ancestors(entries', Len(entries) + 1)
                = {Len(entries) + 1} \cup UNION {AllAncestors(p) : p \in e.parents}
<1>1. entries \in Seq(Entry) /\ Len(entries) \in Nat /\ ParentsAreOlder(entries)
    BY DEF TypeOK
<1>2. /\ entries' \in Seq(Entry)
      /\ Len(entries') = Len(entries) + 1
      /\ \A r \in 1..Len(entries) : entries'[r] = entries[r]
      /\ entries'[Len(entries) + 1] = e
    BY <1>1
<1>3. ParentsAreOlder(entries)'
    BY <1>1, AppendKeepsParentsOlder DEF Revisions
<1>4. /\ Revisions' = Revisions \cup {Len(entries) + 1}
      /\ Len(entries) + 1 \notin Revisions
    BY <1>1, <1>2 DEF Revisions
<1>5. \A r \in 0..Len(entries) : AllAncestors(r)' = AllAncestors(r)
    BY <1>1, AppendKeepsAncestors DEF AllAncestors
<1>6. \A S \in SUBSET Revisions : DiffsIn(S)' = DiffsIn(S)
    BY <1>2 DEF DiffsIn, Revisions
<1>7. Ancestors(entries', Len(entries) + 1)
        = {Len(entries) + 1} \cup UNION {AllAncestors(p) : p \in e.parents}
    <2>1. e.parents \subseteq 1..Len(entries)
        BY DEF Revisions
    <2>2. Ancestors(Append(entries, e), Len(entries) + 1)
            = {Len(entries) + 1} \cup UNION {Ancestors(entries, p) : p \in e.parents}
        BY <1>1, <2>1, AncestorsOfNew
    <2> QED BY <2>2 DEF AllAncestors
<1> QED BY <1>1, <1>2, <1>3, <1>4, <1>5, <1>6, <1>7 DEF Revisions

-----------------------------------------------------------------------------
(* Type correctness *)

LEMMA TypeInit == Init => TypeOK
<1> SUFFICES ASSUME Init PROVE TypeOK
    OBVIOUS
<1>1. Len(entries) = 0 /\ entries \in Seq(Entry)
    BY DEF Init
<1>2. ParentsAreOlder(entries)
    BY <1>1 DEF ParentsAreOlder
<1>3. signals \in [Agents -> Seq(SUBSET Revisions)]
    BY DEF Init
<1> QED BY <1>1, <1>2, <1>3 DEF Init, TypeOK, NoRevision

\* A step that creates no entry keeps the types if it keeps those it writes.
LEMMA TypeSameEntries ==
    ASSUME TypeOK, UNCHANGED entries,
           (held \in [Agents -> SUBSET Revisions])',
           (chunks \in [Agents -> SUBSET Revisions])',
           (current \in [Agents -> Revisions \cup {NoRevision}])',
           (sent \subseteq Agents \X Revisions)',
           (signals \in [Agents -> Seq(SUBSET Revisions)])'
    PROVE  TypeOK'
BY DEF TypeOK, Revisions

LEMMA EmitType ==
    ASSUME TypeOK, NEW a \in Agents, NEW D \in SUBSET Revisions,
           Emit(a, D) \/ EmitIfNonEmpty(a, D)
    PROVE  signals' \in [Agents -> Seq(SUBSET Revisions)]
<1>1. signals \in [Agents -> Seq(SUBSET Revisions)]
    BY DEF TypeOK
<1>2. \/ signals' = [signals EXCEPT ![a] = Append(@, D)]
      \/ signals' = signals
    BY DEF Emit, EmitIfNonEmpty
<1>3. Append(signals[a], D) \in Seq(SUBSET Revisions)
    BY <1>1
<1> QED BY <1>1, <1>2, <1>3

\* A step that creates an entry.
LEMMA TypeNewEntry ==
    ASSUME TypeOK, NEW a \in Agents, NEW e \in Entry, e.parents \subseteq Revisions,
           CreateAndMoveTo(a, e),
           chunks' \in [Agents -> SUBSET (Revisions \cup {Len(entries) + 1})],
           sent' \subseteq sent \cup {<<a, Len(entries) + 1>>},
           signals' \in [Agents -> Seq(SUBSET Revisions)]
    PROVE  TypeOK'
<1>1. entries' = Append(entries, e)
    BY DEF CreateAndMoveTo
<1>2. /\ entries' \in Seq(Entry)
      /\ ParentsAreOlder(entries)'
      /\ Revisions' = Revisions \cup {Len(entries) + 1}
    BY <1>1, GraphGrows
<1>3. held' \in [Agents -> SUBSET Revisions']
    BY <1>2 DEF TypeOK, CreateAndMoveTo
<1>4. current' \in [Agents -> Revisions' \cup {NoRevision}]
    BY <1>2 DEF TypeOK, CreateAndMoveTo
<1>5. sent' \subseteq Agents \X Revisions'
    BY <1>2 DEF TypeOK
<1>6. Seq(SUBSET Revisions) \subseteq Seq(SUBSET Revisions')
    BY <1>2, SeqMonotone
<1>7. signals' \in [Agents -> Seq(SUBSET Revisions')]
    BY <1>6
<1> QED BY <1>2, <1>3, <1>4, <1>5, <1>7 DEF TypeOK

\* The pairs in sent name revisions that exist.
LEMMA SentRevision ==
    ASSUME TypeOK, NEW m \in sent
    PROVE  m[1] \in Agents /\ m[2] \in Revisions
BY DEF TypeOK

\* The next-state relation, one action per case.
LEMMA NextCases ==
    ASSUME TypeOK, Next
    PROVE  \E a \in Agents :
              \/ \E chunked \in BOOLEAN : Commit(a, chunked)
              \/ BroadcastCurrent(a)
              \/ \E b \in Agents, r \in Revisions : FastForwardSignal(a, b, r)
              \/ \E r \in Revisions : \/ PullInitial(a, r)
                                      \/ PullFastForward(a, r)
                                      \/ PullMerge(a, r)
                                      \/ FetchChunks(a, r)
                                      \/ Integrate(a, r)
              \/ UNCHANGED vars
BY SentRevision DEF Next, HandleBroadcast, IgnoreSignal, Pull, PullNothing

LEMMA TypeNext == TypeOK /\ [Next]_vars => TypeOK'
<1> SUFFICES ASSUME TypeOK, [Next]_vars PROVE TypeOK'
    OBVIOUS
<1> USE GraphFacts
<1>1. ASSUME NEW a \in Agents, NEW chunked \in BOOLEAN, Commit(a, chunked)
      PROVE  TypeOK'
    <2> DEFINE e == [author |-> a, parents |-> {current[a]} \ {NoRevision},
                     diff |-> TRUE, chunked |-> chunked]
    <2>1. e.parents \subseteq Revisions
        BY DEF TypeOK
    <2>2. e \in Entry
        BY <2>1 DEF Entry, Revisions
    <2>3. CreateAndMoveTo(a, e)
        BY <1>1 DEF Commit
    <2>4. chunks' \in [Agents -> SUBSET (Revisions \cup {Len(entries) + 1})]
        BY <1>1 DEF Commit, TypeOK
    <2>5. sent' \subseteq sent \cup {<<a, Len(entries) + 1>>}
        BY <1>1 DEF Commit
    <2>6. signals' \in [Agents -> Seq(SUBSET Revisions)]
        BY <1>1 DEF Commit, TypeOK
    <2> QED BY <2>1, <2>2, <2>3, <2>4, <2>5, <2>6, TypeNewEntry
<1>2. ASSUME NEW a \in Agents, BroadcastCurrent(a)
      PROVE  TypeOK'
    <2>1. current[a] \in Revisions
        BY <1>2 DEF BroadcastCurrent, CurrentRetrievable, TypeOK
    <2> QED BY <1>2, <2>1, TypeSameEntries DEF BroadcastCurrent, TypeOK, Revisions
<1>3. ASSUME NEW a \in Agents, NEW b \in Agents, NEW r \in Revisions, FastForwardSignal(a, b, r)
      PROVE  TypeOK'
    <2>1. signals' \in [Agents -> Seq(SUBSET Revisions)]
        BY <1>3, EmitType DEF FastForwardSignal
    <2>2. current' \in [Agents -> Revisions \cup {NoRevision}]
        BY <1>3 DEF FastForwardSignal, TypeOK
    <2> QED BY <1>3, <2>1, <2>2, TypeSameEntries DEF FastForwardSignal, TypeOK, Revisions
<1>4. ASSUME NEW a \in Agents, NEW r \in Revisions, PullInitial(a, r)
      PROVE  TypeOK'
    <2>1. DiffsIn(AllAncestors(r)) \in SUBSET Revisions
        BY DEF DiffsIn
    <2>2. signals' \in [Agents -> Seq(SUBSET Revisions)]
        BY <1>4, <2>1, EmitType DEF PullInitial
    <2>3. current' \in [Agents -> Revisions \cup {NoRevision}]
        BY <1>4 DEF PullInitial, TypeOK
    <2> QED BY <1>4, <2>2, <2>3, TypeSameEntries DEF PullInitial, TypeOK, Revisions
<1>5. ASSUME NEW a \in Agents, NEW r \in Revisions
      PROVE  UnseenDiffs(a, r) \in SUBSET Revisions
    BY DEF UnseenDiffs, DiffsIn
<1>6. ASSUME NEW a \in Agents, NEW r \in Revisions, PullFastForward(a, r)
      PROVE  TypeOK'
    <2>1. signals' \in [Agents -> Seq(SUBSET Revisions)]
        BY <1>6, <1>5, EmitType DEF PullFastForward
    <2>2. current' \in [Agents -> Revisions \cup {NoRevision}]
        BY <1>6 DEF PullFastForward, TypeOK
    <2> QED BY <1>6, <2>1, <2>2, TypeSameEntries DEF PullFastForward, TypeOK, Revisions
<1>7. ASSUME NEW a \in Agents, NEW r \in Revisions, PullMerge(a, r)
      PROVE  TypeOK'
    <2> DEFINE e == [author |-> a, parents |-> {r, current[a]}, diff |-> FALSE, chunked |-> FALSE]
    <2>1. e.parents \subseteq Revisions
        BY <1>7 DEF PullMerge, Forked, TypeOK
    <2>2. e \in Entry
        BY <2>1 DEF Entry, Revisions
    <2>3. CreateAndMoveTo(a, e)
        BY <1>7 DEF PullMerge
    <2>4. signals' \in [Agents -> Seq(SUBSET Revisions)]
        BY <1>7, <1>5, EmitType DEF PullMerge
    <2>5. chunks' \in [Agents -> SUBSET (Revisions \cup {Len(entries) + 1})]
        BY <1>7 DEF PullMerge, TypeOK
    <2>6. sent' \subseteq sent \cup {<<a, Len(entries) + 1>>}
        BY <1>7 DEF PullMerge
    <2> QED BY <2>1, <2>2, <2>3, <2>4, <2>5, <2>6, TypeNewEntry
<1>8. ASSUME NEW a \in Agents, NEW r \in Revisions, FetchChunks(a, r) \/ Integrate(a, r)
      PROVE  TypeOK'
    <2>1. CASE FetchChunks(a, r)
        <3>1. chunks' \in [Agents -> SUBSET Revisions]
            BY <2>1 DEF FetchChunks, TypeOK
        <3> QED BY <2>1, <3>1, TypeSameEntries DEF FetchChunks, TypeOK, Revisions
    <2>2. CASE Integrate(a, r)
        <3>1. held' \in [Agents -> SUBSET Revisions]
            BY <2>2 DEF Integrate, TypeOK
        <3> QED BY <2>2, <3>1, TypeSameEntries DEF Integrate, TypeOK, Revisions
    <2> QED BY <1>8, <2>1, <2>2
<1>9. CASE UNCHANGED vars
    BY <1>9, TypeSameEntries DEF vars, TypeOK, Revisions
<1> QED
    BY <1>1, <1>2, <1>3, <1>4, <1>6, <1>7, <1>8, <1>9, NextCases

\* Every reachable state is well typed, and the DAG of diffs is acyclic in every
\* one of them: commit and merge name existing entries as parents only.
THEOREM TypeCorrect == Spec => []TypeOK
BY TypeInit, TypeNext, PTL DEF Spec

-----------------------------------------------------------------------------
(* Every diff of the history reaches the executor, once *)

\* What emitting D does to the signals of every agent.
LEMMA EmitFacts ==
    ASSUME TypeOK, NEW a \in Agents, NEW D \in SUBSET Revisions,
           Emit(a, D) \/ EmitIfNonEmpty(a, D)
    PROVE  /\ Emitted(a)' = Emitted(a) \cup D
           /\ \A b \in Agents \ {a} : signals'[b] = signals[b] /\ Emitted(b)' = Emitted(b)
           /\ \/ signals'[a] = Append(signals[a], D)
              \/ signals'[a] = signals[a]
<1>1. signals \in [Agents -> Seq(SUBSET Revisions)]
    BY DEF TypeOK
<1>2. \A b \in Agents \ {a} : signals'[b] = signals[b]
    BY <1>1 DEF Emit, EmitIfNonEmpty
<1>3. \A b \in Agents \ {a} : Emitted(b)' = Emitted(b)
    BY <1>2 DEF Emitted
<1>4. CASE signals' = [signals EXCEPT ![a] = Append(@, D)]
    <2>1. signals'[a] = Append(signals[a], D) /\ signals[a] \in Seq(SUBSET Revisions)
        BY <1>1, <1>4
    <2>2. ASSUME NEW x
          PROVE  x \in Emitted(a)' <=> x \in Emitted(a) \/ x \in D
        <3>1. x \in Emitted(a)' <=> \E i \in DOMAIN signals'[a] : x \in signals'[a][i]
            BY DEF Emitted
        <3>2. x \in Emitted(a) <=> \E i \in DOMAIN signals[a] : x \in signals[a][i]
            BY DEF Emitted
        <3>3. (\E i \in DOMAIN Append(signals[a], D) : x \in Append(signals[a], D)[i])
                <=> (\E i \in DOMAIN signals[a] : x \in signals[a][i]) \/ x \in D
            BY <2>1, MemberOfAppend
        <3> QED BY <2>1, <3>1, <3>2, <3>3
    <2>3. Emitted(a)' = Emitted(a) \cup D
        BY <2>2
    <2> QED BY <1>2, <1>3, <2>1, <2>3
<1>5. CASE signals' = signals /\ D = {}
    <2>1. Emitted(a)' = Emitted(a) \cup D
        BY <1>5 DEF Emitted
    <2> QED BY <1>2, <1>3, <1>5, <2>1
<1> QED BY <1>4, <1>5 DEF Emit, EmitIfNonEmpty

\* The pattern of handle_broadcast and of every branch of pull: the history of
\* one agent grows by D, and D, which it had not seen, is emitted.
LEMMA DeliveredTogether ==
    ASSUME TypeOK, HistoryDelivered, NoDiffTwice,
           NEW a \in Agents, NEW D \in SUBSET Revisions,
           Emit(a, D) \/ EmitIfNonEmpty(a, D),
           D \cap History(a) = {},
           History(a)' = History(a) \cup D,
           \A b \in Agents \ {a} : History(b)' = History(b),
           \A b \in Agents : OwnDiffs(b)' = OwnDiffs(b)
    PROVE  HistoryDelivered' /\ NoDiffTwice'
<1>1. /\ Emitted(a)' = Emitted(a) \cup D
      /\ \A b \in Agents \ {a} : signals'[b] = signals[b] /\ Emitted(b)' = Emitted(b)
      /\ \/ signals'[a] = Append(signals[a], D)
         \/ signals'[a] = signals[a]
    BY EmitFacts
<1>2. HistoryDelivered'
    BY <1>1 DEF HistoryDelivered
<1>3. \A b \in Agents : Emitted(b)' \cap OwnDiffs(b)' = {}
    BY <1>1 DEF HistoryDelivered, NoDiffTwice
<1>4. D \cap Emitted(a) = {}
    BY DEF HistoryDelivered
<1>5. \A i, j \in DOMAIN signals'[a] : i # j => signals'[a][i] \cap signals'[a][j] = {}
    <2>1. signals[a] \in Seq(SUBSET Revisions)
        BY DEF TypeOK
    <2>2. \A i, j \in DOMAIN signals[a] : i # j => signals[a][i] \cap signals[a][j] = {}
        BY DEF NoDiffTwice
    <2>3. CASE signals'[a] = Append(signals[a], D)
        <3>1. \A i \in DOMAIN signals[a] : signals[a][i] \cap D = {}
            BY <1>4 DEF Emitted
        <3>2. /\ DOMAIN signals[a] = 1..Len(signals[a])
              /\ DOMAIN signals'[a] = 1..(Len(signals[a]) + 1)
              /\ Len(signals[a]) \in Nat
            BY <2>1, <2>3
        <3>3. \A i \in 1..Len(signals[a]) : signals'[a][i] = signals[a][i]
            BY <2>1, <2>3
        <3>4. signals'[a][Len(signals[a]) + 1] = D
            BY <2>1, <2>3
        <3> QED BY <2>2, <3>1, <3>2, <3>3, <3>4, SMTT(30)
    <2> QED BY <1>1, <2>2, <2>3
<1>6. NoDiffTwice'
    BY <1>1, <1>3, <1>5 DEF NoDiffTwice
<1> QED BY <1>2, <1>6

\* Only a merge has an empty diff, and it joins two different revisions; so the
\* entry that handle_broadcast fast-forwards to carries a diff.
MergesHaveTwoParents ==
    \A r \in Revisions : ~entries[r].diff => \E p, q \in Parents(r) : p # q

IInv == TypeOK /\ MergesHaveTwoParents /\ HistoryDelivered /\ NoDiffTwice

\* What the history of an agent becomes when its revision moves to r.
LEMMA HistoryOfDescendant ==
    ASSUME TypeOK, NEW c \in 0..Len(entries), NEW r \in Revisions, c \in AllAncestors(r)
    PROVE  AllAncestors(c) \subseteq AllAncestors(r)
BY AncestorsTransitive DEF AllAncestors, TypeOK, Revisions

LEMMA AncestorsOfChild ==
    ASSUME TypeOK, NEW a \in Agents, NEW r \in Revisions, IsChildOfCurrent(a, r)
    PROVE  /\ AllAncestors(r) = {r} \cup AllAncestors(current[a])
           /\ r \notin AllAncestors(current[a])
<1>1. AllAncestors(r) = {r} \cup UNION {AllAncestors(p) : p \in Parents(r)}
    <2>1. ParentsAreOlder(entries) /\ Len(entries) \in Nat /\ r \in 1..Len(entries)
        BY DEF TypeOK, Revisions
    <2>2. Ancestors(entries, r)
            = {r} \cup UNION {Ancestors(entries, p) : p \in entries[r].parents}
        BY <2>1, AncestorsUnfold
    <2> QED BY <2>2 DEF AllAncestors, Parents
<1>2. Parents(r) = {current[a]}
    BY DEF IsChildOfCurrent
<1>3. current[a] \in 1..(r - 1)
    BY <1>2 DEF TypeOK, ParentsAreOlder, Revisions, Parents
<1>4. AllAncestors(current[a]) \subseteq 1..current[a]
    BY GraphFacts
<1> QED BY <1>1, <1>2, <1>3, <1>4 DEF Revisions

\* A step that leaves entries and revisions alone leaves the histories alone.
LEMMA SameHistory ==
    ASSUME UNCHANGED entries, NEW b \in Agents, UNCHANGED (current[b])
    PROVE  History(b)' = History(b) /\ OwnDiffs(b)' = OwnDiffs(b)
BY DEF History, OwnDiffs, DiffsIn, AllAncestors, Revisions

LEMMA NothingDelivered ==
    ASSUME IInv, UNCHANGED <<entries, current, signals>>
    PROVE  (MergesHaveTwoParents /\ HistoryDelivered /\ NoDiffTwice)'
<1>1. \A b \in Agents : History(b)' = History(b) /\ OwnDiffs(b)' = OwnDiffs(b)
    BY SameHistory
<1>2. \A b \in Agents : Emitted(b)' = Emitted(b)
    BY DEF Emitted
<1> QED BY <1>1, <1>2 DEF IInv, MergesHaveTwoParents, HistoryDelivered, NoDiffTwice, Parents, Revisions

LEMMA FastForwardSignalDelivers ==
    ASSUME IInv, NEW a \in Agents, NEW b \in Agents, NEW r \in Revisions,
           FastForwardSignal(a, b, r)
    PROVE  (MergesHaveTwoParents /\ HistoryDelivered /\ NoDiffTwice)'
<1>1. AllAncestors(r) = {r} \cup AllAncestors(current[a]) /\ r \notin AllAncestors(current[a])
    BY AncestorsOfChild DEF FastForwardSignal, IInv
<1>2. entries[r].diff
    BY DEF FastForwardSignal, IsChildOfCurrent, IInv, MergesHaveTwoParents
<1>3. entries' = entries /\ current'[a] = r /\ \A c \in Agents \ {a} : current'[c] = current[c]
    BY DEF FastForwardSignal, IInv, TypeOK
<1>4. History(a)' = History(a) \cup {r} /\ {r} \cap History(a) = {}
    BY <1>1, <1>2, <1>3 DEF History, DiffsIn, AllAncestors
<1>5. \A c \in Agents \ {a} : History(c)' = History(c)
    BY <1>3, SameHistory
<1>6. \A c \in Agents : OwnDiffs(c)' = OwnDiffs(c)
    BY <1>3 DEF OwnDiffs, Revisions
<1>7. HistoryDelivered' /\ NoDiffTwice'
    BY <1>4, <1>5, <1>6, DeliveredTogether DEF FastForwardSignal, IInv
<1> QED BY <1>3, <1>7 DEF IInv, MergesHaveTwoParents, Parents, Revisions

LEMMA PullInitialDelivers ==
    ASSUME IInv, NEW a \in Agents, NEW r \in Revisions, PullInitial(a, r)
    PROVE  (MergesHaveTwoParents /\ HistoryDelivered /\ NoDiffTwice)'
<1> DEFINE D == DiffsIn(AllAncestors(r))
<1>1. D \in SUBSET Revisions
    BY GraphFacts DEF IInv, DiffsIn, Revisions
<1>2. History(a) = {}
    BY GraphFacts DEF IInv, PullInitial, History, DiffsIn
<1>3. entries' = entries /\ current'[a] = r /\ \A c \in Agents \ {a} : current'[c] = current[c]
    BY DEF PullInitial, IInv, TypeOK
<1>4. History(a)' = History(a) \cup D
    BY <1>2, <1>3 DEF History, DiffsIn, AllAncestors
<1>5. \A c \in Agents \ {a} : History(c)' = History(c)
    BY <1>3, SameHistory
<1>6. \A c \in Agents : OwnDiffs(c)' = OwnDiffs(c)
    BY <1>3 DEF OwnDiffs, Revisions
<1>7. HistoryDelivered' /\ NoDiffTwice'
    BY <1>1, <1>2, <1>4, <1>5, <1>6, DeliveredTogether DEF PullInitial, IInv
<1> QED BY <1>3, <1>7 DEF IInv, MergesHaveTwoParents, Parents, Revisions

LEMMA PullFastForwardDelivers ==
    ASSUME IInv, NEW a \in Agents, NEW r \in Revisions, PullFastForward(a, r)
    PROVE  (MergesHaveTwoParents /\ HistoryDelivered /\ NoDiffTwice)'
<1> DEFINE D == UnseenDiffs(a, r)
<1>1. D \in SUBSET Revisions /\ D \cap History(a) = {}
    BY GraphFacts DEF IInv, UnseenDiffs, History, DiffsIn, Revisions
<1>2. AllAncestors(current[a]) \subseteq AllAncestors(r)
    BY GraphFacts, HistoryOfDescendant DEF IInv, PullFastForward, FastForwardPossible
<1>3. entries' = entries /\ current'[a] = r /\ \A c \in Agents \ {a} : current'[c] = current[c]
    BY DEF PullFastForward, IInv, TypeOK
<1>4. History(a)' = History(a) \cup D
    BY <1>2, <1>3 DEF History, UnseenDiffs, DiffsIn, AllAncestors
<1>5. \A c \in Agents \ {a} : History(c)' = History(c)
    BY <1>3, SameHistory
<1>6. \A c \in Agents : OwnDiffs(c)' = OwnDiffs(c)
    BY <1>3 DEF OwnDiffs, Revisions
<1>7. HistoryDelivered' /\ NoDiffTwice'
    BY <1>1, <1>4, <1>5, <1>6, DeliveredTogether DEF PullFastForward, IInv
<1> QED BY <1>3, <1>7 DEF IInv, MergesHaveTwoParents, Parents, Revisions

LEMMA CommitDelivers ==
    ASSUME IInv, NEW a \in Agents, NEW chunked \in BOOLEAN, Commit(a, chunked)
    PROVE  (MergesHaveTwoParents /\ HistoryDelivered /\ NoDiffTwice)'
<1> DEFINE n == Len(entries) + 1
           e == [author |-> a, parents |-> {current[a]} \ {NoRevision},
                 diff |-> TRUE, chunked |-> chunked]
<1>1. TypeOK
    BY DEF IInv
<1>2. e.parents \subseteq Revisions
    BY <1>1 DEF TypeOK
<1>3. e \in Entry
    BY <1>1, <1>2, GraphFacts DEF Entry
<1>4. entries' = Append(entries, e)
    BY DEF Commit, CreateAndMoveTo
<1>5. /\ Revisions' = Revisions \cup {n}
      /\ n \notin Revisions
      /\ \A r \in Revisions : entries'[r] = entries[r]
      /\ entries'[n] = e
      /\ \A r \in 0..Len(entries) : AllAncestors(r)' = AllAncestors(r)
      /\ \A S \in SUBSET Revisions : DiffsIn(S)' = DiffsIn(S)
      /\ Ancestors(entries', n) = {n} \cup UNION {AllAncestors(p) : p \in e.parents}
    BY <1>1, <1>2, <1>3, <1>4, GraphGrows
<1>6. current'[a] = n /\ \A c \in Agents \ {a} : current'[c] = current[c]
    BY <1>1 DEF Commit, CreateAndMoveTo, TypeOK
<1>7. \A c \in Agents : AllAncestors(current[c]) \in SUBSET Revisions
    BY <1>1, GraphFacts
<1>8. AllAncestors(current[a])' = {n} \cup AllAncestors(current[a])
    <2>1. AllAncestors(current[a])' = Ancestors(entries', n)
        BY <1>6 DEF AllAncestors
    <2>2. UNION {AllAncestors(p) : p \in e.parents} = AllAncestors(current[a])
        BY <1>1, GraphFacts
    <2> QED BY <1>5, <2>1, <2>2
<1>9. History(a)' = History(a) \cup {n}
    <2>1. \A r \in AllAncestors(current[a]) : entries'[r] = entries[r]
        BY <1>5, <1>7
    <2> QED BY <1>5, <1>8, <2>1 DEF History, DiffsIn
<1>10. \A c \in Agents \ {a} : History(c)' = History(c)
    <2> SUFFICES ASSUME NEW c \in Agents \ {a} PROVE History(c)' = History(c)
        OBVIOUS
    <2>1. AllAncestors(current[c])' = AllAncestors(current[c])
        BY <1>1, <1>5, <1>6, GraphFacts DEF AllAncestors
    <2>2. \A r \in AllAncestors(current[c]) : entries'[r] = entries[r]
        BY <1>5, <1>7
    <2> QED BY <2>1, <2>2 DEF History, DiffsIn
<1>11. OwnDiffs(a)' = OwnDiffs(a) \cup {n} /\ \A c \in Agents \ {a} : OwnDiffs(c)' = OwnDiffs(c)
    BY <1>5 DEF OwnDiffs
<1>12. \A c \in Agents : signals'[c] = signals[c] /\ Emitted(c)' = Emitted(c)
    BY DEF Commit, Emitted
<1>13. n \notin Emitted(a)
    BY <1>5, <1>7 DEF IInv, HistoryDelivered, History, DiffsIn
<1>14. HistoryDelivered'
    BY <1>9, <1>10, <1>11, <1>12 DEF IInv, HistoryDelivered
<1>15. NoDiffTwice'
    BY <1>11, <1>12, <1>13 DEF IInv, NoDiffTwice
<1>16. MergesHaveTwoParents'
    BY <1>5 DEF IInv, MergesHaveTwoParents, Parents
<1> QED BY <1>14, <1>15, <1>16

LEMMA PullMergeDelivers ==
    ASSUME IInv, NEW a \in Agents, NEW r \in Revisions, PullMerge(a, r)
    PROVE  (MergesHaveTwoParents /\ HistoryDelivered /\ NoDiffTwice)'
<1> DEFINE n == Len(entries) + 1
           D == UnseenDiffs(a, r)
           e == [author |-> a, parents |-> {r, current[a]}, diff |-> FALSE, chunked |-> FALSE]
<1>1. TypeOK
    BY DEF IInv
<1>2. e.parents \subseteq Revisions
    BY <1>1 DEF TypeOK, PullMerge, Forked
<1>3. e \in Entry
    BY <1>1, <1>2, GraphFacts DEF Entry
<1>4. entries' = Append(entries, e)
    BY DEF PullMerge, CreateAndMoveTo
<1>5. /\ Revisions' = Revisions \cup {n}
      /\ n \notin Revisions
      /\ \A x \in Revisions : entries'[x] = entries[x]
      /\ entries'[n] = e
      /\ \A x \in 0..Len(entries) : AllAncestors(x)' = AllAncestors(x)
      /\ \A S \in SUBSET Revisions : DiffsIn(S)' = DiffsIn(S)
      /\ Ancestors(entries', n) = {n} \cup UNION {AllAncestors(p) : p \in e.parents}
    BY <1>1, <1>2, <1>3, <1>4, GraphGrows
<1>6. current'[a] = n /\ \A c \in Agents \ {a} : current'[c] = current[c]
    BY <1>1 DEF PullMerge, CreateAndMoveTo, TypeOK
<1>7. /\ \A c \in Agents : AllAncestors(current[c]) \in SUBSET Revisions
      /\ AllAncestors(r) \in SUBSET Revisions
    BY <1>1, GraphFacts DEF Revisions
<1>8. AllAncestors(current[a])' = {n} \cup AllAncestors(r) \cup AllAncestors(current[a])
    <2>1. AllAncestors(current[a])' = Ancestors(entries', n)
        BY <1>6 DEF AllAncestors
    <2>2. UNION {AllAncestors(p) : p \in e.parents} = AllAncestors(r) \cup AllAncestors(current[a])
        OBVIOUS
    <2> QED BY <1>5, <2>1, <2>2
<1>9. D \in SUBSET Revisions /\ D \cap History(a) = {}
    BY <1>7 DEF UnseenDiffs, History, DiffsIn
<1>10. History(a)' = History(a) \cup D
    <2>1. \A x \in AllAncestors(current[a]) \cup AllAncestors(r) : entries'[x] = entries[x]
        BY <1>5, <1>7
    <2> QED BY <1>5, <1>8, <2>1 DEF History, UnseenDiffs, DiffsIn
<1>11. \A c \in Agents \ {a} : History(c)' = History(c)
    <2> SUFFICES ASSUME NEW c \in Agents \ {a} PROVE History(c)' = History(c)
        OBVIOUS
    <2>1. AllAncestors(current[c])' = AllAncestors(current[c])
        BY <1>1, <1>5, <1>6, GraphFacts DEF AllAncestors
    <2>2. \A x \in AllAncestors(current[c]) : entries'[x] = entries[x]
        BY <1>5, <1>7
    <2> QED BY <2>1, <2>2 DEF History, DiffsIn
<1>12. \A c \in Agents : OwnDiffs(c)' = OwnDiffs(c)
    BY <1>5 DEF OwnDiffs
<1>13. HistoryDelivered' /\ NoDiffTwice'
    BY <1>9, <1>10, <1>11, <1>12, DeliveredTogether DEF PullMerge, IInv
<1>14. r # current[a]
    BY <1>1, GraphFacts DEF PullMerge, Forked, AheadOf
<1>15. MergesHaveTwoParents'
    <2> SUFFICES ASSUME NEW x \in Revisions', ~entries'[x].diff
                 PROVE  \E p, q \in entries'[x].parents : p # q
        BY DEF MergesHaveTwoParents, Parents
    <2>1. CASE x = n
        <3>1. entries'[x].parents = {r, current[a]}
            BY <1>5, <2>1
        <3> QED BY <3>1, <1>14
    <2>2. CASE x \in Revisions
        BY <2>2, <1>5 DEF IInv, MergesHaveTwoParents, Parents
    <2> QED BY <1>5, <2>1, <2>2
<1> QED BY <1>13, <1>15

LEMMA IInvInit == Init => IInv
<1> SUFFICES ASSUME Init PROVE IInv
    OBVIOUS
<1>1. Revisions = {} /\ \A a \in Agents : signals[a] = <<>> /\ current[a] = NoRevision
    BY DEF Init, Revisions
<1>2. MergesHaveTwoParents
    BY <1>1 DEF MergesHaveTwoParents
<1>3. \A a \in Agents : Emitted(a) = {} /\ OwnDiffs(a) = {}
    BY <1>1 DEF Emitted, OwnDiffs
<1>4. \A a \in Agents : History(a) = {}
    BY <1>1, TypeInit, GraphFacts DEF History, DiffsIn
<1>5. HistoryDelivered
    BY <1>3, <1>4 DEF HistoryDelivered
<1>6. NoDiffTwice
    BY <1>1, <1>3 DEF NoDiffTwice
<1> QED BY <1>2, <1>5, <1>6, TypeInit DEF IInv

LEMMA IInvNext == IInv /\ [Next]_vars => IInv'
<1> SUFFICES ASSUME IInv, [Next]_vars PROVE IInv'
    OBVIOUS
<1>1. TypeOK'
    BY TypeNext DEF IInv
<1>2. ASSUME NEW a \in Agents, BroadcastCurrent(a)
      PROVE  (MergesHaveTwoParents /\ HistoryDelivered /\ NoDiffTwice)'
    BY <1>2, NothingDelivered DEF BroadcastCurrent
<1>3. ASSUME NEW a \in Agents, NEW r \in Revisions, FetchChunks(a, r) \/ Integrate(a, r)
      PROVE  (MergesHaveTwoParents /\ HistoryDelivered /\ NoDiffTwice)'
    BY <1>3, NothingDelivered DEF FetchChunks, Integrate
<1>4. CASE UNCHANGED vars
    BY <1>4, <1>1, NothingDelivered DEF vars, IInv
<1>5. CASE Next
    <2>1. \/ \E a \in Agents, chunked \in BOOLEAN : Commit(a, chunked)
          \/ \E a \in Agents : BroadcastCurrent(a)
          \/ \E a, b \in Agents, r \in Revisions : FastForwardSignal(a, b, r)
          \/ \E a \in Agents, r \in Revisions : \/ PullInitial(a, r)
                                                \/ PullFastForward(a, r)
                                                \/ PullMerge(a, r)
                                                \/ FetchChunks(a, r)
                                                \/ Integrate(a, r)
          \/ UNCHANGED vars
        BY <1>5, NextCases DEF IInv
    <2> QED BY <2>1, <1>1, <1>2, <1>3, <1>4, CommitDelivers, FastForwardSignalDelivers,
               PullInitialDelivers, PullFastForwardDelivers, PullMergeDelivers DEF IInv
<1> QED BY <1>4, <1>5

\* In every reachable state each executor has been given exactly the diffs in the
\* history of its revision, and none of them twice.
THEOREM DeliveredExactlyOnce == Spec => [](HistoryDelivered /\ NoDiffTwice)
<1>1. IInv => HistoryDelivered /\ NoDiffTwice
    BY DEF IInv
<1> QED BY <1>1, IInvInit, IInvNext, PTL DEF Spec

\* No executor is given a diff by two signals, and none is given its own diff: the
\* seen_diffs filter of pull() and merge() leaves nothing through twice.
THEOREM NothingDeliveredTwice == Spec => []NoDiffTwice
<1>1. HistoryDelivered /\ NoDiffTwice => NoDiffTwice
    OBVIOUS
<1> QED BY <1>1, DeliveredExactlyOnce, PTL

-----------------------------------------------------------------------------
(* Revisions only grow *)

\* A revision moves to a descendant: the new entry, the broadcast child, theirs.
LEMMA StepNeverRewinds ==
    ASSUME TypeOK, Next
    PROVE  \A a \in Agents : AllAncestors(current[a]) \subseteq AllAncestors(current[a])'
<1> USE GraphFacts
<1>1. ASSUME NEW a \in Agents, NEW e \in Entry, e.parents \subseteq Revisions,
             CreateAndMoveTo(a, e), current[a] \in e.parents \cup {NoRevision}
      PROVE  \A c \in Agents : AllAncestors(current[c]) \subseteq AllAncestors(current[c])'
    <2>1. entries' = Append(entries, e)
        BY <1>1 DEF CreateAndMoveTo
    <2>2. /\ \A r \in 0..Len(entries) : AllAncestors(r)' = AllAncestors(r)
          /\ Ancestors(entries', Len(entries) + 1)
               = {Len(entries) + 1} \cup UNION {AllAncestors(p) : p \in e.parents}
        BY <1>1, <2>1, GraphGrows
    <2>3. current'[a] = Len(entries) + 1 /\ \A c \in Agents \ {a} : current'[c] = current[c]
        BY <1>1 DEF CreateAndMoveTo, TypeOK
    <2>4. \A c \in Agents \ {a} : AllAncestors(current[c])' = AllAncestors(current[c])
        BY <2>2, <2>3 DEF AllAncestors
    <2>5. AllAncestors(current[a]) \subseteq Ancestors(entries', Len(entries) + 1)
        BY <1>1, <2>2
    <2> QED BY <2>3, <2>4, <2>5 DEF AllAncestors
<1>2. ASSUME NEW a \in Agents, NEW r \in Revisions, entries' = entries,
             current' = [current EXCEPT ![a] = r],
             current[a] \in AllAncestors(r) \cup {NoRevision}
      PROVE  \A c \in Agents : AllAncestors(current[c]) \subseteq AllAncestors(current[c])'
    <2>1. current'[a] = r /\ \A c \in Agents \ {a} : current'[c] = current[c]
        BY <1>2 DEF TypeOK
    <2>2. AllAncestors(current[a]) \subseteq AllAncestors(r)
        BY <1>2, HistoryOfDescendant
    <2> QED BY <1>2, <2>1, <2>2 DEF AllAncestors
<1>3. ASSUME NEW a \in Agents, NEW chunked \in BOOLEAN, Commit(a, chunked)
      PROVE  \A c \in Agents : AllAncestors(current[c]) \subseteq AllAncestors(current[c])'
    <2> DEFINE e == [author |-> a, parents |-> {current[a]} \ {NoRevision},
                     diff |-> TRUE, chunked |-> chunked]
    <2>1. e.parents \subseteq Revisions
        BY DEF TypeOK
    <2>2. e \in Entry
        BY <2>1 DEF Entry, Revisions
    <2> QED BY <1>1, <1>3, <2>1, <2>2 DEF Commit
<1>4. ASSUME NEW a \in Agents, NEW r \in Revisions, PullMerge(a, r)
      PROVE  \A c \in Agents : AllAncestors(current[c]) \subseteq AllAncestors(current[c])'
    <2> DEFINE e == [author |-> a, parents |-> {r, current[a]}, diff |-> FALSE, chunked |-> FALSE]
    <2>1. e.parents \subseteq Revisions
        BY <1>4 DEF PullMerge, Forked, TypeOK
    <2>2. e \in Entry
        BY <2>1 DEF Entry, Revisions
    <2> QED BY <1>1, <1>4, <2>1, <2>2 DEF PullMerge
<1>5. ASSUME NEW a \in Agents, NEW b \in Agents, NEW r \in Revisions, FastForwardSignal(a, b, r)
      PROVE  \A c \in Agents : AllAncestors(current[c]) \subseteq AllAncestors(current[c])'
    <2>1. current[a] \in AllAncestors(r)
        <3>1. current[a] \in Revisions /\ IsChildOfCurrent(a, r)
            BY <1>5 DEF FastForwardSignal, IsChildOfCurrent, TypeOK
        <3>2. AllAncestors(r) = {r} \cup AllAncestors(current[a])
            BY <3>1, AncestorsOfChild
        <3> QED BY <3>1, <3>2
    <2> QED BY <1>2, <1>5, <2>1 DEF FastForwardSignal
<1>6. ASSUME NEW a \in Agents, NEW r \in Revisions, PullInitial(a, r) \/ PullFastForward(a, r)
      PROVE  \A c \in Agents : AllAncestors(current[c]) \subseteq AllAncestors(current[c])'
    BY <1>2, <1>6 DEF PullInitial, PullFastForward, FastForwardPossible
<1>7. ASSUME UNCHANGED <<entries, current>>
      PROVE  \A c \in Agents : AllAncestors(current[c]) \subseteq AllAncestors(current[c])'
    BY <1>7 DEF AllAncestors
<1> QED
    BY NextCases, <1>3, <1>4, <1>5, <1>6, <1>7
       DEF BroadcastCurrent, FetchChunks, Integrate, vars

\* Whatever is in an agent's history stays there through every later zome call.
THEOREM RevisionsNeverRewind == Spec => NeverRewinds
<1>1. TypeOK /\ [Next]_vars => [\A a \in Agents : AllAncestors(current[a]) \subseteq AllAncestors(current[a])']_vars
    BY StepNeverRewinds
<1> QED BY <1>1, TypeCorrect, PTL DEF Spec, NeverRewinds

-----------------------------------------------------------------------------
(* Merges *)

LEMMA MergesJoinForksNext == TypeOK /\ MergesJoinForks /\ [Next]_vars => MergesJoinForks'
<1> SUFFICES ASSUME TypeOK, MergesJoinForks, [Next]_vars PROVE MergesJoinForks'
    OBVIOUS
<1> USE GraphFacts
<1>1. ASSUME NEW a \in Agents, NEW e \in Entry, e.parents \subseteq Revisions,
             CreateAndMoveTo(a, e),
             \A p, q \in e.parents : p # q => p \notin AllAncestors(q)
      PROVE  MergesJoinForks'
    <2>1. entries' = Append(entries, e)
        BY <1>1 DEF CreateAndMoveTo
    <2>2. /\ Revisions' = Revisions \cup {Len(entries) + 1}
          /\ \A r \in Revisions : entries'[r] = entries[r]
          /\ entries'[Len(entries) + 1] = e
          /\ \A r \in 0..Len(entries) : AllAncestors(r)' = AllAncestors(r)
        BY <1>1, <2>1, GraphGrows
    <2> SUFFICES ASSUME NEW r \in Revisions',
                        NEW p \in entries'[r].parents, NEW q \in entries'[r].parents, p # q
                 PROVE  p \notin AllAncestors(q)'
        BY DEF MergesJoinForks, Parents
    <2>3. CASE r \in Revisions
        <3>1. p \in Parents(r) /\ q \in Parents(r) /\ q \in Revisions
            BY <2>2, <2>3 DEF Parents
        <3> QED BY <2>2, <2>3, <3>1 DEF MergesJoinForks, Revisions
    <2>4. CASE r = Len(entries) + 1
        <3>1. p \in e.parents /\ q \in e.parents /\ q \in Revisions
            BY <1>1, <2>2, <2>4
        <3> QED BY <1>1, <2>2, <3>1 DEF Revisions
    <2> QED BY <2>2, <2>3, <2>4
<1>2. ASSUME NEW a \in Agents, NEW chunked \in BOOLEAN, Commit(a, chunked)
      PROVE  MergesJoinForks'
    <2> DEFINE e == [author |-> a, parents |-> {current[a]} \ {NoRevision},
                     diff |-> TRUE, chunked |-> chunked]
    <2>1. e.parents \subseteq Revisions
        BY DEF TypeOK
    <2>2. e \in Entry
        BY <2>1 DEF Entry, Revisions
    <2> QED BY <1>1, <1>2, <2>1, <2>2 DEF Commit
<1>3. ASSUME NEW a \in Agents, NEW r \in Revisions, PullMerge(a, r)
      PROVE  MergesJoinForks'
    <2> DEFINE e == [author |-> a, parents |-> {r, current[a]}, diff |-> FALSE, chunked |-> FALSE]
    <2>1. e.parents \subseteq Revisions
        BY <1>3 DEF PullMerge, Forked, TypeOK
    <2>2. e \in Entry
        BY <2>1 DEF Entry, Revisions
    <2>3. \A p, q \in e.parents : p # q => p \notin AllAncestors(q)
        BY <1>3 DEF PullMerge, Forked, AheadOf, FastForwardPossible
    <2> QED BY <1>1, <1>3, <2>1, <2>2, <2>3 DEF PullMerge
<1>4. ASSUME UNCHANGED entries
      PROVE  MergesJoinForks'
    BY <1>4 DEF MergesJoinForks, Parents, AllAncestors, Revisions
<1>5. CASE UNCHANGED vars
    BY <1>4, <1>5 DEF vars
<1>6. CASE Next
    BY <1>2, <1>3, <1>4, <1>5, <1>6, NextCases
       DEF BroadcastCurrent, FastForwardSignal, PullInitial, PullFastForward, FetchChunks, Integrate
<1> QED BY <1>5, <1>6

\* No merge entry joins a revision with one of its own ancestors, whichever agents
\* take themselves for the scribe.
THEOREM MergesOnlyForks == Spec => []MergesJoinForks
<1>1. Init => MergesJoinForks
    BY DEF Init, MergesJoinForks, Revisions
<1> QED BY <1>1, MergesJoinForksNext, TypeCorrect, PTL DEF Spec

-----------------------------------------------------------------------------
(* The order of signals, and revisions ahead of the DHT *)

\* The integrity zome serves no entry before its parents, and an entry of one's
\* own is created on top of retrievable ones.
HeldIsClosed == \A a \in Agents : ParentClosed(entries, held[a])

\* What one step does for an agent: it learns of new entries only what it holds or
\* was just told, and is told only what is not in its history yet.
Advances(a) ==
    /\ held[a] \subseteq held'[a]
    /\ \/ /\ signals'[a] = signals[a]
          /\ AllAncestors(current[a])' \subseteq AllAncestors(current[a]) \cup held'[a]
       \/ \E D \in SUBSET Revisions :
              /\ signals'[a] = Append(signals[a], D)
              /\ D \cap AllAncestors(current[a]) = {}
              /\ \A r \in AllAncestors(current[a])' :
                     r \in AllAncestors(current[a]) \cup held'[a] \/ D = {r}

LEMMA HeldAncestors ==
    ASSUME TypeOK, HeldIsClosed, NEW a \in Agents, NEW r \in Revisions, r \in held[a]
    PROVE  AllAncestors(r) \subseteq held[a]
<1>1. ParentsAreOlder(entries) /\ Len(entries) \in Nat /\ r \in 1..Len(entries)
    BY DEF TypeOK, Revisions
<1>2. ParentClosed(entries, held[a])
    BY DEF HeldIsClosed
<1> QED BY <1>1, <1>2, AncestorsLeast DEF AllAncestors

\* An agent the step is not about.
LEMMA OthersAdvance ==
    ASSUME TypeOK, NEW b \in Agents, current'[b] = current[b], signals'[b] = signals[b],
           held[b] \subseteq held'[b],
           Ancestors(entries', current[b]) = Ancestors(entries, current[b])
    PROVE  Advances(b)
BY DEF Advances, AllAncestors

\* What emitting D means for the agent it is emitted to.
LEMMA EmitAdvances ==
    ASSUME TypeOK, NEW a \in Agents, NEW D \in SUBSET Revisions,
           Emit(a, D) \/ EmitIfNonEmpty(a, D),
           D \cap AllAncestors(current[a]) = {},
           held[a] \subseteq held'[a],
           AllAncestors(current[a])' \subseteq AllAncestors(current[a]) \cup held'[a]
    PROVE  Advances(a)
<1>1. signals'[a] = Append(signals[a], D) \/ signals'[a] = signals[a]
    BY EmitFacts
<1> QED BY <1>1 DEF Advances

\* A step that creates an entry on retrievable parents.
LEMMA CreateAdvances ==
    ASSUME TypeOK, HeldIsClosed, NEW a \in Agents, NEW e \in Entry,
           e.parents \subseteq Revisions, e.parents \subseteq held[a],
           CreateAndMoveTo(a, e),
           NEW D \in SUBSET Revisions, D \cap AllAncestors(current[a]) = {},
           UNCHANGED signals \/ EmitIfNonEmpty(a, D)
    PROVE  HeldIsClosed' /\ \A b \in Agents : Advances(b)
<1> DEFINE n == Len(entries) + 1
<1>1. entries' = Append(entries, e)
    BY DEF CreateAndMoveTo
<1>2. /\ \A r \in Revisions : entries'[r] = entries[r]
      /\ entries'[n] = e
      /\ \A r \in 0..Len(entries) : AllAncestors(r)' = AllAncestors(r)
      /\ Ancestors(entries', n) = {n} \cup UNION {AllAncestors(p) : p \in e.parents}
    BY <1>1, GraphGrows
<1>3. /\ current'[a] = n
      /\ held'[a] = held[a] \cup {n}
      /\ \A b \in Agents \ {a} : current'[b] = current[b] /\ held'[b] = held[b]
      /\ \A b \in Agents : held[b] \subseteq Revisions
    BY DEF CreateAndMoveTo, TypeOK
<1>4. HeldIsClosed'
    <2> SUFFICES ASSUME NEW b \in Agents, NEW r \in held'[b]
                 PROVE  entries'[r].parents \subseteq held'[b]
        BY DEF HeldIsClosed, ParentClosed
    <2>1. CASE r \in held[b]
        <3>1. entries'[r] = entries[r]
            BY <1>2, <1>3, <2>1
        <3>2. entries[r].parents \subseteq held[b]
            BY <2>1 DEF HeldIsClosed, ParentClosed
        <3> QED BY <1>3, <3>1, <3>2
    <2>2. CASE b = a /\ r = n
        BY <1>2, <1>3, <2>2
    <2> QED BY <1>3, <2>1, <2>2
<1>5. AllAncestors(current[a])' \subseteq held'[a]
    <2>1. \A p \in e.parents : AllAncestors(p) \subseteq held[a]
        BY HeldAncestors
    <2> QED BY <1>2, <1>3, <2>1 DEF AllAncestors
<1>6. Advances(a)
    BY <1>3, <1>5, EmitAdvances DEF Advances
<1>7. ASSUME NEW b \in Agents \ {a}
      PROVE  Advances(b)
    <2>1. signals'[b] = signals[b]
        BY EmitFacts
    <2>2. Ancestors(entries', current[b]) = Ancestors(entries, current[b])
        BY <1>2, GraphFacts DEF AllAncestors
    <2> QED BY <1>3, <2>1, <2>2, OthersAdvance
<1> QED BY <1>4, <1>6, <1>7

\* A pull that adopts a revision the agent can retrieve.
LEMMA AdoptAdvances ==
    ASSUME TypeOK, HeldIsClosed, NEW a \in Agents, NEW r \in Revisions, r \in held[a],
           UNCHANGED <<entries, held>>, current' = [current EXCEPT ![a] = r],
           NEW D \in SUBSET Revisions, D \cap AllAncestors(current[a]) = {},
           Emit(a, D) \/ EmitIfNonEmpty(a, D)
    PROVE  HeldIsClosed' /\ \A b \in Agents : Advances(b)
<1>1. current'[a] = r /\ \A b \in Agents \ {a} : current'[b] = current[b]
    BY DEF TypeOK
<1>2. HeldIsClosed'
    BY DEF HeldIsClosed, ParentClosed
<1>3. AllAncestors(current[a])' \subseteq held'[a]
    BY <1>1, HeldAncestors DEF AllAncestors
<1>4. Advances(a)
    BY <1>3, EmitAdvances
<1>5. ASSUME NEW b \in Agents \ {a}
      PROVE  Advances(b)
    <2>1. signals'[b] = signals[b]
        BY EmitFacts
    <2> QED BY <1>1, <2>1, OthersAdvance
<1> QED BY <1>2, <1>4, <1>5

LEMMA StepAdvances ==
    ASSUME TypeOK, HeldIsClosed, Next
    PROVE  HeldIsClosed' /\ \A b \in Agents : Advances(b)
<1> USE GraphFacts
<1>1. ASSUME NEW a \in Agents, NEW chunked \in BOOLEAN, Commit(a, chunked)
      PROVE  HeldIsClosed' /\ \A b \in Agents : Advances(b)
    <2> DEFINE e == [author |-> a, parents |-> {current[a]} \ {NoRevision},
                     diff |-> TRUE, chunked |-> chunked]
    <2>1. e.parents \subseteq Revisions
        BY DEF TypeOK
    <2>2. e \in Entry
        BY <2>1 DEF Entry, Revisions
    <2>3. e.parents \subseteq held[a]
        BY <1>1 DEF Commit, CurrentRetrievable
    <2>4. CreateAndMoveTo(a, e) /\ UNCHANGED signals
        BY <1>1 DEF Commit
    <2>5. {} \in SUBSET Revisions /\ {} \cap AllAncestors(current[a]) = {}
        OBVIOUS
    <2> QED BY <2>1, <2>2, <2>3, <2>4, <2>5, CreateAdvances
<1>2. ASSUME NEW a \in Agents, NEW r \in Revisions
      PROVE  UnseenDiffs(a, r) \in SUBSET Revisions /\ UnseenDiffs(a, r) \cap AllAncestors(current[a]) = {}
    BY DEF UnseenDiffs, DiffsIn
<1>3. ASSUME NEW a \in Agents, NEW r \in Revisions, PullMerge(a, r)
      PROVE  HeldIsClosed' /\ \A b \in Agents : Advances(b)
    <2> DEFINE e == [author |-> a, parents |-> {r, current[a]}, diff |-> FALSE, chunked |-> FALSE]
    <2>1. e.parents \subseteq Revisions
        BY <1>3 DEF PullMerge, Forked, TypeOK
    <2>2. e \in Entry
        BY <2>1 DEF Entry, Revisions
    <2>3. e.parents \subseteq held[a]
        BY <1>3 DEF PullMerge, Forked, Walkable, CurrentRetrievable
    <2>4. CreateAndMoveTo(a, e) /\ EmitIfNonEmpty(a, UnseenDiffs(a, r))
        BY <1>3 DEF PullMerge
    <2> QED BY <1>2, <2>1, <2>2, <2>3, <2>4, CreateAdvances
<1>4. ASSUME NEW a \in Agents, NEW b \in Agents, NEW r \in Revisions, FastForwardSignal(a, b, r)
      PROVE  HeldIsClosed' /\ \A c \in Agents : Advances(c)
    <2>1. AllAncestors(r) = {r} \cup AllAncestors(current[a]) /\ r \notin AllAncestors(current[a])
        BY <1>4, AncestorsOfChild DEF FastForwardSignal
    <2>2. /\ entries' = entries /\ held' = held
          /\ current'[a] = r /\ \A c \in Agents \ {a} : current'[c] = current[c]
          /\ Emit(a, {r})
        BY <1>4 DEF FastForwardSignal, TypeOK
    <2>3. signals'[a] = Append(signals[a], {r}) /\ \A c \in Agents \ {a} : signals'[c] = signals[c]
        BY <2>2 DEF Emit, TypeOK
    <2>4. Advances(a)
        <3>1. {r} \in SUBSET Revisions /\ {r} \cap AllAncestors(current[a]) = {}
            BY <2>1
        <3>2. \A x \in AllAncestors(current[a])' : x \in AllAncestors(current[a]) \/ {r} = {x}
            BY <2>1, <2>2 DEF AllAncestors
        <3> QED BY <2>2, <2>3, <3>1, <3>2 DEF Advances
    <2>5. \A c \in Agents \ {a} : Advances(c)
        BY <2>2, <2>3, OthersAdvance
    <2>6. HeldIsClosed'
        BY <2>2 DEF HeldIsClosed
    <2> QED BY <2>4, <2>5, <2>6
<1>5. ASSUME NEW a \in Agents, NEW r \in Revisions, PullInitial(a, r)
      PROVE  HeldIsClosed' /\ \A b \in Agents : Advances(b)
    <2>1. DiffsIn(AllAncestors(r)) \in SUBSET Revisions
        BY DEF DiffsIn
    <2>2. DiffsIn(AllAncestors(r)) \cap AllAncestors(current[a]) = {}
        BY <1>5 DEF PullInitial
    <2> QED BY <1>5, <2>1, <2>2, AdoptAdvances DEF PullInitial
<1>6. ASSUME NEW a \in Agents, NEW r \in Revisions, PullFastForward(a, r)
      PROVE  HeldIsClosed' /\ \A b \in Agents : Advances(b)
    BY <1>2, <1>6, AdoptAdvances DEF PullFastForward, Walkable
<1>7. ASSUME UNCHANGED <<entries, current, signals>>,
             \A b \in Agents : held[b] \subseteq held'[b],
             \A b \in Agents : \A r \in held'[b] : Parents(r) \subseteq held'[b]
      PROVE  HeldIsClosed' /\ \A b \in Agents : Advances(b)
    <2>1. HeldIsClosed'
        BY <1>7 DEF HeldIsClosed, ParentClosed, Parents
    <2> QED BY <1>7, <2>1, OthersAdvance
<1>8. \A b \in Agents : \A r \in held[b] : Parents(r) \subseteq held[b]
    BY DEF HeldIsClosed, ParentClosed, Parents
<1>9. ASSUME NEW a \in Agents, NEW r \in Revisions, Integrate(a, r)
      PROVE  HeldIsClosed' /\ \A b \in Agents : Advances(b)
    <2>1. held'[a] = held[a] \cup {r} /\ \A b \in Agents \ {a} : held'[b] = held[b]
        BY <1>9 DEF Integrate, TypeOK
    <2> QED BY <1>7, <1>8, <1>9, <2>1 DEF Integrate
<1>10. ASSUME UNCHANGED <<entries, current, signals, held>>
       PROVE  HeldIsClosed' /\ \A b \in Agents : Advances(b)
    BY <1>7, <1>8, <1>10
<1> QED
    BY NextCases, <1>1, <1>3, <1>4, <1>5, <1>6, <1>9, <1>10
       DEF BroadcastCurrent, FetchChunks, vars

OrderInv == IInv /\ HeldIsClosed /\ SignalsInCausalOrder /\ UnretrievableWasSignalled

\* A new signal holds nothing of the history, hence no ancestor of what was emitted.
LEMMA CausalOrderNext ==
    ASSUME IInv, SignalsInCausalOrder, Next, \A b \in Agents : Advances(b)
    PROVE  SignalsInCausalOrder'
<1> USE GraphFacts DEF IInv
<1>1. \A r \in Revisions : AllAncestors(r)' = AllAncestors(r)
    <2>1. ASSUME NEW e \in Entry, e.parents \subseteq Revisions, entries' = Append(entries, e)
          PROVE  \A r \in Revisions : AllAncestors(r)' = AllAncestors(r)
        BY <2>1, GraphGrows DEF Revisions
    <2>2. ASSUME UNCHANGED entries
          PROVE  \A r \in Revisions : AllAncestors(r)' = AllAncestors(r)
        BY <2>2 DEF AllAncestors
    <2>3. ASSUME NEW a \in Agents, NEW chunked \in BOOLEAN, Commit(a, chunked)
          PROVE  \A r \in Revisions : AllAncestors(r)' = AllAncestors(r)
        <3> DEFINE e == [author |-> a, parents |-> {current[a]} \ {NoRevision},
                         diff |-> TRUE, chunked |-> chunked]
        <3>1. e.parents \subseteq Revisions
            BY DEF TypeOK
        <3>2. e \in Entry
            BY <3>1 DEF Entry, Revisions
        <3> QED BY <2>1, <2>3, <3>1, <3>2 DEF Commit, CreateAndMoveTo
    <2>4. ASSUME NEW a \in Agents, NEW r \in Revisions, PullMerge(a, r)
          PROVE  \A x \in Revisions : AllAncestors(x)' = AllAncestors(x)
        <3> DEFINE e == [author |-> a, parents |-> {r, current[a]}, diff |-> FALSE, chunked |-> FALSE]
        <3>1. e.parents \subseteq Revisions
            BY <2>4 DEF PullMerge, Forked, TypeOK
        <3>2. e \in Entry
            BY <3>1 DEF Entry, Revisions
        <3> QED BY <2>1, <2>4, <3>1, <3>2 DEF PullMerge, CreateAndMoveTo
    <2> QED BY NextCases, <2>2, <2>3, <2>4
           DEF BroadcastCurrent, FastForwardSignal, PullInitial, PullFastForward,
               FetchChunks, Integrate, vars
<1>2. ASSUME NEW a \in Agents, NEW i \in DOMAIN signals[a], NEW x \in signals[a][i]
      PROVE  x \in Revisions /\ AllAncestors(x) \subseteq AllAncestors(current[a])
    <2>1. x \in History(a)
        BY <1>2 DEF HistoryDelivered, Emitted
    <2>2. x \in AllAncestors(current[a]) /\ x \in Revisions
        BY <2>1 DEF History, DiffsIn
    <2>3. AllAncestors(current[a]) # {}
        BY <2>2
    <2>4. current[a] \in Revisions
        BY <2>3 DEF TypeOK
    <2> QED BY <2>2, <2>4, HistoryOfDescendant DEF Revisions
<1> SUFFICES ASSUME NEW a \in Agents, NEW i \in DOMAIN signals'[a], NEW j \in DOMAIN signals'[a],
                    i < j, NEW x \in signals'[a][i]
             PROVE  signals'[a][j] \cap AllAncestors(x)' = {}
    BY DEF SignalsInCausalOrder
<1>3. signals[a] \in Seq(SUBSET Revisions)
    BY DEF TypeOK
<1>4. CASE signals'[a] = signals[a]
    BY <1>1, <1>2, <1>4 DEF SignalsInCausalOrder
<1>5. ASSUME NEW D \in SUBSET Revisions, signals'[a] = Append(signals[a], D),
             D \cap AllAncestors(current[a]) = {}
      PROVE  signals'[a][j] \cap AllAncestors(x)' = {}
    <2>1. /\ DOMAIN signals[a] = 1..Len(signals[a])
          /\ DOMAIN signals'[a] = 1..(Len(signals[a]) + 1)
          /\ Len(signals[a]) \in Nat
        BY <1>3, <1>5
    <2>2. \A k \in 1..Len(signals[a]) : signals'[a][k] = signals[a][k]
        BY <1>3, <1>5
    <2>3. signals'[a][Len(signals[a]) + 1] = D
        BY <1>3, <1>5
    <2>4. i \in DOMAIN signals[a] /\ x \in signals[a][i]
        BY <2>1, <2>2
    <2>5. AllAncestors(x)' = AllAncestors(x) /\ AllAncestors(x) \subseteq AllAncestors(current[a])
        BY <1>1, <1>2, <2>4
    <2>6. CASE j \in DOMAIN signals[a]
        BY <2>1, <2>2, <2>4, <2>5, <2>6 DEF SignalsInCausalOrder
    <2>7. CASE j = Len(signals[a]) + 1
        BY <1>5, <2>3, <2>5, <2>7
    <2> QED BY <2>1, <2>6, <2>7
<1> QED BY <1>4, <1>5 DEF Advances

\* What was told stays told, and what is held stays held.
LEMMA UnretrievableNext ==
    ASSUME TypeOK, UnretrievableWasSignalled, \A b \in Agents : Advances(b)
    PROVE  UnretrievableWasSignalled'
<1> SUFFICES ASSUME NEW a \in Agents, NEW r \in AllAncestors(current[a])', r \notin held'[a]
             PROVE  \E i \in DOMAIN signals'[a] : signals'[a][i] = {r}
    BY DEF UnretrievableWasSignalled
<1>1. signals[a] \in Seq(SUBSET Revisions)
    BY DEF TypeOK
<1>2. r \in AllAncestors(current[a]) => \E i \in DOMAIN signals[a] : signals[a][i] = {r}
    BY DEF UnretrievableWasSignalled, Advances
<1>3. CASE signals'[a] = signals[a] /\ r \in AllAncestors(current[a])
    BY <1>2, <1>3
<1>4. ASSUME NEW D \in SUBSET Revisions, signals'[a] = Append(signals[a], D),
             r \in AllAncestors(current[a]) \/ D = {r}
      PROVE  \E i \in DOMAIN signals'[a] : signals'[a][i] = {r}
    <2>1. /\ DOMAIN signals[a] = 1..Len(signals[a])
          /\ DOMAIN signals'[a] = 1..(Len(signals[a]) + 1)
          /\ Len(signals[a]) \in Nat
        BY <1>1, <1>4
    <2>2. \A k \in 1..Len(signals[a]) : signals'[a][k] = signals[a][k]
        BY <1>1, <1>4
    <2>3. signals'[a][Len(signals[a]) + 1] = D
        BY <1>1, <1>4
    <2>4. Len(signals[a]) + 1 \in DOMAIN signals'[a] /\ DOMAIN signals[a] \subseteq DOMAIN signals'[a]
        BY <2>1
    <2>5. CASE D = {r}
        BY <2>3, <2>4, <2>5
    <2>6. CASE r \in AllAncestors(current[a])
        BY <1>2, <2>1, <2>2, <2>4, <2>6
    <2> QED BY <1>4, <2>5, <2>6
<1> QED BY <1>3, <1>4 DEF Advances

LEMMA OrderInvInit == Init => OrderInv
<1> SUFFICES ASSUME Init PROVE OrderInv
    OBVIOUS
<1>1. IInv /\ TypeOK
    BY IInvInit DEF IInv
<1>2. \A a \in Agents : held[a] = {} /\ signals[a] = <<>> /\ current[a] = NoRevision
    BY DEF Init
<1>3. HeldIsClosed /\ SignalsInCausalOrder
    BY <1>2 DEF HeldIsClosed, ParentClosed, SignalsInCausalOrder
<1>4. \A a \in Agents : AllAncestors(current[a]) = {}
    BY <1>1, <1>2, GraphFacts
<1> QED BY <1>1, <1>3, <1>4 DEF OrderInv, UnretrievableWasSignalled

LEMMA OrderInvNext == OrderInv /\ [Next]_vars => OrderInv'
<1> SUFFICES ASSUME OrderInv, [Next]_vars PROVE OrderInv'
    OBVIOUS
<1>1. IInv'
    BY IInvNext DEF OrderInv
<1>2. CASE Next
    <2>1. HeldIsClosed' /\ \A b \in Agents : Advances(b)
        BY <1>2, StepAdvances DEF OrderInv, IInv
    <2>2. SignalsInCausalOrder'
        BY <1>2, <2>1, CausalOrderNext DEF OrderInv
    <2>3. UnretrievableWasSignalled'
        BY <2>1, UnretrievableNext DEF OrderInv, IInv
    <2> QED BY <1>1, <2>1, <2>2, <2>3 DEF OrderInv
<1>3. CASE UNCHANGED vars
    BY <1>1, <1>3 DEF vars, OrderInv, HeldIsClosed, SignalsInCausalOrder,
                      UnretrievableWasSignalled, AllAncestors
<1> QED BY <1>2, <1>3

\* An executor is never told a diff after one that was committed on top of it,
\* whatever way its revision takes through signals, pulls and merges.
THEOREM DiffsComeInCausalOrder == Spec => []SignalsInCausalOrder
<1>1. OrderInv => SignalsInCausalOrder
    BY DEF OrderInv
<1> QED BY <1>1, OrderInvInit, OrderInvNext, PTL DEF Spec

\* A revision runs ahead of the DHT through handle_broadcast only: what get() does
\* not return yet of an agent's history is what a signal handed to its executor.
THEOREM AheadOfDHTBySignalOnly == Spec => []UnretrievableWasSignalled
<1>1. OrderInv => UnretrievableWasSignalled
    BY DEF OrderInv
<1> QED BY <1>1, OrderInvInit, OrderInvNext, PTL DEF Spec

-----------------------------------------------------------------------------
(* Refinement *)

LEMMA CRDTInit == Init => CRDT!Init
<1> SUFFICES ASSUME Init PROVE CRDT!Init
    OBVIOUS
<1>1. Revisions = {} /\ \A a \in Agents : current[a] = NoRevision
    BY DEF Init, Revisions
<1>2. \A a \in Agents : History(a) = {}
    BY <1>1, TypeInit, GraphFacts DEF History, DiffsIn
<1> QED BY <1>1, <1>2 DEF CRDT!Init

\* The version that revision r stands for.
Version(r) == DiffsIn(AllAncestors(r))

\* Adopting revision r, which exists already, is learning its version.
LEMMA MoveIsLearn ==
    ASSUME TypeOK, NEW a \in Agents, NEW r \in Revisions, entries' = entries,
           current' = [current EXCEPT ![a] = r],
           AllAncestors(current[a]) \subseteq AllAncestors(r)
    PROVE  CRDT!Next
<1> DEFINE K == [c \in Agents |-> History(c)]
           V == {DiffsIn(AllAncestors(x)) : x \in Revisions}
           v == DiffsIn(AllAncestors(r))
<1>1. v \in V
    OBVIOUS
<1>2. V' = V
    BY DEF Revisions, AllAncestors, DiffsIn
<1>3. History(a)' = v /\ History(a) \cup v = v
    BY DEF History, AllAncestors, DiffsIn, TypeOK
<1>4. \A c \in Agents \ {a} : History(c)' = History(c)
    BY DEF History, AllAncestors, DiffsIn, TypeOK
<1>5. K' = [K EXCEPT ![a] = @ \cup v]
    BY <1>3, <1>4
<1>6. V' = V \cup {K'[a]}
    BY <1>1, <1>2, <1>3
<1>7. CRDT!Learn(a, v)
    BY <1>1, <1>5, <1>6 DEF CRDT!Learn
<1> QED BY <1>1, <1>7 DEF CRDT!Next

\* Creating an entry on a's own revision, joined with a published one or not, is
\* learning that version or committing a new diff.
LEMMA CreateFacts ==
    ASSUME TypeOK, NEW a \in Agents, NEW e \in Entry, e.parents \subseteq Revisions,
           CreateAndMoveTo(a, e), NEW n, n = Len(entries) + 1
    PROVE  /\ \A c \in Agents \ {a} : History(c)' = History(c)
           /\ History(a)' = {x \in {n} : e.diff} \cup UNION {Version(p) : p \in e.parents}
           /\ {DiffsIn(AllAncestors(x)) : x \in Revisions}'
                = {DiffsIn(AllAncestors(x)) : x \in Revisions} \cup {History(a)'}
<1> USE GraphFacts
<1>1. entries' = Append(entries, e)
    BY DEF CreateAndMoveTo
<1>2. /\ Revisions' = Revisions \cup {n}
      /\ n \notin Revisions
      /\ \A r \in Revisions : entries'[r] = entries[r]
      /\ entries'[n] = e
      /\ \A r \in 0..Len(entries) : AllAncestors(r)' = AllAncestors(r)
      /\ \A S \in SUBSET Revisions : DiffsIn(S)' = DiffsIn(S)
      /\ Ancestors(entries', n) = {n} \cup UNION {AllAncestors(p) : p \in e.parents}
    BY <1>1, GraphGrows
<1>3. current'[a] = n /\ \A c \in Agents \ {a} : current'[c] = current[c]
    BY DEF CreateAndMoveTo, TypeOK
<1>4. ASSUME NEW c \in Agents \ {a}
      PROVE  History(c)' = History(c)
    <2>1. AllAncestors(current[c])' = AllAncestors(current[c])
        BY <1>2, <1>3 DEF AllAncestors
    <2>2. \A x \in AllAncestors(current[c]) : entries'[x] = entries[x]
        BY <1>2
    <2> QED BY <2>1, <2>2 DEF History, DiffsIn
<1>5. History(a)' = {x \in {n} : e.diff} \cup UNION {Version(p) : p \in e.parents}
    <2>1. AllAncestors(current[a])' = {n} \cup UNION {AllAncestors(p) : p \in e.parents}
        BY <1>2, <1>3 DEF AllAncestors
    <2>2. \A p \in e.parents : AllAncestors(p) \subseteq Revisions
        BY DEF Revisions
    <2>3. \A x \in Revisions : entries'[x] = entries[x]
        BY <1>2
    <2> QED BY <1>2, <2>1, <2>2, <2>3 DEF History, DiffsIn, Version
<1>6. \A x \in Revisions : DiffsIn(AllAncestors(x))' = DiffsIn(AllAncestors(x))
    <2> SUFFICES ASSUME NEW x \in Revisions
                 PROVE  DiffsIn(AllAncestors(x))' = DiffsIn(AllAncestors(x))
        OBVIOUS
    <2>1. AllAncestors(x)' = AllAncestors(x) /\ AllAncestors(x) \subseteq Revisions
        BY <1>2 DEF Revisions
    <2> QED BY <2>1, <1>2 DEF DiffsIn
<1>7. History(a)' = DiffsIn(AllAncestors(n))'
    BY <1>3 DEF History, DiffsIn, AllAncestors
<1>8. ASSUME NEW z
      PROVE  z \in {DiffsIn(AllAncestors(x)) : x \in Revisions}'
               <=> z \in {DiffsIn(AllAncestors(x)) : x \in Revisions} \cup {History(a)'}
    <2>1. z \in {DiffsIn(AllAncestors(x)) : x \in Revisions}'
            <=> \E x \in Revisions' : z = DiffsIn(AllAncestors(x))'
        OBVIOUS
    <2>2. z \in {DiffsIn(AllAncestors(x)) : x \in Revisions}
            <=> \E x \in Revisions : z = DiffsIn(AllAncestors(x))
        OBVIOUS
    <2>3. (\E x \in Revisions' : z = DiffsIn(AllAncestors(x))')
            <=> (\E x \in Revisions : z = DiffsIn(AllAncestors(x))) \/ z = History(a)'
        BY <1>2, <1>6, <1>7
    <2> QED BY <2>1, <2>2, <2>3
<1>9. {DiffsIn(AllAncestors(x)) : x \in Revisions}'
        = {DiffsIn(AllAncestors(x)) : x \in Revisions} \cup {History(a)'}
    BY <1>8
<1> QED BY <1>4, <1>5, <1>9

LEMMA CRDTNext == TypeOK /\ [Next]_vars => [CRDT!Next]_(CRDT!vars)
<1> SUFFICES ASSUME TypeOK, [Next]_vars PROVE [CRDT!Next]_(CRDT!vars)
    OBVIOUS
<1> USE GraphFacts
<1> DEFINE K == [c \in Agents |-> History(c)]
           V == {DiffsIn(AllAncestors(x)) : x \in Revisions}
<1>1. ASSUME NEW a \in Agents, NEW chunked \in BOOLEAN, Commit(a, chunked)
      PROVE  CRDT!Next
    <2> DEFINE n == Len(entries) + 1
               e == [author |-> a, parents |-> {current[a]} \ {NoRevision},
                     diff |-> TRUE, chunked |-> chunked]
    <2>1. e.parents \subseteq Revisions
        BY DEF TypeOK
    <2>2. e \in Entry
        BY <2>1 DEF Entry, Revisions
    <2>3. CreateAndMoveTo(a, e)
        BY <1>1 DEF Commit
    <2>4. /\ \A c \in Agents \ {a} : History(c)' = History(c)
          /\ History(a)' = {x \in {n} : e.diff} \cup UNION {Version(p) : p \in e.parents}
          /\ V' = V \cup {History(a)'}
        BY <2>1, <2>2, <2>3, CreateFacts
    <2>5. UNION {Version(p) : p \in e.parents} = History(a)
        BY DEF Version, History, DiffsIn
    <2>6. K' = [K EXCEPT ![a] = @ \cup {n}]
        BY <2>4, <2>5
    <2>7. V' = V \cup {K'[a]}
        BY <2>4
    <2>8. n \notin UNION V
        BY DEF Revisions, DiffsIn
    <2>9. CRDT!Commit(a, n)
        BY <2>6, <2>7, <2>8 DEF CRDT!Commit
    <2>10. n \in 1..MaxEntries
        BY <1>1, MaxEntriesAssumption DEF Commit
    <2> QED BY <2>9, <2>10 DEF CRDT!Next
<1>2. ASSUME NEW a \in Agents, NEW r \in Revisions, PullMerge(a, r)
      PROVE  CRDT!Next
    <2> DEFINE e == [author |-> a, parents |-> {r, current[a]}, diff |-> FALSE, chunked |-> FALSE]
               v == DiffsIn(AllAncestors(r))
    <2>1. e.parents \subseteq Revisions
        BY <1>2 DEF PullMerge, Forked, TypeOK
    <2>2. e \in Entry
        BY <2>1 DEF Entry, Revisions
    <2>3. CreateAndMoveTo(a, e)
        BY <1>2 DEF PullMerge
    <2>4. /\ \A c \in Agents \ {a} : History(c)' = History(c)
          /\ History(a)' = UNION {Version(p) : p \in e.parents}
          /\ V' = V \cup {History(a)'}
        <3>1. /\ \A c \in Agents \ {a} : History(c)' = History(c)
              /\ History(a)' = {x \in {Len(entries) + 1} : e.diff} \cup UNION {Version(p) : p \in e.parents}
              /\ V' = V \cup {History(a)'}
            BY <2>1, <2>2, <2>3, CreateFacts
        <3>2. {x \in {Len(entries) + 1} : e.diff} = {}
            OBVIOUS
        <3> QED BY <3>1, <3>2
    <2>5. UNION {Version(p) : p \in e.parents} = History(a) \cup v
        BY DEF Version, History
    <2>6. K' = [K EXCEPT ![a] = @ \cup v]
        BY <2>4, <2>5
    <2>7. V' = V \cup {K'[a]}
        BY <2>4
    <2>8. v \in V
        OBVIOUS
    <2>9. CRDT!Learn(a, v)
        BY <2>6, <2>7, <2>8 DEF CRDT!Learn
    <2> QED BY <2>8, <2>9 DEF CRDT!Next
<1>3. ASSUME NEW a \in Agents, NEW b \in Agents, NEW r \in Revisions, FastForwardSignal(a, b, r)
      PROVE  CRDT!Next
    <2>1. AllAncestors(current[a]) \subseteq AllAncestors(r)
        BY <1>3, AncestorsOfChild DEF FastForwardSignal
    <2> QED BY <1>3, <2>1, MoveIsLearn DEF FastForwardSignal
<1>4. ASSUME NEW a \in Agents, NEW r \in Revisions, PullInitial(a, r)
      PROVE  CRDT!Next
    BY <1>4, MoveIsLearn DEF PullInitial
<1>5. ASSUME NEW a \in Agents, NEW r \in Revisions, PullFastForward(a, r)
      PROVE  CRDT!Next
    <2>1. AllAncestors(current[a]) \subseteq AllAncestors(r)
        BY <1>5, HistoryOfDescendant DEF PullFastForward, FastForwardPossible
    <2> QED BY <1>5, <2>1, MoveIsLearn DEF PullFastForward
<1>6. ASSUME UNCHANGED <<entries, current>>
      PROVE  UNCHANGED CRDT!vars
    BY <1>6 DEF CRDT!vars, History, DiffsIn, AllAncestors, Revisions
<1>7. CASE UNCHANGED vars
    BY <1>6, <1>7 DEF vars
<1>8. CASE Next
    BY <1>1, <1>2, <1>3, <1>4, <1>5, <1>6, <1>7, <1>8, NextCases
       DEF BroadcastCurrent, FetchChunks, Integrate
<1> QED BY <1>7, <1>8

\* The zome implements the abstract perspective: replicas that commit new diffs
\* and join published versions, and do nothing else.
THEOREM Refinement == Spec => ImplementsCRDT
BY CRDTInit, CRDTNext, TypeCorrect, PTL DEF Spec, ImplementsCRDT, CRDT!Spec

=============================================================================
