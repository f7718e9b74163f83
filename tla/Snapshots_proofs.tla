--------------------------- MODULE Snapshots_proofs ---------------------------
(***************************************************************************)
(* Proofs about the searches of the p-diff-sync Workspace and about the    *)
(* walks of its snapshots, for every DAG of any size: build_diffs() never  *)
(* fails, sorts more in each round and finds exactly what is unseen, and   *)
(* a walk collects the whole history of its revision.                      *)
(***************************************************************************)
EXTENDS Snapshots, RevisionGraph_proofs, FiniteSetTheorems

(***************************************************************************)
(* Sequences as sets of their elements                                     *)
(***************************************************************************)

LEMMA ToSetOfSeq ==
    ASSUME NEW S, NEW s \in Seq(S)
    PROVE  /\ ToSet(s) = {s[i] : i \in 1..Len(s)}
           /\ ToSet(s) \subseteq S
<1>1. DOMAIN s = 1..Len(s)
    OBVIOUS
<1> QED BY <1>1 DEF ToSet

LEMMA ToSetOfAppend ==
    ASSUME NEW S, NEW s \in Seq(S), NEW e \in S
    PROVE  /\ Append(s, e) \in Seq(S)
           /\ Append(s, e) # <<>>
           /\ ToSet(Append(s, e)) = ToSet(s) \cup {e}
<1>1. Append(s, e) \in Seq(S) /\ Len(Append(s, e)) = Len(s) + 1
    OBVIOUS
<1>2. \A i \in 1..Len(s) + 1 : Append(s, e)[i] = IF i <= Len(s) THEN s[i] ELSE e
    OBVIOUS
<1>3. ToSet(Append(s, e)) = {Append(s, e)[i] : i \in 1..Len(s) + 1}
    BY <1>1, ToSetOfSeq
<1> HIDE DEF ToSet
<1>4. ToSet(s) = {s[i] : i \in 1..Len(s)}
    BY ToSetOfSeq
<1>5. Len(s) \in Nat
    OBVIOUS
<1>6. {Append(s, e)[i] : i \in 1..Len(s) + 1} = {s[i] : i \in 1..Len(s)} \cup {e}
    BY <1>2, <1>5
<1>7. Append(s, e) # <<>>
    <2>1. Len(Append(s, e)) # 0
        BY <1>1, <1>5
    <2>2. Len(<<>>) = 0
        OBVIOUS
    <2> QED BY <2>1, <2>2
<1> QED BY <1>1, <1>3, <1>4, <1>6, <1>7

LEMMA ToSetOfConcat ==
    ASSUME NEW S, NEW s \in Seq(S), NEW t \in Seq(S)
    PROVE  /\ s \o t \in Seq(S)
           /\ ToSet(s \o t) = ToSet(s) \cup ToSet(t)
<1>1. s \o t \in Seq(S) /\ Len(s \o t) = Len(s) + Len(t) /\ Len(s) \in Nat /\ Len(t) \in Nat
    OBVIOUS
<1>2. \A i \in 1..Len(s) + Len(t) : (s \o t)[i] = IF i <= Len(s) THEN s[i] ELSE t[i - Len(s)]
    OBVIOUS
<1>3. /\ ToSet(s \o t) = {(s \o t)[i] : i \in 1..Len(s) + Len(t)}
      /\ ToSet(s) = {s[i] : i \in 1..Len(s)}
      /\ ToSet(t) = {t[i] : i \in 1..Len(t)}
    BY <1>1, ToSetOfSeq
<1>4. ToSet(s \o t) \subseteq ToSet(s) \cup ToSet(t)
    <2> SUFFICES ASSUME NEW i \in 1..Len(s) + Len(t)
                 PROVE  (s \o t)[i] \in ToSet(s) \cup ToSet(t)
        BY <1>3
    <2>1. CASE i <= Len(s)
        BY <2>1, <1>1, <1>2, <1>3
    <2>2. CASE ~(i <= Len(s))
        <3>1. i - Len(s) \in 1..Len(t)
            BY <2>2, <1>1
        <3> QED BY <3>1, <2>2, <1>2, <1>3
    <2> QED BY <2>1, <2>2
<1>5. ToSet(s) \subseteq ToSet(s \o t)
    BY <1>1, <1>2, <1>3
<1>6. ToSet(t) \subseteq ToSet(s \o t)
    <2> SUFFICES ASSUME NEW i \in 1..Len(t)
                 PROVE  t[i] \in ToSet(s \o t)
        BY <1>3
    <2>1. i + Len(s) \in 1..Len(s) + Len(t) /\ ~(i + Len(s) <= Len(s)) /\ (i + Len(s)) - Len(s) = i
        BY <1>1
    <2>2. (s \o t)[i + Len(s)] = t[i]
        BY <2>1, <1>2
    <2> QED BY <2>1, <2>2, <1>3
<1> QED BY <1>1, <1>4, <1>5, <1>6

LEMMA ToSetOfTail ==
    ASSUME NEW S, NEW s \in Seq(S), s # <<>>
    PROVE  /\ Tail(s) \in Seq(S) /\ Head(s) \in S
           /\ ToSet(s) = {Head(s)} \cup ToSet(Tail(s))
<1>1. Tail(s) \in Seq(S) /\ Len(Tail(s)) = Len(s) - 1 /\ Len(s) \in Nat \ {0}
    OBVIOUS
<1>2. \A i \in 1..Len(s) - 1 : Tail(s)[i] = s[i + 1]
    OBVIOUS
<1>3. Head(s) = s[1]
    OBVIOUS
<1>4. ToSet(s) = {s[i] : i \in 1..Len(s)} /\ ToSet(Tail(s)) = {Tail(s)[i] : i \in 1..Len(s) - 1}
    BY <1>1, ToSetOfSeq
<1>5. ToSet(s) \subseteq {Head(s)} \cup ToSet(Tail(s))
    <2> SUFFICES ASSUME NEW i \in 1..Len(s), i # 1
                 PROVE  s[i] \in ToSet(Tail(s))
        BY <1>3, <1>4
    <2>1. i - 1 \in 1..Len(s) - 1 /\ (i - 1) + 1 = i
        BY <1>1
    <2>2. Tail(s)[i - 1] = s[i]
        BY <2>1, <1>2
    <2> QED BY <2>1, <2>2, <1>4
<1>6. ToSet(Tail(s)) \subseteq ToSet(s)
    BY <1>1, <1>2, <1>4
<1>7. Head(s) \in ToSet(s) /\ Head(s) \in S
    BY <1>1, <1>3, <1>4
<1> QED BY <1>1, <1>5, <1>6, <1>7

LEMMA ToSetOfExcept ==
    ASSUME NEW S, NEW s \in Seq(S), NEW i \in 1..Len(s), NEW e \in S
    PROVE  /\ [s EXCEPT ![i] = e] \in Seq(S)
           /\ Len([s EXCEPT ![i] = e]) = Len(s)
           /\ ToSet([s EXCEPT ![i] = e]) \subseteq ToSet(s) \cup {e}
<1> DEFINE t == [s EXCEPT ![i] = e]
<1>1. t \in Seq(S) /\ Len(t) = Len(s)
    OBVIOUS
<1>2. \A j \in 1..Len(s) : t[j] = IF j = i THEN e ELSE s[j]
    OBVIOUS
<1> HIDE DEF t
<1>3. ToSet(t) = {t[j] : j \in 1..Len(s)} /\ ToSet(s) = {s[j] : j \in 1..Len(s)}
    BY <1>1, ToSetOfSeq
<1>4. ToSet(t) \subseteq ToSet(s) \cup {e}
    BY <1>2, <1>3
<1> QED BY <1>1, <1>4 DEF t

LEMMA ToSetOfRemoveAt ==
    ASSUME NEW S, NEW s \in Seq(S), NEW i \in 1..Len(s)
    PROVE  /\ RemoveAt(s, i) \in Seq(S)
           /\ ToSet(RemoveAt(s, i)) \subseteq ToSet(s)
<1> DEFINE a == SubSeq(s, 1, i - 1)
           b == SubSeq(s, i + 1, Len(s))
<1>1. Len(s) \in Nat /\ i \in Int
    OBVIOUS
<1>2. a \in Seq(S) /\ Len(a) = i - 1 /\ \A j \in 1..i - 1 : a[j] = s[j]
    OBVIOUS
<1>3. b \in Seq(S) /\ Len(b) = Len(s) - i /\ \A j \in 1..Len(s) - i : b[j] = s[i + j]
    OBVIOUS
<1> HIDE DEF a, b
<1>4. /\ ToSet(s) = {s[j] : j \in 1..Len(s)}
      /\ ToSet(a) = {a[j] : j \in 1..i - 1}
      /\ ToSet(b) = {b[j] : j \in 1..Len(s) - i}
    BY <1>2, <1>3, ToSetOfSeq
<1>5. ToSet(a) \subseteq ToSet(s)
    BY <1>1, <1>2, <1>4
<1>6. ToSet(b) \subseteq ToSet(s)
    <2> SUFFICES ASSUME NEW j \in 1..Len(s) - i
                 PROVE  b[j] \in ToSet(s)
        BY <1>4
    <2>1. i + j \in 1..Len(s)
        BY <1>1
    <2> QED BY <2>1, <1>3, <1>4
<1>7. RemoveAt(s, i) = a \o b
    BY DEF RemoveAt, a, b
<1> QED BY <1>2, <1>3, <1>5, <1>6, <1>7, ToSetOfConcat

LEMMA ToSetOfPushNew ==
    ASSUME NEW S, NEW s \in Seq(S), NEW x \in S
    PROVE  /\ PushNew(s, x) \in Seq(S)
           /\ PushNew(s, x) # <<>>
           /\ ToSet(PushNew(s, x)) = ToSet(s) \cup {x}
<1>1. CASE x \in ToSet(s)
    <2>1. s # <<>>
        BY <1>1, ToSetOfSeq
    <2> QED BY <1>1, <2>1 DEF PushNew
<1>2. CASE x \notin ToSet(s)
    BY <1>2, ToSetOfAppend DEF PushNew
<1> QED BY <1>1, <1>2

\* A finite set as a sequence.
LEMMA ToSetOfSetToSeq ==
    ASSUME NEW S, NEW T \in SUBSET S, IsFiniteSet(T)
    PROVE  /\ SetToSeq(T) \in Seq(S)
           /\ ToSet(SetToSeq(T)) \subseteq T
<1> DEFINE n == Cardinality(T)
           f == SetToSeq(T)
<1>1. n \in Nat /\ ExistsBijection(1..n, T)
    BY FS_CardinalityType
<1>2. \E g \in [1..n -> T] : IsInjective(g)
    BY <1>1 DEF ExistsBijection, Bijection, Injection, IsInjective
<1>3. f \in [1..n -> T]
    BY <1>2 DEF SetToSeq
<1> HIDE DEF f, n
<1>4. f \in Seq(T) /\ Len(f) = n
    BY <1>1, <1>3
<1>5. f \in Seq(S)
    <2>1. f \in [1..n -> S]
        BY <1>3
    <2> QED BY <2>1, <1>1
<1> QED BY <1>4, <1>5, ToSetOfSeq DEF f

(***************************************************************************)
(* Vec::dedup() returns elements of its argument: the n-th element it      *)
(* keeps exists.                                                           *)
(***************************************************************************)

\* Of a finite set of positive numbers, some number is the n-th.
LEMMA NthElement ==
    ASSUME NEW m \in Nat, NEW keep \in SUBSET (1..m), NEW n \in 1..Cardinality(keep)
    PROVE  \E i \in keep : Cardinality({j \in keep : j <= i}) = n
<1> DEFINE upTo(i) == {j \in keep : j <= i}
           rank(i) == Cardinality(upTo(i))
<1>1. IsFiniteSet(keep)
    <2>1. IsFiniteSet(1..m)
        BY FS_Interval
    <2> QED BY <2>1, FS_Subset
<1>2. Cardinality(keep) \in Nat
    BY <1>1, FS_CardinalityType
<1>3. \A i \in 0..m : IsFiniteSet(upTo(i)) /\ rank(i) \in Nat
    <2> TAKE i \in 0..m
    <2>1. upTo(i) \in SUBSET keep
        OBVIOUS
    <2> HIDE DEF upTo
    <2>2. IsFiniteSet(upTo(i))
        BY <2>1, <1>1, FS_Subset
    <2> QED BY <2>2, FS_CardinalityType
<1>a. \A j \in keep : j \in Int /\ 1 <= j /\ j <= m
    OBVIOUS
<1>4. rank(0) = 0
    <2>1. \A j \in keep : ~(j <= 0)
        BY <1>a
    <2>2. upTo(0) = {}
        BY <2>1
    <2> QED BY <2>2, FS_EmptySet
<1>5. rank(m) = Cardinality(keep)
    <2>1. upTo(m) = keep
        BY <1>a
    <2> QED BY <2>1
<1>6. \A i \in 1..m : rank(i) = IF i \in keep THEN rank(i - 1) + 1 ELSE rank(i - 1)
    <2> TAKE i \in 1..m
    <2>1. CASE i \in keep
        <3>1. upTo(i) = upTo(i - 1) \cup {i} /\ i \notin upTo(i - 1) /\ i - 1 \in 0..m
            <4>1. \A j \in keep : j <= i <=> (j <= i - 1 \/ j = i)
                BY <1>a
            <4>2. ~(i <= i - 1) /\ i - 1 \in 0..m
                OBVIOUS
            <4> QED BY <2>1, <4>1, <4>2
        <3>2. IsFiniteSet(upTo(i - 1))
            BY <3>1, <1>3
        <3> HIDE DEF upTo
        <3>3. Cardinality(upTo(i - 1) \cup {i}) = Cardinality(upTo(i - 1)) + 1
            BY <3>1, <3>2, FS_AddElement
        <3> QED BY <2>1, <3>1, <3>3
    <2>2. CASE i \notin keep
        <3>1. upTo(i) = upTo(i - 1)
            <4>1. \A j \in keep : j <= i <=> j <= i - 1
                BY <2>2, <1>a
            <4> QED BY <4>1
        <3> QED BY <2>2, <3>1
    <2> QED BY <2>1, <2>2
<1> DEFINE T == {i \in 0..m : rank(i) >= n}
<1>7. T \in SUBSET Nat /\ m \in T
    BY <1>5
<1>8. PICK i \in T : \A y \in T : i <= y
    BY <1>7, LeastNat
<1> HIDE DEF rank, upTo
<1>9. i # 0 /\ i \in 1..m
    BY <1>4
<1>10. i - 1 \in 0..m /\ i - 1 \notin T
    BY <1>8, <1>9
<1>11. rank(i - 1) < n /\ rank(i) >= n
    <2>1. i \in 0..m /\ rank(i) \in Nat /\ rank(i - 1) \in Nat /\ n \in Nat
        BY <1>2, <1>3, <1>10
    <2> QED BY <2>1, <1>10
<1>12. i \in keep /\ rank(i) = n
    <2>1. rank(i) \in Nat /\ rank(i - 1) \in Nat /\ n \in Nat
        BY <1>2, <1>3, <1>10
    <2> QED BY <2>1, <1>6, <1>9, <1>11
<1> QED BY <1>12 DEF rank, upTo

LEMMA ToSetOfDedup ==
    ASSUME NEW S, NEW s \in Seq(S)
    PROVE  /\ Dedup(s) \in Seq(S)
           /\ ToSet(Dedup(s)) \subseteq ToSet(s)
<1> DEFINE keep == {i \in DOMAIN s : i = 1 \/ s[i] # s[i - 1]}
           nth(n) == CHOOSE i \in keep : Cardinality({j \in keep : j <= i}) = n
<1>1. DOMAIN s = 1..Len(s) /\ Len(s) \in Nat
    OBVIOUS
<1>2. keep \in SUBSET (1..Len(s))
    BY <1>1
<1>3. Cardinality(keep) \in Nat
    <2>1. IsFiniteSet(1..Len(s))
        BY <1>1, FS_Interval
    <2>2. IsFiniteSet(keep)
        BY <2>1, <1>2, FS_Subset
    <2> QED BY <2>2, FS_CardinalityType
<1>4. Dedup(s) = [n \in 1..Cardinality(keep) |-> s[nth(n)]]
    BY DEF Dedup
<1> HIDE DEF keep
<1>5. \A n \in 1..Cardinality(keep) : nth(n) \in keep
    BY <1>1, <1>2, NthElement
<1> HIDE DEF nth
<1>6. \A n \in 1..Cardinality(keep) : s[nth(n)] \in ToSet(s) /\ s[nth(n)] \in S
    <2>1. ToSet(s) = {s[i] : i \in 1..Len(s)} /\ ToSet(s) \subseteq S
        BY ToSetOfSeq
    <2> QED BY <2>1, <1>2, <1>5
<1>7. Dedup(s) \in Seq(S)
    BY <1>3, <1>4, <1>6
<1>8. DOMAIN Dedup(s) = 1..Cardinality(keep)
    BY <1>4
<1>9. ToSet(Dedup(s)) \subseteq ToSet(s)
    BY <1>4, <1>6, <1>8 DEF ToSet
<1> QED BY <1>7, <1>9

(***************************************************************************)
(* The DAG, and what back links lead to                                    *)
(***************************************************************************)

DagOK ==
    /\ parents \in Seq(Seq(Nat))
    /\ Len(parents) <= MaxEntries
    /\ \A r \in Revisions : ToSet(parents[r]) \subseteq 1..(r - 1)

LinksTyped == backLinks \in [0..MaxEntries -> SUBSET Revisions]

LEMMA GraphIsDag ==
    ASSUME DagOK
    PROVE  /\ ParentsAreOlder(Graph)
           /\ Len(Graph) = Len(parents) /\ Len(Graph) \in Nat
           /\ \A r \in Revisions : Graph[r].parents = ToSet(parents[r])
           /\ Nodes = 0..Len(parents)
<1>1. Len(parents) \in Nat
    BY DEF DagOK
<1>2. Len(Graph) = Len(parents)
    BY <1>1 DEF Graph, Revisions
<1>3. \A r \in Revisions : Graph[r].parents = ToSet(parents[r])
    BY DEF Graph
<1>4. ParentsAreOlder(Graph)
    BY <1>1, <1>2, <1>3 DEF DagOK, ParentsAreOlder, Revisions
<1>5. Nodes = 0..Len(parents)
    BY <1>1 DEF Nodes, Revisions, NULL_NODE
<1> QED BY <1>1, <1>2, <1>3, <1>4, <1>5

LEMMA AboveStart ==
    ASSUME NEW n \in Nodes
    PROVE  n \in Above(n) /\ Above(n) \subseteq Nodes
BY DEF Above, Linked

\* Where the back links of a node of Above(n) lead is above n as well.
LEMMA AboveClosed ==
    ASSUME DagOK, LinksTyped, NEW n \in Nodes, NEW x \in Above(n)
    PROVE  backLinks[x] \subseteq Above(n)
<1>1. x \in 0..MaxEntries
    BY GraphIsDag, MaxEntriesAssumption DEF Above, DagOK
<1>2. backLinks[x] \subseteq Nodes
    BY <1>1 DEF LinksTyped, Nodes
<1> SUFFICES ASSUME NEW y \in backLinks[x], NEW S \in Linked(n)
             PROVE  y \in S
    BY <1>2 DEF Above
<1>3. x \in S
    BY DEF Above
<1> QED BY <1>3 DEF Linked

\* Above(n) is the least set around n that back links do not leave.
LEMMA AboveLeast ==
    ASSUME DagOK, LinksTyped, NEW n \in Nodes, NEW S, n \in S,
           \A x \in S \cap Nodes : backLinks[x] \subseteq S
    PROVE  Above(n) \subseteq S
<1>1. \A x \in S \cap Nodes : backLinks[x] \subseteq Nodes
    <2>1. \A x \in Nodes : x \in 0..MaxEntries
        BY GraphIsDag, MaxEntriesAssumption DEF DagOK
    <2> QED BY <2>1 DEF LinksTyped, Nodes
<1>2. S \cap Nodes \in Linked(n)
    BY <1>1 DEF Linked
<1> QED BY <1>2 DEF Above

LEMMA AboveTransitive ==
    ASSUME DagOK, LinksTyped, NEW n \in Nodes, NEW x \in Above(n)
    PROVE  Above(x) \subseteq Above(n)
<1>1. x \in Nodes
    BY AboveStart
<1>2. \A y \in Above(n) \cap Nodes : backLinks[y] \subseteq Above(n)
    BY AboveClosed
<1> QED BY <1>1, <1>2, AboveLeast

\* Every node above n but n itself is linked from another.
LEMMA AboveHasPredecessor ==
    ASSUME DagOK, LinksTyped, NEW n \in Nodes, NEW x \in Above(n), x # n
    PROVE  \E y \in Above(n) : x \in backLinks[y]
<1> SUFFICES ASSUME \A y \in Above(n) : x \notin backLinks[y]
             PROVE  FALSE
    OBVIOUS
<1> DEFINE S == Above(n) \ {x}
<1>1. n \in S
    BY AboveStart
<1>2. \A y \in S \cap Nodes : backLinks[y] \subseteq S
    BY AboveClosed
<1> HIDE DEF S
<1>3. Above(n) \subseteq S
    BY <1>1, <1>2, AboveLeast
<1> QED BY <1>3 DEF S

\* With more back links, more is above.
LEMMA AboveGrows ==
    ASSUME UNCHANGED parents, \A x \in Nodes : backLinks[x] \subseteq backLinks'[x],
           NEW n
    PROVE  Above(n) \subseteq Above(n)'
<1>1. Nodes' = Nodes
    BY DEF Nodes, Revisions
<1>2. Linked(n)' \subseteq Linked(n)
    BY <1>1 DEF Linked
<1> QED BY <1>1, <1>2 DEF Above

(***************************************************************************)
(* The invariant of build_diffs()                                          *)
(*                                                                         *)
(* A search begins at two nodes a and b.  Everything a side has come to    *)
(* leads back to its beginning, so where the sides meet leads to both; and *)
(* what pull() asks for, and all that was sorted before, is above a or b.  *)
(***************************************************************************)

Started == phase # "growing"
Searching == phase \in {"collecting", "sorting"}

SearchType == [found : Seq(Nodes), branches : Seq(Nodes), reachedEnd : BOOLEAN]

PullOK ==
    /\ theirs \in Revisions /\ ours \in Revisions
    /\ Ancestors(Graph, theirs) \cup Ancestors(Graph, ours) = Revisions

LinksOK ==
    /\ LinksTyped
    /\ \A n \in 0..MaxEntries : backLinks[n] \subseteq diffs
    /\ \A n \in Revisions : \A child \in backLinks[n] : n \in ToSet(parents[child])

TurnOK ==
    /\ turn \in [side : Sides, next : Nat \ {0}, last : Nat]
    /\ turn.next <= turn.last => turn.last <= Len(This.branches)

Met(s) == ToSet(s.found) \cup ToSet(s.branches)

SideOK(s) ==
    /\ ToSet(s.found) \subseteq diffs \cup {NULL_NODE}
    /\ NULL_NODE \in Met(s) => NULL_NODE \in diffs
    /\ s.reachedEnd => s.found # <<>>

StartOf(a, b, side) == IF side = "theirs" THEN a ELSE b

LeadsBack(a, b) == \A side \in Sides : \A x \in Met(search[side]) : StartOf(a, b, side) \in Above(x)

CommonOK(a, b) ==
    common # NotYet => /\ common \in Nodes \cap diffs
                       /\ \A side \in Sides : StartOf(a, b, side) \in Above(common)

SearchOK(a, b) ==
    /\ LeadsBack(a, b)
    /\ CommonOK(a, b)
    /\ {theirs, ours} \subseteq Above(a) \cup Above(b)
    /\ sorted \subseteq Above(b)
    /\ a \notin sorted

SortedOK ==
    /\ phase = "sorting" => common # NotYet
    /\ phase \in {"exploring", "deciding", "done"} =>
        /\ common \in Nodes \cap diffs
        /\ sorted = Above(common)
        /\ {theirs, ours} \subseteq sorted
    /\ phase = "exploring" => sideBranches = Mentioned(sorted) \ sorted
    /\ phase = "deciding" => Mentioned(sorted) \subseteq sorted

BuildInv ==
    /\ DagOK
    /\ LinksOK
    /\ phase # "failed"
    /\ ~Started => sorted = {} /\ \A n \in 0..MaxEntries : backLinks[n] = {}
    /\ Started => PullOK
    /\ SortedOK
    /\ Searching => /\ search \in [Sides -> SearchType]
                    /\ TurnOK
                    /\ \A side \in Sides : SideOK(search[side])
                    /\ \E a, b \in Nodes : SearchOK(a, b)

LEMMA OtherSideType ==
    ASSUME NEW side \in Sides
    PROVE  OtherSide(side) \in Sides /\ OtherSide(side) # side
           /\ \A s \in Sides : s = side \/ s = OtherSide(side)
BY DEF Sides, OtherSide

\* The branch visited is one of the side whose turn it is.
LEMMA VisitingFacts ==
    ASSUME BuildInv, Visiting
    PROVE  /\ turn.side \in Sides /\ This \in SearchType /\ Other \in SearchType
           /\ turn.next \in 1..Len(This.branches)
           /\ Current \in Nodes /\ Current \in ToSet(This.branches)
           /\ SideOK(This) /\ SideOK(Other)
<1>1. search \in [Sides -> SearchType] /\ TurnOK /\ \A side \in Sides : SideOK(search[side])
    BY DEF BuildInv, Visiting, Searching
<1>2. turn.side \in Sides /\ turn.next \in Nat \ {0} /\ turn.last \in Nat
    BY <1>1 DEF TurnOK
<1>3. This \in SearchType /\ Other \in SearchType /\ SideOK(This) /\ SideOK(Other)
    BY <1>1, <1>2, OtherSideType DEF This, Other
<1>4. This.branches \in Seq(Nodes)
    BY <1>3 DEF SearchType
<1>5. turn.next \in 1..Len(This.branches)
    BY <1>1, <1>2, <1>4 DEF TurnOK, Visiting
<1>6. Current \in Nodes /\ Current \in ToSet(This.branches)
    BY <1>4, <1>5, ToSetOfSeq DEF Current
<1> QED BY <1>2, <1>3, <1>5, <1>6

\* What a step of the search has to do to keep the searches leading back.
LEMMA SearchStep ==
    ASSUME BuildInv, Searching, Searching', phase' = "sorting" => common' # NotYet,
           UNCHANGED <<parents, theirs, ours, sorted>>,
           LinksOK', diffs \subseteq diffs',
           \A x \in Nodes : backLinks[x] \subseteq backLinks'[x],
           (search \in [Sides -> SearchType])', TurnOK',
           \A side \in Sides : SideOK(search[side])',
           \A a, b \in Nodes : SearchOK(a, b) =>
               /\ \A side \in Sides : \A x \in Met(search[side])' :
                      x \in Met(search[side]) \/ StartOf(a, b, side) \in Above(x)'
               /\ common' = common \/ CommonOK(a, b)'
    PROVE  BuildInv'
<1>1. PICK a \in Nodes, b \in Nodes : SearchOK(a, b)
    BY DEF BuildInv
<1>2. \A n : Above(n) \subseteq Above(n)'
    BY AboveGrows
<1>3. Nodes' = Nodes
    BY DEF Nodes, Revisions
<1>4. LeadsBack(a, b)'
    <2> SUFFICES ASSUME NEW side \in Sides, NEW x \in Met(search[side])'
                 PROVE  StartOf(a, b, side) \in Above(x)'
        BY DEF LeadsBack, StartOf
    <2>1. x \in Met(search[side]) \/ StartOf(a, b, side) \in Above(x)'
        BY <1>1
    <2> QED BY <2>1, <1>1, <1>2 DEF SearchOK, LeadsBack
<1>5. CommonOK(a, b)'
    <2>1. CASE common' = common
        BY <2>1, <1>1, <1>2, <1>3 DEF SearchOK, CommonOK, StartOf
    <2>2. CASE common' # common
        BY <2>2, <1>1
    <2> QED BY <2>1, <2>2
<1>6. SearchOK(a, b)'
    BY <1>1, <1>2, <1>4, <1>5 DEF SearchOK
<1>7. DagOK' /\ PullOK' /\ (phase # "failed")'
    BY <1>3 DEF BuildInv, DagOK, PullOK, Revisions, Graph, Searching, Started
<1>8. SortedOK'
    BY DEF SortedOK, Searching
<1> QED BY <1>3, <1>6, <1>7, <1>8 DEF BuildInv, Searching, Started

LEMMA BreakEndsTurn ==
    ASSUME TurnOK, Break
    PROVE  TurnOK'
<1>1. /\ turn' = [turn EXCEPT !.next = turn.last + 1]
      /\ turn.last + 1 \in Nat \ {0}
    BY DEF TurnOK, Break
<1>2. turn' \in [side : Sides, next : Nat \ {0}, last : Nat]
    BY <1>1 DEF TurnOK
<1>3. turn'.next = turn.last + 1 /\ turn'.last = turn.last /\ turn.last \in Nat
    BY <1>1 DEF TurnOK
<1>4. ~(turn'.next <= turn'.last)
    BY <1>3
<1> QED BY <1>2, <1>4 DEF TurnOK

LEMMA CloseBranchKeepsInv ==
    ASSUME BuildInv, CloseBranch
    PROVE  BuildInv'
<1>1. Visiting /\ Searching /\ Searching' /\ phase' = phase /\ phase = "collecting"
    BY DEF CloseBranch, Visiting, Searching
<1> DEFINE here == [This EXCEPT !.branches = RemoveAt(@, turn.next)]
<1>2. /\ turn.side \in Sides /\ This \in SearchType /\ turn.next \in 1..Len(This.branches)
      /\ SideOK(This) /\ search \in [Sides -> SearchType] /\ TurnOK
      /\ \A side \in Sides : SideOK(search[side])
    BY <1>1, VisitingFacts DEF BuildInv
<1>3. search' = [search EXCEPT ![turn.side] = here]
    BY DEF CloseBranch, This
<1>4. /\ RemoveAt(This.branches, turn.next) \in Seq(Nodes)
      /\ ToSet(RemoveAt(This.branches, turn.next)) \subseteq ToSet(This.branches)
    BY <1>2, ToSetOfRemoveAt DEF SearchType
<1>5. /\ here \in SearchType /\ here.found = This.found /\ here.reachedEnd = This.reachedEnd
      /\ here.branches = RemoveAt(This.branches, turn.next)
    BY <1>2, <1>4 DEF SearchType
<1>6. Met(here) \subseteq Met(This)
    BY <1>4, <1>5 DEF Met
<1>7. SideOK(here)
    BY <1>2, <1>5, <1>6 DEF SideOK
<1> HIDE DEF here
<1>8. /\ search' \in [Sides -> SearchType]
      /\ \A side \in Sides : search'[side] = IF side = turn.side THEN here ELSE search[side]
    BY <1>2, <1>3, <1>5
<1>9. UNCHANGED <<parents, theirs, ours, sorted, diffs, backLinks, common>>
    BY DEF CloseBranch
<1>10. \A side \in Sides : SideOK(search[side])'
    BY <1>2, <1>7, <1>8, <1>9 DEF SideOK
<1>11. \A side \in Sides : Met(search[side])' \subseteq Met(search[side])
    BY <1>6, <1>8 DEF Met, This
<1>12. LinksOK'
    BY <1>9 DEF BuildInv, LinksOK, LinksTyped, Revisions
<1>13. TurnOK'
    BY <1>2, BreakEndsTurn DEF CloseBranch
<1>14. (search \in [Sides -> SearchType])'
    BY <1>8, <1>9 DEF SearchType, Nodes, Revisions
<1> QED BY <1>1, <1>9, <1>10, <1>11, <1>12, <1>13, <1>14, SearchStep

LEMMA MeetKeepsInv ==
    ASSUME BuildInv, Meet
    PROVE  BuildInv'
<1>1. Visiting /\ Searching /\ Searching' /\ phase' = phase /\ phase = "collecting"
    BY DEF Meet, Visiting, Searching
<1>2. /\ turn.side \in Sides /\ This \in SearchType /\ Other \in SearchType
      /\ Current \in Nodes /\ Current \in ToSet(This.branches)
      /\ SideOK(This) /\ SideOK(Other)
      /\ search \in [Sides -> SearchType] /\ TurnOK
      /\ \A side \in Sides : SideOK(search[side])
    BY <1>1, VisitingFacts DEF BuildInv
<1>3. Current \in Met(This) /\ Current \in Met(Other)
    BY <1>2 DEF Meet, SeenOnOtherSide, Met
<1>4. \A side \in Sides : Current \in Met(search[side])
    BY <1>2, <1>3, OtherSideType DEF This, Other
<1> DEFINE now(side) == [search[side] EXCEPT !.found = PushNew(@, Current)]
<1>5. ASSUME NEW side \in Sides
      PROVE  /\ now(side) \in SearchType
             /\ now(side).found # <<>>
             /\ ToSet(now(side).found) = ToSet(search[side].found) \cup {Current}
             /\ Met(now(side)) = Met(search[side])
             /\ now(side).reachedEnd = search[side].reachedEnd
    <2>1. search[side] \in SearchType
        BY <1>2
    <2>2. /\ PushNew(search[side].found, Current) \in Seq(Nodes)
          /\ PushNew(search[side].found, Current) # <<>>
          /\ ToSet(PushNew(search[side].found, Current)) = ToSet(search[side].found) \cup {Current}
        BY <1>2, <2>1, ToSetOfPushNew DEF SearchType
    <2>3. /\ now(side).found = PushNew(search[side].found, Current)
          /\ now(side).branches = search[side].branches
          /\ now(side).reachedEnd = search[side].reachedEnd
          /\ now(side) \in SearchType
        BY <2>1, <2>2 DEF SearchType
    <2> QED BY <2>2, <2>3, <1>4 DEF Met
<1> HIDE DEF now
<1>6. search' = [side \in Sides |-> now(side)]
    BY DEF Meet, now
<1>7. search' \in [Sides -> SearchType] /\ \A side \in Sides : search'[side] = now(side)
    BY <1>5, <1>6
<1>8. /\ UNCHANGED <<parents, theirs, ours, sorted, backLinks>>
      /\ diffs' = diffs \cup ({Current} \ {NULL_NODE})
      /\ common' = Current
    BY DEF Meet
<1>9. Current \in diffs'
    <2>1. CASE Current = NULL_NODE
        BY <2>1, <1>2, <1>3, <1>8 DEF SideOK
    <2> QED BY <2>1, <1>8
<1>10. \A side \in Sides : SideOK(search[side])'
    BY <1>2, <1>5, <1>7, <1>8, <1>9 DEF SideOK
<1>11. \A side \in Sides : Met(search[side])' = Met(search[side])
    BY <1>5, <1>7 DEF Met
<1>12. LinksOK'
    BY <1>8 DEF BuildInv, LinksOK, LinksTyped, Revisions
<1>13. TurnOK'
    BY <1>2, BreakEndsTurn DEF Meet
<1>14. (search \in [Sides -> SearchType])' /\ Nodes' = Nodes
    BY <1>7, <1>8 DEF SearchType, Nodes, Revisions
<1>15. ASSUME NEW a \in Nodes, NEW b \in Nodes, SearchOK(a, b)
       PROVE  CommonOK(a, b)'
    <2>1. \A side \in Sides : StartOf(a, b, side) \in Above(Current)
        BY <1>4, <1>15 DEF SearchOK, LeadsBack
    <2>2. Above(common)' = Above(Current)
        BY <1>8 DEF Above, Linked, Nodes, Revisions
    <2> QED BY <2>1, <2>2, <1>2, <1>8, <1>9, <1>14 DEF CommonOK, StartOf
<1> QED BY <1>1, <1>8, <1>10, <1>11, <1>12, <1>13, <1>14, <1>15, SearchStep

\* What is above a node's links is above the node.
LEMMA AboveLinked ==
    ASSUME NEW n, NEW y \in backLinks'[n], NEW x \in Above(y)'
    PROVE  x \in Above(n)'
<1>1. Linked(n)' \subseteq Linked(y)'
    BY DEF Linked
<1> QED BY <1>1 DEF Above

LEMMA ReachEndKeepsInv ==
    ASSUME BuildInv, ReachEnd
    PROVE  BuildInv'
<1>1. Visiting /\ Searching /\ Searching' /\ phase' = phase /\ phase = "collecting"
    BY DEF ReachEnd, Visiting, Searching
<1>2. /\ turn.side \in Sides /\ This \in SearchType /\ Other \in SearchType
      /\ turn.next \in 1..Len(This.branches)
      /\ Current \in Nodes /\ Current \in ToSet(This.branches)
      /\ SideOK(This) /\ SideOK(Other)
      /\ search \in [Sides -> SearchType] /\ TurnOK
      /\ \A side \in Sides : SideOK(search[side])
    BY <1>1, VisitingFacts DEF BuildInv
<1> DEFINE here == [This EXCEPT !.found = Append(@, Current),
                                !.branches = RemoveAt(@, turn.next),
                                !.reachedEnd = TRUE]
           end(s) == [s EXCEPT !.found = PushNew(@, NULL_NODE)]
           known == diffs \cup ({Current} \ {NULL_NODE})
           other == OtherSide(turn.side)
<1>3. /\ UNCHANGED <<parents, theirs, ours, sorted>>
      /\ Nodes' = Nodes
    BY DEF ReachEnd, Nodes, Revisions
<1>4. other \in Sides /\ other # turn.side /\ \A side \in Sides : side = turn.side \/ side = other
    BY <1>2, OtherSideType
<1>5. /\ RemoveAt(This.branches, turn.next) \in Seq(Nodes)
      /\ ToSet(RemoveAt(This.branches, turn.next)) \subseteq ToSet(This.branches)
    BY <1>2, ToSetOfRemoveAt DEF SearchType
<1>6. /\ Append(This.found, Current) \in Seq(Nodes)
      /\ Append(This.found, Current) # <<>>
      /\ ToSet(Append(This.found, Current)) = ToSet(This.found) \cup {Current}
    <2>1. This.found \in Seq(Nodes)
        BY <1>2 DEF SearchType
    <2> QED BY <2>1, <1>2, ToSetOfAppend
<1>7. /\ here \in SearchType /\ here.reachedEnd = TRUE
      /\ here.found = Append(This.found, Current)
      /\ here.branches = RemoveAt(This.branches, turn.next)
    BY <1>2, <1>5, <1>6 DEF SearchType
<1>8. Met(here) \subseteq Met(This)
    BY <1>2, <1>5, <1>6, <1>7 DEF Met
<1>9. NULL_NODE \in Nodes
    BY DEF Nodes
<1>10. ASSUME NEW s \in SearchType
       PROVE  /\ end(s) \in SearchType /\ end(s).found # <<>>
              /\ ToSet(end(s).found) = ToSet(s.found) \cup {NULL_NODE}
              /\ Met(end(s)) = Met(s) \cup {NULL_NODE}
    <2>1. /\ PushNew(s.found, NULL_NODE) \in Seq(Nodes)
          /\ PushNew(s.found, NULL_NODE) # <<>>
          /\ ToSet(PushNew(s.found, NULL_NODE)) = ToSet(s.found) \cup {NULL_NODE}
        BY <1>9, ToSetOfPushNew DEF SearchType
    <2>2. /\ end(s) \in SearchType /\ end(s).branches = s.branches
          /\ end(s).found = PushNew(s.found, NULL_NODE)
        BY <2>1 DEF SearchType
    <2> QED BY <2>1, <2>2 DEF Met
<1>11. ToSet(here.found) \subseteq known \cup {NULL_NODE}
    BY <1>2, <1>6, <1>7 DEF SideOK
<1> HIDE DEF here, end
<1>12. TurnOK'
    BY <1>2, BreakEndsTurn DEF ReachEnd
<1>13. CASE common = NotYet /\ Other.reachedEnd
    <2>1. /\ search' = [side \in Sides |-> end(IF side = turn.side THEN here ELSE Other)]
          /\ diffs' = known \cup {NULL_NODE}
          /\ backLinks' = [backLinks EXCEPT ![NULL_NODE] = @ \cup Ends]
          /\ common' = NULL_NODE
        BY <1>13 DEF ReachEnd, here, end
    <2>3. \A side \in Sides : search'[side] = IF side = turn.side THEN end(here) ELSE end(Other)
        BY <2>1
    <2>4. /\ search' \in [Sides -> SearchType]
          /\ search'[turn.side] = end(here) /\ search'[other] = end(Other)
        BY <2>1, <2>3, <1>2, <1>4, <1>7, <1>10
    <2>5. Last(Other.found) \in ToSet(Other.found) /\ Last(Other.found) \in Nodes
        <3>1. Other.found # <<>> /\ Other.found \in Seq(Nodes)
            BY <1>2, <1>13 DEF SideOK, SearchType
        <3>2. Len(Other.found) \in 1..Len(Other.found)
            BY <3>1
        <3> QED BY <3>1, <3>2, ToSetOfSeq DEF Last
    <2>6. Ends \subseteq Revisions \cap known
        BY <1>2, <2>5 DEF Ends, Nodes, SideOK
    <2>7. DOMAIN backLinks = 0..MaxEntries /\ NULL_NODE \in 0..MaxEntries
        BY MaxEntriesAssumption DEF BuildInv, LinksOK, LinksTyped, NULL_NODE
    <2>8. LinksOK'
        <3>1. LinksTyped'
            BY <2>1, <2>6, <2>7, <1>3 DEF BuildInv, LinksOK, LinksTyped, Revisions
        <3>2. \A n \in 0..MaxEntries : backLinks'[n] \subseteq diffs'
            BY <2>1, <2>6, <2>7 DEF BuildInv, LinksOK
        <3>3. NULL_NODE \notin Revisions
            BY DEF NULL_NODE, Revisions
        <3>4. \A n \in Revisions : backLinks'[n] = backLinks[n]
            BY <2>1, <2>7, <3>3
        <3>5. \A n \in Revisions' : \A child \in backLinks'[n] : n \in ToSet(parents'[child])
            BY <3>4, <1>3 DEF BuildInv, LinksOK, Revisions
        <3> QED BY <3>1, <3>2, <3>5 DEF LinksOK
    <2>9. \A x \in Nodes : backLinks[x] \subseteq backLinks'[x]
        BY <2>1, <2>7
    <2>10. \A side \in Sides : SideOK(search[side])'
        <3>1. \A side \in Sides : search'[side] = end(here) \/ search'[side] = end(Other)
            BY <2>3
        <3>2. \A s \in {end(here), end(Other)} :
                 ToSet(s.found) \subseteq diffs' \cup {NULL_NODE} /\ s.found # <<>>
            BY <2>1, <1>2, <1>7, <1>10, <1>11 DEF SideOK
        <3>3. NULL_NODE \in diffs'
            BY <2>1
        <3> QED BY <3>1, <3>2, <3>3 DEF SideOK
    <2>11. diffs \subseteq diffs'
        BY <2>1
    <2>12. ASSUME NEW a \in Nodes, NEW b \in Nodes, SearchOK(a, b)
           PROVE  /\ \A side \in Sides : \A x \in Met(search[side])' :
                         x \in Met(search[side]) \/ StartOf(a, b, side) \in Above(x)'
                  /\ CommonOK(a, b)'
        <3>1. \A n : Above(n) \subseteq Above(n)'
            BY <2>9, <1>3, AboveGrows
        <3>2. \A side \in Sides : StartOf(a, b, side) \in Above(NULL_NODE)'
            <4>1. StartOf(a, b, turn.side) \in Above(NULL_NODE)'
                <5>1. StartOf(a, b, turn.side) \in Above(Current)
                    BY <1>2, <2>12 DEF SearchOK, LeadsBack, Met, This
                <5>2. Current = NULL_NODE \/ Current \in backLinks'[NULL_NODE]
                    BY <2>1, <2>7 DEF Ends
                <5> QED BY <5>1, <5>2, <3>1, AboveLinked
            <4>2. StartOf(a, b, other) \in Above(NULL_NODE)'
                <5>1. StartOf(a, b, other) \in Above(Last(Other.found))
                    BY <1>4, <2>5, <2>12 DEF SearchOK, LeadsBack, Met, Other
                <5>2. Last(Other.found) = NULL_NODE \/ Last(Other.found) \in backLinks'[NULL_NODE]
                    BY <2>1, <2>7, <2>5 DEF Ends, ToSet
                <5> QED BY <5>1, <5>2, <3>1, AboveLinked
            <4> QED BY <4>1, <4>2, <1>4
        <3>3. CommonOK(a, b)'
            <4>1. \A n : common' = n => Above(common)' = Above(n)'
                BY DEF Above, Linked
            <4>2. Above(common)' = Above(NULL_NODE)'
                BY <2>1, <4>1
            <4> QED BY <2>1, <3>2, <4>2, <1>3, <1>9 DEF CommonOK, StartOf
        <3>4. \A side \in Sides : Met(search[side])' \subseteq Met(search[side]) \cup {NULL_NODE}
            <4>1. /\ Met(end(here)) \subseteq Met(This) \cup {NULL_NODE}
                  /\ Met(end(Other)) \subseteq Met(Other) \cup {NULL_NODE}
                BY <1>2, <1>7, <1>8, <1>10
            <4>2. \A side \in Sides :
                     \/ search'[side] = end(here) /\ search[side] = This
                     \/ search'[side] = end(Other) /\ search[side] = Other
                BY <2>3, <1>4 DEF This, Other
            <4>3. \A side \in Sides : Met(search'[side]) \subseteq Met(search[side]) \cup {NULL_NODE}
                BY <4>1, <4>2
            <4> QED BY <4>3 DEF Met
        <3> QED BY <3>2, <3>3, <3>4
    <2>13. (search \in [Sides -> SearchType])'
        BY <2>4, <1>3 DEF SearchType
    <2> QED BY <1>1, <1>3, <1>12, <2>8, <2>9, <2>10, <2>11, <2>12, <2>13, SearchStep
<1>14. CASE ~(common = NotYet /\ Other.reachedEnd)
    <2>1. /\ search' = [search EXCEPT ![turn.side] = here]
          /\ diffs' = known
          /\ UNCHANGED <<backLinks, common>>
        BY <1>14 DEF ReachEnd, here
    <2>2. /\ search' \in [Sides -> SearchType]
          /\ search'[turn.side] = here /\ search'[other] = search[other]
        BY <2>1, <1>2, <1>4, <1>7
    <2>3. \A side \in Sides : SideOK(search[side])'
        BY <2>1, <2>2, <1>2, <1>4, <1>6, <1>7, <1>8, <1>11 DEF SideOK, Met
    <2>4. \A side \in Sides : Met(search[side])' \subseteq Met(search[side])
        BY <2>2, <1>4, <1>8 DEF Met, This
    <2>5. LinksOK' /\ diffs \subseteq diffs' /\ \A x \in Nodes : backLinks[x] \subseteq backLinks'[x]
        BY <2>1, <1>3 DEF BuildInv, LinksOK, LinksTyped, Revisions
    <2>6. (search \in [Sides -> SearchType])'
        BY <2>2, <1>3 DEF SearchType
    <2> QED BY <1>1, <1>3, <1>12, <2>1, <2>3, <2>4, <2>5, <2>6, SearchStep
<1> QED BY <1>13, <1>14

LEMMA FollowParentsKeepsInv ==
    ASSUME BuildInv, FollowParents
    PROVE  BuildInv'
<1>1. Visiting /\ Searching /\ Searching' /\ phase' = phase /\ phase = "collecting"
    BY DEF FollowParents, Visiting, Searching
<1>2. /\ turn.side \in Sides /\ This \in SearchType /\ Other \in SearchType
      /\ turn.next \in 1..Len(This.branches)
      /\ Current \in Nodes /\ Current \in ToSet(This.branches)
      /\ SideOK(This)
      /\ search \in [Sides -> SearchType] /\ TurnOK
      /\ \A side \in Sides : SideOK(search[side])
    BY <1>1, VisitingFacts DEF BuildInv
<1> DEFINE found == Append(This.found, Current)
           knownTo == ToSet(found) \cup ToSet(Other.branches) \cup ToSet(Other.found)
           more == SetToSeq(ToSet(Tail(parents[Current])) \ knownTo)
           ps == parents[Current]
           first == [This.branches EXCEPT ![turn.next] = Head(ps)]
           here == [This EXCEPT !.found = found, !.branches = first \o more]
<1>3. /\ UNCHANGED <<parents, theirs, ours, sorted, common>>
      /\ Nodes' = Nodes
      /\ diffs' = diffs \cup {Current}
      /\ search' = [search EXCEPT ![turn.side] = here]
      /\ backLinks' = [n \in DOMAIN backLinks |->
                          IF n \in ToSet(ps) THEN backLinks[n] \cup {Current} ELSE backLinks[n]]
      /\ turn' = [turn EXCEPT !.next = @ + 1]
      /\ Current # NULL_NODE /\ ps # <<>>
    <2>1. Nodes' = Nodes
        BY DEF FollowParents, Nodes, Revisions
    <2>2. search' = [search EXCEPT ![turn.side] = here]
        BY DEF FollowParents
    <2> QED BY <2>1, <2>2 DEF FollowParents
<1>4. /\ Current \in Revisions /\ ps \in Seq(Nat) /\ ToSet(ps) \subseteq Revisions
      /\ IsFiniteSet(Nodes) /\ NULL_NODE \notin Revisions /\ Revisions \subseteq Nodes
      /\ ToSet(ps) \subseteq 1..(Current - 1)
    <2>1. Current \in Revisions
        BY <1>2, <1>3 DEF Nodes
    <2>2. DagOK /\ Len(parents) \in Nat
        BY GraphIsDag DEF BuildInv
    <2>3. ps \in Seq(Nat)
        <3>1. Current \in 1..Len(parents) /\ parents \in Seq(Seq(Nat))
            BY <2>1, <2>2 DEF DagOK, Revisions
        <3> QED BY <3>1
    <2>4. ToSet(ps) \subseteq Revisions /\ ToSet(ps) \subseteq 1..(Current - 1)
        <3>1. Current \in Nat /\ Current <= Len(parents)
            BY <2>1, <2>2 DEF Revisions
        <3>2. ToSet(ps) \subseteq 1..(Current - 1)
            BY <2>1, <2>2 DEF DagOK
        <3>3. 1..(Current - 1) \subseteq 1..Len(parents)
            BY <2>2, <3>1
        <3> QED BY <3>2, <3>3 DEF Revisions
    <2>5. IsFiniteSet(Nodes)
        <3>1. Nodes = 0..Len(parents) /\ 0 \in Int /\ Len(parents) \in Int
            BY <2>2, GraphIsDag
        <3> QED BY <3>1, FS_Interval
    <2> QED BY <2>1, <2>3, <2>4, <2>5 DEF Nodes, Revisions, NULL_NODE
<1>5. Tail(ps) \in Seq(Nat) /\ ToSet(ps) = {Head(ps)} \cup ToSet(Tail(ps))
    BY <1>3, <1>4, ToSetOfTail
<1>6. more \in Seq(Nodes) /\ ToSet(more) \subseteq ToSet(ps)
    <2> DEFINE T == ToSet(Tail(ps)) \ knownTo
    <2>1. T \in SUBSET Nodes /\ T \subseteq ToSet(ps)
        BY <1>4, <1>5
    <2> HIDE DEF T
    <2>2. IsFiniteSet(T)
        BY <2>1, <1>4, FS_Subset
    <2>3. SetToSeq(T) \in Seq(Nodes) /\ ToSet(SetToSeq(T)) \subseteq T
        BY <2>1, <2>2, ToSetOfSetToSeq
    <2> QED BY <2>1, <2>3 DEF T
<1> HIDE DEF more
<1>7. /\ first \in Seq(Nodes) /\ Len(first) = Len(This.branches)
      /\ ToSet(first) \subseteq ToSet(This.branches) \cup ToSet(ps)
    <2>1. Head(ps) \in ToSet(ps) /\ Head(ps) \in Nodes /\ This.branches \in Seq(Nodes)
        BY <1>2, <1>4, <1>5 DEF SearchType
    <2> QED BY <2>1, <1>2, ToSetOfExcept
<1> HIDE DEF first
<1>8. /\ first \o more \in Seq(Nodes)
      /\ ToSet(first \o more) \subseteq ToSet(This.branches) \cup ToSet(ps)
      /\ Len(first \o more) >= Len(This.branches)
    <2>1. Len(first \o more) = Len(first) + Len(more) /\ Len(more) \in Nat /\ Len(first) \in Nat
        BY <1>6, <1>7
    <2> QED BY <2>1, <1>6, <1>7, ToSetOfConcat
<1>9. found \in Seq(Nodes) /\ found # <<>> /\ ToSet(found) = ToSet(This.found) \cup {Current}
    <2>1. This.found \in Seq(Nodes)
        BY <1>2 DEF SearchType
    <2> QED BY <2>1, <1>2, ToSetOfAppend
<1> HIDE DEF found
<1>10. here \in SearchType /\ here.found = found /\ here.branches = first \o more
    BY <1>2, <1>8, <1>9 DEF SearchType
<1>11. Met(here) \subseteq Met(This) \cup ToSet(ps)
    BY <1>2, <1>8, <1>9, <1>10 DEF Met
<1> HIDE DEF here, ps
<1>12. /\ search' \in [Sides -> SearchType]
       /\ \A side \in Sides : search'[side] = IF side = turn.side THEN here ELSE search[side]
    BY <1>2, <1>3, <1>10
<1>13. \A side \in Sides : SideOK(search[side])'
    <2>1. /\ ToSet(here.found) \subseteq diffs' \cup {NULL_NODE}
          /\ here.found # <<>>
          /\ NULL_NODE \in Met(here) => NULL_NODE \in diffs'
        BY <1>2, <1>3, <1>4, <1>9, <1>10, <1>11 DEF SideOK
    <2>2. \A side \in Sides : SideOK(search[side]) /\ diffs \subseteq diffs'
        BY <1>2, <1>3
    <2> QED BY <2>1, <2>2, <1>12 DEF SideOK, Met
<1>14. LinksOK' /\ diffs \subseteq diffs' /\ \A x \in Nodes : backLinks[x] \subseteq backLinks'[x]
    <2>1. DOMAIN backLinks = 0..MaxEntries /\ \A n \in 0..MaxEntries : backLinks[n] \subseteq Revisions
        BY DEF BuildInv, LinksOK, LinksTyped
    <2>2. \A n \in 0..MaxEntries : backLinks'[n] = IF n \in ToSet(ps) THEN backLinks[n] \cup {Current}
                                                                      ELSE backLinks[n]
        BY <1>3, <2>1
    <2>3. LinksTyped'
        BY <2>1, <1>3, <1>4 DEF LinksTyped, Revisions
    <2>4. \A n \in 0..MaxEntries : backLinks'[n] \subseteq diffs'
        <3>1. diffs' = diffs \cup {Current} /\ \A n \in 0..MaxEntries : backLinks[n] \subseteq diffs
            BY <1>3 DEF BuildInv, LinksOK
        <3> QED BY <2>2, <3>1
    <2>5. \A n \in Nodes : n \in 0..MaxEntries
        BY GraphIsDag, MaxEntriesAssumption DEF BuildInv, DagOK
    <2>6. \A n \in Revisions : \A child \in backLinks'[n] : n \in ToSet(parents[child])
        <3>1. \A n \in Revisions : \A child \in backLinks[n] : n \in ToSet(parents[child])
            BY DEF BuildInv, LinksOK
        <3>2. \A n \in Revisions : n \in 0..MaxEntries
            BY <2>5 DEF Nodes
        <3> QED BY <2>2, <3>1, <3>2 DEF ps
    <2>7. LinksOK'
        <3>1. parents' = parents /\ Revisions' = Revisions
            BY <1>3 DEF Revisions
        <3> QED BY <2>3, <2>4, <2>6, <3>1 DEF LinksOK
    <2>8. diffs \subseteq diffs'
        BY <1>3
    <2>9. \A x \in Nodes : backLinks[x] \subseteq backLinks'[x]
        BY <2>2, <2>5
    <2> QED BY <2>7, <2>8, <2>9
<1>15. TurnOK'
    <2>1. turn'.side = turn.side /\ turn'.next = turn.next + 1 /\ turn'.last = turn.last
          /\ turn' \in [side : Sides, next : Nat \ {0}, last : Nat]
        BY <1>2, <1>3 DEF TurnOK
    <2>2. This' = here
        BY <2>1, <1>2, <1>12 DEF This
    <2>3. /\ turn.next \in Nat /\ turn.last \in Nat
          /\ turn.next <= turn.last => turn.last <= Len(This.branches)
          /\ This.branches \in Seq(Nodes)
        BY <1>2 DEF TurnOK, SearchType
    <2>4. Len(This.branches) \in Nat /\ Len(first \o more) \in Nat
        BY <2>3, <1>8
    <2>5. turn'.next <= turn'.last => turn'.last <= Len(here.branches)
        <3>1. HAVE turn'.next <= turn'.last
        <3>2. turn.next <= turn.last
            BY <3>1, <2>1, <2>3
        <3>3. turn.last <= Len(This.branches) /\ Len(first \o more) >= Len(This.branches)
            BY <3>2, <2>3, <1>8
        <3>4. turn.last <= Len(first \o more)
            BY <3>3, <2>3, <2>4
        <3> QED BY <3>4, <2>1, <1>10
    <2> QED BY <2>1, <2>2, <2>5 DEF TurnOK
<1>16. ASSUME NEW a \in Nodes, NEW b \in Nodes, SearchOK(a, b)
       PROVE  \A side \in Sides : \A x \in Met(search[side])' :
                  x \in Met(search[side]) \/ StartOf(a, b, side) \in Above(x)'
    <2>1. \A c : c = Current => StartOf(a, b, turn.side) \in Above(c)'
        <3>1. StartOf(a, b, turn.side) \in Above(Current)
            BY <1>2, <1>16 DEF SearchOK, LeadsBack, Met, This
        <3>2. parents' = parents /\ \A x \in Nodes : backLinks[x] \subseteq backLinks'[x]
            BY <1>3, <1>14
        <3>3. \A n : Above(n) \subseteq Above(n)'
            BY <3>2, AboveGrows
        <3> QED BY <3>1, <3>3
    <2>2. \A p \in ToSet(ps) : StartOf(a, b, turn.side) \in Above(p)'
        <3> TAKE p \in ToSet(ps)
        <3>1. p \in DOMAIN backLinks
            BY <1>4, GraphIsDag, MaxEntriesAssumption DEF BuildInv, DagOK, LinksOK, LinksTyped, ps
        <3>2. backLinks'[p] = backLinks[p] \cup {Current}
            BY <3>1, <1>3
        <3> QED BY <3>2, <2>1, AboveLinked
    <2>3. \A side \in Sides : Met(search[side])' = Met(search'[side])
        BY DEF Met
    <2> QED BY <2>2, <2>3, <1>11, <1>12 DEF This
<1>17. (search \in [Sides -> SearchType])'
    BY <1>3, <1>12 DEF SearchType
<1> QED BY <1>1, <1>3, <1>13, <1>14, <1>15, <1>16, <1>17, SearchStep

LEMMA NextTurnKeepsInv ==
    ASSUME BuildInv, NextTurn
    PROVE  BuildInv'
<1>1. /\ Searching /\ Searching' /\ phase = "collecting"
      /\ UNCHANGED <<parents, theirs, ours, common, diffs, backLinks, sorted>>
      /\ phase' = "sorting" => common # NotYet
    BY DEF NextTurn, Searching
<1>2. /\ search \in [Sides -> SearchType] /\ TurnOK
      /\ \A side \in Sides : SideOK(search[side])
    BY <1>1 DEF BuildInv
<1>3. LinksOK' /\ Nodes' = Nodes
    BY <1>1 DEF BuildInv, LinksOK, LinksTyped, Revisions, Nodes
<1>4. CASE turn.side = "ours" /\ common # NotYet
    <2>1. UNCHANGED <<search, turn>>
        BY <1>4 DEF NextTurn
    <2>2. TurnOK' /\ (search \in [Sides -> SearchType])'
        BY <2>1, <1>2, <1>3 DEF TurnOK, This, SearchType
    <2>3. \A side \in Sides : SideOK(search[side])' /\ Met(search[side])' = Met(search[side])
        BY <2>1, <1>1, <1>2 DEF SideOK, Met
    <2> QED BY <2>2, <2>3, <1>1, <1>3, SearchStep
<1>5. CASE ~(turn.side = "ours" /\ common # NotYet)
    <2> DEFINE other == OtherSide(turn.side)
               deduped == Dedup(search[other].branches)
               there == [search[other] EXCEPT !.branches = deduped]
    <2>1. /\ search' = [search EXCEPT ![other] = there]
          /\ turn' = [side |-> other, next |-> 1, last |-> Len(deduped)]
        BY <1>5 DEF NextTurn
    <2>2. other \in Sides
        BY <1>2, OtherSideType DEF TurnOK
    <2>3. /\ deduped \in Seq(Nodes)
          /\ ToSet(deduped) \subseteq ToSet(search[other].branches)
        <3>1. search[other].branches \in Seq(Nodes)
            BY <2>2, <1>2 DEF SearchType
        <3> QED BY <3>1, ToSetOfDedup
    <2> HIDE DEF deduped
    <2>4. /\ there \in SearchType /\ there.branches = deduped
          /\ there.found = search[other].found /\ there.reachedEnd = search[other].reachedEnd
        BY <2>2, <2>3, <1>2 DEF SearchType
    <2>5. Met(there) \subseteq Met(search[other])
        BY <2>3, <2>4 DEF Met
    <2>6. SideOK(there)
        BY <2>2, <2>4, <2>5, <1>2 DEF SideOK
    <2> HIDE DEF there, other
    <2>7. /\ search' \in [Sides -> SearchType]
          /\ \A side \in Sides : search'[side] = IF side = other THEN there ELSE search[side]
        BY <2>1, <2>2, <2>4, <1>2
    <2>8. \A side \in Sides : SideOK(search[side])'
        BY <2>6, <2>7, <1>1, <1>2 DEF SideOK, Met
    <2>9. \A side \in Sides : Met(search[side])' \subseteq Met(search[side])
        BY <2>5, <2>7 DEF Met
    <2>10. TurnOK'
        <3>1. turn'.side = other /\ turn'.last = Len(deduped) /\ Len(deduped) \in Nat
            BY <2>1, <2>3
        <3>2. turn' \in [side : Sides, next : Nat \ {0}, last : Nat]
            BY <2>1, <2>2, <3>1
        <3>3. This' = there
            BY <3>1, <2>2, <2>7 DEF This
        <3> QED BY <3>1, <3>2, <3>3, <2>4 DEF TurnOK
    <2>11. (search \in [Sides -> SearchType])'
        BY <2>7, <1>3 DEF SearchType
    <2> QED BY <2>8, <2>9, <2>10, <2>11, <1>1, <1>3, SearchStep
<1> QED BY <1>4, <1>5

\* A new entry's parents are old ones.
LEMMA GrowKeepsDag ==
    ASSUME DagOK, Grow
    PROVE  DagOK' /\ \E ps \in Seq(Nat) : parents' = Append(parents, ps) /\ ToSet(ps) \subseteq Revisions
<1>1. parents \in Seq(Seq(Nat)) /\ Len(parents) \in Nat /\ Len(parents) < MaxEntries
    BY DEF DagOK, Grow
<1>2. PICK ps \in Seq(Nat) : parents' = Append(parents, ps) /\ ToSet(ps) \subseteq Revisions
    <2>1. CASE parents' = Append(parents, <<>>)
        <3>1. <<>> \in Seq(Nat) /\ ToSet(<<>>) \subseteq Revisions
            BY DEF ToSet
        <3> QED BY <2>1, <3>1
    <2>2. ASSUME NEW p \in Revisions, parents' = Append(parents, <<p>>)
          PROVE  \E ps \in Seq(Nat) : parents' = Append(parents, ps) /\ ToSet(ps) \subseteq Revisions
        <3>1. p \in Nat
            BY DEF Revisions
        <3>2. <<p>> \in Seq(Nat) /\ ToSet(<<p>>) \subseteq Revisions
            BY <3>1 DEF ToSet
        <3> QED BY <2>2, <3>2
    <2>3. ASSUME NEW p \in Revisions, NEW q \in Revisions, parents' = Append(parents, <<p, q>>)
          PROVE  \E ps \in Seq(Nat) : parents' = Append(parents, ps) /\ ToSet(ps) \subseteq Revisions
        <3>1. p \in Nat /\ q \in Nat
            BY DEF Revisions
        <3>2. <<p, q>> \in Seq(Nat) /\ ToSet(<<p, q>>) \subseteq Revisions
            BY <3>1 DEF ToSet
        <3> QED BY <2>3, <3>2
    <2> QED BY <2>1, <2>2, <2>3 DEF Grow
<1>3. /\ parents' \in Seq(Seq(Nat)) /\ Len(parents') = Len(parents) + 1
      /\ \A r \in 1..Len(parents) : parents'[r] = parents[r]
      /\ parents'[Len(parents) + 1] = ps
    BY <1>1, <1>2
<1>4. \A r \in Revisions' : ToSet(parents'[r]) \subseteq 1..(r - 1)
    <2> SUFFICES ASSUME NEW r \in 1..(Len(parents) + 1)
                 PROVE  ToSet(parents'[r]) \subseteq 1..(r - 1)
        BY <1>3 DEF Revisions
    <2>1. CASE r \in 1..Len(parents)
        BY <2>1, <1>3 DEF DagOK, Revisions
    <2>2. CASE r = Len(parents) + 1
        BY <2>2, <1>1, <1>2, <1>3 DEF Revisions
    <2> QED BY <2>1, <2>2, <1>1
<1>5. Len(parents') <= MaxEntries
    BY <1>1, <1>3, MaxEntriesAssumption
<1>6. DagOK'
    BY <1>3, <1>4, <1>5 DEF DagOK
<1> QED BY <1>2, <1>6

LEMMA GrowKeepsInv ==
    ASSUME BuildInv, Grow
    PROVE  BuildInv'
<1>1. /\ phase = "growing" /\ phase' = "growing" /\ ~Started /\ ~Started' /\ ~Searching'
      /\ UNCHANGED <<theirs, ours, search, turn, common, diffs, backLinks, sorted>>
    BY DEF Grow, Started, Searching
<1>2. DagOK'
    BY GrowKeepsDag DEF BuildInv
<1>3. backLinks' \in [0..MaxEntries -> SUBSET Revisions'] /\ \A n \in 0..MaxEntries : backLinks'[n] = {}
    BY <1>1 DEF BuildInv, LinksOK, LinksTyped
<1>4. Len(parents') \in Nat /\ \A r \in Revisions' : r \in 0..MaxEntries
    BY <1>2, MaxEntriesAssumption DEF DagOK, Revisions
<1>5. LinksOK'
    BY <1>3, <1>4 DEF LinksOK, LinksTyped
<1>6. SortedOK'
    BY <1>1 DEF SortedOK
<1> QED BY <1>1, <1>2, <1>3, <1>5, <1>6 DEF BuildInv

\* Where a search begins, everything leads back to the beginning.
LEMMA NewSearchOK ==
    ASSUME NEW a \in Nodes, NEW b \in Nodes, StartSearch(a, b), UNCHANGED <<parents, backLinks>>,
           NULL_NODE \in {a, b} => NULL_NODE \in diffs'
    PROVE  /\ (search \in [Sides -> SearchType])'
           /\ TurnOK'
           /\ \A side \in Sides : SideOK(search[side])'
           /\ LeadsBack(a, b)'
           /\ CommonOK(a, b)'
<1>1. \A x \in Nodes : /\ NewSearch(x) \in SearchType
                       /\ NewSearch(x).found = <<>> /\ NewSearch(x).branches = <<x>>
                       /\ NewSearch(x).reachedEnd = FALSE
                       /\ Met(NewSearch(x)) = {x} /\ ToSet(<<>>) = {} /\ Len(<<x>>) = 1
    BY DEF NewSearch, SearchType, Met, ToSet
<1>2. /\ search' = [side \in Sides |-> NewSearch(StartOf(a, b, side))]
      /\ turn' = [side |-> "theirs", next |-> 1, last |-> 1]
      /\ common' = NotYet
    BY DEF StartSearch, StartOf
<1>3. \A side \in Sides : StartOf(a, b, side) \in {a, b}
    BY DEF StartOf
<1>4. Nodes' = Nodes /\ \A n : Above(n)' = Above(n)
    BY DEF Nodes, Revisions, Above, Linked
<1>5. (search \in [Sides -> SearchType])'
    BY <1>1, <1>2, <1>3, <1>4 DEF SearchType
<1>6. TurnOK'
    <2>1. turn'.side = "theirs" /\ "theirs" \in Sides /\ turn'.next = 1 /\ turn'.last = 1
        BY <1>2 DEF Sides
    <2>2. This' = NewSearch(StartOf(a, b, "theirs"))
        BY <2>1, <1>2 DEF This
    <2>3. Len(This'.branches) = 1
        BY <2>1, <2>2, <1>1, <1>3
    <2> QED BY <2>1, <2>3, <1>2 DEF TurnOK
<1>7. \A side \in Sides : SideOK(search[side])'
    BY <1>1, <1>2, <1>3, SMTT(30) DEF SideOK, Met
<1>8. LeadsBack(a, b)'
    <2> SUFFICES ASSUME NEW side \in Sides, NEW x \in Met(search[side])'
                 PROVE  StartOf(a, b, side) \in Above(x)'
        BY DEF LeadsBack, StartOf
    <2>1. search'[side] = NewSearch(StartOf(a, b, side)) /\ StartOf(a, b, side) \in Nodes
        BY <1>2, <1>3
    <2>2. x = StartOf(a, b, side)
        BY <2>1, <1>1 DEF Met
    <2> QED BY <2>1, <2>2, <1>4, AboveStart
<1>9. CommonOK(a, b)'
    BY <1>2 DEF CommonOK
<1> QED BY <1>5, <1>6, <1>7, <1>8, <1>9

LEMMA PullKeepsInv ==
    ASSUME BuildInv, Pull
    PROVE  BuildInv'
<1>1. PICK a \in Revisions, b \in Revisions :
        /\ a # b
        /\ Ancestors(Graph, a) \cup Ancestors(Graph, b) = Revisions
        /\ theirs' = a /\ ours' = b
        /\ StartSearch(a, b)
    BY DEF Pull
<1>2. /\ UNCHANGED <<parents, diffs, backLinks, sorted>> /\ Revisions' = Revisions /\ Nodes' = Nodes
      /\ Graph' = Graph
    BY DEF Pull, Revisions, Nodes, Graph
<1>3. /\ phase' = "collecting" /\ ~Started /\ Started' /\ Searching' /\ sorted' = {}
    BY <1>2 DEF Pull, StartSearch, Started, Searching, BuildInv
<1>4. a \in Nodes /\ b \in Nodes /\ NULL_NODE \notin {a, b}
    BY DEF Nodes, Revisions, NULL_NODE
<1>5. /\ (search \in [Sides -> SearchType])' /\ TurnOK'
      /\ \A side \in Sides : SideOK(search[side])'
      /\ LeadsBack(a, b)' /\ CommonOK(a, b)'
    BY <1>1, <1>2, <1>4, NewSearchOK
<1>6. SearchOK(a, b)'
    <2>1. \A n : Above(n)' = Above(n)
        BY <1>2 DEF Above, Linked
    <2>2. a \in Above(a)' /\ b \in Above(b)'
        BY <2>1, <1>4, AboveStart
    <2> QED BY <2>2, <1>1, <1>3, <1>5 DEF SearchOK
<1>7. DagOK' /\ LinksOK' /\ PullOK'
    BY <1>1, <1>2 DEF BuildInv, DagOK, LinksOK, LinksTyped, PullOK
<1>8. SortedOK'
    BY <1>3 DEF SortedOK
<1> QED BY <1>2, <1>3, <1>4, <1>5, <1>6, <1>7, <1>8 DEF BuildInv

\* What a round sorts contains what the rounds before sorted, a beginning of this search that
\* they did not, and what pull() is about.
LEMMA SortFacts ==
    ASSUME BuildInv, phase = "sorting"
    PROVE  /\ common \in Nodes \cap diffs
           /\ sorted \subseteq Above(common) /\ sorted # Above(common)
           /\ {theirs, ours} \subseteq Above(common)
           /\ Above(common) \subseteq diffs
<1>1. DagOK /\ LinksTyped /\ common # NotYet
    BY DEF BuildInv, LinksOK, SortedOK
<1>2. PICK a \in Nodes, b \in Nodes : SearchOK(a, b)
    BY DEF BuildInv, Searching
<1>3. common \in Nodes \cap diffs /\ a \in Above(common) /\ b \in Above(common)
    BY <1>1, <1>2 DEF SearchOK, CommonOK, StartOf, Sides
<1>4. Above(a) \subseteq Above(common) /\ Above(b) \subseteq Above(common)
    BY <1>1, <1>3, AboveTransitive
<1>5. Above(common) \subseteq diffs
    <2>1. \A x \in Nodes : x \in 0..MaxEntries
        BY <1>1, GraphIsDag, MaxEntriesAssumption DEF DagOK
    <2>2. \A x \in diffs \cap Nodes : backLinks[x] \subseteq diffs
        BY <2>1 DEF BuildInv, LinksOK
    <2> QED BY <2>2, <1>1, <1>3, AboveLeast
<1> QED BY <1>2, <1>3, <1>4, <1>5 DEF SearchOK

LEMMA SortKeepsInv ==
    ASSUME BuildInv, Sort
    PROVE  BuildInv'
<1>1. /\ phase = "sorting" /\ Started
      /\ UNCHANGED <<parents, theirs, ours, search, turn, common, diffs, backLinks>>
      /\ sorted' = Above(common)
    BY DEF Sort, Started
<1>2. \A n : Above(n)' = Above(n)
    BY <1>1 DEF Above, Linked, Nodes, Revisions
<1>3. SideBranches(sorted') = Mentioned(sorted') \ sorted' /\ Mentioned(sorted)' = Mentioned(sorted')
    BY <1>1 DEF SideBranches, Mentioned
<1>4. /\ common \in Nodes \cap diffs /\ {theirs, ours} \subseteq Above(common)
      /\ Above(common) \subseteq diffs
    BY <1>1, SortFacts
<1>5. /\ sideBranches' = Mentioned(sorted') \ sorted'
      /\ phase' = IF sideBranches' = {} THEN "deciding" ELSE "exploring"
    BY <1>1, <1>3, <1>4 DEF Sort
<1>6. Nodes' = Nodes /\ Above(common)' = Above(common)
    BY <1>1 DEF Above, Linked, Nodes, Revisions
<1>7. SortedOK'
    BY <1>1, <1>3, <1>4, <1>5, <1>6 DEF SortedOK
<1>8. DagOK' /\ LinksOK' /\ PullOK'
    BY <1>1 DEF BuildInv, DagOK, LinksOK, LinksTyped, PullOK, Revisions, Graph
<1>9. Started' /\ ~Searching' /\ phase' # "failed"
    BY <1>5 DEF Started, Searching
<1> QED BY <1>7, <1>8, <1>9 DEF BuildInv

LEMMA ExploreKeepsInv ==
    ASSUME BuildInv, Explore
    PROVE  BuildInv'
<1>1. PICK branch \in sideBranches : StartSearch(branch, common)
    BY DEF Explore
<1>2. /\ phase = "exploring" /\ phase' = "collecting" /\ Started /\ Started' /\ Searching'
      /\ UNCHANGED <<parents, theirs, ours, diffs, backLinks, sorted>>
      /\ Revisions' = Revisions /\ Nodes' = Nodes
    BY <1>1 DEF Explore, StartSearch, Started, Searching, Revisions, Nodes
<1>3. /\ common \in Nodes \cap diffs /\ sorted = Above(common) /\ {theirs, ours} \subseteq sorted
      /\ sideBranches = Mentioned(sorted) \ sorted
    BY <1>2 DEF BuildInv, SortedOK
<1>4. branch \in Revisions /\ branch \notin sorted
    <2>1. PICK n \in sorted : \E child \in backLinks[n] : branch \in ToSet(parents[child])
        BY <1>3 DEF Mentioned
    <2>2. PICK child \in backLinks[n] : branch \in ToSet(parents[child])
        BY <2>1
    <2>3. n \in 0..MaxEntries
        BY <1>3, GraphIsDag, AboveStart, MaxEntriesAssumption DEF BuildInv, DagOK
    <2>4. child \in Revisions /\ Len(parents) \in Nat
        BY <2>3 DEF BuildInv, LinksOK, LinksTyped, DagOK
    <2>5. ToSet(parents[child]) \subseteq 1..(child - 1)
        BY <2>4 DEF BuildInv, DagOK
    <2> QED BY <1>3, <2>2, <2>4, <2>5 DEF Revisions
<1>5. branch \in Nodes /\ branch # NULL_NODE
    BY <1>4 DEF Nodes, Revisions, NULL_NODE
<1>6. PICK c \in Nodes : c = common
    BY <1>3
<1>7. /\ (search \in [Sides -> SearchType])' /\ TurnOK'
      /\ \A side \in Sides : SideOK(search[side])'
      /\ LeadsBack(branch, c)' /\ CommonOK(branch, c)'
    BY <1>1, <1>2, <1>3, <1>5, <1>6, NewSearchOK
<1>8. SearchOK(branch, c)'
    <2>1. Above(c)' = Above(common)
        BY <1>2, <1>6 DEF Above, Linked
    <2> QED BY <2>1, <1>2, <1>3, <1>4, <1>7 DEF SearchOK
<1>9. DagOK' /\ LinksOK' /\ PullOK'
    BY <1>2 DEF BuildInv, DagOK, LinksOK, LinksTyped, PullOK, Graph
<1>10. SortedOK'
    BY <1>2 DEF SortedOK
<1> QED BY <1>2, <1>5, <1>7, <1>8, <1>9, <1>10 DEF BuildInv

(***************************************************************************)
(* The conclusions, drawn from the graph that is cut at the common         *)
(* ancestor                                                                *)
(***************************************************************************)

LEMMA BuiltGraphIsDag ==
    ASSUME DagOK
    PROVE  /\ ParentsAreOlder(BuiltGraph)
           /\ Len(BuiltGraph) = Len(parents) /\ Len(BuiltGraph) \in Nat
           /\ \A r \in Revisions : /\ BuiltGraph[r].parents \subseteq Graph[r].parents
                                   /\ r # common => BuiltGraph[r].parents = Graph[r].parents
                                   /\ r = common => BuiltGraph[r].parents = {}
<1>1. Len(parents) \in Nat /\ \A r \in Revisions : Graph[r].parents = ToSet(parents[r])
    BY GraphIsDag
<1>2. Len(BuiltGraph) = Len(parents)
    BY <1>1 DEF BuiltGraph, Revisions
<1>3. \A r \in Revisions : BuiltGraph[r].parents = IF r = common THEN {} ELSE ToSet(parents[r])
    BY DEF BuiltGraph
<1>4. ParentsAreOlder(BuiltGraph)
    BY <1>1, <1>2, <1>3 DEF DagOK, ParentsAreOlder, Revisions
<1> QED BY <1>1, <1>2, <1>3, <1>4

\* When no parent is left to explore, topo_sort and all_ancestors() find all they need.
LEMMA SortedIsClosed ==
    ASSUME BuildInv, phase = "deciding"
    PROVE  /\ {theirs, ours} \subseteq sorted
           /\ ParentClosed(BuiltGraph, sorted \ {NULL_NODE})
<1>1. /\ DagOK /\ LinksTyped
      /\ common \in Nodes /\ sorted = Above(common) /\ {theirs, ours} \subseteq sorted
      /\ Mentioned(sorted) \subseteq sorted
    BY DEF BuildInv, LinksOK, SortedOK
<1>2. sorted \subseteq Nodes
    BY <1>1, AboveStart
<1>3. ASSUME NEW x \in sorted \ {NULL_NODE}, NEW p \in BuiltGraph[x].parents
      PROVE  p \in sorted \ {NULL_NODE}
    <2>1. x \in Revisions
        BY <1>2 DEF Nodes
    <2>2. x # common /\ p \in ToSet(parents[x])
        BY <2>1, <1>1, BuiltGraphIsDag, GraphIsDag
    <2>3. PICK y \in sorted : x \in backLinks[y]
        BY <2>2, <1>1, AboveHasPredecessor
    <2>4. p \in Mentioned(sorted)
        BY <2>2, <2>3 DEF Mentioned
    <2>5. p # NULL_NODE
        <3>1. ToSet(parents[x]) \subseteq 1..(x - 1)
            BY <2>1, <1>1 DEF DagOK
        <3> QED BY <2>2, <3>1 DEF NULL_NODE
    <2> QED BY <2>4, <2>5, <1>1
<1> QED BY <1>1, <1>3 DEF ParentClosed

\* The graph that ends at the common ancestor has the same ancestors up to there.
LEMMA AncestorsInBuiltGraph ==
    ASSUME BuildInv, phase = "deciding", NEW x \in sorted \ {NULL_NODE}
    PROVE  /\ Ancestors(BuiltGraph, x) \subseteq sorted \ {NULL_NODE}
           /\ Ancestors(BuiltGraph, x) \subseteq Ancestors(Graph, x)
           /\ common = NULL_NODE => Ancestors(Graph, x) \subseteq Ancestors(BuiltGraph, x)
           /\ common # NULL_NODE =>
                Ancestors(Graph, x) \subseteq Ancestors(BuiltGraph, x) \cup Ancestors(Graph, common)
<1>1. /\ DagOK /\ common \in Nodes /\ sorted = Above(common)
      /\ ParentClosed(BuiltGraph, sorted \ {NULL_NODE})
    BY SortedIsClosed DEF BuildInv, SortedOK
<1>2. /\ ParentsAreOlder(Graph) /\ Len(Graph) = Len(parents) /\ Len(Graph) \in Nat
      /\ ParentsAreOlder(BuiltGraph) /\ Len(BuiltGraph) = Len(parents)
    BY <1>1, GraphIsDag, BuiltGraphIsDag
<1>3. x \in Revisions /\ x \in 1..Len(Graph) /\ x \in 1..Len(BuiltGraph)
    BY <1>1, <1>2, AboveStart DEF Nodes, Revisions
<1>4. Ancestors(BuiltGraph, x) \subseteq sorted \ {NULL_NODE}
    BY <1>1, <1>2, <1>3, AncestorsLeast
<1>5. /\ ParentClosed(Graph, Ancestors(Graph, x)) /\ x \in Ancestors(Graph, x)
      /\ Ancestors(Graph, x) \subseteq Revisions
    BY <1>2, <1>3, AncestorsClosed, AncestorsReflexive, AncestorsBounded DEF Revisions
<1>6. ParentClosed(BuiltGraph, Ancestors(Graph, x))
    BY <1>1, <1>5, BuiltGraphIsDag DEF ParentClosed
<1>7. Ancestors(BuiltGraph, x) \subseteq Ancestors(Graph, x)
    BY <1>2, <1>3, <1>5, <1>6, AncestorsLeast
<1>8. /\ ParentClosed(BuiltGraph, Ancestors(BuiltGraph, x)) /\ x \in Ancestors(BuiltGraph, x)
      /\ Ancestors(BuiltGraph, x) \subseteq Revisions
    BY <1>2, <1>3, AncestorsClosed, AncestorsReflexive, AncestorsBounded DEF Revisions
<1>9. ASSUME common = NULL_NODE
      PROVE  Ancestors(Graph, x) \subseteq Ancestors(BuiltGraph, x)
    <2>1. \A r \in Revisions : BuiltGraph[r].parents = Graph[r].parents
        BY <1>1, <1>9, BuiltGraphIsDag DEF Revisions, NULL_NODE
    <2>2. ParentClosed(Graph, Ancestors(BuiltGraph, x))
        BY <2>1, <1>8 DEF ParentClosed
    <2> QED BY <2>2, <1>2, <1>3, <1>8, AncestorsLeast
<1>10. ASSUME common # NULL_NODE
       PROVE  Ancestors(Graph, x) \subseteq Ancestors(BuiltGraph, x) \cup Ancestors(Graph, common)
    <2> DEFINE S == Ancestors(BuiltGraph, x) \cup Ancestors(Graph, common)
    <2>1. common \in Revisions /\ common \in 1..Len(Graph)
        BY <1>1, <1>2, <1>10 DEF Nodes, Revisions
    <2>2. ParentClosed(Graph, Ancestors(Graph, common)) /\ common \in Ancestors(Graph, common)
        BY <2>1, <1>2, AncestorsClosed, AncestorsReflexive
    <2>3. \A r \in Revisions : r # common => BuiltGraph[r].parents = Graph[r].parents
        BY <1>1, BuiltGraphIsDag
    <2>4. ParentClosed(Graph, S)
        <3> SUFFICES ASSUME NEW r \in S, NEW p \in Graph[r].parents
                     PROVE  p \in S
            BY DEF ParentClosed
        <3>1. CASE r \in Ancestors(Graph, common)
            BY <3>1, <2>2 DEF ParentClosed
        <3>2. CASE r \notin Ancestors(Graph, common)
            <4>1. r \in Ancestors(BuiltGraph, x) /\ r \in Revisions /\ r # common
                BY <3>2, <2>2, <1>8
            <4>2. p \in BuiltGraph[r].parents
                BY <4>1, <2>3
            <4> QED BY <4>1, <4>2, <1>8 DEF ParentClosed
        <3> QED BY <3>1, <3>2
    <2>5. x \in S
        BY <1>8
    <2> HIDE DEF S
    <2>6. Ancestors(Graph, x) \subseteq S
        BY <2>4, <2>5, <1>2, <1>3, AncestorsLeast
    <2> QED BY <2>6 DEF S
<1> QED BY <1>4, <1>7, <1>9, <1>10

\* All that was sorted descends from the common ancestor.
LEMMA CommonIsAncestor ==
    ASSUME BuildInv, phase = "deciding", common # NULL_NODE, NEW x \in sorted \ {NULL_NODE}
    PROVE  common \in Ancestors(BuiltGraph, x)
<1>1. /\ DagOK /\ LinksTyped /\ common \in Nodes /\ sorted = Above(common)
    BY DEF BuildInv, LinksOK, SortedOK
<1>2. /\ ParentsAreOlder(BuiltGraph) /\ Len(BuiltGraph) = Len(parents) /\ Len(BuiltGraph) \in Nat
      /\ common \in Revisions
    BY <1>1, BuiltGraphIsDag DEF Nodes
<1> DEFINE S == {y \in Revisions : common \in Ancestors(BuiltGraph, y)}
<1>3. common \in S
    BY <1>2, AncestorsReflexive DEF Revisions
<1>4. ASSUME NEW y \in S \cap Nodes, NEW child \in backLinks[y]
      PROVE  child \in S
    <2>1. y \in 0..MaxEntries /\ y \in Revisions /\ common \in Ancestors(BuiltGraph, y)
        BY <1>1, MaxEntriesAssumption DEF DagOK, Revisions
    <2>2. child \in Revisions /\ y \in ToSet(parents[child])
        BY <2>1, <1>1 DEF BuildInv, LinksOK, LinksTyped
    <2>3. y < child
        <3>1. ToSet(parents[child]) \subseteq 1..(child - 1)
            BY <2>2, <1>1 DEF DagOK
        <3>2. child \in Nat
            BY <2>2, <1>2 DEF Revisions
        <3> QED BY <2>2, <3>1, <3>2
    <2>4. common <= y
        BY <2>1, AncestorsBounded DEF Revisions
    <2>5. child # common
        BY <2>2, <2>3, <2>4, <1>2 DEF Revisions
    <2>6. y \in BuiltGraph[child].parents
        BY <2>2, <2>5, <1>1, BuiltGraphIsDag, GraphIsDag
    <2>7. /\ child \in 0..Len(BuiltGraph) /\ child \in Nat \ {0}
        BY <2>2, <1>2 DEF Revisions
    <2>8. /\ ParentClosed(BuiltGraph, Ancestors(BuiltGraph, child))
          /\ child \in Ancestors(BuiltGraph, child)
        BY <2>7, <1>2, AncestorsClosed, AncestorsReflexive
    <2>9. y \in Ancestors(BuiltGraph, child)
        BY <2>6, <2>8 DEF ParentClosed
    <2>10. common \in Ancestors(BuiltGraph, child)
        BY <2>1, <2>7, <2>9, <1>2, AncestorsTransitive
    <2> QED BY <2>2, <2>10
<1> HIDE DEF S
<1>5. Above(common) \subseteq S
    BY <1>1, <1>3, <1>4, AboveLeast
<1> QED BY <1>1, <1>5 DEF S

LEMMA DecideFindsUnseen ==
    ASSUME BuildInv, phase = "deciding"
    PROVE  /\ theirs \in Ancestors(BuiltGraph, ours) <=> theirs \in Ancestors(Graph, ours)
           /\ ours \in Ancestors(BuiltGraph, theirs) <=> ours \in Ancestors(Graph, theirs)
           /\ sorted \ (Ancestors(BuiltGraph, ours) \cup {NULL_NODE})
                = Ancestors(Graph, theirs) \ Ancestors(Graph, ours)
<1>1. /\ DagOK /\ sorted \subseteq Nodes /\ {theirs, ours} \subseteq sorted \ {NULL_NODE}
      /\ common \in Nodes
      /\ Ancestors(Graph, theirs) \cup Ancestors(Graph, ours) = Revisions
    <2>1. Started /\ common \in Nodes /\ sorted = Above(common)
        BY DEF Started, BuildInv, SortedOK
    <2>2. theirs # NULL_NODE /\ ours # NULL_NODE
        BY <2>1 DEF BuildInv, PullOK, Revisions, NULL_NODE
    <2> QED BY <2>1, <2>2, AboveStart, SortedIsClosed DEF BuildInv, PullOK
<1> DEFINE S == sorted \ {NULL_NODE}
           A(x) == Ancestors(Graph, x)
           B(x) == Ancestors(BuiltGraph, x)
<1>2. S \subseteq Revisions
    BY <1>1 DEF Nodes
<1>3. \A x \in S : B(x) \subseteq S /\ B(x) \subseteq A(x)
    BY AncestorsInBuiltGraph
<1>4. \A x \in S, y \in S : x \in A(y) => x \in B(y)
    <2>1. CASE common = NULL_NODE
        BY <2>1, AncestorsInBuiltGraph
    <2>2. CASE common # NULL_NODE
        <3> SUFFICES ASSUME NEW x \in S, NEW y \in S, x \in A(y), x \notin B(y)
                     PROVE  FALSE
            OBVIOUS
        <3>1. x \in A(common)
            BY <2>2, AncestorsInBuiltGraph
        <3>2. common \in B(x) /\ common \in B(y)
            BY <2>2, CommonIsAncestor
        <3>3. common \in Revisions /\ x \in Revisions
            BY <2>2, <1>1, <1>2 DEF Nodes
        <3>4. x <= common /\ common <= x
            BY <3>1, <3>2, <3>3, AncestorsBounded DEF Revisions
        <3>5. x = common
            BY <3>3, <3>4 DEF Revisions
        <3> QED BY <3>2, <3>5
    <2> QED BY <2>1, <2>2
<1>5. \A x \in S, y \in S : x \in A(y) <=> x \in B(y)
    BY <1>3, <1>4
<1>6. \A x \in A(theirs) \ A(ours) : x \in S
    <2> SUFFICES ASSUME NEW x \in A(theirs) \ A(ours)
                 PROVE  x \in B(theirs)
        BY <1>1, <1>3
    <2>1. CASE common = NULL_NODE
        BY <2>1, <1>1, AncestorsInBuiltGraph
    <2>2. CASE common # NULL_NODE
        <3>1. common \in A(ours)
            BY <2>2, <1>1, <1>3, CommonIsAncestor
        <3>2. /\ ParentsAreOlder(Graph) /\ Len(Graph) \in Nat /\ ours \in 0..Len(Graph)
            BY <1>1, <1>2, GraphIsDag DEF Revisions
        <3>3. A(common) \subseteq A(ours)
            BY <3>1, <3>2, AncestorsTransitive
        <3> QED BY <2>2, <3>3, <1>1, AncestorsInBuiltGraph
    <2> QED BY <2>1, <2>2
<1>7. S \ B(ours) = A(theirs) \ A(ours)
    BY <1>1, <1>2, <1>3, <1>5, <1>6
<1> QED BY <1>1, <1>5, <1>7

LEMMA DecideKeepsInv ==
    ASSUME BuildInv, Decide
    PROVE  BuildInv' /\ FindsUnseen'
<1>1. /\ phase = "deciding" /\ Started
      /\ UNCHANGED <<parents, theirs, ours, search, turn, common, diffs, backLinks, sorted>>
    BY DEF Decide, Started
<1>2. {theirs, ours} \subseteq sorted /\ ParentClosed(BuiltGraph, sorted \ {NULL_NODE})
    BY <1>1, SortedIsClosed
<1>3. /\ phase' = "done"
      /\ outcome' = [ahead |-> theirs \in Ancestors(BuiltGraph, ours),
                     fastForward |-> ours \in Ancestors(BuiltGraph, theirs),
                     unseen |-> Unseen(Ancestors(BuiltGraph, ours))]
    BY <1>1, <1>2 DEF Decide
<1>4. /\ Revisions' = Revisions /\ Nodes' = Nodes /\ Graph' = Graph
      /\ \A n : Above(n)' = Above(n)
    BY <1>1 DEF Above, Linked, Nodes, Revisions, Graph
<1>5. common \in Nodes \cap diffs /\ sorted = Above(common)
    BY <1>1 DEF BuildInv, SortedOK
<1>6. Above(common)' = Above(common)
    BY <1>1 DEF Above, Linked, Nodes, Revisions
<1>7. SortedOK'
    BY <1>1, <1>2, <1>3, <1>4, <1>5, <1>6 DEF SortedOK
<1>8. DagOK' /\ LinksOK' /\ PullOK'
    BY <1>1, <1>4 DEF BuildInv, DagOK, LinksOK, LinksTyped, PullOK
<1>9. BuildInv'
    BY <1>3, <1>7, <1>8 DEF BuildInv, Started, Searching
<1>10. /\ theirs \in Ancestors(BuiltGraph, ours) <=> theirs \in Ancestors(Graph, ours)
       /\ ours \in Ancestors(BuiltGraph, theirs) <=> ours \in Ancestors(Graph, theirs)
       /\ Unseen(Ancestors(BuiltGraph, ours)) = Ancestors(Graph, theirs) \ Ancestors(Graph, ours)
    BY <1>1, DecideFindsUnseen DEF Unseen
<1>11. outcome' = [ahead |-> theirs \in Ancestors(Graph, ours),
                   fastForward |-> ours \in Ancestors(Graph, theirs),
                   unseen |-> Ancestors(Graph, theirs) \ Ancestors(Graph, ours)]
    <2>1. /\ (theirs \in Ancestors(BuiltGraph, ours)) = (theirs \in Ancestors(Graph, ours))
          /\ (ours \in Ancestors(BuiltGraph, theirs)) = (ours \in Ancestors(Graph, theirs))
        BY <1>10
    <2> QED BY <2>1, <1>3, <1>10
<1>12. FindsUnseen'
    BY <1>1, <1>4, <1>11 DEF FindsUnseen
<1> QED BY <1>9, <1>12

WorkspaceInv == BuildInv /\ FindsUnseen

LEMMA WorkspaceInitInv ==
    ASSUME WorkspaceInit
    PROVE  WorkspaceInv
<1>1. parents = <<>> /\ phase = "growing" /\ sorted = {} /\ backLinks = [n \in 0..MaxEntries |-> {}]
    BY DEF WorkspaceInit
<1>2. parents \in Seq(Seq(Nat)) /\ Len(parents) = 0
    BY <1>1
<1>3. DagOK
    BY <1>2, MaxEntriesAssumption DEF DagOK, Revisions
<1>4. LinksOK
    BY <1>1, <1>2 DEF LinksOK, LinksTyped, Revisions
<1> QED BY <1>1, <1>3, <1>4 DEF WorkspaceInv, BuildInv, FindsUnseen, SortedOK, Started, Searching

LEMMA StutterKeepsInv ==
    ASSUME WorkspaceInv, UNCHANGED workspaceVars
    PROVE  WorkspaceInv'
<1>1. UNCHANGED <<parents, theirs, ours, phase, search, turn, common, diffs, backLinks,
                  sorted, sideBranches, outcome>>
    BY DEF workspaceVars
<1>2. Revisions' = Revisions /\ Nodes' = Nodes /\ Graph' = Graph /\ This' = This
      /\ Mentioned(sorted)' = Mentioned(sorted) /\ SearchType' = SearchType
    BY <1>1 DEF Revisions, Nodes, Graph, This, Mentioned, SearchType
<1>3. \A n : Above(n)' = Above(n)
    BY <1>1 DEF Above, Linked, Nodes, Revisions
<1>4. Above(common)' = Above(common)
    BY <1>1 DEF Above, Linked, Nodes, Revisions
<1>5. DagOK' /\ LinksOK' /\ (Started => PullOK)' /\ SortedOK' /\ FindsUnseen'
    BY <1>1, <1>2, <1>4 DEF WorkspaceInv, BuildInv, DagOK, LinksOK, LinksTyped, Started, PullOK,
                            SortedOK, FindsUnseen
<1>6. TurnOK' = TurnOK /\ \A side : SideOK(search[side])' = SideOK(search[side])
    BY <1>1, <1>2 DEF TurnOK, SideOK, Met
<1>7. \A a, b : SearchOK(a, b)' = SearchOK(a, b)
    <2> SUFFICES ASSUME NEW a, NEW b
                 PROVE  SearchOK(a, b)' = SearchOK(a, b)
        OBVIOUS
    <2>1. \A side : Met(search[side])' = Met(search[side])
        BY <1>1 DEF Met
    <2>2. LeadsBack(a, b)' <=> LeadsBack(a, b)
        BY <2>1, <1>3 DEF LeadsBack, StartOf
    <2>3. CommonOK(a, b)' <=> CommonOK(a, b)
        BY <1>1, <1>2, <1>4 DEF CommonOK, StartOf
    <2> QED BY <2>2, <2>3, <1>1, <1>3 DEF SearchOK
<1> QED BY <1>1, <1>2, <1>5, <1>6, <1>7 DEF WorkspaceInv, BuildInv, Started, Searching

LEMMA WorkspaceStepKeepsInv ==
    ASSUME WorkspaceInv, [WorkspaceNext]_workspaceVars
    PROVE  WorkspaceInv'
<1>1. BuildInv
    BY DEF WorkspaceInv
<1>2. CASE Grow
    BY <1>1, <1>2, GrowKeepsInv DEF WorkspaceInv, FindsUnseen, Grow
<1>3. CASE Pull
    BY <1>1, <1>3, PullKeepsInv DEF WorkspaceInv, FindsUnseen, Pull, StartSearch
<1>4. CASE CloseBranch
    BY <1>1, <1>4, CloseBranchKeepsInv DEF WorkspaceInv, FindsUnseen, CloseBranch, Visiting
<1>5. CASE Meet
    BY <1>1, <1>5, MeetKeepsInv DEF WorkspaceInv, FindsUnseen, Meet, Visiting
<1>6. CASE ReachEnd
    BY <1>1, <1>6, ReachEndKeepsInv DEF WorkspaceInv, FindsUnseen, ReachEnd, Visiting
<1>7. CASE FollowParents
    BY <1>1, <1>7, FollowParentsKeepsInv DEF WorkspaceInv, FindsUnseen, FollowParents, Visiting
<1>8. CASE NextTurn
    BY <1>1, <1>8, NextTurnKeepsInv DEF WorkspaceInv, FindsUnseen, NextTurn
<1>9. CASE Sort
    <2>1. phase' # "done"
        BY <1>9 DEF Sort
    <2> QED BY <2>1, <1>1, <1>9, SortKeepsInv DEF WorkspaceInv, FindsUnseen
<1>10. CASE Explore
    BY <1>1, <1>10, ExploreKeepsInv DEF WorkspaceInv, FindsUnseen, Explore, StartSearch
<1>11. CASE Decide
    BY <1>1, <1>11, DecideKeepsInv DEF WorkspaceInv
<1>12. CASE UNCHANGED workspaceVars
    BY <1>12, StutterKeepsInv
<1> QED BY <1>2, <1>3, <1>4, <1>5, <1>6, <1>7, <1>8, <1>9, <1>10, <1>11, <1>12
        DEF WorkspaceNext, BuildDiffs

\* build_diffs() alone, and as a part of the Workspace that also takes and uses snapshots:
\* every step of the second is a step of the first or leaves it alone.
THEOREM SnapshotsImplementWorkspace == SnapshotSpec => WorkspaceSpec
<1>1. SnapshotInit => WorkspaceInit
    BY DEF SnapshotInit
<1>2. [SnapshotNext]_snapshotVars => [WorkspaceNext]_workspaceVars
    BY DEF SnapshotNext, snapshotVars, WorkspaceNext, Extend, UseSnapshot, VisitParents,
           StartCollecting, CloseKnownBranch, CollectSnapshot, CollectEntry, GoTo
<1> QED BY <1>1, <1>2, PTL DEF SnapshotSpec, WorkspaceSpec

\* Of build_diffs(): both sides lead back to where they began, whatever they have met, so
\* that they meet below both; and nothing is looked up that was not loaded.
THEOREM WorkspaceInvariant == WorkspaceSpec => []WorkspaceInv
<1>1. WorkspaceInit => WorkspaceInv
    BY WorkspaceInitInv
<1>2. WorkspaceInv /\ [WorkspaceNext]_workspaceVars => WorkspaceInv'
    BY WorkspaceStepKeepsInv
<1> QED BY <1>1, <1>2, PTL DEF WorkspaceSpec

\* Whatever DAG agents have built, and whatever two of its revisions pull() is about: it
\* concludes whether it is ahead and can fast-forward, and what is unseen, as the
\* definition of ancestors does.
THEOREM PullFindsUnseen == SnapshotSpec => []FindsUnseen
<1>1. WorkspaceInv => FindsUnseen
    BY DEF WorkspaceInv
<1> QED BY <1>1, SnapshotsImplementWorkspace, WorkspaceInvariant, PTL

\* ... and does not fail for a revision that it did not come across.
THEOREM PullNeverFails == SnapshotSpec => []NeverFails
<1>1. WorkspaceInv => NeverFails
    BY DEF WorkspaceInv, BuildInv, NeverFails
<1> QED BY <1>1, SnapshotsImplementWorkspace, WorkspaceInvariant, PTL

\* Each round sorts all that the rounds before it sorted, and more.
THEOREM RoundsSortMore == SnapshotSpec => SortsMoreEachRound
<1>1. WorkspaceInv /\ [WorkspaceNext]_workspaceVars
        => [phase = "sorting" => sorted \subseteq sorted' /\ sorted # sorted']_workspaceVars
    <2> SUFFICES ASSUME WorkspaceInv, WorkspaceNext, phase = "sorting"
                 PROVE  sorted \subseteq sorted' /\ sorted # sorted'
        OBVIOUS
    <2>1. Sort
        BY DEF WorkspaceNext, BuildDiffs, Grow, Pull, CloseBranch, Meet, ReachEnd, FollowParents,
               NextTurn, Explore, Decide, Visiting
    <2> QED BY <2>1, SortFacts DEF WorkspaceInv, Sort
<1> QED BY <1>1, SnapshotsImplementWorkspace, WorkspaceInvariant, PTL
        DEF WorkspaceSpec, SortsMoreEachRound

(***************************************************************************)
(* The walks: the history of a revision, with and without snapshots        *)
(*                                                                         *)
(* What a walk has gone through and what it still has to go through        *)
(* together contain the revision and, with an entry, its parents.  At the  *)
(* end nothing is left to go through, and what contains its own parents    *)
(* contains all ancestors.                                                 *)
(***************************************************************************)

History == Ancestors(Graph, latest)

\* Of the entries gone through: gone, and those to come: branches.
Reaches(gone) ==
    /\ gone \subseteq History
    /\ latest \in gone \cup ToSet(branches)
    /\ \A x \in gone : ToSet(parents[x]) \subseteq gone \cup ToSet(branches)

CountsTyped ==
    /\ since \in Seq(Nat) /\ Len(since) = Len(parents)
    /\ snapshots \in Seq(SUBSET Nat) /\ Len(snapshots) = Len(parents)

\* A snapshot that is made holds the history; the one being made holds nothing yet.
SnapshotsOK ==
    \A r \in Revisions :
        snapshots[r] = IF since[r] = 0 /\ ~(walk = "generate" /\ r = latest)
                       THEN Ancestors(Graph, r) ELSE {}

WalkOK ==
    walk # "no" =>
        /\ latest \in Revisions
        /\ branches \in Seq(Nat) /\ ToSet(branches) \subseteq History
        /\ walk \in {"generate", "collect"} => branches # <<>>
        /\ walk = "generate" => since[latest] = 0 /\ Reaches(seen)
        /\ walk = "collect" => Reaches(collected) /\ seen \subseteq collected
        /\ walk = "collected" => collected = History

WalkInv ==
    /\ walk \in {"no", "generate", "collect", "collected"}
    /\ CountsTyped
    /\ SnapshotsOK
    /\ WalkOK

\* At the end of a walk.
LEMMA ReachesAll ==
    ASSUME DagOK, latest \in Revisions, NEW gone, gone \subseteq History, latest \in gone,
           \A x \in gone : ToSet(parents[x]) \subseteq gone
    PROVE  gone = History
<1>1. /\ ParentsAreOlder(Graph) /\ Len(Graph) \in Nat /\ latest \in 1..Len(Graph)
      /\ \A r \in Revisions : Graph[r].parents = ToSet(parents[r])
    BY GraphIsDag DEF Revisions
<1>2. gone \subseteq Revisions
    BY <1>1, AncestorsBounded DEF History, Revisions
<1>3. ParentClosed(Graph, gone)
    BY <1>1, <1>2 DEF ParentClosed
<1> QED BY <1>1, <1>3, AncestorsLeast DEF History

\* What an entry of the history leads to.
LEMMA HistoryFacts ==
    ASSUME DagOK, latest \in Revisions, NEW x \in History
    PROVE  /\ x \in Revisions /\ x \in Nat
           /\ parents[x] \in Seq(Nat) /\ ToSet(parents[x]) \subseteq History
           /\ x \in Ancestors(Graph, x) /\ Ancestors(Graph, x) \subseteq History
           /\ \A y \in Ancestors(Graph, x) : ToSet(parents[y]) \subseteq Ancestors(Graph, x)
<1>1. /\ ParentsAreOlder(Graph) /\ Len(Graph) \in Nat /\ latest \in 0..Len(Graph)
      /\ Len(Graph) = Len(parents)
      /\ \A r \in Revisions : Graph[r].parents = ToSet(parents[r])
    BY GraphIsDag DEF Revisions
<1>2. x \in Revisions /\ x \in Nat \ {0} /\ History \subseteq Revisions /\ x \in 0..Len(Graph)
    BY <1>1, AncestorsBounded DEF History, Revisions
<1>3. parents[x] \in Seq(Nat)
    BY <1>2 DEF DagOK, Revisions
<1>4. ParentClosed(Graph, History) /\ ParentClosed(Graph, Ancestors(Graph, x))
    BY <1>1, <1>2, AncestorsClosed DEF History
<1>5. Ancestors(Graph, x) \subseteq History
    BY <1>1, AncestorsTransitive DEF History
<1>6. x \in Ancestors(Graph, x)
    BY <1>2, AncestorsReflexive
<1>7. ToSet(parents[x]) \subseteq History
    BY <1>1, <1>2, <1>4 DEF ParentClosed
<1>8. \A y \in Ancestors(Graph, x) : ToSet(parents[y]) \subseteq Ancestors(Graph, x)
    BY <1>1, <1>2, <1>4, <1>5 DEF ParentClosed
<1> QED BY <1>2, <1>3, <1>5, <1>6, <1>7, <1>8

\* A walk under way stands at an entry of the history.
LEMMA PositionFacts ==
    ASSUME DagOK, WalkInv, walk \in {"generate", "collect"}
    PROVE  /\ latest \in Revisions /\ Position \in History
           /\ Tail(branches) \in Seq(Nat) /\ ToSet(branches) = {Position} \cup ToSet(Tail(branches))
           /\ ToSet(Tail(branches)) \subseteq History
<1>1. /\ latest \in Revisions /\ branches \in Seq(Nat) /\ ToSet(branches) \subseteq History
      /\ branches # <<>>
    BY DEF WalkInv, WalkOK
<1> QED BY <1>1, ToSetOfTail DEF Position

\* The entry's parents take its place.
LEMMA ParentsInstead ==
    ASSUME DagOK, WalkInv, walk \in {"generate", "collect"}, parents[Position] # <<>>
    PROVE  LET ps == parents[Position]
               rest == <<Head(ps)>> \o Tail(branches) \o Tail(ps)
           IN  /\ rest \in Seq(Nat) /\ rest # <<>>
               /\ ToSet(rest) = ToSet(ps) \cup ToSet(Tail(branches))
               /\ ToSet(rest) \subseteq History
<1> DEFINE ps == parents[Position]
           first == <<Head(ps)>>
<1>1. /\ ps \in Seq(Nat) /\ ToSet(ps) \subseteq History
      /\ Tail(branches) \in Seq(Nat) /\ ToSet(Tail(branches)) \subseteq History
    BY PositionFacts, HistoryFacts
<1>2. Tail(ps) \in Seq(Nat) /\ Head(ps) \in Nat /\ ToSet(ps) = {Head(ps)} \cup ToSet(Tail(ps))
    BY <1>1, ToSetOfTail
<1>3. first \in Seq(Nat) /\ ToSet(first) = {Head(ps)} /\ Len(first) = 1
    BY <1>2 DEF ToSet
<1> HIDE DEF first, ps
<1>4. /\ first \o Tail(branches) \in Seq(Nat)
      /\ ToSet(first \o Tail(branches)) = {Head(ps)} \cup ToSet(Tail(branches))
    <2>1. /\ first \o Tail(branches) \in Seq(Nat)
          /\ ToSet(first \o Tail(branches)) = ToSet(first) \cup ToSet(Tail(branches))
        <3> DEFINE t == Tail(branches)
        <3>1. first \in Seq(Nat) /\ t \in Seq(Nat)
            BY <1>1, <1>3
        <3> HIDE DEF t
        <3>2. first \o t \in Seq(Nat) /\ ToSet(first \o t) = ToSet(first) \cup ToSet(t)
            BY <3>1, ToSetOfConcat
        <3> QED BY <3>2 DEF t
    <2> QED BY <2>1, <1>3
<1>5. /\ (first \o Tail(branches)) \o Tail(ps) \in Seq(Nat)
      /\ ToSet((first \o Tail(branches)) \o Tail(ps))
           = {Head(ps)} \cup ToSet(Tail(branches)) \cup ToSet(Tail(ps))
    <2> DEFINE s == first \o Tail(branches)
    <2>1. s \in Seq(Nat) /\ Tail(ps) \in Seq(Nat)
        BY <1>2, <1>4 DEF ps
    <2> HIDE DEF s
    <2>2. s \o Tail(ps) \in Seq(Nat) /\ ToSet(s \o Tail(ps)) = ToSet(s) \cup ToSet(Tail(ps))
        <3> DEFINE t == Tail(ps)
        <3>1. s \in Seq(Nat) /\ t \in Seq(Nat)
            BY <2>1
        <3> HIDE DEF t
        <3>2. s \o t \in Seq(Nat) /\ ToSet(s \o t) = ToSet(s) \cup ToSet(t)
            BY <3>1, ToSetOfConcat
        <3> QED BY <3>2 DEF t
    <2> QED BY <2>2, <1>4 DEF s
<1>6. (first \o Tail(branches)) \o Tail(ps) # <<>>
    <2>1. ToSet(<<>>) = {}
        BY DEF ToSet
    <2> QED BY <2>1, <1>5
<1> QED BY <1>1, <1>2, <1>5, <1>6 DEF first, ps

\* What NextUnseen() leaves when the walk goes on, and what it ends with.
LEMMA NextUnseenOK ==
    ASSUME DagOK, WalkInv, walk = "generate", UNCHANGED <<parents, since>>,
           NEW nowSeen, NextUnseen(nowSeen),
           nowSeen \subseteq History, latest \in nowSeen \cup ToSet(Tail(branches)),
           \A x \in nowSeen : ToSet(parents[x]) \subseteq nowSeen \cup ToSet(Tail(branches))
    PROVE  WalkInv'
<1>1. /\ latest \in Revisions /\ Tail(branches) \in Seq(Nat)
      /\ ToSet(Tail(branches)) \subseteq History
    BY PositionFacts
<1>2. Revisions' = Revisions /\ Graph' = Graph
    BY DEF Revisions, Graph
<1>3. CountsTyped /\ SnapshotsOK
    BY DEF WalkInv
<1>4. CASE Tail(branches) = <<>>
    <2>1. snapshots' = [snapshots EXCEPT ![latest] = nowSeen] /\ walk' = "no"
        BY <1>4 DEF NextUnseen, EndWalk
    <2>2. ToSet(Tail(branches)) = {}
        BY <1>4 DEF ToSet
    <2>3. nowSeen = History
        BY <1>1, <2>2, ReachesAll
    <2>4. Len(snapshots) = Len(parents) /\ snapshots \in Seq(SUBSET Nat) /\ Len(parents) \in Nat
        BY <1>3 DEF CountsTyped
    <2>5. History \subseteq Nat
        BY <1>1, HistoryFacts
    <2>6. /\ snapshots' \in Seq(SUBSET Nat) /\ Len(snapshots') = Len(snapshots)
          /\ \A r \in Revisions : snapshots'[r] = IF r = latest THEN History ELSE snapshots[r]
        BY <2>1, <2>3, <2>4, <2>5, <1>1 DEF Revisions
    <2>7. CountsTyped'
        BY <1>3, <2>6 DEF CountsTyped
    <2>8. since[latest] = 0
        BY DEF WalkInv, WalkOK
    <2> QED BY <1>2, <1>3, <2>1, <2>6, <2>7, <2>8 DEF WalkInv, SnapshotsOK, WalkOK, History
<1>5. CASE Tail(branches) # <<>>
    <2>1. /\ branches' = Tail(branches) /\ seen' = nowSeen
          /\ UNCHANGED <<snapshots, walk, latest>>
        BY <1>5 DEF NextUnseen
    <2>2. CountsTyped' /\ SnapshotsOK'
        BY <1>2, <1>3, <2>1 DEF CountsTyped, SnapshotsOK
    <2>3. History' = History /\ Reaches(seen)'
        BY <1>2, <2>1 DEF History, Reaches
    <2> QED BY <1>1, <1>2, <1>5, <2>1, <2>2, <2>3 DEF WalkInv, WalkOK
<1> QED BY <1>4, <1>5

LEMMA UseSnapshotKeepsInv ==
    ASSUME DagOK, WalkInv, UseSnapshot
    PROVE  WalkInv'
<1>1. walk = "generate" /\ UNCHANGED <<parents, since>>
    BY DEF UseSnapshot, workspaceVars
<1>2. /\ latest \in Revisions /\ Position \in History
      /\ ToSet(branches) = {Position} \cup ToSet(Tail(branches))
    BY <1>1, PositionFacts
<1>3. snapshots[Position] = Ancestors(Graph, Position)
    BY <1>2, HistoryFacts DEF UseSnapshot, WalkInv, SnapshotsOK
<1> DEFINE nowSeen == seen \cup snapshots[Position]
<1>4. Reaches(seen)
    BY <1>1 DEF WalkInv, WalkOK
<1>5. nowSeen \subseteq History
    BY <1>2, <1>3, <1>4, HistoryFacts DEF Reaches
<1>6. latest \in nowSeen \cup ToSet(Tail(branches))
    BY <1>2, <1>4 DEF UseSnapshot, Reaches
<1>7. ASSUME NEW x \in nowSeen
      PROVE  ToSet(parents[x]) \subseteq nowSeen \cup ToSet(Tail(branches))
    <2>1. CASE x \in seen
        BY <2>1, <1>2, <1>3, <1>4, HistoryFacts DEF Reaches
    <2>2. CASE x \in snapshots[Position]
        BY <2>2, <1>2, <1>3, HistoryFacts
    <2> QED BY <2>1, <2>2
<1>8. NextUnseen(nowSeen)
    BY DEF UseSnapshot
<1> HIDE DEF nowSeen
<1> QED BY <1>1, <1>5, <1>6, <1>7, <1>8, NextUnseenOK

LEMMA VisitParentsKeepsInv ==
    ASSUME DagOK, WalkInv, VisitParents
    PROVE  WalkInv'
<1>1. walk = "generate" /\ UNCHANGED <<parents, since>>
    BY DEF VisitParents, workspaceVars
<1>2. /\ latest \in Revisions /\ Position \in History
      /\ ToSet(branches) = {Position} \cup ToSet(Tail(branches))
      /\ ToSet(parents[Position]) \subseteq History
    BY <1>1, PositionFacts, HistoryFacts
<1> DEFINE nowSeen == seen \cup {Position}
           ps == parents[Position]
<1>3. Reaches(seen) /\ since[latest] = 0
    BY <1>1 DEF WalkInv, WalkOK
<1>4. nowSeen \subseteq History
    BY <1>2, <1>3 DEF Reaches
<1>5. latest \in nowSeen \cup ToSet(Tail(branches))
    BY <1>2, <1>3 DEF Reaches
<1>6. CASE (Position \in seen /\ isUnseen) \/ ToSet(parents[Position]) \subseteq nowSeen
    <2>1. \A x \in nowSeen : ToSet(parents[x]) \subseteq nowSeen \cup ToSet(Tail(branches))
        BY <1>2, <1>3, <1>6 DEF Reaches
    <2>2. NextUnseen(nowSeen)
        BY <1>6 DEF VisitParents
    <2> HIDE DEF nowSeen
    <2> QED BY <1>1, <1>4, <1>5, <2>1, <2>2, NextUnseenOK
<1>7. CASE ~((Position \in seen /\ isUnseen) \/ ToSet(parents[Position]) \subseteq nowSeen)
    <2>1. /\ branches' = <<Head(ps)>> \o Tail(branches) \o Tail(ps)
          /\ seen' = nowSeen
          /\ UNCHANGED <<snapshots, walk, latest>>
        BY <1>7 DEF VisitParents
    <2>2. ps # <<>>
        <3>1. ToSet(<<>>) = {}
            BY DEF ToSet
        <3> QED BY <3>1, <1>7
    <2>3. /\ branches' \in Seq(Nat) /\ branches' # <<>>
          /\ ToSet(branches') = ToSet(ps) \cup ToSet(Tail(branches))
          /\ ToSet(branches') \subseteq History
        BY <2>1, <2>2, <1>1, ParentsInstead
    <2>4. Revisions' = Revisions /\ Graph' = Graph /\ History' = History
        BY <1>1, <2>1 DEF Revisions, Graph, History
    <2>5. \A x \in nowSeen : ToSet(parents[x]) \subseteq nowSeen \cup ToSet(branches')
        BY <1>2, <1>3, <2>3 DEF Reaches
    <2>6. Reaches(seen)'
        BY <1>1, <1>4, <1>5, <2>1, <2>3, <2>4, <2>5 DEF Reaches
    <2>7. CountsTyped' /\ SnapshotsOK'
        BY <1>1, <2>1, <2>4 DEF WalkInv, CountsTyped, SnapshotsOK
    <2> QED BY <1>1, <1>2, <1>3, <2>1, <2>3, <2>4, <2>6, <2>7 DEF WalkInv, WalkOK
<1> QED BY <1>6, <1>7

\* The same for the other walk.
LEMMA GoToOK ==
    ASSUME DagOK, WalkInv, walk = "collect", NEW rest \in Seq(Nat), GoTo(rest),
           ToSet(rest) \subseteq History, seen' \subseteq collected', collected' \subseteq History,
           latest \in collected' \cup ToSet(rest),
           \A x \in collected' : ToSet(parents[x]) \subseteq collected' \cup ToSet(rest)
    PROVE  WalkInv'
<1>1. /\ branches' = rest /\ walk' = IF rest = <<>> THEN "collected" ELSE "collect"
      /\ UNCHANGED <<parents, since, snapshots, latest>>
    BY DEF GoTo, workspaceVars
<1>2. Revisions' = Revisions /\ Graph' = Graph /\ History' = History
    BY <1>1 DEF Revisions, Graph, History
<1>3. CountsTyped' /\ SnapshotsOK'
    BY <1>1, <1>2 DEF WalkInv, CountsTyped, SnapshotsOK
<1>4. latest \in Revisions
    BY DEF WalkInv, WalkOK
<1>5. Reaches(collected)'
    BY <1>1, <1>2 DEF Reaches
<1>6. walk' = "collected" => collected' = History
    <2> SUFFICES ASSUME rest = <<>>
                 PROVE  collected' = History
        BY <1>1
    <2>1. ToSet(rest) = {}
        BY DEF ToSet
    <2> QED BY <2>1, <1>4, ReachesAll
<1> QED BY <1>1, <1>2, <1>3, <1>4, <1>5, <1>6 DEF WalkInv, WalkOK

LEMMA CollectingKeepsInv ==
    ASSUME DagOK, WalkInv, CloseKnownBranch \/ CollectSnapshot \/ CollectEntry
    PROVE  WalkInv'
<1>1. walk = "collect"
    BY DEF CloseKnownBranch, CollectSnapshot, CollectEntry
<1>2. /\ latest \in Revisions /\ Position \in History /\ Tail(branches) \in Seq(Nat)
      /\ ToSet(branches) = {Position} \cup ToSet(Tail(branches))
      /\ ToSet(Tail(branches)) \subseteq History
      /\ ToSet(parents[Position]) \subseteq History
      /\ Position \in Revisions
    BY <1>1, PositionFacts, HistoryFacts
<1>3. Reaches(collected) /\ seen \subseteq collected
    BY <1>1 DEF WalkInv, WalkOK
<1>4. CASE CloseKnownBranch
    <2>1. /\ Position \in collected /\ seen' = seen /\ collected' = collected
          /\ GoTo(Tail(branches))
        BY <1>3, <1>4 DEF CloseKnownBranch, BeenHere
    <2>2. /\ collected \subseteq History /\ latest \in collected \cup ToSet(Tail(branches))
          /\ \A x \in collected : ToSet(parents[x]) \subseteq collected \cup ToSet(Tail(branches))
        BY <1>2, <1>3, <2>1 DEF Reaches
    <2> QED BY <1>1, <1>2, <1>3, <2>1, <2>2, GoToOK
<1>5. CASE CollectSnapshot
    <2>1. /\ since[Position] = 0 /\ seen' = seen \cup {Position}
          /\ collected' = collected \cup snapshots[Position]
          /\ GoTo(Tail(branches))
        BY <1>5 DEF CollectSnapshot
    <2>2. snapshots[Position] = Ancestors(Graph, Position)
        BY <1>1, <1>2, <2>1 DEF WalkInv, SnapshotsOK
    <2>3. Position \in snapshots[Position] /\ snapshots[Position] \subseteq History
        BY <1>2, <2>2, HistoryFacts
    <2>4. \A x \in collected' : ToSet(parents[x]) \subseteq collected' \cup ToSet(Tail(branches))
        <3> SUFFICES ASSUME NEW x \in collected'
                     PROVE  ToSet(parents[x]) \subseteq collected' \cup ToSet(Tail(branches))
            OBVIOUS
        <3>1. CASE x \in collected
            BY <3>1, <1>2, <1>3, <2>1, <2>3 DEF Reaches
        <3>2. CASE x \in snapshots[Position]
            BY <3>2, <1>2, <2>1, <2>2, HistoryFacts
        <3> QED BY <3>1, <3>2, <2>1
    <2>5. collected' \subseteq History /\ latest \in collected' \cup ToSet(Tail(branches))
        BY <1>2, <1>3, <2>1, <2>3 DEF Reaches
    <2>6. seen' \subseteq collected'
        BY <1>3, <2>1, <2>3
    <2> QED BY <1>1, <1>2, <2>1, <2>4, <2>5, <2>6, GoToOK
<1>6. CASE CollectEntry
    <2> DEFINE ps == parents[Position]
               rest == IF ps = <<>> THEN Tail(branches)
                                    ELSE <<Head(ps)>> \o Tail(branches) \o Tail(ps)
    <2>1. /\ seen' = seen \cup {Position} /\ collected' = collected \cup {Position}
          /\ GoTo(rest)
        BY <1>6 DEF CollectEntry
    <2>2. /\ rest \in Seq(Nat)
          /\ ToSet(rest) = ToSet(ps) \cup ToSet(Tail(branches))
          /\ ToSet(rest) \subseteq History
        <3>1. CASE ps = <<>>
            <4>1. ToSet(ps) = {}
                BY <3>1 DEF ToSet
            <4> QED BY <3>1, <4>1, <1>2
        <3>2. CASE ps # <<>>
            BY <3>2, <1>1, ParentsInstead
        <3> QED BY <3>1, <3>2
    <2> HIDE DEF rest
    <2>3. \A x \in collected' : ToSet(parents[x]) \subseteq collected' \cup ToSet(rest)
        BY <1>2, <1>3, <2>1, <2>2 DEF Reaches
    <2>4. collected' \subseteq History /\ latest \in collected' \cup ToSet(rest)
        BY <1>2, <1>3, <2>1, <2>2 DEF Reaches
    <2>5. seen' \subseteq collected'
        BY <1>3, <2>1
    <2> QED BY <1>1, <2>1, <2>2, <2>3, <2>4, <2>5, GoToOK
<1> QED BY <1>4, <1>5, <1>6

\* Where a walk starts, all is still to come.
LEMMA StartWalkOK ==
    ASSUME DagOK', CountsTyped', NEW kind \in {"generate", "collect"}, NEW r, r \in Revisions',
           StartWalk(kind, r), kind = "generate" => since'[r] = 0
    PROVE  WalkOK'
<1>1. /\ walk' = kind /\ latest' = r /\ branches' = <<r>>
      /\ seen' = {} /\ collected' = {}
    BY DEF StartWalk
<1>2. Len(parents') \in Nat
    BY DEF DagOK
<1>3. r \in Nat \ {0}
    BY <1>2 DEF Revisions
<1>4. <<r>> \in Seq(Nat) /\ ToSet(<<r>>) = {r} /\ <<r>> # <<>>
    BY <1>3 DEF ToSet
<1>5. \A es : r \in Ancestors(es, r)
    BY <1>3, AncestorsReflexive
<1>6. r \in History'
    BY <1>1, <1>5 DEF History
<1> QED BY <1>1, <1>4, <1>6 DEF WalkOK, Reaches

LEMMA CountIsNat ==
    ASSUME CountsTyped, NEW ps \in Seq(Nat), ToSet(ps) \subseteq Revisions
    PROVE  SinceSnapshot(ps) \in Nat
<1>1. /\ since \in Seq(Nat) /\ Len(since) = Len(parents)
      /\ \A r \in Revisions : since[r] \in Nat
    BY DEF CountsTyped, Revisions
<1>2. \A i \in 1..Len(ps) : since[ps[i]] \in Nat
    BY <1>1, ToSetOfSeq
<1>3. ps # <<>> => since[ps[1]] \in Nat
    <2>1. ps # <<>> => 1 \in 1..Len(ps)
        OBVIOUS
    <2> QED BY <2>1, <1>2
<1>4. Len(ps) = 2 => since[ps[2]] \in Nat
    BY <1>2
<1> QED BY <1>3, <1>4 DEF SinceSnapshot

LEMMA ExtendKeepsInv ==
    ASSUME DagOK, WalkInv, Extend
    PROVE  WalkInv'
<1>1. /\ walk = "no" /\ Grow
      /\ since' = Append(since, SinceSnapshot(Last(parents')))
      /\ snapshots' = Append(snapshots, NoSnapshot)
      /\ IF Last(since') = 0 THEN StartWalk("generate", Len(parents')) ELSE UNCHANGED walkVars
    BY DEF Extend
<1> DEFINE n == Len(parents)
<1>2. /\ DagOK' /\ parents \in Seq(Seq(Nat)) /\ n \in Nat
      /\ CountsTyped /\ SnapshotsOK
    BY <1>1, GrowKeepsDag DEF DagOK, WalkInv
<1>3. PICK ps \in Seq(Nat) : parents' = Append(parents, ps) /\ ToSet(ps) \subseteq Revisions
    BY <1>1, GrowKeepsDag
<1>4. /\ Len(parents') = n + 1 /\ parents'[n + 1] = ps
      /\ \A r \in 1..n : parents'[r] = parents[r]
    BY <1>2, <1>3
<1>5. Last(parents') = ps
    BY <1>4 DEF Last
<1> DEFINE count == SinceSnapshot(ps)
<1>6. count \in Nat
    BY <1>2, <1>3, CountIsNat
<1> HIDE DEF count
<1>7. /\ since' = Append(since, count) /\ since' \in Seq(Nat) /\ Len(since') = n + 1
      /\ since'[n + 1] = count /\ \A r \in 1..n : since'[r] = since[r]
    BY <1>1, <1>2, <1>5, <1>6 DEF CountsTyped, count
<1>8. Last(since') = count
    BY <1>7 DEF Last
<1>9. /\ snapshots' \in Seq(SUBSET Nat) /\ Len(snapshots') = n + 1
      /\ snapshots'[n + 1] = {} /\ \A r \in 1..n : snapshots'[r] = snapshots[r]
    <2>1. snapshots \in Seq(SUBSET Nat) /\ {} \in SUBSET Nat /\ Len(snapshots) = n
        BY <1>2 DEF CountsTyped
    <2>2. snapshots' = Append(snapshots, {})
        BY <1>1 DEF NoSnapshot
    <2> QED BY <2>1, <2>2, <1>2
<1>10. CountsTyped'
    BY <1>4, <1>7, <1>9 DEF CountsTyped
<1>11. \A r \in 1..n : Ancestors(Graph', r) = Ancestors(Graph, r)
    <2> DEFINE e == [parents |-> ToSet(ps)]
    <2>1. Len(Graph) = n /\ Graph \in Seq([parents : SUBSET Nat])
        <3>1. \A r \in 1..n : ToSet(parents[r]) \subseteq Nat
            BY <1>2, ToSetOfSeq
        <3>2. Graph = [r \in 1..n |-> [parents |-> ToSet(parents[r])]]
            BY DEF Graph, Revisions
        <3> QED BY <3>1, <3>2, <1>2
    <2>2. Graph' = [r \in 1..(n + 1) |-> [parents |-> ToSet(parents'[r])]]
        BY <1>4 DEF Graph, Revisions
    <2>3. \A r \in 1..(n + 1) : Graph'[r] = IF r <= n THEN Graph[r] ELSE e
        <3> SUFFICES ASSUME NEW r \in 1..(n + 1)
                     PROVE  Graph'[r] = IF r <= n THEN Graph[r] ELSE e
            OBVIOUS
        <3>1. CASE r <= n
            BY <3>1, <2>2, <1>4 DEF Graph, Revisions
        <3>2. CASE ~(r <= n)
            <4>1. r = n + 1
                BY <3>2, <1>2
            <4> QED BY <4>1, <3>2, <2>2, <1>4
        <3> QED BY <3>1, <3>2
    <2> HIDE DEF e
    <2>4. Graph' = Append(Graph, e)
        <3>1. DOMAIN Graph' = 1..(n + 1)
            BY <2>2
        <3>2. Append(Graph, e) = [r \in 1..(n + 1) |-> IF r <= n THEN Graph[r] ELSE e]
            <4>1. ToSet(ps) \in SUBSET Nat
                BY ToSetOfSeq
            <4>2. e \in [parents : SUBSET Nat]
                BY <4>1 DEF e
            <4>3. /\ Append(Graph, e) \in Seq([parents : SUBSET Nat])
                  /\ Len(Append(Graph, e)) = n + 1
                  /\ \A r \in 1..(n + 1) : Append(Graph, e)[r] = IF r <= n THEN Graph[r] ELSE e
                BY <2>1, <4>2, <1>2
            <4> DEFINE A == Append(Graph, e)
                       T == [parents : SUBSET Nat]
            <4>4. A \in Seq(T) /\ Len(A) = n + 1
                BY <4>3
            <4> HIDE DEF A, T
            <4>5. A \in [1..Len(A) -> T]
                BY <4>4
            <4>6. A = [r \in 1..(n + 1) |-> A[r]]
                BY <4>4, <4>5
            <4> QED BY <4>3, <4>6 DEF A
        <3>3. Graph' = [r \in 1..(n + 1) |-> IF r <= n THEN Graph[r] ELSE e]
            BY <2>2, <2>3
        <3> QED BY <3>2, <3>3
    <2> QED BY <2>1, <2>4, AppendKeepsAncestors
<1>12. \A r \in Revisions' : r \in 1..n \/ r = n + 1
    BY <1>2, <1>4 DEF Revisions
<1>13. n + 1 \in Revisions' /\ n + 1 \notin Revisions /\ \A r \in Revisions : r # n + 1
    BY <1>2, <1>4 DEF Revisions
<1>14. CASE count = 0
    <2>1. StartWalk("generate", n + 1)
        BY <1>1, <1>4, <1>8, <1>14
    <2>2. walk' = "generate" /\ latest' = n + 1
        BY <2>1 DEF StartWalk
    <2>3. WalkOK'
        BY <2>1, <1>2, <1>7, <1>10, <1>13, <1>14, StartWalkOK
    <2>4. SnapshotsOK'
        BY <2>2, <1>1, <1>2, <1>7, <1>9, <1>11, <1>12, <1>13 DEF SnapshotsOK, Revisions
    <2> QED BY <2>2, <2>3, <2>4, <1>10 DEF WalkInv
<1>15. CASE count # 0
    <2>1. walk' = "no"
        BY <1>1, <1>8, <1>15 DEF walkVars
    <2>2. SnapshotsOK'
        BY <2>1, <1>1, <1>2, <1>7, <1>9, <1>11, <1>12, <1>15 DEF SnapshotsOK, Revisions
    <2> QED BY <2>1, <2>2, <1>10 DEF WalkInv, WalkOK
<1> QED BY <1>14, <1>15

LEMMA WalkStepKeepsInv ==
    ASSUME DagOK, WalkInv, [SnapshotNext]_snapshotVars
    PROVE  WalkInv'
<1>1. CASE Extend
    BY <1>1, ExtendKeepsInv
<1>2. CASE UseSnapshot
    BY <1>2, UseSnapshotKeepsInv
<1>3. CASE VisitParents
    BY <1>3, VisitParentsKeepsInv
<1>4. CASE StartCollecting
    <2>1. PICK r \in Revisions : StartWalk("collect", r)
        BY <1>4 DEF StartCollecting
    <2>2. /\ UNCHANGED <<parents, since, snapshots>> /\ Revisions' = Revisions /\ Graph' = Graph
          /\ walk = "no" /\ walk' = "collect"
        BY <2>1, <1>4 DEF StartCollecting, StartWalk, workspaceVars, Revisions, Graph
    <2>3. DagOK' /\ CountsTyped' /\ SnapshotsOK'
        BY <2>2 DEF DagOK, WalkInv, CountsTyped, SnapshotsOK
    <2>4. WalkOK'
        BY <2>1, <2>2, <2>3, StartWalkOK
    <2> QED BY <2>2, <2>3, <2>4 DEF WalkInv
<1>5. CASE CloseKnownBranch \/ CollectSnapshot \/ CollectEntry
    BY <1>5, CollectingKeepsInv
<1>6. CASE (walk = "no" /\ BuildDiffs /\ UNCHANGED <<since, snapshots, walkVars>>)
           \/ UNCHANGED snapshotVars
    <2>1. UNCHANGED <<parents, since, snapshots, walk, latest, branches, seen, collected>>
        BY <1>6 DEF snapshotVars, workspaceVars, walkVars, BuildDiffs, Pull, CloseBranch, Meet,
                    ReachEnd, FollowParents, NextTurn, Sort, Explore, Decide
    <2>2. Revisions' = Revisions /\ Graph' = Graph /\ History' = History
        BY <2>1 DEF Revisions, Graph, History
    <2>3. /\ CountsTyped' /\ SnapshotsOK' /\ Reaches(seen)' = Reaches(seen)
          /\ Reaches(collected)' = Reaches(collected)
        BY <2>1, <2>2 DEF WalkInv, CountsTyped, SnapshotsOK, Reaches
    <2> QED BY <2>1, <2>2, <2>3 DEF WalkInv, WalkOK
<1> QED BY <1>1, <1>2, <1>3, <1>4, <1>5, <1>6 DEF SnapshotNext

\* Every snapshot is the whole history of its revision, and so is what render() shows, in
\* any DAG with any interval, wherever the walk finds snapshots and wherever it does not.
THEOREM WalksCollectHistory == SnapshotSpec => []CollectsHistory
<1>1. SnapshotInit => WalkInv
    <2> SUFFICES ASSUME SnapshotInit
                 PROVE  WalkInv
        OBVIOUS
    <2>1. walk = "no" /\ since = <<>> /\ snapshots = <<>> /\ parents = <<>>
        BY DEF SnapshotInit, NotWalking, WorkspaceInit
    <2>2. CountsTyped
        BY <2>1 DEF CountsTyped
    <2>3. SnapshotsOK
        BY <2>1 DEF SnapshotsOK, Revisions
    <2> QED BY <2>1, <2>2, <2>3 DEF WalkInv, WalkOK
<1>2. WorkspaceInv => DagOK
    BY DEF WorkspaceInv, BuildInv
<1>3. DagOK /\ WalkInv /\ [SnapshotNext]_snapshotVars => WalkInv'
    BY WalkStepKeepsInv
<1>4. WalkInv => CollectsHistory
    <2> SUFFICES ASSUME WalkInv
                 PROVE  CollectsHistory
        OBVIOUS
    <2>1. DOMAIN snapshots = Revisions
        BY DEF WalkInv, CountsTyped, Revisions
    <2>2. walk = "collected" => collected = Ancestors(Graph, latest)
        BY DEF WalkInv, WalkOK, History
    <2> QED BY <2>1, <2>2 DEF CollectsHistory, WalkInv, SnapshotsOK, NoSnapshot
<1> QED BY <1>1, <1>2, <1>3, <1>4, SnapshotsImplementWorkspace, WorkspaceInvariant, PTL
        DEF SnapshotSpec
=============================================================================
