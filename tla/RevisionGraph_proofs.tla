------------------------- MODULE RevisionGraph_proofs -------------------------
(***************************************************************************)
(* Facts about Ancestors, and about numbers, that the proofs about         *)
(* revisions and agents rest on.                                           *)
(***************************************************************************)
EXTENDS RevisionGraph, TLAPS, FiniteSetTheorems, WellFoundedInduction

\* Ancestors of a revision are that revision and older ones.
LEMMA AncestorsBounded ==
    ASSUME NEW es, NEW r \in Nat
    PROVE  Ancestors(es, r) \subseteq 1..r
BY DEF Ancestors

\* Every revision is its own ancestor, and no revision has none.
LEMMA AncestorsReflexive ==
    ASSUME NEW es, NEW r \in Nat \ {0}
    PROVE  r \in Ancestors(es, r)
BY DEF Ancestors, Closures

LEMMA NoRevisionNoAncestors ==
    ASSUME NEW es
    PROVE  Ancestors(es, 0) = {}
BY DEF Ancestors

\* The ancestors of a revision contain the parents of each of them.
LEMMA AncestorsClosed ==
    ASSUME NEW es, ParentsAreOlder(es), NEW r \in 0..Len(es), Len(es) \in Nat
    PROVE  ParentClosed(es, Ancestors(es, r))
<1> SUFFICES ASSUME NEW x \in Ancestors(es, r), NEW p \in es[x].parents
             PROVE  p \in Ancestors(es, r)
    BY DEF ParentClosed
<1>1. x \in 1..r /\ \A S \in Closures(es, r) : x \in S
    BY DEF Ancestors
<1>2. p \in 1..r
    BY <1>1 DEF ParentsAreOlder
<1>3. \A S \in Closures(es, r) : p \in S
    BY <1>1 DEF Closures, ParentClosed
<1> QED BY <1>2, <1>3 DEF Ancestors

\* They are the least such set: every parent-closed set around r contains them.
LEMMA AncestorsLeast ==
    ASSUME NEW es, ParentsAreOlder(es), Len(es) \in Nat,
           NEW r \in 1..Len(es), NEW S, r \in S, ParentClosed(es, S)
    PROVE  Ancestors(es, r) \subseteq S
<1> DEFINE T == S \cap (1..r)
<1>1. T \in SUBSET (1..r) /\ r \in T
    OBVIOUS
<1>2. ParentClosed(es, T)
    <2> SUFFICES ASSUME NEW x \in T, NEW p \in es[x].parents
                 PROVE  p \in T
        BY DEF ParentClosed
    <2>1. p \in S
        BY DEF ParentClosed
    <2>2. p \in 1..r
        BY DEF ParentsAreOlder
    <2> QED BY <2>1, <2>2
<1>3. T \in Closures(es, r)
    BY <1>1, <1>2 DEF Closures
<1> QED BY <1>3 DEF Ancestors

\* An ancestor's ancestors are ancestors.
LEMMA AncestorsTransitive ==
    ASSUME NEW es, ParentsAreOlder(es), Len(es) \in Nat,
           NEW r \in 0..Len(es), NEW x \in Ancestors(es, r)
    PROVE  Ancestors(es, x) \subseteq Ancestors(es, r)
<1>1. x \in 1..Len(es)
    BY AncestorsBounded
<1>2. ParentClosed(es, Ancestors(es, r))
    BY AncestorsClosed
<1> QED BY <1>1, <1>2, AncestorsLeast

\* A new entry changes nobody's ancestors.
LEMMA AppendKeepsAncestors ==
    ASSUME NEW E, NEW es \in Seq(E), NEW e, NEW r \in 0..Len(es)
    PROVE  Ancestors(Append(es, e), r) = Ancestors(es, r)
<1>1. \A x \in 1..r : Append(es, e)[x] = es[x]
    OBVIOUS
<1>2. Closures(Append(es, e), r) = Closures(es, r)
    BY <1>1 DEF Closures, ParentClosed
<1> QED BY <1>2 DEF Ancestors

\* A new entry with older parents keeps the graph acyclic.
LEMMA AppendKeepsParentsOlder ==
    ASSUME NEW E, NEW es \in Seq(E), NEW e, ParentsAreOlder(es),
           e.parents \subseteq 1..Len(es)
    PROVE  ParentsAreOlder(Append(es, e))
BY DEF ParentsAreOlder

\* The ancestors of a revision: itself and the ancestors of its parents.
LEMMA AncestorsUnfold ==
    ASSUME NEW es, ParentsAreOlder(es), Len(es) \in Nat, NEW r \in 1..Len(es)
    PROVE  Ancestors(es, r) = {r} \cup UNION {Ancestors(es, p) : p \in es[r].parents}
<1> DEFINE A == {r} \cup UNION {Ancestors(es, p) : p \in es[r].parents}
<1>1. \A p \in es[r].parents : p \in 1..Len(es)
    BY DEF ParentsAreOlder
<1>2. ParentClosed(es, A)
    <2> SUFFICES ASSUME NEW x \in A, NEW q \in es[x].parents
                 PROVE  q \in A
        BY DEF ParentClosed
    <2>1. CASE x = r
        BY <2>1, <1>1, AncestorsReflexive
    <2>2. CASE x # r
        <3>1. PICK p \in es[r].parents : x \in Ancestors(es, p)
            BY <2>2
        <3>2. ParentClosed(es, Ancestors(es, p))
            BY <3>1, <1>1, AncestorsClosed
        <3> QED BY <3>1, <3>2 DEF ParentClosed
    <2> QED BY <2>1, <2>2
<1>3. Ancestors(es, r) \subseteq A
    BY <1>2, AncestorsLeast
<1>4. r \in Ancestors(es, r) /\ ParentClosed(es, Ancestors(es, r))
    BY AncestorsReflexive, AncestorsClosed
<1>5. \A p \in es[r].parents : Ancestors(es, p) \subseteq Ancestors(es, r)
    BY <1>4, AncestorsTransitive DEF ParentClosed
<1> QED BY <1>3, <1>4, <1>5

\* The ancestors of a new entry, in terms of the graph it is added to.
LEMMA AncestorsOfNew ==
    ASSUME NEW E, NEW es \in Seq(E), NEW e \in E, ParentsAreOlder(es),
           e.parents \subseteq 1..Len(es)
    PROVE  Ancestors(Append(es, e), Len(es) + 1)
             = {Len(es) + 1} \cup UNION {Ancestors(es, p) : p \in e.parents}
<1> DEFINE n == Len(es) + 1
           fs == Append(es, e)
<1>1. Len(fs) = n /\ n \in 1..Len(fs) /\ Len(fs) \in Nat /\ fs[n] = e
    OBVIOUS
<1>2. ParentsAreOlder(fs)
    BY AppendKeepsParentsOlder
<1>3. \A p \in e.parents : Ancestors(fs, p) = Ancestors(es, p)
    BY AppendKeepsAncestors
<1> HIDE DEF n, fs
<1>4. Ancestors(fs, n) = {n} \cup UNION {Ancestors(fs, p) : p \in e.parents}
    BY <1>1, <1>2, AncestorsUnfold
<1> QED BY <1>3, <1>4 DEF n, fs

-----------------------------------------------------------------------------

\* Of some natural numbers there is a least, by the well-founded order of finite sets.
LEMMA LeastNat ==
    ASSUME NEW T \in SUBSET Nat, T # {}
    PROVE  \E x \in T : \A y \in T : x <= y
<1> DEFINE Initial == {0..x : x \in T}
           R == StrictSubsetOrdering(Nat)
<1>1. IsWellFoundedOn(R, FiniteSubsetsOf(Nat))
    BY FS_StrictSubsetOrderingWellFounded
<1>2. Initial \subseteq FiniteSubsetsOf(Nat)
    <2> SUFFICES ASSUME NEW x \in T
                 PROVE  0..x \in SUBSET Nat /\ IsFiniteSet(0..x)
        BY DEF FiniteSubsetsOf
    <2>1. 0 \in Int /\ x \in Int
        OBVIOUS
    <2>2. IsFiniteSet(0..x)
        BY <2>1, FS_Interval
    <2> QED BY <2>2
<1>3. Initial # {}
    OBVIOUS
<1> HIDE DEF Initial, R
<1>4. PICK X \in Initial : \A Y \in Initial : ~ (<<Y, X>> \in R)
    BY <1>1, <1>2, <1>3, WFMin
<1> USE DEF Initial
<1>5. PICK x \in T : X = 0..x
    OBVIOUS
<1>6. ASSUME NEW y \in T, y < x
      PROVE  FALSE
    <2>1. 0..y \in Initial
        OBVIOUS
    <2>2. 0..y \subseteq 0..x /\ 0..y # 0..x
        <3>1. x \in 0..x /\ x \notin 0..y
            BY <1>6
        <3> QED BY <3>1, <1>6
    <2>3. <<0..y, 0..x>> \in R
        BY <2>2 DEF R, StrictSubsetOrdering
    <2> QED BY <2>1, <2>3, <1>4, <1>5
<1> QED BY <1>6
=============================================================================
