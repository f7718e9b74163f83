---------------------------- MODULE ModelQueries ----------------------------
(* paginate() over the instances of an Ad4mModel class, page by page, while      *)
(* clients create instances and change them.  The links of LinkCommands are     *)
(* those of all instances here: a predicate stands for a source and a predicate.*)
EXTENDS LinkCommands

CONSTANTS
    Bases,          \* the expressions that may become instances
    FlagValue,      \* the value of the class's flag, its only required property
    Ratings,        \* values of its other property, which is optional
    PageSize,
    MaxWrites       \* bound on the writing requests

Flag(b) == <<b, "type">>
Rating(b) == <<b, "rating">>

ASSUME QueriesAssumption ==
    /\ PageSize \in Nat \ {0} /\ MaxWrites \in Nat
    /\ IsFiniteSet(Bases)
    /\ \A b \in Bases : {Flag(b), Rating(b)} \subseteq Predicates
    /\ Ratings \cup {FlagValue} \subseteq Targets

VARIABLES
    page,       \* the page the reader asks for next, 0 when it is not paging
    seen,       \* the instances on the pages it got
    expected,   \* those there were when it began
    disturbed,  \* an update() ran since, or before and what it left is not settled
    created,    \* the expressions that instances were made of
    writes      \* writing requests sent

readerVars == <<page, seen, expected, disturbed>>
queryVars == <<commandVars, readerVars, created, writes>>

QueryInit ==
    /\ CommandInit
    /\ page = 0
    /\ seen = {} /\ expected = {}
    /\ disturbed = FALSE
    /\ created = {}
    /\ writes = 0

-----------------------------------------------------------------------------
(* Writing clients *)

LinksOf(b) == {l \in links : l.predicate \in {Flag(b), Rating(b)}}

\* queryToSurrealQL(): the links of all required properties are there, a flag's with its value.
IsInstance(b) == \E l \in LinksOf(b) : l.predicate = Flag(b) /\ l.target = FlagValue

Instances == {b \in Bases : IsInstance(b)}

Single(action, predicate, target) ==
    [action |-> action, predicate |-> predicate, targets |-> {target}]

Write(c, cmds, m) ==
    /\ writes < MaxWrites
    /\ writes' = writes + 1
    /\ Request(c, cmds, m)

\* save() of a new instance: the constructor's flag and the value, in one batch.  The
\* expression is a random literal, so nobody else makes an instance of it.
Create(c, b, v) ==
    /\ b \notin created
    /\ created' = created \cup {b}
    /\ Write(c, <<Single("addLink", Flag(b), FlagValue), Single("setSingleTarget", Rating(b), v)>>,
             "batch")
    /\ UNCHANGED readerVars

\* setSingleTarget() of the perspective.
Rate(c, b, v) ==
    /\ IsInstance(b)
    /\ Write(c, <<Single("setSingleTarget", Rating(b), v)>>, "mutation")
    /\ UNCHANGED <<readerVars, created>>

\* update(): an instance that getData() has filled has its flag as a field like any other,
\* and writes it as well.
UpdateInstance(c, b, v) ==
    /\ IsInstance(b)
    /\ Write(c, <<Single("setSingleTarget", Flag(b), FlagValue),
                  Single("setSingleTarget", Rating(b), v)>>, "direct")
    /\ disturbed' = TRUE
    /\ UNCHANGED <<page, seen, expected, created>>

RunWrites(c) ==
    /\ Execute(c) \/ RequestDone(c) \/ \E pair \in additions[c] : AddLink(c, pair)
    /\ UNCHANGED <<readerVars, created, writes>>

-----------------------------------------------------------------------------
(* The reader *)

\* mutant: updatedAt
LatestTime(b) == CHOOSE t \in {l.time : l \in LinksOf(b)} : \A l \in LinksOf(b) : l.time <= t

\* createdAt: the time of the earliest link.
CreatedAt(b) == CHOOSE t \in {l.time : l \in LinksOf(b)} : \A l \in LinksOf(b) : t <= l.time

\* The default order, by createdAt.
Before(b) == {a \in Instances : CreatedAt(a) < CreatedAt(b)}

\* slice(offset, offset + limit) of the ordered instances.
OnPage(n) ==
    {b \in Instances : Cardinality(Before(b)) \in (PageSize * (n - 1))..(PageSize * n - 1)}

\* No request is under way, and every instance was created when its flag was: an update()
\* that ran before leaves no older link that a later write could remove.
Settled ==
    /\ \A c \in Clients : Idle(c)
    /\ \A b \in Instances : \E f \in Oldest(LinksOf(b)) : f.predicate = Flag(b)

BeginPaging ==
    /\ page = 0
    /\ page' = 1
    /\ seen' = {}
    /\ expected' = Instances
    /\ disturbed' = (disturbed /\ ~Settled)
    /\ UNCHANGED <<commandVars, created, writes>>

\* paginate(): one query.  The reader goes on until totalCount says that there is no more.
FetchPage ==
    /\ page > 0
    /\ seen' = seen \cup OnPage(page)
    /\ page' = IF PageSize * page < Cardinality(Instances) THEN page + 1 ELSE 0
    /\ UNCHANGED <<commandVars, expected, disturbed, created, writes>>

QueryNext ==
    \/ \E c \in Clients :
        \/ \E b \in Bases, v \in Ratings : Create(c, b, v) \/ Rate(c, b, v) \/ UpdateInstance(c, b, v)
        \/ RunWrites(c)
    \/ BeginPaging
    \/ FetchPage

QuerySpec == QueryInit /\ [][QueryNext]_queryVars

-----------------------------------------------------------------------------
(* Properties *)

\* The types of the reader's state.
QueryTypeOK ==
    /\ CommandTypeOK
    /\ page \in Nat
    /\ seen \subseteq Bases /\ expected \subseteq Bases
    /\ disturbed \in BOOLEAN
    /\ created \subseteq Bases
    /\ writes \in 0..MaxWrites

\* Who reads page after page while others create instances and set their values, however
\* signatures and stores overtake each other, sees every instance that was there when he
\* began.  (An update() writes the flag anew, and with it moves createdAt, then or later:
\* a rating it overtakes may become the oldest link, until the next write removes it.
\* And nobody deletes instances here: a delete() by another client would move those
\* behind it one place forward, past the reader's offset.)
PagingMissesNothing == (page = 0 /\ ~disturbed) => expected \subseteq seen
=============================================================================
