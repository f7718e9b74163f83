------------------------------ MODULE SocialDNA ------------------------------
(* How a class's shape or a flow gets into a perspective and is read from it:    *)
(* addShacl(), addFlow() and ensureSDNASubjectClass() store it link by link,     *)
(* getShacl() and getFlow() put it together from several queries.  All clients   *)
(* use the name of one class or flow, of which they may have different versions.*)
EXTENDS Naturals, FiniteSets, SequencesExt

CONSTANTS
    Apps,           \* the clients
    Elements,       \* the properties of a shape, or the states and transitions of a flow
    Version,        \* per client: the elements of its version, in their order
    MaxRestarts     \* bound on restarts of the executor

ASSUME VersionAssumption ==
    /\ MaxRestarts \in Nat
    /\ Version \in [Apps -> Seq(Elements)]

VARIABLES
    way,        \* how the clients add their versions
    stored,     \* the links: what one says, of which element, and whose addition it was
    adding,     \* per client: where its request is
    toStore,    \* per client: the links it has yet to store
    mutex,      \* sdna_change_mutex: who holds it, as a set
    reading,    \* per client: where its getShacl() or getFlow() is
    sources,    \* per client: the elements it queries the links of
    result,     \* per client: whether it found the name, and the elements it got complete
    restarts,
    torn        \* a restart ended an addition

adders == <<stored, adding, toStore, mutex>>
readers == <<reading, sources, result>>
dnaVars == <<way, adders, readers, restarts, torn>>

NothingRead == [found |-> FALSE, complete |-> {}]

DnaInit ==
    /\ way \in {"addShacl", "addSdna", "addFlow"}
    /\ stored = {}
    /\ adding = [a \in Apps |-> "no"]
    /\ toStore = [a \in Apps |-> <<>>]
    /\ mutex = {}
    /\ reading = [a \in Apps |-> "no"]
    /\ sources = [a \in Apps |-> {}]
    /\ result = [a \in Apps |-> NothingRead]
    /\ restarts = 0
    /\ torn = FALSE

-----------------------------------------------------------------------------
(* The links *)

Says(what) == <<[what |-> what, of |-> {}]>>

\* An element is linked from the shape or flow; its path and all the rest have it as source.
ElementLinks(e) ==
    [i \in 1..3 |-> [what |-> <<"element", "path", "rest">>[i], of |-> {e}]]

\* toLinks(): the type and the like, then one element after the other.
ToLinks(elements) ==
    Says("type") \o [i \in 1..(3 * Len(elements)) |->
                        ElementLinks(elements[((i - 1) \div 3) + 1])[((i - 1) % 3) + 1]]

\* parse_shacl_to_links() after the links of add_sdna() itself: here the name comes first.
SdnaLinks(elements) ==
    Says("has_subject_class") \o Says("sdna") \o Says("has_shacl") \o Says("uri")
        \o Says("class") \o ToLinks(elements)

\* mutant: the name comes first here as well
NameFirst(elements) == Says("has_shacl") \o Says("uri") \o ToLinks(elements)

\* addShacl() and addFlow(): the name by which they are found comes last.
NamedLinks(elements) == ToLinks(elements) \o Says("has_shacl") \o Says("uri")

LinksToAdd(a) == IF way = "addSdna" THEN SdnaLinks(Version[a]) ELSE NamedLinks(Version[a])

Stored(what, of) == \E l \in stored : l.what = what /\ l.of = of

Whole(e) == \A l \in ToSet(ElementLinks(e)) : Stored(l.what, l.of)

-----------------------------------------------------------------------------
(* Adding *)

Add(a) ==
    /\ adding[a] = "no"
    /\ adding' = [adding EXCEPT ![a] = IF way = "addSdna" THEN "waiting" ELSE "storing"]
    /\ toStore' = [toStore EXCEPT ![a] = IF way = "addSdna" THEN <<>> ELSE LinksToAdd(a)]
    /\ UNCHANGED <<way, stored, mutex, readers, restarts, torn>>

\* mutant: without sdna_change_mutex
GoAhead(a) ==
    /\ adding[a] = "waiting"
    /\ adding' = [adding EXCEPT ![a] = "checking"]
    /\ UNCHANGED <<way, stored, toStore, mutex, readers, restarts, torn>>

LockMutex(a) ==
    /\ adding[a] = "waiting"
    /\ mutex = {}
    /\ mutex' = {a}
    /\ adding' = [adding EXCEPT ![a] = "checking"]
    /\ UNCHANGED <<way, stored, toStore, readers, restarts, torn>>

\* add_sdna() has nothing to do if there is a class of that name.
CheckClass(a) ==
    /\ adding[a] = "checking"
    /\ adding' = [adding EXCEPT ![a] = "storing"]
    /\ toStore' = [toStore EXCEPT ![a] = IF Stored("class", {}) THEN <<>> ELSE LinksToAdd(a)]
    /\ UNCHANGED <<way, stored, mutex, readers, restarts, torn>>

\* persist_link_diff(): one link after the other.
StoreNext(a) ==
    /\ adding[a] = "storing"
    /\ toStore[a] # <<>>
    /\ stored' = stored \cup {[what |-> Head(toStore[a]).what, of |-> Head(toStore[a]).of, by |-> a]}
    /\ toStore' = [toStore EXCEPT ![a] = Tail(@)]
    /\ UNCHANGED <<way, adding, mutex, readers, restarts, torn>>

\* The request returns, and with it the guard of the mutex goes.
Added(a) ==
    /\ adding[a] = "storing"
    /\ toStore[a] = <<>>
    /\ adding' = [adding EXCEPT ![a] = "done"]
    /\ mutex' = mutex \ {a}
    /\ UNCHANGED <<way, stored, toStore, readers, restarts, torn>>

\* The executor restarts: requests under way end where they are.
Restart ==
    /\ restarts < MaxRestarts
    /\ restarts' = restarts + 1
    /\ torn' = (torn \/ \E a \in Apps : toStore[a] # <<>>)
    /\ adding' = [a \in Apps |-> IF adding[a] = "done" THEN "done" ELSE "no"]
    /\ toStore' = [a \in Apps |-> <<>>]
    /\ mutex' = {}
    /\ reading' = [a \in Apps |-> "no"]
    /\ sources' = [a \in Apps |-> {}]
    /\ UNCHANGED <<way, stored, result>>

-----------------------------------------------------------------------------
(* Reading *)

\* The first query looks for the name.
LookUp(a) ==
    /\ reading[a] = "no"
    /\ IF Stored("uri", {})
       THEN reading' = [reading EXCEPT ![a] = IF way = "addFlow" THEN "querying" ELSE "found"]
       ELSE UNCHANGED reading
    /\ sources' = [sources EXCEPT ![a] = IF way = "addFlow" THEN Elements ELSE {}]
    /\ result' = [result EXCEPT ![a] = NothingRead]
    /\ UNCHANGED <<way, adders, restarts, torn>>

\* getShacl() then asks for the properties; getFlow() goes by the prefix of their URIs.
ListElements(a) ==
    /\ reading[a] = "found"
    /\ reading' = [reading EXCEPT ![a] = "querying"]
    /\ sources' = [sources EXCEPT ![a] = {e \in Elements : Stored("element", {e})}]
    /\ UNCHANGED <<way, adders, result, restarts, torn>>

\* The last query gets all links of what was found, and fromLinks() puts them together.
QueryLinks(a) ==
    /\ reading[a] = "querying"
    /\ reading' = [reading EXCEPT ![a] = "no"]
    /\ sources' = [sources EXCEPT ![a] = {}]
    /\ result' = [result EXCEPT ![a] = [found |-> TRUE, complete |-> {e \in sources[a] : Whole(e)}]]
    /\ UNCHANGED <<way, adders, restarts, torn>>

DnaNext ==
    \/ \E a \in Apps :
        \/ Add(a) \/ LockMutex(a) \/ CheckClass(a) \/ StoreNext(a) \/ Added(a)
        \/ LookUp(a) \/ ListElements(a) \/ QueryLinks(a)
    \/ Restart

DnaSpec == DnaInit /\ [][DnaNext]_dnaVars

-----------------------------------------------------------------------------
(* Properties *)

\* The types of the requests' states.
DnaTypeOK ==
    /\ way \in {"addShacl", "addSdna", "addFlow"}
    /\ \A l \in stored : l.by \in Apps /\ l.of \subseteq Elements
    /\ adding \in [Apps -> {"no", "waiting", "checking", "storing", "done"}]
    /\ mutex \subseteq Apps
    /\ reading \in [Apps -> {"no", "found", "querying"}]
    /\ sources \in [Apps -> SUBSET Elements]
    /\ result \in [Apps -> [found : BOOLEAN, complete : SUBSET Elements]]
    /\ restarts \in 0..MaxRestarts
    /\ torn \in BOOLEAN

\* A shape or flow that getShacl() or getFlow() finds has all elements of some client's
\* version, with all that is said of them, although it is stored link by link, queried in
\* three steps, and an executor may stop in the middle of adding it.
FoundIsComplete ==
    way # "addSdna" =>
        \A a \in Apps : result[a].found =>
            \E b \in Apps : ToSet(Version[b]) \subseteq result[a].complete

\* However many clients call ensureSDNASubjectClass() at once, one version of the class is
\* added, and it is whole for each of them when the call returns.
AddedOnceAndWhole ==
    (way = "addSdna" /\ ~torn) =>
        /\ \A k, l \in stored : k.by = l.by
        /\ \A a \in Apps : adding[a] = "done" =>
               \E b \in Apps : \A i \in DOMAIN SdnaLinks(Version[b]) :
                   LET l == SdnaLinks(Version[b])[i] IN Stored(l.what, l.of)
=============================================================================
