------------------------------ MODULE CommitCall ------------------------------
(***************************************************************************)
(* commit() as a call that takes its time: it reads the current revision,  *)
(* stores and verifies its chunks, builds a snapshot, and only then moves  *)
(* the revision.  Meanwhile the agent's other calls, above all             *)
(* handle_broadcast(), which waits for no mutex, may move it first.  That  *)
(* Holochain also refuses a call when the chain head has moved can only    *)
(* abort more of them.                                                     *)
(***************************************************************************)
EXTENDS PerspectiveDiffSync

VARIABLES
    committing, \* the agents with a commit() under way
    initial     \* initial[a]: initial_current_revision of a's call, NoRevision if none is

callVars == <<vars, committing, initial>>

CallInit ==
    /\ Init
    /\ committing = {}
    /\ initial = [a \in Agents |-> NoRevision]

\* The current revision is read, and its entry for diffs_since_snapshot.
CallCommit(a) ==
    /\ a \notin committing
    /\ current[a] # NoRevision => CurrentRetrievable(a)
    /\ committing' = committing \cup {a}
    /\ initial' = [initial EXCEPT ![a] = current[a]]
    /\ UNCHANGED vars

\* Its local variables end with it.
EndCall(a) ==
    /\ committing' = committing \ {a}
    /\ initial' = [initial EXCEPT ![a] = NoRevision]

SameOrFirst(a) == initial[a] = current[a] \/ initial[a] = NoRevision \* mutant: None is not compared

NotOvertaken(a) == initial[a] = current[a]

\* The entry goes on top of the revision read at the beginning, and is broadcast.
FinishCommit(a, chunked) ==
    /\ a \in committing
    /\ NotOvertaken(a)
    /\ Len(entries) < MaxEntries
    /\ chunked => Cardinality({r \in Revisions : entries[r].chunked}) < MaxChunked
    /\ CreateAndMoveTo(a, [author  |-> a,
                           parents |-> {initial[a]} \ {NoRevision},
                           diff    |-> TRUE,
                           chunked |-> chunked])
    /\ chunks' = IF chunked THEN [chunks EXCEPT ![a] = @ \cup {Len(entries) + 1}] ELSE chunks
    /\ sent' = sent \cup {<<a, Len(entries) + 1>>}
    /\ EndCall(a)
    /\ UNCHANGED signals

\* "Concurrent update detected", or a chunk that could not be verified in ten retries:
\* nothing that the call has created is kept.
AbortCommit(a) ==
    /\ a \in committing
    /\ EndCall(a)
    /\ UNCHANGED vars

OtherCalls ==
    /\ \E a \in Agents :
        \/ BroadcastCurrent(a)
        \/ \E m \in sent : HandleBroadcast(a, m[1], m[2])
        \/ \E m \in sent, is_scribe \in BOOLEAN : Pull(a, m[2], is_scribe)
        \/ \E r \in Revisions : FetchChunks(a, r) \/ Integrate(a, r)
    /\ UNCHANGED <<committing, initial>>

CallNext ==
    \/ \E a \in Agents :
        \/ CallCommit(a)
        \/ \E chunked \in BOOLEAN : FinishCommit(a, chunked)
        \/ AbortCommit(a)
    \/ OtherCalls

CallSpec == CallInit /\ [][CallNext]_callVars

-----------------------------------------------------------------------------

\* A commit() that other calls of its agent overlap either fails without a trace or
\* looks like one step at its end: its entry is never put beside a revision that a
\* signal, a pull or a merge has made current meanwhile, and what it needed to retrieve
\* at its beginning it still can.  So PerspectiveDiffSync may take it for one step.
CommitsInOneStep == Spec
=============================================================================
