-------------------------- MODULE RevisionRecords --------------------------
(***************************************************************************)
(* The records of persistence/store.py and the questions the store asks    *)
(* of its two tables before it appends.                                    *)
(*                                                                         *)
(* A commit is flattened into the row it would insert: the class           *)
(* RevisionCommit requires the expected revision to be the predecessor of  *)
(* its candidate, so candidate and key determine the whole commit.  The    *)
(* schema, content identity and payload of a revision are one value        *)
(* (content); only its size and its equality matter to the store.          *)
(***************************************************************************)
EXTENDS Naturals

CONSTANTS Streams,      \* stream identities
          Revisions,    \* revision identities
          Contents,     \* payloads, with the schema they are written in
          Keys,         \* idempotency identities
          NoRevision    \* None: the predecessor of a first revision

ASSUME NoRevisionAssumption == NoRevision \notin Revisions

\* One commit, and the row of table revisions that it inserts.  A revision
\* cannot name itself as its predecessor.
RevisionCommit ==
    {x \in [stream      : Streams,
            revision    : Revisions,
            predecessor : Revisions \cup {NoRevision},
            content     : Contents,
            key         : Keys] : x.predecessor # x.revision}

CommitStatus == {"committed", "idempotent", "conflict", "indeterminate", "error"}

ReadStatus ==
    {"found", "absent", "incompatible", "corrupt", "indeterminate", "error"}

\* The rows of one stream.
RowsOf(rows, s) == {x \in rows : x.stream = s}

\* The row, if any, that already owns the idempotency identity of x.
KeyHolders(rows, x) == {y \in rows : y.key = x.key}

\* The key belongs to another envelope: diagnostic idempotency_collision.
KeyCollides(rows, x) == \E y \in KeyHolders(rows, x) : y # x

\* The head is not the expected revision: compare_and_append_conflict.
HeadMoved(heads, x) == heads[x.stream] # x.predecessor

\* The revision identity is used in the stream: revision_collision.
RevisionTaken(rows, x) == \E y \in RowsOf(rows, x.stream) : y.revision = x.revision

\* What commit() finds, in the order in which it looks.
ReplaysAtHead(rows, heads, x) == x \in rows /\ ~ HeadMoved(heads, x)   \* mutant

Replays(rows, heads, x) == x \in rows

Conflicts(rows, heads, x) ==
    /\ ~ Replays(rows, heads, x)
    /\ \/ KeyCollides(rows, x)
       \/ HeadMoved(heads, x)
       \/ RevisionTaken(rows, x)

AppendsUsedRevision(rows, heads, x) ==   \* mutant
    /\ KeyHolders(rows, x) = {}
    /\ ~ HeadMoved(heads, x)

AppendsUsedKey(rows, heads, x) ==   \* mutant
    /\ ~ HeadMoved(heads, x)
    /\ ~ RevisionTaken(rows, x)

Appends(rows, heads, x) ==
    /\ KeyHolders(rows, x) = {}
    /\ ~ HeadMoved(heads, x)
    /\ ~ RevisionTaken(rows, x)

-----------------------------------------------------------------------------
(* What it means for the two tables to hold histories.                     *)

\* A set of rows closed under "predecessor of" inside its stream.
ClosedUnderPredecessor(S, rows) ==
    \A x \in S : \A y \in RowsOf(rows, x.stream) :
        y.revision = x.predecessor => y \in S

\* Every walk along predecessors ends at a first revision: a closed set with
\* no first revision in it is empty, so there is no cycle.
ReachesGenesis(rows) ==
    \A S \in SUBSET rows :
        S # {} /\ ClosedUnderPredecessor(S, rows)
            => \E x \in S : x.predecessor = NoRevision

\* Two rows of a stream differ in identity and in predecessor: no revision is
\* stored twice and no revision, nor the beginning, has two successors.
NoFork(rows) ==
    \A x, y \in rows :
        /\ x.stream = y.stream
        /\ x.revision = y.revision \/ x.predecessor = y.predecessor
        => x = y

\* Every predecessor is retained in the same stream.
PredecessorsRetained(rows) ==
    \A x \in rows : x.predecessor # NoRevision
        => \E y \in RowsOf(rows, x.stream) : y.revision = x.predecessor

\* The head of a stream is a row nobody succeeds; no head, no rows.
HeadIsTip(rows, heads) ==
    \A s \in Streams :
        IF heads[s] = NoRevision
        THEN RowsOf(rows, s) = {}
        ELSE /\ \E x \in RowsOf(rows, s) : x.revision = heads[s]
             /\ \A x \in RowsOf(rows, s) : x.predecessor # heads[s]

\* Each stream is one chain from its first revision to its head.
OneChain(rows, heads) ==
    /\ NoFork(rows)
    /\ PredecessorsRetained(rows)
    /\ HeadIsTip(rows, heads)
    /\ ReachesGenesis(rows)

\* An idempotency identity, global to the store, owns at most one envelope.
KeyUnique(rows) == \A x, y \in rows : x.key = y.key => x = y
=============================================================================
