------------------------ MODULE SQLiteRevisionStore ------------------------
(***************************************************************************)
(* persistence/sqlite.py: the revision store over one SQLite file.         *)
(*                                                                         *)
(* A call of commit() or read() moves through the phases the code names:   *)
(*   open         the path is checked and a connection is opened           *)
(*   prepare      the schema is created or compared, in a transaction      *)
(*   compare      waits for BEGIN IMMEDIATE                                *)
(*   decide       (still "compare" in the code) owns the write lock        *)
(*   acknowledge  the row and the head are written, COMMIT is next         *)
(*   observe      the deferred transaction of a read                       *)
(* Calls of several processes interleave between the phases.  SQLite       *)
(* itself is external: a write lock with one owner, transactions that      *)
(* apply wholly or not at all, and failures at any statement.  The UNIQUE, *)
(* PRIMARY KEY and FOREIGN KEY constraints of the schema are left out:     *)
(* they repeat what the checks made under the write lock establish, and    *)
(* the properties hold of the checks alone.                                *)
(***************************************************************************)
EXTENDS RevisionRecords, FiniteSets

CONSTANTS Clients,    \* callers, in as many processes; one call each
          Commits,    \* the commits the callers may request
          Reads,      \* the reads they may request
          Limit,      \* max_payload_bytes of the store each client opened
          Size,       \* the payload bytes of each content
          MaxDamage,  \* bound: how many rows the environment may damage
          None        \* no input, no result, no row, no lock owner

ASSUME StoreAssumption ==
    /\ Commits \subseteq RevisionCommit
    /\ Reads \subseteq [stream : Streams, selector : Revisions \cup {"latest"}]
    /\ Commits \cap Reads = {}
    /\ None \notin Commits \cup Reads \cup Clients
    /\ Limit \in [Clients -> Nat]
    /\ Size \in [Contents -> Nat]
    /\ MaxDamage \in Nat

VARIABLES format,     \* the schema found in the file
          rows,       \* table revisions
          heads,      \* table heads
          damaged,    \* rows whose envelope digest no longer matches
          lock,       \* the owner of SQLite's write lock
          calls,      \* the open call of each client
          acked       \* commits some caller was told are retained

vars == <<format, rows, heads, damaged, lock, calls, acked>>
file == <<format, rows, heads, damaged>>

CommitPhases == {"open", "prepare", "compare", "decide", "acknowledge"}
ReadPhases   == {"open", "prepare", "observe"}

\* The phases in which a call owns the write lock.
Transaction == {"decide", "acknowledge"}

-----------------------------------------------------------------------------
(* Results.                                                                *)

Idle == [phase |-> "idle", input |-> None, result |-> None]

Running(c, phases, inputs) ==
    calls[c].phase \in phases /\ calls[c].input \in inputs

MoveTo(c, phase) == calls' = [calls EXCEPT ![c].phase = phase]

Return(c, status, row) ==
    calls' = [calls EXCEPT ![c] =
                [phase  |-> "done",
                 input  |-> calls[c].input,
                 result |-> [status |-> status, revision |-> row]]]

\* The finally clause: roll back an open transaction, close the connection.
Release(c) == lock' = IF lock = c THEN None ELSE lock

\* _revision_from_row refuses a row over this store's payload limit or with
\* another digest.
DecodesAnyDigest(c, x) == Size[x.content] <= Limit[c]   \* mutant

Decodes(c, x) == Size[x.content] <= Limit[c] /\ x \notin damaged

-----------------------------------------------------------------------------
(* The file may be new or already hold another program's tables.           *)
Init ==
    /\ format \in {"empty", "current", "foreign"}
    /\ rows = {}
    /\ heads = [s \in Streams |-> NoRevision]
    /\ damaged = {}
    /\ lock = None
    /\ calls = [c \in Clients |-> Idle]
    /\ acked = {}

\* A caller enters commit() or read().
Request(c, x) ==
    /\ calls[c].phase = "idle"
    /\ calls' = [calls EXCEPT ![c] = [phase |-> "open", input |-> x, result |-> None]]
    /\ UNCHANGED <<file, lock, acked>>

\* A payload over the limit is refused before a connection is opened.
RefusePayload(c) ==
    /\ Running(c, {"open"}, Commits)
    /\ Size[calls[c].input.content] > Limit[c]
    /\ Return(c, "error", None)
    /\ UNCHANGED <<file, lock, acked>>

Connect(c) ==
    /\ calls[c].phase = "open"
    /\ calls[c].input \in Commits => Size[calls[c].input.content] <= Limit[c]
    /\ MoveTo(c, "prepare")
    /\ UNCHANGED <<file, lock, acked>>

\* _prepare: BEGIN IMMEDIATE, create the schema in an empty file or compare
\* it, COMMIT.
Prepare(c) ==
    /\ calls[c].phase = "prepare"
    /\ lock = None
    /\ format # "foreign"
    /\ format' = "current"
    /\ MoveTo(c, IF calls[c].input \in Commits THEN "compare" ELSE "observe")
    /\ UNCHANGED <<rows, heads, damaged, lock, acked>>

\* A schema that is not this store's own stops the call.
RefuseFormat(c) ==
    /\ calls[c].phase = "prepare"
    /\ lock = None
    /\ format = "foreign"
    /\ Return(c, IF calls[c].input \in Commits THEN "error" ELSE "incompatible", None)
    /\ UNCHANGED <<file, lock, acked>>

\* Mutant: a deferred BEGIN takes no write lock.
BeginDeferred(c) ==
    /\ Running(c, {"compare"}, Commits)
    /\ MoveTo(c, "decide")
    /\ UNCHANGED <<file, lock, acked>>

BeginImmediate(c) ==
    /\ Running(c, {"compare"}, Commits)
    /\ lock = None
    /\ lock' = c
    /\ MoveTo(c, "decide")
    /\ UNCHANGED <<file, acked>>

\* The key is looked up first.  Its row, if there is one, must decode; the
\* same envelope is an exact replay.
DecideReplay(c) ==
    /\ Running(c, {"decide"}, Commits)
    /\ Replays(rows, heads, calls[c].input)
    /\ IF Decodes(c, calls[c].input)
       THEN Return(c, "idempotent", calls[c].input)
       ELSE Return(c, "error", None)
    /\ Release(c)
    /\ UNCHANGED <<file, acked>>

\* Another envelope under the key, another head, or a used revision identity.
DecideConflict(c) ==
    /\ Running(c, {"decide"}, Commits)
    /\ Conflicts(rows, heads, calls[c].input)
    /\ IF \A y \in KeyHolders(rows, calls[c].input) : Decodes(c, y)
       THEN Return(c, "conflict", None)
       ELSE Return(c, "error", None)
    /\ Release(c)
    /\ UNCHANGED <<file, acked>>

\* Nothing is in the way: the row and the head are written inside the
\* transaction, where no other connection sees them.
DecideAppend(c) ==
    /\ Running(c, {"decide"}, Commits)
    /\ Appends(rows, heads, calls[c].input)
    /\ MoveTo(c, "acknowledge")
    /\ UNCHANGED <<file, lock, acked>>

\* The rows a COMMIT makes durable.
Apply(x) ==
    /\ rows' = rows \cup {x}
    /\ heads' = [heads EXCEPT ![x.stream] = x.revision]
    /\ UNCHANGED <<format, damaged>>

\* Mutant: the transaction is rolled back by the finally clause.
AcknowledgeWithoutCommit(c) ==
    /\ Running(c, {"acknowledge"}, Commits)
    /\ Return(c, "committed", calls[c].input)
    /\ Release(c)
    /\ UNCHANGED <<file, acked>>

Acknowledge(c) ==
    /\ Running(c, {"acknowledge"}, Commits)
    /\ Apply(calls[c].input)
    /\ Return(c, "committed", calls[c].input)
    /\ Release(c)
    /\ UNCHANGED acked

\* Both SELECTs of read() see the same snapshot.
Observe(c) ==
    /\ Running(c, {"observe"}, Reads)
    /\ LET x      == calls[c].input
           sought == IF x.selector = "latest" THEN heads[x.stream] ELSE x.selector
           found  == {y \in RowsOf(rows, x.stream) : y.revision = sought}
       IN  \/ found = {} /\ Return(c, "absent", None)
           \/ \E y \in found : IF Decodes(c, y) THEN Return(c, "found", y)
                                                ELSE Return(c, "corrupt", None)
    /\ UNCHANGED <<file, lock, acked>>

\* An OSError or sqlite3.Error before COMMIT, a busy timeout among them, or
\* in a read: nothing was written.
Fault(c) ==
    /\ \/ /\ Running(c, CommitPhases \ {"acknowledge"}, Commits)
          /\ Return(c, "error", None)
       \/ /\ Running(c, ReadPhases, Reads)
          /\ Return(c, IF calls[c].phase = "observe" THEN "indeterminate" ELSE "error", None)
    /\ Release(c)
    /\ UNCHANGED <<file, acked>>

\* Mutant: an uncertain COMMIT is reported as an error.
FaultReportedAsError(c) ==
    /\ Running(c, {"acknowledge"}, Commits)
    /\ Apply(calls[c].input) \/ UNCHANGED file
    /\ Return(c, "error", None)
    /\ Release(c)
    /\ UNCHANGED acked

\* Mutant: the failed transaction is left open.
FaultKeepsLock(c) ==
    /\ Running(c, {"acknowledge"}, Commits)
    /\ Apply(calls[c].input) \/ UNCHANGED file
    /\ Return(c, "indeterminate", None)
    /\ UNCHANGED <<lock, acked>>

\* The same while COMMIT runs: it may have made the rows durable.
AcknowledgeFault(c) ==
    /\ Running(c, {"acknowledge"}, Commits)
    /\ Apply(calls[c].input) \/ UNCHANGED file
    /\ Return(c, "indeterminate", None)
    /\ Release(c)
    /\ UNCHANGED acked

\* The caller receives its result.
Receive(c) ==
    /\ calls[c].phase = "done"
    /\ acked' = IF calls[c].result.status \in {"committed", "idempotent"}
                THEN acked \cup {calls[c].input} ELSE acked
    /\ calls' = [calls EXCEPT ![c] = Idle]
    /\ UNCHANGED <<file, lock>>

\* The calling process dies.  SQLite rolls its transaction back when the file
\* is next opened, unless COMMIT was through.
Crash(c) ==
    /\ calls[c].phase # "idle"
    /\ calls' = [calls EXCEPT ![c] = Idle]
    /\ Release(c)
    /\ \/ Running(c, {"acknowledge"}, Commits) /\ Apply(calls[c].input)
       \/ UNCHANGED file
    /\ UNCHANGED acked

\* Something outside the program alters a retained row.
Damage ==
    /\ Cardinality(damaged) < MaxDamage
    /\ \E x \in rows \ damaged : damaged' = damaged \cup {x}
    /\ UNCHANGED <<format, rows, heads, lock, calls, acked>>

Step(c) ==
    \/ RefusePayload(c)
    \/ Connect(c)
    \/ Prepare(c)
    \/ RefuseFormat(c)
    \/ BeginImmediate(c)
    \/ DecideReplay(c)
    \/ DecideConflict(c)
    \/ DecideAppend(c)
    \/ Acknowledge(c)
    \/ Observe(c)
    \/ Receive(c)

Next ==
    \/ \E c \in Clients :
           \/ \E x \in Commits \cup Reads : Request(c, x)
           \/ Step(c)
           \/ Fault(c)
           \/ AcknowledgeFault(c)
           \/ Crash(c)
    \/ Damage

Spec == Init /\ [][Next]_vars

\* A thread that runs goes on running: nothing inside the transaction waits.
\* What waits for the lock may wait until its busy timeout (Fault).
FairSpec == Spec /\ \A c \in Clients : WF_vars(Step(c))
-----------------------------------------------------------------------------
(* Properties.                                                             *)

Phases == CommitPhases \cup ReadPhases \cup {"idle", "done"}

CommitResult == [status : CommitStatus, revision : Commits \cup {None}]
ReadResult   == [status : ReadStatus, revision : Commits \cup {None}]

CallInv(c) ==
    LET call == calls[c]
    IN  \/ call = Idle
        \/ /\ call.phase \in CommitPhases /\ call.input \in Commits
           /\ call = [phase |-> call.phase, input |-> call.input, result |-> None]
        \/ /\ call.phase \in ReadPhases /\ call.input \in Reads
           /\ call = [phase |-> call.phase, input |-> call.input, result |-> None]
        \/ /\ call.phase = "done"
           /\ \/ call.input \in Commits /\ call.result \in CommitResult
              \/ call.input \in Reads /\ call.result \in ReadResult
           /\ call = [phase |-> "done", input |-> call.input, result |-> call.result]

\* The types of the variables; a call is in a phase of its own operation and
\* has a result of its own operation.
TypeOK ==
    /\ format \in {"empty", "current", "foreign"}
    /\ rows \subseteq Commits
    /\ heads \in [Streams -> Revisions \cup {NoRevision}]
    /\ damaged \subseteq rows
    /\ lock \in Clients \cup {None}
    /\ DOMAIN calls = Clients
    /\ \A c \in Clients : CallInv(c)
    /\ acked \subseteq Commits

\* The write lock belongs to the one call that is inside its transaction, on
\* every way out of commit(): success, conflict, failure, crash.
LockDiscipline == \A c \in Clients : lock = c <=> calls[c].phase \in Transaction

\* What commit() found before it wrote is still so when COMMIT runs: no other
\* call can take the key, the head or the identity in between.
DecisionStillHolds ==
    \A c \in Clients : calls[c].phase = "acknowledge"
        => Appends(rows, heads, calls[c].input)

\* Every stream is one chain of revisions from its first to its head,
\* whatever calls raced, failed or died.
HistoryIsOneChain == OneChain(rows, heads)

\* An idempotency identity never comes to own two envelopes, in one stream or
\* in two.
KeyOwnsOneEnvelope == KeyUnique(rows)

\* A commit that some caller was told is retained stays retained.
AcknowledgedStays == acked \subseteq rows

\* The answer a call gives in this step.
Answers(c, status) ==
    /\ calls[c].phase # "done"
    /\ calls'[c].phase = "done"
    /\ calls'[c].result.status = status

\* Retrying a commit that is retained, after an indeterminate answer or a
\* crash, is never told that it conflicts, however far the head has moved.
ExactRetryNeverConflicts ==
    [][\A c \in Clients : Answers(c, "conflict") => calls[c].input \notin rows]_vars

\* A row whose digest fails is neither read nor taken for a replay.
DamageIsNeverServed ==
    [][\A c \in Clients : Answers(c, "found") \/ Answers(c, "idempotent")
          => calls'[c].result.revision \notin damaged]_vars

\* Whoever takes the write lock gives it back: no path through the transaction
\* is stuck between its checks or leaves it open, which would shut out every
\* other caller.
LockIsReturned == \A c \in Clients : lock = c ~> lock # c

\* The store keeps the promise of the protocol AtomicRevisionStore.
AbstractCall(call) ==
    [call EXCEPT !.phase = IF call.phase \in {"idle", "done"} THEN call.phase ELSE "requested"]

Promise == INSTANCE AtomicRevisionStore
             WITH calls <- [c \in Clients |-> AbstractCall(calls[c])]

ImplementsAtomicRevisionStore == Promise!Spec
=============================================================================
