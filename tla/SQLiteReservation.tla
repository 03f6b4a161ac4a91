------------------------- MODULE SQLiteReservation -------------------------
(***************************************************************************)
(* persistence/pure_action_sqlite.py: the durable pure-action reservation  *)
(* repository, over one SQLite file shared by several processes.           *)
(*                                                                         *)
(* Every call moves through the phases                                     *)
(*   prepare      opens the file; one transaction migrates and bootstraps  *)
(*   compare      waits for BEGIN IMMEDIATE (reserve and commit)           *)
(*   decide       owns the write lock and looks at the rows                *)
(*   acknowledge  has written its rows, COMMIT is next                     *)
(*   replay       rolled back; compares a retained commit row by row       *)
(*   observe      a read                                                   *)
(* and calls interleave between them.  SQLite is external: one write lock, *)
(* transactions that apply wholly or not at all, failures anywhere.  Rows  *)
(* damaged from outside are left out (SQLiteRevisionStore has them);       *)
(* what a reader calls corrupt can only come from the program's own rows.  *)
(***************************************************************************)
EXTENDS ReservationRecords

CONSTANTS Clients,      \* callers, in as many processes
          Inputs,       \* the calls they may make
          Openings,     \* the predecessors a repository is opened with
          Files         \* what the file may hold at first

VARIABLES format,       \* the schema version found in the file
          initial,      \* initial_predecessors, None where there is no row
          current,      \* current_predecessors
          active,       \* active_reservations
          commits,      \* commits, with their evidence; and the consumed rows
          lifecycle,    \* reservation_lifecycle_events
          partial,      \* legacy_partial_reservations
          lock,         \* the owner of the write lock
          configured,   \* the predecessors of each client's repository object
          calls         \* the open call of each client

rows == <<format, initial, current, active, commits, lifecycle, partial>>
vars == <<rows, lock, configured, calls>>

Writes == {"reserve", "commit"}
Reads  == {"revalidate", "load", "evidence", "lifecycle", "safety"}

ReservationOf(x) == IF "commit" \in DOMAIN x THEN x.commit.reservation ELSE x.reservation

\* The commits of a net lead, one per revision and each from the marking the
\* one before it produced, from the initial predecessor to the current one.
ChainLeads(from, to, retained) ==
    LET Reached(revision) ==
            IF revision = from.revision THEN {from}
            ELSE {Successor(x) : x \in {y \in retained :
                     y.reservation.at.revision = revision - 1}}
    IN  IF from = None
        THEN to = None /\ retained = {}
        ELSE /\ to # None
             /\ {x.reservation.at.revision : x \in retained} = from.revision .. (to.revision - 1)
             /\ \A x \in retained : Reached(x.reservation.at.revision) = {x.reservation.at}
             /\ Reached(to.revision) = {to}

CommitsOn(n, retained) == {x \in retained : x.reservation.net = n}

\* The reservation that holds a net is for its current marking and has not
\* been consumed.
HoldsCurrent(at, holders, retained, n) ==
    holders[n] # None =>
        /\ holders[n].net = n
        /\ MatchesCurrent(at, holders[n])
        /\ holders[n] \notin Consumed(retained)

\* What the program, in any version, leaves in a file.
LeftByProgram(f) ==
    /\ f.initial \in [Nets -> Coordinate \cup {None}]
    /\ f.current \in [Nets -> Coordinate \cup {None}]
    /\ f.active \in [Nets -> Reservation \cup {None}]
    /\ f.commits \subseteq Commit
    /\ f.format \in {"empty", "v2", "v3", "foreign", "newer"}
    /\ f.format = "empty" => f.commits = {} /\ \A n \in Nets : f.active[n] = None
    /\ \A n \in Nets : HoldsCurrent(f.current, f.active, f.commits, n)
    /\ \A n \in Nets : ChainLeads(f.initial[n], f.current[n], CommitsOn(n, f.commits))
    /\ \A y, z \in f.commits : y.reservation = z.reservation => y = z

ASSUME ReservationAssumption ==
    /\ None \notin Clients \cup Reservation \cup Coordinate
    /\ Inputs \subseteq [operation : {"commit", "evidence"}, commit : Commit]
                    \cup [operation : (Writes \cup Reads) \ {"commit", "evidence"},
                           reservation : Reservation]
    /\ Openings \subseteq [Nets -> Coordinate \cup {None}]
    /\ \A f \in Files : LeftByProgram(f)

-----------------------------------------------------------------------------
(* Lifecycle rows: ordinal 0 is RESERVED and names no commit, ordinal 1 is *)
(* COMMITTED and names its commit.                                         *)

Event(r, id) == [reservation |-> r, commit |-> id]

LifecycleOf(r) == {e \in lifecycle : e.reservation = r}

ExpectedLifecycle(r, id) == {Event(r, None), Event(r, id)}

CommitIdsOf(r) == {y.identity : y \in RetainedFor(commits, r)}

\* What _load_lifecycle_events accepts: RESERVED first, and COMMITTED exactly
\* when the commit is retained.
WellFormed(r) == LifecycleOf(r) = {Event(r, None)} \cup {Event(r, id) : id \in CommitIdsOf(r)}

PartialOf(r) == {p \in partial : p.reservation = r}

\* _lifecycle_matches_commit
LifecycleMatchesCommit(x) ==
    IF LifecycleOf(x.reservation) # {}
    THEN LifecycleOf(x.reservation) = ExpectedLifecycle(x.reservation, x.identity)
    ELSE PartialOf(x.reservation) = {Event(x.reservation, x.identity)}

-----------------------------------------------------------------------------
(* Calls.                                                                  *)

Idle == [phase |-> "idle", input |-> None, result |-> None]

Running(c, phases, operations) ==
    calls[c].phase \in phases /\ calls[c].input.operation \in operations

MoveTo(c, phase) == calls' = [calls EXCEPT ![c].phase = phase]

Return(c, status) ==
    calls' = [calls EXCEPT ![c] =
                [phase |-> "done", input |-> calls[c].input, result |-> status]]

Release(c) == lock' = IF lock = c THEN None ELSE lock

\* A file of an older version has no lifecycle and no partial rows.
Init ==
    /\ \E f \in Files :
          /\ format = f.format
          /\ initial = f.initial
          /\ current = f.current
          /\ active = f.active
          /\ commits = f.commits
    /\ lifecycle = {}
    /\ partial = {}
    /\ lock = None
    /\ configured \in [Clients -> Openings]
    /\ calls = [c \in Clients |-> Idle]

Request(c, x) ==
    /\ calls[c].phase = "idle"
    /\ calls' = [calls EXCEPT ![c] = [phase |-> "prepare", input |-> x, result |-> None]]
    /\ UNCHANGED <<rows, lock, configured>>

-----------------------------------------------------------------------------
(* _prepare, one transaction.                                              *)

Supported == format \in {"empty", "v2", "v3", "v4"}

\* An initial predecessor is never changed: predecessor_bootstrap_conflict.
BootstrapConflicts(c) ==
    \E n \in Nets :
        configured[c][n] # None /\ initial[n] # None /\ configured[c][n] # initial[n]

Bootstrap(c) ==
    LET missing == {n \in Nets : initial[n] = None /\ configured[c][n] # None}
    IN  /\ initial' = [n \in Nets |-> IF n \in missing THEN configured[c][n] ELSE initial[n]]
        /\ current' = [n \in Nets |-> IF n \in missing THEN configured[c][n] ELSE current[n]]

\* Mutant: active reservations are not given their first event.
MigrateConsumedOnly ==
    /\ format' = "v4"
    /\ lifecycle' = lifecycle
    /\ partial' = IF format \in {"v2", "v3"}
                  THEN {Event(y.reservation, y.identity) : y \in commits}
                  ELSE partial

\* _migrate_v2_store, _migrate_v3_store: an active reservation is given its
\* RESERVED event; of a consumed one too little is known.
Migrate ==
    /\ format' = "v4"
    /\ lifecycle' = IF format \in {"v2", "v3"}
                    THEN {Event(active[n], None) : n \in {m \in Nets : active[m] # None}}
                    ELSE lifecycle
    /\ partial' = IF format \in {"v2", "v3"}
                  THEN {Event(y.reservation, y.identity) : y \in commits}
                  ELSE partial

Prepare(c) ==
    /\ calls[c].phase = "prepare"
    /\ lock = None
    /\ Supported /\ ~ BootstrapConflicts(c)
    /\ Migrate
    /\ Bootstrap(c)
    /\ MoveTo(c, IF calls[c].input.operation \in Writes THEN "compare" ELSE "observe")
    /\ UNCHANGED <<active, commits, lock, configured>>

\* The transaction is rolled back, migration included.  Readers disagree on
\* what a file they do not know is called.
RefuseToPrepare(c) ==
    /\ calls[c].phase = "prepare"
    /\ lock = None
    /\ ~ Supported \/ BootstrapConflicts(c)
    /\ Return(c, IF \/ calls[c].input.operation = "load" /\ ~ Supported
                    \/ calls[c].input.operation \in Reads \ {"revalidate"} /\ format = "newer"
                 THEN "incompatible" ELSE "error")
    /\ UNCHANGED <<rows, lock, configured>>

-----------------------------------------------------------------------------
(* reserve and commit.                                                     *)

\* Mutant: a deferred BEGIN takes no write lock.
BeginDeferred(c) ==
    /\ Running(c, {"compare"}, Writes)
    /\ MoveTo(c, "decide")
    /\ UNCHANGED <<rows, lock, configured>>

BeginImmediate(c) ==
    /\ Running(c, {"compare"}, Writes)
    /\ lock = None
    /\ lock' = c
    /\ MoveTo(c, "decide")
    /\ UNCHANGED <<rows, configured>>

\* Refused: rolled back with an answer.
Refuse(c, status) ==
    /\ Return(c, status)
    /\ Release(c)
    /\ UNCHANGED <<rows, configured>>

\* Allowed: the rows are written inside the transaction.
Proceed(c) ==
    /\ MoveTo(c, "acknowledge")
    /\ UNCHANGED <<rows, lock, configured>>

\* Whoever holds the net, it is the lifecycle of the REQUESTED reservation
\* that must be that of an active one, before the two are compared.
DecideReserve(c) ==
    /\ Running(c, {"decide"}, {"reserve"})
    /\ LET r       == calls[c].input.reservation
           verdict == ReserveVerdict(current, active, commits, r)
           held    == MatchesCurrent(current, r) /\ active[r.net] # None
       IN  \/ verdict = "reserved" /\ Proceed(c)
           \/ verdict # "reserved" /\ held /\ LifecycleOf(r) # {Event(r, None)}
              /\ Refuse(c, "error")
           \/ verdict # "reserved" /\ (held => LifecycleOf(r) = {Event(r, None)})
              /\ Refuse(c, verdict)

\* Mutant: the predecessor is compared before the retained commit.
DecideCommitStaleFirst(c) ==
    /\ Running(c, {"decide"}, {"commit"})
    /\ LET x       == calls[c].input.commit
           verdict == IF MatchesCurrent(current, x.reservation)
                      THEN CommitVerdict(current, active, commits, x) ELSE "stale"
       IN  \/ verdict # "committed" /\ Refuse(c, verdict)
           \/ verdict = "committed" /\ Proceed(c)

DecideCommit(c) ==
    /\ Running(c, {"decide"}, {"commit"})
    /\ LET x        == calls[c].input.commit
           retained == RetainedFor(commits, x.reservation) # {}
           verdict  == CommitVerdict(current, active, commits, x)
           reserved == LifecycleOf(x.reservation) = {Event(x.reservation, None)}
       IN  \/ /\ retained
              /\ MoveTo(c, "replay")
              /\ Release(c)
              /\ UNCHANGED <<rows, configured>>
           \/ ~ retained /\ verdict # "committed" /\ Refuse(c, verdict)
           \/ ~ retained /\ verdict = "committed" /\ ~ reserved /\ Refuse(c, "error")
           \/ ~ retained /\ verdict = "committed" /\ reserved /\ Proceed(c)

\* Mutant: evidence and lifecycle are not looked at.
CompareCoordinatesOnly(c) ==
    /\ Running(c, {"replay"}, {"commit"})
    /\ LET x == calls[c].input.commit
       IN  Return(c, IF \A y \in RetainedFor(commits, x.reservation) :
                            x.identity = y.identity /\ x.successor = y.successor
                     THEN "idempotent" ELSE "conflict")
    /\ UNCHANGED <<rows, lock, configured>>

\* After ROLLBACK the retained evidence and lifecycle are read outside any
\* transaction.
CompareReplay(c) ==
    /\ Running(c, {"replay"}, {"commit"})
    /\ LET x    == calls[c].input.commit
           same == \A y \in RetainedFor(commits, x.reservation) : SameCommit(x, y)
       IN  \/ same /\ LifecycleMatchesCommit(x) /\ Return(c, "idempotent")
           \/ ~ (same /\ LifecycleMatchesCommit(x)) /\ Return(c, "conflict")
    /\ UNCHANGED <<rows, lock, configured>>

\* The rows a COMMIT makes durable.
ApplyReserve(r) ==
    /\ active' = [active EXCEPT ![r.net] = r]
    /\ lifecycle' = lifecycle \cup {Event(r, None)}
    /\ UNCHANGED <<format, initial, current, commits, partial>>

ApplyCommit(x) ==
    /\ commits' = commits \cup {x}
    /\ lifecycle' = lifecycle \cup {Event(x.reservation, x.identity)}
    /\ active' = [active EXCEPT ![x.reservation.net] = None]
    /\ current' = [current EXCEPT ![x.reservation.net] = Successor(x)]
    /\ UNCHANGED <<format, initial, partial>>

Apply(x) == IF x.operation = "reserve" THEN ApplyReserve(x.reservation)
                                       ELSE ApplyCommit(x.commit)

Acknowledge(c) ==
    /\ Running(c, {"acknowledge"}, Writes)
    /\ Apply(calls[c].input)
    /\ Return(c, IF calls[c].input.operation = "reserve" THEN "reserved" ELSE "committed")
    /\ Release(c)
    /\ UNCHANGED configured

-----------------------------------------------------------------------------
(* Reads.                                                                  *)

LifecycleStatus(r) ==
    CASE LifecycleOf(r) # {} -> IF WellFormed(r) THEN "found" ELSE "corrupt"
      [] LifecycleOf(r) = {} -> IF PartialOf(r) = {} THEN "absent"
                                ELSE IF PartialOf(r) = {Event(r, id) : id \in CommitIdsOf(r)}
                                     THEN "legacy_partial" ELSE "corrupt"

\* Committed safety state needs the whole lifecycle and the replay evidence.
SafetyStatus(r) ==
    CASE LifecycleStatus(r) # "found" -> LifecycleStatus(r)
      [] LifecycleStatus(r) = "found" ->
             IF RetainedFor(commits, r) = {} THEN "absent"
             ELSE IF \E y \in RetainedFor(commits, r) : y.evidence = None
                  THEN "legacy_partial" ELSE "found"

ReadStatus(x) ==
    LET r == ReservationOf(x)
    IN  CASE x.operation = "revalidate" -> RevalidateVerdict(current, active, commits, r)
          [] x.operation = "load"       -> IF RetainedFor(commits, r) = {} THEN "absent" ELSE "found"
          [] x.operation = "evidence"   ->
                 IF \E y \in commits : y.identity = x.commit.identity /\ y.evidence # None
                 THEN "found" ELSE "absent"
          [] x.operation = "lifecycle"  -> LifecycleStatus(r)
          [] x.operation = "safety"     -> SafetyStatus(r)

Observe(c) ==
    /\ Running(c, {"observe"}, Reads)
    /\ Return(c, ReadStatus(calls[c].input))
    /\ UNCHANGED <<rows, lock, configured>>

-----------------------------------------------------------------------------
(* Failures and the caller.                                                *)

\* An OSError, a sqlite3.Error (a busy timeout among them) before COMMIT, or
\* in a read.
Fault(c) ==
    /\ calls[c].phase \in {"prepare", "compare", "decide", "replay", "observe"}
    /\ Return(c, "error")
    /\ Release(c)
    /\ UNCHANGED <<rows, configured>>

\* Mutant: an uncertain COMMIT is reported as an error.
FaultReportedAsError(c) ==
    /\ Running(c, {"acknowledge"}, Writes)
    /\ Apply(calls[c].input) \/ UNCHANGED rows
    /\ Return(c, "error")
    /\ Release(c)
    /\ UNCHANGED configured

\* The same while COMMIT runs: the rows may be durable.
AcknowledgeFault(c) ==
    /\ Running(c, {"acknowledge"}, Writes)
    /\ Apply(calls[c].input) \/ UNCHANGED rows
    /\ Return(c, "indeterminate")
    /\ Release(c)
    /\ UNCHANGED configured

Receive(c) ==
    /\ calls[c].phase = "done"
    /\ calls' = [calls EXCEPT ![c] = Idle]
    /\ UNCHANGED <<rows, lock, configured>>

\* The process dies; SQLite rolls back unless COMMIT was through.
Crash(c) ==
    /\ calls[c].phase # "idle"
    /\ calls' = [calls EXCEPT ![c] = Idle]
    /\ Release(c)
    /\ \/ Running(c, {"acknowledge"}, Writes) /\ Apply(calls[c].input)
       \/ UNCHANGED rows
    /\ UNCHANGED configured

Step(c) ==
    \/ Prepare(c)
    \/ RefuseToPrepare(c)
    \/ BeginImmediate(c)
    \/ DecideReserve(c)
    \/ DecideCommit(c)
    \/ CompareReplay(c)
    \/ Acknowledge(c)
    \/ Observe(c)
    \/ Receive(c)

Next ==
    \E c \in Clients :
        \/ \E x \in Inputs : Request(c, x)
        \/ Step(c)
        \/ Fault(c)
        \/ AcknowledgeFault(c)
        \/ Crash(c)

Spec == Init /\ [][Next]_vars

\* The same, with neither failures nor deaths.
CalmNext == \E c \in Clients : Step(c) \/ \E x \in Inputs : Request(c, x)

CalmSpec == Init /\ [][CalmNext]_vars
-----------------------------------------------------------------------------
(* Properties.                                                             *)

Statuses(operation) ==
    CASE operation = "reserve"    -> {"reserved", "idempotent", "conflict", "stale",
                                      "indeterminate", "error"}
      [] operation = "commit"     -> {"committed", "idempotent", "conflict", "stale",
                                      "indeterminate", "error"}
      [] operation = "revalidate" -> {"current", "absent", "stale", "consumed", "error"}
      [] OTHER                    -> {"found", "absent", "legacy_partial", "incompatible",
                                      "corrupt", "error"}

Phases == {"prepare", "compare", "decide", "replay", "acknowledge", "observe", "done"}

\* The types of the variables; a call has a result of its own operation.
TypeOK ==
    /\ format \in {"empty", "v2", "v3", "v4", "foreign", "newer"}
    /\ initial \in [Nets -> Coordinate \cup {None}]
    /\ current \in [Nets -> Coordinate \cup {None}]
    /\ active \in [Nets -> Reservation \cup {None}]
    /\ commits \subseteq Commit
    /\ lifecycle \subseteq [reservation : Reservation, commit : CommitIds \cup {None}]
    /\ partial \subseteq [reservation : Reservation, commit : CommitIds]
    /\ lock \in Clients \cup {None}
    /\ configured \in [Clients -> Openings]
    /\ DOMAIN calls = Clients
    /\ \A c \in Clients :
          calls[c] = Idle \/ /\ calls[c].phase \in Phases
                             /\ calls[c].input \in Inputs
                             /\ calls[c].result \in Statuses(calls[c].input.operation) \cup {None}

\* Between what a net began with and what it has come to lies one chain of
\* commits, whatever order callers, retries and crashes give them.
MarkingsFormOneChain ==
    \A n \in Nets : ChainLeads(initial[n], current[n], CommitsOn(n, commits))

\* A commit clears what it consumes, and nothing else moves a net under its
\* holder: the reservation that holds a net is current and not consumed.
HolderIsCurrent == \A n \in Nets : HoldsCurrent(current, active, commits, n)

\* In a migrated file the lifecycle rows tell the history the other tables
\* tell: RESERVED of the active reservations, RESERVED and COMMITTED of the
\* committed ones, and nothing but a partial row of those that were committed
\* before the rows existed.
LifecycleTellsHistory ==
    format = "v4" =>
        /\ \A e \in lifecycle : \/ e.reservation \in Consumed(commits)
                                \/ active[e.reservation.net] = e.reservation
        /\ \A n \in Nets : active[n] # None => LifecycleOf(active[n]) = {Event(active[n], None)}
        /\ \A y \in commits :
              IF PartialOf(y.reservation) = {}
              THEN LifecycleOf(y.reservation) = ExpectedLifecycle(y.reservation, y.identity)
              ELSE /\ LifecycleOf(y.reservation) = {}
                   /\ PartialOf(y.reservation) = {Event(y.reservation, y.identity)}

\* However long a caller has held a success, it is still true: what it was
\* told is committed is retained, with its evidence; what it was told is
\* reserved holds its net until that very reservation is committed.
AnswersStayTrue ==
    \A c \in Clients : calls[c].phase = "done" =>
        LET x == calls[c].input
        IN  /\ x.operation = "commit" /\ calls[c].result \in {"committed", "idempotent"}
                  => \E y \in commits : SameCommit(x.commit, y)
            /\ x.operation = "reserve" /\ calls[c].result \in {"reserved", "idempotent"}
                  => \/ active[x.reservation.net] = x.reservation
                     \/ x.reservation \in Consumed(commits)

\* The answer a call gives in this step.
Answers(c, statuses) == calls[c].phase # "done" /\ calls'[c].phase = "done"
                        /\ calls'[c].result \in statuses

\* Retrying a commit that is retained is never told stale or conflict, though
\* its predecessor has long been left and its row may be a migrated one.
ExactRetryIsIdempotent ==
    [][\A c \in Clients : Answers(c, {"stale", "conflict"}) /\ calls[c].input.operation = "commit"
          => ~ \E y \in commits : SameCommit(calls[c].input.commit, y)]_vars

\* When nothing fails, a reserve() whose file can be opened is answered with a
\* verdict: a competitor for a held net is told conflict.
CompetitorIsToldConflict ==
    \A c \in Clients :
        /\ calls[c].phase = "done" /\ calls[c].input.operation = "reserve"
        /\ Supported /\ ~ BootstrapConflicts(c)
        => calls[c].result # "error"

\* The durable repository implements the port, as its in-memory reference
\* keeps it.
Port == INSTANCE ReservationRepository
          WITH calls <- [c \in Clients |->
                 [calls[c] EXCEPT !.phase =
                    IF calls[c].phase \in {"idle", "done"} THEN calls[c].phase ELSE "requested"]]

ImplementsReservationRepository == Port!Spec
=============================================================================
