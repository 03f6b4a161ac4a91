---------------------------- MODULE LocalRuntime ----------------------------
(***************************************************************************)
(* The local workflow runtime (runtime/service.py, runtime/repository.py,  *)
(* runtime/records.py) on one run: each operation loads the history, makes *)
(* up its mind, and appends at most one event by compare-and-append.       *)
(* Operations of several callers interleave between load and append.       *)
(*                                                                         *)
(* The identity of an event is a digest of its content, its ordinal and    *)
(* the identity of its predecessor, so it stands for the whole history up  *)
(* to the event: the event that extends history h by e is Append(h, e).    *)
(* The revision store is used as AtomicRevisionStore promises, by the      *)
(* operators of RevisionRecords: an event is a revision of the stream of   *)
(* its run.  Two runs share nothing but the key space of the store, and    *)
(* every key holds an event identity, so one run is enough.                *)
(***************************************************************************)
EXTENDS TransitionCore, Sequences

CONSTANTS Clients,
          Definition,     \* the workflow definition the callers supply
          Starts,         \* the runs, equal in RunId, that callers may start
          Templates,      \* [operation, authority, idempotency] of requests
          Bounds,         \* the bounds of every request
          Reports,        \* what an adapter or the infrastructure may report
          MaxEvents       \* _MAX_EVENTS_PER_HISTORY (10 000 in the code)

ASSUME RuntimeAssumption ==
    /\ Starts # {}
    /\ \A r, s \in Starts : RunId(r) = RunId(s)
    /\ \A r \in Starts : r = StartedRun(r.key, r.definition, r.subject, r.state.references,
                                          r.artifacts, r.decisions)
    /\ MaxEvents \in Nat \ {0}

VARIABLES log,      \* the event history of the run
          ops,      \* per caller, the append its operation is about to make
          answer    \* what the last step told its caller

vars == <<log, ops, answer>>

RequestKinds == {"request_retained", "request_conflict_recorded", "preflight_rejected"}
EventKinds   == RequestKinds \cup {"run_started", "transition_recorded"}

-----------------------------------------------------------------------------
(* Events.                                                                 *)

Occurrence(run, request) ==
    [state |-> run.state, revision |-> run.revision, request |-> request]

\* An event holds the core revision and state after it; evidence stands for
\* its evidence references and reason codes.
Event(kind, revision, state, occurrence, request, evidence) ==
    [kind |-> kind, revision |-> revision, state |-> state,
     occurrence |-> occurrence, request |-> request, evidence |-> evidence]

GenesisEvent(started) ==
    Event("run_started", started.revision, started.state, None, None,
          [artifacts |-> started.artifacts])

RequestEvent(kind, run, request, evidence) ==
    Event(kind, run.revision, run.state, Occurrence(run, request), request, evidence)

Newest(h) == h[Len(h)]

\* _request_event, _retained_occurrence, _transition_event: the events of a
\* request, by kind; the code takes the first.
EventsOf(h, request, kinds) ==
    {i \in DOMAIN h : h[i].kind \in kinds /\ h[i].request = request}

First(h, indices) == h[CHOOSE i \in indices : \A j \in indices : i <= j]
Last(h, indices)  == h[CHOOSE i \in indices : \A j \in indices : i >= j]

\* _idempotency_owner: a conflict does not own the identity it collided with.
Owners(h, idempotency) ==
    {i \in DOMAIN h : /\ h[i].kind \in {"request_retained", "preflight_rejected"}
                      /\ h[i].request.idempotency = idempotency}

\* The occurrence reserved by event i has not completed.
Open(h, i) ==
    /\ h[i].kind = "request_retained"
    /\ \A j \in i + 1..Len(h) :
          ~ (h[j].kind = "transition_recorded" /\ h[j].occurrence = h[i].occurrence)

\* Mutant: only the newest event is looked at.
ActiveNewest(h, revision) ==
    {i \in {Len(h)} : h[i].revision = revision /\ Open(h, i)}

\* _active_occurrence.
Active(h, revision) == {i \in DOMAIN h : h[i].revision = revision /\ Open(h, i)}

-----------------------------------------------------------------------------
(* What the callers hold and submit.                                       *)

\* The aggregates known to callers: those they started from and the
\* successors that were recorded.
Aggregates ==
    Starts \cup {log[i].evidence.outcome.run : i \in
                   {j \in DOMAIN log : log[j].kind = "transition_recorded"
                                       /\ log[j].evidence.outcome.kind = "applied"}}

\* A request made against one aggregate.
Request(template, run) ==
    [run |-> RunId(run), state |-> run.state, revision |-> run.revision,
     operation |-> template.operation, authority |-> template.authority,
     idempotency |-> template.idempotency,
     artifacts |-> {}, decisions |-> {}, bounds |-> Bounds]

Requests == {Request(t, r) : t \in Templates, r \in Aggregates}

TransitionInput(run, request, report) ==
    [definition |-> Definition, run |-> run, prior |-> run.state,
     request    |-> request,
     evidence   |->
        [kind |-> report.kind, disposition |-> report.disposition,
         status |-> report.status, references |-> {},
         artifacts |-> report.artifacts, decisions |-> {},
         definition |-> Definition, request |-> request, prior |-> run.state]]

-----------------------------------------------------------------------------
(* Steps of an operation.                                                  *)

Idle == [phase |-> "idle"]

\* The operation returns to its caller.
Reply(operation, subject, status, event) ==
    answer' = [operation |-> operation, subject |-> subject,
               status |-> status, event |-> event]

\* A failure tells the caller nothing but its status.
Fails(status) == Reply(None, None, status, None)

\* It decided to append e to the history it loaded.
Propose(c, operation, subject, e) ==
    /\ ops' = [ops EXCEPT ![c] = [phase     |-> "append",
                                  operation |-> operation,
                                  subject   |-> subject,
                                  history   |-> log,
                                  event     |-> e]]
    /\ answer' = None
    /\ UNCHANGED log

\* It answers from the history it loaded and appends nothing.
ReplyFromHistory(operation, subject, status, event) ==
    /\ Reply(operation, subject, status, event)
    /\ UNCHANGED <<log, ops>>

Init ==
    /\ log = <<>>
    /\ ops = [c \in Clients |-> Idle]
    /\ answer = None

Absent(c)  == ops[c] = Idle /\ log = <<>>
Corrupt(c) == ops[c] = Idle /\ Len(log) > MaxEvents
Loaded(c)  == ops[c] = Idle /\ Len(log) \in 1..MaxEvents

\* load() fails: a history over its limit is corrupt for good; without a
\* history there is no request to retain; a read can fail at any time.
LoadFails(c, operation) ==
    /\ ops[c] = Idle
    /\ UNCHANGED <<log, ops>>
    /\ \/ Corrupt(c) /\ Fails("error")
       \/ Absent(c) /\ operation # "start" /\ Reply(operation, None, "conflict", None)
       \/ Fails("error") \/ Fails("indeterminate")

Start(c, started) ==
    \/ Absent(c) /\ Propose(c, "start", started, GenesisEvent(started))
    \/ /\ Loaded(c)
       /\ IF log[1] = GenesisEvent(started)
          THEN ReplyFromHistory("start", started, "idempotent", log[1])
          ELSE ReplyFromHistory("start", started, "conflict", None)

AtAnyHead(run) == run \in Aggregates   \* mutant

\* The head binds the core revision and the prior state.
AtHead(run) == Newest(log).revision = run.revision /\ Newest(log).state = run.state

RetainElsewhere(c, run, request) ==
    /\ Loaded(c)
    /\ ~ AtHead(run)
    /\ ReplyFromHistory("retain", request, "conflict", None)

StatusOfKept(kind) ==
    CASE kind = "request_retained"          -> "idempotent"
      [] kind = "preflight_rejected"        -> "rejected"
      [] kind = "request_conflict_recorded" -> "conflict"

RetainKept(c, run, request) ==
    LET kept == EventsOf(log, request, RequestKinds)
    IN  /\ Loaded(c) /\ AtHead(run) /\ kept # {}
        /\ ReplyFromHistory("retain", request,
                            StatusOfKept(First(log, kept).kind), First(log, kept))

\* A request the history does not know yet.
Unknown(c, run, request) ==
    Loaded(c) /\ AtHead(run) /\ EventsOf(log, request, RequestKinds) = {}

RetainCollision(c, run, request) ==
    LET owners == Owners(log, request.idempotency)
    IN  /\ Unknown(c, run, request)
        /\ owners # {}
        /\ Propose(c, "retain", request,
                   RequestEvent("request_conflict_recorded", run, request,
                                [owner |-> First(log, owners).request]))

RetainReserved(c, run, request) ==
    LET active == Active(log, run.revision)
    IN  /\ Unknown(c, run, request)
        /\ Owners(log, request.idempotency) = {}
        /\ active # {}
        /\ Propose(c, "retain", request,
                   RequestEvent("request_conflict_recorded", run, request,
                                [active |-> Last(log, active).occurrence]))

\* Mutant: the findings are recorded, the request is retained anyway.
RetainUnvalidated(c, run, request) ==
    LET findings == PreflightFindings(Definition, run, run.state, request)
    IN  /\ Unknown(c, run, request)
        /\ Owners(log, request.idempotency) = {}
        /\ Active(log, run.revision) = {}
        /\ Propose(c, "retain", request,
                   RequestEvent("request_retained", run, request, [findings |-> findings]))

RetainValidated(c, run, request) ==
    LET findings == PreflightFindings(Definition, run, run.state, request)
        kind     == IF findings = {} THEN "request_retained" ELSE "preflight_rejected"
    IN  /\ Unknown(c, run, request)
        /\ Owners(log, request.idempotency) = {}
        /\ Active(log, run.revision) = {}
        /\ Propose(c, "retain", request,
                   RequestEvent(kind, run, request, [findings |-> findings]))

RetainRequest(c, request) ==
    \E run \in Aggregates :
        \/ RetainElsewhere(c, run, request)
        \/ RetainKept(c, run, request)
        \/ RetainCollision(c, run, request)
        \/ RetainReserved(c, run, request)
        \/ RetainValidated(c, run, request)

TransitionUnreserved(c, request) ==
    /\ Loaded(c)
    /\ EventsOf(log, request, {"request_retained"}) = {}
    /\ ReplyFromHistory("transition", request, "conflict", None)

TransitionKept(c, request) ==
    LET kept == EventsOf(log, request, {"transition_recorded"})
    IN  /\ Loaded(c)
        /\ EventsOf(log, request, {"request_retained"}) # {}
        /\ kept # {}
        /\ ReplyFromHistory("transition", request, "idempotent", First(log, kept))

\* Mutant: a recorded transition is not looked up.
OutstandingAgain(c, request) ==
    Loaded(c) /\ EventsOf(log, request, {"request_retained"}) # {}

Outstanding(c, request) ==
    /\ Loaded(c)
    /\ EventsOf(log, request, {"request_retained"}) # {}
    /\ EventsOf(log, request, {"transition_recorded"}) = {}

TransitionElsewhere(c, run, request) ==
    /\ Outstanding(c, request)
    /\ ~ AtHead(run)
    /\ ReplyFromHistory("transition", request, "conflict", None)

\* The processor runs, and its outcome is what the event records.
TransitionProcessed(c, run, request, report) ==
    LET outcome  == Execute(TransitionInput(run, request, report))
        after    == IF outcome.kind = "applied" THEN outcome.run ELSE run
        retained == First(log, EventsOf(log, request, {"request_retained"}))
    IN  /\ Outstanding(c, request)
        /\ AtHead(run)
        /\ Propose(c, "transition", request,
                   Event("transition_recorded", after.revision, after.state,
                         retained.occurrence, request, [outcome |-> outcome]))

RecordTransition(c, request) ==
    \/ TransitionUnreserved(c, request)
    \/ TransitionKept(c, request)
    \/ \E run \in Aggregates :
           \/ TransitionElsewhere(c, run, request)
           \/ \E report \in Reports : TransitionProcessed(c, run, request, report)

-----------------------------------------------------------------------------
(* The append: repository.append over the store, and _append_result.       *)

Store == INSTANCE RevisionRecords
           WITH Streams <- {"run"}, Revisions <- {}, Contents <- {}, Keys <- {},
                NoRevision <- <<>>

\* The revision that repository.append commits for event e on history h; the
\* empty history is the absent predecessor.
Envelope(h, e) ==
    [stream      |-> "run",
     revision    |-> Append(h, e),
     predecessor |-> h,
     content     |-> e,
     key         |-> Append(h, e)]

\* The revisions the store retains, and their head.
Rows  == {Envelope(SubSeq(log, 1, i - 1), log[i]) : i \in DOMAIN log}
Heads == [s \in {"run"} |-> log]

Pending(c) == Envelope(ops[c].history, ops[c].event)

\* A conflict or rejection that was recorded is answered as what it is.
StatusOfRecorded(kind) ==
    CASE kind = "request_conflict_recorded" -> "conflict"
      [] kind = "preflight_rejected"        -> "rejected"
      [] OTHER                              -> "recorded"

Return(c) == ops' = [ops EXCEPT ![c] = Idle]

Answered(c, status, event) ==
    Return(c) /\ Reply(ops[c].operation, ops[c].subject, status, event)

ExtendLost(c) == Store!Appends(Rows, Heads, Pending(c)) /\ UNCHANGED log   \* mutant

\* The event becomes the head; its history is what the next load returns.
Extend(c) ==
    /\ Store!Appends(Rows, Heads, Pending(c))
    /\ log' = Append(ops[c].history, ops[c].event)

AppendCommits(c) ==
    /\ ops[c] # Idle
    /\ Extend(c)
    /\ \/ Answered(c, StatusOfRecorded(ops[c].event.kind), ops[c].event)
       \/ Return(c) /\ Fails("indeterminate")

AppendReplays(c) ==
    /\ ops[c] # Idle
    /\ Store!Replays(Rows, Heads, Pending(c))
    /\ Answered(c, "idempotent", ops[c].event)
    /\ UNCHANGED log

\* Another event took the place of this one.
AppendLoses(c) ==
    /\ ops[c] # Idle
    /\ Store!Conflicts(Rows, Heads, Pending(c))
    /\ Answered(c, "conflict", None)
    /\ UNCHANGED log

\* The store failed; an indeterminate append did not happen here, the one
\* that did is in AppendCommits.
AppendFails(c) ==
    /\ ops[c] # Idle
    /\ Return(c)
    /\ Fails("error") \/ Fails("indeterminate")
    /\ UNCHANGED log

\* The caller's process dies around its append.
Crash(c) ==
    /\ ops[c] # Idle
    /\ Return(c)
    /\ answer' = None
    /\ Extend(c) \/ UNCHANGED log

Call(c) ==
    \/ \E operation \in {"start", "retain", "transition"} : LoadFails(c, operation)
    \/ ops[c] = Idle /\ \E started \in Starts : Start(c, started)
    \/ \E request \in Requests : RetainRequest(c, request) \/ RecordTransition(c, request)

Next ==
    \E c \in Clients :
        \/ Call(c)
        \/ AppendCommits(c)
        \/ AppendReplays(c)
        \/ AppendLoses(c)
        \/ AppendFails(c)
        \/ Crash(c)

Spec == Init /\ [][Next]_vars
-----------------------------------------------------------------------------
(* Properties.                                                             *)

\* The types of the variables.  A history is at most one event over the limit:
\* nothing is appended to a history that no longer loads.
TypeOK ==
    /\ Len(log) <= MaxEvents + 1
    /\ \A i \in DOMAIN log :
          /\ log[i].kind \in EventKinds
          /\ (i = 1) = (log[i].kind = "run_started")
          /\ log[i].state.revision = log[i].revision
    /\ DOMAIN ops = Clients
    /\ \A c \in Clients : ops[c] # Idle =>
          ops[c].phase = "append" /\ ops[c].event.kind \in EventKinds

OneOpen(h) == \A i, j \in DOMAIN h : Open(h, i) /\ Open(h, j) => i = j

DecidedOnce(h) ==
    \A i, j \in DOMAIN h : 1 < i /\ i < j =>
        /\ h[i].request = h[j].request =>
              h[i].kind = "request_retained" /\ h[j].kind = "transition_recorded"
        /\ {h[i].kind, h[j].kind} \subseteq {"request_retained", "preflight_rejected"} =>
              h[i].request.idempotency # h[j].request.idempotency

BoundToOccurrence(h) ==
    \A j \in DOMAIN h : h[j].kind = "transition_recorded" =>
        /\ \E i \in 1..j - 1 :
              /\ h[i].kind = "request_retained"
              /\ h[i].request = h[j].request
              /\ h[i].occurrence = h[j].occurrence
        /\ h[j].occurrence.state = h[j - 1].state
        /\ h[j].state # h[j - 1].state =>
              /\ h[j].evidence.outcome.kind = "applied"
              /\ h[j].state.predecessor = {h[j - 1].state}

\* At most one retained request is outstanding, whatever callers race.
ReservationExclusive == OneOpen(log)

\* A request has one event, or is retained and then completed once: no retry,
\* race or crash retains, refuses or completes it again.  And of the requests
\* that own an idempotency identity, as rejected ones do, no two share it.
RequestDecidedOnce == DecidedOnce(log)

\* A transition completes an occurrence of its own request that was retained
\* at the very core state it starts from, and leaves that state or its
\* immediate successor: the core has not moved since the reservation.
OccurrenceBindsTransition == BoundToOccurrence(log)

\* The event in an answer is retained and is the caller's own; an answer that
\* something was recorded, or is so already, names that event.
AnswerTellsTruth ==
    answer # None =>
        /\ answer.status \in {"recorded", "idempotent", "rejected"}
              => \E i \in DOMAIN log : log[i] = answer.event
        /\ answer.event # None =>
              /\ \E i \in DOMAIN log : log[i] = answer.event
              /\ IF answer.operation = "start"
                 THEN answer.event = GenesisEvent(answer.subject)
                 ELSE answer.event.request = answer.subject

\* The runtime keeps the promise of RunReservation.
OpenOnes == {i \in DOMAIN log : Open(log, i)}

Ledger == INSTANCE RunReservation
            WITH state   <- {log[i].state : i \in {j \in DOMAIN log : j = Len(log)}},
                 holder  <- {log[i].request : i \in OpenOnes},
                 settled <- {log[i].request : i \in
                               {j \in DOMAIN log : log[j].kind \in RequestKinds}},
                 Final   <- Terminal

ImplementsRunReservation == Ledger!Spec

-----------------------------------------------------------------------------
(* What docs/contracts/workflow-runtime.md says and the code does not do.  *)

\* "An identical retry after a terminal core outcome MUST return that
\* outcome": retain_request of a request whose transition ended the run.
RetryReturnsOutcome ==
    ~ (/\ answer # None
       /\ answer.operation = "retain" /\ answer.status = "conflict"
       /\ log # <<>> /\ Newest(log).state.status \in Terminal
       /\ EventsOf(log, answer.subject, {"transition_recorded"}) # {})

\* "Append-only history remains recoverable": a history can be loaded again.
HistoryLoads == Len(log) <= MaxEvents
=============================================================================
