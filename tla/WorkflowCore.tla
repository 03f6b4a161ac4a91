---------------------------- MODULE WorkflowCore ----------------------------
(***************************************************************************)
(* One workflow run taken through the pure core, transition by transition. *)
(* The records of an input come from separate hands: each may be the exact *)
(* one or deviate from it (Deviations), and the outcome must tell which.   *)
(***************************************************************************)
EXTENDS TransitionCore

CONSTANTS Definition, OtherDefinition,  \* [operations : a set]
          Subject, OtherSubject,
          Operation, UnknownOperation,
          StartArtifacts,               \* artifacts a run may start with
          RequestArtifacts,             \* the artifacts a request may carry
          RequestDecisions,             \* the decisions a request may carry
          Outputs,                      \* [references, artifacts, decisions] of evidence
          Bounds,                       \* WorkflowRequestBounds of the requests
          MaxRevision,                  \* bound: transitions of a run
          MaxDeviations                 \* bound: deviations of one input

ASSUME CoreAssumption ==
    /\ Operation \in Definition.operations
    /\ UnknownOperation \notin Definition.operations
    /\ Subject # OtherSubject /\ Definition # OtherDefinition
    /\ MaxRevision \in Nat /\ MaxDeviations \in Nat

\* What is carried is finite, and a run starts within its limits.
ASSUME CarriedAssumption ==
    /\ MaxArtifacts \in Nat /\ MaxDecisions \in Nat
    /\ \A a \in StartArtifacts : IsFiniteSet(a) /\ Cardinality(a) <= MaxArtifacts
    /\ \A a \in RequestArtifacts \cup RequestDecisions : IsFiniteSet(a)
    /\ \A o \in Outputs : IsFiniteSet(o.artifacts) /\ IsFiniteSet(o.decisions)

VARIABLE run      \* the current aggregate; its state is the current snapshot

Deviations ==
    {"definition", "run revision", "run status", "run definition",
     "request run", "request state", "request revision", "operation",
     "authority subject", "authority scope",
     "evidence definition", "evidence request", "evidence prior"}

\* Another snapshot than the current one: the previous one, or at revision
\* zero the one another starter would have made.
OtherState ==
    IF run.revision = 0 THEN InitialState(run.key, run.definition, run.subject, {"other"})
                        ELSE CHOOSE s \in run.state.predecessor : TRUE

SuppliedRun(d) ==
    [run EXCEPT !.revision   = IF "run revision" \in d THEN @ + 1 ELSE @,
                !.status     = IF "run status" \in d THEN "active" ELSE @,
                !.definition = IF "run definition" \in d THEN OtherDefinition ELSE @]

SuppliedRequest(d, artifacts, decisions) ==
    [run       |-> IF "request run" \in d THEN [RunId(run) EXCEPT !.subject = OtherSubject]
                                          ELSE RunId(run),
     state     |-> IF "request state" \in d THEN OtherState ELSE run.state,
     revision  |-> IF "request revision" \in d THEN run.revision + 1 ELSE run.revision,
     operation |-> IF "operation" \in d THEN UnknownOperation ELSE Operation,
     authority |->
        [subject    |-> IF "authority subject" \in d THEN OtherSubject ELSE Subject,
         operations |-> IF "authority scope" \in d THEN {} ELSE {Operation, UnknownOperation}],
     artifacts |-> artifacts,
     decisions |-> decisions,
     bounds    |-> Bounds]

\* What an adapter or the infrastructure can report; evidence that is not
\* enabled carries no output.
Report(kind, disposition, status, output) ==
    [kind |-> kind, disposition |-> disposition, status |-> status,
     references |-> output.references, artifacts |-> output.artifacts,
     decisions |-> output.decisions]

NoOutput == [references |-> {}, artifacts |-> {}, decisions |-> {}]

Reports ==
    {Report("failure", None, None, NoOutput)}
        \cup {Report("adapter", d, None, NoOutput) : d \in {"not_enabled", "blocked"}}
        \cup {Report("adapter", "enabled", s, o) :
                 s \in {"active", "blocked", "completed"}, o \in Outputs}

\* The report bound to a definition, a request and a prior state.
SuppliedEvidence(d, request, report) ==
    [kind |-> report.kind, disposition |-> report.disposition, status |-> report.status,
     references |-> report.references, artifacts |-> report.artifacts,
     decisions |-> report.decisions,
     definition |-> IF "evidence definition" \in d THEN OtherDefinition ELSE Definition,
     request    |-> IF "evidence request" \in d THEN [request EXCEPT !.operation = None]
                                                 ELSE request,
     prior      |-> IF "evidence prior" \in d THEN OtherState ELSE run.state]

\* How an input is put together: its deviations and what is carried in it.
Choices ==
    {s \in SUBSET Deviations : Cardinality(s) <= MaxDeviations}
        \X RequestArtifacts \X RequestDecisions \X Reports

Input(choice) ==
    LET d       == choice[1]
        request == SuppliedRequest(d, choice[2], choice[3])
    IN  [definition |-> IF "definition" \in d THEN OtherDefinition ELSE Definition,
         run        |-> SuppliedRun(d),
         prior      |-> run.state,
         request    |-> request,
         evidence   |-> SuppliedEvidence(d, request, choice[4])]

Init ==
    \E a \in StartArtifacts : run = StartedRun("run", Definition, Subject, {}, a, {})

\* The processor executes an input; only an applied outcome has a successor.
Apply(i) ==
    /\ run.revision < MaxRevision
    /\ Execute(i).kind = "applied"
    /\ run' = Execute(i).run

Next == \E choice \in Choices : Apply(Input(choice))

Spec == Init /\ [][Next]_run

-----------------------------------------------------------------------------
(* Properties.                                                             *)

\* The run can be constructed: it keeps within its limits and holds decisions
\* about its own subject only, run and snapshot agree, and so do the snapshot
\* and its predecessor.  The constructors of models.py, which raise on anything
\* else, never do.
TypeOK ==
    /\ run.status \in RunStatus
    /\ run.revision \in 0..MaxRevision
    /\ run.definition = Definition /\ run.subject = Subject
    /\ Cardinality(run.artifacts) <= MaxArtifacts
    /\ Cardinality(run.decisions) <= MaxDecisions
    /\ run.state.revision = run.revision
    /\ run.state.status = run.status
    /\ run.state.run = RunId(run)
    /\ run.state.definition = run.definition
    /\ run.revision = 0 <=> run.state.predecessor = {}
    /\ \A s, u \in run.state.predecessor : s = u /\ s.revision + 1 = run.revision
    /\ \A d \in run.decisions : d.subject = run.subject

\* The records that every hand supplied are the exact ones.
Exact(i) ==
    /\ i.definition = Definition
    /\ i.run = run
    /\ i.request = SuppliedRequest({}, i.request.artifacts, i.request.decisions)
    /\ i.evidence = SuppliedEvidence({}, i.request, i.evidence)

\* A transition is applied only on exact, current records of a run that is
\* not terminal.
AppliedOnlyWhenExact ==
    \A choice \in Choices : OutcomeKind(Input(choice)) = "applied"
        => Exact(Input(choice)) /\ run.status \notin Terminal

\* A successor is the next revision of the same run, remembers where it came
\* from, forgets no artifact and no decision, and never leaves a terminal
\* status.
SuccessorExtendsRun ==
    [][/\ run.status \notin Terminal
       /\ run'.revision = run.revision + 1
       /\ run'.state.predecessor = {run.state}
       /\ RunId(run') = RunId(run)
       /\ run.artifacts \subseteq run'.artifacts
       /\ run.decisions \subseteq run'.decisions]_run
=============================================================================
