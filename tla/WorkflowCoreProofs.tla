------------------------- MODULE WorkflowCoreProofs -------------------------
(***************************************************************************)
(* What holds of the pure core for any definitions, subjects, operations,  *)
(* artifacts, decisions, outputs and limits: no mixture of deviating       *)
(* records is ever applied, and what is applied only extends the run.      *)
(*                                                                         *)
(* The processor compares the supplied records with each other; that they  *)
(* are then also the exact ones needs what the run and its snapshot have   *)
(* in common, the invariant.                                               *)
(***************************************************************************)
EXTENDS WorkflowCore, FiniteSetTheorems, TLAPS

\* Run and snapshot agree on what they are of.
IInv ==
    /\ run = [key |-> run.key, definition |-> run.definition, subject |-> run.subject,
              state |-> run.state, revision |-> run.revision, status |-> run.status,
              artifacts |-> run.artifacts, decisions |-> run.decisions]
    /\ run.definition = Definition /\ run.subject = Subject
    /\ run.state.definition = Definition
    /\ run.state.run = RunId(run)
    /\ run.state.revision = run.revision
    /\ run.state.status = run.status

\* The findings that a transition must not have to be applied.
LEMMA AppliedHasNoFindings ==
    ASSUME NEW i, OutcomeKind(i) = "applied"
    PROVE  /\ PreflightFindings(i.definition, i.run, i.prior, i.request) = {}
           /\ BindsExactly(i)
<1>1. Findings(i) = {} /\ ~ IsFailure(i.evidence)
  BY DEF OutcomeKind
<1>2. {c \in {"adapter_evidence_mismatch"} : ~ BindsExactly(i)} = {}
  BY <1>1 DEF Findings, EvidenceFindings
<1> QED
  BY <1>1, <1>2 DEF Findings

LEMMA NoPreflightFinding ==
    ASSUME NEW definition, NEW r, NEW prior, NEW request,
           PreflightFindings(definition, r, prior, request) = {}
    PROVE  /\ r.definition = definition /\ prior.definition = definition
           /\ request.run = RunId(r)
           /\ r.revision = prior.revision /\ r.status = prior.status
           /\ request.state = prior /\ request.revision = r.revision
           /\ r.status \notin Terminal
           /\ request.operation \in definition.operations
           /\ request.authority.subject = r.subject
           /\ request.operation \in request.authority.operations
<1>1. \A code \in PreflightCodes :
         code \notin PreflightFindings(definition, r, prior, request)
  OBVIOUS
<1>2. "definition_mismatch" \notin PreflightFindings(definition, r, prior, request)
      /\ "run_mismatch" \notin PreflightFindings(definition, r, prior, request)
      /\ "state_mismatch" \notin PreflightFindings(definition, r, prior, request)
      /\ "revision_conflict" \notin PreflightFindings(definition, r, prior, request)
      /\ "terminal_run" \notin PreflightFindings(definition, r, prior, request)
      /\ "unknown_operation" \notin PreflightFindings(definition, r, prior, request)
      /\ "authority_subject_mismatch" \notin PreflightFindings(definition, r, prior, request)
      /\ "authority_scope_mismatch" \notin PreflightFindings(definition, r, prior, request)
  BY <1>1
<1> QED
  BY <1>2 DEF PreflightFindings, PreflightCodes

\* The parts of a supplied request.
LEMMA RequestParts ==
    ASSUME NEW d, NEW artifacts, NEW decisions, NEW q,
           q = SuppliedRequest(d, artifacts, decisions)
    PROVE  /\ q = [run |-> q.run, state |-> q.state, revision |-> q.revision,
                   operation |-> q.operation, authority |-> q.authority,
                   artifacts |-> artifacts, decisions |-> decisions, bounds |-> Bounds]
           /\ q.artifacts = artifacts /\ q.decisions = decisions
           /\ q.operation \in {Operation, UnknownOperation}
           /\ q.authority = [subject |-> q.authority.subject,
                             operations |-> q.authority.operations]
           /\ q.authority.subject \in {Subject, OtherSubject}
           /\ q.authority.operations \in {{}, {Operation, UnknownOperation}}
<1>1. PICK id : id = IF "request run" \in d THEN [RunId(run) EXCEPT !.subject = OtherSubject]
                                            ELSE RunId(run)
  OBVIOUS
<1>2. PICK state : state = IF "request state" \in d THEN OtherState ELSE run.state
  OBVIOUS
<1>3. PICK revision : revision = IF "request revision" \in d THEN run.revision + 1 ELSE run.revision
  OBVIOUS
<1>4. PICK operation \in {Operation, UnknownOperation} :
         operation = IF "operation" \in d THEN UnknownOperation ELSE Operation
  OBVIOUS
<1>5. PICK subject \in {Subject, OtherSubject} :
         subject = IF "authority subject" \in d THEN OtherSubject ELSE Subject
  OBVIOUS
<1>6. PICK operations \in {{}, {Operation, UnknownOperation}} :
         operations = IF "authority scope" \in d THEN {} ELSE {Operation, UnknownOperation}
  OBVIOUS
<1>7. q = [run |-> id, state |-> state, revision |-> revision, operation |-> operation,
           authority |-> [subject |-> subject, operations |-> operations],
           artifacts |-> artifacts, decisions |-> decisions, bounds |-> Bounds]
  BY <1>1, <1>2, <1>3, <1>4, <1>5, <1>6, Zenon DEF SuppliedRequest
<1> QED
  BY <1>7

\* What is applied was exact: each deviation is caught by one of the findings.
LEMMA AppliedIsExact ==
    ASSUME IInv, NEW choice \in Choices, OutcomeKind(Input(choice)) = "applied"
    PROVE  Exact(Input(choice)) /\ run.status \notin Terminal
<1> DEFINE d == choice[1]
           request == SuppliedRequest(d, choice[2], choice[3])
<1>1. PICK i : i = Input(choice)
  OBVIOUS
<1>2. /\ i.definition = IF "definition" \in d THEN OtherDefinition ELSE Definition
      /\ i.run = SuppliedRun(d) /\ i.prior = run.state /\ i.request = request
      /\ i.evidence = SuppliedEvidence(d, request, choice[4])
  BY <1>1 DEF Input
<1>3. /\ i.run.definition = i.definition /\ run.state.definition = i.definition
      /\ i.request.run = RunId(i.run)
      /\ i.run.revision = run.state.revision /\ i.run.status = run.state.status
      /\ i.request.state = run.state /\ i.request.revision = i.run.revision
      /\ i.run.status \notin Terminal
      /\ i.request.operation \in i.definition.operations
      /\ i.request.authority.subject = i.run.subject
      /\ i.request.operation \in i.request.authority.operations
  BY <1>1, <1>2, AppliedHasNoFindings, NoPreflightFinding
<1>4. i.definition = Definition
  BY <1>3 DEF IInv
<1>5. i.run = run
  <2>1. i.run = [key |-> run.key, definition |-> i.run.definition, subject |-> run.subject,
                 state |-> run.state, revision |-> i.run.revision, status |-> i.run.status,
                 artifacts |-> run.artifacts, decisions |-> run.decisions]
    BY <1>2 DEF SuppliedRun, IInv
  <2> QED
    BY <1>3, <1>4, <2>1 DEF IInv
<1>6. i.request = SuppliedRequest({}, i.request.artifacts, i.request.decisions)
  <2>1. PICK q : q = i.request
    OBVIOUS
  <2>2. /\ q = [run |-> q.run, state |-> q.state, revision |-> q.revision,
                operation |-> q.operation, authority |-> q.authority,
                artifacts |-> q.artifacts, decisions |-> q.decisions, bounds |-> Bounds]
        /\ q.operation \in {Operation, UnknownOperation}
        /\ q.authority = [subject |-> q.authority.subject, operations |-> q.authority.operations]
        /\ q.authority.subject \in {Subject, OtherSubject}
        /\ q.authority.operations \in {{}, {Operation, UnknownOperation}}
    <3>1. q = SuppliedRequest(d, choice[2], choice[3])
      BY <1>2, <2>1
    <3> QED
      BY <3>1, RequestParts
  <2>3. /\ q.run = RunId(run) /\ q.state = run.state /\ q.revision = run.revision
        /\ q.operation \in Definition.operations
        /\ q.authority.subject = Subject
        /\ q.operation \in q.authority.operations
    BY <1>3, <1>4, <1>5, <2>1 DEF IInv
  <2>4. q.operation = Operation
        /\ q.authority = [subject |-> Subject, operations |-> {Operation, UnknownOperation}]
    BY <2>2, <2>3, CoreAssumption
  <2>5. q = [run |-> RunId(run), state |-> run.state, revision |-> run.revision,
             operation |-> Operation,
             authority |-> [subject |-> Subject, operations |-> {Operation, UnknownOperation}],
             artifacts |-> q.artifacts, decisions |-> q.decisions, bounds |-> Bounds]
    BY <2>2, <2>3, <2>4
  <2>6. q = SuppliedRequest({}, q.artifacts, q.decisions)
    BY <2>5 DEF SuppliedRequest
  <2> QED
    BY <2>1, <2>6
<1>7. i.evidence = SuppliedEvidence({}, i.request, i.evidence)
  <2>1. /\ i.evidence.definition = i.definition
        /\ i.evidence.request = i.request
        /\ i.evidence.prior = i.prior
    BY <1>1, AppliedHasNoFindings DEF BindsExactly
  <2> QED
    BY <1>2, <1>4, <2>1 DEF SuppliedEvidence
<1> QED
  BY <1>1, <1>3, <1>4, <1>5, <1>6, <1>7 DEF Exact

\* A step: an exact input was applied, and this is what became of the run.
LEMMA StepExtends ==
    ASSUME IInv, Next
    PROVE  \E status, artifacts, decisions, references :
             /\ run.status \notin Terminal
             /\ run.artifacts \subseteq artifacts /\ run.decisions \subseteq decisions
             /\ run' = [run EXCEPT
                          !.state = [run |-> RunId(run), definition |-> run.definition,
                                     revision |-> run.revision + 1, status |-> status,
                                     references |-> references, predecessor |-> {run.state}],
                          !.revision = run.revision + 1,
                          !.status = status,
                          !.artifacts = artifacts,
                          !.decisions = decisions]
<1>1. PICK choice \in Choices : Apply(Input(choice))
  BY DEF Next
<1>2. PICK i : i = Input(choice)
  OBVIOUS
<1>3. OutcomeKind(i) = "applied" /\ run' = SuccessorRun(i)
  BY <1>1, <1>2 DEF Apply, Execute
<1>4. i.run = run /\ run.status \notin Terminal /\ i.prior = run.state
  BY <1>2, <1>3, AppliedIsExact DEF Exact, Input
<1>5. run.artifacts \subseteq MergedArtifacts(i) /\ run.decisions \subseteq MergedDecisions(i)
  BY <1>4 DEF MergedArtifacts, MergedDecisions
<1> QED
  BY <1>3, <1>4, <1>5 DEF SuccessorRun, SuccessorState

LEMMA InitInvariant == Init => IInv
  BY DEF Init, IInv, StartedRun, InitialState, RunId

LEMMA NextKeeps == IInv /\ [Next]_run => IInv'
<1> SUFFICES ASSUME IInv, [Next]_run
             PROVE  IInv'
  OBVIOUS
<1>1. CASE UNCHANGED run
  BY <1>1 DEF IInv, RunId
<1>2. CASE Next
  <2>1. PICK status, artifacts, decisions, references :
           run' = [run EXCEPT
                     !.state = [run |-> RunId(run), definition |-> run.definition,
                                revision |-> run.revision + 1, status |-> status,
                                references |-> references, predecessor |-> {run.state}],
                     !.revision = run.revision + 1,
                     !.status = status,
                     !.artifacts = artifacts,
                     !.decisions = decisions]
    BY <1>2, StepExtends
  <2>2. PICK state : state = [run |-> RunId(run), definition |-> run.definition,
                              revision |-> run.revision + 1, status |-> status,
                              references |-> references, predecessor |-> {run.state}]
    OBVIOUS
  <2>3. run' = [key |-> run.key, definition |-> run.definition, subject |-> run.subject,
                state |-> state, revision |-> run.revision + 1, status |-> status,
                artifacts |-> artifacts, decisions |-> decisions]
    BY <2>1, <2>2 DEF IInv
  <2> QED
    BY <2>2, <2>3 DEF IInv, RunId
<1> QED
  BY <1>1, <1>2

\* Run and snapshot agree, always.
THEOREM Invariance == Spec => []IInv
  BY InitInvariant, NextKeeps, PTL DEF Spec

\* No mixture of deviating records is applied, nor anything to a run that is
\* terminal.
THEOREM AppliedIsAlwaysExact == Spec => []AppliedOnlyWhenExact
<1>1. IInv => AppliedOnlyWhenExact
  BY AppliedIsExact DEF AppliedOnlyWhenExact
<1> QED
  BY <1>1, Invariance, PTL

\* A successor extends the run it succeeds.
THEOREM SuccessorsExtendTheRun == Spec => SuccessorExtendsRun
<1> DEFINE Extends ==
              /\ run.status \notin Terminal
              /\ run'.revision = run.revision + 1
              /\ run'.state.predecessor = {run.state}
              /\ RunId(run') = RunId(run)
              /\ run.artifacts \subseteq run'.artifacts
              /\ run.decisions \subseteq run'.decisions
<1>1. IInv /\ [Next]_run => [Extends]_run
  <2> SUFFICES ASSUME IInv, Next
               PROVE  Extends
    OBVIOUS
  <2>1. PICK status, artifacts, decisions, state :
           /\ run.status \notin Terminal
           /\ run.artifacts \subseteq artifacts /\ run.decisions \subseteq decisions
           /\ state.predecessor = {run.state}
           /\ run' = [run EXCEPT !.state = state, !.revision = run.revision + 1,
                                !.status = status, !.artifacts = artifacts,
                                !.decisions = decisions]
    BY StepExtends
  <2>2. run' = [key |-> run.key, definition |-> run.definition, subject |-> run.subject,
                state |-> state, revision |-> run.revision + 1, status |-> status,
                artifacts |-> artifacts, decisions |-> decisions]
    BY <2>1 DEF IInv
  <2> QED
    BY <2>1, <2>2 DEF RunId
<1> QED
  BY <1>1, Invariance, PTL DEF Spec, SuccessorExtendsRun

\* What is carried is finite, and within the limits is what the constructors
\* of a run ask for.
TypedInv ==
    /\ IInv /\ TypeOK
    /\ IsFiniteSet(run.artifacts) /\ IsFiniteSet(run.decisions)

\* Whatever it is bound to, evidence says what was reported.
LEMMA EvidenceParts ==
    ASSUME NEW d, NEW q, NEW report, NEW v, v = SuppliedEvidence(d, q, report)
    PROVE  /\ v.kind = report.kind /\ v.disposition = report.disposition
           /\ v.status = report.status
           /\ v.artifacts = report.artifacts /\ v.decisions = report.decisions
<1>1. PICK definition, request, prior :
         v = [kind |-> report.kind, disposition |-> report.disposition, status |-> report.status,
              references |-> report.references, artifacts |-> report.artifacts,
              decisions |-> report.decisions,
              definition |-> definition, request |-> request, prior |-> prior]
  BY Zenon DEF SuppliedEvidence
<1> QED
  BY <1>1

LEMMA ChosenParts ==
    ASSUME NEW choice \in Choices, NEW i, i = Input(choice)
    PROVE  \E artifacts \in RequestArtifacts, decisions \in RequestDecisions, report \in Reports :
              \E d : /\ i.request = SuppliedRequest(d, artifacts, decisions)
                     /\ i.evidence = SuppliedEvidence(d, i.request, report)
<1>1. /\ choice[2] \in RequestArtifacts /\ choice[3] \in RequestDecisions
      /\ choice[4] \in Reports
  BY DEF Choices
<1>2. PICK d, artifacts, decisions, report :
         /\ d = choice[1] /\ artifacts = choice[2] /\ decisions = choice[3] /\ report = choice[4]
  OBVIOUS
<1>3. PICK q, v : q = SuppliedRequest(d, artifacts, decisions) /\ v = SuppliedEvidence(d, q, report)
  OBVIOUS
<1>4. i.request = q /\ i.evidence = v
  BY <1>2, <1>3 DEF Input
<1>5. i.request = SuppliedRequest(d, artifacts, decisions)
  BY <1>3, <1>4
<1>6. i.evidence = SuppliedEvidence(d, i.request, report)
  BY <1>3, <1>4
<1>7. artifacts \in RequestArtifacts /\ decisions \in RequestDecisions /\ report \in Reports
  BY <1>1, <1>2
<1> QED
  BY <1>5, <1>6, <1>7

\* What an applied input carries: only what an adapter reported as enabled.
LEMMA AppliedCarries ==
    ASSUME NEW choice \in Choices, NEW i, i = Input(choice), OutcomeKind(i) = "applied"
    PROVE  /\ i.evidence.status \in {"active", "blocked", "completed"}
           /\ IsFiniteSet(i.request.artifacts) /\ IsFiniteSet(i.request.decisions)
           /\ Enabled(i.evidence)
           /\ IsFiniteSet(i.evidence.artifacts) /\ IsFiniteSet(i.evidence.decisions)
<1>1. PICK artifacts \in RequestArtifacts, decisions \in RequestDecisions, report \in Reports :
         \E d : i.request = SuppliedRequest(d, artifacts, decisions)
                /\ i.evidence = SuppliedEvidence(d, i.request, report)
  BY ChosenParts
<1>2. PICK q, v : q = i.request /\ v = i.evidence
  OBVIOUS
<1>3. PICK d : q = SuppliedRequest(d, artifacts, decisions) /\ v = SuppliedEvidence(d, q, report)
  BY <1>1, <1>2
<1>4. q.artifacts = artifacts /\ q.decisions = decisions
  <2>1. PICK id, state, revision, operation, authority :
           q = [run |-> id, state |-> state, revision |-> revision, operation |-> operation,
                authority |-> authority,
                artifacts |-> artifacts, decisions |-> decisions, bounds |-> Bounds]
    BY <1>3, Zenon DEF SuppliedRequest
  <2> QED
    BY <2>1
<1>5. /\ i.evidence.kind = report.kind /\ i.evidence.disposition = report.disposition
      /\ i.evidence.status = report.status
      /\ i.evidence.artifacts = report.artifacts /\ i.evidence.decisions = report.decisions
  BY <1>2, <1>3, EvidenceParts
<1>6. ~ IsFailure(i.evidence) /\ Enabled(i.evidence)
  <2>1. ~ IsFailure(i.evidence)
    BY DEF OutcomeKind
  <2>2. Enabled(i.evidence)
    <3>1. ASSUME ~ Enabled(i.evidence)
          PROVE  FALSE
      <4>1. i.evidence.disposition = "applied"
        BY <2>1, <3>1 DEF OutcomeKind
      <4>2. report.kind # "failure" /\ report.disposition = "applied"
        BY <1>5, <2>1, <4>1 DEF IsFailure
      <4> QED
        BY <4>2 DEF Reports, Report
    <3> QED
      BY <3>1
  <2> QED
    BY <2>1, <2>2
<1>7. report.kind # "failure" /\ report.disposition = "enabled"
  BY <1>5, <1>6 DEF IsFailure, Enabled
<1>8. PICK status \in {"active", "blocked", "completed"}, output \in Outputs :
         report = Report("adapter", "enabled", status, output)
  BY <1>7 DEF Reports, Report
<1>9. report.status = status /\ report.artifacts = output.artifacts
      /\ report.decisions = output.decisions
  BY <1>8 DEF Report
<1> QED
  BY <1>2, <1>4, <1>5, <1>6, <1>8, <1>9, CarriedAssumption

\* What is applied keeps the run within its limits and its decisions its own.
LEMMA AppliedIsWithin ==
    ASSUME TypedInv, NEW choice \in Choices, NEW i, i = Input(choice),
           OutcomeKind(i) = "applied", i.run = run
    PROVE  /\ IsFiniteSet(MergedArtifacts(i)) /\ Cardinality(MergedArtifacts(i)) <= MaxArtifacts
           /\ IsFiniteSet(MergedDecisions(i)) /\ Cardinality(MergedDecisions(i)) <= MaxDecisions
           /\ \A d \in MergedDecisions(i) : d.subject = run.subject
<1>1. /\ IsFiniteSet(i.request.artifacts) /\ IsFiniteSet(i.request.decisions)
      /\ IsFiniteSet(i.evidence.artifacts) /\ IsFiniteSet(i.evidence.decisions)
  BY AppliedCarries
<1>2. IsFiniteSet(run.artifacts) /\ IsFiniteSet(run.decisions)
  BY DEF TypedInv
<1>3. IsFiniteSet(MergedArtifacts(i)) /\ IsFiniteSet(MergedDecisions(i))
  BY <1>1, <1>2, FS_Union DEF MergedArtifacts, MergedDecisions
<1>4. Findings(i) = {} /\ ~ IsFailure(i.evidence)
  BY DEF OutcomeKind
<1>5. ~ OutputInvalid(i)
  <2>1. {c \in {"adapter_output_invalid"} : OutputInvalid(i)} = {}
    BY <1>4 DEF Findings, EvidenceFindings
  <2> QED
    BY <2>1
<1>6. Enabled(i.evidence)
  BY AppliedCarries
<1>7. ~ (Cardinality(MergedArtifacts(i)) > MaxArtifacts)
      /\ ~ (Cardinality(MergedDecisions(i)) > MaxDecisions)
      /\ \A d \in i.evidence.decisions : d.subject = run.subject
  BY <1>5, <1>6 DEF OutputInvalid
<1>8. Cardinality(MergedArtifacts(i)) \in Nat /\ Cardinality(MergedDecisions(i)) \in Nat
  BY <1>3, FS_CardinalityType
<1>9. \A d \in i.request.decisions : d.subject = run.subject
  <2>1. "state_mismatch" \notin PreflightFindings(i.definition, i.run, i.prior, i.request)
    BY <1>4 DEF Findings
  <2> QED
    BY <2>1 DEF PreflightFindings, PreflightCodes
<1>10. \A d \in run.decisions : d.subject = run.subject
  BY DEF TypedInv, TypeOK
<1> QED
  BY <1>3, <1>7, <1>8, <1>9, <1>10, CarriedAssumption DEF MergedDecisions

LEMMA TypedStep ==
    ASSUME TypedInv, Next
    PROVE  TypedInv'
<1>1. PICK choice \in Choices : Apply(Input(choice))
  BY DEF Next
<1>2. PICK i : i = Input(choice)
  OBVIOUS
<1>3. run.revision < MaxRevision /\ OutcomeKind(i) = "applied" /\ run' = SuccessorRun(i)
  BY <1>1, <1>2 DEF Apply, Execute
<1>4. i.run = run /\ i.prior = run.state
  BY <1>2, <1>3, AppliedIsExact DEF TypedInv, Exact, Input
<1>5. PICK artifacts, decisions, status, state :
         /\ artifacts = MergedArtifacts(i) /\ decisions = MergedDecisions(i)
         /\ status = i.evidence.status /\ state = SuccessorState(i)
  OBVIOUS
<1>6. run' = [key |-> run.key, definition |-> run.definition, subject |-> run.subject,
              state |-> state, revision |-> run.revision + 1, status |-> status,
              artifacts |-> artifacts, decisions |-> decisions]
  BY <1>3, <1>4, <1>5 DEF SuccessorRun, TypedInv, IInv
<1>7. /\ state.revision = run.revision + 1 /\ state.status = status
      /\ state.run = RunId(run) /\ state.definition = run.definition
      /\ state.predecessor = {run.state}
  BY <1>4, <1>5 DEF SuccessorState
<1>8. status \in RunStatus
  BY <1>2, <1>3, <1>5, AppliedCarries DEF RunStatus, Terminal
<1>9. /\ IsFiniteSet(artifacts) /\ Cardinality(artifacts) <= MaxArtifacts
      /\ IsFiniteSet(decisions) /\ Cardinality(decisions) <= MaxDecisions
      /\ \A d \in decisions : d.subject = run.subject
  BY <1>2, <1>3, <1>4, <1>5, AppliedIsWithin
<1>10. run.revision + 1 \in 0..MaxRevision /\ run.revision + 1 # 0
  BY <1>3, CoreAssumption DEF TypedInv, TypeOK
<1>11. run.state.revision = run.revision /\ run.definition = Definition /\ run.subject = Subject
  BY DEF TypedInv, IInv
<1>12. IInv'
  BY NextKeeps DEF TypedInv
<1>13. RunId(run)' = RunId(run)
  BY <1>6 DEF RunId
<1> QED
  BY <1>6, <1>7, <1>8, <1>9, <1>10, <1>11, <1>12, <1>13 DEF TypedInv, TypeOK

\* The type invariant: no step makes a run that the constructors of models.py
\* would refuse, whatever is carried and however the records deviate.
THEOREM TypeCorrectness == Spec => []TypeOK
<1>1. Init => TypedInv
  <2> SUFFICES ASSUME Init
               PROVE  TypedInv
    OBVIOUS
  <2>1. PICK a \in StartArtifacts : run = StartedRun("run", Definition, Subject, {}, a, {})
    BY DEF Init
  <2>2. Cardinality({}) = 0 /\ IsFiniteSet({})
    BY FS_EmptySet
  <2>3. /\ run.artifacts = a /\ run.decisions = {} /\ run.revision = 0 /\ run.status = "active"
        /\ run.state.predecessor = {}
    BY <2>1 DEF StartedRun, InitialState
  <2>4. IInv
    BY InitInvariant
  <2> QED
    BY <2>2, <2>3, <2>4, CoreAssumption, CarriedAssumption
       DEF TypedInv, TypeOK, IInv, RunStatus, Terminal
<1>2. TypedInv /\ [Next]_run => TypedInv'
  <2>1. CASE UNCHANGED run
    BY <2>1 DEF TypedInv, IInv, TypeOK, RunId
  <2> QED
    BY <2>1, TypedStep
<1>3. TypedInv => TypeOK
  BY DEF TypedInv
<1> QED
  BY <1>1, <1>2, <1>3, PTL DEF Spec
=============================================================================
