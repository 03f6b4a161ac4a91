--------------------------- MODULE TransitionCore ---------------------------
(***************************************************************************)
(* The pure core of core/processing.py over the records of core/models.py: *)
(* what one transition request comes to, given the run, the prior state    *)
(* and the evidence of an engine adapter or of a failure.                  *)
(*                                                                         *)
(* A content identity is a digest of the whole record, so a record stands  *)
(* for its own identity, and equality of records for equality of           *)
(* identities.  Only a run is named by less than its content: by its key,  *)
(* definition and subject (RunId).  Artifacts and state references are     *)
(* values; a decision is a record that names the subject it is about.      *)
(***************************************************************************)
EXTENDS Naturals, FiniteSets

CONSTANTS None,             \* no successor
          MaxArtifacts,     \* WorkflowRun.MAX_ARTIFACT_REFERENCES
          MaxDecisions      \* WorkflowRun.MAX_DECISION_REFERENCES

Terminal == {"completed", "failed", "cancelled"}
RunStatus == Terminal \cup {"active", "blocked"}

RunId(run) ==
    [key |-> run.key, definition |-> run.definition, subject |-> run.subject]

\* WorkflowRunStarter: revision zero, active, no predecessor.  A predecessor
\* that may be absent is a set of at most one snapshot.
InitialState(key, definition, subject, references) ==
    [run         |-> [key |-> key, definition |-> definition, subject |-> subject],
     definition  |-> definition,
     revision    |-> 0,
     status      |-> "active",
     references  |-> references,
     predecessor |-> {}]

StartedRun(key, definition, subject, references, artifacts, decisions) ==
    [key        |-> key,
     definition |-> definition,
     subject    |-> subject,
     state      |-> InitialState(key, definition, subject, references),
     revision   |-> 0,
     status     |-> "active",
     artifacts  |-> artifacts,
     decisions  |-> decisions]

-----------------------------------------------------------------------------
(* Findings.  The code keeps a bounded list of findings with paths and     *)
(* messages; the outcome depends on the set of their codes alone.          *)

PreflightCodes ==
    {"definition_mismatch", "run_mismatch", "state_mismatch", "revision_conflict",
     "terminal_run", "unknown_operation", "authority_subject_mismatch",
     "authority_scope_mismatch"}

PreflightFindings(definition, run, prior, request) ==
    {code \in PreflightCodes :
        \/ /\ code = "definition_mismatch"
           /\ run.definition # definition \/ prior.definition # definition
        \/ /\ code = "run_mismatch"
           /\ prior.run # RunId(run) \/ request.run # RunId(run)
        \/ /\ code = "state_mismatch"
           /\ \/ run.state # prior
              \/ run.revision # prior.revision
              \/ run.status # prior.status
              \/ \E d \in request.decisions : d.subject # run.subject
        \/ /\ code = "revision_conflict"
           /\ request.state # prior \/ request.revision # run.revision
        \/ code = "terminal_run" /\ run.status \in Terminal
        \/ code = "unknown_operation" /\ request.operation \notin definition.operations
        \/ /\ code = "authority_subject_mismatch"
           /\ request.authority.subject # run.subject
        \/ /\ code = "authority_scope_mismatch"
           /\ request.operation \notin request.authority.operations}

\* The references of a successor run: those of the run, of the request and
\* of the evidence.  Equal content identities mean equal references, so the
\* collision that _merge_artifacts and _merge_decisions look for cannot occur.
CarriedArtifacts(i) == i.request.artifacts \cup i.evidence.artifacts   \* mutant

MergedArtifacts(i) ==
    i.run.artifacts \cup i.request.artifacts \cup i.evidence.artifacts

MergedDecisions(i) ==
    i.run.decisions \cup i.request.decisions \cup i.evidence.decisions

IsFailure(evidence) == evidence.kind = "failure"

Enabled(evidence) == ~ IsFailure(evidence) /\ evidence.disposition = "enabled"

BindsRequest(i) == i.evidence.request = i.request   \* mutant

BindsExactly(i) ==
    /\ i.evidence.definition = i.definition
    /\ i.evidence.request = i.request
    /\ i.evidence.prior = i.prior

\* Mutant: only the output itself is measured, not the run it is merged into.
OutputOversized(i) ==
    \/ Enabled(i.evidence)
       /\ Cardinality(i.evidence.references) > i.request.bounds.references
    \/ Cardinality(i.evidence.artifacts) > i.request.bounds.artifacts
    \/ Cardinality(i.evidence.decisions) > i.request.bounds.decisions
    \/ \E d \in i.evidence.decisions : d.subject # i.run.subject

OutputInvalid(i) ==
    \/ Enabled(i.evidence)
       /\ \/ Cardinality(i.evidence.references) > i.request.bounds.references
          \/ Cardinality(MergedArtifacts(i)) > MaxArtifacts
          \/ Cardinality(MergedDecisions(i)) > MaxDecisions
    \/ Cardinality(i.evidence.artifacts) > i.request.bounds.artifacts
    \/ Cardinality(i.evidence.decisions) > i.request.bounds.decisions
    \/ \E d \in i.evidence.decisions : d.subject # i.run.subject

EvidenceFindings(i) ==
    IF IsFailure(i.evidence)
    THEN {c \in {"infrastructure_evidence_mismatch"} : i.evidence.request # i.request}
    ELSE {c \in {"adapter_evidence_mismatch"} : ~ BindsExactly(i)}
             \cup {c \in {"adapter_output_invalid"} : OutputInvalid(i)}

Findings(i) ==
    PreflightFindings(i.definition, i.run, i.prior, i.request) \cup EvidenceFindings(i)

-----------------------------------------------------------------------------
(* Outcomes.                                                               *)

OutcomeKind(i) ==
    LET findings == Findings(i)
    IN  CASE findings \ {"revision_conflict"} # {} -> "rejected_invalid"
          [] findings = {"revision_conflict"}      -> "conflict"
          [] findings = {} /\ IsFailure(i.evidence) -> "infrastructure_failure"
          [] findings = {} /\ ~ IsFailure(i.evidence) ->
                 IF Enabled(i.evidence) THEN "applied" ELSE i.evidence.disposition

SuccessorState(i) ==
    [run         |-> RunId(i.run),
     definition  |-> i.run.definition,
     revision    |-> i.run.revision + 1,
     status      |-> i.evidence.status,
     references  |-> i.evidence.references,
     predecessor |-> {i.prior}]

SuccessorRun(i) ==
    [i.run EXCEPT !.state     = SuccessorState(i),
                  !.revision  = i.run.revision + 1,
                  !.status    = i.evidence.status,
                  !.artifacts = MergedArtifacts(i),
                  !.decisions = MergedDecisions(i)]

\* WorkflowTransitionProcessor.execute.
Execute(i) ==
    [kind     |-> OutcomeKind(i),
     request  |-> i.request,
     evidence |-> i.evidence,
     run      |-> IF OutcomeKind(i) = "applied" THEN SuccessorRun(i) ELSE None]
=============================================================================
