--------------------------- MODULE ReviewWorkflows --------------------------
(***************************************************************************)
(* The two metadata-only review workflows, course_review and               *)
(* reference_review: each starts runs from a typed reference and turns     *)
(* later references into inputs of the pure core (TransitionCore).         *)
(*                                                                         *)
(* Neither workflow keeps anything: what a call returns is all there is,   *)
(* and the application may hold on to every aggregate it was ever given    *)
(* and use it again.  The state is therefore the set of aggregates made so *)
(* far; a run whose start or transition is repeated with other references  *)
(* forks into aggregates of one run identity.                              *)
(*                                                                         *)
(* A proposal, an evidence or a candidate reference digests all its parts  *)
(* into its identity, so it is a value; the operators below give the parts *)
(* the workflows read.  The name of a candidate is the identity its owner  *)
(* gave it, which several references may carry.                            *)
(***************************************************************************)
EXTENDS TransitionCore

CONSTANTS Proposals, Evidences, Candidates,
          CourseOf(_),                  \* the course of a proposal
          RecordOf(_), SourceOf(_),     \* of an evidence or a candidate
          NameOf(_),                    \* candidate_identity of a candidate
          Decisions,                    \* the decisions people may hand in
          Authorities,                  \* [subject, operations] of policies
          RequestBounds                 \* WorkflowRequestBounds()

ReviewStages == {"reviewed_retained", "reviewed_excluded"}

CourseReviewDefinition ==
    [contract |-> "course-review", operations |-> {"record-course-identity-candidate"}]

ReferenceReviewDefinition ==
    [contract   |-> "reference-review",
     operations |-> {"exclude-reviewed-claim", "require-manual-claim-review",
                     "retain-reviewed-claim"}]

CourseSubject(proposal) == <<"course", CourseOf(proposal)>>
SourceSubject(evidence) == <<"research-source", SourceOf(evidence)>>

ASSUME ReviewAssumption ==
    /\ Decisions \subseteq
           [contract : {"manual-reference-claim-review", "other"}, name : {d.name : d \in Decisions},
            subject : {d.subject : d \in Decisions}, scope : {d.scope : d \in Decisions},
            outcome : {d.outcome : d \in Decisions}]
    /\ MaxArtifacts \in Nat /\ MaxDecisions \in Nat \ {0}
    /\ RequestBounds \in [references : {n \in Nat : n >= 3}, artifacts : Nat, decisions : Nat]

VARIABLE runs     \* every aggregate the application was given

Reference(kind, identity) == [kind |-> kind, identity |-> identity]
Stage(stage)              == Reference("stage", stage)

ProposalState(stage, proposal) ==
    {Stage(stage), Reference("proposal", proposal)}

EvidenceState(evidence) ==
    {Stage("reference_evidence_observed"), Reference("evidence", evidence)}

ClaimState(stage, evidence, candidate) ==
    {Stage(stage), Reference("evidence", evidence), Reference("candidate", candidate)}

-----------------------------------------------------------------------------
(* What the adapters hand to the core: a request of the given run and      *)
(* state, and enabled evidence that leads to the given references.         *)

AdapterRequest(run, state, operation, decisions, authority) ==
    [run       |-> RunId(run),
     state     |-> state,
     revision  |-> run.revision,
     operation |-> operation,
     authority |-> authority,
     artifacts |-> {},
     decisions |-> decisions,
     bounds    |-> RequestBounds]

AdapterInput(definition, run, state, request, references, status) ==
    [definition |-> definition,
     run        |-> run,
     prior      |-> state,
     request    |-> request,
     evidence   |-> [kind |-> "adapter", disposition |-> "enabled", status |-> status,
                     references |-> references, artifacts |-> {}, decisions |-> {},
                     definition |-> definition, request |-> request, prior |-> state]]

\* OrganizerCourseCandidateAdapter.transition_input: when it does not raise,
\* and what it returns.
CourseAdapterAccepts(started, proposal) ==
    /\ started.definition = CourseReviewDefinition
    /\ started.subject = CourseSubject(proposal)
    /\ started.state.references = ProposalState("proposal_observed", proposal)

CourseInput(started, proposal, authority) ==
    AdapterInput(CourseReviewDefinition, started, started.state,
                 AdapterRequest(started, started.state, "record-course-identity-candidate",
                                {}, authority),
                 ProposalState("course_identity_candidate", proposal), started.status)

\* _validate_candidate_lineage
CandidateLineage(evidence, candidate) ==
    /\ RecordOf(candidate) = RecordOf(evidence)
    /\ SourceOf(candidate) = SourceOf(evidence)

\* IngestionEvidenceReviewAdapter.transition_input
ManualAdapterAccepts(started, evidence, candidate) ==
    /\ CandidateLineage(evidence, candidate)
    /\ started.definition = ReferenceReviewDefinition
    /\ started.subject = SourceSubject(evidence)
    /\ started.state.references = EvidenceState(evidence)

ManualInput(started, evidence, candidate, authority) ==
    AdapterInput(ReferenceReviewDefinition, started, started.state,
                 AdapterRequest(started, started.state, "require-manual-claim-review",
                                {}, authority),
                 ClaimState("manual_claim_review_required", evidence, candidate),
                 started.status)

RunAndStateIdentifyOneRevision(run, state) ==
    run.state = state /\ run.revision = state.revision /\ run.status = state.status

\* Mutant: a decision on whatever candidate.
AnyManualDecision(decision, candidate) ==
    decision.contract = "manual-reference-claim-review"

\* The decision is a manual claim review, of the kind and version expected,
\* of this candidate's name.
ManualDecision(decision, candidate) ==
    /\ decision.contract = "manual-reference-claim-review"
    /\ decision.scope = NameOf(candidate)

\* IngestionEvidenceReviewAdapter.decision_transition_input.
\* Mutant: run and state are not compared.
DecidesAcrossRuns(run, state, evidence, candidate, decision) ==
    /\ CandidateLineage(evidence, candidate)
    /\ {run.definition, state.definition} = {ReferenceReviewDefinition}
    /\ {run.subject, decision.subject} = {SourceSubject(evidence)}
    /\ state.references = ClaimState("manual_claim_review_required", evidence, candidate)
    /\ ManualDecision(decision, candidate)
    /\ decision.outcome \in ReviewStages

DecisionAdapterAccepts(run, state, evidence, candidate, decision) ==
    /\ CandidateLineage(evidence, candidate)
    /\ {run.definition, state.definition} = {ReferenceReviewDefinition}
    /\ {run.subject, decision.subject} = {SourceSubject(evidence)}
    /\ RunAndStateIdentifyOneRevision(run, state)
    /\ state.references = ClaimState("manual_claim_review_required", evidence, candidate)
    /\ ManualDecision(decision, candidate)
    /\ decision.outcome \in ReviewStages

OperationOf(outcome) ==
    IF outcome = "reviewed_excluded" THEN "exclude-reviewed-claim" ELSE "retain-reviewed-claim"

DecisionInput(run, state, evidence, candidate, decision, authority) ==
    AdapterInput(ReferenceReviewDefinition, run, state,
                 AdapterRequest(run, state, OperationOf(decision.outcome), {decision}, authority),
                 ClaimState(decision.outcome, evidence, candidate), "completed")

-----------------------------------------------------------------------------
(* Steps of the application.                                               *)

Init == runs = {}

\* CourseReviewWorkflow.start
StartCourseReview(proposal) ==
    runs' = runs \cup
        {StartedRun(<<"course-review", CourseOf(proposal)>>, CourseReviewDefinition,
                    CourseSubject(proposal), ProposalState("proposal_observed", proposal), {}, {})}

\* ReferenceReviewWorkflow.start
StartReferenceReview(evidence) ==
    runs' = runs \cup
        {StartedRun(<<"reference-review", RecordOf(evidence)>>, ReferenceReviewDefinition,
                    SourceSubject(evidence), EvidenceState(evidence), {}, {})}

\* The core executes an adapter's input; only what it applies leaves a trace.
Apply(i) ==
    /\ Execute(i).kind = "applied"
    /\ runs' = runs \cup {Execute(i).run}

RecordCourseCandidate(started, proposal, authority) ==
    /\ CourseAdapterAccepts(started, proposal)
    /\ Apply(CourseInput(started, proposal, authority))

RequireManualReview(started, evidence, candidate, authority) ==
    /\ ManualAdapterAccepts(started, evidence, candidate)
    /\ Apply(ManualInput(started, evidence, candidate, authority))

DecideClaim(run, state, evidence, candidate, decision, authority) ==
    /\ DecisionAdapterAccepts(run, state, evidence, candidate, decision)
    /\ Apply(DecisionInput(run, state, evidence, candidate, decision, authority))

Next ==
    \/ \E p \in Proposals : StartCourseReview(p)
    \/ \E e \in Evidences : StartReferenceReview(e)
    \/ \E r \in runs, p \in Proposals, a \in Authorities : RecordCourseCandidate(r, p, a)
    \/ \E r \in runs, e \in Evidences, c \in Candidates, a \in Authorities :
           RequireManualReview(r, e, c, a)
    \/ \E r, s \in runs, e \in Evidences, c \in Candidates, d \in Decisions, a \in Authorities :
           DecideClaim(r, s.state, e, c, d, a)

Spec == Init /\ [][Next]_runs

-----------------------------------------------------------------------------
(* Properties.                                                             *)

\* Everything the adapters agree to turn into an input.
AcceptedInputs ==
    LET recorded == {x \in runs \X Proposals : CourseAdapterAccepts(x[1], x[2])}
        required == {x \in runs \X Evidences \X Candidates :
                        ManualAdapterAccepts(x[1], x[2], x[3])}
        decided  == {x \in runs \X {r.state : r \in runs} \X Evidences \X Candidates
                              \X Decisions :
                        DecisionAdapterAccepts(x[1], x[2], x[3], x[4], x[5])}
    IN  UNION {{CourseInput(x[1], x[2], a) : x \in recorded}
                   \cup {ManualInput(x[1], x[2], x[3], a) : x \in required}
                   \cup {DecisionInput(x[1], x[2], x[3], x[4], x[5], a) : x \in decided} :
               a \in Authorities}

\* Aggregates of the two definitions, at most two transitions from their start.
TypeOK ==
    \A r \in runs :
        /\ r.definition \in {CourseReviewDefinition, ReferenceReviewDefinition}
        /\ r.revision \in 0..2 /\ r.state.revision = r.revision
        /\ r.status \in {"active", "completed"} /\ r.state.status = r.status
        /\ r.artifacts = {}
        /\ r.decisions \subseteq Decisions

\* A run ends only by one human decision on the name of the candidate whose
\* manual review was required before, about the run's own source, with the
\* outcome the run ended in; the state before names the same evidence and
\* candidate, and the one before that the same evidence.  Whatever forks the
\* application makes and mixes, nothing is reviewed without it.
ReviewedOnHumanDecision ==
    \A r \in runs : r.status \in Terminal =>
        \E e \in Evidences, c \in Candidates, d \in Decisions :
            /\ r.decisions = {d}
            /\ d.contract = "manual-reference-claim-review"
            /\ d.scope = NameOf(c) /\ d.subject = r.subject /\ r.subject = SourceSubject(e)
            /\ d.outcome \in ReviewStages
            /\ CandidateLineage(e, c)
            /\ r.state.references = ClaimState(d.outcome, e, c)
            /\ \E required \in r.state.predecessor :
                  /\ required.references = ClaimState("manual_claim_review_required", e, c)
                  /\ \E first \in required.predecessor : first.references = EvidenceState(e)

\* What an adapter accepts, the core refuses for its authority alone: nothing
\* the adapters check differs from what the core checks again.
AdapterInputIsExact ==
    \A i \in AcceptedInputs :
        OutcomeKind(i) =
            IF /\ i.request.authority.subject = i.run.subject
               /\ i.request.operation \in i.request.authority.operations
            THEN "applied" ELSE "rejected_invalid"

\* The input made for one aggregate is not applied to another one of the same
\* run identity, nor taken for a stale request that a retry could mend: a fork
\* cannot borrow the transition of its twin.
ForksStayApart ==
    \A i \in AcceptedInputs, r \in runs :
        RunId(r) = RunId(i.run) /\ r.state # i.prior =>
            OutcomeKind([i EXCEPT !.run = r, !.prior = r.state]) = "rejected_invalid"
=============================================================================
