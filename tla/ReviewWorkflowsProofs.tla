------------------------ MODULE ReviewWorkflowsProofs -----------------------
(***************************************************************************)
(* What holds of the review workflows for any proposals, evidences,        *)
(* candidates, decisions and authorities, and for any use that is made of  *)
(* the aggregates: nothing is reviewed but by a human decision.            *)
(*                                                                         *)
(* No aggregate says at which stage it is but by its references, and an    *)
(* application may offer any of them to any adapter.  The invariant says   *)
(* what kind of aggregate each set of references belongs to; that the      *)
(* adapters compare references then keeps the stages in order.             *)
(***************************************************************************)
EXTENDS ReviewWorkflows, FiniteSetTheorems, TLAPS

\* An aggregate is a record of these fields.
WholeRun(r) ==
    r = [key |-> r.key, definition |-> r.definition, subject |-> r.subject,
         state |-> r.state, revision |-> r.revision, status |-> r.status,
         artifacts |-> r.artifacts, decisions |-> r.decisions]

\* The run and its own state say the same of themselves, and nothing but
\* references and decisions was ever attached.
Coherent(r) ==
    /\ r.state.run = RunId(r) /\ r.state.definition = r.definition
    /\ r.state.revision = r.revision /\ r.state.status = r.status
    /\ r.artifacts = {}

\* A course review, which never ends.
CourseReview(r) ==
    r.definition = CourseReviewDefinition /\ r.status = "active" /\ r.decisions = {}

ObservedEvidence(r) ==
    /\ r.definition = ReferenceReviewDefinition /\ r.status = "active" /\ r.decisions = {}
    /\ \E e \in Evidences : r.state.references = EvidenceState(e)

AwaitsReview(r) ==
    /\ r.definition = ReferenceReviewDefinition /\ r.status = "active" /\ r.decisions = {}
    /\ \E e \in Evidences, c \in Candidates :
          /\ r.state.references = ClaimState("manual_claim_review_required", e, c)
          /\ \E first \in r.state.predecessor : first.references = EvidenceState(e)

ReviewedBy(r, e, c, d) ==
    /\ r.decisions = {d}
    /\ d.contract = "manual-reference-claim-review"
    /\ d.scope = NameOf(c) /\ d.subject = r.subject /\ r.subject = SourceSubject(e)
    /\ d.outcome \in ReviewStages
    /\ CandidateLineage(e, c)
    /\ r.state.references = ClaimState(d.outcome, e, c)
    /\ \E required \in r.state.predecessor :
          /\ required.references = ClaimState("manual_claim_review_required", e, c)
          /\ \E first \in required.predecessor : first.references = EvidenceState(e)

Reviewed(r) ==
    /\ r.definition = ReferenceReviewDefinition
    /\ \E e \in Evidences, c \in Candidates, d \in Decisions : ReviewedBy(r, e, c, d)

Shaped(r) ==
    /\ WholeRun(r) /\ Coherent(r)
    /\ (CourseReview(r) \/ ObservedEvidence(r) \/ AwaitsReview(r) \/ Reviewed(r))

IInv == \A r \in runs : Shaped(r)

-----------------------------------------------------------------------------
(* The references tell the stages apart.                                   *)

LEMMA StagesDiffer ==
    /\ CourseReviewDefinition # ReferenceReviewDefinition
    /\ \A e, f, c, stage : EvidenceState(e) # ClaimState(stage, f, c)
    /\ \A e, f : EvidenceState(e) = EvidenceState(f) => e = f
    /\ \A e, f, c, d : \A stage \in ReviewStages :
          ClaimState("manual_claim_review_required", e, c) # ClaimState(stage, f, d)
    /\ \A e, f, c, d :
          ClaimState("manual_claim_review_required", e, c)
              = ClaimState("manual_claim_review_required", f, d) => e = f /\ c = d
<1>1. CourseReviewDefinition # ReferenceReviewDefinition
  <2>1. CourseReviewDefinition.contract # ReferenceReviewDefinition.contract
    BY DEF CourseReviewDefinition, ReferenceReviewDefinition
  <2> QED
    BY <2>1
<1>2. ASSUME NEW e, NEW f, NEW c, NEW stage
      PROVE  EvidenceState(e) # ClaimState(stage, f, c)
  <2>1. Reference("candidate", c) \in ClaimState(stage, f, c)
    BY DEF ClaimState
  <2>2. Reference("candidate", c) # Reference("stage", "reference_evidence_observed")
        /\ Reference("candidate", c) # Reference("evidence", e)
    BY DEF Reference
  <2> QED
    BY <2>1, <2>2 DEF EvidenceState, Stage
<1>3. ASSUME NEW e, NEW f, EvidenceState(e) = EvidenceState(f)
      PROVE  e = f
  <2>1. Reference("evidence", e) \in EvidenceState(f)
    BY <1>3 DEF EvidenceState
  <2>2. Reference("evidence", e) # Reference("stage", "reference_evidence_observed")
    BY DEF Reference
  <2> QED
    BY <2>1, <2>2 DEF EvidenceState, Stage, Reference
<1>4. ASSUME NEW e, NEW f, NEW c, NEW d, NEW stage \in ReviewStages
      PROVE  ClaimState("manual_claim_review_required", e, c) # ClaimState(stage, f, d)
  <2>1. Reference("stage", stage) \in ClaimState(stage, f, d)
    BY DEF ClaimState, Stage
  <2>2. stage # "manual_claim_review_required"
    BY DEF ReviewStages
  <2>3. Reference("stage", stage) # Reference("stage", "manual_claim_review_required")
        /\ Reference("stage", stage) # Reference("evidence", e)
        /\ Reference("stage", stage) # Reference("candidate", c)
    BY <2>2 DEF Reference
  <2> QED
    BY <2>1, <2>3 DEF ClaimState, Stage
<1>5. ASSUME NEW e, NEW f, NEW c, NEW d,
             ClaimState("manual_claim_review_required", e, c)
                 = ClaimState("manual_claim_review_required", f, d)
      PROVE  e = f /\ c = d
  <2>1. /\ Reference("evidence", e) \in ClaimState("manual_claim_review_required", f, d)
        /\ Reference("candidate", c) \in ClaimState("manual_claim_review_required", f, d)
    BY <1>5 DEF ClaimState
  <2>2. /\ Reference("evidence", e) # Stage("manual_claim_review_required")
        /\ Reference("evidence", e) # Reference("candidate", d)
        /\ Reference("candidate", c) # Stage("manual_claim_review_required")
        /\ Reference("candidate", c) # Reference("evidence", f)
    BY DEF Reference, Stage
  <2>3. Reference("evidence", e) = Reference("evidence", f)
        /\ Reference("candidate", c) = Reference("candidate", d)
    BY <2>1, <2>2 DEF ClaimState
  <2> QED
    BY <2>3 DEF Reference
<1> QED
  BY <1>1, <1>2, <1>3, <1>4, <1>5

\* What becomes of an adapter's input.
LEMMA AppliedInput ==
    ASSUME NEW r, WholeRun(r), r.artifacts = {}, NEW definition, NEW state, NEW operation,
           NEW decisions, NEW authority, NEW references, NEW status,
           Apply(AdapterInput(definition, r, state,
                              AdapterRequest(r, state, operation, decisions, authority),
                              references, status))
    PROVE  \E next :
              /\ runs' = runs \cup {next}
              /\ WholeRun(next) /\ Coherent(next)
              /\ next.definition = r.definition /\ next.subject = r.subject
              /\ next.status = status
              /\ next.decisions = r.decisions \cup decisions
              /\ next.state.references = references
              /\ next.state.predecessor = {state}
<1>1. PICK q : q = AdapterRequest(r, state, operation, decisions, authority)
  OBVIOUS
<1>2. PICK i : i = AdapterInput(definition, r, state, q, references, status)
  OBVIOUS
<1>3. q.decisions = decisions /\ q.artifacts = {}
  BY <1>1 DEF AdapterRequest
<1>4. /\ i.run = r /\ i.prior = state /\ i.request = q
      /\ i.evidence.status = status /\ i.evidence.references = references
      /\ i.evidence.decisions = {} /\ i.evidence.artifacts = {}
  BY <1>2 DEF AdapterInput
<1>5. runs' = runs \cup {SuccessorRun(i)}
  BY <1>1, <1>2 DEF Apply, Execute
<1>6. PICK after : after = SuccessorState(i)
  OBVIOUS
<1>7. /\ after.references = references /\ after.predecessor = {state}
      /\ after.run = RunId(r) /\ after.definition = r.definition
      /\ after.revision = r.revision + 1 /\ after.status = status
  BY <1>4, <1>6 DEF SuccessorState
<1>8. PICK artifacts : artifacts = MergedArtifacts(i) /\ artifacts = {}
  BY <1>3, <1>4 DEF MergedArtifacts
<1>9. MergedDecisions(i) = r.decisions \cup decisions
  BY <1>3, <1>4 DEF MergedDecisions
<1>10. PICK next : next = SuccessorRun(i)
  OBVIOUS
<1>11. next = [key |-> r.key, definition |-> r.definition, subject |-> r.subject,
               state |-> after, revision |-> r.revision + 1, status |-> status,
               artifacts |-> artifacts, decisions |-> r.decisions \cup decisions]
  BY <1>4, <1>6, <1>8, <1>9, <1>10 DEF SuccessorRun, WholeRun
<1>12. Coherent(next)
  BY <1>7, <1>8, <1>11 DEF Coherent, RunId
<1> QED
  BY <1>5, <1>7, <1>10, <1>11, <1>12 DEF WholeRun

-----------------------------------------------------------------------------
(* The steps of the application.                                           *)

LEMMA StartsKeep ==
    ASSUME IInv,
           \/ \E p \in Proposals : StartCourseReview(p)
           \/ \E e \in Evidences : StartReferenceReview(e)
    PROVE  IInv'
<1>1. ASSUME NEW p \in Proposals, StartCourseReview(p)
      PROVE  IInv'
  <2>1. PICK r : r = StartedRun(<<"course-review", CourseOf(p)>>, CourseReviewDefinition,
                                CourseSubject(p), ProposalState("proposal_observed", p), {}, {})
    OBVIOUS
  <2>2. Shaped(r)
    BY <2>1 DEF Shaped, WholeRun, Coherent, CourseReview, StartedRun, InitialState, RunId
  <2> QED
    BY <1>1, <2>1, <2>2 DEF IInv, StartCourseReview
<1>2. ASSUME NEW e \in Evidences, StartReferenceReview(e)
      PROVE  IInv'
  <2>1. PICK r : r = StartedRun(<<"reference-review", RecordOf(e)>>, ReferenceReviewDefinition,
                                SourceSubject(e), EvidenceState(e), {}, {})
    OBVIOUS
  <2>2. Shaped(r)
    BY <2>1 DEF Shaped, WholeRun, Coherent, ObservedEvidence, StartedRun, InitialState, RunId
  <2> QED
    BY <1>2, <2>1, <2>2 DEF IInv, StartReferenceReview
<1> QED
  BY <1>1, <1>2

LEMMA RecordCourseCandidateKeeps ==
    ASSUME IInv, NEW r \in runs, NEW p \in Proposals, NEW a \in Authorities,
           RecordCourseCandidate(r, p, a)
    PROVE  IInv'
<1>1. WholeRun(r) /\ Coherent(r) /\ CourseReview(r)
  BY StagesDiffer DEF IInv, Shaped, CourseReview, ObservedEvidence, AwaitsReview, Reviewed,
                      RecordCourseCandidate, CourseAdapterAccepts
<1> DEFINE none == {}
<1>2. Apply(AdapterInput(CourseReviewDefinition, r, r.state,
                         AdapterRequest(r, r.state, "record-course-identity-candidate", none, a),
                         ProposalState("course_identity_candidate", p), r.status))
  BY DEF RecordCourseCandidate, CourseInput
<1>3. r.artifacts = {}
  BY <1>1 DEF Coherent
<1> HIDE DEF none
<1>4. PICK next : /\ runs' = runs \cup {next} /\ WholeRun(next) /\ Coherent(next)
                  /\ next.definition = r.definition /\ next.status = r.status
                  /\ next.decisions = r.decisions \cup none
  BY <1>1, <1>2, <1>3, AppliedInput
<1>5. Shaped(next)
  BY <1>1, <1>4 DEF Shaped, CourseReview, none
<1> QED
  BY <1>4, <1>5 DEF IInv

LEMMA RequireManualReviewKeeps ==
    ASSUME IInv, NEW r \in runs, NEW e \in Evidences, NEW c \in Candidates,
           NEW a \in Authorities, RequireManualReview(r, e, c, a)
    PROVE  IInv'
<1>1. r.definition = ReferenceReviewDefinition /\ r.state.references = EvidenceState(e)
  BY DEF RequireManualReview, ManualAdapterAccepts
<1>2. WholeRun(r) /\ r.artifacts = {} /\ ObservedEvidence(r)
  BY <1>1, StagesDiffer
     DEF IInv, Shaped, Coherent, CourseReview, AwaitsReview, Reviewed, ReviewedBy
<1> DEFINE references == ClaimState("manual_claim_review_required", e, c)
           none == {}
<1>3. Apply(AdapterInput(ReferenceReviewDefinition, r, r.state,
                         AdapterRequest(r, r.state, "require-manual-claim-review", none, a),
                         references, r.status))
  BY DEF RequireManualReview, ManualInput
<1> HIDE DEF references, none
<1>4. PICK next : /\ runs' = runs \cup {next} /\ WholeRun(next) /\ Coherent(next)
                  /\ next.definition = r.definition /\ next.status = r.status
                  /\ next.decisions = r.decisions \cup none
                  /\ next.state.references = references
                  /\ next.state.predecessor = {r.state}
  BY <1>2, <1>3, AppliedInput
<1>5. AwaitsReview(next)
  BY <1>1, <1>2, <1>4 DEF ObservedEvidence, AwaitsReview, references, none
<1> QED
  BY <1>4, <1>5 DEF IInv, Shaped

LEMMA DecideClaimKeeps ==
    ASSUME IInv, NEW r \in runs, NEW s \in runs, NEW e \in Evidences, NEW c \in Candidates,
           NEW d \in Decisions, NEW a \in Authorities, DecideClaim(r, s.state, e, c, d, a)
    PROVE  IInv'
<1>1. /\ r.definition = ReferenceReviewDefinition /\ r.state = s.state
      /\ r.state.references = ClaimState("manual_claim_review_required", e, c)
      /\ r.subject = SourceSubject(e) /\ d.subject = SourceSubject(e)
      /\ d.contract = "manual-reference-claim-review" /\ d.scope = NameOf(c)
      /\ d.outcome \in ReviewStages /\ CandidateLineage(e, c)
  BY DEF DecideClaim, DecisionAdapterAccepts, RunAndStateIdentifyOneRevision, ManualDecision
<1>2. WholeRun(r) /\ r.artifacts = {} /\ AwaitsReview(r)
  <2>1. /\ WholeRun(r) /\ r.artifacts = {}
        /\ (CourseReview(r) \/ ObservedEvidence(r) \/ AwaitsReview(r) \/ Reviewed(r))
    BY DEF IInv, Shaped, Coherent
  <2>2. ~ CourseReview(r)
    BY <1>1, StagesDiffer DEF CourseReview
  <2>3. ~ ObservedEvidence(r)
    BY <1>1, StagesDiffer DEF ObservedEvidence
  <2>4. ~ Reviewed(r)
    <3> SUFFICES ASSUME NEW f \in Evidences, NEW b \in Candidates, NEW x \in Decisions,
                        ReviewedBy(r, f, b, x)
                 PROVE  FALSE
      BY DEF Reviewed
    <3>1. x.outcome \in ReviewStages /\ r.state.references = ClaimState(x.outcome, f, b)
      BY DEF ReviewedBy
    <3>2. ClaimState("manual_claim_review_required", e, c) # ClaimState(x.outcome, f, b)
      BY <3>1, StagesDiffer
    <3> QED
      BY <1>1, <3>1, <3>2
  <2> QED
    BY <2>1, <2>2, <2>3, <2>4
<1>3. \E first \in r.state.predecessor : first.references = EvidenceState(e)
  BY <1>1, <1>2, StagesDiffer DEF AwaitsReview
<1>4. PICK next : /\ runs' = runs \cup {next} /\ WholeRun(next) /\ Coherent(next)
                  /\ next.definition = r.definition /\ next.subject = r.subject
                  /\ next.decisions = r.decisions \cup {d}
                  /\ next.state.references = ClaimState(d.outcome, e, c)
                  /\ next.state.predecessor = {r.state}
  BY <1>1, <1>2, AppliedInput DEF DecideClaim, DecisionInput
<1>5. ReviewedBy(next, e, c, d)
  BY <1>1, <1>2, <1>3, <1>4 DEF AwaitsReview, ReviewedBy
<1>6. Reviewed(next)
  BY <1>1, <1>4, <1>5 DEF Reviewed
<1> QED
  BY <1>4, <1>6 DEF IInv, Shaped

\* Every aggregate is at one of the stages, and came there in order.
THEOREM Invariance == Spec => []IInv
<1>1. Init => IInv
  BY DEF Init, IInv
<1>2. IInv /\ [Next]_runs => IInv'
  <2> SUFFICES ASSUME IInv, [Next]_runs
               PROVE  IInv'
    OBVIOUS
  <2>1. CASE UNCHANGED runs
    BY <2>1 DEF IInv
  <2>2. CASE Next
    BY <2>2, StartsKeep, RecordCourseCandidateKeeps, RequireManualReviewKeeps, DecideClaimKeeps
    DEF Next
  <2> QED
    BY <2>1, <2>2
<1> QED
  BY <1>1, <1>2, PTL DEF Spec

\* Nothing is reviewed without a human decision on what was required before.
THEOREM ReviewsRestOnDecisions == Spec => []ReviewedOnHumanDecision
<1>1. IInv => ReviewedOnHumanDecision
  <2> SUFFICES ASSUME IInv, NEW r \in runs, r.status \in Terminal
               PROVE  \E e \in Evidences, c \in Candidates, d \in Decisions :
                         ReviewedBy(r, e, c, d)
    BY DEF ReviewedOnHumanDecision, ReviewedBy
  <2>1. r.status # "active"
    BY DEF Terminal
  <2> QED
    BY <2>1 DEF IInv, Shaped, CourseReview, ObservedEvidence, AwaitsReview, Reviewed
<1> QED
  BY <1>1, Invariance, PTL

-----------------------------------------------------------------------------
(* What the core makes of an input that an adapter accepted.               *)

\* The references of a state are few.
LEMMA FewReferences ==
    ASSUME NEW a, NEW b, NEW c
    PROVE  /\ Cardinality({a, b}) \in 0..3
           /\ Cardinality({a, b, c}) \in 0..3
<1>1. IsFiniteSet({a}) /\ Cardinality({a}) = 1
  BY FS_Singleton
<1>2. /\ IsFiniteSet({a} \cup {b})
      /\ Cardinality({a} \cup {b}) \in {1, 2}
  BY <1>1, FS_AddElement
<1>3. Cardinality(({a} \cup {b}) \cup {c}) \in {1, 2, 3}
  BY <1>2, FS_AddElement
<1>4. {a, b} = {a} \cup {b} /\ {a, b, c} = ({a} \cup {b}) \cup {c}
  OBVIOUS
<1> QED
  BY <1>2, <1>3, <1>4

\* An input of a running aggregate and its own state, with at most one
\* decision, on the same subject, is refused for its authority or not at all.
LEMMA ExactInput ==
    ASSUME NEW r, Coherent(r), r.status = "active", r.decisions = {},
           NEW operation, operation \in r.definition.operations,
           NEW decisions, NEW authority, NEW references, NEW status,
           decisions = {} \/ \E d : decisions = {d} /\ d.subject = r.subject,
           Cardinality(references) \in 0..3,
           NEW i, i = AdapterInput(r.definition, r, r.state,
                                   AdapterRequest(r, r.state, operation, decisions, authority),
                                   references, status)
    PROVE  OutcomeKind(i) =
               IF /\ i.request.authority.subject = i.run.subject
                  /\ i.request.operation \in i.request.authority.operations
               THEN "applied" ELSE "rejected_invalid"
<1>1. PICK q : q = AdapterRequest(r, r.state, operation, decisions, authority)
  OBVIOUS
<1>2. /\ q.run = RunId(r) /\ q.state = r.state /\ q.revision = r.revision
      /\ q.operation = operation /\ q.authority = authority /\ q.artifacts = {}
      /\ q.decisions = decisions /\ q.bounds = RequestBounds
  BY <1>1 DEF AdapterRequest
<1>3. /\ i.definition = r.definition /\ i.run = r /\ i.prior = r.state /\ i.request = q
      /\ i.evidence.kind = "adapter" /\ i.evidence.disposition = "enabled"
      /\ i.evidence.references = references /\ i.evidence.artifacts = {}
      /\ i.evidence.decisions = {} /\ i.evidence.definition = r.definition
      /\ i.evidence.request = q /\ i.evidence.prior = r.state
  BY <1>1 DEF AdapterInput
<1>4. ~ OutputInvalid(i)
  <2>1. Cardinality({}) = 0
    BY FS_EmptySet
  <2>2. ~ (Cardinality(references) > RequestBounds.references)
    BY ReviewAssumption
  <2>3. MergedArtifacts(i) = {} /\ ~ (Cardinality(MergedArtifacts(i)) > MaxArtifacts)
    <3>1. MergedArtifacts(i) = {}
      BY <1>2, <1>3 DEF MergedArtifacts, Coherent
    <3> QED
      BY <2>1, <3>1, ReviewAssumption
  <2>4. ~ (Cardinality(MergedDecisions(i)) > MaxDecisions)
    <3>1. MergedDecisions(i) = decisions
      BY <1>2, <1>3 DEF MergedDecisions
    <3>2. Cardinality(decisions) \in {0, 1}
      BY <2>1, FS_Singleton
    <3> QED
      BY <3>1, <3>2, ReviewAssumption
  <2>5. /\ ~ (Cardinality({}) > RequestBounds.artifacts)
        /\ ~ (Cardinality({}) > RequestBounds.decisions)
    BY <2>1, ReviewAssumption
  <2> QED
    BY <1>2, <1>3, <2>2, <2>3, <2>4, <2>5 DEF OutputInvalid
<1>5. EvidenceFindings(i) = {} /\ ~ IsFailure(i.evidence) /\ Enabled(i.evidence)
  BY <1>3, <1>4 DEF EvidenceFindings, BindsExactly, IsFailure, Enabled
<1>6. \A code : code \in PreflightFindings(i.definition, i.run, i.prior, i.request) <=>
          \/ /\ code = "authority_subject_mismatch"
             /\ authority.subject # r.subject
          \/ /\ code = "authority_scope_mismatch"
             /\ operation \notin authority.operations
  <2>1. /\ ~ (r.definition # r.definition \/ r.state.definition # r.definition)
        /\ ~ (r.state.run # RunId(r) \/ q.run # RunId(r))
        /\ ~ (r.revision # r.state.revision \/ r.status # r.state.status)
        /\ ~ (\E d \in q.decisions : d.subject # r.subject)
        /\ ~ (q.state # r.state \/ q.revision # r.revision)
        /\ r.status \notin Terminal
        /\ q.operation \in r.definition.operations
    BY <1>2 DEF Coherent, Terminal
  <2> QED
    BY <1>2, <1>3, <2>1 DEF PreflightFindings, PreflightCodes
<1>7. CASE authority.subject = r.subject /\ operation \in authority.operations
  <2>1. Findings(i) = {}
    BY <1>5, <1>6, <1>7 DEF Findings
  <2>2. OutcomeKind(i) = "applied"
    BY <1>5, <2>1 DEF OutcomeKind
  <2> QED
    BY <1>2, <1>3, <1>7, <2>2
<1>8. CASE ~ (authority.subject = r.subject /\ operation \in authority.operations)
  <2>1. Findings(i) \ {"revision_conflict"} # {}
    BY <1>6, <1>8 DEF Findings
  <2>2. OutcomeKind(i) = "rejected_invalid"
    BY <2>1 DEF OutcomeKind
  <2> QED
    BY <1>2, <1>3, <1>8, <2>2
<1> QED
  BY <1>7, <1>8

\* What the adapters accept is a course reference of an open course review, a
\* claim of the evidence a run observed, or a decision a run awaits.
LEMMA AcceptedForms ==
    ASSUME NEW i \in AcceptedInputs
    PROVE  \E a \in Authorities, r \in runs :
              \/ \E p \in Proposals :
                    CourseAdapterAccepts(r, p) /\ i = CourseInput(r, p, a)
              \/ \E e \in Evidences, c \in Candidates :
                    ManualAdapterAccepts(r, e, c) /\ i = ManualInput(r, e, c, a)
              \/ \E s \in runs, e \in Evidences, c \in Candidates, d \in Decisions :
                    /\ DecisionAdapterAccepts(r, s.state, e, c, d)
                    /\ i = DecisionInput(r, s.state, e, c, d, a)
<1> DEFINE recorded == {x \in runs \X Proposals : CourseAdapterAccepts(x[1], x[2])}
           required == {x \in runs \X Evidences \X Candidates :
                           ManualAdapterAccepts(x[1], x[2], x[3])}
           decided  == {x \in runs \X {r.state : r \in runs} \X Evidences \X Candidates
                                 \X Decisions :
                           DecisionAdapterAccepts(x[1], x[2], x[3], x[4], x[5])}
<1>1. PICK a \in Authorities :
          \/ \E x \in recorded : i = CourseInput(x[1], x[2], a)
          \/ \E x \in required : i = ManualInput(x[1], x[2], x[3], a)
          \/ \E x \in decided : i = DecisionInput(x[1], x[2], x[3], x[4], x[5], a)
  BY DEF AcceptedInputs
<1>2. CASE \E x \in recorded : i = CourseInput(x[1], x[2], a)
  BY <1>2
<1>3. CASE \E x \in required : i = ManualInput(x[1], x[2], x[3], a)
  BY <1>3
<1>4. CASE \E x \in decided : i = DecisionInput(x[1], x[2], x[3], x[4], x[5], a)
  <2>1. PICK x \in decided : i = DecisionInput(x[1], x[2], x[3], x[4], x[5], a)
    BY <1>4
  <2>2. PICK s \in runs : x[2] = s.state
    BY <2>1
  <2>3. /\ x[1] \in runs /\ x[3] \in Evidences /\ x[4] \in Candidates /\ x[5] \in Decisions
        /\ DecisionAdapterAccepts(x[1], s.state, x[3], x[4], x[5])
        /\ i = DecisionInput(x[1], s.state, x[3], x[4], x[5], a)
    BY <2>1, <2>2
  <2> QED
    BY <2>3
<1> QED
  BY <1>1, <1>2, <1>3, <1>4

\* The adapters of a stage accept only aggregates that are at it.
LEMMA AcceptedStages ==
    ASSUME IInv, NEW r \in runs
    PROVE  /\ \A p \in Proposals : CourseAdapterAccepts(r, p) => CourseReview(r)
           /\ \A e \in Evidences, c \in Candidates :
                 ManualAdapterAccepts(r, e, c) => ObservedEvidence(r)
           /\ \A state, d : \A e \in Evidences, c \in Candidates :
                 DecisionAdapterAccepts(r, state, e, c, d) => AwaitsReview(r)
<1>1. CourseReview(r) \/ ObservedEvidence(r) \/ AwaitsReview(r) \/ Reviewed(r)
  BY DEF IInv, Shaped
<1>2. ASSUME NEW p \in Proposals, CourseAdapterAccepts(r, p)
      PROVE  CourseReview(r)
  BY <1>1, <1>2, StagesDiffer
     DEF CourseAdapterAccepts, ObservedEvidence, AwaitsReview, Reviewed
<1>3. ASSUME NEW e \in Evidences, NEW c \in Candidates, ManualAdapterAccepts(r, e, c)
      PROVE  ObservedEvidence(r)
  BY <1>1, <1>3, StagesDiffer
     DEF ManualAdapterAccepts, CourseReview, AwaitsReview, Reviewed, ReviewedBy
<1>4. ASSUME NEW state, NEW d, NEW e \in Evidences, NEW c \in Candidates,
             DecisionAdapterAccepts(r, state, e, c, d)
      PROVE  AwaitsReview(r)
  <2>1. /\ r.definition = ReferenceReviewDefinition
        /\ r.state.references = ClaimState("manual_claim_review_required", e, c)
    BY <1>4 DEF DecisionAdapterAccepts, RunAndStateIdentifyOneRevision
  <2>2. ~ CourseReview(r) /\ ~ ObservedEvidence(r)
    BY <2>1, StagesDiffer DEF CourseReview, ObservedEvidence
  <2>3. ~ Reviewed(r)
    <3> SUFFICES ASSUME NEW f \in Evidences, NEW b \in Candidates, NEW x \in Decisions,
                        ReviewedBy(r, f, b, x)
                 PROVE  FALSE
      BY DEF Reviewed
    <3>1. x.outcome \in ReviewStages /\ r.state.references = ClaimState(x.outcome, f, b)
      BY DEF ReviewedBy
    <3>2. ClaimState("manual_claim_review_required", e, c) # ClaimState(x.outcome, f, b)
      BY <3>1, StagesDiffer
    <3> QED
      BY <2>1, <3>1, <3>2
  <2> QED
    BY <1>1, <2>2, <2>3
<1> QED
  BY <1>2, <1>3, <1>4

\* What an adapter accepts, the core refuses for its authority alone.
THEOREM AcceptedInputsAreExact == Spec => []AdapterInputIsExact
<1>1. ASSUME IInv, NEW i \in AcceptedInputs
      PROVE  OutcomeKind(i) =
                 IF /\ i.request.authority.subject = i.run.subject
                    /\ i.request.operation \in i.request.authority.operations
                 THEN "applied" ELSE "rejected_invalid"
  <2>1. PICK a \in Authorities, r \in runs :
            \/ \E p \in Proposals :
                  CourseAdapterAccepts(r, p) /\ i = CourseInput(r, p, a)
            \/ \E e \in Evidences, c \in Candidates :
                  ManualAdapterAccepts(r, e, c) /\ i = ManualInput(r, e, c, a)
            \/ \E s \in runs, e \in Evidences, c \in Candidates, d \in Decisions :
                  /\ DecisionAdapterAccepts(r, s.state, e, c, d)
                  /\ i = DecisionInput(r, s.state, e, c, d, a)
    BY AcceptedForms
  <2>2. Coherent(r)
    BY <1>1 DEF IInv, Shaped
  <2> DEFINE none == {}
  <2>0. none = {}
    OBVIOUS
  <2> HIDE DEF none
  <2>3. ASSUME NEW p \in Proposals, CourseAdapterAccepts(r, p), i = CourseInput(r, p, a)
        PROVE  OutcomeKind(i) =
                   IF /\ i.request.authority.subject = i.run.subject
                      /\ i.request.operation \in i.request.authority.operations
                   THEN "applied" ELSE "rejected_invalid"
    <3>1. r.definition = CourseReviewDefinition /\ r.status = "active" /\ r.decisions = {}
      BY <1>1, <2>3, AcceptedStages DEF CourseReview
    <3>2. "record-course-identity-candidate" \in r.definition.operations
      BY <3>1 DEF CourseReviewDefinition
    <3>3. PICK references : references = ProposalState("course_identity_candidate", p)
      OBVIOUS
    <3>4. i = AdapterInput(r.definition, r, r.state,
                  AdapterRequest(r, r.state, "record-course-identity-candidate", none, a),
                  references, r.status)
      BY <2>3, <3>1, <3>3 DEF CourseInput, none
    <3>5. Cardinality(references) \in 0..3
      BY <3>3, FewReferences DEF ProposalState
    <3> QED
      BY <2>0, <2>2, <3>1, <3>2, <3>4, <3>5, ExactInput
  <2>4. ASSUME NEW e \in Evidences, NEW c \in Candidates, ManualAdapterAccepts(r, e, c),
               i = ManualInput(r, e, c, a)
        PROVE  OutcomeKind(i) =
                   IF /\ i.request.authority.subject = i.run.subject
                      /\ i.request.operation \in i.request.authority.operations
                   THEN "applied" ELSE "rejected_invalid"
    <3>1. r.definition = ReferenceReviewDefinition /\ r.status = "active" /\ r.decisions = {}
      BY <1>1, <2>4, AcceptedStages DEF ObservedEvidence
    <3>2. "require-manual-claim-review" \in r.definition.operations
      BY <3>1 DEF ReferenceReviewDefinition
    <3>3. PICK references : references = ClaimState("manual_claim_review_required", e, c)
      OBVIOUS
    <3>4. i = AdapterInput(r.definition, r, r.state,
                  AdapterRequest(r, r.state, "require-manual-claim-review", none, a),
                  references, r.status)
      BY <2>4, <3>1, <3>3 DEF ManualInput, none
    <3>5. Cardinality(references) \in 0..3
      BY <3>3, FewReferences DEF ClaimState
    <3> QED
      BY <2>0, <2>2, <3>1, <3>2, <3>4, <3>5, ExactInput
  <2>5. ASSUME NEW s \in runs, NEW e \in Evidences, NEW c \in Candidates,
               NEW d \in Decisions, DecisionAdapterAccepts(r, s.state, e, c, d),
               i = DecisionInput(r, s.state, e, c, d, a)
        PROVE  OutcomeKind(i) =
                   IF /\ i.request.authority.subject = i.run.subject
                      /\ i.request.operation \in i.request.authority.operations
                   THEN "applied" ELSE "rejected_invalid"
    <3>1. r.definition = ReferenceReviewDefinition /\ r.status = "active" /\ r.decisions = {}
      BY <1>1, <2>5, AcceptedStages DEF AwaitsReview
    <3>2. s.state = r.state /\ d.subject = r.subject
      BY <2>5 DEF DecisionAdapterAccepts, RunAndStateIdentifyOneRevision
    <3>3. OperationOf(d.outcome) \in r.definition.operations
      BY <3>1 DEF ReferenceReviewDefinition, OperationOf
    <3>4. PICK references : references = ClaimState(d.outcome, e, c)
      OBVIOUS
    <3>5. i = AdapterInput(r.definition, r, r.state,
                  AdapterRequest(r, r.state, OperationOf(d.outcome), {d}, a),
                  references, "completed")
      BY <2>5, <3>1, <3>2, <3>4 DEF DecisionInput
    <3>6. Cardinality(references) \in 0..3
      BY <3>4, FewReferences DEF ClaimState
    <3> QED
      BY <2>2, <3>1, <3>2, <3>3, <3>5, <3>6, ExactInput
  <2> QED
    BY <2>1, <2>3, <2>4, <2>5
<1>2. IInv => AdapterInputIsExact
  BY <1>1 DEF AdapterInputIsExact
<1> QED
  BY <1>2, Invariance, PTL

\* A fork cannot borrow the transition of its twin: the evidence names the
\* state it was made for.
THEOREM ForksCannotBorrow == Spec => []ForksStayApart
<1>1. ASSUME NEW i \in AcceptedInputs, NEW r \in runs, r.state # i.prior
      PROVE  OutcomeKind([i EXCEPT !.run = r, !.prior = r.state]) = "rejected_invalid"
  <2>1. PICK definition, run, state, request, references, status :
            i = AdapterInput(definition, run, state, request, references, status)
    <3>1. ASSUME NEW a, NEW s, NEW p, i = CourseInput(s, p, a)
          PROVE  \E definition, run, state, request, references, status :
                    i = AdapterInput(definition, run, state, request, references, status)
      BY <3>1 DEF CourseInput
    <3>2. ASSUME NEW a, NEW s, NEW e, NEW c, i = ManualInput(s, e, c, a)
          PROVE  \E definition, run, state, request, references, status :
                    i = AdapterInput(definition, run, state, request, references, status)
      BY <3>2 DEF ManualInput
    <3>3. ASSUME NEW a, NEW s, NEW state, NEW e, NEW c, NEW d,
                 i = DecisionInput(s, state, e, c, d, a)
          PROVE  \E definition, run, prior, request, references, status :
                    i = AdapterInput(definition, run, prior, request, references, status)
      BY <3>3 DEF DecisionInput
    <3> QED
      BY <3>1, <3>2, <3>3, AcceptedForms
  <2>2. PICK j : j = [i EXCEPT !.run = r, !.prior = r.state]
    OBVIOUS
  <2>3. /\ j.prior = r.state /\ j.evidence = i.evidence
        /\ i.evidence.prior = i.prior /\ i.evidence.kind = "adapter"
    BY <2>1, <2>2 DEF AdapterInput
  <2>4. "adapter_evidence_mismatch" \in EvidenceFindings(j)
    BY <1>1, <2>3 DEF EvidenceFindings, BindsExactly, IsFailure
  <2>5. Findings(j) \ {"revision_conflict"} # {}
    BY <2>4 DEF Findings
  <2> QED
    BY <2>2, <2>5 DEF OutcomeKind
<1>2. ForksStayApart
  BY <1>1 DEF ForksStayApart
<1> QED
  BY <1>2, PTL
=============================================================================
