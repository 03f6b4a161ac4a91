CONSTANTS
    a1 = a1  a2 = a2  a3 = a3
    ref1 = ref1  ref2 = ref2
    op = op  unknown = unknown
    subject = subject  other = other
    None = None
    MaxArtifacts = 2
    MaxDecisions = 1
    Definition <- MCDefinition
    OtherDefinition <- MCOtherDefinition
    Subject = subject
    OtherSubject = other
    Operation = op
    UnknownOperation = unknown
    StartArtifacts <- MCStartArtifacts
    RequestArtifacts <- MCRequestArtifacts
    RequestDecisions <- MCRequestDecisions
    Outputs <- MCOutputs
    Bounds <- MCBounds
    MaxRevision = 3
    MaxDeviations = 2
SPECIFICATION Spec
INVARIANTS
    TypeOK
    AppliedOnlyWhenExact
PROPERTY SuccessorExtendsRun
CHECK_DEADLOCK FALSE
