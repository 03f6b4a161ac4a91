CONSTANTS
    n1 = n1  n2 = n2
    m0 = m0  m1 = m1  m2 = m2
    plan = plan  a1 = a1
    good = good  other = other  path = path  large = large  data = data
    None = None
    Nets = {n1, n2}
    Markings = {m0, m1, m2}
    Attempts = {}
    CommitIds = {}
    Evidences = {}
    LengthOf <- MCLengthOf
    PathFreeTexts = {good, other, large}
    Manifest <- MCManifest
    Mapping <- MCMapping
    Plan = plan
    Selections <- MCSelections
    Offered <- MCOffered
    Integrations <- MCIntegrations
    Transitions <- MCTransitions
    Owner <- MCOwner
    InputsAt <- MCInputsAt
    Occur <- MCOccur
    Start <- MCStart
    MaxRevision = 1
    MaxHeld = 2
SPECIFICATION Spec
INVARIANTS
    CommittedIsOwnersAnswer
    AnswerMovesOneNet
    AcceptedSuccessIsMapped
    CandidateCanBeCommitted
    CommitReplayIsExact
CHECK_DEADLOCK FALSE
