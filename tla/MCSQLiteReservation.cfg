CONSTANTS
    c1 = c1  c2 = c2
    n1 = n1
    m0 = m0  m1 = m1  m2 = m2
    a1 = a1  a2 = a2
    k1 = k1  k2 = k2  k3 = k3
    e1 = e1
    None = None
    Clients = {c1, c2}
    Nets = {n1}
    Markings = {m0, m1, m2}
    Attempts = {a1, a2}
    CommitIds = {k1, k2, k3}
    Evidences = {e1}
    Openings <- MCOpenings
    Inputs <- MCInputs
    Files <- MCFiles
SPECIFICATION Spec
INVARIANTS
    MarkingsFormOneChain
    HolderIsCurrent
    LifecycleTellsHistory
    AnswersStayTrue
PROPERTIES
    ExactRetryIsIdempotent
    ImplementsReservationRepository
SYMMETRY ClientSymmetry
