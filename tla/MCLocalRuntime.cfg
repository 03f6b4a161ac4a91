CONSTANTS
    op = op  wide = wide  unknown = unknown  subject = subject
    a1 = a1  a2 = a2  i1 = i1  i2 = i2  c1 = c1  c2 = c2
    None = None
    MaxArtifacts = 3
    MaxDecisions = 3
    Clients = {c1, c2}
    Definition <- MCDefinition
    Starts <- MCStarts
    Templates <- MCThreeTemplates
    Bounds <- MCBounds
    Reports <- MCTwoReports
    MaxEvents = 4
SPECIFICATION Spec
INVARIANTS
    ReservationExclusive
    RequestDecidedOnce
    AnswerTellsTruth
    OccurrenceBindsTransition
PROPERTIES
    ImplementsRunReservation
SYMMETRY ClientSymmetry
