CONSTANTS
    p1 = p1  p2 = p2  course = course
    e1 = e1  e2 = e2  c1 = c1  c2 = c2  c3 = c3
    record = record  otherRecord = otherRecord
    source = source  otherSource = otherSource
    n1 = n1  n2 = n2
    None = None
    MaxArtifacts = 4096
    MaxDecisions = 1024
    Proposals = {p1, p2}
    Evidences = {e1, e2}
    Candidates = {c1, c2, c3}
    CourseOf <- MCCourseOf
    RecordOf <- MCRecordOf
    SourceOf <- MCSourceOf
    NameOf <- MCNameOf
    Decisions <- MCDecisions
    Authorities <- MCAuthorities
    RequestBounds <- MCRequestBounds
SPECIFICATION Spec
INVARIANTS
    ReviewedOnHumanDecision
    AdapterInputIsExact
    ForksStayApart
CHECK_DEADLOCK FALSE
