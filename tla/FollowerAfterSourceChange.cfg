CONSTANTS
    w1 = w1  w2 = w2
    n1 = n1
    m0 = m0  m1 = m1  m2 = m2
    a1 = a1  a2 = a2
    transcript = transcript
    None = None
    Callers = {w1, w2}
    Nets = {n1}
    Markings = {m0, m1}
    Evidences = {transcript}
    Transcript = transcript
    Attempts <- MCAttempts
    CommitIds <- MCCommitIds
    Requests <- MCOneRequest
    Start <- MCStart
    N = 1
    MaxRevision = 1
    LoadsMayFail = FALSE
SPECIFICATION FairSpec
PROPERTY FollowerIsIdempotent
