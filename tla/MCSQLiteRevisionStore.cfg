CONSTANTS
    c1 = c1  c2 = c2
    s1 = s1  s2 = s2
    r1 = r1  r2 = r2
    small = small  large = large
    k1 = k1  k2 = k2  k3 = k3  k4 = k4
    NoRevision = NoRevision
    None = None
    Clients = {c1, c2}
    Streams = {s1, s2}
    Revisions = {r1, r2}
    Contents = {small, large}
    Keys = {k1, k2, k3, k4}
    Commits <- MCCommits
    Reads <- MCReads
    Size <- MCSize
    Limit <- MCLimit
    MaxDamage = 1
SPECIFICATION FairSpec
INVARIANTS
    DecisionStillHolds
    HistoryIsOneChain
    KeyOwnsOneEnvelope
    AcknowledgedStays
PROPERTIES
    LockIsReturned
    ExactRetryNeverConflicts
    DamageIsNeverServed
    ImplementsAtomicRevisionStore
