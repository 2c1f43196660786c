SPECIFICATION Spec
CONSTANTS
    k1 = k1  k2 = k2  x1 = x1  x2 = x2  users = users  a = a  long = long  odd = odd
    KeyIds <- MCKeyIds
    IndexKeyIds <- MCIndexKeyIds
    Seals <- MCSeals
    Values <- MCValues
    Undecodable = Undecodable
    Unpaddable = Unpaddable
    Oversized <- MCOversized
    Unindexable <- MCUnindexable
    NormalForm <- MCNormalForm
    Digests <- MCDigests
    Digest <- MCDigest
    NotConfigured = NotConfigured
    Id = 7
    NumColumns = 2
    InitialPlanners <- MCInitialPlanners
INVARIANTS
    ClassifyAgreesWithPlan
    ValueSurvives
    OnlyValuesStopRewrites
PROPERTIES
    RewriteConverges
    RewriteKeepsReading
