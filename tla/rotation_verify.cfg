SPECIFICATION RotationSpec
CONSTANTS
    k1 = k1  k2 = k2  x1 = x1  x2 = x2  users = users  a = a  b = b
    KeyIds <- MCKeyIds
    IndexKeyIds <- MCIndexKeyIds
    Seals <- MCSeals
    Values <- MCValues
    Undecodable = Undecodable
    Unpaddable = Unpaddable
    Oversized = {}
    Unindexable = {}
    NormalForm <- MCNormalForm
    Digests <- MCDigests
    Digest <- MCDigest
    NotConfigured = NotConfigured
    Ids <- TwoIds
    NoCursor = NoCursor
    Absent = Absent
    NumColumns = 1
    Planner <- MCPlanner
    EarlierWriters <- MCEarlierWriters
    LegacyWriter = LegacyWriter
    InitialTables <- TwoPoisonedRows
    RequestedBatch = 0
    MaxWrites = 2
    Workers = {1}
    MaxAborts = 0
INVARIANTS
    RotationTypeOK
    TerminalMeansCurrent
    RetirementSafe
