SPECIFICATION FairRotationSpec
CONSTANTS
    k1 = k1  k2 = k2  x1 = x1  x2 = x2  users = users  a = a  b = b
    KeyIds <- MCKeyIds
    IndexKeyIds <- MCIndexKeyIds
    Seals <- MCSeals
    Values <- MCValues
    Undecodable = Undecodable
    Unpaddable = Unpaddable
    Oversized = {}
    Unindexable = {}
    NormalForm <- MCNormalForm
    Digests <- MCDigests
    Digest <- MCDigest
    NotConfigured = NotConfigured
    Ids <- TwoIds
    NoCursor = NoCursor
    Absent = Absent
    NumColumns = 1
    Planner <- MCPlanner
    EarlierWriters <- MCEarlierWriters
    LegacyWriter = LegacyWriter
    InitialTables <- TwoRows
    RequestedBatch = 1
    MaxWrites = 1
    Workers = {1}
    MaxAborts = 1
PROPERTIES
    RotationCompletes
