SPECIFICATION RotationSpec
CONSTANTS
    k1 = k1  k2 = k2  x1 = x1  x2 = x2  users = users  a = a  b = b  aa = aa
    KeyIds <- MCKeyIds
    IndexKeyIds <- MCIndexKeyIds
    Seals <- MCSeals
    Values <- SearchValues
    Undecodable = Undecodable
    Unpaddable = Unpaddable
    Oversized = {}
    Unindexable = {}
    NormalForm <- SearchNormalForm
    Digests <- MCDigests
    Digest <- SearchDigest
    NotConfigured = NotConfigured
    Ids <- TwoIds
    NoCursor = NoCursor
    Absent = Absent
    NumColumns = 1
    Planner <- MCPlanner
    EarlierWriters <- MCEarlierWriters
    LegacyWriter = LegacyWriter
    InitialTables <- SearchTables
    RequestedBatch = 1
    MaxWrites = 1
    Workers = {1}
    MaxAborts = 0
INVARIANTS
    LookupExact
    StrictSearchComplete
