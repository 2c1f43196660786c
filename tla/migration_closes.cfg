SPECIFICATION FairMigrationSpec
CONSTANTS
    k1 = k1  k2 = k2  x1 = x1  x2 = x2  users = users  a = a  b = b
    o1 = o1  o2 = o2
    KeyIds <- MCKeyIds
    IndexKeyIds <- MCIndexKeyIds
    Seals <- MCSeals
    Values <- MCValues
    Undecodable = Undecodable
    Unpaddable = Unpaddable
    Oversized = {}
    Unindexable = {}
    NormalForm <- MCNormalForm
    Digests <- MCDigests
    Digest <- MCDigest
    NotConfigured = NotConfigured
    Ids <- MixedIds
    NoCursor = NoCursor
    Absent = Absent
    NumColumns = 1
    Planner <- MCPlanner
    EarlierWriters <- MCEarlierWriters
    LegacyWriter = LegacyWriter
    InitialTables <- ClosingTables
    RequestedBatch = 2
    MaxWrites = 1
    Workers = {1}
    MaxAborts = 1
    Operators = {o1}
    Cases = {0}
    Queries = {}
    NoEdit = NoEdit
    NoLookup = NoLookup
    MaxDamage = 1
PROPERTIES
    WindowCloses
