SPECIFICATION MCSpec
CONSTANTS
    Parts = {"padding", "index", "preimages", "tenants"}
    UsizeMax <- MCUsizeMax
    MaxMessageLen = 6
    Plaintexts <- MCPlaintexts
    Policies <- MCPolicies
    ByteWidth = 3
    DigestLen = 2
    MaxLen = 3
    Base = 3
    IdLen = 1
    UuidLen = 3
    I64Len = 2
    SealIds <- MCSealIds
    IndexIds <- MCIndexIds
    KeyIdBytes <- MCKeyIds
    Normalized <- MCNormalized
    Precisions = {1, 4}
    t1 = t1  t2 = t2  k1 = k1  k2 = k2
    Tenants = {t1, t2}
    KeyIds = {k1, k2, k3}
    FirstId <- MCFirstId
    Rows = {r1}
    Calls = {c1, c2}
    Absent = Absent
    NoRing = NoRing
    Idle = Idle
    Destroyed = Destroyed
    MaxSeals = 2
INVARIANTS
    ReadsBack
    LengthsExact
    EncodesFirstBits
    BytesTellApart
    TenantsApart
PROPERTY
    ShreddingEnds
CHECK_DEADLOCK FALSE
