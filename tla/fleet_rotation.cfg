SPECIFICATION Spec
CONSTANTS
    k1 = k1
    k2 = k2
    k3 = k3
    x1 = x1
    x2 = x2
    x3 = x3
    users = users
    a = a
    b = b
    p1 = p1
    p2 = p2
    KeyIds <- MCKeyIds
    Seals <- MCSeals
    Values <- MCValues
    Undecodable = undecodable
    Unpaddable = unpaddable
    Oversized = {}
    IndexKeyIds <- MCIndexKeyIds
    NotConfigured = notconfigured
    Unindexable = {}
    NormalForm <- MCNormalForm
    Digests <- MCDigests
    Digest <- MCDigest
    Instances = {p1, p2}
    Ids = {7}
    Absent = absent
    NoCandidate = none
    EncryptionKey <- MCEncryptionKey
    IndexKey <- MCIndexKey
    Seal1 = users
    Kind1 = "i64"
    PrecisionOf <- MCPrecisionOf
    Deployments <- MCDeployments
    FirstDeployment <- MCFirstDeployment
    CanaryValue = a
    MaxOffered = 2
SYMMETRY ProcessSymmetry
INVARIANTS
    EveryProcessReads
    EveryProcessFinds
