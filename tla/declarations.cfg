SPECIFICATION MCSpec
CONSTANTS
    Parts = {"literals", "markers", "records", "manifest"}
    Starts <- MCStarts
    Alphabet <- MCAlphabet
    MaxEdits <- MCMaxEdits
    MaxDeclared = 2
    Numbers <- MCNumbers
    MaxEntries = 6
    MaxErrors = 1
    FieldNames <- MCFieldNames
    ColumnOf <- MCColumnOf
    FieldTexts <- MCFieldTexts
    MaxFields = 3
    MaxFaulty = 1
    UsedTexts <- MCUsedTexts
    Ids = {r1, r2}
    Orgs = {o1, o2}
    Values = {v1, v2}
    OtherSeals = {2, 3}
    MaxSaves = 2
    MaxMixups = 1
    SealMarkers <- MCSealMarkers
    IndexMarkers <- MCIndexMarkers
    RecordMarkers <- MCRecordMarkers
    SealIdOf <- MCSealIdOf
    IndexIdOf <- MCIndexIdOf
    FieldSeals <- MCFieldSeals
    RecordKindOf <- MCRecordKindOf
    ContextKinds <- MCContextKinds
    NoMarker = "none"
    MaxCalls = 4
SYMMETRY Symmetry
INVARIANTS
    LiteralsAgree
    MarkersDeclareExactly
    MarkerErrorsExact
    RecordsDeclareExactly
    RecordErrorsExact
    ReadsInPlace
    IntactIsFound
    DuplicatesExact
CHECK_DEADLOCK FALSE
