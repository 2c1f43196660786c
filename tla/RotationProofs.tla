--------------------------- MODULE RotationProofs ---------------------------
(***************************************************************************)
(* Theorems about a whole rotation: what a clean verification pass is      *)
(* worth, and what searches find before and after it, for any table, any   *)
(* number of workers and any interleaving.                                 *)
(***************************************************************************)
EXTENDS RotationSearch, SweepProofs

-----------------------------------------------------------------------------
(* Type correctness.                                                       *)

LEMMA SweepUnderRotation == [RotationNext]_rotationVars => [Next]_sweepVars
BY DEF RotationNext, rotationVars, Verify, VerifyStart, VerifyBatch, VerifyFails, VerifyFinish

LEMMA CountedType ==
    ASSUME NEW page \in SUBSET Ids, NEW f \in Fields
    PROVE  IsFiniteSet(Counted(page, f)) /\ Cardinality(Counted(page, f)) \in Nat
<1>1. Counted(page, f) \in SUBSET Ids
  <2>1. CASE f = "malformed"
    BY <2>1 DEF Counted
  <2>2. CASE f = "conflicts"
    BY <2>2 DEF Counted
  <2>3. CASE f \notin {"malformed", "conflicts"}
    BY <2>3 DEF Counted
  <2> QED BY <2>1, <2>2, <2>3
<1>2. IsFiniteSet(Counted(page, f))
  BY <1>1, FS_Subset, SweepStoreAssumption
<1> QED BY <1>2, FS_CardinalityType

LEMMA PageInIds == \A c : Page(c) \in SUBSET Ids
BY DEF Page, Remaining, Present

LEMMA RotationTypeInit == RotationInit => RotationTypeOK
<1>1. VerifyInit => VerifyTypeOK
  <2>1. EmptyReport \in [Fields -> Nat]
    BY DEF EmptyReport
  <2>2. ASSUME vsince = FALSE PROVE vsince \in BOOLEAN
    BY <2>2
  <2> QED BY <2>1, <2>2 DEF VerifyInit, VerifyTypeOK
<1> QED BY <1>1, InitType DEF RotationInit, RotationTypeOK

LEMMA RotationTypeStep == RotationTypeOK /\ [RotationNext]_rotationVars => RotationTypeOK'
<1> SUFFICES ASSUME RotationTypeOK, [RotationNext]_rotationVars PROVE RotationTypeOK'
  OBVIOUS
<1>1. TypeOK'
  BY NextType, SweepUnderRotation DEF RotationTypeOK
<1>2. CASE UNCHANGED verifyVars
  BY <1>1, <1>2 DEF verifyVars, RotationTypeOK, VerifyTypeOK
<1>3. CASE VerifyStart
  BY <1>1, <1>3 DEF VerifyStart, RotationTypeOK, VerifyTypeOK, TypeOK, StoreTypeOK, EmptyReport
<1>4. CASE VerifyBatch
  <2>1. vreport' \in [Fields -> Nat]
    BY <1>4, CountedType, PageInIds DEF VerifyBatch, RotationTypeOK, VerifyTypeOK
  <2>2. vcursor' \in Ids
    BY <1>4, PageInIds DEF VerifyBatch
  <2> QED BY <1>1, <1>4, <2>1, <2>2 DEF VerifyBatch, RotationTypeOK, VerifyTypeOK
<1>5. CASE VerifyFails \/ VerifyFinish
  BY <1>1, <1>5 DEF VerifyFails, VerifyFinish, RotationTypeOK, VerifyTypeOK
<1> QED BY <1>2, <1>3, <1>4, <1>5 DEF RotationNext, Verify, rotationVars

-----------------------------------------------------------------------------
LEMMA PromotionStays == promoted /\ [Next]_sweepVars => promoted'
BY RunsPromoteNothing DEF Next, Application, Put, Delete, Promote, storeVars, sweepVars

(* Once every writer is on target, a row that changes becomes Current.     *)
LEMMA PromotedSteps ==
    ASSUME TypeOK, [Next]_sweepVars, promoted, NEW i \in Ids
    PROVE  \/ table'[i] = table[i]
           \/ table'[i] = Absent
           \/ Classify(Planner, i, table'[i]) = "Current"
<1>1. ASSUME NEW id \in Ids, NEW v \in Values, NEW w \in Writers, Put(id, v, w)
      PROVE  table'[i] = table[i] \/ Classify(Planner, i, table'[i]) = "Current"
  <2>1. w = Planner
    BY DEF Writers
  <2>2. table'[id] = WrittenRow(Planner, id, v)
    BY <1>1, <2>1 DEF Put, TypeOK, StoreTypeOK
  <2>3. Classify(Planner, id, table'[id]) = "Current"
    BY <1>1, <2>1, <2>2, TargetWriteIsCurrent DEF Put, TypeOK
  <2> QED BY <1>1, <2>3 DEF Put, TypeOK, StoreTypeOK
<1>2. ASSUME NEW w \in Workers, NEW id \in Ids, RewriteRow(w, id)
      PROVE  table'[i] = table[i] \/ Classify(Planner, i, table'[i]) = "Current"
  <2>1. CASE i = id
    BY <1>2, <2>1, RewrittenRow
  <2>2. CASE i # id
    BY <1>2, <2>2 DEF RewriteRow, TypeOK, StoreTypeOK
  <2> QED BY <2>1, <2>2
<1>3. ASSUME NEW id \in Ids, Delete(id)
      PROVE  table'[i] = table[i] \/ table'[i] = Absent
  BY <1>3 DEF Delete, TypeOK, StoreTypeOK
<1>4. ASSUME NEW w \in Workers, Start(w) \/ Proceed(w) \/ Abort(w),
             \A id \in Ids : ~RewriteRow(w, id)
      PROVE  UNCHANGED table
  BY <1>4 DEF Start, Proceed, LoadBatch, LoadFails, Finish, SaveCheckpoint, RejectRow,
              SkipRow, LoseRow, Abort, storeVars
<1>5. ASSUME FreshProgress \/ Promote \/ UNCHANGED sweepVars
      PROVE  UNCHANGED table
  BY <1>5 DEF FreshProgress, Promote, sweepVars, storeVars
<1> QED BY <1>1, <1>2, <1>3, <1>4, <1>5 DEF Next, Run, Application

-----------------------------------------------------------------------------
(* A clean batch.                                                          *)

LEMMA EmptyCount ==
    ASSUME NEW page \in SUBSET Ids, NEW f \in Fields, Cardinality(Counted(page, f)) = 0
    PROVE  Counted(page, f) = {}
BY CountedType, FS_EmptySet

LEMMA TerminalBatch ==
    ASSUME RotationTypeOK, VerifyBatch, IsTerminal(vreport')
    PROVE  /\ IsTerminal(vreport)
           /\ \A id \in Page(vcursor) : Outcome(id) = "Current"
<1> DEFINE page == Page(vcursor)
<1>1. page \in SUBSET Ids
  BY PageInIds
<1>2. ASSUME NEW f \in {"legacy", "stale", "malformed"}
      PROVE  vreport[f] = 0 /\ Counted(page, f) = {}
  <2>1. f \in Fields
    BY DEF Fields
  <2>2. vreport'[f] = 0
    BY DEF IsTerminal
  <2>3. vreport'[f] = vreport[f] + Cardinality(Counted(page, f))
    BY <2>1 DEF VerifyBatch
  <2>4. vreport[f] \in Nat /\ Cardinality(Counted(page, f)) \in Nat
    BY <1>1, <2>1, CountedType DEF RotationTypeOK, VerifyTypeOK
  <2>5. vreport[f] = 0 /\ Cardinality(Counted(page, f)) = 0
    BY <2>2, <2>3, <2>4
  <2> QED BY <1>1, <2>1, <2>5, EmptyCount
<1>3. IsTerminal(vreport)
  BY <1>2 DEF IsTerminal
<1>4. ASSUME NEW id \in page PROVE Outcome(id) = "Current"
  <2>1. Outcome(id) \in RowStates \cup DataFailures
    BY DEF VerifyBatch, Misconfigured
  <2>2. Outcome(id) \notin DataFailures
    BY <1>2 DEF Counted
  <2>3. Outcome(id) # "Stale"
    <3>1. Counted(page, "stale") = {}
      BY <1>2
    <3>2. Tally("Stale") = "stale"
      BY DEF Tally
    <3> QED BY <3>1, <3>2 DEF Counted, RowStates
  <2>4. Outcome(id) # "Legacy"
    <3>1. Counted(page, "legacy") = {}
      BY <1>2
    <3>2. Tally("Legacy") = "legacy"
      BY DEF Tally
    <3> QED BY <3>1, <3>2 DEF Counted, RowStates
  <2> QED BY <2>1, <2>2, <2>3, <2>4 DEF RowStates
<1> QED BY <1>3, <1>4

-----------------------------------------------------------------------------
(* The inductive step: what the scan has passed stays current.             *)

LEMMA ScanStep ==
    ASSUME RotationTypeOK, ScanCurrent, [RotationNext]_rotationVars
    PROVE  ScanCurrent'
<1> SUFFICES ASSUME vsince' PROVE ScanCurrent'
  BY DEF ScanCurrent
<1>1. TypeOK /\ [Next]_sweepVars
  BY SweepUnderRotation DEF RotationTypeOK
<1>2. CASE UNCHANGED verifyVars
  <2>1. vsince /\ promoted
    BY <1>2 DEF verifyVars, ScanCurrent
  <2>2. promoted'
    BY <1>1, <2>1, PromotionStays
  <2>3. ASSUME NEW id \in Present', Outcome(id)' # "Current"
        PROVE  id \in Present /\ Outcome(id) # "Current"
    <3>1. id \in Ids /\ table'[id] # Absent
      BY DEF Present
    <3>2. table'[id] = table[id]
      BY <1>1, <2>1, <2>3, <3>1, PromotedSteps DEF Outcome
    <3> QED BY <2>3, <3>1, <3>2 DEF Present, Outcome
  <2> QED BY <1>2, <2>1, <2>2, <2>3 DEF ScanCurrent, verifyVars
<1>3. CASE VerifyStart
  BY <1>3 DEF VerifyStart, ScanCurrent, sweepVars, storeVars
<1>4. CASE VerifyBatch
  <2>1. UNCHANGED <<table, promoted, vpc, vsince>> /\ vpc = "scan" /\ vcursor' \in Page(vcursor)
    BY <1>4 DEF VerifyBatch, sweepVars, storeVars
  <2>2. vsince /\ promoted
    BY <2>1 DEF ScanCurrent
  <2>3. ASSUME IsTerminal(vreport'), NEW id \in Present, id <= vcursor'
        PROVE  Outcome(id) = "Current"
    <3>1. IsTerminal(vreport) /\ \A j \in Page(vcursor) : Outcome(j) = "Current"
      BY <1>4, <2>3, TerminalBatch
    <3>2. CASE vcursor # NoCursor /\ id <= vcursor
      BY <2>1, <2>2, <3>1, <3>2 DEF ScanCurrent
    <3>3. CASE ~(vcursor # NoCursor /\ id <= vcursor)
      <4>1. vcursor # NoCursor => vcursor \in Int /\ id \in Int
        BY SweepStoreAssumption DEF RotationTypeOK, VerifyTypeOK, Present
      <4>2. id \in Remaining(vcursor)
        BY <3>3, <4>1 DEF Remaining
      <4>3. id \in Page(vcursor)
        BY <1>1, <2>1, <2>3, <4>2, PageHasNoGaps DEF RotationTypeOK, VerifyTypeOK
      <4> QED BY <3>1, <4>3
    <3> QED BY <3>2, <3>3
  <2> QED BY <2>1, <2>2, <2>3 DEF ScanCurrent, Present, Outcome
<1>5. CASE VerifyFails
  BY <1>5 DEF VerifyFails, ScanCurrent, sweepVars, storeVars
<1>6. CASE VerifyFinish
  <2>1. UNCHANGED <<table, promoted, vcursor, vreport, vsince>> /\ vpc = "scan"
    BY <1>6 DEF VerifyFinish, sweepVars, storeVars
  <2>2. vsince /\ promoted
    BY <2>1 DEF ScanCurrent
  <2>3. ASSUME NEW id \in Present PROVE vcursor # NoCursor /\ id <= vcursor
    <3>1. id \notin Remaining(vcursor)
      BY <1>6, EmptyPageIsTheEnd DEF VerifyFinish
    <3>2. vcursor # NoCursor /\ ~(id > vcursor)
      BY <3>1 DEF Remaining
    <3>3. vcursor \in Int /\ id \in Int
      BY <3>2, SweepStoreAssumption DEF RotationTypeOK, VerifyTypeOK, Present
    <3> QED BY <3>2, <3>3
  <2> QED BY <2>1, <2>2, <2>3 DEF ScanCurrent, Present, Outcome
<1> QED BY <1>2, <1>3, <1>4, <1>5, <1>6 DEF RotationNext, Verify, rotationVars

LEMMA ScanInit == RotationInit => ScanCurrent
BY DEF RotationInit, VerifyInit, ScanCurrent

-----------------------------------------------------------------------------
(* A Current row reads the same without historical keys.                   *)

LEMMA RetiredKeys ==
    /\ Retired(Planner).keys.keys = {Planner.keys.current}
    /\ Planner.keys.current \in Planner.keys.keys
    /\ Retired(Planner).seal = Planner.seal
    /\ Retired(Planner).kind = Planner.kind
    /\ Retired(Planner).handler = Planner.handler
    /\ \A c \in DOMAIN Planner.columns : Planner.columns[c].keys # NotConfigured =>
            Retired(Planner).columns[c].keys.keys = {Planner.columns[c].keys.current}
<1>1. Planner \in PlannersOver(NumColumns)
  BY SweepStoreAssumption
<1>2. Planner.keys \in Keyrings
  BY <1>1 DEF PlannersOver
<1>3. \A c \in DOMAIN Planner.columns : Planner.columns[c].keys # NotConfigured =>
          Planner.columns[c].keys \in IndexKeyrings
  BY <1>1 DEF PlannersOver
<1>4. \A c \in DOMAIN Planner.columns :
        Planner.columns[c] \in [bits : 1..MaxIndexBits, keys : IndexKeyrings \cup {NotConfigured}]
  BY <1>1 DEF PlannersOver
<1> QED BY <1>1, <1>2, <1>3, <1>4 DEF Retired, PlannersOver, Keyrings, IndexKeyrings

LEMMA RetiredReading ==
    ASSUME NEW id \in Ids, NEW row, Classify(Planner, id, row) = "Current"
    PROVE  Reading(Retired(Planner), id, row) = Reading(Planner, id, row)
<1>1. RowContext(Retired(Planner), id) = RowContext(Planner, id)
  BY RetiredKeys DEF RowContext
<1>2. Open(RowContext(Planner, id), row.ciphertext, Retired(Planner).keys)
        = Open(RowContext(Planner, id), row.ciphertext, Planner.keys)
  BY CurrentRowNames, RetiredKeys DEF Open
<1>3. ReadError(Retired(Planner), id, row) = ReadError(Planner, id, row)
  BY <1>1, <1>2, CurrentRowNames DEF ReadError
<1> QED BY <1>3 DEF Reading

-----------------------------------------------------------------------------
(* Theorems.                                                               *)

LEMMA RotationInvariant == RotationSpec => [](RotationTypeOK /\ ScanCurrent)
<1>1. RotationInit => RotationTypeOK /\ ScanCurrent
  BY RotationTypeInit, ScanInit
<1>2. RotationTypeOK /\ ScanCurrent /\ [RotationNext]_rotationVars
        => (RotationTypeOK /\ ScanCurrent)'
  BY RotationTypeStep, ScanStep
<1> QED BY <1>1, <1>2, PTL DEF RotationSpec

(* Verification's cursor, report and state keep their types, as everything *)
(* of the sweep does.                                                      *)
THEOREM RotationTypeCorrect == RotationSpec => []RotationTypeOK
BY RotationInvariant, PTL

(* verify: as long as a pass begun once every writer was on target is      *)
(* clean, every row it has passed is Current, whatever others write.       *)
THEOREM PassedRowsAreCurrent == RotationSpec => []ScanCurrent
BY RotationInvariant, PTL

(* A clean full pass begun once every writer was on target means that      *)
(* every row is Current, and remains so, whatever happened during and      *)
(* after the scan: rows rewritten, inserted behind it, or lost to a race.  *)
THEOREM CleanPassMeansCurrent == RotationSpec => []TerminalMeansCurrent
<1>1. ScanCurrent => TerminalMeansCurrent
  BY DEF ScanCurrent, TerminalMeansCurrent, Certified
<1> QED BY <1>1, RotationInvariant, PTL

(* And historical keys can then be retired: every row reads, value or      *)
(* error, as it did with them, and names a current index key.              *)
THEOREM RetirementIsSafe == RotationSpec => []RetirementSafe
<1>1. TerminalMeansCurrent => RetirementSafe
  <2> SUFFICES ASSUME TerminalMeansCurrent, Certified, NEW id \in Present
               PROVE  /\ Reading(Retired(Planner), id, table[id]) = Reading(Planner, id, table[id])
                      /\ \A c \in DOMAIN Planner.columns :
                           table[id].indexes[c].key \in Retired(Planner).columns[c].keys.keys
    BY DEF RetirementSafe
  <2>1. Classify(Planner, id, table[id]) = "Current" /\ id \in Ids
    BY DEF TerminalMeansCurrent, Outcome, Present
  <2> QED BY <2>1, RetiredReading, CurrentRowNames, RetiredKeys
<1> QED BY <1>1, CleanPassMeansCurrent, PTL

LEMMA PassesOnlyRead == RotationSpec => Spec
<1>1. RotationInit => Init
  BY DEF RotationInit
<1>2. [RotationNext]_rotationVars => [Next]_sweepVars
  BY Zenon DEF RotationNext, Verify, VerifyStart, VerifyBatch, VerifyFails, VerifyFinish,
               rotationVars
<1> QED BY <1>1, <1>2, PTL DEF RotationSpec, Spec

(* verify writes neither rows nor progress: with passes under way at any   *)
(* time, run is what it is without them, and an application reads what it  *)
(* wrote.                                                                  *)
THEOREM RotationKeepsValues == RotationSpec => AppSpec
BY PassesOnlyRead, SweepKeepsValues, PTL

-----------------------------------------------------------------------------
(* Searches.                                                               *)

(* A row that can be read is found by its value: in each column that has   *)
(* keys it has the missing-index marker or the index of its value.         *)
RowFindable(id, row) ==
    row.ciphertext.form # "null" /\ ReadError(Planner, id, row) = Ok =>
        \A c \in Searchable(Planner) :
            \/ row.indexes[c] = MissingIndex
            \/ ConsistentWith(row.ciphertext.payload, row.indexes[c],
                              Planner.columns[c].bits, Planner.columns[c].keys)

Findable == \A id \in Present : RowFindable(id, table[id])

(* What a searched rotation starts from: rows that can be found, and       *)
(* earlier deployments that differ from the target only in the generations *)
(* they write and in their padding.                                        *)
StartsFindable ==
    /\ \A t \in InitialTables, id \in Ids : t[id] # Absent => RowFindable(id, t[id])
    /\ \A w \in EarlierWriters \ {LegacyWriter} :
        /\ w.seal = Planner.seal /\ w.kind = Planner.kind /\ w.handler = Planner.handler
        /\ w.keys.keys = Planner.keys.keys
        /\ \A c \in 1..NumColumns :
            /\ w.columns[c].bits = Planner.columns[c].bits
            /\ w.columns[c].keys # NotConfigured =>
                /\ Planner.columns[c].keys # NotConfigured
                /\ w.columns[c].keys.keys = Planner.columns[c].keys.keys

LEMMA WrittenIsFindable ==
    ASSUME StartsFindable, StoreTypeOK, NEW id \in Ids, NEW v \in Values,
           NEW w \in EarlierWriters \cup {Planner}, CanWrite(w, v),
           NEW row, row = WrittenRow(w, id, v)
    PROVE  RowFindable(id, row)
<1>1. /\ Planner \in PlannersOver(NumColumns)
      /\ DOMAIN Planner.columns = 1..NumColumns
  BY SweepStoreAssumption DEF PlannersOver
<1>2. CASE w = LegacyWriter
  <2>1. \A c \in 1..NumColumns : row.indexes[c] = MissingIndex
    BY <1>2 DEF WrittenRow
  <2> QED BY <1>1, <2>1 DEF RowFindable, Searchable
<1>3. CASE w # LegacyWriter
  <2>1. w \in PlannersOver(NumColumns)
    BY <1>3, SweepStoreAssumption
  <2>2. ASSUME NEW c \in 1..NumColumns
        PROVE  /\ w.columns[c].bits = Planner.columns[c].bits
               /\ w.columns[c].keys # NotConfigured =>
                    w.columns[c].keys.current \in Planner.columns[c].keys.keys
    <3>1. w.columns[c].keys # NotConfigured =>
            w.columns[c].keys.current \in w.columns[c].keys.keys
      BY <2>1 DEF PlannersOver, IndexKeyrings
    <3>2. CASE w = Planner
      BY <3>1, <3>2
    <3>3. CASE w # Planner
      <4>1. w \in EarlierWriters \ {LegacyWriter}
        BY <1>3, <3>3
      <4> QED BY <3>1, <4>1 DEF StartsFindable
    <3> QED BY <3>2, <3>3
  <2>3. \A c \in 1..NumColumns :
          /\ row.ciphertext.payload = v
          /\ ConsistentWith(v, row.indexes[c],
                            Planner.columns[c].bits, Planner.columns[c].keys)
    BY <2>1, <2>2, WrittenColumn
  <2> QED BY <1>1, <2>3 DEF RowFindable, Searchable
<1> QED BY <1>2, <1>3

LEMMA RewriteIsFindable ==
    ASSUME NEW id \in Ids, NEW row \in Rows, NEW nonce \in Nat, RowFindable(id, row),
           PlanError(Planner, id, row) = Ok, PlanState(Planner, row) # "Current",
           NEW r, r = Replacement(Planner, id, row, nonce)
    PROVE  RowFindable(id, r)
<1> SUFFICES ASSUME ReadError(Planner, id, r) = Ok, NEW c \in Searchable(Planner)
             PROVE  \/ r.indexes[c] = MissingIndex
                    \/ ConsistentWith(r.ciphertext.payload, r.indexes[c],
                                      Planner.columns[c].bits, Planner.columns[c].keys)
  BY DEF RowFindable
<1>1. c \in 1..NumColumns
  BY SweepStoreAssumption DEF PlannersOver, Searchable
<1>2. /\ r.ciphertext.payload = row.ciphertext.payload
      /\ \/ ConsistentWith(r.ciphertext.payload, r.indexes[c],
                           Planner.columns[c].bits, Planner.columns[c].keys)
         \/ /\ row.ciphertext.form = "envelope" /\ ReadError(Planner, id, row) = Ok
            /\ r.indexes[c] = row.indexes[c]
  BY <1>1, RewrittenColumn
<1> QED BY <1>2 DEF RowFindable

LEMMA FindableStep ==
    ASSUME StartsFindable, TypeOK, Findable, [Next]_sweepVars
    PROVE  Findable'
<1> SUFFICES ASSUME NEW i \in Present' PROVE RowFindable(i, table'[i])
  BY DEF Findable, RowFindable
<1> i \in Ids /\ StoreTypeOK
  BY DEF Present, TypeOK
<1>1. CASE i \in Present /\ table'[i] = table[i]
  BY <1>1 DEF Findable
<1>2. ASSUME i \in Present, table[i] \in Rows, nonces[i] \in Nat,
             PlanError(Planner, i, table[i]) = Ok, PlanState(Planner, table[i]) # "Current",
             table'[i] = Replacement(Planner, i, table[i], nonces[i])
      PROVE  RowFindable(i, table'[i])
  BY <1>2, RewriteIsFindable DEF Findable
<1>3. ASSUME NEW v \in Values, NEW w \in EarlierWriters \cup {Planner},
             CanWrite(w, v), table'[i] = WrittenRow(w, i, v)
      PROVE  RowFindable(i, table'[i])
  BY <1>3, WrittenIsFindable
<1> QED BY <1>1, <1>2, <1>3, RowsChange

LEMMA StaysFindable ==
    ASSUME StartsFindable PROVE RotationSpec => []Findable
<1>1. RotationInit => Findable
  BY DEF StartsFindable, RotationInit, Init, StoreInit, Present, Findable
<1>2. RotationTypeOK /\ Findable /\ [RotationNext]_rotationVars => Findable'
  BY FindableStep, SweepUnderRotation DEF RotationTypeOK
<1> QED BY <1>1, <1>2, RotationTypeCorrect, PTL DEF RotationSpec

-----------------------------------------------------------------------------
(* Candidates.                                                             *)

(* No error has the name of an outcome.                                    *)
LEMMA ReadErrorsAreErrors ==
    ASSUME NEW p, NEW id, NEW row
    PROVE  ReadError(p, id, row) \notin {"hit", "miss"}
<1>1. InspectCiphertext(row.ciphertext) \notin {"hit", "miss"}
  BY DEF InspectCiphertext, Ok
<1>2. Open(RowContext(p, id), row.ciphertext, p.keys) \notin {"hit", "miss"}
  BY <1>1 DEF Open, Check, Ok
<1> QED BY <1>2 DEF ReadError, Recover, Decode, Ok

(* Every deployment that searches reads and probes as the target does.     *)
LEMMA SearchersAgree ==
    ASSUME StartsFindable, NEW p \in Searchers
    PROVE  /\ \A id, row : ReadError(p, id, row) = ReadError(Planner, id, row)
           /\ \A c \in Searchable(p) :
                /\ c \in Searchable(Planner)
                /\ p.columns[c].bits = Planner.columns[c].bits
                /\ p.columns[c].keys.keys = Planner.columns[c].keys.keys
<1>1. /\ p \in PlannersOver(NumColumns) /\ Planner \in PlannersOver(NumColumns)
      /\ DOMAIN p.columns = 1..NumColumns /\ DOMAIN Planner.columns = 1..NumColumns
  BY SweepStoreAssumption DEF Searchers, PlannersOver
<1>2. /\ p.seal = Planner.seal /\ p.kind = Planner.kind /\ p.handler = Planner.handler
      /\ p.keys.keys = Planner.keys.keys
  BY DEF Searchers, StartsFindable
<1>3. ASSUME NEW id, NEW row PROVE ReadError(p, id, row) = ReadError(Planner, id, row)
  <2>1. RowContext(p, id) = RowContext(Planner, id)
    BY <1>2 DEF RowContext
  <2>2. Open(RowContext(p, id), row.ciphertext, p.keys)
          = Open(RowContext(Planner, id), row.ciphertext, Planner.keys)
    BY <1>2, <2>1 DEF Open
  <2> QED BY <1>2, <2>2 DEF ReadError, Recover
<1>4. ASSUME NEW c \in Searchable(p)
      PROVE  /\ c \in Searchable(Planner)
             /\ p.columns[c].bits = Planner.columns[c].bits
             /\ p.columns[c].keys.keys = Planner.columns[c].keys.keys
  BY <1>1 DEF Searchable, Searchers, StartsFindable
<1> QED BY <1>3, <1>4

(* The index of a value is one of the probes for any value of its normal   *)
(* form.                                                                   *)
LEMMA ConsistentIsProbed ==
    ASSUME NEW v, NEW q, NEW bytes, NEW bits, NEW keyring,
           ConsistentWith(v, bytes, bits, keyring), SameNormalForm(q, v)
    PROVE  bytes = IndexOf(q, bits, bytes.key) /\ bytes \in Probes(q, bits, keyring)
BY DEF ConsistentWith, SameNormalForm, Probes, IndexOf

LEMMA LookupsExactStep == StartsFindable /\ Findable => LookupExact
<1> SUFFICES ASSUME StartsFindable, Findable,
                    NEW p \in Searchers, NEW q \in Queries, NEW c \in Searchable(p)
             PROVE  /\ LookupHits(p, c, q, table, Present) = Matching(q)
                    /\ LookupFails(p, c, q, table, Present) =>
                         \E id \in Present : Unanswerable(id)
  BY DEF LookupExact
<1>1. /\ \A id, row : ReadError(p, id, row) = ReadError(Planner, id, row)
      /\ c \in Searchable(Planner)
      /\ p.columns[c].bits = Planner.columns[c].bits
      /\ p.columns[c].keys.keys = Planner.columns[c].keys.keys
  BY SearchersAgree
<1>2. ASSUME NEW id \in LookupHits(p, c, q, table, Present) PROVE id \in Matching(q)
  <2>1. /\ id \in Present /\ table[id].ciphertext.form # "null"
        /\ RecoverMatching(p, id, table[id], q) = "hit"
    BY DEF LookupHits, TransitionalCandidates
  <2>2. ReadError(Planner, id, table[id]) = Ok
    BY <1>1, <2>1, ReadErrorsAreErrors DEF RecoverMatching
  <2>3. VerifyCandidate(q, table[id].ciphertext.payload) = "hit"
    BY <1>1, <2>1, <2>2 DEF RecoverMatching
  <2> QED BY <2>1, <2>2, <2>3 DEF VerifyCandidate, Matching
<1>3. ASSUME NEW id \in Matching(q) PROVE id \in LookupHits(p, c, q, table, Present)
  <2> DEFINE row == table[id]
             v == row.ciphertext.payload
  <2>1. /\ id \in Present /\ row.ciphertext.form # "null"
        /\ ReadError(Planner, id, row) = Ok
        /\ v \notin Unindexable /\ SameNormalForm(q, v)
    BY DEF Matching
  <2>2. \/ row.indexes[c] = MissingIndex
        \/ ConsistentWith(v, row.indexes[c], p.columns[c].bits, Planner.columns[c].keys)
    BY <1>1, <2>1 DEF Findable, RowFindable
  <2>3. row.indexes[c] = MissingIndex \/ Probed(p, c, q, row)
    BY <1>1, <2>1, <2>2, ConsistentIsProbed DEF Probed, Probes
  <2>4. RecoverMatching(p, id, row, q) = "hit"
    BY <1>1, <2>1 DEF RecoverMatching, VerifyCandidate
  <2> QED BY <2>1, <2>3, <2>4 DEF LookupHits, TransitionalCandidates
<1>4. ASSUME NEW id \in Present, RecoverMatching(p, id, table[id], q) \notin {"hit", "miss"}
      PROVE  Unanswerable(id)
  BY <1>1, <1>4 DEF RecoverMatching, VerifyCandidate, Unanswerable
<1> QED BY <1>2, <1>3, <1>4 DEF LookupFails, TransitionalCandidates

(* What the retired planner is asked, and what it reads.                   *)
LEMMA RetiredProbes ==
    ASSUME NEW c \in Searchable(Planner)
    PROVE  /\ c \in DOMAIN Planner.columns
           /\ Retired(Planner).columns[c].bits = Planner.columns[c].bits
           /\ Retired(Planner).columns[c].keys.keys = {Planner.columns[c].keys.current}
<1>1. c \in DOMAIN Planner.columns /\ Planner.columns[c].keys # NotConfigured
  BY DEF Searchable
<1>2. Planner \in PlannersOver(NumColumns)
  BY SweepStoreAssumption
<1>3. Retired(Planner).columns[c]
        = [Planner.columns[c] EXCEPT !.keys.keys = {Planner.columns[c].keys.current}]
  BY <1>1, <1>2 DEF Retired, PlannersOver
<1>4. Planner.columns[c] \in [bits : 1..MaxIndexBits, keys : IndexKeyrings \cup {NotConfigured}]
  BY <1>1, <1>2 DEF PlannersOver
<1> QED BY <1>1, <1>3, <1>4 DEF IndexKeyrings

LEMMA RetiredStrictRead ==
    ASSUME NEW id \in Ids, NEW row, Classify(Planner, id, row) = "Current"
    PROVE  /\ row.ciphertext.form = "envelope"
           /\ StrictReadError(Retired(Planner), id, row) = ReadError(Planner, id, row)
<1>1. RowContext(Retired(Planner), id) = RowContext(Planner, id)
  BY RetiredKeys DEF RowContext
<1>2. Open(RowContext(Planner, id), row.ciphertext, Retired(Planner).keys)
        = Open(RowContext(Planner, id), row.ciphertext, Planner.keys)
  BY CurrentRowNames, RetiredKeys DEF Open
<1>3. InspectCiphertext(row.ciphertext) # "NotCiphertext"
  BY CurrentRowNames
<1>4. row.ciphertext.form = "envelope"
  BY <1>3 DEF InspectCiphertext
<1> QED BY <1>1, <1>2, <1>3, <1>4 DEF ReadError, StrictReadError

LEMMA StrictSearchStep ==
    StartsFindable /\ Findable /\ TerminalMeansCurrent => StrictSearchComplete
<1> DEFINE r == Retired(Planner)
<1> SUFFICES ASSUME StartsFindable, Findable, TerminalMeansCurrent, Certified,
                    NEW q \in Queries, NEW c \in Searchable(Planner)
             PROVE  /\ StrictHits(r, c, q, table, Present) = Matching(q)
                    /\ \A id \in StrictFailures(r, c, q, table, Present) : Unanswerable(id)
  BY DEF StrictSearchComplete
<1>1. ASSUME NEW id \in Present
      PROVE  /\ table[id].ciphertext.form = "envelope"
             /\ StrictReadError(r, id, table[id]) = ReadError(Planner, id, table[id])
             /\ InspectBlindIndex(table[id].indexes[c]) = Ok
             /\ table[id].indexes[c].key = Planner.columns[c].keys.current
  <2>1. id \in Ids /\ Classify(Planner, id, table[id]) = "Current" /\ c \in DOMAIN Planner.columns
    BY DEF TerminalMeansCurrent, Outcome, Present, Searchable
  <2> QED BY <2>1, RetiredStrictRead, CurrentRowNames
<1>2. ASSUME NEW id \in StrictHits(r, c, q, table, Present) PROVE id \in Matching(q)
  <2>1. id \in Present /\ OpenMatching(r, id, table[id], q) = "hit"
    BY DEF StrictHits, StrictCandidates
  <2>2. ReadError(Planner, id, table[id]) = Ok
    BY <1>1, <2>1, ReadErrorsAreErrors DEF OpenMatching
  <2>3. VerifyCandidate(q, table[id].ciphertext.payload) = "hit"
    BY <1>1, <2>1, <2>2 DEF OpenMatching
  <2> QED BY <1>1, <2>1, <2>2, <2>3 DEF VerifyCandidate, Matching
<1>3. ASSUME NEW id \in Matching(q) PROVE id \in StrictHits(r, c, q, table, Present)
  <2> DEFINE row == table[id]
             v == row.ciphertext.payload
  <2>1. /\ id \in Present /\ row.ciphertext.form # "null"
        /\ ReadError(Planner, id, row) = Ok
        /\ v \notin Unindexable /\ SameNormalForm(q, v)
    BY DEF Matching
  <2>2. row.indexes[c] # MissingIndex
    BY <1>1, <2>1 DEF InspectBlindIndex, MissingIndex, Ok
  <2>3. ConsistentWith(v, row.indexes[c], Planner.columns[c].bits, Planner.columns[c].keys)
    BY <2>1, <2>2 DEF Findable, RowFindable
  <2>4. row.indexes[c] = IndexOf(q, Planner.columns[c].bits, Planner.columns[c].keys.current)
    <3> DEFINE bytes == row.indexes[c]
               bits == Planner.columns[c].bits
               keyring == Planner.columns[c].keys
    <3>1. ConsistentWith(v, bytes, bits, keyring) /\ SameNormalForm(q, v)
      BY <2>1, <2>3
    <3>2. bytes.key = keyring.current
      BY <1>1, <2>1
    <3> HIDE DEF bytes, bits, keyring, v
    <3>3. bytes = IndexOf(q, bits, bytes.key)
      BY <3>1, ConsistentIsProbed
    <3>4. bytes = IndexOf(q, bits, keyring.current)
      BY <3>2, <3>3
    <3> QED
      BY <3>4 DEF bytes, bits, keyring
  <2>5. Probed(r, c, q, row)
    BY <2>4, RetiredProbes DEF Probed, Probes
  <2>6. OpenMatching(r, id, row, q) = "hit"
    BY <1>1, <2>1 DEF OpenMatching, VerifyCandidate
  <2> QED BY <2>1, <2>5, <2>6 DEF StrictHits, StrictCandidates
<1>4. ASSUME NEW id \in StrictFailures(r, c, q, table, Present) PROVE Unanswerable(id)
  <2>1. id \in Present /\ OpenMatching(r, id, table[id], q) \notin {"hit", "miss"}
    BY DEF StrictFailures, StrictCandidates
  <2> QED BY <1>1, <2>1 DEF OpenMatching, VerifyCandidate, Unanswerable
<1> QED BY <1>2, <1>3, <1>4

(* A lookup at any moment, by any deployment that holds both generations,  *)
(* returns every matching row and no other (lookup of the example, probes  *)
(* and verify_candidate of src/blind.rs).                                  *)
THEOREM LookupsStayExact ==
    ASSUME StartsFindable PROVE RotationSpec => []LookupExact
<1>1. Findable => LookupExact
  BY LookupsExactStep
<1> QED BY <1>1, StaysFindable, PTL

(* Once a clean pass certifies the table, a search by index alone with the *)
(* current generations alone returns just that, and reports what it cannot *)
(* open (search of the example, Index::open_matching of src/record.rs).    *)
THEOREM StrictSearchesComplete ==
    ASSUME StartsFindable PROVE RotationSpec => []StrictSearchComplete
<1>1. Findable /\ TerminalMeansCurrent => StrictSearchComplete
  BY StrictSearchStep
<1> QED BY <1>1, StaysFindable, CleanPassMeansCurrent, PTL
=============================================================================
