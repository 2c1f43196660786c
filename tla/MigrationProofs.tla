--------------------------- MODULE MigrationProofs --------------------------
(***************************************************************************)
(* Theorems about closing the window of a legacy migration, for any rows,  *)
(* operators, workers, values and keys: reads stay right, nothing is lost, *)
(* lookups omit nothing, and what closing leaves is strict.                *)
(*                                                                         *)
(* A row is judged by four facts, RowGood, that every action keeps of      *)
(* every row: it reads as the value it stands for unless it is damaged, it *)
(* is marked only if it is a collision, and what its index column holds is *)
(* nothing or that value's index.  The rest of the invariant says what     *)
(* operators in the middle of a transaction know of the row they read, and *)
(* that everything is settled once the window is closed.                   *)
(***************************************************************************)
EXTENDS Migration, SweepProofs

(* A row that stands for v.                                                *)
RowGood(id, row, v, marked) ==
    /\ row \in Rows /\ row.ciphertext.form # "null"
    /\ v \in Values
    /\ IF IsDamaged(row.ciphertext) THEN RecoverError(id, row, marked) # Ok
       ELSE RecoverError(id, row, marked) = Ok /\ row.ciphertext.payload = v
    /\ IndexKnown(row.indexes[1], v)
    /\ marked => IsCollision(row.ciphertext)

LEMMA PlannerFacts ==
    /\ Planner \in PlannersOver(1) /\ NumColumns = 1 /\ Planner.handler
    /\ DOMAIN Planner.columns = 1..1 /\ 1 \in DOMAIN Planner.columns
    /\ Planner.columns[1].keys \in IndexKeyrings
    /\ Planner.columns[1].keys.current \in Planner.columns[1].keys.keys
    /\ Planner.keys.current \in Planner.keys.keys
<1>1. NumColumns = 1 /\ Planner \in PlannersOver(1) /\ Planner.handler
  BY SweepStoreAssumption, MigrationAssumption
<1>2. /\ DOMAIN Planner.columns = 1..1 /\ 1 \in 1..1
      /\ Planner.columns[1].keys \in IndexKeyrings \cup {NotConfigured}
      /\ Planner.keys \in Keyrings
  BY <1>1 DEF PlannersOver
<1> QED
  BY <1>1, <1>2, SeedAssumption DEF IndexKeyrings, Keyrings

LEMMA RowFacts ==
    ASSUME NEW row \in Rows
    PROVE  /\ row \in RowsOver(1) /\ row.ciphertext \in Ciphertexts
           /\ row.indexes \in [1..1 -> Indexes] /\ row.indexes[1] \in Indexes
           /\ row.ciphertext.form \in {"envelope", "foreign", "null"}
           /\ row.ciphertext.form = "envelope" => row.ciphertext \in Envelopes
           /\ row.ciphertext.form = "foreign" => row.ciphertext \in ForeignBytes
<1>1. row \in RowsOver(1)
  BY PlannerFacts DEF Rows
<1>2. row.ciphertext \in Ciphertexts /\ row.indexes \in [1..1 -> Indexes]
  BY <1>1 DEF RowsOver
<1> QED
  BY <1>1, <1>2 DEF Ciphertexts, Envelopes, ForeignBytes, NullColumn

(* What is recovered is a value, and was not damaged.                      *)
LEMMA RecoveredFacts ==
    ASSUME NEW id, NEW row \in Rows, row.ciphertext.form # "null", NEW marked \in BOOLEAN,
           RecoverError(id, row, marked) = Ok
    PROVE  row.ciphertext.payload \in Values /\ ~IsDamaged(row.ciphertext)
<1>1. row.ciphertext.payload \in Values
  <2>1. Decode(row.ciphertext.payload) = Ok
    BY DEF RecoverError, ReadError, Ok
  <2> QED
    BY <2>1, DecodedIsValue
<1>2. CASE row.ciphertext.form = "envelope"
  <2>1. CASE marked
    <3>1. RecoverUnclassified(row.ciphertext) = Ok
      BY <2>1 DEF RecoverError
    <3>2. row.ciphertext.authentic
      BY <1>2, <3>1 DEF RecoverUnclassified, Ok
    <3> QED
      BY <1>1, <1>2, <3>2 DEF IsDamaged
  <2>2. CASE ~marked
    <3>1. Open(RowContext(Planner, id), row.ciphertext, Planner.keys) = Ok
      BY <1>2, <2>2 DEF RecoverError, ReadError, InspectCiphertext, Ok
    <3>2. row.ciphertext.authentic
      BY <3>1 DEF Open, Authenticates, Ok
    <3> QED
      BY <1>1, <1>2, <3>2 DEF IsDamaged
  <2> QED
    BY <2>1, <2>2
<1>3. CASE row.ciphertext.form # "envelope"
  BY <1>1, <1>3, EnvelopeAssumption DEF IsDamaged
<1> QED
  BY <1>1, <1>2, <1>3

(* A marked row is no row plan_row, or a reader of envelopes, accepts.     *)
LEMMA CollisionIsRefused ==
    ASSUME NEW id, NEW row \in Rows, IsCollision(row.ciphertext)
    PROVE  /\ InspectCiphertext(row.ciphertext) \notin {Ok, "NotCiphertext"}
           /\ ReadError(Planner, id, row) # Ok
           /\ PlanError(Planner, id, row) # Ok
<1>1. /\ row.ciphertext.form = "envelope"
      /\ InspectCiphertext(row.ciphertext) \in {"InvalidEnvelope", "UnsupportedFormatVersion"}
  BY DEF IsCollision, CollisionVersion, InspectCiphertext, FormatVersion
<1>2. ReadError(Planner, id, row) # Ok
  BY <1>1 DEF ReadError, Open, Check, Ok
<1>3. PlanError(Planner, id, row) # Ok
  BY <1>1 DEF PlanError, EnvelopePlanError, EnvelopeError, Check, Ok
<1> QED
  BY <1>1, <1>2, <1>3 DEF Ok

(* What an application or an operator writes.                              *)
LEMMA WrittenIsGood ==
    ASSUME StoreTypeOK, NEW id \in Ids, NEW v \in Values,
           NEW w \in EarlierWriters \cup {Planner}, CanWrite(w, v)
    PROVE  /\ RowGood(id, WrittenRow(w, id, v), v, FALSE)
           /\ ~IsDamaged(WrittenRow(w, id, v).ciphertext)
<1> DEFINE row == WrittenRow(w, id, v)
<1>1. row \in Rows
  BY WrittenRowType, SweepStoreAssumption
<1>2. CASE w = LegacyWriter
  <2>1. row.ciphertext = [form |-> "foreign", payload |-> v] /\ row.indexes[1] = MissingIndex
    BY <1>2, PlannerFacts DEF WrittenRow
  <2>2. ~IsDamaged(row.ciphertext) /\ ReadError(Planner, id, row) = Ok
    BY <2>1, EnvelopeAssumption DEF IsDamaged, ReadError, InspectCiphertext, Recover, Decode, Ok
  <2> QED
    BY <1>1, <2>1, <2>2 DEF RowGood, RecoverError, IndexKnown
<1>3. CASE w # LegacyWriter
  <2>1. w \in PlannersOver(1) /\ Readable(w)
    BY <1>3, PlannerFacts, SweepStoreAssumption, SeedAssumption DEF Readable
  <2>2. 1 \in DOMAIN w.columns
    BY <2>1 DEF PlannersOver
  <2>3. /\ row.ciphertext = Seal(RowContext(Planner, id), w.padding, v, w.keys, nonces[id])
        /\ row.indexes[1] = IndexOf(v, Planner.columns[1].bits, w.columns[1].keys.current)
    BY <1>3, <2>1, <2>2 DEF WrittenRow, RowContext, Readable, Derive
  <2>4. /\ row.ciphertext.form = "envelope" /\ row.ciphertext.payload = v
        /\ row.ciphertext.key \in Planner.keys.keys
        /\ row.ciphertext.authentic /\ row.ciphertext.context = RowContext(Planner, id)
        /\ Check(Fingerprint(RowContext(Planner, id)), row.ciphertext) = Ok
        /\ InspectCiphertext(row.ciphertext) = Ok
    BY <2>1, <2>3 DEF Seal, Readable, Check, InspectCiphertext, FormatVersion, ActiveSuite,
       SupportedSuites, Ok
  <2>5. v # Unpaddable
    BY EnvelopeAssumption
  <2>6. Open(RowContext(Planner, id), row.ciphertext, Planner.keys) = Ok
    BY <2>4, <2>5 DEF Open, Authenticates, Ok
  <2>7. ReadError(Planner, id, row) = Ok /\ ~IsDamaged(row.ciphertext)
    BY <2>4, <2>6 DEF ReadError, Decode, IsDamaged, Ok
  <2>8. IndexKnown(row.indexes[1], v)
    BY <2>1, <2>3 DEF IndexKnown, Readable
  <2> QED
    BY <1>1, <2>4, <2>7, <2>8 DEF RowGood, RecoverError
<1> QED
  BY <1>2, <1>3

(* What a sweep writes, and that it only rewrites what it reads.           *)
LEMMA RewrittenIsGood ==
    ASSUME NEW id \in Ids, NEW row \in Rows, NEW v, NEW marked \in BOOLEAN,
           RowGood(id, row, v, marked), NEW nonce \in Nat,
           PlanError(Planner, id, row) = Ok, PlanState(Planner, row) # "Current"
    PROVE  ~marked /\ RowGood(id, Replacement(Planner, id, row, nonce), v, FALSE)
<1> DEFINE r == Replacement(Planner, id, row, nonce)
           p == Planner.columns[1]
<1>1. ~marked
  BY CollisionIsRefused DEF RowGood
<1>2. Planner \in PlannersOver(1) /\ id \in Int /\ row \in RowsOver(1) /\ 1 \in Nat
  BY PlannerFacts, RowFacts, SweepStoreAssumption
<1>3. r \in Rows
  BY <1>2, ReplacementType, PlannerFacts DEF Rows
<1>4. /\ r.ciphertext.form = "envelope"
      /\ InspectCiphertext(r.ciphertext) = Ok
      /\ Open(RowContext(Planner, id), r.ciphertext, Planner.keys) = Ok
      /\ r.ciphertext.payload = row.ciphertext.payload
  BY <1>2, ReplacementEnvelope
<1>5. ~IsDamaged(row.ciphertext)
  <2>1. CASE row.ciphertext.form = "envelope"
    <3>1. Open(RowContext(Planner, id), row.ciphertext, Planner.keys) = Ok
      BY <1>2, <2>1, EnvelopePlanOk
    <3> QED
      BY <2>1, <3>1 DEF Open, Authenticates, IsDamaged, Ok
  <2>2. CASE row.ciphertext.form # "envelope"
    <3>1. Recover(Planner, row.ciphertext) = Ok
      BY <1>2, <2>2, LegacyPlanOk
    <3> QED
      BY <2>2, <3>1, PlannerFacts DEF Recover, IsDamaged, Ok
  <2> QED
    BY <2>1, <2>2
<1>6. row.ciphertext.payload = v /\ v \in Values
  BY <1>5 DEF RowGood
<1>7. ReadError(Planner, id, r) = Ok /\ ~IsDamaged(r.ciphertext)
  <2>1. r.ciphertext.authentic
    BY <1>4 DEF Open, Authenticates, Ok
  <2> QED
    BY <1>4, <1>6, <2>1 DEF ReadError, Decode, IsDamaged, Ok
<1>8. IndexKnown(r.indexes[1], v)
  <2>1. CASE 1 \in RederivedColumns(Planner, row)
    <3>1. r.indexes[1] = IndexOf(v, p.bits, p.keys.current)
      BY <1>6, <2>1, PlannerFacts DEF Replacement, Derive
    <3> QED
      BY <3>1, PlannerFacts DEF IndexKnown
  <2>2. CASE 1 \notin RederivedColumns(Planner, row)
    <3>1. r.indexes[1] = row.indexes[1]
      BY <2>2, PlannerFacts DEF Replacement
    <3> QED
      BY <3>1 DEF RowGood
  <2> QED
    BY <2>1, <2>2
<1> QED
  BY <1>1, <1>3, <1>4, <1>6, <1>7, <1>8 DEF RowGood, RecoverError

(* Damage is noticed by every read, and touches no index.                  *)
LEMMA DamagedIsGood ==
    ASSUME NEW id \in Ids, NEW row \in Rows, NEW v, RowGood(id, row, v, FALSE),
           NEW r, r = [row EXCEPT !.ciphertext = Damaged(@)]
    PROVE  RowGood(id, r, v, FALSE)
<1>1. /\ r.ciphertext = Damaged(row.ciphertext) /\ r.indexes = row.indexes
      /\ r = [ciphertext |-> r.ciphertext, indexes |-> r.indexes]
  BY RowFacts DEF RowsOver
<1>2. /\ r.ciphertext \in Ciphertexts /\ r.ciphertext.form # "null"
      /\ IsDamaged(r.ciphertext) /\ ReadError(Planner, id, r) # Ok
  <2>1. CASE row.ciphertext.form = "envelope"
    <3>1. r.ciphertext = [row.ciphertext EXCEPT !.authentic = FALSE] /\ row.ciphertext \in Envelopes
      BY <1>1, <2>1, RowFacts DEF Damaged
    <3>2. r.ciphertext \in Envelopes /\ r.ciphertext.form = "envelope" /\ ~r.ciphertext.authentic
      <4> DEFINE e == row.ciphertext
                 Whole == [form : {"envelope"}, extent : {"magic", "version", "header", "whole"},
                           version : Nat, suite : Nat, flags : SUBSET Flags, key : KeyIds,
                           fingerprint : RecordKinds, context : Contexts, payload : Payloads,
                           authentic : BOOLEAN, nonce : Nat]
      <4>1. e \in Whole /\ (e.payload = Unpaddable => "padded" \in e.flags)
        BY <3>1 DEF Envelopes
      <4>2. [e EXCEPT !.authentic = FALSE] \in Whole
        BY <4>1
      <4>3. /\ [e EXCEPT !.authentic = FALSE].payload = e.payload
            /\ [e EXCEPT !.authentic = FALSE].flags = e.flags
            /\ [e EXCEPT !.authentic = FALSE].form = e.form
            /\ ~[e EXCEPT !.authentic = FALSE].authentic
        BY <4>1
      <4> QED
        BY <2>1, <3>1, <4>1, <4>2, <4>3 DEF Envelopes
    <3>3. Open(RowContext(Planner, id), r.ciphertext, Planner.keys) # Ok
      BY <3>2 DEF Open, Authenticates, Ok
    <3> QED
      BY <3>2, <3>3 DEF Ciphertexts, IsDamaged, ReadError, InspectCiphertext, Ok
  <2>2. CASE row.ciphertext.form # "envelope"
    <3>1. r.ciphertext = [row.ciphertext EXCEPT !.payload = Undecodable]
          /\ row.ciphertext \in ForeignBytes
      BY <1>1, <2>2, RowFacts DEF Damaged, RowGood
    <3>2. r.ciphertext \in ForeignBytes /\ r.ciphertext.form = "foreign"
          /\ r.ciphertext.payload = Undecodable
      BY <3>1 DEF ForeignBytes
    <3> QED
      BY <3>2, PlannerFacts DEF Ciphertexts, IsDamaged, ReadError, InspectCiphertext, Recover, Ok
  <2> QED
    BY <2>1, <2>2
<1>3. r \in Rows
  BY <1>1, <1>2, RowFacts, PlannerFacts DEF Rows, RowsOver
<1> QED
  BY <1>1, <1>2, <1>3 DEF RowGood, RecoverError

(* What repair recovers is the value the row stands for, and a marked row  *)
(* is not recovered as if it were not.                                     *)
LEMMA RecoveredIsTruth ==
    ASSUME NEW id \in Ids, NEW row \in Rows, NEW v, NEW marked \in BOOLEAN,
           RowGood(id, row, v, marked), RecoverError(id, row, marked) = Ok
    PROVE  row.ciphertext.payload = v
<1>1. ~IsDamaged(row.ciphertext)
  BY RecoveredFacts DEF RowGood
<1> QED
  BY <1>1 DEF RowGood

LEMMA MarkedNeedsMark ==
    ASSUME NEW id, NEW row \in Rows, NEW v, RowGood(id, row, v, TRUE)
    PROVE  RecoverError(id, row, FALSE) # Ok
  BY CollisionIsRefused DEF RowGood, RecoverError

-----------------------------------------------------------------------------
(* The invariant.                                                          *)

RowsGood ==
    \A id \in Present :
        IF id \in formats THEN RowGood(id, table[id], truth[id], TRUE)
        ELSE RowGood(id, table[id], truth[id], FALSE)

MarksPlaced == formats \subseteq Present /\ formats \cap Cases = {}

(* What an open transaction knows of the row it read.                      *)
EditKnown(e) ==
    /\ e.row.ciphertext.form # "null"
    /\ e.kind = "quarantine" => e.id \in Cases
    /\ e.kind = "collision" => RecoverError(e.id, e.row, TRUE) = Ok
    /\ e.kind = "missing" => RecoverError(e.id, e.row, FALSE) = Ok
    /\ e.kind # "quarantine" => CanWrite(Planner, e.row.ciphertext.payload)

EditsKnown == \A o \in Operators : edit[o] # NoEdit => ~closed /\ EditKnown(edit[o])

CasesKnown == \A id \in Ids : Unresolved(id) # {} => truth[id] \in Values

(* What close found of every row, and what stays so.                       *)
Audited(id, row) ==
    /\ Classify(Planner, id, row) = "Current"
    /\ StrictReadError(Planner, id, row) = Ok
    /\ row.indexes[1] =
          Derive(row.ciphertext.payload, Planner.columns[1].bits, Planner.columns[1].keys)

ClosedSettled ==
    closed =>
        /\ promoted /\ QuarantineGate /\ formats = {}
        /\ \A id \in Present : Audited(id, table[id])

TypesOK == TypeOK /\ MigrationTypeOK

MigrationInv ==
    /\ TypesOK
    /\ RowsGood /\ MarksPlaced
    /\ EditsKnown
    /\ CasesKnown /\ NothingLost
    /\ ClosedSettled
    /\ LookupsAreWhole

(* The steps that change a row, its value, its mark or its cases.          *)
Quiet == UNCHANGED <<table, truth, formats, quarantine>>

LEMMA Steps ==
    ASSUME MigrationNext
    PROVE  \/ Quiet
           \/ \E w \in Workers, id \in Ids : RewriteRow(w, id) /\ UNCHANGED migrationVars
           \/ \E o \in Operators : CommitRepair(o) \/ CommitQuarantine(o)
           \/ \E id \in Ids : Restore(id) \/ Damage(id)
           \/ \E id \in Ids, v \in Values, w \in Writers : PutValue(id, v, w)
<1> USE DEF Quiet
<1>1. CASE Sweeping
  <2>1. UNCHANGED migrationVars /\ (Run \/ FreshProgress)
    BY <1>1 DEF Sweeping
  <2>2. CASE FreshProgress
    BY <2>1, <2>2 DEF FreshProgress, migrationVars
  <2>3. ASSUME NEW w \in Workers, Start(w) \/ Proceed(w) \/ Abort(w),
               \A id \in Ids : ~RewriteRow(w, id)
        PROVE  Quiet
    BY <2>1, <2>3 DEF Start, Proceed, LoadBatch, LoadFails, Finish, SaveCheckpoint, RejectRow,
       SkipRow, LoseRow, Abort, storeVars, migrationVars
  <2> QED
    BY <2>1, <2>2, <2>3 DEF Run
<1>2. ASSUME NEW o \in Operators, Editing(o)
      PROVE  Quiet \/ CommitRepair(o) \/ CommitQuarantine(o)
  BY <1>2 DEF Editing, Commit, ReadTuple, EditConflict, EditCrash, sweepVars, storeVars
<1>3. ASSUME NEW query \in Queries, LookupBegin(query) PROVE Quiet
  BY <1>3 DEF LookupBegin, sweepVars, storeVars
<1>4. CASE LookupEnd \/ Close
  BY <1>4 DEF LookupEnd, Close, sweepVars, storeVars
<1>5. CASE Promote /\ UNCHANGED <<runVars, migrationVars>>
  BY <1>5 DEF Promote, migrationVars
<1> QED
  BY <1>1, <1>2, <1>3, <1>4, <1>5 DEF MigrationNext

-----------------------------------------------------------------------------
(* Types.                                                                  *)

LEMMA EditType ==
    ASSUME TypesOK, EditsKnown, NEW o \in Operators, edit[o] # NoEdit
    PROVE  /\ edit[o] \in Edits /\ edit[o].id \in Ids /\ edit[o].row \in Rows
           /\ edit[o].kind \in EditKinds
           /\ edit[o].kind # "quarantine" => edit[o].row.ciphertext.payload \in Values
<1>1. /\ edit[o] \in Edits /\ edit[o].id \in Ids /\ edit[o].row \in Rows
      /\ edit[o].kind \in EditKinds
  BY DEF TypesOK, MigrationTypeOK, Edits
<1>2. edit[o].kind # "quarantine" => edit[o].row.ciphertext.payload \in Values
  BY <1>1, RecoveredFacts DEF EditsKnown, EditKnown, EditKinds
<1> QED
  BY <1>1, <1>2

LEMMA RestoreType ==
    ASSUME NEW cases \in Seq(CasesOver),
           NEW done, done = [i \in DOMAIN cases |-> [cases[i] EXCEPT !.resolved = TRUE]]
    PROVE  /\ done \in Seq(CasesOver) /\ DOMAIN done = DOMAIN cases
           /\ \A i \in DOMAIN done : done[i].resolved /\ done[i].row = cases[i].row
<1>1. \A i \in DOMAIN cases : cases[i] \in CasesOver
  OBVIOUS
<1>2. \A i \in DOMAIN cases : [cases[i] EXCEPT !.resolved = TRUE] \in CasesOver
  BY <1>1 DEF CasesOver
<1>3. DOMAIN cases = 1..Len(cases) /\ Len(cases) \in Nat
  OBVIOUS
<1>4. done \in [1..Len(cases) -> CasesOver]
  BY <1>2, <1>3
<1>5. \A i \in DOMAIN done : done[i].resolved /\ done[i].row = cases[i].row
  BY <1>1 DEF CasesOver
<1> QED
  BY <1>3, <1>4, <1>5

(* What CurrentRow, written by operators, is.                              *)
LEMMA CurrentIsGood ==
    ASSUME StoreTypeOK, NEW id \in Ids, NEW v \in Values, CanWrite(Planner, v)
    PROVE  RowGood(id, CurrentRow(id, v), v, FALSE) /\ CurrentRow(id, v) \in Rows
BY WrittenIsGood DEF CurrentRow, RowGood

LEMMA RewriteIsNext ==
    ASSUME NEW w \in Workers, NEW id \in Ids, RewriteRow(w, id)
    PROVE  Next
BY DEF Next, Run, Proceed

LEMMA TypesStep ==
    ASSUME MigrationInv, MigrationNext
    PROVE  TypesOK'
<1> TypesOK /\ TypeOK /\ MigrationTypeOK /\ StoreTypeOK /\ RunTypeOK /\ EditsKnown /\ RowsGood
    /\ CasesKnown
  BY DEF MigrationInv, TypesOK, TypeOK
<1>1. CASE Sweeping
  <2>1. TypeOK'
    BY <1>1, NextType DEF Sweeping, Next
  <2> QED
    BY <1>1, <2>1 DEF Sweeping, migrationVars, TypesOK, MigrationTypeOK
<1>2. ASSUME NEW o \in Operators, NEW kind \in EditKinds, NEW id \in Ids, ReadTuple(o, kind, id)
      PROVE  TypesOK'
  <2>1. table[id] \in Rows
    BY <1>2 DEF ReadTuple, Present, StoreTypeOK
  <2>2. [kind |-> kind, id |-> id, row |-> table[id]] \in Edits
    BY <2>1 DEF Edits
  <2> QED
    BY <1>2, <2>2 DEF ReadTuple, TypesOK, TypeOK, StoreTypeOK, RunTypeOK, sweepVars, storeVars,
       runVars, MigrationTypeOK
<1>3. ASSUME NEW o \in Operators, CommitRepair(o) PROVE TypesOK'
  <2> DEFINE e == edit[o]
  <2>1. e # NoEdit /\ e.kind # "quarantine"
    BY <1>3 DEF CommitRepair
  <2>2. e.id \in Ids /\ e.row.ciphertext.payload \in Values
    BY <2>1, EditType
  <2>3. CanWrite(Planner, e.row.ciphertext.payload)
    BY <2>1 DEF EditsKnown, EditKnown
  <2>4. CurrentRow(e.id, e.row.ciphertext.payload) \in Rows
    BY <2>2, <2>3, CurrentIsGood
  <2> QED
    BY <1>3, <2>2, <2>4 DEF CommitRepair, TypesOK, TypeOK, StoreTypeOK, RunTypeOK, runVars,
       MigrationTypeOK, Authors
<1>4. ASSUME NEW o \in Operators, CommitQuarantine(o) PROVE TypesOK'
  <2> DEFINE e == edit[o]
  <2>1. e.id \in Ids /\ e.row \in Rows
    BY <1>4, EditType DEF CommitQuarantine
  <2>2. [row |-> e.row, resolved |-> FALSE] \in CasesOver
    BY <2>1 DEF CasesOver
  <2>3. Append(quarantine[e.id], [row |-> e.row, resolved |-> FALSE]) \in Seq(CasesOver)
    BY <2>1, <2>2 DEF MigrationTypeOK
  <2> QED
    BY <1>4, <2>1, <2>3 DEF CommitQuarantine, TypesOK, TypeOK, StoreTypeOK, RunTypeOK, runVars,
       MigrationTypeOK
<1>5. ASSUME NEW o \in Operators, EditConflict(o) \/ EditCrash(o) PROVE TypesOK'
  <2>1. aborts' \in 0..MaxAborts
    BY <1>5, SweepAssumption DEF EditConflict, EditCrash, sweepVars, runVars, RunTypeOK
  <2> QED
    BY <1>5, <2>1 DEF EditConflict, EditCrash, TypesOK, TypeOK, StoreTypeOK, RunTypeOK, sweepVars,
       storeVars, runVars, MigrationTypeOK
<1>6. ASSUME NEW id \in Ids, Restore(id) PROVE TypesOK'
  <2>1. Unresolved(id) # {}
    <3>1. Cardinality({}) = 0
      BY FS_EmptySet
    <3> QED
      BY <1>6, <3>1, SMTT(30) DEF Restore
  <2>2. CurrentRow(id, truth[id]) \in Rows
    BY <1>6, <2>1, CurrentIsGood DEF Restore, CasesKnown
  <2>3. [i \in DOMAIN quarantine[id] |-> [quarantine[id][i] EXCEPT !.resolved = TRUE]]
            \in Seq(CasesOver)
    BY RestoreType DEF MigrationTypeOK
  <2> QED
    BY <1>6, <2>2, <2>3 DEF Restore, TypesOK, TypeOK, StoreTypeOK, RunTypeOK, runVars,
       MigrationTypeOK, Authors
<1>7. ASSUME NEW id \in Ids, Damage(id) PROVE TypesOK'
  <2>1. [table[id] EXCEPT !.ciphertext = Damaged(@)] \in Rows
    <3>1. id \in Present /\ id \notin formats
      BY <1>7 DEF Damage, MigrationInv, MarksPlaced
    <3> QED
      BY <3>1, DamagedIsGood DEF RowsGood, RowGood
  <2>2. damages' \in 0..MaxDamage
    BY <1>7, MigrationAssumption DEF Damage, MigrationTypeOK
  <2>3. table' = [table EXCEPT ![id] = [table[id] EXCEPT !.ciphertext = Damaged(@)]]
    BY <1>7 DEF Damage, StoreTypeOK
  <2> QED
    BY <1>7, <2>1, <2>2, <2>3 DEF Damage, TypesOK, TypeOK, StoreTypeOK, RunTypeOK, runVars,
       MigrationTypeOK
<1>8. ASSUME NEW id \in Ids, NEW v \in Values, NEW w \in Writers, PutValue(id, v, w)
      PROVE  TypesOK'
  <2>1. TypeOK'
    BY <1>8, NextType DEF PutValue, Next, Application
  <2> QED
    BY <1>8, <2>1 DEF PutValue, TypesOK, MigrationTypeOK
<1>9. CASE Promote /\ UNCHANGED <<runVars, migrationVars>>
  <2>1. TypeOK'
    BY <1>9, NextType DEF Next, Application
  <2> QED
    BY <1>9, <2>1 DEF migrationVars, TypesOK, MigrationTypeOK
<1>10. CASE LookupEnd \/ Close \/ \E query \in Queries : LookupBegin(query)
  BY <1>10 DEF LookupEnd, Close, LookupBegin, TypesOK, TypeOK, StoreTypeOK, RunTypeOK, sweepVars,
     storeVars, runVars, MigrationTypeOK
<1> QED
  BY <1>1, <1>2, <1>3, <1>4, <1>5, <1>6, <1>7, <1>8, <1>9, <1>10
  DEF MigrationNext, Editing, Commit

-----------------------------------------------------------------------------
(* Rows.                                                                   *)

LEMMA OneRow ==
    ASSUME TypeOK, RowsGood, MarksPlaced, NEW id \in Ids, NEW row, NEW v,
           table' = [table EXCEPT ![id] = row],
           \A i \in Ids \ {id} : truth'[i] = truth[i] /\ (i \in formats' <=> i \in formats),
           formats' \subseteq formats, id \notin formats',
           row # Absent => RowGood(id, row, truth'[id], FALSE)
    PROVE  RowsGood' /\ MarksPlaced'
<1>1. \A i \in Ids : i # id => table'[i] = table[i]
  BY DEF TypeOK, StoreTypeOK
<1>2. table'[id] = row
  BY DEF TypeOK, StoreTypeOK
<1>3. \A i \in Ids : i # id => (i \in Present' <=> i \in Present)
  BY <1>1 DEF Present
<1>4. RowsGood'
  <2> SUFFICES ASSUME NEW i \in Present'
               PROVE  IF i \in formats' THEN RowGood(i, table'[i], truth'[i], TRUE)
                      ELSE RowGood(i, table'[i], truth'[i], FALSE)
    BY DEF RowsGood
  <2>1. CASE i = id
    BY <1>2, <2>1 DEF Present
  <2>2. CASE i # id
    BY <1>1, <1>3, <2>2 DEF RowsGood, Present
  <2> QED
    BY <2>1, <2>2
<1>5. MarksPlaced'
  BY <1>3 DEF MarksPlaced, Present
<1> QED
  BY <1>4, <1>5

(* The row a guarded statement finds is the one that was read, and a       *)
(* repair of it recovered its value.                                       *)
LEMMA EditFacts ==
    ASSUME MigrationInv, NEW o \in Operators, edit[o] # NoEdit, EditHolds(edit[o])
    PROVE  /\ edit[o].id \in Present /\ table[edit[o].id] = edit[o].row
           /\ edit[o].kind # "quarantine" =>
                /\ edit[o].row.ciphertext.payload = truth[edit[o].id]
                /\ truth[edit[o].id] \in Values
                /\ CanWrite(Planner, truth[edit[o].id])
                /\ edit[o].kind = "collision" <=> edit[o].id \in formats
<1> DEFINE e == edit[o]
<1>1. e.id \in Ids /\ e.row \in Rows /\ e.kind \in EditKinds
      /\ (e.kind # "quarantine" => e.row.ciphertext.payload \in Values)
  BY EditType DEF MigrationInv
<1>2. table[e.id] = e.row /\ (e.kind = "collision" => e.id \in formats)
  BY DEF EditHolds, GuardHolds
<1>3. e.id \in Present
  BY <1>1, <1>2, SweepStoreAssumption DEF Present
<1>4. EditKnown(e)
  BY DEF MigrationInv, EditsKnown
<1>5. ASSUME e.kind = "collision" PROVE e.row.ciphertext.payload = truth[e.id]
  <2>1. RowGood(e.id, e.row, truth[e.id], TRUE)
    BY <1>2, <1>3, <1>5 DEF MigrationInv, RowsGood
  <2>2. RecoverError(e.id, e.row, TRUE) = Ok
    BY <1>4, <1>5 DEF EditKnown
  <2> QED
    BY <1>1, <2>1, <2>2, RecoveredIsTruth
<1>6. ASSUME e.kind = "missing" PROVE e.row.ciphertext.payload = truth[e.id] /\ e.id \notin formats
  <2>3. RecoverError(e.id, e.row, FALSE) = Ok
    BY <1>4, <1>6 DEF EditKnown
  <2>1. CASE e.id \in formats
    <3>1. RowGood(e.id, e.row, truth[e.id], TRUE)
      BY <1>2, <1>3, <2>1 DEF MigrationInv, RowsGood
    <3> QED
      BY <1>1, <2>3, <3>1, MarkedNeedsMark
  <2>2. CASE e.id \notin formats
    <3>1. RowGood(e.id, e.row, truth[e.id], FALSE)
      BY <1>2, <1>3, <2>2 DEF MigrationInv, RowsGood
    <3> QED
      BY <1>1, <2>2, <2>3, <3>1, RecoveredIsTruth
  <2> QED
    BY <2>1, <2>2
<1> QED
  BY <1>1, <1>2, <1>3, <1>4, <1>5, <1>6 DEF EditKinds, EditKnown

LEMMA RestoreFacts ==
    ASSUME MigrationInv, NEW id \in Ids, Restore(id)
    PROVE  /\ id \in Cases /\ truth[id] \in Values /\ table[id] = Absent /\ ~closed
           /\ CanWrite(Planner, truth[id])
<1>1. Cardinality({}) = 0
  BY FS_EmptySet
<1>2. Unresolved(id) # {}
  BY <1>1, SMTT(30) DEF Restore
<1> QED
  BY <1>2 DEF Restore, MigrationInv, CasesKnown

LEMMA RowsStep ==
    ASSUME MigrationInv, MigrationNext
    PROVE  RowsGood' /\ MarksPlaced'
<1> TypeOK /\ RowsGood /\ MarksPlaced /\ StoreTypeOK /\ MigrationTypeOK
  BY DEF MigrationInv, TypesOK, TypeOK
<1>1. CASE Quiet
  BY <1>1 DEF Quiet, RowsGood, MarksPlaced, Present
<1>2. ASSUME NEW w \in Workers, NEW id \in Ids, RewriteRow(w, id), UNCHANGED migrationVars
      PROVE  RowsGood' /\ MarksPlaced'
  <2> DEFINE row == batch[w][id]
             new == Replacement(Planner, id, row, nonces[id])
  <2>1. row \in Rows /\ table[id] = row /\ id \in Present
    BY <1>2, RewrittenRow, SweepStoreAssumption DEF Present
  <2>2. /\ PlanError(Planner, id, row) = Ok /\ PlanState(Planner, row) # "Current"
        /\ nonces[id] \in Nat /\ table' = [table EXCEPT ![id] = new]
    BY <1>2 DEF RewriteRow, Planned, StoreTypeOK
  <2>3. id \notin formats /\ RowGood(id, new, truth[id], FALSE)
    <3>1. CASE id \in formats
      BY <2>1, <2>2, <3>1, RewrittenIsGood DEF RowsGood
    <3>2. CASE id \notin formats
      BY <2>1, <2>2, <3>2, RewrittenIsGood DEF RowsGood
    <3> QED
      BY <3>1, <3>2
  <2> HIDE DEF new
  <2> QED
    BY <1>2, <2>2, <2>3, OneRow DEF migrationVars
<1>3. ASSUME NEW o \in Operators, CommitRepair(o) PROVE RowsGood' /\ MarksPlaced'
  <2> DEFINE e == edit[o]
             new == CurrentRow(e.id, e.row.ciphertext.payload)
  <2>1. e # NoEdit /\ EditHolds(e) /\ e.kind # "quarantine" /\ e.id \in Ids
        /\ e.kind \in {"collision", "missing"}
    BY <1>3, EditType DEF CommitRepair, MigrationInv
  <2>2. RowGood(e.id, new, truth[e.id], FALSE)
    BY <2>1, EditFacts, CurrentIsGood
  <2>3. formats' = formats \ {e.id}
    BY <1>3, <2>1, EditFacts DEF CommitRepair
  <2>4. table' = [table EXCEPT ![e.id] = new] /\ truth' = truth
    BY <1>3 DEF CommitRepair
  <2> HIDE DEF new
  <2> QED
    BY <2>1, <2>2, <2>3, <2>4, OneRow
<1>4. ASSUME NEW o \in Operators, CommitQuarantine(o) PROVE RowsGood' /\ MarksPlaced'
  <2> DEFINE e == edit[o]
  <2>1. e # NoEdit /\ e.kind = "quarantine" /\ e.id \in Ids
    BY <1>4, EditType DEF CommitQuarantine, MigrationInv
  <2>2. e.id \in Cases
    BY <2>1 DEF MigrationInv, EditsKnown, EditKnown
  <2>3. e.id \notin formats /\ formats' = formats /\ truth' = truth
        /\ table' = [table EXCEPT ![e.id] = Absent]
    BY <1>4, <2>2 DEF MarksPlaced, CommitQuarantine
  <2> QED
    BY <2>1, <2>3, OneRow
<1>5. ASSUME NEW id \in Ids, Restore(id) PROVE RowsGood' /\ MarksPlaced'
  <2>1. RowGood(id, CurrentRow(id, truth[id]), truth[id], FALSE)
    BY <1>5, RestoreFacts, CurrentIsGood
  <2>2. id \notin formats /\ formats' = formats /\ truth' = truth
        /\ table' = [table EXCEPT ![id] = CurrentRow(id, truth[id])]
    BY <1>5, RestoreFacts DEF MarksPlaced, Restore
  <2> QED
    BY <2>1, <2>2, OneRow
<1>6. ASSUME NEW id \in Ids, Damage(id) PROVE RowsGood' /\ MarksPlaced'
  <2> DEFINE new == [table[id] EXCEPT !.ciphertext = Damaged(@)]
  <2>1. id \in Present /\ id \notin formats
    BY <1>6 DEF Damage, MarksPlaced
  <2>2. RowGood(id, table[id], truth[id], FALSE) /\ table[id] \in Rows
    BY <2>1 DEF RowsGood, RowGood
  <2>3. RowGood(id, new, truth[id], FALSE)
    BY <2>2, DamagedIsGood
  <2>4. table' = [table EXCEPT ![id] = new] /\ formats' = formats /\ truth' = truth
    BY <1>6 DEF Damage
  <2> HIDE DEF new
  <2> QED
    BY <2>1, <2>3, <2>4, OneRow
<1>7. ASSUME NEW id \in Ids, NEW v \in Values, NEW w \in Writers, PutValue(id, v, w)
      PROVE  RowsGood' /\ MarksPlaced'
  <2>1. w \in EarlierWriters \cup {Planner} /\ CanWrite(w, v)
    BY <1>7 DEF PutValue, Put, Writers
  <2>2. RowGood(id, WrittenRow(w, id, v), v, FALSE)
    BY <2>1, WrittenIsGood
  <2>3. /\ table' = [table EXCEPT ![id] = WrittenRow(w, id, v)]
        /\ id \notin formats /\ formats' = formats
        /\ truth' = [truth EXCEPT ![id] = v]
    BY <1>7 DEF PutValue, Put
  <2>4. truth'[id] = v /\ \A i \in Ids \ {id} : truth'[i] = truth[i]
    BY <2>3 DEF MigrationTypeOK
  <2> QED
    BY <2>2, <2>3, <2>4, OneRow
<1> QED
  BY <1>1, <1>2, <1>3, <1>4, <1>5, <1>6, <1>7, Steps

-----------------------------------------------------------------------------
(* What operators know, and what the table and the open cases hold.        *)

LEMMA EditsStep ==
    ASSUME MigrationInv, MigrationNext
    PROVE  EditsKnown'
<1> EditsKnown /\ RowsGood /\ MigrationTypeOK
  BY DEF MigrationInv, TypesOK
<1>1. ASSUME \A o \in Operators : edit'[o] \in {NoEdit, edit[o]}, closed' = closed
      PROVE  EditsKnown'
  BY <1>1 DEF EditsKnown, EditKnown
<1>2. ASSUME NEW o \in Operators, NEW kind \in EditKinds, NEW id \in Ids, ReadTuple(o, kind, id)
      PROVE  EditsKnown'
  <2> DEFINE e == [kind |-> kind, id |-> id, row |-> table[id]]
  <2>1. e.kind = kind /\ e.id = id /\ e.row = table[id]
    OBVIOUS
  <2>2. ~closed /\ closed' = closed /\ edit' = [edit EXCEPT ![o] = e]
        /\ table[id].ciphertext.form # "null"
    BY <1>2 DEF ReadTuple
  <2>3. kind = "quarantine" => id \in Cases
    BY <1>2 DEF ReadTuple, CanQuarantine
  <2>4. kind # "quarantine" =>
            /\ CanWrite(Planner, table[id].ciphertext.payload)
            /\ RecoverError(id, table[id], kind = "collision") = Ok
    BY <1>2 DEF ReadTuple, CanRepair
  <2>5. /\ kind = "collision" => RecoverError(id, table[id], TRUE) = Ok
        /\ kind = "missing" => RecoverError(id, table[id], FALSE) = Ok
    BY <2>4 DEF RecoverError
  <2> HIDE DEF e
  <2>6. EditKnown(e)
    BY <2>1, <2>2, <2>3, <2>4, <2>5 DEF EditKnown
  <2> QED
    BY <2>2, <2>6 DEF EditsKnown, EditKnown, MigrationTypeOK
<1>3. CASE Sweeping \/ (Promote /\ UNCHANGED <<runVars, migrationVars>>)
  BY <1>1, <1>3 DEF Sweeping, migrationVars
<1>4. ASSUME NEW o \in Operators, Commit(o) \/ EditCrash(o) PROVE EditsKnown'
  BY <1>1, <1>4 DEF Commit, CommitRepair, CommitQuarantine, EditConflict, EditCrash,
     MigrationTypeOK
<1>5. ASSUME NEW id \in Ids,
             Restore(id) \/ Damage(id) \/ \E v \in Values, w \in Writers : PutValue(id, v, w)
      PROVE  EditsKnown'
  BY <1>1, <1>5 DEF Restore, Damage, PutValue
<1>6. CASE LookupEnd \/ \E query \in Queries : LookupBegin(query)
  BY <1>1, <1>6 DEF LookupEnd, LookupBegin
<1>7. CASE Close
  BY <1>7 DEF Close, Drained, EditsKnown
<1> QED
  BY <1>2, <1>3, <1>4, <1>5, <1>6, <1>7 DEF MigrationNext, Editing

(* A step that leaves the cases and truths of a row alone, and the row if  *)
(* it was there.                                                           *)
LEMMA CasesKept ==
    ASSUME NEW id, CasesKnown, NothingLost, quarantine' = quarantine,
           \A i \in Ids : /\ i \in Present => i \in Present'
                          /\ truth'[i] # truth[i] => truth'[i] \in Values /\ i \in Present'
    PROVE  CasesKnown' /\ NothingLost'
<1>1. \A i \in Ids : Unresolved(i)' = Unresolved(i)
  BY DEF Unresolved
<1> QED
  BY <1>1 DEF CasesKnown, NothingLost

(* Only a quarantine removes a row.                                        *)
LEMMA RowsStay ==
    ASSUME MigrationInv, MigrationNext, ~(\E o \in Operators : CommitQuarantine(o))
    PROVE  \A i \in Ids : i \in Present => i \in Present'
<1> StoreTypeOK /\ MigrationTypeOK /\ RowsGood
  BY DEF MigrationInv, TypesOK, TypeOK
<1>1. CASE Quiet
  BY <1>1 DEF Quiet, Present
<1>2. ASSUME NEW id \in Ids, NEW row \in Rows, table' = [table EXCEPT ![id] = row]
      PROVE  \A i \in Ids : i \in Present => i \in Present'
  BY <1>2, SweepStoreAssumption DEF Present, StoreTypeOK
<1>3. ASSUME NEW w \in Workers, NEW id \in Ids, RewriteRow(w, id)
      PROVE  \A i \in Ids : i \in Present => i \in Present'
  BY <1>2, <1>3, RewrittenRow DEF MigrationInv, TypesOK
<1>4. ASSUME NEW o \in Operators, CommitRepair(o)
      PROVE  \A i \in Ids : i \in Present => i \in Present'
  <2> DEFINE e == edit[o]
             new == CurrentRow(e.id, e.row.ciphertext.payload)
  <2>1. e.id \in Ids /\ e # NoEdit /\ EditHolds(e) /\ e.kind # "quarantine"
    BY <1>4, EditType DEF CommitRepair, MigrationInv
  <2>2. new \in Rows
    BY <2>1, EditFacts, CurrentIsGood
  <2>3. table' = [table EXCEPT ![e.id] = new]
    BY <1>4 DEF CommitRepair
  <2> HIDE DEF new
  <2> QED
    BY <1>2, <2>1, <2>2, <2>3
<1>5. ASSUME NEW id \in Ids, Restore(id)
      PROVE  \A i \in Ids : i \in Present => i \in Present'
  <2>1. CurrentRow(id, truth[id]) \in Rows
    BY <1>5, RestoreFacts, CurrentIsGood
  <2> QED
    BY <1>2, <1>5, <2>1 DEF Restore
<1>6. ASSUME NEW id \in Ids, Damage(id)
      PROVE  \A i \in Ids : i \in Present => i \in Present'
  <2> DEFINE new == [table[id] EXCEPT !.ciphertext = Damaged(@)]
  <2>1. id \in Present /\ id \notin formats /\ table' = [table EXCEPT ![id] = new]
    BY <1>6 DEF Damage, MigrationInv, MarksPlaced
  <2>2. new \in Rows
    BY <2>1, DamagedIsGood DEF RowsGood, RowGood
  <2> HIDE DEF new
  <2> QED
    BY <1>2, <2>1, <2>2
<1>7. ASSUME NEW id \in Ids, NEW v \in Values, NEW w \in Writers, PutValue(id, v, w)
      PROVE  \A i \in Ids : i \in Present => i \in Present'
  <2>1. w \in EarlierWriters \cup {Planner} /\ CanWrite(w, v)
        /\ table' = [table EXCEPT ![id] = WrittenRow(w, id, v)]
    BY <1>7 DEF PutValue, Put, Writers
  <2>2. WrittenRow(w, id, v) \in Rows
    BY <2>1, WrittenRowType, SweepStoreAssumption
  <2> QED
    BY <1>2, <2>1, <2>2
<1> QED
  BY <1>1, <1>3, <1>4, <1>5, <1>6, <1>7, Steps

LEMMA CasesStep ==
    ASSUME MigrationInv, MigrationNext
    PROVE  CasesKnown' /\ NothingLost'
<1> CasesKnown /\ NothingLost /\ StoreTypeOK /\ MigrationTypeOK /\ RowsGood
  BY DEF MigrationInv, TypesOK, TypeOK
<1>1. ASSUME quarantine' = quarantine, truth' = truth, ~(\E o \in Operators : CommitQuarantine(o))
      PROVE  CasesKnown' /\ NothingLost'
  BY <1>1, CasesKept, RowsStay
<1>2. ASSUME NEW o \in Operators, CommitQuarantine(o) PROVE CasesKnown' /\ NothingLost'
  <2> DEFINE e == edit[o]
             n == Len(quarantine[e.id]) + 1
             case == [row |-> e.row, resolved |-> FALSE]
  <2>1. e # NoEdit /\ EditHolds(e) /\ e.id \in Ids
    BY <1>2, EditType DEF CommitQuarantine, MigrationInv
  <2>2. e.id \in Present /\ truth[e.id] \in Values
    BY <2>1, EditFacts DEF RowsGood, RowGood
  <2>3. /\ quarantine'[e.id] = Append(quarantine[e.id], case)
        /\ \A i \in Ids \ {e.id} : quarantine'[i] = quarantine[i]
        /\ \A i \in Ids \ {e.id} : table'[i] = table[i]
        /\ truth' = truth
    BY <1>2, <2>1 DEF CommitQuarantine, MigrationTypeOK, StoreTypeOK
  <2>4. quarantine[e.id] \in Seq(CasesOver)
    BY <2>1 DEF MigrationTypeOK
  <2>5. ~case.resolved
    OBVIOUS
  <2> HIDE DEF case
  <2>6. PICK id \in Ids : id = e.id
    BY <2>1
  <2>7. n \in DOMAIN quarantine'[id] /\ quarantine'[id][n] = case
    BY <2>3, <2>4, <2>6
  <2> HIDE DEF n, e
  <2>8. Unresolved(id)' # {}
    BY <2>5, <2>7 DEF Unresolved
  <2>9. \A i \in Ids \ {id} : Unresolved(i)' = Unresolved(i) /\ (i \in Present' <=> i \in Present)
    BY <2>3, <2>6 DEF Unresolved, Present
  <2> QED
    BY <2>2, <2>3, <2>6, <2>8, <2>9 DEF CasesKnown, NothingLost
<1>3. ASSUME NEW id \in Ids, Restore(id) PROVE CasesKnown' /\ NothingLost'
  <2>1. CurrentRow(id, truth[id]) # Absent
    BY <1>3, RestoreFacts, CurrentIsGood, SweepStoreAssumption
  <2>2. /\ table'[id] = CurrentRow(id, truth[id])
        /\ \A i \in Ids \ {id} : table'[i] = table[i] /\ quarantine'[i] = quarantine[i]
        /\ truth' = truth
    BY <1>3 DEF Restore, StoreTypeOK, MigrationTypeOK
  <2>3. id \in Present' /\ truth[id] \in Values
    BY <1>3, <2>1, <2>2, RestoreFacts DEF Present
  <2>4. \A i \in Ids \ {id} : Unresolved(i)' = Unresolved(i) /\ (i \in Present' <=> i \in Present)
    BY <2>2 DEF Unresolved, Present
  <2> QED
    BY <2>2, <2>3, <2>4 DEF CasesKnown, NothingLost
<1>4. ASSUME NEW id \in Ids, NEW v \in Values, NEW w \in Writers, PutValue(id, v, w),
             ~(\E o \in Operators : CommitQuarantine(o))
      PROVE  CasesKnown' /\ NothingLost'
  <2>1. w \in EarlierWriters \cup {Planner} /\ CanWrite(w, v)
    BY <1>4 DEF PutValue, Put, Writers
  <2>2. WrittenRow(w, id, v) # Absent
    BY <2>1, WrittenRowType, SweepStoreAssumption
  <2>3. /\ table' = [table EXCEPT ![id] = WrittenRow(w, id, v)]
        /\ truth' = [truth EXCEPT ![id] = v] /\ quarantine' = quarantine
    BY <1>4 DEF PutValue, Put
  <2>4. \A i \in Ids : truth'[i] # truth[i] => truth'[i] \in Values /\ i \in Present'
    BY <2>2, <2>3 DEF Present, StoreTypeOK, MigrationTypeOK
  <2> QED
    BY <1>4, <2>3, <2>4, CasesKept, RowsStay
<1>5. ASSUME ~(\E o \in Operators : CommitQuarantine(o)), ~(\E id \in Ids : Restore(id)),
             ~(\E id \in Ids, v \in Values, w \in Writers : PutValue(id, v, w))
      PROVE  quarantine' = quarantine /\ truth' = truth
  BY <1>5, Steps DEF Quiet, migrationVars, CommitRepair, Damage
<1> QED
  BY <1>1, <1>2, <1>3, <1>4, <1>5

-----------------------------------------------------------------------------
(* The end of the window.                                                  *)

LEMMA WrittenIsAudited ==
    ASSUME StoreTypeOK, NEW id \in Ids, NEW v \in Values, CanWrite(Planner, v)
    PROVE  Audited(id, WrittenRow(Planner, id, v))
<1> DEFINE row == WrittenRow(Planner, id, v)
<1>1. Classify(Planner, id, row) = "Current"
  BY TargetWriteIsCurrent
<1>2. Planner # LegacyWriter /\ nonces[id] \in Nat /\ id \in Int
  BY SweepStoreAssumption DEF StoreTypeOK
<1>3. /\ row.ciphertext = Seal(RowContext(Planner, id), Planner.padding, v, Planner.keys, nonces[id])
      /\ row.indexes[1] = Derive(v, Planner.columns[1].bits, Planner.columns[1].keys)
  BY <1>2, PlannerFacts DEF WrittenRow
<1>4. v \in Payloads \ {Unpaddable}
  BY EnvelopeAssumption DEF Payloads
<1>5. Open(RowContext(Planner, id), row.ciphertext, Planner.keys) = Ok
  BY <1>2, <1>3, <1>4, PlannerFacts, SealOpens
<1>6. row.ciphertext.payload = v
  BY <1>3 DEF Seal
<1>7. StrictReadError(Planner, id, row) = Ok
  BY <1>5, <1>6 DEF StrictReadError, Decode
<1> QED
  BY <1>1, <1>3, <1>6, <1>7 DEF Audited

LEMMA ClosedStep ==
    ASSUME MigrationInv, MigrationNext
    PROVE  ClosedSettled'
<1> ClosedSettled /\ TypeOK /\ StoreTypeOK /\ EditsKnown /\ MigrationTypeOK
  BY DEF MigrationInv, TypesOK, TypeOK
<1>1. CASE Close
  BY <1>1 DEF Close, Drained, MayClose, QuarantineGate, Unresolved, VerifyTerminal, AuditCurrent,
     ClosedSettled, Audited, sweepVars, storeVars, Present
<1>2. ASSUME ~closed, ~Close PROVE ~closed'
  BY <1>2 DEF MigrationNext, Sweeping, migrationVars, Editing, Commit, ReadTuple, CommitRepair,
     CommitQuarantine, EditConflict, EditCrash, Restore, Damage, LookupBegin, LookupEnd, PutValue
<1>3. ASSUME closed, Quiet, promoted' = promoted PROVE ClosedSettled'
  BY <1>3 DEF Quiet, ClosedSettled, QuarantineGate, Unresolved, Present, Audited
<1>4. ASSUME closed, ~Close PROVE ClosedSettled'
  <2>1. /\ promoted /\ QuarantineGate /\ formats = {}
        /\ \A id \in Present : Audited(id, table[id])
    BY <1>4 DEF ClosedSettled
  <2>2. promoted' = promoted
    <3>1. ASSUME NEW o \in Operators, Editing(o) PROVE promoted' = promoted
      BY <3>1 DEF Editing, Commit, ReadTuple, CommitRepair, CommitQuarantine, EditConflict,
         EditCrash, storeVars, sweepVars
    <3>2. ASSUME NEW id \in Ids, Restore(id) \/ Damage(id) PROVE promoted' = promoted
      BY <3>2 DEF Restore, Damage
    <3>3. ASSUME NEW query \in Queries, LookupBegin(query) PROVE promoted' = promoted
      BY <3>3 DEF LookupBegin, storeVars, sweepVars
    <3>4. CASE LookupEnd \/ Close \/ Promote
      BY <2>1, <3>4 DEF LookupEnd, Close, Promote, storeVars, sweepVars
    <3>5. ASSUME NEW id \in Ids, NEW v \in Values, NEW w \in Writers, PutValue(id, v, w)
          PROVE  promoted' = promoted
      BY <3>5 DEF PutValue, Put
    <3> QED
      BY <3>1, <3>2, <3>3, <3>4, <3>5, RunsPromoteNothing DEF MigrationNext, Sweeping
  <2>3. ASSUME NEW w \in Workers, NEW id \in Ids, RewriteRow(w, id) PROVE FALSE
    <3> DEFINE row == batch[w][id]
    <3>1. row \in Rows /\ table[id] = row /\ id \in Present
      BY <2>3, RewrittenRow, SweepStoreAssumption DEF Present
    <3>2. Classify(Planner, id, row) = "Current"
      BY <2>1, <3>1 DEF Audited
    <3>3. row \in RowsOver(1) /\ Planner \in PlannersOver(1) /\ id \in Int /\ 1 \in Nat
      BY <3>1, RowFacts, PlannerFacts, SweepStoreAssumption
    <3>4. PlanState(Planner, row) = "Current"
      BY <3>2, <3>3, ClassifyAgrees
    <3> QED
      BY <2>3, <3>4 DEF RewriteRow
  <2>4. ~(\E o \in Operators : CommitRepair(o) \/ CommitQuarantine(o))
    BY <1>4 DEF EditsKnown, CommitRepair, CommitQuarantine
  <2>5. ~(\E id \in Ids : Restore(id) \/ Damage(id))
    BY <1>4 DEF Restore, Damage
  <2>6. ASSUME NEW id \in Ids, NEW v \in Values, NEW w \in Writers, PutValue(id, v, w)
        PROVE  ClosedSettled'
    <3>1. w = Planner /\ CanWrite(Planner, v)
      BY <2>1, <2>6 DEF Writers, PutValue, Put
    <3> DEFINE row == WrittenRow(Planner, id, v)
    <3>2. Audited(id, row)
      BY <3>1, WrittenIsAudited
    <3>3. /\ table' = [table EXCEPT ![id] = row] /\ formats' = formats
          /\ quarantine' = quarantine /\ promoted' = promoted
      BY <2>6, <3>1 DEF PutValue, Put
    <3> HIDE DEF row
    <3>4. \A i \in Ids : i # id => table'[i] = table[i]
      BY <3>3 DEF StoreTypeOK
    <3>5. table'[id] = row
      BY <3>3 DEF StoreTypeOK
    <3>6. \A i \in Present' : Audited(i, table'[i])
      BY <2>1, <3>2, <3>4, <3>5 DEF Present
    <3>7. QuarantineGate'
      BY <2>1, <3>3 DEF QuarantineGate, Unresolved
    <3> QED
      BY <2>1, <3>3, <3>6, <3>7 DEF ClosedSettled, Audited
  <2> QED
    BY <1>3, <1>4, <2>2, <2>3, <2>4, <2>5, <2>6, Steps
<1> QED
  BY <1>1, <1>2, <1>4 DEF ClosedSettled

-----------------------------------------------------------------------------
(* Lookups.                                                                *)

LEMMA GoodReads ==
    ASSUME RowsGood, NEW id \in Present
    PROVE  /\ table[id] \in Rows /\ table[id].ciphertext.form # "null"
           /\ truth[id] \in Values /\ IndexKnown(table[id].indexes[1], truth[id])
           /\ IF IsDamaged(table[id].ciphertext) THEN GetError(id) # Ok
              ELSE GetError(id) = Ok /\ table[id].ciphertext.payload = truth[id]
<1>1. CASE id \in formats
  <2>1. RowGood(id, table[id], truth[id], TRUE)
    BY <1>1 DEF RowsGood
  <2>2. GetError(id) = RecoverError(id, table[id], TRUE)
    BY <1>1 DEF GetError, RecoverError
  <2> QED
    BY <2>1, <2>2 DEF RowGood
<1>2. CASE id \notin formats
  <2>1. RowGood(id, table[id], truth[id], FALSE)
    BY <1>2 DEF RowsGood
  <2>2. GetError(id) = RecoverError(id, table[id], FALSE)
    BY <1>2 DEF GetError, RecoverError
  <2> QED
    BY <2>1, <2>2 DEF RowGood
<1> QED
  BY <1>1, <1>2

(* Under the gate every true match is a candidate: it is in the table, and *)
(* its index is missing or the query's under a key that is read.           *)
LEMMA MatchesAreCandidates ==
    ASSUME RowsGood, NothingLost, QuarantineGate, NEW query, NEW id \in TrueMatches(query)
    PROVE  id \in Candidates(query)
<1>1. id \in Present /\ truth[id] \notin Unindexable /\ NormalForm[query] = NormalForm[truth[id]]
  BY DEF TrueMatches, VerifyCandidate, SameNormalForm, NothingLost, QuarantineGate
<1>2. table[id].ciphertext.form # "null" /\ IndexKnown(table[id].indexes[1], truth[id])
  BY <1>1, GoodReads
<1>3. \A bits, k : IndexOf(query, bits, k) = IndexOf(truth[id], bits, k)
  BY <1>1 DEF IndexOf
<1> QED
  BY <1>1, <1>2, <1>3 DEF Candidates, TransitionalCandidates, Probed, Probes, IndexKnown

LEMMA SnapshotIsWhole ==
    ASSUME RowsGood, NothingLost, QuarantineGate, NEW query, ~LookupResult(query).failed
    PROVE  LookupResult(query).ids = TrueMatches(query)
<1>1. /\ \A id \in Candidates(query) : GetError(id) = Ok
      /\ LookupResult(query).ids =
            {id \in Candidates(query) :
                VerifyCandidate(query, table[id].ciphertext.payload) = "hit"}
  BY DEF LookupResult, LookupFailed, Hits
<1>2. \A id \in Candidates(query) :
        id \in Present /\ table[id].ciphertext.payload = truth[id] /\ truth[id] \in Values
  BY <1>1, GoodReads DEF Candidates, TransitionalCandidates
<1>3. LookupResult(query).ids \subseteq TrueMatches(query)
  BY <1>1, <1>2, MigrationAssumption DEF TrueMatches, Present
<1>4. TrueMatches(query) \subseteq LookupResult(query).ids
  BY <1>1, <1>2, MatchesAreCandidates DEF TrueMatches
<1> QED
  BY <1>3, <1>4

LEMMA LookupStep ==
    ASSUME MigrationInv, MigrationNext
    PROVE  LookupsAreWhole'
<1> RowsGood /\ NothingLost /\ LookupsAreWhole
  BY DEF MigrationInv
<1>1. ASSUME NEW query \in Queries, LookupBegin(query) PROVE LookupsAreWhole'
  <2>1. LookupResult(query).failed \/ LookupResult(query).ids = TrueMatches(query)
    BY <1>1, SnapshotIsWhole DEF LookupBegin
  <2> QED
    BY <1>1, <2>1 DEF LookupBegin, LookupsAreWhole, Answer
<1>2. ASSUME \A query \in Queries : ~LookupBegin(query)
      PROVE  lookup' \in {lookup, NoLookup}
  BY <1>2 DEF MigrationNext, Sweeping, migrationVars, Editing, Commit, ReadTuple, CommitRepair,
     CommitQuarantine, EditConflict, EditCrash, Restore, Damage, LookupEnd, PutValue, Close
<1> QED
  BY <1>1, <1>2 DEF LookupsAreWhole, Answer

-----------------------------------------------------------------------------
(* The invariant holds.                                                    *)

LEMMA MigrationStart == MigrationInit => MigrationInv
<1> SUFFICES ASSUME MigrationInit PROVE MigrationInv
  OBVIOUS
<1>1. TypeOK /\ StoreTypeOK
  BY InitType DEF MigrationInit, TypeOK
<1>2. \A id \in Ids : Unresolved(id) = {}
  BY DEF MigrationInit, Unresolved
<1>3. ASSUME NEW id \in Present
      PROVE  IF id \in formats THEN RowGood(id, table[id], truth[id], TRUE)
             ELSE RowGood(id, table[id], truth[id], FALSE)
  <2>1. /\ table[id] \in Rows /\ Seeded(id, table[id]) /\ id \in Ids
        /\ truth[id] = table[id].ciphertext.payload
        /\ id \in formats <=> IsCollision(table[id].ciphertext)
    BY <1>1, SeedAssumption DEF MigrationInit, Init, StoreInit, StoreTypeOK, Present
  <2>2. /\ table[id].ciphertext.form # "null"
        /\ IndexKnown(table[id].indexes[1], table[id].ciphertext.payload)
    BY <2>1 DEF Seeded
  <2>3. CASE id \in formats
    <3>1. RecoverError(id, table[id], TRUE) = Ok
      BY <2>1, <2>3 DEF Seeded, RecoverError
    <3> QED
      BY <2>1, <2>2, <2>3, <3>1, RecoveredFacts DEF RowGood
  <2>4. CASE id \notin formats
    <3>1. RecoverError(id, table[id], FALSE) = Ok
      BY <2>1, <2>4 DEF Seeded, RecoverError
    <3> QED
      BY <2>1, <2>2, <2>4, <3>1, RecoveredFacts DEF RowGood
  <2> QED
    BY <2>3, <2>4
<1>4. RowsGood
  BY <1>3 DEF RowsGood
<1>5. MigrationTypeOK
  <2>1. truth \in [Ids -> Values \cup {Absent}]
    BY <1>4, GoodReads DEF MigrationInit, Present
  <2>2. quarantine \in [Ids -> Seq(CasesOver)]
    BY DEF MigrationInit
  <2>3. formats \subseteq Ids
    BY DEF MigrationInit, Present
  <2>4. edit \in [Operators -> Edits \cup {NoEdit}] /\ closed \in BOOLEAN
    BY DEF MigrationInit
  <2>5. damages \in 0..MaxDamage
    BY MigrationAssumption DEF MigrationInit
  <2> QED
    BY <2>1, <2>2, <2>3, <2>4, <2>5 DEF MigrationTypeOK
<1>6. MarksPlaced
  BY <1>3, SeedAssumption DEF MarksPlaced, MigrationInit, Init, StoreInit, Seeded, Present
<1>7. EditsKnown /\ CasesKnown /\ NothingLost /\ ClosedSettled /\ LookupsAreWhole
  BY <1>2 DEF EditsKnown, CasesKnown, NothingLost, ClosedSettled, LookupsAreWhole, MigrationInit,
     Present
<1> QED
  BY <1>1, <1>4, <1>5, <1>6, <1>7 DEF MigrationInv, TypesOK

LEMMA MigrationStep == MigrationInv /\ [MigrationNext]_allVars => MigrationInv'
<1> SUFFICES ASSUME MigrationInv, [MigrationNext]_allVars PROVE MigrationInv'
  OBVIOUS
<1>1. CASE MigrationNext
  BY <1>1, TypesStep, RowsStep, EditsStep, CasesStep, ClosedStep, LookupStep DEF MigrationInv
<1>2. CASE UNCHANGED allVars
  <2>1. UNCHANGED sweepVars /\ UNCHANGED migrationVars
    BY <1>2 DEF allVars
  <2>2. TypeOK'
    BY <2>1, NextType DEF MigrationInv, TypesOK
  <2>3. MigrationTypeOK'
    BY <2>1 DEF MigrationInv, TypesOK, MigrationTypeOK, migrationVars
  <2>4. RowsGood' /\ MarksPlaced' /\ EditsKnown'
    BY <2>1 DEF MigrationInv, RowsGood, MarksPlaced, EditsKnown, EditKnown, Present, sweepVars,
       storeVars, migrationVars
  <2>5. CasesKnown' /\ NothingLost' /\ ClosedSettled' /\ LookupsAreWhole'
    BY <2>1 DEF MigrationInv, CasesKnown, NothingLost, ClosedSettled, LookupsAreWhole, Answer,
       Unresolved, QuarantineGate, Audited, Present, sweepVars, storeVars, migrationVars
  <2> QED
    BY <2>2, <2>3, <2>4, <2>5 DEF MigrationInv, TypesOK
<1> QED
  BY <1>1, <1>2

LEMMA MigrationInvariant == MigrationSpec => []MigrationInv
  BY MigrationStart, MigrationStep, PTL DEF MigrationSpec

(* Every variable of the migration keeps its type, reports, discriminators *)
(* and quarantine cases included.                                          *)
THEOREM MigrationTypeCorrect == MigrationSpec => [](TypeOK /\ MigrationTypeOK)
<1>1. MigrationInv => TypeOK /\ MigrationTypeOK
  BY DEF MigrationInv, TypesOK
<1> QED
  BY <1>1, MigrationInvariant, PTL

(* recover: whatever sweeps, repairs, restores and crashes interleave, a   *)
(* row reads as the value it stands for, or as an error if it was damaged. *)
THEOREM ReadsAreTrue == MigrationSpec => []ReadsTheTruth
<1>1. MigrationInv => ReadsTheTruth
  BY GoodReads DEF MigrationInv, ReadsTheTruth
<1> QED
  BY <1>1, MigrationInvariant, PTL

(* quarantine, restore: a value is always in the table or in an open case. *)
THEOREM NothingIsLost == MigrationSpec => []NothingLost
<1>1. MigrationInv => NothingLost
  BY DEF MigrationInv
<1> QED
  BY <1>1, MigrationInvariant, PTL

(* lookup: an answer is an error, or it is every row that stood for a      *)
(* matching value when its snapshot was taken, and no other.               *)
THEOREM LookupsWhole == MigrationSpec => []LookupsAreWhole
<1>1. MigrationInv => LookupsAreWhole
  BY DEF MigrationInv
<1> QED
  BY <1>1, MigrationInvariant, PTL

(* What the audit found of a row, a reader with the current keys finds.    *)
LEMMA AuditedIsStrict ==
    ASSUME MigrationInv, closed, NEW id \in Present
    PROVE  /\ StrictReadError(StrictReader, id, table[id]) = Ok
           /\ table[id].ciphertext.form # "null"
           /\ table[id].ciphertext.payload = truth[id] /\ truth[id] \in Values
           /\ table[id].indexes[1] =
                 IndexOf(truth[id], Planner.columns[1].bits, Planner.columns[1].keys.current)
<1> DEFINE row == table[id]
<1>1. Audited(id, row) /\ RowsGood
  BY DEF MigrationInv, ClosedSettled
<1>2. row.ciphertext.key = Planner.keys.current
  BY <1>1, CurrentRowNames DEF Audited
<1>3. Open(RowContext(Planner, id), row.ciphertext, Planner.keys) = Ok
      /\ Decode(row.ciphertext.payload) = Ok
  BY <1>1 DEF Audited, StrictReadError
<1>4. /\ StrictReader.keys = [Planner.keys EXCEPT !.keys = {Planner.keys.current}]
      /\ StrictReader.seal = Planner.seal /\ StrictReader.kind = Planner.kind
  BY PlannerFacts DEF StrictReader, PlannersOver
<1>5. StrictReader.keys.keys = {Planner.keys.current}
  BY <1>4, PlannerFacts DEF PlannersOver, Keyrings
<1>6. Open(RowContext(StrictReader, id), row.ciphertext, StrictReader.keys) = Ok
  BY <1>2, <1>3, <1>4, <1>5 DEF Open, Authenticates, RowContext, Ok
<1>7. row.ciphertext.form = "envelope" /\ row.ciphertext.authentic
  <2>1. InspectCiphertext(row.ciphertext) # "NotCiphertext"
    BY <1>1, CurrentRowNames DEF Audited
  <2> QED
    BY <1>3, <2>1 DEF Open, Authenticates, InspectCiphertext, Ok
<1>8. row.ciphertext.payload = truth[id] /\ truth[id] \in Values /\ row.ciphertext.form # "null"
  BY <1>1, <1>7, GoodReads DEF IsDamaged
<1>9. row.indexes[1] =
        IndexOf(truth[id], Planner.columns[1].bits, Planner.columns[1].keys.current)
  BY <1>1, <1>8 DEF Audited, Derive
<1> QED
  BY <1>3, <1>6, <1>8, <1>9 DEF StrictReadError

(* close: afterwards readers that hold only the current keys, recover      *)
(* nothing and search by index alone find every value, and no other.       *)
THEOREM ClosedIsStrictAlways == MigrationSpec => []ClosedIsStrict
<1>1. ASSUME MigrationInv, closed, NEW id \in Ids, truth[id] # Absent PROVE id \in Present
  BY <1>1 DEF MigrationInv, NothingLost, ClosedSettled, QuarantineGate
<1>2. ASSUME MigrationInv, closed, NEW q \in Values \ Unindexable
      PROVE  StrictHits(StrictReader, 1, q, table, Present) = TrueMatches(q)
  <2> DEFINE bits == Planner.columns[1].bits
             key == Planner.columns[1].keys.current
  <2>1. StrictReader.columns[1].bits = bits /\ StrictReader.columns[1].keys.keys = {key}
    <3>1. Planner.columns[1].keys \in IndexKeyrings /\ 1 \in DOMAIN Planner.columns
      BY PlannerFacts
    <3>2. StrictReader.columns =
            [Planner.columns EXCEPT ![1] = [Planner.columns[1] EXCEPT !.keys.keys = {key}]]
      BY PlannerFacts DEF StrictReader, PlannersOver
    <3>3. Planner.columns[1] \in [bits : 1..MaxIndexBits, keys : IndexKeyrings \cup {NotConfigured}]
      BY PlannerFacts DEF PlannersOver
    <3>4. [Planner.columns[1] EXCEPT !.keys.keys = {key}].keys.keys = {key}
      BY <3>1, <3>3 DEF IndexKeyrings
    <3>5. [Planner.columns[1] EXCEPT !.keys.keys = {key}].bits = bits
      BY <3>3
    <3> QED
      BY <3>1, <3>2, <3>4, <3>5
  <2>2. \A id \in Present :
            Probed(StrictReader, 1, q, table[id]) <=> table[id].indexes[1] = IndexOf(q, bits, key)
    BY <2>1 DEF Probed, Probes
  <2>3. \A id \in Present :
            OpenMatching(StrictReader, id, table[id], q) = VerifyCandidate(q, truth[id])
    BY <1>2, AuditedIsStrict DEF OpenMatching
  <2>4. \A id \in Present : truth[id] # Absent
    BY <1>2, AuditedIsStrict, MigrationAssumption
  <2>5. ASSUME NEW id \in Present, VerifyCandidate(q, truth[id]) = "hit"
        PROVE  table[id].indexes[1] = IndexOf(q, bits, key)
    <3>1. NormalForm[q] = NormalForm[truth[id]]
      BY <2>5 DEF VerifyCandidate, SameNormalForm
    <3> QED
      BY <1>2, <3>1, AuditedIsStrict DEF IndexOf
  <2> QED
    BY <1>1, <1>2, <2>2, <2>3, <2>4, <2>5 DEF StrictHits, StrictCandidates, TrueMatches, Present
<1>3. MigrationInv => ClosedIsStrict
  BY <1>1, <1>2, AuditedIsStrict DEF ClosedIsStrict
<1> QED
  BY <1>3, MigrationInvariant, PTL

(* quarantine: a row leaves the table only as the evidence of its case,    *)
(* and no case is changed but to be resolved.                              *)
THEOREM EvidenceExact == MigrationSpec => EvidenceIsExact
<1> DEFINE Kept(id) ==
            /\ id \in Present /\ table'[id] = Absent =>
                quarantine'[id] =
                    Append(quarantine[id], [row |-> table[id], resolved |-> FALSE])
            /\ \A i \in DOMAIN quarantine[id] :
                quarantine'[id][i].row = quarantine[id][i].row
<1>1. ASSUME MigrationInv, MigrationInv', [MigrationNext]_allVars, NEW id \in Ids
      PROVE  Kept(id)
  <2> MigrationTypeOK /\ StoreTypeOK /\ quarantine[id] \in Seq(CasesOver)
    BY <1>1 DEF MigrationInv, TypesOK, TypeOK, MigrationTypeOK
  <2>1. ASSUME NEW o \in Operators, CommitQuarantine(o) PROVE Kept(id)
    <3> DEFINE e == edit[o]
               new == [row |-> e.row, resolved |-> FALSE]
    <3>1. e.id \in Ids /\ table[e.id] = e.row
      BY <1>1, <2>1, EditType, EditFacts DEF CommitQuarantine, MigrationInv
    <3>2. /\ quarantine' = [quarantine EXCEPT ![e.id] = Append(quarantine[e.id], new)]
          /\ table' = [table EXCEPT ![e.id] = Absent]
      BY <2>1 DEF CommitQuarantine
    <3> HIDE DEF new
    <3>3. \A i \in DOMAIN quarantine[id] : Append(quarantine[id], new)[i] = quarantine[id][i]
      OBVIOUS
    <3>4. CASE id = e.id
      BY <3>1, <3>2, <3>3, <3>4 DEF MigrationTypeOK, new
    <3>5. CASE id # e.id
      BY <3>1, <3>2, <3>5 DEF MigrationTypeOK, StoreTypeOK, Present
    <3> QED
      BY <3>4, <3>5
  <2>2. ASSUME NEW j \in Ids, Restore(j) PROVE Kept(id)
    <3>1. table'[id] = Absent => table[id] = Absent
      <4>1. CurrentRow(j, truth[j]) # Absent
        BY <1>1, <2>2, RestoreFacts, CurrentIsGood, SweepStoreAssumption
      <4> QED
        BY <2>2, <4>1 DEF Restore, StoreTypeOK
    <3>2. \A i \in DOMAIN quarantine[id] : quarantine'[id][i].row = quarantine[id][i].row
      <4>1. CASE id = j
        BY <2>2, <4>1, RestoreType DEF Restore, MigrationTypeOK
      <4>2. CASE id # j
        BY <2>2, <4>2 DEF Restore, MigrationTypeOK
      <4> QED
        BY <4>1, <4>2
    <3> QED
      BY <3>1, <3>2 DEF Present
  <2>3. ASSUME quarantine' = quarantine, table'[id] = Absent => table[id] = Absent PROVE Kept(id)
    BY <2>3 DEF Present
  <2>4. CASE MigrationNext
    <3>1. ASSUME ~(\E o \in Operators : CommitQuarantine(o)), ~(\E j \in Ids : Restore(j))
          PROVE  quarantine' = quarantine
      BY <2>4, <3>1, Steps DEF Quiet, migrationVars, CommitRepair, Damage, PutValue
    <3>2. ASSUME ~(\E o \in Operators : CommitQuarantine(o)) PROVE id \in Present => id \in Present'
      BY <1>1, <2>4, <3>2, RowsStay
    <3> QED
      BY <2>1, <2>2, <2>3, <3>1, <3>2 DEF Present
  <2>5. CASE UNCHANGED allVars
    BY <2>3, <2>5 DEF allVars, sweepVars, storeVars, migrationVars
  <2> QED
    BY <1>1, <2>4, <2>5
<1>2. MigrationInv /\ MigrationInv' /\ [MigrationNext]_allVars =>
        [\A id \in Ids : Kept(id)]_allVars
  BY <1>1
<1> QED
  BY <1>2, MigrationInvariant, PTL DEF MigrationSpec, EvidenceIsExact
=============================================================================
