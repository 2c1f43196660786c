---------------------------- MODULE SweepProofs -----------------------------
(***************************************************************************)
(* Theorems about Sweep::run: for any set of rows, any number of workers   *)
(* and any interleaving with applications, crashes and lost checkpoints.   *)
(***************************************************************************)
EXTENDS Sweep, RowPlannerProofs, FiniteSetTheorems, WellFoundedInduction

-----------------------------------------------------------------------------
(* What writers and rewrites leave in the table.                           *)

LEMMA TallyType == ASSUME NEW state \in RowStates PROVE Tally(state) \in Fields
<1>1. CASE state = "Current"
  BY <1>1 DEF Tally, Fields
<1>2. CASE state = "Stale"
  BY <1>2 DEF Tally, Fields
<1>3. CASE state = "Legacy"
  BY <1>3 DEF Tally, Fields
<1> QED BY <1>1, <1>2, <1>3 DEF RowStates

LEMMA PlanStateType == \A p, row : PlanState(p, row) \in RowStates
BY DEF PlanState, RowStates

LEMMA DerivedColumn ==
    ASSUME NEW p \in PlannersOver(NumColumns), NEW c \in 1..NumColumns,
           NEW id \in Ids, NEW v \in Values, CanWrite(p, v),
           NEW row, row = WrittenRow(p, id, v)
    PROVE  /\ ColumnError(p, row, c) = Ok
           /\ ~ColumnStale(p, row, c)
           /\ row.indexes[c] \in Indexes
<1>1. p # LegacyWriter
  BY SweepStoreAssumption
<1>2. DOMAIN p.columns = 1..NumColumns
  BY DEF PlannersOver
<1>3. DeriveError(v, p.columns[c].keys) = Ok
  BY <1>1, <1>2 DEF CanWrite
<1>4. row.indexes[c] = Derive(v, p.columns[c].bits, p.columns[c].keys)
  BY <1>1, <1>2 DEF WrittenRow
<1> QED BY <1>3, <1>4, DerivedIsCurrent, SweepStoreAssumption

LEMMA WrittenRowType ==
    ASSUME StoreTypeOK, NEW id \in Ids, NEW v \in Values,
           NEW w \in PlannersOver(NumColumns) \cup {LegacyWriter}, CanWrite(w, v)
    PROVE  WrittenRow(w, id, v) \in Rows
<1> DEFINE row == WrittenRow(w, id, v)
<1>1. CASE w = LegacyWriter
  <2>1. MissingIndex \in Indexes
    BY MissingIndexType
  <2>2. [form |-> "foreign", payload |-> v] \in Ciphertexts
    BY DEF Ciphertexts, ForeignBytes
  <2> QED BY <1>1, <2>1, <2>2 DEF WrittenRow, Rows, RowsOver
<1>2. CASE w # LegacyWriter
  <2>1. w \in PlannersOver(NumColumns) /\ DOMAIN w.columns = 1..NumColumns
    BY <1>2 DEF PlannersOver
  <2>2. \A c \in 1..NumColumns : row.indexes[c] \in Indexes
    BY <2>1, DerivedColumn
  <2>3. v \in Payloads \ {Unpaddable} /\ id \in Int /\ nonces[id] \in Nat
    BY EnvelopeAssumption, SweepStoreAssumption DEF Payloads, StoreTypeOK
  <2>4. row.ciphertext \in Ciphertexts
    BY <1>2, <2>1, <2>3, SealType, SweepStoreAssumption DEF WrittenRow
  <2>5. row = [ciphertext |-> row.ciphertext, indexes |-> [c \in 1..NumColumns |-> row.indexes[c]]]
    BY <1>2, <2>1 DEF WrittenRow
  <2> QED BY <2>2, <2>4, <2>5 DEF Rows, RowsOver
<1> QED BY <1>1, <1>2

(* A writer on target leaves a Current row.                                *)
LEMMA TargetWriteIsCurrent ==
    ASSUME StoreTypeOK, NEW id \in Ids, NEW v \in Values, CanWrite(Planner, v)
    PROVE  Classify(Planner, id, WrittenRow(Planner, id, v)) = "Current"
<1> DEFINE row == WrittenRow(Planner, id, v)
<1>1. Planner \in PlannersOver(NumColumns) /\ Planner # LegacyWriter /\ NumColumns \in Nat
  BY SweepStoreAssumption
<1>2. v \in Payloads /\ id \in Int /\ nonces[id] \in Nat
  BY SweepStoreAssumption DEF Payloads, StoreTypeOK
<1>3. row.ciphertext =
        Seal(RowContext(Planner, id), Planner.padding, v, Planner.keys, nonces[id])
  BY <1>1 DEF WrittenRow
<1>4. /\ InspectCiphertext(row.ciphertext) = Ok
      /\ EnvelopeError(Planner, id, row) = Ok
      /\ ~EnvelopeStale(Planner, row)
  BY <1>1, <1>2, <1>3, SealIsCurrent DEF EnvelopeError, EnvelopeStale
<1>5. ArityMatches(Planner, row)
  BY <1>1 DEF ArityMatches, WrittenRow
<1>6. DOMAIN Planner.columns = 1..NumColumns
  BY <1>1 DEF PlannersOver
<1>7. BrokenColumns(Planner, row) \cup StaleColumns(Planner, row) = {}
  BY <1>1, <1>6, DerivedColumn DEF BrokenColumns, StaleColumns
<1> QED BY <1>4, <1>5, <1>7 DEF Classify, Ok

(* What a rewrite leaves: a row of the table, Current, and read as before. *)
LEMMA RewrittenRow ==
    ASSUME TypeOK, NEW w \in Workers, NEW id \in Ids, RewriteRow(w, id)
    PROVE  /\ batch[w][id] \in Rows
           /\ batch[w][id].ciphertext.form # "null"
           /\ table[id] = batch[w][id]
           /\ table' = [table EXCEPT ![id] = table'[id]]
           /\ table'[id] \in Rows
           /\ Classify(Planner, id, table'[id]) = "Current"
           /\ table'[id].ciphertext.form = "envelope"
           /\ Reading(Planner, id, table'[id]) = Reading(Planner, id, table[id])
<1>1. /\ batch[w][id] \in Rows /\ batch[w][id].ciphertext.form # "null"
      /\ table[id] = batch[w][id]
  BY DEF RewriteRow, Turn, Pending, GuardHolds, TypeOK, RunTypeOK, SweepRows
<1>2. table'[id] = Replacement(Planner, id, batch[w][id], nonces[id])
  BY DEF RewriteRow, TypeOK, StoreTypeOK
<1>3. table' = [table EXCEPT ![id] = table'[id]]
  BY <1>2 DEF RewriteRow
<1>4. /\ PlanError(Planner, id, batch[w][id]) = Ok
      /\ PlanState(Planner, batch[w][id]) # "Current"
      /\ nonces[id] \in Nat
  BY DEF RewriteRow, Planned, TypeOK, StoreTypeOK
<1>5. Planner \in PlannersOver(NumColumns) /\ NumColumns \in Nat /\ id \in Int
  BY SweepStoreAssumption
<1> QED BY <1>1, <1>2, <1>3, <1>4, <1>5, ReplacementType, ReplacementIsCurrent,
            ReplacementKeepsReading, ReplacementEnvelope DEF Rows

-----------------------------------------------------------------------------
(* Type correctness.                                                       *)

LEMMA EndRunType ==
    ASSUME TypeOK, NEW w \in Workers, NEW as \in {"idle", "done"}, EndRun(w, as)
    PROVE  /\ pc' \in [Workers -> {"idle", "load", "process", "done"}]
           /\ cursor' \in [Workers -> Ids \cup {NoCursor}]
           /\ batch' \in [Workers -> [Ids -> SweepRows \cup {Absent}]]
           /\ last' \in [Workers -> Ids \cup {NoCursor}]
<1>1. NoBatch \in [Ids -> SweepRows \cup {Absent}]
  BY DEF NoBatch
<1> QED BY <1>1 DEF EndRun, TypeOK, RunTypeOK

LEMMA CountType ==
    ASSUME TypeOK, NEW w \in Workers, NEW field \in Fields, Count(w, field)
    PROVE  report' \in [Workers -> [Fields -> Nat]]
BY DEF Count, TypeOK, RunTypeOK

(* Runs do not promote a deployment, nor take it back.                     *)
LEMMA RunsPromoteNothing == Run \/ FreshProgress => promoted' = promoted
<1>1. ASSUME NEW w \in Workers, Start(w) \/ LoadBatch(w) \/ LoadFails(w) \/ Finish(w) \/ Abort(w)
      PROVE  promoted' = promoted
  BY <1>1 DEF Start, LoadBatch, LoadFails, Finish, Abort, storeVars
<1>2. ASSUME NEW w \in Workers, NEW id \in Ids,
             RejectRow(w, id) \/ SkipRow(w, id) \/ RewriteRow(w, id) \/ LoseRow(w, id)
      PROVE  promoted' = promoted
  BY <1>2 DEF RejectRow, SkipRow, RewriteRow, LoseRow, storeVars
<1>3. ASSUME NEW w \in Workers, SaveCheckpoint(w) PROVE promoted' = promoted
  BY <1>3 DEF SaveCheckpoint, storeVars
<1>4. CASE FreshProgress
  BY <1>4 DEF FreshProgress, storeVars
<1> QED
  BY <1>1, <1>2, <1>3, <1>4 DEF Run, Proceed

LEMMA InitType == Init => TypeOK
BY SweepStoreAssumption, SweepAssumption
   DEF Init, StoreInit, RunInit, TypeOK, StoreTypeOK, RunTypeOK, NoBatch, EmptyReport, Authors

LEMMA ApplicationType ==
    ASSUME TypeOK, Application, UNCHANGED runVars
    PROVE  TypeOK'
<1>1. RunTypeOK'
  BY DEF TypeOK, RunTypeOK, runVars
<1>2. ASSUME NEW id \in Ids, NEW v \in Values, NEW w \in Writers, Put(id, v, w)
      PROVE  StoreTypeOK'
  <2>1. w \in PlannersOver(NumColumns) \cup {LegacyWriter}
    BY SweepStoreAssumption DEF Writers
  <2>2. WrittenRow(w, id, v) \in Rows
    BY <1>2, <2>1, WrittenRowType DEF TypeOK, Put
  <2>3. writes' \in 0..MaxWrites
    BY <1>2, SweepStoreAssumption DEF Put, TypeOK, StoreTypeOK
  <2> QED BY <1>2, <2>2, <2>3 DEF Put, TypeOK, StoreTypeOK, Authors
<1>3. ASSUME NEW id \in Ids, Delete(id) PROVE StoreTypeOK'
  BY <1>3, SweepStoreAssumption DEF Delete, TypeOK, StoreTypeOK
<1>4. ASSUME Promote PROVE StoreTypeOK'
  BY <1>4 DEF Promote, TypeOK, StoreTypeOK
<1> QED BY <1>1, <1>2, <1>3, <1>4 DEF Application, TypeOK

LEMMA RunType ==
    ASSUME TypeOK, NEW w \in Workers, Start(w) \/ Proceed(w) \/ Abort(w)
    PROVE  TypeOK'
<1>1. CASE Start(w)
  BY <1>1 DEF Start, TypeOK, StoreTypeOK, RunTypeOK, storeVars, EmptyReport
<1>2. CASE LoadBatch(w)
  <2>1. StoreTypeOK'
    BY <1>2 DEF LoadBatch, TypeOK, StoreTypeOK, storeVars
  <2>2. last' \in [Workers -> Ids \cup {NoCursor}]
    BY <1>2 DEF LoadBatch, TypeOK, RunTypeOK, Page, Remaining, Present
  <2>3. [id \in Ids |-> IF id \in Page(cursor[w]) THEN table[id] ELSE Absent]
            \in [Ids -> SweepRows \cup {Absent}]
    BY <1>2 DEF LoadBatch, Loadable, Page, Remaining, Present, SweepRows, TypeOK, StoreTypeOK
  <2> QED BY <1>2, <2>1, <2>2, <2>3 DEF LoadBatch, TypeOK, RunTypeOK
<1>3. CASE LoadFails(w)
  BY <1>3, EndRunType DEF LoadFails, TypeOK, StoreTypeOK, RunTypeOK, storeVars
<1>4. CASE Finish(w)
  BY <1>4, EndRunType DEF Finish, TypeOK, StoreTypeOK, RunTypeOK, storeVars
<1>5. CASE SaveCheckpoint(w)
  BY <1>5 DEF SaveCheckpoint, TypeOK, StoreTypeOK, RunTypeOK
<1>6. ASSUME NEW id \in Ids, RejectRow(w, id) PROVE TypeOK'
  BY <1>6, EndRunType DEF RejectRow, TypeOK, StoreTypeOK, RunTypeOK, storeVars
<1>7. ASSUME NEW id \in Ids, SkipRow(w, id) PROVE TypeOK'
  <2>1. report' \in [Workers -> [Fields -> Nat]]
    BY <1>7, CountType DEF SkipRow, Fields
  <2> QED BY <1>7, <2>1 DEF SkipRow, TypeOK, StoreTypeOK, RunTypeOK, storeVars
<1>8. ASSUME NEW id \in Ids, RewriteRow(w, id) PROVE TypeOK'
  <2>1. report' \in [Workers -> [Fields -> Nat]]
    BY <1>8, CountType, TallyType, PlanStateType DEF RewriteRow
  <2>2. table' \in [Ids -> Rows \cup {Absent}]
    BY <1>8, RewrittenRow DEF TypeOK, StoreTypeOK
  <2>3. StoreTypeOK'
    BY <1>8, <2>2 DEF RewriteRow, TypeOK, StoreTypeOK, Authors
  <2>4. RunTypeOK'
    BY <1>8, <2>1 DEF RewriteRow, TypeOK, RunTypeOK
  <2> QED BY <2>3, <2>4 DEF TypeOK
<1>9. ASSUME NEW id \in Ids, LoseRow(w, id) PROVE TypeOK'
  <2>1. report' \in [Workers -> [Fields -> Nat]]
    BY <1>9, CountType DEF LoseRow, Fields
  <2> QED BY <1>9, <2>1 DEF LoseRow, TypeOK, StoreTypeOK, RunTypeOK, storeVars
<1>10. CASE Abort(w)
  <2>1. aborts' \in 0..MaxAborts
    BY <1>10, SweepAssumption DEF Abort, TypeOK, RunTypeOK
  <2> QED BY <1>10, <2>1, EndRunType DEF Abort, TypeOK, StoreTypeOK, RunTypeOK, storeVars
<1> QED BY <1>1, <1>2, <1>3, <1>4, <1>5, <1>6, <1>7, <1>8, <1>9, <1>10 DEF Proceed

LEMMA NextType == TypeOK /\ [Next]_sweepVars => TypeOK'
<1> SUFFICES ASSUME TypeOK, [Next]_sweepVars PROVE TypeOK'
  OBVIOUS
<1>1. CASE Run
  BY <1>1, RunType DEF Run
<1>2. CASE FreshProgress
  BY <1>2 DEF FreshProgress, TypeOK, StoreTypeOK, RunTypeOK, runVars
<1>3. CASE Application /\ UNCHANGED runVars
  BY <1>3, ApplicationType
<1>4. CASE UNCHANGED sweepVars
  BY <1>4 DEF sweepVars, storeVars, runVars, TypeOK, StoreTypeOK, RunTypeOK
<1> QED BY <1>1, <1>2, <1>3, <1>4 DEF Next

(* Every variable keeps its type, the stored rows among them: nothing but  *)
(* the bytes of a row enters the table.                                    *)
THEOREM SweepTypeCorrect == Spec => []TypeOK
<1>1. Init => TypeOK
  BY InitType
<1>2. TypeOK /\ [Next]_sweepVars => TypeOK'
  BY NextType
<1> QED BY <1>1, <1>2, PTL DEF Spec

-----------------------------------------------------------------------------
(* The checkpoint is never ahead of the work.                              *)

(* A page has no gaps: it holds every remaining row up to any of its own.  *)
LEMMA PageHasNoGaps ==
    ASSUME TypeOK, NEW c \in Ids \cup {NoCursor}, NEW id \in Page(c),
           NEW j \in Remaining(c), j <= id
    PROVE  j \in Page(c)
<1> DEFINE upto(k) == {i \in Remaining(c) : i <= k}
<1>1. Remaining(c) \subseteq Ids /\ Ids \subseteq Int /\ IsFiniteSet(Ids)
  BY SweepStoreAssumption DEF Remaining, Present
<1>2. id \in Remaining(c)
  BY DEF Page
<1>3. IsFiniteSet(upto(id))
  <2>1. upto(id) \in SUBSET Ids
    BY <1>1
  <2> HIDE DEF upto
  <2> QED BY <1>1, <2>1, FS_Subset
<1>4. upto(j) \in SUBSET upto(id)
  <2> SUFFICES ASSUME NEW i \in Remaining(c), i <= j PROVE i <= id
    OBVIOUS
  <2>1. i \in Int /\ j \in Int /\ id \in Int
    BY <1>1, <1>2
  <2> QED BY <2>1
<1>5. IsFiniteSet(upto(j)) /\ Cardinality(upto(j)) <= Cardinality(upto(id))
  <2> HIDE DEF upto
  <2> QED BY <1>3, <1>4, FS_Subset
<1>6. Cardinality(upto(j)) \in Nat /\ Cardinality(upto(id)) \in Nat
  <2> HIDE DEF upto
  <2> QED BY <1>3, <1>5, FS_CardinalityType
<1>7. Cardinality(upto(id)) <= BatchSize
  BY DEF Page
<1>8. Cardinality(upto(j)) <= BatchSize
  BY <1>5, <1>6, <1>7, SweepStoreAssumption DEF BatchSize
<1> QED BY <1>8 DEF Page

(* An empty page is the end of the scan: with_batch_size admits no batch   *)
(* that leaves rows out and holds none, whatever size it is asked for.     *)
LEMMA EmptyPageIsTheEnd ==
    ASSUME NEW c, Page(c) = {}
    PROVE  Remaining(c) = {}
<1> DEFINE upto(k) == {i \in Remaining(c) : i <= k}
           sizes == {Cardinality(upto(k)) : k \in Remaining(c)}
<1> SUFFICES ASSUME Remaining(c) # {} PROVE FALSE
  OBVIOUS
<1>1. Remaining(c) \in SUBSET Ids /\ Ids \subseteq Int /\ IsFiniteSet(Ids)
  BY SweepStoreAssumption DEF Remaining, Present
<1>2. ASSUME NEW k \in Remaining(c)
      PROVE  IsFiniteSet(upto(k)) /\ Cardinality(upto(k)) \in Nat
  <2>1. upto(k) \in SUBSET Ids
    BY <1>1
  <2> HIDE DEF upto
  <2> QED BY <1>1, <2>1, FS_Subset, FS_CardinalityType
<1>3. sizes \in SUBSET Nat /\ sizes # {}
  <2> HIDE DEF upto
  <2> QED BY <1>2
<1>4. PICK n \in sizes : \A m \in sizes : n <= m
  <2> HIDE DEF sizes
  <2>1. PICK n \in sizes : \A m \in sizes : <<m, n>> \notin OpToRel(<, Nat)
    BY <1>3, NatLessThanWellFounded, WFMin
  <2>2. ASSUME NEW m \in sizes PROVE n <= m
    <3>1. m \in Nat /\ n \in Nat
      BY <1>3, <2>1
    <3>2. ~(m < n)
      BY <2>1, <3>1 DEF OpToRel
    <3> QED BY <3>1, <3>2
  <2> QED BY <2>1, <2>2
<1>5. PICK k \in Remaining(c) : n = Cardinality(upto(k))
  OBVIOUS
<1>6. k \in upto(k)
  <2>1. k \in Int
    BY <1>1
  <2> QED BY <2>1
<1>7. ASSUME NEW j \in upto(k) PROVE j = k
  <2>1. j \in Remaining(c) /\ j \in Int /\ k \in Int /\ j <= k
    BY <1>1
  <2>2. upto(j) \in SUBSET upto(k)
    <3> SUFFICES ASSUME NEW i \in Remaining(c), i <= j PROVE i <= k
      OBVIOUS
    <3> QED BY <1>1, <2>1
  <2>3. Cardinality(upto(j)) \in sizes
    BY <2>1
  <2>4. Cardinality(upto(k)) <= Cardinality(upto(j))
    BY <1>4, <1>5, <2>3
  <2>5. upto(j) = upto(k)
    <3> HIDE DEF upto
    <3>1. Cardinality(upto(j)) <= Cardinality(upto(k))
      BY <1>2, <2>2, FS_Subset
    <3>2. Cardinality(upto(j)) \in Nat /\ Cardinality(upto(k)) \in Nat
      BY <1>2, <2>1
    <3>3. Cardinality(upto(j)) = Cardinality(upto(k))
      BY <2>4, <3>1, <3>2
    <3> QED BY <1>2, <2>2, <3>3, FS_Subset
  <2>6. k \in upto(j)
    <3> HIDE DEF upto
    <3> QED BY <1>6, <2>5
  <2> QED BY <2>1, <2>6
<1>8. upto(k) = {k}
  <2> HIDE DEF upto
  <2> QED BY <1>6, <1>7
<1>9. Cardinality(upto(k)) = 1
  <2> HIDE DEF upto
  <2> QED BY <1>8, FS_Singleton
<1>10. 1 <= BatchSize
  BY SweepStoreAssumption DEF BatchSize
<1> QED BY <1>9, <1>10 DEF Page

(* A step leaves a row alone, or leaves it settled.                        *)
LEMMA StepsSettle ==
    ASSUME TypeOK, Next, NEW i \in Ids
    PROVE  (table'[i] = table[i] /\ author'[i] = author[i]) \/ Settled(i)'
<1>1. CASE UNCHANGED <<table, author>>
  BY <1>1
<1>2. ASSUME NEW w \in Workers, NEW id \in Ids, RewriteRow(w, id)
      PROVE  (table'[i] = table[i] /\ author'[i] = author[i]) \/ Settled(i)'
  <2>1. CASE i = id
    <3>1. Classify(Planner, i, table'[i]) = "Current"
      BY <1>2, <2>1, RewrittenRow
    <3> QED BY <3>1 DEF Settled
  <2>2. CASE i # id
    BY <1>2, <2>2 DEF RewriteRow, TypeOK, StoreTypeOK
  <2> QED BY <2>1, <2>2
<1>3. ASSUME NEW id \in Ids, NEW v \in Values, NEW w \in Writers, Put(id, v, w)
      PROVE  (table'[i] = table[i] /\ author'[i] = author[i]) \/ Settled(i)'
  <2>1. CASE i = id /\ w = Planner
    <3>1. table'[i] = WrittenRow(Planner, i, v)
      BY <1>3, <2>1 DEF Put, TypeOK, StoreTypeOK
    <3>2. Classify(Planner, i, table'[i]) = "Current"
      BY <1>3, <2>1, <3>1, TargetWriteIsCurrent DEF Put, TypeOK
    <3> QED BY <3>2 DEF Settled
  <2>2. CASE i = id /\ w # Planner
    BY <1>3, <2>2 DEF Put, TypeOK, StoreTypeOK, Settled
  <2>3. CASE i # id
    BY <1>3, <2>3 DEF Put, TypeOK, StoreTypeOK
  <2> QED BY <2>1, <2>2, <2>3
<1>4. ASSUME NEW id \in Ids, Delete(id)
      PROVE  (table'[i] = table[i] /\ author'[i] = author[i]) \/ Settled(i)'
  BY <1>4 DEF Delete, TypeOK, StoreTypeOK, Settled
<1>5. ASSUME NEW w \in Workers, Start(w) \/ Proceed(w) \/ Abort(w),
             \A id \in Ids : ~RewriteRow(w, id)
      PROVE  UNCHANGED <<table, author>>
  BY <1>5 DEF Start, Proceed, LoadBatch, LoadFails, Finish, SaveCheckpoint, RejectRow,
              SkipRow, LoseRow, Abort, storeVars
<1>6. ASSUME FreshProgress \/ Promote
      PROVE  UNCHANGED <<table, author>>
  BY <1>6 DEF FreshProgress, Promote
<1> QED BY <1>1, <1>2, <1>3, <1>4, <1>5, <1>6 DEF Next, Run, Application

(* So settled rows stay settled, and coverage only depends on the cursors. *)
LEMMA SettledIsStable ==
    ASSUME TypeOK, Next, NEW i \in Ids, Settled(i)
    PROVE  Settled(i)'
<1>1. CASE table'[i] = table[i] /\ author'[i] = author[i]
  BY <1>1 DEF Settled
<1> QED BY <1>1, StepsSettle

LEMMA CoveredIsStable ==
    ASSUME TypeOK, Next, NEW c, Covered(c)
    PROVE  c # NoCursor => \A i \in Ids : i <= c => Settled(i)'
BY SettledIsStable DEF Covered

LEMMA EndRunCovers ==
    ASSUME TypeOK, NEW w \in Workers, NEW as \in {"idle", "done"}, EndRun(w, as)
    PROVE  /\ pc'[w] # "process" /\ cursor'[w] = NoCursor
           /\ \A o \in Workers \ {w} :
                pc'[o] = pc[o] /\ cursor'[o] = cursor[o] /\ last'[o] = last[o]
                    /\ batch'[o] = batch[o]
BY DEF EndRun, TypeOK, RunTypeOK

(* A worker that does not load keeps its batch, but for the rows that      *)
(* become settled.                                                         *)
LEMMA KeptBatchCovers ==
    ASSUME TypeOK, Next, NEW w \in Workers, BatchCovers(w),
           pc'[w] = "process" => pc[w] = "process" /\ last'[w] = last[w],
           \A id \in Ids : batch'[w][id] # batch[w][id] =>
              batch[w][id] # Absent /\ (table[id] = batch[w][id] => Settled(id)')
    PROVE  BatchCovers(w)'
<1> SUFFICES ASSUME pc'[w] = "process", NEW id \in Ids, id <= last[w], ~Settled(id)'
             PROVE  /\ last[w] # NoCursor
                    /\ batch'[w][id] # Absent /\ table'[id] = batch'[w][id]
  <2>1. pc'[w] = "process" => last[w] # NoCursor
    BY DEF BatchCovers
  <2> QED BY <2>1 DEF BatchCovers
<1>1. last[w] # NoCursor
  BY DEF BatchCovers
<1>2. ~Settled(id) /\ table'[id] = table[id]
  BY StepsSettle, SettledIsStable
<1>3. batch[w][id] # Absent /\ table[id] = batch[w][id]
  BY <1>2 DEF BatchCovers
<1>4. batch'[w][id] = batch[w][id]
  BY <1>3
<1> QED BY <1>1, <1>2, <1>3, <1>4

(* A freshly loaded batch holds every row up to its last that the cursor   *)
(* has not passed.                                                         *)
LEMMA LoadedBatchCovers ==
    ASSUME TypeOK, CursorsCover, NEW w \in Workers, LoadBatch(w)
    PROVE  BatchCovers(w)'
<1>1. PICK id \in Page(cursor[w]) :
        last' = [last EXCEPT ![w] = id]
  BY DEF LoadBatch
<1>2. last'[w] = id /\ id \in Ids
  BY <1>1 DEF Page, Remaining, Present, TypeOK, RunTypeOK
<1>3. cursor[w] \in Ids \cup {NoCursor} /\ cursor' = cursor
  BY DEF TypeOK, RunTypeOK, LoadBatch
<1>4. UNCHANGED <<table, author>>
  BY DEF LoadBatch, storeVars
<1>5. ASSUME NEW j \in Ids, j <= last'[w], ~Settled(j)'
      PROVE  batch'[w][j] # Absent /\ table'[j] = batch'[w][j]
  <2>1. ~Settled(j)
    BY <1>4, <1>5 DEF Settled
  <2>2. cursor[w] # NoCursor => ~(j <= cursor[w])
    BY <2>1 DEF CursorsCover, Covered
  <2>3. cursor[w] # NoCursor => j > cursor[w]
    <3>1. cursor[w] # NoCursor => cursor[w] \in Int /\ j \in Int
      BY <1>3, SweepStoreAssumption
    <3> QED BY <2>2, <3>1
  <2>4. j \in Remaining(cursor[w])
    BY <2>1, <2>3 DEF Remaining, Present, Settled
  <2>5. j \in Page(cursor[w])
    BY <1>2, <1>3, <1>5, <2>4, PageHasNoGaps
  <2>6. batch'[w][j] = table[j]
    BY <2>5 DEF LoadBatch, TypeOK, RunTypeOK
  <2>7. table[j] # Absent
    BY <2>1 DEF Settled
  <2> QED BY <1>4, <2>6, <2>7
<1>6. last'[w] # NoCursor
  BY <1>2, SweepStoreAssumption
<1> QED BY <1>5, <1>6 DEF BatchCovers

(* Nothing but a worker's own steps touches its cursor and its batch.      *)
LEMMA OtherWorkers ==
    ASSUME TypeOK, NEW w \in Workers, Start(w) \/ Proceed(w) \/ Abort(w),
           NEW o \in Workers, o # w
    PROVE  pc'[o] = pc[o] /\ cursor'[o] = cursor[o] /\ last'[o] = last[o]
              /\ batch'[o] = batch[o]
<1>1. CASE LoadFails(w) \/ Finish(w) \/ Abort(w) \/ \E id \in Ids : RejectRow(w, id)
  <2>1. EndRun(w, "idle") \/ EndRun(w, "done")
    BY <1>1 DEF LoadFails, Finish, Abort, RejectRow
  <2> QED BY <2>1, EndRunCovers
<1>2. CASE Start(w) \/ LoadBatch(w) \/ SaveCheckpoint(w)
  BY <1>2 DEF Start, LoadBatch, SaveCheckpoint, TypeOK, RunTypeOK
<1>3. CASE \E id \in Ids : SkipRow(w, id) \/ RewriteRow(w, id) \/ LoseRow(w, id)
  BY <1>3 DEF SkipRow, RewriteRow, LoseRow, TypeOK, RunTypeOK
<1> QED BY <1>1, <1>2, <1>3 DEF Proceed

(* Where the cursors may go: to where they were, back to the start, to the *)
(* checkpoint, or past a batch of which nothing is pending.                *)
LEMMA CursorMoves ==
    ASSUME TypeOK, NEW w \in Workers, Start(w) \/ Proceed(w) \/ Abort(w)
    PROVE  /\ \/ checkpoint' = checkpoint
              \/ pc[w] = "process" /\ Pending(w) = {} /\ checkpoint' = last[w]
           /\ \/ cursor'[w] \in {NoCursor, cursor[w], checkpoint}
              \/ pc[w] = "process" /\ Pending(w) = {} /\ cursor'[w] = last[w]
<1>1. CASE LoadFails(w) \/ Finish(w) \/ Abort(w) \/ \E id \in Ids : RejectRow(w, id)
  <2>1. (EndRun(w, "idle") \/ EndRun(w, "done")) /\ checkpoint' = checkpoint
    BY <1>1 DEF LoadFails, Finish, Abort, RejectRow, storeVars
  <2> QED BY <2>1, EndRunCovers
<1>2. CASE Start(w) \/ LoadBatch(w) \/ SaveCheckpoint(w)
  BY <1>2 DEF Start, LoadBatch, SaveCheckpoint, TypeOK, RunTypeOK, storeVars
<1>3. CASE \E id \in Ids : SkipRow(w, id) \/ RewriteRow(w, id) \/ LoseRow(w, id)
  BY <1>3 DEF SkipRow, RewriteRow, LoseRow, storeVars
<1> QED BY <1>1, <1>2, <1>3 DEF Proceed

(* A row is dropped from a batch only when it is settled, or has changed.  *)
LEMMA ProcessedRowCovers ==
    ASSUME TypeOK, Next, NEW w \in Workers, BatchCovers(w), NEW id \in Ids,
           SkipRow(w, id) \/ RewriteRow(w, id) \/ LoseRow(w, id)
    PROVE  BatchCovers(w)'
<1>1. /\ pc[w] = "process" /\ UNCHANGED <<pc, last>>
      /\ batch' = [batch EXCEPT ![w][id] = Absent]
      /\ batch[w][id] # Absent
  BY DEF SkipRow, RewriteRow, LoseRow, Turn, Pending
<1>2. \A i \in Ids : batch'[w][i] # batch[w][i] => i = id
  BY <1>1 DEF TypeOK, RunTypeOK
<1>3. table[id] = batch[w][id] => Settled(id)'
  <2>1. CASE SkipRow(w, id)
    <3>1. batch[w][id] \in Rows
      BY <1>1 DEF TypeOK, RunTypeOK, SweepRows
    <3>2. Classify(Planner, id, batch[w][id]) = "Current"
      BY <2>1, <3>1, ClassifyAgrees, SweepStoreAssumption DEF SkipRow, Planned, Rows
    <3> QED BY <2>1, <3>2 DEF SkipRow, storeVars, Settled
  <2>2. CASE RewriteRow(w, id)
    BY <2>2, RewrittenRow DEF Settled
  <2>3. CASE LoseRow(w, id)
    BY <2>3 DEF LoseRow, GuardHolds
  <2> QED BY <2>1, <2>2, <2>3
<1> QED BY <1>1, <1>2, <1>3, KeptBatchCovers

LEMMA CoverageStep == TypeOK /\ Coverage /\ [Next]_sweepVars => Coverage'
<1> SUFFICES ASSUME TypeOK, Coverage, [Next]_sweepVars PROVE Coverage'
  OBVIOUS
<1>1. CASE UNCHANGED sweepVars
  BY <1>1 DEF sweepVars, storeVars, runVars, Coverage, CheckpointCovers, CursorsCover,
              BatchesCover, BatchCovers, Covered, Settled
<1>2. ASSUME Next, UNCHANGED runVars, checkpoint' \in {checkpoint, NoCursor}
      PROVE  Coverage'
  <2>1. CheckpointCovers'
    BY <1>2, CoveredIsStable DEF Coverage, CheckpointCovers, Covered
  <2>2. CursorsCover'
    BY <1>2, CoveredIsStable DEF Coverage, CursorsCover, Covered, runVars
  <2>3. ASSUME NEW w \in Workers PROVE BatchCovers(w)'
    BY <1>2, KeptBatchCovers DEF Coverage, BatchesCover, runVars
  <2> QED BY <2>1, <2>2, <2>3 DEF Coverage, BatchesCover
<1>3. ASSUME Next, NEW w \in Workers, Start(w) \/ Proceed(w) \/ Abort(w)
      PROVE  Coverage'
  <2>1. ASSUME pc[w] = "process", Pending(w) = {}
        PROVE  \A i \in Ids : i <= last[w] => Settled(i)'
    <3>1. \A i \in Ids : i <= last[w] => Settled(i)
      BY <2>1 DEF Coverage, BatchesCover, BatchCovers, Pending
    <3> QED BY <1>3, <3>1, SettledIsStable
  <2>2. CheckpointCovers'
    BY <1>3, <2>1, CursorMoves, CoveredIsStable DEF Coverage, CheckpointCovers, Covered
  <2>3. ASSUME NEW o \in Workers PROVE Covered(cursor[o])'
    <3>1. CASE o = w
      BY <1>3, <2>1, <3>1, CursorMoves, CoveredIsStable
      DEF Coverage, CheckpointCovers, CursorsCover, Covered
    <3>2. CASE o # w
      BY <1>3, <3>2, OtherWorkers, CoveredIsStable DEF Coverage, CursorsCover, Covered
    <3> QED BY <3>1, <3>2
  <2>4. ASSUME NEW o \in Workers PROVE BatchCovers(o)'
    <3>1. BatchCovers(o) /\ CursorsCover
      BY DEF Coverage, BatchesCover
    <3>2. CASE o # w
      BY <1>3, <3>1, <3>2, OtherWorkers, KeptBatchCovers
    <3>3. CASE o = w /\ LoadBatch(w)
      BY <3>1, <3>3, LoadedBatchCovers
    <3>4. CASE o = w /\ \E id \in Ids : SkipRow(w, id) \/ RewriteRow(w, id) \/ LoseRow(w, id)
      BY <1>3, <3>1, <3>4, ProcessedRowCovers
    <3>5. CASE o = w /\ (Start(w) \/ SaveCheckpoint(w))
      <4>1. pc'[w] # "process"
        BY <3>5 DEF Start, SaveCheckpoint, TypeOK, RunTypeOK
      <4> QED BY <3>5, <4>1 DEF BatchCovers
    <3>6. CASE o = w /\ (LoadFails(w) \/ Finish(w) \/ Abort(w) \/ \E id \in Ids : RejectRow(w, id))
      <4>1. EndRun(w, "idle") \/ EndRun(w, "done")
        BY <3>6 DEF LoadFails, Finish, Abort, RejectRow
      <4> QED BY <3>6, <4>1, EndRunCovers DEF BatchCovers
    <3> QED BY <1>3, <3>2, <3>3, <3>4, <3>5, <3>6 DEF Proceed
  <2> QED BY <2>2, <2>3, <2>4 DEF Coverage, CursorsCover, BatchesCover
<1>4. CASE Application /\ UNCHANGED runVars
  <2>1. checkpoint' = checkpoint
    BY <1>4 DEF Application, Put, Delete, Promote
  <2> QED BY <1>2, <1>4, <2>1 DEF Next
<1>5. CASE FreshProgress
  BY <1>2, <1>5 DEF FreshProgress, Next
<1> QED BY <1>1, <1>3, <1>4, <1>5 DEF Next, Run

LEMMA CoverageInit == Init => Coverage
BY DEF Init, StoreInit, RunInit, Coverage, CheckpointCovers, CursorsCover, BatchesCover,
       BatchCovers, Covered

(* In-memory cursors and batches keep up with the checkpoint: whatever     *)
(* crashes, races or fails, no run passes a row it did not settle.         *)
THEOREM SweepIsCovered == Spec => []Coverage
<1>1. Init => TypeOK /\ Coverage
  BY InitType, CoverageInit
<1>2. TypeOK /\ Coverage /\ [Next]_sweepVars => (TypeOK /\ Coverage)'
  BY NextType, CoverageStep
<1> QED BY <1>1, <1>2, PTL DEF Spec

(* Whatever crashes, races or fails, every row at or behind the durable    *)
(* checkpoint is gone, current, or was last written by an earlier          *)
(* deployment; the strengthening (CursorsCover, BatchesCover) says why.    *)
THEOREM CheckpointIsCovered == Spec => []CheckpointCovers
<1>1. Coverage => CheckpointCovers
  BY DEF Coverage
<1> QED BY <1>1, SweepIsCovered, PTL

-----------------------------------------------------------------------------
(* Only applications change what is read.                                  *)

AppReadings == Values \cup {Absent} \cup ReadFailures

LEMMA ReadErrorType ==
    ASSUME NEW id, NEW row
    PROVE  ReadError(Planner, id, row) \in ReadFailures \cup {Ok}
BY DEF ReadError, Open, Check, InspectCiphertext, Recover, Decode, ReadFailures, Ok

LEMMA ReadingType ==
    ASSUME NEW id, NEW row
    PROVE  RowReading(id, row) \in AppReadings
<1>1. ASSUME ReadError(Planner, id, row) = Ok
      PROVE  row.ciphertext.payload \in Values
  BY <1>1 DEF ReadError, Decode, Recover, Ok
<1> QED BY <1>1, ReadErrorType DEF RowReading, Reading, AppReadings, ReadFailures

(* One row changes, and the reading of no other.                           *)
LEMMA OneReading ==
    ASSUME TypeOK, NEW id \in Ids, NEW row, table' = [table EXCEPT ![id] = row]
    PROVE  [i \in Ids |-> ReadingOf(i)]' = [[i \in Ids |-> ReadingOf(i)] EXCEPT ![id] = ReadingOf(id)']
<1>1. \A i \in Ids : i # id => ReadingOf(i)' = ReadingOf(i)
  BY DEF ReadingOf, TypeOK, StoreTypeOK
<1> QED BY <1>1

LEMMA RewriteKeepsReadings ==
    ASSUME TypeOK, NEW w \in Workers, NEW id \in Ids, RewriteRow(w, id)
    PROVE  \A i \in Ids : ReadingOf(i)' = ReadingOf(i)
<1>1. ReadingOf(id)' = ReadingOf(id)
  BY RewrittenRow, SweepStoreAssumption DEF ReadingOf, RowReading
<1>2. \A i \in Ids : i # id => table'[i] = table[i]
  BY DEF RewriteRow, TypeOK, StoreTypeOK
<1> QED BY <1>1, <1>2 DEF ReadingOf

LEMMA RefinementStep ==
    ASSUME TypeOK, TypeOK', [Next]_sweepVars
    PROVE  [AppStore!Next]_(AppStore!StoreVars)
<1> DEFINE readings == [i \in Ids |-> ReadingOf(i)]
<1>1. ASSUME \A i \in Ids : ReadingOf(i)' = ReadingOf(i), writes' = writes
      PROVE  UNCHANGED AppStore!StoreVars
  BY <1>1 DEF AppStore!StoreVars
<1>2. ASSUME NEW id \in Ids, NEW row, table' = [table EXCEPT ![id] = row], writes' = writes + 1
      PROVE  AppStore!Next
  <2> DEFINE r == ReadingOf(id)'
  <2>1. readings' = [readings EXCEPT ![id] = r]
    BY <1>2, OneReading
  <2>2. r \in AppReadings
    BY ReadingType DEF ReadingOf
  <2> HIDE DEF r
  <2> QED BY <1>2, <2>1, <2>2 DEF AppStore!Next, AppStore!Write, AppReadings
<1>3. ASSUME NEW id \in Ids, NEW v \in Values, NEW w \in Writers, Put(id, v, w)
      PROVE  AppStore!Next
  BY <1>2, <1>3 DEF Put
<1>4. ASSUME NEW id \in Ids, Delete(id) PROVE AppStore!Next
  BY <1>2, <1>4 DEF Delete
<1>5. ASSUME NEW w \in Workers, NEW id \in Ids, RewriteRow(w, id)
      PROVE  UNCHANGED AppStore!StoreVars
  BY <1>1, <1>5, RewriteKeepsReadings DEF RewriteRow
<1>6. ASSUME UNCHANGED <<table, writes>> PROVE UNCHANGED AppStore!StoreVars
  BY <1>1, <1>6 DEF ReadingOf
<1>7. ASSUME NEW w \in Workers, Start(w) \/ Proceed(w) \/ Abort(w),
             \A id \in Ids : ~RewriteRow(w, id)
      PROVE  UNCHANGED <<table, writes>>
  BY <1>7 DEF Start, Proceed, LoadBatch, LoadFails, Finish, SaveCheckpoint, RejectRow,
              SkipRow, LoseRow, Abort, storeVars
<1>8. ASSUME FreshProgress \/ Promote \/ UNCHANGED sweepVars
      PROVE  UNCHANGED <<table, writes>>
  BY <1>8 DEF FreshProgress, Promote, sweepVars, storeVars
<1> QED BY <1>3, <1>4, <1>5, <1>6, <1>7, <1>8 DEF Next, Run, Application

LEMMA RefinementInit == Init => AppStore!Init
BY ReadingType DEF Init, StoreInit, AppStore!Init, AppReadings, ReadingOf

(* The sweep implements the abstract store: at any interleaving, a value   *)
(* (or a read error) changes only by an application's own write or delete. *)
(* No rewrite loses a concurrent write, and none changes what is read.     *)
THEOREM SweepKeepsValues == Spec => AppSpec
<1>1. Init => AppStore!Init
  BY RefinementInit
<1>2. TypeOK /\ TypeOK' /\ [Next]_sweepVars => [AppStore!Next]_(AppStore!StoreVars)
  BY RefinementStep
<1>3. Spec => []TypeOK
  BY SweepTypeCorrect
<1> QED BY <1>1, <1>2, <1>3, PTL DEF Spec, AppSpec, AppStore!Spec

-----------------------------------------------------------------------------
(* Indexes agree with the values they are stored beside.                   *)

RowConsistent(id, row) ==
    row.ciphertext.form = "envelope" /\ ReadError(Planner, id, row) = Ok =>
        \A c \in DOMAIN Planner.columns :
            ConsistentWith(row.ciphertext.payload, row.indexes[c],
                           Planner.columns[c].bits, Planner.columns[c].keys)

(* What the rotation starts from: consistent tables, and deployments that  *)
(* derive as many bits, under keys that are still read.                    *)
StartsConsistent ==
    /\ \A t \in InitialTables, id \in Ids : t[id] # Absent => RowConsistent(id, t[id])
    /\ \A w \in EarlierWriters \ {LegacyWriter}, c \in 1..NumColumns :
        /\ w.columns[c].bits = Planner.columns[c].bits
        /\ w.columns[c].keys # NotConfigured =>
                w.columns[c].keys.current \in Planner.columns[c].keys.keys

LEMMA DerivedIsConsistent ==
    ASSUME NEW v, NEW bits \in 1..MaxIndexBits, NEW keyring, NEW k \in keyring.keys
    PROVE  ConsistentWith(v, IndexOf(v, bits, k), bits, keyring)
BY DEF ConsistentWith, IndexOf, InspectBlindIndex, IndexFormatVersion, Ok

(* A writer that derives as many bits under a key still read leaves what   *)
(* recomputing confirms.                                                   *)
LEMMA WrittenColumn ==
    ASSUME StoreTypeOK, NEW id \in Ids, NEW v \in Values, NEW c \in 1..NumColumns,
           NEW w \in PlannersOver(NumColumns), CanWrite(w, v),
           w.columns[c].bits = Planner.columns[c].bits,
           w.columns[c].keys # NotConfigured =>
               w.columns[c].keys.current \in Planner.columns[c].keys.keys,
           NEW row, row = WrittenRow(w, id, v)
    PROVE  /\ row.ciphertext.payload = v
           /\ ConsistentWith(v, row.indexes[c],
                             Planner.columns[c].bits, Planner.columns[c].keys)
<1>1. w # LegacyWriter /\ DOMAIN w.columns = 1..NumColumns
  BY SweepStoreAssumption DEF PlannersOver
<1>2. w.columns[c].keys # NotConfigured
  BY <1>1 DEF CanWrite, DeriveError, Ok
<1>3. w.columns[c].bits \in 1..MaxIndexBits
  BY DEF PlannersOver
<1>4. /\ row.ciphertext.payload = v
      /\ row.indexes[c] = IndexOf(v, Planner.columns[c].bits, w.columns[c].keys.current)
  BY <1>1 DEF WrittenRow, Seal, Derive
<1> QED BY <1>2, <1>3, <1>4, DerivedIsConsistent

(* A rewrite derives a column afresh or keeps it, with the value.          *)
LEMMA RewrittenColumn ==
    ASSUME NEW id \in Ids, NEW row \in Rows, NEW nonce \in Nat, NEW c \in 1..NumColumns,
           PlanError(Planner, id, row) = Ok, PlanState(Planner, row) # "Current",
           NEW r, r = Replacement(Planner, id, row, nonce), ReadError(Planner, id, r) = Ok
    PROVE  /\ r.ciphertext.payload = row.ciphertext.payload
           /\ \/ ConsistentWith(r.ciphertext.payload, r.indexes[c],
                                Planner.columns[c].bits, Planner.columns[c].keys)
              \/ /\ row.ciphertext.form = "envelope" /\ ReadError(Planner, id, row) = Ok
                 /\ r.indexes[c] = row.indexes[c]
<1> DEFINE p == Planner
<1>1. /\ p \in PlannersOver(NumColumns) /\ NumColumns \in Nat /\ id \in Int
      /\ row \in RowsOver(NumColumns) /\ DOMAIN p.columns = 1..NumColumns
  BY SweepStoreAssumption DEF Rows, PlannersOver
<1>2. r.ciphertext.payload = row.ciphertext.payload
  BY <1>1, ReplacementEnvelope
<1>3. CASE c \in RederivedColumns(p, row)
  <2>1. ColumnError(p, r, c) = Ok
    BY <1>1, RederivedIsCurrent
  <2>2. p.columns[c].keys \in IndexKeyrings /\ p.columns[c].bits \in 1..MaxIndexBits
    BY <1>1, <2>1 DEF ColumnError, PlannersOver, Ok
  <2>3. r.indexes[c] = IndexOf(row.ciphertext.payload, p.columns[c].bits, p.columns[c].keys.current)
    BY <1>1, <1>3 DEF Replacement, Derive
  <2>4. p.columns[c].keys.current \in p.columns[c].keys.keys
    BY <2>2 DEF IndexKeyrings
  <2> QED BY <1>2, <2>2, <2>3, <2>4, DerivedIsConsistent
<1>4. CASE c \notin RederivedColumns(p, row)
  <2>1. row.ciphertext.form = "envelope" /\ r.indexes[c] = row.indexes[c]
    BY <1>1, <1>4 DEF Replacement, RederivedColumns
  <2>2. /\ InspectCiphertext(row.ciphertext) = Ok
        /\ Open(RowContext(p, id), row.ciphertext, p.keys) = Ok
    BY <1>1, <2>1, EnvelopePlanOk
  <2>3. Decode(row.ciphertext.payload) = Ok
    BY <1>2 DEF ReadError, Ok
  <2>4. ReadError(p, id, row) = Ok
    BY <2>2, <2>3 DEF ReadError, Ok
  <2> QED BY <1>2, <2>1, <2>4
<1> QED BY <1>3, <1>4

(* What a step may make of a row: it stays, is rewritten or is written.    *)
LEMMA RowsChange ==
    ASSUME TypeOK, [Next]_sweepVars, NEW i \in Present'
    PROVE  \/ i \in Present /\ table'[i] = table[i]
           \/ /\ i \in Present /\ table[i] \in Rows /\ nonces[i] \in Nat
              /\ PlanError(Planner, i, table[i]) = Ok
              /\ PlanState(Planner, table[i]) # "Current"
              /\ table'[i] = Replacement(Planner, i, table[i], nonces[i])
           \/ \E v \in Values, w \in EarlierWriters \cup {Planner} :
                CanWrite(w, v) /\ table'[i] = WrittenRow(w, i, v)
<1> i \in Ids /\ table'[i] # Absent /\ StoreTypeOK
  BY DEF Present, TypeOK
<1>1. CASE table'[i] = table[i]
  BY <1>1 DEF Present
<1>2. ASSUME NEW w \in Workers, NEW id \in Ids, RewriteRow(w, id), i = id
      PROVE  /\ i \in Present /\ table[i] \in Rows /\ nonces[i] \in Nat
             /\ PlanError(Planner, i, table[i]) = Ok
             /\ PlanState(Planner, table[i]) # "Current"
             /\ table'[i] = Replacement(Planner, i, table[i], nonces[i])
  <2>1. table[id] = batch[w][id] /\ batch[w][id] \in Rows /\ id \in Present
    BY <1>2, RewrittenRow, SweepStoreAssumption DEF Present
  <2>2. /\ PlanError(Planner, id, batch[w][id]) = Ok /\ nonces[id] \in Nat
        /\ PlanState(Planner, batch[w][id]) # "Current"
        /\ table'[id] = Replacement(Planner, id, batch[w][id], nonces[id])
    BY <1>2 DEF RewriteRow, Planned, StoreTypeOK
  <2> QED BY <1>2, <2>1, <2>2
<1>3. ASSUME NEW w \in Workers, NEW id \in Ids, RewriteRow(w, id), i # id
      PROVE  table'[i] = table[i]
  BY <1>3 DEF RewriteRow, StoreTypeOK
<1>4. ASSUME NEW id \in Ids, NEW v \in Values, NEW w \in Writers, Put(id, v, w)
      PROVE  \/ table'[i] = table[i]
             \/ w \in EarlierWriters \cup {Planner} /\ CanWrite(w, v)
                /\ table'[i] = WrittenRow(w, i, v)
  BY <1>4 DEF Put, Writers, StoreTypeOK
<1>5. ASSUME NEW id \in Ids, Delete(id) PROVE table'[i] = table[i]
  BY <1>5 DEF Delete, StoreTypeOK
<1>6. ASSUME NEW w \in Workers, Start(w) \/ Proceed(w) \/ Abort(w),
             \A id \in Ids : ~RewriteRow(w, id)
      PROVE  UNCHANGED table
  BY <1>6 DEF Start, Proceed, LoadBatch, LoadFails, Finish, SaveCheckpoint, RejectRow,
              SkipRow, LoseRow, Abort, storeVars
<1>7. ASSUME FreshProgress \/ Promote \/ UNCHANGED sweepVars
      PROVE  UNCHANGED table
  BY <1>7 DEF FreshProgress, Promote, sweepVars, storeVars
<1>8. CASE UNCHANGED table
  BY <1>1, <1>8
<1>9. CASE \E w \in Workers, id \in Ids : RewriteRow(w, id)
  BY <1>1, <1>2, <1>3, <1>9
<1>10. CASE \E id \in Ids, v \in Values, w \in Writers : Put(id, v, w)
  <2>1. PICK id \in Ids, v \in Values, w \in Writers : Put(id, v, w)
    BY <1>10
  <2>2. CASE table'[i] = table[i]
    BY <1>1, <2>2
  <2>3. CASE table'[i] # table[i]
    <3>1. /\ v \in Values /\ w \in EarlierWriters \cup {Planner}
          /\ CanWrite(w, v) /\ table'[i] = WrittenRow(w, i, v)
      BY <1>4, <2>1, <2>3
    <3> QED BY <3>1
  <2> QED BY <2>2, <2>3
<1>11. CASE \E id \in Ids : Delete(id)
  BY <1>1, <1>5, <1>11
<1>12. CASE Run
  <2>1. PICK w \in Workers : Start(w) \/ Proceed(w) \/ Abort(w)
    BY <1>12 DEF Run
  <2>2. CASE \A id \in Ids : ~RewriteRow(w, id)
    BY <1>6, <1>8, <2>1, <2>2
  <2> QED BY <1>9, <2>2
<1>13. CASE Application
  BY <1>7, <1>8, <1>10, <1>11, <1>13 DEF Application
<1>14. CASE FreshProgress \/ UNCHANGED sweepVars
  BY <1>7, <1>8, <1>14
<1> QED BY <1>12, <1>13, <1>14 DEF Next

LEMMA WrittenIsConsistent ==
    ASSUME StartsConsistent, StoreTypeOK, NEW id \in Ids, NEW v \in Values,
           NEW w \in EarlierWriters \cup {Planner}, CanWrite(w, v)
    PROVE  RowConsistent(id, WrittenRow(w, id, v))
<1>1. CASE w = LegacyWriter
  BY <1>1 DEF RowConsistent, WrittenRow
<1>2. CASE w # LegacyWriter
  <2>1. w \in PlannersOver(NumColumns) /\ Planner \in PlannersOver(NumColumns)
    BY <1>2, SweepStoreAssumption
  <2>2. \A c \in 1..NumColumns :
          /\ w.columns[c].bits = Planner.columns[c].bits
          /\ w.columns[c].keys # NotConfigured =>
               w.columns[c].keys.current \in Planner.columns[c].keys.keys
    BY <1>2, <2>1 DEF StartsConsistent, PlannersOver, IndexKeyrings
  <2> DEFINE row == WrittenRow(w, id, v)
  <2>3. \A c \in 1..NumColumns :
          /\ row.ciphertext.payload = v
          /\ ConsistentWith(v, row.indexes[c],
                            Planner.columns[c].bits, Planner.columns[c].keys)
    BY <2>1, <2>2, WrittenColumn
  <2>4. DOMAIN Planner.columns = 1..NumColumns
    BY <2>1 DEF PlannersOver
  <2> HIDE DEF row
  <2>5. RowConsistent(id, row)
    BY <2>3, <2>4 DEF RowConsistent
  <2> QED BY <2>5 DEF row
<1> QED BY <1>1, <1>2

LEMMA ConsistencyStep ==
    ASSUME StartsConsistent, TypeOK, IndexesConsistent, [Next]_sweepVars
    PROVE  IndexesConsistent'
<1> SUFFICES ASSUME NEW i \in Present' PROVE RowConsistent(i, table'[i])
  BY DEF IndexesConsistent, RowConsistent
<1> i \in Ids /\ StoreTypeOK
  BY DEF Present, TypeOK
<1>1. CASE i \in Present /\ table'[i] = table[i]
  BY <1>1 DEF IndexesConsistent, RowConsistent
<1>2. ASSUME i \in Present, table[i] \in Rows, nonces[i] \in Nat,
             PlanError(Planner, i, table[i]) = Ok, PlanState(Planner, table[i]) # "Current",
             table'[i] = Replacement(Planner, i, table[i], nonces[i])
      PROVE  RowConsistent(i, table'[i])
  <2>1. DOMAIN Planner.columns = 1..NumColumns
    BY SweepStoreAssumption DEF PlannersOver
  <2>2. RowConsistent(i, table[i])
    BY <1>2 DEF IndexesConsistent, RowConsistent
  <2> QED BY <1>2, <2>1, <2>2, RewrittenColumn DEF RowConsistent
<1>3. ASSUME NEW v \in Values, NEW w \in EarlierWriters \cup {Planner},
             CanWrite(w, v), table'[i] = WrittenRow(w, i, v)
      PROVE  RowConsistent(i, table'[i])
  BY <1>3, WrittenIsConsistent
<1> QED BY <1>1, <1>2, <1>3, RowsChange

(* Sweeps and writers never part a readable value from its indexes, so a   *)
(* search by value finds it, provided the rotation starts that way.        *)
THEOREM IndexesStayConsistent ==
    ASSUME StartsConsistent PROVE Spec => []IndexesConsistent
<1>1. Init => IndexesConsistent
  BY DEF StartsConsistent, Init, StoreInit, Present, IndexesConsistent, RowConsistent
<1>2. TypeOK /\ IndexesConsistent /\ [Next]_sweepVars => IndexesConsistent'
  BY ConsistencyStep
<1> QED BY <1>1, <1>2, SweepTypeCorrect, PTL DEF Spec

-----------------------------------------------------------------------------
(* A single owner's conflicts.                                             *)

(* The rows of its batch that someone has changed since they were loaded.  *)
Overtaken(w) == {id \in Ids : batch[w][id] # Absent /\ table[id] # batch[w][id]}

(* Each is an application's write, and so is each conflict counted so far. *)
ConflictsAccounted(w) ==
    /\ report[w]["conflicts"] + Cardinality(Overtaken(w)) <= writes
    /\ pc[w] # "process" => batch[w] = NoBatch

LEMMA OvertakenFinite ==
    ASSUME NEW S \in SUBSET Ids
    PROVE  IsFiniteSet(S) /\ Cardinality(S) \in Nat
BY FS_Subset, FS_CardinalityType, SweepStoreAssumption

LEMMA Shrinks ==
    ASSUME NEW S \in SUBSET Ids, NEW T \in SUBSET S
    PROVE  Cardinality(T) <= Cardinality(S)
BY OvertakenFinite, FS_Subset

LEMMA Grows ==
    ASSUME NEW S \in SUBSET Ids, NEW id \in Ids, NEW T \in SUBSET (S \cup {id})
    PROVE  Cardinality(T) <= Cardinality(S) + 1
<1>1. Cardinality(S \cup {id}) <= Cardinality(S) + 1
  BY OvertakenFinite, FS_AddElement
<1>2. Cardinality(T) <= Cardinality(S \cup {id})
  BY Shrinks
<1>3. Cardinality(T) \in Nat /\ Cardinality(S) \in Nat /\ Cardinality(S \cup {id}) \in Nat
  BY OvertakenFinite
<1> QED BY <1>1, <1>2, <1>3

LEMMA NothingOvertaken ==
    ASSUME NEW w, batch[w] = NoBatch
    PROVE  Cardinality(Overtaken(w)) = 0
<1>1. Overtaken(w) = {}
  BY DEF Overtaken, NoBatch
<1> QED BY <1>1, FS_EmptySet

LEMMA OwnerStep ==
    ASSUME NEW w, Workers = {w}, TypeOK, ConflictsAccounted(w), [Next]_sweepVars
    PROVE  ConflictsAccounted(w)'
<1> DEFINE n == report[w]["conflicts"]
           S == Overtaken(w)
<1>1. /\ n \in Nat /\ writes \in Nat /\ w \in Workers /\ "conflicts" \in Fields
      /\ n + Cardinality(S) <= writes /\ S \in SUBSET Ids /\ Cardinality(S) \in Nat
  <2>1. S \in SUBSET Ids
    BY DEF Overtaken
  <2>2. "conflicts" \in Fields /\ w \in Workers
    BY DEF Fields
  <2> QED BY <2>1, <2>2, OvertakenFinite DEF TypeOK, RunTypeOK, StoreTypeOK, ConflictsAccounted
<1>2. n <= writes
  BY <1>1
<1>3. Overtaken(w)' \in SUBSET Ids /\ Cardinality(Overtaken(w)') \in Nat
  <2>1. Overtaken(w)' \in SUBSET Ids
    BY DEF Overtaken
  <2> QED BY <2>1, OvertakenFinite
<1>4. ASSUME UNCHANGED <<table, batch, report, pc, writes>> PROVE ConflictsAccounted(w)'
  BY <1>4 DEF ConflictsAccounted, Overtaken, NoBatch
<1>5. ASSUME batch'[w] = NoBatch, report'[w]["conflicts"] <= writes', report' \in [Workers -> [Fields -> Nat]]
      PROVE  ConflictsAccounted(w)'
  <2>1. Overtaken(w)' = {}
    BY <1>5 DEF Overtaken, NoBatch
  <2>2. Cardinality(Overtaken(w)') = 0
    BY <2>1, FS_EmptySet
  <2>3. report'[w]["conflicts"] \in Nat
    BY <1>1, <1>5
  <2> QED BY <1>5, <2>2, <2>3 DEF ConflictsAccounted, NoBatch
<1>6. ASSUME NEW id \in Ids, SkipRow(w, id) \/ RewriteRow(w, id) \/ LoseRow(w, id)
      PROVE  ConflictsAccounted(w)'
  <2>1. /\ pc' = pc /\ pc[w] = "process" /\ writes' = writes
        /\ \A i \in Ids : i # id => table'[i] = table[i] /\ batch'[w][i] = batch[w][i]
        /\ batch'[w][id] = Absent /\ batch[w][id] # Absent
    <3>1. /\ pc' = pc /\ pc[w] = "process" /\ writes' = writes /\ batch[w][id] # Absent
          /\ batch' = [batch EXCEPT ![w][id] = Absent]
      BY <1>6 DEF SkipRow, RewriteRow, LoseRow, Turn, Pending, storeVars
    <3>2. \A i \in Ids : i # id => table'[i] = table[i]
      BY <1>6 DEF SkipRow, RewriteRow, LoseRow, storeVars, TypeOK, StoreTypeOK
    <3>3. batch'[w][id] = Absent /\ \A i \in Ids : i # id => batch'[w][i] = batch[w][i]
      BY <1>1, <3>1 DEF TypeOK, RunTypeOK
    <3> QED BY <3>1, <3>2, <3>3
  <2>2. Overtaken(w)' = S \ {id}
    BY <2>1 DEF Overtaken
  <2>3. CASE LoseRow(w, id)
    <3>1. id \in S
      BY <2>1, <2>3 DEF LoseRow, GuardHolds, Overtaken
    <3>2. Cardinality(S \ {id}) = Cardinality(S) - 1
      BY <1>1, <3>1, OvertakenFinite, FS_RemoveElement
    <3>3. report'[w]["conflicts"] = n + 1
      BY <1>1, <2>3 DEF LoseRow, Count, TypeOK, RunTypeOK
    <3> QED BY <1>1, <2>1, <2>2, <3>2, <3>3 DEF ConflictsAccounted
  <2>4. CASE SkipRow(w, id) \/ RewriteRow(w, id)
    <3>1. report'[w]["conflicts"] = n
      <4>1. ASSUME NEW f \in Fields, f # "conflicts", Count(w, f)
            PROVE  report'[w]["conflicts"] = n
        BY <1>1, <4>1 DEF Count, TypeOK, RunTypeOK
      <4>2. Tally(PlanState(Planner, batch[w][id])) \in Fields \ {"conflicts"}
        <5>1. \A state \in RowStates : Tally(state) \in {"current", "stale", "legacy"}
          BY DEF RowStates, Tally
        <5>2. PlanState(Planner, batch[w][id]) \in RowStates
          BY PlanStateType
        <5> QED BY <5>1, <5>2 DEF Fields
      <4> QED BY <2>4, <4>1, <4>2 DEF SkipRow, RewriteRow, Fields
    <3>2. Cardinality(S \ {id}) <= Cardinality(S) /\ Cardinality(S \ {id}) \in Nat
      BY <1>1, Shrinks, OvertakenFinite
    <3> QED BY <1>1, <2>1, <2>2, <3>1, <3>2 DEF ConflictsAccounted
  <2> QED BY <1>6, <2>3, <2>4
<1>7. CASE Start(w)
  <2>1. batch[w] = NoBatch /\ batch' = batch /\ report'[w]["conflicts"] = 0
        /\ writes' = writes /\ report' \in [Workers -> [Fields -> Nat]]
    BY <1>1, <1>7 DEF Start, ConflictsAccounted, EmptyReport, storeVars, TypeOK, RunTypeOK
  <2> QED BY <1>1, <1>5, <2>1
<1>8. CASE LoadBatch(w)
  <2>1. /\ pc'[w] = "process" /\ report' = report /\ writes' = writes /\ table' = table
        /\ \A i \in Ids : batch'[w][i] \in {table[i], Absent}
    BY <1>1, <1>8 DEF LoadBatch, storeVars, TypeOK, RunTypeOK
  <2>2. Overtaken(w)' = {}
    BY <2>1 DEF Overtaken
  <2>3. Cardinality(Overtaken(w)') = 0
    BY <2>2, FS_EmptySet
  <2> QED BY <1>1, <1>2, <2>1, <2>3 DEF ConflictsAccounted
<1>9. CASE LoadFails(w) \/ Finish(w) \/ Abort(w) \/ \E id \in Ids : RejectRow(w, id)
  <2>1. /\ EndRun(w, "idle") \/ EndRun(w, "done")
        /\ report' = report /\ writes' = writes
    BY <1>9 DEF LoadFails, Finish, Abort, RejectRow, storeVars
  <2>2. batch'[w] = NoBatch
    BY <1>1, <2>1 DEF EndRun, TypeOK, RunTypeOK
  <2> QED BY <1>1, <1>2, <1>5, <2>1, <2>2 DEF TypeOK, RunTypeOK
<1>10. CASE SaveCheckpoint(w)
  <2>1. /\ Pending(w) = {} /\ batch' = batch /\ report' = report /\ writes' = writes
    BY <1>10 DEF SaveCheckpoint
  <2>2. batch[w] \in [Ids -> SweepRows \cup {Absent}] /\ \A i \in Ids : batch[w][i] = Absent
    BY <1>1, <2>1 DEF Pending, TypeOK, RunTypeOK
  <2>3. batch'[w] = NoBatch
    BY <2>1, <2>2 DEF NoBatch
  <2> QED BY <1>1, <1>2, <1>5, <2>1, <2>3 DEF TypeOK, RunTypeOK
<1>11. ASSUME NEW id \in Ids, NEW row, table' = [table EXCEPT ![id] = row], writes' = writes + 1,
              UNCHANGED runVars
       PROVE  ConflictsAccounted(w)'
  <2>1. \A i \in Ids : i # id => table'[i] = table[i]
    BY <1>11 DEF TypeOK, StoreTypeOK
  <2>2. Overtaken(w)' \in SUBSET (S \cup {id})
    BY <1>11, <2>1 DEF Overtaken, runVars
  <2>3. Cardinality(Overtaken(w)') <= Cardinality(S) + 1
    BY <1>1, <2>2, Grows
  <2>4. UNCHANGED <<report, pc, batch>>
    BY <1>11 DEF runVars
  <2> QED BY <1>1, <1>3, <1>11, <2>3, <2>4 DEF ConflictsAccounted, NoBatch
<1>12. ASSUME NEW id \in Ids, Delete(id) \/ (\E v \in Values, a \in Writers : Put(id, v, a)),
              UNCHANGED runVars
       PROVE  ConflictsAccounted(w)'
  BY <1>11, <1>12 DEF Delete, Put
<1>13. CASE (Promote /\ UNCHANGED runVars) \/ FreshProgress \/ UNCHANGED sweepVars
  BY <1>4, <1>13 DEF Promote, FreshProgress, sweepVars, storeVars, runVars
<1> QED BY <1>6, <1>7, <1>8, <1>9, <1>10, <1>12, <1>13 DEF Next, Run, Proceed, Application

(* A run of a single owner loses no more compare-and-swaps than there were *)
(* writes by applications: every conflict is someone's newer value.        *)
THEOREM ConflictsAreWrites ==
    ASSUME NEW w, Workers = {w} PROVE Spec => []NoSpuriousConflicts
<1>1. Init => ConflictsAccounted(w)
  <2> SUFFICES ASSUME Init PROVE ConflictsAccounted(w)
    OBVIOUS
  <2>1. batch[w] = NoBatch /\ report[w]["conflicts"] = 0 /\ writes = 0
    BY DEF Init, StoreInit, RunInit, EmptyReport, Fields
  <2> QED BY <2>1, NothingOvertaken DEF ConflictsAccounted
<1>2. TypeOK /\ ConflictsAccounted(w) /\ [Next]_sweepVars => ConflictsAccounted(w)'
  BY OwnerStep
<1>3. TypeOK /\ ConflictsAccounted(w) => NoSpuriousConflicts
  <2> SUFFICES ASSUME TypeOK, ConflictsAccounted(w)
               PROVE  report[w]["conflicts"] <= writes
    BY DEF NoSpuriousConflicts
  <2>1. Overtaken(w) \in SUBSET Ids
    BY DEF Overtaken
  <2>2. Cardinality(Overtaken(w)) \in Nat
    BY <2>1, OvertakenFinite
  <2>3. report[w]["conflicts"] \in Nat /\ writes \in Nat
    BY DEF TypeOK, RunTypeOK, StoreTypeOK, Fields
  <2> QED BY <2>2, <2>3 DEF ConflictsAccounted
<1> QED BY <1>1, <1>2, <1>3, SweepTypeCorrect, PTL DEF Spec

-----------------------------------------------------------------------------
(* A single owner's progress.                                              *)

(* Its cursor is the checkpoint, and its batch lies behind it.             *)
OwnsProgress(w) ==
    /\ pc[w] \in {"load", "process"} => cursor[w] = checkpoint
    /\ pc[w] = "process" =>
        last[w] \in Ids /\ (checkpoint # NoCursor => last[w] > checkpoint)

(* What the owner's own steps do to its progress.                          *)
LEMMA OwnerAdvances ==
    ASSUME NEW w \in Workers, TypeOK, OwnsProgress(w), Start(w) \/ Proceed(w) \/ Abort(w)
    PROVE  /\ OwnsProgress(w)'
           /\ \/ checkpoint' = checkpoint
              \/ /\ checkpoint' # NoCursor
                 /\ checkpoint # NoCursor => checkpoint' > checkpoint
<1>1. /\ pc \in [Workers -> {"idle", "load", "process", "done"}]
      /\ cursor \in [Workers -> Ids \cup {NoCursor}]
      /\ last \in [Workers -> Ids \cup {NoCursor}]
      /\ NoCursor \notin Ids
  BY SweepStoreAssumption DEF TypeOK, RunTypeOK
<1>2. CASE Start(w)
  <2>1. pc'[w] = "load" /\ cursor'[w] = checkpoint /\ checkpoint' = checkpoint
    BY <1>1, <1>2 DEF Start, storeVars
  <2>2. OwnsProgress(w)'
    BY <2>1 DEF OwnsProgress
  <2> QED BY <2>1, <2>2
<1>3. CASE LoadBatch(w)
  <2>1. PICK id \in Page(cursor[w]) : last' = [last EXCEPT ![w] = id]
    BY <1>3 DEF LoadBatch
  <2>2. id \in Ids /\ (cursor[w] # NoCursor => id > cursor[w])
    BY DEF Page, Remaining, Present
  <2>3. /\ pc[w] = "load" /\ pc'[w] = "process"
        /\ cursor' = cursor /\ checkpoint' = checkpoint /\ last'[w] = id
    BY <1>1, <1>3, <2>1 DEF LoadBatch, storeVars
  <2>4. OwnsProgress(w)'
    BY <2>2, <2>3 DEF OwnsProgress
  <2> QED BY <2>3, <2>4
<1>4. CASE LoadFails(w) \/ Finish(w) \/ Abort(w) \/ \E id \in Ids : RejectRow(w, id)
  <2>1. pc'[w] \in {"idle", "done"} /\ checkpoint' = checkpoint
    BY <1>1, <1>4 DEF LoadFails, Finish, Abort, RejectRow, EndRun, storeVars
  <2>2. OwnsProgress(w)'
    BY <2>1 DEF OwnsProgress
  <2> QED BY <2>1, <2>2
<1>5. CASE \E id \in Ids : SkipRow(w, id) \/ RewriteRow(w, id) \/ LoseRow(w, id)
  <2>1. pc' = pc /\ cursor' = cursor /\ last' = last /\ checkpoint' = checkpoint
    BY <1>5 DEF SkipRow, RewriteRow, LoseRow, storeVars
  <2>2. OwnsProgress(w)'
    BY <2>1 DEF OwnsProgress
  <2> QED BY <2>1, <2>2
<1>6. CASE SaveCheckpoint(w)
  <2>1. /\ pc[w] = "process" /\ checkpoint' = last[w]
        /\ cursor'[w] = last[w] /\ pc'[w] = "load"
    BY <1>1, <1>6 DEF SaveCheckpoint
  <2> QED BY <1>1, <2>1 DEF OwnsProgress
<1> QED BY <1>2, <1>3, <1>4, <1>5, <1>6 DEF Proceed

LEMMA OwnedStep ==
    ASSUME NEW w, Workers = {w}, TypeOK, OwnsProgress(w), [Next]_sweepVars
    PROVE  /\ OwnsProgress(w)'
           /\ checkpoint' # checkpoint /\ checkpoint # NoCursor =>
                \/ checkpoint' = NoCursor /\ \A v \in Workers : pc[v] \in {"idle", "done"}
                \/ checkpoint' # NoCursor /\ checkpoint' > checkpoint
<1>1. CASE Run
  <2>1. Start(w) \/ Proceed(w) \/ Abort(w)
    BY <1>1 DEF Run
  <2> QED BY <2>1, OwnerAdvances
<1>2. CASE FreshProgress
  <2>1. /\ \A v \in Workers : pc[v] \in {"idle", "done"}
        /\ checkpoint' = NoCursor /\ pc' = pc
    BY <1>2 DEF FreshProgress, runVars
  <2> QED BY <2>1 DEF OwnsProgress
<1>3. CASE (Application /\ UNCHANGED runVars) \/ UNCHANGED sweepVars
  <2>1. UNCHANGED <<checkpoint, pc, cursor, last>>
    BY <1>3 DEF Application, Put, Delete, Promote, runVars, sweepVars, storeVars
  <2> QED BY <2>1 DEF OwnsProgress
<1> QED BY <1>1, <1>2, <1>3 DEF Next

(* save_checkpoint: with one owner, as the documentation asks, durable     *)
(* progress only moves forward until the operator starts afresh.           *)
THEOREM OwnedProgressAdvances ==
    ASSUME NEW o, Workers = {o} PROVE Spec => ProgressAdvances
<1> DEFINE Advances ==
            checkpoint' # checkpoint /\ checkpoint # NoCursor =>
                \/ checkpoint' = NoCursor /\ \A w \in Workers : pc[w] \in {"idle", "done"}
                \/ checkpoint' # NoCursor /\ checkpoint' > checkpoint
<1>1. Init => OwnsProgress(o)
  BY DEF Init, RunInit, OwnsProgress
<1>2. TypeOK /\ OwnsProgress(o) /\ [Next]_sweepVars => OwnsProgress(o)'
  BY OwnedStep
<1>3. TypeOK /\ OwnsProgress(o) /\ [Next]_sweepVars => Advances
  BY OwnedStep
<1> HIDE DEF Advances
<1>4. Spec => [][Advances]_sweepVars
  BY <1>1, <1>2, <1>3, SweepTypeCorrect, PTL DEF Spec
<1> QED BY <1>4 DEF Advances, ProgressAdvances
=============================================================================
