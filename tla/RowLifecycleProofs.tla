------------------------- MODULE RowLifecycleProofs -------------------------
(***************************************************************************)
(* Theorems about the life of one row: for any keys, any number of index   *)
(* columns and any order of writes, rotations, policy changes, damage,     *)
(* rewrites and retirements.                                               *)
(***************************************************************************)
EXTENDS RowLifecycle, RowPlannerProofs

-----------------------------------------------------------------------------
(* Type correctness.                                                       *)

LEMMA UnindexedType ==
    ASSUME NEW v \in Values PROVE UnindexedRow(v) \in RowsOver(NumColumns)
<1>1. [form |-> "foreign", payload |-> v] \in Ciphertexts
  BY DEF Ciphertexts, ForeignBytes
<1> QED BY <1>1, MissingIndexType DEF UnindexedRow, RowsOver

LEMMA SealedColumn ==
    ASSUME TypeOK, NEW v \in Values, CanWrite(v), NEW c \in 1..NumColumns
    PROVE  /\ planner.columns[c].keys \in IndexKeyrings
           /\ planner.columns[c].keys # NotConfigured
           /\ planner.columns[c].bits \in 1..MaxIndexBits
           /\ SealedRow(v).indexes[c] \in Indexes
           /\ SealedRow(v).indexes[c] =
                IndexOf(v, planner.columns[c].bits, planner.columns[c].keys.current)
<1>1. DOMAIN planner.columns = 1..NumColumns
  BY DEF TypeOK, PlannersOver
<1>2. DeriveError(v, planner.columns[c].keys) = Ok
  BY <1>1 DEF CanWrite
<1>3. planner.columns[c].keys # NotConfigured
  BY <1>2 DEF DeriveError, Ok
<1>4. planner.columns[c].keys \in IndexKeyrings /\ planner.columns[c].bits \in 1..MaxIndexBits
  BY <1>3 DEF TypeOK, PlannersOver
<1>5. SealedRow(v).indexes[c] =
        Derive(v, planner.columns[c].bits, planner.columns[c].keys)
  BY <1>1 DEF SealedRow
<1>6. SealedRow(v).indexes[c] \in Indexes
  BY <1>2, <1>5, DerivedIsCurrent, RowLifecycleAssumption DEF TypeOK
<1> QED BY <1>3, <1>4, <1>5, <1>6 DEF Derive

LEMMA SealedType ==
    ASSUME TypeOK, NEW v \in Values, CanWrite(v)
    PROVE  SealedRow(v) \in RowsOver(NumColumns)
<1> DEFINE r == SealedRow(v)
<1>1. v \in Payloads \ {Unpaddable}
  BY EnvelopeAssumption DEF Payloads
<1>2. r.ciphertext \in Ciphertexts
  BY <1>1, SealType, RowLifecycleAssumption DEF SealedRow, TypeOK
<1>3. \A c \in 1..NumColumns : r.indexes[c] \in Indexes
  BY SealedColumn
<1>4. r = [ciphertext |-> r.ciphertext, indexes |-> [c \in 1..NumColumns |-> r.indexes[c]]]
  BY DEF SealedRow, TypeOK, PlannersOver
<1> QED BY <1>2, <1>3, <1>4 DEF RowsOver

LEMMA DamagedEnvelopeType ==
    ASSUME NEW e \in Ciphertexts, e.form = "envelope", NEW d \in DamagedCiphertexts(e)
    PROVE  d \in Ciphertexts
<1>1. e \in Envelopes
  BY DEF Ciphertexts, ForeignBytes, NullColumn
<1>2. CASE \E x \in {"magic", "version", "header"} : d = [e EXCEPT !.extent = x]
  BY <1>1, <1>2 DEF Envelopes, Ciphertexts
<1>3. CASE d \in {[e EXCEPT !.version = 1], [e EXCEPT !.suite = 9]}
  BY <1>1, <1>3 DEF Envelopes, Ciphertexts
<1>4. CASE d = [e EXCEPT !.flags = @ \cup {"reserved"}]
  BY <1>1, <1>4 DEF Envelopes, Ciphertexts, Flags
<1>5. CASE d \in {[e EXCEPT !.authentic = FALSE], [e EXCEPT !.fingerprint = "none"]}
  <2>1. CASE d = [e EXCEPT !.authentic = FALSE]
    BY <1>1, <2>1 DEF Envelopes, Ciphertexts
  <2>2. CASE d = [e EXCEPT !.fingerprint = "none"]
    BY <1>1, <2>2 DEF Envelopes, Ciphertexts, RecordKinds
  <2> QED BY <1>5, <2>1, <2>2
<1>6. CASE d = [e EXCEPT !.context.id = @ + 1]
  BY <1>1, <1>6 DEF Envelopes, Ciphertexts, Contexts
<1>7. CASE d = [e EXCEPT !.payload = Undecodable]
  BY <1>1, <1>7, EnvelopeAssumption DEF Envelopes, Ciphertexts, Payloads
<1>8. CASE \E k \in KeyIds \ {e.key} : d = [e EXCEPT !.key = k, !.authentic = FALSE]
  BY <1>1, <1>8 DEF Envelopes, Ciphertexts
<1>9. CASE Padded(e) /\ d = [e EXCEPT !.payload = Unpaddable]
  BY <1>1, <1>9 DEF Envelopes, Ciphertexts, Payloads, Padded
<1> QED BY <1>2, <1>3, <1>4, <1>5, <1>6, <1>7, <1>8, <1>9 DEF DamagedCiphertexts

LEMMA DamagedIndexType ==
    ASSUME NEW i \in Indexes, NEW d \in DamagedIndexes(i) PROVE d \in Indexes
<1>1. CASE d \in {[i EXCEPT !.extent = "short"], [i EXCEPT !.extent = "uneven"]}
  BY <1>1 DEF Indexes
<1>2. CASE d \in {[i EXCEPT !.version = 1], [i EXCEPT !.bits = 0]}
  BY <1>2 DEF Indexes
<1>3. CASE d = [i EXCEPT !.canonical = FALSE]
  BY <1>3 DEF Indexes
<1>4. CASE \E x \in Digests \ {i.digest} : d = [i EXCEPT !.digest = x]
  BY <1>4 DEF Indexes
<1> QED BY <1>1, <1>2, <1>3, <1>4 DEF DamagedIndexes

LEMMA InitType == Init => TypeOK
BY UnindexedType, RowLifecycleAssumption DEF Init, TypeOK

LEMMA NextType == TypeOK /\ [Next]_vars => TypeOK'
<1> SUFFICES ASSUME TypeOK, [Next]_vars PROVE TypeOK'
  OBVIOUS
<1>1. ASSUME NEW v \in Values, Write(v) PROVE TypeOK'
  BY <1>1, SealedType DEF Write, TypeOK
<1>2. ASSUME NEW k \in KeyIds, RotateKey(k) PROVE TypeOK'
  <2>1. planner' \in PlannersOver(NumColumns)
    BY <1>2 DEF RotateKey, TypeOK, PlannersOver, Keyrings
  <2> QED BY <1>2, <2>1 DEF RotateKey, TypeOK
<1>3. ASSUME NEW c \in 1..NumColumns, NEW k \in IndexKeyIds, RotateIndexKey(c, k) PROVE TypeOK'
  <2>1. planner.columns[c].keys \in IndexKeyrings
    BY <1>3 DEF RotateIndexKey, TypeOK, PlannersOver
  <2>2. [current |-> k, keys |-> planner.columns[c].keys.keys \cup {k}] \in IndexKeyrings
    BY <2>1 DEF IndexKeyrings
  <2>3. planner' \in PlannersOver(NumColumns)
    BY <1>3, <2>2 DEF RotateIndexKey, TypeOK, PlannersOver
  <2> QED BY <1>3, <2>3 DEF RotateIndexKey, TypeOK
<1>4. CASE ChangePadding
  BY <1>4 DEF ChangePadding, TypeOK, PlannersOver
<1>5. CASE UNCHANGED vars
  BY <1>5 DEF vars, TypeOK
<1>6. CASE Damage
  <2>1. \A e \in DamagedCiphertexts(row.ciphertext) : e \in Ciphertexts
    BY <1>6, DamagedEnvelopeType DEF Damage, TypeOK, RowsOver
  <2>2. \A c \in 1..NumColumns : \A i \in DamagedIndexes(row.indexes[c]) : i \in Indexes
    BY DamagedIndexType DEF TypeOK, RowsOver
  <2>3. [UnindexedRow(written) EXCEPT !.ciphertext.payload = Undecodable] \in RowsOver(NumColumns)
    <3>1. UnindexedRow(written) \in RowsOver(NumColumns)
      BY UnindexedType DEF TypeOK
    <3>2. [form |-> "foreign", payload |-> Undecodable] \in Ciphertexts
      BY DEF Ciphertexts, ForeignBytes
    <3> QED BY <3>1, <3>2 DEF UnindexedRow, RowsOver
  <2>4. row' \in RowsOver(NumColumns)
    <3>1. ASSUME NEW e \in Ciphertexts, row' = [row EXCEPT !.ciphertext = e]
          PROVE  row' \in RowsOver(NumColumns)
      BY <3>1 DEF TypeOK, RowsOver
    <3>2. ASSUME NEW c \in 1..NumColumns, NEW i \in Indexes,
                 row' = [row EXCEPT !.indexes[c] = i]
          PROVE  row' \in RowsOver(NumColumns)
      BY <3>2 DEF TypeOK, RowsOver
    <3> QED BY <1>6, <2>1, <2>2, <2>3, <3>1, <3>2 DEF Damage
  <2> QED BY <1>6, <2>4 DEF Damage, TypeOK
<1>7. CASE Rewrite
  BY <1>7, ReplacementType, RowLifecycleAssumption DEF Rewrite, TypeOK
<1>8. CASE Retire
  <2>1. \A c \in 1..NumColumns : planner.columns[c].keys \in IndexKeyrings
    <3>1. DOMAIN planner.columns = 1..NumColumns
      BY DEF TypeOK, PlannersOver
    <3>2. \A c \in 1..NumColumns : planner.columns[c].keys # NotConfigured
      <4>1. Classify(planner, Id, row) = "Current"
        BY <1>8 DEF Retire
      <4>2. \A c \in DOMAIN planner.columns : planner.columns[c].keys # NotConfigured
        BY <4>1, CurrentRowNames
      <4> QED BY <3>1, <4>2
    <3> QED BY <3>2 DEF TypeOK, PlannersOver
  <2>2. planner.keys \in Keyrings
    BY DEF TypeOK, PlannersOver
  <2>3. planner' \in PlannersOver(NumColumns)
    <3> DEFINE keys == {planner.keys.current}
               columns == [c \in DOMAIN planner.columns |->
                   [planner.columns[c] EXCEPT !.keys.keys = {planner.columns[c].keys.current}]]
    <3>1. [planner.keys EXCEPT !.keys = keys] \in Keyrings
      BY <2>2 DEF Keyrings
    <3>2. \A c \in 1..NumColumns :
            [planner.columns[c].keys EXCEPT !.keys = {planner.columns[c].keys.current}] \in IndexKeyrings
      BY <2>1 DEF IndexKeyrings
    <3>3. \A c \in 1..NumColumns :
            planner.columns[c] \in [bits : 1..MaxIndexBits, keys : IndexKeyrings \cup {NotConfigured}]
      BY DEF TypeOK, PlannersOver
    <3>4. columns \in [1..NumColumns ->
                        [bits : 1..MaxIndexBits, keys : IndexKeyrings \cup {NotConfigured}]]
      BY <3>2, <3>3 DEF TypeOK, PlannersOver
    <3>5. planner' = [planner EXCEPT !.keys.keys = keys, !.columns = columns]
      BY <1>8 DEF Retire
    <3> HIDE DEF keys, columns
    <3> QED BY <3>1, <3>4, <3>5 DEF TypeOK, PlannersOver
  <2> QED BY <1>8, <2>3 DEF Retire, TypeOK
<1> QED BY <1>1, <1>2, <1>3, <1>4, <1>5, <1>6, <1>7, <1>8 DEF Next

-----------------------------------------------------------------------------
(* An undamaged row stays intact.                                          *)

LEMMA OpenWithMoreKeys ==
    ASSUME NEW context, NEW e, NEW small, NEW large,
           Open(context, e, small) = Ok, e.key \in large.keys
    PROVE  Open(context, e, large) = Ok
BY DEF Open, Ok

LEMMA SameContext ==
    ASSUME planner'.seal = planner.seal, planner'.kind = planner.kind
    PROVE  RowContext(planner, Id)' = RowContext(planner, Id)
BY DEF RowContext

(* What a rewrite leaves in an index column of an intact row.              *)
LEMMA RewrittenColumn ==
    ASSUME TypeOK, Intact, ~damaged, Rewrite, NEW c \in 1..NumColumns
    PROVE  /\ planner.columns[c].keys # NotConfigured
           /\ ConsistentWith(written, row'.indexes[c], planner.columns[c].bits,
                             planner.columns[c].keys)
<1>1. /\ planner \in PlannersOver(NumColumns) /\ NumColumns \in Nat /\ Id \in Int
      /\ row \in RowsOver(NumColumns) /\ DOMAIN planner.columns = 1..NumColumns
  BY RowLifecycleAssumption DEF TypeOK, PlannersOver
<1>2. /\ row' = Replacement(planner, Id, row, 0)
      /\ PlanError(planner, Id, row) = Ok /\ PlanState(planner, row) # "Current"
  BY DEF Rewrite
<1>3. row.ciphertext.payload = written
  BY DEF Intact, UnindexedRow
<1>4. CASE c \in RederivedColumns(planner, row)
  <2>1. FirstDerivationError(planner, row) = Ok
    <3>1. CASE row.ciphertext.form = "envelope"
      <4>1. StaleColumns(planner, row) # {}
        BY <1>4, <3>1 DEF RederivedColumns
      <4> QED BY <1>1, <1>2, <3>1, <4>1, EnvelopePlanOk
    <3>2. CASE row.ciphertext.form # "envelope"
      BY <1>1, <1>2, <3>2, LegacyPlanOk
    <3> QED BY <3>1, <3>2
  <2>2. DeriveError(written, planner.columns[c].keys) = Ok
    BY <1>1, <1>3, <1>4, <2>1, NoDerivationErrors
  <2>3. planner.columns[c].keys # NotConfigured
    BY <2>2 DEF DeriveError, Ok
  <2>4. planner.columns[c].keys \in IndexKeyrings /\ planner.columns[c].bits \in 1..MaxIndexBits
    BY <2>3 DEF TypeOK, PlannersOver
  <2>5. row'.indexes[c] = IndexOf(written, planner.columns[c].bits, planner.columns[c].keys.current)
    BY <1>1, <1>2, <1>3, <1>4 DEF Replacement, Derive
  <2>6. InspectBlindIndex(row'.indexes[c]) = Ok
    BY <2>4, <2>5 DEF IndexOf, InspectBlindIndex, Ok, IndexFormatVersion
  <2>7. planner.columns[c].keys.current \in planner.columns[c].keys.keys
    BY <2>4 DEF IndexKeyrings
  <2> QED BY <2>3, <2>5, <2>6, <2>7 DEF ConsistentWith, IndexOf
<1>5. CASE c \notin RederivedColumns(planner, row)
  <2>1. row.ciphertext.form = "envelope"
    BY <1>1, <1>5 DEF RederivedColumns
  <2>2. row'.indexes[c] = row.indexes[c]
    BY <1>1, <1>2, <1>5 DEF Replacement
  <2>3. row # UnindexedRow(written)
    BY <2>1 DEF UnindexedRow
  <2> QED BY <1>1, <2>2, <2>3 DEF Intact
<1> QED BY <1>4, <1>5

LEMMA RewriteKeepsIntact ==
    ASSUME TypeOK, Intact, Rewrite PROVE Intact'
<1> SUFFICES ASSUME ~damaged PROVE Intact'
  BY DEF Rewrite, Intact
<1>1. /\ planner \in PlannersOver(NumColumns) /\ NumColumns \in Nat /\ Id \in Int
      /\ row \in RowsOver(NumColumns) /\ DOMAIN planner.columns = 1..NumColumns
  BY RowLifecycleAssumption DEF TypeOK, PlannersOver
<1>2. /\ row' = Replacement(planner, Id, row, 0) /\ UNCHANGED <<planner, written, damaged>>
      /\ PlanError(planner, Id, row) = Ok /\ PlanState(planner, row) # "Current"
  BY DEF Rewrite
<1>3. row.ciphertext.payload = written
  BY DEF Intact, UnindexedRow
<1>4. /\ row'.ciphertext.form = "envelope"
      /\ row'.ciphertext.payload = written
      /\ Open(RowContext(planner, Id), row'.ciphertext, planner.keys) = Ok
  <2> DEFINE e == Replacement(planner, Id, row, 0).ciphertext
  <2>1. /\ e.form = "envelope" /\ e.payload = row.ciphertext.payload
        /\ Open(RowContext(planner, Id), e, planner.keys) = Ok
    BY <1>1, <1>2, ReplacementEnvelope
  <2>2. row'.ciphertext = e
    BY <1>2
  <2> HIDE DEF e
  <2> QED BY <1>3, <2>1, <2>2
<1> QED BY <1>1, <1>2, <1>4, RewrittenColumn DEF Intact

LEMMA WriteKeepsIntact ==
    ASSUME TypeOK, NEW v \in Values, Write(v) PROVE Intact'
<1>1. /\ planner \in PlannersOver(NumColumns) /\ NumColumns \in Nat /\ Id \in Int
      /\ DOMAIN planner.columns = 1..NumColumns
  BY RowLifecycleAssumption DEF TypeOK, PlannersOver
<1>2. /\ row' = SealedRow(v) /\ written' = v /\ UNCHANGED planner /\ CanWrite(v)
  BY DEF Write
<1>3. v \in Payloads \ {Unpaddable}
  BY EnvelopeAssumption DEF Payloads
<1>4. Open(RowContext(planner, Id), SealedRow(v).ciphertext, planner.keys) = Ok
  BY <1>1, <1>3, SealOpens DEF SealedRow
<1>5. SealedRow(v).ciphertext.form = "envelope" /\ SealedRow(v).ciphertext.payload = v
  BY DEF SealedRow, Seal
<1>6. ASSUME NEW c \in 1..NumColumns
      PROVE  /\ planner.columns[c].keys # NotConfigured
             /\ ConsistentWith(v, SealedRow(v).indexes[c], planner.columns[c].bits,
                               planner.columns[c].keys)
  <2>1. SealedRow(v).indexes[c] =
          IndexOf(v, planner.columns[c].bits, planner.columns[c].keys.current)
    BY <1>2, SealedColumn
  <2>2. /\ planner.columns[c].keys \in IndexKeyrings
        /\ planner.columns[c].keys # NotConfigured
        /\ planner.columns[c].bits \in 1..MaxIndexBits
    BY <1>2, SealedColumn
  <2>3. InspectBlindIndex(SealedRow(v).indexes[c]) = Ok
    BY <2>1, <2>2 DEF IndexOf, InspectBlindIndex, Ok, IndexFormatVersion
  <2> QED BY <2>1, <2>2, <2>3 DEF ConsistentWith, IndexOf, IndexKeyrings
<1> QED BY <1>1, <1>2, <1>4, <1>5, <1>6 DEF Intact

LEMMA ConfigurationKeepsIntact ==
    ASSUME TypeOK, Intact, UNCHANGED <<row, written, damaged>>,
           planner'.seal = planner.seal, planner'.kind = planner.kind,
           DOMAIN planner'.columns = DOMAIN planner.columns,
           row.ciphertext.form = "envelope" => row.ciphertext.key \in planner'.keys.keys,
           \A c \in DOMAIN planner.columns : planner.columns[c].keys # NotConfigured =>
              /\ planner'.columns[c].keys # NotConfigured
              /\ planner'.columns[c].bits = planner.columns[c].bits
              /\ \/ planner.columns[c].keys.keys \subseteq planner'.columns[c].keys.keys
                 \/ row.ciphertext.form = "envelope" =>
                      row.indexes[c].key \in planner'.columns[c].keys.keys
    PROVE  Intact'
<1> SUFFICES ASSUME ~damaged, row # UnindexedRow(written) PROVE Intact'
  BY DEF Intact, UnindexedRow
<1>1. /\ row.ciphertext.form = "envelope" /\ row.ciphertext.payload = written
      /\ Open(RowContext(planner, Id), row.ciphertext, planner.keys) = Ok
  BY DEF Intact
<1>2. Open(RowContext(planner, Id), row.ciphertext, planner'.keys) = Ok
  BY <1>1, OpenWithMoreKeys
<1>3. RowContext(planner', Id) = RowContext(planner, Id)
  BY DEF RowContext
<1>4. ASSUME NEW c \in DOMAIN planner.columns
      PROVE  /\ planner'.columns[c].keys # NotConfigured
             /\ ConsistentWith(written, row.indexes[c], planner'.columns[c].bits,
                               planner'.columns[c].keys)
  <2>1. /\ planner.columns[c].keys # NotConfigured
        /\ ConsistentWith(written, row.indexes[c], planner.columns[c].bits, planner.columns[c].keys)
    BY <1>1 DEF Intact
  <2> QED BY <1>1, <2>1 DEF ConsistentWith
<1> QED BY <1>1, <1>2, <1>3, <1>4 DEF Intact

LEMMA RetireKeepsIntact ==
    ASSUME TypeOK, Intact, ~damaged, Retire PROVE Intact'
<1>1. /\ planner \in PlannersOver(NumColumns) /\ DOMAIN planner.columns = 1..NumColumns
      /\ NumColumns \in Nat /\ row \in RowsOver(NumColumns)
  BY RowLifecycleAssumption DEF TypeOK, PlannersOver
<1>2. planner' =
        [planner EXCEPT
            !.keys.keys = {planner.keys.current},
            !.columns = [c \in DOMAIN planner.columns |->
                [planner.columns[c] EXCEPT !.keys.keys = {planner.columns[c].keys.current}]]]
  BY DEF Retire
<1>3. /\ planner'.keys.keys = {planner.keys.current}
      /\ planner'.seal = planner.seal /\ planner'.kind = planner.kind
      /\ planner'.columns = [c \in DOMAIN planner.columns |->
            [planner.columns[c] EXCEPT !.keys.keys = {planner.columns[c].keys.current}]]
  BY <1>1, <1>2 DEF PlannersOver, Keyrings
<1>4. /\ row.ciphertext.form = "envelope" /\ row.ciphertext.key = planner.keys.current
      /\ \A c \in DOMAIN planner.columns :
            row.indexes[c].key = planner.columns[c].keys.current
  <2>1. InspectCiphertext(row.ciphertext) # "NotCiphertext"
    BY CurrentRowNames DEF Retire
  <2>2. row.ciphertext.form = "envelope"
    BY <2>1 DEF InspectCiphertext
  <2> QED BY <2>2, CurrentRowNames DEF Retire
<1>5. ASSUME NEW c \in DOMAIN planner.columns, planner.columns[c].keys # NotConfigured
      PROVE  /\ planner'.columns[c].keys # NotConfigured
             /\ planner'.columns[c].bits = planner.columns[c].bits
             /\ row.indexes[c].key \in planner'.columns[c].keys.keys
  <2>1. planner.columns[c].keys \in IndexKeyrings
    BY <1>1, <1>5 DEF PlannersOver
  <2>2. /\ planner'.columns[c].bits = planner.columns[c].bits
        /\ planner'.columns[c].keys =
             [planner.columns[c].keys EXCEPT !.keys = {planner.columns[c].keys.current}]
    <3>1. planner.columns[c] \in [bits : 1..MaxIndexBits, keys : IndexKeyrings \cup {NotConfigured}]
      BY <1>1 DEF PlannersOver
    <3>2. planner'.columns[c] =
            [planner.columns[c] EXCEPT !.keys =
                [planner.columns[c].keys EXCEPT !.keys = {planner.columns[c].keys.current}]]
      BY <1>3
    <3> QED BY <3>1, <3>2
  <2>3. planner'.columns[c].keys \in IndexKeyrings
    BY <2>1, <2>2 DEF IndexKeyrings
  <2>4. planner'.columns[c].keys.keys = {planner.columns[c].keys.current}
    BY <2>1, <2>2 DEF IndexKeyrings
  <2> QED BY <1>4, <2>2, <2>3, <2>4, BlindIndexAssumption
<1>6. UNCHANGED <<row, written, damaged>>
  BY DEF Retire
<1>7. DOMAIN planner'.columns = DOMAIN planner.columns
  BY <1>3
<1> QED BY <1>3, <1>4, <1>5, <1>6, <1>7, ConfigurationKeepsIntact

LEMMA IntactStep == TypeOK /\ Intact /\ [Next]_vars => Intact'
<1> SUFFICES ASSUME TypeOK, Intact, [Next]_vars PROVE Intact'
  OBVIOUS
<1>1. ASSUME NEW v \in Values, Write(v) PROVE Intact'
  BY <1>1, WriteKeepsIntact
<1>2. planner \in PlannersOver(NumColumns) /\ DOMAIN planner.columns = 1..NumColumns
  BY DEF TypeOK, PlannersOver
<1>3. ASSUME ~damaged, row.ciphertext.form = "envelope"
      PROVE  /\ row.ciphertext.key \in planner.keys.keys
             /\ \A c \in DOMAIN planner.columns :
                    row.indexes[c].key \in planner.columns[c].keys.keys
  BY <1>3 DEF Intact, UnindexedRow, Open, Ok, ConsistentWith
<1>4. CASE damaged /\ ~(\E v \in Values : Write(v))
  <2>1. damaged'
    BY <1>4 DEF Next, RotateKey, RotateIndexKey, ChangePadding, Retire, Damage, Rewrite, vars
  <2> QED BY <2>1 DEF Intact
<1>5. ASSUME ~damaged, NEW k \in KeyIds, RotateKey(k) PROVE Intact'
  <2>1. planner' = [planner EXCEPT !.keys = [current |-> k, keys |-> planner.keys.keys \cup {k}]]
    BY <1>5 DEF RotateKey
  <2>2. /\ planner'.keys.keys = planner.keys.keys \cup {k} /\ planner'.columns = planner.columns
        /\ planner'.seal = planner.seal /\ planner'.kind = planner.kind
    BY <1>2, <2>1 DEF PlannersOver
  <2> QED BY <1>3, <1>5, <2>2, ConfigurationKeepsIntact DEF RotateKey
<1>6. ASSUME ~damaged, NEW c \in 1..NumColumns, NEW k \in IndexKeyIds, RotateIndexKey(c, k)
      PROVE  Intact'
  <2>1. planner' = [planner EXCEPT !.columns[c].keys =
                      [current |-> k, keys |-> planner.columns[c].keys.keys \cup {k}]]
    BY <1>6 DEF RotateIndexKey
  <2>2. /\ planner'.keys = planner.keys /\ DOMAIN planner'.columns = DOMAIN planner.columns
        /\ planner'.seal = planner.seal /\ planner'.kind = planner.kind
        /\ \A d \in DOMAIN planner.columns : planner'.columns[d].bits = planner.columns[d].bits
    BY <1>2, <2>1 DEF PlannersOver
  <2>3. \A d \in DOMAIN planner.columns :
          d # c => planner'.columns[d].keys = planner.columns[d].keys
    BY <1>2, <2>1 DEF PlannersOver
  <2>4. planner'.columns[c].keys =
          [current |-> k, keys |-> planner.columns[c].keys.keys \cup {k}]
    BY <1>2, <2>1 DEF PlannersOver
  <2>5. [current |-> k, keys |-> planner.columns[c].keys.keys \cup {k}] \in IndexKeyrings
    <3>1. planner.columns[c].keys \in IndexKeyrings
      BY <1>2, <1>6 DEF RotateIndexKey, PlannersOver
    <3> QED BY <3>1 DEF IndexKeyrings
  <2>6. planner'.columns[c].keys # NotConfigured
    BY <2>4, <2>5, BlindIndexAssumption
  <2>7. UNCHANGED <<row, written, damaged>>
    BY <1>6 DEF RotateIndexKey
  <2>8. ASSUME NEW d \in DOMAIN planner.columns, planner.columns[d].keys # NotConfigured
        PROVE  /\ planner'.columns[d].keys # NotConfigured
               /\ planner.columns[d].keys.keys \subseteq planner'.columns[d].keys.keys
    <3>1. CASE d = c
      BY <2>4, <2>6, <3>1
    <3>2. CASE d # c
      BY <2>3, <2>8, <3>2
    <3> QED BY <3>1, <3>2
  <2>9. row.ciphertext.form = "envelope" => row.ciphertext.key \in planner'.keys.keys
    BY <1>3, <1>6, <2>2
  <2> QED BY <2>2, <2>7, <2>8, <2>9, ConfigurationKeepsIntact
<1>7. ASSUME ~damaged, ChangePadding PROVE Intact'
  <2>1. planner' = [planner EXCEPT !.padding = ~planner.padding]
    BY <1>7 DEF ChangePadding
  <2>2. /\ planner'.keys = planner.keys /\ planner'.columns = planner.columns
        /\ planner'.seal = planner.seal /\ planner'.kind = planner.kind
    BY <1>2, <2>1 DEF PlannersOver
  <2> QED BY <1>3, <1>7, <2>2, ConfigurationKeepsIntact DEF ChangePadding
<1>8. ASSUME ~damaged, Retire PROVE Intact'
  BY <1>2, <1>3, <1>8, RetireKeepsIntact
<1>9. ASSUME ~damaged, Damage PROVE Intact'
  BY <1>9 DEF Damage, Intact
<1>10. ASSUME Rewrite PROVE Intact'
  BY <1>10, RewriteKeepsIntact
<1>11. CASE UNCHANGED vars
  BY <1>11 DEF vars, Intact
<1> QED BY <1>1, <1>4, <1>5, <1>6, <1>7, <1>8, <1>9, <1>10, <1>11 DEF Next

LEMMA IntactInit == Init => Intact
BY DEF Init, Intact

LEMMA IntactReads ==
    ASSUME TypeOK, Intact PROVE ValueSurvives
<1> SUFFICES ASSUME ~damaged PROVE ValueSurvives
  BY DEF ValueSurvives
<1>1. written \in Values /\ written # Undecodable
  BY EnvelopeAssumption DEF TypeOK
<1>2. CASE row = UnindexedRow(written)
  <2>1. row.ciphertext.form = "foreign" /\ row.ciphertext.payload = written
    BY <1>2 DEF UnindexedRow
  <2>2. ReadError(planner, Id, row) = Ok
    BY <1>1, <2>1 DEF ReadError, InspectCiphertext, Recover, Decode, Ok
  <2> QED BY <2>1, <2>2 DEF ValueSurvives, Reading
<1>3. CASE row # UnindexedRow(written)
  <2>1. /\ row.ciphertext.form = "envelope" /\ row.ciphertext.payload = written
        /\ Open(RowContext(planner, Id), row.ciphertext, planner.keys) = Ok
    BY <1>3 DEF Intact
  <2>2. InspectCiphertext(row.ciphertext) = Ok
    BY <2>1 DEF Open, Check, Ok
  <2>3. ReadError(planner, Id, row) = Ok
    BY <1>1, <2>1, <2>2 DEF ReadError, Decode, Ok
  <2> QED BY <1>3, <2>1, <2>3 DEF ValueSurvives, Reading, Intact
<1> QED BY <1>2, <1>3

LEMMA IntactPlans ==
    ASSUME TypeOK, Intact PROVE OnlyValuesStopRewrites
<1> DEFINE Reasons == {Ok, "PaddingOverflow", "BlindIndexNormalizationFailed",
                       "BlindIndexKeysNotConfigured"}
<1> SUFFICES ASSUME ~damaged PROVE PlanError(planner, Id, row) \in Reasons
  BY DEF OnlyValuesStopRewrites
<1>1. written \in Values /\ written # Undecodable
  BY EnvelopeAssumption DEF TypeOK
<1>2. /\ DOMAIN row.indexes = 1..NumColumns /\ DOMAIN planner.columns = 1..NumColumns
      /\ row.ciphertext.payload = written
  BY DEF TypeOK, PlannersOver, RowsOver, Intact, UnindexedRow
<1>3. ArityMatches(planner, row)
  BY <1>2 DEF ArityMatches
<1>4. FirstDerivationError(planner, row) \in Reasons
  BY DEF FirstDerivationError, DeriveError, Ok
<1>5. /\ SealError(planner.padding, row.ciphertext.payload) \in Reasons
      /\ Decode(row.ciphertext.payload) = Ok
  BY <1>1, <1>2 DEF SealError, Decode, Ok
<1>6. CASE row = UnindexedRow(written)
  <2>1. row.ciphertext.form = "foreign"
    BY <1>6 DEF UnindexedRow
  <2>2. PlanError(planner, Id, row) = LegacyPlanError(planner, row)
    BY <1>3, <2>1 DEF PlanError, InspectCiphertext
  <2>3. Recover(planner, row.ciphertext) = Ok
    BY <1>1, <1>2 DEF Recover, Ok
  <2> QED BY <1>4, <1>5, <2>2, <2>3 DEF LegacyPlanError
<1>7. CASE row # UnindexedRow(written)
  <2>1. /\ row.ciphertext.form = "envelope"
        /\ Open(RowContext(planner, Id), row.ciphertext, planner.keys) = Ok
        /\ \A c \in DOMAIN planner.columns :
             /\ planner.columns[c].keys # NotConfigured
             /\ InspectBlindIndex(row.indexes[c]) = Ok
    BY <1>7 DEF Intact, ConsistentWith
  <2>2. InspectCiphertext(row.ciphertext) = Ok /\ EnvelopeError(planner, Id, row) = Ok
    BY <2>1 DEF Open, Check, EnvelopeError, Ok
  <2>3. BrokenColumns(planner, row) = {}
    BY <2>1 DEF BrokenColumns, ColumnError
  <2>4. PlanError(planner, Id, row) = EnvelopePlanError(planner, Id, row)
    BY <1>3, <2>2 DEF PlanError, Ok
  <2> QED BY <1>4, <1>5, <2>1, <2>2, <2>3, <2>4 DEF EnvelopePlanError
<1> QED BY <1>6, <1>7

LEMMA InductiveInvariant == Spec => [](TypeOK /\ Intact)
<1>1. Init => TypeOK /\ Intact
  BY InitType, IntactInit
<1>2. (TypeOK /\ Intact) /\ [Next]_vars => (TypeOK /\ Intact)'
  BY NextType, IntactStep
<1> QED BY <1>1, <1>2, PTL DEF Spec

-----------------------------------------------------------------------------
(* The theorems.                                                           *)

(* Every step keeps the types of the row and of its configuration.         *)
THEOREM LifecycleTypeCorrect == Spec => []TypeOK
BY InductiveInvariant, PTL

(* No order of writes, rotations of either key, policy changes, rewrites   *)
(* and retirements loses an undamaged row's value or its indexes.          *)
THEOREM ValueIsKept == Spec => []ValueSurvives
<1>1. TypeOK /\ Intact => ValueSurvives
  BY IntactReads
<1> QED BY <1>1, InductiveInvariant, PTL

(* Nothing but the value itself, or a column without keys, keeps an        *)
(* undamaged row from being rewritten.                                     *)
THEOREM RewritesAreRefusedForTheValue == Spec => []OnlyValuesStopRewrites
<1>1. TypeOK /\ Intact => OnlyValuesStopRewrites
  BY IntactPlans
<1> QED BY <1>1, InductiveInvariant, PTL

(* classify_row and plan_row agree on every row of any field, whatever was *)
(* done to its bytes.                                                      *)
THEOREM VerifyAndSweepAgree == Spec => []ClassifyAgreesWithPlan
<1>1. TypeOK => ClassifyAgreesWithPlan
  BY ClassifyAgrees, RowLifecycleAssumption DEF TypeOK, ClassifyAgreesWithPlan
<1> QED BY <1>1, LifecycleTypeCorrect, PTL

(* One rewrite makes any row Current.                                      *)
THEOREM OneRewriteSuffices == Spec => RewriteConverges
<1>1. TypeOK /\ [Next]_vars => [Rewrite => Classify(planner, Id, row)' = "Current"]_vars
  <2> SUFFICES ASSUME TypeOK, Rewrite PROVE Classify(planner, Id, row)' = "Current"
    OBVIOUS
  <2>1. row' = Replacement(planner, Id, row, 0) /\ planner' = planner
    BY DEF Rewrite
  <2>2. Classify(planner, Id, Replacement(planner, Id, row, 0)) = "Current"
    BY ReplacementIsCurrent, RowLifecycleAssumption DEF TypeOK, Rewrite
  <2> QED BY <2>1, <2>2
<1> QED BY <1>1, LifecycleTypeCorrect, PTL DEF Spec, RewriteConverges

(* No rewrite changes what an application reads, a value or an error.      *)
THEOREM RewriteKeepsReadings == Spec => RewriteKeepsReading
<1>1. TypeOK /\ [Next]_vars =>
        [Rewrite => Reading(planner, Id, row)' = Reading(planner, Id, row)]_vars
  <2> SUFFICES ASSUME TypeOK, Rewrite
               PROVE  Reading(planner, Id, row)' = Reading(planner, Id, row)
    OBVIOUS
  <2>1. row' = Replacement(planner, Id, row, 0) /\ planner' = planner
    BY DEF Rewrite
  <2>2. Reading(planner, Id, Replacement(planner, Id, row, 0)) = Reading(planner, Id, row)
    BY ReplacementKeepsReading, RowLifecycleAssumption DEF TypeOK, Rewrite
  <2> QED BY <2>1, <2>2
<1> QED BY <1>1, LifecycleTypeCorrect, PTL DEF Spec, RewriteKeepsReading
=============================================================================
