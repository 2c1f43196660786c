-------------------------- MODULE RowPlannerProofs --------------------------
(***************************************************************************)
(* What classify_row and plan_row (src/migrate/row.rs) guarantee for every *)
(* planner and every stored row, damaged ones included.  RowLifecycle      *)
(* checks the same facts on a small instance; Sweep's theorems rest on     *)
(* them.                                                                   *)
(***************************************************************************)
EXTENDS RowPlanner, WellFoundedInduction, TLAPS

(* Columns are numbered from one, so a nonempty set of them has a first.   *)
LEMMA FirstOfColumns ==
    ASSUME NEW n \in Nat, NEW C \in SUBSET (1..n), C # {}
    PROVE  FirstOf(C) \in C /\ \A d \in C : FirstOf(C) <= d
<1>1. IsWellFoundedOn(OpToRel(<, Nat), Nat)
  BY NatLessThanWellFounded
<1>2. PICK x \in C : \A y \in C : ~(<<y, x>> \in OpToRel(<, Nat))
  <2>1. C \subseteq Nat
    OBVIOUS
  <2> QED BY <1>1, <2>1, WFMin
<1>3. \A y \in C : x <= y
  <2> SUFFICES ASSUME NEW y \in C PROVE x <= y
    OBVIOUS
  <2>1. x \in Nat /\ y \in Nat
    OBVIOUS
  <2>2. ~(y < x)
    BY <1>2, <2>1 DEF OpToRel
  <2> QED BY <2>1, <2>2
<1> QED BY <1>2, <1>3 DEF FirstOf

-----------------------------------------------------------------------------
(* Fresh envelopes and fresh indexes.                                      *)

LEMMA SealIsCurrent ==
    ASSUME NEW n \in Nat, NEW p \in PlannersOver(n), NEW id \in Int,
           NEW payload \in Payloads, NEW nonce \in Nat,
           NEW e, e = Seal(RowContext(p, id), p.padding, payload, p.keys, nonce)
    PROVE  /\ InspectCiphertext(e) = Ok
           /\ Check(Fingerprint(RowContext(p, id)), e) = Ok
           /\ ~NeedsReseal(p.padding, e, p.keys)
BY DEF Seal, InspectCiphertext, Check, NeedsReseal, Padded, Ok, FormatVersion,
       SupportedSuites, ActiveSuite, PlannersOver

LEMMA SealOpens ==
    ASSUME NEW n \in Nat, NEW p \in PlannersOver(n), NEW id \in Int,
           NEW payload \in Payloads \ {Unpaddable}, NEW nonce \in Nat,
           NEW e, e = Seal(RowContext(p, id), p.padding, payload, p.keys, nonce)
    PROVE  Open(RowContext(p, id), e, p.keys) = Ok
<1>1. Check(Fingerprint(RowContext(p, id)), e) = Ok
  BY SealIsCurrent
<1>2. e.key \in p.keys.keys
  BY DEF Seal, PlannersOver, Keyrings
<1>3. Authenticates(RowContext(p, id), e)
  BY DEF Seal, Authenticates
<1>4. e.payload # Unpaddable
  BY DEF Seal
<1> QED BY <1>1, <1>2, <1>3, <1>4 DEF Open

LEMMA SealType ==
    ASSUME NEW n \in Nat, NEW p \in PlannersOver(n), NEW id \in Int,
           NEW payload \in Payloads \ {Unpaddable}, NEW nonce \in Nat
    PROVE  Seal(RowContext(p, id), p.padding, payload, p.keys, nonce) \in Ciphertexts
<1> DEFINE e == Seal(RowContext(p, id), p.padding, payload, p.keys, nonce)
<1>1. RowContext(p, id) \in Contexts
  BY DEF RowContext, SealContext, Contexts, PlannersOver
<1>2. e.payload # Unpaddable
  BY DEF Seal
<1>3. p.keys.current \in KeyIds /\ p.padding \in BOOLEAN
  BY DEF PlannersOver, Keyrings
<1>4. RowContext(p, id).kind \in RecordKinds
  BY <1>1 DEF Contexts
<1>5. e \in [form : {"envelope"}, extent : {"magic", "version", "header", "whole"},
            version : Nat, suite : Nat, flags : SUBSET Flags, key : KeyIds,
            fingerprint : RecordKinds, context : Contexts, payload : Payloads,
            authentic : BOOLEAN, nonce : Nat]
  BY <1>1, <1>3, <1>4 DEF Seal, Flags, FormatVersion, ActiveSuite, Fingerprint
<1> QED BY <1>2, <1>5 DEF Envelopes, Ciphertexts

(* Index columns hold the digest of a value, or the empty bytes.           *)
LEMMA DigestType ==
    ASSUME NEW v \in Values, NEW k \in IndexKeyIds
    PROVE  Digest[k][NormalForm[v]] \in Digests
BY BlindIndexAssumption

LEMMA MissingIndexType == MissingIndex \in Indexes
<1>1. (CHOOSE k \in IndexKeyIds : TRUE) \in IndexKeyIds
  BY BlindIndexAssumption
<1>2. (CHOOSE d \in Digests : TRUE) \in Digests
  BY BlindIndexAssumption
<1> QED BY <1>1, <1>2 DEF MissingIndex, Indexes

LEMMA DerivedIsCurrent ==
    ASSUME NEW n \in Nat, NEW p \in PlannersOver(n), NEW c \in 1..n, NEW row, NEW v \in Values,
           DeriveError(v, p.columns[c].keys) = Ok,
           row.indexes[c] = Derive(v, p.columns[c].bits, p.columns[c].keys)
    PROVE  /\ ColumnError(p, row, c) = Ok
           /\ ~ColumnStale(p, row, c)
           /\ row.indexes[c] \in Indexes
<1>1. p.columns[c].keys # NotConfigured
  BY DEF DeriveError, Ok
<1>2. p.columns[c].bits \in 1..MaxIndexBits
  BY DEF PlannersOver
<1>3. p.columns[c].keys \in IndexKeyrings
  BY <1>1 DEF PlannersOver
<1>4. p.columns[c].keys.current \in IndexKeyIds
  BY <1>3 DEF IndexKeyrings
<1>5. Digest[p.columns[c].keys.current][NormalForm[v]] \in Digests
  BY <1>4, DigestType
<1> DEFINE bytes == IndexOf(v, p.columns[c].bits, p.columns[c].keys.current)
<1>6. /\ bytes.extent = "exact" /\ bytes.version = IndexFormatVersion /\ bytes.canonical
      /\ bytes.bits = p.columns[c].bits /\ bytes.key = p.columns[c].keys.current
  BY DEF IndexOf
<1>7. bytes \in Indexes
  <2> DEFINE bits == p.columns[c].bits
             key == p.columns[c].keys.current
             digest == Digest[key][NormalForm[v]]
  <2>1. bits \in Nat /\ IndexFormatVersion \in Nat /\ key \in IndexKeyIds /\ digest \in Digests
    BY <1>2, <1>4, <1>5 DEF IndexFormatVersion, MaxIndexBits
  <2>2. bytes = [extent |-> "exact", version |-> IndexFormatVersion, bits |-> bits,
                 canonical |-> TRUE, key |-> key, digest |-> digest]
    BY DEF IndexOf
  <2> HIDE DEF bytes, bits, key, digest
  <2> QED
    BY <2>1, <2>2 DEF Indexes
<1>8. row.indexes[c] = bytes
  BY DEF Derive
<1> HIDE DEF bytes
<1>9. InspectBlindIndex(bytes) = Ok
  BY <1>2, <1>6 DEF InspectBlindIndex
<1> QED
  BY <1>1, <1>6, <1>7, <1>8, <1>9 DEF ColumnError, ColumnStale

-----------------------------------------------------------------------------
(* Columns: no error found means no column has one.                        *)

LEMMA NoBrokenColumns ==
    ASSUME NEW n \in Nat, NEW p \in PlannersOver(n), NEW row, BrokenColumns(p, row) # {}
    PROVE  /\ FirstOf(BrokenColumns(p, row)) \in BrokenColumns(p, row)
           /\ ColumnError(p, row, FirstOf(BrokenColumns(p, row))) # Ok
<1>1. BrokenColumns(p, row) \subseteq 1..n
  BY DEF BrokenColumns, PlannersOver
<1> QED BY <1>1, FirstOfColumns DEF BrokenColumns

LEMMA NoDerivationErrors ==
    ASSUME NEW n \in Nat, NEW p \in PlannersOver(n), NEW row,
           FirstDerivationError(p, row) = Ok
    PROVE  \A c \in RederivedColumns(p, row) :
              DeriveError(row.ciphertext.payload, p.columns[c].keys) = Ok
<1>1. DerivationErrors(p, row) \subseteq 1..n
  BY DEF DerivationErrors, RederivedColumns, StaleColumns, PlannersOver
<1>2. ASSUME DerivationErrors(p, row) # {} PROVE FALSE
  <2>1. FirstOf(DerivationErrors(p, row)) \in DerivationErrors(p, row)
    BY <1>1, <1>2, FirstOfColumns
  <2> QED BY <1>2, <2>1 DEF FirstDerivationError, DerivationErrors
<1> QED BY <1>2 DEF DerivationErrors

-----------------------------------------------------------------------------
(* What a successful plan found out about the row it rewrites.             *)

LEMMA EnvelopePlanOk ==
    ASSUME NEW n \in Nat, NEW p \in PlannersOver(n), NEW id \in Int, NEW row \in RowsOver(n),
           row.ciphertext.form = "envelope", PlanError(p, id, row) = Ok
    PROVE  /\ InspectCiphertext(row.ciphertext) = Ok
           /\ EnvelopeError(p, id, row) = Ok
           /\ BrokenColumns(p, row) = {}
           /\ PlanState(p, row) # "Current" =>
                /\ Open(RowContext(p, id), row.ciphertext, p.keys) = Ok
                /\ StaleColumns(p, row) # {} =>
                     /\ Decode(row.ciphertext.payload) = Ok
                     /\ FirstDerivationError(p, row) = Ok
<1>1. InspectCiphertext(row.ciphertext) # "NotCiphertext"
  BY DEF InspectCiphertext, Ok
<1>2. EnvelopePlanError(p, id, row) = Ok
  BY <1>1 DEF PlanError, Ok
<1>3. EnvelopeError(p, id, row) = Ok
  BY <1>2 DEF EnvelopePlanError
<1>4. InspectCiphertext(row.ciphertext) = Ok
  BY <1>3 DEF EnvelopeError, Check
<1>5. BrokenColumns(p, row) = {}
  BY <1>2, <1>3, NoBrokenColumns DEF EnvelopePlanError
<1>6. ASSUME PlanState(p, row) # "Current"
      PROVE  ~(~EnvelopeStale(p, row) /\ StaleColumns(p, row) = {})
  BY <1>6 DEF PlanState
<1> QED BY <1>2, <1>3, <1>4, <1>5, <1>6 DEF EnvelopePlanError

LEMMA LegacyPlanOk ==
    ASSUME NEW n \in Nat, NEW p \in PlannersOver(n), NEW id \in Int, NEW row \in RowsOver(n),
           row.ciphertext.form # "envelope", PlanError(p, id, row) = Ok
    PROVE  /\ InspectCiphertext(row.ciphertext) = "NotCiphertext"
           /\ Recover(p, row.ciphertext) = Ok
           /\ Decode(row.ciphertext.payload) = Ok
           /\ FirstDerivationError(p, row) = Ok
<1>1. InspectCiphertext(row.ciphertext) = "NotCiphertext"
  BY DEF InspectCiphertext
<1>2. LegacyPlanError(p, row) = Ok
  BY <1>1 DEF PlanError, Ok
<1> QED BY <1>1, <1>2 DEF LegacyPlanError

LEMMA DecodedIsValue ==
    ASSUME NEW payload, Decode(payload) = Ok PROVE payload \in Values
BY DEF Decode, Ok

LEMMA OpenedIsPayload ==
    ASSUME NEW n \in Nat, NEW p \in PlannersOver(n), NEW id \in Int, NEW e \in Ciphertexts,
           e.form = "envelope", Open(RowContext(p, id), e, p.keys) = Ok
    PROVE  e.payload \in Payloads \ {Unpaddable}
<1>1. e \in Envelopes
  BY DEF Ciphertexts, ForeignBytes, NullColumn
<1>2. ~(Padded(e) /\ e.payload = Unpaddable)
  BY DEF Open, Ok
<1> QED BY <1>1, <1>2 DEF Envelopes, Padded

(* The rederived columns of a successful plan, one by one.                 *)
LEMMA RederivedIsCurrent ==
    ASSUME NEW n \in Nat, NEW p \in PlannersOver(n), NEW id \in Int, NEW row \in RowsOver(n),
           NEW nonce, PlanError(p, id, row) = Ok, PlanState(p, row) # "Current",
           NEW c \in 1..n, NEW r, r = Replacement(p, id, row, nonce)
    PROVE  /\ ColumnError(p, r, c) = Ok
           /\ ~ColumnStale(p, r, c)
           /\ r.indexes[c] \in Indexes
<1>1. DOMAIN p.columns = 1..n /\ row.indexes \in [1..n -> Indexes]
  BY DEF PlannersOver, RowsOver
<1>2. CASE c \in RederivedColumns(p, row)
  <2>1. r.indexes[c] = Derive(row.ciphertext.payload, p.columns[c].bits, p.columns[c].keys)
    BY <1>1, <1>2 DEF Replacement
  <2>2. Decode(row.ciphertext.payload) = Ok /\ FirstDerivationError(p, row) = Ok
    <3>1. CASE row.ciphertext.form = "envelope"
      <4>1. StaleColumns(p, row) # {}
        BY <1>2, <3>1 DEF RederivedColumns
      <4> QED BY <3>1, <4>1, EnvelopePlanOk
    <3>2. CASE row.ciphertext.form # "envelope"
      BY <3>2, LegacyPlanOk
    <3> QED BY <3>1, <3>2
  <2>3. DeriveError(row.ciphertext.payload, p.columns[c].keys) = Ok
    BY <1>2, <2>2, NoDerivationErrors
  <2>4. row.ciphertext.payload \in Values
    BY <2>2, DecodedIsValue
  <2> QED BY <2>1, <2>3, <2>4, DerivedIsCurrent
<1>3. CASE c \notin RederivedColumns(p, row)
  <2>1. row.ciphertext.form = "envelope" /\ c \notin StaleColumns(p, row)
    BY <1>1, <1>3 DEF RederivedColumns
  <2>2. r.indexes[c] = row.indexes[c]
    BY <1>1, <1>3 DEF Replacement
  <2>3. BrokenColumns(p, row) = {}
    BY <2>1, EnvelopePlanOk
  <2>4. ColumnError(p, row, c) = Ok
    BY <1>1, <2>3 DEF BrokenColumns
  <2>5. ~ColumnStale(p, row, c)
    BY <1>1, <2>1, <2>4 DEF StaleColumns
  <2> QED BY <1>1, <2>2, <2>4, <2>5 DEF ColumnError, ColumnStale
<1> QED BY <1>2, <1>3

(* The replacement's envelope, kept or sealed afresh.                      *)
LEMMA ReplacementEnvelope ==
    ASSUME NEW n \in Nat, NEW p \in PlannersOver(n), NEW id \in Int, NEW row \in RowsOver(n),
           NEW nonce \in Nat, PlanError(p, id, row) = Ok, PlanState(p, row) # "Current",
           NEW e, e = Replacement(p, id, row, nonce).ciphertext
    PROVE  /\ e \in Ciphertexts /\ e.form = "envelope"
           /\ InspectCiphertext(e) = Ok
           /\ Check(Fingerprint(RowContext(p, id)), e) = Ok
           /\ ~NeedsReseal(p.padding, e, p.keys)
           /\ Open(RowContext(p, id), e, p.keys) = Ok
           /\ e.payload = row.ciphertext.payload
<1>1. CASE row.ciphertext.form = "envelope" /\ ~EnvelopeStale(p, row)
  <2>1. e = row.ciphertext /\ e \in Ciphertexts
    BY <1>1 DEF Replacement, RowsOver
  <2> QED BY <1>1, <2>1, EnvelopePlanOk DEF EnvelopeStale, EnvelopeError
<1>2. CASE ~(row.ciphertext.form = "envelope" /\ ~EnvelopeStale(p, row))
  <2>1. e = Seal(RowContext(p, id), p.padding, row.ciphertext.payload, p.keys, nonce)
    BY <1>2 DEF Replacement
  <2>2. row.ciphertext \in Ciphertexts
    BY DEF RowsOver
  <2>3. row.ciphertext.payload \in Payloads \ {Unpaddable}
    <3>1. CASE row.ciphertext.form = "envelope"
      BY <2>2, <3>1, EnvelopePlanOk, OpenedIsPayload
    <3>2. CASE row.ciphertext.form # "envelope"
      <4>1. row.ciphertext.payload \in Values
        BY <3>2, LegacyPlanOk, DecodedIsValue
      <4> QED BY <4>1, EnvelopeAssumption DEF Payloads
    <3> QED BY <3>1, <3>2
  <2>4. e.form = "envelope" /\ e.payload = row.ciphertext.payload
    BY <2>1 DEF Seal
  <2> QED BY <2>1, <2>3, <2>4, SealIsCurrent, SealOpens, SealType
<1> QED BY <1>1, <1>2

-----------------------------------------------------------------------------
(* Theorems.                                                               *)

(* A replacement is a row of the same table.                               *)
THEOREM ReplacementType ==
    ASSUME NEW n \in Nat, NEW p \in PlannersOver(n), NEW id \in Int, NEW row \in RowsOver(n),
           NEW nonce \in Nat, PlanError(p, id, row) = Ok, PlanState(p, row) # "Current"
    PROVE  Replacement(p, id, row, nonce) \in RowsOver(n)
<1> DEFINE r == Replacement(p, id, row, nonce)
<1>1. r.ciphertext \in Ciphertexts
  BY ReplacementEnvelope
<1>2. \A c \in 1..n : r.indexes[c] \in Indexes
  BY RederivedIsCurrent
<1>3. DOMAIN p.columns = 1..n
  BY DEF PlannersOver
<1>4. r = [ciphertext |-> r.ciphertext, indexes |-> [c \in 1..n |-> r.indexes[c]]]
  BY <1>3 DEF Replacement
<1> QED BY <1>1, <1>2, <1>4 DEF RowsOver

(* Whatever plan_row writes, classify_row calls Current: a rewritten row   *)
(* is never rewritten again under the same configuration.                  *)
THEOREM ReplacementIsCurrent ==
    ASSUME NEW n \in Nat, NEW p \in PlannersOver(n), NEW id \in Int, NEW row \in RowsOver(n),
           NEW nonce \in Nat, PlanError(p, id, row) = Ok, PlanState(p, row) # "Current"
    PROVE  Classify(p, id, Replacement(p, id, row, nonce)) = "Current"
<1> DEFINE r == Replacement(p, id, row, nonce)
<1>1. ArityMatches(p, r)
  BY DEF ArityMatches, Replacement
<1>2. InspectCiphertext(r.ciphertext) = Ok /\ EnvelopeError(p, id, r) = Ok
  BY ReplacementEnvelope DEF EnvelopeError
<1>3. ~EnvelopeStale(p, r)
  BY ReplacementEnvelope DEF EnvelopeStale
<1>4. \A c \in DOMAIN p.columns : ColumnError(p, r, c) = Ok /\ ~ColumnStale(p, r, c)
  BY RederivedIsCurrent DEF PlannersOver
<1>5. BrokenColumns(p, r) \cup StaleColumns(p, r) = {}
  BY <1>4 DEF BrokenColumns, StaleColumns
<1> QED BY <1>1, <1>2, <1>3, <1>5 DEF Classify, Ok

(* A rewrite changes no reading: the same value, or the same error.        *)
THEOREM ReplacementKeepsReading ==
    ASSUME NEW n \in Nat, NEW p \in PlannersOver(n), NEW id \in Int, NEW row \in RowsOver(n),
           NEW nonce \in Nat, PlanError(p, id, row) = Ok, PlanState(p, row) # "Current"
    PROVE  Reading(p, id, Replacement(p, id, row, nonce)) = Reading(p, id, row)
<1> DEFINE r == Replacement(p, id, row, nonce)
<1>1. r.ciphertext.payload = row.ciphertext.payload
  BY ReplacementEnvelope
<1>2. ReadError(p, id, r) = Decode(row.ciphertext.payload)
  BY ReplacementEnvelope DEF ReadError, Ok
<1>3. ReadError(p, id, row) = Decode(row.ciphertext.payload)
  <2>1. CASE row.ciphertext.form = "envelope"
    BY <2>1, EnvelopePlanOk DEF ReadError, Ok
  <2>2. CASE row.ciphertext.form # "envelope"
    BY <2>2, LegacyPlanOk DEF ReadError
  <2> QED BY <2>1, <2>2
<1> QED BY <1>1, <1>2, <1>3 DEF Reading

(* A Current row names current keys only, in every component.              *)
LEMMA CurrentRowNames ==
    ASSUME NEW p, NEW id, NEW row, Classify(p, id, row) = "Current"
    PROVE  /\ row.ciphertext.key = p.keys.current
           /\ InspectCiphertext(row.ciphertext) # "NotCiphertext"
           /\ \A c \in DOMAIN p.columns :
                /\ InspectBlindIndex(row.indexes[c]) = Ok
                /\ p.columns[c].keys # NotConfigured
                /\ row.indexes[c].key = p.columns[c].keys.current
<1>1. /\ InspectCiphertext(row.ciphertext) # "NotCiphertext"
      /\ ~EnvelopeStale(p, row)
      /\ BrokenColumns(p, row) \cup StaleColumns(p, row) = {}
  <2>1. EnvelopeError(p, id, row) # "Current"
    BY DEF EnvelopeError, Check, InspectCiphertext, Ok
  <2>2. \A c : ColumnError(p, row, c) # "Current"
    BY DEF ColumnError, InspectBlindIndex, Ok
  <2> QED BY <2>1, <2>2 DEF Classify
<1>2. row.ciphertext.key = p.keys.current
  BY <1>1 DEF EnvelopeStale, NeedsReseal
<1>3. ASSUME NEW c \in DOMAIN p.columns
      PROVE  /\ InspectBlindIndex(row.indexes[c]) = Ok
             /\ p.columns[c].keys # NotConfigured
             /\ row.indexes[c].key = p.columns[c].keys.current
  <2>1. ColumnError(p, row, c) = Ok /\ ~ColumnStale(p, row, c)
    BY <1>1 DEF BrokenColumns, StaleColumns
  <2>2. InspectBlindIndex(row.indexes[c]) = Ok
    BY <2>1 DEF ColumnError
  <2>3. p.columns[c].keys # NotConfigured
    BY <2>1, <2>2 DEF ColumnError, Ok
  <2> QED BY <2>1, <2>2, <2>3 DEF ColumnStale
<1> QED BY <1>1, <1>2, <1>3

(* Verification and sweep agree on every row: what one reports as a state  *)
(* is the state the other plans, and a row that verification cannot        *)
(* classify stops a run with the very same error, although classify_row    *)
(* inspects columns lazily and plan_row inspects them all.                 *)
THEOREM ClassifyAgrees ==
    ASSUME NEW n \in Nat, NEW p \in PlannersOver(n), NEW id \in Int, NEW row \in RowsOver(n)
    PROVE  /\ Classify(p, id, row) \notin RowStates => PlanError(p, id, row) = Classify(p, id, row)
           /\ PlanError(p, id, row) = Ok => Classify(p, id, row) = PlanState(p, row)
           /\ Classify(p, id, row) = "Current" => PlanError(p, id, row) = Ok
<1> DEFINE broken == BrokenColumns(p, row)
           stale == StaleColumns(p, row)
           stops == broken \cup stale
<1>1. ArityMatches(p, row)
  BY DEF ArityMatches, PlannersOver, RowsOver
<1>2. CASE row.ciphertext.form # "envelope"
  <2>1. InspectCiphertext(row.ciphertext) = "NotCiphertext"
    BY <1>2 DEF InspectCiphertext
  <2>2. Classify(p, id, row) = "Legacy" /\ PlanState(p, row) = "Legacy"
    BY <1>1, <1>2, <2>1 DEF Classify, PlanState
  <2> QED BY <2>2 DEF RowStates
<1>3. CASE row.ciphertext.form = "envelope"
  <2>1. InspectCiphertext(row.ciphertext) # "NotCiphertext"
    BY <1>3 DEF InspectCiphertext, Ok
  <2>2. PlanError(p, id, row) = EnvelopePlanError(p, id, row)
    BY <1>1, <2>1 DEF PlanError
  <2>3. CASE EnvelopeError(p, id, row) # Ok
    <3>1. EnvelopeError(p, id, row) \notin RowStates
      BY DEF EnvelopeError, Check, InspectCiphertext, RowStates, Ok
    <3> QED BY <1>1, <2>1, <2>2, <2>3, <3>1 DEF Classify, EnvelopePlanError, RowStates
  <2>4. CASE EnvelopeError(p, id, row) = Ok /\ EnvelopeStale(p, row)
    <3>1. Classify(p, id, row) = "Stale" /\ PlanState(p, row) = "Stale"
      BY <1>1, <1>3, <2>1, <2>4 DEF Classify, PlanState
    <3> QED BY <3>1 DEF RowStates
  <2>5. CASE EnvelopeError(p, id, row) = Ok /\ ~EnvelopeStale(p, row) /\ stops = {}
    <3>1. Classify(p, id, row) = "Current" /\ PlanState(p, row) = "Current"
      BY <1>1, <1>3, <2>1, <2>5 DEF Classify, PlanState
    <3>2. PlanError(p, id, row) = Ok
      BY <2>2, <2>5 DEF EnvelopePlanError
    <3> QED BY <3>1, <3>2 DEF RowStates
  <2>6. CASE EnvelopeError(p, id, row) = Ok /\ ~EnvelopeStale(p, row) /\ stops # {}
    <3>1. stops \subseteq 1..n /\ broken \subseteq 1..n
      BY DEF BrokenColumns, StaleColumns, PlannersOver
    <3>2. FirstOf(stops) \in stops /\ \A d \in stops : FirstOf(stops) <= d
      BY <2>6, <3>1, FirstOfColumns
    <3>3. CASE FirstOf(stops) \in broken
      <4>1. FirstOf(broken) \in broken /\ \A d \in broken : FirstOf(broken) <= d
        BY <3>1, <3>3, FirstOfColumns
      <4>2. FirstOf(broken) = FirstOf(stops)
        <5>1. FirstOf(broken) <= FirstOf(stops) /\ FirstOf(stops) <= FirstOf(broken)
          BY <3>2, <3>3, <4>1
        <5>2. FirstOf(broken) \in 1..n /\ FirstOf(stops) \in 1..n
          BY <3>1, <3>3, <4>1
        <5> QED BY <5>1, <5>2
      <4>3. Classify(p, id, row) = ColumnError(p, row, FirstOf(broken))
        BY <1>1, <2>1, <2>6, <3>3, <4>2 DEF Classify
      <4>4. PlanError(p, id, row) = ColumnError(p, row, FirstOf(broken))
        BY <2>2, <2>6, <3>3 DEF EnvelopePlanError
      <4>5. ColumnError(p, row, FirstOf(broken)) \notin RowStates \cup {Ok}
        <5>1. ColumnError(p, row, FirstOf(broken)) # Ok
          BY <4>1 DEF BrokenColumns
        <5> QED BY <5>1 DEF ColumnError, InspectBlindIndex, RowStates, Ok
      <4> QED BY <4>3, <4>4, <4>5 DEF RowStates
    <3>4. CASE FirstOf(stops) \notin broken
      <4>1. stale # {}
        BY <3>2, <3>4
      <4>2. Classify(p, id, row) = "Stale" /\ PlanState(p, row) = "Stale"
        BY <1>1, <1>3, <2>1, <2>6, <3>4, <4>1 DEF Classify, PlanState
      <4> QED BY <4>2 DEF RowStates
    <3> QED BY <3>3, <3>4
  <2> QED BY <2>3, <2>4, <2>5, <2>6
<1> QED BY <1>2, <1>3
=============================================================================
