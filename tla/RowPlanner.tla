----------------------------- MODULE RowPlanner -----------------------------
(***************************************************************************)
(* The per-row rules of a maintenance sweep: src/migrate/row.rs, with      *)
(* src/migrate/legacy.rs and the transitional reads of                     *)
(* src/migrate/read.rs.                                                    *)
(*                                                                         *)
(* A planner is a record of its configuration, a row a record of the bytes *)
(* read from its columns.  classify_row and plan_row are pure, so each is  *)
(* an operator; an outcome is a state or the name of the error returned.   *)
(***************************************************************************)
EXTENDS BlindIndex

(* RowPlanner::new / for_rows, with_legacy and with_index.  "columns" maps *)
(* each registered index column, in order, to its precision and keyring.   *)
PlannersOver(n) ==
    [keys : Keyrings, seal : Seals, kind : RecordKinds, padding : BOOLEAN,
     handler : BOOLEAN,
     columns : [1..n -> [bits : 1..MaxIndexBits, keys : IndexKeyrings \cup {NotConfigured}]]]

RowsOver(n) == [ciphertext : Ciphertexts, indexes : [1..n -> Indexes]]

RowContext(p, id) == SealContext(p.seal, p.kind, id)

(* legacy::recover: a handler refuses bytes it does not know; without one  *)
(* the bytes are the plaintext.                                            *)
Recover(p, bytes) ==
    IF p.handler /\ bytes.payload = Undecodable THEN "LegacyRecoveryFailed" ELSE Ok

-----------------------------------------------------------------------------
(* What is asked of the row's columns.                                     *)

ArityMatches(p, row) == DOMAIN row.indexes = DOMAIN p.columns

(* IndexColumn::is_stale fails on malformed bytes first, then for want of  *)
(* a keyring.                                                              *)
ColumnError(p, row, c) ==
    IF InspectBlindIndex(row.indexes[c]) # Ok THEN InspectBlindIndex(row.indexes[c])
    ELSE IF p.columns[c].keys = NotConfigured THEN "BlindIndexKeysNotConfigured"
    ELSE Ok

ColumnStale(p, row, c) == row.indexes[c].key # p.columns[c].keys.current

FirstOf(C) == CHOOSE c \in C : \A d \in C : c <= d

BrokenColumns(p, row) == {c \in DOMAIN p.columns : ColumnError(p, row, c) # Ok}

StaleColumns(p, row) ==
    {c \in DOMAIN p.columns : ColumnError(p, row, c) = Ok /\ ColumnStale(p, row, c)}

EnvelopeStale(p, row) == NeedsReseal(p.padding, row.ciphertext, p.keys)

EnvelopeError(p, id, row) == Check(Fingerprint(RowContext(p, id)), row.ciphertext)

-----------------------------------------------------------------------------
(* Fault: a column that cannot be inspected is passed over.                *)
ClassifySkippingBroken(p, id, row) ==
    IF ~ArityMatches(p, row) THEN "IndexColumnMismatch"
    ELSE IF InspectCiphertext(row.ciphertext) = "NotCiphertext" THEN "Legacy"
    ELSE IF EnvelopeError(p, id, row) # Ok THEN EnvelopeError(p, id, row)
    ELSE IF EnvelopeStale(p, row) \/ StaleColumns(p, row) # {} THEN "Stale"
    ELSE "Current"

(* Fault: a row is judged by its envelope alone.                           *)
ClassifyEnvelopeOnly(p, id, row) ==
    IF ~ArityMatches(p, row) THEN "IndexColumnMismatch"
    ELSE IF InspectCiphertext(row.ciphertext) = "NotCiphertext" THEN "Legacy"
    ELSE IF EnvelopeError(p, id, row) # Ok THEN EnvelopeError(p, id, row)
    ELSE IF EnvelopeStale(p, row) THEN "Stale"
    ELSE "Current"

(* classify_row stops at the first column that is broken or stale, so a    *)
(* broken column behind a stale component goes unreported.                 *)
Classify(p, id, row) ==
    LET stops == BrokenColumns(p, row) \cup StaleColumns(p, row) IN
    IF ~ArityMatches(p, row) THEN "IndexColumnMismatch"
    ELSE IF InspectCiphertext(row.ciphertext) = "NotCiphertext" THEN "Legacy"
    ELSE IF EnvelopeError(p, id, row) # Ok THEN EnvelopeError(p, id, row)
    ELSE IF EnvelopeStale(p, row) THEN "Stale"
    ELSE IF stops = {} THEN "Current"
    ELSE IF FirstOf(stops) \in BrokenColumns(p, row)
         THEN ColumnError(p, row, FirstOf(stops))
         ELSE "Stale"

RowStates == {"Current", "Stale", "Legacy"}

-----------------------------------------------------------------------------
(* plan_row.  Every column is inspected before anything is rewritten.      *)

(* Fault: a legacy row keeps what its index columns hold.                  *)
RederivedIfStale(p, row) ==
    IF row.ciphertext.form = "envelope" THEN StaleColumns(p, row) ELSE {}

(* The columns whose index a plan derives afresh.                          *)
RederivedColumns(p, row) ==
    IF row.ciphertext.form = "envelope" THEN StaleColumns(p, row) ELSE DOMAIN p.columns

DerivationErrors(p, row) ==
    {c \in RederivedColumns(p, row) :
        DeriveError(row.ciphertext.payload, p.columns[c].keys) # Ok}

FirstDerivationError(p, row) ==
    IF DerivationErrors(p, row) = {} THEN Ok
    ELSE DeriveError(row.ciphertext.payload,
                     p.columns[FirstOf(DerivationErrors(p, row))].keys)

LegacyPlanError(p, row) ==
    IF Recover(p, row.ciphertext) # Ok THEN Recover(p, row.ciphertext)
    ELSE IF Decode(row.ciphertext.payload) # Ok THEN Decode(row.ciphertext.payload)
    ELSE IF SealError(p.padding, row.ciphertext.payload) # Ok
         THEN SealError(p.padding, row.ciphertext.payload)
    ELSE FirstDerivationError(p, row)

(* Fault: the planner reseals what it never authenticated.                 *)
EnvelopePlanErrorUnopened(p, id, row) ==
    IF EnvelopeError(p, id, row) # Ok THEN EnvelopeError(p, id, row)
    ELSE IF BrokenColumns(p, row) # {}
         THEN ColumnError(p, row, FirstOf(BrokenColumns(p, row)))
    ELSE IF SealError(p.padding, row.ciphertext.payload) # Ok
         THEN SealError(p.padding, row.ciphertext.payload)
    ELSE FirstDerivationError(p, row)

EnvelopePlanError(p, id, row) ==
    IF EnvelopeError(p, id, row) # Ok THEN EnvelopeError(p, id, row)
    ELSE IF BrokenColumns(p, row) # {}
         THEN ColumnError(p, row, FirstOf(BrokenColumns(p, row)))
    ELSE IF ~EnvelopeStale(p, row) /\ StaleColumns(p, row) = {} THEN Ok
    ELSE IF Open(RowContext(p, id), row.ciphertext, p.keys) # Ok
         THEN Open(RowContext(p, id), row.ciphertext, p.keys)
    ELSE IF EnvelopeStale(p, row) /\ SealError(p.padding, row.ciphertext.payload) # Ok
         THEN SealError(p.padding, row.ciphertext.payload)
    ELSE IF StaleColumns(p, row) = {} THEN Ok
    ELSE IF Decode(row.ciphertext.payload) # Ok THEN Decode(row.ciphertext.payload)
    ELSE FirstDerivationError(p, row)

PlanError(p, id, row) ==
    IF ~ArityMatches(p, row) THEN "IndexColumnMismatch"
    ELSE IF InspectCiphertext(row.ciphertext) = "NotCiphertext" THEN LegacyPlanError(p, row)
    ELSE EnvelopePlanError(p, id, row)

(* The state of a plan that did not fail.                                  *)
PlanState(p, row) ==
    IF row.ciphertext.form # "envelope" THEN "Legacy"
    ELSE IF EnvelopeStale(p, row) \/ StaleColumns(p, row) # {} THEN "Stale"
    ELSE "Current"

(* Fault: a reseal keeps the padding the envelope had.                     *)
ReplacementKeepingPadding(p, id, row, nonce) ==
    [ciphertext |->
        Seal(RowContext(p, id), row.ciphertext.form = "envelope" /\ Padded(row.ciphertext),
             row.ciphertext.payload, p.keys, nonce),
     indexes |->
        [c \in DOMAIN p.columns |->
            IF c \in RederivedColumns(p, row)
            THEN Derive(row.ciphertext.payload, p.columns[c].bits, p.columns[c].keys)
            ELSE row.indexes[c]]]

(* The replacement bytes of a plan whose state is not Current: components  *)
(* already current keep their bytes.                                       *)
Replacement(p, id, row, nonce) ==
    [ciphertext |->
        IF row.ciphertext.form = "envelope" /\ ~EnvelopeStale(p, row)
        THEN row.ciphertext
        ELSE Seal(RowContext(p, id), p.padding, row.ciphertext.payload, p.keys, nonce),
     indexes |->
        [c \in DOMAIN p.columns |->
            IF c \in RederivedColumns(p, row)
            THEN Derive(row.ciphertext.payload, p.columns[c].bits, p.columns[c].keys)
            ELSE row.indexes[c]]]

-----------------------------------------------------------------------------
(* MaybeSealed: an envelope is opened, anything else recovered; either way *)
(* the plaintext is decoded.  A damaged envelope is never legacy data.     *)
ReadError(p, id, row) ==
    IF InspectCiphertext(row.ciphertext) = "NotCiphertext"
    THEN IF Recover(p, row.ciphertext) # Ok THEN Recover(p, row.ciphertext)
         ELSE Decode(row.ciphertext.payload)
    ELSE IF Open(RowContext(p, id), row.ciphertext, p.keys) # Ok
         THEN Open(RowContext(p, id), row.ciphertext, p.keys)
         ELSE Decode(row.ciphertext.payload)

(* What an application reads from the row: a value or an error.            *)
Reading(p, id, row) ==
    IF ReadError(p, id, row) = Ok THEN row.ciphertext.payload ELSE ReadError(p, id, row)
=============================================================================
