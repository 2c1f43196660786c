----------------------------- MODULE BlindIndex -----------------------------
(***************************************************************************)
(* Stored blind-index bytes and what deriving, inspecting and recomputing  *)
(* do with them: src/blind.rs, src/blind/format.rs, src/blind/recipe.rs.   *)
(*                                                                         *)
(* A digest is a function of the key and of the normal form of the value,  *)
(* cut to the index's precision: values with one normal form share it, and *)
(* other values may.  An index is derived under its seal alone, never      *)
(* under a record, so the record does not occur here.                      *)
(***************************************************************************)
EXTENDS Envelope

CONSTANTS
    IndexKeyIds,     \* blind-index-key generations (IndexKeyId)
    NotConfigured,   \* Keys without a blind-index keyring
    Unindexable,     \* the values normalize_value rejects
    NormalForm,      \* what normalize_value makes of each other value
    Digests,         \* truncated digests
    Digest           \* of each normal form, under each key

IndexKeyrings ==
    {r \in [current : IndexKeyIds, keys : SUBSET IndexKeyIds] : r.current \in r.keys}

ASSUME BlindIndexAssumption ==
    /\ IndexKeyIds # {} /\ Digests # {}
    /\ NotConfigured \notin IndexKeyrings
    /\ Unindexable \subseteq Values
    /\ Digest \in [IndexKeyIds -> [{NormalForm[v] : v \in Values} -> Digests]]

IndexFormatVersion == 2
MaxIndexBits == 256

(* "extent": shorter than a header, a header with a digest of the wrong    *)
(* length, or exactly as long as "bits" asks for.                          *)
Indexes ==
    [extent : {"short", "uneven", "exact"}, version : Nat, bits : Nat,
     canonical : BOOLEAN, key : IndexKeyIds, digest : Digests]

InspectBlindIndex(bytes) ==
    IF bytes.extent = "short" THEN "InvalidBlindIndex"
    ELSE IF bytes.version # IndexFormatVersion THEN "UnsupportedBlindIndexVersion"
    ELSE IF bytes.bits \notin 1..MaxIndexBits THEN "InvalidBlindIndex"
    ELSE IF bytes.extent # "exact" THEN "InvalidBlindIndex"
    ELSE IF ~bytes.canonical THEN "InvalidBlindIndex"
    ELSE Ok

(* The empty bytes a row from before encryption keeps in an index column:  *)
(* what its other fields say does not count.                               *)
MissingIndex ==
    [extent |-> "short", version |-> 0, bits |-> 0, canonical |-> TRUE,
     key |-> CHOOSE k \in IndexKeyIds : TRUE, digest |-> CHOOSE d \in Digests : TRUE]

(* The bytes one generation stores for a value.                            *)
IndexOf(value, bits, key) ==
    [extent |-> "exact", version |-> IndexFormatVersion, bits |-> bits,
     canonical |-> TRUE, key |-> key, digest |-> Digest[key][NormalForm[value]]]

(* Key availability comes before normalization.                            *)
DeriveError(value, keyring) ==
    IF keyring = NotConfigured THEN "BlindIndexKeysNotConfigured"
    ELSE IF value \in Unindexable THEN "BlindIndexNormalizationFailed"
    ELSE Ok

Derive(value, bits, keyring) == IndexOf(value, bits, keyring.current)

(* BlindIndex::from_bytes then is_consistent_with: recompute under the     *)
(* stored generation, if the keyring still holds it, and compare bytes.    *)
ConsistentWith(value, bytes, bits, keyring) ==
    /\ InspectBlindIndex(bytes) = Ok
    /\ bytes.bits = bits
    /\ bytes.key \in keyring.keys
    /\ bytes = IndexOf(value, bits, bytes.key)
=============================================================================
