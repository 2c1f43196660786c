------------------------------ MODULE Envelope ------------------------------
(***************************************************************************)
(* Stored ciphertext bytes, and what sealing, inspecting and opening do    *)
(* with them: src/envelope.rs, src/envelope/format.rs,                     *)
(* src/envelope/suite.rs, src/bound.rs and src/seal_context.rs.            *)
(*                                                                         *)
(* Bytes are records of the facts the code branches on.  AEAD is ideal: an *)
(* envelope authenticates iff it is exactly what a seal produced, and only *)
(* under the context bytes and the key it was sealed with.  A fresh random *)
(* nonce is a number no earlier envelope of the same row carries.          *)
(***************************************************************************)
EXTENDS Integers

CONSTANTS
    KeyIds,        \* encryption-key generations (KeyId)
    Seals,         \* seal IDs (SealId)
    Values,        \* typed values, which the codec encodes and decodes
    Undecodable,   \* plaintext bytes the codec rejects
    Unpaddable,    \* plaintext without a 0x80 marker, from a defective writer
    Oversized      \* the values a fixed-length padding policy cannot hold

ASSUME EnvelopeAssumption ==
    /\ Undecodable \notin Values
    /\ Unpaddable \notin Values
    /\ Undecodable # Unpaddable
    /\ Oversized \subseteq Values

Ok == "Ok"

-----------------------------------------------------------------------------
(* Keyrings: the current key writes, every key of the ring reads by its    *)
(* exact ID.  Ring::new stores the current key among the readable ones.    *)

Keyrings == {r \in [current : KeyIds, keys : SUBSET KeyIds] : r.current \in r.keys}

(* The context a value is bound to: its seal and, for the field of a       *)
(* record, the kind and value of the record ID.  Kind "none" (a standalone *)
(* value) carries no record ID, written 0.                                 *)

RecordKinds == {"none", "uuid", "i64"}

Contexts == [seal : Seals, kind : RecordKinds, id : Int]

SealContext(seal, kind, id) ==
    [seal |-> seal, kind |-> kind, id |-> IF kind = "none" THEN 0 ELSE id]

(* The fingerprint the header stores names the kind of context only.       *)
Fingerprint(context) == context.kind

-----------------------------------------------------------------------------
(* The layout.  "extent" is the part of an envelope the bytes reach:       *)
(* the magic alone, the version byte, the header, or a whole payload.      *)

FormatVersion == 2
ActiveSuite == 1
SupportedSuites == {ActiveSuite}
Flags == {"padded", "reserved"}
Payloads == Values \cup {Undecodable, Unpaddable}

(* Plaintext without a padding marker matters only where one is expected.  *)
Envelopes ==
    {e \in [form : {"envelope"}, extent : {"magic", "version", "header", "whole"},
            version : Nat, suite : Nat, flags : SUBSET Flags, key : KeyIds,
            fingerprint : RecordKinds, context : Contexts, payload : Payloads,
            authentic : BOOLEAN, nonce : Nat] :
        e.payload = Unpaddable => "padded" \in e.flags}

(* Bytes without the CryptBox magic: plaintext or a previous format.       *)
ForeignBytes == [form : {"foreign"}, payload : Values \cup {Undecodable}]

(* SQL NULL, which is not bytes at all.                                    *)
NullColumn == [form |-> "null"]

Ciphertexts == Envelopes \cup ForeignBytes \cup {NullColumn}

Padded(bytes) == "padded" \in bytes.flags

(* parse_envelope and parse_supported: the version is checked before the   *)
(* length, the suite before the flags, the payload last.                   *)
InspectCiphertext(bytes) ==
    IF bytes.form # "envelope" THEN "NotCiphertext"
    ELSE IF bytes.extent = "magic" THEN "InvalidEnvelope"
    ELSE IF bytes.version # FormatVersion THEN "UnsupportedFormatVersion"
    ELSE IF bytes.extent = "version" THEN "InvalidEnvelope"
    ELSE IF bytes.suite \notin SupportedSuites THEN "UnsupportedSuite"
    ELSE IF "reserved" \in bytes.flags THEN "UnsupportedFlags"
    ELSE IF bytes.extent = "header" THEN "InvalidEnvelope"
    ELSE Ok

(* Compared before any key lookup.                                         *)
Check(fingerprint, bytes) ==
    IF InspectCiphertext(bytes) # Ok THEN InspectCiphertext(bytes)
    ELSE IF bytes.fingerprint # fingerprint THEN "ContextMismatch"
    ELSE Ok

Authenticates(context, bytes) == bytes.authentic /\ bytes.context = context

(* The outcome of opening; the plaintext of a successful open is           *)
(* bytes.payload.  Only the authenticated flag decides unpadding.          *)
Open(context, bytes, keyring) ==
    IF Check(Fingerprint(context), bytes) # Ok THEN Check(Fingerprint(context), bytes)
    ELSE IF bytes.key \notin keyring.keys THEN "UnknownEncryptionKey"
    ELSE IF ~Authenticates(context, bytes) THEN "AuthenticationFailed"
    ELSE IF Padded(bytes) /\ bytes.payload = Unpaddable THEN "InvalidPadding"
    ELSE Ok

(* Fault: a retired generation does not make an envelope stale.            *)
NeedsResealIgnoringKey(padding, bytes, keyring) ==
    bytes.suite # ActiveSuite \/ Padded(bytes) # padding

(* Metadata only: nothing is decrypted.                                    *)
NeedsReseal(padding, bytes, keyring) ==
    \/ bytes.suite # ActiveSuite
    \/ bytes.key # keyring.current
    \/ Padded(bytes) # padding

(* Sealing pads first; a fixed-length policy rejects what does not fit.    *)
SealError(padding, payload) ==
    IF padding /\ payload \in Oversized THEN "PaddingOverflow" ELSE Ok

Seal(context, padding, payload, keyring, nonce) ==
    [form |-> "envelope", extent |-> "whole", version |-> FormatVersion,
     suite |-> ActiveSuite, flags |-> IF padding THEN {"padded"} ELSE {},
     key |-> keyring.current, fingerprint |-> Fingerprint(context),
     context |-> context, payload |-> payload, authentic |-> TRUE,
     nonce |-> nonce]

(* The codec accepts exactly the encodings of the values.                  *)
Decode(payload) == IF payload \in Values THEN Ok ELSE "CodecFailed"
=============================================================================
