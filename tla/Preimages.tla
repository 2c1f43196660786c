----------------------------- MODULE Preimages ------------------------------
(***************************************************************************)
(* The bytes that key derivation, the AEAD and the MAC are computed over:  *)
(* src/seal_context.rs, src/envelope/format.rs, src/envelope/suite.rs,     *)
(* its XChaCha20-Poly1305 suite and src/blind/recipe.rs.  Envelope and     *)
(* BlindIndex compare contexts and specifications; here they are bytes     *)
(* put one after the other, and what was sealed opens if the bytes agree.  *)
(*                                                                         *)
(* Hashes are ideal: a digest is its input.  A byte is a digit to Base,    *)
(* 256 in the code; labels, magic and payloads are single opaque items.    *)
(***************************************************************************)
EXTENDS Radix, Sequences

CONSTANTS
    Base,        \* values of a byte
    IdLen,       \* bytes of a seal ID, an index ID and a key ID
    UuidLen,     \* bytes of a UUID used as a record ID
    I64Len,      \* bytes of an integer record ID
    SealIds, IndexIds, KeyIdBytes,
    Normalized,  \* normal forms of values, as bytes
    Precisions   \* retained bits of an index

PreimageBytes == 0..(Base - 1)

ASSUME PreimagesAssumption ==
    /\ Base \in Nat \ {0, 1} /\ IdLen \in Nat /\ UuidLen \in Nat /\ I64Len \in Nat
    /\ \A id \in SealIds \cup IndexIds \cup KeyIdBytes :
        id \in Seq(PreimageBytes) /\ Len(id) = IdLen
    /\ Normalized \subseteq Seq(PreimageBytes)
    /\ Precisions \subseteq 0..(Base * Base - 1)

(* to_be_bytes, two's complement for a negative number.                    *)
BigEndian(n, width) == [i \in 1..width |-> (n \div Powers(Base, width)[width - i]) % Base]

-----------------------------------------------------------------------------
(* Contexts.                                                               *)

NoRecord == [kind |-> "none", value |-> 0]
I64Values == -(Powers(Base, I64Len)[I64Len] \div 2)..(Powers(Base, I64Len)[I64Len] \div 2 - 1)

RecordValues ==
    {NoRecord} \cup [kind : {"uuid"}, value : [1..UuidLen -> PreimageBytes]]
        \cup [kind : {"i64"}, value : I64Values]

Contexts == [seal : SealIds, record : RecordValues]

Code(kind) == IF kind = "uuid" THEN 1 ELSE 2

(* Fault: an integer loses its high half.                                  *)
RecordBytesNarrow(record) ==
    IF record.kind = "uuid" THEN record.value
    ELSE BigEndian(record.value, I64Len \div 2)

RecordBytes(record) ==
    IF record.kind = "uuid" THEN record.value ELSE BigEndian(record.value, I64Len)

Count(kind) == BigEndian(IF kind = "none" THEN 0 ELSE 1, 2)

(* The seal ID, the number of parts, and each part with its kind and       *)
(* length.                                                                 *)
ContextBytes(context) ==
    LET part == RecordBytes(context.record)
    IN  context.seal \o Count(context.record.kind)
        \o (IF context.record = NoRecord THEN <<>>
            ELSE <<Code(context.record.kind)>> \o BigEndian(Len(part), 4) \o part)

(* Fault: the fingerprint counts the parts and does not name them.         *)
FingerprintOfCount(kind) == <<"context-fingerprint">> \o Count(kind)

(* A hash of the kinds of the parts alone.                                 *)
Fingerprint(kind) ==
    <<"context-fingerprint">> \o Count(kind)
    \o (IF kind = "none" THEN <<>> ELSE <<Code(kind)>>)

-----------------------------------------------------------------------------
(* Envelopes.                                                              *)

FormatVersion == 2
ActiveSuite == 1
Nonces == {<<0>>, <<1>>}

Fingerprints == {Fingerprint(kind) : kind \in {"none", "uuid", "i64"}}
Headers == [padded : BOOLEAN, key : KeyIdBytes, fingerprint : Fingerprints, nonce : Nonces]

(* The header and the nonce, as they are stored and authenticated.         *)
Prefix(header) ==
    <<FormatVersion, ActiveSuite, IF header.padded THEN 1 ELSE 0>>
    \o header.key \o <<header.fingerprint>> \o header.nonce

KeyInfo(key, context) ==
    <<"encryption-key">> \o <<FormatVersion, ActiveSuite>> \o key \o context

Aad(prefix, context) == <<"envelope-aad">> \o prefix \o context

(* What the AEAD is run with; the root is the one generated with the ID.   *)
Sealing(header, context) ==
    [root |-> header.key, info |-> KeyInfo(header.key, ContextBytes(context)),
     aad |-> Aad(Prefix(header), ContextBytes(context))]

Check(header, kind) ==
    IF header.fingerprint # Fingerprint(kind) THEN "ContextMismatch" ELSE "Ok"

OpenEnvelope(envelope, context) ==
    IF Check(envelope.header, context.record.kind) # "Ok" THEN "ContextMismatch"
    ELSE IF Sealing(envelope.header, context) # envelope.sealing
         THEN "AuthenticationFailed"
    ELSE "Ok"

-----------------------------------------------------------------------------
(* Blind indexes, always in the context of the seal alone.                 *)

Specs == [seal : SealIds, index : IndexIds, bits : Precisions]

IndexHeader(key, bits) == <<FormatVersion>> \o key \o BigEndian(bits, 2)

IndexContext(spec, key) ==
    IndexHeader(key, spec.bits)
    \o ContextBytes([seal |-> spec.seal, record |-> NoRecord]) \o spec.index

(* Fault: the index ID goes into neither the key nor the MAC.              *)
DeriveIndexOfSeal(spec, key, normalized) ==
    LET context == IndexHeader(key, spec.bits)
                   \o ContextBytes([seal |-> spec.seal, record |-> NoRecord])
    IN  [root |-> key, info |-> <<"blind-index-key">> \o context,
         input |-> <<"blind-index-value">> \o context
                   \o BigEndian(Len(normalized), 8) \o normalized]

DeriveIndex(spec, key, normalized) ==
    [root |-> key, info |-> <<"blind-index-key">> \o IndexContext(spec, key),
     input |-> <<"blind-index-value">> \o IndexContext(spec, key)
               \o BigEndian(Len(normalized), 8) \o normalized]

-----------------------------------------------------------------------------
VARIABLES
    envelope,   \* a stored envelope: its header and what it was sealed with
    sealedAs,   \* the header and context it was sealed under (history)
    index       \* a stored index, with what it was derived from

preimageVars == <<envelope, sealedAs, index>>

PreimagesInit == envelope = <<>> /\ sealedAs = <<>> /\ index = <<>>

Empty == envelope = <<>> /\ index = <<>>

SealEnvelope ==
    /\ Empty
    /\ \E context \in Contexts, padded \in BOOLEAN, key \in KeyIdBytes, nonce \in Nonces :
        LET header == [padded |-> padded, key |-> key, nonce |-> nonce,
                       fingerprint |-> Fingerprint(context.record.kind)]
        IN  /\ envelope' = <<[header |-> header, sealing |-> Sealing(header, context)]>>
            /\ sealedAs' = <<[header |-> header, context |-> context]>>
    /\ UNCHANGED index

(* Damage that still parses: another header before the same ciphertext.    *)
DamageHeader ==
    /\ envelope # <<>> /\ envelope[1].header = sealedAs[1].header
    /\ \E header \in Headers : envelope' = [envelope EXCEPT ![1].header = header]
    /\ UNCHANGED <<sealedAs, index>>

StoreIndex ==
    /\ Empty
    /\ \E spec \in Specs, key \in KeyIdBytes, normalized \in Normalized :
        index' = <<[spec |-> spec, key |-> key, normalized |-> normalized,
                    bytes |-> DeriveIndex(spec, key, normalized)]>>
    /\ UNCHANGED <<envelope, sealedAs>>

PreimagesNext == SealEnvelope \/ DamageHeader \/ StoreIndex

PreimagesSpec == PreimagesInit /\ [][PreimagesNext]_preimageVars

-----------------------------------------------------------------------------
(* Properties.                                                             *)

(* Whatever the bytes run into each other, an envelope opens exactly in    *)
(* the context it was sealed in and with the header it was sealed with.    *)
OpensInItsContextOnly ==
    envelope # <<>> =>
        \A context \in Contexts :
            OpenEnvelope(envelope[1], context) = "Ok" <=>
                context = sealedAs[1].context /\ envelope[1].header = sealedAs[1].header

(* A reader of another kind of context is told so and a reader of the same *)
(* kind never is, so needs_reseal, which knows the kind of the context and *)
(* not its value, refuses what no reader of that kind could open.          *)
MismatchNamesTheKind ==
    envelope # <<>> /\ envelope[1].header = sealedAs[1].header =>
        \A context \in Contexts :
            OpenEnvelope(envelope[1], context) = "ContextMismatch" <=>
                context.record.kind # sealedAs[1].context.record.kind

(* A probe meets a stored index exactly if it is for the same index of the *)
(* same seal, with the same key, precision and normal form: no value runs  *)
(* into its length or its index ID.                                        *)
ProbesMeetTheirIndexes ==
    index # <<>> =>
        \A spec \in Specs, key \in KeyIdBytes, normalized \in Normalized :
            DeriveIndex(spec, key, normalized) = index[1].bytes <=>
                spec = index[1].spec /\ key = index[1].key
                    /\ normalized = index[1].normalized

(* The bytes tell apart all that must not pass for one another.            *)
BytesTellApart == OpensInItsContextOnly /\ MismatchNamesTheKind /\ ProbesMeetTheirIndexes
=============================================================================
