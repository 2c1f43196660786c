---------------------------- MODULE IndexFormat -----------------------------
(***************************************************************************)
(* The bytes of a stored blind index: src/blind/format.rs.  BlindIndex     *)
(* takes from here that the stored bytes are a function of the retained    *)
(* bits and that nothing else parses.                                      *)
(*                                                                         *)
(* A byte has ByteWidth bits and a digest DigestLen bytes, 8 and 32 in the *)
(* code.  The key ID of the header is opaque and left out.                 *)
(***************************************************************************)
EXTENDS Radix, Sequences, SequencesExt

CONSTANTS
    ByteWidth,   \* bits in a byte
    DigestLen,   \* bytes in a digest
    MaxLen       \* bound: digest bytes a damaged index has at most

PowersOfTwo == Powers(2, ByteWidth)
ByteMax == PowersOfTwo[ByteWidth] - 1
IndexBytes == 0..ByteMax
MaxIndexBits == ByteWidth * DigestLen
IndexFormatVersion == 2
Digests == [1..DigestLen -> IndexBytes]

ASSUME IndexFormatAssumption == ByteWidth \in Nat \ {0} /\ DigestLen \in Nat \ {0}

-----------------------------------------------------------------------------
(* The bits a "bits"-bit index keeps in its final digest byte: MAX shifted *)
(* left, in the width of a byte.                                           *)
FinalByteMask(bits) ==
    IF bits % ByteWidth = 0 THEN ByteMax
    ELSE (ByteMax * PowersOfTwo[ByteWidth - (bits % ByteWidth)]) % PowersOfTwo[ByteWidth]

(* A byte & such a mask, whose bits are the highest ones, and & its        *)
(* complement.                                                             *)
Cleared(byte, mask) == byte % (PowersOfTwo[ByteWidth] - mask)
Masked(byte, mask) == byte - Cleared(byte, mask)

DigestLength(bits) == (bits + ByteWidth - 1) \div ByteWidth

(* Fault: the unused bits of the final byte stay.                          *)
EncodeIndexUnmasked(digest, bits) ==
    [header |-> TRUE, version |-> IndexFormatVersion, bits |-> bits,
     digest |-> SubSeq(digest, 1, DigestLength(bits))]

EncodeIndex(digest, bits) ==
    LET kept == SubSeq(digest, 1, DigestLength(bits))
    IN  [header |-> TRUE, version |-> IndexFormatVersion, bits |-> bits,
         digest |-> [kept EXCEPT ![Len(kept)] = Masked(@, FinalByteMask(bits))]]

(* Fault: noncanonical bytes are let through.                              *)
InspectLoosely(bytes) ==
    IF ~bytes.header THEN "InvalidBlindIndex"
    ELSE IF bytes.version # IndexFormatVersion THEN "UnsupportedBlindIndexVersion"
    ELSE IF bytes.bits \notin 1..MaxIndexBits THEN "InvalidBlindIndex"
    ELSE IF Len(bytes.digest) # DigestLength(bytes.bits) THEN "InvalidBlindIndex"
    ELSE "Ok"

InspectBlindIndex(bytes) ==
    IF ~bytes.header THEN "InvalidBlindIndex"
    ELSE IF bytes.version # IndexFormatVersion THEN "UnsupportedBlindIndexVersion"
    ELSE IF bytes.bits \notin 1..MaxIndexBits THEN "InvalidBlindIndex"
    ELSE IF Len(bytes.digest) # DigestLength(bytes.bits) THEN "InvalidBlindIndex"
    ELSE IF Cleared(Last(bytes.digest), FinalByteMask(bytes.bits)) # 0 THEN "InvalidBlindIndex"
    ELSE "Ok"

-----------------------------------------------------------------------------
(* A column that is written by any derivation at any precision, and whose  *)
(* bytes storage may change.                                               *)

VARIABLE storedIndex   \* the column's bytes

Encodings == {EncodeIndex(digest, bits) : digest \in Digests, bits \in 1..MaxIndexBits}

(* No bytes: not even a header.                                            *)
IndexInit ==
    storedIndex = [header |-> FALSE, version |-> IndexFormatVersion, bits |-> 0, digest |-> <<>>]

Derive == storedIndex' \in Encodings

(* Any byte of the digest changes, one is lost or added, or the header     *)
(* changes or is cut short, and nothing after it is left.                  *)
DamageIndex ==
    \/ \E i \in DOMAIN storedIndex.digest, byte \in IndexBytes :
            storedIndex' = [storedIndex EXCEPT !.digest[i] = byte]
    \/ storedIndex.digest # <<>> /\ storedIndex' = [storedIndex EXCEPT !.digest = Front(@)]
    \/ \E byte \in IndexBytes :
            /\ Len(storedIndex.digest) < MaxLen
            /\ storedIndex' = [storedIndex EXCEPT !.digest = Append(@, byte)]
    \/ \E bits \in 0..MaxIndexBits + 1 : storedIndex' = [storedIndex EXCEPT !.bits = bits]
    \/ storedIndex' = [storedIndex EXCEPT !.version = IndexFormatVersion - 1]
    \/ storedIndex' = [storedIndex EXCEPT !.header = FALSE, !.digest = <<>>]

IndexNext == Derive \/ DamageIndex

IndexSpec == IndexInit /\ [][IndexNext]_storedIndex

-----------------------------------------------------------------------------
(* The reference: a digest as the sequence of its bits, highest first.     *)
Bit(digest, i) ==
    (digest[(i - 1) \div ByteWidth + 1]
        \div PowersOfTwo[ByteWidth - 1 - ((i - 1) % ByteWidth)]) % 2

SameFirstBits(d, e, bits) == \A i \in 1..bits : Bit(d, i) = Bit(e, i)

(* Whatever happened to the bytes, inspection accepts them exactly when    *)
(* some derivation stores them: one encoding per retained bit string.      *)
OnlyEncodingsParse == InspectBlindIndex(storedIndex) = "Ok" <=> storedIndex \in Encodings

(* An index keeps exactly the first bits of its digest: the probes of two  *)
(* values match one row if these agree and only then, at every precision   *)
(* including those that end on a byte.                                     *)
KeepsFirstBits ==
    LET Matches(d) == EncodeIndex(d, storedIndex.bits) = storedIndex
    IN  storedIndex \in Encodings =>
            \A d \in Digests : Matches(d) =>
                \A e \in Digests : Matches(e) <=> SameFirstBits(d, e, storedIndex.bits)

(* Stored indexes and the retained bits of digests are in correspondence.  *)
EncodesFirstBits == OnlyEncodingsParse /\ KeepsFirstBits
=============================================================================
