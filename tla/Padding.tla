------------------------------ MODULE Padding -------------------------------
(***************************************************************************)
(* What padding does to the bytes of one sealed value, down to their       *)
(* lengths: src/padding.rs, AeadPlaintext of src/envelope/suite.rs, the    *)
(* message limit of its suite, and unpadding in src/envelope.rs.  The      *)
(* other modules only know whether a value is padded, fits, and unpads.    *)
(*                                                                         *)
(* The seal's policy is application code and changes between deployments;  *)
(* what is stored stays, until the value is written or resealed.           *)
(***************************************************************************)
EXTENDS Integers, Sequences

CONSTANTS
    UsizeMax,        \* usize::MAX
    MaxMessageLen,   \* the longest message the suite encrypts
    Plaintexts,      \* encoded plaintext: what a codec may return
    Policies         \* the policies the seal has over time

Bytes == 0..255
Marker == 128
Ok == "Ok"

(* No slice or vector is longer.                                           *)
IsizeMax == UsizeMax \div 2

(* A block has at least two bytes and a fixed length at least one: other   *)
(* parameters do not compile.                                              *)
NoPadding == [kind |-> "none", size |-> 0]
LegalPolicies ==
    {NoPadding} \cup [kind : {"block"}, size : 2..UsizeMax]
                \cup [kind : {"length"}, size : 1..UsizeMax]

ASSUME PaddingAssumption ==
    /\ UsizeMax \in Nat /\ MaxMessageLen \in Nat
    /\ Policies \subseteq LegalPolicies
    /\ \A p \in Plaintexts : p \in Seq(Bytes) /\ Len(p) <= IsizeMax

-----------------------------------------------------------------------------
(* Sealing.                                                                *)

IsPadded(policy) == policy.kind # "none"

DivCeil(a, b) == (a + b - 1) \div b

(* Fault: the marker is not counted.                                       *)
TargetLengthUnmarked(policy, length) ==
    IF policy.kind = "block"
    THEN DivCeil(length, policy.size) * policy.size
    ELSE policy.size + 1

(* The length a padding policy asks for.                                   *)
TargetLength(policy, length) ==
    IF policy.kind = "block"
    THEN DivCeil(length + 1, policy.size) * policy.size
    ELSE policy.size + 1

(* pad_to_length: push a marker, then resize, which would truncate.        *)
PadToLength(plaintext, target) ==
    [i \in 1..target |->
        IF i \in DOMAIN plaintext THEN plaintext[i]
        ELSE IF i = Len(plaintext) + 1 THEN Marker ELSE 0]

(* Fault: the longest value a fixed length is for is refused.              *)
PadErrorOffByOne(policy, length) ==
    IF ~IsPadded(policy) THEN Ok
    ELSE IF policy.kind = "length" /\ length >= policy.size THEN "PaddingOverflow"
    ELSE IF TargetLength(policy, length) > UsizeMax THEN "MessageTooLong"
    ELSE IF TargetLength(policy, length) > IsizeMax THEN "CapacityOverflow"
    ELSE Ok

(* Padding::pad: checked arithmetic, then Vec::with_capacity, which panics *)
(* for more than isize::MAX bytes.                                         *)
PadError(policy, length) ==
    IF ~IsPadded(policy) THEN Ok
    ELSE IF policy.kind = "length" /\ length > policy.size THEN "PaddingOverflow"
    ELSE IF policy.kind = "block" /\ length + 1 > UsizeMax THEN "MessageTooLong"
    ELSE IF TargetLength(policy, length) > UsizeMax THEN "MessageTooLong"
    ELSE IF TargetLength(policy, length) > IsizeMax THEN "CapacityOverflow"
    ELSE Ok

(* AeadPlaintext: the padded flag comes from what was done to the bytes.   *)
AeadPlaintext(policy, plaintext) ==
    IF IsPadded(policy)
    THEN [padded |-> TRUE,
          bytes |-> PadToLength(plaintext, TargetLength(policy, Len(plaintext)))]
    ELSE [padded |-> FALSE, bytes |-> plaintext]

(* Fault: the message limit looks at the plaintext before padding.         *)
SealErrorOfPlaintext(policy, plaintext) ==
    IF PadError(policy, Len(plaintext)) # Ok THEN PadError(policy, Len(plaintext))
    ELSE IF Len(plaintext) > MaxMessageLen THEN "MessageTooLong"
    ELSE Ok

SealError(policy, plaintext) ==
    IF PadError(policy, Len(plaintext)) # Ok THEN PadError(policy, Len(plaintext))
    ELSE IF Len(AeadPlaintext(policy, plaintext).bytes) > MaxMessageLen THEN "MessageTooLong"
    ELSE Ok

-----------------------------------------------------------------------------
(* Opening.                                                                *)

(* The last byte that is not zero, if there is one.                        *)
LastNonZero(bytes) ==
    {i \in DOMAIN bytes :
        bytes[i] # 0 /\ \A j \in DOMAIN bytes : j > i => bytes[j] = 0}

UnpadError(bytes) ==
    IF \E i \in LastNonZero(bytes) : bytes[i] = Marker THEN Ok ELSE "InvalidPadding"

(* Fault: a payload is cut at its first marker.                            *)
UnpadAtFirstMarker(bytes) ==
    SubSeq(bytes, 1,
           (CHOOSE i \in DOMAIN bytes :
                /\ bytes[i] = Marker
                /\ \A j \in DOMAIN bytes : bytes[j] = Marker => i <= j) - 1)

Unpad(bytes) == SubSeq(bytes, 1, (CHOOSE i \in LastNonZero(bytes) : TRUE) - 1)

(* Only the authenticated flag decides, never the policy of the moment.    *)
OpenError(envelope) == IF envelope.padded THEN UnpadError(envelope.bytes) ELSE Ok
Open(envelope) == IF envelope.padded THEN Unpad(envelope.bytes) ELSE envelope.bytes

-----------------------------------------------------------------------------
(* One stored value, written and resealed while the policy changes.        *)

VARIABLES
    policy,   \* the seal's policy in the running deployment
    stored,   \* the value's envelope
    origin    \* auxiliary: what was sealed, and by which policy it is stored

vars == <<policy, stored, origin>>

Store(plaintext) ==
    /\ SealError(policy, plaintext) = Ok
    /\ stored' = AeadPlaintext(policy, plaintext)
    /\ origin' = [plaintext |-> plaintext, policy |-> policy]
    /\ UNCHANGED policy

Init ==
    /\ policy \in Policies
    /\ \E plaintext \in Plaintexts :
        /\ SealError(policy, plaintext) = Ok
        /\ stored = AeadPlaintext(policy, plaintext)
        /\ origin = [plaintext |-> plaintext, policy |-> policy]

Write == \E plaintext \in Plaintexts : Store(plaintext)

ChangePolicy ==
    /\ policy' \in Policies
    /\ UNCHANGED <<stored, origin>>

(* For its flag or, as after a key rotation, for another reason.  What the *)
(* policy has no room for stays as it is.                                  *)
Reseal ==
    /\ OpenError(stored) = Ok
    /\ Store(Open(stored))

Next == Write \/ ChangePolicy \/ Reseal

Spec == Init /\ [][Next]_vars

-----------------------------------------------------------------------------
(* The types, with the limit of what can be encrypted (check_message_len). *)
TypeOK ==
    /\ policy \in Policies
    /\ stored.padded \in BOOLEAN
    /\ stored.bytes \in Seq(Bytes)
    /\ Len(stored.bytes) <= MaxMessageLen
    /\ origin.plaintext \in Plaintexts /\ origin.policy \in Policies

(* A value reads back as the bytes that were sealed, whatever policy wrote *)
(* it, whatever the policy is now, and whatever the bytes are: zeros and   *)
(* marker bytes at their end included.  Resealing hands them on unchanged. *)
ReadsBack ==
    /\ OpenError(stored) = Ok
    /\ Open(stored) = origin.plaintext

(* What the stored length tells: under a fixed length nothing, under       *)
(* blocks only how many of them the value and one more byte need.          *)
LengthHidden ==
    LET length == Len(origin.plaintext)
        size == origin.policy.size
    IN  CASE origin.policy.kind = "none" -> Len(stored.bytes) = length
          [] origin.policy.kind = "length" -> Len(stored.bytes) = size + 1
          [] origin.policy.kind = "block" ->
                /\ Len(stored.bytes) % size = 0
                /\ Len(stored.bytes) \in (length + 1)..(length + size)

(* A fixed-length policy takes every value of up to that length, provided  *)
(* its padded form can be encrypted at all, and no longer one; a block     *)
(* policy refuses for what can be encrypted only.                          *)
RefusedOnlyForLength ==
    \A plaintext \in Plaintexts :
        LET length == Len(plaintext)
            Fits(n) == n <= MaxMessageLen /\ n <= IsizeMax
        IN  SealError(policy, plaintext) = Ok <=>
                CASE policy.kind = "none" -> Fits(length)
                  [] policy.kind = "length" -> length <= policy.size /\ Fits(policy.size + 1)
                  [] policy.kind = "block" ->
                        \E n \in (length + 1)..(length + policy.size) :
                            n % policy.size = 0 /\ Fits(n)

(* The stored length fits what can be encrypted and tells no more than the *)
(* policy means it to, and no value is refused but for its length.         *)
LengthsExact == TypeOK /\ LengthHidden /\ RefusedOnlyForLength
=============================================================================
