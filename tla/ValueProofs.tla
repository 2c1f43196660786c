---------------------------- MODULE ValueProofs -----------------------------
(***************************************************************************)
(* For any width of usize, any plaintexts and policies, any width of a     *)
(* byte and IDs of one length, any number of tenants, keys and calls:      *)
(* padded bytes have the length their policy promises and unpad to what    *)
(* was padded, a stored index keeps its first bits and no others, the bytes*)
(* that are sealed, authenticated and indexed tell all that must be told   *)
(* apart, and tenants with keyrings of their own stay apart.               *)
(*                                                                         *)
(* What is stored is what sealing made of the plaintext and policy         *)
(* remembered beside it; that resealing keeps it needs the round trip.     *)
(* Bytes are cut where the parts before them have one length, from the     *)
(* front or from the back.  Of tenants, TenantsInv adds what a keyring may *)
(* hold: keys generated for its tenant, once each, every one that wrote a  *)
(* row that is not shredded or moved among them, in the secret store and   *)
(* in whatever was cached.                                                 *)
(***************************************************************************)
EXTENDS Padding, Preimages, IndexFormat, Tenants, FiniteSetTheorems,
        WellFoundedInduction, TLAPS

-----------------------------------------------------------------------------
(***************************************************************************)
(* Padding.                                                                *)
(***************************************************************************)

(* Rounding up to a multiple.                                              *)
LEMMA NextMultiple ==
    ASSUME NEW n \in Nat, NEW size \in Nat \ {0}
    PROVE  /\ DivCeil(n + 1, size) * size \in Nat
           /\ DivCeil(n + 1, size) * size > n
           /\ DivCeil(n + 1, size) * size <= n + size
           /\ (DivCeil(n + 1, size) * size) % size = 0
<1> DEFINE a == n + size
           q == a \div size
<1>1. a \in Nat /\ q \in Nat /\ q * size <= a /\ a < q * size + size
  BY SMTT(30)
<1>2. DivCeil(n + 1, size) = q
  BY DEF DivCeil
<1>3. q * size \in Nat /\ (q * size) % size = 0
  BY <1>1, SMTT(30)
<1> QED
  BY <1>1, <1>2, <1>3

LEMMA TargetLengths ==
    ASSUME NEW p \in LegalPolicies, IsPadded(p), NEW n \in Nat, PadError(p, n) = Ok
    PROVE  /\ TargetLength(p, n) \in Nat /\ TargetLength(p, n) > n
           /\ p.kind = "length" => TargetLength(p, n) = p.size + 1
           /\ p.kind = "block" => /\ TargetLength(p, n) % p.size = 0
                                  /\ TargetLength(p, n) <= n + p.size
<1>1. p.kind \in {"block", "length"} /\ p.size \in Nat \ {0}
  BY PaddingAssumption DEF LegalPolicies, NoPadding, IsPadded
<1>2. CASE p.kind = "block"
  BY <1>1, <1>2, NextMultiple DEF TargetLength
<1>3. CASE p.kind = "length"
  BY <1>1, <1>3 DEF TargetLength, PadError, IsPadded, Ok
<1> QED
  BY <1>1, <1>2, <1>3

(* The marker is the last byte that is not zero.                           *)
LEMMA PaddedBytes ==
    ASSUME NEW v \in Seq(Bytes), NEW target \in Nat, target > Len(v)
    PROVE  /\ PadToLength(v, target) \in Seq(Bytes)
           /\ Len(PadToLength(v, target)) = target
           /\ LastNonZero(PadToLength(v, target)) = {Len(v) + 1}
           /\ PadToLength(v, target)[Len(v) + 1] = Marker
           /\ SubSeq(PadToLength(v, target), 1, Len(v)) = v
<1> DEFINE padded == PadToLength(v, target)
<1>1. Len(v) \in Nat /\ DOMAIN v = 1..Len(v) /\ \A i \in 1..Len(v) : v[i] \in Bytes
  OBVIOUS
<1>2. \A i \in 1..target : padded[i] =
        IF i \in 1..Len(v) THEN v[i] ELSE IF i = Len(v) + 1 THEN Marker ELSE 0
  BY <1>1 DEF PadToLength
<1>3. padded \in [1..target -> Bytes]
  BY <1>1 DEF PadToLength, Bytes, Marker
<1>4. padded \in Seq(Bytes) /\ Len(padded) = target /\ DOMAIN padded = 1..target
  BY <1>3
<1> HIDE DEF padded
<1>5. LastNonZero(padded) = {Len(v) + 1}
  <2>1. Len(v) + 1 \in 1..target /\ padded[Len(v) + 1] = Marker
    BY <1>1, <1>2
  <2>2. ASSUME NEW i \in 1..target, i > Len(v) + 1 PROVE padded[i] = 0
    <3>1. i \notin 1..Len(v) /\ i # Len(v) + 1
      BY <1>1, <2>2
    <3> QED
      BY <1>2, <3>1
  <2>3. Len(v) + 1 \in LastNonZero(padded)
    <3>1. padded[Len(v) + 1] # 0
      BY <2>1 DEF Marker
    <3>2. \A j \in DOMAIN padded : j > Len(v) + 1 => padded[j] = 0
      BY <1>4, <2>2
    <3> QED
      BY <1>4, <2>1, <3>1, <3>2 DEF LastNonZero
  <2>4. ASSUME NEW i \in LastNonZero(padded) PROVE i = Len(v) + 1
    <3>1. i \in 1..target /\ padded[i] # 0 /\ \A j \in 1..target : j > i => padded[j] = 0
      BY <1>4 DEF LastNonZero
    <3>2. ~(i > Len(v) + 1)
      BY <3>1, <2>2
    <3>3. ~(Len(v) + 1 > i)
      BY <3>1, <2>1 DEF Marker
    <3> QED
      BY <1>1, <3>1, <3>2, <3>3
  <2> QED
    BY <2>3, <2>4
<1>6. padded[Len(v) + 1] = Marker
  BY <1>1, <1>2
<1>7. SubSeq(padded, 1, Len(v)) = v
  <2>1. SubSeq(padded, 1, Len(v)) \in Seq(Bytes) /\ Len(SubSeq(padded, 1, Len(v))) = Len(v)
    BY <1>1, <1>4
  <2>2. \A i \in 1..Len(v) : SubSeq(padded, 1, Len(v))[i] = v[i]
    BY <1>1, <1>2, <1>4
  <2> QED
    BY <1>1, <2>1, <2>2
<1> QED
  BY <1>4, <1>5, <1>6, <1>7 DEF padded

(* A successful seal opens to what it was given.                           *)
LEMMA RoundTrip ==
    ASSUME NEW p \in LegalPolicies, NEW v \in Seq(Bytes), SealError(p, v) = Ok
    PROVE  /\ OpenError(AeadPlaintext(p, v)) = Ok
           /\ Open(AeadPlaintext(p, v)) = v
<1> DEFINE target == TargetLength(p, Len(v))
           padded == PadToLength(v, target)
<1>1. CASE ~IsPadded(p)
  BY <1>1 DEF AeadPlaintext, OpenError, Open
<1>2. CASE IsPadded(p)
  <2>1. Len(v) \in Nat /\ PadError(p, Len(v)) = Ok
    BY DEF SealError
  <2>2. target \in Nat /\ target > Len(v)
    BY <1>2, <2>1, TargetLengths
  <2>3. /\ LastNonZero(padded) = {Len(v) + 1}
        /\ padded[Len(v) + 1] = Marker
        /\ SubSeq(padded, 1, Len(v)) = v
    BY <2>2, PaddedBytes
  <2>4. AeadPlaintext(p, v) = [padded |-> TRUE, bytes |-> padded]
    BY <1>2 DEF AeadPlaintext
  <2> HIDE DEF padded, target
  <2>5. UnpadError(padded) = Ok
    BY <2>3 DEF UnpadError
  <2>6. (CHOOSE i \in LastNonZero(padded) : TRUE) = Len(v) + 1
    BY <2>3
  <2>7. Unpad(padded) = v
    BY <2>1, <2>3, <2>6 DEF Unpad
  <2> QED
    BY <2>4, <2>5, <2>7 DEF OpenError, Open
<1> QED
  BY <1>1, <1>2

-----------------------------------------------------------------------------
StoredAsSealed ==
    /\ policy \in Policies
    /\ origin \in [plaintext : Plaintexts, policy : Policies]
    /\ SealError(origin.policy, origin.plaintext) = Ok
    /\ stored = AeadPlaintext(origin.policy, origin.plaintext)

(* Whatever is written or resealed, what is stored is what sealing made of *)
(* a plaintext the application gave.                                       *)
THEOREM StoredIsSealed == Spec => []StoredAsSealed
<1>1. Init => StoredAsSealed
  BY DEF Init, StoredAsSealed
<1>2. ASSUME StoredAsSealed, [Next]_vars
      PROVE  StoredAsSealed'
  <2>1. ASSUME NEW v \in Plaintexts, Store(v)
        PROVE  StoredAsSealed'
    BY <1>2, <2>1 DEF StoredAsSealed, Store
  <2>2. CASE Write
    BY <2>1, <2>2 DEF Write
  <2>3. CASE ChangePolicy
    BY <1>2, <2>3 DEF ChangePolicy, StoredAsSealed
  <2>4. CASE Reseal
    <3>1. origin.policy \in LegalPolicies /\ origin.plaintext \in Seq(Bytes)
      BY <1>2, PaddingAssumption DEF StoredAsSealed
    <3>2. Open(stored) = origin.plaintext
      BY <1>2, <3>1, RoundTrip DEF StoredAsSealed
    <3> QED
      BY <1>2, <2>1, <2>4, <3>2 DEF Reseal, StoredAsSealed
  <2>5. CASE UNCHANGED vars
    BY <1>2, <2>5 DEF vars, StoredAsSealed
  <2> QED
    BY <1>2, <2>2, <2>3, <2>4, <2>5 DEF Next
<1> QED
  BY <1>1, <1>2, PTL DEF Spec

(* ReadsBack: padding is undone exactly, under every policy and after any  *)
(* number of policy changes and reseals.                                   *)
THEOREM ValuesReadBack == Spec => []ReadsBack
<1>1. StoredAsSealed => ReadsBack
  <2> SUFFICES ASSUME StoredAsSealed PROVE ReadsBack
    OBVIOUS
  <2>1. origin.policy \in LegalPolicies /\ origin.plaintext \in Seq(Bytes)
    BY PaddingAssumption DEF StoredAsSealed
  <2> QED
    BY <2>1, RoundTrip DEF StoredAsSealed, ReadsBack
<1> QED
  BY <1>1, StoredIsSealed, PTL

(* LengthHidden: the stored length is what the policy promises.            *)
THEOREM LengthsAreHidden == Spec => []LengthHidden
<1>1. StoredAsSealed => LengthHidden
  <2> SUFFICES ASSUME StoredAsSealed PROVE LengthHidden
    OBVIOUS
  <2> DEFINE p == origin.policy
             v == origin.plaintext
             target == TargetLength(p, Len(v))
  <2>1. p \in LegalPolicies /\ v \in Seq(Bytes) /\ Len(v) \in Nat
    BY PaddingAssumption DEF StoredAsSealed
  <2>2. SealError(p, v) = Ok /\ PadError(p, Len(v)) = Ok
    BY DEF StoredAsSealed, SealError
  <2>3. CASE ~IsPadded(p)
    <3>1. stored.bytes = v /\ p.kind = "none"
      BY <2>3 DEF StoredAsSealed, AeadPlaintext, IsPadded
    <3> QED
      BY <3>1 DEF LengthHidden
  <2>4. CASE IsPadded(p)
    <3>1. /\ target \in Nat /\ target > Len(v)
          /\ p.kind = "length" => target = p.size + 1
          /\ p.kind = "block" => target % p.size = 0 /\ target <= Len(v) + p.size
      BY <2>1, <2>2, <2>4, TargetLengths
    <3>2. Len(stored.bytes) = target
      BY <2>1, <2>4, <3>1, PaddedBytes DEF StoredAsSealed, AeadPlaintext
    <3>3. p.kind \in {"block", "length"} /\ p.size \in Nat
      BY <2>1, <2>4, PaddingAssumption DEF LegalPolicies, NoPadding, IsPadded
    <3> HIDE DEF target
    <3>4. CASE p.kind = "length"
      BY <3>1, <3>2, <3>4 DEF LengthHidden
    <3>5. CASE p.kind = "block"
      <4>1. target \in (Len(v) + 1)..(Len(v) + p.size)
        BY <2>1, <3>1, <3>3, <3>5
      <4> QED
        BY <3>1, <3>2, <3>5, <4>1 DEF LengthHidden
    <3> QED
      BY <3>3, <3>4, <3>5
  <2> QED
    BY <2>3, <2>4
<1> QED
  BY <1>1, StoredIsSealed, PTL

(* TypeOK: bytes stay bytes and no message is longer than the suite takes. *)
THEOREM PaddingTypeCorrect == Spec => []TypeOK
<1>1. StoredAsSealed => TypeOK
  <2> SUFFICES ASSUME StoredAsSealed PROVE TypeOK
    OBVIOUS
  <2> DEFINE p == origin.policy
             v == origin.plaintext
  <2>1. p \in LegalPolicies /\ v \in Seq(Bytes) /\ Len(v) \in Nat
    BY PaddingAssumption DEF StoredAsSealed
  <2>2. SealError(p, v) = Ok /\ PadError(p, Len(v)) = Ok
    BY DEF StoredAsSealed, SealError
  <2>3. stored.bytes \in Seq(Bytes) /\ stored.padded \in BOOLEAN
    BY <2>1, <2>2, TargetLengths, PaddedBytes DEF StoredAsSealed, AeadPlaintext
  <2>4. Len(stored.bytes) \in Nat /\ MaxMessageLen \in Nat
    BY <2>3, PaddingAssumption
  <2>5. ~(Len(stored.bytes) > MaxMessageLen)
    BY <2>2 DEF StoredAsSealed, SealError, Ok
  <2> QED
    BY <2>3, <2>4, <2>5 DEF StoredAsSealed, TypeOK
<1> QED
  BY <1>1, StoredIsSealed, PTL

(* Two multiples less than a size apart are one.                           *)
LEMMA SameMultiple ==
    ASSUME NEW size \in Nat \ {0}, NEW q \in Nat, NEW n \in Nat, n % size = 0,
           n > q * size - size, n < q * size + size
    PROVE  n = q * size
<1> DEFINE k == n \div size
<1>1. k \in Nat /\ n = k * size
  BY SMTT(30)
<1> HIDE DEF k
<1>2. CASE k > q
  <2>1. (k - (q + 1)) * size >= 0 /\ k - (q + 1) \in Nat
    BY <1>1, <1>2, SMTT(30)
  <2>2. (k - (q + 1)) * size = k * size - q * size - size
    BY <1>1, SMTT(30)
  <2> QED
    BY <1>1, <2>1, <2>2, SMTT(30)
<1>3. CASE k < q
  <2>1. (q - (k + 1)) * size >= 0 /\ q - (k + 1) \in Nat
    BY <1>1, <1>3, SMTT(30)
  <2>2. (q - (k + 1)) * size = q * size - k * size - size
    BY <1>1, SMTT(30)
  <2> QED
    BY <1>1, <2>1, <2>2, SMTT(30)
<1> QED
  BY <1>1, <1>2, <1>3

LEMMA SealsWhatFits ==
    ASSUME NEW p \in LegalPolicies, NEW v \in Seq(Bytes), Len(v) <= IsizeMax,
           NEW target, target = TargetLength(p, Len(v)), IsPadded(p)
    PROVE  SealError(p, v) = Ok <=>
                /\ p.kind = "length" => Len(v) <= p.size
                /\ target <= MaxMessageLen /\ target <= IsizeMax
<1>1. p.kind \in {"block", "length"} /\ p.size \in Nat \ {0} /\ Len(v) \in Nat
  BY PaddingAssumption DEF LegalPolicies, NoPadding, IsPadded
<1>2. IsizeMax \in Nat /\ IsizeMax <= UsizeMax /\ UsizeMax \in Nat /\ MaxMessageLen \in Nat
  BY PaddingAssumption DEF IsizeMax
<1>3. /\ target \in Nat
      /\ p.kind = "block" => target > Len(v)
      /\ p.kind = "length" => target = p.size + 1
  <2>1. CASE p.kind = "block"
    <3>1. target = DivCeil(Len(v) + 1, p.size) * p.size
      BY <2>1 DEF TargetLength
    <3> QED
      BY <1>1, <2>1, <3>1, NextMultiple
  <2>2. CASE p.kind = "length"
    BY <1>1, <2>2 DEF TargetLength
  <2> QED
    BY <1>1, <2>1, <2>2
<1>4. PadError(p, Len(v)) = Ok <=>
        /\ p.kind = "length" => Len(v) <= p.size
        /\ target <= IsizeMax
  BY <1>1, <1>2, <1>3 DEF PadError, Ok
<1>5. ASSUME PadError(p, Len(v)) = Ok PROVE Len(AeadPlaintext(p, v).bytes) = target
  <2>1. target > Len(v)
    BY <1>1, <1>3, <1>4, <1>5
  <2>2. AeadPlaintext(p, v).bytes = PadToLength(v, target)
    BY DEF AeadPlaintext
  <2> QED
    BY <1>3, <2>1, <2>2, PaddedBytes
<1> QED
  BY <1>2, <1>3, <1>4, <1>5 DEF SealError, Ok

(* RefusedOnlyForLength: a policy refuses only what its padded form has no *)
(* room for, in the policy, in memory or in the suite.                     *)
THEOREM RefusalsAreForLength == Spec => []RefusedOnlyForLength
<1>1. StoredAsSealed => RefusedOnlyForLength
  <2> SUFFICES ASSUME policy \in Policies PROVE RefusedOnlyForLength
    BY DEF StoredAsSealed
  <2> SUFFICES ASSUME NEW v \in Plaintexts
               PROVE  LET length == Len(v)
                          Fits(n) == n <= MaxMessageLen /\ n <= IsizeMax
                      IN  SealError(policy, v) = Ok <=>
                            CASE policy.kind = "none" -> Fits(length)
                              [] policy.kind = "length" ->
                                    length <= policy.size /\ Fits(policy.size + 1)
                              [] policy.kind = "block" ->
                                    \E n \in (length + 1)..(length + policy.size) :
                                        n % policy.size = 0 /\ Fits(n)
    BY DEF RefusedOnlyForLength
  <2> DEFINE target == TargetLength(policy, Len(v))
             Fits(n) == n <= MaxMessageLen /\ n <= IsizeMax
  <2>1. policy \in LegalPolicies /\ v \in Seq(Bytes) /\ Len(v) \in Nat /\ Len(v) <= IsizeMax
    BY PaddingAssumption
  <2>2. CASE policy.kind = "none"
    <3>1. ~IsPadded(policy)
      BY <2>2 DEF IsPadded
    <3>2. SealError(policy, v) = Ok <=> ~(Len(v) > MaxMessageLen)
      BY <3>1 DEF SealError, PadError, AeadPlaintext, Ok
    <3> QED
      BY <2>1, <2>2, <3>2, PaddingAssumption
  <2>3. CASE policy.kind = "length"
    <3>1. IsPadded(policy) /\ target = policy.size + 1
      BY <2>3 DEF IsPadded, TargetLength
    <3>2. SealError(policy, v) = Ok <=> Len(v) <= policy.size /\ Fits(target)
      BY <2>1, <2>3, <3>1, SealsWhatFits
    <3> QED
      BY <2>3, <3>1, <3>2
  <2>4. CASE policy.kind = "block"
    <3>1. IsPadded(policy) /\ policy.size \in Nat \ {0}
      BY <2>1, <2>4, PaddingAssumption DEF IsPadded, LegalPolicies, NoPadding
    <3>2. SealError(policy, v) = Ok <=> Fits(target)
      BY <2>1, <2>4, <3>1, SealsWhatFits
    <3> DEFINE q == DivCeil(Len(v) + 1, policy.size)
    <3>3. target = q * policy.size
      BY <2>4 DEF TargetLength
    <3>4. /\ target \in Nat /\ target > Len(v) /\ target <= Len(v) + policy.size
          /\ target % policy.size = 0
      BY <2>1, <3>1, <3>3, NextMultiple
    <3>5. q \in Nat
      <4>1. q = (Len(v) + policy.size) \div policy.size
        BY <2>1, <3>1 DEF DivCeil
      <4>2. Len(v) + policy.size \in Nat
        BY <2>1, <3>1
      <4> QED
        BY <3>1, <4>1, <4>2, SMTT(30)
    <3> HIDE DEF q, target
    <3>6. target \in (Len(v) + 1)..(Len(v) + policy.size)
      BY <2>1, <3>1, <3>4
    <3>7. ASSUME NEW n \in (Len(v) + 1)..(Len(v) + policy.size), n % policy.size = 0
          PROVE  n = target
      <4>1. n \in Nat /\ n > target - policy.size /\ n < target + policy.size
        BY <2>1, <3>1, <3>4
      <4> QED
        BY <3>1, <3>3, <3>5, <3>7, <4>1, SameMultiple
    <3>8. Fits(target) <=>
            \E n \in (Len(v) + 1)..(Len(v) + policy.size) : n % policy.size = 0 /\ Fits(n)
      BY <3>4, <3>6, <3>7
    <3> QED
      BY <2>4, <3>2, <3>8
  <2>5. policy.kind \in {"none", "length", "block"}
    BY <2>1 DEF LegalPolicies, NoPadding
  <2> QED
    BY <2>2, <2>3, <2>4, <2>5
<1> QED
  BY <1>1, StoredIsSealed, PTL

(* Together: the stored length is within the limits, tells what the policy *)
(* means it to, and refuses what is too long and nothing else (pad and     *)
(* check_message_len).                                                     *)
THEOREM LengthsAreExact == Spec => []LengthsExact
<1>1. TypeOK /\ LengthHidden /\ RefusedOnlyForLength => LengthsExact
  BY DEF LengthsExact
<1> QED
  BY <1>1, PaddingTypeCorrect, LengthsAreHidden, RefusalsAreForLength, PTL

-----------------------------------------------------------------------------
(***************************************************************************)
(* Preimages.                                                              *)
(***************************************************************************)

(* Natural numbers have least elements, and so the usual induction.        *)
LEMMA LeastNatural ==
    ASSUME NEW T, T \subseteq Nat, T # {}
    PROVE  \E x \in T : \A y \in T : x <= y
<1> DEFINE R == {ss \in Nat \X Nat : ss[1] < ss[2]}
<1>1. IsWellFoundedOn(R, Nat)
  BY NatLessThanWellFounded DEF OpToRel
<1>2. \E x \in T : \A y \in T : ~ (<<y, x>> \in R)
  <2> HIDE DEF R
  <2> QED
    BY <1>1, WFMin
<1>3. PICK x \in T : \A y \in T : ~ (<<y, x>> \in R)
  BY <1>2
<1>4. ASSUME NEW y \in T PROVE x <= y
  <2>1. <<y, x>> \notin R /\ <<y, x>> \in Nat \X Nat
    BY <1>3
  <2>2. ~ (y < x)
    BY <2>1
  <2> QED
    BY <2>2
<1> QED
  BY <1>4

LEMMA ByInduction ==
    ASSUME NEW S, 0 \in S, \A n \in Nat : n \in S => n + 1 \in S
    PROVE  Nat \subseteq S
<1> SUFFICES ASSUME Nat \ S # {} PROVE FALSE
  OBVIOUS
<1>1. PICK x \in Nat \ S : \A y \in Nat \ S : x <= y
  BY LeastNatural
<1>2. x # 0 /\ x - 1 \in Nat /\ x - 1 \in S
  BY <1>1
<1> QED
  BY <1>2
-----------------------------------------------------------------------------
(* Numbers as bytes.                                                       *)

PowersTo(base, m, f) == f = [n \in 0..m |-> IF n = 0 THEN 1 ELSE base * f[n - 1]]

LEMMA PowersExist ==
    ASSUME NEW base \in Nat \ {0}, NEW width \in Nat
    PROVE  \E f : PowersTo(base, width, f)
<1> DEFINE S == {m \in Nat : \E f : PowersTo(base, m, f)}
<1>1. 0 \in S
  <2> DEFINE f == [n \in 0..0 |-> 1]
  <2>1. f = [n \in 0..0 |-> IF n = 0 THEN 1 ELSE base * f[n - 1]]
    <3>1. 0..0 = {0}
      OBVIOUS
    <3> QED
      BY <3>1
  <2> QED
    BY <2>1 DEF PowersTo
<1>2. ASSUME NEW m \in Nat, m \in S PROVE m + 1 \in S
  <2>1. PICK f : PowersTo(base, m, f)
    BY <1>2
  <2> DEFINE g == [n \in 0..(m + 1) |-> IF n = m + 1 THEN base * f[m] ELSE f[n]]
             h == [n \in 0..(m + 1) |-> IF n = 0 THEN 1 ELSE base * g[n - 1]]
  <2>2. ASSUME NEW n \in 0..(m + 1) PROVE g[n] = h[n]
    <3>1. CASE n = m + 1
      <4>1. n - 1 = m /\ m \in 0..(m + 1) /\ m # m + 1 /\ n # 0
        BY <3>1
      <4>2. g[n - 1] = f[m]
        BY <4>1
      <4> QED
        BY <3>1, <4>1, <4>2
    <3>2. CASE n # m + 1
      <4>1. n \in 0..m
        BY <3>2
      <4>2. f[n] = IF n = 0 THEN 1 ELSE base * f[n - 1]
        BY <2>1, <4>1 DEF PowersTo
      <4>3. n # 0 => n - 1 \in 0..(m + 1) /\ n - 1 # m + 1
        BY <4>1
      <4>4. n # 0 => g[n - 1] = f[n - 1]
        BY <4>3
      <4> QED
        BY <3>2, <4>2, <4>4
    <3> QED
      BY <3>1, <3>2
  <2>3. g = h
    BY <2>2
  <2>4. PowersTo(base, m + 1, g)
    BY <2>3 DEF PowersTo
  <2> QED
    BY <2>4
<1> HIDE DEF S
<1>3. width \in S
  BY <1>1, <1>2, ByInduction
<1> QED
  BY <1>3 DEF S

LEMMA PowersAre ==
    ASSUME NEW base \in Nat \ {0}, NEW width \in Nat, NEW p, p = Powers(base, width)
    PROVE  /\ p[0] = 1
           /\ \A n \in 0..width - 1 : p[n + 1] = base * p[n]
           /\ \A n \in 0..width : p[n] \in Nat \ {0}
<1>1. p = CHOOSE f : PowersTo(base, width, f)
  BY DEF Powers, PowersTo
<1>2. p = [n \in 0..width |-> IF n = 0 THEN 1 ELSE base * p[n - 1]]
  <2>1. PowersTo(base, width, p)
    BY <1>1, PowersExist
  <2> QED
    BY <2>1 DEF PowersTo
<1>3. p[0] = 1 /\ \A n \in 0..width - 1 : p[n + 1] = base * p[n]
  <2>1. \A n \in 0..width : p[n] = IF n = 0 THEN 1 ELSE base * p[n - 1]
    BY <1>2
  <2>2. p[0] = 1
    BY <2>1
  <2>3. ASSUME NEW n \in 0..width - 1 PROVE p[n + 1] = base * p[n]
    <3>1. n + 1 \in 0..width /\ n + 1 # 0 /\ n + 1 - 1 = n
      OBVIOUS
    <3> QED
      BY <2>1, <3>1
  <2> QED
    BY <2>2, <2>3
<1> DEFINE S == {n \in Nat : n <= width => p[n] \in Nat \ {0}}
<1>4. 0 \in S
  BY <1>3
<1>5. ASSUME NEW n \in Nat, n \in S PROVE n + 1 \in S
  <2> SUFFICES ASSUME n + 1 <= width PROVE p[n + 1] \in Nat \ {0}
    OBVIOUS
  <2> DEFINE q == p[n]
  <2>1. q \in Nat \ {0} /\ p[n + 1] = base * q
    BY <1>3, <1>5
  <2> HIDE DEF q
  <2> QED
    BY <2>1, SMTT(30)
<1> HIDE DEF S
<1>6. Nat \subseteq S
  BY <1>4, <1>5, ByInduction
<1> QED
  BY <1>3, <1>6 DEF S

LEMMA BaseIsPositive == Base \in Nat \ {0}
BY PreimagesAssumption

LEMMA DividedTwice ==
    ASSUME NEW a \in Int, NEW b \in Nat \ {0}, NEW c \in Nat \ {0}
    PROVE  (a \div b) \div c = a \div (b * c)
BY SMTT(30)

LEMMA Divided ==
    ASSUME NEW a \in Int, NEW b \in Nat \ {0}, NEW q, q = a \div b, NEW r, r = a % b
    PROVE  q \in Int /\ r \in 0..b - 1 /\ a = b * q + r
<1>1. q \in Int /\ r \in 0..b - 1
  BY SMTT(30)
<1>2. r = a - b * q
  BY <1>1, SMTT(30)
<1>3. b * q \in Int
  BY <1>1
<1> QED
  BY <1>1, <1>2, <1>3

(* The same, for a quotient and a remainder that have names.               *)
DividesInto(a, b, q, r) == q = a \div b /\ r = a % b

LEMMA DividedInto ==
    ASSUME NEW a \in Int, NEW b \in Nat \ {0}, NEW q, NEW r, DividesInto(a, b, q, r)
    PROVE  q \in Int /\ r \in Int /\ a = b * q + r
<1>1. q = a \div b /\ r = a % b
  BY DEF DividesInto
<1>2. q \in Int
  BY <1>1, Divided
<1>3. r \in 0..b - 1
  BY <1>1, Divided
<1>4. r = a - b * q
  BY <1>1, <1>2, SMTT(30)
<1>5. b * q \in Int
  BY <1>2
<1> QED
  BY <1>2, <1>3, <1>4, <1>5

LEMMA Regrouped ==
    ASSUME NEW p \in Int, NEW b \in Int, NEW d \in Int
    PROVE  p * (b * d) = (b * p) * d
BY SMTT(30)

LEMMA SmallMultiple ==
    ASSUME NEW p \in Nat \ {0}, NEW d \in Int, p * d < p, p * d > -p
    PROVE  d = 0
BY SMTT(30)

LEMMA BytesOf ==
    ASSUME NEW n \in Int, NEW width \in Nat
    PROVE  /\ BigEndian(n, width) \in Seq(PreimageBytes)
           /\ Len(BigEndian(n, width)) = width
           /\ width > 0 => BigEndian(n, width)[width] = n % Base
<1> DEFINE p == Powers(Base, width)
<1>1. p[0] = 1 /\ \A i \in 0..width : p[i] \in Nat \ {0}
  BY PowersAre, BaseIsPositive
<1>2. BigEndian(n, width) = [i \in 1..width |-> (n \div p[width - i]) % Base]
  BY DEF BigEndian
<1> HIDE DEF p
<1>3. ASSUME NEW i \in 1..width PROVE (n \div p[width - i]) % Base \in PreimageBytes
  <2> DEFINE b == p[width - i]
             q == n \div b
  <2>1. b \in Nat \ {0}
    BY <1>1
  <2> HIDE DEF b
  <2>2. q \in Int
    BY <2>1, Divided
  <2> HIDE DEF q
  <2>3. q % Base \in 0..Base - 1
    BY <2>2, Divided, PreimagesAssumption
  <2> QED
    BY <2>3 DEF q, b, PreimageBytes
<1>4. BigEndian(n, width) \in [1..width -> PreimageBytes]
  BY <1>2, <1>3
<1>5. n \div 1 = n
  OBVIOUS
<1>6. width > 0 => BigEndian(n, width)[width] = n % Base
  BY <1>1, <1>2, <1>5
<1> QED
  BY <1>4, <1>6

(* Numbers with the same bytes differ by a multiple of the first power     *)
(* that has none of them.                                                  *)
LEMMA SameBytes ==
    ASSUME NEW width \in Nat, NEW a \in Int, NEW b \in Int,
           BigEndian(a, width) = BigEndian(b, width),
           NEW p, p = Powers(Base, width)
    PROVE  \E d \in Int : a - b = p[width] * d
<1>1. /\ p[0] = 1
      /\ \A n \in 0..width - 1 : p[n + 1] = Base * p[n]
      /\ \A n \in 0..width : p[n] \in Nat \ {0}
  BY PowersAre, BaseIsPositive
<1> DEFINE S == {n \in Nat : n <= width => a - b = p[n] * (a \div p[n] - b \div p[n])}
<1>2. 0 \in S
  <2>1. a \div 1 = a /\ b \div 1 = b
    OBVIOUS
  <2> QED
    BY <1>1, <2>1
<1>3. ASSUME NEW n \in Nat, n \in S PROVE n + 1 \in S
  <2> SUFFICES ASSUME n < width
               PROVE  a - b = p[n + 1] * (a \div p[n + 1] - b \div p[n + 1])
    OBVIOUS
  <2> DEFINE q == p[n]
             u == a \div q
             v == b \div q
             x == u \div Base
             y == v \div Base
             r == u % Base
  <2>1. q \in Nat \ {0} /\ p[n + 1] = Base * q /\ a - b = q * (u - v)
    BY <1>1, <1>3
  <2>2. u % Base = v % Base
    <3>1. width - n \in 1..width /\ width - (width - n) = n
      OBVIOUS
    <3>2. BigEndian(a, width)[width - n] = BigEndian(b, width)[width - n]
      OBVIOUS
    <3> QED
      BY <3>1, <3>2 DEF BigEndian
  <2> HIDE DEF q
  <2>3. u \in Int /\ v \in Int
    BY <2>1, Divided
  <2>4. x = a \div (q * Base) /\ y = b \div (q * Base)
    BY <2>1, DividedTwice, BaseIsPositive
  <2>5. DividesInto(u, Base, x, r) /\ DividesInto(v, Base, y, r)
    BY <2>2 DEF DividesInto
  <2>6. q * Base = Base * q
    BY <2>1, BaseIsPositive
  <2>7. p[n + 1] = Base * q /\ x = a \div p[n + 1] /\ y = b \div p[n + 1]
    BY <2>1, <2>4, <2>6
  <2> HIDE DEF u, v, x, y, r
  <2>8. x \in Int /\ y \in Int /\ r \in Int /\ u = Base * x + r /\ v = Base * y + r
    <3>1. x \in Int /\ r \in Int /\ u = Base * x + r
      BY <2>3, <2>5, DividedInto, BaseIsPositive
    <3>2. y \in Int /\ v = Base * y + r
      BY <2>3, <2>5, DividedInto, BaseIsPositive
    <3> QED
      BY <3>1, <3>2
  <2>9. u - v = Base * (x - y)
    BY <2>8, BaseIsPositive
  <2>10. a - b = (Base * q) * (x - y)
    <3>1. q * (Base * (x - y)) = (Base * q) * (x - y)
      BY <2>1, <2>8, Regrouped, BaseIsPositive
    <3> QED
      BY <2>1, <2>9, <3>1
  <2> QED
    BY <2>7, <2>10
<1> HIDE DEF S
<1>4. width \in S
  BY <1>2, <1>3, ByInduction
<1> DEFINE q == p[width]
<1>5. q \in Nat \ {0} /\ a - b = q * (a \div q - b \div q)
  BY <1>1, <1>4 DEF S
<1> HIDE DEF q
<1>6. a \div q \in Int /\ b \div q \in Int
  BY <1>5, Divided
<1> QED
  BY <1>5, <1>6 DEF q

LEMMA I64Told ==
    ASSUME NEW a \in I64Values, NEW b \in I64Values,
           BigEndian(a, I64Len) = BigEndian(b, I64Len)
    PROVE  a = b
<1> DEFINE p == Powers(Base, I64Len)
           q == p[I64Len]
<1>1. I64Len \in Nat
  BY PreimagesAssumption
<1>2. q \in Nat \ {0}
  BY <1>1, PowersAre, BaseIsPositive
<1>3. a \in -(q \div 2)..(q \div 2 - 1) /\ b \in -(q \div 2)..(q \div 2 - 1)
  BY DEF I64Values
<1>4. \E d \in Int : a - b = q * d
  <2>1. a \in Int /\ b \in Int
    BY <1>2, <1>3
  <2> QED
    BY <1>1, <2>1, SameBytes
<1> HIDE DEF q
<1>5. PICK d \in Int : a - b = q * d
  BY <1>4
<1>6. q * d < q /\ q * d > -q
  BY <1>2, <1>3, <1>5
<1>7. d = 0
  BY <1>2, <1>6, SmallMultiple
<1> QED
  BY <1>2, <1>3, <1>5, <1>7

LEMMA PrecisionTold ==
    ASSUME NEW a \in Precisions, NEW b \in Precisions, BigEndian(a, 2) = BigEndian(b, 2)
    PROVE  a = b
<1> DEFINE p == Powers(Base, 2)
           q == p[2]
<1>1. p[0] = 1 /\ p[1] = Base * p[0] /\ q = Base * p[1]
  <2>1. 0 \in 0..2 - 1 /\ 1 \in 0..2 - 1 /\ 0 + 1 = 1 /\ 1 + 1 = 2
    OBVIOUS
  <2> QED
    BY <2>1, PowersAre, BaseIsPositive
<1>2. q = Base * Base /\ q \in Nat \ {0}
  BY <1>1, PreimagesAssumption
<1>3. a \in 0..(q - 1) /\ b \in 0..(q - 1)
  BY <1>2, PreimagesAssumption
<1>4. \E d \in Int : a - b = q * d
  BY <1>3, SameBytes
<1> HIDE DEF q
<1>5. PICK d \in Int : a - b = q * d
  BY <1>4
<1>6. q * d < q /\ q * d > -q
  BY <1>2, <1>3, <1>5
<1>7. d = 0
  BY <1>2, <1>6, SmallMultiple
<1> QED
  BY <1>2, <1>3, <1>5, <1>7
-----------------------------------------------------------------------------
(* Sequences put one after the other.                                      *)

Labels ==
    {"context-fingerprint", "encryption-key", "envelope-aad", "blind-index-key",
     "blind-index-value"}

Items == Int \cup Labels \cup Fingerprints

LEMMA Joined ==
    ASSUME NEW S, NEW a \in Seq(S), NEW b \in Seq(S)
    PROVE  a \o b \in Seq(S) /\ Len(a \o b) = Len(a) + Len(b)
OBVIOUS

LEMMA SeqsEqual ==
    ASSUME NEW S, NEW a \in Seq(S), NEW b \in Seq(S), Len(a) = Len(b),
           \A i \in 1..Len(a) : a[i] = b[i]
    PROVE  a = b
OBVIOUS

(* Where the first parts are equally long the parts can be told.           *)
LEMMA Cut ==
    ASSUME NEW S, NEW a \in Seq(S), NEW b \in Seq(S), NEW c \in Seq(S), NEW d \in Seq(S),
           Len(a) = Len(c), a \o b = c \o d
    PROVE  a = c /\ b = d
<1>1. Len(b) = Len(d)
  BY Joined
<1>2. ASSUME NEW i \in 1..Len(a) PROVE a[i] = c[i]
  <2>1. (a \o b)[i] = a[i] /\ (c \o d)[i] = c[i]
    OBVIOUS
  <2> QED
    BY <2>1
<1>3. ASSUME NEW i \in 1..Len(b) PROVE b[i] = d[i]
  <2>1. Len(a) + i \in 1..Len(a) + Len(b) /\ Len(a) + i > Len(a)
    OBVIOUS
  <2>2. (a \o b)[Len(a) + i] = b[i] /\ (c \o d)[Len(a) + i] = d[i]
    BY <1>1, <2>1
  <2> QED
    BY <2>2
<1>4. a = c
  BY <1>2
<1>5. b = d
  <2>1. Len(b) = Len(d) /\ \A i \in 1..Len(b) : b[i] = d[i]
    BY <1>1, <1>3
  <2> QED
    BY <2>1, SeqsEqual
<1> QED
  BY <1>4, <1>5

(* A sequence of items and how many there are of them.                     *)
Spans(a, n) == a \in Seq(Items) /\ Len(a) = n

LEMMA SpansJoin ==
    ASSUME NEW a, NEW b, NEW m, NEW n, Spans(a, m), Spans(b, n)
    PROVE  Spans(a \o b, m + n)
BY Joined DEF Spans

LEMMA SpansCut ==
    ASSUME NEW n, NEW a, NEW b, NEW c, NEW d, Spans(a, n), Spans(c, n),
           b \in Seq(Items), d \in Seq(Items), a \o b = c \o d
    PROVE  a = c /\ b = d
<1>1. a \in Seq(Items) /\ c \in Seq(Items) /\ Len(a) = Len(c)
  BY DEF Spans
<1> QED
  BY <1>1, Cut

LEMMA SpansSingle ==
    ASSUME NEW x \in Items
    PROVE  Spans(<<x>>, 1)
BY DEF Spans

LEMMA LabelsSpan ==
    ASSUME NEW label \in Labels
    PROVE  Spans(<<label>>, 1)
<1>1. label \in Items
  BY DEF Items
<1> QED
  BY <1>1, SpansSingle

Kinds == {"none", "uuid", "i64"}

LEMMA BytesSpan ==
    ASSUME NEW n \in Int, NEW width \in Nat
    PROVE  Spans(BigEndian(n, width), width)
<1> DEFINE bytes == BigEndian(n, width)
<1>1. bytes \in Seq(PreimageBytes) /\ Len(bytes) = width
  BY BytesOf
<1> HIDE DEF bytes
<1>2. PreimageBytes \subseteq Items
  BY PreimagesAssumption DEF PreimageBytes, Items
<1>3. Spans(bytes, width)
  BY <1>1, <1>2 DEF Spans
<1> QED
  BY <1>3 DEF bytes

LEMMA Counted ==
    ASSUME NEW kind \in Kinds
    PROVE  /\ Spans(Count(kind), 2)
           /\ Count(kind)[2] = IF kind = "none" THEN 0 ELSE 1
<1> DEFINE n == IF kind = "none" THEN 0 ELSE 1
<1>1. n \in Int /\ n \in Nat /\ n < Base /\ 2 \in Nat /\ 2 > 0
  BY PreimagesAssumption
<1>2. Count(kind) = BigEndian(n, 2)
  BY DEF Count
<1> HIDE DEF n
<1>3. n % Base = n
  BY <1>1, PreimagesAssumption
<1>4. Spans(BigEndian(n, 2), 2) /\ BigEndian(n, 2)[2] = n
  BY <1>1, <1>3, BytesOf, BytesSpan
<1> QED
  BY <1>2, <1>4 DEF n

(* A fingerprint tells the kind of the context.                            *)
LEMMA FingerprintsTold ==
    ASSUME NEW k \in Kinds, NEW l \in Kinds, Fingerprint(k) = Fingerprint(l)
    PROVE  k = l
<1> DEFINE Of(kind) == IF kind = "none" THEN <<>> ELSE <<Code(kind)>>
           Start(kind) == <<"context-fingerprint">> \o Count(kind)
<1>1. ASSUME NEW kind \in Kinds
      PROVE  /\ Fingerprint(kind) = Start(kind) \o Of(kind)
             /\ Spans(Start(kind), 1 + 2) /\ Of(kind) \in Seq(Items)
  <2>1. Code(kind) \in Items
    BY DEF Code, Items
  <2>2. Of(kind) \in Seq(Items)
    BY <2>1
  <2>3. Spans(Start(kind), 1 + 2)
    <3>1. Spans(<<"context-fingerprint">>, 1)
      BY LabelsSpan DEF Labels
    <3>2. Spans(Count(kind), 2)
      BY Counted
    <3> QED
      BY <3>1, <3>2, SpansJoin, Zenon
  <2>4. Fingerprint(kind) = Start(kind) \o Of(kind)
    BY DEF Fingerprint
  <2> QED
    BY <2>2, <2>3, <2>4
<1> DEFINE a == Start(k)
           b == Of(k)
           c == Start(l)
           d == Of(l)
<1>2. /\ Spans(a, 1 + 2) /\ Spans(c, 1 + 2) /\ b \in Seq(Items) /\ d \in Seq(Items)
      /\ a \o b = c \o d
  <2> HIDE DEF Start, Of
  <2> QED
    BY <1>1
<1> HIDE DEF a, b, c, d
<1>3. b = d
  BY <1>2, SpansCut, Zenon
<1> QED
  BY <1>3 DEF b, d, Code, Kinds
-----------------------------------------------------------------------------
(* Contexts.                                                               *)

LEMMA RecordsAre ==
    ASSUME NEW record \in RecordValues
    PROVE  /\ record.kind \in Kinds
           /\ record.kind = "none" <=> record = NoRecord
           /\ record = [kind |-> record.kind, value |-> record.value]
           /\ record.kind = "uuid" => record.value \in [1..UuidLen -> PreimageBytes]
           /\ record.kind = "i64" => record.value \in I64Values
BY DEF RecordValues, NoRecord, Kinds

LEMMA I64ValuesAreInts == I64Values \subseteq Int
<1> DEFINE q == Powers(Base, I64Len)[I64Len]
<1>1. q \in Nat
  BY PreimagesAssumption, PowersAre, BaseIsPositive
<1>2. I64Values = -(q \div 2)..(q \div 2 - 1)
  BY DEF I64Values
<1> HIDE DEF q
<1> QED
  BY <1>1, <1>2

LEMMA IdsSpan ==
    ASSUME NEW id \in SealIds \cup IndexIds \cup KeyIdBytes
    PROVE  Spans(id, IdLen)
<1>1. PreimageBytes \subseteq Items
  BY PreimagesAssumption DEF PreimageBytes, Items
<1>2. id \in Seq(PreimageBytes) /\ Len(id) = IdLen
  BY PreimagesAssumption
<1> QED
  BY <1>1, <1>2 DEF Spans

LengthOf(kind) == IF kind = "uuid" THEN UuidLen ELSE I64Len

LEMMA PartsSpan ==
    ASSUME NEW record \in RecordValues, record.kind # "none"
    PROVE  Spans(RecordBytes(record), LengthOf(record.kind))
<1>1. CASE record.kind = "uuid"
  <2>1. record.value \in [1..UuidLen -> PreimageBytes] /\ RecordBytes(record) = record.value
    BY <1>1, RecordsAre DEF RecordBytes
  <2>2. PreimageBytes \subseteq Items
    BY PreimagesAssumption DEF PreimageBytes, Items
  <2>3. Spans(record.value, UuidLen)
    BY <2>1, <2>2, PreimagesAssumption DEF Spans
  <2> QED
    BY <1>1, <2>1, <2>3 DEF LengthOf
<1>2. CASE record.kind # "uuid"
  <2>1. record.value \in Int /\ RecordBytes(record) = BigEndian(record.value, I64Len)
    BY <1>2, RecordsAre, I64ValuesAreInts DEF RecordBytes, Kinds
  <2> QED
    BY <1>2, <2>1, BytesSpan, PreimagesAssumption DEF LengthOf
<1> QED
  BY <1>1, <1>2

LEMMA PartsTold ==
    ASSUME NEW a \in RecordValues, NEW b \in RecordValues, a.kind = b.kind,
           a.kind # "none", RecordBytes(a) = RecordBytes(b)
    PROVE  a = b
<1>1. a.value = b.value
  <2>1. CASE a.kind = "uuid"
    BY <2>1 DEF RecordBytes
  <2>2. CASE a.kind # "uuid"
    <3>1. a.value \in I64Values /\ b.value \in I64Values
      BY <2>2, RecordsAre DEF Kinds
    <3>2. BigEndian(a.value, I64Len) = BigEndian(b.value, I64Len)
      BY <2>2 DEF RecordBytes
    <3> QED
      BY <3>1, <3>2, I64Told
  <2> QED
    BY <2>1, <2>2
<1> QED
  BY <1>1, RecordsAre

PartBytes(record) ==
    IF record = NoRecord THEN <<>>
    ELSE <<Code(record.kind)>> \o BigEndian(Len(RecordBytes(record)), 4) \o RecordBytes(record)

LEMMA ContextsAre ==
    ASSUME NEW context \in Contexts
    PROVE  /\ context.seal \in SealIds /\ context.record \in RecordValues
           /\ context = [seal |-> context.seal, record |-> context.record]
BY DEF Contexts

LEMMA PartBytesAre ==
    ASSUME NEW record \in RecordValues
    PROVE  /\ PartBytes(record) \in Seq(Items)
           /\ record # NoRecord =>
                /\ Spans(<<Code(record.kind)>>, 1)
                /\ BigEndian(Len(RecordBytes(record)), 4) \in Seq(Items)
                /\ Spans(<<Code(record.kind)>> \o BigEndian(Len(RecordBytes(record)), 4), 1 + 4)
                /\ RecordBytes(record) \in Seq(Items)
<1>1. CASE record = NoRecord
  BY <1>1 DEF PartBytes
<1>2. CASE record # NoRecord
  <2> DEFINE part == RecordBytes(record)
             bytes == BigEndian(Len(part), 4)
             code == <<Code(record.kind)>>
  <2>1. Spans(part, LengthOf(record.kind)) /\ LengthOf(record.kind) \in Nat
    BY <1>2, RecordsAre, PartsSpan, PreimagesAssumption DEF LengthOf
  <2>2. part \in Seq(Items) /\ Len(part) \in Int /\ 4 \in Nat
    BY <2>1 DEF Spans
  <2>3. Spans(bytes, 4)
    BY <2>2, BytesSpan
  <2>4. Spans(code, 1)
    <3>1. Code(record.kind) \in Items
      BY DEF Code, Items
    <3> QED
      BY <3>1, SpansSingle
  <2>5. PartBytes(record) = code \o bytes \o part
    BY <1>2 DEF PartBytes
  <2> HIDE DEF part, bytes, code
  <2>6. Spans(code \o bytes, 1 + 4)
    BY <2>3, <2>4, SpansJoin, Zenon
  <2>7. bytes \in Seq(Items) /\ code \o bytes \in Seq(Items)
    BY <2>3, <2>6 DEF Spans
  <2>8. (code \o bytes) \o part \in Seq(Items)
    BY <2>2, <2>7, Joined
  <2> QED
    BY <1>2, <2>2, <2>4, <2>5, <2>6, <2>7, <2>8 DEF part, bytes, code
<1> QED
  BY <1>1, <1>2

LEMMA ContextBytesAre ==
    ASSUME NEW context \in Contexts
    PROVE  /\ ContextBytes(context) =
                context.seal \o Count(context.record.kind) \o PartBytes(context.record)
           /\ Spans(context.seal, IdLen)
           /\ Count(context.record.kind) \in Seq(Items)
           /\ Spans(context.seal \o Count(context.record.kind), IdLen + 2)
           /\ PartBytes(context.record) \in Seq(Items)
           /\ ContextBytes(context) \in Seq(Items)
<1> DEFINE seal == context.seal
           count == Count(context.record.kind)
           part == PartBytes(context.record)
<1>1. ContextBytes(context) = seal \o count \o part
  BY DEF ContextBytes, PartBytes
<1>2. Spans(seal, IdLen)
  BY ContextsAre, IdsSpan
<1>3. Spans(count, 2)
  BY ContextsAre, RecordsAre, Counted
<1>4. part \in Seq(Items)
  BY ContextsAre, PartBytesAre
<1> HIDE DEF seal, count, part
<1>5. Spans(seal \o count, IdLen + 2)
  BY <1>2, <1>3, SpansJoin, Zenon
<1>6. count \in Seq(Items) /\ seal \o count \in Seq(Items)
  BY <1>3, <1>5 DEF Spans
<1>7. (seal \o count) \o part \in Seq(Items)
  BY <1>4, <1>6, Joined
<1> QED
  BY <1>1, <1>2, <1>4, <1>5, <1>6, <1>7 DEF seal, count, part

(* The bytes of a context tell its seal ID and its record.                 *)
LEMMA ContextsTold ==
    ASSUME NEW c \in Contexts, NEW d \in Contexts, ContextBytes(c) = ContextBytes(d)
    PROVE  c = d
<1> DEFINE r == c.record
           s == d.record
<1>1. r \in RecordValues /\ s \in RecordValues
  BY ContextsAre
<1>2. c.seal \o Count(r.kind) = d.seal \o Count(s.kind) /\ PartBytes(r) = PartBytes(s)
  <2> DEFINE a == c.seal \o Count(r.kind)
             b == PartBytes(r)
             e == d.seal \o Count(s.kind)
             f == PartBytes(s)
  <2>1. /\ Spans(a, IdLen + 2) /\ Spans(e, IdLen + 2) /\ b \in Seq(Items) /\ f \in Seq(Items)
        /\ a \o b = e \o f
    BY ContextBytesAre
  <2> HIDE DEF a, b, e, f
  <2>2. a = e /\ b = f
    BY <2>1, SpansCut, Zenon
  <2> QED
    BY <2>2 DEF a, b, e, f
<1>3. c.seal = d.seal /\ Count(r.kind) = Count(s.kind)
  <2> DEFINE a == c.seal
             b == Count(r.kind)
             e == d.seal
             f == Count(s.kind)
  <2>1. /\ Spans(a, IdLen) /\ Spans(e, IdLen) /\ b \in Seq(Items) /\ f \in Seq(Items)
        /\ a \o b = e \o f
    BY <1>2, ContextBytesAre
  <2> HIDE DEF a, b, e, f
  <2>2. a = e /\ b = f
    BY <2>1, SpansCut, Zenon
  <2> QED
    BY <2>2 DEF a, b, e, f
<1>4. r = NoRecord <=> s = NoRecord
  <2>1. r.kind \in Kinds /\ s.kind \in Kinds
    BY <1>1, RecordsAre
  <2>2. r.kind = "none" <=> s.kind = "none"
    BY <1>3, <2>1, Counted
  <2> QED
    BY <1>1, <2>2, RecordsAre
<1>5. r = s
  <2>1. CASE r = NoRecord
    BY <1>4, <2>1
  <2>2. CASE r # NoRecord
    <3> DEFINE a == <<Code(r.kind)>>
               b == BigEndian(Len(RecordBytes(r)), 4)
               e == <<Code(s.kind)>>
               f == BigEndian(Len(RecordBytes(s)), 4)
    <3>1. (a \o b) \o RecordBytes(r) = (e \o f) \o RecordBytes(s)
      BY <1>2, <1>4, <2>2 DEF PartBytes
    <3>2. /\ Spans(a, 1) /\ b \in Seq(Items) /\ Spans(a \o b, 1 + 4)
          /\ RecordBytes(r) \in Seq(Items)
      BY <1>1, <2>2, PartBytesAre
    <3>3. /\ Spans(e, 1) /\ f \in Seq(Items) /\ Spans(e \o f, 1 + 4)
          /\ RecordBytes(s) \in Seq(Items)
      BY <1>1, <1>4, <2>2, PartBytesAre
    <3> HIDE DEF a, b, e, f
    <3>4. a \o b = e \o f /\ RecordBytes(r) = RecordBytes(s)
      BY <3>1, <3>2, <3>3, SpansCut, Zenon
    <3>5. a = e
      BY <3>2, <3>3, <3>4, SpansCut, Zenon
    <3>6. Code(r.kind) = Code(s.kind)
      BY <3>5 DEF a, e
    <3>7. r.kind \in {"uuid", "i64"} /\ s.kind \in {"uuid", "i64"}
      BY <1>1, <1>4, <2>2, RecordsAre DEF Kinds
    <3>8. r.kind = s.kind /\ r.kind # "none"
      BY <3>6, <3>7 DEF Code
    <3> QED
      BY <1>1, <3>4, <3>8, PartsTold
  <2> QED
    BY <2>1, <2>2
<1> QED
  BY <1>3, <1>5, ContextsAre
-----------------------------------------------------------------------------
(* Envelopes.                                                              *)

LEMMA HeadersAre ==
    ASSUME NEW header \in Headers
    PROVE  /\ header.padded \in BOOLEAN /\ header.key \in KeyIdBytes
           /\ header.fingerprint \in Fingerprints /\ header.nonce \in Nonces
           /\ header = [padded |-> header.padded, key |-> header.key,
                        fingerprint |-> header.fingerprint, nonce |-> header.nonce]
BY DEF Headers

Opening(header) == <<FormatVersion, ActiveSuite, IF header.padded THEN 1 ELSE 0>>

LEMMA PrefixesAre ==
    ASSUME NEW header \in Headers
    PROVE  /\ Prefix(header) =
                Opening(header) \o header.key \o <<header.fingerprint>> \o header.nonce
           /\ Spans(Opening(header), 3) /\ Spans(header.key, IdLen)
           /\ header.key \in Seq(Items) /\ <<header.fingerprint>> \in Seq(Items)
           /\ header.nonce \in Seq(Items)
           /\ Spans(Opening(header) \o header.key, 3 + IdLen)
           /\ Spans(Opening(header) \o header.key \o <<header.fingerprint>>, 3 + IdLen + 1)
           /\ Spans(Prefix(header), 3 + IdLen + 1 + 1)
<1> DEFINE opening == Opening(header)
           key == header.key
           print == <<header.fingerprint>>
           nonce == header.nonce
<1>1. Prefix(header) = opening \o key \o print \o nonce
  BY DEF Prefix, Opening
<1>2. Spans(opening, 3)
  <2> DEFINE flag == IF header.padded THEN 1 ELSE 0
  <2>1. 2 \in Items /\ 1 \in Items /\ flag \in Items /\ opening = <<2, 1, flag>>
    BY DEF Items, Opening, FormatVersion, ActiveSuite
  <2> HIDE DEF opening, flag
  <2> QED
    BY <2>1 DEF Spans
<1>3. Spans(key, IdLen)
  BY HeadersAre, IdsSpan
<1>4. Spans(print, 1)
  <2>1. header.fingerprint \in Items
    BY HeadersAre DEF Items
  <2> QED
    BY <2>1, SpansSingle
<1>5. Spans(nonce, 1)
  <2>1. 0 \in Items /\ 1 \in Items /\ (nonce = <<0>> \/ nonce = <<1>>)
    BY HeadersAre DEF Items, Nonces
  <2> QED
    BY <2>1, SpansSingle
<1> HIDE DEF opening, key, print, nonce
<1>6. Spans(opening \o key, 3 + IdLen)
  BY <1>2, <1>3, SpansJoin, Zenon
<1>7. Spans(opening \o key \o print, 3 + IdLen + 1)
  BY <1>4, <1>6, SpansJoin, Zenon
<1>8. Spans(opening \o key \o print \o nonce, 3 + IdLen + 1 + 1)
  BY <1>5, <1>7, SpansJoin, Zenon
<1>9. key \in Seq(Items) /\ print \in Seq(Items) /\ nonce \in Seq(Items)
  BY <1>3, <1>4, <1>5 DEF Spans
<1> QED
  BY <1>1, <1>2, <1>3, <1>6, <1>7, <1>8, <1>9 DEF opening, key, print, nonce

(* The bytes of a header tell all that is in it.                           *)
LEMMA HeadersTold ==
    ASSUME NEW g \in Headers, NEW h \in Headers, Prefix(g) = Prefix(h)
    PROVE  g = h
<1> DEFINE a == Opening(g)
           b == g.key
           c == <<g.fingerprint>>
           d == g.nonce
           aa == Opening(h)
           bb == h.key
           cc == <<h.fingerprint>>
           dd == h.nonce
<1>1. a \o b \o c \o d = aa \o bb \o cc \o dd
  BY PrefixesAre
<1>2. a \o b \o c = aa \o bb \o cc /\ d = dd
  <2>1. /\ Spans(a \o b \o c, 3 + IdLen + 1) /\ Spans(aa \o bb \o cc, 3 + IdLen + 1)
        /\ d \in Seq(Items) /\ dd \in Seq(Items)
    BY PrefixesAre
  <2> DEFINE x == a \o b \o c
             y == aa \o bb \o cc
             n == 3 + IdLen + 1
  <2>2. x \o d = y \o dd /\ Spans(x, n) /\ Spans(y, n)
    BY <1>1, <2>1
  <2> HIDE DEF a, b, c, d, aa, bb, cc, dd, x, y, n
  <2>3. x = y /\ d = dd
    BY <2>1, <2>2, SpansCut
  <2> QED
    BY <2>3 DEF x, y
<1>3. a \o b = aa \o bb /\ c = cc
  <2>1. /\ Spans(a \o b, 3 + IdLen) /\ Spans(aa \o bb, 3 + IdLen)
        /\ c \in Seq(Items) /\ cc \in Seq(Items)
    BY PrefixesAre
  <2> DEFINE x == a \o b
             y == aa \o bb
             n == 3 + IdLen
  <2>2. x \o c = y \o cc /\ Spans(x, n) /\ Spans(y, n)
    BY <1>2, <2>1
  <2> HIDE DEF a, b, c, d, aa, bb, cc, dd, x, y, n
  <2>3. x = y /\ c = cc
    BY <2>1, <2>2, SpansCut
  <2> QED
    BY <2>3 DEF x, y
<1>4. a = aa /\ b = bb
  <2>1. Spans(a, 3) /\ Spans(aa, 3) /\ b \in Seq(Items) /\ bb \in Seq(Items)
    BY PrefixesAre
  <2> HIDE DEF a, b, c, d, aa, bb, cc, dd
  <2> QED
    BY <1>3, <2>1, SpansCut, Zenon
<1>5. g.padded = h.padded
  BY <1>4, HeadersAre DEF Opening
<1>6. g.key = h.key /\ g.fingerprint = h.fingerprint /\ g.nonce = h.nonce
  BY <1>2, <1>3, <1>4
<1> QED
  BY <1>5, <1>6, HeadersAre

(* What the AEAD authenticates tells the header and the context.           *)
LEMMA SealingsTold ==
    ASSUME NEW g \in Headers, NEW h \in Headers, NEW c \in Contexts, NEW d \in Contexts,
           Sealing(g, c) = Sealing(h, d)
    PROVE  g = h /\ c = d
<1> DEFINE label == <<"envelope-aad">>
           a == Prefix(g)
           b == ContextBytes(c)
           e == Prefix(h)
           f == ContextBytes(d)
<1>1. label \o a \o b = label \o e \o f
  BY DEF Sealing, Aad
<1>2. Spans(label, 1)
  BY LabelsSpan DEF Labels
<1>3. Spans(a, 3 + IdLen + 1 + 1) /\ Spans(e, 3 + IdLen + 1 + 1)
  BY PrefixesAre
<1>4. b \in Seq(Items) /\ f \in Seq(Items)
  BY ContextBytesAre
<1> HIDE DEF label, a, b, e, f
<1>5. Spans(label \o a, 1 + (3 + IdLen + 1 + 1))
  BY <1>2, <1>3, SpansJoin, Zenon
<1>6. Spans(label \o e, 1 + (3 + IdLen + 1 + 1))
  BY <1>2, <1>3, SpansJoin, Zenon
<1>7. label \o a = label \o e /\ b = f
  <2> DEFINE x == label \o a
             y == label \o e
             n == 1 + (3 + IdLen + 1 + 1)
  <2>1. x \o b = y \o f /\ Spans(x, n) /\ Spans(y, n)
    BY <1>1, <1>5, <1>6
  <2> HIDE DEF x, y, n
  <2>2. x = y /\ b = f
    BY <1>4, <2>1, SpansCut
  <2> QED
    BY <2>2 DEF x, y
<1>8. a \in Seq(Items) /\ e \in Seq(Items)
  BY <1>3 DEF Spans
<1>9. a = e
  BY <1>2, <1>7, <1>8, SpansCut, Zenon
<1> QED
  BY <1>7, <1>9, HeadersTold, ContextsTold DEF a, b, e, f
-----------------------------------------------------------------------------
(* Blind indexes.                                                          *)

SealOnly(spec) == [seal |-> spec.seal, record |-> NoRecord]

LEMMA SpecsAre ==
    ASSUME NEW spec \in Specs
    PROVE  /\ spec.seal \in SealIds /\ spec.index \in IndexIds /\ spec.bits \in Precisions
           /\ spec.bits \in Int
           /\ spec = [seal |-> spec.seal, index |-> spec.index, bits |-> spec.bits]
           /\ SealOnly(spec) \in Contexts
<1>1. spec = [seal |-> spec.seal, index |-> spec.index, bits |-> spec.bits]
      /\ spec.seal \in SealIds /\ spec.index \in IndexIds /\ spec.bits \in Precisions
  BY DEF Specs
<1>2. spec.bits \in Int
  BY <1>1, PreimagesAssumption
<1>3. SealOnly(spec) \in Contexts
  BY <1>1 DEF SealOnly, Contexts, RecordValues
<1> QED
  BY <1>1, <1>2, <1>3

LEMMA SealOnlyBytes ==
    ASSUME NEW spec \in Specs
    PROVE  /\ ContextBytes(SealOnly(spec)) = spec.seal \o Count("none")
           /\ Spans(ContextBytes(SealOnly(spec)), IdLen + 2)
<1> DEFINE c == SealOnly(spec)
<1>1. c \in Contexts /\ c.seal = spec.seal /\ c.record = NoRecord /\ c.record.kind = "none"
  BY SpecsAre DEF SealOnly, NoRecord
<1>2. PartBytes(c.record) = <<>>
  BY <1>1 DEF PartBytes
<1> HIDE DEF c
<1> DEFINE a == spec.seal \o Count("none")
<1>3. ContextBytes(c) = a \o <<>> /\ Spans(a, IdLen + 2)
  BY <1>1, <1>2, ContextBytesAre
<1> HIDE DEF a
<1>4. a \in Seq(Items)
  BY <1>3 DEF Spans
<1>5. a \o <<>> = a
  BY <1>4
<1> QED
  BY <1>3, <1>5 DEF a, c

LEMMA IndexHeadersAre ==
    ASSUME NEW key \in KeyIdBytes, NEW bits \in Int
    PROVE  /\ Spans(<<FormatVersion>>, 1) /\ Spans(key, IdLen) /\ key \in Seq(Items)
           /\ BigEndian(bits, 2) \in Seq(Items)
           /\ Spans(<<FormatVersion>> \o key, 1 + IdLen)
           /\ Spans(IndexHeader(key, bits), 1 + IdLen + 2)
<1> DEFINE version == <<FormatVersion>>
           bytes == BigEndian(bits, 2)
<1>1. IndexHeader(key, bits) = version \o key \o bytes
  BY DEF IndexHeader
<1>2. Spans(version, 1)
  BY SpansSingle DEF Items, FormatVersion
<1>3. Spans(key, IdLen)
  BY IdsSpan
<1>4. Spans(bytes, 2)
  BY BytesSpan
<1> HIDE DEF version, bytes
<1>5. Spans(version \o key, 1 + IdLen)
  BY <1>2, <1>3, SpansJoin, Zenon
<1>6. Spans(version \o key \o bytes, 1 + IdLen + 2)
  BY <1>4, <1>5, SpansJoin, Zenon
<1>7. key \in Seq(Items) /\ bytes \in Seq(Items)
  BY <1>3, <1>4 DEF Spans
<1> QED
  BY <1>1, <1>2, <1>3, <1>5, <1>6, <1>7 DEF version, bytes

LEMMA IndexContextsAre ==
    ASSUME NEW spec \in Specs, NEW key \in KeyIdBytes
    PROVE  /\ spec.index \in Seq(Items)
           /\ Spans(IndexHeader(key, spec.bits) \o ContextBytes(SealOnly(spec)),
                    1 + IdLen + 2 + (IdLen + 2))
           /\ Spans(IndexContext(spec, key), 1 + IdLen + 2 + (IdLen + 2) + IdLen)
<1> DEFINE a == IndexHeader(key, spec.bits)
           b == ContextBytes(SealOnly(spec))
           c == spec.index
<1>1. IndexContext(spec, key) = a \o b \o c
  BY DEF IndexContext, SealOnly
<1>2. Spans(a, 1 + IdLen + 2)
  BY SpecsAre, IndexHeadersAre
<1>3. Spans(b, IdLen + 2)
  BY SealOnlyBytes
<1>4. Spans(c, IdLen)
  BY SpecsAre, IdsSpan
<1> HIDE DEF a, b, c
<1>5. Spans(a \o b, 1 + IdLen + 2 + (IdLen + 2))
  BY <1>2, <1>3, SpansJoin, Zenon
<1>6. Spans(a \o b \o c, 1 + IdLen + 2 + (IdLen + 2) + IdLen)
  BY <1>4, <1>5, SpansJoin, Zenon
<1>7. c \in Seq(Items)
  BY <1>4 DEF Spans
<1> QED
  BY <1>1, <1>5, <1>6, <1>7 DEF a, b, c

LEMMA IndexHeadersTold ==
    ASSUME NEW key \in KeyIdBytes, NEW other \in KeyIdBytes,
           NEW bits \in Precisions, NEW others \in Precisions,
           IndexHeader(key, bits) = IndexHeader(other, others)
    PROVE  key = other /\ bits = others
<1> DEFINE x == <<FormatVersion>> \o key
           y == <<FormatVersion>> \o other
           b == BigEndian(bits, 2)
           d == BigEndian(others, 2)
           n == 1 + IdLen
<1>1. bits \in Int /\ others \in Int
  BY PreimagesAssumption
<1>2. /\ Spans(x, n) /\ Spans(y, n) /\ b \in Seq(Items) /\ d \in Seq(Items)
      /\ x \o b = y \o d
  BY <1>1, IndexHeadersAre DEF IndexHeader
<1> HIDE DEF x, y, b, d, n
<1>3. x = y /\ b = d
  BY <1>2, SpansCut
<1>4. key = other
  <2> DEFINE v == <<FormatVersion>>
  <2>1. v \o key = v \o other
    BY <1>3 DEF x, y
  <2>2. Spans(v, 1) /\ key \in Seq(Items) /\ other \in Seq(Items)
    BY <1>1, IndexHeadersAre
  <2> HIDE DEF v
  <2> QED
    BY <2>1, <2>2, SpansCut
<1>5. bits = others
  BY <1>3, PrecisionTold DEF b, d
<1> QED
  BY <1>4, <1>5

LEMMA IndexContextsTold ==
    ASSUME NEW s \in Specs, NEW t \in Specs, NEW key \in KeyIdBytes, NEW other \in KeyIdBytes,
           IndexContext(s, key) = IndexContext(t, other)
    PROVE  s = t /\ key = other
<1> DEFINE a == IndexHeader(key, s.bits)
           b == ContextBytes(SealOnly(s))
           e == IndexHeader(other, t.bits)
           f == ContextBytes(SealOnly(t))
           m == 1 + IdLen + 2
           n == 1 + IdLen + 2 + (IdLen + 2)
<1>1. a \o b = e \o f /\ s.index = t.index
  <2> DEFINE x == a \o b
             y == e \o f
             i == s.index
             j == t.index
  <2>1. /\ x \o i = y \o j /\ Spans(x, n) /\ Spans(y, n)
        /\ i \in Seq(Items) /\ j \in Seq(Items)
    BY IndexContextsAre DEF IndexContext, SealOnly
  <2> HIDE DEF x, y, i, j, n
  <2>2. x = y /\ i = j
    BY <2>1, SpansCut
  <2> QED
    BY <2>2 DEF x, y, i, j
<1>2. a = e /\ b = f
  <2>1. Spans(a, m) /\ Spans(e, m)
    BY SpecsAre, IndexHeadersAre
  <2>2. b \in Seq(Items) /\ f \in Seq(Items)
    BY SpecsAre, ContextBytesAre
  <2> HIDE DEF a, b, e, f, m
  <2> QED
    BY <1>1, <2>1, <2>2, SpansCut
<1>3. key = other /\ s.bits = t.bits
  BY <1>2, SpecsAre, IndexHeadersTold
<1>4. SealOnly(s) = SealOnly(t)
  BY <1>2, SpecsAre, ContextsTold
<1>5. s.seal = t.seal
  BY <1>4 DEF SealOnly
<1> QED
  BY <1>1, <1>3, <1>5, SpecsAre

(* What the MAC is taken of tells the specification, the key and the       *)
(* value.                                                                  *)
LEMMA IndexesTold ==
    ASSUME NEW s \in Specs, NEW t \in Specs, NEW key \in KeyIdBytes, NEW other \in KeyIdBytes,
           NEW u \in Normalized, NEW v \in Normalized,
           DeriveIndex(s, key, u) = DeriveIndex(t, other, v)
    PROVE  s = t /\ key = other /\ u = v
<1> DEFINE label == <<"blind-index-value">>
           a == IndexContext(s, key)
           b == BigEndian(Len(u), 8)
           e == IndexContext(t, other)
           f == BigEndian(Len(v), 8)
           m == 1 + IdLen + 2 + (IdLen + 2) + IdLen
           n == 1 + m
<1>1. label \o a \o b \o u = label \o e \o f \o v
  BY DEF DeriveIndex
<1>2. Spans(label, 1) /\ Spans(a, m) /\ Spans(e, m)
  BY LabelsSpan, IndexContextsAre DEF Labels
<1>3. u \in Seq(Items) /\ v \in Seq(Items) /\ Len(u) \in Int /\ Len(v) \in Int
  <2>1. PreimageBytes \subseteq Items
    BY PreimagesAssumption DEF PreimageBytes, Items
  <2>2. u \in Seq(PreimageBytes) /\ v \in Seq(PreimageBytes)
    BY PreimagesAssumption
  <2> QED
    BY <2>1, <2>2
<1>4. Spans(b, 8) /\ Spans(f, 8)
  BY <1>3, BytesSpan
<1> HIDE DEF label, a, b, e, f, m
<1>5. Spans(label \o a, n) /\ Spans(label \o e, n)
  <2>1. Spans(label \o a, n)
    BY <1>2, SpansJoin, Zenon
  <2>2. Spans(label \o e, n)
    BY <1>2, SpansJoin, Zenon
  <2> QED
    BY <2>1, <2>2
<1> HIDE DEF n
<1> DEFINE x == label \o a
           y == label \o e
           k == n + 8
<1>6. x \o b = y \o f /\ u = v
  <2> HIDE DEF x, y
  <2> DEFINE xx == x \o b
             yy == y \o f
  <2>1. Spans(x, n) /\ Spans(y, n) /\ xx \o u = yy \o v
    BY <1>1, <1>5 DEF x, y
  <2>2. Spans(xx, k)
    BY <1>4, <2>1, SpansJoin, Zenon
  <2>3. Spans(yy, k)
    BY <1>4, <2>1, SpansJoin, Zenon
  <2> HIDE DEF xx, yy, k
  <2>4. xx = yy /\ u = v
    BY <1>3, <2>1, <2>2, <2>3, SpansCut
  <2> QED
    BY <2>4 DEF xx, yy
<1>7. x = y
  <2>1. Spans(x, n) /\ Spans(y, n) /\ b \in Seq(Items) /\ f \in Seq(Items)
    BY <1>4, <1>5 DEF Spans
  <2> HIDE DEF x, y
  <2> QED
    BY <1>6, <2>1, SpansCut
<1>8. a = e
  <2>1. label \o a = label \o e /\ a \in Seq(Items) /\ e \in Seq(Items)
    BY <1>2, <1>7 DEF Spans
  <2> QED
    BY <1>2, <2>1, SpansCut
<1>9. s = t /\ key = other
  BY <1>8, IndexContextsTold DEF a, e
<1> QED
  BY <1>6, <1>9
-----------------------------------------------------------------------------
(* What is stored: an envelope holds what was sealed behind some header,   *)
(* an index what was derived.                                              *)
EnvelopeOf(header, other, context) ==
    /\ other.fingerprint = Fingerprint(context.record.kind)
    /\ envelope = <<[header |-> header, sealing |-> Sealing(other, context)]>>
    /\ sealedAs = <<[header |-> other, context |-> context]>>

IndexOf(spec, key, normalized) ==
    index = <<[spec |-> spec, key |-> key, normalized |-> normalized,
               bytes |-> DeriveIndex(spec, key, normalized)]>>

PreimagesInv ==
    /\ envelope # <<>> =>
        \E header \in Headers, other \in Headers, context \in Contexts :
            EnvelopeOf(header, other, context)
    /\ index # <<>> =>
        \E spec \in Specs, key \in KeyIdBytes, normalized \in Normalized :
            IndexOf(spec, key, normalized)

LEMMA PreimagesInvHolds == PreimagesSpec => []PreimagesInv
<1>1. PreimagesInit => PreimagesInv
  BY DEF PreimagesInit, PreimagesInv
<1>2. PreimagesInv /\ [PreimagesNext]_preimageVars => PreimagesInv'
  <2> SUFFICES ASSUME PreimagesInv, [PreimagesNext]_preimageVars PROVE PreimagesInv'
    OBVIOUS
  <2>1. CASE SealEnvelope
    <3>1. PICK context \in Contexts, padded \in BOOLEAN, key \in KeyIdBytes, nonce \in Nonces :
            LET header == [padded |-> padded, key |-> key, nonce |-> nonce,
                           fingerprint |-> Fingerprint(context.record.kind)]
            IN  /\ envelope' = <<[header |-> header, sealing |-> Sealing(header, context)]>>
                /\ sealedAs' = <<[header |-> header, context |-> context]>>
      BY <2>1 DEF SealEnvelope
    <3> DEFINE print == Fingerprint(context.record.kind)
               header == [padded |-> padded, key |-> key, nonce |-> nonce,
                          fingerprint |-> print]
    <3>2. print \in Fingerprints
      BY ContextsAre, RecordsAre DEF Fingerprints, Kinds
    <3>3. header.fingerprint = print
      OBVIOUS
    <3>4. header \in Headers
      <4> HIDE DEF print
      <4> QED
        BY <3>2 DEF Headers
    <3>5. /\ envelope' = <<[header |-> header, sealing |-> Sealing(header, context)]>>
          /\ sealedAs' = <<[header |-> header, context |-> context]>>
      BY <3>1
    <3> HIDE DEF header
    <3>6. EnvelopeOf(header, header, context)'
      BY <3>3, <3>5 DEF EnvelopeOf
    <3>7. index' = <<>>
      BY <2>1 DEF SealEnvelope, Empty
    <3> QED
      BY <3>4, <3>6, <3>7 DEF PreimagesInv
  <2>2. CASE DamageHeader
    <3>1. PICK header \in Headers, other \in Headers, context \in Contexts :
            EnvelopeOf(header, other, context)
      BY <2>2 DEF PreimagesInv, DamageHeader
    <3>2. PICK damaged \in Headers : envelope' = [envelope EXCEPT ![1].header = damaged]
      BY <2>2 DEF DamageHeader
    <3>3. EnvelopeOf(damaged, other, context)'
      <4> DEFINE sealing == Sealing(other, context)
      <4>1. /\ envelope = <<[header |-> header, sealing |-> sealing]>>
            /\ envelope' = [envelope EXCEPT ![1].header = damaged]
        BY <3>1, <3>2 DEF EnvelopeOf
      <4> HIDE DEF sealing
      <4>2. envelope' = <<[header |-> damaged, sealing |-> sealing]>>
        BY <4>1
      <4> QED
        BY <2>2, <3>1, <4>2 DEF EnvelopeOf, DamageHeader, sealing
    <3>4. index' = index
      BY <2>2 DEF DamageHeader
    <3> QED
      BY <3>3, <3>4 DEF PreimagesInv, IndexOf
  <2>3. CASE StoreIndex
    <3>1. envelope' = <<>>
      BY <2>3 DEF StoreIndex, Empty
    <3>2. \E spec \in Specs, key \in KeyIdBytes, normalized \in Normalized :
            IndexOf(spec, key, normalized)'
      BY <2>3 DEF StoreIndex, IndexOf
    <3> QED
      BY <3>1, <3>2 DEF PreimagesInv
  <2>4. CASE UNCHANGED preimageVars
    BY <2>4 DEF PreimagesInv, EnvelopeOf, IndexOf, preimageVars
  <2> QED
    BY <2>1, <2>2, <2>3, <2>4 DEF PreimagesNext
<1> QED
  BY <1>1, <1>2, PTL DEF PreimagesSpec

LEMMA KindsAre ==
    ASSUME NEW context \in Contexts
    PROVE  context.record.kind \in Kinds
BY ContextsAre, RecordsAre

LEMMA OpensExactly == PreimagesInv => OpensInItsContextOnly /\ MismatchNamesTheKind
<1> SUFFICES ASSUME PreimagesInv, envelope # <<>>
             PROVE  OpensInItsContextOnly /\ MismatchNamesTheKind
  BY DEF OpensInItsContextOnly, MismatchNamesTheKind
<1>1. PICK header \in Headers, other \in Headers, context \in Contexts :
        EnvelopeOf(header, other, context)
  BY DEF PreimagesInv
<1>2. /\ envelope[1].header = header /\ envelope[1].sealing = Sealing(other, context)
      /\ sealedAs[1].header = other /\ sealedAs[1].context = context
      /\ other.fingerprint = Fingerprint(context.record.kind)
  BY <1>1 DEF EnvelopeOf
<1>3. ASSUME NEW read \in Contexts
      PROVE  OpenEnvelope(envelope[1], read) = "Ok" <=> read = context /\ header = other
  <2>1. OpenEnvelope(envelope[1], read) = "Ok" <=>
            /\ header.fingerprint = Fingerprint(read.record.kind)
            /\ Sealing(header, read) = Sealing(other, context)
    BY <1>2 DEF OpenEnvelope, Check
  <2>2. Sealing(header, read) = Sealing(other, context) => read = context /\ header = other
    BY SealingsTold
  <2> QED
    BY <1>2, <2>1, <2>2
<1>4. ASSUME NEW read \in Contexts, header = other
      PROVE  OpenEnvelope(envelope[1], read) = "ContextMismatch" <=>
                read.record.kind # context.record.kind
  <2>1. OpenEnvelope(envelope[1], read) = "ContextMismatch" <=>
            Fingerprint(context.record.kind) # Fingerprint(read.record.kind)
    BY <1>2, <1>4 DEF OpenEnvelope, Check
  <2>2. Fingerprint(context.record.kind) = Fingerprint(read.record.kind) =>
            read.record.kind = context.record.kind
    BY KindsAre, FingerprintsTold
  <2> QED
    BY <2>1, <2>2
<1> QED
  BY <1>2, <1>3, <1>4 DEF OpensInItsContextOnly, MismatchNamesTheKind

LEMMA ProbesExactly == PreimagesInv => ProbesMeetTheirIndexes
<1> SUFFICES ASSUME PreimagesInv, index # <<>>,
                    NEW s \in Specs, NEW key \in KeyIdBytes, NEW u \in Normalized
             PROVE  DeriveIndex(s, key, u) = index[1].bytes <=>
                        s = index[1].spec /\ key = index[1].key /\ u = index[1].normalized
  BY DEF ProbesMeetTheirIndexes
<1>1. PICK t \in Specs, other \in KeyIdBytes, v \in Normalized : IndexOf(t, other, v)
  BY DEF PreimagesInv
<1>2. /\ index[1].spec = t /\ index[1].key = other /\ index[1].normalized = v
      /\ index[1].bytes = DeriveIndex(t, other, v)
  BY <1>1 DEF IndexOf
<1>3. DeriveIndex(s, key, u) = DeriveIndex(t, other, v) => s = t /\ key = other /\ u = v
  BY IndexesTold
<1> QED
  BY <1>2, <1>3

(* For every width of a byte, every set of IDs of one length and every     *)
(* value: an envelope opens exactly in the context and with the header it  *)
(* was sealed with, and a probe meets exactly its own index.               *)
THEOREM BytesAreTold == PreimagesSpec => []BytesTellApart
<1>1. PreimagesInv => BytesTellApart
  BY OpensExactly, ProbesExactly DEF BytesTellApart
<1> QED
  BY <1>1, PreimagesInvHolds, PTL

-----------------------------------------------------------------------------
(***************************************************************************)
(* The bytes of a blind index.                                             *)
(***************************************************************************)

(* Quotient and remainder are what they must be.                           *)
Splits(a, b, q, r) == a = b * q + r

LEMMA DivisionIsUnique ==
    ASSUME NEW b \in Nat \ {0}, NEW q \in Int, NEW r \in 0..b - 1, NEW a, Splits(a, b, q, r)
    PROVE  a \div b = q /\ a % b = r
<1>0. a = b * q + r
  BY DEF Splits
<1>1. a \in Int
  BY <1>0, SMTT(30)
<1> DEFINE x == a \div b
           y == a % b
<1>2. DividesInto(a, b, x, y)
  BY DEF DividesInto
<1>3. y \in 0..b - 1
  BY <1>1, Divided
<1> HIDE DEF x, y
<1>4. x \in Int /\ y \in Int /\ a = b * x + y
  BY <1>1, <1>2, DividedInto
<1> DEFINE d == x - q
<1>5. b * d = r - y
  BY <1>0, <1>4, SMTT(30)
<1>6. d \in Int /\ b * d < b /\ b * d > -b
  BY <1>3, <1>4, <1>5
<1> HIDE DEF d
<1>7. d = 0
  BY <1>6, SmallMultiple
<1>8. x = q
  BY <1>4, <1>7 DEF d
<1>9. y = r
  BY <1>0, <1>4, <1>5, <1>7
<1> QED
  BY <1>8, <1>9 DEF x, y

LEMMA RemainderIs ==
    ASSUME NEW a \in Int, NEW b \in Nat \ {0}
    PROVE  a \div b \in Int /\ a % b \in 0..b - 1
BY Divided

LEMMA PowersOfTwoAre ==
    /\ ByteWidth \in Nat \ {0} /\ PowersOfTwo[0] = 1
    /\ \A n \in 0..ByteWidth - 1 : PowersOfTwo[n + 1] = 2 * PowersOfTwo[n]
    /\ \A n \in 0..ByteWidth : PowersOfTwo[n] \in Nat \ {0}
<1>1. ByteWidth \in Nat \ {0} /\ 2 \in Nat \ {0} /\ PowersOfTwo = Powers(2, ByteWidth)
  BY IndexFormatAssumption DEF PowersOfTwo
<1> QED
  BY <1>1, PowersAre

(* Two to the m times two to the n.                                        *)
LEMMA PowersMultiply ==
    ASSUME NEW n \in Nat, NEW m \in Nat, m + n <= ByteWidth
    PROVE  PowersOfTwo[m + n] = PowersOfTwo[m] * PowersOfTwo[n]
<1> DEFINE p == PowersOfTwo
           S == {k \in Nat : k + n <= ByteWidth => p[k + n] = p[k] * p[n]}
<1>1. /\ ByteWidth \in Nat \ {0} /\ p[0] = 1
      /\ \A k \in 0..ByteWidth - 1 : p[k + 1] = 2 * p[k]
      /\ \A k \in 0..ByteWidth : p[k] \in Nat \ {0}
  BY PowersOfTwoAre
<1> HIDE DEF p
<1>2. 0 \in S
  <2>1. n <= ByteWidth => p[n] \in Nat /\ 0 + n = n
    BY <1>1
  <2>2. n <= ByteWidth => p[0 + n] = p[0] * p[n]
    BY <1>1, <2>1
  <2> QED
    BY <2>2
<1>3. ASSUME NEW k \in Nat, k \in S PROVE k + 1 \in S
  <2> SUFFICES ASSUME k + 1 + n <= ByteWidth PROVE p[k + 1 + n] = p[k + 1] * p[n]
    OBVIOUS
  <2> DEFINE x == p[k]
             y == p[n]
             z == p[k + n]
  <2>1. z = x * y
    BY <1>1, <1>3
  <2>2. /\ k \in 0..ByteWidth - 1 /\ k + n \in 0..ByteWidth - 1 /\ n \in 0..ByteWidth
        /\ k + 1 + n = k + n + 1
    BY <1>1
  <2>3. p[k + 1] = 2 * x /\ p[k + 1 + n] = 2 * z /\ x \in Nat /\ y \in Nat
    BY <1>1, <2>2
  <2> HIDE DEF x, y, z
  <2>4. 2 * (x * y) = (2 * x) * y
    BY <2>3, SMTT(30)
  <2> QED
    BY <2>1, <2>3, <2>4 DEF y
<1> HIDE DEF S
<1>4. m \in S
  BY <1>2, <1>3, ByInduction
<1> QED
  BY <1>4 DEF S, p

-----------------------------------------------------------------------------
(* The final byte.                                                         *)

UnusedBits(bits) == IF bits % ByteWidth = 0 THEN 0 ELSE ByteWidth - (bits % ByteWidth)

LEMMA UnusedBitsAre ==
    ASSUME NEW bits \in Nat
    PROVE  UnusedBits(bits) \in 0..ByteWidth - 1
<1> DEFINE r == bits % ByteWidth
<1>1. r \in 0..ByteWidth - 1 /\ ByteWidth \in Nat \ {0}
  BY PowersOfTwoAre, RemainderIs
<1>2. UnusedBits(bits) = IF r = 0 THEN 0 ELSE ByteWidth - r
  BY DEF UnusedBits
<1> HIDE DEF r
<1> QED
  BY <1>1, <1>2

(* MAX shifted left, in the width of a byte.                               *)
LEMMA ShiftedMax ==
    ASSUME NEW m \in Nat \ {0}, NEW k \in Nat \ {0}, k <= m
    PROVE  ((m - 1) * k) % m = m - k
<1> DEFINE a == (m - 1) * k
<1>1. a = m * (k - 1) + (m - k)
  BY SMTT(30)
<1>2. k - 1 \in Int /\ m - k \in 0..m - 1
  OBVIOUS
<1> HIDE DEF a
<1>3. Splits(a, m, k - 1, m - k)
  BY <1>1 DEF Splits
<1>4. a % m = m - k
  BY <1>2, <1>3, DivisionIsUnique
<1> QED
  BY <1>4 DEF a

(* The mask clears a byte's remainder by the values of its unused bits.    *)
LEMMA MaskIs ==
    ASSUME NEW bits \in Nat, NEW byte
    PROVE  /\ Cleared(byte, FinalByteMask(bits)) = byte % PowersOfTwo[UnusedBits(bits)]
           /\ Masked(byte, FinalByteMask(bits)) = byte - (byte % PowersOfTwo[UnusedBits(bits)])
<1> DEFINE m == PowersOfTwo[ByteWidth]
           u == UnusedBits(bits)
           k == PowersOfTwo[u]
           r == bits % ByteWidth
           mask == FinalByteMask(bits)
<1>1. /\ m \in Nat \ {0} /\ k \in Nat \ {0} /\ ByteWidth \in Nat /\ u \in 0..ByteWidth - 1
  BY UnusedBitsAre, PowersOfTwoAre
<1>2. k <= m
  <2> DEFINE c == PowersOfTwo[ByteWidth - u]
  <2>1. ByteWidth - u \in Nat /\ ByteWidth - u \in 0..ByteWidth /\ (ByteWidth - u) + u = ByteWidth
    BY <1>1
  <2>2. c \in Nat \ {0}
    BY <2>1, PowersOfTwoAre
  <2>3. u \in Nat /\ (ByteWidth - u) + u <= ByteWidth
    BY <1>1
  <2>4. PowersOfTwo[(ByteWidth - u) + u] = c * k
    BY <2>1, <2>3, PowersMultiply
  <2>5. m = c * k
    BY <2>1, <2>4
  <2> HIDE DEF m, c, k
  <2> QED
    BY <1>1, <2>2, <2>5, SMTT(30)
<1>3. m - mask = k
  <2>1. CASE r = 0
    <3>1. mask = m - 1 /\ u = 0 /\ k = 1
      BY <2>1, PowersOfTwoAre DEF FinalByteMask, ByteMax, UnusedBits
    <3> QED
      BY <1>1, <3>1
  <2>2. CASE r # 0
    <3>1. mask = ((m - 1) * k) % m
      BY <2>2 DEF FinalByteMask, ByteMax, UnusedBits
    <3> HIDE DEF m, k, mask
    <3>2. mask = m - k
      BY <1>1, <1>2, <3>1, ShiftedMax
    <3> QED
      BY <1>1, <3>2
  <2> QED
    BY <2>1, <2>2
<1>4. Cleared(byte, mask) = byte % (m - mask) /\ Masked(byte, mask) = byte - Cleared(byte, mask)
  BY DEF Cleared, Masked
<1> QED
  BY <1>3, <1>4

-----------------------------------------------------------------------------
(* The bytes a number of bits takes, and the bits it takes of the last.    *)

LEMMA LengthsAre ==
    ASSUME NEW bits \in 1..MaxIndexBits
    PROVE  /\ DigestLength(bits) \in 1..DigestLen
           /\ ByteWidth - UnusedBits(bits) \in 1..ByteWidth
           /\ bits = ByteWidth * (DigestLength(bits) - 1) + (ByteWidth - UnusedBits(bits))
<1> DEFINE w == ByteWidth
           q == bits \div w
           r == bits % w
           length == DigestLength(bits)
           held == w - UnusedBits(bits)
<1>1. w \in Nat \ {0} /\ DigestLen \in Nat \ {0} /\ bits \in Nat \ {0} /\ bits <= w * DigestLen
  BY IndexFormatAssumption, SMTT(30) DEF MaxIndexBits
<1>2. q \in Int /\ r \in 0..w - 1 /\ bits = w * q + r
  <2>1. DividesInto(bits, w, q, r)
    BY DEF DividesInto
  <2>2. r \in 0..w - 1
    BY <1>1, RemainderIs
  <2> HIDE DEF q, r, w
  <2> QED
    BY <1>1, <2>1, <2>2, DividedInto
<1>3. length = (bits + w - 1) \div w
  BY DEF DigestLength
<1>4. held = IF r = 0 THEN w ELSE r
  BY <1>1, <1>2 DEF UnusedBits
<1> HIDE DEF w, q, r, length, held
<1>5. held \in 1..w
  BY <1>1, <1>2, <1>4
<1>6. bits = w * (length - 1) + held /\ length \in Int
  <2>1. CASE r = 0
    <3>1. bits + w - 1 = w * q + (w - 1)
      BY <1>1, <1>2, <2>1
    <3>2. Splits(bits + w - 1, w, q, w - 1) /\ w - 1 \in 0..w - 1
      BY <1>1, <3>1 DEF Splits
    <3>3. length = q
      BY <1>1, <1>2, <1>3, <3>2, DivisionIsUnique
    <3>4. w * q = w * (q - 1) + w
      BY <1>1, <1>2, SMTT(30)
    <3> QED
      BY <1>1, <1>2, <1>4, <2>1, <3>3, <3>4
  <2>2. CASE r # 0
    <3>1. w * q + w = w * (q + 1)
      BY <1>1, <1>2, SMTT(30)
    <3>2. bits + w - 1 = w * (q + 1) + (r - 1)
      BY <1>1, <1>2, <3>1
    <3>3. Splits(bits + w - 1, w, q + 1, r - 1) /\ r - 1 \in 0..w - 1 /\ q + 1 \in Int
      BY <1>1, <1>2, <2>2, <3>2 DEF Splits
    <3>4. length = q + 1
      <4> DEFINE a == bits + w - 1
                 s == q + 1
                 t == r - 1
      <4>1. length = a \div w /\ Splits(a, w, s, t) /\ s \in Int /\ t \in 0..w - 1
        BY <1>3, <3>3
      <4> HIDE DEF a, s, t
      <4>2. length = s
        BY <1>1, <4>1, DivisionIsUnique
      <4> QED
        BY <4>2 DEF s
    <3> QED
      BY <1>1, <1>2, <1>4, <2>2, <3>4
  <2> QED
    BY <2>1, <2>2
<1>7. length >= 1
  <2> DEFINE l == length - 1
  <2>1. bits = w * l + held /\ l \in Int
    BY <1>6
  <2> HIDE DEF l
  <2>2. l >= 0
    BY <1>1, <1>5, <2>1, SMTT(30)
  <2> QED
    BY <1>6, <2>2 DEF l
<1>8. length <= DigestLen
  <2> DEFINE l == length - 1
  <2>1. bits = w * l + held /\ l \in Int
    BY <1>6
  <2> HIDE DEF l
  <2>2. w * l < w * DigestLen
    BY <1>1, <1>5, <2>1, SMTT(30)
  <2>3. l < DigestLen
    BY <1>1, <2>1, <2>2, SMTT(30)
  <2> QED
    BY <1>1, <1>6, <2>3 DEF l
<1> QED
  BY <1>1, <1>5, <1>6, <1>7, <1>8 DEF w, length, held

-----------------------------------------------------------------------------
(* Bytes and their bits, highest first from 0.                             *)

BitOf(x, p) == (x \div PowersOfTwo[ByteWidth - 1 - p]) % 2

LEMMA BytesAreNat == IndexBytes \subseteq Nat /\ \A x \in IndexBytes : x < PowersOfTwo[ByteWidth]
<1>1. PowersOfTwo[ByteWidth] \in Nat \ {0}
  BY PowersOfTwoAre
<1> QED
  BY <1>1 DEF IndexBytes, ByteMax

(* A byte without its first bits is nothing but these.                     *)
LEMMA NoBits ==
    ASSUME NEW x \in IndexBytes
    PROVE  x \div PowersOfTwo[ByteWidth] = 0
<1> DEFINE m == PowersOfTwo[ByteWidth]
<1>1. m \in Nat \ {0} /\ x \in Nat /\ x < m
  BY PowersOfTwoAre, BytesAreNat
<1> HIDE DEF m
<1>2. Splits(x, m, 0, x) /\ x \in 0..m - 1
  BY <1>1 DEF Splits
<1>3. x \div m = 0
  BY <1>1, <1>2, DivisionIsUnique
<1> QED
  BY <1>3 DEF m

LEMMA OneMoreBit ==
    ASSUME NEW x \in IndexBytes, NEW h \in 0..ByteWidth - 1,
           NEW u, u = x \div PowersOfTwo[ByteWidth - (h + 1)],
           NEW v, v = x \div PowersOfTwo[ByteWidth - h]
    PROVE  v = u \div 2 /\ BitOf(x, h) = u % 2 /\ u \in Int
<1> DEFINE n == ByteWidth - (h + 1)
           k == PowersOfTwo[n]
<1>1. /\ ByteWidth \in Nat \ {0} /\ n \in 0..ByteWidth - 1 /\ ByteWidth - h = n + 1
      /\ ByteWidth - 1 - h = n /\ n \in 0..ByteWidth
  BY PowersOfTwoAre
<1>2. k \in Nat \ {0} /\ PowersOfTwo[n + 1] = 2 * k
  BY <1>1, PowersOfTwoAre
<1>3. x \in Int /\ 2 \in Nat \ {0}
  BY BytesAreNat
<1>4. u = x \div k /\ v = x \div (2 * k) /\ BitOf(x, h) = u % 2
  BY <1>1, <1>2 DEF BitOf
<1> HIDE DEF k, n
<1>5. (x \div k) \div 2 = x \div (2 * k)
  <2>1. (x \div k) \div 2 = x \div (k * 2)
    BY <1>2, <1>3, DividedTwice, Zenon
  <2>2. k * 2 = 2 * k
    BY <1>2
  <2> QED
    BY <2>1, <2>2
<1>6. u \in Int
  BY <1>2, <1>3, <1>4, RemainderIs
<1> QED
  BY <1>4, <1>5, <1>6

(* Bytes with the same first bits are the same without the others.         *)
LEMMA SameBits ==
    ASSUME NEW x \in IndexBytes, NEW y \in IndexBytes, NEW h \in 0..ByteWidth
    PROVE  (\A p \in 0..h - 1 : BitOf(x, p) = BitOf(y, p)) <=>
                x \div PowersOfTwo[ByteWidth - h] = y \div PowersOfTwo[ByteWidth - h]
<1> DEFINE Same(n) == x \div PowersOfTwo[ByteWidth - n] = y \div PowersOfTwo[ByteWidth - n]
           Alike(n) == \A p \in 0..n - 1 : BitOf(x, p) = BitOf(y, p)
           S == {n \in Nat : n <= ByteWidth => (Alike(n) <=> Same(n))}
<1>1. ByteWidth \in Nat
  BY PowersOfTwoAre
<1>2. 0 \in S
  <2>1. Alike(0)
    OBVIOUS
  <2>2. ByteWidth - 0 = ByteWidth
    BY <1>1
  <2>3. Same(0)
    BY <2>2, NoBits
  <2> HIDE DEF Alike, Same
  <2> QED
    BY <2>1, <2>3
<1>3. ASSUME NEW n \in Nat, n \in S PROVE n + 1 \in S
  <2> SUFFICES ASSUME n + 1 <= ByteWidth PROVE Alike(n + 1) <=> Same(n + 1)
    OBVIOUS
  <2> DEFINE ux == x \div PowersOfTwo[ByteWidth - (n + 1)]
             vx == x \div PowersOfTwo[ByteWidth - n]
             uy == y \div PowersOfTwo[ByteWidth - (n + 1)]
             vy == y \div PowersOfTwo[ByteWidth - n]
  <2>1. n \in 0..ByteWidth - 1
    BY <1>1
  <2>2. vx = ux \div 2 /\ BitOf(x, n) = ux % 2 /\ ux \in Int
    BY <2>1, OneMoreBit
  <2>3. vy = uy \div 2 /\ BitOf(y, n) = uy % 2 /\ uy \in Int
    BY <2>1, OneMoreBit
  <2>4. Same(n) <=> vx = vy
    OBVIOUS
  <2>5. Same(n + 1) <=> ux = uy
    OBVIOUS
  <2>6. Alike(n + 1) <=> Alike(n) /\ BitOf(x, n) = BitOf(y, n)
    <3>1. \A p : p \in 0..(n + 1) - 1 <=> p \in 0..n - 1 \/ p = n
      OBVIOUS
    <3> QED
      BY <3>1
  <2>7. Alike(n) <=> Same(n)
    BY <1>1, <1>3
  <2> HIDE DEF Alike, Same, ux, vx, uy, vy
  <2>8. ux = uy <=> ux \div 2 = uy \div 2 /\ ux % 2 = uy % 2
    BY <2>2, <2>3
  <2> QED
    BY <2>2, <2>3, <2>4, <2>5, <2>6, <2>7, <2>8
<1> HIDE DEF S
<1>4. h \in S
  BY <1>1, <1>2, <1>3, ByInduction
<1> QED
  BY <1>4 DEF S

-----------------------------------------------------------------------------
(* Encodings.                                                              *)

Kept(digest, bits) ==
    LET length == DigestLength(bits)
        last == digest[length]
    IN  [j \in 1..length |->
            IF j = length THEN last - (last % PowersOfTwo[UnusedBits(bits)]) ELSE digest[j]]

LEMMA EncodedIs ==
    ASSUME NEW digest \in Digests, NEW bits \in 1..MaxIndexBits
    PROVE  EncodeIndex(digest, bits) =
                [header |-> TRUE, version |-> IndexFormatVersion, bits |-> bits,
                 digest |-> Kept(digest, bits)]
<1> DEFINE length == DigestLength(bits)
           first == SubSeq(digest, 1, length)
           mask == FinalByteMask(bits)
           k == PowersOfTwo[UnusedBits(bits)]
<1>1. length \in 1..DigestLen /\ DigestLen \in Nat /\ bits \in Nat
  BY LengthsAre, IndexFormatAssumption DEF MaxIndexBits
<1>2. digest \in Seq(IndexBytes) /\ Len(digest) = DigestLen
  BY <1>1 DEF Digests
<1>3. \A x : Masked(x, mask) = x - (x % k)
  BY <1>1, MaskIs
<1>4. EncodeIndex(digest, bits).digest =
        [first EXCEPT ![Len(first)] = Masked(first[Len(first)], mask)]
  BY DEF EncodeIndex
<1>5. Kept(digest, bits) =
        [j \in 1..length |->
            IF j = length THEN digest[length] - (digest[length] % k) ELSE digest[j]]
  BY DEF Kept
<1>6. EncodeIndex(digest, bits) =
        [header |-> TRUE, version |-> IndexFormatVersion, bits |-> bits,
         digest |-> EncodeIndex(digest, bits).digest]
  BY DEF EncodeIndex
<1> HIDE DEF length, k, mask
<1>7. first = [j \in 1..length |-> digest[j]] /\ Len(first) = length
  BY <1>1, <1>2
<1> HIDE DEF first
<1>8. [first EXCEPT ![Len(first)] = Masked(first[Len(first)], mask)] =
        [j \in 1..length |->
            IF j = length THEN digest[length] - (digest[length] % k) ELSE digest[j]]
  BY <1>1, <1>3, <1>7
<1> QED
  BY <1>4, <1>5, <1>6, <1>8

(* A number without its remainder tells its quotient.                      *)
LEMMA RoundedTells ==
    ASSUME NEW x \in Nat, NEW y \in Nat, NEW k \in Nat \ {0}
    PROVE  /\ x - (x % k) = y - (y % k) <=> x \div k = y \div k
           /\ x - (x % k) \in 0..x /\ (x - (x % k)) % k = 0
<1> DEFINE a == x \div k
           r == x % k
           b == y \div k
           s == y % k
<1>1. DividesInto(x, k, a, r) /\ DividesInto(y, k, b, s)
  BY DEF DividesInto
<1>2. r \in 0..k - 1 /\ s \in 0..k - 1
  BY RemainderIs
<1> DEFINE u == x - r
<1> SUFFICES /\ u = y - s <=> a = b
             /\ u \in 0..x /\ u % k = 0
  OBVIOUS
<1> HIDE DEF a, r, b, s, u
<1>3. a \in Int /\ x = k * a + r
  BY <1>1, DividedInto
<1>4. b \in Int /\ y = k * b + s
  BY <1>1, DividedInto
<1>5. u = k * a /\ y - s = k * b
  BY <1>2, <1>3, <1>4 DEF u
<1>6. u = y - s <=> a = b
  <2> DEFINE d == a - b
  <2>1. k * d = u - (y - s) /\ d \in Int
    <3>1. k * (a - b) = k * a - k * b
      BY <1>3, <1>4, SMTT(30)
    <3> QED
      BY <1>3, <1>4, <1>5, <3>1
  <2>2. k * d = 0 => d = 0
    <3> HIDE DEF d, u
    <3>1. k * d = 0 => k * d < k /\ k * d > -k
      OBVIOUS
    <3> QED
      BY <2>1, <3>1, SmallMultiple
  <2>3. k * a \in Int /\ k * b \in Int
    BY <1>3, <1>4
  <2>4. ASSUME u = y - s PROVE a = b
    <3>1. u - (y - s) = 0
      BY <1>5, <2>3, <2>4
    <3>2. d = 0
      BY <2>1, <2>2, <3>1
    <3> QED
      BY <1>3, <1>4, <3>2
  <2>5. ASSUME a = b PROVE u = y - s
    BY <1>5, <2>5
  <2> QED
    BY <2>4, <2>5
<1>7. u % k = 0
  <2>1. Splits(u, k, a, 0) /\ 0 \in 0..k - 1
    BY <1>3, <1>5 DEF Splits
  <2> QED
    BY <1>3, <2>1, DivisionIsUnique
<1>8. u \in 0..x
  <2>1. a >= 0
    BY <1>2, <1>3, SMTT(30)
  <2>2. k * a >= 0
    BY <1>3, <2>1, SMTT(30)
  <2> QED
    BY <1>2, <1>3, <1>5, <2>2 DEF u
<1> QED
  BY <1>6, <1>7, <1>8

(* What two digests share if they are one index.                           *)
Agree(d, e, bits) ==
    LET length == DigestLength(bits)
        k == PowersOfTwo[UnusedBits(bits)]
    IN  /\ \A j \in 1..length - 1 : d[j] = e[j]
        /\ d[length] \div k = e[length] \div k

LEMMA EncodedAlike ==
    ASSUME NEW d \in Digests, NEW e \in Digests, NEW bits \in 1..MaxIndexBits
    PROVE  EncodeIndex(d, bits) = EncodeIndex(e, bits) <=> Agree(d, e, bits)
<1> DEFINE length == DigestLength(bits)
           k == PowersOfTwo[UnusedBits(bits)]
           x == d[length]
           y == e[length]
           f == Kept(d, bits)
           g == Kept(e, bits)
<1>1. length \in 1..DigestLen /\ DigestLen \in Nat /\ bits \in Nat
  BY LengthsAre, IndexFormatAssumption DEF MaxIndexBits
<1>2. k \in Nat \ {0}
  BY <1>1, UnusedBitsAre, PowersOfTwoAre
<1>3. x \in Nat /\ y \in Nat
  BY <1>1, BytesAreNat DEF Digests
<1>4. EncodeIndex(d, bits) = EncodeIndex(e, bits) <=> f = g
  <2> DEFINE Stored(bytes) ==
                [header |-> TRUE, version |-> IndexFormatVersion, bits |-> bits,
                 digest |-> bytes]
  <2>1. EncodeIndex(d, bits) = Stored(f)
    BY EncodedIs, Zenon
  <2>2. EncodeIndex(e, bits) = Stored(g)
    BY EncodedIs, Zenon
  <2> HIDE DEF f, g
  <2>3. Stored(f) = Stored(g) <=> f = g
    OBVIOUS
  <2> QED
    BY <2>1, <2>2, <2>3, Zenon
<1>5. f = [j \in 1..length |-> IF j = length THEN x - (x % k) ELSE d[j]]
  BY DEF Kept
<1>6. g = [j \in 1..length |-> IF j = length THEN y - (y % k) ELSE e[j]]
  BY DEF Kept
<1>7. Agree(d, e, bits) <=> (\A j \in 1..length - 1 : d[j] = e[j]) /\ x \div k = y \div k
  BY DEF Agree
<1>8. x - (x % k) = y - (y % k) <=> x \div k = y \div k
  BY <1>2, <1>3, RoundedTells
<1> DEFINE xx == x - (x % k)
           yy == y - (y % k)
<1>9. /\ f = [j \in 1..length |-> IF j = length THEN xx ELSE d[j]]
      /\ g = [j \in 1..length |-> IF j = length THEN yy ELSE e[j]]
      /\ xx = yy <=> x \div k = y \div k
  <2>1. f = [j \in 1..length |-> IF j = length THEN xx ELSE d[j]]
    BY <1>5, Zenon
  <2>2. g = [j \in 1..length |-> IF j = length THEN yy ELSE e[j]]
    BY <1>6, Zenon
  <2> QED
    BY <1>8, <2>1, <2>2, Zenon
<1> HIDE DEF length, k, x, y, f, g, xx, yy
<1>10. \A j : j \in 1..length <=> j \in 1..length - 1 \/ j = length
  BY <1>1
<1>11. f = g <=> (\A j \in 1..length - 1 : d[j] = e[j]) /\ xx = yy
  <2>1. ASSUME f = g PROVE (\A j \in 1..length - 1 : d[j] = e[j]) /\ xx = yy
    <3>1. f[length] = xx /\ g[length] = yy
      BY <1>9, <1>10
    <3>2. ASSUME NEW j \in 1..length - 1 PROVE d[j] = e[j]
      <4>1. f[j] = d[j] /\ g[j] = e[j]
        BY <1>1, <1>9, <1>10
      <4> QED
        BY <2>1, <4>1
    <3> QED
      BY <2>1, <3>1, <3>2
  <2>2. ASSUME \A j \in 1..length - 1 : d[j] = e[j], xx = yy PROVE f = g
    <3>1. \A j \in 1..length : j # length => d[j] = e[j]
      BY <1>10, <2>2
    <3> QED
      BY <1>9, <2>2, <3>1
  <2> QED
    BY <2>1, <2>2
<1> QED
  BY <1>4, <1>7, <1>9, <1>11

-----------------------------------------------------------------------------
(* The bits of a digest.                                                   *)

(* The first bits are those of the bytes kept.                             *)
LEMMA PositionsAre ==
    ASSUME NEW bits \in 1..MaxIndexBits, NEW i \in 1..bits,
           NEW j, j = (i - 1) \div ByteWidth + 1, NEW p, p = (i - 1) % ByteWidth
    PROVE  /\ j \in 1..DigestLength(bits) /\ p \in 0..ByteWidth - 1
           /\ j = DigestLength(bits) => p \in 0..(ByteWidth - UnusedBits(bits)) - 1
<1> DEFINE w == ByteWidth
           length == DigestLength(bits)
           held == w - UnusedBits(bits)
           q == j - 1
           a == i - 1
<1>1. w \in Nat \ {0} /\ length \in Nat /\ held \in 1..w /\ bits = w * (length - 1) + held
  BY LengthsAre, PowersOfTwoAre, IndexFormatAssumption
<1>2. bits \in Nat
  BY IndexFormatAssumption DEF MaxIndexBits
<1>3. a \in Nat /\ a < bits
  BY <1>2
<1>4. q = a \div w /\ p = a % w /\ j = q + 1
  <2>1. a \div w \in Int
    BY <1>1, <1>3, RemainderIs
  <2> QED
    BY <2>1
<1> HIDE DEF w, length, held, q, a
<1>5. DividesInto(a, w, q, p)
  BY <1>4 DEF DividesInto
<1>6. p \in 0..w - 1
  <2>1. a \in Int /\ w \in Nat \ {0}
    BY <1>1, <1>3
  <2>2. a % w \in 0..w - 1
    BY <2>1, RemainderIs
  <2> QED
    BY <1>4, <2>2
<1>7. q \in Int /\ a = w * q + p
  BY <1>1, <1>3, <1>5, DividedInto
<1> DEFINE l == length - 1
           d == q - l
<1>8. l \in Int /\ bits = w * l + held
  BY <1>1
<1> HIDE DEF l
<1>9. q >= 0
  BY <1>1, <1>3, <1>6, <1>7, SMTT(30)
<1>10. w * d = w * q - w * l /\ d \in Int /\ w * q \in Int /\ w * l \in Int
  <2>1. w * (q - l) = w * q - w * l
    BY <1>1, <1>7, <1>8, SMTT(30)
  <2> QED
    BY <1>1, <1>7, <1>8, <2>1
<1> HIDE DEF d
<1>11. w * d < w
  BY <1>1, <1>3, <1>6, <1>7, <1>8, <1>10
<1>12. d <= 0
  BY <1>1, <1>10, <1>11, SMTT(30)
<1>13. q <= l
  BY <1>7, <1>8, <1>12 DEF d
<1>14. q = l => p < held
  <2>1. q = l => w * q = w * l
    OBVIOUS
  <2> QED
    BY <1>1, <1>3, <1>6, <1>7, <1>8, <1>10, <2>1
<1>15. j \in 1..length
  BY <1>1, <1>4, <1>7, <1>9, <1>13 DEF l
<1>16. j = length => p \in 0..held - 1
  BY <1>1, <1>4, <1>6, <1>7, <1>14 DEF l
<1> QED
  BY <1>6, <1>15, <1>16 DEF w, length, held

LEMMA PositionsExist ==
    ASSUME NEW bits \in 1..MaxIndexBits, NEW j \in 1..DigestLength(bits),
           NEW p \in 0..ByteWidth - 1,
           j = DigestLength(bits) => p \in 0..(ByteWidth - UnusedBits(bits)) - 1
    PROVE  \E i \in 1..bits : (i - 1) \div ByteWidth + 1 = j /\ (i - 1) % ByteWidth = p
<1> DEFINE w == ByteWidth
           length == DigestLength(bits)
           held == w - UnusedBits(bits)
           q == j - 1
           l == length - 1
           a == w * q + p
<1>1. /\ w \in Nat \ {0} /\ length \in Nat /\ held \in 1..w /\ bits = w * l + held
      /\ l \in Int /\ q \in Nat /\ q <= l
      /\ j = length <=> q = l
  BY LengthsAre, PowersOfTwoAre, IndexFormatAssumption
<1>2. Splits(a, w, q, p) /\ p \in 0..w - 1
  BY DEF Splits
<1>3. q = l => p \in 0..held - 1
  BY <1>1
<1>4. j = q + 1 /\ j \in Int
  BY LengthsAre, IndexFormatAssumption
<1> HIDE DEF w, length, held, q, l
<1>5. a \div w = q /\ a % w = p
  <2> HIDE DEF a
  <2> QED
    BY <1>1, <1>2, DivisionIsUnique
<1>6. w * q \in Nat /\ w * l \in Int
  <2>1. w * q >= 0
    BY <1>1, SMTT(30)
  <2> QED
    BY <1>1, <2>1
<1>7. a < bits
  <2>1. CASE q = l
    BY <1>1, <1>2, <1>3, <1>6, <2>1
  <2>2. CASE q # l
    <3> DEFINE d == l - q - 1
    <3>1. d \in Nat
      BY <1>1, <2>2
    <3>2. w * l = w * q + w + w * d
      BY <1>1, <3>1, SMTT(30)
    <3>3. w * d >= 0 /\ w * d \in Int
      <4> HIDE DEF d
      <4>1. w * d >= 0
        BY <1>1, <3>1, SMTT(30)
      <4> QED
        BY <1>1, <3>1, <4>1
    <3> HIDE DEF d
    <3> QED
      BY <1>1, <1>2, <1>6, <3>2, <3>3
  <2> QED
    BY <2>1, <2>2
<1>8. a \in Nat /\ bits \in Nat
  <2>1. bits \in Nat
    BY <1>1, <1>6
  <2> QED
    BY <1>2, <1>6, <2>1
<1> DEFINE i == a + 1
<1>9. i \in 1..bits /\ i - 1 = a
  BY <1>7, <1>8
<1> HIDE DEF i, a
<1>10. (i - 1) \div w + 1 = j /\ (i - 1) % w = p
  BY <1>4, <1>5, <1>9
<1> QED
  BY <1>9, <1>10 DEF w

LEMMA FirstBitsAgree ==
    ASSUME NEW d \in Digests, NEW e \in Digests, NEW bits \in 1..MaxIndexBits
    PROVE  SameFirstBits(d, e, bits) <=> Agree(d, e, bits)
<1> DEFINE w == ByteWidth
           length == DigestLength(bits)
           held == w - UnusedBits(bits)
           Told(j, p) == BitOf(d[j], p) = BitOf(e[j], p)
           In(j, p) == j = length => p \in 0..held - 1
<1>1. /\ length \in 1..DigestLen /\ DigestLen \in Nat /\ w \in Nat \ {0} /\ held \in 1..w
      /\ bits \in Nat
  BY LengthsAre, PowersOfTwoAre, IndexFormatAssumption DEF MaxIndexBits
<1>2. ASSUME NEW j \in 1..length PROVE d[j] \in IndexBytes /\ e[j] \in IndexBytes
  BY <1>1 DEF Digests
<1>3. ASSUME NEW j \in 1..length, NEW h \in 0..w
      PROVE  (\A p \in 0..h - 1 : Told(j, p)) <=>
                d[j] \div PowersOfTwo[w - h] = e[j] \div PowersOfTwo[w - h]
  BY <1>2, SameBits
<1>4. ASSUME NEW j \in 1..length
      PROVE  (\A p \in 0..w - 1 : Told(j, p)) <=> d[j] = e[j]
  <2>1. w - w = 0 /\ w \in 0..w /\ PowersOfTwo[0] = 1
    BY <1>1, PowersOfTwoAre
  <2>2. d[j] \div 1 = d[j] /\ e[j] \div 1 = e[j]
    <3>1. ASSUME NEW x \in Nat PROVE x \div 1 = x
      OBVIOUS
    <3>2. d[j] \in Nat /\ e[j] \in Nat
      BY <1>2, BytesAreNat
    <3> QED
      BY <3>1, <3>2, Zenon
  <2>3. d[j] \div PowersOfTwo[w - w] = d[j] /\ e[j] \div PowersOfTwo[w - w] = e[j]
    BY <2>1, <2>2
  <2>4. (\A p \in 0..w - 1 : Told(j, p)) <=>
            d[j] \div PowersOfTwo[w - w] = e[j] \div PowersOfTwo[w - w]
    BY <1>3, <2>1
  <2> QED
    BY <2>3, <2>4
<1>5. w - held = UnusedBits(bits) /\ held \in 0..w
  BY <1>1, UnusedBitsAre
<1>6. (\A p \in 0..held - 1 : Told(length, p)) <=>
        d[length] \div PowersOfTwo[UnusedBits(bits)] = e[length] \div PowersOfTwo[UnusedBits(bits)]
  <2>1. length \in 1..length
    BY <1>1
  <2>2. (\A p \in 0..held - 1 : Told(length, p)) <=>
            d[length] \div PowersOfTwo[w - held] = e[length] \div PowersOfTwo[w - held]
    BY <1>3, <1>5, <2>1
  <2> QED
    BY <1>5, <2>2
<1>7. SameFirstBits(d, e, bits) <=>
        \A j \in 1..length : \A p \in 0..w - 1 : In(j, p) => Told(j, p)
  <2>1. ASSUME NEW i \in 1..bits
        PROVE  Bit(d, i) = Bit(e, i) <=> Told((i - 1) \div w + 1, (i - 1) % w)
    BY DEF Bit, BitOf
  <2>2. ASSUME SameFirstBits(d, e, bits), NEW j \in 1..length, NEW p \in 0..w - 1, In(j, p)
        PROVE  Told(j, p)
    <3>1. PICK i \in 1..bits : (i - 1) \div w + 1 = j /\ (i - 1) % w = p
      BY <2>2, PositionsExist
    <3>2. Bit(d, i) = Bit(e, i)
      BY <2>2 DEF SameFirstBits
    <3> QED
      BY <2>1, <3>1, <3>2
  <2>3. ASSUME \A j \in 1..length : \A p \in 0..w - 1 : In(j, p) => Told(j, p),
               NEW i \in 1..bits
        PROVE  Bit(d, i) = Bit(e, i)
    <3> DEFINE j == (i - 1) \div w + 1
               p == (i - 1) % w
    <3>1. j \in 1..length /\ p \in 0..w - 1 /\ In(j, p)
      BY PositionsAre
    <3> HIDE DEF j, p, Told, In
    <3>2. Told(j, p)
      BY <2>3, <3>1
    <3> QED
      BY <2>1, <3>2 DEF j, p
  <2> QED
    BY <2>2, <2>3 DEF SameFirstBits
<1>8. Agree(d, e, bits) <=>
        /\ \A j \in 1..length - 1 : d[j] = e[j]
        /\ d[length] \div PowersOfTwo[UnusedBits(bits)] =
              e[length] \div PowersOfTwo[UnusedBits(bits)]
  BY DEF Agree
<1>9. /\ \A j : j \in 1..length <=> j \in 1..length - 1 \/ j = length
      /\ \A j \in 1..length - 1 : j # length /\ j \in 1..length
      /\ \A p \in 0..held - 1 : p \in 0..w - 1
      /\ length \in 1..length
  BY <1>1
<1> HIDE DEF w, length, held, Told
<1>10. (\A j \in 1..length : \A p \in 0..w - 1 : In(j, p) => Told(j, p)) <=>
            /\ \A j \in 1..length - 1 : \A p \in 0..w - 1 : Told(j, p)
            /\ \A p \in 0..held - 1 : Told(length, p)
  BY <1>9
<1> QED
  BY <1>4, <1>6, <1>7, <1>8, <1>9, <1>10

-----------------------------------------------------------------------------
(* What is stored has the fields of an index, of any values.               *)
StoredIndexes ==
    [header : BOOLEAN, version : Int, bits : 0..MaxIndexBits + 1, digest : Seq(IndexBytes)]

LEMMA SizesAre == MaxIndexBits \in Nat /\ IndexBytes \subseteq Nat /\ 0 \in IndexBytes
<1>1. MaxIndexBits \in Nat
  BY IndexFormatAssumption, SMTT(30) DEF MaxIndexBits
<1>2. PowersOfTwo[ByteWidth] \in Nat \ {0}
  BY PowersOfTwoAre
<1> QED
  BY <1>1, <1>2 DEF IndexBytes, ByteMax

LEMMA KeptAre ==
    ASSUME NEW digest \in Digests, NEW bits \in 1..MaxIndexBits
    PROVE  /\ Kept(digest, bits) \in Seq(IndexBytes)
           /\ Len(Kept(digest, bits)) = DigestLength(bits)
           /\ Last(Kept(digest, bits)) % PowersOfTwo[UnusedBits(bits)] = 0
<1> DEFINE length == DigestLength(bits)
           k == PowersOfTwo[UnusedBits(bits)]
           x == digest[length]
           y == x - (x % k)
           f == Kept(digest, bits)
<1>1. length \in 1..DigestLen /\ DigestLen \in Nat /\ bits \in Nat
  BY LengthsAre, IndexFormatAssumption, SizesAre
<1>2. k \in Nat \ {0}
  BY <1>1, UnusedBitsAre, PowersOfTwoAre
<1>3. x \in IndexBytes /\ x \in Nat
  BY <1>1, SizesAre DEF Digests
<1>4. y \in 0..x /\ y % k = 0
  BY <1>2, <1>3, RoundedTells
<1>5. f = [j \in 1..length |-> IF j = length THEN y ELSE digest[j]]
  BY Zenon DEF Kept
<1>6. \A j \in 1..length : digest[j] \in IndexBytes
  BY <1>1 DEF Digests
<1> HIDE DEF length, k, x, y, f
<1>7. y \in IndexBytes
  <2>1. PowersOfTwo[ByteWidth] \in Nat \ {0}
    BY PowersOfTwoAre
  <2> QED
    BY <1>3, <1>4, <2>1 DEF IndexBytes, ByteMax
<1>8. f \in [1..length -> IndexBytes]
  BY <1>5, <1>6, <1>7
<1>9. f \in Seq(IndexBytes) /\ Len(f) = length
  BY <1>1, <1>8
<1>10. Last(f) = y
  BY <1>1, <1>5, <1>9 DEF Last
<1> QED
  BY <1>4, <1>9, <1>10 DEF length, k, f

LEMMA StoredIndexesHold == IndexSpec => [](storedIndex \in StoredIndexes)
<1>1. IndexInit => storedIndex \in StoredIndexes
  BY SizesAre DEF IndexInit, StoredIndexes, IndexFormatVersion
<1>2. storedIndex \in StoredIndexes /\ [IndexNext]_storedIndex => (storedIndex \in StoredIndexes)'
  <2> SUFFICES ASSUME storedIndex \in StoredIndexes, [IndexNext]_storedIndex
               PROVE  storedIndex' \in StoredIndexes
    OBVIOUS
  <2> DEFINE was == storedIndex
  <2>1. CASE Derive
    <3>1. PICK digest \in Digests, bits \in 1..MaxIndexBits :
            storedIndex' = EncodeIndex(digest, bits)
      BY <2>1 DEF Derive, Encodings
    <3> DEFINE kept == Kept(digest, bits)
    <3>2. storedIndex' = [header |-> TRUE, version |-> IndexFormatVersion, bits |-> bits,
                          digest |-> kept]
      BY <3>1, EncodedIs
    <3>3. kept \in Seq(IndexBytes)
      BY KeptAre
    <3> HIDE DEF kept
    <3>4. bits \in 0..MaxIndexBits + 1
      BY SizesAre
    <3> QED
      BY <3>2, <3>3, <3>4 DEF StoredIndexes, IndexFormatVersion
  <2>2. CASE \E i \in DOMAIN was.digest, byte \in IndexBytes :
                storedIndex' = [was EXCEPT !.digest[i] = byte]
    <3>1. PICK i \in DOMAIN was.digest, byte \in IndexBytes :
                storedIndex' = [was EXCEPT !.digest[i] = byte]
      BY <2>2
    <3>2. was.digest \in Seq(IndexBytes)
      BY DEF StoredIndexes
    <3>3. [was.digest EXCEPT ![i] = byte] \in Seq(IndexBytes)
      BY <3>2
    <3> QED
      BY <3>1, <3>3 DEF StoredIndexes
  <2>3. CASE was.digest # <<>> /\ storedIndex' = [was EXCEPT !.digest = Front(@)]
    <3>1. was.digest \in Seq(IndexBytes)
      BY DEF StoredIndexes
    <3>2. Front(was.digest) \in Seq(IndexBytes)
      BY <2>3, <3>1 DEF Front
    <3> QED
      BY <2>3, <3>2 DEF StoredIndexes
  <2>4. CASE \E byte \in IndexBytes : storedIndex' = [was EXCEPT !.digest = Append(@, byte)]
    <3>1. was.digest \in Seq(IndexBytes)
      BY DEF StoredIndexes
    <3>2. \A byte \in IndexBytes : Append(was.digest, byte) \in Seq(IndexBytes)
      BY <3>1
    <3> QED
      BY <2>4, <3>2 DEF StoredIndexes
  <2>5. CASE \E bits \in 0..MaxIndexBits + 1 : storedIndex' = [was EXCEPT !.bits = bits]
    BY <2>5 DEF StoredIndexes
  <2>6. CASE storedIndex' = [was EXCEPT !.version = IndexFormatVersion - 1]
    BY <2>6 DEF StoredIndexes, IndexFormatVersion
  <2>7. CASE storedIndex' = [was EXCEPT !.header = FALSE, !.digest = <<>>]
    <3>1. <<>> \in Seq(IndexBytes)
      OBVIOUS
    <3> QED
      BY <2>7, <3>1 DEF StoredIndexes
  <2>8. CASE UNCHANGED storedIndex
    BY <2>8
  <2>9. DamageIndex =>
          \/ \E i \in DOMAIN was.digest, byte \in IndexBytes :
                  storedIndex' = [was EXCEPT !.digest[i] = byte]
          \/ was.digest # <<>> /\ storedIndex' = [was EXCEPT !.digest = Front(@)]
          \/ \E byte \in IndexBytes : storedIndex' = [was EXCEPT !.digest = Append(@, byte)]
          \/ \E bits \in 0..MaxIndexBits + 1 : storedIndex' = [was EXCEPT !.bits = bits]
          \/ storedIndex' = [was EXCEPT !.version = IndexFormatVersion - 1]
          \/ storedIndex' = [was EXCEPT !.header = FALSE, !.digest = <<>>]
    BY Zenon DEF DamageIndex
  <2> HIDE DEF was
  <2> QED
    BY <2>1, <2>2, <2>3, <2>4, <2>5, <2>6, <2>7, <2>8, <2>9 DEF IndexNext
<1> QED
  BY <1>1, <1>2, PTL DEF IndexSpec

(* What is accepted is the encoding of a digest that goes on with zeros.   *)
LEMMA AcceptedAreEncodings ==
    storedIndex \in StoredIndexes => OnlyEncodingsParse
<1> SUFFICES ASSUME storedIndex \in StoredIndexes PROVE OnlyEncodingsParse
  OBVIOUS
<1> DEFINE bytes == storedIndex
           bits == bytes.bits
           length == DigestLength(bits)
           k == PowersOfTwo[UnusedBits(bits)]
           last == Last(bytes.digest)
           Accepted ==
                /\ bytes.header /\ bytes.version = IndexFormatVersion
                /\ bits \in 1..MaxIndexBits /\ Len(bytes.digest) = length
                /\ last % k = 0
<1>1. InspectBlindIndex(bytes) = "Ok" <=> Accepted
  <2>1. bits \in 1..MaxIndexBits => Cleared(last, FinalByteMask(bits)) = last % k
    <3>1. bits \in 1..MaxIndexBits => bits \in Nat
      BY SizesAre
    <3> QED
      BY <3>1, MaskIs
  <2> HIDE DEF last, k, length
  <2> QED
    BY <2>1 DEF InspectBlindIndex, last, length
<1>2. ASSUME bytes \in Encodings PROVE Accepted
  <2>1. PICK digest \in Digests, n \in 1..MaxIndexBits : bytes = EncodeIndex(digest, n)
    BY <1>2 DEF Encodings
  <2> DEFINE kept == Kept(digest, n)
  <2>2. bytes = [header |-> TRUE, version |-> IndexFormatVersion, bits |-> n, digest |-> kept]
    BY <2>1, EncodedIs
  <2>3. Len(kept) = DigestLength(n) /\ Last(kept) % PowersOfTwo[UnusedBits(n)] = 0
    BY KeptAre
  <2> HIDE DEF kept, bytes
  <2>4. bytes.header /\ bytes.version = IndexFormatVersion /\ bits = n /\ bytes.digest = kept
    BY <2>2
  <2> QED
    BY <2>3, <2>4
<1>3. ASSUME Accepted PROVE bytes \in Encodings
  <2> DEFINE f == bytes.digest
             digest == [j \in 1..DigestLen |-> IF j <= length THEN f[j] ELSE 0]
             kept == Kept(digest, bits)
             x == digest[length]
  <2>1. /\ bits \in 1..MaxIndexBits /\ length \in 1..DigestLen /\ DigestLen \in Nat
        /\ f \in Seq(IndexBytes) /\ Len(f) = length /\ bits \in Nat
    BY <1>3, LengthsAre, IndexFormatAssumption, SizesAre DEF StoredIndexes
  <2>2. f \in [1..length -> IndexBytes]
    BY <2>1
  <2>3. digest \in Digests
    <3> HIDE DEF f, length
    <3> QED
      BY <2>1, <2>2, SizesAre DEF Digests
  <2>4. x = f[length] /\ x \in Nat /\ last = f[length]
    <3> HIDE DEF f, length
    <3>1. length \in 1..DigestLen /\ length \in 1..length
      BY <2>1
    <3>2. f[length] \in IndexBytes /\ f[length] \in Nat
      BY <2>2, <3>1, SizesAre
    <3>3. last = f[length]
      BY <2>1 DEF Last, f
    <3>4. length \in 1..DigestLen /\ length <= length
      BY <3>1
    <3>5. x = f[length]
      BY <3>4
    <3> QED
      BY <3>2, <3>3, <3>5
  <2>5. x - (x % k) = x
    BY <1>3, <2>4
  <2>6. \A j \in 1..length : digest[j] = f[j]
    BY <2>1
  <2>7. kept = [j \in 1..length |-> IF j = length THEN x - (x % k) ELSE digest[j]]
    BY Zenon DEF Kept
  <2>8. kept = f
    <3> HIDE DEF digest, f, x, kept, k, length
    <3>1. kept = [j \in 1..length |-> f[j]]
      BY <2>1, <2>4, <2>5, <2>6, <2>7
    <3> QED
      BY <2>2, <3>1
  <2>9. EncodeIndex(digest, bits) =
            [header |-> TRUE, version |-> IndexFormatVersion, bits |-> bits, digest |-> kept]
    BY <2>1, <2>3, EncodedIs
  <2>10. bytes = [header |-> TRUE, version |-> IndexFormatVersion, bits |-> bits, digest |-> f]
    <3>1. bytes.header = TRUE /\ bytes.version = IndexFormatVersion
      BY <1>3 DEF StoredIndexes
    <3> QED
      BY <3>1 DEF StoredIndexes
  <2>11. bytes = EncodeIndex(digest, bits)
    <3> HIDE DEF digest, f, kept, bytes
    <3> QED
      BY <2>8, <2>9, <2>10
  <2> HIDE DEF digest, bytes
  <2> QED
    BY <2>1, <2>3, <2>11 DEF Encodings
<1> QED
  BY <1>1, <1>2, <1>3 DEF OnlyEncodingsParse

LEMMA FirstBitsKept == KeepsFirstBits
<1> SUFFICES ASSUME storedIndex \in Encodings,
                    NEW d \in Digests, EncodeIndex(d, storedIndex.bits) = storedIndex,
                    NEW e \in Digests
             PROVE  EncodeIndex(e, storedIndex.bits) = storedIndex <=>
                        SameFirstBits(d, e, storedIndex.bits)
  BY DEF KeepsFirstBits
<1> DEFINE bits == storedIndex.bits
<1>1. bits \in 1..MaxIndexBits
  <2>1. PICK digest \in Digests, n \in 1..MaxIndexBits : storedIndex = EncodeIndex(digest, n)
    BY DEF Encodings
  <2> QED
    BY <2>1 DEF EncodeIndex
<1> HIDE DEF bits
<1>2. EncodeIndex(d, bits) = EncodeIndex(e, bits) <=> Agree(d, e, bits)
  BY <1>1, EncodedAlike
<1>3. SameFirstBits(d, e, bits) <=> Agree(d, e, bits)
  BY <1>1, FirstBitsAgree
<1> QED
  BY <1>2, <1>3 DEF bits

(* For every width of a byte, every length of a digest and every number of *)
(* bits: inspection accepts exactly the bytes a derivation stores, and two *)
(* digests are stored alike exactly if their first bits agree.             *)
THEOREM IndexesKeepFirstBits == IndexSpec => []EncodesFirstBits
<1>1. storedIndex \in StoredIndexes => EncodesFirstBits
  BY AcceptedAreEncodings, FirstBitsKept DEF EncodesFirstBits
<1> QED
  BY <1>1, StoredIndexesHold, PTL

-----------------------------------------------------------------------------
(***************************************************************************)
(* Tenants.                                                                *)
(***************************************************************************)

(* The keys of a tenant that a keyring lists, the current one first.       *)
ListedKeys(t) == Listed(roots[t].current, roots[t].previous)

IdsIn(listed) == {listed[i].id : i \in DOMAIN listed}
Repeats(listed) == \E i, j \in DOMAIN listed : i # j /\ listed[i].id = listed[j].id

(* Keys are generated with IDs of their own: across tenants, an ID stands  *)
(* for one material.                                                       *)
IssuedApart ==
    /\ \A t \in Tenants : \A key \in issued[t] : key = Generated(key.id)
    /\ \A t, u \in Tenants : \A k \in issued[t], l \in issued[u] : k.id = l.id => t = u

(* What is listed was generated for the tenant, no key twice, except that  *)
(* the entry listed last may repeat an ID.                                 *)
SoundList(listed, keys) ==
    LET n == Len(listed)
    IN  /\ \A i \in 1..n - 1 : listed[i] \in keys
        /\ \A i, j \in 1..n - 1 : i # j => listed[i].id # listed[j].id
        /\ listed[n] \in keys \/ \E i \in 1..n - 1 : listed[i].id = listed[n].id

ListedSound == \A t \in Tenants : Live(t) => SoundList(ListedKeys(t), issued[t])

(* A ring of a tenant finds keys of that tenant, each under its ID.        *)
RingOf(t, ring) ==
    /\ ring \in Rings
    /\ ring.current \in issued[t] /\ ring.current.id \in DOMAIN ring.keys
    /\ \A id \in DOMAIN ring.keys : ring.keys[id] \in issued[t] /\ ring.keys[id].id = id

(* Snapshots, and the rings that calls took from them.                     *)
RingsSound ==
    /\ \A t \in Tenants : cache[t] # NoRing => RingOf(t, cache[t])
    /\ \A c \in InFlight :
        RingOf(calls[c].from, calls[c].fromRing) /\ RingOf(calls[c].to, calls[c].toRing)

(* The keys values of a tenant are sealed with, now or by a call that is   *)
(* in flight.                                                              *)
WritersOf(t) ==
    {store[r].bytes.key : r \in Owned(t)}
      \cup {calls[c].toRing.current : c \in {c \in InFlight : calls[c].to = t}}
      \cup {ring.current : ring \in {cache[t]} \ {NoRing}}

(* Each of them can be read: it is listed, and a snapshot that serves has  *)
(* it.                                                                     *)
WritersReadable ==
    \A t \in Tenants : \A key \in WritersOf(t) :
        /\ Live(t) => key \in ToSet(ListedKeys(t))
        /\ cache[t] # NoRing => key.id \in DOMAIN cache[t].keys

(* What a call read is of the tenant it reads from.                        *)
ReadsSound ==
    \A c \in InFlight : calls[c].read # Absent =>
        calls[c].read.bytes.key \in issued[calls[c].from]

(* Roots are destroyed after access, snapshots and calls are gone.         *)
DestroyedLast ==
    \A t \in Tenants : ~Live(t) => t \in stopped /\ cache[t] = NoRing /\ Drained(t)

TenantsInv ==
    /\ TenantsTypeOK /\ seals + Cardinality(InFlight) <= MaxSeals
    /\ IssuedApart /\ ListedSound /\ RingsSound /\ WritersReadable /\ ReadsSound
    /\ CustodyKept /\ DestroyedLast

(* The entries of a keyring.                                               *)
LEMMA ListedEntries ==
    ASSUME NEW current \in Keys, NEW previous \in Seq(Keys),
           NEW listed, listed = Listed(current, previous)
    PROVE  /\ listed \in Seq(Keys) /\ Len(listed) = Len(previous) + 1
           /\ DOMAIN listed = 1..Len(listed) /\ Len(listed) \in Nat \ {0}
           /\ listed[1] = current
           /\ \A i \in 1..Len(previous) : listed[i + 1] = previous[i]
BY DEF Listed

LEMMA KeyFacts ==
    /\ \A key \in Keys : key.id \in KeyIds
    /\ \A id \in KeyIds : Generated(id) \in Keys /\ Generated(id).id = id
BY DEF Keys, Generated, Materials

(* A keyring is refused exactly if an ID is repeated; one that is not      *)
(* finds each entry under its ID.                                          *)
LEMMA NewRingFacts ==
    ASSUME NEW current \in Keys, NEW previous \in Seq(Keys),
           NEW listed, listed = Listed(current, previous),
           NEW made, made = NewRing(current, previous)
    PROVE  /\ made.error = "Ok" <=> ~Repeats(listed)
           /\ made.error = "Ok" =>
                /\ made.ring \in Rings
                /\ made.ring.current = current
                /\ DOMAIN made.ring.keys = IdsIn(listed)
                /\ \A i \in DOMAIN listed : made.ring.keys[listed[i].id] = listed[i]
<1> DEFINE ids == {key.id : key \in ToSet(listed)}
           Found(id) == CHOOSE key \in ToSet(listed) : key.id = id
<1>1. /\ listed \in Seq(Keys) /\ DOMAIN listed = 1..Len(listed) /\ listed[1] = current
      /\ Len(listed) \in Nat \ {0}
  BY ListedEntries
<1>2. ToSet(listed) \subseteq Keys /\ \A i \in DOMAIN listed : listed[i] \in ToSet(listed)
  BY <1>1 DEF ToSet
<1>3. ids = IdsIn(listed) /\ ids \in SUBSET KeyIds
  BY <1>2, KeyFacts DEF ToSet, IdsIn
<1>4. CASE Repeats(listed)
  BY <1>4 DEF NewRing, Repeats
<1>5. CASE ~Repeats(listed)
  <2>1. made = [error |-> "Ok", ring |-> [current |-> current, keys |-> [id \in ids |-> Found(id)]]]
    BY <1>5 DEF NewRing, Repeats
  <2>2. \A id \in ids : Found(id) \in ToSet(listed) /\ Found(id).id = id
    <3> SUFFICES ASSUME NEW id \in ids PROVE Found(id) \in ToSet(listed) /\ Found(id).id = id
      OBVIOUS
    <3>1. \E key \in ToSet(listed) : key.id = id
      OBVIOUS
    <3> QED
      BY <3>1
  <2>3. \A i \in DOMAIN listed : Found(listed[i].id) = listed[i]
    <3> SUFFICES ASSUME NEW i \in DOMAIN listed PROVE Found(listed[i].id) = listed[i]
      OBVIOUS
    <3> HIDE DEF Found
    <3>1. PICK j \in DOMAIN listed : Found(listed[i].id) = listed[j]
      BY <1>3, <2>2 DEF ToSet, IdsIn
    <3>2. listed[j].id = listed[i].id
      BY <1>3, <2>2, <3>1 DEF IdsIn
    <3> QED
      BY <1>5, <3>1, <3>2 DEF Repeats
  <2> DEFINE keys == [id \in ids |-> Found(id)]
  <2> HIDE DEF Found, ids
  <2>4. keys \in [ids -> Keys] /\ \A id \in ids : keys[id] = Found(id)
    BY <1>2, <2>2
  <2>5. \A i \in DOMAIN listed : keys[listed[i].id] = listed[i]
    BY <1>3, <2>3, <2>4 DEF IdsIn
  <2> HIDE DEF keys
  <2>6. made.ring = [current |-> current, keys |-> keys] /\ made.error = "Ok"
    BY <2>1 DEF keys
  <2>7. made.ring \in [current : Keys, keys : [ids -> Keys]]
    BY <2>4, <2>6
  <2>8. made.ring \in Rings
    BY <1>3, <2>7 DEF Rings
  <2> QED
    <3>1. made.ring.keys = keys /\ made.ring.current = current
      BY <2>6
    <3>2. DOMAIN keys = ids
      BY <2>4
    <3> QED
      BY <1>3, <1>5, <2>5, <2>6, <2>8, <3>1, <3>2
<1> QED
  BY <1>4, <1>5

(* What the type invariant says of one root, snapshot, row or call.        *)
LEMMA TypedState ==
    ASSUME TenantsTypeOK
    PROVE  /\ \A t \in Tenants : Live(t) =>
                /\ roots[t] \in Roots
                /\ roots[t].current \in Keys /\ roots[t].previous \in Seq(Keys)
           /\ \A t \in Tenants : issued[t] \subseteq Keys
           /\ \A t \in Tenants : cache[t] # NoRing => cache[t] \in Rings
           /\ \A r \in Rows : store[r] # Absent =>
                store[r] \in StoredRows /\ store[r].owner \in Tenants
                    /\ store[r].bytes.key \in Keys
           /\ InFlight \subseteq Calls /\ \A c \in InFlight : calls[c] # Idle
           /\ \A c \in Calls : calls[c] # Idle =>
                /\ c \in InFlight /\ calls[c] \in Requests
                /\ calls[c].row \in Rows /\ calls[c].from \in Tenants
                /\ calls[c].to \in Tenants /\ calls[c].loaded \in BOOLEAN
                /\ calls[c].read \in StoredRows \cup {Absent}
BY DEF TenantsTypeOK, Live, Roots, StoredRows, InFlight, Requests

(* A listed key of a keyring that is not refused was generated for its     *)
(* tenant.                                                                 *)
LEMMA ProvisionedFacts ==
    ASSUME TenantsTypeOK, ListedSound, NEW t \in Tenants, Live(t),
           NEW ring, ring = Provisioned(t).ring, NEW listed, listed = ListedKeys(t)
    PROVE  /\ Provisioned(t).error = "Ok" <=> ~Repeats(listed)
           /\ listed \in Seq(Keys) /\ DOMAIN listed = 1..Len(listed)
           /\ Len(listed) = Len(roots[t].previous) + 1 /\ Len(listed) \in Nat \ {0}
           /\ listed[1] = roots[t].current
           /\ \A i \in 1..Len(roots[t].previous) : listed[i + 1] = roots[t].previous[i]
           /\ roots[t].current \in issued[t]
           /\ Provisioned(t).error = "Ok" =>
                /\ \A i \in DOMAIN listed : listed[i] \in issued[t]
                /\ RingOf(t, ring)
                /\ ring.current = roots[t].current
                /\ DOMAIN ring.keys = IdsIn(listed)
<1>1. roots[t].current \in Keys /\ roots[t].previous \in Seq(Keys)
  BY TypedState
<1>2. listed = Listed(roots[t].current, roots[t].previous)
  BY DEF ListedKeys
<1>3. /\ listed \in Seq(Keys) /\ DOMAIN listed = 1..Len(listed)
      /\ Len(listed) = Len(roots[t].previous) + 1 /\ Len(listed) \in Nat \ {0}
      /\ listed[1] = roots[t].current
      /\ \A i \in 1..Len(roots[t].previous) : listed[i + 1] = roots[t].previous[i]
  BY <1>1, <1>2, ListedEntries
<1> DEFINE made == Provisioned(t)
<1>4. made = NewRing(roots[t].current, roots[t].previous)
  BY DEF Provisioned
<1> HIDE DEF made
<1>5. /\ Provisioned(t).error = "Ok" <=> ~Repeats(listed)
      /\ Provisioned(t).error = "Ok" =>
            /\ ring \in Rings /\ ring.current = roots[t].current
            /\ DOMAIN ring.keys = IdsIn(listed)
            /\ \A i \in DOMAIN listed : ring.keys[listed[i].id] = listed[i]
  <2>1. /\ made.error = "Ok" <=> ~Repeats(listed)
        /\ made.error = "Ok" =>
            /\ made.ring \in Rings /\ made.ring.current = roots[t].current
            /\ DOMAIN made.ring.keys = IdsIn(listed)
            /\ \A i \in DOMAIN listed : made.ring.keys[listed[i].id] = listed[i]
    BY <1>1, <1>2, <1>4, NewRingFacts
  <2> QED
    BY <2>1 DEF made
<1>6. /\ \A i \in 1..Len(listed) - 1 : listed[i] \in issued[t]
      /\ \/ \E i \in 1..Len(listed) - 1 : listed[i].id = listed[Len(listed)].id
         \/ listed[Len(listed)] \in issued[t]
  BY DEF ListedSound, SoundList
<1>7. roots[t].current \in issued[t]
  BY <1>3, <1>6
<1>8. ASSUME ~Repeats(listed) PROVE \A i \in DOMAIN listed : listed[i] \in issued[t]
  <2>0. /\ Len(listed) \in DOMAIN listed
        /\ \A i \in 1..Len(listed) - 1 : i \in DOMAIN listed /\ i # Len(listed)
    BY <1>3
  <2>1. ~(\E i \in 1..Len(listed) - 1 : listed[i].id = listed[Len(listed)].id)
    BY <1>8, <2>0 DEF Repeats
  <2>2. listed[Len(listed)] \in issued[t]
    BY <1>6, <2>1
  <2>3. ASSUME NEW i \in DOMAIN listed PROVE listed[i] \in issued[t]
    <3>1. i = Len(listed) \/ i \in 1..Len(listed) - 1
      BY <1>3
    <3> QED
      BY <1>6, <2>2, <3>1
  <2> QED
    BY <2>3
<1>9. ASSUME Provisioned(t).error = "Ok" PROVE RingOf(t, ring)
  <2>1. \A i \in DOMAIN listed : listed[i] \in issued[t]
    BY <1>5, <1>8, <1>9
  <2>2. ring.current.id \in DOMAIN ring.keys
    BY <1>3, <1>5, <1>9 DEF IdsIn
  <2>3. \A id \in DOMAIN ring.keys : ring.keys[id] \in issued[t] /\ ring.keys[id].id = id
    <3> SUFFICES ASSUME NEW id \in DOMAIN ring.keys
                 PROVE  ring.keys[id] \in issued[t] /\ ring.keys[id].id = id
      OBVIOUS
    <3>1. PICK i \in DOMAIN listed : id = listed[i].id
      BY <1>5, <1>9 DEF IdsIn
    <3> QED
      BY <1>5, <1>9, <2>1, <3>1
  <2> QED
    BY <1>5, <1>7, <1>9, <2>2, <2>3 DEF RingOf
<1> QED
  BY <1>3, <1>5, <1>7, <1>8, <1>9

(* Values are sealed with keys generated for their tenant.                 *)
LEMMA WritersIssued ==
    ASSUME TenantsTypeOK, RingsSound, CustodyKept, NEW t \in Tenants, NEW key \in WritersOf(t)
    PROVE  key \in issued[t]
<1>1. CASE \E r \in Owned(t) : key = store[r].bytes.key
  BY <1>1 DEF CustodyKept
<1>2. CASE \E c \in InFlight : calls[c].to = t /\ key = calls[c].toRing.current
  BY <1>2 DEF RingsSound, RingOf
<1>3. CASE cache[t] # NoRing /\ key = cache[t].current
  BY <1>3 DEF RingsSound, RingOf
<1> QED
  BY <1>1, <1>2, <1>3 DEF WritersOf

(* A ring of a tenant opens what it has the key of.                        *)
LEMMA FoundKeyOpens ==
    ASSUME IssuedApart, NEW t \in Tenants, NEW ring, RingOf(t, ring),
           NEW bytes, bytes.key \in issued[t], bytes.key.id \in DOMAIN ring.keys
    PROVE  OpenWith(ring, bytes) = "Ok"
<1>1. ring.keys[bytes.key.id] \in issued[t] /\ ring.keys[bytes.key.id].id = bytes.key.id
  BY DEF RingOf
<1>2. ring.keys[bytes.key.id] = bytes.key
  BY <1>1 DEF IssuedApart
<1> QED
  BY <1>2 DEF OpenWith

LEMMA TenantsInvSuffices == TenantsInv => TenantsApart
<1> SUFFICES ASSUME TenantsInv PROVE TenantsApart
  OBVIOUS
<1> USE DEF TenantsInv
<1>1. TenantReads
  <2> SUFFICES ASSUME NEW t \in Tenants, NEW r \in Owned(t)
               PROVE /\ cache[t] # NoRing => OpenWith(cache[t], store[r].bytes) = "Ok"
                     /\ Live(t) /\ Provisioned(t).error = "Ok" =>
                          OpenWith(Provisioned(t).ring, store[r].bytes) = "Ok"
    BY DEF TenantReads
  <2>1. store[r].bytes.key \in WritersOf(t)
    BY DEF WritersOf
  <2>2. store[r].bytes.key \in issued[t]
    BY <2>1, WritersIssued
  <2>3. ASSUME cache[t] # NoRing PROVE OpenWith(cache[t], store[r].bytes) = "Ok"
    <3>1. RingOf(t, cache[t]) /\ store[r].bytes.key.id \in DOMAIN cache[t].keys
      BY <2>1, <2>3 DEF WritersReadable, RingsSound
    <3> QED
      BY <2>2, <3>1, FoundKeyOpens
  <2>4. ASSUME Live(t), Provisioned(t).error = "Ok"
        PROVE  OpenWith(Provisioned(t).ring, store[r].bytes) = "Ok"
    <3> DEFINE listed == ListedKeys(t)
               ring == Provisioned(t).ring
    <3>1. store[r].bytes.key \in ToSet(listed)
      BY <2>1, <2>4 DEF WritersReadable
    <3> HIDE DEF listed, ring
    <3>2. RingOf(t, ring) /\ DOMAIN ring.keys = IdsIn(listed)
      BY <2>4, ProvisionedFacts DEF listed, ring
    <3>3. OpenWith(ring, store[r].bytes) = "Ok"
      BY <2>2, <3>1, <3>2, FoundKeyOpens DEF ToSet, IdsIn
    <3> QED
      BY <3>3 DEF ring
  <2> QED
    BY <2>3, <2>4
<1>2. WrongTenantIsLoud
  <2> SUFFICES ASSUME NEW t \in Tenants, NEW u \in Tenants, NEW r \in Owned(t),
                      t # u, cache[u] # NoRing
               PROVE  OpenWith(cache[u], store[r].bytes) = "UnknownEncryptionKey"
    BY DEF WrongTenantIsLoud
  <2>1. store[r].bytes.key \in issued[t]
    BY DEF CustodyKept
  <2>2. RingOf(u, cache[u])
    BY DEF RingsSound
  <2>3. store[r].bytes.key.id \notin DOMAIN cache[u].keys
    BY <2>1, <2>2 DEF RingOf, IssuedApart
  <2> QED
    BY <2>3 DEF OpenWith
<1>3. ASSUME NEW t \in Tenants, NEW u \in Tenants, NEW ring, RingOf(u, ring), u # t
      PROVE  RingKeys(ring) \cap issued[t] = {}
  <2>1. RingKeys(ring) \subseteq issued[u]
    BY <1>3 DEF RingKeys, RingOf
  <2> QED
    BY <1>3, <2>1 DEF IssuedApart
<1>4. ShredIsComplete
  <2> SUFFICES ASSUME NEW t \in Tenants, ~Live(t)
               PROVE  /\ \A u \in Tenants : cache[u] # NoRing =>
                            RingKeys(cache[u]) \cap issued[t] = {}
                      /\ \A c \in InFlight : (RingKeys(calls[c].fromRing)
                            \cup RingKeys(calls[c].toRing)) \cap issued[t] = {}
    BY DEF ShredIsComplete
  <2>1. cache[t] = NoRing /\ Drained(t)
    BY DEF DestroyedLast
  <2>2. \A u \in Tenants : cache[u] # NoRing => RingKeys(cache[u]) \cap issued[t] = {}
    BY <1>3, <2>1 DEF RingsSound
  <2>3. ASSUME NEW c \in InFlight
        PROVE  (RingKeys(calls[c].fromRing) \cup RingKeys(calls[c].toRing))
                    \cap issued[t] = {}
    <3>1. /\ calls[c] # Idle /\ c \in Calls
          /\ calls[c].from \in Tenants /\ calls[c].to \in Tenants
      BY TypedState
    <3>2. calls[c].from # t /\ calls[c].to # t
      BY <2>1, <3>1 DEF Drained, Uses
    <3>3. /\ RingOf(calls[c].from, calls[c].fromRing)
          /\ RingOf(calls[c].to, calls[c].toRing)
      BY DEF RingsSound
    <3> QED
      BY <1>3, <3>1, <3>2, <3>3
  <2> QED
    BY <2>2, <2>3
<1> QED
  BY <1>1, <1>2, <1>4 DEF TenantsApart

LEMMA TenantsStart == TenantsInit => TenantsInv
<1> SUFFICES ASSUME TenantsInit PROVE TenantsInv
  OBVIOUS
<1> USE DEF TenantsInit
<1> DEFINE first(t) == Generated(FirstId[t])
           ring(t) == NewRing(first(t), <<>>).ring
<1>1. \A t \in Tenants : first(t) \in Keys /\ first(t).id = FirstId[t]
  BY KeyFacts, TenantsAssumption
<1>2. ASSUME NEW t \in Tenants
      PROVE  /\ ring(t) \in Rings /\ ring(t).current = first(t)
             /\ DOMAIN ring(t).keys = {first(t).id} /\ ring(t).keys[first(t).id] = first(t)
             /\ ListedKeys(t) = <<first(t)>>
  <2> DEFINE listed == Listed(first(t), <<>>)
             made == NewRing(first(t), <<>>)
  <2>1. listed = <<first(t)>>
    BY DEF Listed
  <2>2. ~Repeats(listed) /\ IdsIn(listed) = {first(t).id}
    BY <2>1 DEF Repeats, IdsIn
  <2> HIDE DEF listed, made
  <2>3. /\ made.ring \in Rings /\ made.ring.current = first(t)
        /\ DOMAIN made.ring.keys = IdsIn(listed)
        /\ \A i \in DOMAIN listed : made.ring.keys[listed[i].id] = listed[i]
    <3>1. first(t) \in Keys /\ <<>> \in Seq(Keys)
      BY <1>1
    <3> DEFINE key == first(t)
               none == <<>>
    <3>2. listed = Listed(key, none) /\ made = NewRing(key, none)
      BY DEF listed, made
    <3>3. key \in Keys /\ none \in Seq(Keys) /\ first(t) = key
      BY <3>1
    <3> HIDE DEF key, none, first
    <3> QED
      BY <2>2, <3>2, <3>3, NewRingFacts
  <2>4. ListedKeys(t) = <<first(t)>>
    BY <2>1 DEF ListedKeys, listed
  <2>5. 1 \in DOMAIN listed /\ listed[1] = first(t)
    BY <2>1
  <2> QED
    BY <2>2, <2>3, <2>4, <2>5 DEF made
<1> HIDE DEF ring, first
<1>3. /\ roots = [t \in Tenants |-> [current |-> first(t), previous |-> <<>>]]
      /\ issued = [t \in Tenants |-> {first(t)}]
      /\ cache = [t \in Tenants |-> ring(t)]
  BY DEF ring, first
<1>4. roots \in [Tenants -> Roots] /\ issued \in [Tenants -> SUBSET Keys]
  BY <1>1, <1>3 DEF Roots
<1>5. cache \in [Tenants -> Rings] /\ \A t \in Tenants : cache[t] # NoRing
  BY <1>2, <1>3, MarkersAssumption
<1>6. \A t \in Tenants : cache[t].current = first(t) /\ DOMAIN cache[t].keys = {first(t).id}
        /\ cache[t].keys[first(t).id] = first(t)
  BY <1>2, <1>3
<1>7. \A r \in Rows : store[r] = Absent
  OBVIOUS
<1>8. \A c \in Calls : calls[c] = Idle
  OBVIOUS
<1>9. TenantsTypeOK
  BY <1>4, <1>5, <1>6, TenantsAssumption DEF TenantsTypeOK
<1>10. InFlight = {} /\ seals + Cardinality(InFlight) <= MaxSeals
  <2>1. InFlight = {}
    BY <1>8 DEF InFlight
  <2>2. Cardinality(InFlight) = 0 /\ seals = 0
    BY <2>1, FS_EmptySet
  <2> QED
    BY <2>1, <2>2, TenantsAssumption
<1>11. IssuedApart
  BY <1>1, <1>3, TenantsAssumption DEF IssuedApart, first
<1>12. ListedSound
  BY <1>2, <1>3 DEF ListedSound, SoundList
<1>13. RingsSound
  BY <1>2, <1>3, <1>5, <1>6, <1>10 DEF RingsSound, RingOf
<1>14. \A t \in Tenants : Owned(t) = {}
  BY <1>7 DEF Owned
<1>15. WritersReadable
  <2> SUFFICES ASSUME NEW t \in Tenants, NEW key \in WritersOf(t)
               PROVE  /\ key \in ToSet(ListedKeys(t))
                      /\ key.id \in DOMAIN cache[t].keys
    BY DEF WritersReadable
  <2>1. key = cache[t].current
    BY <1>10, <1>14 DEF WritersOf
  <2>2. first(t) \in ToSet(<<first(t)>>)
    BY DEF ToSet
  <2> QED
    BY <1>2, <1>6, <2>1, <2>2
<1>16. ReadsSound /\ CustodyKept
  BY <1>10, <1>14 DEF ReadsSound, CustodyKept
<1>17. DestroyedLast
  <2>1. \A t \in Tenants : roots[t] # Destroyed
    BY <1>4, MarkersAssumption
  <2> QED
    BY <2>1 DEF DestroyedLast, Live
<1> QED
  BY <1>9, <1>10, <1>11, <1>12, <1>13, <1>15, <1>16, <1>17 DEF TenantsInv

(* A step of the secret store alone: no key that values are sealed with is *)
(* lost from the list.                                                     *)
LEMMA RootsChange ==
    ASSUME TenantsInv, UNCHANGED <<cache, stopped, store, calls, seals>>,
           roots' \in [Tenants -> Roots \cup {Destroyed}],
           issued' \in [Tenants -> SUBSET Keys],
           \A t \in Tenants : issued[t] \subseteq issued'[t],
           IssuedApart', ListedSound', DestroyedLast',
           \A t \in Tenants : Live(t)' =>
                Live(t) /\ \A key \in WritersOf(t) : key \in ToSet(ListedKeys(t)')
    PROVE  TenantsInv'
<1> USE DEF TenantsInv
<1>1. InFlight' = InFlight
  BY DEF InFlight
<1>2. TenantsTypeOK'
  BY DEF TenantsTypeOK
<1>3. RingsSound'
  <2>1. \A t \in Tenants : \A ring : RingOf(t, ring) => RingOf(t, ring)'
    BY DEF RingOf
  <2> QED
    BY <1>1, <2>1, TypedState DEF RingsSound
<1>4. \A t \in Tenants : Owned(t)' = Owned(t) /\ WritersOf(t)' = WritersOf(t)
  BY <1>1 DEF Owned, WritersOf
<1>5. WritersReadable'
  BY <1>4 DEF WritersReadable
<1>6. ReadsSound'
  BY <1>1, TypedState DEF ReadsSound
<1>7. CustodyKept'
  BY <1>4 DEF CustodyKept
<1> QED
  BY <1>1, <1>2, <1>3, <1>5, <1>6, <1>7

(* Every other tenant's list is as before.                                 *)
LEMMA OneListChanges ==
    ASSUME TenantsTypeOK, NEW t \in Tenants, Live(t), NEW entry \in Roots,
           roots' = [roots EXCEPT ![t] = entry]
    PROVE  /\ roots' \in [Tenants -> Roots \cup {Destroyed}]
           /\ Live(t)' /\ ListedKeys(t)' = Listed(entry.current, entry.previous)
           /\ \A u \in Tenants \ {t} : roots'[u] = roots[u] /\ ListedKeys(u)' = ListedKeys(u)
           /\ \A u \in Tenants : Live(u)' = Live(u)
<1>1. roots' \in [Tenants -> Roots \cup {Destroyed}] /\ roots'[t] = entry
  BY DEF TenantsTypeOK
<1>2. \A u \in Tenants \ {t} : roots'[u] = roots[u]
  BY DEF TenantsTypeOK
<1> QED
  BY <1>1, <1>2, MarkersAssumption DEF Live, ListedKeys

LEMMA RotateKeeps ==
    ASSUME TenantsInv, NEW t \in Tenants, Rotate(t)
    PROVE  TenantsInv'
<1> USE DEF TenantsInv
<1>1. PICK id \in Unused :
        /\ roots' = [roots EXCEPT ![t] =
                [current |-> Generated(id), previous |-> <<@.current>> \o @.previous]]
        /\ issued' = [issued EXCEPT ![t] = @ \cup {Generated(id)}]
  BY DEF Rotate
<1> DEFINE new == Generated(id)
           entry == [current |-> new, previous |-> <<roots[t].current>> \o roots[t].previous]
           old == ListedKeys(t)
           now == ListedKeys(t)'
<1>2. Live(t) /\ UNCHANGED <<cache, stopped, store, calls, seals>>
  BY DEF Rotate
<1>3. new \in Keys /\ new.id = id /\ id \in KeyIds
  BY KeyFacts DEF Unused
<1>4. \A u \in Tenants : \A key \in issued[u] : key.id # id
  BY DEF Unused
<1>5. roots[t].current \in Keys /\ roots[t].previous \in Seq(Keys)
  BY <1>2, TypedState
<1>6. roots' = [roots EXCEPT ![t] = entry] /\ entry \in Roots
  BY <1>1, <1>3, <1>5 DEF Roots
<1>7. /\ entry.current = new /\ entry.previous = old
      /\ old \in Seq(Keys) /\ DOMAIN old = 1..Len(old) /\ Len(old) \in Nat \ {0}
  BY <1>2, <1>5, ListedEntries DEF ListedKeys, Listed
<1> HIDE DEF new, entry, old
<1>8. /\ now \in Seq(Keys) /\ DOMAIN now = 1..Len(now) /\ Len(now) = Len(old) + 1
      /\ now[1] = new /\ \A i \in 1..Len(old) : now[i + 1] = old[i]
  <2>1. now = Listed(new, old)
    BY <1>2, <1>6, <1>7, OneListChanges
  <2> QED
    BY <1>3, <1>7, <2>1, ListedEntries DEF new
<1> HIDE DEF now
<1>9. /\ issued' \in [Tenants -> SUBSET Keys]
      /\ issued'[t] = issued[t] \cup {new}
      /\ \A u \in Tenants \ {t} : issued'[u] = issued[u]
  BY <1>1, <1>3 DEF TenantsTypeOK, new
<1>10. IssuedApart'
  <2>1. \A u \in Tenants : \A key \in issued'[u] : key = Generated(key.id)
    BY <1>3, <1>9 DEF IssuedApart, new
  <2>2. ASSUME NEW u \in Tenants, NEW w \in Tenants, NEW k \in issued'[u], NEW l \in issued'[w],
               k.id = l.id
        PROVE  u = w
    <3>1. CASE k = new
      BY <1>3, <1>4, <1>9, <2>2, <3>1
    <3>2. CASE l = new
      BY <1>3, <1>4, <1>9, <2>2, <3>2
    <3>3. CASE k # new /\ l # new
      <4>1. k \in issued[u] /\ l \in issued[w]
        BY <1>9, <3>3
      <4> QED
        BY <2>2, <4>1 DEF IssuedApart
    <3> QED
      BY <3>1, <3>2, <3>3
  <2> QED
    BY <2>1, <2>2 DEF IssuedApart
<1>11. ListedSound'
  <2> SUFFICES ASSUME NEW u \in Tenants, Live(u)'
               PROVE  SoundList(ListedKeys(u)', issued'[u])
    BY DEF ListedSound
  <2>1. CASE u # t
    <3>1. ListedKeys(u)' = ListedKeys(u) /\ Live(u) /\ issued'[u] = issued[u]
      BY <1>2, <1>6, <1>9, <2>1, OneListChanges
    <3> QED
      BY <3>1 DEF ListedSound
  <2>2. CASE u = t
    <3> DEFINE n == Len(old)
    <3>1. /\ \A i \in 1..n - 1 : old[i] \in issued[t]
          /\ \A i, j \in 1..n - 1 : i # j => old[i].id # old[j].id
          /\ \/ \E i \in 1..n - 1 : old[i].id = old[n].id
             \/ old[n] \in issued[t]
      BY <1>2 DEF ListedSound, SoundList, old
    <3>2. \A i \in 2..n + 1 : now[i] = old[i - 1]
      BY <1>7, <1>8
    <3>3. ASSUME NEW i \in 1..n PROVE now[i] \in issued'[t]
      <4>1. CASE i = 1
        BY <1>8, <1>9, <4>1
      <4>2. CASE i # 1
        BY <1>7, <1>9, <3>1, <3>2, <4>2
      <4> QED
        BY <4>1, <4>2
    <3>4. ASSUME NEW i \in 1..n, NEW j \in 1..n, i # j PROVE now[i].id # now[j].id
      <4>1. CASE i = 1
        BY <1>3, <1>4, <1>7, <1>8, <3>1, <3>2, <3>4, <4>1
      <4>2. CASE j = 1
        BY <1>3, <1>4, <1>7, <1>8, <3>1, <3>2, <3>4, <4>2
      <4>3. CASE i # 1 /\ j # 1
        BY <1>7, <3>1, <3>2, <3>4, <4>3
      <4> QED
        BY <4>1, <4>2, <4>3
    <3>5. (\E i \in 1..n : now[i].id = now[n + 1].id) \/ now[n + 1] \in issued'[t]
      <4>1. now[n + 1] = old[n]
        BY <1>7, <1>8
      <4>2. CASE old[n] \in issued[t]
        BY <1>9, <4>1, <4>2
      <4>3. CASE \E i \in 1..n - 1 : old[i].id = old[n].id
        <5>1. PICK i \in 1..n - 1 : old[i].id = old[n].id
          BY <4>3
        <5>2. i + 1 \in 1..n /\ now[i + 1].id = now[n + 1].id
          BY <1>7, <1>8, <4>1, <5>1
        <5> QED
          BY <5>2
      <4> QED
        BY <3>1, <4>2, <4>3
    <3>6. Len(now) = n + 1 /\ n \in Nat
      BY <1>7, <1>8
    <3> HIDE DEF n
    <3>7. Len(now) - 1 = n
      BY <3>6
    <3> QED
      BY <2>2, <3>3, <3>4, <3>5, <3>6, <3>7 DEF SoundList, now
  <2> QED
    BY <2>1, <2>2
<1>12. DestroyedLast'
  BY <1>2, <1>6, OneListChanges DEF DestroyedLast, Drained
<1>13. ASSUME NEW u \in Tenants, Live(u)'
       PROVE  Live(u) /\ \A key \in WritersOf(u) : key \in ToSet(ListedKeys(u)')
  <2>1. Live(u)
    BY <1>2, <1>6, <1>13, OneListChanges
  <2>2. \A key \in WritersOf(u) : key \in ToSet(ListedKeys(u))
    BY <2>1 DEF WritersReadable
  <2>3. CASE u # t
    BY <1>2, <1>6, <2>1, <2>2, <2>3, OneListChanges
  <2>4. ToSet(old) \subseteq ToSet(now)
    BY <1>7, <1>8 DEF ToSet
  <2> QED
    BY <2>1, <2>2, <2>3, <2>4 DEF old, now
<1>14. roots' \in [Tenants -> Roots \cup {Destroyed}]
  BY <1>2, <1>6, OneListChanges
<1>15. \A u \in Tenants : issued[u] \subseteq issued'[u]
  BY <1>9
<1> QED
  BY <1>2, <1>9, <1>10, <1>11, <1>12, <1>13, <1>14, <1>15, RootsChange

(* One tenant's list changes, and no key is generated.                     *)
LEMMA ListChanges ==
    ASSUME TenantsInv, NEW t \in Tenants, Live(t), NEW entry \in Roots,
           roots' = [roots EXCEPT ![t] = entry],
           UNCHANGED <<issued, cache, stopped, store, calls, seals>>,
           SoundList(ListedKeys(t)', issued[t]),
           \A key \in WritersOf(t) : key \in ToSet(ListedKeys(t)')
    PROVE  TenantsInv'
<1> USE DEF TenantsInv
<1>1. issued' \in [Tenants -> SUBSET Keys]
  BY DEF TenantsTypeOK
<1>2. IssuedApart'
  BY DEF IssuedApart
<1>3. ListedSound'
  BY OneListChanges DEF ListedSound
<1>4. DestroyedLast'
  BY OneListChanges DEF DestroyedLast, Drained
<1>5. \A u \in Tenants : Live(u)' =>
            Live(u) /\ \A key \in WritersOf(u) : key \in ToSet(ListedKeys(u)')
  BY OneListChanges DEF WritersReadable
<1>6. roots' \in [Tenants -> Roots \cup {Destroyed}]
  BY OneListChanges
<1> QED
  BY <1>1, <1>2, <1>3, <1>4, <1>5, <1>6, RootsChange

LEMMA MisprovisionKeeps ==
    ASSUME TenantsInv, NEW t \in Tenants, Misprovision(t)
    PROVE  TenantsInv'
<1> USE DEF TenantsInv
<1> DEFINE ring == Provisioned(t).ring
           old == ListedKeys(t)
           previous == roots[t].previous
<1>1. PICK id \in DOMAIN ring.keys, material \in Materials :
        roots' = [roots EXCEPT ![t].previous = Append(@, [id |-> id, material |-> material])]
  BY DEF Misprovision
<1> DEFINE key == [id |-> id, material |-> material]
           entry == [current |-> roots[t].current, previous |-> Append(previous, key)]
           now == ListedKeys(t)'
<1>2. /\ Live(t) /\ Provisioned(t).error = "Ok"
      /\ UNCHANGED <<issued, cache, stopped, store, calls, seals>>
  BY DEF Misprovision
<1>3. /\ old \in Seq(Keys) /\ DOMAIN old = 1..Len(old) /\ Len(old) \in Nat \ {0}
      /\ Len(old) = Len(previous) + 1 /\ old[1] = roots[t].current
      /\ \A i \in 1..Len(previous) : old[i + 1] = previous[i]
      /\ ~Repeats(old) /\ \A i \in DOMAIN old : old[i] \in issued[t]
      /\ DOMAIN ring.keys = IdsIn(old)
  <2> HIDE DEF ring, old
  <2>1. ring = Provisioned(t).ring /\ old = ListedKeys(t)
    BY DEF ring, old
  <2> QED
    BY <1>2, <2>1, ProvisionedFacts
<1>4. roots[t] \in Roots /\ roots[t].current \in Keys /\ previous \in Seq(Keys)
  BY <1>2, TypedState
<1>5. PICK i \in DOMAIN old : old[i].id = id
  BY <1>1, <1>3 DEF IdsIn
<1>6. key \in Keys /\ key.id = old[i].id
  <2>1. old[i] \in Keys
    BY <1>3
  <2> QED
    BY <1>1, <1>5, <2>1, KeyFacts DEF Keys
<1>7. roots' = [roots EXCEPT ![t] = entry] /\ entry \in Roots
  <2>1. Append(previous, key) \in Seq(Keys)
    BY <1>4, <1>6
  <2>2. [roots[t] EXCEPT !.previous = Append(previous, key)] = entry /\ entry \in Roots
    BY <1>4, <2>1, SMTT(30) DEF Roots
  <2> HIDE DEF entry
  <2> QED
    BY <1>1, <2>2
<1> HIDE DEF ring, old, key
<1>8. /\ now \in Seq(Keys) /\ DOMAIN now = 1..Len(now) /\ Len(now) = Len(old) + 1
      /\ now[Len(now)] = key /\ \A x \in DOMAIN old : now[x] = old[x]
  <2> DEFINE appended == Append(previous, key)
  <2>1. /\ appended \in Seq(Keys) /\ Len(appended) = Len(previous) + 1
        /\ appended[Len(previous) + 1] = key
        /\ \A x \in 1..Len(previous) : appended[x] = previous[x]
        /\ Len(previous) \in Nat
    BY <1>4, <1>6
  <2>2. entry.current = roots[t].current /\ entry.previous = appended
    OBVIOUS
  <2> HIDE DEF previous, appended, entry
  <2>3. now = Listed(roots[t].current, appended)
    BY <1>2, <1>7, <2>2, OneListChanges
  <2> DEFINE current == roots[t].current
  <2>0. current \in Keys
    BY <1>4
  <2> HIDE DEF now, current
  <2>4. /\ now \in Seq(Keys) /\ DOMAIN now = 1..Len(now)
        /\ Len(now) = Len(appended) + 1 /\ now[1] = current
        /\ \A x \in 1..Len(appended) : now[x + 1] = appended[x]
    <3>1. appended \in Seq(Keys) /\ now = Listed(current, appended)
      BY <2>1, <2>3 DEF current
    <3> QED
      BY <2>0, <3>1, ListedEntries
  <2>5. ASSUME NEW x \in DOMAIN old PROVE now[x] = old[x]
    <3>1. CASE x = 1
      BY <1>3, <2>4, <3>1 DEF current
    <3>2. CASE x # 1
      <4>1. x - 1 \in 1..Len(previous) /\ (x - 1) + 1 = x
        BY <1>3, <3>2
      <4>2. now[(x - 1) + 1] = appended[x - 1] /\ old[(x - 1) + 1] = previous[x - 1]
        BY <1>3, <2>1, <2>4, <4>1
      <4> QED
        BY <2>1, <4>1, <4>2
    <3> QED
      BY <3>1, <3>2
  <2>6. Len(now) = Len(old) + 1
    BY <1>3, <2>1, <2>4
  <2>7. now[Len(now)] = key
    BY <2>1, <2>4
  <2> QED
    BY <2>4, <2>5, <2>6, <2>7
<1> HIDE DEF now, entry, previous
<1>9. SoundList(now, issued[t])
  <2>1. Len(now) - 1 = Len(old) /\ 1..Len(now) - 1 = DOMAIN old
    BY <1>3, <1>8
  <2>2. now[i].id = now[Len(now)].id
    BY <1>6, <1>8
  <2>3. \A x \in DOMAIN old : now[x] \in issued[t]
    BY <1>3, <1>8
  <2>4. \A x, y \in DOMAIN old : x # y => now[x].id # now[y].id
    BY <1>3, <1>8 DEF Repeats
  <2> QED
    BY <2>1, <2>2, <2>3, <2>4 DEF SoundList
<1>10. \A k \in WritersOf(t) : k \in ToSet(now)
  <2>1. \A k \in WritersOf(t) : k \in ToSet(old)
    BY <1>2 DEF WritersReadable, old
  <2>2. DOMAIN old \subseteq DOMAIN now
    BY <1>3, <1>8
  <2> QED
    BY <1>8, <2>1, <2>2 DEF ToSet
<1> QED
  BY <1>2, <1>7, <1>9, <1>10, ListChanges DEF now

LEMMA CorrectKeeps ==
    ASSUME TenantsInv, NEW t \in Tenants, Correct(t)
    PROVE  TenantsInv'
<1> USE DEF TenantsInv
<1> DEFINE old == ListedKeys(t)
           previous == roots[t].previous
           front == Front(previous)
           entry == [current |-> roots[t].current, previous |-> front]
           now == ListedKeys(t)'
           n == Len(old)
<1>1. /\ Live(t) /\ Provisioned(t).error # "Ok"
      /\ roots' = [roots EXCEPT ![t].previous = Front(@)]
      /\ UNCHANGED <<issued, cache, stopped, store, calls, seals>>
  BY DEF Correct
<1>2. /\ old \in Seq(Keys) /\ DOMAIN old = 1..n /\ n \in Nat \ {0}
      /\ n = Len(previous) + 1 /\ old[1] = roots[t].current
      /\ \A i \in 1..Len(previous) : old[i + 1] = previous[i]
      /\ Repeats(old)
  <2> DEFINE ring == Provisioned(t).ring
  <2> HIDE DEF ring, old
  <2>1. ring = Provisioned(t).ring /\ old = ListedKeys(t)
    BY DEF ring, old
  <2> QED
    BY <1>1, <2>1, ProvisionedFacts
<1>3. roots[t] \in Roots /\ roots[t].current \in Keys /\ previous \in Seq(Keys)
  BY <1>1, TypedState
<1>4. SoundList(old, issued[t])
  BY <1>1 DEF ListedSound
<1> HIDE DEF old
<1>5. PICK i \in 1..n - 1 : old[i].id = old[n].id
  <2>1. PICK x \in DOMAIN old, y \in DOMAIN old : x # y /\ old[x].id = old[y].id
    BY <1>2 DEF Repeats
  <2>2. ~(x \in 1..n - 1 /\ y \in 1..n - 1)
    BY <1>4, <2>1 DEF SoundList
  <2>3. DOMAIN old = 1..n /\ n \in Nat \ {0}
    BY <1>2
  <2>4. \A z \in DOMAIN old : z = n \/ z \in 1..n - 1
    BY <2>3
  <2>5. CASE x = n
    BY <2>1, <2>4, <2>5
  <2>6. CASE y = n
    BY <2>1, <2>4, <2>6
  <2> QED
    BY <2>1, <2>2, <2>4, <2>5, <2>6
<1>6. /\ front \in Seq(Keys) /\ Len(front) = n - 2
      /\ \A x \in 1..Len(front) : front[x] = previous[x]
  <2>1. Len(previous) \in Nat /\ Len(previous) >= 1
    BY <1>2, <1>3, <1>5
  <2> QED
    BY <1>2, <1>3, <2>1 DEF Front
<1>7. roots' = [roots EXCEPT ![t] = entry] /\ entry \in Roots
  <2>1. [roots[t] EXCEPT !.previous = front] = entry /\ entry \in Roots
    BY <1>3, <1>6 DEF Roots
  <2> HIDE DEF entry
  <2> QED
    BY <1>1, <2>1
<1>8. Len(now) = n - 1 /\ DOMAIN now = 1..n - 1 /\ \A x \in 1..n - 1 : now[x] = old[x]
  <2>1. entry.current = roots[t].current /\ entry.previous = front
    OBVIOUS
  <2> HIDE DEF entry, front
  <2>2. now = Listed(roots[t].current, front)
    BY <1>1, <1>7, <2>1, OneListChanges
  <2>3. /\ DOMAIN now = 1..Len(now) /\ Len(now) = Len(front) + 1
        /\ now[1] = roots[t].current
        /\ \A x \in 1..Len(front) : now[x + 1] = front[x]
    <3>1. front \in Seq(Keys) /\ roots[t].current \in Keys
      BY <1>3, <1>6
    <3> HIDE DEF now
    <3> QED
      BY <2>2, <3>1, ListedEntries
  <2> HIDE DEF now
  <2>4. Len(now) = n - 1
    BY <1>2, <1>6, <2>3
  <2>5. ASSUME NEW x \in 1..n - 1 PROVE now[x] = old[x]
    <3>1. CASE x = 1
      BY <1>2, <2>3, <3>1
    <3>2. CASE x # 1
      <4>1. x - 1 \in 1..Len(front) /\ x - 1 \in 1..Len(previous) /\ (x - 1) + 1 = x
        BY <1>2, <1>6, <3>2
      <4>2. now[(x - 1) + 1] = front[x - 1] /\ old[(x - 1) + 1] = previous[x - 1]
        BY <1>2, <2>3, <4>1
      <4> QED
        BY <1>6, <4>1, <4>2
    <3> QED
      BY <3>1, <3>2
  <2> QED
    BY <2>3, <2>4, <2>5
<1> HIDE DEF now, entry, front, previous
<1>9. SoundList(now, issued[t])
  <2>1. \A x \in 1..n - 1 : now[x] \in issued[t]
    BY <1>4, <1>8 DEF SoundList
  <2>2. \A x, y \in 1..n - 1 : x # y => now[x].id # now[y].id
    BY <1>4, <1>8 DEF SoundList
  <2>3. Len(now) \in 1..n - 1 /\ 1..Len(now) - 1 \subseteq 1..n - 1
    BY <1>2, <1>5, <1>8
  <2> QED
    BY <2>1, <2>2, <2>3 DEF SoundList
<1>10. ASSUME NEW key \in WritersOf(t) PROVE key \in ToSet(now)
  <2>1. key \in ToSet(old) /\ key \in issued[t]
    BY <1>1, WritersIssued DEF WritersReadable, old
  <2>2. PICK x \in DOMAIN old : old[x] = key
    BY <2>1 DEF ToSet
  <2>3. CASE x = n
    <3>1. old[i] \in issued[t] /\ old[i].id = key.id
      BY <1>4, <1>5, <2>2, <2>3 DEF SoundList
    <3>2. old[i] = key
      BY <2>1, <3>1 DEF IssuedApart
    <3> QED
      BY <1>5, <1>8, <3>2 DEF ToSet
  <2>4. CASE x # n
    <3>1. x \in 1..n - 1
      <4>1. x \in 1..n /\ n \in Nat
        BY <1>2, <2>2
      <4> HIDE DEF n, old
      <4> QED
        BY <4>1, <2>4
    <3> HIDE DEF n, old
    <3>2. x \in DOMAIN now /\ now[x] = key
      BY <1>8, <2>2, <3>1
    <3> QED
      BY <3>2 DEF ToSet
  <2> QED
    BY <2>3, <2>4
<1> QED
  BY <1>1, <1>7, <1>9, <1>10, ListChanges DEF now

LEMMA RetireKeeps ==
    ASSUME TenantsInv, NEW t \in Tenants, Retire(t)
    PROVE  TenantsInv'
<1> USE DEF TenantsInv
<1> DEFINE current == roots[t].current
           entry == [current |-> current, previous |-> <<>>]
           now == ListedKeys(t)'
           ring == Provisioned(t).ring
<1>1. /\ Live(t) /\ Provisioned(t).error = "Ok"
      /\ cache[t] # NoRing => cache[t].current = ring.current
      /\ \A c \in Calls : calls[c] # Idle /\ calls[c].to = t =>
            calls[c].toRing.current = ring.current
      /\ \A r \in Owned(t) : store[r].bytes.key.id = ring.current.id
      /\ roots' = [roots EXCEPT ![t].previous = <<>>]
      /\ UNCHANGED <<issued, cache, stopped, store, calls, seals>>
  BY DEF Retire, MayRetire, NeedsReseal, Owned
<1>2. roots[t] \in Roots /\ current \in Keys
  BY <1>1, TypedState
<1>3. current \in issued[t] /\ ring.current = current
  <2> DEFINE listed == ListedKeys(t)
  <2> HIDE DEF ring, listed
  <2>1. ring = Provisioned(t).ring /\ listed = ListedKeys(t)
    BY DEF ring, listed
  <2> QED
    BY <1>1, <2>1, ProvisionedFacts
<1>4. roots' = [roots EXCEPT ![t] = entry] /\ entry \in Roots
  <2>1. [roots[t] EXCEPT !.previous = <<>>] = entry /\ entry \in Roots
    BY <1>2 DEF Roots
  <2> HIDE DEF entry
  <2> QED
    BY <1>1, <2>1
<1>5. now = <<current>>
  <2>1. entry.current = current /\ entry.previous = <<>>
    OBVIOUS
  <2> HIDE DEF entry
  <2>2. now = Listed(entry.current, entry.previous)
    BY <1>1, <1>4, OneListChanges
  <2> QED
    BY <1>2, <2>1, <2>2 DEF Listed
<1> HIDE DEF ring, current, now, entry
<1>6. SoundList(now, issued[t])
  BY <1>3, <1>5 DEF SoundList
<1>7. ASSUME NEW key \in WritersOf(t) PROVE key = current
  <2>1. CASE \E r \in Owned(t) : key = store[r].bytes.key
    <3>1. key.id = current.id /\ key \in issued[t]
      BY <1>1, <1>3, <2>1 DEF CustodyKept, ring
    <3> QED
      BY <1>3, <3>1 DEF IssuedApart
  <2>2. CASE \E c \in InFlight : calls[c].to = t /\ key = calls[c].toRing.current
    BY <1>1, <1>3, <2>2 DEF InFlight, ring
  <2>3. CASE cache[t] # NoRing /\ key = cache[t].current
    BY <1>1, <1>3, <2>3 DEF ring
  <2> QED
    BY <2>1, <2>2, <2>3 DEF WritersOf
<1>8. \A key \in WritersOf(t) : key \in ToSet(now)
  BY <1>5, <1>7 DEF ToSet
<1> QED
  BY <1>1, <1>4, <1>6, <1>8, ListChanges DEF now

LEMMA DestroyKeeps ==
    ASSUME TenantsInv, NEW t \in Tenants, Destroy(t)
    PROVE  TenantsInv'
<1> USE DEF TenantsInv
<1>1. /\ t \in stopped /\ cache[t] = NoRing /\ Drained(t)
      /\ roots' = [roots EXCEPT ![t] = Destroyed]
      /\ UNCHANGED <<issued, cache, stopped, store, calls, seals>>
  BY DEF Destroy
<1>2. /\ roots' \in [Tenants -> Roots \cup {Destroyed}] /\ roots'[t] = Destroyed
      /\ \A u \in Tenants \ {t} : roots'[u] = roots[u]
  BY <1>1 DEF TenantsTypeOK
<1>3. \A u \in Tenants : Live(u)' => Live(u) /\ ListedKeys(u)' = ListedKeys(u)
  BY <1>2 DEF Live, ListedKeys
<1>4. issued' \in [Tenants -> SUBSET Keys] /\ IssuedApart'
  BY <1>1 DEF TenantsTypeOK, IssuedApart
<1>5. ListedSound'
  BY <1>1, <1>3 DEF ListedSound
<1>6. DestroyedLast'
  BY <1>1, <1>2 DEF DestroyedLast, Live, Drained
<1>7. \A u \in Tenants : Live(u)' =>
            Live(u) /\ \A key \in WritersOf(u) : key \in ToSet(ListedKeys(u)')
  BY <1>3 DEF WritersReadable
<1> QED
  BY <1>1, <1>2, <1>4, <1>5, <1>6, <1>7, RootsChange

LEMMA StopKeeps ==
    ASSUME TenantsInv, NEW t \in Tenants, Stop(t)
    PROVE  TenantsInv'
<1> USE DEF TenantsInv, Stop
<1>1. InFlight' = InFlight
  BY DEF InFlight
<1>2. \A u \in Tenants : /\ WritersOf(u)' = WritersOf(u) /\ Owned(u)' = Owned(u)
                         /\ ListedKeys(u)' = ListedKeys(u) /\ Live(u)' = Live(u)
  BY <1>1 DEF WritersOf, Owned, ListedKeys, Live
<1>3. TenantsTypeOK'
  BY DEF TenantsTypeOK
<1>4. IssuedApart' /\ ListedSound'
  BY <1>2 DEF IssuedApart, ListedSound
<1>5. RingsSound' /\ ReadsSound'
  BY <1>1 DEF RingsSound, RingOf, ReadsSound
<1>6. WritersReadable' /\ CustodyKept'
  BY <1>2 DEF WritersReadable, CustodyKept
<1>7. DestroyedLast'
  BY <1>2 DEF DestroyedLast, Drained
<1> QED
  BY <1>1, <1>3, <1>4, <1>5, <1>6, <1>7

(* A snapshot is replaced by one that finds the keys values are sealed     *)
(* with.                                                                   *)
LEMMA SnapshotChanges ==
    ASSUME TenantsInv, NEW t \in Tenants, NEW ring,
           cache' = [cache EXCEPT ![t] = ring],
           UNCHANGED <<roots, issued, stopped, store, calls, seals>>,
           ring = NoRing => t \in stopped,
           ring # NoRing =>
                /\ Live(t) /\ RingOf(t, ring)
                /\ ring.current \in ToSet(ListedKeys(t))
                /\ \A key \in WritersOf(t) : key.id \in DOMAIN ring.keys
    PROVE  TenantsInv'
<1> USE DEF TenantsInv
<1>1. InFlight' = InFlight
  BY DEF InFlight
<1>2. /\ ring \in Rings \cup {NoRing}
      /\ cache' \in [Tenants -> Rings \cup {NoRing}] /\ cache'[t] = ring
      /\ \A u \in Tenants \ {t} : cache'[u] = cache[u]
  BY DEF TenantsTypeOK, RingOf
<1>3. /\ \A u \in Tenants : Owned(u)' = Owned(u) /\ ListedKeys(u)' = ListedKeys(u)
      /\ \A u \in Tenants : Live(u)' = Live(u)
      /\ \A u \in Tenants \ {t} : WritersOf(u)' = WritersOf(u)
  BY <1>1, <1>2 DEF WritersOf, Owned, ListedKeys, Live
<1>4. ASSUME NEW key \in WritersOf(t)'
      PROVE  key \in WritersOf(t) \/ (ring # NoRing /\ key = ring.current)
  BY <1>1, <1>2, <1>3 DEF WritersOf
<1>5. TenantsTypeOK'
  <2>1. ASSUME ring # NoRing PROVE ring.keys[ring.current.id] = ring.current
    BY <2>1 DEF RingOf, IssuedApart
  <2> QED
    BY <1>2, <2>1 DEF TenantsTypeOK, RingOf
<1>6. IssuedApart' /\ ListedSound'
  BY <1>3 DEF IssuedApart, ListedSound
<1>7. RingsSound'
  BY <1>1, <1>2 DEF RingsSound, RingOf
<1>8. ReadsSound' /\ CustodyKept'
  BY <1>1, <1>3 DEF ReadsSound, CustodyKept
<1>9. WritersReadable'
  <2> SUFFICES ASSUME NEW u \in Tenants, NEW key \in WritersOf(u)'
               PROVE  /\ Live(u)' => key \in ToSet(ListedKeys(u)')
                      /\ cache'[u] # NoRing => key.id \in DOMAIN cache'[u].keys
    BY DEF WritersReadable
  <2>1. CASE u # t
    BY <1>2, <1>3, <2>1 DEF WritersReadable
  <2>2. CASE u = t
    <3>1. CASE key \in WritersOf(t)
      BY <1>2, <1>3, <2>2, <3>1 DEF WritersReadable
    <3>2. CASE ring # NoRing /\ key = ring.current
      BY <1>2, <1>3, <2>2, <3>2 DEF RingOf
    <3> QED
      BY <1>4, <2>2, <3>1, <3>2
  <2> QED
    BY <2>1, <2>2
<1>10. DestroyedLast'
  BY <1>2, <1>3 DEF DestroyedLast, Drained
<1> QED
  BY <1>1, <1>5, <1>6, <1>7, <1>8, <1>9, <1>10

LEMMA RefreshKeeps ==
    ASSUME TenantsInv, NEW t \in Tenants, Refresh(t)
    PROVE  TenantsInv'
<1> USE DEF TenantsInv
<1> DEFINE ring == Provisioned(t).ring
           listed == ListedKeys(t)
<1>1. /\ Live(t) /\ Provisioned(t).error = "Ok"
      /\ cache' = [cache EXCEPT ![t] = ring]
      /\ UNCHANGED <<roots, issued, stopped, store, calls, seals>>
  BY DEF Refresh
<1>2. \A key \in WritersOf(t) : key \in ToSet(listed)
  BY <1>1 DEF WritersReadable
<1>3. ring = Provisioned(t).ring /\ listed = ListedKeys(t)
  OBVIOUS
<1> HIDE DEF ring, listed
<1>4. /\ RingOf(t, ring) /\ DOMAIN ring.keys = IdsIn(listed)
      /\ ring.current = listed[1] /\ 1 \in DOMAIN listed
  BY <1>1, <1>3, ProvisionedFacts
<1>5. ring # NoRing
  BY <1>4, MarkersAssumption DEF RingOf
<1>6. \A key \in WritersOf(t) : key.id \in DOMAIN ring.keys
  BY <1>2, <1>4 DEF ToSet, IdsIn
<1>7. ring.current \in ToSet(listed)
  BY <1>4 DEF ToSet
<1> QED
  BY <1>1, <1>3, <1>4, <1>5, <1>6, <1>7, SnapshotChanges

LEMMA EvictKeeps ==
    ASSUME TenantsInv, NEW t \in Tenants, Evict(t)
    PROVE  TenantsInv'
BY SnapshotChanges DEF Evict

(* A call begins, goes on or ends: nothing is sealed with a key that no    *)
(* writer of the tenant had before.                                        *)
LEMMA CallChanges ==
    ASSUME TenantsInv, NEW c \in Calls, NEW call \in Requests \cup {Idle},
           calls' = [calls EXCEPT ![c] = call], UNCHANGED keyVars,
           store' \in [Rows -> StoredRows \cup {Absent}],
           seals' \in Nat, seals' + Cardinality(InFlight') <= MaxSeals,
           call # Idle =>
                /\ RingOf(call.from, call.fromRing) /\ RingOf(call.to, call.toRing)
                /\ Live(call.from) /\ Live(call.to)
                /\ call.read # Absent => call.read.bytes.key \in issued[call.from],
           \A t \in Tenants : WritersOf(t)' \subseteq WritersOf(t)
    PROVE  TenantsInv'
<1> USE DEF TenantsInv, keyVars
<1>1. /\ calls' \in [Calls -> Requests \cup {Idle}] /\ calls'[c] = call
      /\ \A d \in Calls \ {c} : calls'[d] = calls[d]
  BY DEF TenantsTypeOK
<1>2. \A d \in InFlight' : (d = c /\ call # Idle) \/ (d \in InFlight /\ calls'[d] = calls[d])
  BY <1>1 DEF InFlight
<1>3. InFlight' \subseteq Calls /\ InFlight \subseteq Calls
  BY DEF InFlight
<1>4. seals' \in 0..MaxSeals
  <2>1. IsFiniteSet(InFlight')
    BY <1>3, FS_Subset, TenantsAssumption
  <2>2. Cardinality(InFlight') \in Nat
    BY <2>1, FS_CardinalityType
  <2> QED
    BY <2>2, TenantsAssumption
<1>5. TenantsTypeOK'
  BY <1>1, <1>4 DEF TenantsTypeOK
<1>6. \A t \in Tenants : ListedKeys(t)' = ListedKeys(t) /\ Live(t)' = Live(t)
  BY DEF ListedKeys, Live
<1>7. IssuedApart' /\ ListedSound'
  BY <1>6 DEF IssuedApart, ListedSound
<1>8. \A t, ring : RingOf(t, ring)' = RingOf(t, ring)
  BY DEF RingOf
<1>9. RingsSound' /\ ReadsSound'
  BY <1>1, <1>2, <1>8 DEF RingsSound, ReadsSound
<1>10. WritersReadable'
  BY <1>6 DEF WritersReadable
<1>11. CustodyKept'
  <2> SUFFICES ASSUME NEW t \in Tenants, NEW r \in Owned(t)'
               PROVE  store'[r].bytes.key \in issued[t]
    BY DEF CustodyKept
  <2>1. store'[r].bytes.key \in WritersOf(t)'
    BY DEF WritersOf
  <2> QED
    BY <2>1, WritersIssued
<1>12. DestroyedLast'
  BY <1>1, <1>6 DEF DestroyedLast, Drained, Uses
<1> QED
  BY <1>5, <1>7, <1>9, <1>10, <1>11, <1>12

(* One call changes.                                                       *)
LEMMA InFlightCount ==
    ASSUME NEW c \in Calls, \A d \in Calls \ {c} : calls'[d] = calls[d]
    PROVE  /\ Cardinality(InFlight) \in Nat
           /\ Cardinality(InFlight') \in Nat
           /\ calls[c] = Idle => Cardinality(InFlight') <= Cardinality(InFlight) + 1
           /\ calls[c] # Idle => Cardinality(InFlight') <= Cardinality(InFlight)
           /\ calls[c] # Idle /\ calls'[c] = Idle =>
                Cardinality(InFlight') = Cardinality(InFlight) - 1
<1>1. InFlight' \subseteq Calls /\ InFlight \subseteq Calls
  BY DEF InFlight
<1>2. IsFiniteSet(InFlight') /\ IsFiniteSet(InFlight)
  BY <1>1, FS_Subset, TenantsAssumption
<1>3. Cardinality(InFlight) \in Nat /\ Cardinality(InFlight') \in Nat
  BY <1>2, FS_CardinalityType
<1>4. CASE calls[c] = Idle
  <2>1. InFlight' = IF calls'[c] = Idle THEN InFlight ELSE InFlight \cup {c}
    BY <1>4 DEF InFlight
  <2>2. c \notin InFlight
    BY <1>4 DEF InFlight
  <2>3. Cardinality(InFlight \cup {c}) = Cardinality(InFlight) + 1
    BY <1>2, <2>2, FS_AddElement
  <2> QED
    BY <1>3, <1>4, <2>1, <2>3
<1>5. CASE calls[c] # Idle
  <2>1. InFlight' = IF calls'[c] = Idle THEN InFlight \ {c} ELSE InFlight
    BY <1>5 DEF InFlight
  <2>2. Cardinality(InFlight \ {c}) = Cardinality(InFlight) - 1
    BY <1>2, <1>5, FS_RemoveElement DEF InFlight
  <2> QED
    BY <1>3, <1>5, <2>1, <2>2
<1> QED
  BY <1>3, <1>4, <1>5

(* A call begins with the snapshots that serve.                            *)
LEMMA BeginKeeps ==
    ASSUME TenantsInv, NEW c \in Calls, NEW r \in Rows,
           NEW from \in Tenants, NEW to \in Tenants, NEW loaded \in BOOLEAN,
           MayBegin(c), KeyringOf(from) # NoRing, KeyringOf(to) # NoRing,
           calls' = [calls EXCEPT ![c] =
                [row |-> r, from |-> from, fromRing |-> KeyringOf(from), to |-> to,
                 toRing |-> KeyringOf(to), loaded |-> loaded, read |-> Absent]],
           UNCHANGED <<keyVars, store, seals>>
    PROVE  TenantsInv'
<1> USE DEF TenantsInv
<1> DEFINE call == [row |-> r, from |-> from, fromRing |-> KeyringOf(from), to |-> to,
                    toRing |-> KeyringOf(to), loaded |-> loaded, read |-> Absent]
<1>1. /\ cache[from] # NoRing /\ KeyringOf(from) = cache[from] /\ from \notin stopped
      /\ cache[to] # NoRing /\ KeyringOf(to) = cache[to] /\ to \notin stopped
  BY DEF KeyringOf
<1>2. /\ RingOf(from, cache[from]) /\ RingOf(to, cache[to])
      /\ cache[from] \in Rings /\ cache[to] \in Rings
  BY <1>1 DEF RingsSound, RingOf
<1>3. call \in Requests /\ call # Idle
  BY <1>1, <1>2, MarkersAssumption DEF Requests
<1>4. Live(from) /\ Live(to)
  BY <1>1 DEF DestroyedLast
<1>5. /\ call.from = from /\ call.to = to /\ call.read = Absent
      /\ call.fromRing = cache[from] /\ call.toRing = cache[to]
  BY <1>1
<1> HIDE DEF call
<1>6. calls' = [calls EXCEPT ![c] = call] /\ UNCHANGED <<store, seals>> /\ UNCHANGED keyVars
  BY DEF call
<1>7. calls[c] = Idle /\ seals + Cardinality(InFlight) < MaxSeals /\ seals \in Nat
  BY DEF MayBegin, TenantsTypeOK
<1>8. seals' + Cardinality(InFlight') <= MaxSeals
  <2>1. \A d \in Calls \ {c} : calls'[d] = calls[d]
    BY <1>6 DEF TenantsTypeOK
  <2> QED
    BY <1>6, <1>7, <2>1, InFlightCount, TenantsAssumption
<1>9. ASSUME NEW t \in Tenants, NEW key \in WritersOf(t)' PROVE key \in WritersOf(t)
  <2>1. /\ calls'[c] = call /\ \A d \in Calls \ {c} : calls'[d] = calls[d]
    BY <1>6 DEF TenantsTypeOK
  <2>2. CASE \E x \in Owned(t)' : key = store'[x].bytes.key
    BY <1>6, <2>2 DEF WritersOf, Owned
  <2>3. CASE cache'[t] # NoRing /\ key = cache'[t].current
    BY <1>6, <2>3 DEF WritersOf, keyVars
  <2>4. CASE \E d \in InFlight' : calls'[d].to = t /\ key = calls'[d].toRing.current
    <3>1. PICK d \in InFlight' : calls'[d].to = t /\ key = calls'[d].toRing.current
      BY <2>4
    <3>2. CASE d = c
      <4>1. to = t /\ key = cache[t].current /\ cache[t] # NoRing
        BY <1>1, <1>5, <2>1, <3>1, <3>2
      <4> QED
        BY <4>1 DEF WritersOf
    <3>3. CASE d # c
      BY <2>1, <3>1, <3>3 DEF WritersOf, InFlight
    <3> QED
      BY <3>2, <3>3
  <2> QED
    BY <2>2, <2>3, <2>4 DEF WritersOf
<1>10. store' \in [Rows -> StoredRows \cup {Absent}] /\ seals' \in Nat
  BY <1>6, <1>7 DEF TenantsTypeOK
<1> QED
  BY <1>2, <1>3, <1>4, <1>5, <1>6, <1>8, <1>9, <1>10, CallChanges

LEMMA BeginSaveKeeps ==
    ASSUME TenantsInv, NEW c \in Calls, NEW r \in Rows, NEW t \in Tenants, BeginSave(c, r, t)
    PROVE  TenantsInv'
BY BeginKeeps DEF BeginSave

LEMMA BeginResealKeeps ==
    ASSUME TenantsInv, NEW c \in Calls, NEW r \in Rows, NEW from \in Tenants,
           NEW to \in Tenants, BeginReseal(c, r, from, to)
    PROVE  TenantsInv'
BY BeginKeeps DEF BeginReseal

(* What holds of a call that goes on.                                      *)
LEMMA CallFacts ==
    ASSUME TenantsInv, NEW c \in Calls, calls[c] # Idle, NEW call, call = calls[c]
    PROVE  /\ c \in InFlight /\ call \in Requests
           /\ call.row \in Rows /\ call.from \in Tenants /\ call.to \in Tenants
           /\ RingOf(call.from, call.fromRing) /\ RingOf(call.to, call.toRing)
           /\ Live(call.from) /\ Live(call.to)
           /\ call.read # Absent => call.read.bytes.key \in issued[call.from]
           /\ call.toRing.current \in WritersOf(call.to)
<1> USE DEF TenantsInv
<1>1. c \in InFlight /\ call \in Requests /\ call.row \in Rows
      /\ call.from \in Tenants /\ call.to \in Tenants
  BY TypedState
<1>2. Live(call.from) /\ Live(call.to)
  BY <1>1 DEF DestroyedLast, Drained, Uses
<1>3. call.toRing.current \in WritersOf(call.to)
  BY <1>1 DEF WritersOf
<1> QED
  BY <1>1, <1>2, <1>3 DEF RingsSound, ReadsSound

LEMMA LoadKeeps ==
    ASSUME TenantsInv, NEW c \in Calls, Load(c)
    PROVE  TenantsInv'
<1> USE DEF TenantsInv
<1> DEFINE call == calls[c]
           row == store[calls[c].row]
           kept == row # Absent /\ row.owner = call.from
           went == [call EXCEPT !.loaded = TRUE, !.read = row]
<1>1. /\ call # Idle /\ UNCHANGED <<store, seals>> /\ UNCHANGED keyVars
      /\ \/ calls' = [calls EXCEPT ![c] = Idle]
         \/ kept /\ calls' = [calls EXCEPT ![c] = went]
  BY DEF Load
<1>2. /\ c \in InFlight /\ call \in Requests
      /\ call.row \in Rows /\ call.from \in Tenants /\ call.to \in Tenants
      /\ RingOf(call.from, call.fromRing) /\ RingOf(call.to, call.toRing)
      /\ Live(call.from) /\ Live(call.to)
      /\ call.toRing.current \in WritersOf(call.to)
  BY <1>1, CallFacts
<1>3. seals \in Nat /\ seals' = seals /\ store' \in [Rows -> StoredRows \cup {Absent}]
  BY <1>1 DEF TenantsTypeOK
<1>4. CASE calls' = [calls EXCEPT ![c] = Idle]
  <2>1. seals' + Cardinality(InFlight') <= MaxSeals
    <3>1. \A d \in Calls \ {c} : calls'[d] = calls[d]
      BY <1>4 DEF TenantsTypeOK
    <3> QED
      BY <1>1, <1>3, <3>1, InFlightCount, TenantsAssumption
  <2>2. InFlight' = InFlight \ {c} /\ \A d \in InFlight' : calls'[d] = calls[d]
    BY <1>4 DEF InFlight, TenantsTypeOK
  <2>3. \A t \in Tenants : WritersOf(t)' \subseteq WritersOf(t)
    BY <1>1, <2>2 DEF WritersOf, Owned, keyVars
  <2> QED
    BY <1>1, <1>3, <1>4, <2>1, <2>3, CallChanges
<1>5. CASE kept /\ calls' = [calls EXCEPT ![c] = went]
  <2>1. row \in StoredRows
    BY <1>2, <1>5, TypedState
  <2>2. /\ went \in Requests /\ went # Idle /\ went.read = row
        /\ went.from = call.from /\ went.to = call.to
        /\ went.fromRing = call.fromRing /\ went.toRing = call.toRing
    BY <1>2, <2>1, MarkersAssumption DEF Requests
  <2>3. row.bytes.key \in issued[call.from]
    BY <1>2, <1>5 DEF CustodyKept, Owned
  <2> HIDE DEF went
  <2>4. seals' + Cardinality(InFlight') <= MaxSeals
    <3>1. \A d \in Calls \ {c} : calls'[d] = calls[d]
      BY <1>5 DEF TenantsTypeOK
    <3> QED
      BY <1>1, <1>3, <3>1, InFlightCount, TenantsAssumption
  <2>5. /\ InFlight' = InFlight /\ calls'[c] = went
        /\ \A d \in InFlight \ {c} : calls'[d] = calls[d]
    BY <1>1, <1>5, <2>2 DEF InFlight, TenantsTypeOK
  <2>6. \A t \in Tenants : WritersOf(t)' \subseteq WritersOf(t)
    BY <1>1, <2>2, <2>5 DEF WritersOf, Owned, keyVars
  <2> QED
    BY <1>1, <1>2, <1>3, <1>5, <2>2, <2>3, <2>4, <2>6, CallChanges
<1> QED
  BY <1>1, <1>4, <1>5

LEMMA FinishKeeps ==
    ASSUME TenantsInv, NEW c \in Calls, Finish(c)
    PROVE  TenantsInv'
<1> USE DEF TenantsInv
<1> DEFINE call == calls[c]
           new == [owner |-> call.to, bytes |-> SealWith(call.toRing, seals)]
<1>1. /\ call # Idle /\ calls' = [calls EXCEPT ![c] = Idle] /\ UNCHANGED keyVars
      /\ seals' \in {seals, seals + 1}
      /\ store' = store \/ store' = [store EXCEPT ![call.row] = new]
  BY DEF Finish, Rewrite, ResealAcross
<1>2. /\ c \in InFlight /\ call \in Requests
      /\ call.row \in Rows /\ call.from \in Tenants /\ call.to \in Tenants
      /\ RingOf(call.to, call.toRing)
      /\ call.toRing.current \in WritersOf(call.to)
  BY <1>1, CallFacts
<1>3. seals \in Nat /\ seals' \in Nat
  BY <1>1 DEF TenantsTypeOK
<1>4. new \in StoredRows /\ new.owner = call.to /\ new.bytes.key = call.toRing.current
  BY <1>2, <1>3, TypedState DEF StoredRows, SealWith, RingOf
<1> HIDE DEF new
<1>5. store' \in [Rows -> StoredRows \cup {Absent}]
  BY <1>1, <1>4 DEF TenantsTypeOK
<1>6. seals' + Cardinality(InFlight') <= MaxSeals
  <2>1. calls'[c] = Idle /\ \A d \in Calls \ {c} : calls'[d] = calls[d]
    BY <1>1 DEF TenantsTypeOK
  <2> QED
    BY <1>1, <1>3, <2>1, InFlightCount, TenantsAssumption
<1>7. InFlight' = InFlight \ {c} /\ \A d \in InFlight' : calls'[d] = calls[d]
  BY <1>1 DEF InFlight, TenantsTypeOK
<1>8. ASSUME NEW t \in Tenants, NEW r \in Owned(t)'
      PROVE  store'[r].bytes.key \in WritersOf(t)
  <2>1. CASE r \in Owned(t) /\ store'[r] = store[r]
    BY <2>1 DEF WritersOf
  <2>2. CASE r = call.row /\ store'[r] = new
    BY <1>2, <1>4, <1>8, <2>2 DEF Owned
  <2> QED
    BY <1>1, <1>8, <2>1, <2>2 DEF Owned, TenantsTypeOK
<1>9. \A t \in Tenants : WritersOf(t)' \subseteq WritersOf(t)
  BY <1>1, <1>7, <1>8 DEF WritersOf, keyVars
<1> QED
  BY <1>1, <1>3, <1>5, <1>6, <1>9, CallChanges

LEMMA TenantsStep == TenantsInv /\ [TenantsNext]_tenantVars => TenantsInv'
<1> SUFFICES ASSUME TenantsInv, [TenantsNext]_tenantVars PROVE TenantsInv'
  OBVIOUS
<1>1. ASSUME NEW t \in Tenants,
             \/ Rotate(t) \/ Misprovision(t) \/ Correct(t) \/ Refresh(t) \/ Retire(t)
             \/ Stop(t) \/ Evict(t) \/ Destroy(t)
      PROVE  TenantsInv'
  BY <1>1, RotateKeeps, MisprovisionKeeps, CorrectKeeps, RefreshKeeps, RetireKeeps,
     StopKeeps, EvictKeeps, DestroyKeeps
<1>2. ASSUME NEW c \in Calls, NEW r \in Rows, NEW t \in Tenants, BeginSave(c, r, t)
      PROVE  TenantsInv'
  BY <1>2, BeginSaveKeeps
<1>3. ASSUME NEW c \in Calls, NEW r \in Rows, NEW from \in Tenants, NEW to \in Tenants,
             BeginReseal(c, r, from, to)
      PROVE  TenantsInv'
  BY <1>3, BeginResealKeeps
<1>4. ASSUME NEW c \in Calls, Load(c) \/ Finish(c)
      PROVE  TenantsInv'
  BY <1>4, LoadKeeps, FinishKeeps
<1>5. CASE UNCHANGED tenantVars
  BY <1>5 DEF tenantVars, TenantsInv, TenantsTypeOK, IssuedApart, ListedSound, ListedKeys,
     RingsSound, RingOf, WritersReadable, WritersOf, ReadsSound, CustodyKept, Owned,
     DestroyedLast, Drained, Live, InFlight
<1> QED
  BY <1>1, <1>2, <1>3, <1>4, <1>5 DEF TenantsNext

(* Whichever tenants, keys and calls there are, and however provisioning   *)
(* mistakes, refreshes, rotations, retirements, moves and shreddings meet  *)
(* the calls in flight, each tenant reads its values, no other does, and   *)
(* nobody once it is shredded.                                             *)
THEOREM TenantsStayApart == TenantsSpec => []TenantsApart
<1>1. TenantsSpec => []TenantsInv
  BY TenantsStart, TenantsStep, PTL DEF TenantsSpec
<1> QED
  BY <1>1, TenantsInvSuffices, PTL
=============================================================================
