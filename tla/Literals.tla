------------------------------ MODULE Literals ------------------------------
(***************************************************************************)
(* The literals of a schema, judged twice.  The derives judge the text of  *)
(* an ID, a normalizer's name, a length or a padding when they expand      *)
(* (derive/src/attr.rs); the library judges IDs it parses, the literals    *)
(* of seal_id! and index_id!, and what the constants of a hand-written     *)
(* impl say (src/id.rs, src/seal.rs, src/blind.rs, src/padding.rs,         *)
(* assert_unique_ids! of src/schema.rs).  They are written apart.  A       *)
(* schema moved from a derive to an impl, or an ID written in a            *)
(* configuration, must stay the same schema; the macros alone also take    *)
(* the other forms of a UUID, and what those name must be an ID            *)
(* everywhere.                                                             *)
(*                                                                         *)
(* A text is edited one character at a time.  Characters are one byte.     *)
(***************************************************************************)
EXTENDS Integers, FiniteSetsExt, SequencesExt

CONSTANTS
    Starts,        \* for each kind of literal, the texts an edit starts from
    Alphabet,      \* for each kind of literal, the characters typed
    MaxEdits,      \* bound: for each kind of literal, the edits made
    MaxDeclared,   \* bound: seals declared
    Numbers        \* numbers written, at the limits of the rules

Decimals == {"0", "1", "2", "3", "4", "5", "6", "7", "8", "9"}
HexDigits ==
    Decimals \cup {"a", "b", "c", "d", "e", "f"} \cup {"A", "B", "C", "D", "E", "F"}
Lower(c) ==
    CASE c = "A" -> "a" [] c = "B" -> "b" [] c = "C" -> "c"
      [] c = "D" -> "d" [] c = "E" -> "e" [] c = "F" -> "f" [] OTHER -> c
HexValue == [digit \in HexDigits |->
    LET c == Lower(digit)
    IN  CASE c = "0" -> 0 [] c = "1" -> 1 [] c = "2" -> 2 [] c = "3" -> 3
          [] c = "4" -> 4 [] c = "5" -> 5 [] c = "6" -> 6 [] c = "7" -> 7
          [] c = "8" -> 8 [] c = "9" -> 9 [] c = "a" -> 10 [] c = "b" -> 11
          [] c = "c" -> 12 [] c = "d" -> 13 [] c = "e" -> 14 [] c = "f" -> 15]

LiteralKinds == {"id", "normalizer", "number"}

ASSUME LiteralsAssumption ==
    /\ DOMAIN Starts = LiteralKinds /\ DOMAIN Alphabet = LiteralKinds
    /\ DOMAIN MaxEdits = LiteralKinds
    /\ \A k \in LiteralKinds : \A t \in Starts[k] : t \in Seq(ToSet(t))
    /\ Numbers \subseteq Nat

VARIABLES
    literalKind,   \* what is being written
    literal,       \* an ID or a name
    number,        \* a length or a size
    edits,         \* edits so far
    declared       \* the seal IDs declared so far, with their texts

literalVars == <<literalKind, literal, number, edits, declared>>

(* No value; a value has digits or bytes.                                  *)
None == <<>>

-----------------------------------------------------------------------------
(* IDs.  A value of 128 bits is the sequence of its 32 digits.             *)

Nibbles == 1..32
ToBeBytes(value) == [b \in 1..16 |-> 16 * value[2 * b - 1] + value[2 * b]]

(* Where the n-th digit is: after the hyphens of the groups of 8, 4, 4 and *)
(* 4 digits before it.                                                     *)
Place(n) ==
    n + (IF n <= 8 THEN 0 ELSE IF n <= 12 THEN 1 ELSE IF n <= 16 THEN 2
         ELSE IF n <= 20 THEN 3 ELSE 4)

DigitsOf(s) == [n \in Nibbles |-> HexValue[s[Place(n)]]]

(* The byte index of each of the four hyphens, from 0.                     *)
Hyphens == {8, 13, 18, 23}

UuidValue(s) ==
    IF /\ Len(s) = 36
       /\ \A i \in DOMAIN s : IF i - 1 \in Hyphens THEN s[i] = "-" ELSE s[i] \in HexDigits
    THEN DigitsOf(s) ELSE None

(* Fault: the nil UUID passes for an ID.                                   *)
ParseUuidNil(s) == UuidValue(s)

(* What an expansion writes into SealId::from_u128.                        *)
ParseUuid(s) ==
    LET value == UuidValue(s)
    IN  IF value = None \/ value = [n \in Nibbles |-> 0] THEN None ELSE value

FromU128(value) == ToBeBytes(value)

(* Uuid::try_parse also takes 32 digits alone, and the hyphenated form in  *)
(* braces or after "urn:uuid:".  It reads bytes, two digits at a time,     *)
(* each group from where it starts.                                        *)
PairAt == <<1, 3, 5, 7, 10, 12, 15, 17, 20, 22, 25, 27, 29, 31, 33, 35>>
BytesFrom(s, at) == [b \in 1..16 |-> 16 * HexValue[s[at[b]]] + HexValue[s[at[b] + 1]]]

HasGroups(s) ==
    /\ Len(s) = 36
    /\ {i \in DOMAIN s : s[i] = "-"} = {9, 14, 19, 24}
    /\ ToSet(s) \subseteq HexDigits \cup {"-"}

Urn == <<"u", "r", "n", ":", "u", "u", "i", "d", ":">>

IsBraced(s) == Len(s) = 38 /\ s[1] = "{" /\ s[38] = "}"
IsUrn(s) == Len(s) = 45 /\ SubSeq(s, 1, 9) = Urn

(* The hyphenated text of a wrapped one.                                   *)
Within(s, skip) == SubSeq(s, skip + 1, skip + 36)
Unwrapped(s) == IF IsBraced(s) THEN Within(s, 1) ELSE IF IsUrn(s) THEN Within(s, 9) ELSE s

TryParse(s) ==
    IF Len(s) = 32 /\ ToSet(s) \subseteq HexDigits
    THEN BytesFrom(s, [b \in 1..16 |-> 2 * b - 1])
    ELSE IF HasGroups(Unwrapped(s)) THEN BytesFrom(Unwrapped(s), PairAt)
    ELSE None

(* Fault: every form the crate knows is an ID.                             *)
ParseFormAny(s) == TryParse(s)

ParseForm(s) == IF Len(s) # 36 THEN None ELSE TryParse(s)

IsNil(bytes) == \A b \in 1..16 : bytes[b] = 0

FromStr(s) ==
    LET bytes == ParseForm(s)
    IN  IF bytes # None /\ ~IsNil(bytes) THEN bytes ELSE None

(* Fault: the macro forgets non_nil.                                       *)
IdMacroNil(s) == TryParse(s)

(* seal_id!(s) and index_id!(s), of which the nil UUID fails the build.    *)
IdMacro(s) ==
    LET bytes == TryParse(s)
    IN  IF bytes # None /\ ~IsNil(bytes) THEN bytes ELSE None

(* An ID is printed in lower case, with hyphens.                           *)
DigitChars ==
    <<"0", "1", "2", "3", "4", "5", "6", "7", "8", "9", "a", "b", "c", "d", "e", "f">>
NibblesOf(bytes) ==
    [n \in Nibbles |->
        IF n % 2 = 1 THEN bytes[(n + 1) \div 2] \div 16 ELSE bytes[n \div 2] % 16]
Hyphenated(digits) ==
    [i \in 1..36 |->
        IF i - 1 \in Hyphens THEN "-"
        ELSE digits[i - (IF i < 9 THEN 0 ELSE IF i < 14 THEN 1 ELSE IF i < 19 THEN 2
                         ELSE IF i < 24 THEN 3 ELSE 4)]]
PrintedDigits(bytes) ==
    LET nibbles == NibblesOf(bytes)
    IN  [n \in Nibbles |-> DigitChars[nibbles[n] + 1]]

(* Fault: an ID is printed without hyphens.                                *)
DisplaySimple(bytes) == PrintedDigits(bytes)

Display(bytes) == Hyphenated(PrintedDigits(bytes))

(* Fault: IDs are compared up to their last byte.                          *)
EqualPrefix(left, right) == \A b \in 1..15 : left[b] = right[b]

Equal(left, right) == \A b \in 1..16 : left[b] = right[b]

HasDuplicate(ids) ==
    \E first \in DOMAIN ids : \E second \in first + 1..Len(ids) :
        Equal(ids[first], ids[second])

-----------------------------------------------------------------------------
(* Names of normalizers.                                                   *)

Slashes(s) == {i \in DOMAIN s : s[i] = "/"}

(* Fault: the name ends at the first slash.                                *)
SplitFirst(s) ==
    LET slash == Min(Slashes(s))
    IN  [name |-> SubSeq(s, 1, slash - 1), version |-> SubSeq(s, slash + 1, Len(s))]

RSplitOnce(s) ==
    LET slash == Max(Slashes(s))
    IN  [name |-> SubSeq(s, 1, slash - 1), version |-> SubSeq(s, slash + 1, Len(s))]

(* The derive's.                                                           *)
ValidNormalizer(s) ==
    /\ Slashes(s) # {}
    /\ LET split == RSplitOnce(s)
       IN  /\ split.name # <<>> /\ split.version # <<>>
           /\ split.version[1] # "0"
           /\ ToSet(split.version) \subseteq Decimals

(* Where the library's backward scan stops, from 0.                        *)
SlashScan(s) == IF Slashes(s) = {} THEN 0 ELSE Max(Slashes(s)) - 1

(* The library's, whose indexes are from 0.                                *)
ValidNormalizerConst(s) ==
    LET slash == SlashScan(s)
        At(i) == s[i + 1]
    IN  /\ slash # 0
        /\ At(slash) = "/"
        /\ slash + 1 # Len(s)
        /\ At(slash + 1) # "0"
        /\ \A i \in slash + 1..Len(s) - 1 : At(i) \in Decimals

-----------------------------------------------------------------------------
(* Numbers.                                                                *)

U16Max == 65535

(* Fault: an index of no bits.                                             *)
ParseBitsZero(n) == n <= U16Max /\ n \in 0..256

ParseBits(n) == n <= U16Max /\ n \in 1..256

ValidBits(n) == n > 0 /\ n <= 256

ParsePadding(policy, n) == IF policy = "block" THEN ~(n < 2) ELSE ~(n < 1)
BlockAssert(n) == n >= 2
LengthAssert(n) == n >= 1

-----------------------------------------------------------------------------
LiteralsInit ==
    /\ literalKind \in LiteralKinds
    /\ literal \in Starts[literalKind]
    /\ number \in (IF literalKind = "number" THEN Numbers ELSE {0})
    /\ edits = 0
    /\ declared = <<>>

Replace(i, c) == literal' = [literal EXCEPT ![i] = c]
Insert(i, c) == literal' = InsertAt(literal, i, c)
Delete(i) == literal' = RemoveAt(literal, i)

(* Where the n-th digit of an ID is, by the form of its text.              *)
DigitAt(s, n) ==
    CASE Len(s) = 32 -> n
      [] Len(s) = 36 -> Place(n)
      [] Len(s) = 38 -> Place(n) + 1
      [] Len(s) = 45 -> Place(n) + 9

(* The digits of an ID's text, in lower case.                              *)
Spelling(s) == [n \in Nibbles |-> Lower(s[DigitAt(s, n)])]

Writings(digits) ==
    LET text == Hyphenated(digits)
    IN  {digits, text, <<"{">> \o text \o <<"}">>, Urn \o text}

(* The same UUID is written in another form.                               *)
Reform ==
    /\ literalKind = "id" /\ TryParse(literal) # None
    /\ literal' \in Writings(Spelling(literal))

Edit ==
    /\ edits < MaxEdits[literalKind]
    /\ edits' = edits + 1
    /\ \/ \E i \in DOMAIN literal, c \in Alphabet[literalKind] : Replace(i, c)
       \/ \E i \in 1..Len(literal) + 1, c \in Alphabet[literalKind] : Insert(i, c)
       \/ \E i \in DOMAIN literal : Delete(i)
       \/ Reform
    /\ UNCHANGED <<literalKind, number, declared>>

DeclareAs(id) ==
    /\ literalKind = "id" /\ Len(declared) < MaxDeclared
    /\ declared' = Append(declared, [text |-> literal, id |-> id])
    /\ UNCHANGED <<literalKind, literal, number, edits>>

(* The text is a seal's ID, which a derive takes.                          *)
DeclareDerive ==
    ParseUuid(literal) # None /\ DeclareAs(FromU128(ParseUuid(literal)))

(* The text is a seal's ID, which seal_id! of an impl takes.               *)
DeclareImpl == IdMacro(literal) # None /\ DeclareAs(IdMacro(literal))

LiteralsNext == Edit \/ DeclareDerive \/ DeclareImpl

LiteralsSpec == LiteralsInit /\ [][LiteralsNext]_literalVars

-----------------------------------------------------------------------------
(* An ID written in a derive is the ID its text names in SealId::from_str  *)
(* and in seal_id!, or is refused in all three, the nil UUID among what is *)
(* refused (attr.rs:366, id.rs:58, id.rs:86).  A text that only seal_id!   *)
(* takes is never of 36 characters (id.rs:114), and what any of them takes *)
(* is printed as a text that all three take, for the same ID.              *)
IdsAgree ==
    literalKind = "id" =>
        LET value == ParseUuid(literal)
            taken == IF value = None THEN None ELSE FromU128(value)
            given == IdMacro(literal)
        IN  /\ FromStr(literal) = taken
            /\ taken = IF Len(literal) = 36 THEN given ELSE None
            /\ given # None =>
                LET printed == Display(given)
                IN  /\ FromStr(printed) = given
                    /\ IdMacro(printed) = given
                    /\ FromU128(ParseUuid(printed)) = given

(* assert_unique_ids! finds a copied ID, in a derive or an impl, whatever  *)
(* its form and the case of its digits, and nothing else.                  *)
CopiesAreCaught ==
    LET ids == [d \in DOMAIN declared |-> declared[d].id]
        spelling == [d \in DOMAIN declared |-> Spelling(declared[d].text)]
    IN  HasDuplicate(ids) <=> ~IsInjective(spelling)

(* A name, "/", and a decimal version from 1 without leading zeros.        *)
Versioned(s) ==
    \E i \in 2..Len(s) - 1 :
        /\ s[i] = "/"
        /\ s[i + 1] # "0"
        /\ \A j \in i + 1..Len(s) : s[j] \in Decimals

(* The derive and assert_unique_ids! take the same names, and they are the *)
(* versioned ones: "the derive and assert_unique_ids! must agree"          *)
(* (attr.rs:443, blind.rs:536).                                            *)
NormalizersAgree ==
    literalKind = "normalizer" =>
        /\ ValidNormalizer(literal) <=> Versioned(literal)
        /\ ValidNormalizerConst(literal) <=> Versioned(literal)

(* A number the derive takes does not fail the build where the library     *)
(* asserts it, and one it refuses would have ("mirror the const            *)
(* assertions", attr.rs:404 and 428).                                      *)
NumbersAgree ==
    literalKind = "number" =>
        /\ ParseBits(number) <=> ValidBits(number)
        /\ ParsePadding("block", number) <=> BlockAssert(number)
        /\ ParsePadding("length", number) <=> LengthAssert(number)

(* The derives, which read tokens, and the library, which checks constants *)
(* and configuration, judge every text and number alike.                   *)
LiteralsAgree == IdsAgree /\ CopiesAreCaught /\ NormalizersAgree /\ NumbersAgree
=============================================================================
