------------------------- MODULE DeclarationProofs --------------------------
(***************************************************************************)
(* For items of any number of entries and errors, records of any number    *)
(* of fields, any manifest and texts in any characters: what the derives   *)
(* accept, keep and report, what a record they accepted does in use, what a*)
(* manifest confuses, and that the library judges literals alike.          *)
(*                                                                         *)
(* What expand decides on is the errors and values collected so far, what  *)
(* the properties speak of is the text.  AttrInv ties the two together     *)
(* while the entries of a marker are read, ErrorsExactSoFar and FieldsRight*)
(* while the fields of a record are, and expanding is proved from them     *)
(* alone.  RecordsInv adds what rows hold: values that were sealed, each   *)
(* remembering where; what reads in place follows from what was checked of *)
(* the record's seal IDs.  Of literals, all that is needed of the state is *)
(* that texts are texts and declared IDs were taken; the rest is about the *)
(* two readings of one text.                                               *)
(***************************************************************************)
EXTENDS MarkerDerives, Records, Manifest, Literals, FiniteSetTheorems,
        WellFoundedInduction, TLAPS

-----------------------------------------------------------------------------
(***************************************************************************)
(* Markers: derive(Seal) and derive(BlindIndexSpec).                       *)
(***************************************************************************)

ValuesNamed ==
    \A k \in Keys : values[k] # 0 =>
        entries[values[k]].key = k /\ entries[values[k]].form # "bad"

SeenNamed == \A k \in Keys : k \in seen <=> Names(k)

(* A key without a value is explained by an error.                         *)
Explained ==
    \A k \in Keys : k \in seen /\ values[k] = 0 =>
        \E f \in errors : f.kind = "invalid" /\ f.key = k

(* Errors about a key come of its entries.                                 *)
ErrorsSeen ==
    \A f \in errors :
        f.kind # "missing" /\ (f.key \in Keys => f.key \in seen) /\ f.at <= Len(entries)

ShapeErrors == {f \in errors : f.kind = "shape"}

(* Apart from the item's shape, there is an error exactly if something is  *)
(* badly written.                                                          *)
ErrorsExact == WellWritten <=> errors = ShapeErrors

AttrInv ==
    /\ AttrTypeOK
    /\ Len(entries) <= MaxEntries
    /\ ValuesNamed
    /\ SeenNamed
    /\ expansion = Parsing => Explained /\ ErrorsSeen /\ ErrorsExact

(* The keys of the two derives.                                            *)
LEMMA KeysOf ==
    /\ derive = "Seal" => Keys = SealKeys
    /\ derive = "BlindIndexSpec" => Keys = SpecKeys
BY DEF Keys

LEMMA KeysAreKnown == UnknownName \notin Keys /\ Keys \cap Reasons = {}
BY DEF Keys, SealKeys, SpecKeys, UnknownName, Reasons

(* No step changes the derive.                                             *)
LEMMA SameKeys ==
    ASSUME derive' = derive
    PROVE  Keys' = Keys /\ Entries' = Entries /\ Errors' = Errors
BY DEF Keys, Entries, Errors

LEMMA EntryFacts ==
    ASSUME NEW e \in Entries
    PROVE  /\ e.key \in Keys \cup {UnknownName}
           /\ e.form \in {"good", "bad", "trailing"}
           /\ e.key \notin Keys => e.form = "bad"
BY DEF Entries

LEMMA ErrorFacts ==
    ASSUME NEW kind \in {"shape", "unknown", "duplicate", "invalid", "trailing", "missing",
                         "marker", "single-field", "own-value"},
           NEW key \in Keys \cup {UnknownName} \cup Reasons, NEW at \in Nat
    PROVE  /\ Error(kind, key, at) \in Errors
           /\ Error(kind, key, at).kind = kind
           /\ Error(kind, key, at).key = key
           /\ Error(kind, key, at).at = at
BY DEF Error, Errors

LEMMA AttrStart ==
    ASSUME NEW refused \in SUBSET Reasons, AttrInit(refused),
           derive \in {"Seal", "BlindIndexSpec"}
    PROVE  AttrInv /\ ShapeErrors = {Error("shape", k, 0) : k \in refused}
<1> USE DEF AttrInit
<1>1. \A f \in errors : f \in Errors /\ f.kind = "shape" /\ f.key \in refused /\ f.at = 0
  BY ErrorFacts
<1>2. ShapeErrors = errors
  BY <1>1 DEF ShapeErrors
<1>3. AttrTypeOK /\ Len(entries) <= MaxEntries
  BY <1>1, AttributesAssumption DEF AttrTypeOK
<1>4. ValuesNamed /\ SeenNamed /\ Explained
  BY DEF ValuesNamed, SeenNamed, Explained, Names
<1>5. ErrorsSeen
  BY <1>1, KeysAreKnown DEF ErrorsSeen
<1>6. ErrorsExact
  BY <1>2 DEF ErrorsExact, WellWritten
<1> QED
  BY <1>2, <1>3, <1>4, <1>5, <1>6 DEF AttrInv

(* What one more entry changes of the text.                                *)
LEMMA TextGrows ==
    ASSUME AttrInv, NEW e \in Entries, ParseEntry(e)
    PROVE  /\ entries' \in Seq(Entries)
           /\ Len(entries') = Len(entries) + 1 /\ Len(entries) \in Nat
           /\ DOMAIN entries = 1..Len(entries) /\ DOMAIN entries' = 1..At
           /\ At = Len(entries) + 1
           /\ entries'[At] = e
           /\ \A i \in DOMAIN entries : entries'[i] = entries[i]
           /\ \A k : Names(k)' <=> (Names(k) \/ k = e.key)
           /\ derive' = derive /\ Keys' = Keys /\ Entries' = Entries /\ Errors' = Errors
           /\ WellWritten' <=> /\ WellWritten /\ e.key \in Keys /\ e.form = "good"
                               /\ ~Names(e.key)
<1>0. derive' = derive /\ Keys' = Keys /\ Entries' = Entries /\ Errors' = Errors
  BY SameKeys DEF ParseEntry
<1>1. entries \in Seq(Entries) /\ entries' = Append(entries, e)
  BY DEF AttrInv, AttrTypeOK, ParseEntry
<1>2. At = Len(entries) + 1 /\ Len(entries) \in Nat
  BY <1>1 DEF At
<1>3. /\ entries' \in Seq(Entries) /\ Len(entries') = Len(entries) + 1
      /\ DOMAIN entries = 1..Len(entries) /\ DOMAIN entries' = 1..At
  BY <1>1, <1>2
<1>4. entries'[At] = e /\ \A i \in DOMAIN entries : entries'[i] = entries[i]
  BY <1>1, <1>2, <1>3
<1>5. DOMAIN entries' = DOMAIN entries \cup {At} /\ At \notin DOMAIN entries
  BY <1>2, <1>3
<1>6. \A k : Names(k)' <=> (Names(k) \/ k = e.key)
  BY <1>4, <1>5 DEF Names
<1>7. WellWritten' <=> /\ WellWritten /\ e.key \in Keys /\ e.form = "good"
                       /\ ~Names(e.key)
  BY <1>0, <1>4, <1>5 DEF WellWritten, Names
<1> QED
  BY <1>0, <1>2, <1>3, <1>4, <1>6, <1>7

(* The four ways an entry is read, as one: the error it adds, if any, and  *)
(* what it tells of the entry.                                             *)
LEMMA OneError ==
    ASSUME AttrInv, NEW e \in Entries, ParseEntry(e)
    PROVE  /\ e.key \in Keys => seen' = seen \cup {e.key}
           /\ e.key \notin Keys => seen' = seen
           /\ \/ values' = values
              \/ /\ e.key \in Keys \ seen /\ e.form # "bad"
                 /\ values' = [values EXCEPT ![e.key] = At]
           /\ e.key \in Keys \ seen /\ values' = values =>
                 Error("invalid", e.key, At) \in errors'
           /\ \/ errors' = errors /\ e.key \in Keys \ seen /\ e.form = "good"
              \/ /\ ~(e.key \in Keys \ seen /\ e.form = "good")
                 /\ \E kind \in {"unknown", "duplicate", "invalid", "trailing"} :
                        errors' = errors \cup {Error(kind, e.key, At)}
<1>1. CASE UnknownKey(e)
  BY <1>1 DEF UnknownKey
<1>2. CASE DuplicateKey(e)
  BY <1>2 DEF DuplicateKey, AttrInv, AttrTypeOK
<1>3. CASE InvalidValue(e)
  BY <1>3 DEF InvalidValue
<1>4. CASE ValidValue(e)
  <2>1. values'[e.key] = At /\ At # 0 /\ e.key \in Keys
    BY <1>4, TextGrows DEF ValidValue, AttrInv, AttrTypeOK
  <2>2. values' # values \/ values[e.key] = At
    BY <2>1
  <2>3. values[e.key] # At
    BY <2>1, TextGrows DEF AttrInv, AttrTypeOK
  <2>4. CASE e.form = "trailing"
    BY <1>4, <2>2, <2>3, <2>4 DEF ValidValue
  <2>5. CASE e.form # "trailing"
    BY <1>4, <2>2, <2>3, <2>5, EntryFacts DEF ValidValue
  <2> QED
    BY <2>4, <2>5
<1> QED
  BY <1>1, <1>2, <1>3, <1>4 DEF ParseEntry

(* Reading an entry keeps what is known of the ones read.                  *)
LEMMA EntryKeeps ==
    ASSUME AttrInv, NEW e \in Entries, ParseEntry(e)
    PROVE  AttrInv' /\ ShapeErrors' = ShapeErrors
<1> expansion = Parsing /\ expansion' = Parsing /\ Len(entries) < MaxEntries
    /\ shape' = shape /\ generic' = generic
  BY DEF ParseEntry
<1> derive' = derive /\ Keys' = Keys /\ Entries' = Entries /\ Errors' = Errors
  BY TextGrows
<1>0. /\ AttrTypeOK /\ ValuesNamed /\ SeenNamed
      /\ Explained /\ ErrorsSeen /\ ErrorsExact
  BY DEF AttrInv
<1>1. errors \subseteq errors'
  BY OneError
<1>2. ASSUME NEW f \in errors', f \notin errors
      PROVE  /\ f \in Errors /\ f.at = At
             /\ f.kind \in {"unknown", "duplicate", "invalid", "trailing"}
             /\ f.key = e.key
  <2>1. PICK kind \in {"unknown", "duplicate", "invalid", "trailing"} :
            errors' = errors \cup {Error(kind, e.key, At)}
    BY <1>2, OneError
  <2>2. At \in Nat /\ e.key \in Keys \cup {UnknownName}
    BY TextGrows, EntryFacts
  <2> QED
    BY <1>2, <2>1, <2>2, ErrorFacts
<1>3. AttrTypeOK'
  <2>1. seen' \subseteq Keys
    BY <1>0, OneError DEF AttrTypeOK
  <2>2. values' \in [Keys -> 0..Len(entries)']
    BY <1>0, OneError, TextGrows, AttributesAssumption DEF AttrTypeOK
  <2>3. errors' \subseteq Errors'
    BY <1>0, <1>2 DEF AttrTypeOK
  <2> QED
    BY <1>0, <2>1, <2>2, <2>3, TextGrows DEF AttrTypeOK
<1>4. Len(entries') <= MaxEntries
  BY TextGrows, AttributesAssumption
<1>5. ValuesNamed'
  <2> SUFFICES ASSUME NEW k \in Keys, values'[k] # 0
               PROVE  entries'[values'[k]].key = k /\ entries'[values'[k]].form # "bad"
    BY DEF ValuesNamed
  <2>1. values \in [Keys -> 0..Len(entries)]
    BY <1>0 DEF AttrTypeOK
  <2>2. CASE values'[k] = values[k]
    <3>1. values[k] \in DOMAIN entries
      BY <2>1, <2>2, TextGrows
    <3> QED
      BY <1>0, <2>2, <3>1, TextGrows DEF ValuesNamed
  <2>3. CASE values'[k] # values[k]
    <3>1. k = e.key /\ values'[k] = At /\ e.form # "bad"
      BY <2>1, <2>3, OneError
    <3> QED
      BY <3>1, TextGrows
  <2> QED
    BY <2>2, <2>3
<1>6. SeenNamed'
  BY <1>0, OneError, TextGrows DEF SeenNamed
<1>7. Explained'
  <2> SUFFICES ASSUME NEW k \in Keys, k \in seen', values'[k] = 0
               PROVE  \E f \in errors' : f.kind = "invalid" /\ f.key = k
    BY DEF Explained
  <2>1. values \in [Keys -> 0..Len(entries)] /\ At # 0 /\ At \in Nat
    BY <1>0, TextGrows DEF AttrTypeOK
  <2>2. values[k] = 0
    BY <1>0, <2>1, OneError DEF AttrTypeOK
  <2>3. CASE k \in seen
    BY <1>0, <1>1, <2>2, <2>3 DEF Explained
  <2>4. CASE k \notin seen
    <3>1. k = e.key /\ values' = values
      BY <2>1, <2>4, OneError
    <3>2. Error("invalid", k, At) \in errors'
      BY <2>4, <3>1, OneError
    <3>3. Error("invalid", k, At).kind = "invalid" /\ Error("invalid", k, At).key = k
      BY <2>1, ErrorFacts
    <3> QED
      BY <3>2, <3>3
  <2> QED
    BY <2>3, <2>4
<1>8. ErrorsSeen'
  <2> SUFFICES ASSUME NEW f \in errors'
               PROVE  /\ f.kind # "missing" /\ (f.key \in Keys => f.key \in seen')
                      /\ f.at <= Len(entries)'
    BY DEF ErrorsSeen
  <2>1. CASE f \in errors
    <3>1. f.at <= Len(entries) /\ f.at \in Nat
      BY <1>0, <2>1 DEF ErrorsSeen, AttrTypeOK, Errors
    <3> QED
      BY <1>0, <2>1, <3>1, OneError, TextGrows DEF ErrorsSeen
  <2>2. CASE f \notin errors
    BY <1>2, <2>2, OneError, TextGrows
  <2> QED
    BY <2>1, <2>2
<1>9. ShapeErrors' = ShapeErrors
  BY <1>1, <1>2 DEF ShapeErrors
<1>10. ErrorsExact'
  <2>1. errors' = ShapeErrors' <=> errors' = errors /\ errors = ShapeErrors
    BY <1>1, <1>2 DEF ShapeErrors
  <2>2. errors' = errors <=> e.key \in Keys \ seen /\ e.form = "good"
    <3>1. CASE e.key \in Keys \ seen /\ e.form = "good"
      BY <3>1, OneError
    <3>2. CASE ~(e.key \in Keys \ seen /\ e.form = "good")
      <4>1. PICK kind \in {"unknown", "duplicate", "invalid", "trailing"} :
                errors' = errors \cup {Error(kind, e.key, At)}
        BY <3>2, OneError
      <4>2. Error(kind, e.key, At).at = At /\ Error(kind, e.key, At) \in errors'
        BY <4>1, ErrorFacts, EntryFacts, TextGrows
      <4>3. Error(kind, e.key, At) \notin errors
        BY <1>0, <4>2, TextGrows DEF ErrorsSeen
      <4> QED
        BY <3>2, <4>2, <4>3
    <3> QED
      BY <3>1, <3>2
  <2>3. e.key \in Keys => (e.key \in seen <=> Names(e.key))
    BY <1>0 DEF SeenNamed
  <2> QED
    BY <1>0, <2>1, <2>2, <2>3, TextGrows DEF ErrorsExact
<1> QED
  BY <1>3, <1>4, <1>5, <1>6, <1>7, <1>8, <1>9, <1>10 DEF AttrInv

(* What expand may rely on.  For an accepted text, the values are the      *)
(* entries and every entry is a value.                                     *)
LEMMA WellWrittenRead ==
    ASSUME AttrInv, expansion = Parsing, WellWritten
    PROVE  /\ \A k \in Keys : (values[k] # 0 <=> Names(k)) /\ (k \in seen <=> Names(k))
           /\ \A i \in DOMAIN entries : entries[i].key \in Keys /\ values[entries[i].key] = i
<1>1. AttrTypeOK /\ ValuesNamed /\ SeenNamed /\ Explained /\ errors = ShapeErrors
  BY DEF AttrInv, ErrorsExact
<1>2. \A k \in Keys : values[k] # 0 => values[k] \in DOMAIN entries
  BY <1>1 DEF AttrTypeOK
<1>3. \A k \in Keys : values[k] # 0 => Names(k)
  BY <1>1, <1>2 DEF ValuesNamed, Names
<1>4. \A k \in Keys : k \in seen => values[k] # 0
  BY <1>1 DEF Explained, ShapeErrors
<1>5. \A k \in Keys : Names(k) => values[k] # 0
  BY <1>1, <1>4 DEF SeenNamed
<1>6. ASSUME NEW i \in DOMAIN entries
      PROVE  entries[i].key \in Keys /\ values[entries[i].key] = i
  <2>1. entries[i].key \in Keys
    BY DEF WellWritten
  <2>2. values[entries[i].key] # 0
    BY <1>5, <2>1 DEF Names
  <2>3. entries[values[entries[i].key]].key = entries[i].key
    BY <1>1, <2>1, <2>2 DEF ValuesNamed
  <2> QED
    BY <1>2, <2>1, <2>2, <2>3 DEF WellWritten
<1> QED
  BY <1>1, <1>3, <1>5, <1>6 DEF SeenNamed

(* A missing key has no other error.                                       *)
LEMMA MissingAlone ==
    ASSUME AttrInv, expansion = Parsing, NEW k \in Keys, NEW e \in Missing(k)
    PROVE  /\ e = Error("missing", k, 0) /\ k \notin seen
           /\ \A f \in errors : f.key # k
BY DEF AttrInv, ErrorsSeen, Missing

-----------------------------------------------------------------------------
(* #[derive(Seal)].                                                        *)

SealInv ==
    /\ derive = "Seal"
    /\ AttrInv
    /\ expansion = Parsing =>
        ShapeErrors = {Error("shape", k, 0) : k \in SealRefused}
    /\ SealTypeOK
    /\ SealAcceptsExactly
    /\ SealNothingIgnored
    /\ SealNoErrorTwice
    /\ MarkersNeverUnreachable

LEMMA SealParts ==
    ASSUME Keys = SealKeys, AttrInv
    PROVE  /\ \A k \in SealKeys : values[k] \in Position
           /\ Form = NoForm \/ Form \in Forms
           /\ \A is, value, codec : FormOf(is, value, codec) # NoForm
           /\ Expanded \/ Parsing # [is |-> "expanded"]
<1>1. values \in [Keys -> 0..Len(entries)] /\ Len(entries) <= MaxEntries
      /\ entries \in Seq(Entries)
  BY DEF AttrInv, AttrTypeOK
<1>2. \A k \in SealKeys : values[k] \in Position
  BY <1>1, AttributesAssumption DEF Position
<1>3. 0 \in Position
  BY AttributesAssumption DEF Position
<1>4. \A is \in {"marker", "self-valued", "transparent"}, v, c \in Position :
          FormOf(is, v, c) \in Forms
  BY DEF FormOf, Forms
<1>5. "value" \in SealKeys /\ "codec" \in SealKeys
  BY DEF SealKeys
<1>6. Form = NoForm \/ Form \in Forms
  <2>1. CASE Marker /\ values["value"] # 0
    <3>1. ~Wrapper /\ ~Whole
      BY <2>1 DEF Wrapper, Whole
    <3> QED
      BY <1>2, <1>4, <1>5, <2>1, <3>1 DEF Form
  <2>2. CASE Wrapper
    BY <1>2, <1>3, <1>4, <1>5, <2>2 DEF Form, Wrapper, WrapperForm
  <2>3. CASE Whole /\ values["codec"] # 0
    BY <1>2, <1>3, <1>4, <1>5, <2>3 DEF Form, Whole, Wrapper
  <2> QED
    BY <2>1, <2>2, <2>3 DEF Form
<1>7. \A is, value, codec : FormOf(is, value, codec) # NoForm
  BY DEF FormOf, NoForm
<1> QED
  BY <1>2, <1>6, <1>7 DEF Parsing

(* Without an error so far, expand adds none exactly for a declaration,    *)
(* and then has every part it unwraps.                                     *)
LEMMA SealDecides ==
    ASSUME Keys = SealKeys, SealInv, expansion = Parsing
    PROVE  /\ errors \cup Missing("id") \cup FormErrors = {} <=> SealDeclares
           /\ SealDeclares => values["id"] # 0 /\ Form # NoForm
<1> USE DEF SealInv
<1>1. errors = {} <=> WellWritten /\ SealRefused = {}
  <2>1. errors = ShapeErrors <=> WellWritten
    BY DEF AttrInv, ErrorsExact
  <2>2. ShapeErrors = {} <=> SealRefused = {}
    OBVIOUS
  <2> QED
    BY <2>1, <2>2 DEF ShapeErrors
<1>2. SealRefused = {} <=> ~generic /\ shape # "union"
  BY DEF SealRefused, AttrInv, AttrTypeOK
<1>3. SUFFICES ASSUME WellWritten
               PROVE  /\ Missing("id") \cup FormErrors = {} <=>
                           /\ Names("id")
                           /\ Names("value") <=> shape = "unit"
                           /\ Names("transparent") => shape = "one"
                           /\ shape # "unit" /\ ~Names("transparent") => Names("codec")
                      /\ Missing("id") \cup FormErrors = {} =>
                           values["id"] # 0 /\ Form # NoForm
  BY <1>1, <1>2 DEF SealDeclares
<1>4. \A k \in SealKeys : (values[k] # 0 <=> Names(k)) /\ (k \in seen <=> Names(k))
  BY <1>3, WellWrittenRead
<1>5. {"id", "value", "codec", "transparent"} \subseteq SealKeys
  BY DEF SealKeys
<1>6. Missing("id") = {} <=> Names("id")
  BY <1>4, <1>5 DEF Missing
<1>7. Missing("value") = {} <=> Names("value")
  BY <1>4, <1>5 DEF Missing
<1>8. Flagged <=> Names("transparent")
  BY <1>4, <1>5 DEF Flagged
<1>9. MissingCodec = {} <=> Names("codec") \/ Names("transparent")
  BY <1>4, <1>5 DEF MissingCodec
<1>10. \A is, value, codec : FormOf(is, value, codec) # NoForm
  BY DEF FormOf, NoForm
<1>11. CASE Marker
  <2>1. ~Wrapper /\ ~Whole /\ shape = "unit"
    BY <1>11 DEF Wrapper, Whole, Marker
  <2>2. FormErrors = {} <=> Names("value") /\ ~Names("transparent")
    <3>1. FormErrors = Missing("value") \cup
                       {Error("marker", k, 0) : k \in IF Flagged THEN {"transparent"} ELSE {}}
      BY <1>11, <2>1 DEF FormErrors
    <3> QED
      BY <1>7, <1>8, <3>1
  <2>3. Names("value") => Form # NoForm
    BY <1>4, <1>5, <1>10, <1>11, <2>1 DEF Form
  <2> QED
    BY <1>4, <1>5, <1>6, <2>1, <2>2, <2>3
<1>12. CASE Wrapper
  <2>1. ~Marker /\ ~Whole /\ shape # "unit" /\ ~Names("value") /\ Names("transparent")
    BY <1>4, <1>5, <1>8, <1>12 DEF Wrapper, Whole, Marker
  <2>2. FormErrors = {} <=> shape = "one"
    BY <1>12, <2>1 DEF FormErrors
  <2>3. shape = "one" => Form # NoForm
    BY <1>10, <1>12, <2>1 DEF Form, WrapperForm
  <2> QED
    BY <1>4, <1>5, <1>6, <2>1, <2>2, <2>3
<1>13. CASE Whole
  <2>1. ~Marker /\ ~Wrapper /\ shape # "unit" /\ ~Names("value") /\ ~Names("transparent")
    BY <1>4, <1>5, <1>8, <1>13 DEF Wrapper, Whole, Marker
  <2>2. FormErrors = {} <=> Names("codec")
    BY <1>9, <1>13, <2>1 DEF FormErrors
  <2>3. Names("codec") => Form # NoForm
    BY <1>4, <1>5, <1>10, <1>13, <2>1 DEF Form
  <2> QED
    BY <1>4, <1>5, <1>6, <2>1, <2>2, <2>3
<1>14. CASE ~Marker /\ ~Wrapper /\ ~Whole
  <2>1. shape # "unit" /\ Names("value")
    BY <1>4, <1>5, <1>14 DEF Wrapper, Whole, Marker
  <2>2. FormErrors # {}
    BY <1>14 DEF FormErrors
  <2> QED
    BY <2>1, <2>2
<1> QED
  BY <1>11, <1>12, <1>13, <1>14

(* The errors expand adds are about keys nothing was said of.              *)
LEMMA SealErrorsAlone ==
    ASSUME Keys = SealKeys, SealInv, expansion = Parsing, SealExpand
    PROVE  SealNoErrorTwice' /\ errors' \subseteq Errors
<1> DEFINE own == {Error("marker", "transparent", 0),
                   Error("single-field", "transparent", 0),
                   Error("own-value", "value", 0)}
<1>1. AttrInv /\ errors' = errors \cup Missing("id") \cup FormErrors
  BY DEF SealInv, SealExpand
<1>2. {"id", "value", "codec", "transparent"} \subseteq Keys
  BY DEF SealKeys
<1>3. errors \subseteq Errors /\ \A f \in errors :
          f.kind # "missing" /\ (f.key \in Keys => f.key \in seen)
  BY <1>1 DEF AttrInv, AttrTypeOK, ErrorsSeen
<1>4. \A f \in Missing("id") : f = Error("missing", "id", 0) /\ "id" \notin seen
  BY DEF Missing
<1>5. ASSUME NEW f \in FormErrors
      PROVE  \/ f \in own
             \/ /\ f = Error("missing", "value", 0) /\ "value" \notin seen
                /\ \A g \in FormErrors : g # f => g = Error("marker", "transparent", 0)
             \/ /\ f = Error("missing", "codec", 0)
                /\ seen \cap {"codec", "transparent"} = {}
                /\ FormErrors = {f}
  <2>1. CASE Marker
    <3>1. ~Wrapper /\ ~Whole
      BY <2>1 DEF Wrapper, Whole
    <3>2. FormErrors = Missing("value") \cup
                       {Error("marker", k, 0) : k \in IF Flagged THEN {"transparent"} ELSE {}}
      BY <2>1, <3>1 DEF FormErrors
    <3>3. \A g \in FormErrors :
              \/ g = Error("marker", "transparent", 0)
              \/ g = Error("missing", "value", 0) /\ "value" \notin seen
      BY <3>2 DEF Missing
    <3> QED
      BY <1>5, <3>3
  <2>2. CASE ~Marker /\ Wrapper
    BY <1>5, <2>2 DEF FormErrors, Whole, Wrapper
  <2>3. CASE ~Marker /\ ~Wrapper /\ Whole
    BY <1>5, <2>3 DEF FormErrors, MissingCodec
  <2>4. CASE ~Marker /\ ~Wrapper /\ ~Whole
    BY <1>5, <2>4 DEF FormErrors
  <2> QED
    BY <2>1, <2>2, <2>3, <2>4
<1>6. \A f \in FormErrors : f \in Errors /\ f.key # "id"
  BY <1>2, <1>5, ErrorFacts
<1>7. \A f \in Missing("id") : f \in Errors /\ f.kind = "missing" /\ f.key = "id"
  BY <1>2, <1>4, ErrorFacts
<1>8. errors' \subseteq Errors
  BY <1>1, <1>3, <1>6, <1>7
<1>9. SealNoErrorTwice'
  <2> SUFFICES ASSUME NEW e \in errors', e.kind = "missing",
                      NEW f \in errors', f # e
               PROVE  f.key \notin (IF e.key = "codec" THEN {"codec", "transparent"} ELSE {e.key})
    BY DEF SealNoErrorTwice
  <2>1. e \notin errors
    BY <1>3
  <2>2. CASE e \in Missing("id")
    BY <1>1, <1>2, <1>3, <1>4, <1>6, <1>7, <2>2
  <2>3. CASE e = Error("missing", "value", 0) /\ e \in FormErrors
    <3>1. e.key = "value" /\ e \notin own /\ "value" \notin seen
      BY <1>2, <1>5, <2>3, ErrorFacts
    <3>2. CASE f \in FormErrors
      BY <1>2, <1>5, <2>3, <3>1, <3>2, ErrorFacts
    <3> QED
      BY <1>1, <1>2, <1>3, <1>7, <3>1, <3>2
  <2>4. CASE e = Error("missing", "codec", 0) /\ e \in FormErrors
    <3>1. e.key = "codec" /\ e \notin own /\ seen \cap {"codec", "transparent"} = {}
          /\ FormErrors = {e}
      BY <1>2, <1>5, <2>4, ErrorFacts
    <3> QED
      BY <1>1, <1>2, <1>3, <1>7, <3>1
  <2>5. e \in own => e.kind # "missing"
    BY <1>2, ErrorFacts
  <2> QED
    BY <1>1, <1>5, <2>1, <2>2, <2>3, <2>4, <2>5
<1> QED
  BY <1>8, <1>9

LEMMA SealExpandKeeps ==
    ASSUME SealInv, SealExpand
    PROVE  SealInv'
<1> expansion = Parsing /\ Keys = SealKeys
  BY KeysOf DEF SealExpand, SealInv
<1> derive' = derive /\ Keys' = Keys /\ Entries' = Entries /\ Errors' = Errors
  BY SameKeys DEF SealExpand
<1>0. AttrInv /\ values \in [Keys -> 0..Len(entries)]
  BY DEF SealInv, AttrInv, AttrTypeOK
<1>1. /\ shape' = shape /\ generic' = generic /\ entries' = entries /\ seen' = seen
      /\ values' = values
  BY DEF SealExpand
<1>2. SealDeclares' <=> SealDeclares
  BY <1>1 DEF SealDeclares, WellWritten, Names
<1>3. errors' = {} <=> SealDeclares
  BY SealDecides DEF SealExpand
<1>4. ASSUME SealDeclares
      PROVE  /\ SealAcceptsExactly' /\ MarkersNeverUnreachable' /\ SealNothingIgnored'
             /\ expansion' \in {Rejected} \cup Expansions /\ expansion' # Parsing
  <2>1. expansion' = [is |-> "expanded", id |-> values["id"], padding |-> values["padding"],
                      form |-> Form]
    BY <1>3, <1>4, SealDecides DEF SealExpand
  <2>2. Form \in Forms /\ values["id"] \in Position /\ values["padding"] \in Position
    BY <1>0, <1>4, SealParts, SealDecides DEF SealKeys
  <2>3. expansion' \in Expansions /\ expansion'.is = "expanded"
    BY <2>1, <2>2 DEF Expansions
  <2>4. SealNothingIgnored'
    <3> SUFFICES ASSUME NEW i \in DOMAIN entries
                 PROVE  CASE entries[i].key = "id" -> expansion'.id = i
                          [] entries[i].key = "padding" -> expansion'.padding = i
                          [] entries[i].key = "codec" -> expansion'.form.codec = i
                          [] entries[i].key = "value" -> expansion'.form.value = i
                          [] entries[i].key = "transparent" -> expansion'.form.is = "transparent"
      BY <1>1 DEF SealNothingIgnored
    <3>1. WellWritten
      BY <1>4 DEF SealDeclares
    <3>2. entries[i].key \in SealKeys /\ values[entries[i].key] = i
      BY <1>0, <3>1, WellWrittenRead
    <3>3. i # 0
      BY <1>0 DEF AttrInv, AttrTypeOK
    <3>4. expansion'.id = values["id"] /\ expansion'.padding = values["padding"]
          /\ expansion'.form = Form
      BY <2>1
    <3>5. \A is, v, c : /\ FormOf(is, v, c).is = is /\ FormOf(is, v, c).value = v
                        /\ FormOf(is, v, c).codec = c
      BY DEF FormOf
    <3>6. NoForm.is = "none" /\ Form # NoForm
      BY <1>4, SealDecides DEF NoForm
    <3>7. CASE entries[i].key = "codec"
      <4>1. Form.codec = values["codec"]
        <5>1. CASE Marker
          <6>1. ~Wrapper /\ ~Whole
            BY <5>1 DEF Wrapper, Whole
          <6> QED
            BY <3>5, <3>6, <5>1, <6>1 DEF Form
        <5>2. CASE ~Marker
          BY <3>5, <3>6, <5>2 DEF Form, WrapperForm
        <5> QED
          BY <5>1, <5>2
      <4> QED
        BY <3>2, <3>4, <3>7, <4>1
    <3>8. CASE entries[i].key = "value"
      <4>1. values["value"] = i /\ ~Wrapper /\ ~Whole
        BY <3>2, <3>3, <3>8 DEF Wrapper, Whole
      <4>2. Form.value = values["value"]
        BY <3>5, <3>6, <4>1 DEF Form
      <4> QED
        BY <3>4, <3>8, <4>1, <4>2
    <3>9. CASE entries[i].key = "transparent"
      <4>1. Names("transparent") /\ shape = "one"
        BY <1>4, <3>9 DEF SealDeclares, Names
      <4>2. ~Names("value") /\ values["value"] = 0
        BY <1>0, <1>4, <3>1, <4>1, WellWrittenRead DEF SealDeclares, SealKeys
      <4>3. Wrapper /\ ~Marker /\ ~Whole
        BY <3>2, <3>3, <3>9, <4>1, <4>2 DEF Wrapper, Whole, Marker, Flagged
      <4>4. Form = FormOf("transparent", 0, values["codec"])
        BY <4>1, <4>3 DEF Form, WrapperForm
      <4> QED
        BY <3>4, <3>5, <3>9, <4>4
    <3> QED
      BY <3>2, <3>4, <3>7, <3>8, <3>9 DEF SealKeys
  <2>5. SealAcceptsExactly' /\ MarkersNeverUnreachable'
    BY <1>2, <1>4, <2>3 DEF SealAcceptsExactly, MarkersNeverUnreachable, Done, Expanded,
       Parsing, Unreachable
  <2>6. expansion' # Parsing
    BY <2>3 DEF Parsing
  <2> QED
    BY <2>3, <2>4, <2>5, <2>6
<1>5. ASSUME ~SealDeclares
      PROVE  /\ SealAcceptsExactly' /\ MarkersNeverUnreachable' /\ SealNothingIgnored'
             /\ expansion' \in {Rejected} \cup Expansions /\ expansion' # Parsing
  <2>1. expansion' = Rejected
    BY <1>3, <1>5 DEF SealExpand
  <2>2. expansion'.is = "rejected"
    BY <2>1 DEF Rejected
  <2> QED
    BY <1>2, <1>5, <2>1, <2>2 DEF SealAcceptsExactly, MarkersNeverUnreachable, SealNothingIgnored,
       Done, Expanded, Parsing, Unreachable
<1>6. /\ SealAcceptsExactly' /\ MarkersNeverUnreachable' /\ SealNothingIgnored'
      /\ expansion' \in {Rejected} \cup Expansions /\ expansion' # Parsing
  BY <1>4, <1>5
<1>7. SealNoErrorTwice' /\ errors' \subseteq Errors
  BY SealErrorsAlone
<1>8. AttrTypeOK' /\ Len(entries)' <= MaxEntries /\ ValuesNamed' /\ SeenNamed'
  BY <1>0, <1>1, <1>7 DEF AttrInv, AttrTypeOK, ValuesNamed, SeenNamed, Names
<1> QED
  BY <1>6, <1>7, <1>8 DEF SealInv, AttrInv, SealTypeOK

LEMMA AttrStutter == AttrInv /\ UNCHANGED vars => AttrInv' /\ ShapeErrors' = ShapeErrors
<1> SUFFICES ASSUME AttrInv, UNCHANGED vars PROVE AttrInv' /\ ShapeErrors' = ShapeErrors
  OBVIOUS
<1>1. Keys' = Keys /\ Entries' = Entries /\ Errors' = Errors
  BY SameKeys DEF vars
<1>2. AttrTypeOK' /\ Len(entries)' <= MaxEntries
  BY <1>1 DEF AttrInv, AttrTypeOK, vars
<1>3. ValuesNamed' /\ SeenNamed' /\ Explained' = Explained /\ ErrorsSeen' = ErrorsSeen
  BY <1>1 DEF AttrInv, ValuesNamed, SeenNamed, Explained, ErrorsSeen, Names, vars
<1>4. ShapeErrors' = ShapeErrors /\ ErrorsExact' = ErrorsExact
  BY <1>1 DEF ErrorsExact, ShapeErrors, WellWritten, vars
<1> QED
  BY <1>2, <1>3, <1>4 DEF AttrInv, vars

(* Before expand the properties of its result hold of no result.           *)
LEMMA SealInductive == SealInv /\ [MarkerNext]_vars => SealInv'
<1> SUFFICES ASSUME SealInv, [MarkerNext]_vars PROVE SealInv'
  OBVIOUS
<1>1. ASSUME NEW e \in Entries, ParseEntry(e) PROVE SealInv'
  <2>1. AttrInv' /\ ShapeErrors' = ShapeErrors /\ AttrTypeOK'
    BY <1>1, EntryKeeps DEF SealInv, AttrInv
  <2>2. /\ expansion = Parsing /\ expansion' = Parsing
        /\ derive' = derive /\ shape' = shape /\ generic' = generic
    BY <1>1 DEF ParseEntry
  <2>3. SealRefused' = SealRefused
    BY <2>2 DEF SealRefused
  <2>4. Parsing # Unreachable /\ Parsing.is # "expanded"
    BY DEF Parsing, Unreachable
  <2>5. SealNoErrorTwice'
    BY <2>1, <2>2 DEF AttrInv, ErrorsSeen, SealNoErrorTwice
  <2> QED
    BY <2>1, <2>2, <2>3, <2>4, <2>5 DEF SealInv, SealTypeOK, SealAcceptsExactly,
       SealNothingIgnored, MarkersNeverUnreachable, Done, Expanded
<1>2. CASE SealExpand
  BY <1>2, SealExpandKeeps
<1>3. CASE UNCHANGED vars
  <2>1. AttrInv' /\ ShapeErrors' = ShapeErrors
    BY <1>3, AttrStutter DEF SealInv
  <2>2. derive' = derive /\ expansion' = expansion /\ SealRefused' = SealRefused
    BY <1>3 DEF vars, SealRefused
  <2>3. SealTypeOK' /\ SealNoErrorTwice' /\ MarkersNeverUnreachable'
    BY <1>3 DEF SealInv, vars, SealTypeOK, SealNoErrorTwice, MarkersNeverUnreachable
  <2>4. SealAcceptsExactly'
    BY <1>3, SameKeys DEF SealInv, vars, SealAcceptsExactly, Done, Expanded, SealDeclares,
       WellWritten, Names
  <2>5. SealNothingIgnored'
    BY <1>3 DEF SealInv, vars, SealNothingIgnored, Expanded
  <2> QED
    BY <2>1, <2>2, <2>3, <2>4, <2>5 DEF SealInv
<1>4. CASE SpecExpand
  BY <1>4 DEF SpecExpand, SealInv
<1> QED
  BY <1>1, <1>2, <1>3, <1>4 DEF MarkerNext

LEMMA SealStart == SealInit => SealInv
<1> SUFFICES ASSUME SealInit PROVE SealInv
  OBVIOUS
<1>1. SealRefused \in SUBSET Reasons /\ AttrInit(SealRefused) /\ derive = "Seal"
  BY DEF SealInit, SealRefused, Reasons
<1>2. AttrInv /\ ShapeErrors = {Error("shape", k, 0) : k \in SealRefused}
  BY <1>1, AttrStart
<1>3. expansion = Parsing /\ Parsing # Unreachable /\ Parsing.is # "expanded"
  BY <1>1 DEF AttrInit, Parsing, Unreachable
<1> QED
  BY <1>1, <1>2, <1>3 DEF SealInv, AttrInv, ErrorsSeen, SealTypeOK, SealAcceptsExactly,
     SealNothingIgnored, SealNoErrorTwice, MarkersNeverUnreachable, Done, Expanded

-----------------------------------------------------------------------------
(* #[derive(BlindIndexSpec)].                                              *)

IndexInv ==
    /\ derive = "BlindIndexSpec"
    /\ AttrInv
    /\ expansion = Parsing =>
        ShapeErrors = {Error("shape", k, 0) : k \in SpecRefused}
    /\ SpecAcceptsExactly
    /\ SpecNothingIgnored
    /\ SpecNoErrorTwice
    /\ MarkersNeverUnreachable

LEMMA SpecDecides ==
    ASSUME Keys = SpecKeys, IndexInv, expansion = Parsing
    PROVE  /\ errors \cup UNION {Missing(k) : k \in SpecKeys} = {} <=> SpecDeclares
           /\ SpecDeclares => \A k \in SpecKeys : values[k] # 0
<1> USE DEF IndexInv
<1>1. errors = {} <=> WellWritten /\ SpecRefused = {}
  <2>1. errors = ShapeErrors <=> WellWritten
    BY DEF AttrInv, ErrorsExact
  <2>2. ShapeErrors = {} <=> SpecRefused = {}
    OBVIOUS
  <2> QED
    BY <2>1, <2>2 DEF ShapeErrors
<1>2. SpecRefused = {} <=> ~generic /\ Struct
  BY DEF SpecRefused, AttrInv, AttrTypeOK
<1>3. ASSUME WellWritten
      PROVE  \A k \in SpecKeys : /\ Missing(k) = {} <=> Names(k)
                                 /\ Names(k) => values[k] # 0
  BY <1>3, WellWrittenRead DEF Missing
<1>4. UNION {Missing(k) : k \in SpecKeys} = {} <=> \A k \in SpecKeys : Missing(k) = {}
  OBVIOUS
<1> QED
  BY <1>1, <1>2, <1>3, <1>4 DEF SpecDeclares

LEMMA SpecExpandKeeps ==
    ASSUME IndexInv, SpecExpand
    PROVE  IndexInv'
<1> expansion = Parsing /\ Keys = SpecKeys
  BY KeysOf DEF SpecExpand, IndexInv
<1> derive' = derive /\ Keys' = Keys /\ Entries' = Entries /\ Errors' = Errors
  BY SameKeys DEF SpecExpand
<1>0. AttrInv /\ errors' = errors \cup UNION {Missing(k) : k \in SpecKeys}
  BY DEF IndexInv, SpecExpand
<1>1. /\ shape' = shape /\ generic' = generic /\ entries' = entries /\ seen' = seen
      /\ values' = values
  BY DEF SpecExpand
<1>2. SpecDeclares' <=> SpecDeclares
  BY <1>1 DEF SpecDeclares, Struct, WellWritten, Names
<1>3. errors' = {} <=> SpecDeclares
  BY <1>0, SpecDecides
<1>4. /\ SpecDeclares => expansion' = [is |-> "expanded", parts |-> values]
      /\ ~SpecDeclares => expansion' = Rejected
  BY <1>3, SpecDecides DEF SpecExpand
<1>5. /\ expansion' # Parsing /\ expansion' # Unreachable
      /\ expansion'.is = "expanded" <=> SpecDeclares
      /\ SpecDeclares => expansion'.parts = values
  BY <1>4 DEF Rejected, Parsing, Unreachable
<1>6. SpecAcceptsExactly' /\ SpecNothingIgnored'
  <2>1. SpecDeclares => WellWritten
    BY DEF SpecDeclares
  <2>2. SpecDeclares => \A i \in DOMAIN entries : values[entries[i].key] = i
    BY <1>0, <2>1, WellWrittenRead
  <2> QED
    BY <1>1, <1>2, <1>5, <2>2 DEF SpecAcceptsExactly, SpecNothingIgnored, Done, Expanded
<1>7. \A f \in errors : f.kind # "missing" /\ (f.key \in Keys => f.key \in seen)
  BY <1>0 DEF AttrInv, ErrorsSeen
<1>8. ASSUME NEW f \in errors', f \notin errors
      PROVE  \E k \in Keys \ seen : f = Error("missing", k, 0)
  BY <1>0, <1>8 DEF Missing
<1>9. \A k \in Keys : /\ Error("missing", k, 0).key = k
                      /\ Error("missing", k, 0).kind = "missing"
                      /\ Error("missing", k, 0) \in Errors
  BY ErrorFacts
<1>10. SpecNoErrorTwice'
  <2> SUFFICES ASSUME NEW e \in errors', NEW f \in errors', e.kind = "missing", f.key = e.key
               PROVE  f = e
    BY DEF SpecNoErrorTwice
  <2>1. e \notin errors
    BY <1>7
  <2>2. PICK k \in Keys \ seen : e = Error("missing", k, 0)
    BY <1>8, <2>1
  <2>3. f.key = k
    BY <1>9, <2>2
  <2>4. f \notin errors
    BY <1>7, <2>2, <2>3
  <2>5. PICK j \in Keys \ seen : f = Error("missing", j, 0)
    BY <1>8, <2>4
  <2> QED
    BY <1>9, <2>2, <2>3, <2>5
<1>11. errors' \subseteq Errors'
  BY <1>0, <1>8, <1>9 DEF AttrInv, AttrTypeOK
<1>12. AttrTypeOK' /\ Len(entries)' <= MaxEntries /\ ValuesNamed' /\ SeenNamed'
  BY <1>0, <1>1, <1>11 DEF AttrInv, AttrTypeOK, ValuesNamed, SeenNamed, Names
<1> QED
  BY <1>5, <1>6, <1>10, <1>12 DEF IndexInv, AttrInv, MarkersNeverUnreachable

LEMMA IndexInductive == IndexInv /\ [MarkerNext]_vars => IndexInv'
<1> SUFFICES ASSUME IndexInv, [MarkerNext]_vars PROVE IndexInv'
  OBVIOUS
<1>1. ASSUME NEW e \in Entries, ParseEntry(e) PROVE IndexInv'
  <2>1. AttrInv' /\ ShapeErrors' = ShapeErrors
    BY <1>1, EntryKeeps DEF IndexInv
  <2>2. /\ expansion = Parsing /\ expansion' = Parsing
        /\ derive' = derive /\ shape' = shape /\ generic' = generic
    BY <1>1 DEF ParseEntry
  <2>3. SpecRefused' = SpecRefused
    BY <2>2 DEF SpecRefused, Struct
  <2>4. Parsing # Unreachable /\ Parsing.is # "expanded"
    BY DEF Parsing, Unreachable
  <2>5. SpecNoErrorTwice'
    BY <2>1, <2>2 DEF AttrInv, ErrorsSeen, SpecNoErrorTwice
  <2> QED
    BY <2>1, <2>2, <2>3, <2>4, <2>5 DEF IndexInv, SpecAcceptsExactly, SpecNothingIgnored,
       MarkersNeverUnreachable, Done, Expanded
<1>2. CASE SpecExpand
  BY <1>2, SpecExpandKeeps
<1>3. CASE UNCHANGED vars
  <2>1. AttrInv' /\ ShapeErrors' = ShapeErrors
    BY <1>3, AttrStutter DEF IndexInv
  <2>2. derive' = derive /\ expansion' = expansion /\ SpecRefused' = SpecRefused
    BY <1>3 DEF vars, SpecRefused, Struct
  <2>3. SpecNoErrorTwice' /\ MarkersNeverUnreachable'
    BY <1>3 DEF IndexInv, vars, SpecNoErrorTwice, MarkersNeverUnreachable
  <2>4. SpecAcceptsExactly'
    BY <1>3, SameKeys DEF IndexInv, vars, SpecAcceptsExactly, Done, Expanded, SpecDeclares,
       Struct, WellWritten, Names
  <2>5. SpecNothingIgnored'
    BY <1>3 DEF IndexInv, vars, SpecNothingIgnored, Expanded
  <2> QED
    BY <2>1, <2>2, <2>3, <2>4, <2>5 DEF IndexInv
<1>4. CASE SealExpand
  BY <1>4 DEF SealExpand, IndexInv
<1> QED
  BY <1>1, <1>2, <1>3, <1>4 DEF MarkerNext

LEMMA IndexStart == SpecInit => IndexInv
<1> SUFFICES ASSUME SpecInit PROVE IndexInv
  OBVIOUS
<1>1. SpecRefused \in SUBSET Reasons /\ AttrInit(SpecRefused) /\ derive = "BlindIndexSpec"
  BY DEF SpecInit, SpecRefused, Reasons
<1>2. AttrInv /\ ShapeErrors = {Error("shape", k, 0) : k \in SpecRefused}
  BY <1>1, AttrStart
<1>3. expansion = Parsing /\ Parsing # Unreachable /\ Parsing.is # "expanded"
  BY <1>1 DEF AttrInit, Parsing, Unreachable
<1> QED
  BY <1>1, <1>2, <1>3 DEF IndexInv, AttrInv, ErrorsSeen, SpecAcceptsExactly,
     SpecNothingIgnored, SpecNoErrorTwice, MarkersNeverUnreachable, Done, Expanded

-----------------------------------------------------------------------------
(* Both, for what an item says of either.                                  *)

MarkerInv == SealInv \/ IndexInv

LEMMA MarkerInvariance == MarkerSpec => []MarkerInv
<1>1. MarkerInit => MarkerInv
  BY SealStart, IndexStart DEF MarkerInit, MarkerInv
<1>2. MarkerInv /\ [MarkerNext]_vars => MarkerInv'
  BY SealInductive, IndexInductive DEF MarkerInv
<1> QED
  BY <1>1, <1>2, PTL DEF MarkerSpec

(* What is read and derived is well typed: every value was read at one of  *)
(* the item's entries (attr.rs, Attrs::parse).                             *)
THEOREM MarkersTypeCorrect == MarkerSpec => []MarkerTypeOK
<1>1. MarkerInv => MarkerTypeOK
  BY DEF MarkerInv, SealInv, IndexInv, AttrInv, MarkerTypeOK
<1> QED
  BY <1>1, MarkerInvariance, PTL

(* The derives accept exactly the declarations, for any number of entries  *)
(* and of errors recovered from (seal.rs and blind_index.rs, expand).      *)
THEOREM MarkersAcceptedExactly == MarkerSpec => []MarkersAcceptExactly
<1>1. MarkerInv => MarkersAcceptExactly
  BY DEF MarkerInv, SealInv, IndexInv, MarkersAcceptExactly
<1> QED
  BY <1>1, MarkerInvariance, PTL

(* No entry of an accepted item is ignored or replaced by a default, which *)
(* would store another format, or index other values, without an error     *)
(* (seal.rs, form).                                                        *)
THEOREM MarkersKeepTheirParts == MarkerSpec => []MarkersIgnoreNothing
<1>1. MarkerInv => MarkersIgnoreNothing
  BY DEF MarkerInv, SealInv, IndexInv, MarkersIgnoreNothing
<1> QED
  BY <1>1, MarkerInvariance, PTL

(* No key is called missing beside another error about it (attr.rs,        *)
(* required).                                                              *)
THEOREM MarkersReportOnce == MarkerSpec => []MarkerErrorsOnce
<1>1. MarkerInv => MarkerErrorsOnce
  BY DEF MarkerInv, SealInv, IndexInv, MarkerErrorsOnce
<1> QED
  BY <1>1, MarkerInvariance, PTL

(* After the errors are checked, every part that is unwrapped is there     *)
(* (seal.rs:49 and blind_index.rs:79).                                     *)
THEOREM MarkersUnwrap == MarkerSpec => []MarkersNeverUnreachable
<1>1. MarkerInv => MarkersNeverUnreachable
  BY DEF MarkerInv, SealInv, IndexInv
<1> QED
  BY <1>1, MarkerInvariance, PTL

(* Together: a derive accepts exactly the declarations and expands each to *)
(* what its entries say.                                                   *)
THEOREM MarkersAreExact == MarkerSpec => []MarkersDeclareExactly
<1>1. MarkerTypeOK /\ MarkersAcceptExactly /\ MarkersIgnoreNothing => MarkersDeclareExactly
  BY DEF MarkersDeclareExactly
<1> QED
  BY <1>1, MarkersTypeCorrect, MarkersAcceptedExactly, MarkersKeepTheirParts, PTL

(* And what it reports is reported once, with no part missing behind it    *)
(* (attr.rs, required; seal.rs:49 and blind_index.rs:79).                  *)
THEOREM MarkersReportExactly == MarkerSpec => []MarkerErrorsExact
<1>1. MarkerErrorsOnce /\ MarkersNeverUnreachable => MarkerErrorsExact
  BY DEF MarkerErrorsExact
<1> QED
  BY <1>1, MarkersReportOnce, MarkersUnwrap, PTL

-----------------------------------------------------------------------------
(***************************************************************************)
(* Records: derive(Record), and records in use.                            *)
(***************************************************************************)

(* Natural numbers have least elements, and so the usual induction.        *)
LEMMA LeastNatural ==
    ASSUME NEW T, T \subseteq Nat, T # {}
    PROVE  \E x \in T : \A y \in T : x <= y
<1> DEFINE R == {ss \in Nat \X Nat : ss[1] < ss[2]}
<1>1. IsWellFoundedOn(R, Nat)
  BY NatLessThanWellFounded DEF OpToRel
<1>2. \E x \in T : \A y \in T : ~ (<<y, x>> \in R)
  <2> HIDE DEF R
  <2> QED
    BY <1>1, WFMin
<1>3. PICK x \in T : \A y \in T : ~ (<<y, x>> \in R)
  BY <1>2
<1>4. ASSUME NEW y \in T PROVE x <= y
  <2>1. <<y, x>> \notin R /\ <<y, x>> \in Nat \X Nat
    BY <1>3
  <2>2. ~ (y < x)
    BY <2>1
  <2> QED
    BY <2>2
<1> QED
  BY <1>4

LEMMA ByInduction ==
    ASSUME NEW S, 0 \in S, \A n \in Nat : n \in S => n + 1 \in S
    PROVE  Nat \subseteq S
<1> SUFFICES ASSUME Nat \ S # {} PROVE FALSE
  OBVIOUS
<1>1. PICK x \in Nat \ S : \A y \in Nat \ S : x <= y
  BY LeastNatural
<1>2. x # 0 /\ x - 1 \in Nat /\ x - 1 \in S
  BY <1>1
<1> QED
  BY <1>2

-----------------------------------------------------------------------------
(* What reading the entries of a field leaves.                             *)

Attrs ==
    [roles : Seq(Roles), seal : Nat, settings : [Settings -> Nat], indexes : Seq(Nat),
     stored : Seq(Nat), faults : SUBSET Nat, read : Nat]

TextOK(text) == text \in FieldTexts

(* The entries of the first n, and those of them that are read.            *)
EntriesIn(text, keys, n) == {e \in 1..n : text[e].key \in keys}
ReadIn(text, keys, n) == {e \in EntriesIn(text, keys, n) : ~Unread(text[e])}
FaultsIn(text, n) == {e \in 1..n : Faulty(text[e])}

LastOf(x, S) == x \in S \cup {0} /\ \A y \in S : y <= x

(* a is what the first n entries of a text come to.                        *)
AttrsRight(text, n, a) ==
    /\ a \in Attrs
    /\ a.read = n
    /\ Len(a.roles) = Cardinality(EntriesIn(text, Roles, n))
    /\ \A i \in DOMAIN a.roles : \E e \in EntriesIn(text, Roles, n) : text[e].key = a.roles[i]
    /\ LastOf(a.seal, ReadIn(text, {"seal"}, n))
    /\ \A s \in Settings : LastOf(a.settings[s], ReadIn(text, {s}, n))
    /\ Len(a.indexes) = Cardinality(ReadIn(text, {"blind_index"}, n))
    /\ \A i \in DOMAIN a.indexes : a.indexes[i] \in ReadIn(text, {"blind_index"}, n)
    /\ a.faults = FaultsIn(text, n)

LEMMA TextFacts ==
    ASSUME NEW text \in FieldTexts
    PROVE  /\ Len(text) \in Nat /\ DOMAIN text = 1..Len(text)
           /\ \A i \in 1..Len(text) : EntryTypeOK(text[i])
<1>1. IsText(text) /\ \A i \in DOMAIN text : EntryTypeOK(text[i])
  BY DeriveRecordAssumption
<1>2. Len(text) \in Nat /\ DOMAIN text = 1..Len(text)
  BY <1>1 DEF IsText
<1> QED
  BY <1>1, <1>2

LEMMA EntriesFinite ==
    ASSUME NEW text, NEW keys, NEW n \in Nat
    PROVE  IsFiniteSet(EntriesIn(text, keys, n)) /\ IsFiniteSet(ReadIn(text, keys, n))
<1>1. IsFiniteSet(1..n)
  BY FS_Interval
<1>2. EntriesIn(text, keys, n) \in SUBSET (1..n) /\ ReadIn(text, keys, n) \in SUBSET (1..n)
  BY DEF EntriesIn, ReadIn
<1> QED
  BY <1>1, <1>2, FS_Subset

(* One entry more.                                                         *)
LEMMA EntriesMore ==
    ASSUME NEW text, NEW keys, NEW n \in Nat
    PROVE  /\ EntriesIn(text, keys, n + 1) =
                IF text[n + 1].key \in keys THEN EntriesIn(text, keys, n) \cup {n + 1}
                ELSE EntriesIn(text, keys, n)
           /\ ReadIn(text, keys, n + 1) =
                IF text[n + 1].key \in keys /\ ~Unread(text[n + 1])
                THEN ReadIn(text, keys, n) \cup {n + 1} ELSE ReadIn(text, keys, n)
           /\ n + 1 \notin EntriesIn(text, keys, n)
<1>1. 1..(n + 1) = (1..n) \cup {n + 1} /\ n + 1 \notin 1..n
  OBVIOUS
<1>2. EntriesIn(text, keys, n + 1) =
        IF text[n + 1].key \in keys THEN EntriesIn(text, keys, n) \cup {n + 1}
        ELSE EntriesIn(text, keys, n)
  BY <1>1 DEF EntriesIn
<1>3. n + 1 \notin EntriesIn(text, keys, n)
  BY <1>1 DEF EntriesIn
<1> QED
  BY <1>2, <1>3 DEF ReadIn

(* Reading one entry more is reading the text so far.                      *)
LEMMA ReadEntryRight ==
    ASSUME NEW text \in FieldTexts, NEW n \in Nat, n + 1 <= Len(text),
           NEW a, AttrsRight(text, n, a)
    PROVE  AttrsRight(text, n + 1, ReadEntry(a, text[n + 1]))
<1> DEFINE e == text[n + 1]
           b == ReadEntry(a, e)
           at == n + 1
<1>0. /\ n + 1 \in DOMAIN text /\ EntryTypeOK(e)
  BY TextFacts
<1>1. /\ a.roles \in Seq(Roles) /\ a.seal \in Nat /\ a.settings \in [Settings -> Nat]
      /\ a.indexes \in Seq(Nat) /\ a.stored \in Seq(Nat) /\ a.faults \in SUBSET Nat
      /\ a.read = n /\ at \in Nat
  BY DEF AttrsRight, Attrs
<1>2. /\ b.roles = IF e.key \in Roles THEN Append(a.roles, e.key) ELSE a.roles
      /\ b.seal = IF IsRead(e, "seal") THEN at ELSE a.seal
      /\ b.settings = [s \in Settings |-> IF IsRead(e, s) THEN at ELSE a.settings[s]]
      /\ b.indexes = IF IsRead(e, "blind_index") THEN Append(a.indexes, at) ELSE a.indexes
      /\ b.faults = IF Faulty(e) THEN a.faults \cup {at} ELSE a.faults
      /\ b.read = at
  BY <1>1 DEF ReadEntry
<1>3. b \in Attrs
  BY <1>1 DEF ReadEntry, Attrs
<1>4. \A keys :
        /\ EntriesIn(text, keys, at) =
            IF e.key \in keys THEN EntriesIn(text, keys, n) \cup {at}
            ELSE EntriesIn(text, keys, n)
        /\ ReadIn(text, keys, at) =
            IF e.key \in keys /\ ~Unread(e) THEN ReadIn(text, keys, n) \cup {at}
            ELSE ReadIn(text, keys, n)
        /\ at \notin EntriesIn(text, keys, n) /\ at \notin ReadIn(text, keys, n)
        /\ EntriesIn(text, keys, n) \subseteq 1..n /\ ReadIn(text, keys, n) \subseteq 1..n
  BY EntriesMore DEF ReadIn, EntriesIn
<1>6. b.faults = FaultsIn(text, at)
  <2>1. 1..at = (1..n) \cup {at} /\ a.faults = FaultsIn(text, n)
    BY DEF AttrsRight
  <2>2. FaultsIn(text, at) = IF Faulty(e) THEN FaultsIn(text, n) \cup {at} ELSE FaultsIn(text, n)
    BY <2>1 DEF FaultsIn
  <2> QED
    BY <1>2, <2>1, <2>2
<1> HIDE DEF b, e
<1>5. \A key : ReadIn(text, {key}, at) =
        IF IsRead(e, key) THEN ReadIn(text, {key}, n) \cup {at} ELSE ReadIn(text, {key}, n)
  <2> TAKE key
  <2>1. ReadIn(text, {key}, at) =
          IF e.key \in {key} /\ ~Unread(e) THEN ReadIn(text, {key}, n) \cup {at}
          ELSE ReadIn(text, {key}, n)
    BY <1>4
  <2>2. IsRead(e, key) <=> e.key \in {key} /\ ~Unread(e)
    BY DEF IsRead
  <2> QED
    BY <2>1, <2>2
<1>7. ASSUME NEW x, NEW key, LastOf(x, ReadIn(text, {key}, n))
      PROVE  LastOf(IF IsRead(e, key) THEN at ELSE x, ReadIn(text, {key}, at))
  <2>1. ReadIn(text, {key}, n) \subseteq 1..n
    BY <1>4
  <2>2. CASE IsRead(e, key)
    <3>1. ReadIn(text, {key}, at) = ReadIn(text, {key}, n) \cup {at}
      BY <1>5, <2>2
    <3>2. \A y \in ReadIn(text, {key}, at) : y <= at
      BY <2>1, <3>1
    <3>3. at \in ReadIn(text, {key}, at)
      BY <3>1
    <3>4. LastOf(at, ReadIn(text, {key}, at))
      BY <3>2, <3>3 DEF LastOf
    <3> QED
      BY <2>2, <3>4
  <2>3. CASE ~IsRead(e, key)
    BY <1>5, <1>7, <2>3
  <2> QED
    BY <2>2, <2>3
<1>8. LastOf(b.seal, ReadIn(text, {"seal"}, at))
  BY <1>2, <1>7 DEF AttrsRight
<1>9. \A s \in Settings : LastOf(b.settings[s], ReadIn(text, {s}, at))
  BY <1>2, <1>7 DEF AttrsRight
<1>10. /\ Len(b.roles) = Cardinality(EntriesIn(text, Roles, at))
       /\ \A i \in DOMAIN b.roles : \E d \in EntriesIn(text, Roles, at) : text[d].key = b.roles[i]
  <2>1. CASE e.key \in Roles
    <3>1. EntriesIn(text, Roles, at) = EntriesIn(text, Roles, n) \cup {at}
      BY <1>4, <2>1
    <3>2. Cardinality(EntriesIn(text, Roles, at)) = Cardinality(EntriesIn(text, Roles, n)) + 1
      BY <1>4, <3>1, EntriesFinite, FS_AddElement
    <3>3. b.roles = Append(a.roles, e.key)
      BY <1>2, <2>1
    <3>4. Len(b.roles) = Len(a.roles) + 1
      BY <1>1, <2>1, <3>3
    <3>5. \A i \in DOMAIN b.roles :
            (i \in DOMAIN a.roles /\ b.roles[i] = a.roles[i]) \/ b.roles[i] = e.key
      BY <1>1, <2>1, <3>3
    <3> QED
      BY <3>1, <3>2, <3>4, <3>5 DEF AttrsRight, e
  <2>2. CASE e.key \notin Roles
    BY <1>2, <1>4, <2>2 DEF AttrsRight
  <2> QED
    BY <2>1, <2>2
<1>11. /\ Len(b.indexes) = Cardinality(ReadIn(text, {"blind_index"}, at))
       /\ \A i \in DOMAIN b.indexes : b.indexes[i] \in ReadIn(text, {"blind_index"}, at)
  <2> DEFINE R == ReadIn(text, {"blind_index"}, n)
             Q == ReadIn(text, {"blind_index"}, at)
  <2>0. IsFiniteSet(R) /\ at \notin R
    BY <1>4, EntriesFinite
  <2>1. CASE IsRead(e, "blind_index")
    <3>1. Q = R \cup {at}
      BY <1>5, <2>1
    <3>2. Cardinality(Q) = Cardinality(R) + 1
      BY <2>0, <3>1, FS_AddElement
    <3>3. b.indexes = Append(a.indexes, at)
      BY <1>2, <2>1
    <3>4. Len(b.indexes) = Len(a.indexes) + 1
      BY <1>1, <3>3
    <3>5. \A i \in DOMAIN b.indexes :
            (i \in DOMAIN a.indexes /\ b.indexes[i] = a.indexes[i]) \/ b.indexes[i] = at
      BY <1>1, <3>3
    <3> QED
      BY <3>1, <3>2, <3>4, <3>5 DEF AttrsRight
  <2>2. CASE ~IsRead(e, "blind_index")
    BY <1>2, <1>5, <2>2 DEF AttrsRight
  <2> QED
    BY <2>1, <2>2
<1> QED
  BY <1>2, <1>3, <1>6, <1>8, <1>9, <1>10, <1>11 DEF AttrsRight, b, e

ReadFrom(text, m, f) ==
    f = [n \in 0..m |-> IF n = 0 THEN NoAttrs ELSE ReadEntry(f[n - 1], text[n])]

(* The recursion has a solution, for any number of entries.                *)
LEMMA ReadingExists ==
    ASSUME NEW text, NEW l \in Nat
    PROVE  \E f : ReadFrom(text, l, f)
<1> DEFINE S == {m \in Nat : \E f : ReadFrom(text, m, f)}
<1>1. 0 \in S
  <2> DEFINE f == [n \in 0..0 |-> NoAttrs]
  <2>1. f = [n \in 0..0 |-> IF n = 0 THEN NoAttrs ELSE ReadEntry(f[n - 1], text[n])]
    <3>1. 0..0 = {0}
      OBVIOUS
    <3> QED
      BY <3>1
  <2> QED
    BY <2>1 DEF ReadFrom
<1>2. ASSUME NEW m \in Nat, m \in S PROVE m + 1 \in S
  <2>1. PICK f : ReadFrom(text, m, f)
    BY <1>2
  <2> DEFINE g == [n \in 0..(m + 1) |->
                    IF n = m + 1 THEN ReadEntry(f[m], text[m + 1]) ELSE f[n]]
             h == [n \in 0..(m + 1) |->
                    IF n = 0 THEN NoAttrs ELSE ReadEntry(g[n - 1], text[n])]
  <2>2. ASSUME NEW n \in 0..(m + 1) PROVE g[n] = h[n]
    <3>1. CASE n = m + 1
      <4>1. n - 1 = m /\ m \in 0..(m + 1) /\ m # m + 1 /\ n # 0
        BY <3>1
      <4>2. g[n - 1] = f[m]
        BY <4>1
      <4> QED
        BY <3>1, <4>1, <4>2
    <3>2. CASE n # m + 1
      <4>1. n \in 0..m
        BY <3>2
      <4>2. f[n] = IF n = 0 THEN NoAttrs ELSE ReadEntry(f[n - 1], text[n])
        BY <2>1, <4>1 DEF ReadFrom
      <4>3. n # 0 => n - 1 \in 0..(m + 1) /\ n - 1 # m + 1
        BY <4>1
      <4>4. n # 0 => g[n - 1] = f[n - 1]
        BY <4>3
      <4> QED
        BY <3>2, <4>2, <4>4
    <3> QED
      BY <3>1, <3>2
  <2>3. g = h
    BY <2>2
  <2>4. ReadFrom(text, m + 1, g)
    BY <2>3 DEF ReadFrom
  <2> QED
    BY <2>4
<1> HIDE DEF S
<1>3. l \in S
  BY <1>1, <1>2, ByInduction
<1> QED
  BY <1>3 DEF S

LEMMA AttrsAfterIs ==
    ASSUME NEW text \in FieldTexts
    PROVE  /\ AttrsAfter(text)[0] = NoAttrs
           /\ \A n \in 1..Len(text) :
                AttrsAfter(text)[n] = ReadEntry(AttrsAfter(text)[n - 1], text[n])
<1>1. AttrsAfter(text) = CHOOSE f : ReadFrom(text, Len(text), f)
  BY DEF AttrsAfter, ReadFrom
<1>2. Len(text) \in Nat
  BY TextFacts
<1>3. ReadFrom(text, Len(text), AttrsAfter(text))
  BY <1>1, <1>2, ReadingExists
<1> DEFINE f == AttrsAfter(text)
<1>4. f = [n \in 0..Len(text) |-> IF n = 0 THEN NoAttrs ELSE ReadEntry(f[n - 1], text[n])]
  BY <1>3 DEF ReadFrom
<1> HIDE DEF f
<1>5. f[0] = NoAttrs /\ \A n \in 1..Len(text) : f[n] = ReadEntry(f[n - 1], text[n])
  BY <1>2, <1>4
<1> QED
  BY <1>5 DEF f

(* What parse_field_attrs returns.                                         *)
LEMMA ParsedRight ==
    ASSUME NEW text \in FieldTexts
    PROVE  AttrsRight(text, Len(text), ParseFieldAttrs(text))
<1> DEFINE S == {n \in Nat : n <= Len(text) => AttrsRight(text, n, AttrsAfter(text)[n])}
<1>0. Len(text) \in Nat
  BY TextFacts
<1>1. 0 \in S
  <2>1. 1..0 = {}
    OBVIOUS
  <2>2. \A keys : EntriesIn(text, keys, 0) = {} /\ ReadIn(text, keys, 0) = {}
    BY <2>1 DEF EntriesIn, ReadIn
  <2>3. FaultsIn(text, 0) = {}
    BY <2>1 DEF FaultsIn
  <2>4. /\ NoAttrs \in Attrs /\ NoAttrs.read = 0 /\ NoAttrs.roles = <<>> /\ NoAttrs.seal = 0
        /\ NoAttrs.indexes = <<>> /\ NoAttrs.faults = {}
        /\ \A s \in Settings : NoAttrs.settings[s] = 0
    BY DEF NoAttrs, Attrs
  <2>5. /\ EntriesIn(text, Roles, 0) = {}
        /\ \A key : ReadIn(text, {key}, 0) = {}
    BY <2>2
  <2>6. Len(<<>>) = 0 /\ DOMAIN <<>> = {} /\ Cardinality({}) = 0
    BY FS_EmptySet
  <2>7. AttrsRight(text, 0, NoAttrs)
    BY <2>3, <2>4, <2>5, <2>6 DEF AttrsRight, LastOf
  <2> QED
    BY <2>7, AttrsAfterIs
<1>2. ASSUME NEW n \in Nat, n \in S PROVE n + 1 \in S
  <2> SUFFICES ASSUME n + 1 <= Len(text)
               PROVE  AttrsRight(text, n + 1, AttrsAfter(text)[n + 1])
    OBVIOUS
  <2>1. n <= Len(text)
    BY <1>0
  <2>2. AttrsRight(text, n, AttrsAfter(text)[n])
    BY <1>2, <2>1
  <2>3. n + 1 \in 1..Len(text) /\ (n + 1) - 1 = n
    BY <1>0
  <2>4. AttrsAfter(text)[n + 1] = ReadEntry(AttrsAfter(text)[n], text[n + 1])
    BY <2>3, AttrsAfterIs
  <2> QED
    BY <2>2, <2>4, ReadEntryRight
<1> HIDE DEF S
<1>3. Len(text) \in S
  BY <1>0, <1>1, <1>2, ByInduction
<1> QED
  BY <1>3, <1>0 DEF S, ParseFieldAttrs

-----------------------------------------------------------------------------
(* One field.                                                              *)

EntriesOf(text, keys) == {e \in DOMAIN text : text[e].key \in keys}
HasOnly(text, role) == \E e \in EntriesOf(text, {role}) : EntriesOf(text, Roles) = {e}
IdsIn(text, key) == {text[e].id : e \in EntriesOf(text, {key})}
WellFormed(text) == \A e \in DOMAIN text : ~Faulty(text[e])

LegalText(text) ==
    /\ WellFormed(text)
    /\ Cardinality(EntriesOf(text, Roles)) = 1
    /\ Cardinality(EntriesOf(text, {"blind_index"})) <= 1
    /\ ~HasOnly(text, "seal") => EntriesOf(text, Settings \cup {"blind_index"}) = {}

(* f says what the text of a field declares.                               *)
FieldRight(field, f) ==
    /\ f.name = field.name /\ f.optional = field.optional
    /\ f.role \in Roles
    /\ \A role \in Roles : HasOnly(field.text, role) <=> f.role = role
    /\ IF f.role = "seal" THEN f.seal # 0 /\ IdsIn(field.text, "seal") = {f.seal}
       ELSE f.seal = 0 /\ IdsIn(field.text, "seal") = {} /\ f.indexes = <<>>
    /\ \A s \in Settings : f.settings[s] = Max({0} \cup EntriesOf(field.text, {s}))
    /\ \/ f.indexes = <<>> /\ EntriesOf(field.text, {"blind_index"}) = {}
       \/ /\ f.indexes # <<>> /\ EntriesOf(field.text, {"blind_index"}) # {}
          /\ f.indexes[1] # 0 /\ IdsIn(field.text, "blind_index") = {f.indexes[1]}

LEMMA SeqOfOne ==
    /\ \A S : \A s \in Seq(S) : Len(s) = 1 => s = <<s[1]>>
    /\ \A S : \A s \in Seq(S) : Len(s) = 0 <=> s = <<>>
    /\ \A S : \A s \in Seq(S) : s # <<>> => 1 \in DOMAIN s
<1>1. \A S : \A s \in Seq(S) : Len(s) = 1 => s = <<s[1]>>
  OBVIOUS
<1>2. \A S : \A s \in Seq(S) : Len(s) = 0 <=> s = <<>>
  OBVIOUS
<1>3. \A S : \A s \in Seq(S) : s # <<>> => 1 \in DOMAIN s
  OBVIOUS
<1> QED
  BY <1>1, <1>2, <1>3

LEMMA LastOfIsMax ==
    ASSUME NEW S \in SUBSET Nat, NEW x \in Nat, LastOf(x, S)
    PROVE  x = Max({0} \cup S)
<1>1. x \in {0} \cup S /\ \A y \in {0} \cup S : x >= y
  BY DEF LastOf
<1>2. \A z \in {0} \cup S : (\A y \in {0} \cup S : z >= y) => z = x
  BY <1>1
<1> QED
  BY <1>1, <1>2 DEF Max

(* The attributes of a text, in its own terms.                             *)
LEMMA ParsedText ==
    ASSUME NEW text \in FieldTexts, NEW a, a = ParseFieldAttrs(text)
    PROVE  /\ a \in Attrs
           /\ IsFiniteSet(EntriesOf(text, Roles)) /\ Len(a.roles) = Cardinality(EntriesOf(text, Roles))
           /\ \A i \in DOMAIN a.roles : \E e \in EntriesOf(text, Roles) : text[e].key = a.roles[i]
           /\ a.faults = {} <=> WellFormed(text)
           /\ IsFiniteSet(EntriesOf(text, {"blind_index"}))
           /\ a.seal # 0 => a.seal \in EntriesOf(text, {"seal"})
           /\ \A i \in DOMAIN a.indexes : a.indexes[i] \in EntriesOf(text, {"blind_index"})
           /\ WellFormed(text) =>
                /\ LastOf(a.seal, EntriesOf(text, {"seal"}))
                /\ \A s \in Settings : LastOf(a.settings[s], EntriesOf(text, {s}))
                /\ Len(a.indexes) = Cardinality(EntriesOf(text, {"blind_index"}))
<1> DEFINE n == Len(text)
<1>1. AttrsRight(text, n, a)
  BY ParsedRight
<1>2. n \in Nat /\ DOMAIN text = 1..n
  BY TextFacts
<1>3. \A keys : EntriesIn(text, keys, n) = EntriesOf(text, keys)
  BY <1>2 DEF EntriesIn, EntriesOf
<1>4. \A keys : IsFiniteSet(EntriesOf(text, keys))
  BY <1>2, <1>3, EntriesFinite
<1>5. a.faults = {} <=> WellFormed(text)
  BY <1>1, <1>2 DEF AttrsRight, FaultsIn, WellFormed
<1>6. \A keys : ReadIn(text, keys, n) \subseteq EntriesOf(text, keys)
  BY <1>3 DEF ReadIn
<1>7. ASSUME WellFormed(text), NEW keys PROVE ReadIn(text, keys, n) = EntriesOf(text, keys)
  <2>1. \A e \in EntriesOf(text, keys) : ~Unread(text[e])
    BY <1>7 DEF WellFormed, EntriesOf, Faulty, Unread
  <2> QED
    BY <1>3, <2>1 DEF ReadIn
<1>8. ASSUME WellFormed(text)
      PROVE  /\ ReadIn(text, {"seal"}, n) = EntriesOf(text, {"seal"})
             /\ ReadIn(text, {"blind_index"}, n) = EntriesOf(text, {"blind_index"})
             /\ \A s \in Settings : ReadIn(text, {s}, n) = EntriesOf(text, {s})
  BY <1>7, <1>8
<1>9. a.seal # 0 => a.seal \in ReadIn(text, {"seal"}, n)
  BY <1>1 DEF AttrsRight, LastOf
<1>10. a.seal # 0 => a.seal \in EntriesOf(text, {"seal"})
  BY <1>6, <1>9
<1>11. \A i \in DOMAIN a.indexes : a.indexes[i] \in EntriesOf(text, {"blind_index"})
  BY <1>1, <1>6 DEF AttrsRight
<1>12. /\ a \in Attrs
       /\ Len(a.roles) = Cardinality(EntriesOf(text, Roles))
       /\ \A i \in DOMAIN a.roles : \E e \in EntriesOf(text, Roles) : text[e].key = a.roles[i]
  BY <1>1, <1>3 DEF AttrsRight
<1>13. WellFormed(text) =>
        /\ LastOf(a.seal, EntriesOf(text, {"seal"}))
        /\ \A s \in Settings : LastOf(a.settings[s], EntriesOf(text, {s}))
        /\ Len(a.indexes) = Cardinality(EntriesOf(text, {"blind_index"}))
  BY <1>1, <1>8 DEF AttrsRight
<1> QED
  BY <1>4, <1>5, <1>10, <1>11, <1>12, <1>13

(* A field's role is that of its only entry that has one.                  *)
LEMMA OneRole ==
    ASSUME NEW text \in FieldTexts, NEW a, a = ParseFieldAttrs(text)
    PROVE  /\ Len(a.roles) = 1 <=> Cardinality(EntriesOf(text, Roles)) = 1
           /\ Len(a.roles) = 1 =>
                /\ a.roles = <<a.roles[1]>> /\ a.roles[1] \in Roles
                /\ \A role \in Roles : HasOnly(text, role) <=> a.roles[1] = role
                /\ \E e \in EntriesOf(text, Roles) :
                    EntriesOf(text, Roles) = {e} /\ text[e].key = a.roles[1]
<1>0. /\ a.roles \in Seq(Roles) /\ IsFiniteSet(EntriesOf(text, Roles))
      /\ Len(a.roles) = Cardinality(EntriesOf(text, Roles))
      /\ \A i \in DOMAIN a.roles : \E e \in EntriesOf(text, Roles) : text[e].key = a.roles[i]
  BY ParsedText DEF Attrs
<1>1. ASSUME Len(a.roles) = 1
      PROVE  /\ a.roles = <<a.roles[1]>> /\ a.roles[1] \in Roles
             /\ \A role \in Roles : HasOnly(text, role) <=> a.roles[1] = role
             /\ \E e \in EntriesOf(text, Roles) :
                    EntriesOf(text, Roles) = {e} /\ text[e].key = a.roles[1]
  <2>1. a.roles = <<a.roles[1]>>
    BY <1>0, <1>1, SeqOfOne
  <2>2. 1 \in DOMAIN a.roles /\ a.roles[1] \in Roles
    BY <1>0, <1>1
  <2>3. PICK x : EntriesOf(text, Roles) = {x}
    BY <1>0, <1>1, FS_Singleton
  <2>4. text[x].key = a.roles[1] /\ x \in EntriesOf(text, Roles)
    BY <1>0, <2>2, <2>3
  <2>5. ASSUME NEW role \in Roles PROVE HasOnly(text, role) <=> a.roles[1] = role
    <3>1. ASSUME HasOnly(text, role) PROVE a.roles[1] = role
      BY <2>3, <2>4, <3>1 DEF HasOnly, EntriesOf
    <3>2. ASSUME a.roles[1] = role PROVE HasOnly(text, role)
      <4>1. x \in EntriesOf(text, {role})
        BY <2>4, <3>2 DEF EntriesOf
      <4> QED
        BY <2>3, <4>1 DEF HasOnly
    <3> QED
      BY <3>1, <3>2
  <2> QED
    BY <2>1, <2>2, <2>3, <2>4, <2>5
<1> QED
  BY <1>0, <1>1

(* A field has no error exactly if its text is legal.                      *)
LEMMA FieldErrorsAre ==
    ASSUME NEW field, field.text \in FieldTexts,
           NEW a, a = ParseFieldAttrs(field.text)
    PROVE  FieldErrors(field, a) = {} <=> LegalText(field.text)
<1> DEFINE text == field.text
<1>1. /\ a \in Attrs
      /\ a.faults = {} <=> WellFormed(text)
      /\ WellFormed(text) =>
            /\ LastOf(a.seal, EntriesOf(text, {"seal"}))
            /\ \A s \in Settings : LastOf(a.settings[s], EntriesOf(text, {s}))
            /\ Len(a.indexes) = Cardinality(EntriesOf(text, {"blind_index"}))
      /\ IsFiniteSet(EntriesOf(text, {"blind_index"}))
  BY ParsedText
<1>2. /\ Len(a.roles) = 1 <=> Cardinality(EntriesOf(text, Roles)) = 1
      /\ Len(a.roles) = 1 =>
            /\ a.roles = <<a.roles[1]>> /\ a.roles[1] \in Roles
            /\ \A role \in Roles : HasOnly(text, role) <=> a.roles[1] = role
            /\ \E e \in EntriesOf(text, Roles) :
                EntriesOf(text, Roles) = {e} /\ text[e].key = a.roles[1]
  BY OneRole
<1>3. FieldErrors(field, a) = {} => WellFormed(text) /\ Len(a.roles) = 1
  <2>1. FieldErrors(field, a) = {} => a.faults = {} /\ RoleErrors(field, a) = {}
    BY DEF FieldErrors
  <2>2. a.faults = {} /\ RoleErrors(field, a) = {} => Len(a.roles) = 1
    <3>1. \A k, x, at : {FieldError(k, x, at)} # {}
      OBVIOUS
    <3>2. CASE Len(a.roles) # 1 /\ a.roles = <<>>
      BY <3>1, <3>2 DEF RoleErrors, Malformed
    <3>3. CASE Len(a.roles) # 1 /\ a.roles # <<>>
      BY <3>1, <3>3 DEF RoleErrors, Malformed
    <3> QED
      BY <3>2, <3>3
  <2> QED
    BY <1>1, <2>1, <2>2
<1>4. LegalText(text) => WellFormed(text) /\ Len(a.roles) = 1
  BY <1>2 DEF LegalText
<1>5. ASSUME WellFormed(text), Len(a.roles) = 1
      PROVE  FieldErrors(field, a) = {} <=> LegalText(text)
  <2> DEFINE role == a.roles[1]
  <2>1. /\ a.roles = <<role>> /\ role \in Roles /\ (HasOnly(text, "seal") <=> role = "seal")
    <3>1. "seal" \in Roles
      BY DEF Roles
    <3> QED
      BY <1>2, <1>5, <3>1
  <2>2. a.faults = {} /\ RoleErrors(field, a) = {}
    <3>1. a.roles # <<>>
      BY <2>1
    <3> QED
      BY <1>1, <1>5, <3>1 DEF RoleErrors
  <2>3. Len(a.indexes) = Cardinality(EntriesOf(text, {"blind_index"}))
    BY <1>1, <1>5
  <2>4. CASE role = "seal"
    <3>1. FieldErrors(field, a) = SealErrors(field, a)
      BY <2>1, <2>2, <2>4 DEF FieldErrors
    <3>2. a.seal # 0
      <4>1. PICK e \in EntriesOf(text, Roles) : text[e].key = "seal"
        BY <1>2, <1>5, <2>4
      <4>2. e \in EntriesOf(text, {"seal"}) /\ e \in 1..Len(text)
        BY <4>1, TextFacts DEF EntriesOf
      <4>3. e <= a.seal
        BY <1>1, <1>5, <4>2 DEF LastOf
      <4> QED
        BY <4>2, <4>3, TextFacts
    <3>3. SealErrors(field, a) = {} <=> ~ (Len(a.indexes) > 1)
      BY <3>2 DEF SealErrors
    <3>4. Len(a.indexes) \in Nat
      BY <1>1 DEF Attrs
    <3>5. LegalText(text) <=> Cardinality(EntriesOf(text, {"blind_index"})) <= 1
      BY <1>2, <1>5, <2>1, <2>4 DEF LegalText
    <3> QED
      BY <2>3, <3>1, <3>3, <3>4, <3>5
  <2>5. CASE role # "seal"
    <3>1. FieldErrors(field, a) = UnsealedErrors(field, a)
      <4>1. a.roles \in {<<"record_id">>, <<"plaintext">>} /\ a.roles # <<"seal">>
        BY <2>1, <2>5 DEF Roles
      <4> QED
        BY <2>2, <4>1 DEF FieldErrors
    <3>2. UnsealedErrors(field, a) = {} <=> Given(a) = {} /\ ToSet(a.indexes) = {}
      BY DEF UnsealedErrors
    <3>3. Given(a) = {} <=> EntriesOf(text, Settings) = {}
      <4>1. ASSUME NEW s \in Settings
            PROVE  a.settings[s] = 0 <=> EntriesOf(text, {s}) = {}
        <5>1. LastOf(a.settings[s], EntriesOf(text, {s}))
          BY <1>1, <1>5
        <5>2. \A e \in EntriesOf(text, {s}) : e \in Nat /\ e >= 1
          BY TextFacts DEF EntriesOf
        <5> QED
          BY <5>1, <5>2 DEF LastOf
      <4>2. EntriesOf(text, Settings) = {} <=> \A s \in Settings : EntriesOf(text, {s}) = {}
        BY DEF EntriesOf
      <4> QED
        BY <4>1, <4>2 DEF Given
    <3>4. ToSet(a.indexes) = {} <=> EntriesOf(text, {"blind_index"}) = {}
      <4>1. a.indexes \in Seq(Nat)
        BY <1>1 DEF Attrs
      <4>2. a.indexes # <<>> => 1 \in DOMAIN a.indexes
        BY <4>1, SeqOfOne
      <4>3. a.indexes = <<>> => ToSet(a.indexes) = {}
        BY DEF ToSet
      <4>4. ToSet(a.indexes) = {} <=> a.indexes = <<>>
        BY <4>2, <4>3 DEF ToSet
      <4>5. Len(a.indexes) = 0 <=> a.indexes = <<>>
        BY <4>1, SeqOfOne
      <4>6. Cardinality(EntriesOf(text, {"blind_index"})) = 0
                <=> EntriesOf(text, {"blind_index"}) = {}
        BY <1>1, FS_EmptySet
      <4> QED
        BY <2>3, <4>4, <4>5, <4>6
    <3>5. EntriesOf(text, Settings \cup {"blind_index"}) = {} <=>
            EntriesOf(text, Settings) = {} /\ EntriesOf(text, {"blind_index"}) = {}
      BY DEF EntriesOf
    <3>6. EntriesOf(text, {"blind_index"}) = {} =>
            Cardinality(EntriesOf(text, {"blind_index"})) <= 1
      BY FS_EmptySet
    <3>7. LegalText(text) <=>
            EntriesOf(text, Settings) = {} /\ EntriesOf(text, {"blind_index"}) = {}
      BY <1>2, <1>5, <2>1, <2>5, <3>5, <3>6 DEF LegalText
    <3> QED
      BY <3>1, <3>2, <3>3, <3>4, <3>7
  <2> QED
    BY <2>4, <2>5
<1> QED
  BY <1>3, <1>4, <1>5

(* A legal field is returned, and says what its text does.                 *)
LEMMA FieldParsed ==
    ASSUME NEW field, field.text \in FieldTexts, LegalText(field.text),
           NEW a, a = ParseFieldAttrs(field.text)
    PROVE  HasRole(a) /\ FieldRight(field, FieldOf(field, a))
<1> DEFINE text == field.text
           f == FieldOf(field, a)
           role == a.roles[1]
<1>1. /\ a \in Attrs
      /\ LastOf(a.seal, EntriesOf(text, {"seal"}))
      /\ \A s \in Settings : LastOf(a.settings[s], EntriesOf(text, {s}))
      /\ Len(a.indexes) = Cardinality(EntriesOf(text, {"blind_index"}))
      /\ IsFiniteSet(EntriesOf(text, {"blind_index"}))
      /\ \A i \in DOMAIN a.indexes : a.indexes[i] \in EntriesOf(text, {"blind_index"})
  BY ParsedText DEF LegalText
<1>2. /\ Len(a.roles) = 1 /\ a.roles = <<role>> /\ role \in Roles
      /\ \A r \in Roles : HasOnly(text, r) <=> role = r
  BY OneRole DEF LegalText
<1>3. PICK x \in EntriesOf(text, Roles) : EntriesOf(text, Roles) = {x} /\ text[x].key = role
  BY OneRole DEF LegalText
<1>4. /\ DOMAIN text = 1..Len(text) /\ Len(text) \in Nat
      /\ \A e \in DOMAIN text : EntryTypeOK(text[e])
  BY TextFacts
<1>5. /\ f.name = field.name /\ f.optional = field.optional /\ f.role = role
      /\ f.settings = a.settings
      /\ f.seal = IF role = "seal" THEN text[a.seal].id ELSE 0
      /\ f.indexes = IF role # "seal" THEN <<>>
                     ELSE [i \in DOMAIN KeptIndexes(a) |-> text[KeptIndexes(a)[i]].id]
  BY DEF FieldOf
<1> SUFFICES HasRole(a) /\ FieldRight(field, f)
  OBVIOUS
<1> HIDE DEF f, role
<1>6. \A s \in Settings : f.settings[s] = Max({0} \cup EntriesOf(text, {s}))
  <2> TAKE s \in Settings
  <2>1. a.settings[s] \in Nat
    BY <1>1 DEF Attrs
  <2>2. EntriesOf(text, {s}) \in SUBSET Nat
    BY <1>4 DEF EntriesOf
  <2> QED
    BY <1>1, <1>5, <2>1, <2>2, LastOfIsMax
<1>7. /\ EntriesOf(text, {"blind_index"}) = {} <=> a.indexes = <<>>
      /\ a.indexes # <<>> =>
            EntriesOf(text, {"blind_index"}) = {a.indexes[1]}
  <2>1. a.indexes \in Seq(Nat)
    BY <1>1 DEF Attrs
  <2>2. EntriesOf(text, {"blind_index"}) = {} <=> a.indexes = <<>>
    BY <1>1, <2>1, SeqOfOne, FS_EmptySet
  <2>3. ASSUME a.indexes # <<>>
        PROVE  EntriesOf(text, {"blind_index"}) = {a.indexes[1]}
    <3>1. Cardinality(EntriesOf(text, {"blind_index"})) <= 1 /\ Len(a.indexes) # 0
      BY <2>1, <2>3, SeqOfOne DEF LegalText
    <3>2. Cardinality(EntriesOf(text, {"blind_index"})) = 1
      BY <1>1, <2>1, <3>1
    <3>3. PICK y : EntriesOf(text, {"blind_index"}) = {y}
      BY <1>1, <3>2, FS_Singleton
    <3>4. 1 \in DOMAIN a.indexes
      BY <2>1, <2>3, SeqOfOne
    <3> QED
      BY <1>1, <3>3, <3>4
  <2> QED
    BY <2>2, <2>3
<1>8. CASE role = "seal"
  <2>1. EntriesOf(text, {"seal"}) = {x}
    <3>1. EntriesOf(text, {"seal"}) \subseteq EntriesOf(text, Roles)
      BY DEF EntriesOf, Roles
    <3> QED
      BY <1>3, <1>8, <3>1 DEF EntriesOf
  <2>2. a.seal = x
    BY <1>1, <1>4, <2>1 DEF LastOf, EntriesOf
  <2>3. x \in DOMAIN text /\ text[x].key = "seal"
    BY <2>1 DEF EntriesOf
  <2>4. f.seal # 0 /\ IdsIn(text, "seal") = {f.seal}
    BY <1>4, <1>5, <1>8, <2>1, <2>2, <2>3 DEF IdsIn, EntryTypeOK
  <2>5. HasRole(a)
    BY <1>2, <1>4, <2>2, <2>3 DEF HasRole
  <2>6. CASE a.indexes = <<>>
    <3>1. f.indexes = <<>>
      <4>1. KeptIndexes(a) = <<>>
        BY <2>6 DEF KeptIndexes
      <4> QED
        BY <1>5, <1>8, <4>1
    <3> QED
      BY <1>2, <1>5, <1>6, <1>7, <1>8, <2>4, <2>5, <2>6, <3>1 DEF FieldRight
  <2>7. CASE a.indexes # <<>>
    <3>1. f.indexes # <<>> /\ f.indexes[1] = text[a.indexes[1]].id
      <4>1. KeptIndexes(a) = <<a.indexes[1]>>
        BY <2>7 DEF KeptIndexes
      <4> QED
        BY <1>5, <1>8, <4>1
    <3>2. EntriesOf(text, {"blind_index"}) = {a.indexes[1]}
      BY <1>7, <2>7
    <3>3. a.indexes[1] \in DOMAIN text /\ text[a.indexes[1]].key = "blind_index"
      BY <3>2 DEF EntriesOf
    <3>4. IdsIn(text, "blind_index") = {f.indexes[1]} /\ f.indexes[1] # 0
      BY <1>4, <3>1, <3>2, <3>3 DEF IdsIn, EntryTypeOK
    <3> QED
      BY <1>2, <1>5, <1>6, <1>8, <2>4, <2>5, <3>1, <3>2, <3>4 DEF FieldRight
  <2> QED
    BY <2>6, <2>7
<1>9. CASE role # "seal"
  <2>1. EntriesOf(text, {"seal"}) = {}
    BY <1>3, <1>9 DEF EntriesOf, Roles
  <2>2. EntriesOf(text, {"blind_index"}) = {}
    <3>1. "seal" \in Roles /\ ~HasOnly(text, "seal")
      BY <1>2, <1>9 DEF Roles
    <3> QED
      BY <3>1 DEF LegalText, EntriesOf
  <2>3. IdsIn(text, "seal") = {}
    BY <2>1 DEF IdsIn
  <2>4. HasRole(a)
    BY <1>2, <1>9 DEF HasRole, role
  <2> QED
    BY <1>2, <1>5, <1>6, <1>9, <2>2, <2>3, <2>4 DEF FieldRight
<1> QED
  BY <1>8, <1>9

-----------------------------------------------------------------------------
(* The record.                                                             *)

FieldSet == [name : FieldNames, optional : BOOLEAN, text : FieldTexts]

ParsedFields ==
    [name : FieldNames, optional : BOOLEAN, role : Roles, seal : Nat,
     settings : [Settings -> Nat], indexes : {s \in Seq(Nat) : Len(s) <= 1}]

LEMMA FieldOfTyped ==
    ASSUME NEW field \in FieldSet, NEW a, a = ParseFieldAttrs(field.text), HasRole(a)
    PROVE  FieldOf(field, a) \in ParsedFields
<1> DEFINE text == field.text
           f == FieldOf(field, a)
           role == a.roles[1]
<1>0. text \in FieldTexts /\ field.name \in FieldNames /\ field.optional \in BOOLEAN
  BY DEF FieldSet
<1>1. /\ a \in Attrs
      /\ a.seal # 0 => a.seal \in EntriesOf(text, {"seal"})
      /\ \A i \in DOMAIN a.indexes : a.indexes[i] \in EntriesOf(text, {"blind_index"})
  BY <1>0, ParsedText
<1>2. \A e \in DOMAIN text : text[e].id \in Nat
  BY <1>0, TextFacts DEF EntryTypeOK
<1>3. Len(a.roles) = 1 /\ role \in Roles /\ a.settings \in [Settings -> Nat]
  BY <1>0, <1>1, OneRole DEF HasRole, Attrs
<1>4. (IF role = "seal" THEN text[a.seal].id ELSE 0) \in Nat
  BY <1>1, <1>2 DEF HasRole, EntriesOf
<1>5. (IF role # "seal" THEN <<>>
       ELSE [i \in DOMAIN KeptIndexes(a) |-> text[KeptIndexes(a)[i]].id])
            \in {s \in Seq(Nat) : Len(s) <= 1}
  <2>1. CASE role # "seal" \/ a.indexes = <<>>
    <3>1. a.indexes = <<>> => KeptIndexes(a) = <<>>
      BY DEF KeptIndexes
    <3>2. <<>> \in {s \in Seq(Nat) : Len(s) <= 1}
      OBVIOUS
    <3>3. a.indexes = <<>> => [i \in DOMAIN KeptIndexes(a) |-> text[KeptIndexes(a)[i]].id] = <<>>
      BY <3>1
    <3> QED
      BY <2>1, <3>2, <3>3
  <2>2. CASE role = "seal" /\ a.indexes # <<>>
    <3>1. KeptIndexes(a) = <<a.indexes[1]>>
      BY <2>2 DEF KeptIndexes
    <3>2. 1 \in DOMAIN a.indexes
      BY <1>1, <2>2, SeqOfOne DEF Attrs
    <3>3. text[a.indexes[1]].id \in Nat
      BY <1>1, <1>2, <3>2 DEF EntriesOf
    <3>4. [i \in DOMAIN KeptIndexes(a) |-> text[KeptIndexes(a)[i]].id] = <<text[a.indexes[1]].id>>
      BY <3>1
    <3>5. \A n \in Nat : <<n>> \in {s \in Seq(Nat) : Len(s) <= 1}
      OBVIOUS
    <3> QED
      BY <2>2, <3>3, <3>4, <3>5
  <2> QED
    BY <2>1, <2>2
<1> HIDE DEF role
<1> QED
  BY <1>0, <1>3, <1>4, <1>5 DEF FieldOf, ParsedFields, role

(* Errors of a field name it, and one that has no role has no other.       *)
LEMMA FieldErrorsNamed ==
    ASSUME NEW field, NEW a, NEW e \in FieldErrors(field, a)
    PROVE  /\ e.name = field.name
           /\ e.kind = "no-role" => \A f \in FieldErrors(field, a) : f = e
<1>1. /\ \A k, x, at : FieldError(k, x, at).name = x
      /\ \A k, x, at : FieldError(k, x, at).kind = k
  BY DEF FieldError
<1>2. \A f \in RoleErrors(field, a) :
        /\ f.name = field.name
        /\ f.kind = "no-role" => a.roles = <<>> /\ a.faults = {}
        /\ f = FieldError("no-role", field.name, 0) \/ f = FieldError("roles", field.name, 2)
  BY <1>1 DEF RoleErrors, Malformed
<1>3. /\ \A f \in SealErrors(field, a) : f.name = field.name /\ f.kind # "no-role"
      /\ \A f \in UnsealedErrors(field, a) : f.name = field.name /\ f.kind # "no-role"
  BY <1>1 DEF SealErrors, UnsealedErrors
<1>4. <<>> # <<"seal">> /\ <<>> \notin {<<"record_id">>, <<"plaintext">>}
  OBVIOUS
<1>5. e.name = field.name
  BY <1>1, <1>2, <1>3 DEF FieldErrors
<1>6. ASSUME e.kind = "no-role", NEW f \in FieldErrors(field, a) PROVE f = e
  <2>1. e \in RoleErrors(field, a)
    BY <1>1, <1>3, <1>6 DEF FieldErrors
  <2>2. a.roles = <<>> /\ a.faults = {} /\ e = FieldError("no-role", field.name, 0)
    BY <1>1, <1>2, <1>6, <2>1
  <2>3. f \in RoleErrors(field, a)
    BY <1>4, <2>2 DEF FieldErrors
  <2>4. Len(<<>>) = 0
    OBVIOUS
  <2> QED
    BY <2>2, <2>3, <2>4 DEF RoleErrors
<1> QED
  BY <1>5, <1>6

(* Every field was read, and each returned as its text says.               *)
FieldsRight ==
    /\ Len(fields) = Len(fieldsRead)
    /\ \A i \in DOMAIN fieldsRead :
        LegalText(fieldsRead[i].text) /\ FieldRight(fieldsRead[i], fields[i])

FieldsTyped ==
    /\ named \in BOOLEAN /\ genericRecord \in BOOLEAN
    /\ fieldsRead \in Seq(FieldSet) /\ Len(fieldsRead) <= MaxFields
    /\ \A i, j \in DOMAIN fieldsRead : fieldsRead[i].name = fieldsRead[j].name => i = j
    /\ fields \in Seq(ParsedFields) /\ Len(fields) <= Len(fieldsRead)

(* What check_record asks of the fields together.                          *)
LegalTogether ==
    LET D == DOMAIN fields
    IN  /\ \E i \in D : /\ fields[i].role = "record_id" /\ ~fields[i].optional
                        /\ \A j \in D : fields[j].role = "record_id" => j = i
        /\ \E i \in D : fields[i].role = "seal"
        /\ \A i, j \in D : i # j =>
            /\ fields[i].role = "seal" /\ fields[j].role = "seal" =>
                fields[i].seal # fields[j].seal
            /\ fields[i].indexes # <<>> /\ fields[j].indexes # <<>> =>
                fields[i].indexes[1] # fields[j].indexes[1]
            /\ fields[i].indexes # <<>> => fields[j].name # ColumnOf[fields[i].name]

LEMMA FieldFacts ==
    ASSUME FieldsTyped, FieldsRight
    PROVE  /\ DOMAIN fields = DOMAIN fieldsRead
           /\ DOMAIN fields = 1..Len(fields) /\ Len(fields) \in Nat
           /\ \A i \in DOMAIN fields :
                /\ fieldsRead[i] \in FieldSet /\ fields[i] \in ParsedFields
                /\ fields[i].name = fieldsRead[i].name
                /\ fields[i].name \in FieldNames
                /\ fields[i].optional = fieldsRead[i].optional
                /\ fields[i].indexes # <<>> => fields[i].role = "seal"
           /\ \A i, j \in DOMAIN fields : fields[i].name = fields[j].name => i = j
<1>1. /\ DOMAIN fields = 1..Len(fields) /\ DOMAIN fieldsRead = 1..Len(fieldsRead)
      /\ Len(fields) \in Nat
      /\ \A i \in DOMAIN fields : fields[i] \in ParsedFields
      /\ \A i \in DOMAIN fieldsRead : fieldsRead[i] \in FieldSet
  BY DEF FieldsTyped
<1>2. DOMAIN fields = DOMAIN fieldsRead
  BY <1>1 DEF FieldsRight
<1>3. \A i \in DOMAIN fields :
        /\ fields[i].name = fieldsRead[i].name
        /\ fields[i].optional = fieldsRead[i].optional
        /\ fields[i].indexes # <<>> => fields[i].role = "seal"
  BY <1>2 DEF FieldsRight, FieldRight
<1>4. \A i \in DOMAIN fields : fields[i].name \in FieldNames
  BY <1>1 DEF ParsedFields
<1>5. \A i, j \in DOMAIN fields : fields[i].name = fields[j].name => i = j
  BY <1>2, <1>3 DEF FieldsTyped
<1> QED
  BY <1>1, <1>2, <1>3, <1>4, <1>5

(* Repeats finds no ID exactly if each is declared once.                   *)
LEMMA RepeatsNone ==
    ASSUME NEW kind, NEW ids, DOMAIN ids \subseteq Nat
    PROVE  Repeats(kind, ids) = {} <=> \A i, j \in DOMAIN ids : i # j => ids[i] # ids[j]
<1> DEFINE R == {i \in DOMAIN ids : \E j \in DOMAIN ids : j < i /\ ids[j] = ids[i]}
<1>1. Repeats(kind, ids) = {} <=> R = {}
  BY DEF Repeats
<1>2. R = {} <=> \A i, j \in DOMAIN ids : i # j => ids[i] # ids[j]
  OBVIOUS
<1> QED
  BY <1>1, <1>2

LEMMA CheckExact ==
    ASSUME FieldsTyped, FieldsRight
    PROVE  /\ CheckRecord = {} <=> LegalTogether
           /\ CheckRecord = {} => WithRole("record_id") # {}
           /\ \A e \in CheckRecord : e.kind # "no-role"
<1> DEFINE D == DOMAIN fields
<1>0. /\ D = 1..Len(fields) /\ Len(fields) \in Nat
      /\ \A i \in D : fields[i].name \in FieldNames
      /\ \A i \in D : fields[i].indexes # <<>> => fields[i].role = "seal"
      /\ \A i, j \in D : fields[i].name = fields[j].name => i = j
  BY FieldFacts
<1>1. RecordIdErrors = {} <=>
        \E i \in D : /\ fields[i].role = "record_id" /\ ~fields[i].optional
                     /\ \A j \in D : fields[j].role = "record_id" => j = i
  <2> DEFINE W == WithRole("record_id")
  <2>1. IsFiniteSet(W)
    <3>1. W \in SUBSET (1..Len(fields)) /\ IsFiniteSet(1..Len(fields))
      BY <1>0, FS_Interval DEF WithRole
    <3> QED
      BY <3>1, FS_Subset
  <2>2. RecordIdErrors = {} <=> Cardinality(W) = 1 /\ {i \in W : fields[i].optional} = {}
    BY DEF RecordIdErrors
  <2>3. Cardinality(W) = 1 <=> \E x : W = {x}
    BY <2>1, FS_Singleton
  <2> QED
    BY <2>2, <2>3 DEF WithRole
<1>2. NoSealErrors = {} <=> \E i \in D : fields[i].role = "seal"
  BY DEF NoSealErrors, WithRole
<1>3. SealIdErrors = {} <=>
        \A i, j \in D : i # j /\ fields[i].role = "seal" /\ fields[j].role = "seal" =>
            fields[i].seal # fields[j].seal
  <2>1. DOMAIN Seals \subseteq Nat
    BY <1>0 DEF Seals, WithRole
  <2>2. SealIdErrors = {} <=> \A i, j \in DOMAIN Seals : i # j => Seals[i] # Seals[j]
    BY <2>1, RepeatsNone DEF SealIdErrors
  <2> QED
    BY <2>2 DEF Seals, WithRole
<1>4. IndexIdErrors = {} <=>
        \A i, j \in D : i # j /\ fields[i].indexes # <<>> /\ fields[j].indexes # <<>> =>
            fields[i].indexes[1] # fields[j].indexes[1]
  <2>1. DOMAIN Indexes = {i \in D : fields[i].indexes # <<>>}
    BY <1>0 DEF Indexes, IndexedFields, WithRole
  <2>2. DOMAIN Indexes \subseteq Nat
    BY <1>0, <2>1
  <2>3. IndexIdErrors = {} <=> \A i, j \in DOMAIN Indexes : i # j => Indexes[i] # Indexes[j]
    BY <2>2, RepeatsNone DEF IndexIdErrors
  <2>4. \A i \in DOMAIN Indexes : Indexes[i] = fields[i].indexes[1]
    BY DEF Indexes
  <2> QED
    BY <2>1, <2>3, <2>4
<1>5. ColumnErrors = {} <=>
        \A i, j \in D : i # j /\ fields[i].indexes # <<>> =>
            fields[j].name # ColumnOf[fields[i].name]
  <2>1. IndexedFields = {i \in D : fields[i].indexes # <<>>}
    BY <1>0 DEF IndexedFields, WithRole
  <2>2. /\ \A i, j \in D : ColumnOf[fields[i].name] = ColumnOf[fields[j].name] => i = j
        /\ \A i \in D : fields[i].name # ColumnOf[fields[i].name]
    BY <1>0, DeriveRecordAssumption
  <2>3. \A i, j \in D : j < i => i # j
    BY <1>0
  <2> DEFINE C == {i \in IndexedFields : \E j \in DOMAIN fields :
                    \/ fields[j].name = ColumnOf[fields[i].name]
                    \/ /\ j \in IndexedFields /\ j < i
                       /\ ColumnOf[fields[j].name] = ColumnOf[fields[i].name]}
  <2>4. ColumnErrors = {} <=> C = {}
    BY DEF ColumnErrors
  <2>5. C = {i \in IndexedFields : \E j \in D : fields[j].name = ColumnOf[fields[i].name]}
    BY <2>1, <2>2, <2>3
  <2> HIDE DEF C
  <2> QED
    BY <2>1, <2>2, <2>4, <2>5
<1>6. CheckRecord = {} <=>
        /\ RecordIdErrors = {} /\ NoSealErrors = {} /\ SealIdErrors = {}
        /\ IndexIdErrors = {} /\ ColumnErrors = {}
  BY DEF CheckRecord
<1>7. \A e \in CheckRecord : e.kind # "no-role"
  BY DEF CheckRecord, RecordIdErrors, NoSealErrors, SealIdErrors, IndexIdErrors, ColumnErrors,
         Repeats, FieldError
<1>8. CheckRecord = {} => WithRole("record_id") # {}
  BY <1>1, <1>6 DEF WithRole
<1>9. CheckRecord = {} <=> LegalTogether
  BY <1>1, <1>2, <1>3, <1>4, <1>5, <1>6 DEF LegalTogether
<1> QED
  BY <1>7, <1>8, <1>9

(* The reference speaks of the texts read, in the same terms.              *)
LEMMA TextTerms ==
    ASSUME NEW i
    PROVE  /\ LegalField(i) <=> LegalText(fieldsRead[i].text)
           /\ \A role : Is(i, role) <=> HasOnly(fieldsRead[i].text, role)
           /\ \A key : IdsOf(i, key) = IdsIn(fieldsRead[i].text, key)
           /\ \A keys : FieldEntries(i, keys) = EntriesOf(fieldsRead[i].text, keys)
<1>1. \A keys : FieldEntries(i, keys) = EntriesOf(fieldsRead[i].text, keys)
  BY DEF FieldEntries, EntriesOf
<1>2. \A role : Is(i, role) <=> HasOnly(fieldsRead[i].text, role)
  BY <1>1 DEF Is, HasOnly
<1>3. \A key : IdsOf(i, key) = IdsIn(fieldsRead[i].text, key)
  BY <1>1 DEF IdsOf, IdsIn
<1>4. LegalField(i) <=> LegalText(fieldsRead[i].text)
  BY <1>1, <1>2 DEF LegalField, LegalText, WellFormed
<1> QED
  BY <1>1, <1>2, <1>3, <1>4

AllLegal == \A i \in DOMAIN fieldsRead : LegalText(fieldsRead[i].text)

LEMMA LegalRecordIs ==
    /\ LegalRecord => named /\ ~genericRecord /\ AllLegal
    /\ FieldsTyped /\ FieldsRight => (LegalRecord <=> named /\ ~genericRecord /\ LegalTogether)
<1>1. LegalRecord => named /\ ~genericRecord /\ AllLegal
  BY TextTerms DEF LegalRecord, AllLegal
<1>2. ASSUME FieldsTyped, FieldsRight
      PROVE  LegalRecord <=> named /\ ~genericRecord /\ LegalTogether
  <2> DEFINE D == DOMAIN fieldsRead
  <2>1. /\ DOMAIN fields = D
        /\ \A i \in D : fields[i].name = fieldsRead[i].name
                        /\ fields[i].optional = fieldsRead[i].optional
                        /\ FieldRight(fieldsRead[i], fields[i])
                        /\ LegalField(i)
    BY <1>2, FieldFacts, TextTerms DEF FieldsRight
  <2>2. \A i \in D : /\ Is(i, "seal") <=> fields[i].role = "seal"
                     /\ Is(i, "record_id") <=> fields[i].role = "record_id"
    <3>1. "seal" \in Roles /\ "record_id" \in Roles
      BY DEF Roles
    <3> QED
      BY <2>1, <3>1, TextTerms DEF FieldRight
  <2>3. \A i \in D : /\ fields[i].role = "seal" => IdsOf(i, "seal") = {fields[i].seal}
                     /\ fields[i].role # "seal" => IdsOf(i, "seal") = {}
    <3>1. \A i \in D : IdsOf(i, "seal") = IdsIn(fieldsRead[i].text, "seal")
      BY TextTerms
    <3> QED
      BY <2>1, <3>1 DEF FieldRight
  <2>4. \A i \in D : /\ fields[i].indexes # <<>> <=> FieldEntries(i, {"blind_index"}) # {}
                     /\ fields[i].indexes # <<>> => IdsOf(i, "blind_index") = {fields[i].indexes[1]}
    <3>1. \A i \in D :
            /\ IdsOf(i, "blind_index") = IdsIn(fieldsRead[i].text, "blind_index")
            /\ FieldEntries(i, {"blind_index"}) = EntriesOf(fieldsRead[i].text, {"blind_index"})
      BY TextTerms
    <3> QED
      BY <2>1, <3>1 DEF FieldRight
  <2>5. \A i \in D : fields[i].indexes = <<>> => IdsOf(i, "blind_index") = {}
    BY <2>4 DEF IdsOf
  <2>6. (\E i \in D : Is(i, "record_id") /\ ~fieldsRead[i].optional
                      /\ \A j \in D : Is(j, "record_id") => j = i)
        <=> \E i \in D : fields[i].role = "record_id" /\ ~fields[i].optional
                         /\ \A j \in D : fields[j].role = "record_id" => j = i
    BY <2>1, <2>2
  <2>7. (\E i \in D : Is(i, "seal")) <=> \E i \in D : fields[i].role = "seal"
    BY <2>2
  <2>8. ASSUME NEW i \in D, NEW j \in D
        PROVE  /\ IdsOf(i, "seal") \cap IdsOf(j, "seal") = {} <=>
                    (fields[i].role = "seal" /\ fields[j].role = "seal" =>
                        fields[i].seal # fields[j].seal)
               /\ IdsOf(i, "blind_index") \cap IdsOf(j, "blind_index") = {} <=>
                    (fields[i].indexes # <<>> /\ fields[j].indexes # <<>> =>
                        fields[i].indexes[1] # fields[j].indexes[1])
               /\ (FieldEntries(i, {"blind_index"}) # {} =>
                        fieldsRead[j].name # ColumnOf[fieldsRead[i].name]) <=>
                    (fields[i].indexes # <<>> => fields[j].name # ColumnOf[fields[i].name])
    <3>1. IdsOf(i, "seal") \cap IdsOf(j, "seal") = {} <=>
            (fields[i].role = "seal" /\ fields[j].role = "seal" => fields[i].seal # fields[j].seal)
      BY <2>3
    <3>2. IdsOf(i, "blind_index") \cap IdsOf(j, "blind_index") = {} <=>
            (fields[i].indexes # <<>> /\ fields[j].indexes # <<>> =>
                fields[i].indexes[1] # fields[j].indexes[1])
      BY <2>4, <2>5
    <3>3. (FieldEntries(i, {"blind_index"}) # {} =>
                fieldsRead[j].name # ColumnOf[fieldsRead[i].name]) <=>
            (fields[i].indexes # <<>> => fields[j].name # ColumnOf[fields[i].name])
      BY <2>1, <2>4
    <3> QED
      BY <3>1, <3>2, <3>3
  <2> QED
    BY <2>1, <2>6, <2>7, <2>8 DEF LegalRecord, LegalTogether
<1> QED
  BY <1>1, <1>2

-----------------------------------------------------------------------------
(* The derive.                                                             *)

(* While fields are read, an error so far means an illegal field or a      *)
(* generic record, and errors name what they are of.                       *)
ErrorsExactSoFar ==
    /\ found = {} <=> ~genericRecord /\ AllLegal
    /\ found = {} => FieldsRight
    /\ \A e \in found :
        \/ e.name = WholeRecord /\ e.kind # "no-role"
        \/ \E i \in DOMAIN fieldsRead : e.name = fieldsRead[i].name

(* What was expanded is what the fields say, and passed every check.       *)
ExpandedRight ==
    /\ derived.stored = StoredStruct /\ derived.seals = Seals
    /\ FieldsRight
    /\ CheckRecord = {}

DeriveInv ==
    /\ FieldsTyped
    /\ derived = RecordParsing => ErrorsExactSoFar
    /\ derived.is \in {"parsing", "rejected", "expanded"}
    /\ derived.is = "parsing" => derived = RecordParsing
    /\ IsExpanded => ExpandedRight
    /\ AcceptsExactly
    /\ NoErrorTwice

LEMMA DeriveStarts == DeriveInit => DeriveInv
<1> SUFFICES ASSUME DeriveInit PROVE DeriveInv
  OBVIOUS
<1> USE DEF DeriveInit
<1>1. /\ fieldsRead \in Seq(FieldSet) /\ Len(fieldsRead) = 0 /\ DOMAIN fieldsRead = {}
      /\ fields \in Seq(ParsedFields) /\ Len(fields) = 0 /\ MaxFields \in Nat
  BY DeriveRecordAssumption
<1>2. FieldsTyped
  BY <1>1 DEF FieldsTyped
<1>3. AllLegal /\ FieldsRight
  BY <1>1 DEF AllLegal, FieldsRight
<1>4. found = {} <=> ~genericRecord
  OBVIOUS
<1>5. \A e \in found : e.name = WholeRecord /\ e.kind # "no-role"
  BY DEF FieldError
<1>6. NoErrorTwice
  BY <1>5 DEF NoErrorTwice
<1>7. derived = RecordParsing /\ derived.is = "parsing"
  BY DEF RecordParsing
<1> QED
  BY <1>2, <1>3, <1>4, <1>5, <1>6, <1>7
     DEF DeriveInv, ErrorsExactSoFar, IsExpanded, AcceptsExactly

LEMMA ReadFieldKeeps == DeriveInv /\ ReadField => DeriveInv'
<1> SUFFICES ASSUME DeriveInv, ReadField PROVE DeriveInv'
  OBVIOUS
<1>1. PICK name \in FieldNames, optional \in BOOLEAN, text \in FieldTexts :
        /\ \A i \in DOMAIN fieldsRead : fieldsRead[i].name # name
        /\ ParseField([name |-> name, optional |-> optional, text |-> text])
  BY DEF ReadField
<1> DEFINE field == [name |-> name, optional |-> optional, text |-> text]
           a == ParseFieldAttrs(text)
           l == Len(fieldsRead)
           m == Len(fields)
<1>2. /\ field \in FieldSet /\ field.name = name /\ field.text = text
  BY DEF FieldSet
<1>3. /\ fieldsRead' = Append(fieldsRead, field)
      /\ fields' = IF HasRole(a) THEN Append(fields, FieldOf(field, a)) ELSE fields
      /\ found' = found \cup FieldErrors(field, a)
      /\ named' = named /\ genericRecord' = genericRecord
      /\ derived = RecordParsing /\ derived' = derived /\ l < MaxFields
  BY <1>1, <1>2 DEF ReadField, ParseField
<1>4. /\ FieldsTyped /\ ErrorsExactSoFar /\ NoErrorTwice
  BY <1>3 DEF DeriveInv
<1> HIDE DEF field, a
<1>5. /\ fieldsRead \in Seq(FieldSet) /\ l \in Nat /\ DOMAIN fieldsRead = 1..l
      /\ fields \in Seq(ParsedFields) /\ m \in Nat /\ DOMAIN fields = 1..m /\ m <= l
      /\ MaxFields \in Nat
  BY <1>4, DeriveRecordAssumption DEF FieldsTyped
<1>6. /\ fieldsRead' \in Seq(FieldSet) /\ Len(fieldsRead') = l + 1
      /\ DOMAIN fieldsRead' = 1..(l + 1)
      /\ \A i \in 1..l : fieldsRead'[i] = fieldsRead[i]
      /\ fieldsRead'[l + 1] = field
  BY <1>2, <1>3, <1>5
<1>7. /\ fields' \in Seq(ParsedFields)
      /\ Len(fields') <= l + 1
      /\ HasRole(a) =>
            /\ Len(fields') = m + 1
            /\ \A i \in 1..m : fields'[i] = fields[i]
            /\ fields'[m + 1] = FieldOf(field, a)
  <2>1. CASE HasRole(a)
    <3> DEFINE f == FieldOf(field, a)
    <3>1. f \in ParsedFields
      BY <1>2, <2>1, FieldOfTyped DEF a
    <3>2. fields' = Append(fields, f)
      BY <1>3, <2>1
    <3> HIDE DEF f
    <3> QED
      BY <1>5, <3>1, <3>2 DEF f
  <2>2. CASE ~HasRole(a)
    <3>1. fields' = fields
      BY <1>3, <2>2
    <3>2. Len(fields') <= l + 1
      BY <1>5, <3>1
    <3> QED
      BY <1>5, <2>2, <3>1, <3>2
  <2> QED
    BY <2>1, <2>2
<1>8. FieldsTyped'
  <2>1. \A i, j \in 1..(l + 1) : fieldsRead'[i].name = fieldsRead'[j].name => i = j
    <3> TAKE i, j \in 1..(l + 1)
    <3>1. \A k \in 1..(l + 1) : k \in 1..l \/ k = l + 1
      BY <1>5
    <3>2. \A k \in 1..l : fieldsRead'[k].name # name
      BY <1>1, <1>5, <1>6
    <3>3. \A p, q \in 1..l : fieldsRead'[p].name = fieldsRead'[q].name => p = q
      BY <1>4, <1>5, <1>6 DEF FieldsTyped
    <3> QED
      BY <1>2, <1>6, <3>1, <3>2, <3>3
  <2> QED
    BY <1>3, <1>4, <1>5, <1>6, <1>7, <2>1 DEF FieldsTyped
<1>9. AllLegal' <=> AllLegal /\ LegalText(text)
  <2>1. \A k \in 1..(l + 1) : k \in 1..l \/ k = l + 1
    BY <1>5
  <2>2. l + 1 \in 1..(l + 1) /\ \A k \in 1..l : k \in 1..(l + 1)
    BY <1>5
  <2> QED
    BY <1>2, <1>5, <1>6, <2>1, <2>2 DEF AllLegal
<1>10. FieldErrors(field, a) = {} <=> LegalText(text)
  BY <1>2, FieldErrorsAre DEF a
<1>11. found' = {} <=> found = {} /\ FieldErrors(field, a) = {}
  BY <1>3
<1>12. ASSUME found' = {} PROVE FieldsRight'
  <2>1. FieldsRight /\ LegalText(text)
    BY <1>4, <1>10, <1>11, <1>12 DEF ErrorsExactSoFar
  <2>2. HasRole(a) /\ FieldRight(field, FieldOf(field, a))
    BY <1>2, <2>1, FieldParsed DEF a
  <2>3. m = l
    BY <2>1 DEF FieldsRight
  <2>4. Len(fields') = l + 1 /\ \A i \in 1..l : fields'[i] = fields[i]
    BY <1>7, <2>2, <2>3
  <2>5. fields'[l + 1] = FieldOf(field, a)
    BY <1>7, <2>2, <2>3
  <2>6. \A i \in 1..l : LegalText(fieldsRead'[i].text) /\ FieldRight(fieldsRead'[i], fields'[i])
    BY <1>5, <1>6, <2>1, <2>4 DEF FieldsRight
  <2>7. LegalText(fieldsRead'[l + 1].text) /\ FieldRight(fieldsRead'[l + 1], fields'[l + 1])
    BY <1>2, <1>6, <2>1, <2>2, <2>5
  <2>8. \A k \in 1..(l + 1) : k \in 1..l \/ k = l + 1
    BY <1>5
  <2> QED
    BY <1>6, <2>4, <2>6, <2>7, <2>8 DEF FieldsRight
<1>13. \A e \in FieldErrors(field, a) :
        e.name = name /\ (e.kind = "no-role" => \A f \in FieldErrors(field, a) : f = e)
  BY <1>2, FieldErrorsNamed
<1>14. \A e \in found : e.name # name
  BY <1>1, <1>4, DeriveRecordAssumption DEF ErrorsExactSoFar
<1>15. ErrorsExactSoFar'
  <2>1. found' = {} <=> ~genericRecord' /\ AllLegal'
    BY <1>3, <1>4, <1>9, <1>10, <1>11 DEF ErrorsExactSoFar
  <2>2. ASSUME NEW e \in found'
        PROVE  \/ e.name = WholeRecord /\ e.kind # "no-role"
               \/ \E i \in DOMAIN fieldsRead' : e.name = fieldsRead'[i].name
    <3>1. CASE e \in found
      <4>1. \A i \in DOMAIN fieldsRead : i \in DOMAIN fieldsRead' /\ fieldsRead'[i] = fieldsRead[i]
        BY <1>5, <1>6
      <4> QED
        BY <1>4, <3>1, <4>1 DEF ErrorsExactSoFar
    <3>2. CASE e \in FieldErrors(field, a)
      BY <1>2, <1>5, <1>6, <1>13, <3>2
    <3> QED
      BY <1>3, <3>1, <3>2
  <2>3. found' = {} => FieldsRight'
    BY <1>12
  <2> QED
    BY <2>1, <2>2, <2>3 DEF ErrorsExactSoFar
<1>16. NoErrorTwice'
  <2> SUFFICES ASSUME NEW e \in found', NEW f \in found', e.name = f.name, e.kind = "no-role"
               PROVE  f = e
    BY DEF NoErrorTwice
  <2>1. CASE e \in found /\ f \in found
    BY <1>4, <2>1 DEF NoErrorTwice
  <2>2. CASE e \in FieldErrors(field, a) /\ f \in FieldErrors(field, a)
    BY <1>13, <2>2
  <2> QED
    BY <1>3, <1>13, <1>14, <2>1, <2>2
<1>17. derived' = RecordParsing /\ RecordParsing.is = "parsing"
  BY <1>3 DEF RecordParsing
<1> QED
  BY <1>8, <1>15, <1>16, <1>17 DEF DeriveInv, IsExpanded, AcceptsExactly

LEMMA ExpandKeeps == DeriveInv /\ Expand => DeriveInv'
<1> SUFFICES ASSUME DeriveInv, Expand PROVE DeriveInv'
  OBVIOUS
<1>1. /\ UNCHANGED <<named, genericRecord, fieldsRead, fields>>
      /\ derived = RecordParsing
      /\ FieldsTyped /\ ErrorsExactSoFar /\ NoErrorTwice
  BY DEF Expand, DeriveInv
<1>2. FieldsTyped' /\ (FieldsRight' <=> FieldsRight) /\ (CheckRecord' = CheckRecord)
      /\ StoredStruct' = StoredStruct /\ Seals' = Seals
      /\ (LegalRecord' <=> LegalRecord)
  <2>1. WithRole("seal")' = WithRole("seal") /\ WithRole("record_id")' = WithRole("record_id")
    BY <1>1 DEF WithRole
  <2>2. IndexedFields' = IndexedFields
    BY <1>1, <2>1 DEF IndexedFields
  <2>3. Seals' = Seals /\ Indexes' = Indexes
    BY <1>1, <2>1, <2>2 DEF Seals, Indexes
  <2>4. CheckRecord' = CheckRecord
    BY <1>1, <2>1, <2>2, <2>3
       DEF CheckRecord, RecordIdErrors, NoSealErrors, SealIdErrors, IndexIdErrors,
           ColumnErrors, Repeats
  <2>5. StoredStruct' = StoredStruct
    BY <1>1 DEF StoredStruct
  <2>6. LegalRecord' <=> LegalRecord
    BY <1>1 DEF LegalRecord, LegalField, Is, IdsOf, FieldEntries
  <2> QED
    BY <1>1, <2>3, <2>4, <2>5, <2>6 DEF FieldsTyped, FieldsRight
<1>3. /\ RecordRejected.is = "rejected" /\ RecordParsing.is = "parsing"
      /\ \A x : RecordExpanded(x).is = "expanded" /\ RecordExpanded(x).stored = StoredStruct
                /\ RecordExpanded(x).seals = Seals
  BY DEF RecordRejected, RecordParsing, RecordExpanded
<1>4. derived' # RecordParsing
  BY <1>3 DEF Expand, RecordUnreachable
<1>5. CASE found' # {}
  <2>1. derived' = RecordRejected /\ derived'.is = "rejected"
    BY <1>3, <1>5 DEF Expand
  <2>2. ~LegalRecord
    <3>1. CASE ~named
      BY <3>1 DEF LegalRecord
    <3>2. CASE named /\ found # {}
      BY <1>1, <3>2, LegalRecordIs DEF ErrorsExactSoFar
    <3>3. CASE named /\ found = {}
      <4>1. CheckRecord # {}
        BY <1>5, <3>3 DEF Expand
      <4>2. FieldsRight
        BY <1>1, <3>3 DEF ErrorsExactSoFar
      <4> QED
        BY <1>1, <4>1, <4>2, CheckExact, LegalRecordIs
    <3> QED
      BY <3>1, <3>2, <3>3
  <2>3. NoErrorTwice'
    <3>1. CASE named /\ found # {}
      BY <1>1, <3>1 DEF Expand, NoErrorTwice
    <3>2. CASE ~named
      BY <3>2 DEF Expand, NoErrorTwice
    <3>3. CASE named /\ found = {}
      <4>1. found' = CheckRecord /\ FieldsRight
        BY <1>1, <3>3 DEF Expand, ErrorsExactSoFar
      <4> QED
        BY <1>1, <4>1, CheckExact DEF NoErrorTwice
    <3> QED
      BY <3>1, <3>2, <3>3
  <2>4. AcceptsExactly'
    BY <1>2, <2>1, <2>2 DEF AcceptsExactly, IsExpanded
  <2> QED
    BY <1>2, <1>4, <2>1, <2>3, <2>4 DEF DeriveInv, IsExpanded
<1>6. CASE found' = {}
  <2>1. named /\ found = {} /\ CheckRecord = {}
    BY <1>6 DEF Expand
  <2>2. FieldsRight /\ ~genericRecord
    BY <1>1, <2>1 DEF ErrorsExactSoFar
  <2>3. WithRole("record_id") # {} /\ LegalTogether
    BY <1>1, <2>1, <2>2, CheckExact
  <2>4. derived' = RecordExpanded(fields[Min(WithRole("record_id"))].name)
    BY <1>6, <2>3 DEF Expand
  <2>5. /\ derived'.is = "expanded"
        /\ derived'.stored = StoredStruct /\ derived'.seals = Seals
    BY <1>3, <2>4
  <2>6. LegalRecord
    BY <1>1, <2>1, <2>2, <2>3, LegalRecordIs
  <2>7. AcceptsExactly'
    BY <1>2, <2>5, <2>6 DEF AcceptsExactly, IsExpanded
  <2>8. ExpandedRight'
    BY <1>2, <2>1, <2>2, <2>5 DEF ExpandedRight
  <2>9. NoErrorTwice'
    BY <1>6 DEF NoErrorTwice
  <2> QED
    BY <1>2, <1>4, <2>5, <2>7, <2>8, <2>9 DEF DeriveInv
<1> QED
  BY <1>5, <1>6

LEMMA DeriveStands == DeriveInv /\ UNCHANGED recordVars => DeriveInv'
<1> SUFFICES ASSUME DeriveInv, UNCHANGED recordVars PROVE DeriveInv'
  OBVIOUS
<1>0. UNCHANGED <<named, genericRecord, fieldsRead, fields, found, derived>>
  BY DEF recordVars
<1>1. WithRole("seal")' = WithRole("seal") /\ WithRole("record_id")' = WithRole("record_id")
  BY <1>0 DEF WithRole
<1>2. IndexedFields' = IndexedFields
  BY <1>0, <1>1 DEF IndexedFields
<1>3. Seals' = Seals /\ Indexes' = Indexes
  BY <1>0, <1>1, <1>2 DEF Seals, Indexes
<1>4. CheckRecord' = CheckRecord
  BY <1>0, <1>1, <1>2, <1>3
     DEF CheckRecord, RecordIdErrors, NoSealErrors, SealIdErrors, IndexIdErrors,
         ColumnErrors, Repeats
<1>5. StoredStruct' = StoredStruct
  BY <1>0 DEF StoredStruct
<1>6. LegalRecord' <=> LegalRecord
  BY <1>0 DEF LegalRecord, LegalField, Is, IdsOf, FieldEntries
<1>7. FieldsTyped' /\ (FieldsRight' <=> FieldsRight) /\ (AllLegal' <=> AllLegal)
  BY <1>0 DEF FieldsTyped, FieldsRight, AllLegal, DeriveInv
<1>8. ErrorsExactSoFar' <=> ErrorsExactSoFar
  BY <1>0, <1>7 DEF ErrorsExactSoFar
<1>9. ExpandedRight' <=> ExpandedRight
  BY <1>0, <1>3, <1>4, <1>5, <1>7 DEF ExpandedRight
<1>10. (IsExpanded' <=> IsExpanded) /\ (AcceptsExactly' <=> AcceptsExactly)
       /\ (NoErrorTwice' <=> NoErrorTwice)
  BY <1>0, <1>6 DEF IsExpanded, AcceptsExactly, NoErrorTwice
<1> QED
  BY <1>0, <1>7, <1>8, <1>9, <1>10 DEF DeriveInv

(* The columns of one field.                                               *)
LEMMA ColumnsAre ==
    ASSUME NEW f
    PROVE  /\ ColumnsOf(f)[1] = OwnColumn(f)
           /\ ToSet(ColumnsOf(f)) =
                IF f.indexes = <<>> THEN {OwnColumn(f)} ELSE {OwnColumn(f), IndexColumn(f)}
           /\ OwnColumn(f).name = f.name /\ OwnColumn(f).seal = f.seal
           /\ OwnColumn(f).optional = f.optional
           /\ OwnColumn(f).settings = f.settings /\ OwnColumn(f).index = 0
           /\ IndexColumn(f).name = ColumnOf[f.name] /\ IndexColumn(f).index = f.indexes[1]
<1>1. ColumnsOf(f) = IF f.indexes = <<>> THEN <<OwnColumn(f)>>
                     ELSE <<OwnColumn(f), IndexColumn(f)>>
  BY DEF ColumnsOf
<1>3. /\ OwnColumn(f).name = f.name /\ OwnColumn(f).seal = f.seal
      /\ OwnColumn(f).optional = f.optional
      /\ OwnColumn(f).settings = f.settings /\ OwnColumn(f).index = 0
      /\ IndexColumn(f).name = ColumnOf[f.name] /\ IndexColumn(f).index = f.indexes[1]
  <2> DEFINE own == OwnColumn(f)
  <2>1. /\ own.name = f.name /\ own.seal = f.seal /\ own.optional = f.optional
        /\ own.settings = f.settings /\ own.index = 0
    BY DEF OwnColumn
  <2>2. own = [x \in DOMAIN own |-> own[x]] /\ "name" \in DOMAIN own /\ "index" \in DOMAIN own
    BY DEF OwnColumn
  <2>3. IndexColumn(f) = [own EXCEPT !.name = ColumnOf[f.name], !.index = f.indexes[1]]
    BY DEF IndexColumn
  <2> HIDE DEF own
  <2>4. IndexColumn(f).name = ColumnOf[f.name] /\ IndexColumn(f).index = f.indexes[1]
    BY <2>2, <2>3
  <2> QED
    BY <2>1, <2>4 DEF own
<1>2. \A x, y : ToSet(<<x>>) = {x} /\ ToSet(<<x, y>>) = {x, y}
  <2> TAKE x, y
  <2>1. DOMAIN <<x>> = {1} /\ <<x>>[1] = x
    OBVIOUS
  <2>2. DOMAIN <<x, y>> = {1, 2} /\ <<x, y>>[1] = x /\ <<x, y>>[2] = y
    OBVIOUS
  <2> QED
    BY <2>1, <2>2 DEF ToSet
<1>4. \A x, y : <<x>>[1] = x /\ <<x, y>>[1] = x
  OBVIOUS
<1>5. CASE f.indexes = <<>>
  <2>1. ColumnsOf(f) = <<OwnColumn(f)>>
    BY <1>1, <1>5
  <2> QED
    BY <1>2, <1>3, <1>4, <1>5, <2>1
<1>6. CASE f.indexes # <<>>
  <2>1. ColumnsOf(f) = <<OwnColumn(f), IndexColumn(f)>>
    BY <1>1, <1>6
  <2> QED
    BY <1>2, <1>3, <1>4, <1>6, <2>1
<1> QED
  BY <1>5, <1>6

(* Nothing an expanded record's fields say is lost in its stored form.     *)
LEMMA ExpandedKeeps == DeriveInv => NothingDropped
<1> SUFFICES ASSUME DeriveInv, IsExpanded PROVE NothingDropped
  BY DEF NothingDropped
<1>1. FieldsTyped /\ FieldsRight /\ derived.stored = StoredStruct /\ CheckRecord = {}
  BY DEF DeriveInv, ExpandedRight
<1> DEFINE D == DOMAIN fieldsRead
<1>2. /\ DOMAIN fields = D
      /\ \A i \in D : fields[i].name = fieldsRead[i].name /\ fields[i].name \in FieldNames
      /\ \A i, j \in D : fields[i].name = fields[j].name => i = j
  BY <1>1, FieldFacts
<1>3. DOMAIN derived.stored = D /\ \A i \in D : derived.stored[i] = ColumnsOf(fields[i])
  BY <1>1, <1>2 DEF StoredStruct
<1>4. \A i \in D :
        /\ derived.stored[i][1] = OwnColumn(fields[i])
        /\ ToSet(derived.stored[i]) =
            IF fields[i].indexes = <<>> THEN {OwnColumn(fields[i])}
            ELSE {OwnColumn(fields[i]), IndexColumn(fields[i])}
  BY <1>3, ColumnsAre
<1>5. \A i \in D : /\ derived.stored[i][1].name = fields[i].name
                   /\ derived.stored[i][1].index = 0
                   /\ derived.stored[i][1].seal = fields[i].seal
                   /\ derived.stored[i][1].settings = fields[i].settings
  <2> TAKE i \in D
  <2> DEFINE f == fields[i]
  <2>1. derived.stored[i][1] = OwnColumn(f)
    BY <1>4
  <2> HIDE DEF f
  <2>2. /\ OwnColumn(f).name = f.name /\ OwnColumn(f).seal = f.seal
        /\ OwnColumn(f).settings = f.settings /\ OwnColumn(f).index = 0
    BY ColumnsAre
  <2>3. /\ derived.stored[i][1].name = f.name /\ derived.stored[i][1].index = 0
        /\ derived.stored[i][1].seal = f.seal /\ derived.stored[i][1].settings = f.settings
    BY <2>1, <2>2
  <2> QED
    BY <2>3 DEF f
<1>6. ASSUME NEW i \in D, NEW c \in ToSet(derived.stored[i]), c.index # 0
      PROVE  /\ fields[i].indexes # <<>> /\ c.name = ColumnOf[fields[i].name]
             /\ c.index = fields[i].indexes[1]
  <2>1. OwnColumn(fields[i]).index = 0
    BY ColumnsAre
  <2>2. fields[i].indexes # <<>> /\ c = IndexColumn(fields[i])
    BY <1>4, <1>6, <2>1
  <2> QED
    BY <2>2, ColumnsAre
<1>7. \A i \in D : fields[i].indexes # <<>> =>
        \E c \in ToSet(derived.stored[i]) :
            c.name = ColumnOf[fields[i].name] /\ c.index = fields[i].indexes[1]
  <2> SUFFICES ASSUME NEW i \in D, fields[i].indexes # <<>>
               PROVE  \E c \in ToSet(derived.stored[i]) :
                        c.name = ColumnOf[fields[i].name] /\ c.index = fields[i].indexes[1]
    OBVIOUS
  <2>1. IndexColumn(fields[i]) \in ToSet(derived.stored[i])
    BY <1>4
  <2> QED
    BY <2>1, ColumnsAre
<1>8. ASSUME NEW i \in D
      PROVE  /\ fields[i].seal \in (IF Is(i, "seal") THEN IdsOf(i, "seal") ELSE {0})
             /\ \A s \in Settings : fields[i].settings[s] = Max({0} \cup FieldEntries(i, {s}))
             /\ fields[i].indexes = <<>> => IdsOf(i, "blind_index") = {}
             /\ fields[i].indexes # <<>> =>
                    IdsOf(i, "blind_index") = {fields[i].indexes[1]} /\ fields[i].indexes[1] # 0
  <2>1. FieldRight(fieldsRead[i], fields[i])
    BY <1>1 DEF FieldsRight
  <2>2. /\ Is(i, "seal") <=> fields[i].role = "seal"
        /\ IdsOf(i, "seal") = IdsIn(fieldsRead[i].text, "seal")
        /\ IdsOf(i, "blind_index") = IdsIn(fieldsRead[i].text, "blind_index")
        /\ \A s \in Settings : FieldEntries(i, {s}) = EntriesOf(fieldsRead[i].text, {s})
    <3>1. "seal" \in Roles
      BY DEF Roles
    <3> QED
      BY <2>1, <3>1, TextTerms DEF FieldRight
  <2>3. EntriesOf(fieldsRead[i].text, {"blind_index"}) = {} =>
            IdsIn(fieldsRead[i].text, "blind_index") = {}
    BY DEF IdsIn
  <2> QED
    BY <2>1, <2>2, <2>3 DEF FieldRight
<1>9. ASSUME NEW i \in D
      PROVE  IdsOf(i, "blind_index") =
                {c.index : c \in {c \in Columns :
                    c.index # 0 /\ c.name = ColumnOf[fieldsRead[i].name]}}
  <2> DEFINE C == {c \in Columns : c.index # 0 /\ c.name = ColumnOf[fieldsRead[i].name]}
  <2>1. ASSUME NEW c \in C
        PROVE  fields[i].indexes # <<>> /\ c.index = fields[i].indexes[1]
    <3>1. PICK j \in D : c \in ToSet(derived.stored[j])
      BY <1>3 DEF Columns
    <3>2. /\ fields[j].indexes # <<>> /\ c.name = ColumnOf[fields[j].name]
          /\ c.index = fields[j].indexes[1]
      BY <1>6, <3>1
    <3>3. fields[j].name = fields[i].name
      BY <1>2, <3>2, DeriveRecordAssumption
    <3> QED
      BY <1>2, <3>2, <3>3
  <2>2. fields[i].indexes # <<>> => \E c \in C : c.index = fields[i].indexes[1]
    <3>1. \A c \in ToSet(derived.stored[i]) : c \in Columns
      BY <1>3 DEF Columns
    <3> QED
      BY <1>2, <1>7, <1>8, <3>1
  <2> HIDE DEF C
  <2>3. CASE fields[i].indexes = <<>>
    <3>1. C = {}
      BY <2>1, <2>3
    <3> QED
      BY <1>8, <2>3, <3>1 DEF C
  <2>4. CASE fields[i].indexes # <<>>
    <3>1. {c.index : c \in C} = {fields[i].indexes[1]}
      BY <2>1, <2>2, <2>4
    <3> QED
      BY <1>8, <2>4, <3>1 DEF C
  <2> QED
    BY <2>3, <2>4
<1> QED
  <2>1. ASSUME NEW i \in D
        PROVE  LET column == derived.stored[i][1]
               IN  /\ column.name = fieldsRead[i].name /\ column.index = 0
                   /\ column.seal \in (IF Is(i, "seal") THEN IdsOf(i, "seal") ELSE {0})
                   /\ \A s \in Settings :
                        column.settings[s] = Max({0} \cup FieldEntries(i, {s}))
    <3> DEFINE column == derived.stored[i][1]
    <3>1. column.name = fieldsRead[i].name /\ column.index = 0
      BY <1>2, <1>5
    <3>2. column.seal = fields[i].seal /\ column.settings = fields[i].settings
      BY <1>5
    <3> HIDE DEF column
    <3>3. /\ column.seal \in (IF Is(i, "seal") THEN IdsOf(i, "seal") ELSE {0})
          /\ \A s \in Settings : column.settings[s] = Max({0} \cup FieldEntries(i, {s}))
      BY <1>8, <3>2
    <3> QED
      BY <3>1, <3>3 DEF column
  <2> QED
    BY <1>3, <1>9, <2>1 DEF NothingDropped

LEMMA DeriveExact == DeriveInv => RecordsDeclareExactly /\ RecordErrorsExact
<1> SUFFICES ASSUME DeriveInv PROVE RecordsDeclareExactly /\ RecordErrorsExact
  OBVIOUS
<1>1. DeriveTypeOK
  <2>1. \A i \in DOMAIN fields : fields[i] \in ParsedFields
    BY DEF DeriveInv, FieldsTyped
  <2>2. \A i \in DOMAIN fields : fields[i].role \in Roles /\ Len(fields[i].indexes) <= 1
    BY <2>1 DEF ParsedFields
  <2> QED
    BY <2>2 DEF DeriveInv, FieldsTyped, DeriveTypeOK
<1>2. NeverUnreachable
  <2>1. RecordUnreachable.is = "unreachable"
    BY DEF RecordUnreachable
  <2> QED
    BY <2>1 DEF DeriveInv, NeverUnreachable
<1>3. NothingDropped
  BY ExpandedKeeps
<1> QED
  BY <1>1, <1>2, <1>3 DEF DeriveInv, RecordsDeclareExactly, RecordErrorsExact

LEMMA DeriveSteps == DeriveInv /\ [DeriveNext]_recordVars => DeriveInv'
BY ReadFieldKeeps, ExpandKeeps, DeriveStands DEF DeriveNext

LEMMA DeriveHolds == RecordsSpec => []DeriveInv
<1>1. RecordsInit => DeriveInv
  BY DeriveStarts DEF RecordsInit
<1>2. DeriveInv /\ [RecordsNext]_recordsVars => DeriveInv'
  <2>1. [RecordsNext]_recordsVars => [DeriveNext]_recordVars
    BY DEF RecordsNext, Derive, Adopt, Save, MixUp, recordsVars
  <2> QED
    BY <2>1, DeriveSteps
<1> QED
  BY <1>1, <1>2, PTL DEF RecordsSpec

(* For records of any number of fields with any entries: the derive        *)
(* accepts exactly the legal ones, and expands to what their fields say.   *)
THEOREM RecordsAreDeclaredExactly == RecordsSpec => []RecordsDeclareExactly
BY DeriveHolds, DeriveExact, PTL

(* It reports an error once, and leaves no part missing behind it.         *)
THEOREM RecordErrorsAreExact == RecordsSpec => []RecordErrorsExact
BY DeriveHolds, DeriveExact, PTL

-----------------------------------------------------------------------------
(* Records in use.                                                         *)

Origins ==
    {o \in [table : Tables, field : SealedFields("record") \cup SealedFields("other"),
            id : Ids, org : Orgs, value : Values] : o.field \in SealedFields(o.table)}

(* What a cell may hold: nothing, or bytes that were sealed somewhere.     *)
CellsSealed == {SealIn(o.table, o.field, o.id, o.org, o.value) : o \in Origins}
Cell == CellsSealed \cup {Null}

IndexedOf(t) == {f \in SealedFields(t) : t = "record" /\ Indexed(f)}

RowsOf(t) ==
    [is : {"row"}, id : Ids, org : Orgs, cells : [SealedFields(t) -> Cell],
     indexes : [IndexedOf(t) -> Values \cup {Null}]]

(* A row as it was saved under its ID: each cell was sealed in its place,  *)
(* and its index column is that of its value.                              *)
SavedRight(k, row) ==
    /\ row \in RowsOf("record")
    /\ row.id = k
    /\ \A f \in SealedFields("record") : row.cells[f] # Null =>
        LET origin == row.cells[f].origin
        IN  /\ origin.table = "record" /\ origin.field = f
            /\ origin.id = k /\ origin.org = row.org
            /\ f \in IndexedOf("record") => row.indexes[f] = origin.value

RowsRight ==
    /\ store = [t \in Tables |-> [k \in Ids |-> store[t][k]]]
    /\ \A t \in Tables, k \in Ids :
        store[t][k] # NoRow => InUse /\ store[t][k] \in RowsOf(t)

SavesRight ==
    /\ saved = [k \in Ids |-> saved[k]]
    /\ \A k \in Ids : saved[k] # NoRow => InUse /\ SavedRight(k, saved[k])

RecordsInv ==
    /\ DeriveInv
    /\ InUse => IsExpanded /\ schema \in Schemas
    /\ saves \in 0..MaxSaves /\ mixups \in 0..MaxMixups
    /\ RowsRight
    /\ SavesRight

(* A step that leaves the record and its schema alone leaves what its rows *)
(* may be.                                                                 *)
LEMMA SameTerms ==
    ASSUME UNCHANGED <<recordVars, schema>>
    PROVE  /\ \A t : SealedFields(t)' = SealedFields(t) /\ IndexedOf(t)' = IndexedOf(t)
           /\ \A t : RowsOf(t)' = RowsOf(t)
           /\ \A k, row : SavedRight(k, row)' <=> SavedRight(k, row)
           /\ Cell' = Cell
           /\ InUse' <=> InUse
<1>0. derived' = derived /\ schema' = schema /\ Columns' = Columns
  BY DEF recordVars, Columns
<1>1. \A t : SealedFields(t)' = SealedFields(t) /\ IndexedOf(t)' = IndexedOf(t)
  BY <1>0 DEF SealedFields, IndexedOf, Indexed
<1>2. \A t, f : SealOf(t, f)' = SealOf(t, f)
  BY <1>0 DEF SealOf, Column
<1>3. \A t, f, id, org, value : SealIn(t, f, id, org, value)' = SealIn(t, f, id, org, value)
  BY <1>0, <1>2 DEF SealIn, KeyOf, Context
<1>4. Origins' = Origins
  BY <1>1 DEF Origins
<1>5. CellsSealed' = CellsSealed /\ Cell' = Cell
  BY <1>3, <1>4 DEF CellsSealed, Cell
<1>6. \A t : RowsOf(t)' = RowsOf(t)
  BY <1>1, <1>5 DEF RowsOf
<1>7. \A k, row : SavedRight(k, row)' <=> SavedRight(k, row)
  BY <1>1, <1>6 DEF SavedRight
<1> QED
  BY <1>0, <1>1, <1>5, <1>6, <1>7 DEF InUse

(* What was sealed is known by its origin.                                 *)
LEMMA SealedCell ==
    ASSUME NEW c \in CellsSealed
    PROVE  /\ c.origin \in Origins /\ c # Null
           /\ c.key = KeyOf(c.origin.org)
           /\ c.context = Context(SealOf(c.origin.table, c.origin.field), c.origin.id)
<1>1. PICK o \in Origins : c = SealIn(o.table, o.field, o.id, o.org, o.value)
  BY DEF CellsSealed
<1>2. o = [table |-> o.table, field |-> o.field, id |-> o.id, org |-> o.org, value |-> o.value]
  BY DEF Origins
<1>3. /\ c.is = "sealed" /\ c.key = KeyOf(o.org)
      /\ c.context = Context(SealOf(o.table, o.field), o.id)
      /\ c.origin = o
  BY <1>1, <1>2 DEF SealIn
<1>4. Null.is = "null"
  BY DEF Null
<1> QED
  BY <1>3, <1>4

LEMMA SealedHere ==
    ASSUME NEW t \in Tables, NEW f \in SealedFields(t), NEW id \in Ids, NEW org \in Orgs,
           NEW value \in Values
    PROVE  /\ SealIn(t, f, id, org, value) \in CellsSealed
           /\ SealIn(t, f, id, org, value).origin =
                [table |-> t, field |-> f, id |-> id, org |-> org, value |-> value]
<1> DEFINE o == [table |-> t, field |-> f, id |-> id, org |-> org, value |-> value]
<1>1. t = "record" \/ t = "other"
  BY DEF Tables
<1>2. o \in Origins
  BY <1>1 DEF Origins
<1>3. o.table = t /\ o.field = f /\ o.id = id /\ o.org = org /\ o.value = value
  OBVIOUS
<1>4. SealIn(t, f, id, org, value).origin = o
  BY DEF SealIn
<1> HIDE DEF o
<1>5. SealIn(t, f, id, org, value) \in CellsSealed
  BY <1>2, <1>3 DEF CellsSealed
<1> QED
  BY <1>4, <1>5 DEF o

(* A record that is sealed, and every cell of it.                          *)
LEMMA SealedRow ==
    ASSUME NEW t \in Tables, NEW id \in Ids, NEW org \in Orgs, NEW value \in Values,
           NEW present \in Present(t)
    PROVE  /\ SealRecord(t, id, org, present, value) \in RowsOf(t)
           /\ t = "record" => SavedRight(id, SealRecord(t, id, org, present, value))
<1> DEFINE cells == [f \in SealedFields(t) |->
                        IF f \in present THEN SealIn(t, f, id, org, value) ELSE Null]
           columns == [f \in IndexedOf(t) |-> IF f \in present THEN value ELSE Null]
<1>1. SealRecord(t, id, org, present, value) =
        [is |-> "row", id |-> id, org |-> org, cells |-> cells, indexes |-> columns]
  BY DEF SealRecord, IndexedOf
<1>2. cells \in [SealedFields(t) -> Cell]
  BY SealedHere DEF Cell
<1>3. columns \in [IndexedOf(t) -> Values \cup {Null}]
  OBVIOUS
<1>4. \A f \in SealedFields(t) : cells[f] # Null =>
        /\ f \in present
        /\ cells[f].origin = [table |-> t, field |-> f, id |-> id, org |-> org, value |-> value]
  BY SealedHere
<1>5. \A f \in IndexedOf(t) : f \in present => columns[f] = value
  OBVIOUS
<1> HIDE DEF cells, columns
<1>6. SealRecord(t, id, org, present, value) \in RowsOf(t)
  BY <1>1, <1>2, <1>3 DEF RowsOf
<1>7. ASSUME t = "record" PROVE SavedRight(id, SealRecord(t, id, org, present, value))
  <2> DEFINE row == SealRecord(t, id, org, present, value)
  <2>1. row.id = id /\ row.org = org /\ row.cells = cells /\ row.indexes = columns
    BY <1>1
  <2>2. row \in RowsOf("record")
    BY <1>6, <1>7
  <2> HIDE DEF row
  <2>3. ASSUME NEW f \in SealedFields("record"), row.cells[f] # Null
        PROVE  /\ row.cells[f].origin.table = "record" /\ row.cells[f].origin.field = f
               /\ row.cells[f].origin.id = id /\ row.cells[f].origin.org = row.org
               /\ f \in IndexedOf("record") => row.indexes[f] = row.cells[f].origin.value
    <3>1. row.cells[f].origin = [table |-> t, field |-> f, id |-> id, org |-> org, value |-> value]
      BY <1>4, <1>7, <2>1, <2>3
    <3>2. f \in IndexedOf("record") => row.indexes[f] = value
      BY <1>4, <1>5, <1>7, <2>1, <2>3
    <3> QED
      BY <1>7, <2>1, <3>1, <3>2
  <2>4. SavedRight(id, row)
    BY <2>1, <2>2, <2>3 DEF SavedRight
  <2> QED
    BY <2>4 DEF row
<1> QED
  BY <1>6, <1>7

(* A row with another cell, or another organization, is a row.             *)
LEMMA RowEdited ==
    ASSUME NEW t, NEW row \in RowsOf(t)
    PROVE  /\ \A f \in SealedFields(t), c \in Cell : [row EXCEPT !.cells[f] = c] \in RowsOf(t)
           /\ \A org \in Orgs : [row EXCEPT !.org = org] \in RowsOf(t)
<1>1. ASSUME NEW f \in SealedFields(t), NEW c \in Cell
      PROVE  [row EXCEPT !.cells[f] = c] \in RowsOf(t)
  <2> DEFINE cells == [row.cells EXCEPT ![f] = c]
  <2>1. cells \in [SealedFields(t) -> Cell]
    BY DEF RowsOf
  <2>2. [row EXCEPT !.cells[f] = c] = [row EXCEPT !.cells = cells]
    BY DEF RowsOf
  <2> HIDE DEF cells
  <2> QED
    BY <2>1, <2>2 DEF RowsOf
<1>2. \A org \in Orgs : [row EXCEPT !.org = org] \in RowsOf(t)
  BY DEF RowsOf
<1> QED
  BY <1>1, <1>2

(* Whatever row a store returns in a place, rows are of their tables.      *)
LEMMA RowReturned ==
    ASSUME RowsRight, InUse, UNCHANGED <<recordVars, schema>>,
           NEW p, p[1] \in Tables, p[2] \in Ids, NEW row \in RowsOf(p[1]), ReturnAt(p, row)
    PROVE  RowsRight'
<1> DEFINE t == p[1]
           k == p[2]
<1>1. /\ store' = [store EXCEPT ![t][k] = row] /\ t \in Tables /\ k \in Ids
      /\ row \in RowsOf(t)
  BY DEF ReturnAt
<1>2. store = [u \in Tables |-> [j \in Ids |-> store[u][j]]]
  BY DEF RowsRight
<1> HIDE DEF t, k
<1>3. /\ store' = [u \in Tables |-> [j \in Ids |-> store'[u][j]]]
      /\ \A u \in Tables, j \in Ids :
            store'[u][j] = IF u = t /\ j = k THEN row ELSE store[u][j]
  <2> DEFINE rows == [store[t] EXCEPT ![k] = row]
  <2>1. /\ rows = [j \in Ids |-> rows[j]]
        /\ \A j \in Ids : rows[j] = IF j = k THEN row ELSE store[t][j]
    BY <1>1, <1>2
  <2>2. store' = [store EXCEPT ![t] = rows]
    BY <1>1, <1>2
  <2> HIDE DEF rows
  <2>3. \A u \in Tables : store'[u] = IF u = t THEN rows ELSE store[u]
    BY <1>1, <1>2, <2>2
  <2>4. store' = [u \in Tables |-> store'[u]]
    BY <1>2, <2>2
  <2>5. \A u \in Tables : store[u] = [j \in Ids |-> store[u][j]]
    BY <1>2
  <2>6. \A u \in Tables : store'[u] = [j \in Ids |-> store'[u][j]]
    BY <2>1, <2>3, <2>5
  <2> QED
    BY <1>1, <2>1, <2>3, <2>4, <2>6
<1>4. InUse' /\ \A u : RowsOf(u)' = RowsOf(u)
  BY SameTerms
<1>5. \A u \in Tables, j \in Ids : store'[u][j] # NoRow => InUse' /\ store'[u][j] \in RowsOf(u)'
  BY <1>1, <1>3, <1>4 DEF RowsRight
<1> QED
  BY <1>3, <1>5 DEF RowsRight

LEMMA SavesStand ==
    ASSUME SavesRight, UNCHANGED <<recordVars, schema, saved>>
    PROVE  SavesRight'
<1>1. /\ InUse' <=> InUse
      /\ \A t : RowsOf(t)' = RowsOf(t)
      /\ \A t : SealedFields(t)' = SealedFields(t) /\ IndexedOf(t)' = IndexedOf(t)
  BY SameTerms
<1> QED
  BY <1>1 DEF SavesRight, SavedRight

LEMMA MixUpKeepsRows == RecordsInv /\ MixUp => RowsRight'
<1> SUFFICES ASSUME RecordsInv, MixUp PROVE RowsRight'
  OBVIOUS
<1>1. RowsRight /\ InUse /\ UNCHANGED <<recordVars, schema>>
  BY DEF RecordsInv, MixUp
<1>2. ASSUME NEW p \in Rows
      PROVE  /\ p[1] \in Tables /\ p[2] \in Ids /\ RowAt(p) \in RowsOf(p[1])
  BY <1>1 DEF Rows, RowAt, RowsRight
<1>3. ASSUME NEW c \in Cells
      PROVE  /\ c[1] \in Tables /\ c[2] \in Ids /\ RowAt(c) \in RowsOf(c[1])
             /\ c[3] \in SealedFields(c[1])
  <2>1. PICK p \in Rows : \E f \in SealedFields(p[1]) : c = <<p[1], p[2], f>>
    BY DEF Cells
  <2>2. c[1] = p[1] /\ c[2] = p[2] /\ c[3] \in SealedFields(p[1])
    BY <2>1
  <2> QED
    BY <1>2, <2>1, <2>2 DEF RowAt
<1>4. CASE CopyCell
  <2>1. PICK from, to \in Cells :
            ReturnAt(to, [RowAt(to) EXCEPT !.cells[to[3]] = RowAt(from).cells[from[3]]])
    BY <1>4 DEF CopyCell
  <2>2. RowAt(from).cells[from[3]] \in Cell
    <3>1. RowAt(from).cells \in [SealedFields(from[1]) -> Cell]
      BY <1>3 DEF RowsOf
    <3> QED
      BY <1>3, <3>1
  <2> DEFINE row == [RowAt(to) EXCEPT !.cells[to[3]] = RowAt(from).cells[from[3]]]
  <2>3. row \in RowsOf(to[1]) /\ ReturnAt(to, row)
    BY <1>3, <2>1, <2>2, RowEdited
  <2> HIDE DEF row
  <2> QED
    BY <1>1, <1>3, <2>3, RowReturned
<1>5. CASE ReplaceRow
  <2>1. PICK from, to \in Rows : from[1] = to[1] /\ ReturnAt(to, RowAt(from))
    BY <1>5 DEF ReplaceRow
  <2> DEFINE row == RowAt(from)
  <2>2. row \in RowsOf(to[1]) /\ ReturnAt(to, row)
    BY <1>2, <2>1
  <2> HIDE DEF row
  <2> QED
    BY <1>1, <1>2, <2>2, RowReturned
<1>6. CASE EditOrg
  <2>1. PICK p \in Rows, org \in Orgs : ReturnAt(p, [RowAt(p) EXCEPT !.org = org])
    BY <1>6 DEF EditOrg
  <2> DEFINE row == [RowAt(p) EXCEPT !.org = org]
  <2>2. row \in RowsOf(p[1]) /\ ReturnAt(p, row)
    BY <1>2, <2>1, RowEdited
  <2> HIDE DEF row
  <2> QED
    BY <1>1, <1>2, <2>2, RowReturned
<1>7. CASE Blank
  <2>1. PICK c \in Cells : ReturnAt(c, [RowAt(c) EXCEPT !.cells[c[3]] = Null])
    BY <1>7 DEF Blank
  <2> DEFINE row == [RowAt(c) EXCEPT !.cells[c[3]] = Null]
  <2>2. row \in RowsOf(c[1]) /\ ReturnAt(c, row)
    BY <1>3, <2>1, RowEdited DEF Cell
  <2> HIDE DEF row
  <2> QED
    BY <1>1, <1>3, <2>2, RowReturned
<1> QED
  BY <1>4, <1>5, <1>6, <1>7 DEF MixUp

LEMMA SaveKeepsRows == RecordsInv /\ Save => RowsRight' /\ SavesRight'
<1> SUFFICES ASSUME RecordsInv, Save PROVE RowsRight' /\ SavesRight'
  OBVIOUS
<1>1. RowsRight /\ SavesRight /\ InUse /\ UNCHANGED <<recordVars, schema>>
  BY DEF RecordsInv, Save
<1>2. PICK t \in Tables, id \in Ids, org \in Orgs, value \in Values, indexKeys \in BOOLEAN :
        \E present \in Present(t) :
            LET row == SealRecord(t, id, org, present, value)
                ok == indexKeys \/ ~NeedsIndexKeys(t, present)
            IN  /\ store' = IF ok THEN [store EXCEPT ![t][id] = row] ELSE store
                /\ saved' = IF ok /\ t = "record" THEN [saved EXCEPT ![id] = row] ELSE saved
  BY DEF Save
<1>3. PICK present \in Present(t) :
            LET row == SealRecord(t, id, org, present, value)
                ok == indexKeys \/ ~NeedsIndexKeys(t, present)
            IN  /\ store' = IF ok THEN [store EXCEPT ![t][id] = row] ELSE store
                /\ saved' = IF ok /\ t = "record" THEN [saved EXCEPT ![id] = row] ELSE saved
  BY <1>2
<1> DEFINE row == SealRecord(t, id, org, present, value)
           ok == indexKeys \/ ~NeedsIndexKeys(t, present)
<1>4. /\ store' = IF ok THEN [store EXCEPT ![t][id] = row] ELSE store
      /\ saved' = IF ok /\ t = "record" THEN [saved EXCEPT ![id] = row] ELSE saved
  BY <1>3
<1>5. row \in RowsOf(t) /\ (t = "record" => SavedRight(id, row))
  BY SealedRow
<1> HIDE DEF row, ok
<1>6. /\ InUse' <=> InUse
      /\ \A u : RowsOf(u)' = RowsOf(u)
      /\ \A u : SealedFields(u)' = SealedFields(u) /\ IndexedOf(u)' = IndexedOf(u)
  BY <1>1, SameTerms
<1>7. RowsRight'
  <2>1. CASE ok
    <3> DEFINE p == <<t, id>>
    <3>1. p[1] = t /\ p[2] = id /\ store' = [store EXCEPT ![p[1]][p[2]] = row]
      BY <1>4, <2>1
    <3> HIDE DEF p
    <3>2. ReturnAt(p, row)
      BY <3>1 DEF ReturnAt
    <3> QED
      BY <1>1, <1>5, <3>1, <3>2, RowReturned
  <2>2. CASE ~ok
    <3>1. store' = store
      BY <1>4, <2>2
    <3> QED
      BY <1>1, <1>6, <3>1 DEF RowsRight
  <2> QED
    BY <2>1, <2>2
<1>8. SavesRight'
  <2>1. CASE ok /\ t = "record"
    <3>1. saved' = [saved EXCEPT ![id] = row]
      BY <1>4, <2>1
    <3>2. /\ saved' = [k \in Ids |-> saved'[k]]
          /\ \A k \in Ids : saved'[k] = IF k = id THEN row ELSE saved[k]
      BY <1>1, <3>1 DEF SavesRight
    <3>3. \A k \in Ids : saved'[k] # NoRow => SavedRight(k, saved'[k])
      BY <1>1, <1>5, <2>1, <3>2 DEF SavesRight
    <3>4. \A k \in Ids : saved'[k] # NoRow => (SavedRight(k, saved[k]))'
      BY <1>6, <3>3 DEF SavedRight
    <3> QED
      BY <1>1, <1>6, <3>2, <3>4 DEF SavesRight
  <2>2. CASE ~(ok /\ t = "record")
    <3>1. saved' = saved
      BY <1>4, <2>2
    <3> QED
      BY <1>1, <3>1, SavesStand
  <2> QED
    BY <2>1, <2>2
<1> QED
  BY <1>7, <1>8

LEMMA RecordsStart == RecordsInit => RecordsInv
<1> SUFFICES ASSUME RecordsInit PROVE RecordsInv
  OBVIOUS
<1> USE DEF RecordsInit
<1>1. DeriveInv
  BY DeriveStarts
<1>2. ~InUse
  BY DEF InUse
<1>3. saves \in 0..MaxSaves /\ mixups \in 0..MaxMixups
  BY RecordsAssumption
<1>4. RowsRight /\ SavesRight
  BY DEF RowsRight, SavesRight
<1> QED
  BY <1>1, <1>2, <1>3, <1>4 DEF RecordsInv

LEMMA RecordsSteps == RecordsInv /\ [RecordsNext]_recordsVars => RecordsInv'
<1> SUFFICES ASSUME RecordsInv, [RecordsNext]_recordsVars PROVE RecordsInv'
  OBVIOUS
<1>1. DeriveInv'
  <2>1. DeriveInv /\ [DeriveNext]_recordVars
    BY DEF RecordsInv, RecordsNext, Derive, Adopt, Save, MixUp, recordsVars
  <2> QED
    BY <2>1, DeriveSteps
<1>2. CASE Derive
  <2>1. ~InUse
    <3>1. derived.is = "parsing"
      BY <1>2 DEF Derive, DeriveNext, ReadField, Expand, RecordParsing
    <3> QED
      BY <3>1 DEF RecordsInv, IsExpanded
  <2>2. UNCHANGED <<schema, store, saved, saves, mixups>>
    BY <1>2 DEF Derive, tableVars
  <2>3. ~InUse'
    BY <2>1, <2>2 DEF InUse
  <2>4. RowsRight' /\ SavesRight'
    BY <2>1, <2>2, <2>3 DEF RecordsInv, RowsRight, SavesRight
  <2> QED
    BY <1>1, <2>2, <2>3, <2>4 DEF RecordsInv
<1>3. CASE Adopt
  <2>1. ~InUse /\ IsExpanded /\ schema' \in Schemas
    BY <1>3 DEF Adopt, InUse
  <2>2. UNCHANGED <<recordVars, store, saved, saves, mixups>>
    BY <1>3 DEF Adopt, tableVars
  <2>3. IsExpanded' /\ schema' \in Schemas'
    BY <2>1, <2>2 DEF IsExpanded, recordVars, Schemas
  <2>4. /\ \A t \in Tables, k \in Ids : store'[t][k] = NoRow
        /\ \A k \in Ids : saved'[k] = NoRow
    BY <2>1, <2>2 DEF RecordsInv, RowsRight, SavesRight
  <2>5. RowsRight' /\ SavesRight'
    BY <2>2, <2>4 DEF RecordsInv, RowsRight, SavesRight
  <2> QED
    BY <1>1, <2>2, <2>3, <2>5 DEF RecordsInv
<1>4. CASE Save
  <2>1. UNCHANGED <<recordVars, schema, mixups>> /\ saves < MaxSaves /\ saves' = saves + 1
    BY <1>4 DEF Save
  <2>2. saves' \in 0..MaxSaves
    BY <2>1, RecordsAssumption DEF RecordsInv
  <2>3. InUse' => IsExpanded' /\ schema' \in Schemas'
    BY <2>1, SameTerms DEF RecordsInv, IsExpanded, recordVars, Schemas, InUse
  <2> QED
    BY <1>1, <1>4, <2>1, <2>2, <2>3, SaveKeepsRows DEF RecordsInv
<1>5. CASE MixUp
  <2>1. UNCHANGED <<recordVars, schema, saved, saves>>
        /\ mixups < MaxMixups /\ mixups' = mixups + 1
    BY <1>5 DEF MixUp
  <2>2. mixups' \in 0..MaxMixups
    BY <2>1, RecordsAssumption DEF RecordsInv
  <2>3. InUse' => IsExpanded' /\ schema' \in Schemas'
    BY <2>1 DEF RecordsInv, IsExpanded, recordVars, Schemas, InUse
  <2>4. SavesRight'
    BY <2>1, SavesStand DEF RecordsInv
  <2> QED
    BY <1>1, <1>5, <2>1, <2>2, <2>3, <2>4, MixUpKeepsRows DEF RecordsInv
<1>6. CASE UNCHANGED recordsVars
  <2>1. UNCHANGED <<recordVars, schema, store, saved, saves, mixups>>
    BY <1>6 DEF recordsVars, tableVars
  <2>2. InUse' => IsExpanded' /\ schema' \in Schemas'
    BY <2>1 DEF RecordsInv, IsExpanded, recordVars, Schemas, InUse
  <2>3. SavesRight'
    BY <2>1, SavesStand DEF RecordsInv
  <2>4. RowsRight'
    BY <2>1, SameTerms DEF RecordsInv, RowsRight
  <2> QED
    BY <1>1, <2>1, <2>2, <2>3, <2>4 DEF RecordsInv
<1> QED
  BY <1>2, <1>3, <1>4, <1>5, <1>6 DEF RecordsNext

(* A sealed field of the record's table is a sealed field of the record,   *)
(* under its own seal ID: no other column is taken for its.                *)
LEMMA SealedFieldIs ==
    ASSUME DeriveInv, IsExpanded, NEW f \in SealedFields("record")
    PROVE  \E i \in DOMAIN derived.seals :
                /\ i \in DOMAIN fields /\ fields[i].name = f
                /\ SealOf("record", f) = derived.seals[i]
<1>1. /\ FieldsTyped /\ FieldsRight /\ LegalTogether
      /\ derived.stored = StoredStruct /\ derived.seals = Seals
  BY CheckExact DEF DeriveInv, ExpandedRight
<1> DEFINE D == DOMAIN fields
<1>2. /\ D = DOMAIN fieldsRead
      /\ \A i \in D : fields[i].name \in FieldNames
      /\ \A i, j \in D : fields[i].name = fields[j].name => i = j
  BY <1>1, FieldFacts
<1>3. ASSUME NEW c \in Columns
      PROVE  \E i \in D :
                \/ c = OwnColumn(fields[i])
                \/ /\ c = IndexColumn(fields[i])
                   /\ fields[i].indexes # <<>> /\ fields[i].indexes[1] # 0
  <2>1. DOMAIN derived.stored = D /\ \A i \in D : derived.stored[i] = ColumnsOf(fields[i])
    BY <1>1 DEF StoredStruct
  <2>2. PICK i \in D : c \in ToSet(ColumnsOf(fields[i]))
    BY <2>1 DEF Columns
  <2>3. ToSet(ColumnsOf(fields[i])) =
            IF fields[i].indexes = <<>> THEN {OwnColumn(fields[i])}
            ELSE {OwnColumn(fields[i]), IndexColumn(fields[i])}
    BY ColumnsAre
  <2>4. fields[i].indexes # <<>> => fields[i].indexes[1] # 0
    BY <1>1, <1>2 DEF FieldsRight, FieldRight
  <2> QED
    BY <2>2, <2>3, <2>4
<1>4. PICK c \in Columns : c.name = f /\ c.index = 0 /\ c.seal # 0
  BY DEF SealedFields
<1>5. PICK i \in D : c = OwnColumn(fields[i])
  <2>1. PICK i \in D :
            \/ c = OwnColumn(fields[i])
            \/ /\ c = IndexColumn(fields[i])
               /\ fields[i].indexes # <<>> /\ fields[i].indexes[1] # 0
    BY <1>3
  <2>2. IndexColumn(fields[i]).index = fields[i].indexes[1]
    BY ColumnsAre
  <2> QED
    BY <1>4, <2>1, <2>2
<1>6. fields[i].name = f /\ fields[i].seal # 0
  BY <1>4, <1>5, ColumnsAre
<1>7. i \in DOMAIN derived.seals /\ derived.seals[i] = fields[i].seal
  <2>1. fields[i].role = "seal"
    BY <1>1, <1>2, <1>6 DEF FieldsRight, FieldRight
  <2> QED
    BY <1>1, <2>1 DEF Seals, WithRole
<1>8. ASSUME NEW d \in Columns, d.name = f PROVE d = c
  <2>1. PICK j \in D :
            \/ d = OwnColumn(fields[j])
            \/ d = IndexColumn(fields[j]) /\ fields[j].indexes # <<>>
    BY <1>3
  <2>2. CASE d = OwnColumn(fields[j])
    <3>1. fields[j].name = f
      BY <1>8, <2>2, ColumnsAre
    <3> QED
      BY <1>2, <1>5, <1>6, <2>2, <3>1
  <2>3. CASE d = IndexColumn(fields[j]) /\ fields[j].indexes # <<>>
    <3>1. ColumnOf[fields[j].name] = fields[i].name
      BY <1>6, <1>8, <2>3, ColumnsAre
    <3>2. i # j
      BY <1>2, <3>1, DeriveRecordAssumption
    <3> QED
      BY <1>1, <2>3, <3>1, <3>2 DEF LegalTogether
  <2> QED
    BY <2>1, <2>2, <2>3
<1>9. Column(f) = c
  <2>1. Column(f) \in Columns /\ Column(f).name = f
    BY <1>4 DEF Column
  <2> QED
    BY <1>8, <2>1
<1>10. SealOf("record", f) = fields[i].seal
  <2>1. OwnColumn(fields[i]).seal = fields[i].seal
    BY ColumnsAre
  <2>2. SealOf("record", f) = Column(f).seal
    BY DEF SealOf
  <2> QED
    BY <1>5, <1>9, <2>1, <2>2
<1> QED
  BY <1>5, <1>6, <1>7, <1>10

(* In a clean schema a seal ID belongs to one field of one table.          *)
LEMMA SealsApart ==
    ASSUME DeriveInv, IsExpanded, ManifestClean,
           NEW t \in Tables, NEW u \in Tables,
           NEW f \in SealedFields(t), NEW g \in SealedFields(u),
           SealOf(t, f) = SealOf(u, g)
    PROVE  t = u /\ f = g
<1>1. \A v \in Tables : v = "record" \/ v = "other"
  BY DEF Tables
<1>2. \A h \in SealedFields("record") : \E i \in DOMAIN derived.seals :
        /\ i \in DOMAIN fields /\ fields[i].name = h
        /\ SealOf("record", h) = derived.seals[i]
  BY SealedFieldIs
<1>3. \A h : SealOf("other", h) = schema.other
  BY DEF SealOf
<1>4. SealedFields("other") = {"value"}
  BY DEF SealedFields
<1>5. CASE t = "record" /\ u = "record"
  <2>1. PICK i \in DOMAIN derived.seals :
            fields[i].name = f /\ SealOf("record", f) = derived.seals[i]
    BY <1>2, <1>5
  <2>2. PICK j \in DOMAIN derived.seals :
            fields[j].name = g /\ SealOf("record", g) = derived.seals[j]
    BY <1>2, <1>5
  <2>3. i = j
    BY <1>5, <2>1, <2>2 DEF ManifestClean, IsInjective
  <2> QED
    BY <1>5, <2>1, <2>2, <2>3
<1>6. CASE t = "record" /\ u = "other"
  BY <1>2, <1>3, <1>6 DEF ManifestClean
<1>7. CASE t = "other" /\ u = "record"
  BY <1>2, <1>3, <1>7 DEF ManifestClean
<1>8. CASE t = "other" /\ u = "other"
  BY <1>4, <1>8
<1> QED
  BY <1>1, <1>5, <1>6, <1>7, <1>8

(* What opens in a cell was sealed in its place.                           *)
LEMMA OpensWhereSealed ==
    ASSUME DeriveInv, IsExpanded, ManifestClean, schema \in Schemas,
           NEW t \in Tables, NEW f \in SealedFields(t), NEW id, NEW org, NEW c \in CellsSealed,
           OpenIn(c, SealOf(t, f), id, org) = "Ok"
    PROVE  /\ c.origin.table = t /\ c.origin.field = f /\ c.origin.id = id
           /\ schema.perOrg => c.origin.org = org
<1> DEFINE o == c.origin
<1>1. /\ o \in Origins /\ c.key = KeyOf(o.org)
      /\ c.context = Context(SealOf(o.table, o.field), o.id)
  BY SealedCell
<1> HIDE DEF o
<1>2. o.table \in Tables /\ o.field \in SealedFields(o.table)
  BY <1>1 DEF Origins
<1>3. c.key = KeyOf(org) /\ c.context = Context(SealOf(t, f), id)
  BY DEF OpenIn
<1>4. SealOf(o.table, o.field) = SealOf(t, f) /\ o.id = id
  BY <1>1, <1>3 DEF Context
<1>5. o.table = t /\ o.field = f
  BY <1>2, <1>4, SealsApart
<1>6. schema.perOrg => o.org = org
  BY <1>1, <1>3 DEF KeyOf
<1> QED
  BY <1>4, <1>5, <1>6 DEF o

LEMMA RowsTyped == RecordsInv => RecordsTypeOK
<1> SUFFICES ASSUME RecordsInv PROVE RecordsTypeOK
  OBVIOUS
<1>1. ASSUME NEW p \in Rows
      PROVE  /\ InUse /\ p[1] \in Tables /\ p[2] \in Ids
             /\ store[p[1]][p[2]] \in RowsOf(p[1])
  BY DEF RecordsInv, Rows, RowsRight
<1>2. ASSUME NEW p \in Rows
      PROVE  LET row == store[p[1]][p[2]]
             IN  /\ row.id \in Ids /\ row.org \in Orgs
                 /\ DOMAIN row.cells = SealedFields(p[1])
                 /\ DOMAIN row.indexes = {f \in SealedFields(p[1]) : p[1] = "record" /\ Indexed(f)}
  <2> DEFINE row == store[p[1]][p[2]]
             t == p[1]
  <2>1. row \in RowsOf(t)
    BY <1>1
  <2> HIDE DEF row, t
  <2>2. /\ row.id \in Ids /\ row.org \in Orgs
        /\ DOMAIN row.cells = SealedFields(t) /\ DOMAIN row.indexes = IndexedOf(t)
    BY <2>1 DEF RowsOf
  <2> QED
    BY <2>2 DEF row, t, IndexedOf
<1> QED
  BY <1>1, <1>2 DEF RecordsInv, RecordsTypeOK

(* The values of a row that opens were sealed in their places.             *)
LEMMA RowOpensInPlace ==
    ASSUME RecordsInv, InUse, ManifestClean, NEW t \in Tables, NEW row \in RowsOf(t),
           OpenRecord(t, row) = "Ok", NEW f \in SealedFields(t), HasValue(row, f)
    PROVE  /\ row.cells[f].origin.table = t /\ row.cells[f].origin.field = f
           /\ row.cells[f].origin.id = row.id
           /\ schema.perOrg => row.cells[f].origin.org = row.org
<1> DEFINE c == row.cells[f]
           id == row.id
           org == row.org
<1>1. c \in CellsSealed
  BY DEF RowsOf, Cell, HasValue
<1>2. OpenIn(c, SealOf(t, f), id, org) = "Ok"
  BY DEF OpenRecord, HasValue
<1>3. DeriveInv /\ IsExpanded /\ schema \in Schemas
  BY DEF RecordsInv
<1> HIDE DEF c, id, org
<1>4. /\ c.origin.table = t /\ c.origin.field = f /\ c.origin.id = id
      /\ schema.perOrg => c.origin.org = org
  BY <1>1, <1>2, <1>3, OpensWhereSealed
<1> QED
  BY <1>4 DEF c, id, org

LEMMA RowsReadInPlace == RecordsInv => ReadsInPlace
<1> SUFFICES ASSUME RecordsInv PROVE ReadsInPlace
  OBVIOUS
<1>1. ASSUME NEW p \in Rows
      PROVE  p[1] \in Tables /\ store[p[1]][p[2]] \in RowsOf(p[1])
  BY DEF RecordsInv, Rows, RowsRight
<1>2. OpensInPlace
  <2> SUFFICES ASSUME InUse, ManifestClean, NEW p \in Rows
               PROVE  LET row == store[p[1]][p[2]]
                      IN  OpenRecord(p[1], row) = "Ok" =>
                            \A f \in SealedFields(p[1]) :
                                HasValue(row, f) =>
                                    LET origin == row.cells[f].origin
                                    IN  /\ origin.table = p[1] /\ origin.field = f
                                        /\ origin.id = row.id
                                        /\ schema.perOrg => origin.org = row.org
    BY DEF OpensInPlace
  <2> DEFINE row == store[p[1]][p[2]]
             t == p[1]
  <2>1. t \in Tables /\ row \in RowsOf(t)
    BY <1>1
  <2> HIDE DEF row, t
  <2>2. OpenRecord(t, row) = "Ok" =>
            \A f \in SealedFields(t) : HasValue(row, f) =>
                /\ row.cells[f].origin.table = t /\ row.cells[f].origin.field = f
                /\ row.cells[f].origin.id = row.id
                /\ schema.perOrg => row.cells[f].origin.org = row.org
    BY <2>1, RowOpensInPlace
  <2> QED
    BY <2>2 DEF row, t
<1>3. AskedIsRead
  <2> SUFFICES ASSUME InUse, ManifestClean, NEW p \in Rows
               PROVE  LET row == store[p[1]][p[2]]
                      IN  OpenExpecting(p[1], row, p[2]) = "Ok" =>
                            \A f \in SealedFields(p[1]) :
                                HasValue(row, f) =>
                                    /\ row.cells[f].origin.table = p[1]
                                    /\ row.cells[f].origin.id = p[2]
    BY DEF AskedIsRead
  <2> DEFINE row == store[p[1]][p[2]]
             t == p[1]
             id == p[2]
  <2>1. t \in Tables /\ row \in RowsOf(t)
    BY <1>1
  <2> HIDE DEF row, t, id
  <2>2. OpenExpecting(t, row, id) = "Ok" => row.id = id /\ OpenRecord(t, row) = "Ok"
    BY DEF OpenExpecting
  <2>3. OpenExpecting(t, row, id) = "Ok" =>
            \A f \in SealedFields(t) : HasValue(row, f) =>
                row.cells[f].origin.table = t /\ row.cells[f].origin.id = id
    BY <2>1, <2>2, RowOpensInPlace
  <2> QED
    BY <2>3 DEF row, t, id
<1> QED
  BY <1>2, <1>3, RowsTyped DEF ReadsInPlace

(* A row as it was saved opens.                                            *)
LEMMA SavedOpens ==
    ASSUME RecordsInv, NEW k, NEW row, SavedRight(k, row)
    PROVE  OpenRecord("record", row) = "Ok"
<1> SUFFICES ASSUME NEW f \in SealedFields("record"), row.cells[f] # Null
             PROVE  OpenIn(row.cells[f], SealOf("record", f), row.id, row.org) = "Ok"
  BY DEF OpenRecord
<1> DEFINE c == row.cells[f]
           o == c.origin
<1>1. /\ row \in RowsOf("record") /\ row.id = k
      /\ o.table = "record" /\ o.field = f /\ o.id = row.id /\ o.org = row.org
  BY DEF SavedRight
<1>2. c \in CellsSealed
  BY <1>1 DEF RowsOf, Cell
<1> HIDE DEF c
<1>3. c.key = KeyOf(o.org) /\ c.context = Context(SealOf(o.table, o.field), o.id)
  BY <1>2, SealedCell
<1> HIDE DEF o
<1>4. c.key = KeyOf(row.org) /\ c.context = Context(SealOf("record", f), row.id)
  BY <1>1, <1>3
<1>5. OpenIn(c, SealOf("record", f), row.id, row.org) = "Ok"
  BY <1>4 DEF OpenIn
<1> QED
  BY <1>5 DEF c

LEMMA SavedIsFound == RecordsInv => IntactIsFound
<1> SUFFICES ASSUME RecordsInv, InUse, NEW k \in Ids,
                    store["record"][k] # NoRow, store["record"][k] = saved[k],
                    NEW f \in DOMAIN saved[k].indexes, HasValue(saved[k], f)
             PROVE  k \in Hits(f, saved[k].org, saved[k].cells[f].origin.value)
  BY DEF IntactIsFound
<1> DEFINE row == saved[k]
           query == row.cells[f].origin.value
<1>1. SavedRight(k, row) /\ store["record"][k] = row
  BY DEF RecordsInv, SavesRight
<1>2. f \in DOMAIN row.indexes /\ row.cells[f] # Null
  BY DEF HasValue
<1> SUFFICES k \in Hits(f, row.org, query)
  OBVIOUS
<1> HIDE DEF row
<1>3. f \in IndexedOf("record") /\ f \in SealedFields("record")
  <2>1. DOMAIN row.indexes = IndexedOf("record")
    BY <1>1 DEF SavedRight, RowsOf
  <2> QED
    BY <1>2, <2>1 DEF IndexedOf
<1>4. row.indexes[f] = query
  BY <1>1, <1>2, <1>3 DEF SavedRight
<1>5. OpenRecord("record", row) = "Ok"
  BY <1>1, SavedOpens
<1>6. k \in Candidates(f, row.org, query)
  BY <1>1, <1>4 DEF Candidates
<1> QED
  BY <1>1, <1>2, <1>5, <1>6 DEF Hits

LEMMA RecordsHold == RecordsSpec => []RecordsInv
BY RecordsStart, RecordsSteps, PTL DEF RecordsSpec

(* For a record of any shape in use, any number of rows, organizations and *)
(* steps of its store: values are read in the place they were sealed for,  *)
(* and in no other.                                                        *)
THEOREM RecordsReadInPlace == RecordsSpec => []ReadsInPlace
BY RecordsHold, RowsReadInPlace, PTL

(* A row that is as it was saved is found by each of its indexed values,   *)
(* whatever became of the rows beside it.                                  *)
THEOREM IntactRecordsAreFound == RecordsSpec => []IntactIsFound
BY RecordsHold, SavedIsFound, PTL

-----------------------------------------------------------------------------
(***************************************************************************)
(* The manifest.                                                           *)
(***************************************************************************)

(* Each vector has every marker of its calls, once.                        *)
ListsOnce(vector, markers) ==
    /\ vector \in Seq(markers)
    /\ ToSet(vector) = markers
    /\ \A i, j \in DOMAIN vector : vector[i] = vector[j] => i = j

MarkersOf(names) == {call.marker : call \in Made(names)}
StoredIn(vector) == {<<context.seal, context.kind>> : context \in ToSet(vector)}

ManifestInv ==
    /\ ListsOnce(seals, MarkersOf({"seal", "sealed"}))
    /\ ListsOnce(indexes, MarkersOf({"index"}))
    /\ ListsOnce(records, MarkersOf({"record"}))
    /\ contexts \in Seq(ToSet(contexts)) /\ StoredIn(contexts) = Stored
    /\ MarkersOf({"seal", "sealed"}) \subseteq SealMarkers
    /\ MarkersOf({"index"}) \subseteq IndexMarkers
    /\ MarkersOf({"record"}) \subseteq RecordMarkers

LEMMA PushNewLists ==
    ASSUME NEW v, NEW M, NEW e, ListsOnce(v, M)
    PROVE  ListsOnce(PushNew(v, e), M \cup {e})
<1>1. CASE Contains(v, e)
  <2>1. e \in M
    BY <1>1 DEF ListsOnce, Contains, ToSet
  <2>2. M \cup {e} = M
    BY <2>1
  <2> QED
    BY <1>1, <2>2 DEF PushNew
<1>2. CASE ~Contains(v, e)
  <2>1. v \in Seq(M) /\ ToSet(v) = M /\ v \in Seq(M \cup {e})
    BY DEF ListsOnce
  <2>2. PushNew(v, e) = Append(v, e)
    BY <1>2 DEF PushNew
  <2>3. Append(v, e) \in Seq(M \cup {e})
    BY <2>1
  <2>4. ToSet(Append(v, e)) = M \cup {e}
    <3>1. \A i \in DOMAIN v : v[i] \in M /\ i \in DOMAIN Append(v, e) /\ Append(v, e)[i] = v[i]
      BY <2>1
    <3>2. /\ Len(v) + 1 \in DOMAIN Append(v, e) /\ Append(v, e)[Len(v) + 1] = e
          /\ \A i \in DOMAIN Append(v, e) : i \in DOMAIN v \/ i = Len(v) + 1
      BY <2>1
    <3> QED
      BY <2>1, <3>1, <3>2 DEF ToSet
  <2>5. \A i, j \in DOMAIN Append(v, e) : Append(v, e)[i] = Append(v, e)[j] => i = j
    BY <1>2, <2>1 DEF ListsOnce, Contains
  <2> QED
    BY <2>2, <2>3, <2>4, <2>5 DEF ListsOnce
<1> QED
  BY <1>1, <1>2

LEMMA PushNewStored ==
    ASSUME NEW v, v \in Seq(ToSet(v)), NEW e
    PROVE  /\ PushNew(v, e) \in Seq(ToSet(PushNew(v, e)))
           /\ StoredIn(PushNew(v, e)) = StoredIn(v) \cup {<<e.seal, e.kind>>}
<1>1. CASE Contains(v, e)
  <2>1. e \in ToSet(v)
    BY <1>1 DEF Contains, ToSet
  <2> QED
    BY <1>1, <2>1 DEF PushNew, StoredIn
<1>2. CASE ~Contains(v, e)
  <2>2. PushNew(v, e) = Append(v, e)
    BY <1>2 DEF PushNew
  <2>4. ToSet(Append(v, e)) = ToSet(v) \cup {e}
    <3>1. \A i \in DOMAIN v : i \in DOMAIN Append(v, e) /\ Append(v, e)[i] = v[i]
      BY DEF ToSet
    <3>2. /\ Len(v) + 1 \in DOMAIN Append(v, e) /\ Append(v, e)[Len(v) + 1] = e
          /\ \A i \in DOMAIN Append(v, e) : i \in DOMAIN v \/ i = Len(v) + 1
      OBVIOUS
    <3> QED
      BY <3>1, <3>2 DEF ToSet
  <2>5. v \in Seq(ToSet(v) \cup {e})
    OBVIOUS
  <2>6. Append(v, e) \in Seq(ToSet(v) \cup {e})
    BY <2>5
  <2> QED
    BY <2>2, <2>4, <2>6 DEF StoredIn
<1> QED
  BY <1>1, <1>2

LEMMA ConcatStored ==
    ASSUME NEW v, v \in Seq(ToSet(v)), NEW w, w \in Seq(ToSet(w))
    PROVE  /\ v \o w \in Seq(ToSet(v \o w))
           /\ StoredIn(v \o w) = StoredIn(v) \cup StoredIn(w)
<1>1. /\ \A i \in DOMAIN v : i \in DOMAIN (v \o w) /\ (v \o w)[i] = v[i]
      /\ \A i \in DOMAIN w : Len(v) + i \in DOMAIN (v \o w) /\ (v \o w)[Len(v) + i] = w[i]
      /\ \A i \in DOMAIN (v \o w) :
            i \in DOMAIN v \/ \E j \in DOMAIN w : i = Len(v) + j
  <2>1. v \in Seq(ToSet(v) \cup ToSet(w)) /\ w \in Seq(ToSet(v) \cup ToSet(w))
    OBVIOUS
  <2> DEFINE u == v \o w
  <2>2. DOMAIN u = 1..(Len(v) + Len(w)) /\ Len(v) \in Nat /\ Len(w) \in Nat
    BY <2>1
  <2>3. \A i \in DOMAIN u : i \notin DOMAIN v => i - Len(v) \in DOMAIN w /\ i = Len(v) + (i - Len(v))
    BY <2>1, <2>2
  <2>4. \A i \in DOMAIN w : Len(v) + i \in DOMAIN u /\ u[Len(v) + i] = w[i]
    BY <2>1, <2>2
  <2>5. \A i \in DOMAIN v : i \in DOMAIN u /\ u[i] = v[i]
    BY <2>1, <2>2
  <2> QED
    BY <2>3, <2>4, <2>5
<1>2. ToSet(v \o w) = ToSet(v) \cup ToSet(w)
  <2> DEFINE u == v \o w
  <2>0. /\ \A i \in DOMAIN v : i \in DOMAIN u /\ u[i] = v[i]
        /\ \A i \in DOMAIN w : Len(v) + i \in DOMAIN u /\ u[Len(v) + i] = w[i]
        /\ \A i \in DOMAIN u : i \in DOMAIN v \/ \E j \in DOMAIN w : i = Len(v) + j
    BY <1>1
  <2> HIDE DEF u
  <2>1. ToSet(u) = ToSet(v) \cup ToSet(w)
    BY <2>0 DEF ToSet
  <2> QED
    BY <2>1 DEF u
<1>3. v \in Seq(ToSet(v) \cup ToSet(w)) /\ w \in Seq(ToSet(v) \cup ToSet(w))
  OBVIOUS
<1>4. v \o w \in Seq(ToSet(v) \cup ToSet(w))
  BY <1>3
<1> QED
  BY <1>2, <1>4 DEF StoredIn

RecordStored(R) == {<<FieldSeals[R][f], RecordKindOf[R]>> : f \in DOMAIN FieldSeals[R]}

(* What a call adds to the markers of its kind, and to no other.           *)
LEMMA MarkersAfterCall ==
    ASSUME NEW name, NEW marker, NEW kind, Call(name, marker, kind), NEW names
    PROVE  MarkersOf(names)' =
            IF name \in names THEN MarkersOf(names) \cup {marker} ELSE MarkersOf(names)
<1> DEFINE call == [name |-> name, marker |-> marker, kind |-> kind]
<1>1. calls' = calls \cup {call}
  BY DEF Call
<1>2. call.name = name /\ call.marker = marker
  OBVIOUS
<1> HIDE DEF call
<1>3. Made(names)' = IF name \in names THEN Made(names) \cup {call} ELSE Made(names)
  BY <1>1, <1>2 DEF Made
<1> QED
  BY <1>2, <1>3 DEF MarkersOf

LEMMA StoredAfterCall ==
    ASSUME NEW name, NEW marker, NEW kind, Call(name, marker, kind)
    PROVE  Stored' =
            Stored \cup (IF name = "sealed" THEN {<<SealIdOf[marker], kind>>} ELSE {})
                   \cup (IF name = "record" THEN RecordStored(marker) ELSE {})
<1> DEFINE call == [name |-> name, marker |-> marker, kind |-> kind]
<1>1. calls' = calls \cup {call}
  BY DEF Call
<1>2. call.name = name /\ call.marker = marker /\ call.kind = kind
  OBVIOUS
<1> HIDE DEF call
<1>3. \A n : Made({n})' = IF name = n THEN Made({n}) \cup {call} ELSE Made({n})
  BY <1>1, <1>2 DEF Made
<1>4. Stored = {<<SealIdOf[c.marker], c.kind>> : c \in Made({"sealed"})}
                 \cup UNION {RecordStored(c.marker) : c \in Made({"record"})}
  BY DEF Stored, RecordStored
<1>5. Stored' = {<<SealIdOf[c.marker], c.kind>> : c \in Made({"sealed"})'}
                 \cup UNION {RecordStored(c.marker) : c \in Made({"record"})'}
  BY DEF Stored, RecordStored
<1>6. Made({"sealed"})' = IF name = "sealed" THEN Made({"sealed"}) \cup {call} ELSE Made({"sealed"})
  BY <1>3
<1>7. Made({"record"})' = IF name = "record" THEN Made({"record"}) \cup {call} ELSE Made({"record"})
  BY <1>3
<1>8. CASE name = "sealed"
  <2>1. Made({"sealed"})' = Made({"sealed"}) \cup {call} /\ Made({"record"})' = Made({"record"})
    BY <1>6, <1>7, <1>8
  <2>2. {<<SealIdOf[c.marker], c.kind>> : c \in Made({"sealed"})'} =
            {<<SealIdOf[c.marker], c.kind>> : c \in Made({"sealed"})}
              \cup {<<SealIdOf[marker], kind>>}
    BY <2>1, <1>2
  <2> QED
    BY <2>1, <2>2, <1>4, <1>5, <1>8
<1>9. CASE name = "record"
  <2>1. Made({"record"})' = Made({"record"}) \cup {call} /\ Made({"sealed"})' = Made({"sealed"})
    BY <1>6, <1>7, <1>9
  <2>2. UNION {RecordStored(c.marker) : c \in Made({"record"})'} =
            (UNION {RecordStored(c.marker) : c \in Made({"record"})}) \cup RecordStored(marker)
    BY <2>1, <1>2
  <2> QED
    BY <2>1, <2>2, <1>4, <1>5, <1>9
<1>10. CASE name # "sealed" /\ name # "record"
  BY <1>4, <1>5, <1>6, <1>7, <1>10
<1> QED
  BY <1>8, <1>9, <1>10

LEMMA ManifestStarts == ManifestInit => ManifestInv
<1> SUFFICES ASSUME ManifestInit PROVE ManifestInv
  OBVIOUS
<1> USE DEF ManifestInit
<1>1. \A names : MarkersOf(names) = {}
  BY DEF MarkersOf, Made
<1>2. MarkersOf({"seal", "sealed"}) = {} /\ MarkersOf({"index"}) = {} /\ MarkersOf({"record"}) = {}
  BY <1>1
<1>3. Stored = {}
  BY DEF Stored, Made
<1>4. /\ \A M : <<>> \in Seq(M)
      /\ ToSet(<<>>) = {} /\ DOMAIN <<>> = {}
  BY DEF ToSet
<1>5. ListsOnce(<<>>, {})
  BY <1>4 DEF ListsOnce
<1>6. StoredIn(<<>>) = {}
  BY <1>4 DEF StoredIn
<1> QED
  BY <1>2, <1>3, <1>4, <1>5, <1>6 DEF ManifestInv

LEMMA ManifestSteps == ManifestInv /\ [ManifestNext]_manifestVars => ManifestInv'
<1> SUFFICES ASSUME ManifestInv, [ManifestNext]_manifestVars PROVE ManifestInv'
  OBVIOUS
<1>1. ASSUME NEW F \in SealMarkers, Seal(F) PROVE ManifestInv'
  <2>1. Call("seal", F, NoMarker)
    BY <1>1 DEF Seal
  <2>2. /\ MarkersOf({"seal", "sealed"})' = MarkersOf({"seal", "sealed"}) \cup {F}
        /\ MarkersOf({"index"})' = MarkersOf({"index"})
        /\ MarkersOf({"record"})' = MarkersOf({"record"})
    BY <2>1, MarkersAfterCall
  <2>3. Stored' = Stored
    BY <2>1, StoredAfterCall
  <2>4. ListsOnce(PushNew(seals, F), MarkersOf({"seal", "sealed"}) \cup {F})
    BY PushNewLists DEF ManifestInv
  <2> QED
    BY <1>1, <2>2, <2>3, <2>4 DEF Seal, ManifestInv, ListsOnce, StoredIn
<1>2. ASSUME NEW F \in SealMarkers, NEW kind \in ContextKinds, Sealed(F, kind)
      PROVE  ManifestInv'
  <2>1. Call("sealed", F, kind)
    BY <1>2 DEF Sealed
  <2>2. /\ MarkersOf({"seal", "sealed"})' = MarkersOf({"seal", "sealed"}) \cup {F}
        /\ MarkersOf({"index"})' = MarkersOf({"index"})
        /\ MarkersOf({"record"})' = MarkersOf({"record"})
    BY <2>1, MarkersAfterCall
  <2>3. Stored' = Stored \cup {<<SealIdOf[F], kind>>}
    BY <2>1, StoredAfterCall
  <2>4. ListsOnce(PushNew(seals, F), MarkersOf({"seal", "sealed"}) \cup {F})
    BY PushNewLists DEF ManifestInv
  <2> DEFINE e == [seal |-> SealIdOf[F], marker |-> F, kind |-> kind]
  <2>5. e.seal = SealIdOf[F] /\ e.kind = kind
    OBVIOUS
  <2>6. contexts' = PushNew(contexts, e)
    BY <1>2 DEF Sealed
  <2> HIDE DEF e
  <2>7. /\ contexts' \in Seq(ToSet(contexts'))
        /\ StoredIn(contexts') = StoredIn(contexts) \cup {<<e.seal, e.kind>>}
    BY <2>6, PushNewStored DEF ManifestInv
  <2>8. StoredIn(contexts') = Stored'
    BY <2>3, <2>5, <2>7 DEF ManifestInv
  <2> QED
    BY <1>2, <2>2, <2>4, <2>7, <2>8 DEF Sealed, ManifestInv, ListsOnce, StoredIn
<1>3. ASSUME NEW I \in IndexMarkers, Index(I) PROVE ManifestInv'
  <2>1. Call("index", I, NoMarker)
    BY <1>3 DEF Index
  <2>2. /\ MarkersOf({"seal", "sealed"})' = MarkersOf({"seal", "sealed"})
        /\ MarkersOf({"index"})' = MarkersOf({"index"}) \cup {I}
        /\ MarkersOf({"record"})' = MarkersOf({"record"})
    BY <2>1, MarkersAfterCall
  <2>3. Stored' = Stored
    BY <2>1, StoredAfterCall
  <2>4. ListsOnce(PushNew(indexes, I), MarkersOf({"index"}) \cup {I})
    BY PushNewLists DEF ManifestInv
  <2> QED
    BY <1>3, <2>2, <2>3, <2>4 DEF Index, ManifestInv, ListsOnce, StoredIn
<1>4. ASSUME NEW R \in RecordMarkers, Record(R) PROVE ManifestInv'
  <2>1. Call("record", R, NoMarker)
    BY <1>4 DEF Record
  <2>2. /\ MarkersOf({"seal", "sealed"})' = MarkersOf({"seal", "sealed"})
        /\ MarkersOf({"index"})' = MarkersOf({"index"})
        /\ MarkersOf({"record"})' = MarkersOf({"record"}) \cup {R}
    BY <2>1, MarkersAfterCall
  <2>3. Stored' = Stored \cup RecordStored(R)
    BY <2>1, StoredAfterCall
  <2>4. ListsOnce(PushNew(records, R), MarkersOf({"record"}) \cup {R})
    BY PushNewLists DEF ManifestInv
  <2> DEFINE w == FieldContexts(R)
  <2>5. w \in Seq(ToSet(w)) /\ StoredIn(w) = RecordStored(R)
    <3>1. /\ FieldSeals[R] \in Seq(ToSet(FieldSeals[R]))
          /\ DOMAIN w = DOMAIN FieldSeals[R]
          /\ \A f \in DOMAIN FieldSeals[R] :
                w[f].seal = FieldSeals[R][f] /\ w[f].kind = RecordKindOf[R]
      BY ManifestAssumption DEF FieldContexts
    <3>2. w \in Seq(ToSet(w))
      <4>1. \A f \in DOMAIN w : w[f] \in ToSet(w)
        BY DEF ToSet
      <4>2. w = [f \in 1..Len(FieldSeals[R]) |-> w[f]] /\ Len(FieldSeals[R]) \in Nat
        BY <3>1 DEF FieldContexts
      <4> HIDE DEF w
      <4> QED
        BY <4>1, <4>2, <3>1
    <3> HIDE DEF w
    <3>3. StoredIn(w) = RecordStored(R)
      BY <3>1 DEF StoredIn, RecordStored, ToSet
    <3> QED
      BY <3>2, <3>3
  <2>6. CASE Contains(records, R)
    <3>1. \E c \in Made({"record"}) : c.marker = R
      <4>1. R \in ToSet(records)
        BY <2>6 DEF Contains, ToSet
      <4>2. R \in MarkersOf({"record"})
        BY <4>1 DEF ManifestInv, ListsOnce
      <4> QED
        BY <4>2 DEF MarkersOf
    <3>2. RecordStored(R) \subseteq Stored
      BY <3>1 DEF Stored, RecordStored
    <3>3. contexts' = contexts
      BY <1>4, <2>6 DEF Record
    <3> QED
      BY <1>4, <2>2, <2>3, <2>4, <3>2, <3>3 DEF Record, ManifestInv, ListsOnce, StoredIn
  <2>7. CASE ~Contains(records, R)
    <3>1. contexts' = contexts \o w
      BY <1>4, <2>7 DEF Record
    <3> HIDE DEF w
    <3>2. /\ contexts' \in Seq(ToSet(contexts'))
          /\ StoredIn(contexts') = StoredIn(contexts) \cup StoredIn(w)
      BY <3>1, <2>5, ConcatStored DEF ManifestInv
    <3> QED
      BY <1>4, <2>2, <2>3, <2>4, <2>5, <3>2 DEF Record, ManifestInv, ListsOnce, StoredIn
  <2> QED
    BY <2>6, <2>7
<1>5. CASE UNCHANGED manifestVars
  BY <1>5 DEF manifestVars, ManifestInv, ListsOnce, StoredIn, Stored, MarkersOf, Made
<1> QED
  BY <1>1, <1>2, <1>3, <1>4, <1>5 DEF ManifestNext

(* Two places that declare one ID are two markers that do.                 *)
LEMMA SharedMarkers ==
    ASSUME NEW v, NEW M, ListsOnce(v, M), NEW idOf
    PROVE  SharedIds([i \in DOMAIN v |-> idOf[v[i]]]) =
            {idOf[m] : m \in {m \in M : \E n \in M : n # m /\ idOf[n] = idOf[m]}}
<1> DEFINE ids == [i \in DOMAIN v |-> idOf[v[i]]]
           at == {i \in DOMAIN ids : \E j \in DOMAIN ids : j # i /\ ids[j] = ids[i]}
           shared == {m \in M : \E n \in M : n # m /\ idOf[n] = idOf[m]}
<1>1. DOMAIN ids = DOMAIN v /\ \A i \in DOMAIN v : ids[i] = idOf[v[i]]
  OBVIOUS
<1>2. /\ \A i \in DOMAIN v : v[i] \in M
      /\ \A m \in M : \E i \in DOMAIN v : v[i] = m
      /\ \A i, j \in DOMAIN v : v[i] = v[j] => i = j
  BY DEF ListsOnce, ToSet
<1>3. SharedIds(ids) = {ids[i] : i \in at}
  BY DEF SharedIds
<1>4. ASSUME NEW i \in at PROVE ids[i] \in {idOf[m] : m \in shared}
  <2>1. v[i] \in shared /\ ids[i] = idOf[v[i]]
    BY <1>1, <1>2, <1>4
  <2> QED
    BY <2>1
<1>5. ASSUME NEW m \in shared PROVE idOf[m] \in {ids[i] : i \in at}
  <2>1. PICK i \in DOMAIN v : v[i] = m
    BY <1>2
  <2>2. i \in at /\ ids[i] = idOf[m]
    <3>1. PICK n \in M : n # m /\ idOf[n] = idOf[m]
      OBVIOUS
    <3>2. PICK j \in DOMAIN v : v[j] = n
      BY <1>2
    <3> QED
      BY <1>1, <2>1, <3>1, <3>2
  <2> QED
    BY <2>2
<1> QED
  BY <1>3, <1>4, <1>5

(* What the registrations keep is all the reference looks at.              *)
LEMMA ManifestExact == ManifestInv => DuplicatesExact
<1> SUFFICES ASSUME ManifestInv PROVE DuplicatesExact
  OBVIOUS
<1>1. {<<"Seal", id>> : id \in SharedIds(SealIds)} =
        {<<"Seal", SealIdOf[F]>> : F \in
            {F \in SealMarkers : \E c, d \in Made({"seal", "sealed"}) :
                c.marker = F /\ d.marker # F /\ SealIdOf[d.marker] = SealIdOf[F]}}
  <2> DEFINE M == MarkersOf({"seal", "sealed"})
             confused == {m \in M : \E n \in M : n # m /\ SealIdOf[n] = SealIdOf[m]}
             confusions == {F \in SealMarkers : \E c, d \in Made({"seal", "sealed"}) :
                        c.marker = F /\ d.marker # F /\ SealIdOf[d.marker] = SealIdOf[F]}
  <2>1. SharedIds(SealIds) = {SealIdOf[m] : m \in confused}
    BY SharedMarkers DEF ManifestInv, SealIds
  <2>2. confused = confusions
    BY DEF ManifestInv, MarkersOf
  <2> HIDE DEF confused, confusions
  <2>3. {<<"Seal", id>> : id \in SharedIds(SealIds)} = {<<"Seal", SealIdOf[m]>> : m \in confused}
    BY <2>1
  <2> QED
    BY <2>2, <2>3 DEF confusions
<1>2. {<<"Index", id>> : id \in SharedIds(IndexIds)} =
        {<<"Index", IndexIdOf[I]>> : I \in
            {I \in IndexMarkers : \E c, d \in Made({"index"}) :
                c.marker = I /\ d.marker # I /\ IndexIdOf[d.marker] = IndexIdOf[I]}}
  <2> DEFINE M == MarkersOf({"index"})
             confused == {m \in M : \E n \in M : n # m /\ IndexIdOf[n] = IndexIdOf[m]}
             confusions == {I \in IndexMarkers : \E c, d \in Made({"index"}) :
                        c.marker = I /\ d.marker # I /\ IndexIdOf[d.marker] = IndexIdOf[I]}
  <2>1. SharedIds(IndexIds) = {IndexIdOf[m] : m \in confused}
    BY SharedMarkers DEF ManifestInv, IndexIds
  <2>2. confused = confusions
    BY DEF ManifestInv, MarkersOf
  <2> HIDE DEF confused, confusions
  <2>3. {<<"Index", id>> : id \in SharedIds(IndexIds)}
            = {<<"Index", IndexIdOf[m]>> : m \in confused}
    BY <2>1
  <2> QED
    BY <2>2, <2>3 DEF confusions
<1>3. {<<"Context", id>> : id \in SharedContexts} =
        {<<"Context", s[1]>> : s \in {s \in Stored : \E t \in Stored : t[1] = s[1] /\ t[2] # s[2]}}
  <2> DEFINE kept == ToSet(contexts)
             confused == {s \in Stored : \E t \in Stored : t[1] = s[1] /\ t[2] # s[2]}
  <2>1. /\ \A x \in kept : <<x.seal, x.kind>> \in Stored
        /\ \A s \in Stored : \E x \in kept : s = <<x.seal, x.kind>>
    <3>1. Stored = {<<x.seal, x.kind>> : x \in kept}
      BY DEF ManifestInv, StoredIn
    <3> QED
      BY <3>1
  <2>2. SharedContexts = {id \in {x.seal : x \in kept} :
                            \E x, y \in kept : x.seal = id /\ y.seal = id /\ x.kind # y.kind}
    BY DEF SharedContexts, KindsOf
  <2> HIDE DEF kept
  <2>3. ASSUME NEW id \in SharedContexts PROVE \E s \in confused : s[1] = id
    <3>1. PICK x, y \in kept : x.seal = id /\ y.seal = id /\ x.kind # y.kind
      BY <2>2
    <3>2. <<x.seal, x.kind>> \in confused
      BY <2>1, <3>1
    <3> QED
      BY <3>1, <3>2
  <2>4. ASSUME NEW s \in confused PROVE s[1] \in SharedContexts
    <3>1. PICK t \in Stored : t[1] = s[1] /\ t[2] # s[2]
      OBVIOUS
    <3>2. PICK x \in kept : s = <<x.seal, x.kind>>
      BY <2>1
    <3>3. PICK y \in kept : t = <<y.seal, y.kind>>
      BY <2>1
    <3> QED
      BY <2>2, <3>1, <3>2, <3>3
  <2> QED
    BY <2>3, <2>4
<1>4. {<<"RecordField", id>> : id \in SharedIds(RecordFieldIds)} =
        {<<"RecordField", FieldSeals[x[1]][x[2]]>> : x \in
            {x \in FieldsMade : \E y \in FieldsMade :
                y # x /\ FieldSeals[y[1]][y[2]] = FieldSeals[x[1]][x[2]]}}
  <2> DEFINE ids == RecordFieldIds
             at == {p \in DOMAIN ids : \E q \in DOMAIN ids : q # p /\ ids[q] = ids[p]}
             confused == {x \in FieldsMade : \E y \in FieldsMade :
                            y # x /\ FieldSeals[y[1]][y[2]] = FieldSeals[x[1]][x[2]]}
  <2>1. /\ \A i \in DOMAIN records : records[i] \in MarkersOf({"record"})
        /\ \A R \in MarkersOf({"record"}) : \E i \in DOMAIN records : records[i] = R
        /\ \A i, j \in DOMAIN records : records[i] = records[j] => i = j
    BY DEF ManifestInv, ListsOnce, ToSet
  <2>2. /\ \A i \in DOMAIN records : \A f \in DOMAIN FieldSeals[records[i]] :
            <<i, f>> \in DOMAIN ids /\ ids[<<i, f>>] = FieldSeals[records[i]][f]
        /\ \A p \in DOMAIN ids :
            /\ p = <<p[1], p[2]>> /\ p[1] \in DOMAIN records
            /\ p[2] \in DOMAIN FieldSeals[records[p[1]]]
            /\ ids[p] = FieldSeals[records[p[1]]][p[2]]
    BY DEF RecordFieldIds, RecordFields
  <2>3. /\ \A x \in FieldsMade : /\ x = <<x[1], x[2]>> /\ x[1] \in MarkersOf({"record"})
                                 /\ x[2] \in DOMAIN FieldSeals[x[1]]
        /\ \A R \in MarkersOf({"record"}) : \A f \in DOMAIN FieldSeals[R] :
            <<R, f>> \in FieldsMade
    BY DEF FieldsMade, MarkersOf
  <2>4. SharedIds(ids) = {ids[p] : p \in at}
    BY DEF SharedIds
  <2> HIDE DEF ids
  <2>5. ASSUME NEW p \in at
        PROVE  \E x \in confused : ids[p] = FieldSeals[x[1]][x[2]]
    <3>1. PICK q \in DOMAIN ids : q # p /\ ids[q] = ids[p]
      OBVIOUS
    <3> DEFINE x == <<records[p[1]], p[2]>>
               y == <<records[q[1]], q[2]>>
    <3>2. x \in FieldsMade /\ y \in FieldsMade
      BY <2>1, <2>2, <2>3
    <3>3. x # y
      BY <2>1, <2>2, <3>1
    <3> QED
      BY <2>2, <3>1, <3>2, <3>3
  <2>6. ASSUME NEW x \in confused
        PROVE  \E p \in at : ids[p] = FieldSeals[x[1]][x[2]]
    <3>1. PICK y \in FieldsMade : y # x /\ FieldSeals[y[1]][y[2]] = FieldSeals[x[1]][x[2]]
      OBVIOUS
    <3>2. PICK i \in DOMAIN records : records[i] = x[1]
      BY <2>1, <2>3
    <3>3. PICK j \in DOMAIN records : records[j] = y[1]
      BY <2>1, <2>3
    <3>4. <<i, x[2]>> # <<j, y[2]>>
      BY <2>3, <3>1, <3>2, <3>3
    <3>5. <<i, x[2]>> \in at
      <4>1. /\ <<i, x[2]>> \in DOMAIN ids /\ ids[<<i, x[2]>>] = FieldSeals[x[1]][x[2]]
            /\ <<j, y[2]>> \in DOMAIN ids /\ ids[<<j, y[2]>>] = FieldSeals[y[1]][y[2]]
        BY <2>2, <2>3, <3>2, <3>3
      <4> QED
        BY <3>1, <3>4, <4>1
    <3> QED
      BY <2>2, <2>3, <3>2, <3>5
  <2> HIDE DEF at, confused
  <2>7. {<<"RecordField", id>> : id \in SharedIds(ids)}
          = {<<"RecordField", FieldSeals[x[1]][x[2]]>> : x \in confused}
    BY <2>4, <2>5, <2>6
  <2> QED
    BY <2>7 DEF ids, confused
<1> QED
  BY <1>1, <1>2, <1>3, <1>4 DEF DuplicatesExact, Duplicates, Confusions

(* Whatever is registered, in whatever order and how often, the manifest   *)
(* reports exactly the confusions of what was declared.                    *)
THEOREM ManifestReportsConfusions == ManifestSpec => []DuplicatesExact
<1>1. ManifestSpec => []ManifestInv
  BY ManifestStarts, ManifestSteps, PTL DEF ManifestSpec
<1> QED
  BY <1>1, ManifestExact, PTL

-----------------------------------------------------------------------------
(***************************************************************************)
(* Literals.                                                               *)
(***************************************************************************)

(* The characters of any text, in whichever form.                          *)
GivenCharacters == UNION {UNION {ToSet(t) : t \in Starts[k]} : k \in LiteralKinds}
Typed ==
    GivenCharacters
        \cup (UNION {Alphabet[k] : k \in LiteralKinds})
        \cup HexDigits \cup {"-", "{", "}"} \cup {"u", "r", "n", ":", "i", "d"}

-----------------------------------------------------------------------------
(* Numbers and names.                                                      *)

LEMMA NumbersAreAgreed == number \in Nat => NumbersAgree
BY DEF NumbersAgree, ParseBits, ValidBits, ParsePadding, BlockAssert, LengthAssert, U16Max

LEMMA LastSlash ==
    ASSUME NEW S, NEW s \in Seq(S), Slashes(s) # {}
    PROVE  /\ Max(Slashes(s)) \in Slashes(s)
           /\ \A i \in Slashes(s) : i <= Max(Slashes(s))
<1> DEFINE After == {Len(s) - i : i \in Slashes(s)}
<1>1. Slashes(s) \subseteq 1..Len(s) /\ Len(s) \in Nat
  BY DEF Slashes
<1>2. After \subseteq Nat /\ After # {}
  BY <1>1
<1>3. PICK x \in After : \A y \in After : x <= y
  <2> HIDE DEF After
  <2> QED
    BY <1>2, LeastNatural
<1>4. PICK m \in Slashes(s) : x = Len(s) - m
  BY <1>3
<1>5. \A i \in Slashes(s) : m >= i
  <2>1. ASSUME NEW i \in Slashes(s) PROVE m >= i
    <3>1. Len(s) - i \in After
      OBVIOUS
    <3>2. Len(s) - m <= Len(s) - i
      BY <1>3, <1>4, <3>1
    <3> QED
      BY <1>1, <3>2
  <2> QED
    BY <2>1
<1>6. Max(Slashes(s)) \in Slashes(s) /\ \A i \in Slashes(s) : Max(Slashes(s)) >= i
  BY <1>4, <1>5 DEF Max
<1> QED
  BY <1>1, <1>6

LEMMA SlashIsNoDigit == "/" \notin Decimals
BY DEF Decimals

LEMMA VersionedByLast ==
    ASSUME NEW S, NEW s \in Seq(S)
    PROVE  Versioned(s) <=>
                /\ Slashes(s) # {}
                /\ LET m == Max(Slashes(s))
                   IN  /\ m \in 2..Len(s) - 1
                       /\ s[m + 1] # "0"
                       /\ \A j \in m + 1..Len(s) : s[j] \in Decimals
<1> DEFINE m == Max(Slashes(s))
<1>1. ASSUME Versioned(s)
      PROVE  /\ Slashes(s) # {}
             /\ m \in 2..Len(s) - 1
             /\ s[m + 1] # "0"
             /\ \A j \in m + 1..Len(s) : s[j] \in Decimals
  <2>1. PICK i \in 2..Len(s) - 1 :
            /\ s[i] = "/"
            /\ s[i + 1] # "0"
            /\ \A j \in i + 1..Len(s) : s[j] \in Decimals
    BY <1>1 DEF Versioned
  <2>2. i \in Slashes(s) /\ Len(s) \in Nat
    BY <2>1 DEF Slashes
  <2>3. m \in 1..Len(s) /\ s[m] = "/" /\ i <= m
    <3>1. m \in Slashes(s) /\ i <= m
      BY <2>2, LastSlash
    <3> HIDE DEF m
    <3> QED
      BY <3>1 DEF Slashes
  <2> HIDE DEF m
  <2>4. m = i
    <3>1. m # i => m \in i + 1..Len(s)
      BY <2>1, <2>2, <2>3
    <3> QED
      BY <2>1, <2>3, <3>1, SlashIsNoDigit
  <2> QED
    BY <2>1, <2>2, <2>4
<1>2. ASSUME Slashes(s) # {},
             m \in 2..Len(s) - 1,
             s[m + 1] # "0",
             \A j \in m + 1..Len(s) : s[j] \in Decimals
      PROVE  Versioned(s)
  <2>1. s[m] = "/"
    BY <1>2, LastSlash DEF Slashes
  <2> HIDE DEF m
  <2> QED
    BY <1>2, <2>1 DEF Versioned
<1> QED
  BY <1>1, <1>2

LEMMA NormalizersAreAgreed == literal \in Seq(Typed) => NormalizersAgree
<1> SUFFICES ASSUME literal \in Seq(Typed)
             PROVE  /\ ValidNormalizer(literal) <=> Versioned(literal)
                    /\ ValidNormalizerConst(literal) <=> Versioned(literal)
  BY DEF NormalizersAgree
<1> DEFINE m == Max(Slashes(literal))
           Rest ==
                /\ m \in 2..Len(literal) - 1
                /\ literal[m + 1] # "0"
                /\ \A j \in m + 1..Len(literal) : literal[j] \in Decimals
<1>1. Versioned(literal) <=> Slashes(literal) # {} /\ Rest
  BY VersionedByLast
<1>2. Slashes(literal) # {} => m \in 1..Len(literal) /\ literal[m] = "/" /\ Len(literal) \in Nat
  <2>1. Slashes(literal) # {} => m \in Slashes(literal)
    BY LastSlash
  <2> HIDE DEF m
  <2> QED
    BY <2>1 DEF Slashes
<1>3. ASSUME Slashes(literal) # {} PROVE ValidNormalizer(literal) <=> Rest
  <2> DEFINE name == SubSeq(literal, 1, m - 1)
             version == SubSeq(literal, m + 1, Len(literal))
  <2>1. m \in 1..Len(literal) /\ Len(literal) \in Nat
    BY <1>2, <1>3
  <2>2. ValidNormalizer(literal) <=>
            /\ name # <<>> /\ version # <<>>
            /\ version[1] # "0"
            /\ ToSet(version) \subseteq Decimals
    BY <1>3 DEF ValidNormalizer, RSplitOnce
  <2> HIDE DEF m
  <2>3. name \in Seq(Typed) /\ Len(name) = m - 1
    BY <2>1
  <2>4. /\ version \in Seq(Typed) /\ Len(version) = Len(literal) - m
        /\ DOMAIN version = 1..Len(literal) - m
        /\ \A j \in 1..Len(literal) - m : version[j] = literal[m + j]
    BY <2>1
  <2> HIDE DEF name, version
  <2>5. name # <<>> <=> m # 1
    BY <2>1, <2>3
  <2>6. version # <<>> <=> m # Len(literal)
    BY <2>1, <2>4
  <2>7. m # Len(literal) => version[1] = literal[m + 1]
    BY <2>1, <2>4
  <2>8. ToSet(version) \subseteq Decimals <=> \A j \in m + 1..Len(literal) : literal[j] \in Decimals
    <3>1. ToSet(version) \subseteq Decimals <=>
                \A j \in 1..Len(literal) - m : literal[m + j] \in Decimals
      BY <2>4 DEF ToSet
    <3>2. ASSUME \A j \in 1..Len(literal) - m : literal[m + j] \in Decimals,
                 NEW j \in m + 1..Len(literal)
          PROVE  literal[j] \in Decimals
      <4>1. j - m \in 1..Len(literal) - m /\ m + (j - m) = j
        BY <2>1
      <4> QED
        BY <3>2, <4>1
    <3>3. ASSUME \A j \in m + 1..Len(literal) : literal[j] \in Decimals,
                 NEW j \in 1..Len(literal) - m
          PROVE  literal[m + j] \in Decimals
      BY <2>1, <3>3
    <3> QED
      BY <3>1, <3>2, <3>3
  <2>9. m \in 2..Len(literal) - 1 <=> m # 1 /\ m # Len(literal)
    BY <2>1
  <2> QED
    BY <2>2, <2>5, <2>6, <2>7, <2>8, <2>9
<1>4. ASSUME Slashes(literal) # {} PROVE ValidNormalizerConst(literal) <=> Rest
  <2>1. m \in 1..Len(literal) /\ Len(literal) \in Nat /\ literal[m] = "/"
    BY <1>2, <1>4
  <2>2. SlashScan(literal) = m - 1
    BY <1>4 DEF SlashScan
  <2> HIDE DEF m
  <2>3. ValidNormalizerConst(literal) <=>
            /\ m - 1 # 0
            /\ literal[(m - 1) + 1] = "/"
            /\ (m - 1) + 1 # Len(literal)
            /\ literal[((m - 1) + 1) + 1] # "0"
            /\ \A i \in (m - 1) + 1..Len(literal) - 1 : literal[i + 1] \in Decimals
    BY <2>2, Zenon DEF ValidNormalizerConst
  <2>4. (m - 1) + 1 = m /\ (m - 1 # 0 <=> m # 1)
    BY <2>1
  <2>5. (\A i \in m..Len(literal) - 1 : literal[i + 1] \in Decimals) <=>
            \A j \in m + 1..Len(literal) : literal[j] \in Decimals
    <3>1. ASSUME \A i \in m..Len(literal) - 1 : literal[i + 1] \in Decimals,
                 NEW j \in m + 1..Len(literal)
          PROVE  literal[j] \in Decimals
      <4>1. j - 1 \in m..Len(literal) - 1 /\ (j - 1) + 1 = j
        BY <2>1
      <4> QED
        BY <3>1, <4>1
    <3>2. ASSUME \A j \in m + 1..Len(literal) : literal[j] \in Decimals,
                 NEW i \in m..Len(literal) - 1
          PROVE  literal[i + 1] \in Decimals
      BY <2>1, <3>2
    <3> QED
      BY <3>1, <3>2
  <2>6. m \in 2..Len(literal) - 1 <=> m # 1 /\ m # Len(literal)
    BY <2>1
  <2> QED
    BY <2>1, <2>3, <2>4, <2>5, <2>6
<1>5. ASSUME Slashes(literal) = {} PROVE ~ValidNormalizer(literal) /\ ~ValidNormalizerConst(literal)
  BY <1>5 DEF ValidNormalizer, ValidNormalizerConst, SlashScan
<1> HIDE DEF m, Rest
<1> QED
  BY <1>1, <1>3, <1>4, <1>5

-----------------------------------------------------------------------------
(* IDs.                                                                    *)

LowerDigits == Decimals \cup {"a", "b", "c", "d", "e", "f"}

LEMMA LowersAre == \A c \in HexDigits : Lower(c) \in LowerDigits
BY DEF HexDigits, Decimals, LowerDigits, Lower

LEMMA HexTold ==
    /\ \A c \in HexDigits : HexValue[c] \in 0..15
    /\ \A c, d \in HexDigits : HexValue[c] = HexValue[d] <=> Lower(c) = Lower(d)
<1> DEFINE Worth(c) ==
        CASE c = "0" -> 0 [] c = "1" -> 1 [] c = "2" -> 2 [] c = "3" -> 3
          [] c = "4" -> 4 [] c = "5" -> 5 [] c = "6" -> 6 [] c = "7" -> 7
          [] c = "8" -> 8 [] c = "9" -> 9 [] c = "a" -> 10 [] c = "b" -> 11
          [] c = "c" -> 12 [] c = "d" -> 13 [] c = "e" -> 14 [] c = "f" -> 15
<1>1. \A c \in HexDigits : HexValue[c] = Worth(Lower(c))
  BY DEF HexValue
<1>2. \A c \in LowerDigits : Worth(c) \in 0..15
  BY DEF LowerDigits, Decimals
<1>3. \A c, d \in LowerDigits : Worth(c) = Worth(d) => c = d
  BY SMTT(30) DEF LowerDigits, Decimals
<1> HIDE DEF Worth
<1> QED
  BY <1>1, <1>2, <1>3, LowersAre

HyphensAt == {9, 14, 19, 24}

(* The hyphenated form, character by character.                            *)
IsForm(s) ==
    /\ Len(s) = 36
    /\ \A i \in 1..36 : IF i \in HyphensAt THEN s[i] = "-" ELSE s[i] \in HexDigits

LEMMA PlacesAre ==
    /\ \A n \in Nibbles : Place(n) \in 1..36 /\ Place(n) \notin HyphensAt
    /\ \A i \in 1..36 : i \notin HyphensAt => \E n \in Nibbles : Place(n) = i
<1>1. \A n \in Nibbles : Place(n) \in 1..36 /\ Place(n) \notin HyphensAt
  BY DEF Place, Nibbles, HyphensAt
<1>2. ASSUME NEW i \in 1..36, i \notin HyphensAt PROVE \E n \in Nibbles : Place(n) = i
  <2>1. CASE i <= 8
    BY <2>1 DEF Place, Nibbles
  <2>2. CASE i \in 10..13
    <3>1. i - 1 \in Nibbles /\ Place(i - 1) = i
      BY <2>2 DEF Place, Nibbles
    <3> QED
      BY <3>1
  <2>3. CASE i \in 15..18
    <3>1. i - 2 \in Nibbles /\ Place(i - 2) = i
      BY <2>3 DEF Place, Nibbles
    <3> QED
      BY <3>1
  <2>4. CASE i \in 20..23
    <3>1. i - 3 \in Nibbles /\ Place(i - 3) = i
      BY <2>4 DEF Place, Nibbles
    <3> QED
      BY <3>1
  <2>5. CASE i \in 25..36
    <3>1. i - 4 \in Nibbles /\ Place(i - 4) = i
      BY <2>5 DEF Place, Nibbles
    <3> QED
      BY <3>1
  <2> QED
    BY <1>2, <2>1, <2>2, <2>3, <2>4, <2>5 DEF HyphensAt
<1> QED
  BY <1>1, <1>2

LEMMA HyphenIsNoDigit == "-" \notin HexDigits
BY DEF HexDigits, Decimals

LEMMA FormsAre ==
    ASSUME NEW S, NEW s \in Seq(S)
    PROVE  /\ HasGroups(s) <=> IsForm(s)
           /\ UuidValue(s) = IF IsForm(s) THEN DigitsOf(s) ELSE None
<1>1. Len(s) = 36 => DOMAIN s = 1..36
  OBVIOUS
<1>2. ASSUME HasGroups(s) PROVE IsForm(s)
  <2>1. Len(s) = 36 /\ DOMAIN s = 1..36
    BY <1>1, <1>2 DEF HasGroups
  <2>2. \A i \in 1..36 : s[i] = "-" <=> i \in HyphensAt
    BY <1>2, <2>1 DEF HasGroups, HyphensAt
  <2>3. \A i \in 1..36 : s[i] \in HexDigits \cup {"-"}
    BY <1>2, <2>1 DEF HasGroups, ToSet
  <2> QED
    BY <2>1, <2>2, <2>3 DEF IsForm
<1>3. ASSUME IsForm(s) PROVE HasGroups(s)
  <2>1. Len(s) = 36 /\ DOMAIN s = 1..36
    BY <1>1, <1>3 DEF IsForm
  <2>2. \A i \in 1..36 : s[i] = "-" <=> i \in HyphensAt
    BY <1>3, HyphenIsNoDigit DEF IsForm
  <2>3. HyphensAt \subseteq 1..36
    BY DEF HyphensAt
  <2>4. {i \in DOMAIN s : s[i] = "-"} = HyphensAt
    BY <2>1, <2>2, <2>3
  <2>5. ToSet(s) \subseteq HexDigits \cup {"-"}
    BY <1>3, <2>1, <2>2 DEF IsForm, ToSet
  <2> QED
    BY <2>1, <2>4, <2>5 DEF HasGroups, HyphensAt
<1>4. IsForm(s) <=>
        /\ Len(s) = 36
        /\ \A i \in DOMAIN s : IF i - 1 \in Hyphens THEN s[i] = "-" ELSE s[i] \in HexDigits
  <2>1. \A i \in 1..36 : i - 1 \in Hyphens <=> i \in HyphensAt
    BY DEF Hyphens, HyphensAt
  <2> QED
    BY <1>1, <2>1 DEF IsForm
<1> QED
  BY <1>2, <1>3, <1>4 DEF UuidValue

Zero == [n \in Nibbles |-> 0]

LEMMA DigitsAre ==
    ASSUME NEW s, IsForm(s)
    PROVE  DigitsOf(s) \in [Nibbles -> 0..15]
<1>1. \A n \in Nibbles : s[Place(n)] \in HexDigits
  BY PlacesAre DEF IsForm
<1> QED
  BY <1>1, HexTold DEF DigitsOf

LEMMA SomeValue ==
    /\ \A f : DOMAIN f = 1..16 => f # None
    /\ \A f : DOMAIN f = Nibbles => f # None
<1>1. DOMAIN None = {}
  BY DEF None
<1>2. 1 \in 1..16 /\ 1 \in Nibbles
  BY DEF Nibbles
<1> QED
  BY <1>1, <1>2

LEMMA ParsedAre ==
    ASSUME NEW S, NEW s \in Seq(S)
    PROVE  ParseUuid(s) = IF IsForm(s) /\ DigitsOf(s) # Zero THEN DigitsOf(s) ELSE None
<1>1. IsForm(s) => DigitsOf(s) # None
  BY SomeValue DEF DigitsOf
<1> QED
  BY <1>1, FormsAre DEF ParseUuid, Zero

LEMMA BytesRead ==
    ASSUME NEW s, IsForm(s)
    PROVE  BytesFrom(s, PairAt) = ToBeBytes(DigitsOf(s))
<1>1. \A b \in 1..16 :
        /\ 2 * b - 1 \in Nibbles /\ 2 * b \in Nibbles
        /\ PairAt[b] = Place(2 * b - 1) /\ PairAt[b] + 1 = Place(2 * b)
  BY DEF PairAt, Place, Nibbles
<1>2. \A n \in Nibbles : DigitsOf(s)[n] = HexValue[s[Place(n)]]
  BY DEF DigitsOf
<1> QED
  BY <1>1, <1>2 DEF BytesFrom, ToBeBytes

LEMMA BytesTellDigits ==
    ASSUME NEW v \in [Nibbles -> 0..15], NEW w \in [Nibbles -> 0..15]
    PROVE  (\A b \in 1..16 : ToBeBytes(v)[b] = ToBeBytes(w)[b]) <=> v = w
<1>1. ASSUME \A b \in 1..16 : ToBeBytes(v)[b] = ToBeBytes(w)[b], NEW n \in Nibbles
      PROVE  v[n] = w[n]
  <2>1. \A b \in 1..16 : 2 * b - 1 \in Nibbles /\ 2 * b \in Nibbles
    BY DEF Nibbles
  <2>2. \A m \in Nibbles : v[m] \in 0..15 /\ w[m] \in 0..15
    OBVIOUS
  <2>3. \A b \in 1..16 :
            16 * v[2 * b - 1] + v[2 * b] = 16 * w[2 * b - 1] + w[2 * b]
    BY <1>1 DEF ToBeBytes
  <2>4. \A b \in 1..16 : v[2 * b - 1] = w[2 * b - 1] /\ v[2 * b] = w[2 * b]
    <3>1. ASSUME NEW b \in 1..16
          PROVE  v[2 * b - 1] = w[2 * b - 1] /\ v[2 * b] = w[2 * b]
      <4> DEFINE hi == 2 * b - 1
                 lo == 2 * b
      <4>1. hi \in Nibbles /\ lo \in Nibbles /\ 16 * v[hi] + v[lo] = 16 * w[hi] + w[lo]
        BY <2>1, <2>3
      <4> HIDE DEF hi, lo
      <4>2. v[hi] = w[hi] /\ v[lo] = w[lo]
        <5>1. /\ v[hi] \in 0..15 /\ v[lo] \in 0..15 /\ w[hi] \in 0..15 /\ w[lo] \in 0..15
          BY <2>2, <4>1
        <5> DEFINE x == v[hi]
                   y == v[lo]
                   z == w[hi]
                   u == w[lo]
        <5>2. /\ x \in 0..15 /\ y \in 0..15 /\ z \in 0..15 /\ u \in 0..15
              /\ 16 * x + y = 16 * z + u
          BY <4>1, <5>1
        <5> HIDE DEF x, y, z, u
        <5>3. x = z /\ y = u
          BY <5>2
        <5> QED
          BY <5>3 DEF x, y, z, u
      <4> QED
        BY <4>2 DEF hi, lo
    <3> QED
      BY <3>1
  <2>5. PICK b \in 1..16 : n = 2 * b - 1 \/ n = 2 * b
    BY DEF Nibbles
  <2> QED
    BY <2>4, <2>5
<1> QED
  BY <1>1

LEMMA NilIsZero ==
    ASSUME NEW v \in [Nibbles -> 0..15]
    PROVE  IsNil(ToBeBytes(v)) <=> v = Zero
<1>1. Zero \in [Nibbles -> 0..15]
  BY DEF Zero
<1>2. \A b \in 1..16 : ToBeBytes(Zero)[b] = 0
  BY DEF ToBeBytes, Zero, Nibbles
<1> QED
  BY <1>1, <1>2, BytesTellDigits DEF IsNil

(* The digits of a text, where its form has them.                          *)
Reading(s) == [n \in Nibbles |-> HexValue[s[DigitAt(s, n)]]]

LEMMA GroupsAreLong == \A t : HasGroups(t) => Len(t) = 36
BY DEF HasGroups

LEMMA WrapsAreLong == \A t : (IsBraced(t) => Len(t) = 38) /\ (IsUrn(t) => Len(t) = 45)
BY DEF IsBraced, IsUrn

LEMMA UnwrappedAre ==
    ASSUME NEW s
    PROVE  /\ Len(s) \in {32, 36} => Unwrapped(s) = s
           /\ Len(s) = 38 => Unwrapped(s) \in {s, Within(s, 1)}
           /\ Len(s) = 45 => Unwrapped(s) \in {s, Within(s, 9)}
           /\ Len(s) \notin {32, 36, 38, 45} => ~HasGroups(Unwrapped(s))
<1>1. IsBraced(s) => Len(s) = 38
  BY WrapsAreLong
<1>2. IsUrn(s) => Len(s) = 45
  BY WrapsAreLong
<1>3. HasGroups(s) => Len(s) = 36
  BY GroupsAreLong
<1>4. IsBraced(s) => Unwrapped(s) = Within(s, 1)
  BY DEF Unwrapped
<1>5. ~IsBraced(s) /\ IsUrn(s) => Unwrapped(s) = Within(s, 9)
  BY DEF Unwrapped
<1>6. ~IsBraced(s) /\ ~IsUrn(s) => Unwrapped(s) = s
  BY DEF Unwrapped
<1> QED
  BY <1>1, <1>2, <1>3, <1>4, <1>5, <1>6

LEMMA PlacesAreBefore == \A n \in Nibbles : Place(n) \in 1..36
BY PlacesAre

LEMMA WrappedAre ==
    ASSUME NEW S, NEW s \in Seq(S), NEW skip \in {1, 9}, skip + 36 <= Len(s)
    PROVE  Within(s, skip) \in Seq(S) /\ \A i \in 1..36 : Within(s, skip)[i] = s[i + skip]
BY DEF Within

LEMMA OneIsText == ASSUME NEW S, NEW c \in S PROVE <<c>> \in Seq(S)
OBVIOUS

LEMMA JoinedIsText ==
    ASSUME NEW S, NEW s \in Seq(S), NEW t \in Seq(S) PROVE s \o t \in Seq(S)
OBVIOUS

(* What the crate takes are digits at their places, whatever the form.     *)
LEMMA TextsAre ==
    ASSUME NEW S, NEW s \in Seq(S), TryParse(s) # None
    PROVE  /\ \A n \in Nibbles : s[DigitAt(s, n)] \in HexDigits
           /\ TryParse(s) = ToBeBytes(Reading(s))
<1> DEFINE simple == [b \in 1..16 |-> 2 * b - 1]
           Placed(t) == \A n \in Nibbles : t[Place(n)] = s[DigitAt(s, n)]
<1>0. Len(s) # 32 => HasGroups(Unwrapped(s)) /\ TryParse(s) = BytesFrom(Unwrapped(s), PairAt)
  BY DEF TryParse
<1>1. CASE Len(s) = 32
  <2>1. ~HasGroups(Unwrapped(s))
    <3>1. Unwrapped(s) = s
      BY <1>1, UnwrappedAre
    <3>2. HasGroups(s) => Len(s) = 36
      BY GroupsAreLong
    <3> QED
      BY <1>1, <3>1, <3>2
  <2>2. ToSet(s) \subseteq HexDigits /\ TryParse(s) = BytesFrom(s, simple)
    BY <1>1, <2>1 DEF TryParse
  <2>3. \A n \in Nibbles : DigitAt(s, n) = n /\ s[n] \in HexDigits
    BY <1>1, <2>2 DEF DigitAt, Nibbles, ToSet
  <2>4. \A b \in 1..16 :
            2 * b - 1 \in Nibbles /\ 2 * b \in Nibbles /\ simple[b] = 2 * b - 1
              /\ simple[b] + 1 = 2 * b
    BY DEF Nibbles
  <2>5. \A n \in Nibbles : Reading(s)[n] = HexValue[s[n]]
    BY <2>3 DEF Reading
  <2> HIDE DEF simple
  <2>6. BytesFrom(s, simple) = ToBeBytes(Reading(s))
    BY <2>4, <2>5 DEF BytesFrom, ToBeBytes
  <2> QED
    BY <2>2, <2>3, <2>6
<1>2. ASSUME Len(s) # 32, NEW t \in Seq(S), t = Unwrapped(s), Placed(t)
      PROVE  /\ \A n \in Nibbles : s[DigitAt(s, n)] \in HexDigits
             /\ TryParse(s) = ToBeBytes(Reading(s))
  <2>1. HasGroups(t) /\ TryParse(s) = BytesFrom(t, PairAt)
    BY <1>0, <1>2
  <2>2. IsForm(t)
    BY <2>1, FormsAre
  <2>3. \A n \in Nibbles : t[Place(n)] = s[DigitAt(s, n)] /\ t[Place(n)] \in HexDigits
    BY <1>2, <2>2, PlacesAre DEF IsForm
  <2>4. DigitsOf(t) = Reading(s)
    BY <2>3 DEF DigitsOf, Reading
  <2> QED
    BY <2>1, <2>2, <2>3, <2>4, BytesRead
<1> HIDE DEF simple
<1>3. CASE Len(s) = 36
  <2>1. Unwrapped(s) = s
    BY <1>3, UnwrappedAre
  <2>2. Placed(s)
    BY <1>3 DEF DigitAt
  <2> HIDE DEF Placed
  <2> QED
    BY <1>2, <1>3, <2>1, <2>2
<1>4. CASE Len(s) = 38
  <2>1. Unwrapped(s) = Within(s, 1)
    <3>1. HasGroups(Unwrapped(s))
      BY <1>0, <1>4
    <3>2. HasGroups(s) => Len(s) = 36
      BY GroupsAreLong
    <3>3. Unwrapped(s) \in {s, Within(s, 1)}
      BY <1>4, UnwrappedAre
    <3> QED
      BY <1>4, <3>1, <3>2, <3>3
  <2>2. Within(s, 1) \in Seq(S) /\ \A i \in 1..36 : Within(s, 1)[i] = s[i + 1]
    <3>1. 1 \in {1, 9} /\ 1 + 36 <= Len(s)
      BY <1>4
    <3> QED
      BY <3>1, WrappedAre, Zenon
  <2>3. \A n \in Nibbles : DigitAt(s, n) = Place(n) + 1
    BY <1>4 DEF DigitAt
  <2>4. Placed(Within(s, 1))
    BY <2>2, <2>3, PlacesAreBefore
  <2> HIDE DEF Placed
  <2> QED
    BY <1>2, <1>4, <2>1, <2>2, <2>4
<1>5. CASE Len(s) = 45
  <2>1. Unwrapped(s) = Within(s, 9)
    <3>1. HasGroups(Unwrapped(s))
      BY <1>0, <1>5
    <3>2. HasGroups(s) => Len(s) = 36
      BY GroupsAreLong
    <3>3. Unwrapped(s) \in {s, Within(s, 9)}
      BY <1>5, UnwrappedAre
    <3> QED
      BY <1>5, <3>1, <3>2, <3>3
  <2>2. Within(s, 9) \in Seq(S) /\ \A i \in 1..36 : Within(s, 9)[i] = s[i + 9]
    <3>1. 9 \in {1, 9} /\ 9 + 36 <= Len(s)
      BY <1>5
    <3> QED
      BY <3>1, WrappedAre, Zenon
  <2>3. \A n \in Nibbles : DigitAt(s, n) = Place(n) + 9
    BY <1>5 DEF DigitAt
  <2>4. Placed(Within(s, 9))
    BY <2>2, <2>3, PlacesAreBefore
  <2> HIDE DEF Placed
  <2> QED
    BY <1>2, <1>5, <2>1, <2>2, <2>4
<1>6. Len(s) \in {32, 36, 38, 45}
  <2>1. CASE Len(s) = 32
    BY <2>1
  <2>2. CASE Len(s) # 32
    BY <1>0, <2>2, UnwrappedAre
  <2> QED
    BY <2>1, <2>2
<1> QED
  BY <1>1, <1>3, <1>4, <1>5, <1>6

LEMMA ReadingsAre ==
    ASSUME NEW S, NEW s \in Seq(S), TryParse(s) # None
    PROVE  /\ Reading(s) \in [Nibbles -> 0..15]
           /\ Spelling(s) \in [Nibbles -> LowerDigits]
BY TextsAre, HexTold, LowersAre DEF Reading, Spelling

(* However it is written, it is a text.                                    *)
LEMMA ReformsAreTexts ==
    ASSUME NEW s \in Seq(Typed), TryParse(s) # None, NEW w \in Writings(Spelling(s))
    PROVE  w \in Seq(Typed)
<1> DEFINE d == Spelling(s)
           text == Hyphenated(d)
<1>1. d \in [Nibbles -> LowerDigits]
  BY ReadingsAre
<1>2. LowerDigits \subseteq Typed /\ "-" \in Typed /\ "{" \in Typed /\ "}" \in Typed
  BY DEF LowerDigits, HexDigits, Typed
<1> HIDE DEF d
<1>3. d \in Seq(Typed)
  <2>1. d = [i \in 1..32 |-> d[i]] /\ \A i \in 1..32 : d[i] \in Typed
    BY <1>1, <1>2 DEF Nibbles
  <2> QED
    BY <2>1
<1>4. text \in Seq(Typed)
  <2>1. \A i \in 1..36 : i - 1 \notin Hyphens =>
            i - (IF i < 9 THEN 0 ELSE IF i < 14 THEN 1 ELSE IF i < 19 THEN 2
                 ELSE IF i < 24 THEN 3 ELSE 4) \in Nibbles
    BY DEF Hyphens, Nibbles
  <2>2. \A i \in 1..36 : text[i] \in Typed
    BY <1>1, <1>2, <2>1 DEF Hyphenated
  <2>3. text = [i \in 1..36 |-> text[i]]
    BY DEF Hyphenated
  <2> QED
    BY <2>2, <2>3
<1> HIDE DEF text
<1>5. Urn \in Seq(Typed)
  <2>1. {"u", "r", "n", ":", "i", "d"} \subseteq Typed
    BY DEF Typed
  <2>2. Urn \in Seq({"u", "r", "n", ":", "i", "d"})
    BY DEF Urn
  <2> QED
    BY <2>1, <2>2
<1>6. <<"{">> \in Seq(Typed) /\ <<"}">> \in Seq(Typed)
  BY <1>2, OneIsText
<1>7. <<"{">> \o text \o <<"}">> \in Seq(Typed) /\ Urn \o text \in Seq(Typed)
  BY <1>4, <1>5, <1>6, JoinedIsText
<1> QED
  BY <1>3, <1>4, <1>7 DEF Writings, text, d

LEMMA MacroReads ==
    ASSUME NEW S, NEW s \in Seq(S), IdMacro(s) # None
    PROVE  /\ TryParse(s) # None /\ IdMacro(s) = ToBeBytes(Reading(s))
           /\ Reading(s) # Zero
<1>1. TryParse(s) # None /\ IdMacro(s) = TryParse(s) /\ ~IsNil(TryParse(s))
  BY DEF IdMacro
<1> QED
  BY <1>1, TextsAre, ReadingsAre, NilIsZero

(* Of the hyphenated form the derive, from_str and the macro read one ID.  *)
LEMMA FormsAgree ==
    ASSUME NEW S, NEW s \in Seq(S)
    PROVE  LET taken == IF ParseUuid(s) = None THEN None ELSE FromU128(ParseUuid(s))
           IN  /\ FromStr(s) = taken
               /\ taken = IF Len(s) = 36 THEN IdMacro(s) ELSE None
<1> DEFINE v == DigitsOf(s)
<1>1. ParseUuid(s) = IF IsForm(s) /\ v # Zero THEN v ELSE None
  BY ParsedAre
<1>2. ParseForm(s) = IF IsForm(s) THEN ToBeBytes(v) ELSE None
  <2>1. CASE Len(s) = 36
    <3>1. TryParse(s) = IF HasGroups(s) THEN BytesFrom(s, PairAt) ELSE None
      <4>1. Unwrapped(s) = s
        BY <2>1, UnwrappedAre
      <4>2. Len(s) # 32
        BY <2>1
      <4> QED
        BY <4>1, <4>2 DEF TryParse
    <3> QED
      BY <2>1, <3>1, FormsAre, BytesRead DEF ParseForm
  <2>2. CASE Len(s) # 36
    BY <2>2 DEF ParseForm, IsForm
  <2> QED
    BY <2>1, <2>2
<1>3. FromStr(s) = IF ParseUuid(s) = None THEN None ELSE FromU128(ParseUuid(s))
  <2>1. CASE IsForm(s)
    <3>1. v \in [Nibbles -> 0..15]
      BY <2>1, DigitsAre
    <3> HIDE DEF v
    <3>2. v # None /\ ToBeBytes(v) # None
      BY <3>1, SomeValue DEF ToBeBytes
    <3>3. IsNil(ToBeBytes(v)) <=> v = Zero
      BY <3>1, NilIsZero
    <3> QED
      BY <1>1, <1>2, <2>1, <3>2, <3>3 DEF FromStr, FromU128
  <2>2. CASE ~IsForm(s)
    BY <1>1, <1>2, <2>2 DEF FromStr
  <2> QED
    BY <2>1, <2>2
<1>4. FromStr(s) = IF Len(s) = 36 THEN IdMacro(s) ELSE None
  BY DEF FromStr, ParseForm, IdMacro
<1> QED
  BY <1>3, <1>4

LEMMA ParsedByMacro ==
    ASSUME NEW S, NEW s \in Seq(S), ParseUuid(s) # None
    PROVE  IdMacro(s) = FromU128(ParseUuid(s)) /\ IdMacro(s) # None
<1>1. IsForm(s) /\ ParseUuid(s) = DigitsOf(s)
  BY ParsedAre
<1>2. IdMacro(s) = FromU128(ParseUuid(s))
  BY <1>1, FormsAgree DEF IsForm
<1> QED
  BY <1>1, <1>2, SomeValue DEF FromU128, ToBeBytes

LEMMA CharsAre ==
    \A x \in 0..15 : DigitChars[x + 1] \in HexDigits /\ HexValue[DigitChars[x + 1]] = x
<1>1. \A c \in LowerDigits : Lower(c) = c /\ c \in HexDigits
  BY DEF LowerDigits, HexDigits, Decimals, Lower
<1>2. \A c \in LowerDigits :
        HexValue[c] = CASE c = "0" -> 0 [] c = "1" -> 1 [] c = "2" -> 2 [] c = "3" -> 3
          [] c = "4" -> 4 [] c = "5" -> 5 [] c = "6" -> 6 [] c = "7" -> 7
          [] c = "8" -> 8 [] c = "9" -> 9 [] c = "a" -> 10 [] c = "b" -> 11
          [] c = "c" -> 12 [] c = "d" -> 13 [] c = "e" -> 14 [] c = "f" -> 15
  BY <1>1 DEF HexValue
<1>3. \A x \in 0..15 : DigitChars[x + 1] \in LowerDigits
  BY DEF DigitChars, LowerDigits, Decimals
<1>4. ASSUME NEW x \in 0..15 PROVE HexValue[DigitChars[x + 1]] = x
  BY <1>2, <1>3, SMTT(30) DEF DigitChars
<1> QED
  BY <1>1, <1>3, <1>4

(* Printed, an ID is a hyphenated text of its digits.                      *)
LEMMA PrintedAre ==
    ASSUME NEW v \in [Nibbles -> 0..15]
    PROVE  LET printed == Display(ToBeBytes(v))
           IN  printed \in Seq(Typed) /\ IsForm(printed) /\ DigitsOf(printed) = v
<1> DEFINE char == [n \in Nibbles |-> DigitChars[v[n] + 1]]
           printed == Hyphenated(char)
<1>1. NibblesOf(ToBeBytes(v)) = v
  <2>1. ASSUME NEW n \in Nibbles PROVE NibblesOf(ToBeBytes(v))[n] = v[n]
    <3> DEFINE b == IF n % 2 = 1 THEN (n + 1) \div 2 ELSE n \div 2
               hi == 2 * b - 1
               lo == 2 * b
    <3>1. b \in 1..16 /\ hi \in Nibbles /\ lo \in Nibbles
            /\ n = IF n % 2 = 1 THEN hi ELSE lo
      BY DEF Nibbles
    <3>2. ToBeBytes(v)[b] = 16 * v[hi] + v[lo]
      BY <3>1 DEF ToBeBytes
    <3>3. NibblesOf(ToBeBytes(v))[n] =
            IF n % 2 = 1 THEN ToBeBytes(v)[b] \div 16 ELSE ToBeBytes(v)[b] % 16
      BY DEF NibblesOf
    <3> HIDE DEF b, hi, lo
    <3>4. v[hi] \in 0..15 /\ v[lo] \in 0..15
      BY <3>1
    <3>5. \A x, y \in 0..15 : (16 * x + y) \div 16 = x /\ (16 * x + y) % 16 = y
      OBVIOUS
    <3> QED
      BY <3>1, <3>2, <3>3, <3>4, <3>5
  <2>2. NibblesOf(ToBeBytes(v)) = [n \in Nibbles |-> NibblesOf(ToBeBytes(v))[n]]
    BY DEF NibblesOf
  <2> QED
    BY <2>1, <2>2
<1>2. Display(ToBeBytes(v)) = printed
  BY <1>1 DEF Display, PrintedDigits
<1>3. \A x \in 0..15 : DigitChars[x + 1] \in HexDigits /\ HexValue[DigitChars[x + 1]] = x
  BY CharsAre
<1>4. \A n \in Nibbles : char[n] \in HexDigits /\ HexValue[char[n]] = v[n]
  BY <1>3
<1> HIDE DEF char
<1>5. \A i \in HyphensAt : printed[i] = "-"
  BY DEF Hyphenated, Hyphens, HyphensAt
<1>6. \A n \in Nibbles : printed[Place(n)] = char[n]
  BY DEF Hyphenated, Hyphens, Place, Nibbles
<1>7. \A i \in 1..36 : IF i \in HyphensAt THEN printed[i] = "-" ELSE printed[i] \in HexDigits
  BY <1>4, <1>5, <1>6, PlacesAre
<1>8. \A i \in 1..36 : printed[i] \in Typed
  BY <1>7 DEF Typed
<1>9. printed = [i \in 1..36 |-> printed[i]]
  BY DEF Hyphenated
<1> HIDE DEF printed
<1>10. printed \in Seq(Typed) /\ Len(printed) = 36
  BY <1>8, <1>9
<1>11. DigitsOf(printed) = v
  <2>1. \A n \in Nibbles : HexValue[printed[Place(n)]] = v[n]
    BY <1>4, <1>6 DEF printed
  <2> QED
    BY <2>1 DEF DigitsOf
<1> QED
  BY <1>2, <1>7, <1>10, <1>11 DEF IsForm

LEMMA IdsAreAgreed == literal \in Seq(Typed) => IdsAgree
<1> SUFFICES ASSUME literal \in Seq(Typed) PROVE IdsAgree
  OBVIOUS
<1> DEFINE given == IdMacro(literal)
           printed == Display(given)
<1>1. ASSUME given # None
      PROVE  /\ FromStr(printed) = given /\ IdMacro(printed) = given
             /\ FromU128(ParseUuid(printed)) = given
  <2> DEFINE v == Reading(literal)
  <2>1. v \in [Nibbles -> 0..15] /\ v # Zero /\ given = ToBeBytes(v)
    BY <1>1, MacroReads, ReadingsAre
  <2> HIDE DEF v, given
  <2>2. printed \in Seq(Typed) /\ IsForm(printed) /\ DigitsOf(printed) = v
    BY <2>1, PrintedAre
  <2> HIDE DEF printed
  <2>3. ParseUuid(printed) = v
    BY <2>1, <2>2, ParsedAre
  <2>4. v # None
    BY <2>1, SomeValue
  <2> QED
    BY <2>1, <2>2, <2>3, <2>4, FormsAgree DEF IsForm, FromU128
<1>2. LET taken == IF ParseUuid(literal) = None THEN None ELSE FromU128(ParseUuid(literal))
      IN  FromStr(literal) = taken /\ taken = IF Len(literal) = 36 THEN given ELSE None
  BY FormsAgree
<1> QED
  BY <1>1, <1>2 DEF IdsAgree

(* One ID, whatever its form and the case of its digits.                   *)
LEMMA SpellingsTell ==
    ASSUME NEW S, NEW s \in Seq(S), NEW t \in Seq(S), IdMacro(s) # None, IdMacro(t) # None
    PROVE  Equal(IdMacro(s), IdMacro(t)) <=> Spelling(s) = Spelling(t)
<1>1. /\ IdMacro(s) = ToBeBytes(Reading(s)) /\ Reading(s) \in [Nibbles -> 0..15]
      /\ IdMacro(t) = ToBeBytes(Reading(t)) /\ Reading(t) \in [Nibbles -> 0..15]
  BY MacroReads, ReadingsAre
<1>2. Equal(IdMacro(s), IdMacro(t)) <=> Reading(s) = Reading(t)
  <2>1. (\A b \in 1..16 : ToBeBytes(Reading(s))[b] = ToBeBytes(Reading(t))[b])
            <=> Reading(s) = Reading(t)
    BY <1>1, BytesTellDigits
  <2> QED
    BY <1>1, <2>1 DEF Equal
<1>3. \A n \in Nibbles : s[DigitAt(s, n)] \in HexDigits /\ t[DigitAt(t, n)] \in HexDigits
  BY MacroReads, TextsAre
<1>4. \A n \in Nibbles :
        HexValue[s[DigitAt(s, n)]] = HexValue[t[DigitAt(t, n)]]
          <=> Lower(s[DigitAt(s, n)]) = Lower(t[DigitAt(t, n)])
  BY <1>3, HexTold
<1>5. Reading(s) = Reading(t) <=> \A n \in Nibbles : Reading(s)[n] = Reading(t)[n]
  BY DEF Reading
<1>6. Spelling(s) = Spelling(t) <=> \A n \in Nibbles : Spelling(s)[n] = Spelling(t)[n]
  BY DEF Spelling
<1>7. \A n \in Nibbles :
        /\ Reading(s)[n] = HexValue[s[DigitAt(s, n)]]
        /\ Reading(t)[n] = HexValue[t[DigitAt(t, n)]]
        /\ Spelling(s)[n] = Lower(s[DigitAt(s, n)])
        /\ Spelling(t)[n] = Lower(t[DigitAt(t, n)])
  BY DEF Reading, Spelling
<1> QED
  BY <1>2, <1>4, <1>5, <1>6, <1>7

(* Of the texts: what is written is one, and every ID declared is the one  *)
(* that seal_id! reads in its text.                                        *)
TextsKnown ==
    /\ literalKind \in LiteralKinds /\ literal \in Seq(Typed) /\ number \in Nat
    /\ Len(declared) \in Nat /\ DOMAIN declared = 1..Len(declared)
    /\ \A d \in DOMAIN declared :
        /\ declared[d].text \in Seq(Typed)
        /\ declared[d].id = IdMacro(declared[d].text)
        /\ declared[d].id # None

LEMMA TextsStayKnown == LiteralsSpec => []TextsKnown
<1>1. LiteralsInit => TextsKnown
  <2> SUFFICES ASSUME LiteralsInit PROVE TextsKnown
    OBVIOUS
  <2>1. literalKind \in LiteralKinds /\ literal \in Starts[literalKind]
    BY DEF LiteralsInit
  <2>2. literal \in Seq(ToSet(literal))
    BY <2>1, LiteralsAssumption
  <2>3. ToSet(literal) \subseteq Typed
    <3>1. ToSet(literal) \subseteq GivenCharacters
      BY <2>1 DEF GivenCharacters
    <3> QED
      BY <3>1 DEF Typed
  <2>4. literal \in Seq(Typed)
    BY <2>2, <2>3
  <2>5. number \in Nat
    BY LiteralsAssumption DEF LiteralsInit
  <2>6. declared = <<>>
    BY DEF LiteralsInit
  <2>7. Len(declared) = 0 /\ DOMAIN declared = {}
    BY <2>6
  <2> QED
    BY <2>1, <2>4, <2>5, <2>7 DEF TextsKnown
<1>2. TextsKnown /\ [LiteralsNext]_literalVars => TextsKnown'
  <2> SUFFICES ASSUME TextsKnown, [LiteralsNext]_literalVars PROVE TextsKnown'
    OBVIOUS
  <2>1. CASE Edit
    <3>1. Alphabet[literalKind] \subseteq Typed
      BY DEF TextsKnown, Typed
    <3>2. literal \in Seq(Typed)
      BY DEF TextsKnown
    <3>3. ASSUME NEW i \in DOMAIN literal, NEW c \in Typed
          PROVE  [literal EXCEPT ![i] = c] \in Seq(Typed)
      BY <3>2
    <3>4. ASSUME NEW i \in 1..Len(literal) + 1, NEW c \in Typed
          PROVE  InsertAt(literal, i, c) \in Seq(Typed)
      <4>1. SubSeq(literal, 1, i - 1) \in Seq(Typed)
        BY <3>2
      <4>2. SubSeq(literal, i, Len(literal)) \in Seq(Typed)
        BY <3>2
      <4> QED
        BY <4>1, <4>2 DEF InsertAt
    <3>5. ASSUME NEW i \in DOMAIN literal PROVE RemoveAt(literal, i) \in Seq(Typed)
      <4>1. SubSeq(literal, 1, i - 1) \in Seq(Typed)
        BY <3>2
      <4>2. SubSeq(literal, i + 1, Len(literal)) \in Seq(Typed)
        BY <3>2
      <4> QED
        BY <4>1, <4>2 DEF RemoveAt
    <3>6. Reform => literal' \in Seq(Typed)
      BY <3>2, ReformsAreTexts DEF Reform
    <3>7. literal' \in Seq(Typed)
      BY <2>1, <3>1, <3>3, <3>4, <3>5, <3>6 DEF Edit, Replace, Insert, Delete
    <3>8. UNCHANGED <<literalKind, number, declared>>
      BY <2>1 DEF Edit
    <3> QED
      BY <3>7, <3>8 DEF TextsKnown
  <2>2. CASE DeclareDerive \/ DeclareImpl
    <3>1. literalKind = "id" /\ literal \in Seq(Typed)
      BY <2>2 DEF DeclareDerive, DeclareImpl, DeclareAs, TextsKnown
    <3>2. ParseUuid(literal) # None =>
            IdMacro(literal) = FromU128(ParseUuid(literal)) /\ IdMacro(literal) # None
      BY <3>1, ParsedByMacro
    <3> DEFINE new == [text |-> literal, id |-> IdMacro(literal)]
    <3>3. /\ IdMacro(literal) # None /\ declared' = Append(declared, new)
          /\ UNCHANGED <<literalKind, literal, number>>
      BY <2>2, <3>2 DEF DeclareDerive, DeclareImpl, DeclareAs
    <3>4. new.text = literal /\ new.id = IdMacro(literal)
      OBVIOUS
    <3> HIDE DEF new
    <3>5. /\ Len(declared') = Len(declared) + 1 /\ DOMAIN declared' = 1..Len(declared')
          /\ declared'[Len(declared) + 1] = new
          /\ \A d \in DOMAIN declared : declared'[d] = declared[d]
      BY <3>3 DEF TextsKnown
    <3>6. \A d \in DOMAIN declared' : d \in DOMAIN declared \/ d = Len(declared) + 1
      BY <3>5 DEF TextsKnown
    <3>7. Len(declared') \in Nat
      BY <3>5 DEF TextsKnown
    <3> QED
      BY <3>1, <3>3, <3>4, <3>5, <3>6, <3>7 DEF TextsKnown
  <2>3. CASE UNCHANGED literalVars
    BY <2>3 DEF TextsKnown, literalVars
  <2> QED
    BY <2>1, <2>2, <2>3 DEF LiteralsNext
<1> QED
  BY <1>1, <1>2, PTL DEF LiteralsSpec

LEMMA CopiesAreAllCaught == TextsKnown => CopiesAreCaught
<1> SUFFICES ASSUME TextsKnown PROVE CopiesAreCaught
  OBVIOUS
<1> DEFINE ids == [d \in DOMAIN declared |-> declared[d].id]
           spelling == [d \in DOMAIN declared |-> Spelling(declared[d].text)]
           Copies(d, e) == Spelling(declared[d].text) = Spelling(declared[e].text)
<1>1. DOMAIN declared = 1..Len(declared) /\ Len(declared) \in Nat
  BY DEF TextsKnown
<1>2. \A d, e \in DOMAIN declared : Equal(ids[d], ids[e]) <=> Copies(d, e)
  BY SpellingsTell DEF TextsKnown
<1>3. \A d, e \in DOMAIN declared : spelling[d] = spelling[e] <=> Copies(d, e)
  OBVIOUS
<1>4. Len(ids) = Len(declared) /\ DOMAIN ids = DOMAIN declared
  BY <1>1
<1>5. DOMAIN spelling = DOMAIN declared
  OBVIOUS
<1>6. \A d, e \in DOMAIN declared : Copies(d, e) <=> Copies(e, d)
  OBVIOUS
<1> HIDE DEF ids, spelling, Copies
<1>7. HasDuplicate(ids) <=>
        \E d \in DOMAIN declared : \E e \in d + 1..Len(declared) : Copies(d, e)
  BY <1>1, <1>2, <1>4 DEF HasDuplicate
<1>8. ~IsInjective(spelling) <=> \E d, e \in DOMAIN declared : Copies(d, e) /\ d # e
  BY <1>3, <1>5 DEF IsInjective
<1>9. (\E d \in DOMAIN declared : \E e \in d + 1..Len(declared) : Copies(d, e)) <=>
            \E d, e \in DOMAIN declared : Copies(d, e) /\ d # e
  <2>1. ASSUME NEW d \in DOMAIN declared, NEW e \in DOMAIN declared, Copies(d, e), d # e
        PROVE  \E x \in DOMAIN declared : \E y \in x + 1..Len(declared) : Copies(x, y)
    <3>1. CASE d < e
      BY <1>1, <2>1, <3>1
    <3>2. CASE e < d
      BY <1>1, <1>6, <2>1, <3>2
    <3> QED
      BY <1>1, <2>1, <3>1, <3>2
  <2>2. \A d \in DOMAIN declared : \A e \in d + 1..Len(declared) :
            e \in DOMAIN declared /\ d # e
    BY <1>1
  <2> QED
    BY <2>1, <2>2
<1>10. CopiesAreCaught <=> (HasDuplicate(ids) <=> ~IsInjective(spelling))
  BY DEF CopiesAreCaught, ids, spelling
<1> QED
  BY <1>7, <1>8, <1>9, <1>10

(* For texts of any length in any characters, and any number: the derives, *)
(* SealId::from_str and, of the texts of 36 characters, seal_id! take the  *)
(* same IDs, as the same bytes; an ID that seal_id! takes in another form  *)
(* is printed as a text that all of them take; copied IDs are caught in    *)
(* whichever form; and the derives and the library take the same names of  *)
(* normalizers and the same numbers.                                       *)
THEOREM LiteralsAreJudgedAlike == LiteralsSpec => []LiteralsAgree
<1>1. TextsKnown => LiteralsAgree
  BY IdsAreAgreed, CopiesAreAllCaught, NormalizersAreAgreed, NumbersAreAgreed
     DEF LiteralsAgree, TextsKnown
<1> QED
  BY <1>1, TextsStayKnown, PTL
=============================================================================
