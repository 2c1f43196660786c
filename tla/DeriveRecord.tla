---------------------------- MODULE DeriveRecord ----------------------------
(***************************************************************************)
(* #[derive(Record)] of derive/src/record.rs: how it reads a record's      *)
(* fields, what it checks of them together, and the stored form and schema *)
(* it expands to.                                                          *)
(*                                                                         *)
(* A field is its name, whether it is an Option, and the entries of its    *)
(* #[cryptbox(...)] attributes.  Unlike Attrs::parse, an error ends the    *)
(* attribute it is in, so that the next entry read is of another one, and  *)
(* of a repeated codec, padding or name the last one counts.  The record's *)
(* own attributes name the stored form and are left out, and so are types, *)
(* visibility, documentation and spans.                                    *)
(***************************************************************************)
EXTENDS Naturals, FiniteSets, FiniteSetsExt, SequencesExt

CONSTANTS
    FieldNames,   \* names fields may have
    ColumnOf,     \* "{name}_index": the column of a field's blind index
    FieldTexts,   \* the sequences of entries fields are written with
    MaxFields,    \* bound: fields of the record
    MaxFaulty     \* bound: fields with errors, and generic parameters

Roles == {"record_id", "seal", "plaintext"}
Settings == {"codec", "padding", "name"}
RequiredParts == {"id", "bits", "normalize", "normalizer"}
IndexParts == RequiredParts \cup {"query"}

(* "id" is the ID of a seal or of a blind index, "parts" are the keys      *)
(* inside blind_index(...).  "form" is as in Attributes; a bad role has a  *)
(* value it takes none of, a bad "other" is a key no field has.            *)
EntryTypeOK(e) ==
    /\ e.key \in Roles \cup Settings \cup {"blind_index", "stored", "other"}
    /\ e.parts \subseteq IndexParts
    /\ e.form \in {"good", "bad", "trailing"}
    /\ e.key = "other" => e.form = "bad"
    /\ e.key \in {"record_id", "plaintext"} => e.form # "bad"
    /\ e.id \in Nat
    /\ e.key \in {"seal", "blind_index"} => e.id # 0

IsText(text) == text \in Seq(ToSet(text))

(* What errors that are of no field in particular name.                    *)
WholeRecord == "the record"

ASSUME DeriveRecordAssumption ==
    /\ DOMAIN ColumnOf = FieldNames
    /\ \A f, g \in FieldNames : ColumnOf[f] = ColumnOf[g] => f = g
    /\ \A f \in FieldNames : ColumnOf[f] # f
    /\ WholeRecord \notin FieldNames
    /\ \A text \in FieldTexts : IsText(text) /\ \A i \in DOMAIN text : EntryTypeOK(text[i])
    /\ MaxFields \in Nat /\ MaxFaulty \in Nat

VARIABLES
    named,           \* the item is a struct with named fields
    genericRecord,   \* it has generic parameters
    fieldsRead,      \* history: the fields read
    fields,          \* the fields parse_field returned
    found,           \* the errors so far
    derived          \* what the derive returned

recordVars == <<named, genericRecord, fieldsRead, fields, found, derived>>

RecordParsing == [is |-> "parsing"]
RecordRejected == [is |-> "rejected"]
RecordUnreachable == [is |-> "unreachable"]
FieldError(kind, name, at) == [kind |-> kind, name |-> name, at |-> at]

-----------------------------------------------------------------------------
(* The entries of one field.                                               *)

(* FieldAttrs: settings are the entries they were read from, 0 for none.   *)
NoAttrs ==
    [roles |-> <<>>, seal |-> 0, settings |-> [s \in Settings |-> 0], indexes |-> <<>>,
     stored |-> <<>>, faults |-> {}, read |-> 0]

(* parse_index: of its parts only query has a default.                     *)
IndexComplete(e) == RequiredParts \subseteq e.parts

Faulty(e) == e.form # "good" \/ (e.key = "blind_index" /\ ~IndexComplete(e))
Unread(e) == e.form = "bad" \/ (e.key = "blind_index" /\ ~IndexComplete(e))

IsRead(e, key) == e.key = key /\ ~Unread(e)

(* A role counts before the value of a seal is read.                       *)
ReadEntry(attrs, e) ==
    LET at == attrs.read + 1
    IN  [roles |-> IF e.key \in Roles THEN Append(attrs.roles, e.key) ELSE attrs.roles,
         seal |-> IF IsRead(e, "seal") THEN at ELSE attrs.seal,
         settings |-> [s \in Settings |-> IF IsRead(e, s) THEN at ELSE attrs.settings[s]],
         indexes |-> IF IsRead(e, "blind_index") THEN Append(attrs.indexes, at)
                     ELSE attrs.indexes,
         stored |-> IF IsRead(e, "stored") THEN Append(attrs.stored, at) ELSE attrs.stored,
         faults |-> IF Faulty(e) THEN attrs.faults \cup {at} ELSE attrs.faults,
         read |-> at]

AttrsAfter(text) ==
    LET attrs[n \in 0..Len(text)] ==
            IF n = 0 THEN NoAttrs ELSE ReadEntry(attrs[n - 1], text[n])
    IN  attrs

ParseFieldAttrs(text) == AttrsAfter(text)[Len(text)]

-----------------------------------------------------------------------------
(* parse_field.                                                            *)

Malformed(attrs) == attrs.faults # {}
Given(attrs) == {s \in Settings : attrs.settings[s] # 0}

(* Fault: a field whose attribute was refused is said to have no role.     *)
RoleErrorsTwice(field, attrs) ==
    CASE Len(attrs.roles) = 1 -> {}
      [] attrs.roles = <<>> -> {FieldError("no-role", field.name, 0)}
      [] OTHER -> {FieldError("roles", field.name, 2)}

RoleErrors(field, attrs) ==
    CASE Len(attrs.roles) = 1 -> {}
      [] attrs.roles = <<>> ->
            IF Malformed(attrs) THEN {} ELSE {FieldError("no-role", field.name, 0)}
      [] OTHER -> {FieldError("roles", field.name, 2)}

SealErrors(field, attrs) ==
    IF attrs.seal # 0 /\ Len(attrs.indexes) > 1
    THEN {FieldError("indexes", field.name, attrs.indexes[2])} ELSE {}

(* Settings and blind indexes are of sealed fields only.                   *)
UnsealedErrors(field, attrs) ==
    {FieldError("not-sealed", field.name, attrs.settings[s]) : s \in Given(attrs)}
      \cup {FieldError("not-sealed", field.name, at) : at \in ToSet(attrs.indexes)}

FieldErrors(field, attrs) ==
    {FieldError("entry", field.name, at) : at \in attrs.faults}
      \cup RoleErrors(field, attrs)
      \cup (CASE attrs.roles = <<"seal">> -> SealErrors(field, attrs)
              [] attrs.roles \in {<<"record_id">>, <<"plaintext">>} ->
                    UnsealedErrors(field, attrs)
              [] OTHER -> {})

(* A field is returned once it has its role, a sealed one with its ID.     *)
HasRole(attrs) ==
    /\ Len(attrs.roles) = 1
    /\ attrs.roles[1] = "seal" => attrs.seal # 0

(* Fault: blind indexes after the first are kept.                          *)
KeptIndexesAll(attrs) == attrs.indexes

(* Indexes after the first are reported and dropped.                       *)
KeptIndexes(attrs) == IF attrs.indexes = <<>> THEN <<>> ELSE <<attrs.indexes[1]>>

(* Field, with the IDs of its text.                                        *)
FieldOf(field, attrs) ==
    [name |-> field.name, optional |-> field.optional, role |-> attrs.roles[1],
     seal |-> IF attrs.roles[1] = "seal" THEN field.text[attrs.seal].id ELSE 0,
     settings |-> attrs.settings,
     indexes |-> IF attrs.roles[1] # "seal" THEN <<>>
                 ELSE [x \in DOMAIN KeptIndexes(attrs) |-> field.text[KeptIndexes(attrs)[x]].id]]

ParseField(field) ==
    LET attrs == ParseFieldAttrs(field.text)
    IN  /\ fieldsRead' = Append(fieldsRead, field)
        /\ fields' = IF HasRole(attrs) THEN Append(fields, FieldOf(field, attrs)) ELSE fields
        /\ found' = found \cup FieldErrors(field, attrs)

-----------------------------------------------------------------------------
(* check_record.                                                           *)

WithRole(role) == {i \in DOMAIN fields : fields[i].role = role}
IndexedFields == {i \in WithRole("seal") : fields[i].indexes # <<>>}

(* The IDs declared, by field.                                             *)
Seals == [i \in WithRole("seal") |-> fields[i].seal]
Indexes == [i \in IndexedFields |-> fields[i].indexes[1]]

(* IDs that repeat an earlier one, each named by its field.                *)
Repeats(kind, ids) ==
    {FieldError(kind, fields[i].name, 0) :
        i \in {i \in DOMAIN ids : \E j \in DOMAIN ids : j < i /\ ids[j] = ids[i]}}

(* Fault: a record without an ID passes.                                   *)
RecordIdErrorsExtra ==
    IF Cardinality(WithRole("record_id")) <= 1 THEN {}
    ELSE {FieldError("record-id", WholeRecord, 0)}

RecordIdErrors ==
    (IF Cardinality(WithRole("record_id")) = 1 THEN {} ELSE {FieldError("record-id", WholeRecord, 0)})
      \cup {FieldError("optional", fields[i].name, 0) :
                i \in {i \in WithRole("record_id") : fields[i].optional}}

NoSealErrors == IF WithRole("seal") = {} THEN {FieldError("no-seal", WholeRecord, 0)} ELSE {}

(* Fault: only neighbours are compared.                                    *)
SealIdErrorsNear ==
    {FieldError("seal-id", fields[i].name, 0) :
        i \in {i \in WithRole("seal") :
                i - 1 \in WithRole("seal") /\ fields[i - 1].seal = fields[i].seal}}

SealIdErrors == Repeats("seal-id", Seals)

IndexIdErrors == Repeats("index-id", Indexes)

(* Fault: only the columns before a field's are looked at.                 *)
ColumnErrorsBefore ==
    {FieldError("column", fields[i].name, 0) :
        i \in {i \in IndexedFields : \E j \in DOMAIN fields :
                j <= i /\ fields[j].name = ColumnOf[fields[i].name]}}

ColumnErrors ==
    {FieldError("column", fields[i].name, 0) :
        i \in {i \in IndexedFields : \E j \in DOMAIN fields :
                \/ fields[j].name = ColumnOf[fields[i].name]
                \/ /\ j \in IndexedFields /\ j < i
                   /\ ColumnOf[fields[j].name] = ColumnOf[fields[i].name]}}

CheckRecord ==
    RecordIdErrors \cup NoSealErrors \cup SealIdErrors \cup IndexIdErrors \cup ColumnErrors

-----------------------------------------------------------------------------
(* The expansion.                                                          *)

(* The columns of a field: its own, and that of its blind index.           *)
OwnColumn(field) ==
    [name |-> field.name, seal |-> field.seal, optional |-> field.optional,
     settings |-> field.settings, index |-> 0]
IndexColumn(field) ==
    [OwnColumn(field) EXCEPT !.name = ColumnOf[field.name], !.index = field.indexes[1]]

(* Fault: a blind index's column is written for a value that is always     *)
(* there only.                                                             *)
ColumnsOfPresent(field) ==
    IF field.indexes = <<>> \/ field.optional THEN <<OwnColumn(field)>>
    ELSE <<OwnColumn(field), IndexColumn(field)>>

(* stored_struct: every field in order, an index column after its field.   *)
ColumnsOf(field) ==
    IF field.indexes = <<>> THEN <<OwnColumn(field)>>
    ELSE <<OwnColumn(field), IndexColumn(field)>>

StoredStruct == [i \in DOMAIN fields |-> ColumnsOf(fields[i])]

(* schema_consts, with Seals.                                              *)
Plaintext == [i \in WithRole("plaintext") |-> fields[i].name]

RecordExpanded(recordId) ==
    [is |-> "expanded", stored |-> StoredStruct, seals |-> Seals, plaintext |-> Plaintext,
     recordId |-> recordId]

(* The record as a whole is checked once every field is.                   *)
Expand ==
    /\ derived = RecordParsing
    /\ IF ~named THEN found' = {FieldError("shape", WholeRecord, 0)}
       ELSE found' = IF found # {} THEN found ELSE CheckRecord
    /\ derived' =
        IF found' # {} THEN RecordRejected
        ELSE IF WithRole("record_id") = {} THEN RecordUnreachable
        ELSE RecordExpanded(fields[Min(WithRole("record_id"))].name)
    /\ UNCHANGED <<named, genericRecord, fieldsRead, fields>>

(* A record has no field at all unless it has named ones, and no two of    *)
(* one name.                                                               *)
ReadField ==
    /\ derived = RecordParsing /\ named
    /\ Len(fieldsRead) < MaxFields
    /\ \E name \in FieldNames, optional \in BOOLEAN, text \in FieldTexts :
        /\ \A i \in DOMAIN fieldsRead : fieldsRead[i].name # name
        /\ ParseField([name |-> name, optional |-> optional, text |-> text])
    /\ Cardinality({e.name : e \in found'}) <= MaxFaulty
    /\ UNCHANGED <<named, genericRecord, derived>>

DeriveInit ==
    /\ named \in BOOLEAN /\ genericRecord \in BOOLEAN
    /\ fieldsRead = <<>> /\ fields = <<>>
    /\ found = IF genericRecord THEN {FieldError("generic", WholeRecord, 0)} ELSE {}
    /\ derived = RecordParsing

DeriveNext == ReadField \/ Expand

DeriveSpec == DeriveInit /\ [][DeriveNext]_recordVars

-----------------------------------------------------------------------------
IsExpanded == derived.is = "expanded"

DeriveTypeOK ==
    /\ named \in BOOLEAN /\ genericRecord \in BOOLEAN
    /\ Len(fields) <= Len(fieldsRead) /\ Len(fieldsRead) <= MaxFields
    /\ \A i \in DOMAIN fields : fields[i].role \in Roles /\ Len(fields[i].indexes) <= 1
    /\ derived.is \in {"parsing", "rejected", "unreachable", "expanded"}

(* The columns of the stored form, those of each field after one another.  *)
Columns == UNION {ToSet(derived.stored[i]) : i \in DOMAIN derived.stored}

(* What a field's text declares, entry by entry.                           *)
FieldEntries(i, keys) == {e \in DOMAIN fieldsRead[i].text : fieldsRead[i].text[e].key \in keys}
Is(i, role) == \E e \in FieldEntries(i, {role}) : FieldEntries(i, Roles) = {e}
IdsOf(i, key) == {fieldsRead[i].text[e].id : e \in FieldEntries(i, {key})}

LegalField(i) ==
    /\ \A e \in DOMAIN fieldsRead[i].text : ~Faulty(fieldsRead[i].text[e])
    /\ Cardinality(FieldEntries(i, Roles)) = 1
    /\ Cardinality(FieldEntries(i, {"blind_index"})) <= 1
    /\ ~Is(i, "seal") => FieldEntries(i, Settings \cup {"blind_index"}) = {}

LegalRecord ==
    LET D == DOMAIN fieldsRead
    IN  /\ named /\ ~genericRecord
        /\ \A i \in D : LegalField(i)
        /\ \E i \in D : /\ Is(i, "record_id") /\ ~fieldsRead[i].optional
                        /\ \A j \in D : Is(j, "record_id") => j = i
        /\ \E i \in D : Is(i, "seal")
        /\ \A i, j \in D : i # j =>
            /\ IdsOf(i, "seal") \cap IdsOf(j, "seal") = {}
            /\ IdsOf(i, "blind_index") \cap IdsOf(j, "blind_index") = {}
            /\ FieldEntries(i, {"blind_index"}) # {} =>
                fieldsRead[j].name # ColumnOf[fieldsRead[i].name]

(* The derive accepts exactly the records whose text is legal.  Two fields *)
(* that share a seal ID share a context, so that their stored values could *)
(* be swapped undetected (record.rs:417); an index column that a field     *)
(* already has would be read as it.                                        *)
AcceptsExactly == derived # RecordParsing => (IsExpanded <=> LegalRecord)

(* No field or setting of an accepted record is lost on the way to its     *)
(* stored form, although fields that fail to parse are dropped and errors  *)
(* are checked later: each has its column, in order, its own seal ID, and  *)
(* the last codec, padding and name written; each blind index has one too. *)
NothingDropped ==
    IsExpanded =>
        /\ DOMAIN derived.stored = DOMAIN fieldsRead
        /\ \A i \in DOMAIN fieldsRead :
            LET column == derived.stored[i][1]
            IN  /\ column.name = fieldsRead[i].name /\ column.index = 0
                /\ column.seal \in (IF Is(i, "seal") THEN IdsOf(i, "seal") ELSE {0})
                /\ \A s \in Settings :
                    column.settings[s] = Max({0} \cup FieldEntries(i, {s}))
                /\ IdsOf(i, "blind_index") =
                    {c.index : c \in {c \in Columns :
                        c.index # 0 /\ c.name = ColumnOf[fieldsRead[i].name]}}

(* A field whose attribute was refused is not also said to have no role    *)
(* ("the attribute's own error already says what is wrong", record.rs:173) *)
(* nor one with several.                                                   *)
NoErrorTwice ==
    \A e, f \in found : e.name = f.name /\ e.kind = "no-role" => f = e

(* "the record ID is checked above" (record.rs:592).                       *)
NeverUnreachable == derived # RecordUnreachable

(* The derive accepts exactly the legal records, and expands to what their *)
(* fields say.                                                             *)
RecordsDeclareExactly == DeriveTypeOK /\ AcceptsExactly /\ NothingDropped

(* It reports an error once, and none that it reports or recovers from     *)
(* leaves a part missing behind it.                                        *)
RecordErrorsExact == NoErrorTwice /\ NeverUnreachable
=============================================================================
