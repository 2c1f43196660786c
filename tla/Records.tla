------------------------------ MODULE Records -------------------------------
(***************************************************************************)
(* A record in use: the record #[derive(Record)] accepted is sealed,       *)
(* stored, mixed up in its store, opened and looked up, beside a second    *)
(* record type of the same schema.  The code is the seal and open that     *)
(* derive/src/record.rs generates, src/record.rs, the contexts of          *)
(* src/seal_context.rs and src/value.rs, and the check of src/schema.rs.   *)
(*                                                                         *)
(* A store returns any bytes for any cell: of another field, row, record   *)
(* type or time, a whole row in place of another, an absent optional       *)
(* value, another organization's name (docs/security.md).  It cannot make  *)
(* bytes that open: encryption is ideal.                                   *)
(***************************************************************************)
EXTENDS DeriveRecord

CONSTANTS
    UsedTexts,    \* bound: the texts of the fields of a record put to use
    Ids,          \* record IDs, of one kind
    Orgs,         \* a plaintext column: whose the record is
    Values,
    OtherSeals,   \* the seal IDs the other record type may declare
    MaxSaves, MaxMixups   \* bounds: records saved, and cells mixed up

ASSUME RecordsAssumption == MaxSaves \in Nat /\ MaxMixups \in Nat

VARIABLES
    schema,   \* the application the record is part of, once it is
    store,    \* the rows of the two tables
    saved,    \* history: the rows of the first table, as last saved
    saves, mixups

tableVars == <<store, saved, saves, mixups>>
recordsVars == <<recordVars, schema, tableVars>>

Null == [is |-> "null"]
NoRow == [is |-> "no row"]
NoSchema == [is |-> "none"]

(* "perOrg": each organization has a keyring of its own.  "other": the     *)
(* seal ID of the other record type's only sealed field.                   *)
Schemas == [is : {"schema"}, perOrg : BOOLEAN, other : OtherSeals]

Tables == {"record", "other"}

(* The sealed fields of a table, and the seal ID of each.                  *)
SealedFields(t) ==
    IF t = "other" THEN {"value"}
    ELSE {c.name : c \in {c \in Columns : c.index = 0 /\ c.seal # 0}}
Column(name) == CHOOSE c \in Columns : c.name = name
SealOf(t, f) == IF t = "other" THEN schema.other ELSE Column(f).seal
OptionalField(t, f) == IF t = "other" THEN FALSE ELSE Column(f).optional
Indexed(f) == \E c \in Columns : c.index # 0 /\ c.name = ColumnOf[f]

-----------------------------------------------------------------------------
(* Sealing and opening one value.                                          *)

KeyOf(org) == IF schema.perOrg THEN org ELSE "shared"

(* Fault: the record ID is left out.                                       *)
ContextSealOnly(seal, id) == [seal |-> seal, id |-> 0]

(* SealContext::of: the seal ID and the record ID, neither table nor org.  *)
Context(seal, id) == [seal |-> seal, id |-> id]

(* "origin" is history: what was sealed there.                             *)
SealIn(t, f, id, org, value) ==
    [is |-> "sealed", key |-> KeyOf(org), context |-> Context(SealOf(t, f), id),
     origin |-> [table |-> t, field |-> f, id |-> id, org |-> org, value |-> value]]

(* Fault: any key will do.                                                 *)
OpenInAny(cell, seal, id, org) ==
    IF cell.context # Context(seal, id) THEN "AuthenticationFailed" ELSE "Ok"

OpenIn(cell, seal, id, org) ==
    IF cell.key # KeyOf(org) THEN "UnknownEncryptionKey"
    ELSE IF cell.context # Context(seal, id) THEN "AuthenticationFailed"
    ELSE "Ok"

-----------------------------------------------------------------------------
(* Records.                                                                *)

(* Fault: an absent value has no column.                                   *)
SealRecordPresent(t, id, org, present, value) ==
    [is |-> "row", id |-> id, org |-> org,
     cells |-> [f \in present |-> SealIn(t, f, id, org, value)],
     indexes |-> [f \in {f \in present : t = "record" /\ Indexed(f)} |-> value]]

(* Every sealed field under the record's ID; an index column beside each   *)
(* field that has one, absent with its value.                              *)
SealRecord(t, id, org, present, value) ==
    [is |-> "row", id |-> id, org |-> org,
     cells |-> [f \in SealedFields(t) |->
                    IF f \in present THEN SealIn(t, f, id, org, value) ELSE Null],
     indexes |-> [f \in {f \in SealedFields(t) : t = "record" /\ Indexed(f)} |->
                    IF f \in present THEN value ELSE Null]]

(* A present value of an indexed field needs a blind-index keyring.        *)
NeedsIndexKeys(t, present) == t = "record" /\ \E f \in present : Indexed(f)

(* The generated open: the first field that fails to open decides.         *)
OpenRecord(t, row) ==
    LET failed == {f \in SealedFields(t) :
                    /\ row.cells[f] # Null
                    /\ OpenIn(row.cells[f], SealOf(t, f), row.id, row.org) # "Ok"}
    IN  IF failed = {} THEN "Ok" ELSE "Failed"

(* Fault: the row is opened, whatever the caller expects.                  *)
OpenExpectingNothing(t, row, id) == OpenRecord(t, row)

(* Record::open_expecting, for a caller that asked for a record ID.        *)
OpenExpecting(t, row, id) ==
    IF row.id # id THEN "UnexpectedRecord" ELSE OpenRecord(t, row)

(* Index::open_matching over the candidates of a lookup: the rows of one   *)
(* organization whose index column is the query's.                         *)
Candidates(f, org, query) ==
    {k \in Ids : /\ store["record"][k] # NoRow
                 /\ store["record"][k].org = org
                 /\ store["record"][k].indexes[f] = query}

(* Fault: a row that fails to open ends the lookup.                        *)
HitsUntilFailure(f, org, query) ==
    IF \E k \in Candidates(f, org, query) : OpenRecord("record", store["record"][k]) # "Ok"
    THEN {}
    ELSE {k \in Candidates(f, org, query) :
            LET cell == store["record"][k].cells[f]
            IN  IF cell = Null THEN FALSE ELSE cell.origin.value = query}

(* A candidate whose value cannot be normalized is the row's error as      *)
(* well; those of the model were when they were saved, and values are      *)
(* immutable.                                                              *)
Hits(f, org, query) ==
    {k \in Candidates(f, org, query) :
        LET cell == store["record"][k].cells[f]
        IN  /\ OpenRecord("record", store["record"][k]) = "Ok"
            /\ IF cell = Null THEN FALSE ELSE cell.origin.value = query}

(* Manifest::duplicates of the two record types: a seal ID that two fields *)
(* of records declare.                                                     *)
ManifestClean ==
    /\ \A i \in DOMAIN derived.seals : derived.seals[i] # schema.other
    /\ IsInjective(derived.seals)

-----------------------------------------------------------------------------
RecordsInit ==
    /\ DeriveInit
    /\ schema = NoSchema
    /\ store = [t \in Tables |-> [k \in Ids |-> NoRow]]
    /\ saved = [k \in Ids |-> NoRow]
    /\ saves = 0 /\ mixups = 0

Derive == DeriveNext /\ UNCHANGED <<schema, tableVars>>

(* An accepted record becomes part of an application.                      *)
Adopt ==
    /\ IsExpanded /\ schema = NoSchema
    /\ \A i \in DOMAIN fieldsRead : fieldsRead[i].text \in UsedTexts
    /\ schema' \in Schemas
    /\ UNCHANGED <<recordVars, tableVars>>

InUse == schema # NoSchema

(* The sets of fields that may be present.                                 *)
Present(t) == {p \in SUBSET SealedFields(t) : \A f \in SealedFields(t) \ p : OptionalField(t, f)}

(* A record is sealed and stored, or sealing fails and nothing is.         *)
Save ==
    /\ InUse /\ saves < MaxSaves
    /\ \E t \in Tables, id \in Ids, org \in Orgs, value \in Values, indexKeys \in BOOLEAN :
        \E present \in Present(t) :
            LET row == SealRecord(t, id, org, present, value)
                ok == indexKeys \/ ~NeedsIndexKeys(t, present)
            IN  /\ store' = IF ok THEN [store EXCEPT ![t][id] = row] ELSE store
                /\ saved' = IF ok /\ t = "record" THEN [saved EXCEPT ![id] = row] ELSE saved
    /\ saves' = saves + 1
    /\ UNCHANGED <<recordVars, schema, mixups>>

Rows == {p \in Tables \X Ids : store[p[1]][p[2]] # NoRow}
Cells == UNION {{<<p[1], p[2], f>> : f \in SealedFields(p[1])} : p \in Rows}

RowAt(p) == store[p[1]][p[2]]
ReturnAt(p, row) == store' = [store EXCEPT ![p[1]][p[2]] = row]

(* Bytes of one cell are stored in another.                                *)
CopyCell ==
    \E from, to \in Cells :
        /\ from # to
        /\ RowAt(from).cells[from[3]] # Null
        /\ ReturnAt(to, [RowAt(to) EXCEPT !.cells[to[3]] = RowAt(from).cells[from[3]]])

(* A whole row is returned in place of another.                            *)
ReplaceRow ==
    \E from, to \in Rows :
        /\ from[1] = to[1] /\ from # to
        /\ ReturnAt(to, RowAt(from))

(* A plaintext column is edited.                                           *)
EditOrg ==
    \E p \in Rows, org \in Orgs : ReturnAt(p, [RowAt(p) EXCEPT !.org = org])

(* An optional column is set to NULL.                                      *)
Blank ==
    \E c \in Cells :
        /\ OptionalField(c[1], c[3])
        /\ ReturnAt(c, [RowAt(c) EXCEPT !.cells[c[3]] = Null])

MixUp ==
    /\ InUse /\ mixups < MaxMixups
    /\ CopyCell \/ ReplaceRow \/ EditOrg \/ Blank
    /\ mixups' = mixups + 1
    /\ UNCHANGED <<recordVars, schema, saved, saves>>

RecordsNext == Derive \/ Adopt \/ Save \/ MixUp

RecordsSpec == RecordsInit /\ [][RecordsNext]_recordsVars

-----------------------------------------------------------------------------
HasValue(row, f) == row.cells[f] # Null

RecordsTypeOK ==
    /\ InUse => IsExpanded /\ schema \in Schemas
    /\ Rows # {} => InUse
    /\ saves \in 0..MaxSaves /\ mixups \in 0..MaxMixups
    /\ \A p \in Rows :
        LET row == store[p[1]][p[2]]
        IN  /\ row.id \in Ids /\ row.org \in Orgs
            /\ DOMAIN row.cells = SealedFields(p[1])
            /\ DOMAIN row.indexes = {f \in SealedFields(p[1]) : p[1] = "record" /\ Indexed(f)}

(* What opens is what was sealed there: in a schema whose manifest has no  *)
(* duplicate, a value that opens was sealed in the same field of the       *)
(* record whose ID the row holds, and, with a keyring for each             *)
(* organization, by the organization the row names.  "A sealed value       *)
(* copied from another row or field fails to open" (src/record.rs:19).     *)
(* Presence and freshness are not claimed.                                 *)
OpensInPlace ==
    InUse /\ ManifestClean =>
        \A p \in Rows :
            LET row == store[p[1]][p[2]]
            IN  OpenRecord(p[1], row) = "Ok" =>
                    \A f \in SealedFields(p[1]) :
                        HasValue(row, f) =>
                            LET origin == row.cells[f].origin
                            IN  /\ origin.table = p[1] /\ origin.field = f
                                /\ origin.id = row.id
                                /\ schema.perOrg => origin.org = row.org

(* A caller that compares the record ID before it opens reads values of    *)
(* the record it asked for, or none, whichever row the store returns.      *)
AskedIsRead ==
    InUse /\ ManifestClean =>
        \A p \in Rows :
            LET row == store[p[1]][p[2]]
            IN  OpenExpecting(p[1], row, p[2]) = "Ok" =>
                    \A f \in SealedFields(p[1]) :
                        HasValue(row, f) =>
                            row.cells[f].origin.table = p[1] /\ row.cells[f].origin.id = p[2]

(* Values are read in the place they were sealed for, and in no other.     *)
ReadsInPlace == RecordsTypeOK /\ OpensInPlace /\ AskedIsRead

(* A row that is as it was saved is found by each of its indexed values,   *)
(* whatever became of the rows beside it: one that fails to open is its    *)
(* own error and ends no lookup (src/record.rs:177).                       *)
IntactIsFound ==
    InUse =>
        \A k \in Ids :
            store["record"][k] # NoRow /\ store["record"][k] = saved[k] =>
                \A f \in DOMAIN saved[k].indexes :
                    HasValue(saved[k], f) =>
                        k \in Hits(f, saved[k].org, saved[k].cells[f].origin.value)
=============================================================================
