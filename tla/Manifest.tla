------------------------------ MODULE Manifest ------------------------------
(***************************************************************************)
(* The schema manifest of src/schema.rs: what its registrations keep, in   *)
(* the order they are made, and the duplicates it finds.                   *)
(*                                                                         *)
(* Markers are the application's types.  What a marker declares is fixed   *)
(* at compile time, so it is a constant; names, codecs and the rendered    *)
(* lines are left out.                                                     *)
(***************************************************************************)
EXTENDS Naturals, FiniteSets, SequencesExt

CONSTANTS
    SealMarkers, IndexMarkers, RecordMarkers,   \* types that declare a schema
    SealIdOf,        \* the seal ID each seal declares
    IndexIdOf,       \* the index ID each blind index declares
    FieldSeals,      \* the seal IDs of a record's sealed fields, in order
    RecordKindOf,    \* the kind of a record's ID
    ContextKinds,    \* kinds of context, with NoKind for standalone values
    NoMarker,        \* a context registered by a record
    MaxCalls         \* bound: different registrations

ASSUME ManifestAssumption ==
    /\ NoMarker \notin SealMarkers
    /\ \A R \in RecordMarkers :
        /\ RecordKindOf[R] \in ContextKinds
        /\ FieldSeals[R] \in Seq(ToSet(FieldSeals[R]))
    /\ MaxCalls \in Nat

VARIABLES
    seals, indexes, records,   \* markers, in order of registration
    contexts,                  \* where a seal's values are stored
    calls                      \* history: the set of registrations made

registered == <<seals, indexes, records, contexts>>
manifestVars == <<seals, indexes, records, contexts, calls>>

ManifestInit ==
    /\ seals = <<>> /\ indexes = <<>> /\ records = <<>> /\ contexts = <<>>
    /\ calls = {}

(* A vector that keeps one entry for each key.                             *)
PushNew(vector, entry) == IF Contains(vector, entry) THEN vector ELSE Append(vector, entry)

Call(name, marker, kind) ==
    LET call == [name |-> name, marker |-> marker, kind |-> kind]
    IN  /\ call \in calls \/ Cardinality(calls) < MaxCalls
        /\ calls' = calls \cup {call}

Seal(F) ==
    /\ Call("seal", F, NoMarker)
    /\ seals' = PushNew(seals, F)
    /\ UNCHANGED <<indexes, records, contexts>>

(* The context first, then the seal.                                       *)
Sealed(F, kind) ==
    /\ Call("sealed", F, kind)
    /\ contexts' = PushNew(contexts, [seal |-> SealIdOf[F], marker |-> F, kind |-> kind])
    /\ seals' = PushNew(seals, F)
    /\ UNCHANGED <<indexes, records>>

Index(I) ==
    /\ Call("index", I, NoMarker)
    /\ indexes' = PushNew(indexes, I)
    /\ UNCHANGED <<seals, records, contexts>>

FieldContexts(R) ==
    [f \in DOMAIN FieldSeals[R] |->
        [seal |-> FieldSeals[R][f], marker |-> NoMarker, kind |-> RecordKindOf[R]]]

(* Fault: a record registers no contexts.                                  *)
RecordWithoutContexts(R) ==
    /\ Call("record", R, NoMarker)
    /\ records' = PushNew(records, R)
    /\ UNCHANGED <<seals, indexes, contexts>>

(* Its seals' contexts go with it, and stay as many as its fields.         *)
Record(R) ==
    /\ Call("record", R, NoMarker)
    /\ records' = PushNew(records, R)
    /\ contexts' = IF Contains(records, R) THEN contexts ELSE contexts \o FieldContexts(R)
    /\ UNCHANGED <<seals, indexes>>

ManifestNext ==
    \/ \E F \in SealMarkers : Seal(F)
    \/ \E F \in SealMarkers, kind \in ContextKinds : Sealed(F, kind)
    \/ \E I \in IndexMarkers : Index(I)
    \/ \E R \in RecordMarkers : Record(R)

ManifestSpec == ManifestInit /\ [][ManifestNext]_manifestVars

-----------------------------------------------------------------------------
(* duplicates.  Entries are grouped by ID; the groups of more than one are *)
(* kept.  "ids" are the IDs declared in each place.                        *)

SharedIds(ids) ==
    {ids[i] : i \in {i \in DOMAIN ids : \E j \in DOMAIN ids : j # i /\ ids[j] = ids[i]}}

SealIds == [i \in DOMAIN seals |-> SealIdOf[seals[i]]]
IndexIds == [i \in DOMAIN indexes |-> IndexIdOf[indexes[i]]]

(* The fields of the records registered, by record and field.              *)
RecordFields ==
    UNION {{<<i, f>> : f \in DOMAIN FieldSeals[records[i]]} : i \in DOMAIN records}
RecordFieldIds == [p \in RecordFields |-> FieldSeals[records[p[1]]][p[2]]]

KindsOf(id) == {context.kind : context \in {x \in ToSet(contexts) : x.seal = id}}

SharedContexts ==
    {id \in {context.seal : context \in ToSet(contexts)} : \E k, l \in KindsOf(id) : k # l}

Duplicates ==
    {<<"Seal", id>> : id \in SharedIds(SealIds)}
      \cup {<<"Index", id>> : id \in SharedIds(IndexIds)}
      \cup {<<"Context", id>> : id \in SharedContexts}
      \cup {<<"RecordField", id>> : id \in SharedIds(RecordFieldIds)}

-----------------------------------------------------------------------------
(* The reference: what two declarations of the program have in common,     *)
(* whatever the order and number of the calls that registered them.        *)

Made(names) == {call \in calls : call.name \in names}

Stored ==
    {<<SealIdOf[call.marker], call.kind>> : call \in Made({"sealed"})}
      \cup UNION {{<<FieldSeals[call.marker][f], RecordKindOf[call.marker]>> :
                        f \in DOMAIN FieldSeals[call.marker]} : call \in Made({"record"})}

FieldsMade ==
    UNION {{<<call.marker, f>> : f \in DOMAIN FieldSeals[call.marker]} : call \in Made({"record"})}

Confusions ==
    {<<"Seal", SealIdOf[F]>> : F \in
        {F \in SealMarkers : \E c, d \in Made({"seal", "sealed"}) :
            c.marker = F /\ d.marker # F /\ SealIdOf[d.marker] = SealIdOf[F]}}
      \cup {<<"Index", IndexIdOf[I]>> : I \in
        {I \in IndexMarkers : \E c, d \in Made({"index"}) :
            c.marker = I /\ d.marker # I /\ IndexIdOf[d.marker] = IndexIdOf[I]}}
      \cup {<<"Context", s[1]>> : s \in
        {s \in Stored : \E t \in Stored : t[1] = s[1] /\ t[2] # s[2]}}
      \cup {<<"RecordField", FieldSeals[x[1]][x[2]]>> : x \in
        {x \in FieldsMade : \E y \in FieldsMade :
            y # x /\ FieldSeals[y[1]][y[2]] = FieldSeals[x[1]][x[2]]}}

(* The manifest reports a confusion exactly when two registered            *)
(* declarations have it: none is missed because its two halves came        *)
(* through different calls, none appears because one was registered twice. *)
DuplicatesExact == Duplicates = Confusions
=============================================================================
