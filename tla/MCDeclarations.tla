--------------------------- MODULE MCDeclarations ---------------------------
(***************************************************************************)
(* What a schema declares, for TLC: its literals, the items of its derives *)
(* and the records they make, and its manifest.  The four share no         *)
(* variable.  A behavior is of one of them, and the others stay as they    *)
(* begin.                                                                  *)
(***************************************************************************)
EXTENDS Literals, MarkerDerives, Records, Manifest, TLC

-----------------------------------------------------------------------------
(* Literals: every name of up to six characters; IDs one or two edits      *)
(* away from an ID, an ID without hyphens and one in braces, where         *)
(* writing it in another form is an edit, the nil UUID among them; and     *)
(* numbers around every limit.                                             *)

Zeros(n) == [i \in 1..n |-> "0"]
Grouped(last) ==
    Zeros(8) \o <<"-">> \o Zeros(4) \o <<"-">> \o Zeros(4) \o <<"-">> \o Zeros(4) \o <<"-">>
      \o Zeros(11) \o <<last>>

MCStarts ==
    "id" :> {Grouped("a"), Zeros(31) \o <<"a">>, <<"{">> \o Grouped("a") \o <<"}">>}
      @@ "normalizer" :> {<<>>}
      @@ "number" :> {<<>>}
MCAlphabet ==
    "id" :> {"0", "A", "g", "-"}
      @@ "normalizer" :> {"e", "/", "0", "1"}
      @@ "number" :> {}
MCMaxEdits == "id" :> 2 @@ "normalizer" :> 6 @@ "number" :> 0
MCNumbers == {0, 1, 2, 3, 255, 256, 257, 65535, 65536}

-----------------------------------------------------------------------------
(* Records: three fields, one of which has the name of another's index     *)
(* column.  Those put to use have equal or different seal IDs, beside a    *)
(* record type that may share one.                                         *)

MCFieldNames == {"a", "b", "a_index"}
MCColumnOf == "a" :> "a_index" @@ "b" :> "b_index" @@ "a_index" :> "a_index_index"

Entry(key, id, form) == [key |-> key, id |-> id, parts |-> {}, form |-> form]
IndexEntry(id, parts) == [key |-> "blind_index", id |-> id, parts |-> parts, form |-> "good"]

RecordIdEntry == Entry("record_id", 0, "good")
PlaintextEntry == Entry("plaintext", 0, "good")
SealEntry(id) == Entry("seal", id, "good")
IndexedAs(id) == IndexEntry(id, RequiredParts)

MCUsedTexts ==
    {<<RecordIdEntry>>, <<SealEntry(1), IndexedAs(1)>>, <<SealEntry(2)>>}

(* Fields as they should be written, with two seal IDs and two index IDs.  *)
GoodTexts ==
    {<<RecordIdEntry>>, <<PlaintextEntry>>, <<SealEntry(2)>>}
      \cup {<<SealEntry(x), IndexedAs(x)>> : x \in {1, 2}}

(* Everything else that may be said of a field, well or badly.             *)
Others ==
    {Entry("seal", 2, "bad"), Entry("seal", 2, "trailing"),
     Entry("codec", 0, "good"), Entry("codec", 0, "bad"), Entry("other", 0, "bad"),
     IndexEntry(1, RequiredParts \ {"bits"}), IndexedAs(2), PlaintextEntry, SealEntry(2)}

Early == {Entry("codec", 0, "bad"), IndexedAs(2)}
Misplaced == {Entry("codec", 0, "good"), IndexedAs(2), SealEntry(2)}

(* Those of them that may be all that is said of it.                       *)
Alone ==
    Others \ {Entry("other", 0, "bad"), Entry("seal", 2, "trailing"),
              IndexEntry(1, RequiredParts \ {"bits"})}

MCFieldTexts ==
    GoodTexts \cup {<<>>} \cup {<<e>> : e \in Alone}
      \cup {<<SealEntry(1), e>> : e \in Others \ {Entry("codec", 0, "good")}}
      \cup {<<e, SealEntry(1)>> : e \in Early}
      \cup {<<PlaintextEntry, e>> : e \in Misplaced} \cup {<<RecordIdEntry, SealEntry(2)>>}
      \cup {<<SealEntry(1), Entry("codec", 0, form), Entry("codec", 0, "good")>> :
                form \in {"good", "bad"}}
      \cup {<<SealEntry(1), IndexedAs(1), IndexedAs(2)>>}

Symmetry == Permutations(Ids) \cup Permutations(Orgs) \cup Permutations(Values)

-----------------------------------------------------------------------------
(* The manifest: two seals and two indexes that share an ID and a third    *)
(* seal that does not, a record of two fields and a record of another kind *)
(* that shares one of their IDs.                                           *)

MCSealMarkers == {"Email", "EmailCopy", "Phone"}
MCIndexMarkers == {"ByEmail", "ByEmailCopy"}
MCRecordMarkers == {"User", "Account"}
MCSealIdOf == ("Email" :> 1) @@ ("EmailCopy" :> 1) @@ ("Phone" :> 2)
MCIndexIdOf == ("ByEmail" :> 1) @@ ("ByEmailCopy" :> 1)
MCFieldSeals == ("User" :> <<1, 2>>) @@ ("Account" :> <<2>>)
MCRecordKindOf == ("User" :> "uuid") @@ ("Account" :> "i64")
MCContextKinds == {"uuid", "i64", "standalone"}

-----------------------------------------------------------------------------
CONSTANT Parts

VARIABLE part   \* what the behavior is of

(* An item has up to six entries, or up to five with an error among them.  *)
(* Generic ones are unit structs.  A record that is put to use has its ID  *)
(* in the first field.                                                     *)
MCInit ==
    /\ part \in Parts
    /\ LiteralsInit
    /\ part # "literals" => literalKind = "number" /\ number = 1
    /\ MarkerInit
    /\ part = "markers" /\ generic => shape = "unit"
    /\ part # "markers" => derive = "Seal" /\ shape = "unit" /\ ~generic
    /\ RecordsInit
    /\ part # "records" => named /\ ~genericRecord
    /\ ManifestInit

MCNext ==
    \/ /\ part = "literals" /\ LiteralsNext
       /\ UNCHANGED <<part, vars, recordsVars, manifestVars>>
    \/ /\ part = "markers" /\ MarkerNext
       /\ expansion' = Parsing /\ errors' # {} => Len(entries') < MaxEntries
       /\ UNCHANGED <<part, literalVars, recordsVars, manifestVars>>
    \/ /\ part = "records" /\ RecordsNext
       /\ schema' # schema => fieldsRead[1].text = <<RecordIdEntry>>
       /\ UNCHANGED <<part, literalVars, vars, manifestVars>>
    \/ /\ part = "manifest" /\ ManifestNext
       /\ UNCHANGED <<part, literalVars, vars, recordsVars>>

MCSpec ==
    MCInit /\ [][MCNext]_<<part, literalVars, vars, recordsVars, manifestVars>>
=============================================================================
