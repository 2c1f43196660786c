----------------------------- MODULE DeriveSeal -----------------------------
(***************************************************************************)
(* #[derive(Seal)] of derive/src/seal.rs: what it makes of an item's       *)
(* shape and of the entries Attributes read.  The expansion fixes the      *)
(* persistent identity and format of a seal: its ID, its padding, its      *)
(* codec, and whether the codec is the type's own.                         *)
(***************************************************************************)
EXTENDS Attributes

(* Where a part is written, 0 for a default.                               *)
Position == 0..MaxEntries

NoForm == [is |-> "none"]
Forms == [is : {"marker", "self-valued", "transparent"}, value : Position, codec : Position]
Expansions == [is : {"expanded"}, id : Position, padding : Position, form : Forms]

SealRefused ==
    (IF generic THEN {"generic"} ELSE {}) \cup (IF shape = "union" THEN {"union"} ELSE {})

SealInit == derive = "Seal" /\ AttrInit(SealRefused)

Flagged == values["transparent"] # 0
FormOf(is, value, codec) == [is |-> is, value |-> value, codec |-> codec]

(* A unit struct, over a separate value type.                              *)
Marker == shape = "unit"
(* The value is the type's only field.                                     *)
Wrapper == ~Marker /\ values["value"] = 0 /\ Flagged
(* The value is the type.                                                  *)
Whole == ~Marker /\ values["value"] = 0 /\ ~Flagged

(* Fault: the field's default codec, whatever codec is stated.             *)
WrapperFormDefaulted == IF shape = "one" THEN FormOf("transparent", 0, 0) ELSE NoForm

WrapperForm ==
    IF shape = "one" THEN FormOf("transparent", 0, values["codec"]) ELSE NoForm

(* The shape decides only whether the type is its own value.               *)
Form ==
    CASE Marker /\ values["value"] # 0 -> FormOf("marker", values["value"], values["codec"])
      [] Wrapper -> WrapperForm
      [] Whole /\ values["codec"] # 0 -> FormOf("self-valued", 0, values["codec"])
      [] OTHER -> NoForm

MissingCodec ==
    IF values["codec"] = 0 /\ seen \cap {"codec", "transparent"} = {}
    THEN {Error("missing", "codec", 0)} ELSE {}

FormErrors ==
    CASE Marker ->
            Missing("value") \cup {Error("marker", k, 0) : k \in IF Flagged THEN {"transparent"} ELSE {}}
      [] Wrapper /\ shape # "one" -> {Error("single-field", "transparent", 0)}
      [] Whole -> MissingCodec
      [] OTHER -> {Error("own-value", k, 0) : k \in IF Wrapper THEN {} ELSE {"value"}}

(* expand, after the attributes are read.                                  *)
SealExpand ==
    /\ derive = "Seal" /\ expansion = Parsing
    /\ errors' = errors \cup Missing("id") \cup FormErrors
    /\ expansion' =
        IF errors' # {} THEN Rejected
        ELSE IF values["id"] = 0 \/ Form = NoForm THEN Unreachable
        ELSE [is |-> "expanded", id |-> values["id"], padding |-> values["padding"],
              form |-> Form]
    /\ UNCHANGED <<derive, shape, generic, entries, seen, values>>

-----------------------------------------------------------------------------
SealTypeOK == expansion \in {Parsing, Rejected, Unreachable} \cup Expansions

(* A declaration of a seal, from its text: the item is not generic and not *)
(* a union; it has an ID; a unit struct names its value and nothing else   *)
(* does; a type that is its own value names a codec, unless it is stored   *)
(* as its only field.                                                      *)
SealDeclares ==
    /\ WellWritten /\ ~generic /\ shape # "union"
    /\ Names("id")
    /\ Names("value") <=> shape = "unit"
    /\ Names("transparent") => shape = "one"
    /\ shape # "unit" /\ ~Names("transparent") => Names("codec")

(* The derive accepts exactly the declarations: however many errors were   *)
(* recovered from, and in whatever order the entries stand, none is        *)
(* forgotten by the time expand decides (seal.rs, expand).                 *)
SealAcceptsExactly == Done => (Expanded <=> SealDeclares)

(* No entry of an accepted seal is ignored, and none is replaced by a      *)
(* default: the ID, padding, codec and value of the seal are those its     *)
(* entries state, and the codec is the type's own if it is flagged so.  A  *)
(* padding or codec dropped here changes what is stored without an error.  *)
SealNothingIgnored ==
    Expanded => \A i \in DOMAIN entries :
        CASE entries[i].key = "id" -> expansion.id = i
          [] entries[i].key = "padding" -> expansion.padding = i
          [] entries[i].key = "codec" -> expansion.form.codec = i
          [] entries[i].key = "value" -> expansion.form.value = i
          [] entries[i].key = "transparent" -> expansion.form.is = "transparent"

(* A key is never called missing beside another error about it, and no     *)
(* codec is asked for when the flag that makes up for it was refused:      *)
(* required looks at what was seen and not at what was read (attr.rs,      *)
(* "unless its key was already reported").                                 *)
SealNoErrorTwice ==
    \A e \in errors : e.kind = "missing" =>
        \A f \in errors : f # e =>
            f.key \notin (IF e.key = "codec" THEN {"codec", "transparent"} ELSE {e.key})
=============================================================================
