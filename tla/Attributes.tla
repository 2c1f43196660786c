----------------------------- MODULE Attributes -----------------------------
(***************************************************************************)
(* Attrs::parse of derive/src/attr.rs: how #[derive(Seal)] and             *)
(* #[derive(BlindIndexSpec)] read the entries of the #[cryptbox(...)]      *)
(* attributes of one item.  Every error that can be recovered from is      *)
(* kept, and the parser goes on with the next entry.                       *)
(*                                                                         *)
(* An entry is a key and how its value is written; types, literals and     *)
(* spans are left out, so an entry stands for its position.  How literals  *)
(* are judged is in Literals.                                              *)
(***************************************************************************)
EXTENDS Naturals, Sequences, FiniteSets

CONSTANTS
    MaxEntries,   \* bound: entries of one item
    MaxErrors     \* bound: errors of one expansion, the missing keys aside

ASSUME AttributesAssumption == MaxEntries \in Nat /\ MaxErrors \in Nat

VARIABLES
    derive,    \* the derive that reads the item
    shape,     \* of the item; "other" is a struct of no field or of several
    generic,   \* the item has generic parameters
    entries,   \* history: the entries read, of all attributes
    seen,      \* keys that appeared, even with an invalid value
    values,    \* where each key's value was read, 0 when it was not
    errors,    \* the errors so far
    expansion  \* what the derive returned

vars == <<derive, shape, generic, entries, seen, values, errors, expansion>>

Shapes == {"unit", "one", "other", "enum", "union"}

Parsing == [is |-> "parsing"]
Rejected == [is |-> "rejected"]
Unreachable == [is |-> "unreachable"]

UnknownName == "other"

SealKeys == {"id", "value", "codec", "transparent", "padding"}
SpecKeys == {"id", "seal", "bits", "query", "normalize", "normalizer"}

(* The keys the derive accepts.                                            *)
Keys == IF derive = "Seal" THEN SealKeys ELSE SpecKeys

(* "good": the value the key wants, or none after a flag.  "bad": another  *)
(* value, or none.  "trailing": a good value and more before the comma.    *)
(* A flag looks ahead, so that more after it is "bad".                     *)
Entries ==
    {e \in [key : Keys \cup {UnknownName}, form : {"good", "bad", "trailing"}] :
        /\ e.key = UnknownName => e.form = "bad"
        /\ e.key = "transparent" => e.form # "trailing"}

(* Why an item is refused for its shape.                                   *)
Reasons == {"generic", "union", "struct"}

Errors ==
    [kind : {"shape", "unknown", "duplicate", "invalid", "trailing", "missing",
             "marker", "single-field", "own-value"},
     key : Keys \cup {UnknownName} \cup Reasons,
     at : Nat]

Error(kind, key, at) == [kind |-> kind, key |-> key, at |-> at]

(* Fault: counted once the entry is already read.                          *)
AtPast == Len(entries) + 2

(* The entry being read.                                                   *)
At == Len(entries) + 1

AttrInit(refused) ==
    /\ shape \in Shapes /\ generic \in BOOLEAN
    /\ entries = <<>>
    /\ seen = {}
    /\ values = [k \in Keys |-> 0]
    /\ errors = {Error("shape", k, 0) : k \in refused}
    /\ expansion = Parsing

(* An entry that is refused is skipped up to the next comma.               *)
UnknownKey(e) ==
    /\ e.key \notin Keys
    /\ errors' = errors \cup {Error("unknown", e.key, At)}
    /\ UNCHANGED <<seen, values>>

(* Fault: the last value of a repeated key is the one that counts.         *)
LastValueWins(e) ==
    /\ e.key \in seen
    /\ e.form = "good"
    /\ values' = [values EXCEPT ![e.key] = At]
    /\ UNCHANGED <<seen, errors>>

DuplicateKey(e) ==
    /\ e.key \in seen
    /\ errors' = errors \cup {Error("duplicate", e.key, At)}
    /\ UNCHANGED <<seen, values>>

(* Fault: a key counts as seen once its value is read.                     *)
InvalidValueUnseen(e) ==
    /\ e.key \in Keys \ seen
    /\ e.form = "bad"
    /\ errors' = errors \cup {Error("invalid", e.key, At)}
    /\ UNCHANGED <<seen, values>>

(* Fault: the error of a value is lost.                                    *)
InvalidValueSilent(e) ==
    /\ e.key \in Keys \ seen
    /\ e.form = "bad"
    /\ seen' = seen \cup {e.key}
    /\ UNCHANGED <<values, errors>>

(* The key counts as seen before its value is read.                        *)
InvalidValue(e) ==
    /\ e.key \in Keys \ seen
    /\ e.form = "bad"
    /\ seen' = seen \cup {e.key}
    /\ errors' = errors \cup {Error("invalid", e.key, At)}
    /\ UNCHANGED values

(* What follows a value ends its attribute: the entries after it are not   *)
(* read, and the next entry is another attribute's.                        *)
ValidValue(e) ==
    /\ e.key \in Keys \ seen
    /\ e.form # "bad"
    /\ seen' = seen \cup {e.key}
    /\ values' = [values EXCEPT ![e.key] = At]
    /\ errors' = IF e.form = "trailing"
                 THEN errors \cup {Error("trailing", e.key, At)} ELSE errors

ParseEntry(e) ==
    /\ expansion = Parsing
    /\ Len(entries) < MaxEntries
    /\ entries' = Append(entries, e)
    /\ UnknownKey(e) \/ DuplicateKey(e) \/ InvalidValue(e) \/ ValidValue(e)
    /\ Cardinality(errors') <= MaxErrors
    /\ UNCHANGED <<derive, shape, generic, expansion>>

(* The error required reports for a value it cannot return.                *)
Missing(k) ==
    IF values[k] = 0 /\ k \notin seen THEN {Error("missing", k, 0)} ELSE {}

-----------------------------------------------------------------------------
(* What the item says, from its text alone.                                *)

Names(k) == \E i \in DOMAIN entries : entries[i].key = k

(* Only known keys, each once and with its value.                          *)
WellWritten ==
    /\ \A i \in DOMAIN entries : entries[i].key \in Keys /\ entries[i].form = "good"
    /\ \A i, j \in DOMAIN entries : entries[i].key = entries[j].key => i = j

Done == expansion # Parsing
Expanded == expansion.is = "expanded"

AttrTypeOK ==
    /\ derive \in {"Seal", "BlindIndexSpec"}
    /\ shape \in Shapes /\ generic \in BOOLEAN
    /\ entries \in Seq(Entries)
    /\ seen \subseteq Keys
    /\ values \in [Keys -> 0..Len(entries)]
    /\ errors \subseteq Errors
=============================================================================
