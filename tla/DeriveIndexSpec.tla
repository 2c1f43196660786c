-------------------------- MODULE DeriveIndexSpec ---------------------------
(***************************************************************************)
(* #[derive(BlindIndexSpec)] of derive/src/blind_index.rs: six keys, all   *)
(* required, on a struct.  The expansion fixes an index's ID, the seal it  *)
(* indexes, its length and the name of its normalizer.                     *)
(***************************************************************************)
EXTENDS Attributes

Struct == shape \in {"unit", "one", "other"}

SpecRefused ==
    (IF generic THEN {"generic"} ELSE {}) \cup (IF Struct THEN {} ELSE {"struct"})

SpecInit == derive = "BlindIndexSpec" /\ AttrInit(SpecRefused)

(* expand, after the attributes are read.                                  *)
SpecExpand ==
    /\ derive = "BlindIndexSpec" /\ expansion = Parsing
    /\ errors' = errors \cup UNION {Missing(k) : k \in SpecKeys}
    /\ expansion' =
        IF errors' # {} THEN Rejected
        ELSE IF \E k \in SpecKeys : values[k] = 0 THEN Unreachable
        ELSE [is |-> "expanded", parts |-> values]
    /\ UNCHANGED <<derive, shape, generic, entries, seen, values>>

-----------------------------------------------------------------------------
(* A declaration of an index, from its text: a struct, not generic, and    *)
(* each key once with its value.                                           *)
SpecDeclares == Struct /\ ~generic /\ WellWritten /\ \A k \in SpecKeys : Names(k)

(* The derive accepts exactly the declarations (blind_index.rs, expand).   *)
SpecAcceptsExactly == Done => (Expanded <=> SpecDeclares)

(* Every part of the spec is the one its entry states: an index whose      *)
(* length, seal or normalizer name were another entry's would find nothing *)
(* (blind_index.rs, expand).                                               *)
SpecNothingIgnored ==
    Expanded => \A i \in DOMAIN entries : expansion.parts[entries[i].key] = i

(* A key is never called missing beside another error about it.            *)
SpecNoErrorTwice ==
    \A e, f \in errors : e.kind = "missing" /\ f.key = e.key => f = e
=============================================================================
