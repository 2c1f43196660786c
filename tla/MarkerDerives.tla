---------------------------- MODULE MarkerDerives ---------------------------
(***************************************************************************)
(* The two derives that read an item through Attrs::parse, #[derive(Seal)] *)
(* and #[derive(BlindIndexSpec)], each with its own keys.                  *)
(***************************************************************************)
EXTENDS DeriveSeal, DeriveIndexSpec

MarkerInit == SealInit \/ SpecInit

MarkerNext == (\E e \in Entries : ParseEntry(e)) \/ SealExpand \/ SpecExpand

MarkerSpec == MarkerInit /\ [][MarkerNext]_vars

-----------------------------------------------------------------------------
(* What is read is typed, every value was read at one of the entries, and  *)
(* a seal's parts are positions of its item.                               *)
MarkerTypeOK == AttrTypeOK /\ (derive = "Seal" => SealTypeOK)

(* A derive accepts exactly the declarations: however many errors were     *)
(* recovered from, and in whatever order the entries stand, none is        *)
(* forgotten by the time expand decides (seal.rs and blind_index.rs).      *)
MarkersAcceptExactly ==
    IF derive = "Seal" THEN SealAcceptsExactly ELSE SpecAcceptsExactly

(* No entry of an accepted item is ignored, and none is replaced by a      *)
(* default or by another entry: a padding or codec dropped here changes    *)
(* what is stored without an error.                                        *)
MarkersIgnoreNothing ==
    IF derive = "Seal" THEN SealNothingIgnored ELSE SpecNothingIgnored

(* A key is never called missing beside another error about it (attr.rs,   *)
(* "unless its key was already reported").                                 *)
MarkerErrorsOnce ==
    IF derive = "Seal" THEN SealNoErrorTwice ELSE SpecNoErrorTwice

(* The matches after the errors are checked always succeed, as their       *)
(* message "missing keys are reported above" says (seal.rs:49 and          *)
(* blind_index.rs:79).                                                     *)
MarkersNeverUnreachable == expansion # Unreachable

(* Each derive accepts exactly the declarations, and what it then expands  *)
(* to is what the entries say.                                             *)
MarkersDeclareExactly == MarkerTypeOK /\ MarkersAcceptExactly /\ MarkersIgnoreNothing

(* Each derive reports an error once, and none that it reports or recovers *)
(* from leaves a part missing behind it.                                   *)
MarkerErrorsExact == MarkerErrorsOnce /\ MarkersNeverUnreachable
=============================================================================
