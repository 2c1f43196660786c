-------------------------- MODULE MCRotationSearch --------------------------
(***************************************************************************)
(* An instance of RotationSearch for TLC: the deployments and rows of      *)
(* MCSweep, and a third value with the normal form of another.             *)
(***************************************************************************)
EXTENDS RotationSearch, MCSweep

CONSTANT aa   \* the value a, spelled differently

SearchValues == {a, aa, b}
SearchNormalForm == [v \in SearchValues |-> IF v = aa THEN a ELSE v]
SearchDigest == (x1 :> (a :> 0 @@ b :> 0)) @@ (x2 :> (a :> 0 @@ b :> 1))

(* One row may be tampered with under the current key: Current, and        *)
(* unreadable.                                                             *)
SearchTables == {
    (0 :> LegacyRow(a)) @@ (4 :> RowBy(OldPlanner, 4, b)),
    (0 :> IndexStaleRow(0, aa)) @@ (4 :> LegacyRow(b)),
    (0 :> [RowBy(MCPlanner, 0, a) EXCEPT !.ciphertext.authentic = FALSE])
        @@ (4 :> RowBy(OldPlanner, 4, aa))}
=============================================================================
