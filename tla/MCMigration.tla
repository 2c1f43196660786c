---------------------------- MODULE MCMigration -----------------------------
(***************************************************************************)
(* Instances of Migration for TLC: the mixed formats the seed command      *)
(* stores, with the deployments of MCSweep.                                *)
(***************************************************************************)
EXTENDS Migration, MCSweep

CONSTANTS o1, o2   \* two operators

CollisionRow(v) == [LegacyRow(v) EXCEPT
    !.ciphertext = [RowBy(MCPlanner, 0, v).ciphertext EXCEPT !.version = CollisionVersion]]

MixedIds == {0, 4}
MixedTables == {
    (0 :> LegacyRow(a)) @@ (4 :> CollisionRow(b)),
    (0 :> BrokenIndexRow(0, a)) @@ (4 :> RowBy(OldPlanner, 4, a))}

ClosingTables == {(0 :> LegacyRow(a)) @@ (4 :> CollisionRow(b))}

OperatorSymmetry == Permutations(Operators)
=============================================================================
