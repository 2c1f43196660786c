------------------------------- MODULE MCFleet ------------------------------
(***************************************************************************)
(* An instance of Fleet for TLC: two processes, one row and one index      *)
(* column.  The deployments stage and promote encryption first and the     *)
(* index second, reduce either, enable padding, and begin a third          *)
(* generation before the first is retired; any may be proposed at any      *)
(* time, in the wrong order or as a rollback.                              *)
(***************************************************************************)
EXTENDS Fleet, TLC

CONSTANTS k1, k2, k3, x1, x2, x3, users, a, b, p1, p2

MCKeyIds == {k1, k2, k3}
MCIndexKeyIds == {x1, x2, x3}
MCSeals == {users}
MCValues == {a, b}
MCEncryptionKey == <<k1, k2, k3>>
MCIndexKey == <<x1, x2, x3>>
MCPrecisionOf == <<9>>

(* Under the first key the values collide.                                 *)
MCNormalForm == [v \in MCValues |-> v]
MCDigests == {0, 1}
MCDigest == [x \in MCIndexKeyIds |-> [v \in MCValues |-> IF x # x1 /\ v = a THEN 1 ELSE 0]]

Roles(encryption, index) == [encryption |-> encryption, index |-> index, padding |-> FALSE]

MCFirstDeployment == Roles("1", "1")
MCDeployments ==
    {Roles("1", "1"), Roles("staged", "1"), Roles("staged", "staged"), Roles("2", "staged"),
     Roles("2", "2"), Roles("2", "2-only"), Roles("2-only", "2"), Roles("2-only", "2-only"),
     [Roles("2", "2") EXCEPT !.padding = TRUE],
     Roles("staged-3", "staged-3"), Roles("3", "staged-3"), Roles("3", "3")}

ProcessSymmetry == Permutations(Instances)
=============================================================================
