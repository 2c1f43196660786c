--------------------------- MODULE MCRowLifecycle ---------------------------
(***************************************************************************)
(* An instance of RowLifecycle for TLC: two generations of each key, two   *)
(* index columns, and values of which one is too long for the padding      *)
(* policy and one cannot be indexed.                                       *)
(***************************************************************************)
EXTENDS RowLifecycle, TLC

CONSTANTS k1, k2, x1, x2, users, a, long, odd

MCKeyIds == {k1, k2}
MCIndexKeyIds == {x1, x2}
MCSeals == {users}
MCValues == {a, long, odd}
MCOversized == {long}
MCUnindexable == {odd}

(* Two of the values collide under the first index key, others under the   *)
(* second.                                                                 *)
MCNormalForm == [v \in MCValues |-> v]
MCDigests == {0, 1}
MCDigest == (x1 :> [v \in MCValues |-> IF v = a THEN 0 ELSE 1])
         @@ (x2 :> [v \in MCValues |-> IF v = long THEN 0 ELSE 1])

Held(key) == [current |-> key, keys |-> {key}]

PlannerWith(handler, columns) ==
    [keys |-> Held(k1), seal |-> users, kind |-> "i64", padding |-> FALSE,
     handler |-> handler, columns |-> columns]

MCInitialPlanners ==
    {PlannerWith(TRUE, <<[bits |-> 32, keys |-> Held(x1)], [bits |-> 9, keys |-> Held(x1)]>>),
     PlannerWith(FALSE, <<[bits |-> 32, keys |-> Held(x1)], [bits |-> 9, keys |-> NotConfigured]>>)}
=============================================================================
