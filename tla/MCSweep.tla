------------------------------ MODULE MCSweep -------------------------------
(***************************************************************************)
(* Instances of Sweep for TLC: two generations of each key, one index      *)
(* column, and small tables whose cursors are not all positive.            *)
(***************************************************************************)
EXTENDS Sweep, TLC

CONSTANTS k1, k2,   \* the historical and the current encryption key
          x1, x2,   \* the historical and the current blind-index key
          users,    \* the seal
          a, b      \* two values

MCKeyIds == {k1, k2}
MCIndexKeyIds == {x1, x2}
MCSeals == {users}
MCValues == {a, b}

(* Every value is its own normal form; under the historical key the two    *)
(* collide.                                                                *)
MCNormalForm == [v \in MCValues |-> v]
MCDigests == {0, 1}
MCDigest == (x1 :> [v \in MCValues |-> 0]) @@ (x2 :> [v \in MCValues |-> IF v = a THEN 0 ELSE 1])

Deployment(key, keys, index, indexes) ==
    [keys |-> [current |-> key, keys |-> keys], seal |-> users, kind |-> "i64",
     padding |-> FALSE, handler |-> TRUE,
     columns |-> <<[bits |-> 32, keys |-> [current |-> index, keys |-> indexes]]>>]

MCPlanner == Deployment(k2, {k1, k2}, x2, {x1, x2})

(* Stage one of the rotation: writers that do not use the new keys yet.    *)
OldPlanner == Deployment(k1, {k1, k2}, x1, {x1, x2})

MCEarlierWriters == {OldPlanner, LegacyWriter}

RowBy(d, id, v) ==
    [ciphertext |-> Seal(RowContext(d, id), d.padding, v, d.keys, 0),
     indexes |-> <<Derive(v, 32, d.columns[1].keys)>>]

LegacyRow(v) ==
    [ciphertext |-> [form |-> "foreign", payload |-> v], indexes |-> <<MissingIndex>>]

(* Only the index names a historical key.                                  *)
IndexStaleRow(id, v) == [RowBy(MCPlanner, id, v) EXCEPT !.indexes = <<IndexOf(v, 32, x1)>>]

(* Bytes no rewrite can handle: another kind of context, a flipped bit     *)
(* under a historical key, bytes the legacy handler does not know, a NULL, *)
(* an index column nobody filled in.                                       *)
MovedRow(id, v) == [RowBy(OldPlanner, id, v) EXCEPT !.ciphertext.fingerprint = "none"]
TamperedRow(id, v) == [RowBy(OldPlanner, id, v) EXCEPT !.ciphertext.authentic = FALSE]
UnknownRow == [LegacyRow(a) EXCEPT !.ciphertext.payload = Undecodable]
NullRow == [LegacyRow(a) EXCEPT !.ciphertext = NullColumn]
BrokenIndexRow(id, v) == [RowBy(MCPlanner, id, v) EXCEPT !.indexes = <<MissingIndex>>]

ThreeIds == {-1, 0, 4}

ThreeRows == {
    (-1 :> LegacyRow(a)) @@ (0 :> RowBy(OldPlanner, 0, b)) @@ (4 :> IndexStaleRow(4, a)),
    (-1 :> RowBy(OldPlanner, -1, a)) @@ (0 :> LegacyRow(b)) @@ (4 :> Absent),
    (-1 :> RowBy(OldPlanner, -1, a)) @@ (0 :> TamperedRow(0, b)) @@ (4 :> LegacyRow(b)),
    (-1 :> LegacyRow(a)) @@ (0 :> MovedRow(0, b)) @@ (4 :> NullRow),
    (-1 :> RowBy(MCPlanner, -1, a)) @@ (0 :> Absent) @@ (4 :> UnknownRow)}

TwoIds == {0, 4}

(* Rows a rotation can finish with.                                        *)
TwoRows == {
    (0 :> LegacyRow(a)) @@ (4 :> RowBy(OldPlanner, 4, b)),
    (0 :> IndexStaleRow(0, b)) @@ (4 :> Absent)}

(* And rows it cannot, or does not notice: bytes tampered with under the   *)
(* current key are Current and stay unreadable.                            *)
TwoPoisonedRows == TwoRows \cup {
    (0 :> [RowBy(MCPlanner, 0, a) EXCEPT !.ciphertext.authentic = FALSE])
        @@ (4 :> RowBy(OldPlanner, 4, b)),
    (0 :> RowBy(OldPlanner, 0, a)) @@ (4 :> BrokenIndexRow(4, b)),
    (0 :> LegacyRow(b)) @@ (4 :> NullRow)}

WorkerSymmetry == Permutations(Workers)
=============================================================================
