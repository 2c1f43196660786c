--------------------------- MODULE RotationSearch ---------------------------
(***************************************************************************)
(* Searches while a rotation or migration goes on (Rotation): what an      *)
(* application finds at any moment, between any two statements of a sweep, *)
(* of verification and of other applications.                              *)
(***************************************************************************)
EXTENDS Rotation, Search

(* The deployments that search: the target's, and the earlier ones that    *)
(* already hold both generations.                                          *)
Searchers == {Planner} \cup (EarlierWriters \ {LegacyWriter})

Queries == Values \ Unindexable

Searchable(p) == {c \in DOMAIN p.columns : p.columns[c].keys # NotConfigured}

(* The rows whose value, as an application reads it, matches the query.    *)
Matching(query) ==
    {id \in Present :
        /\ table[id].ciphertext.form # "null"
        /\ ReadError(Planner, id, table[id]) = Ok
        /\ table[id].ciphertext.payload \notin Unindexable
        /\ SameNormalForm(query, table[id].ciphertext.payload)}

(* What nobody can read, or normalize.                                     *)
Unanswerable(id) ==
    \/ ReadError(Planner, id, table[id]) # Ok
    \/ table[id].ciphertext.payload \in Unindexable

(* A transitional lookup by any reader of the rotation answers with every  *)
(* row that matches and no other: whichever generation, writer or sweep a  *)
(* row was last written by, and while rows move from the missing-index     *)
(* marker to an index.  Where every row can be answered for, none fails.   *)
LookupExact ==
    \A p \in Searchers : \A q \in Queries : \A c \in Searchable(p) :
        /\ LookupHits(p, c, q, table, Present) = Matching(q)
        /\ LookupFails(p, c, q, table, Present) => \E id \in Present : Unanswerable(id)

(* After a clean pass permissive lookups and historical keys can go: a     *)
(* search by index alone, with the current generations alone, returns what *)
(* a lookup over both returned before, and what it cannot open it reports. *)
StrictSearchComplete ==
    Certified =>
        \A q \in Queries : \A c \in Searchable(Planner) :
            /\ StrictHits(Retired(Planner), c, q, table, Present) = Matching(q)
            /\ \A id \in StrictFailures(Retired(Planner), c, q, table, Present) :
                Unanswerable(id)
=============================================================================
