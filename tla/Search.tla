------------------------------- MODULE Search -------------------------------
(***************************************************************************)
(* Finding rows by value through one index column: the probes and the      *)
(* candidate check of src/blind.rs and src/record.rs, and the two          *)
(* statements of examples/searchable: search, for a table whose rows are   *)
(* all sealed, and the lookup of a migration under way.                    *)
(*                                                                         *)
(* Each statement reads one snapshot and everything after it works on the  *)
(* rows it returned, so a search is an operator on a table.                *)
(***************************************************************************)
EXTENDS RowPlanner

(* BlindIndex::probes: the query is normalized before the keyring is asked *)
(* for.                                                                    *)
ProbesError(query, keyring) ==
    IF query \in Unindexable THEN "BlindIndexNormalizationFailed"
    ELSE IF keyring = NotConfigured THEN "BlindIndexKeysNotConfigured"
    ELSE Ok

(* Fault: only the current generation is asked for.                        *)
CurrentProbe(query, bits, keyring) == {IndexOf(query, bits, keyring.current)}

(* One probe for every readable generation.                                *)
Probes(query, bits, keyring) == {IndexOf(query, bits, k) : k \in keyring.keys}

Probed(p, c, query, row) ==
    row.indexes[c] \in Probes(query, p.columns[c].bits, p.columns[c].keys)

SameNormalForm(query, value) == NormalForm[query] = NormalForm[value]

-----------------------------------------------------------------------------
(* A candidate is a hit, a miss or an error.                               *)

(* BlindIndex::verify_candidate, for a query that was normalized before.   *)
VerifyCandidate(query, value) ==
    IF value \in Unindexable THEN "BlindIndexNormalizationFailed"
    ELSE IF SameNormalForm(query, value) THEN "hit"
    ELSE "miss"

(* What a row is to a reader that expects an envelope in it.               *)
StrictReadError(p, id, row) ==
    IF Open(RowContext(p, id), row.ciphertext, p.keys) # Ok
    THEN Open(RowContext(p, id), row.ciphertext, p.keys)
    ELSE Decode(row.ciphertext.payload)

(* Index::open_matching: an optional field that is NULL matches nothing, a *)
(* row that fails to open is reported as its error.                        *)
OpenMatching(p, id, row, query) ==
    IF row.ciphertext.form = "null" THEN "miss"
    ELSE IF StrictReadError(p, id, row) # Ok THEN StrictReadError(p, id, row)
    ELSE VerifyCandidate(query, row.ciphertext.payload)

(* The same, of a row that may hold legacy bytes.                          *)
RecoverMatching(p, id, row, query) ==
    IF ReadError(p, id, row) # Ok THEN ReadError(p, id, row)
    ELSE VerifyCandidate(query, row.ciphertext.payload)

-----------------------------------------------------------------------------
(* Tables map primary keys to rows; "ids" are those of the rows present.   *)

(* SELECT ... WHERE index IN (probes).                                     *)
StrictCandidates(p, c, query, table, ids) == {id \in ids : Probed(p, c, query, table[id])}

(* SELECT ... WHERE value IS NOT NULL AND (index is empty OR index IN      *)
(* (probes)): both predicates in one statement.                            *)
TransitionalCandidates(p, c, query, table, ids) ==
    {id \in ids :
        /\ table[id].ciphertext.form # "null"
        /\ table[id].indexes[c] = MissingIndex \/ Probed(p, c, query, table[id])}

(* The rows a search returns, and those it reports as errors.              *)
StrictHits(p, c, query, table, ids) ==
    {id \in StrictCandidates(p, c, query, table, ids) :
        OpenMatching(p, id, table[id], query) = "hit"}

StrictFailures(p, c, query, table, ids) ==
    {id \in StrictCandidates(p, c, query, table, ids) :
        OpenMatching(p, id, table[id], query) \notin {"hit", "miss"}}

(* Those of a lookup; an error of any candidate fails the whole lookup.    *)
LookupHits(p, c, query, table, ids) ==
    {id \in TransitionalCandidates(p, c, query, table, ids) :
        RecoverMatching(p, id, table[id], query) = "hit"}

LookupFails(p, c, query, table, ids) ==
    \E id \in TransitionalCandidates(p, c, query, table, ids) :
        RecoverMatching(p, id, table[id], query) \notin {"hit", "miss"}
=============================================================================
