---------------------------- MODULE RowLifecycle ----------------------------
(***************************************************************************)
(* One row under everything that may happen to it and to the configuration *)
(* of the field it belongs to: writes, rotations of either key, a change   *)
(* of padding policy, damage, maintenance by RowPlanner, and retirement of *)
(* historical keys.  What Sweep and Rotation do to a table they do to each *)
(* row by the two operators examined here, classify_row and plan_row.      *)
(***************************************************************************)
EXTENDS RowPlanner

CONSTANTS
    Id,               \* the row's primary key
    NumColumns,       \* index columns
    InitialPlanners   \* the configurations a field may begin with

ASSUME RowLifecycleAssumption ==
    /\ Id \in Int
    /\ NumColumns \in Nat
    /\ InitialPlanners \subseteq PlannersOver(NumColumns)

VARIABLES
    planner,   \* the current configuration
    row,       \* the stored bytes
    written,   \* history: the value last written
    damaged    \* history: something other than a writer changed the bytes

vars == <<planner, row, written, damaged>>

(* The row and the configuration keep their types.                         *)
TypeOK ==
    /\ planner \in PlannersOver(NumColumns)
    /\ row \in RowsOver(NumColumns)
    /\ written \in Values
    /\ damaged \in BOOLEAN

-----------------------------------------------------------------------------
(* Writers.  The nonce plays no part here.                                 *)

CanWrite(v) ==
    /\ SealError(planner.padding, v) = Ok
    /\ \A c \in DOMAIN planner.columns : DeriveError(v, planner.columns[c].keys) = Ok

SealedRow(v) ==
    [ciphertext |-> Seal(RowContext(planner, Id), planner.padding, v, planner.keys, 0),
     indexes |-> [c \in DOMAIN planner.columns |->
                     Derive(v, planner.columns[c].bits, planner.columns[c].keys)]]

(* A row from before encryption, with nothing in its index columns.        *)
UnindexedRow(v) ==
    [ciphertext |-> [form |-> "foreign", payload |-> v],
     indexes |-> [c \in 1..NumColumns |-> MissingIndex]]

Init ==
    /\ planner \in InitialPlanners
    /\ written \in Values
    /\ row = UnindexedRow(written)
    /\ damaged = FALSE

Write(v) ==
    /\ CanWrite(v)
    /\ row' = SealedRow(v)
    /\ written' = v
    /\ damaged' = FALSE
    /\ UNCHANGED planner

-----------------------------------------------------------------------------
(* The configuration.                                                      *)

(* Faults: the keyring forgets the previous key, or lacks the current one. *)
RotateForgetting(k) ==
    /\ k # planner.keys.current
    /\ planner' = [planner EXCEPT !.keys = [current |-> k, keys |-> {k}]]
    /\ UNCHANGED <<row, written, damaged>>

RotateWithoutReading(k) ==
    /\ k # planner.keys.current
    /\ planner' = [planner EXCEPT !.keys = [current |-> k, keys |-> @.keys \ {k}]]
    /\ UNCHANGED <<row, written, damaged>>

RotateKey(k) ==
    /\ k # planner.keys.current
    /\ planner' = [planner EXCEPT !.keys = [current |-> k, keys |-> @.keys \cup {k}]]
    /\ UNCHANGED <<row, written, damaged>>

RotateIndexKey(c, k) ==
    /\ planner.columns[c].keys # NotConfigured
    /\ k # planner.columns[c].keys.current
    /\ planner' = [planner EXCEPT !.columns[c].keys =
                      [current |-> k, keys |-> @.keys \cup {k}]]
    /\ UNCHANGED <<row, written, damaged>>

ChangePadding ==
    /\ planner' = [planner EXCEPT !.padding = ~@]
    /\ UNCHANGED <<row, written, damaged>>

(* Fault: historical encryption keys go with the envelope alone in mind.   *)
RetireWithoutIndexes ==
    /\ row.ciphertext.form = "envelope" /\ ~EnvelopeStale(planner, row)
    /\ \A c \in DOMAIN planner.columns : planner.columns[c].keys # NotConfigured
    /\ planner' =
        [planner EXCEPT
            !.keys.keys = {planner.keys.current},
            !.columns = [c \in DOMAIN planner.columns |->
                [planner.columns[c] EXCEPT !.keys.keys = {planner.columns[c].keys.current}]]]
    /\ UNCHANGED <<row, written, damaged>>

(* Historical keys go once the row no longer names them.                   *)
Retire ==
    /\ Classify(planner, Id, row) = "Current"
    /\ planner' =
        [planner EXCEPT
            !.keys.keys = {planner.keys.current},
            !.columns = [c \in DOMAIN planner.columns |->
                [planner.columns[c] EXCEPT !.keys.keys = {planner.columns[c].keys.current}]]]
    /\ UNCHANGED <<row, written, damaged>>

-----------------------------------------------------------------------------
(* Bytes that no writer of this code leaves behind: a damaged header, the  *)
(* bytes of another row or kind of context, the output of defective        *)
(* writers, a damaged index or the index of another value.                 *)

DamagedCiphertexts(e) ==
    {[e EXCEPT !.extent = x] : x \in {"magic", "version", "header"}} \cup
    {[e EXCEPT !.version = 1], [e EXCEPT !.suite = 9],
     [e EXCEPT !.flags = @ \cup {"reserved"}],
     [e EXCEPT !.authentic = FALSE], [e EXCEPT !.fingerprint = "none"],
     [e EXCEPT !.context.id = @ + 1], [e EXCEPT !.payload = Undecodable]} \cup
    {[e EXCEPT !.key = k, !.authentic = FALSE] : k \in KeyIds \ {e.key}} \cup
    IF Padded(e) THEN {[e EXCEPT !.payload = Unpaddable]} ELSE {}

DamagedIndexes(i) ==
    {[i EXCEPT !.extent = "short"], [i EXCEPT !.extent = "uneven"],
     [i EXCEPT !.version = 1], [i EXCEPT !.bits = 0],
     [i EXCEPT !.canonical = FALSE]} \cup
    {[i EXCEPT !.digest = d] : d \in Digests \ {i.digest}}

Damage ==
    /\ ~damaged
    /\ row.ciphertext.form = "envelope"
    /\ \/ \E e \in DamagedCiphertexts(row.ciphertext) :
            row' = [row EXCEPT !.ciphertext = e]
       \/ \E c \in 1..NumColumns : \E i \in DamagedIndexes(row.indexes[c]) :
            row' = [row EXCEPT !.indexes[c] = i]
       \/ row' = [UnindexedRow(written) EXCEPT !.ciphertext.payload = Undecodable]
    /\ damaged' = TRUE
    /\ UNCHANGED <<planner, written>>

-----------------------------------------------------------------------------
(* A sweep reaches the row: plan_row, and the write it plans.              *)
Rewrite ==
    /\ PlanError(planner, Id, row) = Ok
    /\ PlanState(planner, row) # "Current"
    /\ row' = Replacement(planner, Id, row, 0)
    /\ UNCHANGED <<planner, written, damaged>>

Next ==
    \/ \E v \in Values : Write(v)
    \/ \E k \in KeyIds : RotateKey(k)
    \/ \E c \in 1..NumColumns, k \in IndexKeyIds : RotateIndexKey(c, k)
    \/ ChangePadding \/ Retire \/ Damage \/ Rewrite

Spec == Init /\ [][Next]_vars

-----------------------------------------------------------------------------
(* Properties.                                                             *)

(* Verification and sweep agree on every row, damaged or not: what one     *)
(* reports as a state is the state the other plans, a row is left alone    *)
(* iff it is Current, and a row verification counts as malformed stops a   *)
(* run with the same error (classify_row inspects columns lazily, plan_row *)
(* all of them).                                                           *)
ClassifyAgreesWithPlan ==
    LET class == Classify(planner, Id, row)
        error == PlanError(planner, Id, row)
    IN  /\ class \notin RowStates => error = class
        /\ error = Ok => class = PlanState(planner, row)
        /\ class = "Current" => error = Ok

(* One rewrite is enough: what plan_row writes is Current, so a sweep that *)
(* comes back skips it.                                                    *)
RewriteConverges == [][Rewrite => Classify(planner, Id, row)' = "Current"]_vars

(* A rewrite changes no reading, not even from one error to another: an    *)
(* undecodable value is resealed as it is, an unauthentic one is refused.  *)
RewriteKeepsReading ==
    [][Rewrite => Reading(planner, Id, row)' = Reading(planner, Id, row)]_vars

(* Through any order of rotations, policy changes, rewrites and            *)
(* retirements an undamaged row keeps the value written to it, and each of *)
(* its index columns the index of that value under a key still held.       *)
ValueSurvives ==
    ~damaged =>
        /\ Reading(planner, Id, row) = written
        /\ row.ciphertext.form = "envelope" =>
            \A c \in DOMAIN planner.columns :
                planner.columns[c].keys # NotConfigured =>
                    ConsistentWith(written, row.indexes[c], planner.columns[c].bits,
                                   planner.columns[c].keys)

(* The strengthening that makes it inductive: such a row is either as it   *)
(* was before encryption, or an envelope that opens with the keys held,    *)
(* with all its indexes.                                                   *)
Intact ==
    ~damaged =>
        \/ row = UnindexedRow(written)
        \/ /\ row.ciphertext.form = "envelope"
           /\ row.ciphertext.payload = written
           /\ Open(RowContext(planner, Id), row.ciphertext, planner.keys) = Ok
           /\ \A c \in DOMAIN planner.columns :
                /\ planner.columns[c].keys # NotConfigured
                /\ ConsistentWith(written, row.indexes[c], planner.columns[c].bits,
                                  planner.columns[c].keys)

(* Nothing but the value itself can keep an undamaged row from being       *)
(* rewritten: it outgrew a fixed-length padding policy, or a column's      *)
(* normalization refuses it, unless a column has no keys at all.           *)
OnlyValuesStopRewrites ==
    ~damaged => PlanError(planner, Id, row) \in
        {Ok, "PaddingOverflow", "BlindIndexNormalizationFailed",
         "BlindIndexKeysNotConfigured"}
=============================================================================
