----------------------------- MODULE ValueStore -----------------------------
(***************************************************************************)
(* What maintenance promises an application: rows hold values, and a value *)
(* changes only when the application writes or deletes it.  A sweep, which *)
(* rewrites bytes, must be invisible here (docs/operations.md, "Each batch *)
(* and each update"; RowPlanner and SweepStore::update).                   *)
(***************************************************************************)
EXTENDS Integers

CONSTANTS
    Ids,        \* primary keys
    Readings    \* what a read of a row may return: values, errors, no row

VARIABLES
    reading,    \* what the application reads from each row
    writes      \* how many writes the application has made

StoreVars == <<reading, writes>>

Init ==
    /\ reading \in [Ids -> Readings]
    /\ writes = 0

(* An insert, an update or a delete of one row.                            *)
Write(id, r) ==
    /\ writes' = writes + 1
    /\ reading' = [reading EXCEPT ![id] = r]

Next == \E id \in Ids, r \in Readings : Write(id, r)

Spec == Init /\ [][Next]_StoreVars
=============================================================================
