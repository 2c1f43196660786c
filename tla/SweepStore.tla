----------------------------- MODULE SweepStore -----------------------------
(***************************************************************************)
(* The store a sweep works on and the applications that share it: the      *)
(* SweepStore trait of src/migrate/sweep.rs as src/migrate/table.rs and    *)
(* src/migrate/sqlx_sqlite.rs implement it over one table, one statement   *)
(* at a time with no surrounding transaction.                              *)
(*                                                                         *)
(* Applications write a whole row in one statement.  Before the promotion  *)
(* some of them still write as an earlier deployment did; after it every   *)
(* writer uses the planner's configuration (docs/operations.md).           *)
(***************************************************************************)
EXTENDS RowPlanner, FiniteSets

CONSTANTS
    Ids,              \* primary keys, the scan order and the cursors
    NoCursor,         \* no progress row, and "before the first row"
    Absent,           \* no row
    NumColumns,       \* index columns of the table
    Planner,          \* the sweep's planner, and the target of every writer
    EarlierWriters,   \* how deployments write before the promotion
    LegacyWriter,     \* the deployment that still writes unencrypted bytes
    InitialTables,    \* the tables a rotation may begin with
    RequestedBatch,   \* rows per batch, as with_batch_size is asked for
    MaxWrites         \* bound: application writes

Rows == RowsOver(NumColumns)

ASSUME SweepStoreAssumption ==
    /\ IsFiniteSet(Ids) /\ Ids \subseteq Int
    /\ NoCursor \notin Ids
    /\ NumColumns \in Nat
    /\ Absent \notin Rows
    /\ Planner \in PlannersOver(NumColumns)
    /\ LegacyWriter \notin PlannersOver(NumColumns)
    /\ EarlierWriters \subseteq PlannersOver(NumColumns) \cup {LegacyWriter}
    /\ InitialTables \subseteq [Ids -> Rows \cup {Absent}]
    /\ RequestedBatch \in Nat
    /\ MaxWrites \in Nat

VARIABLES
    table,        \* the stored rows
    checkpoint,   \* the cursor in the progress table, NoCursor when none
    nonces,       \* the next unused nonce of each row
    promoted,     \* every writer uses the target configuration
    author,       \* history: who wrote the row last
    writes        \* history: how often applications wrote

storeVars == <<table, checkpoint, nonces, promoted, author, writes>>

Authors == {"initial", "sweep", "target", "earlier"}

Present == {id \in Ids : table[id] # Absent}

StoreTypeOK ==
    /\ table \in [Ids -> Rows \cup {Absent}]
    /\ checkpoint \in Ids \cup {NoCursor}
    /\ nonces \in [Ids -> Nat]
    /\ promoted \in BOOLEAN
    /\ author \in [Ids -> Authors]
    /\ writes \in 0..MaxWrites

StoreInit ==
    /\ table \in InitialTables
    /\ checkpoint = NoCursor
    /\ nonces = [id \in Ids |-> 1]
    /\ promoted \in BOOLEAN
    /\ author = [id \in Ids |-> "initial"]
    /\ writes = 0

-----------------------------------------------------------------------------
(* The statements.                                                         *)

(* Fault: the requested size is the LIMIT, zero included.                  *)
BatchSizeUnclamped == RequestedBatch

(* with_batch_size: values below one are treated as one.                   *)
BatchSize == IF RequestedBatch = 0 THEN 1 ELSE RequestedBatch

(* SELECT ... WHERE cursor > after ORDER BY cursor LIMIT BatchSize.        *)
Remaining(after) == {id \in Present : after # NoCursor => id > after}

Page(after) ==
    {id \in Remaining(after) :
        Cardinality({j \in Remaining(after) : j <= id}) <= BatchSize}

(* Fault: NULL is loaded as if it were bytes.                              *)
LoadableAlways(page) == \A id \in page : id \in Present

(* Loading a NULL is a store error for the whole batch. So it is in an     *)
(* index column, which the model leaves to the value's.                    *)
Loadable(page) == \A id \in page : table[id].ciphertext.form # "null"

(* Faults: the guard names only the row, or compares a TEXT column with    *)
(* the bytes loaded from it, to which it is never equal.                   *)
GuardOnCursorOnly(id, loaded) == table[id] # Absent

GuardOnStorageClass(id, loaded) ==
    table[id] = loaded /\ loaded.ciphertext.form = "envelope"

(* UPDATE ... WHERE cursor = id AND each column = the bytes loaded from    *)
(* it, with SQLite's TEXT compared as the bytes it was loaded as.          *)
GuardHolds(id, loaded) == table[id] = loaded

-----------------------------------------------------------------------------
(* The applications.                                                       *)

WrittenRow(w, id, v) ==
    IF w = LegacyWriter
    THEN [ciphertext |-> [form |-> "foreign", payload |-> v],
          indexes |-> [c \in 1..NumColumns |-> MissingIndex]]
    ELSE [ciphertext |-> Seal(RowContext(w, id), w.padding, v, w.keys, nonces[id]),
          indexes |-> [c \in DOMAIN w.columns |->
                          Derive(v, w.columns[c].bits, w.columns[c].keys)]]

(* A writer whose seal or derivation fails writes nothing.                 *)
CanWrite(w, v) ==
    w # LegacyWriter =>
        /\ SealError(w.padding, v) = Ok
        /\ \A c \in DOMAIN w.columns : DeriveError(v, w.columns[c].keys) = Ok

Writers == IF promoted THEN {Planner} ELSE EarlierWriters \cup {Planner}

(* An insert or an update: ciphertext and indexes in one statement.        *)
Put(id, v, w) ==
    /\ writes < MaxWrites
    /\ w \in Writers /\ CanWrite(w, v)
    /\ table' = [table EXCEPT ![id] = WrittenRow(w, id, v)]
    /\ nonces' = [nonces EXCEPT ![id] = @ + 1]
    /\ author' = [author EXCEPT ![id] = IF w = Planner THEN "target" ELSE "earlier"]
    /\ writes' = writes + 1
    /\ UNCHANGED <<checkpoint, promoted>>

Delete(id) ==
    /\ writes < MaxWrites
    /\ table[id] # Absent
    /\ table' = [table EXCEPT ![id] = Absent]
    /\ writes' = writes + 1
    /\ UNCHANGED <<checkpoint, nonces, promoted, author>>

(* The last earlier deployment stops writing.                              *)
Promote ==
    /\ ~promoted
    /\ promoted' = TRUE
    /\ UNCHANGED <<table, checkpoint, nonces, author, writes>>

Application ==
    \/ \E id \in Ids, v \in Values, w \in Writers : Put(id, v, w)
    \/ \E id \in Ids : Delete(id)
    \/ Promote
=============================================================================
