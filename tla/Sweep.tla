------------------------------- MODULE Sweep --------------------------------
(***************************************************************************)
(* Sweep::run (src/migrate/sweep.rs): batches of rows, each rewritten by a *)
(* compare-and-swap, and a durable checkpoint after every batch.           *)
(*                                                                         *)
(* Each worker is one process calling run on the same progress row.  The   *)
(* documentation asks for one owner; the library does not enforce it, so   *)
(* the safety properties are checked for several.  Between the store calls *)
(* of a worker, applications and other workers act.                        *)
(***************************************************************************)
EXTENDS SweepStore

CONSTANTS
    Workers,      \* processes that call run
    MaxAborts     \* bound: crashes, store errors and failures of randomness

ASSUME SweepAssumption == MaxAborts \in Nat

VARIABLES
    pc,           \* where each worker is: between runs, or at a store call
    cursor,       \* its in-memory cursor
    batch,        \* the loaded rows it has not processed yet
    last,         \* the cursor of the last row of its batch
    report,       \* its SweepReport
    aborts        \* how many runs were cut short

runVars == <<pc, cursor, batch, last, report, aborts>>
sweepVars == <<storeVars, runVars>>

NoBatch == [id \in Ids |-> Absent]

Fields == {"current", "stale", "legacy", "malformed", "conflicts"}

EmptyReport == [f \in Fields |-> 0]

Tally(state) == CASE state = "Current" -> "current"
                  [] state = "Stale" -> "stale"
                  [] state = "Legacy" -> "legacy"

(* A loaded row: bytes in every column (SweepRow).                         *)
SweepRows == {row \in Rows : row.ciphertext.form # "null"}

RunTypeOK ==
    /\ pc \in [Workers -> {"idle", "load", "process", "done"}]
    /\ cursor \in [Workers -> Ids \cup {NoCursor}]
    /\ batch \in [Workers -> [Ids -> SweepRows \cup {Absent}]]
    /\ last \in [Workers -> Ids \cup {NoCursor}]
    /\ report \in [Workers -> [Fields -> Nat]]
    /\ aborts \in 0..MaxAborts

(* Every variable keeps its type (SweepReport's counters included).        *)
TypeOK == StoreTypeOK /\ RunTypeOK

RunInit ==
    /\ pc = [w \in Workers |-> "idle"]
    /\ cursor = [w \in Workers |-> NoCursor]
    /\ batch = [w \in Workers |-> NoBatch]
    /\ last = [w \in Workers |-> NoCursor]
    /\ report = [w \in Workers |-> EmptyReport]
    /\ aborts = 0

-----------------------------------------------------------------------------
(* The run is over: its cursor, its batch and everything else it kept in   *)
(* memory is gone.                                                         *)
EndRun(w, as) ==
    /\ pc' = [pc EXCEPT ![w] = as]
    /\ cursor' = [cursor EXCEPT ![w] = NoCursor]
    /\ batch' = [batch EXCEPT ![w] = NoBatch]
    /\ last' = [last EXCEPT ![w] = NoCursor]

Count(w, field) == report' = [report EXCEPT ![w][field] = @ + 1]

(* Fault: run begins with the first row whatever the progress row says.    *)
StartOver(w) ==
    /\ pc[w] \in {"idle", "done"}
    /\ pc' = [pc EXCEPT ![w] = "load"]
    /\ cursor' = [cursor EXCEPT ![w] = NoCursor]
    /\ report' = [report EXCEPT ![w] = EmptyReport]
    /\ UNCHANGED <<storeVars, batch, last, aborts>>

(* The operator calls run, again if it likes: load_checkpoint.             *)
Start(w) ==
    /\ pc[w] \in {"idle", "done"}
    /\ pc' = [pc EXCEPT ![w] = "load"]
    /\ cursor' = [cursor EXCEPT ![w] = checkpoint]
    /\ report' = [report EXCEPT ![w] = EmptyReport]
    /\ UNCHANGED <<storeVars, batch, last, aborts>>

(* load_batch, when it returns rows.                                       *)
LoadBatch(w) ==
    /\ pc[w] = "load"
    /\ Loadable(Page(cursor[w]))
    /\ \E id \in Page(cursor[w]) :
        /\ \A j \in Page(cursor[w]) : j <= id
        /\ last' = [last EXCEPT ![w] = id]
    /\ batch' = [batch EXCEPT ![w] =
                    [id \in Ids |-> IF id \in Page(cursor[w]) THEN table[id] ELSE Absent]]
    /\ pc' = [pc EXCEPT ![w] = "process"]
    /\ UNCHANGED <<storeVars, cursor, report, aborts>>

(* A batch with a NULL in it stops the run.                                *)
LoadFails(w) ==
    /\ pc[w] = "load"
    /\ ~Loadable(Page(cursor[w]))
    /\ EndRun(w, "idle")
    /\ UNCHANGED <<storeVars, report, aborts>>

(* An empty batch ends the run: its report is returned.                    *)
Finish(w) ==
    /\ pc[w] = "load"
    /\ Page(cursor[w]) = {}
    /\ EndRun(w, "done")
    /\ UNCHANGED <<storeVars, report, aborts>>

Pending(w) == {id \in Ids : batch[w][id] # Absent}

(* Rows are processed in the order they were loaded.                       *)
Turn(w, id) ==
    /\ pc[w] = "process"
    /\ id \in Pending(w)
    /\ \A j \in Pending(w) : id <= j

Planned(w, id) == PlanError(Planner, id, batch[w][id]) = Ok

(* Fault: a row plan_row rejects is counted and passed over, as in verify. *)
RejectRowAndGoOn(w, id) ==
    /\ Turn(w, id)
    /\ ~Planned(w, id)
    /\ batch' = [batch EXCEPT ![w][id] = Absent]
    /\ Count(w, "malformed")
    /\ UNCHANGED <<storeVars, pc, cursor, last, aborts>>

(* plan_row fails: the run stops here and the checkpoint still names the   *)
(* batch before this one.                                                  *)
RejectRow(w, id) ==
    /\ Turn(w, id)
    /\ ~Planned(w, id)
    /\ EndRun(w, "idle")
    /\ UNCHANGED <<storeVars, report, aborts>>

(* The planned row is skipped, rewritten, or lost to another writer.       *)
SkipRow(w, id) ==
    /\ Turn(w, id)
    /\ Planned(w, id)
    /\ PlanState(Planner, batch[w][id]) = "Current"
    /\ batch' = [batch EXCEPT ![w][id] = Absent]
    /\ Count(w, "current")
    /\ UNCHANGED <<storeVars, pc, cursor, last, aborts>>

(* Fault: the update sets the columns the plan changed, unguarded.         *)
RewriteChangedColumns(w, id) ==
    LET new == Replacement(Planner, id, batch[w][id], nonces[id]) IN
    /\ Turn(w, id)
    /\ Planned(w, id)
    /\ PlanState(Planner, batch[w][id]) # "Current"
    /\ table[id] # Absent
    /\ table' = [table EXCEPT
                    ![id].ciphertext =
                        IF new.ciphertext = batch[w][id].ciphertext THEN @ ELSE new.ciphertext,
                    ![id].indexes = new.indexes]
    /\ nonces' = [nonces EXCEPT ![id] = @ + 1]
    /\ author' = [author EXCEPT ![id] = "sweep"]
    /\ batch' = [batch EXCEPT ![w][id] = Absent]
    /\ Count(w, Tally(PlanState(Planner, batch[w][id])))
    /\ UNCHANGED <<checkpoint, promoted, writes, pc, cursor, last, aborts>>

RewriteRow(w, id) ==
    /\ Turn(w, id)
    /\ Planned(w, id)
    /\ PlanState(Planner, batch[w][id]) # "Current"
    /\ GuardHolds(id, batch[w][id])
    /\ table' = [table EXCEPT ![id] = Replacement(Planner, id, batch[w][id], nonces[id])]
    /\ nonces' = [nonces EXCEPT ![id] = @ + 1]
    /\ author' = [author EXCEPT ![id] = "sweep"]
    /\ batch' = [batch EXCEPT ![w][id] = Absent]
    /\ Count(w, Tally(PlanState(Planner, batch[w][id])))
    /\ UNCHANGED <<checkpoint, promoted, writes, pc, cursor, last, aborts>>

LoseRow(w, id) ==
    /\ Turn(w, id)
    /\ Planned(w, id)
    /\ PlanState(Planner, batch[w][id]) # "Current"
    /\ ~GuardHolds(id, batch[w][id])
    /\ batch' = [batch EXCEPT ![w][id] = Absent]
    /\ Count(w, "conflicts")
    /\ UNCHANGED <<storeVars, pc, cursor, last, aborts>>

(* Fault: the checkpoint is saved before the batch is processed.           *)
SaveCheckpointFirst(w) ==
    /\ pc[w] = "process"
    /\ checkpoint' = last[w]
    /\ checkpoint' # checkpoint \/ Pending(w) = {}
    /\ IF Pending(w) = {}
       THEN /\ cursor' = [cursor EXCEPT ![w] = last[w]]
            /\ pc' = [pc EXCEPT ![w] = "load"]
       ELSE UNCHANGED <<cursor, pc>>
    /\ UNCHANGED <<table, nonces, promoted, author, writes, batch, last, report, aborts>>

(* save_checkpoint, once the whole batch is behind.                        *)
SaveCheckpoint(w) ==
    /\ pc[w] = "process"
    /\ Pending(w) = {}
    /\ checkpoint' = last[w]
    /\ cursor' = [cursor EXCEPT ![w] = last[w]]
    /\ pc' = [pc EXCEPT ![w] = "load"]
    /\ UNCHANGED <<table, nonces, promoted, author, writes, batch, last, report, aborts>>

(* A crash, a store error, or randomness that is unavailable.  A statement *)
(* whose error hides that it took effect is that statement, then Abort.    *)
Abort(w) ==
    /\ aborts < MaxAborts
    /\ pc[w] \in {"load", "process"}
    /\ EndRun(w, "idle")
    /\ aborts' = aborts + 1
    /\ UNCHANGED <<storeVars, report>>

(* The operator names a fresh progress row, or the old one is lost.        *)
FreshProgress ==
    /\ \A w \in Workers : pc[w] \in {"idle", "done"}
    /\ checkpoint # NoCursor
    /\ checkpoint' = NoCursor
    /\ UNCHANGED <<table, nonces, promoted, author, writes, runVars>>

(* The steps of a run that is under way.                                   *)
Proceed(w) ==
    \/ LoadBatch(w) \/ LoadFails(w) \/ Finish(w) \/ SaveCheckpoint(w)
    \/ \E id \in Ids :
        RejectRow(w, id) \/ SkipRow(w, id) \/ RewriteRow(w, id) \/ LoseRow(w, id)

Run == \E w \in Workers : Start(w) \/ Proceed(w) \/ Abort(w)

Init == StoreInit /\ RunInit

Next == Run \/ FreshProgress \/ (Application /\ UNCHANGED runVars)

Spec == Init /\ [][Next]_sweepVars

-----------------------------------------------------------------------------
(* Safety.                                                                 *)

(* A row the rotation is finished with, unless an earlier deployment wrote *)
(* it last.                                                                *)
Settled(id) ==
    \/ table[id] = Absent
    \/ Classify(Planner, id, table[id]) = "Current"
    \/ author[id] = "earlier"

Covered(c) == c # NoCursor => \A id \in Ids : id <= c => Settled(id)

(* The checkpoint is never ahead of the work: whatever crashed, raced or   *)
(* failed, each row at or behind the durable cursor is gone, is current,   *)
(* or was written by an earlier deployment after the sweep read it.  In    *)
(* particular no run gets past a row plan_row rejects (run's promise that  *)
(* the durable checkpoint names the last fully processed batch).           *)
CheckpointCovers == Covered(checkpoint)

(* The strengthening that makes it inductive: the same of the in-memory    *)
(* cursor, and of each row of the batch under way that is processed or     *)
(* has changed since it was loaded.                                        *)
CursorsCover == \A w \in Workers : Covered(cursor[w])

BatchCovers(w) ==
    pc[w] = "process" =>
        /\ last[w] # NoCursor
        /\ \A id \in Ids : id <= last[w] =>
            Settled(id) \/ (batch[w][id] # Absent /\ table[id] = batch[w][id])

BatchesCover == \A w \in Workers : BatchCovers(w)

Coverage == CheckpointCovers /\ CursorsCover /\ BatchesCover

(* Progress moves forward only, until the operator starts afresh.  It      *)
(* takes a single owner: two workers on one progress row can set it back.  *)
ProgressAdvances ==
    [][checkpoint' # checkpoint /\ checkpoint # NoCursor =>
        \/ checkpoint' = NoCursor /\ \A w \in Workers : pc[w] \in {"idle", "done"}
        \/ checkpoint' # NoCursor /\ checkpoint' > checkpoint]_sweepVars

(* A single owner loses a rewrite only to an application: a run reports no *)
(* more conflicts than the applications made writes.  A guard that could   *)
(* not match what was loaded (SQLite's TEXT against a BLOB, a NULL) would  *)
(* report one and skip the row.                                            *)
NoSpuriousConflicts == \A w \in Workers : report[w]["conflicts"] <= writes

(* What the comment on Sweep says of a crash between an update and the     *)
(* checkpoint (src/migrate/sweep.rs, "A rewrite replayed after a crash     *)
(* loses its compare-and-swap and counts as a conflict"): a run that comes *)
(* to a row an aborted run rewrote counts a conflict.  It does not: the    *)
(* row is loaded afresh, is Current, and is skipped.                       *)
ReplayedRewriteConflicts ==
    [][\A w \in Workers, id \in Ids :
        Turn(w, id) /\ author[id] = "sweep" /\ aborts > 0
            /\ pc'[w] = "process" /\ batch'[w][id] = Absent
            => report'[w]["conflicts"] = report[w]["conflicts"] + 1]_sweepVars

(* Whoever wrote last, every index column of a readable envelope was       *)
(* computed from the value the envelope holds, so that a search by that    *)
(* value finds the row: the rewrite is one statement guarded on every      *)
(* column, and a stale or missing index is derived from the plaintext.     *)
IndexesConsistent ==
    \A id \in Present :
        LET row == table[id] IN
        row.ciphertext.form = "envelope" /\ ReadError(Planner, id, row) = Ok =>
            \A c \in DOMAIN Planner.columns :
                ConsistentWith(row.ciphertext.payload, row.indexes[c],
                               Planner.columns[c].bits, Planner.columns[c].keys)

ReadFailures ==
    {"Null", "InvalidEnvelope", "UnsupportedFormatVersion", "UnsupportedSuite",
     "UnsupportedFlags", "ContextMismatch", "UnknownEncryptionKey",
     "AuthenticationFailed", "InvalidPadding", "LegacyRecoveryFailed", "CodecFailed"}

(* What an application reads from a row, and what it may ever read.        *)
RowReading(id, row) ==
    IF row = Absent THEN Absent
    ELSE IF row.ciphertext.form = "null" THEN "Null"
    ELSE Reading(Planner, id, row)

ReadingOf(id) == RowReading(id, table[id])

(* Only applications change what is read: every step of a sweep, rewrites  *)
(* that race with a writer or follow a crash included, leaves every value  *)
(* (or error) as it was, so no concurrent write is ever lost.              *)
AppStore == INSTANCE ValueStore WITH
    Readings <- Values \cup {Absent} \cup ReadFailures,
    reading <- [id \in Ids |-> ReadingOf(id)]

AppSpec == AppStore!Spec
=============================================================================
