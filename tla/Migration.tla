------------------------------ MODULE Migration -----------------------------
(***************************************************************************)
(* Closing the window of a legacy migration: the application of            *)
(* examples/searchable/migration.rs around Sweep.  Beside the sweep,       *)
(* operators repair and quarantine single rows in transactions of their    *)
(* own, a discriminator table marks rows whose legacy bytes begin with the *)
(* magic of an envelope, lookups recover what they select, and in the end  *)
(* permissive reads are given up for strict ones.                          *)
(*                                                                         *)
(* A transaction that reads and then writes is two actions, as others      *)
(* commit between its statements (READ COMMITTED).  From its guarded       *)
(* statement to its commit it holds the row, so that much is one action.   *)
(***************************************************************************)
EXTENDS Sweep, Search, Sequences

CONSTANTS
    Operators,     \* processes that repair and quarantine
    Cases,         \* the rows the quarantine commands are for
    Queries,       \* what lookups ask for
    NoEdit,        \* an operator between commands
    NoLookup,      \* no lookup under way
    MaxDamage      \* bound: injected damage

(* The byte after the four of the magic in COLLISION: the letter i.        *)
CollisionVersion == 105

ASSUME MigrationAssumption ==
    /\ MaxDamage \in Nat
    /\ Cases \subseteq Ids
    /\ Absent \notin Values
    /\ Queries \subseteq Values \ Unindexable
    /\ Planner.handler /\ NumColumns = 1
    /\ NoEdit \notin [kind : {"collision", "missing", "quarantine"}, id : Ids, row : Rows]

VARIABLES
    formats,       \* migration_formats: the rows marked legacy-collision
    quarantine,    \* migration_quarantine: the cases of each row, in order
    edit,          \* what each operator's open transaction has read
    lookup,        \* the lookup under way
    closed,        \* strict readers have replaced the permissive ones
    damages,       \* how often bytes were damaged
    truth          \* history: the value each row stands for

migrationVars == <<formats, quarantine, edit, lookup, closed, damages, truth>>
allVars == <<sweepVars, migrationVars>>

EditKinds == {"collision", "missing", "quarantine"}
Edits == [kind : EditKinds, id : Ids, row : Rows]
CasesOver == [row : Rows, resolved : BOOLEAN]

(* Every variable keeps its type.                                          *)
MigrationTypeOK ==
    /\ formats \subseteq Ids
    /\ quarantine \in [Ids -> Seq(CasesOver)]
    /\ edit \in [Operators -> Edits \cup {NoEdit}]
    /\ closed \in BOOLEAN
    /\ damages \in 0..MaxDamage
    /\ truth \in [Ids -> Values \cup {Absent}]

-----------------------------------------------------------------------------
(* Reading a row whose format may be marked.                               *)

(* Legacy bytes that begin like an envelope: to the parser, an envelope of *)
(* a version it does not support.                                          *)
IsCollision(bytes) == bytes.form = "envelope" /\ bytes.version = CollisionVersion

(* PreviousEncryption::recover of bytes nobody classified.  An envelope    *)
(* has neither header and is no text.                                      *)
RecoverUnclassified(bytes) ==
    IF bytes.form = "envelope"
    THEN IF IsCollision(bytes) /\ bytes.authentic THEN Ok ELSE "LegacyRecoveryFailed"
    ELSE Recover(Planner, bytes)

(* recover: only a discriminator authorizes from_legacy_bytes.             *)
RecoverError(id, row, collision) ==
    IF ~collision THEN ReadError(Planner, id, row)
    ELSE IF RecoverUnclassified(row.ciphertext) # Ok
         THEN RecoverUnclassified(row.ciphertext)
         ELSE Decode(row.ciphertext.payload)

(* migration-get: the row and its format from one statement.               *)
GetError(id) == RecoverError(id, table[id], id \in formats)

CurrentRow(id, v) == WrittenRow(Planner, id, v)

-----------------------------------------------------------------------------
(* Lookups.                                                                *)

Unresolved(id) == {i \in DOMAIN quarantine[id] : ~quarantine[id][i].resolved}

(* Fault: resolved cases count as well.                                    *)
GateOnAllCases == \A id \in Ids : quarantine[id] = <<>>

(* quarantine_gate.                                                        *)
QuarantineGate == \A id \in Ids : Unresolved(id) = {}

Candidates(query) == TransitionalCandidates(Planner, 1, query, table, Present)

(* An error of any candidate, in reading it or in normalizing it, fails    *)
(* the whole lookup.                                                       *)
LookupFailed(query) ==
    \/ ProbesError(query, Planner.columns[1].keys) # Ok
    \/ \E id \in Candidates(query) :
        \/ GetError(id) # Ok
        \/ VerifyCandidate(query, table[id].ciphertext.payload) \notin {"hit", "miss"}

Hits(query) ==
    {id \in Candidates(query) : VerifyCandidate(query, table[id].ciphertext.payload) = "hit"}

Marked(ids) == {id \in ids : table[id].indexes[1] = MissingIndex}

(* The rows it prints, and those of them that only the marker selected.    *)
LookupResult(query) ==
    IF LookupFailed(query) THEN [failed |-> TRUE, ids |-> {}, marked |-> {}]
    ELSE [failed |-> FALSE, ids |-> Hits(query), marked |-> Marked(Hits(query))]

TrueMatches(query) ==
    {id \in Ids : truth[id] # Absent /\ VerifyCandidate(query, truth[id]) = "hit"}

(* lookup, begun: the gate passes and fixes the snapshot, so what the      *)
(* second statement will select is decided here.                           *)
LookupBegin(query) ==
    /\ ~closed
    /\ lookup = NoLookup
    /\ QuarantineGate
    /\ lookup' = [query |-> query, result |-> LookupResult(query),
                  expected |-> TrueMatches(query)]
    /\ UNCHANGED <<sweepVars, formats, quarantine, edit, closed, damages, truth>>

(* Fault: each statement of a lookup reads a snapshot of its own.          *)
AnswerReadCommitted(l) == LookupResult(l.query)

(* Fault: probes and marker are asked for by two statements, the second    *)
(* of which reads a snapshot of its own.                                   *)
AnswerInTwo(l) ==
    LET late == {id \in Marked(Present) : table[id].ciphertext.form # "null"}
        hits == {id \in late : VerifyCandidate(l.query, table[id].ciphertext.payload) = "hit"}
    IN  IF l.result.failed \/ \E id \in late : GetError(id) # Ok
        THEN [failed |-> TRUE, ids |-> {}]
        ELSE [failed |-> FALSE, ids |-> (l.result.ids \ l.result.marked) \cup hits]

(* Its answer: of the candidates in the snapshot the gate read (REPEATABLE *)
(* READ).                                                                  *)
Answer(l) == l.result

(* The lookup commits and prints its answer.                               *)
LookupEnd ==
    /\ lookup # NoLookup
    /\ lookup' = NoLookup
    /\ UNCHANGED <<sweepVars, formats, quarantine, edit, closed, damages, truth>>

-----------------------------------------------------------------------------
(* Repair and quarantine.                                                  *)

(* What repair refuses after its read: a collision without discriminator,  *)
(* a projection that is there, a value it cannot recover, seal or index.   *)
CanRepair(id, kind) ==
    /\ kind = "collision" => id \in formats
    /\ kind = "missing" => table[id].indexes[1] = MissingIndex
    /\ RecoverError(id, table[id], kind = "collision") = Ok
    /\ CanWrite(Planner, table[id].ciphertext.payload)

(* Operators quarantine what nobody can read (docs/operations.md).         *)
CanQuarantine(id) == id \in Cases /\ GetError(id) # Ok

(* The transaction begins: one statement reads the row and its format.     *)
ReadTuple(o, kind, id) ==
    /\ ~closed
    /\ edit[o] = NoEdit
    /\ id \in Present /\ table[id].ciphertext.form # "null"
    /\ IF kind = "quarantine" THEN CanQuarantine(id) ELSE CanRepair(id, kind)
    /\ edit' = [edit EXCEPT ![o] = [kind |-> kind, id |-> id, row |-> table[id]]]
    /\ UNCHANGED <<sweepVars, formats, quarantine, lookup, closed, damages, truth>>

(* Fault: only the row's existence is guarded.                             *)
EditHoldsById(e) == table[e.id] # Absent /\ (e.kind = "collision" => e.id \in formats)

(* Its guarded statement finds the row as it was read, and a collision     *)
(* still marked.                                                           *)
EditHolds(e) == GuardHolds(e.id, e.row) /\ (e.kind = "collision" => e.id \in formats)

(* Fault: a repaired row keeps its discriminator.                          *)
CommitRepairMarked(o) ==
    LET e == edit[o] IN
    /\ e # NoEdit /\ e.kind \in {"collision", "missing"}
    /\ EditHolds(e)
    /\ table' = [table EXCEPT ![e.id] = CurrentRow(e.id, e.row.ciphertext.payload)]
    /\ nonces' = [nonces EXCEPT ![e.id] = @ + 1]
    /\ author' = [author EXCEPT ![e.id] = "target"]
    /\ edit' = [edit EXCEPT ![o] = NoEdit]
    /\ UNCHANGED <<formats, checkpoint, promoted, writes, runVars,
                   quarantine, lookup, closed, damages, truth>>

(* repair: the guarded UPDATE, the DELETE of the discriminator, COMMIT.    *)
CommitRepair(o) ==
    LET e == edit[o] IN
    /\ e # NoEdit /\ e.kind \in {"collision", "missing"}
    /\ EditHolds(e)
    /\ table' = [table EXCEPT ![e.id] = CurrentRow(e.id, e.row.ciphertext.payload)]
    /\ nonces' = [nonces EXCEPT ![e.id] = @ + 1]
    /\ author' = [author EXCEPT ![e.id] = "target"]
    /\ formats' = IF e.kind = "collision" THEN formats \ {e.id} ELSE formats
    /\ edit' = [edit EXCEPT ![o] = NoEdit]
    /\ UNCHANGED <<checkpoint, promoted, writes, runVars,
                   quarantine, lookup, closed, damages, truth>>

(* Fault: the copy leaves out the index column.                            *)
CommitQuarantineValueOnly(o) ==
    LET e == edit[o] IN
    /\ e # NoEdit /\ e.kind = "quarantine"
    /\ EditHolds(e)
    /\ quarantine' = [quarantine EXCEPT ![e.id] =
                        Append(@, [row |-> e.row.ciphertext, resolved |-> FALSE])]
    /\ table' = [table EXCEPT ![e.id] = Absent]
    /\ edit' = [edit EXCEPT ![o] = NoEdit]
    /\ UNCHANGED <<checkpoint, nonces, promoted, author, writes, runVars,
                   formats, lookup, closed, damages, truth>>

(* migration-quarantine: the copy, the guarded DELETE, COMMIT.             *)
CommitQuarantine(o) ==
    LET e == edit[o] IN
    /\ e # NoEdit /\ e.kind = "quarantine"
    /\ EditHolds(e)
    /\ quarantine' = [quarantine EXCEPT ![e.id] =
                        Append(@, [row |-> e.row, resolved |-> FALSE])]
    /\ table' = [table EXCEPT ![e.id] = Absent]
    /\ edit' = [edit EXCEPT ![o] = NoEdit]
    /\ UNCHANGED <<checkpoint, nonces, promoted, author, writes, runVars,
                   formats, lookup, closed, damages, truth>>

(* A guarded statement that changes no row rolls everything back.          *)
EditConflict(o) ==
    /\ edit[o] # NoEdit
    /\ ~EditHolds(edit[o])
    /\ edit' = [edit EXCEPT ![o] = NoEdit]
    /\ UNCHANGED <<sweepVars, formats, quarantine, lookup, closed, damages, truth>>

(* The process or its connection is lost: nothing was committed.           *)
EditCrash(o) ==
    /\ aborts < MaxAborts
    /\ edit[o] # NoEdit
    /\ edit' = [edit EXCEPT ![o] = NoEdit]
    /\ aborts' = aborts + 1
    /\ UNCHANGED <<storeVars, pc, cursor, batch, last, report,
                   formats, quarantine, lookup, closed, damages, truth>>

(* Fault: the case is resolved in a transaction of its own.                *)
ResolveFirst(id) ==
    /\ ~closed
    /\ id \in Cases /\ Cardinality(Unresolved(id)) = 1
    /\ quarantine' = [quarantine EXCEPT ![id] =
                        [i \in DOMAIN @ |-> [@[i] EXCEPT !.resolved = TRUE]]]
    /\ UNCHANGED <<sweepVars, formats, edit, lookup, closed, damages, truth>>

(* migration-restore, from an approved source: INSERT, not an upsert, and  *)
(* exactly one unresolved case.                                            *)
Restore(id) ==
    /\ ~closed
    /\ id \in Cases /\ Cardinality(Unresolved(id)) = 1
    /\ table[id] = Absent
    /\ CanWrite(Planner, truth[id])
    /\ table' = [table EXCEPT ![id] = CurrentRow(id, truth[id])]
    /\ nonces' = [nonces EXCEPT ![id] = @ + 1]
    /\ author' = [author EXCEPT ![id] = "target"]
    /\ quarantine' = [quarantine EXCEPT ![id] =
                        [i \in DOMAIN @ |-> [@[i] EXCEPT !.resolved = TRUE]]]
    /\ UNCHANGED <<checkpoint, promoted, writes, runVars,
                   formats, edit, lookup, closed, damages, truth>>

-----------------------------------------------------------------------------
(* The end of the window.                                                  *)

(* Sweep::verify without a legacy handler is terminal.                     *)
VerifyTerminal ==
    \A id \in Present :
        table[id].ciphertext.form # "null" /\ Classify(Planner, id, table[id]) = "Current"

(* audit_current: every row opens, and its index is its value's under the  *)
(* current key.                                                            *)
AuditCurrent ==
    \A id \in Present :
        LET row == table[id] IN
        /\ StrictReadError(Planner, id, row) = Ok
        /\ DeriveError(row.ciphertext.payload, Planner.columns[1].keys) = Ok
        /\ row.indexes[1] =
            Derive(row.ciphertext.payload, Planner.columns[1].bits, Planner.columns[1].keys)

(* Fault: closing on a clean pass alone.                                   *)
MayCloseUnaudited == QuarantineGate /\ formats = {} /\ VerifyTerminal

MayClose == QuarantineGate /\ formats = {} /\ VerifyTerminal /\ AuditCurrent

(* What close demands of the operator: earlier writers are gone, whatever  *)
(* was in flight has ended, and writes wait until strict readers serve.    *)
Drained ==
    /\ promoted
    /\ \A w \in Workers : pc[w] \in {"idle", "done"}
    /\ \A o \in Operators : edit[o] = NoEdit

(* migration-close succeeds and strict readers take over.                  *)
Close ==
    /\ ~closed
    /\ Drained
    /\ MayClose
    /\ closed' = TRUE
    /\ UNCHANGED <<sweepVars, formats, quarantine, edit, lookup, damages, truth>>

-----------------------------------------------------------------------------
(* The applications: a marked row is fenced from writers that know nothing *)
(* of the discriminators (docs/operations.md).                             *)
PutValue(id, v, w) ==
    /\ id \notin formats
    /\ Put(id, v, w)
    /\ truth' = [truth EXCEPT ![id] = v]
    /\ UNCHANGED <<runVars, formats, quarantine, edit, lookup, closed, damages>>

(* migration-damage: the last byte of what is stored is flipped.           *)
Damaged(bytes) ==
    IF bytes.form = "envelope" THEN [bytes EXCEPT !.authentic = FALSE]
    ELSE [bytes EXCEPT !.payload = Undecodable]

Damage(id) ==
    /\ ~closed
    /\ damages < MaxDamage
    /\ id \in Cases \cap Present /\ table[id].ciphertext.form # "null"
    /\ damages' = damages + 1
    /\ table' = [table EXCEPT ![id].ciphertext = Damaged(@)]
    /\ UNCHANGED <<checkpoint, nonces, promoted, author, writes, runVars,
                   formats, quarantine, edit, lookup, closed, truth>>

IsDamaged(bytes) ==
    IF bytes.form = "envelope" THEN ~bytes.authentic ELSE bytes.payload = Undecodable

-----------------------------------------------------------------------------
(* What a row's index column may hold beside the value v: nothing yet, or  *)
(* the value's own index under a key the planner reads.                    *)
IndexKnown(index, v) ==
    \/ index = MissingIndex
    \/ \E k \in Planner.columns[1].keys.keys :
            index = IndexOf(v, Planner.columns[1].bits, k)

(* A seeded row holds a value in one of the formats, and its index if any. *)
(* The one row the quarantine commands are for is no collision.            *)
Seeded(id, row) ==
    /\ row.ciphertext.form # "null"
    /\ RecoverError(id, row, IsCollision(row.ciphertext)) = Ok
    /\ IndexKnown(row.indexes[1], row.ciphertext.payload)
    /\ id \in Cases => ~IsCollision(row.ciphertext)

(* An earlier deployment of the same table, whose keys are still readable. *)
Readable(w) ==
    /\ w.seal = Planner.seal /\ w.kind = Planner.kind
    /\ w.keys.current \in Planner.keys.keys
    /\ w.columns[1].bits = Planner.columns[1].bits
    /\ w.columns[1].keys # NotConfigured
    /\ w.columns[1].keys.current \in Planner.columns[1].keys.keys

ASSUME SeedAssumption ==
    /\ Planner.columns[1].keys # NotConfigured
    /\ \A w \in EarlierWriters \ {LegacyWriter} : Readable(w)
    /\ \A t \in InitialTables, id \in Ids : t[id] # Absent => Seeded(id, t[id])

(* Trusted metadata marks exactly the collisions (seed).                   *)
MigrationInit ==
    /\ Init
    /\ formats = {id \in Present : IsCollision(table[id].ciphertext)}
    /\ quarantine = [id \in Ids |-> <<>>]
    /\ edit = [o \in Operators |-> NoEdit]
    /\ lookup = NoLookup
    /\ closed = FALSE
    /\ damages = 0
    /\ truth = [id \in Ids |->
                    IF table[id] = Absent THEN Absent ELSE table[id].ciphertext.payload]

Sweeping == (Run \/ FreshProgress) /\ UNCHANGED migrationVars

Commit(o) == CommitRepair(o) \/ CommitQuarantine(o) \/ EditConflict(o)

Editing(o) ==
    \/ \E kind \in EditKinds, id \in Ids : ReadTuple(o, kind, id)
    \/ Commit(o) \/ EditCrash(o)

MigrationNext ==
    \/ Sweeping
    \/ \E o \in Operators : Editing(o)
    \/ \E id \in Ids : Restore(id) \/ Damage(id)
    \/ \E query \in Queries : LookupBegin(query)
    \/ LookupEnd
    \/ \E id \in Ids, v \in Values, w \in Writers : PutValue(id, v, w)
    \/ Promote /\ UNCHANGED <<runVars, migrationVars>>
    \/ Close

MigrationSpec == MigrationInit /\ [][MigrationNext]_allVars

(* The operator's part of docs/operations.md: earlier writers are retired, *)
(* sweeps repeated from a fresh start, rows repaired, quarantined and      *)
(* restored, and closing tried again.                                      *)
FairMigrationSpec ==
    /\ MigrationSpec
    /\ \A w \in Workers :
        WF_allVars((Start(w) \/ Proceed(w)) /\ UNCHANGED migrationVars)
    /\ SF_allVars(FreshProgress /\ UNCHANGED migrationVars)
    /\ WF_allVars(Promote /\ UNCHANGED <<runVars, migrationVars>>)
    /\ WF_allVars(LookupEnd)
    /\ \A o \in Operators : WF_allVars(Commit(o))
    /\ \A o \in Operators, kind \in EditKinds, id \in Ids :
        SF_allVars(ReadTuple(o, kind, id))
    /\ \A id \in Ids : WF_allVars(Restore(id))
    /\ SF_allVars(Close)

-----------------------------------------------------------------------------
(* Properties.                                                             *)

(* A read returns the value the row stands for, through every sweep,       *)
(* repair, restore and crash, and is refused only if the bytes were        *)
(* damaged: no discriminator is ever missing or left behind, no repair     *)
(* overwrites what it did not read.                                        *)
ReadsTheTruth ==
    \A id \in Present :
        IF IsDamaged(table[id].ciphertext) THEN GetError(id) # Ok
        ELSE GetError(id) = Ok /\ table[id].ciphertext.payload = truth[id]

(* A value is in the table or in an open case, never in neither: removing  *)
(* a row from service cannot lose it, nor what was written concurrently.   *)
NothingLost ==
    \A id \in Ids : truth[id] # Absent => id \in Present \/ Unresolved(id) # {}

(* Rows leave the table only as evidence: the case holds exactly the bytes *)
(* that were removed, and no case is ever changed but to be resolved.      *)
EvidenceIsExact ==
    [][\A id \in Ids :
        /\ id \in Present /\ table'[id] = Absent =>
            quarantine'[id] = Append(quarantine[id], [row |-> table[id], resolved |-> FALSE])
        /\ \A i \in DOMAIN quarantine[id] :
            quarantine'[id][i].row = quarantine[id][i].row]_allVars

(* A lookup answers with every row that stands for a matching value at the *)
(* moment of its snapshot, quarantined ones included, or with an error.    *)
LookupsAreWhole ==
    lookup # NoLookup =>
        Answer(lookup).failed \/ Answer(lookup).ids = lookup.expected

(* Keys of the current generations only, no handler.                       *)
StrictReader ==
    [Planner EXCEPT
        !.keys.keys = {Planner.keys.current},
        !.handler = FALSE,
        !.columns[1].keys.keys = {Planner.columns[1].keys.current}]

(* Once the window is closed, readers with the current keys, no handler,   *)
(* no discriminator and searches by index alone find every value.          *)
ClosedIsStrict ==
    closed =>
        /\ \A id \in Ids : truth[id] # Absent =>
            /\ id \in Present
            /\ StrictReadError(StrictReader, id, table[id]) = Ok
            /\ table[id].ciphertext.payload = truth[id]
        /\ \A q \in Values \ Unindexable :
            StrictHits(StrictReader, 1, q, table, Present) = TrueMatches(q)

(* A person must decide: the row of an open case was written again.        *)
Recreated(id) == Unresolved(id) # {} /\ id \in Present

(* The window closes, unless a quarantined row was recreated meanwhile,    *)
(* which no command resolves.                                              *)
WindowCloses == <>(closed \/ \E id \in Ids : Recreated(id))
=============================================================================
