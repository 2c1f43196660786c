# CryptBox in TLA+

CryptBox is a Rust library for application-level encryption: it seals typed
values into self-describing envelopes, derives blind indexes by which encrypted
columns can be searched, and rewrites stored values when keys are rotated, when
a padding policy changes, or when a table of plaintext is adopted. Most of the
crate is pure functions over bytes. What is hard is **maintenance**: a sweep
rewrites a live table row by row while applications keep writing, processes die,
several key generations are readable at once, and at the end an operator decides
on the strength of a report that old keys may go. That is the core of this
project; around it are the closing of a migration by operators, searches, fleets
of processes and tenants with keyrings of their own, what a schema declares (the
derives, the records they make, literals and the manifest), and the pure parts
(padding, the bytes of envelopes, contexts and indexes).

Every path below is relative to the repository root.

## The system

| Part | State | Operations | Interacts with |
|---|---|---|---|
| Envelope (`src/envelope.rs`, `src/envelope/`, `src/bound.rs`) | none; bytes | inspect, check, seal, open, needs_reseal, reseal | keyrings, contexts, padding |
| Seal contexts (`src/seal_context.rs`, `src/seal.rs`, `src/id.rs`) | none | context bytes and fingerprint of a seal and a record ID | envelope, blind index |
| Keyrings (`src/key/keyring.rs`, `src/key_source.rs`, `src/key.rs`) | an immutable snapshot: current key, readable keys | new, current, get, readable | every operation |
| Key material (`src/key/material.rs`, `src/secret.rs`, `src/crypto.rs`, the suite) | secrets | derivation, AEAD, zeroization | envelope, blind index |
| Padding (`src/padding.rs`) | none | pad, unpad | seal, open |
| Blind index (`src/blind.rs`, `src/blind/`) | none; bytes | inspect, derive, probes, verify_candidate, is_consistent_with | keyrings, planner, applications |
| Row planner (`src/migrate/row.rs`, `src/migrate/legacy.rs`) | configuration | classify_row, plan_row | envelope, blind index, sweep |
| Transitional reads (`src/migrate/read.rs`) | none | from_bytes, open, open_legacy | envelope, legacy handler |
| Sweep (`src/migrate/sweep.rs`, `src/migrate/report.rs`) | in-memory cursor, batch, report | run, verify | planner, store |
| Sweep stores (`src/migrate/table.rs`, `sqlx_sqlite.rs`, `sqlx_postgres.rs`) | the table, the progress row | load_checkpoint, save_checkpoint, load_batch, update | sweep, applications |
| Applications and operators (`examples/searchable/`, `docs/operations.md`) | key snapshots, discriminators, quarantine | put, get, search, promote, run, verify, retire; repair, quarantine, restore, close | everything |
| Tenants (`examples/tenant_seal.rs`, `examples/custom_seal/`, `docs/operations.md`) | a key snapshot per tenant | refresh, rotate, seal, reseal, move, shred | keyrings, sealed values |
| Sealed values, records (`src/value.rs`, `src/record.rs`) | none | typed seal and open, reseal, reseal_across, open_expecting, open_matching | envelope, blind index |
| Schema manifest (`src/schema.rs`) | the registered entries | seal, sealed, index, record, duplicates, render | seals, specs, records |
| Derive macros (`derive/`) | the errors and values collected so far | parse attributes, check, expand | compile time; what they generate is in the records |

What makes each part correct:

- *Envelope*: the order of its checks (version before length, context before any
  key), staleness decided without decryption, a reseal that needs no second one.
- *Keyrings*: the current key is readable; rotation never drops a generation a
  stored value names.
- *Blind index*: a stored index is the index of the value beside it.
- *Row planner*: classification and planning agree; what is planned is current;
  a rewrite changes no reading, not even an error into a value.
- *Sweep and stores*: no application write is lost; ciphertext and indexes move
  together; the checkpoint never runs ahead of the work; a conflict is somebody
  else's write.
- *Verification*: a clean pass is worth something, and exactly under the
  conditions the documentation states.
- *Searches*: a row whose value matches is found, whatever wrote it last and
  whatever moves meanwhile; what cannot be opened is an error, never a miss.
- *Fleet*: no process ever meets a generation it does not hold, in an envelope or,
  silently, in an index.
- *Padding*: unpadding inverts padding under any policy; lengths tell no more than
  the policy allows; the arithmetic refuses what does not fit and nothing else.
- *Migration*: whatever sweeps, operators and applications interleave, a row reads
  as the value it stands for, no value leaves the table but as evidence, and after
  the window is closed strict readers need nothing else.
- *Tenants*: each reads its values and no other does; after its keys are destroyed,
  nobody does.
- *Contexts*: bytes put one after the other never spell those of another context,
  header or index.
- *Derives*: exactly the legal items are accepted, however many errors are
  recovered from on the way, and nothing that was written is dropped.
- *Records*: a value opens in the field and row it was sealed for and in no other.
- *Literals*: the derives, `from_str` and, of the hyphenated form, `seal_id!` take
  the same IDs; what the macros take in another form is printed as one that all
  take; a copied ID is caught in any form; derives and library take the same names
  and numbers.
- *Schema manifest*: it reports each confusion of two declarations whatever the
  order of registration, and nothing else.

## Modules

| Module | Models |
|---|---|
| `Envelope` | stored ciphertext bytes and the functions over them |
| `BlindIndex` | stored index bytes and the functions over them |
| `RowPlanner` | `classify_row`, `plan_row`, legacy recovery and `MaybeSealed`, as operators |
| `RowLifecycle` | one row and its configuration under everything that may happen to them |
| `SweepStore` | the table, the progress row and the applications that share the table |
| `Sweep` | `Sweep::run` by any number of workers over `SweepStore` |
| `Rotation` | `Sweep` with `Sweep::verify`, and what a terminal report is worth |
| `Search` | probes, candidate checks, strict and transitional search, as operators on a table |
| `RotationSearch` | `Rotation` with the searches that go on meanwhile |
| `Fleet` | processes with key snapshots that rotate both roles under the promotion gate |
| `Migration` | `Sweep` with operators who repair, quarantine, restore and close, and lookups under way |
| `Tenants` | a keyring per tenant in one process: rotation, moves between tenants, shredding |
| `Padding` | `pad`, `unpad` and their lengths, and one stored value under changing policies |
| `IndexFormat` | the bits of a stored index: encoding, mask and parser |
| `Preimages` | the bytes that keys, associated data, fingerprints and indexes are computed over |
| `Radix` | powers of a base, which `IndexFormat` and `Preimages` count in |
| `Attributes` | `Attrs::parse`: the entries of an item, with errors recovered from |
| `DeriveSeal`, `DeriveIndexSpec` | what the two derives that use it check and expand to |
| `MarkerDerives` | the two as one machine, and their properties |
| `DeriveRecord` | `#[derive(Record)]`: fields, the checks across them, the stored form |
| `Records` | an accepted record in use: sealed, mixed up in its store, opened and looked up |
| `Literals` | IDs, normalizer names, lengths and paddings as the derives and as the library and its macros judge them |
| `Manifest` | registrations and `duplicates` of the schema manifest |
| `ValueStore` | the abstract specification: what applications read, and that only they change it |
| `RowPlannerProofs`, `RowLifecycleProofs`, `SweepProofs`, `RotationProofs`, `FleetProofs`, `MigrationProofs`, `ValueProofs`, `DeclarationProofs` | theorems |
| `MCSweep`, `MCRotation`, `MCRowLifecycle`, `MCRotationSearch`, `MCFleet`, `MCMigration`, `MCDeclarations`, `MCValues` | instances for TLC |

`Envelope` <- `BlindIndex` <- `RowPlanner` <- `SweepStore` <- `Sweep` <-
`Rotation`, each extending the one before it; `RowLifecycle` and `Search` extend
`RowPlanner`; `RotationSearch` extends `Rotation` and `Search`; `Fleet` extends
`Search`; `Migration` extends `Sweep` and `Search`. `Attributes` <- `DeriveSeal`,
`DeriveIndexSpec` <- `MarkerDerives`; `DeriveRecord` <- `Records`. `Padding`,
`IndexFormat`, `Preimages`, `Tenants`, `Literals` and `Manifest` stand alone (the
second and third share `Radix`). They justify what the others take for granted:
`Padding` what `Envelope` says of padding (a value fits or not, is padded or not,
unpads to itself), `IndexFormat` what `BlindIndex` says of stored bytes (a
function of the retained bits, and nothing else parses), `Preimages` that
contexts, headers and specifications can be compared as records, `Literals` that
an ID is one value, `Tenants` that a key ID stands for its material.

### How bytes become records

An envelope is a record of the facts the code branches on. `extent` says how far
the bytes reach (the magic, the version, the header, a whole payload), `authentic`
whether they are exactly what a seal produced, `context` what they were sealed
under (the code compares it only through the AEAD), `fingerprint` what the header
claims. `payload` is the plaintext: a value, bytes the codec rejects, or bytes
without a padding marker. The nonce is a number that differs from that of every
earlier envelope of the row, so a rewritten envelope never equals an older one and
a compare-and-swap can tell them apart. Bytes without the magic are
`[form |-> "foreign"]`; SQL NULL is a third form, which only loading can meet. NULL
in an index column fails a batch the same way and is left to the value's column.

An index is a record with a digest. `Digest` is a constant: any function of the
key and of the normal form of the value, so values with one normal form share an
index and other values may collide, as truncated digests do. `NormalForm` stands
for `normalize_value`; `Unindexable` values are those it rejects.

Two idealizations carry weight: the AEAD never accepts what was not sealed under
that key and context, and the codec decodes exactly the encodings of the values
(in `plan_legacy_row` decode then encode is the identity on values).

### State and actions

`Sweep` has, for each worker, a program counter (`idle`, `load`, `process`,
`done`), the cursor and report of `run`'s locals, and the rows of the batch it has
not yet processed. Each statement the store sends is one action and everything
between two statements is part of the action before it:

| Action | Code |
|---|---|
| `Start` | `run` up to and including `load_checkpoint` |
| `LoadBatch`, `LoadFails`, `Finish` | `load_batch`: rows, a NULL, an empty batch |
| `SkipRow`, `RewriteRow`, `LoseRow`, `RejectRow` | one iteration of `process_batch`: current, updated, lost, `plan_row` failed |
| `SaveCheckpoint` | `save_checkpoint`, the new cursor |
| `Abort` | a crash, a store error, randomness unavailable |
| `FreshProgress` | a fresh run name, or the progress row deleted |
| `Put`, `Delete`, `Promote` | applications: one statement for a whole row; the last earlier deployment gone |
| `VerifyStart`, `VerifyBatch`, `VerifyFails`, `VerifyFinish` | `verify` |

`Put` takes the configuration of the writer: the target, an earlier deployment
that does not use the new keys, or one that still writes plaintext. `promoted`
and `author` are history variables of the operator's promise that after the
promotion every writer uses the target.

`RowLifecycle` lets everything else vary that `Sweep` holds fixed: the current
keys of both roles, the padding flag, missing index keyrings, damage of every kind
`is_row_data_failure` names, and retirement of historical keys, which is the code's
`EncryptionKeyring::new(current, [])` under the guard the documentation asks for.

Searches are operators on a table, as each selects its candidates in one
statement and works on what was returned. `OpenMatching` is one iteration of
`Index::open_matching` (`src/record.rs`), `RecoverMatching` one of the
transitional `lookup` (`examples/searchable/migration.rs`); `StrictHits` and
`LookupHits` are their results, `StrictFailures` and `LookupFails` what they
report instead. Such an operator has no time between two statements: that a lookup
must not be two is shown in `Migration`, where rows change while one is under way
and the faults of `Answer` read a part of it later.

`Fleet` has for each process the deployment whose keyrings it loaded when it
started (`load_keyrings_from_env`), the deployments a process may start with
(the rollout and whatever may be rolled back to), a candidate and the processes
that acknowledged its canary:

| Action | Code |
|---|---|
| `Propose`, `Acknowledge`, `Offer` | `rotation_canary` for a candidate, `rotation_ready` on each process, and the gate of `docs/operations.md`: readiness of every process and rollback deployment, in both directions, and `audit_current` when a generation goes |
| `Withdraw` | a deployment is no longer started with, as when rollback policy is settled |
| `Restart` | a process ends and another starts: any offered deployment, nothing acknowledged |
| `Put`, `Rewrite`, `Delete` | a process writes a row or sweeps one with its own snapshot |

The commands are the code's; that an operator obeys their answers is an
assumption (`GatePasses`). The audit and the start of the reduced rollout are one
step because the operator pauses writes from one to the other
(`examples/searchable/main.rs:204`). The column is not NULL, which the audit
requires, and the example's one index column is a sequence of any length.

`Padding` keeps bytes. `UsizeMax` is a constant; vectors hold at most
`isize::MAX` bytes, so `pad` has three ways to refuse: the policy's length,
checked arithmetic, and the allocation, which panics (`CapacityOverflow`; a
configured size beyond half the address space is needed to reach it). For a
block policy the first checked addition cannot fail, as no slice is that long.
`Reseal` reads a value and stores it again under the policy of the moment.

`Migration` is the example's `migration.rs` around `Sweep`, which it runs
unchanged. Beside the table it keeps `migration_formats` (the rows marked as
legacy bytes that begin like an envelope) and `migration_quarantine`. A command
that reads a row and then changes it is a transaction of two steps, as others
commit in between; its guarded statement and commit are one step, because the
statement locks the row:

| Action | Code |
|---|---|
| `ReadTuple`, `CommitRepair`, `EditConflict`, `EditCrash` | `repair`: what is read, the guarded `UPDATE` with the discriminator, a guard that fails, a process that ends |
| `CommitQuarantine`, `Restore` | `migration-quarantine` and `migration-restore` |
| `LookupBegin`, `LookupEnd` | `lookup`: the gate and the candidates are read from one `REPEATABLE READ` snapshot, recovery follows |
| `Damage` | `migration-damage`, the example's own fault injection |
| `Close` | `close`: no open case, no discriminator, a terminal pass and the audit, with writers drained |

A lookup fails as a whole when a candidate cannot be read or its value cannot be
normalized. The commands check no reason for a quarantine: that only rows nobody can
read are put there (`CanQuarantine`) is the operator's rule in `docs/operations.md`.
`truth` is a history variable: the value each row stands for.

`Tenants` has the secret store's roots and the loaded snapshot of each tenant, and
the calls in flight, each with the keyrings it cloned. `NewRing` is `Ring::new`
with its duplicate check; a key is an ID with material, because the ring finds a
key by its ID and the AEAD tells the material. Provisioning may paste other
material under a listed ID. A call reads its row and writes it in statements of
their own, the write guarded by what was read. Shredding is the procedure of
`docs/operations.md`: `Stop`, `Drained`, `Evict`, `Destroy`. The encryption
keyring stands for both roles, which the code treats alike, and generated IDs are
never drawn twice.

`Preimages` puts the bytes of contexts, headers and index specifications one after
the other, as `src/seal_context.rs`, the suite and `src/blind/recipe.rs` do, and
calls two computations equal if their inputs are. Hashes are ideal: a digest is
its input. IDs are byte sequences of one length, as in the code, and an integer is
written in the digits of its base (`BigEndian`, with the powers of `Radix`).

`IndexFormat` says `byte & mask` as arithmetic: the mask of a final byte keeps its
highest bits, so what the complement keeps is a remainder (`Cleared`), and what the
mask keeps is the rest (`Masked`). The mask itself is the code's shift, in the width
of a byte.

`Attributes` reads one entry at a time. An entry is a key and how its value is
written (good, bad, or good with more before the comma); what counts later is
only its position. An error is recorded and parsing goes on, so `expand` decides on
whatever was collected; `errors` and `values` are its accumulators, `entries` is
the history the properties compare them with. `DeriveRecord` reads one field at a
time and drops those that fail to parse; `CheckRecord` judges the rest together.
Of a repeated `codec`, `padding` or `name` of a record's field the last one counts,
which no document forbids. In `Records` an application adopts an accepted record
(`Adopt`) with a schema (one keyring or one per organization, and the seal ID of a
second record type), saves records, and has its cells copied, rows replaced,
optional values blanked and plaintext columns edited (`MixUp`).

`Literals` edits a text or picks a number and evaluates the derive's and the
library's judgment of it (`ParseUuid`, `FromStr` and `IdMacro`, `ValidNormalizer`
and the `const fn` of `src/blind.rs`, `ParseBits` and `ValidBits`, `ParsePadding`
and the assertions of `src/padding.rs`). Texts are sequences of characters because
the property is about their form. The derive takes the digits of an ID one by one,
passing over the hyphens (`Place`); the `uuid` crate reads bytes, pairs of digits at
fixed places (`PairAt`): the two readings are written apart here too. `FromStr`
checks the length before it asks the crate. `seal_id!` and `index_id!` do not: they
also take 32 digits, braces and `urn:uuid:`, which the derives and `from_str` refuse.
So an impl's literal may have to be rewritten before a derive takes it, and the text
to write is the one the ID prints (`Display`): `IdsAgree` says that it always works.
An ID may be declared by a derive or by an impl (`DeclareDerive`, `DeclareImpl`) and
written again in another form (`Reform`).

`Manifest` keeps the four vectors of `src/schema.rs`. Markers and what they
declare are constants, since the compiler fixes them. `calls` is a history
variable; `Confusions` defines what `duplicates` should say from the calls alone.

## Runs

| Run | Question |
|---|---|
| `sweep_one` | One owner, three rows, batches of two, two application writes, one crash. `Coverage` (the checkpoint never ahead of the work, with the strengthening that makes it inductive); conflicts are somebody else's writes; indexes stay with their values; progress only advances; `ValueStore` is implemented. |
| `sweep_two` | Two workers on one progress row, which the documentation forbids and the library does not prevent: nothing is left behind the checkpoint and `ValueStore` is still implemented, though one worker can set progress back. |
| `sweep_replay` | A sentence of the code's documentation that the code does not satisfy; see below. |
| `rotation_verify` | Verification passes interleaved with all of the above, over tables with rows no sweep can rewrite, and a batch size of zero requested. What a terminal report implies, for the rows and for retirement. |
| `rotation_completes` | Liveness: the rotation ends with a clean pass. |
| `row_lifecycle` | The properties of `classify_row` and `plan_row` on every row and configuration reachable by rotations and damage, two index columns. |
| `rotation_search` | Lookups and searches at every point of a migration and rotation, with two spellings of one value and digests that collide under the old key. Lookups are exact throughout; after a clean pass strict searches with current keys alone are complete. |
| `fleet_rotation` | Two processes, one row, twelve deployments over three generations, two of them offered at a time. Nobody meets a row it cannot open or misses one in a search. |
| `migration` | Two rows of mixed formats (plaintext, a collision, a broken index, an old key), a sweep, two operators, one application write, one damaged byte, a lookup under way. Reads are true, no value is lost, no lookup omits a row silently, evidence is exact, and what closing leaves is strict. |
| `migration_closes` | Liveness: with one operator who keeps at it, a crash, a write and damage, the window closes. |
| `declarations` | Literals, the two marker derives, the record derive with records in use, and the manifest. |
| `values` | Padding, index bytes, preimages, and tenants. |

The last two runs are of four parts each that share no variable: a behavior is of
one part and the others stay as they begin (`part` in `MCDeclarations` and
`MCValues`), so that each part is explored as if it were alone. Their properties
are conjunctions of named parts: `LiteralsAgree`, `MarkersDeclareExactly`,
`MarkerErrorsExact`, `RecordsDeclareExactly`, `RecordErrorsExact`, `ReadsInPlace`,
`IntactIsFound` and `DuplicatesExact`; `ReadsBack`, `LengthsExact`,
`EncodesFirstBits`, `BytesTellApart`, `TenantsApart` and `ShreddingEnds`. Each
conjunct is explained where it is defined and has a mutant of its own.

Two generations of each key, two values and one seal are enough: the code
compares key IDs only for equality with the current one and membership of the
ring, and values not at all. Three rows with batches of two give a batch that is
full and one that is not, a row behind and one ahead of the cursor. The cursors
are -1, 0 and 4, as a checkpoint of zero or less must not be taken for none. One
crash reaches every place a crash can occur; a second one starts from a state the
first already reaches, as a crash leaves nothing but the table and the
checkpoint. Initial tables are chosen so that each kind of row (plaintext,
historical key, stale index only, tampered, moved, unknown legacy bytes, NULL,
missing index marker on an envelope) is swept at least once.

Two processes are enough for one to hold what the other lacks, and one row for one
of them to write what the other reads: every property of `Fleet` is about one
process and one row. Three generations let a second rotation begin before the
first generation is retired. A four-bit `usize` has sizes on both sides of
`isize::MAX` and sums and products on both sides of `usize::MAX`; three bytes put
markers and zeros before, after and between each other. Two three-bit bytes give
precisions that end inside and at the end of the first and of the last byte. A
confusion needs two declarations, and four registrations leave room for two of
them or for one with others in between.

In `migration` the two rows meet every command: one is rewritten by the sweep or
by a write, one repaired, and either quarantined. Two operators are enough for one
to commit between the two steps of another. Records have up to three fields, one
of which has the name of another's index column, and at most one is badly written;
those put to use have their ID first, one index, two fields and equal or different
seal IDs beside the other record type's (`UsedTexts`). Derived items have up to
six entries, so that every key of an index specification may appear, or up to five
with one error among them. Texts of IDs are one or two edits from an ID, an ID
without hyphens and one in braces, where writing it in another form is an edit, the
nil UUID among them; names have up to six characters over a letter, the slash and
two digits; numbers lie around every limit. In `Preimages` a byte has three values, integers two bytes and UUIDs three,
so that lengths and kinds matter, and seal, index and key IDs take each other's
values. Two tenants, one row, two calls, three key IDs and two envelopes are
enough for a value to be moved while a key is rotated or a tenant shredded; a
fault of each of its rules shows within these bounds.

`MaxWrites` bounds application writes, `MaxAborts` crashes, `MaxDamage` injected
damage, `MaxOffered` the deployments offered at a time, `MaxSeals` the envelopes
sealed, `MaxLen` the length of a damaged index, `MaxEntries` and `MaxErrors` an
item's entries and errors, `MaxFields` and `MaxFaulty` a record's fields and those
with errors, `UsedTexts` the records put to use, `MaxSaves` and `MaxMixups` what
happens to them, `MaxEdits` and `MaxDeclared` the edits of a text and the seals
declared, and `MaxCalls` the different registrations; no other bound exists and
each is a guard of the actions it bounds.

Deadlock is checked in every run but two: the operator can always call `run` again,
a process restart. `declarations` and `values` switch it off, as a derive ends when
it has expanded or refused its item, an envelope in `Preimages` is sealed and
damaged once, and a process whose tenants are all shredded has nothing to do.

Each property of each passing run has a mutant, a definition that says `Fault:` in
its comment and stands for a plausible mistake (a guard on the key only, a
checkpoint saved first, a verification that resumes at the checkpoint, a keyring
that forgets). Under its mutant the property fails.

### Fairness

`FairRotationSpec`: a run or a pass, once called, goes on (weak fairness of each
worker's and of verification's steps: they are loops that await statements). The
operator promotes, calls `run`, and calls `verify`, each with weak fairness and only
while no clean pass certifies the table; and now and then sweeps afresh, with
strong fairness, since that must wait until no run is under way. This is the
procedure of `docs/operations.md` ("Rows behind progress", "Verification"), not
something the library does by itself: without fresh progress, or with a row nobody
repairs, the property is false, and the tables of this run contain only rows that
can be rewritten.

`FairMigrationSpec` assumes the same of the sweep, that a lookup and a transaction
once begun end, that the operator restores what is quarantined, and, with strong
fairness, that each row an operator has a command for is read again and closing is
tried again: both are possible only at times, as others hold the row or a sweep is
under way. `WindowCloses` makes one exception, a quarantined row an
application has recreated meanwhile, which `migration-restore` refuses.

`FairTenants` (the part `TenantsFairness` of it) assumes that a call once begun goes
on, and that eviction and destruction follow a revocation. Calls need no fairness
to begin.

Crashes, damage and application writes are bounded and need no fairness.

### Where documentation and code differ

The comment on `Sweep` (`src/migrate/sweep.rs:144-145`) says that a rewrite
replayed after a crash loses its compare-and-swap and counts as a conflict.
`sweep_replay` shows a run that rewrites a row, dies before its checkpoint, and
starts again: the row is loaded as rewritten, is current, and is counted as
current without an update. `docs/operations.md` and the test
`sweep_replay_after_a_lost_checkpoint_is_idempotent` describe what the code does.

## Proofs

All for any sets of keys, values, rows, workers, operators and processes, any
normal forms and digests, any number of index columns, any batch size, word size
and bounds, from the named assumptions in the modules: payload markers are not
values, cursors are integers, the target fits the table, policies are those that
compile, and (`SeedAssumption`) a migration begins with the kinds of row the
example seeds, all of which read as their values.

- `RowPlannerProofs`: `ReplacementType`, `ReplacementIsCurrent`,
  `ReplacementKeepsReading`, `ClassifyAgrees`. They are about operators and are
  what the sweep, rotation, lifecycle, fleet and migration proofs rest on. That
  there is a first broken column is the well-ordering of the naturals
  (`FirstOfColumns`).
- `SweepProofs`: `SweepTypeCorrect`; `CheckpointIsCovered`, whose inductive
  invariant is `Coverage` (`SweepIsCovered`): the checkpoint alone is not
  inductive, as a worker raises it to the end of its batch, so the invariant also
  says of every cursor in memory that it is covered, and of every row of a batch
  under way that it is settled or still unprocessed and unchanged. A row that
  changed since it was loaded was changed by a worker (and is current), by a
  target writer (current), by an earlier deployment, or deleted.
  `SweepKeepsValues` proves the refinement step by step: every action but an
  application's maps to a stutter of `ValueStore`. `IndexesStayConsistent` has a
  hypothesis, `StartsConsistent`: the first tables are consistent and earlier
  deployments derive as many bits under keys that are still read. Without it an
  inconsistent row would be there from the start. `ConflictsAreWrites` is for one
  owner, and counts: the rows of its batch that somebody has changed since they
  were loaded (`Overtaken`), with the conflicts already reported, are no more than
  the writes; a conflict takes one from the first number to the second.
  `OwnedProgressAdvances` is for one owner too: its cursor is the checkpoint, and
  the batch it holds lies behind it (`OwnsProgress`). With two owners it is false.
- `RotationProofs`: `CleanPassMeansCurrent`, from the invariant `ScanCurrent`
  (`PassedRowsAreCurrent`: after the promotion every step leaves current rows
  current, so what a clean pass has passed stays passed), `RotationTypeCorrect`, and
  `RetirementIsSafe`, as a current row names the current generation of both roles
  and of every column. `LookupsStayExact` and `StrictSearchesComplete` rest on
  `Findable`: each row that can be read has in each column the missing-index marker
  or the index of its value. Their hypothesis, `StartsFindable`, says so of the first
  tables, and of earlier deployments that they differ from the target only in the
  generations they write and in padding; the tables and writers of
  `rotation_search` satisfy it. After a clean pass no row has the marker, so an
  index under the current key is what a strict search asks for.
- `RowLifecycleProofs`: `LifecycleTypeCorrect`, `VerifyAndSweepAgree`,
  `OneRewriteSuffices`, `RewriteKeepsReadings`; and `ValueIsKept` and
  `RewritesAreRefusedForTheValue` from the invariant `Intact`. That an undamaged
  row reads as its value is not inductive: the row may name a key that a
  retirement drops. `Intact` adds that the envelope opens with the keys held and
  that every column's index is of that value under a key held.
- `FleetProofs`: `FleetTypeCorrect`, `ProcessesRead` and `ProcessesFind`, from the
  invariant `FleetInvariant`. That every process reads every row is not inductive: a
  restart may pick any offered deployment. The invariant says that of every pair
  of a deployment that may write and one that may read (serving or offered) the
  reader holds the writer's current generations, and that every row is authentic,
  holds the indexes of its value, and names generations all of them hold. `Offer` is
  the step that needs the gate: a canary shows that the generations it names are
  held (`CanaryShowsKeys`), the audit that all rows name held ones.
- `MigrationProofs`: `MigrationTypeCorrect`, `ReadsAreTrue`, `NothingIsLost`,
  `LookupsWhole`, `ClosedIsStrictAlways` and `EvidenceExact`, from `MigrationInv`.
  Its heart is `RowGood`, said of one row, its true value and its discriminator: the
  row reads as that value unless it is damaged, and then as an error; what its index
  column holds is nothing or that value's index; and only a collision is marked.
  That alone is not inductive, as a transaction writes what it read a step ago and
  a restore needs a value for the row it puts back: `EditsKnown` says what a
  transaction under way found out about the row it read, and that there is none
  after closing, `CasesKnown` that a row with an open case stands for a value, and
  `ClosedSettled` that after closing no open case and no mark is left and every row
  has passed the audit. `AuditedIsStrict` is the last step: what the audit
  found of a row is what a reader with the current keys alone finds.
- `ValueProofs`:
  - Padding: `RoundTrip` (for every byte string and legal policy, the last byte that
    is not zero in the padded form is the added marker), and from the invariant that
    what is stored is what sealing made of the value first written (`StoredIsSealed`),
    `ValuesReadBack`; `LengthsAreExact` from the arithmetic (`SameMultiple`: two
    lengths in one block round up to one size).
  - `BytesAreTold`, for any width of a byte. Two concatenations are compared by
    cutting them where the parts before, or after, have one length: kinds and IDs do,
    and what follows an ID is of a length the kind decides. That `BigEndian` loses
    nothing: two numbers with the same digits differ by a multiple of the power of
    the base that none of them reaches (`SameBytes`), and both lie within one such
    range (`SmallMultiple`). Precisions are two bytes wide, hence their bound in
    `PreimagesAssumption`. `PreimagesInv` says what the envelope was sealed as and
    the index derived from.
  - `IndexesKeepFirstBits`, for any width of a byte and length of a digest. A mask of
    the u unused bits keeps the multiples of 2^u (`MaskIs`), and two bytes have one
    quotient by 2^u exactly if their high bits agree (`SameBits`, by induction on the
    number of bits). That inspection accepts nothing but encodings needs a digest
    for each accepted index: the stored bytes, continued with zeros.
  - `TenantsStayApart`. `TenantsInv` adds to the property what a keyring may hold,
    in the secret store as in whatever a process or call still has of it: keys of the
    tenant, each ID once, and every key that wrote one of the tenant's rows, or a row
    on its way to it. A misprovisioned entry is listed last, under an ID that is
    listed before it (`SoundList`): the ring is refused, so it never hides a writer's
    key.
- `DeclarationProofs`:
  - `MarkersAreExact` and `MarkersReportExactly`, without a hypothesis, for items of
    any length with any number of errors. `AttrInv` ties the parser's accumulators to
    the text: every value was read at one of its key's entries, a key seen without a
    value has an error about it, and beside those of the item's shape there is an
    error exactly if something is badly written. On this `MarkerInv` says of each
    state of the two derives what its checks have established so far.
  - `RecordsAreDeclaredExactly` and `RecordErrorsAreExact`, for records of any number
    of fields. What `expand` will judge is the fields that parsed, so the invariant
    compares accumulators and texts field by field: `ErrorsExactSoFar` that there is
    an error exactly if the record is generic or a field read so far illegal,
    `FieldsRight` that without errors every field was kept and is what its entries
    say. The checks across fields are then
    about texts.
  - `RecordsReadInPlace` and `IntactRecordsAreFound`, from `RecordsInv`: a stored
    value remembers where it was sealed, which mixing up does not change. A value
    opens in another place only under an equal context, and contexts of two fields
    differ by what `check_distinct` and the schema's check have excluded.
  - `ManifestReportsConfusions`, from `ManifestInv`: each vector lists what was
    registered once, in whatever order and however often it was, and the contexts are
    the kinds each seal is stored in; so two entries with one ID are two
    declarations, and two contexts of one seal two kinds.
  - `LiteralsAreJudgedAlike`: the digits the derive reads are the pairs the crate
    reads, and in every form the crate takes they are the same digits at other places
    (`TextsAre`); each is below 16, so equal bytes are equal digits, and equal digits
    are equal characters up to case. What is printed is hyphenated and has the digits
    of the bytes (`PrintedAre`). Names: the last slash exists, and a version of
    digits has none.

The type invariants of `Sweep`, `RowLifecycle`, `Fleet` and `Migration` are proved
and therefore not run as properties of their own; `RotationTypeOK`, which contains
that of `Sweep`, is both.

`RotationKeepsValues` in `RotationProofs` lifts the refinement to the composition:
a step of a verification pass is a stutter of the sweep (`PassesOnlyRead`).

Where a proof needs induction (digits, powers, bits, the last slash, the first broken
column) it takes the least number of a set, from the well-foundedness of the naturals
(`LeastNatural`, `ByInduction`): the prover instantiates no theorem that takes an
operator.

Only model-checked: liveness (`RotationCompletes`, `WindowCloses`, `ShreddingEnds`),
which rests on fairness and ENABLED, out of the prover's reach; and everything TLC
says of the initial tables. Every safety property and action property of the passing
runs is proved.

## Not modelled

- The cryptography: sealing, derivation and digests are ideal. What they are
  computed over is modelled (`Preimages`).
- Decoding of key material and its zeroization, which no state of the library shows.
- The rendering of SQL: quoting and parameter numbers. The statements' meaning is.
- Conversions by serde and sqlx, which delegate to `from_bytes` and `as_bytes`, and
  the manifest's rendered listing, a fixed layout of the entries.
- `fuzz/` and the testing aids, which hold no state of the library.
- Database isolation beyond single statements: the packaged stores use no
  transaction, so each statement is atomic and nothing more. The example's
  transactions are in `Migration`.

## Plan

Done: the modules and theorems above. Left, in this order:

1. Liveness of `Fleet`: every rotation under a patient operator completes (for TLC).
2. What a composition keeps of its parts, as `RotationKeepsValues` does: of
   `Migration`, that between two commands of operators a sweep is the sweep of
   `Sweep`.
