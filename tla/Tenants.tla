------------------------------ MODULE Tenants -------------------------------
(***************************************************************************)
(* One keyring per tenant in one process: src/key/keyring.rs, reseal and   *)
(* reseal_across of src/value.rs and src/bound.rs, and the key resolution  *)
(* of examples/tenant_seal.rs and examples/custom_seal/main.rs.            *)
(*                                                                         *)
(* Keys are loaded from a secret store into a snapshot per tenant.  A call *)
(* clones the keyrings it needs and keeps them while snapshots are         *)
(* refreshed, keys rotated and tenants shredded.  A key is an ID with its  *)
(* material: the ring finds it by the ID, the AEAD tells the material.     *)
(***************************************************************************)
EXTENDS Integers, Sequences, SequencesExt, FiniteSets

CONSTANTS
    Tenants,
    KeyIds,      \* the IDs key generation may draw
    FirstId,     \* the ID of each tenant's first key, a function of the tenant
    Rows,        \* primary keys of the one table
    Calls,       \* calls in flight at one time
    Absent,      \* what a missing row holds
    NoRing,      \* a snapshot that is not loaded: None
    Idle,        \* no call
    Destroyed,   \* roots that are gone from the secret store
    MaxSeals     \* bound: envelopes sealed in a behaviour

ASSUME TenantsAssumption ==
    /\ FirstId \in [Tenants -> KeyIds]
    /\ \A t, u \in Tenants : FirstId[t] = FirstId[u] => t = u
    /\ IsFiniteSet(Calls) /\ MaxSeals \in Nat

VARIABLES
    roots,    \* secret store: per tenant, the current and the previous keys
    issued,   \* the keys generated for each tenant (history)
    cache,    \* CachedEncryptionKeys::snapshot of each tenant
    stopped,  \* the tenants whose access is revoked
    store,    \* the table: owner and envelope of each row
    calls,    \* the calls in flight
    seals     \* envelopes sealed so far: the next nonce

tenantVars == <<roots, issued, cache, stopped, store, calls, seals>>
keyVars == <<roots, issued, cache, stopped>>

-----------------------------------------------------------------------------
(* Keys and keyrings.                                                      *)

Materials == {"generated", "mispasted"}
Keys == [id : KeyIds, material : Materials]
Generated(id) == [id |-> id, material |-> "generated"]

Roots == [current : Keys, previous : Seq(Keys)]
Rings == UNION {[current : Keys, keys : [ids -> Keys]] : ids \in SUBSET KeyIds}
StoredRows == [owner : Tenants, bytes : [key : Keys, nonce : Nat]]
Requests == [row : Rows, from : Tenants, fromRing : Rings, to : Tenants, toRing : Rings,
             loaded : BOOLEAN, read : StoredRows \cup {Absent}]

ASSUME MarkersAssumption ==
    Destroyed \notin Roots /\ NoRing \notin Rings /\ Absent \notin StoredRows
        /\ Idle \notin Requests

Listed(current, previous) == <<current>> \o previous

(* Fault: a repeated ID replaces the key inserted before it.               *)
NewRingReplacing(current, previous) ==
    LET listed == Listed(current, previous)
        At(id) == {i \in DOMAIN listed : listed[i].id = id}
        ids == {key.id : key \in ToSet(listed)}
    IN  [error |-> "Ok",
         ring |-> [current |-> current, keys |-> [id \in ids |-> listed[Max(At(id))]]]]

(* Ring::new: the current key, then each previous key, under its ID; an ID *)
(* that is already taken refuses the ring.                                 *)
NewRing(current, previous) ==
    LET listed == Listed(current, previous)
        ids == {key.id : key \in ToSet(listed)}
    IN  IF \E i, j \in DOMAIN listed : i # j /\ listed[i].id = listed[j].id
        THEN [error |-> "DuplicateEncryptionKey", ring |-> NoRing]
        ELSE [error |-> "Ok",
              ring |-> [current |-> current,
                        keys |-> [id \in ids |->
                            CHOOSE key \in ToSet(listed) : key.id = id]]]

Provisioned(t) == NewRing(roots[t].current, roots[t].previous)

RingKeys(ring) == {ring.keys[id] : id \in DOMAIN ring.keys} \cup {ring.current}

-----------------------------------------------------------------------------
(* Envelopes of one seal, sealed standalone: the header names the key by   *)
(* its ID, the AEAD was run with the whole key, the nonce is fresh.        *)

SealWith(ring, nonce) == [key |-> ring.current, nonce |-> nonce]

OpenWith(ring, bytes) ==
    IF bytes.key.id \notin DOMAIN ring.keys THEN "UnknownEncryptionKey"
    ELSE IF ring.keys[bytes.key.id] # bytes.key THEN "AuthenticationFailed"
    ELSE "Ok"

NeedsReseal(ring, bytes) == bytes.key.id # ring.current.id

(* Fault: opens with the keys to seal with, seals with those to open.      *)
ResealAcrossSwapped(from, to, bytes, nonce) ==
    [error |-> OpenWith(from, bytes), bytes |-> SealWith(from, nonce)]

(* reseal is the case of from = to.                                        *)
ResealAcross(from, to, bytes, nonce) ==
    [error |-> OpenWith(from, bytes), bytes |-> SealWith(to, nonce)]

-----------------------------------------------------------------------------
(* Key resolution.  An unknown or unloaded tenant fails closed.            *)

KeyringOf(t) == IF t \in stopped THEN NoRing ELSE cache[t]

(* The calls that use a tenant's keys, to open or to seal.                 *)
Uses(call, t) == call # Idle /\ t \in {call.from, call.to}

(* Fault: a call is counted only for the tenant it reads from.             *)
DrainedOfReaders(t) == \A c \in Calls : calls[c] # Idle => calls[c].from # t

(* Shredding, step 2: nothing in flight holds a keyring of the tenant.     *)
Drained(t) == \A c \in Calls : ~Uses(calls[c], t)

TenantsInit ==
    /\ roots = [t \in Tenants |-> [current |-> Generated(FirstId[t]), previous |-> <<>>]]
    /\ issued = [t \in Tenants |-> {Generated(FirstId[t])}]
    /\ cache = [t \in Tenants |-> NewRing(Generated(FirstId[t]), <<>>).ring]
    /\ stopped = {}
    /\ store = [r \in Rows |-> Absent]
    /\ calls = [c \in Calls |-> Idle]
    /\ seals = 0

-----------------------------------------------------------------------------
(* The secret store, and the snapshots loaded from it.                     *)

Live(t) == roots[t] # Destroyed

(* Fault: the ID of a retired key is free again.                           *)
UnusedNow ==
    {id \in KeyIds : \A t \in Tenants : Live(t) /\ Provisioned(t).error = "Ok" =>
        id \notin DOMAIN Provisioned(t).ring.keys}

Unused == {id \in KeyIds : \A t \in Tenants : \A key \in issued[t] : key.id # id}

(* EncryptionKey::generate draws an ID no key has; it becomes the current  *)
(* key and the one before it stays readable.                               *)
Rotate(t) ==
    /\ Live(t) /\ t \notin stopped
    /\ \E id \in Unused :
        /\ roots' = [roots EXCEPT ![t] =
                [current |-> Generated(id), previous |-> <<@.current>> \o @.previous]]
        /\ issued' = [issued EXCEPT ![t] = @ \cup {Generated(id)}]
    /\ UNCHANGED <<cache, stopped, store, calls, seals>>

(* A previous key is listed once more, as it is or with other material     *)
(* pasted under its ID.                                                    *)
Misprovision(t) ==
    /\ Live(t) /\ t \notin stopped /\ Provisioned(t).error = "Ok"
    /\ \E id \in DOMAIN Provisioned(t).ring.keys, material \in Materials :
        roots' = [roots EXCEPT ![t].previous =
                    Append(@, [id |-> id, material |-> material])]
    /\ UNCHANGED <<issued, cache, stopped, store, calls, seals>>

(* The load failed; the entry listed last is taken out again.              *)
Correct(t) ==
    /\ Live(t) /\ Provisioned(t).error # "Ok"
    /\ roots' = [roots EXCEPT ![t].previous = Front(@)]
    /\ UNCHANGED <<issued, cache, stopped, store, calls, seals>>

(* refresh(EncryptionKeyring::new(..)?): a refused keyring leaves the      *)
(* snapshot as it is.                                                      *)
Refresh(t) ==
    /\ Live(t) /\ t \notin stopped
    /\ Provisioned(t).error = "Ok"
    /\ cache' = [cache EXCEPT ![t] = Provisioned(t).ring]
    /\ UNCHANGED <<roots, issued, stopped, store, calls, seals>>

(* Fault: the writers that still seal with a previous key are not waited   *)
(* for.                                                                    *)
MayRetireOnceRead(t) ==
    LET ring == Provisioned(t).ring
    IN  /\ Provisioned(t).error = "Ok"
        /\ cache[t] # NoRing => cache[t].current = ring.current
        /\ \A r \in Rows : store[r] # Absent /\ store[r].owner = t =>
            ~NeedsReseal(ring, store[r].bytes)

(* Previous keys go when no value of the tenant needs a reseal and every   *)
(* writer, in flight or to come, seals with the current key.               *)
MayRetire(t) ==
    LET ring == Provisioned(t).ring
    IN  /\ Provisioned(t).error = "Ok"
        /\ cache[t] # NoRing => cache[t].current = ring.current
        /\ \A c \in Calls : calls[c] # Idle /\ calls[c].to = t =>
            calls[c].toRing.current = ring.current
        /\ \A r \in Rows : store[r] # Absent /\ store[r].owner = t =>
            ~NeedsReseal(ring, store[r].bytes)

Retire(t) ==
    /\ Live(t) /\ roots[t].previous # <<>> /\ MayRetire(t)
    /\ roots' = [roots EXCEPT ![t].previous = <<>>]
    /\ UNCHANGED <<issued, cache, stopped, store, calls, seals>>

-----------------------------------------------------------------------------
(* Calls.  Keyrings are cloned first; the row is read and the envelope     *)
(* written in statements of their own, the write guarded by what was read. *)

InFlight == {c \in Calls : calls[c] # Idle}
MayBegin(c) == calls[c] = Idle /\ seals + Cardinality(InFlight) < MaxSeals

(* A new value for a tenant.                                               *)
BeginSave(c, r, t) ==
    /\ MayBegin(c) /\ KeyringOf(t) # NoRing
    /\ calls' = [calls EXCEPT ![c] =
            [row |-> r, from |-> t, fromRing |-> KeyringOf(t), to |-> t,
             toRing |-> KeyringOf(t), loaded |-> TRUE, read |-> Absent]]
    /\ UNCHANGED <<keyVars, store, seals>>

(* Maintenance of a tenant's row, or its move to another tenant.           *)
BeginReseal(c, r, from, to) ==
    /\ MayBegin(c) /\ KeyringOf(from) # NoRing /\ KeyringOf(to) # NoRing
    /\ calls' = [calls EXCEPT ![c] =
            [row |-> r, from |-> from, fromRing |-> KeyringOf(from), to |-> to,
             toRing |-> KeyringOf(to), loaded |-> FALSE, read |-> Absent]]
    /\ UNCHANGED <<keyVars, store, seals>>

(* The row is read; the call ends if it is not the tenant's, or is to stay *)
(* with it and is current.                                                 *)
Load(c) ==
    LET call == calls[c]
        row == store[calls[c].row]
    IN  /\ call # Idle /\ ~call.loaded
        /\ calls' = [calls EXCEPT ![c] =
            IF /\ row # Absent /\ row.owner = call.from
               /\ call.from # call.to \/ NeedsReseal(call.toRing, row.bytes)
            THEN [call EXCEPT !.loaded = TRUE, !.read = row]
            ELSE Idle]
        /\ UNCHANGED <<keyVars, store, seals>>

(* The rewritten envelope, or the error of opening the one read.           *)
Rewrite(call) ==
    IF call.read = Absent THEN [error |-> "Ok", bytes |-> SealWith(call.toRing, seals)]
    ELSE ResealAcross(call.fromRing, call.toRing, call.read.bytes, seals)

(* Fault: a call that cannot open what it read is tried again as it is.    *)
FinishRetrying(c) ==
    LET call == calls[c]
    IN  /\ call # Idle /\ call.loaded
        /\ Rewrite(call).error = "Ok"
        /\ calls' = [calls EXCEPT ![c] = Idle]
        /\ seals' = seals + 1
        /\ store' = IF store[call.row] = call.read
                    THEN [store EXCEPT ![call.row] =
                            [owner |-> call.to, bytes |-> Rewrite(call).bytes]]
                    ELSE store
        /\ UNCHANGED keyVars

(* An error ends the call; a write that meets another row than was read    *)
(* writes nothing.                                                         *)
Finish(c) ==
    LET call == calls[c]
        written == Rewrite(call).error = "Ok" /\ store[call.row] = call.read
    IN  /\ call # Idle /\ call.loaded
        /\ calls' = [calls EXCEPT ![c] = Idle]
        /\ seals' = IF Rewrite(call).error = "Ok" THEN seals + 1 ELSE seals
        /\ store' = IF written
                    THEN [store EXCEPT ![call.row] =
                            [owner |-> call.to, bytes |-> Rewrite(call).bytes]]
                    ELSE store
        /\ UNCHANGED keyVars

-----------------------------------------------------------------------------
(* Shredding a tenant: stop, drain, clear, destroy.                        *)

Stop(t) ==
    /\ Live(t) /\ t \notin stopped
    /\ stopped' = stopped \cup {t}
    /\ UNCHANGED <<roots, issued, cache, store, calls, seals>>

Evict(t) ==
    /\ t \in stopped /\ cache[t] # NoRing
    /\ cache' = [cache EXCEPT ![t] = NoRing]
    /\ UNCHANGED <<roots, issued, stopped, store, calls, seals>>

Destroy(t) ==
    /\ Live(t) /\ t \in stopped /\ cache[t] = NoRing /\ Drained(t)
    /\ roots' = [roots EXCEPT ![t] = Destroyed]
    /\ UNCHANGED <<issued, cache, stopped, store, calls, seals>>

-----------------------------------------------------------------------------
TenantsNext ==
    \/ \E t \in Tenants :
        \/ Rotate(t) \/ Misprovision(t) \/ Correct(t) \/ Refresh(t) \/ Retire(t)
        \/ Stop(t) \/ Evict(t) \/ Destroy(t)
    \/ \E c \in Calls :
        \/ \E r \in Rows, t \in Tenants : BeginSave(c, r, t)
        \/ \E r \in Rows, from, to \in Tenants : BeginReseal(c, r, from, to)
        \/ Load(c) \/ Finish(c)

TenantsSpec == TenantsInit /\ [][TenantsNext]_tenantVars

(* A call once begun goes on, and a shredding once begun is carried out.   *)
TenantsFairness ==
    /\ \A c \in Calls : WF_tenantVars(Load(c)) /\ WF_tenantVars(Finish(c))
    /\ \A t \in Tenants : WF_tenantVars(Evict(t)) /\ WF_tenantVars(Destroy(t))

FairTenants == TenantsSpec /\ TenantsFairness

-----------------------------------------------------------------------------
(* Properties.                                                             *)

Owned(t) == {r \in Rows : store[r] # Absent /\ store[r].owner = t}

(* Every variable keeps its type; a snapshot that serves is a ring that    *)
(* finds each key under its ID, the one it writes with included.           *)
TenantsTypeOK ==
    /\ roots \in [Tenants -> Roots \cup {Destroyed}]
    /\ issued \in [Tenants -> SUBSET Keys]
    /\ cache \in [Tenants -> Rings \cup {NoRing}]
    /\ \A t \in Tenants : cache[t] # NoRing =>
        /\ cache[t].keys[cache[t].current.id] = cache[t].current
        /\ \A id \in DOMAIN cache[t].keys : cache[t].keys[id].id = id
    /\ \A t \in Tenants : cache[t] = NoRing => t \in stopped
    /\ stopped \subseteq Tenants
    /\ store \in [Rows -> StoredRows \cup {Absent}]
    /\ calls \in [Calls -> Requests \cup {Idle}]
    /\ seals \in 0..MaxSeals

(* Whoever wrote a row last and with whichever snapshot, its tenant reads  *)
(* it: with the keys it serves with and with those a restart would load.   *)
(* No rotation, retirement, move or shredding of another tenant takes a    *)
(* value away.                                                             *)
TenantReads ==
    \A t \in Tenants : \A r \in Owned(t) :
        /\ cache[t] # NoRing => OpenWith(cache[t], store[r].bytes) = "Ok"
        /\ Live(t) /\ Provisioned(t).error = "Ok" =>
            OpenWith(Provisioned(t).ring, store[r].bytes) = "Ok"

(* A row is sealed under a key of the tenant it belongs to, at each point  *)
(* of a move: what is shredded with a tenant is its rows and no others.    *)
CustodyKept ==
    \A t \in Tenants : \A r \in Owned(t) : store[r].bytes.key \in issued[t]

(* Opening with the keyring of another tenant names the unknown key: it    *)
(* never succeeds and never looks like corruption.                         *)
WrongTenantIsLoud ==
    \A t, u \in Tenants : \A r \in Owned(t) :
        t # u /\ cache[u] # NoRing =>
            OpenWith(cache[u], store[r].bytes) = "UnknownEncryptionKey"

(* Once its roots are destroyed, no snapshot and no call in flight holds a *)
(* key of the tenant, so nothing reads any copy of its values again.       *)
ShredIsComplete ==
    \A t \in Tenants : ~Live(t) =>
        /\ \A u \in Tenants : cache[u] # NoRing => RingKeys(cache[u]) \cap issued[t] = {}
        /\ \A c \in InFlight :
            (RingKeys(calls[c].fromRing) \cup RingKeys(calls[c].toRing)) \cap issued[t] = {}

(* Each tenant reads its values and no other does; once it is shredded,    *)
(* nobody does.                                                            *)
TenantsApart ==
    TenantsTypeOK /\ TenantReads /\ CustodyKept /\ WrongTenantIsLoud /\ ShredIsComplete

(* A shredding that was begun ends: no call, failed or retried, holds the  *)
(* tenant's keys for ever.                                                 *)
ShreddingEnds ==
    \A t \in Tenants : t \in stopped ~> ~Live(t)
=============================================================================
