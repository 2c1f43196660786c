------------------------------- MODULE Fleet --------------------------------
(***************************************************************************)
(* A fleet of processes that rotates keys while it serves: the keyring     *)
(* snapshots, the canary and the audit of examples/searchable, under the   *)
(* gates docs/operations.md makes of them.                                 *)
(*                                                                         *)
(* A process loads its keyrings when it starts and keeps that snapshot.    *)
(* Deployments are introduced one at a time: a candidate's canary is       *)
(* checked on the snapshot of every serving process and on every           *)
(* deployment a process may still start with, rollbacks included.          *)
(***************************************************************************)
EXTENDS Search, FiniteSets, Sequences

CONSTANTS
    Instances,         \* the serving processes
    Ids,               \* primary keys
    Absent,            \* no row
    NoCandidate,       \* no rollout is being prepared
    EncryptionKey,     \* the encryption key of each generation
    IndexKey,          \* the blind-index key of each generation
    Seal1, Kind1,      \* the seal of the sealed column and its context
    PrecisionOf,       \* the bits of each index column
    Deployments,       \* the configurations a rotation goes through
    FirstDeployment,   \* the one it begins with
    CanaryValue,       \* the synthetic value of a canary
    MaxOffered         \* bound: deployments processes may start with at a time

Generations == 1..3
States == {"1", "staged", "2", "2-only", "staged-3", "3"}

ASSUME FleetAssumption ==
    /\ Absent \notin RowsOver(Len(PrecisionOf))
    /\ NoCandidate \notin Deployments
    /\ EncryptionKey \in [Generations -> KeyIds]
    /\ IndexKey \in [Generations -> IndexKeyIds]
    /\ Seal1 \in Seals /\ Kind1 \in RecordKinds
    /\ PrecisionOf \in Seq(1..MaxIndexBits)
    /\ Deployments \subseteq [encryption : States, index : States, padding : BOOLEAN]
    /\ FirstDeployment \in Deployments
    /\ CanaryValue \in Values \ (Oversized \cup Unindexable)
    /\ Ids \subseteq Int

-----------------------------------------------------------------------------
(* The keyrings of a configuration state, for either role.                 *)

CurrentGeneration(state) ==
    CASE state \in {"1", "staged"} -> 1
      [] state \in {"2", "2-only", "staged-3"} -> 2
      [] state = "3" -> 3

ReadableGenerations(state) ==
    CASE state = "1" -> {1}
      [] state \in {"staged", "2"} -> {1, 2}
      [] state = "2-only" -> {2}
      [] state \in {"staged-3", "3"} -> {1, 2, 3}

RingOf(state, key) ==
    [current |-> key[CurrentGeneration(state)],
     keys |-> {key[g] : g \in ReadableGenerations(state)}]

(* What a process of a deployment seals, opens, derives and sweeps with.   *)
Config(d) ==
    [keys |-> RingOf(d.encryption, EncryptionKey), seal |-> Seal1, kind |-> Kind1,
     padding |-> d.padding, handler |-> FALSE,
     columns |-> [c \in DOMAIN PrecisionOf |->
                    [bits |-> PrecisionOf[c], keys |-> RingOf(d.index, IndexKey)]]]

(* What a deployment's put stores.  Nothing here compares two envelopes,   *)
(* so their nonces are left out.                                           *)
RowOf(d, id, value) ==
    [ciphertext |-> Seal(RowContext(Config(d), id), d.padding, value, Config(d).keys, 0),
     indexes |-> [c \in DOMAIN PrecisionOf |->
                    Derive(value, PrecisionOf[c], RingOf(d.index, IndexKey))]]

CanWrite(d, value) == SealError(d.padding, value) = Ok /\ value \notin Unindexable

-----------------------------------------------------------------------------
(* The gates.                                                              *)

CanaryId == 0

(* rotation_canary: one synthetic row of the candidate's keys, kept out of *)
(* the table.                                                              *)
RotationCanary(d) == RowOf(d, CanaryId, CanaryValue)

(* Faults: the canary is only opened, or only looked up.                   *)
RotationReadyUnprobed(d, canary) ==
    /\ StrictReadError(Config(d), CanaryId, canary) = Ok
    /\ canary.ciphertext.payload = CanaryValue

RotationReadyUnopened(d, canary) ==
    \A c \in DOMAIN PrecisionOf : Probed(Config(d), c, CanaryValue, canary)

(* rotation_ready: a snapshot opens the canary and has a probe for it.     *)
RotationReady(d, canary) ==
    /\ StrictReadError(Config(d), CanaryId, canary) = Ok
    /\ canary.ciphertext.payload = CanaryValue
    /\ \A c \in DOMAIN PrecisionOf : Probed(Config(d), c, CanaryValue, canary)

VARIABLES
    running,     \* the snapshot of each process
    offered,     \* the deployments a process may start with
    candidate,   \* the deployment being prepared
    acked,       \* the processes that acknowledged its canary
    table        \* the stored rows

vars == <<running, offered, candidate, acked, table>>

Present == {id \in Ids : table[id] # Absent}

(* Fault: the audit opens every row and looks at no index.                 *)
AuditEnvelopes(d) ==
    \A id \in Present : StrictReadError(Config(d), id, table[id]) = Ok

(* audit_current, under a pause of all writes: every row opens with the    *)
(* keys of this deployment and holds the index it derives.                 *)
AuditCurrent(d) ==
    \A id \in Present :
        /\ StrictReadError(Config(d), id, table[id]) = Ok
        /\ \A c \in DOMAIN PrecisionOf :
            table[id].indexes[c] = Derive(table[id].ciphertext.payload, PrecisionOf[c],
                                          RingOf(d.index, IndexKey))

Retires(d, e) ==
    \/ ~(ReadableGenerations(e.encryption) \subseteq ReadableGenerations(d.encryption))
    \/ ~(ReadableGenerations(e.index) \subseteq ReadableGenerations(d.index))

(* What the operator establishes before the first process of a candidate   *)
(* starts: all processes and all deployments they may restart with can     *)
(* read what it writes, it can read what they write, and the audit covers  *)
(* for the generations it no longer holds.                                 *)
GatePasses(d) ==
    /\ acked = Instances
    /\ \A e \in offered :
        RotationReady(e, RotationCanary(d)) /\ RotationReady(d, RotationCanary(e))
    /\ \A i \in Instances : RotationReady(d, RotationCanary(running[i]))
    /\ (\E e \in offered : Retires(d, e)) => AuditCurrent(d)

-----------------------------------------------------------------------------
Init ==
    /\ running = [i \in Instances |-> FirstDeployment]
    /\ offered = {FirstDeployment}
    /\ candidate = NoCandidate
    /\ acked = {}
    /\ table = [id \in Ids |-> Absent]

(* A rollout is prepared, or given up.                                     *)
Propose ==
    /\ candidate' \in (Deployments \ offered) \cup {NoCandidate}
    /\ acked' = {}
    /\ UNCHANGED <<running, offered, table>>

(* A process checks the canary on the snapshot it serves with.             *)
Acknowledge(i) ==
    /\ candidate # NoCandidate
    /\ RotationReady(running[i], RotationCanary(candidate))
    /\ acked' = acked \cup {i}
    /\ UNCHANGED <<running, offered, candidate, table>>

Offer ==
    /\ candidate # NoCandidate
    /\ Cardinality(offered) < MaxOffered
    /\ GatePasses(candidate)
    /\ offered' = offered \cup {candidate}
    /\ candidate' = NoCandidate /\ acked' = {}
    /\ UNCHANGED <<running, table>>

(* No process starts with it any more; those that run it go on.            *)
Withdraw ==
    /\ \E d \in offered : offered # {d} /\ offered' = offered \ {d}
    /\ UNCHANGED <<running, candidate, acked, table>>

(* Fault: an acknowledgment outlives the snapshot it was made with.        *)
RestartAcknowledged(i) ==
    /\ \E d \in offered : running' = [running EXCEPT ![i] = d]
    /\ UNCHANGED <<offered, candidate, acked, table>>

(* A process ends, or is new; its snapshot has acknowledged nothing.       *)
Restart(i) ==
    /\ \E d \in offered : running' = [running EXCEPT ![i] = d]
    /\ acked' = acked \ {i}
    /\ UNCHANGED <<offered, candidate, table>>

Put(i, id, value) ==
    /\ CanWrite(running[i], value)
    /\ table' = [table EXCEPT ![id] = RowOf(running[i], id, value)]
    /\ UNCHANGED <<running, offered, candidate, acked>>

Delete(id) ==
    /\ table' = [table EXCEPT ![id] = Absent]
    /\ UNCHANGED <<running, offered, candidate, acked>>

(* A process sweeps one row: plan_row with its snapshot, and the update.   *)
Rewrite(i, id) ==
    LET p == Config(running[i]) IN
    /\ id \in Present
    /\ PlanError(p, id, table[id]) = Ok
    /\ PlanState(p, table[id]) # "Current"
    /\ table' = [table EXCEPT ![id] = Replacement(p, id, table[id], 0)]
    /\ UNCHANGED <<running, offered, candidate, acked>>

Next ==
    \/ Propose \/ Offer \/ Withdraw
    \/ \E i \in Instances : Acknowledge(i) \/ Restart(i)
    \/ \E i \in Instances, id \in Ids : Rewrite(i, id)
    \/ \E i \in Instances, id \in Ids, value \in Values : Put(i, id, value)
    \/ \E id \in Ids : Delete(id)

Spec == Init /\ [][Next]_vars

-----------------------------------------------------------------------------
(* The types: a process can always start, and only a candidate is          *)
(* acknowledged.                                                           *)
TypeOK ==
    /\ running \in [Instances -> Deployments]
    /\ offered \subseteq Deployments /\ offered # {}
    /\ candidate \in Deployments \cup {NoCandidate}
    /\ acked \subseteq Instances
    /\ acked # {} => candidate # NoCandidate
    /\ table \in [Ids -> RowsOver(Len(PrecisionOf)) \cup {Absent}]

(* Whichever processes have been promoted, rolled back or reduced, in any  *)
(* order of restarts, each of them opens every row that any of them wrote  *)
(* or swept.                                                               *)
EveryProcessReads ==
    \A i \in Instances : \A id \in Present :
        StrictReadError(Config(running[i]), id, table[id]) = Ok

(* And each of them finds every row: a search under any snapshot returns   *)
(* the rows whose value matches, never silently fewer.                     *)
EveryProcessFinds ==
    \A i \in Instances : \A query \in Values \ Unindexable : \A c \in DOMAIN PrecisionOf :
        StrictHits(Config(running[i]), c, query, table, Present)
          = {id \in Present : SameNormalForm(query, table[id].ciphertext.payload)}
=============================================================================
