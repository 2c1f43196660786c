----------------------------- MODULE FleetProofs ----------------------------
(***************************************************************************)
(* The gates keep every process reading and searching, for any number of   *)
(* processes and rows and any deployments the six states make up.          *)
(*                                                                         *)
(* What the gates maintain is a relation between all deployments that run  *)
(* or may start, the live ones: each holds the generations every other     *)
(* writes with, and those every stored row names.  Rows are never anything *)
(* but what some deployment sealed and derived.                            *)
(***************************************************************************)
EXTENDS Fleet, RowPlannerProofs

Columns == DOMAIN PrecisionOf

Context(id) == SealContext(Seal1, Kind1, id)

EncryptionKeysOf(d) == {EncryptionKey[g] : g \in ReadableGenerations(d.encryption)}
IndexKeysOf(d) == {IndexKey[g] : g \in ReadableGenerations(d.index)}

(* "d" holds the generations "e" writes with.                              *)
Reads(d, e) ==
    /\ EncryptionKey[CurrentGeneration(e.encryption)] \in EncryptionKeysOf(d)
    /\ Columns # {} => IndexKey[CurrentGeneration(e.index)] \in IndexKeysOf(d)

GoodRow(id, row) ==
    /\ row.ciphertext.form = "envelope"
    /\ Check(Fingerprint(Context(id)), row.ciphertext) = Ok
    /\ Authenticates(Context(id), row.ciphertext)
    /\ row.ciphertext.payload \in Values \ Unindexable
    /\ \A c \in Columns :
        row.indexes[c] = IndexOf(row.ciphertext.payload, PrecisionOf[c], row.indexes[c].key)

HeldBy(d, row) ==
    /\ row.ciphertext.key \in EncryptionKeysOf(d)
    /\ \A c \in Columns : row.indexes[c].key \in IndexKeysOf(d)

Live == offered \cup {running[i] : i \in Instances}

-----------------------------------------------------------------------------
LEMMA ConfigFields ==
    ASSUME NEW d
    PROVE  /\ Config(d).keys.keys = EncryptionKeysOf(d)
           /\ Config(d).keys.current = EncryptionKey[CurrentGeneration(d.encryption)]
           /\ Config(d).padding = d.padding
           /\ \A id : RowContext(Config(d), id) = Context(id)
           /\ DOMAIN Config(d).columns = Columns
           /\ \A c \in Columns :
                /\ Config(d).columns[c].bits = PrecisionOf[c]
                /\ Config(d).columns[c].keys.keys = IndexKeysOf(d)
                /\ Config(d).columns[c].keys.current = IndexKey[CurrentGeneration(d.index)]
BY DEF Config, RingOf, EncryptionKeysOf, IndexKeysOf, RowContext, Context, Columns

LEMMA GenerationsOfStates ==
    ASSUME NEW s \in States
    PROVE  /\ CurrentGeneration(s) \in ReadableGenerations(s)
           /\ CurrentGeneration(s) \in Generations
           /\ ReadableGenerations(s) \subseteq Generations
<1>1. CASE s \in {"1", "staged"}
  BY <1>1 DEF CurrentGeneration, ReadableGenerations, Generations
<1>2. CASE s \in {"2", "2-only", "staged-3"}
  BY <1>2 DEF CurrentGeneration, ReadableGenerations, Generations
<1>3. CASE s = "3"
  BY <1>3 DEF CurrentGeneration, ReadableGenerations, Generations
<1> QED
  BY <1>1, <1>2, <1>3 DEF States

LEMMA CurrentIsReadable ==
    ASSUME NEW d \in Deployments
    PROVE  Reads(d, d)
<1>1. \A s \in States : CurrentGeneration(s) \in ReadableGenerations(s)
  BY GenerationsOfStates
<1>2. d.encryption \in States /\ d.index \in States
  BY FleetAssumption
<1> QED
  BY <1>1, <1>2 DEF Reads, EncryptionKeysOf, IndexKeysOf

(* Reading a good row takes its key, and finding it takes its index key.   *)
LEMMA GoodRowReads ==
    ASSUME NEW d, NEW id, NEW row, GoodRow(id, row),
           row.ciphertext.key \in EncryptionKeysOf(d)
    PROVE  StrictReadError(Config(d), id, row) = Ok
<1>1. row.ciphertext.payload # Unpaddable
  BY EnvelopeAssumption DEF GoodRow
<1>2. Open(RowContext(Config(d), id), row.ciphertext, Config(d).keys) = Ok
  BY <1>1, ConfigFields DEF GoodRow, Open
<1>3. Decode(row.ciphertext.payload) = Ok
  BY DEF GoodRow, Decode
<1> QED
  BY <1>2, <1>3 DEF StrictReadError

LEMMA ReadRowIsHeld ==
    ASSUME NEW d, NEW id, NEW row, GoodRow(id, row),
           StrictReadError(Config(d), id, row) = Ok
    PROVE  row.ciphertext.key \in EncryptionKeysOf(d)
<1>1. Open(RowContext(Config(d), id), row.ciphertext, Config(d).keys) = Ok
  BY DEF StrictReadError
<1> QED
  BY <1>1, ConfigFields DEF GoodRow, Open, Ok

-----------------------------------------------------------------------------
(* What a deployment writes.                                               *)
LEMMA WrittenRowIsGood ==
    ASSUME NEW d \in Deployments, NEW id, NEW value \in Values \ Unindexable
    PROVE  /\ GoodRow(id, RowOf(d, id, value))
           /\ \A e : Reads(e, d) => HeldBy(e, RowOf(d, id, value))
<1> DEFINE row == RowOf(d, id, value)
<1>1. row.ciphertext = Seal(Context(id), d.padding, value, Config(d).keys, 0)
  BY ConfigFields DEF RowOf
<1>2. /\ row.ciphertext.form = "envelope"
      /\ row.ciphertext.payload = value
      /\ row.ciphertext.key = EncryptionKey[CurrentGeneration(d.encryption)]
      /\ Authenticates(Context(id), row.ciphertext)
  BY <1>1, ConfigFields DEF Seal, Authenticates
<1>3. Check(Fingerprint(Context(id)), row.ciphertext) = Ok
  BY <1>1 DEF Seal, Check, InspectCiphertext, Ok, FormatVersion, SupportedSuites, ActiveSuite
<1>4. \A c \in Columns :
        /\ row.indexes[c] = IndexOf(value, PrecisionOf[c], IndexKey[CurrentGeneration(d.index)])
        /\ row.indexes[c].key = IndexKey[CurrentGeneration(d.index)]
  BY DEF RowOf, Derive, IndexOf, RingOf, Columns
<1> HIDE DEF row
<1>5. GoodRow(id, row)
  BY <1>2, <1>3, <1>4 DEF GoodRow
<1>6. ASSUME NEW e, Reads(e, d) PROVE HeldBy(e, row)
  BY <1>2, <1>4, <1>6 DEF Reads, HeldBy
<1> QED
  BY <1>5, <1>6 DEF row

(* A canary that passes shows that its generations are held.               *)
LEMMA CanaryShowsKeys ==
    ASSUME NEW d \in Deployments, NEW e \in Deployments,
           RotationReady(d, RotationCanary(e))
    PROVE  Reads(d, e)
<1> DEFINE canary == RotationCanary(e)
<1>1. GoodRow(CanaryId, canary)
  BY WrittenRowIsGood, FleetAssumption DEF RotationCanary
<1>2. StrictReadError(Config(d), CanaryId, canary) = Ok
  BY DEF RotationReady
<1>3. canary.ciphertext.key = EncryptionKey[CurrentGeneration(e.encryption)]
  BY ConfigFields DEF RotationCanary, RowOf, Seal
<1>4. EncryptionKey[CurrentGeneration(e.encryption)] \in EncryptionKeysOf(d)
  BY <1>1, <1>2, <1>3, ReadRowIsHeld
<1>5. ASSUME NEW c \in Columns
      PROVE  IndexKey[CurrentGeneration(e.index)] \in IndexKeysOf(d)
  <2>1. Probed(Config(d), c, CanaryValue, canary)
    BY <1>5 DEF RotationReady, Columns
  <2>2. PICK k \in IndexKeysOf(d) : canary.indexes[c] = IndexOf(CanaryValue, PrecisionOf[c], k)
    BY <1>5, <2>1, ConfigFields, SMTT(30) DEF Probed, Probes
  <2>3. canary.indexes[c].key = IndexKey[CurrentGeneration(e.index)]
    BY <1>5 DEF RotationCanary, RowOf, Derive, IndexOf, RingOf, Columns
  <2>4. canary.indexes[c].key = k
    BY <2>2 DEF IndexOf
  <2> QED
    BY <2>2, <2>3, <2>4
<1> QED
  BY <1>4, <1>5 DEF Reads

(* A rewrite keeps each component or derives it with current keys.         *)
LEMMA RewrittenRowIsGood ==
    ASSUME NEW d \in Deployments, NEW id, NEW row, GoodRow(id, row),
           NEW new, new = Replacement(Config(d), id, row, 0)
    PROVE  /\ GoodRow(id, new)
           /\ \A e : HeldBy(e, row) /\ Reads(e, d) => HeldBy(e, new)
<1> DEFINE value == row.ciphertext.payload
           p == Config(d)
           fresh == RowOf(d, id, value)
<1>1. value \in Values \ Unindexable
  BY DEF GoodRow
<1>2. /\ GoodRow(id, fresh)
      /\ \A e : Reads(e, d) => HeldBy(e, fresh)
  BY <1>1, WrittenRowIsGood
<1>3. new.ciphertext \in {row.ciphertext, fresh.ciphertext}
  BY ConfigFields DEF Replacement, RowOf
<1>4. ASSUME NEW c \in Columns
      PROVE  new.indexes[c] \in {row.indexes[c], fresh.indexes[c]}
  <2>1. c \in DOMAIN p.columns
    BY <1>4, ConfigFields
  <2>2. new.indexes[c] = IF c \in RederivedColumns(p, row)
                         THEN Derive(value, p.columns[c].bits, p.columns[c].keys)
                         ELSE row.indexes[c]
    BY <2>1 DEF Replacement
  <2>3. Derive(value, p.columns[c].bits, p.columns[c].keys) = fresh.indexes[c]
    BY <1>4 DEF Config, RowOf, Columns
  <2> QED
    BY <2>2, <2>3
<1>5. fresh.ciphertext.payload = value
  BY DEF RowOf, Seal
<1> HIDE DEF fresh, value
<1>6. GoodRow(id, new)
  <2>1. new.ciphertext.payload = value
    BY <1>3, <1>5 DEF value
  <2>2. /\ new.ciphertext.form = "envelope"
        /\ Check(Fingerprint(Context(id)), new.ciphertext) = Ok
        /\ Authenticates(Context(id), new.ciphertext)
    BY <1>2, <1>3 DEF GoodRow
  <2>3. ASSUME NEW c \in Columns
        PROVE  new.indexes[c] = IndexOf(value, PrecisionOf[c], new.indexes[c].key)
    <3>1. row.indexes[c] = IndexOf(value, PrecisionOf[c], row.indexes[c].key)
      BY <2>3 DEF GoodRow, value
    <3>2. fresh.indexes[c] = IndexOf(value, PrecisionOf[c], fresh.indexes[c].key)
      BY <1>2, <1>5, <2>3 DEF GoodRow
    <3> QED
      BY <1>4, <3>1, <3>2
  <2> QED
    BY <1>1, <2>1, <2>2, <2>3 DEF GoodRow
<1>7. ASSUME NEW e, HeldBy(e, row), Reads(e, d) PROVE HeldBy(e, new)
  <2>1. HeldBy(e, fresh)
    BY <1>2, <1>7
  <2>2. \A c \in Columns : new.indexes[c].key \in IndexKeysOf(e)
    BY <1>4, <1>7, <2>1 DEF HeldBy
  <2> QED
    BY <1>3, <1>7, <2>1, <2>2 DEF HeldBy
<1> QED
  BY <1>6, <1>7

-----------------------------------------------------------------------------
(* The rows are well typed.                                                *)
LEMMA SequenceElements ==
    ASSUME NEW S, NEW s \in Seq(S)
    PROVE  DOMAIN s = 1..Len(s) /\ \A c \in 1..Len(s) : s[c] \in S
OBVIOUS

LEMMA ConfigType ==
    ASSUME NEW d \in Deployments
    PROVE  Config(d) \in PlannersOver(Len(PrecisionOf))
<1>1. d.encryption \in States /\ d.index \in States /\ d.padding \in BOOLEAN
  BY FleetAssumption
<1>2. RingOf(d.encryption, EncryptionKey) \in Keyrings
  BY <1>1, GenerationsOfStates, FleetAssumption DEF RingOf, Keyrings
<1>3. RingOf(d.index, IndexKey) \in IndexKeyrings
  BY <1>1, GenerationsOfStates, FleetAssumption DEF RingOf, IndexKeyrings
<1>4. DOMAIN PrecisionOf = 1..Len(PrecisionOf)
      /\ \A c \in 1..Len(PrecisionOf) : PrecisionOf[c] \in 1..MaxIndexBits
  BY SequenceElements, FleetAssumption
<1>5. Config(d).columns \in [1..Len(PrecisionOf) ->
          [bits : 1..MaxIndexBits, keys : IndexKeyrings \cup {NotConfigured}]]
  BY <1>3, <1>4 DEF Config
<1> QED
  BY <1>1, <1>2, <1>5, FleetAssumption DEF Config, PlannersOver

LEMMA WrittenRowType ==
    ASSUME NEW d \in Deployments, NEW id \in Int, NEW value \in Values
    PROVE  RowOf(d, id, value) \in RowsOver(Len(PrecisionOf))
<1> DEFINE n == Len(PrecisionOf)
<1>1. n \in Nat /\ DOMAIN PrecisionOf = 1..n
  BY FleetAssumption
<1>2. RowOf(d, id, value).ciphertext \in Ciphertexts
  <2>1. value \in Payloads \ {Unpaddable}
    BY EnvelopeAssumption DEF Payloads
  <2>2. Config(d) \in PlannersOver(n) /\ 0 \in Nat
    BY ConfigType
  <2>3. Seal(RowContext(Config(d), id), Config(d).padding, value, Config(d).keys, 0) \in Ciphertexts
    BY <1>1, <2>1, <2>2, SealType
  <2> QED
    BY <2>3 DEF RowOf, Config
<1>3. ASSUME NEW c \in 1..n
      PROVE  RowOf(d, id, value).indexes[c] \in Indexes
  <2>1. RingOf(d.index, IndexKey) = Config(d).columns[c].keys /\ PrecisionOf[c] = Config(d).columns[c].bits
    BY <1>1, <1>3 DEF Config
  <2>2. RingOf(d.index, IndexKey) \in IndexKeyrings \cup {NotConfigured} /\ PrecisionOf[c] \in Nat
    <3>1. Config(d).columns[c] \in [bits : 1..MaxIndexBits, keys : IndexKeyrings \cup {NotConfigured}]
      BY <1>3, ConfigType DEF PlannersOver
    <3>2. 1..MaxIndexBits \subseteq Nat
      BY DEF MaxIndexBits
    <3> QED
      BY <2>1, <3>1, <3>2
  <2>3. IndexKey[CurrentGeneration(d.index)] \in IndexKeyIds
    <3>1. d.index \in States
      BY FleetAssumption
    <3> QED
      BY <3>1, FleetAssumption, GenerationsOfStates
  <2>4. Digest[IndexKey[CurrentGeneration(d.index)]][NormalForm[value]] \in Digests
    BY <2>3, DigestType
  <2>5. RowOf(d, id, value).indexes[c]
          = IndexOf(value, PrecisionOf[c], IndexKey[CurrentGeneration(d.index)])
    BY <1>1, <1>3 DEF RowOf, Derive, RingOf
  <2> QED
    BY <2>2, <2>3, <2>4, <2>5 DEF IndexOf, Indexes, IndexFormatVersion
<1> QED
  BY <1>1, <1>2, <1>3 DEF RowOf, RowsOver

-----------------------------------------------------------------------------
FleetInvariant ==
    /\ TypeOK
    /\ \A id \in Present : /\ GoodRow(id, table[id])
                           /\ \A d \in Live : HeldBy(d, table[id])
    /\ \A d \in Live, e \in Live : Reads(d, e)
    /\ \A i \in acked : Reads(running[i], candidate)

LEMMA LiveAreDeployments ==
    ASSUME TypeOK
    PROVE  Live \subseteq Deployments
BY DEF TypeOK, Live

(* No step but a restart or an offer changes what is live.                 *)
LEMMA OneRowChanges ==
    ASSUME FleetInvariant, NEW id \in Ids, NEW row \in RowsOver(Len(PrecisionOf)),
           GoodRow(id, row), \A d \in Live : HeldBy(d, row),
           table' = [table EXCEPT ![id] = row],
           UNCHANGED <<running, offered, candidate, acked>>
    PROVE  FleetInvariant'
<1>1. Live' = Live
  BY DEF Live
<1>2. \A j \in Present' : j = id \/ (j \in Present /\ table'[j] = table[j])
  BY DEF Present
<1>3. table'[id] = row
  BY DEF FleetInvariant, TypeOK
<1>4. TypeOK'
  BY <1>2, <1>3 DEF FleetInvariant, TypeOK
<1>5. \A j \in Present' : GoodRow(j, table'[j]) /\ \A d \in Live : HeldBy(d, table'[j])
  BY <1>2, <1>3 DEF FleetInvariant
<1> QED
  BY <1>1, <1>4, <1>5 DEF FleetInvariant

LEMMA PutPreserves ==
    ASSUME FleetInvariant, NEW i \in Instances, NEW id \in Ids, NEW value \in Values,
           Put(i, id, value)
    PROVE  FleetInvariant'
<1>1. running[i] \in Deployments /\ running[i] \in Live /\ id \in Int
  BY FleetAssumption DEF FleetInvariant, TypeOK, Live
<1>2. value \in Values \ Unindexable
  BY DEF Put, CanWrite
<1>3. RowOf(running[i], id, value) \in RowsOver(Len(PrecisionOf))
  BY <1>1, WrittenRowType
<1>4. /\ GoodRow(id, RowOf(running[i], id, value))
      /\ \A d \in Live : HeldBy(d, RowOf(running[i], id, value))
  BY <1>1, <1>2, WrittenRowIsGood DEF FleetInvariant
<1> QED
  BY <1>3, <1>4, OneRowChanges DEF Put

LEMMA RewritePreserves ==
    ASSUME FleetInvariant, NEW i \in Instances, NEW id \in Ids, Rewrite(i, id)
    PROVE  FleetInvariant'
<1> DEFINE p == Config(running[i])
           new == Replacement(p, id, table[id], 0)
<1>1. running[i] \in Deployments /\ running[i] \in Live /\ id \in Int /\ id \in Present
  BY FleetAssumption DEF FleetInvariant, TypeOK, Live, Rewrite
<1>2. table[id] \in RowsOver(Len(PrecisionOf))
  BY <1>1 DEF FleetInvariant, TypeOK, Present
<1>3. p \in PlannersOver(Len(PrecisionOf)) /\ Len(PrecisionOf) \in Nat
  BY <1>1, ConfigType, FleetAssumption
<1>4. new \in RowsOver(Len(PrecisionOf))
  BY <1>1, <1>2, <1>3, ReplacementType DEF Rewrite
<1>5. GoodRow(id, table[id]) /\ \A d \in Live : HeldBy(d, table[id])
  BY <1>1 DEF FleetInvariant
<1>6. GoodRow(id, new) /\ \A d \in Live : HeldBy(d, new)
  BY <1>1, <1>5, RewrittenRowIsGood DEF FleetInvariant
<1> QED
  BY <1>4, <1>6, OneRowChanges DEF Rewrite

(* The rows a candidate takes over: those of a deployment it has all       *)
(* generations of, or those the audit has opened and derived.              *)
LEMMA CandidateHoldsRows ==
    ASSUME FleetInvariant, candidate \in Deployments, GatePasses(candidate), NEW id \in Present
    PROVE  HeldBy(candidate, table[id])
<1> DEFINE d == candidate
           row == table[id]
<1>1. GoodRow(id, row) /\ \A e \in Live : HeldBy(e, row)
  BY DEF FleetInvariant
<1>2. CASE AuditCurrent(d)
  <2>1. row.ciphertext.key \in EncryptionKeysOf(d)
    BY <1>1, <1>2, ReadRowIsHeld DEF AuditCurrent
  <2>2. ASSUME NEW c \in Columns PROVE row.indexes[c].key \in IndexKeysOf(d)
    <3>1. row.indexes[c].key = IndexKey[CurrentGeneration(d.index)]
      <4>1. row.indexes[c] = Derive(row.ciphertext.payload, PrecisionOf[c], RingOf(d.index, IndexKey))
        BY <1>2, <2>2 DEF AuditCurrent, Columns
      <4> QED
        BY <4>1 DEF Derive, IndexOf, RingOf
    <3> QED
      BY <2>2, <3>1, CurrentIsReadable DEF Reads
  <2> QED
    BY <2>1, <2>2 DEF HeldBy
<1>3. CASE ~AuditCurrent(d)
  <2>1. PICK e \in offered : ~Retires(d, e)
    BY <1>3 DEF GatePasses, FleetInvariant, TypeOK
  <2>2. EncryptionKeysOf(e) \subseteq EncryptionKeysOf(d) /\ IndexKeysOf(e) \subseteq IndexKeysOf(d)
    BY <2>1 DEF Retires, EncryptionKeysOf, IndexKeysOf
  <2>3. HeldBy(e, row)
    BY <1>1, <2>1 DEF Live
  <2> QED
    BY <2>2, <2>3 DEF HeldBy
<1> QED
  BY <1>2, <1>3

LEMMA OfferPreserves ==
    ASSUME FleetInvariant, Offer
    PROVE  FleetInvariant'
<1> DEFINE d == candidate
<1>1. d \in Deployments /\ GatePasses(d) /\ Live \subseteq Deployments
  BY LiveAreDeployments DEF FleetInvariant, TypeOK, Offer
<1>2. Live' = Live \cup {d}
  BY DEF Offer, Live
<1>3. \A e \in Live : Reads(e, d)
  <2>1. \A e \in offered : Reads(e, d)
    BY <1>1, CanaryShowsKeys DEF GatePasses, Live
  <2>2. \A i \in Instances : Reads(running[i], d)
    BY <1>1 DEF GatePasses, FleetInvariant
  <2> QED
    BY <2>1, <2>2 DEF Live
<1>4. \A e \in Live : Reads(d, e)
  <2>1. \A e \in Live : RotationReady(d, RotationCanary(e))
    BY <1>1 DEF GatePasses, Live
  <2> QED
    BY <1>1, <2>1, CanaryShowsKeys
<1>5. Reads(d, d)
  BY <1>1, CurrentIsReadable
<1>6. \A id \in Present : HeldBy(d, table[id])
  BY <1>1, CandidateHoldsRows
<1>7. TypeOK' /\ Present' = Present /\ table' = table /\ acked' = {}
  BY <1>1 DEF Offer, FleetInvariant, TypeOK, Present
<1> QED
  BY <1>2, <1>3, <1>4, <1>5, <1>6, <1>7 DEF FleetInvariant

LEMMA RestartPreserves ==
    ASSUME FleetInvariant, NEW i \in Instances, Restart(i)
    PROVE  FleetInvariant'
<1>1. PICK d \in offered : running' = [running EXCEPT ![i] = d]
  BY DEF Restart
<1>2. Live' \subseteq Live
  BY <1>1 DEF Restart, Live, FleetInvariant, TypeOK
<1>3. TypeOK' /\ Present' = Present /\ table' = table
  BY <1>1 DEF Restart, FleetInvariant, TypeOK, Present
<1>4. \A j \in acked' : Reads(running'[j], candidate')
  BY <1>1 DEF Restart, FleetInvariant, TypeOK
<1> QED
  BY <1>2, <1>3, <1>4 DEF FleetInvariant

LEMMA InvariantHolds == Spec => []FleetInvariant
<1>1. Init => FleetInvariant
  <2> SUFFICES ASSUME Init PROVE FleetInvariant
    OBVIOUS
  <2>1. Live \subseteq {FirstDeployment} /\ Present = {}
    BY DEF Init, Live, Present
  <2>2. TypeOK
    BY FleetAssumption DEF Init, TypeOK
  <2>3. \A d, e \in Live : Reads(d, e)
    BY <2>1, CurrentIsReadable, FleetAssumption
  <2> QED
    BY <2>1, <2>2, <2>3 DEF FleetInvariant, Init
<1>2. ASSUME FleetInvariant, [Next]_vars
      PROVE  FleetInvariant'
  <2>1. CASE Propose
    BY <1>2, <2>1 DEF Propose, FleetInvariant, TypeOK, Live, Present
  <2>2. CASE Offer
    BY <1>2, <2>2, OfferPreserves
  <2>3. CASE Withdraw
    <3>1. Live' \subseteq Live /\ Present' = Present /\ table' = table
      BY <2>3 DEF Withdraw, Live, Present
    <3>2. TypeOK'
      BY <1>2, <2>3 DEF Withdraw, FleetInvariant, TypeOK
    <3> QED
      BY <1>2, <2>3, <3>1, <3>2 DEF Withdraw, FleetInvariant
  <2>4. ASSUME NEW i \in Instances, Acknowledge(i) PROVE FleetInvariant'
    <3>1. candidate \in Deployments /\ running[i] \in Deployments
      BY <1>2, <2>4 DEF Acknowledge, FleetInvariant, TypeOK
    <3>2. Reads(running[i], candidate)
      BY <2>4, <3>1, CanaryShowsKeys DEF Acknowledge
    <3> QED
      BY <1>2, <2>4, <3>2 DEF Acknowledge, FleetInvariant, TypeOK, Live, Present
  <2>5. ASSUME NEW i \in Instances, Restart(i) PROVE FleetInvariant'
    BY <1>2, <2>5, RestartPreserves
  <2>6. ASSUME NEW i \in Instances, NEW id \in Ids, Rewrite(i, id) PROVE FleetInvariant'
    BY <1>2, <2>6, RewritePreserves
  <2>7. ASSUME NEW i \in Instances, NEW id \in Ids, NEW value \in Values, Put(i, id, value)
        PROVE  FleetInvariant'
    BY <1>2, <2>7, PutPreserves
  <2>8. ASSUME NEW id \in Ids, Delete(id) PROVE FleetInvariant'
    <3>1. Live' = Live /\ \A j \in Present' : j \in Present /\ table'[j] = table[j]
      BY <1>2, <2>8 DEF Delete, Live, Present, FleetInvariant, TypeOK
    <3>2. TypeOK'
      BY <1>2, <2>8 DEF Delete, FleetInvariant, TypeOK
    <3> QED
      BY <1>2, <2>8, <3>1, <3>2 DEF Delete, FleetInvariant
  <2>9. CASE UNCHANGED vars
    BY <1>2, <2>9 DEF vars, FleetInvariant, TypeOK, Live, Present
  <2> QED
    BY <1>2, <2>1, <2>2, <2>3, <2>4, <2>5, <2>6, <2>7, <2>8, <2>9 DEF Next
<1> QED
  BY <1>1, <1>2, PTL DEF Spec

-----------------------------------------------------------------------------
(* TypeOK: a process can always start, and rows keep their types.          *)
THEOREM FleetTypeCorrect == Spec => []TypeOK
<1>1. FleetInvariant => TypeOK
  BY DEF FleetInvariant
<1> QED
  BY <1>1, InvariantHolds, PTL

(* EveryProcessReads: no order of promotions, rollbacks, reductions and    *)
(* restarts that pass the gate leaves a process with a row it cannot open. *)
THEOREM ProcessesRead == Spec => []EveryProcessReads
<1>1. FleetInvariant => EveryProcessReads
  <2> SUFFICES ASSUME FleetInvariant, NEW i \in Instances, NEW id \in Present
               PROVE  StrictReadError(Config(running[i]), id, table[id]) = Ok
    BY DEF EveryProcessReads
  <2>1. GoodRow(id, table[id]) /\ HeldBy(running[i], table[id])
    BY DEF FleetInvariant, Live
  <2> QED
    BY <2>1, GoodRowReads DEF HeldBy
<1> QED
  BY <1>1, InvariantHolds, PTL

(* EveryProcessFinds: nor one whose searches omit a row that matches.      *)
THEOREM ProcessesFind == Spec => []EveryProcessFinds
<1>1. FleetInvariant => EveryProcessFinds
  <2> SUFFICES ASSUME FleetInvariant, NEW i \in Instances,
                      NEW query \in Values \ Unindexable, NEW c \in Columns
               PROVE  StrictHits(Config(running[i]), c, query, table, Present)
                        = {id \in Present : SameNormalForm(query, table[id].ciphertext.payload)}
    BY DEF EveryProcessFinds, Columns
  <2> DEFINE p == Config(running[i])
  <2>1. ASSUME NEW id \in Present
        PROVE  /\ Probed(p, c, query, table[id]) /\ OpenMatching(p, id, table[id], query) = "hit"
                    => SameNormalForm(query, table[id].ciphertext.payload)
               /\ SameNormalForm(query, table[id].ciphertext.payload)
                    => Probed(p, c, query, table[id]) /\ OpenMatching(p, id, table[id], query) = "hit"
    <3> DEFINE row == table[id]
               value == row.ciphertext.payload
    <3>1. GoodRow(id, row) /\ HeldBy(running[i], row)
      BY DEF FleetInvariant, Live
    <3>2. StrictReadError(p, id, row) = Ok
      BY <3>1, GoodRowReads DEF HeldBy
    <3>3. row.ciphertext.form # "null" /\ value \notin Unindexable
      BY <3>1 DEF GoodRow
    <3>4. OpenMatching(p, id, row, query) = IF SameNormalForm(query, value) THEN "hit" ELSE "miss"
      BY <3>2, <3>3 DEF OpenMatching, VerifyCandidate
    <3>5. SameNormalForm(query, value) => Probed(p, c, query, row)
      <4> SUFFICES ASSUME SameNormalForm(query, value) PROVE Probed(p, c, query, row)
        OBVIOUS
      <4>1. row.indexes[c] = IndexOf(value, PrecisionOf[c], row.indexes[c].key)
        BY <3>1 DEF GoodRow
      <4>2. IndexOf(value, PrecisionOf[c], row.indexes[c].key)
              = IndexOf(query, PrecisionOf[c], row.indexes[c].key)
        BY DEF IndexOf, SameNormalForm
      <4>3. row.indexes[c].key \in p.columns[c].keys.keys /\ p.columns[c].bits = PrecisionOf[c]
        BY <3>1, ConfigFields DEF HeldBy
      <4> QED
        BY <4>1, <4>2, <4>3 DEF Probed, Probes
    <3> QED
      BY <3>4, <3>5
  <2> QED
    BY <2>1 DEF StrictHits, StrictCandidates
<1> QED
  BY <1>1, InvariantHolds, PTL
=============================================================================
