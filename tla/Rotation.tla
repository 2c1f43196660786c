------------------------------ MODULE Rotation ------------------------------
(***************************************************************************)
(* A whole key rotation or migration over one table: the sweep, the        *)
(* applications, and Sweep::verify (src/migrate/sweep.rs) by which the     *)
(* operator decides that historical keys, or permissive reads, can go      *)
(* (docs/operations.md).                                                   *)
(*                                                                         *)
(* Verification ignores the checkpoint, never writes, and counts the rows  *)
(* it cannot classify.  It observes each batch as loaded, while everyone   *)
(* else goes on; loading a batch and classifying it are one action, as the *)
(* classification reads nothing but the batch.                             *)
(***************************************************************************)
EXTENDS Sweep

VARIABLES
    vpc,       \* where verification is
    vcursor,   \* its in-memory cursor
    vreport,   \* its SweepReport
    vsince     \* history: every writer was on target when it began

verifyVars == <<vpc, vcursor, vreport, vsince>>
rotationVars == <<sweepVars, verifyVars>>

VerifyTypeOK ==
    /\ vpc \in {"idle", "scan", "done"}
    /\ vcursor \in Ids \cup {NoCursor}
    /\ vreport \in [Fields -> Nat]
    /\ vsince \in BOOLEAN

(* Every variable keeps its type.                                          *)
RotationTypeOK == TypeOK /\ VerifyTypeOK

VerifyInit ==
    /\ vpc = "idle"
    /\ vcursor = NoCursor
    /\ vreport = EmptyReport
    /\ vsince = FALSE

-----------------------------------------------------------------------------
(* is_row_data_failure: the errors verification counts as malformed.       *)
DataFailures ==
    {"NotCiphertext", "InvalidEnvelope", "UnsupportedFormatVersion", "UnsupportedSuite",
     "UnsupportedFlags", "UnknownEncryptionKey", "AuthenticationFailed",
     "ContextMismatch", "CodecFailed", "BlindIndexNormalizationFailed",
     "PaddingOverflow", "InvalidPadding", "InvalidBlindIndex",
     "UnsupportedBlindIndexVersion", "LegacyRecoveryFailed"}

Outcome(id) == Classify(Planner, id, table[id])

(* Fault: rows that cannot be classified are not counted.                  *)
CountedIfClassified(page, field) ==
    {id \in page : Outcome(id) \in RowStates /\ Tally(Outcome(id)) = field}

(* The rows of a batch by what verification makes of them.                 *)
Counted(page, field) ==
    CASE field = "malformed" -> {id \in page : Outcome(id) \in DataFailures}
      [] field = "conflicts" -> {}
      [] OTHER -> {id \in page : Outcome(id) \in RowStates /\ Tally(Outcome(id)) = field}

(* Anything else is the configuration's fault and aborts the pass.         *)
Misconfigured(page) == \E id \in page : Outcome(id) \notin RowStates \cup DataFailures

(* Fault: verification begins at the checkpoint.                           *)
VerifyFromCheckpoint ==
    /\ vpc # "scan"
    /\ vpc' = "scan"
    /\ vcursor' = checkpoint
    /\ vreport' = EmptyReport
    /\ vsince' = promoted
    /\ UNCHANGED sweepVars

VerifyStart ==
    /\ vpc # "scan"
    /\ vpc' = "scan"
    /\ vcursor' = NoCursor
    /\ vreport' = EmptyReport
    /\ vsince' = promoted
    /\ UNCHANGED sweepVars

VerifyBatch ==
    /\ vpc = "scan"
    /\ Loadable(Page(vcursor))
    /\ ~Misconfigured(Page(vcursor))
    /\ \E id \in Page(vcursor) :
        /\ \A j \in Page(vcursor) : j <= id
        /\ vcursor' = id
    /\ vreport' = [f \in Fields |-> vreport[f] + Cardinality(Counted(Page(vcursor), f))]
    /\ UNCHANGED <<sweepVars, vpc, vsince>>

(* A NULL, or a planner that does not fit the table: no report.            *)
VerifyFails ==
    /\ vpc = "scan"
    /\ ~Loadable(Page(vcursor)) \/ Misconfigured(Page(vcursor))
    /\ vpc' = "idle"
    /\ UNCHANGED <<sweepVars, vcursor, vreport, vsince>>

VerifyFinish ==
    /\ vpc = "scan"
    /\ Page(vcursor) = {}
    /\ vpc' = "done"
    /\ UNCHANGED <<sweepVars, vcursor, vreport, vsince>>

Verify == VerifyStart \/ VerifyBatch \/ VerifyFails \/ VerifyFinish

(* SweepReport::is_terminal.                                               *)
IsTerminal(r) == r["legacy"] = 0 /\ r["stale"] = 0 /\ r["malformed"] = 0

RotationInit == Init /\ VerifyInit

RotationNext == (Next /\ UNCHANGED verifyVars) \/ Verify

RotationSpec == RotationInit /\ [][RotationNext]_rotationVars

-----------------------------------------------------------------------------
(* What a terminal report is worth.                                        *)

(* The pass that ended with this report saw every writer on target.        *)
Certified == vpc = "done" /\ vsince /\ IsTerminal(vreport)

(* A clean full pass begun after the promotion certifies the table for     *)
(* good: every row, those written, rewritten or inserted behind the scan   *)
(* included, is Current, and stays so.                                     *)
TerminalMeansCurrent == Certified => \A id \in Present : Outcome(id) = "Current"

(* The strengthening: of a clean pass under way, the rows it has passed.   *)
ScanCurrent ==
    vsince =>
        /\ promoted
        /\ vpc # "idle" /\ IsTerminal(vreport) =>
            \A id \in Present :
                vpc = "done" \/ (vcursor # NoCursor /\ id <= vcursor) => Outcome(id) = "Current"

(* The keys that remain once the historical ones are retired.              *)
Retired(p) ==
    [p EXCEPT !.keys.keys = {p.keys.current},
              !.columns = [c \in DOMAIN p.columns |->
                  IF p.columns[c].keys = NotConfigured THEN p.columns[c]
                  ELSE [p.columns[c] EXCEPT !.keys.keys = {p.columns[c].keys.current}]]]

(* So historical keys can be retired: a reader without them reads of every *)
(* row what a reader with them reads, be it a value or an error, and every *)
(* row names an index its probes look for.                                 *)
RetirementSafe ==
    Certified => \A id \in Present :
        /\ Reading(Retired(Planner), id, table[id]) = Reading(Planner, id, table[id])
        /\ \A c \in DOMAIN Planner.columns :
            table[id].indexes[c].key \in Retired(Planner).columns[c].keys.keys

-----------------------------------------------------------------------------
(* Liveness.                                                               *)

(* What the operator keeps doing until a clean pass certifies the table:   *)
(* promote, call run, call verify, and now and then sweep from a fresh     *)
(* progress row.  The last needs strong fairness, since a run under way    *)
(* puts it off.  A run or a pass, once called, goes on.                    *)
Fairness ==
    /\ \A w \in Workers :
        /\ WF_rotationVars(~Certified /\ Start(w) /\ UNCHANGED verifyVars)
        /\ WF_rotationVars(Proceed(w) /\ UNCHANGED verifyVars)
    /\ WF_rotationVars(Promote /\ UNCHANGED <<runVars, verifyVars>>)
    /\ WF_rotationVars(~Certified /\ VerifyStart)
    /\ WF_rotationVars(VerifyBatch \/ VerifyFails \/ VerifyFinish)
    /\ SF_rotationVars(~Certified /\ FreshProgress /\ UNCHANGED verifyVars)

FairRotationSpec == RotationSpec /\ Fairness

(* A rotation over rows that can be rewritten ends: whatever order crashes,*)
(* conflicts, late writes by earlier deployments and passes come in, a     *)
(* clean pass certifies the table.  In particular no row is skipped in     *)
(* every run, and rows left behind the checkpoint are reached afresh.      *)
RotationCompletes == []<>Certified
=============================================================================
