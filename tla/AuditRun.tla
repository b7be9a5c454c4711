------------------------------ MODULE AuditRun ------------------------------
(***************************************************************************)
(* The two-stage audit lifecycle of validity_audit/runtime.py: operators   *)
(* run the commands prepare and finalize over run directories, a workspace *)
(* that can be edited and one attestation ledger.  One action per read or  *)
(* write that another actor, or a crash, can come in between; reads of     *)
(* different files with nothing between them share an action.              *)
(*                                                                         *)
(* A file is its content, None when absent, and a digest is the content it *)
(* digests.  The judgement on a review is Verdict; Policy.tla models it.   *)
(***************************************************************************)
EXTENDS Integers, Sequences, FiniteSets

CONSTANTS
    Operators, RunDirs,
    Contracts,       \* contents of the task contract, all valid
    Artifacts,       \* contents of the audited artifact
    Reviews,         \* contents of the reviewer output
    Transcripts,     \* contents of the transcript, none blank
    Verdict,         \* review -> status, or "refused" (schema, identity, policy)
    InvalidContract, \* a contract content that fails its schema
    Torn,            \* a copy or a ledger line a crash cut short
    None,
    SharedId,        \* whether every finalize is given one --attestation-id
    LedgerModes,     \* values of append_ledger
    MidCommandEdits, \* whether the workspace is edited while a command runs
    Exclusive,       \* whether a run directory has one command at a time; nothing locks it
    MaxCommands, MaxEdits, MaxAborts   \* bounds of the model

Statuses == {"pass", "pass_with_waiver", "needs_review", "fail"}
FinalState ==
    [pass |-> "completed", pass_with_waiver |-> "completed", fail |-> "failed",
     needs_review |-> "needs_review"]

ASSUME VerdictAssumption ==
    /\ Verdict \in [Reviews -> Statuses \cup {"refused"}]
    /\ LedgerModes \subseteq BOOLEAN
    /\ {SharedId, MidCommandEdits, Exclusive} \subseteq BOOLEAN
    /\ MaxCommands \in Nat /\ MaxEdits \in Nat /\ MaxAborts \in Nat

\* The documents a run directory holds, and a line of the ledger.  A bundle may
\* name a contract file that was broken after it was parsed, an attestation a
\* transcript that was retained torn.
Digests == Contracts \cup {InvalidContract}
RunIds == Operators \X RunDirs
AttestationIds == IF SharedId THEN {"shared"} ELSE RunIds

Bundles ==
    [run: RunIds, contract: Digests, claims: Contracts, manifest: Artifacts,
     snapshot: Artifacts, probe: Artifacts]

Attestations ==
    [id: AttestationIds, run: RunIds, contract: Digests, manifest: Artifacts,
     bundle: Bundles, claims: Contracts, review: Reviews,
     transcript: Transcripts \cup {Torn}, status: Statuses]

States ==
    [state: {"awaiting_review", "completed", "failed", "needs_review"}, run: RunIds,
     contract: Digests, manifest: Artifacts, probe: Artifacts, bundle: Bundles,
     attestation: Attestations \cup {None}, reviewer: Reviews \cup {Torn, None},
     transcript: Transcripts \cup {Torn, None}]

Receipts ==
    [id: AttestationIds, sha: Attestations, path: RunDirs, run: RunIds, status: Statuses]

ASSUME DistinctAssumption ==
    /\ InvalidContract \notin Contracts
    /\ Torn \notin Reviews \cup Transcripts
    /\ None \notin Contracts \cup Artifacts \cup Reviews \cup Transcripts
    /\ None \notin {InvalidContract, Torn} \cup RunDirs
    /\ None \notin States /\ None \notin Attestations

VARIABLES
    workspace,  \* the contract, artifact, reviewer output and transcript files
    files,      \* run directory -> its files
    ledger,     \* .validity-audit/attestations.jsonl, line by line
    op,         \* operator -> the command it runs and that command's locals
    exit,       \* operator -> how its last command ended
    used        \* commands, edits and aborts so far

vars == <<workspace, files, ledger, op, exit, used>>

NoFiles ==
    [probe |-> None, bundle |-> None, state |-> None, reviewer |-> None,
     transcript |-> None, attestation |-> None, report |-> None, temp |-> FALSE]

Idle ==
    [pc |-> "idle", dir |-> None, contract |-> None, manifest |-> None, probe |-> None,
     digest |-> None, snapshot |-> None, state |-> None, source |-> {},
     review |-> None, transcript |-> None, ledger |-> FALSE, sha |-> None]

Active(d) == \E o \in Operators : op[o].dir = d

\* The operator's command moves on to pc, with some locals assigned.
Goto(o, pc) == op' = [op EXCEPT ![o].pc = pc]

\* Mutant: a command that ends leaves its locals to the next one.
EndKeepingLocals(o, code) ==
    /\ op' = [op EXCEPT ![o].pc = "idle"]
    /\ exit' = [exit EXCEPT ![o] = [dir |-> op[o].dir, code |-> code]]

End(o, code) ==
    /\ op' = [op EXCEPT ![o] = Idle]
    /\ exit' = [exit EXCEPT ![o] = [dir |-> op[o].dir, code |-> code]]

Dir(o) == files[op[o].dir]

Write(o, file, content) == files' = [files EXCEPT ![op[o].dir][file] = content]

Start(o, d, pc) ==
    /\ op[o].pc = "idle"
    /\ Exclusive => ~Active(d)
    /\ used.commands < MaxCommands
    /\ used' = [used EXCEPT !.commands = @ + 1]
-----------------------------------------------------------------------------
(* prepare *)

\* Mutant: a prepare into a directory that holds evidence goes on.
PrepareAnywhere(o) ==
    /\ op[o].pc = "directory"
    /\ Goto(o, "write-probe")
    /\ UNCHANGED <<workspace, files, ledger, exit, used>>

StartPrepare(o, d) ==
    /\ Start(o, d, "load")
    /\ op' = [op EXCEPT ![o] = [Idle EXCEPT !.pc = "load", !.dir = d]]
    /\ UNCHANGED <<workspace, files, ledger, exit>>

\* Load and validate the contract, then digest the artifacts.
PrepareLoad(o) ==
    /\ op[o].pc = "load"
    /\ IF workspace.contract = InvalidContract
       THEN End(o, "invalid")
       ELSE /\ op' = [op EXCEPT ![o].pc = "probe", ![o].contract = workspace.contract,
                                ![o].manifest = workspace.artifact]
            /\ UNCHANGED exit
    /\ UNCHANGED <<workspace, files, ledger, used>>

\* The deterministic probes read the artifacts again.
PrepareProbe(o) ==
    /\ op[o].pc = "probe"
    /\ op' = [op EXCEPT ![o].pc = "directory", ![o].probe = workspace.artifact]
    /\ UNCHANGED <<workspace, files, ledger, exit, used>>

PrepareDirectory(o) ==
    /\ op[o].pc = "directory"
    /\ IF Dir(o) # NoFiles
       THEN End(o, "invalid")
       ELSE Goto(o, "write-probe") /\ UNCHANGED exit
    /\ UNCHANGED <<workspace, files, ledger, used>>

PrepareWriteProbe(o) ==
    /\ op[o].pc = "write-probe"
    /\ Write(o, "probe", op[o].probe)
    /\ Goto(o, "snapshot")
    /\ UNCHANGED <<workspace, ledger, exit, used>>

\* The bundle digests the contract file and snapshots the artifacts anew.
PrepareSnapshot(o) ==
    /\ op[o].pc = "snapshot"
    /\ op' = [op EXCEPT ![o].pc = "write-bundle", ![o].digest = workspace.contract,
                        ![o].snapshot = workspace.artifact]
    /\ UNCHANGED <<workspace, files, ledger, exit, used>>

\* run_id holds a random uuid: no two prepares of a directory share it.
BundleOf(o) ==
    [run |-> <<o, op[o].dir>>, contract |-> op[o].digest, claims |-> op[o].contract,
     manifest |-> op[o].manifest, snapshot |-> op[o].snapshot, probe |-> op[o].probe]

PrepareWriteBundle(o) ==
    /\ op[o].pc = "write-bundle"
    /\ Write(o, "bundle", BundleOf(o))
    /\ Goto(o, "write-prepared")
    /\ UNCHANGED <<workspace, ledger, exit, used>>

\* The state digests the contract file a third time and names the bundle.
PrepareWriteState(o) ==
    /\ op[o].pc = "write-prepared"
    /\ Write(o, "state",
             [state |-> "awaiting_review", run |-> <<o, op[o].dir>>,
              contract |-> workspace.contract, manifest |-> op[o].manifest,
              probe |-> op[o].probe, bundle |-> BundleOf(o),
              attestation |-> None, reviewer |-> None, transcript |-> None])
    /\ End(o, "prepared")
    /\ UNCHANGED <<workspace, ledger, used>>
-----------------------------------------------------------------------------
(* finalize, up to the first write *)

\* An operator names, as reviewer output and as transcript, the file in the
\* workspace or (in source) the copy an earlier attempt already retained.
StartFinalize(o, d, source, append) ==
    /\ Start(o, d, "load-state")
    /\ op' = [op EXCEPT ![o] = [Idle EXCEPT !.pc = "load-state", !.dir = d,
                                            !.source = source, !.ledger = append]]
    /\ UNCHANGED <<workspace, files, ledger, exit>>

FinalizeLoadState(o) ==
    /\ op[o].pc = "load-state"
    /\ IF Dir(o).state = None \/ Dir(o).state.state # "awaiting_review"
       THEN End(o, "invalid")
       ELSE /\ op' = [op EXCEPT ![o].pc = "hash-contract", ![o].state = Dir(o).state]
            /\ UNCHANGED exit
    /\ UNCHANGED <<workspace, files, ledger, used>>

\* A verification step: on failure the command ends with exit code 4.
Verify(o, pc, holds, next) ==
    /\ op[o].pc = pc
    /\ IF holds THEN Goto(o, next) /\ UNCHANGED exit ELSE End(o, "mismatch")
    /\ UNCHANGED <<workspace, files, ledger, used>>

\* Mutant: the contract digest is not compared.
FinalizeSkipContractHash(o) == Verify(o, "hash-contract", TRUE, "load-contract")

FinalizeHashContract(o) ==
    Verify(o, "hash-contract", workspace.contract = op[o].state.contract, "load-contract")

\* The contract is read again to be parsed.
FinalizeLoadContract(o) ==
    /\ op[o].pc = "load-contract"
    /\ IF workspace.contract = InvalidContract
       THEN End(o, "invalid")
       ELSE /\ op' = [op EXCEPT ![o].pc = "verify-artifacts",
                                ![o].contract = workspace.contract]
            /\ UNCHANGED exit
    /\ UNCHANGED <<workspace, files, ledger, used>>

FinalizeVerifyArtifacts(o) ==
    Verify(o, "verify-artifacts", workspace.artifact = op[o].state.manifest, "verify-probes")

\* The stored report is the prepared one, and the probes still say the same.
FinalizeVerifyProbes(o) ==
    Verify(o, "verify-probes",
           Dir(o).probe = op[o].state.probe /\ workspace.artifact = Dir(o).probe,
           "verify-bundle")

\* The bundle is the prepared one and agrees with the state.  The claims and
\* the artifact snapshots in it are not compared with anything.
FinalizeVerifyBundle(o) ==
    LET state == op[o].state
        bundle == Dir(o).bundle
    IN  Verify(o, "verify-bundle",
               /\ bundle = state.bundle
               /\ bundle.run = state.run /\ bundle.contract = state.contract
               /\ bundle.manifest = state.manifest /\ bundle.probe = state.probe,
               "import-review")

Source(o, file) ==
    IF file \in op[o].source THEN Dir(o)[file] ELSE workspace[file]

\* Read, validate and judge the reviewer output, and read the transcript.  A
\* torn reviewer output is no JSON document; a torn transcript is still text.
FinalizeImport(o) ==
    LET review == Source(o, "reviewer")
        transcript == Source(o, "transcript")
    IN  /\ op[o].pc = "import-review"
        /\ IF \/ review \notin Reviews \/ transcript = None
              \/ Verdict[review] = "refused"
           THEN End(o, "invalid")
           ELSE /\ op' = [op EXCEPT ![o].pc = "check-outputs", ![o].review = review,
                                    ![o].transcript = transcript]
                /\ UNCHANGED exit
        /\ UNCHANGED <<workspace, files, ledger, used>>
-----------------------------------------------------------------------------
(* finalize, the writes *)

AttestationId(o) == IF SharedId THEN "shared" ELSE op[o].state.run

InLedger(id) == \E k \in DOMAIN ledger : ledger[k] # Torn /\ ledger[k].id = id

\* _ledger_records raises on a line that is no JSON object.
LedgerRefuses(o) == Torn \in {ledger[k] : k \in DOMAIN ledger} \/ InLedger(AttestationId(o))

OutputsRefuse(o) ==
    \/ op[o].ledger /\ LedgerRefuses(o)
    \/ Dir(o).attestation # None \/ Dir(o).report # None

FinalizeCheckOutputs(o) ==
    /\ op[o].pc = "check-outputs"
    /\ IF OutputsRefuse(o) THEN End(o, "invalid")
                          ELSE Goto(o, "retain-reviewer") /\ UNCHANGED exit
    /\ UNCHANGED <<workspace, files, ledger, used>>

\* One turn of the retention loop: copy the source, read now, unless it is the
\* target itself; never over an existing file.
Retain(o, file, pc, next) ==
    /\ op[o].pc = pc
    /\ IF file \in op[o].source THEN Goto(o, next) /\ UNCHANGED <<files, exit>>
       ELSE IF Dir(o)[file] # None THEN End(o, "invalid") /\ UNCHANGED files
       ELSE Write(o, file, workspace[file]) /\ Goto(o, next) /\ UNCHANGED exit
    /\ UNCHANGED <<workspace, ledger, used>>

FinalizeRetainReviewer(o) == Retain(o, "reviewer", "retain-reviewer", "retain-transcript")

\* Mutant: the transcript overwrites whatever is retained.
FinalizeOverwriteTranscript(o) ==
    /\ op[o].pc = "retain-transcript"
    /\ Write(o, "transcript", workspace.transcript)
    /\ Goto(o, "write-attestation")
    /\ UNCHANGED <<workspace, ledger, exit, used>>

FinalizeRetainTranscript(o) ==
    Retain(o, "transcript", "retain-transcript", "write-attestation")

AttestationOf(o) ==
    LET state == op[o].state
    IN  [id |-> AttestationId(o), run |-> state.run, contract |-> state.contract,
         manifest |-> state.manifest, bundle |-> state.bundle,
         claims |-> op[o].contract, review |-> op[o].review,
         transcript |-> op[o].transcript, status |-> Verdict[op[o].review]]

FinalizeWriteAttestation(o) ==
    /\ op[o].pc = "write-attestation"
    /\ Write(o, "attestation", AttestationOf(o))
    /\ Goto(o, "write-report")
    /\ UNCHANGED <<workspace, ledger, exit, used>>

\* Mutant: the report is left unwritten.
FinalizeSkipReport(o) ==
    /\ op[o].pc = "write-report"
    /\ op' = [op EXCEPT ![o].pc = IF op[o].ledger THEN "recheck-ledger" ELSE "write-state",
                        ![o].sha = Dir(o).attestation]
    /\ UNCHANGED <<workspace, files, ledger, exit, used>>

\* The report, and the digest of the attestation as it is on disk.
FinalizeWriteReport(o) ==
    /\ op[o].pc = "write-report"
    /\ Write(o, "report", AttestationOf(o))
    /\ op' = [op EXCEPT ![o].pc = IF op[o].ledger THEN "recheck-ledger" ELSE "write-state",
                        ![o].sha = Dir(o).attestation]
    /\ UNCHANGED <<workspace, ledger, exit, used>>

\* _append_attestation_ledger reads the ledger again, unlocked ...
FinalizeRecheckLedger(o) ==
    /\ op[o].pc = "recheck-ledger"
    /\ IF LedgerRefuses(o) THEN End(o, "invalid")
                          ELSE Goto(o, "append-ledger") /\ UNCHANGED exit
    /\ UNCHANGED <<workspace, files, ledger, used>>

\* A line written after an unfinished one becomes part of it.
AppendLine(line) ==
    IF ledger # <<>> /\ ledger[Len(ledger)] = Torn THEN ledger ELSE Append(ledger, line)

Receipt(o) ==
    [id |-> AttestationId(o), sha |-> op[o].sha, path |-> op[o].dir,
     run |-> op[o].state.run, status |-> Verdict[op[o].review]]

\* Mutant: an append whose fsync failed is made again.
FinalizeAppendAgain(o) ==
    /\ op[o].pc = "append-ledger"
    /\ ledger' = AppendLine(Receipt(o))
    /\ Goto(o, "write-state") \/ Goto(o, "append-ledger")
    /\ UNCHANGED <<workspace, files, exit, used>>

\* ... and then appends.
FinalizeAppendLedger(o) ==
    /\ op[o].pc = "append-ledger"
    /\ ledger' = AppendLine(Receipt(o))
    /\ Goto(o, "write-state")
    /\ UNCHANGED <<workspace, files, exit, used>>

FinalizeWriteState(o) ==
    LET status == Verdict[op[o].review]
    IN  /\ op[o].pc = "write-state"
        /\ Write(o, "state",
                 [op[o].state EXCEPT !.state = FinalState[status], !.attestation = op[o].sha,
                     !.reviewer = Dir(o).reviewer, !.transcript = Dir(o).transcript])
        /\ End(o, status)
        /\ UNCHANGED <<workspace, ledger, used>>
-----------------------------------------------------------------------------
(* Interruptions and the workspace *)

\* A command ends where it stands: an OSError (exit code 1) or a kill.  A kill
\* in an atomic write may leave its temporary file behind, one in a copy or an
\* append may leave part of it.
Leaves(o, d) ==
    IF op[o].pc \in {"write-probe", "write-bundle", "write-prepared", "write-state", "write-attestation"}
       THEN {files[d], [files[d] EXCEPT !.temp = TRUE]}
    ELSE IF op[o].pc = "retain-reviewer" /\ files[d].reviewer = None
       THEN {files[d], [files[d] EXCEPT !.reviewer = Torn]}
    ELSE IF op[o].pc = "retain-transcript" /\ files[d].transcript = None
       THEN {files[d], [files[d] EXCEPT !.transcript = Torn]}
    ELSE IF op[o].pc = "write-report"
       THEN {files[d], [files[d] EXCEPT !.report = Torn]}
    ELSE {files[d]}

Abort(o) ==
    /\ op[o].pc # "idle" /\ used.aborts < MaxAborts
    /\ \E left \in Leaves(o, op[o].dir) : files' = [files EXCEPT ![op[o].dir] = left]
    /\ ledger' \in IF op[o].pc = "append-ledger" THEN {ledger, AppendLine(Torn)} ELSE {ledger}
    /\ End(o, "aborted")
    /\ used' = [used EXCEPT !.aborts = @ + 1]
    /\ UNCHANGED workspace

Edit ==
    /\ used.edits < MaxEdits
    /\ MidCommandEdits \/ \A o \in Operators : op[o].pc = "idle"
    /\ \/ \E c \in Contracts \cup {InvalidContract} :
             workspace' = [workspace EXCEPT !.contract = c]
       \/ \E a \in Artifacts : workspace' = [workspace EXCEPT !.artifact = a]
       \/ \E r \in Reviews : workspace' = [workspace EXCEPT !.reviewer = r]
       \/ \E t \in Transcripts : workspace' = [workspace EXCEPT !.transcript = t]
    /\ workspace' # workspace
    /\ used' = [used EXCEPT !.edits = @ + 1]
    /\ UNCHANGED <<files, ledger, op, exit>>
-----------------------------------------------------------------------------
Init ==
    /\ workspace \in [contract: Contracts, artifact: Artifacts,
                      reviewer: Reviews, transcript: Transcripts]
    /\ files = [d \in RunDirs |-> NoFiles]
    /\ ledger = <<>>
    /\ op = [o \in Operators |-> Idle]
    /\ exit = [o \in Operators |-> [dir |-> None, code |-> "none"]]
    /\ used = [commands |-> 0, edits |-> 0, aborts |-> 0]

Prepare(o) ==
    \/ \E d \in RunDirs : StartPrepare(o, d)
    \/ PrepareLoad(o) \/ PrepareProbe(o) \/ PrepareDirectory(o) \/ PrepareWriteProbe(o)
    \/ PrepareSnapshot(o) \/ PrepareWriteBundle(o)
    \/ PrepareWriteState(o)

Finalize(o) ==
    \/ \E d \in RunDirs, source \in SUBSET {"reviewer", "transcript"},
          append \in LedgerModes : StartFinalize(o, d, source, append)
    \/ FinalizeLoadState(o) \/ FinalizeHashContract(o) \/ FinalizeLoadContract(o)
    \/ FinalizeVerifyArtifacts(o) \/ FinalizeVerifyProbes(o) \/ FinalizeVerifyBundle(o)
    \/ FinalizeImport(o) \/ FinalizeCheckOutputs(o) \/ FinalizeRetainReviewer(o)
    \/ FinalizeRetainTranscript(o) \/ FinalizeWriteAttestation(o)
    \/ FinalizeWriteReport(o) \/ FinalizeRecheckLedger(o) \/ FinalizeAppendLedger(o)
    \/ FinalizeWriteState(o)

Next == (\E o \in Operators : Prepare(o) \/ Finalize(o) \/ Abort(o)) \/ Edit

Spec == Init /\ [][Next]_vars
-----------------------------------------------------------------------------
Names == SUBSET {"reviewer", "transcript"}

FilesOf ==
    [probe: Artifacts \cup {None}, bundle: Bundles \cup {None}, state: States \cup {None},
     reviewer: Reviews \cup {Torn, None}, transcript: Transcripts \cup {Torn, None},
     attestation: Attestations \cup {None}, report: Attestations \cup {Torn, None},
     temp: BOOLEAN]

Steps ==
    {"idle", "load", "probe", "directory", "write-probe", "snapshot", "write-bundle",
     "write-prepared", "load-state", "hash-contract", "load-contract", "verify-artifacts",
     "verify-probes", "verify-bundle", "import-review", "check-outputs", "retain-reviewer",
     "retain-transcript", "write-attestation", "write-report", "recheck-ledger",
     "append-ledger", "write-state"}

Locals ==
    [pc: Steps, dir: RunDirs \cup {None}, contract: Contracts \cup {None},
     manifest: Artifacts \cup {None}, probe: Artifacts \cup {None},
     digest: Digests \cup {None}, snapshot: Artifacts \cup {None},
     state: States \cup {None}, source: Names, review: Reviews \cup {None},
     transcript: Transcripts \cup {Torn, None}, ledger: BOOLEAN,
     sha: Attestations \cup {None}]

Codes == Statuses \cup {"none", "prepared", "invalid", "mismatch", "aborted"}

TypeOK ==
    /\ workspace \in [contract: Digests, artifact: Artifacts,
                      reviewer: Reviews, transcript: Transcripts]
    /\ files \in [RunDirs -> FilesOf]
    /\ ledger \in Seq(Receipts \cup {Torn})
    /\ op \in [Operators -> Locals]
    /\ \A o \in Operators : op[o].pc = "idle" <=> op[o] = Idle
    /\ exit \in [Operators -> [dir: RunDirs \cup {None}, code: Codes]]
    /\ used \in [commands: 0..MaxCommands, edits: 0..MaxEdits, aborts: 0..MaxAborts]

\* What the record of a run directory amounts to: the evidence its state binds,
\* the evidence its bundle shows the reviewer, and the attested status.
RecordOf(d) ==
    LET f == files[d]
        shown(b) == [contract |-> b.claims, artifact |-> b.snapshot, probed |-> b.probe]
        bound(r) == [contract |-> r.contract, artifact |-> r.manifest]
    IN  IF f.attestation # None
        THEN [phase |-> "attested", bound |-> bound(f.attestation),
              shown |-> shown(f.attestation.bundle), status |-> f.attestation.status]
        ELSE IF f.state # None
        THEN [phase |-> "prepared", bound |-> bound(f.state),
              shown |-> shown(f.state.bundle), status |-> "none"]
        ELSE [phase |-> "none"]

Record == INSTANCE AttestationRecord WITH
             contract <- workspace.contract, artifact <- workspace.artifact,
             record <- [d \in RunDirs |-> RecordOf(d)]

\* prepare commits with the write of run_state.json and finalize with that of
\* attestation.json; until then, and after a crash, a directory holds no record
\* a reader could take for one.
ImplementsRecord == Record!Spec

\* What an attestation cites is what the run directory retains: the bundle, the
\* reviewer output its claim results and findings come from, and the transcript
\* whose digest it binds (schemas/README.md "retains ... and binds").
RetainedEvidenceIsBound ==
    \A d \in RunDirs : files[d].attestation # None =>
        LET attestation == files[d].attestation
        IN  /\ files[d].bundle = attestation.bundle
            /\ files[d].probe = attestation.bundle.probe
            /\ files[d].reviewer = attestation.review
            /\ files[d].transcript = attestation.transcript

\* A receipt names an attestation that is on disk, with its digest and status;
\* no attestation has two, whatever was interrupted and tried again.
ReceiptsMatch ==
    \A k \in DOMAIN ledger : ledger[k] # Torn =>
        /\ files[ledger[k].path].attestation = ledger[k].sha
        /\ ledger[k].sha.id = ledger[k].id /\ ledger[k].sha.status = ledger[k].status
        /\ \A j \in DOMAIN ledger : ledger[j] = ledger[k] => j = k

\* A final run state is written last: everything it names is there and agrees
\* with it, and no operator is told a disposition the state does not hold.
FinalStateIsComplete ==
    /\ \A d \in RunDirs :
          files[d].state # None /\ files[d].state.state # "awaiting_review" =>
              /\ files[d].attestation # None /\ files[d].report = files[d].attestation
              /\ files[d].state.attestation = files[d].attestation
              /\ files[d].state.reviewer = files[d].reviewer
              /\ files[d].state.transcript = files[d].transcript
              /\ files[d].state.state = FinalState[files[d].attestation.status]
    /\ \A o \in Operators : exit[o].code \in Statuses =>
          /\ files[exit[o].dir].attestation.status = exit[o].code
          /\ files[exit[o].dir].state.state = FinalState[exit[o].code]

\* No command changes evidence once it is there: a probe report, a bundle, a
\* retained file and an attestation are written at most once per directory.  Two
\* prepares that both found the directory empty break it (run audit_overwrite).
NothingOverwritten ==
    [][\A d \in RunDirs :
          \A f \in {"probe", "bundle", "reviewer", "transcript", "attestation"} :
              files[d][f] # None => files'[d][f] = files[d][f]]_vars

\* A refused finalize can be corrected and tried again: a directory that awaits
\* review, with no command at work in it, holds no final output yet.
AwaitingIsRetryable ==
    \A d \in RunDirs :
        /\ files[d].state # None /\ files[d].state.state = "awaiting_review"
        /\ ~Active(d)
        => files[d].attestation = None /\ files[d].report = None

\* What an attestation binds and gives results for is what the reviewer was
\* shown: the claims and the artifact snapshots in the bundle are those of the
\* contract and the manifest it names.
AttestedEvidenceWasShown ==
    \A d \in RunDirs : files[d].attestation # None =>
        LET attestation == files[d].attestation
        IN  /\ attestation.bundle.claims = attestation.contract
            /\ attestation.claims = attestation.contract
            /\ attestation.bundle.snapshot = attestation.manifest
=============================================================================
