--------------------------- MODULE AuditRunProofs ---------------------------
(***************************************************************************)
(* Proofs about AuditRun, for every number of operators, run directories   *)
(* and contents, when a run directory has one command at a time.           *)
(*                                                                         *)
(* The inductive invariant says what each step of a command has already    *)
(* established about its locals, its directory and the workspace (At),     *)
(* what a directory keeps once its command is over (Sealed), and what a    *)
(* reported disposition and a ledger line point at.                        *)
(***************************************************************************)
EXTENDS AuditRun, TLAPS

\* Steps of prepare from the one named on, and of finalize.
Typed == {"write-probe", "snapshot", "write-bundle", "write-prepared"}
Probed == {"directory"} \cup Typed
Parsed == {"probe"} \cup Probed

Reported == {"recheck-ledger", "append-ledger", "write-state"}
Attested == {"write-report"} \cup Reported
TranscriptKept == {"write-attestation"} \cup Attested
ReviewKept == {"retain-transcript"} \cup TranscriptKept
OutputsFree == {"retain-reviewer"} \cup ReviewKept
Imported == {"check-outputs"} \cup OutputsFree
BundleVerified == {"import-review"} \cup Imported
ProbesVerified == {"verify-bundle"} \cup BundleVerified
ArtifactsVerified == {"verify-probes"} \cup ProbesVerified
ContractLoaded == {"verify-artifacts"} \cup ArtifactsVerified
ContractVerified == {"load-contract"} \cup ContractLoaded
StateLoaded == {"hash-contract"} \cup ContractVerified

\* What the workspace held when a step read it, it holds while the command runs.
Still == ~MidCommandEdits

BundleBy(o, l) ==
    [run |-> <<o, l.dir>>, contract |-> l.digest, claims |-> l.contract,
     manifest |-> l.manifest, snapshot |-> l.snapshot, probe |-> l.probe]

AttestationBy(l) ==
    [id |-> IF SharedId THEN "shared" ELSE l.state.run, run |-> l.state.run,
     contract |-> l.state.contract, manifest |-> l.state.manifest,
     bundle |-> l.state.bundle, claims |-> l.contract, review |-> l.review,
     transcript |-> l.transcript, status |-> Verdict[l.review]]

\* A prepare with locals l, over a directory with files f and the workspace w.
Preparing(o, l, f, w) ==
    /\ l.pc \in Parsed =>
          /\ l.contract \in Contracts /\ l.manifest \in Artifacts
          /\ Still => l.contract = w.contract /\ l.manifest = w.artifact
    /\ l.pc \in Probed => l.probe \in Artifacts /\ (Still => l.probe = w.artifact)
    /\ l.pc = "write-probe" => f = NoFiles
    /\ l.pc \in {"snapshot", "write-bundle"} => f = [NoFiles EXCEPT !.probe = l.probe]
    /\ l.pc \in {"write-bundle", "write-prepared"} =>
          /\ l.digest \in Digests /\ l.snapshot \in Artifacts
          /\ Still => l.digest = w.contract /\ l.snapshot = w.artifact
    /\ l.pc = "write-prepared" =>
          f = [NoFiles EXCEPT !.probe = l.probe, !.bundle = BundleBy(o, l)]

\* A finalize, up to the check of its outputs.
Verifying(l, f, w) ==
    /\ l.pc \in StateLoaded =>
          l.state \in States /\ l.state = f.state /\ l.state.state = "awaiting_review"
    /\ l.pc \in ContractVerified /\ Still => w.contract = l.state.contract
    /\ l.pc \in ContractLoaded => l.contract \in Contracts
    /\ l.pc \in ArtifactsVerified /\ Still => w.artifact = l.state.manifest
    /\ l.pc \in ProbesVerified => f.probe = l.state.probe
    /\ l.pc \in BundleVerified =>
          /\ f.bundle = l.state.bundle
          /\ l.state.bundle.probe = l.state.probe
    /\ l.pc \in Imported =>
          /\ l.review \in Reviews /\ Verdict[l.review] \in Statuses
          /\ l.transcript \in Transcripts \cup {Torn}
          /\ "reviewer" \in l.source => f.reviewer = l.review
          /\ "transcript" \in l.source => f.transcript = l.transcript
          /\ "reviewer" \notin l.source /\ Still => w.reviewer = l.review
          /\ "transcript" \notin l.source /\ Still => w.transcript = l.transcript

\* A finalize at its writes.
Attesting(l, f) ==
    /\ l.pc \in OutputsFree \ Attested => f.attestation = None /\ f.report = None
    /\ l.pc \in ReviewKept /\ Still => f.reviewer = l.review
    /\ l.pc \in TranscriptKept /\ Still => f.transcript = l.transcript
    /\ l.pc \in Attested => f.attestation = AttestationBy(l)
    /\ l.pc \in Reported => f.report = f.attestation /\ l.sha = f.attestation

At(o, l, f, w) ==
    l.dir \in RunDirs /\ Preparing(o, l, f, w) /\ Verifying(l, f, w) /\ Attesting(l, f)

\* A directory that holds its final state.
Final(f) == f.state # None /\ f.state.state # "awaiting_review"

Sealed(f) ==
    /\ f.attestation # None =>
          /\ f.bundle = f.attestation.bundle /\ f.probe = f.attestation.bundle.probe
          /\ Still => f.reviewer = f.attestation.review /\ f.transcript = f.attestation.transcript
    /\ Final(f) =>
          /\ f.attestation # None /\ f.report = f.attestation
          /\ f.state.attestation = f.attestation
          /\ f.state.reviewer = f.reviewer /\ f.state.transcript = f.transcript
          /\ f.state.state = FinalState[f.attestation.status]

\* The directory an operator was told a disposition for.
Told(e, f) ==
    /\ Final(f) /\ f.attestation # None /\ f.attestation.status = e.code
    /\ f.state.state = FinalState[e.code]

OneCommand ==
    \A o, p \in Operators : op[o].pc # "idle" /\ op[p].dir = op[o].dir => p = o

Stages ==
    \A o \in Operators :
        op[o].pc # "idle" => At(o, op[o], files[op[o].dir], workspace)

Directories == \A d \in RunDirs : Sealed(files[d])

Exits ==
    \A o \in Operators : exit[o].code \in Statuses =>
        exit[o].dir \in RunDirs /\ Told(exit[o], files[exit[o].dir])

\* A ledger line names the attestation of its directory, and is its only line.
Lines ==
    \A k \in DOMAIN ledger : ledger[k] # Torn =>
        /\ ledger[k] \in Receipts
        /\ files[ledger[k].path].attestation = ledger[k].sha
        /\ ledger[k].sha.id = ledger[k].id /\ ledger[k].sha.status = ledger[k].status
        /\ \A j \in DOMAIN ledger :
              ledger[j] # Torn /\ ledger[j].path = ledger[k].path => j = k

NoLine(d) == \A k \in DOMAIN ledger : ledger[k] # Torn => ledger[k].path # d

Unlisted ==
    \A o \in Operators :
        op[o].pc \in {"write-report", "recheck-ledger", "append-ledger"} => NoLine(op[o].dir)

IInv ==
    TypeOK /\ OneCommand /\ Stages /\ Directories /\ Exits /\ Lines /\ Unlisted
-----------------------------------------------------------------------------
(* One operator's command at work in its directory *)

\* Evidence that is there stays, and a final directory does not change.
Grows(f, g) ==
    /\ f.probe # None => g.probe = f.probe
    /\ f.bundle # None => g.bundle = f.bundle
    /\ f.reviewer # None => g.reviewer = f.reviewer
    /\ f.transcript # None => g.transcript = f.transcript
    /\ f.attestation # None => g.attestation = f.attestation
    /\ Final(f) => g = f

\* Locals and files that the command of operator o may go on to.
Good(o, l, g) ==
    /\ l \in Locals /\ g \in FilesOf
    /\ l = Idle \/ (l.pc # "idle" /\ l.dir = op[o].dir /\ At(o, l, g, workspace))
    /\ Sealed(g) /\ Grows(Dir(o), g)

Moves(o, l, g) ==
    /\ op' = [op EXCEPT ![o] = l] /\ files' = [files EXCEPT ![op[o].dir] = g]
    /\ workspace' = workspace

LEMMA IdleIsLocals == Idle \in Locals /\ Idle.pc = "idle" /\ Idle.dir = None
BY DEF Idle, Locals, Steps, Names

LEMMA NoFilesIsFiles == NoFiles \in FilesOf /\ Sealed(NoFiles)
BY DEF NoFiles, FilesOf, Sealed, Final

LEMMA Here ==
    ASSUME IInv, NEW o \in Operators, op[o].pc # "idle"
    PROVE  /\ op[o] \in Locals /\ op[o].dir \in RunDirs /\ Dir(o) \in FilesOf
           /\ At(o, op[o], Dir(o), workspace) /\ Sealed(Dir(o))
           /\ workspace \in [contract: Digests, artifact: Artifacts,
                             reviewer: Reviews, transcript: Transcripts]
<1>1. op[o] \in Locals /\ files \in [RunDirs -> FilesOf]
  BY DEF IInv, TypeOK
<1>2. At(o, op[o], Dir(o), workspace)
  BY DEF IInv, Stages, Dir
<1>3. op[o].dir \in RunDirs
  BY <1>2 DEF At
<1> QED
  BY <1>1, <1>2, <1>3 DEF IInv, TypeOK, Directories, Dir

\* A command that stops leaves a sound directory as it is.
LEMMA StopIsGood ==
    ASSUME IInv, NEW o \in Operators, op[o].pc # "idle"
    PROVE  Good(o, Idle, Dir(o))
BY Here, IdleIsLocals DEF Good, Grows

\* The other commands are at work in other directories.
LEMMA MovesKeepStages ==
    ASSUME IInv, NEW o \in Operators, op[o].pc # "idle", NEW l, NEW g,
           Good(o, l, g), Moves(o, l, g)
    PROVE  /\ op' \in [Operators -> Locals] /\ files' \in [RunDirs -> FilesOf]
           /\ \A p \in Operators : (op[p].pc = "idle" <=> op[p] = Idle)'
           /\ OneCommand' /\ Stages' /\ Directories'
           /\ files'[op[o].dir] = g
           /\ \A d \in RunDirs : Grows(files[d], files'[d])
<1> DEFINE d == op[o].dir
<1>1. d \in RunDirs
  BY Here
<1>2. op \in [Operators -> Locals] /\ files \in [RunDirs -> FilesOf]
  BY DEF IInv, TypeOK
<1>3. op'[o] = l /\ \A p \in Operators \ {o} : op'[p] = op[p]
  BY <1>2 DEF Moves
<1>4. files'[d] = g /\ \A e \in RunDirs \ {d} : files'[e] = files[e]
  BY <1>1, <1>2 DEF Moves
<1>5. op' \in [Operators -> Locals] /\ files' \in [RunDirs -> FilesOf]
  BY <1>2 DEF Moves, Good
<1>6. \A p \in Operators : op'[p].pc = "idle" <=> op'[p] = Idle
  <2>1. \A p \in Operators : op[p].pc = "idle" <=> op[p] = Idle
    BY DEF IInv, TypeOK
  <2> QED BY <2>1, <1>3, IdleIsLocals DEF Good
<1>7. OneCommand'
  <2> SUFFICES ASSUME NEW p \in Operators, NEW q \in Operators,
                      op'[p].pc # "idle", op'[q].dir = op'[p].dir
               PROVE  q = p
    BY DEF OneCommand
  <2>1. \A r \in Operators : op'[r] = Idle \/ (op[r].pc # "idle" /\ op'[r].dir = op[r].dir)
                             \/ (r # o /\ op'[r] = op[r])
    BY <1>3 DEF Good
  <2>2. op[p].pc # "idle" /\ op'[p].dir = op[p].dir
    BY <2>1, <1>3, <1>6 DEF Good
  <2>3. op[p].dir # None
    BY <2>2, Here, DistinctAssumption
  <2>4. op'[q].dir = op[q].dir
    BY <2>1, <2>2, <2>3, IdleIsLocals
  <2> QED BY <2>2, <2>4 DEF IInv, OneCommand
<1>8. Stages'
  <2> SUFFICES ASSUME NEW p \in Operators, op'[p].pc # "idle"
               PROVE  At(p, op'[p], files'[op'[p].dir], workspace')
    BY DEF Stages
  <2>1. CASE p = o
    BY <2>1, <1>3, <1>4, <1>6 DEF Good, Moves
  <2>2. CASE p # o
    <3>1. op'[p] = op[p] /\ op[p].pc # "idle"
      BY <2>2, <1>3
    <3>2. op[p].dir # d /\ op[p].dir \in RunDirs
      BY <2>2, <3>1, Here DEF IInv, OneCommand
    <3>3. files'[op[p].dir] = files[op[p].dir]
      BY <3>2, <1>4
    <3> QED BY <3>1, <3>3 DEF IInv, Stages, Moves
  <2> QED BY <2>1, <2>2
<1>9. Directories'
  BY <1>1, <1>4 DEF IInv, Directories, Good
<1>10. \A e \in RunDirs : Grows(files[e], files'[e])
  BY <1>1, <1>4 DEF Good, Grows, Dir
<1> QED
  BY <1>4, <1>5, <1>6, <1>7, <1>8, <1>9, <1>10
-----------------------------------------------------------------------------
(* The exits and the ledger *)

\* A disposition stays true, and a new one is of the directory just finished.
LEMMA ExitsStay ==
    ASSUME IInv, NEW o \in Operators, NEW e,
           \A d \in RunDirs : Grows(files[d], files'[d]),
           exit' = [exit EXCEPT ![o] = e],
           e.code \in Statuses => \/ e = exit[o]
                                  \/ e.dir \in RunDirs /\ Told(e, files'[e.dir])
    PROVE  Exits'
<1> SUFFICES ASSUME NEW p \in Operators, exit'[p].code \in Statuses
             PROVE  exit'[p].dir \in RunDirs /\ Told(exit'[p], files'[exit'[p].dir])
  BY DEF Exits
<1>0. exit'[o] = e /\ \A q \in Operators \ {o} : exit'[q] = exit[q]
  BY DEF IInv, TypeOK
<1>1. CASE exit'[p] = exit[p]
  <2>1. exit[p].dir \in RunDirs /\ Told(exit[p], files[exit[p].dir])
    BY <1>1 DEF IInv, Exits
  <2>2. files'[exit[p].dir] = files[exit[p].dir]
    BY <2>1 DEF Told, Grows
  <2> QED BY <1>1, <2>1, <2>2
<1>2. CASE exit'[p] # exit[p]
  BY <1>0, <1>2
<1> QED BY <1>1, <1>2

\* A line stays true while the ledger stays.
LEMMA LinesStay ==
    ASSUME IInv, \A d \in RunDirs : Grows(files[d], files'[d]), ledger' = ledger
    PROVE  Lines'
<1> SUFFICES ASSUME NEW k \in DOMAIN ledger, ledger[k] # Torn
             PROVE  files'[ledger[k].path].attestation = ledger[k].sha
  BY DEF IInv, Lines
<1>1. ledger[k] \in Receipts /\ files[ledger[k].path].attestation = ledger[k].sha
  BY DEF IInv, Lines
<1>2. ledger[k].path \in RunDirs /\ ledger[k].sha # None
  BY <1>1, DistinctAssumption DEF Receipts
<1> QED BY <1>1, <1>2 DEF Grows

\* A directory without an attestation has no line.
LEMMA UnattestedHasNoLine ==
    ASSUME IInv, NEW d \in RunDirs, files[d].attestation = None
    PROVE  NoLine(d)
BY DistinctAssumption DEF IInv, Lines, NoLine, Receipts

LEMMA AppendShape ==
    ASSUME TypeOK, NEW line, ledger' = AppendLine(line)
    PROVE  /\ ledger \in Seq(Receipts \cup {Torn})
           /\ line \in Receipts \cup {Torn} => ledger' \in Seq(Receipts \cup {Torn})
           /\ \A k \in DOMAIN ledger' :
                 \/ k \in DOMAIN ledger /\ ledger'[k] = ledger[k]
                 \/ k = Len(ledger) + 1 /\ k \notin DOMAIN ledger /\ ledger'[k] = line
           /\ \A k \in DOMAIN ledger : k \in DOMAIN ledger'
<1>1. ledger \in Seq(Receipts \cup {Torn})
  BY DEF TypeOK
<1>2. ledger' = ledger \/ ledger' = Append(ledger, line)
  BY DEF AppendLine
<1> QED BY <1>1, <1>2

\* A torn line is no line.
LEMMA TornLine ==
    ASSUME IInv, \A d \in RunDirs : Grows(files[d], files'[d]), ledger' = AppendLine(Torn)
    PROVE  Lines' /\ \A d : NoLine(d) => NoLine(d)'
<1>1. \A k \in DOMAIN ledger' : ledger'[k] # Torn => k \in DOMAIN ledger /\ ledger'[k] = ledger[k]
  BY AppendShape DEF IInv
<1>2. \A d : NoLine(d) => NoLine(d)'
  BY <1>1 DEF NoLine
<1>3. \A k \in DOMAIN ledger : ledger[k] # Torn =>
         files'[ledger[k].path].attestation = ledger[k].sha
  BY DistinctAssumption DEF IInv, Lines, Receipts, Grows
<1>4. Lines'
  BY <1>1, <1>3 DEF IInv, Lines
<1> QED BY <1>2, <1>4

\* The receipt is the only line of its directory.
LEMMA ReceiptLine ==
    ASSUME IInv, NEW r \in Receipts, files' = files, ledger' = AppendLine(r),
           NoLine(r.path), files[r.path].attestation = r.sha,
           r.sha.id = r.id, r.sha.status = r.status
    PROVE  Lines' /\ \A d : d # r.path /\ NoLine(d) => NoLine(d)'
<1>1. \A k \in DOMAIN ledger' :
         \/ k \in DOMAIN ledger /\ ledger'[k] = ledger[k]
         \/ k = Len(ledger) + 1 /\ ledger'[k] = r
  BY AppendShape DEF IInv
<1>2. \A d : d # r.path /\ NoLine(d) => NoLine(d)'
  BY <1>1 DEF NoLine
<1>3. \A k \in DOMAIN ledger' : ledger'[k] # Torn =>
         /\ ledger'[k] \in Receipts
         /\ files'[ledger'[k].path].attestation = ledger'[k].sha
         /\ ledger'[k].sha.id = ledger'[k].id /\ ledger'[k].sha.status = ledger'[k].status
  BY <1>1 DEF IInv, Lines
<1>4. ASSUME NEW k \in DOMAIN ledger', NEW j \in DOMAIN ledger',
             ledger'[k] # Torn, ledger'[j] # Torn, ledger'[j].path = ledger'[k].path
      PROVE  j = k
  <2>1. CASE k \in DOMAIN ledger /\ j \in DOMAIN ledger /\ ledger'[k] = ledger[k] /\ ledger'[j] = ledger[j]
    BY <2>1, <1>4 DEF IInv, Lines
  <2>2. CASE k = Len(ledger) + 1 /\ ledger'[k] = r /\ j \in DOMAIN ledger /\ ledger'[j] = ledger[j]
    BY <2>2, <1>4 DEF NoLine
  <2>3. CASE j = Len(ledger) + 1 /\ ledger'[j] = r /\ k \in DOMAIN ledger /\ ledger'[k] = ledger[k]
    BY <2>3, <1>4 DEF NoLine
  <2> QED BY <1>1, <2>1, <2>2, <2>3
<1>5. Lines'
  BY <1>3, <1>4 DEF Lines
<1> QED BY <1>2, <1>5

\* What a command's step leaves of the ledger's invariant.
Listing == {"write-report", "recheck-ledger", "append-ledger"}

LEMMA UnlistedStays ==
    ASSUME IInv, NEW o \in Operators, op[o].pc # "idle", NEW l, NEW g,
           Good(o, l, g), Moves(o, l, g),
           \A d \in RunDirs : (d # op[o].dir \/ op[o].pc # "append-ledger") /\ NoLine(d) => NoLine(d)',
           l.pc \in Listing => /\ op[o].pc \in Listing \/ Dir(o).attestation = None
                               /\ op[o].pc # "append-ledger"
    PROVE  Unlisted'
<1> SUFFICES ASSUME NEW p \in Operators, NEW d, op'[p].pc \in Listing, d = op'[p].dir
             PROVE  NoLine(d)'
  BY DEF Unlisted, Listing, NoLine
<1>0. op'[o] = l /\ \A q \in Operators \ {o} : op'[q] = op[q]
  BY DEF IInv, TypeOK, Moves
<1>1. CASE p = o
  <2>1. l.pc \in Listing /\ l.pc # "idle" /\ op'[p] = l
    BY <1>0, <1>1 DEF Listing
  <2>2. op'[p].dir = op[o].dir /\ op[o].dir \in RunDirs
    BY <2>1, Here, IdleIsLocals DEF Good
  <2>3. NoLine(op[o].dir)
    BY <2>1, <2>2, UnattestedHasNoLine DEF IInv, Unlisted, Listing, Dir
  <2> QED BY <2>1, <2>2, <2>3
<1>2. CASE p # o
  <2>1. op'[p] = op[p] /\ op[p].pc \in Listing /\ op[p].pc # "idle"
    BY <1>0, <1>2 DEF Listing
  <2>2. op[p].dir # op[o].dir /\ op[p].dir \in RunDirs
    BY <1>2, <2>1, Here DEF IInv, OneCommand
  <2>3. NoLine(op[p].dir)
    BY <2>1 DEF IInv, Unlisted, Listing
  <2> QED BY <2>1, <2>2, <2>3
<1> QED BY <1>1, <1>2
-----------------------------------------------------------------------------
(* The steps of a command *)

\* Every directory keeps its evidence.
Kept == \A d \in RunDirs : Grows(files[d], files'[d])

\* A step that appends nothing.
LEMMA SilentStep ==
    ASSUME IInv, NEW o \in Operators, op[o].pc # "idle", NEW l, NEW g, NEW e,
           Good(o, l, g), Moves(o, l, g), ledger' = ledger,
           l.pc \in Listing => /\ op[o].pc \in Listing \/ Dir(o).attestation = None
                               /\ op[o].pc # "append-ledger",
           exit' = [exit EXCEPT ![o] = e],
           e \in [dir: RunDirs \cup {None}, code: Codes],
           e.code \in Statuses => \/ e = exit[o]
                                  \/ e.dir \in RunDirs /\ Told(e, files'[e.dir]),
           used' \in [commands: 0..MaxCommands, edits: 0..MaxEdits, aborts: 0..MaxAborts]
    PROVE  IInv' /\ Kept
<1>1. /\ op' \in [Operators -> Locals] /\ files' \in [RunDirs -> FilesOf]
      /\ \A p \in Operators : (op[p].pc = "idle" <=> op[p] = Idle)'
      /\ OneCommand' /\ Stages' /\ Directories'
      /\ \A d \in RunDirs : Grows(files[d], files'[d])
  BY MovesKeepStages
<1>2. Exits'
  BY <1>1, ExitsStay
<1>3. Lines'
  BY <1>1, LinesStay
<1>4. Unlisted'
  BY UnlistedStays DEF NoLine
<1>5. TypeOK'
  BY <1>1 DEF IInv, TypeOK, Moves
<1> QED
  BY <1>1, <1>2, <1>3, <1>4, <1>5 DEF IInv, Kept

LEMMA KeepFiles ==
    ASSUME TypeOK, NEW o \in Operators, op[o].dir \in RunDirs, files' = files
    PROVE  files' = [files EXCEPT ![op[o].dir] = Dir(o)]
BY DEF TypeOK, Dir

\* A command that goes on.
LEMMA GoesOn ==
    ASSUME IInv, NEW o \in Operators, op[o].pc # "idle", NEW l, NEW g,
           Good(o, l, g), Moves(o, l, g),
           l.pc \in Listing => /\ op[o].pc \in Listing \/ Dir(o).attestation = None
                               /\ op[o].pc # "append-ledger",
           ledger' = ledger, exit' = exit, used' = used
    PROVE  IInv' /\ Kept
<1>1. exit' = [exit EXCEPT ![o] = exit[o]] /\ exit[o] \in [dir: RunDirs \cup {None}, code: Codes]
  BY DEF IInv, TypeOK
<1>2. used' \in [commands: 0..MaxCommands, edits: 0..MaxEdits, aborts: 0..MaxAborts]
  BY DEF IInv, TypeOK
<1> QED BY <1>1, <1>2, SilentStep

\* A command that ends without a disposition.
LEMMA GivesUp ==
    ASSUME IInv, NEW o \in Operators, op[o].pc # "idle", NEW g, NEW code,
           Good(o, Idle, g), files' = [files EXCEPT ![op[o].dir] = g],
           workspace' = workspace, ledger' = ledger, End(o, code),
           code \in {"prepared", "invalid", "mismatch", "aborted"},
           used' \in [commands: 0..MaxCommands, edits: 0..MaxEdits, aborts: 0..MaxAborts]
    PROVE  IInv' /\ Kept
<1> DEFINE e == [dir |-> op[o].dir, code |-> code]
<1>1. exit' = [exit EXCEPT ![o] = e] /\ Moves(o, Idle, g)
  BY DEF End, Moves
<1>2. e \in [dir: RunDirs \cup {None}, code: Codes] /\ e.code \notin Statuses
  BY Here DEF Codes, Statuses
<1>3. Idle.pc \notin Listing
  BY IdleIsLocals DEF Listing
<1> HIDE DEF e
<1> QED BY <1>1, <1>2, <1>3, SilentStep

LEMMA Stops ==
    ASSUME IInv, NEW o \in Operators, op[o].pc # "idle", NEW code,
           End(o, code), code \in {"invalid", "mismatch"},
           UNCHANGED <<workspace, files, ledger, used>>
    PROVE  IInv' /\ Kept
<1>1. files' = [files EXCEPT ![op[o].dir] = Dir(o)]
  BY Here, KeepFiles DEF IInv
<1>2. used' \in [commands: 0..MaxCommands, edits: 0..MaxEdits, aborts: 0..MaxAborts]
  BY DEF IInv, TypeOK
<1> QED BY <1>1, <1>2, StopIsGood, GivesUp

\* A command that goes on without a write.
LEMMA GoesOnReading ==
    ASSUME IInv, NEW o \in Operators, op[o].pc # "idle", NEW l,
           Good(o, l, Dir(o)), op' = [op EXCEPT ![o] = l],
           l.pc \in Listing => op[o].pc \in Listing /\ op[o].pc # "append-ledger",
           UNCHANGED <<workspace, files, ledger, exit, used>>
    PROVE  IInv' /\ Kept
<1>1. files' = [files EXCEPT ![op[o].dir] = Dir(o)]
  BY Here, KeepFiles DEF IInv
<1>2. Moves(o, l, Dir(o))
  BY <1>1 DEF Moves
<1> QED BY <1>2, GoesOn
\* ... and stays within prepare or finalize.
LEMMA InPrepare ==
    ASSUME NEW o, NEW l, NEW f, NEW w, l.pc \in {"load"} \cup Parsed, l.dir \in RunDirs,
           Preparing(o, l, f, w)
    PROVE  At(o, l, f, w) /\ l.pc # "idle" /\ l.pc \notin Listing
BY DEF At, Verifying, Attesting, Parsed, Probed, Typed, Listing, StateLoaded, ContractVerified,
       ContractLoaded, ArtifactsVerified, ProbesVerified, BundleVerified, Imported, OutputsFree,
       ReviewKept, TranscriptKept, Attested, Reported

LEMMA InFinalize ==
    ASSUME NEW o, NEW l, NEW f, NEW w, l.pc \in {"load-state"} \cup StateLoaded, l.dir \in RunDirs,
           Verifying(l, f, w), Attesting(l, f)
    PROVE  At(o, l, f, w) /\ l.pc # "idle"
BY DEF At, Preparing, Parsed, Probed, Typed, StateLoaded, ContractVerified, ContractLoaded,
       ArtifactsVerified, ProbesVerified, BundleVerified, Imported, OutputsFree, ReviewKept,
       TranscriptKept, Attested, Reported

LEMMA PrepareReads ==
    ASSUME IInv, NEW o \in Operators, op[o].pc # "idle", NEW l \in Locals,
           l.pc \in {"load"} \cup Parsed, l.dir = op[o].dir,
           Preparing(o, l, Dir(o), workspace), op' = [op EXCEPT ![o] = l],
           UNCHANGED <<workspace, files, ledger, exit, used>>
    PROVE  IInv' /\ Kept
<1>1. At(o, l, Dir(o), workspace) /\ l.pc # "idle" /\ l.pc \notin Listing
  BY Here, InPrepare
<1>2. Good(o, l, Dir(o))
  BY <1>1, Here DEF Good, Grows
<1> QED BY <1>1, <1>2, GoesOnReading

LEMMA FinalizeReads ==
    ASSUME IInv, NEW o \in Operators, op[o].pc # "idle", NEW l \in Locals,
           l.pc \in StateLoaded \ Listing, l.dir = op[o].dir,
           Verifying(l, Dir(o), workspace), Attesting(l, Dir(o)), op' = [op EXCEPT ![o] = l],
           UNCHANGED <<workspace, files, ledger, exit, used>>
    PROVE  IInv' /\ Kept
<1>1. At(o, l, Dir(o), workspace) /\ l.pc # "idle"
  BY Here, InFinalize
<1>2. Good(o, l, Dir(o))
  BY <1>1, Here DEF Good, Grows
<1> QED BY <1>1, <1>2, GoesOnReading
-----------------------------------------------------------------------------
(* prepare *)

LEMMA PrepareLoadKeeps ==
    ASSUME IInv, NEW o \in Operators, PrepareLoad(o) PROVE IInv' /\ Kept
<1> DEFINE l == [op[o] EXCEPT !.pc = "probe", !.contract = workspace.contract,
                              !.manifest = workspace.artifact]
<1>0. op[o].pc = "load" /\ op[o].pc # "idle"
  BY DEF PrepareLoad
<1>1. CASE workspace.contract = InvalidContract
  BY <1>0, <1>1, Stops DEF PrepareLoad
<1>2. CASE workspace.contract # InvalidContract
  <2>1. op' = [op EXCEPT ![o] = l]
    BY <1>2 DEF PrepareLoad, IInv, TypeOK
  <2>2. op[o] \in Locals /\ workspace.contract \in Contracts /\ workspace.artifact \in Artifacts
    BY <1>0, <1>2, Here DEF Digests
  <2>3. l \in Locals /\ l.pc = "probe" /\ l.dir = op[o].dir
    <3>1. l \in Locals
      BY <2>2, ZenonT(60) DEF Locals, Steps
    <3> QED BY <2>2, <3>1 DEF Locals
  <2>4. Preparing(o, l, Dir(o), workspace)
    BY <2>2 DEF Locals, Preparing, Parsed, Probed, Typed
  <2>5. l.pc \in Parsed
    BY <2>3 DEF Parsed
  <2> HIDE DEF l
  <2> QED BY <1>0, <1>2, <2>1, <2>3, <2>4, <2>5, PrepareReads DEF PrepareLoad
<1> QED BY <1>1, <1>2

LEMMA PrepareProbeKeeps ==
    ASSUME IInv, NEW o \in Operators, PrepareProbe(o) PROVE IInv' /\ Kept
<1> DEFINE l == [op[o] EXCEPT !.pc = "directory", !.probe = workspace.artifact]
<1>0. op[o].pc = "probe" /\ op[o].pc # "idle"
  BY DEF PrepareProbe
<1>1. op' = [op EXCEPT ![o] = l]
  BY DEF PrepareProbe, IInv, TypeOK
<1>2. /\ op[o] \in Locals /\ workspace.artifact \in Artifacts
      /\ Preparing(o, op[o], Dir(o), workspace)
  BY <1>0, Here DEF At
<1>3. l \in Locals /\ l.pc = "directory" /\ l.dir = op[o].dir
  <2>1. l \in Locals
    BY <1>2, ZenonT(60) DEF Locals, Steps
  <2> QED BY <1>2, <2>1 DEF Locals
<1>4. Preparing(o, l, Dir(o), workspace)
  BY <1>0, <1>2 DEF Locals, Preparing, Parsed, Probed, Typed
<1>5. l.pc \in Parsed
  BY <1>3 DEF Parsed, Probed
<1> HIDE DEF l
<1> QED BY <1>0, <1>1, <1>3, <1>4, <1>5, PrepareReads DEF PrepareProbe

LEMMA PrepareDirectoryKeeps ==
    ASSUME IInv, NEW o \in Operators, PrepareDirectory(o) PROVE IInv' /\ Kept
<1> DEFINE l == [op[o] EXCEPT !.pc = "write-probe"]
<1>0. op[o].pc = "directory" /\ op[o].pc # "idle"
  BY DEF PrepareDirectory
<1>1. CASE Dir(o) # NoFiles
  BY <1>0, <1>1, Stops DEF PrepareDirectory
<1>2. CASE Dir(o) = NoFiles
  <2>1. op' = [op EXCEPT ![o] = l]
    BY <1>2 DEF PrepareDirectory, Goto, IInv, TypeOK
  <2>2. op[o] \in Locals /\ Preparing(o, op[o], Dir(o), workspace)
    BY <1>0, Here DEF At
  <2>3. l \in Locals /\ l.pc = "write-probe" /\ l.dir = op[o].dir
    <3>1. l \in Locals
      BY <2>2, ZenonT(60) DEF Locals, Steps
    <3> QED BY <2>2, <3>1 DEF Locals
  <2>4. Preparing(o, l, Dir(o), workspace)
    BY <1>0, <1>2, <2>2 DEF Locals, Preparing, Parsed, Probed, Typed
  <2>5. l.pc \in Parsed
    BY <2>3 DEF Parsed, Probed, Typed
  <2> HIDE DEF l
  <2> QED BY <1>0, <1>2, <2>1, <2>3, <2>4, <2>5, PrepareReads DEF PrepareDirectory
<1> QED BY <1>1, <1>2

LEMMA PrepareSnapshotKeeps ==
    ASSUME IInv, NEW o \in Operators, PrepareSnapshot(o) PROVE IInv' /\ Kept
<1> DEFINE l == [op[o] EXCEPT !.pc = "write-bundle", !.digest = workspace.contract,
                              !.snapshot = workspace.artifact]
<1>0. op[o].pc = "snapshot" /\ op[o].pc # "idle"
  BY DEF PrepareSnapshot
<1>1. op' = [op EXCEPT ![o] = l]
  BY DEF PrepareSnapshot, IInv, TypeOK
<1>2. /\ op[o] \in Locals /\ workspace.artifact \in Artifacts /\ workspace.contract \in Digests
      /\ Preparing(o, op[o], Dir(o), workspace)
  BY <1>0, Here DEF At
<1>3. l \in Locals /\ l.pc = "write-bundle" /\ l.dir = op[o].dir
  <2>1. l \in Locals
    BY <1>2, ZenonT(60) DEF Locals, Steps
  <2> QED BY <1>2, <2>1 DEF Locals
<1>4. Preparing(o, l, Dir(o), workspace)
  BY <1>0, <1>2 DEF Locals, Preparing, Parsed, Probed, Typed
<1>5. l.pc \in Parsed
  BY <1>3 DEF Parsed, Probed, Typed
<1> HIDE DEF l
<1> QED BY <1>0, <1>1, <1>3, <1>4, <1>5, PrepareReads DEF PrepareSnapshot
LEMMA PrepareWrites ==
    ASSUME IInv, NEW o \in Operators, op[o].pc # "idle", NEW l \in Locals, NEW g \in FilesOf,
           l.pc \in Parsed, l.dir = op[o].dir, Preparing(o, l, g, workspace),
           Sealed(g), Grows(Dir(o), g), op' = [op EXCEPT ![o] = l],
           files' = [files EXCEPT ![op[o].dir] = g],
           UNCHANGED <<workspace, ledger, exit, used>>
    PROVE  IInv' /\ Kept
<1>1. At(o, l, g, workspace) /\ l.pc # "idle" /\ l.pc \notin Listing
  BY Here, InPrepare
<1>2. Good(o, l, g) /\ Moves(o, l, g)
  BY <1>1 DEF Good, Moves
<1> QED BY <1>1, <1>2, GoesOn

LEMMA PrepareWriteProbeKeeps ==
    ASSUME IInv, NEW o \in Operators, PrepareWriteProbe(o) PROVE IInv' /\ Kept
<1> DEFINE l == [op[o] EXCEPT !.pc = "snapshot"]
           g == [NoFiles EXCEPT !.probe = op[o].probe]
<1>0. op[o].pc = "write-probe" /\ op[o].pc # "idle"
  BY DEF PrepareWriteProbe
<1>1. /\ op[o] \in Locals /\ Preparing(o, op[o], Dir(o), workspace)
      /\ op[o].dir \in RunDirs
  BY <1>0, Here DEF At
<1>2. Dir(o) = NoFiles /\ op[o].probe \in Artifacts
  BY <1>0, <1>1 DEF Preparing, Probed, Typed
<1>3. l \in Locals /\ l.pc = "snapshot" /\ l.dir = op[o].dir
  <2>1. l \in Locals
    BY <1>1, ZenonT(60) DEF Locals, Steps
  <2> QED BY <1>1, <2>1 DEF Locals
<1>4. g \in FilesOf /\ g = [Dir(o) EXCEPT !.probe = op[o].probe]
  BY <1>2 DEF FilesOf, NoFiles
<1>5. Sealed(g) /\ Grows(Dir(o), g)
  BY <1>2 DEF Sealed, Grows, Final, NoFiles
<1>6. Preparing(o, l, g, workspace)
  BY <1>0, <1>1, <1>2 DEF Locals, Preparing, Parsed, Probed, Typed
<1>7. l.pc \in Parsed
  BY <1>3 DEF Parsed, Probed, Typed
<1>8. op' = [op EXCEPT ![o] = l] /\ files' = [files EXCEPT ![op[o].dir] = g]
  BY <1>1, <1>4 DEF PrepareWriteProbe, Goto, Write, Dir, IInv, TypeOK, FilesOf
<1> HIDE DEF l, g
<1> QED BY <1>0, <1>3, <1>4, <1>5, <1>6, <1>7, <1>8, PrepareWrites DEF PrepareWriteProbe

LEMMA PrepareWriteBundleKeeps ==
    ASSUME IInv, NEW o \in Operators, PrepareWriteBundle(o) PROVE IInv' /\ Kept
<1> DEFINE l == [op[o] EXCEPT !.pc = "write-prepared"]
           g == [Dir(o) EXCEPT !.bundle = BundleOf(o)]
<1>0. op[o].pc = "write-bundle" /\ op[o].pc # "idle"
  BY DEF PrepareWriteBundle
<1>1. /\ op[o] \in Locals /\ Preparing(o, op[o], Dir(o), workspace)
      /\ op[o].dir \in RunDirs
  BY <1>0, Here DEF At
<1>2. /\ Dir(o) = [NoFiles EXCEPT !.probe = op[o].probe]
      /\ op[o].contract \in Contracts /\ op[o].manifest \in Artifacts
      /\ op[o].probe \in Artifacts /\ op[o].digest \in Digests /\ op[o].snapshot \in Artifacts
  BY <1>0, <1>1 DEF Preparing, Parsed, Probed, Typed
<1>3. l \in Locals /\ l.pc = "write-prepared" /\ l.dir = op[o].dir
  <2>1. l \in Locals
    BY <1>1, ZenonT(60) DEF Locals, Steps
  <2> QED BY <1>1, <2>1 DEF Locals
<1>4. BundleOf(o) \in Bundles
  BY <1>1, <1>2 DEF BundleOf, Bundles, RunIds
<1>5. g \in FilesOf
  BY <1>2, <1>4 DEF FilesOf, NoFiles
<1>6. Sealed(g) /\ Grows(Dir(o), g)
  BY <1>2 DEF Sealed, Grows, Final, NoFiles
<1>7. BundleOf(o) = BundleBy(o, l)
  BY <1>1 DEF BundleOf, BundleBy, Locals
<1>8. g = [NoFiles EXCEPT !.probe = l.probe, !.bundle = BundleBy(o, l)]
  BY <1>1, <1>2, <1>7 DEF Locals, NoFiles
<1>9. Preparing(o, l, g, workspace)
  BY <1>0, <1>1, <1>2, <1>8 DEF Locals, Preparing, Parsed, Probed, Typed
<1>10. l.pc \in Parsed
  BY <1>3 DEF Parsed, Probed, Typed
<1>11. op' = [op EXCEPT ![o] = l] /\ files' = [files EXCEPT ![op[o].dir] = g]
  BY <1>1 DEF PrepareWriteBundle, Goto, Write, Dir, IInv, TypeOK, FilesOf
<1> HIDE DEF l, g
<1> QED BY <1>0, <1>3, <1>5, <1>6, <1>9, <1>10, <1>11, PrepareWrites DEF PrepareWriteBundle

LEMMA PrepareWriteStateKeeps ==
    ASSUME IInv, NEW o \in Operators, PrepareWriteState(o) PROVE IInv' /\ Kept
<1> DEFINE s == [state |-> "awaiting_review", run |-> <<o, op[o].dir>>,
                 contract |-> workspace.contract, manifest |-> op[o].manifest,
                 probe |-> op[o].probe, bundle |-> BundleOf(o),
                 attestation |-> None, reviewer |-> None, transcript |-> None]
           g == [Dir(o) EXCEPT !.state = s]
<1>0. op[o].pc = "write-prepared" /\ op[o].pc # "idle"
  BY DEF PrepareWriteState
<1>1. /\ op[o] \in Locals /\ Preparing(o, op[o], Dir(o), workspace)
      /\ op[o].dir \in RunDirs /\ workspace.contract \in Digests
  BY <1>0, Here DEF At
<1>2. /\ Dir(o) = [NoFiles EXCEPT !.probe = op[o].probe, !.bundle = BundleBy(o, op[o])]
      /\ op[o].contract \in Contracts /\ op[o].manifest \in Artifacts
      /\ op[o].probe \in Artifacts /\ op[o].digest \in Digests /\ op[o].snapshot \in Artifacts
  BY <1>0, <1>1 DEF Preparing, Parsed, Probed, Typed
<1>3. BundleOf(o) \in Bundles
  BY <1>1, <1>2 DEF BundleOf, Bundles, RunIds
<1>4. BundleOf(o) = BundleBy(o, op[o])
  BY DEF BundleOf, BundleBy
<1>5. s \in States
  BY <1>1, <1>2, <1>3 DEF States, RunIds
<1>6. g \in FilesOf
  BY <1>2, <1>3, <1>4, <1>5 DEF FilesOf, NoFiles
<1>7. Sealed(g) /\ Grows(Dir(o), g)
  BY <1>2 DEF Sealed, Grows, Final, NoFiles
<1>8. files' = [files EXCEPT ![op[o].dir] = g]
  BY <1>1 DEF PrepareWriteState, Write, Dir, IInv, TypeOK, FilesOf
<1>9. Good(o, Idle, g)
  BY <1>6, <1>7, IdleIsLocals DEF Good
<1>10. used' \in [commands: 0..MaxCommands, edits: 0..MaxEdits, aborts: 0..MaxAborts]
  BY DEF PrepareWriteState, IInv, TypeOK
<1> HIDE DEF g
<1> QED BY <1>0, <1>8, <1>9, <1>10, GivesUp DEF PrepareWriteState
-----------------------------------------------------------------------------
(* finalize, up to the first write *)

LEMMA FinalizeLoadStateKeeps ==
    ASSUME IInv, NEW o \in Operators, FinalizeLoadState(o) PROVE IInv' /\ Kept
<1> DEFINE l == [op[o] EXCEPT !.pc = "hash-contract", !.state = Dir(o).state]
<1>0. op[o].pc = "load-state" /\ op[o].pc # "idle"
  BY DEF FinalizeLoadState
<1>1. CASE Dir(o).state = None \/ Dir(o).state.state # "awaiting_review"
  BY <1>0, <1>1, Stops DEF FinalizeLoadState
<1>2. CASE Dir(o).state # None /\ Dir(o).state.state = "awaiting_review"
  <2>1. op' = [op EXCEPT ![o] = l]
    BY <1>2 DEF FinalizeLoadState, IInv, TypeOK
  <2>2. op[o] \in Locals /\ Dir(o) \in FilesOf
    BY <1>0, Here
  <2>3. Dir(o).state \in States
    BY <1>2, <2>2 DEF FilesOf
  <2>4. l \in Locals
    BY <2>2, <2>3, ZenonT(60) DEF Locals, Steps
  <2>5. l.pc = "hash-contract" /\ l.dir = op[o].dir /\ l.state = Dir(o).state
    BY <2>2 DEF Locals
  <2> HIDE DEF l
  <2>6. Verifying(l, Dir(o), workspace)
    BY <1>2, <2>3, <2>5 DEF Verifying, StateLoaded, ContractVerified, ContractLoaded,
       ArtifactsVerified, ProbesVerified, BundleVerified, Imported, OutputsFree, ReviewKept,
       TranscriptKept, Attested, Reported
  <2>7. Attesting(l, Dir(o))
    BY <2>5 DEF Attesting, OutputsFree, ReviewKept, TranscriptKept, Attested, Reported
  <2>8. l.pc \in StateLoaded \ Listing
    BY <2>5 DEF StateLoaded, Listing
  <2> QED BY <1>0, <1>2, <2>1, <2>4, <2>5, <2>6, <2>7, <2>8, FinalizeReads DEF FinalizeLoadState
<1> QED BY <1>1, <1>2

\* A verification step that holds hands the command on to the next step.
LEMMA Verified ==
    ASSUME IInv, NEW o \in Operators, NEW pc, NEW next, op[o].pc = pc, pc # "idle",
           next \in (BundleVerified \cup ProbesVerified \cup ArtifactsVerified \cup ContractLoaded
                     \cup ContractVerified) \ Imported,
           Verifying([op[o] EXCEPT !.pc = next], Dir(o), workspace),
           Goto(o, next), UNCHANGED <<workspace, files, ledger, exit, used>>
    PROVE  IInv' /\ Kept
<1> DEFINE l == [op[o] EXCEPT !.pc = next]
<1>1. op' = [op EXCEPT ![o] = l]
  BY DEF Goto, IInv, TypeOK
<1>2. op[o] \in Locals
  BY Here
<1>3. next \in {"load-contract", "verify-artifacts", "verify-probes", "verify-bundle",
                "import-review"}
  BY DEF ContractVerified, ContractLoaded, ArtifactsVerified, ProbesVerified, BundleVerified
<1>4. l \in Locals
  BY <1>2, <1>3, SMTT(60) DEF Locals, Steps
<1>5. l.pc = next /\ l.dir = op[o].dir
  BY <1>2 DEF Locals
<1> HIDE DEF l
<1>6. Attesting(l, Dir(o))
  BY <1>3, <1>5 DEF Attesting, OutputsFree, ReviewKept, TranscriptKept, Attested, Reported
<1>7. l.pc \in StateLoaded \ Listing
  BY <1>3, <1>5 DEF StateLoaded, Listing, ContractVerified, ContractLoaded, ArtifactsVerified,
     ProbesVerified, BundleVerified
<1>8. Verifying(l, Dir(o), workspace)
  BY DEF l
<1> QED BY <1>1, <1>4, <1>5, <1>6, <1>7, <1>8, FinalizeReads

LEMMA FinalizeHashContractKeeps ==
    ASSUME IInv, NEW o \in Operators, FinalizeHashContract(o) PROVE IInv' /\ Kept
<1>0. op[o].pc = "hash-contract"
  BY DEF FinalizeHashContract, Verify
<1>1. CASE workspace.contract # op[o].state.contract
  BY <1>0, <1>1, Stops DEF FinalizeHashContract, Verify
<1>2. CASE workspace.contract = op[o].state.contract
  <2>1. op[o] \in Locals /\ Verifying(op[o], Dir(o), workspace)
    BY <1>0, Here DEF At
  <2>2. Verifying([op[o] EXCEPT !.pc = "load-contract"], Dir(o), workspace)
    BY <1>0, <1>2, <2>1 DEF Locals, Verifying, StateLoaded, ContractVerified, ContractLoaded,
       ArtifactsVerified, ProbesVerified, BundleVerified, Imported, OutputsFree, ReviewKept,
       TranscriptKept, Attested, Reported
  <2>3. "load-contract" \in ContractVerified \ Imported
    BY DEF ContractVerified, Imported, OutputsFree, ReviewKept, TranscriptKept, Attested, Reported
  <2> QED BY <1>0, <1>2, <2>2, <2>3, Verified DEF FinalizeHashContract, Verify
<1> QED BY <1>1, <1>2

LEMMA FinalizeLoadContractKeeps ==
    ASSUME IInv, NEW o \in Operators, FinalizeLoadContract(o) PROVE IInv' /\ Kept
<1> DEFINE l == [op[o] EXCEPT !.pc = "verify-artifacts", !.contract = workspace.contract]
<1>0. op[o].pc = "load-contract" /\ op[o].pc # "idle"
  BY DEF FinalizeLoadContract
<1>1. CASE workspace.contract = InvalidContract
  BY <1>0, <1>1, Stops DEF FinalizeLoadContract
<1>2. CASE workspace.contract # InvalidContract
  <2>1. op' = [op EXCEPT ![o] = l]
    BY <1>2 DEF FinalizeLoadContract, IInv, TypeOK
  <2>2. /\ op[o] \in Locals /\ workspace.contract \in Contracts
        /\ Verifying(op[o], Dir(o), workspace)
    BY <1>0, <1>2, Here DEF Digests, At
  <2>3. l \in Locals
    BY <2>2, ZenonT(60) DEF Locals, Steps
  <2>4. l.pc = "verify-artifacts" /\ l.dir = op[o].dir
    BY <2>2 DEF Locals
  <2>5. Verifying(l, Dir(o), workspace)
    BY <1>0, <2>2 DEF Locals, Verifying, StateLoaded, ContractVerified, ContractLoaded,
       ArtifactsVerified, ProbesVerified, BundleVerified, Imported, OutputsFree, ReviewKept,
       TranscriptKept, Attested, Reported
  <2> HIDE DEF l
  <2>6. Attesting(l, Dir(o))
    BY <2>4 DEF Attesting, OutputsFree, ReviewKept, TranscriptKept, Attested, Reported
  <2>7. l.pc \in StateLoaded \ Listing
    BY <2>4 DEF StateLoaded, ContractVerified, ContractLoaded, Listing
  <2> QED BY <1>0, <1>2, <2>1, <2>3, <2>4, <2>5, <2>6, <2>7, FinalizeReads DEF FinalizeLoadContract
<1> QED BY <1>1, <1>2

LEMMA FinalizeVerifyArtifactsKeeps ==
    ASSUME IInv, NEW o \in Operators, FinalizeVerifyArtifacts(o) PROVE IInv' /\ Kept
<1>0. op[o].pc = "verify-artifacts"
  BY DEF FinalizeVerifyArtifacts, Verify
<1>1. CASE workspace.artifact # op[o].state.manifest
  BY <1>0, <1>1, Stops DEF FinalizeVerifyArtifacts, Verify
<1>2. CASE workspace.artifact = op[o].state.manifest
  <2>1. op[o] \in Locals /\ Verifying(op[o], Dir(o), workspace)
    BY <1>0, Here DEF At
  <2>2. Verifying([op[o] EXCEPT !.pc = "verify-probes"], Dir(o), workspace)
    BY <1>0, <1>2, <2>1 DEF Locals, Verifying, StateLoaded, ContractVerified, ContractLoaded,
       ArtifactsVerified, ProbesVerified, BundleVerified, Imported, OutputsFree, ReviewKept,
       TranscriptKept, Attested, Reported
  <2>3. "verify-probes" \in ArtifactsVerified \ Imported
    BY DEF ArtifactsVerified, Imported, OutputsFree, ReviewKept, TranscriptKept, Attested, Reported
  <2> QED BY <1>0, <1>2, <2>2, <2>3, Verified DEF FinalizeVerifyArtifacts, Verify
<1> QED BY <1>1, <1>2

LEMMA FinalizeVerifyProbesKeeps ==
    ASSUME IInv, NEW o \in Operators, FinalizeVerifyProbes(o) PROVE IInv' /\ Kept
<1> DEFINE holds == Dir(o).probe = op[o].state.probe /\ workspace.artifact = Dir(o).probe
<1>0. op[o].pc = "verify-probes"
  BY DEF FinalizeVerifyProbes, Verify
<1>1. CASE ~holds
  BY <1>0, <1>1, Stops DEF FinalizeVerifyProbes, Verify
<1>2. CASE holds
  <2>1. op[o] \in Locals /\ Verifying(op[o], Dir(o), workspace)
    BY <1>0, Here DEF At
  <2>2. Verifying([op[o] EXCEPT !.pc = "verify-bundle"], Dir(o), workspace)
    BY <1>0, <1>2, <2>1 DEF Locals, Verifying, StateLoaded, ContractVerified, ContractLoaded,
       ArtifactsVerified, ProbesVerified, BundleVerified, Imported, OutputsFree, ReviewKept,
       TranscriptKept, Attested, Reported
  <2>3. "verify-bundle" \in ProbesVerified \ Imported
    BY DEF ProbesVerified, Imported, OutputsFree, ReviewKept, TranscriptKept, Attested, Reported
  <2> QED BY <1>0, <1>2, <2>2, <2>3, Verified DEF FinalizeVerifyProbes, Verify
<1> QED BY <1>1, <1>2

LEMMA FinalizeVerifyBundleKeeps ==
    ASSUME IInv, NEW o \in Operators, FinalizeVerifyBundle(o) PROVE IInv' /\ Kept
<1> DEFINE state == op[o].state
           bundle == Dir(o).bundle
           holds == /\ bundle = state.bundle
                    /\ bundle.run = state.run /\ bundle.contract = state.contract
                    /\ bundle.manifest = state.manifest /\ bundle.probe = state.probe
<1>0. op[o].pc = "verify-bundle"
  BY DEF FinalizeVerifyBundle, Verify
<1>1. CASE ~holds
  BY <1>0, <1>1, Stops DEF FinalizeVerifyBundle, Verify
<1>2. CASE holds
  <2>1. op[o] \in Locals /\ Verifying(op[o], Dir(o), workspace)
    BY <1>0, Here DEF At
  <2>2. Verifying([op[o] EXCEPT !.pc = "import-review"], Dir(o), workspace)
    BY <1>0, <1>2, <2>1 DEF Locals, Verifying, StateLoaded, ContractVerified, ContractLoaded,
       ArtifactsVerified, ProbesVerified, BundleVerified, Imported, OutputsFree, ReviewKept,
       TranscriptKept, Attested, Reported
  <2>3. "import-review" \in BundleVerified \ Imported
    BY DEF BundleVerified, Imported, OutputsFree, ReviewKept, TranscriptKept, Attested, Reported
  <2> QED BY <1>0, <1>2, <2>2, <2>3, Verified DEF FinalizeVerifyBundle, Verify
<1> QED BY <1>1, <1>2
LEMMA FinalizeImportKeeps ==
    ASSUME IInv, NEW o \in Operators, FinalizeImport(o) PROVE IInv' /\ Kept
<1> DEFINE review == Source(o, "reviewer")
           transcript == Source(o, "transcript")
           l == [op[o] EXCEPT !.pc = "check-outputs", !.review = review,
                              !.transcript = transcript]
           refused == review \notin Reviews \/ transcript = None \/ Verdict[review] = "refused"
<1>0. op[o].pc = "import-review" /\ op[o].pc # "idle"
  BY DEF FinalizeImport
<1>1. CASE refused
  BY <1>0, <1>1, Stops DEF FinalizeImport
<1>2. CASE ~refused
  <2>1. op' = [op EXCEPT ![o] = l]
    BY <1>2 DEF FinalizeImport, IInv, TypeOK
  <2>2. /\ op[o] \in Locals /\ Verifying(op[o], Dir(o), workspace) /\ Dir(o) \in FilesOf
        /\ workspace.transcript \in Transcripts
    BY <1>0, Here DEF At
  <2>3. review \in Reviews /\ Verdict[review] \in Statuses
    BY <1>2, VerdictAssumption
  <2>4. transcript \in Transcripts \cup {Torn}
    BY <1>2, <2>2 DEF Source, FilesOf
  <2>5. /\ "reviewer" \in op[o].source => review = Dir(o).reviewer
        /\ "reviewer" \notin op[o].source => review = workspace.reviewer
    <3>1. Dir(o)["reviewer"] = Dir(o).reviewer /\ workspace["reviewer"] = workspace.reviewer
      BY <2>2, Here, <1>0 DEF FilesOf
    <3> QED BY <3>1 DEF Source
  <2>6. /\ "transcript" \in op[o].source => transcript = Dir(o).transcript
        /\ "transcript" \notin op[o].source => transcript = workspace.transcript
    <3>1. Dir(o)["transcript"] = Dir(o).transcript /\ workspace["transcript"] = workspace.transcript
      BY <2>2, Here, <1>0 DEF FilesOf
    <3> QED BY <3>1 DEF Source
  <2> HIDE DEF review, transcript
  <2>7. l \in Locals
    <3>1. [op[o] EXCEPT !.pc = "check-outputs", !.review = review] \in Locals
      BY <2>2, <2>3, ZenonT(60) DEF Locals, Steps
    <3>2. ASSUME NEW x \in Locals PROVE [x EXCEPT !.transcript = transcript] \in Locals
      BY <2>4, ZenonT(60) DEF Locals
    <3>3. l = [[op[o] EXCEPT !.pc = "check-outputs", !.review = review]
                  EXCEPT !.transcript = transcript]
      BY <2>2 DEF Locals
    <3> QED BY <3>1, <3>2, <3>3, Zenon
  <2>8. /\ l.pc = "check-outputs" /\ l.dir = op[o].dir /\ l.review = review
        /\ l.transcript = transcript /\ l.source = op[o].source /\ l.state = op[o].state
        /\ l.contract = op[o].contract
    BY <2>2 DEF Locals
  <2> HIDE DEF l
  <2>9. Verifying(l, Dir(o), workspace)
    BY <1>0, <2>2, <2>3, <2>4, <2>5, <2>6, <2>8 DEF Verifying, StateLoaded, ContractVerified,
       ContractLoaded, ArtifactsVerified, ProbesVerified, BundleVerified, Imported, OutputsFree,
       ReviewKept, TranscriptKept, Attested, Reported
  <2>10. Attesting(l, Dir(o))
    BY <2>8 DEF Attesting, OutputsFree, ReviewKept, TranscriptKept, Attested, Reported
  <2>11. l.pc \in StateLoaded \ Listing
    BY <2>8 DEF StateLoaded, ContractVerified, ContractLoaded, ArtifactsVerified,
       ProbesVerified, BundleVerified, Imported, Listing
  <2> QED BY <1>0, <1>2, <2>1, <2>7, <2>8, <2>9, <2>10, <2>11, FinalizeReads
          DEF FinalizeImport, review, transcript
<1> QED BY <1>1, <1>2
-----------------------------------------------------------------------------
(* finalize, the writes *)

\* The step that a command writing its outputs is at.
Writing == OutputsFree

LEMMA WritingSteps ==
    Writing = {"retain-reviewer", "retain-transcript", "write-attestation", "write-report",
               "recheck-ledger", "append-ledger", "write-state"}
BY DEF Writing, OutputsFree, ReviewKept, TranscriptKept, Attested, Reported

\* From the import on, moving to a later step changes nothing Verifying says.
LEMMA MovesOn ==
    ASSUME NEW l \in Locals, NEW m \in Locals, NEW f, NEW g, NEW w, Verifying(l, f, w),
           l.pc \in Imported, m.pc \in Writing, m.dir = l.dir, m.state = l.state,
           m.contract = l.contract, m.review = l.review, m.transcript = l.transcript,
           m.source = l.source, g.state = f.state, g.probe = f.probe, g.bundle = f.bundle,
           "reviewer" \in l.source => g.reviewer = f.reviewer,
           "transcript" \in l.source => g.transcript = f.transcript
    PROVE  Verifying(m, g, w) /\ m.pc \in StateLoaded
BY WritingSteps DEF Verifying, StateLoaded, ContractVerified, ContractLoaded, ArtifactsVerified,
   ProbesVerified, BundleVerified, Imported, OutputsFree, ReviewKept, TranscriptKept,
   Attested, Reported, Writing

\* What a command knows when it writes.
LEMMA AtWrites ==
    ASSUME IInv, NEW o \in Operators, op[o].pc \in Imported
    PROVE  /\ op[o].pc # "idle" /\ op[o] \in Locals /\ op[o].dir \in RunDirs
           /\ Dir(o) \in FilesOf /\ Sealed(Dir(o)) /\ ~Final(Dir(o))
           /\ Verifying(op[o], Dir(o), workspace) /\ Attesting(op[o], Dir(o))
           /\ op[o].state \in States /\ op[o].state = Dir(o).state
           /\ Dir(o).bundle = op[o].state.bundle /\ Dir(o).probe = op[o].state.bundle.probe
           /\ op[o].contract \in Contracts /\ op[o].review \in Reviews
           /\ Verdict[op[o].review] \in Statuses
           /\ op[o].transcript \in Transcripts \cup {Torn}
           /\ workspace.reviewer \in Reviews /\ workspace.transcript \in Transcripts
<1>1. op[o].pc # "idle" /\ op[o].pc \in StateLoaded /\ op[o].pc \in BundleVerified
      /\ op[o].pc \in ProbesVerified /\ op[o].pc \in ContractLoaded
  BY DEF Imported, StateLoaded, ContractVerified, ContractLoaded, ArtifactsVerified, ProbesVerified,
     BundleVerified, OutputsFree, ReviewKept, TranscriptKept, Attested, Reported
<1>2. /\ op[o] \in Locals /\ op[o].dir \in RunDirs /\ Dir(o) \in FilesOf /\ Sealed(Dir(o))
      /\ Verifying(op[o], Dir(o), workspace) /\ Attesting(op[o], Dir(o))
      /\ workspace.reviewer \in Reviews /\ workspace.transcript \in Transcripts
  BY <1>1, Here DEF At
<1>3. /\ op[o].state \in States /\ op[o].state = Dir(o).state /\ ~Final(Dir(o))
      /\ Dir(o).bundle = op[o].state.bundle /\ Dir(o).probe = op[o].state.bundle.probe
      /\ op[o].contract \in Contracts /\ op[o].review \in Reviews
      /\ Verdict[op[o].review] \in Statuses
      /\ op[o].transcript \in Transcripts \cup {Torn}
  BY <1>1, <1>2 DEF Verifying, Final
<1> QED BY <1>1, <1>2, <1>3
\* The locals that the writes only read.
SameReview(l, m) ==
    /\ m.dir = l.dir /\ m.state = l.state /\ m.contract = l.contract
    /\ m.review = l.review /\ m.transcript = l.transcript /\ m.source = l.source

SameBundle(f, g) == g.state = f.state /\ g.probe = f.probe /\ g.bundle = f.bundle

LEMMA WriteIsGood ==
    ASSUME IInv, NEW o \in Operators, op[o].pc \in Imported, NEW l \in Locals, NEW g \in FilesOf,
           l.pc \in Writing, SameReview(op[o], l), SameBundle(Dir(o), g),
           "reviewer" \in op[o].source => g.reviewer = Dir(o).reviewer,
           "transcript" \in op[o].source => g.transcript = Dir(o).transcript,
           Attesting(l, g), Sealed(g), Grows(Dir(o), g)
    PROVE  Good(o, l, g)
<1>1. /\ op[o] \in Locals /\ Verifying(op[o], Dir(o), workspace)
      /\ op[o].dir \in RunDirs
  BY AtWrites
<1>2. Verifying(l, g, workspace) /\ l.pc \in StateLoaded
  BY <1>1, MovesOn DEF SameReview, SameBundle
<1>3. At(o, l, g, workspace) /\ l.pc # "idle"
  BY <1>1, <1>2, InFinalize DEF SameReview
<1> QED BY <1>3 DEF Good, SameReview

LEMMA FinalizeWrites ==
    ASSUME IInv, NEW o \in Operators, op[o].pc \in Imported, NEW l \in Locals, NEW g \in FilesOf,
           Good(o, l, g), op' = [op EXCEPT ![o] = l], files' = [files EXCEPT ![op[o].dir] = g],
           l.pc \in Listing => /\ op[o].pc \in Listing \/ Dir(o).attestation = None
                               /\ op[o].pc # "append-ledger",
           UNCHANGED <<workspace, ledger, exit, used>>
    PROVE  IInv' /\ Kept
<1>1. op[o].pc # "idle"
  BY AtWrites
<1>2. Moves(o, l, g)
  BY DEF Moves
<1> QED BY <1>1, <1>2, GoesOn

\* A writing command that goes on without a write.
LEMMA FinalizePasses ==
    ASSUME IInv, NEW o \in Operators, op[o].pc \in Imported, NEW pc \in Writing, Goto(o, pc),
           Attesting([op[o] EXCEPT !.pc = pc], Dir(o)),
           pc \in Listing => op[o].pc \in Listing /\ op[o].pc # "append-ledger",
           UNCHANGED <<workspace, files, ledger, exit, used>>
    PROVE  IInv' /\ Kept
<1> DEFINE l == [op[o] EXCEPT !.pc = pc]
<1>1. op[o].pc # "idle" /\ op[o] \in Locals /\ Dir(o) \in FilesOf /\ Sealed(Dir(o))
  BY AtWrites
<1>2. op' = [op EXCEPT ![o] = l]
  BY DEF Goto, IInv, TypeOK
<1>3. pc \in Steps
  BY WritingSteps DEF Steps
<1>4. l \in Locals
  BY <1>1, <1>3 DEF Locals
<1>5. l.pc = pc /\ SameReview(op[o], l)
  BY <1>1 DEF Locals, SameReview
<1>6. Attesting(l, Dir(o))
  OBVIOUS
<1> HIDE DEF l
<1>7. SameBundle(Dir(o), Dir(o)) /\ Grows(Dir(o), Dir(o))
  BY DEF SameBundle, Grows
<1>8. Good(o, l, Dir(o))
  BY <1>1, <1>4, <1>5, <1>6, <1>7, WriteIsGood
<1> QED BY <1>1, <1>2, <1>4, <1>5, <1>8, GoesOnReading

LEMMA FinalizeCheckOutputsKeeps ==
    ASSUME IInv, NEW o \in Operators, FinalizeCheckOutputs(o) PROVE IInv' /\ Kept
<1>0. op[o].pc = "check-outputs" /\ op[o].pc # "idle" /\ op[o].pc \in Imported
  BY DEF FinalizeCheckOutputs, Imported
<1>1. CASE OutputsRefuse(o)
  BY <1>0, <1>1, Stops DEF FinalizeCheckOutputs
<1>2. CASE ~OutputsRefuse(o)
  <2>1. Dir(o).attestation = None /\ Dir(o).report = None
    BY <1>2 DEF OutputsRefuse
  <2>2. Attesting([op[o] EXCEPT !.pc = "retain-reviewer"], Dir(o))
    BY <1>0, <2>1, AtWrites DEF Locals, Attesting, OutputsFree, ReviewKept, TranscriptKept,
       Attested, Reported
  <2>3. "retain-reviewer" \in Writing \ Listing
    BY WritingSteps DEF Listing
  <2> QED BY <1>0, <1>2, <2>2, <2>3, FinalizePasses DEF FinalizeCheckOutputs
<1> QED BY <1>1, <1>2

LEMMA FinalizeRetainReviewerKeeps ==
    ASSUME IInv, NEW o \in Operators, FinalizeRetainReviewer(o) PROVE IInv' /\ Kept
<1> DEFINE l == [op[o] EXCEPT !.pc = "retain-transcript"]
           g == [Dir(o) EXCEPT !.reviewer = workspace.reviewer]
<1>0. op[o].pc = "retain-reviewer" /\ op[o].pc # "idle" /\ op[o].pc \in Imported
  BY DEF FinalizeRetainReviewer, Retain, Imported, OutputsFree
<1>1. /\ op[o] \in Locals /\ op[o].dir \in RunDirs /\ Dir(o) \in FilesOf
      /\ Verifying(op[o], Dir(o), workspace) /\ ~Final(Dir(o)) /\ workspace.reviewer \in Reviews
  BY <1>0, AtWrites
<1>2. Dir(o).attestation = None /\ Dir(o).report = None
  BY <1>0, AtWrites DEF Attesting, OutputsFree, ReviewKept, TranscriptKept, Attested, Reported
<1>3. "retain-transcript" \in Writing \ Listing
  BY WritingSteps DEF Listing
<1>4. CASE "reviewer" \in op[o].source
  <2>1. Dir(o).reviewer = op[o].review
    BY <1>0, <1>1, <1>4 DEF Verifying, Imported
  <2>2. Attesting(l, Dir(o))
    BY <1>1, <1>2, <2>1 DEF Locals, Attesting, OutputsFree, ReviewKept, TranscriptKept,
       Attested, Reported
  <2> QED BY <1>0, <1>3, <1>4, <2>2, FinalizePasses DEF FinalizeRetainReviewer, Retain
<1>5. CASE "reviewer" \notin op[o].source /\ Dir(o)["reviewer"] # None
  BY <1>0, <1>5, Stops DEF FinalizeRetainReviewer, Retain
<1>6. CASE "reviewer" \notin op[o].source /\ Dir(o)["reviewer"] = None
  <2>1. Dir(o).reviewer = None
    BY <1>1, <1>6 DEF FilesOf
  <2>2. Still => workspace.reviewer = op[o].review
    BY <1>0, <1>1, <1>6 DEF Verifying, Imported
  <2>3. g \in FilesOf /\ g.reviewer = workspace.reviewer /\ g.transcript = Dir(o).transcript
        /\ SameBundle(Dir(o), g) /\ g.attestation = None /\ g.report = None
    BY <1>1, <1>2 DEF FilesOf, SameBundle
  <2>4. l \in Locals
    BY <1>1, ZenonT(60) DEF Locals, Steps
  <2>5. l.pc = "retain-transcript" /\ SameReview(op[o], l)
    BY <1>1 DEF Locals, SameReview
  <2>6. workspace["reviewer"] = workspace.reviewer
    BY <1>0, Here
  <2>7. op' = [op EXCEPT ![o] = l] /\ files' = [files EXCEPT ![op[o].dir] = g]
    BY <1>1, <1>6, <2>6 DEF FinalizeRetainReviewer, Retain, Goto, Write, Dir, IInv, TypeOK, FilesOf
  <2> HIDE DEF l, g
  <2>8. Attesting(l, g)
    BY <2>2, <2>3, <2>5 DEF Attesting, OutputsFree, ReviewKept, TranscriptKept, Attested, Reported,
       SameReview
  <2>9. Sealed(g) /\ Grows(Dir(o), g)
    BY <1>1, <1>2, <2>1, <2>3 DEF Sealed, Grows, Final, SameBundle
  <2>10. Good(o, l, g)
    BY <1>0, <1>3, <1>6, <2>3, <2>4, <2>5, <2>8, <2>9, WriteIsGood
  <2> QED BY <1>0, <1>3, <1>6, <2>3, <2>4, <2>5, <2>7, <2>10, FinalizeWrites
          DEF FinalizeRetainReviewer, Retain
<1> QED BY <1>4, <1>5, <1>6

LEMMA FinalizeRetainTranscriptKeeps ==
    ASSUME IInv, NEW o \in Operators, FinalizeRetainTranscript(o) PROVE IInv' /\ Kept
<1> DEFINE l == [op[o] EXCEPT !.pc = "write-attestation"]
           g == [Dir(o) EXCEPT !.transcript = workspace.transcript]
<1>0. op[o].pc = "retain-transcript" /\ op[o].pc # "idle" /\ op[o].pc \in Imported
  BY DEF FinalizeRetainTranscript, Retain, Imported, OutputsFree, ReviewKept
<1>1. /\ op[o] \in Locals /\ op[o].dir \in RunDirs /\ Dir(o) \in FilesOf
      /\ Verifying(op[o], Dir(o), workspace) /\ ~Final(Dir(o)) /\ workspace.transcript \in Transcripts
  BY <1>0, AtWrites
<1>2. /\ Dir(o).attestation = None /\ Dir(o).report = None
      /\ Still => Dir(o).reviewer = op[o].review
  BY <1>0, AtWrites DEF Attesting, OutputsFree, ReviewKept, TranscriptKept, Attested, Reported
<1>3. "write-attestation" \in Writing \ Listing
  BY WritingSteps DEF Listing
<1>4. CASE "transcript" \in op[o].source
  <2>1. Dir(o).transcript = op[o].transcript
    BY <1>0, <1>1, <1>4 DEF Verifying, Imported
  <2>2. Attesting(l, Dir(o))
    BY <1>1, <1>2, <2>1 DEF Locals, Attesting, OutputsFree, ReviewKept, TranscriptKept,
       Attested, Reported
  <2> QED BY <1>0, <1>3, <1>4, <2>2, FinalizePasses DEF FinalizeRetainTranscript, Retain
<1>5. CASE "transcript" \notin op[o].source /\ Dir(o)["transcript"] # None
  BY <1>0, <1>5, Stops DEF FinalizeRetainTranscript, Retain
<1>6. CASE "transcript" \notin op[o].source /\ Dir(o)["transcript"] = None
  <2>1. Dir(o).transcript = None
    BY <1>1, <1>6 DEF FilesOf
  <2>2. Still => workspace.transcript = op[o].transcript
    BY <1>0, <1>1, <1>6 DEF Verifying, Imported
  <2>3. g \in FilesOf /\ g.transcript = workspace.transcript /\ g.reviewer = Dir(o).reviewer
        /\ SameBundle(Dir(o), g) /\ g.attestation = None /\ g.report = None
    BY <1>1, <1>2 DEF FilesOf, SameBundle
  <2>4. l \in Locals
    BY <1>1, ZenonT(60) DEF Locals, Steps
  <2>5. l.pc = "write-attestation" /\ SameReview(op[o], l)
    BY <1>1 DEF Locals, SameReview
  <2>6. workspace["transcript"] = workspace.transcript
    BY <1>0, Here
  <2>7. op' = [op EXCEPT ![o] = l] /\ files' = [files EXCEPT ![op[o].dir] = g]
    BY <1>1, <1>6, <2>6 DEF FinalizeRetainTranscript, Retain, Goto, Write, Dir, IInv, TypeOK, FilesOf
  <2> HIDE DEF l, g
  <2>8. Attesting(l, g)
    BY <1>2, <2>2, <2>3, <2>5 DEF Attesting, OutputsFree, ReviewKept, TranscriptKept, Attested,
       Reported, SameReview
  <2>9. Sealed(g) /\ Grows(Dir(o), g)
    BY <1>1, <1>2, <2>1, <2>3 DEF Sealed, Grows, Final, SameBundle
  <2>10. Good(o, l, g)
    BY <1>0, <1>3, <1>6, <2>3, <2>4, <2>5, <2>8, <2>9, WriteIsGood
  <2> QED BY <1>0, <1>3, <1>6, <2>3, <2>4, <2>5, <2>7, <2>10, FinalizeWrites
          DEF FinalizeRetainTranscript, Retain
<1> QED BY <1>4, <1>5, <1>6
LEMMA AttestationIsTyped ==
    ASSUME IInv, NEW o \in Operators, op[o].pc \in Imported
    PROVE  AttestationOf(o) \in Attestations /\ AttestationOf(o) = AttestationBy(op[o])
<1>1. /\ op[o].state \in States /\ op[o].contract \in Contracts /\ op[o].review \in Reviews
      /\ Verdict[op[o].review] \in Statuses /\ op[o].transcript \in Transcripts \cup {Torn}
  BY AtWrites
<1>2. AttestationOf(o) = AttestationBy(op[o])
  BY DEF AttestationOf, AttestationBy, AttestationId
<1>3. /\ op[o].state.run \in RunIds /\ op[o].state.contract \in Digests
      /\ op[o].state.manifest \in Artifacts /\ op[o].state.bundle \in Bundles
  BY <1>1 DEF States
<1>4. AttestationId(o) \in AttestationIds
  BY <1>3 DEF AttestationId, AttestationIds
<1>5. AttestationOf(o) \in Attestations
  BY <1>1, <1>3, <1>4 DEF AttestationOf, Attestations
<1> QED BY <1>2, <1>5

LEMMA FinalizeWriteAttestationKeeps ==
    ASSUME IInv, NEW o \in Operators, FinalizeWriteAttestation(o) PROVE IInv' /\ Kept
<1> DEFINE l == [op[o] EXCEPT !.pc = "write-report"]
           a == AttestationOf(o)
           g == [Dir(o) EXCEPT !.attestation = a]
<1>0. op[o].pc = "write-attestation" /\ op[o].pc # "idle" /\ op[o].pc \in Imported
  BY DEF FinalizeWriteAttestation, Imported, OutputsFree, ReviewKept, TranscriptKept
<1>1. /\ op[o] \in Locals /\ op[o].dir \in RunDirs /\ Dir(o) \in FilesOf /\ ~Final(Dir(o))
      /\ Dir(o).bundle = op[o].state.bundle /\ Dir(o).probe = op[o].state.bundle.probe
  BY <1>0, AtWrites
<1>2. /\ Dir(o).attestation = None /\ Dir(o).report = None
      /\ Still => Dir(o).reviewer = op[o].review /\ Dir(o).transcript = op[o].transcript
  BY <1>0, AtWrites DEF Attesting, OutputsFree, ReviewKept, TranscriptKept, Attested, Reported
<1>3. a \in Attestations /\ a = AttestationBy(op[o])
  BY <1>0, AttestationIsTyped
<1>4. /\ a.bundle = op[o].state.bundle /\ a.review = op[o].review
      /\ a.transcript = op[o].transcript
  BY <1>3 DEF AttestationBy
<1> HIDE DEF a
<1>5. /\ g \in FilesOf /\ SameBundle(Dir(o), g) /\ g.attestation = a /\ g.report = None
      /\ g.reviewer = Dir(o).reviewer /\ g.transcript = Dir(o).transcript
  BY <1>1, <1>2, <1>3 DEF FilesOf, SameBundle
<1>6. l \in Locals
  BY <1>1, ZenonT(60) DEF Locals, Steps
<1>7. l.pc = "write-report" /\ SameReview(op[o], l) /\ l.pc \in Writing
  BY <1>1, WritingSteps DEF Locals, SameReview
<1>8. op' = [op EXCEPT ![o] = l] /\ files' = [files EXCEPT ![op[o].dir] = g]
  BY <1>1 DEF FinalizeWriteAttestation, Goto, Write, Dir, IInv, TypeOK, FilesOf, a
<1> HIDE DEF l, g
<1>9. AttestationBy(l) = a
  BY <1>3, <1>7 DEF AttestationBy, SameReview
<1>10. Attesting(l, g)
  BY <1>2, <1>5, <1>7, <1>9 DEF Attesting, OutputsFree, ReviewKept, TranscriptKept, Attested,
     Reported, SameReview
<1>11. Sealed(g) /\ Grows(Dir(o), g)
  BY <1>1, <1>2, <1>4, <1>5 DEF Sealed, Grows, Final, SameBundle
<1>12. Good(o, l, g)
  BY <1>0, <1>5, <1>6, <1>7, <1>10, <1>11, WriteIsGood
<1> QED BY <1>0, <1>2, <1>5, <1>6, <1>8, <1>12, FinalizeWrites DEF FinalizeWriteAttestation

LEMMA FinalizeWriteReportKeeps ==
    ASSUME IInv, NEW o \in Operators, FinalizeWriteReport(o) PROVE IInv' /\ Kept
<1> DEFINE pc == IF op[o].ledger THEN "recheck-ledger" ELSE "write-state"
           l == [op[o] EXCEPT !.pc = pc, !.sha = Dir(o).attestation]
           a == AttestationOf(o)
           g == [Dir(o) EXCEPT !.report = a]
<1>0. op[o].pc = "write-report" /\ op[o].pc # "idle" /\ op[o].pc \in Imported
  BY DEF FinalizeWriteReport, Imported, OutputsFree, ReviewKept, TranscriptKept, Attested
<1>1. /\ op[o] \in Locals /\ op[o].dir \in RunDirs /\ Dir(o) \in FilesOf /\ ~Final(Dir(o))
      /\ Sealed(Dir(o))
  BY <1>0, AtWrites
<1>2. /\ Dir(o).attestation = AttestationBy(op[o])
      /\ Still => Dir(o).reviewer = op[o].review /\ Dir(o).transcript = op[o].transcript
  BY <1>0, AtWrites DEF Attesting, OutputsFree, ReviewKept, TranscriptKept, Attested, Reported
<1>3. a \in Attestations /\ a = AttestationBy(op[o])
  BY <1>0, AttestationIsTyped
<1>4. pc \in {"recheck-ledger", "write-state"}
  OBVIOUS
<1> HIDE DEF a, pc
<1>5. /\ g \in FilesOf /\ SameBundle(Dir(o), g) /\ g.attestation = a /\ g.report = a
      /\ g.reviewer = Dir(o).reviewer /\ g.transcript = Dir(o).transcript
  BY <1>1, <1>2, <1>3 DEF FilesOf, SameBundle
<1>6. l \in Locals
  BY <1>1, <1>2, <1>3, <1>4, ZenonT(60) DEF Locals, Steps
<1>7. l.pc = pc /\ l.sha = a /\ SameReview(op[o], l) /\ l.pc \in Writing
  BY <1>1, <1>2, <1>3, <1>4, WritingSteps DEF Locals, SameReview
<1>8. op' = [op EXCEPT ![o] = l] /\ files' = [files EXCEPT ![op[o].dir] = g]
  BY <1>1 DEF FinalizeWriteReport, Write, Dir, IInv, TypeOK, FilesOf, a, pc
<1> HIDE DEF l, g
<1>9. AttestationBy(l) = a
  BY <1>3, <1>7 DEF AttestationBy, SameReview
<1>10. Attesting(l, g)
  BY <1>2, <1>4, <1>5, <1>7, <1>9 DEF Attesting, OutputsFree, ReviewKept, TranscriptKept, Attested,
     Reported, SameReview
<1>11. Sealed(g) /\ Grows(Dir(o), g)
  BY <1>1, <1>2, <1>3, <1>5 DEF Sealed, Grows, Final, SameBundle
<1>12. Good(o, l, g)
  BY <1>0, <1>5, <1>6, <1>7, <1>10, <1>11, WriteIsGood
<1>13. op[o].pc \in Listing
  BY <1>0 DEF Listing
<1> QED BY <1>0, <1>5, <1>6, <1>8, <1>12, <1>13, FinalizeWrites DEF FinalizeWriteReport

LEMMA FinalizeRecheckLedgerKeeps ==
    ASSUME IInv, NEW o \in Operators, FinalizeRecheckLedger(o) PROVE IInv' /\ Kept
<1>0. op[o].pc = "recheck-ledger" /\ op[o].pc # "idle" /\ op[o].pc \in Imported
  BY DEF FinalizeRecheckLedger, Imported, OutputsFree, ReviewKept, TranscriptKept, Attested, Reported
<1>1. CASE LedgerRefuses(o)
  BY <1>0, <1>1, Stops DEF FinalizeRecheckLedger
<1>2. CASE ~LedgerRefuses(o)
  <2>1. op[o] \in Locals /\ Attesting(op[o], Dir(o))
    BY <1>0, AtWrites
  <2>2. Attesting([op[o] EXCEPT !.pc = "append-ledger"], Dir(o))
    BY <1>0, <2>1 DEF Locals, Attesting, AttestationBy, OutputsFree, ReviewKept, TranscriptKept,
       Attested, Reported
  <2>3. "append-ledger" \in Writing /\ op[o].pc \in Listing /\ op[o].pc # "append-ledger"
    BY <1>0, WritingSteps DEF Listing
  <2> QED BY <1>0, <1>2, <2>2, <2>3, FinalizePasses DEF FinalizeRecheckLedger
<1> QED BY <1>1, <1>2

LEMMA FinalizeAppendLedgerKeeps ==
    ASSUME IInv, NEW o \in Operators, FinalizeAppendLedger(o) PROVE IInv' /\ Kept
<1> DEFINE l == [op[o] EXCEPT !.pc = "write-state"]
           r == Receipt(o)
<1>0. op[o].pc = "append-ledger" /\ op[o].pc # "idle" /\ op[o].pc \in Imported
  BY DEF FinalizeAppendLedger, Imported, OutputsFree, ReviewKept, TranscriptKept, Attested, Reported
<1>1. /\ op[o] \in Locals /\ op[o].dir \in RunDirs /\ Dir(o) \in FilesOf /\ Sealed(Dir(o))
      /\ Attesting(op[o], Dir(o)) /\ op[o].state \in States /\ Verdict[op[o].review] \in Statuses
  BY <1>0, AtWrites
<1>2. Dir(o).attestation = AttestationOf(o) /\ op[o].sha = AttestationOf(o)
  BY <1>0, <1>1, AttestationIsTyped DEF Attesting, Attested, Reported
<1>3. Attesting(l, Dir(o))
  BY <1>0, <1>1 DEF Locals, Attesting, AttestationBy, OutputsFree, ReviewKept, TranscriptKept,
     Attested, Reported
<1>4. l \in Locals
  BY <1>1, ZenonT(60) DEF Locals, Steps
<1>5. l.pc = "write-state" /\ SameReview(op[o], l) /\ l.pc \in Writing /\ l.pc \notin Listing
  BY <1>1, WritingSteps DEF Locals, SameReview, Listing
<1>6. op' = [op EXCEPT ![o] = l] /\ files' = [files EXCEPT ![op[o].dir] = Dir(o)]
  BY <1>1 DEF FinalizeAppendLedger, Goto, Dir, IInv, TypeOK
<1> HIDE DEF l
<1>7. SameBundle(Dir(o), Dir(o)) /\ Grows(Dir(o), Dir(o))
  BY DEF SameBundle, Grows
<1>8. Good(o, l, Dir(o)) /\ Moves(o, l, Dir(o))
  BY <1>0, <1>1, <1>3, <1>4, <1>5, <1>6, <1>7, WriteIsGood DEF Moves, FinalizeAppendLedger
<1>9. r \in Receipts
  <2>1. AttestationOf(o) \in Attestations
    BY <1>0, AttestationIsTyped
  <2>2. op[o].state.run \in RunIds
    BY <1>1 DEF States
  <2>3. AttestationId(o) \in AttestationIds
    BY <2>2 DEF AttestationId, AttestationIds
  <2> QED BY <1>1, <1>2, <2>1, <2>2, <2>3 DEF Receipt, Receipts
<1>10. /\ r.path = op[o].dir /\ r.sha = files[r.path].attestation
       /\ r.sha.id = r.id /\ r.sha.status = r.status
  BY <1>2 DEF Receipt, AttestationOf, Dir
<1>11. NoLine(op[o].dir)
  BY <1>0 DEF IInv, Unlisted
<1> HIDE DEF r
<1>12. files' = files /\ ledger' = AppendLine(r)
  BY DEF FinalizeAppendLedger, r
<1>13. Lines' /\ \A d : d # op[o].dir /\ NoLine(d) => NoLine(d)'
  BY <1>9, <1>10, <1>11, <1>12, ReceiptLine
<1>14. /\ op' \in [Operators -> Locals] /\ files' \in [RunDirs -> FilesOf]
       /\ \A p \in Operators : (op[p].pc = "idle" <=> op[p] = Idle)'
       /\ OneCommand' /\ Stages' /\ Directories'
       /\ \A d \in RunDirs : Grows(files[d], files'[d])
  BY <1>0, <1>8, MovesKeepStages
<1>15. Unlisted'
  BY <1>0, <1>5, <1>8, <1>13, UnlistedStays
<1>16. Exits'
  BY <1>12 DEF FinalizeAppendLedger, IInv, Exits
<1>17. ledger' \in Seq(Receipts \cup {Torn})
  BY <1>9, <1>12, AppendShape DEF IInv
<1>18. TypeOK'
  BY <1>14, <1>17 DEF FinalizeAppendLedger, IInv, TypeOK
<1> QED BY <1>13, <1>14, <1>15, <1>16, <1>18 DEF IInv, Kept

LEMMA FinalizeWriteStateKeeps ==
    ASSUME IInv, NEW o \in Operators, FinalizeWriteState(o) PROVE IInv' /\ Kept
<1> DEFINE status == Verdict[op[o].review]
           s == [op[o].state EXCEPT !.state = FinalState[status], !.attestation = op[o].sha,
                     !.reviewer = Dir(o).reviewer, !.transcript = Dir(o).transcript]
           g == [Dir(o) EXCEPT !.state = s]
           e == [dir |-> op[o].dir, code |-> status]
<1>0. op[o].pc = "write-state" /\ op[o].pc # "idle" /\ op[o].pc \in Imported
  BY DEF FinalizeWriteState, Imported, OutputsFree, ReviewKept, TranscriptKept, Attested, Reported
<1>1. /\ op[o] \in Locals /\ op[o].dir \in RunDirs /\ Dir(o) \in FilesOf /\ Sealed(Dir(o))
      /\ Attesting(op[o], Dir(o)) /\ op[o].state \in States /\ status \in Statuses
      /\ ~Final(Dir(o))
  BY <1>0, AtWrites
<1>2. /\ Dir(o).attestation = AttestationOf(o) /\ op[o].sha = AttestationOf(o)
      /\ Dir(o).report = AttestationOf(o) /\ AttestationOf(o) \in Attestations
      /\ AttestationOf(o).status = status
  <2>1. /\ Dir(o).attestation = AttestationOf(o) /\ op[o].sha = AttestationOf(o)
        /\ Dir(o).report = AttestationOf(o) /\ AttestationOf(o) \in Attestations
    BY <1>0, <1>1, AttestationIsTyped DEF Attesting, Attested, Reported
  <2> QED BY <2>1 DEF AttestationOf
<1>3. /\ FinalState[status] \in {"completed", "failed", "needs_review"}
      /\ FinalState[status] # "awaiting_review"
  BY <1>1 DEF FinalState, Statuses
<1>4. s \in States
  BY <1>1, <1>2, <1>3 DEF States, FilesOf
<1>5. /\ s.state = FinalState[status] /\ s.attestation = op[o].sha
      /\ s.reviewer = Dir(o).reviewer /\ s.transcript = Dir(o).transcript
  BY <1>1 DEF States
<1> HIDE DEF s
<1>6. /\ g \in FilesOf /\ g.state = s /\ g.attestation = Dir(o).attestation
      /\ g.report = Dir(o).report /\ g.probe = Dir(o).probe /\ g.bundle = Dir(o).bundle
      /\ g.reviewer = Dir(o).reviewer /\ g.transcript = Dir(o).transcript
  BY <1>1, <1>4 DEF FilesOf
<1>7. files' = [files EXCEPT ![op[o].dir] = g]
  BY <1>1 DEF FinalizeWriteState, Write, Dir, IInv, TypeOK, FilesOf, s
<1> HIDE DEF g
<1>8. g.attestation # None /\ s # None
  BY <1>2, <1>4, <1>6, DistinctAssumption
<1>9. Sealed(g)
  BY <1>1, <1>2, <1>5, <1>6, <1>8 DEF Sealed
<1>10. Grows(Dir(o), g)
  BY <1>1, <1>6 DEF Grows
<1>11. Good(o, Idle, g) /\ Moves(o, Idle, g)
  BY <1>6, <1>7, <1>9, <1>10, IdleIsLocals DEF Good, Moves, FinalizeWriteState, End
<1>12. Told(e, g)
  BY <1>2, <1>3, <1>5, <1>6, <1>8 DEF Told, Final
<1>13. files'[op[o].dir] = g
  BY <1>1, <1>7 DEF IInv, TypeOK
<1>14. exit' = [exit EXCEPT ![o] = e]
  BY DEF FinalizeWriteState, End
<1>15. e \in [dir: RunDirs \cup {None}, code: Codes] /\ e.dir = op[o].dir
  BY <1>1 DEF Codes
<1>16. used' \in [commands: 0..MaxCommands, edits: 0..MaxEdits, aborts: 0..MaxAborts]
  BY DEF FinalizeWriteState, IInv, TypeOK
<1>17. Idle.pc \notin Listing
  BY IdleIsLocals DEF Listing
<1> HIDE DEF e
<1> QED BY <1>0, <1>1, <1>11, <1>12, <1>13, <1>14, <1>15, <1>16, <1>17, SilentStep
        DEF FinalizeWriteState
-----------------------------------------------------------------------------
(* Starts, interruptions and edits *)

\* What a started command's first step needs is a directory of its own.
LEMMA StartKeeps ==
    ASSUME Exclusive = TRUE, IInv, NEW o \in Operators, NEW d \in RunDirs, NEW pc, NEW l \in Locals,
           Start(o, d, pc), op' = [op EXCEPT ![o] = l], l.pc \in {"load", "load-state"}, l.dir = d,
           UNCHANGED <<workspace, files, ledger, exit>>
    PROVE  IInv' /\ Kept
<1>1. op[o].pc = "idle" /\ ~Active(d)
  BY DEF Start
<1>2. op'[o] = l /\ \A p \in Operators \ {o} : op'[p] = op[p]
  BY DEF IInv, TypeOK
<1>3. At(o, l, files[d], workspace)
  BY DEF At, Preparing, Verifying, Attesting, Parsed, Probed, Typed, StateLoaded, ContractVerified,
     ContractLoaded, ArtifactsVerified, ProbesVerified, BundleVerified, Imported, OutputsFree,
     ReviewKept, TranscriptKept, Attested, Reported
<1>4. TypeOK'
  <2>1. op' \in [Operators -> Locals]
    BY DEF IInv, TypeOK
  <2>2. \A p \in Operators : op'[p].pc = "idle" <=> op'[p] = Idle
    <3>1. \A p \in Operators : op[p].pc = "idle" <=> op[p] = Idle
      BY DEF IInv, TypeOK
    <3>2. l.pc # "idle" /\ l # Idle
      BY IdleIsLocals
    <3> QED BY <1>2, <3>1, <3>2
  <2>3. used' \in [commands: 0..MaxCommands, edits: 0..MaxEdits, aborts: 0..MaxAborts]
    <3>1. /\ used \in [commands: 0..MaxCommands, edits: 0..MaxEdits, aborts: 0..MaxAborts]
          /\ used.commands < MaxCommands /\ MaxCommands \in Nat
          /\ used' = [used EXCEPT !.commands = @ + 1]
      BY VerdictAssumption DEF IInv, TypeOK, Start
    <3>2. used.commands + 1 \in 0..MaxCommands
      BY <3>1
    <3> QED BY <3>1, <3>2
  <2> QED BY <2>1, <2>2, <2>3 DEF IInv, TypeOK
<1>5. OneCommand'
  <2> SUFFICES ASSUME NEW p \in Operators, NEW q \in Operators,
                      op'[p].pc # "idle", op'[q].dir = op'[p].dir
               PROVE  q = p
    BY DEF OneCommand
  <2>1. CASE p = o
    BY <1>1, <1>2, <2>1 DEF Active
  <2>2. CASE p # o /\ q = o
    BY <1>1, <1>2, <2>2 DEF Active
  <2>3. CASE p # o /\ q # o
    BY <1>2, <2>3 DEF IInv, OneCommand
  <2> QED BY <2>1, <2>2, <2>3
<1>6. Stages'
  <2> SUFFICES ASSUME NEW p \in Operators, op'[p].pc # "idle"
               PROVE  At(p, op'[p], files'[op'[p].dir], workspace')
    BY DEF Stages
  <2> QED BY <1>2, <1>3 DEF IInv, Stages
<1>7. Unlisted'
  <2> SUFFICES ASSUME NEW p \in Operators, NEW c, op'[p].pc \in Listing, c = op'[p].dir
               PROVE  NoLine(c)'
    BY DEF Unlisted, Listing, NoLine
  <2>1. p # o
    BY <1>2 DEF Listing
  <2>2. NoLine(c)
    BY <1>2, <2>1 DEF IInv, Unlisted, Listing
  <2> QED BY <2>2 DEF NoLine
<1>8. Directories' /\ Exits' /\ Lines'
  BY DEF IInv, Directories, Exits, Lines
<1>9. Kept
  BY DEF Kept, Grows
<1> QED BY <1>4, <1>5, <1>6, <1>7, <1>8, <1>9 DEF IInv

LEMMA StartPrepareKeeps ==
    ASSUME Exclusive = TRUE, IInv, NEW o \in Operators, NEW d \in RunDirs, StartPrepare(o, d)
    PROVE  IInv' /\ Kept
<1> DEFINE l == [Idle EXCEPT !.pc = "load", !.dir = d]
<1>1. l \in Locals /\ l.pc = "load" /\ l.dir = d
  BY DEF Idle, Locals, Steps, Names
<1>2. op' = [op EXCEPT ![o] = l] /\ Start(o, d, "load")
  BY DEF StartPrepare
<1> HIDE DEF l
<1> QED BY <1>1, <1>2, StartKeeps DEF StartPrepare

LEMMA StartFinalizeKeeps ==
    ASSUME Exclusive = TRUE, IInv, NEW o \in Operators, NEW d \in RunDirs, NEW source \in Names,
           NEW append \in LedgerModes, StartFinalize(o, d, source, append)
    PROVE  IInv' /\ Kept
<1> DEFINE l == [Idle EXCEPT !.pc = "load-state", !.dir = d, !.source = source, !.ledger = append]
<1>1. append \in BOOLEAN
  BY VerdictAssumption
<1>2. l \in Locals /\ l.pc = "load-state" /\ l.dir = d
  BY <1>1 DEF Idle, Locals, Steps
<1>3. op' = [op EXCEPT ![o] = l] /\ Start(o, d, "load-state")
  BY DEF StartFinalize
<1> HIDE DEF l
<1> QED BY <1>2, <1>3, StartKeeps DEF StartFinalize

\* Whatever an interrupted write leaves, the directory is sound.
LEMMA LeavesAreSound ==
    ASSUME IInv, NEW o \in Operators, op[o].pc # "idle", NEW g \in Leaves(o, op[o].dir)
    PROVE  Good(o, Idle, g)
<1>1. /\ Dir(o) \in FilesOf /\ Sealed(Dir(o)) /\ op[o].dir \in RunDirs
      /\ Preparing(o, op[o], Dir(o), workspace) /\ Dir(o) = files[op[o].dir]
  BY Here DEF At, Dir
<1>2. SUFFICES g \in FilesOf /\ Sealed(g) /\ Grows(Dir(o), g)
  BY IdleIsLocals DEF Good
<1>3. CASE g = Dir(o)
  BY <1>1, <1>3 DEF Grows
<1>4. CASE /\ op[o].pc \in {"write-probe", "write-bundle", "write-prepared", "write-state",
                            "write-attestation"}
           /\ g = [Dir(o) EXCEPT !.temp = TRUE]
  <2>1. ~Final(Dir(o))
    <3>1. CASE op[o].pc \in {"write-probe", "write-bundle", "write-prepared"}
      <4>1. Dir(o).state = None
        <5>1. CASE op[o].pc = "write-probe"
          BY <1>1, <5>1 DEF Preparing, NoFiles
        <5>2. CASE op[o].pc = "write-bundle"
          BY <1>1, <5>2 DEF Preparing, NoFiles
        <5>3. CASE op[o].pc = "write-prepared"
          BY <1>1, <5>3 DEF Preparing, NoFiles
        <5> QED BY <3>1, <5>1, <5>2, <5>3
      <4> QED BY <4>1 DEF Final
    <3>2. CASE op[o].pc \in {"write-state", "write-attestation"}
      <4>1. op[o].pc \in Imported
        BY <3>2 DEF Imported, OutputsFree, ReviewKept, TranscriptKept, Attested, Reported
      <4> QED BY <4>1, AtWrites
    <3> QED BY <1>4, <3>1, <3>2
  <2>2. g \in FilesOf
    BY <1>1, <1>4 DEF FilesOf
  <2>3. /\ g.probe = Dir(o).probe /\ g.bundle = Dir(o).bundle /\ g.state = Dir(o).state
        /\ g.reviewer = Dir(o).reviewer /\ g.transcript = Dir(o).transcript
        /\ g.attestation = Dir(o).attestation /\ g.report = Dir(o).report
    BY <1>1, <1>4 DEF FilesOf
  <2>4. ~Final(g)
    BY <2>1, <2>3 DEF Final
  <2> QED BY <1>1, <2>1, <2>2, <2>3, <2>4 DEF Sealed, Grows
<1>5. CASE op[o].pc = "retain-reviewer" /\ Dir(o).reviewer = None
           /\ g = [Dir(o) EXCEPT !.reviewer = Torn]
  <2>1. op[o].pc \in Imported
    BY <1>5 DEF Imported, OutputsFree
  <2>2. ~Final(Dir(o)) /\ Dir(o).attestation = None
    BY <1>5, <2>1, AtWrites DEF Attesting, OutputsFree, ReviewKept, TranscriptKept, Attested, Reported
  <2>3. g \in FilesOf
    BY <1>1, <1>5 DEF FilesOf
  <2>4. /\ g.probe = Dir(o).probe /\ g.bundle = Dir(o).bundle /\ g.state = Dir(o).state
        /\ g.transcript = Dir(o).transcript /\ g.attestation = Dir(o).attestation
    BY <1>1, <1>5 DEF FilesOf
  <2> QED BY <1>5, <2>2, <2>3, <2>4 DEF Sealed, Grows, Final
<1>6. CASE op[o].pc = "retain-transcript" /\ Dir(o).transcript = None
           /\ g = [Dir(o) EXCEPT !.transcript = Torn]
  <2>1. op[o].pc \in Imported
    BY <1>6 DEF Imported, OutputsFree, ReviewKept
  <2>2. ~Final(Dir(o)) /\ Dir(o).attestation = None
    BY <1>6, <2>1, AtWrites DEF Attesting, OutputsFree, ReviewKept, TranscriptKept, Attested, Reported
  <2>3. g \in FilesOf
    BY <1>1, <1>6 DEF FilesOf
  <2>4. /\ g.probe = Dir(o).probe /\ g.bundle = Dir(o).bundle /\ g.state = Dir(o).state
        /\ g.reviewer = Dir(o).reviewer /\ g.attestation = Dir(o).attestation
    BY <1>1, <1>6 DEF FilesOf
  <2> QED BY <1>6, <2>2, <2>3, <2>4 DEF Sealed, Grows, Final
<1>7. CASE op[o].pc = "write-report" /\ g = [Dir(o) EXCEPT !.report = Torn]
  <2>1. op[o].pc \in Imported
    BY <1>7 DEF Imported, OutputsFree, ReviewKept, TranscriptKept, Attested
  <2>2. ~Final(Dir(o))
    BY <2>1, AtWrites
  <2>3. g \in FilesOf
    BY <1>1, <1>7 DEF FilesOf
  <2>4. /\ g.probe = Dir(o).probe /\ g.bundle = Dir(o).bundle /\ g.state = Dir(o).state
        /\ g.reviewer = Dir(o).reviewer /\ g.transcript = Dir(o).transcript
        /\ g.attestation = Dir(o).attestation
    BY <1>1, <1>7 DEF FilesOf
  <2> QED BY <1>1, <2>2, <2>3, <2>4 DEF Sealed, Grows, Final
<1> QED BY <1>1, <1>3, <1>4, <1>5, <1>6, <1>7 DEF Leaves

LEMMA AbortKeeps ==
    ASSUME IInv, NEW o \in Operators, Abort(o) PROVE IInv' /\ Kept
<1>0. op[o].pc # "idle"
  BY DEF Abort
<1>1. PICK g \in Leaves(o, op[o].dir) : files' = [files EXCEPT ![op[o].dir] = g]
  BY DEF Abort
<1>2. Good(o, Idle, g)
  BY <1>0, LeavesAreSound
<1>3. used' \in [commands: 0..MaxCommands, edits: 0..MaxEdits, aborts: 0..MaxAborts]
  <2>1. /\ used \in [commands: 0..MaxCommands, edits: 0..MaxEdits, aborts: 0..MaxAborts]
        /\ used.aborts < MaxAborts /\ MaxAborts \in Nat
        /\ used' = [used EXCEPT !.aborts = @ + 1]
    BY VerdictAssumption DEF IInv, TypeOK, Abort
  <2>2. used.aborts + 1 \in 0..MaxAborts
    BY <2>1
  <2> QED BY <2>1, <2>2
<1>4. CASE ledger' = ledger
  BY <1>0, <1>1, <1>2, <1>3, <1>4, GivesUp DEF Abort
<1>5. CASE ledger' = AppendLine(Torn)
  <2> DEFINE e == [dir |-> op[o].dir, code |-> "aborted"]
  <2>1. Moves(o, Idle, g)
    BY <1>1 DEF Moves, Abort, End
  <2>2. /\ op' \in [Operators -> Locals] /\ files' \in [RunDirs -> FilesOf]
        /\ \A p \in Operators : (op[p].pc = "idle" <=> op[p] = Idle)'
        /\ OneCommand' /\ Stages' /\ Directories'
        /\ \A d \in RunDirs : Grows(files[d], files'[d])
    BY <1>0, <1>2, <2>1, MovesKeepStages
  <2>3. Lines' /\ \A d : NoLine(d) => NoLine(d)'
    BY <1>5, <2>2, TornLine
  <2>4. Idle.pc \notin Listing
    BY IdleIsLocals DEF Listing
  <2>5. Unlisted'
    BY <1>0, <1>2, <2>1, <2>3, <2>4, UnlistedStays
  <2>6. exit' = [exit EXCEPT ![o] = e]
    BY DEF Abort, End
  <2>7. e \in [dir: RunDirs \cup {None}, code: Codes] /\ e.code \notin Statuses
    BY <1>0, Here DEF Codes, Statuses
  <2> HIDE DEF e
  <2>8. Exits'
    BY <2>2, <2>6, <2>7, ExitsStay
  <2>9. ledger' \in Seq(Receipts \cup {Torn})
    BY <1>5, AppendShape DEF IInv
  <2>10. TypeOK'
    BY <1>3, <2>2, <2>6, <2>7, <2>9 DEF Abort, IInv, TypeOK
  <2> QED BY <2>2, <2>3, <2>5, <2>8, <2>10 DEF IInv, Kept
<1> QED BY <1>4, <1>5 DEF Abort

LEMMA EditKeeps == ASSUME IInv, Edit PROVE IInv' /\ Kept
<1>1. TypeOK'
  <2>1. /\ workspace \in [contract: Digests, artifact: Artifacts,
                          reviewer: Reviews, transcript: Transcripts]
        /\ used \in [commands: 0..MaxCommands, edits: 0..MaxEdits, aborts: 0..MaxAborts]
        /\ used.edits < MaxEdits /\ MaxEdits \in Nat /\ used' = [used EXCEPT !.edits = @ + 1]
    BY VerdictAssumption DEF IInv, TypeOK, Edit
  <2>2. workspace' \in [contract: Digests, artifact: Artifacts,
                        reviewer: Reviews, transcript: Transcripts]
    BY <2>1 DEF Edit, Digests
  <2>3. used.edits + 1 \in 0..MaxEdits
    BY <2>1
  <2>4. used' \in [commands: 0..MaxCommands, edits: 0..MaxEdits, aborts: 0..MaxAborts]
    BY <2>1, <2>3
  <2> QED BY <2>2, <2>4 DEF IInv, TypeOK, Edit
<1>2. Stages'
  <2> SUFFICES ASSUME NEW p \in Operators, op[p].pc # "idle"
               PROVE  At(p, op[p], files[op[p].dir], workspace')
    BY DEF Stages, Edit
  <2>1. ~Still
    BY DEF Edit, Still
  <2> QED BY <2>1 DEF IInv, Stages, At, Preparing, Verifying
<1>3. OneCommand' /\ Directories' /\ Exits' /\ Lines' /\ Unlisted'
  BY DEF Edit, IInv, OneCommand, Directories, Exits, Lines, Unlisted, NoLine
<1>4. Kept
  BY DEF Edit, Kept, Grows
<1> QED BY <1>1, <1>2, <1>3, <1>4 DEF IInv
-----------------------------------------------------------------------------
(* The invariant and what it implies *)

LEMMA InvInit == Init => IInv
<1> SUFFICES ASSUME Init PROVE IInv
  OBVIOUS
<1>1. TypeOK
  <2>1. op \in [Operators -> Locals] /\ \A o \in Operators : op[o] = Idle /\ op[o].pc = "idle"
    BY IdleIsLocals DEF Init
  <2>2. files \in [RunDirs -> FilesOf]
    BY NoFilesIsFiles DEF Init
  <2>3. exit \in [Operators -> [dir: RunDirs \cup {None}, code: Codes]]
    BY DEF Init, Codes
  <2>4. used \in [commands: 0..MaxCommands, edits: 0..MaxEdits, aborts: 0..MaxAborts]
    BY VerdictAssumption DEF Init
  <2>5. ledger \in Seq(Receipts \cup {Torn})
    BY DEF Init
  <2>6. workspace \in [contract: Digests, artifact: Artifacts,
                       reviewer: Reviews, transcript: Transcripts]
    BY DEF Init, Digests
  <2> QED BY <2>1, <2>2, <2>3, <2>4, <2>5, <2>6 DEF TypeOK
<1>2. OneCommand /\ Stages /\ Unlisted
  BY IdleIsLocals DEF Init, OneCommand, Stages, Unlisted
<1>3. Directories
  BY NoFilesIsFiles DEF Init, Directories
<1>4. Exits /\ Lines
  BY DEF Init, Exits, Lines, Statuses
<1> QED BY <1>1, <1>2, <1>3, <1>4 DEF IInv

LEMMA InvNext == ASSUME Exclusive = TRUE, IInv, [Next]_vars PROVE IInv' /\ Kept
<1>1. ASSUME NEW o \in Operators, Prepare(o) PROVE IInv' /\ Kept
  <2>1. CASE \E d \in RunDirs : StartPrepare(o, d)
    BY <2>1, StartPrepareKeeps
  <2> QED BY <1>1, <2>1, PrepareLoadKeeps, PrepareProbeKeeps, PrepareDirectoryKeeps,
             PrepareWriteProbeKeeps, PrepareSnapshotKeeps, PrepareWriteBundleKeeps,
             PrepareWriteStateKeeps DEF Prepare
<1>2. ASSUME NEW o \in Operators, Finalize(o) PROVE IInv' /\ Kept
  <2>1. CASE \E d \in RunDirs, source \in SUBSET {"reviewer", "transcript"},
                append \in LedgerModes : StartFinalize(o, d, source, append)
    BY <2>1, StartFinalizeKeeps DEF Names
  <2> QED BY <1>2, <2>1, FinalizeLoadStateKeeps, FinalizeHashContractKeeps,
             FinalizeLoadContractKeeps, FinalizeVerifyArtifactsKeeps, FinalizeVerifyProbesKeeps,
             FinalizeVerifyBundleKeeps, FinalizeImportKeeps, FinalizeCheckOutputsKeeps,
             FinalizeRetainReviewerKeeps, FinalizeRetainTranscriptKeeps,
             FinalizeWriteAttestationKeeps, FinalizeWriteReportKeeps, FinalizeRecheckLedgerKeeps,
             FinalizeAppendLedgerKeeps, FinalizeWriteStateKeeps DEF Finalize
<1>3. CASE UNCHANGED vars
  BY <1>3 DEF vars, IInv, TypeOK, OneCommand, Stages, Directories, Exits, Lines, Unlisted, NoLine,
     Kept, Grows
<1> QED BY <1>1, <1>2, <1>3, AbortKeeps, EditKeeps DEF Next

LEMMA InvHolds == ASSUME Exclusive = TRUE PROVE Spec => []IInv
<1>1. Init => IInv
  BY InvInit
<1>2. IInv /\ [Next]_vars => IInv'
  BY InvNext
<1> QED BY <1>1, <1>2, PTL DEF Spec
\* Every state is type correct.
THEOREM AuditIsTypeCorrect == ASSUME Exclusive = TRUE PROVE Spec => []TypeOK
<1>1. IInv => TypeOK
  BY DEF IInv
<1> QED BY <1>1, InvHolds, PTL

\* finalize_run attests what it retains: while the workspace is not edited under
\* a command, the bundle, the reviewer output and the transcript an attestation
\* names are those of its directory, whatever was interrupted and tried again.
THEOREM AttestedIsRetained ==
    ASSUME Exclusive = TRUE, MidCommandEdits = FALSE
    PROVE  Spec => []RetainedEvidenceIsBound
<1>1. IInv => RetainedEvidenceIsBound
  BY DEF IInv, Directories, Sealed, Still, RetainedEvidenceIsBound
<1> QED BY <1>1, InvHolds, PTL

\* The last write of finalize_run finds everything it names in place, and no
\* operator is told a disposition the directory does not hold.
THEOREM FinalStatesAreComplete == ASSUME Exclusive = TRUE PROVE Spec => []FinalStateIsComplete
<1>1. IInv => FinalStateIsComplete
  BY DEF IInv, Directories, Sealed, Final, Exits, Told, FinalStateIsComplete
<1> QED BY <1>1, InvHolds, PTL

\* A ledger line names an attestation on disk, and no attestation has two.
THEOREM ReceiptsAreTrue == ASSUME Exclusive = TRUE PROVE Spec => []ReceiptsMatch
<1>1. IInv => ReceiptsMatch
  BY DEF IInv, Lines, ReceiptsMatch
<1> QED BY <1>1, InvHolds, PTL

\* While a run directory has one command at a time, which no lock sees to, no command
\* overwrites the evidence of a directory: not a prepare, not a finalize, and not
\* one that is tried again after a crash.
THEOREM EvidenceIsKeptByOneCommandAtATime == ASSUME Exclusive = TRUE PROVE Spec => NothingOverwritten
<1>1. ASSUME IInv, [Next]_vars
      PROVE  [\A d \in RunDirs :
                 \A f \in {"probe", "bundle", "reviewer", "transcript", "attestation"} :
                    files[d][f] # None => files'[d][f] = files[d][f]]_vars
  <2> SUFFICES ASSUME NEW d \in RunDirs,
                      NEW f \in {"probe", "bundle", "reviewer", "transcript", "attestation"},
                      files[d][f] # None
               PROVE  files'[d][f] = files[d][f]
    OBVIOUS
  <2>1. IInv' /\ Grows(files[d], files'[d])
    BY <1>1, InvNext DEF Kept
  <2>2. files[d] \in FilesOf /\ files'[d] \in FilesOf
    BY <1>1, <2>1 DEF IInv, TypeOK
  <2> QED BY <2>1, <2>2 DEF Grows, FilesOf
<1> QED BY <1>1, InvHolds, PTL DEF Spec, NothingOverwritten
-----------------------------------------------------------------------------
(* AuditRun implements AttestationRecord *)

SameRecords == \A d \in RunDirs : RecordOf(d)' = RecordOf(d)

LEMMA FilesGiveRecords == ASSUME files' = files PROVE SameRecords
BY DEF SameRecords, RecordOf

\* A write that neither attests nor prepares leaves the records.
LEMMA OtherWrites ==
    ASSUME TypeOK, NEW o, op[o].dir \in RunDirs, NEW g, files' = [files EXCEPT ![op[o].dir] = g],
           g.attestation = Dir(o).attestation, g.attestation = None => g.state = Dir(o).state
    PROVE  SameRecords
<1> SUFFICES ASSUME NEW d \in RunDirs PROVE RecordOf(d)' = RecordOf(d)
  BY DEF SameRecords
<1>1. CASE d = op[o].dir
  <2>1. files'[d] = g /\ files[d] = Dir(o)
    BY <1>1 DEF TypeOK, Dir
  <2> QED BY <2>1 DEF RecordOf
<1>2. CASE d # op[o].dir
  <2>1. files'[d] = files[d]
    BY <1>2 DEF TypeOK
  <2> QED BY <2>1 DEF RecordOf
<1> QED BY <1>1, <1>2

\* A document other than the state and the attestation.
LEMMA DocumentWrites ==
    ASSUME TypeOK, NEW o \in Operators, op[o].dir \in RunDirs, NEW content,
           NEW file \in {"probe", "bundle", "reviewer", "transcript", "report"},
           Write(o, file, content)
    PROVE  SameRecords
<1> DEFINE g == [Dir(o) EXCEPT ![file] = content]
<1>1. Dir(o) \in FilesOf
  BY DEF TypeOK, Dir
<1>2. files' = [files EXCEPT ![op[o].dir] = g]
  BY DEF Write, Dir, TypeOK
<1>3. g.attestation = Dir(o).attestation /\ g.state = Dir(o).state
  BY <1>1 DEF FilesOf
<1> QED BY <1>2, <1>3, OtherWrites

LEMMA RetainRecords ==
    ASSUME IInv, NEW o \in Operators, NEW file \in {"reviewer", "transcript"}, NEW pc, NEW next,
           pc # "idle", Retain(o, file, pc, next)
    PROVE  SameRecords
<1>1. op[o].dir \in RunDirs
  BY Here DEF Retain
<1>2. CASE files' = files
  BY <1>2, FilesGiveRecords
<1>3. CASE Write(o, file, workspace[file])
  BY <1>1, <1>3, DocumentWrites DEF IInv
<1> QED BY <1>2, <1>3 DEF Retain

LEMMA AbortRecords == ASSUME IInv, NEW o \in Operators, Abort(o) PROVE SameRecords
<1>1. PICK g \in Leaves(o, op[o].dir) : files' = [files EXCEPT ![op[o].dir] = g]
  BY DEF Abort
<1>2. op[o].dir \in RunDirs /\ Dir(o) \in FilesOf /\ Dir(o) = files[op[o].dir]
  BY Here DEF Abort, Dir
<1>3. g.attestation = Dir(o).attestation /\ g.state = Dir(o).state
  BY <1>2 DEF Leaves, FilesOf
<1> QED BY <1>1, <1>2, <1>3, OtherWrites DEF IInv

\* The last write of finalize comes after the attestation.
LEMMA WriteStateRecords == ASSUME IInv, NEW o \in Operators, FinalizeWriteState(o) PROVE SameRecords
<1>1. op[o].pc = "write-state" /\ op[o].pc \in Imported
  BY DEF FinalizeWriteState, Imported, OutputsFree, ReviewKept, TranscriptKept, Attested, Reported
<1>2. op[o].dir \in RunDirs /\ Dir(o) \in FilesOf /\ Dir(o).attestation # None
  BY <1>1, AtWrites, AttestationIsTyped, DistinctAssumption DEF Attesting, Attested, Reported
<1>3. PICK s : Write(o, "state", s)
  BY DEF FinalizeWriteState
<1> DEFINE g == [Dir(o) EXCEPT !.state = s]
<1>4. files' = [files EXCEPT ![op[o].dir] = g]
  BY <1>2, <1>3 DEF Write, Dir, IInv, TypeOK, FilesOf
<1>5. g.attestation = Dir(o).attestation /\ g.attestation # None
  BY <1>2 DEF FilesOf
<1> QED BY <1>2, <1>4, <1>5, OtherWrites DEF IInv

\* prepare commits with the write of the state.
LEMMA PrepareIsPrepare ==
    ASSUME MidCommandEdits = FALSE, IInv, NEW o \in Operators, PrepareWriteState(o),
           NEW d, d = op[o].dir
    PROVE  Record!Prepare(d)
<1> DEFINE s == [state |-> "awaiting_review", run |-> <<o, op[o].dir>>,
                 contract |-> workspace.contract, manifest |-> op[o].manifest,
                 probe |-> op[o].probe, bundle |-> BundleOf(o),
                 attestation |-> None, reviewer |-> None, transcript |-> None]
<1>0. op[o].pc = "write-prepared" /\ op[o].pc # "idle"
  BY DEF PrepareWriteState
<1>1. /\ op[o] \in Locals /\ Preparing(o, op[o], Dir(o), workspace)
      /\ d \in RunDirs /\ workspace.contract \in Digests /\ Dir(o) \in FilesOf
  BY <1>0, Here DEF At
<1>2. /\ Dir(o).state = None /\ Dir(o).attestation = None
      /\ op[o].contract = workspace.contract /\ op[o].manifest = workspace.artifact
      /\ op[o].probe = workspace.artifact /\ op[o].snapshot = workspace.artifact
  <2>1. Dir(o) = [NoFiles EXCEPT !.probe = op[o].probe, !.bundle = BundleBy(o, op[o])]
    BY <1>0, <1>1 DEF Preparing
  <2>2. Dir(o).state = None /\ Dir(o).attestation = None
    BY <2>1 DEF NoFiles
  <2> QED BY <1>0, <1>1, <2>2 DEF Preparing, Parsed, Probed, Typed, Still
<1>3. s \in States
  <2>1. /\ op[o].contract \in Contracts /\ op[o].manifest \in Artifacts
        /\ op[o].probe \in Artifacts /\ op[o].digest \in Digests /\ op[o].snapshot \in Artifacts
    BY <1>0, <1>1 DEF Preparing, Parsed, Probed, Typed
  <2>2. BundleOf(o) \in Bundles
    BY <1>1, <2>1 DEF BundleOf, Bundles, RunIds
  <2> QED BY <1>1, <2>1, <2>2 DEF States, RunIds
<1>4. s # None
  BY <1>3, DistinctAssumption
<1>5. /\ s.contract = workspace.contract /\ s.manifest = workspace.artifact
      /\ s.bundle.claims = workspace.contract /\ s.bundle.snapshot = workspace.artifact
      /\ s.bundle.probe = workspace.artifact
  BY <1>2 DEF BundleOf
<1>6. files' = [files EXCEPT ![d] = [Dir(o) EXCEPT !.state = s]]
  BY <1>1 DEF PrepareWriteState, Write, Dir, IInv, TypeOK, FilesOf
<1> HIDE DEF s
<1>7. files'[d].state = s /\ files'[d].attestation = None
  BY <1>1, <1>2, <1>6 DEF FilesOf, IInv, TypeOK
<1>8. RecordOf(d) = [phase |-> "none"]
  BY <1>2 DEF RecordOf, Dir
<1>9. RecordOf(d)' = [phase |-> "prepared",
                      bound |-> [contract |-> workspace.contract, artifact |-> workspace.artifact],
                      shown |-> [contract |-> workspace.contract, artifact |-> workspace.artifact,
                                 probed |-> workspace.artifact],
                      status |-> "none"]
  BY <1>4, <1>5, <1>7 DEF RecordOf
<1>10. \A e \in RunDirs \ {d} : RecordOf(e)' = RecordOf(e)
  <2>1. \A e \in RunDirs \ {d} : files'[e] = files[e]
    BY <1>6 DEF IInv, TypeOK
  <2> QED BY <2>1 DEF RecordOf
<1>11. workspace' = workspace
  BY DEF PrepareWriteState
<1> QED BY <1>1, <1>8, <1>9, <1>10, <1>11 DEF Record!Prepare

\* finalize commits with the write of the attestation.
LEMMA AttestationIsAttest ==
    ASSUME MidCommandEdits = FALSE, IInv, NEW o \in Operators, FinalizeWriteAttestation(o),
           NEW d, d = op[o].dir
    PROVE  Record!Attest(d)
<1> DEFINE a == AttestationOf(o)
           s == op[o].state
<1>0. op[o].pc = "write-attestation" /\ op[o].pc \in Imported
  BY DEF FinalizeWriteAttestation, Imported, OutputsFree, ReviewKept, TranscriptKept
<1>1. /\ d \in RunDirs /\ Dir(o) \in FilesOf /\ s \in States /\ s = Dir(o).state
      /\ Verdict[op[o].review] \in Statuses
  BY <1>0, AtWrites
<1>2. Dir(o).attestation = None
  BY <1>0, AtWrites DEF Attesting, OutputsFree, ReviewKept, TranscriptKept, Attested, Reported
<1>3. workspace.contract = s.contract /\ workspace.artifact = s.manifest
  <2>1. op[o].pc \in ContractVerified /\ op[o].pc \in ArtifactsVerified
    BY <1>0 DEF ContractVerified, ContractLoaded, ArtifactsVerified, ProbesVerified, BundleVerified
  <2>2. Verifying(op[o], Dir(o), workspace)
    BY <1>0, AtWrites
  <2> QED BY <2>1, <2>2 DEF Verifying, Still
<1>4. a \in Attestations /\ a # None /\ s # None
  BY <1>0, <1>1, AttestationIsTyped, DistinctAssumption
<1>5. /\ a.contract = s.contract /\ a.manifest = s.manifest /\ a.bundle = s.bundle
      /\ a.status \in Statuses
  BY <1>1 DEF AttestationOf
<1> HIDE DEF a
<1>6. files' = [files EXCEPT ![d] = [Dir(o) EXCEPT !.attestation = a]]
  BY <1>1 DEF FinalizeWriteAttestation, Write, Dir, IInv, TypeOK, FilesOf, a
<1>7. files'[d].attestation = a
  BY <1>1, <1>6 DEF FilesOf, IInv, TypeOK
<1>8. RecordOf(d) =
         [phase |-> "prepared",
          bound |-> [contract |-> s.contract, artifact |-> s.manifest],
          shown |-> [contract |-> s.bundle.claims, artifact |-> s.bundle.snapshot,
                     probed |-> s.bundle.probe],
          status |-> "none"]
  BY <1>1, <1>2, <1>4 DEF RecordOf, Dir
<1>9. RecordOf(d)' =
         [phase |-> "attested",
          bound |-> [contract |-> s.contract, artifact |-> s.manifest],
          shown |-> [contract |-> s.bundle.claims, artifact |-> s.bundle.snapshot,
                     probed |-> s.bundle.probe],
          status |-> a.status]
  BY <1>4, <1>5, <1>7 DEF RecordOf
<1>11. RecordOf(d).phase = "prepared"
       /\ RecordOf(d).bound = [contract |-> workspace.contract, artifact |-> workspace.artifact]
  BY <1>3, <1>8
<1>12. \A e \in RunDirs \ {d} : RecordOf(e)' = RecordOf(e)
  <2>1. \A e \in RunDirs \ {d} : files'[e] = files[e]
    BY <1>6 DEF IInv, TypeOK
  <2> QED BY <2>1 DEF RecordOf
<1>13. workspace' = workspace
  BY DEF FinalizeWriteAttestation
<1> DEFINE r == [e \in RunDirs |-> RecordOf(e)]
           b == [contract |-> s.contract, artifact |-> s.manifest]
           h == [contract |-> s.bundle.claims, artifact |-> s.bundle.snapshot,
                 probed |-> s.bundle.probe]
<1> HIDE DEF s, b, h
<1>14. r' = [r EXCEPT ![d] = [phase |-> "attested", bound |-> b, shown |-> h, status |-> a.status]]
  BY <1>1, <1>9, <1>12 DEF b, h
<1>15. r[d] = [phase |-> "prepared", bound |-> b, shown |-> h, status |-> "none"]
  BY <1>1, <1>8 DEF b, h
<1>18. d \in DOMAIN r
  BY <1>1
<1> HIDE DEF r
<1>16. r' = [r EXCEPT ![d].phase = "attested", ![d].status = a.status]
  <2> DEFINE x == [r[d] EXCEPT !.phase = "attested"]
             q == [r EXCEPT ![d] = x]
  <2>1. x = [phase |-> "attested", bound |-> b, shown |-> h, status |-> "none"]
    BY <1>15
  <2>2. q[d] = x
    BY <1>18
  <2>3. ASSUME NEW y PROVE [q EXCEPT ![d] = y] = [r EXCEPT ![d] = y]
    BY <1>18
  <2>4. [r EXCEPT ![d].phase = "attested", ![d].status = a.status]
          = [q EXCEPT ![d] = [q[d] EXCEPT !.status = a.status]]
    BY <1>18
  <2> HIDE DEF x
  <2>5. [x EXCEPT !.status = a.status]
          = [phase |-> "attested", bound |-> b, shown |-> h, status |-> a.status]
    BY <2>1
  <2> HIDE DEF q
  <2>6. [q EXCEPT ![d] = [q[d] EXCEPT !.status = a.status]]
          = [r EXCEPT ![d] = [phase |-> "attested", bound |-> b, shown |-> h, status |-> a.status]]
    BY <2>2, <2>3, <2>5
  <2> QED BY <2>4, <2>6, <1>14
<1>17. r[d].phase = "prepared"
       /\ r[d].bound = [contract |-> workspace.contract, artifact |-> workspace.artifact]
  BY <1>1, <1>11 DEF r
<1> QED BY <1>5, <1>13, <1>16, <1>17 DEF Record!Attest, r
LEMMA PrepareRecords ==
    ASSUME MidCommandEdits = FALSE, IInv, NEW o \in Operators, Prepare(o)
    PROVE  SameRecords \/ \E d \in RunDirs : Record!Prepare(d)
<1>1. CASE \/ \E d \in RunDirs : StartPrepare(o, d)
           \/ PrepareLoad(o) \/ PrepareProbe(o) \/ PrepareDirectory(o) \/ PrepareSnapshot(o)
  <2>1. files' = files
    BY <1>1 DEF StartPrepare, PrepareLoad, PrepareProbe, PrepareDirectory, PrepareSnapshot
  <2> QED BY <2>1, FilesGiveRecords
<1>2. CASE PrepareWriteProbe(o)
  BY <1>2, Here, DocumentWrites DEF PrepareWriteProbe, IInv
<1>3. CASE PrepareWriteBundle(o)
  BY <1>3, Here, DocumentWrites DEF PrepareWriteBundle, IInv
<1>4. CASE PrepareWriteState(o)
  BY <1>4, Here, PrepareIsPrepare DEF PrepareWriteState
<1> QED BY <1>1, <1>2, <1>3, <1>4 DEF Prepare

LEMMA FinalizeRecords ==
    ASSUME MidCommandEdits = FALSE, IInv, NEW o \in Operators, Finalize(o)
    PROVE  SameRecords \/ \E d \in RunDirs : Record!Attest(d)
<1>1. CASE \/ \E d \in RunDirs, source \in SUBSET {"reviewer", "transcript"},
                 append \in LedgerModes : StartFinalize(o, d, source, append)
           \/ FinalizeLoadState(o) \/ FinalizeHashContract(o) \/ FinalizeLoadContract(o)
           \/ FinalizeVerifyArtifacts(o) \/ FinalizeVerifyProbes(o) \/ FinalizeVerifyBundle(o)
           \/ FinalizeImport(o) \/ FinalizeCheckOutputs(o) \/ FinalizeRecheckLedger(o)
           \/ FinalizeAppendLedger(o)
  <2>1. files' = files
    BY <1>1 DEF StartFinalize, FinalizeLoadState, FinalizeHashContract, FinalizeLoadContract,
       FinalizeVerifyArtifacts, FinalizeVerifyProbes, FinalizeVerifyBundle, Verify,
       FinalizeImport, FinalizeCheckOutputs, FinalizeRecheckLedger, FinalizeAppendLedger
  <2> QED BY <2>1, FilesGiveRecords
<1>2. CASE FinalizeRetainReviewer(o)
  BY <1>2, RetainRecords DEF FinalizeRetainReviewer
<1>3. CASE FinalizeRetainTranscript(o)
  BY <1>3, RetainRecords DEF FinalizeRetainTranscript
<1>4. CASE FinalizeWriteAttestation(o)
  BY <1>4, Here, AttestationIsAttest DEF FinalizeWriteAttestation
<1>5. CASE FinalizeWriteReport(o)
  BY <1>5, Here, DocumentWrites DEF FinalizeWriteReport, IInv
<1>6. CASE FinalizeWriteState(o)
  BY <1>6, WriteStateRecords
<1> QED BY <1>1, <1>2, <1>3, <1>4, <1>5, <1>6 DEF Finalize

\* While the workspace is not edited under a command, a run directory's record is
\* prepared once, on evidence shown as it is bound, and attested at most once on
\* that same evidence, through interruptions anywhere in prepare_run and
\* finalize_run and through commands over other directories.
THEOREM AuditImplementsRecord ==
    ASSUME Exclusive = TRUE, MidCommandEdits = FALSE
    PROVE  Spec => ImplementsRecord
<1>1. Init => Record!Init
  BY DEF Init, Record!Init, RecordOf, NoFiles
<1>2. ASSUME IInv, [Next]_vars PROVE [Record!Next]_(Record!vars)
  <2>1. ASSUME SameRecords PROVE Record!Change
    BY <2>1 DEF SameRecords, Record!Change
  <2>2. CASE \E o \in Operators : Prepare(o)
    BY <1>2, <2>1, <2>2, PrepareRecords DEF Record!Next
  <2>3. CASE \E o \in Operators : Finalize(o)
    BY <1>2, <2>1, <2>3, FinalizeRecords DEF Record!Next
  <2>4. CASE \E o \in Operators : Abort(o)
    BY <1>2, <2>1, <2>4, AbortRecords DEF Record!Next
  <2>5. CASE Edit \/ UNCHANGED vars
    BY <2>1, <2>5, FilesGiveRecords DEF Edit, vars, Record!Next
  <2> QED BY <1>2, <2>2, <2>3, <2>4, <2>5 DEF Next
<1>3. Spec => []IInv
  BY InvHolds
<1> QED BY <1>1, <1>2, <1>3, PTL DEF Spec, ImplementsRecord, Record!Spec
=============================================================================
