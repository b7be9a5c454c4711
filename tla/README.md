# Verification of Validity Audit

Validity Audit asks an independent reviewer for evidence about a finished piece
of work and turns the answer into an attestation. `prepare` binds a contract,
artifacts and probe results into a bundle; a reviewer outside the program
answers it; `finalize` checks that nothing moved, judges the answer by a fixed
policy, and writes an attestation, a report and a ledger line. A third part,
the FBPA probe, runs the claimed tests of a pull request before and after the
change and reports what that shows.

What makes the program worth trusting is that it never claims more than the
evidence carries. This directory states that in TLA+: the lifecycle, the policy
and the probe, and the programs around them, as state machines translated from
the Python source, what each promises as properties, a TLC configuration for
each question, and TLAPS proofs of the most important promises for every value
of the constants.

Paths below are relative to the repository (`src/...` is its root here).

## 1. The system

| Component | Source | State it keeps | Operations | Modelled by |
|---|---|---|---|---|
| Audit lifecycle | `validity_audit/runtime.py` | a run directory (probe report, bundle, `run_state.json`, retained reviewer output and transcript, attestation, report) and the ledger `attestations.jsonl` | `prepare_run`, `finalize_run` | `AuditRun`, `AttestationRecord` |
| Evidence discipline | `validity_audit/evidence.py` | none | kind ladder, coverage, gating of a claim outcome, binding and consistency of evidence | `EvidenceDiscipline` |
| Review import and policy | `runtime._review_findings`, `_claim_results`, `policy.py` | effects, waivers not yet used, gates, pending flags | import, gate claims, apply overrides, gate findings, decide | `Policy`, `PolicyDecision` |
| FBPA probe | `validity_audit/fbpa.py` | temporary directories, git worktrees, runs, claim reports | `run_fbpa` with its claims, verdicts, findings and accounting, and its clean-up | `FbpaVerdict`, `FbpaReport`, `FbpaProbe`, `ReportUse`, `FbpaWorktrees` |
| FBPA checkouts | `fbpa._overlay_test_files`, `_non_test_diff_count`, `_discover_claims` | the files of the base worktree | overlay head's tests, count changed files, find changed tests | `FbpaTrees` |
| Process runner of FBPA | `fbpa._run_limited` | process group, systemd scope, pipes | run under a time and a memory limit | `LimitedRun` |
| Symbol tables of FBPA | `fbpa._SymbolIndex`, `_Attributor`, `_reference_closure` | caches of expanded modules | does base or head define a name, can a test reach it | `SymbolTables`, `Attribution` |
| Miss ledger | `validity_audit/ledger.py` | a JSONL file | append, load, choose challenges | `MissLedger` |
| FBPA history driver | `benchmarks/fbpa_history/run.py` | clones, one result file per pull request | a resumable loop | `HistoryDriver` |
| FBPA history table | `benchmarks/fbpa_history/table.py` | none | check the reports, tabulate | its consistency check, in `ReportUse` |
| Golden scorer, recall benchmark | `benchmarks/golden/score.py`, `benchmarks/injected/run.py` | none | score | no: pure, or a straight script |
| Deterministic probes | `validity_audit/probes.py` | none | checks over text and paths | as a function of the bytes read |
| Command line, schemas, templates | `cli.py`, `schemas/`, `protocol/` | none | parse, print, validate | exit codes and the schema conditions the policy needs |

### How the parts interact

- The CLI calls `prepare_run` and `finalize_run`. They share nothing in memory:
  everything between the two goes through the run directory, and anything else
  on the machine can change the workspace in between, or while either runs.
- `finalize_run` calls the deterministic probes again and compares, imports the
  reviewer output, has `evidence.py` gate each claim and `policy.py` decide, and
  writes. `AuditRun` takes that decision as the constant `Verdict`; `Policy` is
  what computes it.
- The probe asks the symbol tables of two worktrees about every message a test
  fails with; `FbpaVerdict` takes the answers as part of a test case, and
  `Attribution` is what computes them. It runs every pytest process through
  `_run_limited`; `FbpaVerdict!Run` takes exit code and timeout, and
  `LimitedRun` is what produces them.
- Probe findings come into the policy as findings of their own, ahead of the
  reviewer's (`Policy!Findings == probes \o output.findings`). FBPA findings
  have the same form. `ReportUse` composes the two: the report of `FbpaProbe`
  goes through `PolicyDecision` together with a reviewer who agrees, and
  `DispositionIsEarned` follows it from the pytest processes to the disposition.
- The history driver runs the probe once per pull request and the table reads
  its reports. The two share result files, and the driver shares them with its
  own later runs.
- There are no locks: run directories and both ledgers are protected by checks
  before writes, appending and atomic renames of single files.

### What is hard here

- *Time of check and time of use.* `prepare` reads the contract three times and
  the artifacts three times; `finalize` reads the transcript twice and the
  ledger twice. Every other process can write in between.
- *Crashes.* Seven files and a ledger line are written one by one. A crash can
  fall between any two and inside a copy or an append. The miss ledger promises
  durability, the history driver that finished work survives an interruption.
- *Several operators.* Two commands on one directory, one ledger or one
  attestation id.
- *Order.* The policy is a series of loops with early exits, popped waivers and
  overrides that replace each other; its result must not depend on the order a
  reviewer chose.
- *Unreliable observations.* A pytest process can be killed, time out, import
  the wrong checkout, fail to collect, lie with its exit code, or give another
  answer the next time. The probe may neither clear nor convict on any of it.
- *Processes.* The command under test forks, leaves its process group, ignores
  signals, holds pipes open and dies of memory, while two timers and a service
  manager run against it. The runner must return, tell what happened from a few
  exit codes, and leave nothing alive it could have killed.
- *Names.* Star imports form cycles, caches are filled in the order messages
  arrive, several classes bear one name. An `absent` that is wrong makes a
  failing test count as a missing name.
- *Partial failure.* git, the overlay of test files or one claim can fail in
  the middle of a probe, and every step of its clean-up can fail unnoticed; the
  audited repository should be left as it was.

### What makes each part correct

- Lifecycle: a run is prepared once, attested at most once, on evidence the
  workspace still holds; evidence is never replaced; what is retained is what
  is bound; receipts match attestations; a reported disposition is on disk.
- Evidence and policy: a pass is earned by evidence that carries every claim, a
  fail needs a proven finding, no waiver is ignored or used on nothing, and the
  verdict is a function of the *sets* of findings, results and waivers.
- FBPA: a claim without a finding was demonstrated; a conviction was measured;
  flakiness and environment faults are never a result about the author; the
  accounting adds up; of what it made only what cannot be removed stays.
- Runner: it always returns; a result that is no timeout is whole; what the
  runner killed reads as a timeout; no process stays in the group or the scope.
- Checkouts and symbol tables: head's tests meet base's implementation and
  nothing else; a name is called absent exactly if base cannot bind it and head
  does, whatever was asked before.
- Ledger and driver: what was reported as written stays readable and durable;
  success means a result for everything asked for; finished work is kept.

## 2. The modules

```
EvidenceDiscipline  <-- Policy --refines--> PolicyDecision     (MCPolicy; PolicyProofs)
AuditRun --refines--> AttestationRecord                        (MCAuditRun; AuditRunProofs)
FbpaVerdict <-- FbpaReport <-- FbpaProbe <-- ReportUse          (MCFbpaProbe; FbpaProbeProofs)
                                             ReportUse --instantiates--> PolicyDecision
LimitedRun                                                     (MCLimitedRun; LimitedRunProofs)
FbpaTrees                                                      (MCTrees; FbpaTreesProofs)
SymbolTables <-- Attribution                                   (MCAttribution; AttributionProofs)
FbpaWorktrees                                                  (FbpaTreesProofs)
MissLedger                                                     (MissLedgerProofs)
HistoryDriver                                                  (HistoryDriverProofs)
MCOnDisk: MCTrees, MCAttribution, FbpaWorktrees, MissLedger and HistoryDriver side by side
```

Definitions keep the names of the code where they have one (`GatedOutcome`,
`Verify`, `Retain`, `ComponentsCharacterizes`). Definitions headed
`\* Mutant:` are plausible mistakes in the definition that follows them, used
to show that a property notices. `PROJECT.json` maps every definition to its
lines.

### EvidenceDiscipline

`evidence.py` as operators on records. An evidence item keeps its id, kind, the
claims it covers and its search coverage; note texts are gone.

### Policy and PolicyDecision

`Policy` is `finalize_run` between reading the reviewer output and building the
attestation. `pc` names the loop the code is in; each check that raises is a
`Refuse...` action, each loop iteration an action of its own:

| State or action | Code |
|---|---|
| `contract`, `output`, `probes` | the three inputs, fixed during the run |
| `outcomes`, `GateClaim`, `RefuseClaim` | the loop of `_claim_results` |
| `effects`, `applied`, `ApplyOverride` | the loop of `policy._effects` |
| `waiting`, `gates`, `pending`, `GateFinding`, `RefuseWaiver` | the loop of `evaluate_policy`: `waiver_by_finding`, the listed gate effects, the two `pending_*` flags |
| `ImportReview`, `AcceptPolicyInput` and their refusals | the checks before the loops |
| `Decide`, `Disposition` | the end of `evaluate_policy` |

`PolicyDecision` is what the README and the docstrings promise, over sets: one
step from `"none"` to `Verdict`. It mentions no loop, index or popped waiver.
`Policy!D` instantiates it with `verdict` refined to `status` or `"refused"`,
and `ImplementsDecision` says that every run is one such step.

### AuditRun and AttestationRecord

One action per read or write that something else can fall between. A file is
its content, a digest is the content it digests. `op[o]` holds the locals of
operator `o`'s command: what it read, and when, is what these properties are
about. `StartFinalize` lets the operator name the retained copies as sources,
which is how a run interrupted after the retention is tried again. `Abort` ends
a command anywhere, with what a cut-short write may leave (`Leaves`): nothing or
a temporary file for the atomic writes, a part for copies, the report and the
ledger line. `Edit` is anybody changing the workspace.

`AttestationRecord` has no files and no commands: a directory is prepared once,
on what the workspace holds and showing the reviewer just that, and attested at
most once, while the workspace still holds it. Under the refinement `RecordOf`,
`prepare` commits by writing `run_state.json` and `finalize` by writing
`attestation.json`; every other step, crash included, must stutter.

### FbpaVerdict, FbpaReport and FbpaProbe

`FbpaVerdict` reads runs: fault or kind of a run (`_classify_run`), the label of
a case (`_classify_case`), the synthesis of a side, the comparison of repeats
(`_judge_side`, `_case_signature`) and the components of a claim. A test case
carries, in place of its text, the exception class and what the symbol tables
say of the message. `FbpaReport` turns components into findings, advice, buckets
and accounting. `FbpaProbe` is `run_fbpa` around them: everything up to the first
claim, which succeeds or raises (`SetUp`), the claims with their repeats, the
report. `log` is a history variable: it keeps the runs each claim was judged by,
so that the properties look at what happened and not at labels.

### ReportUse

`FbpaProbe` with what is made of its report: the findings as the policy imports
them, a contract with one claim, a reviewer who supports it, any effects the
contract may give the two classes and waivers for whatever was reproduced;
`PolicyDecision!Verdict` decides. `Problems` is `_check_consistency` of the
history table.

### LimitedRun

Four parties interleave: the runner (`Popen` ... `Return`, one action per
statement that blocks, signals or can raise), `timeout(1)` (`Alarm`,
`TimeoutExits`), the command and what it forks (`Fork`, `Setsid`,
`CloseOutput`, `Exit`), and the systemd user manager (`ManagerKills`). `clock`
counts the deadlines that have passed, and `Tick` may come between any two
steps, so that every race between a deadline and an exit is among the behaviours.
`group` and `pipe` are the living members of the process group and holders of the
pipes: a process that called `setsid` leaves the first and may keep the second,
which is what makes `communicate()` wait for it.

The command may end with any status the code gives a meaning to: 0, 1 (for all
others), the 124 and 137 of `timeout(1)`, or by a signal. Signals come from the
timers, from the memory limiter (`OutOfMemory`, systemd's only), and from
anywhere else (`KilledElsewhere`, `TerminatedElsewhere`: the test itself, the
machine's OOM killer, an operator). A signal that is not SIGKILL may be ignored,
by other processes each time. A process that died may be forked again, so that
only how many live at once is bounded. `blame` is a history variable that keeps
who sent the SIGKILL that decides the status, which the code cannot know.
`Interrupt` is an exception in the `try`, `InterruptCleanUp` one in its `finally`
clause, which nothing guards.

### SymbolTables and Attribution

An index is a finite structure in place of the parsed files: what each module
binds and star-imports, `__all__`, the classes with their base names.
`SymbolTables` follows `module_names` and `class_has` with their recursion, their
treatment of cycles and their caches; `Attribution` is the attributor over two
such indexes: messages arrive in any order and `Ask` answers one with the caches
the earlier ones filled. Its last part is the search of `_reference_closure`, a
work list in an order the code does not fix.

### FbpaTrees

Two commits are functions from paths to a file, a link or nothing. `Overlay`
copies one test file at a time in any order and unlinks a link first,
`DeleteStale` removes base's other test files, `CountNonTest` is
`_non_test_diff_count` over what `git diff --name-only` prints (`Changed`, with
`DetectRenames` and `Quoted` as constants), `Discover` is `_discover_claims`.
Text is known by its syntax tree and the tests pytest would collect from it.

### FbpaWorktrees

What `run_fbpa` makes and removes: three temporary directories before the `try`,
two worktrees, and the `finally` clause, one action per call of it (`GitRemove`,
`GitPrune`, `RemoveTree` for each worktree held, `RemoveParent` for each
directory). None of them looks whether the one before succeeded. What can go
wrong is chosen where it comes from: `AddWorktree` fails before or after git has
registered the worktree (a failing `post-checkout` hook); `Probe`, everything from
the overlay to the last claim, leaves `stuck` things `rmtree` cannot remove (an
undeletable file, or a process that escaped and goes on writing), `spoiled`
worktrees whose `.git` file is broken or gone, and perhaps a repository git fails
on. `Interrupt` cuts the clean-up short. A worktree is a directory (`disk`) and an
entry in the user's repository (`registered`), and either may stay without the
other.

### MissLedger and HistoryDriver

The ledger file is a sequence of *pieces*, one per write that reached it; a piece
that does not end its line runs into the next. `Load`, `Write`, `Sync` are the
three points of `append_record` between which others may act; `WriteFails`,
`Abandon` and `Crash` end one early. `HistoryDriver` is the loop of
`run.py`: start with some arguments, skip what has a result, clone, probe, open,
write, close, and again; `Kill`, `Interrupt`, a failing clone, a raising probe,
a full disk and a crash of the machine that loses unsynced results.

## 3. The runs

| Run | Shows | Distinct states |
|---|---|---|
| `policy` | every review of three families is refused or decided; the decision is `PolicyDecision`'s; pass is earned, fail is proven, waivers are consumed, the schema conditions hold | 58,915 |
| `audit` | two operators, two directories, an edit between commands, one interruption anywhere | 871,190 |
| `fbpa` | one claim of each kind against every pair of runs on both sides, two repeats; no claim or two; the policy's disposition of each report | 832,220 |
| `limited` | a command with up to two live descendants, every exit status and kill, against both limiters and every deadline | 89,985 |
| `on_disk` | every arrangement of star imports, class bases and helpers of the families; every pair of small commits; every way the clean-up may fail; two appends on a ledger of three pieces; a driver over two pull requests, run again and again | 594,614 |
| `audit_claims`, `audit_retry`, `audit_overwrite`, `fbpa_interrupted`, `fbpa_symbol`, `trees_diff`, `limited_oom` | seven disagreements between documentation and code (section 4) | until found |

### Properties of the passing runs

- `PassIsEarned`, `FailIsProven`, `WaiversConsumed`, `AttestationSchemaHolds`
  (policy): stated with the set-based vocabulary of `PolicyDecision`, not with
  the loop variables that implement them.
- `ImplementsDecision`, `ImplementsRecord`: the refinements of section 2.
- `RetainedEvidenceIsBound`, `ReceiptsMatch`, `FinalStateIsComplete`,
  `NothingOverwritten` (audit): relate files of different commands, the ledger
  and what operators were told, across crashes and retries.
- `CleanIsEarned`, `ConvictionIsMeasured`, `FlakyIsCaught`,
  `EnvironmentIsNeverAdvice` (fbpa): each compares the report with the recorded
  runs. `FailsBefore` and `PassesAfter` are read from cases directly.
- `DispositionIsEarned`, `AccountingAddsUp` (fbpa): from the test runs to pass,
  fail or human review (whatever is overridden or waived, a pass needs a judged
  claim and leaves nothing about the author's claims unreproduced; by default each
  of them was shown, or has findings that all say a name was missing); the whole
  report over any mix of claims.
- `OnlyEscapeesSurvive`, `MeasurementIsWhole`, `KillsAreToldApart`,
  `AlwaysReturns`, `ScopeEmpties` (limited). `KillsAreToldApart` says what the code
  can tell: what its own timers killed is a timeout, and a SIGKILL that is no
  timeout was not theirs. Whose it was it cannot tell (`limited_oom`).
- `AbsenceIsExact`, `ClassAbsenceIsCertain`, `ClosureIsReachability`
  (on_disk): the lookups against definitions by paths (a name is bound along a
  chain of star imports, a definition is reachable from the test), from every
  state the caches can be in. `OverlayIsExact`, `CountIsExact`,
  `DiscoveryIsExact`: the worktree, the count and the discovered tests against
  the two commits. `CountIsExact` is about git as it is run, with rename detection
  and quoted names: zero means that what is outside the tests is as it was but for
  layout, or may have been moved into the tests; another count that it changed or
  that a name was quoted. Either exception is a way the count is wrong.
- `OnlyWhatResistsStays` (on_disk): however the probe ends and whichever steps of
  the clean-up fail, a directory stays only if it holds something that cannot be
  removed, and an entry in the repository only for a worktree whose hook failed or
  that git would not remove. One thing that fails keeps nothing else.
- `NothingAppendedIsLost`, `DamageHasACause`, `DurableIsKept`,
  `ChallengesAreTheWorst` (on_disk, the ledger); `SuccessMeansMeasured`,
  `CompletedWorkIsKept`, `ClonesAreRemoved` (on_disk, the driver).

### Bounds, and why they are enough

- *policy.* Inputs are three families (`MCPolicy`). Findings: none or one with
  each default effect, proven or not, high or low, with and without an absence
  conclusion, and a second, high one; up to two waivers (active, expiring in the
  instant of the attestation, wrong issuer, out of order, duplicate) and
  overrides that replace each other in either direction. Two findings are enough
  for one waiver to hide another's gate and for orders to differ. Evidence: every
  single item over kind, coverage and search, and each of these beside a complete
  note or command, under every requirement of a claim, so that two items may each
  hold half of a proof. Legacy: every version pair, duplicate and missing
  results. The theorems of section 6 remove these bounds.
- *audit.* `MaxCommands = 4` is two commands on each of two directories, or a
  prepare, a failed finalize and a retry; `MaxAborts = 1` puts one interruption
  at any step of any of them; `MaxEdits = 1` changes any one file between
  commands. Contents come in pairs, as the code only compares for equality.
  `SYMMETRY` permutes operators, directories and contents that `Verdict` does
  not tell apart; the run has no liveness property, for which that would be
  unsound. `SharedId = FALSE`, `MidCommandEdits = FALSE` and `Exclusive = TRUE`
  state the conditions under which the properties hold: distinct attestation
  ids, a workspace at rest while a command runs, one command per directory at a
  time. Each is lifted in a run that shows what becomes of it: `audit_retry`,
  `audit_claims` and `audit_overwrite`.
- *fbpa.* `Repeats = 2` is the least with which runs can disagree. One function
  has two cases, so that outcomes mix and one can be missing. `ThoroughBase`
  holds each way a case can end alone and in the pairs that matter for the
  synthesis, failures of collection and of `conftest.py` with every attribution,
  and the oddities: killed, timed out, usage error, no report, contradictory
  exit codes, the wrong checkout, interrupted after one case. Two names to miss
  (`x`, `y`) are enough for two repeats to name different ones. The theorems of
  section 6 remove these bounds. Two claims of any intent, discovered or not, land in different buckets, with
  fewer outcomes each. Every report meets every pair of overrides and waivers that
  matters.
- *limited.* Two descendants alive at once: one can hold the pipes while the other
  has left the group, and an escapee can fork, again and again. Three deadlines are
  all there are. The proofs take any set of descendants.
- *on_disk.* Three files give every shape of star-import cycle with an entry
  from outside it; each may define the name, a private name, or hide it with
  `__all__`. Two classes each of two names make a base name ambiguous, with
  cycles. Two helper items give every reachability. Commits have an
  implementation file, a test file, a data file that may be a link and whose name
  git quotes, and a file below a directory that may replace it; renames are
  detected, with and without changes. The worktrees have no bound: two sides and
  three directories are what the code has, and every set of them may resist. Two
  users and three pieces allow a torn line between two appends; severities 0 to 3
  of the code with repeated ids and categories. Two pull requests separate "this
  one failed" from "an earlier one was skipped". The parts share no state, so each
  moves while the others rest at a start that asks nothing; that puts them into one
  run without multiplying them.

### Fairness and deadlock

`LimitedRun` alone has liveness properties and fairness. It assumes that time
passes (`WF(Tick)`), that the runner takes the step it can take (`WF(Runner)`: its blocking calls all have a timeout, which
is an alternative of the same step), and that the systemd manager kills what is
left of a scope it was told to stop (`WF(ManagerKills)`: systemd sends SIGKILL
after `TimeoutStopSec`). Nothing is assumed of the command, of `timeout(1)` or of
an interrupt; `AlwaysReturns` holds for a command that never exits, and even if
`timeout(1)` never gets to run. `ScopeEmpties` also takes it that `systemctl stop`
reaches the manager; where systemd is down the runner ignores that it failed. The
other modules have no fairness and are checked for safety: an operator may stop
anywhere and never return, and that straight loops over finite lists end needs no
model. `CHECK_DEADLOCK FALSE` is in the configurations whose system really
stops: an import when it is refused or decided, a probe when it has reported or
raised, a limited run when it has returned, the attributor when nothing is left
to ask, a clean-up when it is over, the audits when the bound on commands is used
up.

## 4. Where documentation and code disagree

Each of these is a run that TLC ends with a counterexample; `PROJECT.json`
quotes the sentence it contradicts.

1. `audit_claims`: `prepare` parses the contract, and later hashes whatever the
   file then holds; artifact snapshots are read apart from the manifest. An edit
   while it runs ends in an attestation for claims or bytes the reviewer was not
   shown, and `finalize` has nothing to notice it by.
2. `audit_retry`: a `finalize` refused by the second look at the ledger leaves
   `awaiting_review` together with an attestation, which no retry gets past.
3. `fbpa_interrupted`: an interrupted head run (exit code 2) leaves a report of
   the cases that ran, and the claim passes by these alone.
4. `fbpa_symbol`: two repeats that miss different names at collection agree, and
   the report names the last.
5. `trees_diff`: `git diff --name-only` detects renames unless configured
   otherwise. A file moved from the implementation into the tests is listed
   under its new name only, and the count of implementation changes is zero.
6. `audit_overwrite`: `_run_directory` finds the directory empty and creates it
   with `exist_ok=True`; nothing is locked before the first file is written. Two
   prepares that both look first go on, and one writes its evidence over the
   other's, which `README.md:82` says never happens.
7. `limited_oom`: every exit 137 or -9 before the limit is reported as the memory
   limiter's kill, `F_OOM`. A test that exits with 137 or kills itself, the
   machine's OOM killer and an operator's `kill -9` are reported so too, and under
   `rlimit` as well, which kills nobody. The docstring of `_run_limited`
   (`fbpa.py:370-372`) says it "is the memory limiter's kill". Its "exit 124 is
   unambiguous" does not hold of a test that exits with 124 either.

1, 2 and 6 need a second writer at the wrong moment; 3 and 4 a test that ends
pytest or varies between repeats; 5 a commit that moves a file; 7 a kill that is
neither the runner's nor the limiter's.

Weaker points, which no run of their own shows:

- With `MidCommandEdits = TRUE` in `AuditRun.cfg` TLC shows that the transcript
  is hashed from one read and retained from another.
- The docstring of `_run_limited` (`fbpa.py:367`) promises that the worktrees are
  removed "regardless". `OnlyWhatResistsStays` lists what stays all the same. A
  worktree whose `post-checkout` hook failed is registered but `base_wt` or
  `head_wt` does not name it, so that its entry stays. `_remove_worktree` ignores a
  failing `git worktree remove`, and prunes before it removes the directory, so that
  an entry git could not remove is not pruned either; only the base's is, by the
  prune that follows for head. `rmtree(ignore_errors=True)` leaves what resists. And
  two cases the property excepts: an interrupt in the `finally` clause leaves the
  rest undone, and the directories made before the `try` stay if the next one cannot
  be made.
- The specification says at line 72 that every process a run started, "including
  detached grandchildren", is terminated when it ends. Under `rlimit` one that
  called `setsid` survives, which only the docstring (`fbpa.py:364-366`) admits;
  `OnlyEscapeesSurvive` says it is the only kind that does. Under either backend an
  interrupt inside the `finally` clause of the runner leaves what was still to be
  killed (`InterruptCleanUp`).
- A SIGKILL from elsewhere that arrives after the wall-clock limit has passed counts
  as a timeout (`fbpa.py:445`).
- git prints a name with an accent quoted (`core.quotePath`). `_non_test_diff_count`
  compares the quoted text with `test_paths`, so that a changed test file of such a
  name counts as an implementation change (`CountIsExact` allows it, by
  `p \in Quoted`).
- The specification (`docs/specs/probe-fail-before-pass-after.md:79-88`) makes
  any module loaded from outside the worktree `F_ENV_IMPORT`, which line 206
  says is never downgraded. `_judge_side` returns the fault of `_classify_run`
  first, so that such a process that came to no claimed case is
  `F_NOT_COLLECTED`, for a discovered test mere advice.
  `EnvironmentIsNeverAdvice` therefore asks for a matched case; the proof of
  `EnvironmentAlwaysCounts` found the condition missing.

## 5. What is not modelled, and why

- Rendering, note texts, path confinement and symbolic-link checks of the
  lifecycle, argument parsing: no property here is about them, or they depend
  only on one call's own arguments.
- The deterministic probes of `probes.py`, the JSON schema library, git and
  pytest themselves: external, or pure functions of bytes. What git and pytest
  may do is an input or a choice of the model.
- The file system: writes are atomic where the code renames a temporary
  file into place, and torn where it copies or appends. Reordering of writes by
  a failing disk is left out, except for what the driver never synced.
- The parsing of JUnit reports, tracebacks and Python text: a test case, a
  message and a module enter as what the code reads from them. The canary's
  search enters as whether the names resolve inside the worktree.
- Worktrees are not reset between runs. A run is a free choice, so one that
  depends on what an earlier one wrote is among the behaviours, but nothing is
  said about whether it should.
- The golden-case scorer, the recall benchmark, the aggregation of the history
  table and the offline guard: pure scoring, or scripts without state.

Corners of modelled components that the models leave out:

- *Runner.* Under systemd a process that ignores SIGTERM and left the group may
  outlive the return, until the manager kills the scope (`ScopeEmpties` is "leads
  to"). A SIGTERM sent to `timeout(1)` itself from elsewhere, which it would forward,
  and a `systemctl stop` that fails are not in the model.
- *Checkouts.* A test path that turns from a file into a directory or back makes
  the overlay raise a plain `OSError` (`Blocked`, `OverlayRaises`). A
  directory among base's tests that is itself a link is written through, one
  among head's is not copied; links to directories are not in the model. Which
  deleted file git pairs with which added one is any choice among the same or alike
  (`Renames`). A `git diff` that fails, which the code takes for no change, is left
  out. A test file that is a link at base counts all its tests as new.
- *Symbol tables.* A module on a star-import cycle whose `__all__` lists a name
  that only its own `__getattr__` provides is excluded
  (`Attribution!Loads`), from the runs and from the theorems.
- *Ledger.* A short write that loses only the newline leaves a file that loads;
  the next append runs into it, which `DamageHasACause` attributes to the failed
  write.
- *Driver.* A result cut short is taken as done without `--force`
  (`SuccessMeansMeasured` excuses it through `damaged`), and makes `table.py`
  fail; a `git clone` that fails under `--scratch` leaves its directory
  (`ClonesAreRemoved` excuses it); results are not synced.

## 6. Proofs

Each proof module EXTENDS its component. TLC checked every inductive invariant
or its parts on the instances of section 3 before the proof.

| Module | Theorem | Says |
|---|---|---|
| `AuditRunProofs` | `AuditIsTypeCorrect` | `Spec => []TypeOK` |
| | `AttestedIsRetained` | `Spec => []RetainedEvidenceIsBound`, if `MidCommandEdits = FALSE` |
| | `FinalStatesAreComplete` | `Spec => []FinalStateIsComplete` |
| | `ReceiptsAreTrue` | `Spec => []ReceiptsMatch` |
| | `EvidenceIsKeptByOneCommandAtATime` | `Spec => NothingOverwritten`, with `Exclusive = TRUE` as all six |
| | `AuditImplementsRecord` | `Spec => ImplementsRecord`, if `MidCommandEdits = FALSE` |
| `PolicyProofs` | `TypeCorrect` | `Spec => []TypeOK` |
| | `Inductive` | `Spec => []IInv` |
| | `FailIsAlwaysProven` | `Spec => []FailIsProven` |
| | `PassIsAlwaysEarned` | `Spec => []PassIsEarned` |
| | `WaiversAlwaysConsumed` | `Spec => []WaiversConsumed` |
| | `SchemaAlwaysHolds` | `Spec => []AttestationSchemaHolds` |
| | `PolicyImplementsDecision` | `Spec => ImplementsDecision` |
| `FbpaProbeProofs` | `ProbeTypeCorrect` | `Spec => []TypeOK` |
| | `CleanClaimsAreEarned` | `Spec => []CleanIsEarned` |
| | `ConvictionsAreMeasured` | `Spec => []ConvictionIsMeasured` |
| | `EnvironmentAlwaysCounts` | `Spec => []EnvironmentIsNeverAdvice` |
| | `FlakyIsAlwaysCaught` | `Spec => []FlakyIsCaught`, if a base run whose `conftest.py` failed has no report |
| | `AccountingAlwaysAddsUp` | `Spec => []AccountingAddsUp` |
| | `DispositionIsAlwaysEarned` | `Spec => []DispositionIsEarned` |
| `AttributionProofs` | `ClosureIsAlwaysReachability` | `SpecOfAny => []ClosureIsReachability` |
| | `AbsenceIsAlwaysExact` | `SpecOfAny => []AbsenceIsExact` |
| | `ClassAbsenceIsAlwaysCertain` | `SpecOfAny => []ClassAbsenceIsCertain` |
| `FbpaTreesProofs` | `OverlayIsAlwaysExact` | `TreesSpecOfAny => []OverlayIsExact` |
| | `DiscoveryIsAlwaysExact` | `TreesSpecOfAny => []DiscoveryIsExact` |
| | `CountIsAlwaysExact` | `TreesSpecOfAny => []CountIsExact`, with or without rename detection and quoted names |
| | `OnlyWhatResistsEverStays` | `WorktreesSpec => []OnlyWhatResistsStays` |
| `LimitedRunProofs` | `TypesAreKept` | `Spec => []TypeOK` |
| | `NobodyIsLeftInTheGroup` | `Spec => []OnlyEscapeesSurvive` |
| | `ResultsAreMeasured` | `Spec => []MeasurementIsWhole` |
| | `TimeoutsAreToldApart` | `Spec => []KillsAreToldApart` |
| `MissLedgerProofs` | `AppendedRecordsStay` | `LedgerSpec => []NothingAppendedIsLost` |
| | `DamageAlwaysHasACause` | `LedgerSpec => []DamageHasACause` |
| | `DurableEntriesAreKept` | `LedgerSpec => DurableIsKept` |
| | `ChallengesAreAlwaysTheWorst` | `LedgerSpec => []ChallengesAreTheWorst` |
| `HistoryDriverProofs` | `SuccessIsMeasured` | `HistorySpec => []SuccessMeansMeasured` |
| | `ClonesAreAlwaysRemoved` | `HistorySpec => []ClonesAreRemoved` |
| | `CompletedWorkIsAlwaysKept` | `HistorySpec => CompletedWorkIsKept` |

### Assumptions

They say what the constants are, and TLC evaluates them in every run:
`InputAssumption` (reviews have the types of the schemas: any number of claims,
findings, overrides, waivers and evidence items, any identifiers and times),
`RunAssumption` (claims and runs have their types, `Repeats` is positive),
`TreeAssumption` (finitely many paths, the test files among them), `TableAssumption` (a project has finitely many
files and classes, private names are names), `ProcessAssumption`, `PrAssumption`,
`RecordAssumption`, `VerdictAssumption` (the verdict of a review is a status or "refused"),
`DistinctAssumption` (a torn or missing file is no content), `NoneAssumption` (the value for "none" is none of the codes
and names it is told from).

### Audit lifecycle

All six theorems about `AuditRun` assume `Exclusive = TRUE`: one command per
directory at a time. The code takes no lock and its two commands are run by hand,
so this is how they are meant to be used, not something the code enforces. Without
it two prepares can both find the directory empty, and one overwrites the bundle
the other has bound: `NothingOverwritten` is then false, as the run
`audit_overwrite` shows, and `EvidenceIsKeptByOneCommandAtATime` says no more than
its name does.

`AuditRunProofs!IInv` says of each command what the step it stands at is worth. `Stages`
gives every step its facts (`At`): `Preparing` (what the prepare has put down so
far is what it read), `Verifying` (the checks passed so far held of the directory
the command reads) and `Attesting` (what it has retained, and the attestation made
from it). These facts are about the directory, so they survive only because no
other command moves it: `OneCommand` says so, the assumption is what makes a
starting command establish it, and `MovesKeepStages` uses it. `Directories` says every directory is
`Sealed`: one with an attestation still has the evidence it cites, and one with a
final state has every document that state names. `Exits` ties the disposition an
operator was told to the directory, `Lines` a ledger line to its attestation, and
`Unlisted` says a command that has attested and not yet appended has no line, so
no attestation gets two. `Grows` is the two-state half (evidence that is there
stays, a final directory does not change), and gives `NothingOverwritten`.

Facts about the workspace (the files under review) hold only while nobody edits
them under a command, so inside `IInv` they are guarded by `Still`. Four theorems
need none of them and hold with edits at any moment; `AttestedIsRetained` and
`AuditImplementsRecord` assume `MidCommandEdits = FALSE`.

For the refinement, `RecordOf` says what a directory amounts to. Six of the eight
writes to a directory leave that value alone (`OtherWrites`), and so does an
interruption, torn file included (`AbortRecords`). The write of the prepared state
is the abstract prepare (`PrepareIsPrepare`), the write of the attestation the
abstract attest (`AttestationIsAttest`); what follows it, the final state
included, adds nothing to the record (`WriteStateRecords`). TLC checked every conjunct of `IInv` on
`AuditRun.cfg`, and again with edits under commands.

### Policy

*Type correctness.* `TypeOK` is not inductive: `GateFinding` looks up
`effects[f.class]`, which is an effect only if the class is mapped.
`ClassesMapped` says so once the loop over findings runs; `AcceptPolicyInput`
establishes it and nothing later touches `effects`.

*Safety.* The properties speak of a decided run, the loops of prefixes. `IInv`
says what each loop has done so far:

- `ClaimsGated`: the outcomes are the gated outcomes of the results seen, all of
  which passed their checks;
- `EffectsDecided`: every effect is that of the last override applied to its
  class, or its default;
- `ChecksHeld`: what the checks before each loop established;
- `WaitingLeft`: the requests left are those for findings not seen. This is what
  makes "popped" and "asked for" the same thing: finding ids are unique, so no
  earlier finding can have taken the request of this one;
- `GatesSound`: every gate so far fits its finding in the words of
  `PolicyDecision` (waived, failing, unsettling or harmless);
- `Decided`: a decision is the disposition of complete gates.

Lemmas then translate the code's vocabulary into the specification's
(`UnreproducedMeansUnproven`, `CitedMeansRefuted`, `EffectMeansDecided`,
`SupportedIsCarried`, `ConfiguredMeansFailClass`), and each theorem reads its
property off a complete `gates`. TLC checked `IInv` on the inputs of
`Policy.cfg` before the proof.

*The refinement.* `PolicyImplementsDecision` needs more of the loops than the
safety properties do, as it is about refusals too. `RInv` adds to `IInv` that an
overridden class is one the contract maps, that a review which reached the
findings passed every check before them (`InputAccepted`), that each request
popped was active, and that a pending flag has a finding which raised it
(`PendingSound`). Half of the lemmas are about the two vocabularies: `Refused` of
`PolicyDecision` for each `Refuse...` action of the code (`ReviewRefusedSoundly`
to `WaiverRefusedSoundly`), and for a decided run the conditions of its verdict,
each as an equivalence with what the loops collected (`FailsIffGated`,
`PendingIffUnsettling`, `WaiverIffRequested`). `VerdictIsDisposition` puts these
together; `StepImplementsDecision` shows that a step which ends the run is the
abstract `Decide` and that every other one leaves the verdict `"none"`.

### FBPA probe

The properties compare a report with the runs it was made from, so the proof has
two halves. The first reads one run and has no state: `LabelMeaning` (when a
case's label is a pass or a genuine failure), `FaultFree` and `ReadOfCases` (a
reading without a fault comes from a process that ended by itself, in its
worktree), `BaseReading` and `HeadReading` (a verdict says what the cases of the
run show), `UnmeasuredIsFault`, and `OutcomeMeaning` (the repeats of a side agree
on what each shows). The second is the invariant `ProbeInv`:

- `JudgeInv`: of the runs of the side at hand only the last can be a fault, and a
  base outcome is kept only with all its repeats, none of them a fault;
- `ReportInv`: every component of a report means what `Meaning` says of the
  logged runs, and a killed or foreign run leaves nothing but a fault of the
  environment;
- `FinalInv`: what is reported covers every claim, and nothing demonstrated is
  left without an implementation change.

`CloseKeeps` carries `ReportInv` over the one step that adds a report; each of
the five actions that close a claim only has to show its components `Sound`.

`FlakyIsAlwaysCaught` adds `RepeatInv`: a report that judges its claim stands on
repeats none of which faulted and all of which left the same fingerprint
(`Steady`), and equal fingerprints mean equal results of the claimed cases. It
assumes of the inputs that a base run which could not load a `conftest.py` left no
JUnit report. pytest stops there before it collects anything, and the code relies on
it: it takes such a run for the base's missing name without looking at cases
(`fbpa.py:1521`, `1643`, `2012`). `ProbeTypeCorrect` uses `RepeatInv` as well,
for the names a report may carry.

`AccountingAlwaysAddsUp` is about sums over a report. `ShapeInv` says what a claim
can be filed under: one bucket, or the two of a claim that passes at base and
fails at head. `AssembledInv` says the report is made from the claim reports that
are there. The history table's last check adds the bucket counts up and allows
for the claims filed twice; the proof counts the pairs of a claim and one of its
buckets in both directions. `SumIsPairs` is the count by bucket, an induction along
the fold that sums them; `PairsCount` the count by claim, `Len(claims)` and one more
for each that has two.

`DispositionIsAlwaysEarned` goes from the pytest processes to the policy's verdict.
`PolicySees` says the policy's input holds exactly the findings of the report,
though in an order nobody fixed; `FindingMeaning` and `JudgedMeaning` read a finding
and a missing one back to the logged runs by `Meaning`; `PassMeaning`,
`DefaultMeaning` and `FailingFinding` read the verdict down to its findings, for any
overrides and any waivers of reproduced ones; `SomethingWasJudged` follows the note
a report with no judged claim carries to a verdict that is never a pass.

### Symbol tables

`AttributionProofs` quantifies over every project (`SpecOfAny`): any tables of
finitely many files, any classes, any messages. The one condition on an index is
`Loads`, that a module which is star-imported binds what its `__all__` lists. Python
refuses the import otherwise, but for a module with a `__getattr__` of its own
that provides the name; such a module is left out (section 5).

*The recursions.* `module_names` and `class_has` recurse while they carry the set
of what they are in the middle of. A function defined by recursion is only a
choice of one that satisfies its equation, so `NamesOf` and `ClassAnswerOf` first show
that there is one, by induction on how many files or classes are left
(`ExpandsAll`, `ClassAll`); so does `KeptExists` for the loop over the files asked for.

*Star imports.* `CachesInv` says each filled entry of a cache is `Exact`: its names
are those the file can have along star imports that pass them on (`Gives`), and
it is dynamic exactly if such a path meets a file that cannot be listed
(`Obscure`). What is found exists along a path (`NamesAreGiven`,
`DynamicIsObscure`): a minimal counterexample has a smaller one (`NoneBad`). That
what exists is found is the harder half, as a search that leaves out the files it is
in the middle of might miss a path through them; `SearchReaches` shows that whatever
can be reached is reached outside of these too. `RememberIsExact` then says
filling the caches keeps them right, whichever of them were filled before, which
is the point of caching only at the top of the recursion.

*Classes.* `NoMeans` and `YesMeans` say what an answer of `class_has` rules out
or implies whichever class each base turns out to be (`Resolutions`), in cycles
as well; `ClassInvCertain` reads the verdict on a message off them. An `unknown`
says nothing, and nothing is claimed of it.

*The closure.* `SearchInv`: everything met can be reached, and what a visited
definition uses has been met. An empty work list makes what was visited closed under
use, hence all that can be reached.

### Checkouts

`TreesInv`: paths outside the tests are base's, and every test path is either
still to be copied or already head's. The step that could break it is a copy
through a link; the code unlinks first, and the invariant says a copied path
holds a file. `DiscoverInv` says what the loop over test files puts together, and
`CountInv` that the count is the number of files `git diff` lists, given the renames
it happened to find, whose name does not match the tests and which are not
cosmetic. `CosmeticMeaning` reads the syntax trees, `UnlistedMoved` says a file that
is changed and not listed is one a rename hides. The theorem is about git as the code
calls it, so it says when the count can be trusted and what else it may mean; that it
means what the specification says is false (run `trees_diff`).

`WorktreesInv` describes the clean-up by how far it has come for each side: git was
asked to remove the worktree (`Asked`), its directory was emptied (`Emptied`), the
second prune is over (`HeadPruned`), its parent was removed (`Dropped`). After each of
these only what resists that very step is left, whatever happened in the steps before,
and that is why no failure of one keeps the rest. `OnlyWhatResistsEverStays` reads the
property off the last position.

### Runner

`RunnerInv` says what each position of the runner implies (the group is empty
once it was killed, `timeout(1)` is dead from the reaping on, unless an interrupt
cut the clean-up short), `ProcessInv` that every death left a trace: where
`timeout(1)` died before the command, or the command of a SIGKILL, an alarm, the
backstop, an exception or `blame` tells why. `CodeInv` says what each exit status can
come from. The lemma `StrikeStrikes` says once what a signal to any set of processes
does, so that each of the actions that signal is a use of it. The safety part of
`Spec` suffices; fairness is not used.

### Ledger and driver

`LedgerInv`: a record whose command returned lies in the durable part
(`PlaceInv`), and as long as nothing overlapped or failed every piece is a line
of its own and one command is at work (`WholeInv`), which is why damage has a
cause. `HistoryInv`: a result is replaced only if asked for, a partial one is
known, every pull request behind the loop is done (`ProgressInv`), and the only
unexcused clone is the one at work.

`ChallengesAreAlwaysTheWorst` is about one expression, the fold of `challenges`:
`Represents` says that after n records the table holds, for each category met, the
earliest of its worst. `KeepWorstRepresents` is the step, `KeepWorst` replacing an
entry only by a record that is strictly worse; `KeptExists` gives the recursion
its meaning. Any number of records, categories and ties is covered.

### Only model-checked

Liveness: `AlwaysReturns` and `ScopeEmpties`. They need `ENABLED` of the fair
actions, which this prover does not do. Every safety invariant and every action
property that a passing run checks is stated by a theorem. What the theorems assume
beyond the meaning of the constants is in the table above, and TLC says of each such
condition what happens without it: `MidCommandEdits` (run `audit_claims`) and
`Exclusive` (run `audit_overwrite`). Also left to TLC: the claims that fail
(section 4).

## 7. What is left

Everything of the plan this project started from is modelled but the golden
scorer. What would add most:

1. A layer under `FbpaVerdict!Run`: that what `LimitedRun` returns is a run
   `_classify_run` can be given, so that the theorems of the runner and of the
   probe meet in one statement.
2. Commands that share a run directory (`Exclusive = FALSE`): which properties
   survive, and what a lock would have to cover to save the rest.
3. A model of what one pytest process leaves in a worktree for the next, with
   the property that no verdict depends on it; the code does not promise this.

To check everything: `tlc -config X.cfg M` for the runs listed in
`PROJECT.json`, and `tlapm M.tla` for the modules whose name ends in `Proofs`.
