---------------------------- MODULE FbpaVerdict ----------------------------
(***************************************************************************)
(* How validity_audit/fbpa.py reads the runs of a claimed test: one run of *)
(* pytest, the repeats on one side, and the components of the claim.       *)
(*                                                                         *)
(* A run is a record of what is left of a pytest process: its exit code,   *)
(* whether it timed out, whether stderr reports a conftest.py that failed  *)
(* to load, whether a readable JUnit report exists and its test cases, the *)
(* module-origin audit record, and the exception stderr shows.  A case or  *)
(* stderr carries, in place of its text, the exception class and what the  *)
(* symbol tables say of its message: the name it misses is absent at base  *)
(* only, present (or no project name), or cannot be attributed.            *)
(***************************************************************************)
EXTENDS Integers, Sequences, FiniteSetsExt, Functions

CONSTANTS
    CaseNames,  \* names under which a report lists the cases of a function
    Symbols,    \* names a message may miss
    None

Sides == {"base", "head"}
Attributions == {"absent", "present", "unattributed"}
Exceptions == {None, "absence", "AssertionError", "Failed", "MemoryError",
               "SyntaxError", "other", "xpass"}

Trouble ==
    [exc: Exceptions, attribution: Attributions, target: Symbols, references: BOOLEAN]

\* _phase_of
PhasesOf(outcome) ==
    CASE outcome = "failure" -> {"call"}
      [] outcome = "error" -> {"setup", "teardown", "collection"}
      [] OTHER -> {None}

\* An expected failure that passed is listed as skipped.
Case ==
    {c \in [name: CaseNames, outcome: {"pass", "failure", "error", "skipped"},
            phase: {None, "call", "setup", "teardown", "collection"},
            existence: {None, "absent", "unattributed"}, trouble: Trouble,
            line: {"first-line", "other-line"}] :
        /\ c.phase \in PhasesOf(c.outcome)
        /\ c.trouble.exc = "xpass" => c.outcome = "skipped"}

Run ==
    [code: Int, timedOut: BOOLEAN, conftest: BOOLEAN, report: BOOLEAN,
     cases: Seq(Case), outside: {"none", "some", "missing"}, stderr: Trouble]

Claim ==
    [names: SUBSET CaseNames, intent: {"fixes", "characterizes"}, auto: BOOLEAN]

\* The fault codes a claim may end with.
EnvFaults ==
    {"F_ENV_IMPORT", "F_RUNNER", "F_OOM", "F_TIMEOUT", "F_NO_REPORT", "F_EXIT_XML_MISMATCH"}
TestFaults == {"F_FLAKY", "F_NOT_COLLECTED"}

ASSUME NoneAssumption ==
    None \notin EnvFaults \cup TestFaults
                \cup {"call", "setup", "teardown", "collection", "absent", "unattributed"}

Fails == {"failure", "error"}
-----------------------------------------------------------------------------
\* _classify_run.  Cases are chosen by their positions in the report.

Collection(run) == {k \in DOMAIN run.cases : run.cases[k].phase = "collection"}

Matched(run, claim) == {k \in DOMAIN run.cases : run.cases[k].name \in claim.names}

ConftestFailed(run, side) == side = "base" /\ run.conftest

CollectionFailed(run) == run.report /\ Collection(run) # {}

\* Nothing collected at base: attributed like a collection error.
NothingCollected(run, side, claim) ==
    side = "base" /\ run.code = 5 /\ Matched(run, claim) = {}

\* The exit code and the report contradict each other.
ExitMismatch(run, claim) ==
    LET bad == \E k \in Matched(run, claim) :
                  run.cases[k].outcome \in Fails \/ run.cases[k].trouble.exc = "xpass"
    IN  (run.code = 0 /\ bad) \/ (run.code = 1 /\ ~bad)

RunFault(run, side, claim) ==
    IF run.timedOut THEN "F_TIMEOUT"
    ELSE IF run.code \in {137, -9} THEN "F_OOM"
    ELSE IF run.code = -15 THEN "F_TIMEOUT"
    ELSE IF ConftestFailed(run, side) \/ CollectionFailed(run) THEN None
    ELSE IF run.code \in {3, 4} THEN "F_RUNNER"
    ELSE IF ~run.report THEN "F_NO_REPORT"
    ELSE IF NothingCollected(run, side, claim) THEN None
    ELSE IF Matched(run, claim) = {} THEN "F_NOT_COLLECTED"
    ELSE IF ExitMismatch(run, claim) THEN "F_EXIT_XML_MISMATCH"
    ELSE None

RunKind(run, side, claim) ==
    IF ConftestFailed(run, side) THEN "CONFTEST_ERROR"
    ELSE IF CollectionFailed(run) THEN IF side = "head" THEN "CASES" ELSE "COLLECTION_ERROR"
    ELSE IF NothingCollected(run, side, claim) THEN "COLLECTION_ERROR"
    ELSE "CASES"

\* The cases a run of kind CASES is judged by.
Judged(run, claim) ==
    IF CollectionFailed(run) THEN Collection(run) ELSE Matched(run, claim)
-----------------------------------------------------------------------------
\* _classify_case: the label of one case.

Absent(c, side) ==
    /\ side = "base" /\ c.phase \in {"call", "setup"}
    /\ c.trouble.exc = "absence" /\ c.trouble.attribution # "present"

ExistenceCheck(c, side) ==
    /\ side = "base" /\ c.phase = "call"
    /\ c.trouble.exc = "AssertionError" /\ c.existence # None

\* Mutant: an absent name counts as a failure of the call.
LabelIgnoringAbsence(c, side) ==
    IF c.outcome = "pass" THEN "PASS"
    ELSE IF c.outcome = "skipped" THEN "SKIP"
    ELSE IF c.outcome = "failure"
    THEN IF c.trouble.exc \in {"AssertionError", "Failed"} THEN "FAIL_ASSERT" ELSE "FAIL_EXC"
    ELSE "SETUP_ERROR"

Label(c, side) ==
    IF c.outcome = "pass" THEN "PASS"
    ELSE IF c.outcome = "skipped" THEN "SKIP"
    ELSE IF Absent(c, side)
    THEN IF c.trouble.attribution = "absent" THEN "ABSENT" ELSE "UNATTRIBUTED"
    ELSE IF ExistenceCheck(c, side)
    THEN IF c.existence = "absent" THEN "ABSENT" ELSE "UNATTRIBUTED"
    ELSE IF c.outcome = "failure"
    THEN IF c.trouble.exc \in {"AssertionError", "Failed"} THEN "FAIL_ASSERT" ELSE "FAIL_EXC"
    ELSE "SETUP_ERROR"

\* Under rlimit memory exhaustion surfaces inside the test.
MemoryFault(run, judged, backend) ==
    backend = "rlimit" /\ \E k \in judged : run.cases[k].trouble.exc = "MemoryError"

SynthesizeBase(labels) ==
    IF "FAIL_ASSERT" \in labels THEN "B_FAIL_ASSERT"
    ELSE IF "FAIL_EXC" \in labels THEN "B_FAIL_EXC"
    ELSE IF "UNATTRIBUTED" \in labels THEN "B_UNATTRIBUTED"
    ELSE IF "ABSENT" \in labels THEN "B_ABSENT"
    ELSE IF labels = {"PASS"} THEN "B_PASS"
    ELSE IF "SETUP_ERROR" \in labels THEN "B_SETUP_ERROR"
    ELSE IF "PASS" \in labels THEN "B_PASS"
    ELSE "B_SKIP"

SynthesizeHead(labels) ==
    IF labels = {"PASS"} THEN "H_PASS"
    ELSE IF labels \cap {"FAIL_ASSERT", "FAIL_EXC"} # {} THEN "H_FAIL"
    ELSE IF "SETUP_ERROR" \in labels THEN "H_ERROR"
    ELSE "H_SKIP"
-----------------------------------------------------------------------------
\* What one run contributes to its side: a fault, or a verdict, the fingerprint
\* the repeats are compared by and the absent symbol, if any.

Fault(code) == [fault |-> code, verdict |-> None, fingerprint |-> None, symbol |-> None]

Reading(verdict, fingerprint, symbol) ==
    [fault |-> None, verdict |-> verdict, fingerprint |-> fingerprint, symbol |-> symbol]

\* _resolve_collection_failure, on the trouble of the last collection case.
ReadCollection(t, troubles) ==
    LET verdict ==
            IF t.exc = "absence" /\ t.attribution = "unattributed" THEN "B_UNATTRIBUTED"
            ELSE IF t.exc = "absence" /\ t.attribution = "absent" /\ t.references
            THEN "B_ABSENT"
            ELSE "B_COLLATERAL"
    IN  IF \E s \in troubles : s.exc = "SyntaxError" THEN Fault("F_RUNNER")
        ELSE Reading(verdict, <<"COLLECTION_ERROR", verdict>>,
                     IF verdict = "B_ABSENT" THEN t.target ELSE None)

\* _resolve_conftest_failure
ReadConftest(t) ==
    IF t.exc = "SyntaxError" THEN Fault("F_RUNNER")
    ELSE IF t.exc = "absence" /\ t.attribution = "absent"
    THEN Reading("B_ABSENT", <<"CONFTEST_ERROR", "B_ABSENT">>, t.target)
    ELSE IF t.exc = "absence" /\ t.attribution = "unattributed"
    THEN Reading("B_UNATTRIBUTED", <<"CONFTEST_ERROR", "B_UNATTRIBUTED">>, None)
    ELSE Fault("F_NO_REPORT")

\* _case_signature: how often each name, outcome, phase, exception and first
\* failure line occurs.  The line shows the missed name of an absence message.
Entry(c) ==
    <<c.name, c.outcome, c.phase, c.trouble.exc,
      IF c.outcome \in Fails
      THEN <<c.line, IF c.trouble.exc = "absence" THEN c.trouble.target ELSE None>>
      ELSE None>>

Signature(run, judged) ==
    [e \in {Entry(run.cases[k]) : k \in judged} |->
        Cardinality({k \in judged : Entry(run.cases[k]) = e})]

AbsentIn(run, judged, side) == {k \in judged : Label(run.cases[k], side) = "ABSENT"}

ReadCases(run, judged, side, backend) ==
    LET labels == {Label(run.cases[k], side) : k \in judged}
        absent == AbsentIn(run, judged, side)
    IN  IF MemoryFault(run, judged, backend) THEN Fault("F_OOM")
        ELSE Reading(
            IF side = "base" THEN SynthesizeBase(labels) ELSE SynthesizeHead(labels),
            <<"CASES", Signature(run, judged)>>,
            IF absent = {} THEN None ELSE run.cases[Max(absent)].trouble.target)

CollectionTroubles(run) ==
    IF CollectionFailed(run) THEN {run.cases[k].trouble : k \in Collection(run)}
    ELSE {run.stderr}

LastTrouble(run) ==
    IF CollectionFailed(run) THEN run.cases[Max(Collection(run))].trouble ELSE run.stderr

\* Mutant: modules loaded from outside the worktree are tolerated.
ReadUnaudited(run, side, claim, backend) ==
    LET kind == RunKind(run, side, claim)
    IN  IF RunFault(run, side, claim) # None THEN Fault(RunFault(run, side, claim))
        ELSE IF kind = "CONFTEST_ERROR" THEN ReadConftest(run.stderr)
        ELSE IF kind = "COLLECTION_ERROR" THEN ReadCollection(LastTrouble(run), CollectionTroubles(run))
        ELSE ReadCases(run, Judged(run, claim), side, backend)

\* One iteration of _judge_side.
Read(run, side, claim, backend) ==
    LET kind == RunKind(run, side, claim)
    IN  IF RunFault(run, side, claim) # None THEN Fault(RunFault(run, side, claim))
        ELSE IF run.outside = "some" THEN Fault("F_ENV_IMPORT")
        ELSE IF run.outside = "missing" /\ kind # "CONFTEST_ERROR" THEN Fault("F_NO_REPORT")
        ELSE IF kind = "CONFTEST_ERROR" THEN ReadConftest(run.stderr)
        ELSE IF kind = "COLLECTION_ERROR" THEN ReadCollection(LastTrouble(run), CollectionTroubles(run))
        ELSE ReadCases(run, Judged(run, claim), side, backend)
-----------------------------------------------------------------------------
\* The repeats of one side, none of which faulted: a verdict they agree on.

\* Mutant: only the synthesized verdicts are compared.
AgreeOnVerdict(readings) ==
    \A i, j \in DOMAIN readings : readings[i].verdict = readings[j].verdict

Agree(readings) ==
    \A i, j \in DOMAIN readings :
        /\ readings[i].verdict = readings[j].verdict
        /\ readings[i].fingerprint = readings[j].fingerprint

\* The symbol of the last repeat that names one.
LastSymbol(readings) ==
    LET naming == {k \in DOMAIN readings : readings[k].symbol # None}
    IN  IF naming = {} THEN None
        ELSE readings[Max(naming)].symbol

SideOutcome(readings) ==
    IF readings[Len(readings)].fault # None
    THEN [fault |-> readings[Len(readings)].fault, verdict |-> None, symbol |-> None]
    ELSE IF ~Agree(readings) THEN [fault |-> "F_FLAKY", verdict |-> None, symbol |-> None]
    ELSE [fault |-> None, verdict |-> readings[1].verdict, symbol |-> LastSymbol(readings)]

\* A component, with its reason when it has one.
Component(kind, reason) == [kind |-> kind, reason |-> reason]

\* _components, for a claim that the test fixes a bug.
Components(base, head) ==
    LET passes == head.verdict = "H_PASS"
    IN  IF head.fault # None THEN {Component("fault", head.fault)}
        ELSE IF base.verdict = "B_PASS"
        THEN {Component("base_passes", None)} \cup
             (IF passes THEN {} ELSE {Component("head_not_passing", None)})
        ELSE IF ~passes THEN {Component("head_not_passing", None)}
        ELSE IF base.verdict \in {"B_FAIL_ASSERT", "B_FAIL_EXC"}
        THEN {Component("demonstrated", None)}
        ELSE IF base.verdict = "B_ABSENT" THEN {Component("absence_only", None)}
        ELSE {Component("inconclusive", base.verdict)}

\* _components_characterizes, for a claim that the test pins existing behaviour.
ComponentsCharacterizes(head) ==
    IF head.fault # None THEN {Component("fault", head.fault)}
    ELSE IF head.verdict = "H_PASS" THEN {Component("no_finding", None)}
    ELSE {Component("head_not_passing", None)}
=============================================================================
