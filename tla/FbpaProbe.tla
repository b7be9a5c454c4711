----------------------------- MODULE FbpaProbe -----------------------------
(***************************************************************************)
(* The fail-before / pass-after probe, run_fbpa of validity_audit/fbpa.py: *)
(* each claim's repeated pytest runs on base and head, its verdict and the *)
(* report.  One action per pytest process.  What a process leaves behind   *)
(* is any member of BaseRuns or HeadRuns; "log" remembers the runs of      *)
(* every judged claim, for the properties to look back at.  The worktrees  *)
(* and their cleanup, which no verdict depends on, are in FbpaWorktrees.   *)
(***************************************************************************)
EXTENDS FbpaReport

CONSTANTS
    ClaimLists,          \* sequences of claims, contract and discovered ones merged
    BaseRuns(_), HeadRuns(_),  \* what a pytest process may leave behind on a
                               \* side, given the claims
    Backends,            \* memory limiters the machine may offer
    Repeats

ASSUME RunAssumption ==
    /\ ClaimLists \subseteq Seq(Claim)
    /\ \A list \in ClaimLists : BaseRuns(list) \subseteq Run /\ HeadRuns(list) \subseteq Run
    /\ Backends \subseteq {"systemd-run", "rlimit", "none"}
    /\ Repeats \in Nat \ {0}

VARIABLES
    claims, backend,
    canary,   \* whether every checked name resolves inside its worktree
    changed,  \* whether non_test_diff_count is not zero
    pc,
    base,     \* outcome of the base side of the current claim, None before
    runs,     \* runs of the current side of the current claim
    reports,  \* claim reports so far
    log,      \* the runs each of them was judged by
    report    \* the probe's report, None before

setup == <<claims, backend, canary, changed>>
judging == <<base, runs, reports, log>>
vars == <<setup, pc, judging, report>>

Init ==
    /\ claims \in ClaimLists /\ backend \in Backends
    /\ canary \in BOOLEAN /\ changed \in BOOLEAN
    /\ pc = "setup"
    /\ base = None /\ runs = <<>> /\ reports = <<>> /\ log = <<>>
    /\ report = None
-----------------------------------------------------------------------------
(* Up to the first claim *)

\* The temporary directories, the commits, the worktrees, the overlay, the count
\* of changes, the discovery and the canary: any of them may raise.
SetUp ==
    /\ pc = "setup"
    /\ pc' \in {"claims", "raised"}
    /\ UNCHANGED <<setup, judging, report>>
-----------------------------------------------------------------------------
(* The claims *)

Current == claims[Len(reports) + 1]

Judging == pc = "claims" /\ Len(reports) < Len(claims)

\* Environment faults are decided before anything is run.
Unfit == backend = "none" \/ ~canary

\* base is never run for a claim that asked it no question.
Side == IF Current.intent = "characterizes" \/ base # None THEN "head" ELSE "base"

Readings == [k \in DOMAIN runs |-> Read(runs[k], Side, Current, backend)]

\* Mutant: one run more than the contract asks for.
SideDoneLate ==
    /\ runs # <<>>
    /\ Len(runs) > Repeats \/ Readings[Len(runs)].fault # None

SideDone ==
    /\ runs # <<>>
    /\ Len(runs) = Repeats \/ Readings[Len(runs)].fault # None

\* The report of the current claim, with the runs it stands on.
Close(components, symbol, baseRuns, headRuns) ==
    /\ reports' = Append(reports,
          [claim |-> Current, components |-> components, symbol |-> symbol])
    /\ log' = Append(log, [base |-> baseRuns, head |-> headRuns])
    /\ base' = None /\ runs' = <<>>
    /\ UNCHANGED <<setup, pc, report>>

SoFar(side) ==
    IF side = Side THEN runs
    ELSE IF side = "base" /\ base # None THEN base.runs
    ELSE <<>>

FaultUnfit ==
    /\ Judging /\ Unfit
    /\ Close({Component("fault", IF backend = "none" THEN "F_RUNNER" ELSE "F_ENV_IMPORT")},
             None, <<>>, <<>>)

RunPytest ==
    /\ Judging /\ ~Unfit /\ ~SideDone
    /\ \E run \in IF Side = "base" THEN BaseRuns(claims) ELSE HeadRuns(claims) :
          runs' = Append(runs, run)
    /\ UNCHANGED <<setup, pc, base, reports, log, report>>

EndBase ==
    /\ Judging /\ ~Unfit /\ SideDone /\ Side = "base"
    /\ LET outcome == SideOutcome(Readings)
       IN  IF outcome.fault # None
           THEN Close({Component("fault", outcome.fault)}, None, runs, <<>>)
           ELSE /\ base' = [outcome |-> outcome, runs |-> runs]
                /\ runs' = <<>>
                /\ UNCHANGED <<setup, pc, reports, log, report>>

EndHead ==
    /\ Judging /\ ~Unfit /\ SideDone /\ Side = "head"
    /\ LET outcome == SideOutcome(Readings)
       IN  IF Current.intent = "characterizes"
           THEN Close(ComponentsCharacterizes(outcome), None, <<>>, runs)
           ELSE Close(Components(base.outcome, outcome), base.outcome.symbol, base.runs, runs)

\* Any exception while a claim is judged costs that claim only.
JudgeRaises ==
    /\ Judging /\ ~Unfit
    /\ Close({Component("fault", "F_RUNNER")}, None, SoFar("base"), SoFar("head"))
-----------------------------------------------------------------------------
(* The report *)

AssembleReport ==
    LET final == IF changed THEN reports
                            ELSE [k \in DOMAIN reports |-> WithoutChange(reports[k])]
    IN  /\ pc = "claims" /\ Len(reports) = Len(claims)
        /\ reports' = final
        /\ IF InvariantBroken(final)
           THEN pc' = "raised" /\ UNCHANGED report
           ELSE pc' = "reported" /\ report' = Assemble(final)
        /\ UNCHANGED <<setup, base, runs, log>>

Next ==
    \/ SetUp
    \/ FaultUnfit \/ RunPytest \/ EndBase \/ EndHead \/ JudgeRaises
    \/ AssembleReport

Spec == Init /\ [][Next]_vars
-----------------------------------------------------------------------------
TypeOK ==
    /\ pc \in {"setup", "claims", "reported", "raised"}
    /\ Len(reports) <= Len(claims) /\ Len(log) = Len(reports)
    /\ \A k \in DOMAIN reports :
          /\ reports[k].claim = claims[k] /\ reports[k].components # {}
          /\ reports[k].symbol \in Symbols \cup {None}
          /\ \A c \in reports[k].components :
                c.kind = "fault" => c.reason \in EnvFaults \cup TestFaults
    /\ Len(runs) <= Repeats
    /\ base # None => base.outcome.fault = None /\ Len(base.runs) = Repeats
    /\ report # None => report.findings \subseteq Finding

\* What a run shows, read from its cases and not from the labels above.
CasesOf(run, claim) ==
    {c \in Range(run.cases) : c.name \in claim.names \/ c.phase = "collection"}

RanHere(run) == ~run.timedOut /\ run.code \notin {137, -9, -15} /\ run.outside = "none"

\* The call itself failed, and not for want of a name that only head has.
Genuine(c) ==
    /\ c.outcome = "failure"
    /\ c.trouble.exc = "absence" => c.trouble.attribution = "present"
    /\ c.trouble.exc = "AssertionError" => c.existence = None

FailsBefore(run, claim) == RanHere(run) /\ \E c \in CasesOf(run, claim) : Genuine(c)

PassesAfter(run, claim) ==
    /\ RanHere(run) /\ run.code # 1 /\ CasesOf(run, claim) # {}
    /\ \A c \in CasesOf(run, claim) : c.outcome = "pass"

Demonstrated(k) ==
    /\ claims[k].intent = "fixes" /\ changed
    /\ Len(log[k].base) = Repeats /\ Len(log[k].head) = Repeats
    /\ \A run \in Range(log[k].base) : FailsBefore(run, claims[k])
    /\ \A run \in Range(log[k].head) : PassesAfter(run, claims[k])

Pinned(k) ==
    /\ claims[k].intent = "characterizes" /\ Len(log[k].head) = Repeats
    /\ \A run \in Range(log[k].head) : PassesAfter(run, claims[k])

FindingsAbout(k) == {f \in report.findings : f.claim = k}

\* A claim without a finding was shown: some case genuinely failed in every base
\* run and all cases passed in every head run, in the right worktree, with an
\* implementation change in between (or head passed, for a characterizes claim).
CleanIsEarned ==
    pc = "reported" =>
        \A k \in DOMAIN claims : FindingsAbout(k) = {} => Demonstrated(k) \/ Pinned(k)

\* A finding that fails the audit rests on full measurements in the right
\* worktree of a test the author claimed, never on a fault or a missing name.
ConvictionIsMeasured ==
    pc = "reported" =>
        \A f \in report.findings :
            f.class = "material_requirement_miss" /\ f.reproduction = "reproduced" =>
                LET claim == claims[f.claim]
                    before == log[f.claim].base
                    after == log[f.claim].head
                IN  /\ ~claim.auto /\ Len(after) = Repeats
                    /\ \A run \in Range(after) : RanHere(run)
                    /\ f.type = "head_not_passing" =>
                          \A run \in Range(after) : ~PassesAfter(run, claim)
                    /\ f.type = "base_passes" =>
                          /\ Len(before) = Repeats
                          /\ \A run \in Range(before) :
                                /\ RanHere(run) /\ ~FailsBefore(run, claim)
                                /\ \E c \in CasesOf(run, claim) : c.outcome = "pass"

ResultsOf(run, claim) ==
    {<<c.name, c.outcome, c.trouble.exc>> : c \in CasesOf(run, claim)}

\* Repeats that give a case different results never end in a judgement
\* (section 2, F_FLAKY), whatever verdict each of them would give alone.
FlakyIsCaught ==
    \A k \in DOMAIN reports : \A side \in Sides :
        (\E i, j \in DOMAIN log[k][side] :
            LET one == log[k][side][i]
                two == log[k][side][j]
            IN  /\ one.report /\ two.report /\ Collection(one) \cup Collection(two) = {}
                /\ ResultsOf(one, claims[k]) # ResultsOf(two, claims[k]))
        => \A c \in reports[k].components : c.kind = "fault"

\* A finding the policy cannot let pass: high severity, not reproduced.
Unsettling(f) == f.severity = "high" /\ f.reproduction = "not_reproducible"

\* A claim whose test could not be run, was killed or ran other code is never
\* settled and never mere advice, auto-discovered or not.  (A process that ran
\* other code and did not come to the claimed test is F_NOT_COLLECTED.)
EnvironmentIsNeverAdvice ==
    pc = "reported" =>
        \A k \in DOMAIN claims :
            \/ Unfit
            \/ \E run \in Range(log[k].base) \cup Range(log[k].head) :
                  \/ run.timedOut \/ run.code \in {137, -9, -15}
                  \/ run.outside = "some" /\ Matched(run, claims[k]) # {}
            => \E f \in FindingsAbout(k) : Unsettling(f)

\* A claim is only cleared when every case of its function ran (section 3.3,
\* "every case under the function is H_PASS").
ClearedCasesAllRan ==
    pc = "reported" =>
        \A k \in DOMAIN claims : FindingsAbout(k) = {} =>
            \A run \in Range(log[k].head) :
                {c.name : c \in CasesOf(run, claims[k])} = claims[k].names

\* The absent name a report gives is one every repeat missed, so that finalize
\* finds the same name when it runs the probe again.
SymbolIsStable ==
    \A k \in DOMAIN reports : reports[k].symbol # None =>
        \A run \in Range(log[k].base) :
            reports[k].symbol \in
                {c.trouble.target : c \in Range(run.cases)} \cup {run.stderr.target}
=============================================================================
