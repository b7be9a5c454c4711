----------------------------- MODULE FbpaReport -----------------------------
(***************************************************************************)
(* From the components of the claims to the findings and the accounting of *)
(* the report: _component_finding, _advisory, _emit_findings and           *)
(* _assemble_report of validity_audit/fbpa.py.  A claim report is a record *)
(* of the claim and its components; a finding keeps what the policy reads. *)
(***************************************************************************)
EXTENDS FbpaVerdict

Finding ==
    [claim: Nat, type: {"base_passes", "head_not_passing", "absence_only",
                        "inconclusive", "fault"},
     class: {"material_requirement_miss", "fitness"}, severity: {"high", "med"},
     reproduction: {"reproduced", "not_reproducible"}]

Clean == {"demonstrated", "no_finding"}
Measured == {"base_passes", "head_not_passing", "absence_only"}

\* Mutant: an inconclusive claim counts as judged.
JudgedOrInconclusive == Clean \cup Measured \cup {"inconclusive"}

JudgedBuckets == Clean \cup Measured
FailingBuckets == {"base_passes", "head_not_passing", "fault"}

\* _component_finding: the author's own claim.
Charge(k, kind) ==
    [claim |-> k, type |-> kind,
     class |-> IF kind = "absence_only" THEN "fitness" ELSE "material_requirement_miss",
     severity |-> IF kind = "absence_only" THEN "med" ELSE "high",
     reproduction |-> IF kind \in Measured THEN "reproduced" ELSE "not_reproducible"]

\* _advisory: a result about a test nobody claimed proves the fix.
Advice(k, kind) ==
    [claim |-> k, type |-> kind, class |-> "fitness", severity |-> "med",
     reproduction |-> IF kind \in Measured THEN "reproduced" ELSE "not_reproducible"]

\* Mutant: every result of an auto-discovered test is downgraded.
DowngradesAll(c) == TRUE

\* _downgrades_in_auto_mode
Downgrades(c) == c.kind = "fault" => c.reason \notin EnvFaults

Advised(report, c) == report.claim.auto /\ Downgrades(c)

FindingFor(k, report, c) ==
    IF Advised(report, c) THEN Advice(k, c.kind) ELSE Charge(k, c.kind)

Reportable(report) == {c \in report.components : c.kind \notin Clean}

FindingsOf(k, report) == {FindingFor(k, report, c) : c \in Reportable(report)}

\* Every finding of the claim is advisory, and there is one.
AllAdvisory(report) ==
    /\ Reportable(report) # {}
    /\ \A c \in Reportable(report) : Advised(report, c)

Buckets(report) == {c.kind : c \in report.components}

ReportJudged(report) == Buckets(report) \subseteq JudgedBuckets

CheckStatus(report) ==
    IF AllAdvisory(report) THEN "advisory"
    ELSE IF Buckets(report) \cap FailingBuckets # {} THEN "fail" ELSE "pass"

\* _nothing_judged_finding
NothingJudged ==
    [claim |-> 0, type |-> "inconclusive", class |-> "material_requirement_miss",
     severity |-> "high", reproduction |-> "not_reproducible"]

ClaimFindings(reports) == UNION {FindingsOf(k, reports[k]) : k \in DOMAIN reports}

JudgedClaims(reports) == {k \in DOMAIN reports : ReportJudged(reports[k])}

\* Mutant: the extra finding is added for an empty claim list only.
ExtraWhenEmpty(reports) == IF reports = <<>> THEN {NothingJudged} ELSE {}

\* No claim in scope, or none judged and nothing but advice to show for it.
ExtraFindings(reports) ==
    IF \/ reports = <<>>
       \/ /\ JudgedClaims(reports) = {}
          /\ \A f \in ClaimFindings(reports) : f.class = "fitness"
    THEN {NothingJudged} ELSE {}

\* The check that ends _assemble_report with FbpaInvariantError.
InvariantBroken(reports) ==
    /\ reports # <<>> /\ JudgedClaims(reports) = {}
    /\ \A f \in ClaimFindings(reports) \cup ExtraFindings(reports) :
          f.type \notin {"inconclusive", "fault"}

Assemble(reports) ==
    [findings |-> ClaimFindings(reports) \cup ExtraFindings(reports),
     in_scope |-> Len(reports),
     judged |-> Cardinality(JudgedClaims(reports)),
     counts |-> [b \in UNION {Buckets(reports[k]) : k \in DOMAIN reports} |->
                    Cardinality({k \in DOMAIN reports : b \in Buckets(reports[k])})],
     auto_advisory |-> Cardinality({k \in DOMAIN reports : AllAdvisory(reports[k])}),
     skipped |-> DOMAIN reports \ JudgedClaims(reports),
     verdicts |-> [k \in DOMAIN reports |-> Buckets(reports[k])],
     checks |-> [k \in DOMAIN reports |-> CheckStatus(reports[k])]]

\* The section 1.2 invariant, applied once every claim has been judged.
WithoutChange(report) ==
    IF report.claim.intent = "fixes" /\ report.components = {Component("demonstrated", None)}
    THEN [report EXCEPT !.components = {Component("inconclusive", "no_impl_change")}]
    ELSE report
=============================================================================
