----------------------------- MODULE ReportUse -----------------------------
(***************************************************************************)
(* What becomes of the probe's report: its findings reach the policy with  *)
(* those of the reviewer (runtime._review_findings; the policy is taken as *)
(* PolicyDecision states it), and the history table checks its accounting  *)
(* (benchmarks/fbpa_history/table.py).                                     *)
(***************************************************************************)
EXTENDS FbpaProbe, SequencesExt

CONSTANTS Overrides  \* effects a contract may give to error classes, in order

\* A contract with one claim and without the 0.7.0 fields.
ContractWith(overrides) ==
    [version |-> "0.3.0", claims |-> {"claim"}, required |-> [c \in {"claim"} |-> "any"],
     absence |-> {}, overrides |-> overrides, issuers |-> {"issuer"}]

Note ==
    [id |-> "note", kind |-> "note", covers |-> {},
     coverage |-> [status |-> "absent", truncated |-> FALSE, omitted |-> 0]]

\* A reviewer who supports the claim, has no finding and asks for these waivers.
Agreeing(waivers) ==
    [version |-> "0.3.0", findings |-> <<>>, waivers |-> waivers,
     results |-> <<[claim |-> "claim", outcome |-> "supported", findings |-> {},
                    evidence |-> {Note}]>>]

\* The findings in the order of the report, which the policy makes nothing of.
Numbered == SetToSeq(report.findings)

AsPolicyFinding(k) ==
    [id |-> k, class |-> Numbered[k].class, severity |-> Numbered[k].severity,
     reproduction |-> Numbered[k].reproduction, absence |-> FALSE, evidence |-> {}]

ProbeFindings == [k \in DOMAIN Numbered |-> AsPolicyFinding(k)]

\* A waiver for every finding that was reproduced, those that can be waived.
WaiveReproduced ==
    LET ks == SetToSeq({k \in DOMAIN Numbered : Numbered[k].reproduction = "reproduced"})
    IN  [i \in DOMAIN ks |-> [finding |-> ks[i], issuer |-> "issuer",
                              issued |-> 0, expires |-> 2]]

D(contract, output, probes) ==
    INSTANCE PolicyDecision
        WITH ClaimIds <- {"claim"}, EvidenceIds <- {"note"}, AttestedAt <- 1,
             FailClasses <- {"material_requirement_miss"}, AdvisoryClasses <- {"fitness"},
             verdict <- "none"

Disposition(overrides, waivers) ==
    D(ContractWith(overrides), Agreeing(waivers), ProbeFindings)!Verdict
-----------------------------------------------------------------------------
(* _check_consistency of the history table *)

Problems ==
    LET several == {k \in DOMAIN report.verdicts : Cardinality(report.verdicts[k]) > 1}
    IN  {"checks" : c \in {report.in_scope} \ {Len(report.verdicts)}}
        \cup {"buckets" : k \in {k \in several :
                 report.verdicts[k] # {"base_passes", "head_not_passing"}}}
        \cup {"counts" : c \in {report.in_scope + Cardinality(several)}
                 \ {FoldFunction(LAMBDA m, n : m + n, 0, report.counts)}}
-----------------------------------------------------------------------------
(* Properties *)

Shown(k) == Demonstrated(k) \/ Pinned(k)

\* Nothing about the claim was left open.
Settled(k) == \A f \in FindingsAbout(k) : f.reproduction = "reproduced"

\* From the test runs to the disposition, with a reviewer who agrees.  Whatever
\* effects the contract gives the classes and whatever is waived, a run passes
\* only if some claim was judged and none of the author's claims was left open.
\* Without overrides and waivers it passes only if each of them was shown or
\* misses no more than a name, and fails exactly over one that was measured to
\* pass before or not to pass after, never over a discovered test.
DispositionIsEarned ==
    pc = "reported" =>
        /\ \A overrides \in Overrides, waivers \in {<<>>, WaiveReproduced} :
              Disposition(overrides, waivers) \in {"pass", "pass_with_waiver"} =>
                  /\ report.judged > 0
                  /\ \A k \in DOMAIN claims : ~claims[k].auto => Settled(k)
        /\ Disposition(<<>>, <<>>) = "pass" =>
              \A k \in DOMAIN claims :
                  \/ claims[k].auto \/ Shown(k)
                  \/ /\ FindingsAbout(k) # {}
                     /\ \A f \in FindingsAbout(k) : f.type = "absence_only"
        /\ Disposition(<<>>, <<>>) = "fail" <=>
              \E k \in DOMAIN claims : ~claims[k].auto /\ \E f \in FindingsAbout(k) :
                  f.type \in {"base_passes", "head_not_passing"}

\* The accounting names every claim that was not judged, and only those: the
\* claims left with a finding nobody could reproduce.  The history table finds
\* nothing wrong with it.
AccountingAddsUp ==
    pc = "reported" =>
        /\ report.in_scope = Len(claims)
        /\ report.in_scope = report.judged + Cardinality(report.skipped)
        /\ \A k \in DOMAIN claims :
              k \in report.skipped <=>
                  \E f \in FindingsAbout(k) : f.reproduction = "not_reproducible"
        /\ Problems = {}
=============================================================================
