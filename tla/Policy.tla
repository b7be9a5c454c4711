------------------------------- MODULE Policy -------------------------------
(***************************************************************************)
(* Import of a review and its policy evaluation: the part of finalize_run  *)
(* between reading the reviewer output and building the attestation        *)
(* (runtime._review_findings, runtime._claim_results, policy.py).  One     *)
(* action per loop iteration or check, in the order of the code; every     *)
(* raised PolicyError or AuditRuntimeError ends in pc = "refused".         *)
(***************************************************************************)
EXTENDS EvidenceDiscipline, Sequences, Functions

CONSTANTS
    FindingIds, Issuers,
    ErrorClasses,       \* slugs a finding or an override may carry
    Inputs,             \* the contract, reviewer output and probe findings considered
    AttestedAt          \* issued_at of the attestation

Effects == {"fail", "advisory", "none"}
GateEffects == Effects \cup {"waiver"}
Statuses == {"pass", "pass_with_waiver", "needs_review", "fail"}
Outcomes == {"supported", "refuted", "inconclusive", "not_evaluated"}
NonReproduced == {"unreproduced", "not_reproducible", "not_attempted"}

\* Mutant: one class is given an effect the policy does not know.
MisspelledEffects ==
    [correctness |-> "fail", evidence_tampering |-> "fail", fabrication |-> "fail",
     fitness |-> "advisory", leakage |-> "fail",
     material_requirement_miss |-> "fail", unauthorized_action |-> "fail",
     maintainability |-> "advise"]

DefaultEffects ==
    [correctness |-> "fail", evidence_tampering |-> "fail", fabrication |-> "fail",
     fitness |-> "advisory", leakage |-> "fail",
     material_requirement_miss |-> "fail", unauthorized_action |-> "fail",
     maintainability |-> "advisory"]

Override == [class: ErrorClasses, effect: Effects]

Contract ==
    [version: {"0.3.0", "0.6.0", "0.7.0"}, claims: SUBSET ClaimIds,
     required: [ClaimIds -> Kinds \cup {NoKind}], absence: SUBSET ClaimIds,
     overrides: Seq(Override), issuers: SUBSET Issuers]

Finding ==
    [id: FindingIds, class: ErrorClasses, severity: {"high", "med", "low"},
     reproduction: NonReproduced \cup {"reproduced"}, absence: BOOLEAN,
     evidence: SUBSET Evidence]

ClaimResult ==
    [claim: ClaimIds, outcome: Outcomes, evidence: SUBSET Evidence,
     findings: SUBSET FindingIds]

WaiverRequest == [finding: FindingIds, issuer: Issuers, issued: Int, expires: Int]

ReviewerOutput ==
    [version: {"0.3.0", "0.7.0"}, results: Seq(ClaimResult),
     findings: Seq(Finding), waivers: Seq(WaiverRequest)]

ASSUME InputAssumption ==
    /\ Inputs \subseteq [contract: Contract, output: ReviewerOutput,
                          probes: Seq(Finding)]
    /\ AttestedAt \in Int

\* What the schemas add to the types above: version 0.3.0 carries none of the
\* 0.7.0 fields, and a supported or refuted result has evidence.
LegacyItem(item) == item.covers = {} /\ item.coverage.status = "absent"

SchemaValid(c, o) ==
    /\ c.version # EvidenceDisciplineVersion =>
          c.absence = {} /\ \A id \in ClaimIds : c.required[id] = NoKind
    /\ c.absence \subseteq c.claims /\ c.claims # {}
    /\ \A r \in Range(o.results) :
          r.outcome \in {"supported", "refuted"} => r.evidence # {}
    /\ o.version = "0.3.0" =>
          /\ \A r \in Range(o.results) : \A item \in r.evidence : LegacyItem(item)
          /\ \A f \in Range(o.findings) :
                ~f.absence /\ \A item \in f.evidence : LegacyItem(item)

VARIABLES
    contract, output, probes,  \* the inputs, fixed for the run
    pc,
    outcomes,     \* gated outcomes of output.results, in order
    effects,      \* error class -> configured gate effect
    applied,      \* overrides applied so far
    waiting,      \* waiver_by_finding: the requests not popped yet
    gates,        \* gate effects of the evaluated findings, in order
    pending,      \* which of the two pending_* flags are set
    status

inputs == <<contract, output, probes>>
vars == <<contract, output, probes, pc, outcomes, effects, applied, waiting,
          gates, pending, status>>
-----------------------------------------------------------------------------
\* Probe findings come first, then the reviewer's.
Findings == probes \o output.findings

IdsOf(findings) == {f.id : f \in Range(findings)}

DuplicateFindingIds == ~IsInjective([i \in DOMAIN Findings |-> Findings[i].id])

\* Every evidence item of the reviewer output.
ReviewItems ==
    UNION ({r.evidence : r \in Range(output.results)}
           \cup {f.evidence : f \in Range(output.findings)})

\* _claim_results up to its loop.
ResultsRefused ==
    \/ ~VersionsAgree(contract, output)
    \/ BindingEnforced(output) /\ ~EvidenceConsistent(contract, ReviewItems)
    \/ ~IsInjective([i \in DOMAIN output.results |-> output.results[i].claim])
    \/ {r.claim : r \in Range(output.results)} # contract.claims

\* One iteration's checks in _claim_results.
ResultRefused(r) ==
    \/ ~(r.findings \subseteq IdsOf(Findings))
    \/ r.outcome = "refuted" /\ r.findings = {}

\* The checks evaluate_policy makes before its loop: every error class mapped,
\* every waiver aimed at a known finding by a permitted issuer, one per finding.
PolicyInputRefused ==
    \/ \E f \in Range(Findings) : f.class \notin DOMAIN effects
    \/ \E w \in Range(output.waivers) :
          \/ w.finding \notin IdsOf(Findings)
          \/ w.issuer \notin contract.issuers
    \/ ~IsInjective([i \in DOMAIN output.waivers |-> output.waivers[i].finding])

\* The findings cited by a claim whose gated outcome is refuted.
RefutedFindings ==
    UNION {output.results[k].findings :
              k \in {j \in DOMAIN outcomes : outcomes[j] = "refuted"}}

ConfiguredEffect(f) == IF f.id \in RefutedFindings THEN "fail" ELSE effects[f.class]

\* Mutant: an absence finding counts as reproduced without a complete search.
ReportedReproduction(f) == f.reproduction

\* An absence finding without a complete search is gated as unreproduced.
GatedReproduction(f) ==
    IF f.absence /\ ~AbsenceFindingProven(f) THEN "unreproduced" ELSE f.reproduction

Unreproduced(f) == GatedReproduction(f) \in NonReproduced

OriginalEffect(f) ==
    IF ConfiguredEffect(f) = "fail" /\ Unreproduced(f) THEN "none"
                                                      ELSE ConfiguredEffect(f)

\* The request waiver_by_finding.pop(finding_id) returns, as a set of at most one.
WaiversFor(f) == {w \in waiting : w.finding = f.id}

\* Mutant: expires_at is still inside the waiver's interval.
ActiveUntilExpiry(w) == w.issued <= AttestedAt /\ AttestedAt <= w.expires

Active(w) == w.issued <= AttestedAt /\ AttestedAt < w.expires

\* Mutant: an active waiver is accepted whatever the finding proved.
InactiveWaiverRefused(f) == \E w \in WaiversFor(f) : ~Active(w)

\* Only an active waiver of a reproduced fail result is accepted.
WaiverRefused(f) ==
    \E w \in WaiversFor(f) : OriginalEffect(f) # "fail" \/ ~Active(w)

\* pending_blocking_class and pending_high_severity_unreproduced, as a set.
PendingFor(f) ==
    IF WaiversFor(f) # {} \/ ~Unreproduced(f) THEN {}
    ELSE IF ConfiguredEffect(f) = "fail" THEN {"blocking_class"}
    ELSE IF f.severity = "high" THEN {"high_severity"}
    ELSE {}

GateOf(f) ==
    IF WaiversFor(f) # {} THEN "waiver"
    ELSE IF PendingFor(f) # {} THEN "none"
    ELSE OriginalEffect(f)

UnresolvedClaim == Range(outcomes) \cap {"inconclusive", "not_evaluated"} # {}

\* Mutant: a waiver on one finding hides the fail gate of another.
WaiverFirst ==
    IF "waiver" \in Range(gates) THEN "pass_with_waiver"
    ELSE IF "fail" \in Range(gates) THEN "fail"
    ELSE IF pending # {} \/ UnresolvedClaim THEN "needs_review"
    ELSE "pass"

Disposition ==
    IF "fail" \in Range(gates) THEN "fail"
    ELSE IF pending # {} \/ UnresolvedClaim THEN "needs_review"
    ELSE IF "waiver" \in Range(gates) THEN "pass_with_waiver"
    ELSE "pass"
-----------------------------------------------------------------------------
Init ==
    /\ \E in \in Inputs :
          /\ SchemaValid(in.contract, in.output)
          /\ contract = in.contract /\ output = in.output /\ probes = in.probes
    /\ pc = "import"
    /\ outcomes = <<>> /\ effects = DefaultEffects /\ applied = 0
    /\ waiting = {} /\ gates = <<>> /\ pending = {}
    /\ status = "none"

Refuse ==
    /\ pc' = "refused"
    /\ UNCHANGED <<inputs, outcomes, effects, applied, waiting, gates, pending, status>>

\* Unique finding ids, agreeing versions, consistent evidence, exact cover.
ImportReview ==
    /\ pc = "import" /\ ~DuplicateFindingIds /\ ~ResultsRefused
    /\ pc' = "claims"
    /\ UNCHANGED <<inputs, outcomes, effects, applied, waiting, gates, pending, status>>

RefuseReview == pc = "import" /\ (DuplicateFindingIds \/ ResultsRefused) /\ Refuse

NextResult == output.results[Len(outcomes) + 1]

GateClaim ==
    /\ pc = "claims" /\ Len(outcomes) < Len(output.results)
    /\ ~ResultRefused(NextResult)
    /\ outcomes' = Append(outcomes,
                          GatedOutcome(contract, NextResult, BindingEnforced(output)))
    /\ UNCHANGED <<inputs, pc, effects, applied, waiting, gates, pending, status>>

RefuseClaim ==
    /\ pc = "claims" /\ Len(outcomes) < Len(output.results)
    /\ ResultRefused(NextResult)
    /\ Refuse

\* _effects: the defaults, then each override in turn, so the last one wins.
ApplyOverride ==
    /\ pc = "claims" /\ Len(outcomes) = Len(output.results)
    /\ applied < Len(contract.overrides)
    /\ LET o == contract.overrides[applied + 1]
       IN  effects' = [c \in DOMAIN effects \cup {o.class} |->
                          IF c = o.class THEN o.effect ELSE effects[c]]
    /\ applied' = applied + 1
    /\ UNCHANGED <<inputs, pc, outcomes, waiting, gates, pending, status>>

EffectsReady ==
    /\ pc = "claims" /\ Len(outcomes) = Len(output.results)
    /\ applied = Len(contract.overrides)

AcceptPolicyInput ==
    /\ EffectsReady /\ ~PolicyInputRefused
    /\ pc' = "findings" /\ waiting' = Range(output.waivers)
    /\ UNCHANGED <<inputs, outcomes, effects, applied, gates, pending, status>>

RefusePolicyInput == EffectsReady /\ PolicyInputRefused /\ Refuse

NextFinding == Findings[Len(gates) + 1]

GateFinding ==
    /\ pc = "findings" /\ Len(gates) < Len(Findings)
    /\ ~WaiverRefused(NextFinding)
    /\ gates' = Append(gates, GateOf(NextFinding))
    /\ pending' = pending \cup PendingFor(NextFinding)
    /\ waiting' = waiting \ WaiversFor(NextFinding)
    /\ UNCHANGED <<inputs, pc, outcomes, effects, applied, status>>

RefuseWaiver ==
    /\ pc = "findings" /\ Len(gates) < Len(Findings)
    /\ WaiverRefused(NextFinding)
    /\ Refuse

\* The end of the loop.  A request left over would be refused.
Decide ==
    /\ pc = "findings" /\ Len(gates) = Len(Findings)
    /\ IF waiting # {} THEN pc' = "refused" /\ UNCHANGED status
                      ELSE pc' = "done" /\ status' = Disposition
    /\ UNCHANGED <<inputs, outcomes, effects, applied, waiting, gates, pending>>

Next ==
    \/ ImportReview \/ RefuseReview \/ GateClaim \/ RefuseClaim
    \/ ApplyOverride \/ AcceptPolicyInput \/ RefusePolicyInput
    \/ GateFinding \/ RefuseWaiver \/ Decide

Spec == Init /\ [][Next]_vars
-----------------------------------------------------------------------------
D == INSTANCE PolicyDecision WITH
        FailClasses <- {c \in DOMAIN DefaultEffects : DefaultEffects[c] = "fail"},
        AdvisoryClasses <- {c \in DOMAIN DefaultEffects : DefaultEffects[c] = "advisory"},
        verdict <- IF pc = "refused" THEN "refused" ELSE status

TypeOK ==
    /\ contract \in Contract /\ output \in ReviewerOutput /\ probes \in Seq(Finding)
    /\ pc \in {"import", "claims", "findings", "done", "refused"}
    /\ outcomes \in Seq(Outcomes) /\ Len(outcomes) <= Len(output.results)
    /\ DOMAIN DefaultEffects \subseteq DOMAIN effects
    /\ \A c \in DOMAIN effects : effects[c] \in Effects
    /\ applied \in 0 .. Len(contract.overrides)
    /\ waiting \subseteq Range(output.waivers)
    /\ gates \in Seq(GateEffects) /\ Len(gates) <= Len(Findings)
    /\ pending \subseteq {"blocking_class", "high_severity"}
    /\ status \in Statuses \cup {"none"}

\* A run is attested "pass" only when every contract claim was reported
\* supported on one item of evidence that carries it, no claim is refuted, no
\* finding is both proven and of a fail class, no blocking-class or
\* high-severity suspicion is left unproven, and no waiver was used
\* (policy.py evaluate_policy with evidence.py gate_claim_result).
PassIsEarned ==
    status = "pass" =>
        /\ \A claim \in contract.claims :
              \E r \in Range(output.results) : r.claim = claim /\ D!Supported(r)
        /\ \A r \in Range(output.results) : r.outcome = "supported"
        /\ \A f \in Range(Findings) : ~D!Unsettling(f) /\ ~(D!FailClass(f) /\ D!Proven(f))
        /\ output.waivers = <<>>

\* A run is attested "fail" only on a finding that was reproduced, and for an
\* absence conclusion after a complete search, that nobody waived; a suspicion
\* alone never fails a run.
FailIsProven ==
    status = "fail" => \E f \in Range(Findings) : D!Proven(f) /\ D!FailClass(f) /\ ~D!Waived(f)

\* Every waiver request of a decided run was consumed by the finding it names,
\* which proved a fail result; the check after the loop finds none left over.
WaiversConsumed ==
    pc = "done" =>
        /\ waiting = {}
        /\ \A w \in Range(output.waivers) : \E k \in DOMAIN gates :
              /\ Findings[k].id = w.finding /\ gates[k] = "waiver"
              /\ D!Proven(Findings[k]) /\ D!FailClass(Findings[k])

\* The conditions attestation.schema.json puts on a status and the gate effects
\* listed with it hold of every decision, so a legal review is never rejected
\* after the policy accepted it.
AttestationSchemaHolds ==
    /\ status = "fail" => "fail" \in Range(gates)
    /\ status = "pass_with_waiver" => "waiver" \in Range(gates) /\ "fail" \notin Range(gates)
    /\ status = "pass" => Range(gates) \cap {"fail", "waiver"} = {}

\* The loops decide exactly what the order-free specification decides, once.
ImplementsDecision == D!Spec
=============================================================================
