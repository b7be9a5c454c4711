--------------------------- MODULE PolicyDecision ---------------------------
(***************************************************************************)
(* What the policy promises, stated over sets: the verdict on a review is  *)
(* a function of the contract, the set of findings, the claim results and  *)
(* the waivers, whatever the order in which the loops of Policy.tla visit  *)
(* them.  No definition here follows the code; each says what the README   *)
(* and the policy docstrings promise of a disposition.                     *)
(***************************************************************************)
EXTENDS EvidenceDiscipline, Sequences, Functions

CONSTANTS
    FailClasses, AdvisoryClasses,   \* default effect of an error class
    AttestedAt

VARIABLES contract, output, probes, verdict

vars == <<contract, output, probes, verdict>>

AllFindings == Range(probes) \cup Range(output.findings)
Results == Range(output.results)
Waivers == Range(output.waivers)
-----------------------------------------------------------------------------
\* The strength order of evidence kinds, note weakest, digest apart.
AtLeast(actual, required) ==
    \/ actual = required
    \/ required = "note"
    \/ actual = "command" /\ required = "file_line"

CompleteSearch(item) ==
    item.coverage \in [status: {"complete"}, truncated: {FALSE}, omitted: {0}]

\* One item of evidence that by itself carries the claim.
Carries(item, r) ==
    /\ output.version = "0.7.0" => r.claim \in item.covers
    /\ contract.required[r.claim] # NoKind =>
          AtLeast(item.kind, contract.required[r.claim])
    /\ r.claim \in contract.absence => CompleteSearch(item)

Supported(r) == r.outcome = "supported" /\ \E item \in r.evidence : Carries(item, r)

Settled(r) == r.outcome = "refuted" \/ Supported(r)

\* The overrides that decide the effect of a class: the last one naming it.
Deciding(class) ==
    {k \in DOMAIN contract.overrides :
        /\ contract.overrides[k].class = class
        /\ \A j \in DOMAIN contract.overrides :
              j > k => contract.overrides[j].class # class}

HasEffect(class, effect) ==
    \/ \E k \in Deciding(class) : contract.overrides[k].effect = effect
    \/ Deciding(class) = {} /\ effect = "fail" /\ class \in FailClasses
    \/ Deciding(class) = {} /\ effect = "advisory" /\ class \in AdvisoryClasses

CitedByRefutation(f) == \E r \in Results : r.outcome = "refuted" /\ f.id \in r.findings

FailClass(f) == CitedByRefutation(f) \/ HasEffect(f.class, "fail")

\* Reproduced, and for an absence conclusion after a complete search.
Proven(f) ==
    /\ f.reproduction = "reproduced"
    /\ f.absence => \E item \in f.evidence : CompleteSearch(item)

Waived(f) == \E w \in Waivers : w.finding = f.id

\* A proven finding of a fail class that nobody waived.
Fails(f) == FailClass(f) /\ Proven(f) /\ ~Waived(f)

\* A suspicion that may not pass silently.
Unsettling(f) == ~Proven(f) /\ (FailClass(f) \/ f.severity = "high")
-----------------------------------------------------------------------------
UniqueBy(s, keys) == \A i, j \in DOMAIN s : keys[i] = keys[j] => i = j

AcceptableResults ==
    /\ {r.claim : r \in Results} = contract.claims
    /\ UniqueBy(output.results, [i \in DOMAIN output.results |-> output.results[i].claim])
    /\ \A r \in Results :
          /\ r.findings \subseteq {f.id : f \in AllFindings}
          /\ r.outcome = "refuted" => r.findings # {}

AcceptableEvidence ==
    LET reviewed ==
            UNION {r.evidence : r \in Results \cup Range(output.findings)}
    IN  /\ contract.version = "0.7.0" => output.version = "0.7.0"
        /\ output.version = "0.7.0" =>
              /\ \A item \in reviewed : item.covers \subseteq contract.claims
              /\ \A a, b \in reviewed : a.id = b.id => a = b

AcceptableFindings ==
    LET all == probes \o output.findings
    IN  /\ UniqueBy(all, [i \in DOMAIN all |-> all[i].id])
        /\ \A f \in AllFindings : \E e \in {"fail", "advisory", "none"} :
              HasEffect(f.class, e)

AcceptableWaivers ==
    /\ UniqueBy(output.waivers, [i \in DOMAIN output.waivers |-> output.waivers[i].finding])
    /\ \A w \in Waivers :
          /\ w.issuer \in contract.issuers
          /\ w.issued <= AttestedAt /\ AttestedAt < w.expires
          /\ \E f \in AllFindings : f.id = w.finding /\ FailClass(f) /\ Proven(f)

Acceptable ==
    AcceptableResults /\ AcceptableEvidence /\ AcceptableFindings /\ AcceptableWaivers

Verdict ==
    IF ~Acceptable THEN "refused"
    ELSE IF \E f \in AllFindings : Fails(f) THEN "fail"
    ELSE IF \/ \E f \in AllFindings : Unsettling(f)
            \/ \E r \in Results : ~Settled(r)
         THEN "needs_review"
    ELSE IF Waivers # {} THEN "pass_with_waiver"
    ELSE "pass"
-----------------------------------------------------------------------------
Init == verdict = "none"

Decide == verdict = "none" /\ verdict' = Verdict /\ UNCHANGED <<contract, output, probes>>

Spec == Init /\ [][Decide]_vars
=============================================================================
