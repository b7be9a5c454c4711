------------------------- MODULE EvidenceDiscipline -------------------------
(***************************************************************************)
(* Claim-bound evidence, kind requirements and absence coverage: the pure  *)
(* rules of validity_audit/evidence.py (schema 0.7.0).  An evidence item   *)
(* is a record; only the fields the rules read are kept.  An empty         *)
(* "covers" stands for a missing covers_claim_ids, and a coverage whose    *)
(* status is "absent" for a missing coverage block.  The scope text of a   *)
(* coverage block is not kept: the schema admits no blank one.             *)
(***************************************************************************)
EXTENDS Integers

CONSTANTS
    ClaimIds,      \* claim identifiers, known to the contract or not
    EvidenceIds    \* evidence identifiers

Kinds == {"command", "file_line", "digest", "note"}

NoKind == "any"

EvidenceDisciplineVersion == "0.7.0"

Coverage ==
    [status: {"absent", "complete", "partial", "unknown"},
     truncated: BOOLEAN, omitted: Nat]

Evidence ==
    [id: EvidenceIds, kind: Kinds, covers: SUBSET ClaimIds, coverage: Coverage]

\* The substitution table, keyed by the required kind.
SatisfyingKinds ==
    [command   |-> {"command"},
     file_line |-> {"command", "file_line"},
     digest    |-> {"digest"},
     note      |-> {"command", "file_line", "digest", "note"}]

KindSatisfies(actual, required) == actual \in SatisfyingKinds[required]

CoverageProvesAbsence(item) ==
    /\ item.coverage.status = "complete"
    /\ ~item.coverage.truncated
    /\ item.coverage.omitted = 0

BindingEnforced(output) == output.version = EvidenceDisciplineVersion

\* A 0.7.0 contract may only be reviewed by a 0.7.0 reviewer output.
VersionsAgree(contract, output) ==
    contract.version = EvidenceDisciplineVersion => BindingEnforced(output)

\* Covered claims exist, and one evidence id denotes one item.
EvidenceConsistent(contract, items) ==
    /\ \A item \in items : item.covers \subseteq contract.claims
    /\ \A a, b \in items : a.id = b.id => a = b

\* The evidence of a claim result that counts toward its claim.
Counted(result, enforced) ==
    IF enforced THEN {item \in result.evidence : result.claim \in item.covers}
                ELSE result.evidence

\* No evidence item of the result is bound to the claim.
Unbound(result, enforced) == Counted(result, enforced) = {}

\* The claim requires a kind that no counted item satisfies.
KindInsufficient(contract, result, enforced) ==
    LET required == contract.required[result.claim]
    IN  /\ required # NoKind
        /\ ~\E item \in Counted(result, enforced) : KindSatisfies(item.kind, required)

\* Mutant: the kind and the coverage may come from two different items.
AbsenceUnprovenSplit(contract, result, enforced) ==
    /\ result.claim \in contract.absence
    /\ ~\E item \in Counted(result, enforced) : CoverageProvesAbsence(item)

\* An absence claim without one item that meets the kind and covers the search.
AbsenceUnproven(contract, result, enforced) ==
    LET required == contract.required[result.claim]
    IN  /\ result.claim \in contract.absence
        /\ ~\E item \in Counted(result, enforced) :
               /\ CoverageProvesAbsence(item)
               /\ required = NoKind \/ KindSatisfies(item.kind, required)

\* The outcome after the gate: a supported claim whose evidence falls short is
\* inconclusive, and every other outcome is left as the reviewer gave it.
GatedOutcome(contract, result, enforced) ==
    IF /\ result.outcome = "supported"
       /\ \/ Unbound(result, enforced)
          \/ KindInsufficient(contract, result, enforced)
          \/ AbsenceUnproven(contract, result, enforced)
    THEN "inconclusive"
    ELSE result.outcome

\* Whether an absence finding's own evidence carries a complete search.
AbsenceFindingProven(finding) ==
    \E item \in finding.evidence : CoverageProvesAbsence(item)
=============================================================================
