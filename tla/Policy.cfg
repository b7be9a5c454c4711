\* One or two findings, up to two waivers and overrides, every evidence kind,
\* coverage and requirement for one claim.  A decided or refused import stops.
SPECIFICATION Spec
CONSTANTS
    c1 = c1
    c2 = c2
    e1 = e1
    e2 = e2
    e3 = e3
    f1 = f1
    f2 = f2
    i1 = i1
    i2 = i2
    ClaimIds <- MCClaimIds
    EvidenceIds <- MCEvidenceIds
    FindingIds <- MCFindingIds
    Issuers <- MCIssuers
    ErrorClasses <- MCErrorClasses
    Inputs <- MCInputs
    AttestedAt = 1
INVARIANT TypeOK
INVARIANT PassIsEarned
INVARIANT FailIsProven
INVARIANT WaiversConsumed
INVARIANT AttestationSchemaHolds
PROPERTY ImplementsDecision
CHECK_DEADLOCK FALSE
