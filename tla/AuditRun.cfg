\* Two operators, two run directories, distinct attestation ids; an edit between
\* commands and a command interrupted anywhere.  The model stops at its bounds.
SPECIFICATION Spec
CONSTANTS
    Operators = {o1, o2}
    RunDirs = {d1, d2}
    Contracts = {k1, k2}
    Artifacts = {a1, a2}
    Reviews = {good, bad}
    Transcripts = {t1, t2}
    good = good
    bad = bad
    refused = refused
    Verdict <- MCVerdict
    InvalidContract = kbad
    Torn = torn
    None = none
    SharedId = FALSE
    LedgerModes = {TRUE}
    MidCommandEdits = FALSE
    Exclusive = TRUE
    MaxCommands = 4
    MaxEdits = 1
    MaxAborts = 1
INVARIANT TypeOK
INVARIANT RetainedEvidenceIsBound
INVARIANT ReceiptsMatch
INVARIANT FinalStateIsComplete
PROPERTY ImplementsRecord
PROPERTY NothingOverwritten
CHECK_DEADLOCK FALSE
SYMMETRY Interchange
