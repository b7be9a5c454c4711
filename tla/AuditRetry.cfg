\* Two operators finalize two runs under one attestation id; nothing is edited
\* and nothing crashes.
SPECIFICATION Spec
CONSTANTS
    Operators = {o1, o2}
    RunDirs = {d1, d2}
    Contracts = {k1}
    Artifacts = {a1}
    Reviews = {good}
    Transcripts = {t1}
    good = good
    bad = bad
    refused = refused
    Verdict <- MCVerdict
    InvalidContract = kbad
    Torn = torn
    None = none
    SharedId = TRUE
    LedgerModes = {TRUE}
    MidCommandEdits = FALSE
    Exclusive = TRUE
    MaxCommands = 4
    MaxEdits = 0
    MaxAborts = 0
INVARIANT AwaitingIsRetryable
CHECK_DEADLOCK FALSE
