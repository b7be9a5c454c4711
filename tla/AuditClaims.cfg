\* One operator whose contract or artifact is edited once while a command runs.
SPECIFICATION Spec
CONSTANTS
    Operators = {o1}
    RunDirs = {d1}
    Contracts = {k1, k2}
    Artifacts = {a1, a2}
    Reviews = {good}
    Transcripts = {t1}
    good = good
    bad = bad
    refused = refused
    Verdict <- MCVerdict
    InvalidContract = kbad
    Torn = torn
    None = none
    SharedId = FALSE
    LedgerModes = {TRUE}
    MidCommandEdits = TRUE
    Exclusive = TRUE
    MaxCommands = 2
    MaxEdits = 1
    MaxAborts = 0
INVARIANT AttestedEvidenceWasShown
CHECK_DEADLOCK FALSE
