\* Two operators prepare in one run directory at once; nothing is edited and
\* nothing crashes.
SPECIFICATION Spec
CONSTANTS
    Operators = {o1, o2}
    RunDirs = {d1}
    Contracts = {k1}
    Artifacts = {a1}
    Reviews = {good}
    Transcripts = {t1}
    good = good
    bad = bad
    refused = refused
    Verdict <- MCVerdict
    InvalidContract = kbad
    Torn = torn
    None = none
    SharedId = FALSE
    LedgerModes = {TRUE}
    MidCommandEdits = FALSE
    Exclusive = FALSE
    MaxCommands = 2
    MaxEdits = 0
    MaxAborts = 0
PROPERTY NothingOverwritten
CHECK_DEADLOCK FALSE
