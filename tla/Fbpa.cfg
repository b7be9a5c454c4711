\* One claim of each kind with every run pytest may leave behind, repeated twice,
\* or none or two claims with a few of them.  The probe stops once it has reported
\* or raised.
SPECIFICATION MCSpec
CONSTANTS
    p = p
    q = q
    module = module
    x = x
    y = y
    None = None
    CaseNames <- MCCaseNames
    Symbols = {x, y}
    ClaimLists <- UpToTwoClaims
    BaseRuns <- MCBaseRuns
    HeadRuns <- MCHeadRuns
    Backends = {"systemd-run", "rlimit", "none"}
    Repeats = 2
    Overrides <- MCOverrides
INVARIANT TypeOK
INVARIANT CleanIsEarned
INVARIANT ConvictionIsMeasured
INVARIANT FlakyIsCaught
INVARIANT EnvironmentIsNeverAdvice
INVARIANT DispositionIsEarned
INVARIANT AccountingAddsUp
CHECK_DEADLOCK FALSE
