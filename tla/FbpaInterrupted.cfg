\* A head run that pytest ends early, as pytest.exit does.
SPECIFICATION Spec
CONSTANTS
    p = p
    q = q
    module = module
    x = x
    y = y
    None = None
    CaseNames <- MCCaseNames
    Symbols = {x, y}
    ClaimLists <- OneClaim
    BaseRuns <- MCBaseRuns
    HeadRuns <- MCHeadRuns
    Backends = {"rlimit"}
    Repeats = 2
    Overrides <- MCOverrides
INVARIANT ClearedCasesAllRan
CHECK_DEADLOCK FALSE
