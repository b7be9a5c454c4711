\* Two repeats at base that fail to import different names.
SPECIFICATION Spec
CONSTANTS
    p = p
    q = q
    module = module
    x = x
    y = y
    None = None
    CaseNames <- MCCaseNames
    Symbols = {x, y}
    ClaimLists <- OneClaim
    BaseRuns <- MCBaseRuns
    HeadRuns <- MCHeadRuns
    Backends = {"rlimit"}
    Repeats = 2
    Overrides <- MCOverrides
INVARIANT SymbolIsStable
CHECK_DEADLOCK FALSE
