\* Every arrangement of star imports, base classes and test definitions of the
\* families, every pair of commits, with git's rename detection and a name it
\* quotes, and every way the clean-up may fail; two commands on a ledger of at most three
\* pieces; runs of the driver over two pull requests.  The probe stops.
SPECIFICATION OnDiskSpec
CONSTANTS
    a = a
    b = b
    c = c
    pkg = pkg
    both = both
    space = space
    gone = gone
    n = n
    _n = _n
    c1 = c1
    c2 = c2
    d1 = d1
    d2 = d2
    C = C
    D = D
    test = test
    helper = helper
    member = member
    target = target
    None = None
    Missing = Missing
    suite = suite
    Files = {a, b, c}
    Modules = {pkg, both, space, gone}
    Names = {n, _n}
    Private = {_n}
    Keys = {c1, c2, d1, d2}
    SimpleName <- MCSimpleName
    Items = {test, helper, member}
    Refs = {helper, member, target}
    impl = impl
    data = data
    below = below
    old = old
    layout = layout
    new = new
    garbled = garbled
    t1 = t1
    t2 = t2
    Paths = {impl, suite, data, below}
    TestPaths = {suite, data, below}
    TestFiles = {suite}
    PyPaths = {impl, suite}
    Quoted = {data}
    Under <- MCUnder
    DetectRenames = TRUE
    Contents = {old, layout, new, garbled}
    Ast <- MCAst
    Defs <- MCDefs
    Claimed <- MCClaimed
    Alike <- MCAlike
    u = u
    v = v
    style = style
    logic = logic
    Unset = Unset
    NoRecord = NoRecord
    Users = {u, v}
    Records <- MCRecords
    MaxLength = 3
    LastPr = 2
INVARIANT AbsenceIsExact
INVARIANT ClassAbsenceIsCertain
INVARIANT ClosureIsReachability
INVARIANT OverlayIsExact
INVARIANT CountIsExact
INVARIANT DiscoveryIsExact
INVARIANT OnlyWhatResistsStays
INVARIANT NothingAppendedIsLost
INVARIANT DamageHasACause
INVARIANT ChallengesAreTheWorst
PROPERTY DurableIsKept
INVARIANT SuccessMeansMeasured
INVARIANT ClonesAreRemoved
PROPERTY CompletedWorkIsKept
CHECK_DEADLOCK FALSE
