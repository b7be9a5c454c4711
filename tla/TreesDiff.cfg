\* With git's rename detection, which is on unless configured, a file moved from
\* the implementation to the tests goes unseen.
SPECIFICATION TreesSpec
CONSTANTS
    impl = impl
    suite = suite
    data = data
    below = below
    old = old
    layout = layout
    new = new
    garbled = garbled
    t1 = t1
    t2 = t2
    Missing = Missing
    Paths = {impl, suite, data, below}
    TestPaths = {suite, data, below}
    TestFiles = {suite}
    PyPaths = {impl, suite}
    Quoted = {}
    Under <- MCUnder
    DetectRenames = TRUE
    Contents = {old, layout, new, garbled}
    Ast <- MCAst
    Defs <- MCDefs
    Claimed <- MCClaimed
    Alike <- MCAlike
INVARIANT NoImplementationChangeIsSeen
CHECK_DEADLOCK FALSE
