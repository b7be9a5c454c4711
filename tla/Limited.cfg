\* A command that may fork twice, under each memory limiter. The call ends.
SPECIFICATION Spec
CONSTANTS
    child = child
    grandchild = grandchild
    None = None
    Descendants <- MCDescendants
INVARIANT TypeOK
INVARIANT OnlyEscapeesSurvive
INVARIANT MeasurementIsWhole
INVARIANT KillsAreToldApart
PROPERTY AlwaysReturns
PROPERTY ScopeEmpties
CHECK_DEADLOCK FALSE
