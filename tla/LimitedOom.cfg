\* The same command: whose kill is a SIGKILL that is not a timeout?
SPECIFICATION Spec
CONSTANTS
    child = child
    grandchild = grandchild
    None = None
    Descendants <- MCDescendants
INVARIANT OomIsTheLimiters
CHECK_DEADLOCK FALSE
