\* Two uploads and a GET of one path, and a DELETE of what may be the name of a
\* temporary file of the uploads; the process may be killed once and one temporary
\* file removed by another program.
SPECIFICATION Spec
CONSTANTS
    Request <- MCRequest
    MethodOf <- MCMethodOf
    TargetOf <- MCTargetOf
    Base <- MCBase
    Temp <- MCTemp
    Target = {"d/f", "d/f.2"}
    Size = 1
    MaxTries = 2
    MaxDraws = 3
    MaxKills = 1
    MaxCleaned = 1
    MaxBefore = 1
    None = None
INVARIANTS TypeOK TempIsItsOwn PutLeavesNothing
PROPERTIES ImplementsStore
CHECK_DEADLOCK FALSE
