\* Right and nearly right bodies in all fragmentations, limits below and beyond
\* half an int, and one that client_max_body_size made negative.
SPECIFICATION FairSpec
CONSTANTS
    Inputs <- MCInputs
    Limits <- MCLimits
    IntMax = 7
    Garbage = Garbage
INVARIANTS TypeOK CgiGetsBody UploadInOnePiece RefusedForCause LimitKept
PROPERTIES Accepted
CHECK_DEADLOCK FALSE
