\* An upload whose body comes in pieces is stored wrong.
SPECIFICATION Spec
CONSTANTS
    Inputs <- Uploads
    Limits = {3}
    IntMax = 7
    Garbage = Garbage
INVARIANTS UploadStored
CHECK_DEADLOCK FALSE
