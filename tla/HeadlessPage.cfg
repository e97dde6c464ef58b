\* A configured page is sent without a head.
SPECIFICATION Spec
CONSTANTS
    SendMax = 2
    MaxBody = 2
    MaxFile = 3
    Extra = 1
    Pages = {"error"}
    Timeouts = {"header", "body", "send"}
    Requests = {"refused"}
    MaxAge = 1
    Unknown = Unknown
INVARIANTS HeadFirst
CHECK_DEADLOCK FALSE
