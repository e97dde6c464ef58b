\* 504 although no upstream is involved.
SPECIFICATION Spec
CONSTANTS
    SendMax = 2
    MaxBody = 2
    MaxFile = 3
    Extra = 1
    Pages = {}
    Timeouts = {"header", "body", "send"}
    Requests = {"file"}
    MaxAge = 1
    Unknown = Unknown
INVARIANTS GatewayMeansUpstream
CHECK_DEADLOCK FALSE
