\* Every kind of request, virtual servers with and without error pages, every
\* timeout set, one surplus unit of input, a peer that reads.
SPECIFICATION FairSpec
CONSTANTS
    SendMax = 2
    MaxBody = 2
    MaxFile = 3
    Extra = 1
    Pages = {"error", "408", "504"}
    Timeouts = {"header", "body", "send"}
    Requests <- AllRequests
    MaxAge = 1
    Unknown = Unknown
INVARIANTS TypeOK NoLogicError WellFormed LengthKept LateUnlessCGI
PROPERTIES ImplementsExchange Finishes
CHECK_DEADLOCK FALSE
