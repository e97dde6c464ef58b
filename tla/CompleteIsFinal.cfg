\* Request body behind a finished CGI rebuilds its response.
SPECIFICATION Spec
CONSTANTS
    SendMax = 2
    MaxBody = 2
    MaxFile = 3
    Extra = 0
    Pages = {}
    Timeouts = {"header", "body", "send"}
    Requests = {"postCGI"}
    MaxAge = 1
    Unknown = Unknown
PROPERTIES CompleteIsFinal
CHECK_DEADLOCK FALSE
