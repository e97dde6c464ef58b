----------------------------- MODULE Connection ------------------------------
(***************************************************************************)
(* One connection: the Client of srcs/Client, the request object it        *)
(* creates, and the RequestContext they share.  Four handlers are called   *)
(* by the event loop in an order the peer, the CGI and the clock decide:   *)
(* handleIn and handleOut on the client socket, the same two on the CGI    *)
(* socket, and timeoutCheck after every batch.  They communicate only      *)
(* through the requestState flags, the status code and responseBuffer;     *)
(* whether what the peer receives is one well-formed answer depends on     *)
(* every one of these orders.                                              *)
(*                                                                         *)
(* Data are counted in units of which send, recv and read move at most     *)
(* SendMax at a time (REQ_BUFFER_SIZE): a response head is one unit, a     *)
(* built-in error page one, a file, a listing or a CGI output any number.  *)
(***************************************************************************)
EXTENDS Naturals

CONSTANTS
    SendMax,    \* REQ_BUFFER_SIZE
    MaxBody,    \* units of a request body
    MaxFile,    \* units of a file, a directory listing or a CGI's output
    Extra,      \* units the peer may send after its request
    Pages,      \* statuses for which a virtual server may have an error_page
    Timeouts,   \* timers whose configured value is not zero
    Requests,   \* what _resolveARequest may find, of Request
    MaxAge,     \* every timeout, in sweeps
    Unknown     \* no Content-Length header

Request == {"refused", "redirect", "file", "listing", "getError", "getCGI", "getForkFails", "head",
            "delete", "badBody", "uploadError", "upload", "putScript", "postCGI", "postForkFails"}
Timer == {"header", "body", "send"}
Error == {"error", "408", "504"}     \* 400 <= status < 600
Status == {"none", "ok"} \cup Error
Read == {"line", "hdr"}              \* REQ_STATE_CLIENT_READ_COMPLETE
ReadAll == Read \cup {"read"}        \* REQ_STATE_READ_COMPLETE
Work == {"workIn", "workOut", "cgiIn", "cgiOut"}
Flag == ReadAll \cup Work \cup {"canWrite", "cgiHdr"}
Off == MaxAge + 1                    \* numeric_limits<time_t>::max()

ASSUME ConnectionAssumption ==
    /\ SendMax \in Nat \ {0} /\ MaxBody \in Nat /\ MaxFile \in Nat /\ Extra \in Nat
    /\ MaxAge \in Nat \ {0}
    /\ Pages \subseteq Error /\ Timeouts \subseteq Timer /\ Requests \subseteq Request
    /\ Unknown \notin Nat

VARIABLES
    ctx,      \* the Client, its request and their RequestContext
    life,     \* "open", or how the connection ended: all was sent, the peer or
              \* an error ended it, it timed out, a handler threw
    peerOpen, \* the peer has not shut down its sending side
    got,      \* ghost: what the peer has received
    rebuilt,  \* ghost: a response was built, or its page opened, again once it
              \* could be written
    cause     \* ghost: why timeoutCheck answered: somebody was late, or nobody

vars == <<ctx, life, peerOpen, got, rebuilt, cause>>

Lesser(a, b) == IF a <= b THEN a ELSE b
Units == 0 .. (MaxFile + SendMax + 1)
Buffer == [head : BOOLEAN, len : Units, length : Units \cup {Unknown}]
Nothing == [head |-> FALSE, len |-> 0, length |-> Unknown]

Context ==
    [st : SUBSET Flag,                        \* requestState
     status : Status,                         \* response.statusCode()
     length : Units \cup {Unknown},           \* its Content-Length header
     body : 0 .. 1,                           \* response._body
     out : Buffer,                            \* responseBuffer
     pages : SUBSET Error,                    \* error pages of serverBlock
     method : {"none", "GET", "POST", "PUT", "HEAD", "DELETE"},  \* _request
     script : BOOLEAN,                        \* _cgiPath # NULL
     chunked : BOOLEAN,                       \* _chunked
     listing : BOOLEAN,                       \* _dir, not _file, is open
     file : Units,                            \* left to read from it
     left : 0 .. MaxBody,                     \* _contentLength
     buf : 0 .. MaxBody + Extra,              \* buffer
     page : 0 .. SendMax,                     \* left to read from _errorPage
     opened : BOOLEAN,                        \* _errorPage.is_open()
     cgi : SUBSET {"in", "out"},              \* what epoll watches cgiSockets for
     child : BOOLEAN,                         \* fork succeeded
     silent : BOOLEAN,                        \* _cgiSilent
     age : [Timer -> 0 .. Off],               \* now - _timestamp
     due : 0 .. MaxBody,                      \* body units the peer owes
     extra : 0 .. Extra]                      \* and those it may add

TypeOK ==
    /\ ctx \in Context
    /\ life \in {"open", "done", "lost", "expired", "thrown", "misused"}
    /\ peerOpen \in BOOLEAN
    /\ got \in [head : BOOLEAN, len : Units, length : Units \cup {Unknown}, bad : BOOLEAN]
    /\ rebuilt \in BOOLEAN
    /\ cause \in {"none", "late", "notLate", "noUpstream"}

(* Client::Client and Client::init. *)
Fresh ==
    [st |-> {}, status |-> "none", length |-> Unknown, body |-> 0, out |-> Nothing,
     pages |-> {}, method |-> "none", script |-> FALSE, chunked |-> FALSE,
     listing |-> FALSE, file |-> 0, left |-> 0, buf |-> 0, page |-> 0, opened |-> FALSE,
     cgi |-> {}, child |-> FALSE, silent |-> TRUE,
     age |-> [t \in Timer |-> IF t = "header" THEN 0 ELSE Off],
     due |-> 0, extra |-> Extra]

Init ==
    /\ ctx = Fresh
    /\ life = "open" /\ peerOpen = TRUE
    /\ got = [head |-> FALSE, len |-> 0, length |-> Unknown, bad |-> FALSE]
    /\ rebuilt = FALSE /\ cause = "none"

-----------------------------------------------------------------------------
(* Operations on the context.  One that can end in several ways is a set   *)
(* of results, each a return code and the new context.                     *)

Set(x, flags) == [x EXCEPT !.st = @ \cup flags]
Result(ret, x) == [ret |-> ret, x |-> x]

(* responseBuffer = response.response(); response.clearBody() *)
Built(x) ==
    [x EXCEPT !.out = [head |-> TRUE, len |-> x.body, length |-> x.length], !.body = 0]

Appended(x, n) == [x EXCEPT !.out.len = @ + n]

(* _loadErrorPage: a configured page is opened and read later (opening it  *)
(* twice fails and leaves the stream unreadable), else the built-in page   *)
(* is the body and nothing remains to be done.                             *)
LoadErrorPage(x) ==
    IF x.status \in x.pages
      THEN [x EXCEPT !.length = SendMax, !.page = IF x.opened THEN 0 ELSE SendMax,
                     !.opened = TRUE]
      ELSE [Set(x, Work) EXCEPT !.body = 1, !.length = 1]

(* Variant: the first read is taken for the whole page. *)
ReadErrorPageOnce(x) ==
    Set([Appended(x, Lesser(1, x.page)) EXCEPT !.page = 0], {"workOut"})

ReadErrorPage(x) ==
    IF x.page = 0 THEN Set(x, {"workOut"}) ELSE [Appended(x, x.page) EXCEPT !.page = 0]

(* Variant: the send timer is not started. *)
SwitchToWriteUntimed(x) == Set(x, {"canWrite"})

SwitchToWrite(x) == [Set(x, {"canWrite"}) EXCEPT !.age["send"] = 0]

(* _saveFile, once the whole body is there.  For a CGI the writing side is *)
(* shut down; an upload is renamed, which may fail.                        *)
SaveFile(x) ==
    IF x.script THEN {[x EXCEPT !.status = "ok", !.cgi = {"in"}]}
                ELSE {[x EXCEPT !.status = s] : s \in {"ok", "error"}}

(* _readContent and _readChunked: the body received so far goes to the     *)
(* temporary file or to the CGI.  A PUT whose path has a CGI extension has *)
(* no socket to send it to: send fails, and so does the epoll_ctl of       *)
(* _saveFile, which throws.                                                *)
ReadBody(x) ==
    LET finished == IF x.script THEN "continue" ELSE "done"
        more == {Result("continue", [x EXCEPT !.left = @ - x.buf, !.buf = 0])}
        whole == {Result(finished, Set([y EXCEPT !.left = 0, !.buf = 0], {"workIn", "cgiOut"})) :
                    y \in SaveFile(x)}
        refused == {Result(finished, Set([x EXCEPT !.status = "error"], {"workIn", "cgiOut"}))}
        failed == {Result("error", x)}
        nowhere == x.script /\ x.method = "PUT"
    IN  IF x.chunked /\ x.buf = 0 THEN {Result("continue", x)}
        ELSE (IF x.buf < x.left /\ ~nowhere THEN more ELSE {})
             \cup (IF (x.buf = x.left \/ (x.chunked /\ x.buf > x.left)) /\ ~nowhere THEN whole ELSE {})
             \cup (IF x.buf > x.left \/ x.chunked THEN refused ELSE {})
             \cup (IF x.script /\ (x.buf <= x.left \/ x.chunked) THEN failed ELSE {})
             \cup (IF nowhere /\ x.chunked THEN {Result("throw", x)} ELSE {})

(* The virtual handlers; the defaults of ARequest throw std::logic_error.  *)
Misused(x) == {Result("misuse", x)}

WorkIn(x) == IF x.method \in {"POST", "PUT"} THEN ReadBody(x) ELSE Misused(x)

CGIOut(x) == IF x.method = "POST" THEN ReadBody(x) ELSE Misused(x)

(* Variant and original: what one read from _file or _dir yields. *)
BufferSize(x) == SendMax

ReadSize(x) == Lesser(SendMax, x.file)

(* RequestGET::_readFile; a stream that is not open reads nothing. *)
ReadFile(x) ==
    {Result("continue",
            IF x.file = 0 THEN Set(x, {"workOut"})
            ELSE [Appended(x, ReadSize(x)) EXCEPT !.file = @ - ReadSize(x)])}

(* _readDir ends with the directory's last entry, or with an error. *)
ReadDir(x) ==
    LET y == [Appended(x, ReadSize(x)) EXCEPT !.file = @ - ReadSize(x)]
    IN  {Result("continue", IF y.file = 0 THEN Set(y, {"workOut"}) ELSE y),
         Result("error", [x EXCEPT !.status = "error"])}

WorkOut(x) ==
    CASE x.method = "POST" -> {Result("continue", Set(x, {"workOut"}))}
      [] x.method = "GET" /\ x.listing -> ReadDir(x)
      [] x.method = "GET" /\ ~x.listing -> ReadFile(x)
      [] OTHER -> Misused(x)

(* _readCGI and _parseCGIHeaders, for whatever the CGI has written: the    *)
(* end of its output, part of its headers, malformed headers, complete     *)
(* headers with some or no output behind them, or output.                  *)
Output(x, n) ==
    IF n = 0 THEN x ELSE [Appended(x, n) EXCEPT !.file = @ - n, !.silent = FALSE]

HeadOnly(x, status) ==
    [x EXCEPT !.status = status, !.length = Unknown, !.body = 0,
              !.out = [head |-> TRUE, len |-> 0, length |-> Unknown]]

ReadCGI(x) ==
    LET chunk == 0 .. Lesser(SendMax, x.file)
        end == Set(IF "cgiHdr" \in x.st THEN x ELSE HeadOnly(x, "error"), Work)
    IN  {Result("continue", end), Result("error", Set(x, Work))}
        \cup IF "cgiHdr" \in x.st
               THEN {Result("continue", Output(x, n)) : n \in chunk \ {0}}
               ELSE {Result("continue", x)}
                    \cup {Result("continue", Output(Set(HeadOnly(x, s), {"cgiHdr"}), n)) :
                            s \in {"ok", "error"}, n \in chunk}
                    \cup {Result("continue", Output(Set(HeadOnly(x, "error"), {"cgiHdr", "cgiIn"}), n)) :
                            n \in chunk}

CGIIn(x) ==
    IF x.method \notin {"GET", "POST"} THEN Misused(x)
    ELSE IF "cgiIn" \in x.st THEN {Result("continue", x)}
    ELSE ReadCGI(x)

-----------------------------------------------------------------------------
(* _resolveARequest with the constructors and processing() of the request  *)
(* classes: the contexts each kind of request can leave, one operator per  *)
(* outcome.  y is the context when the request has been routed.            *)

(* Every method sets the status it answers with; WORK_IN is set since      *)
(* nothing is left to read.                                                *)
Answered(y, method, status, flags) ==
    [Set(y, flags \cup {"workIn"}) EXCEPT !.method = method, !.status = status]

(* The body the request announces: n units, or chunks until n have come;   *)
(* and a body the server will not look at.                                 *)
Announces(y, n, c) == [y EXCEPT !.left = n, !.due = n, !.chunked = c]
Announced(y) == {Announces(y, n, c) : n \in 1 .. MaxBody, c \in BOOLEAN}

Ignored(y) == {[y EXCEPT !.due = n] : n \in 0 .. MaxBody}

Length == 1 .. MaxFile

(* Variants: a constructor that forgets one flag. *)
GetWithoutCgiIn == {"workIn", "cgiOut"}
PutWithoutWorkOut == {"cgiIn", "cgiOut"}

Get == {"workIn", "cgiOut", "cgiIn"}       \* RequestGET::RequestGET
Put == {"workOut", "cgiIn", "cgiOut"}      \* RequestPUT::RequestPUT
Post == {"workOut"}                        \* RequestPOST::RequestPOST

(* No location, or a method it does not allow; a redirect. *)
Unrouted(y) == {Answered(z, "none", "error", {}) : z \in Ignored(y)}

Redirected(y) == {Answered(y, "none", "ok", Work)}

(* RequestGET: _openFile, _openDir, and processing() when it opens neither *)
(* (an error, or a redirect to the directory's name with a slash).         *)
GetFile(y) ==
    {[Answered(y, "GET", "ok", Get) EXCEPT !.file = n, !.length = n] : n \in Length \cup {0}}

GetListing(y) ==
    {[Answered(y, "GET", "ok", Get) EXCEPT !.file = n, !.listing = TRUE, !.body = 1] : n \in Length}

GetAnswered(y) == {Answered(y, "GET", s, Get) : s \in {"ok", "error"}}

(* _openCGI: once the socket pair exists its parent end is watched, also   *)
(* when fork fails and the request is answered 500.                        *)
WithCGI(x, method, watch, forked) ==
    [x EXCEPT !.method = method, !.script = TRUE, !.cgi = watch, !.child = forked]

Started(y, method, flags, watch, n) ==
    [WithCGI(Set(y, flags), method, watch, TRUE) EXCEPT !.file = n]

ForkFailed(y, method, flags, watch) ==
    WithCGI(Answered(y, method, "error", flags), method, watch, FALSE)

GetScript(y, forked) ==
    IF forked
      THEN {Started(y, "GET", {"workIn", "cgiOut", "workOut"}, {"in"}, n) : n \in Length}
      ELSE {ForkFailed(y, "GET", Get, {"in"})}

PostScript(y, forked) ==
    IF forked
      THEN {Started(z, "POST", Post \cup {"workIn"}, {"in", "out"}, n) :
              z \in Announced(y), n \in Length}
      ELSE {ForkFailed(z, "POST", Post, {"in", "out"}) : z \in Announced(y)}

HeadAnswered(y) ==
    {[Answered(y, "HEAD", s, Work) EXCEPT !.length = n] : s \in {"ok", "error"}, n \in {1, Unknown}}

DeleteAnswered(y) == {Answered(y, "DELETE", s, Work) : s \in {"ok", "error"}}

(* _checkHeaders refused the body, or found it empty (204). *)
PostUnchecked(y) ==
    {Answered(z, "POST", s, Post \cup {"cgiIn", "cgiOut"}) : z \in Ignored(y), s \in {"ok", "error"}}

PutUnchecked(y) == {Answered(z, "PUT", s, Put) : z \in Ignored(y), s \in {"ok", "error"}}

(* processing() refuses the upload, or opens the temporary file for it. *)
PostAnswered(y) == {Answered(z, "POST", "error", Post \cup {"cgiIn"}) : z \in Ignored(y)}
PutAnswered(y) == {Answered(z, "PUT", "error", Put) : z \in Ignored(y)}
PostUpload(y) == {[Set(z, Post \cup {"cgiIn"}) EXCEPT !.method = "POST"] : z \in Announced(y)}
PutUpload(y, script) ==
    {[Set(z, Put) EXCEPT !.method = "PUT", !.script = script] : z \in Announced(y)}

Routed(y, req) ==
    CASE req = "refused" -> Unrouted(y)
      [] req = "redirect" -> Redirected(y)
      [] req = "file" -> GetFile(y)
      [] req = "listing" -> GetListing(y)
      [] req = "getError" -> GetAnswered(y)
      [] req = "getCGI" -> GetScript(y, TRUE)
      [] req = "getForkFails" -> GetScript(y, FALSE)
      [] req = "head" -> HeadAnswered(y)
      [] req = "delete" -> DeleteAnswered(y)
      [] req = "badBody" -> PostUnchecked(y) \cup PutUnchecked(y)
      [] req = "uploadError" -> PostAnswered(y) \cup PutAnswered(y)
      [] req = "upload" -> PostUpload(y) \cup PutUpload(y, FALSE)
      [] req = "putScript" -> PutUpload(y, TRUE)
      [] req = "postCGI" -> PostScript(y, TRUE)
      [] req = "postForkFails" -> PostScript(y, FALSE)

(* The virtual server that _parseRequest finds has error pages or not.     *)
Resolved(x, req) ==
    UNION {Routed([Set(x, Read) EXCEPT !.pages = p], req) : p \in {{}, Pages}}

-----------------------------------------------------------------------------
(* handleIn on the client socket. *)

(* Variant: the response is built whether or not its head is known. *)
RespondAtOnce(x) ==
    Result("continue",
           SwitchToWrite(Built(IF x.status \in Error THEN LoadErrorPage(x) ELSE x)))

(* _handleSocketIn from the error page on. *)
Respond(x) ==
    LET y == IF x.status \in Error THEN LoadErrorPage(x) ELSE x
        z == IF "cgiIn" \in y.st THEN Built(y) ELSE y
    IN  Result("continue", SwitchToWrite(z))

(* ... from workIn on. *)
Serve(x) ==
    IF x.method # "none" /\ "workIn" \notin x.st
      THEN {IF r.ret = "done" THEN Respond(r.x) ELSE r : r \in WorkIn([x EXCEPT !.age["body"] = 0])}
      ELSE {Respond(x)}

(* n units of body arrive, those the request announces first. *)
Received(x, n) ==
    LET owed == Lesser(n, x.due)
    IN  [x EXCEPT !.buf = @ + n, !.due = @ - owed, !.extra = @ - (n - owed)]

Arrivals(x) == 0 .. (x.due + x.extra)

(* _readSocket and _parseRequest while the request line and the headers    *)
(* are incomplete: they stay so, they are refused, or they are complete    *)
(* and the request is resolved with part of its body already in buffer.    *)
ReadHead(x) ==
    {Result("continue", x), Result("continue", Set(x, {"line"}))}
    \cup {Respond([Set(x, ReadAll \cup {"workIn"}) EXCEPT !.status = "error"])}
    \cup UNION {UNION {Serve(Received(y, n)) : n \in Arrivals(y)} :
                  y \in UNION {Resolved(x, req) : req \in Requests}}

(* ... once they are complete; after READ_COMPLETE nothing is read, though *)
(* input the peer has sent keeps the socket readable.                      *)
ReadMore(x) ==
    IF "read" \in x.st
      THEN IF x.extra > 0 \/ ~peerOpen THEN Serve(x) ELSE {}
      ELSE UNION {Serve([Received(x, n) EXCEPT !.age["body"] = 0]) : n \in Arrivals(x) \ {0}}

(* How the event loop ends a connection when a handler on its socket       *)
(* returns ret.                                                            *)
Ended(ret) ==
    CASE ret = "continue" -> "open" [] ret = "error" -> "lost"
      [] ret = "throw" -> "thrown" [] ret = "misuse" -> "misused"

HandleSocketIn ==
    /\ life = "open" /\ (peerOpen \/ "read" \in ctx.st)
    /\ \E r \in IF Read \subseteq ctx.st THEN ReadMore(ctx) ELSE ReadHead(ctx) :
         /\ ctx' = r.x
         /\ life' = Ended(r.ret)
         /\ rebuilt' = (rebuilt \/ /\ "canWrite" \in ctx.st /\ r.ret = "continue"
                                   /\ "cgiIn" \in r.x.st \/ ctx.opened)
    /\ UNCHANGED <<peerOpen, got, cause>>

(* recv returned 0 (a peer that has shut down only its sending side is     *)
(* lost too) or -1, send returned -1, or epoll reported a hang-up.         *)
PeerLost ==
    /\ life = "open"
    /\ life' = "lost"
    /\ UNCHANGED <<ctx, peerOpen, got, rebuilt, cause>>

PeerCloses ==
    /\ life = "open" /\ peerOpen
    /\ peerOpen' = FALSE
    /\ UNCHANGED <<ctx, life, got, rebuilt, cause>>

-----------------------------------------------------------------------------
(* handleOut on the client socket. *)

(* _handleSocketOut before _sendResponse. *)
Produce(x) ==
    IF "workOut" \in x.st THEN {Result("continue", x)}
    ELSE IF x.status \in Error THEN {Result("continue", ReadErrorPage(x))}
    ELSE IF x.method # "none" THEN WorkOut(x)
    ELSE {Result("continue", x)}

(* What the peer has after the first n units of the buffer b: a head after *)
(* anything else, or a body before a head, is not an HTTP response.        *)
Delivered(b, n) ==
    LET heads == IF b.head /\ n > 0 THEN 1 ELSE 0
        bad == \/ got.bad
               \/ heads = 1 /\ (got.head \/ got.len > 0)
               \/ n > heads /\ ~got.head /\ heads = 0
    IN  [head |-> got.head \/ heads = 1,
         len |-> IF bad THEN 0 ELSE got.len + (n - heads),
         length |-> IF bad THEN Unknown ELSE IF heads = 1 THEN b.length ELSE got.length,
         bad |-> bad]

Size(b) == IF b.head THEN b.len + 1 ELSE b.len

AllSent(x, rest) == Size(rest) = 0 /\ Work \subseteq x.st

(* _sendResponse: the accepted socket is blocking, so send takes all that  *)
(* it is given.                                                            *)
HandleSocketOut ==
    /\ life = "open" /\ "canWrite" \in ctx.st
    /\ \E r \in Produce(ctx) :
         LET b == r.x.out
             n == Lesser(SendMax, Size(b))
             rest == [head |-> b.head /\ n = 0,
                      len |-> b.len - (IF b.head /\ n > 0 THEN n - 1 ELSE n),
                      length |-> IF n = 0 THEN b.length ELSE Unknown]
         IN IF r.ret = "misuse"
              THEN life' = "misused" /\ UNCHANGED <<ctx, got>>
              ELSE /\ ctx' = [r.x EXCEPT !.out = rest, !.age["send"] = IF n > 0 THEN 0 ELSE @]
                   /\ got' = Delivered(b, n)
                   /\ life' = IF AllSent(r.x, rest) THEN "done" ELSE "open"
    /\ UNCHANGED <<peerOpen, rebuilt, cause>>

-----------------------------------------------------------------------------
(* The CGI socket.  REQ_DONE and REQ_ERROR remove nothing there.           *)

CgiStep(results) ==
    /\ \E r \in results :
         IF r.ret = "misuse" THEN life' = "misused" /\ UNCHANGED ctx
                             ELSE ctx' = r.x /\ UNCHANGED life
    /\ UNCHANGED <<peerOpen, got, rebuilt, cause>>

HandleCGIIn == life = "open" /\ "in" \in ctx.cgi /\ ctx.child /\ CgiStep(CGIIn(ctx))

HandleCGIOut == life = "open" /\ "out" \in ctx.cgi /\ CgiStep(CGIOut(ctx))

-----------------------------------------------------------------------------
(* timeoutCheck *)

Expired(x, t) == t \in Timeouts /\ x.age[t] = MaxAge

(* The whole answer: status, WORK_COMPLETE without WORK_OUT (until the     *)
(* built-in page is chosen), page, response, _switchToWrite.               *)
TimeoutAnswer(x, status, flags) ==
    LET y == [x EXCEPT !.status = status, !.st = (@ \cup flags \cup Work) \ {"workOut"}]
    IN  SwitchToWrite(Built(LoadErrorPage(y)))

Cleared(x) == [x EXCEPT !.status = "none", !.length = Unknown, !.body = 0]

(* Whether the peer still owes part of its request. *)
Incomplete(x) == ~(Read \subseteq x.st) \/ x.due > 0

HeaderTimeout(x) == "hdr" \notin x.st /\ Expired(x, "header")

(* Variant: the timer runs on when the body has been handled. *)
BodyTimeoutAlways(x) == Expired(x, "body")

BodyTimeout(x) == ~({"workIn", "cgiOut"} \subseteq x.st) /\ Expired(x, "body")

SendTimeout(x) == "canWrite" \in x.st /\ Expired(x, "send")

TimesOut(answer, c) ==
    /\ ctx' = answer
    /\ rebuilt' = (rebuilt \/ "canWrite" \in ctx.st)
    /\ cause' = c
    /\ UNCHANGED <<life, peerOpen, got>>

TimeoutCheck ==
    /\ life = "open"
    /\ \/ /\ HeaderTimeout(ctx)
          /\ TimesOut(TimeoutAnswer(ctx, "408", ReadAll), "late")
       \/ /\ ~HeaderTimeout(ctx) /\ BodyTimeout(ctx)
          /\ TimesOut(TimeoutAnswer(ctx, "408", {}), IF Incomplete(ctx) THEN "late" ELSE "notLate")
       \/ /\ ~HeaderTimeout(ctx) /\ ~BodyTimeout(ctx) /\ SendTimeout(ctx)
          /\ IF ctx.method = "none" \/ ~ctx.silent
               THEN life' = "expired" /\ UNCHANGED <<ctx, peerOpen, got, rebuilt, cause>>
               ELSE TimesOut(TimeoutAnswer(Cleared(ctx), "504", {}),
                             IF ctx.child THEN "late" ELSE "noUpstream")

(* A second passes: every running timer is one older. *)
Tick ==
    /\ life = "open"
    /\ \E t \in Timer : ctx.age[t] < MaxAge
    /\ ctx' = [ctx EXCEPT !.age = [t \in Timer |-> IF @[t] < MaxAge THEN @[t] + 1 ELSE @[t]]]
    /\ UNCHANGED <<life, peerOpen, got, rebuilt, cause>>

Next ==
    \/ HandleSocketIn \/ HandleSocketOut
    \/ HandleCGIIn \/ HandleCGIOut
    \/ TimeoutCheck \/ Tick
    \/ PeerLost \/ PeerCloses

Spec == Init /\ [][Next]_vars

(* Time passes and every batch ends with a sweep; a peer that reads makes  *)
(* its socket writable again and again.                                    *)
FairSpec == Spec /\ WF_vars(Tick) /\ WF_vars(TimeoutCheck) /\ WF_vars(HandleSocketOut)
-----------------------------------------------------------------------------
(* Properties. *)

(* The defaults of ARequest ("... should not be called", ARequest.cpp      *)
(* 87-105) are never reached: the flags each constructor sets and the      *)
(* descriptors each request registers keep every handler away from the     *)
(* methods that have none, also after a timeout cleared WORK_OUT.          *)
NoLogicError == life # "misused"

(* A configured page was chosen that goes out without a head (a request    *)
(* refused before it has a request object) or not at all (WORK_OUT was     *)
(* already complete).                                                      *)
PageDiverges ==
    ctx.opened /\ (ctx.method = "none" \/ (ctx.page > 0 /\ "workOut" \in ctx.st))

Diverged == rebuilt \/ PageDiverges

(* What the peer receives is one head and then a body, whatever the order  *)
(* of socket, CGI and timer events, unless responseBuffer was assigned     *)
(* anew (_handleSocketIn, timeoutCheck) when writing had been enabled, or  *)
(* a configured error page could not be sent.                              *)
WellFormed == ~Diverged => ~got.bad

(* A connection the server ends because all was sent has delivered exactly *)
(* the body its Content-Length announced (HEAD has none), under the same   *)
(* provisos.                                                               *)
LengthKept ==
    (life = "done" /\ ~Diverged /\ got.length # Unknown /\ ctx.method # "HEAD")
        => got.len = got.length

(* What the peer has seen of the exchange. *)
Phase ==
    CASE life = "done" -> "ended"
      [] life \notin {"open", "done"} -> "cut"
      [] life = "open" /\ got.bad -> "torn"
      [] life = "open" /\ ~got.bad -> IF got.head THEN "head" ELSE "waiting"

AnnouncedLength == IF ctx.method = "HEAD" THEN Unknown ELSE got.length

(* The connection implements HttpExchange: seen from the peer, the flags,  *)
(* handlers and timers are a response that comes once, head first, and     *)
(* whole if the server ends the connection.                                *)
Exchange == INSTANCE HttpExchange WITH
    MaxLength <- MaxFile + SendMax + 1,
    phase <- Phase,
    announced <- AnnouncedLength,
    received <- got.len,
    replaced <- Diverged

ImplementsExchange == Exchange!Spec

(* 408 without anything owed by the peer is answered only while a CGI is   *)
(* slow to take its input, or when a configured page was chosen: that      *)
(* leaves CGI_OUT open where the built-in page completes it.               *)
LateUnlessCGI == cause = "notLate" => ctx.script \/ ctx.opened

(* Liveness: whatever the peer and the CGI do, a connection whose peer     *)
(* reads comes to an end when all timeouts are set.  Known not to: a PUT   *)
(* on a path with a CGI extension, whose 400 nothing sends.                *)
Finishes == life = "open" ~> (life # "open" \/ (ctx.method = "PUT" /\ ctx.script))

(* webservHTML.hpp:177 of 504: it timed out waiting for an upstream        *)
(* server, so there is one.                                                *)
GatewayMeansUpstream == cause # "noUpstream"

(* RequestContext.hpp:39 of WORK_COMPLETE: the processing is complete, so  *)
(* input does not change a response whose head is sent and of which output *)
(* is left in the buffer.                                                  *)
CompleteIsFinal ==
    [][/\ HandleSocketIn
       /\ Work \cup {"canWrite"} \subseteq ctx.st
       /\ got.head /\ ctx.out.len > 0
       => ctx'.out = ctx.out]_vars

(* RequestContext.hpp:41 of CAN_WRITE: the response can be written, so     *)
(* what is written starts with its head.                                   *)
HeadFirst == got.bad => got.head
=============================================================================
