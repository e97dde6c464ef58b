----------------------------- MODULE BodyReader -----------------------------
(***************************************************************************)
(* How a request body is read: _readContent, _readChunked and _writeChunk  *)
(* of srcs/Request/ARequest-body.cpp with the operations of BinaryBuffer   *)
(* they use.  The body comes in fragments that the peer and the network    *)
(* choose; the reader keeps what it has not understood in the buffer and   *)
(* one integer, _contentLength, that is at once the length still to come   *)
(* and the state of the chunk parser.  For an upload every fragment is     *)
(* followed by workIn; for a CGI the fragments pile up in the buffer and   *)
(* CGIOut runs whenever the CGI's socket is writable.                      *)
(*                                                                         *)
(* A byte is one of a few letters: the digits the sizes need, CR, LF, and  *)
(* one that is no digit.  An int is IntMax wide.                           *)
(***************************************************************************)
EXTENDS Integers, Sequences

CONSTANTS
    Inputs,    \* requests: [chunked, length, bytes]
    Limits,    \* values of LocationBlock::getMaxBodySize()
    IntMax,    \* numeric_limits<int32_t>::max()
    Garbage    \* a byte that lies behind the buffer in memory

Digit == [d \in {"0", "1", "2", "4", "F"} |->
            CASE d = "0" -> 0 [] d = "1" -> 1 [] d = "2" -> 2 [] d = "4" -> 4 [] d = "F" -> 15]
Byte == DOMAIN Digit \cup {"x", "CR", "LF"}

ASSUME BodyReaderAssumption ==
    /\ IntMax \in Nat
    /\ \A r \in Inputs : r.bytes \in Seq(Byte) /\ r.length \in -2 .. IntMax /\ r.chunked \in BOOLEAN
    /\ Limits \subseteq -(IntMax + 1) .. IntMax
    /\ Garbage \notin Byte

Invalid == -2     \* CONTENT_LENGTH_INVALID
TooLarge == -1    \* CONTENT_LENGTH_TOO_LARGE
SizeDue == -1     \* "Need to read chunk size"

VARIABLES
    req,       \* the request
    meaning,   \* ghost: what its body means, read as a whole
    limit,     \* getMaxBodySize() of its location
    dest,      \* _cgiPath: "file" is the temporary file, "cgi" the CGI's socket
    whole,     \* ghost: the body came together with the head
    arrived,   \* how many of its bytes recv has returned
    buffer,    \* _context.buffer
    contentLength,       \* _contentLength
    contentTotalLength,  \* _contentTotalLength
    written,   \* what the file or the CGI has been given
    complete,  \* WORK_IN and CGI_OUT are complete
    verdict,   \* ghost: the first status the body led to
    watched,   \* CGIOut may be called: its socket is watched for EPOLLOUT
    cgiOpen,   \* the CGI has not closed its input
    pc         \* inside a call, where

reader == <<buffer, contentLength, contentTotalLength, written, complete, verdict, watched, pc>>
request == <<req, meaning, limit, dest, whole>>
vars == <<request, arrived, cgiOpen, reader>>

TypeOK ==
    /\ req \in Inputs /\ limit \in Limits /\ dest \in {"file", "cgi"}
    /\ arrived \in 0 .. Len(req.bytes)
    /\ buffer \in Seq(Byte)
    /\ contentLength \in -2 .. IntMax
    /\ contentTotalLength \in -(IntMax + 1) .. IntMax
    /\ written \in Seq(Byte \cup {Garbage})
    /\ verdict \in {"none", "saved", "204", "400", "413"}
    /\ {whole, complete, watched, cgiOpen} \subseteq BOOLEAN
    /\ pc \in {"headers", "idle", "content", "loop", "size", "data"}

-----------------------------------------------------------------------------
(* BinaryBuffer and sToContentLength. *)

CRLF == <<"CR", "LF">>

StartsWith(s, t) == Len(t) <= Len(s) /\ SubSeq(s, 1, Len(t)) = t

(* BinaryBuffer::compare() = 0: memcmp over the shorter of the two.        *)
Compares(s, t) == StartsWith(s, t) \/ StartsWith(t, s)

(* BinaryBuffer::find: where CR LF first occurs, 0 for npos.               *)
Occurrences(s) == {i \in 1 .. Len(s) - 1 : SubSeq(s, i, i + 1) = CRLF}
Find(s) == IF Occurrences(s) = {} THEN 0
           ELSE CHOOSE i \in Occurrences(s) : \A j \in Occurrences(s) : i <= j

Erased(s, n) == SubSeq(s, n + 1, Len(s))
First(s, n) == SubSeq(s, 1, IF n < Len(s) THEN n ELSE Len(s))

(* strtol in base 16: leading white space, then digits up to the end.      *)
Blank(s) == {i \in 0 .. Len(s) : \A j \in 1 .. i : s[j] \in {"CR", "LF"}}
Digits(s) == Erased(s, CHOOSE i \in Blank(s) : \A j \in Blank(s) : j <= i)

Value(s) ==
    LET v[i \in 0 .. Len(s)] == IF i = 0 THEN 0 ELSE 16 * v[i - 1] + Digit[s[i]] IN v[Len(s)]

(* sToContentLength; errno is not looked at, and a value beyond int32_t is *)
(* told from a malformed one.                                              *)
ToContentLength(line) ==
    LET d == Digits(line) IN
    IF d = <<>> \/ \E i \in 1 .. Len(d) : d[i] \notin DOMAIN Digit THEN Invalid
    ELSE IF Value(d) > IntMax THEN TooLarge
    ELSE Value(d)

(* Variant: a sum without a width; and the sum of two int32_t.             *)
Unbounded(n) == n

Wrapped(n) == ((n + IntMax + 1) % (2 * (IntMax + 1))) - (IntMax + 1)

Terminator == <<"0", "CR", "LF", "CR", "LF">>

(* _chunkTerminator[1 ..]: the terminator may still be on its way.         *)
TerminatorPart == {SubSeq(Terminator, 1, n) : n \in 1 .. 4}

-----------------------------------------------------------------------------
(* What the body is, read as a whole. *)

(* The size line that starts at byte i ends before CR LF at LineEnd(b, i),  *)
(* and the chunk it announces before byte DataEnd(b, i).                   *)
LineEnd(b, i) == Find(Erased(b, i - 1)) + i - 1
SizeAt(b, i) == ToContentLength(SubSeq(b, i, LineEnd(b, i) - 1))
DataEnd(b, i) == LineEnd(b, i) + 2 + SizeAt(b, i)

Broken == [data |-> <<>>, sum |-> 0, ok |-> FALSE]

(* The chunk at byte i, with what its CR LF leads to.                      *)
ChunkAt(b, i, rest) ==
    LET size == SizeAt(b, i) IN
    IF LineEnd(b, i) < i THEN Broken
    ELSE IF size = 0 THEN [Broken EXCEPT !.ok = StartsWith(Erased(b, i - 1), Terminator)]
    ELSE IF size < 0 THEN [Broken EXCEPT !.sum = IF size = TooLarge THEN IntMax + 1 ELSE 0]
    ELSE [data |-> First(Erased(b, LineEnd(b, i) + 1), size) \o rest.data,
          sum |-> size + rest.sum, ok |-> rest.ok]

(* From each byte on: the data of the chunks, the lengths they announce,   *)
(* and whether they end as a chunked body has to.                          *)
Chunks(b) ==
    LET read[i \in 1 .. Len(b) + 1] ==
            LET end == DataEnd(b, i) IN
            ChunkAt(b, i, IF StartsWith(Erased(b, end - 1), CRLF) THEN read[end + 2] ELSE Broken)
    IN  read

(* The body a request means, the length it announces, and whether it ends  *)
(* as it must.                                                             *)
Meaning(r) ==
    IF r.chunked THEN Chunks(r.bytes)[1]
    ELSE [data |-> First(r.bytes, r.length),
          sum |-> IF r.length = TooLarge THEN IntMax + 1 ELSE r.length,
          ok |-> Len(r.bytes) = r.length /\ r.length > 0]

(* The head has been parsed; the buffer holds what came with it. *)
Init ==
    /\ req \in Inputs /\ meaning = Meaning(req)
    /\ limit \in Limits /\ dest \in {"file", "cgi"}
    /\ arrived \in 0 .. Len(req.bytes)
    /\ whole = (arrived = Len(req.bytes))
    /\ buffer = SubSeq(req.bytes, 1, arrived)
    /\ contentLength = 0 /\ contentTotalLength = 0
    /\ written = <<>>
    /\ complete = FALSE /\ verdict = "none"
    /\ watched = FALSE /\ cgiOpen = TRUE
    /\ pc = "headers"

-----------------------------------------------------------------------------
(* How a call ends. *)

Verdict(v) == IF verdict = "none" THEN v ELSE verdict

Returns == pc' = "idle"

Completes(v) == complete' = TRUE /\ verdict' = Verdict(v) /\ Returns

(* A status from 400 on.  A CGI's socket stays watched.                    *)
Refuses(v) == Completes(v) /\ UNCHANGED <<written, watched>>

(* _saveFile: the file is closed and renamed, or the CGI's input is shut   *)
(* down and its socket is watched for EPOLLIN only.                        *)
Saves == Completes("saved") /\ watched' = FALSE

(* Variant: the whole buffer is handed on. *)
HandedBuffer(n) == buffer

(* What _writeChunk(n) hands on.  The CGI gets n bytes of the buffer; the  *)
(* file gets _contentLength bytes from where the buffer starts, whatever n *)
(* is and however few the buffer holds.  A negative length (after a        *)
(* malformed size line, for a CGI) runs behind the buffer.                 *)
Handed(n) ==
    IF dest = "cgi"
      THEN IF n < 0 THEN Append(buffer, Garbage) ELSE SubSeq(buffer, 1, n)
      ELSE [i \in 1 .. contentLength |-> IF i <= Len(buffer) THEN buffer[i] ELSE Garbage]

WriteFails == dest = "cgi" /\ ~cgiOpen

-----------------------------------------------------------------------------
(* Variant: the CGI's socket is watched for its output only. *)
WatchesIn == FALSE

(* _openCGI: option = EPOLLIN | EPOLLOUT. *)
WatchesOut == dest = "cgi"

(* processing() up to the point where the body can be read: the length is  *)
(* known, or the first size line is due.                                   *)
CheckHeaders ==
    /\ pc = "headers"
    /\ contentLength' = IF req.chunked THEN SizeDue ELSE req.length
    /\ IF req.chunked \/ req.length \in 1 .. limit
         THEN /\ pc' = IF dest = "cgi" THEN "idle" ELSE IF req.chunked THEN "loop" ELSE "content"
              /\ watched' = WatchesOut
              /\ UNCHANGED <<complete, verdict>>
         ELSE /\ Completes(IF req.length = Invalid THEN "400"
                           ELSE IF req.length = TooLarge \/ req.length > limit THEN "413" ELSE "204")
              /\ UNCHANGED watched
    /\ UNCHANGED <<request, arrived, cgiOpen, buffer, contentTotalLength, written>>

(* _readSocket appends a fragment; an upload goes on to workIn as long as  *)
(* WORK_IN is not complete.                                                *)
Receive ==
    /\ pc = "idle"
    /\ \E n \in arrived + 1 .. Len(req.bytes) :
         /\ arrived' = n
         /\ buffer' = buffer \o SubSeq(req.bytes, arrived + 1, n)
    /\ pc' = IF dest = "cgi" \/ complete THEN "idle" ELSE IF req.chunked THEN "loop" ELSE "content"
    /\ UNCHANGED <<request, cgiOpen, contentLength, contentTotalLength, written,
                   complete, verdict, watched>>

(* The CGI's socket is writable.  CGI_OUT being complete does not matter.  *)
CGIOut ==
    /\ pc = "idle" /\ watched
    /\ pc' = IF req.chunked THEN "loop" ELSE "content"
    /\ UNCHANGED <<request, arrived, cgiOpen, buffer, contentLength,
                   contentTotalLength, written, complete, verdict, watched>>

CgiCloses ==
    /\ dest = "cgi" /\ cgiOpen
    /\ cgiOpen' = FALSE
    /\ UNCHANGED <<request, arrived, reader>>

Call(step) ==
    /\ step
    /\ UNCHANGED <<request, arrived, cgiOpen>>

(* send() returns -1: REQ_ERROR, with the bytes still in the buffer.       *)
FailedWrite ==
    /\ WriteFails \/ contentLength < 0
    /\ Returns
    /\ UNCHANGED <<buffer, contentLength, contentTotalLength, written, complete, verdict, watched>>

ReadContent ==
    /\ pc = "content"
    /\ UNCHANGED contentTotalLength
    /\ \/ /\ Len(buffer) <= contentLength /\ ~WriteFails
          /\ written' = written \o Handed(Len(buffer))
          /\ contentLength' = contentLength - Len(buffer)
          /\ buffer' = <<>>
          /\ IF contentLength' = 0 THEN Saves ELSE Returns /\ UNCHANGED <<complete, verdict, watched>>
       \/ /\ Len(buffer) > contentLength
          /\ Refuses("400")
          /\ UNCHANGED <<buffer, contentLength>>

-----------------------------------------------------------------------------
(* _readChunked: one step for each part of its while loop. *)

LoopEnds ==
    /\ pc = "loop" /\ buffer = <<>>
    /\ Returns
    /\ UNCHANGED <<buffer, contentLength, contentTotalLength, written, complete, verdict, watched>>

(* Variant: one byte is enough to look for CR LF.                          *)
EndOfChunkAtOnce ==
    /\ pc = "loop" /\ buffer # <<>> /\ contentLength = 0
    /\ UNCHANGED contentTotalLength
    /\ IF StartsWith(buffer, CRLF)
         THEN /\ buffer' = Erased(buffer, 2) /\ contentLength' = SizeDue /\ pc' = "size"
              /\ UNCHANGED <<written, complete, verdict, watched>>
         ELSE Refuses("400") /\ UNCHANGED <<buffer, contentLength>>

EndOfChunk ==
    /\ pc = "loop" /\ buffer # <<>> /\ contentLength = 0
    /\ UNCHANGED contentTotalLength
    /\ \/ /\ StartsWith(buffer, CRLF)
          /\ buffer' = Erased(buffer, 2) /\ contentLength' = SizeDue
          /\ pc' = "size"
          /\ UNCHANGED <<written, complete, verdict, watched>>
       \/ /\ ~Compares(buffer, CRLF)
          /\ Refuses("400")
          /\ UNCHANGED <<buffer, contentLength>>
       \/ /\ buffer = <<"CR">>
          /\ Returns
          /\ UNCHANGED <<buffer, contentLength, written, complete, verdict, watched>>

(* Where a size line is read: without one in the buffer the call returns.  *)
AtSizeLine == pc = "size" \/ (pc = "loop" /\ buffer # <<>> /\ contentLength = SizeDue)

NoSizeLine ==
    /\ AtSizeLine /\ Find(buffer) = 0
    /\ Returns
    /\ UNCHANGED <<buffer, contentLength, contentTotalLength, written, complete, verdict, watched>>

Line == SubSeq(buffer, 1, Find(buffer) - 1)

(* An empty line, or one that is not a number. *)
BadSizeLine ==
    /\ AtSizeLine /\ Find(buffer) # 0
    /\ ToContentLength(Line) = Invalid
    /\ contentLength' = IF Line = <<>> THEN SizeDue ELSE Invalid
    /\ Refuses("400")
    /\ UNCHANGED <<buffer, contentTotalLength>>

(* A last chunk: saved if the buffer and the terminator agree as far as    *)
(* both go, waited for if the buffer starts like a shorter part of it.     *)
LastChunk ==
    /\ AtSizeLine /\ Find(buffer) # 0
    /\ ToContentLength(Line) = 0
    /\ UNCHANGED contentTotalLength
    /\ \/ /\ Compares(buffer, Terminator)
          /\ buffer' = <<>> /\ contentLength' = 0
          /\ Saves
          /\ UNCHANGED written
       \/ /\ ~Compares(buffer, Terminator)
          /\ UNCHANGED buffer
          /\ IF \E t \in TerminatorPart : Compares(buffer, t)
               THEN /\ contentLength' = SizeDue
                    /\ Returns
                    /\ UNCHANGED <<written, complete, verdict, watched>>
               ELSE contentLength' = 0 /\ Refuses("400")

(* Variant: only the chunk is compared with the limit. *)
TooMuchAtOnce(size, sum) == size = TooLarge \/ size > limit

TooMuch(size, sum) == size = TooLarge \/ size > limit \/ sum > limit

ChunkSize ==
    /\ AtSizeLine /\ Find(buffer) # 0
    /\ LET size == ToContentLength(Line) IN
         /\ size \notin {Invalid, 0}
         /\ contentLength' = size
         /\ contentTotalLength' = Wrapped(contentTotalLength + size)
         /\ buffer' = Erased(buffer, Find(buffer) + 1)
         /\ IF TooMuch(size, contentTotalLength')
              THEN Refuses("413")
              ELSE pc' = "data" /\ UNCHANGED <<written, complete, verdict, watched>>

(* "Read chunk", also when the size line was all there is in the buffer.   *)
(* More than the chunk: its bytes are handed on and erased.  A negative    *)
(* _contentLength, left by a refused size line, empties the buffer.        *)
ReadChunk ==
    /\ \/ pc = "data"
       \/ pc = "loop" /\ buffer # <<>> /\ contentLength \notin {SizeDue, 0}
    /\ ~WriteFails
    /\ UNCHANGED <<contentTotalLength, complete, verdict, watched>>
    /\ pc' = "loop"
    /\ IF Len(buffer) > contentLength
         THEN /\ written' = written \o Handed(contentLength)
              /\ buffer' = IF contentLength < 0 THEN <<>> ELSE Erased(buffer, contentLength)
              /\ contentLength' = 0
         ELSE /\ written' = written \o Handed(Len(buffer))
              /\ contentLength' = contentLength - Len(buffer)
              /\ buffer' = <<>>

WriteChunkFails ==
    /\ pc \in {"content", "data"} \/ (pc = "loop" /\ buffer # <<>> /\ contentLength \notin {SizeDue, 0})
    /\ pc = "content" => Len(buffer) <= contentLength
    /\ FailedWrite

Reading ==
    \/ ReadContent \/ LoopEnds \/ EndOfChunk \/ NoSizeLine \/ BadSizeLine \/ LastChunk
    \/ ChunkSize \/ ReadChunk \/ WriteChunkFails

Next == CheckHeaders \/ Receive \/ CGIOut \/ CgiCloses \/ Call(Reading)

Spec == Init /\ [][Next]_vars

Server == CheckHeaders \/ CGIOut \/ Call(Reading)

(* A call runs to its end.  epoll is level-triggered: between calls what   *)
(* has been sent is received, however often the CGI's socket is writable.  *)
FairSpec == Spec /\ WF_vars(Server) /\ SF_vars(Receive)
-----------------------------------------------------------------------------
(* Properties. *)

(* Until the body is refused, the CGI gets the body's own bytes, in order  *)
(* and each once, however the fragments fall (also inside a size line, a   *)
(* CR LF or the last chunk); when the body is saved it has got all of it.  *)
CgiGetsBody ==
    dest = "cgi" /\ verdict \in {"none", "saved"} =>
        /\ StartsWith(meaning.data, written)
        /\ verdict = "saved" => written = meaning.data

(* An upload whose body came whole with its head is stored as it was sent: *)
(* _writeChunk's use of _contentLength is right when the buffer holds all. *)
UploadInOnePiece == dest = "file" /\ whole /\ verdict = "saved" => written = meaning.data

(* Fragmentation never makes the reader refuse a well-formed body, and     *)
(* never makes it find one too large that is not (_readContent and         *)
(* _readChunked, 400 and 413).                                             *)
RefusedForCause ==
    /\ verdict = "400" => ~meaning.ok
    /\ verdict = "413" => meaning.sum > limit

(* client_max_body_size bounds what a CGI is given before a refusal, also  *)
(* over many chunks, as long as the sum cannot leave an int32_t.           *)
LimitKept ==
    (dest = "cgi" /\ verdict \in {"none", "saved"} /\ written # <<>> /\ 2 * limit <= IntMax)
        => Len(written) <= limit

(* Liveness: a well-formed body within the limit is taken to its end,      *)
(* unless the CGI stops reading.                                           *)
Accepted ==
    (pc = "headers" /\ meaning.ok /\ meaning.sum <= limit) ~> (verdict = "saved" \/ ~cgiOpen)

(* utils.cpp:10 of 201: the resource was created, from the body sent.      *)
UploadStored == dest = "file" /\ verdict = "saved" => written = meaning.data
=============================================================================
