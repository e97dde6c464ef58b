----------------------------- MODULE CgiExchange -----------------------------
(***************************************************************************)
(* A POST or GET whose answer comes from a CGI program: the one thread of  *)
(* the server (srcs/Server.cpp), the program, and the socket pair between  *)
(* them.  Both ends of the pair block, and so does the client's socket,    *)
(* which is accepted without SOCK_NONBLOCK.  While a send() or waitpid()   *)
(* waits nothing else of the server runs: no other connection, no timer,   *)
(* no reading of the program's output.  CGIOut (ARequest-body.cpp) and     *)
(* _readCGI (ARequest-cgi.cpp) run when epoll reports the parent's end;    *)
(* what they return decides whether the rest of the batch is handled.      *)
(*                                                                         *)
(* Bodies and outputs are counted in units.  The first unit a program      *)
(* writes ends its headers.  The other connections of the server are one   *)
(* item, "other", which is ready or is not.                                *)
(***************************************************************************)
EXTENDS Integers, Sequences, FiniteSetsExt

CONSTANTS
    Bodies,    \* Content-Lengths of a request; 0 is a GET
    Programs,  \* CGI programs: sequences of "read", "write", "hang"
    Cap,       \* what the socket pair holds in one direction
    ReadSize,  \* REQ_BUFFER_SIZE
    Window     \* what a client's socket holds

ASSUME CgiExchangeAssumption ==
    /\ Bodies \subseteq Nat
    /\ \A p \in Programs : p \in Seq({"read", "write", "hang"})
    /\ Cap \in Nat \ {0} /\ ReadSize \in Nat \ {0} /\ Window \in Nat \ {0}

VARIABLES
    body,      \* the length of the request's body
    program,   \* what the CGI does
    (* the peer *)
    unsent,    \* units of the body it has not sent
    inbound,   \* units in the client socket, not received
    outbound,  \* units of the answer in the client socket
    lost,      \* the connection is reset
    (* the Client *)
    client,    \* "open" or "gone"
    buffer,    \* _context.buffer
    due,       \* _contentLength
    work,      \* WORK_COMPLETE
    silent,    \* _cgiSilent
    out,       \* responseBuffer
    delivered, \* ghost: units of this response that have been sent
    ending,    \* ghost: how the answer ended: "cgi", "500", "timeout", "lost",
               \* or "again", when a response built anew has taken its place
    late,      \* which of its timestamps are too old
    (* the socket pair and the child *)
    watch,     \* the events epoll reports of the parent's end
    eof,       \* the server has shut down its sending side
    toCgi,     \* units in the direction of the program
    toServer,  \* units in the direction of the server
    reset,     \* the program left input unread: ECONNRESET is pending
    cgi,       \* "running", "killed", "zombie", "reaped"
    done,      \* how much of the program has run
    (* the thread *)
    pc,        \* "wait", "batch", in send() to the program "sending" or to the
               \* peer "answering", in _removeConnection "reap", "waitpid"
    batch,     \* the events to be handled
    queue,     \* epoll's list of ready descriptors
    sent,      \* in send() to the program: units taken by the kernel
    taken,     \* in send() to the peer: units taken by the kernel
    waiting    \* another connection is ready

peer == <<unsent, inbound, outbound, lost>>
answer == <<work, silent, out, delivered, ending>>
pair == <<eof, toCgi, toServer, reset>>
child == <<cgi, done>>
thread == <<pc, batch, queue, sent, taken>>
vars == <<body, program, peer, client, buffer, due, answer, late, watch, pair, child, thread, waiting>>

Item == {"client", "cgi", "other"}

TypeOK ==
    /\ body \in Bodies /\ program \in Programs
    /\ unsent \in 0 .. body /\ inbound \in 0 .. body /\ buffer \in 0 .. body
    /\ due \in 0 .. body /\ sent \in 0 .. body
    /\ outbound \in 0 .. Window
    /\ out \in 0 .. Len(program) + 1 /\ delivered \in 0 .. Len(program) + 1
    /\ taken \in 0 .. Len(program) + 1
    /\ lost \in BOOLEAN /\ work \in BOOLEAN /\ silent \in BOOLEAN
    /\ eof \in BOOLEAN /\ reset \in BOOLEAN /\ waiting \in BOOLEAN
    /\ client \in {"open", "gone"}
    /\ ending \in {"none", "cgi", "500", "timeout", "lost", "again"}
    /\ late \subseteq {"body", "send"} /\ watch \subseteq {"in", "out"}
    /\ toCgi \in 0 .. Cap /\ toServer \in 0 .. Cap
    /\ cgi \in {"running", "killed", "zombie", "reaped"} /\ done \in 0 .. Len(program)
    /\ pc \in {"wait", "batch", "sending", "answering", "reap", "waitpid"}
    /\ batch \in Seq(Item \X SUBSET {"in", "out", "hup"}) /\ queue \in Seq(Item)

-----------------------------------------------------------------------------
(* The CGI program. *)

Running == cgi = "running" /\ done < Len(program)
Operation == program[done + 1]

(* What a program has read or written when it has run to step n.           *)
CountOf(op, n) == Cardinality({i \in 1 .. n : program[i] = op})
Written == CountOf("write", done)

(* The server has shut down its sending side, or closed the descriptor;    *)
(* what it has left unread then makes an error of the end.                 *)
InputEnded == eof \/ client = "gone"

CgiReads ==
    /\ Running /\ Operation = "read"
    /\ \/ toCgi > 0 /\ toCgi' = toCgi - 1
       \/ toCgi = 0 /\ InputEnded /\ UNCHANGED toCgi
    /\ done' = done + 1
    /\ UNCHANGED <<body, program, peer, client, buffer, due, answer, late, watch, eof, toServer,
                   reset, cgi, thread, waiting>>

(* With the server's end closed SIGPIPE ends the program.                  *)
CgiWrites ==
    /\ Running /\ Operation = "write"
    /\ IF client = "gone"
       THEN cgi' = "killed" /\ UNCHANGED <<toServer, done>>
       ELSE /\ toServer < Cap
            /\ toServer' = toServer + 1 /\ done' = done + 1 /\ UNCHANGED cgi
    /\ UNCHANGED <<body, program, peer, client, buffer, due, answer, late, watch, eof, toCgi,
                   reset, thread, waiting>>

(* The end of the program, or of the process that was killed.              *)
CgiEnds ==
    /\ (cgi = "killed" \/ (cgi = "running" /\ done = Len(program)))
    /\ cgi' = "zombie" /\ reset' = (toCgi > 0) /\ toCgi' = 0
    /\ UNCHANGED <<body, program, peer, client, buffer, due, answer, late, watch, eof, toServer,
                   done, thread, waiting>>

(* The parent closed the child's end after fork(), so the program's end is *)
(* the end of the connection.                                              *)
ChildEndKept == FALSE
ChildEndClosed == cgi \in {"zombie", "reaped"}

-----------------------------------------------------------------------------
(* The peer and the other connections. *)

PeerSends ==
    /\ unsent > 0 /\ ~lost /\ client = "open"
    /\ unsent' = unsent - 1 /\ inbound' = inbound + 1
    /\ UNCHANGED <<body, program, outbound, lost, client, buffer, due, answer, late, watch, pair,
                   child, thread, waiting>>

PeerReads ==
    /\ outbound > 0 /\ ~lost
    /\ outbound' \in 0 .. outbound - 1
    /\ UNCHANGED <<body, program, unsent, inbound, lost, client, buffer, due, answer, late, watch,
                   pair, child, thread, waiting>>

PeerLost ==
    /\ ~lost /\ client = "open"
    /\ lost' = TRUE
    /\ UNCHANGED <<body, program, unsent, inbound, outbound, client, buffer, due, answer, late,
                   watch, pair, child, thread, waiting>>

OtherReady ==
    /\ ~waiting
    /\ waiting' = TRUE
    /\ UNCHANGED <<body, program, peer, client, buffer, due, answer, late, watch, pair, child, thread>>

(* The time of a timeout has passed since the timestamp was taken.  The    *)
(* one for the body is taken when input is read.                           *)
Tick ==
    /\ client = "open"
    /\ late' = {"send"} \cup (IF unsent + inbound < body THEN {"body"} ELSE {})
    /\ UNCHANGED <<body, program, peer, client, buffer, due, answer, watch, pair, child, thread, waiting>>

-----------------------------------------------------------------------------
(* epoll.  What is ready keeps its place in the kernel's list as long as   *)
(* it stays ready; what becomes ready is put behind it.                    *)

(* A socket of the pair is writable while a quarter of it is in use.       *)
ClientFlags ==
    (IF inbound > 0 THEN {"in"} ELSE {}) \cup (IF outbound < Window THEN {"out"} ELSE {})
      \cup (IF lost THEN {"hup"} ELSE {})
CgiFlags ==
    (watch \cap ((IF toServer > 0 \/ ChildEndClosed THEN {"in"} ELSE {})
                  \cup (IF 4 * toCgi <= Cap \/ ChildEndClosed THEN {"out"} ELSE {})))
      \cup (IF ChildEndClosed THEN {"hup"} ELSE {})

Flags(i) ==
    CASE i = "client" -> IF client = "open" THEN ClientFlags ELSE {}
      [] i = "cgi" -> IF client = "open" THEN CgiFlags ELSE {}
      [] i = "other" -> IF waiting THEN {"in"} ELSE {}

Ready == {i \in Item : Flags(i) # {}}

Ahead(q, i, j) == \E m, n \in DOMAIN q : m < n /\ q[m] = i /\ q[n] = j

EpollWait ==
    /\ pc = "wait"
    /\ \E q \in [1 .. Cardinality(Ready) -> Ready] :
         /\ \A m, n \in DOMAIN q : q[m] = q[n] => m = n
         /\ \A i \in Ready \cap Range(queue), j \in Ready :
              Ahead(queue, i, j) \/ j \notin Range(queue) => Ahead(q, i, j)
         /\ queue' = q
    /\ batch' = [k \in DOMAIN queue' |-> <<queue'[k], Flags(queue'[k])>>]
    /\ pc' = "batch"
    /\ UNCHANGED <<body, program, peer, client, buffer, due, answer, late, watch, pair, child, sent, taken, waiting>>

-----------------------------------------------------------------------------
(* The handlers.  The event at the head of the batch has a descriptor and  *)
(* flags, which are looked at in turn: hang-up, in, out.                   *)

Current(i, flag) ==
    /\ pc = "batch" /\ batch # <<>>
    /\ batch[1][1] = i /\ flag \in batch[1][2]
    /\ flag = "in" => "hup" \notin batch[1][2]
    /\ flag = "out" => batch[1][2] = {"out"}

(* A flag is dealt with, with the last of them the event; or `break' drops *)
(* the rest of the batch.                                                  *)
Without(flag) == IF batch[1][2] = {flag} THEN Tail(batch) ELSE [batch EXCEPT ![1][2] = @ \ {flag}]
Dealt(flag) == batch' = Without(flag) /\ UNCHANGED pc
Break == batch' = <<>> /\ UNCHANGED pc

(* _removeConnection: closes both descriptors and clears their events in   *)
(* what is left of the batch.  The child still runs then, and can find the *)
(* end of its input.                                                       *)
RemoveConnection(why, rest) ==
    /\ client' = "gone"
    /\ ending' = IF ending = "none" THEN why ELSE ending
    /\ batch' = IF \E e \in Range(rest) : e[1] = "other" THEN <<<<"other", {"in"}>>>> ELSE <<>>
    /\ queue' = IF "other" \in Range(queue) THEN <<"other">> ELSE <<>>
    /\ late' = {} /\ watch' = {}
    /\ pc' = "reap" /\ taken' = 0
    /\ UNCHANGED <<body, program, buffer, due, work, silent, pair, child, sent, waiting>>

(* What it does then: waitpid(WNOHANG) takes a child that has ended,       *)
(* another is killed and waited for.                                       *)
ReapWithoutKill ==
    /\ pc = "reap"
    /\ IF cgi = "zombie" THEN cgi' = "reaped" /\ pc' = "batch" ELSE UNCHANGED cgi /\ pc' = "waitpid"
    /\ UNCHANGED <<body, program, peer, client, buffer, due, answer, late, watch, pair, done, batch,
                   queue, sent, taken, waiting>>

ReapChild ==
    /\ pc = "reap"
    /\ IF cgi = "zombie" THEN cgi' = "reaped" /\ pc' = "batch" ELSE cgi' = "killed" /\ pc' = "waitpid"
    /\ UNCHANGED <<body, program, peer, client, buffer, due, answer, late, watch, pair, done, batch,
                   queue, sent, taken, waiting>>

WaitpidReturns ==
    /\ pc = "waitpid" /\ cgi = "zombie"
    /\ cgi' = "reaped" /\ pc' = "batch"
    /\ UNCHANGED <<body, program, peer, client, buffer, due, answer, late, watch, pair, done, batch,
                   queue, sent, taken, waiting>>

(* EPOLLHUP and EPOLLERR: of the client they remove the connection, of the *)
(* CGI they are SERVER_IGNORE_HANGUP and the other flags follow.           *)
ClientHangUp ==
    /\ Current("client", "hup")
    /\ RemoveConnection("lost", Tail(batch))
    /\ UNCHANGED <<peer, out, delivered>>

CgiHangUpRemoves ==
    /\ Current("cgi", "hup")
    /\ RemoveConnection("cgi", Tail(batch))
    /\ UNCHANGED <<peer, out, delivered>>

CgiHangUp ==
    /\ Current("cgi", "hup")
    /\ Dealt("hup")
    /\ UNCHANGED <<body, program, peer, client, buffer, due, answer, late, watch, pair, child,
                   queue, sent, taken, waiting>>

(* _handleSocketIn once the head is read: the body waits in the buffer.    *)
(* _readSocket and _switchToWrite take new timestamps.  Once the work is   *)
(* complete the response is built anew, over what is left of the answer.   *)
Rebuilt ==
    IF work
    THEN out' = 1 /\ delivered' = 0 /\ ending' = (IF ending = "none" THEN "again" ELSE ending)
    ELSE UNCHANGED <<out, delivered, ending>>

HandleSocketIn ==
    /\ Current("client", "in")
    /\ IF lost
       THEN RemoveConnection("lost", <<>>) /\ UNCHANGED <<peer, out, delivered>>
       ELSE /\ buffer' = buffer + inbound /\ inbound' = 0
            /\ late' = {}
            /\ Rebuilt
            /\ Dealt("in")
            /\ UNCHANGED <<body, program, unsent, outbound, lost, client, due, work, silent, watch,
                           pair, child, queue, sent, taken, waiting>>

(* _handleSocketOut: workOut has nothing to do; _sendResponse, from here   *)
(* to its send() when there is something to send.                          *)
HandleSocketOut ==
    /\ Current("client", "out")
    /\ UNCHANGED <<peer, out, delivered>>
    /\ IF out = 0 /\ work
       THEN RemoveConnection("cgi", <<>>)
       ELSE /\ IF out = 0 THEN Dealt("out") ELSE pc' = "answering" /\ UNCHANGED batch
            /\ UNCHANGED <<body, program, client, buffer, due, work, silent, ending, late, watch,
                           pair, child, queue, sent, taken, waiting>>

(* send() waits for room for all it was given.                             *)
Piece == Min({out, ReadSize})

AnswerCopies ==
    /\ pc = "answering" /\ taken < Piece /\ outbound < Window /\ ~lost
    /\ taken' = taken + 1 /\ outbound' = outbound + 1
    /\ UNCHANGED <<body, program, unsent, inbound, lost, client, buffer, due, answer, late, watch,
                   pair, child, pc, batch, queue, sent, waiting>>

(* It returns what it has taken, or -1 if that is nothing.                 *)
AnswerReturns ==
    /\ pc = "answering" /\ (taken = Piece \/ lost)
    /\ UNCHANGED peer
    /\ out' = out - taken /\ delivered' = delivered + taken
    /\ IF taken = 0
       THEN RemoveConnection("lost", <<>>)
       ELSE IF work /\ taken = out
       THEN RemoveConnection("cgi", <<>>)
       ELSE /\ pc' = "batch" /\ batch' = Without("out") /\ taken' = 0
            /\ late' = late \ {"send"}
            /\ UNCHANGED <<body, program, client, buffer, due, work, silent, ending, watch, pair,
                           child, queue, sent, waiting>>

(* _readCGI.  What the program wrote comes first, then the error that it   *)
(* left input unread, then the end.  The first unit ends the headers.      *)
ReadCGI ==
    /\ Current("cgi", "in")
    /\ \/ /\ work
          /\ Dealt("in") /\ UNCHANGED <<answer, toServer, reset>>
       \/ /\ ~work /\ toServer > 0
          /\ LET n == Min({toServer, ReadSize})
             IN /\ toServer' = toServer - n /\ out' = out + n
                /\ silent' = (silent /\ out + delivered + n <= 1)
          /\ Dealt("in") /\ UNCHANGED <<work, delivered, ending, reset>>
       \/ /\ ~work /\ toServer = 0 /\ reset
          /\ work' = TRUE /\ reset' = FALSE
          /\ Break /\ UNCHANGED <<silent, out, delivered, ending, toServer>>
       \/ /\ ~work /\ toServer = 0 /\ ~reset
          /\ work' = TRUE
          /\ IF out + delivered > 0
             THEN UNCHANGED <<out, ending>>
             ELSE out' = 1 /\ ending' = "500"
          /\ Dealt("in") /\ UNCHANGED <<silent, delivered, toServer, reset>>
    /\ UNCHANGED <<body, program, peer, client, buffer, due, late, watch, eof, toCgi, child, queue,
                   sent, taken, waiting>>

(* CGIOut, from here to its send(): the whole buffer, or what of it is     *)
(* taken before the program ends.                                          *)
CGIOut ==
    /\ Current("cgi", "out")
    /\ pc' = "sending" /\ sent' = 0
    /\ UNCHANGED <<body, program, peer, client, buffer, due, answer, late, watch, pair, child,
                   batch, queue, taken, waiting>>

SendCopies ==
    /\ pc = "sending" /\ sent < buffer /\ toCgi < Cap /\ ~ChildEndClosed
    /\ toCgi' = toCgi + 1 /\ sent' = sent + 1
    /\ UNCHANGED <<body, program, peer, client, buffer, due, answer, late, watch, eof, toServer,
                   reset, child, pc, batch, queue, taken, waiting>>

(* send() returns: EPIPE if it could copy nothing, which leaves the buffer *)
(* and is not the end of the connection; else _readContent takes all as    *)
(* sent, and after the last unit _saveFile shuts down the sending side.    *)
BodyNearlySent == due <= buffer + 1
WholeBodySent == due = buffer
BufferKept == buffer
BufferCleared == 0

SendReturns ==
    /\ pc = "sending" /\ (sent = buffer \/ ChildEndClosed)
    /\ pc' = "batch" /\ sent' = 0
    /\ IF ChildEndClosed /\ sent = 0
       THEN batch' = <<>> /\ UNCHANGED <<buffer, due, eof, watch>>
       ELSE /\ batch' = Without("out")
            /\ due' = due - buffer /\ buffer' = BufferCleared
            /\ IF WholeBodySent
               THEN eof' = TRUE /\ watch' = {"in"}
               ELSE UNCHANGED <<eof, watch>>
    /\ UNCHANGED <<body, program, peer, client, answer, late, toCgi, toServer, reset, child, queue,
                   taken, waiting>>

HandleOther ==
    /\ Current("other", "in")
    /\ waiting' = FALSE
    /\ Dealt("in")
    /\ UNCHANGED <<body, program, peer, client, buffer, due, answer, late, watch, pair, child,
                   queue, sent, taken>>

(* _checkClientsTimeout ends routine().  A page replaces the answer as     *)
(* long as the body is not through, or the CGI has sent no body.           *)
BodyLate == "body" \in late /\ ~eof /\ ~work

(* Only the silent are timed out.                                          *)
SweepSilentOnly ==
    /\ pc = "batch" /\ batch = <<>>
    /\ pc' = "wait"
    /\ IF client = "open" /\ (BodyLate \/ ("send" \in late /\ silent))
       THEN /\ work' = TRUE /\ out' = 1 /\ ending' = "timeout"
            /\ late' = late \ {"send"}
       ELSE UNCHANGED <<work, out, ending, late>>
    /\ UNCHANGED <<body, program, peer, client, buffer, due, silent, delivered, watch, pair, child,
                   batch, queue, sent, taken, waiting>>

Sweep ==
    /\ pc = "batch" /\ batch = <<>>
    /\ IF client = "open" /\ (BodyLate \/ ("send" \in late /\ silent))
       THEN /\ work' = TRUE /\ out' = 1 /\ ending' = "timeout"
            /\ late' = late \ {"send"} /\ pc' = "wait"
            /\ UNCHANGED <<body, program, client, buffer, due, silent, watch, pair, child,
                           batch, queue, sent, taken, waiting>>
       ELSE IF client = "open" /\ "send" \in late
       THEN RemoveConnection("timeout", <<>>) /\ UNCHANGED out
       ELSE /\ pc' = "wait"
            /\ UNCHANGED <<body, program, client, buffer, due, work, silent, out, ending, late,
                           watch, pair, child, batch, queue, sent, taken, waiting>>
    /\ UNCHANGED <<peer, delivered>>

-----------------------------------------------------------------------------

(* The request's head has been read, the answer may be written, the        *)
(* program is started.  A GET's program finds the end of its input.        *)
Init ==
    /\ body \in Bodies /\ program \in Programs
    /\ unsent = body /\ inbound = 0 /\ outbound = 0 /\ lost = FALSE
    /\ client = "open" /\ buffer = 0 /\ due = body /\ late = {}
    /\ work = FALSE /\ silent = TRUE /\ out = 0 /\ delivered = 0 /\ ending = "none"
    /\ watch = (IF body = 0 THEN {"in"} ELSE {"in", "out"}) /\ eof = (body = 0)
    /\ toCgi = 0 /\ toServer = 0 /\ reset = FALSE /\ cgi = "running" /\ done = 0
    /\ pc = "wait" /\ batch = <<>> /\ queue = <<"client">> /\ sent = 0 /\ taken = 0
    /\ waiting \in BOOLEAN

Server ==
    \/ EpollWait \/ ReapChild \/ WaitpidReturns
    \/ ClientHangUp \/ CgiHangUp \/ HandleSocketIn
    \/ HandleSocketOut \/ AnswerCopies \/ AnswerReturns
    \/ ReadCGI \/ CGIOut \/ SendCopies \/ SendReturns
    \/ HandleOther \/ Sweep

Cgi == CgiReads \/ CgiWrites \/ CgiEnds

Next == Server \/ Cgi \/ PeerSends \/ PeerReads \/ PeerLost \/ OtherReady \/ Tick

Spec == Init /\ [][Next]_vars

(* The thread runs on when it is not waiting in a call, a program that is  *)
(* not waiting runs on, a killed one ends; time passes, and the timeouts   *)
(* are set.  Nothing is assumed of the peer.                               *)
FairSpec == Spec /\ WF_vars(Server) /\ WF_vars(Cgi) /\ WF_vars(Tick)

-----------------------------------------------------------------------------
(* Properties. *)

(* A program can stop reading with more of the body to come than the       *)
(* socket holds: it hangs, or it has written more than the socket holds.   *)
Jams ==
    \E n \in 1 .. Len(program) :
       /\ program[n] = "hang" \/ CountOf("write", n) > Cap
       /\ body - CountOf("read", n - 1) > Cap

(* A peer for which the server waits in send() reads in the end, or the    *)
(* connection is reset.                                                    *)
PeerTakes == [](pc = "answering" /\ outbound = Window => <>(outbound < Window \/ lost))

(* The headers of a program do not fill the client's socket.  If they do,  *)
(* a program that ends before it has taken its input gets ahead of the     *)
(* client in epoll's list, and each batch ends with its EPIPE; the page    *)
(* that is made at each timeout is never sent.                             *)
HeadFits == Window > 1

(* _writeChunk: the send() to the program that blocks the only thread      *)
(* returns, unless the program is one of those, with which it may wait for *)
(* ever.                                                                   *)
SendComesBack == ~Jams => [](pc = "sending" => <>(pc # "sending"))

(* _handleCGIOut, _handleCGIIn, timeoutCheck, _removeConnection: whatever  *)
(* else the program, the peer and the network do, the exchange ends, with  *)
(* its child waited for and the thread free again.                         *)
ExchangeEnds == ~Jams /\ PeerTakes /\ HeadFits => <>(client = "gone" /\ cgi = "reaped" /\ pc = "batch")

(* Server::routine: an event of another connection is handled at last,     *)
(* though a CGI descriptor whose program has gone makes the loop break for *)
(* as long as the exchange lasts.                                          *)
OthersServed == ~Jams /\ PeerTakes /\ HeadFits => [](waiting => <>~waiting)

(* _readCGI: hang-ups, a reset and partial sends lose nothing.  Of a       *)
(* program that has ended by itself every unit it wrote is in the answer,  *)
(* unless input that came after its end has had the response built anew.   *)
OutputDelivered ==
    client = "gone" /\ ending = "cgi" => done = Len(program) /\ delivered = Written

(* _saveFile: a program that finds the end of its input while the          *)
(* connection lasts has been given all of the body, in spite of partial    *)
(* sends and failed ones.  _removeConnection ends the input of a program   *)
(* before it kills it, wherever the body was.                              *)
EofAfterBody ==
    client = "open" /\ InputEnded /\ cgi = "running" =>
       Min({body, CountOf("read", done) + toCgi}) = body
=============================================================================
