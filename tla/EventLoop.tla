------------------------------ MODULE EventLoop ------------------------------
(***************************************************************************)
(* The event loop of srcs/Server.cpp: Server::routine() and the tables it  *)
(* keeps consistent with the kernel.  One thread serves every descriptor,  *)
(* so the hazards are not data races but what one event of an epoll batch  *)
(* does to the events behind it: a client torn down while its other        *)
(* descriptor still has an event pending, a descriptor number the kernel   *)
(* hands out again inside the same batch, list iterators kept in           *)
(* _fdClientMap, a CGI child nobody waits for.                             *)
(*                                                                         *)
(* What a client does inside handleIn, handleOut and timeoutCheck is       *)
(* abstract here: a handler returns any of REQ_CONTINUE, REQ_DONE,         *)
(* REQ_ERROR or throws, with any of the effects on the shared tables that  *)
(* the client code has (start a CGI, switch to writing).  Module           *)
(* Connection has the details of one client.                               *)
(***************************************************************************)
EXTENDS FiniteSets, Naturals

CONSTANTS
    Fd,          \* descriptor numbers the process may use
    Listener,    \* those bound by _addSocket
    ClientId,    \* nodes of the std::list<Client>
    NoFd,        \* -1
    NoClient,    \* absent from _fdClientMap
    MaxEvents,   \* MAX_EVENTS, the size of _events
    Faults       \* which system calls may fail: "init", "fork", "throw"

ASSUME FdAssumption ==
    /\ Listener \subseteq Fd
    /\ NoFd \notin Fd
    /\ NoClient \notin ClientId

Ready == {"in", "out"}            \* EPOLLIN, EPOLLOUT
Flags == Ready \cup {"hup"}       \* EPOLLHUP and EPOLLERR are always reported

VARIABLES
    pc,        \* where main() and routine() are
    clients,   \* Server::_clients
    sock,      \* Client::_clientEvent.data.fd
    cgi,       \* RequestContext::cgiSockets[PARENT_SOCKET]
    child,     \* the process RequestContext::pid names
    fdMap,     \* Server::_fdClientMap
    events,    \* _events[i .. _nfds): the flags still to be handled
    cur,       \* the descriptor of _events[i] while its flags are handled
    owner,     \* ghost: whose descriptor it was when epoll_wait reported it
    todo,      \* clients _checkClientsTimeout has still to visit
    signal,    \* g_signal # 0
    interest,  \* kernel: what epoll watches each descriptor for
    open,      \* kernel: descriptors open in this process
    lost       \* ghost: open descriptors that nothing of the server names

table == <<clients, sock, cgi, child, fdMap>>
kernel == <<interest, open, lost>>
batch == <<events, cur, owner>>
vars == <<pc, table, batch, todo, signal, kernel>>

NoEvents == [fd \in Fd |-> {}]
NoOwner == [fd \in Fd |-> NoClient]

TypeOK ==
    /\ pc \in {"down", "wait", "dispatch", "blocked", "sweep", "exit"}
    /\ clients \in SUBSET ClientId
    /\ sock \in [ClientId -> Fd \cup {NoFd}]
    /\ cgi \in [ClientId -> Fd \cup {NoFd}]
    /\ child \in [ClientId -> {"none", "running", "exited"}]
    /\ fdMap \in [Fd -> ClientId \cup {NoClient}]
    /\ events \in [Fd -> SUBSET Flags]
    /\ cur \in Fd \cup {NoFd}
    /\ owner \in [Fd -> ClientId \cup {NoClient}]
    /\ todo \in SUBSET ClientId
    /\ signal \in BOOLEAN
    /\ interest \in [Fd -> SUBSET Ready]
    /\ open \in SUBSET Fd
    /\ lost \in SUBSET Fd

(* main() before its first server.configure(). *)
Init ==
    /\ pc = "down"
    /\ clients = {}
    /\ sock = [c \in ClientId |-> NoFd]
    /\ cgi = [c \in ClientId |-> NoFd]
    /\ child = [c \in ClientId |-> "none"]
    /\ fdMap = NoOwner
    /\ events = NoEvents
    /\ cur = NoFd
    /\ owner = NoOwner
    /\ todo = {}
    /\ signal = FALSE
    /\ interest = NoEvents
    /\ open = {}
    /\ lost = {}

-----------------------------------------------------------------------------
(* Operators on the tables. *)

Descriptors(c) == {sock[c], cgi[c]} \ {NoFd}

(* Variants of _removeConnection with a plausible fault; no action uses    *)
(* them.  The list node stays, the CGI socket stays in the map or open,    *)
(* the child is not waited for, only one socket leaves the batch.          *)
RemoveWith(c, nodes, unmapped, closed, reaped) ==
    /\ clients' = clients \ nodes
    /\ sock' = [sock EXCEPT ![c] = NoFd]
    /\ cgi' = [cgi EXCEPT ![c] = NoFd]
    /\ child' = [d \in ClientId |-> IF d \in reaped THEN "none" ELSE child[d]]
    /\ fdMap' = [fd \in Fd |-> IF fd \in unmapped THEN NoClient ELSE fdMap[fd]]
    /\ interest' = [fd \in Fd |-> IF fd \in Descriptors(c) THEN {} ELSE interest[fd]]
    /\ open' = open \ closed
    /\ UNCHANGED lost

RemoveKeepingNode(c) == RemoveWith(c, {}, Descriptors(c), Descriptors(c), {c})
RemoveLeavingCgiMapped(c) == RemoveWith(c, {c}, {sock[c]}, Descriptors(c), {c})
RemoveLeavingCgiOpen(c) == RemoveWith(c, {c}, Descriptors(c), {sock[c]}, {c})
RemoveUnreaped(c) == RemoveWith(c, {c}, Descriptors(c), Descriptors(c), {})

ScrubbedSocketOnly(c) == [events EXCEPT ![sock[c]] = {}]

(* Server::_removeConnection for a client found in the map: both sockets   *)
(* leave epoll and the map and are closed, with a CGI socket its child is  *)
(* killed unless it has ended and waited for, the list node is erased.     *)
RemoveConnection(c) ==
    /\ clients' = clients \ {c}
    /\ sock' = [sock EXCEPT ![c] = NoFd]
    /\ cgi' = [cgi EXCEPT ![c] = NoFd]
    /\ child' = [child EXCEPT ![c] = IF cgi[c] # NoFd THEN "none" ELSE @]
    /\ fdMap' = [fd \in Fd |-> IF fd \in Descriptors(c) THEN NoClient ELSE fdMap[fd]]
    /\ interest' = [fd \in Fd |-> IF fd \in Descriptors(c) THEN {} ELSE interest[fd]]
    /\ open' = open \ Descriptors(c)
    /\ UNCHANGED lost

(* The loop at the end of _removeConnection over the rest of the batch. *)
Scrubbed(c) == [fd \in Fd |-> IF fd \in Descriptors(c) THEN {} ELSE events[fd]]

(* Its guard: called for a CGI descriptor it removes nothing and returns   *)
(* SERVER_IGNORE_HANGUP.                                                   *)
KeepsClient(fd) == fd = cgi[fdMap[fd]]

RemoveByFd(fd) ==
    IF KeepsClient(fd) THEN UNCHANGED <<table, kernel>> ELSE RemoveConnection(fdMap[fd])

(* Server::~Server, and the shutdown loop of routine(): the list and the   *)
(* maps are emptied and the children of the clients in the list killed.    *)
(* (~Server does not wait for them: one that was still running stays a     *)
(* zombie of the process.)                                                 *)
Emptied ==
    /\ clients' = {}
    /\ sock' = [c \in ClientId |-> NoFd]
    /\ cgi' = [c \in ClientId |-> NoFd]
    /\ child' = [c \in ClientId |-> IF c \in clients THEN "none" ELSE child[c]]
    /\ fdMap' = NoOwner
    /\ interest' = NoEvents
    /\ todo' = {}

DropBatch == events' = NoEvents /\ cur' = NoFd /\ owner' = NoOwner

(* The flags f of the current event have been handled; the next one of     *)
(* this event, or the next event, is looked at.                            *)
Handled(f) ==
    LET rest == events[cur] \ f IN
    /\ events' = [events EXCEPT ![cur] = rest]
    /\ cur' = IF rest = {} THEN NoFd ELSE cur
    /\ UNCHANGED owner

(* catch (std::exception) in main(): the server is destroyed and started   *)
(* again.  What its two maps name is closed; the descriptors in left are   *)
(* new and still in neither map, so nothing ever closes them.              *)
Throw(left) ==
    /\ Emptied
    /\ DropBatch
    /\ open' = (open \ (Listener \cup {fd \in Fd : fdMap[fd] # NoClient})) \cup left
    /\ lost' = lost \cup left
    /\ pc' = "down"
    /\ UNCHANGED signal

(* The process ends; the kernel closes whatever is left. *)
Exit == DropBatch /\ open' = {} /\ lost' = {} /\ pc' = "exit" /\ UNCHANGED signal

-----------------------------------------------------------------------------
(* main() *)

(* Server::_addSocket, for every host of the configuration. *)
AddSockets ==
    /\ open' = open \cup Listener
    /\ interest' = [fd \in Fd |-> IF fd \in Listener THEN {"in"} ELSE interest[fd]]

(* Server::configure: epoll_create, one listening socket per host.  When a *)
(* system call fails, main() destroys the server, sleeps and tries again,  *)
(* so nothing changes.                                                     *)
Configure ==
    /\ pc = "down" /\ ~signal
    /\ pc' = "wait"
    /\ AddSockets
    /\ UNCHANGED <<table, batch, todo, signal, lost>>

(* The configuration file, read again at every restart, is refused. *)
ConfigureFails == pc = "down" /\ ~signal /\ Emptied /\ Exit

(* server_restart: and while (g_signal == 0); or epoll_wait() returning -1 *)
(* because the signal arrived while it was blocked.                        *)
Stop == pc \in {"down", "wait"} /\ signal /\ Emptied /\ Exit

(* SIGQUIT: sigQuitHandler only sets g_signal. *)
Quit ==
    /\ ~signal /\ pc # "exit"
    /\ signal' = TRUE
    /\ UNCHANGED <<pc, table, batch, todo, kernel>>

-----------------------------------------------------------------------------
(* Server::routine() *)

(* epoll_wait: any at most MaxEvents of the watched descriptors, in any    *)
(* order, each with some of the flags it is watched for or a hang-up.  It  *)
(* may also return after the signal, when that came just before the call.  *)
EpollWait ==
    /\ pc = "wait"
    /\ \E ready \in SUBSET {fd \in Fd : interest[fd] # {}} :
         /\ Cardinality(ready) <= MaxEvents
         /\ \E ev \in [ready -> SUBSET Flags \ {{}}] :
              /\ \A fd \in ready : ev[fd] \subseteq interest[fd] \cup
                                     (IF fd \in Listener THEN {} ELSE {"hup"})
              /\ events' = [fd \in Fd |-> IF fd \in ready THEN ev[fd] ELSE {}]
              /\ owner' = [fd \in Fd |-> IF fd \in ready THEN fdMap[fd] ELSE NoClient]
    /\ pc' = "dispatch"
    /\ UNCHANGED <<table, cur, todo, signal, kernel>>

(* The events the for loop does not skip: those of a listening socket or   *)
(* of a descriptor in the map.                                             *)
Pending == {fd \in Fd : events[fd] # {} /\ (fd \in Listener \/ fdMap[fd] # NoClient)}

(* The head of the for loop: take the next event of a known client. *)
NextEvent(fd) ==
    /\ pc = "dispatch" /\ cur = NoFd /\ ~signal
    /\ fd \in Pending \ Listener
    /\ cur' = fd
    /\ UNCHANGED <<pc, table, events, owner, todo, signal, kernel>>

AtListener(fd) ==
    /\ pc = "dispatch" /\ cur = NoFd /\ ~signal
    /\ fd \in Pending \cap Listener

AcceptEvent(fd) ==
    /\ AtListener(fd)
    /\ events' = [events EXCEPT ![fd] = {}]
    /\ UNCHANGED <<pc, cur, owner, todo, signal>>

(* _addConnection when accept, the list node and epoll_ctl succeed.  The   *)
(* kernel returns a number that is not open; which one depends on the      *)
(* files the requests have open, so any.                                   *)
AddConnection(fd) ==
    /\ AcceptEvent(fd)
    /\ \E c \in ClientId \ clients, s \in Fd \ (open \cup Listener) :
         /\ clients' = clients \cup {c}
         /\ sock' = [sock EXCEPT ![c] = s]
         /\ fdMap' = [fdMap EXCEPT ![s] = c]
         /\ interest' = [interest EXCEPT ![s] = {"in"}]
         /\ open' = open \cup {s}
    /\ UNCHANGED <<cgi, child, lost>>

(* _addConnection when accept (or push_front) fails. *)
AcceptFails(fd) ==
    /\ AcceptEvent(fd)
    /\ UNCHANGED <<table, kernel>>

(* _addConnection when Client::init fails: the socket is closed but the    *)
(* client stays in the list, unknown to the map.                           *)
InitFails(fd) ==
    /\ "init" \in Faults
    /\ AcceptEvent(fd)
    /\ \E c \in ClientId \ clients, s \in Fd \ (open \cup Listener) :
         /\ clients' = clients \cup {c}
         /\ sock' = [sock EXCEPT ![c] = s]
    /\ UNCHANGED <<cgi, child, fdMap, kernel>>

(* _addConnection when entering the new socket in _fdClientMap throws: it  *)
(* is behind the try block.                                                *)
AcceptThrows(fd) ==
    /\ "throw" \in Faults
    /\ AtListener(fd)
    /\ \E s \in Fd \ (open \cup Listener) : Throw({s})

(* EPOLLERR | EPOLLHUP.  On the CGI socket it is ignored and the event's   *)
(* other flags are still handled; on the client socket the client goes.    *)
HangUp ==
    /\ pc = "dispatch" /\ cur # NoFd /\ "hup" \in events[cur]
    /\ RemoveByFd(cur)
    /\ IF KeepsClient(cur)
         THEN Handled({"hup"})
         ELSE events' = Scrubbed(fdMap[cur]) /\ cur' = NoFd /\ UNCHANGED owner
    /\ UNCHANGED <<pc, todo, signal>>

(* The flag the loop body is about to handle, or is handling: EPOLLIN      *)
(* before EPOLLOUT.                                                        *)
Handling(f) ==
    /\ cur # NoFd /\ "hup" \notin events[cur]
    /\ f \in events[cur]
    /\ f = "out" => "in" \notin events[cur]

(* The handler waits in a system call: the sockets of the clients and of   *)
(* the CGIs are blocking, so a send to a full one returns when its peer    *)
(* reads or goes away, and until then this thread does nothing else.       *)
HandlerBlocks(f) ==
    /\ pc = "dispatch" /\ Handling(f)
    /\ pc' = "blocked"
    /\ UNCHANGED <<table, batch, todo, signal, kernel>>

(* The handler returned REQ_CONTINUE with no effect on the shared tables. *)
HandlerContinues(f) ==
    /\ Handling(f)
    /\ Handled({f})
    /\ pc' = "dispatch"
    /\ UNCHANGED <<table, todo, signal, kernel>>

(* Variant: epoll is also asked for EPOLLHUP. *)
SwitchToWriteHup ==
    /\ Handling("in") /\ cur = sock[fdMap[cur]]
    /\ Handled({"in"})
    /\ interest' = [interest EXCEPT ![cur] = Flags]
    /\ pc' = "dispatch"
    /\ UNCHANGED <<table, todo, signal, open, lost>>

(* Client::_switchToWrite, from handleIn on the client socket. *)
SwitchToWrite ==
    /\ Handling("in") /\ cur = sock[fdMap[cur]]
    /\ Handled({"in"})
    /\ interest' = [interest EXCEPT ![cur] = Ready]
    /\ pc' = "dispatch"
    /\ UNCHANGED <<table, todo, signal, open, lost>>

(* Client::_resolveARequest after _openCGI: the parent socket p enters     *)
(* epoll and the map, and handleIn ends with _switchToWrite.  A child runs *)
(* unless fork failed, and then the other end q of the pair stays open.    *)
StartCGI(forked) ==
    LET c == fdMap[cur] IN
    /\ Handling("in") /\ cur = sock[c] /\ cgi[c] = NoFd
    /\ Handled({"in"})
    /\ \E p \in Fd \ (open \cup Listener), option \in {{"in"}, Ready} :
         /\ cgi' = [cgi EXCEPT ![c] = p]
         /\ fdMap' = [fdMap EXCEPT ![p] = c]
         /\ interest' = [interest EXCEPT ![p] = option, ![cur] = Ready]
         /\ \E other \in IF forked THEN {{}} ELSE {{q} : q \in Fd \ (open \cup Listener \cup {p})} :
              /\ open' = open \cup {p} \cup other
              /\ lost' = lost \cup other
    /\ child' = [child EXCEPT ![c] = IF forked THEN "running" ELSE "none"]
    /\ pc' = "dispatch"
    /\ UNCHANGED <<clients, sock, todo, signal>>

(* The same handler throws behind _openCGI.  Open in no map are then the   *)
(* parent socket, when addCGIToClientMap was not reached (epoll_ctl before *)
(* it failed), and the other end, when fork had failed.                    *)
CgiThrows ==
    LET c == fdMap[cur] IN
    /\ "throw" \in Faults
    /\ Handling("in") /\ cur = sock[c] /\ cgi[c] = NoFd
    /\ \E left \in SUBSET (Fd \ (open \cup Listener)) \ {{}} :
         /\ Cardinality(left) <= IF "fork" \in Faults THEN 2 ELSE 1
         /\ Throw(left)

(* ARequest::_saveFile when a whole body went to the CGI: stop watching    *)
(* its socket for EPOLLOUT.                                                *)
BodyForwarded ==
    LET c == fdMap[cur] IN
    /\ Handling("out") /\ cur = cgi[c]
    /\ Handled({"out"})
    /\ interest' = [interest EXCEPT ![cur] = {"in"}]
    /\ pc' = "dispatch"
    /\ UNCHANGED <<table, todo, signal, open, lost>>

(* Variant: the loop goes on with the batch, without the break. *)
HandlerEndsWithoutBreak(f) ==
    /\ Handling(f)
    /\ RemoveByFd(cur)
    /\ Handled({f})
    /\ pc' = "dispatch"
    /\ UNCHANGED <<todo, signal>>

(* The handler returned REQ_DONE or REQ_ERROR: _removeConnection(fd) and   *)
(* break.  For a CGI descriptor the call returns SERVER_IGNORE_HANGUP and  *)
(* removes nothing, but the rest of the batch is dropped all the same.     *)
HandlerEnds(f) ==
    /\ Handling(f)
    /\ RemoveByFd(cur)
    /\ DropBatch
    /\ pc' = "dispatch"
    /\ UNCHANGED <<todo, signal>>

(* It threw with everything it had opened in the map. *)
HandlerThrows(f) == "throw" \in Faults /\ Handling(f) /\ Throw({})

(* The for loop ends: no event left, a break, or the signal. *)
BatchDone == pc = "dispatch" /\ cur = NoFd /\ (signal \/ Pending = {})

(* Variant: the signal is not looked at behind the for loop. *)
SweepAnyway ==
    /\ BatchDone
    /\ pc' = "sweep"
    /\ todo' = clients
    /\ DropBatch
    /\ UNCHANGED <<table, signal, kernel>>

StartSweep ==
    /\ BatchDone /\ ~signal
    /\ pc' = "sweep"
    /\ todo' = clients
    /\ DropBatch
    /\ UNCHANGED <<table, signal, kernel>>

(* if (0 != g_signal): every client is removed, its child waited for, and  *)
(* main() returns.  A client unknown to the map makes _removeConnection    *)
(* use a null iterator: the process ends there.                            *)
RemoveAll ==
    /\ BatchDone /\ signal
    /\ Emptied /\ Exit

-----------------------------------------------------------------------------
(* Server::_checkClientsTimeout() *)

Visit(c) == pc = "sweep" /\ c \in todo

(* timeoutCheck returned REQ_CONTINUE; a timeout answer it has prepared    *)
(* goes out through _switchToWrite (epoll_ctl needs a watched descriptor). *)
SweepKeeps(c) ==
    /\ Visit(c)
    /\ todo' = todo \ {c}
    /\ \/ UNCHANGED interest
       \/ interest[sock[c]] # {} /\ interest' = [interest EXCEPT ![sock[c]] = Ready]
    /\ UNCHANGED <<pc, table, batch, signal, open, lost>>

(* REQ_DONE or REQ_ERROR: _removeConnection(tmp->socket()) removes the     *)
(* client the map names for that descriptor.                               *)
SweepRemoves(c) ==
    /\ Visit(c) /\ fdMap[sock[c]] # NoClient
    /\ RemoveByFd(sock[c])
    /\ todo' = (todo \ {c}) \cap clients'
    /\ UNCHANGED <<pc, batch, signal>>

(* The same call with no such client, or with the one the loop's own       *)
(* iterator stands on: a null or dangling iterator is used.                *)
SweepCrashes(c) ==
    LET victim == fdMap[sock[c]] IN
    /\ Visit(c) /\ victim # c
    /\ victim = NoClient \/ (victim \in todo /\ ~KeepsClient(sock[c]))
    /\ Emptied /\ Exit

(* epoll_ctl on a descriptor that is not watched, or another exception. *)
SweepThrows(c) ==
    /\ Visit(c)
    /\ "throw" \in Faults \/ interest[sock[c]] = {}
    /\ Throw({})

SweepDone ==
    /\ pc = "sweep" /\ todo = {}
    /\ pc' = "wait"
    /\ UNCHANGED <<table, batch, todo, signal, kernel>>

-----------------------------------------------------------------------------
(* The CGI child ends; it stays a zombie until it is waited for. *)
ChildExits(c) ==
    /\ child[c] = "running"
    /\ child' = [child EXCEPT ![c] = "exited"]
    /\ UNCHANGED <<pc, clients, sock, cgi, fdMap, batch, todo, signal, kernel>>

LookAt(fd) ==
    \/ NextEvent(fd) \/ AddConnection(fd)
    \/ AcceptFails(fd) \/ InitFails(fd) \/ AcceptThrows(fd)

RunHandler(f) ==
    \/ HandlerBlocks(f)
    \/ HandlerContinues(f) \/ HandlerEnds(f) \/ HandlerThrows(f)

Routine ==
    \/ EpollWait
    \/ \E fd \in Fd : LookAt(fd)
    \/ HangUp
    \/ \E f \in Ready : RunHandler(f)
    \/ SwitchToWrite
    \/ StartCGI(TRUE)
    \/ "fork" \in Faults /\ StartCGI(FALSE)
    \/ CgiThrows
    \/ BodyForwarded
    \/ StartSweep
    \/ RemoveAll
    \/ \E c \in ClientId : SweepKeeps(c) \/ SweepRemoves(c) \/ SweepCrashes(c) \/ SweepThrows(c)
    \/ SweepDone

Server == Configure \/ ConfigureFails \/ Stop \/ Routine
Environment == Quit \/ \E c \in ClientId : ChildExits(c)
Next == Server \/ Environment

Spec == Init /\ [][Next]_vars

(* The thread keeps running, except in a send that blocks: epoll_wait has  *)
(* a timeout of one second, and no other call waits for anybody.           *)
FairSpec == Spec /\ WF_vars(Server /\ pc # "blocked")
-----------------------------------------------------------------------------
(* Safety. *)

(* _fdClientMap never holds a dangling iterator: every entry names a       *)
(* client that is in the list and whose socket or CGI socket that          *)
(* descriptor is, and the descriptor is open and watched, so handleIn,     *)
(* handleOut and the epoll_ctl calls of _removeConnection are safe.        *)
MapSound ==
    \A fd \in Fd : fdMap[fd] # NoClient =>
        /\ fdMap[fd] \in clients
        /\ fd \in Descriptors(fdMap[fd])
        /\ fd \in open
        /\ interest[fd] # {}

(* No stale event: an event still to be dispatched belongs to the client   *)
(* that owned the descriptor when epoll_wait reported it, even when        *)
(* clients were removed, and descriptors closed and handed out again,      *)
(* earlier in the same batch (the scrubbing loop of _removeConnection).    *)
NoStaleEvent ==
    \A fd \in Fd \ Listener : events[fd] # {} =>
        fdMap[fd] = owner[fd] /\ owner[fd] # NoClient

(* Every client in the list can be found through the map by each of its    *)
(* descriptors and its socket is watched for input, so its events reach it *)
(* and the timeout sweep and the shutdown loop remove exactly it.          *)
ClientsRegistered ==
    \A c \in clients :
        /\ \A fd \in {sock[c]} \cup Descriptors(c) : fd \in Fd /\ fdMap[fd] = c
        /\ "in" \in interest[sock[c]]

(* Which descriptors leak: while the server runs, also after an exception  *)
(* has restarted it, every open descriptor is a listening socket or that   *)
(* of a client that can still be removed, but for those in lost: the       *)
(* child's end of a CGI pair when fork failed, and a socket an exception   *)
(* kept from entering _fdClientMap, where ~Server would have found it.     *)
NoFdLeak ==
    pc \notin {"down", "exit"} => open = Listener \cup {fd \in Fd : fdMap[fd] # NoClient} \cup lost

(* No CGI child escapes: the client of one that has not been waited for is *)
(* in the list, where ~Server finds its pid, and has a CGI socket that the *)
(* map names it for, without which _removeConnection would not look for    *)
(* the child.                                                              *)
ChildrenReachable ==
    \A c \in ClientId : child[c] # "none" =>
        c \in clients /\ cgi[c] \in Fd /\ fdMap[cgi[c]] = c

(* The loop implements ConnectionTable: whatever happens to descriptors,   *)
(* batches and list nodes, also under faults, it behaves as a table of     *)
(* connections that take turns.  A client is connected when the map names  *)
(* it for its socket; it is ready while an event of the batch was reported *)
(* for it.                                                                 *)
ServerState == IF pc = "down" THEN "down" ELSE IF pc = "exit" THEN "over" ELSE "up"
Connected == {c \in ClientId : sock[c] \in Fd /\ fdMap[sock[c]] = c}
Working == {c \in ClientId : cgi[c] # NoFd}
Reported == {c \in ClientId : \E fd \in Fd \ Listener : events[fd] # {} /\ owner[fd] = c}
Turn == IF cur = NoFd THEN NoClient ELSE fdMap[cur]

Table == INSTANCE ConnectionTable WITH
    Client <- ClientId,
    NoOne <- NoClient,
    state <- ServerState,
    connected <- Connected,
    working <- Working,
    ready <- Reported,
    turn <- Turn

ImplementsTable == Table!Spec

(* Liveness: SIGQUIT ends the server from whatever it was doing, provided  *)
(* no handler waits for ever.  The signal alone does not end such a wait:  *)
(* signal() restarts the send it interrupts.                               *)
HandlersReturn == []<>(pc # "blocked")
QuitStops == HandlersReturn => (signal ~> pc = "exit")
=============================================================================
