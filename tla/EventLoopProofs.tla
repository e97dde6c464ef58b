--------------------------- MODULE EventLoopProofs ---------------------------
(***************************************************************************)
(* Proofs about EventLoop, for any number of descriptors and clients, any  *)
(* batch size and any combination of failing system calls: its invariants, *)
(* and that it implements ConnectionTable, each step of the loop being a   *)
(* step of the table or leaving it alone.                                  *)
(***************************************************************************)
EXTENDS EventLoop, TLAPS

(* Listening sockets are never in _fdClientMap. *)
ListenersUnmapped == \A fd \in Listener : fdMap[fd] = NoClient

(* Whatever else epoll watches is in _fdClientMap. *)
WatchedMapped == \A fd \in Fd \ Listener : interest[fd] # {} => fdMap[fd] # NoClient

(* An event is only being handled inside the for loop, where a handler may *)
(* be waiting in a send, and its descriptor is in the map.                 *)
InBatch == pc \in {"dispatch", "blocked"}
CurrentKnown == cur # NoFd => InBatch /\ events[cur] # {} /\ fdMap[cur] # NoClient

(* Outside the for loop no event is pending. *)
BatchConsumed == ~InBatch => events = NoEvents

(* Only the sweep visits clients; they are in the list, and every client   *)
(* there has a descriptor.                                                 *)
ListSound ==
    /\ todo \subseteq clients /\ (pc # "sweep" => todo = {})
    /\ \A c \in clients : sock[c] \in Fd

IndInv ==
    /\ TypeOK
    /\ MapSound
    /\ ListenersUnmapped
    /\ WatchedMapped
    /\ CurrentKnown
    /\ BatchConsumed
    /\ NoStaleEvent
    /\ ListSound

-----------------------------------------------------------------------------
(* What the shared pieces of the actions do to the invariant. *)

(* Init is one of the states the invariant describes. *)
LEMMA InitInd == Init => IndInv
  BY FdAssumption DEF Init, IndInv, TypeOK, MapSound, ListenersUnmapped, WatchedMapped,
     CurrentKnown, BatchConsumed, InBatch, NoStaleEvent, ListSound, NoEvents, NoOwner, Flags, Ready

(* Flags that have been handled leave the batch; nothing enters it. *)
LEMMA HandledShrinks ==
  ASSUME IndInv, cur # NoFd, NEW f, Handled(f)
  PROVE  /\ events' \in [Fd -> SUBSET Flags] /\ cur' \in Fd \cup {NoFd}
         /\ \A fd \in Fd : events'[fd] # {} => events[fd] # {}
         /\ cur' # NoFd => cur' = cur /\ events'[cur] # {}
         /\ owner' = owner
  BY FdAssumption DEF IndInv, TypeOK, Handled

(* The server is destroyed or the process ends. *)
LEMMA TeardownInd ==
  ASSUME IndInv, Emptied, DropBatch, UNCHANGED signal,
         open' \subseteq Fd, lost' \subseteq Fd, pc' \in {"down", "exit"}
  PROVE  IndInv'
  BY FdAssumption DEF IndInv, TypeOK, MapSound, ListenersUnmapped, WatchedMapped,
     CurrentKnown, BatchConsumed, InBatch, NoStaleEvent, ListSound, NoEvents, NoOwner, Flags, Ready,
     Emptied, DropBatch

LEMMA ThrowInd == ASSUME IndInv, NEW left \in SUBSET Fd, Throw(left) PROVE IndInv'
  <1>1. open' \subseteq Fd /\ lost' \subseteq Fd
    BY DEF Throw, IndInv, TypeOK
  <1> QED BY <1>1, TeardownInd DEF Throw

LEMMA ExitInd == ASSUME IndInv, Emptied, Exit PROVE IndInv'
  BY TeardownInd DEF Exit

(* The parts of the invariant about the tables and epoll alone. *)
TablesSound == MapSound /\ ListenersUnmapped /\ WatchedMapped

(* A removed client takes exactly its own descriptors along: an entry of   *)
(* the map for another client is untouched.                                *)
LEMMA RemovalInd ==
  ASSUME IndInv, NEW c \in ClientId, RemoveConnection(c)
  PROVE  /\ clients' \subseteq ClientId
         /\ sock' \in [ClientId -> Fd \cup {NoFd}]
         /\ cgi' \in [ClientId -> Fd \cup {NoFd}]
         /\ child' \in [ClientId -> {"none", "running", "exited"}]
         /\ fdMap' \in [Fd -> ClientId \cup {NoClient}]
         /\ interest' \in [Fd -> SUBSET Ready]
         /\ open' \subseteq Fd /\ lost' \subseteq Fd
         /\ TablesSound'
         /\ \A fd \in Fd \ Descriptors(c) : fdMap'[fd] = fdMap[fd]
         /\ \A d \in clients' : sock'[d] \in Fd
  BY FdAssumption DEF RemoveConnection, IndInv, TypeOK, TablesSound, MapSound,
     ListenersUnmapped, WatchedMapped, ListSound, Descriptors

-----------------------------------------------------------------------------
(* One lemma per action that changes the tables or the batch. *)

LEMMA EpollWaitInd == ASSUME IndInv, EpollWait PROVE IndInv'
  BY FdAssumption DEF IndInv, TypeOK, MapSound, ListenersUnmapped, WatchedMapped,
     CurrentKnown, BatchConsumed, InBatch, NoStaleEvent, ListSound, NoEvents, Flags, Ready,
     EpollWait, table, kernel, Descriptors

(* The number accept returns was not open, so it is not in the map and no  *)
(* event of the batch is for it.                                           *)
LEMMA AddConnectionInd == ASSUME IndInv, NEW fd \in Fd, AddConnection(fd) PROVE IndInv'
  <1> USE FdAssumption
  <1>1. PICK c \in ClientId \ clients, s \in Fd \ (open \cup Listener) :
          /\ clients' = clients \cup {c}
          /\ sock' = [sock EXCEPT ![c] = s]
          /\ fdMap' = [fdMap EXCEPT ![s] = c]
          /\ interest' = [interest EXCEPT ![s] = {"in"}]
          /\ open' = open \cup {s}
    BY DEF AddConnection, AcceptEvent, AtListener
  <1>2. /\ pc = "dispatch" /\ cur = NoFd
        /\ events' = [events EXCEPT ![fd] = {}]
        /\ UNCHANGED <<pc, cur, owner, todo, signal, cgi, child, lost>>
    BY DEF AddConnection, AcceptEvent, AtListener
  <1>3. s # NoFd /\ c # NoClient /\ fdMap[s] = NoClient /\ events[s] = {}
    BY DEF IndInv, TypeOK, MapSound, NoStaleEvent
  <1>4. TypeOK'
    BY <1>1, <1>2 DEF IndInv, TypeOK, Ready
  <1>5. MapSound'
    <2> SUFFICES ASSUME NEW x \in Fd, fdMap'[x] # NoClient
                 PROVE  /\ fdMap'[x] \in clients'
                        /\ x \in {sock'[fdMap'[x]], cgi'[fdMap'[x]]} \ {NoFd}
                        /\ x \in open' /\ interest'[x] # {}
      BY DEF MapSound, Descriptors
    <2>1. CASE x = s
      BY <1>1, <1>2, <1>3, <2>1 DEF IndInv, TypeOK
    <2>2. CASE x # s
      <3>1. /\ fdMap'[x] = fdMap[x] /\ fdMap[x] \in clients /\ fdMap[x] # c
            /\ x \in Descriptors(fdMap[x]) /\ x \in open /\ interest[x] # {}
        BY <1>1, <2>2 DEF IndInv, TypeOK, MapSound
      <3> QED BY <1>1, <1>2, <2>2, <3>1 DEF IndInv, TypeOK, Descriptors
    <2> QED BY <2>1, <2>2
  <1>6. ListenersUnmapped' /\ WatchedMapped'
    BY <1>1, <1>3 DEF IndInv, TypeOK, ListenersUnmapped, WatchedMapped
  <1>7. CurrentKnown' /\ BatchConsumed' /\ NoStaleEvent'
    BY <1>1, <1>2, <1>3 DEF IndInv, TypeOK, CurrentKnown, BatchConsumed, InBatch, NoStaleEvent
  <1>8. ListSound'
    BY <1>1, <1>2 DEF IndInv, TypeOK, ListSound
  <1> QED BY <1>4, <1>5, <1>6, <1>7, <1>8 DEF IndInv

LEMMA AcceptFailsInd == ASSUME IndInv, NEW fd \in Fd, AcceptFails(fd) PROVE IndInv'
  BY FdAssumption DEF IndInv, TypeOK, MapSound, ListenersUnmapped, WatchedMapped,
     CurrentKnown, BatchConsumed, InBatch, NoStaleEvent, ListSound, NoEvents,
     AcceptFails, AcceptEvent, AtListener, table, kernel, Descriptors

LEMMA InitFailsInd == ASSUME IndInv, NEW fd \in Fd, InitFails(fd) PROVE IndInv'
  <1> USE FdAssumption
  <1>1. PICK c \in ClientId \ clients, s \in Fd \ (open \cup Listener) :
          clients' = clients \cup {c} /\ sock' = [sock EXCEPT ![c] = s]
    BY DEF InitFails
  <1>2. /\ pc = "dispatch" /\ cur = NoFd
        /\ events' = [events EXCEPT ![fd] = {}]
        /\ UNCHANGED <<pc, cur, owner, todo, signal, cgi, child, fdMap, interest, open, lost>>
    BY DEF InitFails, AcceptEvent, AtListener, kernel
  <1>3. TypeOK'
    BY <1>1, <1>2 DEF IndInv, TypeOK
  <1>4. MapSound'
    BY <1>1, <1>2 DEF IndInv, TypeOK, MapSound, Descriptors
  <1>5. ListenersUnmapped' /\ WatchedMapped' /\ CurrentKnown' /\ BatchConsumed' /\ NoStaleEvent'
    BY <1>2 DEF IndInv, TypeOK, ListenersUnmapped, WatchedMapped, CurrentKnown,
       BatchConsumed, InBatch, NoStaleEvent
  <1>6. ListSound'
    BY <1>1, <1>2 DEF IndInv, TypeOK, ListSound
  <1> QED BY <1>3, <1>4, <1>5, <1>6 DEF IndInv

(* A client removed on a hang-up takes the events of both its descriptors  *)
(* out of the batch: what is left still belongs to whom it was reported    *)
(* for.                                                                    *)
LEMMA HangUpInd == ASSUME IndInv, HangUp PROVE IndInv'
  <1> USE FdAssumption
  <1> DEFINE c == fdMap[cur]
  <1>1. cur \in Fd /\ cur # NoFd /\ pc = "dispatch" /\ c \in ClientId
    BY DEF HangUp, IndInv, TypeOK, CurrentKnown, InBatch
  <1>2. CASE KeepsClient(cur)
    <2>1. Handled({"hup"}) /\ UNCHANGED <<pc, todo, signal, table, kernel>>
      BY <1>2 DEF HangUp, RemoveByFd
    <2> QED
      BY <1>1, <2>1, HandledShrinks DEF IndInv, TypeOK, MapSound, ListenersUnmapped,
         WatchedMapped, CurrentKnown, BatchConsumed, InBatch, NoStaleEvent, ListSound, table, kernel,
         Descriptors
  <1>3. CASE ~KeepsClient(cur)
    <2>1. /\ RemoveConnection(c)
          /\ events' = Scrubbed(c) /\ cur' = NoFd /\ UNCHANGED <<owner, pc, todo, signal>>
      BY <1>3 DEF HangUp, RemoveByFd
    <2>2. TypeOK'
      BY <1>1, <2>1, RemovalInd DEF IndInv, TypeOK, Scrubbed
    <2>3. MapSound' /\ ListenersUnmapped' /\ WatchedMapped'
      BY <1>1, <2>1, RemovalInd DEF TablesSound
    <2>4. CurrentKnown' /\ BatchConsumed'
      BY <1>1, <2>1 DEF CurrentKnown, BatchConsumed, InBatch
    <2>5. NoStaleEvent'
      BY <1>1, <2>1, RemovalInd DEF IndInv, TypeOK, NoStaleEvent, Scrubbed
    <2>6. ListSound'
      BY <1>1, <2>1, RemovalInd DEF IndInv, ListSound
    <2> QED BY <2>2, <2>3, <2>4, <2>5, <2>6 DEF IndInv
  <1> QED BY <1>2, <1>3

LEMMA HandlerContinuesInd ==
  ASSUME IndInv, NEW f \in Ready, HandlerContinues(f) PROVE IndInv'
  <1>1. /\ cur # NoFd /\ Handled({f})
        /\ InBatch' /\ UNCHANGED <<table, todo, signal, kernel>>
    BY DEF HandlerContinues, Handling, InBatch
  <1> QED
    BY <1>1, HandledShrinks DEF IndInv, TypeOK, MapSound, ListenersUnmapped,
       WatchedMapped, CurrentKnown, BatchConsumed, InBatch, NoStaleEvent, ListSound, table, kernel,
       Descriptors

(* _switchToWrite and _saveFile change what epoll watches a mapped         *)
(* descriptor for, never to nothing.                                       *)
LEMMA InterestInd ==
  ASSUME IndInv, cur # NoFd, NEW f, Handled(f), NEW w \in SUBSET Ready, w # {},
         interest' = [interest EXCEPT ![cur] = w],
         pc' = "dispatch", UNCHANGED <<table, todo, signal, open, lost>>
  PROVE  IndInv'
  <1>1. cur \in Fd /\ fdMap[cur] # NoClient
    BY DEF IndInv, TypeOK, CurrentKnown, InBatch
  <1>2. TypeOK'
    BY <1>1, HandledShrinks DEF IndInv, TypeOK, table
  <1>3. MapSound' /\ ListenersUnmapped' /\ WatchedMapped'
    BY <1>1 DEF IndInv, TypeOK, MapSound, ListenersUnmapped, WatchedMapped, Descriptors, table
  <1>4. CurrentKnown' /\ BatchConsumed' /\ NoStaleEvent' /\ ListSound'
    BY <1>1, HandledShrinks DEF IndInv, TypeOK, CurrentKnown, BatchConsumed, InBatch, NoStaleEvent,
       ListSound, table
  <1> QED BY <1>2, <1>3, <1>4 DEF IndInv

LEMMA SwitchToWriteInd == ASSUME IndInv, SwitchToWrite PROVE IndInv'
  BY InterestInd DEF SwitchToWrite, Handling, Ready

LEMMA BodyForwardedInd == ASSUME IndInv, BodyForwarded PROVE IndInv'
  BY InterestInd DEF BodyForwarded, Handling, Ready

(* The parent socket of a CGI was not open either. *)
LEMMA StartCGIInd == ASSUME IndInv, NEW forked \in BOOLEAN, StartCGI(forked) PROVE IndInv'
  <1> USE FdAssumption
  <1> DEFINE c == fdMap[cur]
  <1>1. /\ cur # NoFd /\ cgi[c] = NoFd /\ Handled({"in"})
        /\ child' = [child EXCEPT ![c] = IF forked THEN "running" ELSE "none"]
        /\ pc' = "dispatch" /\ UNCHANGED <<clients, sock, todo, signal>>
    BY DEF StartCGI, Handling
  <1>2. cur \in Fd /\ c \in clients /\ cur \in open /\ c # NoClient
    BY <1>1 DEF IndInv, TypeOK, MapSound, CurrentKnown, InBatch
  <1>3. PICK p \in Fd \ (open \cup Listener), option \in {{"in"}, Ready} :
          /\ cgi' = [cgi EXCEPT ![c] = p]
          /\ fdMap' = [fdMap EXCEPT ![p] = c]
          /\ interest' = [interest EXCEPT ![p] = option, ![cur] = Ready]
          /\ \E other \in IF forked THEN {{}} ELSE {{q} : q \in Fd \ (open \cup Listener \cup {p})} :
               open' = open \cup {p} \cup other /\ lost' = lost \cup other
    BY DEF StartCGI
  <1>a. open \cup {p} \subseteq open' /\ open' \subseteq Fd /\ lost' \subseteq Fd
    <2>1. PICK other \in SUBSET Fd : open' = open \cup {p} \cup other /\ lost' = lost \cup other
      BY <1>3
    <2> QED BY <2>1 DEF IndInv, TypeOK
  <1>4. p # NoFd /\ p # cur /\ fdMap[p] = NoClient /\ events[p] = {}
    BY <1>2 DEF IndInv, TypeOK, MapSound, NoStaleEvent
  <1>5. TypeOK'
    BY <1>1, <1>2, <1>3, <1>a, HandledShrinks DEF IndInv, TypeOK, Ready
  <1>6. MapSound'
    <2> SUFFICES ASSUME NEW x \in Fd, fdMap'[x] # NoClient
                 PROVE  /\ fdMap'[x] \in clients'
                        /\ x \in {sock'[fdMap'[x]], cgi'[fdMap'[x]]} \ {NoFd}
                        /\ x \in open' /\ interest'[x] # {}
      BY DEF MapSound, Descriptors
    <2>1. CASE x = p
      BY <1>1, <1>2, <1>3, <1>4, <1>a, <2>1 DEF IndInv, TypeOK, Ready
    <2>2. CASE x # p
      <3>1. /\ fdMap'[x] = fdMap[x] /\ fdMap[x] \in clients
            /\ x \in Descriptors(fdMap[x]) /\ x \in open /\ interest[x] # {}
        BY <1>3, <2>2 DEF IndInv, TypeOK, MapSound
      <3>2. interest'[x] # {}
        BY <1>2, <1>3, <2>2, <3>1 DEF IndInv, TypeOK, Ready
      <3> QED BY <1>1, <1>2, <1>3, <1>a, <2>2, <3>1, <3>2 DEF IndInv, TypeOK, Descriptors
    <2> QED BY <2>1, <2>2
  <1>7. ListenersUnmapped' /\ WatchedMapped'
    BY <1>2, <1>3, <1>4, <1>1 DEF IndInv, TypeOK, ListenersUnmapped, WatchedMapped, CurrentKnown, InBatch
  <1>8. CurrentKnown' /\ BatchConsumed' /\ NoStaleEvent'
    BY <1>1, <1>2, <1>3, <1>4, HandledShrinks
       DEF IndInv, TypeOK, CurrentKnown, BatchConsumed, InBatch, NoStaleEvent
  <1>9. ListSound'
    BY <1>1 DEF IndInv, ListSound, CurrentKnown, InBatch
  <1> QED BY <1>5, <1>6, <1>7, <1>8, <1>9 DEF IndInv

LEMMA HandlerEndsInd == ASSUME IndInv, NEW f \in Ready, HandlerEnds(f) PROVE IndInv'
  <1> USE FdAssumption
  <1> DEFINE c == fdMap[cur]
  <1>1. /\ cur \in Fd /\ pc' = "dispatch" /\ InBatch /\ c \in ClientId
        /\ DropBatch /\ UNCHANGED <<todo, signal>>
    BY DEF HandlerEnds, Handling, IndInv, TypeOK, CurrentKnown, InBatch
  <1>2. CASE KeepsClient(cur)
    <2>1. UNCHANGED <<table, kernel>>
      BY <1>2 DEF HandlerEnds, RemoveByFd
    <2> QED
      BY <1>1, <2>1 DEF IndInv, TypeOK, MapSound, ListenersUnmapped, WatchedMapped, Descriptors,
         CurrentKnown, BatchConsumed, InBatch, NoStaleEvent, ListSound, table, kernel, DropBatch,
         NoEvents, NoOwner
  <1>3. CASE ~KeepsClient(cur)
    <2>1. RemoveConnection(c)
      BY <1>3 DEF HandlerEnds, RemoveByFd
    <2>2. TypeOK' /\ MapSound' /\ ListenersUnmapped' /\ WatchedMapped'
      BY <1>1, <2>1, RemovalInd DEF TablesSound, IndInv, TypeOK, DropBatch, NoEvents, NoOwner
    <2>3. CurrentKnown' /\ BatchConsumed' /\ NoStaleEvent' /\ ListSound'
      BY <1>1, <2>1, RemovalInd DEF IndInv, CurrentKnown, BatchConsumed, InBatch, NoStaleEvent,
         ListSound, DropBatch, NoEvents
    <2> QED BY <2>2, <2>3 DEF IndInv
  <1> QED BY <1>2, <1>3

LEMMA SweepRemovesInd == ASSUME IndInv, NEW c \in ClientId, SweepRemoves(c) PROVE IndInv'
  <1> USE FdAssumption
  <1> DEFINE v == fdMap[sock[c]]
  <1>1. /\ pc = "sweep" /\ sock[c] \in Fd /\ v \in ClientId /\ events = NoEvents /\ cur = NoFd
        /\ todo' = (todo \ {c}) \cap clients' /\ UNCHANGED <<pc, batch, signal>>
    BY DEF SweepRemoves, Visit, IndInv, TypeOK, ListSound, CurrentKnown, BatchConsumed, InBatch
  <1>2. CASE KeepsClient(sock[c])
    <2>1. UNCHANGED <<table, kernel>>
      BY <1>2 DEF SweepRemoves, RemoveByFd
    <2> QED
      BY <1>1, <2>1 DEF IndInv, TypeOK, MapSound, ListenersUnmapped, WatchedMapped, Descriptors,
         CurrentKnown, BatchConsumed, InBatch, NoStaleEvent, ListSound, table, kernel, batch
  <1>3. CASE ~KeepsClient(sock[c])
    <2>1. RemoveConnection(v)
      BY <1>3 DEF SweepRemoves, RemoveByFd
    <2>2. TypeOK' /\ MapSound' /\ ListenersUnmapped' /\ WatchedMapped'
      BY <1>1, <2>1, RemovalInd DEF TablesSound, IndInv, TypeOK, batch
    <2>3. CurrentKnown' /\ BatchConsumed' /\ NoStaleEvent' /\ ListSound'
      BY <1>1, <2>1, RemovalInd DEF IndInv, CurrentKnown, BatchConsumed, InBatch, NoStaleEvent,
         ListSound, batch, NoEvents
    <2> QED BY <2>2, <2>3 DEF IndInv
  <1> QED BY <1>2, <1>3

LEMMA SweepKeepsInd == ASSUME IndInv, NEW c \in ClientId, SweepKeeps(c) PROVE IndInv'
  <1> USE FdAssumption
  <1>1. /\ pc = "sweep" /\ sock[c] \in Fd /\ events = NoEvents /\ cur = NoFd
        /\ todo' = todo \ {c}
        /\ UNCHANGED <<pc, table, batch, signal, open, lost>>
    BY DEF SweepKeeps, Visit, IndInv, TypeOK, ListSound, CurrentKnown, BatchConsumed, InBatch
  <1>2. /\ interest' \in [Fd -> SUBSET Ready]
        /\ \A fd \in Fd : interest'[fd] # {} <=> interest[fd] # {}
    <2>1. CASE UNCHANGED interest
      BY <2>1 DEF IndInv, TypeOK
    <2>2. CASE interest[sock[c]] # {} /\ interest' = [interest EXCEPT ![sock[c]] = Ready]
      BY <1>1, <2>2 DEF IndInv, TypeOK, Ready
    <2> QED BY <2>1, <2>2 DEF SweepKeeps
  <1>3. TypeOK' /\ CurrentKnown' /\ BatchConsumed' /\ NoStaleEvent' /\ ListSound'
    BY <1>1, <1>2 DEF IndInv, TypeOK, CurrentKnown, BatchConsumed, InBatch, NoStaleEvent, ListSound,
       table, batch
  <1>4. MapSound' /\ ListenersUnmapped' /\ WatchedMapped'
    BY <1>1, <1>2 DEF IndInv, TypeOK, MapSound, ListenersUnmapped, WatchedMapped, Descriptors, table
  <1> QED BY <1>3, <1>4 DEF IndInv

-----------------------------------------------------------------------------
(* The invariant is inductive. *)

LEMMA StepInd == IndInv /\ [Next]_vars => IndInv'
  <1> SUFFICES ASSUME IndInv, [Next]_vars PROVE IndInv'
    OBVIOUS
  <1> USE FdAssumption
  <1>1. CASE Configure
    BY <1>1 DEF Configure, AddSockets, IndInv, TypeOK, MapSound, ListenersUnmapped, WatchedMapped,
       CurrentKnown, BatchConsumed, InBatch, NoStaleEvent, ListSound, table, batch, Descriptors, Ready
  <1>2. CASE ConfigureFails \/ Stop
    BY <1>2, ExitInd DEF ConfigureFails, Stop
  <1>3. CASE EpollWait
    BY <1>3, EpollWaitInd
  <1>4. CASE \E fd \in Fd : LookAt(fd)
    <2>1. PICK fd \in Fd : LookAt(fd)
      BY <1>4
    <2>2. CASE NextEvent(fd)
      BY <2>2 DEF NextEvent, Pending, IndInv, TypeOK, MapSound, ListenersUnmapped, WatchedMapped,
         CurrentKnown, BatchConsumed, InBatch, NoStaleEvent, ListSound, table, kernel, Descriptors
    <2>3. CASE AcceptThrows(fd)
      BY <2>3, ThrowInd DEF AcceptThrows
    <2> QED BY <2>1, <2>2, <2>3, AddConnectionInd, AcceptFailsInd, InitFailsInd DEF LookAt
  <1>5. CASE HangUp
    BY <1>5, HangUpInd
  <1>6. CASE \E f \in Ready : RunHandler(f)
    <2>1. PICK f \in Ready : RunHandler(f)
      BY <1>6
    <2>2. CASE HandlerBlocks(f)
      BY <2>2 DEF HandlerBlocks, Handling, InBatch, IndInv, TypeOK, MapSound, ListenersUnmapped,
         WatchedMapped, CurrentKnown, BatchConsumed, NoStaleEvent, ListSound, table, batch,
         kernel, Descriptors
    <2>3. CASE HandlerThrows(f)
      BY <2>3, ThrowInd DEF HandlerThrows
    <2> QED BY <2>1, <2>2, <2>3, HandlerContinuesInd, HandlerEndsInd DEF RunHandler
  <1>7. CASE SwitchToWrite \/ BodyForwarded
    BY <1>7, SwitchToWriteInd, BodyForwardedInd
  <1>8. CASE StartCGI(TRUE) \/ StartCGI(FALSE) \/ CgiThrows
    <2>1. CASE CgiThrows
      BY <2>1, ThrowInd DEF CgiThrows
    <2> QED BY <1>8, <2>1, StartCGIInd
  <1>9. CASE StartSweep
    BY <1>9 DEF StartSweep, DropBatch, IndInv, TypeOK, MapSound, ListenersUnmapped,
       WatchedMapped, CurrentKnown, BatchConsumed, InBatch, NoStaleEvent, ListSound, table, kernel,
       Descriptors, NoEvents, NoOwner
  <1>10. CASE RemoveAll
    BY <1>10, ExitInd DEF RemoveAll
  <1>11. CASE \E c \in ClientId : SweepKeeps(c) \/ SweepRemoves(c) \/ SweepCrashes(c) \/ SweepThrows(c)
    <2>1. PICK c \in ClientId : SweepKeeps(c) \/ SweepRemoves(c) \/ SweepCrashes(c) \/ SweepThrows(c)
      BY <1>11
    <2>2. CASE SweepCrashes(c)
      BY <2>2, ExitInd DEF SweepCrashes
    <2>3. CASE SweepThrows(c)
      BY <2>3, ThrowInd DEF SweepThrows
    <2> QED BY <2>1, <2>2, <2>3, SweepKeepsInd, SweepRemovesInd
  <1>12. CASE SweepDone
    BY <1>12 DEF SweepDone, IndInv, TypeOK, MapSound, ListenersUnmapped, WatchedMapped,
       CurrentKnown, BatchConsumed, InBatch, NoStaleEvent, ListSound, table, batch, kernel, Descriptors
  <1>13. CASE Environment
    <2>1. CASE Quit
      BY <2>1 DEF Quit, IndInv, TypeOK, MapSound, ListenersUnmapped, WatchedMapped, CurrentKnown,
         BatchConsumed, InBatch, NoStaleEvent, ListSound, table, batch, kernel, Descriptors
    <2>2. CASE \E c \in ClientId : ChildExits(c)
      <3>1. TypeOK'
        BY <2>2 DEF ChildExits, IndInv, TypeOK, batch, kernel
      <3> QED
        BY <2>2, <3>1 DEF ChildExits, IndInv, MapSound, ListenersUnmapped, WatchedMapped,
           CurrentKnown, BatchConsumed, InBatch, NoStaleEvent, ListSound, batch, kernel, Descriptors
    <2> QED BY <1>13, <2>1, <2>2 DEF Environment
  <1>14. CASE UNCHANGED vars
    BY <1>14 DEF vars, IndInv, TypeOK, MapSound, ListenersUnmapped, WatchedMapped, CurrentKnown,
       BatchConsumed, InBatch, NoStaleEvent, ListSound, table, batch, kernel, Descriptors
  <1> QED
    BY <1>1, <1>2, <1>3, <1>4, <1>5, <1>6, <1>7, <1>8, <1>9, <1>10, <1>11, <1>12, <1>13, <1>14
       DEF Next, Server, Routine

LEMMA IndInvHolds == Spec => []IndInv
  BY InitInd, StepInd, PTL DEF Spec

-----------------------------------------------------------------------------
(* Every variable keeps its type. *)
THEOREM TypeCorrect == Spec => []TypeOK
  BY IndInvHolds, PTL DEF IndInv

(* No entry of _fdClientMap ever dangles, whatever fails: the iterator     *)
(* routine() dereferences always names a live client.                      *)
THEOREM MapIsSound == Spec => []MapSound
  BY IndInvHolds, PTL DEF IndInv

(* No event is dispatched to a client it was not reported for, even when   *)
(* descriptors are closed and handed out again inside the batch.           *)
THEOREM EventsAreFresh == Spec => []NoStaleEvent
  BY IndInvHolds, PTL DEF IndInv

-----------------------------------------------------------------------------
(* When Client::init never fails: clients and map agree. *)

(* A list node that is not in use has no CGI. *)
FreshNodes == \A c \in ClientId \ clients : cgi[c] = NoFd

RegInv == ClientsRegistered /\ FreshNodes

LEMMA RemovalReg ==
  ASSUME IndInv, RegInv, NEW c \in clients, RemoveConnection(c)
  PROVE  /\ RegInv'
         /\ \A fd \in Fd : fdMap'[fd] # NoClient <=> fdMap[fd] # NoClient /\ fd \notin Descriptors(c)
  <1> USE FdAssumption
  <1>1. c \in ClientId /\ c # NoClient /\ \A fd \in Descriptors(c) : fd \in Fd /\ fdMap[fd] = c
    BY DEF IndInv, TypeOK, RegInv, ClientsRegistered
  <1>2. ClientsRegistered'
    <2> SUFFICES ASSUME NEW d \in clients'
                 PROVE  /\ \A fd \in ({sock[d]} \cup Descriptors(d))' : fd \in Fd /\ fdMap'[fd] = d
                        /\ "in" \in interest'[sock'[d]]
      BY DEF ClientsRegistered
    <2>1. d \in clients /\ d # c /\ d \in ClientId /\ sock'[d] = sock[d] /\ cgi'[d] = cgi[d]
      BY DEF RemoveConnection, IndInv, TypeOK
    <2>2. \A fd \in {sock[d]} \cup Descriptors(d) : fd \in Fd /\ fdMap[fd] = d /\ fd \notin Descriptors(c)
      BY <1>1, <2>1 DEF RegInv, ClientsRegistered
    <2>3. "in" \in interest[sock[d]]
      BY <2>1 DEF RegInv, ClientsRegistered
    <2> QED BY <2>1, <2>2, <2>3 DEF RemoveConnection, Descriptors
  <1>3. FreshNodes'
    BY <1>1 DEF RemoveConnection, IndInv, TypeOK, RegInv, FreshNodes
  <1> QED BY <1>1, <1>2, <1>3 DEF RemoveConnection, RegInv

LEMMA RemoveByFdReg ==
  ASSUME IndInv, RegInv, NEW fd \in Fd, fdMap[fd] # NoClient, RemoveByFd(fd)
  PROVE  RegInv'
  <1>1. fdMap[fd] \in clients
    BY DEF IndInv, MapSound
  <1>2. CASE KeepsClient(fd)
    BY <1>2 DEF RemoveByFd, RegInv, ClientsRegistered, FreshNodes, Descriptors, table, kernel
  <1>3. CASE ~KeepsClient(fd)
    BY <1>1, <1>3, RemovalReg DEF RemoveByFd
  <1> QED BY <1>2, <1>3

LEMMA AddConnectionReg == ASSUME IndInv, RegInv, NEW fd \in Fd, AddConnection(fd) PROVE RegInv'
  <1> USE FdAssumption
  <1>1. PICK c \in ClientId \ clients, s \in Fd \ (open \cup Listener) :
          /\ clients' = clients \cup {c}
          /\ sock' = [sock EXCEPT ![c] = s]
          /\ fdMap' = [fdMap EXCEPT ![s] = c]
          /\ interest' = [interest EXCEPT ![s] = {"in"}]
          /\ cgi' = cgi
    BY DEF AddConnection
  <1>2. fdMap[s] = NoClient /\ cgi[c] = NoFd /\ s # NoFd /\ NoClient \notin clients
    BY DEF IndInv, TypeOK, MapSound, RegInv, FreshNodes
  <1>3. ClientsRegistered'
    <2> SUFFICES ASSUME NEW d \in clients'
                 PROVE  /\ \A x \in ({sock[d]} \cup Descriptors(d))' : x \in Fd /\ fdMap'[x] = d
                        /\ "in" \in interest'[sock'[d]]
      BY DEF ClientsRegistered
    <2>1. CASE d = c
      BY <1>1, <1>2, <2>1 DEF IndInv, TypeOK, Descriptors
    <2>2. CASE d # c
      <3>1. d \in clients /\ d \in ClientId /\ sock'[d] = sock[d] /\ cgi'[d] = cgi[d]
        BY <1>1, <2>2 DEF IndInv, TypeOK
      <3>2. /\ \A x \in {sock[d]} \cup Descriptors(d) : x \in Fd /\ fdMap[x] = d /\ x # s
            /\ "in" \in interest[sock[d]]
        BY <1>2, <3>1 DEF RegInv, ClientsRegistered
      <3> QED BY <1>1, <3>1, <3>2 DEF Descriptors, IndInv, TypeOK
    <2> QED BY <2>1, <2>2
  <1>4. FreshNodes'
    BY <1>1 DEF RegInv, FreshNodes
  <1> QED BY <1>3, <1>4 DEF RegInv

(* Watching a mapped descriptor for more, or a CGI socket for input only.  *)
LEMMA InterestReg ==
  ASSUME IndInv, RegInv, NEW fd \in Fd, NEW w, "in" \in w,
         interest' = [interest EXCEPT ![fd] = w], UNCHANGED <<clients, sock, cgi, fdMap>>
  PROVE  RegInv'
  BY DEF IndInv, TypeOK, RegInv, ClientsRegistered, FreshNodes, Descriptors

LEMMA StartCGIReg == ASSUME IndInv, RegInv, NEW forked \in BOOLEAN, StartCGI(forked) PROVE RegInv'
  <1> USE FdAssumption
  <1> DEFINE c == fdMap[cur]
  <1>1. cur \in Fd /\ c \in clients /\ cgi[c] = NoFd /\ clients' = clients /\ sock' = sock
    BY DEF StartCGI, Handling, IndInv, TypeOK, MapSound, CurrentKnown, InBatch
  <1>2. PICK p \in Fd \ (open \cup Listener), option \in {{"in"}, Ready} :
          /\ cgi' = [cgi EXCEPT ![c] = p]
          /\ fdMap' = [fdMap EXCEPT ![p] = c]
          /\ interest' = [interest EXCEPT ![p] = option, ![cur] = Ready]
    BY DEF StartCGI
  <1>3. fdMap[p] = NoClient /\ NoClient \notin clients /\ p # NoFd
    BY DEF IndInv, TypeOK, MapSound
  <1>4. ClientsRegistered'
    <2> SUFFICES ASSUME NEW d \in clients'
                 PROVE  /\ \A x \in ({sock[d]} \cup Descriptors(d))' : x \in Fd /\ fdMap'[x] = d
                        /\ "in" \in interest'[sock'[d]]
      BY DEF ClientsRegistered
    <2>1. /\ d \in clients /\ d \in ClientId
          /\ \A x \in {sock[d]} \cup Descriptors(d) : x \in Fd /\ fdMap[x] = d /\ x # p
          /\ "in" \in interest[sock[d]]
      BY <1>1, <1>3 DEF RegInv, ClientsRegistered, IndInv, TypeOK
    <2>2. "in" \in interest'[sock'[d]]
      BY <1>1, <1>2, <2>1 DEF IndInv, TypeOK, Ready
    <2>3. CASE d = c
      BY <1>1, <1>2, <2>1, <2>2, <2>3 DEF Descriptors, IndInv, TypeOK
    <2>4. CASE d # c
      BY <1>1, <1>2, <2>1, <2>2, <2>4 DEF Descriptors, IndInv, TypeOK
    <2> QED BY <2>3, <2>4
  <1>5. FreshNodes'
    BY <1>1, <1>2 DEF RegInv, FreshNodes, IndInv, TypeOK
  <1> QED BY <1>4, <1>5 DEF RegInv

(* An emptied table has nothing to agree about. *)
LEMMA EmptiedReg == ASSUME Emptied PROVE RegInv'
  BY DEF Emptied, RegInv, ClientsRegistered, FreshNodes

LEMMA StepReg ==
  ASSUME "init" \notin Faults, IndInv, RegInv, [Next]_vars PROVE RegInv'
  <1> USE FdAssumption
  <1>1. CASE Configure
    <2>1. \A d \in clients : sock[d] \in Fd \ Listener
      BY DEF IndInv, TypeOK, ListenersUnmapped, RegInv, ClientsRegistered
    <2> QED
      BY <1>1, <2>1 DEF Configure, AddSockets, IndInv, TypeOK, RegInv, ClientsRegistered, FreshNodes,
         Descriptors, table
  <1>2. CASE ConfigureFails \/ Stop \/ RemoveAll
    BY <1>2, EmptiedReg DEF ConfigureFails, Stop, RemoveAll
  <1>3. CASE /\ UNCHANGED <<clients, sock, cgi, fdMap, interest>>
    BY <1>3 DEF RegInv, ClientsRegistered, FreshNodes, Descriptors
  <1>4. CASE \E fd \in Fd : LookAt(fd)
    <2>1. PICK fd \in Fd : LookAt(fd)
      BY <1>4
    <2>2. CASE NextEvent(fd) \/ AcceptFails(fd)
      BY <1>3, <2>2 DEF NextEvent, AcceptFails, AcceptEvent, AtListener, table, kernel
    <2>3. CASE AcceptThrows(fd)
      BY <2>3, EmptiedReg DEF AcceptThrows, Throw
    <2> QED BY <2>1, <2>2, <2>3, AddConnectionReg DEF LookAt, InitFails
  <1>5. CASE HangUp
    BY <1>5, RemoveByFdReg DEF HangUp, IndInv, TypeOK, CurrentKnown, InBatch
  <1>6. CASE \E f \in Ready : RunHandler(f)
    <2>1. PICK f \in Ready : RunHandler(f)
      BY <1>6
    <2>2. CASE HandlerBlocks(f) \/ HandlerContinues(f)
      BY <1>3, <2>2 DEF HandlerBlocks, HandlerContinues, table, kernel
    <2>3. CASE HandlerEnds(f)
      BY <2>3, RemoveByFdReg DEF HandlerEnds, Handling, IndInv, TypeOK, CurrentKnown, InBatch
    <2>4. CASE HandlerThrows(f)
      BY <2>4, EmptiedReg DEF HandlerThrows, Throw
    <2> QED BY <2>1, <2>2, <2>3, <2>4 DEF RunHandler
  <1>7. CASE SwitchToWrite
    BY <1>7, InterestReg DEF SwitchToWrite, Handling, IndInv, TypeOK, table, Ready
  <1>8. CASE BodyForwarded
    BY <1>8, InterestReg DEF BodyForwarded, Handling, IndInv, TypeOK, table
  <1>9. CASE StartCGI(TRUE) \/ StartCGI(FALSE) \/ CgiThrows
    <2>1. CASE CgiThrows
      BY <2>1, EmptiedReg DEF CgiThrows, Throw
    <2> QED BY <1>9, <2>1, StartCGIReg
  <1>10. CASE \E c \in ClientId : SweepKeeps(c) \/ SweepRemoves(c) \/ SweepCrashes(c) \/ SweepThrows(c)
    <2>1. PICK c \in ClientId : SweepKeeps(c) \/ SweepRemoves(c) \/ SweepCrashes(c) \/ SweepThrows(c)
      BY <1>10
    <2>2. pc = "sweep" /\ c \in clients /\ sock[c] \in Fd
      BY <2>1 DEF SweepKeeps, SweepRemoves, SweepCrashes, SweepThrows, Visit, IndInv, ListSound
    <2>3. CASE SweepKeeps(c)
      <3>1. UNCHANGED <<clients, sock, cgi, fdMap>>
        BY <2>3 DEF SweepKeeps, table
      <3>2. CASE UNCHANGED interest
        BY <1>3, <3>1, <3>2
      <3>3. CASE interest' = [interest EXCEPT ![sock[c]] = Ready]
        BY <2>2, <3>1, <3>3, InterestReg DEF Ready
      <3> QED BY <2>3, <3>2, <3>3 DEF SweepKeeps
    <2>4. CASE SweepRemoves(c)
      BY <2>2, <2>4, RemoveByFdReg DEF SweepRemoves
    <2>5. CASE SweepCrashes(c) \/ SweepThrows(c)
      BY <2>5, EmptiedReg DEF SweepCrashes, SweepThrows, Throw
    <2> QED BY <2>1, <2>3, <2>4, <2>5
  <1>11. CASE EpollWait \/ StartSweep \/ SweepDone \/ Environment
    BY <1>3, <1>11 DEF EpollWait, StartSweep, SweepDone, Environment, Quit, ChildExits, table,
       kernel, batch
  <1>12. CASE UNCHANGED vars
    BY <1>3, <1>12 DEF vars, table, kernel
  <1> QED
    BY <1>1, <1>2, <1>4, <1>5, <1>6, <1>7, <1>8, <1>9, <1>10, <1>11, <1>12
       DEF Next, Server, Routine

(* Every client can be found through the map by each of its descriptors:   *)
(* what the sweep and the shutdown loop of routine() rely on.              *)
THEOREM ClientsAreRegistered == ASSUME "init" \notin Faults PROVE Spec => []ClientsRegistered
  <1>1. Init => RegInv
    BY DEF Init, RegInv, ClientsRegistered, FreshNodes
  <1>2. IndInv /\ RegInv /\ [Next]_vars => RegInv'
    BY StepReg
  <1> QED BY <1>1, <1>2, IndInvHolds, PTL DEF Spec, RegInv

-----------------------------------------------------------------------------
(* EventLoop implements ConnectionTable. *)

(* Whoever the map names, for a socket or a CGI socket, is connected: it   *)
(* is also named for its own socket.                                       *)
MappedConnected == \A fd \in Fd : fdMap[fd] # NoClient => fdMap[fd] \in Connected

(* A client's CGI socket is in the map and names that client; who is not   *)
(* in the map has no CGI.                                                  *)
CgiMapped == \A c \in ClientId : cgi[c] # NoFd => cgi[c] \in Fd /\ fdMap[cgi[c]] = c

RInv == IndInv /\ MappedConnected /\ CgiMapped

-----------------------------------------------------------------------------
(* The operators of the mapping. *)

(* Who is connected is in the list, so it is not a fresh node. *)
LEMMA ConnectedListed == ASSUME IndInv PROVE Connected \subseteq clients
  BY FdAssumption DEF IndInv, TypeOK, MapSound, Connected

(* Every descriptor of a connected client names it. *)
LEMMA OwnDescriptors ==
  ASSUME RInv, NEW c \in Connected
  PROVE  \A fd \in Descriptors(c) : fd \in Fd /\ fdMap[fd] = c
  BY DEF RInv, CgiMapped, Connected, Descriptors

(* What is reported was reported for a client that is connected now. *)
LEMMA ReportedConnected == ASSUME RInv PROVE Reported \subseteq Connected
  BY DEF RInv, IndInv, NoStaleEvent, MappedConnected, Reported

(* Outside the for loop it is nobody's turn and nothing is reported. *)
LEMMA IdleOutsideBatch ==
  ASSUME IndInv, ~InBatch PROVE Reported = {} /\ Turn = NoClient
  BY DEF IndInv, BatchConsumed, InBatch, CurrentKnown, Reported, Turn, NoEvents

(* While an event is handled it is its client's turn. *)
LEMMA TurnOfCurrent ==
  ASSUME RInv, cur # NoFd
  PROVE  /\ cur \in Fd \ Listener /\ InBatch /\ Turn = fdMap[cur]
         /\ Turn \in Connected /\ Turn # NoClient /\ Turn \in Reported
         /\ owner[cur] = fdMap[cur]
  BY FdAssumption DEF RInv, IndInv, TypeOK, CurrentKnown, InBatch, ListenersUnmapped, NoStaleEvent,
     MappedConnected, Connected, Reported, Turn

-----------------------------------------------------------------------------
(* What the shared pieces of the actions do to the mapped state. *)

(* The map, the sockets and the CGI sockets are as they were. *)
LEMMA TablesKept ==
  ASSUME RInv, UNCHANGED <<sock, cgi, fdMap>>
  PROVE  MappedConnected' /\ CgiMapped' /\ Connected' = Connected /\ Working' = Working
  BY DEF RInv, MappedConnected, CgiMapped, Connected, Working

(* The batch is as it was, and so is the client of the current descriptor. *)
LEMMA BatchKept ==
  ASSUME UNCHANGED batch, cur # NoFd => fdMap'[cur] = fdMap[cur]
  PROVE  Reported' = Reported /\ Turn' = Turn
  BY DEF batch, Reported, Turn

(* A handled flag ends the client's turn or not, and its descriptor was    *)
(* its last one with an event or not.                                      *)
LEMMA HandledEndsTurn ==
  ASSUME RInv, cur # NoFd, NEW f, Handled(f), fdMap'[cur] = fdMap[cur]
  PROVE  Table!TurnEnds
  <1>1. /\ cur \in Fd \ Listener /\ Turn = fdMap[cur] /\ owner[cur] = fdMap[cur]
        /\ owner' = owner
    BY TurnOfCurrent DEF Handled
  <1>2. \A fd \in Fd \ {cur} : events'[fd] = events[fd]
    BY DEF Handled, RInv, IndInv, TypeOK
  <1>3. CASE events[cur] \ f # {}
    <2>1. events'[cur] # {} /\ events[cur] # {} /\ cur' = cur
      BY <1>1, <1>3 DEF Handled, RInv, IndInv, TypeOK
    <2> QED BY <1>1, <1>2, <2>1 DEF Table!TurnEnds, Reported, Turn
  <1>4. CASE events[cur] \ f = {}
    <2>1. events'[cur] = {} /\ cur' = NoFd
      BY <1>1, <1>4 DEF Handled, RInv, IndInv, TypeOK
    <2>2. Reported' \in {Reported, Reported \ {Turn}}
      BY <1>1, <1>2, <2>1 DEF Reported
    <2> QED BY <2>1, <2>2 DEF Table!TurnEnds, Turn
  <1> QED BY <1>3, <1>4

(* The batch is dropped. *)
LEMMA BatchDropped == ASSUME DropBatch PROVE Reported' = {} /\ Turn' = NoClient
  BY DEF DropBatch, Reported, Turn, NoEvents

(* The server is gone: nobody is left. *)
LEMMA NobodyLeft ==
  ASSUME Emptied, DropBatch PROVE Table!Nobody /\ MappedConnected' /\ CgiMapped'
  <1>1. Connected' = {} /\ Working' = {} /\ MappedConnected' /\ CgiMapped'
    BY FdAssumption DEF Emptied, Connected, Working, MappedConnected, CgiMapped, NoOwner
  <1> QED BY <1>1, BatchDropped DEF Table!Nobody

(* A removal takes exactly that client away. *)
LEMMA RemovalStep ==
  ASSUME RInv, NEW c \in Connected, RemoveConnection(c)
  PROVE  /\ Connected' = Connected \ {c} /\ Working' = Working \ {c}
         /\ MappedConnected' /\ CgiMapped'
  <1>1. c \in ClientId /\ c # NoClient /\ \A fd \in Descriptors(c) : fd \in Fd /\ fdMap[fd] = c
    BY OwnDescriptors, FdAssumption DEF Connected
  <1>2. \A d \in ClientId \ {c} :
          /\ sock'[d] = sock[d] /\ cgi'[d] = cgi[d]
          /\ \A fd \in Fd : fdMap[fd] = d => fdMap'[fd] = d
    BY <1>1 DEF RemoveConnection, RInv, IndInv, TypeOK
  <1>3. \A fd \in Fd : fdMap'[fd] # NoClient => fdMap'[fd] = fdMap[fd] /\ fdMap[fd] \in ClientId \ {c}
    <2> SUFFICES ASSUME NEW fd \in Fd, fdMap'[fd] # NoClient
                 PROVE  fdMap'[fd] = fdMap[fd] /\ fdMap[fd] \in ClientId \ {c}
      OBVIOUS
    <2>1. fdMap'[fd] = fdMap[fd] /\ fd \notin Descriptors(c)
      BY DEF RemoveConnection
    <2>2. fdMap[fd] \in clients /\ fd \in Descriptors(fdMap[fd])
      BY <2>1 DEF RInv, IndInv, MapSound
    <2> QED BY <2>1, <2>2 DEF RInv, IndInv, TypeOK
  <1>4. sock'[c] = NoFd /\ cgi'[c] = NoFd
    BY <1>1 DEF RemoveConnection, RInv, IndInv, TypeOK
  <1>5. Connected' = Connected \ {c}
    <2>1. c \notin Connected'
      BY <1>4, FdAssumption DEF Connected
    <2>2. \A d \in ClientId \ {c} : d \in Connected' <=> d \in Connected
      BY <1>2, <1>3, FdAssumption DEF Connected
    <2> QED BY <2>1, <2>2 DEF Connected
  <1>6. Working' = Working \ {c}
    BY <1>2, <1>4 DEF Working
  <1>7. MappedConnected'
    BY <1>3, <1>5 DEF RInv, MappedConnected
  <1>8. CgiMapped'
    BY <1>2, <1>4 DEF RInv, CgiMapped
  <1> QED BY <1>5, <1>6, <1>7, <1>8

(* RemoveByFd removes a connected client or, for a CGI socket, nobody. *)
LEMMA RemoveByFdStep ==
  ASSUME RInv, NEW fd \in Fd, fdMap[fd] # NoClient, RemoveByFd(fd)
  PROVE  /\ MappedConnected' /\ CgiMapped' /\ fdMap[fd] \in Connected
         /\ \/ KeepsClient(fd) /\ Connected' = Connected /\ Working' = Working
            \/ /\ RemoveConnection(fdMap[fd])
               /\ Connected' = Connected \ {fdMap[fd]} /\ Working' = Working \ {fdMap[fd]}
  <1>1. fdMap[fd] \in Connected
    BY DEF RInv, MappedConnected
  <1> QED BY <1>1, TablesKept, RemovalStep DEF RemoveByFd, table

-----------------------------------------------------------------------------
(* One lemma per action.  TableStep is a step of the table, with the parts *)
(* of the invariant the mapping rests on.                                  *)
TableStep == [Table!Next]_(Table!vars) /\ MappedConnected' /\ CgiMapped'

LEMMA EndsIsEnd ==
  ASSUME RInv, pc # "exit", Emptied, Exit PROVE TableStep
  <1>1. Table!End
    BY NobodyLeft DEF Exit, ServerState, Table!End
  <1> QED BY <1>1, NobodyLeft DEF Exit, TableStep, Table!Next

LEMMA ThrowIsRestart ==
  ASSUME RInv, pc \notin {"down", "exit"}, NEW left, Throw(left) PROVE TableStep
  <1>1. Emptied /\ DropBatch /\ pc' = "down"
    BY DEF Throw
  <1>2. Table!Restart
    BY <1>1, NobodyLeft DEF ServerState, Table!Restart
  <1> QED BY <1>1, <1>2, NobodyLeft DEF TableStep, Table!Next

LEMMA ConfigureIsOpen == ASSUME RInv, Configure PROVE TableStep
  <1>1. UNCHANGED <<Connected, Working, Reported, Turn>> /\ MappedConnected' /\ CgiMapped'
    BY TablesKept, BatchKept DEF Configure, table
  <1>2. Table!Open
    BY <1>1 DEF Configure, ServerState, Table!Open
  <1> QED BY <1>1, <1>2 DEF TableStep, Table!Next

(* epoll_wait reports descriptors that are watched; those that are not     *)
(* listening sockets are in the map.                                       *)
LEMMA EpollWaitIsPoll == ASSUME RInv, EpollWait PROVE TableStep
  <1>1. UNCHANGED <<Connected, Working>> /\ MappedConnected' /\ CgiMapped'
    BY TablesKept DEF EpollWait, table
  <1>2. Reported = {} /\ Turn = NoClient /\ Turn' = NoClient
    BY IdleOutsideBatch DEF EpollWait, InBatch, RInv, IndInv, CurrentKnown, Turn
  <1>3. Reported' \subseteq Connected
    BY DEF EpollWait, RInv, IndInv, WatchedMapped, MappedConnected, Reported
  <1>4. Table!Poll
    BY <1>1, <1>2, <1>3 DEF EpollWait, ServerState, Table!Poll
  <1> QED BY <1>1, <1>4 DEF TableStep, Table!Next

LEMMA NextEventIsTurn == ASSUME RInv, NEW fd \in Fd, NextEvent(fd) PROVE TableStep
  <1>1. UNCHANGED <<Connected, Working>> /\ MappedConnected' /\ CgiMapped'
    BY TablesKept DEF NextEvent, table
  <1>2. /\ Reported' = Reported /\ Turn = NoClient /\ Turn' = fdMap[fd]
        /\ fdMap[fd] \in Reported /\ fdMap[fd] \in ClientId
    BY FdAssumption DEF NextEvent, Pending, table, Reported, Turn, RInv, IndInv, TypeOK, NoStaleEvent
  <1>3. Table!Turn(fdMap[fd])
    BY <1>1, <1>2 DEF NextEvent, ServerState, Table!Turn
  <1> QED BY <1>1, <1>2, <1>3 DEF TableStep, Table!Next

(* An event of a listening socket is not reported to a client. *)
LEMMA AcceptKeepsBatch ==
  ASSUME RInv, NEW fd \in Fd, AcceptEvent(fd)
  PROVE  /\ UNCHANGED <<Reported, ServerState>> /\ ServerState = "up"
         /\ Turn = NoClient /\ Turn' = NoClient
  BY DEF AcceptEvent, AtListener, Pending, ServerState, Turn, Reported, RInv, IndInv, TypeOK

LEMMA AddConnectionIsConnect == ASSUME RInv, NEW fd \in Fd, AddConnection(fd) PROVE TableStep
  <1> USE FdAssumption
  <1>1. PICK c \in ClientId \ clients, s \in Fd \ (open \cup Listener) :
          /\ sock' = [sock EXCEPT ![c] = s]
          /\ fdMap' = [fdMap EXCEPT ![s] = c]
          /\ cgi' = cgi
    BY DEF AddConnection
  <1>2. c \notin Connected /\ fdMap[s] = NoClient /\ c # NoClient
    BY ConnectedListed DEF RInv, IndInv, MapSound
  <1>3. Connected' = Connected \cup {c}
    BY <1>1, <1>2 DEF Connected, RInv, IndInv, TypeOK
  <1>4. Working' = Working /\ CgiMapped'
    BY <1>1, <1>2 DEF Working, CgiMapped, RInv, IndInv, TypeOK
  <1>5. MappedConnected'
    BY <1>1, <1>3 DEF MappedConnected, RInv, IndInv, TypeOK
  <1>6. Table!Connect(c)
    BY <1>2, <1>3, <1>4, AcceptKeepsBatch DEF AddConnection, Table!Connect
  <1> QED BY <1>4, <1>5, <1>6 DEF TableStep, Table!Next

LEMMA AcceptFailsIsNothing == ASSUME RInv, NEW fd \in Fd, AcceptFails(fd) PROVE TableStep
  BY TablesKept, AcceptKeepsBatch DEF AcceptFails, table, TableStep, Table!vars

(* The node init leaves in the list is named by no entry of the map: its   *)
(* socket was not open before accept.                                      *)
LEMMA InitFailsIsNothing == ASSUME RInv, NEW fd \in Fd, InitFails(fd) PROVE TableStep
  <1> USE FdAssumption
  <1>1. PICK c \in ClientId \ clients, s \in Fd \ (open \cup Listener) :
          sock' = [sock EXCEPT ![c] = s]
    BY DEF InitFails
  <1>2. c \notin Connected /\ fdMap[s] = NoClient /\ UNCHANGED <<cgi, fdMap>> /\ c # NoClient
    BY ConnectedListed DEF RInv, IndInv, MapSound, InitFails
  <1>3. Connected' = Connected
    BY <1>1, <1>2 DEF Connected, RInv, IndInv, TypeOK
  <1>4. Working' = Working /\ CgiMapped' /\ MappedConnected'
    BY <1>2, <1>3 DEF Working, CgiMapped, MappedConnected, RInv
  <1> QED BY <1>3, <1>4, AcceptKeepsBatch DEF InitFails, TableStep, Table!vars

(* A handled event whose client stays is the table's Handle.               *)
LEMMA HandledIsHandle ==
  ASSUME RInv, cur # NoFd, NEW f, Handled(f), pc' = "dispatch", UNCHANGED <<sock, cgi, fdMap>>
  PROVE  TableStep
  <1>1. Table!Handle
    BY HandledEndsTurn, TurnOfCurrent, TablesKept DEF Table!Handle, ServerState, InBatch
  <1> QED BY <1>1, TablesKept DEF TableStep, Table!Next

(* Scrubbing takes what was reported for the removed client, and no more,  *)
(* out of the batch.                                                       *)
LEMMA HangUpIsLeave == ASSUME RInv, HangUp PROVE TableStep
  <1> DEFINE c == fdMap[cur]
  <1>1. cur \in Fd \ Listener /\ c # NoClient /\ pc = "dispatch" /\ RemoveByFd(cur) /\ Turn = c
    BY TurnOfCurrent DEF HangUp
  <1>2. CASE KeepsClient(cur)
    BY <1>1, <1>2, HandledIsHandle DEF HangUp, RemoveByFd, table
  <1>3. CASE ~KeepsClient(cur)
    <2>1. /\ c \in Connected /\ MappedConnected' /\ CgiMapped'
          /\ Connected' = Connected \ {c} /\ Working' = Working \ {c}
      BY <1>1, <1>3, RemoveByFdStep
    <2>2. events' = Scrubbed(c) /\ cur' = NoFd /\ UNCHANGED <<pc, owner>>
      BY <1>3 DEF HangUp
    <2>3. \A fd \in Fd \ Listener : events[fd] # {} =>
            (owner[fd] = c <=> fd \in Descriptors(c))
      BY <2>1, OwnDescriptors DEF RInv, IndInv, NoStaleEvent, MapSound
    <2>4. Reported' = Reported \ {c}
      BY <2>2, <2>3 DEF Reported, Scrubbed
    <2>a. c \in ClientId
      BY <2>1 DEF Connected
    <2>5. Table!Leave(c)
      BY <1>1, <2>1, <2>2, <2>4 DEF Table!Leave, ServerState, Turn
    <2> HIDE DEF c
    <2> QED BY <2>a, <2>1, <2>5 DEF TableStep, Table!Next
  <1> QED BY <1>2, <1>3

(* A handler that is done ends the connection, or only the batch when it   *)
(* was called for the CGI socket.                                          *)
LEMMA HandlerEndsIsLeave == ASSUME RInv, NEW f \in Ready, HandlerEnds(f) PROVE TableStep
  <1> DEFINE c == fdMap[cur]
  <1>1. /\ cur \in Fd /\ c # NoClient /\ InBatch /\ pc' = "dispatch" /\ Turn = c
        /\ RemoveByFd(cur) /\ Reported' = {} /\ Turn' = NoClient
    BY TurnOfCurrent, BatchDropped DEF HandlerEnds, Handling
  <1>2. c \in Connected /\ MappedConnected' /\ CgiMapped'
    BY <1>1, RemoveByFdStep
  <1>3. CASE UNCHANGED <<Connected, Working>>
    <2>1. Table!Drop
      BY <1>1, <1>3 DEF Table!Drop, ServerState, InBatch
    <2> QED BY <1>2, <2>1 DEF TableStep, Table!Next
  <1>4. CASE Connected' = Connected \ {c} /\ Working' = Working \ {c}
    <2>a. c \in ClientId
      BY <1>2 DEF Connected
    <2>1. Table!Leave(c)
      BY <1>1, <1>2, <1>4 DEF Table!Leave, ServerState, InBatch
    <2> HIDE DEF c
    <2> QED BY <1>2, <2>a, <2>1 DEF TableStep, Table!Next
  <1> QED BY <1>1, <1>3, <1>4, RemoveByFdStep

(* Only a connected client without a CGI starts one, in its own turn.      *)
LEMMA StartCGIIsStart == ASSUME RInv, NEW forked \in BOOLEAN, StartCGI(forked) PROVE TableStep
  <1> USE FdAssumption
  <1> DEFINE c == fdMap[cur]
  <1>1. /\ cur \in Fd /\ cur # NoFd /\ cur = sock[c] /\ cgi[c] = NoFd /\ Handled({"in"})
        /\ InBatch /\ pc' = "dispatch" /\ Turn = c /\ c \in Connected /\ UNCHANGED sock
    BY TurnOfCurrent DEF StartCGI, Handling
  <1>2. PICK p \in Fd \ (open \cup Listener) :
          cgi' = [cgi EXCEPT ![c] = p] /\ fdMap' = [fdMap EXCEPT ![p] = c]
    BY DEF StartCGI
  <1>3. p # NoFd /\ fdMap[p] = NoClient /\ c \in ClientId /\ c # NoClient
    BY <1>1 DEF RInv, IndInv, MapSound, Connected
  <1>4. p # cur /\ fdMap'[cur] = fdMap[cur]
    BY <1>1, <1>2, <1>3 DEF RInv, IndInv, TypeOK
  <1>5. Connected' = Connected
    BY <1>1, <1>2, <1>3 DEF Connected, RInv, IndInv, TypeOK
  <1>6. Working' = Working \cup {c} /\ c \notin Working
    BY <1>1, <1>2, <1>3 DEF Working, RInv, IndInv, TypeOK
  <1>7. MappedConnected'
    BY <1>1, <1>2, <1>5 DEF MappedConnected, RInv, IndInv, TypeOK
  <1>8. CgiMapped'
    BY <1>1, <1>2, <1>3 DEF CgiMapped, RInv, IndInv, TypeOK
  <1>9. Table!Start
    BY <1>1, <1>4, <1>5, <1>6, HandledEndsTurn DEF Table!Start, ServerState, InBatch
  <1> QED BY <1>7, <1>8, <1>9 DEF TableStep, Table!Next

LEMMA StartSweepIsDrop == ASSUME RInv, StartSweep PROVE TableStep
  <1>1. UNCHANGED <<Connected, Working>> /\ MappedConnected' /\ CgiMapped'
    BY TablesKept DEF StartSweep, table
  <1>2. Table!Drop
    BY <1>1, BatchDropped DEF StartSweep, BatchDone, ServerState, Table!Drop
  <1> QED BY <1>1, <1>2 DEF TableStep, Table!Next

LEMMA SweepRemovesIsLeave == ASSUME RInv, NEW c \in ClientId, SweepRemoves(c) PROVE TableStep
  <1> DEFINE v == fdMap[sock[c]]
  <1>1. /\ pc = "sweep" /\ v # NoClient /\ RemoveByFd(sock[c])
        /\ UNCHANGED <<pc, events, cur, owner>>
    BY DEF SweepRemoves, Visit, batch
  <1>2. sock[c] \in Fd
    BY DEF SweepRemoves, Visit, RInv, IndInv, ListSound
  <1>3. /\ Reported = {} /\ Turn = NoClient /\ Reported' = {} /\ Turn' = NoClient
    BY <1>1, IdleOutsideBatch DEF InBatch, RInv, IndInv, CurrentKnown, Reported, Turn
  <1>4. v \in Connected /\ MappedConnected' /\ CgiMapped'
    BY <1>1, <1>2, RemoveByFdStep
  <1>5. CASE UNCHANGED <<Connected, Working>>
    BY <1>1, <1>3, <1>4, <1>5 DEF TableStep, Table!vars, ServerState
  <1>6. CASE Connected' = Connected \ {v} /\ Working' = Working \ {v}
    <2>a. v \in ClientId
      BY <1>4 DEF Connected
    <2>1. Table!Leave(v)
      BY <1>1, <1>3, <1>4, <1>6 DEF Table!Leave, ServerState
    <2> HIDE DEF v
    <2> QED BY <1>4, <2>a, <2>1 DEF TableStep, Table!Next
  <1> QED BY <1>1, <1>2, <1>5, <1>6, RemoveByFdStep

(* Steps that the table does not see. *)
LEMMA QuietStep ==
  ASSUME RInv, UNCHANGED <<sock, cgi, fdMap, batch, ServerState>> PROVE TableStep
  BY TablesKept, BatchKept DEF TableStep, Table!vars

-----------------------------------------------------------------------------
LEMMA EveryStep == RInv /\ [Next]_vars => TableStep
  <1> SUFFICES ASSUME RInv, [Next]_vars PROVE TableStep
    OBVIOUS
  <1>1. CASE ConfigureFails \/ Stop \/ RemoveAll
    BY <1>1, EndsIsEnd DEF ConfigureFails, Stop, RemoveAll, BatchDone
  <1>2. CASE \E fd \in Fd : LookAt(fd)
    <2>1. PICK fd \in Fd : LookAt(fd)
      BY <1>2
    <2>2. CASE AcceptThrows(fd)
      BY <2>2, ThrowIsRestart DEF AcceptThrows, AtListener
    <2> QED
      BY <2>1, <2>2, NextEventIsTurn, AddConnectionIsConnect, AcceptFailsIsNothing,
         InitFailsIsNothing DEF LookAt
  <1>3. CASE \E f \in Ready : RunHandler(f)
    <2>1. PICK f \in Ready : RunHandler(f)
      BY <1>3
    <2>2. CASE HandlerContinues(f)
      BY <2>2, HandledIsHandle DEF HandlerContinues, Handling, table
    <2>3. CASE HandlerThrows(f)
      BY <2>3, ThrowIsRestart, TurnOfCurrent DEF HandlerThrows, Handling, InBatch
    <2>4. CASE HandlerBlocks(f)
      BY <2>4, QuietStep DEF HandlerBlocks, table, ServerState
    <2> QED BY <2>1, <2>2, <2>3, <2>4, HandlerEndsIsLeave DEF RunHandler
  <1>4. CASE SwitchToWrite \/ BodyForwarded
    BY <1>4, HandledIsHandle DEF SwitchToWrite, BodyForwarded, Handling, table
  <1>5. CASE \E c \in ClientId : SweepKeeps(c) \/ SweepRemoves(c) \/ SweepCrashes(c) \/ SweepThrows(c)
    <2>1. PICK c \in ClientId : SweepKeeps(c) \/ SweepRemoves(c) \/ SweepCrashes(c) \/ SweepThrows(c)
      BY <1>5
    <2>2. CASE SweepKeeps(c)
      BY <2>2, QuietStep DEF SweepKeeps, table, ServerState
    <2>3. CASE SweepCrashes(c)
      BY <2>3, EndsIsEnd DEF SweepCrashes, Visit
    <2>4. CASE SweepThrows(c)
      BY <2>4, ThrowIsRestart DEF SweepThrows, Visit
    <2> QED BY <2>1, <2>2, <2>3, <2>4, SweepRemovesIsLeave
  <1>6. CASE SweepDone \/ Environment \/ UNCHANGED vars
    BY <1>6, QuietStep DEF SweepDone, Environment, Quit, ChildExits, vars, table, ServerState
  <1>7. CASE CgiThrows
    BY <1>7, ThrowIsRestart, TurnOfCurrent DEF CgiThrows, Handling, InBatch
  <1> QED
    BY <1>1, <1>2, <1>3, <1>4, <1>5, <1>6, <1>7, ConfigureIsOpen, EpollWaitIsPoll, HangUpIsLeave,
       StartCGIIsStart, StartSweepIsDrop DEF Next, Server, Routine

LEMMA RInvHolds == Spec => []RInv
  <1>1. Init => MappedConnected /\ CgiMapped
    BY DEF Init, MappedConnected, CgiMapped, NoOwner
  <1>2. RInv /\ [Next]_vars => MappedConnected' /\ CgiMapped'
    BY EveryStep DEF TableStep
  <1> QED BY <1>1, <1>2, IndInvHolds, PTL DEF Spec, RInv

(* routine() and what main() does around it implement the table of         *)
(* connections that take turns: whatever happens to descriptors, batches   *)
(* and list nodes, a connection that has left never gets a turn, only the  *)
(* one whose turn it is can start a CGI or be ended by the dispatch loop,  *)
(* and everybody leaves when the server goes down.                         *)
THEOREM TableImplemented == Spec => ImplementsTable
  <1>1. Init => Table!Init
    BY FdAssumption DEF Init, Table!Init, ServerState, Connected, Working, Reported, Turn, NoOwner, NoEvents
  <1>2. RInv /\ [Next]_vars => [Table!Next]_(Table!vars)
    BY EveryStep DEF TableStep
  <1> QED BY <1>1, <1>2, RInvHolds, PTL DEF Spec, ImplementsTable, Table!Spec

-----------------------------------------------------------------------------
(* Descriptors. *)

(* While the server is down only lost descriptors are open, and no client  *)
(* is left.                                                                *)
DownEmpty == pc = "down" => open = lost /\ fdMap = NoOwner

(* A lost descriptor is in neither map. *)
LostUnnamed == \A fd \in lost : fd \notin Listener /\ fdMap[fd] = NoClient

(* NoFdLeak with what it needs: configure opens its sockets in tables that *)
(* the destruction before it has emptied, and nothing that is closed is a  *)
(* lost descriptor.                                                        *)
LeakInv == NoFdLeak /\ DownEmpty /\ LostUnnamed

(* A removed connection gives back exactly the descriptors it leaves the   *)
(* map with.                                                               *)
LEMMA RemoveByFdLeak ==
  ASSUME RInv, LeakInv, NEW fd \in Fd, fdMap[fd] # NoClient, RemoveByFd(fd),
         pc \notin {"down", "exit"}, pc' \notin {"down", "exit"}
  PROVE  LeakInv'
  <1> USE FdAssumption
  <1>1. CASE KeepsClient(fd)
    BY <1>1 DEF RemoveByFd, LeakInv, NoFdLeak, DownEmpty, LostUnnamed, table, kernel
  <1>2. CASE ~KeepsClient(fd)
    <2> DEFINE c == fdMap[fd]
    <2>1. RemoveConnection(c)
      BY <1>2 DEF RemoveByFd
    <2>2. c \in Connected /\ c # NoClient
      BY DEF RInv, MappedConnected
    <2>3. \A x \in Descriptors(c) : x \in Fd \ (Listener \cup lost) /\ fdMap[x] = c
      BY <2>2, OwnDescriptors DEF RInv, IndInv, ListenersUnmapped, LeakInv, LostUnnamed
    <2> HIDE DEF c
    <2>4. open' = Listener \cup {x \in Fd : fdMap'[x] # NoClient} \cup lost'
      BY <2>1, <2>3 DEF RemoveConnection, LeakInv, NoFdLeak
    <2>5. LostUnnamed'
      BY <2>1, <2>3 DEF RemoveConnection, LeakInv, LostUnnamed, RInv, IndInv, TypeOK
    <2> QED BY <2>4, <2>5 DEF LeakInv, NoFdLeak, DownEmpty
  <1> QED BY <1>1, <1>2

(* Nothing changes but the batch, the program point and what is watched. *)
LEMMA SameLeak ==
  ASSUME LeakInv, UNCHANGED <<fdMap, open, lost>>,
         pc' \notin {"down", "exit"} => pc \notin {"down", "exit"}, pc' = "down" => pc = "down"
  PROVE  LeakInv'
  BY DEF LeakInv, NoFdLeak, DownEmpty, LostUnnamed

(* The end of the process closes everything. *)
LEMMA ExitLeak == ASSUME Exit PROVE LeakInv'
  BY DEF Exit, LeakInv, NoFdLeak, DownEmpty, LostUnnamed

(* An exception closes what the maps name; the rest is lost. *)
LEMMA ThrowLeak ==
  ASSUME IndInv, LeakInv, NEW left \in SUBSET (Fd \ (open \cup Listener)), Throw(left),
         pc \notin {"down", "exit"}
  PROVE  LeakInv'
  <1> USE FdAssumption
  <1>1. fdMap' = NoOwner /\ pc' = "down" /\ lost' = lost \cup left
    BY DEF Throw, Emptied
  <1>2. open \ (Listener \cup {fd \in Fd : fdMap[fd] # NoClient}) = lost
    BY DEF LeakInv, NoFdLeak, LostUnnamed
  <1>3. open' = lost'
    BY <1>1, <1>2 DEF Throw
  <1>4. LostUnnamed'
    BY <1>1 DEF IndInv, TypeOK, LeakInv, LostUnnamed, NoOwner
  <1> QED BY <1>1, <1>3, <1>4 DEF LeakInv, NoFdLeak, DownEmpty

(* A descriptor that is opened is entered in the map in the same step, or  *)
(* it is lost.                                                             *)
LEMMA OpenLeak ==
  ASSUME IndInv, LeakInv, InBatch, pc' = "dispatch", NEW s \in Fd \ open, NEW c \in ClientId,
         NEW other \in SUBSET (Fd \ (open \cup Listener \cup {s})),
         fdMap' = [fdMap EXCEPT ![s] = c],
         open' = open \cup {s} \cup other, lost' = lost \cup other
  PROVE  LeakInv'
  <1> USE FdAssumption
  <1>1. open = Listener \cup {fd \in Fd : fdMap[fd] # NoClient} \cup lost
    BY DEF InBatch, LeakInv, NoFdLeak
  <1>2. /\ fdMap'[s] = c /\ c # NoClient
        /\ \A fd \in Fd \ {s} : fdMap'[fd] = fdMap[fd]
    BY DEF IndInv, TypeOK
  <1>3. open' = Listener \cup {fd \in Fd : fdMap'[fd] # NoClient} \cup lost'
    BY <1>1, <1>2
  <1>4. LostUnnamed'
    BY <1>1, <1>2 DEF LeakInv, LostUnnamed, IndInv, TypeOK
  <1> QED BY <1>3, <1>4 DEF LeakInv, NoFdLeak, DownEmpty

LEMMA StepLeak == ASSUME RInv, LeakInv, [Next]_vars PROVE LeakInv'
  <1> USE FdAssumption
  <1>a. IndInv
    BY DEF RInv
  <1>1. CASE Configure
    BY <1>1 DEF Configure, AddSockets, table, LeakInv, NoFdLeak, DownEmpty, LostUnnamed, NoOwner
  <1>2. CASE ConfigureFails \/ Stop \/ RemoveAll
    BY <1>2, ExitLeak DEF ConfigureFails, Stop, RemoveAll
  <1>3. CASE \E fd \in Fd : LookAt(fd)
    <2>1. PICK fd \in Fd : LookAt(fd)
      BY <1>3
    <2>2. CASE NextEvent(fd) \/ AcceptFails(fd) \/ InitFails(fd)
      BY <2>2, SameLeak DEF NextEvent, AcceptFails, InitFails, AcceptEvent, AtListener, table, kernel
    <2>3. CASE AddConnection(fd)
      <3>1. PICK c \in ClientId \ clients, s \in Fd \ (open \cup Listener) :
              fdMap' = [fdMap EXCEPT ![s] = c] /\ open' = open \cup {s}
        BY <2>3 DEF AddConnection
      <3>3. open' = open \cup {s} \cup {} /\ s \in Fd \ open
        BY <3>1
      <3>2. lost' = lost \cup {} /\ InBatch /\ pc' = "dispatch"
        BY <2>3 DEF AddConnection, AcceptEvent, AtListener, InBatch
      <3> QED BY <1>a, <3>1, <3>2, <3>3, OpenLeak
    <2>4. CASE AcceptThrows(fd)
      BY <2>4, ThrowLeak, <1>a DEF AcceptThrows, AtListener
    <2> QED BY <2>1, <2>2, <2>3, <2>4 DEF LookAt
  <1>b. cur # NoFd => cur \in Fd /\ fdMap[cur] # NoClient /\ InBatch
    BY <1>a DEF IndInv, TypeOK, CurrentKnown, InBatch
  <1>4. CASE HangUp
    BY <1>4, <1>b, RemoveByFdLeak DEF HangUp
  <1>5. CASE \E f \in Ready : RunHandler(f)
    <2>1. PICK f \in Ready : RunHandler(f)
      BY <1>5
    <2>3. CASE HandlerBlocks(f) \/ HandlerContinues(f)
      BY <1>b, <2>3, SameLeak DEF HandlerBlocks, HandlerContinues, Handling, InBatch, table, kernel
    <2>4. CASE HandlerEnds(f)
      BY <1>b, <2>4, RemoveByFdLeak DEF HandlerEnds, Handling, InBatch
    <2>5. CASE HandlerThrows(f)
      BY <1>b, <2>5, ThrowLeak, <1>a DEF HandlerThrows, Handling, InBatch
    <2> QED BY <2>1, <2>3, <2>4, <2>5 DEF RunHandler
  <1>6. CASE SwitchToWrite \/ BodyForwarded
    BY <1>b, <1>6, SameLeak DEF SwitchToWrite, BodyForwarded, Handling, InBatch, table
  <1>7. CASE StartCGI(TRUE) \/ StartCGI(FALSE)
    <2>1. PICK forked \in BOOLEAN : StartCGI(forked)
      BY <1>7
    <2>2. PICK p \in Fd \ (open \cup Listener) :
            /\ fdMap' = [fdMap EXCEPT ![p] = fdMap[cur]]
            /\ \E other \in IF forked THEN {{}} ELSE {{q} : q \in Fd \ (open \cup Listener \cup {p})} :
                 open' = open \cup {p} \cup other /\ lost' = lost \cup other
      BY <2>1 DEF StartCGI
    <2>a. PICK other \in SUBSET (Fd \ (open \cup Listener \cup {p})) :
            open' = open \cup {p} \cup other /\ lost' = lost \cup other
      BY <2>2
    <2>3. fdMap[cur] \in ClientId /\ InBatch /\ pc' = "dispatch"
      BY <1>a, <1>b, <2>1 DEF StartCGI, Handling, IndInv, TypeOK
    <2> QED BY <1>a, <2>2, <2>a, <2>3, OpenLeak
  <1>8. CASE CgiThrows
    BY <1>b, <1>8, ThrowLeak, <1>a DEF CgiThrows, Handling, InBatch
  <1>9. CASE \E c \in ClientId : SweepKeeps(c) \/ SweepRemoves(c) \/ SweepCrashes(c) \/ SweepThrows(c)
    <2>1. PICK c \in ClientId : SweepKeeps(c) \/ SweepRemoves(c) \/ SweepCrashes(c) \/ SweepThrows(c)
      BY <1>9
    <2>2. pc = "sweep" /\ c \in clients /\ sock[c] \in Fd
      BY <1>a, <2>1 DEF SweepKeeps, SweepRemoves, SweepCrashes, SweepThrows, Visit, IndInv, ListSound
    <2>3. CASE SweepKeeps(c)
      BY <2>3, SameLeak DEF SweepKeeps, table
    <2>4. CASE SweepRemoves(c)
      BY <2>2, <2>4, RemoveByFdLeak DEF SweepRemoves
    <2>5. CASE SweepCrashes(c)
      BY <2>5, ExitLeak DEF SweepCrashes
    <2>6. CASE SweepThrows(c)
      BY <2>2, <2>6, ThrowLeak, <1>a DEF SweepThrows
    <2> QED BY <2>1, <2>3, <2>4, <2>5, <2>6
  <1>10. CASE EpollWait \/ StartSweep \/ SweepDone \/ Environment
    BY <1>10, SameLeak DEF EpollWait, StartSweep, BatchDone, SweepDone, Environment, Quit,
       ChildExits, table, kernel
  <1>11. CASE UNCHANGED vars
    BY <1>11, SameLeak DEF vars, table, kernel
  <1> QED
    BY <1>1, <1>2, <1>3, <1>4, <1>5, <1>6, <1>7, <1>8, <1>9, <1>10, <1>11
       DEF Next, Server, Routine

(* Whatever fails and however often the server is started again, a         *)
(* descriptor that nothing of it names is the CGI's, left by a fork that   *)
(* failed, or one an exception kept out of the map.                        *)
THEOREM NoDescriptorLeaks == Spec => []NoFdLeak
  <1>1. Init => LeakInv
    BY DEF Init, LeakInv, NoFdLeak, DownEmpty, LostUnnamed
  <1>2. RInv /\ LeakInv /\ [Next]_vars => LeakInv'
    BY StepLeak
  <1> QED BY <1>1, <1>2, RInvHolds, PTL DEF Spec, LeakInv

-----------------------------------------------------------------------------
(* Children. *)

(* A removal takes the client's child with it and leaves the others' CGI   *)
(* sockets in the map.                                                     *)
LEMMA RemoveByFdChild ==
  ASSUME RInv, ChildrenReachable, NEW fd \in Fd, fdMap[fd] # NoClient, RemoveByFd(fd)
  PROVE  ChildrenReachable'
  <1> USE FdAssumption
  <1>1. CASE KeepsClient(fd)
    BY <1>1 DEF RemoveByFd, ChildrenReachable, table
  <1>2. CASE ~KeepsClient(fd)
    <2> DEFINE c == fdMap[fd]
    <2>1. RemoveConnection(c)
      BY <1>2 DEF RemoveByFd
    <2>2. c \in Connected
      BY DEF RInv, MappedConnected
    <2>3. \A x \in Descriptors(c) : fdMap[x] = c
      BY <2>2, OwnDescriptors
    <2> HIDE DEF c
    <2>4. SUFFICES ASSUME NEW d \in ClientId, child'[d] # "none"
                   PROVE  d \in clients' /\ cgi'[d] \in Fd /\ fdMap'[cgi'[d]] = d
      BY DEF ChildrenReachable
    <2>5. d # c
      BY <2>1, <2>4 DEF RemoveConnection, ChildrenReachable, RInv, IndInv, TypeOK
    <2>6. child[d] # "none" /\ cgi'[d] = cgi[d]
      BY <2>1, <2>4, <2>5 DEF RemoveConnection, RInv, IndInv, TypeOK
    <2>7. d \in clients /\ cgi[d] \in Fd /\ fdMap[cgi[d]] = d
      BY <2>6 DEF ChildrenReachable
    <2> QED BY <2>1, <2>3, <2>5, <2>6, <2>7 DEF RemoveConnection
  <1> QED BY <1>1, <1>2

(* The children of everybody in the list go with the tables. *)
LEMMA EmptiedChild == ASSUME ChildrenReachable, Emptied PROVE ChildrenReachable'
  BY DEF ChildrenReachable, Emptied

(* A new client has no child; entering its socket takes nobody's entry. *)
LEMMA AddConnectionChild ==
  ASSUME RInv, ChildrenReachable, NEW fd \in Fd, AddConnection(fd) PROVE ChildrenReachable'
  <1>1. PICK c \in ClientId \ clients, s \in Fd \ open :
          /\ clients' = clients \cup {c} /\ fdMap' = [fdMap EXCEPT ![s] = c]
          /\ UNCHANGED <<cgi, child>>
    BY DEF AddConnection
  <1>2. fdMap[s] = NoClient
    BY DEF RInv, IndInv, MapSound
  <1> QED BY <1>1, <1>2, FdAssumption DEF ChildrenReachable, RInv, IndInv, TypeOK

LEMMA StartCGIChild ==
  ASSUME RInv, ChildrenReachable, NEW forked \in BOOLEAN, StartCGI(forked)
  PROVE  ChildrenReachable'
  <1> USE FdAssumption
  <1> DEFINE c == fdMap[cur]
  <1>1. c \in clients /\ clients' = clients /\ cgi[c] = NoFd
    BY DEF StartCGI, Handling, RInv, IndInv, TypeOK, MapSound, CurrentKnown, InBatch
  <1>2. PICK p \in Fd \ open : cgi' = [cgi EXCEPT ![c] = p] /\ fdMap' = [fdMap EXCEPT ![p] = c]
    BY DEF StartCGI
  <1>3. \A d \in ClientId \ {c} : child'[d] = child[d]
    BY DEF StartCGI, RInv, IndInv, TypeOK
  <1>4. fdMap[p] = NoClient /\ c \in ClientId
    BY <1>1 DEF RInv, IndInv, TypeOK, MapSound
  <1> HIDE DEF c
  <1>5. SUFFICES ASSUME NEW d \in ClientId, child'[d] # "none"
                 PROVE  d \in clients' /\ cgi'[d] \in Fd /\ fdMap'[cgi'[d]] = d
    BY DEF ChildrenReachable
  <1>6. CASE d = c
    BY <1>1, <1>2, <1>4, <1>6 DEF RInv, IndInv, TypeOK
  <1>7. CASE d # c
    <2>1. d \in clients /\ cgi[d] \in Fd /\ fdMap[cgi[d]] = d
      BY <1>3, <1>5, <1>7 DEF ChildrenReachable
    <2>2. cgi'[d] = cgi[d] /\ cgi[d] # p
      BY <1>2, <1>4, <1>7, <2>1 DEF RInv, IndInv, TypeOK
    <2> QED BY <1>1, <1>2, <2>1, <2>2 DEF RInv, IndInv, TypeOK
  <1> QED BY <1>6, <1>7

LEMMA StepChild == ASSUME RInv, ChildrenReachable, [Next]_vars PROVE ChildrenReachable'
  <1>1. CASE ConfigureFails \/ Stop \/ RemoveAll \/ CgiThrows
    BY <1>1, EmptiedChild DEF ConfigureFails, Stop, RemoveAll, CgiThrows, Throw
  <1>2. CASE UNCHANGED <<clients, cgi, child, fdMap>>
    BY <1>2 DEF ChildrenReachable
  <1>3. CASE \E fd \in Fd : LookAt(fd)
    <2>1. PICK fd \in Fd : LookAt(fd)
      BY <1>3
    <2>2. CASE NextEvent(fd) \/ AcceptFails(fd)
      BY <1>2, <2>2 DEF NextEvent, AcceptFails, table
    <2>3. CASE InitFails(fd)
      BY <2>3 DEF InitFails, ChildrenReachable
    <2>4. CASE AcceptThrows(fd)
      BY <2>4, EmptiedChild DEF AcceptThrows, Throw
    <2> QED BY <2>1, <2>2, <2>3, <2>4, AddConnectionChild DEF LookAt
  <1>b. cur # NoFd => cur \in Fd /\ fdMap[cur] # NoClient
    BY DEF RInv, IndInv, TypeOK, CurrentKnown, InBatch
  <1>4. CASE HangUp
    BY <1>4, <1>b, RemoveByFdChild DEF HangUp
  <1>5. CASE \E f \in Ready : RunHandler(f)
    <2>1. PICK f \in Ready : RunHandler(f)
      BY <1>5
    <2>2. CASE HandlerBlocks(f) \/ HandlerContinues(f)
      BY <1>2, <2>2 DEF HandlerBlocks, HandlerContinues, table
    <2>3. CASE HandlerEnds(f)
      BY <1>b, <2>3, RemoveByFdChild DEF HandlerEnds, Handling
    <2>4. CASE HandlerThrows(f)
      BY <2>4, EmptiedChild DEF HandlerThrows, Throw
    <2> QED BY <2>1, <2>2, <2>3, <2>4 DEF RunHandler
  <1>6. CASE Configure \/ SwitchToWrite \/ BodyForwarded \/ EpollWait \/ StartSweep \/ SweepDone \/ Quit
    BY <1>2, <1>6 DEF Configure, SwitchToWrite, BodyForwarded, EpollWait, StartSweep, SweepDone,
       Quit, table
  <1>7. CASE \E c \in ClientId : SweepKeeps(c) \/ SweepRemoves(c) \/ SweepCrashes(c) \/ SweepThrows(c)
    <2>1. PICK c \in ClientId : SweepKeeps(c) \/ SweepRemoves(c) \/ SweepCrashes(c) \/ SweepThrows(c)
      BY <1>7
    <2>2. CASE SweepKeeps(c)
      BY <1>2, <2>2 DEF SweepKeeps, table
    <2>3. CASE SweepRemoves(c)
      <3>1. sock[c] \in Fd
        BY <2>3 DEF SweepRemoves, Visit, RInv, IndInv, ListSound
      <3> QED BY <2>3, <3>1, RemoveByFdChild DEF SweepRemoves
    <2>4. CASE SweepCrashes(c) \/ SweepThrows(c)
      BY <2>4, EmptiedChild DEF SweepCrashes, SweepThrows, Throw
    <2> QED BY <2>1, <2>2, <2>3, <2>4
  <1>8. CASE \E c \in ClientId : ChildExits(c)
    BY <1>8 DEF ChildExits, ChildrenReachable, RInv, IndInv, TypeOK
  <1>9. CASE UNCHANGED vars
    BY <1>2, <1>9 DEF vars, table
  <1> QED
    BY <1>1, <1>3, <1>4, <1>5, <1>6, <1>7, <1>8, <1>9, StartCGIChild
       DEF Next, Server, Routine, Environment

(* No CGI child escapes the server, whatever fails: until it has been      *)
(* waited for, a removal of its client finds it.                           *)
THEOREM NoChildEscapes == Spec => []ChildrenReachable
  <1>1. Init => ChildrenReachable
    BY DEF Init, ChildrenReachable
  <1>2. RInv /\ ChildrenReachable /\ [Next]_vars => ChildrenReachable'
    BY StepChild
  <1> QED BY <1>1, <1>2, RInvHolds, PTL DEF Spec
=============================================================================
