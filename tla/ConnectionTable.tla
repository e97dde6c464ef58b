--------------------------- MODULE ConnectionTable ---------------------------
(***************************************************************************)
(* What the event loop of srcs/Server.cpp promises its clients, without    *)
(* descriptors, batches or list iterators: connections come and go one at  *)
(* a time; the loop takes turns among those something was reported for;    *)
(* only the connection whose turn it is can start a CGI, and its CGI goes  *)
(* with it; a connection that has left never gets a turn.  Module          *)
(* EventLoop implements this specification.                                *)
(***************************************************************************)
CONSTANTS
    Client,
    NoOne    \* not a client

VARIABLES
    state,      \* "down", "up" or "over"
    connected,  \* the clients that can be reached through _fdClientMap
    working,    \* those with a CGI socket
    ready,      \* those with something reported and not yet looked at
    turn        \* the one whose handler may run

vars == <<state, connected, working, ready, turn>>

Init ==
    /\ state = "down"
    /\ connected = {} /\ working = {} /\ ready = {}
    /\ turn = NoOne

Nobody == connected' = {} /\ working' = {} /\ ready' = {} /\ turn' = NoOne

(* configure() *)
Open ==
    /\ state = "down" /\ state' = "up"
    /\ UNCHANGED <<connected, working, ready, turn>>

(* An exception in a handler or in the sweep: main() starts over. *)
Restart == state = "up" /\ state' = "down" /\ Nobody

(* SIGQUIT, a refused configuration, or the end of the process. *)
End == state # "over" /\ state' = "over" /\ Nobody

(* epoll_wait reports only connections there are. *)
Poll ==
    /\ state = "up" /\ ready = {} /\ turn = NoOne
    /\ ready' \in SUBSET connected
    /\ UNCHANGED <<state, connected, working, turn>>

Connect(c) ==
    /\ state = "up" /\ turn = NoOne
    /\ c \notin connected
    /\ connected' = connected \cup {c}
    /\ UNCHANGED <<state, working, ready, turn>>

Turn(c) ==
    /\ state = "up" /\ turn = NoOne
    /\ c \in ready
    /\ turn' = c
    /\ UNCHANGED <<state, connected, working, ready>>

(* The handler of the client whose turn it is returned; it may be called   *)
(* again for the same event, or have another event in the batch.           *)
TurnEnds ==
    \/ UNCHANGED <<ready, turn>>
    \/ turn' = NoOne /\ ready' \in {ready, ready \ {turn}}

Handle ==
    /\ state = "up" /\ turn # NoOne
    /\ TurnEnds
    /\ UNCHANGED <<state, connected, working>>

Start ==
    /\ state = "up" /\ turn \in connected \ working
    /\ working' = working \cup {turn}
    /\ TurnEnds
    /\ UNCHANGED <<state, connected>>

(* The rest of the batch is left to the next epoll_wait. *)
Drop ==
    /\ state = "up"
    /\ ready' = {} /\ turn' = NoOne
    /\ UNCHANGED <<state, connected, working>>

(* Its turn, or the timeout sweep, ended a connection; nothing of it is    *)
(* left in the batch, whether or not that goes on.                         *)
Leave(c) ==
    /\ state = "up" /\ turn \in {c, NoOne}
    /\ c \in connected
    /\ connected' = connected \ {c} /\ working' = working \ {c}
    /\ ready' \in {ready \ {c}, {}} /\ turn' = NoOne
    /\ UNCHANGED state

Next ==
    \/ Open \/ Restart \/ End \/ Poll \/ Handle \/ Start \/ Drop
    \/ \E c \in Client : Connect(c) \/ Turn(c) \/ Leave(c)

Spec == Init /\ [][Next]_vars
=============================================================================
