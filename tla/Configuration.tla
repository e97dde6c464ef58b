----------------------------- MODULE Configuration -----------------------------
(***************************************************************************)
(* From the configuration file to the sockets: ConfFile::parse with its    *)
(* directives, LocationBlock and its fill(), and Server::configure.        *)
(*                                                                         *)
(* The file is made up while it is read: a step is a directive, any that   *)
(* may stand there.  A malformed one, or an end of file in a block, is an  *)
(* exception that ends the program; a socket that cannot be bound starts   *)
(* it over.  lines keeps what has been read for the properties.            *)
(*                                                                         *)
(* The settings of a location come in two kinds: of some the last counts   *)
(* (root, client_max_body_size, autoindex, redirect, the two paths), of    *)
(* the others all do (allow, index, cgi).  Names, paths, media types and   *)
(* timeouts, which nothing here depends on, are left out.                  *)
(***************************************************************************)
EXTENDS Integers, Sequences, SequencesExt, FiniteSetsExt

CONSTANTS
    Single, Many,       \* the settings of each kind
    Value(_),           \* what a directive may give a setting
    Ports,              \* what listen may be given
    Half,               \* numbers of the sign of client_max_body_size: 2^31
    PortRange,          \* numbers of a port: 2^16
    DefaultPort,
    DefaultLimit,       \* DEFAULT_MAXBODYSIZE
    DefaultIndex,       \* DEFAULT_INDEX
    MaxServers, MaxLocations, MaxLines

Setting == Single \cup Many

ASSUME ConfigurationAssumption ==
    /\ {"root", "limit"} \subseteq Single /\ "index" \in Many /\ Single \cap Many = {}
    /\ {"listen", "error_page"} \cap Setting = {} /\ "autoindex" \notin Many
    /\ Half \in Nat \ {0} /\ PortRange \in Nat \ {0}
    /\ \A s \in Single : Value(s) \subseteq Nat
    /\ Value("limit") \subseteq 0 .. 2 * Half - 1
    /\ DefaultLimit \in 0 .. Half - 1
    /\ DefaultPort \in 0 .. PortRange - 1 /\ Ports \subseteq Nat
    /\ MaxLines \in Nat

VARIABLES
    level,      \* "top", "server", "location", "bind", "running", "refused"
    root,       \* ConfFile::_root
    server,     \* the ServerBlock being read: its hosts, pages and locations
    global,     \* globalLocation
    location,   \* the LocationBlock being read
    blocks,     \* the server blocks, in the order of the file
    next,       \* server and host that configure() comes to
    sockets,    \* _serverBlocks: [host, blocks], blocks by their number
    lines

parser == <<root, server, global, location>>
vars == <<level, parser, blocks, next, sockets, lines>>

(* UNDEFINED, an empty path, a redirection of status 0, an empty list.     *)
Unset(s) == IF s \in Many THEN <<>> ELSE -1

Fresh == [s \in Setting |-> Unset(s)]
NoServer == [hosts |-> <<>>, page |-> -1, locations |-> <<>>]

(* setDefaults; autoindex is off, which is 0.                              *)
Defaults == [s \in Setting |->
               IF s = "limit" THEN DefaultLimit ELSE IF s = "autoindex" THEN 0 ELSE Unset(s)]

TypeOK ==
    /\ level \in {"top", "server", "location", "bind", "running", "refused"}
    /\ \A n \in 1 .. Len(blocks) : \A k \in 1 .. Len(blocks[n].locations) :
          blocks[n].locations[k]["limit"] \in -Half .. Half - 1
    /\ \A n \in 1 .. Len(sockets) : sockets[n].host \in 0 .. PortRange - 1
    /\ Len(lines) <= MaxLines

Init ==
    /\ level = "top" /\ root = -1 /\ server = NoServer
    /\ global = Fresh /\ location = Fresh
    /\ blocks = <<>> /\ next = <<1, 1>> /\ sockets = <<>> /\ lines = <<>>

(* An exception takes with it all that has been read: a                    *)
(* ConfigurationException ends the program, any other starts it over.      *)
Nothing ==
    /\ root' = -1 /\ server' = NoServer /\ global' = Fresh /\ location' = Fresh
    /\ blocks' = <<>> /\ next' = <<1, 1>> /\ sockets' = <<>> /\ lines' = <<>>

Refused == level' = "refused" /\ Nothing
Restarted == level' = "top" /\ Nothing

-----------------------------------------------------------------------------
(* Directives. *)

(* A line of the server that is being read, of its k-th location or of     *)
(* none (0).                                                               *)
Reads(k, what, value) ==
    /\ Len(lines) < MaxLines
    /\ lines' = Append(lines, [server |-> Len(blocks) + 1, location |-> k,
                               what |-> what, value |-> value])

(* setMaxBodySize takes an int32_t, the directive a uint32_t; the rest are *)
(* kept as they are.                                                       *)
Narrow(v) == ((v + Half) % (2 * Half)) - Half
AsWritten(s, v) == v
Stored(s, v) == IF s = "limit" THEN Narrow(v) ELSE v

Set(settings, s, v) ==
    [settings EXCEPT ![s] = IF s \in Many THEN Append(@, v) ELSE Stored(s, v)]

KeptRoot == root
NoRoot == -1

OpenServer ==
    /\ level = "top" /\ Len(blocks) < MaxServers
    /\ level' = "server"
    /\ server' = NoServer /\ global' = Defaults /\ root' = NoRoot
    /\ UNCHANGED <<location, blocks, next, sockets, lines>>

(* htons keeps the low bits of the number. *)
Listen(port) ==
    /\ level = "server" /\ Reads(0, "listen", port)
    /\ server' = [server EXCEPT !.hosts = Append(@, port % PortRange)]
    /\ UNCHANGED <<level, root, global, location, blocks, next, sockets>>

(* Nothing is read of it as long as there is no root.                      *)
ErrorPage ==
    /\ level = "server" /\ Reads(0, "error_page", 0)
    /\ server' = IF root = -1 THEN server ELSE [server EXCEPT !.page = root]
    /\ UNCHANGED <<level, root, global, location, blocks, next, sockets>>

GlobalSetting(s, v) ==
    /\ level = "server" /\ Reads(0, s, v)
    /\ global' = Set(global, s, v) /\ root' = global'["root"]
    /\ UNCHANGED <<level, server, location, blocks, next, sockets>>

OpenLocation ==
    /\ level = "server" /\ Len(server.locations) < MaxLocations
    /\ level' = "location" /\ location' = Fresh
    /\ UNCHANGED <<root, server, global, blocks, next, sockets, lines>>

LocationSetting(s, v) ==
    /\ level = "location" /\ Reads(Len(server.locations) + 1, s, v)
    /\ location' = Set(location, s, v)
    /\ UNCHANGED <<level, root, server, global, blocks, next, sockets>>

(* LocationBlock::fill. *)
Inherited(s) == IF s = "index" /\ global[s] = <<>> THEN <<DefaultIndex>> ELSE global[s]
Filled(own) == [s \in Setting |-> IF own[s] = Unset(s) THEN Inherited(s) ELSE own[s]]

CloseLocationFilled ==
    /\ level = "location" /\ level' = "server"
    /\ server' = [server EXCEPT !.locations = Append(@, Filled(location))]
    /\ UNCHANGED <<root, global, location, blocks, next, sockets, lines>>

CloseLocation ==
    /\ level = "location" /\ level' = "server"
    /\ server' = [server EXCEPT !.locations = Append(@, location)]
    /\ UNCHANGED <<root, global, location, blocks, next, sockets, lines>>

CloseServer ==
    /\ level = "server" /\ level' = "top"
    /\ blocks' = Append(blocks,
          [server EXCEPT !.hosts = IF @ = <<>> THEN <<DefaultPort>> ELSE @,
                         !.locations = [k \in DOMAIN @ |-> Filled(@[k])]])
    /\ UNCHANGED <<parser, next, sockets, lines>>

Malformed ==
    level \in {"top", "server", "location"} /\ Refused

EndOfFile ==
    \/ /\ level = "top" /\ blocks # <<>> /\ level' = "bind"
       /\ UNCHANGED <<parser, blocks, next, sockets, lines>>
    \/ level \in {"server", "location"} /\ Refused
    \/ level = "top" /\ blocks = <<>> /\ Refused

-----------------------------------------------------------------------------
(* Server::configure. *)

(* isBound: the socket that has the host. *)
LastSocketBound(host) ==
    {n \in DOMAIN sockets : n = Len(sockets) /\ sockets[n].host = host}
Bound(host) == {n \in DOMAIN sockets : sockets[n].host = host}

BindHost ==
    /\ level = "bind" /\ next[1] <= Len(blocks)
    /\ LET n == next[1]
           hosts == blocks[n].hosts
           host == hosts[next[2]]
       IN /\ \/ /\ Bound(host) = {}
                /\ sockets' = Append(sockets, [host |-> host, blocks |-> <<n>>])
             \/ \E k \in Bound(host) : sockets' = [sockets EXCEPT ![k].blocks = Append(@, n)]
          /\ next' = IF next[2] < Len(hosts) THEN <<n, next[2] + 1>> ELSE <<n + 1, 1>>
    /\ UNCHANGED <<level, parser, blocks, lines>>

(* _addSocket throws, for a host in use or out of descriptors.             *)
BindFails ==
    /\ level = "bind" /\ next[1] <= Len(blocks)
    /\ Bound(blocks[next[1]].hosts[next[2]]) = {}
    /\ Restarted

Configured ==
    /\ level = "bind" /\ next[1] > Len(blocks) /\ level' = "running"
    /\ UNCHANGED <<parser, blocks, next, sockets, lines>>

Next ==
    \/ OpenServer \/ OpenLocation \/ CloseLocation \/ CloseServer
    \/ ErrorPage \/ \E port \in Ports : Listen(port)
    \/ \E s \in Setting : \E v \in Value(s) : GlobalSetting(s, v) \/ LocationSetting(s, v)
    \/ Malformed \/ EndOfFile
    \/ BindHost \/ BindFails \/ Configured

Spec == Init /\ [][Next]_vars

-----------------------------------------------------------------------------
(* Properties. *)

(* The lines of a file that give setting s of the k-th location of server  *)
(* n, or of the server itself (0).                                         *)
LinesOf(file, n, k, s) ==
    {j \in DOMAIN file : file[j].server = n /\ file[j].location = k /\ file[j].what = s}

UpTo(L, j) == {i \in L : i <= j}

(* What such lines make of a setting: all of their values in their order,  *)
(* or the last; the int32_t that a limit becomes is negative from Half.    *)
Signed(s, v) == IF s = "limit" /\ v >= Half THEN v - 2 * Half ELSE v

Says(file, L, s, v) ==
    /\ L # {}
    /\ IF s \in Many
       THEN /\ Len(v) = Cardinality(L)
            /\ \A j \in L : v[Cardinality(UpTo(L, j))] = file[j].value
       ELSE v = Signed(s, file[Max(L)].value)

(* LocationBlock::fill and ConfFile::_serverDirective: a location has what *)
(* its own directives say, else what those of its server say, wherever in  *)
(* the server they stand, else the default.  The greatest limit is what an *)
(* unset one is.                                                           *)
InForce(file, n, k, s, v) ==
    LET own == LinesOf(file, n, k, s)
        shared == LinesOf(file, n, 0, s)
    IN IF own = {} \/ Says(file, own, s, Unset(s))
       THEN \/ Says(file, shared, s, v)
            \/ shared = {} /\ v = IF s = "index" THEN <<DefaultIndex>> ELSE Defaults[s]
       ELSE Says(file, own, s, v)

SettingsInForce ==
    \A n \in DOMAIN blocks : \A k \in DOMAIN blocks[n].locations : \A s \in Setting :
       InForce(lines, n, k, s, blocks[n].locations[k][s])

(* ConfFile::_errorPageDirective: a page lies under a root of its own      *)
(* server, the one that the lines before it have set; before any root      *)
(* there is no page.                                                       *)
RootsBefore(file, n, j) == {i \in LinesOf(file, n, 0, "root") : i < j}
PageLines(file, n) ==
    {j \in LinesOf(file, n, 0, "error_page") : RootsBefore(file, n, j) # {}}
PageRoot(file, n) ==
    IF PageLines(file, n) = {} THEN -1
    ELSE file[Max(RootsBefore(file, n, Max(PageLines(file, n))))].value

PagesUnderOwnRoot == \A n \in DOMAIN blocks : blocks[n].page = PageRoot(lines, n)

(* Server::configure: a host has one socket, however many servers listen   *)
(* on it; the socket has these servers and no other, in the order of the   *)
(* file, so that its first is the default of findServerBlock.              *)
HostsServed ==
    level = "running" =>
       /\ \A j, k \in DOMAIN sockets : sockets[j].host = sockets[k].host => j = k
       /\ \A n \in DOMAIN blocks : \A h \in ToSet(blocks[n].hosts) :
             \E k \in DOMAIN sockets : sockets[k].host = h /\ n \in ToSet(sockets[k].blocks)
       /\ \A k \in DOMAIN sockets :
             /\ \A n \in ToSet(sockets[k].blocks) : sockets[k].host \in ToSet(blocks[n].hosts)
             /\ \A i \in 1 .. Len(sockets[k].blocks) - 1 :
                   sockets[k].blocks[i] <= sockets[k].blocks[i + 1]
=============================================================================
