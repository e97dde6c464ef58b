------------------------------- MODULE Routing -------------------------------
(***************************************************************************)
(* From a request to the file it is about: Server::findServerBlock,        *)
(* ServerBlock::findLocationBlock with the comparison of Path, and the     *)
(* path the constructor of ARequest makes of the location's root and the   *)
(* rest of the target.  The two searches are the loops of the code, an     *)
(* iteration a step.                                                       *)
(*                                                                         *)
(* The search compares the parts of normalised paths, the constructor      *)
(* cuts the target as it was sent at a position: a string is a sequence of *)
(* characters, "/" among them.                                             *)
(***************************************************************************)
EXTENDS Integers, Sequences, FiniteSetsExt, SequencesExt

CONSTANTS
    Servers,    \* what a socket may serve: sequences of [names, locations]
    Hosts,      \* values of a Host header
    Targets,    \* targets of requests, without the query
    Char,       \* characters, the slash among them
    None        \* NULL

Slash == "/"
String == Seq(Char)
Location == [path : String, root : String]
ServerBlock == [names : SUBSET Hosts, locations : Seq(Location)]

(* _locationDirective refuses a path that does not begin with a slash, and *)
(* _parseRequestLine such a target.                                        *)
ASSUME RoutingAssumption ==
    /\ Servers \subseteq Seq(ServerBlock) \ {<<>>}
    /\ \A s \in Servers : \A b \in DOMAIN s : \A k \in DOMAIN s[b].locations :
          s[b].locations[k].path # <<>> /\ s[b].locations[k].path[1] = Slash
    /\ Targets \subseteq String \ {<<>>}
    /\ \A t \in Targets : t[1] = Slash
    /\ Slash \in Char
    /\ None \notin Nat

VARIABLES
    blocks,     \* _serverBlocks of the socket the request came by
    host,       \* its Host header
    target,     \* _context.target
    pc,         \* "server", "location", "request", "done"
    i,          \* the loop's index
    block,      \* the ServerBlock found
    selected,   \* the index of a LocationBlock, or None
    bestMatch,
    path        \* ARequest::_path before it is decoded, or None

vars == <<blocks, host, target, pc, i, block, selected, bestMatch, path>>

-----------------------------------------------------------------------------
(* Path. *)

(* The n-th of a set of positions.                                         *)
Nth(S, n) == CHOOSE k \in S : Cardinality({x \in S : x <= k}) = n

(* The constructor replaces "//" by "/" until there is none: one of each   *)
(* run of slashes stays.                                                   *)
Kept(s) == {k \in DOMAIN s : s[k] # Slash \/ k = Len(s) \/ s[k + 1] # Slash}
Normalised(s) == [n \in 1 .. Cardinality(Kept(s)) |-> s[Nth(Kept(s), n)]]

(* getline at every slash; empty parts are left out.                       *)
Starts(s) == {k \in DOMAIN s : s[k] # Slash /\ (k = 1 \/ s[k - 1] = Slash)}
PartAt(s, k) == SubSeq(s, k, Max({e \in k .. Len(s) : \A x \in k .. e : s[x] # Slash}))
Chunks(s) == [n \in 1 .. Cardinality(Starts(s)) |-> PartAt(s, Nth(Starts(s), n))]

Path(s) == [str |-> Normalised(s), chunks |-> Chunks(Normalised(s))]

IsDirFormat(p) == p.str # <<>> /\ p.str[Len(p.str)] = Slash
IsOriginForm(p) == p.str # <<>> /\ p.str[1] = Slash

PrefixLength(p) ==
    IF IsDirFormat(p) THEN Len(p.chunks)
    ELSE IF Len(p.chunks) = 0 THEN 0 ELSE Len(p.chunks) - 1

PrefixMatch(p, other) ==
    /\ Len(p.chunks) <= Len(other.chunks)
    /\ \A n \in DOMAIN p.chunks : p.chunks[n] = other.chunks[n]

Concat(p, other) ==
    IF IsDirFormat(p) /\ IsOriginForm(other) THEN p.str \o Tail(other.str)
    ELSE p.str \o other.str

(* The path of a location as its directive makes it.                       *)
LocationPath(loc) == Path(Append(loc.path, Slash))
RootAsWritten(loc) == Path(loc.root)
Root(loc) == Path(Append(loc.root, Slash))

-----------------------------------------------------------------------------

TypeOK ==
    /\ blocks \in Servers /\ host \in Hosts /\ target \in Targets
    /\ pc \in {"server", "location", "request", "done"}
    /\ i \in Nat \ {0}
    /\ block \in DOMAIN blocks
    /\ selected \in DOMAIN blocks[block].locations \cup {None}
    /\ bestMatch \in Nat

Init ==
    /\ blocks \in Servers /\ host \in Hosts /\ target \in Targets
    /\ pc = "server" /\ i = 1 /\ block = 1 /\ selected = None /\ bestMatch = 0
    /\ path = None

(* findServerBlock: a block that has the name, or the front.               *)
LastBlock == Len(blocks)
FrontBlock == 1
FindServerBlock ==
    /\ pc = "server"
    /\ IF i > Len(blocks)
       THEN block' = FrontBlock /\ i' = 1 /\ pc' = "location"
       ELSE IF host \in blocks[i].names
       THEN block' = i /\ i' = 1 /\ pc' = "location"
       ELSE i' = i + 1 /\ UNCHANGED <<block, pc>>
    /\ UNCHANGED <<blocks, host, target, selected, bestMatch, path>>

Locations == blocks[block].locations

(* What makes findLocationBlock return at once, and what makes it prefer a *)
(* location to the one selected before.                                    *)
Exact(loc) == PrefixLength(LocationPath(loc)) = Len(Path(target).chunks)
BetterOrSame(loc) == PrefixLength(LocationPath(loc)) >= bestMatch
Better(loc) == PrefixLength(LocationPath(loc)) > bestMatch \/ selected = None

FindLocationBlock ==
    /\ pc = "location"
    /\ IF i > Len(Locations)
       THEN pc' = "request" /\ UNCHANGED <<i, selected, bestMatch>>
       ELSE LET loc == Locations[i]
            IN IF ~PrefixMatch(LocationPath(loc), Path(target))
               THEN i' = i + 1 /\ UNCHANGED <<pc, selected, bestMatch>>
               ELSE IF Exact(loc)
               THEN selected' = i /\ pc' = "request" /\ UNCHANGED <<i, bestMatch>>
               ELSE IF Better(loc)
               THEN /\ selected' = i /\ bestMatch' = PrefixLength(LocationPath(loc))
                    /\ i' = i + 1 /\ UNCHANGED pc
               ELSE i' = i + 1 /\ UNCHANGED <<pc, selected, bestMatch>>
    /\ UNCHANGED <<blocks, host, target, block, path>>

(* The first lines of ARequest::ARequest.  substr() throws if the string   *)
(* is shorter than where it shall begin.                                   *)
WholePath(loc) == Len(LocationPath(loc).str)
MatchLength(loc) == Len(LocationPath(loc).str) - 1
Chopped == SubSeq(target, MatchLength(Locations[selected]) + 1, Len(target))

MakeRequest ==
    /\ pc = "request" /\ pc' = "done"
    /\ path' = IF selected = None \/ MatchLength(Locations[selected]) > Len(target) THEN None
               ELSE IF Chopped # <<>>
               THEN Path(Concat(Root(Locations[selected]), Path(Chopped)))
               ELSE Path(Front(Root(Locations[selected]).str))
    /\ UNCHANGED <<blocks, host, target, i, block, selected, bestMatch>>

Next == FindServerBlock \/ FindLocationBlock \/ MakeRequest

Spec == Init /\ [][Next]_vars

-----------------------------------------------------------------------------
(* Properties. *)

Named(b) == host \in blocks[b].names

(* findServerBlock: the first block that has the Host as a name serves the *)
(* request, and the socket's first block if there is none.                 *)
FirstNamedServes ==
    pc # "server" =>
       \/ Named(block) /\ \A b \in 1 .. block - 1 : ~Named(b)
       \/ block = 1 /\ \A b \in DOMAIN blocks : ~Named(b)

Matches(k) == PrefixMatch(LocationPath(Locations[k]), Path(target))
Length(k) == Len(LocationPath(Locations[k]).chunks)

(* findLocationBlock: the location that serves a request is the longest    *)
(* one whose parts the target begins with, of equal ones the first; there  *)
(* is none only if none matches.  In spite of the early return, and of a   *)
(* best match of length zero.                                              *)
LongestPrefix ==
    pc \in {"request", "done"} =>
       IF selected = None
       THEN \A k \in DOMAIN Locations : ~Matches(k)
       ELSE /\ Matches(selected)
            /\ \A k \in DOMAIN Locations :
                  Matches(k) => \/ Length(k) < Length(selected)
                                \/ Length(k) = Length(selected) /\ selected <= k

(* ARequest::ARequest: substr() never throws, which would end every        *)
(* connection of the server: a target that matches is not shorter than the *)
(* location without its slash.                                             *)
SubstrInRange ==
    pc = "request" /\ selected # None => MatchLength(Locations[selected]) <= Len(target)

(* ARequest::ARequest: nothing is lost or doubled where the target is cut: *)
(* the path is made of the parts of the location's root and then of those  *)
(* that the location leaves of the target, if the target has no repeated   *)
(* slash, which the search ignores and substr() does not.  This does not   *)
(* say that the file lies below the root: a part ".." is carried along as  *)
(* any other, nothing refuses it, and the path is decoded only afterwards. *)
RestFollowsRoot ==
    pc = "done" /\ path # None /\ Normalised(target) = target =>
       path.chunks = Root(Locations[selected]).chunks
                     \o SubSeq(Chunks(target), Length(selected) + 1, Len(Chunks(target)))
=============================================================================
