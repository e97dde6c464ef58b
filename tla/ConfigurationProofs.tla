-------------------------- MODULE ConfigurationProofs --------------------------
(***************************************************************************)
(* Theorems about Configuration, for any settings of either kind, any      *)
(* values and widths, and any number of servers, locations and lines.      *)
(***************************************************************************)
EXTENDS Configuration, FiniteSetTheorems, TLAPS

-----------------------------------------------------------------------------
(* What the tables hold. *)

Given == Ports \cup {0, DefaultIndex} \cup UNION {Value(s) : s \in Setting}
Datum == Int \cup Seq(Given)
Limit == -Half .. Half - 1

Settings ==
    {f \in [Setting -> Datum] : (\A s \in Many : f[s] \in Seq(Given)) /\ f["limit"] \in Limit}

Server == [hosts : Seq(0 .. PortRange - 1), page : Int, locations : Seq(Settings)]
Socket == [host : 0 .. PortRange - 1, blocks : Seq(Nat)]
Line ==
    {l \in [server : Nat, location : Nat, what : Setting \cup {"listen", "error_page"}, value : Given] :
        l.what \in Setting => l.value \in Value(l.what)}

Types ==
    /\ level \in {"top", "server", "location", "bind", "running", "refused"}
    /\ root \in Int /\ server \in Server /\ global \in Settings /\ location \in Settings
    /\ blocks \in Seq(Server) /\ next \in (Nat \ {0}) \X (Nat \ {0})
    /\ sockets \in Seq(Socket)
    /\ lines \in Seq(Line) /\ Len(lines) <= MaxLines

-----------------------------------------------------------------------------
(* What the parser holds of the lines it has read. *)

Reading == level \in {"server", "location"}
Number == Len(blocks) + 1
Locations == Len(server.locations)

(* Lines belong to the servers and locations read so far.                  *)
LinesBehind ==
    \A j \in DOMAIN lines :
       /\ lines[j].server <= Number
       /\ lines[j].server = Number => /\ Reading
                                      /\ lines[j].location <= Locations \/ level = "location"
                                      /\ lines[j].location <= Locations + 1

(* The value of a setting that these lines give, or else the one it has    *)
(* before the first of them.                                               *)
Holds(file, n, k, s, v, start) ==
    LET L == LinesOf(file, n, k, s) IN IF L = {} THEN v = start ELSE Says(file, L, s, v)

GlobalHeld == Reading => \A s \in Setting : Holds(lines, Number, 0, s, global[s], Defaults[s])

LocationsHeld ==
    Reading => \A k \in 1 .. Locations : \A s \in Setting :
                  Holds(lines, Number, k, s, server.locations[k][s], Unset(s))

LocationHeld ==
    level = "location" =>
       \A s \in Setting : Holds(lines, Number, Locations + 1, s, location[s], Unset(s))

RootHeld == Reading => root = global["root"] /\ server.page = PageRoot(lines, Number)

-----------------------------------------------------------------------------
(* What configure() has bound so far. *)

NothingBound == level \in {"top", "server", "location"} => sockets = <<>> /\ next = <<1, 1>>

HostsGiven == \A n \in DOMAIN blocks : blocks[n].hosts # <<>>

NextSound == next[1] <= Len(blocks) => next[2] \in DOMAIN blocks[next[1]].hosts

OneSocket == \A j, k \in DOMAIN sockets : sockets[j].host = sockets[k].host => j = k

Behind(n, i) == n < next[1] \/ (n = next[1] /\ i < next[2])

Serves(k, n) == \E b \in DOMAIN sockets[k].blocks : sockets[k].blocks[b] = n

AllBound ==
    \A n \in DOMAIN blocks : \A i \in DOMAIN blocks[n].hosts :
       Behind(n, i) => \E k \in DOMAIN sockets : sockets[k].host = blocks[n].hosts[i] /\ Serves(k, n)

Listens(n, host) == \E i \in DOMAIN blocks[n].hosts : blocks[n].hosts[i] = host

OnlyTheirs ==
    \A k \in DOMAIN sockets : \A b \in DOMAIN sockets[k].blocks :
       /\ sockets[k].blocks[b] \in DOMAIN blocks /\ sockets[k].blocks[b] <= next[1]
       /\ Listens(sockets[k].blocks[b], sockets[k].host)

InOrder ==
    \A k \in DOMAIN sockets : \A i \in 1 .. Len(sockets[k].blocks) - 1 :
       sockets[k].blocks[i] <= sockets[k].blocks[i + 1]

Binding ==
    level \in {"bind", "running"} => NextSound /\ OneSocket /\ AllBound /\ OnlyTheirs /\ InOrder

Done == level = "running" => next[1] > Len(blocks)

IInv ==
    /\ Types
    /\ LinesBehind /\ GlobalHeld /\ LocationsHeld /\ LocationHeld /\ RootHeld
    /\ SettingsInForce /\ PagesUnderOwnRoot
    /\ NothingBound /\ HostsGiven /\ Binding /\ Done

-----------------------------------------------------------------------------
(* Numbers and sets. *)

LEMMA Numbers ==
  /\ Half \in Nat /\ Half > 0 /\ PortRange \in Nat /\ PortRange > 0 /\ MaxLines \in Nat
  /\ "root" \in Setting /\ "limit" \in Setting /\ "root" \notin Many /\ "limit" \notin Many
  /\ "index" \in Many /\ "index" \in Setting /\ "autoindex" \notin Many
  /\ "listen" \notin Setting /\ "error_page" \notin Setting
  BY ConfigurationAssumption DEF Setting

(* A set of numbers that is not empty and has a bound has a greatest one.  *)
LEMMA GreatestExists ==
  ASSUME NEW S \in SUBSET Nat, S # {}, NEW n \in Nat, \A x \in S : x <= n
  PROVE  \E m \in S : \A x \in S : x <= m
  <1> DEFINE Bounds == {b \in Nat : \A x \in S : x <= b}
             R == {p \in Nat \X Nat : p[1] < p[2]}
  <1>1. OpToRel(<, Nat) = R
    BY DEF OpToRel
  <1>2. PICK b \in Bounds : \A c \in Bounds : ~(<<c, b>> \in R)
    <2>1. IsWellFoundedOn(R, Nat)
      BY <1>1, NatLessThanWellFounded
    <2>2. Bounds \subseteq Nat /\ Bounds # {}
      OBVIOUS
    <2> HIDE DEF Bounds, R
    <2> QED BY <2>1, <2>2, WFMin
  <1>3. b \in S
    <2> SUFFICES ASSUME b \notin S PROVE FALSE
      OBVIOUS
    <2>1. b \in Nat /\ \A x \in S : x <= b /\ x # b
      BY <1>2
    <2>3. \A x \in S : x \in Nat /\ x < b
      BY <2>1
    <2>4. b # 0
      <3>1. PICK x \in S : TRUE
        OBVIOUS
      <3> QED BY <2>3, <3>1
    <2>5. b - 1 \in Nat /\ \A x \in S : x <= b - 1
      <3> HIDE DEF Bounds
      <3> SUFFICES ASSUME NEW x \in S PROVE b - 1 \in Nat /\ x <= b - 1
        BY <2>1, <2>4
      <3> QED BY <2>1, <2>3, <2>4
    <2>2. b - 1 \in Bounds /\ <<b - 1, b>> \in R
      BY <2>1, <2>5
    <2> QED BY <1>2, <2>2
  <1> QED BY <1>2, <1>3

LEMMA MaxIs ==
  ASSUME NEW S \in SUBSET Nat, NEW m \in S, \A x \in S : x <= m
  PROVE  Max(S) = m
  <1>1. m >= m /\ \A y \in S : m >= y
    OBVIOUS
  <1>2. Max(S) \in S /\ \A y \in S : Max(S) >= y
    BY <1>1, Zenon DEF Max
  <1> DEFINE x == Max(S)
  <1> HIDE DEF x
  <1>3. x \in S /\ x >= m /\ m >= x
    BY <1>1, <1>2 DEF x
  <1>4. x = m
    BY <1>3
  <1> QED BY <1>4 DEF x

LEMMA MaxInSet ==
  ASSUME NEW S \in SUBSET Nat, S # {}, NEW n \in Nat, \A x \in S : x <= n
  PROVE  Max(S) \in S /\ \A x \in S : x <= Max(S)
  BY GreatestExists, MaxIs

-----------------------------------------------------------------------------
(* A line more. *)

LEMMA AppendIs ==
  ASSUME NEW T, NEW q \in Seq(T), NEW l \in T
  PROVE  /\ Append(q, l) \in Seq(T) /\ Len(Append(q, l)) = Len(q) + 1 /\ Len(q) \in Nat
         /\ DOMAIN q = 1 .. Len(q) /\ DOMAIN Append(q, l) = 1 .. Len(q) + 1
         /\ \A j \in 1 .. Len(q) : Append(q, l)[j] = q[j]
         /\ Append(q, l)[Len(q) + 1] = l
  OBVIOUS

LEMMA LinesIn ==
  ASSUME NEW q \in Seq(Line), NEW L \in SUBSET (DOMAIN q)
  PROVE  /\ L \in SUBSET Nat /\ Len(q) \in Nat /\ IsFiniteSet(L) /\ Cardinality(L) \in Nat
         /\ \A x \in L : x \in 1 .. Len(q)
         /\ L # {} => Max(L) \in L /\ \A x \in L : x <= Max(L)
  <1>1. /\ L \in SUBSET Nat /\ Len(q) \in Nat /\ L \in SUBSET (1 .. Len(q))
        /\ \A x \in L : x \in 1 .. Len(q) /\ x <= Len(q)
    OBVIOUS
  <1>2. IsFiniteSet(L)
    BY <1>1, FS_BoundedSetOfNaturals
  <1>3. Cardinality(L) \in Nat
    BY <1>2, FS_CardinalityType
  <1>4. L # {} => Max(L) \in L /\ \A x \in L : x <= Max(L)
    BY <1>1, MaxInSet
  <1> QED BY <1>1, <1>2, <1>3, <1>4

Matches(l, n, k, s) == l.server = n /\ l.location = k /\ l.what = s

LEMMA LinesAppended ==
  ASSUME NEW q \in Seq(Line), NEW l \in Line, NEW n, NEW k, NEW s
  PROVE  /\ LinesOf(q, n, k, s) \in SUBSET (DOMAIN q)
         /\ Matches(l, n, k, s) =>
              LinesOf(Append(q, l), n, k, s) = LinesOf(q, n, k, s) \cup {Len(q) + 1}
         /\ ~Matches(l, n, k, s) => LinesOf(Append(q, l), n, k, s) = LinesOf(q, n, k, s)
  <1>1. LinesOf(q, n, k, s) \in SUBSET (DOMAIN q)
    BY DEF LinesOf
  <1> DEFINE p == Append(q, l)
  <1>2. /\ DOMAIN p = (DOMAIN q) \cup {Len(q) + 1} /\ p[Len(q) + 1] = l
        /\ \A j \in DOMAIN q : p[j] = q[j]
    BY AppendIs
  <1> HIDE DEF p
  <1>3. CASE Matches(l, n, k, s)
    <2>1. LinesOf(p, n, k, s) = LinesOf(q, n, k, s) \cup {Len(q) + 1}
      BY <1>2, <1>3 DEF LinesOf, Matches
    <2> QED BY <1>1, <1>3, <2>1 DEF p
  <1>4. CASE ~Matches(l, n, k, s)
    <2>1. LinesOf(p, n, k, s) = LinesOf(q, n, k, s)
      BY <1>2, <1>4 DEF LinesOf, Matches
    <2> QED BY <1>1, <1>4, <2>1 DEF p
  <1> QED BY <1>3, <1>4

LEMMA SaysKept ==
  ASSUME NEW q \in Seq(Line), NEW l \in Line, NEW L \in SUBSET (DOMAIN q), NEW s, NEW v
  PROVE  Says(Append(q, l), L, s, v) <=> Says(q, L, s, v)
  <1> DEFINE p == Append(q, l)
  <1>1. \A j \in L : p[j] = q[j]
    BY AppendIs
  <1> HIDE DEF p
  <1>2. L # {} => p[Max(L)] = q[Max(L)]
    BY <1>1, LinesIn
  <1> SUFFICES Says(p, L, s, v) <=> Says(q, L, s, v)
    BY DEF p
  <1>3. CASE s \in Many
    BY <1>1, <1>3 DEF Says
  <1>4. CASE s \notin Many
    BY <1>2, <1>4 DEF Says
  <1> QED BY <1>3, <1>4

(* A line of another setting leaves what a setting holds and has in force. *)
LEMMA HoldsKept ==
  ASSUME NEW q \in Seq(Line), NEW l \in Line, NEW n, NEW k, NEW s, ~Matches(l, n, k, s),
         NEW v, NEW start
  PROVE  Holds(Append(q, l), n, k, s, v, start) <=> Holds(q, n, k, s, v, start)
  BY LinesAppended, SaysKept DEF Holds

LEMMA InForceKept ==
  ASSUME NEW q \in Seq(Line), NEW l \in Line, NEW n, NEW k, NEW s, l.server # n, NEW v
  PROVE  InForce(Append(q, l), n, k, s, v) <=> InForce(q, n, k, s, v)
  <1>1. ~Matches(l, n, k, s) /\ ~Matches(l, n, 0, s)
    BY DEF Matches
  <1>2. /\ LinesOf(Append(q, l), n, k, s) = LinesOf(q, n, k, s)
        /\ LinesOf(Append(q, l), n, 0, s) = LinesOf(q, n, 0, s)
    BY <1>1, LinesAppended
  <1>3. \A u : /\ Says(Append(q, l), LinesOf(q, n, k, s), s, u) <=> Says(q, LinesOf(q, n, k, s), s, u)
               /\ Says(Append(q, l), LinesOf(q, n, 0, s), s, u) <=> Says(q, LinesOf(q, n, 0, s), s, u)
    BY SaysKept, LinesAppended
  <1> QED BY <1>2, <1>3 DEF InForce

-----------------------------------------------------------------------------
(* A setting more. *)

LEMMA NarrowIs ==
  ASSUME NEW v \in Value("limit")
  PROVE  v \in Given /\ Narrow(v) \in Limit /\ Narrow(v) = Signed("limit", v)
  <1>1. v \in 0 .. 2 * Half - 1
    BY ConfigurationAssumption
  <1>2. ((v + Half) % (2 * Half)) - Half = IF v < Half THEN v ELSE v - 2 * Half
    BY <1>1, Numbers
  <1>3. Narrow(v) = Signed("limit", v)
    BY <1>1, <1>2, Numbers DEF Narrow, Signed
  <1>4. Signed("limit", v) \in Limit
    BY <1>1, Numbers DEF Signed, Limit
  <1>5. v \in Given
    BY Numbers DEF Given
  <1> QED BY <1>3, <1>4, <1>5

LEMMA StoredIs ==
  ASSUME NEW s \in Setting, s \notin Many, NEW v \in Value(s)
  PROVE  /\ v \in Given /\ Stored(s, v) \in Int /\ Stored(s, v) = Signed(s, v)
         /\ s = "limit" => Stored(s, v) \in Limit
  <1>1. v \in Nat /\ v \in Given
    BY ConfigurationAssumption DEF Setting, Given
  <1>2. CASE s = "limit"
    BY <1>1, <1>2, NarrowIs, Numbers DEF Stored, Limit
  <1>3. CASE s # "limit"
    BY <1>1, <1>3 DEF Stored, Signed
  <1> QED BY <1>2, <1>3

LEMMA SetIs ==
  ASSUME NEW f \in Settings, NEW s \in Setting, NEW v \in Value(s)
  PROVE  /\ Set(f, s, v) \in Settings
         /\ \A t \in Setting \ {s} : Set(f, s, v)[t] = f[t]
         /\ s \in Many => /\ Set(f, s, v)[s] = Append(f[s], v)
                          /\ f[s] \in Seq(Given) /\ v \in Given
         /\ s \notin Many => Set(f, s, v)[s] = Signed(s, v)
  <1>1. /\ f \in [Setting -> Datum] /\ \A t \in Many : f[t] \in Seq(Given) /\ t \in Setting
        /\ f["limit"] \in Limit
    BY DEF Settings, Setting
  <1>2. CASE s \in Many
    <2> DEFINE x == Append(f[s], v)
    <2>1. v \in Given /\ f[s] \in Seq(Given)
      BY <1>1, <1>2 DEF Given
    <2>2. x \in Seq(Given) /\ x \in Datum
      BY <2>1, AppendIs DEF Datum
    <2>3. Set(f, s, v) = [f EXCEPT ![s] = x]
      BY <1>2 DEF Set
    <2> HIDE DEF x
    <2>4. [f EXCEPT ![s] = x] \in Settings
      BY <1>1, <1>2, <2>2, Numbers DEF Settings
    <2>5. [f EXCEPT ![s] = x][s] = x /\ \A t \in Setting \ {s} : [f EXCEPT ![s] = x][t] = f[t]
      BY <1>1
    <2> QED BY <1>2, <2>1, <2>3, <2>4, <2>5 DEF x
  <1>3. CASE s \notin Many
    <2> DEFINE x == Stored(s, v)
    <2>1. x \in Datum /\ x = Signed(s, v) /\ (s = "limit" => x \in Limit)
      BY <1>3, StoredIs DEF Datum
    <2>3. Set(f, s, v) = [f EXCEPT ![s] = x]
      BY <1>3 DEF Set
    <2> HIDE DEF x
    <2>5. [f EXCEPT ![s] = x][s] = x /\ \A t \in Setting \ {s} : [f EXCEPT ![s] = x][t] = f[t]
      BY <1>1
    <2>4. [f EXCEPT ![s] = x] \in Settings
      <3> DEFINE g == [f EXCEPT ![s] = x]
      <3>1. g \in [Setting -> Datum]
        BY <1>1, <2>1
      <3> HIDE DEF g
      <3>2. g[s] = x /\ \A t \in Setting \ {s} : g[t] = f[t]
        BY <2>5 DEF g
      <3>3. \A t \in Many : t # s /\ g[t] \in Seq(Given)
        BY <1>1, <1>3, <3>2
      <3>4. g["limit"] \in Limit
        BY <1>1, <2>1, <3>2, Numbers
      <3> QED BY <3>1, <3>3, <3>4 DEF Settings, g
    <2> QED BY <1>3, <2>1, <2>3, <2>4, <2>5
  <1> QED BY <1>2, <1>3

LEMMA FreshIs ==
  /\ Fresh \in Settings /\ \A s \in Setting : Fresh[s] = Unset(s)
  /\ Defaults \in Settings /\ \A s \in Many : s \in Setting /\ Defaults[s] = <<>> /\ Unset(s) = <<>>
  /\ Defaults["root"] = -1 /\ Unset("root") = -1 /\ Defaults["index"] = <<>>
  <1>1. /\ <<>> \in Seq(Given) /\ -1 \in Limit /\ DefaultLimit \in Limit /\ Limit \subseteq Int
        /\ 0 \in Int /\ Many \subseteq Setting
    BY Numbers, ConfigurationAssumption DEF Limit, Setting
  <1>2. \A s \in Setting : Unset(s) \in Datum /\ (s \in Many => Unset(s) \in Seq(Given))
    BY <1>1 DEF Unset, Datum
  <1>3. Unset("limit") \in Limit /\ Unset("root") = -1
    BY <1>1, Numbers DEF Unset
  <1>4. Fresh \in Settings
    BY <1>2, <1>3, Numbers, <1>1 DEF Fresh, Settings
  <1>5. \A s \in Setting : Defaults[s] \in Datum /\ (s \in Many => Defaults[s] = Unset(s))
    BY <1>1, <1>2, Numbers DEF Defaults, Datum
  <1>6. Defaults["limit"] \in Limit /\ Defaults["root"] = -1
    BY <1>1, <1>3, Numbers DEF Defaults
  <1>7. Defaults \in Settings
    BY <1>1, <1>2, <1>5, <1>6 DEF Defaults, Settings
  <1> QED BY <1>1, <1>3, <1>4, <1>5, <1>6, <1>7, Numbers DEF Fresh, Unset

(* A line of a setting adds its value to those given or replaces them.     *)
LEMMA HoldsNext ==
  ASSUME NEW q \in Seq(Line), NEW l \in Line, NEW n, NEW k, NEW s \in Setting, Matches(l, n, k, s),
         NEW f \in Settings, l.value \in Value(s),
         NEW start, s \in Many => start = <<>>, Holds(q, n, k, s, f[s], start)
  PROVE  Holds(Append(q, l), n, k, s, Set(f, s, l.value)[s], start)
  <1> DEFINE p == Append(q, l)
             m == Len(q) + 1
             L == LinesOf(q, n, k, s)
             M == LinesOf(p, n, k, s)
             v == f[s]
             w == Set(f, s, l.value)[s]
  <1>1. M = L \cup {m} /\ L \in SUBSET (DOMAIN q)
    BY LinesAppended
  <1>2. /\ L \in SUBSET Nat /\ Len(q) \in Nat /\ IsFiniteSet(L) /\ Cardinality(L) \in Nat
        /\ \A x \in L : x \in 1 .. Len(q)
    BY <1>1, LinesIn
  <1>3. p[m] = l /\ \A j \in L : p[j] = q[j]
    BY <1>1, AppendIs
  <1>4. m \in Nat /\ m \notin L /\ \A x \in L : x <= m
    BY <1>2
  <1>5. IF L = {} THEN v = start ELSE Says(q, L, s, v)
    BY DEF Holds
  <1>6. SUFFICES Says(p, M, s, w)
    BY <1>1 DEF Holds
  <1> HIDE DEF p, m, L, M, w, v
  <1>7. CASE s \notin Many
    <2>1. Max(M) = m
      BY <1>1, <1>2, <1>4, MaxIs
    <2>2. w = Signed(s, l.value)
      BY <1>7, SetIs DEF w
    <2> QED BY <1>1, <1>3, <1>7, <2>1, <2>2 DEF Says
  <1>8. CASE s \in Many
    <2>1. w = Append(v, l.value) /\ v \in Seq(Given) /\ l.value \in Given
      BY <1>8, SetIs DEF w, v
    <2>2. Len(v) = Cardinality(L) /\ \A j \in L : v[Cardinality(UpTo(L, j))] = q[j].value
      <3>1. CASE L = {}
        BY <1>5, <1>8, <3>1, FS_EmptySet
      <3>2. CASE L # {}
        BY <1>5, <1>8, <3>2 DEF Says
      <3> QED BY <3>1, <3>2
    <2>3. IsFiniteSet(M) /\ Cardinality(M) = Cardinality(L) + 1
      BY <1>1, <1>2, <1>4, FS_AddElement
    <2>4. /\ Len(w) = Cardinality(M) /\ w[Cardinality(M)] = l.value
          /\ \A i \in 1 .. Cardinality(L) : w[i] = v[i]
      <3>1. /\ Len(Append(v, l.value)) = Len(v) + 1 /\ Append(v, l.value)[Len(v) + 1] = l.value
            /\ \A i \in 1 .. Len(v) : Append(v, l.value)[i] = v[i]
        BY <2>1, AppendIs
      <3> QED BY <2>1, <2>2, <2>3, <3>1
    <2>5. UpTo(M, m) = M
      BY <1>1, <1>4 DEF UpTo
    <2>6. ASSUME NEW j \in L PROVE w[Cardinality(UpTo(M, j))] = p[j].value
      <3>1. UpTo(M, j) = UpTo(L, j)
        BY <1>1, <1>2, <1>4, <2>6 DEF UpTo, m
      <3>2. UpTo(L, j) \in SUBSET L /\ j \in UpTo(L, j)
        BY <1>2 DEF UpTo
      <3>3. /\ IsFiniteSet(UpTo(L, j)) /\ Cardinality(UpTo(L, j)) <= Cardinality(L)
            /\ Cardinality(UpTo(L, j)) \in Nat /\ Cardinality(UpTo(L, j)) # 0
        BY <1>2, <3>2, FS_Subset, FS_CardinalityType, FS_EmptySet
      <3>4. Cardinality(UpTo(L, j)) \in 1 .. Cardinality(L)
        BY <1>2, <3>3
      <3> QED BY <1>3, <2>2, <2>4, <3>1, <3>4
    <2>7. \A j \in M : w[Cardinality(UpTo(M, j))] = p[j].value
      BY <1>1, <1>3, <2>4, <2>5, <2>6
    <2> QED BY <1>1, <1>8, <2>4, <2>7 DEF Says
  <1> QED BY <1>7, <1>8

-----------------------------------------------------------------------------
(* A page more. *)

LEMMA RootsBeforeIs ==
  ASSUME NEW q \in Seq(Line), NEW l \in Line, NEW n
  PROVE  /\ \A j \in DOMAIN q : RootsBefore(Append(q, l), n, j) = RootsBefore(q, n, j)
         /\ RootsBefore(Append(q, l), n, Len(q) + 1) = LinesOf(q, n, 0, "root")
  <1> DEFINE L == LinesOf(q, n, 0, "root")
             M == LinesOf(Append(q, l), n, 0, "root")
  <1>1. L \in SUBSET (DOMAIN q) /\ (M = L \/ M = L \cup {Len(q) + 1})
    BY LinesAppended
  <1>2. Len(q) \in Nat /\ DOMAIN q = 1 .. Len(q)
    BY AppendIs
  <1> HIDE DEF L, M
  <1>3. ASSUME NEW j \in DOMAIN q PROVE {i \in M : i < j} = {i \in L : i < j}
    BY <1>1, <1>2
  <1>4. {i \in M : i < Len(q) + 1} = L
    BY <1>1, <1>2
  <1> QED BY <1>3, <1>4 DEF RootsBefore, L, M

LEMMA PageLinesIn ==
  ASSUME NEW q \in Seq(Line), NEW n, PageLines(q, n) # {}
  PROVE  LET j == Max(PageLines(q, n)) IN /\ j \in PageLines(q, n) /\ j \in DOMAIN q
                                          /\ Max(RootsBefore(q, n, j)) \in DOMAIN q
  <1> DEFINE j == Max(PageLines(q, n))
  <1>1. PageLines(q, n) \in SUBSET (DOMAIN q)
    BY DEF PageLines, LinesOf
  <1>2. j \in PageLines(q, n) /\ j \in DOMAIN q
    BY <1>1, LinesIn
  <1> HIDE DEF j
  <1>3. RootsBefore(q, n, j) \in SUBSET (DOMAIN q) /\ RootsBefore(q, n, j) # {}
    BY <1>2 DEF PageLines, RootsBefore, LinesOf
  <1>4. Max(RootsBefore(q, n, j)) \in DOMAIN q
    BY <1>3, LinesIn
  <1> QED BY <1>2, <1>4 DEF j

LEMMA PageKept ==
  ASSUME NEW q \in Seq(Line), NEW l \in Line, NEW n,
         Matches(l, n, 0, "error_page") => LinesOf(q, n, 0, "root") = {}
  PROVE  PageRoot(Append(q, l), n) = PageRoot(q, n)
  <1> DEFINE p == Append(q, l)
             E == LinesOf(q, n, 0, "error_page")
  <1>1. /\ \A j \in DOMAIN q : RootsBefore(p, n, j) = RootsBefore(q, n, j) /\ p[j] = q[j]
        /\ RootsBefore(p, n, Len(q) + 1) = LinesOf(q, n, 0, "root")
    BY SMTT(30), RootsBeforeIs, AppendIs
  <1>2. /\ E \in SUBSET (DOMAIN q)
        /\ LinesOf(p, n, 0, "error_page") = E
           \/ /\ LinesOf(p, n, 0, "error_page") = E \cup {Len(q) + 1}
              /\ LinesOf(q, n, 0, "root") = {}
    BY LinesAppended
  <1> HIDE DEF p, E
  <1>3. PageLines(p, n) = PageLines(q, n)
    <2>1. PageLines(q, n) = {j \in E : RootsBefore(q, n, j) # {}}
      BY DEF PageLines, E
    <2>2. PageLines(p, n) = {j \in E : RootsBefore(p, n, j) # {}}
      BY <1>1, <1>2 DEF PageLines
    <2> QED BY <1>1, <1>2, <2>1, <2>2
  <1>4. CASE PageLines(q, n) = {}
    BY <1>3, <1>4 DEF PageRoot, p
  <1>5. CASE PageLines(q, n) # {}
    <2> DEFINE j == Max(PageLines(q, n))
    <2>1. j \in DOMAIN q /\ Max(RootsBefore(q, n, j)) \in DOMAIN q
      BY <1>5, PageLinesIn
    <2>2. /\ PageRoot(p, n) = p[Max(RootsBefore(p, n, j))].value
          /\ PageRoot(q, n) = q[Max(RootsBefore(q, n, j))].value
      BY <1>3, <1>5 DEF PageRoot
    <2> HIDE DEF j
    <2> QED BY <1>1, <2>1, <2>2 DEF p
  <1> QED BY <1>4, <1>5

LEMMA PageNext ==
  ASSUME NEW q \in Seq(Line), NEW l \in Line, NEW n, Matches(l, n, 0, "error_page"),
         LinesOf(q, n, 0, "root") # {}
  PROVE  PageRoot(Append(q, l), n) = q[Max(LinesOf(q, n, 0, "root"))].value
  <1> DEFINE p == Append(q, l)
             m == Len(q) + 1
             R == LinesOf(q, n, 0, "root")
  <1>1. RootsBefore(p, n, m) = R /\ R \in SUBSET (DOMAIN q) /\ \A j \in DOMAIN q : p[j] = q[j]
    BY RootsBeforeIs, LinesAppended, AppendIs
  <1>2. PageLines(p, n) \in SUBSET (DOMAIN p) /\ p \in Seq(Line) /\ DOMAIN p = 1 .. m /\ m \in Nat
    BY AppendIs DEF PageLines, LinesOf
  <1>3. m \in LinesOf(p, n, 0, "error_page")
    BY LinesAppended
  <1> HIDE DEF p, m, R
  <1>4. m \in PageLines(p, n) /\ \A x \in PageLines(p, n) : x <= m
    BY <1>1, <1>2, <1>3 DEF PageLines, R
  <1>5. Max(PageLines(p, n)) = m
    <2>1. PageLines(p, n) \in SUBSET Nat
      BY <1>2, LinesIn
    <2> QED BY <1>4, <2>1, MaxIs
  <1>6. Max(R) \in DOMAIN q
    BY <1>1, LinesIn DEF R
  <1>7. PageRoot(p, n) = p[Max(RootsBefore(p, n, m))].value
    BY <1>4, <1>5 DEF PageRoot
  <1> QED BY <1>1, <1>6, <1>7 DEF p, R

-----------------------------------------------------------------------------
(* The parser. *)

(* The settings of blocks do not change with lines of a later server.      *)
Parsed ==
    /\ LinesBehind /\ GlobalHeld /\ LocationsHeld /\ LocationHeld /\ RootHeld
    /\ SettingsInForce /\ PagesUnderOwnRoot

LEMMA StateNumbers ==
  ASSUME Types
  PROVE  /\ blocks \in Seq(Server) /\ Len(blocks) \in Nat /\ Number \in Nat \ {0}
         /\ DOMAIN blocks = 1 .. Len(blocks)
         /\ Locations \in Nat /\ DOMAIN server.locations = 1 .. Locations
         /\ server.locations \in Seq(Settings) /\ server.hosts \in Seq(0 .. PortRange - 1)
         /\ server.page \in Int /\ server \in Server /\ lines \in Seq(Line) /\ Len(lines) \in Nat
         /\ \A n \in DOMAIN blocks : /\ blocks[n] \in Server /\ blocks[n].locations \in Seq(Settings)
                                     /\ blocks[n].hosts \in Seq(0 .. PortRange - 1)
  <1>1. /\ blocks \in Seq(Server) /\ server \in Server /\ lines \in Seq(Line)
    BY DEF Types
  <1>2. \A x \in Server : /\ x.locations \in Seq(Settings) /\ x.hosts \in Seq(0 .. PortRange - 1)
                          /\ x.page \in Int
    BY DEF Server
  <1>3. /\ Len(blocks) \in Nat /\ DOMAIN blocks = 1 .. Len(blocks) /\ Len(lines) \in Nat
        /\ \A n \in DOMAIN blocks : blocks[n] \in Server
    BY <1>1
  <1>4. /\ Len(server.locations) \in Nat /\ DOMAIN server.locations = 1 .. Len(server.locations)
    BY <1>1, <1>2
  <1> QED BY <1>1, <1>2, <1>3, <1>4 DEF Number, Locations

(* There is nothing yet of a server or a location that has just begun.     *)
LEMMA NothingSaid ==
  ASSUME Types, LinesBehind, NEW s, NEW k
  PROVE  /\ ~Reading => LinesOf(lines, Number, k, s) = {} /\ PageRoot(lines, Number) = -1
         /\ level = "server" /\ k = Locations + 1 => LinesOf(lines, Number, k, s) = {}
  <1>1. ~Reading => \A t : \A m : LinesOf(lines, Number, m, t) = {}
    BY DEF LinesOf, LinesBehind
  <1>2. ~Reading => PageRoot(lines, Number) = -1
    BY <1>1 DEF PageRoot, PageLines
  <1>3. level = "server" /\ k = Locations + 1 => LinesOf(lines, Number, k, s) = {}
    BY StateNumbers DEF LinesOf, LinesBehind
  <1> QED BY <1>1, <1>2, <1>3

LEMMA InitInd ==
  ASSUME level \in {"top", "refused"}, root = -1, server = NoServer, global = Fresh, location = Fresh,
         blocks = <<>>, next = <<1, 1>>, sockets = <<>>, lines = <<>>
  PROVE  IInv
  <1>1. NoServer \in Server
    BY DEF NoServer, Server
  <1>2. Types
    BY <1>1, FreshIs, Numbers DEF Types
  <1>3. Parsed
    BY DEF Parsed, LinesBehind, GlobalHeld, LocationsHeld, LocationHeld, RootHeld, Reading,
       SettingsInForce, PagesUnderOwnRoot
  <1> QED BY <1>2, <1>3 DEF IInv, Parsed, NothingBound, HostsGiven, Binding, Done

LEMMA NothingInd == ASSUME Nothing, level' \in {"top", "refused"} PROVE IInv'
  <1>1. NoServer \in Server
    BY DEF NoServer, Server
  <1>2. Types'
    BY <1>1, FreshIs, Numbers DEF Types, Nothing
  <1>3. Parsed'
    BY DEF Parsed, LinesBehind, GlobalHeld, LocationsHeld, LocationHeld, RootHeld, Reading,
       SettingsInForce, PagesUnderOwnRoot, Nothing
  <1> QED BY <1>2, <1>3 DEF IInv, Parsed, NothingBound, HostsGiven, Binding, Done, Nothing

LEMMA OpenServerInd == ASSUME IInv, OpenServer PROVE IInv'
  <1>1. /\ level = "top" /\ level' = "server" /\ server' = NoServer /\ global' = Defaults /\ root' = -1
        /\ UNCHANGED <<location, blocks, next, sockets, lines>> /\ ~Reading /\ Types /\ LinesBehind
    BY DEF OpenServer, NoRoot, Reading, IInv
  <1>2. NoServer \in Server /\ NoServer.locations = <<>> /\ NoServer.page = -1
    BY DEF NoServer, Server
  <1>3. Types'
    BY <1>1, <1>2, FreshIs DEF Types
  <1>4. \A k, s : LinesOf(lines, Number, k, s) = {} /\ PageRoot(lines, Number) = -1
    BY <1>1, NothingSaid
  <1>5. Number' = Number /\ Locations' = 0
    BY <1>1, <1>2 DEF Number, Locations
  <1>6. GlobalHeld' /\ LocationsHeld' /\ LocationHeld' /\ RootHeld'
    BY <1>1, <1>2, <1>4, <1>5, FreshIs DEF GlobalHeld, LocationsHeld, LocationHeld, RootHeld, Holds
  <1>7. LinesBehind'
    BY <1>1, <1>5 DEF LinesBehind
  <1>8. SettingsInForce' /\ PagesUnderOwnRoot' /\ NothingBound' /\ HostsGiven'
    BY <1>1 DEF IInv, SettingsInForce, PagesUnderOwnRoot, NothingBound, HostsGiven
  <1> QED BY <1>1, <1>3, <1>6, <1>7, <1>8 DEF IInv, Reading, Binding, Done

(* What is the same for every line.                                        *)
LEMMA LineInd ==
  ASSUME IInv, Reading, NEW k \in Nat, NEW what \in Setting \cup {"listen", "error_page"},
         NEW value \in Given, what \in Setting => value \in Value(what), Reads(k, what, value),
         k <= Locations \/ (level = "location" /\ k = Locations + 1),
         UNCHANGED <<level, blocks, next, sockets>>, Locations' = Locations
  PROVE  LET l == [server |-> Number, location |-> k, what |-> what, value |-> value]
         IN /\ l \in Line /\ lines \in Seq(Line) /\ lines' = Append(lines, l)
            /\ lines' \in Seq(Line) /\ Len(lines') <= MaxLines
            /\ LinesBehind' /\ SettingsInForce' /\ PagesUnderOwnRoot'
            /\ NothingBound' /\ HostsGiven' /\ Binding' /\ Done'
            /\ Reading' /\ Number' = Number
            /\ \A m, s : Matches(l, Number, m, s) <=> m = k /\ s = what
  <1> DEFINE l == [server |-> Number, location |-> k, what |-> what, value |-> value]
  <1>1. /\ Types /\ Number \in Nat /\ lines \in Seq(Line) /\ Len(lines) \in Nat /\ MaxLines \in Nat
        /\ Len(blocks) \in Nat /\ DOMAIN blocks = 1 .. Len(blocks) /\ Locations \in Nat
    BY StateNumbers, Numbers DEF IInv
  <1>2. l \in Line
    BY <1>1 DEF Line
  <1>3. l.server = Number /\ l.location = k /\ l.what = what /\ l.value = value
    OBVIOUS
  <1>4. lines' = Append(lines, l) /\ Len(lines) < MaxLines
    BY DEF Reads, Number
  <1> HIDE DEF l
  <1>5. /\ lines' \in Seq(Line) /\ Len(lines') = Len(lines) + 1 /\ Len(lines') <= MaxLines
        /\ DOMAIN lines' = 1 .. Len(lines) + 1 /\ lines'[Len(lines) + 1] = l
        /\ DOMAIN lines = 1 .. Len(lines) /\ \A j \in 1 .. Len(lines) : lines'[j] = lines[j]
    BY <1>1, <1>2, <1>4, AppendIs
  <1>6. Reading' /\ Number' = Number
    BY DEF Reading, Number
  <1>7. LinesBehind'
    <2> SUFFICES ASSUME NEW j \in DOMAIN lines'
                 PROVE  /\ lines'[j].server <= Number
                        /\ lines'[j].server = Number =>
                             /\ lines'[j].location <= Locations \/ level = "location"
                             /\ lines'[j].location <= Locations + 1
      BY <1>6 DEF LinesBehind
    <2>1. CASE j \in DOMAIN lines
      BY <1>5, <2>1 DEF IInv, LinesBehind
    <2>2. CASE j = Len(lines) + 1
      BY <1>1, <1>3, <1>5, <2>2
    <2> QED BY <1>1, <1>5, <2>1, <2>2
  <1>8. \A n \in DOMAIN blocks : l.server # n /\ ~Matches(l, n, 0, "error_page")
    BY <1>1, <1>3 DEF Number, Matches
  <1>9. SettingsInForce'
    <2> SUFFICES ASSUME NEW n \in DOMAIN blocks, NEW m \in DOMAIN blocks[n].locations,
                        NEW s \in Setting
                 PROVE  InForce(lines', n, m, s, blocks[n].locations[m][s])
      BY DEF SettingsInForce
    <2>1. InForce(lines, n, m, s, blocks[n].locations[m][s])
      BY DEF IInv, SettingsInForce
    <2> QED BY <1>1, <1>2, <1>4, <1>8, <2>1, InForceKept
  <1>10. PagesUnderOwnRoot'
    <2> SUFFICES ASSUME NEW n \in DOMAIN blocks PROVE blocks[n].page = PageRoot(lines', n)
      BY DEF PagesUnderOwnRoot
    <2>1. blocks[n].page = PageRoot(lines, n)
      BY DEF IInv, PagesUnderOwnRoot
    <2> QED BY <1>1, <1>2, <1>4, <1>8, <2>1, PageKept
  <1>11. NothingBound' /\ HostsGiven' /\ Binding' /\ Done'
    BY DEF IInv, NothingBound, HostsGiven, Binding, Done, Reading
  <1>12. \A m, s : Matches(l, Number, m, s) <=> m = k /\ s = what
    BY <1>3 DEF Matches
  <1> QED BY <1>1, <1>2, <1>4, <1>5, <1>6, <1>7, <1>9, <1>10, <1>11, <1>12 DEF l

LEMMA ListenInd == ASSUME IInv, NEW port \in Ports, Listen(port) PROVE IInv'
  <1> DEFINE l == [server |-> Number, location |-> 0, what |-> "listen", value |-> port]
             h == port % PortRange
  <1>1. /\ level = "server" /\ Reads(0, "listen", port) /\ Reading
        /\ server' = [server EXCEPT !.hosts = Append(@, h)]
        /\ UNCHANGED <<level, root, global, location, blocks, next, sockets>>
    BY DEF Listen, Reading
  <1>2. h \in 0 .. PortRange - 1
    BY Numbers, ConfigurationAssumption
  <1> HIDE DEF h
  <1>3. /\ server' \in Server /\ server'.locations = server.locations /\ server'.page = server.page
    <2>1. server \in Server /\ server.hosts \in Seq(0 .. PortRange - 1)
      BY StateNumbers DEF IInv
    <2>2. Append(server.hosts, h) \in Seq(0 .. PortRange - 1)
      BY <1>2, <2>1
    <2> QED BY <1>1, <2>1, <2>2 DEF Server
  <1>4. Locations' = Locations /\ Locations \in Nat
    BY <1>3, StateNumbers DEF Locations, IInv
  <1>5. port \in Given
    BY DEF Given
  <1>6. /\ l \in Line /\ lines \in Seq(Line) /\ lines' = Append(lines, l)
        /\ lines' \in Seq(Line) /\ Len(lines') <= MaxLines
        /\ LinesBehind' /\ SettingsInForce' /\ PagesUnderOwnRoot'
        /\ NothingBound' /\ HostsGiven' /\ Binding' /\ Done'
        /\ Reading' /\ Number' = Number
        /\ \A m, s : Matches(l, Number, m, s) <=> m = 0 /\ s = "listen"
    BY <1>1, <1>4, <1>5, Numbers, LineInd
  <1> HIDE DEF l
  <1>7. Types'
    BY <1>1, <1>3, <1>6 DEF IInv, Types
  <1>8. \A m : \A s \in Setting : ~Matches(l, Number, m, s)
    BY <1>6, Numbers
  <1>9. GlobalHeld' /\ LocationsHeld'
    BY <1>1, <1>3, <1>4, <1>6, <1>8, HoldsKept DEF IInv, GlobalHeld, LocationsHeld
  <1>10. RootHeld'
    BY <1>1, <1>3, <1>6, PageKept DEF IInv, RootHeld
  <1> QED BY <1>1, <1>6, <1>7, <1>9, <1>10 DEF IInv, LocationHeld

(* The root that a server has is that of the last line that gave one.      *)
LEMMA RootIs ==
  ASSUME IInv, Reading
  PROVE  LET R == LinesOf(lines, Number, 0, "root")
         IN IF root = -1 THEN R = {} ELSE R # {} /\ root = lines[Max(R)].value
  <1> DEFINE R == LinesOf(lines, Number, 0, "root")
  <1>1. /\ root = global["root"] /\ Holds(lines, Number, 0, "root", global["root"], -1)
        /\ lines \in Seq(Line)
    BY FreshIs, Numbers DEF IInv, RootHeld, GlobalHeld, Types
  <1>2. CASE R = {}
    BY <1>1, <1>2 DEF Holds
  <1>3. CASE R # {}
    <2>1. R \in SUBSET (DOMAIN lines)
      BY DEF LinesOf
    <2>2. Max(R) \in R
      BY <1>1, <1>3, <2>1, LinesIn
    <2>3. lines[Max(R)] \in Line /\ lines[Max(R)].what = "root"
      BY <1>1, <2>1, <2>2 DEF LinesOf
    <2>4. lines[Max(R)].value \in Nat
      BY <2>3, Numbers, ConfigurationAssumption DEF Line
    <2>5. root = Signed("root", lines[Max(R)].value)
      BY <1>1, <1>3, Numbers DEF Holds, Says
    <2> QED BY <1>3, <2>4, <2>5 DEF Signed
  <1> QED BY <1>2, <1>3

LEMMA ErrorPageInd == ASSUME IInv, ErrorPage PROVE IInv'
  <1> DEFINE l == [server |-> Number, location |-> 0, what |-> "error_page", value |-> 0]
             R == LinesOf(lines, Number, 0, "root")
  <1>1. /\ level = "server" /\ Reads(0, "error_page", 0) /\ Reading
        /\ server' = IF root = -1 THEN server ELSE [server EXCEPT !.page = root]
        /\ UNCHANGED <<level, root, global, location, blocks, next, sockets>>
    BY DEF ErrorPage, Reading
  <1>3. /\ server' \in Server /\ server'.locations = server.locations
        /\ server'.page = IF root = -1 THEN server.page ELSE root
    <2>1. server \in Server /\ root \in Int
      BY DEF IInv, Types
    <2> QED BY <1>1, <2>1 DEF Server
  <1>4. Locations' = Locations /\ Locations \in Nat
    BY <1>3, StateNumbers DEF Locations, IInv
  <1>5. 0 \in Given
    BY DEF Given
  <1>6. /\ l \in Line /\ lines \in Seq(Line) /\ lines' = Append(lines, l)
        /\ lines' \in Seq(Line) /\ Len(lines') <= MaxLines
        /\ LinesBehind' /\ SettingsInForce' /\ PagesUnderOwnRoot'
        /\ NothingBound' /\ HostsGiven' /\ Binding' /\ Done'
        /\ Reading' /\ Number' = Number
        /\ \A m, s : Matches(l, Number, m, s) <=> m = 0 /\ s = "error_page"
    BY <1>1, <1>4, <1>5, Numbers, LineInd
  <1> HIDE DEF l
  <1>7. Types'
    BY <1>1, <1>3, <1>6 DEF IInv, Types
  <1>8. \A m : \A s \in Setting : ~Matches(l, Number, m, s)
    BY <1>6, Numbers
  <1>9. GlobalHeld' /\ LocationsHeld'
    BY <1>1, <1>3, <1>4, <1>6, <1>8, HoldsKept DEF IInv, GlobalHeld, LocationsHeld
  <1>10. RootHeld'
    <2>1. root = global["root"] /\ server.page = PageRoot(lines, Number)
      BY <1>1 DEF IInv, RootHeld
    <2>2. IF root = -1 THEN R = {} ELSE R # {} /\ root = lines[Max(R)].value
      BY <1>1, RootIs
    <2>3. server'.page = PageRoot(lines', Number)
      <3>1. CASE root = -1
        BY <1>3, <1>6, <2>1, <2>2, <3>1, PageKept
      <3>2. CASE root # -1
        BY <1>3, <1>6, <2>2, <3>2, PageNext
      <3> QED BY <3>1, <3>2
    <2> QED BY <1>1, <1>6, <2>1, <2>3 DEF RootHeld
  <1> QED BY <1>1, <1>6, <1>7, <1>9, <1>10 DEF IInv, LocationHeld

LEMMA GlobalSettingInd ==
  ASSUME IInv, NEW s \in Setting, NEW v \in Value(s), GlobalSetting(s, v) PROVE IInv'
  <1> DEFINE l == [server |-> Number, location |-> 0, what |-> s, value |-> v]
  <1>1. /\ level = "server" /\ Reads(0, s, v) /\ Reading
        /\ global' = Set(global, s, v) /\ root' = global'["root"]
        /\ UNCHANGED <<level, server, location, blocks, next, sockets>>
    BY DEF GlobalSetting, Reading
  <1>2. /\ global \in Settings /\ Set(global, s, v) \in Settings
        /\ \A t \in Setting \ {s} : Set(global, s, v)[t] = global[t]
    BY SetIs DEF IInv, Types
  <1>3. root' \in Int
    <2>1. global["root"] \in Int
      BY <1>1 DEF IInv, Types, RootHeld
    <2>2. CASE s = "root"
      BY <1>1, <2>2, Numbers, SetIs, StoredIs DEF IInv, Types
    <2>3. CASE s # "root"
      BY <1>1, <1>2, <2>1, <2>3, Numbers
    <2> QED BY <2>2, <2>3
  <1>4. Locations' = Locations /\ Locations \in Nat
    BY <1>1, StateNumbers DEF Locations, IInv
  <1>5. v \in Given
    BY DEF Given
  <1>6. /\ l \in Line /\ lines \in Seq(Line) /\ lines' = Append(lines, l)
        /\ lines' \in Seq(Line) /\ Len(lines') <= MaxLines
        /\ LinesBehind' /\ SettingsInForce' /\ PagesUnderOwnRoot'
        /\ NothingBound' /\ HostsGiven' /\ Binding' /\ Done'
        /\ Reading' /\ Number' = Number
        /\ \A m, t : Matches(l, Number, m, t) <=> m = 0 /\ t = s
    BY <1>1, <1>4, <1>5, Numbers, LineInd
  <1>a. l.value = v
    OBVIOUS
  <1> HIDE DEF l
  <1>7. Types'
    BY <1>1, <1>2, <1>3, <1>6 DEF IInv, Types
  <1>8. LocationsHeld'
    <2>1. \A m \in 1 .. Locations : \A t \in Setting : ~Matches(l, Number, m, t)
      BY <1>4, <1>6
    <2> QED BY <1>1, <1>4, <1>6, <2>1, HoldsKept DEF IInv, LocationsHeld
  <1>9. GlobalHeld'
    <2> SUFFICES ASSUME NEW t \in Setting
                 PROVE  Holds(lines', Number, 0, t, global'[t], Defaults[t])
      BY <1>6 DEF GlobalHeld
    <2>1. Holds(lines, Number, 0, t, global[t], Defaults[t])
      BY <1>1 DEF IInv, GlobalHeld
    <2>2. CASE t = s
      <3>1. s \in Many => Defaults[s] = <<>>
        BY FreshIs
      <3> QED BY <1>1, <1>2, <1>6, <1>a, <2>1, <2>2, <3>1, HoldsNext
    <2>3. CASE t # s
      <3>1. ~Matches(l, Number, 0, t) /\ global'[t] = global[t]
        BY <1>1, <1>2, <1>6, <2>3
      <3> QED BY <1>6, <2>1, <3>1, HoldsKept
    <2> QED BY <2>2, <2>3
  <1>10. RootHeld'
    <2>1. server.page = PageRoot(lines, Number)
      BY <1>1 DEF IInv, RootHeld
    <2>2. ~Matches(l, Number, 0, "error_page")
      BY <1>6, Numbers
    <2> QED BY <1>1, <1>6, <2>1, <2>2, PageKept DEF RootHeld
  <1> QED BY <1>1, <1>6, <1>7, <1>8, <1>9, <1>10 DEF IInv, LocationHeld

LEMMA OpenLocationInd == ASSUME IInv, OpenLocation PROVE IInv'
  <1>1. /\ level = "server" /\ level' = "location" /\ location' = Fresh /\ Reading /\ Reading'
        /\ UNCHANGED <<root, server, global, blocks, next, sockets, lines>>
        /\ Types /\ LinesBehind
    BY DEF OpenLocation, Reading, IInv
  <1>2. Number' = Number /\ Locations' = Locations /\ Locations \in Nat
    BY <1>1, StateNumbers DEF Number, Locations
  <1>3. Types'
    BY <1>1, FreshIs DEF Types
  <1>4. LinesBehind'
    BY <1>1, <1>2 DEF LinesBehind
  <1>5. LocationHeld'
    <2>1. \A s : LinesOf(lines, Number, Locations + 1, s) = {}
      BY <1>1, NothingSaid
    <2> QED BY <1>1, <1>2, <2>1, FreshIs DEF LocationHeld, Holds
  <1>6. GlobalHeld' /\ LocationsHeld' /\ RootHeld'
    BY <1>1, <1>2 DEF IInv, GlobalHeld, LocationsHeld, RootHeld
  <1>7. SettingsInForce' /\ PagesUnderOwnRoot' /\ NothingBound' /\ HostsGiven' /\ Binding' /\ Done'
    BY <1>1 DEF IInv, SettingsInForce, PagesUnderOwnRoot, NothingBound, HostsGiven, Binding, Done
  <1> QED BY <1>3, <1>4, <1>5, <1>6, <1>7 DEF IInv

LEMMA LocationSettingInd ==
  ASSUME IInv, NEW s \in Setting, NEW v \in Value(s), LocationSetting(s, v) PROVE IInv'
  <1> DEFINE k == Locations + 1
             l == [server |-> Number, location |-> k, what |-> s, value |-> v]
  <1>1. /\ level = "location" /\ Reads(k, s, v) /\ Reading
        /\ location' = Set(location, s, v)
        /\ UNCHANGED <<level, root, server, global, blocks, next, sockets>>
    BY DEF LocationSetting, Reading, Locations
  <1>2. /\ location \in Settings /\ Set(location, s, v) \in Settings
        /\ \A t \in Setting \ {s} : Set(location, s, v)[t] = location[t]
    BY SetIs DEF IInv, Types
  <1>4. Locations' = Locations /\ Locations \in Nat /\ k \in Nat /\ k > Locations
    BY <1>1, StateNumbers DEF Locations, IInv
  <1>5. v \in Given
    BY DEF Given
  <1>6. /\ l \in Line /\ lines \in Seq(Line) /\ lines' = Append(lines, l)
        /\ lines' \in Seq(Line) /\ Len(lines') <= MaxLines
        /\ LinesBehind' /\ SettingsInForce' /\ PagesUnderOwnRoot'
        /\ NothingBound' /\ HostsGiven' /\ Binding' /\ Done'
        /\ Reading' /\ Number' = Number
        /\ \A m, t : Matches(l, Number, m, t) <=> m = k /\ t = s
    BY <1>1, <1>4, <1>5, Numbers, LineInd
  <1>a. l.value = v
    OBVIOUS
  <1> HIDE DEF l
  <1>7. Types'
    BY <1>1, <1>2, <1>6 DEF IInv, Types
  <1>b. \A m \in 0 .. Locations : \A t : ~Matches(l, Number, m, t)
    BY <1>4, <1>6
  <1>c. 0 \in 0 .. Locations /\ 1 .. Locations \subseteq 0 .. Locations
    BY <1>4
  <1> HIDE DEF k
  <1>8. LocationsHeld' /\ GlobalHeld'
    BY <1>1, <1>4, <1>6, <1>b, <1>c, HoldsKept DEF IInv, LocationsHeld, GlobalHeld
  <1>9. LocationHeld'
    <2> SUFFICES ASSUME NEW t \in Setting
                 PROVE  Holds(lines', Number, k, t, location'[t], Unset(t))
      BY <1>4, <1>6 DEF LocationHeld, k
    <2>1. Holds(lines, Number, k, t, location[t], Unset(t))
      BY <1>1 DEF IInv, LocationHeld, k
    <2>2. CASE t = s
      <3>1. s \in Many => Unset(s) = <<>>
        BY FreshIs
      <3> QED BY <1>1, <1>2, <1>6, <1>a, <2>1, <2>2, <3>1, HoldsNext
    <2>3. CASE t # s
      <3>1. ~Matches(l, Number, k, t) /\ location'[t] = location[t]
        BY <1>1, <1>2, <1>6, <2>3
      <3> QED BY <1>6, <2>1, <3>1, HoldsKept
    <2> QED BY <2>2, <2>3
  <1>10. RootHeld'
    <2>1. server.page = PageRoot(lines, Number) /\ root = global["root"]
      BY <1>1 DEF IInv, RootHeld
    <2> QED BY <1>1, <1>6, <1>b, <1>c, <2>1, PageKept DEF RootHeld
  <1> QED BY <1>1, <1>6, <1>7, <1>8, <1>9, <1>10 DEF IInv

LEMMA CloseLocationInd == ASSUME IInv, CloseLocation PROVE IInv'
  <1> DEFINE m == Locations + 1
  <1>1. /\ level = "location" /\ level' = "server" /\ Reading /\ Reading' /\ Types
        /\ server' = [server EXCEPT !.locations = Append(@, location)]
        /\ UNCHANGED <<root, global, location, blocks, next, sockets, lines>>
    BY DEF CloseLocation, Reading, IInv
  <1>2. /\ server'.locations = Append(server.locations, location) /\ server'.page = server.page
        /\ server' \in Server /\ location \in Settings /\ server.locations \in Seq(Settings)
    <2>1. server \in Server /\ location \in Settings /\ server.locations \in Seq(Settings)
      BY <1>1, StateNumbers DEF Types
    <2>2. Append(server.locations, location) \in Seq(Settings)
      BY <2>1
    <2> QED BY <1>1, <2>1, <2>2 DEF Server
  <1>3. /\ Number' = Number /\ Locations \in Nat /\ Locations' = m
        /\ \A k \in 1 .. Locations : server'.locations[k] = server.locations[k]
        /\ server'.locations[m] = location
    BY <1>1, <1>2, StateNumbers, AppendIs DEF Number, Locations
  <1>4. Types'
    BY <1>1, <1>2 DEF Types
  <1>5. LinesBehind'
    <2> SUFFICES ASSUME NEW j \in DOMAIN lines
                 PROVE  /\ lines[j].server <= Number
                        /\ lines[j].server = Number =>
                             lines[j].location <= m /\ lines[j].location <= m + 1
      BY <1>1, <1>3 DEF LinesBehind
    <2>1. lines[j].location \in Nat
      BY StateNumbers, <1>1 DEF Line
    <2> QED BY <1>1, <1>3, <2>1 DEF IInv, LinesBehind
  <1>6. LocationsHeld'
    <2> SUFFICES ASSUME NEW k \in 1 .. m, NEW s \in Setting
                 PROVE  Holds(lines, Number, k, s, server'.locations[k][s], Unset(s))
      BY <1>1, <1>3 DEF LocationsHeld
    <2>1. CASE k \in 1 .. Locations
      BY <1>1, <1>3, <2>1 DEF IInv, LocationsHeld
    <2>2. CASE k = m
      BY <1>1, <1>3, <2>2 DEF IInv, LocationHeld
    <2> QED BY <1>3, <2>1, <2>2
  <1>7. GlobalHeld' /\ RootHeld' /\ LocationHeld'
    BY <1>1, <1>2, <1>3 DEF IInv, GlobalHeld, RootHeld, LocationHeld
  <1>8. SettingsInForce' /\ PagesUnderOwnRoot' /\ NothingBound' /\ HostsGiven' /\ Binding' /\ Done'
    BY <1>1 DEF IInv, SettingsInForce, PagesUnderOwnRoot, NothingBound, HostsGiven, Binding, Done
  <1> QED BY <1>4, <1>5, <1>6, <1>7, <1>8 DEF IInv

(* fill() takes what a location lacks from its server.                     *)
LEMMA FilledIs ==
  ASSUME Types, NEW own \in Settings
  PROVE  Filled(own) \in Settings
  <1>1. /\ global \in [Setting -> Datum] /\ own \in [Setting -> Datum]
        /\ \A s \in Many : global[s] \in Seq(Given) /\ own[s] \in Seq(Given)
        /\ global["limit"] \in Limit /\ own["limit"] \in Limit
    BY DEF Types, Settings
  <1>2. <<DefaultIndex>> \in Seq(Given) /\ <<DefaultIndex>> \in Datum
    BY DEF Given, Datum
  <1>3. \A s \in Setting : /\ Inherited(s) \in Datum
                           /\ s \in Many => Inherited(s) \in Seq(Given)
    BY <1>1, <1>2 DEF Inherited
  <1>4. Inherited("limit") \in Limit
    BY <1>1 DEF Inherited
  <1>5. Filled(own) \in [Setting -> Datum] /\ Filled(own)["limit"] \in Limit
    BY <1>1, <1>3, <1>4, Numbers DEF Filled
  <1>6. \A s \in Many : Filled(own)[s] \in Seq(Given)
    BY <1>1, <1>3 DEF Filled, Setting
  <1> QED BY <1>5, <1>6 DEF Settings

LEMMA FilledInForce ==
  ASSUME IInv, Reading, NEW k \in 1 .. Locations, NEW s \in Setting
  PROVE  InForce(lines, Number, k, s, Filled(server.locations[k])[s])
  <1> DEFINE L == LinesOf(lines, Number, k, s)
             S == LinesOf(lines, Number, 0, s)
             own == server.locations[k][s]
             v == Filled(server.locations[k])[s]
  <1>1. /\ IF L = {} THEN own = Unset(s) ELSE Says(lines, L, s, own)
        /\ IF S = {} THEN global[s] = Defaults[s] ELSE Says(lines, S, s, global[s])
        /\ lines \in Seq(Line) /\ S \in SUBSET (DOMAIN lines)
    BY DEF IInv, Types, LocationsHeld, GlobalHeld, Holds, LinesOf
  <1>2. v = IF own = Unset(s) THEN Inherited(s) ELSE own
    BY DEF Filled
  <1>3. L # {} => (Says(lines, L, s, Unset(s)) <=> own = Unset(s))
    <2>1. CASE s \in Many
      <3>1. L # {} => /\ IsFiniteSet(L) /\ Cardinality(L) # 0 /\ Unset(s) = <<>>
                      /\ L \in SUBSET (DOMAIN lines)
        BY <1>1, <2>1, LinesIn, FreshIs, FS_EmptySet DEF LinesOf
      <3>2. \A x : L # {} /\ Says(lines, L, s, x) => Len(x) = Cardinality(L)
        BY <2>1 DEF Says
      <3>3. Len(<<>>) = 0
        OBVIOUS
      <3> HIDE DEF L, own
      <3>4. L # {} => ~Says(lines, L, s, Unset(s))
        BY <3>1, <3>2, <3>3
      <3> QED BY <1>1, <3>4
    <2>2. CASE s \notin Many
      BY <1>1, <2>2 DEF Says
    <2> QED BY <2>1, <2>2
  <1>4. IF S = {} THEN Inherited(s) = IF s = "index" THEN <<DefaultIndex>> ELSE Defaults[s]
        ELSE Says(lines, S, s, Inherited(s))
    <2>1. CASE S = {}
      BY <1>1, <2>1, FreshIs DEF Inherited
    <2>2. CASE S # {}
      <3>1. s = "index" => global[s] # <<>>
        <4>1. IsFiniteSet(S) /\ Cardinality(S) # 0
          BY <1>1, <2>2, LinesIn, FS_EmptySet
        <4>2. s = "index" => Len(global[s]) = Cardinality(S)
          BY <1>1, <2>2, Numbers DEF Says
        <4> QED BY <4>1, <4>2
      <3> QED BY <1>1, <2>2, <3>1 DEF Inherited
    <2> QED BY <2>1, <2>2
  <1> HIDE DEF L, S, own, v
  <1>5. InForce(lines, Number, k, s, v) <=>
           IF L = {} \/ Says(lines, L, s, Unset(s))
           THEN \/ Says(lines, S, s, v)
                \/ S = {} /\ v = IF s = "index" THEN <<DefaultIndex>> ELSE Defaults[s]
           ELSE Says(lines, L, s, v)
    BY DEF InForce, L, S
  <1> QED BY <1>1, <1>2, <1>3, <1>4, <1>5 DEF v

LEMMA CloseServerInd == ASSUME IInv, CloseServer PROVE IInv'
  <1> DEFINE hosts == IF server.hosts = <<>> THEN <<DefaultPort>> ELSE server.hosts
             places == [k \in DOMAIN server.locations |-> Filled(server.locations[k])]
             b == [[server EXCEPT !.hosts = hosts] EXCEPT !.locations = places]
  <1>1. /\ level = "server" /\ level' = "top" /\ Reading /\ ~Reading' /\ Types
        /\ blocks' = Append(blocks, b)
        /\ UNCHANGED <<root, server, global, location, next, sockets, lines>>
    BY DEF CloseServer, Reading, IInv, parser
  <1>2. /\ server \in Server /\ server.hosts \in Seq(0 .. PortRange - 1)
        /\ server.locations \in Seq(Settings) /\ DOMAIN server.locations = 1 .. Locations
        /\ Locations \in Nat /\ blocks \in Seq(Server) /\ Len(blocks) \in Nat
        /\ DOMAIN blocks = 1 .. Len(blocks) /\ lines \in Seq(Line)
    BY <1>1, StateNumbers
  <1>3. hosts \in Seq(0 .. PortRange - 1) /\ hosts # <<>>
    <2> DEFINE T == 0 .. PortRange - 1
    <2>1. DefaultPort \in T
      BY ConfigurationAssumption
    <2>2. server.hosts \in Seq(T)
      BY <1>2
    <2> HIDE DEF T
    <2>3. <<DefaultPort>> \in Seq(T) /\ <<DefaultPort>> # <<>>
      BY <2>1
    <2>4. hosts \in Seq(T) /\ hosts # <<>>
      BY <2>2, <2>3
    <2> QED BY <2>4 DEF T
  <1>4. places \in Seq(Settings) /\ DOMAIN places = 1 .. Locations
        /\ \A k \in 1 .. Locations : places[k] = Filled(server.locations[k])
    <2>1. \A k \in 1 .. Locations : Filled(server.locations[k]) \in Settings
      BY <1>1, <1>2, FilledIs
    <2> QED BY <1>2, <2>1
  <1> HIDE DEF hosts, places
  <1>5. /\ b \in Server /\ b.hosts = hosts /\ b.locations = places /\ b.page = server.page
    BY <1>2, <1>3, <1>4 DEF Server
  <1> HIDE DEF b
  <1>6. /\ blocks' \in Seq(Server) /\ Number' = Number + 1 /\ DOMAIN blocks' = 1 .. Number
        /\ blocks'[Number] = b /\ \A n \in 1 .. Len(blocks) : blocks'[n] = blocks[n]
    BY <1>1, <1>2, <1>5, AppendIs DEF Number
  <1>7. Types'
    BY <1>1, <1>6 DEF Types
  <1>8. LinesBehind'
    <2> SUFFICES ASSUME NEW j \in DOMAIN lines
                 PROVE  lines[j].server <= Number + 1 /\ lines[j].server # Number + 1
      BY <1>1, <1>6 DEF LinesBehind
    <2>1. lines[j].server \in Nat /\ lines[j].server <= Number /\ Number \in Nat
      BY <1>2 DEF IInv, LinesBehind, Line, Number
    <2> QED BY <2>1
  <1>9. SettingsInForce'
    <2> SUFFICES ASSUME NEW n \in 1 .. Number, NEW k \in DOMAIN blocks'[n].locations,
                        NEW s \in Setting
                 PROVE  InForce(lines, n, k, s, blocks'[n].locations[k][s])
      BY <1>1, <1>6 DEF SettingsInForce
    <2>1. CASE n \in 1 .. Len(blocks)
      BY <1>2, <1>6, <2>1 DEF IInv, SettingsInForce
    <2>2. CASE n = Number
      <3>1. k \in 1 .. Locations /\ blocks'[n].locations[k] = Filled(server.locations[k])
        BY <1>4, <1>5, <1>6, <2>2
      <3> QED BY <1>1, <2>2, <3>1, FilledInForce
    <2> QED BY <1>2, <2>1, <2>2 DEF Number
  <1>10. PagesUnderOwnRoot'
    <2> SUFFICES ASSUME NEW n \in 1 .. Number PROVE blocks'[n].page = PageRoot(lines, n)
      BY <1>1, <1>6 DEF PagesUnderOwnRoot
    <2>1. CASE n \in 1 .. Len(blocks)
      BY <1>2, <1>6, <2>1 DEF IInv, PagesUnderOwnRoot
    <2>2. CASE n = Number
      BY <1>1, <1>5, <1>6, <2>2 DEF IInv, RootHeld
    <2> QED BY <1>2, <2>1, <2>2 DEF Number
  <1>11. HostsGiven'
    <2> SUFFICES ASSUME NEW n \in 1 .. Number PROVE blocks'[n].hosts # <<>>
      BY <1>6 DEF HostsGiven
    <2>1. CASE n \in 1 .. Len(blocks)
      BY <1>2, <1>6, <2>1 DEF IInv, HostsGiven
    <2>2. CASE n = Number
      BY <1>3, <1>5, <1>6, <2>2
    <2> QED BY <1>2, <2>1, <2>2 DEF Number
  <1>12. GlobalHeld' /\ LocationsHeld' /\ LocationHeld' /\ RootHeld' /\ NothingBound' /\ Binding' /\ Done'
    BY <1>1 DEF IInv, GlobalHeld, LocationsHeld, LocationHeld, RootHeld, NothingBound, Binding, Done
  <1> QED BY <1>7, <1>8, <1>9, <1>10, <1>11, <1>12 DEF IInv

-----------------------------------------------------------------------------
(* The sockets. *)

(* What the parser has made stays as it is while the sockets are made.     *)
LEMMA TablesKept ==
  ASSUME IInv, ~Reading, ~Reading', UNCHANGED <<parser, blocks, lines>>
  PROVE  /\ LinesBehind' /\ GlobalHeld' /\ LocationsHeld' /\ RootHeld'
         /\ SettingsInForce' /\ PagesUnderOwnRoot' /\ HostsGiven' /\ LocationHeld'
  <1>1. Number' = Number /\ Locations' = Locations
    BY DEF Number, Locations, parser
  <1>2. LinesBehind'
    BY <1>1 DEF IInv, LinesBehind
  <1> QED BY <1>2 DEF IInv, GlobalHeld, LocationsHeld, LocationHeld, RootHeld, SettingsInForce,
             PagesUnderOwnRoot, HostsGiven, Reading

LEMMA EndOfFileInd == ASSUME IInv, EndOfFile PROVE IInv'
  <1>1. CASE level' = "refused" /\ Nothing
    BY <1>1, NothingInd
  <1>2. CASE /\ level = "top" /\ blocks # <<>> /\ level' = "bind"
             /\ UNCHANGED <<parser, blocks, next, sockets, lines>>
    <2>1. sockets = <<>> /\ next = <<1, 1>> /\ blocks \in Seq(Server) /\ Types
      BY <1>2 DEF IInv, NothingBound, Types
    <2>2. Types'
      BY <1>2, <2>1 DEF Types, parser
    <2>3. 1 \in DOMAIN blocks /\ 1 \in DOMAIN blocks[1].hosts
      <3>1. Len(blocks) \in Nat /\ DOMAIN blocks = 1 .. Len(blocks) /\ Len(blocks) # 0
        BY <1>2, <2>1
      <3>2. blocks[1].hosts \in Seq(0 .. PortRange - 1) /\ blocks[1].hosts # <<>>
        BY <2>1, <3>1, StateNumbers DEF IInv, HostsGiven
      <3>3. Len(blocks[1].hosts) \in Nat /\ DOMAIN blocks[1].hosts = 1 .. Len(blocks[1].hosts)
            /\ Len(blocks[1].hosts) # 0
        BY <3>2
      <3> QED BY <3>1, <3>3
    <2>4. NextSound'
      BY <1>2, <2>1, <2>3 DEF NextSound
    <2>5. AllBound'
      <3>1. \A n \in DOMAIN blocks : n \in Nat /\ \A i \in DOMAIN blocks[n].hosts : i \in Nat
                                     /\ n >= 1 /\ i >= 1
        BY <2>1, StateNumbers
      <3> QED BY <1>2, <2>1, <3>1 DEF AllBound, Behind
    <2>6. OneSocket' /\ OnlyTheirs' /\ InOrder'
      BY <1>2, <2>1 DEF OneSocket, OnlyTheirs, InOrder
    <2>7. ~Reading /\ ~Reading'
      BY <1>2 DEF Reading
    <2> QED BY <1>2, <2>2, <2>4, <2>5, <2>6, <2>7, TablesKept DEF IInv, Binding, NothingBound, Done
  <1> QED BY <1>1, <1>2 DEF EndOfFile, Refused

LEMMA ConfiguredInd == ASSUME IInv, Configured PROVE IInv'
  <1>1. /\ level = "bind" /\ level' = "running" /\ next[1] > Len(blocks)
        /\ UNCHANGED <<parser, blocks, next, sockets, lines>> /\ ~Reading /\ ~Reading' /\ Types
    BY DEF Configured, Reading, IInv
  <1>2. Types'
    BY <1>1 DEF Types, parser
  <1>3. Binding'
    BY <1>1 DEF IInv, Binding, NextSound, OneSocket, AllBound, OnlyTheirs, InOrder, Behind, Serves, Listens
  <1> QED BY <1>1, <1>2, <1>3, TablesKept DEF IInv, NothingBound, Done

(* What the next host does to the sockets: one of them, an old one or a    *)
(* new one, has the host and one more block, the last.                     *)
Gains(k, n, host) ==
    /\ k \in DOMAIN sockets' /\ sockets'[k].host = host /\ DOMAIN sockets \subseteq DOMAIN sockets'
    /\ sockets' \in Seq(Socket)
    /\ \A j \in DOMAIN sockets' : j # k => j \in DOMAIN sockets /\ sockets'[j] = sockets[j]
    /\ \/ k \in DOMAIN sockets /\ sockets[k].host = host /\ sockets'[k].blocks = Append(sockets[k].blocks, n)
       \/ /\ k \notin DOMAIN sockets /\ sockets'[k].blocks = <<n>>
          /\ \A j \in DOMAIN sockets : sockets[j].host # host

LEMMA SocketIs ==
  ASSUME NEW q \in Seq(Socket), NEW j \in DOMAIN q
  PROVE  q[j] \in Socket /\ q[j].blocks \in Seq(Nat)
  <1>1. q[j] \in Socket
    OBVIOUS
  <1>2. \A x \in Socket : x.blocks \in Seq(Nat)
    BY DEF Socket
  <1> QED BY <1>1, <1>2

LEMMA ExceptIs ==
  ASSUME NEW T, NEW q \in Seq(T), NEW k \in DOMAIN q, NEW c \in T
  PROVE  /\ [q EXCEPT ![k] = c] \in Seq(T) /\ DOMAIN [q EXCEPT ![k] = c] = DOMAIN q
         /\ [q EXCEPT ![k] = c][k] = c
         /\ \A j \in DOMAIN q : j # k => [q EXCEPT ![k] = c][j] = q[j]
  OBVIOUS

LEMMA GainsOne ==
  ASSUME sockets \in Seq(Socket), NEW n \in Nat, NEW host \in 0 .. PortRange - 1,
         \/ /\ Bound(host) = {} /\ sockets' = Append(sockets, [host |-> host, blocks |-> <<n>>])
         \/ \E k \in Bound(host) : sockets' = [sockets EXCEPT ![k].blocks = Append(@, n)]
  PROVE  \E k : Gains(k, n, host)
  <1> DEFINE new == [host |-> host, blocks |-> <<n>>]
  <1>1. new \in Socket /\ new.host = host /\ new.blocks = <<n>>
    BY DEF Socket
  <1>2. Len(sockets) \in Nat /\ DOMAIN sockets = 1 .. Len(sockets)
    OBVIOUS
  <1> HIDE DEF new
  <1>3. CASE Bound(host) = {} /\ sockets' = Append(sockets, new)
    <2> DEFINE k == Len(sockets) + 1
    <2>1. \A j \in DOMAIN sockets : sockets[j].host # host
      BY <1>3 DEF Bound
    <2>2. /\ sockets' \in Seq(Socket) /\ DOMAIN sockets' = 1 .. k /\ sockets'[k] = new
          /\ \A j \in 1 .. Len(sockets) : sockets'[j] = sockets[j]
      BY <1>1, <1>3, AppendIs
    <2>3. k \in 1 .. k /\ k \notin 1 .. Len(sockets)
          /\ \A j \in 1 .. k : j # k => j \in 1 .. Len(sockets)
      BY <1>2
    <2> HIDE DEF k
    <2>4. Gains(k, n, host)
      BY <1>1, <1>2, <2>1, <2>2, <2>3 DEF Gains
    <2> QED BY <2>4
  <1>4. ASSUME NEW k \in Bound(host), sockets' = [sockets EXCEPT ![k].blocks = Append(@, n)]
        PROVE  Gains(k, n, host)
    <2> DEFINE c == [sockets[k] EXCEPT !.blocks = Append(@, n)]
    <2>1. k \in DOMAIN sockets /\ sockets[k].host = host
      BY <1>4 DEF Bound
    <2>2. sockets[k] \in Socket /\ sockets[k].blocks \in Seq(Nat)
      BY <2>1, SocketIs
    <2>3. Append(sockets[k].blocks, n) \in Seq(Nat)
      BY <2>2
    <2>4. c \in Socket /\ c.host = host /\ c.blocks = Append(sockets[k].blocks, n)
      BY <2>1, <2>2, <2>3 DEF Socket
    <2>5. sockets' = [sockets EXCEPT ![k] = c]
      BY <1>4
    <2> HIDE DEF c
    <2>6. /\ sockets' \in Seq(Socket) /\ DOMAIN sockets' = DOMAIN sockets /\ sockets'[k] = c
          /\ \A j \in DOMAIN sockets : j # k => sockets'[j] = sockets[j]
      BY <2>1, <2>4, <2>5, ExceptIs
    <2> QED BY <2>1, <2>4, <2>6 DEF Gains
  <1> QED BY <1>3, <1>4 DEF new

LEMMA GainsServes ==
  ASSUME sockets \in Seq(Socket), NEW n \in Nat, NEW host, NEW k, Gains(k, n, host)
  PROVE  /\ \A j \in DOMAIN sockets : sockets'[j].host = sockets[j].host
         /\ \A j \in DOMAIN sockets : \A m : Serves(j, m) => Serves(j, m)'
         /\ Serves(k, n)'
         /\ \A j \in DOMAIN sockets' : \A b \in DOMAIN sockets'[j].blocks :
               \/ /\ j \in DOMAIN sockets /\ b \in DOMAIN sockets[j].blocks
                  /\ sockets'[j].blocks[b] = sockets[j].blocks[b]
               \/ /\ j = k /\ sockets'[j].blocks[b] = n
                  /\ b = Len(sockets'[j].blocks)
  <1>1. \A j \in DOMAIN sockets : sockets'[j].host = sockets[j].host
    BY DEF Gains
  <1>2. CASE k \in DOMAIN sockets /\ sockets'[k].blocks = Append(sockets[k].blocks, n)
    <2> DEFINE q == sockets[k].blocks
    <2>1. q \in Seq(Nat)
      BY <1>2, SocketIs
    <2> HIDE DEF q
    <2>2. /\ DOMAIN q = 1 .. Len(q) /\ DOMAIN Append(q, n) = 1 .. Len(q) + 1 /\ Len(q) \in Nat
          /\ Append(q, n)[Len(q) + 1] = n /\ Len(Append(q, n)) = Len(q) + 1
          /\ \A b \in 1 .. Len(q) : Append(q, n)[b] = q[b]
      BY <2>1, AppendIs
    <2>3. \A b \in DOMAIN Append(q, n) : b \in DOMAIN q \/ b = Len(q) + 1
      BY <2>2
    <2>4. \A b \in DOMAIN q : b \in DOMAIN Append(q, n)
      BY <2>2
    <2>5. Len(q) + 1 \in DOMAIN Append(q, n)
      BY <2>2
    <2>6. \A m : Serves(k, m) => Serves(k, m)'
      BY <1>2, <2>2, <2>4 DEF Serves, q
    <2>7. Serves(k, n)'
      BY <1>2, <2>2, <2>5 DEF Serves, q
    <2>8. \A j \in DOMAIN sockets : j # k => (\A m : Serves(j, m) => Serves(j, m)')
      BY DEF Serves, Gains
    <2>9. \A b \in DOMAIN sockets'[k].blocks :
               \/ b \in DOMAIN q /\ sockets'[k].blocks[b] = q[b]
               \/ sockets'[k].blocks[b] = n /\ b = Len(sockets'[k].blocks)
      BY <1>2, <2>2, <2>3 DEF q
    <2>10. \A j \in DOMAIN sockets' : j # k => j \in DOMAIN sockets /\ sockets'[j] = sockets[j]
      BY DEF Gains
    <2> QED BY <1>1, <1>2, <2>6, <2>7, <2>8, <2>9, <2>10 DEF q
  <1>3. CASE k \notin DOMAIN sockets /\ sockets'[k].blocks = <<n>>
    <2>1. Serves(k, n)'
      BY <1>3 DEF Serves
    <2>2. \A j \in DOMAIN sockets : \A m : Serves(j, m) => Serves(j, m)'
      BY <1>3 DEF Serves, Gains
    <2>3. /\ DOMAIN sockets'[k].blocks = 1 .. 1 /\ Len(sockets'[k].blocks) = 1
          /\ sockets'[k].blocks[1] = n
      BY <1>3
    <2>4. \A b \in DOMAIN sockets'[k].blocks : sockets'[k].blocks[b] = n /\ b = Len(sockets'[k].blocks)
      BY <2>3
    <2>5. \A j \in DOMAIN sockets' : j # k => j \in DOMAIN sockets /\ sockets'[j] = sockets[j]
      BY DEF Gains
    <2> QED BY <1>1, <2>1, <2>2, <2>4, <2>5
  <1> QED BY <1>2, <1>3 DEF Gains

LEMMA SeqIs ==
  ASSUME NEW T, NEW q \in Seq(T)
  PROVE  Len(q) \in Nat /\ DOMAIN q = 1 .. Len(q) /\ \A i \in DOMAIN q : q[i] \in T
  OBVIOUS

LEMMA BindHostAt ==
  ASSUME IInv, BindHost, NEW n, n = next[1], NEW i, i = next[2],
         NEW hosts, hosts = blocks[n].hosts, NEW host, host = hosts[i]
  PROVE  IInv'
  <1>1. /\ level = "bind" /\ level' = "bind" /\ n <= Len(blocks) /\ ~Reading /\ ~Reading' /\ Types
        /\ \/ Bound(host) = {} /\ sockets' = Append(sockets, [host |-> host, blocks |-> <<n>>])
           \/ \E k \in Bound(host) : sockets' = [sockets EXCEPT ![k].blocks = Append(@, n)]
        /\ next' = IF i < Len(hosts) THEN <<n, i + 1>> ELSE <<n + 1, 1>>
        /\ UNCHANGED <<level, parser, blocks, lines>>
    BY DEF BindHost, Reading, IInv
  <1>2. /\ n \in Nat \ {0} /\ i \in Nat \ {0} /\ sockets \in Seq(Socket)
        /\ Len(blocks) \in Nat /\ DOMAIN blocks = 1 .. Len(blocks) /\ n \in DOMAIN blocks
    <2>1. next \in (Nat \ {0}) \X (Nat \ {0}) /\ sockets \in Seq(Socket)
      BY <1>1 DEF Types
    <2>2. n \in Nat \ {0} /\ i \in Nat \ {0}
      BY <2>1
    <2>3. Len(blocks) \in Nat /\ DOMAIN blocks = 1 .. Len(blocks)
      BY <1>1, StateNumbers
    <2> QED BY <1>1, <2>1, <2>2, <2>3
  <1>3. /\ NextSound /\ OneSocket /\ AllBound /\ OnlyTheirs /\ InOrder
    BY <1>1 DEF IInv, Binding
  <1>4. /\ i \in DOMAIN hosts /\ hosts \in Seq(0 .. PortRange - 1) /\ host \in 0 .. PortRange - 1
        /\ Len(hosts) \in Nat /\ DOMAIN hosts = 1 .. Len(hosts)
    <2>1. i \in DOMAIN hosts
      BY <1>1, <1>3 DEF NextSound
    <2>2. hosts \in Seq(0 .. PortRange - 1)
      BY <1>1, <1>2, StateNumbers
    <2> QED BY <2>1, <2>2, SeqIs
  <1>b. n \in Nat
    BY <1>2
  <1>a. \A m \in DOMAIN blocks : /\ m \in Nat /\ Len(blocks[m].hosts) \in Nat /\ Len(blocks[m].hosts) # 0
                                 /\ DOMAIN blocks[m].hosts = 1 .. Len(blocks[m].hosts)
    <2> SUFFICES ASSUME NEW m \in DOMAIN blocks
                 PROVE  /\ m \in Nat /\ Len(blocks[m].hosts) \in Nat /\ Len(blocks[m].hosts) # 0
                        /\ DOMAIN blocks[m].hosts = 1 .. Len(blocks[m].hosts)
      OBVIOUS
    <2>1. blocks[m].hosts \in Seq(0 .. PortRange - 1) /\ blocks[m].hosts # <<>>
      BY <1>1, StateNumbers DEF IInv, HostsGiven
    <2> QED BY <1>2, <2>1
  <1>5. PICK k : Gains(k, n, host)
    BY <1>1, <1>2, <1>b, <1>4, GainsOne
  <1>6. /\ \A j \in DOMAIN sockets : sockets'[j].host = sockets[j].host
        /\ \A j \in DOMAIN sockets : \A m : Serves(j, m) => Serves(j, m)'
        /\ Serves(k, n)'
        /\ \A j \in DOMAIN sockets' : \A b \in DOMAIN sockets'[j].blocks :
              \/ /\ j \in DOMAIN sockets /\ b \in DOMAIN sockets[j].blocks
                 /\ sockets'[j].blocks[b] = sockets[j].blocks[b]
              \/ /\ j = k /\ sockets'[j].blocks[b] = n
                 /\ b = Len(sockets'[j].blocks)
    BY <1>2, <1>5, <1>b, GainsServes
  <1>7. next' \in (Nat \ {0}) \X (Nat \ {0}) /\ n <= next'[1]
    BY SMTT(30), <1>1, <1>2
  <1>8. Types'
    BY <1>1, <1>5, <1>7 DEF Types, parser, Gains
  <1>9. NextSound'
    <2>1. CASE i < Len(hosts)
      <3>1. next'[1] = n /\ next'[2] = i + 1 /\ i + 1 \in DOMAIN hosts
        BY <1>1, <1>2, <1>4, <2>1
      <3> QED BY <1>1, <3>1 DEF NextSound
    <2>2. CASE ~(i < Len(hosts))
      <3>1. next'[1] = n + 1 /\ next'[2] = 1
        BY <1>1, <2>2
      <3>2. n + 1 <= Len(blocks) => 1 \in DOMAIN blocks[n + 1].hosts
        BY <1>2, <1>a
      <3> QED BY <1>1, <3>1, <3>2 DEF NextSound
    <2> QED BY <2>1, <2>2
  <1>10. OneSocket'
    BY <1>3, <1>5 DEF OneSocket, Gains
  <1>11. ASSUME NEW m \in DOMAIN blocks, NEW x \in DOMAIN blocks[m].hosts, Behind(m, x)'
         PROVE  Behind(m, x) \/ (m = n /\ x = i)
    <2>1. m \in Nat /\ x \in Nat \ {0} /\ (m = n => x <= Len(hosts))
      BY <1>a
    <2>2. m < next'[1] \/ (m = next'[1] /\ x < next'[2])
      BY <1>11 DEF Behind
    <2>3. CASE i < Len(hosts)
      <3>1. next'[1] = n /\ next'[2] = i + 1
        BY <1>1, <2>3
      <3> QED BY <1>2, <2>1, <2>2, <3>1 DEF Behind
    <2>4. CASE ~(i < Len(hosts))
      <3>1. next'[1] = n + 1 /\ next'[2] = 1
        BY <1>1, <2>4
      <3>2. m < n \/ (m = n /\ x <= i)
        BY <1>2, <1>4, <2>1, <2>2, <2>4, <3>1
      <3> QED BY <1>2, <2>1, <3>2 DEF Behind
    <2> QED BY <2>3, <2>4
  <1>12. AllBound'
    <2> SUFFICES ASSUME NEW m \in DOMAIN blocks, NEW x \in DOMAIN blocks[m].hosts, Behind(m, x)'
                 PROVE  \E j \in DOMAIN sockets' : sockets'[j].host = blocks[m].hosts[x] /\ Serves(j, m)'
      BY <1>1 DEF AllBound
    <2>1. CASE Behind(m, x)
      <3>1. PICK j \in DOMAIN sockets : sockets[j].host = blocks[m].hosts[x] /\ Serves(j, m)
        BY <1>3, <2>1 DEF AllBound
      <3>2. j \in DOMAIN sockets' /\ sockets'[j].host = blocks[m].hosts[x] /\ Serves(j, m)'
        BY <1>5, <1>6, <3>1 DEF Gains
      <3> QED BY <3>2
    <2>2. CASE m = n /\ x = i
      <3>1. k \in DOMAIN sockets' /\ sockets'[k].host = host
        BY <1>5 DEF Gains
      <3>2. host = blocks[m].hosts[x]
        BY <2>2
      <3> QED BY <1>6, <2>2, <3>1, <3>2
    <2> QED BY <1>11, <2>1, <2>2
  <1>13. OnlyTheirs'
    <2> SUFFICES ASSUME NEW j \in DOMAIN sockets', NEW b \in DOMAIN sockets'[j].blocks
                 PROVE  /\ sockets'[j].blocks[b] \in DOMAIN blocks /\ sockets'[j].blocks[b] <= next'[1]
                        /\ Listens(sockets'[j].blocks[b], sockets'[j].host)
      BY <1>1 DEF OnlyTheirs, Listens
    <2>1. CASE /\ j \in DOMAIN sockets /\ b \in DOMAIN sockets[j].blocks
               /\ sockets'[j].blocks[b] = sockets[j].blocks[b]
      <3>1. /\ sockets[j].blocks[b] \in DOMAIN blocks /\ sockets[j].blocks[b] <= n
            /\ Listens(sockets[j].blocks[b], sockets[j].host)
        BY <1>3, <2>1 DEF OnlyTheirs
      <3>2. next'[1] \in Nat /\ sockets[j].blocks[b] \in Nat
        BY <1>7, <1>a, <3>1
      <3> QED BY <1>2, <1>6, <1>7, <2>1, <3>1, <3>2
    <2>2. CASE j = k /\ sockets'[j].blocks[b] = n
      <3>1. Listens(n, host)
        BY <1>4 DEF Listens
      <3> QED BY <1>2, <1>5, <1>7, <2>2, <3>1 DEF Gains
    <2> QED BY <1>6, <2>1, <2>2
  <1>14. InOrder'
    <2> SUFFICES ASSUME NEW j \in DOMAIN sockets', NEW x \in 1 .. Len(sockets'[j].blocks) - 1
                 PROVE  sockets'[j].blocks[x] <= sockets'[j].blocks[x + 1]
      BY DEF InOrder
    <2> DEFINE q == sockets'[j].blocks
    <2>1. q \in Seq(Nat)
      BY <1>5, SocketIs DEF Gains
    <2>2. /\ Len(q) \in Nat /\ DOMAIN q = 1 .. Len(q)
          /\ x \in DOMAIN q /\ x + 1 \in DOMAIN q /\ x # Len(q) /\ x \in Nat
          /\ q[x] \in Nat /\ q[x + 1] \in Nat
      BY <2>1
    <2>3. j \in DOMAIN sockets /\ x \in DOMAIN sockets[j].blocks /\ q[x] = sockets[j].blocks[x]
      BY <1>6, <2>2
    <2>4. CASE q[x + 1] = n
      BY <1>3, <2>3, <2>4 DEF OnlyTheirs
    <2>5. CASE x + 1 \in DOMAIN sockets[j].blocks /\ q[x + 1] = sockets[j].blocks[x + 1]
      <3>1. sockets[j].blocks \in Seq(Nat)
        BY <1>2, <2>3, SocketIs
      <3>2. x \in 1 .. Len(sockets[j].blocks) - 1
        BY <2>2, <2>5, <3>1
      <3> QED BY <1>3, <2>3, <2>5, <3>2 DEF InOrder
    <2> QED BY <1>6, <2>2, <2>4, <2>5
  <1> QED BY <1>1, <1>8, <1>9, <1>10, <1>12, <1>13, <1>14, TablesKept
         DEF IInv, Binding, NothingBound, Done

LEMMA BindHostInd == ASSUME IInv, BindHost PROVE IInv'
  BY BindHostAt

-----------------------------------------------------------------------------
(* The theorems. *)

LEMMA StutterInd == ASSUME IInv, UNCHANGED vars PROVE IInv'
  <1>1. UNCHANGED <<level, root, server, global, location, blocks, next, sockets, lines>>
    BY DEF vars, parser
  <1>2. Types' /\ LinesBehind' /\ GlobalHeld' /\ LocationsHeld' /\ LocationHeld' /\ RootHeld'
    BY <1>1 DEF IInv, Types, LinesBehind, GlobalHeld, LocationsHeld, LocationHeld, RootHeld, Reading,
       Number, Locations
  <1>3. /\ SettingsInForce' /\ PagesUnderOwnRoot' /\ NothingBound' /\ HostsGiven' /\ Binding' /\ Done'
    BY <1>1 DEF IInv, SettingsInForce, PagesUnderOwnRoot, NothingBound, HostsGiven, Binding, Done,
       NextSound, OneSocket, AllBound, OnlyTheirs, InOrder, Behind, Serves, Listens
  <1> QED BY <1>2, <1>3 DEF IInv

LEMMA NextInd == ASSUME IInv, [Next]_vars PROVE IInv'
  <1>1. CASE OpenServer
    BY <1>1, OpenServerInd
  <1>2. CASE OpenLocation
    BY <1>2, OpenLocationInd
  <1>3. CASE CloseLocation
    BY <1>3, CloseLocationInd
  <1>4. CASE CloseServer
    BY <1>4, CloseServerInd
  <1>5. CASE ErrorPage
    BY <1>5, ErrorPageInd
  <1>6. CASE \E port \in Ports : Listen(port)
    BY <1>6, ListenInd
  <1>7. ASSUME NEW s \in Setting, NEW v \in Value(s), GlobalSetting(s, v) \/ LocationSetting(s, v)
        PROVE  IInv'
    BY <1>7, GlobalSettingInd, LocationSettingInd
  <1>8. CASE Malformed
    BY <1>8, NothingInd DEF Malformed, Refused
  <1>9. CASE EndOfFile
    BY <1>9, EndOfFileInd
  <1>10. CASE BindHost
    BY <1>10, BindHostInd
  <1>11. CASE BindFails
    BY <1>11, NothingInd DEF BindFails, Restarted
  <1>12. CASE Configured
    BY <1>12, ConfiguredInd
  <1>13. CASE UNCHANGED vars
    BY <1>13, StutterInd
  <1> QED BY <1>1, <1>2, <1>3, <1>4, <1>5, <1>6, <1>7, <1>8, <1>9, <1>10, <1>11, <1>12, <1>13 DEF Next

(* The tables always are what the lines read so far make of them.          *)
THEOREM IInvHolds == Spec => []IInv
  <1>1. Init => IInv
    BY InitInd DEF Init
  <1>2. IInv /\ [Next]_vars => IInv'
    BY NextInd
  <1> QED BY <1>1, <1>2, PTL DEF Spec

(* Type correctness: a limit is a signed number of its width wherever it   *)
(* came from, a socket's port keeps the low bits of what listen gave.      *)
THEOREM ConfigurationTypeCorrect == Spec => []TypeOK
  <1>1. IInv => TypeOK
    <2> SUFFICES ASSUME IInv PROVE TypeOK
      OBVIOUS
    <2>1. Types /\ sockets \in Seq(Socket)
      BY DEF IInv, Types
    <2>2. ASSUME NEW n \in 1 .. Len(blocks), NEW k \in 1 .. Len(blocks[n].locations)
          PROVE  blocks[n].locations[k]["limit"] \in -Half .. Half - 1
      <3>1. blocks[n].locations \in Seq(Settings)
        BY <2>1, StateNumbers
      <3>2. blocks[n].locations[k] \in Settings
        BY <3>1
      <3> QED BY <3>2 DEF Settings, Limit
    <2>3. ASSUME NEW n \in 1 .. Len(sockets) PROVE sockets[n].host \in 0 .. PortRange - 1
      <3>1. sockets[n] \in Socket
        BY <2>1
      <3> QED BY <3>1 DEF Socket
    <2> QED BY <2>1, <2>2, <2>3 DEF Types, TypeOK
  <1> QED BY <1>1, IInvHolds, PTL

(* LocationBlock::fill, however the lines of a server are ordered: what a  *)
(* location says of itself, else what its server says, else the default.   *)
THEOREM SettingsAlwaysInForce == Spec => []SettingsInForce
  <1>1. IInv => SettingsInForce
    BY DEF IInv
  <1> QED BY <1>1, IInvHolds, PTL

(* An error page lies under the root its own server had when its line was  *)
(* read, never under that of a server before.                              *)
THEOREM PagesAlwaysUnderOwnRoot == Spec => []PagesUnderOwnRoot
  <1>1. IInv => PagesUnderOwnRoot
    BY DEF IInv
  <1> QED BY <1>1, IInvHolds, PTL

(* Server::configure: each host has one socket, with the servers that      *)
(* listen on it, in the order of the file.                                 *)
THEOREM HostsAlwaysServed == Spec => []HostsServed
  <1>1. IInv => HostsServed
    <2> SUFFICES ASSUME IInv, level = "running" PROVE HostsServed
      BY DEF HostsServed
    <2>1. Types /\ OneSocket /\ AllBound /\ OnlyTheirs /\ InOrder /\ next[1] > Len(blocks)
      BY DEF IInv, Binding, Done
    <2>2. Len(blocks) \in Nat /\ DOMAIN blocks = 1 .. Len(blocks)
      BY <2>1, StateNumbers
    <2>3. next[1] \in Nat
      BY <2>1 DEF Types
    <2>4. ASSUME NEW n \in DOMAIN blocks, NEW i \in DOMAIN blocks[n].hosts
          PROVE  \E k \in DOMAIN sockets : sockets[k].host = blocks[n].hosts[i] /\ Serves(k, n)
      <3>1. Behind(n, i)
        BY <2>1, <2>2, <2>3 DEF Behind
      <3> QED BY <2>1, <3>1 DEF AllBound
    <2>5. \A n \in DOMAIN blocks : \A h \in ToSet(blocks[n].hosts) :
             \E k \in DOMAIN sockets : sockets[k].host = h /\ n \in ToSet(sockets[k].blocks)
      BY <2>4 DEF ToSet, Serves
    <2>6. \A k \in DOMAIN sockets : \A n \in ToSet(sockets[k].blocks) :
             sockets[k].host \in ToSet(blocks[n].hosts)
      BY <2>1 DEF OnlyTheirs, Listens, ToSet
    <2> QED BY <2>1, <2>5, <2>6 DEF HostsServed, OneSocket, InOrder
  <1> QED BY <1>1, IInvHolds, PTL
===============================================================================
