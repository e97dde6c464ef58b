---------------------------- MODULE RoutingProofs ----------------------------
(***************************************************************************)
(* The two searches of Routing find what they should, the target is never  *)
(* cut behind its end, and what is left of it comes below the root, for    *)
(* every list of servers, every host and every target.                     *)
(*                                                                         *)
(* For the searches two facts about Path are enough: the parts of a string *)
(* are a sequence, and a string that ends in a slash still does so when    *)
(* normalised.  The directive of a location appends that slash; without it *)
(* a prefix length would not be a number of parts and the early return     *)
(* would take the wrong location.                                          *)
(*                                                                         *)
(* For the cut one has to know where the parts are.  A part begins behind  *)
(* the slash that ends the one before, so of two normalised strings equal  *)
(* first parts are at equal places; and a string put together behind a     *)
(* slash has the parts of both.                                            *)
(***************************************************************************)
EXTENDS Routing, FiniteSetTheorems, WellFoundedInduction, TLAPS

-----------------------------------------------------------------------------
(* Paths. *)

(* The positions Path keeps are finite in number. *)
LEMMA KeptFinite ==
  ASSUME NEW s \in String
  PROVE  /\ IsFiniteSet(Kept(s)) /\ Cardinality(Kept(s)) \in Nat
         /\ Kept(s) \subseteq 1 .. Len(s) /\ Len(s) \in Nat
<1>1. Len(s) \in Nat /\ DOMAIN s = 1 .. Len(s)
  BY DEF String
<1>2. IsFiniteSet(1 .. Len(s))
  BY <1>1, FS_Interval
<1>3. Kept(s) \in SUBSET (1 .. Len(s))
  BY <1>1 DEF Kept
<1>4. IsFiniteSet(Kept(s))
  BY <1>2, <1>3, FS_Subset
<1> QED
  BY <1>1, <1>3, <1>4, FS_CardinalityType

(* The parts of a path are a sequence. *)
LEMMA PartsAreSequence ==
  ASSUME NEW s \in String
  PROVE  /\ Len(Path(s).chunks) \in Nat
         /\ DOMAIN Path(s).chunks = 1 .. Len(Path(s).chunks)
<1> DEFINE str == Normalised(s)
           N == Cardinality(Kept(s))
           M == Cardinality(Starts(str))
<1>1. N \in Nat /\ DOMAIN str = 1 .. N
  BY KeptFinite DEF Normalised
<1>2. IsFiniteSet(1 .. N)
  BY <1>1, FS_Interval
<1>3. Starts(str) \in SUBSET (1 .. N)
  BY <1>1 DEF Starts
<1>4. M \in Nat
  BY <1>2, <1>3, FS_Subset, FS_CardinalityType
<1>5. Chunks(str) = [n \in 1 .. M |-> PartAt(str, Nth(Starts(str), n))]
  BY DEF Chunks
<1>6. Len(Chunks(str)) = M /\ DOMAIN Chunks(str) = 1 .. M
  BY <1>4, <1>5
<1>7. Path(s).chunks = Chunks(str)
  BY DEF Path
<1> QED
  BY <1>4, <1>6, <1>7

(* The last slash of a string stays. *)
LEMMA LastSlashStays ==
  ASSUME NEW s \in String, s # <<>>, s[Len(s)] = Slash
  PROVE  IsDirFormat(Path(s))
<1> DEFINE S == Kept(s)
           N == Cardinality(S)
           L == Len(s)
           Below(k) == {x \in S : x <= k}
<1>1. /\ IsFiniteSet(S) /\ N \in Nat /\ S \subseteq 1 .. L
      /\ L \in Nat /\ L > 0 /\ DOMAIN s = 1 .. L
  BY KeptFinite DEF String
<1>2. L \in S
  BY <1>1 DEF Kept
<1>3. N > 0
  BY <1>1, <1>2, FS_EmptySet
<1>4. Below(L) = S
  BY <1>1
<1>5. ASSUME NEW k \in S, Cardinality(Below(k)) = N
      PROVE  k = L
  <2>1. Below(k) \in SUBSET S
    OBVIOUS
  <2>2. Below(k) = S
    BY <1>1, <1>5, <2>1, FS_Subset
  <2> QED
    BY <1>1, <1>2, <2>2
<1>6. Nth(S, N) = L
  BY <1>2, <1>4, <1>5 DEF Nth
<1>7. Normalised(s) = [n \in 1 .. N |-> s[Nth(S, n)]]
  BY DEF Normalised
<1>8. Len(Normalised(s)) = N /\ Normalised(s)[N] = Slash /\ Normalised(s) # <<>>
  BY <1>1, <1>3, <1>6, <1>7
<1>9. Path(s).str = Normalised(s)
  BY DEF Path
<1> QED
  BY <1>8, <1>9 DEF IsDirFormat

(* So the prefix length of a location is the number of its parts. *)
LEMMA LocationsAreDirs ==
  ASSUME NEW loc \in Location, loc.path # <<>>
  PROVE  /\ Len(LocationPath(loc).chunks) \in Nat
         /\ PrefixLength(LocationPath(loc)) = Len(LocationPath(loc).chunks)
<1> DEFINE s == Append(loc.path, Slash)
<1>1. loc.path \in Seq(Char) /\ Slash \in Char
  BY RoutingAssumption DEF Location, String
<1>2. s \in String /\ s # <<>> /\ s[Len(s)] = Slash
  BY <1>1 DEF String
<1>3. LocationPath(loc) = Path(s)
  BY DEF LocationPath
<1>4. IsDirFormat(Path(s))
  BY <1>2, LastSlashStays
<1>5. Len(Path(s).chunks) \in Nat
  BY <1>2, PartsAreSequence
<1> HIDE DEF s
<1> QED
  BY <1>3, <1>4, <1>5 DEF PrefixLength

-----------------------------------------------------------------------------
(* The loops. *)

Parts == Path(target).chunks

(* The blocks the first loop has passed do not have the name. *)
ServerLoop ==
    /\ pc = "server" => /\ block = 1 /\ selected = None /\ bestMatch = 0
                        /\ \A b \in DOMAIN blocks : b < i => ~Named(b)
    /\ pc = "location" => i >= 1

(* Of the locations the second loop has passed, the one selected is the    *)
(* one to be found, and none has as many parts as the target.              *)
LocationLoop ==
    pc = "location" =>
       IF selected = None
       THEN bestMatch = 0 /\ \A k \in DOMAIN Locations : k < i => ~Matches(k)
       ELSE /\ selected < i /\ Matches(selected)
            /\ bestMatch = Length(selected) /\ Length(selected) < Len(Parts)
            /\ \A k \in DOMAIN Locations :
                  k < i /\ Matches(k) => \/ Length(k) < Length(selected)
                                         \/ Length(k) = Length(selected) /\ selected <= k

IInv == TypeOK /\ ServerLoop /\ LocationLoop /\ FirstNamedServes /\ LongestPrefix

(* What the steps use of the types. *)
LEMMA LocationFacts ==
  ASSUME TypeOK
  PROVE  /\ Len(blocks) \in Nat /\ DOMAIN blocks = 1 .. Len(blocks) /\ Len(blocks) > 0
         /\ Len(Locations) \in Nat /\ DOMAIN Locations = 1 .. Len(Locations)
         /\ \A k \in DOMAIN Locations :
               /\ Length(k) \in Nat
               /\ PrefixLength(LocationPath(Locations[k])) = Length(k)
         /\ Len(Parts) \in Nat
<1>1. blocks \in Seq(ServerBlock) /\ blocks # <<>> /\ block \in DOMAIN blocks
  BY RoutingAssumption DEF TypeOK
<1>2. Len(blocks) \in Nat /\ DOMAIN blocks = 1 .. Len(blocks) /\ Len(blocks) > 0
  BY <1>1
<1>3. Locations \in Seq(Location)
  <2>1. blocks[block] \in ServerBlock
    BY <1>1
  <2> QED
    BY <2>1 DEF Locations, ServerBlock
<1>4. ASSUME NEW k \in DOMAIN Locations
      PROVE  /\ Length(k) \in Nat
             /\ PrefixLength(LocationPath(Locations[k])) = Length(k)
  <2>1. Locations[k] \in Location
    BY <1>3
  <2>2. Locations[k].path # <<>>
    BY <1>1, RoutingAssumption DEF TypeOK, Locations
  <2> QED
    BY <2>1, <2>2, LocationsAreDirs DEF Length
<1>5. target \in String
  BY RoutingAssumption DEF TypeOK
<1> QED
  BY <1>2, <1>3, <1>4, <1>5, PartsAreSequence DEF Parts

(* A location that matches has no more parts than the target. *)
LEMMA MatchIsShorter ==
  ASSUME TypeOK, NEW k \in DOMAIN Locations, Matches(k)
  PROVE  Length(k) <= Len(Parts)
  BY DEF Matches, PrefixMatch, Length, Parts

(* No block before the first has been looked at. *)
LEMMA InitInv == Init => IInv
<1> SUFFICES ASSUME Init PROVE IInv
  OBVIOUS
<1>1. blocks \in Seq(ServerBlock) /\ blocks # <<>>
  BY RoutingAssumption DEF Init
<1>2. TypeOK
  BY <1>1 DEF Init, TypeOK
<1> QED
  BY <1>1, <1>2 DEF Init, IInv, ServerLoop, LocationLoop, FirstNamedServes, LongestPrefix

(* The indices of a list of locations are positive. *)
LEMMA LocationIndices ==
  ASSUME NEW s \in Servers, NEW b \in DOMAIN s
  PROVE  /\ DOMAIN s[b].locations = 1 .. Len(s[b].locations)
         /\ Len(s[b].locations) \in Nat
<1>1. s \in Seq(ServerBlock)
  BY RoutingAssumption
<1>2. s[b] \in ServerBlock
  BY <1>1
<1>3. s[b].locations \in Seq(Location)
  BY <1>2 DEF ServerBlock
<1> QED
  BY <1>3

(* The second loop starts with the block found and nothing selected. *)
LEMMA SecondLoopStarts ==
  ASSUME TypeOK', FirstNamedServes',
         pc' = "location", i' = 1, selected' = None, bestMatch' = 0
  PROVE  IInv'
<1>1. blocks' \in Servers /\ block' \in DOMAIN blocks'
  BY DEF TypeOK
<1>2. \A k \in DOMAIN blocks'[block'].locations : k \in Nat /\ k >= 1
  BY <1>1, LocationIndices
<1>3. \A k \in DOMAIN Locations' : k < i' => ~Matches(k)'
  BY <1>2 DEF Locations
<1>4. LocationLoop'
  BY <1>3 DEF LocationLoop
<1>5. ServerLoop' /\ LongestPrefix'
  BY DEF ServerLoop, LongestPrefix
<1> QED
  BY <1>4, <1>5 DEF IInv

(* An iteration of findServerBlock. *)
LEMMA ServerStep == IInv /\ FindServerBlock => IInv'
<1> SUFFICES ASSUME IInv, FindServerBlock PROVE IInv'
  OBVIOUS
<1>1. /\ Len(blocks) \in Nat /\ DOMAIN blocks = 1 .. Len(blocks) /\ Len(blocks) > 0
      /\ i \in Nat /\ i >= 1 /\ pc = "server" /\ block = 1 /\ selected = None /\ bestMatch = 0
      /\ \A b \in DOMAIN blocks : b < i => ~Named(b)
      /\ UNCHANGED <<blocks, host, target, selected, bestMatch, path>>
  BY LocationFacts DEF IInv, TypeOK, FindServerBlock, ServerLoop
<1>2. CASE i > Len(blocks)
  <2>1. block' = 1 /\ i' = 1 /\ pc' = "location"
    BY <1>1, <1>2 DEF FindServerBlock, FrontBlock
  <2>2. \A b \in DOMAIN blocks : ~Named(b)
    BY <1>1, <1>2
  <2>3. TypeOK'
    BY <1>1, <2>1 DEF IInv, TypeOK
  <2>4. FirstNamedServes'
    BY <1>1, <2>1, <2>2 DEF FirstNamedServes, Named
  <2> QED
    BY <1>1, <2>1, <2>3, <2>4, SecondLoopStarts
<1>3. CASE ~(i > Len(blocks)) /\ host \in blocks[i].names
  <2>1. block' = i /\ i' = 1 /\ pc' = "location" /\ i \in DOMAIN blocks
    BY <1>1, <1>3 DEF FindServerBlock
  <2>2. TypeOK'
    BY <1>1, <2>1 DEF IInv, TypeOK
  <2>3. FirstNamedServes'
    BY <1>1, <1>3, <2>1 DEF FirstNamedServes, Named
  <2> QED
    BY <1>1, <2>1, <2>2, <2>3, SecondLoopStarts
<1>4. CASE ~(i > Len(blocks)) /\ ~(host \in blocks[i].names)
  <2>1. block' = block /\ i' = i + 1 /\ pc' = pc
    BY <1>1, <1>4 DEF FindServerBlock
  <2>2. \A b \in DOMAIN blocks : b < i' => ~Named(b)
    BY <1>1, <1>4, <2>1 DEF Named
  <2>3. TypeOK'
    BY <1>1, <2>1 DEF IInv, TypeOK
  <2> QED
    BY <1>1, <2>1, <2>2, <2>3 DEF IInv, ServerLoop, LocationLoop, LongestPrefix, FirstNamedServes,
       Named
<1> QED
  BY <1>2, <1>3, <1>4

(* An iteration of findLocationBlock. *)
LEMMA LocationStep == IInv /\ FindLocationBlock => IInv'
<1> SUFFICES ASSUME IInv, FindLocationBlock PROVE IInv'
  OBVIOUS
<1> DEFINE loc == Locations[i]
<1>1. /\ UNCHANGED <<blocks, host, target, block, path>>
      /\ pc = "location" /\ i \in Nat /\ i >= 1
      /\ TypeOK /\ FirstNamedServes /\ LocationLoop
  BY DEF IInv, TypeOK, FindLocationBlock
<1>2. /\ Locations' = Locations /\ Parts' = Parts
      /\ \A k : Matches(k)' = Matches(k) /\ Length(k)' = Length(k)
  BY <1>1 DEF Locations, Parts, Matches, Length
<1>3. /\ Len(Locations) \in Nat /\ DOMAIN Locations = 1 .. Len(Locations)
      /\ \A k \in DOMAIN Locations : Length(k) \in Nat
      /\ Len(Parts) \in Nat
  BY <1>1, LocationFacts
<1>4. pc' \in {"location", "request"} => FirstNamedServes' /\ ServerLoop'
  <2>1. SUFFICES ASSUME pc' \in {"location", "request"} PROVE FirstNamedServes' /\ ServerLoop'
    OBVIOUS
  <2>2. FirstNamedServes'
    BY <1>1, <2>1 DEF FirstNamedServes, Named
  <2>3. i' >= 1
    BY <1>1 DEF FindLocationBlock
  <2> QED
    BY <2>1, <2>2, <2>3 DEF ServerLoop
<1>5. CASE i > Len(Locations)
  <2>1. pc' = "request" /\ i' = i /\ selected' = selected /\ bestMatch' = bestMatch
    BY <1>1, <1>5 DEF FindLocationBlock
  <2>2. TypeOK' /\ LocationLoop'
    BY <1>1, <2>1 DEF TypeOK, LocationLoop
  <2>3. \A k \in DOMAIN Locations : k < i
    BY <1>1, <1>3, <1>5
  <2>4. LongestPrefix'
    BY <1>1, <1>2, <2>1, <2>3 DEF LongestPrefix, LocationLoop
  <2> QED
    BY <1>4, <2>1, <2>2, <2>4 DEF IInv
<1>6. CASE ~(i > Len(Locations))
  <2>1. i \in DOMAIN Locations
    BY <1>1, <1>3, <1>6
  <2>2. /\ Length(i) \in Nat /\ PrefixLength(LocationPath(loc)) = Length(i)
        /\ Matches(i) = PrefixMatch(LocationPath(loc), Path(target))
    BY <1>1, <2>1, LocationFacts DEF Matches
  <2>3. Exact(loc) <=> Length(i) = Len(Parts)
    BY <2>2 DEF Exact, Parts
  <2>4. Better(loc) <=> (Length(i) > bestMatch \/ selected = None)
    BY <2>2 DEF Better
  <2>5. Matches(i) => Length(i) <= Len(Parts)
    BY <1>1, <2>1, MatchIsShorter
  <2>6. i \in DOMAIN blocks[block].locations
    BY <2>1 DEF Locations
  <2>7. CASE ~Matches(i)
    <3>1. i' = i + 1 /\ pc' = pc /\ selected' = selected /\ bestMatch' = bestMatch
      BY <1>1, <1>6, <2>2, <2>7 DEF FindLocationBlock
    <3>2. TypeOK'
      BY <1>1, <3>1 DEF TypeOK
    <3>3. \A k \in DOMAIN Locations : k < i' => k < i \/ k = i
      BY <1>1, <1>3, <3>1
    <3>4. LocationLoop'
      <4>1. CASE selected = None
        BY <1>1, <1>2, <2>7, <3>1, <3>3, <4>1 DEF LocationLoop
      <4>2. CASE selected # None
        <5>1. selected < i /\ selected \in Nat
          BY <1>1, <1>3, <4>2 DEF LocationLoop, TypeOK, Locations
        <5> QED
          BY <1>1, <1>2, <1>3, <2>7, <3>1, <3>3, <4>2, <5>1 DEF LocationLoop
      <4> QED
        BY <4>1, <4>2
    <3> QED
      BY <1>1, <1>4, <3>1, <3>2, <3>4 DEF IInv, LongestPrefix
  <2>8. CASE Matches(i) /\ Exact(loc)
    <3>1. selected' = i /\ pc' = "request" /\ i' = i /\ bestMatch' = bestMatch
      BY <1>1, <1>6, <2>2, <2>8 DEF FindLocationBlock
    <3>2. TypeOK' /\ LocationLoop'
      BY <1>1, <2>6, <3>1 DEF TypeOK, LocationLoop
    <3>3. i # None
      BY <1>1, RoutingAssumption
    <3>4. ASSUME NEW k \in DOMAIN Locations, Matches(k)
          PROVE  Length(k) < Length(i) \/ (Length(k) = Length(i) /\ i <= k)
      <4>1. Length(k) <= Len(Parts) /\ Length(i) = Len(Parts)
        BY <1>1, <2>3, <2>8, <3>4, MatchIsShorter
      <4>2. k < i => Length(k) < Len(Parts)
        <5>1. SUFFICES ASSUME k < i PROVE Length(k) < Len(Parts)
          OBVIOUS
        <5>2. selected # None /\ Length(selected) < Len(Parts)
          BY <1>1, <3>4, <5>1 DEF LocationLoop
        <5>3. selected \in DOMAIN Locations
          BY <1>1, <5>2 DEF TypeOK, Locations
        <5> QED
          BY <1>1, <1>3, <3>4, <5>1, <5>2, <5>3 DEF LocationLoop
      <4> QED
        BY <1>1, <1>3, <4>1, <4>2
    <3>5. LongestPrefix'
      BY <1>2, <2>8, <3>1, <3>3, <3>4 DEF LongestPrefix
    <3> QED
      BY <1>4, <3>1, <3>2, <3>5 DEF IInv
  <2>9. CASE Matches(i) /\ ~Exact(loc) /\ Better(loc)
    <3>1. /\ selected' = i /\ bestMatch' = PrefixLength(LocationPath(loc))
          /\ i' = i + 1 /\ pc' = pc
      BY <1>1, <1>6, <2>2, <2>9 DEF FindLocationBlock
    <3>2. bestMatch' = Length(i) /\ Length(i) < Len(Parts)
      <4>1. Length(i) # Len(Parts) /\ Length(i) <= Len(Parts)
        BY <2>3, <2>5, <2>9
      <4>2. bestMatch' = Length(i)
        BY <2>2, <3>1
      <4> QED
        BY <1>3, <2>2, <4>1, <4>2
    <3>3. TypeOK'
      BY <1>1, <2>2, <2>6, <3>1, <3>2 DEF TypeOK
    <3>4. i # None
      BY <1>1, RoutingAssumption
    <3>5. ASSUME NEW k \in DOMAIN Locations, k < i', Matches(k)
          PROVE  Length(k) < Length(i) \/ (Length(k) = Length(i) /\ i <= k)
      <4>1. CASE k = i
        BY <1>1, <4>1
      <4>2. CASE k < i
        <5>1. selected # None
          BY <1>1, <3>5, <4>2 DEF LocationLoop
        <5>2. bestMatch = Length(selected) /\ Length(selected) \in Nat
          BY <1>1, <1>3, <5>1 DEF LocationLoop, TypeOK, Locations
        <5>3. Length(i) > Length(selected)
          BY <2>4, <2>9, <5>1, <5>2
        <5> QED
          BY <1>1, <1>3, <2>2, <3>5, <4>2, <5>1, <5>2, <5>3 DEF LocationLoop
      <4> QED
        BY <1>1, <1>3, <3>1, <3>5, <4>1, <4>2
    <3>6. i < i'
      BY <1>1, <3>1
    <3>7. LocationLoop'
      BY <1>2, <2>9, <3>1, <3>2, <3>4, <3>5, <3>6 DEF LocationLoop
    <3> QED
      BY <1>1, <1>4, <3>1, <3>3, <3>7 DEF IInv, LongestPrefix
  <2>10. CASE Matches(i) /\ ~Exact(loc) /\ ~Better(loc)
    <3>1. i' = i + 1 /\ pc' = pc /\ selected' = selected /\ bestMatch' = bestMatch
      BY <1>1, <1>6, <2>2, <2>10 DEF FindLocationBlock
    <3>2. TypeOK'
      BY <1>1, <3>1 DEF TypeOK
    <3>3. /\ selected # None /\ selected < i /\ selected \in DOMAIN Locations
          /\ bestMatch = Length(selected) /\ Length(i) <= Length(selected)
      <4>1. selected # None
        BY <2>4, <2>10
      <4>2. selected < i /\ bestMatch = Length(selected)
        BY <1>1, <4>1 DEF LocationLoop
      <4>3. selected \in DOMAIN Locations
        BY <1>1, <4>1 DEF TypeOK, Locations
      <4>4. ~(Length(i) > bestMatch)
        BY <2>4, <2>10
      <4>5. Length(selected) \in Nat /\ Length(i) \in Nat
        BY <1>3, <2>2, <4>3
      <4>6. Length(i) <= Length(selected)
        BY <4>2, <4>4, <4>5
      <4> QED
        BY <4>1, <4>2, <4>3, <4>6
    <3>4. ASSUME NEW k \in DOMAIN Locations, k < i', Matches(k)
          PROVE  Length(k) < Length(selected) \/ (Length(k) = Length(selected) /\ selected <= k)
      <4>1. CASE k = i
        BY <1>1, <1>3, <2>2, <3>3, <4>1
      <4>2. CASE k < i
        BY <1>1, <3>3, <3>4, <4>2 DEF LocationLoop
      <4> QED
        BY <1>1, <1>3, <3>1, <3>4, <4>1, <4>2
    <3>5. selected < i'
      BY <1>1, <1>3, <3>1, <3>3
    <3>6. Matches(selected) /\ Length(selected) < Len(Parts)
      BY <1>1, <3>3 DEF LocationLoop
    <3>7. LocationLoop'
      BY <1>2, <3>1, <3>3, <3>4, <3>5, <3>6 DEF LocationLoop
    <3> QED
      BY <1>1, <1>4, <3>1, <3>2, <3>7 DEF IInv, LongestPrefix
  <2> QED
    BY <2>7, <2>8, <2>9, <2>10
<1> QED
  BY <1>5, <1>6

(* The rest of the steps leaves what the loops have found. *)
LEMMA RestStep == IInv /\ (MakeRequest \/ UNCHANGED vars) => IInv'
<1>1. ASSUME IInv, MakeRequest PROVE IInv'
  <2>1. /\ UNCHANGED <<blocks, host, target, i, block, selected, bestMatch>>
        /\ pc = "request" /\ pc' = "done"
    BY <1>1 DEF MakeRequest
  <2>2. /\ Locations' = Locations
        /\ \A k : Matches(k)' = Matches(k) /\ Length(k)' = Length(k)
        /\ \A b : Named(b)' = Named(b)
    BY <2>1 DEF Locations, Matches, Length, Named
  <2>3. TypeOK' /\ ServerLoop' /\ LocationLoop'
    BY <1>1, <2>1 DEF IInv, TypeOK, ServerLoop, LocationLoop
  <2>4. FirstNamedServes'
    BY <1>1, <2>1, <2>2 DEF IInv, FirstNamedServes
  <2>5. LongestPrefix'
    BY <1>1, <2>1, <2>2 DEF IInv, LongestPrefix
  <2> QED
    BY <2>3, <2>4, <2>5 DEF IInv
<1>2. ASSUME IInv, UNCHANGED vars PROVE IInv'
  BY <1>2 DEF IInv, vars, TypeOK, ServerLoop, LocationLoop, FirstNamedServes, LongestPrefix,
     Locations, Matches, Length, Named, Parts
<1> QED
  BY <1>1, <1>2

-----------------------------------------------------------------------------
(* The theorems. *)

(* The loops of Server::findServerBlock and ServerBlock::findLocationBlock *)
(* keep the invariant.                                                     *)
THEOREM Invariance == Spec => []IInv
<1>1. IInv /\ [Next]_vars => IInv'
  BY ServerStep, LocationStep, RestStep DEF Next
<1> QED
  BY InitInv, <1>1, PTL DEF Spec

(* Server::findServerBlock and ServerBlock::findLocationBlock keep their   *)
(* indices in range.                                                       *)
THEOREM TypeCorrect == Spec => []TypeOK
  BY Invariance, PTL DEF IInv

(* Server::findServerBlock: for every list of servers, the first block     *)
(* that has the Host as a name, and the socket's first if none has it.     *)
THEOREM FirstNamedServesAlways == Spec => []FirstNamedServes
  BY Invariance, PTL DEF IInv

(* ServerBlock::findLocationBlock: for every list of locations and every   *)
(* target, the longest location that matches, and of equal ones the first. *)
THEOREM LongestPrefixAlways == Spec => []LongestPrefix
  BY Invariance, PTL DEF IInv
-----------------------------------------------------------------------------
(* The elements of a set of numbers in their order. *)

(* A set of numbers that is not empty has a least one. *)
LEMMA LeastExists ==
  ASSUME NEW S \in SUBSET Nat, S # {}
  PROVE  \E m \in S : \A x \in S : m <= x
<1> DEFINE R == {p \in Nat \X Nat : p[1] < p[2]}
<1>1. OpToRel(<, Nat) = R
  BY DEF OpToRel
<1>2. PICK m \in S : \A x \in S : ~(<<x, m>> \in R)
  <2>1. IsWellFoundedOn(R, Nat)
    BY <1>1, NatLessThanWellFounded
  <2> HIDE DEF R
  <2> QED
    BY <2>1, WFMin
<1>3. \A x \in S : ~(x < m)
  BY <1>2
<1> QED
  BY <1>3

(* Induction, for a set of numbers. *)
LEMMA AllNumbers ==
  ASSUME NEW S, 0 \in S, \A k \in Nat : k \in S => k + 1 \in S
  PROVE  \A k \in Nat : k \in S
<1> SUFFICES ASSUME Nat \ S # {} PROVE FALSE
  OBVIOUS
<1>1. PICK m \in Nat \ S : \A x \in Nat \ S : m <= x
  BY LeastExists
<1>2. m # 0 /\ m - 1 \in Nat
  BY <1>1
<1>3. m - 1 \in S
  BY <1>1, <1>2
<1> QED
  BY <1>1, <1>2, <1>3

(* How many elements are not beyond k. *)
UpTo(S, k) == {x \in S : x <= k}
Rank(S, k) == Cardinality(UpTo(S, k))

LEMMA RankIs ==
  ASSUME NEW S \in SUBSET Nat, IsFiniteSet(S), NEW k \in Nat
  PROVE  /\ IsFiniteSet(UpTo(S, k))
         /\ Rank(S, k) \in Nat /\ Rank(S, k) <= Cardinality(S) /\ Cardinality(S) \in Nat
         /\ Rank(S, k) = Cardinality(S) <=> \A x \in S : x <= k
<1>1. UpTo(S, k) \in SUBSET S
  BY DEF UpTo
<1>2. /\ IsFiniteSet(UpTo(S, k)) /\ Cardinality(UpTo(S, k)) <= Cardinality(S)
      /\ Cardinality(S) = Cardinality(UpTo(S, k)) => S = UpTo(S, k)
  BY <1>1, FS_Subset
<1>3. Cardinality(UpTo(S, k)) \in Nat /\ Cardinality(S) \in Nat
  BY <1>2, FS_CardinalityType
<1>4. S = UpTo(S, k) <=> \A x \in S : x <= k
  BY DEF UpTo
<1> QED
  BY <1>2, <1>3, <1>4 DEF Rank

LEMMA RankGrows ==
  ASSUME NEW S \in SUBSET Nat, IsFiniteSet(S), NEW j \in Nat, NEW k \in S, j < k
  PROVE  Rank(S, j) < Rank(S, k)
<1>1. k \in Nat /\ \A x \in S : x \in Nat
  OBVIOUS
<1>2. UpTo(S, j) \in SUBSET UpTo(S, k)
  <2>1. \A x \in S : x <= j => x <= k
    BY <1>1
  <2> QED
    BY <2>1 DEF UpTo
<1>3. k \in UpTo(S, k) /\ k \notin UpTo(S, j)
  BY <1>1 DEF UpTo
<1>4. IsFiniteSet(UpTo(S, k)) /\ Rank(S, k) \in Nat /\ Rank(S, j) \in Nat
  BY <1>1, RankIs
<1>5. /\ Cardinality(UpTo(S, j)) <= Cardinality(UpTo(S, k))
      /\ Cardinality(UpTo(S, k)) = Cardinality(UpTo(S, j)) => UpTo(S, k) = UpTo(S, j)
  BY <1>2, <1>4, FS_Subset
<1> QED
  BY <1>3, <1>4, <1>5 DEF Rank

(* No element between two numbers: nothing is counted between them. *)
LEMMA RankNext ==
  ASSUME NEW S \in SUBSET Nat, IsFiniteSet(S), NEW j \in Nat, NEW k \in S, j < k,
         \A x \in S : x <= j \/ k <= x
  PROVE  Rank(S, k) = Rank(S, j) + 1
<1>1. k \in Nat /\ \A x \in S : x \in Nat
  OBVIOUS
<1>2. UpTo(S, k) = UpTo(S, j) \cup {k} /\ k \notin UpTo(S, j)
  <2>1. \A x \in S : x <= k <=> x <= j \/ x = k
    BY <1>1
  <2>2. ~(k <= j)
    BY <1>1
  <2> QED
    BY <2>1, <2>2 DEF UpTo
<1>3. IsFiniteSet(UpTo(S, j))
  BY RankIs
<1>4. Cardinality(UpTo(S, j) \cup {k}) = Cardinality(UpTo(S, j)) + 1
  BY <1>2, <1>3, FS_AddElement
<1> QED
  BY <1>2, <1>4 DEF Rank

LEMMA RankFirst ==
  ASSUME NEW S \in SUBSET Nat, NEW k \in S, \A x \in S : k <= x
  PROVE  Rank(S, k) = 1
<1>1. UpTo(S, k) = {k}
  <2>1. k \in Nat /\ \A x \in S : x \in Nat /\ (x <= k <=> x = k)
    OBVIOUS
  <2> QED
    BY <2>1 DEF UpTo
<1> QED
  BY <1>1, FS_Singleton DEF Rank

LEMMA NthExists ==
  ASSUME NEW S \in SUBSET Nat, IsFiniteSet(S)
  PROVE  \A n \in 1 .. Cardinality(S) : \E k \in S : Rank(S, k) = n
<1> DEFINE N == Cardinality(S)
           Q == {m \in Nat : m + 1 <= N => \E k \in S : Rank(S, k) = m + 1}
<1>1. N \in Nat
  BY FS_CardinalityType
<1>2. 0 \in Q
  <2> SUFFICES ASSUME 1 <= N PROVE \E k \in S : Rank(S, k) = 1
    OBVIOUS
  <2>1. S # {}
    BY FS_EmptySet
  <2>2. PICK k \in S : \A x \in S : k <= x
    BY <2>1, LeastExists
  <2> QED
    BY <2>2, RankFirst
<1>3. ASSUME NEW m \in Nat, m \in Q PROVE m + 1 \in Q
  <2> SUFFICES ASSUME (m + 1) + 1 <= N PROVE \E l \in S : Rank(S, l) = (m + 1) + 1
    OBVIOUS
  <2>1. PICK k \in S : Rank(S, k) = m + 1
    BY <1>1, <1>3
  <2> DEFINE T == {x \in S : k < x}
  <2>2. k \in Nat /\ T \in SUBSET Nat
    OBVIOUS
  <2>3. T # {}
    <3> SUFFICES ASSUME \A x \in S : ~(k < x) PROVE FALSE
      OBVIOUS
    <3>1. \A x \in S : x <= k
      BY <2>2
    <3> HIDE DEF N
    <3>2. Rank(S, k) = Cardinality(S)
      BY <2>2, <3>1, RankIs
    <3> QED
      BY <1>1, <2>1, <3>2 DEF N
  <2>4. PICK l \in T : \A x \in T : l <= x
    BY <2>2, <2>3, LeastExists
  <2>5. l \in S /\ k < l /\ \A x \in S : x <= k \/ l <= x
    BY <2>2, <2>4
  <2>6. Rank(S, l) = Rank(S, k) + 1
    BY <2>2, <2>5, RankNext
  <2> QED
    BY <2>1, <2>5, <2>6
<1> HIDE DEF Q
<1>4. \A m \in Nat : m \in Q
  BY <1>2, <1>3, AllNumbers
<1>5. ASSUME NEW n \in 1 .. N PROVE \E k \in S : Rank(S, k) = n
  <2>1. n - 1 \in Nat /\ (n - 1) + 1 = n /\ n <= N
    BY <1>1
  <2>2. n - 1 \in Q
    BY <1>4, <2>1
  <2> QED
    BY <2>1, <2>2 DEF Q
<1> QED
  BY <1>5

(* Nth(S, n) is the element of rank n. *)
LEMMA NthIs ==
  ASSUME NEW S \in SUBSET Nat, IsFiniteSet(S), NEW n \in 1 .. Cardinality(S)
  PROVE  Nth(S, n) \in S /\ Nth(S, n) \in Nat /\ Rank(S, Nth(S, n)) = n
<1>1. \E k \in S : Rank(S, k) = n
  BY NthExists
<1>2. Nth(S, n) = CHOOSE k \in S : Rank(S, k) = n
  BY DEF Nth, Rank, UpTo
<1>3. Nth(S, n) \in S /\ Rank(S, Nth(S, n)) = n
  BY <1>1, <1>2
<1> QED
  BY <1>3

LEMMA RankOfElement ==
  ASSUME NEW S \in SUBSET Nat, IsFiniteSet(S), NEW k \in S
  PROVE  Rank(S, k) \in 1 .. Cardinality(S) /\ Nth(S, Rank(S, k)) = k
<1>1. k \in Nat /\ k \in UpTo(S, k)
  BY DEF UpTo
<1>2. /\ IsFiniteSet(UpTo(S, k)) /\ Rank(S, k) \in Nat /\ Rank(S, k) <= Cardinality(S)
      /\ Cardinality(S) \in Nat
  BY <1>1, RankIs
<1>3. Rank(S, k) # 0
  BY <1>1, <1>2, FS_EmptySet DEF Rank
<1>4. Rank(S, k) \in 1 .. Cardinality(S)
  BY <1>2, <1>3
<1> DEFINE j == Nth(S, Rank(S, k))
<1>5. j \in S /\ j \in Nat /\ Rank(S, j) = Rank(S, k)
  BY <1>4, NthIs
<1> HIDE DEF j
<1>6. ~(j < k) /\ ~(k < j)
  BY <1>1, <1>2, <1>5, RankGrows
<1>7. j = k
  BY <1>1, <1>5, <1>6
<1> QED
  BY <1>4, <1>7 DEF j

LEMMA NthGrows ==
  ASSUME NEW S \in SUBSET Nat, IsFiniteSet(S),
         NEW m \in 1 .. Cardinality(S), NEW n \in 1 .. Cardinality(S), m < n
  PROVE  Nth(S, m) < Nth(S, n)
<1> DEFINE j == Nth(S, m)
           k == Nth(S, n)
<1>1. j \in S /\ j \in Nat /\ Rank(S, j) = m /\ k \in S /\ k \in Nat /\ Rank(S, k) = n
  BY NthIs
<1>2. Cardinality(S) \in Nat
  BY FS_CardinalityType
<1> HIDE DEF j, k
<1>3. ~(k < j)
  BY <1>1, <1>2, RankGrows
<1>4. j # k
  BY <1>1, <1>2
<1>5. j < k
  BY <1>1, <1>3, <1>4
<1> QED
  BY <1>5 DEF j, k

LEMMA NoneBetween ==
  ASSUME NEW S \in SUBSET Nat, IsFiniteSet(S), NEW n \in Nat,
         n \in 1 .. Cardinality(S), n + 1 \in 1 .. Cardinality(S), NEW x \in S
  PROVE  x <= Nth(S, n) \/ Nth(S, n + 1) <= x
<1> DEFINE j == Nth(S, n)
           k == Nth(S, n + 1)
<1>1. j \in S /\ j \in Nat /\ Rank(S, j) = n /\ k \in S /\ k \in Nat /\ Rank(S, k) = n + 1
  BY NthIs
<1> HIDE DEF j, k
<1>2. x \in Nat /\ Rank(S, x) \in Nat
  BY RankIs
<1>3. j < x => n < Rank(S, x)
  BY <1>1, <1>2, RankGrows
<1>4. x < k => Rank(S, x) < n + 1
  BY <1>1, <1>2, RankGrows
<1>5. x <= j \/ k <= x
  BY <1>1, <1>2, <1>3, <1>4
<1> QED
  BY <1>5 DEF j, k

(* Nothing is behind the last. *)
LEMMA LastNth ==
  ASSUME NEW S \in SUBSET Nat, IsFiniteSet(S), Cardinality(S) # 0, NEW x \in S
  PROVE  x <= Nth(S, Cardinality(S))
<1> DEFINE N == Cardinality(S)
           k == Nth(S, N)
<1>1. N \in Nat /\ N \in 1 .. N
  <2>1. N \in Nat
    BY FS_CardinalityType
  <2> QED
    BY <2>1
<1>2. k \in Nat /\ Rank(S, k) = N
  BY <1>1, NthIs
<1> HIDE DEF k
<1>3. \A y \in S : y <= k
  BY <1>2, RankIs
<1> QED
  BY <1>3 DEF k

(* What lies between the n-th element and the next has n elements up to it. *)
LEMMA RankBetween ==
  ASSUME NEW S \in SUBSET Nat, IsFiniteSet(S), NEW n \in Nat, n \in 1 .. Cardinality(S),
         NEW y \in Nat, Nth(S, n) <= y, n + 1 <= Cardinality(S) => y < Nth(S, n + 1)
  PROVE  Rank(S, y) = n
<1> DEFINE k == Nth(S, n)
<1>1. k \in S /\ k \in Nat /\ Rank(S, k) = n
  BY NthIs
<1>2. Cardinality(S) \in Nat
  BY FS_CardinalityType
<1>3. ASSUME NEW x \in S, x <= y PROVE x <= k
  <2>1. CASE n = Cardinality(S)
    BY <1>2, <2>1, LastNth
  <2>2. CASE n # Cardinality(S)
    <3>1. n + 1 \in 1 .. Cardinality(S)
      BY <1>2, <2>2
    <3>2. x <= k \/ Nth(S, n + 1) <= x
      BY <3>1, NoneBetween
    <3>3. Nth(S, n + 1) \in Nat /\ y < Nth(S, n + 1)
      BY <1>2, <3>1, NthIs
    <3> QED
      BY <1>3, <3>2, <3>3
  <2> QED
    BY <2>1, <2>2
<1>4. UpTo(S, y) = UpTo(S, k)
  <2>1. UpTo(S, y) \subseteq UpTo(S, k)
    BY <1>3 DEF UpTo
  <2>2. k <= y
    OBVIOUS
  <2> HIDE DEF k
  <2>3. UpTo(S, k) \subseteq UpTo(S, y)
    <3>1. \A x \in S : x \in Nat /\ (x <= k => x <= y)
      BY <1>1, <2>2
    <3> QED
      BY <3>1 DEF UpTo
  <2> QED
    BY <2>1, <2>3
<1> QED
  BY <1>1, <1>4 DEF Rank

-----------------------------------------------------------------------------
(* What Path makes of a string. *)

LEMMA StringIs ==
  ASSUME NEW s \in String
  PROVE  /\ Len(s) \in Nat /\ DOMAIN s = 1 .. Len(s)
         /\ \A k \in 1 .. Len(s) : s[k] \in Char
  BY DEF String

LEMMA StringOf ==
  ASSUME NEW n \in Nat, NEW f \in [1 .. n -> Char]
  PROVE  f \in String /\ Len(f) = n
  BY DEF String

LEMMA SameString ==
  ASSUME NEW s \in String, NEW t \in String, Len(s) = Len(t), \A k \in 1 .. Len(s) : s[k] = t[k]
  PROVE  s = t
  BY DEF String

LEMMA PartOf ==
  ASSUME NEW s \in String, NEW m \in Nat \ {0}, NEW n \in Nat, n <= Len(s)
  PROVE  /\ SubSeq(s, m, n) \in String
         /\ Len(SubSeq(s, m, n)) = (IF n >= m THEN n - m + 1 ELSE 0)
         /\ \A k \in 1 .. n - m + 1 : SubSeq(s, m, n)[k] = s[m + k - 1]
  BY DEF String

LEMMA Joined ==
  ASSUME NEW s \in String, NEW t \in String
  PROVE  /\ s \o t \in String /\ Len(s \o t) = Len(s) + Len(t)
         /\ \A k \in 1 .. Len(s) : (s \o t)[k] = s[k]
         /\ \A k \in 1 .. Len(t) : (s \o t)[Len(s) + k] = t[k]
  BY DEF String

(* No slash follows another. *)
Single(s) == \A k \in 1 .. Len(s) - 1 : ~(s[k] = Slash /\ s[k + 1] = Slash)

LEMMA KeptIs ==
  ASSUME NEW s \in String
  PROVE  /\ Kept(s) \in SUBSET Nat /\ IsFiniteSet(Kept(s)) /\ Kept(s) \subseteq 1 .. Len(s)
         /\ Cardinality(Kept(s)) \in Nat /\ Cardinality(Kept(s)) <= Len(s)
         /\ \A k : k \in Kept(s) <=> /\ k \in 1 .. Len(s)
                                     /\ s[k] # Slash \/ k = Len(s) \/ s[k + 1] # Slash
<1>1. Len(s) \in Nat /\ DOMAIN s = 1 .. Len(s)
  BY StringIs
<1>2. IsFiniteSet(1 .. Len(s)) /\ Cardinality(1 .. Len(s)) = Len(s)
  <2> DEFINE L == Len(s)
  <2>1. 1 \in Int /\ L \in Int /\ L = (IF 1 > L THEN 0 ELSE L - 1 + 1)
    BY <1>1
  <2> HIDE DEF L
  <2>2. IsFiniteSet(1 .. L) /\ Cardinality(1 .. L) = L
    BY <2>1, FS_Interval
  <2> QED
    BY <2>2 DEF L
<1>3. \A k : k \in Kept(s) <=> /\ k \in 1 .. Len(s)
                               /\ s[k] # Slash \/ k = Len(s) \/ s[k + 1] # Slash
  BY <1>1 DEF Kept
<1>4. Kept(s) \in SUBSET (1 .. Len(s))
  BY <1>3
<1>5. IsFiniteSet(Kept(s)) /\ Cardinality(Kept(s)) <= Cardinality(1 .. Len(s))
  BY <1>2, <1>4, FS_Subset
<1> QED
  BY <1>1, <1>2, <1>3, <1>4, <1>5, FS_CardinalityType

LEMMA NormalisedIs ==
  ASSUME NEW s \in String
  PROVE  /\ Normalised(s) \in String /\ Len(Normalised(s)) <= Len(s)
         /\ Single(Normalised(s))
         /\ s # <<>> /\ s[1] = Slash => Normalised(s) # <<>> /\ Normalised(s)[1] = Slash
<1> DEFINE S == Kept(s)
           N == Cardinality(S)
           u == Normalised(s)
<1>1. Len(s) \in Nat /\ \A k \in 1 .. Len(s) : s[k] \in Char
  BY StringIs
<1>2. /\ S \in SUBSET Nat /\ IsFiniteSet(S) /\ S \subseteq 1 .. Len(s) /\ N \in Nat /\ N <= Len(s)
      /\ \A k : k \in S <=> k \in 1 .. Len(s) /\ (s[k] # Slash \/ k = Len(s) \/ s[k + 1] # Slash)
  BY KeptIs
<1>3. u = [n \in 1 .. N |-> s[Nth(S, n)]]
  BY DEF Normalised
<1> HIDE DEF S, u
<1>4. \A n \in 1 .. N : Nth(S, n) \in S /\ Nth(S, n) \in 1 .. Len(s) /\ Rank(S, Nth(S, n)) = n
  BY <1>2, NthIs
<1>5. u \in String /\ Len(u) = N
  <2>1. \A n \in 1 .. N : s[Nth(S, n)] \in Char
    BY <1>1, <1>4
  <2> HIDE DEF N
  <2>2. u \in [1 .. N -> Char]
    BY <1>3, <2>1
  <2> QED
    BY <1>2, <2>2, StringOf
<1>6. \A n \in 1 .. N : u[n] = s[Nth(S, n)]
  BY <1>3
<1>7. ASSUME NEW n \in 1 .. N - 1, u[n] = Slash, u[n + 1] = Slash PROVE FALSE
  <2> DEFINE j == Nth(S, n)
             k == Nth(S, n + 1)
  <2>1. n \in Nat /\ n \in 1 .. N /\ n + 1 \in 1 .. N /\ n < n + 1
    BY <1>2
  <2>2. j \in S /\ k \in S /\ j \in 1 .. Len(s) /\ k \in 1 .. Len(s) /\ s[j] = Slash /\ s[k] = Slash
    BY <1>4, <1>6, <1>7, <2>1
  <2>3. j < k
    BY <1>2, <2>1, NthGrows
  <2>4. \A x \in S : x <= j \/ k <= x
    BY <1>2, <2>1, NoneBetween
  <2> HIDE DEF j, k
  <2>5. s[j + 1] # Slash /\ j + 1 \in 1 .. Len(s)
    BY <1>1, <1>2, <2>2, <2>3
  <2>6. j + 1 \in S
    BY <1>2, <2>5
  <2>7. k = j + 1
    BY <1>1, <2>2, <2>3, <2>4, <2>6
  <2> QED
    BY <2>2, <2>5, <2>7
<1>8. ASSUME s # <<>>, s[1] = Slash PROVE u # <<>> /\ u[1] = Slash
  <2>1. Len(s) # 0
    BY <1>8, <1>1 DEF String
  <2>2. Len(s) \in S
    BY <1>1, <1>2, <2>1
  <2>3. N # 0 /\ 1 \in 1 .. N
    BY <1>2, <2>2, FS_EmptySet
  <2> DEFINE k == Nth(S, 1)
  <2>4. k \in S /\ k \in 1 .. Len(s) /\ Rank(S, k) = 1 /\ u[1] = s[k]
    BY <1>4, <1>6, <2>3
  <2> HIDE DEF k
  <2>5. ASSUME s[k] # Slash PROVE FALSE
    <3>1. k # 1 /\ k - 1 \in 1 .. Len(s) /\ (k - 1) + 1 = k /\ k - 1 < k
      BY <1>1, <1>8, <2>4, <2>5
    <3>2. k - 1 \in S
      BY <1>2, <2>5, <3>1
    <3>3. Rank(S, k - 1) < 1
      BY <1>2, <2>4, <3>1, <3>2, RankGrows
    <3>4. Rank(S, k - 1) \in 1 .. N
      BY <1>2, <3>2, RankOfElement
    <3> QED
      BY <1>2, <3>3, <3>4
  <2>6. u # <<>>
    BY <1>5, <2>3 DEF String
  <2> QED
    BY <2>4, <2>5, <2>6
<1>9. Single(u)
  BY <1>5, <1>7 DEF Single
<1> QED
  BY <1>2, <1>5, <1>8, <1>9 DEF u

(* What has no repeated slash stays as it is. *)
LEMMA AlreadyNormal ==
  ASSUME NEW s \in String, Single(s)
  PROVE  Normalised(s) = s
<1> DEFINE S == Kept(s)
           L == Len(s)
           u == Normalised(s)
<1>1. L \in Nat
  BY StringIs
<1>2. S \in SUBSET Nat /\ IsFiniteSet(S)
  BY KeptIs
<1>3. S = 1 .. L
  <2>1. \A k : k \in S <=> k \in 1 .. L /\ (s[k] # Slash \/ k = L \/ s[k + 1] # Slash)
    BY KeptIs
  <2>2. \A k \in 1 .. L : k = L \/ k \in 1 .. L - 1
    BY <1>1
  <2> HIDE DEF S
  <2>3. \A k \in 1 .. L : k \in S
    BY <2>1, <2>2 DEF Single
  <2> QED
    BY <2>1, <2>3
<1>4. Cardinality(S) = L
  BY <1>1, <1>3, FS_Interval
<1> HIDE DEF S
<1>5. ASSUME NEW n \in 1 .. L PROVE Nth(S, n) = n
  <2>1. n \in Nat /\ n \in S
    BY <1>1, <1>3
  <2>2. UpTo(S, n) = 1 .. n
    BY <1>1, <1>3, <2>1 DEF UpTo
  <2>3. Rank(S, n) = n
    BY <2>1, <2>2, FS_Interval DEF Rank
  <2> QED
    BY <1>2, <2>1, <2>3, RankOfElement
<1>6. Normalised(s) \in String
  BY NormalisedIs
<1>7. u = [n \in 1 .. L |-> s[Nth(S, n)]]
  BY <1>4 DEF Normalised, S
<1> HIDE DEF u
<1>8. Len(u) = L /\ \A n \in 1 .. L : u[n] = s[n]
  BY <1>1, <1>5, <1>7
<1> QED
  BY <1>6, <1>8, SameString DEF u

-----------------------------------------------------------------------------
(* Where the parts of a path begin and end. *)

LEMMA StartsAre ==
  ASSUME NEW s \in String
  PROVE  /\ Starts(s) \in SUBSET Nat /\ IsFiniteSet(Starts(s)) /\ Starts(s) \subseteq 1 .. Len(s)
         /\ Cardinality(Starts(s)) \in Nat
         /\ \A k : k \in Starts(s) <=> /\ k \in 1 .. Len(s) /\ s[k] # Slash
                                       /\ k = 1 \/ s[k - 1] = Slash
<1>1. Len(s) \in Nat /\ DOMAIN s = 1 .. Len(s)
  BY StringIs
<1>2. IsFiniteSet(1 .. Len(s))
  BY <1>1, FS_Interval
<1>3. \A k : k \in Starts(s) <=> /\ k \in 1 .. Len(s) /\ s[k] # Slash
                                 /\ k = 1 \/ s[k - 1] = Slash
  BY <1>1 DEF Starts
<1>4. Starts(s) \in SUBSET (1 .. Len(s))
  BY <1>3
<1>5. IsFiniteSet(Starts(s))
  BY <1>2, <1>4, FS_Subset
<1> QED
  BY <1>1, <1>3, <1>4, <1>5, FS_CardinalityType

LEMMA ChunksAre ==
  ASSUME NEW s \in String
  PROVE  /\ Chunks(s) = [n \in 1 .. Cardinality(Starts(s)) |-> PartAt(s, Nth(Starts(s), n))]
         /\ Len(Chunks(s)) = Cardinality(Starts(s)) /\ Len(Chunks(s)) \in Nat
         /\ DOMAIN Chunks(s) = 1 .. Cardinality(Starts(s))
         /\ \A n \in 1 .. Cardinality(Starts(s)) : Chunks(s)[n] = PartAt(s, Nth(Starts(s), n))
<1> DEFINE N == Cardinality(Starts(s))
<1>1. N \in Nat
  BY StartsAre
<1>2. Chunks(s) = [n \in 1 .. N |-> PartAt(s, Nth(Starts(s), n))]
  BY DEF Chunks
<1> HIDE DEF N
<1>3. /\ Len(Chunks(s)) = N /\ DOMAIN Chunks(s) = 1 .. N
      /\ \A n \in 1 .. N : Chunks(s)[n] = PartAt(s, Nth(Starts(s), n))
  BY <1>1, <1>2
<1> QED
  BY <1>1, <1>2, <1>3 DEF N

(* e is the last of the characters from k on that are no slash. *)
Ending(s, k, e) ==
    /\ e \in k .. Len(s) /\ \A x \in k .. e : s[x] # Slash
    /\ e = Len(s) \/ s[e + 1] = Slash
PartEnd(s, k) == Max({e \in k .. Len(s) : \A x \in k .. e : s[x] # Slash})

LEMMA EndingIsThe ==
  ASSUME NEW s \in String, NEW k \in 1 .. Len(s), NEW e, Ending(s, k, e)
  PROVE  PartEnd(s, k) = e
<1> DEFINE E == {y \in k .. Len(s) : \A x \in k .. y : s[x] # Slash}
<1>1. Len(s) \in Nat
  BY StringIs
<1>2. e \in E
  BY DEF Ending
<1>3. ASSUME NEW y \in E PROVE e >= y
  <2> SUFFICES ASSUME e < y PROVE FALSE
    BY <1>1, <1>2
  <2>1. e + 1 \in k .. y /\ e # Len(s)
    BY <1>1, <1>2, <1>3
  <2> QED
    BY <1>3, <2>1 DEF Ending
<1>4. \A x \in E : x \in Nat
  BY <1>1
<1>5. PartEnd(s, k) = CHOOSE x \in E : \A y \in E : x >= y
  BY DEF PartEnd, Max
<1> HIDE DEF E
<1>6. PartEnd(s, k) \in E /\ \A y \in E : PartEnd(s, k) >= y
  BY <1>2, <1>3, <1>5
<1>7. PartEnd(s, k) >= e /\ e >= PartEnd(s, k) /\ e \in Nat /\ PartEnd(s, k) \in Nat
  BY <1>2, <1>3, <1>4, <1>6
<1> QED
  BY <1>7

LEMMA PartIs ==
  ASSUME NEW s \in String, NEW k \in 1 .. Len(s), s[k] # Slash
  PROVE  /\ Ending(s, k, PartEnd(s, k)) /\ PartEnd(s, k) \in k .. Len(s)
         /\ PartAt(s, k) = SubSeq(s, k, PartEnd(s, k))
         /\ Len(PartAt(s, k)) = PartEnd(s, k) - k + 1
<1> DEFINE B == {x \in k .. Len(s) : s[x] = Slash}
           e == PartEnd(s, k)
<1>1. Len(s) \in Nat
  BY StringIs
<1>2. \E y : Ending(s, k, y)
  <2>1. CASE B = {}
    <3>1. Len(s) \in k .. Len(s)
      BY <1>1
    <3>2. Ending(s, k, Len(s))
      BY <2>1, <3>1 DEF Ending
    <3> QED
      BY <3>2
  <2>2. CASE B # {}
    <3>1. B \in SUBSET Nat
      BY <1>1
    <3>2. PICK b \in B : \A x \in B : b <= x
      BY <2>2, <3>1, LeastExists
    <3>3. b \in k .. Len(s) /\ s[b] = Slash /\ b # k
      BY <3>2
    <3>4. b - 1 \in k .. Len(s) /\ (b - 1) + 1 = b
      BY <1>1, <3>3
    <3>5. \A x \in k .. b - 1 : x \in k .. Len(s) /\ ~(b <= x)
      BY <1>1, <3>3
    <3>6. \A x \in k .. b - 1 : s[x] # Slash
      BY <3>2, <3>5
    <3>7. Ending(s, k, b - 1)
      BY <3>3, <3>4, <3>6 DEF Ending
    <3> QED
      BY <3>7
  <2> QED
    BY <2>1, <2>2
<1>3. Ending(s, k, e) /\ e \in k .. Len(s)
  BY <1>2, EndingIsThe DEF Ending
<1>4. PartAt(s, k) = SubSeq(s, k, e)
  BY DEF PartAt, PartEnd
<1> HIDE DEF e
<1>5. k \in Nat \ {0} /\ e \in Nat /\ e <= Len(s) /\ e >= k
  BY <1>1, <1>3
<1>6. Len(SubSeq(s, k, e)) = e - k + 1
  BY <1>5, PartOf
<1> QED
  BY <1>3, <1>4, <1>6 DEF e

(* The first part of a target begins behind its slash. *)
LEMMA FirstPart ==
  ASSUME NEW s \in String, Single(s), s # <<>>, s[1] = Slash
  PROVE  /\ Cardinality(Starts(s)) = 0 <=> Len(s) = 1
         /\ Cardinality(Starts(s)) # 0 => Nth(Starts(s), 1) = 2
<1> DEFINE S == Starts(s)
<1>1. Len(s) \in Nat /\ Len(s) # 0
  BY StringIs DEF String
<1>2. /\ S \in SUBSET Nat /\ IsFiniteSet(S) /\ Cardinality(S) \in Nat
      /\ \A k : k \in S <=> k \in 1 .. Len(s) /\ s[k] # Slash /\ (k = 1 \/ s[k - 1] = Slash)
  BY StartsAre
<1> HIDE DEF S
<1>3. \A k \in S : 2 <= k
  BY <1>1, <1>2
<1>4. ASSUME Len(s) # 1 PROVE 2 \in S
  <2> DEFINE L == Len(s)
  <2>0. L \in Nat /\ L # 0 /\ L # 1
    BY <1>1, <1>4
  <2> HIDE DEF L
  <2>1. L >= 2
    BY <2>0
  <2> USE DEF L
  <2>2. 2 \in 1 .. Len(s) /\ 1 \in 1 .. Len(s) - 1 /\ 1 + 1 = 2 /\ 2 - 1 = 1
    BY <1>1, <2>1
  <2>3. s[2] # Slash
    BY <2>2 DEF Single
  <2> QED
    BY <1>2, <2>2, <2>3
<1>5. Len(s) = 1 => S = {}
  BY <1>1, <1>2, <1>3
<1>6. Cardinality(S) = 0 <=> Len(s) = 1
  BY <1>2, <1>4, <1>5, FS_EmptySet
<1>7. ASSUME Cardinality(S) # 0 PROVE Nth(S, 1) = 2
  <2>1. 2 \in S
    BY <1>4, <1>6, <1>7
  <2>2. Rank(S, 2) = 1
    BY <1>2, <1>3, <2>1, RankFirst
  <2> QED
    BY <1>2, <2>1, <2>2, RankOfElement
<1> QED
  BY <1>6, <1>7 DEF S

(* And each of the others behind the slash that ends the one before. *)
LEMMA NextPart ==
  ASSUME NEW s \in String, Single(s), NEW n \in Nat \ {0}, n + 1 <= Cardinality(Starts(s))
  PROVE  Nth(Starts(s), n + 1) = PartEnd(s, Nth(Starts(s), n)) + 2
<1> DEFINE S == Starts(s)
           k == Nth(S, n)
           l == Nth(S, n + 1)
           e == PartEnd(s, k)
<1>1. Len(s) \in Nat
  BY StringIs
<1>2. /\ S \in SUBSET Nat /\ IsFiniteSet(S) /\ Cardinality(S) \in Nat
      /\ \A x : x \in S <=> x \in 1 .. Len(s) /\ s[x] # Slash /\ (x = 1 \/ s[x - 1] = Slash)
  BY StartsAre
<1>3. n \in 1 .. Cardinality(S) /\ n + 1 \in 1 .. Cardinality(S) /\ n < n + 1
  BY <1>2
<1> HIDE DEF S
<1>4. k \in S /\ l \in S /\ k < l /\ \A x \in S : x <= k \/ l <= x
  BY <1>2, <1>3, NthIs, NthGrows, NoneBetween
<1> HIDE DEF k, l
<1>5. k \in 1 .. Len(s) /\ s[k] # Slash /\ l \in 1 .. Len(s) /\ s[l] # Slash /\ s[l - 1] = Slash
  BY <1>2, <1>4
<1>6. e \in k .. Len(s) /\ (\A x \in k .. e : s[x] # Slash) /\ (e = Len(s) \/ s[e + 1] = Slash)
  BY <1>5, PartIs DEF Ending
<1> HIDE DEF e
<1>7. l > e
  <2>1. l <= e => l - 1 \in k .. e
    BY <1>1, <1>4, <1>5, <1>6
  <2>2. ~(l <= e)
    BY <1>5, <1>6, <2>1
  <2> QED
    BY <1>1, <1>5, <1>6, <2>2
<1>8. e + 1 \in 1 .. Len(s) /\ s[e + 1] = Slash /\ l # e + 1
  BY <1>1, <1>5, <1>6, <1>7
<1>9. e + 1 \in 1 .. Len(s) - 1 /\ e + 2 \in 1 .. Len(s) /\ (e + 1) + 1 = e + 2 /\ (e + 2) - 1 = e + 1
  <2>1. e \in Nat /\ l \in Nat /\ k \in Nat /\ k >= 1 /\ e >= k /\ l <= Len(s)
    BY <1>1, <1>5, <1>6
  <2>2. l >= e + 2
    BY <1>7, <1>8, <2>1
  <2> QED
    BY <1>1, <2>1, <2>2
<1>10. s[e + 2] # Slash
  BY <1>8, <1>9 DEF Single
<1>11. e + 2 \in S
  BY <1>2, <1>8, <1>9, <1>10
<1>12. l = e + 2
  BY <1>1, <1>4, <1>5, <1>6, <1>7, <1>8, <1>11
<1> QED
  BY <1>12 DEF S, k, l, e

(* A path that ends in a slash ends right behind its last part. *)
LEMMA LastPart ==
  ASSUME NEW s \in String, Single(s), s # <<>>, s[Len(s)] = Slash, Cardinality(Starts(s)) # 0
  PROVE  Len(s) = PartEnd(s, Nth(Starts(s), Cardinality(Starts(s)))) + 1
<1> DEFINE S == Starts(s)
           N == Cardinality(S)
           k == Nth(S, N)
           e == PartEnd(s, k)
<1>1. Len(s) \in Nat
  BY StringIs
<1>2. /\ S \in SUBSET Nat /\ IsFiniteSet(S) /\ N \in Nat
      /\ \A x : x \in S <=> x \in 1 .. Len(s) /\ s[x] # Slash /\ (x = 1 \/ s[x - 1] = Slash)
  BY StartsAre
<1>3. N \in 1 .. Cardinality(S) /\ N # 0
  BY <1>2
<1> HIDE DEF S
<1>4. k \in S
  BY <1>2, <1>3, NthIs
<1>5. \A x \in S : x <= k
  BY <1>2, <1>3, LastNth
<1> HIDE DEF k
<1>6. k \in 1 .. Len(s) /\ s[k] # Slash
  BY <1>2, <1>4
<1>7. e \in k .. Len(s) /\ (\A x \in k .. e : s[x] # Slash) /\ (e = Len(s) \/ s[e + 1] = Slash)
  BY <1>6, PartIs DEF Ending
<1> HIDE DEF e
<1>8. e # Len(s) /\ s[e + 1] = Slash
  <2>1. e \in k .. e
    BY <1>1, <1>6, <1>7
  <2> QED
    BY <1>7, <2>1
<1>9. ASSUME e + 1 # Len(s) PROVE FALSE
  <2>1. e + 1 \in 1 .. Len(s) - 1 /\ e + 2 \in 1 .. Len(s) /\ (e + 1) + 1 = e + 2 /\ (e + 2) - 1 = e + 1
    BY <1>1, <1>6, <1>7, <1>8, <1>9
  <2>2. s[e + 2] # Slash
    BY <1>8, <2>1 DEF Single
  <2>3. e + 2 \in S
    BY <1>2, <1>8, <2>1, <2>2
  <2> QED
    BY <1>1, <1>5, <1>6, <1>7, <2>3
<1>10. Len(s) = e + 1
  BY <1>9
<1> QED
  BY <1>10 DEF S, N, k, e

-----------------------------------------------------------------------------
(* Two paths that begin with the same parts. *)

(* Parts of equal length that begin at the same place end at the same.     *)
LEMMA EndAlike ==
  ASSUME NEW p \in String, NEW t \in String,
         NEW n \in 1 .. Cardinality(Starts(p)), n \in 1 .. Cardinality(Starts(t)),
         Chunks(p)[n] = Chunks(t)[n], Nth(Starts(p), n) = Nth(Starts(t), n)
  PROVE  PartEnd(p, Nth(Starts(p), n)) = PartEnd(t, Nth(Starts(t), n))
<1> DEFINE k == Nth(Starts(p), n)
<1>1. k \in Starts(p) /\ k \in Starts(t)
  BY StartsAre, NthIs
<1>2. PartAt(p, k) = PartAt(t, k)
  BY ChunksAre
<1> HIDE DEF k
<1>3. /\ k \in 1 .. Len(p) /\ p[k] # Slash /\ k \in 1 .. Len(t) /\ t[k] # Slash
      /\ Len(p) \in Nat /\ Len(t) \in Nat
  BY <1>1, StartsAre, StringIs
<1>4. Len(PartAt(p, k)) = PartEnd(p, k) - k + 1 /\ PartEnd(p, k) \in k .. Len(p)
  BY <1>3, PartIs
<1>5. Len(PartAt(t, k)) = PartEnd(t, k) - k + 1 /\ PartEnd(t, k) \in k .. Len(t)
  BY <1>3, PartIs
<1>6. k \in Nat /\ PartEnd(p, k) \in Nat /\ PartEnd(t, k) \in Nat
  BY <1>3, <1>4, <1>5
<1>7. PartEnd(p, k) - k + 1 = PartEnd(t, k) - k + 1
  BY <1>2, <1>4, <1>5
<1>8. PartEnd(p, k) = PartEnd(t, k)
  BY <1>6, <1>7
<1> QED
  BY <1>8 DEF k

(* So equal parts are at equal places. *)
LEMMA StartAlike ==
  ASSUME NEW p \in String, Single(p), p # <<>>, p[1] = Slash,
         NEW t \in String, Single(t), t # <<>>, t[1] = Slash,
         NEW m \in Nat, m <= Cardinality(Starts(p)), m <= Cardinality(Starts(t)),
         \A n \in 1 .. m : Chunks(p)[n] = Chunks(t)[n]
  PROVE  \A n \in 1 .. m : Nth(Starts(p), n) = Nth(Starts(t), n)
<1> DEFINE Q == {k \in Nat : k + 1 <= m => Nth(Starts(p), k + 1) = Nth(Starts(t), k + 1)}
<1>1. Cardinality(Starts(p)) \in Nat /\ Cardinality(Starts(t)) \in Nat
  BY StartsAre
<1>2. 0 \in Q
  <2> SUFFICES ASSUME 1 <= m PROVE Nth(Starts(p), 1) = Nth(Starts(t), 1)
    OBVIOUS
  <2>1. Cardinality(Starts(p)) # 0 /\ Cardinality(Starts(t)) # 0
    BY <1>1
  <2> QED
    BY <2>1, FirstPart
<1>3. ASSUME NEW k \in Nat, k \in Q PROVE k + 1 \in Q
  <2> SUFFICES ASSUME (k + 1) + 1 <= m
               PROVE  Nth(Starts(p), (k + 1) + 1) = Nth(Starts(t), (k + 1) + 1)
    OBVIOUS
  <2> DEFINE n == k + 1
  <2>1. n \in Nat \ {0} /\ n \in 1 .. m /\ n \in 1 .. Cardinality(Starts(p))
        /\ n \in 1 .. Cardinality(Starts(t))
        /\ n + 1 <= Cardinality(Starts(p)) /\ n + 1 <= Cardinality(Starts(t))
    BY <1>1
  <2>2. Nth(Starts(p), n) = Nth(Starts(t), n)
    BY <1>3
  <2> HIDE DEF n
  <2>3. PartEnd(p, Nth(Starts(p), n)) = PartEnd(t, Nth(Starts(t), n))
    BY <2>1, <2>2, EndAlike
  <2>4. /\ Nth(Starts(p), n + 1) = PartEnd(p, Nth(Starts(p), n)) + 2
        /\ Nth(Starts(t), n + 1) = PartEnd(t, Nth(Starts(t), n)) + 2
    BY <2>1, NextPart
  <2>5. Nth(Starts(p), n + 1) = Nth(Starts(t), n + 1)
    BY <2>3, <2>4
  <2> QED
    BY <2>5 DEF n
<1> HIDE DEF Q
<1>4. \A k \in Nat : k \in Q
  BY <1>2, <1>3, AllNumbers
<1>5. ASSUME NEW n \in 1 .. m PROVE Nth(Starts(p), n) = Nth(Starts(t), n)
  <2>1. n - 1 \in Nat /\ (n - 1) + 1 = n /\ n <= m
    OBVIOUS
  <2>2. n - 1 \in Q
    BY <1>4, <2>1
  <2> QED
    BY <2>1, <2>2 DEF Q
<1> QED
  BY <1>5

(* The path of a location whose parts a target begins with reaches no      *)
(* further into the target than to the slash behind these parts.           *)
LEMMA MatchEnds ==
  ASSUME NEW p \in String, Single(p), p # <<>>, p[1] = Slash, p[Len(p)] = Slash,
         NEW t \in String, Single(t), t # <<>>, t[1] = Slash,
         Len(Chunks(p)) <= Len(Chunks(t)),
         \A n \in DOMAIN Chunks(p) : Chunks(p)[n] = Chunks(t)[n]
  PROVE  /\ Len(p) - 1 <= Len(t)
         /\ Len(p) <= Len(t) => t[Len(p)] = Slash
         /\ Rank(Starts(t), Len(p) - 1) = Len(Chunks(p))
         /\ Rank(Starts(t), Len(p)) = Len(Chunks(p))
<1> DEFINE S == Starts(t)
           M == Cardinality(Starts(p))
           N == Cardinality(S)
<1>1. Len(p) \in Nat /\ Len(p) # 0 /\ Len(t) \in Nat
  BY StringIs DEF String
<1>2. /\ S \in SUBSET Nat /\ IsFiniteSet(S) /\ N \in Nat /\ M \in Nat
      /\ \A x : x \in S <=> x \in 1 .. Len(t) /\ t[x] # Slash /\ (x = 1 \/ t[x - 1] = Slash)
  BY StartsAre
<1>3. Len(Chunks(p)) = M /\ M <= N /\ \A n \in 1 .. M : Chunks(p)[n] = Chunks(t)[n]
  BY ChunksAre
<1>4. \A n \in 1 .. M : Nth(Starts(p), n) = Nth(S, n)
  <2>1. M \in Nat /\ M <= Cardinality(Starts(p)) /\ M <= Cardinality(Starts(t))
    BY <1>2, <1>3
  <2>2. \A n \in 1 .. M : Chunks(p)[n] = Chunks(t)[n]
    BY <1>3
  <2> HIDE DEF M
  <2>3. \A n \in 1 .. M : Nth(Starts(p), n) = Nth(Starts(t), n)
    BY <2>1, <2>2, StartAlike
  <2> QED
    BY <2>3 DEF S
<1>5. CASE M = 0
  <2>1. Len(p) = 1
    BY <1>5, FirstPart
  <2> HIDE DEF S
  <2>2. \A x \in S : ~(x <= 1) /\ ~(x <= 0)
    BY <1>2
  <2>3. UpTo(S, 0) = {} /\ UpTo(S, 1) = {}
    BY <2>2 DEF UpTo
  <2>4. Rank(S, 0) = 0 /\ Rank(S, 1) = 0
    BY <2>3, FS_EmptySet DEF Rank
  <2>5. 1 - 1 = 0 /\ 0 <= Len(t)
    BY <1>1
  <2> QED
    BY <1>3, <1>5, <2>1, <2>4, <2>5 DEF S
<1>6. CASE M # 0
  <2> DEFINE k == Nth(S, M)
             e == PartEnd(t, k)
  <2>1. M \in 1 .. M /\ M \in 1 .. N /\ M \in Nat \ {0} /\ M \in 1 .. Cardinality(Starts(p))
    BY <1>2, <1>3, <1>6
  <2>2. Nth(Starts(p), M) = k
    BY <1>4, <2>1
  <2>3. PartEnd(p, Nth(Starts(p), M)) = e
    BY <1>3, <2>1, <2>2, EndAlike
  <2>4. Len(p) = e + 1
    BY <1>6, <2>3, LastPart
  <2>5. M + 1 <= N => Nth(S, M + 1) = e + 2
    BY <2>1, NextPart
  <2> HIDE DEF S, M
  <2>6. k \in S
    BY <1>2, <2>1, NthIs
  <2>7. k \in 1 .. Len(t) /\ t[k] # Slash
    BY <1>2, <2>6
  <2>8. Ending(t, k, e) /\ e \in k .. Len(t)
    BY <2>7, PartIs
  <2>9. k \in Nat /\ e \in Nat /\ e + 1 \in Nat /\ k <= e /\ k <= e + 1 /\ e <= Len(t)
    BY <1>1, <2>7, <2>8
  <2>10. Rank(S, e) = M
    <3>1. M + 1 <= N => e < Nth(S, M + 1)
      BY <2>5, <2>9
    <3> HIDE DEF e
    <3> QED
      BY <1>2, <2>1, <2>9, <3>1, RankBetween
  <2>11. Rank(S, e + 1) = M
    <3>1. M + 1 <= N => e + 1 < Nth(S, M + 1)
      BY <2>5, <2>9
    <3> HIDE DEF e
    <3> QED
      BY <1>2, <2>1, <2>9, <3>1, RankBetween
  <2>12. Len(p) - 1 = e
    BY <2>4, <2>9
  <2>13. ASSUME Len(p) <= Len(t) PROVE t[Len(p)] = Slash
    <3>1. e # Len(t)
      BY <1>1, <2>4, <2>9, <2>13
    <3> QED
      BY <2>4, <2>8, <3>1 DEF Ending
  <2> HIDE DEF k, e
  <2> QED
    BY <1>3, <2>4, <2>9, <2>10, <2>11, <2>12, <2>13 DEF S, M
<1> QED
  BY <1>5, <1>6

-----------------------------------------------------------------------------
(* What substr() is asked for. *)

(* The path of a directive, to which it appends a slash. *)
LEMMA DirPath ==
  ASSUME NEW s \in String
  PROVE  LET p == Path(Append(s, Slash))
         IN  /\ p.str \in String /\ Single(p.str) /\ p.str # <<>> /\ p.str[Len(p.str)] = Slash
             /\ s # <<>> /\ s[1] = Slash => p.str[1] = Slash
             /\ p.chunks = Chunks(p.str)
             /\ IsDirFormat(p)
<1> DEFINE a == Append(s, Slash)
           p == Path(a)
<1>1. a \in String /\ a # <<>> /\ a[Len(a)] = Slash /\ (s # <<>> => a[1] = s[1])
  BY RoutingAssumption DEF String
<1> HIDE DEF a
<1>2. p.str = Normalised(a) /\ p.chunks = Chunks(Normalised(a))
  BY DEF Path
<1>3. IsDirFormat(p)
  BY <1>1, LastSlashStays
<1> HIDE DEF p
<1>4. /\ p.str \in String /\ Single(p.str)
      /\ a[1] = Slash => p.str # <<>> /\ p.str[1] = Slash
  BY <1>1, <1>2, NormalisedIs
<1>5. p.str # <<>> /\ p.str[Len(p.str)] = Slash
  BY <1>3 DEF IsDirFormat
<1> QED
  BY <1>1, <1>2, <1>3, <1>4, <1>5 DEF a, p

LEMMA TargetPath ==
  ASSUME TypeOK
  PROVE  /\ target \in String /\ target # <<>> /\ target[1] = Slash
         /\ Path(target).str = Normalised(target) /\ Path(target).chunks = Chunks(Normalised(target))
         /\ Normalised(target) \in String /\ Single(Normalised(target))
         /\ Normalised(target) # <<>> /\ Normalised(target)[1] = Slash
         /\ Len(Normalised(target)) <= Len(target)
<1>1. target \in String /\ target # <<>> /\ target[1] = Slash
  BY RoutingAssumption DEF TypeOK
<1> QED
  BY <1>1, NormalisedIs DEF Path

LEMMA SelectedPaths ==
  ASSUME TypeOK, selected # None
  PROVE  /\ selected \in DOMAIN Locations
         /\ Locations[selected].path \in String /\ Locations[selected].path # <<>>
         /\ Locations[selected].path[1] = Slash
         /\ Locations[selected].root \in String
<1>1. blocks \in Seq(ServerBlock) /\ block \in DOMAIN blocks /\ blocks \in Servers
  BY RoutingAssumption DEF TypeOK
<1>2. selected \in DOMAIN Locations
  BY DEF TypeOK, Locations
<1>3. Locations \in Seq(Location)
  <2>1. blocks[block] \in ServerBlock
    BY <1>1
  <2> QED
    BY <2>1 DEF Locations, ServerBlock
<1>4. Locations[selected] \in Location
  BY <1>2, <1>3
<1>5. Locations[selected].path # <<>> /\ Locations[selected].path[1] = Slash
  BY <1>1, <1>2, RoutingAssumption DEF Locations
<1> QED
  BY <1>2, <1>4, <1>5 DEF Location

(* How far the location reaches into the normalised target. *)
LEMMA SelectedEnds ==
  ASSUME TypeOK, selected # None, Matches(selected)
  PROVE  LET p == LocationPath(Locations[selected]).str
             t == Normalised(target)
         IN  /\ Len(p) \in Nat \ {0} /\ Len(p) - 1 <= Len(t)
             /\ Len(p) <= Len(t) => t[Len(p)] = Slash
             /\ Rank(Starts(t), Len(p) - 1) = Length(selected)
             /\ Rank(Starts(t), Len(p)) = Length(selected)
<1> DEFINE loc == Locations[selected]
           p == LocationPath(loc).str
           t == Normalised(target)
<1>1. loc.path \in String /\ loc.path # <<>> /\ loc.path[1] = Slash
  BY SelectedPaths
<1>2. LocationPath(loc) = Path(Append(loc.path, Slash))
  BY DEF LocationPath
<1> HIDE DEF loc
<1>3. /\ p \in String /\ Single(p) /\ p # <<>> /\ p[Len(p)] = Slash /\ p[1] = Slash
      /\ LocationPath(loc).chunks = Chunks(p)
  BY <1>1, <1>2, DirPath
<1>4. t \in String /\ Single(t) /\ t # <<>> /\ t[1] = Slash /\ Path(target).chunks = Chunks(t)
  BY TargetPath
<1>5. PrefixMatch(LocationPath(loc), Path(target)) /\ Length(selected) = Len(LocationPath(loc).chunks)
  BY DEF Matches, Length, loc
<1> HIDE DEF p, t
<1>6. /\ Len(Chunks(p)) <= Len(Chunks(t))
      /\ \A n \in DOMAIN Chunks(p) : Chunks(p)[n] = Chunks(t)[n]
      /\ Length(selected) = Len(Chunks(p))
  BY <1>3, <1>4, <1>5 DEF PrefixMatch
<1>7. Len(p) \in Nat \ {0}
  BY <1>3 DEF String
<1>8. /\ Len(p) - 1 <= Len(t)
      /\ Len(p) <= Len(t) => t[Len(p)] = Slash
      /\ Rank(Starts(t), Len(p) - 1) = Len(Chunks(p))
      /\ Rank(Starts(t), Len(p)) = Len(Chunks(p))
  BY <1>3, <1>4, <1>6, MatchEnds
<1> QED
  BY <1>6, <1>7, <1>8 DEF p, t, loc

(* ARequest::ARequest: the target is never cut behind its end, whatever    *)
(* repeated slashes it or the location has: substr() does not throw.       *)
THEOREM SubstrAlwaysInRange == Spec => []SubstrInRange
<1>1. IInv => SubstrInRange
  <2> SUFFICES ASSUME IInv, pc = "request", selected # None
               PROVE  MatchLength(Locations[selected]) <= Len(target)
    BY DEF SubstrInRange
  <2>1. TypeOK /\ Matches(selected)
    BY DEF IInv, LongestPrefix
  <2> DEFINE p == LocationPath(Locations[selected]).str
             t == Normalised(target)
  <2>2. Len(p) - 1 <= Len(t) /\ Len(p) \in Nat
    BY <2>1, SelectedEnds
  <2>3. Len(t) <= Len(target) /\ Len(t) \in Nat /\ Len(target) \in Nat
    BY <2>1, TargetPath, StringIs
  <2>4. MatchLength(Locations[selected]) = Len(p) - 1
    BY DEF MatchLength
  <2> HIDE DEF p, t
  <2> QED
    BY <2>2, <2>3, <2>4
<1> QED
  BY <1>1, Invariance, PTL

-----------------------------------------------------------------------------
(* The parts of a string that is put together. *)

(* A string that goes on only behind a slash, or with one, keeps its parts. *)
LEMMA PrefixParts ==
  ASSUME NEW a \in String, NEW c \in String, Len(a) <= Len(c),
         \A k \in 1 .. Len(a) : c[k] = a[k],
         Len(a) = Len(c) \/ a = <<>> \/ a[Len(a)] = Slash \/ c[Len(a) + 1] = Slash
  PROVE  /\ \A k \in 1 .. Len(a) : k \in Starts(c) <=> k \in Starts(a)
         /\ \A k \in Starts(a) : PartAt(c, k) = PartAt(a, k)
<1>1. Len(a) \in Nat /\ Len(c) \in Nat
  BY StringIs
<1>2. \A k : k \in Starts(a) <=> k \in 1 .. Len(a) /\ a[k] # Slash /\ (k = 1 \/ a[k - 1] = Slash)
  BY StartsAre
<1>3. \A k : k \in Starts(c) <=> k \in 1 .. Len(c) /\ c[k] # Slash /\ (k = 1 \/ c[k - 1] = Slash)
  BY StartsAre
<1>4. ASSUME NEW k \in 1 .. Len(a) PROVE k \in Starts(c) <=> k \in Starts(a)
  <2>1. k \in 1 .. Len(c) /\ (k = 1 \/ k - 1 \in 1 .. Len(a))
    BY <1>1
  <2>2. c[k] = a[k] /\ (k = 1 \/ c[k - 1] = a[k - 1])
    BY <2>1
  <2> QED
    BY <1>2, <1>3, <2>1, <2>2
<1>5. ASSUME NEW k \in Starts(a) PROVE PartAt(c, k) = PartAt(a, k)
  <2> DEFINE e == PartEnd(a, k)
  <2>1. k \in 1 .. Len(a) /\ a[k] # Slash
    BY <1>2
  <2>2. Ending(a, k, e) /\ e \in k .. Len(a) /\ PartAt(a, k) = SubSeq(a, k, e)
    BY <2>1, PartIs
  <2> HIDE DEF e
  <2>3. k \in Nat \ {0} /\ e \in Nat /\ k <= e /\ e <= Len(a) /\ e <= Len(c) /\ e \in 1 .. Len(a)
    BY <1>1, <2>1, <2>2
  <2>4. \A x \in k .. e : a[x] # Slash
    BY <2>2 DEF Ending
  <2>5. \A x \in k .. e : x \in 1 .. Len(a)
    BY <2>3
  <2>6. \A x \in k .. e : c[x] # Slash
    BY <2>4, <2>5
  <2>7. e = Len(c) \/ c[e + 1] = Slash
    <3>1. CASE e = Len(a)
      <4>1. a[Len(a)] # Slash
        <5>1. e \in k .. e
          BY <2>3
        <5> QED
          BY <2>4, <3>1, <5>1
      <4>2. a # <<>>
        BY <2>3 DEF String
      <4> QED
        BY <3>1, <4>1, <4>2
    <3>2. CASE e # Len(a)
      <4>1. a[e + 1] = Slash /\ e + 1 \in 1 .. Len(a)
        BY <1>1, <2>2, <2>3, <3>2 DEF Ending
      <4> QED
        BY <4>1
    <3> QED
      BY <3>1, <3>2
  <2>8. k \in 1 .. Len(c) /\ e \in k .. Len(c) /\ c[k] # Slash
    BY <1>1, <2>3, <2>6
  <2>9. PartEnd(c, k) = e
    BY <2>6, <2>7, <2>8, EndingIsThe DEF Ending
  <2>10. PartAt(c, k) = SubSeq(c, k, e)
    BY <2>8, <2>9, PartIs
  <2>11. SubSeq(c, k, e) = SubSeq(a, k, e)
    <3> DEFINE u == SubSeq(c, k, e)
               v == SubSeq(a, k, e)
    <3>1. u \in String /\ Len(u) = e - k + 1 /\ \A x \in 1 .. e - k + 1 : u[x] = c[k + x - 1]
      BY <2>3, PartOf
    <3>2. v \in String /\ Len(v) = e - k + 1 /\ \A x \in 1 .. e - k + 1 : v[x] = a[k + x - 1]
      BY <2>3, PartOf
    <3> HIDE DEF u, v
    <3>3. \A x \in 1 .. e - k + 1 : k + x - 1 \in 1 .. Len(a)
      BY <1>1, <2>3
    <3>4. \A x \in 1 .. Len(u) : u[x] = v[x]
      BY <3>1, <3>2, <3>3
    <3>5. u = v
      BY <3>1, <3>2, <3>4, SameString
    <3> QED
      BY <3>5 DEF u, v
  <2> QED
    BY <2>2, <2>10, <2>11
<1> QED
  BY <1>4, <1>5

(* What is put behind a slash keeps its parts, further behind. *)
LEMMA SuffixParts ==
  ASSUME NEW a \in String, NEW b \in String, a = <<>> \/ a[Len(a)] = Slash
  PROVE  /\ \A k \in 1 .. Len(b) : Len(a) + k \in Starts(a \o b) <=> k \in Starts(b)
         /\ \A k \in Starts(b) : PartAt(a \o b, Len(a) + k) = PartAt(b, k)
<1> DEFINE c == a \o b
           n == Len(a)
<1>1. /\ n \in Nat /\ Len(b) \in Nat /\ c \in String /\ Len(c) = n + Len(b)
      /\ \A k \in 1 .. n : c[k] = a[k]
      /\ \A k \in 1 .. Len(b) : c[n + k] = b[k]
  BY StringIs, Joined
<1>2. n = 0 \/ (n \in 1 .. n /\ c[n] = Slash)
  <2>1. a = <<>> => n = 0
    OBVIOUS
  <2> HIDE DEF c
  <2>2. n # 0 => n \in 1 .. n /\ a # <<>>
    BY <1>1, <2>1
  <2> QED
    BY <1>1, <2>2
<1> HIDE DEF c, n
<1>3. \A k : k \in Starts(b) <=> k \in 1 .. Len(b) /\ b[k] # Slash /\ (k = 1 \/ b[k - 1] = Slash)
  BY StartsAre
<1>4. \A k : k \in Starts(c) <=> k \in 1 .. Len(c) /\ c[k] # Slash /\ (k = 1 \/ c[k - 1] = Slash)
  BY <1>1, StartsAre
<1>5. ASSUME NEW k \in 1 .. Len(b) PROVE n + k \in Starts(c) <=> k \in Starts(b)
  <2>1. n + k \in 1 .. Len(c) /\ c[n + k] = b[k] /\ k \in Nat
    BY <1>1
  <2>2. CASE k = 1
    <3>1. n + k = 1 \/ c[(n + k) - 1] = Slash
      BY <1>1, <1>2, <2>2
    <3> QED
      BY <1>3, <1>4, <2>1, <2>2, <3>1
  <2>3. CASE k # 1
    <3>1. k - 1 \in 1 .. Len(b) /\ (n + k) - 1 = n + (k - 1) /\ n + k # 1
      BY <1>1, <2>1, <2>3
    <3>2. c[(n + k) - 1] = b[k - 1]
      BY <1>1, <3>1
    <3> QED
      BY <1>3, <1>4, <2>1, <2>3, <3>1, <3>2
  <2> QED
    BY <2>2, <2>3
<1>6. ASSUME NEW k \in Starts(b) PROVE PartAt(c, n + k) = PartAt(b, k)
  <2> DEFINE e == PartEnd(b, k)
  <2>1. k \in 1 .. Len(b) /\ b[k] # Slash
    BY <1>3
  <2>2. Ending(b, k, e) /\ e \in k .. Len(b) /\ PartAt(b, k) = SubSeq(b, k, e)
    BY <2>1, PartIs
  <2> HIDE DEF e
  <2>3. k \in Nat \ {0} /\ e \in Nat /\ k <= e /\ e <= Len(b)
    BY <1>1, <2>1, <2>2
  <2>4. (\A x \in k .. e : b[x] # Slash) /\ (e = Len(b) \/ b[e + 1] = Slash)
    BY <2>2 DEF Ending
  <2>5. ASSUME NEW x \in n + k .. n + e PROVE c[x] # Slash
    <3>1. x - n \in k .. e /\ x - n \in 1 .. Len(b) /\ n + (x - n) = x
      BY <1>1, <2>3
    <3>2. c[n + (x - n)] = b[x - n]
      BY <1>1, <3>1
    <3> QED
      BY <2>4, <3>1, <3>2
  <2>6. n + e = Len(c) \/ c[n + e + 1] = Slash
    <3>1. CASE e = Len(b)
      BY <1>1, <3>1
    <3>2. CASE e # Len(b)
      <4>1. e + 1 \in 1 .. Len(b) /\ b[e + 1] = Slash /\ n + (e + 1) = n + e + 1
        BY <1>1, <2>3, <2>4, <3>2
      <4>2. c[n + (e + 1)] = b[e + 1]
        BY <1>1, <4>1
      <4> QED
        BY <4>1, <4>2
    <3> QED
      BY <3>1, <3>2
  <2>7. n + k \in 1 .. Len(c) /\ n + e \in n + k .. Len(c) /\ n + k \in n + k .. n + e
    BY <1>1, <2>3
  <2>8. Ending(c, n + k, n + e)
    BY <2>5, <2>6, <2>7 DEF Ending
  <2>9. PartEnd(c, n + k) = n + e
    BY <1>1, <2>7, <2>8, EndingIsThe
  <2>10. PartAt(c, n + k) = SubSeq(c, n + k, n + e)
    BY <1>1, <2>5, <2>7, <2>9, PartIs
  <2>11. SubSeq(c, n + k, n + e) = SubSeq(b, k, e)
    <3> DEFINE u == SubSeq(c, n + k, n + e)
               v == SubSeq(b, k, e)
    <3>1. n + k \in Nat \ {0} /\ n + e \in Nat /\ n + e <= Len(c) /\ n + e >= n + k
          /\ (n + e) - (n + k) + 1 = e - k + 1
      BY <1>1, <2>3
    <3>2. u \in String /\ Len(u) = (n + e) - (n + k) + 1
          /\ \A x \in 1 .. (n + e) - (n + k) + 1 : u[x] = c[n + k + x - 1]
      BY <1>1, <3>1, PartOf
    <3>3. v \in String /\ Len(v) = e - k + 1 /\ \A x \in 1 .. e - k + 1 : v[x] = b[k + x - 1]
      BY <2>3, PartOf
    <3> HIDE DEF u, v
    <3>4. ASSUME NEW x \in 1 .. e - k + 1 PROVE u[x] = v[x]
      <4>1. k + x - 1 \in 1 .. Len(b) /\ n + (k + x - 1) = n + k + x - 1
        BY <1>1, <2>3
      <4>2. c[n + (k + x - 1)] = b[k + x - 1]
        BY <1>1, <4>1
      <4>3. u[x] = c[n + k + x - 1]
        BY <3>1, <3>2
      <4>4. v[x] = b[k + x - 1]
        BY <3>3
      <4> QED
        BY <4>1, <4>2, <4>3, <4>4
    <3>5. Len(u) = Len(v) /\ \A x \in 1 .. Len(u) : u[x] = v[x]
      BY <3>1, <3>2, <3>3, <3>4
    <3>6. u = v
      BY <3>2, <3>3, <3>5, SameString
    <3> QED
      BY <3>6 DEF u, v
  <2> QED
    BY <2>2, <2>10, <2>11
<1> QED
  BY <1>5, <1>6 DEF c, n

(* Shifting a set does not change how many it has. *)
LEMMA ShiftedCard ==
  ASSUME NEW S \in SUBSET Nat, IsFiniteSet(S), NEW n \in Nat
  PROVE  /\ IsFiniteSet({n + x : x \in S})
         /\ Cardinality({n + x : x \in S}) = Cardinality(S)
<1> DEFINE T == {n + x : x \in S}
           f == [x \in S |-> n + x]
<1>1. f \in [S -> T]
  OBVIOUS
<1>2. \A x, y \in S : f[x] = f[y] => x = y
  <2>1. \A x, y \in S : x \in Nat /\ y \in Nat /\ (n + x = n + y => x = y)
    OBVIOUS
  <2> QED
    BY <2>1
<1>3. \A t \in T : \E x \in S : f[x] = t
  OBVIOUS
<1> HIDE DEF f, T
<1>4. f \in Bijection(S, T)
  <2>1. f \in Surjection(S, T)
    BY <1>1, <1>3 DEF Surjection
  <2>2. DOMAIN f = S
    BY <1>1
  <2>3. f \in Injection(S, T)
    BY <1>1, <1>2, <2>2 DEF Injection, IsInjective
  <2> QED
    BY <2>1, <2>3 DEF Bijection
<1>5. ExistsBijection(S, T)
  BY <1>4 DEF ExistsBijection
<1> QED
  BY <1>5, FS_Bijection DEF T

(* What is put together behind a slash has the parts of both. *)
LEMMA RankJoined ==
  ASSUME NEW a \in String, NEW b \in String, a = <<>> \/ a[Len(a)] = Slash
  PROVE  /\ \A k \in Starts(a) : k \in Starts(a \o b) /\ Rank(Starts(a \o b), k) = Rank(Starts(a), k)
         /\ \A k \in Starts(b) :
               /\ Len(a) + k \in Starts(a \o b)
               /\ Rank(Starts(a \o b), Len(a) + k) = Cardinality(Starts(a)) + Rank(Starts(b), k)
         /\ Cardinality(Starts(a \o b)) = Cardinality(Starts(a)) + Cardinality(Starts(b))
<1> DEFINE c == a \o b
           n == Len(a)
           A == Starts(a)
           B == Starts(b)
           C == Starts(c)
<1>1. /\ n \in Nat /\ Len(b) \in Nat /\ c \in String /\ Len(c) = n + Len(b)
      /\ \A k \in 1 .. n : c[k] = a[k]
  BY StringIs, Joined
<1>2. \A k \in 1 .. n : k \in C <=> k \in A
  <2> HIDE DEF c
  <2>1. n <= Len(c)
    BY <1>1
  <2> QED
    BY <1>1, <2>1, PrefixParts
<1>3. \A k \in 1 .. Len(b) : n + k \in C <=> k \in B
  BY SuffixParts
<1>4. /\ A \in SUBSET Nat /\ IsFiniteSet(A) /\ A \subseteq 1 .. n /\ Cardinality(A) \in Nat
      /\ B \in SUBSET Nat /\ IsFiniteSet(B) /\ B \subseteq 1 .. Len(b) /\ Cardinality(B) \in Nat
  BY StartsAre
<1>5. C \in SUBSET Nat /\ IsFiniteSet(C) /\ C \subseteq 1 .. Len(c)
  BY <1>1, StartsAre
<1> HIDE DEF A, B, C, c, n
<1>6. ASSUME NEW k \in A PROVE k \in C /\ Rank(C, k) = Rank(A, k)
  <2>1. k \in 1 .. n /\ k \in Nat
    BY <1>4
  <2>2. UpTo(C, k) \subseteq UpTo(A, k)
    <3> SUFFICES ASSUME NEW x \in C, x <= k PROVE x \in A
      BY DEF UpTo
    <3>1. x \in 1 .. n
      BY <1>1, <1>5, <2>1
    <3> QED
      BY <1>2, <3>1
  <2>3. UpTo(A, k) \subseteq UpTo(C, k)
    BY <1>2, <1>4 DEF UpTo
  <2>4. UpTo(C, k) = UpTo(A, k)
    BY <2>2, <2>3
  <2> QED
    BY <1>2, <2>1, <2>4 DEF Rank
<1>7. ASSUME NEW k \in 0 .. Len(b) PROVE Rank(C, n + k) = Cardinality(A) + Rank(B, k)
  <2> DEFINE U == UpTo(B, k)
             T == {n + x : x \in U}
  <2>1. k \in Nat /\ k <= Len(b)
    BY <1>1
  <2>2. U \in SUBSET Nat /\ IsFiniteSet(U) /\ U \subseteq B /\ \A x \in U : x \in B /\ x <= k
    BY <1>4, <2>1, RankIs DEF UpTo
  <2>3. \A x \in B : x <= k => x \in U
    BY DEF UpTo
  <2> HIDE DEF U
  <2>4. IsFiniteSet(T) /\ Cardinality(T) = Cardinality(U)
    BY <1>1, <2>2, ShiftedCard
  <2>5. A \cap T = {}
    <3> SUFFICES ASSUME NEW x \in U, n + x \in A PROVE FALSE
      OBVIOUS
    <3>1. x \in 1 .. Len(b) /\ n + x \in 1 .. n
      BY <1>4, <2>2
    <3> QED
      BY <1>1, <3>1
  <2>6. UpTo(C, n + k) \subseteq A \cup T
    <3> SUFFICES ASSUME NEW x \in C, x <= n + k, x \notin A PROVE x \in T
      BY DEF UpTo
    <3>1. x \in 1 .. n + Len(b) /\ x \notin 1 .. n
      BY <1>1, <1>2, <1>5
    <3>2. x - n \in 1 .. Len(b) /\ n + (x - n) = x /\ x - n <= k
      BY <1>1, <2>1, <3>1
    <3>3. x - n \in B
      BY <1>3, <3>2
    <3>4. x - n \in U
      BY <2>3, <3>2, <3>3
    <3> QED
      BY <3>2, <3>4
  <2>7. A \cup T \subseteq UpTo(C, n + k)
    <3>1. ASSUME NEW x \in A PROVE x \in C /\ x <= n + k
      <4>1. x \in 1 .. n
        BY <1>4
      <4> QED
        BY <1>1, <1>2, <2>1, <4>1
    <3>2. ASSUME NEW x \in U PROVE n + x \in C /\ n + x <= n + k
      <4>1. x \in 1 .. Len(b) /\ x \in B /\ x <= k
        BY <1>4, <2>2
      <4> QED
        BY <1>1, <1>3, <2>1, <4>1
    <3>3. \A y \in A \cup T : y \in C /\ y <= n + k
      BY <3>1, <3>2
    <3> QED
      BY <3>3 DEF UpTo
  <2>8. UpTo(C, n + k) = A \cup T
    BY <2>6, <2>7
  <2> HIDE DEF T
  <2>9. Cardinality(A \cup T) = Cardinality(A) + Cardinality(T) - Cardinality(A \cap T)
    BY <1>4, <2>4, FS_Union
  <2>10. Cardinality(A \cap T) = 0
    BY <2>5, FS_EmptySet
  <2>11. Cardinality(U) \in Nat
    BY <2>2, FS_CardinalityType
  <2>12. Cardinality(A \cup T) = Cardinality(A) + Cardinality(U)
    BY <1>4, <2>4, <2>9, <2>10, <2>11
  <2> QED
    BY <2>8, <2>12 DEF Rank, U
<1>8. ASSUME NEW k \in B PROVE n + k \in C /\ Rank(C, n + k) = Cardinality(A) + Rank(B, k)
  <2>1. k \in 1 .. Len(b) /\ k \in 0 .. Len(b)
    BY <1>1, <1>4
  <2> QED
    BY <1>3, <1>7, <2>1
<1>9. Cardinality(C) = Cardinality(A) + Cardinality(B)
  <2>1. Len(b) \in 0 .. Len(b)
    BY <1>1
  <2>2. Rank(C, n + Len(b)) = Cardinality(A) + Rank(B, Len(b))
    BY <1>7, <2>1
  <2>3. \A x \in B : x <= Len(b)
    BY <1>1, <1>4
  <2>4. Rank(B, Len(b)) = Cardinality(B)
    BY <1>1, <1>4, <2>3, RankIs
  <2>5. n + Len(b) \in Nat /\ \A x \in C : x <= n + Len(b)
    BY <1>1, <1>5
  <2>6. Rank(C, n + Len(b)) = Cardinality(C)
    BY <1>5, <2>5, RankIs
  <2> QED
    BY <2>2, <2>4, <2>6
<1> QED
  BY <1>6, <1>8, <1>9 DEF A, B, C, c, n

LEMMA ChunksType ==
  ASSUME NEW s \in String
  PROVE  Chunks(s) \in Seq(String)
<1> DEFINE N == Cardinality(Starts(s))
<1>1. ASSUME NEW n \in 1 .. N PROVE PartAt(s, Nth(Starts(s), n)) \in String
  <2> DEFINE k == Nth(Starts(s), n)
             e == PartEnd(s, k)
  <2>1. k \in Starts(s)
    BY StartsAre, NthIs
  <2> HIDE DEF k
  <2>2. k \in 1 .. Len(s) /\ s[k] # Slash /\ Len(s) \in Nat
    BY <2>1, StartsAre, StringIs
  <2>3. e \in k .. Len(s) /\ PartAt(s, k) = SubSeq(s, k, e)
    BY <2>2, PartIs
  <2> HIDE DEF e
  <2>4. k \in Nat \ {0} /\ e \in Nat /\ e <= Len(s)
    BY <2>2, <2>3
  <2>5. SubSeq(s, k, e) \in String
    BY <2>4, PartOf
  <2> QED
    BY <2>3, <2>5 DEF k
<1>2. Chunks(s) = [n \in 1 .. N |-> PartAt(s, Nth(Starts(s), n))] /\ N \in Nat
  BY ChunksAre, StartsAre
<1> HIDE DEF N
<1>3. Chunks(s) \in [1 .. N -> String]
  BY <1>1, <1>2
<1> QED
  BY <1>2, <1>3

LEMMA SameParts ==
  ASSUME NEW u \in Seq(String), NEW v \in Seq(String), Len(u) = Len(v),
         \A k \in 1 .. Len(u) : u[k] = v[k]
  PROVE  u = v
  OBVIOUS

LEMMA PartsJoined ==
  ASSUME NEW u \in Seq(String), NEW v \in Seq(String)
  PROVE  /\ u \o v \in Seq(String) /\ Len(u) \in Nat /\ Len(v) \in Nat
         /\ Len(u \o v) = Len(u) + Len(v)
         /\ \A k \in 1 .. Len(u) : (u \o v)[k] = u[k]
         /\ \A k \in 1 .. Len(v) : (u \o v)[Len(u) + k] = v[k]
  OBVIOUS

LEMMA ChunksJoined ==
  ASSUME NEW a \in String, NEW b \in String, a = <<>> \/ a[Len(a)] = Slash
  PROVE  Chunks(a \o b) = Chunks(a) \o Chunks(b)
<1> DEFINE c == a \o b
           A == Starts(a)
           B == Starts(b)
           C == Starts(c)
           M == Cardinality(A)
           N == Cardinality(B)
           u == Chunks(a)
           v == Chunks(b)
           w == Chunks(c)
<1>1. c \in String /\ Len(a) \in Nat /\ Len(b) \in Nat /\ Len(c) = Len(a) + Len(b)
      /\ \A k \in 1 .. Len(a) : c[k] = a[k]
  BY StringIs, Joined
<1>2. /\ A \in SUBSET Nat /\ IsFiniteSet(A) /\ B \in SUBSET Nat /\ IsFiniteSet(B)
      /\ C \in SUBSET Nat /\ IsFiniteSet(C) /\ M \in Nat /\ N \in Nat
  BY <1>1, StartsAre
<1>3. /\ \A k \in A : k \in C /\ Rank(C, k) = Rank(A, k)
      /\ \A k \in B : Len(a) + k \in C /\ Rank(C, Len(a) + k) = M + Rank(B, k)
      /\ Cardinality(C) = M + N
  BY RankJoined
<1>4. \A k \in A : PartAt(c, k) = PartAt(a, k)
  <2> HIDE DEF c
  <2>1. Len(a) <= Len(c)
    BY <1>1
  <2> QED
    BY <1>1, <2>1, PrefixParts
<1>5. \A k \in B : PartAt(c, Len(a) + k) = PartAt(b, k)
  BY SuffixParts
<1>6. /\ u \in Seq(String) /\ Len(u) = M /\ \A n \in 1 .. M : u[n] = PartAt(a, Nth(A, n))
      /\ v \in Seq(String) /\ Len(v) = N /\ \A n \in 1 .. N : v[n] = PartAt(b, Nth(B, n))
  BY ChunksAre, ChunksType
<1>7. w \in Seq(String) /\ Len(w) = M + N /\ \A n \in 1 .. M + N : w[n] = PartAt(c, Nth(C, n))
  BY <1>1, <1>3, ChunksAre, ChunksType
<1> HIDE DEF A, B, C, c, u, v, w
<1>8. ASSUME NEW n \in 1 .. M PROVE w[n] = u[n]
  <2> DEFINE k == Nth(A, n)
  <2>1. k \in A /\ Rank(A, k) = n
    BY <1>2, NthIs
  <2> HIDE DEF k
  <2>2. k \in C /\ Rank(C, k) = n
    BY <1>3, <2>1
  <2>3. Nth(C, n) = k
    BY <1>2, <2>2, RankOfElement
  <2>4. n \in 1 .. M + N
    BY <1>2
  <2>5. w[n] = PartAt(c, k)
    BY <1>7, <2>3, <2>4
  <2> QED
    BY <1>4, <1>6, <2>1, <2>5 DEF k
<1>9. ASSUME NEW n \in 1 .. N PROVE w[M + n] = v[n]
  <2> DEFINE k == Nth(B, n)
  <2>1. k \in B /\ Rank(B, k) = n
    BY <1>2, NthIs
  <2> HIDE DEF k
  <2>2. Len(a) + k \in C /\ Rank(C, Len(a) + k) = M + n
    BY <1>3, <2>1
  <2>3. Nth(C, M + n) = Len(a) + k
    BY <1>2, <2>2, RankOfElement
  <2>4. M + n \in 1 .. M + N
    BY <1>2
  <2>5. w[M + n] = PartAt(c, Len(a) + k)
    BY <1>7, <2>3, <2>4
  <2> QED
    BY <1>5, <1>6, <2>1, <2>5 DEF k
<1> HIDE DEF M, N
<1>10. /\ u \o v \in Seq(String) /\ Len(u \o v) = M + N
       /\ \A k \in 1 .. M : (u \o v)[k] = u[k]
       /\ \A k \in 1 .. N : (u \o v)[M + k] = v[k]
  BY <1>6, PartsJoined
<1>11. ASSUME NEW k \in 1 .. M + N PROVE w[k] = (u \o v)[k]
  <2>1. CASE k \in 1 .. M
    BY <1>8, <1>10, <2>1
  <2>2. CASE k \notin 1 .. M
    <3>1. k - M \in 1 .. N /\ M + (k - M) = k
      BY <1>2, <2>2
    <3>2. w[M + (k - M)] = v[k - M] /\ (u \o v)[M + (k - M)] = v[k - M]
      BY <1>9, <1>10, <3>1
    <3> QED
      BY <3>1, <3>2
  <2> QED
    BY <2>1, <2>2
<1>12. w = u \o v
  <2> DEFINE x == u \o v
  <2>1. x \in Seq(String) /\ Len(x) = Len(w) /\ \A k \in 1 .. Len(w) : w[k] = x[k]
    BY <1>7, <1>10, <1>11
  <2> HIDE DEF x
  <2>2. w = x
    BY <1>7, <2>1, SameParts
  <2> QED
    BY <2>2 DEF x
<1> QED
  BY <1>12 DEF u, v, w, c

(* A slash at the end begins no part. *)
LEMMA ChunksOfFront ==
  ASSUME NEW a \in String, NEW c \in String, Len(c) = Len(a) + 1, c[Len(a) + 1] = Slash,
         \A k \in 1 .. Len(a) : c[k] = a[k]
  PROVE  Chunks(c) = Chunks(a)
<1>1. Len(a) \in Nat /\ Len(a) <= Len(c)
  <2>1. Len(a) \in Nat
    BY StringIs
  <2> QED
    BY <2>1
<1>2. /\ \A k \in 1 .. Len(a) : k \in Starts(c) <=> k \in Starts(a)
      /\ \A k \in Starts(a) : PartAt(c, k) = PartAt(a, k)
  BY <1>1, PrefixParts
<1>3. /\ Starts(a) \subseteq 1 .. Len(a) /\ Starts(c) \subseteq 1 .. Len(c)
      /\ Len(a) + 1 \notin Starts(c)
      /\ Starts(a) \in SUBSET Nat /\ IsFiniteSet(Starts(a)) /\ Cardinality(Starts(a)) \in Nat
  BY StartsAre
<1>4. Starts(c) = Starts(a)
  <2>1. \A k \in 1 .. Len(c) : k = Len(a) + 1 \/ k \in 1 .. Len(a)
    BY <1>1
  <2> QED
    BY <1>2, <1>3, <2>1
<1> DEFINE S == Starts(a)
           N == Cardinality(S)
<1>5. \A n \in 1 .. N : PartAt(c, Nth(S, n)) = PartAt(a, Nth(S, n))
  BY <1>2, <1>3, NthIs
<1>6. /\ Chunks(a) = [n \in 1 .. N |-> PartAt(a, Nth(S, n))]
      /\ Chunks(c) = [n \in 1 .. N |-> PartAt(c, Nth(S, n))]
  BY <1>4, ChunksAre
<1> HIDE DEF S, N
<1> QED
  BY <1>5, <1>6

-----------------------------------------------------------------------------
(* What the constructor makes of the rest. *)

(* A part of a string without repeated slashes has none.                   *)
LEMMA SinglePart ==
  ASSUME NEW s \in String, Single(s), NEW m \in Nat \ {0}, NEW n \in Nat, n <= Len(s)
  PROVE  Single(SubSeq(s, m, n))
<1> DEFINE u == SubSeq(s, m, n)
<1>1. Len(u) = (IF n >= m THEN n - m + 1 ELSE 0) /\ \A k \in 1 .. n - m + 1 : u[k] = s[m + k - 1]
  BY PartOf
<1>2. Len(s) \in Nat
  BY StringIs
<1> HIDE DEF u
<1>3. ASSUME NEW k \in 1 .. Len(u) - 1, u[k] = Slash, u[k + 1] = Slash PROVE FALSE
  <2>1. n >= m /\ Len(u) = n - m + 1
    BY <1>1
  <2>2. /\ k \in 1 .. n - m + 1 /\ k + 1 \in 1 .. n - m + 1
        /\ m + k - 1 \in 1 .. Len(s) - 1 /\ m + (k + 1) - 1 = (m + k - 1) + 1
    BY <1>2, <2>1
  <2>3. s[m + k - 1] = Slash /\ s[(m + k - 1) + 1] = Slash
    BY <1>1, <1>3, <2>2
  <2> QED
    BY <2>2, <2>3 DEF Single
<1>4. Single(u)
  BY <1>3 DEF Single
<1> QED
  BY <1>4 DEF u

LEMMA SingleJoined ==
  ASSUME NEW a \in String, Single(a), NEW b \in String, Single(b), b # <<>> => b[1] # Slash
  PROVE  Single(a \o b)
<1> DEFINE c == a \o b
           n == Len(a)
<1>1. /\ n \in Nat /\ Len(b) \in Nat /\ Len(c) = n + Len(b)
      /\ \A k \in 1 .. n : c[k] = a[k]
      /\ \A k \in 1 .. Len(b) : c[n + k] = b[k]
  BY StringIs, Joined
<1>2. Len(b) # 0 => b[1] # Slash
  OBVIOUS
<1> HIDE DEF c
<1>3. ASSUME NEW k \in 1 .. Len(c) - 1, c[k] = Slash, c[k + 1] = Slash PROVE FALSE
  <2>1. CASE k \in 1 .. n - 1
    <3>1. k \in 1 .. n /\ k + 1 \in 1 .. n
      BY <1>1, <2>1
    <3> QED
      BY <1>1, <1>3, <2>1, <3>1 DEF Single
  <2>2. CASE k = n
    <3>1. 1 \in 1 .. Len(b) /\ Len(b) # 0
      BY <1>1, <2>2
    <3>2. c[n + 1] = b[1]
      BY <1>1, <3>1
    <3> QED
      BY <1>2, <1>3, <2>2, <3>1, <3>2
  <2>3. CASE k > n
    <3> DEFINE j == k - n
    <3>1. j \in 1 .. Len(b) - 1 /\ j \in 1 .. Len(b) /\ j + 1 \in 1 .. Len(b) /\ n + j = k
          /\ n + (j + 1) = k + 1
      BY <1>1, <2>3
    <3> HIDE DEF j
    <3>2. c[n + j] = b[j] /\ c[n + (j + 1)] = b[j + 1]
      BY <1>1, <3>1
    <3>3. b[j] = Slash /\ b[j + 1] = Slash
      BY <1>3, <3>1, <3>2
    <3> QED
      BY <3>1, <3>3 DEF Single
  <2> QED
    BY <1>1, <2>1, <2>2, <2>3
<1>4. Single(c)
  BY <1>3 DEF Single
<1> QED
  BY <1>4 DEF c

(* The parts of a string from where it is cut on.                          *)
LEMMA PartsFrom ==
  ASSUME NEW t \in String, NEW n \in Nat, n <= Len(t), n # 0 => t[n] = Slash
  PROVE  /\ Rank(Starts(t), n) \in Nat
         /\ SubSeq(Chunks(t), Rank(Starts(t), n) + 1, Len(Chunks(t)))
               = Chunks(SubSeq(t, n + 1, Len(t)))
<1> DEFINE a == SubSeq(t, 1, n)
           b == SubSeq(t, n + 1, Len(t))
           M == Rank(Starts(t), n)
<1>1. Len(t) \in Nat
  BY StringIs
<1>2. a \in String /\ Len(a) = n /\ \A k \in 1 .. n : a[k] = t[k]
  <2>1. 1 \in Nat \ {0} /\ n - 1 + 1 = n /\ \A k \in 1 .. n : 1 + k - 1 = k
    OBVIOUS
  <2>2. /\ a \in String /\ Len(a) = (IF n >= 1 THEN n - 1 + 1 ELSE 0)
        /\ \A k \in 1 .. n - 1 + 1 : a[k] = t[1 + k - 1]
    BY <2>1, PartOf
  <2> HIDE DEF a
  <2> QED
    BY <2>1, <2>2
<1>3. b \in String /\ Len(b) = Len(t) - n /\ \A k \in 1 .. Len(t) - n : b[k] = t[n + k]
  <2>1. n + 1 \in Nat \ {0} /\ Len(t) - (n + 1) + 1 = Len(t) - n /\ Len(t) <= Len(t)
        /\ \A k \in 1 .. Len(t) - n : n + 1 + k - 1 = n + k
    BY <1>1
  <2>2. /\ b \in String /\ Len(b) = (IF Len(t) >= n + 1 THEN Len(t) - (n + 1) + 1 ELSE 0)
        /\ \A k \in 1 .. Len(t) - (n + 1) + 1 : b[k] = t[n + 1 + k - 1]
    BY <1>1, <2>1, PartOf
  <2> HIDE DEF b
  <2>3. Len(b) = Len(t) - n
    BY <1>1, <2>2
  <2>4. \A k \in 1 .. Len(t) - n : b[k] = t[n + k]
    BY <2>1, <2>2
  <2> QED
    BY <2>2, <2>3, <2>4
<1> HIDE DEF a, b
<1>4. a \o b = t
  <2> DEFINE c == a \o b
  <2>1. /\ c \in String /\ Len(c) = n + Len(b)
        /\ \A k \in 1 .. n : c[k] = a[k]
        /\ \A k \in 1 .. Len(b) : c[n + k] = b[k]
    BY <1>2, <1>3, Joined
  <2> HIDE DEF c
  <2>2. Len(c) = Len(t)
    BY <1>1, <1>3, <2>1
  <2>3. ASSUME NEW k \in 1 .. Len(c) PROVE c[k] = t[k]
    <3>1. CASE k \in 1 .. n
      BY <1>2, <2>1, <3>1
    <3>2. CASE k \notin 1 .. n
      <4>1. k - n \in 1 .. Len(b) /\ k - n \in 1 .. Len(t) - n /\ n + (k - n) = k
        BY <1>1, <1>3, <2>2, <3>2
      <4> QED
        BY <1>3, <2>1, <4>1
    <3> QED
      BY <3>1, <3>2
  <2>4. c = t
    BY <2>1, <2>2, <2>3, SameString
  <2> QED
    BY <2>4 DEF c
<1>5. a = <<>> \/ a[Len(a)] = Slash
  <2>1. n = 0 => a = <<>>
    BY <1>2 DEF String
  <2>2. n # 0 => a[n] = t[n]
    BY <1>2
  <2> QED
    BY <1>2, <2>1, <2>2
<1>6. Chunks(t) = Chunks(a) \o Chunks(b)
  BY <1>2, <1>3, <1>4, <1>5, ChunksJoined
<1>7. Starts(t) \in SUBSET Nat /\ IsFiniteSet(Starts(t)) /\ M \in Nat
  <2>1. Starts(t) \in SUBSET Nat /\ IsFiniteSet(Starts(t))
    BY StartsAre
  <2> QED
    BY <2>1, RankIs
<1>8. Len(Chunks(a)) = M
  <2>1. UpTo(Starts(t), n) = Starts(a)
    <3>1. \A k \in 1 .. Len(a) : k \in Starts(t) <=> k \in Starts(a)
      BY <1>2, <1>5, PrefixParts
    <3>2. Starts(a) \subseteq 1 .. n /\ Starts(t) \subseteq 1 .. Len(t)
      BY <1>2, StartsAre
    <3>3. \A k \in 1 .. Len(t) : k <= n <=> k \in 1 .. n
      BY <1>1
    <3>4. \A k \in 1 .. n : k \in 1 .. Len(t)
      BY <1>1
    <3> QED
      BY <1>2, <3>1, <3>2, <3>3, <3>4 DEF UpTo
  <2> QED
    BY <1>2, <2>1, ChunksAre DEF Rank
<1>9. SubSeq(Chunks(t), M + 1, Len(Chunks(t))) = Chunks(b)
  <2> DEFINE u == Chunks(a)
             v == Chunks(b)
             w == Chunks(t)
             x == SubSeq(w, M + 1, Len(w))
  <2>1. u \in Seq(String) /\ v \in Seq(String) /\ w \in Seq(String) /\ w = u \o v /\ Len(u) = M
    BY <1>2, <1>3, <1>6, <1>8, ChunksType
  <2> HIDE DEF u, v, w, M
  <2>2. /\ Len(v) \in Nat /\ Len(w) = M + Len(v)
        /\ \A k \in 1 .. Len(v) : w[M + k] = v[k]
    <3>1. /\ Len(v) \in Nat /\ Len(u \o v) = Len(u) + Len(v)
          /\ \A k \in 1 .. Len(v) : (u \o v)[Len(u) + k] = v[k]
      BY <2>1, PartsJoined
    <3> QED
      BY <2>1, <3>1
  <2>3. x \in Seq(String) /\ Len(x) = Len(v) /\ \A k \in 1 .. Len(v) : x[k] = w[M + 1 + k - 1]
    BY <1>7, <2>1, <2>2
  <2> HIDE DEF x
  <2>4. \A k \in 1 .. Len(x) : x[k] = v[k]
    <3>1. \A k \in 1 .. Len(v) : M + 1 + k - 1 = M + k
      BY <1>7, <2>2
    <3> QED
      BY <2>2, <2>3, <3>1
  <2>5. x = v
    BY <2>1, <2>3, <2>4, SameParts
  <2> QED
    BY <2>5 DEF x, v, w
<1> QED
  BY <1>7, <1>9 DEF b, M

LEMMA TailIs ==
  ASSUME NEW s \in String, s # <<>>
  PROVE  /\ Tail(s) \in String /\ Len(Tail(s)) = Len(s) - 1 /\ Len(s) \in Nat \ {0}
         /\ \A k \in 1 .. Len(s) - 1 : Tail(s)[k] = s[k + 1]
  BY DEF String

(* The target goes on behind the location: the root and the rest of it.    *)
LEMMA RestBehindRoot ==
  ASSUME NEW root \in String, NEW t \in String, Single(t), NEW l \in Nat \ {0}, l <= Len(t),
         t[l] = Slash
  PROVE  LET R == Path(Append(root, Slash))
             C == SubSeq(t, l, Len(t))
         IN  /\ C # <<>>
             /\ Path(Concat(R, Path(C))).chunks
                   = R.chunks \o SubSeq(Chunks(t), Rank(Starts(t), l) + 1, Len(Chunks(t)))
<1> DEFINE R == Path(Append(root, Slash))
           C == SubSeq(t, l, Len(t))
           d == SubSeq(t, l + 1, Len(t))
           r == R.str
           c == r \o d
<1>1. Len(t) \in Nat /\ l \in Nat /\ l + 1 \in Nat \ {0} /\ Len(t) <= Len(t)
  BY StringIs
<1>2. C \in String /\ Single(C) /\ Len(C) = Len(t) - l + 1 /\ \A k \in 1 .. Len(t) - l + 1 : C[k] = t[l + k - 1]
  <2>1. /\ C \in String /\ Len(C) = (IF Len(t) >= l THEN Len(t) - l + 1 ELSE 0)
        /\ \A k \in 1 .. Len(t) - l + 1 : C[k] = t[l + k - 1]
    BY <1>1, PartOf
  <2>2. Single(C)
    BY <1>1, SinglePart
  <2> HIDE DEF C
  <2> QED
    BY <1>1, <2>1, <2>2
<1>3. d \in String /\ Single(d) /\ Len(d) = Len(t) - l /\ \A k \in 1 .. Len(t) - l : d[k] = t[l + k]
  <2>1. /\ d \in String /\ Len(d) = (IF Len(t) >= l + 1 THEN Len(t) - (l + 1) + 1 ELSE 0)
        /\ \A k \in 1 .. Len(t) - (l + 1) + 1 : d[k] = t[l + 1 + k - 1]
    BY <1>1, PartOf
  <2>2. Single(d)
    BY <1>1, SinglePart
  <2> HIDE DEF d
  <2>3. Len(d) = Len(t) - l
    BY <1>1, <2>1
  <2>4. \A k \in 1 .. Len(t) - l : k \in 1 .. Len(t) - (l + 1) + 1 /\ l + 1 + k - 1 = l + k
    BY <1>1
  <2> QED
    BY <2>1, <2>2, <2>3, <2>4
<1>4. /\ r \in String /\ Single(r) /\ r # <<>> /\ r[Len(r)] = Slash
      /\ R.chunks = Chunks(r) /\ IsDirFormat(R)
  BY DirPath
<1>5. SubSeq(Chunks(t), Rank(Starts(t), l) + 1, Len(Chunks(t))) = Chunks(d)
  BY <1>1, PartsFrom
<1> HIDE DEF R, C, d
<1>6. Len(C) # 0 /\ C # <<>> /\ C[1] = Slash
  <2>1. 1 \in 1 .. Len(t) - l + 1 /\ l + 1 - 1 = l /\ Len(C) # 0
    BY <1>1, <1>2
  <2>2. C[1] = t[l + 1 - 1]
    BY <1>2, <2>1
  <2> QED
    BY <2>1, <2>2
<1>7. Path(C).str = C
  BY <1>2, AlreadyNormal DEF Path
<1>8. Tail(C) = d
  <2>1. /\ Tail(C) \in String /\ Len(Tail(C)) = Len(C) - 1
        /\ \A k \in 1 .. Len(C) - 1 : Tail(C)[k] = C[k + 1]
    BY <1>2, <1>6, TailIs
  <2>2. Len(Tail(C)) = Len(d)
    BY <1>1, <1>2, <1>3, <2>1
  <2>3. ASSUME NEW k \in 1 .. Len(d) PROVE Tail(C)[k] = d[k]
    <3>1. k \in 1 .. Len(t) - l /\ k \in 1 .. Len(C) - 1 /\ k + 1 \in 1 .. Len(t) - l + 1
          /\ l + (k + 1) - 1 = l + k
      BY <1>1, <1>2, <1>3
    <3>2. C[k + 1] = t[l + (k + 1) - 1]
      BY <1>2, <3>1
    <3> QED
      BY <1>3, <2>1, <3>1, <3>2
  <2> QED
    BY <1>3, <2>1, <2>2, <2>3, SameString
<1>9. Concat(R, Path(C)) = c
  <2>1. IsOriginForm(Path(C))
    BY <1>6, <1>7 DEF IsOriginForm
  <2> QED
    BY <1>4, <1>7, <1>8, <2>1 DEF Concat
<1>10. d # <<>> => d[1] # Slash
  <2> SUFFICES ASSUME d # <<>> PROVE d[1] # Slash
    OBVIOUS
  <2>1. Len(d) # 0
    BY <1>3 DEF String
  <2>2. 1 \in 1 .. Len(t) - l /\ l \in 1 .. Len(t) - 1
    BY <1>1, <1>3, <2>1
  <2>3. t[l + 1] # Slash
    BY <2>2 DEF Single
  <2> QED
    BY <1>3, <2>2, <2>3
<1> HIDE DEF r
<1>11. c \in String /\ Single(c) /\ Chunks(c) = Chunks(r) \o Chunks(d)
  BY <1>3, <1>4, <1>10, Joined, SingleJoined, ChunksJoined
<1> HIDE DEF c
<1>12. Path(c).chunks = Chunks(c)
  BY <1>11, AlreadyNormal DEF Path
<1> QED
  BY <1>4, <1>5, <1>6, <1>9, <1>11, <1>12 DEF R, C

(* The target ends with the location: the root alone.                      *)
LEMMA RootAlone ==
  ASSUME NEW root \in String
  PROVE  LET R == Path(Append(root, Slash))
         IN  Path(Front(R.str)).chunks = R.chunks /\ R.chunks \in Seq(String)
<1> DEFINE R == Path(Append(root, Slash))
           r == R.str
           f == Front(r)
<1>1. r \in String /\ Single(r) /\ r # <<>> /\ r[Len(r)] = Slash /\ R.chunks = Chunks(r)
  BY DirPath
<1> HIDE DEF R, r
<1>2. Len(r) \in Nat \ {0}
  BY <1>1 DEF String
<1>3. 1 \in Nat \ {0} /\ Len(r) - 1 \in Nat /\ Len(r) - 1 <= Len(r)
  BY <1>2
<1>4. /\ f \in String /\ Len(f) = (IF Len(r) - 1 >= 1 THEN Len(r) - 1 - 1 + 1 ELSE 0)
      /\ \A k \in 1 .. Len(r) - 1 - 1 + 1 : f[k] = r[1 + k - 1]
  BY <1>1, <1>3, PartOf DEF Front
<1>5. Single(f)
  BY <1>1, <1>3, SinglePart DEF Front
<1> HIDE DEF f
<1>6. Len(r) = Len(f) + 1 /\ Len(f) \in Nat
  <2> DEFINE n == Len(r)
             m == Len(f)
  <2>1. n \in Nat \ {0} /\ m = (IF n - 1 >= 1 THEN n - 1 - 1 + 1 ELSE 0)
    BY <1>2, <1>4
  <2> HIDE DEF n, m
  <2>2. n = m + 1 /\ m \in Nat
    BY <2>1
  <2> QED
    BY <2>2 DEF n, m
<1>7. \A k \in 1 .. Len(f) : r[k] = f[k]
  <2>1. \A k \in 1 .. Len(f) : k \in 1 .. Len(r) - 1 - 1 + 1 /\ 1 + k - 1 = k
    BY <1>2, <1>6
  <2> QED
    BY <1>4, <2>1
<1>8. Chunks(r) = Chunks(f)
  BY <1>1, <1>4, <1>6, <1>7, ChunksOfFront
<1>9. Path(f).chunks = Chunks(f)
  BY <1>4, <1>5, AlreadyNormal DEF Path
<1> QED
  BY <1>1, <1>8, <1>9, ChunksType DEF R, r, f

(* What MakeRequest assigns. *)
Made ==
    IF selected = None \/ MatchLength(Locations[selected]) > Len(target) THEN None
    ELSE IF Chopped # <<>>
    THEN Path(Concat(Root(Locations[selected]), Path(Chopped)))
    ELSE Path(Front(Root(Locations[selected]).str))

PathMade == pc = "done" => path = Made

LEMMA RestFollowsMade ==
  ASSUME TypeOK, selected # None, Matches(selected), Normalised(target) = target
  PROVE  Made.chunks = Root(Locations[selected]).chunks
                       \o SubSeq(Chunks(target), Length(selected) + 1, Len(Chunks(target)))
<1> DEFINE loc == Locations[selected]
           p == LocationPath(loc).str
           l == Len(p)
           t == target
           w == Chunks(t)
<1>1. t \in String /\ Single(t) /\ Len(t) \in Nat
  BY TargetPath, StringIs
<1>2. /\ l \in Nat \ {0} /\ l - 1 <= Len(t) /\ (l <= Len(t) => t[l] = Slash)
      /\ Rank(Starts(t), l - 1) = Length(selected) /\ Rank(Starts(t), l) = Length(selected)
  BY SelectedEnds
<1>3. MatchLength(loc) = l - 1 /\ Root(loc) = Path(Append(loc.root, Slash)) /\ loc.root \in String
  BY SelectedPaths DEF MatchLength, Root
<1>4. Chopped = SubSeq(t, (l - 1) + 1, Len(t))
  BY <1>3 DEF Chopped
<1>5. Made = IF Chopped # <<>> THEN Path(Concat(Root(loc), Path(Chopped)))
                               ELSE Path(Front(Root(loc).str))
  <2> HIDE DEF l, t
  <2>1. ~(l - 1 > Len(t))
    BY <1>1, <1>2
  <2> QED
    BY <1>3, <2>1 DEF Made, t
<1> HIDE DEF l, t, loc
<1>6. (l - 1) + 1 = l /\ (l <= Len(t) \/ l - 1 = Len(t))
  BY <1>1, <1>2
<1>7. CASE l <= Len(t)
  <2>1. Chopped = SubSeq(t, l, Len(t))
    BY <1>4, <1>6
  <2>2. /\ SubSeq(t, l, Len(t)) # <<>>
        /\ Path(Concat(Root(loc), Path(SubSeq(t, l, Len(t))))).chunks
              = Root(loc).chunks \o SubSeq(Chunks(t), Rank(Starts(t), l) + 1, Len(Chunks(t)))
    BY <1>1, <1>2, <1>3, <1>7, RestBehindRoot
  <2> QED
    BY <1>2, <1>5, <2>1, <2>2 DEF t, loc
<1>8. CASE l - 1 = Len(t)
  <2>1. Chopped = <<>>
    <3>1. /\ l \in Nat \ {0} /\ Len(t) <= Len(t) /\ ~(Len(t) >= l)
      BY <1>1, <1>2, <1>8
    <3>2. SubSeq(t, l, Len(t)) \in String /\ Len(SubSeq(t, l, Len(t))) = 0
      BY <1>1, <3>1, PartOf
    <3>3. Chopped \in String /\ Len(Chopped) = 0
      BY <1>4, <1>6, <3>2
    <3> QED
      BY <3>3 DEF String
  <2>2. Made.chunks = Root(loc).chunks /\ Root(loc).chunks \in Seq(String)
    BY <1>3, <1>5, <2>1, RootAlone
  <2>3. Length(selected) = Len(w)
    <3>1. Starts(t) \in SUBSET Nat /\ IsFiniteSet(Starts(t)) /\ \A k \in Starts(t) : k <= Len(t)
      BY <1>1, StartsAre
    <3>2. Rank(Starts(t), Len(t)) = Cardinality(Starts(t))
      BY <1>1, <3>1, RankIs
    <3> QED
      BY <1>1, <1>2, <1>8, <3>2, ChunksAre
  <2>4. w \in Seq(String)
    BY <1>1, ChunksType
  <2> HIDE DEF w
  <2>5. SubSeq(w, Len(w) + 1, Len(w)) = <<>>
    BY <2>4
  <2> DEFINE q == Root(loc).chunks
  <2>6. q \in Seq(String)
    BY <2>2
  <2> HIDE DEF q
  <2>7. q \o <<>> = q
    BY <2>6
  <2> QED
    BY <2>2, <2>3, <2>5, <2>7 DEF w, q, t, loc
<1> QED
  BY <1>6, <1>7, <1>8

(* ARequest::ARequest: the path of a target without repeated slashes is    *)
(* made of the parts of the location's root and of those the location      *)
(* leaves, wherever the target is cut; ".." is a part as any other.        *)
THEOREM RestAlwaysFollowsRoot == Spec => []RestFollowsRoot
<1>1. Init => PathMade
  BY DEF Init, PathMade
<1>2. PathMade /\ [Next]_vars => PathMade'
  <2> SUFFICES ASSUME PathMade, [Next]_vars, pc' = "done" PROVE path' = Made'
    BY DEF PathMade
  <2>1. CASE MakeRequest
    <3>1. path' = Made
      BY <2>1 DEF MakeRequest, Made
    <3>2. Made' = Made
      BY <2>1 DEF MakeRequest, Made, Chopped, Locations
    <3> QED
      BY <3>1, <3>2
  <2>2. CASE UNCHANGED vars
    <3>1. pc = "done" /\ path' = path
      BY <2>2 DEF vars
    <3>2. Made' = Made
      BY <2>2 DEF vars, Made, Chopped, Locations
    <3> QED
      BY <3>1, <3>2 DEF PathMade
  <2>3. ~FindServerBlock /\ ~FindLocationBlock
    BY DEF FindServerBlock, FindLocationBlock
  <2> QED
    BY <2>1, <2>2, <2>3 DEF Next
<1>3. IInv /\ PathMade => RestFollowsRoot
  <2> SUFFICES ASSUME IInv, PathMade, pc = "done", path # None, Normalised(target) = target
               PROVE  path.chunks = Root(Locations[selected]).chunks
                      \o SubSeq(Chunks(target), Length(selected) + 1, Len(Chunks(target)))
    BY DEF RestFollowsRoot
  <2>1. path = Made /\ selected # None
    BY DEF PathMade, Made
  <2>2. TypeOK /\ Matches(selected)
    BY <2>1 DEF IInv, LongestPrefix
  <2> QED
    BY <2>1, <2>2, RestFollowsMade
<1> QED
  BY <1>1, <1>2, <1>3, Invariance, PTL DEF Spec
=============================================================================
