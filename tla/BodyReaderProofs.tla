-------------------------- MODULE BodyReaderProofs --------------------------
(***************************************************************************)
(* The body reader, for every input, every fragmentation and every order   *)
(* of its calls: types, what a CGI and an upload get, what a refusal means *)
(* and the limit of a location.                                            *)
(*                                                                         *)
(* The invariant says where the reader is in the body.  pos bytes have     *)
(* been taken out of the buffer, the buffer is the rest of what arrived,   *)
(* and what the reader has yet to understand from there on, Todo, is what  *)
(* the reading as a whole (Chunks) finds at that byte.                     *)
(***************************************************************************)
EXTENDS BodyReader, SequenceTheorems, WellFoundedInduction, TLAPS

(* What Chunks finds from a byte on. *)
Meant == [data : Seq(Byte), sum : Nat, ok : BOOLEAN]

(* From byte j on, where the CR LF after the data of a chunk belongs.      *)
AfterData(b, j) ==
    IF StartsWith(Erased(b, j - 1), CRLF) THEN Chunks(b)[j + 2] ELSE Broken

(* From byte p + 1 on, where c bytes of a chunk are still to come.         *)
Pending(b, p, c) ==
    LET after == AfterData(b, p + c + 1) IN
    [data |-> First(Erased(b, p), c) \o after.data, sum |-> c + after.sum, ok |-> after.ok]

(* From byte p + 1 on, for a reader whose _contentLength is c.             *)
TodoAt(b, p, c) == IF c = SizeDue THEN Chunks(b)[p + 1] ELSE Pending(b, p, c)

pos == arrived - Len(buffer)

Todo == TodoAt(req.bytes, pos, contentLength)

(* What is still to come of the chunk that has been announced last.        *)
Left == IF contentLength = SizeDue THEN 0 ELSE contentLength

(* What the size lines read so far announce.                               *)
Announced == meaning.sum - Todo.sum + Left

(* The data still to be handed on.                                         *)
DataTodo == IF req.chunked THEN Todo.data ELSE First(Erased(req.bytes, pos), contentLength)

(* Nothing more arrives, and the buffer is empty within the data.          *)
Stuck == arrived = Len(req.bytes) /\ buffer = <<>> /\ contentLength > 0

(* The head has been looked at, and the body is being read.                *)
Open == verdict = "none" /\ pc # "headers"

-----------------------------------------------------------------------------
Position ==
    /\ meaning = Meaning(req)
    /\ pos \in 0 .. arrived
    /\ buffer = SubSeq(req.bytes, pos + 1, arrived)
    /\ whole => arrived = Len(req.bytes)

Untouched ==
    pc = "headers" =>
        /\ verdict = "none" /\ written = <<>> /\ pos = 0
        /\ contentLength = 0 /\ contentTotalLength = 0
        /\ ~watched /\ ~complete

Phases ==
    /\ pc = "content" => ~req.chunked
    /\ pc \in {"loop", "size", "data"} => req.chunked
    /\ pc = "data" => contentLength > 0
    /\ pc = "size" => contentLength = SizeDue
    /\ verdict # "none" => complete
    /\ verdict = "saved" => pc = "idle" /\ ~watched
    /\ dest = "file" => ~watched /\ (complete => pc = "idle")
    /\ Open /\ req.chunked => contentLength >= SizeDue
    /\ Open /\ ~req.chunked => contentLength > 0

Length == Open /\ ~req.chunked => pos + contentLength = req.length

Understood ==
    Open /\ req.chunked =>
        /\ meaning.ok = Todo.ok
        /\ Announced \in Nat
        /\ Announced = contentTotalLength \/ Announced > IntMax

Passed ==
    Open /\ (dest = "cgi" \/ (whole /\ ~Stuck)) => meaning.data = written \o DataTodo

WithinLimit ==
    Open /\ dest = "cgi" =>
        /\ ~req.chunked => Len(written) + contentLength = req.length /\ req.length <= limit
        /\ req.chunked /\ 2 * limit <= IntMax =>
             /\ Len(written) + Left <= contentTotalLength
             /\ contentTotalLength <= limit \/ contentTotalLength = 0

(* A saved body is the one that was sent, and within the limit.            *)
Saved ==
    verdict = "saved" =>
        /\ dest = "cgi" \/ whole => written = meaning.data
        /\ dest = "cgi" /\ written # <<>> /\ 2 * limit <= IntMax => Len(written) <= limit

IInv ==
    /\ TypeOK /\ Position /\ Untouched /\ Phases
    /\ Length /\ Understood /\ Passed /\ WithinLimit
    /\ Saved /\ RefusedForCause

-----------------------------------------------------------------------------
(* Numbers, sets and sequences. *)

LEMMA Constants ==
  /\ IntMax \in Nat
  /\ Limits \subseteq -(IntMax + 1) .. IntMax
  /\ Garbage \notin Byte
  /\ \A r \in Inputs : r.bytes \in Seq(Byte) /\ r.length \in -2 .. IntMax /\ r.chunked \in BOOLEAN
  BY BodyReaderAssumption

(* A set of numbers that is not empty has a least one.                     *)
LEMMA LeastExists ==
  ASSUME NEW S \in SUBSET Nat, S # {}
  PROVE  \E m \in S : \A x \in S : m <= x
  <1> DEFINE R == {p \in Nat \X Nat : p[1] < p[2]}
  <1>1. OpToRel(<, Nat) = R
    BY DEF OpToRel
  <1>2. PICK m \in S : \A x \in S : ~(<<x, m>> \in R)
    <2>1. IsWellFoundedOn(R, Nat)
      BY <1>1, NatLessThanWellFounded
    <2> HIDE DEF R
    <2> QED BY <2>1, WFMin
  <1>3. \A x \in S : ~(x < m)
    BY <1>2
  <1> QED BY <1>3

(* Induction, for a set of numbers.                                        *)
LEMMA AllNumbers ==
  ASSUME NEW S, 0 \in S, \A k \in Nat : k \in S => k + 1 \in S
  PROVE  \A k \in Nat : k \in S
  <1> SUFFICES ASSUME Nat \ S # {} PROVE FALSE
    OBVIOUS
  <1>1. PICK m \in Nat \ S : \A x \in Nat \ S : m <= x
    BY LeastExists
  <1>2. m # 0 /\ m - 1 \in Nat
    BY <1>1
  <1>3. m - 1 \in S
    BY <1>1, <1>2
  <1> QED BY <1>1, <1>2, <1>3

(* A part of a sequence, element by element, also an empty one.            *)
LEMMA Part ==
  ASSUME NEW s \in Seq(Byte), NEW m \in Nat \ {0}, NEW n \in Nat, n <= Len(s)
  PROVE  /\ SubSeq(s, m, n) \in Seq(Byte)
         /\ Len(SubSeq(s, m, n)) = (IF n >= m THEN n - m + 1 ELSE 0)
         /\ \A i \in 1 .. n - m + 1 : SubSeq(s, m, n)[i] = s[m + i - 1]
  OBVIOUS

LEMMA ErasedIs ==
  ASSUME NEW s \in Seq(Byte), NEW p \in Nat
  PROVE  /\ Erased(s, p) \in Seq(Byte)
         /\ Len(Erased(s, p)) = (IF p <= Len(s) THEN Len(s) - p ELSE 0)
         /\ \A i \in 1 .. Len(s) - p : Erased(s, p)[i] = s[p + i]
  BY Part DEF Erased

LEMMA FirstIs ==
  ASSUME NEW s \in Seq(Byte), NEW n \in Nat
  PROVE  /\ First(s, n) \in Seq(Byte)
         /\ Len(First(s, n)) = (IF n < Len(s) THEN n ELSE Len(s))
         /\ \A i \in 1 .. Len(First(s, n)) : First(s, n)[i] = s[i]
  BY Part DEF First

LEMMA Same ==
  ASSUME NEW s \in Seq(Byte), NEW t \in Seq(Byte), Len(s) = Len(t),
         \A i \in 1 .. Len(s) : s[i] = t[i]
  PROVE  s = t
  BY SeqEqual

LEMMA StartsWithIff ==
  ASSUME NEW s \in Seq(Byte), NEW t \in Seq(Byte)
  PROVE  StartsWith(s, t) <=> Len(t) <= Len(s) /\ \A i \in 1 .. Len(t) : s[i] = t[i]
  <1>1. ASSUME Len(t) <= Len(s) PROVE SubSeq(s, 1, Len(t)) = t <=> \A i \in 1 .. Len(t) : s[i] = t[i]
    <2>1. /\ SubSeq(s, 1, Len(t)) \in Seq(Byte) /\ Len(SubSeq(s, 1, Len(t))) = Len(t)
          /\ \A i \in 1 .. Len(t) : SubSeq(s, 1, Len(t))[i] = s[i]
      BY <1>1, Part
    <2>2. ASSUME \A i \in 1 .. Len(t) : s[i] = t[i] PROVE SubSeq(s, 1, Len(t)) = t
      BY <2>1, <2>2, Same
    <2> QED BY <2>1, <2>2
  <1> QED BY <1>1 DEF StartsWith

LEMMA ErasedTwice ==
  ASSUME NEW s \in Seq(Byte), NEW p \in Nat, NEW q \in Nat
  PROVE  Erased(Erased(s, p), q) = Erased(s, p + q)
  <1> DEFINE e == Erased(s, p)
             f == Erased(e, q)
             g == Erased(s, p + q)
  <1>1. e \in Seq(Byte) /\ Len(e) = (IF p <= Len(s) THEN Len(s) - p ELSE 0)
        /\ \A i \in 1 .. Len(s) - p : e[i] = s[p + i]
    BY ErasedIs
  <1>2. g \in Seq(Byte) /\ Len(g) = (IF p + q <= Len(s) THEN Len(s) - (p + q) ELSE 0)
        /\ \A i \in 1 .. Len(s) - (p + q) : g[i] = s[p + q + i]
    <2>1. p + q \in Nat
      OBVIOUS
    <2> QED BY <2>1, ErasedIs
  <1> HIDE DEF e, g
  <1>3. f \in Seq(Byte) /\ Len(f) = (IF q <= Len(e) THEN Len(e) - q ELSE 0)
        /\ \A i \in 1 .. Len(e) - q : f[i] = e[q + i]
    BY <1>1, ErasedIs
  <1> HIDE DEF f
  <1>4. Len(f) = Len(g)
    BY <1>1, <1>2, <1>3
  <1>5. \A i \in 1 .. Len(f) : f[i] = g[i]
    <2> TAKE i \in 1 .. Len(f)
    <2>1. i \in 1 .. Len(e) - q /\ f[i] = e[q + i]
      BY <1>1, <1>3
    <2>2. q + i \in 1 .. Len(s) - p
      BY <1>1, <2>1
    <2>4. e[q + i] = s[p + (q + i)]
      BY <1>1, <2>2
    <2>3. g[i] = s[p + q + i]
      BY <1>2, <1>4
    <2> QED BY <2>1, <2>2, <2>3, <2>4
  <1>6. f = g
    BY <1>2, <1>3, <1>4, <1>5, Same
  <1> QED BY <1>6 DEF f, g, e

(* The first c elements are the first k and the first c - k of the others. *)
LEMMA TakenInTwo ==
  ASSUME NEW s \in Seq(Byte), NEW c \in Nat, NEW k \in 0 .. c, k <= Len(s)
  PROVE  First(s, c) = SubSeq(s, 1, k) \o First(Erased(s, k), c - k)
  <1> DEFINE l == SubSeq(s, 1, k)
             e == Erased(s, k)
             r == First(e, c - k)
  <1>1. l \in Seq(Byte) /\ Len(l) = k /\ \A i \in 1 .. k : l[i] = s[i]
    BY Part
  <1>2. e \in Seq(Byte) /\ Len(e) = Len(s) - k /\ \A i \in 1 .. Len(s) - k : e[i] = s[k + i]
    BY ErasedIs
  <1>3. r \in Seq(Byte) /\ Len(r) = (IF c - k < Len(s) - k THEN c - k ELSE Len(s) - k)
        /\ \A i \in 1 .. Len(r) : r[i] = e[i]
    <2> HIDE DEF e
    <2> QED BY <1>2, FirstIs
  <1>4. First(s, c) \in Seq(Byte) /\ Len(First(s, c)) = (IF c < Len(s) THEN c ELSE Len(s))
        /\ \A i \in 1 .. Len(First(s, c)) : First(s, c)[i] = s[i]
    BY FirstIs
  <1> HIDE DEF l, e, r
  <1>5. /\ l \o r \in Seq(Byte) /\ Len(l \o r) = Len(l) + Len(r)
        /\ \A i \in 1 .. Len(l) + Len(r) : (l \o r)[i] = IF i <= Len(l) THEN l[i] ELSE r[i - Len(l)]
    BY <1>1, <1>3, ConcatProperties
  <1> DEFINE j == l \o r
             f == First(s, c)
  <1> HIDE DEF j, f
  <1>6. j \in Seq(Byte) /\ f \in Seq(Byte) /\ Len(j) = Len(f) /\ \A i \in 1 .. Len(j) : j[i] = f[i]
    <2>1. /\ j \in Seq(Byte) /\ Len(j) = Len(l) + Len(r)
          /\ \A i \in 1 .. Len(l) + Len(r) : j[i] = IF i <= Len(l) THEN l[i] ELSE r[i - Len(l)]
      BY <1>5 DEF j
    <2>2. f \in Seq(Byte) /\ Len(f) = (IF c < Len(s) THEN c ELSE Len(s))
          /\ \A i \in 1 .. Len(f) : f[i] = s[i]
      BY <1>4 DEF f
    <2>3. Len(j) = Len(f)
      BY <1>1, <1>2, <1>3, <2>1, <2>2
    <2>4. ASSUME NEW i \in 1 .. Len(j) PROVE j[i] = f[i]
      <3>1. CASE i <= k
        BY <1>1, <2>1, <2>2, <2>3, <3>1
      <3>2. CASE i > k
        <4>1. i - k \in 1 .. Len(r) /\ j[i] = r[i - k]
          BY <1>1, <1>3, <2>1, <3>2
        <4>2. i - k \in 1 .. Len(s) - k /\ r[i - k] = e[i - k]
          BY <1>1, <1>3, <2>1, <4>1
        <4>3. e[i - k] = s[k + (i - k)]
          BY <1>2, <4>2
        <4> QED BY <2>2, <2>3, <4>1, <4>2, <4>3
      <3> QED BY <3>1, <3>2
    <2> QED BY <2>1, <2>2, <2>3, <2>4
  <1>7. j = f
    BY <1>6, Same
  <1> QED BY <1>7 DEF j, f, l, r, e

-----------------------------------------------------------------------------
(* What lies at the start of the buffer lies there in the whole body.      *)

LEMMA Literals ==
  /\ CRLF \in Seq(Byte) /\ Len(CRLF) = 2 /\ CRLF[1] = "CR" /\ CRLF[2] = "LF"
  /\ Terminator \in Seq(Byte) /\ Len(Terminator) = 5
  /\ <<>> \in Seq(Byte)
  BY DEF CRLF, Terminator, Byte, Digit

LEMMA OccursIff ==
  ASSUME NEW s \in Seq(Byte), NEW i
  PROVE  i \in Occurrences(s) <=> i \in 1 .. Len(s) - 1 /\ s[i] = "CR" /\ s[i + 1] = "LF"
  <1> SUFFICES ASSUME i \in 1 .. Len(s) - 1
               PROVE  SubSeq(s, i, i + 1) = CRLF <=> s[i] = "CR" /\ s[i + 1] = "LF"
    BY DEF Occurrences
  <1> DEFINE t == SubSeq(s, i, i + 1)
  <1>1. t \in Seq(Byte) /\ Len(t) = 2 /\ t[1] = s[i] /\ t[2] = s[i + 1]
    <2>1. i \in Nat \ {0} /\ i + 1 \in Nat /\ i + 1 <= Len(s)
      OBVIOUS
    <2>2. /\ t \in Seq(Byte)
          /\ Len(t) = (IF i + 1 >= i THEN (i + 1) - i + 1 ELSE 0)
          /\ \A j \in 1 .. (i + 1) - i + 1 : t[j] = s[i + j - 1]
      BY <2>1, Part
    <2> HIDE DEF t
    <2>3. Len(t) = 2 /\ 1 \in 1 .. (i + 1) - i + 1 /\ 2 \in 1 .. (i + 1) - i + 1
      BY <2>1, <2>2
    <2>4. t[1] = s[i + 1 - 1] /\ t[2] = s[i + 2 - 1]
      BY <2>2, <2>3
    <2>5. i + 1 - 1 = i /\ i + 2 - 1 = i + 1
      BY <2>1
    <2> QED BY <2>2, <2>3, <2>4, <2>5
  <1> HIDE DEF t
  <1>2. ASSUME s[i] = "CR", s[i + 1] = "LF" PROVE t = CRLF
    <2>1. \A j \in 1 .. Len(t) : t[j] = CRLF[j]
      BY <1>1, <1>2, Literals
    <2> QED BY <1>1, <2>1, Literals, Same
  <1>3. ASSUME t = CRLF PROVE s[i] = "CR" /\ s[i + 1] = "LF"
    BY <1>1, <1>3, Literals
  <1> QED BY <1>2, <1>3 DEF t

LEMMA FindIs ==
  ASSUME NEW s \in Seq(Byte)
  PROVE  /\ Find(s) \in Nat
         /\ Find(s) = 0 <=> Occurrences(s) = {}
         /\ Find(s) # 0 => /\ Find(s) \in Occurrences(s) /\ Find(s) \in 1 .. Len(s) - 1
                           /\ \A j \in Occurrences(s) : Find(s) <= j
  <1>1. Occurrences(s) \in SUBSET Nat /\ \A i \in Occurrences(s) : i \in 1 .. Len(s) - 1
    BY DEF Occurrences
  <1>2. ASSUME Occurrences(s) # {} PROVE \E i \in Occurrences(s) : \A j \in Occurrences(s) : i <= j
    BY <1>1, <1>2, LeastExists
  <1>3. ASSUME Occurrences(s) # {}
        PROVE  Find(s) \in Occurrences(s) /\ \A j \in Occurrences(s) : Find(s) <= j
    <2>1. Find(s) = CHOOSE i \in Occurrences(s) : \A j \in Occurrences(s) : i <= j
      BY <1>3 DEF Find
    <2> QED BY <1>2, <1>3, <2>1, Zenon
  <1>4. Occurrences(s) = {} => Find(s) = 0
    BY DEF Find
  <1> QED BY <1>1, <1>3, <1>4

LEMMA FoundInAll ==
  ASSUME NEW e \in Seq(Byte), NEW u \in Seq(Byte), StartsWith(e, u), Find(u) # 0
  PROVE  Find(e) = Find(u)
  <1>1. Len(u) <= Len(e) /\ \A i \in 1 .. Len(u) : e[i] = u[i]
    BY StartsWithIff
  <1>2. Find(u) \in 1 .. Len(u) - 1 /\ u[Find(u)] = "CR" /\ u[Find(u) + 1] = "LF"
    BY FindIs, OccursIff
  <1>3. Find(u) \in Occurrences(e)
    BY <1>1, <1>2, OccursIff
  <1>4. Find(e) # 0 /\ Find(e) \in 1 .. Len(e) - 1 /\ Find(e) <= Find(u)
        /\ e[Find(e)] = "CR" /\ e[Find(e) + 1] = "LF"
    BY <1>3, FindIs, OccursIff
  <1>5. Find(e) \in Occurrences(u)
    BY <1>1, <1>2, <1>4, OccursIff
  <1> QED BY <1>2, <1>4, <1>5, FindIs

LEMMA ComparesAll ==
  ASSUME NEW e \in Seq(Byte), NEW u \in Seq(Byte), NEW t \in Seq(Byte), StartsWith(e, u)
  PROVE  /\ StartsWith(u, t) => StartsWith(e, t)
         /\ StartsWith(e, t) => Compares(u, t)
  <1>1. Len(u) <= Len(e) /\ \A i \in 1 .. Len(u) : e[i] = u[i]
    BY StartsWithIff
  <1>2. StartsWith(u, t) => StartsWith(e, t)
    BY <1>1, StartsWithIff
  <1>3. ASSUME StartsWith(e, t) PROVE Compares(u, t)
    <2>1. Len(t) <= Len(e) /\ \A i \in 1 .. Len(t) : e[i] = t[i]
      BY <1>3, StartsWithIff
    <2>2. CASE Len(t) <= Len(u)
      <3>1. \A i \in 1 .. Len(t) : u[i] = t[i]
        BY <1>1, <2>1, <2>2
      <3> QED BY <2>2, <3>1, StartsWithIff DEF Compares
    <2>3. CASE Len(u) <= Len(t)
      <3>1. \A i \in 1 .. Len(u) : t[i] = u[i]
        BY <1>1, <2>1, <2>3
      <3> QED BY <2>3, <3>1, StartsWithIff DEF Compares
    <2> QED BY <2>2, <2>3
  <1> QED BY <1>2, <1>3

(* The bytes from p + 1 to a are the start of all that follow p.           *)
LEMMA BufferStarts ==
  ASSUME NEW b \in Seq(Byte), NEW a \in 0 .. Len(b), NEW p \in 0 .. a
  PROVE  /\ SubSeq(b, p + 1, a) \in Seq(Byte) /\ Len(SubSeq(b, p + 1, a)) = a - p
         /\ StartsWith(Erased(b, p), SubSeq(b, p + 1, a))
  <1> DEFINE u == SubSeq(b, p + 1, a)
             e == Erased(b, p)
  <1>1. u \in Seq(Byte) /\ Len(u) = a - p /\ \A i \in 1 .. a - p : u[i] = b[p + 1 + i - 1]
    BY Part
  <1>2. e \in Seq(Byte) /\ Len(e) = Len(b) - p /\ \A i \in 1 .. Len(b) - p : e[i] = b[p + i]
    <2>1. p \in Nat /\ p <= Len(b)
      OBVIOUS
    <2> QED BY <2>1, ErasedIs
  <1> HIDE DEF u, e
  <1>3. Len(u) <= Len(e) /\ \A i \in 1 .. Len(u) : e[i] = u[i]
    BY <1>1, <1>2, SMTT(30)
  <1>4. StartsWith(e, u)
    BY <1>1, <1>2, <1>3, StartsWithIff
  <1> QED BY <1>1, <1>4 DEF u, e

(* The size line at the start of the buffer is the one Chunks reads there. *)
LEMMA SizeIs ==
  ASSUME NEW b \in Seq(Byte), NEW p \in 0 .. Len(b), NEW u \in Seq(Byte),
         StartsWith(Erased(b, p), u), Find(u) # 0
  PROVE  /\ LineEnd(b, p + 1) = p + Find(u)
         /\ SizeAt(b, p + 1) = ToContentLength(SubSeq(u, 1, Find(u) - 1))
  <1> DEFINE e == Erased(b, p)
             k == Find(u)
             l == SubSeq(u, 1, k - 1)
             m == SubSeq(b, p + 1, (p + k) - 1)
  <1>1. e \in Seq(Byte) /\ Len(e) = Len(b) - p /\ \A i \in 1 .. Len(b) - p : e[i] = b[p + i]
    BY ErasedIs
  <1>2. Find(e) = k /\ k \in 1 .. Len(u) - 1
    BY <1>1, FoundInAll, FindIs
  <1>3. Len(u) <= Len(e) /\ \A i \in 1 .. Len(u) : e[i] = u[i]
    BY <1>1, StartsWithIff
  <1>4. LineEnd(b, p + 1) = p + k
    BY <1>2 DEF LineEnd
  <1> HIDE DEF e, k
  <1>5. l \in Seq(Byte) /\ Len(l) = k - 1 /\ \A i \in 1 .. k - 1 : l[i] = u[1 + i - 1]
    BY <1>2, Part
  <1>6. (p + k) - 1 \in Nat /\ (p + k) - 1 <= Len(b)
    BY <1>1, <1>2, <1>3
  <1>7. m \in Seq(Byte) /\ Len(m) = k - 1 /\ \A i \in 1 .. k - 1 : m[i] = b[p + 1 + i - 1]
    BY <1>2, <1>6, Part
  <1> HIDE DEF l, m
  <1>8. \A i \in 1 .. Len(l) : l[i] = m[i]
    <2> TAKE i \in 1 .. Len(l)
    <2>1. i \in 1 .. k - 1 /\ i \in 1 .. Len(u) /\ i \in 1 .. Len(b) - p
      BY <1>1, <1>2, <1>3, <1>5
    <2>2. l[i] = u[i] /\ m[i] = b[p + i]
      BY <1>5, <1>7, <2>1
    <2>3. e[i] = b[p + i] /\ e[i] = u[i]
      BY <1>1, <1>3, <2>1
    <2> QED BY <2>2, <2>3
  <1>9. l = m
    BY <1>5, <1>7, <1>8, Same
  <1>10. SizeAt(b, p + 1) = ToContentLength(m)
    BY <1>4, Zenon DEF SizeAt, m
  <1> QED BY <1>4, <1>9, <1>10 DEF l, k

-----------------------------------------------------------------------------
(* What a size line says. *)

(* A number to base 16 is a natural number, however long it is.            *)
LEMMA ValueIs ==
  ASSUME NEW s, NEW n \in Nat, n = Len(s), \A i \in 1 .. n : s[i] \in DOMAIN Digit
  PROVE  Value(s) \in Nat
  <1> DEFINE Eq(f, m) == f = [i \in 0 .. m |-> IF i = 0 THEN 0 ELSE 16 * f[i - 1] + Digit[s[i]]]
             v == CHOOSE f : Eq(f, n)
             S == {m \in Nat : m <= n => \E f \in [0 .. m -> Nat] : Eq(f, m)}
  <1>1. \A d \in DOMAIN Digit : Digit[d] \in Nat
    BY DEF Digit
  <1>2. 0 \in S
    <2> DEFINE f == [i \in 0 .. 0 |-> 0]
    <2>1. f \in [0 .. 0 -> Nat]
      OBVIOUS
    <2>2. [i \in 0 .. 0 |-> IF i = 0 THEN 0 ELSE 16 * f[i - 1] + Digit[s[i]]] = f
      OBVIOUS
    <2> QED BY <2>1, <2>2
  <1>3. ASSUME NEW m \in Nat, m \in S PROVE m + 1 \in S
    <2> SUFFICES ASSUME m + 1 <= n PROVE \E g \in [0 .. m + 1 -> Nat] : Eq(g, m + 1)
      <3> HIDE DEF Eq
      <3> QED OBVIOUS
    <2>1. PICK f \in [0 .. m -> Nat] : Eq(f, m)
      BY <1>3
    <2> DEFINE g == [i \in 0 .. m + 1 |-> IF i = m + 1 THEN 16 * f[m] + Digit[s[i]] ELSE f[i]]
               h == [i \in 0 .. m + 1 |-> IF i = 0 THEN 0 ELSE 16 * g[i - 1] + Digit[s[i]]]
    <2>2. s[m + 1] \in DOMAIN Digit /\ f[m] \in Nat
      OBVIOUS
    <2>3. g \in [0 .. m + 1 -> Nat]
      BY <1>1, <2>2
    <2>4. ASSUME NEW i \in 0 .. m + 1 PROVE g[i] = h[i]
      <3>1. CASE i = m + 1
        BY <3>1
      <3>2. CASE i # m + 1
        <4>1. i \in 0 .. m /\ g[i] = f[i] /\ (i # 0 => i - 1 \in 0 .. m /\ g[i - 1] = f[i - 1])
          BY <3>2
        <4>2. f[i] = IF i = 0 THEN 0 ELSE 16 * f[i - 1] + Digit[s[i]]
          BY <2>1, <4>1
        <4> QED BY <4>1, <4>2
      <3> QED BY <3>1, <3>2
    <2>5. g = h
      BY <2>4
    <2> QED BY <2>3, <2>5
  <1>4. n \in S
    BY <1>2, <1>3, AllNumbers
  <1>5. \E f : Eq(f, n)
    BY <1>4
  <1>6. Eq(v, n)
    <2> HIDE DEF Eq
    <2> QED BY <1>5, Zenon
  <1>7. Value(s) = v[n]
    BY Zenon DEF Value
  <1> HIDE DEF v
  <1> DEFINE T == {m \in Nat : m <= n => v[m] \in Nat}
  <1>8. 0 \in T
    BY <1>6
  <1>9. ASSUME NEW m \in Nat, m \in T PROVE m + 1 \in T
    <2> SUFFICES ASSUME m + 1 <= n PROVE v[m + 1] \in Nat
      OBVIOUS
    <2>1. v[m + 1] = 16 * v[m] + Digit[s[m + 1]]
      BY <1>6
    <2> QED BY <1>1, <1>9, <2>1
  <1>10. n \in T
    BY <1>8, <1>9, AllNumbers
  <1> QED BY <1>7, <1>10

LEMMA ToContentLengthIs ==
  ASSUME NEW s \in Seq(Byte)
  PROVE  ToContentLength(s) \in -2 .. IntMax
  <1> DEFINE d == Digits(s)
             S == {Len(s) - i : i \in Blank(s)}
  <1>0. Blank(s) \subseteq 0 .. Len(s) /\ 0 \in Blank(s)
    BY DEF Blank
  <1>1. S \in SUBSET Nat /\ Len(s) \in S
    <2>1. Len(s) - 0 \in S
      BY <1>0
    <2>2. \A i \in 0 .. Len(s) : Len(s) - i \in Nat
      OBVIOUS
    <2> QED BY <1>0, <2>1, <2>2
  <1>2. PICK m \in S : \A x \in S : m <= x
    BY <1>1, LeastExists
  <1>3. \E i \in Blank(s) : \A j \in Blank(s) : j <= i
    <2>1. PICK i \in Blank(s) : m = Len(s) - i
      OBVIOUS
    <2>2. \A j \in Blank(s) : j \in 0 .. Len(s) /\ m <= Len(s) - j
      BY <1>0, <1>2
    <2>3. \A j \in Blank(s) : j <= i
      BY <2>1, <2>2
    <2> QED BY <2>3
  <1> DEFINE k == CHOOSE i \in Blank(s) : \A j \in Blank(s) : j <= i
  <1>4. k \in Blank(s)
    BY <1>3, Zenon
  <1>5. k \in 0 .. Len(s)
    BY <1>4, Zenon DEF Blank
  <1>6. d = Erased(s, k)
    BY Zenon DEF Digits
  <1> HIDE DEF k, d
  <1>7. d \in Seq(Byte)
    BY <1>5, <1>6, ErasedIs
  <1>8. ASSUME \A i \in 1 .. Len(d) : d[i] \in DOMAIN Digit PROVE Value(d) \in Nat
    <2>1. Len(d) \in Nat
      BY <1>7
    <2> QED BY <1>8, <2>1, ValueIs
  <1>9. ToContentLength(s) = IF d = <<>> \/ \E i \in 1 .. Len(d) : d[i] \notin DOMAIN Digit THEN Invalid
                             ELSE IF Value(d) > IntMax THEN TooLarge ELSE Value(d)
    BY Zenon DEF ToContentLength, d
  <1> QED BY <1>8, <1>9, Constants DEF Invalid, TooLarge

LEMMA WrappedIs ==
  ASSUME NEW n \in Int
  PROVE  /\ Wrapped(n) \in -(IntMax + 1) .. IntMax
         /\ n \in -(IntMax + 1) .. IntMax => Wrapped(n) = n
  <1> DEFINE w == 2 * (IntMax + 1)
             q == (n + IntMax + 1) % w
  <1>1. w \in Nat /\ w > 0 /\ w = 2 * (IntMax + 1)
    BY Constants
  <1>2. n + IntMax + 1 \in Int /\ n + IntMax + 1 = n + (IntMax + 1)
    BY Constants
  <1>3. Wrapped(n) = q - (IntMax + 1)
    BY Zenon DEF Wrapped
  <1>4. q \in 0 .. w - 1
    <2> HIDE DEF w
    <2> QED BY <1>1, <1>2
  <1>5. n + IntMax + 1 \in 0 .. w - 1 => q = n + IntMax + 1
    <2> HIDE DEF w
    <2> QED BY <1>1, <1>2
  <1> HIDE DEF w, q
  <1> QED BY <1>1, <1>2, <1>3, <1>4, <1>5, Constants

-----------------------------------------------------------------------------
(* The reading as a whole is defined from each byte on.                    *)

LEMMA LineEndIs ==
  ASSUME NEW b \in Seq(Byte), NEW i \in 1 .. Len(b) + 1
  PROVE  /\ LineEnd(b, i) \in i - 1 .. Len(b)
         /\ LineEnd(b, i) >= i => SizeAt(b, i) \in -2 .. IntMax /\ LineEnd(b, i) + 1 \in Nat
  <1> DEFINE e == Erased(b, i - 1)
             k == LineEnd(b, i)
             l == SubSeq(b, i, k - 1)
  <1>1. e \in Seq(Byte) /\ Len(e) = Len(b) - (i - 1)
    <2>1. i - 1 \in Nat /\ i - 1 <= Len(b)
      OBVIOUS
    <2> QED BY <2>1, ErasedIs
  <1>2. k = Find(e) + i - 1
    BY Zenon DEF LineEnd
  <1> HIDE DEF e, k
  <1>3. Find(e) \in Nat /\ (Find(e) # 0 => Find(e) \in 1 .. Len(e) - 1)
    BY <1>1, FindIs
  <1>4. k \in i - 1 .. Len(b)
    BY <1>1, <1>2, <1>3
  <1>5. ASSUME k >= i PROVE SizeAt(b, i) \in -2 .. IntMax
    <2>1. k - 1 \in Nat /\ k - 1 <= Len(b) /\ i \in Nat \ {0}
      BY <1>4, <1>5
    <2>2. l \in Seq(Byte)
      BY <2>1, Part
    <2>3. SizeAt(b, i) = ToContentLength(l)
      BY Zenon DEF SizeAt, k
    <2> QED BY <2>2, <2>3, ToContentLengthIs
  <1> QED BY <1>4, <1>5 DEF k

(* Behind the CR LF of a chunk there is a byte of the body, or its end.    *)
LEMMA NextIs ==
  ASSUME NEW b \in Seq(Byte), NEW j \in Nat \ {0}, StartsWith(Erased(b, j - 1), CRLF)
  PROVE  j + 2 \in 1 .. Len(b) + 1
  <1>1. j - 1 \in Nat
    OBVIOUS
  <1>2. Erased(b, j - 1) \in Seq(Byte)
        /\ Len(Erased(b, j - 1)) = (IF j - 1 <= Len(b) THEN Len(b) - (j - 1) ELSE 0)
    BY <1>1, ErasedIs
  <1>3. Len(Erased(b, j - 1)) >= 2
    BY <1>2, Literals, StartsWithIff
  <1> QED BY <1>2, <1>3

LEMMA BrokenIs == Broken \in Meant
  BY Literals DEF Broken, Meant

(* The chunk depends on what follows only if it has data.                  *)
LEMMA ChunkAtIs ==
  ASSUME NEW b \in Seq(Byte), NEW i \in 1 .. Len(b) + 1, NEW rest \in Meant
  PROVE  /\ ChunkAt(b, i, rest) \in Meant
         /\ LineEnd(b, i) < i => ChunkAt(b, i, rest) = Broken
         /\ LineEnd(b, i) >= i /\ SizeAt(b, i) = 0 =>
              ChunkAt(b, i, rest) =
                [data |-> <<>>, sum |-> 0, ok |-> StartsWith(Erased(b, i - 1), Terminator)]
         /\ LineEnd(b, i) >= i /\ SizeAt(b, i) < 0 =>
              ChunkAt(b, i, rest) =
                [data |-> <<>>, sum |-> IF SizeAt(b, i) = TooLarge THEN IntMax + 1 ELSE 0, ok |-> FALSE]
         /\ LineEnd(b, i) >= i /\ SizeAt(b, i) > 0 =>
              /\ DataEnd(b, i) \in Nat /\ DataEnd(b, i) > i
              /\ ChunkAt(b, i, rest) =
                   [data |-> First(Erased(b, LineEnd(b, i) + 1), SizeAt(b, i)) \o rest.data,
                    sum |-> SizeAt(b, i) + rest.sum, ok |-> rest.ok]
  <1> DEFINE k == LineEnd(b, i)
             z == SizeAt(b, i)
             d == First(Erased(b, k + 1), z)
             s == StartsWith(Erased(b, i - 1), Terminator)
             c == ChunkAt(b, i, rest)
             end == DataEnd(b, i)
  <1>1. k \in i - 1 .. Len(b) /\ (k >= i => z \in -2 .. IntMax /\ k + 1 \in Nat)
    BY LineEndIs
  <1>2. c = IF k < i THEN Broken
            ELSE IF z = 0 THEN [Broken EXCEPT !.ok = s]
            ELSE IF z < 0 THEN [Broken EXCEPT !.sum = IF z = TooLarge THEN IntMax + 1 ELSE 0]
            ELSE [data |-> d \o rest.data, sum |-> z + rest.sum, ok |-> rest.ok]
    BY Zenon DEF ChunkAt
  <1>3. end = k + 2 + z
    BY Zenon DEF DataEnd
  <1>4. k >= i /\ z > 0 => d \in Seq(Byte)
    <2> SUFFICES ASSUME k >= i, z > 0 PROVE d \in Seq(Byte)
      OBVIOUS
    <2>1. k + 1 \in Nat /\ z \in Nat
      BY <1>1
    <2> HIDE DEF k, z
    <2>2. Erased(b, k + 1) \in Seq(Byte)
      BY <2>1, ErasedIs
    <2> QED BY <2>1, <2>2, FirstIs
  <1>5. s \in BOOLEAN
    BY DEF StartsWith
  <1>6. rest.data \in Seq(Byte) /\ rest.sum \in Nat /\ rest.ok \in BOOLEAN
    BY DEF Meant
  <1> HIDE DEF k, z, d, s, c, end
  <1>7. ASSUME k < i PROVE c = Broken /\ c \in Meant
    BY <1>2, <1>7, BrokenIs
  <1>8. ASSUME k >= i, z = 0 PROVE c = [data |-> <<>>, sum |-> 0, ok |-> s] /\ c \in Meant
    <2>1. c = [Broken EXCEPT !.ok = s]
      BY <1>1, <1>2, <1>8
    <2>2. c = [data |-> <<>>, sum |-> 0, ok |-> s]
      BY <2>1 DEF Broken
    <2> QED BY <1>5, <2>2, Literals DEF Meant
  <1>9. ASSUME k >= i, z < 0
        PROVE  c = [data |-> <<>>, sum |-> IF z = TooLarge THEN IntMax + 1 ELSE 0, ok |-> FALSE] /\ c \in Meant
    <2> DEFINE n == IF z = TooLarge THEN IntMax + 1 ELSE 0
    <2>1. n \in Nat
      BY Constants
    <2>2. c = [Broken EXCEPT !.sum = n]
      BY <1>1, <1>2, <1>9
    <2> HIDE DEF n
    <2>3. c = [data |-> <<>>, sum |-> n, ok |-> FALSE]
      BY <2>2 DEF Broken
    <2>4. c \in Meant
      BY <2>1, <2>3, Literals DEF Meant
    <2> QED BY <2>3, <2>4 DEF n
  <1>10. ASSUME k >= i, z > 0
         PROVE  /\ c = [data |-> d \o rest.data, sum |-> z + rest.sum, ok |-> rest.ok] /\ c \in Meant
                /\ end \in Nat /\ end > i
    <2>1. c = [data |-> d \o rest.data, sum |-> z + rest.sum, ok |-> rest.ok]
      BY <1>1, <1>2, <1>10
    <2>2. d \o rest.data \in Seq(Byte)
      BY <1>4, <1>6, <1>10
    <2>3. z + rest.sum \in Nat
      BY <1>1, <1>6, <1>10, Constants
    <2>4. c \in Meant
      BY <1>6, <2>1, <2>2, <2>3 DEF Meant
    <2>5. end \in Nat /\ end > i
      BY <1>1, <1>3, <1>10, Constants
    <2> QED BY <2>1, <2>4, <2>5
  <1>11. c \in Meant
    <2>1. k < i \/ (k >= i /\ (z = 0 \/ z < 0 \/ z > 0))
      BY <1>1, Constants
    <2> QED BY <1>7, <1>8, <1>9, <1>10, <2>1
  <1> QED BY <1>7, <1>8, <1>9, <1>10, <1>11, Zenon DEF k, z, d, s, c, end

(* The chunk at byte i, when f tells what is found at the later bytes.     *)
ChunkWith(b, i, f) ==
    ChunkAt(b, i, IF StartsWith(Erased(b, DataEnd(b, i) - 1), CRLF) THEN f[DataEnd(b, i) + 2] ELSE Broken)

LEMMA Irrelevant ==
  ASSUME NEW b, NEW i, NEW rest,
         LineEnd(b, i) < i \/ SizeAt(b, i) = 0 \/ SizeAt(b, i) < 0
  PROVE  ChunkAt(b, i, rest) = ChunkAt(b, i, Broken)
  BY Zenon DEF ChunkAt

LEMMA ChunkWithIs ==
  ASSUME NEW b \in Seq(Byte), NEW i \in 1 .. Len(b) + 1, NEW f,
         \A j \in i + 1 .. Len(b) + 1 : f[j] \in Meant
  PROVE  /\ ChunkWith(b, i, f) \in Meant
         /\ \A g : (\A j \in i + 1 .. Len(b) + 1 : g[j] = f[j]) => ChunkWith(b, i, g) = ChunkWith(b, i, f)
  <1> DEFINE c == StartsWith(Erased(b, DataEnd(b, i) - 1), CRLF)
             next == DataEnd(b, i) + 2
  <1>1. LineEnd(b, i) \in i - 1 .. Len(b) /\ (LineEnd(b, i) >= i => SizeAt(b, i) \in -2 .. IntMax)
    BY LineEndIs
  <1>2. ASSUME NEW h PROVE ChunkWith(b, i, h) = ChunkAt(b, i, IF c THEN h[next] ELSE Broken)
    BY Zenon DEF ChunkWith
  <1>3. CASE LineEnd(b, i) < i \/ SizeAt(b, i) = 0 \/ SizeAt(b, i) < 0
    <2>1. ASSUME NEW h PROVE ChunkWith(b, i, h) = ChunkAt(b, i, Broken)
      BY <1>2, <1>3, Irrelevant, Zenon
    <2>2. ChunkAt(b, i, Broken) \in Meant
      BY BrokenIs, ChunkAtIs
    <2> QED BY <2>1, <2>2, Zenon
  <1>4. CASE LineEnd(b, i) >= i /\ SizeAt(b, i) > 0
    <2>1. DataEnd(b, i) \in Nat /\ DataEnd(b, i) > i
      BY <1>4, BrokenIs, ChunkAtIs
    <2>2. c => next \in i + 1 .. Len(b) + 1
      BY <2>1, NextIs
    <2>3. c => f[next] \in Meant
      BY <2>2
    <2>4. (IF c THEN f[next] ELSE Broken) \in Meant
      BY <2>3, BrokenIs
    <2> HIDE DEF c, next
    <2>5. ChunkWith(b, i, f) \in Meant
      BY <1>2, <2>4, ChunkAtIs
    <2>6. ASSUME NEW g, \A j \in i + 1 .. Len(b) + 1 : g[j] = f[j]
          PROVE  ChunkWith(b, i, g) = ChunkWith(b, i, f)
      <3>1. c => g[next] = f[next]
        BY <2>2, <2>6
      <3>2. (IF c THEN g[next] ELSE Broken) = (IF c THEN f[next] ELSE Broken)
        BY <3>1
      <3> QED BY <1>2, <3>2, Zenon
    <2> QED BY <2>5, <2>6
  <1>5. LineEnd(b, i) < i \/ (LineEnd(b, i) >= i /\ (SizeAt(b, i) = 0 \/ SizeAt(b, i) < 0 \/ SizeAt(b, i) > 0))
    BY <1>1, Constants
  <1> QED BY <1>3, <1>4, <1>5

(* Chunks is total: at each byte it finds what the chunk there and what it *)
(* finds behind that chunk make together.                                  *)
LEMMA ChunksTotal ==
  ASSUME NEW b \in Seq(Byte)
  PROVE  \A i \in 1 .. Len(b) + 1 :
            Chunks(b)[i] \in Meant /\ Chunks(b)[i] = ChunkWith(b, i, Chunks(b))
  <1> DEFINE n == Len(b)
             Eq(f, l) == f = [i \in l .. n + 1 |-> ChunkWith(b, i, f)]
             v == CHOOSE f : Eq(f, 1)
             S == {m \in Nat : m <= n + 1 => \E f \in [n + 2 - m .. n + 1 -> Meant] : Eq(f, n + 2 - m)}
  <1>1. n \in Nat
    OBVIOUS
  <1>2. 0 \in S
    <2> SUFFICES \E f \in [n + 2 - 0 .. n + 1 -> Meant] : Eq(f, n + 2 - 0)
      <3> HIDE DEF Eq, n
      <3> QED OBVIOUS
    <2> DEFINE f == [i \in n + 2 - 0 .. n + 1 |-> Broken]
    <2>1. n + 2 - 0 .. n + 1 = {}
      OBVIOUS
    <2>2. f \in [n + 2 - 0 .. n + 1 -> Meant]
      BY <2>1
    <2>3. f = [i \in n + 2 - 0 .. n + 1 |-> ChunkWith(b, i, f)]
      BY <2>1
    <2> HIDE DEF f
    <2> QED BY <2>2, <2>3
  <1>3. ASSUME NEW m \in Nat, m \in S PROVE m + 1 \in S
    <2> DEFINE l == n + 2 - (m + 1)
    <2> SUFFICES ASSUME m + 1 <= n + 1 PROVE \E g \in [l .. n + 1 -> Meant] : Eq(g, l)
      <3> HIDE DEF Eq, n
      <3> QED OBVIOUS
    <2>1. n + 2 - m = l + 1 /\ l \in 1 .. n + 1
      OBVIOUS
    <2>2. PICK f \in [l + 1 .. n + 1 -> Meant] : Eq(f, l + 1)
      <3>1. \E f \in [n + 2 - m .. n + 1 -> Meant] : Eq(f, n + 2 - m)
        BY <1>3
      <3> HIDE DEF Eq, l
      <3> QED BY <2>1, <3>1
    <2> DEFINE g == [i \in l .. n + 1 |-> IF i = l THEN ChunkWith(b, l, f) ELSE f[i]]
               h == [i \in l .. n + 1 |-> ChunkWith(b, i, g)]
    <2> HIDE DEF l
    <2>3. ChunkWith(b, l, f) \in Meant
      BY <2>1, ChunkWithIs
    <2>4. g \in [l .. n + 1 -> Meant]
      BY <1>1, <2>1, <2>3
    <2>5. \A j \in l + 1 .. n + 1 : g[j] = f[j]
      BY <1>1, <2>1
    <2>6. ASSUME NEW i \in l .. n + 1 PROVE g[i] = ChunkWith(b, i, g)
      <3>0. i \in 1 .. Len(b) + 1 /\ \A j \in i + 1 .. Len(b) + 1 : f[j] \in Meant /\ g[j] = f[j]
        BY <1>1, <2>1, <2>5
      <3> HIDE DEF g
      <3>1. ChunkWith(b, i, g) = ChunkWith(b, i, f)
        BY <3>0, ChunkWithIs
      <3>2. CASE i = l
        BY <3>1, <3>2 DEF g
      <3>3. CASE i # l
        <4>1. i \in l + 1 .. n + 1
          BY <1>1, <2>1, <3>3
        <4>2. f[i] = ChunkWith(b, i, f)
          BY <2>2, <4>1
        <4> QED BY <2>5, <3>1, <4>1, <4>2
      <3> QED BY <3>2, <3>3
    <2>7. g = h
      <3>1. \A i \in l .. n + 1 : g[i] = h[i]
        BY <2>6
      <3> QED BY <3>1
    <2>8. Eq(g, l)
      BY <2>7
    <2> HIDE DEF g, Eq
    <2> QED BY <2>4, <2>8
  <1>4. n + 1 \in S
    <2>1. n + 1 \in Nat
      BY <1>1
    <2> HIDE DEF S
    <2> QED BY <1>2, <1>3, <2>1, AllNumbers
  <1>5. \E f : Eq(f, 1)
    <2>1. n + 2 - (n + 1) = 1
      BY <1>1
    <2> HIDE DEF Eq, n
    <2> QED BY <1>4, <2>1
  <1>6. Eq(v, 1)
    <2> HIDE DEF Eq
    <2> QED BY <1>5, Zenon
  <1>7. Chunks(b) = v
    BY Zenon DEF Chunks, ChunkWith
  <1> HIDE DEF v
  <1>8. \A i \in 1 .. n + 1 : v[i] = ChunkWith(b, i, v)
    BY <1>6
  <1> DEFINE T == {m \in Nat : m <= n + 1 => \A j \in n + 2 - m .. n + 1 : v[j] \in Meant}
  <1>9. 0 \in T
    BY <1>1
  <1>10. ASSUME NEW m \in Nat, m \in T PROVE m + 1 \in T
    <2> DEFINE l == n + 2 - (m + 1)
    <2> SUFFICES ASSUME m + 1 <= n + 1 PROVE \A j \in l .. n + 1 : v[j] \in Meant
      OBVIOUS
    <2>1. n + 2 - m = l + 1 /\ l \in 1 .. n + 1
      BY <1>1
    <2> HIDE DEF l
    <2>2. \A j \in l + 1 .. n + 1 : v[j] \in Meant
      BY <1>1, <1>10, <2>1
    <2>3. ChunkWith(b, l, v) \in Meant
      BY <2>1, <2>2, ChunkWithIs
    <2>4. v[l] \in Meant
      BY <1>8, <2>1, <2>3
    <2> QED BY <1>1, <2>1, <2>2, <2>4
  <1>11. \A j \in 1 .. n + 1 : v[j] \in Meant
    <2>1. n + 1 \in Nat /\ n + 2 - (n + 1) = 1
      BY <1>1
    <2>2. n + 1 \in T
      <3> HIDE DEF T
      <3> QED BY <1>9, <1>10, <2>1, AllNumbers
    <2> QED BY <2>1, <2>2
  <1> QED BY <1>7, <1>8, <1>11

-----------------------------------------------------------------------------
(* What a step of the reader does to what is still to come.                *)

LEMMA AfterDataIs ==
  ASSUME NEW b \in Seq(Byte), NEW j \in Nat \ {0}
  PROVE  AfterData(b, j) \in Meant
  <1>1. CASE StartsWith(Erased(b, j - 1), CRLF)
    <2>1. j + 2 \in 1 .. Len(b) + 1
      BY <1>1, NextIs
    <2>2. Chunks(b)[j + 2] \in Meant
      BY <2>1, ChunksTotal
    <2> QED BY <1>1, <2>2 DEF AfterData
  <1>2. CASE ~StartsWith(Erased(b, j - 1), CRLF)
    BY <1>2, BrokenIs DEF AfterData
  <1> QED BY <1>1, <1>2

LEMMA PendingIs ==
  ASSUME NEW b \in Seq(Byte), NEW p \in Nat, NEW c \in Nat
  PROVE  /\ Pending(b, p, c) \in Meant
         /\ Pending(b, p, c).data = First(Erased(b, p), c) \o AfterData(b, p + c + 1).data
         /\ Pending(b, p, c).sum = c + AfterData(b, p + c + 1).sum
         /\ Pending(b, p, c).ok = AfterData(b, p + c + 1).ok
  <1> DEFINE a == AfterData(b, p + c + 1)
             d == First(Erased(b, p), c)
  <1>1. a \in Meant
    <2>1. p + c + 1 \in Nat \ {0}
      OBVIOUS
    <2> QED BY <2>1, AfterDataIs
  <1>2. d \in Seq(Byte)
    <2>1. Erased(b, p) \in Seq(Byte)
      BY ErasedIs
    <2> QED BY <2>1, FirstIs
  <1>3. Pending(b, p, c) = [data |-> d \o a.data, sum |-> c + a.sum, ok |-> a.ok]
    BY Zenon DEF Pending
  <1> HIDE DEF a, d
  <1>4. d \o a.data \in Seq(Byte) /\ c + a.sum \in Nat /\ a.ok \in BOOLEAN
    BY <1>1, <1>2 DEF Meant
  <1>5. Pending(b, p, c) \in Meant
    BY <1>3, <1>4 DEF Meant
  <1>6. /\ Pending(b, p, c).data = d \o a.data
        /\ Pending(b, p, c).sum = c + a.sum
        /\ Pending(b, p, c).ok = a.ok
    BY <1>3
  <1> QED BY <1>5, <1>6, Zenon DEF a, d

LEMMA TodoAtIs ==
  ASSUME NEW b \in Seq(Byte), NEW p \in 0 .. Len(b), NEW c \in Int, c >= SizeDue
  PROVE  /\ TodoAt(b, p, c) \in Meant
         /\ TodoAt(b, p, c).data \in Seq(Byte)
         /\ TodoAt(b, p, c).sum \in Nat
         /\ c # SizeDue => TodoAt(b, p, c).sum >= c
  <1>1. CASE c = SizeDue
    <2>1. p + 1 \in 1 .. Len(b) + 1
      OBVIOUS
    <2>2. TodoAt(b, p, c) \in Meant
      BY <1>1, <2>1, ChunksTotal DEF TodoAt
    <2> QED BY <1>1, <2>2 DEF Meant
  <1>2. CASE c # SizeDue
    <2>1. c \in Nat /\ p \in Nat /\ p + c + 1 \in Nat \ {0}
      BY <1>2 DEF SizeDue
    <2>2. TodoAt(b, p, c) = Pending(b, p, c)
      BY <1>2 DEF TodoAt
    <2>3. AfterData(b, p + c + 1).sum \in Nat
      BY <2>1, AfterDataIs DEF Meant
    <2>4. Pending(b, p, c) \in Meant /\ Pending(b, p, c).sum >= c
      BY <2>1, <2>3, PendingIs
    <2> QED BY <2>2, <2>4 DEF Meant
  <1> QED BY <1>1, <1>2

(* The CR LF behind a chunk. *)
LEMMA TodoBehind ==
  ASSUME NEW b \in Seq(Byte), NEW p \in 0 .. Len(b)
  PROVE  /\ StartsWith(Erased(b, p), CRLF) =>
              /\ p + 2 \in 0 .. Len(b)
              /\ TodoAt(b, p + 2, SizeDue).data = TodoAt(b, p, 0).data
              /\ TodoAt(b, p + 2, SizeDue).sum = TodoAt(b, p, 0).sum
              /\ TodoAt(b, p + 2, SizeDue).ok = TodoAt(b, p, 0).ok
         /\ ~StartsWith(Erased(b, p), CRLF) => ~TodoAt(b, p, 0).ok
  <1> DEFINE a == AfterData(b, p + 0 + 1)
  <1>0. p \in Nat /\ p + 1 \in Nat \ {0} /\ p + 0 + 1 = p + 1 /\ (p + 1) - 1 = p
    OBVIOUS
  <1>1. a = IF StartsWith(Erased(b, p), CRLF) THEN Chunks(b)[(p + 1) + 2] ELSE Broken
    BY <1>0 DEF AfterData
  <1>2. a \in Meant
    BY <1>0, AfterDataIs
  <1>3. TodoAt(b, p, 0) = Pending(b, p, 0)
    BY DEF TodoAt, SizeDue
  <1>4. First(Erased(b, p), 0) = <<>>
    <2>1. Erased(b, p) \in Seq(Byte)
      BY <1>0, ErasedIs
    <2>2. First(Erased(b, p), 0) \in Seq(Byte) /\ Len(First(Erased(b, p), 0)) = 0
      BY <2>1, FirstIs
    <2> QED BY <2>2
  <1>5. /\ TodoAt(b, p, 0).data = First(Erased(b, p), 0) \o a.data
        /\ TodoAt(b, p, 0).sum = 0 + a.sum
        /\ TodoAt(b, p, 0).ok = a.ok
    BY <1>0, <1>3, PendingIs
  <1> HIDE DEF a
  <1>6. a.data \in Seq(Byte) /\ a.sum \in Nat
    BY <1>2 DEF Meant
  <1>7. TodoAt(b, p, 0).data = a.data /\ TodoAt(b, p, 0).sum = a.sum
    <2>1. <<>> \o a.data = a.data
      BY <1>6, ConcatEmptySeq
    <2>2. TodoAt(b, p, 0).data = <<>> \o a.data
      BY <1>4, <1>5
    <2>3. 0 + a.sum = a.sum
      BY <1>6
    <2> QED BY <1>5, <2>1, <2>2, <2>3, Zenon
  <1>8. ASSUME StartsWith(Erased(b, p), CRLF) PROVE p + 2 \in 0 .. Len(b)
    <2>1. (p + 1) + 2 \in 1 .. Len(b) + 1
      BY <1>0, <1>8, NextIs
    <2> QED BY <2>1
  <1>9. ASSUME StartsWith(Erased(b, p), CRLF) PROVE TodoAt(b, p + 2, SizeDue) = a
    <2>1. (p + 2) + 1 = (p + 1) + 2
      OBVIOUS
    <2> QED BY <1>1, <1>9, <2>1 DEF TodoAt
  <1>10. ASSUME ~StartsWith(Erased(b, p), CRLF) PROVE ~a.ok
    BY <1>1, <1>10 DEF Broken
  <1> QED BY <1>5, <1>7, <1>8, <1>9, <1>10

(* A size line at the start of what has arrived. *)
LEMMA TodoAtSize ==
  ASSUME NEW b \in Seq(Byte), NEW p \in 0 .. Len(b), NEW u \in Seq(Byte),
         StartsWith(Erased(b, p), u), Find(u) # 0,
         NEW z, z = ToContentLength(SubSeq(u, 1, Find(u) - 1))
  PROVE  /\ z \in -2 .. IntMax
         /\ z = 0 => /\ TodoAt(b, p, SizeDue).data = <<>>
                     /\ TodoAt(b, p, SizeDue).sum = 0
                     /\ TodoAt(b, p, SizeDue).ok = StartsWith(Erased(b, p), Terminator)
         /\ z = Invalid => ~TodoAt(b, p, SizeDue).ok
         /\ z = TooLarge => TodoAt(b, p, SizeDue).sum = IntMax + 1
         /\ z > 0 => TodoAt(b, p, SizeDue) = TodoAt(b, p + Find(u) + 1, z)
  <1> DEFINE i == p + 1
             k == Find(u)
             r == TodoAt(b, p, SizeDue)
             a == IF StartsWith(Erased(b, DataEnd(b, i) - 1), CRLF) THEN Chunks(b)[DataEnd(b, i) + 2] ELSE Broken
  <1>1. i \in 1 .. Len(b) + 1 /\ i - 1 = p
    OBVIOUS
  <1>2. LineEnd(b, i) = p + k /\ SizeAt(b, i) = z
    BY SizeIs
  <1>3. k \in Nat \ {0} /\ LineEnd(b, i) >= i
    BY <1>2, FindIs
  <1>4. z \in -2 .. IntMax
    BY <1>1, <1>2, <1>3, LineEndIs
  <1>5. r = ChunkAt(b, i, a)
    <2>1. r = Chunks(b)[i]
      BY DEF TodoAt
    <2> HIDE DEF i
    <2> QED BY <1>1, <2>1, ChunksTotal, Zenon DEF ChunkWith
  <1>6. DataEnd(b, i) = p + k + 2 + z
    BY <1>2, Zenon DEF DataEnd
  <1>7. CASE z > 0
    <2>1. DataEnd(b, i) \in Nat /\ DataEnd(b, i) > i
      BY <1>1, <1>2, <1>3, <1>7, BrokenIs, ChunkAtIs
    <2>2. a = AfterData(b, DataEnd(b, i))
      BY Zenon DEF AfterData
    <2>3. a \in Meant
      BY <1>1, <2>1, <2>2, AfterDataIs
    <2>4. ChunkAt(b, i, a) = [data |-> First(Erased(b, LineEnd(b, i) + 1), SizeAt(b, i)) \o a.data,
                              sum |-> SizeAt(b, i) + a.sum, ok |-> a.ok]
      <3> HIDE DEF a, i
      <3> QED BY <1>1, <1>2, <1>3, <1>7, <2>3, ChunkAtIs
    <2>5. DataEnd(b, i) = (p + k + 1) + z + 1
      BY <1>3, <1>4, <1>6, Constants
    <2>6. a = AfterData(b, (p + k + 1) + z + 1)
      BY <2>2, <2>5
    <2>7. LineEnd(b, i) + 1 = p + k + 1
      BY <1>2, <1>3
    <2>8. r = [data |-> First(Erased(b, p + k + 1), z) \o a.data, sum |-> z + a.sum, ok |-> a.ok]
      <3> HIDE DEF a, i, k, r
      <3> QED BY <1>2, <1>5, <2>4, <2>7, Zenon
    <2>9. Pending(b, p + k + 1, z) =
            [data |-> First(Erased(b, p + k + 1), z) \o a.data, sum |-> z + a.sum, ok |-> a.ok]
      <3> HIDE DEF a, i, r
      <3> QED BY <2>6, Zenon DEF Pending
    <2>10. z # SizeDue
      BY <1>7 DEF SizeDue
    <2>11. TodoAt(b, p + k + 1, z) = Pending(b, p + k + 1, z)
      BY <2>10, Zenon DEF TodoAt
    <2>12. r = TodoAt(b, p + k + 1, z) /\ z # 0 /\ z # Invalid /\ z # TooLarge
      <3>1. r = TodoAt(b, p + k + 1, z)
        BY <2>8, <2>9, <2>11, Zenon
      <3>2. z # 0 /\ z # Invalid /\ z # TooLarge
        BY <1>7 DEF Invalid, TooLarge
      <3> QED BY <3>1, <3>2, Zenon
    <2> QED BY <1>4, <2>12
  <1>8. CASE z = 0 \/ z < 0
    <2>1. r = ChunkAt(b, i, Broken)
      <3> HIDE DEF a, i
      <3> QED BY <1>2, <1>5, <1>8, Irrelevant
    <2>2. z = 0 => r = [data |-> <<>>, sum |-> 0, ok |-> StartsWith(Erased(b, p), Terminator)]
      <3> HIDE DEF i
      <3> QED BY <1>1, <1>2, <1>3, <2>1, BrokenIs, ChunkAtIs
    <2>3. z < 0 => r = [data |-> <<>>, sum |-> IF z = TooLarge THEN IntMax + 1 ELSE 0, ok |-> FALSE]
      <3> SUFFICES ASSUME z < 0
                   PROVE  r = [data |-> <<>>, sum |-> IF z = TooLarge THEN IntMax + 1 ELSE 0, ok |-> FALSE]
        OBVIOUS
      <3> HIDE DEF i, r
      <3>1. SizeAt(b, i) < 0
        BY <1>2
      <3>2. ChunkAt(b, i, Broken) =
              [data |-> <<>>, sum |-> IF SizeAt(b, i) = TooLarge THEN IntMax + 1 ELSE 0, ok |-> FALSE]
        BY <1>1, <1>3, <3>1, BrokenIs, ChunkAtIs
      <3> QED BY <1>2, <2>1, <3>2, Zenon
    <2> HIDE DEF r, i
    <2>4. z = 0 => /\ r.data = <<>> /\ r.sum = 0 /\ r.ok = StartsWith(Erased(b, p), Terminator)
      BY <2>2
    <2>5. z = Invalid => ~r.ok
      BY <2>3 DEF Invalid
    <2>6. z = TooLarge => r.sum = IntMax + 1
      BY <2>3 DEF TooLarge
    <2>7. ~(z > 0)
      BY <1>4, <1>8, Constants
    <2> QED BY <1>4, <2>4, <2>5, <2>6, <2>7 DEF r
  <1>9. z > 0 \/ z = 0 \/ z < 0
    BY <1>4, Constants
  <1> QED BY <1>7, <1>8, <1>9

(* k bytes of the chunk, or of the body, that are in the buffer.           *)
LEMMA TodoTaken ==
  ASSUME NEW b \in Seq(Byte), NEW p \in 0 .. Len(b), NEW u \in Seq(Byte),
         StartsWith(Erased(b, p), u), NEW c \in Nat, NEW k \in 0 .. c, k <= Len(u)
  PROVE  /\ p + k \in 0 .. Len(b)
         /\ SubSeq(u, 1, k) \in Seq(Byte) /\ Len(SubSeq(u, 1, k)) = k
         /\ First(Erased(b, p + k), c - k) \in Seq(Byte)
         /\ First(Erased(b, p), c) = SubSeq(u, 1, k) \o First(Erased(b, p + k), c - k)
         /\ TodoAt(b, p, c).data = SubSeq(u, 1, k) \o TodoAt(b, p + k, c - k).data
         /\ TodoAt(b, p, c).sum = k + TodoAt(b, p + k, c - k).sum
         /\ TodoAt(b, p, c).ok = TodoAt(b, p + k, c - k).ok
  <1> DEFINE e == Erased(b, p)
             f == Erased(b, p + k)
             x == SubSeq(u, 1, k)
             y == SubSeq(e, 1, k)
             d == First(f, c - k)
             a == AfterData(b, p + c + 1)
  <1>1. e \in Seq(Byte) /\ Len(e) = Len(b) - p
    <2>1. p \in Nat /\ p <= Len(b)
      OBVIOUS
    <2> QED BY <2>1, ErasedIs
  <1>2. Len(u) <= Len(e) /\ \A i \in 1 .. Len(u) : e[i] = u[i]
    BY <1>1, StartsWithIff
  <1>3. x \in Seq(Byte) /\ Len(x) = k /\ \A i \in 1 .. k : x[i] = u[1 + i - 1]
    BY Part
  <1>4. p + k \in 0 .. Len(b) /\ p \in Nat /\ k \in Nat /\ p + k \in Nat /\ c - k \in Nat
    BY <1>1, <1>2
  <1>5. f \in Seq(Byte) /\ f = Erased(e, k)
    BY <1>4, ErasedIs, ErasedTwice
  <1> HIDE DEF e, f
  <1>6. y \in Seq(Byte) /\ Len(y) = k /\ \A i \in 1 .. k : y[i] = e[1 + i - 1]
    BY <1>1, <1>2, Part
  <1>7. d \in Seq(Byte)
    BY <1>4, <1>5, FirstIs
  <1>8. x = y
    <2> HIDE DEF x, y
    <2>1. \A i \in 1 .. Len(x) : x[i] = y[i]
      BY <1>2, <1>3, <1>6
    <2> QED BY <1>3, <1>6, <2>1, Same
  <1>9. First(e, c) = y \o d
    <2>1. First(e, c) = SubSeq(e, 1, k) \o First(Erased(e, k), c - k)
      <3>1. k <= Len(e)
        BY <1>1, <1>2
      <3> QED BY <1>1, <3>1, TakenInTwo
    <2> QED BY <1>5, <2>1, Zenon
  <1>10. /\ TodoAt(b, p, c).data = First(e, c) \o a.data
         /\ TodoAt(b, p, c).sum = c + a.sum
         /\ TodoAt(b, p, c).ok = a.ok
    <2>1. TodoAt(b, p, c) = Pending(b, p, c)
      <3>1. c # SizeDue
        BY DEF SizeDue
      <3> QED BY <3>1, Zenon DEF TodoAt
    <2> QED BY <1>4, <2>1, PendingIs DEF e
  <1>11. /\ TodoAt(b, p + k, c - k).data = d \o a.data
         /\ TodoAt(b, p + k, c - k).sum = (c - k) + a.sum
         /\ TodoAt(b, p + k, c - k).ok = a.ok
    <2>1. TodoAt(b, p + k, c - k) = Pending(b, p + k, c - k)
      <3>1. c - k # SizeDue
        BY <1>4 DEF SizeDue
      <3> QED BY <3>1, Zenon DEF TodoAt
    <2>2. (p + k) + (c - k) + 1 = p + c + 1
      BY <1>4
    <2>3. /\ Pending(b, p + k, c - k).data = First(Erased(b, p + k), c - k) \o AfterData(b, (p + k) + (c - k) + 1).data
          /\ Pending(b, p + k, c - k).sum = (c - k) + AfterData(b, (p + k) + (c - k) + 1).sum
          /\ Pending(b, p + k, c - k).ok = AfterData(b, (p + k) + (c - k) + 1).ok
      <3> DEFINE q == p + k
                 t == c - k
      <3>1. q \in Nat /\ t \in Nat
        BY <1>4
      <3> HIDE DEF q, t
      <3>2. /\ Pending(b, q, t).data = First(Erased(b, q), t) \o AfterData(b, q + t + 1).data
            /\ Pending(b, q, t).sum = t + AfterData(b, q + t + 1).sum
            /\ Pending(b, q, t).ok = AfterData(b, q + t + 1).ok
        BY <3>1, PendingIs, Zenon
      <3> QED BY <3>2 DEF q, t
    <2> QED BY <2>1, <2>2, <2>3, Zenon DEF f
  <1>12. a \in Meant
    <2>1. p + c + 1 \in Nat \ {0}
      OBVIOUS
    <2> QED BY <2>1, AfterDataIs
  <1>13. a.data \in Seq(Byte) /\ a.sum \in Nat
    <2> HIDE DEF a
    <2> QED BY <1>12 DEF Meant
  <1> HIDE DEF a, x, y, d
  <1>14. (x \o d) \o a.data = x \o (d \o a.data)
    <2>1. x \in Seq(Byte) /\ d \in Seq(Byte) /\ a.data \in Seq(Byte)
      BY <1>3, <1>7, <1>13, Zenon
    <2> DEFINE v == a.data
    <2> HIDE DEF v
    <2>2. x \in Seq(Byte) /\ d \in Seq(Byte) /\ v \in Seq(Byte)
      BY <2>1 DEF v
    <2>3. (x \o d) \o v = x \o (d \o v)
      BY <2>2, ConcatAssociative, SMTT(40)
    <2> QED BY <2>3 DEF v
  <1>15. TodoAt(b, p, c).data = x \o TodoAt(b, p + k, c - k).data
    BY <1>8, <1>9, <1>10, <1>11, <1>14, Zenon
  <1>16. TodoAt(b, p, c).sum = k + TodoAt(b, p + k, c - k).sum
    <2>1. c + a.sum = k + ((c - k) + a.sum)
      BY <1>4, <1>13
    <2> QED BY <1>10, <1>11, <2>1, Zenon
  <1>17. First(e, c) = x \o d /\ TodoAt(b, p, c).ok = TodoAt(b, p + k, c - k).ok
    BY <1>8, <1>9, <1>10, <1>11, Zenon
  <1> QED BY <1>3, <1>4, <1>7, <1>15, <1>16, <1>17, Zenon DEF x, d, e, f

(* What has been handed on may end in a byte that is not of the body.      *)
LEMMA HandedOn ==
  ASSUME NEW w \in Seq(Byte \cup {Garbage}), NEW x \in Seq(Byte), NEW d \in Seq(Byte)
  PROVE  /\ w \o x \in Seq(Byte \cup {Garbage}) /\ Len(w \o x) = Len(w) + Len(x)
         /\ w \o (x \o d) = (w \o x) \o d
         /\ w \o <<>> = w
         /\ StartsWith(w \o d, w)
  <1> DEFINE A == Byte \cup {Garbage}
  <1>1. w \in Seq(A) /\ x \in Seq(A) /\ d \in Seq(A)
    <2>1. Byte \subseteq A
      OBVIOUS
    <2> QED BY <2>1, SeqMonotonic
  <1> HIDE DEF A
  <1>2. w \o x \in Seq(A) /\ Len(w \o x) = Len(w) + Len(x)
    BY <1>1, ConcatProperties
  <1>3. w \o (x \o d) = (w \o x) \o d
    BY <1>1, ConcatAssociative, SMTT(40)
  <1>4. w \o <<>> = w
    BY <1>1, ConcatEmptySeq
  <1>5. StartsWith(w \o d, w)
    <2> DEFINE y == w \o d
               z == SubSeq(y, 1, Len(w))
    <2>1. y \in Seq(A) /\ Len(y) = Len(w) + Len(d)
          /\ \A i \in 1 .. Len(w) + Len(d) : y[i] = IF i <= Len(w) THEN w[i] ELSE d[i - Len(w)]
      BY <1>1, ConcatProperties
    <2>2. Len(w) \in Nat /\ Len(d) \in Nat
      BY <1>1
    <2> HIDE DEF y
    <2>3. z \in Seq(A) /\ Len(z) = Len(w) /\ \A i \in 1 .. Len(w) : z[i] = y[1 + i - 1]
      BY <2>1, <2>2, Part
    <2> HIDE DEF z
    <2>4. \A i \in 1 .. Len(z) : z[i] = w[i]
      BY <2>1, <2>2, <2>3
    <2>5. z = w
      BY <1>1, <2>3, <2>4, SeqEqual
    <2> QED BY <2>1, <2>2, <2>5 DEF StartsWith, z, y
  <1> QED BY <1>2, <1>3, <1>4, <1>5 DEF A

-----------------------------------------------------------------------------
(* What the invariant says of a state, and of a step that keeps most of it. *)

LEMMA Body ==
  ASSUME TypeOK, Position
  PROVE  /\ req.bytes \in Seq(Byte) /\ Len(req.bytes) \in Nat
         /\ req.chunked \in BOOLEAN /\ req.length \in -2 .. IntMax
         /\ limit \in -(IntMax + 1) .. IntMax
         /\ arrived \in 0 .. Len(req.bytes) /\ pos \in 0 .. arrived /\ pos \in 0 .. Len(req.bytes)
         /\ buffer \in Seq(Byte) /\ Len(buffer) \in Nat /\ Len(buffer) = arrived - pos
         /\ StartsWith(Erased(req.bytes, pos), buffer)
  <1>1. req \in Inputs /\ limit \in Limits /\ arrived \in 0 .. Len(req.bytes) /\ buffer \in Seq(Byte)
    BY DEF TypeOK
  <1>2. pos \in 0 .. arrived /\ buffer = SubSeq(req.bytes, pos + 1, arrived)
    BY DEF Position
  <1>3. req.bytes \in Seq(Byte) /\ req.chunked \in BOOLEAN /\ req.length \in -2 .. IntMax
        /\ limit \in -(IntMax + 1) .. IntMax
    BY <1>1, Constants
  <1>4. StartsWith(Erased(req.bytes, pos), buffer) /\ Len(buffer) = arrived - pos
    BY <1>1, <1>2, <1>3, BufferStarts
  <1>5. Len(req.bytes) \in Nat /\ Len(buffer) \in Nat
    BY <1>1, <1>3
  <1>6. pos \in 0 .. Len(req.bytes)
    BY <1>1, <1>2, <1>5
  <1> QED BY <1>1, <1>2, <1>3, <1>4, <1>5, <1>6

(* k bytes are taken out of the buffer. *)
LEMMA Taken ==
  ASSUME TypeOK, Position, NEW k \in 0 .. Len(buffer), buffer' = Erased(buffer, k),
         UNCHANGED <<request, arrived>>
  PROVE  /\ Position' /\ pos' = pos + k
         /\ buffer' \in Seq(Byte) /\ Len(buffer') = Len(buffer) - k
  <1> DEFINE b == req.bytes
             f == Erased(b, pos)
             m == SubSeq(b, (pos + k) + 1, arrived)
             g == Erased(buffer, k)
  <1>1. /\ b \in Seq(Byte) /\ arrived \in 0 .. Len(b) /\ pos \in 0 .. arrived
        /\ buffer \in Seq(Byte) /\ Len(buffer) = arrived - pos /\ buffer = SubSeq(b, pos + 1, arrived)
        /\ arrived \in Nat /\ pos \in Nat /\ Len(buffer) \in Nat
    BY Body DEF Position
  <1>2. g \in Seq(Byte) /\ Len(g) = Len(buffer) - k /\ \A i \in 1 .. Len(buffer) - k : g[i] = buffer[k + i]
    <2>1. k \in Nat /\ k <= Len(buffer) /\ buffer \in Seq(Byte)
      BY <1>1
    <2> QED BY <2>1, ErasedIs
  <1>3. pos' = pos + k
    <2>1. pos' = arrived - Len(g)
      BY DEF pos, request
    <2> HIDE DEF g
    <2> QED BY <1>1, <1>2, <2>1
  <1>4. m \in Seq(Byte) /\ Len(m) = arrived - (pos + k)
        /\ \A i \in 1 .. arrived - (pos + k) : m[i] = b[(pos + k) + 1 + i - 1]
    <2>1. (pos + k) + 1 \in Nat \ {0} /\ arrived <= Len(b)
      BY <1>1
    <2>2. (IF arrived >= (pos + k) + 1 THEN arrived - ((pos + k) + 1) + 1 ELSE 0) = arrived - (pos + k)
          /\ arrived - ((pos + k) + 1) + 1 = arrived - (pos + k)
      BY <1>1
    <2>3. /\ m \in Seq(Byte)
          /\ Len(m) = (IF arrived >= (pos + k) + 1 THEN arrived - ((pos + k) + 1) + 1 ELSE 0)
          /\ \A i \in 1 .. arrived - ((pos + k) + 1) + 1 : m[i] = b[(pos + k) + 1 + i - 1]
      BY <1>1, <2>1, Part
    <2> QED BY <2>2, <2>3
  <1>5. \A i \in 1 .. arrived - pos : buffer[i] = b[(pos + 1) + i - 1]
    <2>1. pos + 1 \in Nat \ {0} /\ arrived <= Len(b) /\ arrived - (pos + 1) + 1 = arrived - pos
      BY <1>1
    <2>2. \A i \in 1 .. arrived - (pos + 1) + 1 : SubSeq(b, pos + 1, arrived)[i] = b[(pos + 1) + i - 1]
      BY <1>1, <2>1, Part
    <2> QED BY <1>1, <2>1, <2>2
  <1> HIDE DEF g, m
  <1>6. g = m
    <2>1. Len(g) = Len(m)
      BY <1>1, <1>2, <1>4
    <2>2. \A i \in 1 .. Len(g) : g[i] = m[i]
      <3> TAKE i \in 1 .. Len(g)
      <3>1. i \in 1 .. Len(buffer) - k /\ k + i \in 1 .. arrived - pos /\ i \in 1 .. arrived - (pos + k)
        BY <1>1, <1>2
      <3>2. g[i] = buffer[k + i] /\ buffer[k + i] = b[(pos + 1) + (k + i) - 1] /\ m[i] = b[(pos + k) + 1 + i - 1]
        BY <1>2, <1>4, <1>5, <3>1
      <3>3. (pos + 1) + (k + i) - 1 = (pos + k) + 1 + i - 1
        BY <1>1, <3>1
      <3> QED BY <3>2, <3>3
    <2> QED BY <1>2, <1>4, <2>1, <2>2, Same
  <1>7. pos' \in 0 .. arrived'
    BY <1>1, <1>3
  <1>8. buffer' = SubSeq(req'.bytes, pos' + 1, arrived')
    <2>1. buffer' = SubSeq(b, (pos + k) + 1, arrived)
      BY <1>6 DEF m, g
    <2> QED BY <1>3, <2>1 DEF request
  <1>9. meaning' = Meaning(req') /\ (whole' => arrived' = Len(req'.bytes))
    BY DEF Position, request
  <1> QED BY <1>2, <1>3, <1>7, <1>8, <1>9 DEF Position, g

LEMMA Emptied ==
  ASSUME TypeOK, Position, buffer' = <<>>, UNCHANGED <<request, arrived>>
  PROVE  Position' /\ pos' = arrived
  <1>1. buffer \in Seq(Byte) /\ Len(buffer) \in Nat /\ Len(buffer) = arrived - pos /\ arrived \in Nat /\ pos \in Nat
    BY Body
  <1>2. Erased(buffer, Len(buffer)) = <<>>
    <2>1. Erased(buffer, Len(buffer)) \in Seq(Byte) /\ Len(Erased(buffer, Len(buffer))) = 0
      BY <1>1, ErasedIs
    <2> QED BY <2>1
  <1>3. Position' /\ pos' = pos + Len(buffer)
    <2>1. Len(buffer) \in 0 .. Len(buffer)
      BY <1>1
    <2> QED BY <1>2, <2>1, Taken
  <1> QED BY <1>1, <1>3

(* Nothing changes but where the call is. *)
LEMMA Kept ==
  ASSUME IInv, UNCHANGED <<request, arrived, buffer, contentLength, contentTotalLength,
                           written, complete, verdict>>,
         pc' = "headers" <=> pc = "headers"
  PROVE  /\ Position' /\ Length' /\ Understood' /\ Passed' /\ WithinLimit'
         /\ Saved' /\ RefusedForCause'
  <1>1. UNCHANGED <<req, meaning, limit, dest, whole, pos, Todo, Open, Stuck>>
    BY DEF request, pos, Todo, Open, Stuck
  <1>2. UNCHANGED <<DataTodo, Left, Announced>>
    BY <1>1 DEF DataTodo, Left, Announced
  <1>3. Position'
    BY <1>1 DEF IInv, Position
  <1>4. Length' /\ Understood'
    BY <1>1, <1>2 DEF IInv, Length, Understood
  <1>5. Passed'
    BY <1>1, <1>2 DEF IInv, Passed
  <1>6. WithinLimit'
    BY <1>1, <1>2 DEF IInv, WithinLimit
  <1>7. Saved' /\ RefusedForCause'
    BY <1>1 DEF IInv, Saved, RefusedForCause
  <1> QED BY <1>3, <1>4, <1>5, <1>6, <1>7

(* A status ends the body.                                                 *)
LEMMA Refused ==
  ASSUME IInv, UNCHANGED request, NEW v \in {"204", "400", "413"}, Refuses(v),
         verdict = "none" => (v = "400" => ~meaning.ok) /\ (v = "413" => meaning.sum > limit)
  PROVE  /\ Untouched' /\ Phases' /\ Length' /\ Understood' /\ Passed' /\ WithinLimit'
         /\ Saved' /\ RefusedForCause'
         /\ verdict' \in {"saved", "204", "400", "413"} /\ complete' = TRUE /\ pc' = "idle"
  <1>1. pc' = "idle" /\ complete' = TRUE /\ UNCHANGED <<written, watched>>
        /\ verdict' = IF verdict = "none" THEN v ELSE verdict
    BY DEF Refuses, Completes, Returns, Verdict
  <1>2. verdict \in {"none", "saved", "204", "400", "413"}
    BY DEF IInv, TypeOK
  <1>3. verdict' \in {"saved", "204", "400", "413"} /\ ~Open'
    BY <1>1, <1>2 DEF Open
  <1>4. Length' /\ Understood' /\ Passed' /\ WithinLimit' /\ Untouched'
    BY <1>1, <1>3 DEF Length, Understood, Passed, WithinLimit, Untouched
  <1>5. UNCHANGED <<req, meaning, limit, dest, whole>>
    BY DEF request
  <1>6. Phases'
    <2>1. verdict' = "saved" => verdict = "saved"
      BY <1>1
    <2> QED BY <1>1, <1>3, <1>5, <2>1 DEF IInv, Phases
  <1>7. Saved'
    BY <1>1, <1>5 DEF IInv, Saved
  <1>8. RefusedForCause'
    BY <1>1, <1>5 DEF IInv, RefusedForCause
  <1> QED BY <1>1, <1>3, <1>4, <1>6, <1>7, <1>8

(* The body is saved: by a reader that has refused nothing, with all of it *)
(* handed on and, as far as the limit can bound it, no more than that.     *)
LEMMA SavedNow ==
  ASSUME IInv, UNCHANGED request, Saves, verdict # "saved",
         verdict = "none" =>
           /\ dest = "cgi" \/ whole => written' = meaning.data
           /\ dest = "cgi" /\ written' # <<>> /\ 2 * limit <= IntMax => Len(written') <= limit
  PROVE  /\ Untouched' /\ Phases' /\ Length' /\ Understood' /\ Passed' /\ WithinLimit'
         /\ Saved' /\ RefusedForCause'
         /\ verdict' \in {"saved", "204", "400", "413"} /\ complete' = TRUE /\ pc' = "idle" /\ watched' = FALSE
  <1>1. pc' = "idle" /\ complete' = TRUE /\ watched' = FALSE
        /\ verdict' = IF verdict = "none" THEN "saved" ELSE verdict
    BY DEF Saves, Completes, Returns, Verdict
  <1>2. verdict \in {"none", "saved", "204", "400", "413"}
    BY DEF IInv, TypeOK
  <1>3. verdict' \in {"saved", "204", "400", "413"} /\ ~Open'
    BY <1>1, <1>2 DEF Open
  <1>4. Length' /\ Understood' /\ Passed' /\ WithinLimit' /\ Untouched'
    BY <1>1, <1>3 DEF Length, Understood, Passed, WithinLimit, Untouched
  <1>5. UNCHANGED <<req, meaning, limit, dest, whole>>
    BY DEF request
  <1>6. Phases'
    BY <1>1, <1>3 DEF IInv, Phases
  <1>7. Saved'
    BY <1>1, <1>5 DEF Saved
  <1>8. RefusedForCause'
    BY <1>1, <1>5 DEF IInv, RefusedForCause
  <1> QED BY <1>1, <1>3, <1>4, <1>6, <1>7, <1>8

-----------------------------------------------------------------------------
(* Each step keeps the invariant. *)

LEMMA InitOk == Init => IInv
  <1> SUFFICES ASSUME Init PROVE IInv
    OBVIOUS
  <1> DEFINE b == req.bytes
  <1>1. /\ b \in Seq(Byte) /\ Len(b) \in Nat /\ arrived \in 0 .. Len(b)
        /\ meaning = Meaning(req) /\ whole = (arrived = Len(b))
        /\ buffer = SubSeq(b, 1, arrived)
        /\ contentLength = 0 /\ contentTotalLength = 0 /\ written = <<>>
        /\ complete = FALSE /\ verdict = "none" /\ watched = FALSE /\ cgiOpen = TRUE /\ pc = "headers"
    BY Constants DEF Init
  <1>2. buffer \in Seq(Byte) /\ Len(buffer) = arrived
    <2>1. 0 \in 0 .. arrived /\ 0 + 1 = 1 /\ arrived - 0 = arrived
      BY <1>1
    <2> QED BY <1>1, <2>1, BufferStarts
  <1>3. pos = 0
    BY <1>1, <1>2 DEF pos
  <1>4. TypeOK
    <2>1. 0 \in -2 .. IntMax /\ 0 \in -(IntMax + 1) .. IntMax /\ <<>> \in Seq(Byte \cup {Garbage})
      BY Constants
    <2>2. req \in Inputs /\ limit \in Limits /\ dest \in {"file", "cgi"} /\ whole \in BOOLEAN
      BY <1>1 DEF Init
    <2> QED BY <1>1, <1>2, <2>1, <2>2 DEF TypeOK
  <1>5. Position
    <2>1. pos + 1 = 1 /\ pos \in 0 .. arrived
      BY <1>1, <1>3
    <2> QED BY <1>1, <2>1 DEF Position
  <1>6. Untouched /\ Phases
    BY <1>1, <1>3 DEF Untouched, Phases, Open
  <1>7. Length /\ Understood /\ Passed /\ WithinLimit /\ Saved /\ RefusedForCause
    BY <1>1 DEF Length, Understood, Passed, WithinLimit, Saved, RefusedForCause, Open
  <1> QED BY <1>4, <1>5, <1>6, <1>7 DEF IInv

(* Steps that only say where the call is. *)
LEMMA PcOk ==
  ASSUME IInv, UNCHANGED <<request, arrived, cgiOpen, buffer, contentLength, contentTotalLength,
                           written, complete, verdict, watched>>,
         pc # "headers",
         \/ pc' = "idle"
         \/ pc = "idle" /\ watched /\ pc' = IF req.chunked THEN "loop" ELSE "content"
  PROVE  IInv'
  <1>1. pc' # "headers" /\ (pc' = "headers" <=> pc = "headers")
    OBVIOUS
  <1>2. Position' /\ Length' /\ Understood' /\ Passed' /\ WithinLimit' /\ Saved' /\ RefusedForCause'
    BY <1>1, Kept
  <1>3. TypeOK'
    BY DEF IInv, TypeOK, request
  <1>4. Untouched'
    BY <1>1 DEF Untouched
  <1>5. Phases'
    BY <1>1 DEF IInv, Phases, Open, request
  <1> QED BY <1>2, <1>3, <1>4, <1>5 DEF IInv

LEMMA CgiClosesOk ==
  ASSUME IInv, CgiCloses
  PROVE  IInv'
  <1>1. UNCHANGED <<request, arrived, buffer, contentLength, contentTotalLength, written,
                    complete, verdict, watched, pc>> /\ cgiOpen' = FALSE
    BY DEF CgiCloses, reader
  <1>2. Position' /\ Length' /\ Understood' /\ Passed' /\ WithinLimit' /\ Saved' /\ RefusedForCause'
    BY <1>1, Kept
  <1>3. TypeOK'
    BY <1>1 DEF IInv, TypeOK, request
  <1>4. UNCHANGED pos
    BY <1>1 DEF pos
  <1>5. Untouched' /\ Phases'
    BY <1>1, <1>4 DEF IInv, Untouched, Phases, Open, request
  <1> QED BY <1>2, <1>3, <1>5 DEF IInv

LEMMA ReceiveOk ==
  ASSUME IInv, Receive
  PROVE  IInv'
  <1> DEFINE b == req.bytes
  <1>0. TypeOK /\ Position
    BY DEF IInv
  <1>1. PICK n \in arrived + 1 .. Len(b) :
           arrived' = n /\ buffer' = buffer \o SubSeq(b, arrived + 1, n)
    BY DEF Receive
  <1>2. /\ pc = "idle"
        /\ pc' = IF dest = "cgi" \/ complete THEN "idle" ELSE IF req.chunked THEN "loop" ELSE "content"
        /\ UNCHANGED <<request, cgiOpen, contentLength, contentTotalLength, written, complete, verdict, watched>>
    BY DEF Receive
  <1>3. /\ b \in Seq(Byte) /\ Len(b) \in Nat /\ arrived \in 0 .. Len(b) /\ pos \in 0 .. arrived
        /\ buffer \in Seq(Byte) /\ Len(buffer) = arrived - pos /\ buffer = SubSeq(b, pos + 1, arrived)
    BY <1>0, Body DEF Position
  <1>4. n \in 0 .. Len(b) /\ pos \in 0 .. n /\ n \in Nat /\ n # Len(b) + 1 /\ arrived # Len(b)
    BY <1>1, <1>3
  <1>5. buffer' = SubSeq(b, pos + 1, n)
    <2>1. pos + 1 \in 1 .. Len(b) + 1 /\ arrived \in (pos + 1) - 1 .. Len(b) /\ n \in arrived .. Len(b)
      BY <1>1, <1>3
    <2>2. SubSeq(b, pos + 1, arrived) \o SubSeq(b, arrived + 1, n) = SubSeq(b, pos + 1, n)
      BY <1>3, <2>1, ConcatAdjacentSubSeq
    <2> QED BY <1>1, <1>3, <2>2
  <1>6. buffer' \in Seq(Byte) /\ Len(buffer') = n - pos
    BY <1>3, <1>4, <1>5, BufferStarts
  <1>7. pos' = pos
    BY <1>1, <1>3, <1>4, <1>6 DEF pos
  <1>8. UNCHANGED <<req, meaning, limit, dest, whole>>
    BY <1>2 DEF request
  <1>9. Position'
    <2>1. ~whole
      BY <1>0, <1>4 DEF Position
    <2> QED BY <1>0, <1>1, <1>4, <1>5, <1>7, <1>8, <2>1 DEF Position
  <1>10. UNCHANGED <<Todo, DataTodo, Left, Announced>>
    BY <1>2, <1>7, <1>8 DEF Todo, DataTodo, Left, Announced
  <1>11. pc' # "headers" /\ Open' = Open /\ pc' \in {"idle", "loop", "content"} /\ ~whole
    BY <1>0, <1>2, <1>4 DEF Open, Position
  <1>12. TypeOK'
    BY <1>0, <1>1, <1>2, <1>4, <1>6, <1>8, <1>11 DEF TypeOK
  <1>13. Untouched' /\ Phases'
    BY <1>2, <1>8, <1>11 DEF IInv, Untouched, Phases
  <1>14. Length' /\ Understood'
    BY <1>2, <1>7, <1>8, <1>10, <1>11 DEF IInv, Length, Understood
  <1>15. Passed'
    BY <1>2, <1>8, <1>10, <1>11 DEF IInv, Passed
  <1>16. WithinLimit' /\ Saved' /\ RefusedForCause'
    BY <1>2, <1>8, <1>10, <1>11 DEF IInv, WithinLimit, Saved, RefusedForCause
  <1> QED BY <1>9, <1>12, <1>13, <1>14, <1>15, <1>16 DEF IInv

LEMMA CheckHeadersOk ==
  ASSUME IInv, CheckHeaders
  PROVE  IInv'
  <1> DEFINE b == req.bytes
             l == req.length
  <1>1. TypeOK /\ Position /\ Phases /\ pc = "headers"
    BY DEF IInv, CheckHeaders
  <1>2. /\ verdict = "none" /\ written = <<>> /\ pos = 0 /\ contentLength = 0
        /\ contentTotalLength = 0 /\ ~watched /\ ~complete
    BY <1>1 DEF IInv, Untouched
  <1>3. /\ UNCHANGED <<request, arrived, cgiOpen, buffer, contentTotalLength, written>>
        /\ contentLength' = IF req.chunked THEN SizeDue ELSE l
    BY DEF CheckHeaders
  <1>4. UNCHANGED <<req, meaning, limit, dest, whole, pos>>
    BY <1>3 DEF request, pos
  <1>5. /\ b \in Seq(Byte) /\ Len(b) \in Nat /\ req.chunked \in BOOLEAN /\ l \in -2 .. IntMax
        /\ limit \in -(IntMax + 1) .. IntMax /\ meaning = Meaning(req) /\ IntMax \in Nat
    BY <1>1, Body, Constants DEF Position
  <1>6. Position'
    BY <1>1, <1>3, <1>4 DEF Position
  <1>7. contentLength' \in -2 .. IntMax
    BY <1>3, <1>5 DEF SizeDue
  <1>8. req.chunked => meaning = Chunks(b)[1] /\ meaning.sum \in Nat
    <2>1. 1 \in 1 .. Len(b) + 1
      BY <1>5
    <2>2. Chunks(b)[1] \in Meant
      BY <1>5, <2>1, ChunksTotal
    <2> QED BY <1>5, <2>2 DEF Meaning, Meant
  <1>9. ~req.chunked => /\ meaning.data = First(b, l)
                        /\ meaning.sum = IF l = TooLarge THEN IntMax + 1 ELSE l
                        /\ meaning.ok = (Len(b) = l /\ l > 0)
    BY <1>5 DEF Meaning
  <1>10. CASE req.chunked \/ l \in 1 .. limit
    <2>1. /\ pc' = IF dest = "cgi" THEN "idle" ELSE IF req.chunked THEN "loop" ELSE "content"
          /\ watched' = (dest = "cgi") /\ UNCHANGED <<complete, verdict>>
      BY <1>10 DEF CheckHeaders, WatchesOut
    <2>2. pc' \in {"idle", "loop", "content"} /\ pc' # "headers" /\ watched' \in BOOLEAN /\ Open'
      BY <1>2, <2>1 DEF Open
    <2>3. TypeOK'
      BY <1>1, <1>3, <1>4, <1>7, <2>1, <2>2 DEF TypeOK
    <2>4. Untouched'
      BY <2>2 DEF Untouched
    <2>5. Phases'
      <3>1. req.chunked => contentLength' >= SizeDue
        BY <1>3 DEF SizeDue
      <3>2. ~req.chunked => contentLength' > 0
        BY <1>3, <1>10
      <3> QED BY <1>2, <1>4, <2>1, <2>2, <3>1, <3>2 DEF Phases
    <2>6. Length'
      BY <1>2, <1>3, <1>4, <1>5 DEF Length
    <2>7. req.chunked => Todo' = meaning /\ Left' = 0
      <3>1. ASSUME req.chunked PROVE Todo' = Chunks(b)[0 + 1]
        BY <1>2, <1>3, <1>4, <3>1 DEF Todo, TodoAt
      <3> QED BY <1>3, <1>8, <3>1 DEF Left
    <2>8. Understood'
      <3> SUFFICES ASSUME req.chunked PROVE meaning'.ok = Todo'.ok /\ Announced' \in Nat
                                            /\ Announced' = contentTotalLength'
        BY <1>4 DEF Understood
      <3>1. Announced' = 0
        BY <1>4, <1>8, <2>7 DEF Announced
      <3> QED BY <1>2, <1>3, <1>4, <2>7, <3>1
    <2>9. Passed'
      <3>1. meaning.data = DataTodo'
        <4>1. CASE req.chunked
          BY <1>4, <2>7, <4>1 DEF DataTodo
        <4>2. CASE ~req.chunked
          <5>1. Erased(b, 0) = b
            BY <1>5, SubSeqFull DEF Erased
          <5> QED BY <1>2, <1>3, <1>4, <1>9, <4>2, <5>1 DEF DataTodo
        <4> QED BY <4>1, <4>2
      <3>2. meaning.data \in Seq(Byte)
        <4>1. CASE req.chunked
          <5>1. 1 \in 1 .. Len(b) + 1
            BY <1>5
          <5>2. Chunks(b)[1] \in Meant
            BY <1>5, <5>1, ChunksTotal
          <5> QED BY <1>8, <4>1, <5>2 DEF Meant
        <4>2. CASE ~req.chunked
          BY <1>5, <1>9, <1>10, <4>2, FirstIs
        <4> QED BY <4>1, <4>2
      <3>3. <<>> \o meaning.data = meaning.data
        BY <3>2, ConcatEmptySeq
      <3>4. meaning' = meaning /\ written' = <<>>
        BY <1>2, <1>3, <1>4
      <3>5. meaning'.data = written' \o DataTodo'
        BY <3>1, <3>3, <3>4
      <3> QED BY <3>5 DEF Passed
    <2>10. WithinLimit'
      <3>1. Len(<<>>) = 0
        OBVIOUS
      <3>2. ~req.chunked => Len(written') + contentLength' = l /\ l <= limit
        BY <1>2, <1>3, <1>5, <1>10, <3>1
      <3>3. req.chunked => Len(written') + Left' <= contentTotalLength' /\ contentTotalLength' = 0
        BY <1>2, <1>3, <2>7, <3>1
      <3> QED BY <1>4, <3>2, <3>3 DEF WithinLimit
    <2>11. Saved' /\ RefusedForCause'
      BY <1>2, <2>1 DEF Saved, RefusedForCause
    <2> QED BY <1>6, <2>3, <2>4, <2>5, <2>6, <2>8, <2>9, <2>10, <2>11 DEF IInv
  <1>11. CASE ~(req.chunked \/ l \in 1 .. limit)
    <2> DEFINE v == IF l = Invalid THEN "400" ELSE IF l = TooLarge \/ l > limit THEN "413" ELSE "204"
    <2>1. Completes(v) /\ UNCHANGED watched
      BY <1>11 DEF CheckHeaders
    <2>2. Refuses(v) /\ v \in {"204", "400", "413"}
      BY <1>3, <2>1 DEF Refuses
    <2>3. (v = "400" => ~meaning.ok) /\ (v = "413" => meaning.sum > limit)
      BY <1>5, <1>9, <1>11 DEF Invalid, TooLarge
    <2> HIDE DEF v
    <2>4. /\ Untouched' /\ Phases' /\ Length' /\ Understood' /\ Passed' /\ WithinLimit'
          /\ Saved' /\ RefusedForCause'
          /\ verdict' \in {"saved", "204", "400", "413"} /\ complete' = TRUE /\ pc' = "idle"
      BY <1>3, <2>2, <2>3, Refused
    <2>5. TypeOK'
      BY <1>1, <1>3, <1>4, <1>7, <2>1, <2>4 DEF TypeOK
    <2> QED BY <1>6, <2>4, <2>5 DEF IInv
  <1> QED BY <1>10, <1>11

(* What _writeChunk hands on.                                              *)
LEMMA HandedIs ==
  ASSUME TypeOK, NEW n \in 0 .. Len(buffer), contentLength >= 0
  PROVE  /\ Handed(n) \in Seq(Byte \cup {Garbage})
         /\ dest = "cgi" => Handed(n) = SubSeq(buffer, 1, n)
         /\ contentLength = n => Handed(n) = SubSeq(buffer, 1, n)
  <1>1. buffer \in Seq(Byte) /\ Len(buffer) \in Nat /\ contentLength \in Nat /\ n \in Nat
    BY Constants DEF TypeOK
  <1> DEFINE x == SubSeq(buffer, 1, n)
             y == [i \in 1 .. contentLength |-> IF i <= Len(buffer) THEN buffer[i] ELSE Garbage]
             A == Byte \cup {Garbage}
  <1>2. x \in Seq(Byte) /\ Len(x) = n /\ \A i \in 1 .. n : x[i] = buffer[1 + i - 1]
    BY <1>1, Part
  <1>3. Handed(n) = IF dest = "cgi" THEN x ELSE y
    BY <1>1 DEF Handed
  <1>4. x \in Seq(A)
    <2>1. Byte \subseteq A
      OBVIOUS
    <2> QED BY <1>2, <2>1, SeqMonotonic
  <1>5. y \in Seq(A) /\ Len(y) = contentLength
    BY <1>1
  <1>6. ASSUME contentLength = n PROVE y = x
    <2>1. \A i \in 1 .. Len(y) : y[i] = x[i]
      BY <1>1, <1>2, <1>5, <1>6
    <2> HIDE DEF x, y, A
    <2> QED BY <1>2, <1>4, <1>5, <1>6, <2>1, SeqEqual
  <1> HIDE DEF x, y
  <1> QED BY <1>3, <1>4, <1>5, <1>6 DEF x
(* k bytes are handed on: as many as are there and still belong to it.     *)
LEMMA PassedOn ==
  ASSUME IInv, Open, contentLength > 0,
         NEW k, k = IF Len(buffer) > contentLength THEN contentLength ELSE Len(buffer),
         UNCHANGED <<request, arrived>>, buffer' = Erased(buffer, k),
         contentLength' = contentLength - k, written' = written \o Handed(k)
  PROVE  /\ Position' /\ pos' = pos + k /\ k \in Nat /\ Len(buffer') = Len(buffer) - k
         /\ buffer' \in Seq(Byte) /\ written' \in Seq(Byte \cup {Garbage})
         /\ contentLength' \in 0 .. IntMax
         /\ dest = "cgi" \/ (whole /\ ~Stuck') => meaning.data = written' \o DataTodo'
         /\ dest = "cgi" => Len(written') = Len(written) + k
         /\ Todo.sum = k + Todo'.sum /\ Todo.ok = Todo'.ok /\ Todo'.sum \in Nat
  <1> DEFINE b == req.bytes
             c == contentLength
             x == SubSeq(buffer, 1, k)
  <1>1. TypeOK /\ Position
    BY DEF IInv
  <1>2. /\ b \in Seq(Byte) /\ Len(b) \in Nat /\ arrived \in 0 .. Len(b) /\ pos \in 0 .. Len(b) /\ pos \in 0 .. arrived
        /\ buffer \in Seq(Byte) /\ Len(buffer) \in Nat /\ Len(buffer) = arrived - pos
        /\ StartsWith(Erased(b, pos), buffer)
    BY <1>1, Body
  <1>3. c \in Nat /\ c <= IntMax /\ IntMax \in Nat /\ written \in Seq(Byte \cup {Garbage})
        /\ dest \in {"file", "cgi"}
    BY <1>1, Constants DEF TypeOK
  <1>4. k \in 0 .. c /\ k \in 0 .. Len(buffer) /\ k <= Len(buffer)
    BY <1>2, <1>3
  <1>5. Position' /\ pos' = pos + k /\ buffer' \in Seq(Byte) /\ Len(buffer') = Len(buffer) - k
    BY <1>1, <1>4, Taken
  <1>6. UNCHANGED <<req, meaning, limit, dest, whole>>
    BY DEF request
  <1>7. /\ pos + k \in 0 .. Len(b)
        /\ x \in Seq(Byte) /\ Len(x) = k
        /\ First(Erased(b, pos + k), c - k) \in Seq(Byte)
        /\ First(Erased(b, pos), c) = x \o First(Erased(b, pos + k), c - k)
        /\ TodoAt(b, pos, c).data = x \o TodoAt(b, pos + k, c - k).data
        /\ TodoAt(b, pos, c).sum = k + TodoAt(b, pos + k, c - k).sum
        /\ TodoAt(b, pos, c).ok = TodoAt(b, pos + k, c - k).ok
    <2> HIDE DEF b, c, x
    <2>1. /\ b \in Seq(Byte) /\ pos \in 0 .. Len(b) /\ buffer \in Seq(Byte)
          /\ StartsWith(Erased(b, pos), buffer) /\ c \in Nat /\ k \in 0 .. c /\ k <= Len(buffer)
      BY <1>2, <1>3, <1>4
    <2>2. /\ pos + k \in 0 .. Len(b)
          /\ SubSeq(buffer, 1, k) \in Seq(Byte) /\ Len(SubSeq(buffer, 1, k)) = k
          /\ First(Erased(b, pos + k), c - k) \in Seq(Byte)
      BY <2>1, TodoTaken, ZenonT(40)
    <2>3. First(Erased(b, pos), c) = SubSeq(buffer, 1, k) \o First(Erased(b, pos + k), c - k)
      BY <2>1, TodoTaken, ZenonT(40)
    <2>4. /\ TodoAt(b, pos, c).data = SubSeq(buffer, 1, k) \o TodoAt(b, pos + k, c - k).data
          /\ TodoAt(b, pos, c).sum = k + TodoAt(b, pos + k, c - k).sum
          /\ TodoAt(b, pos, c).ok = TodoAt(b, pos + k, c - k).ok
      BY <2>1, TodoTaken, ZenonT(40)
    <2> QED BY <2>2, <2>3, <2>4, Zenon DEF x
  <1>8. Todo = TodoAt(b, pos, c) /\ Todo' = TodoAt(b, pos + k, c - k)
    BY <1>5, <1>6 DEF Todo
  <1>9. TodoAt(b, pos + k, c - k).sum \in Nat /\ TodoAt(b, pos + k, c - k).data \in Seq(Byte)
    <2>1. c - k \in Int /\ c - k >= SizeDue
      BY <1>3, <1>4 DEF SizeDue
    <2> QED BY <1>2, <1>7, <2>1, TodoAtIs
  <1>10. DataTodo = x \o DataTodo' /\ DataTodo' \in Seq(Byte)
    <2>1. CASE req.chunked
      <3>1. DataTodo = TodoAt(b, pos, c).data /\ DataTodo' = TodoAt(b, pos + k, c - k).data
        BY <1>6, <1>8, <2>1 DEF DataTodo
      <3> QED BY <1>7, <1>9, <3>1, Zenon
    <2>2. CASE ~req.chunked
      <3>1. DataTodo = First(Erased(b, pos), c) /\ DataTodo' = First(Erased(b, pos + k), c - k)
        BY <1>5, <1>6, <2>2 DEF DataTodo
      <3> QED BY <1>7, <3>1, Zenon
    <2> QED BY <2>1, <2>2
  <1>11. /\ Handed(k) \in Seq(Byte \cup {Garbage})
         /\ dest = "cgi" => Handed(k) = x
         /\ contentLength = k => Handed(k) = x
    <2>1. contentLength >= 0 /\ k \in 0 .. Len(buffer)
      BY <1>3, <1>4
    <2> QED BY <1>1, <2>1, HandedIs, Zenon
  <1>12. written' \in Seq(Byte \cup {Garbage})
    BY <1>3, <1>11, ConcatProperties
  <1>13. ASSUME Handed(k) = x, meaning.data = written \o DataTodo
         PROVE  meaning.data = written' \o DataTodo'
    <2>1. written \o (x \o DataTodo') = (written \o x) \o DataTodo'
      <3> HIDE DEF x
      <3> QED BY <1>3, <1>7, <1>10, HandedOn, ZenonT(40)
    <2> QED BY <1>10, <1>13, <2>1, Zenon
  <1>14. dest = "cgi" => Len(written') = Len(written) + k
    <2> SUFFICES ASSUME dest = "cgi" PROVE Len(written') = Len(written) + k
      OBVIOUS
    <2>1. written' = written \o x
      BY <1>11
    <2>2. x \in Seq(Byte) /\ Len(x) = k
      BY <1>7
    <2> HIDE DEF x
    <2>3. Len(written \o x) = Len(written) + Len(x)
      BY <1>3, <2>2, <1>10, HandedOn
    <2> QED BY <2>1, <2>2, <2>3
  <1>15. ASSUME dest = "cgi" \/ (whole /\ ~Stuck') PROVE meaning.data = written' \o DataTodo'
    <2>1. CASE dest = "cgi"
      BY <1>11, <1>13, <2>1 DEF IInv, Passed
    <2>2. CASE dest # "cgi"
      <3>1. whole /\ ~Stuck' /\ arrived = Len(b)
        BY <1>1, <1>15, <2>2 DEF Position
      <3>2. Len(buffer) >= c
        <4> SUFFICES ASSUME Len(buffer) < c PROVE FALSE
          BY <1>2, <1>3
        <4>1. k = Len(buffer)
          BY <1>2, <1>3
        <4>2. Len(buffer') = 0 /\ contentLength' > 0
          BY <1>2, <1>3, <1>5, <4>1
        <4>3. buffer' = <<>>
          BY <1>5, <4>2
        <4> QED BY <1>6, <3>1, <4>2, <4>3 DEF Stuck
      <3>3. c = k /\ ~Stuck
        <4>1. c = k
          BY <1>2, <1>3, <3>2
        <4>2. buffer # <<>>
          <5>1. Len(buffer) # 0
            BY <1>2, <1>3, <3>2
          <5> QED BY <5>1
        <4> QED BY <4>1, <4>2 DEF Stuck
      <3> QED BY <1>11, <1>13, <3>1, <3>3 DEF IInv, Passed
    <2> QED BY <2>1, <2>2
  <1>16. contentLength' \in 0 .. IntMax
    BY <1>3, <1>4
  <1>17. k \in Nat /\ Todo.sum = k + Todo'.sum /\ Todo.ok = Todo'.ok /\ Todo'.sum \in Nat
    <2>1. k \in Nat
      BY <1>4
    <2> QED BY <1>7, <1>8, <1>9, <2>1, Zenon
  <1> QED BY <1>5, <1>12, <1>14, <1>15, <1>16, <1>17

LEMMA ReadContentOk ==
  ASSUME IInv, ReadContent, UNCHANGED <<request, arrived, cgiOpen>>
  PROVE  IInv'
  <1> DEFINE b == req.bytes
             c == contentLength
  <1>1. /\ TypeOK /\ Position /\ Phases /\ pc = "content" /\ ~req.chunked
        /\ verdict # "saved" /\ UNCHANGED contentTotalLength
    BY DEF IInv, Phases, ReadContent
  <1>2. /\ b \in Seq(Byte) /\ Len(b) \in Nat /\ arrived \in 0 .. Len(b) /\ pos \in 0 .. arrived
        /\ buffer \in Seq(Byte) /\ Len(buffer) \in Nat /\ Len(buffer) = arrived - pos
        /\ req.length \in -2 .. IntMax /\ limit \in -(IntMax + 1) .. IntMax /\ IntMax \in Nat
    BY <1>1, Body, Constants
  <1>3. /\ c \in -2 .. IntMax /\ written \in Seq(Byte \cup {Garbage}) /\ dest \in {"file", "cgi"}
        /\ verdict \in {"none", "saved", "204", "400", "413"} /\ watched \in BOOLEAN /\ complete \in BOOLEAN
    BY <1>1 DEF TypeOK
  <1>4. UNCHANGED <<req, meaning, limit, dest, whole>>
    BY DEF request
  <1>5. verdict = "none" => Open /\ c > 0 /\ pos + c = req.length
    BY <1>1 DEF IInv, Open, Phases, Length
  <1>6. CASE Len(buffer) <= c
    <2>1. /\ ~WriteFails /\ written' = written \o Handed(Len(buffer))
          /\ contentLength' = c - Len(buffer) /\ buffer' = <<>>
          /\ IF contentLength' = 0 THEN Saves ELSE Returns /\ UNCHANGED <<complete, verdict, watched>>
      BY <1>2, <1>3, <1>6 DEF ReadContent
    <2>2. contentLength' \in 0 .. IntMax /\ c >= 0 /\ contentLength' \in -2 .. IntMax
      BY <1>2, <1>3, <1>6, <2>1
    <2>3. Position' /\ pos' = arrived /\ buffer' \in Seq(Byte)
      BY <1>1, <2>1, Emptied
    <2>4. written' \in Seq(Byte \cup {Garbage})
      <3>1. Len(buffer) \in 0 .. Len(buffer)
        BY <1>2
      <3>2. Handed(Len(buffer)) \in Seq(Byte \cup {Garbage})
        BY <1>1, <2>2, <3>1, HandedIs
      <3> QED BY <1>3, <2>1, <3>2, ConcatProperties
    <2>5. ASSUME verdict = "none"
          PROVE  /\ dest = "cgi" \/ (whole /\ ~Stuck') => meaning.data = written' \o DataTodo'
                 /\ dest = "cgi" => Len(written') + contentLength' = Len(written) + c
      <3> DEFINE k == Len(buffer)
      <3>1. Erased(buffer, k) = <<>>
        <4>0. buffer \in Seq(Byte) /\ k \in Nat /\ k <= Len(buffer) /\ Len(buffer) - k = 0
          BY <1>2
        <4>1. Erased(buffer, k) \in Seq(Byte) /\ Len(Erased(buffer, k)) = 0
          <5> HIDE DEF k
          <5> QED BY <4>0, ErasedIs
        <4> QED BY <4>1
      <3>2. k = IF Len(buffer) > c THEN c ELSE Len(buffer)
        BY <1>2, <1>3, <1>6
      <3> HIDE DEF k
      <3>3. /\ dest = "cgi" \/ (whole /\ ~Stuck') => meaning.data = written' \o DataTodo'
            /\ dest = "cgi" => Len(written') = Len(written) + k
            /\ k \in Nat
        BY <1>5, <2>1, <2>5, <3>1, <3>2, PassedOn DEF k
      <3>4. Len(written) \in Nat
        BY <1>3
      <3>5. k + (c - k) = c
        BY <1>3, <3>3
      <3>6. dest = "cgi" => Len(written') + contentLength' = Len(written) + c
        <4>1. contentLength' = c - k /\ c \in Int /\ k \in Nat
          BY <1>3, <2>1, <3>3 DEF k
        <4> QED BY <3>3, <3>4, <4>1
      <3> QED BY <3>3, <3>6
    <2>6. CASE contentLength' = 0
      <3>1. ASSUME verdict = "none", dest = "cgi" \/ whole PROVE written' = meaning.data
        <4>1. ~Stuck'
          BY <2>6 DEF Stuck
        <4>2. meaning.data = written' \o DataTodo'
          BY <2>5, <3>1, <4>1
        <4>3. DataTodo' = First(Erased(b, arrived), 0)
          BY <1>1, <1>4, <2>3, <2>6 DEF DataTodo
        <4>4. First(Erased(b, arrived), 0) = <<>>
          <5>0. b \in Seq(Byte) /\ arrived \in Nat
            BY <1>2
          <5>1. Erased(b, arrived) \in Seq(Byte)
            BY <5>0, ErasedIs
          <5>2. First(Erased(b, arrived), 0) \in Seq(Byte) /\ Len(First(Erased(b, arrived), 0)) = 0
            BY <5>1, FirstIs
          <5> QED BY <5>2
        <4>5. written' \o <<>> = written'
          BY <2>4, ConcatEmptySeq
        <4> QED BY <4>2, <4>3, <4>4, <4>5, Zenon
      <3>2. ASSUME verdict = "none", dest = "cgi" PROVE Len(written') <= limit
        <4>1. Len(written) + c = req.length /\ req.length <= limit
          BY <1>1, <1>5, <3>2 DEF IInv, WithinLimit
        <4>2. Len(written') \in Nat
          BY <2>4
        <4> QED BY <1>2, <2>5, <2>6, <3>2, <4>1, <4>2
      <3>3. /\ Untouched' /\ Phases' /\ Length' /\ Understood' /\ Passed' /\ WithinLimit'
            /\ Saved' /\ RefusedForCause'
            /\ verdict' \in {"saved", "204", "400", "413"} /\ complete' = TRUE /\ pc' = "idle" /\ watched' = FALSE
        BY <1>1, <2>1, <2>6, <3>1, <3>2, SavedNow
      <3>4. TypeOK'
        BY <1>1, <1>4, <2>2, <2>3, <2>4, <3>3 DEF TypeOK
      <3> QED BY <2>3, <3>3, <3>4 DEF IInv
    <2>7. CASE contentLength' # 0
      <3>1. pc' = "idle" /\ UNCHANGED <<complete, verdict, watched>>
        BY <2>1, <2>7 DEF Returns
      <3>2. TypeOK'
        BY <1>1, <1>4, <2>2, <2>3, <2>4, <3>1 DEF TypeOK
      <3>3. Untouched'
        BY <3>1 DEF Untouched
      <3>4. Phases'
        BY <1>1, <1>4, <2>2, <2>7, <3>1 DEF Phases, Open
      <3>5. Length'
        <4>1. verdict = "none" => arrived + contentLength' = req.length
          BY <1>2, <1>3, <1>5, <2>1
        <4> QED BY <1>4, <2>3, <3>1, <4>1 DEF Length, Open
      <3>6. Understood'
        BY <1>1, <1>4 DEF Understood
      <3>7. Passed'
        BY <1>4, <2>5, <3>1 DEF Passed, Open
      <3>8. WithinLimit'
        <4>1. verdict = "none" /\ dest = "cgi" => Len(written) + c = req.length /\ req.length <= limit
          BY <1>1, <1>5 DEF IInv, WithinLimit
        <4> QED BY <1>1, <1>4, <2>5, <3>1, <4>1 DEF WithinLimit, Open
      <3>9. Saved' /\ RefusedForCause'
        BY <1>1, <1>4, <3>1 DEF IInv, Saved, RefusedForCause
      <3> QED BY <2>3, <3>2, <3>3, <3>4, <3>5, <3>6, <3>7, <3>8, <3>9 DEF IInv
    <2> QED BY <2>6, <2>7
  <1>7. CASE Len(buffer) > c
    <2>1. Refuses("400") /\ UNCHANGED <<buffer, contentLength>>
      BY <1>2, <1>3, <1>7 DEF ReadContent
    <2>2. verdict = "none" => ~meaning.ok
      <3>1. meaning.ok = (Len(b) = req.length /\ req.length > 0)
        <4>1. meaning = [data |-> First(b, req.length),
                         sum |-> IF req.length = TooLarge THEN IntMax + 1 ELSE req.length,
                         ok |-> Len(b) = req.length /\ req.length > 0]
          BY <1>1 DEF Position, Meaning
        <4> QED BY <4>1
      <3>2. verdict = "none" => ~(Len(b) = req.length /\ req.length > 0)
        BY <1>2, <1>3, <1>5, <1>7
      <3> QED BY <3>1, <3>2, Zenon
    <2>3. /\ Untouched' /\ Phases' /\ Length' /\ Understood' /\ Passed' /\ WithinLimit'
          /\ Saved' /\ RefusedForCause'
          /\ verdict' \in {"saved", "204", "400", "413"} /\ complete' = TRUE /\ pc' = "idle"
      BY <2>1, <2>2, Refused
    <2>4. UNCHANGED <<written, watched>>
      BY <2>1 DEF Refuses
    <2>5. TypeOK'
      BY <1>1, <1>4, <2>1, <2>3, <2>4 DEF TypeOK
    <2>6. Position'
      BY <1>1, <1>4, <2>1 DEF Position, pos
    <2> QED BY <2>3, <2>5, <2>6 DEF IInv
  <1> QED BY <1>2, <1>3, <1>6, <1>7

(* A step of _readChunked that refuses and saves nothing.                  *)
LEMMA GoesOn ==
  ASSUME IInv, UNCHANGED <<request, verdict, complete, watched>>,
         pc \in {"loop", "size", "data"}, pc' \in {"loop", "size", "data"},
         pc' = "data" => contentLength' > 0, pc' = "size" => contentLength' = SizeDue,
         verdict = "none" =>
           /\ contentLength' >= SizeDue
           /\ meaning.ok = Todo'.ok /\ Announced' \in Nat
           /\ Announced' = contentTotalLength' \/ Announced' > IntMax
           /\ dest = "cgi" \/ (whole /\ ~Stuck') => meaning.data = written' \o DataTodo'
           /\ dest = "cgi" /\ 2 * limit <= IntMax =>
                /\ Len(written') + Left' <= contentTotalLength'
                /\ contentTotalLength' <= limit \/ contentTotalLength' = 0
  PROVE  /\ Untouched' /\ Phases' /\ Length' /\ Understood' /\ Passed' /\ WithinLimit'
         /\ Saved' /\ RefusedForCause'
  <1>1. UNCHANGED <<req, meaning, limit, dest, whole>>
    BY DEF request
  <1>2. req.chunked /\ verdict # "saved" /\ (dest = "file" => verdict = "none")
    BY DEF IInv, Phases
  <1>3. pc' # "headers" /\ pc' # "idle" /\ (Open' <=> verdict = "none")
    BY DEF Open
  <1>4. Untouched'
    BY <1>3 DEF Untouched
  <1>5. Phases'
    <2>1. complete => dest # "file"
      BY DEF IInv, Phases
    <2> QED BY <1>1, <1>2, <1>3, <2>1 DEF IInv, Phases
  <1>6. Length'
    BY <1>1, <1>2 DEF Length
  <1>7. Understood'
    BY <1>1, <1>3 DEF Understood
  <1>8. Passed'
    BY <1>1, <1>3 DEF Passed
  <1>9. WithinLimit'
    BY <1>1, <1>2, <1>3 DEF WithinLimit
  <1>10. Saved'
    BY <1>2 DEF Saved
  <1>11. RefusedForCause'
    BY <1>1 DEF IInv, RefusedForCause
  <1> QED BY <1>4, <1>5, <1>6, <1>7, <1>8, <1>9, <1>10, <1>11

(* What the invariant says within a call of _readChunked.                  *)
LEMMA Within ==
  ASSUME IInv, pc \in {"loop", "size", "data"}
  PROVE  /\ TypeOK /\ Position /\ req.chunked /\ verdict # "saved"
         /\ contentLength \in -2 .. IntMax /\ IntMax \in Nat
         /\ contentTotalLength \in -(IntMax + 1) .. IntMax
         /\ written \in Seq(Byte \cup {Garbage}) /\ dest \in {"file", "cgi"}
         /\ limit \in -(IntMax + 1) .. IntMax
         /\ pc = "size" => contentLength = SizeDue
         /\ pc = "data" => contentLength > 0
         /\ dest = "file" => verdict = "none"
         /\ verdict = "none" =>
              /\ Open /\ contentLength >= SizeDue
              /\ meaning.ok = Todo.ok /\ Announced \in Nat
              /\ Announced = contentTotalLength \/ Announced > IntMax
              /\ dest = "cgi" \/ (whole /\ ~Stuck) => meaning.data = written \o DataTodo
              /\ dest = "cgi" /\ 2 * limit <= IntMax =>
                   /\ Len(written) + Left <= contentTotalLength
                   /\ contentTotalLength <= limit \/ contentTotalLength = 0
              /\ DataTodo = Todo.data
              /\ Todo.sum \in Nat /\ meaning.sum \in Nat
              /\ contentLength # SizeDue => Todo.sum >= contentLength
  <1>1. TypeOK /\ Position /\ req.chunked /\ verdict # "saved"
        /\ (pc = "size" => contentLength = SizeDue) /\ (pc = "data" => contentLength > 0)
        /\ (dest = "file" => verdict = "none")
    BY DEF IInv, Phases
  <1>2. /\ contentLength \in -2 .. IntMax /\ IntMax \in Nat
        /\ contentTotalLength \in -(IntMax + 1) .. IntMax
        /\ written \in Seq(Byte \cup {Garbage}) /\ dest \in {"file", "cgi"}
        /\ limit \in -(IntMax + 1) .. IntMax
    BY <1>1, Constants, Body DEF TypeOK
  <1>3. ASSUME verdict = "none"
        PROVE  /\ Open /\ contentLength >= SizeDue
               /\ meaning.ok = Todo.ok /\ Announced \in Nat
               /\ Announced = contentTotalLength \/ Announced > IntMax
               /\ dest = "cgi" \/ (whole /\ ~Stuck) => meaning.data = written \o DataTodo
               /\ dest = "cgi" /\ 2 * limit <= IntMax =>
                    /\ Len(written) + Left <= contentTotalLength
                    /\ contentTotalLength <= limit \/ contentTotalLength = 0
               /\ DataTodo = Todo.data
    <2>1. Open
      BY <1>3 DEF Open
    <2>2. contentLength >= SizeDue
      BY <1>1, <2>1 DEF IInv, Phases
    <2>3. meaning.ok = Todo.ok /\ Announced \in Nat /\ (Announced = contentTotalLength \/ Announced > IntMax)
      BY <1>1, <2>1 DEF IInv, Understood
    <2>4. dest = "cgi" \/ (whole /\ ~Stuck) => meaning.data = written \o DataTodo
      BY <2>1 DEF IInv, Passed
    <2>5. dest = "cgi" /\ 2 * limit <= IntMax =>
                    /\ Len(written) + Left <= contentTotalLength
                    /\ contentTotalLength <= limit \/ contentTotalLength = 0
      BY <1>1, <2>1 DEF IInv, WithinLimit
    <2>6. DataTodo = Todo.data
      BY <1>1 DEF DataTodo
    <2> QED BY <2>1, <2>2, <2>3, <2>4, <2>5, <2>6
  <1>4. verdict = "none" => Todo.sum \in Nat /\ (contentLength # SizeDue => Todo.sum >= contentLength)
    <2>1. req.bytes \in Seq(Byte) /\ pos \in 0 .. Len(req.bytes)
      BY <1>1, Body
    <2> QED BY <1>2, <1>3, <2>1, TodoAtIs DEF Todo
  <1>5. meaning.sum \in Nat
    <2>1. req.bytes \in Seq(Byte)
      BY <1>1, Body
    <2>2. 1 \in 1 .. Len(req.bytes) + 1
      BY <2>1
    <2>3. Chunks(req.bytes)[1] \in Meant /\ meaning = Chunks(req.bytes)[1]
      BY <1>1, <2>1, <2>2, ChunksTotal DEF Position, Meaning
    <2> QED BY <2>3 DEF Meant
  <1> QED BY <1>1, <1>2, <1>3, <1>4, <1>5

LEMMA EndOfChunkOk ==
  ASSUME IInv, EndOfChunk, UNCHANGED <<request, arrived, cgiOpen>>
  PROVE  IInv'
  <1> DEFINE b == req.bytes
  <1>1. pc = "loop" /\ contentLength = 0 /\ UNCHANGED contentTotalLength
    BY DEF EndOfChunk
  <1>2. UNCHANGED <<req, meaning, limit, dest, whole>>
    BY DEF request
  <1>3. /\ TypeOK /\ Position /\ req.chunked /\ verdict # "saved"
        /\ verdict = "none" =>
              /\ meaning.ok = Todo.ok /\ Announced \in Nat
              /\ Announced = contentTotalLength \/ Announced > IntMax
              /\ dest = "cgi" \/ (whole /\ ~Stuck) => meaning.data = written \o DataTodo
              /\ dest = "cgi" /\ 2 * limit <= IntMax =>
                   /\ Len(written) + Left <= contentTotalLength
                   /\ contentTotalLength <= limit \/ contentTotalLength = 0
              /\ DataTodo = Todo.data
    BY <1>1, Within
  <1>4. /\ b \in Seq(Byte) /\ pos \in 0 .. Len(b)
        /\ buffer \in Seq(Byte) /\ Len(buffer) \in Nat /\ StartsWith(Erased(b, pos), buffer)
    BY <1>3, Body
  <1>5. Erased(b, pos) \in Seq(Byte)
    <2>1. pos \in Nat
      BY <1>4
    <2> QED BY <1>4, <2>1, ErasedIs
  <1>6. Todo = TodoAt(b, pos, 0)
    BY <1>1 DEF Todo
  <1>7. CASE /\ StartsWith(buffer, CRLF)
             /\ buffer' = Erased(buffer, 2) /\ contentLength' = SizeDue
             /\ pc' = "size"
             /\ UNCHANGED <<written, complete, verdict, watched>>
    <2>1. StartsWith(Erased(b, pos), CRLF)
      BY <1>4, <1>5, <1>7, Literals, ComparesAll
    <2>2. 2 \in 0 .. Len(buffer)
      BY <1>4, <1>7, Literals DEF StartsWith
    <2>3. Position' /\ pos' = pos + 2 /\ buffer' \in Seq(Byte)
      BY <1>3, <1>7, <2>2, Taken
    <2>4. Todo' = TodoAt(b, pos + 2, SizeDue)
      BY <1>2, <1>7, <2>3 DEF Todo
    <2>5. Todo'.data = Todo.data /\ Todo'.sum = Todo.sum /\ Todo'.ok = Todo.ok
      BY <1>4, <1>6, <2>1, <2>4, TodoBehind
    <2>6. Left = 0 /\ Left' = 0 /\ ~Stuck /\ ~Stuck'
      BY <1>1, <1>7 DEF Left, Stuck, SizeDue
    <2>7. Announced' = Announced /\ DataTodo' = Todo'.data
      BY <1>2, <1>3, <2>5, <2>6 DEF Announced, DataTodo
    <2>8. verdict = "none" =>
           /\ contentLength' >= SizeDue
           /\ meaning.ok = Todo'.ok /\ Announced' \in Nat
           /\ Announced' = contentTotalLength' \/ Announced' > IntMax
           /\ dest = "cgi" \/ (whole /\ ~Stuck') => meaning.data = written' \o DataTodo'
           /\ dest = "cgi" /\ 2 * limit <= IntMax =>
                /\ Len(written') + Left' <= contentTotalLength'
                /\ contentTotalLength' <= limit \/ contentTotalLength' = 0
      <3>1. contentLength' >= SizeDue
        BY <1>7 DEF SizeDue
      <3> QED BY <1>1, <1>3, <1>7, <2>5, <2>6, <2>7, <3>1
    <2>9. /\ Untouched' /\ Phases' /\ Length' /\ Understood' /\ Passed' /\ WithinLimit'
          /\ Saved' /\ RefusedForCause'
      BY <1>1, <1>7, <2>8, GoesOn
    <2>10. TypeOK'
      <3>1. SizeDue \in -2 .. IntMax
        BY Constants DEF SizeDue
      <3> QED BY <1>1, <1>2, <1>3, <1>7, <2>3, <3>1 DEF TypeOK
    <2> QED BY <2>3, <2>9, <2>10 DEF IInv
  <1>8. CASE ~Compares(buffer, CRLF) /\ Refuses("400") /\ UNCHANGED <<buffer, contentLength>>
    <2>1. ~StartsWith(Erased(b, pos), CRLF)
      BY <1>4, <1>5, <1>8, Literals, ComparesAll
    <2>2. verdict = "none" => ~meaning.ok
      BY <1>3, <1>4, <1>6, <2>1, TodoBehind
    <2>3. /\ Untouched' /\ Phases' /\ Length' /\ Understood' /\ Passed' /\ WithinLimit'
          /\ Saved' /\ RefusedForCause'
          /\ verdict' \in {"saved", "204", "400", "413"} /\ complete' = TRUE /\ pc' = "idle"
      BY <1>8, <2>2, Refused
    <2>4. UNCHANGED <<written, watched>>
      BY <1>8 DEF Refuses
    <2>5. TypeOK'
      BY <1>1, <1>2, <1>3, <1>8, <2>3, <2>4 DEF TypeOK
    <2>6. Position'
      BY <1>2, <1>3, <1>8 DEF Position, pos
    <2> QED BY <2>3, <2>5, <2>6 DEF IInv
  <1>9. CASE Returns /\ UNCHANGED <<buffer, contentLength, written, complete, verdict, watched>>
    BY <1>1, <1>9, PcOk DEF Returns
  <1> QED BY <1>7, <1>8, <1>9 DEF EndOfChunk

(* At a size line: what it says is what Chunks finds there.                *)
LEMMA AtLine ==
  ASSUME IInv, AtSizeLine, Find(buffer) # 0, NEW z, z = ToContentLength(Line)
  PROVE  /\ contentLength = SizeDue /\ pc \in {"loop", "size"}
         /\ Find(buffer) + 1 \in 0 .. Len(buffer) /\ Find(buffer) \in Nat
         /\ z \in -2 .. IntMax
         /\ z = 0 => /\ Todo.data = <<>> /\ Todo.sum = 0
                     /\ Todo.ok = StartsWith(Erased(req.bytes, pos), Terminator)
         /\ z = Invalid => ~Todo.ok
         /\ z = TooLarge => Todo.sum = IntMax + 1
         /\ z > 0 => Todo = TodoAt(req.bytes, pos + Find(buffer) + 1, z)
         /\ Left = 0 /\ ~Stuck
  <1>1. contentLength = SizeDue /\ pc \in {"loop", "size"}
    BY DEF IInv, Phases, AtSizeLine
  <1>2. TypeOK /\ Position
    BY DEF IInv
  <1>3. /\ req.bytes \in Seq(Byte) /\ pos \in 0 .. Len(req.bytes)
        /\ buffer \in Seq(Byte) /\ Len(buffer) \in Nat /\ StartsWith(Erased(req.bytes, pos), buffer)
    BY <1>2, Body
  <1>4. Find(buffer) \in Nat /\ Find(buffer) \in 1 .. Len(buffer) - 1
    BY <1>3, FindIs
  <1>5. Find(buffer) + 1 \in 0 .. Len(buffer)
    BY <1>3, <1>4
  <1>6. Todo = TodoAt(req.bytes, pos, SizeDue)
    BY <1>1 DEF Todo
  <1>7. z = ToContentLength(SubSeq(buffer, 1, Find(buffer) - 1))
    BY DEF Line
  <1>8. /\ z \in -2 .. IntMax
        /\ z = 0 => /\ Todo.data = <<>> /\ Todo.sum = 0
                    /\ Todo.ok = StartsWith(Erased(req.bytes, pos), Terminator)
        /\ z = Invalid => ~Todo.ok
        /\ z = TooLarge => Todo.sum = IntMax + 1
        /\ z > 0 => Todo = TodoAt(req.bytes, pos + Find(buffer) + 1, z)
    BY <1>3, <1>6, <1>7, TodoAtSize
  <1>9. Left = 0 /\ ~Stuck
    BY <1>1 DEF Left, Stuck, SizeDue
  <1> QED BY <1>1, <1>4, <1>5, <1>8, <1>9

LEMMA BadSizeLineOk ==
  ASSUME IInv, BadSizeLine, UNCHANGED <<request, arrived, cgiOpen>>
  PROVE  IInv'
  <1>1. AtSizeLine /\ Find(buffer) # 0 /\ ToContentLength(Line) = Invalid
        /\ contentLength' \in {SizeDue, Invalid} /\ Refuses("400")
        /\ UNCHANGED <<buffer, contentTotalLength>>
    BY DEF BadSizeLine
  <1>2. UNCHANGED <<req, meaning, limit, dest, whole>>
    BY DEF request
  <1>3. pc \in {"loop", "size", "data"} /\ ~Todo.ok
    BY <1>1, AtLine
  <1>4. TypeOK /\ Position /\ (verdict = "none" => ~meaning.ok)
    BY <1>3, Within
  <1>5. /\ Untouched' /\ Phases' /\ Length' /\ Understood' /\ Passed' /\ WithinLimit'
        /\ Saved' /\ RefusedForCause'
        /\ verdict' \in {"saved", "204", "400", "413"} /\ complete' = TRUE /\ pc' = "idle"
    BY <1>1, <1>4, Refused
  <1>6. UNCHANGED <<written, watched>>
    BY <1>1 DEF Refuses
  <1>7. contentLength' \in -2 .. IntMax
    BY <1>1, Constants DEF SizeDue, Invalid
  <1>8. TypeOK'
    BY <1>1, <1>2, <1>4, <1>5, <1>6, <1>7 DEF TypeOK
  <1>9. Position'
    BY <1>1, <1>2, <1>4 DEF Position, pos
  <1> QED BY <1>5, <1>8, <1>9 DEF IInv

LEMMA LastChunkOk ==
  ASSUME IInv, LastChunk, UNCHANGED <<request, arrived, cgiOpen>>
  PROVE  IInv'
  <1> DEFINE b == req.bytes
  <1>1. AtSizeLine /\ Find(buffer) # 0 /\ ToContentLength(Line) = 0 /\ UNCHANGED contentTotalLength
    BY DEF LastChunk
  <1>2. UNCHANGED <<req, meaning, limit, dest, whole>>
    BY DEF request
  <1>3. /\ contentLength = SizeDue /\ pc \in {"loop", "size", "data"}
        /\ Todo.data = <<>> /\ Todo.ok = StartsWith(Erased(b, pos), Terminator)
        /\ Left = 0 /\ ~Stuck
    BY <1>1, AtLine
  <1>4. /\ TypeOK /\ Position /\ verdict # "saved" /\ written \in Seq(Byte \cup {Garbage})
        /\ limit \in -(IntMax + 1) .. IntMax /\ contentTotalLength \in -(IntMax + 1) .. IntMax /\ IntMax \in Nat
        /\ verdict = "none" =>
              /\ meaning.ok = Todo.ok
              /\ dest = "cgi" \/ (whole /\ ~Stuck) => meaning.data = written \o DataTodo
              /\ dest = "cgi" /\ 2 * limit <= IntMax =>
                   /\ Len(written) + Left <= contentTotalLength
                   /\ contentTotalLength <= limit \/ contentTotalLength = 0
              /\ DataTodo = Todo.data
    BY <1>3, Within
  <1>5. /\ b \in Seq(Byte) /\ pos \in 0 .. Len(b) /\ pos \in Nat
        /\ buffer \in Seq(Byte) /\ Len(buffer) \in Nat /\ StartsWith(Erased(b, pos), buffer)
    BY <1>4, Body
  <1>6. CASE /\ buffer' = <<>> /\ contentLength' = 0
             /\ Saves
             /\ UNCHANGED written
    <2>1. ASSUME verdict = "none", dest = "cgi" \/ whole PROVE written' = meaning.data
      <3>1. meaning.data = written \o <<>>
        BY <1>3, <1>4, <2>1
      <3>2. written \o <<>> = written
        BY <1>4, ConcatEmptySeq
      <3> QED BY <1>6, <3>1, <3>2
    <2>2. ASSUME verdict = "none", dest = "cgi", written' # <<>>, 2 * limit <= IntMax
          PROVE  Len(written') <= limit
      <3>1. Len(written) \in Nat /\ Len(written) # 0 /\ written' = written
        BY <1>4, <1>6, <2>2
      <3> QED BY <1>3, <1>4, <2>2, <3>1
    <2>3. /\ Untouched' /\ Phases' /\ Length' /\ Understood' /\ Passed' /\ WithinLimit'
          /\ Saved' /\ RefusedForCause'
          /\ verdict' \in {"saved", "204", "400", "413"} /\ complete' = TRUE /\ pc' = "idle" /\ watched' = FALSE
      BY <1>4, <1>6, <2>1, <2>2, SavedNow
    <2>4. Position'
      BY <1>4, <1>6, Emptied
    <2>5. TypeOK'
      <3>1. 0 \in -2 .. IntMax /\ <<>> \in Seq(Byte)
        BY <1>4, Literals
      <3> QED BY <1>1, <1>2, <1>4, <1>6, <2>3, <3>1 DEF TypeOK
    <2> QED BY <2>3, <2>4, <2>5 DEF IInv
  <1>7. CASE /\ UNCHANGED buffer /\ contentLength' = SizeDue /\ Returns
             /\ UNCHANGED <<written, complete, verdict, watched>>
    BY <1>1, <1>3, <1>7, PcOk DEF Returns
  <1>8. CASE /\ ~Compares(buffer, Terminator) /\ UNCHANGED buffer
             /\ contentLength' = 0 /\ Refuses("400")
    <2>1. ~StartsWith(Erased(b, pos), Terminator)
      <3>1. Erased(b, pos) \in Seq(Byte)
        BY <1>5, ErasedIs
      <3> QED BY <1>5, <1>8, <3>1, Literals, ComparesAll
    <2>2. verdict = "none" => ~meaning.ok
      BY <1>3, <1>4, <2>1
    <2>3. /\ Untouched' /\ Phases' /\ Length' /\ Understood' /\ Passed' /\ WithinLimit'
          /\ Saved' /\ RefusedForCause'
          /\ verdict' \in {"saved", "204", "400", "413"} /\ complete' = TRUE /\ pc' = "idle"
      BY <1>8, <2>2, Refused
    <2>4. UNCHANGED <<written, watched>>
      BY <1>8 DEF Refuses
    <2>5. TypeOK'
      <3>1. 0 \in -2 .. IntMax
        BY <1>4
      <3> QED BY <1>1, <1>2, <1>4, <1>8, <2>3, <2>4, <3>1 DEF TypeOK
    <2>6. Position'
      BY <1>2, <1>4, <1>8 DEF Position, pos
    <2> QED BY <2>3, <2>5, <2>6 DEF IInv
  <1> QED BY <1>6, <1>7, <1>8 DEF LastChunk

LEMMA ChunkSizeOk ==
  ASSUME IInv, ChunkSize, UNCHANGED <<request, arrived, cgiOpen>>
  PROVE  IInv'
  <1> DEFINE b == req.bytes
             z == ToContentLength(Line)
             k == Find(buffer)
             total == contentTotalLength
  <1>1. /\ AtSizeLine /\ k # 0 /\ z \notin {Invalid, 0}
        /\ contentLength' = z /\ contentTotalLength' = Wrapped(total + z)
        /\ buffer' = Erased(buffer, k + 1)
        /\ IF TooMuch(z, contentTotalLength')
             THEN Refuses("413")
             ELSE pc' = "data" /\ UNCHANGED <<written, complete, verdict, watched>>
    BY DEF ChunkSize
  <1>2. UNCHANGED <<req, meaning, limit, dest, whole>>
    BY DEF request
  <1>3. /\ contentLength = SizeDue /\ pc \in {"loop", "size", "data"}
        /\ k + 1 \in 0 .. Len(buffer) /\ k \in Nat
        /\ z \in -2 .. IntMax
        /\ z = TooLarge => Todo.sum = IntMax + 1
        /\ z > 0 => Todo = TodoAt(b, pos + k + 1, z)
        /\ Left = 0 /\ ~Stuck
    BY <1>1, AtLine
  <1>4. /\ TypeOK /\ Position /\ req.chunked
        /\ written \in Seq(Byte \cup {Garbage}) /\ limit \in -(IntMax + 1) .. IntMax
        /\ total \in -(IntMax + 1) .. IntMax /\ IntMax \in Nat
        /\ verdict = "none" =>
              /\ meaning.ok = Todo.ok /\ Announced \in Nat
              /\ Announced = total \/ Announced > IntMax
              /\ dest = "cgi" \/ (whole /\ ~Stuck) => meaning.data = written \o DataTodo
              /\ dest = "cgi" /\ 2 * limit <= IntMax =>
                   /\ Len(written) + Left <= total
                   /\ total <= limit \/ total = 0
              /\ DataTodo = Todo.data
              /\ Todo.sum \in Nat /\ meaning.sum \in Nat
    BY <1>3, Within
  <1>5. /\ b \in Seq(Byte) /\ pos \in 0 .. Len(b) /\ Len(b) \in Nat
        /\ buffer \in Seq(Byte) /\ Len(buffer) \in Nat /\ arrived \in 0 .. Len(b) /\ Len(buffer) = arrived - pos
    BY <1>4, Body
  <1>6. /\ contentTotalLength' \in -(IntMax + 1) .. IntMax
        /\ total + z \in -(IntMax + 1) .. IntMax => contentTotalLength' = total + z
    <2> HIDE DEF z
    <2>1. total + z \in Int
      BY <1>3, <1>4
    <2> QED BY <1>1, <2>1, WrappedIs
  <1>7. z = TooLarge \/ z > 0
    BY <1>1, <1>3, <1>4 DEF Invalid, TooLarge
  <1>8. Position' /\ pos' = pos + k + 1 /\ buffer' \in Seq(Byte)
    <2>1. Position' /\ pos' = pos + (k + 1) /\ buffer' \in Seq(Byte)
      BY <1>1, <1>3, <1>4, Taken
    <2> QED BY <1>3, <1>5, <2>1
  <1>9. z > 0 => Todo.sum >= z
    <2> SUFFICES ASSUME z > 0 PROVE Todo.sum >= z
      OBVIOUS
    <2> HIDE DEF z, k
    <2>1. pos + k + 1 \in 0 .. Len(b)
      <3> DEFINE m == Len(buffer)
                 n == Len(b)
      <3>1. m \in Nat /\ n \in Nat /\ pos \in 0 .. n /\ arrived \in 0 .. n /\ m = arrived - pos
            /\ k + 1 \in 0 .. m /\ k \in Nat
        BY <1>3, <1>5
      <3> HIDE DEF m, n
      <3> QED BY <3>1 DEF n
    <2>3. z \in Int /\ z >= SizeDue /\ z # SizeDue
      BY <1>3, <1>4 DEF SizeDue
    <2>2. TodoAt(b, pos + k + 1, z).sum >= z
      BY <1>5, <2>1, <2>3, TodoAtIs
    <2> QED BY <1>3, <2>2
  <1> HIDE DEF z, k, total
  <1>10. CASE TooMuch(z, contentTotalLength')
    <2>1. Refuses("413")
      BY <1>1, <1>10
    <2>2. ASSUME verdict = "none" PROVE meaning.sum > limit
      <3> DEFINE A == Announced
                 T == Todo.sum
                 M == meaning.sum
      <3>1. M = A + T /\ A \in Nat /\ T \in Nat /\ M \in Nat /\ (A = total \/ A > IntMax)
        <4>1. A = meaning.sum - Todo.sum + 0
          BY <1>3 DEF Announced
        <4> QED BY <1>4, <2>2, <4>1
      <3>2. z = TooLarge \/ z > limit \/ contentTotalLength' > limit
        BY <1>10 DEF TooMuch
      <3>3. z = TooLarge => T = IntMax + 1
        BY <1>3
      <3>4. z > 0 => T >= z
        BY <1>9
      <3> HIDE DEF A, T, M
      <3>5. M > limit
        <4>1. CASE z = TooLarge
          BY <1>4, <3>1, <3>3, <4>1
        <4>2. CASE z > 0 /\ z > limit
          BY <1>3, <1>4, <3>1, <3>4, <4>2
        <4>3. CASE z > 0 /\ A > IntMax
          BY <1>3, <1>4, <3>1, <4>3
        <4>4. CASE z > 0 /\ A = total /\ total + z > IntMax
          BY <1>3, <1>4, <3>1, <3>4, <4>4
        <4>5. CASE z > 0 /\ A = total /\ ~(total + z > IntMax) /\ contentTotalLength' > limit
          <5>1. total + z \in -(IntMax + 1) .. IntMax
            BY <1>3, <1>4, <3>1, <4>5
          <5> QED BY <1>3, <1>4, <1>6, <3>1, <3>4, <4>5, <5>1
        <4> QED BY <1>7, <3>1, <3>2, <4>1, <4>2, <4>3, <4>4, <4>5
      <3> QED BY <3>5 DEF M
    <2>3. /\ Untouched' /\ Phases' /\ Length' /\ Understood' /\ Passed' /\ WithinLimit'
          /\ Saved' /\ RefusedForCause'
          /\ verdict' \in {"saved", "204", "400", "413"} /\ complete' = TRUE /\ pc' = "idle"
      BY <2>1, <2>2, Refused
    <2>4. UNCHANGED <<written, watched>>
      BY <2>1 DEF Refuses
    <2>5. TypeOK'
      BY <1>1, <1>2, <1>3, <1>4, <1>6, <1>8, <2>3, <2>4 DEF TypeOK
    <2> QED BY <1>8, <2>3, <2>5 DEF IInv
  <1>11. CASE ~TooMuch(z, contentTotalLength')
    <2>1. pc' = "data" /\ UNCHANGED <<written, complete, verdict, watched>>
      BY <1>1, <1>11
    <2>2. z > 0 /\ z <= limit /\ contentTotalLength' <= limit
      BY <1>3, <1>4, <1>6, <1>7, <1>11 DEF TooMuch
    <2>3. Todo' = Todo /\ Left' = z
      <3>1. z # SizeDue
        BY <2>2 DEF SizeDue
      <3> QED BY <1>1, <1>2, <1>3, <1>8, <2>2, <3>1 DEF Todo, Left
    <2>4. DataTodo' = Todo.data
      BY <1>2, <1>4, <2>3 DEF DataTodo
    <2>5. verdict = "none" =>
           /\ contentLength' >= SizeDue
           /\ meaning.ok = Todo'.ok /\ Announced' \in Nat
           /\ Announced' = contentTotalLength' \/ Announced' > IntMax
           /\ dest = "cgi" \/ (whole /\ ~Stuck') => meaning.data = written' \o DataTodo'
           /\ dest = "cgi" /\ 2 * limit <= IntMax =>
                /\ Len(written') + Left' <= contentTotalLength'
                /\ contentTotalLength' <= limit \/ contentTotalLength' = 0
      <3> SUFFICES ASSUME verdict = "none"
                   PROVE  /\ contentLength' >= SizeDue
                          /\ meaning.ok = Todo'.ok /\ Announced' \in Nat
                          /\ Announced' = contentTotalLength' \/ Announced' > IntMax
                          /\ dest = "cgi" \/ (whole /\ ~Stuck') => meaning.data = written' \o DataTodo'
                          /\ dest = "cgi" /\ 2 * limit <= IntMax =>
                               /\ Len(written') + Left' <= contentTotalLength'
                               /\ contentTotalLength' <= limit \/ contentTotalLength' = 0
        OBVIOUS
      <3>1. contentLength' >= SizeDue
        BY <1>1, <2>2, <1>3 DEF SizeDue
      <3>2. Announced' = Announced + z
        <4>1. Announced = meaning.sum - Todo.sum + 0 /\ Announced' = meaning.sum - Todo.sum + z
          BY <1>2, <1>3, <2>3 DEF Announced
        <4>2. meaning.sum \in Nat /\ Todo.sum \in Nat
          BY <1>4
        <4> QED BY <1>3, <4>1, <4>2
      <3>3. Announced' \in Nat /\ (Announced' = contentTotalLength' \/ Announced' > IntMax)
        <4> DEFINE A == Announced
                   N == Announced'
        <4>1. A \in Nat /\ N = A + z /\ (A = total \/ A > IntMax)
          BY <1>4, <3>2
        <4> HIDE DEF A, N
        <4>2. N \in Nat /\ (N = contentTotalLength' \/ N > IntMax)
          <5>1. N \in Nat
            BY <1>3, <2>2, <4>1
          <5>2. CASE N > IntMax
            BY <5>1, <5>2
          <5>3. CASE ~(N > IntMax)
            <6>1. A = total /\ total + z \in -(IntMax + 1) .. IntMax
              BY <1>3, <1>4, <2>2, <4>1, <5>1, <5>3
            <6> QED BY <1>6, <4>1, <5>1, <6>1
          <5> QED BY <5>2, <5>3
        <4> QED BY <4>2 DEF N
      <3>4. dest = "cgi" \/ (whole /\ ~Stuck') => meaning.data = written' \o DataTodo'
        BY <1>3, <1>4, <2>1, <2>4
      <3>5. ASSUME dest = "cgi", 2 * limit <= IntMax
            PROVE  Len(written') + Left' <= contentTotalLength' /\ contentTotalLength' <= limit
        <4>1. Len(written) \in Nat
          BY <1>4
        <4>2. Len(written) <= total /\ total <= limit
          BY <1>3, <1>4, <2>2, <3>5, <4>1
        <4>3. total + z \in -(IntMax + 1) .. IntMax
          BY <1>3, <1>4, <2>2, <3>5, <4>1, <4>2
        <4>4. contentTotalLength' = total + z
          BY <1>6, <4>3
        <4> QED BY <1>3, <1>4, <2>1, <2>2, <2>3, <4>1, <4>2, <4>4
      <3> QED BY <1>4, <2>3, <3>1, <3>3, <3>4, <3>5
    <2>6. /\ Untouched' /\ Phases' /\ Length' /\ Understood' /\ Passed' /\ WithinLimit'
          /\ Saved' /\ RefusedForCause'
      BY <1>1, <1>3, <2>1, <2>2, <2>5, GoesOn
    <2>7. TypeOK'
      BY <1>1, <1>2, <1>3, <1>4, <1>6, <1>8, <2>1 DEF TypeOK
    <2> QED BY <1>8, <2>6, <2>7 DEF IInv
  <1> QED BY <1>10, <1>11

LEMMA ReadChunkOk ==
  ASSUME IInv, ReadChunk, UNCHANGED <<request, arrived, cgiOpen>>
  PROVE  IInv'
  <1> DEFINE c == contentLength
             k == IF Len(buffer) > c THEN c ELSE Len(buffer)
             total == contentTotalLength
  <1>1. /\ pc \in {"loop", "size", "data"} /\ (pc = "data" \/ c \notin {SizeDue, 0})
        /\ pc' = "loop" /\ UNCHANGED <<contentTotalLength, complete, verdict, watched>>
    BY DEF ReadChunk
  <1>2. UNCHANGED <<req, meaning, limit, dest, whole>>
    BY DEF request
  <1>3. /\ TypeOK /\ Position /\ req.chunked /\ c \in -2 .. IntMax /\ IntMax \in Nat
        /\ written \in Seq(Byte \cup {Garbage}) /\ dest \in {"file", "cgi"}
        /\ pc = "data" => c > 0
        /\ dest = "file" => verdict = "none"
        /\ verdict = "none" =>
              /\ Open /\ c >= SizeDue
              /\ meaning.ok = Todo.ok /\ Announced \in Nat
              /\ Announced = total \/ Announced > IntMax
              /\ dest = "cgi" /\ 2 * limit <= IntMax =>
                   /\ Len(written) + Left <= total
                   /\ total <= limit \/ total = 0
              /\ Todo.sum \in Nat /\ meaning.sum \in Nat
    BY <1>1, Within
  <1>4. buffer \in Seq(Byte) /\ Len(buffer) \in Nat
    BY <1>3, Body
  <1>5. (c > 0 \/ c < 0) /\ (verdict = "none" => c > 0)
    BY <1>1, <1>3 DEF SizeDue
  <1>6. ASSUME c > 0
        PROVE  /\ k \in 0 .. Len(buffer) /\ k \in 0 .. c
               /\ contentLength' = c - k /\ buffer' = Erased(buffer, k) /\ written' = written \o Handed(k)
    <2>1. Erased(buffer, Len(buffer)) = <<>>
      <3>1. Erased(buffer, Len(buffer)) \in Seq(Byte) /\ Len(Erased(buffer, Len(buffer))) = 0
        BY <1>4, ErasedIs
      <3> QED BY <3>1
    <2>2. CASE Len(buffer) > c
      <3>1. k = c /\ c - c = 0 /\ ~(c < 0)
        BY <1>3, <1>6, <2>2
      <3>2. written' = written \o Handed(c) /\ contentLength' = 0 /\ buffer' = Erased(buffer, c)
        BY <2>2, <3>1 DEF ReadChunk
      <3> QED BY <1>3, <1>4, <1>6, <2>2, <3>1, <3>2
    <2>3. CASE ~(Len(buffer) > c)
      <3>1. k = Len(buffer)
        BY <2>3
      <3>2. written' = written \o Handed(Len(buffer)) /\ contentLength' = c - Len(buffer) /\ buffer' = <<>>
        BY <2>3 DEF ReadChunk
      <3>3. Len(buffer) \in 0 .. Len(buffer) /\ Len(buffer) \in 0 .. c
        BY <1>3, <1>4, <1>6, <2>3
      <3> QED BY <2>1, <3>1, <3>2, <3>3
    <2> QED BY <2>2, <2>3
  <1>7. TypeOK' /\ Position'
    <2>1. CASE c > 0
      <3>1. Position' /\ buffer' \in Seq(Byte)
        BY <1>3, <1>6, <2>1, Taken
      <3>2. Handed(k) \in Seq(Byte \cup {Garbage})
        <4> HIDE DEF k
        <4>1. contentLength >= 0 /\ k \in 0 .. Len(buffer)
          BY <1>3, <1>6, <2>1
        <4> QED BY <1>3, <4>1, HandedIs
      <3> HIDE DEF k
      <3>3. written' \in Seq(Byte \cup {Garbage})
        BY <1>3, <1>6, <2>1, <3>2, ConcatProperties
      <3>4. contentLength' \in -2 .. IntMax
        BY <1>3, <1>6, <2>1
      <3> QED BY <1>1, <1>2, <1>3, <3>1, <3>3, <3>4 DEF TypeOK
    <2>2. CASE c < 0
      <3>1. Len(buffer) > c
        BY <1>3, <1>4, <2>2
      <3>2. written' = written \o Handed(c) /\ contentLength' = 0 /\ buffer' = <<>>
        BY <2>2, <3>1 DEF ReadChunk
      <3>3. dest = "cgi"
        BY <1>3, <1>5, <2>2
      <3>4. Handed(c) = Append(buffer, Garbage)
        BY <2>2, <3>3 DEF Handed
      <3>5. Handed(c) \in Seq(Byte \cup {Garbage})
        <4>1. Byte \subseteq Byte \cup {Garbage} /\ Garbage \in Byte \cup {Garbage}
          OBVIOUS
        <4>2. buffer \in Seq(Byte \cup {Garbage})
          BY <1>4, <4>1, SeqMonotonic
        <4> QED BY <3>4, <4>1, <4>2, AppendProperties
      <3>6. written' \in Seq(Byte \cup {Garbage})
        BY <1>3, <3>2, <3>5, ConcatProperties
      <3>7. Position'
        BY <1>3, <3>2, Emptied
      <3>8. 0 \in -2 .. IntMax /\ <<>> \in Seq(Byte)
        BY <1>3, Literals
      <3> QED BY <1>1, <1>2, <1>3, <3>2, <3>6, <3>7, <3>8 DEF TypeOK
    <2> QED BY <1>5, <2>1, <2>2
  <1> HIDE DEF total
  <1>8. ASSUME verdict = "none"
        PROVE  /\ contentLength' >= SizeDue
               /\ meaning.ok = Todo'.ok /\ Announced' \in Nat
               /\ Announced' = contentTotalLength' \/ Announced' > IntMax
               /\ dest = "cgi" \/ (whole /\ ~Stuck') => meaning.data = written' \o DataTodo'
               /\ dest = "cgi" /\ 2 * limit <= IntMax =>
                    /\ Len(written') + Left' <= contentTotalLength'
                    /\ contentTotalLength' <= limit \/ contentTotalLength' = 0
    <2>1. c > 0 /\ Open
      BY <1>3, <1>5, <1>8
    <2>2. /\ k \in Nat /\ contentLength' \in 0 .. IntMax
          /\ dest = "cgi" \/ (whole /\ ~Stuck') => meaning.data = written' \o DataTodo'
          /\ dest = "cgi" => Len(written') = Len(written) + k
          /\ Todo.sum = k + Todo'.sum /\ Todo.ok = Todo'.ok /\ Todo'.sum \in Nat
      BY <1>6, <2>1, PassedOn
    <2>3. contentLength' = c - k
      BY <1>6, <2>1
    <2> HIDE DEF k
    <2>4. Left = c /\ Left' = c - k
      <3>1. c # SizeDue /\ contentLength' # SizeDue
        BY <2>1, <2>2 DEF SizeDue
      <3> QED BY <2>3, <3>1 DEF Left
    <2>5. Announced' = Announced
      <3>1. Announced = meaning.sum - Todo.sum + c /\ Announced' = meaning.sum - Todo'.sum + (c - k)
        BY <1>2, <2>4 DEF Announced
      <3>2. Todo.sum = k + Todo'.sum /\ Todo'.sum \in Nat /\ k \in Nat /\ c \in Int /\ meaning.sum \in Int
        BY <1>3, <1>8, <2>1, <2>2
      <3> HIDE DEF c
      <3> QED BY <3>1, <3>2
    <2>6. dest = "cgi" => Len(written') + Left' = Len(written) + Left
      <3>1. Len(written) \in Nat
        BY <1>3
      <3>2. c \in Int /\ k \in Nat
        BY <1>3, <2>2
      <3>3. c = k + (c - k)
        BY <3>2
      <3>4. dest = "cgi" => Len(written') + (c - k) = Len(written) + c
        <4> DEFINE m == Len(written)
                   n == Len(written')
        <4>1. m \in Nat /\ (dest = "cgi" => n = m + k)
          BY <2>2, <3>1
        <4> HIDE DEF m, n, c
        <4>2. dest = "cgi" => n + (c - k) = m + c
          BY <3>2, <4>1
        <4> QED BY <4>2 DEF m, n
      <3> QED BY <2>4, <3>4
    <2>7. contentLength' >= SizeDue
      BY <2>2 DEF SizeDue
    <2> QED BY <1>1, <1>3, <1>8, <2>2, <2>5, <2>6, <2>7 DEF total
  <1>9. /\ Untouched' /\ Phases' /\ Length' /\ Understood' /\ Passed' /\ WithinLimit'
        /\ Saved' /\ RefusedForCause'
    BY <1>1, <1>8, GoesOn
  <1> QED BY <1>7, <1>9 DEF IInv

LEMMA NextOk ==
  ASSUME IInv, [Next]_vars
  PROVE  IInv'
  <1>1. CASE CheckHeaders
    BY <1>1, CheckHeadersOk
  <1>2. CASE Receive
    BY <1>2, ReceiveOk
  <1>3. CASE CGIOut
    BY <1>3, PcOk DEF CGIOut
  <1>4. CASE CgiCloses
    BY <1>4, CgiClosesOk
  <1>5. CASE Call(Reading)
    <2>1. Reading /\ UNCHANGED <<request, arrived, cgiOpen>>
      BY <1>5 DEF Call
    <2>2. CASE ReadContent
      BY <2>1, <2>2, ReadContentOk
    <2>3. CASE LoopEnds
      BY <2>1, <2>3, PcOk DEF LoopEnds, Returns
    <2>4. CASE EndOfChunk
      BY <2>1, <2>4, EndOfChunkOk
    <2>5. CASE NoSizeLine
      BY <2>1, <2>5, PcOk DEF NoSizeLine, AtSizeLine, Returns
    <2>6. CASE BadSizeLine
      BY <2>1, <2>6, BadSizeLineOk
    <2>7. CASE LastChunk
      BY <2>1, <2>7, LastChunkOk
    <2>8. CASE ChunkSize
      BY <2>1, <2>8, ChunkSizeOk
    <2>9. CASE ReadChunk
      BY <2>1, <2>9, ReadChunkOk
    <2>10. CASE WriteChunkFails
      BY <2>1, <2>10, PcOk DEF WriteChunkFails, FailedWrite, Returns
    <2> QED BY <2>1, <2>2, <2>3, <2>4, <2>5, <2>6, <2>7, <2>8, <2>9, <2>10 DEF Reading
  <1>6. CASE UNCHANGED vars
    <2>1. UNCHANGED <<request, arrived, buffer, contentLength, contentTotalLength, written,
                      complete, verdict, watched, cgiOpen, pc>>
      BY <1>6 DEF vars, reader
    <2>2. Position' /\ Length' /\ Understood' /\ Passed' /\ WithinLimit' /\ Saved' /\ RefusedForCause'
      BY <2>1, Kept
    <2>3. TypeOK'
      BY <2>1 DEF IInv, TypeOK, request
    <2>4. UNCHANGED pos
      BY <2>1 DEF pos
    <2>5. Untouched' /\ Phases'
      BY <2>1, <2>4 DEF IInv, Untouched, Phases, Open, request
    <2> QED BY <2>2, <2>3, <2>5 DEF IInv
  <1> QED BY <1>1, <1>2, <1>3, <1>4, <1>5, <1>6 DEF Next

LEMMA Invariant == Spec => []IInv
  <1>1. Init => IInv
    BY InitOk
  <1>2. IInv /\ [Next]_vars => IInv'
    BY NextOk
  <1> QED BY <1>1, <1>2, PTL DEF Spec

-----------------------------------------------------------------------------
(* What the invariant promises. *)

(* The variables keep their types: no length leaves an int32_t, and only a *)
(* byte of the body or the one behind the buffer is ever handed on.        *)
THEOREM BodyTypeCorrect == Spec => []TypeOK
  <1>1. IInv => TypeOK
    BY DEF IInv
  <1> QED BY <1>1, Invariant, PTL

(* _writeChunk to a CGI: its own bytes, in order and each once, for every  *)
(* body and however it comes in fragments; all of it once it is saved.     *)
THEOREM BodyReachesCgi == Spec => []CgiGetsBody
  <1>1. ASSUME IInv PROVE CgiGetsBody
    <2> SUFFICES ASSUME dest = "cgi", verdict \in {"none", "saved"}
                 PROVE  /\ StartsWith(meaning.data, written)
                        /\ verdict = "saved" => written = meaning.data
      BY DEF CgiGetsBody
    <2>1. TypeOK /\ Position /\ written \in Seq(Byte \cup {Garbage})
      BY <1>1 DEF IInv, TypeOK
    <2>2. meaning.data \in Seq(Byte)
      <3>1. req.bytes \in Seq(Byte) /\ Len(req.bytes) \in Nat /\ req.length \in -2 .. IntMax /\ req.chunked \in BOOLEAN
        BY <2>1, Body
      <3>2. CASE req.chunked
        <4>1. 1 \in 1 .. Len(req.bytes) + 1
          BY <3>1
        <4>2. Chunks(req.bytes)[1] \in Meant /\ meaning = Chunks(req.bytes)[1]
          BY <2>1, <3>1, <3>2, <4>1, ChunksTotal DEF Position, Meaning
        <4> QED BY <4>2 DEF Meant
      <3>3. CASE ~req.chunked
        <4>1. meaning.data = First(req.bytes, req.length)
          BY <2>1, <3>3 DEF Position, Meaning
        <4>2. CASE req.length >= 0
          BY <3>1, <4>1, <4>2, Constants, FirstIs
        <4>3. CASE req.length < 0
          <5>1. First(req.bytes, req.length) = SubSeq(req.bytes, 1, req.length)
            BY <3>1, <4>3, Constants DEF First
          <5>2. req.length \in Int /\ req.length < 1
            BY <3>1, <4>3, Constants
          <5>3. SubSeq(req.bytes, 1, req.length) = <<>>
            BY <5>2, SubSeqEmpty
          <5> QED BY <4>1, <5>1, <5>3, Literals
        <4> QED BY <3>1, <4>2, <4>3, Constants
      <3> QED BY <3>1, <3>2, <3>3
    <2>3. CASE verdict = "saved"
      <3>1. written = meaning.data
        BY <1>1, <2>3 DEF IInv, Saved
      <3>2. <<>> \in Seq(Byte) /\ written \o <<>> = written
        BY <2>1, Literals, ConcatEmptySeq
      <3>3. StartsWith(written \o <<>>, written)
        BY <2>1, <3>2, HandedOn
      <3> QED BY <3>1, <3>2, <3>3
    <2>4. CASE verdict = "none" /\ pc = "headers"
      <3>1. written = <<>>
        BY <1>1, <2>4 DEF IInv, Untouched
      <3>2. StartsWith(meaning.data, <<>>)
        <4> DEFINE v == meaning.data
        <4>1. v \in Seq(Byte) /\ <<>> \in Seq(Byte) /\ Len(<<>>) = 0 /\ 0 <= Len(v)
          BY <2>2, Literals
        <4>2. \A i \in 1 .. Len(<<>>) : v[i] = <<>>[i]
          BY <4>1
        <4> HIDE DEF v
        <4>3. StartsWith(v, <<>>)
          BY <4>1, <4>2, StartsWithIff
        <4> QED BY <4>3 DEF v
      <3> QED BY <2>4, <3>1, <3>2
    <2>5. CASE verdict = "none" /\ pc # "headers"
      <3>1. meaning.data = written \o DataTodo
        BY <1>1, <2>5 DEF IInv, Passed, Open
      <3>2. DataTodo \in Seq(Byte)
        <4>1. /\ req.bytes \in Seq(Byte) /\ pos \in 0 .. Len(req.bytes) /\ pos \in Nat
              /\ req.chunked \in BOOLEAN /\ contentLength \in -2 .. IntMax
          BY <2>1, Body DEF TypeOK
        <4>2. CASE req.chunked
          <5>1. contentLength \in Int /\ contentLength >= SizeDue
            BY <1>1, <2>5, <4>1, <4>2, Constants DEF IInv, Phases, Open
          <5> QED BY <4>1, <4>2, <5>1, TodoAtIs DEF DataTodo, Todo
        <4>3. CASE ~req.chunked
          <5>1. contentLength \in Nat
            BY <1>1, <2>5, <4>1, <4>3, Constants DEF IInv, Phases, Open
          <5>2. Erased(req.bytes, pos) \in Seq(Byte)
            BY <4>1, ErasedIs
          <5> QED BY <4>3, <5>1, <5>2, FirstIs DEF DataTodo
        <4> QED BY <4>1, <4>2, <4>3
      <3> QED BY <2>1, <2>5, <3>1, <3>2, HandedOn
    <2> QED BY <2>3, <2>4, <2>5
  <1> QED BY <1>1, Invariant, PTL

(* An upload that came whole with its head is stored as it was sent, the   *)
(* one case in which _writeChunk may take _contentLength for its argument. *)
THEOREM UploadStaysWhole == Spec => []UploadInOnePiece
  <1>1. IInv => UploadInOnePiece
    BY DEF IInv, Saved, UploadInOnePiece
  <1> QED BY <1>1, Invariant, PTL

(* 400 only for a body that does not end as it must, 413 only for one that *)
(* announces more than the limit, in whatever fragments they come.         *)
THEOREM RefusalHasCause == Spec => []RefusedForCause
  <1>1. IInv => RefusedForCause
    BY DEF IInv
  <1> QED BY <1>1, Invariant, PTL

(* client_max_body_size bounds what a CGI is given, over any number of     *)
(* chunks, while twice the limit is an int32_t.                            *)
THEOREM LimitIsKept == Spec => []LimitKept
  <1>1. ASSUME IInv PROVE LimitKept
    <2> SUFFICES ASSUME dest = "cgi", verdict \in {"none", "saved"}, written # <<>>, 2 * limit <= IntMax
                 PROVE  Len(written) <= limit
      BY DEF LimitKept
    <2>1. /\ written \in Seq(Byte \cup {Garbage}) /\ contentLength \in -2 .. IntMax
          /\ contentTotalLength \in -(IntMax + 1) .. IntMax /\ IntMax \in Nat
          /\ limit \in -(IntMax + 1) .. IntMax /\ req.chunked \in BOOLEAN
      BY <1>1, Constants, Body DEF IInv, TypeOK
    <2>2. Len(written) \in Nat /\ Len(written) # 0
      BY <2>1
    <2>3. CASE verdict = "saved"
      BY <1>1, <2>3 DEF IInv, Saved
    <2>4. CASE verdict = "none"
      <3>1. Open
        BY <1>1, <2>4 DEF IInv, Untouched, Open
      <3>2. CASE req.chunked
        <4>1. Len(written) + Left <= contentTotalLength /\ (contentTotalLength <= limit \/ contentTotalLength = 0)
          BY <1>1, <3>1, <3>2 DEF IInv, WithinLimit
        <4>2. Left \in Nat
          <5>1. contentLength >= SizeDue
            BY <1>1, <3>1, <3>2 DEF IInv, Phases
          <5> QED BY <2>1, <5>1 DEF Left, SizeDue
        <4> QED BY <2>1, <2>2, <4>1, <4>2
      <3>3. CASE ~req.chunked
        <4>1. Len(written) + contentLength = req.length /\ req.length <= limit /\ contentLength > 0
          BY <1>1, <3>1, <3>3 DEF IInv, WithinLimit, Phases
        <4>2. req.length \in Int
          BY <2>1, <2>2, <4>1
        <4> QED BY <2>1, <2>2, <4>1, <4>2
      <3> QED BY <2>1, <3>2, <3>3
    <2> QED BY <2>3, <2>4
  <1> QED BY <1>1, Invariant, PTL
===============================================================================
