------------------------- MODULE ConnectionRefinement -------------------------
(***************************************************************************)
(* Connection implements HttpExchange, for bodies, files and sends of any  *)
(* size, any timeouts, error pages and requests: whatever handlers, CGI    *)
(* and timers do, the peer sees one response that comes head first and is  *)
(* whole when the server ends the connection, until it is replaced.        *)
(***************************************************************************)
EXTENDS ConnectionProofs

(* A page that was opened and is not through belongs to an error, so that  *)
(* handleOut reads it and nothing else.                                    *)
PageDue(x) == x.opened /\ "workOut" \notin x.st => x.status \in Error

RInv == IInv /\ (life = "open" /\ ~Diverged => PageDue(ctx))

(* A response that has been opened, or whose peer has seen some of it, can *)
(* be written.                                                             *)
LEMMA OpenedWrites ==
  ASSUME NEW x, Stable(x), x.opened
  PROVE  HeadRead(x) /\ Servable(x) /\ "canWrite" \in x.st /\ "workIn" \in x.st
  <1>1. HeadRead(x)
    BY UnreadIs DEF Blank
  <1>2. Servable(x) /\ "canWrite" \in x.st
    BY <1>1 DEF Stable, Servable, Prepared, Unanswered
  <1> QED BY <1>1, <1>2 DEF Servable

-----------------------------------------------------------------------------
(* The steps of HttpExchange. *)

LEMMA PhaseIs ==
  ASSUME IInv
  PROVE  /\ life = "open" /\ ~Diverged => Phase = IF got.head THEN "head" ELSE "waiting"
         /\ life = "done" => Phase = "ended"
         /\ life \in {"lost", "expired", "thrown"} => Phase = "cut"
  BY DEF IInv, WellFormed, Phase

(* While nothing new reaches the peer: the response is replaced, cut, or   *)
(* as it was.                                                              *)
LEMMA Unheard ==
  ASSUME IInv, IInv', life = "open", got' = got, life' \in {"open", "lost", "expired", "thrown"},
         Diverged => Diverged', Diverged' => Diverged \/ life' = "open",
         AnnouncedLength' = AnnouncedLength
  PROVE  [Exchange!Next]_(Exchange!vars)
  <1>1. CASE Diverged
    BY <1>1 DEF Exchange!Next, Exchange!AfterReplacing
  <1>2. CASE ~Diverged
    <2>1. Phase \in {"waiting", "head"} /\ (life' = "open" /\ ~Diverged' => Phase' = Phase)
          /\ (life' # "open" => Phase' = "cut")
      <3>1. Phase = (IF got.head THEN "head" ELSE "waiting") /\ ~got.bad
        BY <1>2, PhaseIs DEF IInv, WellFormed
      <3>2. life' = "open" => Phase' = (IF got.head THEN "head" ELSE "waiting")
        BY <3>1 DEF Phase
      <3>3. life' # "open" => Phase' = "cut"
        BY DEF Phase
      <3> QED BY <3>1, <3>2, <3>3
    <2>2. life' = "open" => Phase' = Phase
      BY <1>2, <2>1, PhaseIs DEF Phase, IInv, WellFormed
    <2>3. Diverged' \in BOOLEAN /\ Diverged \in BOOLEAN
      BY DEF IInv, TypeOK, Diverged, PageDiverges
    <2>4. CASE life' = "open" /\ Diverged'
      BY <1>2, <2>1, <2>2, <2>4 DEF Exchange!Next, Exchange!Replace
    <2>5. CASE life' = "open" /\ ~Diverged'
      BY <1>2, <2>2, <2>3, <2>5 DEF Exchange!vars
    <2>6. CASE life' # "open"
      BY <1>2, <2>1, <2>3, <2>6 DEF Exchange!Next, Exchange!Cut
    <2> QED BY <2>4, <2>5, <2>6
  <1> QED BY <1>1, <1>2

(* What a step is to a peer that hears nothing of it.                      *)
Heard == /\ got' = got /\ life' \in {"open", "lost", "expired", "thrown"}
         /\ Diverged => Diverged'
         /\ Diverged' => Diverged \/ life' = "open"
         /\ AnnouncedLength' = AnnouncedLength
         /\ life' = "open" /\ ~Diverged' => PageDue(ctx')

LEMMA HeardStep ==
  ASSUME RInv, IInv', life = "open", Heard
  PROVE  [Exchange!Next]_(Exchange!vars) /\ RInv'
  BY Unheard DEF Heard, RInv

-----------------------------------------------------------------------------
(* handleIn on the client socket. *)

(* Serve opens a page only for an error.                                   *)
LEMMA ServesPage ==
  ASSUME NEW x, Servable(x), NEW r \in Serve(x), r.ret = "continue"
  PROVE  x.opened \/ PageDue(r.x)
  <1>1. ASSUME NEW y, y \in Context, ~y.opened PROVE PageDue(Respond(y).x)
    <2> DEFINE w == Respond(y).x
    <2>1. /\ w.status = y.status
          /\ \/ y.status \in Error
             \/ RespondsWith(y, w, y.st, y.page, y.opened, y.body, y.length)
      BY <1>1, RespondIs
    <2> HIDE DEF w
    <2>2. CASE y.status \in Error
      BY <2>1, <2>2 DEF PageDue, w
    <2>3. CASE RespondsWith(y, w, y.st, y.page, y.opened, y.body, y.length)
      BY <1>1, <2>3 DEF RespondsWith, PageDue, w
    <2> QED BY <2>1, <2>2, <2>3
  <1>2. CASE "workIn" \in x.st
    BY <1>1, <1>2 DEF Serve, Servable
  <1>3. CASE "workIn" \notin x.st
    <2> DEFINE u == [x EXCEPT !.age["body"] = 0]
    <2>1. x.method \in {"POST", "PUT"} /\ "canWrite" \notin x.st /\ Prepared(x) /\ x \in Context
      BY <1>3, BodyPending DEF Servable
    <2>2. Alike(x, u)
      <3>1. u = [x EXCEPT !.age = [x.age EXCEPT !["body"] = 0]]
        OBVIOUS
      <3>2. x.age \in [Timer -> 0 .. Off] /\ 0 \in 0 .. Off
        BY <2>1, Numbers DEF Context, Off
      <3> QED BY <2>1, <3>1, <3>2, AgeIs DEF Alike
    <2> HIDE DEF u
    <2>3. Servable(u) /\ "workIn" \notin u.st /\ u.method = x.method /\ ~u.opened
      BY <1>3, <2>1, <2>2, AlikeServable DEF Alike, SameRequest, SameAnswer, Prepared, Unanswered
    <2>4. PICK s \in ReadBody(u) : r = IF s.ret = "done" THEN Respond(s.x) ELSE s
      BY <1>3, <2>1, <2>3 DEF Serve, WorkIn, u
    <2>5. s.x \in Context /\ ~s.x.opened
      BY <2>3, <2>4, BodyHandled DEF BodyApart
    <2> QED BY <1>1, <2>4, <2>5 DEF PageDue
  <1> QED BY <1>2, <1>3

LEMMA HandleSocketInHeard ==
  ASSUME RInv, HandleSocketIn
  PROVE  Heard
  <1>1. PICK r \in IF Read \subseteq ctx.st THEN ReadMore(ctx) ELSE ReadHead(ctx) :
          /\ ctx' = r.x /\ life' = Ended(r.ret)
          /\ rebuilt' = (rebuilt \/ /\ "canWrite" \in ctx.st /\ r.ret = "continue"
                                    /\ "cgiIn" \in r.x.st \/ ctx.opened)
    BY DEF HandleSocketIn
  <1>2. /\ life = "open" /\ got' = got /\ IInv /\ Stable(ctx)
        /\ "canWrite" \notin ctx.st => Pristine(got) /\ ~rebuilt
    BY DEF HandleSocketIn, IInv, RInv
  <1>3. ~HeadRead(ctx) => /\ got.length = Unknown /\ ~rebuilt /\ ~ctx.opened /\ "canWrite" \notin ctx.st
                          /\ ctx \in Context
    BY <1>2, UnreadIs DEF Pristine, Blank
  <1>4. CASE ~HeadRead(ctx) /\ r \in {Result("continue", ctx), Result("continue", Set(ctx, {"line"}))}
    <2>1. r.ret = "continue" /\ (ctx' = ctx \/ ctx' = Set(ctx, {"line"}))
      BY <1>1, <1>4, ResultIs
    <2>2. ~ctx'.opened
      BY <1>3, <1>4, <2>1, SetIs, FlagSets DEF SameAnswer
    <2>3. life' = "open"
      BY <1>1, <2>1 DEF Ended
    <2>4. AnnouncedLength' = Unknown /\ AnnouncedLength = Unknown
      BY <1>2, <1>3, <1>4 DEF AnnouncedLength
    <2>5. ~PageUnsent(ctx) /\ ~rebuilt
      BY <1>3, <1>4 DEF PageUnsent
    <2> QED BY <1>2, <2>2, <2>3, <2>4, <2>5, NotDiverged DEF Heard, PageDue
  <1>5. CASE \E u : Offered(ctx, u, got) /\ r \in Serve(u) /\ (HeadRead(ctx) => u.method = ctx.method)
    <2>1. PICK u : Offered(ctx, u, got) /\ r \in Serve(u) /\ (HeadRead(ctx) => u.method = ctx.method)
      BY <1>5
    <2>2. Servable(u) /\ ("canWrite" \notin u.st => Pristine(got)) /\ got.len \in Nat
      BY <1>2, <2>1, GotNumbers DEF Offered, IInv
    <2>3. Serves(u, r, got)
      BY <2>1, <2>2, ServeSound
    <2>4. /\ r.ret \in {"continue", "error", "throw"} /\ ctx'.method = u.method
          /\ ctx.opened => ctx'.opened
          /\ r.ret # "continue" => "canWrite" \notin ctx.st /\ ~ctx'.opened
      BY <1>1, <2>1, <2>3 DEF Serves, Offered
    <2>5. life' \in {"open", "lost", "thrown"} /\ (life' = "open" <=> r.ret = "continue")
      BY <1>1, <2>4 DEF Ended
    <2>6. AnnouncedLength' = AnnouncedLength
      BY <1>2, <1>3, <2>1, <2>4 DEF AnnouncedLength
    <2>7. Diverged => Diverged'
      <3>1. CASE rebuilt
        BY <1>1, <3>1 DEF Diverged
      <3>2. CASE PageUnsent(ctx)
        <4>1. ctx.opened /\ "canWrite" \in ctx.st
          BY <1>2, <3>2, OpenedWrites DEF PageUnsent
        <4>2. rebuilt'
          BY <1>1, <2>4, <4>1
        <4> QED BY <4>2 DEF Diverged
      <3> QED BY <3>1, <3>2, NotDiverged
    <2>8. Diverged' => Diverged \/ life' = "open"
      <3> SUFFICES ASSUME ~Diverged, r.ret # "continue" PROVE ~Diverged'
        BY <2>5
      <3>1. ~rebuilt' /\ ~PageUnsent(ctx')
        BY <1>1, <2>4, NotDiverged DEF PageUnsent
      <3> QED BY <3>1, NotDivergedNext
    <2>9. ASSUME life' = "open", ~Diverged' PROVE PageDue(ctx')
      <3>1. r.ret = "continue" /\ ~rebuilt'
        BY <2>5, <2>9, NotDivergedNext
      <3>2. u.opened \/ PageDue(ctx')
        BY <1>1, <2>1, <2>2, <3>1, ServesPage
      <3>3. ASSUME u.opened PROVE FALSE
        <4>1. "canWrite" \in u.st
          BY <2>2, <3>3 DEF Servable, Prepared, Unanswered
        <4>2. "canWrite" \in ctx.st /\ ctx.opened
          BY <2>1, <3>3, <4>1 DEF Offered
        <4> QED BY <1>1, <3>1, <4>2
      <3> QED BY <3>2, <3>3
    <2> QED BY <1>2, <2>5, <2>6, <2>7, <2>8, <2>9 DEF Heard
  <1> QED BY <1>1, <1>2, <1>4, <1>5, SocketInIs

-----------------------------------------------------------------------------
(* The CGI socket. *)

(* What keeps request and page, and only adds flags, leaves what the peer  *)
(* knows as it is.                                                         *)
LEMMA AddsFlags ==
  ASSUME got' = got, life' = "open", rebuilt' = rebuilt, rebuilt \in BOOLEAN,
         ctx'.method = ctx.method, ctx'.opened = ctx.opened, ctx'.page = ctx.page, ctx.st \subseteq ctx'.st,
         ~Diverged => "workOut" \in ctx.st
  PROVE  Heard
  <1>1. PageUnsent(ctx) => PageUnsent(ctx')
    BY DEF PageUnsent
  <1>2. Diverged => Diverged'
    BY <1>1, NotDiverged, NotDivergedNext
  <1>3. AnnouncedLength' = AnnouncedLength
    BY DEF AnnouncedLength
  <1>4. ~Diverged' => PageDue(ctx')
    BY <1>2 DEF PageDue
  <1> QED BY <1>2, <1>3, <1>4 DEF Heard

LEMMA HandleCGIInHeard ==
  ASSUME RInv, HandleCGIIn
  PROVE  Heard
  <1>1. /\ life = "open" /\ "in" \in ctx.cgi /\ ctx.child /\ CgiStep(CGIIn(ctx)) /\ Stable(ctx)
        /\ TypeOK /\ (~Diverged => "workOut" \in ctx.st)
    BY DEF HandleCGIIn, RInv, IInv, Answering
  <1>2. HeadRead(ctx) /\ Servable(ctx)
    BY <1>1, CgiServable
  <1>3. ctx \in Context /\ Fits(ctx) /\ ctx.body = 0 /\ ctx.method \in {"GET", "POST"}
    BY <1>1, <1>2, CgiServable DEF Servable, Owned
  <1>4. PICK r \in CGIIn(ctx) : IF r.ret = "misuse" THEN life' = "misused" /\ UNCHANGED ctx
                                                    ELSE ctx' = r.x /\ UNCHANGED life
    BY <1>1 DEF CgiStep
  <1>5. UNCHANGED <<got, rebuilt>> /\ rebuilt \in BOOLEAN
    BY <1>1, GotNumbers DEF CgiStep
  <1>6. CASE "cgiIn" \in ctx.st
    <2>1. r = Result("continue", ctx)
      BY <1>3, <1>4, <1>6 DEF CGIIn
    <2>2. ctx' = ctx /\ life' = life
      BY <1>4, <2>1, ResultIs
    <2> QED BY <1>1, <1>5, <2>2, AddsFlags
  <1>7. CASE "cgiIn" \notin ctx.st
    <2>1. r \in ReadCGI(ctx)
      BY <1>3, <1>4, <1>7 DEF CGIIn
    <2>2. r.ret \in {"continue", "error"} /\ CgiRead(ctx, r.x)
      BY <1>3, <2>1, ReadCGIIs
    <2>3. CgiRead(ctx, ctx') /\ life' = life
      BY <1>4, <2>2
    <2>4. /\ ctx'.method = ctx.method /\ ctx'.opened = ctx.opened /\ ctx'.page = ctx.page
          /\ ctx.st \subseteq ctx'.st
      BY <2>3 DEF CgiRead, SameRequest
    <2> QED BY <1>1, <1>5, <2>3, <2>4, AddsFlags
  <1> QED BY <1>6, <1>7

LEMMA HandleCGIOutHeard ==
  ASSUME RInv, HandleCGIOut
  PROVE  Heard
  <1>1. /\ life = "open" /\ "out" \in ctx.cgi /\ CgiStep(CGIOut(ctx)) /\ Stable(ctx)
        /\ TypeOK /\ (~Diverged => Answering(ctx, got))
    BY DEF HandleCGIOut, RInv, IInv
  <1>2. HeadRead(ctx) /\ Servable(ctx) /\ ctx.script
    BY <1>1, CgiServable
  <1>3. ctx \in Context /\ ctx.method = "POST"
    BY <1>1, <1>2 DEF Servable, Owned
  <1>4. PICK r \in CGIOut(ctx) : IF r.ret = "misuse" THEN life' = "misused" /\ UNCHANGED ctx
                                                     ELSE ctx' = r.x /\ UNCHANGED life
    BY <1>1 DEF CgiStep
  <1>5. UNCHANGED <<got, rebuilt>> /\ rebuilt \in BOOLEAN
    BY <1>1, GotNumbers DEF CgiStep
  <1>6. BodyApart(ctx, r.x) /\ (BodyMore(ctx, r) \/ BodyThrough(ctx, r) \/ BodyKept(ctx, r))
    BY <1>3, <1>4, ReadBodyIs DEF CGIOut
  <1>7. ctx' = r.x /\ life' = life
    <2>1. r.ret # "misuse"
      BY <1>2, <1>6 DEF BodyMore, BodyThrough, BodyKept
    <2> QED BY <1>4, <2>1
  <1>8. ctx.st \subseteq ctx'.st
    BY <1>6, <1>7 DEF BodyMore, BodyThrough, BodyKept
  <1>9. ~Diverged => "workOut" \in ctx.st
    BY <1>1, <1>2, <1>3 DEF Answering
  <1> QED BY <1>1, <1>5, <1>6, <1>7, <1>8, <1>9, AddsFlags DEF BodyApart

-----------------------------------------------------------------------------
(* timeoutCheck, time and the peer. *)

LEMMA TimesOutHeard ==
  ASSUME RInv, life = "open", NEW x \in Context, x.method = ctx.method,
         NEW status \in {"408", "504"}, NEW flags \in SUBSET Flag, NEW c,
         TimesOut(TimeoutAnswer(x, status, flags), c)
  PROVE  Heard
  <1>1. /\ life' = "open" /\ got' = got /\ rebuilt' = (rebuilt \/ "canWrite" \in ctx.st)
        /\ TimedOut(x, ctx', status, flags) /\ Stable(ctx)
    BY TimeoutAnswerIs DEF TimesOut, RInv, IInv
  <1>2. ctx'.method = ctx.method /\ ctx'.status \in Error
    BY <1>1, FlagSets DEF TimedOut, SameRequest
  <1>3. Diverged => Diverged'
    <2>1. PageUnsent(ctx) => "canWrite" \in ctx.st
      BY <1>1, OpenedWrites DEF PageUnsent
    <2> QED BY <1>1, <2>1, NotDiverged, NotDivergedNext
  <1> QED BY <1>1, <1>2, <1>3 DEF Heard, PageDue, AnnouncedLength

LEMMA TimeoutCheckHeard ==
  ASSUME RInv, TimeoutCheck
  PROVE  Heard
  <1>1. life = "open" /\ ctx \in Context /\ got' = got
    BY DEF TimeoutCheck, TimesOut, RInv, IInv, TypeOK
  <1>2. CASE \E flags \in {ReadAll, {}}, c \in {"late", "notLate"} :
               TimesOut(TimeoutAnswer(ctx, "408", flags), c)
    <2>1. ReadAll \in SUBSET Flag /\ {} \in SUBSET Flag
      BY FlagSets
    <2> QED BY <1>1, <1>2, <2>1, TimesOutHeard
  <1>3. CASE life' = "expired" /\ UNCHANGED <<ctx, got, rebuilt>>
    BY <1>3, NotDiverged, NotDivergedNext DEF Heard, AnnouncedLength
  <1>4. CASE \E c \in {"late", "noUpstream"} : TimesOut(TimeoutAnswer(Cleared(ctx), "504", {}), c)
    <2> DEFINE u == [ctx EXCEPT !.status = "none"]
               v == [u EXCEPT !.length = Unknown]
    <2>1. Cleared(ctx) = [v EXCEPT !.body = 0]
      BY DEF Cleared
    <2>2. u \in Context /\ u.method = ctx.method
      BY <1>1 DEF Context, Status
    <2> HIDE DEF u
    <2>3. v \in Context /\ v.method = ctx.method
      BY <2>2 DEF Context
    <2> HIDE DEF v
    <2>4. Cleared(ctx) \in Context /\ Cleared(ctx).method = ctx.method
      <3>1. 0 \in 0 .. 1
        OBVIOUS
      <3> QED BY <2>1, <2>3, <3>1 DEF Context
    <2> QED BY <1>1, <1>4, <2>4, TimesOutHeard
  <1> QED BY <1>2, <1>3, <1>4 DEF TimeoutCheck

LEMMA TickHeard ==
  ASSUME RInv, Tick
  PROVE  Heard
  <1>1. /\ life' = "open" /\ UNCHANGED <<got, rebuilt>> /\ life = "open"
        /\ \E a : ctx' = [ctx EXCEPT !.age = a]
    BY DEF Tick
  <1>2. /\ ctx'.opened = ctx.opened /\ ctx'.st = ctx.st /\ ctx'.status = ctx.status
        /\ ctx'.method = ctx.method /\ ctx'.page = ctx.page
    BY <1>1 DEF RInv, IInv, TypeOK, Context
  <1>3. PageUnsent(ctx') = PageUnsent(ctx) /\ PageDue(ctx') = PageDue(ctx)
    BY <1>2 DEF PageUnsent, PageDue
  <1> QED BY <1>1, <1>2, <1>3, NotDiverged, NotDivergedNext DEF Heard, AnnouncedLength, RInv

LEMMA PeerHeard ==
  ASSUME RInv, PeerLost \/ PeerCloses
  PROVE  Heard
  <1>1. UNCHANGED <<ctx, got, rebuilt>> /\ life = "open" /\ life' \in {"open", "lost"}
    BY DEF PeerLost, PeerCloses
  <1> QED BY <1>1, NotDiverged, NotDivergedNext DEF Heard, AnnouncedLength, RInv

-----------------------------------------------------------------------------
(* handleOut on the client socket. *)

(* A page that is due is read until it is through.                         *)
LEMMA ProducePage ==
  ASSUME NEW x \in Context, PageDue(x), NEW r \in Produce(x), Produces(x, r)
  PROVE  PageDue(r.x) /\ (~PageUnsent(x) => ~PageUnsent(r.x))
  <1>1. r.x.opened = x.opened /\ r.x.method = x.method
    BY DEF Produces, Moved, SameRequest
  <1>2. CASE ~x.opened
    BY <1>1, <1>2 DEF PageDue, PageUnsent
  <1>3. CASE "workOut" \in x.st
    BY <1>3 DEF Produces
  <1>4. CASE x.opened /\ "workOut" \notin x.st
    <2>1. x.status \in Error /\ r = Result("continue", ReadErrorPage(x))
      BY <1>4 DEF PageDue, Produce
    <2>2. r.x = ReadErrorPage(x)
      BY <2>1, ResultIs
    <2>3. r.x.page = 0 /\ r.x.status = x.status
      <3>1. CASE x.page = 0
        BY <2>2, <3>1, SetIs, FlagSets DEF ReadErrorPage, SameAnswer
      <3>2. CASE x.page # 0
        BY <2>2, <3>2 DEF ReadErrorPage, Appended, Context
      <3> QED BY <3>1, <3>2
    <2> QED BY <1>1, <1>4, <2>1, <2>3 DEF PageDue, PageUnsent
  <1> QED BY <1>2, <1>3, <1>4

(* What is sent, and what the peer has then.                               *)
LEMMA SocketOutIs ==
  ASSUME IInv, HandleSocketOut
  PROVE  \E r \in Produce(ctx) :
           LET b == r.x.out
               rest == Sent(b, Lesser(SendMax, Size(b)))
           IN /\ Produces(ctx, r)
              /\ Answering(ctx, got) /\ LengthSound(ctx, got) => Answering(r.x, got)
              /\ ctx'.method = r.x.method /\ ctx'.opened = r.x.opened /\ ctx'.page = r.x.page
              /\ ctx'.status = r.x.status /\ ctx'.st = r.x.st
              /\ Parted(b, rest, got') /\ b.head \in BOOLEAN /\ b.len \in Nat
              /\ life' = IF AllSent(r.x, rest) THEN "done" ELSE "open"
  <1>1. TypeOK /\ "canWrite" \in ctx.st /\ Stable(ctx) /\ HeadRead(ctx) /\ Servable(ctx)
    BY UnreadIs DEF HandleSocketOut, IInv, Stable
  <1>2. PICK r \in Produce(ctx) :
          LET b == r.x.out
              n == Lesser(SendMax, Size(b))
          IN IF r.ret = "misuse"
               THEN life' = "misused" /\ UNCHANGED <<ctx, got>>
               ELSE /\ ctx' = [r.x EXCEPT !.out = Sent(b, n), !.age["send"] = IF n > 0 THEN 0 ELSE @]
                    /\ got' = Delivered(b, n)
                    /\ life' = IF AllSent(r.x, Sent(b, n)) THEN "done" ELSE "open"
    BY DEF HandleSocketOut, Sent
  <1> DEFINE y == r.x
             b == y.out
             n == Lesser(SendMax, Size(b))
             rest == Sent(b, n)
  <1>3. Produces(ctx, r)
    BY <1>1, ProduceIs
  <1>4. y \in Context /\ r.ret # "misuse"
    BY <1>3 DEF Produces, Moved
  <1>5. /\ ctx' = [y EXCEPT !.out = rest, !.age["send"] = IF n > 0 THEN 0 ELSE @]
        /\ got' = Delivered(b, n)
        /\ life' = IF AllSent(y, rest) THEN "done" ELSE "open"
    BY <1>2, <1>4
  <1>6. b \in Buffer /\ b.head \in BOOLEAN /\ b.len \in Nat
    BY <1>4, ContextNumbers
  <1>7. Parted(b, rest, got')
    BY <1>1, <1>5, <1>6, SentIs
  <1>8. Answering(ctx, got) /\ LengthSound(ctx, got) => Answering(y, got)
    BY <1>1, <1>3, GotNumbers, ProducedAnswers
  <1> HIDE DEF y, b, n, rest
  <1>9. /\ ctx'.method = y.method /\ ctx'.opened = y.opened /\ ctx'.page = y.page
        /\ ctx'.status = y.status /\ ctx'.st = y.st
    BY <1>4, <1>5 DEF Context
  <1> QED BY <1>3, <1>5, <1>6, <1>7, <1>8, <1>9 DEF y, b, n, rest

LEMMA HandleSocketOutStep ==
  ASSUME RInv, IInv', HandleSocketOut
  PROVE  [Exchange!Next]_(Exchange!vars) /\ RInv'
  <1>1. /\ IInv /\ TypeOK /\ life = "open" /\ "canWrite" \in ctx.st /\ Stable(ctx) /\ rebuilt' = rebuilt
        /\ ctx \in Context /\ HeadRead(ctx) /\ Servable(ctx)
    BY UnreadIs DEF HandleSocketOut, RInv, IInv, Stable
  <1>2. PICK r \in Produce(ctx) :
          LET b == r.x.out
              rest == Sent(b, Lesser(SendMax, Size(b)))
          IN /\ Produces(ctx, r)
             /\ Answering(ctx, got) /\ LengthSound(ctx, got) => Answering(r.x, got)
             /\ ctx'.method = r.x.method /\ ctx'.opened = r.x.opened /\ ctx'.page = r.x.page
             /\ ctx'.status = r.x.status /\ ctx'.st = r.x.st
             /\ Parted(b, rest, got') /\ b.head \in BOOLEAN /\ b.len \in Nat
             /\ life' = IF AllSent(r.x, rest) THEN "done" ELSE "open"
    BY <1>1, SocketOutIs
  <1> DEFINE b == r.x.out
  <1>3. PICK m \in Nat :
           /\ got'.bad <=> \/ got.bad
                           \/ b.head /\ (got.head \/ got.len > 0)
                           \/ ~b.head /\ m > 0 /\ ~got.head
           /\ m <= b.len
           /\ ~got'.bad => /\ got'.head <=> got.head \/ b.head
                           /\ got'.len = got.len + m
                           /\ got'.length = IF b.head THEN b.length ELSE got.length
    BY <1>2 DEF Parted
  <1>4. /\ PageUnsent(ctx') = PageUnsent(r.x) /\ PageDue(ctx') = PageDue(r.x)
        /\ ctx'.method = ctx.method /\ life' \in {"open", "done"}
    BY <1>2 DEF PageUnsent, PageDue, Produces, Moved, SameRequest
  <1>5. CASE Diverged
    <2>1. PageUnsent(ctx) => PageUnsent(r.x)
      BY <1>1, <1>2, ProducedServable
    <2>2. Diverged'
      BY <1>1, <1>4, <1>5, <2>1, NotDiverged, NotDivergedNext
    <2> QED BY <1>5, <2>2 DEF Exchange!Next, Exchange!AfterReplacing, RInv
  <1>6. CASE ~Diverged
    <2>1. PageDue(ctx) /\ ~PageUnsent(ctx) /\ Answering(r.x, got) /\ ~rebuilt
      BY <1>1, <1>2, <1>6, NotDiverged DEF RInv, IInv
    <2>2. PageDue(ctx') /\ ~Diverged'
      BY <1>1, <1>2, <1>4, <2>1, ProducePage, NotDivergedNext
    <2>3. /\ ~got.bad /\ (b.head => ~got.head /\ got.len = 0) /\ (~b.head /\ b.len > 0 => got.head)
      BY <2>1 DEF Answering
    <2>4. /\ got.len \in Nat /\ got.head \in BOOLEAN /\ got'.len \in Nat /\ got'.len <= MaxUnits
          /\ got'.length \in Units \cup {Unknown}
      BY <1>1, Numbers DEF TypeOK, IInv
    <2>5. ~got'.bad
      BY <1>2, <1>3, <2>3, <2>4
    <2>6. /\ got'.head <=> got.head \/ b.head
          /\ got'.len = got.len + m
          /\ got'.length = IF b.head THEN b.length ELSE got.length
      BY <1>3, <2>5
    <2>7. m \in 0 .. MaxFile + SendMax + 1
      BY <2>4, <2>6, Numbers DEF MaxUnits
    <2>8. Phase = IF got.head THEN "head" ELSE "waiting"
      BY <1>1, <1>6, PhaseIs
    <2>9. Phase' = IF life' = "done" THEN "ended" ELSE IF got'.head THEN "head" ELSE "waiting"
      BY <1>4, <2>5 DEF Phase
    <2>10. Exchange!Complete
      BY <1>4, <2>2, <2>9 DEF Exchange!Complete, AnnouncedLength, IInv, LengthKept
    <2>11. Diverged' = Diverged
      BY <1>6, <2>2 DEF Diverged, PageDiverges
    <2>12. Exchange!Send(m)
      BY <2>6 DEF Exchange!Send
    <2>13. CASE b.head
      <3>1. Phase = "waiting" /\ Phase' \in {"head", "ended"}
        BY <2>3, <2>6, <2>8, <2>9, <2>13
      <3>2. AnnouncedLength' \in 0 .. MaxFile + SendMax + 1 \cup {Unknown}
        BY <2>4 DEF AnnouncedLength, Units
      <3>3. Exchange!SendHead
        BY <2>7, <2>12, <3>1, <3>2 DEF Exchange!SendHead
      <3> QED BY <2>2, <2>10, <2>11, <3>3 DEF Exchange!Next, RInv
    <2>14. CASE ~b.head /\ m > 0
      <3>1. got.head
        BY <1>2, <1>3, <2>3, <2>14
      <3>2. Phase = "head" /\ Phase' \in {"head", "ended"}
        BY <2>6, <2>8, <2>9, <3>1
      <3>3. AnnouncedLength' = AnnouncedLength
        BY <1>4, <2>6, <2>14 DEF AnnouncedLength
      <3>4. Exchange!SendBody
        BY <2>7, <2>12, <3>2, <3>3 DEF Exchange!SendBody
      <3> QED BY <2>2, <2>10, <2>11, <3>4 DEF Exchange!Next, RInv
    <2>15. CASE ~b.head /\ m = 0
      <3>1. got'.len = got.len /\ got'.length = got.length /\ got'.head = got.head
        <4>1. got'.head \in BOOLEAN
          BY DEF IInv, TypeOK
        <4> QED BY <2>4, <2>6, <2>15, <4>1
      <3>2. AnnouncedLength' = AnnouncedLength
        BY <1>4, <3>1 DEF AnnouncedLength
      <3>3. Phase' # Phase => Phase \in {"waiting", "head"} /\ Phase' = "ended"
        BY <2>8, <2>9, <3>1
      <3>4. CASE Phase' = "ended"
        <4>1. Exchange!End
          BY <2>8, <3>1, <3>2, <3>4 DEF Exchange!End
        <4> QED BY <2>2, <2>10, <2>11, <4>1 DEF Exchange!Next, RInv
      <3>5. CASE Phase' # "ended"
        BY <2>2, <2>11, <3>1, <3>2, <3>3, <3>5 DEF Exchange!vars, RInv
      <3> QED BY <3>4, <3>5
    <2> QED BY <1>2, <1>3, <2>13, <2>14, <2>15
  <1> QED BY <1>5, <1>6

-----------------------------------------------------------------------------
LEMMA InitImplements ==
  ASSUME Init
  PROVE  Exchange!Init /\ RInv
  <1>1. /\ ctx = Fresh /\ life = "open" /\ rebuilt = FALSE
        /\ got = [head |-> FALSE, len |-> 0, length |-> Unknown, bad |-> FALSE]
    BY DEF Init
  <1>2. ~ctx.opened
    BY <1>1 DEF Fresh
  <1>3. ~Diverged
    BY <1>1, <1>2 DEF Diverged, PageDiverges
  <1>4. Phase = "waiting" /\ AnnouncedLength = Unknown
    BY <1>1 DEF Phase, AnnouncedLength
  <1> QED BY <1>1, <1>2, <1>3, <1>4, InitInd DEF Exchange!Init, RInv, PageDue

LEMMA NextImplements ==
  ASSUME RInv, [Next]_vars
  PROVE  [Exchange!Next]_(Exchange!vars) /\ RInv'
  <1>1. IInv'
    BY NextInd DEF RInv
  <1>2. CASE HandleSocketIn \/ HandleCGIIn \/ HandleCGIOut \/ TimeoutCheck \/ Tick \/ PeerLost \/ PeerCloses
    <2>1. life = "open"
      BY <1>2 DEF HandleSocketIn, HandleCGIIn, HandleCGIOut, TimeoutCheck, Tick, PeerLost, PeerCloses
    <2>2. Heard
      BY <1>2, HandleSocketInHeard, HandleCGIInHeard, HandleCGIOutHeard, TimeoutCheckHeard, TickHeard,
         PeerHeard
    <2> QED BY <1>1, <2>1, <2>2, HeardStep
  <1>3. CASE HandleSocketOut
    BY <1>1, <1>3, HandleSocketOutStep
  <1>4. CASE UNCHANGED vars
    <2>1. Phase' = Phase /\ AnnouncedLength' = AnnouncedLength /\ Diverged' = Diverged
      BY <1>4 DEF vars, Phase, AnnouncedLength, Diverged, PageDiverges
    <2> QED BY <1>1, <1>4, <2>1 DEF vars, Exchange!vars, RInv
  <1> QED BY <1>2, <1>3, <1>4 DEF Next

(* Whatever the order of sockets, CGI and timers, a connection is one      *)
(* exchange to its peer: a head, then body, in full when the server ends   *)
(* the connection, until a response that could already be written is       *)
(* replaced or a configured page cannot be sent.                           *)
THEOREM ExchangeImplemented == Spec => ImplementsExchange
  <1>1. Init => Exchange!Init /\ RInv
    BY InitImplements
  <1>2. RInv /\ [Next]_vars => [Exchange!Next]_(Exchange!vars) /\ RInv'
    BY NextImplements
  <1> QED BY <1>1, <1>2, PTL DEF Spec, ImplementsExchange, Exchange!Spec
===============================================================================
