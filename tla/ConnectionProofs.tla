--------------------------- MODULE ConnectionProofs ---------------------------
(***************************************************************************)
(* Proofs about Connection, for bodies, files and reads of any size, any   *)
(* timeouts and error pages, and any of the requests: no handler reaches   *)
(* a method a request has not, a 408 blames a peer that owes something,    *)
(* and what the peer receives is one answer as long as announced.          *)
(***************************************************************************)
EXTENDS Connection, TLAPS

HeadRead(x) == Read \subseteq x.st

(* What is still to come of a configured page.                             *)
PageLeft(x) == IF x.opened THEN x.page ELSE SendMax

(* What has been read and what is to be read fits.                         *)
MaxUnits == MaxFile + SendMax + 1
Fits(x) ==
    /\ x.file <= MaxFile
    /\ ~x.opened => x.page = 0
    /\ x.out.len + x.file + PageLeft(x) <= MaxUnits
    /\ x.buf + x.due + x.extra <= MaxBody + Extra

(* The flags that its constructor and processing() gave each request, and  *)
(* what handlers and timers made of them.                                  *)
Owned(x) ==
    /\ x.method \in {"none", "GET", "HEAD", "DELETE"} => "workIn" \in x.st
    /\ x.method \in {"HEAD", "DELETE"} => "workOut" \in x.st \/ x.status \in Error
    /\ x.method = "PUT" => "workOut" \in x.st \/ (x.status \in Error /\ "workIn" \in x.st)
    /\ "cgiIn" \notin x.st => "workOut" \in x.st \/ (x.method = "none" /\ x.status \in Error)
    /\ "out" \in x.cgi => x.method = "POST"
    /\ "in" \in x.cgi => x.method \in {"GET", "POST"}
    /\ x.cgi # {} \/ x.child => x.script
    /\ x.child \/ (x.method = "POST" /\ x.script) => x.cgi # {} /\ "workIn" \in x.st

(* As long as the body of an upload is not through, the peer owes what is  *)
(* missing.                                                                *)
Owing(x) ==
    "workIn" \notin x.st /\ ~x.script =>
       /\ 0 < x.left /\ x.left <= x.buf + x.due
       /\ x.due > 0 => x.left = x.buf + x.due

(* Nothing has been built.                                                 *)
Unanswered(x) == x.out = Nothing /\ ~x.opened /\ "cgiHdr" \notin x.st

(* What the next units will be read from when the response is produced.    *)
Remaining(x) ==
    IF "workOut" \in x.st THEN 0
    ELSE IF x.status \in Error THEN x.page
    ELSE IF x.method = "GET" THEN x.file ELSE 0

(* A response that is not begun: its announced length, if any, is that of  *)
(* the body that will be sent.                                             *)
Prepared(x) ==
    /\ Unanswered(x)
    /\ x.body = 0 \/ (x.method = "GET" /\ "cgiIn" \in x.st /\ x.status \notin Error)
    /\ x.length # Unknown /\ x.status \notin Error /\ x.method # "HEAD" =>
         x.length = x.body + Remaining(x)
    /\ (x.method = "POST" /\ x.script) \/ x.child => "workOut" \in x.st
    /\ x.child => x.status \notin Error /\ "cgiIn" \notin x.st
    /\ x.method = "GET" /\ x.listing => x.length = Unknown

(* A request that Serve is called for: routed, answered or not.            *)
Servable(x) ==
    /\ x \in Context /\ HeadRead(x) /\ Fits(x) /\ Owned(x) /\ Owing(x)
    /\ "workIn" \notin x.st => x.status \notin Error /\ "canWrite" \notin x.st
    /\ "workIn" \in x.st /\ ~x.script /\ ~x.opened => "cgiOut" \in x.st \/ x.status \in Error
    /\ IF "canWrite" \in x.st THEN x.body = 0 ELSE Prepared(x)

(* Between two handlers. *)
Stable(x) ==
    /\ x \in Context
    /\ ~HeadRead(x) =>
         /\ x.st \subseteq {"line"} /\ x = [Fresh EXCEPT !.st = x.st, !.age = x.age]
         /\ x.age["body"] = Off
    /\ HeadRead(x) =>
         /\ Servable(x)
         /\ "workIn" \notin x.st /\ ~x.script => x.buf = 0
         /\ "workIn" \in x.st /\ ~x.script /\ ~x.opened => "cgiOut" \in x.st
         /\ "canWrite" \notin x.st =>
              x.method \in {"POST", "PUT"} /\ x.cgi = {} /\ (x.script => x.method = "PUT")

PageUnsent(x) == x.opened /\ (x.method = "none" \/ (x.page > 0 /\ "workOut" \in x.st))

(* Buffer and peer: one head, then body; and the announced length is what  *)
(* the peer has, what is in the buffer, and what will be read.             *)
Answering(x, g) ==
    /\ ~g.bad
    /\ x.out.head => ~g.head /\ g.len = 0
    /\ ~x.out.head /\ x.out.len > 0 => g.head
    /\ ~g.head => g.len = 0 /\ g.length = Unknown
    /\ "canWrite" \in x.st /\ ("workOut" \notin x.st \/ "cgiHdr" \in x.st) => x.out.head \/ g.head
    /\ x.child /\ {"cgiHdr", "cgiIn"} \cap x.st = {} => ~x.out.head /\ x.out.len = 0 /\ ~g.head
    /\ (x.method = "POST" /\ x.script) \/ x.child => "workOut" \in x.st
    /\ x.child \/ (x.method = "GET" /\ x.listing /\ x.status \notin Error) =>
         x.out.length = Unknown /\ g.length = Unknown

LengthSound(x, g) ==
    x.method # "HEAD" =>
       /\ x.out.head /\ x.out.length # Unknown => x.out.length = x.out.len + Remaining(x)
       /\ ~x.out.head /\ g.length # Unknown => g.length = g.len + x.out.len + Remaining(x)

(* What was delivered of a response and what is left of it fits.           *)
Sending(x, g) ==
    ~g.bad /\ ~x.out.head => g.len + x.out.len + x.file + PageLeft(x) <= MaxUnits

Pristine(g) == ~g.bad /\ ~g.head /\ g.len = 0 /\ g.length = Unknown

IInv ==
    /\ TypeOK
    /\ life = "open" =>
         /\ Stable(ctx) /\ Sending(ctx, got)
         /\ "canWrite" \notin ctx.st => Pristine(got) /\ ~rebuilt
         /\ ~Diverged => Answering(ctx, got) /\ LengthSound(ctx, got)
    /\ NoLogicError /\ LateUnlessCGI /\ WellFormed /\ LengthKept

-----------------------------------------------------------------------------
(* Operations on the context, field by field. *)

SameRequest(x, y) ==
    /\ y.method = x.method /\ y.script = x.script /\ y.cgi = x.cgi /\ y.child = x.child
    /\ y.chunked = x.chunked /\ y.left = x.left /\ y.buf = x.buf /\ y.due = x.due /\ y.extra = x.extra
    /\ y.listing = x.listing

SameAnswer(x, y) ==
    /\ y.status = x.status /\ y.length = x.length /\ y.body = x.body /\ y.out = x.out
    /\ y.file = x.file /\ y.page = x.page /\ y.opened = x.opened

LEMMA Numbers ==
  /\ SendMax \in Nat /\ SendMax > 0 /\ MaxBody \in Nat /\ MaxFile \in Nat /\ Extra \in Nat
  /\ MaxAge \in Nat /\ MaxAge > 0 /\ Unknown \notin Nat
  /\ MaxUnits \in Nat /\ Units = 0 .. MaxUnits
  BY ConnectionAssumption DEF MaxUnits, Units

(* The numbers in a context. *)
LEMMA ContextNumbers ==
  ASSUME NEW x \in Context
  PROVE  /\ x.body \in 0 .. 1 /\ x.file \in Nat /\ x.left \in Nat /\ x.buf \in Nat /\ x.page \in Nat
         /\ x.due \in Nat /\ x.extra \in Nat /\ x.page <= SendMax
         /\ x.out.len \in Nat /\ x.out \in Buffer /\ x.out.head \in BOOLEAN /\ x.opened \in BOOLEAN
         /\ x.script \in BOOLEAN /\ x.child \in BOOLEAN /\ x.chunked \in BOOLEAN /\ x.st \subseteq Flag
         /\ x.cgi \subseteq {"in", "out"} /\ x.left <= MaxBody
  BY Numbers DEF Context, Buffer, Units

LEMMA SetIs ==
  ASSUME NEW x \in Context, NEW F \in SUBSET Flag
  PROVE  /\ Set(x, F) \in Context /\ Set(x, F).st = x.st \cup F
         /\ SameRequest(x, Set(x, F)) /\ SameAnswer(x, Set(x, F)) /\ Set(x, F).age = x.age
         /\ Set(x, F).pages = x.pages
  BY DEF Context, Set, SameRequest, SameAnswer

LEMMA AgeIs ==
  ASSUME NEW x \in Context, NEW a \in [Timer -> 0 .. Off]
  PROVE  LET y == [x EXCEPT !.age = a]
         IN y \in Context /\ y.st = x.st /\ SameRequest(x, y) /\ SameAnswer(x, y) /\ y.age = a
            /\ y.pages = x.pages
  BY DEF Context, SameRequest, SameAnswer

LEMMA SwitchToWriteIs ==
  ASSUME NEW x \in Context
  PROVE  LET y == SwitchToWrite(x)
         IN y \in Context /\ y.st = x.st \cup {"canWrite"} /\ SameRequest(x, y) /\ SameAnswer(x, y)
            /\ y.pages = x.pages
  <1>1. {"canWrite"} \subseteq Flag /\ 0 \in 0 .. Off /\ "send" \in Timer
    BY Numbers DEF Flag, Off, Timer
  <1>2. Set(x, {"canWrite"}) \in Context
    BY <1>1, SetIs
  <1> QED BY <1>1, <1>2 DEF Context, SwitchToWrite, Set, SameRequest, SameAnswer

LEMMA BuiltIs ==
  ASSUME NEW x \in Context
  PROVE  LET y == Built(x)
         IN /\ y \in Context /\ y.st = x.st /\ SameRequest(x, y) /\ y.pages = x.pages
            /\ y.out = [head |-> TRUE, len |-> x.body, length |-> x.length] /\ y.body = 0
            /\ y.status = x.status /\ y.length = x.length /\ y.file = x.file /\ y.page = x.page
            /\ y.opened = x.opened
  <1> DEFINE b == [head |-> TRUE, len |-> x.body, length |-> x.length]
  <1>1. b \in Buffer /\ 0 \in 0 .. 1
    <2>1. x.body \in 0 .. 1 /\ x.length \in Units \cup {Unknown}
      BY DEF Context
    <2>2. x.body \in Units
      BY <2>1, Numbers DEF MaxUnits
    <2> QED BY <2>1, <2>2 DEF Buffer
  <1>2. Built(x) = [x EXCEPT !.out = b, !.body = 0]
    BY DEF Built
  <1> HIDE DEF b
  <1>3. [x EXCEPT !.out = b, !.body = 0] \in Context
    BY <1>1 DEF Context
  <1>4. LET y == [x EXCEPT !.out = b, !.body = 0]
        IN /\ y.st = x.st /\ SameRequest(x, y) /\ y.pages = x.pages /\ y.out = b /\ y.body = 0
           /\ y.status = x.status /\ y.length = x.length /\ y.file = x.file /\ y.page = x.page
           /\ y.opened = x.opened
    BY DEF Context, SameRequest
  <1> QED BY <1>2, <1>3, <1>4 DEF b

(* The page that answers an error: opened, or built in. *)
LEMMA LoadErrorPageIs ==
  ASSUME NEW x \in Context
  PROVE  LET y == LoadErrorPage(x)
         IN /\ y \in Context /\ SameRequest(x, y) /\ y.pages = x.pages
            /\ y.status = x.status /\ y.out = x.out /\ y.file = x.file
            /\ \/ /\ y.st = x.st /\ y.body = x.body /\ y.length = SendMax /\ y.opened
                  /\ y.page = IF x.opened THEN 0 ELSE SendMax
               \/ /\ y.st = x.st \cup Work /\ y.body = 1 /\ y.length = 1
                  /\ y.opened = x.opened /\ y.page = x.page
  <1>1. Work \subseteq Flag /\ SendMax \in Units /\ 1 \in Units /\ SendMax \in 0 .. SendMax
        /\ 0 \in 0 .. SendMax
    BY Numbers DEF Work, Flag, MaxUnits
  <1>2. CASE x.status \in x.pages
    BY <1>1, <1>2 DEF Context, LoadErrorPage, SameRequest
  <1>3. CASE x.status \notin x.pages
    <2> DEFINE z == Set(x, Work)
    <2>1. z \in Context /\ z.st = x.st \cup Work /\ SameRequest(x, z) /\ SameAnswer(x, z)
          /\ z.pages = x.pages
      BY <1>1, SetIs
    <2>2. LoadErrorPage(x) = [z EXCEPT !.body = 1, !.length = 1]
      BY <1>3 DEF LoadErrorPage
    <2>3. 1 \in 0 .. 1
      OBVIOUS
    <2> HIDE DEF z
    <2>4. [z EXCEPT !.body = 1, !.length = 1] \in Context
      BY <1>1, <2>1, <2>3 DEF Context
    <2>5. LET y == [z EXCEPT !.body = 1, !.length = 1]
          IN /\ y.st = z.st /\ SameRequest(z, y) /\ y.pages = z.pages /\ y.status = z.status
             /\ y.out = z.out /\ y.file = z.file /\ y.body = 1 /\ y.length = 1
             /\ y.opened = z.opened /\ y.page = z.page
      BY <2>1 DEF Context, SameRequest
    <2> QED BY <2>1, <2>2, <2>4, <2>5 DEF SameRequest, SameAnswer
  <1> QED BY <1>2, <1>3

-----------------------------------------------------------------------------
(* Respond: a page is opened, or built in, or there is nothing to add; and *)
(* the response is built when no CGI is to give its head.                  *)

RespondsWith(x, w, st, page, opened, body, length) ==
    /\ w.st = st \cup {"canWrite"} /\ w.page = page /\ w.opened = opened
    /\ IF "cgiIn" \in st
         THEN w.out = [head |-> TRUE, len |-> body, length |-> length] /\ w.body = 0
         ELSE w.out = x.out /\ w.body = body

LEMMA RespondIs ==
  ASSUME NEW x \in Context
  PROVE  LET w == Respond(x).x
         IN /\ Respond(x).ret = "continue"
            /\ w \in Context /\ SameRequest(x, w) /\ w.status = x.status /\ w.file = x.file
            /\ \/ /\ x.status \in Error
                  /\ \/ RespondsWith(x, w, x.st, IF x.opened THEN 0 ELSE SendMax, TRUE, x.body, SendMax)
                     \/ RespondsWith(x, w, x.st \cup Work, x.page, x.opened, 1, 1)
               \/ /\ x.status \notin Error
                  /\ RespondsWith(x, w, x.st, x.page, x.opened, x.body, x.length)
  <1> DEFINE y == IF x.status \in Error THEN LoadErrorPage(x) ELSE x
  <1> DEFINE z == IF "cgiIn" \in y.st THEN Built(y) ELSE y
  <1> DEFINE w == SwitchToWrite(z)
  <1>1. Respond(x) = [ret |-> "continue", x |-> w]
    BY DEF Respond, Result
  <1>2. /\ y \in Context /\ SameRequest(x, y) /\ y.status = x.status /\ y.out = x.out /\ y.file = x.file
        /\ \/ /\ x.status \in Error
              /\ \/ /\ y.st = x.st /\ y.body = x.body /\ y.length = SendMax /\ y.opened
                    /\ y.page = IF x.opened THEN 0 ELSE SendMax
                 \/ /\ y.st = x.st \cup Work /\ y.body = 1 /\ y.length = 1
                    /\ y.opened = x.opened /\ y.page = x.page
           \/ x.status \notin Error /\ y = x
    <2>1. CASE x.status \in Error
      BY <2>1, LoadErrorPageIs
    <2>2. CASE x.status \notin Error
      BY <2>2 DEF SameRequest
    <2> QED BY <2>1, <2>2
  <1>3. y.opened \in BOOLEAN
    BY <1>2, ContextNumbers
  <1> HIDE DEF y
  <1>4. /\ z \in Context /\ z.st = y.st /\ SameRequest(y, z) /\ z.status = y.status /\ z.file = y.file
        /\ z.page = y.page /\ z.opened = y.opened
        /\ IF "cgiIn" \in y.st
             THEN z.out = [head |-> TRUE, len |-> y.body, length |-> y.length] /\ z.body = 0
             ELSE z.out = y.out /\ z.body = y.body
    <2>1. CASE "cgiIn" \in y.st
      BY <1>2, <2>1, BuiltIs
    <2>2. CASE "cgiIn" \notin y.st
      BY <1>2, <2>2 DEF SameRequest
    <2> QED BY <2>1, <2>2
  <1> HIDE DEF z
  <1>5. /\ w \in Context /\ w.st = z.st \cup {"canWrite"} /\ SameRequest(z, w) /\ SameAnswer(z, w)
    BY <1>4, SwitchToWriteIs
  <1> HIDE DEF w
  <1>6. SameRequest(x, w)
    BY <1>2, <1>4, <1>5 DEF SameRequest
  <1>7. RespondsWith(x, w, y.st, y.page, y.opened, y.body, y.length)
    BY <1>2, <1>4, <1>5 DEF RespondsWith, SameAnswer
  <1>8. w.status = x.status /\ w.file = x.file
    BY <1>2, <1>4, <1>5 DEF SameAnswer
  <1>9. \/ /\ x.status \in Error
           /\ \/ RespondsWith(x, w, x.st, IF x.opened THEN 0 ELSE SendMax, TRUE, x.body, SendMax)
              \/ RespondsWith(x, w, x.st \cup Work, x.page, x.opened, 1, 1)
        \/ /\ x.status \notin Error
           /\ RespondsWith(x, w, x.st, x.page, x.opened, x.body, x.length)
    <2>1. CASE x.status \notin Error /\ y = x
      BY <1>7, <2>1
    <2>2. CASE /\ x.status \in Error
               /\ y.st = x.st /\ y.body = x.body /\ y.length = SendMax /\ y.opened
               /\ y.page = IF x.opened THEN 0 ELSE SendMax
      BY <1>3, <1>7, <2>2
    <2>3. CASE /\ x.status \in Error
               /\ y.st = x.st \cup Work /\ y.body = 1 /\ y.length = 1
               /\ y.opened = x.opened /\ y.page = x.page
      BY <1>7, <2>3
    <2> QED BY <1>2, <2>1, <2>2, <2>3
  <1>10. Respond(x).ret = "continue" /\ Respond(x).x = w
    BY <1>1
  <1> QED BY <1>5, <1>6, <1>8, <1>9, <1>10

LEMMA FlagSets ==
  /\ Work = {"workIn", "workOut", "cgiIn", "cgiOut"} /\ Read = {"line", "hdr"}
  /\ ReadAll = {"line", "hdr", "read"} /\ Error = {"error", "408", "504"}
  /\ Work \subseteq Flag /\ Read \subseteq Flag /\ ReadAll \subseteq Flag
  /\ {"canWrite", "cgiHdr", "line"} \subseteq Flag
  BY DEF Work, Read, ReadAll, Error, Flag

LEMMA RespondStable ==
  ASSUME NEW x, Servable(x), "workIn" \in x.st
  PROVE  LET w == Respond(x).x
         IN Stable(w) /\ HeadRead(w) /\ "canWrite" \in w.st /\ (x.opened => w.opened)
  <1> DEFINE w == Respond(x).x
  <1>1. /\ w \in Context /\ SameRequest(x, w) /\ w.status = x.status /\ w.file = x.file
        /\ \/ /\ x.status \in Error
              /\ \/ RespondsWith(x, w, x.st, IF x.opened THEN 0 ELSE SendMax, TRUE, x.body, SendMax)
                 \/ RespondsWith(x, w, x.st \cup Work, x.page, x.opened, 1, 1)
           \/ /\ x.status \notin Error
              /\ RespondsWith(x, w, x.st, x.page, x.opened, x.body, x.length)
    BY RespondIs DEF Servable
  <1> HIDE DEF w
  <1>2. /\ "canWrite" \in w.st /\ x.st \subseteq w.st /\ (x.opened => w.opened)
        /\ w.opened \/ w.page = 0
    BY <1>1 DEF RespondsWith, Servable, Fits
  <1>3. HeadRead(w) /\ "workIn" \in w.st
    BY <1>2 DEF Servable, HeadRead
  <1>4. w.body = 0
    <2>1. CASE w.body = 0
      BY <2>1
    <2>2. CASE "cgiIn" \notin x.st /\ w.body = x.body
      BY <2>2 DEF Servable, Prepared
    <2> QED BY <1>1, <2>1, <2>2, FlagSets DEF RespondsWith
  <1>5. Fits(w)
    <2>1. /\ x.file \in Nat /\ x.file <= MaxFile /\ x.body \in 0 .. 1 /\ x.page \in Nat /\ w.page \in Nat
          /\ x.out.len \in Nat /\ x.page <= SendMax /\ w.page <= SendMax
      BY <1>1, ContextNumbers DEF Servable, Fits
    <2>2. PageLeft(w) \in Nat /\ PageLeft(w) <= SendMax
      BY <2>1, Numbers DEF PageLeft
    <2>3. PageLeft(x) \in Nat /\ PageLeft(w) <= PageLeft(x)
      BY <1>1, <2>1, Numbers DEF PageLeft, RespondsWith
    <2>4. w.out.len \in 0 .. 1 \/ w.out = x.out
      BY <1>1, <2>1 DEF RespondsWith
    <2>5. w.out.len + w.file + PageLeft(w) <= MaxUnits
      <3>1. CASE w.out = x.out
        BY <1>1, <2>1, <2>2, <2>3, <3>1, Numbers DEF Servable, Fits
      <3>2. CASE w.out.len \in 0 .. 1
        BY <1>1, <2>1, <2>2, <3>2, Numbers DEF MaxUnits
      <3> QED BY <2>4, <3>1, <3>2
    <2> QED BY <1>1, <1>2, <2>1, <2>5 DEF Servable, Fits, SameRequest
  <1>6. Owned(w)
    BY <1>1, <1>2 DEF Servable, Owned, SameRequest
  <1>7. Owing(w)
    BY <1>3 DEF Owing
  <1>8. ~w.script /\ ~w.opened => "cgiOut" \in w.st
    BY <1>1, <1>2, FlagSets DEF Servable, SameRequest, RespondsWith
  <1>9. Servable(w)
    BY <1>1, <1>2, <1>3, <1>4, <1>5, <1>6, <1>7, <1>8 DEF Servable
  <1> QED BY <1>1, <1>2, <1>3, <1>8, <1>9 DEF Stable, w

(* The first response a request gets, and one that is left as it is.       *)
LEMMA RespondAnswers ==
  ASSUME NEW x, Servable(x), "workIn" \in x.st, NEW g, g.len \in Nat,
         "canWrite" \notin x.st => Pristine(g)
  PROVE  LET w == Respond(x).x
         IN /\ Sending(x, g) => Sending(w, g)
            /\ /\ ~PageUnsent(w)
               /\ "canWrite" \in x.st =>
                    "cgiIn" \notin w.st /\ ~x.opened /\ Answering(x, g) /\ LengthSound(x, g)
               => Answering(w, g) /\ LengthSound(w, g)
  <1> DEFINE w == Respond(x).x
  <1>1. /\ w \in Context /\ SameRequest(x, w) /\ w.status = x.status /\ w.file = x.file
        /\ \/ /\ x.status \in Error
              /\ \/ RespondsWith(x, w, x.st, IF x.opened THEN 0 ELSE SendMax, TRUE, x.body, SendMax)
                 \/ RespondsWith(x, w, x.st \cup Work, x.page, x.opened, 1, 1)
           \/ /\ x.status \notin Error
              /\ RespondsWith(x, w, x.st, x.page, x.opened, x.body, x.length)
    BY RespondIs DEF Servable
  <1> HIDE DEF w
  <1>2. /\ x.file \in Nat /\ x.body \in 0 .. 1 /\ x.page \in Nat /\ w.page \in Nat
        /\ x.out.len \in Nat /\ x.page <= SendMax /\ w.page <= SendMax
    BY <1>1, ContextNumbers DEF Servable
  <1>3. PageLeft(x) \in Nat /\ PageLeft(w) \in Nat /\ PageLeft(w) <= PageLeft(x)
    BY <1>1, <1>2, Numbers DEF PageLeft, RespondsWith
  <1>4. Sending(x, g) => Sending(w, g)
    <2>1. CASE w.out = x.out
      BY <1>1, <1>2, <1>3, <2>1, Numbers DEF Sending
    <2>2. CASE w.out.head
      BY <2>2 DEF Sending
    <2> QED BY <1>1, <2>1, <2>2 DEF RespondsWith
  <1>5. ASSUME "canWrite" \notin x.st, ~PageUnsent(w) PROVE Answering(w, g) /\ LengthSound(w, g)
    <2>1. Prepared(x) /\ Pristine(g)
      BY <1>5 DEF Servable
    <2>2. /\ x.out.head = FALSE /\ x.out.len = 0 /\ x.out.length = Unknown /\ ~x.opened
          /\ "cgiHdr" \notin x.st
      BY <2>1 DEF Prepared, Unanswered, Nothing
    <2>3. "cgiHdr" \notin w.st /\ (x.status \notin Error => w.st = x.st \cup {"canWrite"} /\ ~w.opened)
      BY <1>1, <2>2, FlagSets DEF RespondsWith
    <2>4. CASE "cgiIn" \notin w.st
      <3>1. /\ w.out = x.out /\ w.st = x.st \cup {"canWrite"} /\ "cgiIn" \notin x.st
        BY <1>1, <2>4, FlagSets DEF RespondsWith
      <3>2. "workOut" \in w.st
        <4>1. CASE x.method = "none" /\ x.status \in Error
          <5>1. w.opened
            BY <1>1, <2>4, <4>1, FlagSets DEF RespondsWith
          <5> QED BY <1>1, <1>5, <4>1, <5>1 DEF PageUnsent, SameRequest
        <4> QED BY <3>1, <4>1 DEF Servable, Owned
      <3>3. Answering(w, g)
        BY <2>1, <2>2, <2>3, <2>4, <3>1, <3>2 DEF Answering, Pristine
      <3>4. LengthSound(w, g)
        BY <2>1, <2>2, <3>1 DEF LengthSound, Pristine
      <3> QED BY <3>3, <3>4
    <2>5. CASE "cgiIn" \in w.st
      <3>1. w.out.head /\ "canWrite" \in w.st
        BY <1>1, <2>5, FlagSets DEF RespondsWith
      <3>2. ~w.child /\ (w.method = "POST" /\ w.script => "workOut" \in w.st)
        <4>1. ~x.child
          <5>1. ASSUME x.child PROVE FALSE
            <6>1. x.status \notin Error /\ "cgiIn" \notin x.st
              BY <2>1, <5>1 DEF Prepared
            <6> QED BY <2>3, <2>5, <6>1
          <5> QED BY <5>1
        <4>2. x.st \subseteq w.st
          BY <1>1 DEF RespondsWith
        <4> QED BY <1>1, <2>1, <4>1, <4>2 DEF Prepared, SameRequest
      <3>a. w.method = "GET" /\ w.listing /\ w.status \notin Error => w.out.length = Unknown
        BY <1>1, <2>1, <2>5, FlagSets DEF RespondsWith, Prepared, SameRequest
      <3>3. Answering(w, g)
        BY <2>1, <2>3, <3>1, <3>2, <3>a DEF Answering, Pristine
      <3>4. w.method # "HEAD" /\ w.out.length # Unknown => w.out.length = w.out.len + Remaining(w)
        <4>1. CASE RespondsWith(x, w, x.st \cup Work, x.page, x.opened, 1, 1)
          <5>1. w.out.len = 1 /\ w.out.length = 1 /\ "workOut" \in w.st
            BY <2>5, <4>1, FlagSets DEF RespondsWith
          <5> QED BY <5>1 DEF Remaining
        <4>2. CASE x.status \in Error /\ RespondsWith(x, w, x.st, IF x.opened THEN 0 ELSE SendMax, TRUE, x.body, SendMax)
          <5>1. x.body = 0 /\ w.page = SendMax /\ w.opened
            BY <2>1, <2>2, <4>2 DEF Prepared, RespondsWith
          <5>2. "workOut" \notin w.st
            BY <1>5, <5>1, Numbers DEF PageUnsent
          <5>3. w.out.len = 0 /\ w.out.length = SendMax
            BY <2>5, <4>2, <5>1 DEF RespondsWith
          <5> QED BY <1>1, <4>2, <5>1, <5>2, <5>3, Numbers DEF Remaining
        <4>3. CASE x.status \notin Error /\ RespondsWith(x, w, x.st, x.page, x.opened, x.body, x.length)
          <5>1. w.out.len = x.body /\ w.out.length = x.length
            BY <2>5, <4>3 DEF RespondsWith
          <5>2. Remaining(w) = Remaining(x)
            BY <1>1, <2>3, <4>3 DEF Remaining, SameRequest
          <5> QED BY <1>1, <2>1, <4>3, <5>1, <5>2 DEF Prepared, SameRequest
        <4> QED BY <1>1, <4>1, <4>2, <4>3
      <3>5. LengthSound(w, g)
        BY <3>1, <3>4 DEF LengthSound
      <3> QED BY <3>3, <3>5
    <2> QED BY <2>4, <2>5
  <1>6. ASSUME "canWrite" \in x.st, ~PageUnsent(w),
               "cgiIn" \notin w.st, ~x.opened, Answering(x, g), LengthSound(x, g)
        PROVE  Answering(w, g) /\ LengthSound(w, g)
    <2>1. x.status \notin Error
      <3> SUFFICES ASSUME x.status \in Error PROVE FALSE
        OBVIOUS
      <3>1. w.opened /\ w.page = SendMax /\ w.st = x.st \cup {"canWrite"}
        BY <1>1, <1>6, FlagSets DEF RespondsWith
      <3>2. "workOut" \in w.st \/ w.method = "none"
        BY <1>1, <1>6, <3>1 DEF Servable, Owned, SameRequest
      <3> QED BY <1>6, <3>1, <3>2, Numbers DEF PageUnsent
    <2>2. w.st = x.st /\ w.out = x.out /\ w.page = x.page
      BY <1>1, <1>6, <2>1 DEF RespondsWith
    <2>3. Remaining(w) = Remaining(x)
      BY <1>1, <2>2 DEF Remaining, SameRequest
    <2> QED BY <1>1, <1>6, <2>2, <2>3 DEF Answering, LengthSound, SameRequest
  <1> QED BY <1>4, <1>5, <1>6 DEF w

-----------------------------------------------------------------------------
(* Bodies. *)

LEMMA ResultIs == \A ret, x : Result(ret, x).ret = ret /\ Result(ret, x).x = x
  BY DEF Result

BodyApart(x, y) ==
    /\ y.method = x.method /\ y.script = x.script /\ y.child = x.child /\ y.chunked = x.chunked
    /\ y.due = x.due /\ y.extra = x.extra /\ y.length = x.length /\ y.body = x.body /\ y.out = x.out
    /\ y.file = x.file /\ y.page = x.page /\ y.opened = x.opened

BodyMore(x, r) ==
    /\ r.ret = "continue" /\ x.buf < x.left
    /\ r.x.st = x.st /\ r.x.status = x.status /\ r.x.cgi = x.cgi
    /\ r.x.left = x.left - x.buf /\ r.x.buf = 0
BodyThrough(x, r) ==
    /\ r.ret = IF x.script THEN "continue" ELSE "done"
    /\ r.x.st = x.st \cup {"workIn", "cgiOut"} /\ r.x.status \in {"ok", "error"}
    /\ x.script /\ x.method = "PUT" => r.x.status = "error"
    /\ r.x.cgi = x.cgi \/ (x.script /\ x.method # "PUT" /\ r.x.cgi = {"in"})
    /\ r.x.buf <= x.buf
BodyKept(x, r) ==
    /\ r.x = x
    /\ \/ r.ret = "continue" /\ x.chunked /\ x.buf = 0
       \/ r.ret = "error" /\ x.script
       \/ r.ret = "throw" /\ x.script /\ x.method = "PUT"

LEMMA ReadBodyIs ==
  ASSUME NEW x \in Context, NEW r \in ReadBody(x)
  PROVE  /\ r.x \in Context /\ BodyApart(x, r.x)
         /\ BodyMore(x, r) \/ BodyThrough(x, r) \/ BodyKept(x, r)
  <1> DEFINE finished == IF x.script THEN "continue" ELSE "done"
             more == [x EXCEPT !.left = @ - x.buf, !.buf = 0]
             left(y) == [y EXCEPT !.left = 0, !.buf = 0]
             whole(y) == Set(left(y), {"workIn", "cgiOut"})
             error == [x EXCEPT !.status = "error"]
             refused == Set(error, {"workIn", "cgiOut"})
             nowhere == x.script /\ x.method = "PUT"
  <1>1. x.left \in Nat /\ x.buf \in Nat /\ x.left <= MaxBody /\ 0 \in 0 .. MaxBody
        /\ 0 \in 0 .. MaxBody + Extra /\ {"workIn", "cgiOut"} \subseteq Flag
        /\ {"ok", "error"} \subseteq Status /\ {"in"} \subseteq {"in", "out"}
    <2>1. x.left \in Nat /\ x.buf \in Nat /\ x.left <= MaxBody
      BY ContextNumbers
    <2>2. 0 \in 0 .. MaxBody /\ 0 \in 0 .. MaxBody + Extra
      BY Numbers
    <2>3. {"workIn", "cgiOut"} \subseteq Flag /\ {"ok", "error"} \subseteq Status
      BY DEF Flag, Work, Status, Error
    <2> QED BY <2>1, <2>2, <2>3
  <1>2. \/ r.x = x /\ BodyKept(x, r)
        \/ x.buf < x.left /\ ~nowhere /\ r = Result("continue", more)
        \/ ~nowhere /\ \E y \in SaveFile(x) : r = Result(finished, whole(y))
        \/ r = Result(finished, refused)
    <2>1. CASE x.chunked /\ x.buf = 0
      <3>1. ReadBody(x) = {Result("continue", x)}
        BY <2>1 DEF ReadBody
      <3>2. r.ret = "continue" /\ r.x = x
        BY <3>1, ResultIs
      <3> QED BY <2>1, <3>2 DEF BodyKept
    <2>2. CASE ~(x.chunked /\ x.buf = 0)
      <3>1. \/ r \in IF x.buf < x.left /\ ~nowhere THEN {Result("continue", more)} ELSE {}
            \/ r \in IF (x.buf = x.left \/ (x.chunked /\ x.buf > x.left)) /\ ~nowhere
                       THEN {Result(finished, whole(y)) : y \in SaveFile(x)} ELSE {}
            \/ r \in IF x.buf > x.left \/ x.chunked THEN {Result(finished, refused)} ELSE {}
            \/ r \in IF x.script /\ (x.buf <= x.left \/ x.chunked) THEN {Result("error", x)} ELSE {}
            \/ r \in IF nowhere /\ x.chunked THEN {Result("throw", x)} ELSE {}
        BY <2>2 DEF ReadBody
      <3> HIDE DEF more, whole, refused
      <3>2. CASE r = Result("error", x) /\ x.script
        BY <3>2, ResultIs DEF BodyKept
      <3>3. CASE r = Result("throw", x) /\ x.script /\ x.method = "PUT"
        BY <3>3, ResultIs DEF BodyKept
      <3> QED BY <3>1, <3>2, <3>3
    <2> QED BY <2>1, <2>2
  <1>3. CASE r.x = x /\ BodyKept(x, r)
    BY <1>3 DEF BodyApart
  <1>4. CASE x.buf < x.left /\ r = Result("continue", more)
    <2>1. r.ret = "continue" /\ r.x = more
      BY <1>4, ResultIs
    <2>2. x.left - x.buf \in 0 .. MaxBody
      BY <1>1, <1>4, Numbers
    <2>3. more \in Context
      BY <1>1, <2>2 DEF Context
    <2>4. BodyApart(x, more)
      BY DEF Context, BodyApart
    <2>5. /\ more.st = x.st /\ more.status = x.status /\ more.cgi = x.cgi
          /\ more.left = x.left - x.buf /\ more.buf = 0
      BY DEF Context
    <2> HIDE DEF more
    <2> QED BY <1>4, <2>1, <2>3, <2>4, <2>5 DEF BodyMore
  <1>5. ASSUME ~nowhere, NEW y \in SaveFile(x), r = Result(finished, whole(y))
        PROVE  r.x \in Context /\ BodyApart(x, r.x) /\ BodyThrough(x, r)
    <2>1. r.ret = finished /\ r.x = whole(y)
      BY <1>5, ResultIs
    <2>2. /\ y \in Context /\ BodyApart(x, y) /\ y.st = x.st /\ y.status \in {"ok", "error"}
          /\ y.cgi = x.cgi \/ (x.script /\ y.cgi = {"in"})
      <3>1. CASE x.script
        <4>1. y = [x EXCEPT !.status = "ok", !.cgi = {"in"}]
          BY <3>1 DEF SaveFile
        <4> QED BY <1>1, <3>1, <4>1 DEF Context, BodyApart
      <3>2. CASE ~x.script
        <4>1. PICK s \in {"ok", "error"} : y = [x EXCEPT !.status = s]
          BY <3>2 DEF SaveFile
        <4> QED BY <1>1, <3>2, <4>1 DEF Context, BodyApart
      <3> QED BY <3>1, <3>2
    <2>3. left(y) \in Context
      BY <1>1, <2>2 DEF Context
    <2>4. /\ BodyApart(y, left(y)) /\ left(y).st = y.st /\ left(y).status = y.status
          /\ left(y).cgi = y.cgi /\ left(y).buf = 0
      BY <2>2 DEF Context, BodyApart
    <2> HIDE DEF left
    <2>5. /\ whole(y) \in Context /\ whole(y).st = left(y).st \cup {"workIn", "cgiOut"}
          /\ SameRequest(left(y), whole(y)) /\ SameAnswer(left(y), whole(y))
      BY <1>1, <2>3, SetIs
    <2> HIDE DEF whole
    <2>6. BodyApart(x, whole(y))
      BY <2>2, <2>4, <2>5 DEF BodyApart, SameRequest, SameAnswer
    <2>7. BodyThrough(x, r)
      BY <1>1, <1>5, <2>1, <2>2, <2>4, <2>5 DEF BodyThrough, SameRequest, SameAnswer
    <2> QED BY <2>1, <2>5, <2>6, <2>7
  <1>6. CASE r = Result(finished, refused)
    <2>1. r.ret = finished /\ r.x = refused
      BY <1>6, ResultIs
    <2>2. error \in Context
      BY <1>1 DEF Context
    <2>3. /\ BodyApart(x, error) /\ error.st = x.st /\ error.status = "error" /\ error.cgi = x.cgi
          /\ error.buf = x.buf
      BY DEF Context, BodyApart
    <2> HIDE DEF error
    <2>4. /\ refused \in Context /\ refused.st = error.st \cup {"workIn", "cgiOut"}
          /\ SameRequest(error, refused) /\ SameAnswer(error, refused)
      BY <1>1, <2>2, SetIs
    <2> HIDE DEF refused
    <2>5. BodyApart(x, refused)
      BY <2>3, <2>4 DEF BodyApart, SameRequest, SameAnswer
    <2>6. BodyThrough(x, r)
      BY <1>1, <2>1, <2>3, <2>4 DEF BodyThrough, SameRequest, SameAnswer
    <2> QED BY <2>1, <2>4, <2>5, <2>6
  <1> QED BY <1>2, <1>3, <1>4, <1>5, <1>6

-----------------------------------------------------------------------------
(* Serve. *)

(* Contexts that differ in their timestamps only. *)
Alike(x, y) == y \in Context /\ y.st = x.st /\ SameRequest(x, y) /\ SameAnswer(x, y)

LEMMA AlikeServable ==
  ASSUME NEW x, NEW y, Alike(x, y), Servable(x)
  PROVE  Servable(y)
  <1>1. Fits(y) /\ Owned(y) /\ Owing(y) /\ HeadRead(y)
    BY DEF Alike, Servable, Fits, PageLeft, Owned, Owing, HeadRead, SameRequest, SameAnswer
  <1>2. Remaining(y) = Remaining(x)
    BY DEF Alike, Remaining, SameRequest, SameAnswer
  <1>3. "canWrite" \notin x.st => Prepared(y)
    BY <1>2 DEF Alike, Servable, Prepared, Unanswered, SameRequest, SameAnswer
  <1> QED BY <1>1, <1>3 DEF Alike, Servable, SameRequest, SameAnswer

LEMMA AlikeAnswers ==
  ASSUME NEW x, NEW y, Alike(x, y), NEW g
  PROVE  /\ Answering(x, g) => Answering(y, g)
         /\ LengthSound(x, g) => LengthSound(y, g)
         /\ Sending(x, g) => Sending(y, g)
         /\ PageUnsent(y) = PageUnsent(x)
  <1>1. Remaining(y) = Remaining(x) /\ PageLeft(y) = PageLeft(x)
    BY DEF Alike, Remaining, PageLeft, SameRequest, SameAnswer
  <1>2. (Answering(x, g) => Answering(y, g)) /\ PageUnsent(y) = PageUnsent(x)
    BY DEF Alike, Answering, PageUnsent, SameRequest, SameAnswer
  <1>3. (LengthSound(x, g) => LengthSound(y, g)) /\ (Sending(x, g) => Sending(y, g))
    BY <1>1 DEF Alike, LengthSound, Sending, SameRequest, SameAnswer
  <1> QED BY <1>2, <1>3

(* Before the body of a request is through there is no CGI for it. *)
LEMMA BodyPending ==
  ASSUME NEW x, Servable(x), "workIn" \notin x.st
  PROVE  /\ x.method \in {"POST", "PUT"} /\ x.cgi = {} /\ ~x.child
         /\ x.script => x.method = "PUT"
         /\ x.status \notin Error /\ "canWrite" \notin x.st /\ Prepared(x)
  <1>1. x.method \in {"none", "GET", "POST", "PUT", "HEAD", "DELETE"} /\ x.cgi \subseteq {"in", "out"}
    BY DEF Servable, Context
  <1>2. x.method \in {"POST", "PUT"} /\ (x.method = "POST" => ~x.script) /\ ~x.child
    BY <1>1 DEF Servable, Owned
  <1>3. x.cgi = {}
    BY <1>1, <1>2 DEF Servable, Owned
  <1> QED BY <1>2, <1>3 DEF Servable

LEMMA BodyHandled ==
  ASSUME NEW x, Servable(x), "workIn" \notin x.st, NEW r \in ReadBody(x)
  PROVE  /\ r.x \in Context /\ BodyApart(x, r.x) /\ "canWrite" \notin r.x.st
         /\ r.ret \in {"continue", "done", "error", "throw"}
         /\ r.ret = "continue" => Stable(r.x) /\ HeadRead(r.x)
         /\ r.ret = "done" => Servable(r.x) /\ "workIn" \in r.x.st
  <1> DEFINE y == r.x
  <1>1. /\ x \in Context /\ y \in Context /\ BodyApart(x, y)
        /\ BodyMore(x, r) \/ BodyThrough(x, r) \/ BodyKept(x, r)
    BY ReadBodyIs DEF Servable
  <1>2. /\ x.method \in {"POST", "PUT"} /\ x.cgi = {} /\ ~x.child /\ (x.script => x.method = "PUT")
        /\ x.status \notin Error /\ "canWrite" \notin x.st /\ Prepared(x)
    BY BodyPending
  <1>3. /\ x.left \in Nat /\ x.buf \in Nat /\ y.left \in Nat /\ y.buf \in Nat /\ x.due \in Nat
        /\ x.extra \in Nat
    BY <1>1, ContextNumbers
  <1>4. CASE BodyKept(x, r)
    <2>1. y = x
      BY <1>4 DEF BodyKept
    <2>2. CASE r.ret = "continue"
      <3>1. x.buf = 0
        BY <1>4, <2>2 DEF BodyKept
      <3>2. Stable(x) /\ HeadRead(x)
        BY <1>2, <3>1 DEF Stable, Servable
      <3> QED BY <1>1, <1>2, <2>1, <2>2, <3>2
    <2>3. CASE r.ret \in {"error", "throw"}
      BY <1>1, <1>2, <2>1, <2>3
    <2> QED BY <1>4, <2>2, <2>3 DEF BodyKept
  <1>5. CASE BodyMore(x, r)
    <2>1. /\ r.ret = "continue" /\ y.st = x.st /\ y.status = x.status /\ y.cgi = x.cgi
          /\ y.left = x.left - x.buf /\ y.buf = 0 /\ x.buf < x.left
      BY <1>5 DEF BodyMore
    <2> HIDE DEF y
    <2>2. HeadRead(y) /\ Owned(y)
      BY <1>1, <2>1 DEF HeadRead, Owned, Servable, BodyApart
    <2>3. Fits(y)
      <3>1. 0 + x.due + x.extra <= x.buf + x.due + x.extra
        BY <1>3
      <3> QED BY <1>1, <1>3, <2>1, <3>1, Numbers DEF Fits, PageLeft, Servable, BodyApart
    <2>4. Owing(y)
      <3>1. ~x.script => /\ x.left <= x.buf + x.due
                         /\ x.due > 0 => x.left = x.buf + x.due
        BY DEF Servable, Owing
      <3>2. y.due = x.due /\ y.script = x.script
        BY <1>1 DEF BodyApart
      <3> QED BY <1>3, <2>1, <3>1, <3>2 DEF Owing
    <2>5. Prepared(y)
      <3>1. Remaining(y) = Remaining(x)
        BY <1>1, <2>1 DEF Remaining, BodyApart
      <3> QED BY <1>1, <1>2, <2>1, <3>1 DEF Prepared, Unanswered, BodyApart
    <2>6. Servable(y)
      BY <1>1, <1>2, <2>1, <2>2, <2>3, <2>4, <2>5 DEF Servable
    <2>7. Stable(y)
      BY <1>1, <1>2, <2>1, <2>2, <2>6 DEF Stable, BodyApart
    <2> QED BY <1>1, <1>2, <2>1, <2>2, <2>7 DEF y
  <1>6. CASE BodyThrough(x, r)
    <2>1. /\ r.ret = IF x.script THEN "continue" ELSE "done"
          /\ y.st = x.st \cup {"workIn", "cgiOut"} /\ y.status \in {"ok", "error"}
          /\ x.script => y.status = "error"
          /\ y.cgi = {} /\ y.buf <= x.buf
      BY <1>2, <1>6 DEF BodyThrough
    <2> HIDE DEF y
    <2>2. HeadRead(y) /\ "workIn" \in y.st
      BY <2>1 DEF HeadRead, Servable
    <2>3. Owned(y)
      BY <1>1, <1>2, <2>1 DEF Owned, Servable, BodyApart
    <2>4. Fits(y)
      <3>1. y.buf + x.due + x.extra <= x.buf + x.due + x.extra
        BY <1>3, <2>1
      <3> QED BY <1>1, <1>3, <2>1, <3>1, Numbers DEF Fits, PageLeft, Servable, BodyApart
    <2>5. Owing(y)
      BY <2>2 DEF Owing
    <2>6. Prepared(y)
      <3>1. Remaining(x) = 0 /\ (y.status \notin Error => Remaining(y) = 0)
        BY <1>1, <1>2 DEF Remaining, BodyApart
      <3>2. y.body = 0
        BY <1>1, <1>2 DEF Prepared, BodyApart
      <3>3. y.length # Unknown => y.length = x.body + Remaining(x) \/ y.method = "HEAD"
        BY <1>1, <1>2 DEF Prepared, BodyApart
      <3>4. y.body = x.body
        BY <1>1 DEF BodyApart
      <3>5. Unanswered(y) /\ ~y.child /\ ~(y.method = "POST" /\ y.script)
        BY <1>1, <1>2, <2>1 DEF Prepared, Unanswered, BodyApart
      <3>6. y.method # "GET"
        BY <1>1, <1>2 DEF BodyApart
      <3> QED BY <3>1, <3>2, <3>3, <3>4, <3>5, <3>6 DEF Prepared
    <2>7. "canWrite" \notin y.st
      BY <1>2, <2>1
    <2>8. Servable(y)
      BY <1>1, <2>1, <2>2, <2>3, <2>4, <2>5, <2>6, <2>7 DEF Servable
    <2>9. y.script => Stable(y)
      BY <1>1, <1>2, <2>1, <2>2, <2>8 DEF Stable, BodyApart
    <2>10. y.script = x.script /\ x.script \in BOOLEAN
      BY <1>1, ContextNumbers DEF BodyApart
    <2> QED BY <1>1, <2>1, <2>2, <2>7, <2>8, <2>9, <2>10 DEF y
  <1> QED BY <1>1, <1>4, <1>5, <1>6

(* What a call of Serve leaves behind.  What is known of an answer that is *)
(* already on its way persists unless it is built or paged anew.           *)
Leaves(x, y, g) ==
    /\ Stable(y) /\ HeadRead(y)
    /\ "canWrite" \notin y.st => "canWrite" \notin x.st
    /\ Sending(x, g) => Sending(y, g)
    /\ /\ ~PageUnsent(y)
       /\ "canWrite" \in x.st =>
            "cgiIn" \notin y.st /\ ~x.opened /\ Answering(x, g) /\ LengthSound(x, g)
       => Answering(y, g) /\ LengthSound(y, g)

Serves(x, r, g) ==
    /\ r.x \in Context /\ r.ret \in {"continue", "error", "throw"}
    /\ r.x.method = x.method /\ (x.script => r.x.script) /\ (x.opened => r.x.opened)
    /\ r.ret # "continue" => "canWrite" \notin x.st /\ ~r.x.opened
    /\ r.ret = "continue" => Leaves(x, r.x, g)

LEMMA RespondServes ==
  ASSUME NEW x, Servable(x), "workIn" \in x.st, NEW g, g.len \in Nat,
         "canWrite" \notin x.st => Pristine(g)
  PROVE  Serves(x, Respond(x), g)
  <1> DEFINE r == Respond(x)
  <1>1. r.ret = "continue" /\ r.x \in Context /\ SameRequest(x, r.x)
    BY RespondIs DEF Servable
  <1>2. Stable(r.x) /\ HeadRead(r.x) /\ "canWrite" \in r.x.st /\ (x.opened => r.x.opened)
    BY RespondStable
  <1>3. /\ Sending(x, g) => Sending(r.x, g)
        /\ /\ ~PageUnsent(r.x)
           /\ "canWrite" \in x.st =>
                "cgiIn" \notin r.x.st /\ ~x.opened /\ Answering(x, g) /\ LengthSound(x, g)
           => Answering(r.x, g) /\ LengthSound(r.x, g)
    BY RespondAnswers
  <1> HIDE DEF r
  <1>4. Leaves(x, r.x, g)
    BY <1>2, <1>3 DEF Leaves
  <1> QED BY <1>1, <1>2, <1>4 DEF Serves, SameRequest, r

LEMMA ServeSound ==
  ASSUME NEW x, Servable(x), NEW g, g.len \in Nat, "canWrite" \notin x.st => Pristine(g),
         NEW r \in Serve(x)
  PROVE  Serves(x, r, g)
  <1>1. CASE r = Respond(x) /\ "workIn" \in x.st
    BY <1>1, RespondServes
  <1>2. CASE "workIn" \notin x.st
    <2> DEFINE u == [x EXCEPT !.age["body"] = 0]
    <2>1. /\ x.method \in {"POST", "PUT"} /\ x.cgi = {} /\ ~x.child /\ (x.script => x.method = "PUT")
          /\ "canWrite" \notin x.st /\ Prepared(x)
      BY <1>2, BodyPending
    <2>2. Alike(x, u)
      <3>1. u = [x EXCEPT !.age = [x.age EXCEPT !["body"] = 0]]
        OBVIOUS
      <3>2. [x.age EXCEPT !["body"] = 0] \in [Timer -> 0 .. Off] /\ x \in Context
        <4>1. x.age \in [Timer -> 0 .. Off] /\ x \in Context
          BY DEF Servable, Context
        <4>2. 0 \in 0 .. Off
          BY Numbers DEF Off
        <4> QED BY <4>1, <4>2
      <3> QED BY <3>1, <3>2, AgeIs DEF Alike
    <2> HIDE DEF u
    <2>3. Servable(u) /\ "workIn" \notin u.st /\ u.method = x.method
      BY <1>2, <2>2, AlikeServable DEF Alike, SameRequest
    <2>4. PICK s \in ReadBody(u) : r = IF s.ret = "done" THEN Respond(s.x) ELSE s
      BY <1>2, <2>1, <2>3 DEF Serve, WorkIn, u
    <2>5. /\ s.x \in Context /\ BodyApart(u, s.x) /\ "canWrite" \notin s.x.st
          /\ s.ret \in {"continue", "done", "error", "throw"}
          /\ s.ret = "continue" => Stable(s.x) /\ HeadRead(s.x)
          /\ s.ret = "done" => Servable(s.x) /\ "workIn" \in s.x.st
      BY <2>3, BodyHandled
    <2>6. Pristine(g) /\ ~x.opened /\ x.out = Nothing
      BY <2>1 DEF Prepared, Unanswered
    <2>7. /\ s.x.method = x.method /\ s.x.script = x.script /\ s.x.opened = x.opened /\ s.x.out = x.out
          /\ s.x.file = x.file /\ s.x.page = x.page /\ s.x.child = x.child
      BY <2>2, <2>5 DEF BodyApart, Alike, SameRequest, SameAnswer
    <2>8. Sending(x, g) => Sending(s.x, g)
      BY <2>7 DEF Sending, PageLeft
    <2>9. CASE s.ret = "done"
      <3>1. Serves(s.x, r, g)
        BY <2>4, <2>5, <2>6, <2>9, RespondServes
      <3> QED BY <2>1, <2>5, <2>7, <2>8, <3>1 DEF Serves, Leaves
    <2>10. CASE s.ret = "continue"
      <3>1. r = s /\ Stable(s.x) /\ HeadRead(s.x)
        BY <2>4, <2>5, <2>10
      <3>2. Answering(s.x, g)
        <4>1. ~s.x.out.head /\ s.x.out.len = 0 /\ ~s.x.child
          BY <2>1, <2>6, <2>7 DEF Nothing
        <4>2. ~(s.x.method = "POST" /\ s.x.script) /\ s.x.method # "GET"
          BY <2>1, <2>7
        <4> QED BY <2>5, <2>6, <4>1, <4>2 DEF Answering, Pristine
      <3>3. LengthSound(s.x, g)
        BY <2>6, <2>7 DEF LengthSound, Pristine, Nothing
      <3>4. Leaves(x, s.x, g)
        BY <2>1, <2>8, <3>1, <3>2, <3>3 DEF Leaves
      <3> QED BY <2>5, <2>7, <2>10, <3>1, <3>4 DEF Serves
    <2>11. CASE s.ret \in {"error", "throw"}
      BY <2>1, <2>4, <2>5, <2>6, <2>7, <2>11 DEF Serves
    <2> QED BY <2>5, <2>9, <2>10, <2>11
  <1>3. x.method = "none" => "workIn" \in x.st
    BY DEF Servable, Owned
  <1> QED BY <1>1, <1>2, <1>3 DEF Serve

-----------------------------------------------------------------------------
(* Requests. *)

(* A request whose head has been read and that nothing has been done for,  *)
(* and one that its constructor and processing() are through with.         *)
Blank(y) ==
    /\ y \in Context /\ y.out = Nothing /\ ~y.opened /\ y.page = 0 /\ y.buf = 0 /\ y.extra = Extra
    /\ y.file <= MaxFile
Routable(y) ==
    /\ Blank(y) /\ y.st = Read /\ y.status = "none" /\ y.length = Unknown /\ y.body = 0
    /\ y.method = "none" /\ ~y.script /\ y.cgi = {} /\ ~y.child /\ y.file = 0 /\ ~y.listing

LEMMA BlankServable ==
  ASSUME NEW z, Blank(z), Read \subseteq z.st, "canWrite" \notin z.st, "cgiHdr" \notin z.st,
         Owned(z), Owing(z),
         "workIn" \notin z.st => z.status \notin Error,
         "workIn" \in z.st /\ ~z.script => "cgiOut" \in z.st \/ z.status \in Error,
         z.body = 0 \/ (z.method = "GET" /\ "cgiIn" \in z.st /\ z.status \notin Error),
         z.length # Unknown => z.status \in Error \/ z.method = "HEAD" \/ z.length = z.body + Remaining(z),
         (z.method = "POST" /\ z.script) \/ z.child => "workOut" \in z.st,
         z.child => z.status \notin Error /\ "cgiIn" \notin z.st,
         z.method = "GET" /\ z.listing => z.length = Unknown
  PROVE  Servable(z) /\ "canWrite" \notin z.st
  <1>1. z.due \in Nat /\ z.due <= MaxBody /\ z.file \in Nat
    BY ContextNumbers, Numbers DEF Blank, Context
  <1>2. Fits(z)
    <2>1. z.buf + z.due + z.extra <= MaxBody + Extra
      BY <1>1, Numbers DEF Blank
    <2>2. z.out.len + z.file + PageLeft(z) <= MaxUnits
      BY <1>1, Numbers DEF Blank, PageLeft, Nothing, MaxUnits
    <2> QED BY <2>1, <2>2 DEF Fits, Blank
  <1>3. Prepared(z)
    BY DEF Prepared, Unanswered, Blank
  <1> QED BY <1>2, <1>3 DEF Servable, HeadRead, Blank

LEMMA AnnouncedIs ==
  ASSUME NEW y, Routable(y), NEW z \in Announced(y)
  PROVE  Routable(z) /\ z.left > 0 /\ z.left = z.due
  <1>1. PICK n \in 1 .. MaxBody, c \in BOOLEAN : z = Announces(y, n, c)
    BY DEF Announced
  <1>2. n \in 0 .. MaxBody /\ n > 0 /\ y \in Context
    BY Numbers DEF Routable, Blank
  <1>3. /\ z \in Context /\ z.left = n /\ z.due = n
        /\ z.out = y.out /\ z.opened = y.opened /\ z.page = y.page /\ z.buf = y.buf /\ z.extra = y.extra
        /\ z.st = y.st /\ z.status = y.status /\ z.length = y.length /\ z.body = y.body
        /\ z.method = y.method /\ z.script = y.script /\ z.cgi = y.cgi /\ z.child = y.child
        /\ z.file = y.file /\ z.listing = y.listing
    BY <1>1, <1>2 DEF Context, Announces
  <1> QED BY <1>2, <1>3 DEF Routable, Blank

LEMMA IgnoredIs ==
  ASSUME NEW y, Routable(y), NEW z \in Ignored(y)
  PROVE  Routable(z)
  <1>1. PICK n \in 0 .. MaxBody : z = [y EXCEPT !.due = n]
    BY DEF Ignored
  <1>2. /\ z \in Context
        /\ z.out = y.out /\ z.opened = y.opened /\ z.page = y.page /\ z.buf = y.buf /\ z.extra = y.extra
        /\ z.st = y.st /\ z.status = y.status /\ z.length = y.length /\ z.body = y.body
        /\ z.method = y.method /\ z.script = y.script /\ z.cgi = y.cgi /\ z.child = y.child
        /\ z.file = y.file /\ z.listing = y.listing
    BY <1>1 DEF Context, Routable, Blank
  <1> QED BY <1>2 DEF Routable, Blank

Method == {"none", "GET", "POST", "PUT", "HEAD", "DELETE"}

LEMMA AnsweredIs ==
  ASSUME NEW y, Routable(y), NEW method \in Method, NEW status \in {"ok", "error"}, NEW F \in SUBSET Work
  PROVE  LET z == Answered(y, method, status, F)
         IN /\ Blank(z) /\ z.method = method /\ z.status = status
            /\ z.st = Read \cup F \cup {"workIn"} /\ z.length = Unknown /\ z.body = 0
            /\ ~z.script /\ z.cgi = {} /\ ~z.child /\ z.file = 0 /\ ~z.listing
  <1> DEFINE u == Set(y, F \cup {"workIn"})
  <1>1. F \cup {"workIn"} \subseteq Flag /\ status \in Status /\ y \in Context
    BY FlagSets DEF Status, Routable, Blank
  <1>2. /\ u \in Context /\ u.st = y.st \cup (F \cup {"workIn"}) /\ SameRequest(y, u) /\ SameAnswer(y, u)
    BY <1>1, SetIs
  <1>3. Answered(y, method, status, F) = [u EXCEPT !.method = method, !.status = status]
    BY DEF Answered
  <1> HIDE DEF u
  <1>4. LET z == [u EXCEPT !.method = method, !.status = status]
        IN /\ z \in Context /\ z.method = method /\ z.status = status
           /\ z.out = u.out /\ z.opened = u.opened /\ z.page = u.page /\ z.buf = u.buf /\ z.extra = u.extra
           /\ z.st = u.st /\ z.length = u.length /\ z.body = u.body
           /\ z.script = u.script /\ z.cgi = u.cgi /\ z.child = u.child /\ z.file = u.file
           /\ z.listing = u.listing
    BY <1>1, <1>2 DEF Context, Method
  <1> QED BY <1>2, <1>3, <1>4 DEF Routable, Blank, SameRequest, SameAnswer

(* A request that is answered without a file, a listing or a CGI. *)
LEMMA AnsweredServable ==
  ASSUME NEW y, Routable(y), NEW method \in Method, NEW status \in {"ok", "error"}, NEW F \in SUBSET Work,
         status = "error" \/ "cgiOut" \in F,
         method \in {"HEAD", "DELETE", "PUT"} => "workOut" \in F \/ status = "error",
         "cgiIn" \in F \/ "workOut" \in F \/ (method = "none" /\ status = "error")
  PROVE  LET z == Answered(y, method, status, F) IN Servable(z) /\ "canWrite" \notin z.st
  <1> DEFINE z == Answered(y, method, status, F)
  <1>1. /\ Blank(z) /\ z.method = method /\ z.status = status
        /\ z.st = Read \cup F \cup {"workIn"} /\ z.length = Unknown /\ z.body = 0
        /\ ~z.script /\ z.cgi = {} /\ ~z.child
    BY AnsweredIs
  <1> HIDE DEF z
  <1>2. "error" \in Error /\ "canWrite" \notin z.st /\ "cgiHdr" \notin z.st
    BY <1>1, FlagSets
  <1>3. Owned(z) /\ Owing(z)
    BY <1>1, <1>2 DEF Owned, Owing
  <1>4. Servable(z) /\ "canWrite" \notin z.st
    BY <1>1, <1>2, <1>3, BlankServable
  <1> QED BY <1>4 DEF z

LEMMA GetServable ==
  ASSUME NEW y, Routable(y), NEW z \in GetFile(y) \cup GetListing(y) \cup GetAnswered(y)
  PROVE  Servable(z) /\ "canWrite" \notin z.st
  <1>1. CASE z \in GetAnswered(y)
    <2>1. PICK s \in {"ok", "error"} : z = Answered(y, "GET", s, Get)
      BY <1>1 DEF GetAnswered
    <2> QED BY <2>1, AnsweredServable DEF Get, Work, Method
  <1> DEFINE u == Answered(y, "GET", "ok", Get)
  <1>2. /\ Blank(u) /\ u.method = "GET" /\ u.status = "ok" /\ u.st = Read \cup Get \cup {"workIn"}
        /\ u.length = Unknown /\ u.body = 0 /\ ~u.script /\ u.cgi = {} /\ ~u.child /\ ~u.listing
    BY AnsweredIs DEF Get, Work, Method
  <1>3. \A n \in Length \cup {0} : n \in Units /\ n <= MaxFile
    BY Numbers DEF Length, MaxUnits
  <1>4. CASE z \in GetFile(y)
    <2>1. PICK n \in Length \cup {0} : z = [u EXCEPT !.file = n, !.length = n]
      BY <1>4 DEF GetFile
    <2> HIDE DEF u
    <2>2. /\ z \in Context /\ z.file = n /\ z.length = n /\ z.listing = u.listing
          /\ z.out = u.out /\ z.opened = u.opened /\ z.page = u.page /\ z.buf = u.buf /\ z.extra = u.extra
          /\ z.st = u.st /\ z.status = u.status /\ z.body = u.body
          /\ z.method = u.method /\ z.script = u.script /\ z.cgi = u.cgi /\ z.child = u.child
      BY ZenonT(30), <1>2, <1>3, <2>1 DEF Context, Blank
    <2>3. Blank(z)
      BY <1>2, <1>3, <2>2 DEF Blank
    <2>4. "ok" \notin Error /\ z.st = {"line", "hdr", "workIn", "cgiOut", "cgiIn"}
      BY <1>2, <2>2, FlagSets DEF Get
    <2>5. Owned(z) /\ Owing(z)
      BY <1>2, <2>2, <2>4 DEF Owned, Owing
    <2>6. z.length = z.body + Remaining(z)
      <3>1. Remaining(z) = n /\ n \in Nat
        BY <1>2, <1>3, <2>2, <2>4, Numbers DEF Remaining
      <3> QED BY <1>2, <2>2, <3>1
    <2> QED BY <1>2, <2>2, <2>3, <2>4, <2>5, <2>6, FlagSets, BlankServable
  <1>5. CASE z \in GetListing(y)
    <2>1. PICK n \in Length : z = [u EXCEPT !.file = n, !.listing = TRUE, !.body = 1]
      BY <1>5 DEF GetListing
    <2>a. n \in Units /\ n <= MaxFile /\ 1 \in 0 .. 1
      BY <1>3
    <2> HIDE DEF u
    <2>2. /\ z \in Context /\ z.file = n /\ z.body = 1 /\ z.length = u.length
          /\ z.out = u.out /\ z.opened = u.opened /\ z.page = u.page /\ z.buf = u.buf /\ z.extra = u.extra
          /\ z.st = u.st /\ z.status = u.status
          /\ z.method = u.method /\ z.script = u.script /\ z.cgi = u.cgi /\ z.child = u.child
      BY ZenonT(30), <1>2, <2>a, <2>1 DEF Context, Blank
    <2>3. Blank(z)
      BY <1>2, <2>a, <2>2 DEF Blank
    <2>4. "ok" \notin Error /\ z.st = {"line", "hdr", "workIn", "cgiOut", "cgiIn"}
      BY <1>2, <2>2, FlagSets DEF Get
    <2>5. Owned(z) /\ Owing(z)
      BY <1>2, <2>2, <2>4 DEF Owned, Owing
    <2> QED BY <1>2, <2>2, <2>3, <2>4, <2>5, FlagSets, BlankServable
  <1> QED BY <1>1, <1>4, <1>5

LEMMA HeadServable ==
  ASSUME NEW y, Routable(y), NEW z \in HeadAnswered(y)
  PROVE  Servable(z) /\ "canWrite" \notin z.st
  <1>1. PICK s \in {"ok", "error"}, n \in {1, Unknown} :
          z = [Answered(y, "HEAD", s, Work) EXCEPT !.length = n]
    <2>1. \E s \in {"ok", "error"} : \E n \in {1, Unknown} :
            z = [Answered(y, "HEAD", s, Work) EXCEPT !.length = n]
      BY DEF HeadAnswered
    <2> QED BY <2>1
  <1> DEFINE u == Answered(y, "HEAD", s, Work)
  <1>2. /\ Blank(u) /\ u.method = "HEAD" /\ u.status = s /\ u.st = Read \cup Work \cup {"workIn"}
        /\ u.length = Unknown /\ u.body = 0 /\ ~u.script /\ u.cgi = {} /\ ~u.child
    BY AnsweredIs DEF Method
  <1> HIDE DEF u
  <1>3. n \in Units \cup {Unknown} /\ z = [u EXCEPT !.length = n]
    BY <1>1, Numbers DEF MaxUnits, u
  <1>4. /\ z \in Context /\ z.length = n /\ z.file = u.file
        /\ z.out = u.out /\ z.opened = u.opened /\ z.page = u.page /\ z.buf = u.buf /\ z.extra = u.extra
        /\ z.st = u.st /\ z.status = u.status /\ z.body = u.body
        /\ z.method = u.method /\ z.script = u.script /\ z.cgi = u.cgi /\ z.child = u.child
    BY <1>2, <1>3 DEF Context, Blank
  <1>5. Blank(z)
    BY <1>2, <1>4 DEF Blank
  <1>6. z.st = {"line", "hdr", "workIn", "workOut", "cgiOut", "cgiIn"}
    BY <1>2, <1>4, FlagSets
  <1>7. Owned(z) /\ Owing(z)
    BY <1>2, <1>4, <1>6 DEF Owned, Owing
  <1> QED BY <1>2, <1>4, <1>5, <1>6, <1>7, FlagSets, BlankServable

(* A CGI that was started, and one for which fork failed. *)
ScriptOf(x, z, method, watch) ==
    /\ Blank(z) /\ z.method = method /\ z.script /\ z.cgi = watch
    /\ z.st = x.st /\ z.status = x.status /\ z.length = x.length /\ z.body = x.body

LEMMA WithCGIIs ==
  ASSUME NEW x, Blank(x), NEW method \in Method, NEW watch \in SUBSET {"in", "out"}
  PROVE  /\ ScriptOf(x, WithCGI(x, method, watch, TRUE), method, watch)
         /\ WithCGI(x, method, watch, TRUE).child
         /\ ScriptOf(x, WithCGI(x, method, watch, FALSE), method, watch)
         /\ ~WithCGI(x, method, watch, FALSE).child
  <1>1. ASSUME NEW z, z = WithCGI(x, method, watch, TRUE)
        PROVE  ScriptOf(x, z, method, watch) /\ z.child
    <2>1. /\ z \in Context /\ z.method = method /\ z.script /\ z.cgi = watch /\ z.child
          /\ z.st = x.st /\ z.status = x.status /\ z.length = x.length /\ z.body = x.body
          /\ z.out = x.out /\ z.opened = x.opened /\ z.page = x.page /\ z.buf = x.buf /\ z.extra = x.extra
          /\ z.file = x.file
      BY ZenonT(30), <1>1 DEF WithCGI, Blank, Context, Method
    <2> QED BY <2>1 DEF ScriptOf, Blank
  <1>2. ASSUME NEW z, z = WithCGI(x, method, watch, FALSE)
        PROVE  ScriptOf(x, z, method, watch) /\ ~z.child
    <2>1. /\ z \in Context /\ z.method = method /\ z.script /\ z.cgi = watch /\ ~z.child
          /\ z.st = x.st /\ z.status = x.status /\ z.length = x.length /\ z.body = x.body
          /\ z.out = x.out /\ z.opened = x.opened /\ z.page = x.page /\ z.buf = x.buf /\ z.extra = x.extra
          /\ z.file = x.file
      BY ZenonT(30), <1>2 DEF WithCGI, Blank, Context, Method
    <2> QED BY <2>1 DEF ScriptOf, Blank
  <1> QED BY <1>1, <1>2

LEMMA StartedServable ==
  ASSUME NEW y, Routable(y), NEW method \in {"GET", "POST"}, NEW watch \in SUBSET {"in", "out"},
         watch # {}, "out" \in watch => method = "POST",
         NEW F \in SUBSET (Work \ {"cgiIn"}), {"workIn", "workOut"} \subseteq F, NEW n \in Length
  PROVE  LET z == Started(y, method, F, watch, n) IN Servable(z) /\ "canWrite" \notin z.st
  <1> DEFINE u == Set(y, F)
             v == WithCGI(u, method, watch, TRUE)
             z == Started(y, method, F, watch, n)
  <1>1. /\ Blank(u) /\ u.st = Read \cup F /\ u.status = "none" /\ u.length = Unknown /\ u.body = 0
    <2>1. F \subseteq Flag /\ y \in Context
      BY FlagSets DEF Routable, Blank
    <2>2. u \in Context /\ u.st = y.st \cup F /\ SameRequest(y, u) /\ SameAnswer(y, u)
      BY <2>1, SetIs
    <2> HIDE DEF u
    <2> QED BY <2>2 DEF Routable, Blank, SameRequest, SameAnswer
  <1> HIDE DEF u
  <1>2. /\ Blank(v) /\ v.method = method /\ v.script /\ v.cgi = watch /\ v.child
        /\ v.st = u.st /\ v.status = u.status /\ v.length = u.length /\ v.body = u.body
    <2>1. method \in Method
      BY DEF Method
    <2>2. ScriptOf(u, v, method, watch) /\ v.child
      BY <1>1, <2>1, WithCGIIs, Zenon
    <2> HIDE DEF v
    <2> QED BY <2>2 DEF ScriptOf
  <1>3. z = [v EXCEPT !.file = n]
    BY DEF Started, u
  <1>4. n \in Units /\ n <= MaxFile
    BY Numbers DEF Length, MaxUnits
  <1> HIDE DEF v
  <1>5. /\ z \in Context /\ z.file = n
        /\ z.method = method /\ z.script /\ z.cgi = watch /\ z.child
        /\ z.st = v.st /\ z.status = v.status /\ z.length = v.length /\ z.body = v.body
        /\ z.out = v.out /\ z.opened = v.opened /\ z.page = v.page /\ z.buf = v.buf /\ z.extra = v.extra
    BY <1>2, <1>3, <1>4 DEF Context, Blank
  <1> HIDE DEF z
  <1>6. Blank(z)
    BY <1>2, <1>4, <1>5 DEF Blank
  <1>7. z.st = Read \cup F /\ z.status = "none" /\ z.length = Unknown /\ z.body = 0
    BY <1>1, <1>2, <1>5
  <1>8. "workIn" \in z.st /\ "workOut" \in z.st /\ {"cgiIn", "canWrite", "cgiHdr"} \cap z.st = {}
        /\ z.status \notin Error
    BY <1>7, FlagSets
  <1>9. Owned(z) /\ Owing(z)
    BY <1>5, <1>8 DEF Owned, Owing
  <1>10. Servable(z) /\ "canWrite" \notin z.st
    BY <1>5, <1>6, <1>7, <1>8, <1>9, BlankServable
  <1> QED BY <1>10 DEF z

LEMMA ForkFailedServable ==
  ASSUME NEW y, Routable(y), NEW method \in {"GET", "POST"}, NEW watch \in SUBSET {"in", "out"},
         watch # {}, "out" \in watch => method = "POST",
         NEW F \in SUBSET Work, "cgiIn" \in F \/ "workOut" \in F, method = "POST" => "workOut" \in F
  PROVE  LET z == ForkFailed(y, method, F, watch) IN Servable(z) /\ "canWrite" \notin z.st
  <1> DEFINE u == Answered(y, method, "error", F)
             z == WithCGI(u, method, watch, FALSE)
  <1>1. /\ Blank(u) /\ u.status = "error" /\ u.st = Read \cup F \cup {"workIn"}
        /\ u.length = Unknown /\ u.body = 0
    BY AnsweredIs DEF Method
  <1> HIDE DEF u
  <1>2. /\ Blank(z) /\ z.method = method /\ z.script /\ z.cgi = watch /\ ~z.child
        /\ z.st = u.st /\ z.status = u.status /\ z.length = u.length /\ z.body = u.body
    <2>1. method \in Method
      BY DEF Method
    <2>2. ScriptOf(u, z, method, watch) /\ ~z.child
      BY <1>1, <2>1, WithCGIIs, Zenon
    <2> HIDE DEF z
    <2> QED BY <2>2 DEF ScriptOf
  <1> HIDE DEF z
  <1>3. "workIn" \in z.st /\ z.status \in Error /\ {"canWrite", "cgiHdr"} \cap z.st = {}
        /\ F \subseteq z.st
    BY <1>1, <1>2, FlagSets
  <1>4. Owned(z) /\ Owing(z)
    BY <1>2, <1>3 DEF Owned, Owing
  <1>5. Servable(z) /\ "canWrite" \notin z.st
    BY <1>1, <1>2, <1>3, <1>4, FlagSets, BlankServable
  <1> QED BY <1>5 DEF z, u, ForkFailed

(* An upload that is accepted; a PUT may name a script. *)
LEMMA UploadServable ==
  ASSUME NEW y, Routable(y), NEW z \in PostUpload(y) \cup PutUpload(y, FALSE) \cup PutUpload(y, TRUE)
  PROVE  Servable(z) /\ "canWrite" \notin z.st
  <1>1. PICK a \in Announced(y), F \in {Put, Post \cup {"cgiIn"}}, script \in BOOLEAN :
          /\ z = [Set(a, F) EXCEPT !.method = IF F = Put THEN "PUT" ELSE "POST", !.script = script]
          /\ script => F = Put
    <2>1. Put # Post \cup {"cgiIn"}
      BY DEF Put, Post
    <2>2. CASE z \in PostUpload(y)
      <3>1. PICK a \in Announced(y) : z = [Set(a, Post \cup {"cgiIn"}) EXCEPT !.method = "POST"]
        BY <2>2 DEF PostUpload
      <3> DEFINE u == Set(a, Post \cup {"cgiIn"})
      <3>2. u \in Context /\ u.script = FALSE
        <4>1. Routable(a) /\ Post \cup {"cgiIn"} \subseteq Flag
          BY AnnouncedIs, FlagSets DEF Post
        <4>2. a \in Context /\ a.script = FALSE
          BY <4>1, ContextNumbers DEF Routable, Blank
        <4> QED BY <4>1, <4>2, SetIs DEF SameRequest
      <3> HIDE DEF u
      <3>3. [u EXCEPT !.method = "POST"] = [u EXCEPT !.method = "POST", !.script = FALSE]
        BY <3>2 DEF Context
      <3> QED BY <2>1, <3>1, <3>3 DEF u
    <2>3. CASE z \in PutUpload(y, FALSE)
      <3>1. PICK a \in Announced(y) : z = [Set(a, Put) EXCEPT !.method = "PUT", !.script = FALSE]
        BY <2>3 DEF PutUpload
      <3> QED BY <3>1
    <2>4. CASE z \in PutUpload(y, TRUE)
      <3>1. PICK a \in Announced(y) : z = [Set(a, Put) EXCEPT !.method = "PUT", !.script = TRUE]
        BY <2>4 DEF PutUpload
      <3> QED BY <3>1
    <2> QED BY <2>2, <2>3, <2>4
  <1>2. Routable(a) /\ a.left > 0 /\ a.left = a.due
    BY AnnouncedIs
  <1> DEFINE u == Set(a, F)
  <1>3. F \subseteq Flag /\ "cgiIn" \in F /\ "workIn" \notin F /\ (F = Put => "workOut" \in F)
        /\ "canWrite" \notin F /\ "cgiHdr" \notin F
    BY FlagSets DEF Put, Post
  <1>4. /\ u \in Context /\ u.st = Read \cup F /\ SameRequest(a, u) /\ SameAnswer(a, u)
    BY <1>2, <1>3, SetIs DEF Routable, Blank
  <1>5. z = [u EXCEPT !.method = IF F = Put THEN "PUT" ELSE "POST", !.script = script]
    BY <1>1
  <1> HIDE DEF u
  <1>6. /\ z \in Context /\ z.method = (IF F = Put THEN "PUT" ELSE "POST") /\ z.script = script
        /\ z.st = u.st /\ z.status = u.status /\ z.length = u.length /\ z.body = u.body
        /\ z.out = u.out /\ z.opened = u.opened /\ z.page = u.page /\ z.buf = u.buf /\ z.extra = u.extra
        /\ z.cgi = u.cgi /\ z.child = u.child /\ z.file = u.file /\ z.left = u.left /\ z.due = u.due
    BY ZenonT(30), <1>4, <1>5 DEF Context
  <1>7. Blank(z) /\ z.status = "none" /\ z.length = Unknown /\ z.body = 0 /\ z.cgi = {} /\ ~z.child
        /\ z.buf = 0 /\ z.left > 0 /\ z.left = z.due
    BY <1>2, <1>4, <1>6 DEF Blank, Routable, SameRequest, SameAnswer
  <1>8. {"workIn", "canWrite", "cgiHdr"} \cap z.st = {} /\ "cgiIn" \in z.st /\ z.status \notin Error
        /\ Read \subseteq z.st /\ (F = Put => "workOut" \in z.st)
    <2>1. z.st = {"line", "hdr"} \cup F /\ z.status = "none"
      BY <1>4, <1>6, <1>7, FlagSets
    <2> QED BY <1>3, <2>1, FlagSets
  <1>9. Owned(z)
    <2>1. z.method \in {"POST", "PUT"} /\ (z.method = "PUT" => "workOut" \in z.st)
          /\ ~(z.method = "POST" /\ z.script)
      BY <1>1, <1>6, <1>8
    <2> QED BY <1>7, <1>8, <2>1 DEF Owned
  <1>10. Owing(z)
    <2>1. z.left \in Nat
      BY <1>6, ContextNumbers
    <2>2. z.left <= 0 + z.due /\ z.left = 0 + z.due
      BY <1>7, <2>1
    <2> QED BY <1>7, <2>2 DEF Owing
  <1>11. ~(z.method = "POST" /\ z.script)
    BY <1>1, <1>6
  <1> QED BY <1>6, <1>7, <1>8, <1>9, <1>10, <1>11, BlankServable

(* What each kind of request can find. *)
LEMMA RoutedIs ==
  ASSUME NEW y, NEW req \in Request, NEW z \in Routed(y, req)
  PROVE  \/ z \in Unrouted(y) \cup Redirected(y) \cup DeleteAnswered(y)
         \/ z \in GetFile(y) \cup GetListing(y) \cup GetAnswered(y)
         \/ z \in HeadAnswered(y)
         \/ z \in PostUnchecked(y) \cup PutUnchecked(y)
         \/ z \in PostAnswered(y) \cup PutAnswered(y)
         \/ z \in PostUpload(y) \cup PutUpload(y, FALSE) \cup PutUpload(y, TRUE)
         \/ z \in GetScript(y, TRUE) \/ z \in GetScript(y, FALSE)
         \/ z \in PostScript(y, TRUE) \/ z \in PostScript(y, FALSE)
  <1>1. CASE req \in {"refused", "redirect", "file", "listing", "getError"}
    BY <1>1 DEF Routed
  <1>2. CASE req = "getCGI"
    BY <1>2 DEF Routed
  <1>3. CASE req = "getForkFails"
    BY <1>3 DEF Routed
  <1>4. CASE req \in {"head", "delete", "badBody", "uploadError"}
    BY <1>4 DEF Routed
  <1>5. CASE req = "upload"
    BY <1>5 DEF Routed
  <1>6. CASE req = "putScript"
    BY <1>6 DEF Routed
  <1>7. CASE req = "postCGI"
    BY <1>7 DEF Routed
  <1>8. CASE req = "postForkFails"
    BY <1>8 DEF Routed
  <1> QED BY <1>1, <1>2, <1>3, <1>4, <1>5, <1>6, <1>7, <1>8 DEF Request

LEMMA RoutedServable ==
  ASSUME NEW y, Routable(y), NEW req \in Request, NEW z \in Routed(y, req)
  PROVE  Servable(z) /\ "canWrite" \notin z.st
  <1> DEFINE Good == Servable(z) /\ "canWrite" \notin z.st
  <1>a. /\ {} \in SUBSET Work /\ Work \in SUBSET Work /\ Post \in SUBSET Work /\ Put \in SUBSET Work
        /\ Get \in SUBSET Work /\ Post \cup {"cgiIn"} \in SUBSET Work
        /\ Post \cup {"cgiIn", "cgiOut"} \in SUBSET Work
    BY DEF Work, Post, Put, Get
  <1>1. CASE z \in Unrouted(y)
    <2>1. PICK i \in Ignored(y) : z = Answered(i, "none", "error", {})
      BY <1>1 DEF Unrouted
    <2> QED BY <1>a, <2>1, IgnoredIs, AnsweredServable DEF Method
  <1>2. CASE z \in Redirected(y)
    BY <1>a, <1>2, AnsweredServable DEF Redirected, Method, Work
  <1>3. CASE z \in DeleteAnswered(y)
    <2>1. PICK s \in {"ok", "error"} : z = Answered(y, "DELETE", s, Work)
      BY <1>3 DEF DeleteAnswered
    <2> QED BY <1>a, <2>1, AnsweredServable DEF Method, Work
  <1>4. CASE z \in PostUnchecked(y) \cup PutUnchecked(y)
    <2>1. \/ \E i \in Ignored(y) : \E s \in {"ok", "error"} :
               z = Answered(i, "POST", s, Post \cup {"cgiIn", "cgiOut"})
          \/ \E i \in Ignored(y) : \E s \in {"ok", "error"} : z = Answered(i, "PUT", s, Put)
      BY <1>4 DEF PostUnchecked, PutUnchecked
    <2>2. ASSUME NEW i \in Ignored(y), NEW s \in {"ok", "error"},
                 z = Answered(i, "POST", s, Post \cup {"cgiIn", "cgiOut"}) PROVE Good
      BY <1>a, <2>2, IgnoredIs, AnsweredServable DEF Method, Post
    <2>3. ASSUME NEW i \in Ignored(y), NEW s \in {"ok", "error"}, z = Answered(i, "PUT", s, Put) PROVE Good
      BY <1>a, <2>3, IgnoredIs, AnsweredServable DEF Method, Put
    <2> QED BY <2>1, <2>2, <2>3
  <1>5. CASE z \in PostAnswered(y) \cup PutAnswered(y)
    <2>1. \/ \E i \in Ignored(y) : z = Answered(i, "POST", "error", Post \cup {"cgiIn"})
          \/ \E i \in Ignored(y) : z = Answered(i, "PUT", "error", Put)
      BY <1>5 DEF PostAnswered, PutAnswered
    <2>2. ASSUME NEW i \in Ignored(y), z = Answered(i, "POST", "error", Post \cup {"cgiIn"}) PROVE Good
      BY <1>a, <2>2, IgnoredIs, AnsweredServable DEF Method, Post
    <2>3. ASSUME NEW i \in Ignored(y), z = Answered(i, "PUT", "error", Put) PROVE Good
      BY <1>a, <2>3, IgnoredIs, AnsweredServable DEF Method, Put
    <2> QED BY <2>1, <2>2, <2>3
  <1>6. CASE z \in GetScript(y, TRUE)
    <2>1. PICK n \in Length : z = Started(y, "GET", {"workIn", "cgiOut", "workOut"}, {"in"}, n)
      BY <1>6 DEF GetScript
    <2>2. {"workIn", "cgiOut", "workOut"} \in SUBSET (Work \ {"cgiIn"})
      BY DEF Work
    <2> QED BY <2>1, <2>2, StartedServable
  <1>7. CASE z \in GetScript(y, FALSE)
    <2>1. z = ForkFailed(y, "GET", Get, {"in"})
      BY <1>7 DEF GetScript
    <2>2. "cgiIn" \in Get
      BY DEF Get
    <2> QED BY <1>a, <2>1, <2>2, ForkFailedServable
  <1>8. CASE z \in PostScript(y, TRUE)
    <2>1. \E i \in Announced(y) : \E n \in Length :
            z = Started(i, "POST", Post \cup {"workIn"}, {"in", "out"}, n)
      BY <1>8 DEF PostScript
    <2>2. PICK i \in Announced(y), n \in Length :
            z = Started(i, "POST", Post \cup {"workIn"}, {"in", "out"}, n)
      BY <2>1
    <2>3. Post \cup {"workIn"} \in SUBSET (Work \ {"cgiIn"}) /\ {"workIn", "workOut"} \subseteq Post \cup {"workIn"}
      BY DEF Work, Post
    <2> QED BY <2>2, <2>3, AnnouncedIs, StartedServable
  <1>9. CASE z \in PostScript(y, FALSE)
    <2>1. PICK i \in Announced(y) : z = ForkFailed(i, "POST", Post, {"in", "out"})
      BY <1>9 DEF PostScript
    <2>2. "workOut" \in Post
      BY DEF Post
    <2> QED BY <1>a, <2>1, <2>2, AnnouncedIs, ForkFailedServable
  <1>10. CASE z \in GetFile(y) \cup GetListing(y) \cup GetAnswered(y)
    BY <1>10, GetServable
  <1>11. CASE z \in HeadAnswered(y)
    BY <1>11, HeadServable
  <1>12. CASE z \in PostUpload(y) \cup PutUpload(y, FALSE) \cup PutUpload(y, TRUE)
    BY <1>12, UploadServable
  <1> QED BY RoutedIs, <1>1, <1>2, <1>3, <1>4, <1>5, <1>6, <1>7, <1>8, <1>9, <1>10, <1>11, <1>12

(* The request that the head announces, once its virtual server is known.  *)
LEMMA UnreadIs ==
  ASSUME NEW x, Stable(x), ~HeadRead(x)
  PROVE  /\ Blank(x) /\ x.st \subseteq {"line"} /\ x.status = "none" /\ x.length = Unknown /\ x.body = 0
         /\ x.method = "none" /\ ~x.script /\ x.cgi = {} /\ ~x.child /\ x.file = 0
         /\ x.age["body"] = Off /\ x.left = 0 /\ ~x.listing
  <1>1. x \in Context /\ x = [Fresh EXCEPT !.st = x.st, !.age = x.age]
        /\ x.st \subseteq {"line"} /\ x.age["body"] = Off
    BY DEF Stable
  <1>2. /\ x.out = Nothing /\ ~x.opened /\ x.page = 0 /\ x.buf = 0 /\ x.extra = Extra /\ x.file = 0
        /\ x.status = "none" /\ x.length = Unknown /\ x.body = 0 /\ x.left = 0
        /\ x.method = "none" /\ ~x.script /\ x.cgi = {} /\ ~x.child /\ ~x.listing
    BY ZenonT(30), <1>1 DEF Fresh
  <1> QED BY <1>1, <1>2, Numbers DEF Blank

LEMMA ResolvedServable ==
  ASSUME NEW x, Stable(x), ~HeadRead(x), NEW req \in Request, NEW z \in Resolved(x, req)
  PROVE  Servable(z) /\ "canWrite" \notin z.st
  <1> DEFINE u == Set(x, Read)
  <1>1. PICK p \in {{}, Pages} : z \in Routed([u EXCEPT !.pages = p], req)
    BY DEF Resolved
  <1>2. u \in Context /\ u.st = x.st \cup Read /\ SameRequest(x, u) /\ SameAnswer(x, u)
    BY UnreadIs, FlagSets, SetIs DEF Blank
  <1> HIDE DEF u
  <1> DEFINE y == [u EXCEPT !.pages = p]
  <1>3. /\ y \in Context /\ y.st = u.st /\ SameRequest(u, y) /\ SameAnswer(u, y)
    <2>1. p \subseteq Error
      BY ConnectionAssumption
    <2> QED BY <1>2, <2>1 DEF Context, SameRequest, SameAnswer
  <1>4. z \in Routed(y, req)
    BY <1>1
  <1> HIDE DEF y
  <1>5. y.st = Read
    BY <1>2, <1>3, UnreadIs, FlagSets
  <1>6. Routable(y)
    BY <1>2, <1>3, <1>5, UnreadIs DEF Routable, Blank, SameRequest, SameAnswer
  <1> QED BY <1>4, <1>6, RoutedServable

(* Input that arrives.                                                     *)
Fed(x, y) ==
    /\ y \in Context /\ y.st = x.st /\ SameAnswer(x, y)
    /\ y.method = x.method /\ y.script = x.script /\ y.cgi = x.cgi /\ y.child = x.child
    /\ y.left = x.left /\ y.listing = x.listing

LEMMA ReceivedIs ==
  ASSUME NEW x, Servable(x), NEW n \in Arrivals(x)
  PROVE  LET y == Received(x, n) IN Fed(x, y) /\ Servable(y)
  <1> DEFINE owed == Lesser(n, x.due)
             y == Received(x, n)
  <1>1. /\ x.buf \in Nat /\ x.due \in Nat /\ x.extra \in Nat /\ x.left \in Nat /\ n \in Nat
        /\ n <= x.due + x.extra /\ x.due <= MaxBody /\ x.extra <= Extra /\ x \in Context
    BY ContextNumbers, Numbers DEF Arrivals, Servable, Context
  <1>2. /\ owed \in Nat /\ owed <= n /\ owed <= x.due /\ n - owed <= x.extra
        /\ owed = n \/ owed = x.due
    BY <1>1 DEF Lesser
  <1> DEFINE b == x.buf + n
             d == x.due - owed
             e == x.extra - (n - owed)
  <1>3. y = [x EXCEPT !.buf = b, !.due = d, !.extra = e]
    BY DEF Received
  <1>4. x.buf + x.due + x.extra <= MaxBody + Extra
    BY DEF Servable, Fits
  <1> HIDE DEF owed
  <1>5. b \in 0 .. MaxBody + Extra
    <2>1. b \in Nat /\ MaxBody + Extra \in Nat
      BY <1>1, Numbers
    <2>2. b <= MaxBody + Extra
      <3>1. b <= x.buf + x.due + x.extra
        BY <1>1
      <3> QED BY <1>1, <1>4, <2>1, <3>1
    <2> HIDE DEF b
    <2> QED BY <2>1, <2>2
  <1>6. d \in 0 .. MaxBody
    BY <1>1, <1>2, Numbers
  <1>7. e \in 0 .. Extra
    BY <1>1, <1>2, Numbers
  <1>a. b + d + e = x.buf + x.due + x.extra
    BY <1>1, <1>2
  <1>b. (x.left <= b + d \/ ~(x.left <= x.buf + x.due)) /\ (owed = n => b + d = x.buf + x.due)
        /\ (owed = x.due => d = 0)
    BY <1>1, <1>2
  <1> HIDE DEF b, d, e, y
  <1>8. y \in Context /\ y.buf = b /\ y.due = d /\ y.extra = e
    BY <1>1, <1>3, <1>5, <1>6, <1>7 DEF Context
  <1>9. Fed(x, y)
    BY <1>1, <1>3, <1>8 DEF Context, Fed, SameAnswer
  <1>10. Fits(y)
    <2>1. y.buf + y.due + y.extra <= MaxBody + Extra
      BY <1>4, <1>8, <1>a
    <2> QED BY <1>9, <2>1 DEF Fed, Fits, PageLeft, Servable, SameAnswer
  <1>11. Owned(y) /\ HeadRead(y)
    BY <1>9 DEF Owned, HeadRead, Servable, Fed, SameAnswer
  <1>12. Owing(y)
    <2> SUFFICES ASSUME "workIn" \notin y.st, ~y.script PROVE
                   /\ 0 < y.left /\ y.left <= y.buf + y.due
                   /\ y.due > 0 => y.left = y.buf + y.due
      BY DEF Owing
    <2>1. 0 < x.left /\ x.left <= x.buf + x.due /\ (x.due > 0 => x.left = x.buf + x.due)
          /\ y.left = x.left
      BY <1>9 DEF Servable, Owing, Fed
    <2>2. CASE owed = n
      <3>1. x.due > 0 \/ d = 0
        BY <1>1, <1>2, <1>6, <2>2 DEF d
      <3> QED BY <1>6, <1>8, <1>b, <2>1, <2>2, <3>1
    <2>3. CASE owed = x.due
      BY <1>8, <1>b, <2>1, <2>3
    <2> QED BY <1>2, <2>2, <2>3
  <1>13. "canWrite" \notin x.st => Prepared(y)
    <2>1. Remaining(y) = Remaining(x)
      BY <1>9 DEF Remaining, Fed, SameAnswer
    <2> QED BY <1>9, <2>1 DEF Servable, Prepared, Unanswered, Fed, SameAnswer
  <1>14. Servable(y)
    BY <1>9, <1>10, <1>11, <1>12, <1>13 DEF Servable, Fed, SameAnswer
  <1> QED BY <1>9, <1>14 DEF y

LEMMA FedAnswers ==
  ASSUME NEW x, NEW y, Fed(x, y), NEW g
  PROVE  /\ Answering(x, g) => Answering(y, g)
         /\ LengthSound(x, g) => LengthSound(y, g)
         /\ Sending(x, g) => Sending(y, g)
  <1>1. Remaining(y) = Remaining(x) /\ PageLeft(y) = PageLeft(x)
    BY DEF Fed, Remaining, PageLeft, SameAnswer
  <1>2. Answering(x, g) => Answering(y, g)
    BY DEF Fed, Answering, SameAnswer
  <1>3. (LengthSound(x, g) => LengthSound(y, g)) /\ (Sending(x, g) => Sending(y, g))
    BY <1>1 DEF Fed, LengthSound, Sending, SameAnswer
  <1> QED BY <1>2, <1>3

-----------------------------------------------------------------------------
(* handleIn on the client socket. *)

LEMMA GotNumbers ==
  ASSUME TypeOK
  PROVE  /\ got.len \in Nat /\ got.len <= MaxUnits /\ got.head \in BOOLEAN /\ got.bad \in BOOLEAN
         /\ rebuilt \in BOOLEAN
  BY Numbers DEF TypeOK

(* What the peer has before anything could be written.                     *)
LEMMA PristineSound ==
  ASSUME NEW x, NEW g, Pristine(g), x \in Context, Fits(x)
  PROVE  Sending(x, g)
  <1>1. x.out.len \in Nat /\ x.file \in Nat /\ x.page \in Nat /\ PageLeft(x) \in Nat
    BY ContextNumbers, Numbers DEF PageLeft
  <1> QED BY <1>1, Numbers DEF Pristine, Sending, Fits

LEMMA UnreadSound ==
  ASSUME NEW x, NEW g, Stable(x), ~HeadRead(x), Pristine(g)
  PROVE  Sending(x, g) /\ Answering(x, g) /\ LengthSound(x, g) /\ Fits(x)
         /\ {"canWrite", "workIn", "workOut", "hdr", "read"} \cap x.st = {}
  <1>1. /\ Blank(x) /\ x.st \subseteq {"line"} /\ x.method = "none" /\ ~x.script /\ ~x.child /\ x.file = 0
        /\ x.out = Nothing
    BY UnreadIs DEF Blank
  <1>2. Fits(x)
    <2>1. x.due \in Nat /\ x.due <= MaxBody
      BY Numbers DEF Stable, Context
    <2>2. x.buf + x.due + x.extra <= MaxBody + Extra
      BY <1>1, <2>1, Numbers DEF Blank
    <2>3. x.out.len + x.file + PageLeft(x) <= MaxUnits
      BY <1>1, Numbers DEF Blank, PageLeft, Nothing, MaxUnits
    <2> QED BY <1>1, <2>2, <2>3 DEF Fits, Blank
  <1>3. Sending(x, g)
    BY <1>1, <1>2, PristineSound DEF Blank
  <1>4. Answering(x, g)
    BY <1>1 DEF Answering, Pristine, Nothing
  <1>5. LengthSound(x, g)
    BY <1>1 DEF LengthSound, Pristine, Nothing
  <1> QED BY <1>1, <1>2, <1>3, <1>4, <1>5

(* The context that Serve is called with, after handleIn has read.         *)
Offered(x, u, g) ==
    /\ Servable(u) /\ ("canWrite" \in u.st <=> "canWrite" \in x.st)
    /\ (x.script => u.script) /\ (x.opened => u.opened)
    /\ Sending(u, g)
    /\ "canWrite" \in x.st => (Answering(x, g) => Answering(u, g)) /\ (LengthSound(x, g) => LengthSound(u, g))
                              /\ (u.opened => x.opened)

LEMMA ServedInd ==
  ASSUME IInv, life = "open", NEW u, Offered(ctx, u, got), NEW r, Serves(u, r, got),
         ctx' = r.x, life' = Ended(r.ret),
         rebuilt' = (rebuilt \/ /\ "canWrite" \in ctx.st /\ r.ret = "continue"
                                /\ "cgiIn" \in r.x.st \/ ctx.opened),
         UNCHANGED <<peerOpen, got, cause>>
  PROVE  IInv'
  <1>1. /\ TypeOK /\ Sending(ctx, got)
        /\ "canWrite" \notin ctx.st => Pristine(got) /\ ~rebuilt
        /\ ~Diverged => Answering(ctx, got) /\ LengthSound(ctx, got)
    BY DEF IInv
  <1>2. /\ ctx' \in Context /\ r.ret \in {"continue", "error", "throw"}
        /\ (ctx.script => ctx'.script) /\ (ctx.opened => ctx'.opened)
        /\ r.ret # "continue" => "canWrite" \notin ctx.st /\ ~ctx'.opened
        /\ r.ret = "continue" => Leaves(u, ctx', got)
    BY DEF Serves, Offered
  <1>3. life' = (CASE r.ret = "continue" -> "open" [] r.ret = "error" -> "lost" [] r.ret = "throw" -> "thrown")
    BY <1>2 DEF Ended
  <1>4. TypeOK'
    <2>1. rebuilt' \in BOOLEAN
      BY <1>1 DEF TypeOK
    <2>2. life' \in {"open", "lost", "thrown"}
      BY <1>2, <1>3
    <2> QED BY <1>1, <1>2, <2>1, <2>2 DEF TypeOK
  <1>5. ASSUME life' = "open"
        PROVE  /\ Stable(ctx') /\ Sending(ctx', got')
               /\ "canWrite" \notin ctx'.st => Pristine(got') /\ ~rebuilt'
               /\ ~Diverged' => Answering(ctx', got') /\ LengthSound(ctx', got')
    <2>1. r.ret = "continue" /\ Leaves(u, ctx', got)
      BY <1>2, <1>3, <1>5
    <2>2. Stable(ctx') /\ Sending(ctx', got') /\ ("canWrite" \notin ctx'.st => "canWrite" \notin ctx.st)
      BY <1>1, <2>1 DEF Leaves, Offered
    <2>3. "canWrite" \notin ctx'.st => Pristine(got') /\ ~rebuilt'
      BY <1>1, <2>2
    <2>4. ASSUME ~Diverged' PROVE Answering(ctx', got') /\ LengthSound(ctx', got')
      <3>1. ~rebuilt' /\ ~PageUnsent(ctx')
        BY <2>4 DEF Diverged, PageDiverges, PageUnsent
      <3>2. CASE "canWrite" \notin ctx.st
        BY <2>1, <3>1, <3>2 DEF Leaves, Offered
      <3>3. CASE "canWrite" \in ctx.st
        <4>1. ~rebuilt /\ "cgiIn" \notin ctx'.st /\ ~ctx.opened
          BY <2>1, <3>1, <3>3
        <4>2. ~Diverged
          BY <4>1 DEF Diverged, PageDiverges
        <4> QED BY <1>1, <2>1, <3>1, <3>3, <4>1, <4>2 DEF Leaves, Offered
      <3> QED BY <3>2, <3>3
    <2> QED BY <2>2, <2>3, <2>4
  <1>6. NoLogicError'
    BY <1>2, <1>3 DEF NoLogicError
  <1>7. LateUnlessCGI'
    BY <1>2 DEF IInv, LateUnlessCGI
  <1>8. WellFormed'
    <2>1. CASE life' = "open"
      BY <1>5, <2>1 DEF WellFormed, Answering
    <2>2. CASE life' # "open"
      BY <1>1, <1>2, <1>3, <2>2 DEF WellFormed, Pristine
    <2> QED BY <2>1, <2>2
  <1>9. LengthKept'
    BY <1>2, <1>3 DEF LengthKept
  <1> QED BY <1>4, <1>5, <1>6, <1>7, <1>8, <1>9 DEF IInv

(* Every call of handleIn leaves the head unread, or serves a context that *)
(* what has been read offers.                                              *)
LEMMA SocketInIs ==
  ASSUME IInv, life = "open",
         NEW r \in IF Read \subseteq ctx.st THEN ReadMore(ctx) ELSE ReadHead(ctx)
  PROVE  \/ ~HeadRead(ctx) /\ r \in {Result("continue", ctx), Result("continue", Set(ctx, {"line"}))}
         \/ \E u : Offered(ctx, u, got) /\ r \in Serve(u) /\ (HeadRead(ctx) => u.method = ctx.method)
  <1>1. /\ TypeOK /\ Stable(ctx) /\ Sending(ctx, got) /\ ("canWrite" \notin ctx.st => Pristine(got) /\ ~rebuilt)
    BY DEF IInv
  <1>2. CASE HeadRead(ctx)
    <2>0. Servable(ctx) /\ r \in ReadMore(ctx)
      BY <1>1, <1>2 DEF Stable, HeadRead
    <2>1. CASE r \in Serve(ctx)
      <3>1. Offered(ctx, ctx, got)
        BY <1>1, <2>0 DEF Offered
      <3> QED BY <2>1, <3>1
    <2>2. CASE \E n \in Arrivals(ctx) : r \in Serve([Received(ctx, n) EXCEPT !.age["body"] = 0])
      <3>1. PICK n \in Arrivals(ctx) : r \in Serve([Received(ctx, n) EXCEPT !.age["body"] = 0])
        BY <2>2
      <3> DEFINE y == Received(ctx, n)
                 u == [y EXCEPT !.age["body"] = 0]
      <3>2. Fed(ctx, y) /\ Servable(y)
        BY <2>0, ReceivedIs
      <3> HIDE DEF y
      <3>3. Alike(y, u)
        <4>1. u = [y EXCEPT !.age = [y.age EXCEPT !["body"] = 0]]
          OBVIOUS
        <4>2. y.age \in [Timer -> 0 .. Off] /\ y \in Context /\ 0 \in 0 .. Off
          BY <3>2, Numbers DEF Servable, Context, Off
        <4> QED BY <4>1, <4>2, AgeIs DEF Alike
      <3> HIDE DEF u
      <3>4. Servable(u)
        BY <3>2, <3>3, AlikeServable
      <3>5. /\ Answering(ctx, got) => Answering(u, got)
            /\ LengthSound(ctx, got) => LengthSound(u, got)
            /\ Sending(u, got)
        BY <1>1, <3>2, <3>3, FedAnswers, AlikeAnswers
      <3>6. u.st = ctx.st /\ u.script = ctx.script /\ u.opened = ctx.opened /\ u.method = ctx.method
        BY <3>2, <3>3 DEF Fed, Alike, SameRequest, SameAnswer
      <3>7. Offered(ctx, u, got)
        BY <3>4, <3>5, <3>6 DEF Offered
      <3>8. r \in Serve(u)
        BY <3>1 DEF u, y
      <3> QED BY <3>6, <3>7, <3>8
    <2> QED BY <2>0, <2>1, <2>2 DEF ReadMore
  <1>3. CASE ~HeadRead(ctx)
    <2>1. /\ ~ctx.script /\ ~ctx.opened /\ ctx.st \subseteq {"line"} /\ ctx.method = "none" /\ ctx \in Context
          /\ Pristine(got)
      BY <1>1, <1>3, UnreadIs DEF Blank
    <2>2. ASSUME NEW u, Servable(u), "canWrite" \notin u.st PROVE Offered(ctx, u, got)
      <3>1. Sending(u, got)
        BY <2>1, <2>2, PristineSound DEF Servable
      <3> QED BY <2>1, <2>2, <3>1 DEF Offered
    <2>3. \/ r = Result("continue", ctx) \/ r = Result("continue", Set(ctx, {"line"}))
          \/ r = Respond([Set(ctx, ReadAll \cup {"workIn"}) EXCEPT !.status = "error"])
          \/ \E req \in Requests : \E y \in Resolved(ctx, req) : \E n \in Arrivals(y) :
               r \in Serve(Received(y, n))
      <3>1. r \in ReadHead(ctx)
        BY <1>3 DEF HeadRead
      <3> QED BY <3>1 DEF ReadHead
    <2>4. CASE r = Respond([Set(ctx, ReadAll \cup {"workIn"}) EXCEPT !.status = "error"])
      <3> DEFINE v == Set(ctx, ReadAll \cup {"workIn"})
                 u == [v EXCEPT !.status = "error"]
      <3>1. /\ v \in Context /\ v.st = ctx.st \cup (ReadAll \cup {"workIn"})
            /\ SameRequest(ctx, v) /\ SameAnswer(ctx, v)
        BY <2>1, SetIs, FlagSets
      <3> HIDE DEF v
      <3>2. /\ u \in Context /\ u.st = v.st /\ u.status = "error" /\ SameRequest(v, u)
            /\ u.length = v.length /\ u.body = v.body /\ u.out = v.out
            /\ u.file = v.file /\ u.page = v.page /\ u.opened = v.opened
        BY <3>1 DEF Context, Status, Error, SameRequest
      <3> HIDE DEF u
      <3>3. Blank(u) /\ u.method = "none" /\ ~u.script /\ u.cgi = {} /\ ~u.child /\ u.length = Unknown
            /\ u.body = 0
        BY <1>1, <1>3, <3>1, <3>2, UnreadIs DEF Blank, SameRequest, SameAnswer
      <3>4. /\ "workIn" \in u.st /\ {"line", "hdr"} \subseteq u.st
            /\ {"canWrite", "cgiHdr"} \cap u.st = {} /\ "error" \in Error
        BY <2>1, <3>1, <3>2, FlagSets
      <3>5. Owned(u) /\ Owing(u)
        BY <3>2, <3>3, <3>4 DEF Owned, Owing
      <3>6. Servable(u) /\ "canWrite" \notin u.st
        BY <3>2, <3>3, <3>4, <3>5, FlagSets, BlankServable
      <3>7. r \in Serve(u)
        BY <2>4, <3>4 DEF Serve, u, v
      <3> QED BY <1>3, <2>2, <3>6, <3>7
    <2>5. CASE \E req \in Requests : \E y \in Resolved(ctx, req) : \E n \in Arrivals(y) :
                 r \in Serve(Received(y, n))
      <3>a. PICK req \in Requests : \E y \in Resolved(ctx, req) : \E n \in Arrivals(y) :
                                     r \in Serve(Received(y, n))
        BY <2>5
      <3>b. PICK y \in Resolved(ctx, req) : \E n \in Arrivals(y) : r \in Serve(Received(y, n))
        BY <3>a
      <3>1. PICK n \in Arrivals(y) : r \in Serve(Received(y, n))
        BY <3>b
      <3>2. Servable(y) /\ "canWrite" \notin y.st
        BY <1>1, <1>3, ResolvedServable, ConnectionAssumption
      <3>3. Servable(Received(y, n)) /\ "canWrite" \notin Received(y, n).st
        BY <3>2, ReceivedIs DEF Fed
      <3> QED BY <1>3, <2>2, <3>1, <3>3
    <2> QED BY <1>3, <2>3, <2>4, <2>5
  <1> QED BY <1>2, <1>3

LEMMA HandleSocketInInd ==
  ASSUME IInv, HandleSocketIn
  PROVE  IInv'
  <1>1. PICK r \in IF Read \subseteq ctx.st THEN ReadMore(ctx) ELSE ReadHead(ctx) :
          /\ ctx' = r.x /\ life' = Ended(r.ret)
          /\ rebuilt' = (rebuilt \/ /\ "canWrite" \in ctx.st /\ r.ret = "continue"
                                    /\ "cgiIn" \in r.x.st \/ ctx.opened)
    BY DEF HandleSocketIn
  <1>2. /\ life = "open" /\ UNCHANGED <<peerOpen, got, cause>> /\ TypeOK
        /\ Stable(ctx) /\ Sending(ctx, got) /\ ("canWrite" \notin ctx.st => Pristine(got) /\ ~rebuilt)
    BY DEF HandleSocketIn, IInv
  <1>3. CASE \E u : Offered(ctx, u, got) /\ r \in Serve(u)
    <2>1. PICK u : Offered(ctx, u, got) /\ r \in Serve(u)
      BY <1>3
    <2>2. "canWrite" \notin u.st => Pristine(got)
      BY <1>2, <2>1 DEF Offered
    <2>3. Serves(u, r, got)
      BY <1>2, <2>1, <2>2, GotNumbers, ServeSound DEF Offered
    <2> QED BY <1>1, <1>2, <2>1, <2>3, ServedInd
  <1>4. CASE ~HeadRead(ctx) /\ r \in {Result("continue", ctx), Result("continue", Set(ctx, {"line"}))}
    <2>1. ctx.st \subseteq {"line"} /\ ~ctx.script /\ ~ctx.opened /\ ctx \in Context
      BY <1>2, <1>4, UnreadIs DEF Blank
    <2>2. Pristine(got) /\ ~rebuilt
      BY <1>2, <2>1
    <2>3. r.ret = "continue" /\ (r.x = ctx \/ r.x = Set(ctx, {"line"}))
      BY <1>4, ResultIs
    <2>4. life' = "open" /\ rebuilt' = rebuilt
      <3>1. "canWrite" \notin ctx.st /\ rebuilt \in BOOLEAN
        BY <1>2, <2>1, GotNumbers
      <3>2. Ended("continue") = "open"
        BY DEF Ended
      <3> QED BY <1>1, <2>3, <3>1, <3>2
    <2>5. Stable(ctx') /\ ~HeadRead(ctx')
      <3>1. CASE ctx' = ctx
        BY <1>2, <1>4, <3>1
      <3>2. CASE ctx' = Set(ctx, {"line"})
        <4>1. /\ ctx' \in Context /\ ctx'.st = ctx.st \cup {"line"} /\ ctx'.age = ctx.age
          BY <2>1, <3>2, SetIs, FlagSets
        <4>2. ctx = [Fresh EXCEPT !.st = ctx.st, !.age = ctx.age] /\ ctx.age["body"] = Off
          BY <1>2, <1>4 DEF Stable
        <4>3. ctx' = [Fresh EXCEPT !.st = ctx'.st, !.age = ctx'.age]
          <5>1. ctx' = [ctx EXCEPT !.st = ctx.st \cup {"line"}]
            BY <3>2 DEF Set
          <5> QED BY ZenonT(30), <4>1, <4>2, <5>1 DEF Fresh
        <4>4. ctx'.st \subseteq {"line"} /\ ~HeadRead(ctx')
          BY <2>1, <4>1, FlagSets DEF HeadRead
        <4> QED BY <4>1, <4>2, <4>3, <4>4 DEF Stable
      <3> QED BY <1>1, <2>3, <3>1, <3>2
    <2>6. Sending(ctx', got') /\ Answering(ctx', got') /\ LengthSound(ctx', got')
      BY <1>2, <2>2, <2>5, UnreadSound
    <2>7. ctx' \in Context
      BY <2>5 DEF Stable
    <2>8. cause # "notLate"
      BY <2>1 DEF IInv, LateUnlessCGI
    <2>9. TypeOK'
      BY <1>2, <2>4, <2>7 DEF TypeOK
    <2>10. NoLogicError' /\ LateUnlessCGI' /\ WellFormed' /\ LengthKept'
      BY <1>2, <2>2, <2>4, <2>8 DEF NoLogicError, LateUnlessCGI, WellFormed, LengthKept, Pristine
    <2> QED BY <1>2, <2>2, <2>4, <2>5, <2>6, <2>9, <2>10 DEF IInv
  <1> QED BY <1>1, <1>2, <1>3, <1>4, SocketInIs

-----------------------------------------------------------------------------
(* handleOut on the client socket. *)

(* Units move from what remains to the buffer. *)
Moved(x, y) ==
    /\ y \in Context /\ SameRequest(x, y) /\ y.length = x.length /\ y.body = x.body
    /\ y.opened = x.opened /\ y.out.head = x.out.head /\ y.out.length = x.out.length
    /\ y.file <= x.file /\ y.page <= x.page
    /\ y.out.len + y.file + PageLeft(y) = x.out.len + x.file + PageLeft(x)

LEMMA MovedSet ==
  ASSUME NEW x \in Context, NEW y, Moved(x, y)
  PROVE  LET z == Set(y, {"workOut"})
         IN Moved(x, z) /\ z.st = y.st \cup {"workOut"} /\ SameAnswer(y, z)
  <1> DEFINE z == Set(y, {"workOut"})
  <1>1. /\ z \in Context /\ z.st = y.st \cup {"workOut"} /\ SameRequest(y, z) /\ SameAnswer(y, z)
    BY SetIs, FlagSets DEF Moved
  <1> HIDE DEF z
  <1>2. Moved(x, z)
    BY <1>1 DEF Moved, SameRequest, SameAnswer, PageLeft
  <1> QED BY <1>1, <1>2 DEF z

LEMMA MovedSelf ==
  ASSUME NEW x \in Context
  PROVE  Moved(x, x)
  BY ContextNumbers DEF Moved, SameRequest

LEMMA ReadUnits ==
  ASSUME NEW x \in Context, Fits(x), NEW k \in Nat, k <= x.file
  PROVE  LET y == [Appended(x, k) EXCEPT !.file = @ - k]
         IN /\ Moved(x, y) /\ y.st = x.st /\ y.status = x.status /\ y.page = x.page
            /\ y.file = x.file - k /\ y.out.len = x.out.len + k
  <1> DEFINE o == [x.out EXCEPT !.len = x.out.len + k]
             f == x.file - k
             n == x.out.len + k
             y == [Appended(x, k) EXCEPT !.file = @ - k]
  <1>1. /\ x.out.len \in Nat /\ x.file \in Nat /\ x.page \in Nat /\ x.out \in Buffer
        /\ x.file <= MaxFile /\ x.out.len + x.file + PageLeft(x) <= MaxUnits /\ PageLeft(x) \in Nat
    BY ContextNumbers, Numbers DEF Fits, PageLeft
  <1>2. n \in Units /\ f \in Units /\ f <= x.file
    <2>1. x.out.len + x.file <= MaxUnits
      BY <1>1, Numbers
    <2>2. n \in Nat /\ n <= MaxUnits
      BY <1>1, <2>1, Numbers
    <2>3. f \in Nat /\ f <= x.file /\ f <= MaxUnits
      BY <1>1, <2>1, Numbers
    <2> HIDE DEF n, f
    <2> QED BY <2>2, <2>3, Numbers
  <1>3. n + f = x.out.len + x.file
    BY <1>1
  <1>4. y = [x EXCEPT !.out = o, !.file = f]
    BY DEF Appended
  <1>5. o \in Buffer /\ o.len = n /\ o.head = x.out.head /\ o.length = x.out.length
    BY <1>1, <1>2 DEF Buffer
  <1> HIDE DEF o, f, n, y
  <1>6. y \in Context /\ y.out = o /\ y.file = f
    BY <1>2, <1>4, <1>5 DEF Context
  <1>7. /\ SameRequest(x, y) /\ y.length = x.length /\ y.body = x.body /\ y.opened = x.opened
        /\ y.st = x.st /\ y.status = x.status /\ y.page = x.page
    BY <1>4 DEF Context, SameRequest
  <1>8. y.out.len + y.file + PageLeft(y) = x.out.len + x.file + PageLeft(x)
    <2>1. PageLeft(y) = PageLeft(x)
      BY <1>7 DEF PageLeft
    <2> QED BY <1>3, <1>5, <1>6, <2>1
  <1>9. Moved(x, y)
    BY <1>1, <1>2, <1>5, <1>6, <1>7, <1>8 DEF Moved
  <1> QED BY <1>5, <1>6, <1>7, <1>9 DEF y, f, n

(* What the producing half of handleOut does. *)
Listed(x) == x.method = "GET" /\ x.listing /\ x.status \notin Error

Produces(x, r) ==
    /\ r.ret \in {"continue", "error"} /\ Moved(x, r.x)
    /\ r.x.st \in {x.st, x.st \cup {"workOut"}} /\ ("workOut" \in x.st => r.x = x)
    /\ r.x.status = x.status \/ (x.status \notin Error /\ r.x.status = "error")
    /\ r.x.out.len + Remaining(r.x) = x.out.len + Remaining(x) \/ Listed(x)

LEMMA ProduceIs ==
  ASSUME NEW x, Servable(x), "canWrite" \in x.st, NEW r \in Produce(x)
  PROVE  Produces(x, r)
  <1>1. x \in Context /\ Fits(x) /\ Owned(x) /\ "workOut" \in Flag
    BY FlagSets DEF Servable
  <1>2. /\ x.out.len \in Nat /\ x.file \in Nat /\ x.page \in Nat /\ x.out \in Buffer
        /\ PageLeft(x) \in Nat /\ x.listing \in BOOLEAN
    BY <1>1, ContextNumbers, Numbers DEF PageLeft, Context
  <1>3. Moved(x, x)
    BY <1>1, MovedSelf
  <1>4. CASE r = Result("continue", x)
    <2>1. r.ret = "continue" /\ r.x = x
      BY <1>4, ResultIs
    <2> QED BY <1>3, <2>1 DEF Produces
  <1> DEFINE done == Set(x, {"workOut"})
  <1>5. /\ Moved(x, done) /\ done.st = x.st \cup {"workOut"} /\ SameAnswer(x, done)
    BY <1>1, <1>3, MovedSet
  <1>6. ASSUME "workOut" \notin x.st, r = Result("continue", done), Remaining(x) = 0
        PROVE  Produces(x, r)
    <2>1. r.ret = "continue" /\ r.x = done
      BY <1>6, ResultIs
    <2>2. Remaining(done) = 0
      BY <1>5 DEF Remaining
    <2> HIDE DEF done
    <2> QED BY <1>5, <1>6, <2>1, <2>2 DEF Produces, SameAnswer
  <1>7. CASE "workOut" \notin x.st /\ x.status \in Error
    <2>1. r = Result("continue", ReadErrorPage(x)) /\ Remaining(x) = x.page
      BY <1>7 DEF Produce, Remaining
    <2>2. CASE x.page = 0
      BY <1>6, <1>7, <2>1, <2>2 DEF ReadErrorPage
    <2>3. CASE x.page # 0
      <3> DEFINE n == x.out.len + x.page
                 o == [x.out EXCEPT !.len = n]
                 y == [Appended(x, x.page) EXCEPT !.page = 0]
      <3>1. r.ret = "continue" /\ r.x = y
        BY <2>1, <2>3, ResultIs DEF ReadErrorPage
      <3>2. x.opened /\ PageLeft(x) = x.page
        BY <1>1, <2>3 DEF Fits, PageLeft
      <3>3. n \in Units /\ 0 \in 0 .. SendMax /\ 0 <= x.page
        BY SMTT(30), <1>1, <1>2, <3>2, Numbers DEF Fits
      <3>4. y = [x EXCEPT !.out = o, !.page = 0]
        BY DEF Appended
      <3>5. o \in Buffer /\ o.len = n /\ o.head = x.out.head /\ o.length = x.out.length
        BY <1>2, <3>3 DEF Buffer
      <3>6. n + x.file + 0 = x.out.len + x.file + x.page /\ n + 0 = x.out.len + x.page
        BY <1>2
      <3> HIDE DEF n, o, y
      <3>7. y \in Context /\ y.out = o /\ y.page = 0
        BY <1>1, <3>3, <3>4, <3>5 DEF Context
      <3>8. /\ SameRequest(x, y) /\ y.length = x.length /\ y.body = x.body /\ y.opened = x.opened
            /\ y.st = x.st /\ y.status = x.status /\ y.file = x.file
        BY <1>1, <3>4 DEF Context, SameRequest
      <3>9. Moved(x, y)
        BY <1>2, <3>2, <3>3, <3>5, <3>6, <3>7, <3>8 DEF Moved, PageLeft
      <3>10. Remaining(y) = 0
        BY <1>7, <3>7, <3>8 DEF Remaining
      <3>11. y.out.len + Remaining(y) = x.out.len + Remaining(x)
        BY <2>1, <3>5, <3>6, <3>7, <3>10
      <3> QED BY <1>7, <3>1, <3>8, <3>9, <3>11 DEF Produces
    <2> QED BY <2>2, <2>3
  <1>8. CASE "workOut" \notin x.st /\ x.status \notin Error /\ x.method \in {"GET", "POST"}
    <2> DEFINE k == ReadSize(x)
               y == [Appended(x, k) EXCEPT !.file = @ - k]
    <2>1. r \in WorkOut(x)
      BY <1>8 DEF Produce
    <2>2. k \in Nat /\ k <= x.file
      BY <1>2, Numbers DEF ReadSize, Lesser
    <2>3. /\ Moved(x, y) /\ y.st = x.st /\ y.status = x.status
          /\ y.file = x.file - k /\ y.out.len = x.out.len + k
      BY <1>1, <2>2, ReadUnits
    <2>4. CASE x.method = "POST"
      <3>1. r = Result("continue", done)
        BY <2>1, <2>4 DEF WorkOut
      <3>2. Remaining(x) = 0
        BY <1>8, <2>4 DEF Remaining
      <3> QED BY <1>6, <1>8, <3>1, <3>2
    <2>5. CASE x.method = "GET" /\ ~x.listing
      <3>1. r = Result("continue", IF x.file = 0 THEN done ELSE y)
        BY <2>1, <2>5 DEF WorkOut, ReadFile
      <3>2. Remaining(x) = x.file
        BY <1>8, <2>5 DEF Remaining
      <3>3. CASE x.file = 0
        BY <1>6, <1>8, <3>1, <3>2, <3>3
      <3>4. CASE x.file # 0
        <4>1. r.ret = "continue" /\ r.x = y
          BY <3>1, <3>4, ResultIs
        <4>2. (x.out.len + k) + (x.file - k) = x.out.len + x.file
          BY <1>2, <2>2
        <4> HIDE DEF y, k
        <4>3. y.method = "GET"
          BY <2>3, <2>5 DEF Moved, SameRequest
        <4>4. Remaining(y) = y.file
          BY <1>8, <2>3, <4>3 DEF Remaining
        <4> QED BY <1>8, <2>3, <3>2, <4>1, <4>2, <4>4 DEF Produces
      <3> QED BY <3>3, <3>4
    <2>6. CASE x.method = "GET" /\ x.listing
      <3> DEFINE z == Set(y, {"workOut"})
                 e == [x EXCEPT !.status = "error"]
      <3>1. \/ r = Result("continue", IF y.file = 0 THEN z ELSE y) \/ r = Result("error", e)
        BY <2>1, <2>6 DEF WorkOut, ReadDir
      <3>2. Moved(x, z) /\ z.st = y.st \cup {"workOut"} /\ SameAnswer(y, z)
        BY <1>1, <2>3, MovedSet
      <3>3. /\ e \in Context /\ SameRequest(x, e) /\ e.st = x.st /\ e.status = "error"
            /\ e.length = x.length /\ e.body = x.body /\ e.out = x.out /\ e.file = x.file
            /\ e.page = x.page /\ e.opened = x.opened
        BY <1>1 DEF Context, SameRequest, Status, Error
      <3> HIDE DEF y, z, e, k
      <3>4. Moved(x, e)
        BY <1>2, <3>3 DEF Moved, PageLeft
      <3>5. Listed(x)
        BY <1>8, <2>6 DEF Listed
      <3>6. CASE r = Result("error", e)
        <4>1. r.ret = "error" /\ r.x = e
          BY <3>6, ResultIs
        <4> QED BY <1>8, <3>3, <3>4, <3>5, <4>1 DEF Produces
      <3>7. CASE r = Result("continue", y)
        <4>1. r.ret = "continue" /\ r.x = y
          BY <3>7, ResultIs
        <4> QED BY <1>8, <2>3, <3>5, <4>1 DEF Produces
      <3>8. CASE r = Result("continue", z)
        <4>1. r.ret = "continue" /\ r.x = z
          BY <3>8, ResultIs
        <4> QED BY <1>8, <2>3, <3>2, <3>5, <4>1 DEF Produces, SameAnswer
      <3> QED BY <3>1, <3>6, <3>7, <3>8
    <2> QED BY <1>2, <1>8, <2>4, <2>5, <2>6
  <1>9. \/ "workOut" \in x.st \/ x.status \in Error \/ x.method \in {"none", "GET", "POST"}
    BY <1>1 DEF Owned, Context
  <1>10. CASE "workOut" \in x.st
    BY <1>4, <1>10 DEF Produce
  <1>11. CASE "workOut" \notin x.st /\ x.status \notin Error /\ x.method = "none"
    BY <1>4, <1>11 DEF Produce
  <1> QED BY <1>7, <1>8, <1>9, <1>10, <1>11

LEMMA ProducedServable ==
  ASSUME NEW x, Servable(x), "canWrite" \in x.st, NEW r, Produces(x, r)
  PROVE  LET y == r.x
         IN Servable(y) /\ "canWrite" \in y.st /\ (PageUnsent(x) => PageUnsent(y))
            /\ ("cgiOut" \in x.st => "cgiOut" \in y.st) /\ ("workIn" \in x.st => "workIn" \in y.st)
  <1> DEFINE y == r.x
  <1>1. /\ Moved(x, y) /\ y.st \in {x.st, x.st \cup {"workOut"}} /\ ("workOut" \in x.st => y = x)
        /\ y.status = x.status \/ (x.status \notin Error /\ y.status = "error")
    BY DEF Produces
  <1> HIDE DEF y
  <1>2. /\ x \in Context /\ HeadRead(x) /\ Fits(x) /\ Owned(x) /\ Owing(x) /\ x.body = 0
        /\ "workIn" \in x.st /\ (~x.script /\ ~x.opened => "cgiOut" \in x.st \/ x.status \in Error)
    BY DEF Servable
  <1>3. y \in Context /\ SameRequest(x, y) /\ y.body = x.body /\ y.opened = x.opened
        /\ y.file <= x.file /\ y.page <= x.page
        /\ y.out.len + y.file + PageLeft(y) = x.out.len + x.file + PageLeft(x)
    BY <1>1 DEF Moved
  <1>4. x.st \subseteq y.st /\ (x.status \in Error => y.status \in Error) /\ ("cgiIn" \in y.st => "cgiIn" \in x.st)
    BY <1>1
  <1>5. /\ x.file \in Nat /\ y.file \in Nat /\ x.page \in Nat /\ y.page \in Nat /\ x.opened \in BOOLEAN
    BY <1>2, <1>3, ContextNumbers
  <1>6. Fits(y)
    <2>1. y.file <= MaxFile /\ (~y.opened => y.page = 0)
      BY <1>2, <1>3, <1>5, Numbers DEF Fits
    <2>2. y.out.len + y.file + PageLeft(y) <= MaxUnits
      BY <1>2, <1>3 DEF Fits
    <2> QED BY <1>2, <1>3, <2>1, <2>2 DEF Fits, SameRequest
  <1>7. Owned(y)
    BY <1>2, <1>3, <1>4 DEF Owned, SameRequest
  <1>8. HeadRead(y) /\ Owing(y)
    BY <1>2, <1>4 DEF HeadRead, Owing
  <1>9. PageUnsent(x) => PageUnsent(y)
    BY <1>1, <1>3 DEF PageUnsent, SameRequest
  <1>10. Servable(y)
    BY <1>2, <1>3, <1>4, <1>6, <1>7, <1>8 DEF Servable, SameRequest
  <1> QED BY <1>4, <1>9, <1>10 DEF y

LEMMA ProducedAnswers ==
  ASSUME NEW x, Servable(x), "canWrite" \in x.st, NEW r, Produces(x, r), NEW g, g.len \in Nat
  PROVE  LET y == r.x
         IN /\ Sending(x, g) => Sending(y, g)
            /\ Answering(x, g) /\ LengthSound(x, g) => Answering(y, g) /\ LengthSound(y, g)
  <1> DEFINE y == r.x
  <1>1. /\ Moved(x, y) /\ y.st \in {x.st, x.st \cup {"workOut"}} /\ ("workOut" \in x.st => y = x)
        /\ y.status = x.status \/ (x.status \notin Error /\ y.status = "error")
        /\ y.out.len + Remaining(y) = x.out.len + Remaining(x) \/ Listed(x)
    BY DEF Produces
  <1> HIDE DEF y
  <1>2. /\ x \in Context /\ y \in Context /\ SameRequest(x, y) /\ y.out.head = x.out.head
        /\ y.out.length = x.out.length /\ y.length = x.length
        /\ y.out.len + y.file + PageLeft(y) = x.out.len + x.file + PageLeft(x)
    BY <1>1 DEF Moved, Servable
  <1>3. /\ x.out.len \in Nat /\ y.out.len \in Nat /\ x.file \in Nat /\ y.file \in Nat
        /\ x.page \in Nat /\ y.page \in Nat /\ PageLeft(x) \in Nat /\ PageLeft(y) \in Nat
        /\ Remaining(x) \in Nat /\ Remaining(y) \in Nat
    BY <1>2, ContextNumbers, Numbers DEF PageLeft, Remaining
  <1>4. Sending(x, g) => Sending(y, g)
    <2>1. y.out.len + (y.file + PageLeft(y)) = x.out.len + (x.file + PageLeft(x))
      BY <1>2, <1>3
    <2>2. g.len + y.out.len + y.file + PageLeft(y) = g.len + x.out.len + x.file + PageLeft(x)
      BY <1>2, <1>3, <2>1
    <2> QED BY <1>2, <2>2 DEF Sending
  <1>5. ASSUME Answering(x, g), LengthSound(x, g) PROVE Answering(y, g) /\ LengthSound(y, g)
    <2>1. CASE "workOut" \in x.st
      BY <1>1, <1>5, <2>1
    <2>2. CASE "workOut" \notin x.st
      <3>1. x.out.head \/ g.head
        BY <1>5, <2>2 DEF Answering
      <3>2. ~x.child /\ ~(x.method = "POST" /\ x.script)
        BY <1>5, <2>2 DEF Answering
      <3>3. Answering(y, g)
        <4>1. ~y.child /\ ~(y.method = "POST" /\ y.script) /\ (y.out.head \/ g.head)
          BY <1>2, <3>1, <3>2 DEF SameRequest
        <4>2. y.method = "GET" /\ y.listing /\ y.status \notin Error => y.out.length = Unknown /\ g.length = Unknown
          BY <1>1, <1>2, <1>5, FlagSets DEF Answering, SameRequest
        <4>3. ~g.bad /\ (y.out.head => ~g.head /\ g.len = 0) /\ (~g.head => g.len = 0 /\ g.length = Unknown)
          BY <1>2, <1>5 DEF Answering
        <4> QED BY <4>1, <4>2, <4>3 DEF Answering
      <3>4. LengthSound(y, g)
        <4>1. CASE Listed(x)
          <5>1. x.out.length = Unknown /\ g.length = Unknown
            BY <1>5, <4>1 DEF Answering, Listed
          <5> QED BY <1>2, <5>1 DEF LengthSound
        <4>2. CASE y.out.len + Remaining(y) = x.out.len + Remaining(x)
          <5>1. g.len + y.out.len + Remaining(y) = g.len + x.out.len + Remaining(x)
            BY <1>3, <4>2
          <5> QED BY <1>2, <1>5, <4>2, <5>1 DEF LengthSound, SameRequest
        <4> QED BY <1>1, <4>1, <4>2
      <3> QED BY <3>3, <3>4
    <2> QED BY <2>1, <2>2
  <1> QED BY <1>4, <1>5 DEF y

(* _sendResponse. *)
Sent(b, n) ==
    [head |-> b.head /\ n = 0, len |-> b.len - (IF b.head /\ n > 0 THEN n - 1 ELSE n),
     length |-> IF n = 0 THEN b.length ELSE Unknown]

(* m units of body are delivered and the rest stays. *)
Parted(b, rest, g) ==
    \E m \in Nat :
       /\ m <= b.len /\ rest.len = b.len - m
       /\ g.bad <=> \/ got.bad
                    \/ b.head /\ (got.head \/ got.len > 0)
                    \/ ~b.head /\ m > 0 /\ ~got.head
       /\ g.bad => g.len = 0 /\ g.length = Unknown
       /\ ~g.bad => /\ g.head <=> got.head \/ b.head
                    /\ g.len = got.len + m
                    /\ g.length = IF b.head THEN b.length ELSE got.length

LEMMA SentIs ==
  ASSUME TypeOK, NEW b \in Buffer, NEW n, n = Lesser(SendMax, Size(b))
  PROVE  LET rest == Sent(b, n)
             g == Delivered(b, n)
         IN /\ n \in Nat
            /\ rest.head = FALSE /\ rest.length \in {b.length, Unknown} /\ rest.len \in Nat
            /\ g.head \in BOOLEAN /\ g.bad \in BOOLEAN
            /\ Parted(b, rest, g)
  <1>1. /\ got.len \in Nat /\ got.head \in BOOLEAN /\ got.bad \in BOOLEAN
        /\ b.len \in Nat /\ b.head \in BOOLEAN /\ SendMax \in Nat /\ SendMax > 0
    BY GotNumbers, Numbers DEF Buffer
  <1>2. n \in Nat /\ (b.head => n > 0 /\ n <= b.len + 1) /\ (~b.head => n <= b.len)
    BY <1>1 DEF Lesser, Size
  <1>3. CASE b.head
    <2>1. n - 1 \in Nat /\ n - 1 <= b.len /\ n # 0 /\ n > 0 /\ b.len - (n - 1) \in Nat
      BY <1>1, <1>2, <1>3
    <2>2. /\ Sent(b, n).head = FALSE /\ Sent(b, n).len = b.len - (n - 1) /\ Sent(b, n).length = Unknown
      BY <1>3, <2>1 DEF Sent
    <2>3. /\ Delivered(b, n).bad <=> got.bad \/ got.head \/ got.len > 0
          /\ Delivered(b, n).head /\ Delivered(b, n).head \in BOOLEAN /\ Delivered(b, n).bad \in BOOLEAN
      <3>1. (IF b.head /\ n > 0 THEN 1 ELSE 0) = 1 /\ (n > 1 /\ ~got.head /\ 1 = 0 <=> FALSE)
        BY <1>3, <2>1
      <3>2. Delivered(b, n).bad <=> got.bad \/ got.head \/ got.len > 0
        BY <1>1, <1>3, <2>1, <3>1 DEF Delivered
      <3>3. Delivered(b, n).head
        BY <3>1 DEF Delivered
      <3>4. Delivered(b, n).head \in BOOLEAN
        BY DEF Delivered
      <3>5. Delivered(b, n).bad \in BOOLEAN
        BY DEF Delivered
      <3> QED BY <3>2, <3>3, <3>4, <3>5
    <2>4. CASE got.bad \/ got.head \/ got.len > 0
      <3>1. Delivered(b, n).len = 0 /\ Delivered(b, n).length = Unknown
        BY <1>1, <1>3, <2>1, <2>4 DEF Delivered
      <3>2. Parted(b, Sent(b, n), Delivered(b, n))
        BY <1>1, <1>3, <2>1, <2>2, <2>3, <2>4, <3>1 DEF Parted
      <3> QED BY <1>2, <2>1, <2>2, <2>3, <3>2
    <2>5. CASE ~(got.bad \/ got.head \/ got.len > 0)
      <3>1. Delivered(b, n).len = got.len + (n - 1) /\ Delivered(b, n).length = b.length
        BY <1>1, <1>3, <2>1, <2>5 DEF Delivered
      <3>2. Parted(b, Sent(b, n), Delivered(b, n))
        BY <1>1, <1>3, <2>1, <2>2, <2>3, <2>5, <3>1 DEF Parted
      <3> QED BY <1>2, <2>1, <2>2, <2>3, <3>2
    <2> QED BY <2>4, <2>5
  <1>4. CASE ~b.head
    <2>1. /\ Sent(b, n).head = FALSE /\ Sent(b, n).len = b.len - n /\ Sent(b, n).length \in {b.length, Unknown}
          /\ b.len - n \in Nat
      BY <1>1, <1>2, <1>4 DEF Sent
    <2>2. /\ Delivered(b, n).bad <=> got.bad \/ (n > 0 /\ ~got.head)
          /\ Delivered(b, n).head = got.head /\ Delivered(b, n).bad \in BOOLEAN
          /\ Delivered(b, n).bad => Delivered(b, n).len = 0 /\ Delivered(b, n).length = Unknown
          /\ ~Delivered(b, n).bad => Delivered(b, n).len = got.len + n /\ Delivered(b, n).length = got.length
      BY <1>1, <1>2, <1>4 DEF Delivered
    <2>3. Parted(b, Sent(b, n), Delivered(b, n))
      BY <1>1, <1>2, <1>4, <2>1, <2>2 DEF Parted
    <2> QED BY <1>1, <1>2, <1>4, <2>1, <2>2, <2>3
  <1> QED BY <1>1, <1>3, <1>4

LEMMA HandleSocketOutInd ==
  ASSUME IInv, HandleSocketOut
  PROVE  IInv'
  <1>1. /\ TypeOK /\ life = "open" /\ "canWrite" \in ctx.st /\ Stable(ctx) /\ Sending(ctx, got)
        /\ ~Diverged => Answering(ctx, got) /\ LengthSound(ctx, got)
        /\ UNCHANGED <<peerOpen, rebuilt, cause>>
    BY DEF HandleSocketOut, IInv
  <1>2. HeadRead(ctx) /\ Servable(ctx) /\ got.len \in Nat
    <2>1. ASSUME ~HeadRead(ctx) PROVE FALSE
      BY <1>1, <2>1, UnreadIs
    <2> QED BY <1>1, <2>1, GotNumbers DEF Stable
  <1>3. PICK r \in Produce(ctx) :
          LET b == r.x.out
              n == Lesser(SendMax, Size(b))
          IN IF r.ret = "misuse"
               THEN life' = "misused" /\ UNCHANGED <<ctx, got>>
               ELSE /\ ctx' = [r.x EXCEPT !.out = Sent(b, n), !.age["send"] = IF n > 0 THEN 0 ELSE @]
                    /\ got' = Delivered(b, n)
                    /\ life' = IF AllSent(r.x, Sent(b, n)) THEN "done" ELSE "open"
    BY DEF HandleSocketOut, Sent
  <1> DEFINE y == r.x
             b == y.out
             n == Lesser(SendMax, Size(b))
             rest == Sent(b, n)
             a == [y.age EXCEPT !["send"] = IF n > 0 THEN 0 ELSE @]
  <1>4. Produces(ctx, r)
    BY <1>1, <1>2, ProduceIs
  <1>5. /\ Servable(y) /\ "canWrite" \in y.st /\ (PageUnsent(ctx) => PageUnsent(y))
        /\ ("cgiOut" \in ctx.st => "cgiOut" \in y.st) /\ ("workIn" \in ctx.st => "workIn" \in y.st)
    BY <1>1, <1>2, <1>4, ProducedServable
  <1>6. /\ Sending(ctx, got) => Sending(y, got)
        /\ Answering(ctx, got) /\ LengthSound(ctx, got) => Answering(y, got) /\ LengthSound(y, got)
    BY <1>1, <1>2, <1>4, ProducedAnswers
  <1>7. Moved(ctx, y) /\ r.ret # "misuse" /\ y \in Context
    BY <1>4 DEF Produces, Moved
  <1>8. /\ ctx' = [y EXCEPT !.out = rest, !.age = a]
        /\ got' = Delivered(b, n)
        /\ life' = IF AllSent(y, rest) THEN "done" ELSE "open"
    BY <1>3, <1>7
  <1>9. b \in Buffer /\ b.len \in Nat /\ y.file \in Nat /\ PageLeft(y) \in Nat /\ y.age \in [Timer -> 0 .. Off]
        /\ b.length \in Units \cup {Unknown} /\ Remaining(y) \in Nat /\ b.len <= MaxUnits /\ y.page \in Nat
    BY <1>7, ContextNumbers, Numbers DEF PageLeft, Remaining, Context, Buffer
  <1>10. a \in [Timer -> 0 .. Off]
    <2>1. 0 \in 0 .. Off
      BY Numbers DEF Off
    <2> QED BY <1>9, <2>1
  <1> HIDE DEF y, b, n, rest, a
  <1>11. /\ n \in Nat /\ rest = Sent(b, n)
         /\ rest.head = FALSE /\ rest.length \in {b.length, Unknown} /\ rest.len \in Nat
         /\ got'.head \in BOOLEAN /\ got'.bad \in BOOLEAN
    BY <1>1, <1>8, <1>9, SentIs DEF n, rest
  <1>12. PICK m \in Nat :
           /\ m <= b.len /\ rest.len = b.len - m
           /\ got'.bad <=> \/ got.bad
                           \/ b.head /\ (got.head \/ got.len > 0)
                           \/ ~b.head /\ m > 0 /\ ~got.head
           /\ got'.bad => got'.len = 0 /\ got'.length = Unknown
           /\ ~got'.bad => /\ got'.head <=> got.head \/ b.head
                           /\ got'.len = got.len + m
                           /\ got'.length = IF b.head THEN b.length ELSE got.length
    <2>1. Parted(b, rest, got')
      BY <1>1, <1>8, <1>9, SentIs DEF n, rest
    <2> QED BY <2>1 DEF Parted
  <1>13. rest \in Buffer
    <2>1. rest.len <= MaxUnits
      BY <1>9, <1>11, <1>12, Numbers
    <2>2. rest.len \in Units /\ rest.length \in Units \cup {Unknown}
      BY <1>9, <1>11, <2>1, Numbers
    <2> QED BY <1>11, <2>2 DEF Buffer, Sent
  <1>14. /\ ctx' \in Context /\ ctx'.out = rest /\ ctx'.st = y.st /\ SameRequest(y, ctx')
         /\ ctx'.status = y.status /\ ctx'.length = y.length /\ ctx'.body = y.body
         /\ ctx'.file = y.file /\ ctx'.page = y.page /\ ctx'.opened = y.opened
    BY <1>7, <1>8, <1>10, <1>13 DEF Context, SameRequest
  <1>15. Remaining(ctx') = Remaining(y) /\ PageLeft(ctx') = PageLeft(y) /\ PageUnsent(ctx') = PageUnsent(y)
    BY <1>14 DEF Remaining, PageLeft, PageUnsent, SameRequest
  <1>16. y.out = b
    BY DEF b
  <1>17. got.bad \/ b.head \/ got.len + b.len + y.file + PageLeft(y) <= MaxUnits
    BY <1>1, <1>6, <1>16 DEF Sending
  <1>18. b.len + y.file + PageLeft(y) <= MaxUnits
    BY <1>5, <1>16 DEF Servable, Fits
  <1>19. ~got'.bad => got'.len + rest.len + y.file + PageLeft(y) <= MaxUnits
    <2> SUFFICES ASSUME ~got'.bad PROVE got'.len + rest.len + y.file + PageLeft(y) <= MaxUnits
      OBVIOUS
    <2>1. got'.len + rest.len = got.len + b.len /\ ~got.bad
      BY <1>2, <1>9, <1>12
    <2>2. CASE b.head
      <3>1. got.len = 0
        BY <1>2, <1>12, <2>2
      <3> QED BY <1>9, <1>18, <2>1, <3>1
    <2>3. CASE ~b.head
      BY <1>2, <1>9, <1>17, <2>1, <2>3
    <2> QED BY <2>2, <2>3
  <1>20. TypeOK'
    <2>1. got'.len \in Units
      <3>1. CASE got'.bad
        BY <1>12, <3>1, Numbers
      <3>2. CASE ~got'.bad
        <4>1. got'.len \in Nat
          BY <1>2, <1>12, <3>2
        <4>2. got'.len <= MaxUnits
          BY <1>9, <1>11, <1>19, <3>2, <4>1, Numbers
        <4> QED BY <4>1, <4>2, Numbers
      <3> QED BY <3>1, <3>2
    <2>2. got'.length \in Units \cup {Unknown}
      BY <1>1, <1>9, <1>12 DEF TypeOK
    <2>3. got' \in [head : BOOLEAN, len : Units, length : Units \cup {Unknown}, bad : BOOLEAN]
      BY <1>8, <1>11, <2>1, <2>2 DEF Delivered
    <2>4. life' \in {"open", "done"}
      BY <1>8
    <2> QED BY <1>1, <1>14, <2>3, <2>4 DEF TypeOK
  <1>21. Stable(ctx') /\ "canWrite" \in ctx'.st
    <2>1. Fits(ctx')
      <3>1. rest.len + y.file + PageLeft(y) <= b.len + y.file + PageLeft(y)
        BY <1>9, <1>11, <1>12
      <3>2. rest.len + y.file + PageLeft(y) <= MaxUnits
        BY <1>9, <1>11, <1>18, <3>1, Numbers
      <3> QED BY <1>5, <1>14, <1>15, <3>2 DEF Servable, Fits, SameRequest
    <2>2. Owned(ctx') /\ Owing(ctx') /\ HeadRead(ctx')
      BY <1>5, <1>14 DEF Servable, Owned, Owing, HeadRead, SameRequest
    <2>3. Servable(ctx')
      BY <1>5, <1>14, <2>1, <2>2 DEF Servable, SameRequest
    <2>4. "workIn" \in y.st
      BY <1>5 DEF Servable
    <2>5. ~y.script /\ ~y.opened => "cgiOut" \in y.st
      BY <1>1, <1>2, <1>5, <1>7 DEF Stable, Servable, Moved, SameRequest
    <2> QED BY <1>5, <1>14, <2>2, <2>3, <2>4, <2>5 DEF Stable, SameRequest
  <1>22. Sending(ctx', got')
    BY <1>14, <1>15, <1>19 DEF Sending
  <1>23. ASSUME ~Diverged' PROVE Answering(ctx', got') /\ LengthSound(ctx', got')
    <2>1. ~Diverged
      BY <1>1, <1>5, <1>15, <1>23 DEF Diverged, PageDiverges, PageUnsent
    <2>2. Answering(y, got) /\ LengthSound(y, got)
      BY <1>1, <1>6, <2>1
    <2>3. /\ ~got.bad /\ (b.head => ~got.head /\ got.len = 0) /\ (~b.head /\ b.len > 0 => got.head)
          /\ ~got.head => got.len = 0 /\ got.length = Unknown
      BY <1>16, <2>2 DEF Answering
    <2>4. ~got'.bad
      BY <1>2, <1>9, <1>12, <2>3
    <2>5. /\ got'.head <=> got.head \/ b.head
          /\ got'.len = got.len + m
          /\ got'.length = IF b.head THEN b.length ELSE got.length
      BY <1>12, <2>4
    <2>6. Answering(ctx', got')
      <3>1. ~ctx'.out.head /\ (ctx'.out.len > 0 => got'.head)
        <4>1. rest.len > 0 => b.len > 0
          BY <1>9, <1>11, <1>12
        <4> QED BY <1>11, <1>14, <2>3, <2>5, <4>1
      <3>2. ~got'.head => got'.len = 0 /\ got'.length = Unknown
        <4>1. ~got'.head => m = 0
          BY <1>9, <1>12, <2>3, <2>5
        <4> QED BY <2>3, <2>5, <4>1
      <3>3. "canWrite" \in y.st /\ ("workOut" \notin y.st \/ "cgiHdr" \in y.st) => got'.head
        BY <1>16, <2>2, <2>5 DEF Answering
      <3>4. y.child /\ {"cgiHdr", "cgiIn"} \cap y.st = {} => rest.len = 0 /\ ~got'.head
        <4>1. y.child /\ {"cgiHdr", "cgiIn"} \cap y.st = {} => ~b.head /\ b.len = 0 /\ ~got.head
          BY <1>16, <2>2 DEF Answering
        <4> QED BY <1>12, <2>5, <4>1
      <3>5. y.child \/ (y.method = "GET" /\ y.listing /\ y.status \notin Error) =>
              rest.length = Unknown /\ got'.length = Unknown
        <4>1. y.child \/ (y.method = "GET" /\ y.listing /\ y.status \notin Error) =>
                b.length = Unknown /\ got.length = Unknown
          BY <1>16, <2>2 DEF Answering
        <4> QED BY <1>11, <2>5, <4>1
      <3>6. (y.method = "POST" /\ y.script) \/ y.child => "workOut" \in y.st
        BY <2>2 DEF Answering
      <3> QED BY <1>11, <1>14, <2>4, <3>1, <3>2, <3>3, <3>4, <3>5, <3>6 DEF Answering, SameRequest
    <2>7. LengthSound(ctx', got')
      <3> SUFFICES ASSUME ctx'.method # "HEAD", got'.length # Unknown
                   PROVE  got'.length = got'.len + rest.len + Remaining(y)
        BY <1>11, <1>14, <1>15 DEF LengthSound
      <3>1. y.method # "HEAD"
        BY <1>14 DEF SameRequest
      <3>2. got'.len + rest.len = got.len + b.len
        BY <1>2, <1>9, <1>11, <1>12, <2>5
      <3>3. CASE b.head
        <4>1. got'.length = b.len + Remaining(y) /\ got.len = 0
          BY <1>16, <2>2, <2>3, <2>5, <3>1, <3>3 DEF LengthSound
        <4> QED BY <1>9, <3>2, <4>1
      <3>4. CASE ~b.head
        <4>1. got'.length = got.len + b.len + Remaining(y)
          BY <1>16, <2>2, <2>5, <3>1, <3>4 DEF LengthSound
        <4> QED BY <3>2, <4>1
      <3> QED BY <3>3, <3>4
    <2> QED BY <2>6, <2>7
  <1>24. NoLogicError' /\ LateUnlessCGI'
    BY <1>1, <1>7, <1>8, <1>14 DEF IInv, NoLogicError, LateUnlessCGI, Moved, SameRequest
  <1>25. WellFormed'
    BY <1>23 DEF WellFormed, Answering
  <1>26. LengthKept'
    <2> SUFFICES ASSUME life' = "done", ~Diverged', got'.length # Unknown, ctx'.method # "HEAD"
                 PROVE  got'.len = got'.length
      BY DEF LengthKept
    <2>1. AllSent(y, rest)
      BY <1>8
    <2>2. rest.len = 0 /\ Remaining(y) = 0
      BY <1>11, <2>1 DEF AllSent, Size, Work, Remaining
    <2>3. got'.length = got'.len + rest.len + Remaining(y)
      BY <1>11, <1>14, <1>15, <1>23 DEF LengthSound
    <2>4. ~got'.bad /\ got'.len \in Nat
      BY <1>20, <1>23, Numbers DEF Answering, TypeOK
    <2> QED BY <2>2, <2>3, <2>4
  <1> QED BY <1>1, <1>20, <1>21, <1>22, <1>23, <1>24, <1>25, <1>26 DEF IInv

-----------------------------------------------------------------------------
(* Steps that deliver nothing and end nothing. *)

LEMMA StepInd ==
  ASSUME IInv, life = "open", life' = "open", got' = got, peerOpen' = peerOpen, rebuilt' \in BOOLEAN,
         cause' \in {"none", "late", "notLate", "noUpstream"}, LateUnlessCGI', Stable(ctx'),
         "canWrite" \notin ctx'.st => "canWrite" \notin ctx.st /\ rebuilt' = rebuilt,
         Sending(ctx', got), ~Diverged' => Answering(ctx', got) /\ LengthSound(ctx', got)
  PROVE  IInv'
  <1>1. TypeOK'
    BY DEF IInv, TypeOK, Stable
  <1>2. "canWrite" \notin ctx'.st => Pristine(got') /\ ~rebuilt'
    BY DEF IInv
  <1>3. NoLogicError' /\ LengthKept'
    BY DEF NoLogicError, LengthKept
  <1>4. WellFormed'
    BY DEF WellFormed, Answering
  <1> QED BY <1>1, <1>2, <1>3, <1>4 DEF IInv

LEMMA NotDiverged == ~Diverged <=> ~rebuilt /\ ~PageUnsent(ctx)
  BY DEF Diverged, PageDiverges, PageUnsent

LEMMA NotDivergedNext == ~Diverged' <=> ~rebuilt' /\ ~PageUnsent(ctx')
  BY DEF Diverged, PageDiverges, PageUnsent

(* A connection with a CGI has its request and writes.                     *)
LEMMA CgiServable ==
  ASSUME NEW x, Stable(x), x.cgi # {}
  PROVE  HeadRead(x) /\ Servable(x) /\ "canWrite" \in x.st /\ x.script
  <1>1. HeadRead(x)
    BY UnreadIs
  <1>2. Servable(x) /\ "canWrite" \in x.st
    BY <1>1 DEF Stable
  <1> QED BY <1>1, <1>2 DEF Servable, Owned

-----------------------------------------------------------------------------
(* The CGI socket. *)

LEMMA HeadOnlyIs ==
  ASSUME NEW x \in Context, Fits(x), NEW s \in {"ok", "error"}
  PROVE  LET y == HeadOnly(x, s)
         IN /\ y \in Context /\ SameRequest(x, y) /\ y.st = x.st /\ y.status = s /\ y.body = 0
            /\ y.out.head = TRUE /\ y.out.len = 0 /\ y.out.length = Unknown
            /\ y.file = x.file /\ y.page = x.page /\ y.opened = x.opened /\ Fits(y)
  <1> DEFINE o == [head |-> TRUE, len |-> 0, length |-> Unknown]
             y == HeadOnly(x, s)
  <1>1. o \in Buffer /\ o.head = TRUE /\ o.len = 0 /\ o.length = Unknown /\ s \in Status /\ 0 \in 0 .. 1
    BY Numbers DEF Buffer, Status, Error
  <1>2. y = [x EXCEPT !.status = s, !.length = Unknown, !.body = 0, !.out = o]
    BY DEF HeadOnly
  <1> HIDE DEF o, y
  <1> DEFINE u == [x EXCEPT !.status = s]
             v == [u EXCEPT !.length = Unknown]
  <1>a. u \in Context /\ u.status = s
    BY <1>1 DEF Context
  <1> HIDE DEF u
  <1>b. v \in Context /\ v.status = s
    BY <1>a DEF Context
  <1> DEFINE w == [v EXCEPT !.body = 0]
  <1>c. y = [w EXCEPT !.out = o]
    BY <1>2 DEF u
  <1> HIDE DEF v
  <1>d. w \in Context /\ w.status = s /\ w.body = 0
    BY <1>b DEF Context
  <1> HIDE DEF w
  <1>e. o \in Buffer
    BY <1>1
  <1>3. /\ y \in Context /\ y.out = o /\ y.status = s /\ y.body = 0
    BY <1>c, <1>d, <1>e DEF Context
  <1>4. /\ SameRequest(x, y) /\ y.st = x.st /\ y.file = x.file /\ y.page = x.page /\ y.opened = x.opened
    BY <1>2 DEF Context, SameRequest
  <1>5. Fits(y)
    <2>1. PageLeft(y) = PageLeft(x) /\ PageLeft(x) \in Nat
      BY <1>3, <1>4, ContextNumbers, Numbers DEF PageLeft
    <2>2. x.file \in Nat /\ x.out.len \in Nat
      BY ContextNumbers
    <2>3. 0 + x.file + PageLeft(x) <= x.out.len + x.file + PageLeft(x)
      BY <2>1, <2>2
    <2>4. y.out.len + y.file + PageLeft(y) <= MaxUnits
      BY <1>1, <1>3, <1>4, <2>1, <2>2, <2>3, Numbers DEF Fits
    <2> QED BY <1>4, <2>4 DEF Fits, SameRequest
  <1> QED BY <1>1, <1>3, <1>4, <1>5 DEF y

LEMMA OutputIs ==
  ASSUME NEW x \in Context, Fits(x), NEW n \in Nat, n <= x.file
  PROVE  LET y == Output(x, n)
         IN /\ y \in Context /\ SameRequest(x, y) /\ y.st = x.st /\ y.status = x.status
            /\ y.body = x.body /\ y.out.head = x.out.head /\ y.out.length = x.out.length
            /\ y.out.len = x.out.len + n /\ y.file = x.file - n /\ y.page = x.page /\ y.opened = x.opened
  <1>1. CASE n = 0
    <2>1. Output(x, n) = x /\ x.out.len + n = x.out.len /\ x.file - n = x.file
      BY <1>1, ContextNumbers DEF Output
    <2> QED BY <2>1 DEF SameRequest
  <1>2. CASE n # 0
    <2> DEFINE u == [Appended(x, n) EXCEPT !.file = @ - n]
               y == Output(x, n)
    <2>1. /\ Moved(x, u) /\ u.st = x.st /\ u.status = x.status /\ u.page = x.page
          /\ u.file = x.file - n /\ u.out.len = x.out.len + n
      BY ReadUnits
    <2>2. y = [u EXCEPT !.silent = FALSE]
      BY <1>2 DEF Output
    <2> HIDE DEF u, y
    <2>3. /\ y \in Context /\ SameRequest(u, y) /\ y.st = u.st /\ y.status = u.status /\ y.body = u.body
          /\ y.out = u.out /\ y.file = u.file /\ y.page = u.page /\ y.opened = u.opened
      BY <2>1, <2>2 DEF Moved, Context, SameRequest
    <2> QED BY <2>1, <2>3 DEF Moved, SameRequest, y
  <1> QED BY <1>1, <1>2

(* What a read from the CGI leaves: the context as it was or with a new    *)
(* head, flags, and some output in the buffer.                             *)
CgiRead(x, y) ==
    \E n \in Nat, F \in SUBSET (Work \cup {"cgiHdr"}) :
       /\ n <= x.file /\ y \in Context /\ SameRequest(x, y) /\ y.st = x.st \cup F /\ y.body = 0
       /\ y.file = x.file - n /\ y.page = x.page /\ y.opened = x.opened
       /\ \/ /\ y.status = x.status /\ y.out.head = x.out.head /\ y.out.length = x.out.length
             /\ y.out.len = x.out.len + n /\ (n > 0 => "cgiHdr" \in x.st) /\ "cgiHdr" \notin F
          \/ /\ y.status \in {"ok", "error"} /\ y.out.head /\ y.out.length = Unknown /\ y.out.len = n
             /\ "cgiHdr" \notin x.st /\ F \cap {"cgiHdr", "cgiIn"} # {}

LEMMA ReadCGIIs ==
  ASSUME NEW x \in Context, Fits(x), x.body = 0, NEW r \in ReadCGI(x)
  PROVE  r.ret \in {"continue", "error"} /\ CgiRead(x, r.x)
  <1> DEFINE chunk == 0 .. Lesser(SendMax, x.file)
  <1>1. /\ x.file \in Nat /\ x.out.len \in Nat /\ \A n \in chunk : n \in Nat /\ n <= x.file
    <2>1. x.file \in Nat /\ x.out.len \in Nat
      BY ContextNumbers
    <2> QED BY <2>1, Numbers DEF Lesser
  <1> HIDE DEF chunk
  <1>2. ASSUME NEW F \in SUBSET Work, r.x = Set(x, F) PROVE CgiRead(x, r.x)
    <2>1. F \subseteq Flag
      BY FlagSets
    <2>2. /\ r.x \in Context /\ r.x.st = x.st \cup F /\ SameRequest(x, r.x) /\ SameAnswer(x, r.x)
      BY <1>2, <2>1, SetIs
    <2>3. 0 \in Nat /\ 0 <= x.file /\ x.file - 0 = x.file /\ x.out.len + 0 = x.out.len /\ ~(0 > 0)
          /\ "cgiHdr" \notin F /\ F \in SUBSET (Work \cup {"cgiHdr"})
      BY <1>1 DEF Work
    <2> QED BY <2>2, <2>3 DEF CgiRead, SameAnswer
  <1>3. ASSUME NEW n \in chunk, "cgiHdr" \in x.st, r.x = Output(x, n) PROVE CgiRead(x, r.x)
    <2>1. n \in Nat /\ n <= x.file
      BY <1>1
    <2>2. /\ r.x \in Context /\ SameRequest(x, r.x) /\ r.x.st = x.st /\ r.x.status = x.status
          /\ r.x.body = x.body /\ r.x.out.head = x.out.head /\ r.x.out.length = x.out.length
          /\ r.x.out.len = x.out.len + n /\ r.x.file = x.file - n
          /\ r.x.page = x.page /\ r.x.opened = x.opened
      BY <1>3, <2>1, OutputIs
    <2>3. r.x.st = x.st \cup {} /\ {} \in SUBSET (Work \cup {"cgiHdr"}) /\ "cgiHdr" \notin {}
      BY <2>2
    <2> QED BY <1>3, <2>1, <2>2, <2>3 DEF CgiRead
  <1>4. ASSUME NEW n \in chunk, NEW s \in {"ok", "error"}, "cgiHdr" \notin x.st,
               NEW F \in SUBSET (Work \cup {"cgiHdr"}), F \cap {"cgiHdr", "cgiIn"} # {},
               r.x = Output(Set(HeadOnly(x, s), F), n)
        PROVE  CgiRead(x, r.x)
    <2> DEFINE h == HeadOnly(x, s)
               u == Set(h, F)
    <2>1. n \in Nat /\ n <= x.file /\ F \subseteq Flag
      BY <1>1, FlagSets
    <2>2. /\ h \in Context /\ SameRequest(x, h) /\ h.st = x.st /\ h.status = s /\ h.body = 0
          /\ h.out.head = TRUE /\ h.out.len = 0 /\ h.out.length = Unknown
          /\ h.file = x.file /\ h.page = x.page /\ h.opened = x.opened /\ Fits(h)
      BY HeadOnlyIs
    <2> HIDE DEF h
    <2>3. u \in Context /\ u.st = h.st \cup F /\ SameRequest(h, u) /\ SameAnswer(h, u)
      BY <2>1, <2>2, SetIs
    <2> HIDE DEF u
    <2>4. Fits(u)
      BY <2>2, <2>3 DEF Fits, PageLeft, SameRequest, SameAnswer
    <2>5. u.file = x.file
      BY <2>2, <2>3 DEF SameAnswer
    <2>6. r.x = Output(u, n)
      BY <1>4 DEF u, h
    <2>7. /\ r.x \in Context /\ SameRequest(u, r.x) /\ r.x.st = u.st /\ r.x.status = u.status
          /\ r.x.body = u.body /\ r.x.out.head = u.out.head /\ r.x.out.length = u.out.length
          /\ r.x.out.len = u.out.len + n /\ r.x.file = u.file - n
          /\ r.x.page = u.page /\ r.x.opened = u.opened
      BY <2>1, <2>3, <2>4, <2>5, <2>6, OutputIs
    <2>8. SameRequest(x, r.x)
      BY <2>2, <2>3, <2>7 DEF SameRequest
    <2>9. /\ r.x.st = x.st \cup F /\ r.x.status = s /\ r.x.body = 0 /\ r.x.out.head
          /\ r.x.out.length = Unknown /\ r.x.out.len = n /\ r.x.file = x.file - n
          /\ r.x.page = x.page /\ r.x.opened = x.opened
      <3>1. u.out = h.out /\ u.status = s /\ u.body = 0 /\ u.page = x.page /\ u.opened = x.opened
            /\ u.st = x.st \cup F
        BY <2>2, <2>3 DEF SameAnswer
      <3>2. 0 + n = n
        BY <2>1
      <3> QED BY <2>2, <2>5, <2>7, <3>1, <3>2
    <2> QED BY <1>4, <2>1, <2>7, <2>8, <2>9 DEF CgiRead
  <1>5. 0 \in chunk
    <2>1. x.file \in Nat /\ SendMax \in Nat
      BY <1>1, Numbers
    <2> QED BY <2>1 DEF chunk, Lesser
  <1>6. r.ret \in {"continue", "error"} /\
        \/ r.x = x \/ r.x = Set(x, Work)
        \/ "cgiHdr" \notin x.st /\ r.x = Set(HeadOnly(x, "error"), Work)
        \/ "cgiHdr" \in x.st /\ \E n \in chunk : r.x = Output(x, n)
        \/ "cgiHdr" \notin x.st /\ \E s \in {"ok", "error"} : \E n \in chunk :
             r.x = Output(Set(HeadOnly(x, s), {"cgiHdr"}), n)
        \/ "cgiHdr" \notin x.st /\ \E n \in chunk :
             r.x = Output(Set(HeadOnly(x, "error"), {"cgiHdr", "cgiIn"}), n)
    <2>1. \/ r = Result("continue", Set(IF "cgiHdr" \in x.st THEN x ELSE HeadOnly(x, "error"), Work))
          \/ r = Result("error", Set(x, Work))
          \/ "cgiHdr" \in x.st /\ r \in {Result("continue", Output(x, n)) : n \in chunk \ {0}}
          \/ "cgiHdr" \notin x.st /\ r = Result("continue", x)
          \/ "cgiHdr" \notin x.st /\ \E s \in {"ok", "error"} : \E n \in chunk :
               r = Result("continue", Output(Set(HeadOnly(x, s), {"cgiHdr"}), n))
          \/ "cgiHdr" \notin x.st /\
               r \in {Result("continue", Output(Set(HeadOnly(x, "error"), {"cgiHdr", "cgiIn"}), n)) :
                         n \in chunk}
      BY DEF ReadCGI, chunk
    <2> QED BY <2>1, ResultIs
  <1>7. r.x = x => r.x = Set(x, {})
    <2>1. x.st \cup {} = x.st
      OBVIOUS
    <2>2. [x EXCEPT !.st = x.st] = x
      BY DEF Context
    <2> QED BY <2>1, <2>2 DEF Set
  <1>8. /\ {} \in SUBSET Work /\ Work \in SUBSET Work /\ Work \in SUBSET (Work \cup {"cgiHdr"})
        /\ {"cgiHdr"} \in SUBSET (Work \cup {"cgiHdr"}) /\ {"cgiHdr", "cgiIn"} \in SUBSET (Work \cup {"cgiHdr"})
        /\ "cgiIn" \in Work
    BY DEF Work
  <1>9. CASE "cgiHdr" \notin x.st /\ r.x = Set(HeadOnly(x, "error"), Work)
    <2>1. r.x = Output(Set(HeadOnly(x, "error"), Work), 0)
      BY <1>9 DEF Output
    <2> QED BY <1>4, <1>5, <1>6, <1>8, <1>9, <2>1
  <1> QED BY <1>2, <1>3, <1>4, <1>6, <1>7, <1>8, <1>9

LEMMA CgiReadInd ==
  ASSUME IInv, life = "open", ctx.child, "cgiIn" \notin ctx.st, CgiRead(ctx, ctx'),
         UNCHANGED <<life, peerOpen, got, rebuilt, cause>>
  PROVE  IInv'
  <1> DEFINE x == ctx
             y == ctx'
  <1>1. /\ TypeOK /\ Stable(x) /\ Sending(x, got) /\ LateUnlessCGI
        /\ ~Diverged => Answering(x, got) /\ LengthSound(x, got)
    BY DEF IInv
  <1>2. HeadRead(x) /\ Servable(x) /\ "canWrite" \in x.st /\ x.script /\ "workIn" \in x.st
        /\ "workOut" \in x.st /\ x.method \in {"GET", "POST"} /\ x.cgi # {}
    <2>1. x.child /\ ~x.method = "none" /\ x.cgi # {}
      <3>1. HeadRead(x)
        BY <1>1, UnreadIs
      <3>2. Owned(x) /\ x \in Context
        BY <1>1, <3>1 DEF Stable, Servable
      <3>3. x.cgi # {} /\ x.cgi \subseteq {"in", "out"}
        BY <3>2, ContextNumbers DEF Owned
      <3>4. x.method \in {"GET", "POST"}
        BY <3>2, <3>3 DEF Owned
      <3> QED BY <3>3, <3>4
    <2>2. HeadRead(x) /\ Servable(x) /\ "canWrite" \in x.st /\ x.script
      BY <1>1, <2>1, CgiServable
    <2>3. x.cgi \subseteq {"in", "out"}
      BY <2>2, ContextNumbers DEF Servable
    <2>4. x.method \in {"GET", "POST"} /\ "workIn" \in x.st
      BY <2>1, <2>2, <2>3 DEF Servable, Owned
    <2> QED BY <2>1, <2>2, <2>4 DEF Servable, Owned
  <1>3. PICK n \in Nat, F \in SUBSET (Work \cup {"cgiHdr"}) :
           /\ n <= x.file /\ y \in Context /\ SameRequest(x, y) /\ y.st = x.st \cup F /\ y.body = 0
           /\ y.file = x.file - n /\ y.page = x.page /\ y.opened = x.opened
           /\ \/ /\ y.status = x.status /\ y.out.head = x.out.head /\ y.out.length = x.out.length
                 /\ y.out.len = x.out.len + n /\ (n > 0 => "cgiHdr" \in x.st) /\ "cgiHdr" \notin F
              \/ /\ y.status \in {"ok", "error"} /\ y.out.head /\ y.out.length = Unknown /\ y.out.len = n
                 /\ "cgiHdr" \notin x.st /\ F \cap {"cgiHdr", "cgiIn"} # {}
    BY DEF CgiRead
  <1>4. /\ x.out.len \in Nat /\ x.file \in Nat /\ x.file <= MaxFile /\ PageLeft(x) \in Nat /\ got.len \in Nat
        /\ x.out.len + x.file + PageLeft(x) <= MaxUnits /\ PageLeft(y) = PageLeft(x)
        /\ x.out.head \in BOOLEAN
    BY <1>1, <1>2, <1>3, ContextNumbers, GotNumbers, Numbers DEF PageLeft, Servable, Fits
  <1> HIDE DEF x, y
  <1>5. y.out.len + y.file <= x.out.len + x.file
    BY <1>3, <1>4
  <1>6. Fits(y)
    <2>0. y.file \in Nat /\ y.out.len \in Nat /\ y.file <= x.file
      <3>1. y.file \in Nat /\ y.out.len \in Nat
        BY <1>3, ContextNumbers
      <3> QED BY <1>3, <1>4, <3>1
    <2>1. y.file <= MaxFile /\ y.file \in Nat /\ y.out.len \in Nat
      BY <1>4, <2>0, Numbers
    <2>2. y.out.len + y.file + PageLeft(y) <= MaxUnits
      BY <1>4, <1>5, <2>1, Numbers
    <2> QED BY <1>2, <1>3, <2>1, <2>2 DEF Servable, Fits, SameRequest
  <1>7. /\ HeadRead(y) /\ "canWrite" \in y.st /\ "workIn" \in y.st /\ "workOut" \in y.st
        /\ y.method \in {"GET", "POST"} /\ y.script
    BY <1>2, <1>3 DEF HeadRead, SameRequest
  <1>8. Owned(y)
    BY <1>2, <1>3, <1>7 DEF Servable, Owned, SameRequest
  <1>9. Stable(y)
    <2>1. Servable(y)
      BY <1>3, <1>6, <1>7, <1>8 DEF Servable, Owing
    <2> QED BY <1>3, <1>7, <2>1 DEF Stable
  <1>10. Sending(y, got)
    <2> SUFFICES ASSUME ~got.bad, ~y.out.head
                 PROVE  got.len + y.out.len + y.file + PageLeft(y) <= MaxUnits
      BY DEF Sending
    <2>1. y.out.len = x.out.len + n /\ y.file = x.file - n /\ n <= x.file /\ n \in Nat /\ ~x.out.head
      BY <1>3
    <2>2. got.len + x.out.len + x.file + PageLeft(x) <= MaxUnits
      BY <1>1, <2>1 DEF Sending
    <2>3. got.len + (x.out.len + n) + (x.file - n) + PageLeft(x) = got.len + x.out.len + x.file + PageLeft(x)
      BY <1>4, <2>1
    <2> QED BY <1>4, <2>1, <2>2, <2>3
  <1>11. ASSUME ~Diverged' PROVE Answering(y, got) /\ LengthSound(y, got)
    <2>1. ~Diverged
      BY <1>2, <1>3, <1>7, <1>11, NotDiverged, NotDivergedNext DEF PageUnsent, x, y
    <2>2. Answering(x, got) /\ x.child
      BY <1>1, <2>1 DEF x
    <2>3. x.out.length = Unknown /\ got.length = Unknown /\ y.out.length = Unknown
      BY <1>3, <2>2 DEF Answering
    <2>4. LengthSound(y, got)
      BY <2>3 DEF LengthSound
    <2>5. ~got.bad /\ (~got.head => got.len = 0 /\ got.length = Unknown)
      BY <2>2 DEF Answering
    <2>6. CASE "cgiHdr" \notin x.st /\ y.out.head /\ F \cap {"cgiHdr", "cgiIn"} # {}
      <3>1. ~got.head /\ got.len = 0
        BY <2>2, <2>5, <2>6 DEF Answering, x
      <3>2. {"cgiHdr", "cgiIn"} \cap y.st # {}
        BY <1>3, <2>6
      <3> QED BY <1>7, <2>3, <2>4, <2>5, <2>6, <3>1, <3>2 DEF Answering
    <2>7. CASE /\ y.status = x.status /\ y.out.head = x.out.head /\ y.out.len = x.out.len + n
               /\ (n > 0 => "cgiHdr" \in x.st) /\ "cgiHdr" \notin F
      <3>1. y.out.head => ~got.head /\ got.len = 0
        BY <2>2, <2>7 DEF Answering
      <3>2. ~y.out.head /\ y.out.len > 0 => got.head
        <4>1. CASE n = 0
          BY <1>4, <2>2, <2>7, <4>1 DEF Answering
        <4>2. CASE n > 0
          BY <1>2, <2>2, <2>7, <4>2 DEF Answering
        <4> QED BY <1>3, <4>1, <4>2
      <3>3. "workOut" \notin y.st \/ "cgiHdr" \in y.st => y.out.head \/ got.head
        BY <1>2, <1>3, <1>7, <2>2, <2>7 DEF Answering
      <3>4. {"cgiHdr", "cgiIn"} \cap y.st = {} => ~y.out.head /\ y.out.len = 0 /\ ~got.head
        <4>1. {"cgiHdr", "cgiIn"} \cap y.st = {} => {"cgiHdr", "cgiIn"} \cap x.st = {}
          BY <1>3
        <4>2. {"cgiHdr", "cgiIn"} \cap y.st = {} => n = 0
          BY <1>3, <2>7
        <4> QED BY <1>4, <2>2, <2>7, <4>1, <4>2 DEF Answering
      <3> QED BY <1>7, <2>3, <2>4, <2>5, <3>1, <3>2, <3>3, <3>4 DEF Answering
    <2> QED BY <1>3, <2>6, <2>7
  <1>12. rebuilt' \in BOOLEAN /\ cause' \in {"none", "late", "notLate", "noUpstream"} /\ life' = "open"
    BY <1>1 DEF TypeOK
  <1>13. LateUnlessCGI'
    BY <1>7 DEF LateUnlessCGI, y
  <1> QED BY <1>7, <1>9, <1>10, <1>11, <1>12, <1>13, StepInd DEF y

LEMMA HandleCGIInInd ==
  ASSUME IInv, HandleCGIIn
  PROVE  IInv'
  <1>1. /\ life = "open" /\ "in" \in ctx.cgi /\ ctx.child /\ CgiStep(CGIIn(ctx)) /\ Stable(ctx)
    BY DEF HandleCGIIn, IInv
  <1>2. HeadRead(ctx) /\ Servable(ctx) /\ "canWrite" \in ctx.st /\ ctx.script
    BY <1>1, CgiServable
  <1>3. ctx \in Context /\ Fits(ctx) /\ ctx.body = 0 /\ ctx.method \in {"GET", "POST"}
    BY <1>1, <1>2 DEF Servable, Owned
  <1>4. PICK r \in CGIIn(ctx) : IF r.ret = "misuse" THEN life' = "misused" /\ UNCHANGED ctx
                                                    ELSE ctx' = r.x /\ UNCHANGED life
    BY <1>1 DEF CgiStep
  <1>5. UNCHANGED <<peerOpen, got, rebuilt, cause>>
    BY <1>1 DEF CgiStep
  <1>6. CASE "cgiIn" \in ctx.st
    <2>1. r = Result("continue", ctx)
      BY <1>3, <1>4, <1>6 DEF CGIIn
    <2>2. ctx' = ctx /\ life' = life
      BY <1>4, <2>1, ResultIs
    <2> QED BY <1>5, <2>2 DEF IInv, TypeOK, Diverged, PageDiverges, NoLogicError, LateUnlessCGI, WellFormed,
                              LengthKept
  <1>7. CASE "cgiIn" \notin ctx.st
    <2>1. r \in ReadCGI(ctx)
      BY <1>3, <1>4, <1>7 DEF CGIIn
    <2>2. r.ret \in {"continue", "error"} /\ CgiRead(ctx, r.x)
      BY <1>3, <2>1, ReadCGIIs
    <2>3. CgiRead(ctx, ctx') /\ life' = life
      BY <1>4, <2>2
    <2> QED BY <1>1, <1>5, <1>7, <2>3, CgiReadInd
  <1> QED BY <1>6, <1>7

LEMMA HandleCGIOutInd ==
  ASSUME IInv, HandleCGIOut
  PROVE  IInv'
  <1>1. /\ life = "open" /\ "out" \in ctx.cgi /\ CgiStep(CGIOut(ctx)) /\ Stable(ctx) /\ TypeOK
        /\ Sending(ctx, got) /\ LateUnlessCGI
        /\ ~Diverged => Answering(ctx, got) /\ LengthSound(ctx, got)
    BY DEF HandleCGIOut, IInv
  <1>2. HeadRead(ctx) /\ Servable(ctx) /\ "canWrite" \in ctx.st /\ ctx.script
    BY <1>1, CgiServable
  <1>3. /\ ctx \in Context /\ Fits(ctx) /\ Owned(ctx) /\ ctx.body = 0 /\ ctx.method = "POST"
        /\ "workIn" \in ctx.st
    BY <1>1, <1>2 DEF Servable, Owned
  <1>4. PICK r \in CGIOut(ctx) : IF r.ret = "misuse" THEN life' = "misused" /\ UNCHANGED ctx
                                                     ELSE ctx' = r.x /\ UNCHANGED life
    BY <1>1 DEF CgiStep
  <1>5. UNCHANGED <<peerOpen, got, rebuilt, cause>>
    BY <1>1 DEF CgiStep
  <1> DEFINE x == ctx
             y == r.x
  <1>6. /\ y \in Context /\ BodyApart(x, y) /\ (BodyMore(x, r) \/ BodyThrough(x, r) \/ BodyKept(x, r))
    BY <1>3, <1>4, ReadBodyIs DEF CGIOut
  <1>7. ctx' = y /\ life' = life
    <2>1. r.ret # "misuse"
      BY <1>2, <1>6 DEF BodyMore, BodyThrough, BodyKept
    <2> QED BY <1>4, <2>1
  <1>8. /\ y.st \in {x.st, x.st \cup {"workIn", "cgiOut"}} /\ y.status \in {x.status, "ok", "error"}
        /\ y.cgi = x.cgi \/ y.cgi = {"in"}
        /\ y.buf \in Nat /\ x.buf \in Nat /\ y.buf <= x.buf /\ x.due \in Nat /\ x.extra \in Nat
    <2>1. y.buf \in Nat /\ x.buf \in Nat /\ x.due \in Nat /\ x.extra \in Nat
      BY <1>3, <1>6, ContextNumbers
    <2> QED BY <1>6, <2>1 DEF BodyMore, BodyThrough, BodyKept
  <1> HIDE DEF x, y
  <1>9. x.st \subseteq y.st /\ {"cgiIn", "workOut", "cgiHdr"} \cap y.st = {"cgiIn", "workOut", "cgiHdr"} \cap x.st
    BY <1>8
  <1>10. Fits(y)
    <2>1. y.buf + x.due + x.extra <= x.buf + x.due + x.extra
      BY <1>8
    <2>2. x.buf + x.due + x.extra <= MaxBody + Extra /\ MaxBody + Extra \in Nat
      BY <1>3, Numbers DEF Fits, x
    <2>3. y.buf + x.due + x.extra <= MaxBody + Extra
      BY <1>8, <2>1, <2>2
    <2> QED BY <1>3, <1>6, <2>3 DEF Fits, PageLeft, BodyApart, x
  <1>11. HeadRead(y) /\ "workIn" \in y.st /\ "canWrite" \in y.st
    BY <1>2, <1>3, <1>9 DEF HeadRead, x
  <1>12. Owned(y)
    BY <1>2, <1>3, <1>6, <1>8, <1>9, <1>11 DEF Owned, BodyApart, x
  <1>13. Stable(y)
    <2>1. y.body = 0 /\ y.script
      BY <1>2, <1>3, <1>6 DEF BodyApart, x
    <2>2. Servable(y)
      BY <1>6, <1>10, <1>11, <1>12, <2>1 DEF Servable, Owing
    <2> QED BY <1>6, <1>11, <2>1, <2>2 DEF Stable
  <1>14. Sending(y, got)
    BY <1>1, <1>6 DEF Sending, PageLeft, BodyApart, x
  <1>15. ASSUME ~Diverged' PROVE Answering(y, got) /\ LengthSound(y, got)
    <2>1. ~Diverged
      BY <1>5, <1>6, <1>7, <1>9, <1>15, NotDiverged, NotDivergedNext DEF PageUnsent, BodyApart, x
    <2>2. Answering(x, got) /\ LengthSound(x, got) /\ x.method = "POST" /\ x.script
      BY <1>1, <1>2, <1>3, <2>1 DEF x
    <2>3. "workOut" \in x.st
      BY <2>2 DEF Answering
    <2>4. Remaining(x) = 0 /\ Remaining(y) = 0
      BY <1>9, <2>3 DEF Remaining
    <2>5. y.method = "POST" /\ y.script /\ y.child = x.child /\ y.out = x.out
      BY <2>2, <1>6 DEF BodyApart
    <2>6. Answering(y, got)
      BY <1>2, <1>9, <2>2, <2>3, <2>5 DEF Answering, x
    <2>7. LengthSound(y, got)
      BY <2>2, <2>4, <2>5 DEF LengthSound
    <2> QED BY <2>6, <2>7
  <1>16. rebuilt' \in BOOLEAN /\ cause' \in {"none", "late", "notLate", "noUpstream"} /\ life' = "open"
    BY <1>1, <1>5, <1>7 DEF TypeOK
  <1>17. LateUnlessCGI'
    BY <1>2, <1>6, <1>7 DEF LateUnlessCGI, BodyApart, x
  <1> QED BY <1>1, <1>5, <1>7, <1>11, <1>13, <1>14, <1>15, <1>16, <1>17, StepInd

-----------------------------------------------------------------------------
(* timeoutCheck *)

(* The CGI's half of Owned, which holds of every context. *)
CgiOwned(x) ==
    /\ "out" \in x.cgi => x.method = "POST"
    /\ "in" \in x.cgi => x.method \in {"GET", "POST"}
    /\ x.cgi # {} \/ x.child => x.script
    /\ x.child \/ (x.method = "POST" /\ x.script) => x.cgi # {}

TimedOut(x, z, status, flags) ==
    /\ z \in Context /\ SameRequest(x, z) /\ z.file = x.file /\ z.status = status /\ z.body = 0
    /\ z.out.head = TRUE
    /\ \/ /\ z.st = ((x.st \cup flags \cup Work) \ {"workOut"}) \cup {"canWrite"}
          /\ z.opened /\ z.page = (IF x.opened THEN 0 ELSE SendMax)
          /\ z.out.len = x.body /\ z.out.length = SendMax
       \/ /\ z.st = ((x.st \cup flags \cup Work) \ {"workOut"}) \cup Work \cup {"canWrite"}
          /\ z.opened = x.opened /\ z.page = x.page /\ z.out.len = 1 /\ z.out.length = 1

LEMMA TimeoutAnswerIs ==
  ASSUME NEW x \in Context, NEW status \in {"408", "504"}, NEW flags \in SUBSET Flag
  PROVE  TimedOut(x, TimeoutAnswer(x, status, flags), status, flags)
  <1> DEFINE s == (x.st \cup flags \cup Work) \ {"workOut"}
             e == [x EXCEPT !.status = status]
             y == [x EXCEPT !.status = status, !.st = (@ \cup flags \cup Work) \ {"workOut"}]
             p == LoadErrorPage(y)
             b == Built(p)
             z == SwitchToWrite(b)
  <1>1. s \in SUBSET Flag /\ status \in Status
    BY FlagSets DEF Context, Status, Error
  <1>2. y = [e EXCEPT !.st = s]
    OBVIOUS
  <1>3. /\ e \in Context /\ e.status = status /\ SameRequest(x, e) /\ e.body = x.body
        /\ e.file = x.file /\ e.page = x.page /\ e.opened = x.opened
    BY <1>1 DEF Context, SameRequest
  <1> HIDE DEF s, e, y
  <1>4. /\ y \in Context /\ y.st = s /\ y.status = status /\ SameRequest(x, y) /\ y.body = x.body
        /\ y.file = x.file /\ y.page = x.page /\ y.opened = x.opened
    BY <1>1, <1>2, <1>3 DEF Context, SameRequest
  <1>5. /\ p \in Context /\ SameRequest(y, p) /\ p.status = y.status /\ p.file = y.file
        /\ \/ /\ p.st = y.st /\ p.body = y.body /\ p.length = SendMax /\ p.opened
              /\ p.page = IF y.opened THEN 0 ELSE SendMax
           \/ /\ p.st = y.st \cup Work /\ p.body = 1 /\ p.length = 1
              /\ p.opened = y.opened /\ p.page = y.page
    BY <1>4, LoadErrorPageIs
  <1> HIDE DEF p
  <1>6. /\ b \in Context /\ b.st = p.st /\ SameRequest(p, b) /\ b.body = 0
        /\ b.out = [head |-> TRUE, len |-> p.body, length |-> p.length]
        /\ b.status = p.status /\ b.file = p.file /\ b.page = p.page /\ b.opened = p.opened
    BY <1>5, BuiltIs
  <1> HIDE DEF b
  <1>7. /\ z \in Context /\ z.st = b.st \cup {"canWrite"} /\ SameRequest(b, z) /\ SameAnswer(b, z)
    BY <1>6, SwitchToWriteIs
  <1> HIDE DEF z
  <1>8. SameRequest(x, z)
    BY <1>4, <1>5, <1>6, <1>7 DEF SameRequest
  <1>9. /\ z.file = x.file /\ z.status = status /\ z.body = 0 /\ z.st = p.st \cup {"canWrite"}
        /\ z.out.head = TRUE /\ z.out.len = p.body /\ z.out.length = p.length
        /\ z.page = p.page /\ z.opened = p.opened
    BY <1>4, <1>5, <1>6, <1>7 DEF SameAnswer
  <1>10. x.opened \in BOOLEAN /\ p.opened \in BOOLEAN
    BY <1>5, ContextNumbers
  <1>11. TimedOut(x, z, status, flags)
    <2>1. CASE /\ p.st = y.st /\ p.body = y.body /\ p.length = SendMax /\ p.opened
               /\ p.page = IF y.opened THEN 0 ELSE SendMax
      BY <1>4, <1>7, <1>8, <1>9, <1>10, <2>1 DEF TimedOut, s
    <2>2. CASE /\ p.st = y.st \cup Work /\ p.body = 1 /\ p.length = 1
               /\ p.opened = y.opened /\ p.page = y.page
      BY <1>4, <1>7, <1>8, <1>9, <1>10, <2>2 DEF TimedOut, s
    <2> QED BY <1>5, <2>1, <2>2
  <1> QED BY <1>11 DEF TimeoutAnswer, z, b, p, y

LEMMA TimedOutStable ==
  ASSUME NEW x \in Context, Fits(x), CgiOwned(x), NEW status \in {"408", "504"},
         NEW flags, Read \subseteq x.st \cup flags, NEW z, TimedOut(x, z, status, flags)
  PROVE  Stable(z) /\ "canWrite" \in z.st
  <1>1. /\ z \in Context /\ SameRequest(x, z) /\ z.file = x.file /\ z.status = status /\ z.body = 0
        /\ {"workIn", "cgiIn", "cgiOut", "canWrite", "line", "hdr"} \subseteq z.st /\ status \in Error
        /\ z.opened \/ z.page = 0
    BY FlagSets DEF TimedOut, Fits
  <1>2. Fits(z)
    <2>1. /\ x.file \in Nat /\ z.file \in Nat /\ x.body \in 0 .. 1 /\ z.page \in Nat /\ z.page <= SendMax
          /\ z.out.len \in Nat
      BY <1>1, ContextNumbers
    <2>2. PageLeft(z) \in Nat /\ PageLeft(z) <= SendMax
      BY <2>1, Numbers DEF PageLeft
    <2>3. z.out.len <= 1
      BY <2>1 DEF TimedOut
    <2>4. z.out.len + z.file + PageLeft(z) <= MaxUnits
      BY <1>1, <2>1, <2>2, <2>3, Numbers DEF Fits, MaxUnits
    <2> QED BY <1>1, <2>4 DEF Fits, SameRequest
  <1>3. Owned(z) /\ Owing(z) /\ HeadRead(z)
    BY <1>1, FlagSets DEF CgiOwned, Owned, Owing, HeadRead, SameRequest
  <1>4. Servable(z)
    BY <1>1, <1>2, <1>3 DEF Servable
  <1> QED BY <1>1, <1>3, <1>4 DEF Stable

(* The answer to a request that none was built for.                        *)
LEMMA TimedOutAnswers ==
  ASSUME NEW x, NEW g, Pristine(g), NEW status \in {"408", "504"}, NEW flags, NEW z,
         TimedOut(x, z, status, flags), ~PageUnsent(z), x.body = 0, ~x.opened, ~x.child,
         ~(x.method = "POST" /\ x.script), "cgiHdr" \notin x.st, "cgiHdr" \notin flags
  PROVE  Answering(z, g) /\ LengthSound(z, g)
  <1>1. z.out.head /\ z.status \in Error /\ ~z.child /\ ~(z.method = "POST" /\ z.script)
    BY DEF TimedOut, Error, SameRequest
  <1>2. Answering(z, g)
    BY <1>1 DEF Answering, Pristine
  <1>3. z.out.length = z.out.len + Remaining(z)
    <2>1. CASE z.out.len = 1 /\ z.out.length = 1 /\ "workOut" \in z.st
      BY <2>1 DEF Remaining
    <2>2. CASE /\ "workOut" \notin z.st /\ z.page = SendMax
               /\ z.out.len = 0 /\ z.out.length = SendMax
      BY <1>1, <2>2, Numbers DEF Remaining
    <2> QED BY <2>1, <2>2, FlagSets DEF TimedOut
  <1> QED BY <1>1, <1>2, <1>3 DEF LengthSound

LEMMA StableOwned ==
  ASSUME NEW x, Stable(x)
  PROVE  x \in Context /\ Fits(x) /\ CgiOwned(x)
  <1>1. CASE HeadRead(x)
    BY <1>1 DEF Stable, Servable, Owned, CgiOwned
  <1>2. CASE ~HeadRead(x)
    <2>1. /\ x \in Context /\ x.method = "none" /\ ~x.script /\ x.cgi = {} /\ ~x.child
          /\ x.out = Nothing /\ ~x.opened /\ x.page = 0 /\ x.buf = 0 /\ x.extra = Extra /\ x.file = 0
      BY <1>2, UnreadIs DEF Blank
    <2>2. Fits(x)
      <3>1. x.due \in Nat /\ x.due <= MaxBody
        BY <2>1, Numbers DEF Context
      <3>2. x.buf + x.due + x.extra <= MaxBody + Extra
        BY <2>1, <3>1, Numbers
      <3>3. x.out.len + x.file + PageLeft(x) <= MaxUnits
        BY <2>1, Numbers DEF PageLeft, Nothing, MaxUnits
      <3> QED BY <2>1, <3>2, <3>3, Numbers DEF Fits
    <2> QED BY <2>1, <2>2 DEF CgiOwned
  <1> QED BY <1>1, <1>2

LEMMA TimesOutInd ==
  ASSUME IInv, life = "open", NEW x, NEW status \in {"408", "504"}, NEW flags \in SUBSET Flag, NEW c,
         x \in Context, Fits(x), CgiOwned(x), Read \subseteq x.st \cup flags,
         x.script = ctx.script, x.opened = ctx.opened,
         c \in {"late", "notLate", "noUpstream"}, TimesOut(TimeoutAnswer(x, status, flags), c),
         c = "notLate" => ctx.script \/ ctx.opened,
         "canWrite" \notin ctx.st => /\ x.body = 0 /\ ~x.opened /\ ~x.child
                                     /\ ~(x.method = "POST" /\ x.script)
                                     /\ "cgiHdr" \notin x.st /\ "cgiHdr" \notin flags
  PROVE  IInv'
  <1>1. /\ TypeOK /\ LateUnlessCGI
        /\ "canWrite" \notin ctx.st => Pristine(got) /\ ~rebuilt
    BY DEF IInv
  <1>2. /\ ctx' = TimeoutAnswer(x, status, flags) /\ cause' = c
        /\ rebuilt' = (rebuilt \/ "canWrite" \in ctx.st)
        /\ life' = "open" /\ peerOpen' = peerOpen /\ got' = got
    BY DEF TimesOut
  <1>3. TimedOut(x, ctx', status, flags)
    BY <1>2, TimeoutAnswerIs
  <1>4. Stable(ctx') /\ "canWrite" \in ctx'.st
    BY <1>3, TimedOutStable
  <1>5. Sending(ctx', got)
    BY <1>3 DEF TimedOut, Sending
  <1>6. ASSUME ~Diverged' PROVE Answering(ctx', got) /\ LengthSound(ctx', got)
    <2>1. ~rebuilt' /\ ~PageUnsent(ctx')
      BY <1>6, NotDivergedNext
    <2>2. "canWrite" \notin ctx.st
      BY <1>2, <2>1
    <2> QED BY <1>1, <1>3, <2>1, <2>2, TimedOutAnswers
  <1>7. rebuilt' \in BOOLEAN
    BY <1>2
  <1>8. LateUnlessCGI'
    <2>1. ctx'.script = x.script /\ (x.opened => ctx'.opened)
      BY <1>3 DEF TimedOut, SameRequest
    <2> QED BY <1>2, <2>1 DEF LateUnlessCGI
  <1> QED BY <1>2, <1>4, <1>5, <1>6, <1>7, <1>8, StepInd

LEMMA TimeoutCheckInd ==
  ASSUME IInv, TimeoutCheck
  PROVE  IInv'
  <1>1. /\ TypeOK /\ life = "open" /\ Stable(ctx) /\ LateUnlessCGI /\ WellFormed
        /\ "canWrite" \notin ctx.st => Pristine(got) /\ ~rebuilt
    BY DEF TimeoutCheck, IInv
  <1>2. ctx \in Context /\ Fits(ctx) /\ CgiOwned(ctx)
    BY <1>1, StableOwned
  <1>3. CASE HeaderTimeout(ctx) /\ TimesOut(TimeoutAnswer(ctx, "408", ReadAll), "late")
    <2>1. ~HeadRead(ctx)
      BY <1>3, FlagSets DEF HeaderTimeout, HeadRead
    <2>2. ctx.body = 0 /\ ~ctx.opened /\ ~ctx.child /\ ~ctx.script /\ ctx.st \subseteq {"line"}
      BY <1>1, <2>1, UnreadIs DEF Blank
    <2>3. ReadAll \in SUBSET Flag /\ Read \subseteq ctx.st \cup ReadAll /\ "cgiHdr" \notin ReadAll
      BY FlagSets
    <2> QED BY <1>1, <1>2, <1>3, <2>2, <2>3, TimesOutInd
  <1>4. CASE /\ BodyTimeout(ctx)
             /\ TimesOut(TimeoutAnswer(ctx, "408", {}), IF Incomplete(ctx) THEN "late" ELSE "notLate")
    <2>1. HeadRead(ctx) /\ Servable(ctx)
      <3>1. ASSUME ~HeadRead(ctx) PROVE FALSE
        <4>1. ctx.age["body"] = MaxAge + 1
          BY <1>1, <3>1, UnreadIs DEF Off
        <4>2. ctx.age["body"] = MaxAge
          BY <1>4 DEF BodyTimeout, Expired
        <4> QED BY <4>1, <4>2, Numbers
      <3> QED BY <1>1, <3>1 DEF Stable
    <2>2. ~Incomplete(ctx) => ctx.script \/ ctx.opened
      <3> SUFFICES ASSUME ~ctx.script, ~ctx.opened PROVE Incomplete(ctx)
        OBVIOUS
      <3>1. "workIn" \notin ctx.st
        BY <1>1, <1>4, <2>1 DEF BodyTimeout, Stable
      <3>2. ctx.buf = 0 /\ 0 < ctx.left /\ ctx.left <= ctx.buf + ctx.due
        BY <1>1, <2>1, <3>1 DEF Stable, Servable, Owing
      <3>3. ctx.due \in Nat /\ ctx.left \in Nat
        BY <1>2, ContextNumbers
      <3> QED BY <3>2, <3>3 DEF Incomplete
    <2>3. ASSUME "canWrite" \notin ctx.st
          PROVE  /\ ctx.body = 0 /\ ~ctx.opened /\ ~ctx.child
                 /\ ~(ctx.method = "POST" /\ ctx.script) /\ "cgiHdr" \notin ctx.st
      <3>1. ctx.method \in {"POST", "PUT"} /\ ctx.cgi = {} /\ (ctx.script => ctx.method = "PUT")
        BY <1>1, <2>1, <2>3 DEF Stable
      <3>2. Prepared(ctx)
        BY <2>1, <2>3 DEF Servable
      <3>3. ~ctx.child /\ ~(ctx.method = "POST" /\ ctx.script)
        BY <1>2, <3>1 DEF CgiOwned
      <3> QED BY <3>1, <3>2, <3>3 DEF Prepared, Unanswered
    <2>4. {} \in SUBSET Flag /\ Read \subseteq ctx.st \cup {} /\ "cgiHdr" \notin {}
      BY <2>1 DEF HeadRead
    <2> DEFINE c == IF Incomplete(ctx) THEN "late" ELSE "notLate"
    <2>5. c \in {"late", "notLate", "noUpstream"} /\ (c = "notLate" => ctx.script \/ ctx.opened)
      BY <2>2
    <2>6. TimesOut(TimeoutAnswer(ctx, "408", {}), c)
      BY <1>4
    <2> HIDE DEF c
    <2> QED BY <1>1, <1>2, <2>3, <2>4, <2>5, <2>6, TimesOutInd
  <1>5. CASE SendTimeout(ctx) /\ life' = "expired" /\ UNCHANGED <<ctx, peerOpen, got, rebuilt, cause>>
    BY <1>1, <1>5 DEF IInv, TypeOK, Diverged, PageDiverges, NoLogicError, LateUnlessCGI, WellFormed, LengthKept
  <1>6. CASE /\ SendTimeout(ctx)
             /\ TimesOut(TimeoutAnswer(Cleared(ctx), "504", {}), IF ctx.child THEN "late" ELSE "noUpstream")
    <2> DEFINE x == Cleared(ctx)
               c == IF ctx.child THEN "late" ELSE "noUpstream"
    <2>1. "canWrite" \in ctx.st /\ HeadRead(ctx)
      <3>1. "canWrite" \in ctx.st
        BY <1>6 DEF SendTimeout
      <3> QED BY <1>1, <3>1, UnreadIs
    <2>2. /\ x \in Context /\ x.script = ctx.script /\ x.opened = ctx.opened /\ x.st = ctx.st
          /\ Fits(x) /\ CgiOwned(x)
      <3> DEFINE u == [ctx EXCEPT !.status = "none"]
                 v == [u EXCEPT !.length = Unknown]
      <3>1. x = [v EXCEPT !.body = 0]
        BY DEF Cleared
      <3>2. /\ u \in Context /\ SameRequest(ctx, u) /\ u.st = ctx.st /\ u.out = ctx.out /\ u.file = ctx.file
            /\ u.page = ctx.page /\ u.opened = ctx.opened
        BY <1>2 DEF Context, SameRequest, Status
      <3> HIDE DEF u
      <3>3. /\ v \in Context /\ SameRequest(ctx, v) /\ v.st = ctx.st /\ v.out = ctx.out /\ v.file = ctx.file
            /\ v.page = ctx.page /\ v.opened = ctx.opened
        BY <3>2 DEF Context, SameRequest
      <3> HIDE DEF v, x
      <3>4. 0 \in 0 .. 1
        OBVIOUS
      <3>5. /\ x \in Context /\ SameRequest(ctx, x) /\ x.st = ctx.st /\ x.out = ctx.out /\ x.file = ctx.file
            /\ x.page = ctx.page /\ x.opened = ctx.opened
        BY <3>1, <3>3, <3>4 DEF Context, SameRequest
      <3> QED BY <1>2, <3>5 DEF SameRequest, Fits, PageLeft, CgiOwned
    <2>3. {} \in SUBSET Flag /\ Read \subseteq x.st \cup {}
      BY <2>1, <2>2 DEF HeadRead
    <2>4. c \in {"late", "notLate", "noUpstream"} /\ c # "notLate"
      OBVIOUS
    <2>5. TimesOut(TimeoutAnswer(x, "504", {}), c)
      BY <1>6
    <2> HIDE DEF x, c
    <2> QED BY <1>1, <2>1, <2>2, <2>3, <2>4, <2>5, TimesOutInd
  <1> QED BY <1>3, <1>4, <1>5, <1>6 DEF TimeoutCheck

-----------------------------------------------------------------------------
(* Time and the peer. *)

LEMMA TickInd ==
  ASSUME IInv, Tick
  PROVE  IInv'
  <1> DEFINE a == [t \in Timer |-> IF ctx.age[t] < MaxAge THEN ctx.age[t] + 1 ELSE ctx.age[t]]
  <1>1. /\ TypeOK /\ life = "open" /\ Stable(ctx) /\ LateUnlessCGI /\ Sending(ctx, got)
        /\ ~Diverged => Answering(ctx, got) /\ LengthSound(ctx, got)
        /\ ctx' = [ctx EXCEPT !.age = a] /\ UNCHANGED <<life, peerOpen, got, rebuilt, cause>>
    BY DEF Tick, IInv
  <1>2. a \in [Timer -> 0 .. Off]
    <2>1. ctx.age \in [Timer -> 0 .. Off]
      BY <1>1 DEF Stable, Context
    <2>2. \A t \in Timer : ctx.age[t] \in 0 .. Off
      BY <2>1
    <2>3. \A t \in Timer : (IF ctx.age[t] < MaxAge THEN ctx.age[t] + 1 ELSE ctx.age[t]) \in 0 .. Off
      BY <2>2, Numbers DEF Off
    <2> QED BY <2>3
  <1>3. a["body"] = Off <=> ctx.age["body"] = Off
    <2>1. "body" \in Timer /\ ctx.age["body"] \in 0 .. Off
      BY <1>1 DEF Timer, Stable, Context
    <2> QED BY <2>1, Numbers DEF Off
  <1> HIDE DEF a
  <1>4. Alike(ctx, ctx') /\ ctx'.age = a
    BY <1>1, <1>2, AgeIs DEF Alike, Stable
  <1>5. Stable(ctx')
    <2>1. CASE HeadRead(ctx)
      <3>1. Servable(ctx')
        BY <1>1, <1>4, <2>1, AlikeServable DEF Stable
      <3>2. HeadRead(ctx')
        BY <1>4, <2>1 DEF Alike, HeadRead
      <3> QED BY <1>1, <1>4, <2>1, <3>1, <3>2 DEF Stable, Alike, SameRequest, SameAnswer
    <2>2. CASE ~HeadRead(ctx)
      <3>1. ctx = [Fresh EXCEPT !.st = ctx.st, !.age = ctx.age] /\ ctx.st \subseteq {"line"}
            /\ ctx.age["body"] = Off
        BY <1>1, <2>2 DEF Stable
      <3>2. ctx' = [Fresh EXCEPT !.st = ctx.st, !.age = a]
        BY <1>1, <3>1 DEF Fresh
      <3>3. ctx'.st = ctx.st
        BY <1>4 DEF Alike
      <3>4. ~HeadRead(ctx')
        BY <2>2, <3>3 DEF HeadRead
      <3> QED BY <1>3, <1>4, <3>1, <3>2, <3>3, <3>4 DEF Stable, Alike
    <2> QED BY <2>1, <2>2
  <1>6. Sending(ctx', got)
    BY <1>1, <1>4, AlikeAnswers
  <1>7. ~Diverged' => Answering(ctx', got) /\ LengthSound(ctx', got)
    <2>1. PageUnsent(ctx') = PageUnsent(ctx)
      BY <1>4, AlikeAnswers
    <2>2. ~Diverged' => ~Diverged
      BY <1>1, <2>1, NotDiverged, NotDivergedNext
    <2> QED BY <1>1, <1>4, <2>2, AlikeAnswers
  <1>8. rebuilt' \in BOOLEAN /\ cause' \in {"none", "late", "notLate", "noUpstream"}
    BY <1>1 DEF TypeOK
  <1>9. LateUnlessCGI'
    BY <1>1, <1>4 DEF LateUnlessCGI, Alike, SameRequest, SameAnswer
  <1>10. "canWrite" \notin ctx'.st => "canWrite" \notin ctx.st /\ rebuilt' = rebuilt
    BY <1>1, <1>4 DEF Alike
  <1> QED BY <1>1, <1>5, <1>6, <1>7, <1>8, <1>9, <1>10, StepInd

LEMMA PeerInd ==
  ASSUME IInv, PeerLost \/ PeerCloses \/ UNCHANGED vars
  PROVE  IInv'
  <1>1. CASE PeerLost
    BY <1>1 DEF PeerLost, IInv, TypeOK, Diverged, PageDiverges, NoLogicError, LateUnlessCGI, WellFormed,
                LengthKept
  <1>2. CASE PeerCloses
    BY <1>2 DEF PeerCloses, IInv, TypeOK, Diverged, PageDiverges, NoLogicError, LateUnlessCGI, WellFormed,
                LengthKept
  <1>3. CASE UNCHANGED vars
    BY <1>3 DEF vars, IInv, TypeOK, Diverged, PageDiverges, NoLogicError, LateUnlessCGI, WellFormed,
                LengthKept
  <1> QED BY <1>1, <1>2, <1>3

LEMMA InitInd ==
  ASSUME Init
  PROVE  IInv
  <1>1. /\ ctx = Fresh /\ life = "open" /\ peerOpen = TRUE /\ rebuilt = FALSE /\ cause = "none"
        /\ got = [head |-> FALSE, len |-> 0, length |-> Unknown, bad |-> FALSE]
    BY DEF Init
  <1>2. Nothing \in Buffer
    BY Numbers DEF Nothing, Buffer
  <1>3. /\ 0 \in 0 .. 1 /\ 0 \in 0 .. MaxBody /\ 0 \in 0 .. MaxBody + Extra /\ 0 \in 0 .. SendMax
        /\ Extra \in 0 .. Extra /\ 0 \in Units /\ "none" \in Status
    BY Numbers DEF Status
  <1>4. [t \in Timer |-> IF t = "header" THEN 0 ELSE Off] \in [Timer -> 0 .. Off]
    BY Numbers DEF Off
  <1>5. Fresh \in Context
    BY <1>2, <1>3, <1>4 DEF Fresh, Context
  <1>6. /\ Fresh.st = {} /\ Fresh.age["body"] = Off /\ ~Fresh.opened
        /\ Fresh = [Fresh EXCEPT !.st = Fresh.st, !.age = Fresh.age]
    BY ZenonT(30) DEF Fresh, Timer
  <1>7. ~HeadRead(ctx) /\ Stable(ctx)
    <2>1. ~HeadRead(Fresh)
      BY <1>6, FlagSets DEF HeadRead
    <2> QED BY <1>1, <1>5, <1>6, <2>1 DEF Stable
  <1>8. Pristine(got)
    BY <1>1 DEF Pristine
  <1>9. Sending(ctx, got) /\ Answering(ctx, got) /\ LengthSound(ctx, got)
    BY <1>7, <1>8, UnreadSound
  <1>10. TypeOK
    <2>1. got \in [head : BOOLEAN, len : Units, length : Units \cup {Unknown}, bad : BOOLEAN]
      BY <1>1, <1>3
    <2> QED BY <1>1, <1>5, <2>1 DEF TypeOK
  <1>11. NoLogicError /\ LateUnlessCGI /\ WellFormed /\ LengthKept
    BY <1>1, <1>8 DEF NoLogicError, LateUnlessCGI, WellFormed, LengthKept, Pristine
  <1> QED BY <1>1, <1>7, <1>8, <1>9, <1>10, <1>11 DEF IInv

-----------------------------------------------------------------------------
(* IInv is inductive: from Init, and through every handler, timer and move *)
(* of the peer.                                                            *)
LEMMA NextInd ==
  ASSUME IInv, [Next]_vars
  PROVE  IInv'
  <1>1. \/ HandleSocketIn \/ HandleSocketOut \/ HandleCGIIn \/ HandleCGIOut \/ TimeoutCheck \/ Tick
        \/ PeerLost \/ PeerCloses \/ UNCHANGED vars
    BY DEF Next
  <1> QED BY <1>1, HandleSocketInInd, HandleSocketOutInd, HandleCGIInInd, HandleCGIOutInd,
             TimeoutCheckInd, TickInd, PeerInd

(* IInv holds of every state a connection can be in, whatever the sizes    *)
(* and the order of its events.                                            *)
THEOREM IInvHolds == Spec => []IInv
  <1>1. Init => IInv
    BY InitInd
  <1>2. IInv /\ [Next]_vars => IInv'
    BY NextInd
  <1> QED BY <1>1, <1>2, PTL DEF Spec

(* Every context the handlers of a connection share is one the code can    *)
(* be in: flags, lengths, buffers and timestamps stay in range.            *)
THEOREM ConnectionTypeCorrect == Spec => []TypeOK
  <1>1. IInv => TypeOK
    BY DEF IInv
  <1> QED BY <1>1, IInvHolds, PTL

(* No order of socket, CGI and timer events makes an ARequest run one of   *)
(* its default handlers, which throw std::logic_error.                     *)
THEOREM HandlersAreTheRequests == Spec => []NoLogicError
  <1>1. IInv => NoLogicError
    BY DEF IInv
  <1> QED BY <1>1, IInvHolds, PTL

(* timeoutCheck answers 408 to a peer that owes nothing only while a CGI   *)
(* is slow to take its input, or after a configured error page was opened. *)
THEOREM LateOnlyForCGI == Spec => []LateUnlessCGI
  <1>1. IInv => LateUnlessCGI
    BY DEF IInv
  <1> QED BY <1>1, IInvHolds, PTL

(* What handleOut sends is one head and then a body, unless the response   *)
(* was built anew when it could already be written, or a configured page   *)
(* could not be sent.                                                      *)
THEOREM ResponseIsWellFormed == Spec => []WellFormed
  <1>1. IInv => WellFormed
    BY DEF IInv
  <1> QED BY <1>1, IInvHolds, PTL

(* A connection closed because all was sent has delivered as much body as  *)
(* its Content-Length announced, whatever the sizes of file, page and read *)
(* are, under the same provisos.                                           *)
THEOREM LengthIsKept == Spec => []LengthKept
  <1>1. IInv => LengthKept
    BY DEF IInv
  <1> QED BY <1>1, IInvHolds, PTL
===============================================================================
