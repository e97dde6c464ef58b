--------------------------- MODULE CgiExchangeProofs ---------------------------
(***************************************************************************)
(* Proofs about CgiExchange, for bodies of any length, any program of      *)
(* reads, writes and hangs, and any size of the socket pair, of a read and *)
(* of the client's window: what the program wrote is in the answer, and it *)
(* finds the end of its input only behind all of the body, as long as the  *)
(* connection lasts.                                                       *)
(***************************************************************************)
EXTENDS CgiExchange, FiniteSetTheorems, TLAPS

(* As long as the answer is the program's, each unit it wrote is in the    *)
(* socket pair, in the response buffer, or has been delivered.             *)
Conserved == ending \in {"none", "cgi"} => toServer + (out + delivered) = Written

(* WORK_COMPLETE without a page of the server's own: the program has come  *)
(* to its end and everything it wrote has been read.                       *)
WorkEnds ==
    /\ work /\ ending \in {"none", "cgi"} => toServer = 0 /\ done = Len(program) /\ ChildEndClosed
    /\ ending = "cgi" => work /\ out = 0

(* A page of the server's own waits whole until the connection goes.       *)
PageWaits ==
    client = "open" /\ ending \in {"500", "timeout", "again"} => work /\ out = 1 /\ delivered <= Len(program)

(* The child of an open connection runs or has ended by itself; that of    *)
(* one that is gone does not run, when _removeConnection has seen to it.   *)
ChildOfClient ==
    /\ client = "open" => /\ ending \in {"none", "500", "timeout", "again"}
                          /\ cgi \in {"running", "zombie"}
                          /\ cgi = "zombie" => done = Len(program)
    /\ client = "gone" => ending # "none" /\ (IF pc = "reap" THEN cgi # "reaped" ELSE cgi # "running")
    /\ reset => ChildEndClosed

(* What is left of the body is with the peer, in its socket, or in the     *)
(* buffer.                                                                 *)
BodyConserved == due = unsent + (inbound + buffer)

(* What the program has read, the end of its input among it.               *)
ReadSoFar == CountOf("read", done)

(* What the kernel took for the program was read by it or is still there;  *)
(* the sending side is shut down when nothing is due.                      *)
InputGiven ==
    /\ cgi = "running" => ReadSoFar + toCgi >= body - due + sent
    /\ eof => due = 0

(* A send() blocks on behalf of the event at the head of the batch, the    *)
(* removal goes on on behalf of a client that is gone.                     *)
ThreadSound ==
    /\ sent <= buffer /\ (pc # "sending" => sent = 0)
    /\ taken <= out /\ (pc # "answering" => taken = 0)
    /\ pc = "sending" => client = "open" /\ batch # <<>> /\ batch[1] = <<"cgi", {"out"}>>
    /\ pc = "answering" => client = "open" /\ batch # <<>> /\ batch[1] = <<"client", {"out"}>>
    /\ pc = "wait" => batch = <<>>
    /\ pc \in {"reap", "waitpid"} => client = "gone"

(* Each item is at most once in the batch, nothing in it is stale: no      *)
(* event of a client that is gone, input of the program where there is     *)
(* some or its end.                                                        *)
EventsDistinct(b) == \A k, l \in DOMAIN b : b[k][1] = b[l][1] => k = l
EventSound(e) ==
    /\ e[1] # "other" => client = "open"
    /\ e[1] = "cgi" /\ "in" \in e[2] => toServer > 0 \/ ChildEndClosed
BatchSound == EventsDistinct(batch) /\ \A k \in DOMAIN batch : EventSound(batch[k])

IInv ==
    /\ TypeOK
    /\ Conserved /\ WorkEnds /\ PageWaits
    /\ ChildOfClient
    /\ BodyConserved /\ InputGiven
    /\ ThreadSound /\ BatchSound

-----------------------------------------------------------------------------
(* Counting what a program has done. *)

LEMMA CountOfType ==
  ASSUME TypeOK, NEW op, NEW n \in 0 .. Len(program) PROVE CountOf(op, n) \in 0 .. n
  <1>1. program \in Seq({"read", "write", "hang"}) /\ n \in Nat
    BY CgiExchangeAssumption DEF TypeOK
  <1>2. IsFiniteSet(1 .. n) /\ Cardinality(1 .. n) = n
    BY <1>1, FS_Interval
  <1>3. CountOf(op, n) \in Nat /\ CountOf(op, n) <= n
    BY <1>1, <1>2, FS_Subset, FS_CardinalityType DEF CountOf
  <1> QED BY <1>1, <1>3

(* One more step of the program. *)
LEMMA CountOfStep ==
  ASSUME TypeOK, done < Len(program), NEW op
  PROVE  CountOf(op, done + 1) = CountOf(op, done) + (IF program[done + 1] = op THEN 1 ELSE 0)
  <1> DEFINE S == {i \in 1 .. done : program[i] = op}
  <1>1. program \in Seq({"read", "write", "hang"}) /\ done \in Nat
    BY CgiExchangeAssumption DEF TypeOK
  <1>2. IsFiniteSet(S)
    <2>1. S \subseteq 1 .. done /\ IsFiniteSet(1 .. done)
      BY <1>1, FS_Interval
    <2> QED BY <2>1, FS_Subset
  <1>3. CASE program[done + 1] = op
    <2>1. {i \in 1 .. done + 1 : program[i] = op} = S \cup {done + 1} /\ done + 1 \notin S
      BY <1>1, <1>3
    <2> HIDE DEF S
    <2>2. Cardinality(S \cup {done + 1}) = Cardinality(S) + 1
      BY <1>2, <2>1, FS_AddElement
    <2> QED BY <1>3, <2>1, <2>2 DEF CountOf, S
  <1>4. CASE program[done + 1] # op
    <2>1. {i \in 1 .. done + 1 : program[i] = op} = S
      BY <1>1, <1>4
    <2>2. CountOf(op, done + 1) = Cardinality(S) /\ CountOf(op, done) = Cardinality(S)
      BY <2>1 DEF CountOf
    <2>3. Cardinality(S) \in Nat
      BY <1>2, FS_CardinalityType
    <2> HIDE DEF S
    <2> QED BY <1>4, <2>2, <2>3
  <1> QED BY <1>3, <1>4

LEMMA Counts ==
  ASSUME TypeOK PROVE Written \in 0 .. Len(program) /\ ReadSoFar \in 0 .. Len(program)
  <1>1. done \in 0 .. Len(program) /\ Len(program) \in Nat
    BY CgiExchangeAssumption DEF TypeOK
  <1> QED BY <1>1, CountOfType DEF Written, ReadSoFar

(* What is counted is a number. *)
LEMMA Numbers ==
  ASSUME TypeOK
  PROVE  /\ Cap \in Nat /\ Window \in Nat /\ ReadSize \in Nat /\ Len(program) \in Nat /\ body \in Nat
         /\ unsent \in Nat /\ inbound \in Nat /\ buffer \in Nat /\ due \in Nat /\ sent \in Nat
         /\ outbound \in Nat /\ taken \in Nat /\ out \in Nat /\ delivered \in Nat /\ toCgi \in Nat /\ toServer \in Nat
         /\ done \in Nat
  <1>1. Len(program) \in Nat /\ body \in Nat /\ Cap \in Nat /\ Window \in Nat /\ ReadSize \in Nat
    BY CgiExchangeAssumption DEF TypeOK
  <1> QED BY <1>1 DEF TypeOK

LEMMA CountsKept ==
  ASSUME UNCHANGED <<program, done>> PROVE Written' = Written /\ ReadSoFar' = ReadSoFar
  BY DEF Written, ReadSoFar, CountOf

(* The program's own steps. *)
LEMMA CountsStep ==
  ASSUME TypeOK, Running, done' = done + 1, UNCHANGED program
  PROVE  /\ Written' = Written + (IF Operation = "write" THEN 1 ELSE 0)
         /\ ReadSoFar' = ReadSoFar + (IF Operation = "read" THEN 1 ELSE 0)
         /\ done' \in 0 .. Len(program)
  <1>1. done \in Nat /\ Len(program) \in Nat
    BY CgiExchangeAssumption DEF TypeOK
  <1>2. Written' = CountOf("write", done + 1) /\ ReadSoFar' = CountOf("read", done + 1)
    BY DEF Written, ReadSoFar, CountOf
  <1> QED BY <1>1, <1>2, CountOfStep DEF Written, ReadSoFar, Running, Operation

-----------------------------------------------------------------------------
(* The batch. *)

BatchType == Seq(Item \X SUBSET {"in", "out", "hup"})

(* An event of the batch that goes on was in the batch before, with no     *)
(* more flags; the flag that was dealt with is not among them.             *)
Shrinks(b, c, flag) ==
    \A k \in DOMAIN c : \E l \in DOMAIN b :
        c[k][1] = b[l][1] /\ c[k][2] \subseteq b[l][2] /\ (l = 1 => flag \notin c[k][2])

LEMMA WithoutShrinks ==
  ASSUME batch \in BatchType, batch # <<>>, NEW flag
  PROVE  /\ Without(flag) \in BatchType
         /\ Shrinks(batch, Without(flag), flag)
         /\ EventsDistinct(batch) => EventsDistinct(Without(flag))
  <1> DEFINE T == Item \X SUBSET {"in", "out", "hup"}
  <1>1. CASE batch[1][2] = {flag}
    <2>1. Without(flag) = Tail(batch)
      BY <1>1 DEF Without
    <2>2. /\ Tail(batch) \in Seq(T) /\ Len(Tail(batch)) = Len(batch) - 1
          /\ \A k \in DOMAIN Tail(batch) : k + 1 \in DOMAIN batch /\ Tail(batch)[k] = batch[k + 1]
                                            /\ k + 1 # 1
      BY DEF BatchType
    <2> QED BY <2>1, <2>2 DEF BatchType, Shrinks, EventsDistinct
  <1>2. CASE batch[1][2] # {flag}
    <2>1. Without(flag) = [batch EXCEPT ![1][2] = @ \ {flag}]
      BY <1>2 DEF Without
    <2>2. batch[1] \in T /\ 1 \in DOMAIN batch
      BY DEF BatchType
    <2>3. Without(flag)[1] = <<batch[1][1], batch[1][2] \ {flag}>>
      BY <2>1, <2>2 DEF BatchType
    <2>4. DOMAIN Without(flag) = DOMAIN batch /\ \A k \in DOMAIN batch \ {1} : Without(flag)[k] = batch[k]
      BY <2>1, <2>2 DEF BatchType
    <2>5. <<batch[1][1], batch[1][2] \ {flag}>> \in T
      BY <2>2
    <2>6. Without(flag) \in Seq(T)
      BY <2>1, <2>2, <2>3, <2>4, <2>5 DEF BatchType
    <2>7. \A k \in DOMAIN batch : Without(flag)[k][1] = batch[k][1] /\ Without(flag)[k][2] \subseteq batch[k][2]
      BY <2>3, <2>4
    <2>8. flag \notin Without(flag)[1][2]
      BY <2>3
    <2> HIDE DEF T
    <2> QED BY <2>4, <2>6, <2>7, <2>8 DEF BatchType, Shrinks, EventsDistinct, T
  <1> QED BY <1>1, <1>2

(* Nothing goes stale while the conditions of its events persist, and the  *)
(* flag that was dealt with may lose its own.                              *)
LEMMA DealtSound ==
  ASSUME TypeOK, BatchSound, batch # <<>>, NEW flag, batch' = Without(flag), UNCHANGED client,
         toServer > 0 \/ ChildEndClosed =>
           (toServer' > 0 \/ ChildEndClosed') \/ (batch[1][1] = "cgi" /\ flag = "in")
  PROVE  BatchSound' /\ batch' \in BatchType
  <1>1. /\ batch' \in BatchType /\ Shrinks(batch, batch', flag) /\ EventsDistinct(batch')
    BY WithoutShrinks DEF TypeOK, BatchType, BatchSound
  <1>2. ASSUME NEW k \in DOMAIN batch' PROVE EventSound(batch[k])'
    <2>1. PICK l \in DOMAIN batch : /\ batch'[k][1] = batch[l][1] /\ batch'[k][2] \subseteq batch[l][2]
                                    /\ l = 1 => flag \notin batch'[k][2]
      BY <1>1 DEF Shrinks
    <2>2. 1 \in DOMAIN batch /\ (l # 1 => batch[l][1] # batch[1][1])
      BY SMTT(30) DEF BatchSound, EventsDistinct, TypeOK
    <2>3. EventSound(batch[l])
      BY DEF BatchSound
    <2> QED BY <2>1, <2>2, <2>3 DEF EventSound
  <1> QED BY <1>1, <1>2 DEF BatchSound, EventsDistinct

LEMMA KeptSound ==
  ASSUME TypeOK, BatchSound, UNCHANGED <<batch, client>>,
         toServer > 0 \/ ChildEndClosed => toServer' > 0 \/ ChildEndClosed'
  PROVE  BatchSound' /\ batch' \in BatchType
  BY DEF BatchSound, EventSound, EventsDistinct, TypeOK, BatchType

(* The rest of the batch is dropped. *)
LEMMA DroppedSound == ASSUME batch' = <<>> PROVE BatchSound' /\ batch' \in BatchType
  BY DEF BatchSound, EventsDistinct, BatchType

-----------------------------------------------------------------------------
(* The program, the peer and time. *)

LEMMA CgiReadsInd == ASSUME IInv, CgiReads PROVE IInv'
  <1>1. /\ Running /\ done' = done + 1 /\ Operation = "read"
        /\ UNCHANGED <<body, program, peer, client, buffer, due, answer, late, watch, eof, toServer,
                       reset, cgi, thread, waiting>>
        /\ toCgi' \in 0 .. Cap
        /\ toCgi' = toCgi - 1 \/ toCgi' = toCgi
        /\ UNCHANGED <<ending, work, out, delivered, silent, unsent, inbound, outbound, lost,
                       pc, batch, queue, sent, taken>>
    BY CgiExchangeAssumption DEF CgiReads, IInv, TypeOK, answer, peer, thread
  <1>2. /\ Written' = Written /\ ReadSoFar' = ReadSoFar + 1 /\ done' \in 0 .. Len(program)
        /\ ReadSoFar \in Nat
    BY <1>1, CountsStep, Counts DEF IInv
  <1>3. BatchSound'
    BY <1>1, KeptSound DEF IInv, ChildEndClosed
  <1>4. TypeOK'
    BY SMTT(30), <1>1, <1>2 DEF IInv, TypeOK
  <1>5. done < Len(program) /\ cgi = "running"
    BY <1>1 DEF Running
  <1>6. Conserved' /\ WorkEnds' /\ PageWaits' /\ ChildOfClient' /\ BodyConserved' /\ ThreadSound'
    BY <1>1, <1>2, <1>5 DEF IInv, Conserved, WorkEnds, PageWaits, ChildOfClient, BodyConserved,
       ThreadSound, ChildEndClosed
  <1>7. InputGiven'
    <2>1. /\ ReadSoFar \in Int /\ toCgi \in Int /\ toCgi' \in Int /\ body \in Int /\ due \in Int
          /\ sent \in Int
      BY <1>1, <1>2, CgiExchangeAssumption DEF IInv, TypeOK
    <2>2. ReadSoFar' = ReadSoFar + 1 /\ (toCgi' = toCgi - 1 \/ toCgi' = toCgi)
      BY <1>1, <1>2
    <2>3. ReadSoFar + toCgi >= body - due + sent => ReadSoFar' + toCgi' >= body - due + sent
      <3>1. CASE toCgi' = toCgi
        BY <2>1, <2>2, <3>1
      <3>2. CASE toCgi' = toCgi - 1
        BY <2>1, <2>2, <3>2
      <3> QED BY <2>2, <3>1, <3>2
    <2> QED BY <1>1, <2>3 DEF IInv, InputGiven
  <1> QED BY <1>3, <1>4, <1>6, <1>7 DEF IInv

LEMMA CgiWritesInd == ASSUME IInv, CgiWrites PROVE IInv'
  <1>1. /\ Running /\ Operation = "write"
        /\ UNCHANGED <<body, program, client, buffer, due, late, watch, eof, toCgi, reset, waiting>>
        /\ UNCHANGED <<ending, work, out, delivered, silent, unsent, inbound, outbound, lost,
                       pc, batch, queue, sent, taken>>
    BY DEF CgiWrites, answer, peer, thread
  <1>2. toServer \in Nat /\ Cap \in Nat /\ out \in Int /\ delivered \in Int /\ Written \in Int
    BY Counts, CgiExchangeAssumption DEF IInv, TypeOK
  <1>3. done < Len(program) /\ cgi = "running"
    BY <1>1 DEF Running
  <1>4. CASE client = "gone"
    <2>1. cgi' = "killed" /\ UNCHANGED <<toServer, done>>
      BY <1>4 DEF CgiWrites
    <2>2. Written' = Written /\ ReadSoFar' = ReadSoFar
      BY <1>1, <2>1, CountsKept
    <2>3. BatchSound'
      BY <1>1, <1>3, <2>1, KeptSound DEF IInv, ChildEndClosed
    <2>4. TypeOK'
      BY <1>1, <2>1 DEF IInv, TypeOK
    <2>5. /\ Conserved' /\ WorkEnds' /\ PageWaits' /\ ChildOfClient' /\ BodyConserved'
          /\ ThreadSound' /\ InputGiven'
      BY <1>1, <1>3, <1>4, <2>1, <2>2 DEF IInv, Conserved, WorkEnds, PageWaits, ChildOfClient,
         BodyConserved, ThreadSound, InputGiven, ChildEndClosed
    <2> QED BY <2>3, <2>4, <2>5 DEF IInv
  <1>5. CASE client # "gone"
    <2>1. done' = done + 1 /\ toServer' = toServer + 1 /\ toServer < Cap /\ cgi' = cgi
      BY <1>5 DEF CgiWrites
    <2>2. Written' = Written + 1 /\ ReadSoFar' = ReadSoFar /\ done' \in 0 .. Len(program)
      BY <1>1, <2>1, CountsStep, Counts DEF IInv
    <2>3. BatchSound'
      BY <1>1, <1>2, <2>1, KeptSound DEF IInv, ChildEndClosed
    <2>4. TypeOK'
      BY <1>1, <1>2, <2>1, <2>2 DEF IInv, TypeOK
    <2>5. /\ Conserved' /\ WorkEnds' /\ PageWaits' /\ ChildOfClient' /\ BodyConserved'
          /\ ThreadSound' /\ InputGiven'
      BY <1>1, <1>2, <1>3, <2>1, <2>2 DEF IInv, Conserved, WorkEnds, PageWaits, ChildOfClient,
         BodyConserved, ThreadSound, InputGiven, ChildEndClosed
    <2> QED BY <2>3, <2>4, <2>5 DEF IInv
  <1> QED BY <1>4, <1>5

(* A killed program belongs to a client that is gone: the answer of one    *)
(* that is open is not cut short.                                          *)
LEMMA CgiEndsInd == ASSUME IInv, CgiEnds PROVE IInv'
  <1>1. /\ cgi \in {"killed", "running"} /\ (cgi = "running" => done = Len(program))
        /\ cgi' = "zombie" /\ reset' = (toCgi > 0) /\ toCgi' = 0
        /\ UNCHANGED <<body, program, client, buffer, due, late, watch, eof, toServer, done, waiting>>
        /\ UNCHANGED <<ending, work, out, delivered, silent, unsent, inbound, outbound, lost,
                       pc, batch, queue, sent, taken>>
    BY DEF CgiEnds, answer, peer, thread
  <1>2. Written' = Written /\ ReadSoFar' = ReadSoFar
    BY <1>1, CountsKept
  <1>3. BatchSound'
    BY <1>1, KeptSound DEF IInv, ChildEndClosed
  <1>4. TypeOK'
    BY <1>1, CgiExchangeAssumption DEF IInv, TypeOK
  <1>5. /\ Conserved' /\ WorkEnds' /\ PageWaits' /\ ChildOfClient' /\ BodyConserved' /\ ThreadSound'
        /\ InputGiven'
    BY <1>1, <1>2 DEF IInv, Conserved, WorkEnds, PageWaits, ChildOfClient, BodyConserved,
       ThreadSound, InputGiven, ChildEndClosed
  <1> QED BY <1>3, <1>4, <1>5 DEF IInv

(* Peer, other connections and time: the program and its answer are left   *)
(* alone.                                                                  *)
LEMMA OutsideInd ==
  ASSUME IInv, PeerSends \/ PeerReads \/ PeerLost \/ OtherReady \/ Tick PROVE IInv'
  <1>1. /\ UNCHANGED <<body, program, client, buffer, due, watch, pair, child, thread>>
        /\ UNCHANGED <<ending, work, out, delivered, silent>>
    BY DEF PeerSends, PeerReads, PeerLost, OtherReady, Tick, answer, peer
  <1>a. unsent \in Nat /\ inbound \in Nat /\ outbound \in Nat /\ body \in Nat /\ buffer \in Nat
        /\ due \in 0 .. body
    BY CgiExchangeAssumption DEF IInv, TypeOK
  <1>b. /\ UNCHANGED <<unsent, inbound>> \/ (unsent' = unsent - 1 /\ inbound' = inbound + 1)
        /\ unsent' \in 0 .. unsent /\ inbound' \in 0 .. body
        /\ outbound' \in 0 .. outbound /\ lost' \in BOOLEAN /\ waiting' \in BOOLEAN
        /\ late' \subseteq {"body", "send"}
    <2>1. CASE PeerSends
      BY <1>a, <2>1 DEF PeerSends, answer, peer, IInv, TypeOK, BodyConserved
    <2>2. CASE PeerReads
      BY <1>a, <2>2 DEF PeerReads, IInv, TypeOK
    <2>3. CASE PeerLost
      BY <1>a, <2>3 DEF PeerLost, IInv, TypeOK
    <2>4. CASE OtherReady
      BY <1>a, <2>4 DEF OtherReady, peer, IInv, TypeOK
    <2>5. CASE Tick
      BY <1>a, <2>5 DEF Tick, peer, IInv, TypeOK
    <2> QED BY <2>1, <2>2, <2>3, <2>4, <2>5
  <1>2. Written' = Written /\ ReadSoFar' = ReadSoFar
    BY <1>1, CountsKept DEF child
  <1>3. UNCHANGED <<eof, toCgi, toServer, reset, cgi, done, pc, batch, queue, sent, taken>>
    BY <1>1 DEF pair, child, thread
  <1>4. unsent \in Nat /\ body \in Nat /\ outbound \in Nat /\ inbound \in Nat /\ Window \in Nat
    BY CgiExchangeAssumption DEF IInv, TypeOK
  <1>5. BatchSound'
    BY <1>1, <1>b, <1>3, <1>4, KeptSound DEF IInv, ChildEndClosed
  <1>6. TypeOK'
    BY SMTT(30), <1>1, <1>b, <1>3, <1>4 DEF IInv, TypeOK
  <1>7. /\ Conserved' /\ WorkEnds' /\ PageWaits' /\ ChildOfClient' /\ ThreadSound' /\ InputGiven'
    BY <1>1, <1>2, <1>3 DEF IInv, Conserved, WorkEnds, PageWaits, ChildOfClient,
       ThreadSound, InputGiven, ChildEndClosed
  <1>8. BodyConserved'
    <2>1. UNCHANGED <<unsent, inbound>> \/ (unsent' = unsent - 1 /\ inbound' = inbound + 1)
      BY <1>b
    <2>2. UNCHANGED <<due, buffer>>
      BY <1>1
    <2> QED BY <1>4, <2>1, <2>2, <1>a DEF IInv, BodyConserved
  <1> QED BY <1>5, <1>6, <1>7, <1>8 DEF IInv

-----------------------------------------------------------------------------
(* The thread. *)

(* What epoll reports is so when it is reported, once for each item, and   *)
(* nothing is reported of a client that is gone.                           *)
LEMMA FlagsSound ==
  ASSUME IInv, NEW i \in Ready
  PROVE  /\ i \in Item /\ Flags(i) \in SUBSET {"in", "out", "hup"}
         /\ EventSound(<<i, Flags(i)>>)
  <1>1. i \in Item /\ Flags(i) # {}
    BY DEF Ready
  <1>2. CASE i = "client"
    <2>1. client = "open" /\ Flags(i) = ClientFlags
      BY <1>1, <1>2 DEF Flags
    <2>2. ClientFlags \in SUBSET {"in", "out", "hup"}
      BY DEF ClientFlags
    <2> QED BY <1>1, <1>2, <2>1, <2>2 DEF EventSound
  <1>3. CASE i = "cgi"
    <2>1. client = "open" /\ Flags(i) = CgiFlags
      BY <1>1, <1>3 DEF Flags
    <2>2. CgiFlags \in SUBSET {"in", "out", "hup"} /\ ("in" \in CgiFlags => toServer > 0 \/ ChildEndClosed)
      BY DEF CgiFlags
    <2> QED BY <1>1, <1>3, <2>1, <2>2 DEF EventSound
  <1>4. CASE i = "other"
    <2>1. Flags(i) \in SUBSET {"in", "out", "hup"}
      BY <1>4 DEF Flags
    <2> QED BY <1>1, <1>4, <2>1 DEF EventSound
  <1> QED BY <1>1, <1>2, <1>3, <1>4 DEF Item

LEMMA EpollWaitInd == ASSUME IInv, EpollWait PROVE IInv'
  <1>1. PICK q \in [1 .. Cardinality(Ready) -> Ready] :
          (\A m, n \in DOMAIN q : q[m] = q[n] => m = n) /\ queue' = q
    BY DEF EpollWait
  <1>2. /\ batch' = [k \in DOMAIN q |-> <<q[k], Flags(q[k])>>]
        /\ pc = "wait" /\ pc' = "batch"
        /\ UNCHANGED <<body, program, peer, client, buffer, due, answer, late, watch, pair, child,
                       sent, taken, waiting>>
    BY <1>1 DEF EpollWait
  <1>3. Cardinality(Ready) \in Nat
    <2>1. IsFiniteSet({"client"} \cup {"cgi"} \cup {"other"})
      BY FS_EmptySet, FS_AddElement, FS_Union, FS_Singleton
    <2>2. Ready \subseteq {"client"} \cup {"cgi"} \cup {"other"}
      BY DEF Ready, Item
    <2> QED BY <2>1, <2>2, FS_Subset, FS_CardinalityType
  <1>4. queue' \in Seq(Item)
    <2>1. Ready \subseteq Item
      BY DEF Ready
    <2> QED BY <1>1, <1>3, <2>1
  <1>5. batch' \in BatchType /\ DOMAIN batch' = DOMAIN q
        /\ \A k \in DOMAIN q : batch'[k] = <<q[k], Flags(q[k])>> /\ EventSound(batch'[k])
    <2>1. \A k \in DOMAIN q : q[k] \in Ready
      BY <1>1
    <2>2. \A k \in DOMAIN q : <<q[k], Flags(q[k])>> \in Item \X SUBSET {"in", "out", "hup"}
                              /\ EventSound(<<q[k], Flags(q[k])>>)
      BY <2>1, FlagsSound
    <2> QED BY <1>1, <1>2, <1>3, <2>2 DEF BatchType
  <1>6. EventsDistinct(batch')
    BY <1>1, <1>5 DEF EventsDistinct
  <1>7. BatchSound'
    BY <1>2, <1>5, <1>6 DEF BatchSound, EventSound, EventsDistinct, pair, child, peer, ChildEndClosed
  <1>8. TypeOK'
    BY SMTT(30), <1>2, <1>4, <1>5 DEF IInv, TypeOK, BatchType, peer, answer, pair, child
  <1>9. Written' = Written /\ ReadSoFar' = ReadSoFar
    BY <1>2, CountsKept DEF child
  <1>10. /\ Conserved' /\ WorkEnds' /\ PageWaits' /\ ChildOfClient' /\ BodyConserved' /\ ThreadSound'
         /\ InputGiven'
    BY <1>2, <1>9 DEF IInv, Conserved, WorkEnds, PageWaits, ChildOfClient, BodyConserved,
       ThreadSound, InputGiven, ChildEndClosed, peer, answer, pair, child
  <1> QED BY <1>7, <1>8, <1>10 DEF IInv

(* A connection that goes takes its events out of the batch.  It ends the  *)
(* program's answer only when that is through.                             *)
LEMMA RemovalInd ==
  ASSUME IInv, client = "open", sent = 0, NEW why \in {"lost", "timeout", "cgi"}, NEW rest,
         RemoveConnection(why, rest), UNCHANGED <<unsent, inbound, outbound, lost>>,
         out' \in 0 .. Len(program) + 1, delivered' \in 0 .. Len(program) + 1,
         why = "cgi" => work /\ out' = 0 /\ out' + delivered' = out + delivered
  PROVE  IInv'
  <1>1. /\ client' = "gone" /\ ending' = (IF ending = "none" THEN why ELSE ending)
        /\ late' = {} /\ watch' = {} /\ pc' = "reap" /\ taken' = 0
        /\ UNCHANGED <<body, program, buffer, due, work, silent, eof, toCgi, toServer, reset, cgi,
                       done, sent, waiting>>
    BY DEF RemoveConnection, pair, child
  <1>2. Written' = Written /\ ReadSoFar' = ReadSoFar
    BY <1>1, CountsKept
  <1>3. batch' = <<>> \/ batch' = <<<<"other", {"in"}>>>>
    BY DEF RemoveConnection
  <1>4. queue' = <<>> \/ queue' = <<"other">>
    BY DEF RemoveConnection
  <1>5. queue' \in Seq(Item)
    <2>1. "other" \in Item
      BY DEF Item
    <2>2. <<>> \in Seq(Item) /\ <<"other">> \in Seq(Item)
      BY <2>1
    <2> QED BY <1>4, <2>2
  <1>6. batch' \in BatchType /\ BatchSound' /\ queue' \in Seq(Item)
    <2>1. CASE batch' = <<>>
      BY <1>4, <2>1, DroppedSound, <1>5
    <2>2. CASE batch' = <<<<"other", {"in"}>>>>
      <3>1. <<"other", {"in"}>> \in Item \X SUBSET {"in", "out", "hup"}
        BY DEF Item
      <3>2. batch' \in BatchType /\ DOMAIN batch' = {1} /\ batch'[1] = <<"other", {"in"}>>
        BY <2>2, <3>1 DEF BatchType
      <3>3. BatchSound'
        BY <3>2 DEF BatchSound, EventsDistinct, EventSound
      <3> QED BY <1>5, <3>2, <3>3
    <2> QED BY <1>3, <2>1, <2>2
  <1>7. TypeOK'
    <2>1. taken' \in 0 .. Len(program) + 1
      BY <1>1, CgiExchangeAssumption DEF IInv, TypeOK
    <2> QED BY SMTT(30), <1>1, <1>6, <1>5, <2>1 DEF IInv, TypeOK, BatchType
  <1>8. Conserved' /\ WorkEnds'
    <2>1. ending' \in {"none", "cgi"} => ending = "none" /\ why = "cgi"
      BY <1>1 DEF IInv, ChildOfClient
    <2>2. ending = "none" /\ why = "cgi" => ChildEndClosed' /\ done = Len(program) /\ toServer = 0
      BY <1>1 DEF IInv, WorkEnds, ChildOfClient, ChildEndClosed
    <2>3. ending' = "cgi" => work /\ out' = 0
      BY <2>1
    <2> QED BY <1>1, <1>2, <2>1, <2>2, <2>3 DEF IInv, Conserved, WorkEnds
  <1>9. PageWaits' /\ ChildOfClient' /\ BodyConserved' /\ InputGiven'
    BY <1>1, <1>2 DEF IInv, PageWaits, ChildOfClient, BodyConserved, InputGiven, ChildEndClosed
  <1>10. ThreadSound'
    <2>1. 0 <= out' /\ sent' <= buffer'
      BY <1>1, CgiExchangeAssumption DEF IInv, TypeOK, ThreadSound
    <2> QED BY <1>1, <2>1 DEF ThreadSound
  <1> QED BY <1>6, <1>8, <1>9, <1>7, <1>10 DEF IInv

(* The event that is handled belongs to a client that is open.             *)
LEMMA CurrentSound ==
  ASSUME IInv, NEW i, NEW flag, Current(i, flag)
  PROVE  /\ pc = "batch" /\ batch # <<>> /\ batch[1][1] = i /\ sent = 0 /\ taken = 0
         /\ i # "other" => client = "open"
         /\ i = "cgi" /\ flag = "in" => toServer > 0 \/ ChildEndClosed
  <1>1. 1 \in DOMAIN batch
    BY DEF Current, IInv, TypeOK
  <1> QED BY <1>1 DEF Current, IInv, BatchSound, EventSound, ThreadSound

(* An action that deals with a flag and otherwise leaves the program's     *)
(* side, the answer and the client's state alone.                          *)
LEMMA OnlyDealtInd ==
  ASSUME IInv, NEW i, NEW flag, Current(i, flag), Dealt(flag),
         UNCHANGED <<body, program, client, due, answer, watch, pair, child, queue, sent, taken>>,
         UNCHANGED <<unsent, outbound, lost>>,
         inbound' + buffer' = inbound + buffer, buffer' \in 0 .. body, inbound' \in 0 .. body,
         buffer' >= buffer, late' \subseteq {"body", "send"}, waiting' \in BOOLEAN
  PROVE  IInv'
  <1>1. /\ pc = "batch" /\ batch # <<>> /\ sent = 0 /\ taken = 0 /\ batch' = Without(flag)
        /\ pc' = "batch"
    BY CurrentSound DEF Dealt
  <1>2. UNCHANGED <<work, silent, out, delivered, ending, eof, toCgi, toServer, reset, cgi, done>>
    BY DEF answer, pair, child
  <1>3. BatchSound' /\ batch' \in BatchType
    BY <1>1, <1>2, DealtSound DEF IInv, ChildEndClosed
  <1>4. TypeOK'
    BY SMTT(30), <1>1, <1>2, <1>3 DEF IInv, TypeOK, BatchType
  <1>5. Written' = Written /\ ReadSoFar' = ReadSoFar
    BY <1>2, CountsKept
  <1>6. buffer \in Int /\ inbound \in Int /\ unsent \in Int /\ buffer' \in Int /\ inbound' \in Int
    BY Numbers DEF IInv
  <1>7. BodyConserved'
    BY DEF IInv, BodyConserved
  <1>8. Conserved' /\ WorkEnds' /\ PageWaits' /\ ChildOfClient' /\ ThreadSound' /\ InputGiven'
    BY <1>1, <1>2, <1>5, <1>6 DEF IInv, Conserved, WorkEnds, PageWaits, ChildOfClient,
       ThreadSound, InputGiven, ChildEndClosed
  <1> QED BY <1>3, <1>4, <1>7, <1>8 DEF IInv

(* Nor the peer and the body.                                              *)
LEMMA StillInd ==
  ASSUME IInv, NEW i, NEW flag, Current(i, flag), Dealt(flag), waiting' = waiting \/ waiting' = FALSE,
         UNCHANGED <<body, program, peer, client, buffer, due, answer, late, watch, pair, child,
                     queue, sent, taken>>
  PROVE  IInv'
  <1>1. UNCHANGED <<unsent, inbound, outbound, lost>>
    BY DEF peer
  <1>2. /\ inbound' + buffer' = inbound + buffer /\ buffer' \in 0 .. body /\ inbound' \in 0 .. body
        /\ late' \subseteq {"body", "send"} /\ waiting' \in BOOLEAN
    BY <1>1 DEF IInv, TypeOK
  <1>3. buffer' >= buffer
    BY Numbers DEF IInv
  <1> QED BY <1>1, <1>2, <1>3, OnlyDealtInd

(* Behind it no child of a client that is gone runs.                       *)
LEMMA RemovalEndsInd == ASSUME IInv, ReapChild \/ WaitpidReturns PROVE IInv'
  <1>1. /\ pc \in {"reap", "waitpid"} /\ cgi' \in {"killed", "reaped"} /\ pc' \in {"batch", "waitpid"}
        /\ cgi' = "killed" => cgi # "zombie"
        /\ UNCHANGED <<body, program, client, buffer, due, late, watch, eof, toCgi, toServer, reset,
                       done, batch, queue, sent, taken, waiting>>
        /\ UNCHANGED <<unsent, inbound, outbound, lost, work, silent, out, delivered, ending>>
    BY DEF ReapChild, WaitpidReturns, peer, answer, pair
  <1>2. Written' = Written /\ ReadSoFar' = ReadSoFar
    BY <1>1, CountsKept
  <1>3. client = "gone" /\ (ChildEndClosed => ChildEndClosed')
    BY <1>1 DEF ReapChild, WaitpidReturns, IInv, ThreadSound, ChildEndClosed, TypeOK, ChildOfClient
  <1>4. BatchSound'
    BY <1>1, <1>3, KeptSound DEF IInv
  <1>5. TypeOK'
    BY <1>1 DEF IInv, TypeOK
  <1>6. /\ Conserved' /\ WorkEnds' /\ PageWaits' /\ ChildOfClient' /\ BodyConserved' /\ ThreadSound'
        /\ InputGiven'
    BY <1>1, <1>2, <1>3 DEF IInv, Conserved, WorkEnds, PageWaits, ChildOfClient, BodyConserved,
       ThreadSound, InputGiven
  <1> QED BY <1>4, <1>5, <1>6 DEF IInv

LEMMA HangUpInd == ASSUME IInv, ClientHangUp \/ CgiHangUp PROVE IInv'
  <1>1. CASE ClientHangUp
    <2>1. client = "open" /\ sent = 0
      BY <1>1, CurrentSound DEF ClientHangUp
    <2>2. /\ UNCHANGED <<unsent, inbound, outbound, lost>>
          /\ out' \in 0 .. Len(program) + 1 /\ delivered' \in 0 .. Len(program) + 1
      BY <1>1 DEF ClientHangUp, peer, IInv, TypeOK
    <2> QED BY <1>1, <2>1, <2>2, RemovalInd DEF ClientHangUp
  <1>2. CASE CgiHangUp
    <2>1. /\ Current("cgi", "hup") /\ Dealt("hup")
          /\ UNCHANGED <<body, program, peer, client, buffer, due, answer, late, watch, pair, child,
                         queue, sent, taken, waiting>>
      BY <1>2 DEF CgiHangUp
    <2> QED BY <2>1, StillInd
  <1> QED BY <1>1, <1>2

LEMMA HandleOtherInd == ASSUME IInv, HandleOther PROVE IInv'
  <1>1. /\ Current("other", "in") /\ Dealt("in") /\ waiting' = FALSE
        /\ UNCHANGED <<body, program, peer, client, buffer, due, answer, late, watch, pair, child,
                       queue, sent, taken>>
    BY DEF HandleOther
  <1> QED BY <1>1, StillInd

LEMMA HandleSocketInInd == ASSUME IInv, HandleSocketIn PROVE IInv'
  <1>1. client = "open" /\ pc = "batch" /\ batch # <<>> /\ batch[1][1] = "client" /\ sent = 0 /\ taken = 0
    BY CurrentSound DEF HandleSocketIn
  <1>2. CASE lost
    <2>1. /\ UNCHANGED <<unsent, inbound, outbound, lost>>
          /\ out' \in 0 .. Len(program) + 1 /\ delivered' \in 0 .. Len(program) + 1
      BY <1>2 DEF HandleSocketIn, peer, IInv, TypeOK
    <2> QED BY <1>1, <1>2, <2>1, RemovalInd DEF HandleSocketIn
  <1>3. CASE ~lost
    <2>1. /\ buffer' = buffer + inbound /\ inbound' = 0 /\ late' = {} /\ batch' = Without("in")
          /\ pc' = "batch" /\ Rebuilt
          /\ UNCHANGED <<body, program, unsent, outbound, lost, client, due, work, silent, watch, eof,
                         toCgi, toServer, reset, cgi, done, queue, sent, taken, waiting>>
      BY <1>1, <1>3 DEF HandleSocketIn, Dealt, pair, child
    <2>2. buffer' \in 0 .. body /\ inbound' \in 0 .. body /\ buffer' >= buffer
      <3>1. buffer + inbound <= body
        <4>1. due = unsent + (inbound + buffer) /\ due <= body
          BY DEF IInv, BodyConserved, TypeOK
        <4> QED BY SMTT(30), <4>1, Numbers DEF IInv
      <3> QED BY SMTT(30), <2>1, <3>1, Numbers DEF IInv
    <2>3. /\ out' \in 0 .. Len(program) + 1 /\ delivered' \in 0 .. Len(program) + 1
          /\ ending' \in {"none", "cgi", "500", "timeout", "lost", "again"}
          /\ UNCHANGED <<out, delivered, ending>> \/ (work /\ out' = 1 /\ delivered' = 0 /\ ending' \notin {"none", "cgi"})
      <3>1. Len(program) \in Nat /\ 1 \in 0 .. Len(program) + 1 /\ 0 \in 0 .. Len(program) + 1
        BY CgiExchangeAssumption DEF IInv, TypeOK
      <3>2. ending # "cgi"
        BY <1>1 DEF IInv, ChildOfClient
      <3> QED BY <2>1, <3>1, <3>2 DEF Rebuilt, IInv, TypeOK
    <2>4. BatchSound' /\ batch' \in BatchType
      BY <1>1, <2>1, DealtSound DEF IInv, ChildEndClosed
    <2>5. Written' = Written /\ ReadSoFar' = ReadSoFar
      BY <2>1, CountsKept
    <2>6. TypeOK'
      BY SMTT(30), <2>1, <2>2, <2>3, <2>4 DEF IInv, TypeOK, BatchType
    <2>7. BodyConserved'
      <3>1. inbound + buffer = 0 + (buffer + inbound)
        BY Numbers DEF IInv
      <3> QED BY <2>1, <3>1 DEF IInv, BodyConserved
    <2>8. Conserved' /\ WorkEnds'
      BY <2>1, <2>3, <2>5 DEF IInv, Conserved, WorkEnds, ChildEndClosed
    <2>9. PageWaits' /\ ChildOfClient'
      <3>1. 0 <= Len(program)
        BY CgiExchangeAssumption DEF IInv, TypeOK
      <3>2. ending' \in {"none", "500", "timeout", "again"}
        BY <1>1, <2>1 DEF Rebuilt, IInv, ChildOfClient
      <3>3. ChildOfClient'
        BY <1>1, <2>1, <3>2 DEF IInv, ChildOfClient, ChildEndClosed
      <3>4. CASE UNCHANGED <<out, delivered, ending>>
        BY <2>1, <3>3, <3>4 DEF IInv, PageWaits
      <3>5. CASE work /\ out' = 1 /\ delivered' = 0
        BY <2>1, <3>1, <3>3, <3>5 DEF PageWaits
      <3> QED BY <2>3, <3>3, <3>4, <3>5
    <2>10. ThreadSound' /\ InputGiven'
      <3>1. sent <= buffer' /\ 0 <= out'
        BY <1>1, <2>2, <2>3, CgiExchangeAssumption DEF IInv, TypeOK
      <3> QED BY <1>1, <2>1, <2>5, <3>1 DEF IInv, ThreadSound, InputGiven
    <2> QED BY <2>4, <2>6, <2>7, <2>8, <2>9, <2>10 DEF IInv
  <1> QED BY <1>2, <1>3

LEMMA MinOfTwo == \A a, b \in Int : Min({a, b}) = IF a <= b THEN a ELSE b
  BY DEF Min

(* The connection goes when nothing is left and the program is through;    *)
(* else a send() begins, if there is something to send.                    *)
LEMMA HandleSocketOutInd == ASSUME IInv, HandleSocketOut PROVE IInv'
  <1>1. /\ client = "open" /\ pc = "batch" /\ batch # <<>> /\ batch[1][1] = "client"
        /\ sent = 0 /\ taken = 0 /\ Current("client", "out")
    BY CurrentSound DEF HandleSocketOut
  <1>2. UNCHANGED <<unsent, inbound, outbound, lost, out, delivered>>
    BY DEF HandleSocketOut, peer
  <1>3. CASE out = 0 /\ work
    <2>1. out' \in 0 .. Len(program) + 1 /\ delivered' \in 0 .. Len(program) + 1
      BY <1>2 DEF IInv, TypeOK
    <2> QED BY <1>1, <1>2, <1>3, <2>1, RemovalInd DEF HandleSocketOut
  <1>4. CASE out = 0 /\ ~work
    <2>1. /\ Dealt("out") /\ waiting' = waiting
          /\ UNCHANGED <<body, program, peer, client, buffer, due, answer, late, watch, pair, child,
                         queue, sent, taken>>
      BY <1>4 DEF HandleSocketOut, answer
    <2> QED BY <1>1, <2>1, StillInd
  <1>5. CASE out # 0
    <2>1. /\ pc' = "answering"
          /\ UNCHANGED <<body, program, client, buffer, due, work, silent, ending, late, watch, eof,
                         toCgi, toServer, reset, cgi, done, batch, queue, sent, taken, waiting>>
      BY <1>5 DEF HandleSocketOut, pair, child
    <2>2. batch[1] = <<"client", {"out"}>>
      <3>1. batch[1] \in Item \X SUBSET {"in", "out", "hup"}
        BY <1>1 DEF IInv, TypeOK
      <3>2. batch[1][2] = {"out"}
        BY <1>1 DEF Current
      <3> QED BY <1>1, <3>1, <3>2
    <2>3. Written' = Written /\ ReadSoFar' = ReadSoFar
      BY <2>1, CountsKept
    <2>4. BatchSound'
      BY <2>1, KeptSound DEF IInv, ChildEndClosed
    <2>5. TypeOK'
      BY <1>2, <2>1 DEF IInv, TypeOK
    <2>6. ThreadSound'
      BY <1>1, <1>2, <2>1, <2>2 DEF IInv, ThreadSound
    <2>7. /\ Conserved' /\ WorkEnds' /\ PageWaits' /\ ChildOfClient' /\ BodyConserved' /\ InputGiven'
      BY <1>1, <1>2, <2>1, <2>3 DEF IInv, Conserved, WorkEnds, PageWaits, ChildOfClient,
         BodyConserved, InputGiven, ChildEndClosed
    <2> QED BY <2>4, <2>5, <2>6, <2>7 DEF IInv
  <1> QED BY <1>3, <1>4, <1>5

LEMMA PieceFits == ASSUME IInv PROVE Piece <= out /\ Piece \in Nat
  <1>1. out \in Int /\ ReadSize \in Int /\ out \in Nat /\ ReadSize \in Nat
    BY Numbers DEF IInv
  <1> QED BY <1>1, MinOfTwo DEF Piece

(* The kernel takes one more unit of the answer for the peer.              *)
LEMMA AnswerCopiesInd == ASSUME IInv, AnswerCopies PROVE IInv'
  <1>1. /\ pc = "answering" /\ taken < Piece /\ outbound < Window
        /\ taken' = taken + 1 /\ outbound' = outbound + 1
        /\ UNCHANGED <<body, program, client, buffer, due, late, watch, pc, batch, queue, sent, waiting>>
        /\ UNCHANGED <<unsent, inbound, lost, work, silent, out, delivered, ending, eof, toCgi,
                       toServer, reset, cgi, done>>
    BY DEF AnswerCopies, answer, pair, child
  <1>2. Written' = Written /\ ReadSoFar' = ReadSoFar
    BY <1>1, CountsKept
  <1>3. BatchSound'
    BY <1>1, KeptSound DEF IInv, ChildEndClosed
  <1>4. taken' <= out /\ taken' \in 0 .. Len(program) + 1 /\ outbound' \in 0 .. Window
    <2>1. /\ taken \in Nat /\ out \in Nat /\ Len(program) \in Nat /\ outbound \in Nat /\ Window \in Nat
          /\ out <= Len(program) + 1
      BY Numbers DEF IInv, TypeOK
    <2>2. taken < out
      BY <1>1, <2>1, PieceFits
    <2> QED BY <1>1, <2>1, <2>2
  <1>5. TypeOK'
    BY <1>1, <1>4 DEF IInv, TypeOK
  <1>6. ThreadSound'
    BY <1>1, <1>4 DEF IInv, ThreadSound
  <1>7. /\ Conserved' /\ WorkEnds' /\ PageWaits' /\ ChildOfClient' /\ BodyConserved' /\ InputGiven'
    BY <1>1, <1>2 DEF IInv, Conserved, WorkEnds, PageWaits, ChildOfClient, BodyConserved,
       InputGiven, ChildEndClosed
  <1> QED BY <1>3, <1>5, <1>6, <1>7 DEF IInv

(* What was taken moves from the response buffer to the peer; the          *)
(* connection goes when nothing is left and the program is through.        *)
LEMMA AnswerReturnsInd == ASSUME IInv, AnswerReturns PROVE IInv'
  <1>1. /\ pc = "answering" /\ client = "open" /\ batch # <<>> /\ batch[1] = <<"client", {"out"}>>
        /\ sent = 0 /\ taken <= out
    BY DEF AnswerReturns, IInv, ThreadSound
  <1>2. /\ UNCHANGED <<unsent, inbound, outbound, lost>>
        /\ out' = out - taken /\ delivered' = delivered + taken
    BY DEF AnswerReturns, peer
  <1>3. out \in Nat /\ delivered \in Nat /\ taken \in Nat /\ toServer \in Nat /\ Len(program) \in Nat
        /\ out <= Len(program) + 1
    BY Numbers DEF IInv, TypeOK
  <1>4. out' \in 0 .. Len(program) + 1 /\ out' + delivered' = out + delivered
    BY <1>1, <1>2, <1>3
  <1>5. delivered' \in 0 .. Len(program) + 1
    <2>1. CASE ending = "none"
      <3>1. toServer + (out + delivered) = Written /\ Written <= Len(program) /\ Written \in Nat
        BY <2>1, Counts, Numbers DEF IInv, Conserved
      <3> QED BY <1>1, <1>2, <1>3, <3>1
    <2>2. CASE ending # "none"
      <3>1. delivered <= Len(program) /\ out = 1
        BY <1>1, <2>2 DEF IInv, PageWaits, ChildOfClient
      <3> QED BY <1>1, <1>2, <1>3, <3>1
    <2> QED BY <2>1, <2>2
  <1>6. CASE taken = 0
    <2>1. RemoveConnection("lost", <<>>)
      BY <1>6 DEF AnswerReturns
    <2> QED BY <1>1, <1>2, <1>4, <1>5, <2>1, RemovalInd
  <1>7. CASE taken # 0 /\ work /\ taken = out
    <2>1. RemoveConnection("cgi", <<>>) /\ out' = 0
      BY <1>2, <1>3, <1>7 DEF AnswerReturns
    <2> QED BY <1>1, <1>2, <1>4, <1>5, <1>7, <2>1, RemovalInd
  <1>8. CASE taken # 0 /\ ~(work /\ taken = out)
    <2>1. /\ pc' = "batch" /\ batch' = Without("out") /\ taken' = 0 /\ late' \subseteq late
          /\ UNCHANGED <<body, program, client, buffer, due, work, silent, ending, watch, eof, toCgi,
                         toServer, reset, cgi, done, queue, sent, waiting>>
      BY <1>8 DEF AnswerReturns, pair, child
    <2>2. BatchSound' /\ batch' \in BatchType
      BY <1>1, <2>1, DealtSound DEF IInv, ChildEndClosed
    <2>3. taken' \in 0 .. Len(program) + 1 /\ taken' <= out'
      BY <1>3, <1>4, <2>1
    <2>4. TypeOK'
      BY SMTT(30), <1>2, <1>4, <1>5, <2>1, <2>2, <2>3 DEF IInv, TypeOK, BatchType
    <2>5. Written' = Written /\ ReadSoFar' = ReadSoFar
      BY <2>1, CountsKept
    <2>6. Conserved'
      BY <1>4, <2>1, <2>5 DEF IInv, Conserved
    <2>7. PageWaits'
      <3>1. ending \in {"500", "timeout", "again"} => work /\ out = 1
        BY <1>1 DEF IInv, PageWaits
      <3>2. ending \in {"500", "timeout", "again"} => taken = out
        BY <1>1, <1>3, <1>8, <3>1
      <3> QED BY <1>8, <2>1, <3>1, <3>2 DEF PageWaits
    <2>8. ThreadSound'
      BY <1>1, <2>1, <2>3 DEF IInv, ThreadSound
    <2>9. WorkEnds' /\ ChildOfClient' /\ BodyConserved' /\ InputGiven'
      BY <1>1, <1>2, <2>1, <2>5 DEF IInv, WorkEnds, ChildOfClient, BodyConserved, InputGiven,
         ChildEndClosed
    <2> QED BY <2>2, <2>4, <2>6, <2>7, <2>8, <2>9 DEF IInv
  <1> QED BY <1>6, <1>7, <1>8

(* What the program wrote is taken before an error or the end is seen, so  *)
(* when the work is complete nothing is left behind.                       *)
LEMMA ReadCGIInd == ASSUME IInv, ReadCGI PROVE IInv'
  <1>1. /\ client = "open" /\ pc = "batch" /\ batch # <<>> /\ batch[1][1] = "cgi"
        /\ sent = 0 /\ taken = 0
        /\ toServer > 0 \/ ChildEndClosed
    BY CurrentSound DEF ReadCGI
  <1>2. /\ UNCHANGED <<body, program, client, buffer, due, late, watch, eof, toCgi, cgi, done, queue,
                       sent, taken, waiting, unsent, inbound, outbound, lost>>
        /\ batch' \in {Without("in"), <<>>} /\ pc' = "batch"
    BY <1>1 DEF ReadCGI, Dealt, Break, peer, child
  <1>3. BatchSound' /\ batch' \in BatchType
    BY <1>1, <1>2, DealtSound, DroppedSound DEF IInv, ChildEndClosed
  <1>4. Written' = Written /\ ReadSoFar' = ReadSoFar
    BY <1>2, CountsKept
  <1>5. BodyConserved' /\ InputGiven'
    BY <1>1, <1>2, <1>4 DEF IInv, BodyConserved, InputGiven
  <1>6. SUFFICES ASSUME TRUE
                 PROVE  /\ toServer' \in 0 .. Cap /\ out' \in 0 .. Len(program) + 1
                        /\ delivered' = delivered /\ work' \in BOOLEAN /\ silent' \in BOOLEAN
                        /\ reset' \in BOOLEAN /\ (reset' => reset) /\ ending' \in {ending, "500"}
                        /\ Conserved' /\ WorkEnds' /\ PageWaits'
    <2>1. TypeOK' /\ ChildOfClient'
      BY <1>1, <1>2, <1>3, <1>6 DEF IInv, TypeOK, BatchType, ChildOfClient, ChildEndClosed
    <2>2. 0 <= out'
      BY <1>6, CgiExchangeAssumption DEF IInv, TypeOK
    <2>3. ThreadSound'
      BY <1>1, <1>2, <2>2 DEF IInv, ThreadSound
    <2> QED BY <1>3, <1>5, <1>6, <2>1, <2>3 DEF IInv
  <1>7. toServer \in Nat /\ out \in Nat /\ delivered \in Nat /\ Written \in Nat
        /\ Written <= Len(program) /\ Len(program) \in Nat /\ Cap \in Nat
    BY Numbers, Counts DEF IInv
  <1>8. CASE work /\ UNCHANGED <<answer, toServer, reset>>
    BY <1>1, <1>2, <1>4, <1>8 DEF IInv, TypeOK, answer, Conserved, WorkEnds, PageWaits, ChildEndClosed
  <1>9. CASE /\ ~work /\ toServer > 0 /\ UNCHANGED <<work, delivered, ending, reset>>
             /\ LET n == Min({toServer, ReadSize})
                IN /\ toServer' = toServer - n /\ out' = out + n
                   /\ silent' = (silent /\ out + delivered + n <= 1)
    <2> DEFINE n == Min({toServer, ReadSize})
    <2>1. n \in 0 .. toServer
      BY <1>7, MinOfTwo, Numbers DEF IInv
    <2>2. /\ toServer' = toServer - n /\ out' = out + n /\ silent' \in BOOLEAN
      BY <1>9 DEF IInv, TypeOK
    <2> HIDE DEF n
    <2>3. ending = "none" /\ toServer + (out + delivered) = Written
      BY <1>1, <1>9 DEF IInv, PageWaits, ChildOfClient, Conserved
    <2>4. toServer' + (out' + delivered) = Written
      BY <1>7, <2>1, <2>2, <2>3
    <2>5. toServer' \in 0 .. Cap /\ out' \in 0 .. Len(program) + 1
      <3>1. toServer <= Cap /\ Cap \in Nat
        BY Numbers DEF IInv, TypeOK
      <3>2. toServer + out <= Written
        BY <1>7, <2>3
      <3> QED BY <1>7, <2>1, <2>2, <3>1, <3>2
    <2> QED BY <1>4, <1>9, <2>2, <2>3, <2>4, <2>5 DEF IInv, TypeOK, Conserved, WorkEnds, PageWaits
  <1>10. CASE /\ ~work /\ toServer = 0 /\ reset /\ work' = TRUE /\ reset' = FALSE
              /\ UNCHANGED <<silent, out, delivered, ending, toServer>>
    BY <1>1, <1>2, <1>4, <1>10 DEF IInv, TypeOK, Conserved, WorkEnds, PageWaits, ChildOfClient,
       ChildEndClosed
  <1>11. CASE /\ ~work /\ toServer = 0 /\ ~reset /\ work' = TRUE
              /\ IF out + delivered > 0
                  THEN UNCHANGED <<out, ending>>
                  ELSE out' = 1 /\ ending' = "500"
              /\ UNCHANGED <<silent, delivered, toServer, reset>>
    <2>1. ChildEndClosed /\ done = Len(program) /\ ending = "none"
      BY <1>1, <1>11 DEF IInv, ChildOfClient, ChildEndClosed, PageWaits
    <2>2. delivered <= Len(program)
      BY <1>7, <2>1 DEF IInv, Conserved
    <2>3. toServer' = 0 /\ work' = TRUE /\ UNCHANGED <<silent, delivered, reset>> /\ ChildEndClosed'
      BY <1>2, <1>11, <2>1 DEF ChildEndClosed
    <2>4. CASE UNCHANGED <<out, ending>>
      BY <1>2, <1>4, <1>11, <2>1, <2>3, <2>4 DEF IInv, TypeOK, Conserved, WorkEnds, PageWaits
    <2>5. CASE out' = 1 /\ ending' = "500"
      BY <1>2, <1>7, <2>2, <2>3, <2>5 DEF IInv, TypeOK, Conserved, WorkEnds, PageWaits
    <2> QED BY <1>11, <2>4, <2>5
  <1> QED BY <1>8, <1>9, <1>10, <1>11 DEF ReadCGI

(* send() is called for the event at the head of the batch, whose last     *)
(* flag that is.                                                           *)
LEMMA CGIOutInd == ASSUME IInv, CGIOut PROVE IInv'
  <1>1. /\ client = "open" /\ pc = "batch" /\ batch # <<>> /\ batch[1][1] = "cgi"
        /\ sent = 0 /\ taken = 0
    BY CurrentSound DEF CGIOut
  <1>2. /\ pc' = "sending" /\ sent' = 0
        /\ UNCHANGED <<body, program, client, buffer, due, late, watch, batch, queue, taken, waiting>>
        /\ UNCHANGED <<unsent, inbound, outbound, lost, work, silent, out, delivered, ending, eof,
                       toCgi, toServer, reset, cgi, done>>
    BY DEF CGIOut, peer, answer, pair, child
  <1>3. batch[1] = <<"cgi", {"out"}>>
    <2>1. batch[1] \in Item \X SUBSET {"in", "out", "hup"}
      BY <1>1 DEF IInv, TypeOK
    <2>2. batch[1][2] = {"out"}
      BY DEF CGIOut, Current
    <2> QED BY <1>1, <2>1, <2>2
  <1>4. Written' = Written /\ ReadSoFar' = ReadSoFar
    BY <1>2, CountsKept
  <1>5. BatchSound'
    BY <1>2, KeptSound DEF IInv, ChildEndClosed
  <1>6. TypeOK'
    BY <1>1, <1>2 DEF IInv, TypeOK
  <1>7. ThreadSound'
    BY <1>1, <1>2, <1>3, Numbers DEF IInv, ThreadSound
  <1>8. /\ Conserved' /\ WorkEnds' /\ PageWaits' /\ ChildOfClient' /\ BodyConserved' /\ InputGiven'
    BY <1>1, <1>2, <1>4 DEF IInv, Conserved, WorkEnds, PageWaits, ChildOfClient, BodyConserved,
       InputGiven, ChildEndClosed
  <1> QED BY <1>5, <1>6, <1>7, <1>8 DEF IInv

(* The kernel takes one more unit of the buffer for the program. *)
LEMMA SendCopiesInd == ASSUME IInv, SendCopies PROVE IInv'
  <1>1. /\ pc = "sending" /\ sent < buffer /\ toCgi < Cap
        /\ toCgi' = toCgi + 1 /\ sent' = sent + 1
        /\ UNCHANGED <<body, program, client, buffer, due, late, watch, pc, batch, queue, taken, waiting>>
        /\ UNCHANGED <<unsent, inbound, outbound, lost, work, silent, out, delivered, ending, eof,
                       toServer, reset, cgi, done>>
    BY DEF SendCopies, peer, answer, child
  <1>2. Written' = Written /\ ReadSoFar' = ReadSoFar
    BY <1>1, CountsKept
  <1>3. /\ sent \in Nat /\ buffer \in Nat /\ toCgi \in Nat /\ Cap \in Nat /\ body \in Nat /\ due \in Nat
        /\ ReadSoFar \in Nat /\ buffer <= body
    BY SMTT(30), Numbers, Counts DEF IInv, TypeOK
  <1>4. BatchSound'
    BY <1>1, KeptSound DEF IInv, ChildEndClosed
  <1>5. TypeOK'
    BY <1>1, <1>3 DEF IInv, TypeOK
  <1>6. InputGiven'
    <2>1. ReadSoFar + toCgi >= body - due + sent => ReadSoFar + (toCgi + 1) >= body - due + (sent + 1)
      BY <1>3
    <2> QED BY <1>1, <1>2, <2>1 DEF IInv, InputGiven
  <1>7. ThreadSound'
    BY <1>1, <1>3 DEF IInv, ThreadSound
  <1>8. /\ Conserved' /\ WorkEnds' /\ PageWaits' /\ ChildOfClient' /\ BodyConserved'
    BY <1>1, <1>2 DEF IInv, Conserved, WorkEnds, PageWaits, ChildOfClient, BodyConserved,
       ChildEndClosed
  <1> QED BY <1>4, <1>5, <1>6, <1>7, <1>8 DEF IInv

(* When send() returns with the program still there it has taken the whole *)
(* buffer; the sending side is shut down when that was the last of it.     *)
LEMMA SendReturnsInd == ASSUME IInv, SendReturns PROVE IInv'
  <1>1. /\ pc = "sending" /\ (sent = buffer \/ ChildEndClosed)
        /\ pc' = "batch" /\ sent' = 0
        /\ UNCHANGED <<body, program, client, late, toCgi, toServer, reset, cgi, done, queue, taken, waiting>>
        /\ UNCHANGED <<unsent, inbound, outbound, lost, work, silent, out, delivered, ending>>
    BY DEF SendReturns, peer, answer, child
  <1>2. /\ client = "open" /\ batch # <<>> /\ batch[1] = <<"cgi", {"out"}>>
    BY <1>1 DEF IInv, ThreadSound
  <1>3. Written' = Written /\ ReadSoFar' = ReadSoFar
    BY <1>1, CountsKept
  <1>4. /\ sent \in Nat /\ buffer \in Nat /\ toCgi \in Nat /\ body \in Nat /\ due \in Nat
        /\ ReadSoFar \in Nat /\ unsent \in Nat /\ inbound \in Nat
    BY Numbers, Counts DEF IInv
  <1>5. due = unsent + (inbound + buffer) /\ due <= body
    BY DEF IInv, BodyConserved, TypeOK
  <1>6. batch' \in {Without("out"), <<>>}
    BY DEF SendReturns
  <1>7. BatchSound' /\ batch' \in BatchType
    BY <1>1, <1>2, <1>6, DealtSound, DroppedSound DEF IInv, ChildEndClosed
  <1>8. Conserved' /\ WorkEnds' /\ PageWaits' /\ ChildOfClient'
    BY <1>1, <1>3 DEF IInv, Conserved, WorkEnds, PageWaits, ChildOfClient, ChildEndClosed
  <1>9. CASE UNCHANGED <<buffer, due, eof, watch>> /\ ChildEndClosed
    <2>1. TypeOK'
      <3>1. sent' \in 0 .. body
        BY <1>1, <1>4
      <3> QED BY <1>1, <1>7, <1>9, <3>1 DEF IInv, TypeOK, BatchType
    <2>2. BodyConserved' /\ ThreadSound' /\ InputGiven'
      BY <1>1, <1>3, <1>4, <1>9 DEF IInv, BodyConserved, ThreadSound, InputGiven, ChildEndClosed
    <2> QED BY <1>7, <1>8, <2>1, <2>2 DEF IInv
  <1>10. CASE /\ due' = due - buffer /\ buffer' = 0
              /\ IF due = buffer THEN eof' = TRUE /\ watch' = {"in"} ELSE UNCHANGED <<eof, watch>>
    <2>1. due - buffer = unsent + (inbound + 0) /\ due - buffer \in 0 .. body
      BY <1>4, <1>5
    <2>2. TypeOK'
      <3>1. sent' \in 0 .. body /\ buffer' \in 0 .. body /\ due' \in 0 .. body
        BY <1>1, <1>4, <1>10, <2>1
      <3>2. eof' \in BOOLEAN /\ watch' \subseteq {"in", "out"}
        BY <1>10 DEF IInv, TypeOK
      <3> QED BY SMTT(30), <1>1, <1>7, <3>1, <3>2 DEF IInv, TypeOK, BatchType
    <2>3. BodyConserved'
      BY <1>1, <1>10, <2>1 DEF BodyConserved
    <2>4. ThreadSound'
      BY <1>1, <1>10 DEF IInv, ThreadSound
    <2>5. cgi = "running" => sent = buffer
      BY <1>1 DEF ChildEndClosed
    <2>6. ReadSoFar + toCgi >= body - due + buffer => ReadSoFar + toCgi >= body - (due - buffer) + 0
      BY <1>4
    <2>7. eof' => due - buffer = 0
      <3>1. CASE due = buffer
        BY <1>4, <3>1
      <3>2. CASE due # buffer
        <4>1. eof' = eof /\ (eof => due = 0)
          BY <1>10, <3>2 DEF IInv, InputGiven
        <4>2. due = 0 => buffer = 0
          BY <1>4, <1>5
        <4> QED BY <3>2, <4>1, <4>2
      <3> QED BY <3>1, <3>2
    <2>8. InputGiven'
      BY <1>1, <1>3, <1>10, <2>5, <2>6, <2>7 DEF IInv, InputGiven
    <2> QED BY <1>7, <1>8, <2>2, <2>3, <2>4, <2>8 DEF IInv
  <1> QED BY <1>1, <1>9, <1>10 DEF SendReturns, WholeBodySent, BufferCleared

(* A page replaces the answer, or the connection goes, or nothing happens. *)
LEMMA SweepInd == ASSUME IInv, Sweep PROVE IInv'
  <1>1. pc = "batch" /\ batch = <<>> /\ UNCHANGED <<unsent, inbound, outbound, lost, delivered>>
    BY DEF Sweep, peer
  <1>2. sent = 0 /\ taken = 0
    BY <1>1 DEF IInv, ThreadSound
  <1>3. CASE client = "open" /\ UNCHANGED out /\ RemoveConnection("timeout", <<>>)
    <2>1. out' \in 0 .. Len(program) + 1 /\ delivered' \in 0 .. Len(program) + 1
      BY <1>1, <1>3 DEF IInv, TypeOK
    <2> QED BY <1>1, <1>2, <1>3, <2>1, RemovalInd
  <1>4. CASE /\ pc' = "wait" /\ late' \subseteq late
             /\ UNCHANGED <<body, program, client, buffer, due, silent, watch, pair, child,
                           batch, queue, sent, taken, waiting>>
             /\ \/ UNCHANGED <<work, out, ending>>
                \/ client = "open" /\ work' = TRUE /\ out' = 1 /\ ending' = "timeout"
    <2>1. UNCHANGED <<eof, toCgi, toServer, reset, cgi, done>>
      BY <1>4 DEF pair, child
    <2>2. Written' = Written /\ ReadSoFar' = ReadSoFar
      BY <1>4, <2>1, CountsKept
    <2>3. BatchSound'
      BY <1>1, <1>4, DroppedSound
    <2>4. Len(program) \in Nat /\ toServer \in Nat /\ out \in Nat /\ delivered \in Nat /\ Written \in Nat
          /\ Written <= Len(program)
      BY Numbers, Counts DEF IInv
    <2>5. TypeOK'
      <3>1. late' \subseteq {"body", "send"} /\ pc' = "wait"
        BY <1>4 DEF IInv, TypeOK
      <3>2. work' \in BOOLEAN /\ ending' \in {"none", "cgi", "500", "timeout", "lost", "again"}
        BY <1>4 DEF IInv, TypeOK
      <3>3. out' \in 0 .. Len(program) + 1
        <4>1. 1 \in 0 .. Len(program) + 1 /\ out \in 0 .. Len(program) + 1
          BY <2>4 DEF IInv, TypeOK
        <4> QED BY <1>4, <4>1
      <3> QED BY <1>1, <1>4, <2>1, <3>1, <3>2, <3>3 DEF IInv, TypeOK
    <2>6. client = "open" => delivered <= Len(program)
      <3>1. CASE ending = "none"
        BY <2>4, <3>1 DEF IInv, Conserved
      <3>2. CASE ending # "none"
        BY <3>2 DEF IInv, ChildOfClient, PageWaits
      <3> QED BY <3>1, <3>2
    <2>7. Conserved' /\ WorkEnds' /\ PageWaits' /\ ChildOfClient'
      <3>1. CASE UNCHANGED <<work, out, ending>>
        BY <1>1, <1>4, <2>1, <2>2, <3>1 DEF IInv, Conserved, WorkEnds, PageWaits, ChildOfClient,
           ChildEndClosed
      <3>2. CASE client = "open" /\ work' = TRUE /\ out' = 1 /\ ending' = "timeout"
        BY <1>1, <1>4, <2>1, <2>6, <3>2 DEF IInv, Conserved, WorkEnds, PageWaits, ChildOfClient,
           ChildEndClosed
      <3> QED BY <1>4, <3>1, <3>2
    <2>8. BodyConserved' /\ ThreadSound' /\ InputGiven'
      BY <1>1, <1>2, <1>4, <2>1, <2>2 DEF IInv, BodyConserved, ThreadSound, InputGiven
    <2> QED BY <2>3, <2>5, <2>7, <2>8 DEF IInv
  <1> QED BY <1>3, <1>4 DEF Sweep

-----------------------------------------------------------------------------
(* The request's head is there and nothing has moved. *)
LEMMA InitInd == Init => IInv
  <1> SUFFICES ASSUME Init PROVE IInv
    OBVIOUS
  <1>1. body \in Nat /\ program \in Seq({"read", "write", "hang"}) /\ Len(program) \in Nat
        /\ Cap \in Nat /\ Window \in Nat
    BY CgiExchangeAssumption DEF Init
  <1>2. TypeOK
    <2>1. /\ 0 \in 0 .. body /\ body \in 0 .. body /\ 0 \in 0 .. Window /\ 0 \in 0 .. Cap
          /\ 0 \in 0 .. Len(program) /\ 0 \in 0 .. Len(program) + 1
      BY <1>1
    <2>2. <<>> \in Seq(Item \X SUBSET {"in", "out", "hup"}) /\ <<"client">> \in Seq(Item)
      <3>1. "client" \in Item
        BY DEF Item
      <3> QED BY <3>1
    <2>3. (body = 0) \in BOOLEAN /\ watch \subseteq {"in", "out"}
      BY DEF Init
    <2> QED BY <2>1, <2>2, <2>3 DEF Init, TypeOK
  <1>3. CountOf("write", 0) \in 0 .. 0 /\ CountOf("read", 0) \in 0 .. 0
    BY <1>1, <1>2, CountOfType
  <1>4. Written = 0 /\ ReadSoFar = 0
    BY <1>3 DEF Init, Written, ReadSoFar
  <1>5. BatchSound
    BY DEF Init, BatchSound, EventsDistinct
  <1>6. WorkEnds /\ PageWaits /\ ChildOfClient /\ ThreadSound
    BY DEF Init, WorkEnds, PageWaits, ChildOfClient, ThreadSound
  <1>7. 0 + (0 + 0) = 0 /\ body = body + (0 + 0) /\ 0 + 0 >= body - body + 0
    BY <1>1
  <1>8. Conserved /\ BodyConserved /\ InputGiven
    BY <1>4, <1>7 DEF Init, Conserved, BodyConserved, InputGiven
  <1> QED BY <1>2, <1>5, <1>6, <1>8 DEF IInv

LEMMA StepInd == IInv /\ [Next]_vars => IInv'
  <1> SUFFICES ASSUME IInv, [Next]_vars PROVE IInv'
    OBVIOUS
  <1>1. CASE UNCHANGED vars
    <2>1. /\ UNCHANGED <<body, program, client, buffer, due, late, watch, waiting>>
          /\ UNCHANGED <<unsent, inbound, outbound, lost, work, silent, out, delivered, ending, eof,
                         toCgi, toServer, reset, cgi, done, pc, batch, queue, sent, taken>>
      BY <1>1 DEF vars, peer, answer, pair, child, thread
    <2>2. Written' = Written /\ ReadSoFar' = ReadSoFar
      BY <2>1, CountsKept
    <2>3. BatchSound'
      BY <2>1, KeptSound DEF IInv, ChildEndClosed
    <2>4. TypeOK'
      BY <2>1 DEF IInv, TypeOK
    <2>5. /\ Conserved' /\ WorkEnds' /\ PageWaits' /\ ChildOfClient' /\ BodyConserved' /\ ThreadSound'
          /\ InputGiven'
      BY <2>1, <2>2 DEF IInv, Conserved, WorkEnds, PageWaits, ChildOfClient, BodyConserved,
         ThreadSound, InputGiven, ChildEndClosed
    <2> QED BY <2>3, <2>4, <2>5 DEF IInv
  <1> QED
    BY <1>1, EpollWaitInd, RemovalEndsInd, HangUpInd, HandleSocketInInd, HandleSocketOutInd,
       AnswerCopiesInd, AnswerReturnsInd, ReadCGIInd, CGIOutInd, SendCopiesInd, SendReturnsInd, HandleOtherInd, SweepInd,
       CgiReadsInd, CgiWritesInd, CgiEndsInd, OutsideInd DEF Next, Server, Cgi

LEMMA IInvHolds == Spec => []IInv
  BY InitInd, StepInd, PTL DEF Spec

-----------------------------------------------------------------------------
(* Every variable keeps its type; in particular no more of a body is taken  *)
(* as sent than there is, and what an answer holds fits the program.       *)
THEOREM CgiTypeCorrect == Spec => []TypeOK
  BY IInvHolds, PTL DEF IInv

(* _readCGI and _handleSocketOut: whatever hang-ups, resets, timeouts and  *)
(* lost peers come in between, an answer that ended as the program's is    *)
(* all that the program wrote, and the program had come to its end, if it  *)
(* was not built anew for input behind that end.                           *)
THEOREM OutputIsDelivered == Spec => []OutputDelivered
  <1>1. IInv => OutputDelivered
    <2> SUFFICES ASSUME IInv, client = "gone", ending = "cgi"
                 PROVE  done = Len(program) /\ delivered = Written
      BY DEF OutputDelivered
    <2>1. done = Len(program) /\ toServer = 0 /\ out = 0
      BY DEF IInv, WorkEnds
    <2>2. 0 + (0 + delivered) = Written
      BY <2>1 DEF IInv, Conserved
    <2> QED BY <2>1, <2>2, Numbers DEF IInv
  <1> QED BY <1>1, IInvHolds, PTL

(* _readContent and _saveFile: as long as its connection lasts a program   *)
(* finds the end of its input only behind all of the body, in spite of     *)
(* partial sends and failed ones.                                          *)
THEOREM EofIsAfterBody == Spec => []EofAfterBody
  <1>1. IInv => EofAfterBody
    <2> SUFFICES ASSUME IInv, eof, cgi = "running"
                 PROVE  Min({body, ReadSoFar + toCgi}) = body
      BY DEF EofAfterBody, InputEnded, ReadSoFar
    <2>1. body \in Nat /\ ReadSoFar \in Nat /\ toCgi \in Nat /\ sent \in Nat
      BY Numbers, Counts DEF IInv
    <2>2. ReadSoFar + toCgi >= body - 0 + sent
      BY DEF IInv, InputGiven
    <2>3. body <= ReadSoFar + toCgi
      BY <2>1, <2>2
    <2> QED BY <2>1, <2>3, MinOfTwo
  <1> QED BY <1>1, IInvHolds, PTL

=============================================================================
