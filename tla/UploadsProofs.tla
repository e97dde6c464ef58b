---------------------------- MODULE UploadsProofs ----------------------------
(***************************************************************************)
(* Theorems about Uploads, for any requests, targets, sizes and bounds.    *)
(*                                                                         *)
(* That a temporary file is its upload's own rests on two things.  A name  *)
(* is taken only if no file has it, so an upload whose file is there keeps *)
(* others away, those of a later process too.  And within one process the  *)
(* number of the draw only grows: a name that another program has cleared  *)
(* is not drawn again while its upload can still rename or remove it, and  *)
(* what is there is the upload's own file or nothing.  All of it up to     *)
(* the moment at which a request is about the temporary name itself: it    *)
(* may replace or remove the file like any other.                          *)
(*                                                                         *)
(* That Uploads implements FileStore, as long as no temporary file has the *)
(* name of a target: every step of the server, a killed process and        *)
(* another program that interferes are a step of the store or change       *)
(* nothing in it.  Of the two states in which a target is neither what it  *)
(* was nor what it will be, RInv says which: after remove() the target is  *)
(* empty and the status 201, or the directory cannot be written, nothing   *)
(* has changed and rename() will fail as well.                             *)
(***************************************************************************)
EXTENDS Uploads, WellFoundedInduction, TLAPS

(* The states in which a request may still use its temporary name.         *)
Acting == Saving \cup {"body", "answered"}
Kept == {"body", "remove", "rename", "left"}

Progress ==
    \A r \in Upload : /\ state[r] = "new" => written[r] = 0 /\ tmp[r] = None
                      /\ state[r] = "body" => written[r] < Size

TempKnown == \A r \in Upload : state[r] \in Kept \cup {"cleanup"} => tmp[r] \in Temporary

DrawnBefore ==
    \A r \in Upload : state[r] \in Acting =>
       \A b \in Bases, n \in 1 .. MaxDraws : tmp[r] = Temp(b, n) => n <= draws

(* At the name of an upload that acts is its own file, or nothing.         *)
OwnOrNothing ==
    \A r \in Upload : state[r] \in Acting /\ tmp[r] \in Temporary /\ ~Reached(tmp[r]) =>
       file[tmp[r]] \in {r, None}

(* A temporary name points to the upload that has it.                      *)
OnlyAtTemp ==
    \A r \in Upload : \A n \in Temporary : file[n] = r /\ ~Reached(n) => tmp[r] = n

IInv ==
    /\ TypeOK /\ Progress /\ TempKnown /\ DrawnBefore /\ OwnOrNothing /\ OnlyAtTemp
    /\ TempIsItsOwn /\ PutLeavesNothing

-----------------------------------------------------------------------------
(* Names. *)

(* Once reached, a name stays so. *)
LEMMA ReachedStays ==
  ASSUME \A q \in Request : state'[q] = "new" => state[q] = "new"
  PROVE  \A n : Reached(n) => Reached(n)'
BY DEF Reached

(* The request itself reaches its target. *)
LEMMA ReachesTarget ==
  ASSUME NEW r \in Request, MethodOf(r) # "GET", state'[r] # "new"
  PROVE  Reached(TargetOf(r))'
BY DEF Reached

(* _generateFilename finds a name that no file has, behind all drawn so far. *)
LEMMA NextDrawIsNew ==
  ASSUME TypeOK, NEW r \in Request, NextDraw(r) # None, draws + MaxTries <= MaxDraws
  PROVE  /\ NextDraw(r) \in draws + 1 .. MaxDraws
         /\ TempName(r, NextDraw(r)) \in Temporary
         /\ \A b \in Bases, n \in 1 .. MaxDraws :
               TempName(r, NextDraw(r)) = Temp(b, n) => n = NextDraw(r)
         /\ file[TempName(r, NextDraw(r))] = None
<1> DEFINE unused == {n \in draws + 1 .. draws + MaxTries :
                        n <= MaxDraws /\ file[TempName(r, n)] = None}
<1>1. unused # {} /\ NextDraw(r) = CHOOSE n \in unused : \A x \in unused : n <= x
  BY Zenon DEF NextDraw
<1>2. draws \in Nat /\ MaxTries \in Nat /\ MaxDraws \in Nat
  BY UploadsAssumption DEF TypeOK
<1>3. unused \subseteq Nat
  BY <1>2
<1>4. \E n \in unused : \A x \in unused : ~ (<<x, n>> \in OpToRel(<, Nat))
  BY <1>1, <1>3, WFMin, NatLessThanWellFounded, Zenon
<1>5. \E n \in unused : \A x \in unused : n <= x
  <2>1. PICK n \in unused : \A x \in unused : ~ (<<x, n>> \in OpToRel(<, Nat))
    BY <1>4
  <2>2. \A x \in unused : ~ (x < n)
    BY <2>1, <1>3 DEF OpToRel
  <2> QED
    BY <2>2, <1>3
<1>6. NextDraw(r) \in unused
  BY <1>1, <1>5
<1>7. NextDraw(r) \in draws + 1 .. MaxDraws /\ NextDraw(r) \in 1 .. MaxDraws
  BY <1>6, <1>2
<1>8. PICK c \in Bases : TempName(r, NextDraw(r)) = Temp(c, NextDraw(r))
  BY UploadsAssumption DEF TempName, Bases
<1>9. TempName(r, NextDraw(r)) \in Temporary
  BY <1>7, <1>8 DEF Temporary
<1>10. \A b \in Bases, n \in 1 .. MaxDraws :
          TempName(r, NextDraw(r)) = Temp(b, n) => n = NextDraw(r)
  BY <1>7, <1>8, UploadsAssumption
<1> QED
  BY <1>6, <1>7, <1>9, <1>10

(* The target of an upload is a name, and an upload is not what was before. *)
LEMMA NamesOfUpload ==
  ASSUME TypeOK, NEW r \in Upload
  PROVE  /\ r \in Request /\ TargetOf(r) \in Target /\ TargetOf(r) \in Name
         /\ r # None /\ r # Old /\ MethodOf(r) # "GET"
  BY UploadsAssumption DEF Upload, Name

-----------------------------------------------------------------------------
(* The initial states. *)

LEMMA InitHolds == Init => IInv
<1> SUFFICES ASSUME Init PROVE IInv
  OBVIOUS
<1> USE UploadsAssumption
<1>1. Upload \subseteq Request
  BY DEF Upload
<1>2. \A n \in Name : file[n] \in {Old, None}
  BY DEF Init
<1>3. file \in [Name -> Upload \cup {Old, None}]
  BY DEF Init
<1>4. TypeOK
  BY <1>1, <1>3 DEF Init, TypeOK, Places, States, Saving
<1>5. Progress /\ TempKnown /\ DrawnBefore /\ OwnOrNothing /\ TempIsItsOwn /\ PutLeavesNothing
  BY <1>1 DEF Init, Progress, TempKnown, DrawnBefore, OwnOrNothing, TempIsItsOwn,
              PutLeavesNothing, Acting, Kept, Saving
<1>6. OnlyAtTemp
  BY <1>1, <1>2 DEF OnlyAtTemp, Name
<1> QED
  BY <1>4, <1>5, <1>6 DEF IInv

-----------------------------------------------------------------------------
(* The steps of an upload. *)

LEMMA RefuseUploadKeeps == ASSUME IInv, NEW r \in Request, RefuseUpload(r) PROVE IInv'
<1>1. PICK code \in {403, 404, 405, 409, 500} : Decides(r, code, "answered")
  BY DEF RefuseUpload, Refused
<1>2. r \in Upload /\ state[r] = "new" /\ tmp[r] = None
  BY DEF RefuseUpload, Handled, IInv, Progress
<1>3. /\ UNCHANGED <<settings, draws, disk, tmp, found, taken, kills>>
      /\ state \in [Request -> States] /\ state' = [state EXCEPT ![r] = "answered"]
  BY <1>1 DEF RefuseUpload, Decides, IInv, TypeOK
<1>4. Upload \subseteq Request /\ None \notin Temporary
  BY UploadsAssumption DEF Upload, Name
<1>5. TypeOK'
  BY <1>1, <1>3 DEF IInv, TypeOK, Decides, settings, disk, States, Saving
<1>6. \A n : Reached(n) => Reached(n)'
  BY <1>3, ReachedStays
<1>7. \A b \in Bases, n \in 1 .. MaxDraws : Temp(b, n) \in Temporary
  BY DEF Temporary
<1>8. (Progress /\ TempKnown /\ DrawnBefore /\ OwnOrNothing /\ OnlyAtTemp)'
  BY <1>2, <1>3, <1>4, <1>6, <1>7 DEF IInv, Progress, TempKnown, DrawnBefore, OwnOrNothing,
                                      OnlyAtTemp, disk, Acting, Kept, Saving
<1>9. (TempIsItsOwn /\ PutLeavesNothing)'
  BY <1>2, <1>3, <1>4, <1>6 DEF IInv, TempIsItsOwn, PutLeavesNothing, TempWritable, Writable,
                                settings, disk
<1> QED
  BY <1>5, <1>8, <1>9 DEF IInv

(* The drawn name is no file's, so no kept upload has it, and its number is *)
(* past those of the uploads that act.                                      *)
LEMMA OpenFileKeeps == ASSUME IInv, NEW r \in Request, OpenFile(r) PROVE IInv'
<1> USE UploadsAssumption DEF disk, settings
<1>1. /\ r \in Upload /\ state[r] = "new" /\ tmp[r] = None /\ written[r] = 0 /\ Free
      /\ draws + MaxTries <= MaxDraws /\ TypeOK /\ Upload \subseteq Request
  BY DEF OpenFile, Handled, IInv, Progress, Upload
<1>2. UNCHANGED <<hasTempPath, place, written, garbled, cleaned, found, taken, kills>>
  BY DEF OpenFile
<1>3. \A n : Reached(n) => Reached(n)'
  <2>1. \A q \in Request : state'[q] = "new" => state[q] = "new"
    BY <1>1 DEF OpenFile, Decides, TypeOK
  <2> QED
    BY <2>1, ReachedStays
<1>4. CASE NextDraw(r) = None
  <2>1. /\ UNCHANGED <<file, tmp>> /\ draws' = draws + MaxTries
        /\ state' = [state EXCEPT ![r] = "answered"] /\ status' = [status EXCEPT ![r] = 500]
    BY <1>4 DEF OpenFile, Decides
  <2>2. TypeOK'
    BY <1>1, <1>2, <2>1 DEF TypeOK, States, Saving
  <2>3. (Progress /\ TempKnown)'
    BY <1>1, <1>2, <2>1 DEF IInv, TypeOK, Progress, TempKnown, Kept, Saving
  <2>4. \A b \in Bases, n \in 1 .. MaxDraws : Temp(b, n) # None
    BY DEF Temporary, Name
  <2>5. draws \in Nat /\ MaxTries \in Nat /\ \A n \in 1 .. MaxDraws : n \in Nat
    BY <1>1 DEF TypeOK
  <2>6. DrawnBefore'
    BY <1>1, <2>1, <2>4, <2>5 DEF IInv, TypeOK, DrawnBefore, Acting, Saving
  <2>7. (OwnOrNothing /\ OnlyAtTemp)'
    BY <1>1, <1>2, <1>3, <2>1 DEF IInv, TypeOK, OwnOrNothing, OnlyAtTemp, Acting, Saving, Name
  <2>8. (TempIsItsOwn /\ PutLeavesNothing)'
    BY <1>1, <1>2, <1>3, <2>1 DEF IInv, TypeOK, TempIsItsOwn, PutLeavesNothing, TempWritable,
                                  Writable
  <2> QED
    BY <2>2, <2>3, <2>6, <2>7, <2>8 DEF IInv
<1>5. CASE NextDraw(r) # None
  <2> DEFINE d == NextDraw(r)
             name == TempName(r, d)
  <2>1. /\ d \in draws + 1 .. MaxDraws /\ name \in Temporary /\ name \in Name
        /\ file[name] = None /\ draws \in Nat /\ MaxDraws \in Nat
        /\ \A b \in Bases, n \in 1 .. MaxDraws : name = Temp(b, n) => n = d
    BY <1>1, <1>5, NextDrawIsNew DEF TypeOK, Name
  <2> HIDE DEF d, name
  <2>2. /\ draws' = d /\ tmp' = [tmp EXCEPT ![r] = name] /\ tmp'[r] = name
        /\ \/ /\ state' = [state EXCEPT ![r] = "body"] /\ status' = status
              /\ file' = [file EXCEPT ![name] = r]
           \/ /\ state' = [state EXCEPT ![r] = "answered"] /\ file' = file
              /\ status' = [status EXCEPT ![r] = 500]
    BY <1>1, <1>5 DEF OpenFile, Decides, d, name, TypeOK
  <2>3. TypeOK'
    BY <1>1, <1>2, <2>1, <2>2 DEF TypeOK, States, Saving
  <2>4. Progress' /\ TempKnown'
    BY <1>1, <1>2, <2>1, <2>2 DEF IInv, TypeOK, Progress, TempKnown, Kept, Saving
  <2>5. DrawnBefore'
    <3> SUFFICES ASSUME NEW q \in Upload, state'[q] \in Acting,
                        NEW b \in Bases, NEW n \in 1 .. MaxDraws, tmp'[q] = Temp(b, n)
                 PROVE  n <= d
      BY <2>2 DEF DrawnBefore
    <3>1. CASE q = r
      BY <2>1, <2>2, <3>1
    <3>2. CASE q # r
      <4>1. state[q] \in Acting /\ tmp[q] = Temp(b, n)
        BY <1>1, <2>2, <3>2 DEF TypeOK
      <4> QED
        BY <2>1, <4>1 DEF IInv, DrawnBefore
    <3> QED
      BY <3>1, <3>2
  <2>6. \A q \in Upload \ cleaned : q # r /\ state[q] \in Kept /\ ~Reached(tmp[q]) => tmp[q] # name
    BY <1>1, <2>1 DEF IInv, TempIsItsOwn, Kept
  <2>7. \A q \in Upload : state[q] \in Acting /\ tmp[q] \in Temporary => tmp[q] # name
    <3> SUFFICES ASSUME NEW q \in Upload, state[q] \in Acting, tmp[q] = name PROVE FALSE
      OBVIOUS
    <3>1. PICK b \in Bases, n \in 1 .. MaxDraws : tmp[q] = Temp(b, n)
      BY <2>1 DEF Temporary
    <3>2. n <= draws /\ n = d
      BY <2>1, <3>1 DEF IInv, DrawnBefore
    <3> QED
      BY <2>1, <3>2
  <2>8. OwnOrNothing'
    <3> SUFFICES ASSUME NEW q \in Upload, state'[q] \in Acting, tmp'[q] \in Temporary,
                        ~ Reached(tmp[q])'
                 PROVE  file'[tmp'[q]] \in {q, None}
      BY DEF OwnOrNothing
    <3>1. CASE q = r
      BY <1>1, <2>1, <2>2, <3>1 DEF TypeOK
    <3>2. CASE q # r
      <4>1. state'[q] = state[q] /\ tmp'[q] = tmp[q] /\ tmp[q] # name
        BY <1>1, <2>2, <2>7, <3>2 DEF TypeOK
      <4>2. file'[tmp[q]] = file[tmp[q]] /\ ~Reached(tmp[q])
        BY <1>1, <1>3, <2>2, <4>1 DEF TypeOK, Name
      <4> QED
        BY <4>1, <4>2 DEF IInv, OwnOrNothing
    <3> QED
      BY <3>1, <3>2
  <2>9. OnlyAtTemp'
    <3> SUFFICES ASSUME NEW q \in Upload, NEW n \in Temporary, file'[n] = q, ~ Reached(n)'
                 PROVE  tmp'[q] = n
      BY DEF OnlyAtTemp
    <3>1. CASE file[n] = q
      <4>1. tmp[q] = n /\ n # None
        BY <1>3, <3>1 DEF IInv, OnlyAtTemp, Name
      <4> QED
        BY <1>1, <2>2, <4>1 DEF TypeOK
    <3>2. CASE file[n] # q
      BY <1>1, <2>1, <2>2, <3>2 DEF TypeOK, Name
    <3> QED
      BY <3>1, <3>2
  <2>10. TempIsItsOwn'
    <3> SUFFICES ASSUME NEW q \in Upload \ cleaned, state'[q] \in Kept, ~ Reached(tmp[q])'
                 PROVE  file'[tmp'[q]] = q
      BY <1>2 DEF TempIsItsOwn, Kept
    <3>1. CASE q = r
      BY <1>1, <2>1, <2>2, <3>1 DEF TypeOK, Kept
    <3>2. CASE q # r
      <4>1. /\ state'[q] = state[q] /\ tmp'[q] = tmp[q] /\ tmp[q] # name
            /\ ~ Reached(tmp[q])
        BY <1>1, <1>3, <2>2, <2>6, <3>2 DEF TypeOK
      <4>2. file'[tmp[q]] = file[tmp[q]]
        BY <1>1, <2>2, <4>1 DEF IInv, TypeOK, TempKnown, Name
      <4> QED
        BY <4>1, <4>2 DEF IInv, TempIsItsOwn, Kept
    <3> QED
      BY <3>1, <3>2
  <2>11. PutLeavesNothing'
    BY <1>1, <1>2, <1>3, <2>1, <2>2 DEF IInv, TypeOK, PutLeavesNothing, TempWritable, Writable,
                                        Name
  <2> QED
    BY <2>3, <2>4, <2>5, <2>8, <2>9, <2>10, <2>11 DEF IInv
<1> QED
  BY <1>4, <1>5

(* A piece of a body, whether it is stored as it came or not. *)
LEMMA WrittenPiece ==
  ASSUME TypeOK, NEW r \in Request, WriteBody(r)
  PROVE  \E k \in 1 .. Size - written[r] :
            /\ UNCHANGED <<hasTempPath, place, draws, file, cleaned, tmp, found, taken, kills>>
            /\ written' = [written EXCEPT ![r] = written[r] + k] /\ garbled' \subseteq Upload
            /\ \/ /\ written[r] + k = Size /\ state' = [state EXCEPT ![r] = "remove"]
                  /\ status' = [status EXCEPT ![r] = 201]
               \/ written[r] + k # Size /\ UNCHANGED <<state, status>>
<1>1. /\ r \in Upload /\ garbled \subseteq Upload
      /\ UNCHANGED <<hasTempPath, place, draws, file, cleaned, tmp, found, taken, kills>>
  BY DEF WriteBody, TypeOK, settings
<1>2. PICK announced \in 1 .. Size - written[r], stored \in BOOLEAN : \E k \in 1 .. announced :
         /\ written' = [written EXCEPT ![r] = @ + k]
         /\ garbled' = IF stored /\ k = announced THEN garbled ELSE garbled \cup {r}
         /\ IF Complete(r, k) THEN Decides(r, 201, "remove") ELSE UNCHANGED <<state, status>>
  BY DEF WriteBody
<1>3. PICK k \in 1 .. announced :
         /\ written' = [written EXCEPT ![r] = @ + k]
         /\ garbled' = IF stored /\ k = announced THEN garbled ELSE garbled \cup {r}
         /\ IF Complete(r, k) THEN Decides(r, 201, "remove") ELSE UNCHANGED <<state, status>>
  BY <1>2
<1>4. k \in 1 .. Size - written[r]
  <2>1. written[r] \in Nat /\ Size \in Nat
    BY <1>1, UploadsAssumption DEF TypeOK
  <2> QED
    BY <2>1
<1>5. \/ /\ written[r] + k = Size /\ state' = [state EXCEPT ![r] = "remove"]
         /\ status' = [status EXCEPT ![r] = 201]
      \/ written[r] + k # Size /\ UNCHANGED <<state, status>>
  BY <1>3 DEF Complete, Decides
<1>6. written' = [written EXCEPT ![r] = written[r] + k] /\ garbled' \subseteq Upload
  BY <1>1, <1>3
<1> QED
  BY <1>1, <1>4, <1>5, <1>6

LEMMA WriteBodyKeeps == ASSUME IInv, NEW r \in Request, WriteBody(r) PROVE IInv'
<1> USE UploadsAssumption DEF disk, settings
<1>1. /\ r \in Upload /\ state[r] = "body" /\ written[r] < Size /\ Free
      /\ TypeOK /\ Upload \subseteq Request
  BY DEF WriteBody, Handled, IInv, Progress, Upload
<1>2. PICK k \in 1 .. Size - written[r] :
         /\ UNCHANGED <<hasTempPath, place, draws, file, cleaned, tmp, found, taken, kills>>
         /\ written' = [written EXCEPT ![r] = written[r] + k] /\ garbled' \subseteq Upload
         /\ \/ /\ written[r] + k = Size /\ state' = [state EXCEPT ![r] = "remove"]
               /\ status' = [status EXCEPT ![r] = 201]
            \/ written[r] + k # Size /\ UNCHANGED <<state, status>>
  BY <1>1, WrittenPiece
<1>3. written[r] \in Nat /\ Size \in Nat /\ k \in Nat
  BY <1>1 DEF TypeOK
<1>4. TypeOK'
  BY <1>1, <1>2, <1>3 DEF TypeOK, States, Saving, Free
<1>5. \A n : Reached(n) => Reached(n)'
  <2>1. \A q \in Request : state'[q] = "new" => state[q] = "new"
    BY <1>1, <1>2 DEF TypeOK
  <2> QED
    BY <2>1, ReachedStays
<1>6. (Progress /\ TempKnown /\ DrawnBefore)'
  BY <1>1, <1>2, <1>3 DEF IInv, TypeOK, Progress, TempKnown, DrawnBefore, Acting, Kept, Saving
<1>7. (OwnOrNothing /\ OnlyAtTemp /\ TempIsItsOwn /\ PutLeavesNothing)'
  BY <1>1, <1>2, <1>5 DEF IInv, TypeOK, OwnOrNothing, OnlyAtTemp, TempIsItsOwn, PutLeavesNothing,
                          TempWritable, Writable, Acting, Kept, Saving
<1> QED
  BY <1>4, <1>6, <1>7 DEF IInv

(* Once its body is there an upload only clears its own temporary name, and *)
(* it still has it: that is enough, for all the steps that follow.          *)
LEMMA OwnNameCleared ==
  ASSUME IInv, TypeOK', NEW r \in Upload,
         NEW s \in {"rename", "cleanup", "answered", "gone"},
         UNCHANGED <<hasTempPath, place, draws, written, garbled, cleaned, tmp>>,
         state' = [state EXCEPT ![r] = s],
         state[r] \in Acting,
         s = "rename" => state[r] = "remove",
         s = "cleanup" => state[r] = "rename",
         \A n \in Name : \/ n = TargetOf(r)
                         \/ file'[n] = file[n]
                         \/ s # "rename" /\ n = tmp[r] /\ file'[n] = None,
         s = "gone" /\ MethodOf(r) = "PUT" /\ TempWritable =>
            \A n \in Temporary : file'[n] = r => Reached(n)'
  PROVE  IInv'
<1> USE UploadsAssumption
<1>1. TypeOK /\ Upload \subseteq Request /\ None \notin Upload /\ Temporary \subseteq Name
  BY DEF IInv, Upload, Name
<1>2. /\ \A n : Reached(n) => Reached(n)'
      /\ Reached(TargetOf(r))'
  <2>1. state'[r] = s /\ \A q \in Request : state'[q] = "new" => state[q] = "new"
    BY <1>1 DEF TypeOK
  <2>2. r \in Request /\ MethodOf(r) # "GET"
    BY <1>1, NamesOfUpload
  <2> QED
    BY <2>1, <2>2, ReachedStays, ReachesTarget
<1>3. \A n \in Name : ~ Reached(n)' =>
         /\ ~ Reached(n)
         /\ n # TargetOf(r)
         /\ file'[n] = file[n] \/ (s # "rename" /\ n = tmp[r] /\ file'[n] = None)
  BY <1>2
<1>4. (Progress /\ TempKnown /\ DrawnBefore)'
  BY <1>1 DEF IInv, TypeOK, Progress, TempKnown, DrawnBefore, Acting, Kept, Saving
<1>5. OwnOrNothing'
  <2> SUFFICES ASSUME NEW q \in Upload, state'[q] \in Acting, tmp[q] \in Temporary,
                      ~ Reached(tmp[q])'
               PROVE  file'[tmp[q]] \in {q, None}
    BY DEF OwnOrNothing
  <2>1. state[q] \in Acting
    BY <1>1 DEF TypeOK
  <2> QED
    BY <1>1, <1>3, <2>1 DEF IInv, OwnOrNothing
<1>6. OnlyAtTemp'
  BY <1>1, <1>3 DEF IInv, OnlyAtTemp
<1>7. TempIsItsOwn'
  <2> SUFFICES ASSUME NEW q \in Upload \ cleaned, state'[q] \in Kept, ~ Reached(tmp[q])'
               PROVE  file'[tmp[q]] = q
    BY DEF TempIsItsOwn, Kept
  <2>1. state[q] \in Kept /\ tmp[q] \in Temporary
    BY <1>1 DEF IInv, TypeOK, TempKnown, Kept, Acting, Saving
  <2>2. ~ Reached(tmp[q]) /\ tmp[q] # TargetOf(r) /\ tmp[q] \in Name
    BY <1>1, <1>3, <2>1
  <2>3. file[tmp[q]] = q
    BY <2>1, <2>2 DEF IInv, TempIsItsOwn, Kept
  <2>4. CASE q = r
    BY <1>1, <2>1, <2>2, <2>3, <2>4 DEF TypeOK, Kept
  <2>5. CASE q # r
    <3>1. tmp[q] = tmp[r] => file[tmp[r]] \in {r, None}
      BY <2>1, <2>2 DEF IInv, OwnOrNothing
    <3> QED
      BY <1>1, <1>3, <2>2, <2>3, <2>5, <3>1
  <2> QED
    BY <2>4, <2>5
<1>8. PutLeavesNothing'
  <2> SUFFICES ASSUME NEW q \in Upload, MethodOf(q) = "PUT", state'[q] = "gone", TempWritable,
                      NEW n \in Temporary, file'[n] = q, ~ Reached(n)'
               PROVE  FALSE
    BY DEF PutLeavesNothing, TempWritable, Writable
  <2>1. CASE q = r
    BY <1>1, <2>1 DEF TypeOK
  <2>2. CASE q # r
    BY <1>1, <1>3, <2>2 DEF IInv, TypeOK, PutLeavesNothing
  <2> QED
    BY <2>1, <2>2
<1> QED
  BY <1>4, <1>5, <1>6, <1>7, <1>8 DEF IInv

LEMMA RemoveTargetKeeps == ASSUME IInv, NEW r \in Request, RemoveTarget(r) PROVE IInv'
<1> USE UploadsAssumption DEF disk, settings
<1> DEFINE p == TargetOf(r)
<1>1. r \in Upload /\ state[r] = "remove" /\ TypeOK /\ p \in Name
  BY NamesOfUpload DEF RemoveTarget, IInv
<1> HIDE DEF p
<1>2. /\ UNCHANGED <<hasTempPath, place, draws, written, garbled, cleaned, tmp, found, kills>>
      /\ state' = [state EXCEPT ![r] = "rename"] /\ taken' = [taken EXCEPT ![r] = file[p]]
      /\ file' = [file EXCEPT ![p] = None] \/ file' = file
      /\ \E code \in {status[r], 500} : status' = [status EXCEPT ![r] = code]
  BY ZenonT(30) DEF RemoveTarget, Decides, Fails, p
<1>3. TypeOK'
  BY <1>1, <1>2 DEF TypeOK, States, Saving
<1>4. \A n \in Name : \/ n = TargetOf(r)
                      \/ file'[n] = file[n]
                      \/ "rename" # "rename" /\ n = tmp[r] /\ file'[n] = None
  BY <1>1, <1>2 DEF TypeOK, p
<1>5. state[r] \in Acting
  BY <1>1 DEF Acting, Saving
<1>6. /\ UNCHANGED <<hasTempPath, place, draws, written, garbled, cleaned, tmp>>
      /\ state' = [state EXCEPT ![r] = "rename"] /\ r \in Upload /\ state[r] = "remove"
  BY <1>1, <1>2
<1> HIDE UploadsAssumption DEF disk, settings
<1> QED
  BY ZenonT(60), <1>3, <1>4, <1>5, <1>6, OwnNameCleared

LEMMA RenameTempKeeps == ASSUME IInv, NEW r \in Request, RenameTemp(r) PROVE IInv'
<1> USE UploadsAssumption DEF disk, settings
<1> DEFINE p == TargetOf(r)
<1>1. /\ r \in Upload /\ state[r] = "rename" /\ TypeOK
      /\ p \in Name /\ tmp[r] \in Temporary /\ tmp[r] \in Name
  BY NamesOfUpload DEF RenameTemp, IInv, TempKnown, Kept, Name
<1> HIDE DEF p
<1>2. /\ UNCHANGED <<hasTempPath, place, draws, written, garbled, cleaned, tmp, found, kills>>
      /\ state' = [state EXCEPT ![r] = "cleanup"] /\ taken' = [taken EXCEPT ![r] = None]
      /\ file' = [file EXCEPT ![p] = file[tmp[r]], ![tmp[r]] = None] \/ file' = file
      /\ \E code \in {status[r], 500} : status' = [status EXCEPT ![r] = code]
  BY ZenonT(30) DEF RenameTemp, Decides, Renamed, Fails, p
<1>3. TypeOK'
  BY <1>1, <1>2 DEF TypeOK, States, Saving
<1>4. \A n \in Name : \/ n = TargetOf(r)
                      \/ file'[n] = file[n]
                      \/ "cleanup" # "rename" /\ n = tmp[r] /\ file'[n] = None
  BY <1>1, <1>2 DEF TypeOK, p
<1>5. state[r] \in Acting
  BY <1>1 DEF Acting, Saving
<1>6. /\ UNCHANGED <<hasTempPath, place, draws, written, garbled, cleaned, tmp>>
      /\ state' = [state EXCEPT ![r] = "cleanup"] /\ r \in Upload /\ state[r] = "rename"
  BY <1>1, <1>2
<1> HIDE UploadsAssumption DEF disk, settings
<1> QED
  BY ZenonT(60), <1>3, <1>4, <1>5, <1>6, OwnNameCleared

LEMMA RemoveTempKeeps == ASSUME IInv, NEW r \in Request, RemoveTemp(r) PROVE IInv'
<1> USE UploadsAssumption DEF disk, settings
<1>1. r \in Upload /\ state[r] = "cleanup" /\ TypeOK /\ tmp[r] \in Temporary /\ tmp[r] \in Name
  BY DEF RemoveTemp, IInv, TempKnown, Name
<1>2. /\ UNCHANGED <<hasTempPath, place, draws, written, garbled, cleaned, tmp, status, found, taken, kills>>
      /\ state' = [state EXCEPT ![r] = "answered"]
      /\ file' = [file EXCEPT ![tmp[r]] = None] \/ file' = file
  BY DEF RemoveTemp, TempRemoved
<1>3. TypeOK'
  BY <1>1, <1>2 DEF TypeOK, States, Saving
<1>4. \A n \in Name : file'[n] = file[n] \/ (n = tmp[r] /\ file'[n] = None)
  BY <1>1, <1>2 DEF TypeOK
<1> QED
  BY <1>1, <1>2, <1>3, <1>4, OwnNameCleared DEF Acting, Saving

LEMMA DestroyRequestKeeps == ASSUME IInv, NEW r \in Request, DestroyRequest(r) PROVE IInv'
<1> USE UploadsAssumption DEF disk, settings
<1>1. /\ r \in Upload /\ state[r] \in {"body", "answered"} /\ TypeOK /\ Upload \subseteq Request
      /\ tmp[r] \in Temporary \cup {None} /\ Temporary \subseteq Name
  BY DEF DestroyRequest, IInv, TypeOK, Upload, Name
<1>2. /\ UNCHANGED <<hasTempPath, place, draws, written, garbled, cleaned, tmp, status, found, taken, kills>>
      /\ state' = [state EXCEPT ![r] = "gone"] /\ file' = Destroyed(r)
  BY DEF DestroyRequest
<1>3. file' = [file EXCEPT ![tmp[r]] = None] \/ file' = file
  BY <1>2 DEF Destroyed, TempRemoved
<1>4. TypeOK'
  BY <1>1, <1>2, <1>3 DEF TypeOK, States, Saving
<1>5. \A n \in Name : file'[n] = file[n] \/ (n = tmp[r] /\ file'[n] = None)
  BY <1>1, <1>3 DEF TypeOK
<1>6. ASSUME MethodOf(r) = "PUT", TempWritable, NEW n \in Temporary, ~ Reached(n)'
      PROVE  file'[n] # r
  <2>1. file[n] = r => n = tmp[r]
    <3>1. ~ Reached(n)
      <4>1. \A q \in Request : state'[q] = "new" => state[q] = "new"
        BY <1>1, <1>2 DEF TypeOK
      <4> QED
        BY <1>6, <4>1, ReachedStays
    <3> QED
      BY <1>1, <3>1 DEF IInv, OnlyAtTemp
  <2>2. CASE n = tmp[r]
    <3>1. tmp[r] # None
      BY <1>1, <2>2
    <3>2. file' = [file EXCEPT ![n] = None]
      BY <1>2, <1>6, <2>2, <3>1 DEF Destroyed, TempRemoved
    <3> QED
      BY <1>1, <3>2 DEF TypeOK
  <2>3. CASE n # tmp[r]
    BY <1>1, <1>5, <2>1, <2>3
  <2> QED
    BY <2>2, <2>3
<1>7. /\ UNCHANGED <<hasTempPath, place, draws, written, garbled, cleaned, tmp>>
      /\ state' = [state EXCEPT ![r] = "gone"] /\ r \in Upload /\ state[r] \in Acting
  BY <1>1, <1>2 DEF Acting
<1>8. MethodOf(r) = "PUT" /\ TempWritable =>
         \A n \in Temporary : file'[n] = r => Reached(n)'
  BY <1>6
<1>9. \A n \in Name : \/ n = TargetOf(r)
                      \/ file'[n] = file[n]
                      \/ "gone" # "rename" /\ n = tmp[r] /\ file'[n] = None
  BY <1>5
<1> HIDE UploadsAssumption DEF disk, settings
<1> QED
  BY ZenonT(60), <1>4, <1>7, <1>8, <1>9, OwnNameCleared

-----------------------------------------------------------------------------
(* Other requests and the world. *)

(* What is not about an upload's own name leaves the invariant alone. *)
LEMMA OthersKeep ==
  ASSUME IInv, TypeOK', UNCHANGED <<hasTempPath, place, draws, written, garbled, cleaned, tmp>>,
         \A r \in Upload : state'[r] = state[r],
         \A r \in Request : state'[r] = "new" => state[r] = "new",
         \A n \in Temporary : file'[n] = file[n] \/ Reached(n)'
  PROVE  IInv'
<1>1. \A n \in Temporary : ~ Reached(n)' => ~ Reached(n) /\ file'[n] = file[n]
  BY ReachedStays
<1>2. (Progress /\ TempKnown /\ DrawnBefore /\ OwnOrNothing /\ OnlyAtTemp)'
  BY <1>1 DEF IInv, Progress, TempKnown, DrawnBefore, OwnOrNothing, OnlyAtTemp
<1>3. TempIsItsOwn'
  BY <1>1 DEF IInv, TempIsItsOwn, TempKnown, Kept
<1>4. PutLeavesNothing'
  BY <1>1 DEF IInv, PutLeavesNothing, TempWritable, Writable
<1> QED
  BY <1>2, <1>3, <1>4 DEF IInv

LEMMA DeleteKeeps == ASSUME IInv, NEW r \in Request, Delete(r) PROVE IInv'
<1> USE UploadsAssumption DEF disk, settings
<1> DEFINE p == TargetOf(r)
<1>1. /\ r \notin Upload /\ state[r] = "new" /\ TypeOK /\ Upload \subseteq Request
      /\ p \in Name /\ Temporary \subseteq Name /\ MethodOf(r) # "GET"
  BY DEF Delete, Handled, IInv, Upload, Name
<1> HIDE DEF p
<1>2. /\ UNCHANGED <<hasTempPath, place, draws, written, garbled, cleaned, tmp, found, taken, kills>>
      /\ state' = [state EXCEPT ![r] = "answered"]
      /\ file' = [file EXCEPT ![p] = None] \/ file' = file
      /\ \E code \in {204, 403, 404, 500} : status' = [status EXCEPT ![r] = code]
  BY DEF Delete, Decides, p
<1>3. TypeOK'
  BY <1>1, <1>2 DEF TypeOK, States, Saving
<1>4. /\ \A q \in Upload : state'[q] = state[q]
      /\ state'[r] # "new" /\ \A q \in Request : state'[q] = "new" => state[q] = "new"
  BY <1>1, <1>2 DEF TypeOK
<1>5. \A n \in Temporary : file'[n] = file[n] \/ Reached(n)'
  <2>1. Reached(p)'
    BY <1>1, <1>4, ReachesTarget DEF p
  <2>2. \A n \in Temporary : file'[n] = file[n] \/ n = p
    BY <1>1, <1>2 DEF TypeOK
  <2> QED
    BY <2>1, <2>2
<1> QED
  BY <1>2, <1>3, <1>4, <1>5, OthersKeep

LEMMA GetKeeps == ASSUME IInv, NEW r \in Request, Get(r) PROVE IInv'
<1> USE UploadsAssumption DEF disk, settings
<1> DEFINE p == TargetOf(r)
<1>1. r \notin Upload /\ TypeOK /\ Upload \subseteq Request /\ p \in Name
  BY DEF Get, IInv, Upload, Name
<1> HIDE DEF p
<1>2. /\ UNCHANGED <<hasTempPath, place, draws, written, garbled, cleaned, file, tmp, taken, kills>>
      /\ state' = [state EXCEPT ![r] = "answered"]
      /\ found' = [found EXCEPT ![r] = file[p]] \/ found' = found
      /\ \E code \in {200, 403, 404, 500} : status' = [status EXCEPT ![r] = code]
  BY DEF Get, Decides, p
<1>3. TypeOK'
  BY <1>1, <1>2 DEF TypeOK, States, Saving
<1>4. /\ \A q \in Upload : state'[q] = state[q]
      /\ \A q \in Request : state'[q] = "new" => state[q] = "new"
  BY <1>1, <1>2 DEF TypeOK
<1> QED
  BY <1>2, <1>3, <1>4, OthersKeep

(* The next process draws the same names again; none of its requests acts  *)
(* yet, and the files that were left keep their names.                     *)
LEMMA KillKeeps == ASSUME IInv, Kill PROVE IInv'
<1> USE UploadsAssumption DEF disk, settings
<1>1. TypeOK /\ Upload \subseteq Request
  BY DEF IInv, Upload
<1>2. /\ UNCHANGED <<hasTempPath, place, file, written, garbled, cleaned, tmp, status, found, taken>>
      /\ draws' = 0 /\ kills' \in 0 .. MaxKills
  BY <1>1 DEF Kill, TypeOK
<1>3. \A r \in Request :
         \/ state[r] \in {"body", "remove", "rename"} /\ state'[r] = "left"
         \/ state[r] \in {"cleanup", "answered"} /\ state'[r] = "died"
         \/ state[r] \in {"new", "gone", "left", "died"} /\ state'[r] = state[r]
  BY <1>1 DEF Kill, TypeOK, States, Saving
<1>4. state' \in [Request -> States]
  BY <1>1, <1>3 DEF Kill, States
<1>5. TypeOK'
  BY <1>1, <1>2, <1>3, <1>4 DEF TypeOK, Saving
<1>6. \A n : Reached(n) => Reached(n)'
  BY <1>3, ReachedStays
<1>7. (Progress /\ TempKnown /\ DrawnBefore /\ OwnOrNothing)'
  BY <1>1, <1>2, <1>3 DEF IInv, Progress, TempKnown, DrawnBefore, OwnOrNothing,
                          Acting, Kept, Saving
<1>8. (OnlyAtTemp /\ TempIsItsOwn /\ PutLeavesNothing)'
  BY <1>1, <1>2, <1>3, <1>6 DEF IInv, OnlyAtTemp, TempIsItsOwn, PutLeavesNothing, TempWritable,
                                Writable
<1> QED
  BY <1>5, <1>7, <1>8 DEF IInv

LEMMA LockedKeeps == ASSUME IInv, Locked PROVE IInv'
<1>1. /\ place = "fine" /\ place' = "readOnly"
      /\ UNCHANGED <<hasTempPath, draws, file, written, garbled, cleaned, state, tmp, status, found,
                     taken, kills>>
  BY DEF Locked, disk, requests
<1>2. TypeOK'
  BY <1>1 DEF IInv, TypeOK, Places
<1>3. (Progress /\ TempKnown /\ DrawnBefore /\ OwnOrNothing /\ OnlyAtTemp /\ TempIsItsOwn)'
  BY <1>1 DEF IInv, Progress, TempKnown, DrawnBefore, OwnOrNothing, OnlyAtTemp, TempIsItsOwn,
              Reached
<1>4. PutLeavesNothing'
  BY <1>1 DEF IInv, PutLeavesNothing, TempWritable, Writable, Reached
<1> QED
  BY <1>2, <1>3, <1>4 DEF IInv

LEMMA CleanerKeeps == ASSUME IInv, NEW r \in Upload, Cleaner(r) PROVE IInv'
<1> USE UploadsAssumption DEF settings, requests
<1> DEFINE n == tmp[r]
<1>1. TypeOK /\ n \in Temporary /\ n \in Name /\ file[n] = r /\ Upload \subseteq Request
  BY DEF IInv, Cleaner, Name, Upload, TypeOK
<1>2. /\ UNCHANGED <<hasTempPath, place, draws, written, garbled, state, tmp, status, found, taken,
                     kills>>
      /\ cleaned' = cleaned \cup {r} /\ file' = [file EXCEPT ![n] = None]
  BY DEF Cleaner
<1> HIDE DEF n
<1>3. TypeOK'
  BY <1>1, <1>2 DEF TypeOK
<1>4. (Progress /\ TempKnown /\ DrawnBefore)'
  BY <1>2 DEF IInv, Progress, TempKnown, DrawnBefore
<1>5. (OwnOrNothing /\ OnlyAtTemp /\ PutLeavesNothing)'
  <2>1. \A m \in Temporary : file'[m] = file[m] \/ file'[m] = None
    BY <1>1, <1>2 DEF TypeOK, Name
  <2>2. None \notin Upload
    BY <1>1
  <2> QED
    BY <1>2, <2>1, <2>2 DEF IInv, OwnOrNothing, OnlyAtTemp, PutLeavesNothing, TempWritable,
                                Writable, Reached
<1>6. TempIsItsOwn'
  <2> SUFFICES ASSUME NEW q \in Upload \ cleaned, q # r, state[q] \in Kept, ~ Reached(tmp[q])
               PROVE  file'[tmp[q]] = q
    BY <1>2 DEF TempIsItsOwn, Kept, Reached
  <2>1. file[tmp[q]] = q /\ tmp[q] \in Name
    BY DEF IInv, TempIsItsOwn, TempKnown, Kept, Name
  <2>2. tmp[q] # n
    BY <1>1, <2>1
  <2> QED
    BY <1>1, <1>2, <2>1, <2>2 DEF TypeOK
<1> QED
  BY <1>3, <1>4, <1>5, <1>6 DEF IInv

-----------------------------------------------------------------------------
(* Theorems. *)

LEMMA InvariantHolds == Spec => []IInv
<1>1. IInv /\ [Next]_vars => IInv'
  <2> SUFFICES ASSUME IInv, [Next]_vars PROVE IInv'
    OBVIOUS
  <2>1. CASE Server
    BY <2>1, RefuseUploadKeeps, OpenFileKeeps, WriteBodyKeeps, RemoveTargetKeeps, RenameTempKeeps,
       RemoveTempKeeps, DestroyRequestKeeps, DeleteKeeps, GetKeeps DEF Server
  <2>2. CASE Kill
    BY <2>2, KillKeeps
  <2>3. CASE Locked
    BY <2>3, LockedKeeps
  <2>4. CASE \E r \in Upload : Cleaner(r)
    BY <2>4, CleanerKeeps
  <2>5. CASE UNCHANGED vars
    <3>1. UNCHANGED <<hasTempPath, place, draws, file, written, garbled, cleaned, state, tmp, status,
                      found, taken, kills>>
      BY <2>5 DEF vars, settings, disk, requests
    <3>2. TypeOK'
      BY <3>1 DEF IInv, TypeOK
    <3> QED
      BY <3>1, <3>2, OthersKeep
  <2> QED
    BY <2>1, <2>2, <2>3, <2>4, <2>5 DEF Next
<1> QED
  BY <1>1, InitHolds, PTL DEF Spec

(* The variables keep their types, and at most one upload is being saved:  *)
(* _saveFile is not interrupted by the handler of another request.         *)
THEOREM UploadsTypeCorrect == Spec => []TypeOK
<1>1. IInv => TypeOK
  BY DEF IInv
<1> QED
  BY <1>1, InvariantHolds, PTL

(* _generateFilename: however many processes draw the same names, and      *)
(* whichever died, no upload loses its temporary file to another.          *)
THEOREM TempIsItsOwnAlways == Spec => []TempIsItsOwn
<1>1. IInv => TempIsItsOwn
  BY DEF IInv
<1> QED
  BY <1>1, InvariantHolds, PTL

(* ~RequestPUT and _saveFile: a PUT that is over has left no temporary     *)
(* file behind, wherever its upload ended.                                 *)
THEOREM PutLeavesNothingAlways == Spec => []PutLeavesNothing
<1>1. IInv => PutLeavesNothing
  BY DEF IInv
<1> QED
  BY <1>1, InvariantHolds, PTL

-----------------------------------------------------------------------------
(* Uploads implements FileStore, as long as temporary files have names of  *)
(* their own.                                                              *)

(* A request that has not come to its body's end has no status.            *)
NotDecided == \A r \in Upload : state[r] \in {"new", "body"} => status[r] = None

(* What is saved is all there, and what is at a target, or found there.    *)
AllThere ==
    /\ \A r \in Upload : state[r] \in Saving => written[r] = Size
    /\ \A p \in Target : Whole(file[p])
    /\ \A r \in Request : Whole(found[r])

Between ==
    \A r \in Upload :
       /\ state[r] = "remove" => status[r] = 201
       /\ state[r] = "rename" =>
             \/ status[r] = 201 /\ file[TargetOf(r)] = None
             \/ status[r] = 500 /\ file[TargetOf(r)] = taken[r] /\ ~Writable

RInv == IInv /\ NotDecided /\ AllThere /\ Between

(* A temporary name is not given back, and before it was taken it was no   *)
(* target's.                                                               *)
LEMMA TrustedBefore == ASSUME IInv, [Next]_vars, Trusted' PROVE Trusted
<1> USE UploadsAssumption
<1>1. TypeOK /\ Upload \subseteq Request
  BY DEF IInv, Upload
<1>2. \A r \in Upload : tmp[r] = None \/ tmp'[r] = tmp[r]
  <2>1. CASE \E r \in Request : OpenFile(r)
    <3>1. PICK r \in Request : OpenFile(r)
      BY <2>1
    <3>2. r \in Upload /\ tmp[r] = None
      BY <3>1 DEF OpenFile, Handled, IInv, Progress
    <3>3. tmp' = tmp \/ tmp' = [tmp EXCEPT ![r] = TempName(r, NextDraw(r))]
      BY <3>1 DEF OpenFile, disk
    <3> QED
      BY <1>1, <3>2, <3>3 DEF TypeOK
  <2>2. CASE ~ \E r \in Request : OpenFile(r)
    <3>1. tmp' = tmp
      BY <2>2 DEF Next, Server, RefuseUpload, WriteBody, RemoveTarget, RenameTemp, RemoveTemp,
                  DestroyRequest, Delete, Get, Kill, Locked, Cleaner, vars, requests
    <3> QED
      BY <3>1
  <2> QED
    BY <2>1, <2>2
<1>3. None \notin Target
  BY DEF Name
<1> QED
  BY <1>2, <1>3 DEF Trusted

-----------------------------------------------------------------------------
(* The invariant. *)

LEMMA InitRefines == Init => RInv
<1> SUFFICES ASSUME Init PROVE RInv
  OBVIOUS
<1>1. IInv /\ Upload \subseteq Request
  BY InitHolds DEF Upload
<1>2. NotDecided /\ Between
  BY <1>1 DEF Init, NotDecided, Between
<1>3. \A p \in Target : file[p] \in {Old, None}
  BY DEF Init, Name
<1>4. AllThere
  BY <1>1, <1>3 DEF Init, AllThere, Whole, Saving
<1> QED
  BY <1>1, <1>2, <1>4 DEF RInv

(* Nothing that is whole is written to. *)
LEMMA WholeStays ==
  ASSUME RInv, NEW r \in Request, WriteBody(r), NEW v, Whole(v), v \in Upload \cup {Old, None}
  PROVE  Whole(v)'
<1>1. /\ r \in Upload /\ written[r] < Size /\ written \in [Upload -> 0 .. Size] /\ TypeOK
  BY UploadsAssumption DEF WriteBody, Handled, RInv, IInv, TypeOK, Progress
<1>2. \A u \in Upload : u # r => written'[u] = written[u]
  BY <1>1, WrittenPiece
<1>3. CASE v \in {Old, None}
  BY <1>3 DEF Whole
<1>4. CASE v \in Upload /\ v \notin {Old, None}
  <2>1. written[v] = Size /\ v # r
    BY <1>1, <1>4, UploadsAssumption DEF Whole
  <2> QED
    BY <1>2, <1>4, <2>1 DEF Whole
<1> QED
  BY <1>3, <1>4

(* What is at a target and what a GET has found are uploads or what was     *)
(* there before.                                                            *)
LEMMA VersionsOnly ==
  ASSUME TypeOK
  PROVE  /\ \A p \in Target : p \in Name /\ file[p] \in Upload \cup {Old, None}
         /\ \A r \in Request : found[r] \in Upload \cup {Old, None}
  BY DEF TypeOK, Name

LEMMA WholeKept ==
  ASSUME RInv, written' = written
  PROVE  \A v : Whole(v)' <=> Whole(v)
  BY DEF Whole

LEMMA UploadStepRefines ==
  ASSUME RInv, IInv', Trusted', NEW r \in Request,
         RefuseUpload(r) \/ OpenFile(r) \/ WriteBody(r)
  PROVE  RInv'
<1> USE UploadsAssumption DEF disk, settings
<1>1. /\ TypeOK /\ Upload \subseteq Request /\ r \in Upload /\ Free /\ state[r] \in {"new", "body"}
      /\ Target \subseteq Name
  BY DEF RInv, IInv, Upload, RefuseUpload, OpenFile, WriteBody, Handled, Name
<1>2. /\ found' = found
      /\ \A p \in Target : file'[p] = file[p]
  <2>1. CASE RefuseUpload(r) \/ WriteBody(r)
    BY <2>1 DEF RefuseUpload, WriteBody
  <2>2. CASE OpenFile(r)
    <3>1. found' = found /\ (file' = file \/ file' = [file EXCEPT ![tmp'[r]] = r])
      BY <2>2 DEF OpenFile
    <3>2. tmp'[r] \notin Target
      BY <1>1 DEF Trusted
    <3> QED
      BY <1>1, <3>1, <3>2 DEF TypeOK
  <2> QED
    BY <2>1, <2>2
<1>3. /\ \A q \in Upload : q # r => state'[q] = state[q] /\ status'[q] = status[q]
                                    /\ written'[q] = written[q]
      /\ \/ state'[r] = "answered"
         \/ state'[r] = "body" /\ status'[r] = status[r]
         \/ state'[r] = "remove" /\ status'[r] = 201 /\ written'[r] = Size
  <2>1. CASE RefuseUpload(r)
    <3>1. PICK code \in Refused : Decides(r, code, "answered")
      BY <2>1 DEF RefuseUpload
    <3> QED
      BY <1>1, <2>1, <3>1 DEF RefuseUpload, Decides, TypeOK
  <2>2. CASE OpenFile(r)
    <3>1. written' = written
          /\ \/ state' = [state EXCEPT ![r] = "body"] /\ status' = status
             \/ /\ state' = [state EXCEPT ![r] = "answered"]
                /\ status' = [status EXCEPT ![r] = 500]
      BY <2>2 DEF OpenFile, Decides
    <3> QED
      BY <1>1, <3>1 DEF TypeOK
  <2>3. CASE WriteBody(r)
    <3>1. PICK k \in 1 .. Size - written[r] :
             /\ written' = [written EXCEPT ![r] = written[r] + k]
             /\ \/ /\ written[r] + k = Size /\ state' = [state EXCEPT ![r] = "remove"]
                   /\ status' = [status EXCEPT ![r] = 201]
                \/ UNCHANGED <<state, status>>
      BY <1>1, <2>3, WrittenPiece
    <3>2. state[r] = "body"
      BY <2>3 DEF WriteBody, Handled
    <3> QED
      BY <1>1, <3>1, <3>2 DEF TypeOK
  <2> QED
    BY <2>1, <2>2, <2>3
<1>4. NotDecided'
  BY <1>1, <1>3 DEF RInv, NotDecided
<1>5. Between'
  BY <1>1, <1>3 DEF RInv, Between, Free, Saving
<1>6. \A q \in Upload : state'[q] \in Saving => written'[q] = Size
  BY <1>1, <1>3 DEF Free, Saving
<1>7. \A v \in Upload \cup {Old, None} : Whole(v) => Whole(v)'
  <2>1. CASE WriteBody(r)
    BY <2>1, WholeStays
  <2>2. CASE ~ WriteBody(r)
    BY <2>2 DEF Whole, RefuseUpload, OpenFile
  <2> QED
    BY <2>1, <2>2
<1>8. AllThere'
  BY <1>1, <1>2, <1>6, <1>7, VersionsOnly DEF RInv, AllThere
<1> QED
  BY <1>4, <1>5, <1>8 DEF RInv


LEMMA SaveStepRefines ==
  ASSUME RInv, IInv', Trusted, NEW r \in Request,
         RemoveTarget(r) \/ RenameTemp(r) \/ RemoveTemp(r) \/ DestroyRequest(r)
  PROVE  RInv'
<1> USE UploadsAssumption DEF disk, settings
<1> DEFINE p == TargetOf(r)
<1>1. /\ TypeOK /\ Upload \subseteq Request /\ r \in Upload /\ TargetOf(r) \in Target
      /\ p \in Name /\ Target \subseteq Name /\ Temporary \subseteq Name /\ tmp[r] \notin Target
      /\ UNCHANGED <<place, hasTempPath, written, found>>
      /\ state[r] \in {"remove", "rename"} => \A q \in Request : state[q] \in Saving => q = r
  BY NamesOfUpload
     DEF Trusted, RInv, IInv, TypeOK, Upload, RemoveTarget, RenameTemp, RemoveTemp, DestroyRequest, Name,
         Saving
<1>2. \A q \in Upload : q # r => state'[q] = state[q] /\ status'[q] = status[q]
  BY <1>1 DEF RemoveTarget, RenameTemp, RemoveTemp, DestroyRequest, Decides, TypeOK
<1>3. ~ Reached(tmp[r])
  BY <1>1 DEF Reached, TypeOK, Trusted
<1> HIDE DEF p
<1>4. CASE RemoveTarget(r)
  <2>1. /\ state[r] = "remove" /\ state' = [state EXCEPT ![r] = "rename"]
        /\ taken' = [taken EXCEPT ![r] = file[p]]
        /\ \/ file' = [file EXCEPT ![p] = None] /\ status' = [status EXCEPT ![r] = status[r]]
           \/ file' = file /\ status' = [status EXCEPT ![r] = 500] /\ ~Writable
    BY <1>4 DEF RemoveTarget, Decides, Fails, p
  <2>2. status[r] = 201 /\ written[r] = Size
    BY <1>1, <2>1 DEF RInv, Between, AllThere, Saving
  <2>3. \A q \in Name : file'[q] \in {file[q], None}
    BY <1>1, <2>1 DEF TypeOK
  <2>4. NotDecided' /\ AllThere'
    BY <1>1, <1>2, <2>1, <2>2, <2>3
       DEF RInv, TypeOK, NotDecided, AllThere, Whole, Saving
  <2>5. /\ state'[r] = "rename"
        /\ \/ status'[r] = 201 /\ file'[p] = None
           \/ status'[r] = 500 /\ file'[p] = taken'[r] /\ ~Writable
    BY <1>1, <2>1, <2>2 DEF TypeOK
  <2>6. \A q \in Upload : q # r => state'[q] \notin {"remove", "rename"}
    BY <1>1, <1>2, <2>1 DEF Saving
  <2>7. Between'
    BY <1>1, <2>5, <2>6 DEF Between, Writable, p
  <2> QED
    BY <2>4, <2>7 DEF RInv
<1>5. CASE RenameTemp(r)
  <2>1. /\ state[r] = "rename" /\ state' = [state EXCEPT ![r] = "cleanup"]
        /\ tmp[r] \in Temporary
        /\ \/ file' = [file EXCEPT ![p] = file[tmp[r]], ![tmp[r]] = None] /\ file[tmp[r]] # None
           \/ file' = file
    BY <1>1, <1>5 DEF RenameTemp, Decides, p, RInv, IInv, TempKnown, Kept
  <2>2. file[tmp[r]] \in {r, None} /\ written[r] = Size
    BY <1>1, <1>3, <2>1 DEF RInv, IInv, OwnOrNothing, AllThere, Acting, Saving
  <2>3. \A q \in Target : file'[q] \in {file[q], r}
    BY <1>1, <2>1, <2>2 DEF TypeOK
  <2>4. AllThere'
    BY <1>1, <1>2, <2>1, <2>2, <2>3 DEF RInv, TypeOK, AllThere, Whole, Saving
  <2>5. NotDecided' /\ Between'
    BY <1>1, <1>2, <2>1 DEF RInv, TypeOK, NotDecided, Between, Saving
  <2> QED
    BY <2>4, <2>5 DEF RInv
<1>6. CASE RemoveTemp(r) \/ DestroyRequest(r)
  <2>1. /\ state[r] \in {"cleanup", "body", "answered"}
        /\ state'[r] \in {"answered", "gone"} /\ status' = status
    BY <1>1, <1>6 DEF RemoveTemp, DestroyRequest, TypeOK
  <2>2. \A q \in Upload : state'[q] \in Saving \cup {"new", "body"} => q # r /\ state'[q] = state[q]
    BY <1>2, <2>1 DEF Saving
  <2>3. \A q \in Upload : state[q] \notin {"remove", "rename"}
    <3>1. CASE RemoveTemp(r)
      BY <1>1, <3>1 DEF RemoveTemp, TypeOK, Saving
    <3>2. CASE DestroyRequest(r)
      BY <1>1, <3>2 DEF DestroyRequest, Free, Saving
    <3> QED
      BY <1>6, <3>1, <3>2
  <2>4. \A q \in Target : file'[q] = file[q]
    <3>1. file' = file \/ file' = [file EXCEPT ![tmp[r]] = None]
      BY <1>6 DEF RemoveTemp, DestroyRequest, Destroyed, TempRemoved
    <3> QED
      BY <1>1, <3>1 DEF TypeOK
  <2>5. NotDecided' /\ Between'
    BY <2>1, <2>2, <2>3 DEF RInv, NotDecided, Between, Saving
  <2>6. AllThere'
    BY <1>1, <2>2, <2>4 DEF RInv, AllThere, Whole
  <2> QED
    BY <2>5, <2>6 DEF RInv
<1> QED
  BY <1>4, <1>5, <1>6


LEMMA OtherStepRefines ==
  ASSUME RInv, IInv', Trusted,
         (\E r \in Request : Delete(r) \/ Get(r)) \/ Kill \/ Locked \/ \E r \in Upload : Cleaner(r)
  PROVE  RInv'
<1> USE UploadsAssumption DEF disk, settings, requests
<1>1. TypeOK /\ Upload \subseteq Request /\ Target \subseteq Name
  BY DEF RInv, IInv, Upload, Name
<1>2. CASE \E r \in Request : Delete(r) \/ Get(r)
  <2>1. PICK r \in Request : Delete(r) \/ Get(r)
    BY <1>2
  <2>2. /\ Free /\ r \notin Upload /\ TargetOf(r) \in Name /\ written' = written
        /\ \A q \in Upload : state'[q] = state[q] /\ status'[q] = status[q]
    BY <1>1, <2>1 DEF Delete, Get, Handled, Decides, Upload, TypeOK
  <2>3. \A q \in Upload : state'[q] \notin Saving
    BY <1>1, <2>2 DEF Free
  <2>4. /\ \A n \in Name : file'[n] \in {file[n], None}
        /\ \A q \in Request : found'[q] \in {found[q], file[TargetOf(r)]}
    BY <1>1, <2>1, <2>2 DEF Delete, Get, TypeOK
  <2>5. NotDecided' /\ Between'
    BY <2>2, <2>3 DEF RInv, NotDecided, Between, Saving
  <2>6. AllThere'
    BY <1>1, <2>2, <2>3, <2>4 DEF RInv, AllThere, Whole
  <2> QED
    BY <2>5, <2>6 DEF RInv
<1>3. CASE Kill
  <2>1. UNCHANGED <<file, written, status, found>>
    BY <1>3 DEF Kill
  <2>2. \A r \in Upload : state'[r] \notin Saving \cup {"body"} /\ (state'[r] = "new" => state[r] = "new")
    BY <1>1, <1>3 DEF Kill, TypeOK, States, Saving
  <2> QED
    BY <2>1, <2>2 DEF RInv, NotDecided, AllThere, Between, Whole, Saving
<1>4. CASE Locked
  BY <1>4 DEF Locked, RInv, NotDecided, AllThere, Between, Whole, Writable
<1>5. CASE \E r \in Upload : Cleaner(r)
  <2>1. /\ UNCHANGED <<place, written, state, status, found, taken>>
        /\ \A q \in Target : file'[q] = file[q]
    <3>1. PICK r \in Upload : Cleaner(r)
      BY <1>5
    <3>2. tmp[r] \notin Target
      BY DEF Trusted
    <3> QED
      BY <1>1, <3>1, <3>2 DEF Cleaner, TypeOK
  <2> QED
    BY <1>1, <2>1 DEF RInv, NotDecided, AllThere, Between, Whole, Writable
<1> QED
  BY <1>2, <1>3, <1>4, <1>5

LEMMA RInvHolds == Spec => [](Trusted => RInv)
<1>1. (Trusted => RInv) /\ IInv /\ IInv' /\ [Next]_vars => (Trusted => RInv)'
  <2> SUFFICES ASSUME Trusted => RInv, IInv, IInv', [Next]_vars, Trusted' PROVE RInv'
    OBVIOUS
  <2> Trusted /\ RInv
    BY TrustedBefore
  <2>1. CASE Next
    BY <2>1, UploadStepRefines, SaveStepRefines, OtherStepRefines DEF Next, Server
  <2>2. CASE UNCHANGED vars
    BY <2>2 DEF RInv, NotDecided, AllThere, Between, Whole, Writable, vars, settings, disk,
                requests
  <2> QED
    BY <2>1, <2>2
<1> QED
  BY <1>1, InitRefines, InvariantHolds, PTL DEF Spec


-----------------------------------------------------------------------------
(* The store that clients see. *)

Settled == \A r \in Upload : state[r] # "rename"

(* Between two saves it is what is on the disk. *)
LEMMA SettledContent ==
  /\ RInv /\ Settled => Content = [p \in Target |-> file[p]]
  /\ RInv' /\ Settled' => Content' = [p \in Target |-> file'[p]]
<1>1. RInv /\ Settled => Content = [p \in Target |-> file[p]]
  BY DEF RInv, AllThere, Settled, Content, SavingAt, Seen
<1>2. RInv' /\ Settled' => Content' = [p \in Target |-> file'[p]]
  BY DEF RInv, AllThere, Settled, Content, SavingAt, Seen
<1> QED
  BY <1>1, <1>2

(* During one the path of the upload holds what it held. *)
LEMMA SavingContent ==
  ASSUME NEW r \in Upload
  PROVE  /\ RInv /\ state[r] = "rename" =>
              Content = [p \in Target |-> IF p = TargetOf(r) THEN taken[r] ELSE file[p]]
         /\ RInv' /\ state'[r] = "rename" =>
              Content' = [p \in Target |-> IF p = TargetOf(r) THEN taken'[r] ELSE file'[p]]
<1>1. ASSUME RInv, state[r] = "rename"
      PROVE  Content = [p \in Target |-> IF p = TargetOf(r) THEN taken[r] ELSE file[p]]
  <2>1. \A q \in Upload : state[q] = "rename" => q = r
    BY <1>1 DEF RInv, IInv, TypeOK, Upload, Saving
  <2>2. \A p \in Target : SavingAt(p) = IF p = TargetOf(r) THEN {r} ELSE {}
    BY <1>1, <2>1 DEF SavingAt
  <2>3. (CHOOSE q \in {r} : TRUE) = r
    OBVIOUS
  <2> QED
    BY <1>1, <2>2, <2>3 DEF RInv, AllThere, Content, Seen
<1>2. ASSUME RInv', state'[r] = "rename"
      PROVE  Content' = [p \in Target |-> IF p = TargetOf(r) THEN taken'[r] ELSE file'[p]]
  <2>1. \A q \in Upload : state'[q] = "rename" => q = r
    BY <1>2 DEF RInv, IInv, TypeOK, Upload, Saving
  <2>2. \A p \in Target : SavingAt(p)' = IF p = TargetOf(r) THEN {r} ELSE {}
    BY <1>2, <2>1 DEF SavingAt
  <2>3. (CHOOSE q \in {r} : TRUE) = r
    OBVIOUS
  <2> QED
    BY <1>2, <2>2, <2>3 DEF RInv, AllThere, Content, Seen
<1> QED
  BY <1>1, <1>2

(* What a GET has found is whole. *)
LEMMA GotIsFound ==
  /\ RInv => Got = [r \in Request |-> found[r]]
  /\ RInv' => Got' = [r \in Request |-> found'[r]]
<1>1. RInv => Got = [r \in Request |-> found[r]]
  BY DEF RInv, AllThere, Got, Seen
<1>2. RInv' => Got' = [r \in Request |-> found'[r]]
  BY DEF RInv, AllThere, Got, Seen
<1> QED
  BY <1>1, <1>2

(* As values: trust is there at first, stays or is lost. *)
LEMMA TrustedAtFirst == ASSUME Init PROVE Trusted = TRUE
<1>1. \A r \in Upload : tmp[r] \notin Target
  BY UploadsAssumption DEF Init, Upload, Name
<1> QED
  BY <1>1 DEF Trusted

LEMMA TrustedStays == ASSUME Trusted, Trusted' PROVE Trusted' = Trusted
BY DEF Trusted

LEMMA TrustedLost == ASSUME ~ Trusted' PROVE Trusted' = FALSE
BY DEF Trusted

LEMMA InitIsInit == Init => Store!Init
<1> SUFFICES ASSUME Init PROVE Store!Init
  OBVIOUS
<1>1. RInv /\ TypeOK /\ Upload \subseteq Request
  BY InitRefines DEF RInv, IInv, Upload
<1>2. Settled
  BY <1>1 DEF Init, Settled
<1>3. Content \in [Target -> Upload \cup {Old} \cup {None}]
  BY <1>1, <1>2, SettledContent, VersionsOnly
<1>4. Outcome = [r \in Request |-> None]
  BY DEF Init, Outcome
<1>5. Got = [r \in Request |-> None]
  BY <1>1, GotIsFound DEF Init
<1>6. Spoiled = {}
  BY DEF Init, Spoiled
<1>7. Trusted = TRUE
  BY TrustedAtFirst
<1> QED
  BY <1>3, <1>4, <1>5, <1>6, <1>7 DEF Store!Init


-----------------------------------------------------------------------------
(* Steps of the server are steps of the store. *)

LEMMA OutcomeStays ==
  ASSUME \A q \in Request : /\ state'[q] \in Over <=> state[q] \in Over
                            /\ state[q] \in Over => status'[q] = status[q]
  PROVE  Outcome' = Outcome
  BY DEF Outcome, Over

LEMMA OutcomeDecided ==
  ASSUME NEW r \in Request, state[r] \notin Over, state'[r] \in Over,
         \A q \in Request : q # r => state'[q] = state[q] /\ status'[q] = status[q]
  PROVE  Outcome[r] = None /\ Outcome' = [Outcome EXCEPT ![r] = status'[r]]
  BY DEF Outcome, Over

(* The uploads stored with other bytes change only when one of them is. *)
LEMMA SpoiledStays ==
  ASSUME Upload \subseteq Request, garbled \subseteq Upload, garbled' \subseteq Upload,
         \A q \in Request : /\ state'[q] \in Over <=> state[q] \in Over
                            /\ state[q] \in Over => status'[q] = status[q]
                                                    /\ (q \in garbled' <=> q \in garbled)
  PROVE  Spoiled' = Spoiled
BY DEF Spoiled

LEMMA SpoiledDecided ==
  ASSUME Upload \subseteq Request, garbled \subseteq Upload, garbled' = garbled,
         NEW r \in Request, state[r] \notin Over, state'[r] \in Over,
         \A q \in Request : q # r => state'[q] = state[q] /\ status'[q] = status[q]
  PROVE  /\ Spoiled' \in {Spoiled, Spoiled \cup {r}}
         /\ status'[r] # 201 => Spoiled' = Spoiled
<1>1. CASE r \in garbled /\ status'[r] = 201
  <2>1. Spoiled' = Spoiled \cup {r}
    BY <1>1 DEF Spoiled
  <2> QED
    BY <1>1, <2>1
<1>2. CASE ~ (r \in garbled /\ status'[r] = 201)
  <2>1. Spoiled' = Spoiled
    BY <1>2 DEF Spoiled
  <2> QED
    BY <2>1
<1> QED
  BY <1>1, <1>2

(* While temporary files have names of their own. *)
LEMMA Unseen ==
  ASSUME Trusted, Trusted', Content' = Content, Outcome' = Outcome, Got' = Got, Spoiled' = Spoiled
  PROVE  [Store!Next]_(Store!vars)
<1>1. Trusted' = Trusted
  BY TrustedStays
<1> QED
  BY <1>1 DEF Store!vars

LEMMA SeenStep ==
  ASSUME Trusted, Trusted', NEW r \in Request,
         \/ Store!Store(r) \/ Store!Refuse(r) \/ Store!Spoil(r)
         \/ Store!Die(r) \/ Store!Delete(r) \/ Store!Read(r)
  PROVE  Store!Next
<1>1. Trusted' = Trusted
  BY TrustedStays
<1> QED
  BY <1>1 DEF Store!Next, Store!Step

LEMMA UploadStepImplements ==
  ASSUME RInv, RInv', Trusted, Trusted', NEW r \in Request,
         RefuseUpload(r) \/ OpenFile(r) \/ WriteBody(r)
  PROVE  [Store!Next]_(Store!vars)
<1> USE UploadsAssumption DEF disk, settings
<1>1. /\ TypeOK /\ Upload \subseteq Request /\ r \in Upload /\ state[r] \in {"new", "body"}
      /\ \A q \in Upload : state[q] \notin Saving
      /\ Target \subseteq Name /\ garbled \subseteq Upload /\ garbled' \subseteq Upload
  BY DEF RInv, IInv, TypeOK, Upload, RefuseUpload, OpenFile, WriteBody, Handled, Name, Free
<1>2. found' = found /\ \A p \in Target : file'[p] = file[p]
  <2>1. CASE RefuseUpload(r) \/ WriteBody(r)
    BY <2>1 DEF RefuseUpload, WriteBody
  <2>2. CASE OpenFile(r)
    <3>1. found' = found /\ (file' = file \/ file' = [file EXCEPT ![tmp'[r]] = r])
      BY <2>2 DEF OpenFile
    <3>2. tmp'[r] \notin Target
      BY <1>1 DEF Trusted
    <3> QED
      BY <1>1, <3>1, <3>2 DEF TypeOK
  <2> QED
    BY <2>1, <2>2
<1>3. \/ /\ \A q \in Request : q # r => state'[q] = state[q] /\ status'[q] = status[q]
         /\ state'[r] = "answered" /\ status'[r] \in {403, 404, 405, 409, 500}
         /\ garbled' = garbled
      \/ /\ \A q \in Request : q # r => state'[q] = state[q] /\ status'[q] = status[q]
         /\ state'[r] \in {"body", "remove"}
  <2>1. CASE RefuseUpload(r)
    <3>1. PICK code \in {403, 404, 405, 409, 500} : Decides(r, code, "answered")
      BY <2>1 DEF RefuseUpload, Refused
    <3> QED
      BY <1>1, <2>1, <3>1 DEF Decides, TypeOK, RefuseUpload
  <2>2. CASE OpenFile(r)
    <3>1. /\ \/ state' = [state EXCEPT ![r] = "body"] /\ status' = status
             \/ state' = [state EXCEPT ![r] = "answered"] /\ status' = [status EXCEPT ![r] = 500]
          /\ garbled' = garbled
      BY <2>2 DEF OpenFile, Decides
    <3> QED
      BY <1>1, <3>1 DEF TypeOK
  <2>3. CASE WriteBody(r)
    <3>1. /\ state[r] = "body"
          /\ \/ state' = [state EXCEPT ![r] = "remove"] /\ status' = [status EXCEPT ![r] = 201]
             \/ UNCHANGED <<state, status>>
      <4>1. state[r] = "body"
        BY <2>3 DEF WriteBody, Handled
      <4> QED
        BY <1>1, <2>3, <4>1, WrittenPiece
    <3> QED
      BY <1>1, <3>1 DEF TypeOK
  <2> QED
    BY <2>1, <2>2, <2>3
<1>4. Content' = Content
  <2>1. Settled /\ Settled'
    BY <1>1, <1>3 DEF Settled, Saving
  <2> QED
    BY <1>2, <2>1, SettledContent
<1>5. Got' = Got
  BY <1>2, GotIsFound
<1>6. \A q \in Request : q # r => (q \in garbled' <=> q \in garbled)
  BY DEF RefuseUpload, OpenFile, WriteBody, disk
<1>7. CASE /\ state'[r] = "answered" /\ status'[r] \in {403, 404, 405, 409, 500}
           /\ garbled' = garbled
  <2>1. Outcome[r] = None /\ Outcome' = [Outcome EXCEPT ![r] = status'[r]]
    BY <1>1, <1>3, <1>7, OutcomeDecided DEF Over
  <2>2. Store!Decided(r, status'[r])
    BY <2>1 DEF Store!Decided
  <2>3. Spoiled' = Spoiled
    BY <1>1, <1>3, <1>7, SpoiledDecided DEF Over
  <2>4. Store!Refuse(r)
    BY <1>4, <1>5, <1>7, <2>2, <2>3 DEF Store!Refuse
  <2> QED
    BY <2>4, SeenStep
<1>8. CASE state'[r] \in {"body", "remove"}
  <2>1. \A q \in Request : /\ state'[q] \in Over <=> state[q] \in Over
                           /\ state[q] \in Over => status'[q] = status[q]
                                                   /\ (q \in garbled' <=> q \in garbled)
    BY <1>1, <1>3, <1>6, <1>8 DEF Over
  <2>2. Outcome' = Outcome /\ Spoiled' = Spoiled
    BY <1>1, <2>1, OutcomeStays, SpoiledStays
  <2> QED
    BY <1>4, <1>5, <2>2, Unseen
<1> QED
  BY <1>3, <1>7, <1>8

(* remove() is not seen. *)
LEMMA RemoveTargetImplements ==
  ASSUME RInv, RInv', Trusted, Trusted', NEW r \in Request, RemoveTarget(r)
  PROVE  [Store!Next]_(Store!vars)
<1> DEFINE p == TargetOf(r)
<1>1. /\ TypeOK /\ r \in Upload /\ state[r] = "remove" /\ Upload \subseteq Request
      /\ Target \subseteq Name /\ garbled \subseteq Upload
  BY DEF RInv, IInv, TypeOK, RemoveTarget, Upload, Name
<1> HIDE DEF p
<1>2. /\ found' = found /\ state' = [state EXCEPT ![r] = "rename"]
      /\ taken' = [taken EXCEPT ![r] = file[p]]
      /\ file' = [file EXCEPT ![p] = None] \/ file' = file
      /\ \E code \in {status[r], 500} : status' = [status EXCEPT ![r] = code]
      /\ garbled' = garbled
  BY ZenonT(30) DEF RemoveTarget, Decides, Fails, p, disk
<1>3. Settled
  BY <1>1 DEF RInv, IInv, TypeOK, Settled, Saving
<1>4. Content = [q \in Target |-> file[q]]
  BY <1>3, SettledContent
<1>5. Content' = [q \in Target |-> IF q = TargetOf(r) THEN taken'[r] ELSE file'[q]]
  BY <1>1, <1>2, SavingContent DEF TypeOK
<1>6. taken'[r] = file[p] /\ \A q \in Target : q # TargetOf(r) => file'[q] = file[q]
  BY <1>1, <1>2 DEF TypeOK, p
<1>7. Content' = Content
  BY <1>1, <1>4, <1>5, <1>6 DEF p
<1>8. Outcome' = Outcome /\ Spoiled' = Spoiled
  <2>1. \A q \in Request : /\ state'[q] \in Over <=> state[q] \in Over
                           /\ state[q] \in Over => status'[q] = status[q]
    BY <1>1, <1>2 DEF TypeOK, Over
  <2> QED
    BY <1>1, <1>2, <2>1, OutcomeStays, SpoiledStays
<1>9. Got' = Got
  BY <1>2, GotIsFound
<1> QED
  BY <1>7, <1>8, <1>9, Unseen


(* The upload takes effect with rename(), or fails with it: then its path  *)
(* is empty, or holds what it held if remove() had failed as well.         *)
LEMMA RenameTempImplements ==
  ASSUME RInv, RInv', Trusted, Trusted', NEW r \in Request, RenameTemp(r)
  PROVE  [Store!Next]_(Store!vars)
<1> USE UploadsAssumption
<1> DEFINE T == TargetOf(r)
           p == T
           t == tmp[r]
           ok == file[t] # None /\ Writable
<1>1. /\ TypeOK /\ r \in Upload /\ state[r] = "rename" /\ Upload \subseteq Request
      /\ T \in Target /\ p \in Name /\ t \in Temporary /\ t \in Name /\ t \notin Target
      /\ Target \subseteq Name /\ garbled \subseteq Upload
  BY DEF Trusted, RInv, IInv, TypeOK, RenameTemp, Upload, Name, TempKnown, Kept
<1>2. /\ found' = found /\ state' = [state EXCEPT ![r] = "cleanup"]
      /\ file' = IF ok THEN [file EXCEPT ![p] = file[t], ![t] = None] ELSE file
      /\ status' = [status EXCEPT ![r] = IF ok THEN status[r] ELSE 500]
      /\ garbled' = garbled
  BY DEF RenameTemp, Decides, Renamed, Fails
<1>3. ok => file[t] = r
  <2>1. ~ Reached(t)
    BY <1>1 DEF Reached
  <2> QED
    BY <1>1, <2>1 DEF RInv, IInv, OwnOrNothing, Acting, Saving
<1> HIDE DEF p, t, ok, T
<1>4. Content = [q \in Target |-> IF q = T THEN taken[r] ELSE file[q]]
  BY <1>1, SavingContent DEF T
<1>5. Settled'
  BY <1>1, <1>2 DEF RInv, IInv, TypeOK, Settled, Saving
<1>6. Content' = [q \in Target |-> file'[q]]
  BY <1>5, SettledContent
<1>7. \A q \in Target : q # T => file'[q] = file[q]
  BY <1>1, <1>2 DEF TypeOK, p
<1>8. Got' = Got
  BY <1>2, GotIsFound
<1>9. /\ Outcome[r] = None /\ Outcome' = [Outcome EXCEPT ![r] = status'[r]]
      /\ Spoiled' \in {Spoiled, Spoiled \cup {r}} /\ (status'[r] # 201 => Spoiled' = Spoiled)
  <2>1. /\ state[r] \notin Over /\ state'[r] \in Over
        /\ \A q \in Request : q # r => state'[q] = state[q] /\ status'[q] = status[q]
    BY <1>1, <1>2 DEF TypeOK, Over
  <2> QED
    BY <1>1, <1>2, <2>1, OutcomeDecided, SpoiledDecided
<1>10. Store!Decided(r, status'[r])
  BY <1>9 DEF Store!Decided
<1>11. r \in Store!Uploads
  BY <1>1 DEF Upload, Store!Uploads
<1>12. \/ status[r] = 201 /\ file[p] = None
       \/ status[r] = 500 /\ file[p] = taken[r] /\ ~Writable
  BY <1>1 DEF RInv, Between, p, T
<1>13. CASE ok
  <2>1. status'[r] = 201 /\ file'[p] = r
    BY <1>1, <1>2, <1>3, <1>12, <1>13 DEF TypeOK, ok
  <2>2. Content' = [Content EXCEPT ![T] = r]
    BY <1>1, <1>4, <1>6, <1>7, <2>1 DEF p
  <2>3. Store!Store(r)
    BY <1>8, <1>9, <1>10, <1>11, <2>1, <2>2 DEF Store!Store, Store!Holds, T
  <2> QED
    BY <2>3, <1>1, SeenStep
<1>14. CASE ~ ok
  <2>1. status'[r] = 500 /\ file' = file
    BY <1>1, <1>2, <1>14 DEF TypeOK
  <2>2. CASE file[p] = None
    <3>1. Content' = [Content EXCEPT ![T] = None]
      BY <1>1, <1>4, <1>6, <2>1, <2>2 DEF p
    <3>2. Store!Spoil(r)
      BY <1>8, <1>9, <1>10, <1>11, <2>1, <3>1 DEF Store!Spoil, Store!Holds, T
    <3> QED
      BY <3>2, <1>1, SeenStep
  <2>3. CASE file[p] = taken[r]
    <3>1. Content' = Content
      BY <1>1, <1>4, <1>6, <2>1, <2>3 DEF p
    <3>2. Store!Refuse(r)
      BY <1>8, <1>9, <1>10, <2>1, <3>1 DEF Store!Refuse
    <3> QED
      BY <3>2, <1>1, SeenStep
  <2> QED
    BY <1>12, <2>2, <2>3
<1> QED
  BY <1>13, <1>14

LEMMA RemovalImplements ==
  ASSUME RInv, RInv', Trusted, Trusted', NEW r \in Request, RemoveTemp(r) \/ DestroyRequest(r)
  PROVE  [Store!Next]_(Store!vars)
<1> USE UploadsAssumption
<1>1. /\ TypeOK /\ r \in Upload /\ Upload \subseteq Request
      /\ Target \subseteq Name /\ tmp[r] \notin Target /\ garbled \subseteq Upload
  BY DEF Trusted, RInv, IInv, TypeOK, RemoveTemp, DestroyRequest, Upload, Name
<1>2. /\ UNCHANGED <<found, status, garbled>>
      /\ file' = file \/ file' = [file EXCEPT ![tmp[r]] = None]
  BY DEF RemoveTemp, DestroyRequest, Destroyed, TempRemoved
<1>3. \/ state[r] = "cleanup" /\ state' = [state EXCEPT ![r] = "answered"]
      \/ state[r] = "answered" /\ state' = [state EXCEPT ![r] = "gone"]
      \/ state[r] = "body" /\ status[r] = None /\ state' = [state EXCEPT ![r] = "gone"]
  BY <1>1 DEF RemoveTemp, DestroyRequest, RInv, NotDecided
<1>4. Settled /\ Settled'
  <2>1. Settled
    <3>1. CASE RemoveTemp(r)
      BY <1>1, <3>1 DEF RemoveTemp, TypeOK, Saving, Settled
    <3>2. CASE DestroyRequest(r)
      BY <1>1, <3>2 DEF DestroyRequest, Free, Saving, Settled
    <3> QED
      BY <3>1, <3>2
  <2> QED
    BY <1>1, <1>3, <2>1 DEF TypeOK, Settled
<1>5. \A q \in Target : file'[q] = file[q]
  BY <1>1, <1>2 DEF TypeOK
<1>6. Content' = Content
  BY <1>4, <1>5, SettledContent
<1>7. Outcome' = Outcome
  BY <1>1, <1>2, <1>3 DEF TypeOK, Outcome, Over
<1>8. Spoiled' = Spoiled
  <2>1. CASE state[r] = "body"
    BY <1>1, <1>2, <1>3, <2>1 DEF TypeOK, Spoiled, Over
  <2>2. CASE state[r] # "body"
    BY <1>1, <1>2, <1>3, <2>2 DEF TypeOK, Spoiled, Over
  <2> QED
    BY <2>1, <2>2
<1>9. Got' = Got
  BY <1>2, GotIsFound
<1> QED
  BY <1>6, <1>7, <1>8, <1>9, Unseen


LEMMA DeleteImplements ==
  ASSUME RInv, RInv', Trusted, Trusted', NEW r \in Request, Delete(r)
  PROVE  [Store!Next]_(Store!vars)
<1> USE UploadsAssumption
<1> DEFINE T == TargetOf(r)
           p == T
<1>1. /\ TypeOK /\ Upload \subseteq Request /\ T \in Target /\ MethodOf(r) = "DELETE"
      /\ state[r] = "new" /\ \A q \in Upload : state[q] \notin Saving
      /\ Target \subseteq Name /\ garbled \subseteq Upload
  BY DEF RInv, IInv, TypeOK, Delete, Handled, Free, Upload, Name
<1>2. /\ found' = found /\ garbled' = garbled /\ state' = [state EXCEPT ![r] = "answered"]
      /\ \/ file' = file /\ \E code \in {403, 404, 500} : status' = [status EXCEPT ![r] = code]
         \/ /\ file[p] # None /\ file' = [file EXCEPT ![p] = None]
            /\ status' = [status EXCEPT ![r] = 204]
  BY DEF Delete, Decides
<1> HIDE DEF p, T
<1>3. Settled /\ Settled'
  BY <1>1, <1>2 DEF TypeOK, Settled, Saving
<1>4. /\ Content = [q \in Target |-> file[q]]
      /\ Content' = [q \in Target |-> file'[q]]
  BY <1>3, SettledContent
<1>5. /\ Outcome[r] = None /\ Outcome' = [Outcome EXCEPT ![r] = status'[r]]
      /\ status'[r] # 201 => Spoiled' = Spoiled
  <2>1. /\ state[r] \notin Over /\ state'[r] \in Over
        /\ \A q \in Request : q # r => state'[q] = state[q] /\ status'[q] = status[q]
    BY <1>1, <1>2 DEF TypeOK, Over
  <2> QED
    BY <1>1, <1>2, <2>1, OutcomeDecided, SpoiledDecided
<1>6. Store!Decided(r, status'[r])
  BY <1>5 DEF Store!Decided
<1>7. Got' = Got
  BY <1>2, GotIsFound
<1>8. CASE file' = file /\ \E code \in {403, 404, 500} : status' = [status EXCEPT ![r] = code]
  <2>1. status'[r] \in {403, 404, 500} /\ Content' = Content
    BY <1>1, <1>4, <1>8 DEF TypeOK
  <2>2. Store!Refuse(r)
    BY <1>5, <1>6, <1>7, <2>1 DEF Store!Refuse
  <2> QED
    BY <2>2, SeenStep
<1>9. CASE /\ file[p] # None /\ file' = [file EXCEPT ![p] = None]
           /\ status' = [status EXCEPT ![r] = 204]
  <2>1. status'[r] = 204 /\ Content[T] # None
    BY <1>1, <1>4, <1>9 DEF TypeOK, p
  <2>2. \A q \in Target : file'[q] = IF q = T THEN None ELSE file[q]
    BY <1>1, <1>9 DEF TypeOK, p
  <2>3. Content' = [Content EXCEPT ![T] = None]
    BY <1>4, <2>2
  <2>4. Store!Delete(r)
    BY <1>1, <1>5, <1>6, <1>7, <2>1, <2>3 DEF Store!Delete, Store!Holds, T
  <2> QED
    BY <2>4, SeenStep
<1> QED
  BY <1>2, <1>8, <1>9

LEMMA GetImplements ==
  ASSUME RInv, RInv', Trusted, Trusted', NEW r \in Request, Get(r)
  PROVE  [Store!Next]_(Store!vars)
<1> USE UploadsAssumption
<1> DEFINE T == TargetOf(r)
           p == T
<1>1. /\ TypeOK /\ Upload \subseteq Request /\ T \in Target /\ MethodOf(r) = "GET"
      /\ state[r] = "new" /\ garbled \subseteq Upload /\ \A q \in Upload : state[q] \notin Saving
  BY DEF RInv, IInv, TypeOK, Get, Handled, Free, Upload
<1>2. /\ file' = file /\ garbled' = garbled /\ state' = [state EXCEPT ![r] = "answered"]
      /\ \/ found' = found /\ \E code \in {403, 404, 500} : status' = [status EXCEPT ![r] = code]
         \/ /\ file[p] # None /\ found' = [found EXCEPT ![r] = file[p]]
            /\ status' = [status EXCEPT ![r] = 200]
  BY DEF Get, Decides, disk
<1> HIDE DEF p, T
<1>3. Settled /\ Settled'
  BY <1>1, <1>2 DEF TypeOK, Settled, Saving
<1>4. Content = [q \in Target |-> file[q]] /\ Content' = Content
  BY <1>2, <1>3, SettledContent
<1>5. /\ Outcome[r] = None /\ Outcome' = [Outcome EXCEPT ![r] = status'[r]]
      /\ status'[r] # 201 => Spoiled' = Spoiled
  <2>1. /\ state[r] \notin Over /\ state'[r] \in Over
        /\ \A q \in Request : q # r => state'[q] = state[q] /\ status'[q] = status[q]
    BY <1>1, <1>2 DEF TypeOK, Over
  <2> QED
    BY <1>1, <1>2, <2>1, OutcomeDecided, SpoiledDecided
<1>6. Store!Decided(r, status'[r])
  BY <1>5 DEF Store!Decided
<1>7. /\ Got = [q \in Request |-> found[q]]
      /\ Got' = [q \in Request |-> found'[q]]
  BY GotIsFound
<1>8. CASE found' = found /\ \E code \in {403, 404, 500} : status' = [status EXCEPT ![r] = code]
  <2>1. status'[r] \in {403, 404, 500} /\ Got' = Got
    BY <1>1, <1>7, <1>8 DEF TypeOK
  <2>2. Store!Refuse(r)
    BY <1>4, <1>5, <1>6, <2>1 DEF Store!Refuse
  <2> QED
    BY <2>2, SeenStep
<1>9. CASE /\ file[p] # None /\ found' = [found EXCEPT ![r] = file[p]]
           /\ status' = [status EXCEPT ![r] = 200]
  <2>1. status'[r] = 200 /\ Content[T] = file[p] /\ Content[T] # None
    BY <1>1, <1>4, <1>9 DEF TypeOK, p
  <2>2. \A q \in Request : found'[q] = IF q = r THEN file[p] ELSE found[q]
    BY <1>1, <1>9 DEF TypeOK
  <2>3. Got' = [Got EXCEPT ![r] = Content[T]]
    BY <1>7, <2>1, <2>2
  <2>4. Spoiled' = Spoiled /\ Content' = Content
    BY <1>4, <1>5, <2>1
  <2>5. Store!Decided(r, 200) /\ Content[TargetOf(r)] # None
    BY <1>6, <2>1 DEF T
  <2>6. Got' = [Got EXCEPT ![r] = Content[TargetOf(r)]]
    BY <2>3 DEF T
  <2>7. Store!Read(r)
    BY <1>1, <2>4, <2>5, <2>6 DEF Store!Read
  <2> QED
    BY <2>7, SeenStep
<1> QED
  BY <1>2, <1>8, <1>9

(* A process that dies between remove() and rename() leaves the path empty, *)
(* or as it was.                                                            *)
LEMMA KillImplements ==
  ASSUME RInv, RInv', Trusted, Trusted', Kill
  PROVE  [Store!Next]_(Store!vars)
<1> USE UploadsAssumption
<1>1. /\ TypeOK /\ Upload \subseteq Request /\ garbled \subseteq Upload
      /\ UNCHANGED <<file, garbled, found, status>>
  BY DEF RInv, IInv, TypeOK, Upload, Kill, disk
<1>2. \A r \in Request :
         \/ state[r] \in {"body", "remove", "rename"} /\ state'[r] = "left"
         \/ state[r] \in {"cleanup", "answered"} /\ state'[r] = "died"
         \/ state[r] \in {"new", "gone", "left", "died"} /\ state'[r] = state[r]
  BY <1>1 DEF Kill, TypeOK, States, Saving
<1>3. Outcome' = Outcome /\ Spoiled' = Spoiled
  <2>1. \A q \in Request : state'[q] \in Over <=> state[q] \in Over
    BY <1>2 DEF Over
  <2> QED
    BY <1>1, <2>1, OutcomeStays, SpoiledStays
<1>4. Got' = Got
  BY <1>1, GotIsFound
<1>5. Settled'
  BY <1>1, <1>2 DEF Settled
<1>6. Content' = [q \in Target |-> file[q]]
  BY <1>1, <1>5, SettledContent
<1>7. CASE Settled
  <2>1. Content' = Content
    BY <1>6, <1>7, SettledContent
  <2> QED
    BY <1>3, <1>4, <2>1, Unseen
<1>8. CASE ~ Settled
  <2>1. PICK r \in Upload : state[r] = "rename"
    BY <1>8 DEF Settled
  <2> DEFINE T == TargetOf(r)
  <2>2. /\ Content = [q \in Target |-> IF q = T THEN taken[r] ELSE file[q]]
        /\ r \in Request /\ T \in Target
        /\ file[T] \in {None, taken[r]}
    BY <1>1, <2>1, SavingContent DEF RInv, Between
  <2> HIDE DEF T
  <2>3. CASE file[T] = taken[r]
    <3>1. Content' = Content
      BY <1>6, <2>2, <2>3
    <3> QED
      BY <1>3, <1>4, <3>1, Unseen
  <2>4. CASE file[T] = None
    <3>1. Content' = [Content EXCEPT ![T] = None]
      BY <1>6, <2>2, <2>4
    <3>2. Outcome[r] = None
      BY <1>1, <2>1, <2>2 DEF Outcome, Over
    <3>3. Store!Die(r)
      BY <1>3, <1>4, <3>1, <3>2 DEF Store!Die, Store!Holds, Store!Uploads, Upload, T
    <3> QED
      BY <2>2, <3>3, SeenStep
  <2> QED
    BY <2>2, <2>3, <2>4
<1> QED
  BY <1>7, <1>8

LEMMA OthersImplement ==
  ASSUME RInv, RInv', Trusted, Trusted', Locked \/ \E r \in Upload : Cleaner(r)
  PROVE  [Store!Next]_(Store!vars)
<1>1. TypeOK /\ Target \subseteq Name /\ \A r \in Upload : tmp[r] \notin Target
  BY DEF Trusted, RInv, IInv, Name
<1>2. /\ UNCHANGED <<written, garbled, state, status, found, taken>>
      /\ \A q \in Target : file'[q] = file[q]
  BY <1>1 DEF Locked, Cleaner, disk, requests, settings, TypeOK
<1>3. Content' = Content
  <2>1. CASE Settled
    BY <1>2, <2>1, SettledContent DEF Settled
  <2>2. CASE ~ Settled
    <3>1. PICK r \in Upload : state[r] = "rename"
      BY <2>2 DEF Settled
    <3> QED
      BY <1>2, <3>1, SavingContent
  <2> QED
    BY <2>1, <2>2
<1>4. Outcome' = Outcome /\ Got' = Got
  BY <1>2, OutcomeStays, GotIsFound
<1>5. Spoiled' = Spoiled
  BY <1>2 DEF Spoiled
<1> QED
  BY <1>3, <1>4, <1>5, Unseen

-----------------------------------------------------------------------------
(* Uploads, DELETE and GET implement the store of whole files, until a      *)
(* temporary file gets the name of a target: whatever clients go away,      *)
(* processes die and programs interfere, every request takes effect at one  *)
(* moment, and 201 means that the path holds the file written for it.       *)
THEOREM StoreImplemented == Spec => ImplementsStore
<1>1. /\ IInv /\ (Trusted => RInv) /\ (Trusted => RInv)' /\ [Next]_vars
      => [Store!Next]_(Store!vars)
  <2> SUFFICES ASSUME IInv, Trusted => RInv, (Trusted => RInv)', [Next]_vars
               PROVE  [Store!Next]_(Store!vars)
    OBVIOUS
  <2>1. CASE ~ Trusted'
    <3>1. Trusted' = FALSE
      BY <2>1, TrustedLost
    <3> QED
      BY <3>1 DEF Store!Next
  <2>2. CASE Trusted'
    <3>1. Trusted /\ RInv /\ RInv'
      BY <2>2, TrustedBefore
    <3>2. CASE Server
      BY <2>2, <3>1, <3>2, UploadStepImplements, RemoveTargetImplements, RenameTempImplements,
         RemovalImplements, DeleteImplements, GetImplements DEF Server
    <3>3. CASE Kill
      BY <2>2, <3>1, <3>3, KillImplements
    <3>4. CASE Locked \/ \E r \in Upload : Cleaner(r)
      BY <2>2, <3>1, <3>4, OthersImplement
    <3>5. CASE UNCHANGED vars
      <4>1. UNCHANGED <<Content, Outcome, Got, Spoiled>>
        BY <3>5 DEF vars, settings, disk, requests, Content, Outcome, Got, SavingAt, Seen, Whole,
                    Spoiled
      <4> QED
        BY <2>2, <3>1, <4>1, Unseen
    <3> QED
      BY <3>2, <3>3, <3>4, <3>5 DEF Next
  <2> QED
    BY <2>1, <2>2
<1> QED
  BY <1>1, InitIsInit, InvariantHolds, RInvHolds, PTL DEF Spec, ImplementsStore, Store!Spec

===============================================================================
