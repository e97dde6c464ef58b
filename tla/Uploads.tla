-------------------------------- MODULE Uploads --------------------------------
(***************************************************************************)
(* The files behind PUT, POST, DELETE and GET: an upload is written to a   *)
(* temporary file and put in the place of its target when the body is      *)
(* complete (ARequest::_openFile, _saveFile), while other requests use the *)
(* same paths, clients go away, and the process is killed and started      *)
(* again.                                                                  *)
(*                                                                         *)
(* A file is known by the upload that wrote it; names point to files, so a *)
(* GET that has opened one keeps it.  Handlers run one after the other;    *)
(* the system calls of _saveFile are steps because the process may die     *)
(* between them and other programs use the same directories.  The random   *)
(* part of a temporary name is the number of the draw: std::rand is never  *)
(* seeded, a process draws what the one before it drew.                    *)
(*                                                                         *)
(* A temporary name is a name like any other: it may lie in the upload     *)
(* directory, and a request may be about it.  Which requests are made, and *)
(* which of their targets are temporary names, are parameters.             *)
(*                                                                         *)
(* Which bytes are written of a body is in BodyReader; here a file is      *)
(* known to be the body or not.  A target that is a directory is not       *)
(* modelled.                                                               *)
(***************************************************************************)
EXTENDS Integers, FiniteSets

CONSTANTS
    Request,            \* requests, each made once
    MethodOf(_),        \* "PUT", "POST", "DELETE", "GET"
    TargetOf(_),        \* the file a request is about
    Target,             \* names that requests are about
    Base(_),            \* client_body_temp_path with Path::notdir of a target
    Temp(_, _),         \* a name with ".", the n-th random string and ".tmp" behind it
    Size,               \* units of a body
    MaxTries,           \* 100
    MaxDraws, MaxKills, MaxCleaned, \* bounds of the model
    MaxBefore,          \* temporary files an earlier process may have left
    None

Old == "old"                    \* what was at a target before

Bases == Target \cup {Base(p) : p \in Target}
Temporary == {Temp(b, n) : b \in Bases, n \in 1 .. MaxDraws}
Name == Target \cup Temporary

ASSUME UploadsAssumption ==
    /\ Size \in Nat \ {0} /\ MaxTries \in Nat \ {0} /\ MaxDraws \in Nat
    /\ MaxKills \in Nat /\ MaxCleaned \in Nat /\ MaxBefore \in 0 .. MaxDraws
    /\ \A r \in Request : TargetOf(r) \in Target
    /\ Old \notin Request /\ None \notin Request \cup {Old} \cup Name /\ None # 201
    /\ \A b, c \in Bases, m, n \in 1 .. MaxDraws : Temp(b, m) = Temp(c, n) => b = c /\ m = n
    /\ \A p \in Target, n \in 1 .. MaxDraws : Temp(p, n) # p /\ Temp(Base(p), n) # p

Upload == {r \in Request : MethodOf(r) \in {"PUT", "POST"}}

VARIABLES
    hasTempPath,    \* client_body_temp_path is set
    place,          \* what is wrong with the directories, or "fine"
    draws,          \* calls of ft::generateRandomString in this process
    file,           \* name -> the file it points to, or None
    written,        \* units of an upload that were written
    garbled,        \* uploads whose file is not their body
    state,          \* where a request is
    tmp,            \* _tmpFilename, or None
    status,         \* status code of a request, or None
    found,          \* the file a GET has opened, or None
    kills,          \* how often the process was killed
    cleaned,        \* uploads whose temporary file another program removed
    taken           \* history: what was at its target when an upload began to save

disk == <<file, written, garbled, cleaned>>
requests == <<state, tmp, status, found, taken>>
settings == <<hasTempPath, place>>
vars == <<settings, draws, disk, requests, kills>>

Places == {"fine", "missing", "noDirectory", "readOnly", "tempUnfit", "noUploadPath"}
Saving == {"remove", "rename", "cleanup"}
States == {"new", "body", "answered", "gone", "left", "died"} \cup Saving

TypeOK ==
    /\ hasTempPath \in BOOLEAN /\ place \in Places
    /\ draws \in 0 .. MaxDraws /\ kills \in 0 .. MaxKills
    /\ file \in [Name -> Upload \cup {Old, None}]
    /\ written \in [Upload -> 0 .. Size] /\ garbled \subseteq Upload
    /\ state \in [Request -> States]
    /\ tmp \in [Request -> Temporary \cup {None}]
    /\ status \in [Request -> {200, 201, 204, 403, 404, 405, 409, 500, None}]
    /\ found \in [Request -> Upload \cup {Old, None}]
    /\ cleaned \subseteq Upload
    /\ taken \in [Upload -> Upload \cup {Old, None}]
    /\ \A r, q \in Request : state[r] \in Saving /\ state[q] \in Saving => r = q

Init ==
    /\ hasTempPath \in BOOLEAN /\ place \in Places
    /\ place = "tempUnfit" => hasTempPath
    /\ draws = 0 /\ kills = 0 /\ cleaned = {} /\ garbled = {}
    /\ \E there \in SUBSET Target, before \in 0 .. MaxBefore :
          /\ place \in {"missing", "noDirectory"} => there = {} /\ before = 0
          /\ LET left == {Temp(b, n) : b \in Bases, n \in 1 .. before}
             IN file = [n \in Name |-> IF n \in there \cup left THEN Old ELSE None]
    /\ taken = [r \in Upload |-> None]
    /\ written = [r \in Upload |-> 0]
    /\ state = [r \in Request |-> "new"]
    /\ tmp = [r \in Request |-> None]
    /\ status = [r \in Request |-> None]
    /\ found = [r \in Request |-> None]

(* One thread: a handler runs to its end before the next. *)
Anytime == TRUE
Free == \A r \in Request : state[r] \notin Saving
Handled(r, from) == Free /\ r \in Request /\ state[r] = from

Decides(r, code, next) ==
    /\ status' = [status EXCEPT ![r] = code]
    /\ state' = [state EXCEPT ![r] = next]

-----------------------------------------------------------------------------
(* Temporary files. *)

(* _generateFilename: the first name that is not in use, of at most        *)
(* MaxTries drawn.                                                         *)
TempName(r, n) == Temp(IF hasTempPath THEN Base(TargetOf(r)) ELSE TargetOf(r), n)
FirstDraw(r) == draws + 1
NextDraw(r) ==
    LET unused == {n \in draws + 1 .. draws + MaxTries :
                      n <= MaxDraws /\ file[TempName(r, n)] = None}
    IN IF unused = {} THEN None ELSE CHOOSE n \in unused : \A x \in unused : n <= x

(* Where names can be removed and renamed.                                 *)
Writable == place \in {"fine", "tempUnfit", "noUploadPath"}
TempWritable == hasTempPath \/ Writable

(* What the checks of processing() say of the directories; a refused       *)
(* upload and one whose file cannot be opened are answered at once.        *)
Refused ==
    CASE place = "noUploadPath" -> {405}
      [] place = "missing" -> {404}
      [] place = "noDirectory" -> {409}
      [] place = "readOnly" -> {403}
      [] place = "tempUnfit" -> {500}
      [] OTHER -> {}

RefuseUpload(r) ==
    /\ r \in Upload /\ Handled(r, "new")
    /\ \E code \in Refused : Decides(r, code, "answered")
    /\ UNCHANGED <<settings, draws, disk, tmp, found, taken, kills>>

OpenFile(r) ==
    /\ r \in Upload /\ Handled(r, "new") /\ Refused = {}
    /\ draws + MaxTries <= MaxDraws
    /\ IF NextDraw(r) = None
       THEN /\ Decides(r, 500, "answered") /\ draws' = draws + MaxTries
            /\ UNCHANGED <<disk, tmp>>
       ELSE /\ draws' = NextDraw(r) /\ tmp' = [tmp EXCEPT ![r] = TempName(r, NextDraw(r))]
            /\ \/ /\ state' = [state EXCEPT ![r] = "body"]
                  /\ file' = [file EXCEPT ![tmp'[r]] = r]
                  /\ UNCHANGED <<status, written, garbled, cleaned>>
               \/ Decides(r, 500, "answered") /\ UNCHANGED disk
    /\ UNCHANGED <<settings, found, taken, kills>>

(* A piece of k units of the body; with the last one _saveFile closes the  *)
(* file.  The status is 201 until a call fails.  _writeChunk writes as     *)
(* many units as are announced, of the body or of its chunk, whatever the  *)
(* buffer holds, and nothing looks at whether the stream could write.      *)
Complete(r, k) == written[r] + k = Size

WriteBody(r) ==
    /\ r \in Upload /\ Handled(r, "body")
    /\ \E announced \in 1 .. Size - written[r], stored \in BOOLEAN : \E k \in 1 .. announced :
          /\ written' = [written EXCEPT ![r] = @ + k]
          /\ garbled' = IF stored /\ k = announced THEN garbled ELSE garbled \cup {r}
          /\ IF Complete(r, k) THEN Decides(r, 201, "remove") ELSE UNCHANGED <<state, status>>
    /\ UNCHANGED <<settings, draws, file, cleaned, tmp, found, taken, kills>>

Fails(r, ok) == IF ok THEN status[r] ELSE 500

(* remove(_path) if there is something. *)
RemoveTarget(r) ==
    /\ r \in Upload /\ state[r] = "remove"
    /\ LET p == TargetOf(r)
           ok == file[p] = None \/ Writable
       IN /\ taken' = [taken EXCEPT ![r] = file[p]]
          /\ file' = IF ok THEN [file EXCEPT ![p] = None] ELSE file
          /\ Decides(r, Fails(r, ok), "rename")
    /\ UNCHANGED <<settings, draws, written, garbled, cleaned, tmp, found, kills>>

(* rename(_tmpFilename, _path), whatever remove() has said. *)
RenameIgnored(r, ok) == status[r]
Renamed(r, ok) == Fails(r, ok)
RenameTemp(r) ==
    /\ r \in Upload /\ state[r] = "rename"
    /\ LET ok == file[tmp[r]] # None /\ Writable
       IN /\ file' = IF ok THEN [file EXCEPT ![TargetOf(r)] = file[tmp[r]], ![tmp[r]] = None]
                           ELSE file
          /\ Decides(r, Renamed(r, ok), "cleanup")
    /\ taken' = [taken EXCEPT ![r] = None]
    /\ UNCHANGED <<settings, draws, written, garbled, cleaned, tmp, found, kills>>

TempRemoved(r) == IF TempWritable THEN [file EXCEPT ![tmp[r]] = None] ELSE file

RemoveTemp(r) ==
    /\ r \in Upload /\ state[r] = "cleanup"
    /\ file' = TempRemoved(r)
    /\ state' = [state EXCEPT ![r] = "answered"]
    /\ UNCHANGED <<settings, draws, written, garbled, cleaned, tmp, status, found, taken, kills>>

(* The request is deleted with its client: its response is sent, or the    *)
(* client is late or hung up, or its body was refused.  ~RequestPUT        *)
(* removes the temporary file; RequestPOST has nothing of the kind.        *)
NothingRemoved(r) == file
Destroyed(r) == IF MethodOf(r) = "PUT" /\ tmp[r] # None THEN TempRemoved(r) ELSE file

DestroyRequest(r) ==
    /\ Free /\ r \in Upload /\ state[r] \in {"body", "answered"}
    /\ file' = Destroyed(r)
    /\ state' = [state EXCEPT ![r] = "gone"]
    /\ UNCHANGED <<settings, draws, written, garbled, cleaned, tmp, status, found, taken, kills>>

-----------------------------------------------------------------------------
(* DELETE and GET. *)

Delete(r) ==
    /\ MethodOf(r) = "DELETE" /\ Handled(r, "new")
    /\ LET p == TargetOf(r)
       IN \/ file[p] = None /\ Decides(r, 404, "answered") /\ UNCHANGED file
          \/ file[p] # None /\ Decides(r, 403, "answered") /\ UNCHANGED file
          \/ /\ file[p] # None /\ Writable
             /\ Decides(r, 204, "answered") /\ file' = [file EXCEPT ![p] = None]
          \/ file[p] # None /\ ~Writable /\ Decides(r, 500, "answered") /\ UNCHANGED file
    /\ UNCHANGED <<settings, draws, written, garbled, cleaned, tmp, found, taken, kills>>

(* processing() and _openFile of RequestGET; Content-Length is the size of *)
(* the file opened.                                                        *)
Get(r) ==
    /\ MethodOf(r) = "GET" /\ Handled(r, "new")
    /\ LET p == TargetOf(r)
       IN IF file[p] = None
          THEN Decides(r, 404, "answered") /\ UNCHANGED found
          ELSE \/ Decides(r, 200, "answered") /\ found' = [found EXCEPT ![r] = file[p]]
               \/ \E code \in {403, 500} : Decides(r, code, "answered") /\ UNCHANGED found
    /\ UNCHANGED <<settings, draws, disk, tmp, taken, kills>>

-----------------------------------------------------------------------------
(* The world. *)

(* The process is killed and started again, with requests that have not    *)
(* come to the end of the rename ("left") or have ("died").                *)
Kill ==
    /\ kills < MaxKills /\ kills' = kills + 1
    /\ draws' = 0
    /\ state' = [r \in Request |->
          IF state[r] \in {"body", "remove", "rename"} THEN "left"
          ELSE IF state[r] \in {"cleanup", "answered"} THEN "died" ELSE state[r]]
    /\ UNCHANGED <<settings, disk, tmp, status, found, taken>>

(* The upload directory becomes read-only. *)
Locked == /\ place = "fine" /\ place' = "readOnly"
          /\ UNCHANGED <<hasTempPath, draws, disk, requests, kills>>

(* Another program clears the temporary file of an upload away. *)
Cleaner(r) ==
    /\ tmp[r] # None /\ file[tmp[r]] = r /\ Cardinality(cleaned) < MaxCleaned
    /\ cleaned' = cleaned \cup {r} /\ file' = [file EXCEPT ![tmp[r]] = None]
    /\ UNCHANGED <<settings, draws, written, garbled, requests, kills>>

Server ==
    \E r \in Request :
       \/ RefuseUpload(r) \/ OpenFile(r) \/ WriteBody(r)
       \/ RemoveTarget(r) \/ RenameTemp(r) \/ RemoveTemp(r)
       \/ DestroyRequest(r) \/ Delete(r) \/ Get(r)

Next == Server \/ Kill \/ Locked \/ \E r \in Upload : Cleaner(r)

Spec == Init /\ [][Next]_vars

-----------------------------------------------------------------------------
(* Properties. *)

(* A PUT, POST or DELETE about this name has begun.                        *)
Reached(n) == \E q \in Request : MethodOf(q) # "GET" /\ TargetOf(q) = n /\ state[q] # "new"

(* _generateFilename: as long as an upload is under way, and when the      *)
(* process has died with it, its temporary file is there and its own: no   *)
(* other upload writes to it or removes it, though every process draws the *)
(* same names.  Only a request about that very name can take it away.      *)
TempIsItsOwn ==
    \A r \in Upload \ cleaned :
       /\ state[r] \in {"body", "remove", "rename", "left"}
       /\ ~Reached(tmp[r])
       => file[tmp[r]] = r

(* ~RequestPUT and _saveFile: a PUT that is over has left no temporary     *)
(* file behind, however it ended, as long as it could remove it; at the    *)
(* most it was the upload of a name that another request used as well.     *)
PutLeavesNothing ==
    \A r \in Upload :
       MethodOf(r) = "PUT" /\ state[r] = "gone" /\ TempWritable =>
          \A n \in Temporary : file[n] = r => Reached(n)

(* The store a client sees: the target of an upload between remove() and   *)
(* rename() still holds what it held.                                      *)
Whole(v) == v = Old \/ v = None \/ written[v] = Size
Torn == "torn"
Seen(v) == IF Whole(v) THEN v ELSE Torn

SavingAt(p) == {r \in Upload : state[r] = "rename" /\ TargetOf(r) = p}
Content ==
    [p \in Target |-> IF SavingAt(p) = {} THEN Seen(file[p])
                      ELSE taken[CHOOSE r \in SavingAt(p) : TRUE]]
Over == {"cleanup", "answered", "gone", "died"}
Outcome == [r \in Request |-> IF state[r] \in Over THEN status[r] ELSE None]
Got == [r \in Request |-> Seen(found[r])]

(* No upload has put its temporary file at a name that requests are about. *)
Trusted == \A r \in Upload : tmp[r] \notin Target
Spoiled == {r \in garbled : state[r] \in Over /\ status[r] = 201}

Store == INSTANCE FileStore WITH
    Version <- Upload \cup {Old}, file <- Content, outcome <- Outcome, got <- Got,
    spoiled <- Spoiled, trusted <- Trusted

(* Uploads, DELETE and GET implement FileStore as long as no request uses  *)
(* the name of a temporary file: whatever clients go away and programs     *)
(* interfere, a path holds a whole file, 201 says that it holds the one    *)
(* written for the upload (which need not be its body), and what one       *)
(* request finds is what the one before it left.                           *)
ImplementsStore == Store!Spec
=============================================================================
