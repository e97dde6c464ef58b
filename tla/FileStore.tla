------------------------------- MODULE FileStore -------------------------------
(***************************************************************************)
(* What uploads, DELETE and GET promise to a client that knows nothing of  *)
(* temporary files: a path holds nothing or one whole version, and every   *)
(* request takes effect at once, at the moment its status is decided.  An  *)
(* upload that fails, or that the process dies with, may take away what    *)
(* was at its path, but never leaves a part of itself there.               *)
(*                                                                         *)
(* Two things are not promised.  A version need not be the body of its     *)
(* upload, though the upload was answered with 201.  And all ends when a   *)
(* temporary file gets a name that requests are about.                     *)
(***************************************************************************)
CONSTANTS
    Request,
    Target,     \* paths
    Version,    \* what a path may hold: an upload, or what was there before
    None,
    MethodOf(_),
    TargetOf(_)

VARIABLES
    file,       \* Target -> Version, or None
    outcome,    \* Request -> status, or None
    got,        \* what a GET found, or None
    spoiled,    \* uploads stored with other bytes than their body's
    trusted     \* temporary files have names of their own

vars == <<file, outcome, got, spoiled, trusted>>

Uploads == {r \in Request : MethodOf(r) \in {"PUT", "POST"}}

Init ==
    /\ file \in [Target -> Version \cup {None}]
    /\ outcome = [r \in Request |-> None]
    /\ got = [r \in Request |-> None]
    /\ spoiled = {} /\ trusted = TRUE

Decided(r, status) == outcome[r] = None /\ outcome' = [outcome EXCEPT ![r] = status]
Holds(p, v) == file' = [file EXCEPT ![p] = v]

Store(r) ==
    /\ r \in Uploads /\ Decided(r, 201) /\ Holds(TargetOf(r), r)
    /\ spoiled' \in {spoiled, spoiled \cup {r}}
    /\ UNCHANGED got

Refuse(r) ==
    /\ \E status \in {403, 404, 405, 409, 500} : Decided(r, status)
    /\ UNCHANGED <<file, got, spoiled>>

Spoil(r) ==
    /\ r \in Uploads /\ Decided(r, 500) /\ Holds(TargetOf(r), None)
    /\ UNCHANGED <<got, spoiled>>

(* The process dies with an upload under way. *)
Die(r) ==
    /\ r \in Uploads /\ outcome[r] = None /\ Holds(TargetOf(r), None)
    /\ UNCHANGED <<outcome, got, spoiled>>

Delete(r) ==
    /\ MethodOf(r) = "DELETE" /\ file[TargetOf(r)] # None
    /\ Decided(r, 204) /\ Holds(TargetOf(r), None)
    /\ UNCHANGED <<got, spoiled>>

Read(r) ==
    /\ MethodOf(r) = "GET" /\ file[TargetOf(r)] # None
    /\ Decided(r, 200) /\ got' = [got EXCEPT ![r] = file[TargetOf(r)]]
    /\ UNCHANGED <<file, spoiled>>

Step == \E r \in Request : Store(r) \/ Refuse(r) \/ Spoil(r) \/ Die(r) \/ Delete(r) \/ Read(r)

Next == (Step /\ UNCHANGED trusted) \/ trusted' = FALSE

Spec == Init /\ [][Next]_vars
=============================================================================
