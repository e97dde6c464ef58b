---------------------------- MODULE HttpExchange -----------------------------
(***************************************************************************)
(* What a connection promises its peer, whatever the order of sockets, CGI *)
(* and timers behind it: the peer first waits, then gets one head, then    *)
(* body; a connection the server ends after all was sent has delivered     *)
(* what the head announced; it may instead be cut at any time.  A response *)
(* may be replaced by another one; from then on nothing is promised.       *)
(* Module Connection implements this specification.                        *)
(***************************************************************************)
EXTENDS Naturals

CONSTANTS
    MaxLength,  \* the longest body
    Unknown     \* no length was announced

VARIABLES
    phase,      \* "waiting", "head" (received), "ended", "cut"
    announced,  \* the length the head announced
    received,   \* how much of the body the peer has
    replaced    \* the response was built anew once it could be written

vars == <<phase, announced, received, replaced>>

Init ==
    /\ phase = "waiting"
    /\ announced = Unknown /\ received = 0
    /\ replaced = FALSE

Send(n) == received' = received + n

(* The head, with what fits behind it. *)
SendHead ==
    /\ phase = "waiting" /\ phase' \in {"head", "ended"}
    /\ announced' \in 0 .. MaxLength \cup {Unknown}
    /\ \E n \in 0 .. MaxLength : Send(n)

SendBody ==
    /\ phase = "head" /\ phase' \in {"head", "ended"}
    /\ \E n \in 0 .. MaxLength : Send(n)
    /\ UNCHANGED announced

(* The server ends a connection only when the peer has it all.  Without a  *)
(* head: a CGI failed before it wrote one.                                 *)
End ==
    /\ phase \in {"waiting", "head"} /\ phase' = "ended"
    /\ UNCHANGED <<announced, received>>

Complete == phase' = "ended" /\ announced' # Unknown => received' = announced'

(* Lost, timed out, or a handler failed. *)
Cut ==
    /\ phase \in {"waiting", "head"} /\ phase' = "cut"
    /\ UNCHANGED <<announced, received, replaced>>

Replace ==
    /\ phase \in {"waiting", "head"} /\ replaced' = TRUE
    /\ UNCHANGED <<phase, announced, received>>

AfterReplacing == replaced /\ replaced'

Next ==
    \/ (SendHead \/ SendBody \/ End) /\ Complete /\ UNCHANGED replaced
    \/ Cut
    \/ Replace
    \/ AfterReplacing

Spec == Init /\ [][Next]_vars
=============================================================================
