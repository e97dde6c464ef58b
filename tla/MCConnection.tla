---------------------------- MODULE MCConnection -----------------------------
(* Connection with the kinds of requests a run asks about. *)
EXTENDS Connection

GetRequests == {"refused", "redirect", "file", "listing", "getError", "getCGI", "getForkFails", "head",
                "delete"}
BodyRequests == {"badBody", "uploadError", "upload", "postCGI", "postForkFails"}
AllRequests == GetRequests \cup BodyRequests \cup {"putScript"}
=============================================================================
