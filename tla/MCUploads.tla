------------------------------ MODULE MCUploads ------------------------------
(* Two uploads and a GET that can get in each other's way at one path, and  *)
(* a DELETE of the name that the second draw makes of that path.            *)
EXTENDS Uploads, Sequences, TLC

MCRequest == {"put", "post", "get", "delete"}
MCMethodOf(r) ==
    CASE r = "put" -> "PUT" [] r = "post" -> "POST" [] r = "delete" -> "DELETE" [] r = "get" -> "GET"
MCTargetOf(r) == IF r = "delete" THEN "d/f.2" ELSE "d/f"
MCBase(p) == IF p = "d/f" THEN "t/f" ELSE "t/f.2"
MCTemp(b, n) == b \o "." \o ToString(n)
=============================================================================
