--------------------------- MODULE MCConfiguration ---------------------------
(* A setting of each kind and the one whose width counts.                    *)
EXTENDS Configuration

MCValue(s) == CASE s = "root" -> {1, 2} [] s = "limit" -> {6, 7} [] s = "index" -> {1}
=============================================================================
