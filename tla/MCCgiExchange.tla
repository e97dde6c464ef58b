---------------------------- MODULE MCCgiExchange ----------------------------
(* A body twice as long as what the socket pair holds, and the programs that *)
(* matter: they read first, answer as they read and leave a part, write more *)
(* than the client's socket holds, hang, or end at once.                     *)
EXTENDS CgiExchange

R == "read"
W == "write"
MCPrograms ==
    { <<R, R, R, W>>, <<W, R, W>>, <<W, W, W, W>>, <<R, "hang">>, <<>> }
=============================================================================
