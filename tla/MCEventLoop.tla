----------------------------- MODULE MCEventLoop -----------------------------
(* EventLoop with one or two listening sockets for TLC. *)
EXTENDS EventLoop, TLC

(* Clients and the descriptors that are not listening sockets are          *)
(* interchangeable: no operator of EventLoop orders or compares them.      *)
Symmetric == Permutations(ClientId) \cup Permutations(Fd \ Listener)
=============================================================================
