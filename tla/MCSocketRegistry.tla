--------------------------- MODULE MCSocketRegistry ---------------------------
(* SocketRegistry with three threads that call for two clients.             *)
EXTENDS SocketRegistry, TLC

Symmetry == Permutations(Threads) \cup Permutations(Ids)
=============================================================================
