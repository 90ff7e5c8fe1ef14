--------------------------- MODULE MCClientSession ---------------------------
(* ClientSession with a few connections, two managers and two ids.          *)
EXTENDS ClientSession, TLC

Symmetry == Permutations(Conns) \cup Permutations(Managers)
=============================================================================
