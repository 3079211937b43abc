--------------------------- MODULE MCReadService ---------------------------
(* A small instance of the read service for TLC. *)
EXTENDS ReadService, TLC
Symmetry == Permutations(Server) \cup Permutations(Request)
============================================================================
