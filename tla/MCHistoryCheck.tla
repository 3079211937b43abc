--------------------------- MODULE MCHistoryCheck ---------------------------
(* A small instance of HistoryCheck. *)
EXTENDS HistoryCheck

MCHex == ("" :> "") @@ ("A" :> "41") @@ ("B" :> "42")

\* Nodes differ only by name, and so do the identities clients choose.
Renaming == Permutations(Node) \cup Permutations(Context)
=============================================================================
