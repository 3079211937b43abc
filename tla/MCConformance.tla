--------------------------- MODULE MCConformance ---------------------------
(* A small instance of Conformance. *)
EXTENDS Conformance

MCHex == ("" :> "") @@ ("A" :> "41")

\* A trace all mutations of which load, one with a single proposal, one
\* without a message to mutate, and one with reads.
MCTraces ==
  {<<"init", "campaign", "persist", "release", "receive", "campaign", "propose", "persist",
     "propose", "advance", "end">>,
   <<"init", "campaign", "persist", "release", "receive", "propose", "persist", "advance", "end">>,
   <<"init", "campaign", "persist", "release", "propose", "persist", "propose", "advance", "end">>,
   <<"init", "campaign", "persist", "release", "propose", "read", "persist", "release", "advance",
     "propose", "read_ready", "apply", "complete_reads", "end">>}
=============================================================================
