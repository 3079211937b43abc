---------------------------- MODULE MCInflights -----------------------------
(* A small instance of Inflights: capacities from none to four, and enough *)
(* indexes to wrap the ring without emptying it.                           *)
EXTENDS Inflights

Capacities == 0..4
Indexes == 1..7
=============================================================================
