------------------------------- MODULE MCWal -------------------------------
(* A small instance of the write-ahead log for TLC. *)
EXTENDS Wal
============================================================================
