----------------------------- MODULE MCRandPool -----------------------------
(* A small instance of RandPool for TLC. *)
EXTENDS RandPool
=============================================================================
