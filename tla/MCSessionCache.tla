--------------------------- MODULE MCSessionCache ---------------------------
(* Small instances of SessionCache for TLC. *)
EXTENDS SessionCache

\* Two threads, objects or ids can be exchanged for one another.
MCSymmetry == Permutations(Thread) \cup Permutations(Sess) \cup Permutations(Id)
=============================================================================
