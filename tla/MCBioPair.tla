----------------------------- MODULE MCBioPair -----------------------------
(* Small instances of BioPair for TLC. *)
EXTENDS BioPair, TLC

\* The two values of a byte can be exchanged for one another.
MCSymmetry == Permutations(Byte)
=============================================================================
