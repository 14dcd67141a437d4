------------------------------- MODULE MCKpm -------------------------------
(* Small instances of Kpm: two CPUs. *)
EXTENDS Kpm, TLC

CONSTANTS c1, c2

MCCPUs == {c1, c2}
Symmetry == Permutations(MCCPUs)
=============================================================================
