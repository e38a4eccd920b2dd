------------------------------ MODULE MCMemory ------------------------------
(* Two slots compete for the pages.                                        *)
EXTENDS Memory, TLC

Symmetry == Permutations(Proc)

=============================================================================
