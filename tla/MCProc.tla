------------------------------- MODULE MCProc -------------------------------
(* Two harts, three slots (init and two children), up to four pids.        *)
EXTENDS Proc, TLC

Symmetry == Permutations(CPU)

=============================================================================
