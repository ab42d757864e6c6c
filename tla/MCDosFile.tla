------------------------------ MODULE MCDosFile -----------------------------
(* DosFile on a small instance: file objects are interchangeable. *)
EXTENDS DosFile, TLC

Symmetry == Permutations(Objs)
=============================================================================
