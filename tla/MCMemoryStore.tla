--------------------------- MODULE MCMemoryStore ---------------------------
(* Two writers on one project.  Nothing tells one writer from the other, so  *)
(* they may be exchanged.                                                    *)
EXTENDS MemoryStore, TLC

Symmetry == Permutations(Writers)
=============================================================================
