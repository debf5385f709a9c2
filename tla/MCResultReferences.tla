-------------------------- MODULE MCResultReferences --------------------------
(* A small instance of ResultReferences: what a .cfg cannot write.         *)
EXTENDS ResultReferences, TLC

CONSTANTS r1, r2, i1, i2

\* Calls and identifiers are only compared.
Symmetry == Permutations({r1, r2}) \cup Permutations({i1, i2})
=============================================================================
