---------------------------- MODULE MCSearchSidecar ----------------------------
(* Small instances of SearchSidecar: what a .cfg cannot write.             *)
EXTENDS SearchSidecar, TLC

CONSTANTS f1, f2, a, b, t1, t2

\* Files, contents and threads are only compared.
SidecarSymmetry ==
    Permutations({f1, f2}) \cup Permutations({a, b}) \cup Permutations({t1, t2})
FaultSymmetry == Permutations({f1, f2}) \cup Permutations({a, b})

=============================================================================
