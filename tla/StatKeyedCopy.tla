---------------------------- MODULE StatKeyedCopy ----------------------------
(***************************************************************************)
(* What the repository index promises its readers, with no refresh         *)
(* protocol in sight: `copy` holds, for some files, a version of the text  *)
(* under the stat (size and mtime, here one stamp) it was filed under.     *)
(* The copy of a file may be missing or out of date, but a copy filed      *)
(* under the file's present stat is the file's present text, so that one   *)
(* stat decides whether the copy may be served.                            *)
(***************************************************************************)
EXTENDS Naturals

CONSTANTS Files,    \* repository-relative paths
          Texts,    \* file contents
          None      \* no content

VARIABLES clock,    \* the last stamp given to an edit
          tree,     \* the working tree, file by file
          copy      \* the indexed version, file by file

vars == <<clock, tree, copy>>

Version == [stamp: Nat, text: Texts \cup {None}]
Nothing == [stamp |-> 0, text |-> None]

\* v may be kept as a version of f: it is not newer than the clock, and if it
\* carries the stamp f has now it also carries the text f has now.
Genuine(v, f) ==
    v # Nothing => /\ v.stamp \in 1 .. clock
                   /\ v.stamp = tree[f].stamp => v.text = tree[f].text

Init ==
    /\ clock = 0
    /\ tree = [f \in Files |-> Nothing]
    /\ copy = [f \in Files |-> Nothing]

Edit(f) ==
    /\ clock' = clock + 1
    /\ \E x \in Texts : tree' = [tree EXCEPT ![f] = [stamp |-> clock + 1, text |-> x]]
    /\ UNCHANGED copy

Remove(f) ==
    /\ tree' = [tree EXCEPT ![f] = Nothing]
    /\ UNCHANGED <<clock, copy>>

\* One atomic replacement of any part of the copy.
Refile ==
    /\ copy' \in [Files -> Version]
    /\ \A f \in Files : copy'[f] = copy[f] \/ Genuine(copy'[f], f)
    /\ UNCHANGED <<clock, tree>>

Next == Refile \/ \E f \in Files : Edit(f) \/ Remove(f)

Spec == Init /\ [][Next]_vars

=============================================================================
