---------------------------- MODULE MCIndexRefresh ----------------------------
(* Small instances of IndexRefresh: what a .cfg cannot write.              *)
EXTENDS IndexRefresh, TLC

CONSTANTS a, b, t1, t2   \* two text contents, two threads

\* Contents are only compared, and so are threads.
TextSymmetry == Permutations({a, b})
OverlapSymmetry == Permutations({a, b}) \cup Permutations({t1, t2})

Repo(n, force) == [root |-> "repo", scope |-> Files, limit |-> n, force |-> force]
Dir(S, n) == [root |-> "dir", scope |-> S, limit |-> n, force |-> FALSE]
File(f) == [root |-> "file", scope |-> {f}, limit |-> 1, force |-> FALSE]

\* refresh_if_needed; an admin refresh with a truncating max_files; an explicit
\* file of context_pack.
SerialRequests == {Repo(2, FALSE), Repo(1, TRUE), File(1)}

\* Forced refreshes of the repository and of the single file.
OverlapRequests == {Repo(1, TRUE), File(1)}

\* Only refresh_if_needed, as context_lookup calls it.
CheckRequests == {Repo(1, FALSE)}

\* context_pack refreshes an explicit directory with max_files=1.
ExplicitDirRequests == {Repo(2, FALSE), Dir({1, 2}, 1)}

\* refresh_if_needed and the truncating refresh alone.
SkipRequests == {Repo(2, FALSE), Repo(1, TRUE)}

=============================================================================
