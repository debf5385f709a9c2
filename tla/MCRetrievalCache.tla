--------------------------- MODULE MCRetrievalCache ---------------------------
(* Small instances of RetrievalCache: what a .cfg cannot write.            *)
EXTENDS RetrievalCache

CONSTANTS a, b   \* two text contents

\* The background refresh of context_pack.
WholeRequests == {[root |-> "repo", scope |-> Files, limit |-> 2, force |-> FALSE]}

\* context_lookup with a path refreshes that path and searches it.
ScopedRequests ==
    {[root |-> "repo", scope |-> Files, limit |-> 2, force |-> FALSE],
     [root |-> "file", scope |-> {1}, limit |-> 5000, force |-> FALSE]}

\* One of the two caches is in use.  Summaries do not look at the sidecar: beside
\* them it is left behind its rows only until the sync.
Searching ==
    \/ fragments # {}
    \/ \E q \in Requesters : request[q].pc \in {"ensure", "gather", "rewrite", "hits", "search"}
Summarising ==
    \/ summaries # {}
    \/ \E q \in Requesters : request[q].file # 0
OneCache ==
    Summarising => ~ Searching /\ (docs = RowTexts \/ \E t \in Threads : job[t].pc = "sync")
=============================================================================
