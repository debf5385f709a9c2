--------------------------- MODULE MCMetricsStore ---------------------------
(* A small instance of MetricsStore: two packs, two lookups, two warm-ups. *)
EXTENDS MetricsStore

CONSTANTS r1, r2

\* Requests are only compared.
Symmetry == Permutations({r1, r2})

NoFragments == [s \in {"search", "summary"} |-> [hits |-> 0, misses |-> 0]]
PackEvent(ms, hits, misses) ==
    [op |-> "context_pack", elapsed |-> ms, refresh |-> 1, saved |-> ms, deferred |-> 1,
     hit |-> "none", space |-> "search",
     fragments |-> [s \in {"search", "summary"} |-> [hits |-> hits, misses |-> misses]],
     route |-> "code", trigger |-> ""]
LookupEvent(hit) ==
    [op |-> "context_lookup.search", elapsed |-> 1, refresh |-> 0, saved |-> 0,
     deferred |-> 0, hit |-> hit, space |-> "search", fragments |-> NoFragments,
     route |-> "none", trigger |-> ""]
\* The automatic warm-up records the entries it found as fragments.
WarmupEvent(trigger) ==
    [op |-> "context_admin.warmup", elapsed |-> 2, refresh |-> 0, saved |-> 0,
     deferred |-> 0, hit |-> "none", space |-> "search",
     fragments |-> [s \in {"search", "summary"} |->
                       [hits |-> IF trigger = "auto" THEN 1 ELSE 0, misses |-> 0]],
     route |-> "none", trigger |-> trigger]

MCEvents ==
    {PackEvent(1, 0, 1), PackEvent(3, 1, 0)}
    \cup {LookupEvent("hit"), LookupEvent("miss")}
    \cup {WarmupEvent("manual"), WarmupEvent("auto")}
=============================================================================
