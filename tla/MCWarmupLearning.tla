--------------------------- MODULE MCWarmupLearning ---------------------------
(* A small instance of WarmupLearning: what a .cfg cannot write.           *)
EXTENDS WarmupLearning, TLC

CONSTANTS p1, p2   \* the packers

\* Of the counters: two packers, three packs, edits and time; nothing is found.
NothingFound ==
    /\ manuals = 0
    /\ prompt # None => prompt.result = "none"
    /\ \A t \in Terms : ~ stats[t].results

\* Of the statistics: one packer and a manual warm-up, two packs, any results.
OnePackerAtATime ==
    /\ pack[p2].pc = "idle"
    /\ truth.observed <= 2 /\ signature = 0 /\ now = 0

\* The instance is the union of the two.
EitherKind == NothingFound \/ OnePackerAtATime
=============================================================================
