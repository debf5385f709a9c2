--------------------------- MODULE MCBackgroundJobs ---------------------------
(* A small instance of BackgroundJobs: what a .cfg cannot write.           *)
EXTENDS BackgroundJobs, TLC

CONSTANTS refresh, prune   \* two kinds of job of one project

\* One kind is throttled, the other is not.
TwoIntervals == (refresh :> 2) @@ (prune :> 0)

=============================================================================
