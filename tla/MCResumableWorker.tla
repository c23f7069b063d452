------------------------- MODULE MCResumableWorker -------------------------
(* Instance of ResumableWorker for TLC.                                     *)
EXTENDS ResumableWorker

CONSTANTS s1, s2 \* two signatures

\* Two workers of the same settings, one that recycles under memory pressure and
\* commits rarely, one that recycles by count; and one of other settings.
CommandLines ==
  {[resume |-> TRUE, signature |-> s1, snapshotEvery |-> 2, recycleEvery |-> 0, pressure |-> TRUE],
   [resume |-> TRUE, signature |-> s1, snapshotEvery |-> 1, recycleEvery |-> 2, pressure |-> FALSE],
   [resume |-> TRUE, signature |-> s2, snapshotEvery |-> 1, recycleEvery |-> 1, pressure |-> FALSE]}
=============================================================================
