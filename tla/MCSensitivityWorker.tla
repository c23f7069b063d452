------------------------ MODULE MCSensitivityWorker ------------------------
(* Instances of SensitivityWorker for TLC.                                  *)
EXTENDS SensitivityWorker

CONSTANTS s1, s2, \* two signatures
          Mixed   \* is there a command line without --resume?

Options4 ==
  {[resume |-> TRUE, signature |-> s1, snapshotEvery |-> 1, recycleEvery |-> 0, pressure |-> TRUE],
   [resume |-> TRUE, signature |-> s1, snapshotEvery |-> 2, recycleEvery |-> 2, pressure |-> FALSE],
   [resume |-> TRUE, signature |-> s1, snapshotEvery |-> 5, recycleEvery |-> 0, pressure |-> FALSE],
   [resume |-> TRUE, signature |-> s2, snapshotEvery |-> 2, recycleEvery |-> 1, pressure |-> FALSE]}

Restart ==
  {[resume |-> TRUE, signature |-> s1, snapshotEvery |-> 1, recycleEvery |-> 0, pressure |-> FALSE],
   [resume |-> FALSE, signature |-> s2, snapshotEvery |-> 1, recycleEvery |-> 0, pressure |-> FALSE]}

CommandLines == IF Mixed THEN Restart ELSE Options4
=============================================================================
