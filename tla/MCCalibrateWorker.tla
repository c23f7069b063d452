------------------------- MODULE MCCalibrateWorker -------------------------
(* Instances of CalibrateWorker for TLC.                                    *)
EXTENDS CalibrateWorker

CONSTANTS s1, s2, s3, \* settings; s1 and s2 differ in a seed, s3 in the epochs
          Plain       \* the settings of the command lines without --resume

StoredPart(s) == IF s = s2 THEN s1 ELSE s

CommandLines ==
  [resume : {TRUE}, settings : {s1, s2}] \cup [resume : {FALSE}, settings : Plain]
=============================================================================
