----------------------- MODULE MCOvernightSupervisor -----------------------
(* Instances of OvernightSupervisor for TLC: a preflight that always runs,  *)
(* observations, a calibration that resumes, and an export.                 *)
EXTENDS OvernightSupervisor

\* Everywhere but between Popen and its try, and inside stop_group.
SignalsInTry == {"prepare", "check", "launch", "wait", "finish"}
=============================================================================
