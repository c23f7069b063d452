---------------------- MODULE CalibrateWorker_proofs ----------------------
(***************************************************************************)
(* One output, one set of settings: what the calibration worker keeps, for *)
(* every number of processes and sites and every set of command lines; and *)
(* what holds in addition when every worker resumes.                       *)
(***************************************************************************)
EXTENDS CalibrateWorker, TLAPS

Commanded == \A p \in Process : pc[p] # "down" => opt[p] \in Launch

LockHeld == \A p \in Process : pc[p] \notin {"down", "boot"} => lock = p

\* The .parts directory holds sites of one set of settings, config.json's, so
\* that no worker that has passed the identity check meets a foreign shard.
OwnShards == \A i \in Site : shard[i] # None => shard[i] = identity

\* A process past the checks against the files.
Consistent(p) ==
  /\ opt[p].resume => identity = opt[p].settings
  /\ \A i \in Site : entries[p][i] # None => entries[p][i] = opt[p].settings
  /\ pc[p] \in {"load", "recover", "clean"} => opt[p].resume
  /\ pc[p] = "calibrate" /\ opt[p].resume => entries[p] = shard
  /\ pc[p] \in {"report", "recover", "clean"} => output # None
  /\ pc[p] = "report" => output = Made(opt[p].settings)
  /\ pc[p] = "clean" => report = opt[p].settings

Past == Working \ {"check"}

InStep == \A p \in Process : pc[p] \in Past => Consistent(p)

\* A process that has not begun to calibrate has no entries.
Blank == \A p \in Process : pc[p] \in {"down", "boot", "check", "load"} => entries[p] = NoEntry

IInv == TypeOK /\ Commanded /\ LockHeld /\ Blank /\ OwnShards /\ InStep /\ OutputUniform

\* Without plain runs the output is always that of config.json.
OutputIsIdentity == output # None => identity # None /\ output = Made(identity)

-----------------------------------------------------------------------------
LEMMA InitInv == Init => IInv /\ OutputIsIdentity
BY CalibrateAssumption
DEF Init, IInv, TypeOK, Commanded, LockHeld, Blank, OwnShards, InStep, OutputUniform,
    OutputIsIdentity, NoEntry, Working, Past

\* While p is past the lock nobody else is working.
LEMMA Alone ==
  ASSUME IInv, NEW p \in Process, pc[p] \notin {"down", "boot"},
         NEW q \in Process, q # p
  PROVE  pc[q] \in {"down", "boot"} /\ pc[q] \notin Past
BY DEF IInv, LockHeld, Past, Working

LEMMA ExitInv ==
  ASSUME IInv, NEW p \in Process, NEW c \in {0, 1}, Exit(p, c),
         UNCHANGED <<identity, shard, output>>,
         UNCHANGED report \/ (pc[p] \notin {"down", "boot"} /\ report' \in Settings)
  PROVE  IInv'
<1> USE DEF Go
<1>1. TypeOK'
  BY CalibrateAssumption DEF IInv, TypeOK, Exit, Working, NoEntry
<1>2. Commanded' /\ LockHeld' /\ Blank'
  BY DEF IInv, TypeOK, Commanded, LockHeld, Blank, Exit
<1>3. OwnShards' /\ OutputUniform'
  BY DEF IInv, OwnShards, OutputUniform
<1>4. InStep'
  <2> SUFFICES ASSUME NEW q \in Process, pc'[q] \in Past
               PROVE  Consistent(q)'
    BY DEF InStep
  <2>1. q # p /\ pc'[q] = pc[q] /\ opt'[q] = opt[q] /\ entries'[q] = entries[q]
    BY DEF IInv, TypeOK, Exit, Past, Working
  <2>2. Consistent(q)
    BY <2>1 DEF IInv, InStep
  <2>3. UNCHANGED report
    BY <2>1, Alone
  <2>. QED
    BY <2>1, <2>2, <2>3 DEF Consistent
<1>. QED
  BY <1>1, <1>2, <1>3, <1>4 DEF IInv

LEMMA StartInv ==
  ASSUME IInv, NEW p \in Process, NEW o \in Launch, Start(p, o)
  PROVE  IInv'
<1> USE DEF Go, Start, files
<1>1. TypeOK'
  BY DEF IInv, TypeOK
<1>2. Commanded' /\ LockHeld' /\ Blank'
  BY DEF IInv, TypeOK, Commanded, LockHeld, Blank
<1>3. OwnShards' /\ OutputUniform' /\ InStep'
  BY DEF IInv, TypeOK, OwnShards, OutputUniform, InStep, Consistent, Past, Working
<1>. QED
  BY <1>1, <1>2, <1>3 DEF IInv

LEMMA AcquireInv ==
  ASSUME IInv, NEW p \in Process, Acquire(p)
  PROVE  IInv'
<1> USE DEF Go, Acquire, files
<1>1. TypeOK'
  BY DEF IInv, TypeOK, Working
<1>2. Commanded' /\ LockHeld' /\ Blank'
  BY CalibrateAssumption DEF IInv, TypeOK, Commanded, LockHeld, Blank
<1>3. OwnShards' /\ OutputUniform' /\ InStep'
  BY DEF IInv, TypeOK, OwnShards, OutputUniform, InStep, Consistent, Past, Working
<1>. QED
  BY <1>1, <1>2, <1>3 DEF IInv

-----------------------------------------------------------------------------
\* A step of p past the lock leaves the working processes to p.
LEMMA OnlyMe ==
  ASSUME IInv, NEW p \in Process, pc[p] \notin {"down", "boot"},
         NEW there, pc' = [pc EXCEPT ![p] = there],
         there \in Past => Consistent(p)'
  PROVE  InStep'
<1> SUFFICES ASSUME NEW q \in Process, pc'[q] \in Past
             PROVE  Consistent(q)'
  BY DEF InStep
<1>1. CASE q = p
  BY <1>1 DEF IInv, TypeOK
<1>2. CASE q # p
  BY <1>2, Alone DEF IInv, TypeOK, Past
<1>. QED
  BY <1>1, <1>2

LEMMA PassCheckInv ==
  ASSUME IInv, NEW p \in Process, PassCheck(p)
  PROVE  IInv'
<1> DEFINE there == IF FindsOutput(p) THEN "recover"
                    ELSE IF opt[p].resume THEN "load" ELSE "calibrate"
<1> USE DEF Go, PassCheck
<1>0. opt[p] \in Launch /\ opt[p].settings \in Settings /\ opt[p].resume \in BOOLEAN
  BY CalibrateAssumption DEF IInv, Commanded
<1>1. TypeOK'
  BY <1>0 DEF IInv, TypeOK, Working
<1>2. Commanded' /\ LockHeld' /\ Blank'
  BY DEF IInv, TypeOK, Commanded, LockHeld, Blank
<1>3. OwnShards'
  BY DEF IInv, OwnShards, ForeignIdentity
<1>4. OutputUniform'
  BY DEF IInv, OutputUniform
<1>5. entries[p] = NoEntry
  BY DEF IInv, Blank
<1>6. Consistent(p)'
  <2>1. (opt[p].resume => identity = opt[p].settings)'
    OBVIOUS
  <2>2. (\A i \in Site : entries[p][i] # None => entries[p][i] = opt[p].settings)'
    BY <1>5 DEF NoEntry
  <2>3. pc'[p] = there
    BY DEF IInv, TypeOK
  <2>4. (pc[p] \in {"load", "recover", "clean"} => opt[p].resume)'
    BY <2>3 DEF FindsOutput
  <2>5. (pc[p] = "calibrate" /\ opt[p].resume => entries[p] = shard)'
    BY <2>3
  <2>6. (pc[p] \in {"report", "recover", "clean"} => output # None)'
    BY <2>3 DEF FindsOutput
  <2>7. (pc[p] = "report" => output = Made(opt[p].settings))'
        /\ (pc[p] = "clean" => report = opt[p].settings)'
    BY <2>3
  <2>. QED
    BY <2>1, <2>2, <2>4, <2>5, <2>6, <2>7 DEF Consistent
<1>7. InStep'
  BY <1>6, OnlyMe
<1>. QED
  BY <1>1, <1>2, <1>3, <1>4, <1>7 DEF IInv

LEMMA LoadShardsInv ==
  ASSUME IInv, NEW p \in Process, LoadShards(p)
  PROVE  IInv'
<1> USE DEF Go, LoadShards, files
<1>1. TypeOK'
  BY DEF IInv, TypeOK, Working
<1>2. Commanded' /\ LockHeld' /\ Blank'
  BY DEF IInv, TypeOK, Commanded, LockHeld, Blank
<1>3. OwnShards' /\ OutputUniform'
  BY DEF IInv, OwnShards, OutputUniform
<1>4. Consistent(p)
  BY DEF IInv, InStep, Past, Working
<1>5. entries'[p] = shard /\ pc'[p] = "calibrate"
  BY DEF IInv, TypeOK
<1>6. Consistent(p)'
  BY <1>4, <1>5 DEF Consistent, IInv, OwnShards
<1>7. InStep'
  BY <1>6, OnlyMe
<1>. QED
  BY <1>1, <1>2, <1>3, <1>7 DEF IInv

LEMMA CalibrateSiteInv ==
  ASSUME IInv, NEW p \in Process, NEW i \in Site, CalibrateSite(p, i)
  PROVE  IInv'
<1> USE DEF CalibrateSite
<1>0. opt[p] \in Launch /\ opt[p].settings \in Settings /\ opt[p].resume \in BOOLEAN
  BY CalibrateAssumption DEF IInv, Commanded
<1>1. TypeOK'
  BY <1>0 DEF IInv, TypeOK
<1>2. Commanded' /\ LockHeld' /\ Blank'
  BY DEF IInv, TypeOK, Commanded, LockHeld, Blank
<1>3. OutputUniform'
  BY DEF IInv, OutputUniform
<1>4. Consistent(p)
  BY DEF IInv, InStep, Past, Working
<1>5. OwnShards'
  BY <1>4 DEF IInv, TypeOK, OwnShards, Consistent
<1>6. Consistent(p)'
  <2>1. (\A j \in Site : entries[p][j] # None => entries[p][j] = opt[p].settings)'
    BY <1>4 DEF Consistent, IInv, TypeOK
  <2>2. (opt[p].resume => entries[p] = shard)'
    BY <1>4 DEF Consistent, IInv, TypeOK
  <2>. QED
    BY <1>4, <2>1, <2>2 DEF Consistent
<1>7. pc' = [pc EXCEPT ![p] = "calibrate"]
  BY DEF IInv, TypeOK
<1>8. InStep'
  BY <1>6, <1>7, OnlyMe
<1>. QED
  BY <1>1, <1>2, <1>3, <1>5, <1>8 DEF IInv

LEMMA SavedIsMine ==
  ASSUME IInv, NEW p \in Process, SaveOutput(p)
  PROVE  output' = Made(opt[p].settings) /\ output' # None /\ output' \in [Site -> Settings]
<1>1. Consistent(p)
  BY DEF IInv, InStep, Past, Working, SaveOutput
<1>2. \A i \in Site : entries[p][i] = opt[p].settings
  BY <1>1 DEF Consistent, SaveOutput, Finished
<1>3. entries[p] = Made(opt[p].settings)
  BY <1>2 DEF IInv, TypeOK, Made
<1>4. opt[p].settings \in Settings
  BY CalibrateAssumption DEF IInv, Commanded, SaveOutput
<1>. QED
  BY <1>3, <1>4, CalibrateAssumption DEF SaveOutput, Made

LEMMA SaveOutputInv ==
  ASSUME IInv, NEW p \in Process, SaveOutput(p)
  PROVE  IInv'
<1> USE DEF Go, SaveOutput
<1>1. TypeOK'
  BY SavedIsMine DEF IInv, TypeOK, Working
<1>2. Commanded' /\ LockHeld' /\ Blank'
  BY DEF IInv, TypeOK, Commanded, LockHeld, Blank
<1>3. OwnShards'
  BY DEF IInv, OwnShards
<1>4. opt[p].settings \in Settings
  BY CalibrateAssumption DEF IInv, Commanded
<1>5. OutputUniform'
  BY <1>4, SavedIsMine DEF OutputUniform, Made
<1>6. Consistent(p)
  BY DEF IInv, InStep, Past, Working
<1>7. Consistent(p)'
  BY <1>6, SavedIsMine DEF Consistent, IInv, TypeOK, Made
<1>8. InStep'
  BY <1>7, OnlyMe
<1>. QED
  BY <1>1, <1>2, <1>3, <1>5, <1>8 DEF IInv

LEMMA SaveReportInv ==
  ASSUME IInv, NEW p \in Process, SaveReport(p)
  PROVE  IInv'
<1>0. opt[p] \in Launch /\ opt[p].settings \in Settings /\ opt[p].resume \in BOOLEAN
  BY CalibrateAssumption DEF IInv, Commanded, SaveReport
<1>1. CASE ~opt[p].resume
  BY <1>0, <1>1, ExitInv DEF SaveReport
<1>2. CASE opt[p].resume
  <2> USE <1>2 DEF Go, SaveReport
  <2>1. TypeOK'
    BY <1>0 DEF IInv, TypeOK, Working
  <2>2. Commanded' /\ LockHeld' /\ Blank'
    BY DEF IInv, TypeOK, Commanded, LockHeld, Blank
  <2>3. OwnShards' /\ OutputUniform'
    BY DEF IInv, OwnShards, OutputUniform
  <2>4. Consistent(p)
    BY DEF IInv, InStep, Past, Working
  <2>5. Consistent(p)'
    BY <2>4 DEF Consistent, IInv, TypeOK
  <2>6. InStep'
    BY <2>5, OnlyMe
  <2>. QED
    BY <2>1, <2>2, <2>3, <2>6 DEF IInv
<1>. QED
  BY <1>0, <1>1, <1>2

LEMMA UnlinkShardInv ==
  ASSUME IInv, NEW p \in Process, NEW i \in Site, UnlinkShard(p, i)
  PROVE  IInv'
<1> USE DEF UnlinkShard
<1>1. TypeOK'
  BY DEF IInv, TypeOK
<1>2. Commanded' /\ LockHeld' /\ Blank'
  BY DEF IInv, TypeOK, Commanded, LockHeld, Blank
<1>3. OwnShards' /\ OutputUniform'
  BY DEF IInv, TypeOK, OwnShards, OutputUniform
<1>4. Consistent(p)
  BY DEF IInv, InStep, Past, Working
<1>5. Consistent(p)'
  BY <1>4 DEF Consistent
<1>6. pc' = [pc EXCEPT ![p] = "clean"]
  BY DEF IInv, TypeOK
<1>7. InStep'
  BY <1>5, <1>6, OnlyMe
<1>. QED
  BY <1>1, <1>2, <1>3, <1>7 DEF IInv

LEMMA NextInv == IInv /\ [Next]_vars => IInv'
<1> SUFFICES ASSUME IInv, [Next]_vars
             PROVE  IInv'
  OBVIOUS
<1>1. CASE UNCHANGED vars
  BY <1>1 DEF vars, files, IInv, TypeOK, Commanded, LockHeld, Blank, OwnShards, InStep,
              Consistent, OutputUniform
<1>2. ASSUME NEW p \in Process, NEW o \in Launch, Start(p, o)
      PROVE  IInv'
  BY <1>2, StartInv
<1>3. ASSUME NEW p \in Process, Step(p)
      PROVE  IInv'
  <2>1. CASE Acquire(p)
    BY <2>1, AcquireInv
  <2>2. CASE LockBusy(p) \/ RefuseIdentity(p) \/ RefuseOutput(p) \/ Finish(p)
    <3>1. \E c \in {0, 1} : Exit(p, c) /\ UNCHANGED files
      BY <2>2 DEF LockBusy, RefuseIdentity, RefuseOutput, Finish
    <3>. QED
      BY <3>1, ExitInv DEF files
  <2>3. CASE PassCheck(p)
    BY <2>3, PassCheckInv
  <2>4. CASE LoadShards(p)
    BY <2>4, LoadShardsInv
  <2>5. CASE \E i \in Site : CalibrateSite(p, i) \/ UnlinkShard(p, i)
    BY <2>5, CalibrateSiteInv, UnlinkShardInv
  <2>6. CASE SaveOutput(p) \/ SaveReport(p)
    BY <2>6, SaveOutputInv, SaveReportInv
  <2>. QED
    BY <1>3, <2>1, <2>2, <2>3, <2>4, <2>5, <2>6 DEF Step
<1>4. ASSUME NEW p \in Process, Die(p)
      PROVE  IInv'
  BY <1>4, ExitInv DEF Die, files
<1>. QED
  BY <1>1, <1>2, <1>3, <1>4 DEF Next

LEMMA Invariant == Spec => []IInv
BY InitInv, NextInv, PTL DEF Spec

-----------------------------------------------------------------------------
\* Every reachable state is well typed, for any processes, sites and settings.
THEOREM Typing == Spec => []TypeOK
<1>1. IInv => TypeOK
  BY DEF IInv
<1>. QED
  BY <1>1, Invariant, PTL

\* No output ever joins sites that were calibrated with different settings.
THEOREM Uniformity == Spec => []OutputUniform
<1>1. IInv => OutputUniform
  BY DEF IInv
<1>. QED
  BY <1>1, Invariant, PTL

\* A site that is finished, in its own file or in the output, stays finished.
THEOREM Durability == Spec => NothingLost
<1>1. IInv /\ [Next]_vars => [Durable \subseteq Durable']_vars
  <2> SUFFICES ASSUME IInv, Next
               PROVE  Durable \subseteq Durable'
    OBVIOUS
  <2>1. CASE UNCHANGED <<shard, output>>
    BY <2>1 DEF Durable
  <2>2. ASSUME NEW p \in Process, NEW i \in Site, CalibrateSite(p, i)
        PROVE  Durable \subseteq Durable'
    <3>1. opt[p].settings # None
      BY <2>2, CalibrateAssumption DEF IInv, Commanded, CalibrateSite
    <3>. QED
      BY <2>2, <3>1 DEF Durable, CalibrateSite, IInv, TypeOK
  <2>3. ASSUME NEW p \in Process, NEW i \in Site, UnlinkShard(p, i)
        PROVE  Durable \subseteq Durable'
    BY <2>3 DEF Durable, UnlinkShard, IInv, InStep, Consistent, Past, Working
  <2>4. ASSUME NEW p \in Process, SaveOutput(p)
        PROVE  Durable \subseteq Durable'
    BY <2>4, SavedIsMine DEF Durable
  <2>. QED
    BY <2>1, <2>2, <2>3, <2>4
    DEF Next, Step, Start, Acquire, LockBusy, RefuseIdentity, RefuseOutput, PassCheck,
        LoadShards, SaveReport, Finish, Die, files
<1>. QED
  BY <1>1, Invariant, PTL DEF Spec, NothingLost

-----------------------------------------------------------------------------
LEMMA OutputIsIdentityNext ==
  ResumeOnly /\ IInv /\ OutputIsIdentity /\ [Next]_vars => OutputIsIdentity'
<1> SUFFICES ASSUME ResumeOnly, IInv, OutputIsIdentity, [Next]_vars
             PROVE  OutputIsIdentity'
  OBVIOUS
<1>1. CASE UNCHANGED <<identity, output>>
  BY <1>1 DEF OutputIsIdentity, Made
<1>2. ASSUME NEW p \in Process, PassCheck(p)
      PROVE  OutputIsIdentity'
  BY <1>2 DEF OutputIsIdentity, PassCheck, ForeignIdentity, IInv, Commanded, ResumeOnly, Made
<1>3. ASSUME NEW p \in Process, SaveOutput(p)
      PROVE  OutputIsIdentity'
  <2>1. opt[p] \in Launch /\ opt[p].resume /\ Consistent(p) /\ opt[p].settings # None
    BY <1>3, CalibrateAssumption
    DEF IInv, Commanded, InStep, Past, Working, SaveOutput, ResumeOnly
  <2>. QED
    BY <1>3, <2>1, SavedIsMine DEF OutputIsIdentity, Consistent, SaveOutput, Made
<1>. QED
  BY <1>1, <1>2, <1>3
  DEF Next, Step, Start, Acquire, LockBusy, RefuseIdentity, RefuseOutput, CalibrateSite,
      UnlinkShard, LoadShards, SaveReport, Finish, Die, files, vars

LEMMA ResumeInvariant == ResumeOnly /\ Spec => [](IInv /\ OutputIsIdentity)
<1>1. ASSUME ResumeOnly
      PROVE  Spec => [](IInv /\ OutputIsIdentity)
  <2>1. IInv /\ OutputIsIdentity /\ [Next]_vars => (IInv /\ OutputIsIdentity)'
    BY <1>1, NextInv, OutputIsIdentityNext
  <2>. QED
    BY <2>1, InitInv, PTL DEF Spec
<1>. QED
  BY <1>1

\* When every worker resumes, an output that is recovered as "already
\* committed" was made with the very settings of the worker that recovers it.
THEOREM Recovery == ResumeOnly /\ Spec => []RecoveredIsOwn
<1>1. ASSUME ResumeOnly
      PROVE  Spec => []RecoveredIsOwn
  <2>1. IInv /\ OutputIsIdentity => RecoveredIsOwn
    BY DEF IInv, InStep, Consistent, Past, Working, OutputIsIdentity, RecoveredIsOwn, Made
  <2>2. Spec => [](IInv /\ OutputIsIdentity)
    BY <1>1, ResumeInvariant
  <2>. QED
    BY <2>1, <2>2, PTL
<1>. QED
  BY <1>1

\* A resuming worker never calibrates a site again that it finds finished.
THEOREM NoRework == Spec => NoSiteTwice
<1>1. IInv /\ [Next]_vars =>
        [\A p \in Process, i \in Site :
           opt[p] # None /\ opt[p].resume /\ entries[p][i] = None /\ entries'[p][i] # None
           /\ pc[p] = "calibrate" => shard[i] = None]_vars
  BY DEF IInv, InStep, Consistent, Past, Working
<1>. QED
  BY <1>1, Invariant, PTL DEF Spec, NoSiteTwice

\* When every worker resumes, one that exits 0 leaves an output and a report of
\* its own settings and no site files.
THEOREM Success == ResumeOnly /\ Spec => SuccessIsComplete
<1> DEFINE Complete ==
      \A p \in Process : pc[p] # "down" /\ pc'[p] = "down" /\ code'[p] = 0 =>
        /\ output' = Made(opt[p].settings)
        /\ report' = opt[p].settings
        /\ opt[p].resume => shard' = NoEntry
<1>1. ASSUME ResumeOnly, IInv, OutputIsIdentity, Next
      PROVE  Complete
  <2> SUFFICES ASSUME NEW p \in Process, pc[p] # "down", pc'[p] = "down", code'[p] = 0
               PROVE  /\ output' = Made(opt[p].settings)
                      /\ report' = opt[p].settings
                      /\ shard' = NoEntry
    BY DEF Complete
  <2>0. opt[p] \in Launch /\ opt[p].resume
    BY <1>1 DEF IInv, Commanded, ResumeOnly
  <2>1. Finish(p)
    <3>1. PICK q \in Process : (\E o \in Launch : Start(q, o)) \/ Step(q) \/ Die(q)
      BY <1>1 DEF Next
    <3>2. q = p
      BY <1>1, <3>1
      DEF Step, Start, Acquire, LockBusy, RefuseIdentity, RefuseOutput, PassCheck,
          CalibrateSite, UnlinkShard, LoadShards, SaveOutput, SaveReport, Finish, Die,
          Exit, Go, IInv, TypeOK
    <3>3. ~Die(p) /\ ~LockBusy(p) /\ ~RefuseIdentity(p) /\ ~RefuseOutput(p)
      BY <1>1 DEF Die, LockBusy, RefuseIdentity, RefuseOutput, Exit, IInv, TypeOK
    <3>4. ~Acquire(p) /\ ~PassCheck(p) /\ ~LoadShards(p) /\ ~SaveOutput(p) /\ ~SaveReport(p)
      BY <1>1, <2>0
      DEF Acquire, PassCheck, LoadShards, SaveOutput, SaveReport, Go, IInv, TypeOK
    <3>5. \A i \in Site : ~CalibrateSite(p, i) /\ ~UnlinkShard(p, i)
      BY DEF CalibrateSite, UnlinkShard
    <3>6. \A o \in Launch : ~Start(p, o)
      BY DEF Start
    <3>. QED
      BY <3>1, <3>2, <3>3, <3>4, <3>5, <3>6 DEF Step
  <2>2. Consistent(p) /\ pc[p] = "clean"
    BY <1>1, <2>1 DEF IInv, InStep, Past, Working, Finish
  <2>. QED
    BY <1>1, <2>0, <2>1, <2>2 DEF Finish, files, Consistent, OutputIsIdentity, Made
<1>2. ASSUME ResumeOnly
      PROVE  Spec => SuccessIsComplete
  <2>1. IInv /\ OutputIsIdentity /\ [Next]_vars => [Complete]_vars
    BY <1>1, <1>2
  <2>2. Spec => [](IInv /\ OutputIsIdentity)
    BY <1>2, ResumeInvariant
  <2>. QED
    BY <2>1, <2>2, PTL DEF Spec, SuccessIsComplete
<1>. QED
  BY <1>2
=============================================================================
