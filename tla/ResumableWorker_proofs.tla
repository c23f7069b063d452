---------------------- MODULE ResumableWorker_proofs ----------------------
(***************************************************************************)
(* What a launcher may conclude from its workers' exit codes, when every   *)
(* worker resumes: 75 pays for itself with as many committed observations  *)
(* as a worker makes before it recycles, 0 is a complete and exact         *)
(* collection.  For every number of launchers, workers, observations,      *)
(* recyclings and retries, and every order of kills and signals.           *)
(***************************************************************************)
EXTENDS ResumableWorker, SensitivityWorker_proofs

\* Observations that the recyclings of l have been paid for with.
Paid(l) == recycled[l] * Pace(lopt[l])

\* Worker p of launcher l against the launcher's own variables and the files.
Owns(l, p) ==
  /\ p \in Process \ Other
  /\ pc[p] # "down" => opt[p] = lopt[l]
  /\ pc[p] \in Working => Paid(l) <= completed[p] - recent[p]
  /\ pc[p] = "recycle" => Pace(lopt[l]) <= recent[p]
  /\ pc[p] = "down" /\ code[p] = RECYCLE =>
       Paid(l) + Pace(lopt[l]) <= Durable /\ Paid(l) + Pace(lopt[l]) < N
  /\ pc[p] = "down" /\ code[p] = SUCCESS => manifest = [signature |-> lopt[l].signature]

Launched(l) ==
  /\ lpc[l] # "idle" => lopt[l] \in Launch /\ Paid(l) <= Durable
  /\ lpc[l] = "idle" => recycled[l] = 0
  /\ lcode[l] # None => lpc[l] = "done"
  /\ lcode[l] = SUCCESS => manifest = [signature |-> lopt[l].signature]
  /\ lcode[l] = RECYCLE => (MaxRecycles + 1) * Pace(lopt[l]) < N
  /\ HasWorker(l) => Owns(l, child[l])

LInv == IInv /\ STypeOK /\ \A l \in Launcher : Launched(l)

\* The steps of a process that is running.
Runs(p) == Step(p) \/ \E c \in {FAILURE, SIGKILLED, SIGTERMED} : Die(p, c)

-----------------------------------------------------------------------------
LEMMA PaceIsNat ==
  ASSUME NEW o \in Launch
  PROVE  Pace(o) \in Nat
BY WorkerAssumption DEF Pace, Options

\* One recycling more is paid for with one Pace more.
LEMMA OneMore ==
  ASSUME NEW r \in Nat, NEW d \in Nat
  PROVE  r * d \in Nat /\ (r + 1) * d = r * d + d
OBVIOUS

LEMMA PaidIsNat ==
  ASSUME STypeOK, NEW l \in Launcher, lopt[l] \in Launch
  PROVE  Paid(l) \in Nat /\ Pace(lopt[l]) \in Nat
BY PaceIsNat, OneMore, LauncherAssumption DEF STypeOK, Paid

\* What happens to other processes does not concern q.
LEMMA Frame ==
  ASSUME IInv, NEW p \in Process, NEW q \in Process, q # p,
         Runs(p) \/ \E o \in Launch : Start(p, o)
  PROVE  /\ pc'[q] = pc[q] /\ opt'[q] = opt[q] /\ code'[q] = code[q]
         /\ completed'[q] = completed[q] /\ recent'[q] = recent[q]
<1>1. CASE CommitOrGoOn(p)
  <2>1. \E there : Go(p, there)
    BY <1>1 DEF CommitOrGoOn
  <2>. QED
    BY <1>1, <2>1 DEF CommitOrGoOn, Go, IInv, TypeOK
<1>2. CASE Begin(p)
  BY <1>2 DEF Begin, Go, IInv, TypeOK
<1>3. CASE ~CommitOrGoOn(p) /\ ~Begin(p)
  BY <1>3
  DEF Runs, Start, Step, Acquire, LockBusy, FindComplete, Refuse, Probe, FinishObservation,
      Recycle, NothingLeft, SaveField, SaveCache, SaveManifest, Cleanup, Die, Exit, Go,
      memory, IInv, TypeOK
<1>. QED
  BY <1>1, <1>2, <1>3

\* What is committed stays, and the manifest never changes.
LEMMA FilesGrow ==
  ASSUME IInv, ResumeOnly, Next
  PROVE  /\ Durable \in 0..N /\ Durable' \in 0..N /\ Durable <= Durable'
         /\ manifest # None => manifest' = manifest
<1> USE WorkerAssumption
<1>1. Durable \in 0..N
  BY DEF IInv, TypeOK, Durable
<1>2. IInv'
  BY StepInv
<1>3. Durable' \in 0..N
  BY <1>2 DEF IInv, TypeOK, Durable
<1>4. [C!CollectionNext]_C!cvars
  BY StepRefines
<1>5. Durable <= Durable'
  BY <1>1, <1>3, <1>4 DEF C!CollectionNext, C!Commit, C!Publish, C!cvars
<1>6. ASSUME NEW p \in Process, SaveManifest(p)
      PROVE  manifest = None
  BY <1>6, WorkingFacts DEF SaveManifest, Working, Consistent
<1>7. ASSUME ~\E p \in Process : SaveManifest(p)
      PROVE  manifest' = manifest
  BY <1>7
  DEF Next, Start, Step, Acquire, LockBusy, FindComplete, Refuse, Begin, Probe,
      FinishObservation, CommitOrGoOn, Recycle, NothingLeft, SaveField, SaveCache,
      Cleanup, Die, files
<1>. QED
  BY <1>1, <1>3, <1>5, <1>6, <1>7

\* How observations in memory relate to those of this run.
LEMMA Progressing ==
  ASSUME IInv, ResumeOnly, NEW p \in Process, Step(p), pc'[p] \in Working,
         NEW r \in Nat, r <= Durable,
         pc[p] \in Working => r <= completed[p] - recent[p]
  PROVE  r <= completed'[p] - recent'[p]
<1>0. /\ completed[p] \in 0..N /\ recent[p] \in Nat /\ N \in Nat
  BY WorkerAssumption DEF IInv, TypeOK
<1>1. CASE Begin(p)
  <2>1. IInv'
    BY <1>1, BeginInv
  <2>2. Consistent(p)' /\ since[p] = 0 /\ recent[p] = 0
    BY <1>1, <2>1 DEF IInv, InStep, Blank, Begin
  <2>3. since'[p] = 0 /\ recent'[p] = 0 /\ Durable' = Durable /\ pc'[p] = "observe"
    BY <1>1, <2>2 DEF Begin, Durable, files, Go, IInv, TypeOK
  <2>4. Durable' = completed'[p] - since'[p] /\ completed'[p] \in 0..N
    BY <2>1, <2>2, <2>3 DEF Consistent, IInv, TypeOK
  <2>. QED
    BY <1>0, <2>3, <2>4
<1>2. CASE FinishObservation(p)
  BY <1>0, <1>2 DEF FinishObservation, Working, IInv, TypeOK
<1>3. CASE Probe(p) \/ CommitOrGoOn(p) \/ NothingLeft(p) \/ SaveField(p) \/ SaveCache(p)
           \/ SaveManifest(p)
  BY <1>3
  DEF Probe, CommitOrGoOn, NothingLeft, SaveField, SaveCache, SaveManifest, memory, Working
<1>4. CASE Acquire(p) \/ LockBusy(p) \/ FindComplete(p) \/ Refuse(p) \/ Recycle(p) \/ Cleanup(p)
  BY <1>4
  DEF Acquire, LockBusy, FindComplete, Refuse, Recycle, Cleanup, Exit, Go, IInv, TypeOK, Working
<1>. QED
  BY <1>1, <1>2, <1>3, <1>4 DEF Step

\* A process that recycles has made as many observations as it is due to.
LEMMA RecyclesWhenDue ==
  ASSUME IInv, ResumeOnly, NEW p \in Process, Step(p), pc'[p] = "recycle"
  PROVE  Pace(opt[p]) <= recent'[p]
<1>1. CommitOrGoOn(p)
  BY DEF Step, Acquire, LockBusy, FindComplete, Refuse, Begin, Probe, FinishObservation, Recycle,
         NothingLeft, SaveField, SaveCache, SaveManifest, Cleanup, Exit, Go, IInv, TypeOK
<1>2. PICK overLimit \in BOOLEAN :
         Go(p, IF RecycleDue(p, overLimit) THEN "recycle"
               ELSE IF completed[p] < N THEN "observe" ELSE "field")
  BY <1>1 DEF CommitOrGoOn
<1>3. RecycleDue(p, overLimit)
  BY <1>2 DEF Go, IInv, TypeOK
<1>4. pc[p] = "commit" /\ recent' = recent
  BY <1>1 DEF CommitOrGoOn
<1>5. /\ recent[p] \in Nat /\ recent[p] > 0
      /\ opt[p] \in Launch /\ opt[p].recycleEvery \in Nat /\ opt[p].pressure \in BOOLEAN
  BY <1>4, WorkingFacts, WorkerAssumption DEF Consistent, Working, Options
<1>. QED
  BY <1>3, <1>4, <1>5 DEF RecycleDue, Pace

\* A process that ends with 75 has committed what it made, and leaves some ...
LEMMA RecyclePays ==
  ASSUME IInv, ResumeOnly, NEW p \in Process, Runs(p), pc[p] # "down",
         pc'[p] = "down", code'[p] = RECYCLE, NEW r \in Nat, NEW d \in Nat,
         pc[p] \in Working => r <= completed[p] - recent[p],
         pc[p] = "recycle" => d <= recent[p]
  PROVE  r + d <= Durable' /\ r + d < N
<1>1. Ends(p, RECYCLE)
  BY DEF Ends
<1>2. Recycle(p)
  <2>1. \A c \in ExitCode : Exit(p, c) => c = RECYCLE
    BY DEF IInv, TypeOK, Exit
  <2>2. Next
    BY DEF Runs, Next
  <2>. QED
    BY <1>1, <2>1, <2>2, Endings
    DEF LockBusy, FindComplete, Refuse, Cleanup, Die,
        ExitCode, SUCCESS, FAILURE, RECYCLE, SIGKILLED, SIGTERMED
<1>3. pc[p] = "recycle" /\ Consistent(p)
  BY <1>2, WorkingFacts DEF Recycle, Working
<1>4. Durable' = Durable
  BY <1>2 DEF Recycle, Durable, files
<1>5. completed[p] \in 0..N /\ recent[p] \in Nat /\ N \in Nat
  BY WorkerAssumption DEF IInv, TypeOK
<1>6. Durable = completed[p] /\ completed[p] < N
  BY <1>3, <1>5 DEF Consistent
<1>. QED
  BY <1>3, <1>4, <1>5, <1>6 DEF Working

\* ... and one that ends with 0 leaves a manifest of its own settings.
LEMMA SuccessPublishes ==
  ASSUME IInv, ResumeOnly, NEW p \in Process, Runs(p), pc[p] # "down",
         pc'[p] = "down", code'[p] = SUCCESS
  PROVE  manifest' = [signature |-> opt[p].signature]
<1>1. Ends(p, SUCCESS) /\ Next
  BY DEF Ends, Runs, Next
<1>2. FindComplete(p) \/ Cleanup(p)
  <2>1. \A c \in ExitCode : Exit(p, c) => c = SUCCESS
    BY DEF IInv, TypeOK, Exit
  <2>. QED
    BY <1>1, <2>1, Endings
    DEF LockBusy, Recycle, Refuse, Die,
        ExitCode, SUCCESS, FAILURE, RECYCLE, SIGKILLED, SIGTERMED
<1>3. manifest # None /\ manifest.signature = opt[p].signature /\ manifest' = manifest
  <2>1. CASE FindComplete(p)
    BY <2>1 DEF FindComplete, AlreadyComplete, files
  <2>2. CASE Cleanup(p)
    <3>1. pc[p] = "cleanup" /\ Consistent(p)
      BY <2>2, WorkingFacts DEF Cleanup, Working
    <3>. QED
      BY <2>2, <3>1 DEF Consistent, Signed, Cleanup
  <2>. QED
    BY <1>2, <2>1, <2>2
<1>. QED
  BY <1>3 DEF IInv, TypeOK

-----------------------------------------------------------------------------
\* A launcher's worker takes a step.
LEMMA OwnWorkerRuns ==
  ASSUME IInv, ResumeOnly, NEW l \in Launcher, NEW p \in Process, Owns(l, p), Runs(p),
         STypeOK, lopt[l] \in Launch, Paid(l) <= Durable, UNCHANGED launcherState
  PROVE  Owns(l, p)'
<1>0. /\ Paid(l)' = Paid(l) /\ Pace(lopt[l])' = Pace(lopt[l])
      /\ Paid(l) \in Nat /\ Pace(lopt[l]) \in Nat
  BY PaidIsNat DEF launcherState, Paid
<1>1. pc[p] # "down" /\ recycled'[l] = recycled[l] /\ lopt'[l] = lopt[l]
  BY DEF Runs, Step, Acquire, LockBusy, FindComplete, Refuse, Begin, Probe, FinishObservation,
         CommitOrGoOn, Recycle, NothingLeft, SaveField, SaveCache, SaveManifest, Cleanup, Die,
         launcherState
<1>2. pc'[p] # "down" => opt'[p] = opt[p]
  BY DEF Runs, Step, Acquire, LockBusy, FindComplete, Refuse, Begin, Probe, FinishObservation,
         CommitOrGoOn, Recycle, NothingLeft, SaveField, SaveCache, SaveManifest, Cleanup, Die,
         Exit, Go, IInv, TypeOK
<1>3. ASSUME pc'[p] \in Working
      PROVE  Paid(l)' <= completed'[p] - recent'[p]
  <2>1. Step(p)
    BY <1>3 DEF Runs, Die, Exit, Go, IInv, TypeOK, Working
  <2>. QED
    BY <1>0, <1>3, <2>1, Progressing DEF Owns
<1>4. ASSUME pc'[p] = "down", code'[p] = RECYCLE
      PROVE  /\ Paid(l)' + Pace(lopt[l])' <= Durable'
             /\ Paid(l)' + Pace(lopt[l])' < N
  BY <1>0, <1>1, <1>4, RecyclePays DEF Owns
<1>5. ASSUME pc'[p] = "down", code'[p] = SUCCESS
      PROVE  manifest' = [signature |-> lopt'[l].signature]
  BY <1>1, <1>5, SuccessPublishes DEF Owns
<1>6. ASSUME pc'[p] = "recycle"
      PROVE  Pace(lopt[l])' <= recent'[p]
  <2>1. Step(p)
    BY <1>6 DEF Runs, Die, Exit, Go, IInv, TypeOK
  <2>. QED
    BY <1>0, <1>1, <1>6, <2>1, RecyclesWhenDue DEF Owns
<1>. QED
  BY <1>1, <1>2, <1>3, <1>4, <1>5, <1>6 DEF Owns

\* A process runs, of whoever it is, or one that no launcher owns is started.
LEMMA WorkersRun ==
  ASSUME LInv, ResumeOnly, NEW p \in Process,
         Runs(p) \/ ((\E o \in Launch : Start(p, o)) /\ \A l \in Launcher : HasWorker(l) => child[l] # p),
         UNCHANGED launcherState
  PROVE  (\A l \in Launcher : Launched(l))'
<1> SUFFICES ASSUME NEW l \in Launcher
             PROVE  Launched(l)'
  OBVIOUS
<1>0. UNCHANGED <<lpc, lopt, child, recycled, killed, lcode>> /\ HasWorker(l)' = HasWorker(l)
  BY DEF launcherState, HasWorker
<1>1. IInv /\ STypeOK /\ Next /\ Launched(l)
  BY DEF LInv, Runs, Next
<1>2. /\ Durable \in 0..N /\ Durable' \in 0..N /\ Durable <= Durable'
      /\ manifest # None => manifest' = manifest
  BY <1>1, FilesGrow
<1>3. ASSUME lopt[l] \in Launch
      PROVE  /\ Paid(l)' = Paid(l) /\ Pace(lopt[l])' = Pace(lopt[l])
             /\ Paid(l) \in Nat /\ Pace(lopt[l]) \in Nat
  BY <1>0, <1>1, <1>3, PaidIsNat DEF Paid
<1>8. lpc'[l] # "idle" => lopt'[l] \in Launch /\ Paid(l)' <= Durable'
  BY <1>0, <1>1, <1>2, <1>3, WorkerAssumption DEF Launched
<1>9. lcode'[l] = RECYCLE => (MaxRecycles + 1) * Pace(lopt[l])' < N
  BY <1>0, <1>1 DEF Launched
<1>4. \A s \in Signature : manifest = [signature |-> s] => manifest' = [signature |-> s]
  BY <1>2, WorkerAssumption
<1>5. lpc[l] # "idle" => lopt[l].signature \in Signature
  BY <1>1, WorkerAssumption DEF Launched, Options
<1>6. lcode'[l] = SUCCESS => manifest' = [signature |-> lopt'[l].signature]
  BY <1>0, <1>1, <1>4, <1>5, LauncherAssumption DEF Launched, SUCCESS
<1>7. ASSUME HasWorker(l)
      PROVE  Owns(l, child[l])'
  <2>1. Owns(l, child[l]) /\ child[l] \in Process /\ lpc[l] # "idle"
    BY <1>1, <1>7 DEF Launched, Owns, HasWorker
  <2>2. CASE child[l] = p
    BY <1>0, <1>1, <1>7, <2>1, <2>2, OwnWorkerRuns DEF Launched
  <2>3. CASE child[l] # p
    <3>1. /\ pc'[child[l]] = pc[child[l]] /\ opt'[child[l]] = opt[child[l]]
          /\ code'[child[l]] = code[child[l]]
          /\ completed'[child[l]] = completed[child[l]] /\ recent'[child[l]] = recent[child[l]]
      BY <1>1, <2>1, <2>3, Frame
    <3>. QED
      BY <1>0, <1>1, <1>2, <1>3, <1>4, <1>5, <2>1, <3>1, WorkerAssumption DEF Owns, Launched
  <2>. QED
    BY <2>2, <2>3
<1>. QED
  BY <1>0, <1>1, <1>6, <1>7, <1>8, <1>9 DEF Launched

\* A launcher starts a worker.
LEMMA ForkInv ==
  ASSUME LInv, ResumeOnly, NEW k \in Launcher, Fork(k)
  PROVE  (\A l \in Launcher : Launched(l))'
<1>1. PICK p \in Unused : Start(p, lopt[k]) /\ child' = [child EXCEPT ![k] = p]
  BY DEF Fork
<1>2. /\ p \in Process \ Other /\ pc[p] = "down"
      /\ \A l \in Launcher : HasWorker(l) => child[l] # p
  BY DEF Unused
<1>3. /\ UNCHANGED <<lopt, recycled, killed, lcode>> /\ UNCHANGED files
      /\ lpc[k] = "spawn" /\ lpc' = [lpc EXCEPT ![k] = "forked"]
  BY <1>1 DEF Fork, Start
<1>4. /\ UNCHANGED <<Durable, manifest>>
      /\ \A l \in Launcher : Paid(l)' = Paid(l) /\ Pace(lopt[l])' = Pace(lopt[l])
  BY <1>3 DEF Durable, files, Paid
<1>5. lopt[k] \in Launch /\ IInv /\ STypeOK
  BY <1>3 DEF LInv, Launched
<1> SUFFICES ASSUME NEW l \in Launcher
             PROVE  Launched(l)'
  OBVIOUS
<1>6. CASE l = k
  <2>1. lpc'[k] = "forked" /\ child'[k] = p /\ pc'[p] = "boot" /\ opt'[p] = lopt[k]
    BY <1>1, <1>2, <1>3, <1>5 DEF Start, Go, IInv, TypeOK, STypeOK
  <2>2. Owns(k, p)'
    BY <1>2, <1>3, <2>1 DEF Owns, Working
  <2>. QED
    BY <1>3, <1>4, <1>5, <1>6, <2>1, <2>2 DEF Launched, LInv
<1>7. CASE l # k
  <2>1. lpc'[l] = lpc[l] /\ child'[l] = child[l] /\ HasWorker(l)' = HasWorker(l)
    BY <1>1, <1>3, <1>5, <1>7 DEF STypeOK, HasWorker
  <2>2. ASSUME HasWorker(l)
        PROVE  Owns(l, child[l])'
    <3>1. Owns(l, child[l]) /\ child[l] \in Process /\ child[l] # p
      BY <1>2, <2>2 DEF LInv, Launched, Owns
    <3>2. /\ pc'[child[l]] = pc[child[l]] /\ opt'[child[l]] = opt[child[l]]
          /\ code'[child[l]] = code[child[l]]
          /\ completed'[child[l]] = completed[child[l]] /\ recent'[child[l]] = recent[child[l]]
      BY <1>1, <1>2, <1>5, <3>1, Frame
    <3>. QED
      BY <1>3, <1>4, <2>1, <3>1, <3>2 DEF Owns
  <2>. QED
    BY <1>3, <1>4, <2>1, <2>2 DEF Launched, LInv
<1>. QED
  BY <1>6, <1>7

-----------------------------------------------------------------------------
\* A launcher takes a step that leaves every process alone.
Passive(k) ==
  \/ \E o \in Launch : Command(k, o)
  \/ Assign(k) \/ Wait(k) \/ RecycleWorker(k) \/ RetryKilled(k) \/ PassOn(k)
  \/ Signal(k) \/ StopDone(k) \/ LauncherKilled(k)

\* Exit codes stay exit codes when they are passed on, and none becomes 0.
LEMMA PassedOn ==
  ASSUME NEW c \in ExitCode
  PROVE  /\ (IF c >= 0 THEN c ELSE 128 - c) \in ExitCode \cup {STOPPED, WORKERKILLED}
         /\ \A d \in {SUCCESS, RECYCLE} : (IF c >= 0 THEN c ELSE 128 - c) = d => c = d
BY DEF ExitCode, SUCCESS, FAILURE, RECYCLE, SIGKILLED, SIGTERMED, STOPPED, WORKERKILLED

LEMMA PassiveTyping ==
  ASSUME STypeOK, NEW k \in Launcher, Passive(k)
  PROVE  STypeOK'
<1> USE LauncherAssumption
<1>1. CASE \E o \in Launch : Command(k, o)
  BY <1>1 DEF Command, STypeOK
<1>2. CASE Assign(k) \/ Wait(k)
  BY <1>2 DEF Assign, Wait, STypeOK
<1>3. CASE RecycleWorker(k)
  BY <1>3 DEF RecycleWorker, STypeOK
<1>4. CASE RetryKilled(k)
  BY <1>4 DEF RetryKilled, STypeOK
<1>5. CASE PassOn(k)
  <2>1. PICK c \in ExitCode : /\ Done(k, IF c >= 0 THEN c ELSE 128 - c)
                              /\ UNCHANGED <<lopt, child, recycled, killed, disturbed>>
    BY <1>5 DEF PassOn
  <2>. QED
    BY <2>1, PassedOn DEF Done, STypeOK
<1>6. CASE Signal(k)
  BY <1>6 DEF Signal, Done, STypeOK
<1>7. CASE StopDone(k)
  BY <1>7 DEF StopDone, Done, STypeOK
<1>8. CASE LauncherKilled(k)
  <2>1. SIGKILLED \in ExitCode
    BY DEF ExitCode
  <2>. QED
    BY <1>8, <2>1 DEF LauncherKilled, Done, STypeOK
<1>. QED
  BY <1>1, <1>2, <1>3, <1>4, <1>5, <1>6, <1>7, <1>8 DEF Passive

LEMMA PassiveLaunched ==
  ASSUME LInv, NEW k \in Launcher, UNCHANGED vars, Passive(k)
  PROVE  (\A l \in Launcher : Launched(l))'
<1>0. /\ UNCHANGED <<pc, opt, code, completed, recent, manifest>>
      /\ Durable' = Durable /\ Durable \in 0..N /\ STypeOK
  BY WorkerAssumption DEF vars, files, memory, Durable, LInv, IInv, TypeOK
<1>2. ASSUME NEW l \in Launcher, l # k
      PROVE  Launched(l)'
  <2>1. /\ lpc'[l] = lpc[l] /\ lopt'[l] = lopt[l] /\ child'[l] = child[l]
        /\ recycled'[l] = recycled[l] /\ lcode'[l] = lcode[l]
    BY <1>0, <1>2 DEF Passive, STypeOK, Command, Assign, Wait, RecycleWorker, RetryKilled, PassOn,
                      Signal, StopDone, LauncherKilled, Done
  <2>2. Paid(l)' = Paid(l) /\ Pace(lopt[l])' = Pace(lopt[l])
    BY <2>1 DEF Paid
  <2>. QED
    BY <1>0, <2>1, <2>2 DEF LInv, Launched, HasWorker, Owns
<1> SUFFICES Launched(k)'
  BY <1>2
<1>3. /\ Launched(k) /\ recycled[k] \in 0..MaxRecycles /\ MaxRecycles \in Nat
      /\ N \in Nat /\ Durable \in Nat
      /\ lopt[k] \in Launch => Paid(k) \in Nat /\ Pace(lopt[k]) \in Nat
  BY <1>0, PaidIsNat, LauncherAssumption, WorkerAssumption DEF LInv, STypeOK
<1>4. CASE \E o \in Launch : Command(k, o)
  <2>1. PICK o \in Launch : Command(k, o)
    BY <1>4
  <2>2. /\ lpc[k] = "idle" /\ lpc'[k] = "spawn" /\ lopt'[k] = o
        /\ recycled'[k] = recycled[k] /\ lcode'[k] = None
    BY <1>0, <1>3, <2>1 DEF Command, Launched, STypeOK
  <2>3. Paid(k)' = 0 * Pace(o) /\ Pace(o) \in Nat
    BY <1>3, <2>2, PaceIsNat DEF Launched, Paid
  <2>4. Paid(k)' <= Durable'
    BY <1>0, <1>3, <2>3
  <2>. QED
    BY <2>2, <2>4, LauncherAssumption DEF Launched, HasWorker, SUCCESS, RECYCLE
\* Steps that leave the command line and the recyclings alone.
<1>5. ASSUME UNCHANGED <<lopt, recycled>>
      PROVE  /\ Paid(k)' = Paid(k) /\ Pace(lopt[k])' = Pace(lopt[k])
             /\ Owns(k, child[k]) /\ child'[k] = child[k] => Owns(k, child[k])'
  <2>1. Paid(k)' = Paid(k) /\ Pace(lopt[k])' = Pace(lopt[k])
    BY <1>5 DEF Paid
  <2>. QED
    BY <1>0, <1>5, <2>1 DEF Owns
<1>6. ASSUME UNCHANGED <<lopt, recycled>>, lpc[k] # "idle", lpc'[k] # "idle",
             lcode'[k] = lcode[k], HasWorker(k)' => HasWorker(k) /\ child'[k] = child[k],
             lcode[k] = None
      PROVE  Launched(k)'
  BY <1>0, <1>3, <1>5, <1>6, LauncherAssumption DEF Launched, SUCCESS, RECYCLE
<1>7. CASE Assign(k) \/ Wait(k) \/ RetryKilled(k)
  <2>1. /\ lpc[k] \in {"forked", "assigned", "wait"} /\ lpc'[k] \in {"assigned", "wait", "spawn"}
        /\ UNCHANGED <<lopt, child, recycled, lcode>>
    BY <1>0, <1>7 DEF Assign, Wait, RetryKilled, Reaped, STypeOK
  <2>. QED
    BY <1>3, <1>6, <2>1 DEF Launched, HasWorker
<1>8. CASE RecycleWorker(k)
  <2>1. /\ lpc[k] = "wait" /\ lpc'[k] = "spawn" /\ UNCHANGED <<lopt, lcode>>
        /\ recycled'[k] = recycled[k] + 1
        /\ pc[child[k]] = "down" /\ code[child[k]] = RECYCLE
    BY <1>0, <1>8 DEF RecycleWorker, Reaped, STypeOK
  <2>2. lopt[k] \in Launch /\ Owns(k, child[k]) /\ lcode[k] = None
    BY <1>3, <2>1 DEF Launched, HasWorker
  <2>3. Paid(k)' = Paid(k) + Pace(lopt[k])
    BY <1>3, <2>1, <2>2, OneMore DEF Paid
  <2>4. Paid(k)' <= Durable'
    BY <1>0, <2>1, <2>2, <2>3 DEF Owns
  <2>. QED
    BY <1>0, <1>3, <2>1, <2>2, <2>4, LauncherAssumption
    DEF Launched, HasWorker, SUCCESS, RECYCLE
\* Steps that end the launcher.
<1>9. ASSUME UNCHANGED <<lopt, recycled>>, lpc[k] # "idle", lpc'[k] = "done",
             lcode'[k] = SUCCESS => manifest = [signature |-> lopt[k].signature],
             lcode'[k] = RECYCLE => (MaxRecycles + 1) * Pace(lopt[k]) < N
      PROVE  Launched(k)'
  BY <1>0, <1>3, <1>5, <1>9 DEF Launched, HasWorker
<1>10. CASE PassOn(k)
  <2>1. PICK c \in ExitCode : /\ Reaped(k, c) /\ Done(k, IF c >= 0 THEN c ELSE 128 - c)
                              /\ c = RECYCLE => recycled[k] = MaxRecycles
    BY <1>10 DEF PassOn
  <2>2. /\ lpc[k] = "wait" /\ lpc'[k] = "done" /\ UNCHANGED <<lopt, recycled>>
        /\ pc[child[k]] = "down" /\ code[child[k]] = c
        /\ lcode'[k] \in {SUCCESS, RECYCLE} => c = lcode'[k]
    BY <1>0, <1>10, <2>1, PassedOn DEF PassOn, Done, Reaped, STypeOK
  <2>3. lopt[k] \in Launch /\ Owns(k, child[k])
    BY <1>3, <2>2 DEF Launched, HasWorker
  <2>4. ASSUME c = RECYCLE
        PROVE  (MaxRecycles + 1) * Pace(lopt[k]) < N
    <3>1. Paid(k) + Pace(lopt[k]) < N /\ Paid(k) = MaxRecycles * Pace(lopt[k])
      BY <2>1, <2>2, <2>3, <2>4 DEF Owns, Paid
    <3>. QED
      BY <1>3, <2>3, <3>1, OneMore
  <2>. QED
    BY <1>9, <2>2, <2>3, <2>4 DEF Owns
<1>11. ASSUME lpc'[k] = "done", lcode'[k] \in {STOPPED, SIGKILLED}, lpc[k] # "idle",
             UNCHANGED <<lopt, recycled>>
      PROVE  Launched(k)'
  BY <1>9, <1>11 DEF STOPPED, SIGKILLED, SUCCESS, RECYCLE
<1>12. CASE Signal(k)
  <2>1. CASE Done(k, STOPPED)
    BY <1>0, <1>11, <1>12, <2>1 DEF Signal, Done, STypeOK
  <2>2. CASE ~Done(k, STOPPED)
    <3>1. /\ lpc[k] \in {"assigned", "wait", "stopping"} /\ lpc'[k] \in {"stopping", "hanging"}
          /\ UNCHANGED <<lopt, child, recycled, lcode>>
      BY <1>0, <1>12, <2>2 DEF Signal, STypeOK
    <3>. QED
      BY <1>3, <1>6, <3>1 DEF Launched, HasWorker
  <2>. QED
    BY <2>1, <2>2
<1>13. CASE StopDone(k) \/ LauncherKilled(k)
  BY <1>0, <1>11, <1>13 DEF StopDone, LauncherKilled, Done, STypeOK
<1>. QED
  BY <1>4, <1>7, <1>8, <1>10, <1>12, <1>13 DEF Passive

LEMMA LInit == SInit => LInv
<1> SUFFICES ASSUME SInit
             PROVE  LInv
  OBVIOUS
<1>1. IInv
  BY InitInv DEF SInit
<1>2. STypeOK
  <2>1. 0 \in 0..MaxRecycles /\ 0 \in 0..KillRetries
    BY LauncherAssumption
  <2>2. /\ recycled \in [Launcher -> 0..MaxRecycles]
        /\ killed \in [Launcher -> 0..KillRetries]
    BY <2>1 DEF SInit
  <2>3. /\ lpc \in [Launcher -> {"idle", "spawn", "forked", "assigned", "wait", "stopping",
                                "hanging", "done"}]
        /\ lopt \in [Launcher -> Launch \cup {None}]
        /\ child \in [Launcher -> Process \cup {None}]
        /\ lcode \in [Launcher -> ExitCode \cup {None, STOPPED, WORKERKILLED}]
        /\ disturbed \in BOOLEAN
    BY DEF SInit
  <2>. QED
    BY <2>2, <2>3 DEF STypeOK
<1>3. Durable = 0
  BY DEF SInit, Init, Durable
<1>4. \A l \in Launcher : Launched(l)
  BY <1>3, LauncherAssumption DEF SInit, Launched, HasWorker, SUCCESS, RECYCLE
<1>. QED
  BY <1>1, <1>2, <1>4 DEF LInv

LEMMA LNext == ResumeOnly /\ LInv /\ [SNext]_svars => LInv'
<1> SUFFICES ASSUME ResumeOnly, LInv, [SNext]_svars
             PROVE  LInv'
  OBVIOUS
<1>0. IInv /\ STypeOK
  BY DEF LInv
<1>1. CASE UNCHANGED svars
  <2>1. UNCHANGED vars /\ UNCHANGED <<launcherState, disturbed>>
    BY <1>1 DEF svars
  <2>2. IInv'
    BY <1>0, <2>1, StepInv
  <2>. QED
    BY <1>0, <2>1, <2>2
    DEF LInv, vars, files, memory, launcherState, STypeOK, Launched, HasWorker, Owns, Durable, Paid
<1>2. ASSUME NEW l \in Launcher, Fork(l)
      PROVE  LInv'
  <2>1. PICK p \in Process : Start(p, lopt[l]) /\ child' = [child EXCEPT ![l] = p]
    BY <1>2 DEF Fork, Unused
  <2>2. lopt[l] \in Launch
    BY <1>2 DEF Fork, LInv, Launched
  <2>3. IInv'
    BY <1>0, <2>1, <2>2, StartInv
  <2>4. STypeOK'
    BY <1>0, <1>2, <2>1 DEF Fork, STypeOK
  <2>. QED
    BY <1>2, <2>3, <2>4, ForkInv DEF LInv
<1>3. ASSUME NEW l \in Launcher, Passive(l)
      PROVE  LInv'
  <2>1. UNCHANGED vars
    BY <1>3 DEF Passive, Command, Assign, Wait, RecycleWorker, RetryKilled, PassOn, Signal,
                StopDone, LauncherKilled
  <2>2. IInv'
    BY <1>0, <2>1, StepInv
  <2>. QED
    BY <1>0, <1>3, <2>1, <2>2, PassiveTyping, PassiveLaunched DEF LInv
<1>4. ASSUME NEW p \in Process, UNCHANGED launcherState, disturbed' \in BOOLEAN,
             Runs(p) \/ ((\E o \in Launch : Start(p, o))
                         /\ \A l \in Launcher : HasWorker(l) => child[l] # p)
      PROVE  LInv'
  <2>1. Next
    BY <1>4 DEF Runs, Next
  <2>2. IInv'
    BY <1>0, <2>1, StepInv
  <2>3. STypeOK'
    BY <1>0, <1>4 DEF launcherState, STypeOK
  <2>. QED
    BY <1>4, <2>2, <2>3, WorkersRun DEF LInv
<1>5. ASSUME NEW l \in Launcher, StopWorker(l)
      PROVE  LInv'
  <2>1. child[l] \in Process
    BY <1>5 DEF StopWorker, LInv, Launched, HasWorker, Owns
  <2>2. Runs(child[l]) /\ UNCHANGED launcherState /\ disturbed' \in BOOLEAN
    BY <1>0, <1>5 DEF StopWorker, Runs, STypeOK
  <2>. QED
    BY <1>4, <2>1, <2>2
<1>6. ASSUME NEW p \in Process,
             WorkerStep(p) \/ \E c \in {FAILURE, SIGKILLED, SIGTERMED} : WorkerDies(p, c)
      PROVE  LInv'
  <2>1. Runs(p) /\ UNCHANGED launcherState /\ disturbed' \in BOOLEAN
    BY <1>0, <1>6 DEF WorkerStep, WorkerDies, Runs, STypeOK
  <2>. QED
    BY <1>4, <2>1
<1>7. ASSUME NEW p \in Process, NEW o \in Launch, OtherWorker(p, o)
      PROVE  LInv'
  <2>1. \A l \in Launcher : HasWorker(l) => child[l] # p
    BY <1>7 DEF OtherWorker, LInv, Launched, Owns
  <2>. QED
    BY <1>4, <1>7, <2>1 DEF OtherWorker
<1>. QED
  BY <1>1, <1>2, <1>3, <1>5, <1>6, <1>7 DEF SNext, LauncherStep, Passive

LEMMA LInvariant ==
  ASSUME ResumeOnly
  PROVE  SSpec => []LInv
<1>1. LInv /\ [SNext]_svars => LInv'
  BY LNext
<1>. QED
  BY LInit, <1>1, PTL DEF SSpec

-----------------------------------------------------------------------------
\* Launchers and workers together are well typed: recyclings and retries stay
\* within --max-recycles and --kill-retries.
THEOREM LauncherTyping ==
  ASSUME ResumeOnly
  PROVE  SSpec => [](TypeOK /\ STypeOK)
<1>1. LInv => TypeOK /\ STypeOK
  BY DEF LInv, IInv
<1>. QED
  BY LInvariant, <1>1, PTL

\* Recycling cannot go round in circles: every restart after exit code 75 has been
\* paid for with as many committed observations as a worker makes before it
\* recycles, and a launcher that gives up with 75 has a longer collection than
\* its recyclings reach to.
THEOREM RecyclingPays ==
  ASSUME ResumeOnly
  PROVE  SSpec => []RecycleBuysProgress
<1>1. LInv => RecycleBuysProgress
  BY DEF LInv, Launched, RecycleBuysProgress, Paid
<1>. QED
  BY LInvariant, <1>1, PTL

\* A launcher that exits 0 has the complete and exact collection of its own
\* settings behind it, for good.
THEOREM LauncherSucceeds ==
  ASSUME ResumeOnly
  PROVE  SSpec => []LauncherSuccess
<1>1. LInv => LauncherSuccess
  <2> SUFFICES ASSUME LInv, NEW l \in Launcher, lcode[l] = SUCCESS
               PROVE  /\ manifest = [signature |-> lopt[l].signature]
                      /\ field = [signature |-> lopt[l].signature, statistics |-> Upto(N)]
                      /\ cacheFile = [signature |-> lopt[l].signature, rows |-> Upto(N)]
    BY DEF LauncherSuccess
  <2>1. manifest = [signature |-> lopt[l].signature]
    BY DEF LInv, Launched
  <2>2. lopt[l].signature \in Signature
    BY LauncherAssumption, WorkerAssumption DEF LInv, Launched, Options, SUCCESS
  <2>3. manifest # None
    BY <2>1, <2>2, WorkerAssumption
  <2>4. ExactlyOnce
    BY InvExactlyOnce DEF LInv
  <2>. QED
    BY <2>1, <2>3, <2>4 DEF ExactlyOnce
<1>. QED
  BY LInvariant, <1>1, PTL
=============================================================================
