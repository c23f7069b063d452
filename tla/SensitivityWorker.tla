------------------------- MODULE SensitivityWorker -------------------------
(***************************************************************************)
(* scripts/sensitivity_worker.py: processes that collect, observation by   *)
(* observation, the activation cache and the sensitivity statistics of one *)
(* output directory.  A process may be started at any moment, with any of  *)
(* the command lines in Launch, beside any number of others; it may be     *)
(* killed or fail between any two of its steps; what it held in memory is  *)
(* then gone and its flock is free.                                        *)
(*                                                                         *)
(* The cache and the statistics are abstracted to how often each           *)
(* observation has been counted in them, and a file to what loading it     *)
(* returns.  A save is one step: AtomicSnapshot shows that for progress.pt *)
(* and activation_cache.pt, and sensitivity.pt and manifest.json are       *)
(* written to a name of their process's own and renamed.                   *)
(* sensitivity.pt and activation_cache.pt do not hold the signature in the *)
(* code; the field records here which settings they were computed with.    *)
(***************************************************************************)
EXTENDS Integers

CONSTANTS Process,  \* process ids
          N,        \* observations in the record file
          Probes,   \* --num-probes
          Signature,\* signatures: every setting that changes the results
          Launch,   \* the command lines that are used
          None,     \* no such file
          Nobody    \* the flock is free

\* --snapshot-every, --recycle-every and memory limits (`pressure`) are not part
\* of the signature; recycling without --resume is rejected (lines 117, 123).
Options ==
  [resume : BOOLEAN, signature : Signature, snapshotEvery : Nat \ {0},
   recycleEvery : Nat, pressure : BOOLEAN]

ASSUME WorkerAssumption ==
  /\ N \in Nat \ {0}
  /\ Probes \in Nat \ {0}
  /\ Launch \subseteq Options
  /\ \A o \in Launch : o.recycleEvery > 0 \/ o.pressure => o.resume
  /\ None \notin [signature : Signature]
  /\ None \notin [signature : Signature, statistics : [1..N -> Nat]]
  /\ None \notin [signature : Signature, rows : [1..N -> Nat]]
  /\ None \notin [signature : Signature, completed : 0..N,
                  rows : [1..N -> Nat], statistics : [1..N -> Nat]]
  /\ None \notin Launch
  /\ Nobody \notin Process

VARIABLES
  progress,   \* progress.pt
  field,      \* sensitivity.pt
  cacheFile,  \* activation_cache.pt
  manifest,   \* manifest.json
  lock,       \* who holds worker.lock
  pc,         \* where each process is; "down" when it does not run
  opt,        \* its command line
  code,       \* the exit code of its last run
  completed,  \* observations in its memory
  probe,      \* probes done of the observation under way
  rows,       \* ActivationCache: rows[p][i], how often observation i was fed
  statistics, \* SensitivityAccumulator, likewise
  since,      \* since_commit
  recent      \* committed_in_process

files == <<progress, field, cacheFile, manifest>>
memory == <<completed, probe, rows, statistics, since, recent>>
vars == <<files, lock, pc, opt, code, memory>>

Observation == 1..N
Count == [Observation -> Nat]
Nothing == [i \in Observation |-> 0]
Upto(n) == [i \in Observation |-> IF i <= n THEN 1 ELSE 0]

SUCCESS == 0
FAILURE == 1
RECYCLE == 75
SIGKILLED == -9
SIGTERMED == -15
ExitCode == {SUCCESS, FAILURE, RECYCLE, SIGKILLED, SIGTERMED}

Working == {"observe", "commit", "recycle", "field", "cache", "manifest", "cleanup"}

TypeOK ==
  /\ progress \in {None} \cup [signature : Signature, completed : 0..N,
                               rows : Count, statistics : Count]
  /\ field \in {None} \cup [signature : Signature, statistics : Count]
  /\ cacheFile \in {None} \cup [signature : Signature, rows : Count]
  /\ manifest \in {None} \cup [signature : Signature]
  /\ lock \in Process \cup {Nobody}
  /\ pc \in [Process -> {"down", "boot", "open"} \cup Working]
  /\ opt \in [Process -> Launch \cup {None}]
  /\ code \in [Process -> ExitCode \cup {None}]
  /\ completed \in [Process -> 0..N]
  /\ probe \in [Process -> 0..Probes]
  /\ rows \in [Process -> Count]
  /\ statistics \in [Process -> Count]
  /\ since \in [Process -> Nat]
  /\ recent \in [Process -> Nat]

Init ==
  /\ progress = None /\ field = None /\ cacheFile = None /\ manifest = None
  /\ lock = Nobody
  /\ pc = [p \in Process |-> "down"]
  /\ opt = [p \in Process |-> None]
  /\ code = [p \in Process |-> None]
  /\ completed = [p \in Process |-> 0]
  /\ probe = [p \in Process |-> 0]
  /\ rows = [p \in Process |-> Nothing]
  /\ statistics = [p \in Process |-> Nothing]
  /\ since = [p \in Process |-> 0]
  /\ recent = [p \in Process |-> 0]

-----------------------------------------------------------------------------
Go(p, there) == pc' = [pc EXCEPT ![p] = there]

\* Process p ends with exit code c: its memory is gone and its flock is free.
Exit(p, c) ==
  /\ Go(p, "down")
  /\ code' = [code EXCEPT ![p] = c]
  /\ lock' = IF lock = p THEN Nobody ELSE lock
  /\ opt' = [opt EXCEPT ![p] = None]
  /\ completed' = [completed EXCEPT ![p] = 0]
  /\ probe' = [probe EXCEPT ![p] = 0]
  /\ rows' = [rows EXCEPT ![p] = Nothing]
  /\ statistics' = [statistics EXCEPT ![p] = Nothing]
  /\ since' = [since EXCEPT ![p] = 0]
  /\ recent' = [recent EXCEPT ![p] = 0]

Start(p, o) ==
  /\ pc[p] = "down"
  /\ Go(p, "boot")
  /\ opt' = [opt EXCEPT ![p] = o]
  /\ code' = [code EXCEPT ![p] = None]
  /\ UNCHANGED <<files, lock, memory>>

\* fcntl.flock(lock, LOCK_EX | LOCK_NB)
Acquire(p) ==
  /\ pc[p] = "boot"
  /\ lock = Nobody
  /\ lock' = p
  /\ Go(p, "open")
  /\ UNCHANGED <<files, opt, code, memory>>

LockBusy(p) ==
  /\ pc[p] = "boot"
  /\ lock # Nobody
  /\ Exit(p, FAILURE)
  /\ UNCHANGED files

\* A manifest is taken for one's own without comparing signatures.
AlreadyCompleteForAnyone(o) == o.resume /\ manifest # None /\ field # None /\ cacheFile # None

\* What --resume finds in the directory, in the order the code looks.
AlreadyComplete(o) ==
  /\ o.resume
  /\ manifest # None /\ manifest.signature = o.signature
  /\ field # None /\ cacheFile # None

ForeignManifest(o) == o.resume /\ manifest # None /\ manifest.signature # o.signature

OrphanCache(o) == o.resume /\ cacheFile # None /\ progress = None

ForeignProgress(o) == o.resume /\ progress # None /\ progress.signature # o.signature

\* A snapshot of other settings is resumed from.
RefusesManifestOnly(o) == ForeignManifest(o) \/ (~AlreadyComplete(o) /\ OrphanCache(o))

Refuses(o) ==
  \/ ForeignManifest(o)
  \/ ~AlreadyComplete(o) /\ (OrphanCache(o) \/ ForeignProgress(o))

FindComplete(p) ==
  /\ pc[p] = "open"
  /\ AlreadyComplete(opt[p])
  /\ Exit(p, SUCCESS)
  /\ UNCHANGED files

Refuse(p) ==
  /\ pc[p] = "open"
  /\ Refuses(opt[p])
  /\ Exit(p, FAILURE)
  /\ UNCHANGED files

\* The observation index of the snapshot is not taken over.
BeginAgain(p) ==
  /\ pc[p] = "open"
  /\ ~AlreadyComplete(opt[p]) /\ ~Refuses(opt[p])
  /\ IF opt[p].resume /\ progress # None
       THEN /\ rows' = [rows EXCEPT ![p] = progress.rows]
            /\ statistics' = [statistics EXCEPT ![p] = progress.statistics]
       ELSE UNCHANGED <<rows, statistics>>
  /\ Go(p, "observe")
  /\ UNCHANGED <<files, lock, opt, code, completed, probe, since, recent>>

Begin(p) ==
  /\ pc[p] = "open"
  /\ ~AlreadyComplete(opt[p]) /\ ~Refuses(opt[p])
  /\ IF opt[p].resume /\ progress # None
       THEN /\ completed' = [completed EXCEPT ![p] = progress.completed]
            /\ rows' = [rows EXCEPT ![p] = progress.rows]
            /\ statistics' = [statistics EXCEPT ![p] = progress.statistics]
       ELSE UNCHANGED <<completed, rows, statistics>>
  /\ Go(p, "observe")
  /\ UNCHANGED <<files, lock, opt, code, probe, since, recent>>

-----------------------------------------------------------------------------
\* A probe more than --num-probes.
ProbeOnceMore(p) ==
  /\ pc[p] = "observe"
  /\ completed[p] < N
  /\ probe[p] <= Probes
  /\ probe' = [probe EXCEPT ![p] = @ + 1]
  /\ rows' = IF probe[p] = 0 THEN [rows EXCEPT ![p][completed[p] + 1] = @ + 1] ELSE rows
  /\ UNCHANGED <<files, lock, pc, opt, code, completed, statistics, since, recent>>

\* One probe of the next observation: forward and backward.  The first one's
\* forward pass feeds the activation cache.
Probe(p) ==
  /\ pc[p] = "observe"
  /\ completed[p] < N
  /\ probe[p] < Probes
  /\ probe' = [probe EXCEPT ![p] = @ + 1]
  /\ rows' = IF probe[p] = 0 THEN [rows EXCEPT ![p][completed[p] + 1] = @ + 1] ELSE rows
  /\ UNCHANGED <<files, lock, pc, opt, code, completed, statistics, since, recent>>

\* finish_observation, and accumulator.add for every site.
FinishObservation(p) ==
  /\ pc[p] = "observe"
  /\ probe[p] = Probes
  /\ statistics' = [statistics EXCEPT ![p][completed[p] + 1] = @ + 1]
  /\ completed' = [completed EXCEPT ![p] = @ + 1]
  /\ since' = [since EXCEPT ![p] = @ + 1]
  /\ recent' = [recent EXCEPT ![p] = @ + 1]
  /\ probe' = [probe EXCEPT ![p] = 0]
  /\ Go(p, "commit")
  /\ UNCHANGED <<files, lock, opt, code, rows>>

\* The observation that comes next is counted already.
RecycleDueEarly(p, overLimit) ==
  /\ completed[p] < N
  /\ \/ opt[p].recycleEvery > 0 /\ recent[p] + 1 >= opt[p].recycleEvery
     \/ opt[p].pressure /\ overLimit

\* recycle_due, for a reading of the process's memory against its limits.
RecycleDue(p, overLimit) ==
  /\ completed[p] < N
  /\ \/ opt[p].recycleEvery > 0 /\ recent[p] >= opt[p].recycleEvery
     \/ opt[p].pressure /\ overLimit

\* Recycling does not force a commit.
CommitDueByCount(p, recycling) == completed[p] = N \/ since[p] >= opt[p].snapshotEvery

\* recovery.sensitivity_commit_due
CommitDue(p, recycling) ==
  completed[p] = N \/ since[p] >= opt[p].snapshotEvery \/ recycling

CommitOrGoOn(p) ==
  /\ pc[p] = "commit"
  /\ \E overLimit \in BOOLEAN :
       LET recycling == RecycleDue(p, overLimit) IN
       /\ IF opt[p].resume /\ CommitDue(p, recycling)
            THEN /\ progress' = [signature |-> opt[p].signature, completed |-> completed[p],
                                 rows |-> rows[p], statistics |-> statistics[p]]
                 /\ since' = [since EXCEPT ![p] = 0]
            ELSE UNCHANGED <<progress, since>>
       /\ Go(p, IF recycling THEN "recycle" ELSE IF completed[p] < N THEN "observe" ELSE "field")
  /\ UNCHANGED <<field, cacheFile, manifest, lock, opt, code, completed, probe, rows,
                 statistics, recent>>

\* raise SystemExit(75)
Recycle(p) ==
  /\ pc[p] = "recycle"
  /\ Exit(p, RECYCLE)
  /\ UNCHANGED files

\* A process that resumes with every observation committed has no loop to run.
NothingLeft(p) ==
  /\ pc[p] = "observe"
  /\ completed[p] = N
  /\ Go(p, "field")
  /\ UNCHANGED <<files, lock, opt, code, memory>>

\* The snapshot is deleted before the manifest is there.
SaveFieldDropProgress(p) ==
  /\ pc[p] = "field"
  /\ field' = [signature |-> opt[p].signature, statistics |-> statistics[p]]
  /\ progress' = None
  /\ Go(p, "cache")
  /\ UNCHANGED <<cacheFile, manifest, lock, opt, code, memory>>

SaveField(p) ==
  /\ pc[p] = "field"
  /\ field' = [signature |-> opt[p].signature, statistics |-> statistics[p]]
  /\ Go(p, "cache")
  /\ UNCHANGED <<progress, cacheFile, manifest, lock, opt, code, memory>>

SaveCache(p) ==
  /\ pc[p] = "cache"
  /\ cacheFile' = IF opt[p].resume /\ cacheFile # None
                    THEN cacheFile
                    ELSE [signature |-> opt[p].signature, rows |-> rows[p]]
  /\ Go(p, "manifest")
  /\ UNCHANGED <<progress, field, manifest, lock, opt, code, memory>>

SaveManifest(p) ==
  /\ pc[p] = "manifest"
  /\ manifest' = [signature |-> opt[p].signature]
  /\ Go(p, "cleanup")
  /\ UNCHANGED <<progress, field, cacheFile, lock, opt, code, memory>>

\* snapshot_path.unlink(), and the process ends.
Cleanup(p) ==
  /\ pc[p] = "cleanup"
  /\ progress' = IF opt[p].resume THEN None ELSE progress
  /\ Exit(p, SUCCESS)
  /\ UNCHANGED <<field, cacheFile, manifest>>

\* An exception, or a signal from outside, between any two steps.
Die(p, c) ==
  /\ pc[p] # "down"
  /\ Exit(p, c)
  /\ UNCHANGED files

Step(p) ==
  \/ Acquire(p) \/ LockBusy(p)
  \/ FindComplete(p) \/ Refuse(p) \/ Begin(p)
  \/ Probe(p) \/ FinishObservation(p) \/ CommitOrGoOn(p) \/ Recycle(p)
  \/ NothingLeft(p) \/ SaveField(p) \/ SaveCache(p) \/ SaveManifest(p) \/ Cleanup(p)

Next ==
  \E p \in Process :
    \/ \E o \in Launch : Start(p, o)
    \/ Step(p)
    \/ \E c \in {FAILURE, SIGKILLED, SIGTERMED} : Die(p, c)

Spec == Init /\ [][Next]_vars

-----------------------------------------------------------------------------
ResumeOnly == \A o \in Launch : o.resume

\* Where a manifest says a collection is complete, the two products beside it
\* were made with the manifest's settings and count every observation exactly
\* once, through every crash, recycling, retry and refused start on the way.
ExactlyOnce ==
  manifest # None =>
    /\ field = [signature |-> manifest.signature, statistics |-> Upto(N)]
    /\ cacheFile = [signature |-> manifest.signature, rows |-> Upto(N)]

\* The activation cache a worker is about to name in its manifest is the cache
\* of its own settings, also when it found the file there and kept it: "a
\* successful atomic final save can be reused if the worker died afterward".
ReusedCacheIsOwn ==
  \A p \in Process :
    pc[p] = "manifest" => cacheFile = [signature |-> opt[p].signature, rows |-> Upto(N)]

Ends(p, c) == pc[p] # "down" /\ pc'[p] = "down" /\ code'[p] = c

\* A worker that asks to be recycled leaves behind every observation it has
\* made, and at least one that was not there when it started: "never recycle
\* or finish with uncommitted observations".
RecycleLosesNothing ==
  [][\A p \in Process : Ends(p, RECYCLE) =>
       /\ progress # None /\ progress.completed = completed[p]
       /\ progress.signature = opt[p].signature
       /\ recent[p] > 0 /\ completed[p] < N]_vars

\* A worker that exits 0, at once or after the last observation, leaves a
\* complete collection of its own settings.
SuccessIsComplete ==
  [][\A p \in Process : Ends(p, SUCCESS) =>
       /\ manifest # None /\ manifest.signature = opt[p].signature
       /\ field # None /\ cacheFile # None]_vars

\* The observations no crash can take away any more.
Durable ==
  IF manifest # None THEN N ELSE IF progress # None THEN progress.completed ELSE 0

Published ==
  IF manifest = None THEN None
  ELSE [signature |-> manifest.signature, statistics |-> field.statistics, rows |-> cacheFile.rows]

C == INSTANCE Collection WITH committed <- Durable, result <- Published

\* Workers that all resume implement one collection: what is committed only
\* grows, and one exact result is published, once, when everything is.
ImplementsCollection == C!CollectionSpec
=============================================================================
