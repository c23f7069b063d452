-------------------------- MODULE CalibrateWorker --------------------------
(***************************************************************************)
(* scripts/calibrate_worker.py with calibration.calibrate_model: processes *)
(* that calibrate, site by site, one shard of the model into one output    *)
(* checkpoint, keeping every finished site in <output>.parts/site_XXXX.pt  *)
(* until the output holds them all.  A process may start at any moment,    *)
(* beside any number of others, and be killed between any two steps.       *)
(*                                                                         *)
(* A checkpoint is abstracted to the settings it was computed with and the *)
(* sites it holds.  It stores only part of the settings in the code (the D *)
(* and gamma configurations, the number of calls, the rotation), which is  *)
(* what Stored gives; the seed, the source model and the two sensitivity   *)
(* files are named by the identity in config.json alone.  Every save is    *)
(* one step: write_json and QuantizationCheckpoint.save rename a temporary *)
(* file of the process's own, and the output is an atomic_snapshot under   *)
(* the lock (AtomicSnapshot).                                              *)
(***************************************************************************)
EXTENDS Naturals

CONSTANTS Process,
          Site,      \* the site indices of this rank's shard
          Settings,  \* everything `identity` covers
          Stored(_), \* the part of the settings a checkpoint carries
          Launch,    \* the command lines that are used
          None,      \* no such file
          Nobody     \* the flock is free

ASSUME CalibrateAssumption ==
  /\ Site \subseteq Nat
  /\ Launch \subseteq [resume : BOOLEAN, settings : Settings]
  /\ None \notin Settings \cup Launch \cup [Site -> Settings]
  /\ Nobody \notin Process

VARIABLES
  identity, \* config.json: the settings of the .parts directory
  shard,    \* shard[i]: the settings site_i.pt was computed with, or None
  output,   \* the output checkpoint
  report,   \* <output>.json: the settings it says the output was made with
  lock,     \* who holds worker.lock
  pc,       \* where each process is
  opt,      \* its command line
  code,     \* the exit code of its last run
  entries   \* entries[p][i]: the settings its entry for site i was computed with

files == <<identity, shard, output, report>>
vars == <<files, lock, pc, opt, code, entries>>

NoEntry == [i \in Site |-> None]
Working == {"check", "load", "calibrate", "report", "recover", "clean"}
Made(s) == [i \in Site |-> s]
Finished(p) == {i \in Site : entries[p][i] # None}

TypeOK ==
  /\ identity \in Settings \cup {None}
  /\ shard \in [Site -> Settings \cup {None}]
  /\ output \in {None} \cup [Site -> Settings]
  /\ report \in Settings \cup {None}
  /\ lock \in Process \cup {Nobody}
  /\ pc \in [Process -> {"down", "boot"} \cup Working]
  /\ opt \in [Process -> Launch \cup {None}]
  /\ code \in [Process -> {None, 0, 1}]
  /\ entries \in [Process -> [Site -> Settings \cup {None}]]

Init ==
  /\ identity = None /\ shard = NoEntry /\ output = None /\ report = None
  /\ lock = Nobody
  /\ pc = [p \in Process |-> "down"]
  /\ opt = [p \in Process |-> None]
  /\ code = [p \in Process |-> None]
  /\ entries = [p \in Process |-> NoEntry]

-----------------------------------------------------------------------------
Go(p, there) == pc' = [pc EXCEPT ![p] = there]

\* Process p ends with exit code c: its memory is gone and its flock is free.
Exit(p, c) ==
  /\ Go(p, "down")
  /\ code' = [code EXCEPT ![p] = c]
  /\ lock' = IF lock = p THEN Nobody ELSE lock
  /\ opt' = [opt EXCEPT ![p] = None]
  /\ entries' = [entries EXCEPT ![p] = NoEntry]

Start(p, o) ==
  /\ pc[p] = "down"
  /\ Go(p, "boot")
  /\ opt' = [opt EXCEPT ![p] = o]
  /\ code' = [code EXCEPT ![p] = None]
  /\ UNCHANGED <<files, lock, entries>>

\* The checks of the activation cache, the sensitivity field and its manifest
\* have passed (they read files this worker does not write), then the flock.
Acquire(p) ==
  /\ pc[p] = "boot"
  /\ lock = Nobody
  /\ lock' = p
  /\ Go(p, "check")
  /\ UNCHANGED <<files, opt, code, entries>>

LockBusy(p) ==
  /\ pc[p] = "boot"
  /\ lock # Nobody
  /\ Exit(p, 1)
  /\ UNCHANGED files

ForeignIdentity(p) == identity # None /\ identity # opt[p].settings

\* An output is recovered whatever it was made with.
NoOutputIsForeign(p) == FALSE

\* done.d_config != ... or done.gamma_config != ... or done.num_calls != ...
ForeignOutput(p) == \E i \in Site : Stored(output[i]) # Stored(opt[p].settings)

\* There is an output, and the .parts directory was not new: had_identity.
FindsOutput(p) == opt[p].resume /\ identity # None /\ output # None

RefuseIdentity(p) ==
  /\ pc[p] = "check"
  /\ ForeignIdentity(p)
  /\ Exit(p, 1)
  /\ UNCHANGED files

RefuseOutput(p) ==
  /\ pc[p] = "check"
  /\ ~ForeignIdentity(p) /\ FindsOutput(p) /\ ForeignOutput(p)
  /\ Exit(p, 1)
  /\ UNCHANGED files

\* Settings that differ from those of config.json are let through.
PassCheckForAnyone(p) ==
  /\ pc[p] = "check"
  /\ ~(FindsOutput(p) /\ ForeignOutput(p))
  /\ identity' = IF opt[p].resume THEN opt[p].settings ELSE identity
  /\ Go(p, IF FindsOutput(p) THEN "recover" ELSE IF opt[p].resume THEN "load" ELSE "calibrate")
  /\ UNCHANGED <<shard, output, report, lock, opt, code, entries>>

\* config.json is written, and the worker goes to recover the output or to work.
PassCheck(p) ==
  /\ pc[p] = "check"
  /\ ~ForeignIdentity(p) /\ ~(FindsOutput(p) /\ ForeignOutput(p))
  /\ identity' = IF opt[p].resume THEN opt[p].settings ELSE identity
  /\ Go(p, IF FindsOutput(p) THEN "recover" ELSE IF opt[p].resume THEN "load" ELSE "calibrate")
  /\ UNCHANGED <<shard, output, report, lock, opt, code, entries>>

ForeignShard(p) ==
  \E i \in Site : shard[i] # None /\ Stored(shard[i]) # Stored(opt[p].settings)

\* Finished sites are not taken over.
LoadNothing(p) ==
  /\ pc[p] = "load"
  /\ ~ForeignShard(p)
  /\ Go(p, "calibrate")
  /\ UNCHANGED <<files, lock, opt, code, entries>>

\* for path in sorted(parts.glob("site_*.pt")), and resume_sites of calibrate_model.
\* A foreign shard, an exception in the code, is never there: see OwnShards
\* in CalibrateWorker_proofs.
LoadShards(p) ==
  /\ pc[p] = "load"
  /\ ~ForeignShard(p)
  /\ entries' = [entries EXCEPT ![p] = shard]
  /\ Go(p, "calibrate")
  /\ UNCHANGED <<files, lock, opt, code>>

-----------------------------------------------------------------------------
\* calibrate_site_d and calibrate_site_gamma for the next site that is not
\* resumed, and on_site_complete, which keeps its entry when the worker resumes.
CalibrateSite(p, i) ==
  /\ pc[p] = "calibrate"
  /\ i \notin Finished(p) /\ \A j \in Site : j < i => j \in Finished(p)
  /\ entries' = [entries EXCEPT ![p][i] = opt[p].settings]
  /\ shard' = IF opt[p].resume THEN [shard EXCEPT ![i] = opt[p].settings] ELSE shard
  /\ UNCHANGED <<identity, output, report, lock, pc, opt, code>>

\* The output is saved before the last site is in it.
SaveOutputEarly(p) ==
  /\ pc[p] = "calibrate"
  /\ Finished(p) # {}
  /\ output' = entries[p]
  /\ Go(p, "report")
  /\ UNCHANGED <<identity, shard, report, lock, opt, code, entries>>

\* atomic_snapshot(checkpoint.state_dict(), output)
SaveOutput(p) ==
  /\ pc[p] = "calibrate"
  /\ Finished(p) = Site
  /\ output' = entries[p]
  /\ Go(p, "report")
  /\ UNCHANGED <<identity, shard, report, lock, opt, code, entries>>

\* The JSON report beside the output, after calibrating or after recovering it.
SaveReport(p) ==
  /\ pc[p] \in {"report", "recover"}
  /\ report' = opt[p].settings
  /\ IF opt[p].resume
       THEN Go(p, "clean") /\ UNCHANGED <<lock, opt, code, entries>>
       ELSE Exit(p, 0)
  /\ UNCHANGED <<identity, shard, output>>

\* The site files are deleted once their entries are in memory.
UnlinkShardEarly(p, i) ==
  /\ pc[p] \in {"calibrate", "clean"}
  /\ shard[i] # None /\ \A j \in Site : j < i => shard[j] = None
  /\ shard' = [shard EXCEPT ![i] = None]
  /\ UNCHANGED <<identity, output, report, lock, pc, opt, code, entries>>

\* path.unlink() for the next site.
UnlinkShard(p, i) ==
  /\ pc[p] = "clean"
  /\ shard[i] # None /\ \A j \in Site : j < i => shard[j] = None
  /\ shard' = [shard EXCEPT ![i] = None]
  /\ UNCHANGED <<identity, output, report, lock, pc, opt, code, entries>>

\* The worker ends with site files left.
FinishEarly(p) ==
  /\ pc[p] = "clean"
  /\ Exit(p, 0)
  /\ UNCHANGED files

Finish(p) ==
  /\ pc[p] = "clean"
  /\ shard = NoEntry
  /\ Exit(p, 0)
  /\ UNCHANGED files

\* An exception or a signal between any two steps.
Die(p) ==
  /\ pc[p] # "down"
  /\ Exit(p, 1)
  /\ UNCHANGED files

Step(p) ==
  \/ Acquire(p) \/ LockBusy(p)
  \/ RefuseIdentity(p) \/ RefuseOutput(p) \/ PassCheck(p)
  \/ LoadShards(p)
  \/ \E i \in Site : CalibrateSite(p, i) \/ UnlinkShard(p, i)
  \/ SaveOutput(p) \/ SaveReport(p) \/ Finish(p)

Next == \E p \in Process : (\E o \in Launch : Start(p, o)) \/ Step(p) \/ Die(p)

Spec == Init /\ [][Next]_vars

-----------------------------------------------------------------------------
ResumeOnly == \A o \in Launch : o.resume

\* The output never joins sites that were calibrated with different settings,
\* whatever was killed, resumed, or started again with other settings.
OutputUniform == output # None => \E s \in Settings : output = Made(s)

\* What a worker recovers instead of calibrating, "already committed", was made
\* with its own settings.
RecoveredIsOwn == \A p \in Process : pc[p] = "recover" => output = Made(opt[p].settings)

\* The sites no crash can take away any more.
Durable == IF output # None THEN Site ELSE {i \in Site : shard[i] # None}

\* A finished site stays finished: its file goes only once the output has it.
NothingLost == [][Durable \subseteq Durable']_vars

\* A resuming worker does not calibrate a site again that it finds finished.
NoSiteTwice ==
  [][\A p \in Process, i \in Site :
       opt[p] # None /\ opt[p].resume /\ entries[p][i] = None /\ entries'[p][i] # None
       /\ pc[p] = "calibrate" => shard[i] = None]_vars

\* A worker that exits 0 leaves an output and a report of its own settings and,
\* when it resumes, no site files.
SuccessIsComplete ==
  [][\A p \in Process : pc[p] # "down" /\ pc'[p] = "down" /\ code'[p] = 0 =>
       /\ output' = Made(opt[p].settings)
       /\ report' = opt[p].settings
       /\ opt[p].resume => shard' = NoEntry]_vars
=============================================================================
