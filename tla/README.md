# Verification of the Fast-WAM SteerQuant pipeline

TLA+ models of this repository, the TLC runs that check them, and proofs of
their main theorems that TLAPS checks.  Paths below are relative to the
repository; `lib/` stands for `src/fastwam_steerquant/`.

The repository quantizes a robot policy to 4-bit weights and 8-bit activations
(W4A8).  Getting there takes many hours of one GPU: a collection of sensitivity
statistics, a calibration of every linear site, an export.  Much of its code is
about surviving those hours: out-of-memory kills, recycled processes, restarts,
shards, checks that nothing changed in between.  That part is concurrent,
crash-prone and hard to test.  The rest moves tensors between hooks, files,
paths and processes, where the hazard is the right number in the wrong place.
The models follow both, from the first observation to the deployed policy.

## 1. The system

### Components

| Component | State | Operations | What makes it correct |
|---|---|---|---|
| Atomic snapshots, `lib/recovery.py` | `<path>`, `<path>.pending` | write, fsync, replace | a reader of `<path>` sees a whole payload, also after a kill or a power loss |
| Sensitivity worker, `scripts/sensitivity_worker.py` | `progress.pt`, `sensitivity.pt`, `activation_cache.pt`, `manifest.json`, `worker.lock`; the accumulator and cache in memory | resume, probe, commit, recycle, publish | every observation counts exactly once in both products, for the settings the manifest names |
| Resumable launcher, `scripts/resumable_worker.py` | its child, two counters | spawn, restart on 75, retry on SIGKILL, stop on a signal | it ends unless a signal catches it in a wait; exit code 0 means a complete collection, 75 that its recyclings could not reach |
| Calibration worker, `scripts/calibrate_worker.py`, `lib/calibration.py` | `config.json`, `site_XXXX.pt`, the output and its report, `worker.lock` | check, resume, calibrate a site, consolidate, clean up | one output of one setting; no finished site is lost or made again |
| Calibration pipeline, `scripts/calibrate.py` | `run.json`, `pipeline.lock` | check the identity, run the launcher, then the calibration worker | the calibration starts on a complete collection of the run's own settings |
| Overnight supervisor, `scripts/overnight_calibration.py` | stage markers, `status.json`, process groups | verify, skip, block, start, poll, stop | stages are serial, nothing is overwritten, COMPLETE means what it says |
| Sensitivity collector, `lib/sensitivity.py` | hooks, captured inputs, sums per site | run a probe, finish an observation | each call of each site is captured once per probe |
| Activation cache, `lib/cache.py` | rows and priorities per cell, a generator | add, merge, save, load | the reservoir does not depend on interruptions |
| Observation files, `lib/adapters/observations.py` | record files | validate, save, merge | a merge has every episode once |
| Sharding and merging, `scripts/calibrate_worker.py`, `scripts/merge_artifacts.py`, `lib/checkpoint.py` | none | balance sites, merge shards | shards are disjoint and cover the model |
| Pinned offload, `lib/offload.py` | a byte budget | pack, unpack, release | the budget is kept and given back |
| Policy runtime, `lib/policy.py`, `lib/rollout_graph.py`, `lib/state.py` | the lock, the call index and counters, captured graphs | infer, capture, replay, refuse | every call uses its own gains; a failed or refused inference leaves no trace |
| Deployment, `lib/deployment.py` | the output file | export, load | an export is never replaced; aliases are kept |
| Streams and topology, `lib/streams.py`, `lib/topology.py` | none | classify modules and calls | each site belongs to one stream |
| Quantization arithmetic, `lib/quant.py`, `lib/rht.py`, `lib/calibration.py` | none | quantize, rotate, optimise D and gamma | numerics within a bound |
| Quantized linears and kernels, `lib/runtime.py`, `lib/kernels/` | prepared weights | pack, select a kernel per call and stream, multiply | packing loses nothing; each call uses its own gain |
| Runtime profile, `lib/runtime_profile.py`, `lib/runtime.py` | the tile in the environment, the tile configured, the loaded extension | settle a profile, check the metadata | a policy under the profile runs as it says, whatever the process did before |
| Adapters, `lib/adapters/` | none | glue to models and datasets | |
| Evaluation, validation, audits, benchmarks, `scripts/` | reports | run, compare, write | |

### How they interact

The supervisor runs its stages as child process groups, one after the other.
One stage is `calibrate.py`, which runs `resumable_worker.py` over
`sensitivity_worker.py` and, when that exits with 0, `calibrate_worker.py` on
what was collected.  All of these talk through exit codes, signals and files
only; each output directory is guarded by a `flock` of its own.
The deployed policy is the other concurrent part: threads share one
`QuantizedPolicy`, its call index and its CUDA graphs.
Every process can be killed between two steps and started again with the
same, or other, command lines.

### What is hard

* **Kills between any two steps**: memory is lost, locks are free, files stay.
* **Exit codes as messages**: 75 (recycle), -9 (retry), 0 (done), through three
  levels of processes, with a signal handler that reads `child` while the main
  program assigns it, and waits for it on top of the main program's wait.
* **Checked, then used**: settings found on disk decide what is taken over; a
  source fingerprint is taken before the process that imports the source runs.
* **Several settings in one directory**: files that carry all, part or none of
  the settings that made them.
* **Baked-in state**: a CUDA graph captured once keeps the gains of that moment
  and is replayed in every later inference, also after one that failed half-way.
* **Progress**: recycling, retries and memory pressure must not go in circles.
* **Identity**: a host copy of an input is found again by `id()`, which a freed
  tensor gives to the next one, and tensors are written to in place.
* **Order**: captures are made going forward and scored going backward, in
  autograd's order; parts of the graph get no gradient, and what they have
  pinned must come back all the same.
* **Random state**: a reservoir is the same with and without a crash only when
  its generator is restored with its rows.
* **Aliases**: one Linear has several registered paths, some through shared
  parents, some of its own; shards of several ranks are merged into one file.
* **Process-wide settings**: the tile of the kernels is read once per process,
  and policies with and without the profile come and go in any order.

`PROJECT.json` lists each hazard at its line with the property that covers it,
or the reason none does yet.

## 2. The modules

| Module | Models | Role |
|---|---|---|
| `AtomicRegister` | the promise of a save | abstract |
| `AtomicSnapshot` | `recovery.atomic_snapshot`, one action per system call | implements `AtomicRegister` |
| `Collection` | the promise of a sensitivity output directory | abstract |
| `SensitivityWorker` | `sensitivity_worker.py` | implements `Collection` |
| `ResumableWorker` | `resumable_worker.py`, EXTENDS `SensitivityWorker` | composition |
| `CalibrateWorker` | `calibrate_worker.py`, `calibrate_model` | |
| `OvernightSupervisor` | `overnight_calibration.py` | |
| `PolicyRuntime` | `policy.py`, `state.py`, `rollout_graph.py` | |
| `Streams` | `streams.py`, the layouts | operators |
| `ActivationCache` | `cache.py`, a cache as a value | operators |
| `SensitivityField` | `sensitivity.py`, accumulator and fields | operators |
| `Collector` | hooks, captures, scores, pinned offload, shards; uses the three above | composition |
| `QuantizationCheckpoint` | `checkpoint.py`, `topology.py`, site balancing | operators |
| `QuantLinear` | `runtime.py`, packing, replacement in place, fusions; EXTENDS the one above | operators |
| `PackedDeployment` | `deployment.py`; EXTENDS the one above | operators |
| `Deployment` | merge, export, and a server process that builds and runs policies | composition |
| `MC...` | constants of the TLC instances | |
| `..._proofs` | theorems | |

Definitions named like a mistake (`SaveFieldDropProgress`, `RetryKilledForever`,
`MarkerIsGoodForAnyone`, ...) stand before the definition they vary.  They are
in no specification: put in the place of the original, each breaks a property
and shows that the property says something about the code.

### AtomicSnapshot

`dir` holds what the names `<path>` and `<path>.pending` refer to now and
`diskDir` what they refer to after a power loss; `data[i]` is the content of
inode `i` in pieces, `synced` the inodes whose data is on the disk.  `Open`
truncates whatever inode the pending name has, as `open("wb")` does.  Processes
may be killed between any two system calls; a power loss keeps a prefix of the
renames and leaves unsynced inodes with holes.  `Locked` tells callers that
hold a lock (both workers) from those that do not (the exporter).  The
file-system assumption is a journal: names become durable in order.

### SensitivityWorker

The files are variables; a process has a program counter that follows `main()`:
`boot` (before the flock), `open` (what `--resume` finds), `observe`, `commit`
(deciding on the snapshot and on recycling), `recycle`, then the final saves
`field`, `cache`, `manifest`, `cleanup`.  `Exit` forgets the memory and frees
the flock.  Tensors are abstracted to counts: `rows[p][i]` and
`statistics[p][i]` say how often observation `i` was fed to the activation
cache (the first probe of an observation does that) and to the accumulator (at
its end).  The difference matters: a crash between the two is what "exactly
once" has to survive.  Saves are single steps.  For `progress.pt` and
`activation_cache.pt`, AtomicSnapshot justifies this; the other two files are
written to a temporary name and renamed, which is atomic for readers but not
synced, so power losses are outside this model (section 6).

### ResumableWorker

A launcher over these workers.  `Popen` is two actions, `Fork` and `Assign`,
because the signal handler sees the old `child` in between.  A launcher that
is signalled there or SIGKILLed leaves its worker behind, holding the lock.
`Wait` is the moment at which `child.wait()` takes the lock of its `Popen` object
(`_waitpid_lock` of CPython's `subprocess`), which is not reentrant.  A handler that
runs before it waits for the worker and exits (`stopping`, `StopDone`).  One
that runs on top of it terminates the worker, but `poll()` and `wait(timeout=30)`
cannot learn of its end, and the last `wait()` never returns (`hanging`).  A second signal
can do the same to a handler.  Only SIGKILL ends such a launcher.
Workers in `Other` belong to nobody.  `disturbed` is a history variable: some
event other than a SIGKILL of a worker happened.

### CalibrateWorker

A checkpoint is abstracted to the settings that made each of its sites.
`Stored` is the part of the settings that a checkpoint carries (D and gamma
configuration, number of calls, rotation): the code can compare no more than
that.  `identity` is `config.json`, which covers all of them.  Optimising D and
gamma for a site is one step.

### OvernightSupervisor

One supervisor (both flocks admit one).  A process group has a leader, the
child of `Popen`, and possibly descendants (`rest`); either may outlive the
other.  A group imports the source at a moment of its own, and its outputs carry
the version it imported.  A leader may exit 0 with its outputs or without them
(`NoOutput`), but leaves no descendants when it does: `run_stage` does not stop the group
then, and the commands of the stages wait for what they start.  `SignalPoint` says where a SIGTERM may find the
supervisor, `Editing` whether the source may change while it runs.  The
operator edits, deletes outputs while nothing runs, and looks for leftover
processes before restarting a supervisor whose status still says RUNNING, as
`docs/OVERNIGHT_CALIBRATION.md` asks.

### PolicyRuntime

Threads call `QuantizedPolicy.infer`.  Inside, `pc` follows the nested calls:
the policy (`reset`, `kwargs`, `infer`, `count`, `clear`, `release`), the graph's
`infer` around the model's (`check`, `begin`), the model's denoising loop
(`model`), and the core it calls (`core`, and with a graph `capture`, `replay`).
`installed` is chosen at the start (`cuda_graph`).  An inference computes what
the gains of its calls make of its inputs, so it is abstracted to
`used[t][k]`, the gain its call `k` used: without a graph the `index` found in the
`DenoiseCallState`, with one the gain baked into the entry at its capture.
A record stands for the schedule its kwargs ask for, the number of calls the
model makes of it, and the layout of its inputs (`_signature`).  `Interrupt` is
an exception from anywhere inside (adapter, model, CUDA, validation of a
captured graph); it leaves by the same `finally` blocks as every other
(`Raise`).  `LiveJointDiTGraph.remove` is called once, by somebody else, in two
steps, because it synchronises the GPU between looking at `_active` and taking
the graph out.  The gap between acquiring the lock and entering the `try` has
no statement that can raise and is one step.

### Collector

What a process of the sensitivity worker does inside one trajectory, which
`SensitivityWorker` counts as one row.  `pc` follows the worker and the hooks: `observe`,
`probe`, then `input` and `linear` in turn for each Linear of each denoising
call (position `at`), `check` (`validate_forward`), `backward`, `finish`,
`commit`.  `tensors[i]` is the live tensor with `id()` `i`; `NextInput` makes
the next one, frees any of the others, passes the last one on, writes to it in place,
or gives the context, as `setting.feed` says of each site.  `offloads` is the
table of host copies that `--optimized` looks inputs up in.  `BackwardHook(k)`
may fire for the keys in any order, and fires for those in `Reached` only.
`saved` and `activeBytes` are the pinned budget.

Tensors are abstracted to their *origin*: `<<o, p>>` is what the model writes
at position `p` of observation `o`.  A score is abstracted to the record of what it is computed
from (cell, probe, input), a sum of squares to the set of its terms and its
count, a row of the cache to its content and index.  So "the right numbers" is "made
from the right things, each once".  `ActivationCache` draws the priority of row
`n` from `Random(seed, n)`; saving and loading move the seed and the number of
draws, as `get_state` and `set_state` do.  `deviceSums` is a dictionary, as in the code: its keys, sorted
(`Sorted`), say where in the one transfer to the host a value is found.  `Crash` may come anywhere, and whether a
snapshot is due is open.  The shards are collected one after the other, each in its
own directory, and merged at the end.

### Deployment

A *model* is its target names, the attribute each registered path leads to
(`slot`) and the module each attribute holds (`module`); Linears with one `id`
are one object.  Model, a constant, is what builders may make, so that the exporter's
model, and that of every server, may differ in paths, sharing and shapes.
`QWeight(name, k, config)` stands for what calibration arrives at, and entries carry
the configuration (`by`) that scales and signs come from, to tell whose they are.
`Pack`, `Unpack` and `Signed` work on the integers themselves.

`MergeArtifacts` takes any one or more files that ranks may have left, of any
number of ranks and any configuration, also twice the same or not all.
`Export` and `BuildPolicy` have all the checks of `export_deployment`,
`_validate_payload` and `load_deployment` as guards.  A server process is its
environment (`tile`, `small`), what `configure_tile64` keeps (`configured`) and
the tile of the loaded extension (`extension`).  The constructor of a policy is
two steps, because loading takes long and the policies that exist run meanwhile;
`BuildFails` is an exception in it, which leaves the tile configured.
`ReplaceStage` is the other way to a quantized model, in place.

## 3. The runs

| Run | Question | Bounds |
|---|---|---|
| `snapshot_locked` | Are locked saves those of one register, with kills and power losses? | 2 writers, 2 payloads of 2 pieces, 4 inodes |
| `snapshot_unlocked_export` | Does the same hold without the lock? **No** | same |
| `sensitivity` | Is the collection exact, and does it implement `Collection`? | 2 processes, 3 observations, 2 probes, 4 command lines with 2 settings |
| `mixed_settings` | Is a cache that is kept one's own, when some run did not resume? **No** | 2 processes |
| `resumable` | Does the launcher end, does 0 mean complete, and 75 out of reach? | 1 launcher and 1 foreign worker, 3 observations, 1 recycling, 1 retry |
| `calibrate` | One setting, nothing lost, nothing twice? | 2 processes, 2 sites, 3 settings |
| `adopted_output` | Is a recovered output always one's own? **No** | same |
| `overnight` | Serial, no leftovers, no overwriting, COMPLETE uniform, ends? | 4 stages of 4 kinds, 2 versions, 2 groups |
| `overnight_edited` | COMPLETE uniform when the source is edited meanwhile? **No** | same |
| `collect` | Are captures, scores, reservoirs and the budget those of a plain run without crashes? | 3 sites, 2 calls, 2 probes, 3 ids, 2 rows per cell, shards of 2 and 1 observations, every pattern of inputs |
| `deploy` | Is a deployment complete, does a policy run its own weights, is a profile honoured? | 6 models, 4 configurations, 2 ranks, 2 inputs of a merge, 2 policies |
| `policy` | Does every inference use its own gains, fail only for its own reasons, and give back what it took? | 2 threads, 2 denoising calls, 2 layouts, 5 records |

**Why these bounds are enough.**
*Snapshots*: two writers are enough for interference, two pieces for a torn
payload; an inode is free for every `Open` because at most two names, twice (now
and on the disk), and the holder refer to one.
*Sensitivity*: with three observations a process can commit one, lose one and
have one left; two probes separate feeding the cache from finishing; the four
command lines commit every observation, every second one, or only at the end,
and recycle by count, by pressure or never.  Two processes are all that interact:
one holds the lock, one finds it taken or comes next.
*Launcher*: one recycling and one retry are enough to use the last of each.  With
three observations a worker that recycles after each of them, by count or by
pressure, needs one recycling more than is allowed, and the launcher gives up with 75; one
that recycles after two has enough, and must complete.  Signals are unlimited.
*Calibration*: two sites are enough for "some but not all"; `s1` and `s2`
differ in the seed, which a checkpoint does not carry, `s3` in the epochs,
which it does.
*Supervisor*: stage 1 always runs (preflight), stage 3 resumes (`calibrate.py`),
2 and 4 start afresh; two versions give "changed" and "changed back".  Two
slots for groups let a second group exist if the code ever allowed it.

*Policy*: the lock admits one thread, so a second is enough to be refused and to
come next; two calls tell an index from the next one and from the first; the
records are two that fit but for their layouts, a wrong schedule, and models that
make one call too few or too many.  Exceptions are unlimited.

*Collection of one process*: the three sites have one and two streams, and saved tensors below the
offload's threshold, within the budget, and beyond what is left of it (`MaxPinned` holds one or the
other, not both).  Three ids are enough for the context, the last input and one
that takes a freed id.  All patterns of new, passed on, overwritten and context inputs are
initial states; the last call of one site is not reached by the gradient.
Two rows per cell are fewer than a shard feeds, so reservoirs overflow, before
and after a crash and in the merge; the draws are in no order and
contain ties.  The shards have one seed, as the worker's default gives them: their draws coincide.
One setting has shards of different rotations, whose merge is refused.
*Deployment*: the models are the plain one; one with paths through a shared parent and
a shortcut; the same with the shortcut a copy; one with two targets tied to one Linear; one
with another shape; one with a target less.  Of the configurations, two differ in
metadata and two only in the seed of the rotation, which nothing that is
compared shows.  Two ranks and two inputs give missing, doubled and mixed
shards; two policies are enough for one to run before, or next to, another.

**What the properties say.**  `ImplementsRegister` and `ImplementsCollection`
are refinements: every step of the detailed module is a step of its promise or
no step at all.  The refinement mapping of the second takes what no crash can
take away (`Durable`) for the committed observations.  `ExactlyOnce`,
`RecycleLosesNothing` and `SuccessIsComplete` relate files, memory and exit
codes.  `LauncherSuccess` is what `calibrate.py` relies on, `RecycleBuysProgress`
what makes `--max-recycles` a bound on observations and not on luck: the defaults
(100 recyclings, one every 2 observations) reach to 202 observations, and only a longer
collection, or one under memory pressure, may end with 75.  `CompletesWhenCalm` is the
other half: where they reach, the launcher completes.  `LauncherEnds` admits one
way not to end, the hang of section 4, in which no worker is left running.
`OutputUniform`, `NothingLost` and `NoSiteTwice` are the three ways in which
resuming can go wrong.  `OneGroup`, `NothingLeftRunning`, `NeverOverwritten` and
`CompleteIsUniform` are the promises of the supervisor's documentation.
`ReturnsOwnGains` is what a caller of `infer` relies on: no shifted index and no
stale graph in what is returned.  `FailsForAReason` is its counterpart: what
happened to earlier or to refused inferences never makes one fail.
`CleanBetween` and `LockComesFree` say that a policy stays usable.
`CapturesFaithful` says that reuse of ids and writes in place never pass one
input off as another.  `MatchesReference` compares what the lazy collector has
summed, in memory, in a snapshot, published and merged, with what
`estimate_action_sensitivity` would compute, defined without hooks, order or
crashes.  `ReservoirUninterrupted` does the same for the cache: its cells are a
topk of all rows fed, with the draws of one generator that was never restarted.
`BudgetKept` is the accounting of pinned bytes.
`DeploymentComplete` is about the merged and exported file: no target missing,
none with two settings, no path with its original weights.  `UsesOwnWeights`
carries that into the models of running policies, and `ProfileHonoured` is what
the profile promises beside it.

A merge that repeats a shard of sites is refused, one of some ranks only is not: nothing in
a checkpoint says how many ranks there were.  `DeploymentComplete` holds because
the export compares the sites with the targets of the model (`Covers`).

`CompleteIsUniform` leaves the *source version* of resumable stages out:
`calibrate.py` compares its configuration and adapter
(`lib/adapters/base.py:48`) but not the library's source, so a collection begun
before an edit is continued after it.  That their marker fits is checked.

**Deadlock.**  Workers and launchers stop for good when every process is done, and an
exporter that finds an output does nothing, so the runs of these modules switch
the deadlock check off.  `snapshot_locked`, `overnight`, `overnight_edited`, `policy`,
`collect` and `deploy` keep it on: writers, operators, callers and servers can always
go on, and a collector that is stuck before the merge is over would be a mistake.

**Fairness.**  `ResumableWorker` assumes that processes that run keep running:
weak fairness of each launcher's next step and of each worker's.  No signal,
kill, failure or command ever has to happen.  This is what the scheduler gives;
`child.wait()` of the main program returns once the worker ended, so the launcher needs nothing
stronger; a launcher that hangs in its handler has no next step.  `OvernightSupervisor` assumes weak fairness of the supervisor alone.
Its children owe it nothing and may hang for ever: `SupervisorEnds` then rests on the timeout
of the poll (`Expires`) and on SIGKILL for the group (`KillGroup`).
`PolicyRuntime` assumes that a thread inside `infer` keeps running (weak fairness
of its `Step`); calls, exceptions and a remove need not happen.  This includes that
the model and the GPU return.

## 4. Findings

Four runs are expected to fail.  Each shows that the code does not do what a
line of the repository says.

1. `snapshot_unlocked_export`: `recovery.py:45` requires an exclusive lock of
   the callers of `atomic_snapshot`; `deployment.py:115` only tests that the
   output does not exist.  Two exporters write into one pending inode and a
   half-written payload is published.
2. `mixed_settings`: `sensitivity_worker.py:328` takes a cache it finds for its
   own ("This file is only produced after all observations are committed").  A run
   without `--resume` that was killed before its manifest leaves one as well, and
   beside a `progress.pt` of other settings nothing tells them apart.
3. `adopted_output`: `calibrate_worker.py:110` recovers an output as "already
   committed" when it fits the settings a checkpoint carries.  Seed, source
   model and sensitivity file are not among them.
4. `overnight_edited`: `docs/OVERNIGHT_CALIBRATION.md:89` says of edits while the
   script runs that it detects changes and stops.  The source is compared when a stage starts; what the stage imports
   afterwards and is changed back in time, or during the last stage, is not noticed.

Everything else the modules state holds.

Two more disagree with no line of the repository, so no run expects them to fail.
A launcher that gets SIGTERM or SIGINT while it waits for its worker, where it
spends nearly all its time, stops the worker and then hangs at
`resumable_worker.py:26` instead of exiting with `128 + signum`; `calibrate.py` above it, unless it is
signalled too, waits with it.  The supervisor is not affected: `stop_group` sends SIGKILL to the
group after ten seconds.  And a launcher gives up with 75 on a collection
its recyclings cannot reach (`calibrate.py:67` leaves the default of 100).  The properties of `resumable`
state both exactly.

## 5. The theorems

Proved by TLAPS for every value of the constants that the named assumptions
allow; `PROJECT.json` lists them with the run that checks the same property.

* **`AtomicSnapshot_proofs`** (assumption: `Locked`).  `Typing`, `NeverTorn`
  (`[]FinalWhole`) and `Refinement` (implements `AtomicRegister`).  The invariant
  says that only the lock's holder is past `Open`; that what it has written of
  its pending inode is of its own payload; and that any inode a durable
  `<path>` can name is synced and whole.  The last part is needed because
  `FinalWhole` alone is lost at a power loss.
* **`SensitivityWorker_proofs`** (assumption: `ResumeOnly`, as every start by
  `resumable_worker.py` is).  `Typing` (unconditional), `Exactness`,
  `CacheReuse`, `Recycling`, `Success`, and `Refinement` (implements `Collection`).
  The invariant ties memory to disk: a
  working process holds the lock; its counts are exactly `Upto(completed)`, plus
  one row when a probe is done; a snapshot on disk is exact for its own length;
  and each file of the final sequence, once there, was made from `progress` of
  the same settings.  The last is why a cache that is found may be kept.
* **`ResumableWorker_proofs`** (assumption: `ResumeOnly`).  `LauncherTyping`,
  `RecyclingPays`, `LauncherSucceeds`.  The invariant adds to the worker's that
  its process carries its command line, and that what its recyclings stand for
  (`Paid`: their number times `Pace`, `--recycle-every` or 1) is committed, as is
  one `Pace` more when an exit code 75 has not been seen by the launcher yet (`Owns`).
  A collection of that length is never the whole one, which is why `RecyclingPays`
  gives the 202 observations of the defaults, for any number of kills and signals.
* **`CalibrateWorker_proofs`**.  `Typing`, `Uniformity`, `Durability` and `NoRework`
  without any assumption on the command lines, `Recovery` and `Success` under `ResumeOnly` (the run
  `adopted_output` shows why).  The invariant's main part, `OwnShards`, says
  that every site file was made with the settings in `config.json`: the
  comparison of a shard with the worker's settings then never fails, which is
  why `LoadShards` needs no failing alternative.

* **`PolicyRuntime_proofs`** (assumption: only that the constants make sense).
  `Typing`, `OwnGains`, `Cleanness`, `NoTraces`.  The invariant says that the lock's
  holder is the one thread inside and the graph is active for it alone
  (`Serialized`), that a graph has its own index baked in (`Baked`), that the
  tracker and the graph have counted what the thread did (`Counting`), and, for
  a thread nothing got in the way of, that the graph is still there and agrees
  with the tracker (`Undisturbed`).  The last is what `NoTraces` needs: without it
  the checks of the graph's `_call` might reject an innocent inference.

* **`OvernightSupervisor_proofs`**.  `Typing` without further assumptions;
  `OneAtATime`, `NobodyLeft` and `NoOverwriting` under `SignalsCaught` (no
  signal between `Popen` and its `try`, nor inside `stop_group`: with one, all three
  fail on the instance of `overnight`); `Completeness` also under `~Editing` (the run `overnight_edited` shows why).
  The invariant says that the supervisor's own group is the only one alive, or
  one that a SIGKILL of the supervisor left behind while the status says RUNNING
  (`OnlyCurrent`), that a child that succeeded has no descendants
  (`Settled`), and that a group which will write for a stage that starts afresh
  finds nothing there (`NothingThere`); without the last, `NeverOverwritten` would
  depend on what was looked at several steps before, and a child that exits 0 without
  writing might pass for one that wrote.  `Uniform` adds that all markers and
  outputs so far are of the supervisor's identity.
* **`Collector_proofs`** (assumption `CollectorAssumption`: that the constants make
  sense; layouts are accepted ones, an observation stands for one place in
  one shard, priorities are numbers).  `Faithful`, `Typed`, `Kept`, `Matches` and
  `Uninterrupted`: all invariants of the run `collect`, for any model, number of
  sites, calls, probes, shards and ids, any layouts, any set of calls that gradients reach and
  any order in which they arrive.  Four invariants build on one another.
  - `IInv`, for the captures: a host copy belongs to this trajectory, is
    never newer than the tensor that has its id and object, and has its
    content when it is as old (`Copied`).  A new tensor cannot match a copy because its
    object is of a later position, one written to cannot because its version is.
    `KeyAt` and `SameCall` are the arithmetic of positions, sites and calls.
  - `CInv` adds the types and `Budget`: `activeBytes` is the sum over *all* positions
    of what each has pinned.  This form is inductive, as each step changes one position or
    drops all; `BudgetKept` then needs no more than that nothing is saved between trajectories.
  - `SInv` adds `Hooked`, `Scoring` and `Counted`.  `Scoring` says how many probes each
    key has scored so far (`Scored`: one more once its gradient arrived) and that its sums are
    exactly those, in the order of the probes.  At the end of an observation `FinalScores` turns that into the
    reference: `Flattened` shows that `Offset` finds the value of stream
    `i` of key `k` in the concatenation of all, `SortedFacts` that each key has one place in the order.
    `Counted` is `MatchesReference` with the number of artifacts there are;
    that observations count once rests on `UnionCardinality`, by which counts of disjoint shards add up.
  - `RInv` adds `Feeders` and `Reservoirs`: how far the current observation has fed (`HowFar`), that the cache's
    generator has drawn exactly as often as rows were fed, and that each cell is a topk
    of its rows (`IsReservoir`), in memory, in `progress`, published and merged.  The heart is
    `TopOfKept`: a topk of what a reservoir kept and new rows is a topk of all rows
    ever, ties and all, provided no two rows are one; `NewRowsFacts` gives that
    from positions and streams.

  `StreamsPartition` is about layouts alone: the slices of an accepted one are
  disjoint and cover the sequence.
* **`Deployment_proofs`** (assumption: models and configurations are well formed;
  Linears with one id are one).  `UnpackPack`, `Typing`, `Completeness`,
  `OwnWeightsEverywhere`, `Profiles`, for any set of models, configurations and
  ranks and any number of policies.  The invariant follows the data: an entry of
  a checkpoint is some target of some model under a configuration of the
  checkpoint's metadata (`Calibrated`); the file holds such an entry's buffers
  under every path (`PathsOwned`), and nothing but Linears and buffers (`Stored`);
  a policy's model keeps the shape of the built one and has those buffers
  (`ModelHolds`).  `OneEntryPerLinear` is where "no two targets share a Linear" is
  needed, in the export as well as the load.  For the profile, `TileSettled` says that once
  a tile is configured no other was ever launched, and `BuildingHolds` carries it
  across the constructor.
  Four theorems are about what the checks *accept*, since checks that refuse everything would be
  safe as well.  `SitesPartitioned` and `LoadsEven`: `balanced_site_indices` gives each
  site to one rank, and no rank more than another by more than the largest Linear, for any
  number of ranks (by induction over the turns, `AssignKeepsEven`).  `ShardsAreTheWhole`: the files of all
  ranks merge to the checkpoint a single rank would have made.  `ExportsLoad`: what an
  export makes of a model passes every check of the load into that model.

**Induction over data.**  The library's induction theorems take an operator
as a parameter, which the provers cannot instantiate.  `NatSetInduction` has the same content
with a set in its place (a set with 0 and, with each number, the next one, contains `Nat`), and follows from the
well-foundedness of `<` on `Nat`.  A recursive function is then reached through the set of
numbers for which a *table* exists, a function that satisfies the recursion up to there: `SumTableExists`
for the sums of the community modules, `FlatTableExists` for concatenation, `FedTableExists` for
the streams fed one after the other, `BalanceTableExists` for the assignment of sites.  From these follow what the proofs use:
a sum takes any element out (`SumTakesAny`), splits (`SumSplit`), and grows with its interval (`SumUpto`).

**Only model-checked.**  Liveness (`LauncherEnds`, `CompletesWhenCalm`,
`SupervisorEnds`, `LockComesFree`): TLAPS does not handle ENABLED and fairness.
Every other property of a passing run is stated by a theorem.

## 6. Not modelled, and why

* **Floating point, CUDA kernels, optimisation of D and gamma, Hadamard transform**:
  out of TLC's reach.  Integer parts (packing, shapes, site balancing, token
  layouts) are modelled.  The reference backend and the W4A4 extension, which has no tile to choose, are left
  out of `QuantLinear`.
* **Power losses above `AtomicSnapshot`**: `sensitivity.pt` and `manifest.json`
  are renamed without fsync before `progress.pt` is deleted.  Listed as a
  hazard; needs a model with a durable and a volatile directory per file.
* **Signals between `Popen` and the `try`, and inside `stop_group`**: the pass
  run excludes them (`SignalsInTry`).  They leave a group behind, and the
  documentation's advice to look for leftover processes then applies.
* **A stage that exits 0 and leaves descendants**: `run_stage` would go on to the next
  stage beside them.  The commands of this repository wait for what they start.
* **Threads in the constructor of a policy**: `ResolveProfile` checks and sets the tile in
  one step; a first launch by another thread between `runtime_profile.py:41` and `:43` is
  left out, as is the removal of a policy's graph in `Deployment` (it is in `PolicyRuntime`).
* **Downloads, prerequisites and disk space of the supervisor**: one step that
  passes or blocks.
* **Callers around the policy**: code that calls `model.infer_action` on several
  threads without `QuantizedPolicy.infer` could pass the check of `_active`
  together.  Nothing in the repository does; `remove` is the exception that is
  modelled.  `FastWAMCallTracker.remove` is sequential and left out.
* **Of deployments**: nonpersistent buffers, devices, dtypes, provenance, and the
  check of the calibration's manifest in `scripts/export_deployment.py`.  They
  compare or copy what was given and keep no state.
* **Of the collector**: channel maxima (taken of every row, like the count of rows), GPU streams and
  events that order the copies, checks of stream names and widths, and
  `expand_stream_gains`, which is per call and without state.
* **Merge of observation files** (`merge_observation_files` in
  `lib/adapters/observations.py`): a sequential concatenation with checks.
* **Adapters, evaluation, audits, benchmarks**: sequential glue to packages
  outside the repository; they enter as stages that succeed or fail, as the models
  that builders make, as `custom` in `BuildPolicy` and as `ReplaceStage`.

## 7. The plan

Done: snapshots, sensitivity worker, launcher, calibration worker, supervisor,
policy runtime, collector with cache and offload, deployment with packing,
merging and profiles, and proofs for all of them.  Next, in this order:

1. `CalibrationPipeline`: `calibrate.py` over the launcher and the calibration
   worker; its lock, its `run.json`, and what is left behind when it is killed
   between the two.  Abstract specification: a checkpoint of the run's own
   settings, made from a collection of the run's own settings.
2. Power losses in the final saves of the sensitivity worker, with a durable
   and a volatile content per file, as in `AtomicSnapshot`.
3. The merge of observation files.
4. A refinement of one row of `SensitivityWorker` by a trajectory of
   `Collector`.

## 8. Running

    tlc -config sensitivity.cfg MCSensitivityWorker.tla
    tlapm SensitivityWorker_proofs.tla

`PROJECT.json` names the module, the configuration and the expected outcome of
every run, maps each definition to the lines it translates, and gives, for each
checked property, a variation of the code that breaks it.
