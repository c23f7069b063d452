------------------------ MODULE OvernightSupervisor ------------------------
(***************************************************************************)
(* scripts/overnight_calibration.py: a supervisor that takes its stages    *)
(* one after the other, each a child in a process group of its own, keeps  *)
(* a marker with the checksums of every finished stage, and stops the      *)
(* group of the current stage before it gives up.  It can be signalled or  *)
(* killed anywhere and started again; in between the operator may edit the *)
(* source and delete outputs.                                              *)
(*                                                                         *)
(* Both flocks of main() admit one supervisor, so there is one.  A file's  *)
(* checksum is abstracted to the version of the source its maker imported. *)
(* After a SIGKILL the operator looks for leftover children before the     *)
(* next start, as docs/OVERNIGHT_CALIBRATION.md asks.                      *)
(***************************************************************************)
EXTENDS Naturals, FiniteSets

CONSTANTS Last,        \* stages are 1..Last, in the order of execute()
          Always,      \* stages without outputs that are never skipped
          Resumable,   \* stages whose command can go on from its own files
          Version,     \* fingerprints of source, configuration and plan
          Job,         \* numbered slots for process groups
          SignalPoint, \* where a SIGTERM may find the supervisor
          Editing,     \* may the source be edited while the supervisor runs?
          None

Stage == 1..Last

ASSUME SupervisorAssumption ==
  /\ Last \in Nat \ {0}
  /\ Always \cup Resumable \subseteq Stage /\ Always \cap Resumable = {}
  /\ Job \subseteq Nat
  /\ None \notin Version \cup Job
  /\ Editing \in BOOLEAN

VARIABLES
  source,  \* the fingerprint of the repository and the plan now
  output,  \* output[s]: the version that made it, or None
  marker,  \* marker[s]: <name>.done.json, or None
  job,     \* the process groups
  pc,      \* where the supervisor is; "down" when it does not run
  stage,   \* the stage it is at
  ident,   \* self.identity
  current, \* the group it created last, None before
  why,     \* the status it will end with once its group is stopped
  status   \* the state in status.json

vars == <<source, output, marker, job, pc, stage, ident, current, why, status>>
disk == <<source, output, marker>>
self == <<pc, stage, ident, current, why, status>>

Ended == {"STOPPED", "BLOCKED", "FAILED", "COMPLETE"}
\* leader: the child of Popen; rest: are there descendants?
NoJob == [stage |-> 1, version |-> None, leader |-> "ended", rest |-> FALSE, wrote |-> FALSE]

TypeOK ==
  /\ source \in Version
  /\ output \in [Stage -> Version \cup {None}]
  /\ marker \in [Stage -> {None} \cup [identity : Version, output : Version \cup {None}]]
  /\ job \in [Job -> [stage : Stage, version : Version \cup {None}, rest : BOOLEAN,
                      leader : {"run", "succeeded", "failed", "ended"}, wrote : BOOLEAN]]
  /\ pc \in {"down", "prepare", "check", "launch", "forked", "wait", "stopping", "finish"}
  /\ stage \in Stage
  /\ ident \in Version \cup {None}
  /\ current \in Job \cup {None}
  /\ why \in Ended \cup {None}
  /\ status \in Ended \cup {None, "RUNNING"}

Init ==
  /\ source \in Version
  /\ output = [s \in Stage |-> None]
  /\ marker = [s \in Stage |-> None]
  /\ job = [j \in Job |-> NoJob]
  /\ pc = "down" /\ stage = 1 /\ ident = None /\ current = None /\ why = None /\ status = None

\* A process group that still has a member.
Live(j) == job[j].leader = "run" \/ job[j].rest

-----------------------------------------------------------------------------
\* The supervisor ends; what it knew is gone.
Forget == pc' = "down" /\ stage' = 1 /\ ident' = None /\ current' = None /\ why' = None

\* It ends with a status.
Leave(state) == Forget /\ status' = state

\* flock of both locks, Supervisor(plan).
Begin ==
  /\ pc = "down"
  /\ status = "RUNNING" => \A j \in Job : ~Live(j)
  /\ pc' = "prepare" /\ ident' = source
  /\ status' = "RUNNING"
  /\ UNCHANGED <<disk, job, stage, current, why>>

\* wait_downloads, prerequisites and require_disk: passed ...
Prepared ==
  /\ pc = "prepare"
  /\ pc' = "check"
  /\ UNCHANGED <<disk, job, stage, ident, current, why, status>>

\* ... or not: a wrong size or checksum, a download that stalls, a missing
\* approval, a full disk.
NotPrepared ==
  /\ pc = "prepare"
  /\ Leave("BLOCKED")
  /\ UNCHANGED <<disk, job>>

\* The stage counter runs past the last stage.
AdvancePastEnd ==
  pc' = "check" /\ stage' = stage + 1 /\ current' = None /\ UNCHANGED <<ident, status, why>>

\* The next stage, or COMPLETE after the last.
Advance ==
  IF stage = Last
    THEN Leave("COMPLETE")
    ELSE /\ pc' = "check" /\ stage' = stage + 1 /\ current' = None
         /\ UNCHANGED <<ident, status, why>>

Marked == marker[stage] # None /\ stage \notin Always

\* The identity of the marker is not compared.
MarkerIsGoodForAnyone == marker[stage].output = output[stage]

MarkerIsGood ==
  /\ marker[stage].identity = ident
  /\ marker[stage].output = output[stage]

\* Outputs without a marker are made again.
OrphanIgnored == FALSE

\* An output without a marker, of a command that cannot resume.
Orphan == ~Marked /\ stage \notin Resumable /\ output[stage] # None

\* SKIPPED_VERIFIED_STAGE
SkipStage ==
  /\ pc = "check"
  /\ source = ident
  /\ Marked /\ MarkerIsGood
  /\ Advance
  /\ UNCHANGED <<disk, job>>

\* The code changed, the marker does not fit, there is an orphan output.
BlockStage ==
  /\ pc = "check"
  /\ source # ident \/ (Marked /\ ~MarkerIsGood) \/ Orphan
  /\ Leave("BLOCKED")
  /\ UNCHANGED <<disk, job>>

EnterStage ==
  /\ pc = "check"
  /\ source = ident
  /\ ~Marked /\ ~Orphan
  /\ pc' = "launch"
  /\ UNCHANGED <<disk, job, stage, ident, current, why, status>>

\* require_disk before a stage is started.
NoDisk ==
  /\ pc = "launch"
  /\ Leave("BLOCKED")
  /\ UNCHANGED <<disk, job>>

\* subprocess.Popen(..., start_new_session=True), and the step into the try.
Fork ==
  /\ pc = "launch"
  /\ \E j \in Job :
       /\ ~Live(j) /\ \A k \in Job : k < j => Live(k)
       /\ job' = [job EXCEPT ![j] = [NoJob EXCEPT !.stage = stage, !.leader = "run"]]
       /\ current' = j
  /\ pc' = "forked"
  /\ UNCHANGED <<disk, stage, ident, why, status>>

EnterTry ==
  /\ pc = "forked"
  /\ pc' = "wait"
  /\ UNCHANGED <<disk, job, stage, ident, current, why, status>>

-----------------------------------------------------------------------------
\* except BaseException: stop_group(process), from SIGTERM to the group on.
StopGroup(state) ==
  pc' = "stopping" /\ why' = state /\ UNCHANGED <<stage, ident, current, status>>

Succeeded ==
  /\ pc = "wait"
  /\ job[current].leader = "succeeded"
  /\ pc' = "finish"
  /\ UNCHANGED <<disk, job, stage, ident, current, why, status>>

\* A non-zero exit code is reported without stop_group.
FailedAtOnce ==
  /\ pc = "wait"
  /\ job[current].leader = "failed"
  /\ Leave("FAILED")
  /\ UNCHANGED <<disk, job>>

Failed ==
  /\ pc = "wait"
  /\ job[current].leader = "failed"
  /\ StopGroup("FAILED")
  /\ UNCHANGED <<disk, job>>

\* The poll checks nothing.
NeverExpires == FALSE

\* Blocked is raised outside the try.
ExpiresAtOnce ==
  /\ pc = "wait"
  /\ job[current].leader = "run"
  /\ Leave("BLOCKED")
  /\ UNCHANGED <<disk, job>>

\* The stage runs longer than stage_timeout_hours, or the disk fills up.
Expires ==
  /\ pc = "wait"
  /\ job[current].leader = "run"
  /\ StopGroup("BLOCKED")
  /\ UNCHANGED <<disk, job>>

\* os.killpg(process.pid, 0) finds nobody.
GroupStopped ==
  /\ pc = "stopping"
  /\ ~Live(current)
  /\ Leave(why)
  /\ job' = [job EXCEPT ![current] = NoJob]
  /\ UNCHANGED disk

\* Ten seconds after SIGTERM the group is killed.
KillGroup ==
  /\ pc = "stopping"
  /\ Live(current)
  /\ job' = [job EXCEPT ![current].leader = "failed", ![current].rest = FALSE]
  /\ UNCHANGED <<disk, self>>

\* Stages without outputs have nothing to look for.
HasOutput == stage \in Always \/ output[stage] # None

\* Exited successfully without expected output: raised outside the try.
NoOutput ==
  /\ pc = "finish"
  /\ ~HasOutput
  /\ Leave("FAILED")
  /\ UNCHANGED <<disk, job>>

\* Checksums of the outputs, and the marker.
FinishStage ==
  /\ pc = "finish"
  /\ HasOutput
  /\ marker' = [marker EXCEPT ![stage] = [identity |-> ident, output |-> output[stage]]]
  /\ Advance
  /\ job' = [job EXCEPT ![current] = NoJob]
  /\ UNCHANGED <<source, output>>

\* SIGTERM or SIGINT: KeyboardInterrupt where the supervisor is.  Within the
\* try it stops the group; before the try and in stop_group it does not.
Signal ==
  /\ pc \in SignalPoint
  /\ IF pc = "wait" THEN StopGroup("STOPPED") ELSE Leave("STOPPED")
  /\ UNCHANGED <<disk, job>>

\* SIGKILL: status.json still says RUNNING, the group goes on.
Killed ==
  /\ pc # "down"
  /\ Forget
  /\ UNCHANGED <<disk, job, status>>

-----------------------------------------------------------------------------
\* The child reads the source when it imports it.
Import(j) ==
  /\ job[j].leader = "run" /\ job[j].version = None
  /\ job' = [job EXCEPT ![j].version = source]
  /\ UNCHANGED <<disk, self>>

\* calibrate.py starts workers.
Descend(j) ==
  /\ job[j].leader = "run" /\ job[j].stage \in Resumable /\ job[j].version # None
  /\ ~job[j].wrote
  /\ job' = [job EXCEPT ![j].rest = TRUE]
  /\ UNCHANGED <<disk, self>>

\* The outputs appear; a command that resumes keeps one that is complete.
Write(j) ==
  /\ Live(j) /\ job[j].version # None /\ ~job[j].wrote
  /\ job' = [job EXCEPT ![j].wrote = TRUE]
  /\ output' = IF job[j].stage \in Always \/ (job[j].stage \in Resumable /\ output[job[j].stage] # None)
                 THEN output
                 ELSE [output EXCEPT ![job[j].stage] = job[j].version]
  /\ UNCHANGED <<source, marker, self>>

RestEnds(j) ==
  /\ job[j].rest
  /\ job' = [job EXCEPT ![j].rest = FALSE]
  /\ UNCHANGED <<disk, self>>

\* Exit code 0, with or without the outputs.  The commands of the stages wait for
\* their descendants before they exit 0.
LeaderSucceeds(j) ==
  /\ job[j].leader = "run" /\ job[j].version # None /\ ~job[j].rest
  /\ job' = [job EXCEPT ![j].leader = "succeeded"]
  /\ UNCHANGED <<disk, self>>

\* A non-zero exit code or a signal; descendants go on.
LeaderFails(j) ==
  /\ job[j].leader = "run"
  /\ job' = [job EXCEPT ![j].leader = "failed"]
  /\ UNCHANGED <<disk, self>>

Edit ==
  /\ Editing \/ pc = "down"
  /\ \E v \in Version : source' = v
  /\ UNCHANGED <<output, marker, job, self>>

\* The operator inspects an output and deletes it.
Delete ==
  /\ pc = "down" /\ \A j \in Job : ~Live(j)
  /\ \E s \in Stage : output' = [output EXCEPT ![s] = None]
  /\ UNCHANGED <<source, marker, job, self>>

SupervisorStep ==
  \/ Prepared \/ NotPrepared \/ SkipStage \/ BlockStage \/ EnterStage \/ NoDisk
  \/ Fork \/ EnterTry \/ Succeeded \/ Failed \/ Expires \/ GroupStopped \/ KillGroup
  \/ NoOutput \/ FinishStage

JobStep(j) ==
  Import(j) \/ Descend(j) \/ Write(j) \/ RestEnds(j) \/ LeaderSucceeds(j) \/ LeaderFails(j)

Next ==
  \/ Begin \/ SupervisorStep \/ Signal \/ Killed
  \/ \E j \in Job : JobStep(j)
  \/ Edit \/ Delete

\* A supervisor that runs keeps polling; its children owe it nothing.
Spec == Init /\ [][Next]_vars /\ WF_vars(SupervisorStep)

-----------------------------------------------------------------------------
\* "All GPU stages are serial": two process groups never run side by side, also
\* over restarts of the supervisor.
OneGroup == \A i, j \in Job : Live(i) /\ Live(j) => i = j

\* A supervisor that ended with a status has taken its process group with it.
NothingLeftRunning == pc = "down" /\ status \in Ended => \A j \in Job : ~Live(j)

\* An output that is there without a marker is never overwritten; only the
\* operator removes it.
NeverOverwritten ==
  [][\A s \in Stage \ Resumable :
       output[s] # None => output'[s] \in {output[s], None}]_vars

\* COMPLETE means that every stage has a marker of this run's identity that
\* fits its output, and that no stage of a command that starts afresh used any
\* other source: "it detects changes and stops".
CompleteIsUniform ==
  [][status # "COMPLETE" /\ status' = "COMPLETE" =>
       \A s \in Stage \ Always :
         /\ marker'[s] = [identity |-> ident, output |-> output[s]]
         /\ s \notin Resumable => output[s] = ident]_vars

\* A supervisor comes to an end, whatever its children do.
SupervisorEnds == pc # "down" ~> pc = "down"
=============================================================================
