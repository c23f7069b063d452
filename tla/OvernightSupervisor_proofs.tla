--------------------- MODULE OvernightSupervisor_proofs ---------------------
(***************************************************************************)
(* One process group at a time, and what that gives: nothing is left       *)
(* running, nothing is overwritten, and what is called complete is of one  *)
(* identity; for any number of stages, versions and process groups.        *)
(*                                                                         *)
(* A signal between Popen and its try, or inside stop_group, breaks all of *)
(* it, so the theorems assume there is none.                               *)
(***************************************************************************)
EXTENDS OvernightSupervisor, TLAPS

SignalsCaught == SignalPoint \subseteq {"prepare", "check", "launch", "wait", "finish"}

Busy == {"forked", "wait", "stopping", "finish"}
Idle == {"prepare", "check", "launch"}
Afresh == Stage \ (Always \cup Resumable)

Group == [stage : Stage, version : Version \cup {None}, rest : BOOLEAN,
          leader : {"run", "succeeded", "failed", "ended"}, wrote : BOOLEAN]

\* A supervisor that is up has an identity, which its markers get.
Named == pc # "down" => ident \in Version

\* It says that it is up, and knows its stage, and its group.
Attached ==
  /\ pc # "down" => status = "RUNNING"
  /\ pc \in {"down", "prepare"} => stage = 1
  /\ pc \in Busy => current \in Job /\ job[current].stage = stage
  /\ pc = "stopping" => why \in Ended \ {"COMPLETE"}

\* A child that succeeded has no descendants.
Settled ==
  /\ \A j \in Job : job[j].leader = "succeeded" => ~job[j].rest
  /\ pc = "finish" => job[current].leader = "succeeded"

\* No group lives but the current one, or the one a SIGKILL has left behind.
OnlyCurrent ==
  /\ pc = "down" /\ status # "RUNNING" => \A j \in Job : ~Live(j)
  /\ pc \in Idle => \A j \in Job : ~Live(j)
  /\ pc \in Busy => \A j \in Job : Live(j) => j = current

\* Who is going to write, of those that start afresh, finds nothing there; and
\* nothing is there when the supervisor's own group is gone without writing.
NothingThere ==
  /\ pc \in Busy /\ stage \in Afresh /\ ~job[current].wrote => output[stage] = None
  /\ \A j \in Job : Live(j) /\ ~job[j].wrote /\ job[j].stage \in Afresh =>
       output[job[j].stage] = None
  /\ pc = "launch" /\ stage \in Afresh => output[stage] = None

IInv == TypeOK /\ Named /\ Attached /\ Settled /\ OneGroup /\ OnlyCurrent /\ NothingThere

\* While nobody edits: what the current group and the finished stages have
\* made is of the supervisor's identity, and every marker is of one identity.
Uniform ==
  /\ pc # "down" => source = ident
  /\ \A s \in Afresh : marker[s] # None => marker[s].output = marker[s].identity
  /\ pc \in Busy => /\ job[current].version \in {None, ident}
                    /\ job[current].wrote => job[current].version = ident
                    /\ job[current].wrote /\ stage \in Afresh => output[stage] = ident
  /\ pc \notin {"down", "prepare"} =>
       \A s \in Stage \ Always : s < stage =>
         /\ marker[s] = [identity |-> ident, output |-> output[s]]
         /\ s \notin Resumable => output[s] = ident

-----------------------------------------------------------------------------
LEMMA InitTyped == Init => TypeOK /\ Named
BY SupervisorAssumption DEF Init, TypeOK, Named, NoJob, Stage, Ended

LEMMA NoGroup == NoJob \in Group
BY SupervisorAssumption DEF NoJob, Group, Stage

\* What the steps make of the process groups are process groups.
LEMMA GroupStep ==
  ASSUME TypeOK, [Next]_vars
  PROVE  job' \in [Job -> Group]
<1>0. job \in [Job -> Group]
  BY DEF TypeOK, Group
<1>1. CASE Fork
  <2>1. [NoJob EXCEPT !.stage = stage, !.leader = "run"] \in Group
    BY NoGroup DEF Group, TypeOK
  <2>. QED
    BY <1>0, <1>1, <2>1 DEF Fork
<1>2. CASE GroupStopped \/ FinishStage
  BY <1>0, <1>2, NoGroup DEF GroupStopped, FinishStage
<1>3. CASE KillGroup
  <2>1. CASE current \in Job
    <3>1. [job[current] EXCEPT !.leader = "failed", !.rest = FALSE] \in Group
      BY <1>0, <2>1 DEF Group
    <3>. QED
      BY <1>0, <1>3, <2>1, <3>1 DEF KillGroup
  <2>2. CASE current \notin Job
    BY <1>0, <1>3, <2>2 DEF KillGroup
  <2>. QED
    BY <2>1, <2>2
<1>4. ASSUME NEW j \in Job, JobStep(j) PROVE job' \in [Job -> Group]
  <2>1. /\ [job[j] EXCEPT !.version = source] \in Group
        /\ [job[j] EXCEPT !.wrote = TRUE] \in Group
        /\ \A b \in BOOLEAN : [job[j] EXCEPT !.rest = b] \in Group
        /\ \A l \in {"succeeded", "failed"} : [job[j] EXCEPT !.leader = l] \in Group
    BY <1>0 DEF Group, TypeOK
  <2>. QED
    BY <1>0, <1>4, <2>1
    DEF JobStep, Import, Descend, Write, RestEnds, LeaderSucceeds, LeaderFails
<1>5. CASE UNCHANGED job
  BY <1>0, <1>5
<1>. QED
  BY <1>1, <1>2, <1>3, <1>4, <1>5
  DEF Next, SupervisorStep, Begin, Prepared, NotPrepared, SkipStage, BlockStage, EnterStage,
      NoDisk, EnterTry, Succeeded, Failed, Expires, NoOutput, Signal, Killed, Edit, Delete, vars

\* Every step keeps the types, wherever signals are caught.
LEMMA TypedStep ==
  ASSUME TypeOK, Named, [Next]_vars
  PROVE  TypeOK' /\ Named'
<1> USE SupervisorAssumption, GroupStep DEF TypeOK, Named, Group, disk, self, Stage, Ended
<1>1. CASE Begin
  BY <1>1 DEF Begin
<1>2. CASE Prepared \/ EnterStage \/ EnterTry \/ Succeeded
  BY <1>2 DEF Prepared, EnterStage, EnterTry, Succeeded
<1>3. CASE NotPrepared \/ BlockStage \/ NoDisk \/ NoOutput
  BY <1>3 DEF NotPrepared, BlockStage, NoDisk, NoOutput, Leave, Forget
<1>4. CASE SkipStage
  BY <1>4 DEF SkipStage, Advance, Leave, Forget
<1>5. CASE Fork
  BY <1>5 DEF Fork
<1>6. CASE Failed \/ Expires
  BY <1>6 DEF Failed, Expires, StopGroup
<1>7. CASE GroupStopped
  BY <1>7 DEF GroupStopped, Leave, Forget
<1>8. CASE KillGroup
  BY <1>8 DEF KillGroup
<1>9. CASE FinishStage
  <2>1. [identity |-> ident, output |-> output[stage]]
          \in [identity : Version, output : Version \cup {None}]
    BY <1>9 DEF FinishStage
  <2>2. marker' \in [Stage -> {None} \cup [identity : Version, output : Version \cup {None}]]
    BY <1>9, <2>1 DEF FinishStage
  <2>. QED
    BY <1>9, <2>2 DEF FinishStage, Advance, Leave, Forget
<1>10. CASE Signal
  BY <1>10 DEF Signal, StopGroup, Leave, Forget
<1>11. CASE Killed
  BY <1>11 DEF Killed, Forget
<1>12. ASSUME NEW j \in Job, JobStep(j) PROVE TypeOK' /\ Named'
  <2>1. CASE Write(j)
    <3>1. job[j].version \in Version
      BY <2>1 DEF Write
    <3>. QED
      BY <2>1, <3>1 DEF Write
  <2>2. CASE Import(j) \/ Descend(j)
    BY <2>2 DEF Import, Descend
  <2>3. CASE RestEnds(j) \/ LeaderSucceeds(j) \/ LeaderFails(j)
    BY <2>3 DEF RestEnds, LeaderSucceeds, LeaderFails
  <2>. QED
    BY <1>12, <2>1, <2>2, <2>3 DEF JobStep
<1>13. CASE Edit \/ Delete
  BY <1>13 DEF Edit, Delete
<1>14. CASE UNCHANGED vars
  BY <1>14 DEF vars
<1>. QED
  BY <1>1, <1>2, <1>3, <1>4, <1>5, <1>6, <1>7, <1>8, <1>9, <1>10, <1>11, <1>12, <1>13, <1>14
  DEF Next, SupervisorStep

\* Every variable has its type, also where a signal is not caught.
THEOREM Typing == Spec => []TypeOK
<1>. QED
  BY InitTyped, TypedStep, PTL DEF Spec

-----------------------------------------------------------------------------
Rest == Attached /\ Settled /\ OneGroup /\ OnlyCurrent /\ NothingThere

LEMMA InitSafe == Init => IInv
BY InitTyped, SupervisorAssumption
DEF Init, IInv, Attached, Settled, OneGroup, OnlyCurrent, NothingThere, Live, NoJob,
    Busy, Idle, Afresh

\* What the supervisor does, but for its process groups.
LEMMA AloneSafe ==
  ASSUME IInv,
         \/ Begin \/ Prepared \/ NotPrepared \/ SkipStage \/ BlockStage \/ EnterStage
         \/ NoDisk \/ EnterTry \/ Succeeded \/ Failed \/ Expires \/ NoOutput
  PROVE  Rest'
<1> USE SupervisorAssumption
    DEF IInv, TypeOK, Rest, Attached, Settled, OneGroup, OnlyCurrent, NothingThere, Live,
        Busy, Idle, Afresh, disk, self, Ended, Stage
<1>1. CASE Begin
  BY <1>1 DEF Begin
<1>2. CASE Prepared \/ NotPrepared \/ NoDisk \/ BlockStage \/ NoOutput
  BY <1>2 DEF Prepared, NotPrepared, NoDisk, BlockStage, NoOutput, Leave, Forget
<1>3. CASE SkipStage
  BY <1>3 DEF SkipStage, Advance, Leave, Forget
<1>4. CASE EnterStage
  BY <1>4 DEF EnterStage, Orphan, Marked
<1>5. CASE EnterTry
  BY <1>5 DEF EnterTry
<1>6. CASE Succeeded
  BY <1>6 DEF Succeeded
<1>7. CASE Failed \/ Expires
  BY <1>7 DEF Failed, Expires, StopGroup
<1>. QED
  BY <1>1, <1>2, <1>3, <1>4, <1>5, <1>6, <1>7

\* What it does to its process groups, and its ends.
LEMMA GroupSafe ==
  ASSUME SignalsCaught, IInv,
         Fork \/ GroupStopped \/ KillGroup \/ FinishStage \/ Signal \/ Killed
  PROVE  Rest'
<1> USE SupervisorAssumption
    DEF IInv, TypeOK, Rest, Attached, Settled, OneGroup, OnlyCurrent, NothingThere, Live,
        Busy, Idle, Afresh, disk, self, Ended, Stage
<1>1. CASE Fork
  BY <1>1 DEF Fork, NoJob
<1>2. CASE GroupStopped
  BY <1>2 DEF GroupStopped, Leave, Forget, NoJob
<1>3. CASE KillGroup
  BY <1>3 DEF KillGroup
<1>4. CASE FinishStage
  BY <1>4 DEF FinishStage, Advance, Leave, Forget, NoJob
<1>5. CASE Signal
  BY <1>5 DEF Signal, SignalsCaught, StopGroup, Leave, Forget
<1>6. CASE Killed
  BY <1>6 DEF Killed, Forget
<1>. QED
  BY <1>1, <1>2, <1>3, <1>4, <1>5, <1>6

\* What the children do, and the operator.
LEMMA OthersSafe ==
  ASSUME IInv, (\E j \in Job : JobStep(j)) \/ Edit \/ Delete \/ UNCHANGED vars
  PROVE  Rest'
<1> USE SupervisorAssumption
    DEF IInv, TypeOK, Rest, Attached, Settled, OneGroup, OnlyCurrent, NothingThere, Live,
        Busy, Idle, Afresh, disk, self, Ended, Stage
<1>1. ASSUME NEW j \in Job, Import(j) PROVE Rest'
  BY <1>1 DEF Import
<1>2. ASSUME NEW j \in Job, Descend(j) PROVE Rest'
  BY <1>2 DEF Descend
<1>3. ASSUME NEW j \in Job, Write(j) PROVE Rest'
  BY <1>3 DEF Write
<1>4. ASSUME NEW j \in Job, RestEnds(j) PROVE Rest'
  BY <1>4 DEF RestEnds
<1>5. ASSUME NEW j \in Job, LeaderSucceeds(j) PROVE Rest'
  BY <1>5 DEF LeaderSucceeds
<1>6. ASSUME NEW j \in Job, LeaderFails(j) PROVE Rest'
  BY <1>6, ZenonT(40) DEF LeaderFails
<1>7. CASE Edit
  BY <1>7 DEF Edit
<1>8. CASE Delete
  BY <1>8 DEF Delete
<1>9. CASE UNCHANGED vars
  BY <1>9 DEF vars
<1>. QED
  BY <1>1, <1>2, <1>3, <1>4, <1>5, <1>6, <1>7, <1>8, <1>9 DEF JobStep

LEMMA SafeStep ==
  ASSUME SignalsCaught, IInv, [Next]_vars
  PROVE  IInv'
<1>1. TypeOK' /\ Named'
  BY TypedStep DEF IInv
<1>2. Rest'
  BY AloneSafe, GroupSafe, OthersSafe DEF Next, SupervisorStep
<1>. QED
  BY <1>1, <1>2 DEF IInv, Rest

LEMMA SafeInvariant ==
  ASSUME SignalsCaught
  PROVE  Spec => []IInv
<1>1. IInv /\ [Next]_vars => IInv'
  BY SafeStep
<1>. QED
  BY InitSafe, <1>1, PTL DEF Spec

\* Two process groups never run side by side, over any number of restarts.
THEOREM OneAtATime ==
  ASSUME SignalsCaught
  PROVE  Spec => []OneGroup
<1>1. IInv => OneGroup
  BY DEF IInv
<1>. QED
  BY SafeInvariant, <1>1, PTL

\* A supervisor that ended with a status left no process group behind.
THEOREM NobodyLeft ==
  ASSUME SignalsCaught
  PROVE  Spec => []NothingLeftRunning
<1>1. IInv => NothingLeftRunning
  BY DEF IInv, OnlyCurrent, NothingLeftRunning, Ended
<1>. QED
  BY SafeInvariant, <1>1, PTL

\* An output of a stage that starts afresh is never written over.
THEOREM NoOverwriting ==
  ASSUME SignalsCaught
  PROVE  Spec => NeverOverwritten
<1>1. IInv /\ [Next]_vars =>
        [\A s \in Stage \ Resumable : output[s] # None => output'[s] \in {output[s], None}]_vars
  <2> SUFFICES ASSUME IInv, [Next]_vars, NEW s \in Stage \ Resumable, output[s] # None
               PROVE  output'[s] \in {output[s], None}
    OBVIOUS
  <2>1. ASSUME NEW j \in Job, JobStep(j) PROVE output'[s] \in {output[s], None}
    BY <2>1 DEF JobStep, Import, Descend, Write, RestEnds, LeaderSucceeds, LeaderFails, disk,
                IInv, TypeOK, NothingThere, Afresh
  <2>2. CASE Delete
    BY <2>2 DEF Delete, IInv, TypeOK
  <2>3. CASE UNCHANGED output
    BY <2>3
  <2>. QED
    BY <2>1, <2>2, <2>3
    DEF Next, SupervisorStep, Begin, Prepared, NotPrepared, SkipStage, BlockStage, EnterStage,
        NoDisk, EnterTry, Succeeded, Failed, Expires, Fork, GroupStopped, KillGroup,
        NoOutput, FinishStage, Signal, Killed, Edit, vars, disk
<1>. QED
  BY SafeInvariant, <1>1, PTL DEF Spec, NeverOverwritten

-----------------------------------------------------------------------------
LEMMA UniformInit == Init => Uniform
BY SupervisorAssumption DEF Init, Uniform, Busy, Afresh

LEMMA UniformAlone ==
  ASSUME ~Editing, IInv, Uniform,
         \/ Begin \/ Prepared \/ NotPrepared \/ SkipStage \/ BlockStage \/ EnterStage
         \/ NoDisk \/ EnterTry \/ Succeeded \/ Failed \/ Expires \/ NoOutput
  PROVE  Uniform'
<1> USE SupervisorAssumption
    DEF IInv, TypeOK, Named, Attached, Uniform, Busy, Afresh, disk, self, Stage
<1>1. CASE Begin \/ Prepared
  BY <1>1 DEF Begin, Prepared
<1>2. CASE NotPrepared \/ NoDisk \/ BlockStage \/ NoOutput
  BY <1>2 DEF NotPrepared, NoDisk, BlockStage, NoOutput, Leave, Forget
<1>3. CASE SkipStage
  BY <1>3 DEF SkipStage, Marked, MarkerIsGood, Advance, Leave, Forget
<1>4. CASE EnterStage \/ EnterTry \/ Succeeded
  BY <1>4 DEF EnterStage, EnterTry, Succeeded
<1>5. CASE Failed \/ Expires
  BY <1>5 DEF Failed, Expires, StopGroup
<1>. QED
  BY <1>1, <1>2, <1>3, <1>4, <1>5

LEMMA UniformGroup ==
  ASSUME SignalsCaught, ~Editing, IInv, Uniform,
         Fork \/ GroupStopped \/ KillGroup \/ FinishStage \/ Signal \/ Killed
  PROVE  Uniform'
<1> USE SupervisorAssumption
    DEF IInv, TypeOK, Named, Attached, Settled, Uniform, Busy, Afresh, disk, self, Stage
<1>1. CASE Fork
  BY <1>1 DEF Fork, NoJob
<1>2. CASE GroupStopped
  BY <1>2 DEF GroupStopped, Leave, Forget
<1>3. CASE KillGroup
  BY <1>3 DEF KillGroup
<1>4. CASE FinishStage
  BY <1>4 DEF FinishStage, HasOutput, NothingThere, Advance, Leave, Forget
<1>5. CASE Signal
  BY <1>5 DEF Signal, SignalsCaught, StopGroup, Leave, Forget
<1>6. CASE Killed
  BY <1>6 DEF Killed, Forget
<1>. QED
  BY <1>1, <1>2, <1>3, <1>4, <1>5, <1>6

LEMMA UniformOthers ==
  ASSUME ~Editing, IInv, Uniform,
         (\E j \in Job : JobStep(j)) \/ Edit \/ Delete \/ UNCHANGED vars
  PROVE  Uniform'
<1> USE SupervisorAssumption
    DEF IInv, TypeOK, Named, Attached, Settled, OnlyCurrent, Live, Uniform, Idle, Busy, Afresh,
        disk, self, Stage
<1>1. ASSUME NEW j \in Job, Import(j) PROVE Uniform'
  BY <1>1 DEF Import
<1>2. ASSUME NEW j \in Job, Write(j) PROVE Uniform'
  BY <1>2 DEF Write
<1>3. ASSUME NEW j \in Job, Descend(j) \/ RestEnds(j) \/ LeaderSucceeds(j) \/ LeaderFails(j)
      PROVE  Uniform'
  BY <1>3 DEF Descend, RestEnds, LeaderSucceeds, LeaderFails
<1>4. CASE Edit
  BY <1>4 DEF Edit
<1>5. CASE Delete
  BY <1>5 DEF Delete
<1>6. CASE UNCHANGED vars
  BY <1>6 DEF vars
<1>. QED
  BY <1>1, <1>2, <1>3, <1>4, <1>5, <1>6 DEF JobStep

LEMMA UniformStep ==
  ASSUME SignalsCaught, ~Editing, IInv, Uniform, [Next]_vars
  PROVE  Uniform'
BY UniformAlone, UniformGroup, UniformOthers DEF Next, SupervisorStep

\* While nobody edits the source during a run, COMPLETE means that every stage
\* has a marker of this run's identity that fits its output, and that the
\* outputs that are made afresh are of that identity.
THEOREM Completeness ==
  ASSUME SignalsCaught, ~Editing
  PROVE  Spec => CompleteIsUniform
<1>1. ASSUME IInv, Uniform, [Next]_vars, status # "COMPLETE", status' = "COMPLETE",
             NEW s \in Stage \ Always
      PROVE  /\ marker'[s] = [identity |-> ident, output |-> output[s]]
             /\ s \notin Resumable => output[s] = ident
  <2> USE SupervisorAssumption
      DEF IInv, TypeOK, Attached, Settled, Uniform, Busy, Afresh, disk, self, Stage
  <2>1. CASE SkipStage
    BY <1>1, <2>1 DEF SkipStage, Marked, MarkerIsGood, Advance, Leave, Forget
  <2>2. CASE FinishStage
    BY <1>1, <2>2 DEF FinishStage, HasOutput, NothingThere, Advance, Leave, Forget
  <2>3. ~GroupStopped
    BY <1>1 DEF GroupStopped, Leave
  <2>. QED
    BY <1>1, <2>1, <2>2, <2>3
    DEF Next, SupervisorStep, Begin, Prepared, NotPrepared, BlockStage, EnterStage,
        NoDisk, EnterTry, Succeeded, Failed, Expires, Fork, KillGroup, NoOutput, Leave, Forget, StopGroup,
        Signal, Killed, Edit, Delete, vars, JobStep, Import, Descend, Write, RestEnds,
        LeaderSucceeds, LeaderFails
<1>2. IInv /\ Uniform /\ [Next]_vars => IInv' /\ Uniform'
  BY SafeStep, UniformStep
<1>3. IInv /\ Uniform /\ [Next]_vars =>
        [status # "COMPLETE" /\ status' = "COMPLETE" =>
           \A s \in Stage \ Always :
             /\ marker'[s] = [identity |-> ident, output |-> output[s]]
             /\ s \notin Resumable => output[s] = ident]_vars
  BY <1>1
<1>. QED
  BY InitSafe, UniformInit, <1>2, <1>3, PTL DEF Spec, CompleteIsUniform
=============================================================================
