--------------------------- MODULE PolicyRuntime ---------------------------
(***************************************************************************)
(* policy.py, state.py and rollout_graph.py: threads call infer on one     *)
(* QuantizedPolicy.  An inference is N denoising calls; every quantized    *)
(* linear uses the gains of the call whose index it finds in the shared    *)
(* DenoiseCallState.  With cuda_graph the call is captured once per index, *)
(* the gains of that moment baked in, and replayed ever after.             *)
(*                                                                         *)
(* A record is abstracted to the schedule its kwargs ask for, the number   *)
(* of denoising calls the model makes of it, and the layout of its inputs. *)
(* Tensors are left out: what an inference computes is given by the gains  *)
(* its calls used.  An exception may come from anywhere inside.            *)
(***************************************************************************)
EXTENDS Integers

CONSTANTS Thread,
          N,      \* num_calls
          Record, \* what infer is called with
          Layout, \* shapes, dtypes and constants of the inputs of a call
          None,
          Nobody  \* _lock is free

Call == 0..N-1

ASSUME PolicyAssumption ==
  /\ N \in Nat \ {0}
  /\ Record \subseteq [steps : Nat, makes : Nat, layout : Layout]
  /\ None \notin Record \cup Int \cup [layout : Layout, gain : Call]
  /\ Nobody \notin Thread

VARIABLES
  lock,      \* QuantizedPolicy._lock
  index,     \* DenoiseCallState.index
  total,     \* FastWAMCallTracker.total_calls
  installed, \* are model.infer_action and _joint_denoise_core the graph's?
  active,    \* LiveJointDiTGraph._active
  calls,     \* LiveJointDiTGraph.calls
  entries,   \* LiveJointDiTGraph.entries: layout and baked-in gain of each call
  remover,   \* a call of LiveJointDiTGraph.remove: "idle", "remove" or "done"
  pc,        \* where each thread is
  record,    \* what it infers
  guarded,   \* is it inside the graph's infer, past _active = True?
  made,      \* denoising calls made
  used,      \* history: used[t][k], the gain its call k used
  spoiled,   \* history: an exception or a remove got in its way
  outcome    \* of its last infer; "none" while it runs

shared == <<lock, index, total>>
graph == <<installed, active, calls, entries>>
chunk == <<record, guarded, made, used, spoiled>>
vars == <<shared, graph, remover, pc, chunk, outcome>>

NoGains == [k \in Call |-> None]
Inside == {"reset", "kwargs", "infer", "check", "begin", "model", "core", "capture",
           "replay", "count"}

TypeOK ==
  /\ lock \in Thread \cup {Nobody}
  /\ index \in Call \cup {None}
  /\ total \in Nat
  /\ installed \in BOOLEAN /\ active \in BOOLEAN
  /\ calls \in 0..N
  /\ entries \in [Call -> [layout : Layout, gain : Call] \cup {None}]
  /\ remover \in {"idle", "remove", "done"}
  /\ pc \in [Thread -> Inside \cup {"idle", "clear", "release"}]
  /\ record \in [Thread -> Record \cup {None}]
  /\ guarded \in [Thread -> BOOLEAN]
  /\ made \in [Thread -> Nat]
  /\ used \in [Thread -> [Call -> Call \cup {None}]]
  /\ spoiled \in [Thread -> BOOLEAN]
  /\ outcome \in [Thread -> {"none", "returned", "failed", "refused"}]

\* cuda_graph decides whether the graph is installed when the policy is made.
Init ==
  /\ lock = Nobody /\ index = None /\ total = 0
  /\ installed \in BOOLEAN
  /\ active = FALSE /\ calls = 0 /\ entries = [k \in Call |-> None]
  /\ remover = "idle"
  /\ pc = [t \in Thread |-> "idle"]
  /\ record = [t \in Thread |-> None]
  /\ guarded = [t \in Thread |-> FALSE]
  /\ made = [t \in Thread |-> 0]
  /\ used = [t \in Thread |-> NoGains]
  /\ spoiled = [t \in Thread |-> FALSE]
  /\ outcome = [t \in Thread |-> "none"]

-----------------------------------------------------------------------------
Go(t, there) == pc' = [pc EXCEPT ![t] = there]

\* infer, past a lock that is free ...
Infer(t, r) ==
  /\ pc[t] = "idle"
  /\ lock = Nobody
  /\ lock' = t
  /\ record' = [record EXCEPT ![t] = r]
  /\ made' = [made EXCEPT ![t] = 0]
  /\ used' = [used EXCEPT ![t] = NoGains]
  /\ spoiled' = [spoiled EXCEPT ![t] = FALSE]
  /\ outcome' = [outcome EXCEPT ![t] = "none"]
  /\ Go(t, "reset")
  /\ UNCHANGED <<index, total, graph, remover, guarded>>

\* ... or not: "Use one policy instance per serialized inference loop".
Refuse(t) ==
  /\ pc[t] = "idle"
  /\ lock # Nobody
  /\ outcome' = [outcome EXCEPT ![t] = "refused"]
  /\ UNCHANGED <<shared, graph, remover, pc, chunk>>

\* The tracker goes on counting where the last inference left it.
ResetStateOnly(t) ==
  /\ pc[t] = "reset"
  /\ index' = None
  /\ Go(t, "kwargs")
  /\ UNCHANGED <<lock, total, graph, remover, chunk, outcome>>

\* self.tracker.reset()
Reset(t) ==
  /\ pc[t] = "reset"
  /\ total' = 0 /\ index' = None
  /\ Go(t, "kwargs")
  /\ UNCHANGED <<lock, graph, remover, chunk, outcome>>

\* _active is not reset in a finally.
RaiseActive(t) ==
  /\ guarded' = [guarded EXCEPT ![t] = FALSE]
  /\ outcome' = [outcome EXCEPT ![t] = "failed"]
  /\ Go(t, "clear")
  /\ UNCHANGED <<shared, graph, remover, record, made, used>>

\* The lock is not released in a finally.
RaiseLocked(t) ==
  /\ active' = (active /\ ~guarded[t])
  /\ guarded' = [guarded EXCEPT ![t] = FALSE]
  /\ outcome' = [outcome EXCEPT ![t] = "failed"]
  /\ Go(t, "idle")
  /\ UNCHANGED <<shared, installed, calls, entries, remover, record, made, used>>

\* An exception on the way: the graph's finally, when t is inside its try, and
\* on to the policy's finally.
Raise(t) ==
  /\ active' = (active /\ ~guarded[t])
  /\ guarded' = [guarded EXCEPT ![t] = FALSE]
  /\ outcome' = [outcome EXCEPT ![t] = "failed"]
  /\ Go(t, "clear")
  /\ UNCHANGED <<shared, installed, calls, entries, remover, record, made, used>>

\* infer_kwargs, and the comparison with the calibrated schedule.
CheckSchedule(t) ==
  /\ pc[t] = "kwargs"
  /\ record[t].steps = N
  /\ Go(t, "infer")
  /\ UNCHANGED <<shared, graph, remover, chunk, outcome>>

RejectSchedule(t) ==
  /\ pc[t] = "kwargs"
  /\ record[t].steps # N
  /\ Raise(t)
  /\ UNCHANGED spoiled

\* self.model.infer_action: the graph's infer or the model's own.
Enter(t) ==
  /\ pc[t] = "infer"
  /\ Go(t, IF installed THEN "check" ELSE "model")
  /\ UNCHANGED <<shared, graph, remover, chunk, outcome>>

\* What the graph's infer and _call, and the state's require, insist on.
GoesOn(t) ==
  /\ pc[t] = "check" => ~active
  /\ pc[t] = "core" => IF installed THEN active /\ calls < N /\ index = calls ELSE index # None
  /\ pc[t] = "capture" => index # None
  /\ pc[t] = "replay" => entries[calls] # None /\ entries[calls].layout = record[t].layout

\* _active is looked at ...
CheckActive(t) ==
  /\ pc[t] = "check" /\ GoesOn(t)
  /\ Go(t, "begin")
  /\ UNCHANGED <<shared, graph, remover, chunk, outcome>>

\* ... and set, with the count of calls started again.
Activate(t) ==
  /\ pc[t] = "begin"
  /\ calls' = 0
  /\ active' = TRUE
  /\ guarded' = [guarded EXCEPT ![t] = TRUE]
  /\ Go(t, "model")
  /\ UNCHANGED <<shared, installed, entries, remover, record, made, used, spoiled, outcome>>

-----------------------------------------------------------------------------
\* The index runs on instead of starting again at 0.
PredictRunsOn(t) ==
  /\ pc[t] = "model"
  /\ made[t] < record[t].makes
  /\ index' = total
  /\ total' = total + 1
  /\ Go(t, "core")
  /\ UNCHANGED <<lock, graph, remover, chunk, outcome>>

\* FastWAMCallTracker: _predict_joint_noise of the next denoising call.
Predict(t) ==
  /\ pc[t] = "model"
  /\ made[t] < record[t].makes
  /\ index' = total % N
  /\ total' = total + 1
  /\ Go(t, "core")
  /\ UNCHANGED <<lock, graph, remover, chunk, outcome>>

\* The call of t is over; its linears used gain g.
Made(t, g) ==
  /\ used' = [used EXCEPT ![t][made[t]] = g]
  /\ made' = [made EXCEPT ![t] = @ + 1]
  /\ Go(t, "model")

\* _joint_denoise_core of the model itself; its linears call state.require().
EagerCall(t) ==
  /\ pc[t] = "core" /\ GoesOn(t)
  /\ ~installed
  /\ Made(t, index)
  /\ UNCHANGED <<shared, graph, remover, record, guarded, spoiled, outcome>>

\* LiveJointDiTGraph._call, up to the look into entries.
GraphCall(t) ==
  /\ pc[t] = "core" /\ GoesOn(t)
  /\ installed
  /\ Go(t, IF entries[calls] = None THEN "capture" ELSE "replay")
  /\ UNCHANGED <<shared, graph, remover, chunk, outcome>>

\* Warmup, capture and validation; the linears' gains are baked in.
Capture(t) ==
  /\ pc[t] = "capture" /\ GoesOn(t)
  /\ entries' = [entries EXCEPT ![calls] = [layout |-> record[t].layout, gain |-> index]]
  /\ Go(t, "replay")
  /\ UNCHANGED <<shared, installed, active, calls, remover, chunk, outcome>>

\* Inputs are copied, the graph is replayed.
Replay(t) ==
  /\ pc[t] = "replay" /\ GoesOn(t)
  /\ calls' = calls + 1
  /\ Made(t, entries[calls].gain)
  /\ UNCHANGED <<shared, installed, active, entries, remover, record, guarded, spoiled, outcome>>

RejectCall(t) ==
  /\ pc[t] \in {"check", "core", "capture", "replay"} /\ ~GoesOn(t)
  /\ Raise(t)
  /\ UNCHANGED spoiled

\* original_infer has returned; the graph counts its calls.
LeaveGraph(t) ==
  /\ pc[t] = "model"
  /\ made[t] = record[t].makes
  /\ guarded[t] => calls = N
  /\ active' = (active /\ ~guarded[t])
  /\ guarded' = [guarded EXCEPT ![t] = FALSE]
  /\ Go(t, "count")
  /\ UNCHANGED <<shared, installed, calls, entries, remover, record, made, used, spoiled, outcome>>

\* The policy does not compare the number of calls.
ReturnUncounted(t) ==
  /\ pc[t] = "count"
  /\ outcome' = [outcome EXCEPT ![t] = "returned"]
  /\ Go(t, "clear")
  /\ UNCHANGED <<shared, graph, remover, chunk>>

\* The policy counts the tracker's.
Return(t) ==
  /\ pc[t] = "count"
  /\ total = N
  /\ outcome' = [outcome EXCEPT ![t] = "returned"]
  /\ Go(t, "clear")
  /\ UNCHANGED <<shared, graph, remover, chunk>>

RejectCount(t) ==
  /\ \/ pc[t] = "model" /\ made[t] = record[t].makes /\ guarded[t] /\ calls # N
     \/ pc[t] = "count" /\ total # N
  /\ Raise(t)
  /\ UNCHANGED spoiled

\* The finally of infer.
Clear(t) ==
  /\ pc[t] = "clear"
  /\ index' = None
  /\ Go(t, "release")
  /\ UNCHANGED <<lock, total, graph, remover, chunk, outcome>>

Release(t) ==
  /\ pc[t] = "release"
  /\ lock' = Nobody
  /\ Go(t, "idle")
  /\ UNCHANGED <<index, total, graph, remover, chunk, outcome>>

\* An exception out of the adapter, the model or CUDA.
Interrupt(t) ==
  /\ pc[t] \in Inside
  /\ Raise(t)
  /\ spoiled' = [spoiled EXCEPT ![t] = TRUE]

-----------------------------------------------------------------------------
\* LiveJointDiTGraph.remove, called from elsewhere: it looks at _active, waits
\* for the GPU, and takes the graph out.
BeginRemove ==
  /\ remover = "idle"
  /\ ~active
  /\ remover' = IF installed THEN "remove" ELSE "done"
  /\ UNCHANGED <<shared, graph, pc, chunk, outcome>>

EndRemove ==
  /\ remover = "remove"
  /\ installed' = FALSE
  /\ entries' = [k \in Call |-> None]
  /\ remover' = "done"
  /\ spoiled' = [t \in Thread |-> spoiled[t] \/ pc[t] \in Inside]
  /\ UNCHANGED <<shared, active, calls, pc, record, guarded, made, used, outcome>>

Step(t) ==
  \/ Reset(t) \/ CheckSchedule(t) \/ RejectSchedule(t) \/ Enter(t) \/ CheckActive(t) \/ Activate(t)
  \/ Predict(t) \/ EagerCall(t) \/ GraphCall(t) \/ Capture(t) \/ Replay(t) \/ RejectCall(t)
  \/ LeaveGraph(t) \/ Return(t) \/ RejectCount(t) \/ Clear(t) \/ Release(t)

Next ==
  \/ \E t \in Thread :
       \/ \E r \in Record : Infer(t, r)
       \/ Refuse(t)
       \/ Step(t)
       \/ Interrupt(t)
  \/ BeginRemove \/ EndRemove

\* A thread that runs keeps running; nobody has to call.
Spec == Init /\ [][Next]_vars /\ \A t \in Thread : WF_vars(Step(t))

-----------------------------------------------------------------------------
\* An inference that returns has made N calls, each with the gains of its own
\* index, whatever was refused, interrupted, captured or removed before or
\* meanwhile: the runtime fails "rather than silently using stale inputs".
ReturnsOwnGains ==
  \A t \in Thread : outcome[t] = "returned" =>
    made[t] = N /\ \A k \in Call : used[t][k] = k

\* An inference fails only for a reason of its own: a schedule or layout that
\* does not fit, or something that got in the way while it ran.  What happened
\* to earlier ones or to refused callers leaves no trace.
FailsForAReason ==
  [][\A t \in Thread : pc[t] \in Inside /\ pc'[t] = "clear" /\ outcome'[t] = "failed" =>
       \/ record[t].steps # N \/ record[t].makes # N
       \/ spoiled'[t]
       \/ \E k \in Call : entries[k] # None /\ entries[k].layout # record[t].layout]_vars

\* Between inferences the call state is cleared and the graph is not active.
CleanBetween == lock = Nobody => index = None /\ ~active

\* A policy does not stay locked.
LockComesFree == lock # Nobody ~> lock = Nobody
=============================================================================
