------------------------ MODULE PolicyRuntime_proofs ------------------------
(***************************************************************************)
(* An inference that returns used its own gains, and one that fails has a  *)
(* reason of its own, for every number of threads and denoising calls and  *)
(* every set of records.                                                   *)
(***************************************************************************)
EXTENDS PolicyRuntime, TLAPS

InCall == {"core", "capture", "replay"}
Started == {"model"} \cup InCall

\* The lock is held by the one thread that is inside infer, the graph is active
\* for that thread only.
Serialized ==
  /\ \A t \in Thread : pc[t] # "idle" <=> lock = t
  /\ \A t \in Thread : guarded[t] => active /\ pc[t] \in Started
  /\ active => \E t \in Thread : guarded[t]
  /\ \A t \in Thread : pc[t] = "release" => index = None
  /\ lock = Nobody => index = None

\* A graph has the gain of its own index baked in.
Baked == \A k \in Call : entries[k] # None => entries[k].gain = k

OwnSoFar(t) == \A k \in Call : k < made[t] => used[t][k] = k

\* The thread inside infer, against the counters.
Counting(t) ==
  /\ pc[t] # "idle" => record[t] \in Record
  /\ pc[t] \in {"reset", "kwargs", "infer", "check", "begin"} => made[t] = 0
  /\ pc[t] \in {"kwargs", "infer", "check", "begin"} => total = 0
  /\ pc[t] = "model" => total = made[t]
  /\ pc[t] \in InCall => total = made[t] + 1 /\ index = made[t] % N /\ made[t] < record[t].makes
  /\ pc[t] \in {"capture", "replay"} => calls < N /\ index = calls
  /\ pc[t] = "count" => total = made[t] /\ made[t] = record[t].makes
  /\ pc[t] \in Inside => OwnSoFar(t) /\ outcome[t] # "returned"
  /\ outcome[t] = "returned" => made[t] = N /\ OwnSoFar(t)

\* When nothing got in its way, the graph is still there and has kept count.
Undisturbed(t) ==
  ~spoiled[t] =>
    /\ pc[t] \in {"check", "begin"} => installed
    /\ pc[t] \in Started => /\ guarded[t] = installed
                            /\ installed => calls = made[t]
    /\ pc[t] \in {"capture", "replay"} => installed
    /\ pc[t] = "replay" => entries[calls] # None

IInv ==
  /\ TypeOK /\ Serialized /\ Baked
  /\ \A t \in Thread : Counting(t) /\ Undisturbed(t)

-----------------------------------------------------------------------------
LEMMA ModIsIndex == \A m \in Nat : m % N \in Call
  BY PolicyAssumption DEF Call

LEMMA ModBelow == \A m \in Call : m % N = m
  BY PolicyAssumption DEF Call

LEMMA InitInv == Init => IInv
<1> SUFFICES ASSUME Init
             PROVE  IInv
  OBVIOUS
<1> USE PolicyAssumption DEF Init
<1>1. TypeOK
  <2>1. NoGains \in [Call -> Call \cup {None}]
    BY DEF NoGains
  <2>2. entries \in [Call -> [layout : Layout, gain : Call] \cup {None}]
    OBVIOUS
  <2>3. calls \in 0..N
    OBVIOUS
  <2>4. pc \in [Thread -> Inside \cup {"idle", "clear", "release"}]
    OBVIOUS
  <2>5. used \in [Thread -> [Call -> Call \cup {None}]]
    BY <2>1
  <2>. QED
    BY <2>2, <2>3, <2>4, <2>5 DEF TypeOK
<1>2. Serialized
  BY DEF Serialized
<1>3. Baked
  BY DEF Baked
<1>4. ASSUME NEW t \in Thread
      PROVE  Counting(t) /\ Undisturbed(t)
  BY DEF Counting, Undisturbed, Inside, Started, InCall
<1>. QED
  BY <1>1, <1>2, <1>3, <1>4 DEF IInv

\* Nobody else is inside infer when t is.
LEMMA Alone ==
  ASSUME IInv, NEW t \in Thread, pc[t] # "idle", NEW u \in Thread, u # t
  PROVE  pc[u] = "idle" /\ ~guarded[u]
  BY DEF IInv, Serialized, Started, InCall

\* What a thread that is idle keeps: only its last outcome.
LEMMA IdleKept ==
  ASSUME IInv, NEW u \in Thread, pc[u] = "idle", pc'[u] = "idle",
         made'[u] = made[u], used'[u] = used[u],
         outcome'[u] = outcome[u] \/ outcome'[u] # "returned"
  PROVE  Counting(u)' /\ Undisturbed(u)'
  BY DEF IInv, Counting, Undisturbed, OwnSoFar, Inside, Started, InCall

LEMMA RaiseInv ==
  ASSUME IInv, NEW t \in Thread, pc[t] \in Inside, Raise(t),
         spoiled' \in [Thread -> BOOLEAN]
  PROVE  IInv'
<1>1. TypeOK'
  BY DEF IInv, TypeOK, Raise, Go, Inside, shared
<1>2. pc[t] # "idle" /\ pc' = [pc EXCEPT ![t] = "clear"]
  BY DEF Raise, Go, Inside
<1>3. Serialized'
  <2>1. active' => \E u \in Thread : guarded'[u]
    BY <1>2, Alone DEF IInv, TypeOK, Serialized, Raise
  <2>2. \A u \in Thread : guarded'[u] => active' /\ pc'[u] \in Started
    BY <1>2, Alone DEF IInv, TypeOK, Serialized, Raise
  <2>. QED
    BY <1>2, <2>1, <2>2 DEF IInv, TypeOK, Serialized, Raise, shared
<1>4. Baked'
  BY DEF IInv, Baked, Raise
<1>5. ASSUME NEW u \in Thread
      PROVE  Counting(u)' /\ Undisturbed(u)'
  <2>1. CASE u = t
    BY <1>2, <2>1 DEF IInv, TypeOK, Counting, Undisturbed, Raise, Inside, Started, InCall, shared
  <2>2. CASE u # t
    BY <1>2, <2>2, Alone, IdleKept DEF IInv, TypeOK, Raise
  <2>. QED
    BY <2>1, <2>2
<1>. QED
  BY <1>1, <1>3, <1>4, <1>5 DEF IInv

LEMMA InferInv ==
  ASSUME IInv, NEW t \in Thread, NEW r \in Record, Infer(t, r)
  PROVE  IInv'
<1> USE DEF Infer, Go, graph
<1>1. TypeOK'
  BY DEF IInv, TypeOK, NoGains, Inside
<1>2. Serialized'
  BY PolicyAssumption DEF IInv, TypeOK, Serialized, Started, InCall
<1>3. Baked'
  BY DEF IInv, Baked
<1>4. ASSUME NEW u \in Thread
      PROVE  Counting(u)' /\ Undisturbed(u)'
  <2>1. CASE u = t
    BY <2>1 DEF IInv, TypeOK, Counting, Undisturbed, OwnSoFar, Inside, Started, InCall, Call
  <2>2. CASE u # t
    <3>1. pc[u] = "idle"
      BY <2>2, PolicyAssumption DEF IInv, Serialized
    <3>. QED
      BY <2>2, <3>1, IdleKept DEF IInv, TypeOK
  <2>. QED
    BY <2>1, <2>2
<1>. QED
  BY <1>1, <1>2, <1>3, <1>4 DEF IInv

LEMMA RefuseInv ==
  ASSUME IInv, NEW t \in Thread, Refuse(t)
  PROVE  IInv'
<1> USE DEF Refuse, shared, graph, chunk
<1>1. TypeOK'
  BY DEF IInv, TypeOK
<1>2. Serialized' /\ Baked'
  BY DEF IInv, Serialized, Baked
<1>3. ASSUME NEW u \in Thread
      PROVE  Counting(u)' /\ Undisturbed(u)'
  BY DEF IInv, TypeOK, Counting, Undisturbed, OwnSoFar
<1>. QED
  BY <1>1, <1>2, <1>3 DEF IInv

\* A step of t itself, seen by the threads that are idle meanwhile.
LEMMA OthersKept ==
  ASSUME IInv, NEW t \in Thread, pc[t] # "idle", NEW u \in Thread, u # t,
         pc'[u] = pc[u], made'[u] = made[u], used'[u] = used[u], outcome'[u] = outcome[u]
  PROVE  Counting(u)' /\ Undisturbed(u)'
  BY Alone, IdleKept

LEMMA WalkInv ==
  ASSUME IInv, NEW t \in Thread,
         \/ Reset(t) \/ CheckSchedule(t) \/ Enter(t) \/ CheckActive(t)
         \/ Return(t) \/ Clear(t) \/ Release(t)
  PROVE  IInv'
<1> USE DEF Go, shared, graph, chunk
<1>a. pc[t] # "idle" /\ lock = t
  BY DEF IInv, Serialized, Reset, CheckSchedule, Enter, CheckActive, Return, Clear, Release
<1>b. UNCHANGED <<graph, remover, chunk>>
  BY DEF Reset, CheckSchedule, Enter, CheckActive, Return, Clear, Release
<1>c. \E there \in Inside \cup {"idle", "clear", "release"} : pc' = [pc EXCEPT ![t] = there]
  BY DEF Reset, CheckSchedule, Enter, CheckActive, Return, Clear, Release, Inside
<1>1. TypeOK'
  BY <1>b, <1>c
  DEF IInv, TypeOK, Reset, CheckSchedule, Enter, CheckActive, Return, Clear, Release
<1>2. Serialized'
  <2>1. ~guarded[t] \/ Enter(t)
    BY DEF IInv, Serialized, Started, InCall, Reset, CheckSchedule, Enter, CheckActive,
           Return, Clear, Release
  <2>2. ~guarded[t]
    BY <2>1 DEF IInv, Serialized, Started, InCall, Enter
  <2>3. \A u \in Thread : guarded'[u] => active' /\ pc'[u] \in Started
    BY <1>a, <1>b, <2>2, Alone
  <2>4. active' => \E u \in Thread : guarded'[u]
    BY <1>b DEF IInv, Serialized
  <2>5. \A u \in Thread : pc'[u] # "idle" <=> lock' = u
    BY <1>a, PolicyAssumption
    DEF IInv, TypeOK, Serialized, Reset, CheckSchedule, Enter, CheckActive, Return, Clear, Release
  <2>6. /\ \A u \in Thread : pc'[u] = "release" => index' = None
        /\ lock' = Nobody => index' = None
    BY <1>a, PolicyAssumption
    DEF IInv, TypeOK, Serialized, Reset, CheckSchedule, Enter, CheckActive, Return, Clear, Release
  <2>. QED
    BY <2>3, <2>4, <2>5, <2>6 DEF Serialized
<1>3. Baked'
  BY <1>b DEF IInv, Baked
<1>4. ASSUME NEW u \in Thread
      PROVE  Counting(u)' /\ Undisturbed(u)'
  <2>1. CASE u = t
    <3> USE <1>a, <1>b, <2>1
        DEF IInv, TypeOK, Counting, Undisturbed, OwnSoFar, Inside, Started, InCall
    <3>1. CASE Reset(t) \/ CheckSchedule(t)
      BY <3>1 DEF Reset, CheckSchedule
    <3>2. CASE Enter(t)
      BY <3>2 DEF Enter, Serialized
    <3>3. CASE CheckActive(t)
      BY <3>3 DEF CheckActive
    <3>4. CASE Return(t)
      BY <3>4 DEF Return
    <3>5. CASE Clear(t) \/ Release(t)
      BY <3>5 DEF Clear, Release
    <3>. QED
      BY <3>1, <3>2, <3>3, <3>4, <3>5
  <2>2. CASE u # t
    <3>1. UNCHANGED <<made, used>> /\ outcome'[u] = outcome[u] /\ pc'[u] = pc[u]
      BY <1>b, <1>c, <2>2
      DEF IInv, TypeOK, Reset, CheckSchedule, Enter, CheckActive, Return, Clear, Release
    <3>. QED
      BY <1>a, <2>2, <3>1, OthersKept
  <2>. QED
    BY <2>1, <2>2
<1>. QED
  BY <1>1, <1>2, <1>3, <1>4 DEF IInv

LEMMA ActivateInv ==
  ASSUME IInv, NEW t \in Thread, Activate(t)
  PROVE  IInv'
<1> USE DEF Activate, Go, shared
<1>a. pc[t] # "idle" /\ lock = t /\ lock # Nobody
  BY PolicyAssumption DEF IInv, Serialized
<1>1. TypeOK'
  BY PolicyAssumption DEF IInv, TypeOK, Inside
<1>2. Serialized'
  BY <1>a, Alone DEF IInv, TypeOK, Serialized, Started
<1>3. Baked'
  BY DEF IInv, Baked
<1>4. ASSUME NEW u \in Thread
      PROVE  Counting(u)' /\ Undisturbed(u)'
  <2>1. CASE u = t
    BY <2>1 DEF IInv, TypeOK, Counting, Undisturbed, OwnSoFar, Inside, Started, InCall
  <2>2. CASE u # t
    BY <1>a, <2>2, OthersKept DEF IInv, TypeOK
  <2>. QED
    BY <2>1, <2>2
<1>. QED
  BY <1>1, <1>2, <1>3, <1>4 DEF IInv

\* The start of a denoising call.
LEMMA PredictInv ==
  ASSUME IInv, NEW t \in Thread, Predict(t)
  PROVE  IInv'
<1> USE DEF Predict, Go, graph, chunk
<1>a. pc[t] # "idle" /\ lock = t /\ lock # Nobody
  BY PolicyAssumption DEF IInv, Serialized
<1>1. TypeOK'
  BY ModIsIndex DEF IInv, TypeOK, Inside
<1>2. Serialized'
  BY <1>a DEF IInv, TypeOK, Serialized, Started, InCall
<1>3. Baked'
  BY DEF IInv, Baked
<1>4. ASSUME NEW u \in Thread
      PROVE  Counting(u)' /\ Undisturbed(u)'
  <2>1. CASE u = t
    BY <2>1 DEF IInv, TypeOK, Counting, Undisturbed, OwnSoFar, Inside, Started, InCall
  <2>2. CASE u # t
    BY <1>a, <2>2, OthersKept DEF IInv, TypeOK
  <2>. QED
    BY <2>1, <2>2
<1>. QED
  BY <1>1, <1>2, <1>3, <1>4 DEF IInv

\* A call that used its own gain.
LEMMA MadeOwn ==
  ASSUME IInv, NEW t \in Thread, pc[t] \in InCall, NEW g \in Call, Made(t, g),
         made[t] < N => g = made[t]
  PROVE  /\ used' \in [Thread -> [Call -> Call \cup {None}]]
         /\ made' \in [Thread -> Nat]
         /\ made'[t] = made[t] + 1 /\ OwnSoFar(t)'
<1>1. /\ used' = [used EXCEPT ![t] = [used[t] EXCEPT ![made[t]] = g]]
      /\ made' = [made EXCEPT ![t] = @ + 1]
  BY DEF Made
<1>2. made[t] \in Nat /\ used[t] \in [Call -> Call \cup {None}] /\ OwnSoFar(t)
  BY DEF IInv, TypeOK, Counting, InCall, Inside
<1>3. /\ used' \in [Thread -> [Call -> Call \cup {None}]]
      /\ made' \in [Thread -> Nat]
      /\ made'[t] = made[t] + 1
  <2>1. [used[t] EXCEPT ![made[t]] = g] \in [Call -> Call \cup {None}]
    BY <1>2
  <2>2. used' \in [Thread -> [Call -> Call \cup {None}]]
    BY <1>1, <2>1 DEF IInv, TypeOK
  <2>3. made \in [Thread -> Nat]
    BY DEF IInv, TypeOK
  <2>. QED
    BY <1>1, <2>2, <2>3
<1>4. used'[t] = [used[t] EXCEPT ![made[t]] = g]
  BY <1>1 DEF IInv, TypeOK
<1>5. ASSUME NEW k \in Call, k < made[t] + 1
      PROVE  used'[t][k] = k
  <2>1. CASE k = made[t]
    BY <1>2, <1>4, <2>1, PolicyAssumption DEF Call
  <2>2. CASE k # made[t]
    <3>1. k < made[t]
      BY <1>2, <1>5, <2>2, PolicyAssumption DEF Call
    <3>. QED
      BY <1>2, <1>4, <2>2, <3>1 DEF OwnSoFar
  <2>. QED
    BY <2>1, <2>2
<1>. QED
  BY <1>3, <1>5 DEF OwnSoFar

LEMMA EagerCallInv ==
  ASSUME IInv, NEW t \in Thread, EagerCall(t)
  PROVE  IInv'
<1> USE DEF EagerCall, GoesOn, Go, shared, graph
<1>a. pc[t] # "idle" /\ lock = t /\ lock # Nobody /\ pc[t] \in InCall /\ ~installed
  BY PolicyAssumption DEF IInv, Serialized, InCall
<1>b. index \in Call /\ index = made[t] % N /\ made[t] \in Nat
  BY <1>a DEF IInv, TypeOK, Counting
<1>c. made[t] < N => index = made[t]
  BY <1>b, ModBelow, PolicyAssumption DEF Call
<1>d. /\ used' \in [Thread -> [Call -> Call \cup {None}]]
      /\ made' \in [Thread -> Nat]
      /\ made'[t] = made[t] + 1 /\ OwnSoFar(t)'
  BY <1>a, <1>b, <1>c, MadeOwn
<1>1. TypeOK'
  BY <1>d DEF IInv, TypeOK, Inside, Made
<1>2. Serialized'
  BY <1>a DEF IInv, TypeOK, Serialized, Started, InCall, Made
<1>3. Baked'
  BY DEF IInv, Baked
<1>4. ASSUME NEW u \in Thread
      PROVE  Counting(u)' /\ Undisturbed(u)'
  <2>1. CASE u = t
    <3>1. pc'[t] = "model" /\ total' = made'[t] /\ record'[t] \in Record /\ outcome'[t] # "returned"
      BY <1>a, <1>d DEF IInv, TypeOK, Counting, Made
    <3>. QED
      BY <1>a, <1>d, <2>1, <3>1 DEF IInv, Counting, Undisturbed, Inside, Started, InCall
  <2>2. CASE u # t
    BY <1>a, <2>2, OthersKept DEF IInv, TypeOK, Made
  <2>. QED
    BY <2>1, <2>2
<1>. QED
  BY <1>1, <1>2, <1>3, <1>4 DEF IInv

LEMMA GraphCallInv ==
  ASSUME IInv, NEW t \in Thread, GraphCall(t)
  PROVE  IInv'
<1> USE DEF GraphCall, GoesOn, Go, shared, graph, chunk
<1>a. pc[t] # "idle" /\ lock = t /\ lock # Nobody
  BY PolicyAssumption DEF IInv, Serialized
<1>1. TypeOK'
  BY DEF IInv, TypeOK, Inside
<1>2. Serialized'
  BY <1>a DEF IInv, TypeOK, Serialized, Started, InCall
<1>3. Baked'
  BY DEF IInv, Baked
<1>4. ASSUME NEW u \in Thread
      PROVE  Counting(u)' /\ Undisturbed(u)'
  <2>1. CASE u = t
    BY <2>1 DEF IInv, TypeOK, Counting, Undisturbed, OwnSoFar, Inside, Started, InCall
  <2>2. CASE u # t
    BY <1>a, <2>2, OthersKept DEF IInv, TypeOK
  <2>. QED
    BY <2>1, <2>2
<1>. QED
  BY <1>1, <1>2, <1>3, <1>4 DEF IInv

LEMMA CaptureInv ==
  ASSUME IInv, NEW t \in Thread, Capture(t)
  PROVE  IInv'
<1> USE DEF Capture, GoesOn, Go, shared, chunk
<1>a. pc[t] # "idle" /\ lock = t /\ lock # Nobody
  BY PolicyAssumption DEF IInv, Serialized
<1>b. calls \in Call /\ index = calls /\ record[t].layout \in Layout
  <2>1. record[t] \in Record /\ calls < N /\ index = calls /\ calls \in 0..N
    BY <1>a DEF IInv, TypeOK, Counting
  <2>. QED
    BY <2>1, PolicyAssumption DEF Call
<1>c. [layout |-> record[t].layout, gain |-> index] \in [layout : Layout, gain : Call]
  BY <1>b
<1>d. [layout |-> record[t].layout, gain |-> index] # None
  BY <1>c, PolicyAssumption
<1>1. TypeOK'
  BY <1>c DEF IInv, TypeOK, Inside
<1>2. Serialized'
  BY <1>a DEF IInv, TypeOK, Serialized, Started, InCall
<1>3. Baked'
  BY <1>b DEF IInv, TypeOK, Baked
<1>4. ASSUME NEW u \in Thread
      PROVE  Counting(u)' /\ Undisturbed(u)'
  <2>1. CASE u = t
    BY <1>b, <1>d, <2>1
    DEF IInv, TypeOK, Counting, Undisturbed, OwnSoFar, Inside, Started, InCall
  <2>2. CASE u # t
    BY <1>a, <2>2, OthersKept DEF IInv, TypeOK
  <2>. QED
    BY <2>1, <2>2
<1>. QED
  BY <1>1, <1>2, <1>3, <1>4 DEF IInv

LEMMA ReplayInv ==
  ASSUME IInv, NEW t \in Thread, Replay(t)
  PROVE  IInv'
<1> USE DEF Replay, GoesOn, Go, shared
<1>a. pc[t] # "idle" /\ lock = t /\ lock # Nobody /\ pc[t] \in InCall
  BY PolicyAssumption DEF IInv, Serialized, InCall
<1>b. /\ calls \in Call /\ index = calls /\ index = made[t] % N /\ made[t] \in Nat
      /\ total = made[t] + 1
  <2>1. /\ calls < N /\ index = calls /\ calls \in 0..N
        /\ index = made[t] % N /\ made[t] \in Nat /\ total = made[t] + 1
    BY <1>a DEF IInv, TypeOK, Counting
  <2>. QED
    BY <2>1, PolicyAssumption DEF Call
<1>c. entries[calls].gain = calls
  BY <1>b DEF IInv, Baked
<1>d. made[t] < N => entries[calls].gain = made[t]
  BY <1>b, <1>c, ModBelow, PolicyAssumption DEF Call
<1>e. /\ used' \in [Thread -> [Call -> Call \cup {None}]]
      /\ made' \in [Thread -> Nat]
      /\ made'[t] = made[t] + 1 /\ OwnSoFar(t)'
  BY <1>a, <1>b, <1>c, <1>d, MadeOwn
<1>f. calls' \in 0..N
  BY <1>b, PolicyAssumption DEF Call
<1>1. TypeOK'
  BY <1>e, <1>f DEF IInv, TypeOK, Inside, Made
<1>2. Serialized'
  BY <1>a DEF IInv, TypeOK, Serialized, Started, InCall, Made
<1>3. Baked'
  BY DEF IInv, Baked
<1>4. ASSUME NEW u \in Thread
      PROVE  Counting(u)' /\ Undisturbed(u)'
  <2>1. CASE u = t
    <3>1. pc'[t] = "model" /\ total' = made'[t] /\ record'[t] \in Record /\ outcome'[t] # "returned"
      BY <1>a, <1>b, <1>e DEF IInv, TypeOK, Counting, Made, Inside, InCall
    <3>2. ~spoiled'[t] => guarded'[t] = installed' /\ (installed' => calls' = made'[t])
      BY <1>a, <1>b, <1>e DEF IInv, TypeOK, Undisturbed, Started
    <3>. QED
      BY <1>e, <2>1, <3>1, <3>2 DEF Counting, Undisturbed, Inside, Started, InCall
  <2>2. CASE u # t
    BY <1>a, <2>2, OthersKept DEF IInv, TypeOK, Made
  <2>. QED
    BY <2>1, <2>2
<1>. QED
  BY <1>1, <1>2, <1>3, <1>4 DEF IInv

LEMMA LeaveGraphInv ==
  ASSUME IInv, NEW t \in Thread, LeaveGraph(t)
  PROVE  IInv'
<1> USE DEF LeaveGraph, Go, shared
<1>a. pc[t] # "idle" /\ lock = t /\ lock # Nobody
  BY PolicyAssumption DEF IInv, Serialized
<1>1. TypeOK'
  BY DEF IInv, TypeOK, Inside
<1>2. Serialized'
  <2>1. active' => \E u \in Thread : guarded'[u]
    BY <1>a, Alone DEF IInv, TypeOK, Serialized
  <2>2. \A u \in Thread : guarded'[u] => active' /\ pc'[u] \in Started
    BY <1>a, Alone DEF IInv, TypeOK
  <2>. QED
    BY <1>a, <2>1, <2>2 DEF IInv, TypeOK, Serialized
<1>3. Baked'
  BY DEF IInv, Baked
<1>4. ASSUME NEW u \in Thread
      PROVE  Counting(u)' /\ Undisturbed(u)'
  <2>1. CASE u = t
    BY <2>1 DEF IInv, TypeOK, Counting, Undisturbed, OwnSoFar, Inside, Started, InCall
  <2>2. CASE u # t
    BY <1>a, <2>2, OthersKept DEF IInv, TypeOK
  <2>. QED
    BY <2>1, <2>2
<1>. QED
  BY <1>1, <1>2, <1>3, <1>4 DEF IInv

LEMMA BeginRemoveInv == IInv /\ BeginRemove => IInv'
<1> SUFFICES ASSUME IInv, BeginRemove
             PROVE  IInv'
  OBVIOUS
<1> USE DEF BeginRemove, shared, graph, chunk
<1>1. TypeOK'
  BY DEF IInv, TypeOK
<1>2. Serialized' /\ Baked'
  BY DEF IInv, Serialized, Baked
<1>3. ASSUME NEW t \in Thread
      PROVE  Counting(t)' /\ Undisturbed(t)'
  BY DEF IInv, Counting, Undisturbed, OwnSoFar
<1>. QED
  BY <1>1, <1>2, <1>3 DEF IInv

LEMMA EndRemoveInv == IInv /\ EndRemove => IInv'
<1> SUFFICES ASSUME IInv, EndRemove
             PROVE  IInv'
  OBVIOUS
<1> USE DEF EndRemove, shared
<1>1. TypeOK'
  BY DEF IInv, TypeOK
<1>2. Serialized' /\ Baked'
  BY DEF IInv, Serialized, Baked
<1>3. ASSUME NEW t \in Thread
      PROVE  Counting(t)' /\ Undisturbed(t)'
  BY DEF IInv, TypeOK, Counting, Undisturbed, OwnSoFar, Inside, Started, InCall
<1>. QED
  BY <1>1, <1>2, <1>3 DEF IInv

\* The three ways in which a thread raises an exception.
LEMMA RejectInv ==
  ASSUME IInv, NEW t \in Thread,
         RejectSchedule(t) \/ RejectCall(t) \/ RejectCount(t) \/ Interrupt(t)
  PROVE  IInv'
<1>1. pc[t] \in Inside /\ Raise(t)
  BY DEF RejectSchedule, RejectCall, RejectCount, Interrupt, Inside
<1>2. spoiled' \in [Thread -> BOOLEAN]
  BY DEF IInv, TypeOK, RejectSchedule, RejectCall, RejectCount, Interrupt
<1>. QED
  BY <1>1, <1>2, RaiseInv

LEMMA StepInv == IInv /\ [Next]_vars => IInv'
<1> SUFFICES ASSUME IInv, [Next]_vars
             PROVE  IInv'
  OBVIOUS
<1>1. ASSUME NEW t \in Thread, NEW r \in Record, Infer(t, r)
      PROVE  IInv'
  BY <1>1, InferInv
<1>2. ASSUME NEW t \in Thread, Refuse(t)
      PROVE  IInv'
  BY <1>2, RefuseInv
<1>3. ASSUME NEW t \in Thread, Step(t)
      PROVE  IInv'
  BY <1>3, WalkInv, ActivateInv, PredictInv, EagerCallInv, GraphCallInv, CaptureInv, ReplayInv,
     LeaveGraphInv, RejectInv
  DEF Step
<1>4. ASSUME NEW t \in Thread, Interrupt(t)
      PROVE  IInv'
  BY <1>4, RejectInv
<1>5. CASE BeginRemove \/ EndRemove
  BY <1>5, BeginRemoveInv, EndRemoveInv
<1>6. CASE UNCHANGED vars
  BY <1>6
  DEF vars, shared, graph, chunk, IInv, TypeOK, Serialized, Baked, Counting, Undisturbed, OwnSoFar
<1>. QED
  BY <1>1, <1>2, <1>3, <1>4, <1>5, <1>6 DEF Next

LEMMA InductiveInv == Spec => []IInv
<1>1. Init => IInv
  BY InitInv
<1>2. IInv /\ [Next]_vars => IInv'
  BY StepInv
<1>. QED
  BY <1>1, <1>2, PTL DEF Spec

-----------------------------------------------------------------------------
\* Every variable of the policy stays in its type: the call index in particular
\* never leaves the calibrated calls, and the graph's count never passes them.
THEOREM Typing == Spec => []TypeOK
<1>1. IInv => TypeOK
  BY DEF IInv
<1>. QED
  BY <1>1, InductiveInv, PTL

\* What infer returns was computed with N calls, each with its own gains.
THEOREM OwnGains == Spec => []ReturnsOwnGains
<1>1. IInv => ReturnsOwnGains
  <2> SUFFICES ASSUME IInv, NEW t \in Thread, outcome[t] = "returned"
               PROVE  made[t] = N /\ \A k \in Call : used[t][k] = k
    BY DEF ReturnsOwnGains
  <2>1. made[t] = N /\ OwnSoFar(t)
    BY DEF IInv, Counting
  <2>. QED
    BY <2>1, PolicyAssumption DEF OwnSoFar, Call
<1>. QED
  BY <1>1, InductiveInv, PTL

\* A free policy has nothing left of earlier inferences in its shared state.
THEOREM Cleanness == Spec => []CleanBetween
<1>1. IInv => CleanBetween
  <2> SUFFICES ASSUME IInv, lock = Nobody
               PROVE  index = None /\ ~active
    BY DEF CleanBetween
  <2>1. \A t \in Thread : pc[t] = "idle"
    BY PolicyAssumption DEF IInv, Serialized
  <2>2. \A t \in Thread : ~guarded[t]
    BY <2>1 DEF IInv, Serialized, Started, InCall
  <2>. QED
    BY <2>2 DEF IInv, Serialized
<1>. QED
  BY <1>1, InductiveInv, PTL

\* A rejection has its reason in the record or in what happened meanwhile.
LEMMA RejectReason ==
  ASSUME IInv, NEW t \in Thread, RejectCall(t) \/ RejectCount(t),
         ~spoiled[t], record[t].makes = N
  PROVE  \E k \in Call : entries[k] # None /\ entries[k].layout # record[t].layout
<1>a. /\ pc[t] \in Inside /\ Counting(t) /\ Undisturbed(t) /\ TypeOK /\ lock = t
      /\ N \in Nat \ {0} /\ made[t] \in Nat /\ calls \in 0..N
  BY PolicyAssumption
  DEF IInv, TypeOK, Serialized, RejectCall, RejectCount, Inside
<1>1. CASE RejectCall(t)
  <2>1. CASE pc[t] = "check"
    <3>1. ~guarded[t] /\ \A u \in Thread : u # t => ~guarded[u]
      BY <1>a, <2>1, Alone DEF IInv, Serialized, Started, InCall
    <3>. QED
      BY <1>1, <2>1, <3>1 DEF RejectCall, GoesOn, IInv, Serialized
  <2>2. CASE pc[t] = "core"
    <3>1. /\ guarded[t] = installed /\ (installed => calls = made[t])
          /\ index = made[t] % N /\ made[t] < N
      BY <1>a, <2>2 DEF Counting, Undisturbed, Started, InCall
    <3>2. index = made[t] /\ index # None
      BY <1>a, <3>1, ModBelow, PolicyAssumption DEF Call
    <3>3. installed => active
      BY <3>1 DEF IInv, Serialized
    <3>. QED
      BY <1>1, <1>a, <2>2, <3>1, <3>2, <3>3 DEF RejectCall, GoesOn
  <2>3. CASE pc[t] = "capture"
    <3>1. index = calls /\ index # None
      BY <1>a, <2>3, PolicyAssumption DEF Counting
    <3>. QED
      BY <1>1, <2>3, <3>1 DEF RejectCall, GoesOn
  <2>4. CASE pc[t] = "replay"
    <3>1. calls \in Call /\ entries[calls] # None
      BY <1>a, <2>4 DEF Counting, Undisturbed, Call
    <3>2. entries[calls].layout # record[t].layout
      BY <1>1, <2>4, <3>1 DEF RejectCall, GoesOn
    <3>. QED
      BY <3>1, <3>2
  <2>. QED
    BY <1>1, <2>1, <2>2, <2>3, <2>4 DEF RejectCall
<1>2. CASE RejectCount(t)
  BY <1>2, <1>a DEF RejectCount, Counting, Undisturbed, Started, InCall
<1>. QED
  BY <1>1, <1>2

\* An inference does not fail because of earlier or of refused ones.
THEOREM NoTraces == Spec => FailsForAReason
<1> DEFINE Reason(t) ==
      \/ record[t].steps # N \/ record[t].makes # N
      \/ spoiled'[t]
      \/ \E k \in Call : entries[k] # None /\ entries[k].layout # record[t].layout
<1>1. ASSUME IInv, [Next]_vars, NEW t \in Thread,
             pc[t] \in Inside, pc'[t] = "clear", outcome'[t] = "failed"
      PROVE  Reason(t)
  <2>1. RejectSchedule(t) \/ RejectCall(t) \/ RejectCount(t) \/ Interrupt(t)
    <3>a. pc[t] # "idle" /\ pc'[t] # pc[t] /\ outcome[t] = outcome[t]
      BY <1>1 DEF Inside
    <3>1. ASSUME NEW u \in Thread, u # t, Step(u) \/ Interrupt(u)
          PROVE  FALSE
      <4>1. pc[u] = "idle"
        BY <1>1, <3>a, <3>1, Alone
      <4>. QED
        BY <3>1, <4>1
        DEF Step, Reset, CheckSchedule, RejectSchedule, Enter, CheckActive, Activate, Predict,
            EagerCall, GraphCall, Capture, Replay, RejectCall, LeaveGraph, Return, RejectCount,
            Clear, Release, Interrupt, Inside
    <3>2. ASSUME NEW u \in Thread, (\E r \in Record : Infer(u, r)) \/ Refuse(u)
          PROVE  FALSE
      BY <1>1, <3>2, <3>a DEF Infer, Refuse, Go, IInv, TypeOK
    <3>3. ~(BeginRemove \/ EndRemove \/ UNCHANGED vars)
      BY <3>a DEF BeginRemove, EndRemove, vars
    <3>4. Step(t) \/ Interrupt(t)
      <4>1. \E u \in Thread : Step(u) \/ Interrupt(u)
        <5>1. Next
          BY <1>1, <3>3
        <5>. QED
          BY <5>1, <3>2, <3>3 DEF Next
      <4>. QED
        BY <4>1, <3>1
    <3>5. ~Return(t)
      BY <1>1 DEF Return, IInv, TypeOK
    <3>. QED
      BY <1>1, <3>4, <3>5
      DEF Step, Reset, CheckSchedule, Enter, CheckActive, Activate, Predict, EagerCall, GraphCall,
          Capture, Replay, Made, LeaveGraph, Clear, Release, Go, IInv, TypeOK, Inside
  <2>2. CASE RejectSchedule(t)
    BY <2>2 DEF RejectSchedule
  <2>3. CASE RejectCall(t) \/ RejectCount(t)
    <3>1. spoiled'[t] = spoiled[t]
      BY <2>3 DEF RejectCall, RejectCount
    <3>. QED
      BY <1>1, <2>3, <3>1, RejectReason
  <2>4. CASE Interrupt(t)
    BY <1>1, <2>4 DEF Interrupt, IInv, TypeOK
  <2>. QED
    BY <2>1, <2>2, <2>3, <2>4
<1>2. IInv /\ [Next]_vars =>
        [\A t \in Thread : pc[t] \in Inside /\ pc'[t] = "clear" /\ outcome'[t] = "failed" =>
           Reason(t)]_vars
  BY <1>1
<1>. QED
  BY <1>2, InductiveInv, PTL DEF Spec, FailsForAReason
=============================================================================
