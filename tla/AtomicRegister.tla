--------------------------- MODULE AtomicRegister ---------------------------
(***************************************************************************)
(* What a caller of recovery.atomic_snapshot(payload, path) may rely on:   *)
(* the file at `path` behaves like one register.  A save takes effect at   *)
(* a single instant between its call and its return, or not at all when    *)
(* the process dies; a reader always finds a whole payload.  A power loss  *)
(* may bring back an older whole payload, never a damaged one.             *)
(***************************************************************************)
CONSTANTS Writer,   \* processes that save
          Payload,  \* what they save
          Absent    \* no such file

VARIABLES content,  \* what loading the path returns now
          durable,  \* what loading it returns after a power loss
          saving    \* saving[w]: the payload of w's unfinished save, or Absent

rvars == <<content, durable, saving>>

RegisterInit ==
  /\ content = Absent
  /\ durable = Absent
  /\ saving = [w \in Writer |-> Absent]

Call(w, v) ==
  /\ saving[w] = Absent
  /\ saving' = [saving EXCEPT ![w] = v]
  /\ UNCHANGED <<content, durable>>

TakeEffect(w) ==
  /\ saving[w] # Absent
  /\ content' = saving[w]
  /\ saving' = [saving EXCEPT ![w] = Absent]
  /\ UNCHANGED durable

Abandon(w) ==
  /\ saving[w] # Absent
  /\ saving' = [saving EXCEPT ![w] = Absent]
  /\ UNCHANGED <<content, durable>>

Settle ==
  /\ durable' = content
  /\ UNCHANGED <<content, saving>>

LosePower ==
  /\ content' = durable
  /\ saving' = [w \in Writer |-> Absent]
  /\ UNCHANGED durable

RegisterNext ==
  \/ \E w \in Writer : TakeEffect(w) \/ Abandon(w) \/ \E v \in Payload : Call(w, v)
  \/ Settle
  \/ LosePower

RegisterSpec == RegisterInit /\ [][RegisterNext]_rvars
=============================================================================
