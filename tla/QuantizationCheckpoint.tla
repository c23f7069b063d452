----------------------- MODULE QuantizationCheckpoint -----------------------
(***************************************************************************)
(* lib/checkpoint.py, the calibrated sites, and the topology they are sites *)
(* of (lib/topology.py).                                                   *)
(*                                                                         *)
(* A model is the attribute each registered path leads to, and the module  *)
(* each attribute holds.  Two paths may lead to one attribute of a shared  *)
(* parent (model.mot and model.dit), and two attributes may hold one       *)
(* Linear (a shortcut): Linears with the same id are the same object.      *)
(*                                                                         *)
(* Of what calibration computes, the quantized weight is kept, as one row  *)
(* of integers, and where the rest comes from: `by` stands for scales,     *)
(* gains and clips, which are not told apart.  A tuple of sites is a set,  *)
(* as its order matters to nobody.                                         *)
(***************************************************************************)
EXTENDS Integers, Sequences, FiniteSets

CONSTANTS QWeight(_, _, _), \* QWeight(name, k, config): the row calibration arrives at
          None            \* a value like no other

At(model, path) == model.module[model.slot[path]]
Names(model) == {t.name : t \in model.targets}
TargetNamed(model, name) == CHOOSE t \in model.targets : t.name = name

\* Every target is still a Linear.
Enumerable(model) == \A t \in model.targets : At(model, t.name).kind = "linear"

\* install_rht_: the weights are rotated in place, the inputs by a hook.
Rotated(model) ==
  [model EXCEPT !.module = [s \in DOMAIN model.module |->
     [model.module[s] EXCEPT !.rotated =
        \E t \in model.targets : At(model, t.name).id = model.module[s].id]]]

\* Largest first; Linears of one size keep their order.
Size(model, t) == At(model, t.name).n * At(model, t.name).k
Sooner(model, t, u) ==
  \/ Size(model, t) > Size(model, u)
  \/ Size(model, t) = Size(model, u) /\ t.site_index < u.site_index
Turn(model, t) == Cardinality({u \in model.targets : Sooner(model, u, t)}) + 1

\* The first of the ranks with least load.
Least(loads) ==
  CHOOSE r \in DOMAIN loads : \A q \in DOMAIN loads :
    loads[r] < loads[q] \/ (loads[r] = loads[q] /\ r <= q)

Idle(world) == [loads    |-> [r \in 0 .. world - 1 |-> 0],
                assigned |-> [r \in 0 .. world - 1 |-> {}]]
Assign(model, given, t) ==
  [given EXCEPT !.loads[Least(given.loads)] = @ + Size(model, t),
                !.assigned[Least(given.loads)] = @ \cup {t.site_index}]

Balance(model, world) ==
  LET given[n \in 0 .. Cardinality(model.targets)] ==
        IF n = 0 THEN Idle(world)
        ELSE Assign(model, given[n - 1], CHOOSE t \in model.targets : Turn(model, t) = n)
  IN given[Cardinality(model.targets)]
BalancedSiteIndices(model, world) == Balance(model, world).assigned

Signs(config, name) == IF config.rotation = "none" THEN None ELSE <<config.seed, name>>

\* What calibration makes of a target of the model.
QuantizedSite(model, t, config) ==
  [site_index |-> t.site_index, module_name |-> t.name, operation |-> t.operation,
   n |-> At(model, t.name).n, qweight |-> QWeight(t.name, At(model, t.name).k, config),
   by |-> config,
   rotation |-> config.rotation, signs |-> Signs(config, t.name)]

ValidSite(e) == (e.signs = None) = (e.rotation = "none")

ValidCheckpoint(checkpoint) ==
  /\ checkpoint.metadata.weight_bits \in 2 .. 8
  /\ checkpoint.metadata.activation_bits \in 2 .. 8
  /\ checkpoint.metadata.num_calls > 0 /\ checkpoint.sites # {}
  /\ \A e, f \in checkpoint.sites : e.module_name = f.module_name => e = f
  /\ \A e \in checkpoint.sites : ValidSite(e)
  /\ \A e, f \in checkpoint.sites : e.rotation = f.rotation

IsRotated(checkpoint) == \E e \in checkpoint.sites : e.rotation # "none"

\* Mistake: one format for all.
StateDictUnmarked(checkpoint) == [format |-> "plain", checkpoint |-> checkpoint]

StateDict(checkpoint) ==
  [format |-> IF IsRotated(checkpoint) THEN "rotated" ELSE "plain", checkpoint |-> checkpoint]

\* from_state_dict, unless it refuses.
Loads(payload) ==
  /\ ValidCheckpoint(payload.checkpoint)
  /\ IsRotated(payload.checkpoint) = (payload.format = "rotated")

\* That a rank is missing shows nowhere in the shards.
Mergeable(selected) ==
  /\ \A i \in DOMAIN selected : ValidCheckpoint(selected[i])
                                /\ selected[i].metadata = selected[1].metadata
  /\ \A i, j \in DOMAIN selected : \A e \in selected[i].sites, f \in selected[j].sites :
       i # j => e.site_index # f.site_index

Merge(selected) ==
  [metadata |-> selected[1].metadata,
   sites |-> UNION {selected[i].sites : i \in DOMAIN selected}]
=============================================================================
