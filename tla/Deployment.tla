------------------------------ MODULE Deployment ------------------------------
(***************************************************************************)
(* From calibrated shards to policies that serve: merging the checkpoints  *)
(* of the ranks, exporting a deployment from the original model, and a     *)
(* server process that builds policies from it, with or without the robot  *)
(* runtime profile, runs their kernels and may be told to fuse blocks.     *)
(*                                                                         *)
(* How a shard is calibrated is CalibrateWorker's subject.  Here a merge   *)
(* is given any files the workers may have left: of any configuration, any *)
(* number of ranks, some of them missing or given twice.  Model is what    *)
(* builders may make, so that the export and each load may have another.   *)
(*                                                                         *)
(* A constructor has two steps: it settles the profile, then it loads the  *)
(* deployment, which takes long, and other policies may run meanwhile.     *)
(***************************************************************************)
EXTENDS PackedDeployment

CONSTANTS Model, Config,
          MaxRanks, MaxInputs, MaxPolicies  \* bounds

\* A model as it is built.  Where ids are the same, Linears are.
IsModel(m) ==
  /\ m = [targets |-> m.targets, slot |-> m.slot, module |-> m.module]
  /\ IsFiniteSet(m.targets)
  /\ \A t \in m.targets : t.name \in DOMAIN m.slot /\ t.site_index \in Nat
  /\ \A t, u \in m.targets : t.site_index = u.site_index \/ t.name = u.name => t = u
  /\ DOMAIN m.module = {m.slot[p] : p \in DOMAIN m.slot}
  /\ \A s \in DOMAIN m.module :
       /\ m.module[s] = [kind |-> "linear", id |-> m.module[s].id, n |-> m.module[s].n,
                         k |-> m.module[s].k, bias |-> m.module[s].bias, rotated |-> FALSE]
       /\ m.module[s].n \in Nat /\ m.module[s].k \in Nat
  /\ \A s, r \in DOMAIN m.module :
       m.module[s].id = m.module[r].id => m.module[s] = m.module[r]

ASSUME DeploymentAssumption ==
  /\ MaxRanks \in Nat \ {0} /\ MaxInputs \in Nat \ {0} /\ MaxPolicies \in Nat
  /\ \A m \in Model : IsModel(m)
  /\ \A c \in Config : c.rotation \in {"none", "rht"}
                       /\ (c.rotation # "none" => c.metadata.activation_bits = 4)
  /\ \A m \in Model, c \in Config : \A t \in m.targets :
       LET k == At(m, t.name).k
       IN QWeight(t.name, k, c) \in Seq(Int) /\ Len(QWeight(t.name, k, c)) = k
  /\ None \notin {"64", "256", "auto"}

Tile == {None, "64", "256"}

VARIABLES
  checkpoint,  \* the calibration that is exported: a file, or None
  file,        \* the deployment, or None
  tile, small, \* FASTWAM_W4A8_TILE and _EXPERIMENTAL_SMALL_TILE
  configured,  \* _configured_tile
  extension,   \* the tile the loaded W4A8 extension launches, or None
  building,    \* the options of the policy under construction, or None
  policies

process == <<tile, small, configured, extension, building, policies>>
vars == <<checkpoint, file, process>>

Init ==
  /\ checkpoint = None /\ file = None
  /\ tile = None /\ small = FALSE /\ configured = None /\ extension = None
  /\ building = None /\ policies = <<>>

\* What a rank calibrates; a rank without sites leaves no file.
Shard(model, world, rank, config) ==
  [metadata |-> config.metadata,
   sites |-> {QuantizedSite(model, t, config) : t \in
                {t \in model.targets :
                   t.site_index \in BalancedSiteIndices(model, world)[rank]}}]

ShardFiles(model) ==
  {StateDict(shard) : shard \in
    {s \in UNION {{Shard(model, world, rank, config) : rank \in 0 .. world - 1} :
                     world \in 1 .. MaxRanks, config \in Config} : ValidCheckpoint(s)}}

\* merge_artifacts.py: one file is linked as it is, more are loaded and merged.
MergeArtifacts(inputs) ==
  LET selected == [i \in DOMAIN inputs |-> inputs[i].checkpoint]
  IN /\ file = None
     /\ \/ Len(inputs) = 1 /\ checkpoint' = inputs[1]
        \/ /\ Len(inputs) > 1 /\ \A i \in DOMAIN inputs : Loads(inputs[i])
           /\ Mergeable(selected) /\ ValidCheckpoint(Merge(selected))
           /\ checkpoint' = StateDict(Merge(selected))
     /\ UNCHANGED <<file, process>>

\* export_deployment, given a model of the caller's.
Export(model) ==
  /\ checkpoint # None /\ file = None /\ Loads(checkpoint)
  /\ Exportable(model, checkpoint.checkpoint)
  /\ ValidPayload(Payload(model, checkpoint.checkpoint))
  /\ file' = Payload(model, checkpoint.checkpoint)
  /\ UNCHANGED <<checkpoint, process>>

-----------------------------------------------------------------------------
\* A server process starts, or starts again, in some environment.
StartServer ==
  /\ file # None
  /\ tile' \in Tile /\ small' \in BOOLEAN
  /\ configured' = None /\ extension' = None /\ building' = None /\ policies' = <<>>
  /\ UNCHANGED <<checkpoint, file>>

\* Mistake: an extension that is loaded already is no obstacle.
ConfigurableAnytime == tile \in {None, "64"} /\ ~small

\* configure_tile64: an extension that is loaded keeps its tile.
Configurable ==
  /\ tile \in {None, "64"} /\ ~small
  /\ extension # None => configured = "64"

\* resolve_runtime_profile: the tile stays set, whatever becomes of the policy.
\* The checks and the assignment are one step: no thread launches the extension
\* for the first time in between, as in every caller of the repository.
ResolveProfile(profile, graph, fuse) ==
  /\ file # None /\ building = None /\ Len(policies) < MaxPolicies
  /\ \/ /\ profile /\ graph /\ ~fuse /\ Configurable
        /\ tile' = "64" /\ configured' = "64"
     \/ /\ ~profile
        /\ UNCHANGED <<tile, configured>>
  /\ building' = [profile |-> profile, graph |-> graph, fuse |-> fuse]
  /\ UNCHANGED <<checkpoint, file, small, extension, policies>>

\* The profile is for deployments that are not rotated, with activations of 8 bits.
ValidProfileMetadata(payload) ==
  payload.metadata.activation_bits = 8 /\ \A c \in payload.sites : c.rotation = "none"

\* The rest of QuantizedPolicy.__init__.  The adapter's finalize_model may set
\* the flags of the fusions; with a profile they are cleared again.
BuildPolicy(built, custom) ==
  LET loaded == LoadDeployment(file, built)
      finished == IF building.profile THEN SetFusions(loaded, FALSE)
                  ELSE IF custom THEN SetFusions(loaded, TRUE) ELSE loaded
      expected == {c.module_name : c \in
                     {c \in file.sites : FusesAdaln(c.operation) \/ FusesResidual(c.operation)}}
      fused == SetFusions(finished, TRUE)
  IN /\ building # None
     /\ Loadable(file, built)
     /\ building.profile => ValidProfileMetadata(file)
     /\ custom => FusionAllowed(loaded, TRUE)
     /\ building.fuse => /\ \A c \in file.sites : c.rotation = "none"
                         /\ expected # {} /\ FusedSites(fused) = expected
     /\ policies' = Append(policies,
          [profile |-> building.profile, graph |-> building.graph, dispatch |-> building.fuse,
           built |-> built, model |-> IF building.fuse THEN fused ELSE finished,
           bits |-> file.metadata.activation_bits, direct |-> TRUE, ran |-> None])
     /\ building' = None
     /\ UNCHANGED <<checkpoint, file, tile, small, configured, extension>>

\* The constructor raises.
BuildFails ==
  /\ building # None /\ building' = None
  /\ UNCHANGED <<checkpoint, file, tile, small, configured, extension, policies>>

\* validate_deployment.py, stage replace: the original model, with the Linears
\* of the checkpoint replaced in place.
ReplaceStage(model, graph, fuse) ==
  /\ file # None /\ building = None /\ Len(policies) < MaxPolicies
  /\ Loads(checkpoint) /\ Applicable(model, checkpoint.checkpoint, fuse)
  /\ policies' = Append(policies,
       [profile |-> FALSE, graph |-> graph, dispatch |-> FALSE, built |-> model,
        model |-> ApplyCheckpoint(model, checkpoint.checkpoint, fuse),
        bits |-> checkpoint.checkpoint.metadata.activation_bits,
        direct |-> FALSE, ran |-> None])
  /\ UNCHANGED <<checkpoint, file, tile, small, configured, extension, building>>

\* set_wam_block_fusions, called on a policy that exists.
ChangeFusions(i, enabled) ==
  /\ ~policies[i].graph /\ FusionAllowed(policies[i].model, enabled)
  /\ policies' = [policies EXCEPT ![i].model = SetFusions(@, enabled)]
  /\ UNCHANGED <<checkpoint, file, tile, small, configured, extension, building>>

\* A policy runs.  The W4A8 extension reads its tile once, at the first launch.
Infer(i) ==
  /\ extension' = IF policies[i].bits # 8 \/ extension # None THEN extension
                  ELSE IF tile = None THEN "auto" ELSE tile
  /\ policies' = [policies EXCEPT ![i].ran = IF policies[i].bits = 8 THEN extension' ELSE @]
  /\ UNCHANGED <<checkpoint, file, tile, small, configured, building>>

Next ==
  \/ \E m \in Model, n \in 1 .. MaxInputs : \E inputs \in [1 .. n -> ShardFiles(m)] :
       MergeArtifacts(inputs)
  \/ \E m \in Model : Export(m) \/ Export(Rotated(m))
  \/ StartServer
  \/ \E profile, graph, fuse \in BOOLEAN : ResolveProfile(profile, graph, fuse)
  \/ \E built \in Model, custom \in BOOLEAN : BuildPolicy(built, custom)
  \/ BuildFails
  \/ \E m \in Model, graph, fuse \in BOOLEAN : ReplaceStage(m, graph, fuse)
  \/ \E i \in DOMAIN policies, enabled \in BOOLEAN : ChangeFusions(i, enabled)
  \/ \E i \in DOMAIN policies : Infer(i)

Spec == Init /\ [][Next]_vars

-----------------------------------------------------------------------------
\* Every variable has its type.
TypeOK ==
  /\ checkpoint = None \/ Loads(checkpoint)
  /\ file = None \/ ValidPayload(file)
  /\ tile \in Tile /\ small \in BOOLEAN /\ configured \in {None, "64"}
  /\ extension \in Tile \cup {"auto"}
  /\ building = None \/ building \in [profile : BOOLEAN, graph : BOOLEAN, fuse : BOOLEAN]
  /\ Len(policies) <= MaxPolicies

\* The buffers are those the target of this name was calibrated with: the
\* kernels read back the calibrated integers, the scales and signs belong to
\* them, and clips are divided by the steps of the precision that runs.
OwnBuffers(buffers, name, bits) ==
  LET by == buffers.scales.by
  IN /\ buffers.kind = "packed"
     /\ Unpack(buffers.weight) = QWeight(name, 2 * Len(buffers.weight), by)
     /\ buffers.scales.of = name
     /\ by.metadata.activation_bits = bits /\ buffers.scales.steps = 2 ^ (bits - 1) - 1
     /\ buffers.signs = Signs(by, name)

\* Every target Linear of the file's model has one entry, and under every path
\* that leads to it the packed weight that was calibrated for it.
Complete(payload) ==
  LET m == payload.model_config
  IN /\ \A t \in m.targets :
          \E c \in payload.sites :
            /\ c.module_name = t.name
            /\ \A d \in payload.sites : d.module_name = t.name => d = c
            /\ c.aliases = TargetAliases(m, t.name)
            /\ \A p \in TargetAliases(m, t.name) :
                 /\ OwnBuffers(payload.state[p], t.name, payload.metadata.activation_bits)
                 /\ payload.state[p].scales.by.metadata = payload.metadata
                 /\ payload.state[p].scales.by.rotation = c.rotation
     /\ \A c, d \in payload.sites : c.rotation = d.rotation

\* A deployment has every target Linear of its model exactly once, all of them
\* calibrated with the same metadata and kind of rotation (its seed is not
\* compared, and may differ), and under every path that leads to a target the
\* packed weight, so that no original weight of it is left over; whichever shards
\* were merged (QuantizationCheckpoint.merge, export_deployment).
DeploymentComplete == file # None => Complete(file)

\* Every quantized Linear has the buffers of the target it stands for.  In a
\* deployment it stands under all the paths of that target, and every target is
\* quantized; replaced in place, every site of the calibration is.
OwnWeights(p, calibrated) ==
  /\ \A s \in Quantized(p.model) :
       /\ OwnBuffers(p.model.module[s].buffers, p.model.module[s].site, p.bits)
       /\ p.model.module[s].buffers.bias = p.built.module[s].bias
  /\ p.direct => \A t \in p.built.targets : \A a \in TargetAliases(p.built, t.name) :
       At(p.model, a).kind = "quant" /\ At(p.model, a).site = t.name
  /\ ~p.direct => \A e \in calibrated.checkpoint.sites :
       /\ At(p.model, e.module_name).kind = "quant"
       /\ At(p.model, e.module_name).site = e.module_name

\* In a policy every path that led to a target Linear leads to the quantized
\* one of that target and no other, also where experts share parents or a
\* Linear is registered twice (load_deployment); replaced in place, every
\* Linear that was calibrated is (apply_checkpoint).
UsesOwnWeights == \A i \in DOMAIN policies : OwnWeights(policies[i], checkpoint)

Honours(p) ==
  p.profile =>
    /\ p.graph /\ FusedSites(p.model) = {} /\ p.bits = 8
    /\ \A s \in Quantized(p.model) : p.model.module[s].rotation = "none"
    /\ p.ran \in {None, "64"}

\* A policy built under the profile runs as the profile says: with a graph,
\* nothing fused, not rotated, and its kernels with tiles of 64, whatever the
\* process did before and other policies do meanwhile (configure_tile64,
\* set_wam_block_fusions).
ProfileHonoured == \A i \in DOMAIN policies : Honours(policies[i])
=============================================================================
