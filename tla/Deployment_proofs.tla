------------------------- MODULE Deployment_proofs -------------------------
(***************************************************************************)
(* A deployment is complete and its policies run their own weights, and a  *)
(* profile is honoured, for every set of models, configurations and shards *)
(* and any number of policies.                                             *)
(***************************************************************************)
EXTENDS Deployment, FiniteSetTheorems, WellFoundedInduction, TLAPS

-----------------------------------------------------------------------------
\* The kernels read back what was packed.

LEMMA SignedNibble ==
  ASSUME NEW v \in -8 .. 7
  PROVE  v % 16 \in 0 .. 15 /\ Signed(v % 16) = v
BY DEF Signed

LEMMA Nibbles ==
  ASSUME NEW a \in 0 .. 15, NEW b \in 0 .. 15
  PROVE  (a + 16 * b) % 16 = a /\ (a + 16 * b) \div 16 = b
OBVIOUS

LEMMA PackedLength ==
  ASSUME NEW row \in Seq(Int), Packable(row)
  PROVE  Len(Pack(row)) = Len(row) \div 2 /\ 2 * Len(Pack(row)) = Len(row)
<1>1. Len(row) \in Nat /\ Len(row) \div 2 \in Nat
  OBVIOUS
<1>2. Len(Pack(row)) = Len(row) \div 2
  BY <1>1 DEF Pack
<1>. QED
  BY <1>1, <1>2 DEF Packable

\* Packing loses nothing: the kernels read back the row that was packed, signs
\* included (kernels/w4a8/ops.py, csrc/w4a8.cu).
THEOREM UnpackPack ==
  ASSUME NEW row \in Seq(Int), Packable(row)
  PROVE  Unpack(Pack(row)) = row
<1> DEFINE n == Len(row) \div 2
           bytes == Pack(row)
<1>1. Len(row) \in Nat /\ n \in Nat /\ Len(row) = 2 * n /\ Len(bytes) = n
  BY PackedLength DEF Packable
<1>5. ASSUME NEW x \in 1 .. 2 * n PROVE row[x] \in -8 .. 7
  <2>1. DOMAIN row = 1 .. 2 * n
    BY <1>1
  <2>. QED
    BY <2>1 DEF Packable
<1>2. row = [i \in 1 .. 2 * n |-> row[i]]
  BY <1>1
<1>3. ASSUME NEW i \in 1 .. 2 * n
      PROVE  Signed(IF i % 2 = 1 THEN bytes[(i + 1) \div 2] % 16 ELSE bytes[i \div 2] \div 16)
               = row[i]
  <2>1. row[i] \in -8 .. 7
    BY <1>5
  <2>2. CASE i % 2 = 1
    <3>1. PICK j \in 1 .. n : i = 2 * j - 1 /\ (i + 1) \div 2 = j
      <4>1. (i + 1) \div 2 \in 1 .. n /\ i = 2 * ((i + 1) \div 2) - 1
        BY <1>1, <2>2
      <4>. QED
        BY <4>1
    <3>2. row[2 * j] \in -8 .. 7
      <4>1. 2 * j \in 1 .. 2 * n
        BY <1>1
      <4>. QED
        BY <4>1, <1>5
    <3>3. bytes[j] = (row[2 * j - 1] % 16) + 16 * (row[2 * j] % 16)
      BY <1>1 DEF Pack
    <3>4. bytes[j] % 16 = row[i] % 16
      BY <2>1, <3>1, <3>2, <3>3, SignedNibble, Nibbles
    <3>. QED
      BY <2>1, <2>2, <3>1, <3>4, SignedNibble
  <2>3. CASE i % 2 # 1
    <3>1. PICK j \in 1 .. n : i = 2 * j /\ i \div 2 = j
      <4>1. i \div 2 \in 1 .. n /\ i = 2 * (i \div 2)
        BY <1>1, <2>3
      <4>. QED
        BY <4>1
    <3>2. row[2 * j - 1] \in -8 .. 7
      <4>1. 2 * j - 1 \in 1 .. 2 * n
        BY <1>1
      <4>. QED
        BY <4>1, <1>5
    <3>3. bytes[j] = (row[2 * j - 1] % 16) + 16 * (row[2 * j] % 16)
      BY <1>1 DEF Pack
    <3>4. bytes[j] \div 16 = row[i] % 16
      BY <2>1, <3>1, <3>2, <3>3, SignedNibble, Nibbles
    <3>. QED
      BY <2>1, <2>3, <3>1, <3>4, SignedNibble
  <2>. QED
    BY <2>2, <2>3
<1>4. Unpack(bytes) = [i \in 1 .. 2 * n |-> row[i]]
  BY <1>1, <1>3 DEF Unpack
<1>. QED
  BY <1>2, <1>4

-----------------------------------------------------------------------------
\* What a calibrated entry is.

CalibratedSite(metadata, e) ==
  \E m \in Model, c \in Config : \E t \in m.targets :
    e = QuantizedSite(m, t, c) /\ c.metadata = metadata

\* Its buffers are its own.
LEMMA CalibratedBuffers ==
  ASSUME NEW metadata, NEW e, CalibratedSite(metadata, e), Packable(e.qweight), NEW bias
  PROVE  LET buffers == Buffers(e, metadata.activation_bits, bias)
         IN /\ OwnBuffers(buffers, e.module_name, metadata.activation_bits)
            /\ buffers.scales.by.metadata = metadata
            /\ buffers.scales.by.rotation = e.rotation
            /\ buffers.bias = bias
<1> DEFINE bits == metadata.activation_bits
           buffers == Buffers(e, bits, bias)
<1>1. PICK m \in Model, c \in Config : \E t \in m.targets :
        e = QuantizedSite(m, t, c) /\ c.metadata = metadata
  BY DEF CalibratedSite
<1>2. PICK t \in m.targets : e = QuantizedSite(m, t, c) /\ c.metadata = metadata
  BY <1>1
<1> DEFINE k == At(m, t.name).k
<1>3. QWeight(t.name, k, c) \in Seq(Int) /\ Len(QWeight(t.name, k, c)) = k
  BY DeploymentAssumption
<1>4. /\ e.module_name = t.name /\ e.qweight = QWeight(t.name, k, c) /\ e.by = c
      /\ e.rotation = c.rotation /\ e.signs = Signs(c, t.name)
  BY <1>2 DEF QuantizedSite
<1>5. /\ buffers.kind = "packed" /\ buffers.weight = Pack(e.qweight) /\ buffers.bias = bias
      /\ buffers.scales.by = c /\ buffers.scales.of = t.name
      /\ buffers.scales.steps = 2 ^ (bits - 1) - 1 /\ buffers.signs = Signs(c, t.name)
  BY <1>4 DEF Buffers
<1>6. Unpack(buffers.weight) = e.qweight /\ 2 * Len(buffers.weight) = k
  BY <1>3, <1>4, <1>5, UnpackPack, PackedLength
<1>. QED
  BY <1>2, <1>4, <1>5, <1>6 DEF OwnBuffers

\* A file that was written by state_dict loads.
LEMMA WrittenLoads ==
  ASSUME NEW c, ValidCheckpoint(c)
  PROVE  Loads(StateDict(c)) /\ StateDict(c).checkpoint = c
BY DEF Loads, StateDict, IsRotated

LEMMA ShardsCalibrated ==
  ASSUME NEW m \in Model, NEW f \in ShardFiles(m)
  PROVE  /\ Loads(f)
         /\ \A e \in f.checkpoint.sites : CalibratedSite(f.checkpoint.metadata, e)
<1>1. PICK s \in UNION {{Shard(m, world, rank, config) : rank \in 0 .. world - 1} :
                          world \in 1 .. MaxRanks, config \in Config} :
        ValidCheckpoint(s) /\ f = StateDict(s)
  BY DEF ShardFiles
<1>2. PICK world \in 1 .. MaxRanks, config \in Config :
        s \in {Shard(m, world, rank, config) : rank \in 0 .. world - 1}
  BY <1>1
<1>3. PICK rank \in 0 .. world - 1 : s = Shard(m, world, rank, config)
  BY <1>2
<1>4. Loads(f) /\ f.checkpoint = s
  BY <1>1, WrittenLoads
<1>5. s.metadata = config.metadata
      /\ \A e \in s.sites : \E t \in m.targets : e = QuantizedSite(m, t, config)
  BY <1>3 DEF Shard
<1>. QED
  BY <1>4, <1>5 DEF CalibratedSite

Calibrated ==
  checkpoint # None =>
    /\ Loads(checkpoint)
    /\ \A e \in checkpoint.checkpoint.sites :
         CalibratedSite(checkpoint.checkpoint.metadata, e)

LEMMA MergeCalibrated ==
  ASSUME NEW m \in Model, NEW n \in 1 .. MaxInputs, NEW inputs \in [1 .. n -> ShardFiles(m)],
         MergeArtifacts(inputs)
  PROVE  Calibrated'
<1>1. n \in Nat /\ n >= 1 /\ Len(inputs) = n /\ DOMAIN inputs = 1 .. n
  BY DeploymentAssumption
<1>2. \A i \in 1 .. n : /\ Loads(inputs[i])
                        /\ \A e \in inputs[i].checkpoint.sites :
                             CalibratedSite(inputs[i].checkpoint.metadata, e)
  BY ShardsCalibrated
<1>3. CASE Len(inputs) = 1 /\ checkpoint' = inputs[1]
  BY <1>1, <1>2, <1>3 DEF Calibrated
<1>4. CASE Len(inputs) > 1 /\ checkpoint' # inputs[1]
  <2> DEFINE selected == [i \in DOMAIN inputs |-> inputs[i].checkpoint]
             merged == Merge(selected)
  <2>1. Mergeable(selected) /\ ValidCheckpoint(merged) /\ checkpoint' = StateDict(merged)
    BY <1>1, <1>4 DEF MergeArtifacts
  <2>2. Loads(checkpoint') /\ checkpoint'.checkpoint = merged
    BY <2>1, WrittenLoads
  <2>3. /\ merged.metadata = selected[1].metadata
        /\ \A e \in merged.sites : \E i \in 1 .. n : e \in selected[i].sites
    BY <1>1 DEF Merge
  <2>4. \A i \in 1 .. n : selected[i].metadata = selected[1].metadata
    BY <1>1, <2>1 DEF Mergeable
  <2>5. ASSUME NEW e \in merged.sites PROVE CalibratedSite(merged.metadata, e)
    <3>1. PICK i \in 1 .. n : e \in selected[i].sites
      BY <2>3
    <3>2. CalibratedSite(selected[i].metadata, e)
      BY <1>1, <1>2, <3>1
    <3>. QED
      BY <2>3, <2>4, <3>2
  <2>. QED
    BY <2>2, <2>5 DEF Calibrated
<1>5. CASE Len(inputs) > 1 /\ checkpoint' = inputs[1]
  BY <1>1, <1>2, <1>5 DEF Calibrated
<1>. QED
  BY <1>3, <1>4, <1>5 DEF MergeArtifacts

-----------------------------------------------------------------------------
\* What export makes of it.  Only the shape of the model is assumed, so that
\* this holds of a rotated one as well.

\* What an exporter finds under a path has the kind of a Linear.
LinearsOnly(model) == \A p \in DOMAIN model.slot : At(model, p).kind = "linear"

LEMMA ModelsAreLinear ==
  ASSUME NEW m \in Model
  PROVE  LinearsOnly(m) /\ LinearsOnly(Rotated(m))
<1>1. IsModel(m)
  BY DeploymentAssumption
<1>2. ASSUME NEW s \in DOMAIN m.module
      PROVE  /\ m.module[s].kind = "linear"
             /\ \A b : [m.module[s] EXCEPT !.rotated = b].kind = "linear"
  <2> DEFINE l == m.module[s]
  <2>1. l = [kind |-> "linear", id |-> l.id, n |-> l.n, k |-> l.k, bias |-> l.bias,
             rotated |-> FALSE]
    BY <1>1 DEF IsModel
  <2> HIDE DEF l
  <2>2. l.kind = "linear"
    BY <2>1
  <2>3. "kind" \in DOMAIN l
    BY <2>1
  <2>4. \A b : [l EXCEPT !.rotated = b].kind = "linear"
    BY <2>2, <2>3
  <2>. QED
    BY <2>2, <2>4 DEF l
<1>3. \A p \in DOMAIN m.slot : m.slot[p] \in DOMAIN m.module
  BY <1>1 DEF IsModel
<1>4. LinearsOnly(m)
  BY <1>2, <1>3 DEF LinearsOnly, At
<1>5. /\ Rotated(m).slot = m.slot
      /\ \A s \in DOMAIN m.module : Rotated(m).module[s].kind = "linear"
  <2>1. m = [targets |-> m.targets, slot |-> m.slot, module |-> m.module]
    BY <1>1 DEF IsModel
  <2>. QED
    BY <1>2, <2>1 DEF Rotated
<1>. QED
  BY <1>3, <1>4, <1>5 DEF LinearsOnly, At

\* The target of an entry, when no two of them share a Linear.
LEMMA OneEntryPerLinear ==
  ASSUME NEW model, NEW cp, Exportable(model, cp),
         NEW e \in cp.sites, NEW f \in cp.sites,
         At(model, e.module_name).id = At(model, f.module_name).id
  PROVE  e = f
<1>1. PICK t \in model.targets, u \in model.targets :
        t.name = e.module_name /\ u.name = f.module_name
  BY DEF Exportable, Covers, Names
<1>2. t = u
  BY <1>1 DEF Exportable, SharedByTargets
<1>. QED
  BY <1>1, <1>2 DEF Exportable, ValidCheckpoint

\* What lies under the paths of a target.
LEMMA ExportedBuffers ==
  ASSUME NEW model, NEW cp, Exportable(model, cp), NEW e \in cp.sites,
         NEW p \in TargetAliases(model, e.module_name)
  PROVE  Payload(model, cp).state[p]
           = Buffers(e, cp.metadata.activation_bits, At(model, e.module_name).bias)
<1> DEFINE SiteAt == {f \in cp.sites : p \in TargetAliases(model, f.module_name)}
<1>1. p \in DOMAIN model.slot /\ e \in SiteAt
  BY DEF TargetAliases
<1>2. \A f \in SiteAt : f = e
  <2>1. \A f \in SiteAt : At(model, f.module_name).id = At(model, e.module_name).id
    BY DEF TargetAliases
  <2>. QED
    BY <1>1, <2>1, OneEntryPerLinear
<1>3. (CHOOSE f \in SiteAt : TRUE) = e
  BY <1>1, <1>2
<1>4. Payload(model, cp).state[p]
        = IF SiteAt = {} THEN At(model, p)
          ELSE LET f == CHOOSE f \in SiteAt : TRUE
               IN Buffers(f, cp.metadata.activation_bits, At(model, f.module_name).bias)
  BY <1>1 DEF Payload
<1>. QED
  BY <1>1, <1>3, <1>4

\* The buffers under every path of a target are its own.
PathsOwned(payload) ==
  \A c \in payload.sites : \A p \in c.aliases :
    OwnBuffers(payload.state[p], c.module_name, payload.metadata.activation_bits)

\* Everything is kept as a Linear or packed.
Stored(payload) ==
  \A p \in DOMAIN payload.state : payload.state[p].kind \in {"linear", "packed"}

LEMMA ExportComplete ==
  ASSUME NEW model, LinearsOnly(model), NEW cp, Exportable(model, cp),
         \A e \in cp.sites : CalibratedSite(cp.metadata, e)
  PROVE  /\ Complete(Payload(model, cp))
         /\ PathsOwned(Payload(model, cp))
         /\ Stored(Payload(model, cp))
<1> DEFINE file1 == Payload(model, cp)
           bits == cp.metadata.activation_bits
<1>1. /\ file1.metadata = cp.metadata /\ file1.model_config = model
      /\ file1.sites = {SpecOf(model, e) : e \in cp.sites}
      /\ DOMAIN file1.state = DOMAIN model.slot
  BY DEF Payload
<1>2. \A e \in cp.sites :
        /\ SpecOf(model, e).module_name = e.module_name
        /\ SpecOf(model, e).aliases = TargetAliases(model, e.module_name)
        /\ SpecOf(model, e).rotation = e.rotation
  BY DEF SpecOf
<1>3. ASSUME NEW e \in cp.sites, NEW p \in TargetAliases(model, e.module_name)
      PROVE  /\ OwnBuffers(file1.state[p], e.module_name, bits)
             /\ file1.state[p].scales.by.metadata = cp.metadata
             /\ file1.state[p].scales.by.rotation = e.rotation
             /\ file1.state[p].kind = "packed"
  <2>1. file1.state[p] = Buffers(e, bits, At(model, e.module_name).bias)
    BY <1>3, ExportedBuffers
  <2>2. CalibratedSite(cp.metadata, e) /\ Packable(e.qweight)
    BY DEF Exportable
  <2> DEFINE buffers == Buffers(e, bits, At(model, e.module_name).bias)
  <2>3. /\ OwnBuffers(buffers, e.module_name, bits)
        /\ buffers.scales.by.metadata = cp.metadata
        /\ buffers.scales.by.rotation = e.rotation
    BY <2>2, CalibratedBuffers
  <2>4. buffers.kind = "packed"
    BY DEF Buffers
  <2>. QED
    BY <2>1, <2>3, <2>4
<1>4. Complete(file1)
  <2>1. ASSUME NEW t \in model.targets
        PROVE  \E c \in file1.sites :
                 /\ c.module_name = t.name
                 /\ \A d \in file1.sites : d.module_name = t.name => d = c
                 /\ c.aliases = TargetAliases(model, t.name)
                 /\ \A p \in TargetAliases(model, t.name) :
                      /\ OwnBuffers(file1.state[p], t.name, bits)
                      /\ file1.state[p].scales.by.metadata = cp.metadata
                      /\ file1.state[p].scales.by.rotation = c.rotation
    <3>1. PICK e \in cp.sites : e.module_name = t.name
      BY DEF Exportable, Covers, Names
    <3>2. SpecOf(model, e) \in file1.sites
      BY <1>1
    <3>3. ASSUME NEW d \in file1.sites, d.module_name = t.name PROVE d = SpecOf(model, e)
      <4>1. PICK f \in cp.sites : d = SpecOf(model, f)
        BY <1>1
      <4>2. f.module_name = e.module_name
        BY <1>2, <3>1, <3>3, <4>1
      <4>3. f = e
        BY <4>2 DEF Exportable, ValidCheckpoint
      <4>. QED
        BY <4>1, <4>3
    <3>4. \A p \in TargetAliases(model, t.name) :
            /\ OwnBuffers(file1.state[p], t.name, bits)
            /\ file1.state[p].scales.by.metadata = cp.metadata
            /\ file1.state[p].scales.by.rotation = e.rotation
      BY <1>3, <3>1
    <3>. QED
      BY <1>2, <3>1, <3>2, <3>3, <3>4
  <2>2. \A c, d \in file1.sites : c.rotation = d.rotation
    BY <1>1, <1>2 DEF Exportable, ValidCheckpoint
  <2>. QED
    BY <1>1, <2>1, <2>2 DEF Complete
<1>5. PathsOwned(file1)
  BY <1>1, <1>2, <1>3 DEF PathsOwned
<1>6. Stored(file1)
  <2>1. ASSUME NEW p \in DOMAIN model.slot PROVE file1.state[p].kind \in {"linear", "packed"}
    <3> DEFINE SiteAt == {f \in cp.sites : p \in TargetAliases(model, f.module_name)}
    <3>1. CASE SiteAt = {}
      <4>1. file1.state[p] = At(model, p)
        BY <3>1 DEF Payload
      <4>. QED
        BY <4>1 DEF LinearsOnly
    <3>2. CASE SiteAt # {}
      BY <1>3, <3>2
    <3>. QED
      BY <3>1, <3>2
  <2>. QED
    BY <1>1, <2>1 DEF Stored
<1>. QED
  BY <1>4, <1>5, <1>6

FileHolds ==
  file # None =>
    /\ checkpoint # None /\ ValidPayload(file)
    /\ Complete(file) /\ PathsOwned(file) /\ Stored(file)

-----------------------------------------------------------------------------
\* The models of policies.

IsQuantLinear(l) ==
  l = [kind |-> "quant", site |-> l.site, operation |-> l.operation, bits |-> l.bits,
       buffers |-> l.buffers, rotation |-> l.rotation, adaln |-> l.adaln,
       residual |-> l.residual]

\* What a policy's model has of the one it was built from.
WellMade(model, built) ==
  /\ model = [targets |-> built.targets, slot |-> built.slot, module |-> model.module]
  /\ DOMAIN model.module = DOMAIN built.module
  /\ \A s \in Quantized(model) : IsQuantLinear(model.module[s])

LEMMA ReplaceModules ==
  ASSUME NEW model, NEW new,
         model = [targets |-> model.targets, slot |-> model.slot, module |-> model.module]
  PROVE  [model EXCEPT !.module = new]
           = [targets |-> model.targets, slot |-> model.slot, module |-> new]
OBVIOUS

\* Setting the fusions changes nothing else.
LEMMA FusionsKeepWeights ==
  ASSUME NEW model, NEW built, WellMade(model, built), NEW enabled \in BOOLEAN
  PROVE  LET fused == SetFusions(model, enabled)
         IN /\ WellMade(fused, built) /\ Quantized(fused) = Quantized(model)
            /\ \A s \in Quantized(model) :
                 /\ fused.module[s].site = model.module[s].site
                 /\ fused.module[s].buffers = model.module[s].buffers
                 /\ fused.module[s].rotation = model.module[s].rotation
                 /\ ~enabled => ~fused.module[s].adaln /\ ~fused.module[s].residual
<1> DEFINE fused == SetFusions(model, enabled)
<1>1. /\ fused = [targets |-> built.targets, slot |-> built.slot, module |-> fused.module]
      /\ DOMAIN fused.module = DOMAIN built.module
      /\ \A s \in DOMAIN model.module : fused.module[s] =
           IF model.module[s].kind = "quant"
           THEN [model.module[s] EXCEPT
                   !.adaln = enabled /\ FusesAdaln(model.module[s].operation),
                   !.residual = enabled /\ FusesResidual(model.module[s].operation)]
           ELSE model.module[s]
  <2> DEFINE new == [s \in DOMAIN model.module |->
                LET m == model.module[s]
                IN IF m.kind = "quant"
                   THEN [m EXCEPT !.adaln = enabled /\ FusesAdaln(m.operation),
                                  !.residual = enabled /\ FusesResidual(m.operation)]
                   ELSE m]
  <2>1. fused = [model EXCEPT !.module = new]
    BY DEF SetFusions
  <2>2. /\ model.targets = built.targets /\ model.slot = built.slot
        /\ DOMAIN model.module = DOMAIN built.module
        /\ model = [targets |-> model.targets, slot |-> model.slot, module |-> model.module]
    <3>1. model = [targets |-> built.targets, slot |-> built.slot, module |-> model.module]
          /\ DOMAIN model.module = DOMAIN built.module
      BY DEF WellMade
    <3>2. model.targets = built.targets /\ model.slot = built.slot
      BY <3>1
    <3>. QED
      BY <3>1, <3>2
  <2> HIDE DEF fused, new
  <2>3. fused = [targets |-> model.targets, slot |-> model.slot, module |-> new]
    BY <2>1, <2>2, ReplaceModules
  <2>4. fused.module = new
    BY <2>3
  <2>. QED
    BY <2>2, <2>3, <2>4 DEF new
<1>2. ASSUME NEW s \in Quantized(model)
      PROVE  /\ fused.module[s].kind = "quant" /\ IsQuantLinear(fused.module[s])
             /\ fused.module[s].site = model.module[s].site
             /\ fused.module[s].buffers = model.module[s].buffers
             /\ fused.module[s].rotation = model.module[s].rotation
             /\ ~enabled => ~fused.module[s].adaln /\ ~fused.module[s].residual
  <2> DEFINE l == model.module[s]
             b == enabled /\ FusesAdaln(l.operation)
             d == enabled /\ FusesResidual(l.operation)
             f == [l EXCEPT !.adaln = b, !.residual = d]
  <2>1. fused.module[s] = f
    BY <1>1 DEF Quantized
  <2>2. IsQuantLinear(l)
    BY DEF WellMade
  <2>3. b \in BOOLEAN /\ d \in BOOLEAN /\ (~enabled => b = FALSE /\ d = FALSE)
    BY DEF FusesAdaln, FusesResidual
  <2> HIDE DEF l, b, d
  <2>4. /\ f.kind = "quant" /\ f.site = l.site /\ f.buffers = l.buffers
        /\ f.rotation = l.rotation /\ f.adaln = b /\ f.residual = d /\ IsQuantLinear(f)
    <3> DEFINE linear(x, y) ==
                 [kind |-> "quant", site |-> l.site, operation |-> l.operation,
                  bits |-> l.bits, buffers |-> l.buffers, rotation |-> l.rotation,
                  adaln |-> x, residual |-> y]
    <3>1. l = linear(l.adaln, l.residual)
      BY <2>2 DEF IsQuantLinear
    <3>2. [linear(l.adaln, l.residual) EXCEPT !.adaln = b] = linear(b, l.residual)
      OBVIOUS
    <3>3. [linear(b, l.residual) EXCEPT !.residual = d] = linear(b, d)
      OBVIOUS
    <3>4. f = [[l EXCEPT !.adaln = b] EXCEPT !.residual = d]
      OBVIOUS
    <3> HIDE DEF f, linear
    <3>5. f = linear(b, d)
      BY <3>1, <3>2, <3>3, <3>4
    <3>. QED
      BY <3>5 DEF linear, IsQuantLinear
  <2>. QED
    BY <2>1, <2>3, <2>4 DEF l
<1>3. Quantized(fused) = Quantized(model)
  BY <1>1, <1>2 DEF Quantized, WellMade
<1>4. WellMade(fused, built)
  BY <1>1, <1>2, <1>3 DEF WellMade
<1>. QED
  BY <1>2, <1>3, <1>4

\* What load_deployment makes of a built model.
LEMMA LoadedModel ==
  ASSUME NEW built \in Model, NEW payload, Loadable(payload, built),
         PathsOwned(payload), Stored(payload)
  PROVE  LET loaded == LoadDeployment(payload, built)
         IN /\ WellMade(loaded, built)
            /\ \A s \in Quantized(loaded) :
                 /\ OwnBuffers(loaded.module[s].buffers, loaded.module[s].site,
                               payload.metadata.activation_bits)
                 /\ loaded.module[s].buffers.bias = built.module[s].bias
                 /\ \E c \in payload.sites : loaded.module[s].rotation = c.rotation
            /\ \A t \in built.targets : \A a \in TargetAliases(built, t.name) :
                 At(loaded, a).kind = "quant" /\ At(loaded, a).site = t.name
<1> DEFINE loaded == LoadDeployment(payload, built)
           bits == payload.metadata.activation_bits
           SpecAt(s) == {c \in payload.sites : \E a \in c.aliases : built.slot[a] = s}
           path(s) == CHOOSE p \in DOMAIN built.slot : built.slot[p] = s
           Kept(s) == payload.state[path(s)]
           spec(s) == CHOOSE c \in SpecAt(s) : TRUE
<1>1. /\ built = [targets |-> built.targets, slot |-> built.slot, module |-> built.module]
      /\ DOMAIN built.module = {built.slot[p] : p \in DOMAIN built.slot}
      /\ \A s, r \in DOMAIN built.module :
           built.module[s].id = built.module[r].id => built.module[s] = built.module[r]
  BY DeploymentAssumption DEF IsModel
<1>2. /\ loaded = [targets |-> built.targets, slot |-> built.slot, module |-> loaded.module]
      /\ DOMAIN loaded.module = DOMAIN built.module
      /\ \A s \in DOMAIN built.module : loaded.module[s] =
           IF SpecAt(s) = {} THEN Kept(s) ELSE FromPacked(spec(s), Kept(s), bits)
  <2> DEFINE new == [s \in DOMAIN built.module |->
                IF SpecAt(s) = {} THEN Kept(s) ELSE FromPacked(spec(s), Kept(s), bits)]
  <2>1. loaded = [built EXCEPT !.module = new]
    BY DEF LoadDeployment
  <2> HIDE DEF loaded, new
  <2>2. loaded = [targets |-> built.targets, slot |-> built.slot, module |-> new]
    BY <1>1, <2>1, ReplaceModules
  <2>3. loaded.module = new
    BY <2>2
  <2>. QED
    BY <2>2, <2>3 DEF new
<1>3. \A s \in DOMAIN built.module :
        path(s) \in DOMAIN built.slot /\ built.slot[path(s)] = s
        /\ path(s) \in DOMAIN payload.state
  BY <1>1 DEF Loadable
<1>4. \A s \in DOMAIN built.module : Kept(s).kind # "quant"
  BY <1>3 DEF Stored
<1>5. \A s \in DOMAIN built.module : SpecAt(s) # {} =>
        spec(s) \in payload.sites /\ \E a \in spec(s).aliases : built.slot[a] = s
  OBVIOUS
\* Where a path of a target leads.
<1>6. ASSUME NEW c \in payload.sites, NEW a \in c.aliases
      PROVE  /\ a \in DOMAIN built.slot /\ built.slot[a] \in DOMAIN built.module
             /\ At(built, a).id = At(built, c.module_name).id
             /\ c.aliases = TargetAliases(built, c.module_name)
  <2>1. c.aliases = TargetAliases(built, c.module_name)
    BY DEF Loadable, SameAliases
  <2>. QED
    BY <1>1, <2>1 DEF TargetAliases
<1>7. ASSUME NEW s \in DOMAIN built.module, SpecAt(s) # {}
      PROVE  /\ OwnBuffers(Kept(s), spec(s).module_name, bits)
             /\ Kept(s).bias = built.module[s].bias
  <2> DEFINE c == spec(s)
  <2>1. c \in payload.sites
    BY <1>5, <1>7
  <2>2. PICK a \in c.aliases : built.slot[a] = s
    BY <1>5, <1>7
  <2>3. At(built, path(s)) = built.module[s] /\ At(built, a) = built.module[s]
    BY <1>3, <2>2 DEF At
  <2>4. path(s) \in c.aliases
    BY <1>3, <1>6, <2>1, <2>2, <2>3 DEF TargetAliases
  <2>5. OwnBuffers(Kept(s), c.module_name, bits)
    BY <2>1, <2>4 DEF PathsOwned
  <2>6. Kept(s).bias = c.bias
    <3>1. ValidPayload(payload)
      BY DEF Loadable
    <3>2. payload.state[path(s)] = payload.state[c.module_name]
          /\ payload.state[c.module_name].bias = c.bias
      BY <2>1, <2>4, <3>1 DEF ValidPayload
    <3>. QED
      BY <3>2
  <2>7. At(built, c.module_name).bias = c.bias
    BY <2>1 DEF Loadable
  <2>8. c.module_name \in c.aliases
    BY <2>1 DEF Loadable, ValidPayload
  <2>9. built.module[s] = At(built, c.module_name)
    <3> DEFINE r == built.slot[c.module_name]
    <3>1. At(built, a).id = At(built, c.module_name).id /\ r \in DOMAIN built.module
      BY <1>6, <2>1, <2>2, <2>8
    <3>2. At(built, c.module_name) = built.module[r]
      BY DEF At
    <3>3. built.module[s].id = built.module[r].id
      BY <2>3, <3>1, <3>2
    <3>. QED
      BY <1>1, <3>1, <3>2, <3>3
  <2>. QED
    BY <2>5, <2>6, <2>7, <2>9
<1>8. ASSUME NEW s \in Quantized(loaded)
      PROVE  /\ s \in DOMAIN built.module /\ SpecAt(s) # {}
             /\ loaded.module[s] = FromPacked(spec(s), Kept(s), bits)
  <2>1. s \in DOMAIN built.module /\ loaded.module[s].kind = "quant"
    BY <1>2 DEF Quantized
  <2>2. loaded.module[s] # Kept(s)
    BY <1>4, <2>1
  <2>. QED
    BY <1>2, <2>1, <2>2
<1>9. ASSUME NEW s \in DOMAIN built.module, SpecAt(s) # {}
      PROVE  LET l == FromPacked(spec(s), Kept(s), bits)
             IN /\ IsQuantLinear(l) /\ l.kind = "quant" /\ l.site = spec(s).module_name
                /\ l.buffers = Kept(s) /\ l.rotation = spec(s).rotation
  BY DEF FromPacked, IsQuantLinear
<1>10. WellMade(loaded, built)
  BY <1>2, <1>8, <1>9 DEF WellMade
<1>11. ASSUME NEW s \in Quantized(loaded)
       PROVE  /\ OwnBuffers(loaded.module[s].buffers, loaded.module[s].site, bits)
              /\ loaded.module[s].buffers.bias = built.module[s].bias
              /\ \E c \in payload.sites : loaded.module[s].rotation = c.rotation
  <2>1. s \in DOMAIN built.module /\ SpecAt(s) # {}
    BY <1>8
  <2>2. /\ loaded.module[s].site = spec(s).module_name
        /\ loaded.module[s].buffers = Kept(s) /\ loaded.module[s].rotation = spec(s).rotation
    <3> DEFINE l == FromPacked(spec(s), Kept(s), bits)
    <3>1. l.site = spec(s).module_name /\ l.buffers = Kept(s) /\ l.rotation = spec(s).rotation
      BY <1>9, <2>1
    <3>2. loaded.module[s] = l
      BY <1>8
    <3> HIDE DEF l
    <3>. QED
      BY <3>1, <3>2
  <2>3. spec(s) \in payload.sites
    BY <1>5, <2>1
  <2>4. /\ OwnBuffers(Kept(s), spec(s).module_name, bits)
        /\ Kept(s).bias = built.module[s].bias
    BY <1>7, <2>1
  <2>. QED
    BY <2>2, <2>3, <2>4
<1>12. ASSUME NEW t \in built.targets, NEW a \in TargetAliases(built, t.name)
       PROVE  At(loaded, a).kind = "quant" /\ At(loaded, a).site = t.name
  <2> DEFINE s == built.slot[a]
             d == spec(s)
  <2>1. PICK c \in payload.sites : c.module_name = t.name
    BY DEF Loadable, Names
  <2>2. a \in c.aliases
    BY <2>1 DEF Loadable, SameAliases
  <2>3. s \in DOMAIN built.module /\ SpecAt(s) # {}
    BY <1>6, <2>1, <2>2
  <2>4. d \in payload.sites /\ \E b \in d.aliases : built.slot[b] = s
    BY <1>5, <2>3
  <2>5. At(built, d.module_name).id = At(built, t.name).id
    BY <1>6, <2>1, <2>2, <2>4 DEF At
  <2>6. PICK u \in built.targets : u.name = d.module_name
    <3>1. d.module_name \in Names(built)
      BY <2>4 DEF Loadable
    <3>. QED
      BY <3>1 DEF Names
  <2>7. u = t
    BY <2>5, <2>6 DEF Loadable, SharedByTargets
  <2>8. At(loaded, a) = FromPacked(d, Kept(s), bits)
    <3>1. At(loaded, a) = loaded.module[s]
      BY <1>2 DEF At
    <3>. QED
      BY <1>2, <2>3, <3>1
  <2>9. LET l == FromPacked(d, Kept(s), bits)
        IN l.kind = "quant" /\ l.site = d.module_name
    BY <1>9, <2>3
  <2>. QED
    BY <2>6, <2>7, <2>8, <2>9
<1>. QED
  BY <1>10, <1>11, <1>12

\* What apply_checkpoint makes of the original one.
LEMMA AppliedModel ==
  ASSUME NEW model \in Model, NEW cp, NEW fuse \in BOOLEAN, Applicable(model, cp, fuse),
         \A e \in cp.sites : CalibratedSite(cp.metadata, e)
  PROVE  LET applied == ApplyCheckpoint(model, cp, fuse)
         IN /\ WellMade(applied, model)
            /\ \A s \in Quantized(applied) :
                 /\ OwnBuffers(applied.module[s].buffers, applied.module[s].site,
                               cp.metadata.activation_bits)
                 /\ applied.module[s].buffers.bias = model.module[s].bias
            /\ \A e \in cp.sites :
                 At(applied, e.module_name).kind = "quant"
                 /\ At(applied, e.module_name).site = e.module_name
<1> DEFINE applied == ApplyCheckpoint(model, cp, fuse)
           bits == cp.metadata.activation_bits
           SitesAt(s) == {e \in cp.sites : model.slot[e.module_name] = s}
           entry(s) == CHOOSE e \in SitesAt(s) : TRUE
<1>1. /\ model = [targets |-> model.targets, slot |-> model.slot, module |-> model.module]
      /\ DOMAIN model.module = {model.slot[p] : p \in DOMAIN model.slot}
      /\ \A s \in DOMAIN model.module : model.module[s].kind # "quant"
  <2>1. IsModel(model)
    BY DeploymentAssumption
  <2>2. ASSUME NEW s \in DOMAIN model.module PROVE model.module[s].kind # "quant"
    <3> DEFINE l == model.module[s]
    <3>1. l = [kind |-> "linear", id |-> l.id, n |-> l.n, k |-> l.k, bias |-> l.bias,
               rotated |-> FALSE]
      BY <2>1 DEF IsModel
    <3> HIDE DEF l
    <3>2. l.kind = "linear"
      BY <3>1
    <3>. QED
      BY <3>2 DEF l
  <2>. QED
    BY <2>1, <2>2 DEF IsModel
<1>2. /\ applied = [targets |-> model.targets, slot |-> model.slot, module |-> applied.module]
      /\ DOMAIN applied.module = DOMAIN model.module
      /\ \A s \in DOMAIN model.module : applied.module[s] =
           IF SitesAt(s) = {} THEN model.module[s]
           ELSE FromSite(model.module[s], entry(s), bits, fuse)
  BY <1>1 DEF ApplyCheckpoint
<1>3. \A s \in DOMAIN model.module : SitesAt(s) # {} => entry(s) \in SitesAt(s)
  OBVIOUS
<1>4. ASSUME NEW s \in DOMAIN model.module, SitesAt(s) # {}
      PROVE  LET l == FromSite(model.module[s], entry(s), bits, fuse)
             IN /\ IsQuantLinear(l) /\ l.kind = "quant" /\ l.site = entry(s).module_name
                /\ l.buffers = Buffers(entry(s), bits, model.module[s].bias)
  BY DEF FromSite, IsQuantLinear
<1>5. ASSUME NEW s \in Quantized(applied)
      PROVE  /\ s \in DOMAIN model.module /\ SitesAt(s) # {}
             /\ applied.module[s] = FromSite(model.module[s], entry(s), bits, fuse)
  BY <1>1, <1>2 DEF Quantized
<1>6. WellMade(applied, model)
  BY <1>2, <1>4, <1>5 DEF WellMade
<1>7. ASSUME NEW s \in Quantized(applied)
      PROVE  /\ OwnBuffers(applied.module[s].buffers, applied.module[s].site, bits)
             /\ applied.module[s].buffers.bias = model.module[s].bias
  <2> DEFINE e == entry(s)
             buffers == Buffers(e, bits, model.module[s].bias)
  <2>1. e \in cp.sites /\ applied.module[s].site = e.module_name
        /\ applied.module[s].buffers = buffers
    BY <1>3, <1>4, <1>5
  <2>2. CalibratedSite(cp.metadata, e) /\ Packable(e.qweight)
    BY <2>1 DEF Applicable
  <2>3. OwnBuffers(buffers, e.module_name, bits) /\ buffers.bias = model.module[s].bias
    BY <2>2, CalibratedBuffers
  <2>. QED
    BY <2>1, <2>3
<1>8. ASSUME NEW e \in cp.sites
      PROVE  At(applied, e.module_name).kind = "quant"
             /\ At(applied, e.module_name).site = e.module_name
  <2> DEFINE s == model.slot[e.module_name]
  <2>1. s \in DOMAIN model.module /\ e \in SitesAt(s)
    BY <1>1 DEF Applicable
  <2>2. entry(s) = e
    BY <1>3, <2>1 DEF Applicable
  <2>3. At(applied, e.module_name) = FromSite(model.module[s], entry(s), bits, fuse)
    <3>1. At(applied, e.module_name) = applied.module[s]
      BY <1>2 DEF At
    <3>. QED
      BY <1>2, <2>1, <3>1
  <2>4. LET l == FromSite(model.module[s], entry(s), bits, fuse)
        IN l.kind = "quant" /\ l.site = entry(s).module_name
    BY <1>4, <2>1
  <2>. QED
    BY <2>2, <2>3, <2>4
<1>. QED
  BY <1>6, <1>7, <1>8

-----------------------------------------------------------------------------
\* The invariant.

ModelHolds(model, built, bits, direct, cp) ==
  /\ WellMade(model, built)
  /\ \A s \in Quantized(model) :
       /\ OwnBuffers(model.module[s].buffers, model.module[s].site, bits)
       /\ model.module[s].buffers.bias = built.module[s].bias
  /\ direct => \A t \in built.targets : \A a \in TargetAliases(built, t.name) :
       At(model, a).kind = "quant" /\ At(model, a).site = t.name
  /\ ~direct => \A e \in cp.sites :
       /\ e.module_name \in DOMAIN built.slot
       /\ At(model, e.module_name).kind = "quant"
       /\ At(model, e.module_name).site = e.module_name

IsPolicy(p) ==
  p = [profile |-> p.profile, graph |-> p.graph, dispatch |-> p.dispatch, built |-> p.built,
       model |-> p.model, bits |-> p.bits, direct |-> p.direct, ran |-> p.ran]

PolicyHolds(p, calibrated, set) ==
  /\ IsPolicy(p) /\ p.built \in Model
  /\ ModelHolds(p.model, p.built, p.bits, p.direct, calibrated.checkpoint)
  /\ Honours(p) /\ (p.profile => set = "64")

\* Once a profile was asked for, no launch can have had another tile.
TileSettled == configured = "64" => tile = "64" /\ extension \in {None, "64"}

BuildingHolds ==
  building # None =>
    /\ file # None /\ Len(policies) < MaxPolicies
    /\ building.profile => configured = "64" /\ building.graph /\ ~building.fuse

PoliciesHold ==
  /\ \E S : policies \in Seq(S)
  /\ policies # <<>> => file # None
  /\ \A i \in DOMAIN policies : PolicyHolds(policies[i], checkpoint, configured)

IInv ==
  TypeOK /\ Calibrated /\ FileHolds /\ TileSettled /\ BuildingHolds /\ PoliciesHold

LEMMA FusionsKeepModel ==
  ASSUME NEW built \in Model, NEW model, NEW bits, NEW direct, NEW cp,
         ModelHolds(model, built, bits, direct, cp), NEW enabled \in BOOLEAN
  PROVE  ModelHolds(SetFusions(model, enabled), built, bits, direct, cp)
<1> DEFINE fused == SetFusions(model, enabled)
<1>1. WellMade(model, built)
  BY DEF ModelHolds
<1>2. /\ WellMade(fused, built) /\ Quantized(fused) = Quantized(model)
      /\ \A s \in Quantized(model) :
           /\ fused.module[s].site = model.module[s].site
           /\ fused.module[s].buffers = model.module[s].buffers
  BY <1>1, FusionsKeepWeights
<1>3. \A s \in Quantized(fused) :
        /\ OwnBuffers(fused.module[s].buffers, fused.module[s].site, bits)
        /\ fused.module[s].buffers.bias = built.module[s].bias
  BY <1>2 DEF ModelHolds
<1>4. ASSUME NEW a \in DOMAIN built.slot, At(model, a).kind = "quant"
      PROVE  At(fused, a).kind = "quant" /\ At(fused, a).site = At(model, a).site
  <2> DEFINE s == built.slot[a]
  <2>1. s \in DOMAIN built.module
    BY DeploymentAssumption DEF IsModel
  <2>2. model.slot = built.slot /\ fused.slot = built.slot
        /\ DOMAIN model.module = DOMAIN built.module
    BY <1>1, <1>2 DEF WellMade
  <2>3. At(model, a) = model.module[s] /\ At(fused, a) = fused.module[s]
    BY <2>2 DEF At
  <2>4. s \in Quantized(model) /\ s \in Quantized(fused)
    BY <1>2, <1>4, <2>1, <2>2, <2>3 DEF Quantized
  <2>. QED
    BY <1>2, <2>3, <2>4 DEF Quantized
<1>5. direct => \A t \in built.targets : \A a \in TargetAliases(built, t.name) :
        At(fused, a).kind = "quant" /\ At(fused, a).site = t.name
  BY <1>4 DEF ModelHolds, TargetAliases
<1>6. ~direct => \A e \in cp.sites :
        /\ e.module_name \in DOMAIN built.slot
        /\ At(fused, e.module_name).kind = "quant"
        /\ At(fused, e.module_name).site = e.module_name
  BY <1>4 DEF ModelHolds
<1>. QED
  BY <1>2, <1>3, <1>5, <1>6 DEF ModelHolds

LEMMA Appended ==
  ASSUME NEW s, \E S : s \in Seq(S), NEW x
  PROVE  /\ \E S : Append(s, x) \in Seq(S)
         /\ Len(s) \in Nat /\ Len(Append(s, x)) = Len(s) + 1
         /\ \A i \in DOMAIN Append(s, x) :
              (i \in DOMAIN s /\ Append(s, x)[i] = s[i]) \/ Append(s, x)[i] = x
<1>1. PICK S : s \in Seq(S)
  OBVIOUS
<1>2. s \in Seq(S \cup {x}) /\ x \in S \cup {x}
  BY <1>1
<1>3. Append(s, x) \in Seq(S \cup {x})
  BY <1>2
<1>. QED
  BY <1>2, <1>3

LEMMA Replaced ==
  ASSUME NEW s, \E S : s \in Seq(S), NEW i \in DOMAIN s, NEW x
  PROVE  LET r == [s EXCEPT ![i] = x]
         IN /\ \E S : r \in Seq(S)
            /\ Len(r) = Len(s) /\ DOMAIN r = DOMAIN s
            /\ \A j \in DOMAIN s : r[j] = IF j = i THEN x ELSE s[j]
<1>1. PICK S : s \in Seq(S)
  OBVIOUS
<1>2. s \in Seq(S \cup {x}) /\ x \in S \cup {x}
  BY <1>1
<1>3. [s EXCEPT ![i] = x] \in Seq(S \cup {x})
  BY <1>2
<1>. QED
  BY <1>2, <1>3

\* A policy that joins.
LEMMA PolicyJoins ==
  ASSUME PoliciesHold, NEW p, PolicyHolds(p, checkpoint, configured), file # None,
         policies' = Append(policies, p), UNCHANGED <<checkpoint, file, configured>>
  PROVE  PoliciesHold'
<1>1. \E S : policies' \in Seq(S)
  BY Appended DEF PoliciesHold
<1>2. ASSUME NEW i \in DOMAIN policies'
      PROVE  PolicyHolds(policies'[i], checkpoint, configured)
  BY Appended DEF PoliciesHold
<1>. QED
  BY <1>1, <1>2 DEF PoliciesHold

\* A policy that is changed.
LEMMA PolicyChanges ==
  ASSUME PoliciesHold, NEW i \in DOMAIN policies, NEW p,
         PolicyHolds(p, checkpoint, configured), file # None,
         policies' = [policies EXCEPT ![i] = p], UNCHANGED <<checkpoint, file, configured>>
  PROVE  PoliciesHold' /\ Len(policies') = Len(policies)
<1>1. /\ \E S : policies' \in Seq(S)
      /\ Len(policies') = Len(policies) /\ DOMAIN policies' = DOMAIN policies
      /\ \A j \in DOMAIN policies : policies'[j] = IF j = i THEN p ELSE policies[j]
  BY Replaced DEF PoliciesHold
<1>2. ASSUME NEW j \in DOMAIN policies'
      PROVE  PolicyHolds(policies'[j], checkpoint, configured)
  BY <1>1 DEF PoliciesHold
<1>. QED
  BY <1>1, <1>2 DEF PoliciesHold

-----------------------------------------------------------------------------
\* Every step preserves it.

LEMMA InitHolds == Init => IInv
<1> SUFFICES ASSUME Init PROVE IInv
  OBVIOUS
<1>1. policies = <<>> /\ DOMAIN policies = {} /\ policies \in Seq({}) /\ Len(policies) = 0
  BY DEF Init
<1>2. PoliciesHold
  BY <1>1 DEF PoliciesHold
<1>3. Len(policies) <= MaxPolicies
  BY <1>1, DeploymentAssumption
<1>4. TileSettled
  BY DeploymentAssumption DEF Init, TileSettled
<1>5. TypeOK
  BY <1>3 DEF Init, TypeOK, Tile
<1>6. Calibrated /\ FileHolds /\ BuildingHolds
  BY DEF Init, Calibrated, FileHolds, BuildingHolds
<1>. QED
  BY <1>2, <1>4, <1>5, <1>6 DEF IInv

LEMMA NoPolicies ==
  ASSUME IInv, file = None
  PROVE  policies = <<>> /\ DOMAIN policies = {} /\ building = None
BY DEF IInv, BuildingHolds, PoliciesHold

LEMMA MergeStep ==
  ASSUME IInv, NEW m \in Model, NEW n \in 1 .. MaxInputs,
         NEW inputs \in [1 .. n -> ShardFiles(m)], MergeArtifacts(inputs)
  PROVE  IInv'
<1>1. file = None /\ UNCHANGED <<file, tile, small, configured, extension, building, policies>>
  BY DEF MergeArtifacts, process
<1>2. policies = <<>> /\ DOMAIN policies = {} /\ building = None
  BY <1>1, NoPolicies
<1>3. Calibrated'
  BY MergeCalibrated
<1>4. TypeOK'
  BY <1>1, <1>3 DEF IInv, TypeOK, Calibrated
<1>5. PoliciesHold'
  BY <1>1, <1>2 DEF IInv, PoliciesHold
<1>. QED
  BY <1>1, <1>2, <1>3, <1>4, <1>5 DEF IInv, FileHolds, TileSettled, BuildingHolds

LEMMA ExportStep ==
  ASSUME IInv, NEW model, LinearsOnly(model), Export(model)
  PROVE  IInv'
<1> DEFINE cp == checkpoint.checkpoint
<1>1. /\ file = None /\ checkpoint # None /\ Exportable(model, cp)
      /\ ValidPayload(Payload(model, cp)) /\ file' = Payload(model, cp)
      /\ UNCHANGED <<checkpoint, tile, small, configured, extension, building, policies>>
  BY DEF Export, process
<1>2. policies = <<>> /\ DOMAIN policies = {} /\ building = None
  BY <1>1, NoPolicies
<1>3. FileHolds'
  <2>1. \A e \in cp.sites : CalibratedSite(cp.metadata, e)
    BY <1>1 DEF IInv, Calibrated
  <2>2. Complete(file') /\ PathsOwned(file') /\ Stored(file')
    BY <1>1, <2>1, ExportComplete
  <2>. QED
    BY <1>1, <2>2 DEF FileHolds
<1>4. TypeOK'
  BY <1>1 DEF IInv, TypeOK
<1>5. PoliciesHold'
  BY <1>1, <1>2 DEF IInv, PoliciesHold
<1>6. Calibrated' /\ TileSettled'
  BY <1>1 DEF IInv, Calibrated, TileSettled
<1>. QED
  BY <1>1, <1>2, <1>3, <1>4, <1>5, <1>6 DEF IInv, BuildingHolds

LEMMA StartStep ==
  ASSUME IInv, StartServer
  PROVE  IInv'
<1>1. policies' = <<>> /\ DOMAIN policies' = {} /\ policies' \in Seq({}) /\ Len(policies') = 0
  BY DEF StartServer
<1>2. PoliciesHold'
  BY <1>1 DEF PoliciesHold
<1>. QED
  BY <1>1, <1>2, DeploymentAssumption
     DEF StartServer, IInv, TypeOK, Tile, Calibrated, FileHolds, TileSettled, BuildingHolds

LEMMA ResolveStep ==
  ASSUME IInv, NEW profile \in BOOLEAN, NEW graph \in BOOLEAN, NEW fuse \in BOOLEAN,
         ResolveProfile(profile, graph, fuse)
  PROVE  IInv'
<1>1. /\ file # None /\ Len(policies) < MaxPolicies
      /\ building' = [profile |-> profile, graph |-> graph, fuse |-> fuse]
      /\ UNCHANGED <<checkpoint, file, small, extension, policies>>
  BY DEF ResolveProfile
<1>2. CASE profile /\ graph /\ ~fuse /\ Configurable /\ tile' = "64" /\ configured' = "64"
  <2>1. extension \in {None, "64"}
    BY <1>2 DEF Configurable, IInv, TileSettled
  <2>2. TypeOK' /\ TileSettled' /\ BuildingHolds'
    BY <1>1, <1>2, <2>1 DEF IInv, TypeOK, Tile, TileSettled, BuildingHolds
  <2>3. PoliciesHold'
    BY <1>1, <1>2 DEF IInv, PoliciesHold, PolicyHolds
  <2>. QED
    BY <1>1, <2>2, <2>3 DEF IInv, Calibrated, FileHolds
<1>3. CASE ~profile /\ UNCHANGED <<tile, configured>>
  <2>2. TypeOK' /\ TileSettled' /\ BuildingHolds'
    BY <1>1, <1>3 DEF IInv, TypeOK, TileSettled, BuildingHolds
  <2>3. PoliciesHold'
    BY <1>1, <1>3 DEF IInv, PoliciesHold
  <2>. QED
    BY <1>1, <2>2, <2>3 DEF IInv, Calibrated, FileHolds
<1>. QED
  BY <1>2, <1>3 DEF ResolveProfile

LEMMA BuildStep ==
  ASSUME IInv, NEW built \in Model, NEW custom \in BOOLEAN, BuildPolicy(built, custom)
  PROVE  IInv'
<1> DEFINE loaded == LoadDeployment(file, built)
           finished == IF building.profile THEN SetFusions(loaded, FALSE)
                       ELSE IF custom THEN SetFusions(loaded, TRUE) ELSE loaded
           fused == SetFusions(finished, TRUE)
           model == IF building.fuse THEN fused ELSE finished
           bits == file.metadata.activation_bits
           p == [profile |-> building.profile, graph |-> building.graph,
                 dispatch |-> building.fuse, built |-> built, model |-> model,
                 bits |-> bits, direct |-> TRUE, ran |-> None]
<1>1. /\ building # None /\ Loadable(file, built)
      /\ building.profile => ValidProfileMetadata(file)
      /\ policies' = Append(policies, p) /\ building' = None
      /\ UNCHANGED <<checkpoint, file, tile, small, configured, extension>>
  BY DEF BuildPolicy
<1>2. /\ file # None /\ building \in [profile : BOOLEAN, graph : BOOLEAN, fuse : BOOLEAN]
      /\ building.profile => configured = "64" /\ building.graph /\ ~building.fuse
      /\ PathsOwned(file) /\ Stored(file)
  BY <1>1 DEF IInv, TypeOK, BuildingHolds, FileHolds
<1>3. /\ WellMade(loaded, built)
      /\ \A s \in Quantized(loaded) :
           /\ OwnBuffers(loaded.module[s].buffers, loaded.module[s].site, bits)
           /\ loaded.module[s].buffers.bias = built.module[s].bias
           /\ \E c \in file.sites : loaded.module[s].rotation = c.rotation
      /\ \A t \in built.targets : \A a \in TargetAliases(built, t.name) :
           At(loaded, a).kind = "quant" /\ At(loaded, a).site = t.name
  BY <1>1, <1>2, LoadedModel
<1> HIDE DEF loaded
<1>4. ModelHolds(loaded, built, bits, TRUE, checkpoint.checkpoint)
  BY <1>3 DEF ModelHolds
<1>5. ModelHolds(finished, built, bits, TRUE, checkpoint.checkpoint)
  BY <1>4, FusionsKeepModel
<1>6. ModelHolds(model, built, bits, TRUE, checkpoint.checkpoint)
  BY <1>5, FusionsKeepModel
<1>7. ASSUME building.profile
      PROVE  /\ building.graph /\ FusedSites(model) = {} /\ bits = 8
             /\ \A s \in Quantized(model) : model.module[s].rotation = "none"
  <2>1. model = SetFusions(loaded, FALSE)
    BY <1>2, <1>7
  <2>2. bits = 8 /\ \A c \in file.sites : c.rotation = "none"
    BY <1>1, <1>7 DEF ValidProfileMetadata
  <2>3. /\ Quantized(model) = Quantized(loaded)
        /\ \A s \in Quantized(loaded) :
             /\ model.module[s].rotation = loaded.module[s].rotation
             /\ ~model.module[s].adaln /\ ~model.module[s].residual
    <3> DEFINE cleared == SetFusions(loaded, FALSE)
    <3>1. /\ Quantized(cleared) = Quantized(loaded)
          /\ \A s \in Quantized(loaded) :
               /\ cleared.module[s].rotation = loaded.module[s].rotation
               /\ ~FALSE => ~cleared.module[s].adaln /\ ~cleared.module[s].residual
      BY <1>3, FusionsKeepWeights
    <3> HIDE DEF cleared, model
    <3>. QED
      BY <2>1, <3>1 DEF cleared
  <2>4. \A s \in Quantized(model) : model.module[s].rotation = "none"
    BY <1>3, <2>2, <2>3
  <2>5. FusedSites(model) = {}
    BY <2>3 DEF FusedSites
  <2>. QED
    BY <1>2, <1>7, <2>2, <2>4, <2>5
<1> HIDE DEF finished, fused, model, bits
<1>8. /\ p.profile = building.profile /\ p.graph = building.graph /\ p.built = built
      /\ p.model = model /\ p.bits = bits /\ p.direct = TRUE /\ p.ran = None /\ IsPolicy(p)
  BY DEF IsPolicy
<1> HIDE DEF p
<1>9. Honours(p)
  BY <1>7, <1>8 DEF Honours
<1>10. PolicyHolds(p, checkpoint, configured)
  BY <1>2, <1>6, <1>8, <1>9 DEF PolicyHolds
<1>11. PoliciesHold'
  BY <1>1, <1>2, <1>10, PolicyJoins DEF IInv
<1>12. Len(policies') <= MaxPolicies
  <2>1. Len(policies) \in Nat /\ Len(policies') = Len(policies) + 1
    BY <1>1, Appended DEF IInv, PoliciesHold
  <2>2. Len(policies) < MaxPolicies
    BY <1>1 DEF IInv, BuildingHolds
  <2>. QED
    BY <2>1, <2>2, DeploymentAssumption
<1>13. TypeOK'
  BY <1>1, <1>12 DEF IInv, TypeOK
<1>. QED
  BY <1>1, <1>11, <1>13 DEF IInv, Calibrated, FileHolds, TileSettled, BuildingHolds

LEMMA ReplaceStep ==
  ASSUME IInv, NEW model \in Model, NEW graph \in BOOLEAN, NEW fuse \in BOOLEAN,
         ReplaceStage(model, graph, fuse)
  PROVE  IInv'
<1> DEFINE cp == checkpoint.checkpoint
           applied == ApplyCheckpoint(model, cp, fuse)
           bits == cp.metadata.activation_bits
           p == [profile |-> FALSE, graph |-> graph, dispatch |-> FALSE, built |-> model,
                 model |-> applied, bits |-> bits, direct |-> FALSE, ran |-> None]
<1>1. /\ file # None /\ building = None /\ Len(policies) < MaxPolicies
      /\ Applicable(model, cp, fuse) /\ policies' = Append(policies, p)
      /\ UNCHANGED <<checkpoint, file, tile, small, configured, extension, building>>
  BY DEF ReplaceStage
<1>2. \A e \in cp.sites : CalibratedSite(cp.metadata, e)
  BY <1>1 DEF IInv, FileHolds, Calibrated
<1>3. /\ WellMade(applied, model)
      /\ \A s \in Quantized(applied) :
           /\ OwnBuffers(applied.module[s].buffers, applied.module[s].site, bits)
           /\ applied.module[s].buffers.bias = model.module[s].bias
      /\ \A e \in cp.sites :
           At(applied, e.module_name).kind = "quant"
           /\ At(applied, e.module_name).site = e.module_name
  BY <1>1, <1>2, AppliedModel
<1>4. \A e \in cp.sites : e.module_name \in DOMAIN model.slot
  BY <1>1 DEF Applicable
<1>5. ModelHolds(applied, model, bits, FALSE, cp)
  BY <1>3, <1>4 DEF ModelHolds
<1> HIDE DEF applied, bits
<1>6. /\ p.profile = FALSE /\ p.built = model /\ p.model = applied /\ p.bits = bits
      /\ p.direct = FALSE /\ IsPolicy(p)
  BY DEF IsPolicy
<1> HIDE DEF p
<1>7. PolicyHolds(p, checkpoint, configured)
  BY <1>5, <1>6 DEF PolicyHolds, Honours
<1>8. PoliciesHold'
  BY <1>1, <1>7, PolicyJoins DEF IInv
<1>9. Len(policies') <= MaxPolicies
  <2>1. Len(policies) \in Nat /\ Len(policies') = Len(policies) + 1
    BY <1>1, Appended DEF IInv, PoliciesHold
  <2>. QED
    BY <1>1, <2>1, DeploymentAssumption
<1>10. TypeOK'
  BY <1>1, <1>9 DEF IInv, TypeOK
<1>. QED
  BY <1>1, <1>8, <1>10 DEF IInv, Calibrated, FileHolds, TileSettled, BuildingHolds

\* Changing one field of a policy.
LEMMA NewModel ==
  ASSUME NEW p, IsPolicy(p), NEW new
  PROVE  LET q == [p EXCEPT !.model = new]
         IN /\ IsPolicy(q) /\ q.profile = p.profile /\ q.built = p.built
            /\ q.bits = p.bits /\ q.direct = p.direct /\ q.model = new
<1> DEFINE q == [p EXCEPT !.model = new]
           other == [profile |-> p.profile, graph |-> p.graph, dispatch |-> p.dispatch,
                     built |-> p.built, model |-> new, bits |-> p.bits,
                     direct |-> p.direct, ran |-> p.ran]
<1>1. q = other
  BY DEF IsPolicy
<1> HIDE DEF q
<1>2. /\ q.profile = p.profile /\ q.graph = p.graph /\ q.dispatch = p.dispatch
      /\ q.built = p.built /\ q.model = new /\ q.bits = p.bits /\ q.direct = p.direct
      /\ q.ran = p.ran
  BY <1>1
<1>3. IsPolicy(q)
  BY <1>1, <1>2 DEF IsPolicy
<1>. QED
  BY <1>2, <1>3 DEF q

LEMMA NewRan ==
  ASSUME NEW p, IsPolicy(p), NEW new
  PROVE  LET q == [p EXCEPT !.ran = new]
         IN /\ IsPolicy(q) /\ q.profile = p.profile /\ q.graph = p.graph
            /\ q.built = p.built /\ q.model = p.model /\ q.bits = p.bits
            /\ q.direct = p.direct /\ q.ran = new
<1> DEFINE q == [p EXCEPT !.ran = new]
           other == [profile |-> p.profile, graph |-> p.graph, dispatch |-> p.dispatch,
                     built |-> p.built, model |-> p.model, bits |-> p.bits,
                     direct |-> p.direct, ran |-> new]
<1>1. q = other
  BY DEF IsPolicy
<1> HIDE DEF q
<1>2. /\ q.profile = p.profile /\ q.graph = p.graph /\ q.dispatch = p.dispatch
      /\ q.built = p.built /\ q.model = p.model /\ q.bits = p.bits /\ q.direct = p.direct
      /\ q.ran = new
  BY <1>1
<1>3. IsPolicy(q)
  BY <1>1, <1>2 DEF IsPolicy
<1>. QED
  BY <1>2, <1>3 DEF q

LEMMA ChangeStep ==
  ASSUME IInv, NEW i \in DOMAIN policies, NEW enabled \in BOOLEAN, ChangeFusions(i, enabled)
  PROVE  IInv'
<1> DEFINE p == policies[i]
           fused == SetFusions(p.model, enabled)
           q == [p EXCEPT !.model = fused]
<1>1. /\ ~p.graph /\ policies' = [policies EXCEPT ![i] = q]
      /\ UNCHANGED <<checkpoint, file, tile, small, configured, extension, building>>
  BY DEF ChangeFusions
<1>2. PolicyHolds(p, checkpoint, configured) /\ PoliciesHold /\ file # None
  BY DEF IInv, PoliciesHold
<1>3. ~p.profile
  BY <1>1, <1>2 DEF PolicyHolds, Honours
<1>4. ModelHolds(fused, p.built, p.bits, p.direct, checkpoint.checkpoint)
  BY <1>2, FusionsKeepModel DEF PolicyHolds
<1> HIDE DEF fused, p
<1>5. /\ IsPolicy(q) /\ q.profile = p.profile /\ q.built = p.built
      /\ q.bits = p.bits /\ q.direct = p.direct /\ q.model = fused
  BY <1>2, NewModel DEF PolicyHolds
<1> HIDE DEF q
<1>6. PolicyHolds(q, checkpoint, configured)
  BY <1>2, <1>3, <1>4, <1>5 DEF PolicyHolds, Honours
<1>7. PoliciesHold' /\ Len(policies') = Len(policies)
  BY <1>1, <1>2, <1>6, PolicyChanges
<1>8. TypeOK'
  BY <1>1, <1>7 DEF IInv, TypeOK
<1>. QED
  BY <1>1, <1>7, <1>8 DEF IInv, Calibrated, FileHolds, TileSettled, BuildingHolds

LEMMA InferStep ==
  ASSUME IInv, NEW i \in DOMAIN policies, Infer(i)
  PROVE  IInv'
<1> DEFINE p == policies[i]
           ran == IF p.bits = 8 THEN extension' ELSE p.ran
           q == [p EXCEPT !.ran = ran]
<1>1. /\ extension' = IF p.bits # 8 \/ extension # None THEN extension
                      ELSE IF tile = None THEN "auto" ELSE tile
      /\ policies' = [policies EXCEPT ![i] = q]
      /\ UNCHANGED <<checkpoint, file, tile, small, configured, building>>
  BY DEF Infer
<1>2. PolicyHolds(p, checkpoint, configured) /\ PoliciesHold /\ file # None
  BY DEF IInv, PoliciesHold
<1>3. TileSettled'
  BY <1>1, DeploymentAssumption DEF IInv, TileSettled
<1>4. p.profile => ran \in {None, "64"}
  BY <1>1, <1>2, <1>3 DEF PolicyHolds, Honours, TileSettled
<1>5. extension' \in Tile \cup {"auto"}
  BY <1>1 DEF IInv, TypeOK, Tile
<1> HIDE DEF p, ran
<1>6. /\ IsPolicy(q) /\ q.profile = p.profile /\ q.graph = p.graph
      /\ q.built = p.built /\ q.model = p.model /\ q.bits = p.bits
      /\ q.direct = p.direct /\ q.ran = ran
  BY <1>2, NewRan DEF PolicyHolds
<1> HIDE DEF q
<1>7. PolicyHolds(q, checkpoint, configured)
  BY <1>2, <1>4, <1>6 DEF PolicyHolds, Honours
<1>8. PoliciesHold' /\ Len(policies') = Len(policies)
  BY <1>1, <1>2, <1>7, PolicyChanges
<1>9. TypeOK'
  BY <1>1, <1>5, <1>8 DEF IInv, TypeOK
<1>. QED
  BY <1>1, <1>3, <1>8, <1>9 DEF IInv, Calibrated, FileHolds, BuildingHolds

LEMMA NextHolds ==
  ASSUME IInv, [Next]_vars
  PROVE  IInv'
<1>1. ASSUME NEW m \in Model, NEW n \in 1 .. MaxInputs,
             NEW inputs \in [1 .. n -> ShardFiles(m)], MergeArtifacts(inputs)
      PROVE  IInv'
  BY <1>1, MergeStep
<1>2. ASSUME NEW m \in Model, Export(m) \/ Export(Rotated(m))
      PROVE  IInv'
  BY <1>2, ModelsAreLinear, ExportStep
<1>3. ASSUME NEW profile \in BOOLEAN, NEW graph \in BOOLEAN, NEW fuse \in BOOLEAN,
             ResolveProfile(profile, graph, fuse)
      PROVE  IInv'
  BY <1>3, ResolveStep
<1>4. ASSUME NEW built \in Model, NEW custom \in BOOLEAN, BuildPolicy(built, custom)
      PROVE  IInv'
  BY <1>4, BuildStep
<1>5. CASE BuildFails
  BY <1>5 DEF BuildFails, IInv, TypeOK, Calibrated, FileHolds, TileSettled,
              BuildingHolds, PoliciesHold
<1>6. ASSUME NEW m \in Model, NEW graph \in BOOLEAN, NEW fuse \in BOOLEAN,
             ReplaceStage(m, graph, fuse)
      PROVE  IInv'
  BY <1>6, ReplaceStep
<1>7. ASSUME NEW i \in DOMAIN policies, NEW enabled \in BOOLEAN, ChangeFusions(i, enabled)
      PROVE  IInv'
  BY <1>7, ChangeStep
<1>8. ASSUME NEW i \in DOMAIN policies, Infer(i)
      PROVE  IInv'
  BY <1>8, InferStep
<1>9. CASE UNCHANGED vars
  BY <1>9 DEF vars, process, IInv, TypeOK, Calibrated, FileHolds, TileSettled,
              BuildingHolds, PoliciesHold
<1>10. CASE StartServer
  BY <1>10, StartStep
<1>. QED
  BY <1>1, <1>2, <1>3, <1>4, <1>5, <1>6, <1>7, <1>8, <1>9, <1>10 DEF Next

LEMMA Invariance == Spec => []IInv
<1>1. Init => IInv
  BY InitHolds
<1>2. IInv /\ [Next]_vars => IInv'
  BY NextHolds
<1>. QED
  BY <1>1, <1>2, PTL DEF Spec

-----------------------------------------------------------------------------
\* Every variable has its type: what is kept as a calibration loads, and what
\* is kept as a deployment is valid (from_state_dict, _validate_payload).
THEOREM Typing == Spec => []TypeOK
<1>1. IInv => TypeOK
  BY DEF IInv
<1>. QED
  BY <1>1, Invariance, PTL

\* A deployment has every target of its model once, with the weights that were
\* calibrated for it under each of its paths, all calibrated with one setting
\* (QuantizationCheckpoint.merge, export_deployment).
THEOREM Completeness == Spec => []DeploymentComplete
<1>1. IInv => DeploymentComplete
  BY DEF IInv, FileHolds, DeploymentComplete
<1>. QED
  BY <1>1, Invariance, PTL

\* In every policy each path of a target leads to its own quantized weights
\* (load_deployment, apply_checkpoint).
THEOREM OwnWeightsEverywhere == Spec => []UsesOwnWeights
<1>1. IInv => UsesOwnWeights
  BY DEF IInv, PoliciesHold, PolicyHolds, ModelHolds, UsesOwnWeights, OwnWeights
<1>. QED
  BY <1>1, Invariance, PTL

\* A policy of the profile runs as the profile says (configure_tile64,
\* QuantizedPolicy, set_wam_block_fusions).
THEOREM Profiles == Spec => []ProfileHonoured
<1>1. IInv => ProfileHonoured
  BY DEF IInv, PoliciesHold, PolicyHolds, ProfileHonoured
<1>. QED
  BY <1>1, Invariance, PTL
-----------------------------------------------------------------------------
\* Sharding.  What the ranks are assigned, by induction over the sites.

\* A set of numbers that is not empty has a least one.
LEMMA LeastNumber ==
  ASSUME NEW T \in SUBSET Nat, T # {}
  PROVE  \E x \in T : \A y \in T : x <= y
<1>1. PICK x \in T : \A y \in T : ~(<<y, x>> \in OpToRel(<, Nat))
  <2>1. IsWellFoundedOn(OpToRel(<, Nat), Nat)
    BY NatLessThanWellFounded
  <2>. QED
    BY <2>1, WFMin
<1>2. ASSUME NEW y \in T PROVE x <= y
  <2>1. SUFFICES ASSUME y < x PROVE FALSE
    OBVIOUS
  <2>2. <<y, x>> \in OpToRel(<, Nat)
    BY <2>1 DEF OpToRel
  <2>. QED
    BY <1>1, <2>2
<1>. QED
  BY <1>2

\* Induction over data, as a fact about sets.
LEMMA NatSetInduction ==
  ASSUME NEW S, 0 \in S, \A n \in Nat : n \in S => n + 1 \in S
  PROVE  Nat \subseteq S
<1> DEFINE T == Nat \ S
<1>1. SUFFICES ASSUME T # {} PROVE FALSE
  OBVIOUS
<1>2. PICK x \in T : \A y \in T : x <= y
  <2>1. T \in SUBSET Nat
    OBVIOUS
  <2> HIDE DEF T
  <2>. QED
    BY <1>1, <2>1, LeastNumber
<1>3. x \in Nat /\ x # 0 /\ x - 1 \in Nat
  OBVIOUS
<1>4. x - 1 \in T
  BY <1>3
<1>. QED
  BY <1>2, <1>3, <1>4

\* The rank with least load is one of the ranks, and none has less.
LEMMA LeastFacts ==
  ASSUME NEW world \in Nat \ {0}, NEW loads \in [0 .. world - 1 -> Nat]
  PROVE  /\ Least(loads) \in 0 .. world - 1
         /\ \A q \in 0 .. world - 1 : loads[Least(loads)] <= loads[q]
<1> DEFINE R == 0 .. world - 1
           V == {loads[r] : r \in R}
<1>1. PICK v \in V : \A w \in V : v <= w
  <2>1. V \in SUBSET Nat /\ loads[0] \in V
    OBVIOUS
  <2> HIDE DEF V
  <2>. QED
    BY <2>1, LeastNumber
<1> DEFINE T == {r \in R : loads[r] = v}
<1>2. PICK r \in T : \A q \in T : r <= q
  <2>1. T \in SUBSET Nat
    OBVIOUS
  <2>2. PICK r \in R : v = loads[r]
    BY <1>1
  <2>3. T # {}
    BY <2>2
  <2> HIDE DEF T
  <2>. QED
    BY <2>1, <2>3, LeastNumber
<1>3. \A q \in R : loads[r] < loads[q] \/ (loads[r] = loads[q] /\ r <= q)
  <2>1. SUFFICES ASSUME NEW q \in R
                 PROVE  loads[r] < loads[q] \/ (loads[r] = loads[q] /\ r <= q)
    OBVIOUS
  <2>2. loads[r] = v /\ v <= loads[q] /\ loads[r] \in Nat /\ loads[q] \in Nat
    BY <1>1, <1>2
  <2>3. CASE loads[q] = v
    BY <1>2, <2>2, <2>3
  <2>4. CASE loads[q] # v
    BY <2>2, <2>4
  <2>. QED
    BY <2>3, <2>4
<1>4. DOMAIN loads = R /\ r \in R
  OBVIOUS
<1>5. Least(loads) \in R
      /\ \A q \in R : loads[Least(loads)] < loads[q]
                      \/ (loads[Least(loads)] = loads[q] /\ Least(loads) <= q)
  BY <1>3, <1>4 DEF Least
<1>6. \A q \in R : loads[q] \in Nat
  OBVIOUS
<1>. QED
  BY <1>5, <1>6

\* What the builders' models are, as far as sharding goes.
LEMMA TargetFacts ==
  ASSUME NEW m \in Model
  PROVE  /\ IsFiniteSet(m.targets) /\ Cardinality(m.targets) \in Nat
         /\ \A t \in m.targets : t.site_index \in Nat /\ Size(m, t) \in Nat
         /\ \A t, u \in m.targets : t.site_index = u.site_index \/ t.name = u.name => t = u
<1>1. IsModel(m)
  BY DeploymentAssumption
<1>2. ASSUME NEW t \in m.targets PROVE t.site_index \in Nat /\ Size(m, t) \in Nat
  <2>1. t.site_index \in Nat /\ m.slot[t.name] \in DOMAIN m.module
    BY <1>1 DEF IsModel
  <2>2. At(m, t.name).n \in Nat /\ At(m, t.name).k \in Nat
    BY <1>1, <2>1 DEF IsModel, At
  <2>. QED
    BY <2>1, <2>2 DEF Size
<1>3. IsFiniteSet(m.targets)
  BY <1>1 DEF IsModel
<1>. QED
  BY <1>1, <1>2, <1>3, FS_CardinalityType DEF IsModel

\* Every target has a turn of its own, and every turn is some target's.
LEMMA TurnFacts ==
  ASSUME NEW m \in Model
  PROVE  /\ \A t \in m.targets : Turn(m, t) \in 1 .. Cardinality(m.targets)
         /\ \A t, u \in m.targets : Turn(m, t) = Turn(m, u) => t = u
         /\ \A n \in 1 .. Cardinality(m.targets) : \E t \in m.targets : Turn(m, t) = n
<1> DEFINE T == m.targets
           N == Cardinality(T)
           First(t) == {u \in T : Sooner(m, u, t)}
           r == [t \in T |-> Turn(m, t)]
<1>1. /\ IsFiniteSet(T) /\ N \in Nat
      /\ \A t \in T : t.site_index \in Nat /\ Size(m, t) \in Nat
      /\ \A t, u \in T : t.site_index = u.site_index => t = u
  BY TargetFacts
<1>2. \A t \in T : /\ IsFiniteSet(First(t)) /\ Cardinality(First(t)) \in Nat
                   /\ Turn(m, t) = Cardinality(First(t)) + 1
  BY <1>1, FS_Subset, FS_CardinalityType DEF Turn
<1>3. \A S, y : IsFiniteSet(S) /\ y \in S =>
        /\ IsFiniteSet(S \ {y}) /\ Cardinality(S \ {y}) \in Nat
        /\ Cardinality(S) = Cardinality(S \ {y}) + 1
  <2>1. SUFFICES ASSUME NEW S, NEW y \in S, IsFiniteSet(S)
                 PROVE  /\ IsFiniteSet(S \ {y}) /\ Cardinality(S \ {y}) \in Nat
                        /\ Cardinality(S) = Cardinality(S \ {y}) + 1
    OBVIOUS
  <2>2. IsFiniteSet(S \ {y}) /\ Cardinality(S \ {y}) = Cardinality(S) - 1
    BY <2>1, FS_RemoveElement
  <2>3. Cardinality(S) \in Nat /\ Cardinality(S \ {y}) \in Nat
    BY <2>1, <2>2, FS_CardinalityType
  <2>. QED
    BY <2>2, <2>3
<1>4. ASSUME NEW t \in T PROVE Turn(m, t) \in 1 .. N
  <2>1. First(t) \subseteq T \ {t}
    BY <1>1 DEF Sooner
  <2>2. IsFiniteSet(T \ {t}) /\ N = Cardinality(T \ {t}) + 1 /\ Cardinality(T \ {t}) \in Nat
    BY <1>1, <1>3
  <2>3. Cardinality(First(t)) <= Cardinality(T \ {t})
    BY <2>1, <2>2, FS_Subset
  <2>. QED
    BY <1>1, <1>2, <2>2, <2>3
<1>5. ASSUME NEW t \in T, NEW u \in T, Sooner(m, t, u) PROVE Turn(m, t) < Turn(m, u)
  <2>1. First(t) \subseteq First(u) \ {t}
    <3>1. ASSUME NEW v \in First(t) PROVE v \in First(u) \ {t}
      BY <1>1, <1>5, <3>1 DEF Sooner
    <3>. QED
      BY <3>1
  <2>2. t \in First(u)
    BY <1>5
  <2> HIDE DEF First
  <2>3. IsFiniteSet(First(u) \ {t}) /\ Cardinality(First(u)) = Cardinality(First(u) \ {t}) + 1
        /\ Cardinality(First(u) \ {t}) \in Nat
    BY <1>2, <1>3, <2>2
  <2>4. Cardinality(First(t)) <= Cardinality(First(u) \ {t})
    BY <2>1, <2>3, FS_Subset
  <2>. QED
    BY <1>2, <2>3, <2>4
<1>6. \A t, u \in T : t # u => Sooner(m, t, u) \/ Sooner(m, u, t)
  <2>1. SUFFICES ASSUME NEW t \in T, NEW u \in T, t # u
                 PROVE  Sooner(m, t, u) \/ Sooner(m, u, t)
    OBVIOUS
  <2>2. /\ Size(m, t) \in Nat /\ Size(m, u) \in Nat
        /\ t.site_index \in Nat /\ u.site_index \in Nat /\ t.site_index # u.site_index
    BY <1>1, <2>1
  <2>. QED
    BY <2>2 DEF Sooner
<1>7. \A t, u \in T : Turn(m, t) = Turn(m, u) => t = u
  <2>1. \A t \in T : Turn(m, t) \in Nat
    BY <1>1, <1>4
  <2>. QED
    BY <1>5, <1>6, <2>1
<1>8. \A n \in 1 .. N : \E t \in T : Turn(m, t) = n
  <2>1. r \in Injection(T, 1 .. N)
    BY <1>4, <1>7 DEF Injection, IsInjective
  <2>2. IsFiniteSet(1 .. N) /\ Cardinality(1 .. N) = N
    BY <1>1, FS_Interval
  <2>3. r \in Surjection(T, 1 .. N)
    <3> HIDE DEF r
    <3>. QED
      BY <1>1, <2>1, <2>2, FS_Injection
  <2>. QED
    BY <2>3 DEF Surjection
<1>. QED
  BY <1>4, <1>7, <1>8

-----------------------------------------------------------------------------
\* g is the table of what is assigned after each turn in D.
OfTurn(m, n) == CHOOSE t \in m.targets : Turn(m, t) = n
IsBalanceTable(g, m, world, D) ==
  g = [n \in D |-> IF n = 0 THEN Idle(world) ELSE Assign(m, g[n - 1], OfTurn(m, n))]

LEMMA BalanceTableExists ==
  ASSUME NEW m, NEW world, NEW N \in Nat
  PROVE  \E g : IsBalanceTable(g, m, world, 0 .. N)
<1> DEFINE S == {n \in Nat : \E g : IsBalanceTable(g, m, world, 0 .. n)}
<1>1. 0 \in S
  <2> DEFINE g == [n \in 0 .. 0 |-> Idle(world)]
  <2>1. g = [n \in 0 .. 0 |-> IF n = 0 THEN Idle(world) ELSE Assign(m, g[n - 1], OfTurn(m, n))]
    OBVIOUS
  <2>2. IsBalanceTable(g, m, world, 0 .. 0)
    <3> HIDE DEF g
    <3>. QED
      BY <2>1 DEF IsBalanceTable
  <2>. QED
    BY <2>2
<1>2. ASSUME NEW n \in Nat, n \in S PROVE n + 1 \in S
  <2>1. PICK g : IsBalanceTable(g, m, world, 0 .. n)
    BY <1>2
  <2> DEFINE h == [i \in 0 .. n + 1 |->
                     IF i = 0 THEN Idle(world) ELSE Assign(m, g[i - 1], OfTurn(m, i))]
  <2>2. ASSUME NEW i \in 0 .. n PROVE i \in 0 .. n + 1 /\ h[i] = g[i]
    <3>1. g = [j \in 0 .. n |-> IF j = 0 THEN Idle(world) ELSE Assign(m, g[j - 1], OfTurn(m, j))]
      BY <2>1 DEF IsBalanceTable
    <3>2. g[i] = IF i = 0 THEN Idle(world) ELSE Assign(m, g[i - 1], OfTurn(m, i))
      BY <3>1
    <3>. QED
      BY <3>2
  <2>3. \A i \in 0 .. n + 1 : i # 0 => i - 1 \in 0 .. n
    OBVIOUS
  <2>4. h = [i \in 0 .. n + 1 |->
               IF i = 0 THEN Idle(world) ELSE Assign(m, h[i - 1], OfTurn(m, i))]
    BY <2>2, <2>3
  <2>5. IsBalanceTable(h, m, world, 0 .. n + 1)
    <3> HIDE DEF h
    <3>. QED
      BY <2>4 DEF IsBalanceTable
  <2>. QED
    BY <2>5
<1>3. Nat \subseteq S
  <2> HIDE DEF S
  <2>. QED
    BY <1>1, <1>2, NatSetInduction
<1>. QED
  BY <1>3

\* After n turns: the first n sites are assigned, each to one rank, and no rank
\* has more than another by more than one site of size `most`.
Even(m, world, most, n, given) ==
  LET R == 0 .. world - 1
  IN /\ given = [loads |-> given.loads, assigned |-> given.assigned]
     /\ given.loads \in [R -> Nat] /\ given.assigned \in [R -> SUBSET Nat]
     /\ UNION {given.assigned[r] : r \in R}
          = {t.site_index : t \in {t \in m.targets : Turn(m, t) <= n}}
     /\ \A r, q \in R : r # q => given.assigned[r] \cap given.assigned[q] = {}
     /\ \A r, q \in R : given.loads[r] <= given.loads[q] + most

LEMMA AssignKeepsEven ==
  ASSUME NEW m \in Model, NEW world \in Nat \ {0}, NEW most \in Nat,
         \A t \in m.targets : Size(m, t) <= most,
         NEW n \in Nat, n < Cardinality(m.targets), NEW given, Even(m, world, most, n, given)
  PROVE  Even(m, world, most, n + 1, Assign(m, given, OfTurn(m, n + 1)))
<1> DEFINE R == 0 .. world - 1
           t == OfTurn(m, n + 1)
           r == Least(given.loads)
           next == Assign(m, given, t)
           loads == [given.loads EXCEPT ![r] = @ + Size(m, t)]
           assigned == [given.assigned EXCEPT ![r] = @ \cup {t.site_index}]
<1>1. t \in m.targets /\ Turn(m, t) = n + 1
  <2>1. n + 1 \in 1 .. Cardinality(m.targets)
    BY TargetFacts
  <2>. QED
    BY <2>1, TurnFacts DEF OfTurn
<1>2. t.site_index \in Nat /\ Size(m, t) \in Nat /\ Size(m, t) <= most
  BY <1>1, TargetFacts
<1>3. /\ given = [loads |-> given.loads, assigned |-> given.assigned]
      /\ given.loads \in [R -> Nat] /\ given.assigned \in [R -> SUBSET Nat]
      /\ UNION {given.assigned[q] : q \in R}
           = {u.site_index : u \in {u \in m.targets : Turn(m, u) <= n}}
      /\ \A p, q \in R : p # q => given.assigned[p] \cap given.assigned[q] = {}
      /\ \A p, q \in R : given.loads[p] <= given.loads[q] + most
  BY DEF Even
<1>4. r \in R /\ \A q \in R : given.loads[r] <= given.loads[q]
  BY <1>3, LeastFacts
<1>5. next = [loads |-> loads, assigned |-> assigned]
  <2> DEFINE x == given.loads
             y == given.assigned
  <2>1. next = [given EXCEPT !.loads[r] = @ + Size(m, t), !.assigned[r] = @ \cup {t.site_index}]
    BY DEF Assign
  <2> HIDE DEF r, t, next
  <2>. QED
    BY <1>3, <2>1
<1> HIDE DEF t, r, next
<1>6. loads \in [R -> Nat] /\ assigned \in [R -> SUBSET Nat]
  BY <1>2, <1>3, <1>4
<1>7. \A q \in R : /\ loads[q] = IF q = r THEN given.loads[q] + Size(m, t) ELSE given.loads[q]
                   /\ assigned[q] = IF q = r THEN given.assigned[q] \cup {t.site_index}
                                    ELSE given.assigned[q]
  BY <1>3, <1>4
<1> HIDE DEF loads, assigned
<1>8. \A p, q \in R : loads[p] <= loads[q] + most
  <2>1. SUFFICES ASSUME NEW p \in R, NEW q \in R PROVE loads[p] <= loads[q] + most
    OBVIOUS
  <2>2. /\ given.loads[p] \in Nat /\ given.loads[q] \in Nat
        /\ given.loads[p] <= given.loads[q] + most /\ given.loads[r] <= given.loads[q]
    BY <1>3, <1>4
  <2>3. /\ loads[p] \in {given.loads[p], given.loads[p] + Size(m, t)}
        /\ loads[q] \in {given.loads[q], given.loads[q] + Size(m, t)}
    BY <1>7
  <2>4. CASE p = r
    <3>1. loads[p] = given.loads[r] + Size(m, t) /\ given.loads[r] \in Nat
      BY <1>3, <1>4, <1>7, <2>4
    <3>. QED
      BY <1>2, <2>2, <2>3, <3>1
  <2>5. CASE p # r
    <3>1. loads[p] = given.loads[p]
      BY <1>7, <2>5
    <3>. QED
      BY <1>2, <2>2, <2>3, <3>1
  <2>. QED
    BY <2>4, <2>5
<1>9. \A u \in m.targets : Turn(m, u) <= n + 1 <=> (Turn(m, u) <= n \/ u = t)
  <2>1. \A u \in m.targets : Turn(m, u) \in Nat
    BY TurnFacts, TargetFacts
  <2>2. \A u \in m.targets : Turn(m, u) = n + 1 => u = t
    BY <1>1, TurnFacts
  <2>. QED
    BY <1>1, <2>1, <2>2
<1>10. UNION {assigned[q] : q \in R}
         = {u.site_index : u \in {u \in m.targets : Turn(m, u) <= n + 1}}
  <2> DEFINE A == UNION {given.assigned[q] : q \in R}
             B == UNION {assigned[q] : q \in R}
             U == {u \in m.targets : Turn(m, u) <= n}
             V == {u \in m.targets : Turn(m, u) <= n + 1}
  <2>1. B = A \cup {t.site_index}
    <3>1. ASSUME NEW x \in B PROVE x \in A \cup {t.site_index}
      <4>1. PICK q \in R : x \in assigned[q]
        BY <3>1
      <4>. QED
        BY <1>7, <4>1
    <3>2. ASSUME NEW x \in A PROVE x \in B
      <4>1. PICK q \in R : x \in given.assigned[q]
        BY <3>2
      <4>2. x \in assigned[q]
        BY <1>7, <4>1
      <4>. QED
        BY <4>2
    <3>3. t.site_index \in assigned[r]
      BY <1>4, <1>7
    <3>4. t.site_index \in B
      BY <1>4, <3>3
    <3> HIDE DEF A, B
    <3>. QED
      BY <3>1, <3>2, <3>4
  <2>2. V = U \cup {t}
    BY <1>1, <1>9
  <2>3. {u.site_index : u \in V} = {u.site_index : u \in U} \cup {t.site_index}
    <3> HIDE DEF U, V
    <3>. QED
      BY <2>2
  <2>4. A = {u.site_index : u \in U}
    BY <1>3
  <2> HIDE DEF A, B, U
  <2>. QED
    BY <2>1, <2>3, <2>4 DEF B
<1>11. \A q \in R : t.site_index \notin given.assigned[q]
  <2>1. SUFFICES ASSUME NEW q \in R, t.site_index \in given.assigned[q] PROVE FALSE
    OBVIOUS
  <2>2. PICK u \in m.targets : Turn(m, u) <= n /\ u.site_index = t.site_index
    BY <1>3, <2>1
  <2>3. u = t
    BY <1>1, <2>2, TargetFacts
  <2>. QED
    BY <1>1, <2>2, <2>3
<1>12. \A p, q \in R : p # q => assigned[p] \cap assigned[q] = {}
  BY <1>3, <1>7, <1>11
<1>13. next.loads = loads /\ next.assigned = assigned
  BY <1>5
<1>. QED
  BY <1>5, <1>6, <1>8, <1>10, <1>12, <1>13 DEF Even, t, next

LEMMA BalanceEven ==
  ASSUME NEW m \in Model, NEW world \in Nat \ {0}, NEW most \in Nat,
         \A t \in m.targets : Size(m, t) <= most
  PROVE  Even(m, world, most, Cardinality(m.targets), Balance(m, world))
<1> DEFINE N == Cardinality(m.targets)
           G == CHOOSE g : IsBalanceTable(g, m, world, 0 .. N)
           S == {n \in Nat : n <= N => Even(m, world, most, n, G[n])}
<1>1. N \in Nat
  BY TargetFacts
<1>2. IsBalanceTable(G, m, world, 0 .. N)
  BY <1>1, BalanceTableExists
<1>3. Balance(m, world) = G[N]
  BY DEF Balance, IsBalanceTable, OfTurn
<1> HIDE DEF G
<1>4. \A n \in 0 .. N : G[n] = IF n = 0 THEN Idle(world) ELSE Assign(m, G[n - 1], OfTurn(m, n))
  <2> HIDE DEF N
  <2>. QED
    BY <1>2 DEF IsBalanceTable
<1>5. 0 \in S
  <2>1. G[0] = Idle(world)
    BY <1>1, <1>4
  <2>2. {t \in m.targets : Turn(m, t) <= 0} = {}
    BY TurnFacts
  <2>3. Even(m, world, most, 0, Idle(world))
    BY <2>2 DEF Even, Idle
  <2>. QED
    BY <2>1, <2>3
<1>6. ASSUME NEW n \in Nat, n \in S PROVE n + 1 \in S
  <2>1. SUFFICES ASSUME n + 1 <= N PROVE Even(m, world, most, n + 1, G[n + 1])
    OBVIOUS
  <2>2. n < N /\ Even(m, world, most, n, G[n])
    BY <1>1, <1>6, <2>1
  <2>3. G[n + 1] = Assign(m, G[n], OfTurn(m, n + 1))
    <3>1. n + 1 \in 0 .. N /\ n + 1 # 0 /\ n + 1 - 1 = n
      BY <1>1, <2>1
    <3> HIDE DEF N
    <3>. QED
      BY <1>4, <3>1
  <2>. QED
    BY <2>2, <2>3, AssignKeepsEven
<1>7. N \in S
  <2> HIDE DEF S
  <2>. QED
    BY <1>1, <1>5, <1>6, NatSetInduction
<1>. QED
  BY <1>1, <1>3, <1>7

LEMMA LargestSize ==
  ASSUME NEW m \in Model
  PROVE  \E most \in Nat : \A t \in m.targets : Size(m, t) <= most
<1>1. CASE m.targets = {}
  BY <1>1
<1>2. CASE m.targets # {}
  <2>1. 1 \in 1 .. Cardinality(m.targets)
    <3>1. PICK t \in m.targets : Turn(m, t) \in 1 .. Cardinality(m.targets)
      BY <1>2, TurnFacts
    <3>. QED
      BY <3>1, TargetFacts
  <2>2. PICK t \in m.targets : Turn(m, t) = 1
    BY <2>1, TurnFacts
  <2> DEFINE First == {u \in m.targets : Sooner(m, u, t)}
  <2>3. IsFiniteSet(First) /\ Cardinality(First) \in Nat /\ Cardinality(First) + 1 = 1
    BY <2>2, TargetFacts, FS_Subset, FS_CardinalityType DEF Turn
  <2>4. First = {}
    <3> HIDE DEF First
    <3>. QED
      BY <2>3, FS_EmptySet
  <2>5. \A u \in m.targets : Size(m, u) <= Size(m, t)
    BY <2>4, TargetFacts DEF Sooner
  <2>. QED
    BY <2>5, TargetFacts
<1>. QED
  BY <1>1, <1>2

\* The sites of a model are shared out among any number of ranks: each of them
\* goes to one rank and to no other, also when there are fewer sites than ranks
\* or Linears of one size (balanced_site_indices, calibrate_worker.py).
THEOREM SitesPartitioned ==
  ASSUME NEW m \in Model, NEW world \in Nat \ {0}
  PROVE  /\ UNION {BalancedSiteIndices(m, world)[r] : r \in 0 .. world - 1}
              = {t.site_index : t \in m.targets}
         /\ \A r, q \in 0 .. world - 1 :
              r # q => BalancedSiteIndices(m, world)[r] \cap BalancedSiteIndices(m, world)[q] = {}
<1>1. PICK most \in Nat : \A t \in m.targets : Size(m, t) <= most
  BY LargestSize
<1>2. Even(m, world, most, Cardinality(m.targets), Balance(m, world))
  BY <1>1, BalanceEven
<1>3. {t \in m.targets : Turn(m, t) <= Cardinality(m.targets)} = m.targets
  BY TurnFacts
<1>. QED
  BY <1>2, <1>3 DEF Even, BalancedSiteIndices

\* No rank is given more work than another by more than one Linear, the largest
\* (balanced_site_indices: the largest first, to the rank with least load).
THEOREM LoadsEven ==
  ASSUME NEW m \in Model, NEW world \in Nat \ {0}, NEW most \in Nat,
         \A t \in m.targets : Size(m, t) <= most
  PROVE  \A r, q \in 0 .. world - 1 :
           Balance(m, world).loads[r] <= Balance(m, world).loads[q] + most
BY BalanceEven DEF Even

\* Calibrating in shards is transparent: the files of all ranks that were given
\* a site, merged in any order, are the checkpoint a single rank would have made
\* (calibrate_worker.py, QuantizationCheckpoint.merge).
THEOREM ShardsAreTheWhole ==
  ASSUME NEW m \in Model, NEW c \in Config, NEW world \in Nat \ {0},
         ValidCheckpoint(Shard(m, 1, 0, c)),
         NEW n \in Nat, NEW ranks \in [1 .. n -> 0 .. world - 1],
         \A i, j \in 1 .. n : ranks[i] = ranks[j] => i = j,
         {ranks[i] : i \in 1 .. n}
           = {r \in 0 .. world - 1 : Shard(m, world, r, c).sites # {}}
  PROVE  LET selected == [i \in 1 .. n |-> Shard(m, world, ranks[i], c)]
         IN Mergeable(selected) /\ Merge(selected) = Shard(m, 1, 0, c)
<1> DEFINE selected == [i \in 1 .. n |-> Shard(m, world, ranks[i], c)]
           whole == Shard(m, 1, 0, c)
           Site(t) == QuantizedSite(m, t, c)
           B == BalancedSiteIndices(m, world)
           R == 0 .. world - 1
<1>1. \A t \in m.targets : Site(t).site_index = t.site_index
  BY DEF QuantizedSite
<1>2. \A r : /\ Shard(m, world, r, c).metadata = c.metadata
             /\ Shard(m, world, r, c).sites
                  = {Site(t) : t \in {t \in m.targets : t.site_index \in B[r]}}
  BY DEF Shard
<1>3. /\ whole.metadata = c.metadata
      /\ whole.sites = {Site(t) : t \in m.targets}
      /\ whole = [metadata |-> whole.metadata, sites |-> whole.sites]
  <2> DEFINE A == BalancedSiteIndices(m, 1)
  <2>1. \A t \in m.targets : t.site_index \in A[0]
    <3>1. \A w \in Nat \ {0} : UNION {BalancedSiteIndices(m, w)[r] : r \in 0 .. w - 1}
                                  = {t.site_index : t \in m.targets}
      BY SitesPartitioned
    <3>2. 1 \in Nat \ {0} /\ 0 .. 1 - 1 = {0}
      OBVIOUS
    <3>3. UNION {A[r] : r \in {0}} = {t.site_index : t \in m.targets}
      BY <3>1, <3>2
    <3> HIDE DEF A
    <3>. QED
      BY <3>3
  <2>2. {t \in m.targets : t.site_index \in A[0]} = m.targets
    BY <2>1
  <2>. QED
    BY <2>2 DEF Shard
<1>4. /\ UNION {B[r] : r \in R} = {t.site_index : t \in m.targets}
      /\ \A r, q \in R : r # q => B[r] \cap B[q] = {}
  BY SitesPartitioned
<1> HIDE DEF Site, B, whole
<1>5. \A i \in 1 .. n : /\ selected[i].metadata = c.metadata
                        /\ selected[i].sites # {}
                        /\ selected[i].sites
                             = {Site(t) : t \in {t \in m.targets : t.site_index \in B[ranks[i]]}}
  BY <1>2
<1>6. DOMAIN selected = 1 .. n /\ \A i \in 1 .. n : ranks[i] \in R
  OBVIOUS
<1>7. \A t \in m.targets : \E i \in 1 .. n : Site(t) \in selected[i].sites
  <2>1. SUFFICES ASSUME NEW t \in m.targets PROVE \E i \in 1 .. n : Site(t) \in selected[i].sites
    OBVIOUS
  <2>2. PICK r \in R : t.site_index \in B[r]
    BY <1>4
  <2>3. Shard(m, world, r, c).sites # {}
    <3>1. t \in {u \in m.targets : u.site_index \in B[r]}
      BY <2>2
    <3>2. Site(t) \in Shard(m, world, r, c).sites
      BY <1>2, <3>1
    <3>. QED
      BY <3>2
  <2>4. PICK i \in 1 .. n : ranks[i] = r
    BY <2>3
  <2>. QED
    BY <1>5, <2>2, <2>4
<1> HIDE DEF selected, R
<1>8. n >= 1
  <2>1. m.targets # {}
    BY <1>3 DEF ValidCheckpoint, whole
  <2>. QED
    BY <1>7, <2>1
<1>9. \A i \in 1 .. n : selected[i].sites \subseteq whole.sites
  BY <1>3, <1>5
<1>10. ASSUME NEW i \in 1 .. n PROVE ValidCheckpoint(selected[i])
  BY <1>3, <1>5, <1>9 DEF ValidCheckpoint, whole
<1>11. ASSUME NEW i \in 1 .. n, NEW j \in 1 .. n, i # j,
              NEW e \in selected[i].sites, NEW f \in selected[j].sites
       PROVE  e.site_index # f.site_index
  <2>1. PICK t \in m.targets : e = Site(t) /\ t.site_index \in B[ranks[i]]
    BY <1>5
  <2>2. PICK u \in m.targets : f = Site(u) /\ u.site_index \in B[ranks[j]]
    BY <1>5
  <2>3. ranks[i] # ranks[j]
    BY <1>11
  <2>4. B[ranks[i]] \cap B[ranks[j]] = {}
    BY <1>4, <1>6, <2>3
  <2>. QED
    BY <1>1, <2>1, <2>2, <2>4 DEF Site
<1>12. Mergeable(selected)
  BY <1>5, <1>6, <1>8, <1>10, <1>11 DEF Mergeable
<1>13. UNION {selected[i].sites : i \in DOMAIN selected} = whole.sites
  <2>1. ASSUME NEW e \in whole.sites
        PROVE  e \in UNION {selected[i].sites : i \in DOMAIN selected}
    <3>1. PICK t \in m.targets : e = Site(t)
      BY <1>3
    <3>. QED
      BY <1>6, <1>7, <3>1
  <2>. QED
    BY <1>6, <1>9, <2>1
<1>14. Merge(selected) = whole
  BY <1>3, <1>5, <1>8, <1>13 DEF Merge
<1>. QED
  BY <1>12, <1>14 DEF selected, whole

-----------------------------------------------------------------------------
\* The checks of the load never refuse what an export makes of the same model:
\* whatever is exported is a valid deployment, and loads into the model it was
\* exported from, in any other process (export_deployment, load_deployment).
THEOREM ExportsLoad ==
  ASSUME NEW m \in Model, NEW cp, Exportable(m, cp),
         \A e \in cp.sites : CalibratedSite(cp.metadata, e)
  PROVE  ValidPayload(Payload(m, cp)) /\ Loadable(Payload(m, cp), m)
<1> DEFINE payload == Payload(m, cp)
           bits == cp.metadata.activation_bits
           Entry(e) == SpecOf(m, e)
           Own(e) == Buffers(e, bits, At(m, e.module_name).bias)
<1>1. /\ payload.metadata = cp.metadata
      /\ payload.sites = {Entry(e) : e \in cp.sites}
      /\ DOMAIN payload.state = DOMAIN m.slot
  BY DEF Payload
<1>2. \A e \in cp.sites :
        /\ Entry(e).module_name = e.module_name /\ Entry(e).rotation = e.rotation
        /\ Entry(e).aliases = TargetAliases(m, e.module_name)
        /\ Entry(e).n = e.n /\ Entry(e).k = Len(e.qweight)
        /\ Entry(e).bias = At(m, e.module_name).bias
  BY DEF SpecOf
<1>3. \A e \in cp.sites :
        /\ Own(e).kind = "packed" /\ Own(e).weight = Pack(e.qweight) /\ Own(e).n = e.n
        /\ Own(e).bias = At(m, e.module_name).bias /\ Own(e).signs = e.signs
  BY DEF Buffers
<1>4. /\ ValidCheckpoint(cp) /\ cp.metadata.weight_bits = 4 /\ bits \in {4, 8}
      /\ Enumerable(m) /\ Names(m) = {e.module_name : e \in cp.sites} /\ ~SharedByTargets(m)
      /\ \A e \in cp.sites :
           /\ At(m, e.module_name).n = e.n /\ At(m, e.module_name).k = Len(e.qweight)
           /\ Packable(e.qweight) /\ NativeShape(e.n, Len(e.qweight), bits)
  BY DEF Exportable, Covers
<1>5. ASSUME NEW e \in cp.sites, NEW f \in cp.sites, e # f
      PROVE  /\ e.module_name # f.module_name
             /\ TargetAliases(m, e.module_name) \cap TargetAliases(m, f.module_name) = {}
  <2>1. e.module_name # f.module_name
    BY <1>4, <1>5 DEF ValidCheckpoint
  <2>2. ASSUME NEW p \in TargetAliases(m, e.module_name), p \in TargetAliases(m, f.module_name)
        PROVE  FALSE
    <3>1. At(m, e.module_name).id = At(m, f.module_name).id
      BY <2>2 DEF TargetAliases
    <3>. QED
      BY <1>5, <3>1, OneEntryPerLinear
  <2>. QED
    BY <2>1, <2>2
<1>6. ASSUME NEW e \in cp.sites
      PROVE  /\ e.module_name \in TargetAliases(m, e.module_name)
             /\ \A p \in TargetAliases(m, e.module_name) : payload.state[p] = Own(e)
  <2>1. PICK t \in m.targets : t.name = e.module_name
    BY <1>4 DEF Names
  <2>2. e.module_name \in DOMAIN m.slot
    BY <2>1, DeploymentAssumption DEF IsModel
  <2>. QED
    BY <2>2, ExportedBuffers DEF TargetAliases
<1>7. ASSUME NEW e \in cp.sites
      PROVE  /\ e.rotation \in {"none", "rht"} /\ (e.rotation = "rht" => bits = 4)
             /\ (e.rotation = "none") = (e.signs = None)
             /\ Len(Pack(e.qweight)) = Len(e.qweight) \div 2
  <2>1. PICK o \in Model, c \in Config : \E t \in o.targets :
          e = QuantizedSite(o, t, c) /\ c.metadata = cp.metadata
    BY DEF CalibratedSite
  <2>2. PICK t \in o.targets : e = QuantizedSite(o, t, c) /\ c.metadata = cp.metadata
    BY <2>1
  <2>3. e.rotation = c.rotation /\ e.qweight = QWeight(t.name, At(o, t.name).k, c)
    BY <2>2 DEF QuantizedSite
  <2>4. c.rotation \in {"none", "rht"} /\ (c.rotation # "none" => c.metadata.activation_bits = 4)
    BY DeploymentAssumption
  <2>5. e.qweight \in Seq(Int)
    BY <2>3, DeploymentAssumption
  <2>6. Len(Pack(e.qweight)) = Len(e.qweight) \div 2
    BY <1>4, <2>5, PackedLength
  <2>7. (e.signs = None) = (e.rotation = "none")
    BY <1>4 DEF ValidCheckpoint, ValidSite
  <2>. QED
    BY <2>2, <2>3, <2>4, <2>6, <2>7
<1> HIDE DEF payload, Entry, Own
<1>8. ValidPayload(payload)
  <2>1. payload.metadata.num_calls > 0 /\ payload.sites # {}
    BY <1>1, <1>4 DEF ValidCheckpoint
  <2>2. ASSUME NEW c \in payload.sites, NEW d \in payload.sites, c # d
        PROVE  c.module_name # d.module_name /\ c.aliases \cap d.aliases = {}
    <3>1. PICK e \in cp.sites, f \in cp.sites : c = Entry(e) /\ d = Entry(f)
      BY <1>1
    <3>2. e # f
      BY <2>2, <3>1
    <3>3. /\ c.module_name = e.module_name /\ c.aliases = TargetAliases(m, e.module_name)
          /\ d.module_name = f.module_name /\ d.aliases = TargetAliases(m, f.module_name)
      BY <1>2, <3>1
    <3>4. /\ e.module_name # f.module_name
          /\ TargetAliases(m, e.module_name) \cap TargetAliases(m, f.module_name) = {}
      BY <1>5, <3>2
    <3>. QED
      BY <3>3, <3>4
  <2>3. ASSUME NEW c \in payload.sites
        PROVE  LET buffers == payload.state[c.module_name]
               IN /\ c.module_name \in c.aliases
                  /\ buffers.kind = "packed" /\ NativeShape(c.n, c.k, bits)
                  /\ buffers.n = c.n /\ Len(buffers.weight) = c.k \div 2
                  /\ buffers.bias = c.bias
                  /\ c.rotation \in {"none", "rht"} /\ (c.rotation = "rht" => bits = 4)
                  /\ (c.rotation = "none") = (buffers.signs = None)
                  /\ \A a \in c.aliases : payload.state[a] = buffers
    <3>1. PICK e \in cp.sites : c = Entry(e)
      BY <1>1
    <3>2. /\ c.module_name = e.module_name /\ c.rotation = e.rotation
          /\ c.aliases = TargetAliases(m, e.module_name)
          /\ c.n = e.n /\ c.k = Len(e.qweight) /\ c.bias = At(m, e.module_name).bias
      BY <1>2, <3>1
    <3>3. /\ c.module_name \in c.aliases /\ payload.state[c.module_name] = Own(e)
          /\ \A a \in c.aliases : payload.state[a] = Own(e)
      BY <1>6, <3>2
    <3> DEFINE buffers == payload.state[c.module_name]
    <3>4. /\ buffers.kind = "packed" /\ buffers.n = c.n /\ buffers.bias = c.bias
          /\ buffers.weight = Pack(e.qweight) /\ buffers.signs = e.signs
          /\ \A a \in c.aliases : payload.state[a] = buffers
      BY <1>3, <3>2, <3>3
    <3>5. NativeShape(c.n, c.k, bits)
      BY <1>4, <3>2
    <3>6. Len(buffers.weight) = c.k \div 2
      BY <1>7, <3>2, <3>4
    <3>7. c.rotation \in {"none", "rht"} /\ (c.rotation = "rht" => bits = 4)
      BY <1>7, <3>2
    <3>8. (c.rotation = "none") = (buffers.signs = None)
      BY <1>7, <3>2, <3>4
    <3>. QED
      BY <3>3, <3>4, <3>5, <3>6, <3>7, <3>8
  <2>. QED
    BY <1>1, <1>4, <2>1, <2>2, <2>3 DEF ValidPayload
<1>9. Names(m) = {c.module_name : c \in payload.sites}
  BY <1>1, <1>2, <1>4
<1>10. SameAliases(payload, m)
  BY <1>1, <1>2 DEF SameAliases
<1>11. \A c \in payload.sites :
         /\ At(m, c.module_name).n = c.n /\ At(m, c.module_name).k = c.k
         /\ At(m, c.module_name).bias = c.bias
  BY <1>1, <1>2, <1>4
<1>12. ASSUME NEW p \in DOMAIN m.slot, payload.state[p].kind = "linear"
       PROVE  payload.state[p] = At(m, p)
  <2> DEFINE Owners == {e \in cp.sites : p \in TargetAliases(m, e.module_name)}
  <2>1. CASE Owners = {}
    BY <1>12, <2>1 DEF Payload, payload
  <2>2. CASE Owners # {}
    <3>1. PICK e \in cp.sites : p \in TargetAliases(m, e.module_name)
      BY <2>2
    <3>2. payload.state[p].kind = "packed"
      BY <1>3, <1>6, <3>1
    <3>. QED
      BY <1>12, <3>2
  <2>. QED
    BY <2>1, <2>2
<1>. QED
  BY <1>1, <1>4, <1>8, <1>9, <1>10, <1>11, <1>12 DEF Loadable, payload
=============================================================================
