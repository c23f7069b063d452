--------------------------- MODULE PackedDeployment ---------------------------
(***************************************************************************)
(* lib/deployment.py: a complete deployment, exported from the original    *)
(* model and its calibration, and loaded into a model that was built       *)
(* without its weights.  Nonpersistent buffers, devices and dtypes are     *)
(* left out.  Weights that are not a target's are the Linear they are of.  *)
(***************************************************************************)
EXTENDS QuantLinear

\* Every registered path to the Linear a target names.
TargetAliases(model, name) == {p \in DOMAIN model.slot : At(model, p).id = At(model, name).id}

SharedByTargets(model) ==
  \E t, u \in model.targets : t # u /\ At(model, t.name).id = At(model, u.name).id

\* Mistake: whatever was calibrated is exported.
CoversSome(model, checkpoint) ==
  {e.module_name : e \in checkpoint.sites} \subseteq Names(model)

\* Every target Linear is calibrated, and nothing else.
Covers(model, checkpoint) == {e.module_name : e \in checkpoint.sites} = Names(model)

\* The model has to be the original one, neither replaced nor rotated.
Exportable(model, checkpoint) ==
  LET bits == checkpoint.metadata.activation_bits
  IN /\ ValidCheckpoint(checkpoint)
     /\ checkpoint.metadata.weight_bits = 4 /\ bits \in {4, 8}
     /\ Enumerable(model) /\ Covers(model, checkpoint)
     /\ \A t \in model.targets : ~At(model, t.name).rotated
     /\ ~SharedByTargets(model)
     /\ \A e \in checkpoint.sites :
          LET source == At(model, e.module_name)
          IN /\ source.n = e.n /\ source.k = Len(e.qweight) /\ Packable(e.qweight)
             /\ NativeShape(source.n, source.k, bits) /\ (e.rotation # "none" => bits = 4)

SpecOf(model, e) ==
  [module_name |-> e.module_name, aliases |-> TargetAliases(model, e.module_name),
   site_index |-> e.site_index, operation |-> e.operation, rotation |-> e.rotation,
   n |-> e.n, k |-> Len(e.qweight), bias |-> At(model, e.module_name).bias]

\* export_deployment.  The weights of the targets are packed, under every path.
Payload(model, checkpoint) ==
  LET bits == checkpoint.metadata.activation_bits
      SiteAt(p) == {e \in checkpoint.sites : p \in TargetAliases(model, e.module_name)}
  IN [metadata |-> checkpoint.metadata, model_config |-> model,
      sites |-> {SpecOf(model, e) : e \in checkpoint.sites},
      state |-> [p \in DOMAIN model.slot |->
        IF SiteAt(p) = {} THEN At(model, p)
        ELSE LET e == CHOOSE e \in SiteAt(p) : TRUE
             IN Buffers(e, bits, At(model, e.module_name).bias)]]

ValidPayload(payload) ==
  LET bits == payload.metadata.activation_bits
  IN /\ payload.metadata.weight_bits = 4 /\ bits \in {4, 8}
     /\ payload.metadata.num_calls > 0 /\ payload.sites # {}
     /\ \A c, d \in payload.sites :
          c # d => c.module_name # d.module_name /\ c.aliases \cap d.aliases = {}
     /\ \A c \in payload.sites :
          LET buffers == payload.state[c.module_name]
          IN /\ c.module_name \in c.aliases
             /\ buffers.kind = "packed" /\ NativeShape(c.n, c.k, bits)
             /\ buffers.n = c.n /\ Len(buffers.weight) = c.k \div 2
             /\ buffers.bias = c.bias
             /\ c.rotation \in {"none", "rht"} /\ (c.rotation = "rht" => bits = 4)
             /\ (c.rotation = "none") = (buffers.signs = None)
             /\ \A a \in c.aliases : payload.state[a] = buffers

\* Mistake: the aliases of the file are looked for, and no others.
AliasesFound(payload, built) ==
  \A c \in payload.sites : c.aliases \subseteq TargetAliases(built, c.module_name)

SameAliases(payload, built) ==
  \A c \in payload.sites : TargetAliases(built, c.module_name) = c.aliases

\* load_deployment refuses a model whose targets, aliases or shapes differ, and
\* (strict) one that does not have exactly the paths of the file.
Loadable(payload, built) ==
  /\ ValidPayload(payload) /\ Enumerable(built)
  /\ Names(built) = {c.module_name : c \in payload.sites}
  /\ ~SharedByTargets(built) /\ SameAliases(payload, built)
  /\ \A c \in payload.sites :
       LET source == At(built, c.module_name)
       IN source.n = c.n /\ source.k = c.k /\ source.bias = c.bias
  /\ DOMAIN built.slot = DOMAIN payload.state
  /\ \A p \in DOMAIN built.slot : payload.state[p].kind = "linear" =>
       At(built, p).n = payload.state[p].n /\ At(built, p).k = payload.state[p].k

\* The targets are replaced, at every alias; then everything gets the weights
\* kept under its path, whichever of its paths comes last.
LoadDeployment(payload, built) ==
  LET SpecAt(s) == {c \in payload.sites : \E a \in c.aliases : built.slot[a] = s}
      Kept(s) == payload.state[CHOOSE p \in DOMAIN built.slot : built.slot[p] = s]
  IN [built EXCEPT !.module = [s \in DOMAIN built.module |->
        IF SpecAt(s) = {} THEN Kept(s)
        ELSE FromPacked(CHOOSE c \in SpecAt(s) : TRUE, Kept(s),
                        payload.metadata.activation_bits)]]
=============================================================================
