---------------------------- MODULE MCDeployment ----------------------------
(* Instances of Deployment for TLC.                                         *)
EXTENDS Deployment, TLC

Linear(id, n, k) ==
  [kind |-> "linear", id |-> id, n |-> n, k |-> k, bias |-> id = "l2", rotated |-> FALSE]

Target(i, name, operation) == [site_index |-> i, name |-> name, operation |-> operation]
BothTargets == {Target(0, "q", "self_attn.q"), Target(1, "ffn", "ffn.0")}

Made(targets, slot, module) == [targets |-> targets, slot |-> slot, module |-> module]

Modules == "s1" :> Linear("l1", 8, 2) @@ "s2" :> Linear("l2", 8, 4) @@ "s3" :> Linear("x", 8, 4)
Wide == "s1" :> Linear("l1", 8, 4) @@ "s2" :> Linear("l2", 8, 4) @@ "s3" :> Linear("x", 8, 4)
Paths == "q" :> "s1" @@ "ffn" :> "s2" @@ "extra" :> "s3"
\* Through the shared parent, and a shortcut registered for itself.
Aliases == "mot.q" :> "s1" @@ "shortcut" :> "s4"

Plain == Made(BothTargets, Paths, Wide)
Aliased == Made(BothTargets, Paths @@ Aliases, Wide @@ "s4" :> Linear("l1", 8, 4))
Detached == Made(BothTargets, Paths @@ Aliases, Wide @@ "s4" :> Linear("copy", 8, 4))
Tied == Made(BothTargets, Paths, "s2" :> Linear("l1", 8, 4) @@ Wide)
Narrow == Made(BothTargets, Paths, Modules)
Shallow == Made({Target(0, "q", "self_attn.q")}, "q" :> "s1" @@ "extra" :> "s3",
                "s1" :> Linear("l1", 8, 4) @@ "s3" :> Linear("x", 8, 4))
Models == {Plain, Aliased, Detached, Tied, Narrow, Shallow}

Setting(bits, epochs) ==
  [weight_bits |-> 4, activation_bits |-> bits, num_calls |-> 2, d_config |-> epochs]
Configs ==
  {[metadata |-> Setting(8, 1), rotation |-> "none", seed |-> 0],
   [metadata |-> Setting(8, 2), rotation |-> "none", seed |-> 0],
   [metadata |-> Setting(4, 1), rotation |-> "rht", seed |-> 42],
   [metadata |-> Setting(4, 1), rotation |-> "rht", seed |-> 43]}

\* The ends of the range, zero, and both signs in both nibbles.
Row(name, k, c) ==
  LET long == IF name = "q" THEN <<-7, 7, 0, -1>> ELSE <<5, -2, c.metadata.d_config, 3>>
  IN [i \in 1 .. k |-> IF i = 3 /\ c.seed = 43 THEN 6 ELSE long[i]]
=============================================================================
