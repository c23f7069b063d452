----------------------------- MODULE QuantLinear -----------------------------
(***************************************************************************)
(* lib/runtime.py: the native quantized Linear, made from a calibrated     *)
(* site or from the buffers of a deployment; and the packing of weights    *)
(* (kernels/w4a8/ops.py).  The reference backend is left out.              *)
(***************************************************************************)
EXTENDS QuantizationCheckpoint

CONSTANTS AlignA4, AlignA8, \* input widths are multiples of these, 256 and 32
          AlignN            \* and output widths of this, 8

\* Two signed values of four bits make a byte, the first in the low nibble.
Packable(row) == Len(row) % 2 = 0 /\ \A i \in DOMAIN row : row[i] \in -8 .. 7
Pack(row) == [i \in 1 .. Len(row) \div 2 |-> (row[2 * i - 1] % 16) + 16 * (row[2 * i] % 16)]

\* What the kernels read: the nibbles, with their signs (csrc/w4a8.cu).
Signed(nibble) == IF nibble < 8 THEN nibble ELSE nibble - 16
Unpack(bytes) ==
  [i \in 1 .. 2 * Len(bytes) |->
     Signed(IF i % 2 = 1 THEN bytes[(i + 1) \div 2] % 16 ELSE bytes[i \div 2] \div 16)]

NativeShape(n, k, bits) == k % (IF bits = 4 THEN AlignA4 ELSE AlignA8) = 0 /\ n % AlignN = 0

FusesAdaln(operation) == operation = "ffn.0"
FusesResidual(operation) == operation \in {"self_attn.o", "ffn.2"}

\* The buffers of a native Linear.  Scales stand as what they come from and the
\* steps their clips are divided by.
Buffers(e, bits, bias) ==
  [kind |-> "packed", weight |-> Pack(e.qweight), n |-> e.n,
   scales |-> [by |-> e.by, of |-> e.module_name, steps |-> 2 ^ (bits - 1) - 1],
   bias |-> bias, signs |-> e.signs]

\* from_packed: nothing is fused.
FromPacked(spec, buffers, bits) ==
  [kind |-> "quant", site |-> spec.module_name, operation |-> spec.operation, bits |-> bits,
   buffers |-> buffers, rotation |-> spec.rotation, adaln |-> FALSE, residual |-> FALSE]

\* WAMQuantLinear.__init__, native.
FromSite(linear, e, bits, fuse) ==
  [kind |-> "quant", site |-> e.module_name, operation |-> e.operation, bits |-> bits,
   buffers |-> Buffers(e, bits, linear.bias), rotation |-> e.rotation,
   adaln |-> fuse /\ FusesAdaln(e.operation),
   residual |-> fuse /\ FusesResidual(e.operation)]

\* apply_checkpoint looks at every site before it replaces the first one; a
\* second site of one attribute would find that replaced, and fail an assertion.
Applicable(model, checkpoint, fuse) ==
  LET bits == checkpoint.metadata.activation_bits
  IN /\ ValidCheckpoint(checkpoint) /\ (IsRotated(checkpoint) => ~fuse /\ bits = 4)
     /\ checkpoint.metadata.weight_bits = 4 /\ bits \in {4, 8}
     /\ \A e \in checkpoint.sites :
          /\ e.module_name \in DOMAIN model.slot
          /\ LET linear == At(model, e.module_name)
             IN /\ linear.kind = "linear" /\ Packable(e.qweight)
                /\ linear.n = e.n /\ linear.k = Len(e.qweight)
                /\ NativeShape(linear.n, linear.k, bits)
     /\ \A e, f \in checkpoint.sites :
          model.slot[e.module_name] = model.slot[f.module_name] => e = f

\* It replaces what the calibrated path leads to, and no other attribute.
ApplyCheckpoint(model, checkpoint, fuse) ==
  LET SitesAt(s) == {e \in checkpoint.sites : model.slot[e.module_name] = s}
  IN [model EXCEPT !.module = [s \in DOMAIN model.module |->
        IF SitesAt(s) = {} THEN model.module[s]
        ELSE FromSite(model.module[s], CHOOSE e \in SitesAt(s) : TRUE,
                      checkpoint.metadata.activation_bits, fuse)]]

Quantized(model) == {s \in DOMAIN model.module : model.module[s].kind = "quant"}

FusionAllowed(model, enabled) ==
  enabled => \A s \in Quantized(model) : model.module[s].rotation = "none"

\* set_wam_block_fusions, and how many sites it says it fused.
SetFusions(model, enabled) ==
  [model EXCEPT !.module = [s \in DOMAIN model.module |->
     LET m == model.module[s]
     IN IF m.kind = "quant"
        THEN [m EXCEPT !.adaln = enabled /\ FusesAdaln(m.operation),
                       !.residual = enabled /\ FusesResidual(m.operation)]
        ELSE m]]

FusedSites(model) ==
  {model.module[s].site : s \in {r \in Quantized(model) : \/ model.module[r].adaln
                                                         \/ model.module[r].residual}}
=============================================================================
