-------------------------- MODULE MCAtomicSnapshot --------------------------
(* Instance of AtomicSnapshot for TLC: values are model values of the cfg.  *)
EXTENDS AtomicSnapshot, TLC

\* Writers, payloads and inodes are interchangeable.
Symmetry == Permutations(Writer) \cup Permutations(Payload) \cup Permutations(Inode)
=============================================================================
