----------------------------- MODULE Collection -----------------------------
(***************************************************************************)
(* What a sensitivity output directory promises across any number of       *)
(* worker processes: observations 1..N are taken up in order, what is      *)
(* committed is never lost, and one result is published, in which every    *)
(* observation counts exactly once.                                        *)
(***************************************************************************)
EXTENDS Naturals

CONSTANTS N,         \* observations
          Signature, \* the settings a collection can be made with
          None

VARIABLES committed, \* observations 1..committed are safe
          result     \* None, or what has been published

cvars == <<committed, result>>

\* Every observation counted exactly once, in both products of a collection.
Exact(s) == [signature |-> s, statistics |-> [i \in 1..N |-> 1], rows |-> [i \in 1..N |-> 1]]

CollectionInit == committed = 0 /\ result = None

Commit ==
  /\ result = None
  /\ committed' \in committed + 1 .. N
  /\ UNCHANGED result

Publish ==
  /\ committed = N
  /\ result = None
  /\ \E s \in Signature : result' = Exact(s)
  /\ UNCHANGED committed

CollectionNext == Commit \/ Publish

CollectionSpec == CollectionInit /\ [][CollectionNext]_cvars
=============================================================================
