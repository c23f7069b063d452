-------------------------- MODULE SensitivityField --------------------------
(***************************************************************************)
(* lib/sensitivity.py, what becomes of the scores of an observation: the   *)
(* accumulator sums their squares and counts them, a field is its root     *)
(* mean square, and fields of several shards are merged by their counts.   *)
(* A sum of squares is the set of its terms, one for each observation:     *)
(* together with the count, that tells whether one is missing or doubled.  *)
(* value * value * count is the sum again, so a field keeps the sum.       *)
(***************************************************************************)
EXTENDS Integers, Sequences, FiniteSetsExt

CONSTANT SiteIndex

NewAccumulator == [i \in SiteIndex |-> [terms |-> {}, count |-> 0]]

\* One observation is added, with its values for every site.
AddObservation(accumulator, values) ==
  [i \in SiteIndex |-> [terms |-> accumulator[i].terms \cup {values[i]},
                        count |-> accumulator[i].count + 1]]

ValidField(field) == \A i \in SiteIndex : field.sites[i].count > 0

Finalize(accumulator, config) == [sites |-> accumulator, config |-> config]

FieldsMergeable(fields) ==
  \A i \in DOMAIN fields : fields[i].config = fields[1].config

MergeFields(fields) ==
  [config |-> fields[1].config,
   sites |-> [s \in SiteIndex |->
     [terms |-> UNION {fields[i].sites[s].terms : i \in DOMAIN fields},
      count |-> SumFunction([i \in DOMAIN fields |-> fields[i].sites[s].count])]]]
=============================================================================
