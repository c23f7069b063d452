-------------------------- MODULE ActivationCache --------------------------
(***************************************************************************)
(* lib/cache.py: a reservoir of input rows for each (site, call, stream).  *)
(* Every row draws a priority from the cache's generator, and a cell keeps *)
(* the MaxRows rows of highest priority.  A cache is a value here; what    *)
(* happens to it is up to its user.  A cell nothing was added to is empty, *)
(* where the code has none.  The absolute maximum per channel is left out: *)
(* it is taken of every row, like `seen`.                                  *)
(***************************************************************************)
EXTENDS Integers, Sequences, FiniteSets, FiniteSetsExt

CONSTANTS CacheKey,     \* <<site, call, stream>>
          MaxRows,      \* max_rows_per_cell
          Random(_, _)  \* Random(seed, n): draw n of a generator of that seed

EmptyCell == [entries |-> {}, seen |-> 0]

NewCache(seed, config) ==
  [seed |-> seed, drawn |-> 0, config |-> config, cells |-> [k \in CacheKey |-> EmptyCell]]

\* kept is what a topk of all may return; it breaks ties as it likes.
IsTop(kept, all) ==
  /\ kept \subseteq all
  /\ Cardinality(kept) = Min({MaxRows, Cardinality(all)})
  /\ \A e \in kept, f \in all \ kept : e.priority >= f.priority

Top(all) ==
  IF Cardinality(all) <= MaxRows THEN all
  ELSE CHOOSE kept \in kSubset(MaxRows, all) : IsTop(kept, all)

Add(cache, key, rows) ==
  LET new  == {[row |-> rows[i], priority |-> Random(cache.seed, cache.drawn + i)] :
                 i \in DOMAIN rows}
      cell == cache.cells[key]
  IN [cache EXCEPT
        !.drawn = @ + Len(rows),
        !.cells[key] = [entries |-> Top(cell.entries \cup new),
                        seen |-> cell.seen + Len(rows)]]

StateDict(cache) ==
  [config |-> cache.config, cells |-> cache.cells,
   generator_state |-> [seed |-> cache.seed, drawn |-> cache.drawn]]

\* Mistake: the loaded cache draws from a fresh generator.
FromStateDictReseeded(payload) ==
  [NewCache(0, payload.config) EXCEPT !.cells = payload.cells]

\* The constructor seeds its generator with 0 before the saved state is set.
FromStateDict(payload) ==
  [NewCache(0, payload.config) EXCEPT
     !.cells = payload.cells,
     !.seed = payload.generator_state.seed,
     !.drawn = payload.generator_state.drawn]

Mergeable(caches) ==
  \A i \in DOMAIN caches : caches[i].config = caches[1].config

Merge(caches) ==
  LET Cells(k) == [i \in DOMAIN caches |-> caches[i].cells[k]]
  IN [NewCache(0, caches[1].config) EXCEPT !.cells =
        [k \in CacheKey |->
           [entries |-> Top(UNION {Cells(k)[i].entries : i \in DOMAIN caches}),
            seen |-> SumFunction([i \in DOMAIN caches |-> Cells(k)[i].seen])]]]
=============================================================================
