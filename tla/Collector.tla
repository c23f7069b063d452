----------------------------- MODULE Collector -----------------------------
(***************************************************************************)
(* What one process of scripts/sensitivity_worker.py does with the hooks   *)
(* of lib/sensitivity.py and lib/cache.py: it runs, for each observation   *)
(* and each probe, a denoising trajectory forward, capturing what every    *)
(* Linear is given in every call, and backward, scoring each call when its *)
(* gradient arrives; the first probe also feeds the activation cache.      *)
(* The process may die at any moment; the next one resumes from progress.  *)
(* The shards of the observations, each with a directory and a seed of its *)
(* own, are collected one after the other and merged                       *)
(* (scripts/merge_artifacts.py).                                           *)
(*                                                                         *)
(* The model is external: setting.feed says where each Linear's input      *)
(* comes from, and when old tensors are freed is open, so that a new one   *)
(* may get the id of a freed one.  Contents are abstracted to their origin: *)
(* <<o, p>> is what the model writes at position p of a trajectory of      *)
(* observation o, the same in every probe.  A score is abstracted to what  *)
(* it is computed from.  Saves are one step (see SensitivityWorker).       *)
(***************************************************************************)
EXTENDS Integers, Sequences, FiniteSets, FiniteSetsExt, SequencesExt

CONSTANTS Site,         \* Site[s]: what the Linear s is, in the order they run
          StreamConfig,
          NumCalls, NumProbes, MaxRows,
          Reached,      \* the <<site, call>> the final action depends on
          Id,           \* what id() may return
          Shard,        \* Shard[h]: the observations of a shard, in order
          Seed,         \* Seed[h]: its --seed
          Random(_, _),
          Setting,      \* see `setting`
          MinBytes, MaxPinned,
          None

SiteIndex == DOMAIN Site
Call == 0 .. NumCalls - 1
Key == SiteIndex \X Call
Position == 1 .. NumCalls * Len(Site)
Probe == 1 .. NumProbes
Observation == UNION {{Shard[h][n] : n \in DOMAIN Shard[h]} : h \in DOMAIN Shard}

INSTANCE Streams
Layout(s) == ResolveStreamLayout(Site[s], StreamConfig)
Cell == UNION {{<<k[1], k[2], i>> : i \in DOMAIN Layout(k[1])} : k \in Key}
CellsOf(s) == {c \in Cell : c[1] = s}
INSTANCE ActivationCache WITH CacheKey <- Cell
INSTANCE SensitivityField

SiteAt(p) == ((p - 1) % Len(Site)) + 1
CallAt(p) == (p - 1) \div Len(Site)
PositionOf(k) == k[2] * Len(Site) + k[1]

\* Rows that a trajectory feeds to the cache before position p, and in all.
RowsBefore(p) == SumFunction([q \in 1 .. p - 1 |-> Site[SiteAt(q)].tokens])
RowsInAll == RowsBefore(NumCalls * Len(Site) + 1)

\* The tensor before site s belongs to the layer, and is not the context.
Writable(feed, s) ==
  \E r \in 1 .. s - 1 : /\ feed[r] \in {"new", "written"}
                       /\ \A q \in r + 1 .. s - 1 : feed[q] = "same"

\* An observation stands for its place in a list: no other place has it, even
\* if the same file is listed there.  A priority is a number.
ASSUME CollectorAssumption ==
  /\ Len(Site) \in Nat \ {0} /\ SiteIndex = 1 .. Len(Site)
  /\ NumCalls \in Nat \ {0} /\ NumProbes \in Nat \ {0} /\ MaxRows \in Nat \ {0}
  /\ \A s \in SiteIndex : /\ Layout(s) # Rejected
                          /\ Site[s].tokens \in Nat /\ Site[s].bytes \in Nat
  /\ StreamConfig \in [frames : Nat, chunks : Nat, proprio : Nat, split : BOOLEAN]
  /\ MaxPinned \in Nat
  /\ Shard \in Seq(Seq(Observation)) /\ Shard # <<>>
  /\ \A h, g \in DOMAIN Shard : \A n \in DOMAIN Shard[h], m \in DOMAIN Shard[g] :
       Shard[h][n] = Shard[g][m] => h = g /\ n = m
  /\ \A h \in DOMAIN Shard : \A n \in 1 .. Len(Shard[h]) * RowsInAll :
       Random(Seed[h], n) \in Int
  /\ Reached \subseteq Key
  /\ \A e \in Setting :
       /\ e.optimized \in BOOLEAN /\ e.pinned \in BOOLEAN
       /\ e.feed \in [SiteIndex -> {"new", "same", "written", "context"}]
       /\ DOMAIN e.config = DOMAIN Shard
       /\ \A s \in SiteIndex : e.feed[s] = "written" => Writable(e.feed, s)
  /\ None \notin Call \cup (Observation \X (Position \cup {0}))

VARIABLES
  setting,  \* --optimized, --async-offload, the model, the rotation of each shard
  shard,    \* the shard being collected
  pc,
  done,     \* finished observations of the shard
  probe, at, \* the probe, and the position of the Linear that runs next
  call,     \* DenoiseCallState
  tensors,  \* tensors[i]: the live tensor of that id
  input,    \* the id of the tensor the next Linear is given
  offloads, \* _input_offloads
  captures, \* _captures
  hooks,    \* the outputs of this trajectory that have a backward hook
  feeding,  \* who feeds the cache: a pre-hook, the capture, or none
  saved,    \* saved[p]: where the saved tensor of position p is kept
  activeBytes,
  sums, deviceSums, \* _sum_squares, _device_sum_squares: a dict of the keys scored
  accumulator, cache,
  progress, \* progress.pt
  published, \* the artifacts of the finished shards
  merged

hooked == <<captures, hooks, feeding, offloads>>
offloading == <<saved, activeBytes>>
scores == <<sums, deviceSums>>
model == <<call, tensors, input>>
collected == <<accumulator, cache>>
disk == <<progress, published, merged>>
vars == <<setting, shard, pc, done, probe, at, model, hooked, offloading, scores,
          collected, disk>>

Current == Shard[shard][done + 1]
NoTensor == [i \in Id |-> None]
NoCapture == [k \in Key |-> None]
NoSums == [k \in {} |-> <<>>]
NothingSaved == [p \in Position |-> "none"]
Memory == {"device", "host", "pinned"}

\* Where the content of the Linear's input at position p was written; 0 stands
\* for the context, which exists before the denoising loop.
HowFed(p) == IF p = 1 /\ setting.feed[1] # "context" THEN "new" ELSE setting.feed[SiteAt(p)]
LastFed(p) ==
  {q \in 1 .. p : HowFed(q) # "same" /\ \A r \in q + 1 .. p : HowFed(r) = "same"}
Origin(p) ==
  LET q == CHOOSE q \in LastFed(p) : TRUE
  IN IF HowFed(q) = "context" THEN 0 ELSE q
Content(o, p) == <<o, Origin(p)>>

Init ==
  /\ setting \in Setting
  /\ shard = 1 /\ pc = "open" /\ done = 0
  /\ probe = 1 /\ at = 1 /\ call = None /\ tensors = NoTensor /\ input = None
  /\ captures = NoCapture /\ hooks = {} /\ feeding = "none" /\ offloads = NoTensor
  /\ saved = NothingSaved /\ activeBytes = 0
  /\ sums = [c \in Cell |-> <<>>] /\ deviceSums = NoSums
  /\ accumulator = NewAccumulator /\ cache = NewCache(Seed[1], setting.config[1])
  /\ progress = None /\ published = <<>> /\ merged = None

-----------------------------------------------------------------------------
\* A process starts, with what the last one committed or with nothing.
Open ==
  /\ pc = "open" /\ pc' = "observe"
  /\ IF progress # None
     THEN /\ done' = progress.completed
          /\ cache' = FromStateDict(progress.cache)
          /\ accumulator' = progress.accumulator
     ELSE /\ done' = 0
          /\ cache' = NewCache(Seed[shard], setting.config[shard])
          /\ accumulator' = NewAccumulator
  /\ UNCHANGED <<setting, shard, probe, at, model, hooked, offloading, scores, disk>>

\* reset_observation.  A snapshot may already hold every observation.
ResetObservation ==
  /\ pc = "observe" /\ done < Len(Shard[shard]) /\ pc' = "probe"
  /\ sums' = [c \in Cell |-> <<>>] /\ deviceSums' = NoSums
  /\ captures' = NoCapture /\ offloads' = NoTensor /\ feeding' = "none"
  /\ probe' = 1
  /\ UNCHANGED <<setting, shard, done, at, model, hooks, offloading, collected, disk>>

\* begin_probe, the inputs of the trajectory, and who feeds the cache in it.
BeginProbe ==
  /\ pc = "probe" /\ pc' = "input" /\ at' = 1
  /\ captures' = NoCapture /\ offloads' = NoTensor
  /\ feeding' = IF probe > 1 THEN "none"
                ELSE IF setting.optimized THEN "capture" ELSE "prehook"
  /\ \E i \in Id : tensors' = [NoTensor EXCEPT ![i] =
                     [object |-> <<done, probe, 0>>, version |-> 0, content |-> <<Current, 0>>]]
  /\ UNCHANGED <<setting, shard, done, probe, call, input, hooks, offloading, scores,
                 collected, disk>>

\* The denoising loop sets its call at the first Linear; then the model makes
\* the input of the next one: a tensor of its own, for which others may have
\* been freed, the one before, as it is or written to in place, or the context.
IsContext(i) == tensors[i] # None /\ tensors[i].content = <<Current, 0>>
NextInput ==
  /\ pc = "input" /\ pc' = "linear" /\ CallAt(at) \in Call
  /\ call' = IF SiteAt(at) = 1 THEN CallAt(at) ELSE call
  /\ \/ /\ HowFed(at) = "new"
        /\ \E kept \in SUBSET {i \in Id : tensors[i] # None} :
             /\ {i \in Id : IsContext(i)} \subseteq kept
             /\ \E i \in Id \ kept :
                  /\ input' = i
                  /\ tensors' = [j \in Id |->
                       IF j = i THEN [object |-> <<done, probe, at>>, version |-> 0,
                                      content |-> <<Current, at>>]
                       ELSE IF j \in kept THEN tensors[j] ELSE None]
     \/ /\ HowFed(at) = "same"
        /\ UNCHANGED <<tensors, input>>
     \/ /\ HowFed(at) = "written"
        /\ tensors' = [tensors EXCEPT ![input] =
             [object |-> @.object, version |-> @.version + 1, content |-> <<Current, at>>]]
        /\ UNCHANGED input
     \/ /\ HowFed(at) = "context"
        /\ \E i \in Id : IsContext(i) /\ input' = i
        /\ UNCHANGED tensors
  /\ UNCHANGED <<setting, shard, done, probe, at, hooked, offloading, scores, collected, disk>>

\* Mistake: takes any tensor of the same id and version for the same tensor.
OffloadedById(i) ==
  /\ offloads[i] # None
  /\ offloads[i].version = tensors[i].version

\* A host copy of this very tensor, not written to since, is there.
Offloaded(i) ==
  /\ offloads[i] # None
  /\ offloads[i].object = tensors[i].object
  /\ offloads[i].version = tensors[i].version

OffloadInput(i) ==
  IF setting.optimized /\ Offloaded(i) THEN offloads[i].host ELSE tensors[i].content

\* The rows of content x at site s, fed stream by stream.
FeedCache(s, c, x) ==
  LET fed[i \in 0 .. Len(Layout(s))] ==
        IF i = 0 THEN cache
        ELSE Add(fed[i - 1], <<s, c, i>>,
                 [n \in 1 .. Layout(s)[i].tokens |-> <<x, TokensUpto(Layout(s), i - 1) + n>>])
  IN fed[Len(Layout(s))]

\* Mistake: asks whether the budget is used up, not whether the tensor fits.
PackedUntilFull(s) ==
  IF Site[s].parameter \/ Site[s].bytes < MinBytes THEN "device"
  ELSE IF ~setting.pinned \/ activeBytes > MaxPinned THEN "host"
  ELSE "pinned"

\* Where pack keeps the tensor saved by site s.
Packed(s) ==
  IF Site[s].parameter \/ Site[s].bytes < MinBytes THEN "device"
  ELSE IF ~setting.pinned \/ activeBytes + Site[s].bytes > MaxPinned THEN "host"
  ELSE "pinned"

\* A Linear runs: what it saves is packed, and its hooks capture its input.
\* Running twice in a call is an error, and no step.
LinearRuns ==
  LET s == SiteAt(at)
      x == tensors[input].content
      host == OffloadInput(input)
  IN /\ pc = "linear"
     /\ call # None /\ captures[<<s, call>>] = None
     /\ captures' = [captures EXCEPT ![<<s, call>>] = host]
     /\ offloads' = IF setting.optimized
                    THEN [offloads EXCEPT ![input] =
                            [object |-> tensors[input].object,
                             version |-> tensors[input].version, host |-> host]]
                    ELSE offloads
     /\ cache' = CASE feeding = "prehook" -> FeedCache(s, call, x)
                   [] feeding = "capture" -> FeedCache(s, call, host)
                   [] OTHER -> cache
     /\ hooks' = hooks \cup {<<s, call>>}
     /\ saved' = [saved EXCEPT ![at] = Packed(s)]
     /\ activeBytes' = IF Packed(s) = "pinned" THEN activeBytes + Site[s].bytes
                       ELSE activeBytes
     /\ at' = at + 1
     /\ pc' = IF at + 1 \in Position THEN "input" ELSE "check"
     /\ UNCHANGED <<setting, shard, done, probe, model, feeding, scores, accumulator, disk>>

\* The loop clears its call, the worker takes its pre-hooks out, and
\* validate_forward looks for captures that are missing.
EndForward ==
  /\ pc = "check" /\ pc' = "backward"
  /\ \A k \in Key : captures[k] # None
  /\ call' = None /\ feeding' = "none" /\ offloads' = NoTensor
  /\ UNCHANGED <<setting, shard, done, probe, at, tensors, input, captures, hooks,
                 offloading, scores, collected, disk>>

PinnedBytes(P) ==
  SumFunction([p \in P |-> IF saved[p] = "pinned" THEN Site[SiteAt(p)].bytes ELSE 0])

\* What is saved for the positions P is dropped (_PinnedTensor.__del__).
Release(P) == activeBytes' = activeBytes - PinnedBytes(P)

Impact(cell, r, x) == [cell |-> cell, probe |-> r, input |-> x]

\* The gradient of the output of k arrives: its saved tensor is unpacked and
\* given up, its capture scored and given up.  The order is autograd's.
BackwardHook(k) ==
  LET squares == [i \in DOMAIN Layout(k[1]) |->
                    Impact(<<k[1], k[2], i>>, probe, captures[k])]
  IN /\ pc = "backward" /\ k \in hooks \cap Reached
     /\ captures[k] # None
     /\ captures' = [captures EXCEPT ![k] = None]
     /\ hooks' = hooks \ {k}
     /\ Release({PositionOf(k)})
     /\ saved' = [saved EXCEPT ![PositionOf(k)] = "none"]
     /\ IF setting.optimized
        THEN /\ deviceSums' = [l \in DOMAIN deviceSums \cup {k} |->
                  IF l # k THEN deviceSums[l]
                  ELSE [i \in DOMAIN squares |->
                          IF k \in DOMAIN deviceSums THEN Append(deviceSums[k][i], squares[i])
                          ELSE <<squares[i]>>]]
             /\ UNCHANGED sums
        ELSE /\ sums' = [c \in Cell |-> IF <<c[1], c[2]>> = k
                                        THEN Append(sums[c], squares[c[3]]) ELSE sums[c]]
             /\ UNCHANGED deviceSums
     /\ UNCHANGED <<setting, shard, pc, done, probe, at, model, feeding, offloads,
                    collected, disk>>

\* Mistake: counts the probes from zero to their number.
ProbesInclusive == probe <= NumProbes

MoreProbes == probe < NumProbes

\* No more gradients: the graph goes, with all that is still saved in it.
EndBackward ==
  /\ pc = "backward" /\ hooks \cap Reached = {}
  /\ hooks' = {}
  /\ Release(Position) /\ saved' = NothingSaved
  /\ tensors' = NoTensor /\ input' = None
  /\ IF MoreProbes THEN probe' = probe + 1 /\ pc' = "probe"
     ELSE UNCHANGED probe /\ pc' = "finish"
  /\ UNCHANGED <<setting, shard, done, at, call, captures, feeding, offloads, scores,
                 collected, disk>>

\* Device sums come to the host in one piece, and are told apart by offset.
Before(k, l) == k[1] < l[1] \/ (k[1] = l[1] /\ k[2] < l[2])
Rank(k, keys) == Cardinality({l \in keys : Before(l, k)}) + 1
Sorted(keys) == [n \in 1 .. Cardinality(keys) |-> CHOOSE k \in keys : Rank(k, keys) = n]
ScoredKeys == Sorted(DOMAIN deviceSums)

\* Mistake: one value for each key.
OffsetByKey(keys, n) == n - 1

Offset(keys, n) == SumFunction([m \in 1 .. n - 1 |-> Len(Layout(keys[m][1]))])

FinalSums ==
  LET keys == ScoredKeys
      flat == FlattenSeq([n \in DOMAIN keys |-> deviceSums[keys[n]]])
  IN [c \in Cell |->
        IF <<c[1], c[2]>> \notin DOMAIN deviceSums THEN sums[c]
        ELSE flat[Offset(keys, CHOOSE n \in DOMAIN keys : keys[n] = <<c[1], c[2]>>) + c[3]]]

\* finish_observation; the accumulator adds what it returns, site by site.
FinishObservation ==
  /\ pc = "finish" /\ pc' = "commit"
  /\ accumulator' =
       AddObservation(accumulator, [s \in SiteIndex |-> [c \in CellsOf(s) |-> FinalSums[c]]])
  /\ done' = done + 1
  /\ UNCHANGED <<setting, shard, probe, at, model, hooked, offloading, scores, cache, disk>>

\* Whether a snapshot is due is up to the command line and the memory pressure.
Commit ==
  /\ pc = "commit"
  /\ pc' = "observe"
  /\ \/ progress' = [completed |-> done, cache |-> StateDict(cache),
                     accumulator |-> accumulator]
     \/ UNCHANGED progress
  /\ UNCHANGED <<setting, shard, done, probe, at, model, hooked, offloading, scores,
                 collected, published, merged>>

\* The final saves of a shard.  The next shard has its own directory.
Publish ==
  /\ pc = "observe" /\ done = Len(Shard[shard])
  /\ LET field == Finalize(accumulator, cache.config)
     IN /\ ValidField(field)
        /\ published' = Append(published, [field |-> field, cache |-> StateDict(cache)])
  /\ progress' = None /\ done' = 0
  /\ IF shard < Len(Shard)
     THEN /\ shard' = shard + 1 /\ pc' = "open"
          /\ accumulator' = NewAccumulator
          /\ cache' = NewCache(Seed[shard + 1], setting.config[shard + 1])
     ELSE pc' = "merge" /\ UNCHANGED <<shard, collected>>
  /\ UNCHANGED <<setting, probe, at, model, hooked, offloading, scores, merged>>

\* merge_artifacts.py; shards of different rotations are refused.
MergeArtifacts ==
  LET fields == [h \in DOMAIN published |-> published[h].field]
      caches == [h \in DOMAIN published |-> FromStateDict(published[h].cache)]
  IN /\ pc = "merge" /\ pc' = "over"
     /\ \/ /\ FieldsMergeable(fields) /\ Mergeable(caches)
           /\ merged' = [field |-> MergeFields(fields), cache |-> Merge(caches)]
        \/ /\ ~(FieldsMergeable(fields) /\ Mergeable(caches))
           /\ UNCHANGED merged
     /\ UNCHANGED <<setting, shard, done, probe, at, model, hooked, offloading, scores,
                    collected, progress, published>>

\* The process is killed, or an exception ends it: its memory is gone.
Crash ==
  /\ pc \notin {"open", "merge", "over"} /\ pc' = "open"
  /\ probe' = 1 /\ at' = 1 /\ call' = None /\ tensors' = NoTensor /\ input' = None
  /\ captures' = NoCapture /\ hooks' = {} /\ feeding' = "none" /\ offloads' = NoTensor
  /\ saved' = NothingSaved /\ activeBytes' = 0
  /\ sums' = [c \in Cell |-> <<>>] /\ deviceSums' = NoSums
  /\ done' = 0 /\ accumulator' = NewAccumulator
  /\ cache' = NewCache(Seed[shard], setting.config[shard])
  /\ UNCHANGED <<setting, shard, disk>>

Over == pc = "over" /\ UNCHANGED vars

Next ==
  \/ Open \/ ResetObservation \/ BeginProbe \/ NextInput \/ LinearRuns \/ EndForward
  \/ \E k \in Key : BackwardHook(k)
  \/ EndBackward \/ FinishObservation \/ Commit \/ Publish \/ MergeArtifacts
  \/ Crash \/ Over

Spec == Init /\ [][Next]_vars

-----------------------------------------------------------------------------
\* Every variable has its type.
TypeOK ==
  /\ setting \in Setting
  /\ shard \in DOMAIN Shard
  /\ pc \in {"open", "observe", "probe", "input", "linear", "check", "backward",
             "finish", "commit", "merge", "over"}
  /\ done \in 0 .. Len(Shard[shard]) /\ probe \in Probe
  /\ at \in 1 .. NumCalls * Len(Site) + 1
  /\ call \in Call \cup {None}
  /\ input \in Id \cup {None} /\ DOMAIN tensors = Id /\ DOMAIN offloads = Id
  /\ captures \in [Key -> (Observation \X (Position \cup {0})) \cup {None}]
  /\ hooks \subseteq Key
  /\ feeding \in {"none", "prehook", "capture"}
  /\ saved \in [Position -> Memory \cup {"none"}]
  /\ activeBytes \in Nat

\* A capture is what its Linear was given in its call, although inputs are
\* shared between sites and calls, are written to in place, and are freed so
\* that others get their ids (_offload_input, _forward_hook).
CapturesFaithful ==
  pc \in {"input", "linear", "check", "backward"} =>
    \A k \in Key : captures[k] # None => captures[k] = Content(Current, PositionOf(k))

\* estimate_action_sensitivity, what the lazy collector has to agree with: each
\* call of each site scores its own input once in each probe, in their order.
\* Where no gradient arrives, the score is zero.
Reference(o, s) ==
  [cell \in CellsOf(s) |->
     IF <<s, cell[2]>> \notin Reached THEN <<>>
     ELSE [r \in Probe |-> Impact(cell, r, Content(o, PositionOf(<<s, cell[2]>>)))]]

ScoresAre(sites, seen) ==
  \A s \in SiteIndex :
    sites[s] = [terms |-> {Reference(o, s) : o \in seen}, count |-> Cardinality(seen)]

Upto(h, n) == {Shard[h][m] : m \in 1 .. n}

\* The statistics are those of the reference, each observation counting once,
\* in memory, in a snapshot, in what is published and in what is merged.
MatchesReference ==
  /\ pc # "open" => ScoresAre(accumulator, Upto(shard, IF pc \in {"merge", "over"}
                                               THEN Len(Shard[shard]) ELSE done))
  /\ progress # None => ScoresAre(progress.accumulator, Upto(shard, progress.completed))
  /\ \A h \in DOMAIN published :
       ScoresAre(published[h].field.sites, Upto(h, Len(Shard[h])))
  /\ merged # None => ScoresAre(merged.field.sites, Observation)

\* The rows of cell c that the first n observations of shard h give it, with
\* the priorities one uninterrupted generator draws for them.
RowsOf(h, c, n) ==
  LET p == PositionOf(c)
      Entry(m, t) ==
        [row |-> <<Content(Shard[h][m], p), t>>,
         priority |-> Random(Seed[h], (m - 1) * RowsInAll + RowsBefore(p) + t)]
  IN {Entry(m, t) : m \in 1 .. n, t \in Slice(Layout(c[1]), c[3])}

IsReservoir(cell, rows) == IsTop(cell.entries, rows) /\ cell.seen = Cardinality(rows)

\* The observation in progress has fed position p in its first probe.
HasFed(p) ==
  \/ pc \in {"input", "linear"} /\ (probe > 1 \/ p < at)
  \/ pc = "probe" /\ probe > 1
  \/ pc \in {"check", "backward", "finish"}

\* A reservoir keeps the rows of highest priority of all rows ever fed, with
\* the priorities of a run without interruptions, after a resume and after a
\* merge as well (ActivationCache.add, from_state_dict, merge).
ReservoirUninterrupted ==
  /\ pc \notin {"open", "merge", "over"} =>
       \A c \in Cell :
         IsReservoir(cache.cells[c],
                     RowsOf(shard, c, IF HasFed(PositionOf(c)) THEN done + 1 ELSE done))
  /\ merged # None =>
       \A c \in Cell :
         IsReservoir(merged.cache.cells[c],
                     UNION {RowsOf(h, c, Len(Shard[h])) : h \in DOMAIN Shard})

\* The budget of pinned memory is kept, and counts exactly what is pinned: all
\* of it comes back, also from parts of the graph no gradient reaches
\* (BoundedSavedTensorOffload, _PinnedTensor.__del__).
BudgetKept ==
  /\ activeBytes = PinnedBytes(Position)
  /\ activeBytes <= MaxPinned
  /\ pc \in {"probe", "finish", "commit", "observe"} => activeBytes = 0
=============================================================================
