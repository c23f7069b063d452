---------------------------- MODULE MCCollector ----------------------------
(* Instances of Collector for TLC.                                          *)
EXTENDS Collector, TLC

CONSTANTS i1, i2, i3
Ids == Permutations({i1, i2, i3})

\* A context Linear with two streams, a video one with two, an action one with
\* one stream of two tokens.
Sites ==
  <<[kind |-> "context", expert |-> "video", tokens |-> 2, bytes |-> 2, parameter |-> FALSE],
    [kind |-> "self", expert |-> "video", tokens |-> 2, bytes |-> 1, parameter |-> FALSE],
    [kind |-> "self", expert |-> "action", tokens |-> 2, bytes |-> 3, parameter |-> FALSE]>>
TwoSites == SubSeq(Sites, 1, 2)

Config3 == [frames |-> 2, chunks |-> 1, proprio |-> 1, split |-> TRUE]

\* The video branch of the last call does not reach the action.
ReachedKeys == ((1 .. 3) \X Call) \ {<<2, NumCalls - 1>>}

Feeds ==
  {f \in [DOMAIN Site -> {"new", "same", "written", "context"}] :
     /\ f[1] \in {"new", "context"}
     /\ f[3] # "new"
     /\ \A s \in DOMAIN Site : f[s] = "written" => Writable(f, s)}

\* One rotation for both shards; or, once, two that cannot be merged.
Settings ==
  [optimized : BOOLEAN, pinned : BOOLEAN, feed : Feeds, config : {<<"none", "none">>}]
  \cup {[optimized |-> TRUE, pinned |-> TRUE, feed |-> <<"new", "same", "written">>,
         config |-> <<"none", "rht">>]}

Shards == <<<<1, 2>>, <<3>>>>
SameSeed == <<1, 1>>

\* Not in any order, with ties between draws.
Draw(seed, n) == (5 * n + 3 * seed) % 11
=============================================================================
