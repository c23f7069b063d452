------------------------------ MODULE Streams ------------------------------
(***************************************************************************)
(* lib/streams.py: the semantic streams of the tokens a Linear is given.   *)
(* A layout is the sequence of its streams, each with a name and a number  *)
(* of tokens; Rejected stands for a ValueError.                            *)
(***************************************************************************)
EXTENDS Integers, Sequences, FiniteSetsExt

Rejected == <<>>
Stream(name, tokens) == [name |-> name, tokens |-> tokens]

ValidConfig(config) ==
  config.frames > 0 /\ config.chunks > 0 /\ config.proprio >= 0

EqualGroups(prefix, length, groups) ==
  IF length % groups # 0 THEN Rejected
  ELSE [i \in 1 .. groups |-> Stream(<<prefix, i>>, length \div groups)]

ContextLayout(length, config) ==
  IF ~config.split \/ config.proprio = 0 THEN <<Stream(<<"context">>, length)>>
  ELSE <<Stream(<<"text">>, length - config.proprio),
         Stream(<<"proprio">>, config.proprio)>>

\* Tokens of the first n streams of a layout.
TokensUpto(layout, n) == SumFunction([i \in 1 .. n |-> layout[i].tokens])

ValidLayout(layout, length) ==
  /\ layout # Rejected
  /\ \A i \in DOMAIN layout : layout[i].tokens > 0
  /\ TokensUpto(layout, Len(layout)) = length

ResolveStreamLayout(site, config) ==
  LET layout == IF site.kind = "context" THEN ContextLayout(site.tokens, config)
                ELSE IF site.expert = "video"
                     THEN EqualGroups("latent_frame", site.tokens, config.frames)
                     ELSE EqualGroups("action_chunk", site.tokens, config.chunks)
  IN IF ValidConfig(config) /\ site.tokens > 0 /\ ValidLayout(layout, site.tokens)
     THEN layout ELSE Rejected

\* The tokens of stream i.
Slice(layout, i) ==
  TokensUpto(layout, i - 1) + 1 .. TokensUpto(layout, i)
=============================================================================
