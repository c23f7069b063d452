-------------------------- MODULE MCPolicyRuntime --------------------------
(* Instance of PolicyRuntime for TLC.                                       *)
EXTENDS PolicyRuntime

CONSTANTS a, b \* two layouts

\* Two records that fit but for their layout, a wrong schedule, and models that
\* make too few or too many calls.
Records ==
  {[steps |-> N, makes |-> N, layout |-> a], [steps |-> N, makes |-> N, layout |-> b],
   [steps |-> N + 1, makes |-> N + 1, layout |-> a],
   [steps |-> N, makes |-> N - 1, layout |-> a], [steps |-> N, makes |-> N + 1, layout |-> a]}
=============================================================================
