------------------------------- MODULE MCRecords -------------------------------
(***************************************************************************)
(* Records for TLC: two processes of this device, two terminals and the    *)
(* hooks of two subagents.                                                 *)
(***************************************************************************)
EXTENDS Records, TLC

CONSTANTS
  w1, w2, h1,    \* processes
  p1, p2,        \* terminals
  s1, s2         \* hooks of subagents

MCProcs  == {w1, w2}
MCPeople == {p1, p2}
MCHooks  == {h1}
MCSubs   == {s1, s2}

\* The processes are interchangeable, and so are the terminals.
Symmetry == Permutations(MCProcs) \cup Permutations(MCPeople)

=============================================================================
