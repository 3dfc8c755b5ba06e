-------------------------- MODULE MCLocalApprovals --------------------------
(* Small instances of LocalApprovals for TLC. *)
EXTENDS LocalApprovals, TLC

CONSTANTS c1, c2, f1, f2, h1, h2

\* Two calls with one fingerprint: identical calls made in parallel.
SameAction == [c \in {c1, c2} |-> f1]
\* A single call id.
OneCall == [c \in {c1} |-> f1]

\* Hooks are interchangeable, and so are identical calls.
Symmetry == Permutations({h1, h2}) \cup Permutations({c1, c2})
=============================================================================
