--------------------------- MODULE MCCommandLine ---------------------------
(***************************************************************************)
(* Instances of CommandLine for TLC: one workspace, a few manifests and    *)
(* grants, and processes that run at the same time.                        *)
(***************************************************************************)
EXTENDS CommandLine, TLC

CONSTANTS p1, p2, p3, m1, m2, g1, g2, a1

\* Processes and grants are interchangeable; manifests are too.
Symmetry == Permutations(Procs) \cup Permutations(Grants)
=============================================================================
