------------------------------- MODULE MCSaga -------------------------------
(***************************************************************************)
(* Instances of Saga for TLC: a plan of two or three steps, driven by one  *)
(* caller or by two.                                                       *)
(***************************************************************************)
EXTENDS Saga, TLC

CONSTANTS c1, c2

Symmetry == Permutations(Callers)
=============================================================================
