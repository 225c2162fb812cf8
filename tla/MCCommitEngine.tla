--------------------------- MODULE MCCommitEngine ---------------------------
(***************************************************************************)
(* Instances of CommitEngine for TLC: two manifests that share one         *)
(* idempotency key (a client that retries the whole pipeline), one process *)
(* with two threads or two processes with one thread each.                 *)
(***************************************************************************)
EXTENDS CommitEngine, TLC

CONSTANTS e1, e2, w1, w2, m1, m2, g1, g2, k1

OneProcess == w1 :> e1 @@ w2 :> e1
TwoProcesses == w1 :> e1 @@ w2 :> e2

SharedKey == m1 :> k1 @@ m2 :> k1
OneKey == m1 :> k1
GrantEach == g1 :> m1 @@ g2 :> m2
TwoGrants == g1 :> m1 @@ g2 :> m1
UsesEach == g1 :> 1 @@ g2 :> 2
CostEach == m1 :> 1 @@ m2 :> 2
CostOne == m1 :> 1
SingleUse == g1 :> 1 @@ g2 :> 1
Both == {g1, g2}

\* The two processes (each with its thread) and the two grants are interchangeable.
SwapProcesses == e1 :> e2 @@ e2 :> e1 @@ w1 :> w2 @@ w2 :> w1
SwapGrants == g1 :> g2 @@ g2 :> g1
Symmetry == {SwapProcesses, SwapGrants, SwapProcesses @@ SwapGrants}
=============================================================================
