----------------------------- MODULE MCService -----------------------------
(* A small server: two row effects and a compensation for TLC.             *)
EXTENDS Service, TLC

CONSTANTS m1, m2, c1, t1, t2, b1, b2, a1, a2, o1, o2, u1, u2, k1, k2, v1, v2

\* The owner's id of the second organization may be a user of the first.
Owner(o) == IF o = o1 THEN u1 ELSE u2

Symmetric ==
    Permutations(Threads) \cup Permutations(Forward) \cup Permutations(Comps)
    \cup Permutations(Approvers) \cup Permutations(Clients) \cup Permutations(Balances)
=============================================================================
