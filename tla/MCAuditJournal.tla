--------------------------- MODULE MCAuditJournal ---------------------------
(***************************************************************************)
(* An instance of AuditJournal for TLC: four threads of one process, or    *)
(* two threads in each of two processes, over each backend they may have.  *)
(***************************************************************************)
EXTENDS AuditJournal, TLC

CONSTANTS w1, w2, w3, w4, p1, p2, m1, m2

Together == [w \in {w1, w2, w3, w4} |-> p1]
Apart == [w \in {w1, w2, w3, w4} |-> IF w \in {w1, w2} THEN p1 ELSE p2]

AllDeployments ==
    {[backend |-> b, procOf |-> Together] : b \in {"memory", "sqlite", "redis"}}
        \cup {[backend |-> b, procOf |-> Apart] : b \in {"sqlite", "redis"}}

\* The threads of a process are interchangeable, and so are the manifests.
Symmetry ==
    {f @@ g @@ h : f \in Permutations({w1, w2}), g \in Permutations({w3, w4}),
                   h \in Permutations({m1, m2})}
=============================================================================
