----------------------------- MODULE CausalOrder -----------------------------
(***************************************************************************)
(* The graph algorithms of the saga planner, over every small multigraph   *)
(* of links.  The validator of CausalEffectGraph peels nodes off in the    *)
(* order of a queue filled from a set (any order here) and measures the    *)
(* depth; topo_manifest_hashes peels them off in sorted order to get the   *)
(* steps of a plan; ancestors_of walks the parents.  Nodes are numbers:    *)
(* their order is that of the hashes.  Links are counted: two links with   *)
(* different ids may join the same two nodes.                              *)
(***************************************************************************)
EXTENDS Integers, Sequences, FiniteSetsExt, Functions

CONSTANTS
    N,              \* number of nodes
    Pairs,          \* <<parent, child>> that may be linked
    Parallel,       \* <<parent, child>> that may have a second link
    MaxDepth,       \* MAX_GRAPH_DEPTH
    MaxNodes,       \* MAX_GRAPH_NODES
    MaxSteps        \* MAX_SAGA_STEPS, the same number in the code

Nodes == 1..N

ASSUME OrderAssumption ==
    /\ N \in Nat \ {0} /\ {MaxDepth, MaxNodes, MaxSteps} \subseteq Nat
    /\ MaxNodes <= MaxSteps
    /\ Pairs \subseteq Nodes \X Nodes /\ Parallel \subseteq Nodes \X Nodes

VARIABLES
    links,      \* <<parent, child>> -> number of links
    phase,      \* where the planner is
    indegree,   \* node -> links from parents that are not peeled off
    work,       \* nodes waiting to be peeled off or walked from
    depths,     \* node -> depth known so far
    seen,       \* nodes peeled off or walked from
    ordered,    \* the plan so far
    about       \* the node whose ancestors are asked for

plannerVars == <<links, phase, indegree, work, depths, seen, ordered, about>>

PlannerTypeOK ==
    /\ links \in [Nodes \X Nodes -> Nat]
    /\ phase \in {"new", "rejected", "validating", "valid", "ordering", "unordered",
                  "planned", "walking", "done"}
    /\ indegree \in [Nodes -> Nat]
    /\ work \subseteq Nodes /\ seen \subseteq Nodes /\ about \in Nodes
    /\ depths \in [Nodes -> Nodes]
    /\ ordered \in Seq(Nodes)

Count(e, s) == IF e \in s THEN 1 ELSE 0

PlannerInit ==
    /\ \E first \in SUBSET Pairs, second \in SUBSET Parallel :
          links = [e \in Nodes \X Nodes |-> Count(e, first) + Count(e, second)]
    /\ phase = "new"
    /\ indegree = [n \in Nodes |-> 0]
    /\ work = {} /\ seen = {} /\ about = 1
    /\ depths = [n \in Nodes |-> 1]
    /\ ordered = <<>>

-----------------------------------------------------------------------------
Parents(n) == {p \in Nodes : links[<<p, n>>] > 0}
Children(n) == {c \in Nodes : links[<<n, c>>] > 0}
InDegree(n) == SumFunctionOnSet([p \in Nodes |-> links[<<p, n>>]], Nodes)
Roots == {n \in Nodes : InDegree(n) = 0}

\* The start of both peelings
StartPeeling ==
    /\ indegree' = [n \in Nodes |-> InDegree(n)]
    /\ work' = Roots
    /\ seen' = {}

\* Taking node n off: its children lose one count for each of their links to n.
PeelOnce(n) ==     \* mutant: parallel links are counted once
    LET left == [c \in Nodes |-> indegree[c] - (IF links[<<n, c>>] > 0 THEN 1 ELSE 0)] IN
    /\ indegree' = left
    /\ work' = (work \ {n}) \cup {c \in Children(n) : left[c] = 0}
    /\ seen' = seen \cup {n}
Peel(n) ==
    LET left == [c \in Nodes |-> indegree[c] - links[<<n, c>>]] IN
    /\ indegree' = left
    /\ work' = (work \ {n}) \cup {c \in Children(n) : left[c] = 0}
    /\ seen' = seen \cup {n}

\* _nodes and the start of _validate_dag
BuildGraph ==
    /\ phase = "new"
    /\ IF N > MaxNodes \/ \E n \in Nodes : links[<<n, n>>] > 0
       THEN phase' = "rejected" /\ UNCHANGED <<indegree, work, seen>>
       ELSE phase' = "validating" /\ StartPeeling
    /\ UNCHANGED <<links, depths, ordered, about>>

Deepen(n) ==
    [c \in Nodes |-> IF c \in Children(n) THEN Max({depths[c], depths[n] + 1}) ELSE depths[c]]

Visit(n) ==
    /\ phase = "validating"
    /\ n \in work
    /\ Peel(n)
    /\ depths' = Deepen(n)
    /\ UNCHANGED <<links, phase, ordered, about>>

Accept == seen = Nodes /\ Max({depths[n] : n \in seen}) <= MaxDepth

Validate ==
    /\ phase = "validating"
    /\ work = {}
    /\ phase' = IF Accept THEN "valid" ELSE "rejected"
    /\ UNCHANGED <<links, indegree, work, depths, seen, ordered, about>>

\* topo_manifest_hashes
StartOrder ==
    /\ phase = "valid"
    /\ IF N > MaxSteps
       THEN phase' = "unordered" /\ UNCHANGED <<indegree, work, seen>>
       ELSE phase' = "ordering" /\ StartPeeling
    /\ UNCHANGED <<links, depths, ordered, about>>

LastReady == Max(work)     \* mutant: ties are broken the other way
First == Min(work)

TakeFirst ==
    /\ phase = "ordering"
    /\ work # {}
    /\ Peel(First)
    /\ ordered' = Append(ordered, First)
    /\ UNCHANGED <<links, phase, depths, about>>

EndOrder ==
    /\ phase = "ordering"
    /\ work = {}
    /\ phase' = IF Len(ordered) = N THEN "planned" ELSE "unordered"
    /\ UNCHANGED <<links, indegree, work, depths, seen, ordered, about>>

\* ancestors_of
AncestorsOf(n) ==
    /\ phase = "planned"
    /\ phase' = "walking"
    /\ about' = n
    /\ work' = Parents(n)
    /\ seen' = {}
    /\ UNCHANGED <<links, indegree, depths, ordered>>

WalkOneLevel(n) ==     \* mutant: grandparents are not walked from
    /\ phase = "walking"
    /\ n \in work
    /\ seen' = seen \cup {n}
    /\ work' = work \ {n}
    /\ UNCHANGED <<links, phase, indegree, depths, ordered, about>>
Walk(n) ==
    /\ phase = "walking"
    /\ n \in work
    /\ seen' = seen \cup {n}
    /\ work' = (work \cup Parents(n)) \ (seen \cup {n})
    /\ UNCHANGED <<links, phase, indegree, depths, ordered, about>>

EndWalk ==
    /\ phase = "walking"
    /\ work = {}
    /\ phase' = "done"
    /\ UNCHANGED <<links, indegree, work, depths, seen, ordered, about>>

PlannerNext ==
    \/ BuildGraph \/ Validate \/ StartOrder \/ TakeFirst \/ EndOrder \/ EndWalk
    \/ \E n \in Nodes : Visit(n) \/ AncestorsOf(n) \/ Walk(n)

PlannerSpec == PlannerInit /\ [][PlannerNext]_plannerVars

-----------------------------------------------------------------------------
(* Reference definitions: no queues and no counters.                       *)

\* Every order of the nodes in which parents come before their children
Orders ==
    {o \in Injection(Nodes, Nodes) :
        \A i, j \in Nodes : links[<<o[i], o[j]>>] > 0 => i < j}

\* The paths of k nodes, and the number of nodes of the longest path
Paths(k) == {p \in [1..k -> Nodes] : \A i \in 1..(k - 1) : links[<<p[i], p[i + 1]>>] > 0}
Depth == Max({k \in Nodes : Paths(k) # {}})

Precedes(o, q) == \E i \in Nodes : o[i] < q[i] /\ \A j \in 1..(i - 1) : o[j] = q[j]

-----------------------------------------------------------------------------
\* The validator accepts exactly the acyclic graphs within the limits on nodes
\* and depth, and its answer does not depend on how the queue is filled.
AcceptsExactlyDags ==
    /\ phase = "rejected" => Orders = {} \/ Depth > MaxDepth \/ N > MaxNodes
    /\ phase = "valid" => Orders # {} /\ Depth <= MaxDepth /\ N <= MaxNodes

\* A graph that was accepted always has a plan: SagaOrderingError is not raised.
\* The plan is a topological order, the least one: it depends on the graph only.
PlanIsLeastOrder ==
    /\ phase # "unordered"
    /\ phase = "planned" =>
          /\ ordered \in Orders
          /\ \A o \in Orders : o = ordered \/ Precedes(ordered, o)

\* ancestors_of finds exactly the nodes from which a path leads to the node.
AncestorsAreTransitive ==
    phase = "done" =>
        seen = {n \in Nodes : \E k \in 2..N : \E p \in Paths(k) : p[1] = n /\ p[k] = about}
=============================================================================
