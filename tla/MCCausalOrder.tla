--------------------------- MODULE MCCausalOrder ---------------------------
(***************************************************************************)
(* An instance of CausalOrder for TLC: every graph of four nodes, with a   *)
(* second link between some of them and a link from a node to itself.      *)
(***************************************************************************)
EXTENDS CausalOrder

FourNodes == {e \in Nodes \X Nodes : e[1] # e[2]} \cup {<<2, 2>>}
SomePairs == {<<1, 2>>, <<2, 4>>, <<3, 1>>}
=============================================================================
