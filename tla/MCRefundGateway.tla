-------------------------- MODULE MCRefundGateway --------------------------
(* Small instances of RefundGateway for TLC. *)
EXTENDS RefundGateway, TLC

\* Threads and members are interchangeable.
Symmetric == Permutations(Threads) \cup Permutations(Members)
=============================================================================
