----------------------------- MODULE MCHostPolicy -----------------------------
(* Small instance of HostPolicy: hosts and sentinels are model values. *)
EXTENDS HostPolicy, TLC

Symmetry == Permutations(Hosts)
=============================================================================
