----------------------------- MODULE MCQueryAPI -----------------------------
(* Model-checking instances of QueryAPI. *)
EXTENDS QueryAPI, TLC

GPUHostSymmetry == Permutations(GPUs) \cup Permutations(Hosts)

=============================================================================
