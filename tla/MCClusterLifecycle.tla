------------------------- MODULE MCClusterLifecycle -------------------------
(***************************************************************************)
(* ClusterLifecycle on small instances.  Cluster ids and pool lists are    *)
(* only ever compared for equality, so safety runs take them as symmetric; *)
(* the liveness runs do not.                                               *)
(***************************************************************************)
EXTENDS LifecycleTracking, TLC

Symmetry == Permutations(ClusterIds) \cup Permutations(Pools)
=============================================================================
