-------------------------- MODULE LifecycleClaims --------------------------
(***************************************************************************)
(* What comments in the repository say of the lifecycle and the code does  *)
(* not do: each is checked by a run of its own that ends in a violation.   *)
(***************************************************************************)
EXTENDS MCClusterLifecycle

\* "create instance , if in retry logic skip call create api"
\* (controller/ack-cluster-config-handler.go:196): however often the creation
\* of a config is tried, the create API makes one cluster.
RetrySkipsCreate ==
  \A c, d \in ClusterIds :
    origin[c].uid = cr.uid /\ origin[d].uid = cr.uid => c = d

\* enqueueUpdate: "Otherwise, the phase is updated to "updating"."
\* (controller/ack-cluster-config-handler.go:274-276): after a batch that
\* changed something the stored phase says so.
ChangeIsAnnounced ==
  [][pc = "changedUpdate" /\ pc' = "record" /\ err' = "" =>
       cr'.phase = "updating"]_vars
=============================================================================
