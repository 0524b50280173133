---------------------------- MODULE ConfigPhases ----------------------------
(***************************************************************************)
(* What an ACKClusterConfig promises to whoever watches it (the abstract   *)
(* specification of controller/ack-cluster-config-handler.go).             *)
(*                                                                         *)
(* A watcher sees three things of the stored object: whether it lives, its *)
(* phase, and the upstream cluster it names.  The phases follow            *)
(*                                                                         *)
(*    ""  -> creating  -> active <-> updating      (clusters made here)    *)
(*    ""  -> importing -> active <-> updating      (imported clusters)     *)
(*                                                                         *)
(* and the cluster is named once, before the phase says "creating", and    *)
(* never renamed.  Nothing of this mentions caches, versions, retries or   *)
(* restarts: ClusterLifecycle, which has them, is shown to implement it.   *)
(***************************************************************************)
CONSTANTS ClusterIds, NoCluster, Imported

VARIABLES life, phase, clusterId

seen == <<life, phase, clusterId>>

Born ==
  /\ life = "live"
  /\ phase = ""
  /\ clusterId \in IF Imported THEN ClusterIds ELSE {NoCluster}

\* The cluster made for this config gets its name in the spec.
Name ==
  /\ life = "live" /\ phase = "" /\ clusterId = NoCluster
  /\ clusterId' \in ClusterIds
  /\ UNCHANGED <<life, phase>>

BeginCreating ==
  /\ life = "live" /\ phase = "" /\ ~Imported /\ clusterId # NoCluster
  /\ phase' = "creating"
  /\ UNCHANGED <<life, clusterId>>

BeginImporting ==
  /\ life = "live" /\ phase = "" /\ Imported
  /\ phase' = "importing"
  /\ UNCHANGED <<life, clusterId>>

Activate ==
  /\ life = "live" /\ phase \in {"creating", "importing", "updating"}
  /\ phase' = "active"
  /\ UNCHANGED <<life, clusterId>>

BeginUpdating ==
  /\ life = "live" /\ phase = "active"
  /\ phase' = "updating"
  /\ UNCHANGED <<life, clusterId>>

\* Deletion is requested, or completed: neither touches phase or name.
Leave ==
  /\ \/ life = "live" /\ life' \in {"deleting", "gone"}
     \/ life = "deleting" /\ life' = "gone"
  /\ UNCHANGED <<phase, clusterId>>

\* A new config of the same name: everything starts over.
Reborn == life = "gone" /\ Born'

Change ==
  \/ Name \/ BeginCreating \/ BeginImporting \/ Activate \/ BeginUpdating
  \/ Leave \/ Reborn

Spec == Born /\ [][Change]_seen
=============================================================================
