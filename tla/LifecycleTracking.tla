-------------------------- MODULE LifecycleTracking --------------------------
(***************************************************************************)
(* What the stored config and the operator know of the cloud: a second     *)
(* inductive invariant of ClusterLifecycle, on top of IInv.  It has what   *)
(* LifecycleInvariant says nothing of: the states of clusters that are     *)
(* named, their pools, the CA secret, and which version of the config the  *)
(* informer, the sync and the watch are at.                                *)
(***************************************************************************)
EXTENDS LifecycleInvariant

\* Cluster c was made and did not fail, and so for good.
Up(c) == c \in ClusterIds /\ state[c] \notin {"unused", "initial", "failed"}

\* The operator makes no clusters beside imported ones, and what is imported
\* has pools and keeps some.
CloudOK ==
  Imported => \A c \in ClusterIds :
                /\ state[c] \notin {"initial", "failed"}
                /\ state[c] # "unused" => upstream[c] # NoPools

\* What is true of every copy o of the config, however old.
Filled(o) ==
  /\ o.phase = "importing" => Imported
  /\ o.phase = "creating" => ~Imported
  /\ Imported /\ o.phase \in {"active", "updating"} => o.pools # NoPools

CopiesOK ==
  /\ Filled(cr) /\ Filled(cache) /\ Filled(orig) /\ Filled(obj)
  /\ \A v \in watch : Filled(v)

\* The stored phase is behind the cluster, and so is that about to be stored.
PhaseOK ==
  /\ cr.phase = "creating" =>
       cr.clusterId \in ClusterIds /\ state[cr.clusterId] # "unused"
  /\ cr.phase \in {"active", "updating"} => Up(cr.clusterId)
  /\ pc \in {"importPools", "importUpdate", "caSecret", "activeStatus"} =>
       Up(obj.clusterId)

\* An import has its pools before it is active.
ImportOK ==
  /\ pc = "importUpdate" => obj.pools # NoPools
  /\ Imported /\ pc \in {"caSecret", "activeStatus"} =>
       obj.pools # NoPools /\ (obj.rv = cr.rv => obj.pools = cr.pools)

\* The secret is of this config or an earlier one, and is made before the
\* config is active.
SecretOK ==
  /\ secret <= cr.uid
  /\ pc \in {"waitGet", "caSecret"} => obj.uid > 0
  /\ First /\ pc = "activeStatus" => secret # 0
  /\ ActiveHasSecret

TInv == CloudOK /\ CopiesOK /\ PhaseOK /\ ImportOK /\ SecretOK

-----------------------------------------------------------------------------
\* This process asked for cluster c and was told its id.
Mine(c) == origin[c].acked /\ origin[c].process = crashes

\* The informer's entry is named from the moment a cluster was made for it, and
\* the sync's object is that entry or an older one.
Informed ==
  /\ \A v \in watch : v.rv > cache.rv
  /\ pc # "idle" => orig.rv <= cache.rv /\ (orig.rv = cache.rv => orig = cache)
  /\ \A c \in ClusterIds : Mine(c) =>
       /\ origin[c].rv <= cache.rv
       /\ origin[c].rv = cache.rv => cache.clusterId # NoCluster
       /\ pc = "createCall" => origin[c].rv # obj.rv
  /\ OneClusterPerVersion

\* No cluster was made by a process that is still to come.
NoneLater == \A c \in ClusterIds : origin[c].process <= crashes

VInv == Informed /\ NoneLater
=============================================================================
