------------------------------ MODULE AckTypes ------------------------------
(***************************************************************************)
(* The values of an ACKClusterConfig that the handlers tell apart          *)
(* (pkg/apis/ack.pandaria.io/v1/types.go).                                 *)
(***************************************************************************)
EXTENDS Naturals

CONSTANTS
  ClusterIds,  \* ids the cloud gives to clusters
  NoCluster,   \* the empty cluster_id
  Pools,       \* node pool lists a user may ask for
  NoPools,     \* the empty node pool list
  Imported     \* spec.imported, which is never updated

ASSUME TypesAssumption ==
  /\ NoCluster \notin ClusterIds
  /\ NoPools \notin Pools
  /\ Imported \in BOOLEAN

\* status.phase, and what status.failureMessage tells apart.
Phases == {"", "importing", "creating", "active", "updating"}
Errors == {"conflict", "unavailable", "creationFailed"}

Config == [rv        : Nat,          \* metadata.resourceVersion
           uid       : Nat,          \* metadata.uid, numbered from 1
           life      : {"live", "deleting", "gone"},
           fin       : BOOLEAN,      \* the ack-controller-remove finalizer
           clusterId : ClusterIds \cup {NoCluster},
           fixed     : BOOLEAN,      \* the fields FixConfig copies mirror the cloud
           pools     : Pools \cup {NoPools},
           phase     : Phases,
           failure   : Errors \cup {""}]

\* The zero object, which the generated client returns beside an error.
Empty == [rv |-> 0, uid |-> 0, life |-> "live", fin |-> FALSE,
          clusterId |-> NoCluster, fixed |-> FALSE, pools |-> NoPools,
          phase |-> "", failure |-> ""]
=============================================================================
