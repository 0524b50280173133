---------------------------- MODULE ConfigStore ----------------------------
(***************************************************************************)
(* The Kubernetes side of one ACKClusterConfig: the object held by the API *)
(* server, the watch events on their way to the operator, and the entry of *)
(* the operator's informer cache.  The code is outside the repository; it  *)
(* is modelled from how the handlers use it through                        *)
(* pkg/generated/controllers/ack.pandaria.io/v1/ackclusterconfig.go.       *)
(*                                                                         *)
(* A write carries the resourceVersion of the copy it was made from and is *)
(* refused when that is not the stored one.  Update writes metadata and    *)
(* spec, UpdateStatus the status only (templates/ackclusterconfig.yaml     *)
(* enables the status subresource).                                        *)
(***************************************************************************)
EXTENDS AckTypes

VARIABLES
  cr,     \* the stored object; life = "gone" once it is removed
  watch,  \* versions written and not yet delivered to the operator
  cache   \* the informer's copy, which handlers get a pointer to

\* A config as its user creates it: an import names its cluster and no pools,
\* any other names its pools and no cluster.
NewConfigs(version, id, importable) ==
  [rv : {version}, uid : {id}, life : {"live"}, fin : {FALSE},
   clusterId : IF Imported THEN importable ELSE {NoCluster},
   fixed : {FALSE}, pools : IF Imported THEN {NoPools} ELSE Pools,
   phase : {""}, failure : {""}]

\* What Update leaves stored: a deleting object without finalizer disappears.
SpecWrite(o) ==
  [cr EXCEPT !.clusterId = o.clusterId, !.fixed = o.fixed, !.pools = o.pools,
             !.fin = o.fin,
             !.life = IF @ = "deleting" /\ ~o.fin THEN "gone" ELSE @]

\* Mutant of StatusWrite: the two fields are exchanged.
StatusSwapped(o) == [cr EXCEPT !.phase = o.failure, !.failure = o.phase]

\* What UpdateStatus leaves stored.
StatusWrite(o) == [cr EXCEPT !.phase = o.phase, !.failure = o.failure]

\* A write that changes nothing makes no new version and no event.
Commit(new) ==
  IF new = cr
  THEN UNCHANGED <<cr, watch>>
  ELSE /\ cr' = [new EXCEPT !.rv = cr.rv + 1]
       /\ watch' = watch \cup {cr'}

\* The informer replaces its copy by a later version.  Versions come in order;
\* a relist skips some.
Receive(v) ==
  /\ v \in watch
  /\ cache' = v
  /\ watch' = {w \in watch : w.rv > v.rv}
  /\ UNCHANGED cr

StoreTypeOK ==
  /\ cr \in Config
  /\ watch \in SUBSET Config
  /\ cache \in Config
=============================================================================
