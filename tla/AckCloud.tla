------------------------------ MODULE AckCloud ------------------------------
(***************************************************************************)
(* The Alibaba Cloud container service as the operator sees it: clusters   *)
(* that are made, become running or fail, are busy for a while, and are    *)
(* deleted.  The service is outside the repository; it is modelled from    *)
(* the requests of internal/ack and the states of internal/ack/common.go.  *)
(*                                                                         *)
(* The states "updating", "scaling" and "removing" of a cluster, which the *)
(* code treats alike, are "busy" here; a running cluster one of whose node *)
(* pools is in such a state is "poolBusy".                                 *)
(***************************************************************************)
EXTENDS AckTypes

VARIABLES
  state,     \* state of each cluster
  upstream,  \* the node pools each cluster has
  origin     \* history: who asked for the cluster, see Origin

States == {"unused", "initial", "failed", "running", "busy", "poolBusy",
           "deleting", "deleted"}

\* The cluster came from a config with this uid at this version, asked for by
\* the operator process of this number, which got the answer or did not.
\* uid = 0 stands for clusters nobody made through the operator.
Origin == [uid : Nat, rv : Nat, process : Nat, acked : BOOLEAN]

Foreign == [uid |-> 0, rv |-> 0, process |-> 0, acked |-> FALSE]

Working == {c \in ClusterIds : state[c] \in {"running", "busy", "poolBusy"}}

\* POST /clusters: the service accepts and names a new cluster, whose pools
\* need not be the ones asked for (only the default pool is sent along).
Allocate(c, from) ==
  /\ state[c] = "unused"
  /\ state' = [state EXCEPT ![c] = "initial"]
  /\ origin' = [origin EXCEPT ![c] = from]
  /\ \E p \in Pools : upstream' = [upstream EXCEPT ![c] = p]

\* DELETE /clusters/<id> is accepted: not while busy, and only once.
Deletable(c) == c \in ClusterIds /\ state[c] \in {"initial", "failed", "running", "poolBusy"}

SetState(c, s) == state' = [state EXCEPT ![c] = s]

\* What a cluster does by itself.
Evolve(c) ==
  /\ \/ state[c] = "initial" /\ \E s \in {"running", "failed"} : SetState(c, s)
     \/ state[c] \in {"busy", "poolBusy"} /\ SetState(c, "running")
     \/ state[c] = "deleting" /\ SetState(c, "deleted")
  /\ UNCHANGED <<upstream, origin>>

\* Someone operates on the cluster elsewhere, or an accepted operation shows late.
Disturb(c) ==
  /\ state[c] = "running"
  /\ \E s \in {"busy", "poolBusy"} : SetState(c, s)
  /\ UNCHANGED <<upstream, origin>>

CloudTypeOK ==
  /\ state \in [ClusterIds -> States]
  /\ upstream \in [ClusterIds -> Pools \cup {NoPools}]
  /\ origin \in [ClusterIds -> Origin]
=============================================================================
