---------------------------- MODULE PoolsInvariant ----------------------------
(***************************************************************************)
(* What a batch of NodePools relies on between its requests: the inductive *)
(* invariant behind its properties.                                        *)
(*                                                                         *)
(* The batch acts on what it listed.  Nothing tells it that this still     *)
(* holds; it does because every other writer of the same data is elsewhere *)
(* in the round, or excluded by Plain.                                     *)
(***************************************************************************)
EXTENDS NodePools

Rank == [create |-> 1, update |-> 2, delete |-> 3, rename |-> 4]

Does(k, kinds) == k \in DOMAIN todo /\ todo[k].do \in kinds

\* The tasks come kind by kind, and the first is the one the round is at.
InOrder ==
  /\ \A k, m \in DOMAIN todo : k < m => Rank[todo[k].do] <= Rank[todo[m].do]
  /\ todo # <<>> => pc \in {"work", "removeNodes", "drain", "deletePool"}
  /\ pc = "removeNodes" => Does(1, {"update"})
  /\ pc \in {"drain", "deletePool"} => Does(1, {"delete"}) /\ changed

\* Every id is that of a pool that was made, and every pool the batch is to
\* change is one it listed.
IdsMade ==
  /\ \A i \in DOMAIN spec : spec[i].id \in DOMAIN pools \cup {NoId}
  /\ \A i \in DOMAIN list : list[i].id \in DOMAIN pools \cup {NoId}
  /\ DOMAIN listed \subseteq DOMAIN pools
  /\ \A k \in DOMAIN todo : todo[k].do # "create" => todo[k].np.id \in DOMAIN listed

\* The pools that are there have names of their own.
NamesApart == \A p, q \in GetNodePools : pools[p].name = pools[q].name => p = q

\* A pool to be deleted has the name and platform of no entry.
DeletesUnasked ==
  \A k \in DOMAIN todo : Does(k, {"delete"}) =>
    \A i \in DOMAIN list : \/ list[i].name # pools[todo[k].np.id].name
                           \/ list[i].platform # pools[todo[k].np.id].platform

\* Entries have names, and ids if any, of their own.
Apart(l) ==
  \A i, j \in DOMAIN l :
    l[i].name = l[j].name \/ (l[i].id = l[j].id /\ l[i].id # NoId) => i = j

\* While the lists are clear and nobody interferes, a pool that is to be scaled
\* is as it was listed, is that of one entry, and is scaled once.
ScalesOnce ==
  Plain =>
    /\ Apart(spec) /\ Apart(list)
    /\ pc = "list" => \A p \in GetNodePools : ~Busy(p)
    /\ \A k \in DOMAIN todo : Does(k, {"update"}) =>
         /\ pools[todo[k].np.id].nodes = listed[todo[k].np.id].nodes
         /\ pools[todo[k].np.id].target = listed[todo[k].np.id].nodes
         /\ \E i \in DOMAIN list : /\ list[i].name = todo[k].np.name
                                   /\ list[i].id = todo[k].np.id
                                   /\ list[i].count = todo[k].np.count
    /\ \A k, m \in DOMAIN todo :
         /\ Does(k, {"create", "update"}) /\ Does(m, {"create", "update"})
         /\ todo[k].np.name = todo[m].np.name \/ (/\ todo[k].do = "update" /\ todo[m].do = "update"
                                                  /\ todo[k].np.id = todo[m].np.id)
         => k = m
    /\ pc = "removeNodes" => found = listed[np.id].nodes

\* The entries to be made have no pool yet, and those to be renamed each a pool
\* whose present name no entry has.
Reserved ==
  Plain =>
    /\ \A k \in DOMAIN todo : Does(k, {"create"}) =>
         \E i \in DOMAIN list : /\ list[i].name = todo[k].np.name
                                /\ list[i].id = NoId
                                /\ list[i].count = todo[k].np.count
    /\ \A k \in DOMAIN todo : Does(k, {"rename"}) =>
         \A i \in DOMAIN list : list[i].name # pools[todo[k].np.id].name
    /\ \A k, m \in DOMAIN todo :
         Does(k, {"rename"}) /\ Does(m, {"rename"}) /\ todo[k].np.id = todo[m].np.id => k = m

\* As long as the batch reports neither change nor failure, what is not yet as
\* the list says is the business of a task to come.
TasksCover ==
  pc \in {"work", "removeNodes"} /\ ~changed /\ ~failed /\ Plain /\ Known(list) =>
    /\ \A p \in GetNodePools :
         \/ \E k \in DOMAIN todo : Does(k, {"update", "delete"}) /\ todo[k].np.id = p
         \/ \E i \in DOMAIN list :
              /\ list[i].id = p /\ list[i].count = pools[p].target
              /\ \/ list[i].name = pools[p].name
                 \/ \E k \in DOMAIN todo : /\ Does(k, {"rename"}) /\ todo[k].np.id = p
                                           /\ todo[k].np.name = list[i].name
    /\ \A i \in DOMAIN list :
         \/ list[i].name = Default \/ Taken(list[i].name)
         \/ \E k \in DOMAIN todo : Does(k, {"create", "rename"}) /\ todo[k].np.name = list[i].name

BatchInv ==
  /\ TypeOK /\ InOrder /\ IdsMade /\ NamesApart /\ DeletesUnasked
  /\ ScalesOnce /\ Reserved /\ TasksCover
===============================================================================
