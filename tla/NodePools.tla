------------------------------ MODULE NodePools ------------------------------
(***************************************************************************)
(* internal/ack/nodepool.go: how UpdateNodePoolBatch brings the node pools *)
(* of a running cluster to the list of the config.                         *)
(*                                                                         *)
(* A round is what checkAndUpdate does once the cluster is there: fence    *)
(* the config, wait while a pool is busy, and run the batch.  The batch    *)
(* lists the pools once, decides from that what to do, and does it request *)
(* by request while the cloud and others go on.  ClusterLifecycle has the  *)
(* whole batch as its one step Batch.                                      *)
(*                                                                         *)
(* The cloud insists that pools have distinct names; nobody insists that   *)
(* the entries of a list do.                                               *)
(***************************************************************************)
EXTENDS Integers, Sequences, FiniteSets

CONSTANTS
  Lists,       \* the node pool lists a user may ask for, without ids
  Default,     \* DefaultNodePoolName
  NoId,        \* the empty nodepool_id
  MaxPools,    \* the cloud's quota of pools ever made
  MaxEdits,    \* bound on edits of the list
  MaxFaults,   \* bound on requests that fail or whose answer is lost, and crashes
  MaxOutside   \* bound on scalings and deletions by someone else

\* Pools are numbered by the cloud as it makes them, and keep their number.
Ids == 1 .. MaxPools

ASSUME PoolsAssumption ==
  /\ NoId \notin Ids
  /\ MaxPools \in Nat \ {0} /\ MaxEdits \in Nat /\ MaxFaults \in Nat /\ MaxOutside \in Nat

VARIABLES
  pools,    \* the cloud's pools; a deleted one stays with there = FALSE
  spec,     \* spec.node_pool_list as stored
  fresh,    \* no edit was stored since the fence of this round
  due,      \* the config is in the work queue, or will be
  pc,       \* where the round is
  list,     \* the round's copy of the list
  listed,   \* what GetNodePools answered to the batch
  todo,     \* what the batch has yet to do
  found,    \* how many nodes GetClusterNodes answered
  changed,  \* flag = Changed
  failed,   \* failedMsg is not empty
  clear,    \* history: every list stored or worked off so far said plainly which
            \* entry is which pool
  edits, faults, outside  \* how much of each bound is spent

batch  == <<list, listed, todo, found, changed, failed>>
bounds == <<clear, edits, faults, outside>>
vars   == <<pools, spec, fresh, due, pc, batch, bounds>>

Asked  == UNION {{l[i] : i \in DOMAIN l} : l \in Lists}
Names  == {e.name : e \in Asked}
Platforms == {e.platform : e \in Asked}

ASSUME ListsAssumption ==
  Lists \subseteq Seq(Asked) /\ \A e \in Asked : e.count \in Nat

Pool  == [there : BOOLEAN, name : Names, platform : Platforms,
          nodes : Nat, target : Nat]
Entry == [id : Ids \cup {NoId}, name : Names, platform : Platforms, count : Nat]

WithId(e, id) == [id |-> id, name |-> e.name, platform |-> e.platform, count |-> e.count]

NewPool(e) == [there |-> TRUE, name |-> e.name, platform |-> e.platform,
               nodes |-> 0, target |-> e.count]

Present(p) == p \in DOMAIN pools /\ pools[p].there

\* The members of the sequence l at the positions I, in their order.
Selected(l, I) ==
  [n \in 1 .. Cardinality(I) |-> l[CHOOSE k \in I : Cardinality({j \in I : j <= k}) = n]]

\* Each entry of the list l has a name of its own, which is no other entry's pool's.
Clear(l) ==
  \A i, j \in DOMAIN l :
    l[i].name = l[j].name \/ (Present(l[i].id) /\ pools[l[i].id].name = l[j].name)
    => i = j

\* Creating the cluster made the first default pool of the list.
Init ==
  /\ \E l \in Lists : spec = [i \in DOMAIN l |-> WithId(l[i], NoId)]
  /\ pools = LET default == Selected(spec, {i \in DOMAIN spec : spec[i].name = Default})
             IN  IF default = <<>> THEN <<>> ELSE <<NewPool(default[1])>>
  /\ fresh = FALSE /\ due = TRUE /\ pc = "idle"
  /\ list = <<>> /\ listed = <<>> /\ todo = <<>> /\ found = 0
  /\ changed = FALSE /\ failed = FALSE
  /\ clear = Clear(spec) /\ edits = 0 /\ faults = 0 /\ outside = 0

-----------------------------------------------------------------------------
(* The requests, by what the cloud does when it takes them.                *)

Busy(p) == pools[p].nodes # pools[p].target

\* Requests to a busy pool may be refused or taken, requests to a missing
\* one are refused.
Refuses(p) == Present(p) => Busy(p)

GetNodePools == {p \in DOMAIN pools : Present(p)}

\* A pool as an entry: its size is the number of nodes it has.
ToNodePoolConfigInfo(p) ==
  [id |-> p, name |-> pools[p].name, platform |-> pools[p].platform,
   count |-> pools[p].nodes]

Taken(name) == \E p \in GetNodePools : pools[p].name = name

CreateNodePool(e) ==
  /\ ~Taken(e.name) /\ Len(pools) < MaxPools
  /\ pools' = Append(pools, NewPool(e))

\* A pool that still has nodes may or may not be deleted.
DeleteNodePool(p) == Present(p) /\ pools' = [pools EXCEPT ![p].there = FALSE]

\* Only the name is sent.
UpdateNodePool(e) ==
  /\ Present(e.id) /\ ~Taken(e.name)
  /\ pools' = [pools EXCEPT ![e.id].name = e.name]

\* Both are relative to the size the pool is on its way to.
ScaleUpNodePool(p, upNum) ==
  Present(p) /\ pools' = [pools EXCEPT ![p].target = @ + upNum]

ScaleDownNodePool(p, nodes) ==
  /\ Present(p)
  /\ pools' = [pools EXCEPT ![p].target = IF @ < nodes THEN 0 ELSE @ - nodes]

GetClusterNodes(p) == pools[p].nodes

\* One node of a busy pool comes or goes.
CloudStep ==
  /\ \E p \in GetNodePools :
       /\ Busy(p)
       /\ pools' = [pools EXCEPT ![p].nodes =
                      IF @ < pools[p].target THEN @ + 1 ELSE @ - 1]
  /\ UNCHANGED <<spec, fresh, due, pc, batch, bounds>>

-----------------------------------------------------------------------------
(* A round.                                                                *)

Fault == faults < MaxFaults /\ faults' = faults + 1

\* The round is over; due says whether another one will follow.
End(again) ==
  /\ pc' = "idle" /\ due' = (due \/ again)
  /\ list' = <<>> /\ listed' = <<>> /\ todo' = <<>> /\ found' = 0
  /\ changed' = FALSE /\ failed' = FALSE

\* The handler returns an error, which puts the config back into the queue.
Abort == End(TRUE) /\ UNCHANGED <<spec, fresh>>

\* checkAndUpdate: the config is fenced by a write, then read by this round only.
Begin ==
  /\ pc = "idle" /\ due
  /\ due' = FALSE /\ pc' = "fence"
  /\ list' = spec /\ fresh' = TRUE
  /\ UNCHANGED <<pools, spec, listed, todo, found, changed, failed, bounds>>

\* Mutant of Fence: the state of the pools is not looked at.
FenceOpen ==
  /\ pc = "fence" /\ pc' = "list"
  /\ UNCHANGED <<pools, spec, fresh, due, batch, bounds>>

\* A pool that is scaling or removing nodes makes the round wait.
Fence ==
  /\ pc = "fence"
  /\ \/ (\E p \in GetNodePools : Busy(p)) /\ Abort /\ UNCHANGED faults
     \/ /\ \A p \in GetNodePools : ~Busy(p)
        /\ pc' = "list" /\ UNCHANGED <<spec, fresh, due, batch, faults>>
     \/ Fault /\ Abort
  /\ UNCHANGED <<pools, clear, edits, outside>>

\* Mutant of FixId: an id is what the user or an earlier batch wrote.
FixIdNever(e) == e

\* An entry gets the id of the pool of its name and platform.
FixId(e) ==
  LET same == {p \in GetNodePools : /\ pools[p].name = e.name
                                    /\ pools[p].platform = e.platform}
  IN  IF same = {} THEN e ELSE WithId(e, CHOOSE p \in same : TRUE)

Task(kind, e) == [do |-> kind, np |-> e]

\* One task for each of the entries of l at the positions I.
Tasks(kind, l, I) == [n \in 1 .. Cardinality(I) |-> Task(kind, Selected(l, I)[n])]

\* The queues of the batch for the list l, one after the other; renames of
\* pools that keep their name and scalings to the size listed ask nothing.
Plan(l) ==
  LET asIs    == [p \in DOMAIN pools |-> ToNodePoolConfigInfo(p)]
      missing == {i \in DOMAIN l : l[i].id = NoId /\ l[i].name # Default}
      resized == {i \in DOMAIN l : Present(l[i].id) /\ pools[l[i].id].nodes # l[i].count}
      extra   == {p \in GetNodePools : \A i \in DOMAIN l : l[i].id # p}
      renamed == {i \in DOMAIN l : Present(l[i].id) /\ pools[l[i].id].name # l[i].name}
  IN  Tasks("create", l, missing) \o Tasks("update", l, resized)
        \o Tasks("delete", asIs, extra) \o Tasks("rename", l, renamed)

List ==
  /\ pc = "list"
  /\ \/ LET fixed == [i \in DOMAIN list |-> FixId(list[i])]
        IN  /\ list' = fixed /\ listed' = pools /\ todo' = Plan(fixed)
            /\ pc' = "work" /\ clear' = (clear /\ Clear(list))
            /\ UNCHANGED <<spec, fresh, due, found, changed, failed, faults>>
     \/ Fault /\ Abort /\ UNCHANGED clear
  /\ UNCHANGED <<pools, edits, outside>>

np == Head(todo).np

Doing(kind) == pc = "work" /\ todo # <<>> /\ Head(todo).do = kind

\* The batch goes on at a point of its own, or with the next task; what failed
\* is reported at the end.
Go(point, bad) ==
  /\ pc' = point /\ failed' = (failed \/ bad)
  /\ todo' = IF point = "work" THEN Tail(todo) ELSE todo
  /\ UNCHANGED <<spec, fresh, due, listed>>

\* Mutant of CreatePool: a pool of that name is an error like others.
CreatePoolStrict ==
  /\ Doing("create")
  /\ \/ /\ CreateNodePool(np) /\ Go("work", FALSE) /\ UNCHANGED <<found, changed, faults>>
        /\ list' = [i \in DOMAIN list |->
                      IF list[i].name = np.name THEN WithId(list[i], Len(pools')) ELSE list[i]]
     \/ (Taken(np.name) \/ Len(pools) = MaxPools) /\ Abort /\ UNCHANGED <<pools, faults>>
  /\ UNCHANGED <<clear, edits, outside>>

\* CreateNodePool; that there is a pool of that name is no error.
CreatePool ==
  /\ Doing("create")
  /\ \/ /\ CreateNodePool(np) /\ Go("work", FALSE) /\ UNCHANGED <<found, changed, faults>>
        /\ list' = [i \in DOMAIN list |->
                      IF list[i].name = np.name THEN WithId(list[i], Len(pools')) ELSE list[i]]
     \/ /\ Taken(np.name)
        /\ Go("work", FALSE) /\ UNCHANGED <<pools, list, found, changed, faults>>
     \/ /\ ~Taken(np.name) /\ Len(pools) = MaxPools
        /\ Abort /\ UNCHANGED <<pools, faults>>
     \/ Fault /\ Abort /\ (UNCHANGED pools \/ CreateNodePool(np))
  /\ UNCHANGED <<clear, edits, outside>>

\* A request about the pool of the task: taken, refused, or failed.  The scaling
\* requests test the wrong error variable, so that every failure is reported;
\* the others keep quiet about refusals and throttling.
Ask(effect, point, quiet) ==
  \/ effect /\ Go(point, FALSE) /\ UNCHANGED faults
  \/ Refuses(np.id) /\ Go(point, ~quiet) /\ UNCHANGED <<pools, faults>>
  \/ /\ Fault /\ (UNCHANGED pools \/ effect)
     /\ \E bad \in IF quiet THEN BOOLEAN ELSE {TRUE} : Go(point, bad)

Shortfall == np.count - listed[np.id].nodes
Surplus   == listed[np.id].nodes - np.count

ScaleUp ==
  /\ Doing("update") /\ Shortfall > 0
  /\ Ask(ScaleUpNodePool(np.id, Shortfall), "work", FALSE)
  /\ changed' = TRUE
  /\ UNCHANGED <<list, found, clear, edits, outside>>

\* Mutant of QueryNodes: the difference is taken too early.
QueryNodesLess ==
  /\ Doing("update") /\ Surplus > 0
  /\ found' = GetClusterNodes(np.id) - np.count
  /\ Go(IF found' = 0 THEN "work" ELSE "removeNodes", FALSE)
  /\ UNCHANGED <<pools, list, changed, bounds>>

\* GetClusterNodes, to name the nodes to remove.
QueryNodes ==
  /\ Doing("update") /\ Surplus > 0
  /\ \/ /\ found' = GetClusterNodes(np.id) /\ UNCHANGED faults
        /\ Go(IF found' = np.count THEN "work" ELSE "removeNodes", FALSE)
     \/ Fault /\ Go("work", TRUE) /\ UNCHANGED found
  /\ UNCHANGED <<pools, list, changed, clear, edits, outside>>

\* As many nodes go as the list was too long; when fewer were found, the index
\* is out of range and the process dies.
RemoveNodes ==
  /\ pc = "removeNodes"
  /\ \/ /\ Surplus <= found /\ changed' = TRUE
        /\ Ask(ScaleDownNodePool(np.id, Surplus), "work", FALSE)
        /\ UNCHANGED <<list, found>>
     \/ Surplus > found /\ Abort /\ UNCHANGED <<pools, faults>>
  /\ UNCHANGED <<clear, edits, outside>>

\* Mutant of QueryExtra: the flag is only set when nodes are asked to go.
QueryExtraQuiet ==
  /\ Doing("delete")
  /\ found' = GetClusterNodes(np.id) /\ changed' = (changed \/ found' # 0)
  /\ Go(IF found' = 0 THEN "deletePool" ELSE "drain", FALSE)
  /\ UNCHANGED <<pools, list, bounds>>

\* A pool that is not in the list loses its nodes, then goes.
QueryExtra ==
  /\ Doing("delete")
  /\ \/ /\ found' = GetClusterNodes(np.id) /\ changed' = TRUE
        /\ Go(IF found' = 0 THEN "deletePool" ELSE "drain", FALSE)
        /\ UNCHANGED <<list, faults>>
     \/ Fault /\ Abort
  /\ UNCHANGED <<pools, clear, edits, outside>>

Drain ==
  /\ pc = "drain"
  /\ Ask(ScaleDownNodePool(np.id, found), "deletePool", TRUE)
  /\ UNCHANGED <<list, found, changed, clear, edits, outside>>

DeletePool ==
  /\ pc = "deletePool"
  /\ Ask(DeleteNodePool(np.id), "work", TRUE)
  /\ UNCHANGED <<list, found, changed, clear, edits, outside>>

\* UpdateNodePool; a rename that worked is no change.
RenamePool ==
  /\ Doing("rename")
  /\ \/ UpdateNodePool(np) /\ Go("work", FALSE) /\ UNCHANGED <<changed, faults>>
     \/ /\ Taken(np.name)
        /\ Go("work", TRUE) /\ changed' = TRUE /\ UNCHANGED <<pools, faults>>
     \/ /\ Fault /\ (UNCHANGED pools \/ UpdateNodePool(np))
        /\ changed' = TRUE /\ \E bad \in BOOLEAN : Go("work", bad)
  /\ UNCHANGED <<list, found, clear, edits, outside>>

\* updateUpstreamClusterState: the ids that were found are stored after a change,
\* unless the user was faster, and may be after none.
Finish ==
  /\ pc = "work" /\ todo = <<>>
  /\ spec' \in IF failed \/ ~fresh THEN {spec} ELSE IF changed THEN {list} ELSE {spec, list}
  /\ End(failed \/ changed)
  /\ UNCHANGED <<pools, fresh, bounds>>

Crash == Fault /\ pc # "idle" /\ Abort /\ UNCHANGED <<pools, clear, edits, outside>>

-----------------------------------------------------------------------------
(* The user and others.                                                    *)

\* Another list: an entry keeps the id of the old entry of its name, or has none.
Replaced ==
  {[i \in DOMAIN l |-> WithId(l[i], NoId)] : l \in Lists} \cup
  {[i \in DOMAIN l |->
      IF \E j \in DOMAIN spec : spec[j].name = l[i].name
      THEN WithId(l[i], spec[CHOOSE j \in DOMAIN spec : spec[j].name = l[i].name].id)
      ELSE WithId(l[i], NoId)] : l \in Lists}

\* One entry gets a new name.
Renamed ==
  {[spec EXCEPT ![i].name = name] :
     i \in DOMAIN spec,
     name \in {n \in Names \ {Default} : \A j \in DOMAIN spec : spec[j].name # n}}

UserEdit ==
  /\ edits < MaxEdits /\ edits' = edits + 1
  /\ spec' \in (Replaced \cup Renamed) \ {spec}
  /\ clear' = (clear /\ Clear(spec'))
  /\ fresh' = FALSE /\ due' = TRUE
  /\ UNCHANGED <<pools, pc, batch, faults, outside>>

\* Someone scales or deletes a pool elsewhere.
OutsideStep ==
  /\ outside < MaxOutside /\ outside' = outside + 1
  /\ \E p \in GetNodePools :
       \/ \E e \in Asked : pools' = [pools EXCEPT ![p].target = e.count]
       \/ DeleteNodePool(p)
  /\ UNCHANGED <<spec, fresh, due, pc, batch, clear, edits, faults>>

Round == \/ Begin \/ Fence \/ List \/ CreatePool \/ ScaleUp \/ QueryNodes
         \/ RemoveNodes \/ QueryExtra \/ Drain \/ DeletePool \/ RenamePool \/ Finish

Next == Round \/ Crash \/ CloudStep \/ UserEdit \/ OutsideStep

Spec == Init /\ [][Next]_vars

\* The worker and the cloud go on.
FairSpec == Spec /\ WF_vars(Round) /\ WF_vars(CloudStep)

-----------------------------------------------------------------------------
Points == {"idle", "fence", "list", "work", "removeNodes", "drain", "deletePool"}

Kinds == {"create", "update", "delete", "rename"}

TypeOK ==
  /\ {pools, listed} \subseteq Seq(Pool) /\ Len(pools) <= MaxPools
  /\ {spec, list} \subseteq Seq(Entry)
  /\ todo \in Seq([do : Kinds, np : Entry])
  /\ pc \in Points /\ found \in Nat
  /\ {fresh, due, changed, failed, clear} \subseteq BOOLEAN
  /\ {edits, faults, outside} \subseteq Nat

\* The pools are those of the list l.
Matches(l) ==
  /\ \A p \in GetNodePools :
       \E i \in DOMAIN l : l[i].name = pools[p].name /\ l[i].count = pools[p].target
  /\ \A i \in DOMAIN l : l[i].name = Default \/ Taken(l[i].name)

\* The lists were clear and nobody else operated on the pools.
Plain == clear /\ outside = 0

\* The batch never deletes a pool whose name and platform its list asks for,
\* though a pool it made is in the list without an id until the ids are stored,
\* and whatever the user and others do to names and pools meanwhile.
NoDeleteOfAsked ==
  [][\A p \in GetNodePools : ~Present(p)' /\ outside' = outside =>
       \A i \in DOMAIN list : list[i].name # pools[p].name
                              \/ list[i].platform # pools[p].platform]_pools

\* Scaling a pool of the list leads to the size asked for and nowhere else,
\* whatever failed before: what was listed is still true when it is used.
ScalesExactly ==
  [][Plain' /\ pc \in {"work", "removeNodes"} =>
       \A p \in DOMAIN pools : pools'[p].target # pools[p].target =>
         \E i \in DOMAIN list : list[i].id = p /\ list[i].count = pools'[p].target]_vars

\* In a plain world as many nodes are found as have to go.
IndexInRange == pc = "removeNodes" /\ Plain => Surplus <= found

\* No entry of the list l has the id of a pool that is gone.
Known(l) == \A i \in DOMAIN l : l[i].id = NoId \/ Present(l[i].id)

\* When the batch reports no change and no error, the cloud is as the list says.
\* An entry with the id of a pool that is gone is neither made nor reported.
QuietMeansDone ==
  pc = "work" /\ todo = <<>> /\ ~changed /\ ~failed /\ Plain /\ Known(list) => Matches(list)

\* Once the user, others and the faults are through, the pools are those the
\* user asked for, unless the quota of pools is spent.
Converges == <>[](Plain /\ Len(pools) < MaxPools /\ Known(spec) => Matches(spec))
=============================================================================
