-------------------------- MODULE ClusterLifecycle --------------------------
(***************************************************************************)
(* controller/ack-cluster-config-handler.go: how the operator drives one   *)
(* ACKClusterConfig from creation or import, through updates, to removal.  *)
(*                                                                         *)
(* The work queue never runs two syncs of one key at once, so there is one *)
(* sync, at program point pc.  Every call to the API server or the cloud   *)
(* is a step of its own: between two calls the user, the cloud, the watch  *)
(* and a crash have their turn.  A sync runs OnAckConfigChanged wrapped in *)
(* recordError, then the remove handler on what the first one returned.    *)
(***************************************************************************)
EXTENDS ConfigStore, AckCloud

CONSTANTS
  MaxOutside,  \* bound on spec edits and on operations from outside the operator
  MaxFaults,   \* bound on calls that fail or whose answer is lost
  MaxCrashes,  \* bound on operator restarts
  MaxUid       \* bound on configs of this name, one after the other

ASSUME BoundsAssumption ==
  /\ MaxOutside \in Nat /\ MaxFaults \in Nat /\ MaxCrashes \in Nat
  /\ MaxUid \in Nat \ {0}

VARIABLES
  queued,   \* the key is in the work queue
  delayed,  \* the key will be added to it later (EnqueueAfter, AddRateLimited)
  pc,       \* where the sync is; "idle" between syncs
  orig,     \* the object the sync was given: the cache's own until that is replaced
  obj,      \* the handler's config
  err,      \* the error OnAckConfigChanged returned, "" for none
  secret,   \* uid owning the CA secret of the config's name, 0 when there is none
  outside, faults, crashes  \* how much of each bound is spent

store == <<cr, watch>>
cloud == <<state, upstream, origin>>
queue == <<queued, delayed>>
vars  == <<cr, watch, cache, state, upstream, origin, queued, delayed, pc,
           orig, obj, err, secret, outside, faults, crashes>>

Points == {"idle", "importing", "createCall", "createUpdate", "createStatus",
           "waitGet", "importGet", "importPools", "importUpdate", "caSecret",
           "activeStatus", "checkGet", "checkStatus", "checkFence",
           "checkPools", "poolsStatus", "batch", "changedUpdate",
           "finishUpdate", "record", "remove", "addFinalizer", "removeCall",
           "removeFinalizer"}

Init ==
  /\ \E c \in ClusterIds, p \in Pools :
       /\ state = [d \in ClusterIds |->
                     IF Imported /\ d = c THEN "running" ELSE "unused"]
       /\ upstream = [d \in ClusterIds |->
                     IF Imported /\ d = c THEN p ELSE NoPools]
       /\ cr \in NewConfigs(1, 1, {c})
  /\ origin = [d \in ClusterIds |-> Foreign]
  /\ cache = cr /\ watch = {}
  /\ queued = TRUE /\ delayed = FALSE
  /\ pc = "idle" /\ orig = Empty /\ obj = Empty /\ err = ""
  /\ secret = 0
  /\ outside = 0 /\ faults = 0 /\ crashes = 0

-----------------------------------------------------------------------------
(* How a step ends.                                                        *)

Fault == faults < MaxFaults /\ faults' = faults + 1

Continue(o, point) == obj' = o /\ pc' = point /\ UNCHANGED err

\* OnAckConfigChanged returns; recordError goes on.
Return(o, e) == obj' = o /\ err' = e /\ pc' = "record"

\* Mutant of Finish: an error is logged and forgotten.
FinishForget(e) ==
  /\ pc' = "idle" /\ orig' = Empty /\ obj' = Empty /\ err' = ""
  /\ UNCHANGED queue

\* Both handlers have returned: an error of either adds the key rate limited.
Finish(e) ==
  /\ pc' = "idle" /\ orig' = Empty /\ obj' = Empty /\ err' = ""
  /\ delayed' = (delayed \/ err # "" \/ e # "")
  /\ UNCHANGED queued

\* Mutant of Accept: the version of the copy is not looked at.
AcceptAnyVersion(o, new) == Commit(new) /\ UNCHANGED faults

\* The API server takes a write made from o, or does not; a failed call may
\* have been applied all the same.
Accept(o, new) == o.rv = cr.rv /\ Commit(new) /\ UNCHANGED faults

Refuse(o, new, e) ==
  \/ e = "conflict" /\ o.rv # cr.rv /\ UNCHANGED <<cr, watch, faults>>
  \/ /\ e = "unavailable" /\ Fault
     /\ UNCHANGED store \/ (o.rv = cr.rv /\ Commit(new))

\* h.ackCC.Update of obj; on an error the handler returns back.
Save(point, back) ==
  \/ Accept(obj, SpecWrite(obj)) /\ Continue(cr', point)
  \/ \E e \in Errors : Refuse(obj, SpecWrite(obj), e) /\ Return(back, e)

\* h.ackCC.UpdateStatus with the phase set; its result is returned as it is,
\* the zero object included.
SetPhase(phase) ==
  LET o == [obj EXCEPT !.phase = phase]
  IN  \/ Accept(o, StatusWrite(o)) /\ Return(cr', "")
      \/ \E e \in Errors : Refuse(o, StatusWrite(o), e) /\ Return(Empty, e)

\* Mutant of Mutate: the handler works on a deep copy.
MutateCopy(o) == orig' = o /\ UNCHANGED cache

\* The sync's object is the informer's own as long as that has this version:
\* assigning to it is seen by the next sync that reads the cache.
Mutate(o) ==
  /\ orig' = o
  /\ cache' = IF cache.rv = orig.rv THEN o ELSE cache

Present(c) == c \in ClusterIds /\ state[c] \notin {"unused", "deleted"}

\* A request about cluster c fails: on its way, or because there is no such cluster.
NoAnswer(c) == Fault \/ (~Present(c) /\ UNCHANGED faults)

-----------------------------------------------------------------------------
(* OnAckConfigChanged: the phase selects the handler.                      *)

CreateEntry(o) ==
  IF Imported THEN "importing"
  ELSE IF o.clusterId = NoCluster THEN "createCall" ELSE "createUpdate"

Entry(o) ==
  CASE o.life = "gone"     -> "idle"
    [] o.life = "deleting" -> "remove"
    [] o.life = "live"     ->
       CASE o.phase = ""          -> CreateEntry(o)
         [] o.phase = "importing" -> "importGet"
         [] o.phase = "creating"  -> "waitGet"
         [] o.phase \in {"active", "updating"} -> "checkGet"

Sync ==
  /\ pc = "idle" /\ queued
  /\ queued' = FALSE
  /\ pc' = Entry(cache)
  /\ orig' = IF cache.life = "gone" THEN Empty ELSE cache
  /\ obj' = orig'
  /\ UNCHANGED <<cr, watch, cache, state, upstream, origin, delayed, err,
                 secret, outside, faults, crashes>>

(* create                                                                  *)

BeginImport ==
  /\ pc = "importing"
  /\ SetPhase("importing")
  /\ UNCHANGED <<cache, cloud, queue, orig, secret, outside, crashes>>

\* ack.Create, which stores the new id in the informer's object.
CreateCall ==
  LET from(answered) == [uid |-> obj.uid, rv |-> obj.rv, process |-> crashes,
                         acked |-> answered]
  IN
  /\ pc = "createCall"
  /\ \/ \E c \in ClusterIds :
          LET Named(o) == [o EXCEPT !.clusterId = c]
          IN  /\ Allocate(c, from(TRUE))
              /\ Mutate(Named(orig))
              /\ Continue(Named(obj), "createUpdate")
              /\ UNCHANGED faults
     \/ /\ \/ Fault /\ \E c \in ClusterIds : Allocate(c, from(FALSE))
           \/ Fault /\ UNCHANGED cloud
           \/ /\ \A c \in ClusterIds : state[c] # "unused"
              /\ UNCHANGED <<cloud, faults>>
        /\ Return(obj, "unavailable")
        /\ UNCHANGED <<orig, cache>>
  /\ UNCHANGED <<store, queue, secret, outside, crashes>>

CreateUpdate ==
  /\ pc = "createUpdate"
  /\ Save("createStatus", orig)
  /\ UNCHANGED <<cache, cloud, queue, orig, secret, outside, crashes>>

\* Mutant of CreateStatus: nobody waits for the cluster.
CreateActive ==
  /\ pc = "createStatus"
  /\ SetPhase("active")
  /\ UNCHANGED <<cache, cloud, queue, orig, secret, outside, crashes>>

CreateStatus ==
  /\ pc = "createStatus"
  /\ SetPhase("creating")
  /\ UNCHANGED <<cache, cloud, queue, orig, secret, outside, crashes>>

(* waitForCreationComplete                                                 *)

WaitGet ==
  LET c == obj.clusterId IN
  /\ pc = "waitGet"
  /\ \/ /\ NoAnswer(c)
        /\ Return(obj, "unavailable") /\ UNCHANGED delayed
     \/ /\ Present(c) /\ UNCHANGED faults
        /\ \/ /\ state[c] = "failed"
              /\ Return(obj, "creationFailed") /\ UNCHANGED delayed
           \/ /\ state[c] \in {"running", "poolBusy"}
              /\ Continue(obj, "caSecret") /\ UNCHANGED delayed
           \/ /\ state[c] \in {"initial", "busy", "deleting"}
              /\ Return(obj, "") /\ delayed' = TRUE
  /\ UNCHANGED <<store, cache, cloud, queued, orig, secret, outside, crashes>>

\* Mutant of CASecret: its error is dropped.
CASecretUnchecked ==
  /\ pc = "caSecret"
  /\ \/ Present(obj.clusterId) /\ UNCHANGED faults
        /\ secret' = IF secret = 0 THEN obj.uid ELSE secret
     \/ NoAnswer(obj.clusterId) /\ UNCHANGED secret
  /\ Continue(obj, "activeStatus")
  /\ UNCHANGED <<store, cache, cloud, queue, orig, outside, crashes>>

\* createCASecret, a secret of that name being as good as a new one.
CASecret ==
  LET made == secret' = IF secret = 0 THEN obj.uid ELSE secret
  IN
  /\ pc = "caSecret"
  /\ \/ /\ Present(obj.clusterId) /\ made /\ UNCHANGED faults
        /\ Continue(obj, "activeStatus")
     \/ /\ NoAnswer(obj.clusterId) /\ UNCHANGED secret
        /\ Return(obj, "unavailable")
     \/ Fault /\ made /\ Return(obj, "unavailable")
  /\ UNCHANGED <<store, cache, cloud, queue, orig, outside, crashes>>

Activate ==
  /\ pc = "activeStatus"
  /\ SetPhase("active")
  /\ UNCHANGED <<cache, cloud, queue, orig, secret, outside, crashes>>

(* importCluster                                                           *)

FixConfig(o) == [o EXCEPT !.fixed = TRUE]

ImportGet ==
  /\ pc = "importGet"
  /\ \/ /\ Present(obj.clusterId) /\ UNCHANGED faults
        /\ Mutate(FixConfig(orig)) /\ Continue(FixConfig(obj), "importPools")
     \/ /\ NoAnswer(obj.clusterId)
        /\ Return(obj, "unavailable") /\ UNCHANGED <<orig, cache>>
  /\ UNCHANGED <<store, cloud, queue, secret, outside, crashes>>

\* Mutant of ImportPools: the pools found in the cloud are not kept.
ImportNoPools ==
  /\ pc = "importPools"
  /\ \/ Present(obj.clusterId) /\ UNCHANGED faults /\ Continue(obj, "importUpdate")
     \/ NoAnswer(obj.clusterId) /\ Return(orig, "unavailable")
  /\ UNCHANGED <<store, cache, cloud, queue, orig, secret, outside, crashes>>

ImportPools ==
  LET c == obj.clusterId IN
  /\ pc = "importPools"
  /\ \/ /\ Present(c) /\ UNCHANGED faults
        /\ Continue([obj EXCEPT !.pools = upstream[c]], "importUpdate")
     \/ NoAnswer(c) /\ Return(orig, "unavailable")
  /\ UNCHANGED <<store, cache, cloud, queue, orig, secret, outside, crashes>>

ImportUpdate ==
  /\ pc = "importUpdate"
  /\ Save("caSecret", orig)
  /\ UNCHANGED <<cache, cloud, queue, orig, secret, outside, crashes>>

(* checkAndUpdate                                                          *)

CheckGet ==
  LET c == obj.clusterId IN
  /\ pc = "checkGet"
  /\ \/ /\ NoAnswer(c) /\ Return(obj, "unavailable")
        /\ UNCHANGED <<delayed, orig, cache>>
     \/ /\ Present(c) /\ state[c] = "busy" /\ obj.phase # "updating"
        /\ Continue(obj, "checkStatus")
        /\ UNCHANGED <<faults, delayed, orig, cache>>
     \/ /\ Present(c) /\ state[c] = "busy" /\ obj.phase = "updating"
        /\ Return(obj, "") /\ delayed' = TRUE
        /\ UNCHANGED <<faults, orig, cache>>
     \/ /\ Present(c) /\ state[c] # "busy"
        /\ Mutate(FixConfig(orig)) /\ Continue(FixConfig(obj), "checkFence")
        /\ UNCHANGED <<faults, delayed>>
  /\ UNCHANGED <<store, cloud, queued, secret, outside, crashes>>

CheckStatus ==
  /\ pc = "checkStatus"
  /\ SetPhase("updating")
  /\ UNCHANGED <<cache, cloud, queue, orig, secret, outside, crashes>>

CheckFence ==
  /\ pc = "checkFence"
  /\ Save("checkPools", orig)
  /\ UNCHANGED <<cache, cloud, queue, orig, secret, outside, crashes>>

\* A node pool is seen scaling, updating or removing, or none is.
CheckPools ==
  LET c == obj.clusterId IN
  /\ pc = "checkPools"
  /\ \/ NoAnswer(c) /\ Return(obj, "unavailable") /\ UNCHANGED delayed
     \/ /\ Present(c) /\ state[c] \in {"busy", "poolBusy"} /\ UNCHANGED faults
        /\ \/ /\ obj.phase # "updating"
              /\ Continue(obj, "poolsStatus") /\ UNCHANGED delayed
           \/ /\ obj.phase = "updating"
              /\ Return(obj, "") /\ delayed' = TRUE
     \/ /\ Present(c) /\ state[c] # "poolBusy"
        /\ Continue(obj, "batch") /\ UNCHANGED <<faults, delayed>>
  /\ UNCHANGED <<store, cache, cloud, queued, orig, secret, outside, crashes>>

PoolsStatus ==
  /\ pc = "poolsStatus"
  /\ SetPhase("updating")
  /\ delayed' = (delayed \/ err' = "")
  /\ UNCHANGED <<cache, cloud, queued, orig, secret, outside, crashes>>

(* updateUpstreamClusterState: UpdateNodePoolBatch brings the node pools of *)
(* the cluster to those of the spec the fence wrote, and says whether it    *)
(* changed something.  It says no when it only made or renamed pools, and   *)
(* does a part of the work when one of its requests fails.                  *)

Apply == upstream' = [upstream EXCEPT ![obj.clusterId] = obj.pools]

\* Mutant of NotChanged: the phase is left at "updating".
NotChangedQuiet == Return(obj, "")

NotChanged ==
  IF obj.phase # "active" THEN Continue(obj, "finishUpdate") ELSE Return(obj, "")

Batch ==
  LET c == obj.clusterId
      differs == Present(c) /\ upstream[c] # obj.pools
      open    == Present(c) /\ state[c] \in {"running", "poolBusy"}
      partly  == open /\ \E p \in Pools : upstream' = [upstream EXCEPT ![c] = p]
  IN
  /\ pc = "batch"
  /\ \/ /\ differs /\ open
        /\ (Apply /\ UNCHANGED faults) \/ (partly /\ Fault)
        /\ \E s \in {"running", "busy", "poolBusy"} : SetState(c, s)
        /\ Continue(obj, "changedUpdate")
     \/ /\ Present(c) /\ NotChanged /\ UNCHANGED <<faults, state>>
        /\ IF differs THEN open /\ Apply ELSE UNCHANGED upstream
     \/ /\ differs /\ ~open
        /\ Return(obj, "unavailable") /\ UNCHANGED <<faults, state, upstream>>
     \/ /\ NoAnswer(c) /\ Return(obj, "unavailable") /\ UNCHANGED state
        /\ UNCHANGED upstream \/ partly
  /\ UNCHANGED <<store, cache, origin, queue, orig, secret, outside, crashes>>

\* The phase is set in memory only, so enqueueUpdate takes its first branch.
ChangedUpdate ==
  /\ pc = "changedUpdate"
  /\ \/ /\ Accept(obj, SpecWrite(obj))
        /\ Return([cr' EXCEPT !.phase = "updating"], "")
        /\ queued' = TRUE
     \/ /\ \E e \in Errors : Refuse(obj, SpecWrite(obj), e) /\ Return(obj, e)
        /\ UNCHANGED queued
  /\ UNCHANGED <<cache, cloud, delayed, orig, secret, outside, crashes>>

FinishUpdate ==
  /\ pc = "finishUpdate"
  /\ Save("activeStatus", obj)
  /\ UNCHANGED <<cache, cloud, queue, orig, secret, outside, crashes>>

(* recordError                                                             *)

\* Mutant of Record: any failure turns the phase to "updating".
RecordAnyPhase ==
  LET o == [obj EXCEPT !.failure = err, !.phase = IF err # "" THEN "updating" ELSE @]
  IN
  /\ pc = "record"
  /\ \/ obj.failure = err /\ UNCHANGED <<obj, store, faults>>
     \/ /\ obj.failure # err
        /\ \/ Accept(o, StatusWrite(o)) /\ obj' = cr'
           \/ \E e \in Errors : Refuse(o, StatusWrite(o), e) /\ obj' = Empty
  /\ pc' = "remove"
  /\ UNCHANGED <<cache, cloud, queue, orig, err, secret, outside, crashes>>

Record ==
  LET o == [obj EXCEPT !.failure = err,
                       !.phase = IF err # "" /\ @ = "active" THEN "updating" ELSE @]
  IN
  /\ pc = "record"
  /\ \/ obj.failure = err /\ UNCHANGED <<obj, store, faults>>
     \/ /\ obj.failure # err
        /\ \/ Accept(o, StatusWrite(o)) /\ obj' = cr'
           \/ \E e \in Errors : Refuse(o, StatusWrite(o), e) /\ obj' = Empty
  /\ pc' = "remove"
  /\ UNCHANGED <<cache, cloud, queue, orig, err, secret, outside, crashes>>

-----------------------------------------------------------------------------
(* The remove handler: it keeps the finalizer on a live config, and calls  *)
(* OnAckConfigRemoved for one that is being deleted.  A zero object from   *)
(* the first handler is dropped for the one the sync began with.           *)

Latest == IF obj.uid = 0 THEN orig ELSE obj

\* Mutants of Spared: imported clusters are deleted too, and clusters still
\* being made are left.
SparedUncreated(o) == o.phase = ""
SparedInactive(o) == Imported \/ o.phase \in {"", "creating"}

\* OnAckConfigRemoved leaves the cluster alone.
Spared(o) == Imported \/ o.phase = ""

Remove ==
  /\ pc = "remove"
  /\ \/ /\ Latest.fin = (Latest.life = "live")
        /\ Finish("")
     \/ /\ Latest.life = "live" /\ ~Latest.fin
        /\ Continue([Latest EXCEPT !.fin = TRUE], "addFinalizer")
        /\ UNCHANGED <<queue, orig>>
     \/ /\ Latest.life = "deleting" /\ Latest.fin /\ Spared(Latest)
        /\ Continue([Latest EXCEPT !.fin = FALSE], "removeFinalizer")
        /\ UNCHANGED <<queue, orig>>
     \/ /\ Latest.life = "deleting" /\ Latest.fin /\ ~Spared(Latest)
        /\ Continue(Latest, "removeCall")
        /\ UNCHANGED <<queue, orig>>
  /\ UNCHANGED <<store, cache, cloud, secret, outside, faults, crashes>>

\* The remove handler's Update, which adds or removes the finalizer.
SaveFinalizer ==
  /\ pc \in {"addFinalizer", "removeFinalizer"}
  /\ \/ Accept(obj, SpecWrite(obj)) /\ Finish("")
     \/ \E e \in Errors : Refuse(obj, SpecWrite(obj), e) /\ Finish(e)
  /\ UNCHANGED <<cache, cloud, secret, outside, crashes>>

\* Mutant of RemoveCall: the first refusal is final.
RemoveCallOnce ==
  /\ pc = "removeCall"
  /\ \/ /\ Deletable(obj.clusterId) /\ SetState(obj.clusterId, "deleting")
        /\ Continue([obj EXCEPT !.fin = FALSE], "removeFinalizer")
        /\ UNCHANGED <<faults, queue, orig>>
     \/ /\ ~Deletable(obj.clusterId) /\ FinishForget("unavailable")
        /\ UNCHANGED <<state, faults>>
  /\ UNCHANGED <<store, cache, upstream, origin, secret, outside, crashes>>

\* ack.RemoveCluster: an error ends its backoff loop at the first attempt.
RemoveCall ==
  LET c == obj.clusterId
      deletes == Deletable(c) /\ SetState(c, "deleting")
  IN
  /\ pc = "removeCall"
  /\ \/ /\ deletes /\ UNCHANGED <<faults, queue, orig>>
        /\ Continue([obj EXCEPT !.fin = FALSE], "removeFinalizer")
     \/ ~Deletable(c) /\ Finish("unavailable") /\ UNCHANGED <<state, faults>>
     \/ Fault /\ Finish("unavailable") /\ (deletes \/ UNCHANGED state)
  /\ UNCHANGED <<store, cache, upstream, origin, secret, outside, crashes>>

-----------------------------------------------------------------------------
(* Everything else that happens.                                           *)

Worker ==
  \/ Sync \/ BeginImport \/ CreateCall \/ CreateUpdate \/ CreateStatus
  \/ WaitGet \/ CASecret \/ Activate \/ ImportGet \/ ImportPools
  \/ ImportUpdate \/ CheckGet \/ CheckStatus \/ CheckFence \/ CheckPools
  \/ PoolsStatus \/ Batch \/ ChangedUpdate \/ FinishUpdate \/ Record
  \/ Remove \/ SaveFinalizer \/ RemoveCall

\* A watch event updates the cache and enqueues the key.
Deliver ==
  /\ \E v \in watch : Receive(v)
  /\ queued' = TRUE
  /\ UNCHANGED <<cloud, delayed, pc, orig, obj, err, secret, outside, faults,
                 crashes>>

Timer ==
  /\ delayed /\ delayed' = FALSE /\ queued' = TRUE
  /\ UNCHANGED <<store, cache, cloud, pc, orig, obj, err, secret, outside,
                 faults, crashes>>

\* Mutant of Restart: the next process waits for something to change.
RestartIdle ==
  /\ crashes < MaxCrashes /\ crashes' = crashes + 1
  /\ pc' = "idle" /\ orig' = Empty /\ obj' = Empty /\ err' = ""
  /\ cache' = cr /\ watch' = {}
  /\ queued' = FALSE /\ delayed' = FALSE
  /\ UNCHANGED <<cr, cloud, secret, outside, faults>>

\* The process dies; the next one lists the objects and enqueues them all.
Restart ==
  /\ crashes < MaxCrashes /\ crashes' = crashes + 1
  /\ pc' = "idle" /\ orig' = Empty /\ obj' = Empty /\ err' = ""
  /\ cache' = cr /\ watch' = {}
  /\ queued' = TRUE /\ delayed' = FALSE
  /\ UNCHANGED <<cr, cloud, secret, outside, faults>>

UserEdit ==
  /\ cr.life # "gone"
  /\ outside < MaxOutside /\ outside' = outside + 1
  /\ \E p \in Pools, f \in {cr.fixed, FALSE} :
       LET new == [cr EXCEPT !.pools = p, !.fixed = f]
       IN  new # cr /\ Commit(new)
  /\ UNCHANGED <<cache, cloud, queue, pc, orig, obj, err, secret, faults, crashes>>

UserDelete ==
  /\ cr.life = "live"
  /\ Commit([cr EXCEPT !.life = IF cr.fin THEN "deleting" ELSE "gone"])
  /\ UNCHANGED <<cache, cloud, queue, pc, orig, obj, err, secret, outside,
                 faults, crashes>>

UserCreate ==
  /\ cr.life = "gone" /\ cr.uid < MaxUid
  /\ \E o \in NewConfigs(cr.rv, cr.uid + 1, {c \in ClusterIds : state[c] = "running"}) :
       Commit(o)
  /\ UNCHANGED <<cache, cloud, queue, pc, orig, obj, err, secret, outside,
                 faults, crashes>>

\* The garbage collector removes a secret whose owner is gone.
Collect ==
  /\ secret # 0 /\ (secret # cr.uid \/ cr.life = "gone")
  /\ secret' = 0
  /\ UNCHANGED <<store, cache, cloud, queue, pc, orig, obj, err, outside,
                 faults, crashes>>

CloudStep(c) ==
  /\ Evolve(c)
  /\ UNCHANGED <<store, cache, queue, pc, orig, obj, err, secret, outside,
                 faults, crashes>>

CloudDisturbed(c) ==
  /\ outside < MaxOutside /\ outside' = outside + 1
  /\ Disturb(c)
  /\ UNCHANGED <<store, cache, queue, pc, orig, obj, err, secret, faults, crashes>>

World ==
  \/ UserEdit \/ UserDelete \/ UserCreate \/ Collect
  \/ \E c \in ClusterIds : CloudStep(c) \/ CloudDisturbed(c)

Next == Worker \/ Deliver \/ Timer \/ Restart \/ World

Spec == Init /\ [][Next]_vars

\* The worker goroutine, the watch, the timers and the cloud keep going.
Fairness ==
  /\ WF_vars(Worker) /\ WF_vars(Deliver) /\ WF_vars(Timer) /\ WF_vars(Collect)
  /\ \A c \in ClusterIds : WF_vars(CloudStep(c))

FairSpec == Spec /\ Fairness

-----------------------------------------------------------------------------
TypeOK ==
  /\ StoreTypeOK /\ CloudTypeOK
  /\ queued \in BOOLEAN /\ delayed \in BOOLEAN
  /\ pc \in Points
  /\ orig \in Config /\ obj \in Config
  /\ err \in Errors \cup {""}
  /\ secret \in Nat
  /\ outside \in Nat /\ faults \in Nat /\ crashes \in Nat

-----------------------------------------------------------------------------
(* Safety.                                                                 *)

\* What a config that has been removed and made anew keeps apart.
First == cr.uid = 1 /\ cr.life # "gone"

\* Whoever watches the stored config sees the phases in the order their
\* handlers promise and a cluster that is named once and for all, whatever
\* copies, conflicts, lost answers and restarts the writes go through.
Abs == INSTANCE ConfigPhases
         WITH life <- cr.life, phase <- cr.phase, clusterId <- cr.clusterId
PhasesImplemented == Abs!Spec

\* One process never makes two clusters from the same version of a config
\* when it was told the first one's id: the in-place assignment of ack.Create
\* to the informer's object is what stops a retry.
OneClusterPerVersion ==
  \A c, d \in ClusterIds :
    (origin[c].acked /\ origin[d].acked /\ origin[c].uid = origin[d].uid
       /\ origin[c].rv = origin[d].rv /\ origin[c].process = origin[d].process)
    => c = d

\* The stored phase does not run ahead of the cloud: a cluster is being made
\* before the phase says so, and has been up before the phase says "active".
PhaseTracksCluster ==
  /\ cr.phase = "creating" => state[cr.clusterId] # "unused"
  /\ cr.phase \in {"active", "updating"} =>
       state[cr.clusterId] \notin {"unused", "initial", "failed"}

\* An active config comes with the CA secret that clients read (here for the
\* first config of its name; recreated ones are another matter).
ActiveHasSecret ==
  First /\ cr.phase \in {"active", "updating"} => secret # 0

\* An imported cluster is never brought to the empty pool list its config
\* began with: the list is filled from the cloud before updates start.
ImportKeepsPools ==
  Imported /\ cr.phase \in {"active", "updating"} =>
    cr.pools # NoPools /\ upstream[cr.clusterId] # NoPools

\* The operator deletes a cluster only when the config it was made for is
\* being deleted or is gone; it never deletes one it did not make.
NoUnaskedDelete ==
  \A c \in ClusterIds : state[c] \in {"deleting", "deleted"} =>
    /\ origin[c].uid # 0
    /\ origin[c].uid < cr.uid \/ cr.life # "live"

\* The finalizer goes only after the cloud accepted to delete the cluster of
\* a config that got as far as "creating".
RemovalDeletesCluster ==
  [][cr.life = "deleting" /\ cr'.life = "gone" /\ ~Imported /\ cr.phase # "" =>
       state[cr.clusterId] \in {"deleting", "deleted"}]_cr

\* The pools a user asked for are replaced by no one else, except while an
\* import fills them in: a write from an old copy is refused.
UserPoolsKept ==
  [][cr'.pools # cr.pools =>
       outside' # outside \/ cr.life = "gone" \/ cr.phase = "importing"]_cr

-----------------------------------------------------------------------------
(* Liveness.                                                               *)

\* Its cluster failed, or the cloud has no room left to make it one.
Lost ==
  \/ cr.phase # "" /\ state[cr.clusterId] = "failed"
  \/ cr.clusterId = NoCluster /\ \A c \in ClusterIds : state[c] # "unused"

\* Once the user, the faults and the crashes are through, a live config that
\* is not lost ends active, without failure, its pools in the cloud.
Settles ==
  <>[](\/ cr.life # "live" \/ Lost
       \/ /\ cr.phase = "active" /\ cr.failure = ""
          /\ upstream[cr.clusterId] = cr.pools)

\* A config that is being deleted disappears, or its cluster does.
DeletionProgresses ==
  cr.life = "deleting" ~>
    \/ cr.life = "gone"
    \/ cr.clusterId \in ClusterIds /\ state[cr.clusterId] = "deleted"
=============================================================================
