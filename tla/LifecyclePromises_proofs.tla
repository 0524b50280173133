----------------------- MODULE LifecyclePromises_proofs -----------------------
(***************************************************************************)
(* What follows from the invariant of ClusterLifecycle for every write to  *)
(* the stored config: the refinement of ConfigPhases and two action        *)
(* properties.                                                             *)
(***************************************************************************)
EXTENDS LifecycleInvariant_proofs

\* The phases a handler may write, given the phase of its object.
NextPhase(from, to) ==
  \/ to = from
  \/ from = "" /\ Imported /\ to = "importing"
  \/ from = "" /\ ~Imported /\ to = "creating" /\ cr.clusterId # NoCluster
  \/ from # "" /\ to = "active" /\ pc = "activeStatus"
  \/ from = "active" /\ to = "updating"

\* A step that writes nothing.
NoWrite == cr' = cr /\ watch' \subseteq watch

\* A handler writes spec and finalizers from the current version.
SpecStep ==
  /\ obj.rv = cr.rv /\ Current(obj, cr) /\ Commit(SpecWrite(obj))
  /\ obj.life = "live" \/ pc = "removeFinalizer"

\* A handler writes the status of a live config from its current version.
StatusStep ==
  /\ obj.rv = cr.rv /\ Current(obj, cr) /\ obj.life = "live"
  /\ \E o \in Config : Commit(StatusWrite(o)) /\ NextPhase(obj.phase, o.phase)

LEMMA SaveSteps ==
  ASSUME IInv, NEW point, NEW back, Save(point, back), obj.life = "live"
  PROVE  NoWrite \/ SpecStep
<1>1. Stored(obj, SpecWrite(obj))
  BY Parts, SaveEnds, Zenon
<1>2. CASE UNCHANGED store
  BY <1>2 DEF store, NoWrite
<1>3. CASE obj.rv = cr.rv /\ Commit(SpecWrite(obj))
  BY <1>3, CurrentCopy, Zenon DEF SpecStep
<1> QED BY <1>1, <1>2, <1>3 DEF Stored

LEMMA SetPhaseSteps ==
  ASSUME IInv, NEW phase \in Phases, SetPhase(phase), obj.life = "live",
         obj.rv = cr.rv => NextPhase(obj.phase, phase)
  PROVE  NoWrite \/ StatusStep
<1> DEFINE o == WithPhase(phase)
<1>1. Stored(o, StatusWrite(o))
  BY Parts, SetPhaseEnds, Zenon
<1>2. o \in Config /\ o.rv = obj.rv /\ o.phase = phase
  BY Parts DEF WithPhase, Config
<1> HIDE DEF o
<1>3. CASE UNCHANGED store
  BY <1>3 DEF store, NoWrite
<1>4. CASE o.rv = cr.rv /\ Commit(StatusWrite(o))
  <2>1. NextPhase(obj.phase, o.phase) /\ Current(obj, cr)
    BY <1>2, <1>4, CurrentCopy
  <2> QED BY <1>2, <1>4, <2>1, Zenon DEF StatusStep
<1> QED BY <1>1, <1>3, <1>4 DEF Stored

LEMMA RecordSteps ==
  ASSUME IInv, Record
  PROVE  NoWrite \/ StatusStep
<1> DEFINE o == [obj EXCEPT !.failure = err,
                            !.phase = IF err # "" /\ @ = "active"
                                      THEN "updating" ELSE @]
<1>1. obj \in Config /\ obj.life = "live" /\ err \in Errors \cup {""}
  <2>1. pc = "record"
    BY DEF Record
  <2> QED BY <2>1, AtHandler, Parts DEF TypeOK
<1>2. /\ o \in Config /\ o.rv = obj.rv
      /\ o.phase = obj.phase \/ (obj.phase = "active" /\ o.phase = "updating")
  <2>1. o \in Config
    BY <1>1, ConfigFields, FieldTypes DEF Phases
  <2> QED BY <1>1, <2>1 DEF Config
<1>3. \/ UNCHANGED <<obj, cr, watch>>
      \/ Accept(o, StatusWrite(o)) /\ obj' = cr'
      \/ \E e \in Errors : Refuse(o, StatusWrite(o), e) /\ obj' = Empty
  BY Zenon DEF Record, store
<1> HIDE DEF o
<1>4. UNCHANGED <<cr, watch>> \/ Stored(o, StatusWrite(o))
  BY <1>3, AcceptStores, RefuseStores, Zenon
<1>5. CASE o.rv = cr.rv /\ Commit(StatusWrite(o))
  <2>1. Current(obj, cr) /\ NextPhase(obj.phase, o.phase)
    BY <1>2, <1>5, CurrentCopy DEF NextPhase
  <2> QED BY <1>1, <1>2, <1>5, <2>1, Zenon DEF StatusStep
<1> QED BY <1>4, <1>5 DEF Stored, store, NoWrite

\* Every step leaves the stored config alone, or is one of these writes.
LEMMA StoreChanges ==
  ASSUME IInv, Next
  PROVE  \/ NoWrite \/ SpecStep \/ StatusStep
         \/ UserEdit \/ UserDelete \/ UserCreate
<1>1. ASSUME BeginImport PROVE NoWrite \/ StatusStep
  <2>1. /\ SetPhase("importing") /\ "importing" \in Phases /\ pc = "importing"
    BY <1>1 DEF BeginImport, Phases
  <2>2. obj.life = "live" /\ NextPhase(obj.phase, "importing")
    BY <2>1, AtHandler DEF IInv, PointOK, NextPhase
  <2> QED BY <2>1, <2>2, SetPhaseSteps, Zenon
<1>2. ASSUME CreateStatus PROVE NoWrite \/ StatusStep
  <2>1. SetPhase("creating") /\ "creating" \in Phases /\ pc = "createStatus"
    BY <1>2 DEF CreateStatus, Phases
  <2>2. obj.life = "live" /\ (obj.rv = cr.rv => NextPhase(obj.phase, "creating"))
    BY <2>1, AtHandler DEF IInv, PointOK, NextPhase
  <2> QED BY <2>1, <2>2, SetPhaseSteps, Zenon
<1>3. ASSUME Activate PROVE NoWrite \/ StatusStep
  <2>1. SetPhase("active") /\ "active" \in Phases /\ pc = "activeStatus"
    BY <1>3 DEF Activate, Phases
  <2>2. obj.life = "live" /\ NextPhase(obj.phase, "active")
    BY <2>1, AtHandler DEF IInv, PointOK, NextPhase
  <2> QED BY <2>1, <2>2, SetPhaseSteps, Zenon
<1>4. ASSUME CheckStatus \/ PoolsStatus PROVE NoWrite \/ StatusStep
  <2>1. /\ SetPhase("updating") /\ "updating" \in Phases
        /\ pc \in {"checkStatus", "poolsStatus"}
    BY <1>4 DEF CheckStatus, PoolsStatus, Phases
  <2>2. obj.life = "live" /\ NextPhase(obj.phase, "updating")
    BY <2>1, AtHandler DEF IInv, PointOK, NextPhase
  <2> QED BY <2>1, <2>2, SetPhaseSteps, Zenon
<1>5. ASSUME CreateUpdate \/ ImportUpdate \/ CheckFence \/ FinishUpdate
      PROVE  NoWrite \/ SpecStep
  <2>1. /\ \E point, back : Save(point, back)
        /\ pc \in {"createUpdate", "importUpdate", "checkFence", "finishUpdate"}
    BY <1>5 DEF CreateUpdate, ImportUpdate, CheckFence, FinishUpdate
  <2>2. obj.life = "live"
    BY <2>1, AtHandler
  <2> QED BY <2>1, <2>2, SaveSteps, Zenon
<1>6. ASSUME ChangedUpdate \/ SaveFinalizer PROVE NoWrite \/ SpecStep
  <2>1. Stored(obj, SpecWrite(obj))
    BY <1>6, AcceptStores, RefuseStores, Zenon DEF ChangedUpdate, SaveFinalizer
  <2>2. obj.life = "live" \/ pc = "removeFinalizer"
    BY <1>6 DEF ChangedUpdate, SaveFinalizer, IInv, PointOK
  <2>3. obj.rv = cr.rv => Current(obj, cr)
    BY CurrentCopy
  <2> QED BY <2>1, <2>2, <2>3 DEF Stored, store, SpecStep, NoWrite
<1>7. ASSUME \/ Sync \/ WaitGet \/ CASecret \/ CheckPools \/ ImportPools
             \/ ImportGet \/ CheckGet \/ Batch \/ CreateCall \/ Remove \/ RemoveCall
      PROVE  NoWrite
  BY <1>7 DEF Sync, WaitGet, CASecret, CheckPools, ImportPools, ImportGet,
     CheckGet, Batch, CreateCall, Remove, RemoveCall, store, NoWrite
<1>8. ASSUME \/ Deliver \/ Timer \/ Restart \/ Collect
             \/ \E c \in ClusterIds : CloudStep(c) \/ CloudDisturbed(c)
      PROVE  NoWrite
  BY <1>8 DEF Deliver, Receive, Timer, Restart, Collect, CloudStep,
     CloudDisturbed, store, NoWrite
<1>9. Record => NoWrite \/ StatusStep
  BY RecordSteps, Zenon
<1>10. Worker => NoWrite \/ SpecStep \/ StatusStep
  BY <1>1, <1>2, <1>3, <1>4, <1>5, <1>6, <1>7, <1>9, Zenon DEF Worker
<1> QED BY <1>8, <1>10, Zenon DEF Next, World

\* A write leaves everything as it was, or makes a new version and its event.
Versioned ==
  \/ cr' = cr /\ watch' = watch
  \/ cr'.rv = cr.rv + 1 /\ watch' = watch \cup {cr'}

LEMMA CommitVersions ==
  ASSUME cr \in Config, NEW new \in Config, Commit(new)
  PROVE  Versioned
<1>1. cr.rv \in Nat /\ cr.rv + 1 \in Nat
  <2>1. cr.rv \in Nat
    BY ConfigFields, Zenon
  <2> QED BY <2>1
<1>2. [new EXCEPT !.rv = cr.rv + 1].rv = cr.rv + 1
  BY <1>1, VersionType, Zenon
<1> QED BY <1>2 DEF Commit, Versioned

\* What a write of the spec may change.
LEMMA SpecStepShape ==
  ASSUME IInv, SpecStep
  PROVE  /\ Versioned /\ cr'.uid = cr.uid
         /\ cr'.phase = cr.phase /\ cr'.pools = obj.pools
         /\ cr'.clusterId = obj.clusterId
         /\ \/ cr'.life = cr.life
            \/ pc = "removeFinalizer" /\ cr.life = "deleting" /\ cr'.life = "gone"
<1>1. /\ cr \in Config /\ watch \in SUBSET Config /\ obj \in Config
      /\ Commit(SpecWrite(obj)) /\ Current(obj, cr)
      /\ obj.life = "live" \/ pc = "removeFinalizer"
  BY Parts DEF SpecStep
<1>2. /\ SpecWrite(obj) \in Config /\ SpecWrite(obj).rv = cr.rv
      /\ SpecWrite(obj).uid = cr.uid /\ SpecWrite(obj).phase = cr.phase /\ SpecWrite(obj).pools = obj.pools
      /\ SpecWrite(obj).clusterId = obj.clusterId
      /\ SpecWrite(obj).life =
           IF cr.life = "deleting" /\ ~obj.fin THEN "gone" ELSE cr.life
  BY <1>1, SpecWriteType, Zenon
<1>3. /\ cr'.uid = SpecWrite(obj).uid
      /\ cr'.phase = SpecWrite(obj).phase /\ cr'.pools = SpecWrite(obj).pools
      /\ cr'.clusterId = SpecWrite(obj).clusterId /\ cr'.life = SpecWrite(obj).life
  BY <1>1, <1>2, CommitType, Zenon
<1>4. obj.life = cr.life
  BY <1>1 DEF Current
<1>5. Versioned
  BY <1>1, <1>2, CommitVersions, Zenon
<1> QED BY <1>1, <1>2, <1>3, <1>4, <1>5

\* What a write of the status may change.
LEMMA StatusStepShape ==
  ASSUME IInv, StatusStep
  PROVE  /\ Versioned /\ cr'.uid = cr.uid
         /\ cr'.pools = cr.pools /\ cr'.clusterId = cr.clusterId
         /\ cr'.life = "live" /\ cr.life = "live"
         /\ NextPhase(obj.phase, cr'.phase) /\ Current(obj, cr)
<1>1. /\ cr \in Config /\ watch \in SUBSET Config /\ Current(obj, cr)
      /\ obj.life = "live"
  BY Parts DEF StatusStep
<1>2. PICK o \in Config : Commit(StatusWrite(o)) /\ NextPhase(obj.phase, o.phase)
  BY DEF StatusStep
<1>3. /\ StatusWrite(o) \in Config /\ StatusWrite(o).rv = cr.rv
      /\ StatusWrite(o).uid = cr.uid
      /\ StatusWrite(o).life = cr.life /\ StatusWrite(o).phase = o.phase
      /\ StatusWrite(o).clusterId = cr.clusterId /\ StatusWrite(o).pools = cr.pools
  BY <1>1, <1>2, StatusWriteType, Zenon
<1>4. /\ cr'.phase = o.phase /\ cr'.pools = cr.pools /\ cr'.uid = cr.uid
      /\ cr'.clusterId = cr.clusterId /\ cr'.life = cr.life
  BY <1>1, <1>2, <1>3, CommitType, Zenon
<1>5. Versioned
  BY <1>1, <1>2, <1>3, CommitVersions, Zenon
<1> QED BY <1>1, <1>2, <1>4, <1>5 DEF Current

\* What the user's writes change.
LEMMA UserShape ==
  ASSUME IInv
  PROVE  /\ UserEdit => /\ Versioned /\ cr'.uid = cr.uid /\ cr'.pools \in Pools
                        /\ cr'.phase = cr.phase /\ cr'.clusterId = cr.clusterId
                        /\ cr'.life = cr.life /\ outside' # outside
         /\ UserDelete => /\ Versioned /\ cr'.uid = cr.uid
                          /\ cr'.phase = cr.phase /\ cr'.clusterId = cr.clusterId
                          /\ cr.life = "live" /\ cr'.life \in {"deleting", "gone"}
                          /\ cr'.pools = cr.pools
         /\ UserCreate => /\ Versioned /\ cr'.uid = cr.uid + 1
                          /\ cr.life = "gone" /\ cr'.life = "live" /\ cr'.phase = ""
                          /\ cr'.clusterId \in IF Imported THEN ClusterIds
                                                           ELSE {NoCluster}
<1>1. cr \in Config /\ watch \in SUBSET Config /\ outside \in Nat
  BY Parts DEF TypeOK
<1>2. ASSUME UserEdit
      PROVE  /\ Versioned /\ cr'.uid = cr.uid /\ cr'.pools \in Pools
             /\ cr'.phase = cr.phase /\ cr'.clusterId = cr.clusterId
             /\ cr'.life = cr.life /\ outside' # outside
  <2>1. PICK p \in Pools, f \in BOOLEAN : Commit([cr EXCEPT !.pools = p, !.fixed = f])
    <3>1. cr.fixed \in BOOLEAN
      BY <1>1 DEF Config
    <3> QED BY <1>2, <3>1 DEF UserEdit
  <2> DEFINE new == [cr EXCEPT !.pools = p, !.fixed = f]
  <2>2. /\ new \in Config /\ new.rv = cr.rv /\ new.phase = cr.phase
        /\ new.life = cr.life /\ new.clusterId = cr.clusterId
        /\ new.uid = cr.uid /\ new.pools = p
    BY <1>1 DEF Config
  <2> HIDE DEF new
  <2>3. Commit(new)
    BY <2>1 DEF new
  <2>4. /\ cr'.phase = cr.phase /\ cr'.clusterId = cr.clusterId
        /\ cr'.life = cr.life /\ cr'.uid = cr.uid /\ cr'.pools = p
    BY <1>1, <2>2, <2>3, CommitType, Zenon
  <2>5. outside' = outside + 1
    BY <1>2 DEF UserEdit
  <2>6. Versioned
    BY <1>1, <2>2, <2>3, CommitVersions, Zenon
  <2> QED BY <1>1, <2>4, <2>5, <2>6
<1>3. ASSUME UserDelete
      PROVE  /\ Versioned /\ cr'.uid = cr.uid
             /\ cr'.phase = cr.phase /\ cr'.clusterId = cr.clusterId
             /\ cr.life = "live" /\ cr'.life \in {"deleting", "gone"}
             /\ cr'.pools = cr.pools
  <2>1. PICK l \in {"deleting", "gone"} : Commit([cr EXCEPT !.life = l])
    BY <1>3 DEF UserDelete
  <2> DEFINE new == [cr EXCEPT !.life = l]
  <2>2. /\ new \in Config /\ new.rv = cr.rv /\ new.phase = cr.phase
        /\ new.life = l /\ new.clusterId = cr.clusterId /\ new.pools = cr.pools
        /\ new.uid = cr.uid
    BY <1>1 DEF Config
  <2> HIDE DEF new
  <2>3. Commit(new)
    BY <2>1 DEF new
  <2>4. /\ cr'.phase = cr.phase /\ cr'.clusterId = cr.clusterId
        /\ cr'.life = l /\ cr'.pools = cr.pools /\ cr'.uid = cr.uid
    BY <1>1, <2>2, <2>3, CommitType, Zenon
  <2>5. cr.life = "live"
    BY <1>3 DEF UserDelete
  <2>6. Versioned
    BY <1>1, <2>2, <2>3, CommitVersions, Zenon
  <2> QED BY <2>4, <2>5, <2>6
<1>4. ASSUME UserCreate
      PROVE  /\ Versioned /\ cr'.uid = cr.uid + 1
             /\ cr.life = "gone" /\ cr'.life = "live" /\ cr'.phase = ""
             /\ cr'.clusterId \in IF Imported THEN ClusterIds ELSE {NoCluster}
  <2>1. PICK r, new : /\ r \subseteq ClusterIds
                      /\ new \in NewConfigs(cr.rv, cr.uid + 1, r) /\ Commit(new)
    BY <1>4 DEF UserCreate
  <2>2. cr.rv \in Nat /\ cr.uid + 1 \in Nat
    <3>1. cr.rv \in Nat /\ cr.uid \in Nat
      BY <1>1, ConfigFields, Zenon
    <3> QED BY <3>1
  <2>3. new \in Config
    BY <2>1, <2>2, NewConfigsType, Zenon
  <2>4. /\ new.rv = cr.rv /\ new.uid = cr.uid + 1
        /\ new.life = "live" /\ new.phase = ""
        /\ new.clusterId \in IF Imported THEN ClusterIds ELSE {NoCluster}
    BY <2>1 DEF NewConfigs
  <2>5. /\ cr'.life = new.life /\ cr'.phase = new.phase
        /\ cr'.clusterId = new.clusterId /\ cr'.uid = new.uid
    BY <1>1, <2>1, <2>3, <2>4, CommitType, Zenon
  <2>6. cr.life = "gone"
    BY <1>4 DEF UserCreate
  <2>7. Versioned
    BY <1>1, <2>1, <2>3, CommitVersions, Zenon
  <2> QED BY <2>4, <2>5, <2>6, <2>7
<1> QED BY <1>2, <1>3, <1>4

-----------------------------------------------------------------------------
(* Each step, and the theorems.                                            *)

LEMMA BornFirst ==
  ASSUME Init
  PROVE  Abs!Born
<1>1. PICK c \in ClusterIds : cr \in NewConfigs(1, 1, {c})
  BY DEF Init
<1> QED BY <1>1 DEF NewConfigs, Abs!Born

LEMMA StepRefines ==
  ASSUME IInv, [Next]_vars
  PROVE  [Abs!Change]_(Abs!seen)
<1>1. CASE NoWrite
  BY <1>1 DEF NoWrite, Abs!seen
<1>2. CASE SpecStep
  <2>1. Current(obj, cr) /\ cr \in Config /\ obj \in Config
    BY <1>2, Parts DEF SpecStep
  <2>2. /\ cr'.phase = cr.phase /\ cr'.clusterId = obj.clusterId
        /\ \/ cr'.life = cr.life
           \/ cr.life = "deleting" /\ cr'.life = "gone"
    BY <1>2, SpecStepShape
  <2>3. obj.clusterId \in ClusterIds \cup {NoCluster}
    BY <2>1, ConfigFields, Zenon
  <2>4. CASE cr'.clusterId = cr.clusterId
    BY <2>2, <2>4 DEF Abs!seen, Abs!Change, Abs!Leave
  <2>5. CASE cr'.clusterId # cr.clusterId
    <3>1. /\ cr.clusterId = NoCluster /\ cr.phase = "" /\ cr.life = "live"
          /\ cr'.clusterId \in ClusterIds
      BY <2>1, <2>2, <2>3, <2>5 DEF Current
    <3> QED BY <2>2, <3>1 DEF Abs!Change, Abs!Name
  <2> QED BY <2>4, <2>5
<1>3. CASE StatusStep
  <2>1. /\ cr'.clusterId = cr.clusterId /\ cr'.life = "live" /\ cr.life = "live"
        /\ NextPhase(obj.phase, cr'.phase)
        /\ obj.phase = cr.phase \/ (obj.phase = "updating" /\ cr.phase = "active")
    BY <1>3, StatusStepShape DEF Current
  <2>2. cr.phase \in Phases
    BY Parts, ConfigFields, Zenon
  <2>3. \/ cr'.phase = cr.phase
        \/ cr.phase = "" /\ Imported /\ cr'.phase = "importing"
        \/ cr.phase = "" /\ ~Imported /\ cr'.phase = "creating" /\ cr.clusterId # NoCluster
        \/ cr.phase \in {"creating", "importing", "updating"} /\ cr'.phase = "active"
        \/ cr.phase = "active" /\ cr'.phase = "updating"
    BY <2>1, <2>2 DEF NextPhase, Phases
  <2> QED BY <2>1, <2>3
          DEF Abs!seen, Abs!Change, Abs!BeginImporting, Abs!BeginCreating,
              Abs!Activate, Abs!BeginUpdating
<1>4. CASE UserEdit
  BY <1>4, UserShape DEF Abs!seen
<1>5. CASE UserDelete
  BY <1>5, UserShape DEF Abs!Change, Abs!Leave
<1>6. CASE UserCreate
  BY <1>6, UserShape DEF Abs!Change, Abs!Reborn, Abs!Born
<1>7. CASE UNCHANGED vars
  BY <1>7 DEF vars, Abs!seen
<1> QED BY <1>1, <1>2, <1>3, <1>4, <1>5, <1>6, <1>7, StoreChanges, Zenon

LEMMA StepKeepsPools ==
  ASSUME IInv, [Next]_vars, cr'.pools # cr.pools
  PROVE  outside' # outside \/ cr.life = "gone" \/ cr.phase = "importing"
<1>1. CASE SpecStep
  BY <1>1, SpecStepShape DEF SpecStep, Current
<1>2. CASE StatusStep
  BY <1>2, StatusStepShape
<1>3. CASE UserEdit \/ UserDelete \/ UserCreate
  BY <1>3, UserShape
<1>4. CASE UNCHANGED vars \/ NoWrite
  BY <1>4 DEF vars, NoWrite
<1> QED BY <1>1, <1>2, <1>3, <1>4, StoreChanges

LEMMA StepRemoves ==
  ASSUME IInv, [Next]_vars, cr.life = "deleting", cr'.life = "gone", ~Imported,
         cr.phase # ""
  PROVE  state[cr.clusterId] \in {"deleting", "deleted"}
<1>1. CASE SpecStep
  <2>1. pc = "removeFinalizer" /\ Current(obj, cr)
    BY <1>1, SpecStepShape DEF SpecStep
  <2>2. Spared(obj) \/ state[obj.clusterId] \in {"deleting", "deleted"}
    BY <2>1 DEF IInv, PointOK
  <2>3. obj.clusterId = cr.clusterId /\ obj.phase # ""
    BY <2>1 DEF Current
  <2> QED BY <2>2, <2>3 DEF Spared
<1>2. CASE StatusStep
  BY <1>2, StatusStepShape
<1>3. CASE UserEdit \/ UserDelete \/ UserCreate
  BY <1>3, UserShape
<1>4. CASE UNCHANGED vars \/ NoWrite
  BY <1>4 DEF vars, NoWrite
<1> QED BY <1>1, <1>2, <1>3, <1>4, StoreChanges

\* Whatever a watcher of the stored config sees is a behaviour of ConfigPhases.
THEOREM Refinement == Spec => PhasesImplemented
<1>1. Init => Abs!Born
  BY BornFirst
<1>2. IInv /\ [Next]_vars => [Abs!Change]_(Abs!seen)
  BY StepRefines
<1> QED BY <1>1, <1>2, InvariantHolds, PTL DEF Spec, PhasesImplemented, Abs!Spec

\* No write from an old copy undoes what the user asked for.
THEOREM PoolsAreTheUsers == Spec => UserPoolsKept
<1> DEFINE Kind == outside' # outside \/ cr.life = "gone" \/ cr.phase = "importing"
<1>1. IInv /\ [Next]_vars => [cr'.pools # cr.pools => Kind]_cr
  BY StepKeepsPools
<1> QED BY <1>1, InvariantHolds, PTL DEF Spec, UserPoolsKept

\* The finalizer of a config whose cluster is being made, or was, is removed only
\* after its cluster was.
THEOREM RemovalIsComplete == Spec => RemovalDeletesCluster
<1> DEFINE Removes == cr.life = "deleting" /\ cr'.life = "gone" /\ ~Imported
                        /\ cr.phase # ""
           Deleted == state[cr.clusterId] \in {"deleting", "deleted"}
<1>1. IInv /\ [Next]_vars => [Removes => Deleted]_cr
  BY StepRemoves
<1> QED BY <1>1, InvariantHolds, PTL DEF Spec, RemovalDeletesCluster
=============================================================================
