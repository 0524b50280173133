----------------------- MODULE LifecycleTracking_proofs -----------------------
(***************************************************************************)
(* TInv and VInv are invariants of ClusterLifecycle, inductive relative to *)
(* IInv: how clusters and copies of the config move in a step, then what   *)
(* that leaves true of the cloud, of each copy and of the versions.        *)
(***************************************************************************)
EXTENDS LifecycleTracking, LifecyclePromises_proofs

-----------------------------------------------------------------------------
(* How the cloud moves.                                                    *)

\* The moves of one cluster; a cluster is made, or deleted by the operator, only
\* for a config that is not imported.
Moves(from, to) ==
  \/ ~Imported /\ from = "unused" /\ to = "initial"
  \/ from = "initial" /\ to \in {"running", "failed"}
  \/ /\ from \in {"running", "busy", "poolBusy"}
     /\ to \in {"running", "busy", "poolBusy"}
  \/ ~Imported /\ from \in {"initial", "failed", "running", "poolBusy"} /\ to = "deleting"
  \/ from = "deleting" /\ to = "deleted"

OneMoves == \E c \in ClusterIds, s \in States :
              Moves(state[c], s) /\ state' = [state EXCEPT ![c] = s]

PoolsMove ==
  \/ \E c \in ClusterIds, p \in Pools : upstream' = [upstream EXCEPT ![c] = p]
  \/ pc = "batch" /\ upstream' = [upstream EXCEPT ![obj.clusterId] = obj.pools]

LEMMA CloudMoves ==
  ASSUME IInv, Next
  PROVE  /\ UNCHANGED state \/ OneMoves
         /\ UNCHANGED upstream \/ PoolsMove
<1>1. ASSUME CreateCall PROVE /\ UNCHANGED state \/ OneMoves
                              /\ UNCHANGED upstream \/ PoolsMove
  <2>1. ~Imported
    BY <1>1 DEF CreateCall, IInv, PointOK
  <2>2. UNCHANGED cloud \/ \E c \in ClusterIds : \E from : Allocate(c, from)
    BY <1>1 DEF CreateCall
  <2> QED BY <2>1, <2>2 DEF cloud, Allocate, OneMoves, PoolsMove, Moves, States
<1>2. ASSUME Batch PROVE /\ UNCHANGED state \/ OneMoves
                         /\ UNCHANGED upstream \/ PoolsMove
  <2>1. \/ UNCHANGED state
        \/ /\ obj.clusterId \in ClusterIds
           /\ state[obj.clusterId] \in {"running", "poolBusy"}
           /\ \E s \in {"running", "busy", "poolBusy"} :
                state' = [state EXCEPT ![obj.clusterId] = s]
    BY <1>2 DEF Batch, Present, SetState
  <2>2. \/ UNCHANGED upstream
        \/ upstream' = [upstream EXCEPT ![obj.clusterId] = obj.pools]
        \/ /\ obj.clusterId \in ClusterIds
           /\ \E p \in Pools : upstream' = [upstream EXCEPT ![obj.clusterId] = p]
    BY <1>2 DEF Batch, Apply, Present
  <2>3. pc = "batch"
    BY <1>2 DEF Batch
  <2> QED BY <2>1, <2>2, <2>3 DEF OneMoves, PoolsMove, Moves, States
<1>3. ASSUME RemoveCall PROVE /\ UNCHANGED state \/ OneMoves
                              /\ UNCHANGED upstream
  <2>1. ~Imported
    BY <1>3 DEF RemoveCall, IInv, PointOK, Spared
  <2> QED BY <1>3, <2>1
          DEF RemoveCall, Deletable, SetState, OneMoves, Moves, States
<1>4. ASSUME NEW c \in ClusterIds, CloudStep(c) \/ CloudDisturbed(c)
      PROVE  OneMoves /\ UNCHANGED upstream
  BY <1>4 DEF CloudStep, CloudDisturbed, Evolve, Disturb, SetState, OneMoves, Moves,
     States
<1>5. ASSUME \/ Sync \/ BeginImport \/ CreateUpdate \/ CreateStatus \/ WaitGet
             \/ CASecret \/ Activate \/ ImportGet \/ ImportPools \/ ImportUpdate
             \/ CheckGet \/ CheckStatus \/ CheckFence \/ CheckPools \/ PoolsStatus
             \/ ChangedUpdate \/ FinishUpdate \/ Record \/ Remove \/ SaveFinalizer
      PROVE  UNCHANGED <<state, upstream>>
  BY <1>5 DEF Sync, BeginImport, CreateUpdate, CreateStatus, WaitGet, CASecret,
     Activate, ImportGet, ImportPools, ImportUpdate, CheckGet, CheckStatus,
     CheckFence, CheckPools, PoolsStatus, ChangedUpdate, FinishUpdate, Record,
     Remove, SaveFinalizer, cloud
<1>6. ASSUME \/ Deliver \/ Timer \/ Restart \/ UserEdit \/ UserDelete \/ UserCreate
             \/ Collect
      PROVE  UNCHANGED <<state, upstream>>
  BY <1>6 DEF Deliver, Timer, Restart, UserEdit, UserDelete, UserCreate, Collect,
     cloud
<1> QED BY <1>1, <1>2, <1>3, <1>4, <1>5, <1>6, Zenon DEF Next, Worker, World

LEMMA UpStays ==
  ASSUME IInv, Next
  PROVE  \A c \in ClusterIds : /\ state[c] # "unused" => state'[c] # "unused"
                               /\ Up(c) => Up(c)'
<1>1. state \in [ClusterIds -> States]
  BY Parts, TypeParts, Zenon
<1>2. CASE UNCHANGED state
  BY <1>2 DEF Up
<1>3. CASE OneMoves
  BY <1>1, <1>3 DEF OneMoves, Moves, Up
<1> QED BY <1>2, <1>3, CloudMoves, Zenon

LEMMA CloudStaysOK ==
  ASSUME IInv, TInv, Next
  PROVE  CloudOK'
<1>1. /\ state \in [ClusterIds -> States] /\ CloudOK
      /\ upstream \in [ClusterIds -> Pools \cup {NoPools}]
  BY Parts, TypeParts, Zenon DEF TInv
<1> SUFFICES ASSUME Imported, NEW c \in ClusterIds
             PROVE  /\ state'[c] \notin {"initial", "failed"}
                    /\ state'[c] # "unused" => upstream'[c] # NoPools
  BY DEF CloudOK
<1>2. /\ state[c] \notin {"initial", "failed"}
      /\ state[c] # "unused" => upstream[c] # NoPools
  BY <1>1 DEF CloudOK
<1>3. /\ state'[c] \notin {"initial", "failed"}
      /\ state'[c] # "unused" => state[c] # "unused"
  <2>1. CASE UNCHANGED state
    BY <1>2, <2>1
  <2>2. CASE OneMoves
    BY <1>1, <1>2, <2>2 DEF OneMoves, Moves
  <2> QED BY <2>1, <2>2, CloudMoves, Zenon
<1>4. upstream'[c] = upstream[c] \/ upstream'[c] # NoPools
  <2>1. pc = "batch" => obj.pools # NoPools
    BY DEF IInv, PointOK, TInv, CopiesOK, Filled
  <2>2. CASE PoolsMove
    BY <1>1, <2>1, <2>2, TypesAssumption DEF PoolsMove
  <2> QED BY <2>2, CloudMoves, Zenon
<1> QED BY <1>2, <1>3, <1>4

-----------------------------------------------------------------------------
(* How copies of the config move.                                          *)

Like(o, p) == o.phase = p.phase /\ o.pools = p.pools

\* A copy that a step leaves is like one there was, or the one it stores.
Copied(o) == \E p \in {cr', Empty, cache, orig, obj} \cup watch : Like(o, p)

LEMMA CopiedOne ==
  ASSUME NEW o, o \in {cr', Empty, cache, orig, obj} \cup watch
  PROVE  Copied(o)
BY DEF Copied, Like

LEMMA SavedCopies ==
  ASSUME IInv, NEW point, NEW back \in {orig, obj}, Save(point, back)
  PROVE  Copied(obj')
<1>1. obj' \in {cr', back}
  BY Parts, SaveEnds, Zenon
<1> QED BY <1>1, CopiedOne

LEMMA PhaseSetCopies ==
  ASSUME IInv, NEW phase, SetPhase(phase)
  PROVE  Copied(obj')
<1>1. obj' \in {cr', Empty}
  BY Parts, SetPhaseEnds, Zenon
<1> QED BY <1>1, CopiedOne

\* FixConfig and naming a cluster keep what is compared here.
LEMMA LikeFixed ==
  ASSUME NEW o \in Config
  PROVE  Like(FixConfig(o), o) /\ \A c : Like([o EXCEPT !.clusterId = c], o)
BY DEF FixConfig, Config, Like

LEMMA LikeFinalizer ==
  ASSUME NEW o \in Config, NEW b
  PROVE  Like([o EXCEPT !.fin = b], o)
BY DEF Config, Like

LEMMA CopiesMove ==
  ASSUME IInv, Next
  PROVE  /\ Copied(cache') /\ Copied(orig')
         /\ ImportPools \/ ChangedUpdate \/ Copied(obj')
<1>0. orig \in Config /\ obj \in Config
  BY Parts
<1>1. ASSUME UNCHANGED <<cache, orig>> PROVE Copied(cache') /\ Copied(orig')
  BY <1>1, CopiedOne
<1>2. ASSUME \/ BeginImport \/ CreateStatus \/ Activate \/ CheckStatus \/ PoolsStatus
      PROVE  Copied(cache') /\ Copied(orig') /\ Copied(obj')
  <2>1. UNCHANGED <<cache, orig>> /\ \E phase : SetPhase(phase)
    BY <1>2 DEF BeginImport, CreateStatus, Activate, CheckStatus, PoolsStatus
  <2> QED BY <1>1, <2>1, PhaseSetCopies, Zenon
<1>3. ASSUME CreateUpdate \/ ImportUpdate \/ CheckFence \/ FinishUpdate
      PROVE  Copied(cache') /\ Copied(orig') /\ Copied(obj')
  <2>1. /\ UNCHANGED <<cache, orig>>
        /\ \E point : \E back \in {orig, obj} : Save(point, back)
    BY <1>3 DEF CreateUpdate, ImportUpdate, CheckFence, FinishUpdate
  <2> QED BY <1>1, <2>1, SavedCopies, Zenon
<1>4. ASSUME WaitGet \/ CASecret \/ CheckPools \/ Batch
      PROVE  Copied(cache') /\ Copied(orig') /\ Copied(obj')
  <2>1. UNCHANGED <<cache, orig, obj>>
    BY <1>4 DEF WaitGet, CASecret, CheckPools, Batch, NotChanged, Return, Continue
  <2> QED BY <1>1, <2>1, CopiedOne
<1>5. ASSUME ImportGet \/ CheckGet
      PROVE  Copied(cache') /\ Copied(orig') /\ Copied(obj')
  <2>1. /\ cache' \in {cache, FixConfig(orig)} /\ orig' \in {orig, FixConfig(orig)}
        /\ obj' \in {obj, FixConfig(obj)}
    BY <1>5 DEF ImportGet, CheckGet, Mutate, Return, Continue
  <2> QED BY <1>0, <2>1, LikeFixed, CopiedOne DEF Copied
<1>6. ASSUME CreateCall PROVE Copied(cache') /\ Copied(orig') /\ Copied(obj')
  <2>1. \/ UNCHANGED <<cache, orig, obj>>
        \/ \E c \in ClusterIds :
              /\ orig' = [orig EXCEPT !.clusterId = c]
              /\ obj' = [obj EXCEPT !.clusterId = c] /\ cache' \in {cache, orig'}
    BY <1>6 DEF CreateCall, Mutate, Return, Continue
  <2> QED BY <1>0, <2>1, LikeFixed, CopiedOne DEF Copied
<1>7. ASSUME Remove \/ RemoveCall \/ SaveFinalizer
      PROVE  Copied(cache') /\ Copied(orig') /\ Copied(obj')
  <2>1. /\ UNCHANGED cache /\ orig' \in {orig, Empty}
        /\ \/ obj' \in {Empty, Latest}
           \/ obj' \in {[Latest EXCEPT !.fin = TRUE], [Latest EXCEPT !.fin = FALSE],
                        [obj EXCEPT !.fin = FALSE]}
    BY <1>7 DEF Remove, RemoveCall, SaveFinalizer, Finish, Continue
  <2>2. Copied(obj')
    <3>1. Latest \in {obj, orig}
      BY DEF Latest
    <3>2. CASE obj' \in {Empty, Latest}
      BY <3>1, <3>2, CopiedOne
    <3>3. CASE obj' \in {[Latest EXCEPT !.fin = TRUE], [Latest EXCEPT !.fin = FALSE],
                         [obj EXCEPT !.fin = FALSE]}
      <4>1. \E o \in {obj, orig} : Like(obj', o)
        BY <1>0, <3>1, <3>3, LikeFinalizer
      <4> QED BY <4>1 DEF Copied
    <3> QED BY <2>1, <3>2, <3>3
  <2> QED BY <2>1, <2>2, CopiedOne
<1>8. ASSUME Sync \/ Restart \/ Record
      PROVE  Copied(cache') /\ Copied(orig') /\ Copied(obj')
  <2>1. /\ cache' \in {cache, cr'} /\ orig' \in {orig, cache, Empty}
        /\ obj' \in {obj, cr', cache, Empty}
    BY <1>8, Zenon DEF Sync, Restart, Record, Refuse
  <2> QED BY <2>1, CopiedOne
<1>9. ASSUME ImportPools \/ ChangedUpdate PROVE Copied(cache') /\ Copied(orig')
  BY <1>1, <1>9 DEF ImportPools, ChangedUpdate
<1>10. ASSUME Deliver PROVE Copied(cache') /\ Copied(orig') /\ Copied(obj')
  BY <1>10, CopiedOne DEF Deliver, Receive
<1>11. ASSUME \/ Timer \/ UserEdit \/ UserDelete \/ UserCreate \/ Collect
              \/ \E c \in ClusterIds : CloudStep(c) \/ CloudDisturbed(c)
       PROVE  Copied(cache') /\ Copied(orig') /\ Copied(obj')
  <2>1. UNCHANGED <<cache, orig, obj>>
    BY <1>11 DEF Timer, UserEdit, UserDelete, UserCreate, Collect, CloudStep,
       CloudDisturbed
  <2> QED BY <1>1, <2>1, CopiedOne
<1> QED BY <1>2, <1>3, <1>4, <1>5, <1>6, <1>7, <1>8, <1>9, <1>10, <1>11, Zenon
        DEF Next, Worker, World

-----------------------------------------------------------------------------
(* What is stored.                                                         *)

LEMMA StoreVersions ==
  ASSUME IInv, Next
  PROVE  \/ NoWrite
         \/ cr'.rv = cr.rv + 1 /\ watch' = watch \cup {cr'}
<1>1. \/ NoWrite \/ SpecStep \/ StatusStep \/ UserEdit \/ UserDelete \/ UserCreate
  BY StoreChanges, Zenon
<1>2. NoWrite \/ Versioned
  BY <1>1, SpecStepShape, StatusStepShape, UserShape, Zenon
<1> QED BY <1>2 DEF Versioned, NoWrite

LEMMA TrackingParts ==
  ASSUME TInv
  PROVE  /\ CloudOK /\ PhaseOK /\ ImportOK /\ SecretOK
         /\ Filled(cr) /\ Filled(cache) /\ Filled(orig) /\ Filled(obj)
         /\ \A v \in watch : Filled(v)
BY DEF TInv, CopiesOK

\* The phases that a status write finds and leaves.
LEMMA PhaseWritten ==
  ASSUME IInv, StatusStep
  PROVE  \/ cr'.phase = cr.phase
         \/ cr.phase = "" /\ Imported /\ cr'.phase = "importing"
         \/ /\ cr.phase = "" /\ ~Imported /\ cr'.phase = "creating"
            /\ cr.clusterId # NoCluster
         \/ /\ cr.phase # "" /\ obj.phase # "" /\ cr'.phase = "active"
            /\ pc = "activeStatus"
         \/ cr.phase = "active" /\ cr'.phase = "updating"
BY StatusStepShape DEF NextPhase, Current

LEMMA StoredFilled ==
  ASSUME IInv, TInv, Next
  PROVE  Filled(cr')
<1>0. Filled(cr) /\ Filled(obj) /\ ImportOK
  BY TrackingParts
<1>1. CASE NoWrite
  BY <1>0, <1>1 DEF NoWrite
<1>2. CASE SpecStep
  <2>1. Current(obj, cr) /\ cr'.phase = cr.phase /\ cr'.pools = obj.pools
    BY <1>2, SpecStepShape DEF SpecStep
  <2> QED BY <1>0, <2>1 DEF Filled, Current
<1>3. CASE StatusStep
  <2>1. cr'.pools = cr.pools /\ obj.rv = cr.rv
    BY <1>3, StatusStepShape DEF StatusStep
  <2>2. Imported /\ pc = "activeStatus" => cr.pools # NoPools
    BY <1>0, <2>1 DEF ImportOK
  <2> QED BY <1>0, <1>3, <2>1, <2>2, PhaseWritten DEF Filled
<1>4. CASE UserEdit
  <2>1. cr'.pools # NoPools /\ cr'.phase = cr.phase
    BY <1>4, UserShape, TypesAssumption
  <2> QED BY <1>0, <2>1 DEF Filled
<1>5. CASE UserDelete
  BY <1>0, <1>5, UserShape DEF Filled
<1>6. CASE UserCreate
  BY <1>6, UserShape DEF Filled
<1> QED BY <1>1, <1>2, <1>3, <1>4, <1>5, <1>6, StoreChanges, Zenon

LEMMA CopiesStayFilled ==
  ASSUME IInv, TInv, Next
  PROVE  CopiesOK'
<1>1. /\ Filled(cr') /\ Filled(Empty)
      /\ Filled(cache) /\ Filled(orig) /\ Filled(obj)
      /\ \A v \in watch : Filled(v)
  BY StoredFilled, TrackingParts DEF Filled, Empty
<1>2. ASSUME NEW o, Copied(o) PROVE Filled(o)
  BY <1>1, <1>2 DEF Copied, Like, Filled
<1>3. \A v \in watch' : Filled(v)
  BY <1>1, StoreVersions DEF NoWrite
<1>4. obj \in Config /\ PointOK
  BY Parts
<1>5. ImportPools => Filled(obj')
  <2> SUFFICES ASSUME ImportPools PROVE Filled(obj')
    OBVIOUS
  <2>1. obj' = orig \/ obj'.phase = "importing"
    BY <1>4 DEF ImportPools, PointOK, Return, Continue, Config
  <2>2. Imported
    BY <1>1, <1>4 DEF ImportPools, PointOK, Filled
  <2> QED BY <1>1, <2>1, <2>2 DEF Filled
<1>6. ChangedUpdate => Filled(obj')
  <2> SUFFICES ASSUME ChangedUpdate PROVE Filled(obj')
    OBVIOUS
  <2>1. \/ obj' = obj
        \/ Accept(obj, SpecWrite(obj)) /\ obj' = [cr' EXCEPT !.phase = "updating"]
    BY DEF ChangedUpdate, Return
  <2>2. obj.phase \in {"active", "updating"}
    BY <1>4 DEF ChangedUpdate, PointOK
  <2>3. ASSUME Commit(SpecWrite(obj))
        PROVE  cr' \in Config /\ cr'.pools = obj.pools
    <3>1. /\ SpecWrite(obj) \in Config /\ SpecWrite(obj).rv = cr.rv
          /\ SpecWrite(obj).pools = obj.pools
      BY Parts, SpecWriteType, Zenon
    <3> QED BY <2>3, <3>1, Parts, CommitType, Zenon
  <2>4. CASE Accept(obj, SpecWrite(obj)) /\ obj' = [cr' EXCEPT !.phase = "updating"]
    <3>1. cr' \in Config /\ cr'.pools = obj.pools
      BY <2>3, <2>4 DEF Accept
    <3>2. obj'.phase = "updating" /\ obj'.pools = obj.pools
      BY <2>4, <3>1 DEF Config
    <3> QED BY <1>1, <2>2, <3>2 DEF Filled
  <2> QED BY <1>1, <2>1, <2>4
<1>7. Filled(cache') /\ Filled(orig') /\ Filled(obj')
  BY <1>2, <1>5, <1>6, CopiesMove, Zenon
<1> QED BY <1>1, <1>3, <1>7 DEF CopiesOK

-----------------------------------------------------------------------------
(* How the sync comes to the points that something is known at.            *)

SavedAs(point) == /\ pc' = point /\ obj.rv = cr.rv /\ obj' = cr'
                  /\ SpecStep /\ secret' = secret

Arrives ==
  \/ Environment /\ UNCHANGED <<pc, obj>>
  \/ Sync /\ pc' = "waitGet"
  \/ ImportGet /\ pc' = "importPools" /\ Present(obj.clusterId) /\ obj' = FixConfig(obj)
  \/ /\ ImportPools /\ pc' = "importUpdate" /\ Present(obj.clusterId)
     /\ obj' = [obj EXCEPT !.pools = upstream[obj.clusterId]]
  \/ pc = "importUpdate" /\ SavedAs("caSecret")
  \/ /\ WaitGet /\ pc' = "caSecret" /\ Present(obj.clusterId) /\ obj' = obj
     /\ state[obj.clusterId] \in {"running", "poolBusy"}
  \/ /\ CASecret /\ pc' = "activeStatus" /\ obj' = obj
     /\ secret' = IF secret = 0 THEN obj.uid ELSE secret
  \/ pc = "finishUpdate" /\ SavedAs("activeStatus")

Known == {"waitGet", "importPools", "importUpdate", "caSecret", "activeStatus"}

LEMMA SaveArrives ==
  ASSUME IInv, NEW point, NEW back, Save(point, back), obj.life = "live",
         secret' = secret, pc' # "record"
  PROVE  SavedAs(point)
<1>1. /\ obj.rv = cr.rv /\ Commit(SpecWrite(obj)) /\ obj' = cr' /\ pc' = point
  BY Parts, SaveEnds, Zenon
<1>2. Current(obj, cr)
  BY <1>1, CurrentCopy
<1> QED BY <1>1, <1>2 DEF SavedAs, SpecStep

LEMMA Arrival ==
  ASSUME IInv, Next, pc' \in Known
  PROVE  Arrives
<1>1. ASSUME \/ BeginImport \/ CreateStatus \/ Activate \/ CheckStatus
             \/ PoolsStatus \/ ChangedUpdate \/ Record
      PROVE  FALSE
  <2>1. pc' \in {"record", "remove"}
    <3>1. ASSUME NEW phase, SetPhase(phase) PROVE pc' = "record"
      BY <3>1, Parts, SetPhaseEnds, Zenon
    <3> QED BY <1>1, <3>1, Zenon DEF BeginImport, CreateStatus, Activate, CheckStatus,
            PoolsStatus, ChangedUpdate, Record, Return
  <2> QED BY <2>1 DEF Known
<1>2. ASSUME CreateCall \/ CheckGet \/ CheckPools \/ Batch
      PROVE  FALSE
  BY <1>2 DEF CreateCall, CheckGet, CheckPools, Batch, NotChanged, Return,
     Continue, Known
<1>3. ASSUME Remove \/ RemoveCall \/ SaveFinalizer \/ Restart
      PROVE  FALSE
  BY <1>3 DEF Remove, RemoveCall, SaveFinalizer, Restart, Finish, Continue, Known
<1>4. ASSUME NEW point, NEW back, Save(point, back), obj.life = "live",
             secret' = secret
      PROVE  SavedAs(point)
  <2>1. pc' # "record"
    BY DEF Known
  <2> QED BY <1>4, <2>1, SaveArrives, Zenon
<1>5. ASSUME CreateUpdate \/ CheckFence PROVE FALSE
  <2>1. /\ \E point \in {"createStatus", "checkPools"} : \E back : Save(point, back)
        /\ secret' = secret /\ pc \in {"createUpdate", "checkFence"}
    BY <1>5 DEF CreateUpdate, CheckFence
  <2>2. obj.life = "live"
    BY <2>1, AtHandler
  <2>3. pc' \in {"createStatus", "checkPools"}
    BY <1>4, <2>1, <2>2 DEF SavedAs
  <2> QED BY <2>3 DEF Known
<1>6. ASSUME ImportUpdate PROVE Arrives
  <2>1. Save("caSecret", orig) /\ secret' = secret /\ pc = "importUpdate"
    BY <1>6 DEF ImportUpdate
  <2>2. obj.life = "live"
    BY <2>1, AtHandler
  <2> QED BY <1>4, <2>1, <2>2, Zenon DEF Arrives
<1>7. ASSUME FinishUpdate PROVE Arrives
  <2>1. Save("activeStatus", obj) /\ secret' = secret /\ pc = "finishUpdate"
    BY <1>7 DEF FinishUpdate
  <2>2. obj.life = "live"
    BY <2>1, AtHandler
  <2> QED BY <1>4, <2>1, <2>2, Zenon DEF Arrives
<1>8. ASSUME Sync PROVE Arrives
  <2>1. pc' \in {"idle", "remove", "importing", "createCall", "createUpdate",
                "importGet", "waitGet", "checkGet"}
    <3>1. cache \in Config
      BY Parts
    <3>2. cache.life \in {"live", "deleting", "gone"} /\ cache.phase \in Phases
      BY <3>1, ConfigFields, Zenon
    <3>3. pc' = Entry(cache)
      BY <1>8 DEF Sync
    <3> QED BY <3>2, <3>3 DEF Entry, CreateEntry, Phases
  <2> QED BY <1>8, <2>1 DEF Known, Arrives
<1>9. ASSUME ImportGet PROVE Arrives
  BY <1>9 DEF ImportGet, Return, Continue, Known, Arrives
<1>10. ASSUME ImportPools PROVE Arrives
  BY <1>10 DEF ImportPools, Return, Continue, Known, Arrives
<1>11. ASSUME WaitGet PROVE Arrives
  BY <1>11 DEF WaitGet, Return, Continue, Known, Arrives
<1>12. ASSUME CASecret PROVE Arrives
  BY <1>12 DEF CASecret, Return, Continue, Known, Arrives
<1>13. ASSUME \/ Deliver \/ Timer \/ UserEdit \/ UserDelete \/ UserCreate \/ Collect
              \/ \E c \in ClusterIds : CloudStep(c) \/ CloudDisturbed(c)
       PROVE  Arrives
  <2>1. UNCHANGED <<pc, obj>>
    BY <1>13 DEF Deliver, Timer, UserEdit, UserDelete, UserCreate, Collect,
       CloudStep, CloudDisturbed
  <2>2. Environment
    BY <1>13, Zenon DEF Environment
  <2> QED BY <2>1, <2>2, Zenon DEF Arrives
<1> QED BY <1>1, <1>2, <1>3, <1>5, <1>6, <1>7, <1>8, <1>9, <1>10, <1>11, <1>12,
        <1>13, Zenon DEF Next, Worker, World

-----------------------------------------------------------------------------
(* What the phase, the import and the secret are known to be.              *)

LEMMA PhaseStored ==
  ASSUME IInv, TInv, Next
  PROVE  /\ cr'.phase = "creating" =>
              cr'.clusterId \in ClusterIds /\ state[cr'.clusterId] # "unused"
         /\ cr'.phase \in {"active", "updating"} => Up(cr'.clusterId)
<1>0. /\ cr.phase = "creating" =>
           cr.clusterId \in ClusterIds /\ state[cr.clusterId] # "unused"
      /\ cr.phase \in {"active", "updating"} => Up(cr.clusterId)
  BY TrackingParts DEF PhaseOK
<1>1. CASE NoWrite
  BY <1>0, <1>1 DEF NoWrite
<1>2. CASE SpecStep
  <2>1. /\ cr'.phase = cr.phase
        /\ cr.phase # "" => cr'.clusterId = cr.clusterId
    BY <1>2, SpecStepShape DEF SpecStep, Current
  <2> QED BY <1>0, <2>1
<1>3. CASE StatusStep
  <2>1. cr'.clusterId = cr.clusterId /\ Current(obj, cr)
    BY <1>3, StatusStepShape
  <2>2. pc = "activeStatus" /\ cr.phase # "" => Up(cr.clusterId)
    BY <2>1, TrackingParts DEF PhaseOK, Current
  <2>3. ~Imported /\ cr.clusterId # NoCluster =>
          cr.clusterId \in ClusterIds /\ state[cr.clusterId] # "unused"
    <3>1. Owns(cr, state, origin) /\ cr.clusterId \in ClusterIds \cup {NoCluster}
      BY Parts, StoreParts, ConfigFields, Zenon
    <3> QED BY <3>1 DEF Owns
  <2> QED BY <1>0, <1>3, <2>1, <2>2, <2>3, PhaseWritten
<1>4. CASE UserEdit \/ UserDelete \/ UserCreate
  <2>1. \/ cr'.phase = cr.phase /\ cr'.clusterId = cr.clusterId
        \/ cr'.phase = ""
    BY <1>4, UserShape
  <2> QED BY <1>0, <2>1
<1> QED BY <1>1, <1>2, <1>3, <1>4, StoreChanges, Zenon

LEMMA PhaseStaysOK ==
  ASSUME IInv, TInv, Next
  PROVE  PhaseOK'
<1>1. /\ PointOK /\ PhaseOK /\ CloudOK /\ Filled(obj) /\ obj \in Config
  BY Parts, TrackingParts
<1>2. ASSUME pc' \in {"importPools", "importUpdate", "caSecret", "activeStatus"}
      PROVE  Up(obj'.clusterId)
  <2>1. Arrives
    BY <1>2, Arrival DEF Known
  <2>2. CASE UNCHANGED <<pc, obj>>
    BY <1>1, <1>2, <2>2 DEF PhaseOK
  <2>3. CASE ImportGet /\ Present(obj.clusterId) /\ obj' = FixConfig(obj)
    <3>1. Imported /\ obj'.clusterId = obj.clusterId
      BY <1>1, <2>3, FixConfigLike DEF ImportGet, PointOK, Filled
    <3> QED BY <1>1, <2>3, <3>1 DEF CloudOK, Present, Up
  <2>4. CASE ImportPools /\ obj' = [obj EXCEPT !.pools = upstream[obj.clusterId]]
    <3>1. obj'.clusterId = obj.clusterId
      BY <1>1, <2>4 DEF Config
    <3> QED BY <1>1, <2>4, <3>1 DEF ImportPools, PhaseOK
  <2>5. CASE pc = "importUpdate" /\ SavedAs("caSecret")
    <3>1. obj'.clusterId = obj.clusterId
      BY <2>5, SpecStepShape DEF SavedAs
    <3> QED BY <1>1, <2>5, <3>1 DEF PhaseOK
  <2>6. CASE /\ Present(obj.clusterId) /\ obj' = obj
             /\ state[obj.clusterId] \in {"running", "poolBusy"}
    BY <2>6 DEF Present, Up
  <2>7. CASE CASecret /\ obj' = obj
    BY <1>1, <2>7 DEF CASecret, PhaseOK
  <2>8. CASE pc = "finishUpdate" /\ SavedAs("activeStatus")
    <3>1. obj'.clusterId = obj.clusterId /\ Current(obj, cr)
      BY <2>8, SpecStepShape DEF SavedAs, SpecStep
    <3>2. cr.phase \in {"active", "updating"} /\ obj.clusterId = cr.clusterId
      BY <1>1, <2>8, <3>1 DEF PointOK, Current
    <3> QED BY <1>1, <3>1, <3>2 DEF PhaseOK
  <2> QED BY <1>2, <2>1, <2>2, <2>3, <2>4, <2>5, <2>6, <2>7, <2>8 DEF Arrives
<1>3. \A c : Up(c) => /\ c \in ClusterIds
                      /\ state'[c] \notin {"unused", "initial", "failed"}
  BY UpStays DEF Up
<1>4. \A c \in ClusterIds : state[c] # "unused" => state'[c] # "unused"
  BY UpStays
<1>5. /\ cr'.phase = "creating" =>
           cr'.clusterId \in ClusterIds /\ state'[cr'.clusterId] # "unused"
      /\ cr'.phase \in {"active", "updating"} =>
           /\ cr'.clusterId \in ClusterIds
           /\ state'[cr'.clusterId] \notin {"unused", "initial", "failed"}
  BY <1>3, <1>4, PhaseStored
<1>6. pc' \in {"importPools", "importUpdate", "caSecret", "activeStatus"} =>
        /\ obj'.clusterId \in ClusterIds
        /\ state'[obj'.clusterId] \notin {"unused", "initial", "failed"}
  BY <1>2, <1>3
<1> QED BY <1>5, <1>6 DEF PhaseOK, Up

LEMMA ImportStaysOK ==
  ASSUME IInv, TInv, Next
  PROVE  ImportOK'
<1>1. /\ PointOK /\ CloudOK /\ ImportOK /\ Filled(obj) /\ obj \in Config
      /\ cr.rv \in Nat /\ obj.rv \in Nat /\ obj.rv <= cr.rv
  BY Parts, FieldsOf, TrackingParts DEF SyncOK, Tracked, Copy, Earlier
<1>2. ASSUME pc' = "importUpdate" PROVE obj'.pools # NoPools
  <2>1. Arrives
    BY <1>2, Arrival DEF Known
  <2>2. CASE UNCHANGED <<pc, obj>>
    BY <1>1, <1>2, <2>2 DEF ImportOK
  <2>3. CASE /\ ImportPools /\ Present(obj.clusterId)
             /\ obj' = [obj EXCEPT !.pools = upstream[obj.clusterId]]
    <3>1. Imported /\ obj'.pools = upstream[obj.clusterId]
      BY <1>1, <2>3 DEF ImportPools, PointOK, Filled, Config
    <3> QED BY <1>1, <2>3, <3>1 DEF CloudOK, Present
  <2> QED BY <1>2, <2>1, <2>2, <2>3 DEF Arrives, SavedAs
<1>3. ASSUME Imported, pc' \in {"caSecret", "activeStatus"}
      PROVE  obj'.pools # NoPools /\ (obj'.rv = cr'.rv => obj'.pools = cr'.pools)
  <2>1. Arrives
    BY <1>3, Arrival DEF Known
  <2>2. CASE UNCHANGED <<pc, obj>>
    <3>1. obj.rv = cr'.rv => cr' = cr
      BY <1>1, StoreVersions DEF NoWrite
    <3> QED BY <1>1, <1>3, <2>2, <3>1 DEF ImportOK
  <2>3. CASE pc \in {"importUpdate", "finishUpdate"} /\ obj' = cr' /\ SpecStep
    <3>1. cr'.pools = obj.pools
      BY <2>3, SpecStepShape
    <3>2. obj.pools # NoPools
      BY <1>1, <1>3, <2>3 DEF ImportOK, PointOK, Filled
    <3> QED BY <2>3, <3>1, <3>2
  <2>4. CASE WaitGet
    BY <1>1, <1>3, <2>4 DEF WaitGet, PointOK, Filled
  <2>5. CASE CASecret /\ obj' = obj
    BY <1>1, <1>3, <2>5 DEF CASecret, ImportOK, store
  <2> QED BY <1>3, <2>1, <2>2, <2>3, <2>4, <2>5 DEF Arrives, SavedAs
<1> QED BY <1>2, <1>3 DEF ImportOK

LEMMA UidGrows ==
  ASSUME IInv, Next
  PROVE  /\ cr.uid \in Nat /\ cr'.uid \in Nat /\ 0 < cr.uid /\ cr.uid <= cr'.uid
         /\ First' => First
<1>1. cr.uid \in Nat /\ 0 < cr.uid
  BY Parts, FieldsOf DEF StoreOK
<1>2. \/ cr'.uid = cr.uid /\ (cr.life = "gone" => cr'.life = "gone")
      \/ cr'.uid = cr.uid + 1
  <2>1. SpecStep => cr'.uid = cr.uid /\ (cr.life = "gone" => cr'.life = "gone")
    BY SpecStepShape
  <2>2. StatusStep => cr'.uid = cr.uid /\ cr.life = "live"
    BY StatusStepShape
  <2>3. UserEdit => cr'.uid = cr.uid /\ cr'.life = cr.life
    BY UserShape
  <2>4. UserDelete => cr'.uid = cr.uid /\ cr.life = "live"
    BY UserShape
  <2>5. UserCreate => cr'.uid = cr.uid + 1
    BY UserShape
  <2> QED BY <2>1, <2>2, <2>3, <2>4, <2>5, StoreChanges DEF NoWrite
<1> QED BY <1>1, <1>2 DEF First

LEMMA SecretMoves ==
  ASSUME IInv, Next
  PROVE  \/ secret' = secret
         \/ Collect
         \/ pc = "caSecret" /\ secret = 0 /\ secret' = obj.uid
<1>1. ASSUME CASecret
      PROVE  secret' = secret \/ (pc = "caSecret" /\ secret = 0 /\ secret' = obj.uid)
  BY <1>1 DEF CASecret
<1>2. ASSUME Worker, ~CASecret PROVE secret' = secret
  BY <1>2 DEF Worker, Sync, BeginImport, CreateCall, CreateUpdate, CreateStatus,
     WaitGet, Activate, ImportGet, ImportPools, ImportUpdate, CheckGet, CheckStatus,
     CheckFence, CheckPools, PoolsStatus, Batch, ChangedUpdate, FinishUpdate,
     Record, Remove, SaveFinalizer, RemoveCall
<1>3. ASSUME \/ Deliver \/ Timer \/ Restart \/ UserEdit \/ UserDelete \/ UserCreate
             \/ \E c \in ClusterIds : CloudStep(c) \/ CloudDisturbed(c)
      PROVE  secret' = secret
  BY <1>3 DEF Deliver, Timer, Restart, UserEdit, UserDelete, UserCreate, CloudStep,
     CloudDisturbed
<1> QED BY <1>1, <1>2, <1>3, Zenon DEF Next, World

\* The garbage collector does not take the secret of a config that is there.
LEMMA SecretStays ==
  ASSUME IInv, TInv, Next, First, secret # 0
  PROVE  secret' # 0
<1>1. secret \in Nat /\ secret <= cr.uid /\ cr.uid = 1
  BY Parts, TypeParts, TrackingParts DEF SecretOK, First
<1>2. ~Collect
  BY <1>1 DEF Collect, First
<1> QED BY <1>2, SecretMoves

LEMMA SecretStaysOK ==
  ASSUME IInv, TInv, Next
  PROVE  SecretOK'
<1>1. /\ PointOK /\ SecretOK /\ obj \in Config /\ obj.uid \in Nat
      /\ obj.uid <= cr.uid /\ cache.uid > 0 /\ secret \in Nat
  BY Parts, FieldsOf, TypeParts, TrackingParts
  DEF SyncOK, Tracked, Copy, Earlier, StoreOK
<1>2. secret' <= cr'.uid
  BY <1>1, UidGrows, SecretMoves DEF SecretOK, Collect
<1>3. ASSUME pc' \in {"waitGet", "caSecret"} PROVE obj'.uid > 0
  <2>1. Arrives
    BY <1>3, Arrival DEF Known
  <2>2. CASE UNCHANGED <<pc, obj>>
    BY <1>1, <1>3, <2>2 DEF SecretOK
  <2>3. CASE Sync /\ pc' = "waitGet"
    BY <1>1, <2>3 DEF Sync, Entry
  <2>4. CASE SavedAs("caSecret")
    BY <2>4, SpecStepShape, UidGrows DEF SavedAs
  <2>5. CASE WaitGet /\ obj' = obj
    BY <1>1, <2>5 DEF WaitGet, SecretOK
  <2> QED BY <1>3, <2>1, <2>2, <2>3, <2>4, <2>5 DEF Arrives, SavedAs
<1>4. ASSUME First', pc' = "activeStatus" PROVE secret' # 0
  <2>1. Arrives /\ First
    BY <1>4, Arrival, UidGrows DEF Known
  <2>2. CASE UNCHANGED <<pc, obj>>
    BY <1>1, <1>4, <2>1, <2>2, SecretStays DEF SecretOK
  <2>3. CASE CASecret /\ secret' = IF secret = 0 THEN obj.uid ELSE secret
    BY <1>1, <2>3 DEF CASecret, SecretOK
  <2>4. CASE pc = "finishUpdate" /\ SavedAs("activeStatus")
    <3>1. cr.phase \in {"active", "updating"}
      BY <1>1, <2>4 DEF SavedAs, SpecStep, PointOK, Current
    <3> QED BY <1>1, <2>1, <2>4, <3>1 DEF SavedAs, SecretOK, ActiveHasSecret
  <2> QED BY <1>4, <2>1, <2>2, <2>3, <2>4 DEF Arrives, SavedAs
<1>5. ASSUME First', cr'.phase \in {"active", "updating"} PROVE secret' # 0
  <2>1. First
    BY <1>5, UidGrows
  <2>2. \/ cr.phase \in {"active", "updating"}
        \/ pc = "activeStatus"
    <3>1. NoWrite \/ SpecStep \/ UserEdit \/ UserDelete => cr'.phase = cr.phase
      BY SpecStepShape, UserShape DEF NoWrite
    <3>2. ~UserCreate
      BY <1>5, UserShape
    <3>3. StatusStep => \/ cr.phase \in {"active", "updating"}
                        \/ pc = "activeStatus"
      BY <1>5, PhaseWritten
    <3> QED BY <1>5, <3>1, <3>2, <3>3, StoreChanges
  <2>3. secret # 0
    BY <1>1, <2>1, <2>2 DEF SecretOK, ActiveHasSecret
  <2> QED BY <2>1, <2>3, SecretStays
<1> QED BY <1>2, <1>3, <1>4, <1>5 DEF SecretOK, ActiveHasSecret

-----------------------------------------------------------------------------
(* TInv is an invariant.                                                   *)

LEMMA TrackingInit ==
  ASSUME Init
  PROVE  TInv
<1>1. PICK c \in ClusterIds, p \in Pools :
        /\ state = [d \in ClusterIds |->
                       IF Imported /\ d = c THEN "running" ELSE "unused"]
        /\ upstream = [d \in ClusterIds |-> IF Imported /\ d = c THEN p ELSE NoPools]
        /\ cr \in NewConfigs(1, 1, {c})
  BY DEF Init
<1>2. /\ cache = cr /\ watch = {} /\ pc = "idle" /\ orig = Empty /\ obj = Empty
      /\ secret = 0
  BY DEF Init
<1>3. cr.phase = "" /\ cr.uid = 1
  BY <1>1 DEF NewConfigs
<1>4. CloudOK
  BY <1>1, TypesAssumption DEF CloudOK
<1>5. CopiesOK
  BY <1>2, <1>3 DEF CopiesOK, Filled, Empty
<1>6. PhaseOK /\ ImportOK
  BY <1>2, <1>3 DEF PhaseOK, ImportOK
<1>7. SecretOK
  <2>1. secret <= cr.uid
    <3>1. secret = 0 /\ cr.uid = 1
      BY <1>2, <1>3
    <3>2. 0 <= 1
      OBVIOUS
    <3> QED BY <3>1, <3>2, Zenon
  <2>2. ActiveHasSecret
    BY <1>3 DEF ActiveHasSecret
  <2> QED BY <1>2, <2>1, <2>2 DEF SecretOK
<1> QED BY <1>4, <1>5, <1>6, <1>7 DEF TInv

LEMMA TrackingStutters ==
  ASSUME TInv, UNCHANGED vars
  PROVE  TInv'
<1>1. UNCHANGED <<cr, watch, cache, state, upstream, pc, orig, obj, secret>>
  BY DEF vars
<1>2. CloudOK' /\ CopiesOK'
  BY <1>1, TrackingParts DEF CloudOK, CopiesOK, Filled
<1>3. PhaseOK' /\ ImportOK' /\ SecretOK'
  BY <1>1, TrackingParts DEF PhaseOK, Up, ImportOK, SecretOK, ActiveHasSecret, First
<1> QED BY <1>2, <1>3 DEF TInv

LEMMA TrackingKeeps ==
  ASSUME IInv, TInv, [Next]_vars
  PROVE  TInv'
<1>1. CASE Next
  BY <1>1, CloudStaysOK, CopiesStayFilled, PhaseStaysOK, ImportStaysOK,
     SecretStaysOK, Zenon DEF TInv
<1> QED BY <1>1, TrackingStutters, Zenon

\* What the stored phase says of the cluster, of the pools of an import and of
\* the CA secret is so, for any number of clusters, edits, faults and restarts.
THEOREM TrackingHolds == Spec => []TInv
<1>1. Init => TInv
  BY TrackingInit
<1>2. IInv /\ TInv /\ [Next]_vars => TInv'
  BY TrackingKeeps
<1> QED BY <1>1, <1>2, InvariantHolds, PTL DEF Spec

\* "creating" is stored after a cluster is made, "active" after it was up: no
\* lost answer, conflict or old copy lets the phase run ahead of the cloud.
THEOREM PhaseIsBehind == Spec => []PhaseTracksCluster
<1>1. TInv => PhaseTracksCluster
  BY DEF TInv, PhaseOK, Up, PhaseTracksCluster
<1> QED BY <1>1, TrackingHolds, PTL

\* Clients of an active config find its CA secret.
THEOREM SecretIsThere == Spec => []ActiveHasSecret
<1>1. TInv => ActiveHasSecret
  BY DEF TInv, SecretOK
<1> QED BY <1>1, TrackingHolds, PTL

\* The cluster of an active import has pools, and so has its config.
THEOREM ImportIsNotEmptied == Spec => []ImportKeepsPools
<1>1. TInv => ImportKeepsPools
  BY DEF TInv, CloudOK, CopiesOK, Filled, PhaseOK, Up, ImportKeepsPools
<1> QED BY <1>1, TrackingHolds, PTL

-----------------------------------------------------------------------------
(* Versions: the watch, the informer's entry and the sync's object.        *)

LEMMA VersionParts ==
  ASSUME Informed
  PROVE  /\ \A v \in watch : v.rv > cache.rv
         /\ pc # "idle" => orig.rv <= cache.rv /\ (orig.rv = cache.rv => orig = cache)
         /\ OneClusterPerVersion
         /\ \A c \in ClusterIds : Mine(c) =>
              /\ origin[c].rv <= cache.rv
              /\ origin[c].rv = cache.rv => cache.clusterId # NoCluster
              /\ pc = "createCall" => origin[c].rv # obj.rv
BY DEF Informed

LEMMA VersionTypes ==
  ASSUME IInv
  PROVE  /\ cr.rv \in Nat /\ cache.rv \in Nat /\ cache.rv <= cr.rv
         /\ orig.rv \in Nat /\ obj.rv \in Nat /\ crashes \in Nat
         /\ cache \in Config /\ orig \in Config /\ obj \in Config
         /\ \A v \in watch : v \in Config /\ v.rv \in Nat
         /\ \A c \in ClusterIds : /\ origin[c].rv \in Nat /\ origin[c].process \in Nat
                                  /\ origin[c].acked \in BOOLEAN
<1>1. /\ cr \in Config /\ cache \in Config /\ orig \in Config /\ obj \in Config
      /\ watch \subseteq Config /\ crashes \in Nat
      /\ origin \in [ClusterIds -> Origin]
  BY Parts, TypeParts, Zenon
<1>2. cache.rv <= cr.rv
  BY Parts DEF StoreOK, Tracked, Copy, Earlier
<1>3. \A o \in Config : o.rv \in Nat
  BY ConfigFields, Zenon
<1>4. \A c \in ClusterIds : /\ origin[c].rv \in Nat /\ origin[c].process \in Nat
                            /\ origin[c].acked \in BOOLEAN
  BY <1>1 DEF Origin
<1> QED BY <1>1, <1>2, <1>3, <1>4, Zenon

\* What a step does that neither reads the informer's entry nor changes it.
Rests ==
  /\ UNCHANGED <<cache, origin, crashes>>
  /\ pc' = "idle" \/ (pc # "idle" /\ orig' = orig)
  /\ pc' = "createCall" => UNCHANGED <<pc, obj>>

LEMMA RestingSteps ==
  ASSUME IInv, Next
  PROVE  \/ Sync \/ CreateCall \/ ImportGet \/ CheckGet \/ Deliver \/ Restart
         \/ Rests
<1>1. ASSUME \/ BeginImport \/ CreateStatus \/ Activate \/ CheckStatus \/ PoolsStatus
      PROVE  Rests
  <2>1. /\ UNCHANGED <<cache, origin, crashes, orig>> /\ pc # "idle"
        /\ \E phase : SetPhase(phase)
    BY <1>1 DEF BeginImport, CreateStatus, Activate, CheckStatus, PoolsStatus, cloud
  <2>2. pc' = "record"
    BY <2>1, Parts, SetPhaseEnds, Zenon
  <2> QED BY <2>1, <2>2 DEF Rests
<1>2. ASSUME CreateUpdate \/ ImportUpdate \/ CheckFence \/ FinishUpdate
      PROVE  Rests
  <2>1. /\ UNCHANGED <<cache, origin, crashes, orig>> /\ pc # "idle"
        /\ \E point \in {"createStatus", "caSecret", "checkPools", "activeStatus"} :
             \E back : Save(point, back)
    BY <1>2 DEF CreateUpdate, ImportUpdate, CheckFence, FinishUpdate, cloud
  <2>2. pc' \in {"createStatus", "caSecret", "checkPools", "activeStatus", "record"}
    BY <2>1, Parts, SaveEnds, Zenon
  <2> QED BY <2>1, <2>2 DEF Rests
<1>3. ASSUME \/ WaitGet \/ CASecret \/ ImportPools \/ CheckPools \/ Batch
             \/ ChangedUpdate \/ Record
      PROVE  Rests
  <2>1. UNCHANGED <<cache, origin, crashes, orig>> /\ pc # "idle"
    BY <1>3 DEF WaitGet, CASecret, ImportPools, CheckPools, Batch, ChangedUpdate,
       Record, cloud
  <2>2. pc' # "createCall"
    BY <1>3 DEF WaitGet, CASecret, ImportPools, CheckPools, Batch, NotChanged,
       ChangedUpdate, Record, Return, Continue
  <2> QED BY <2>1, <2>2 DEF Rests
<1>4. ASSUME Remove \/ RemoveCall \/ SaveFinalizer PROVE Rests
  BY <1>4 DEF Remove, RemoveCall, SaveFinalizer, Finish, Continue, cloud, Rests
<1>5. ASSUME \/ Timer \/ UserEdit \/ UserDelete \/ UserCreate \/ Collect
             \/ \E c \in ClusterIds : CloudStep(c) \/ CloudDisturbed(c)
      PROVE  Rests
  BY <1>5 DEF Timer, UserEdit, UserDelete, UserCreate, Collect, CloudStep,
     CloudDisturbed, Evolve, Disturb, cloud, Rests
<1> QED BY <1>1, <1>2, <1>3, <1>4, <1>5, Zenon DEF Next, Worker, World

LEMMA RestsKeepVersions ==
  ASSUME IInv, Informed, Next, Rests
  PROVE  Informed'
<1>1. \A v \in watch' : v.rv > cache'.rv
  BY VersionParts, VersionTypes, StoreVersions DEF Rests, NoWrite
<1>2. pc' # "idle" => /\ orig'.rv <= cache'.rv
                      /\ orig'.rv = cache'.rv => orig' = cache'
  BY VersionParts DEF Rests
<1>3. \A c \in ClusterIds : Mine(c)' <=> Mine(c)
  BY DEF Rests, Mine
<1>4. \A c \in ClusterIds :
        Mine(c) => /\ origin'[c].rv <= cache'.rv
                   /\ origin'[c].rv = cache'.rv => cache'.clusterId # NoCluster
                   /\ pc' = "createCall" => origin'[c].rv # obj'.rv
  BY VersionParts DEF Rests
<1>5. OneClusterPerVersion'
  BY VersionParts DEF OneClusterPerVersion, Rests
<1> QED BY <1>1, <1>2, <1>3, <1>4, <1>5 DEF Informed

LEMMA SyncKeepsVersions ==
  ASSUME IInv, Informed, Sync
  PROVE  Informed'
<1>1. UNCHANGED <<watch, cache, origin, crashes>>
  BY DEF Sync
<1>2. /\ pc' = Entry(cache) /\ obj' = orig'
      /\ orig' = IF cache.life = "gone" THEN Empty ELSE cache
  BY DEF Sync
<1>3. pc' # "idle" => orig' = cache /\ obj' = cache
  BY <1>2 DEF Entry
<1>4. pc' = "createCall" => cache.clusterId = NoCluster
  <2>1. cache.life \in {"live", "deleting", "gone"} /\ cache.phase \in Phases
    BY VersionTypes, ConfigFields, Zenon
  <2> QED BY <1>2, <2>1 DEF Entry, CreateEntry, Phases
<1>5. \A v \in watch' : v.rv > cache'.rv
  BY <1>1, VersionParts
<1>6. pc' # "idle" => /\ orig'.rv <= cache'.rv
                      /\ orig'.rv = cache'.rv => orig' = cache'
  BY <1>1, <1>3, VersionTypes
<1>7. \A c \in ClusterIds : Mine(c)' <=> Mine(c)
  BY <1>1 DEF Mine
<1>8. \A c \in ClusterIds :
        Mine(c) => /\ origin'[c].rv <= cache'.rv
                   /\ origin'[c].rv = cache'.rv => cache'.clusterId # NoCluster
                   /\ pc' = "createCall" => origin'[c].rv # obj'.rv
  BY <1>1, <1>3, <1>4, VersionParts
<1>9. OneClusterPerVersion'
  BY <1>1, VersionParts DEF OneClusterPerVersion
<1> QED BY <1>5, <1>6, <1>7, <1>8, <1>9 DEF Informed

LEMMA FixKeepsVersions ==
  ASSUME IInv, Informed, ImportGet \/ CheckGet
  PROVE  Informed'
<1>1. /\ UNCHANGED <<watch, origin, crashes>> /\ pc # "idle" /\ pc' # "createCall"
      /\ UNCHANGED <<cache, orig>> \/ Mutate(FixConfig(orig))
  BY DEF ImportGet, CheckGet, Return, Continue, store, cloud
<1>2. FixConfig(orig).rv = orig.rv /\ FixConfig(orig).clusterId = orig.clusterId
  BY VersionTypes, FixConfigLike
<1>3. /\ cache'.rv = cache.rv /\ cache'.clusterId = cache.clusterId
      /\ orig'.rv <= cache'.rv /\ (orig'.rv = cache'.rv => orig' = cache')
  BY <1>1, <1>2, VersionParts DEF Mutate
<1>4. \A v \in watch' : v.rv > cache'.rv
  BY <1>1, <1>3, VersionParts
<1>5. \A c \in ClusterIds : Mine(c)' <=> Mine(c)
  BY <1>1 DEF Mine
<1>6. \A c \in ClusterIds :
        Mine(c) => /\ origin'[c].rv <= cache'.rv
                   /\ origin'[c].rv = cache'.rv => cache'.clusterId # NoCluster
  BY <1>1, <1>3, VersionParts
<1>7. OneClusterPerVersion'
  BY <1>1, VersionParts DEF OneClusterPerVersion
<1> QED BY <1>1, <1>3, <1>4, <1>5, <1>6, <1>7 DEF Informed

LEMMA DeliverKeepsVersions ==
  ASSUME IInv, Informed, Deliver
  PROVE  Informed'
<1>1. PICK v \in watch : Receive(v)
  BY DEF Deliver
<1>2. /\ cache' = v /\ watch' = {w \in watch : w.rv > v.rv}
      /\ UNCHANGED <<origin, pc, orig, obj, crashes>>
  BY <1>1 DEF Receive, Deliver, cloud
<1>3. v.rv > cache.rv /\ v.rv \in Nat /\ cache.rv \in Nat /\ orig.rv \in Nat
  BY VersionParts, VersionTypes
<1>4. \A w \in watch' : w.rv > cache'.rv
  BY <1>2
<1>5. pc' # "idle" => orig'.rv <= cache'.rv /\ orig'.rv # cache'.rv
  BY <1>2, <1>3, VersionParts
<1>6. \A c \in ClusterIds : Mine(c)' <=> Mine(c)
  BY <1>2 DEF Mine
<1>7. \A c \in ClusterIds :
        Mine(c) => /\ origin'[c].rv <= cache'.rv /\ origin'[c].rv # cache'.rv
                   /\ pc' = "createCall" => origin'[c].rv # obj'.rv
  BY <1>2, <1>3, VersionParts, VersionTypes
<1>8. OneClusterPerVersion'
  BY <1>2, VersionParts DEF OneClusterPerVersion
<1> QED BY <1>4, <1>5, <1>6, <1>7, <1>8 DEF Informed

\* The next process was told of no cluster.
LEMMA RestartKeepsVersions ==
  ASSUME IInv, VInv, Restart
  PROVE  Informed'
<1>1. /\ watch' = {} /\ pc' = "idle" /\ crashes' = crashes + 1 /\ UNCHANGED origin
  BY DEF Restart, cloud
<1>2. \A c \in ClusterIds : ~Mine(c)'
  <2> TAKE c \in ClusterIds
  <2>1. origin[c].process <= crashes
    BY DEF VInv, NoneLater
  <2>2. origin[c].process \in Nat /\ crashes \in Nat
    BY VersionTypes
  <2> QED BY <1>1, <2>1, <2>2 DEF Mine
<1>3. OneClusterPerVersion'
  BY <1>1, VersionParts DEF VInv, OneClusterPerVersion
<1> QED BY <1>1, <1>2, <1>3 DEF Informed

\* The answered POST names the informer's entry too, when that has the version
\* the cluster was made from.
LEMMA CreateKeepsVersions ==
  ASSUME IInv, Informed, CreateCall
  PROVE  Informed'
<1> DEFINE from(b) == [uid |-> obj.uid, rv |-> obj.rv, process |-> crashes,
                       acked |-> b]
           Named(o, c) == [o EXCEPT !.clusterId = c]
<1>1. /\ pc = "createCall" /\ pc' \in {"createUpdate", "record"}
      /\ UNCHANGED <<watch, crashes>>
      /\ \/ \E c \in ClusterIds : Allocate(c, from(TRUE)) /\ Mutate(Named(orig, c))
         \/ /\ UNCHANGED <<orig, cache>>
            /\ UNCHANGED origin \/ \E c \in ClusterIds : Allocate(c, from(FALSE))
  BY DEF CreateCall, Return, Continue, store, cloud
<1>2. orig = obj
  BY <1>1, Parts DEF PointOK
<1>3. origin \in [ClusterIds -> Origin]
  BY Parts, TypeParts, Zenon
<1>4. ASSUME NEW c \in ClusterIds, Allocate(c, from(TRUE)), Mutate(Named(orig, c))
      PROVE  Informed'
  <2>1. /\ \A d \in ClusterIds : d # c => origin'[d] = origin[d]
        /\ origin'[c].acked = TRUE /\ origin'[c].uid = obj.uid
        /\ origin'[c].rv = obj.rv /\ origin'[c].process = crashes
    BY <1>3, <1>4 DEF Allocate
  <2>2. /\ Named(orig, c).rv = orig.rv /\ Named(orig, c).clusterId = c
        /\ c # NoCluster
    BY VersionTypes, TypesAssumption DEF Config
  <2>3. /\ cache'.rv = cache.rv /\ orig'.rv = orig.rv
        /\ cache.rv = orig.rv => cache' = orig' /\ cache'.clusterId = c
        /\ cache.rv # orig.rv => cache' = cache
    BY <1>4, <2>2 DEF Mutate
  <2>4. orig.rv <= cache.rv
    BY <1>1, VersionParts
  <2>5. \A v \in watch' : v.rv > cache'.rv
    BY <1>1, <2>3, VersionParts
  <2>6. orig'.rv <= cache'.rv /\ (orig'.rv = cache'.rv => orig' = cache')
    BY <2>3, <2>4
  <2>7. ASSUME NEW d \in ClusterIds
        PROVE  Mine(d)' => /\ origin'[d].rv <= cache'.rv
                           /\ origin'[d].rv = cache'.rv => cache'.clusterId # NoCluster
    <3>1. CASE d = c
      BY <1>1, <1>2, <2>1, <2>2, <2>3, <2>4, <3>1, VersionTypes DEF Mine
    <3>2. CASE d # c
      <4>1. origin'[d] = origin[d] /\ (Mine(d)' <=> Mine(d))
        BY <1>1, <2>1, <3>2 DEF Mine
      <4>2. cache'.clusterId = cache.clusterId \/ cache'.clusterId # NoCluster
        BY <2>2, <2>3
      <4> QED BY <1>1, <2>3, <4>1, <4>2, VersionParts
    <3> QED BY <3>1, <3>2
  <2>8. OneClusterPerVersion'
    <3>1. ASSUME NEW d \in ClusterIds, d # c, origin[d].acked,
                 origin[d].process = crashes
          PROVE  origin[d].rv # obj.rv
      BY <1>1, <3>1, VersionParts DEF Mine
    <3>2. ASSUME NEW d \in ClusterIds, NEW e \in ClusterIds,
                 origin'[d].acked, origin'[e].acked, origin'[d].uid = origin'[e].uid,
                 origin'[d].rv = origin'[e].rv, origin'[d].process = origin'[e].process
          PROVE  d = e
      <4>1. CASE d # c /\ e # c
        BY <2>1, <3>2, <4>1, VersionParts DEF OneClusterPerVersion
      <4>2. CASE d = c /\ e # c
        BY <2>1, <3>1, <3>2, <4>2
      <4>3. CASE d # c /\ e = c
        BY <2>1, <3>1, <3>2, <4>3
      <4> QED BY <4>1, <4>2, <4>3
    <3> QED BY <3>2 DEF OneClusterPerVersion
  <2> QED BY <1>1, <2>5, <2>6, <2>7, <2>8 DEF Informed
<1>5. ASSUME UNCHANGED <<orig, cache>>,
             \A c \in ClusterIds : \/ origin'[c] = origin[c]
                                   \/ ~origin'[c].acked /\ origin'[c].process = crashes
      PROVE  Informed'
  <2>1. \A v \in watch' : v.rv > cache'.rv
    BY <1>1, <1>5, VersionParts
  <2>2. orig'.rv <= cache'.rv /\ (orig'.rv = cache'.rv => orig' = cache')
    BY <1>1, <1>5, VersionParts
  <2>3. ASSUME NEW d \in ClusterIds
        PROVE  Mine(d)' => /\ origin'[d].rv <= cache'.rv
                           /\ origin'[d].rv = cache'.rv => cache'.clusterId # NoCluster
    <3>1. CASE origin'[d] = origin[d]
      <4>1. Mine(d)' <=> Mine(d)
        BY <1>1, <3>1 DEF Mine
      <4> QED BY <1>1, <1>5, <3>1, <4>1, VersionParts
    <3>2. CASE ~origin'[d].acked /\ origin'[d].process = crashes
      BY <1>1, <3>2, VersionTypes DEF Mine
    <3> QED BY <1>5, <3>1, <3>2
  <2>4. OneClusterPerVersion'
    BY <1>5, VersionParts DEF OneClusterPerVersion
  <2> QED BY <1>1, <2>1, <2>2, <2>3, <2>4 DEF Informed
<1>6. ASSUME UNCHANGED origin \/ \E c \in ClusterIds : Allocate(c, from(FALSE))
      PROVE  \A c \in ClusterIds : \/ origin'[c] = origin[c]
                                   \/ ~origin'[c].acked /\ origin'[c].process = crashes
  <2>1. CASE UNCHANGED origin
    BY <2>1
  <2>2. ASSUME NEW c \in ClusterIds, Allocate(c, from(FALSE))
        PROVE  /\ \A d \in ClusterIds : d # c => origin'[d] = origin[d]
               /\ origin'[c].acked = FALSE /\ origin'[c].process = crashes
    BY <1>3, <2>2 DEF Allocate
  <2> QED BY <1>6, <2>1, <2>2
<1> HIDE DEF from, Named
<1> QED BY <1>1, <1>4, <1>5, <1>6, Zenon

LEMMA VersionsInit ==
  ASSUME Init
  PROVE  VInv
<1>1. /\ watch = {} /\ pc = "idle" /\ crashes = 0
      /\ origin = [d \in ClusterIds |-> Foreign]
  BY DEF Init
<1>2. \A c \in ClusterIds : ~origin[c].acked /\ origin[c].process = 0
  BY <1>1 DEF Foreign
<1> QED BY <1>1, <1>2 DEF VInv, Informed, NoneLater, Mine, OneClusterPerVersion

\* Only what is unused becomes a cluster, and it is one of this process.
LEMMA OriginMoves ==
  ASSUME IInv, Next
  PROVE  /\ Kept(state, origin, state', origin')
         /\ \A c \in ClusterIds : \/ origin'[c] = origin[c]
                                  \/ origin'[c].process = crashes
<1> DEFINE Made == \E c \in ClusterIds : \E from : /\ from.process = crashes
                                                    /\ Allocate(c, from)
<1>1. UNCHANGED origin \/ Made
  <2>1. CreateCall => UNCHANGED origin \/ Made
    BY DEF CreateCall, cloud
  <2>2. ASSUME Worker, ~CreateCall PROVE UNCHANGED origin
    BY <2>2 DEF Worker, Sync, BeginImport, CreateUpdate, CreateStatus, WaitGet,
       CASecret, Activate, ImportGet, ImportPools, ImportUpdate, CheckGet,
       CheckStatus, CheckFence, CheckPools, PoolsStatus, Batch, ChangedUpdate,
       FinishUpdate, Record, Remove, SaveFinalizer, RemoveCall, cloud
  <2>3. ASSUME Deliver \/ Timer \/ Restart \/ World PROVE UNCHANGED origin
    BY <2>3 DEF Deliver, Timer, Restart, World, UserEdit, UserDelete, UserCreate,
       Collect, CloudStep, CloudDisturbed, Evolve, Disturb, cloud
  <2> QED BY <2>1, <2>2, <2>3, Zenon DEF Next
<1>2. \A c \in ClusterIds : \/ origin'[c] = origin[c]
                            \/ state[c] = "unused" /\ origin'[c].process = crashes
  <2>1. origin \in [ClusterIds -> Origin]
    BY Parts, TypeParts, Zenon
  <2> QED BY <1>1, <2>1 DEF Allocate
<1> QED BY <1>2, UpStays, Zenon DEF Kept

LEMMA NoneLaterKept ==
  ASSUME IInv, NoneLater, Next
  PROVE  NoneLater'
<1>1. crashes' \in Nat /\ crashes' >= crashes
  <2>1. crashes' = crashes \/ crashes' = crashes + 1
    BY RestingSteps
    DEF Rests, Sync, CreateCall, ImportGet, CheckGet, Deliver, Restart
  <2> QED BY <2>1, VersionTypes
<1> SUFFICES ASSUME NEW c \in ClusterIds PROVE origin'[c].process <= crashes'
  BY DEF NoneLater
<1>2. origin[c].process <= crashes /\ origin[c].process \in Nat
  BY VersionTypes DEF NoneLater
<1> QED BY <1>1, <1>2, OriginMoves, VersionTypes

LEMMA InformedSteps ==
  ASSUME IInv, Informed, Next, ~Restart
  PROVE  Informed'
BY RestingSteps, SyncKeepsVersions, CreateKeepsVersions, FixKeepsVersions,
   DeliverKeepsVersions, RestsKeepVersions, Zenon

LEMMA VersionsKeep ==
  ASSUME IInv, VInv, [Next]_vars
  PROVE  VInv'
<1>1. CASE Next
  BY <1>1, InformedSteps, RestartKeepsVersions, NoneLaterKept, Zenon DEF VInv
<1>2. CASE UNCHANGED vars
  <2>1. UNCHANGED <<watch, cache, origin, pc, orig, obj, crashes>>
    BY <1>2 DEF vars
  <2>2. OneClusterPerVersion'
    BY <2>1, VersionParts DEF VInv, OneClusterPerVersion
  <2> QED BY <2>1, <2>2, VersionParts DEF VInv, Informed, NoneLater, Mine
<1> QED BY <1>1, <1>2, Zenon

\* The versions at which the watch, the informer's entry and the sync's object
\* are keep in order, and the entry is named once a cluster was made for it.
THEOREM VersionsHold == Spec => []VInv
<1>1. Init => VInv
  BY VersionsInit
<1>2. IInv /\ VInv /\ [Next]_vars => VInv'
  BY VersionsKeep
<1> QED BY <1>1, <1>2, InvariantHolds, PTL DEF Spec

\* No process that was told of a cluster makes a second one from that version,
\* however its writes fail and its cache lags.
THEOREM NoSecondCluster == Spec => []OneClusterPerVersion
<1>1. VInv => OneClusterPerVersion
  BY DEF VInv, Informed
<1> QED BY <1>1, VersionsHold, PTL
-----------------------------------------------------------------------------
(* Two processes: what one of them leaves the other, which shares all but  *)
(* the cache and the sync with it.                                         *)

\* What every process relies on, whatever its own cache and sync hold.
SharedOK ==
  /\ cr \in Config /\ watch \subseteq Config /\ CloudTypeOK
  /\ secret \in Nat /\ outside \in Nat /\ faults \in Nat
  /\ cr.rv > 0 /\ cr.uid > 0 /\ Owns(cr, state, origin)
  /\ \A v \in watch : Tracked(v, cr, state, origin) /\ v.uid > 0 /\ Filled(v)
  /\ \A c \in ClusterIds : origin[c].uid <= cr.uid
  /\ NoUnaskedDelete /\ CloudOK /\ Filled(cr)
  /\ cr.phase = "creating" =>
       cr.clusterId \in ClusterIds /\ state[cr.clusterId] # "unused"
  /\ cr.phase \in {"active", "updating"} => Up(cr.clusterId)
  /\ secret <= cr.uid /\ ActiveHasSecret

\* How a step of any process moves the config, the clusters and the secret.
Onward ==
  /\ Grew(cr, cr') /\ Kept(state, origin, state', origin')
  /\ \A c \in ClusterIds :
       /\ state[c] \in {"deleting", "deleted"} => state'[c] \in {"deleting", "deleted"}
       /\ Up(c) => Up(c)'
  /\ First' => First /\ (secret # 0 => secret' # 0)
  /\ \A v \in watch' : v \in watch \/ (v = cr' /\ cr' # cr)

LEMMA SharedOf ==
  ASSUME IInv, TInv
  PROVE  SharedOK
<1>1. TypeOK /\ StoreOK /\ NoUnaskedDelete
  BY DEF IInv
<1>2. /\ cr \in Config /\ watch \subseteq Config /\ CloudTypeOK
      /\ secret \in Nat /\ outside \in Nat /\ faults \in Nat
  BY <1>1 DEF TypeOK, StoreTypeOK
<1>3. CloudOK /\ CopiesOK /\ PhaseOK /\ SecretOK
  BY DEF TInv
<1> QED BY <1>1, <1>2, <1>3, Zenon DEF StoreOK, CopiesOK, PhaseOK, SecretOK, SharedOK

LEMMA SharedAfter ==
  ASSUME IInv', TInv'
  PROVE  SharedOK'
<1>1. TypeOK' /\ StoreOK' /\ NoUnaskedDelete'
  BY DEF IInv
<1>2. /\ cr' \in Config /\ watch' \subseteq Config /\ CloudTypeOK'
      /\ secret' \in Nat /\ outside' \in Nat /\ faults' \in Nat
  BY <1>1 DEF TypeOK, StoreTypeOK
<1>3. CloudOK' /\ CopiesOK' /\ PhaseOK' /\ SecretOK'
  BY DEF TInv
<1> QED BY <1>1, <1>2, <1>3, Zenon DEF StoreOK, CopiesOK, PhaseOK, SecretOK, SharedOK

\* Events may be lost.
LEMMA SharedRests ==
  ASSUME SharedOK, watch' \subseteq watch,
         UNCHANGED <<cr, state, upstream, origin, secret, outside, faults>>
  PROVE  SharedOK'
BY DEF SharedOK, CloudTypeOK, NoUnaskedDelete, CloudOK, Up, ActiveHasSecret, First

LEMMA RestsOnward ==
  ASSUME UNCHANGED <<cr, state, origin, secret>>, watch' \subseteq watch
  PROVE  Onward
BY GrewSelf, KeptSelf DEF Onward, Up, First

LEMMA LifeGrows ==
  ASSUME IInv, Next
  PROVE  Grew(cr, cr')
<1>1. cr.rv \in Nat /\ cr.uid \in Nat
  BY Parts, FieldsOf
<1>2. NoWrite => cr' = cr
  BY DEF NoWrite
<1>3. \/ SpecStep \/ StatusStep \/ UserEdit \/ UserDelete
      => cr'.uid = cr.uid /\ (cr.life # "live" => cr'.life # "live")
  BY SpecStepShape, StatusStepShape, UserShape
<1>4. UserCreate => cr'.uid = cr.uid + 1
  BY UserShape
<1>5. cr' = cr \/ cr'.rv = cr.rv + 1
  BY StoreVersions DEF NoWrite
<1> QED BY <1>1, <1>2, <1>3, <1>4, <1>5, StoreChanges DEF Grew

LEMMA StepsOnward ==
  ASSUME IInv, TInv, Next
  PROVE  Onward
<1>1. state \in [ClusterIds -> States]
  BY Parts, TypeParts, Zenon
<1>2. \A c \in ClusterIds :
        state[c] \in {"deleting", "deleted"} => state'[c] \in {"deleting", "deleted"}
  BY <1>1, CloudMoves DEF OneMoves, Moves
<1>3. First' => First /\ (secret # 0 => secret' # 0)
  BY UidGrows, SecretStays, Zenon
<1>4. \A v \in watch' : v \in watch \/ (v = cr' /\ cr' # cr)
  BY FieldsOf, StoreVersions DEF IInv, NoWrite
<1> QED BY <1>2, <1>3, <1>4, LifeGrows, OriginMoves, UpStays, Zenon DEF Onward

\* A process that does nothing keeps what it knows while another one is at work.
LEMMA OthersKeep ==
  ASSUME IInv, TInv, SharedOK', Onward,
         UNCHANGED <<cache, pc, orig, obj, err, crashes>>,
         queued' \in BOOLEAN, delayed' \in BOOLEAN
  PROVE  IInv' /\ TInv'
<1>1. /\ TypeOK /\ StoreOK /\ SyncOK /\ PointOK
      /\ obj.rv \in Nat /\ cr.rv \in Nat /\ obj.rv <= cr.rv
  BY Parts, FieldsOf DEF SyncOK, Tracked, Copy, Earlier
<1>2. TypeOK'
  BY <1>1 DEF SharedOK, TypeOK, StoreTypeOK
<1>3. Grew(cr, cr') /\ Kept(state, origin, state', origin')
  BY DEF Onward
<1>4. Tracked(cache', cr', state', origin') /\ cache'.uid > 0
  BY <1>1, <1>2, <1>3, CopiesStay DEF StoreOK
<1>5. StoreOK'
  BY <1>4, Zenon DEF SharedOK, StoreOK
<1>6. SyncOK' /\ PointOK'
  BY <1>2, <1>3, SyncWaits, Zenon DEF Onward
<1>7. IInv'
  BY <1>2, <1>5, <1>6, IInvFrom, Zenon DEF SharedOK
<1>8. /\ Filled(cache) /\ Filled(orig) /\ Filled(obj)
      /\ PhaseOK /\ ImportOK /\ SecretOK
  BY TrackingParts
<1>9. CloudOK' /\ CopiesOK'
  BY <1>8 DEF SharedOK, CopiesOK
<1>10. PhaseOK'
  <2>1. \A c : Up(c) => c \in ClusterIds
    BY DEF Up
  <2>2. pc' \in {"importPools", "importUpdate", "caSecret", "activeStatus"} =>
          Up(obj.clusterId)'
    BY <1>8, <2>1 DEF PhaseOK, Onward, Up
  <2> QED BY <2>2 DEF SharedOK, PhaseOK
<1>11. ImportOK'
  <2>1. obj.rv = cr'.rv => cr' = cr
    BY <1>1, <1>3 DEF Grew
  <2> QED BY <1>8, <2>1 DEF ImportOK
<1>12. SecretOK'
  BY <1>8 DEF SharedOK, SecretOK, Onward
<1> QED BY <1>7, <1>9, <1>10, <1>11, <1>12 DEF TInv

\* Its entry and its object are as old or as new as before: what is stored, and
\* told of, meanwhile is newer, and the clusters made are not its own.
LEMMA OthersInform ==
  ASSUME IInv, Informed, Onward, UNCHANGED <<cache, pc, orig, obj, crashes>>,
         \A c \in ClusterIds : origin'[c] = origin[c] \/ origin'[c].process # crashes,
         cr' \in Config, OneClusterPerVersion'
  PROVE  Informed'
<1>1. \A v \in watch' : v.rv > cache'.rv
  <2>1. cr' # cr => cr'.rv > cache.rv
    <3>1. cr'.rv \in Nat
      BY ConfigFields, Zenon
    <3> QED BY <3>1, VersionTypes DEF Onward, Grew
  <2> QED BY <2>1, VersionParts DEF Onward
<1>2. \A c \in ClusterIds : Mine(c)' => Mine(c) /\ origin'[c] = origin[c]
  BY DEF Mine
<1> QED BY <1>1, <1>2, VersionParts DEF Informed

\* A process that has just listed the objects knows all it has to.
LEMMA FreshKnows ==
  ASSUME SharedOK', cache' = cr', pc' = "idle", orig' = Empty, obj' = Empty,
         err' = "", queued' \in BOOLEAN, delayed' \in BOOLEAN, crashes' \in Nat
  PROVE  IInv' /\ TInv'
<1>1. cr' \in Config /\ cr'.rv > 0 /\ cr'.uid > 0 /\ Owns(cr', state', origin')
  BY DEF SharedOK
<1>2. TypeOK'
  BY EmptyType DEF SharedOK, TypeOK, StoreTypeOK, Points
<1>3. Tracked(cr', cr', state', origin') /\ Tracked(Empty, cr', state', origin')
  BY <1>1, CopySelf, EmptyTracked DEF Tracked
<1>4. StoreOK'
  BY <1>1, <1>3 DEF SharedOK, StoreOK
<1>5. SyncOK' /\ PointOK'
  BY <1>3, SyncFrom, AtIdle
<1>6. IInv'
  BY <1>2, <1>4, <1>5, IInvFrom, Zenon DEF SharedOK
<1>7. CloudOK' /\ CopiesOK'
  BY DEF SharedOK, CopiesOK, Filled, Empty
<1>8. PhaseOK' /\ ImportOK' /\ SecretOK'
  BY DEF SharedOK, PhaseOK, ImportOK, SecretOK
<1> QED BY <1>6, <1>7, <1>8 DEF TInv

LEMMA FreshInforms ==
  ASSUME watch' = {}, pc' = "idle", OneClusterPerVersion',
         \A c \in ClusterIds : origin'[c].process # crashes'
  PROVE  Informed'
BY DEF Informed, Mine
=============================================================================
