--------------------------- MODULE Handover_proofs ---------------------------
(***************************************************************************)
(* HInv is an inductive invariant of Handover.  The lemmas about one       *)
(* process are taken over from LifecycleTracking_proofs, once for each of  *)
(* the two; what is new is how a step of one leaves the invariant of the   *)
(* other, and what the new one knows when it starts.                       *)
(***************************************************************************)
EXTENDS HandoverInvariant, TLAPS

OldP == INSTANCE LifecycleTracking_proofs
          WITH cache <- oldCache, queued <- oldQueued,
               delayed <- oldDelayed, pc <- oldPc, orig <- oldOrig,
               obj <- oldObj, err <- oldErr, crashes <- 0, MaxCrashes <- 0

NewP == INSTANCE LifecycleTracking_proofs
          WITH cache <- newCache, queued <- newQueued,
               delayed <- newDelayed, pc <- newPc, orig <- newOrig,
               obj <- newObj, err <- newErr, crashes <- 1, MaxCrashes <- 1

\* What the lemmas about one process assume of the constants.
LEMMA Bounds ==
  /\ MaxOutside \in Nat /\ MaxFaults \in Nat /\ MaxUid \in Nat \ {0}
  /\ 0 \in Nat /\ 1 \in Nat
  /\ NoCluster \notin ClusterIds /\ NoPools \notin Pools /\ Imported \in BOOLEAN
BY HandoverAssumption, TypesAssumption

-----------------------------------------------------------------------------
(* The two modules that a process is an instance of say the same of it.    *)

LEMMA OldWorker == Old!Worker => OldP!Worker
BY DEF Old!Worker, Old!Sync, Old!BeginImport, Old!CreateCall, Old!CreateUpdate,
   Old!CreateStatus, Old!WaitGet, Old!CASecret, Old!Activate, Old!ImportGet,
   Old!ImportPools, Old!ImportUpdate, Old!CheckGet, Old!CheckStatus,
   Old!CheckFence, Old!CheckPools, Old!PoolsStatus, Old!Batch, Old!ChangedUpdate,
   Old!FinishUpdate, Old!Record, Old!Remove, Old!SaveFinalizer, Old!RemoveCall,
   Old!Entry, Old!Empty, Old!SetPhase, Old!cloud, Old!queue, Old!Allocate,
   Old!Mutate, Old!Continue, Old!Fault, Old!Return, Old!store, Old!Save,
   Old!NoAnswer, Old!Present, Old!FixConfig, Old!Apply, Old!SetState,
   Old!NotChanged, Old!Accept, Old!SpecWrite, Old!Errors, Old!Refuse,
   Old!StatusWrite, Old!Latest, Old!Finish, Old!Spared, Old!Deletable,
   Old!CreateEntry, Old!Commit, OldP!Worker, OldP!Sync, OldP!BeginImport,
   OldP!CreateCall, OldP!CreateUpdate, OldP!CreateStatus, OldP!WaitGet,
   OldP!CASecret, OldP!Activate, OldP!ImportGet, OldP!ImportPools,
   OldP!ImportUpdate, OldP!CheckGet, OldP!CheckStatus, OldP!CheckFence,
   OldP!CheckPools, OldP!PoolsStatus, OldP!Batch, OldP!ChangedUpdate,
   OldP!FinishUpdate, OldP!Record, OldP!Remove, OldP!SaveFinalizer,
   OldP!RemoveCall, OldP!Entry, OldP!Empty, OldP!SetPhase, OldP!cloud, OldP!queue,
   OldP!Allocate, OldP!Mutate, OldP!Continue, OldP!Fault, OldP!Return, OldP!store,
   OldP!Save, OldP!NoAnswer, OldP!Present, OldP!FixConfig, OldP!Apply,
   OldP!SetState, OldP!NotChanged, OldP!Accept, OldP!SpecWrite, OldP!Errors,
   OldP!Refuse, OldP!StatusWrite, OldP!Latest, OldP!Finish, OldP!Spared,
   OldP!Deletable, OldP!CreateEntry, OldP!Commit

LEMMA OldWorld == Old!World => OldP!World
BY DEF Old!World, Old!UserEdit, Old!UserDelete, Old!UserCreate, Old!Collect,
   Old!CloudStep, Old!CloudDisturbed, Old!Commit, Old!cloud, Old!queue,
   Old!NewConfigs, Old!store, Old!Evolve, Old!Disturb, Old!SetState, OldP!World,
   OldP!UserEdit, OldP!UserDelete, OldP!UserCreate, OldP!Collect, OldP!CloudStep,
   OldP!CloudDisturbed, OldP!Commit, OldP!cloud, OldP!queue, OldP!NewConfigs,
   OldP!store, OldP!Evolve, OldP!Disturb, OldP!SetState

LEMMA OldRest ==
  /\ Old!Deliver => OldP!Deliver
  /\ Old!Timer => OldP!Timer
BY DEF Old!Deliver, Old!Timer, Old!Receive, Old!cloud, Old!store, OldP!Deliver,
   OldP!Timer, OldP!Receive, OldP!cloud, OldP!store

LEMMA OldIInv == (Old!IInv <=> OldP!IInv) /\ (Old!IInv' <=> OldP!IInv')
BY DEF Old!IInv, Old!TypeOK, Old!StoreOK, Old!SyncOK, Old!PointOK,
   Old!NoUnaskedDelete, Old!StoreTypeOK, Old!CloudTypeOK, Old!Points, Old!Config,
   Old!Errors, Old!Owns, Old!Tracked, Old!Spared, Old!States, Old!Origin,
   Old!Phases, Old!Copy, Old!Earlier, Old!Current, OldP!IInv, OldP!TypeOK,
   OldP!StoreOK, OldP!SyncOK, OldP!PointOK, OldP!NoUnaskedDelete,
   OldP!StoreTypeOK, OldP!CloudTypeOK, OldP!Points, OldP!Config, OldP!Errors,
   OldP!Owns, OldP!Tracked, OldP!Spared, OldP!States, OldP!Origin, OldP!Phases,
   OldP!Copy, OldP!Earlier, OldP!Current

LEMMA OldTInv == (Old!TInv <=> OldP!TInv) /\ (Old!TInv' <=> OldP!TInv')
BY DEF Old!TInv, Old!CloudOK, Old!CopiesOK, Old!PhaseOK, Old!ImportOK,
   Old!SecretOK, Old!Filled, Old!Up, Old!First, Old!ActiveHasSecret, OldP!TInv,
   OldP!CloudOK, OldP!CopiesOK, OldP!PhaseOK, OldP!ImportOK, OldP!SecretOK,
   OldP!Filled, OldP!Up, OldP!First, OldP!ActiveHasSecret

LEMMA OldInformed ==
  /\ Old!Informed <=> OldP!Informed
  /\ Old!Informed' <=> OldP!Informed'
BY DEF Old!Informed, Old!Mine, Old!OneClusterPerVersion, OldP!Informed, OldP!Mine,
   OldP!OneClusterPerVersion

LEMMA NewWorker == New!Worker => NewP!Worker
BY DEF New!Worker, New!Sync, New!BeginImport, New!CreateCall, New!CreateUpdate,
   New!CreateStatus, New!WaitGet, New!CASecret, New!Activate, New!ImportGet,
   New!ImportPools, New!ImportUpdate, New!CheckGet, New!CheckStatus,
   New!CheckFence, New!CheckPools, New!PoolsStatus, New!Batch, New!ChangedUpdate,
   New!FinishUpdate, New!Record, New!Remove, New!SaveFinalizer, New!RemoveCall,
   New!Entry, New!Empty, New!SetPhase, New!cloud, New!queue, New!Allocate,
   New!Mutate, New!Continue, New!Fault, New!Return, New!store, New!Save,
   New!NoAnswer, New!Present, New!FixConfig, New!Apply, New!SetState,
   New!NotChanged, New!Accept, New!SpecWrite, New!Errors, New!Refuse,
   New!StatusWrite, New!Latest, New!Finish, New!Spared, New!Deletable,
   New!CreateEntry, New!Commit, NewP!Worker, NewP!Sync, NewP!BeginImport,
   NewP!CreateCall, NewP!CreateUpdate, NewP!CreateStatus, NewP!WaitGet,
   NewP!CASecret, NewP!Activate, NewP!ImportGet, NewP!ImportPools,
   NewP!ImportUpdate, NewP!CheckGet, NewP!CheckStatus, NewP!CheckFence,
   NewP!CheckPools, NewP!PoolsStatus, NewP!Batch, NewP!ChangedUpdate,
   NewP!FinishUpdate, NewP!Record, NewP!Remove, NewP!SaveFinalizer,
   NewP!RemoveCall, NewP!Entry, NewP!Empty, NewP!SetPhase, NewP!cloud, NewP!queue,
   NewP!Allocate, NewP!Mutate, NewP!Continue, NewP!Fault, NewP!Return, NewP!store,
   NewP!Save, NewP!NoAnswer, NewP!Present, NewP!FixConfig, NewP!Apply,
   NewP!SetState, NewP!NotChanged, NewP!Accept, NewP!SpecWrite, NewP!Errors,
   NewP!Refuse, NewP!StatusWrite, NewP!Latest, NewP!Finish, NewP!Spared,
   NewP!Deletable, NewP!CreateEntry, NewP!Commit

LEMMA NewWorld == New!World => NewP!World
BY DEF New!World, New!UserEdit, New!UserDelete, New!UserCreate, New!Collect,
   New!CloudStep, New!CloudDisturbed, New!Commit, New!cloud, New!queue,
   New!NewConfigs, New!store, New!Evolve, New!Disturb, New!SetState, NewP!World,
   NewP!UserEdit, NewP!UserDelete, NewP!UserCreate, NewP!Collect, NewP!CloudStep,
   NewP!CloudDisturbed, NewP!Commit, NewP!cloud, NewP!queue, NewP!NewConfigs,
   NewP!store, NewP!Evolve, NewP!Disturb, NewP!SetState

LEMMA NewRest ==
  /\ New!Deliver => NewP!Deliver
  /\ New!Timer => NewP!Timer
BY DEF New!Deliver, New!Timer, New!Receive, New!cloud, New!store, NewP!Deliver,
   NewP!Timer, NewP!Receive, NewP!cloud, NewP!store

LEMMA NewIInv == (New!IInv <=> NewP!IInv) /\ (New!IInv' <=> NewP!IInv')
BY DEF New!IInv, New!TypeOK, New!StoreOK, New!SyncOK, New!PointOK,
   New!NoUnaskedDelete, New!StoreTypeOK, New!CloudTypeOK, New!Points, New!Config,
   New!Errors, New!Owns, New!Tracked, New!Spared, New!States, New!Origin,
   New!Phases, New!Copy, New!Earlier, New!Current, NewP!IInv, NewP!TypeOK,
   NewP!StoreOK, NewP!SyncOK, NewP!PointOK, NewP!NoUnaskedDelete,
   NewP!StoreTypeOK, NewP!CloudTypeOK, NewP!Points, NewP!Config, NewP!Errors,
   NewP!Owns, NewP!Tracked, NewP!Spared, NewP!States, NewP!Origin, NewP!Phases,
   NewP!Copy, NewP!Earlier, NewP!Current

LEMMA NewTInv == (New!TInv <=> NewP!TInv) /\ (New!TInv' <=> NewP!TInv')
BY DEF New!TInv, New!CloudOK, New!CopiesOK, New!PhaseOK, New!ImportOK,
   New!SecretOK, New!Filled, New!Up, New!First, New!ActiveHasSecret, NewP!TInv,
   NewP!CloudOK, NewP!CopiesOK, NewP!PhaseOK, NewP!ImportOK, NewP!SecretOK,
   NewP!Filled, NewP!Up, NewP!First, NewP!ActiveHasSecret

LEMMA NewInformed ==
  /\ New!Informed <=> NewP!Informed
  /\ New!Informed' <=> NewP!Informed'
BY DEF New!Informed, New!Mine, New!OneClusterPerVersion, NewP!Informed, NewP!Mine,
   NewP!OneClusterPerVersion

LEMMA OldInit ==
  /\ Old!Init => OldP!Init
  /\ Old!NoneLater <=> OldP!NoneLater
  /\ Old!NoneLater' <=> OldP!NoneLater'
BY DEF Old!Init, Old!NoneLater, Old!NewConfigs, Old!Foreign, Old!Empty, OldP!Init,
   OldP!NoneLater, OldP!NewConfigs, OldP!Foreign, OldP!Empty

\* What the two share is the same for both.
LEMMA SharedSame ==
  /\ OldP!SharedOK' <=> NewP!SharedOK'
  /\ OldP!OneClusterPerVersion' <=> NewP!OneClusterPerVersion'
BY DEF OldP!SharedOK, OldP!OneClusterPerVersion, OldP!Config, OldP!CloudTypeOK,
   OldP!Owns, OldP!Tracked, OldP!Filled, OldP!NoUnaskedDelete, OldP!CloudOK,
   OldP!Up, OldP!ActiveHasSecret, OldP!Phases, OldP!Errors, OldP!States,
   OldP!Origin, OldP!Copy, OldP!First, OldP!Earlier, OldP!Current, NewP!SharedOK,
   NewP!OneClusterPerVersion, NewP!Config, NewP!CloudTypeOK, NewP!Owns,
   NewP!Tracked, NewP!Filled, NewP!NoUnaskedDelete, NewP!CloudOK, NewP!Up,
   NewP!ActiveHasSecret, NewP!Phases, NewP!Errors, NewP!States, NewP!Origin,
   NewP!Copy, NewP!First, NewP!Earlier, NewP!Current

LEMMA OnwardSame == OldP!Onward <=> NewP!Onward
BY DEF OldP!Onward, OldP!Grew, OldP!Kept, OldP!Up, OldP!First, NewP!Onward,
   NewP!Grew, NewP!Kept, NewP!Up, NewP!First

-----------------------------------------------------------------------------
(* One process.                                                            *)

\* A step of a process keeps what it knows, and moves what the two share.
LEMMA OldSteps ==
  ASSUME OldTracks, Old!Worker \/ Old!Deliver \/ Old!Timer \/ Old!World
  PROVE  /\ OldP!Next /\ OldP!IInv
         /\ OldTracks' /\ OldP!SharedOK' /\ OldP!Onward
         /\ OldP!OneClusterPerVersion'
         /\ Old!NoneLater => Old!NoneLater'
         /\ \A c \in ClusterIds : origin'[c] = origin[c] \/ origin'[c].process = 0
<1>1. OldP!IInv /\ OldP!TInv /\ OldP!Informed
  BY OldIInv, OldTInv, OldInformed DEF OldTracks
<1>2. OldP!Next /\ ~OldP!Restart
  <2>1. OldP!Worker \/ OldP!Deliver \/ OldP!Timer \/ OldP!World
    BY OldWorker, OldWorld, OldRest
  <2>2. ~OldP!Restart
    BY DEF OldP!Restart
  <2> QED BY <2>1, <2>2, Zenon DEF OldP!Next
<1>3. OldP!IInv'
  BY <1>1, <1>2, OldP!StepKeeps, Bounds
<1>4. OldP!TInv'
  BY <1>1, <1>2, OldP!TrackingKeeps, Bounds
<1>5. OldP!Informed'
  BY <1>1, <1>2, OldP!InformedSteps, Bounds
<1>6. OldTracks' /\ OldP!OneClusterPerVersion'
  BY <1>3, <1>4, <1>5, OldIInv, OldTInv, OldInformed DEF OldTracks, OldP!Informed
<1>7. OldP!SharedOK'
  BY <1>3, <1>4, OldP!SharedAfter, Bounds
<1>8. OldP!Onward
  BY <1>1, <1>2, OldP!StepsOnward, Bounds
<1>9. Old!NoneLater => Old!NoneLater'
  BY <1>1, <1>2, OldInit, OldP!NoneLaterKept, Bounds
<1>10. \A c \in ClusterIds : origin'[c] = origin[c] \/ origin'[c].process = 0
  BY <1>1, <1>2, OldP!OriginMoves, Bounds
<1> QED BY <1>1, <1>2, <1>6, <1>7, <1>8, <1>9, <1>10

LEMMA NewSteps ==
  ASSUME NewTracks, New!Worker \/ New!Deliver \/ New!Timer \/ New!World
  PROVE  /\ NewP!Next /\ NewP!IInv
         /\ NewTracks' /\ OldP!SharedOK' /\ OldP!Onward
         /\ OldP!OneClusterPerVersion'
         /\ \A c \in ClusterIds : origin'[c] = origin[c] \/ origin'[c].process = 1
<1>1. NewP!IInv /\ NewP!TInv /\ NewP!Informed
  BY NewIInv, NewTInv, NewInformed DEF NewTracks
<1>2. NewP!Next /\ ~NewP!Restart
  <2>1. NewP!Worker \/ NewP!Deliver \/ NewP!Timer \/ NewP!World
    BY NewWorker, NewWorld, NewRest
  <2>2. ~NewP!Restart
    BY DEF NewP!Restart
  <2> QED BY <2>1, <2>2, Zenon DEF NewP!Next
<1>3. NewP!IInv'
  BY <1>1, <1>2, NewP!StepKeeps, Bounds
<1>4. NewP!TInv'
  BY <1>1, <1>2, NewP!TrackingKeeps, Bounds
<1>5. NewP!Informed'
  BY <1>1, <1>2, NewP!InformedSteps, Bounds
<1>6. NewTracks' /\ OldP!OneClusterPerVersion'
  BY <1>3, <1>4, <1>5, NewIInv, NewTInv, NewInformed, SharedSame
  DEF NewTracks, NewP!Informed
<1>7. OldP!SharedOK'
  BY <1>3, <1>4, NewP!SharedAfter, Bounds, SharedSame
<1>8. OldP!Onward
  BY <1>1, <1>2, NewP!StepsOnward, Bounds, OnwardSame
<1>9. \A c \in ClusterIds : origin'[c] = origin[c] \/ origin'[c].process = 1
  BY <1>1, <1>2, NewP!OriginMoves, Bounds
<1> QED BY <1>1, <1>2, <1>6, <1>7, <1>8, <1>9

\* A process that waits while the other one makes a step knows what it did.
LEMMA OldStays ==
  ASSUME OldTracks, OldP!SharedOK', OldP!Onward, OldP!OneClusterPerVersion',
         \A c \in ClusterIds : origin'[c] = origin[c] \/ origin'[c].process # 0,
         UNCHANGED <<oldCache, oldPc, oldOrig, oldObj, oldErr>>,
         oldQueued' \in BOOLEAN, oldDelayed' \in BOOLEAN
  PROVE  OldTracks'
<1>1. OldP!IInv /\ OldP!TInv /\ OldP!Informed
  BY OldIInv, OldTInv, OldInformed DEF OldTracks
<1>2. OldP!IInv' /\ OldP!TInv'
  BY <1>1, OldP!OthersKeep, Bounds
<1>3. cr' \in OldP!Config
  BY DEF OldP!SharedOK
<1>4. OldP!Informed'
  BY <1>1, <1>3, OldP!OthersInform, Bounds
<1> QED BY <1>2, <1>4, OldIInv, OldTInv, OldInformed DEF OldTracks

LEMMA NewStays ==
  ASSUME NewTracks, OldP!SharedOK', OldP!Onward, OldP!OneClusterPerVersion',
         \A c \in ClusterIds : origin'[c] = origin[c] \/ origin'[c].process # 1,
         UNCHANGED newSync
  PROVE  NewTracks'
<1>0. UNCHANGED <<newCache, newQueued, newDelayed, newPc, newOrig, newObj, newErr>>
  BY DEF newSync
<1>1. NewP!IInv /\ NewP!TInv /\ NewP!Informed
  BY NewIInv, NewTInv, NewInformed DEF NewTracks
<1>2. NewP!SharedOK' /\ NewP!Onward /\ NewP!OneClusterPerVersion'
  BY SharedSame, OnwardSame
<1>3. newQueued' \in BOOLEAN /\ newDelayed' \in BOOLEAN
  BY <1>0, <1>1 DEF NewP!IInv, NewP!TypeOK
<1>4. NewP!IInv' /\ NewP!TInv'
  BY <1>0, <1>1, <1>2, <1>3, NewP!OthersKeep, Bounds
<1>5. cr' \in NewP!Config
  BY <1>2 DEF NewP!SharedOK
<1>6. NewP!Informed'
  BY <1>0, <1>1, <1>2, <1>5, NewP!OthersInform, Bounds
<1> QED BY <1>4, <1>6, NewIInv, NewTInv, NewInformed DEF NewTracks

\* While nothing is written, both go on knowing what one of them knew.
LEMMA SharedWaits ==
  ASSUME OldTracks \/ NewTracks, watch' \subseteq watch,
         UNCHANGED <<cr, state, upstream, origin, secret, outside, faults>>
  PROVE  OldP!SharedOK' /\ OldP!Onward /\ OldP!OneClusterPerVersion'
<1>1. CASE OldTracks
  <2>1. OldP!IInv /\ OldP!TInv /\ OldP!Informed
    BY <1>1, OldIInv, OldTInv, OldInformed DEF OldTracks
  <2>2. OldP!SharedOK
    BY <2>1, OldP!SharedOf, Bounds
  <2>3. OldP!SharedOK' /\ OldP!Onward
    BY <2>2, OldP!SharedRests, OldP!RestsOnward, Bounds
  <2> QED BY <2>1, <2>3 DEF OldP!Informed, OldP!OneClusterPerVersion
<1>2. CASE NewTracks
  <2>1. NewP!IInv /\ NewP!TInv /\ NewP!Informed
    BY <1>2, NewIInv, NewTInv, NewInformed DEF NewTracks
  <2>2. NewP!SharedOK
    BY <2>1, NewP!SharedOf, Bounds
  <2>3. NewP!SharedOK' /\ NewP!Onward
    BY <2>2, NewP!SharedRests, NewP!RestsOnward, Bounds
  <2>4. NewP!OneClusterPerVersion'
    BY <2>1 DEF NewP!Informed, NewP!OneClusterPerVersion
  <2> QED BY <2>3, <2>4, SharedSame, OnwardSame
<1> QED BY <1>1, <1>2

LEMMA GoneRests ==
  ASSUME OldGone
  PROVE  ~Old!Worker
BY DEF OldGone, Old!Worker, Old!Sync, Old!BeginImport, Old!CreateCall,
   Old!CreateUpdate, Old!CreateStatus, Old!WaitGet, Old!CASecret, Old!Activate,
   Old!ImportGet, Old!ImportPools, Old!ImportUpdate, Old!CheckGet, Old!CheckStatus,
   Old!CheckFence, Old!CheckPools, Old!PoolsStatus, Old!Batch, Old!ChangedUpdate,
   Old!FinishUpdate, Old!Record, Old!Remove, Old!SaveFinalizer, Old!RemoveCall

-----------------------------------------------------------------------------
(* Both.                                                                   *)

LEMMA HInit ==
  ASSUME Init
  PROVE  HInv
<1>1. OldP!Init /\ taken = FALSE /\ NewWaits
  BY OldInit DEF Init, NewWaits
<1>2. OldP!IInv
  BY <1>1, OldP!InitInvariant, Bounds
<1>3. OldP!TInv
  BY <1>1, OldP!TrackingInit, Bounds
<1>4. OldP!Informed /\ OldP!NoneLater
  BY <1>1, OldP!VersionsInit, Bounds DEF OldP!VInv
<1>5. OldTracks /\ Old!NoneLater
  BY <1>2, <1>3, <1>4, OldInit, OldIInv, OldTInv, OldInformed DEF OldTracks
<1> QED BY <1>1, <1>5 DEF HInv

\* The new process knows, when it starts, what the old one leaves behind.
LEMMA TakeoverKeeps ==
  ASSUME HInv, Takeover
  PROVE  HInv'
<1>1. /\ OldTracks /\ Old!NoneLater /\ NewWaits /\ taken' = TRUE
      /\ watch' = {} /\ newCache' = cr /\ newQueued' = TRUE /\ oldDelayed' = FALSE
      /\ UNCHANGED <<cr, state, upstream, origin, secret, outside, faults, oldCache,
                     oldQueued, oldPc, oldOrig, oldObj, oldErr, newDelayed, newPc,
                     newOrig, newObj, newErr>>
  BY DEF HInv, Takeover
<1>2. OldP!IInv /\ OldP!TInv /\ OldP!Informed /\ OldP!NoneLater
  BY <1>1, OldIInv, OldTInv, OldInformed, OldInit DEF OldTracks
<1>3. OldP!SharedOK' /\ OldP!Onward /\ OldP!OneClusterPerVersion'
  <2>1. watch' \subseteq watch
    BY <1>1
  <2> QED BY <1>1, <2>1, SharedWaits
<1>4. OldTracks'
  <2>1. oldQueued \in BOOLEAN
    BY <1>2 DEF OldP!IInv, OldP!TypeOK
  <2> QED BY <1>1, <1>3, <2>1, OldStays
<1>5. NewTracks'
  <2>1. NewP!SharedOK' /\ NewP!OneClusterPerVersion'
    BY <1>3, SharedSame
  <2>2. /\ newCache' = cr' /\ newPc' = "idle" /\ newErr' = ""
        /\ newOrig' = NewP!Empty /\ newObj' = NewP!Empty
        /\ newQueued' \in BOOLEAN /\ newDelayed' \in BOOLEAN
    BY <1>1 DEF NewWaits, Empty, NewP!Empty
  <2>3. NewP!IInv' /\ NewP!TInv'
    BY <2>1, <2>2, NewP!FreshKnows, Bounds
  <2>4. \A c \in ClusterIds : origin'[c].process # 1
    BY <1>1, <1>2, OldP!VersionTypes, Bounds DEF OldP!NoneLater
  <2>5. NewP!Informed'
    BY <1>1, <2>1, <2>2, <2>4, NewP!FreshInforms, Bounds
  <2> QED BY <2>3, <2>5, NewIInv, NewTInv, NewInformed DEF NewTracks
<1> QED BY <1>1, <1>4, <1>5 DEF HInv

LEMMA ByOldKeeps ==
  ASSUME HInv,
         \/ ByOld(Old!Worker) \/ ByOld(Old!Deliver) \/ ByOld(Old!Timer)
         \/ ByOld(Old!World)
  PROVE  HInv'
<1>1. /\ ~taken /\ UNCHANGED <<taken, newSync>>
      /\ Old!Worker \/ Old!Deliver \/ Old!Timer \/ Old!World
  BY DEF ByOld
<1>2. OldTracks /\ Old!NoneLater /\ NewWaits
  BY <1>1 DEF HInv
<1>3. OldTracks' /\ Old!NoneLater'
  BY <1>1, <1>2, OldSteps
<1>4. NewWaits'
  BY <1>1, <1>2 DEF NewWaits, newSync
<1> QED BY <1>1, <1>3, <1>4 DEF HInv

\* What the old process still does, the new one takes in its stride.
LEMMA DrainKeeps ==
  ASSUME HInv, Drain
  PROVE  HInv'
<1>1. taken /\ Old!Worker /\ UNCHANGED <<taken, newSync>>
  BY DEF Drain
<1>2. NewTracks /\ (OldTracks \/ OldGone)
  BY <1>1 DEF HInv
<1>3. ~OldGone
  BY <1>1, GoneRests
<1>4. /\ OldTracks' /\ OldP!SharedOK' /\ OldP!Onward /\ OldP!OneClusterPerVersion'
      /\ \A c \in ClusterIds : origin'[c] = origin[c] \/ origin'[c].process = 0
  BY <1>1, <1>2, <1>3, OldSteps
<1>5. \A c \in ClusterIds : origin'[c] = origin[c] \/ origin'[c].process # 1
  BY <1>4
<1>6. NewTracks'
  BY <1>1, <1>2, <1>4, <1>5, NewStays
<1> QED BY <1>1, <1>4, <1>6 DEF HInv

LEMMA ByNewKeeps ==
  ASSUME HInv,
         \/ ByNew(New!Worker) \/ ByNew(New!Deliver) \/ ByNew(New!Timer)
         \/ ByNew(New!World)
  PROVE  HInv'
<1>1. /\ taken /\ UNCHANGED <<taken, oldSync>>
      /\ New!Worker \/ New!Deliver \/ New!Timer \/ New!World
  BY DEF ByNew
<1>2. NewTracks /\ (OldTracks \/ OldGone)
  BY <1>1 DEF HInv
<1>3. /\ NewTracks' /\ OldP!SharedOK' /\ OldP!Onward /\ OldP!OneClusterPerVersion'
      /\ \A c \in ClusterIds : origin'[c] = origin[c] \/ origin'[c].process = 1
  BY <1>1, <1>2, NewSteps
<1>4. UNCHANGED <<oldCache, oldQueued, oldDelayed, oldPc, oldOrig, oldObj, oldErr>>
  BY <1>1 DEF oldSync
<1>5. OldGone => OldGone'
  BY <1>4 DEF OldGone
<1>6. OldTracks => OldTracks'
  <2> SUFFICES ASSUME OldTracks PROVE OldTracks'
    OBVIOUS
  <2>1. oldQueued' \in BOOLEAN /\ oldDelayed' \in BOOLEAN
    BY <1>4, OldIInv DEF OldTracks, OldP!IInv, OldP!TypeOK
  <2>2. \A c \in ClusterIds : origin'[c] = origin[c] \/ origin'[c].process # 0
    BY <1>3
  <2> QED BY <1>3, <1>4, <2>1, <2>2, OldStays
<1> QED BY <1>1, <1>2, <1>3, <1>5, <1>6 DEF HInv

LEMMA ExitKeeps ==
  ASSUME HInv, Exit
  PROVE  HInv'
<1>1. taken /\ NewTracks /\ OldGone' /\ UNCHANGED <<taken, shared, newSync>>
  BY DEF HInv, Exit, OldGone
<1>2. UNCHANGED <<cr, watch, state, upstream, origin, secret, outside, faults>>
  BY <1>1 DEF shared
<1>3. OldP!SharedOK' /\ OldP!Onward /\ OldP!OneClusterPerVersion'
  BY <1>1, <1>2, SharedWaits
<1>4. NewTracks'
  BY <1>1, <1>2, <1>3, NewStays
<1> QED BY <1>1, <1>4 DEF HInv

LEMMA HandoverStutters ==
  ASSUME HInv, UNCHANGED vars
  PROVE  HInv'
<1>1. /\ UNCHANGED <<taken, cr, watch, state, upstream, origin, secret, outside, faults>>
      /\ UNCHANGED <<oldCache, oldQueued, oldDelayed, oldPc, oldOrig, oldObj, oldErr>>
      /\ UNCHANGED <<newCache, newQueued, newDelayed, newPc, newOrig, newObj, newErr>>
  BY DEF vars, shared, oldSync, newSync
<1>2. OldP!SharedOK' /\ OldP!Onward /\ OldP!OneClusterPerVersion'
  BY <1>1, SharedWaits DEF HInv
<1>3. NewTracks => NewTracks'
  BY <1>1, <1>2, NewStays DEF newSync
<1>4. OldTracks => OldTracks'
  <2> SUFFICES ASSUME OldTracks PROVE OldTracks'
    OBVIOUS
  <2>1. oldQueued' \in BOOLEAN /\ oldDelayed' \in BOOLEAN
    BY <1>1, OldIInv DEF OldTracks, OldP!IInv, OldP!TypeOK
  <2> QED BY <1>1, <1>2, <2>1, OldStays
<1>5. /\ NewWaits => NewWaits'
      /\ OldGone => OldGone'
      /\ Old!NoneLater => Old!NoneLater'
  BY <1>1 DEF NewWaits, OldGone, Old!NoneLater
<1> QED BY <1>1, <1>3, <1>4, <1>5 DEF HInv

LEMMA HandoverKeeps ==
  ASSUME HInv, [Next]_vars
  PROVE  HInv'
<1>1. CASE Next
  BY <1>1, TakeoverKeeps, DrainKeeps, ExitKeeps, ByOldKeeps, ByNewKeeps, Zenon DEF Next
<1>2. CASE UNCHANGED vars
  BY <1>2, HandoverStutters
<1> QED BY <1>1, <1>2

-----------------------------------------------------------------------------
(* Theorems.                                                               *)

\* From the start of the new process to the exit of the old one, each of them
\* knows the config, the clusters and its own writes as if it were alone.
THEOREM BothKnow == Spec => []HInv
<1>1. Init => HInv
  BY HInit
<1>2. HInv /\ [Next]_vars => HInv'
  BY HandoverKeeps
<1> QED BY <1>1, <1>2, PTL DEF Spec

\* The stored phase does not run ahead of the cloud, whichever process wrote it.
THEOREM PhaseIsBehindBoth == Spec => []PhaseTracksCluster
<1>1. HInv => PhaseTracksCluster
  BY DEF HInv, OldTracks, NewTracks, PhaseTracksCluster, Old!PhaseTracksCluster,
     Old!TInv, Old!PhaseOK, Old!Up, New!TInv, New!PhaseOK, New!Up
<1> QED BY <1>1, BothKnow, PTL

\* Each process makes one cluster at most from a version that it was told of.
THEOREM NoSecondClusterBoth == Spec => []OneClusterPerVersion
<1>1. HInv => OneClusterPerVersion
  BY DEF HInv, OldTracks, NewTracks, OneClusterPerVersion, Old!OneClusterPerVersion,
     Old!Informed, New!Informed, New!OneClusterPerVersion
<1> QED BY <1>1, BothKnow, PTL

\* Every step is one of a process that knows what it writes to, or writes nothing.
LEMMA WhoWrites ==
  ASSUME HInv, [Next]_vars
  PROVE  \/ OldP!Next /\ OldP!IInv
         \/ NewP!Next /\ NewP!IInv
         \/ UNCHANGED cr
<1>1. CASE Takeover \/ Exit \/ UNCHANGED vars
  BY <1>1 DEF Takeover, Exit, vars, shared
<1>2. ASSUME \/ ByOld(Old!Worker) \/ ByOld(Old!Deliver) \/ ByOld(Old!Timer)
             \/ ByOld(Old!World) \/ Drain
      PROVE  OldP!Next /\ OldP!IInv
  <2>1. /\ Old!Worker \/ Old!Deliver \/ Old!Timer \/ Old!World
        /\ ~taken \/ Old!Worker
    BY <1>2 DEF ByOld, Drain
  <2>2. OldTracks
    BY <2>1, GoneRests DEF HInv
  <2> QED BY <2>1, <2>2, OldSteps
<1>3. ASSUME \/ ByNew(New!Worker) \/ ByNew(New!Deliver) \/ ByNew(New!Timer)
             \/ ByNew(New!World)
      PROVE  NewP!Next /\ NewP!IInv
  <2>1. (New!Worker \/ New!Deliver \/ New!Timer \/ New!World) /\ NewTracks
    BY <1>3 DEF ByNew, HInv
  <2> QED BY <2>1, NewSteps
<1> QED BY <1>1, <1>2, <1>3, Zenon DEF Next

LEMMA ChangeSame ==
  \/ [OldP!Abs!Change]_(OldP!Abs!seen)
  \/ [NewP!Abs!Change]_(NewP!Abs!seen)
  => [Old!Abs!Change]_(Old!Abs!seen)
BY DEF Old!Abs!Change, Old!Abs!seen, Old!Abs!Name, Old!Abs!BeginCreating,
   Old!Abs!BeginImporting, Old!Abs!Activate, Old!Abs!BeginUpdating, Old!Abs!Leave,
   Old!Abs!Reborn, Old!Abs!Born, OldP!Abs!Change, OldP!Abs!seen, OldP!Abs!Name,
   OldP!Abs!BeginCreating, OldP!Abs!BeginImporting, OldP!Abs!Activate,
   OldP!Abs!BeginUpdating, OldP!Abs!Leave, OldP!Abs!Reborn, OldP!Abs!Born,
   NewP!Abs!Change, NewP!Abs!seen, NewP!Abs!Name, NewP!Abs!BeginCreating,
   NewP!Abs!BeginImporting, NewP!Abs!Activate, NewP!Abs!BeginUpdating,
   NewP!Abs!Leave, NewP!Abs!Reborn, NewP!Abs!Born

\* Whoever watches the config sees the phases in their order and one cluster,
\* named for good, however the writes of the two processes interleave.
THEOREM RefinementBoth == Spec => PhasesImplemented
<1>1. Init => Old!Abs!Born
  BY OldInit, OldP!BornFirst, Bounds DEF Init, Old!Abs!Born, OldP!Abs!Born
<1>2. HInv /\ [Next]_vars => [Old!Abs!Change]_(Old!Abs!seen)
  <2> SUFFICES ASSUME HInv, [Next]_vars PROVE [Old!Abs!Change]_(Old!Abs!seen)
    OBVIOUS
  <2>1. CASE OldP!Next /\ OldP!IInv
    BY <2>1, OldP!StepRefines, ChangeSame, Bounds
  <2>2. CASE NewP!Next /\ NewP!IInv
    BY <2>2, NewP!StepRefines, ChangeSame, Bounds
  <2>3. CASE UNCHANGED cr
    BY <2>3 DEF Old!Abs!seen
  <2> QED BY <2>1, <2>2, <2>3, WhoWrites
<1> QED BY <1>1, <1>2, BothKnow, PTL
        DEF Spec, PhasesImplemented, Old!PhasesImplemented, Old!Abs!Spec

\* No process removes the finalizer of a config whose cluster is there, from
\* whatever copy, and whatever the other one wrote in between.
THEOREM RemovalIsCompleteBoth == Spec => RemovalDeletesCluster
<1> DEFINE Removes == cr.life = "deleting" /\ cr'.life = "gone" /\ ~Imported
                        /\ cr.phase # ""
           Deleted == state[cr.clusterId] \in {"deleting", "deleted"}
<1>1. HInv /\ [Next]_vars => [Removes => Deleted]_cr
  <2> SUFFICES ASSUME HInv, [Next]_vars, Removes, cr' # cr PROVE Deleted
    OBVIOUS
  <2>1. CASE OldP!Next /\ OldP!IInv
    BY <2>1, OldP!StepRemoves, Bounds
  <2>2. CASE NewP!Next /\ NewP!IInv
    BY <2>2, NewP!StepRemoves, Bounds
  <2> QED BY <2>1, <2>2, WhoWrites
<1> QED BY <1>1, BothKnow, PTL
        DEF Spec, RemovalDeletesCluster, Old!RemovalDeletesCluster

\* What one process promises of the clusters it deletes, of the CA secret and of
\* imported pools, two keep.
THEOREM PromisesKeptByBoth ==
  Spec => [](Old!NoUnaskedDelete /\ Old!ActiveHasSecret /\ Old!ImportKeepsPools)
<1> DEFINE Promises == /\ Old!NoUnaskedDelete /\ Old!ActiveHasSecret
                       /\ Old!ImportKeepsPools
<1>1. OldTracks => Promises
  BY DEF OldTracks, Old!IInv, Old!TInv, Old!SecretOK, Old!CloudOK, Old!CopiesOK,
     Old!Filled, Old!PhaseOK, Old!Up, Old!ImportKeepsPools
<1>2. NewTracks => New!NoUnaskedDelete /\ New!ActiveHasSecret /\ New!ImportKeepsPools
  BY DEF NewTracks, New!IInv, New!TInv, New!SecretOK, New!CloudOK, New!CopiesOK,
     New!Filled, New!PhaseOK, New!Up, New!ImportKeepsPools
<1>3. New!NoUnaskedDelete /\ New!ActiveHasSecret /\ New!ImportKeepsPools => Promises
  BY DEF New!NoUnaskedDelete, New!ActiveHasSecret, New!ImportKeepsPools, New!First,
     Old!NoUnaskedDelete, Old!ActiveHasSecret, Old!ImportKeepsPools, Old!First
<1>4. HInv => Promises
  BY <1>1, <1>2, <1>3, Zenon DEF HInv
<1> QED BY <1>4, BothKnow, PTL

\* Neither process undoes what the user asked for, by a write from a copy that the
\* other one or the user has overtaken.
THEOREM PoolsAreTheUsersBoth == Spec => Old!UserPoolsKept
<1> DEFINE Kind == outside' # outside \/ cr.life = "gone" \/ cr.phase = "importing"
<1>1. HInv /\ [Next]_vars => [cr'.pools # cr.pools => Kind]_cr
  <2> SUFFICES ASSUME HInv, [Next]_vars, cr'.pools # cr.pools PROVE Kind
    OBVIOUS
  <2>1. CASE OldP!Next /\ OldP!IInv
    BY <2>1, OldP!StepKeepsPools, Bounds
  <2>2. CASE NewP!Next /\ NewP!IInv
    BY <2>2, NewP!StepKeepsPools, Bounds
  <2> QED BY <2>1, <2>2, WhoWrites
<1> QED BY <1>1, BothKnow, PTL DEF Spec, Old!UserPoolsKept
=============================================================================
