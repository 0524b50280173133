---------------------- MODULE LifecycleInvariant_proofs ----------------------
(***************************************************************************)
(* IInv is an inductive invariant of ClusterLifecycle: how copies of the   *)
(* config age when it is replaced, what one write leaves stored, then each *)
(* action of a handler and of the others in turn.                          *)
(***************************************************************************)
EXTENDS LifecycleInvariant, ClusterLifecycle_proofs

-----------------------------------------------------------------------------
(* Copies of the config.                                                   *)
\* The stored config c is replaced by d, or not.
Grew(c, d) ==
  \/ d = c
  \/ /\ d.rv > c.rv /\ d.uid >= c.uid
     /\ d.uid = c.uid /\ c.life # "live" => d.life # "live"
\* Clusters that exist go on existing, with the origin they have.
Kept(st, og, st2, og2) ==
  \A c \in ClusterIds :
    st[c] # "unused" => st2[c] # "unused" /\ og2[c] = og[c]

LEMMA CopySelf ==
  ASSUME NEW c \in Config
  PROVE  Copy(c, c)
<1>1. c.rv \in Nat /\ c.uid \in Nat
  BY ConfigFields, Zenon
<1> QED BY <1>1 DEF Copy, Earlier, Current

LEMMA CopyStays ==
  ASSUME NEW o \in Config, NEW c \in Config, NEW d \in Config,
         Copy(o, c), Grew(c, d)
  PROVE  Copy(o, d)
<1>1. /\ o.rv \in Nat /\ c.rv \in Nat /\ d.rv \in Nat
      /\ o.uid \in Nat /\ c.uid \in Nat /\ d.uid \in Nat
  BY ConfigFields, Zenon
<1> QED BY <1>1 DEF Copy, Earlier, Grew

LEMMA OwnsStays ==
  ASSUME NEW o \in Config, NEW st, NEW og, NEW st2, NEW og2,
         Owns(o, st, og), Kept(st, og, st2, og2)
  PROVE  Owns(o, st2, og2)
<1>1. o.clusterId \in ClusterIds \cup {NoCluster}
  BY ConfigFields, Zenon
<1>2. o.clusterId # NoCluster => o.clusterId \in ClusterIds
  BY <1>1
<1> QED BY <1>2, Zenon DEF Owns, Kept

LEMMA TrackedStays ==
  ASSUME NEW o \in Config, NEW c \in Config, NEW d \in Config,
         NEW st, NEW og, NEW st2, NEW og2,
         Tracked(o, c, st, og), Grew(c, d), Kept(st, og, st2, og2)
  PROVE  Tracked(o, d, st2, og2)
BY CopyStays, OwnsStays, Zenon DEF Tracked

\* Fields that no other copy is compared by may change in memory.
LEMMA TrackedLike ==
  ASSUME NEW o \in Config, NEW p \in Config, NEW c \in Config, NEW st, NEW og,
         Tracked(o, c, st, og),
         p.rv = o.rv, p.uid = o.uid, p.life = o.life, p.clusterId = o.clusterId,
         p.phase = o.phase \/ (p.phase = "updating" /\ o.phase = "active"),
         p.pools = o.pools
  PROVE  Tracked(p, c, st, og)
<1>1. Earlier(p, c)
  BY DEF Tracked, Copy, Earlier
<1>2. ASSUME p.rv = c.rv PROVE Current(p, c)
  BY <1>2 DEF Tracked, Copy, Current
<1>3. Owns(p, st, og)
  BY DEF Tracked, Owns
<1> QED BY <1>1, <1>2, <1>3 DEF Tracked, Copy

LEMMA EmptyTracked ==
  ASSUME NEW c \in Config, c.rv > 0, NEW st, NEW og
  PROVE  Tracked(Empty, c, st, og)
<1>1. c.rv \in Nat /\ c.uid \in Nat
  BY ConfigFields, Zenon
<1>2. Empty.clusterId = NoCluster
  BY DEF Empty
<1> QED BY <1>1, <1>2, EmptyType DEF Tracked, Copy, Earlier, Owns

LEMMA CommitGrows ==
  ASSUME cr \in Config, watch \in SUBSET Config,
         NEW new \in Config, new.rv = cr.rv, Commit(new),
         new.uid \in Nat, new.uid >= cr.uid,
         new.uid = cr.uid /\ cr.life # "live" => new.life # "live"
  PROVE  Grew(cr, cr')
<1>1. \/ cr' = cr
      \/ cr'.rv = cr.rv + 1
  BY CommitType, Zenon
<1>2. cr'.uid = new.uid /\ cr'.life = new.life
  BY CommitType, Zenon
<1>3. cr.rv \in Nat /\ cr.uid \in Nat
  BY ConfigFields, Zenon
<1> QED BY <1>1, <1>2, <1>3 DEF Grew
LEMMA LaterIsPositive ==
  ASSUME NEW c \in Config, NEW d \in Config, c.rv > 0, c.uid > 0, Grew(c, d)
  PROVE  d.rv > 0 /\ d.uid > 0
<1>1. c.rv \in Nat /\ c.uid \in Nat /\ d.rv \in Nat /\ d.uid \in Nat
  BY ConfigFields, Zenon
<1> QED BY <1>1 DEF Grew

-----------------------------------------------------------------------------
(* The store.                                                              *)

LEMMA StoreParts ==
  ASSUME StoreOK
  PROVE  /\ cr.rv > 0 /\ cr.uid > 0 /\ Owns(cr, state, origin)
         /\ \A v \in watch : Tracked(v, cr, state, origin) /\ v.uid > 0
         /\ Tracked(cache, cr, state, origin) /\ cache.uid > 0
         /\ \A c \in ClusterIds : origin[c].uid <= cr.uid
BY DEF StoreOK

LEMMA StoreStep ==
  ASSUME TypeOK, TypeOK', StoreOK,
         Grew(cr, cr'), Kept(state, origin, state', origin'),
         Owns(cr', state', origin'),
         watch' \subseteq watch \cup {cr'},
         Tracked(cache', cr', state', origin'), cache'.uid > 0,
         \A c \in ClusterIds : origin'[c].uid <= cr'.uid
  PROVE  StoreOK'
<1>1. cr \in Config /\ cr' \in Config /\ watch \subseteq Config
  BY DEF TypeOK, StoreTypeOK
<1>2. cr'.rv > 0 /\ cr'.uid > 0
  BY <1>1, StoreParts, LaterIsPositive, Zenon
<1>3. ASSUME NEW v \in watch' PROVE Tracked(v, cr', state', origin') /\ v.uid > 0
  <2>1. CASE v \in watch
    BY <1>1, <2>1, StoreParts, TrackedStays, Zenon
  <2>2. CASE v = cr'
    BY <1>1, <1>2, <2>2, CopySelf, Zenon DEF Tracked
  <2> QED BY <2>1, <2>2
<1> QED BY <1>2, <1>3, Zenon DEF StoreOK

\* What is known of the copies still is, when the store and the cloud go on.
LEMMA CopiesStay ==
  ASSUME TypeOK, TypeOK', StoreOK, SyncOK,
         Grew(cr, cr'), Kept(state, origin, state', origin')
  PROVE  /\ Tracked(cache, cr', state', origin')
         /\ Tracked(orig, cr', state', origin')
         /\ Tracked(obj, cr', state', origin')
<1>1. cr \in Config /\ cr' \in Config /\ cache \in Config /\ orig \in Config
      /\ obj \in Config
  BY DEF TypeOK, StoreTypeOK
<1>2. /\ Tracked(cache, cr, state, origin) /\ Tracked(orig, cr, state, origin)
      /\ Tracked(obj, cr, state, origin)
  BY DEF StoreOK, SyncOK
<1> QED BY <1>1, <1>2, TrackedStays, Zenon

LEMMA GrewSelf == ASSUME NEW c PROVE Grew(c, c)
BY DEF Grew

LEMMA KeptSelf == ASSUME NEW st, NEW og PROVE Kept(st, og, st, og)
BY DEF Kept

\* The operator deletes no other cluster while the store goes on.
LEMMA DeletesStay ==
  ASSUME TypeOK, TypeOK', StoreOK, NoUnaskedDelete, Grew(cr, cr'),
         \A c \in ClusterIds : state'[c] \in {"deleting", "deleted"} =>
           state[c] \in {"deleting", "deleted"} /\ origin'[c] = origin[c]
  PROVE  NoUnaskedDelete'
<1> SUFFICES ASSUME NEW c \in ClusterIds, state'[c] \in {"deleting", "deleted"}
             PROVE  /\ origin'[c].uid # 0
                    /\ origin'[c].uid < cr'.uid \/ cr'.life # "live"
  BY DEF NoUnaskedDelete
<1>1. /\ origin'[c] = origin[c] /\ origin[c].uid # 0
      /\ origin[c].uid < cr.uid \/ cr.life # "live"
      /\ origin[c].uid <= cr.uid
  BY DEF NoUnaskedDelete, StoreOK
<1>2. cr \in Config /\ cr' \in Config /\ origin \in [ClusterIds -> Origin]
  BY DEF TypeOK, StoreTypeOK, CloudTypeOK
<1>3. cr.uid \in Nat /\ cr'.uid \in Nat /\ origin[c].uid \in Nat
  <2>1. cr.uid \in Nat /\ cr'.uid \in Nat
    BY <1>2, ConfigFields, Zenon
  <2>2. origin[c] \in Origin
    BY <1>2
  <2> QED BY <2>1, <2>2 DEF Origin
<1>4. cr' = cr \/ (cr'.uid >= cr.uid /\ (cr'.uid = cr.uid /\ cr.life # "live" => cr'.life # "live"))
  BY DEF Grew
<1> QED BY <1>1, <1>3, <1>4

\* What Update writes is owned like the copy it is made from.
LEMMA SpecWritten ==
  ASSUME TypeOK, StoreOK, NEW o \in Config, Tracked(o, cr, state, origin),
         Stored(o, SpecWrite(o))
  PROVE  /\ Grew(cr, cr') /\ Owns(cr', state, origin)
         /\ watch' \subseteq watch \cup {cr'} /\ cr'.uid = cr.uid
         /\ cr'.phase = cr.phase
<1>1. cr \in Config /\ watch \in SUBSET Config /\ Owns(cr, state, origin)
  BY TypeParts, StoreParts, Zenon
<1>2. CASE UNCHANGED store
  <2>1. cr' = cr /\ watch' = watch
    BY <1>2 DEF store
  <2> QED BY <1>1, <2>1, GrewSelf
<1>3. CASE o.rv = cr.rv /\ Commit(SpecWrite(o))
  <2>1. /\ SpecWrite(o) \in Config
        /\ SpecWrite(o).rv = cr.rv /\ SpecWrite(o).uid = cr.uid
        /\ SpecWrite(o).phase = cr.phase
        /\ SpecWrite(o).clusterId = o.clusterId
    BY <1>1, SpecWriteType, Zenon
  <2>2. /\ watch' \subseteq watch \cup {cr'} /\ cr'.uid = cr.uid
        /\ cr'.clusterId = o.clusterId /\ cr'.phase = cr.phase
    BY <1>1, <1>3, <2>1, CommitType, Zenon
  <2>3. cr.uid \in Nat /\ cr.uid >= cr.uid
    <3>1. cr.uid \in Nat
      BY <1>1, ConfigFields, Zenon
    <3> QED BY <3>1
  <2>4. cr.life # "live" => SpecWrite(o).life # "live"
    BY <1>1, SpecWriteType
  <2>5. Grew(cr, cr')
    BY <1>1, <1>3, <2>1, <2>3, <2>4, CommitGrows, Zenon
  <2>6. o.uid = cr.uid /\ Owns(o, state, origin)
    BY <1>3 DEF Tracked, Copy, Current
  <2>7. Owns(cr', state, origin)
    BY <2>2, <2>6 DEF Owns
  <2> QED BY <2>2, <2>5, <2>7
<1> QED BY <1>2, <1>3 DEF Stored

LEMMA StatusWritten ==
  ASSUME TypeOK, StoreOK, NEW q, NEW o \in Config, Stored(q, StatusWrite(o))
  PROVE  /\ Grew(cr, cr') /\ Owns(cr', state, origin)
         /\ watch' \subseteq watch \cup {cr'} /\ cr'.uid = cr.uid
         /\ cr'.life = cr.life
<1>1. cr \in Config /\ watch \in SUBSET Config /\ Owns(cr, state, origin)
  BY TypeParts, StoreParts, Zenon
<1>2. CASE UNCHANGED store
  <2>1. cr' = cr /\ watch' = watch
    BY <1>2 DEF store
  <2> QED BY <1>1, <2>1, GrewSelf
<1>3. CASE Commit(StatusWrite(o))
  <2>1. /\ StatusWrite(o) \in Config
        /\ StatusWrite(o).rv = cr.rv /\ StatusWrite(o).uid = cr.uid
        /\ StatusWrite(o).life = cr.life
        /\ StatusWrite(o).clusterId = cr.clusterId
    BY <1>1, StatusWriteType, Zenon
  <2>2. /\ watch' \subseteq watch \cup {cr'} /\ cr'.uid = cr.uid
        /\ cr'.clusterId = cr.clusterId /\ cr'.life = cr.life
    BY <1>1, <1>3, <2>1, CommitType, Zenon
  <2>3. cr.uid \in Nat /\ cr.uid >= cr.uid
    <3>1. cr.uid \in Nat
      BY <1>1, ConfigFields, Zenon
    <3> QED BY <3>1
  <2>4. Grew(cr, cr')
    BY <1>1, <1>3, <2>1, <2>3, CommitGrows, Zenon
  <2>5. Owns(cr', state, origin)
    BY <1>1, <2>2 DEF Owns
  <2> QED BY <2>2, <2>4, <2>5
<1> QED BY <1>2, <1>3 DEF Stored

-----------------------------------------------------------------------------
(* How a step ends, and what holds there.                                  *)

LEMMA Parts ==
  ASSUME IInv
  PROVE  /\ TypeOK /\ StoreOK /\ SyncOK /\ PointOK /\ NoUnaskedDelete
         /\ cr \in Config /\ watch \subseteq Config /\ cache \in Config
         /\ orig \in Config /\ obj \in Config
BY DEF IInv, TypeOK, StoreTypeOK

LEMMA FieldsOf ==
  ASSUME TypeOK
  PROVE  /\ cr.rv \in Nat /\ cr.uid \in Nat
         /\ obj.rv \in Nat /\ obj.uid \in Nat /\ orig.rv \in Nat /\ orig.uid \in Nat
BY ConfigFields, Zenon DEF TypeOK, StoreTypeOK

\* A step that writes to the store at most, with what is owned there.
LEMMA StoreGoesOn ==
  ASSUME IInv, TypeOK', Grew(cr, cr'), Owns(cr', state, origin),
         watch' \subseteq watch \cup {cr'}, UNCHANGED <<cache, state, origin>>
  PROVE  /\ StoreOK' /\ NoUnaskedDelete'
         /\ Tracked(orig, cr', state', origin')
         /\ Tracked(obj, cr', state', origin')
         /\ Tracked(cr', cr', state', origin')
         /\ Tracked(Empty, cr', state', origin')
<1>1. /\ TypeOK /\ StoreOK /\ SyncOK /\ NoUnaskedDelete
      /\ cr \in Config /\ cr' \in Config
  BY Parts, Zenon DEF TypeOK, StoreTypeOK
<1>2. Kept(state, origin, state', origin')
  BY KeptSelf
<1>3. /\ Tracked(cache, cr', state', origin')
      /\ Tracked(orig, cr', state', origin')
      /\ Tracked(obj, cr', state', origin')
  BY <1>1, <1>2, CopiesStay, Zenon
<1>4. cr'.uid \in Nat /\ cr.uid \in Nat /\ cr'.uid >= cr.uid
  <2>1. cr'.uid \in Nat /\ cr.uid \in Nat
    BY <1>1, ConfigFields, Zenon
  <2> QED BY <2>1 DEF Grew
<1>5. \A c \in ClusterIds : origin'[c].uid <= cr'.uid
  <2> TAKE c \in ClusterIds
  <2>1. origin[c].uid <= cr.uid /\ origin' = origin
    BY <1>1, StoreParts, Zenon
  <2>2. origin[c].uid \in Nat
    BY <1>1 DEF TypeOK, CloudTypeOK, Origin
  <2> QED BY <1>4, <2>1, <2>2
<1>6. Tracked(cache', cr', state', origin') /\ Owns(cr', state', origin')
  BY <1>3
<1>7. cache'.uid > 0
  BY <1>1 DEF StoreOK
<1>8. StoreOK'
  BY <1>1, <1>2, <1>5, <1>6, <1>7, StoreStep, Zenon
<1>9. NoUnaskedDelete'
  BY <1>1, DeletesStay
<1>10. Tracked(cr', cr', state', origin')
  BY <1>1, <1>6, CopySelf, Zenon DEF Tracked
<1>11. Tracked(Empty, cr', state', origin')
  <2>1. cr'.rv > 0
    BY <1>8 DEF StoreOK
  <2> QED BY <1>1, <2>1, EmptyTracked, Zenon
<1> QED BY <1>3, <1>8, <1>9, <1>10, <1>11, Zenon

\* A step that writes nothing.
LEMMA StoreRests ==
  ASSUME IInv, TypeOK', UNCHANGED <<cr, watch, cache, state, origin>>
  PROVE  /\ StoreOK' /\ NoUnaskedDelete'
         /\ \A o : Tracked(o, cr, state, origin) => Tracked(o, cr', state', origin')
         /\ Tracked(Empty, cr', state', origin')
<1>1. Grew(cr, cr') /\ Owns(cr', state, origin) /\ watch' \subseteq watch \cup {cr'}
  BY Parts, StoreParts, GrewSelf, Zenon
<1> QED BY <1>1, StoreGoesOn, Zenon

LEMMA SyncFrom ==
  ASSUME Tracked(orig', cr', state', origin'), Tracked(obj', cr', state', origin'),
         pc' # "idle" => orig'.uid > 0
  PROVE  SyncOK'
BY DEF SyncOK

LEMMA IInvFrom ==
  ASSUME TypeOK', StoreOK', SyncOK', PointOK', NoUnaskedDelete'
  PROVE  IInv'
BY DEF IInv

LEMMA AtRecord ==
  ASSUME pc' = "record", obj'.life = "live", orig'.life = "live"
  PROVE  PointOK'
BY DEF PointOK

LEMMA AtIdle ==
  ASSUME pc' = "idle"
  PROVE  PointOK'
BY DEF PointOK

\* A copy with the stored version is as live as what is stored.
LEMMA CurrentCopy ==
  ASSUME IInv, obj.rv = cr.rv
  PROVE  Current(obj, cr)
BY DEF IInv, SyncOK, Tracked, Copy

-----------------------------------------------------------------------------
(* Handlers that end in a status write.                                    *)

LEMMA PhaseSet ==
  ASSUME IInv, TypeOK', NEW phase \in Phases, SetPhase(phase),
         obj.life = "live", orig.life = "live", orig.uid > 0,
         UNCHANGED <<cache, state, origin, orig>>
  PROVE  IInv'
<1>1. /\ TypeOK /\ StoreOK /\ orig \in Config /\ obj \in Config
  BY Parts, Zenon
<1> DEFINE o == WithPhase(phase)
<1>2. o \in Config /\ o.rv = obj.rv
  BY <1>1 DEF WithPhase, Config
<1>3. /\ Stored(o, StatusWrite(o)) /\ pc' = "record"
      /\ (o.rv = cr.rv /\ obj' = cr') \/ obj' = Empty
  BY <1>1, SetPhaseEnds, Zenon
<1> HIDE DEF o
<1>4. /\ Grew(cr, cr') /\ Owns(cr', state, origin)
      /\ watch' \subseteq watch \cup {cr'} /\ cr'.life = cr.life
  BY <1>1, <1>2, <1>3, StatusWritten, Zenon
<1>5. /\ StoreOK' /\ NoUnaskedDelete'
      /\ Tracked(orig, cr', state', origin')
      /\ Tracked(cr', cr', state', origin') /\ Tracked(Empty, cr', state', origin')
  BY <1>4, StoreGoesOn, Zenon
<1>6. SyncOK'
  BY <1>3, <1>5, SyncFrom
<1>7. obj'.life = "live"
  <2>1. CASE o.rv = cr.rv /\ obj' = cr'
    BY <1>2, <1>4, <2>1, CurrentCopy DEF Current
  <2>2. CASE obj' = Empty
    BY <2>2, EmptyType, Zenon
  <2> QED BY <1>3, <2>1, <2>2
<1> QED BY <1>3, <1>5, <1>6, <1>7, AtRecord, IInvFrom, Zenon

LEMMA AtHandler ==
  ASSUME IInv, pc \in {"importing", "createCall", "createUpdate", "createStatus",
           "waitGet", "importGet", "importPools", "importUpdate", "caSecret",
           "activeStatus", "checkGet", "checkStatus", "checkFence",
           "checkPools", "poolsStatus", "batch", "changedUpdate",
           "finishUpdate", "record"}
  PROVE  obj.life = "live" /\ orig.life = "live" /\ orig.uid > 0
BY DEF IInv, PointOK, SyncOK

LEMMA StatusSteps ==
  ASSUME IInv, TypeOK',
         BeginImport \/ CreateStatus \/ Activate \/ CheckStatus \/ PoolsStatus
  PROVE  IInv'
<1>1. PICK phase \in Phases : SetPhase(phase)
  BY DEF BeginImport, CreateStatus, Activate, CheckStatus, PoolsStatus, Phases
<1>2. UNCHANGED <<cache, state, origin, orig>>
  BY DEF BeginImport, CreateStatus, Activate, CheckStatus, PoolsStatus, cloud
<1>3. obj.life = "live" /\ orig.life = "live" /\ orig.uid > 0
  BY AtHandler DEF BeginImport, CreateStatus, Activate, CheckStatus, PoolsStatus
<1> QED BY <1>1, <1>2, <1>3, PhaseSet, Zenon

-----------------------------------------------------------------------------
(* Handlers that write the spec.                                           *)

LEMMA Saved ==
  ASSUME IInv, TypeOK', NEW point, NEW back \in {orig, obj}, Save(point, back),
         obj.life = "live", orig.life = "live", orig.uid > 0,
         UNCHANGED <<cache, state, origin, orig>>
  PROVE  /\ StoreOK' /\ SyncOK' /\ NoUnaskedDelete'
         /\ \/ pc' = "record" /\ obj'.life = "live"
            \/ /\ pc' = point /\ obj' = cr' /\ obj'.life = "live"
               /\ obj'.phase = cr.phase /\ obj'.clusterId = obj.clusterId
               /\ Current(obj, cr)
<1>1. /\ TypeOK /\ StoreOK /\ orig \in Config /\ obj \in Config /\ cr \in Config
      /\ watch \in SUBSET Config /\ Tracked(obj, cr, state, origin)
  BY Parts DEF SyncOK
<1>2. /\ Stored(obj, SpecWrite(obj))
      /\ \/ /\ obj.rv = cr.rv /\ Commit(SpecWrite(obj)) /\ obj' = cr' /\ pc' = point
         \/ obj' = back /\ pc' = "record"
  BY <1>1, SaveEnds, Zenon
<1>3. /\ Grew(cr, cr') /\ Owns(cr', state, origin)
      /\ watch' \subseteq watch \cup {cr'} /\ cr'.phase = cr.phase
  BY <1>1, <1>2, SpecWritten, Zenon
<1>4. /\ StoreOK' /\ NoUnaskedDelete'
      /\ Tracked(orig, cr', state', origin') /\ Tracked(obj, cr', state', origin')
      /\ Tracked(cr', cr', state', origin')
  BY <1>3, StoreGoesOn, Zenon
<1>5. obj' \in {orig, obj, cr'}
  BY <1>2
<1>6. SyncOK'
  BY <1>4, <1>5, SyncFrom
<1>7. ASSUME obj.rv = cr.rv, Commit(SpecWrite(obj)), obj' = cr', pc' = point
      PROVE  /\ obj'.life = "live" /\ obj'.phase = cr.phase
             /\ obj'.clusterId = obj.clusterId /\ Current(obj, cr)
  <2>1. Current(obj, cr)
    BY <1>7, CurrentCopy, Zenon
  <2>2. cr.life = "live"
    BY <2>1 DEF Current
  <2>3. /\ SpecWrite(obj) \in Config /\ SpecWrite(obj).rv = cr.rv
        /\ SpecWrite(obj).life = "live" /\ SpecWrite(obj).clusterId = obj.clusterId
    BY <1>1, <2>2, SpecWriteType
  <2>4. cr'.life = "live" /\ cr'.clusterId = obj.clusterId
    BY <1>1, <1>7, <2>3, CommitType, Zenon
  <2> QED BY <1>3, <1>7, <2>1, <2>4
<1>8. ASSUME obj' = back, pc' = "record" PROVE obj'.life = "live"
  BY <1>8
<1> QED BY <1>2, <1>4, <1>6, <1>7, <1>8, Zenon

LEMMA CreateUpdateKeeps ==
  ASSUME IInv, TypeOK', CreateUpdate
  PROVE  IInv'
<1>1. /\ Save("createStatus", orig) /\ UNCHANGED <<cache, state, origin, orig>>
      /\ pc = "createUpdate"
  BY DEF CreateUpdate, cloud
<1>2. obj.life = "live" /\ orig.life = "live" /\ orig.uid > 0
  BY <1>1, AtHandler
<1>3. ~Imported /\ obj.phase = "" /\ obj.clusterId # NoCluster
  BY <1>1 DEF IInv, PointOK
<1>4. /\ StoreOK' /\ SyncOK' /\ NoUnaskedDelete'
      /\ \/ pc' = "record" /\ obj'.life = "live"
         \/ /\ pc' = "createStatus" /\ obj' = cr' /\ obj'.life = "live"
            /\ obj'.phase = cr.phase /\ obj'.clusterId = obj.clusterId
            /\ Current(obj, cr)
  BY <1>1, <1>2, Saved
<1>5. PointOK'
  BY <1>1, <1>2, <1>3, <1>4 DEF PointOK, Current
<1> QED BY <1>4, <1>5, IInvFrom, Zenon

LEMMA ImportUpdateKeeps ==
  ASSUME IInv, TypeOK', ImportUpdate
  PROVE  IInv'
<1>1. /\ Save("caSecret", orig) /\ UNCHANGED <<cache, state, origin, orig>>
      /\ pc = "importUpdate"
  BY DEF ImportUpdate, cloud
<1>2. obj.life = "live" /\ orig.life = "live" /\ orig.uid > 0
  BY <1>1, AtHandler
<1>3. obj.phase = "importing"
  BY <1>1 DEF IInv, PointOK
<1>4. /\ StoreOK' /\ SyncOK' /\ NoUnaskedDelete'
      /\ \/ pc' = "record" /\ obj'.life = "live"
         \/ /\ pc' = "caSecret" /\ obj' = cr' /\ obj'.life = "live"
            /\ obj'.phase = cr.phase /\ obj'.clusterId = obj.clusterId
            /\ Current(obj, cr)
  BY <1>1, <1>2, Saved
<1>5. PointOK'
  BY <1>1, <1>2, <1>3, <1>4 DEF PointOK, Current
<1> QED BY <1>4, <1>5, IInvFrom, Zenon

LEMMA CheckFenceKeeps ==
  ASSUME IInv, TypeOK', CheckFence
  PROVE  IInv'
<1>1. /\ Save("checkPools", orig) /\ UNCHANGED <<cache, state, origin, orig>>
      /\ pc = "checkFence"
  BY DEF CheckFence, cloud
<1>2. obj.life = "live" /\ orig.life = "live" /\ orig.uid > 0
  BY <1>1, AtHandler
<1>3. obj.phase \in {"active", "updating"}
  BY <1>1 DEF IInv, PointOK
<1>4. /\ StoreOK' /\ SyncOK' /\ NoUnaskedDelete'
      /\ \/ pc' = "record" /\ obj'.life = "live"
         \/ /\ pc' = "checkPools" /\ obj' = cr' /\ obj'.life = "live"
            /\ obj'.phase = cr.phase /\ obj'.clusterId = obj.clusterId
            /\ Current(obj, cr)
  BY <1>1, <1>2, Saved
<1>5. PointOK'
  BY <1>1, <1>2, <1>3, <1>4 DEF PointOK, Current
<1> QED BY <1>4, <1>5, IInvFrom, Zenon

LEMMA FinishUpdateKeeps ==
  ASSUME IInv, TypeOK', FinishUpdate
  PROVE  IInv'
<1>1. /\ Save("activeStatus", obj) /\ UNCHANGED <<cache, state, origin, orig>>
      /\ pc = "finishUpdate"
  BY DEF FinishUpdate, cloud
<1>2. obj.life = "live" /\ orig.life = "live" /\ orig.uid > 0
  BY <1>1, AtHandler
<1>3. obj.phase = "updating"
  BY <1>1 DEF IInv, PointOK
<1>4. /\ StoreOK' /\ SyncOK' /\ NoUnaskedDelete'
      /\ \/ pc' = "record" /\ obj'.life = "live"
         \/ /\ pc' = "activeStatus" /\ obj' = cr' /\ obj'.life = "live"
            /\ obj'.phase = cr.phase /\ obj'.clusterId = obj.clusterId
            /\ Current(obj, cr)
  BY <1>1, <1>2, Saved
<1>5. PointOK'
  BY <1>1, <1>2, <1>3, <1>4 DEF PointOK, Current
<1> QED BY <1>4, <1>5, IInvFrom, Zenon

\* The one write of the spec whose result gets another phase in memory.
LEMMA ChangedUpdateKeeps ==
  ASSUME IInv, TypeOK', ChangedUpdate
  PROVE  IInv'
<1>1. /\ pc = "changedUpdate" /\ pc' = "record"
      /\ UNCHANGED <<cache, state, origin, orig>>
  BY DEF ChangedUpdate, Return, cloud
<1>2. /\ TypeOK /\ StoreOK /\ obj \in Config /\ cr \in Config /\ cr' \in Config
      /\ obj' \in Config /\ watch \in SUBSET Config /\ Tracked(obj, cr, state, origin)
  BY Parts DEF SyncOK, TypeOK, StoreTypeOK
<1>3. obj.life = "live" /\ orig.life = "live" /\ orig.uid > 0
  BY <1>1, AtHandler
<1>4. obj.phase \in {"active", "updating"}
  BY <1>1 DEF IInv, PointOK
<1>5. \/ /\ Accept(obj, SpecWrite(obj))
         /\ obj' = [cr' EXCEPT !.phase = "updating"]
      \/ \E e \in Errors : Refuse(obj, SpecWrite(obj), e) /\ obj' = obj
  BY Zenon DEF ChangedUpdate, Return
<1>6. Stored(obj, SpecWrite(obj))
  BY <1>5, AcceptStores, RefuseStores, Zenon
<1>7. /\ Grew(cr, cr') /\ Owns(cr', state, origin)
      /\ watch' \subseteq watch \cup {cr'} /\ cr'.phase = cr.phase
  BY <1>2, <1>6, SpecWritten, Zenon
<1>8. /\ StoreOK' /\ NoUnaskedDelete'
      /\ Tracked(orig, cr', state', origin') /\ Tracked(obj, cr', state', origin')
      /\ Tracked(cr', cr', state', origin')
  BY <1>1, <1>7, StoreGoesOn, Zenon
<1>9. ASSUME Accept(obj, SpecWrite(obj)), obj' = [cr' EXCEPT !.phase = "updating"]
      PROVE  Tracked(obj', cr', state', origin') /\ obj'.life = "live"
  <2>1. obj.rv = cr.rv /\ Commit(SpecWrite(obj))
    BY <1>9 DEF Accept
  <2>2. Current(obj, cr)
    BY <2>1, CurrentCopy, Zenon
  <2>3. cr.life = "live" /\ cr.phase \in {"active", "updating"}
    BY <1>3, <1>4, <2>2 DEF Current
  <2>4. /\ SpecWrite(obj) \in Config /\ SpecWrite(obj).rv = cr.rv
        /\ SpecWrite(obj).life = "live"
    BY <1>2, <2>3, SpecWriteType
  <2>5. cr'.life = "live"
    BY <1>2, <2>1, <2>4, CommitType, Zenon
  <2>6. /\ obj'.rv = cr'.rv /\ obj'.uid = cr'.uid /\ obj'.life = cr'.life
        /\ obj'.clusterId = cr'.clusterId /\ obj'.pools = cr'.pools
        /\ obj'.phase = "updating"
    BY <1>2, <1>9 DEF Config
  <2>7. obj'.phase = cr'.phase \/ (obj'.phase = "updating" /\ cr'.phase = "active")
    BY <1>7, <2>3, <2>6
  <2>8. Tracked(obj', cr', state', origin')
    BY <1>2, <1>8, <2>6, <2>7, TrackedLike, Zenon
  <2> QED BY <2>5, <2>6, <2>8
<1>10. Tracked(obj', cr', state', origin') /\ obj'.life = "live"
  <2>1. CASE obj' = obj
    BY <1>3, <1>8, <2>1
  <2>2. CASE Accept(obj, SpecWrite(obj)) /\ obj' = [cr' EXCEPT !.phase = "updating"]
    BY <1>9, <2>2, Zenon
  <2> QED BY <1>5, <2>1, <2>2, Zenon
<1>11. SyncOK' /\ PointOK'
  BY <1>1, <1>3, <1>8, <1>10, SyncFrom, AtRecord
<1> QED BY <1>8, <1>11, IInvFrom, Zenon

-----------------------------------------------------------------------------
(* recordError.                                                            *)

LEMMA RecordKeeps ==
  ASSUME IInv, TypeOK', Record
  PROVE  IInv'
<1>1. /\ pc = "record" /\ pc' = "remove"
      /\ UNCHANGED <<cache, state, origin, orig>>
  BY DEF Record, cloud
<1>2. /\ TypeOK /\ StoreOK /\ orig.uid > 0 /\ obj \in Config
      /\ Owns(cr, state, origin) /\ err \in Errors \cup {""}
  BY <1>1, AtHandler, Parts DEF StoreOK, TypeOK
<1> DEFINE o == [obj EXCEPT !.failure = err,
                            !.phase = IF err # "" /\ @ = "active"
                                      THEN "updating" ELSE @]
<1>3. o \in Config
  BY <1>2, ConfigFields, FieldTypes DEF Phases
<1>4. \/ UNCHANGED <<obj, cr, watch>>
      \/ Accept(o, StatusWrite(o)) /\ obj' = cr'
      \/ \E e \in Errors : Refuse(o, StatusWrite(o), e) /\ obj' = Empty
  BY Zenon DEF Record, store
<1> HIDE DEF o
<1>5. UNCHANGED store \/ Stored(o, StatusWrite(o))
  BY <1>4, AcceptStores, RefuseStores, Zenon DEF store
<1>6. /\ Grew(cr, cr') /\ Owns(cr', state, origin)
      /\ watch' \subseteq watch \cup {cr'}
  <2>1. CASE UNCHANGED store
    BY <1>2, <2>1, GrewSelf DEF store
  <2>2. CASE Stored(o, StatusWrite(o))
    BY <1>2, <1>3, <2>2, StatusWritten, Zenon
  <2> QED BY <1>5, <2>1, <2>2
<1>7. /\ StoreOK' /\ NoUnaskedDelete'
      /\ Tracked(orig, cr', state', origin') /\ Tracked(obj, cr', state', origin')
      /\ Tracked(cr', cr', state', origin') /\ Tracked(Empty, cr', state', origin')
  BY <1>1, <1>6, StoreGoesOn, Zenon
<1>8. obj' \in {obj, cr', Empty}
  BY <1>4
<1>9. SyncOK'
  BY <1>1, <1>2, <1>7, <1>8, SyncFrom
<1>10. PointOK'
  BY <1>1 DEF PointOK
<1> QED BY <1>7, <1>9, <1>10, IInvFrom, Zenon

-----------------------------------------------------------------------------
(* Handlers that write nothing.                                            *)

LEMMA SyncKeeps ==
  ASSUME IInv, TypeOK', Sync
  PROVE  IInv'
<1>1. /\ pc' = Entry(cache) /\ obj' = orig'
      /\ orig' = IF cache.life = "gone" THEN Empty ELSE cache
      /\ UNCHANGED <<cr, watch, cache, state, origin>>
  BY DEF Sync
<1>2. /\ StoreOK' /\ NoUnaskedDelete'
      /\ Tracked(cache, cr, state, origin) => Tracked(cache, cr', state', origin')
      /\ Tracked(Empty, cr', state', origin')
  BY <1>1, StoreRests
<1>3. cache \in Config /\ Tracked(cache, cr, state, origin) /\ cache.uid > 0
  BY Parts, StoreParts, Zenon
<1>4. /\ cache.life \in {"live", "deleting", "gone"} /\ cache.phase \in Phases
      /\ cache.clusterId \in ClusterIds \cup {NoCluster}
  BY <1>3, ConfigFields, Zenon
<1>5. SyncOK'
  <2>1. pc' # "idle" => orig' = cache
    BY <1>1, <1>4 DEF Entry
  <2> QED BY <1>1, <1>2, <1>3, <2>1, SyncFrom
<1>6. PointOK'
  <2>1. CASE cache.life = "gone"
    BY <1>1, <2>1, AtIdle DEF Entry
  <2>2. CASE cache.life = "deleting"
    BY <1>1, <2>2 DEF Entry, PointOK
  <2>3. CASE cache.life = "live"
    BY <1>1, <1>4, <2>3 DEF Entry, CreateEntry, PointOK, Phases
  <2> QED BY <1>4, <2>1, <2>2, <2>3
<1> QED BY <1>2, <1>5, <1>6, IInvFrom, Zenon

\* A sync that goes on with the object it has.
LEMMA SameObject ==
  ASSUME IInv, TypeOK', UNCHANGED <<cr, watch, cache, state, origin, orig, obj>>,
         orig.uid > 0
  PROVE  StoreOK' /\ SyncOK' /\ NoUnaskedDelete'
<1>1. /\ StoreOK' /\ NoUnaskedDelete'
      /\ \A o : Tracked(o, cr, state, origin) => Tracked(o, cr', state', origin')
  BY StoreRests
<1>2. Tracked(orig, cr, state, origin) /\ Tracked(obj, cr, state, origin)
  BY DEF IInv, SyncOK
<1> QED BY <1>1, <1>2, SyncFrom

LEMMA WaitGetKeeps ==
  ASSUME IInv, TypeOK', WaitGet \/ CASecret
  PROVE  IInv'
<1>1. /\ pc \in {"waitGet", "caSecret"}
      /\ UNCHANGED <<cr, watch, cache, state, origin, orig, obj>>
      /\ \/ pc' = "record"
         \/ pc = "waitGet" /\ pc' = "caSecret"
         \/ pc = "caSecret" /\ pc' = "activeStatus"
  BY DEF WaitGet, CASecret, Return, Continue, store, cloud
<1>2. obj.life = "live" /\ orig.life = "live" /\ orig.uid > 0
  BY <1>1, AtHandler
<1>3. /\ pc = "waitGet" => obj.phase = "creating"
      /\ pc = "caSecret" => obj.phase \in {"creating", "importing"}
  BY DEF IInv, PointOK
<1>4. PointOK'
  BY <1>1, <1>2, <1>3 DEF PointOK
<1> QED BY <1>1, <1>2, <1>4, SameObject, IInvFrom, Zenon

LEMMA CheckPoolsKeeps ==
  ASSUME IInv, TypeOK', CheckPools
  PROVE  IInv'
<1>1. /\ pc = "checkPools"
      /\ UNCHANGED <<cr, watch, cache, state, origin, orig, obj>>
      /\ \/ pc' = "record"
         \/ pc' = "poolsStatus" /\ obj.phase # "updating"
         \/ pc' = "batch"
  BY DEF CheckPools, Return, Continue, store, cloud
<1>2. obj.life = "live" /\ orig.life = "live" /\ orig.uid > 0
  BY <1>1, AtHandler
<1>3. obj.phase \in {"active", "updating"}
  BY <1>1 DEF IInv, PointOK
<1>4. PointOK'
  BY <1>1, <1>2, <1>3 DEF PointOK
<1> QED BY <1>1, <1>2, <1>4, SameObject, IInvFrom, Zenon

\* Pools may differ in memory while they are being imported.
LEMMA ImportPoolsKeeps ==
  ASSUME IInv, TypeOK', ImportPools
  PROVE  IInv'
<1>1. /\ pc = "importPools" /\ UNCHANGED <<cr, watch, cache, state, origin, orig>>
      /\ \/ pc' = "record" /\ obj' = orig
         \/ pc' = "importUpdate" /\ obj' = [obj EXCEPT !.pools = upstream[obj.clusterId]]
  BY DEF ImportPools, Return, Continue, store, cloud
<1>2. obj.life = "live" /\ orig.life = "live" /\ orig.uid > 0
  BY <1>1, AtHandler
<1>3. /\ obj.phase = "importing" /\ obj \in Config
      /\ Tracked(obj, cr, state, origin) /\ Tracked(orig, cr, state, origin)
  BY <1>1, Parts DEF PointOK, SyncOK
<1>4. /\ StoreOK' /\ NoUnaskedDelete'
      /\ \A o : Tracked(o, cr, state, origin) => Tracked(o, cr', state', origin')
  BY <1>1, StoreRests
<1>5. ASSUME pc' = "importUpdate", obj' = [obj EXCEPT !.pools = upstream[obj.clusterId]]
      PROVE  /\ Tracked(obj', cr, state, origin)
             /\ obj'.life = "live" /\ obj'.phase = "importing"
  <2>1. /\ obj'.rv = obj.rv /\ obj'.uid = obj.uid /\ obj'.life = obj.life
        /\ obj'.clusterId = obj.clusterId /\ obj'.phase = obj.phase
    BY <1>3, <1>5 DEF Config
  <2>2. Earlier(obj', cr) /\ Owns(obj', state, origin)
    BY <1>3, <2>1 DEF Tracked, Copy, Earlier, Owns
  <2>3. obj'.rv = cr.rv => Current(obj', cr)
    BY <1>3, <2>1 DEF Tracked, Copy, Current
  <2> QED BY <1>2, <1>3, <2>1, <2>2, <2>3 DEF Tracked, Copy
<1>6. SyncOK'
  BY <1>1, <1>2, <1>3, <1>4, <1>5, SyncFrom
<1>7. PointOK'
  BY <1>1, <1>2, <1>5 DEF PointOK
<1> QED BY <1>4, <1>6, <1>7, IInvFrom, Zenon

LEMMA FixConfigLike ==
  ASSUME NEW o \in Config
  PROVE  LET f == FixConfig(o)
         IN  /\ f.rv = o.rv /\ f.uid = o.uid /\ f.life = o.life
             /\ f.clusterId = o.clusterId /\ f.phase = o.phase /\ f.pools = o.pools
BY DEF FixConfig, Config

\* FixConfig, which changes the cache entry too if it is still the same.
LEMMA ConfigFixed ==
  ASSUME IInv, TypeOK', Mutate(FixConfig(orig)), orig.uid > 0,
         UNCHANGED <<cr, watch, state, origin>>
  PROVE  /\ StoreOK' /\ NoUnaskedDelete' /\ Tracked(orig', cr', state', origin')
         /\ Tracked(FixConfig(obj), cr', state', origin')
         /\ orig'.life = orig.life /\ orig'.uid = orig.uid
<1>1. /\ TypeOK /\ StoreOK /\ NoUnaskedDelete /\ cr \in Config /\ cache \in Config
      /\ orig \in Config /\ obj \in Config
      /\ Tracked(orig, cr, state, origin) /\ Tracked(obj, cr, state, origin)
      /\ Tracked(cache, cr, state, origin) /\ cache.uid > 0
  BY Parts, StoreParts, Zenon DEF SyncOK
<1>2. FixConfig(orig) \in Config /\ FixConfig(obj) \in Config
  BY <1>1, FieldTypes DEF FixConfig
<1>3. /\ Tracked(FixConfig(orig), cr, state, origin)
      /\ Tracked(FixConfig(obj), cr, state, origin)
  BY <1>1, <1>2, FixConfigLike, TrackedLike, Zenon
<1>4. orig' = FixConfig(orig) /\ cache' \in {FixConfig(orig), cache}
  BY DEF Mutate
<1>5. orig'.life = orig.life /\ orig'.uid = orig.uid
  BY <1>1, <1>4, FixConfigLike
<1>6. Tracked(cache', cr', state', origin') /\ cache'.uid > 0
  BY <1>1, <1>3, <1>4, <1>5
<1>7. /\ Grew(cr, cr') /\ Kept(state, origin, state', origin')
      /\ Owns(cr', state', origin') /\ watch' \subseteq watch \cup {cr'}
      /\ \A c \in ClusterIds : origin'[c].uid <= cr'.uid
  BY <1>1, GrewSelf, KeptSelf DEF StoreOK
<1>8. StoreOK'
  BY <1>1, <1>6, <1>7, StoreStep, Zenon
<1>9. NoUnaskedDelete'
  BY <1>1 DEF NoUnaskedDelete
<1> QED BY <1>3, <1>4, <1>5, <1>8, <1>9

LEMMA ImportGetKeeps ==
  ASSUME IInv, TypeOK', ImportGet
  PROVE  IInv'
<1>1. /\ pc = "importGet" /\ UNCHANGED <<cr, watch, state, origin>>
      /\ \/ /\ Mutate(FixConfig(orig)) /\ obj' = FixConfig(obj)
            /\ pc' = "importPools"
         \/ pc' = "record" /\ UNCHANGED <<cache, orig, obj>>
  BY DEF ImportGet, Return, Continue, store, cloud
<1>2. obj.life = "live" /\ orig.life = "live" /\ orig.uid > 0
  BY <1>1, AtHandler
<1>3. obj.phase = "importing" /\ obj \in Config
  BY <1>1, Parts DEF PointOK
<1>4. CASE Mutate(FixConfig(orig)) /\ obj' = FixConfig(obj) /\ pc' = "importPools"
  <2>1. /\ StoreOK' /\ NoUnaskedDelete' /\ Tracked(orig', cr', state', origin')
        /\ Tracked(obj', cr', state', origin')
        /\ orig'.life = orig.life /\ orig'.uid = orig.uid
    BY <1>1, <1>2, <1>4, ConfigFixed
  <2>2. obj'.life = "live" /\ obj'.phase = "importing"
    BY <1>2, <1>3, <1>4, FixConfigLike
  <2>3. SyncOK' /\ PointOK'
    BY <1>2, <1>4, <2>1, <2>2, SyncFrom DEF PointOK
  <2> QED BY <2>1, <2>3, IInvFrom, Zenon
<1>5. CASE pc' = "record" /\ UNCHANGED <<cache, orig, obj>>
  <2>1. PointOK'
    BY <1>2, <1>5, AtRecord
  <2> QED BY <1>1, <1>2, <1>5, <2>1, SameObject, IInvFrom
<1> QED BY <1>1, <1>4, <1>5, Zenon

LEMMA CheckGetKeeps ==
  ASSUME IInv, TypeOK', CheckGet
  PROVE  IInv'
<1>1. /\ pc = "checkGet" /\ UNCHANGED <<cr, watch, state, origin>>
      /\ \/ /\ Mutate(FixConfig(orig)) /\ obj' = FixConfig(obj)
            /\ pc' = "checkFence"
         \/ /\ UNCHANGED <<cache, orig, obj>>
            /\ pc' = "record" \/ (pc' = "checkStatus" /\ obj.phase # "updating")
  BY DEF CheckGet, Return, Continue, store, cloud
<1>2. obj.life = "live" /\ orig.life = "live" /\ orig.uid > 0
  BY <1>1, AtHandler
<1>3. obj.phase \in {"active", "updating"} /\ obj \in Config
  BY <1>1, Parts DEF PointOK
<1>4. CASE Mutate(FixConfig(orig)) /\ obj' = FixConfig(obj) /\ pc' = "checkFence"
  <2>1. /\ StoreOK' /\ NoUnaskedDelete' /\ Tracked(orig', cr', state', origin')
        /\ Tracked(obj', cr', state', origin')
        /\ orig'.life = orig.life /\ orig'.uid = orig.uid
    BY <1>1, <1>2, <1>4, ConfigFixed
  <2>2. obj'.life = "live" /\ obj'.phase = obj.phase
    BY <1>2, <1>3, <1>4, FixConfigLike
  <2>3. SyncOK' /\ PointOK'
    BY <1>2, <1>3, <1>4, <2>1, <2>2, SyncFrom DEF PointOK
  <2> QED BY <2>1, <2>3, IInvFrom, Zenon
<1>5. CASE /\ UNCHANGED <<cache, orig, obj>>
           /\ pc' = "record" \/ (pc' = "checkStatus" /\ obj.phase # "updating")
  <2>1. PointOK'
    BY <1>2, <1>3, <1>5 DEF PointOK
  <2> QED BY <1>1, <1>2, <1>5, <2>1, SameObject, IInvFrom
<1> QED BY <1>1, <1>4, <1>5, Zenon

-----------------------------------------------------------------------------
(* Steps that change the state of clusters.                                *)

\* Clusters change their states, and none is forgotten.
LEMMA CloudGoesOn ==
  ASSUME IInv, TypeOK', UNCHANGED <<cr, watch, cache, origin>>,
         \A c \in ClusterIds : state[c] # "unused" => state'[c] # "unused"
  PROVE  /\ StoreOK'
         /\ \A o \in Config : Tracked(o, cr, state, origin) =>
              Tracked(o, cr', state', origin')
         /\ Tracked(Empty, cr', state', origin')
<1>1. /\ TypeOK /\ StoreOK /\ cr \in Config /\ cache \in Config
      /\ Tracked(cache, cr, state, origin) /\ cache.uid > 0 /\ cr.rv > 0
      /\ Owns(cr, state, origin)
  BY Parts, StoreParts, Zenon
<1>2. Grew(cr, cr') /\ Kept(state, origin, state', origin')
  BY GrewSelf DEF Kept
<1>3. Owns(cr', state', origin')
  BY <1>1, <1>2, OwnsStays
<1>4. \A o \in Config : Tracked(o, cr, state, origin) =>
        Tracked(o, cr', state', origin')
  BY <1>1, <1>2, TrackedStays
<1>5. Tracked(cache', cr', state', origin') /\ cache'.uid > 0
  BY <1>1, <1>4
<1>6. /\ watch' \subseteq watch \cup {cr'}
      /\ \A c \in ClusterIds : origin'[c].uid <= cr'.uid
  BY <1>1 DEF StoreOK
<1>7. StoreOK'
  BY <1>1, <1>2, <1>3, <1>5, <1>6, StoreStep, Zenon
<1>8. Tracked(Empty, cr', state', origin')
  BY <1>1, EmptyTracked
<1> QED BY <1>4, <1>7, <1>8

LEMMA BatchKeeps ==
  ASSUME IInv, TypeOK', Batch
  PROVE  IInv'
<1>1. /\ pc = "batch" /\ UNCHANGED <<cr, watch, cache, origin, orig>> /\ obj' = obj
      /\ \/ pc' \in {"record", "changedUpdate"}
         \/ pc' = "finishUpdate" /\ obj.phase # "active"
  BY DEF Batch, NotChanged, Return, Continue, store
<1>2. obj.life = "live" /\ orig.life = "live" /\ orig.uid > 0
  BY <1>1, AtHandler
<1>3. obj.phase \in {"active", "updating"}
  BY <1>1 DEF IInv, PointOK
<1>4. /\ TypeOK /\ StoreOK /\ NoUnaskedDelete /\ obj \in Config /\ orig \in Config
      /\ Tracked(orig, cr, state, origin) /\ Tracked(obj, cr, state, origin)
  BY Parts DEF SyncOK
<1>5. \/ state' = state
      \/ /\ obj.clusterId \in ClusterIds
         /\ state[obj.clusterId] \notin {"unused", "deleted", "deleting"}
         /\ \E s \in {"running", "busy", "poolBusy"} :
              state' = [state EXCEPT ![obj.clusterId] = s]
  BY DEF Batch, SetState, Present
<1>6. \A c \in ClusterIds :
        /\ state[c] # "unused" => state'[c] # "unused"
        /\ state'[c] \in {"deleting", "deleted"} => state[c] \in {"deleting", "deleted"}
  BY <1>4, <1>5 DEF TypeOK, CloudTypeOK
<1>7. /\ StoreOK'
      /\ Tracked(orig, cr', state', origin') /\ Tracked(obj, cr', state', origin')
  BY <1>1, <1>4, <1>6, CloudGoesOn
<1>8. NoUnaskedDelete'
  BY <1>1, <1>4, <1>6, GrewSelf, DeletesStay
<1>9. SyncOK'
  BY <1>1, <1>2, <1>7, SyncFrom
<1>10. PointOK'
  BY <1>1, <1>2, <1>3 DEF PointOK
<1> QED BY <1>7, <1>8, <1>9, <1>10, IInvFrom, Zenon

\* A cluster is made: its origin is the version of the config that asked for it.
LEMMA Allocated ==
  ASSUME IInv, TypeOK', UNCHANGED <<cr, watch>>, obj.uid > 0,
         NEW c \in ClusterIds, NEW from \in Origin, from.uid = obj.uid,
         Allocate(c, from)
  PROVE  /\ Kept(state, origin, state', origin')
         /\ Owns(cr', state', origin') /\ Grew(cr, cr')
         /\ watch' \subseteq watch \cup {cr'}
         /\ \A d \in ClusterIds : origin'[d].uid <= cr'.uid
         /\ NoUnaskedDelete'
         /\ state'[c] = "initial" /\ origin'[c].uid = obj.uid
<1>1. /\ TypeOK /\ StoreOK /\ NoUnaskedDelete /\ cr \in Config /\ obj \in Config
      /\ Owns(cr, state, origin) /\ Tracked(obj, cr, state, origin)
  BY Parts, StoreParts, Zenon DEF SyncOK
<1>2. /\ state \in [ClusterIds -> States] /\ origin \in [ClusterIds -> Origin]
      /\ state[c] = "unused"
      /\ state' = [state EXCEPT ![c] = "initial"]
      /\ origin' = [origin EXCEPT ![c] = from]
  BY <1>1 DEF TypeOK, CloudTypeOK, Allocate
<1>3. Kept(state, origin, state', origin')
  BY <1>2 DEF Kept
<1>4. Owns(cr', state', origin')
  BY <1>1, <1>3, OwnsStays
<1>5. Grew(cr, cr') /\ watch' \subseteq watch \cup {cr'}
  BY GrewSelf
<1>6. \A d \in ClusterIds : origin'[d].uid <= cr'.uid
  <2> TAKE d \in ClusterIds
  <2>1. origin[d].uid <= cr.uid /\ obj.uid <= cr.uid
    BY <1>1 DEF StoreOK, Tracked, Copy, Earlier
  <2> QED BY <1>2, <2>1
<1>7. \A d \in ClusterIds : state'[d] \in {"deleting", "deleted"} =>
        state[d] \in {"deleting", "deleted"} /\ origin'[d] = origin[d]
  BY <1>2
<1>8. NoUnaskedDelete'
  BY <1>1, <1>5, <1>7, DeletesStay, Zenon
<1> QED BY <1>2, <1>3, <1>4, <1>5, <1>6, <1>8

\* The new cluster's name may be in memory before it is in the store.
LEMMA NamedTracked ==
  ASSUME IInv, NEW o \in Config, NEW p \in Config, NEW st, NEW og,
         NEW c \in ClusterIds, Tracked(o, cr, state, origin),
         ~Imported, o.clusterId = NoCluster, o.phase = "", o.life = "live",
         p = [o EXCEPT !.clusterId = c],
         st[c] # "unused", og[c].uid = o.uid
  PROVE  Tracked(p, cr, st, og)
<1>1. /\ p.rv = o.rv /\ p.uid = o.uid /\ p.life = o.life /\ p.clusterId = c
      /\ p.phase = o.phase /\ p.pools = o.pools
  BY DEF Config
<1>2. Earlier(p, cr)
  BY <1>1 DEF Tracked, Copy, Earlier
<1>3. ASSUME p.rv = cr.rv PROVE Current(p, cr)
  <2>1. Current(o, cr)
    BY <1>1, <1>3 DEF Tracked, Copy
  <2>2. cr.clusterId = NoCluster /\ cr.phase = "" /\ cr.life = "live"
    BY <2>1 DEF Current
  <2> QED BY <1>1, <2>1, <2>2 DEF Current
<1>4. Owns(p, st, og)
  BY <1>1 DEF Owns
<1> QED BY <1>2, <1>3, <1>4 DEF Tracked, Copy

LEMMA CreateCallKeeps ==
  ASSUME IInv, TypeOK', CreateCall
  PROVE  IInv'
<1> DEFINE from(b) == [uid |-> obj.uid, rv |-> obj.rv, process |-> crashes,
                       acked |-> b]
           Named(o, c) == [o EXCEPT !.clusterId = c]
<1>1. /\ pc = "createCall" /\ UNCHANGED <<cr, watch>>
      /\ \/ \E c \in ClusterIds :
              /\ Allocate(c, from(TRUE)) /\ Mutate(Named(orig, c))
              /\ obj' = Named(obj, c) /\ pc' = "createUpdate"
         \/ /\ pc' = "record" /\ UNCHANGED <<obj, orig, cache>>
            /\ \/ \E c \in ClusterIds : Allocate(c, from(FALSE))
               \/ UNCHANGED <<state, origin>>
  BY DEF CreateCall, Continue, Return, store, cloud
<1>2. obj.life = "live" /\ orig.life = "live" /\ orig.uid > 0
  BY <1>1, AtHandler
<1>3. ~Imported /\ obj.phase = "" /\ orig = obj /\ obj.clusterId = NoCluster
  BY <1>1 DEF IInv, PointOK
<1>4. /\ TypeOK /\ StoreOK /\ SyncOK /\ cr \in Config /\ cr' \in Config
      /\ obj \in Config /\ cache \in Config /\ cache.uid > 0
      /\ Tracked(obj, cr, state, origin) /\ obj' \in Config /\ orig' \in Config
  BY Parts, StoreParts DEF SyncOK, TypeOK, StoreTypeOK
<1>5. \A b \in BOOLEAN : from(b) \in Origin /\ from(b).uid = obj.uid
  BY <1>4, FieldsOf DEF Origin, TypeOK
<1> HIDE DEF from
<1>6. ASSUME NEW c \in ClusterIds, Allocate(c, from(TRUE)), Mutate(Named(orig, c)),
             obj' = Named(obj, c), pc' = "createUpdate"
      PROVE  IInv'
  <2>1. /\ Kept(state, origin, state', origin')
        /\ Owns(cr', state', origin') /\ Grew(cr, cr')
        /\ watch' \subseteq watch \cup {cr'}
        /\ \A d \in ClusterIds : origin'[d].uid <= cr'.uid
        /\ NoUnaskedDelete'
        /\ state'[c] = "initial" /\ origin'[c].uid = obj.uid
    BY <1>1, <1>2, <1>3, <1>5, <1>6, Allocated
  <2>2. Tracked(obj', cr, state', origin')
    <3>1. obj' = [obj EXCEPT !.clusterId = c] /\ state'[c] # "unused"
      BY <1>6, <2>1
    <3> QED BY <1>2, <1>3, <1>4, <2>1, <3>1, NamedTracked, Zenon
  <2>3. orig' = obj' /\ cache' \in {obj', cache}
    BY <1>3, <1>6 DEF Mutate
  <2>4. /\ obj'.life = "live" /\ obj'.phase = "" /\ obj'.clusterId = c
        /\ obj'.uid = obj.uid /\ c # NoCluster
    BY <1>2, <1>3, <1>4, <1>6, TypesAssumption DEF Config
  <2>5. Tracked(cache, cr', state', origin')
    BY <1>4, <2>1, CopiesStay, Zenon
  <2>6. Tracked(cache', cr', state', origin') /\ cache'.uid > 0
    BY <1>1, <1>2, <1>3, <1>4, <2>2, <2>3, <2>4, <2>5
  <2>7. StoreOK'
    BY <1>4, <2>1, <2>6, StoreStep, Zenon
  <2>8. SyncOK'
    BY <1>1, <1>2, <1>3, <2>2, <2>3, <2>4, SyncFrom
  <2>9. PointOK'
    BY <1>3, <1>6, <2>3, <2>4 DEF PointOK
  <2> QED BY <2>1, <2>7, <2>8, <2>9, IInvFrom, Zenon
<1>7. ASSUME NEW c \in ClusterIds, Allocate(c, from(FALSE)),
             pc' = "record", UNCHANGED <<obj, orig, cache>>
      PROVE  IInv'
  <2>1. /\ Kept(state, origin, state', origin')
        /\ Owns(cr', state', origin') /\ Grew(cr, cr')
        /\ watch' \subseteq watch \cup {cr'}
        /\ \A d \in ClusterIds : origin'[d].uid <= cr'.uid
        /\ NoUnaskedDelete'
    BY <1>1, <1>2, <1>3, <1>5, <1>7, Allocated
  <2>2. /\ Tracked(cache, cr', state', origin')
        /\ Tracked(orig, cr', state', origin')
        /\ Tracked(obj, cr', state', origin')
    BY <1>4, <2>1, CopiesStay, Zenon
  <2>3. Tracked(cache', cr', state', origin') /\ cache'.uid > 0
    BY <1>4, <1>7, <2>2
  <2>4. StoreOK'
    BY <1>4, <2>1, <2>3, StoreStep, Zenon
  <2>5. SyncOK' /\ PointOK'
    BY <1>2, <1>7, <2>2, SyncFrom, AtRecord
  <2> QED BY <2>1, <2>4, <2>5, IInvFrom, Zenon
<1>8. ASSUME UNCHANGED <<state, origin>>, pc' = "record", UNCHANGED <<obj, orig, cache>>
      PROVE  IInv'
  <2>1. PointOK'
    BY <1>2, <1>8, AtRecord
  <2> QED BY <1>1, <1>2, <1>8, <2>1, SameObject, IInvFrom
<1> HIDE DEF Named
<1> QED BY <1>1, <1>6, <1>7, <1>8, Zenon

-----------------------------------------------------------------------------
(* The remove handler.                                                     *)

LEMMA Ended ==
  ASSUME IInv, NEW e, Finish(e)
  PROVE  pc' = "idle" /\ orig' = Empty /\ obj' = Empty
BY DEF Finish

LEMMA RemoveKeeps ==
  ASSUME IInv, TypeOK', Remove
  PROVE  IInv'
<1>1. pc = "remove" /\ UNCHANGED <<cr, watch, cache, state, origin>>
  BY DEF Remove, store, cloud
<1>2. /\ Latest \in Config /\ Latest.uid > 0
      /\ Tracked(Latest, cr, state, origin) /\ Tracked(orig, cr, state, origin)
      /\ orig.uid > 0
  <2>1. /\ orig \in Config /\ obj \in Config /\ orig.uid > 0
        /\ Tracked(orig, cr, state, origin) /\ Tracked(obj, cr, state, origin)
    BY <1>1, Parts DEF SyncOK
  <2>2. obj.uid \in Nat
    BY <2>1, ConfigFields, Zenon
  <2> QED BY <2>1, <2>2 DEF Latest
<1>3. /\ StoreOK' /\ NoUnaskedDelete'
      /\ \A o : Tracked(o, cr, state, origin) => Tracked(o, cr', state', origin')
      /\ Tracked(Empty, cr', state', origin')
  BY <1>1, StoreRests
<1>4. ASSUME NEW b \in BOOLEAN
      PROVE  LET f == [Latest EXCEPT !.fin = b]
             IN  /\ Tracked(f, cr, state, origin) /\ f.life = Latest.life
                 /\ f.uid = Latest.uid /\ f.phase = Latest.phase
  <2> DEFINE f == [Latest EXCEPT !.fin = b]
  <2>1. /\ f \in Config /\ f.rv = Latest.rv /\ f.uid = Latest.uid
        /\ f.life = Latest.life /\ f.clusterId = Latest.clusterId
        /\ f.phase = Latest.phase /\ f.pools = Latest.pools
    BY <1>2 DEF Config
  <2>2. cr \in Config
    BY Parts, Zenon
  <2> HIDE DEF f
  <2>3. Tracked(f, cr, state, origin)
    BY <1>2, <2>1, <2>2, TrackedLike, Zenon
  <2> QED BY <2>1, <2>3 DEF f
<1>5. CASE pc' = "idle" /\ orig' = Empty /\ obj' = Empty
  <2>1. SyncOK' /\ PointOK'
    BY <1>3, <1>5, SyncFrom, AtIdle
  <2> QED BY <1>3, <2>1, IInvFrom, Zenon
<1>6. CASE /\ Latest.life = "live" /\ obj' = [Latest EXCEPT !.fin = TRUE]
           /\ pc' = "addFinalizer" /\ orig' = orig
  <2>1. Tracked(obj', cr, state, origin) /\ obj'.life = "live"
    BY <1>4, <1>6
  <2>2. SyncOK' /\ PointOK'
    BY <1>2, <1>3, <1>6, <2>1, SyncFrom DEF PointOK
  <2> QED BY <1>3, <2>2, IInvFrom, Zenon
<1>7. CASE /\ Latest.life = "deleting" /\ Spared(Latest)
           /\ obj' = [Latest EXCEPT !.fin = FALSE]
           /\ pc' = "removeFinalizer" /\ orig' = orig
  <2>1. Tracked(obj', cr, state, origin) /\ obj'.life = "deleting" /\ Spared(obj')
    BY <1>4, <1>7 DEF Spared
  <2>2. SyncOK' /\ PointOK'
    BY <1>2, <1>3, <1>7, <2>1, SyncFrom DEF PointOK, Spared
  <2> QED BY <1>3, <2>2, IInvFrom, Zenon
<1>8. CASE /\ Latest.life = "deleting" /\ ~Spared(Latest) /\ obj' = Latest
           /\ pc' = "removeCall" /\ orig' = orig
  <2>1. SyncOK' /\ PointOK'
    BY <1>2, <1>3, <1>8, SyncFrom DEF PointOK, Spared
  <2> QED BY <1>3, <2>1, IInvFrom, Zenon
<1> QED BY <1>5, <1>6, <1>7, <1>8 DEF Remove, Finish, Continue

LEMMA SaveFinalizerKeeps ==
  ASSUME IInv, TypeOK', SaveFinalizer
  PROVE  IInv'
<1>1. /\ UNCHANGED <<cache, state, origin>>
      /\ pc' = "idle" /\ orig' = Empty /\ obj' = Empty
  BY DEF SaveFinalizer, Finish, cloud
<1>2. Stored(obj, SpecWrite(obj))
  BY AcceptStores, RefuseStores, Zenon DEF SaveFinalizer
<1>3. /\ TypeOK /\ StoreOK /\ obj \in Config /\ Tracked(obj, cr, state, origin)
  BY Parts, Zenon DEF SyncOK
<1>4. /\ Grew(cr, cr') /\ Owns(cr', state, origin)
      /\ watch' \subseteq watch \cup {cr'}
  BY <1>2, <1>3, SpecWritten, Zenon
<1>5. StoreOK' /\ NoUnaskedDelete' /\ Tracked(Empty, cr', state', origin')
  BY <1>1, <1>4, StoreGoesOn, Zenon
<1>6. SyncOK' /\ PointOK'
  BY <1>1, <1>5, SyncFrom, AtIdle
<1> QED BY <1>5, <1>6, IInvFrom, Zenon

\* The cluster that is deleted was made for the config that is.
LEMMA RemoveCallKeeps ==
  ASSUME IInv, TypeOK', RemoveCall
  PROVE  IInv'
<1> DEFINE c == obj.clusterId
           fined == [obj EXCEPT !.fin = FALSE]
<1>1. pc = "removeCall" /\ UNCHANGED <<cr, watch, cache, origin>>
  BY DEF RemoveCall, store
<1>2. /\ TypeOK /\ StoreOK /\ NoUnaskedDelete /\ obj \in Config /\ orig \in Config
      /\ cr \in Config /\ Tracked(orig, cr, state, origin)
      /\ Tracked(obj, cr, state, origin)
      /\ orig.uid > 0 /\ obj.uid > 0 /\ ~Spared(obj) /\ obj.life = "deleting"
  BY <1>1, Parts DEF SyncOK, PointOK
<1>3. \/ state' = state
      \/ c \in ClusterIds /\ state[c] # "unused" /\ state' = [state EXCEPT ![c] = "deleting"]
  BY DEF RemoveCall, SetState, Deletable
<1>4. \/ /\ pc' = "removeFinalizer" /\ orig' = orig /\ obj' = fined
         /\ c \in ClusterIds /\ state' = [state EXCEPT ![c] = "deleting"]
      \/ pc' = "idle" /\ orig' = Empty /\ obj' = Empty
  BY DEF RemoveCall, SetState, Deletable, Continue, Finish
<1>5. state \in [ClusterIds -> States] /\ origin \in [ClusterIds -> Origin]
  BY <1>2 DEF TypeOK, CloudTypeOK
<1>6. \A d \in ClusterIds : state[d] # "unused" => state'[d] # "unused"
  BY <1>3, <1>5
<1>7. /\ StoreOK' /\ Tracked(orig, cr', state', origin')
      /\ Tracked(obj, cr', state', origin') /\ Tracked(Empty, cr', state', origin')
  BY <1>1, <1>2, <1>6, CloudGoesOn
<1>8. cr' \in Config /\ cr.uid \in Nat /\ obj.uid \in Nat
  BY <1>1, <1>2, FieldsOf
<1>9. c \in ClusterIds => origin[c].uid # 0
                          /\ (origin[c].uid < cr.uid \/ cr.life # "live")
  <2> SUFFICES ASSUME c \in ClusterIds
               PROVE  origin[c].uid # 0 /\ (origin[c].uid < cr.uid \/ cr.life # "live")
    OBVIOUS
  <2>1. c # NoCluster /\ ~Imported
    BY <1>2, TypesAssumption DEF Spared
  <2>2. origin[c].uid = obj.uid
    BY <1>2, <2>1 DEF Tracked, Owns
  <2>3. obj.uid <= cr.uid /\ (obj.uid = cr.uid => cr.life # "live")
    BY <1>2 DEF Tracked, Copy, Earlier
  <2> QED BY <1>2, <1>8, <2>2, <2>3
<1>10. NoUnaskedDelete'
  <2> SUFFICES ASSUME NEW d \in ClusterIds, state'[d] \in {"deleting", "deleted"}
               PROVE  /\ origin'[d].uid # 0
                      /\ origin'[d].uid < cr'.uid \/ cr'.life # "live"
    BY DEF NoUnaskedDelete
  <2>1. CASE d = c
    BY <1>1, <1>9, <2>1
  <2>2. CASE d # c
    <3>1. state'[d] = state[d]
      BY <1>3, <1>5, <2>2
    <3> QED BY <1>1, <1>2, <3>1 DEF NoUnaskedDelete
  <2> QED BY <2>1, <2>2
<1>11. CASE /\ pc' = "removeFinalizer" /\ orig' = orig /\ obj' = fined
            /\ c \in ClusterIds /\ state' = [state EXCEPT ![c] = "deleting"]
  <2>1. /\ fined \in Config /\ fined.rv = obj.rv /\ fined.uid = obj.uid
        /\ fined.life = "deleting" /\ fined.clusterId = c
        /\ fined.phase = obj.phase /\ fined.pools = obj.pools
    BY <1>2 DEF Config
  <2>2. Tracked(obj', cr', state', origin')
    <3> HIDE DEF fined
    <3>1. cr' \in Config /\ obj' = fined /\ fined.life = obj.life
      BY <1>2, <1>8, <1>11, <2>1
    <3> QED BY <1>2, <1>7, <2>1, <3>1, TrackedLike, Zenon
  <2>3. SyncOK'
    BY <1>2, <1>7, <1>11, <2>2, SyncFrom
  <2>4. state'[c] = "deleting"
    BY <1>5, <1>11
  <2>5. PointOK'
    BY <1>11, <2>1, <2>4 DEF PointOK
  <2> QED BY <1>7, <1>10, <2>3, <2>5, IInvFrom, Zenon
<1>12. CASE pc' = "idle" /\ orig' = Empty /\ obj' = Empty
  <2>1. SyncOK' /\ PointOK'
    BY <1>7, <1>12, SyncFrom, AtIdle
  <2> QED BY <1>7, <1>10, <2>1, IInvFrom, Zenon
<1> QED BY <1>4, <1>11, <1>12

LEMMA WorkerKeeps ==
  ASSUME IInv, TypeOK', Worker
  PROVE  IInv'
<1>1. ASSUME BeginImport \/ CreateStatus \/ Activate \/ CheckStatus \/ PoolsStatus
      PROVE  IInv'
  BY <1>1, StatusSteps, Zenon
<1>2. ASSUME CreateUpdate \/ ImportUpdate \/ CheckFence \/ FinishUpdate
             \/ ChangedUpdate \/ Record
      PROVE  IInv'
  BY <1>2, CreateUpdateKeeps, ImportUpdateKeeps, CheckFenceKeeps,
     FinishUpdateKeeps, ChangedUpdateKeeps, RecordKeeps, Zenon
<1>3. ASSUME \/ Sync \/ WaitGet \/ CASecret \/ CheckPools \/ ImportPools
             \/ ImportGet \/ CheckGet
      PROVE  IInv'
  BY <1>3, SyncKeeps, WaitGetKeeps, CheckPoolsKeeps, ImportPoolsKeeps,
     ImportGetKeeps, CheckGetKeeps, Zenon
<1>4. ASSUME Batch \/ CreateCall \/ Remove \/ SaveFinalizer \/ RemoveCall
      PROVE  IInv'
  BY <1>4, BatchKeeps, CreateCallKeeps, RemoveKeeps, SaveFinalizerKeeps,
     RemoveCallKeeps, Zenon
<1> QED BY <1>1, <1>2, <1>3, <1>4, Zenon DEF Worker

-----------------------------------------------------------------------------
(* The user, the cloud, the watch and a crash.                             *)

\* The sync is where it was, while the store, the cloud or the cache went on.
LEMMA SyncWaits ==
  ASSUME IInv, TypeOK', Grew(cr, cr'), UNCHANGED <<pc, orig, obj>>,
         Kept(state, origin, state', origin'),
         \A c \in ClusterIds : state[c] \in {"deleting", "deleted"} =>
           state'[c] \in {"deleting", "deleted"}
  PROVE  SyncOK' /\ PointOK'
<1>1. /\ TypeOK /\ StoreOK /\ SyncOK /\ PointOK /\ cr \in Config /\ cr' \in Config
      /\ obj \in Config /\ Tracked(obj, cr, state, origin)
  BY Parts DEF SyncOK, TypeOK, StoreTypeOK
<1>2. Tracked(orig, cr', state', origin') /\ Tracked(obj, cr', state', origin')
  BY <1>1, CopiesStay, Zenon
<1>3. SyncOK'
  BY <1>1, <1>2 DEF SyncOK
<1>4. pc = "createStatus" /\ obj.rv = cr'.rv => obj.clusterId = cr'.clusterId
  <2>1. cr.rv \in Nat /\ cr'.rv \in Nat /\ obj.rv \in Nat
    BY <1>1, ConfigFields, Zenon
  <2>2. obj.rv <= cr.rv
    BY <1>1 DEF Tracked, Copy, Earlier
  <2>3. cr' = cr \/ cr'.rv > cr.rv
    BY DEF Grew
  <2>4. cr' = cr \/ obj.rv # cr'.rv
    BY <2>1, <2>2, <2>3
  <2>5. pc = "createStatus" /\ obj.rv = cr.rv => obj.clusterId = cr.clusterId
    BY <1>1 DEF PointOK
  <2> QED BY <2>4, <2>5
<1>5. PointOK'
  BY <1>1, <1>4 DEF PointOK, Spared
<1> QED BY <1>3, <1>5

LEMMA DeliverKeeps ==
  ASSUME IInv, TypeOK', Deliver
  PROVE  IInv'
<1>1. /\ UNCHANGED <<cr, state, origin, pc, orig, obj>>
      /\ cache' \in watch /\ watch' \subseteq watch
  BY DEF Deliver, Receive, cloud
<1>2. /\ TypeOK /\ StoreOK /\ NoUnaskedDelete /\ Owns(cr, state, origin)
  BY Parts, StoreParts, Zenon
<1>3. Grew(cr, cr') /\ Kept(state, origin, state', origin')
  BY <1>1, GrewSelf, KeptSelf
<1>4. Tracked(cache', cr', state', origin') /\ cache'.uid > 0
  BY <1>1, <1>2, StoreParts
<1>5. StoreOK'
  <2>1. /\ Owns(cr', state', origin') /\ watch' \subseteq watch \cup {cr'}
        /\ \A c \in ClusterIds : origin'[c].uid <= cr'.uid
    BY <1>1, <1>2 DEF StoreOK
  <2> QED BY <1>2, <1>3, <1>4, <2>1, StoreStep, Zenon
<1>6. NoUnaskedDelete'
  BY <1>1, <1>2 DEF NoUnaskedDelete
<1>7. SyncOK' /\ PointOK'
  BY <1>1, <1>3, SyncWaits
<1> QED BY <1>5, <1>6, <1>7, IInvFrom, Zenon

LEMMA RestKeeps ==
  ASSUME IInv, TypeOK', UNCHANGED <<cr, watch, cache, state, origin, pc, orig, obj>>
  PROVE  IInv'
<1>1. StoreOK' /\ NoUnaskedDelete'
  BY StoreRests
<1>2. SyncOK' /\ PointOK'
  BY GrewSelf, KeptSelf, SyncWaits
<1> QED BY <1>1, <1>2, IInvFrom, Zenon

LEMMA RestartKeeps ==
  ASSUME IInv, TypeOK', Restart
  PROVE  IInv'
<1>1. /\ UNCHANGED <<cr, state, origin>> /\ cache' = cr /\ watch' = {}
      /\ pc' = "idle" /\ orig' = Empty /\ obj' = Empty
  BY DEF Restart, cloud
<1>2. /\ TypeOK /\ StoreOK /\ NoUnaskedDelete /\ Owns(cr, state, origin)
      /\ cr \in Config /\ cr.uid > 0 /\ cr.rv > 0
  BY Parts, StoreParts, Zenon
<1>3. Grew(cr, cr') /\ Kept(state, origin, state', origin')
  BY <1>1, GrewSelf, KeptSelf
<1>4. Tracked(cache', cr', state', origin') /\ cache'.uid > 0
  BY <1>1, <1>2, CopySelf DEF Tracked
<1>5. StoreOK'
  <2>1. /\ Owns(cr', state', origin') /\ watch' \subseteq watch \cup {cr'}
        /\ \A c \in ClusterIds : origin'[c].uid <= cr'.uid
    BY <1>1, <1>2 DEF StoreOK
  <2> QED BY <1>2, <1>3, <1>4, <2>1, StoreStep, Zenon
<1>6. NoUnaskedDelete'
  BY <1>1, <1>2 DEF NoUnaskedDelete
<1>7. SyncOK' /\ PointOK'
  <2>1. Tracked(Empty, cr', state', origin')
    BY <1>1, <1>2, EmptyTracked
  <2> QED BY <1>1, <2>1, SyncFrom, AtIdle
<1> QED BY <1>5, <1>6, <1>7, IInvFrom, Zenon

\* The user writes to the store.
LEMMA UserKeeps ==
  ASSUME IInv, TypeOK', UserEdit \/ UserDelete \/ UserCreate
  PROVE  IInv'
<1>1. UNCHANGED <<cache, state, origin, pc, orig, obj>>
  BY DEF UserEdit, UserDelete, UserCreate, cloud
<1>2. /\ TypeOK /\ StoreOK /\ cr \in Config /\ watch \in SUBSET Config
      /\ Owns(cr, state, origin)
  BY Parts, StoreParts, Zenon
<1>3. cr.rv \in Nat /\ cr.uid \in Nat
  BY <1>2, FieldsOf
<1>4. ASSUME NEW new \in Config, new.rv = cr.rv, Commit(new),
             new.uid \in Nat, new.uid >= cr.uid,
             new.uid = cr.uid /\ cr.life # "live" => new.life # "live",
             Owns(new, state, origin)
      PROVE  IInv'
  <2>1. Grew(cr, cr')
    BY <1>2, <1>4, CommitGrows, Zenon
  <2>2. /\ watch' \subseteq watch \cup {cr'}
        /\ cr'.clusterId = new.clusterId /\ cr'.uid = new.uid
    BY <1>2, <1>4, CommitType, Zenon
  <2>3. Owns(cr', state, origin)
    BY <1>4, <2>2 DEF Owns
  <2>4. StoreOK' /\ NoUnaskedDelete'
    BY <1>1, <2>1, <2>2, <2>3, StoreGoesOn
  <2>5. SyncOK' /\ PointOK'
    BY <1>1, <2>1, KeptSelf, SyncWaits
  <2> QED BY <2>4, <2>5, IInvFrom, Zenon
<1>5. ASSUME UserEdit PROVE IInv'
  <2>1. PICK p \in Pools, f \in BOOLEAN : Commit([cr EXCEPT !.pools = p, !.fixed = f])
    <3>1. cr.fixed \in BOOLEAN
      BY <1>2 DEF Config
    <3> QED BY <1>5, <3>1 DEF UserEdit
  <2> DEFINE new == [cr EXCEPT !.pools = p, !.fixed = f]
  <2>2. /\ new \in Config /\ new.rv = cr.rv /\ new.uid = cr.uid
        /\ new.life = cr.life /\ new.clusterId = cr.clusterId
    BY <1>2 DEF Config
  <2> HIDE DEF new
  <2>3. Commit(new)
    BY <2>1 DEF new
  <2>4. Owns(new, state, origin)
    BY <1>2, <2>2 DEF Owns
  <2>5. new.uid \in Nat /\ new.uid >= cr.uid
    BY <1>3, <2>2
  <2> QED BY <1>4, <2>2, <2>3, <2>4, <2>5
<1>6. ASSUME UserDelete PROVE IInv'
  <2>1. PICK l \in {"deleting", "gone"} : Commit([cr EXCEPT !.life = l])
    BY <1>6 DEF UserDelete
  <2> DEFINE new == [cr EXCEPT !.life = l]
  <2>2. /\ new \in Config /\ new.rv = cr.rv /\ new.uid = cr.uid
        /\ new.life # "live" /\ new.clusterId = cr.clusterId
    BY <1>2 DEF Config
  <2> HIDE DEF new
  <2>3. Commit(new)
    BY <2>1 DEF new
  <2>4. Owns(new, state, origin)
    BY <1>2, <2>2 DEF Owns
  <2>5. new.uid \in Nat /\ new.uid >= cr.uid
    BY <1>3, <2>2
  <2> QED BY <1>4, <2>2, <2>3, <2>4, <2>5
<1>7. ASSUME UserCreate PROVE IInv'
  <2>1. PICK r, new : /\ r \subseteq ClusterIds
                      /\ new \in NewConfigs(cr.rv, cr.uid + 1, r) /\ Commit(new)
    BY <1>7 DEF UserCreate
  <2>2. cr.uid + 1 \in Nat /\ cr.uid + 1 >= cr.uid /\ cr.uid + 1 # cr.uid
    BY <1>3
  <2>3. new \in Config
    BY <1>3, <2>1, <2>2, NewConfigsType, Zenon
  <2>4. /\ new.rv = cr.rv /\ new.uid = cr.uid + 1
        /\ ~Imported => new.clusterId = NoCluster
    BY <2>1 DEF NewConfigs
  <2>5. Owns(new, state, origin)
    BY <2>4 DEF Owns
  <2> QED BY <1>4, <2>1, <2>2, <2>3, <2>4, <2>5
<1> QED BY <1>5, <1>6, <1>7

LEMMA CloudKeeps ==
  ASSUME IInv, TypeOK', NEW c \in ClusterIds, CloudStep(c) \/ CloudDisturbed(c)
  PROVE  IInv'
<1>1. UNCHANGED <<cr, watch, cache, origin, pc, orig, obj>>
  BY DEF CloudStep, CloudDisturbed, Evolve, Disturb, store
<1>2. \E s \in States : /\ state' = [state EXCEPT ![c] = s] /\ s # "unused"
                        /\ state[c] # "unused"
                        /\ state[c] \in {"deleting", "deleted"} <=> s \in {"deleting", "deleted"}
  BY DEF CloudStep, CloudDisturbed, Evolve, Disturb, SetState, States
<1>3. /\ TypeOK /\ StoreOK /\ NoUnaskedDelete /\ state \in [ClusterIds -> States]
  BY Parts DEF TypeOK, CloudTypeOK
<1>4. \A d \in ClusterIds :
        /\ state[d] # "unused" => state'[d] # "unused"
        /\ state[d] \in {"deleting", "deleted"} <=> state'[d] \in {"deleting", "deleted"}
  BY <1>2, <1>3
<1>5. StoreOK'
  BY <1>1, <1>4, CloudGoesOn
<1>6. NoUnaskedDelete'
  BY <1>1, <1>3, <1>4 DEF NoUnaskedDelete
<1>7. Grew(cr, cr') /\ Kept(state, origin, state', origin')
  BY <1>1, <1>4, GrewSelf DEF Kept
<1>8. SyncOK' /\ PointOK'
  BY <1>1, <1>4, <1>7, SyncWaits
<1> QED BY <1>5, <1>6, <1>8, IInvFrom, Zenon

LEMMA EnvironmentKeeps ==
  ASSUME IInv, TypeOK', Environment
  PROVE  IInv'
<1>1. ASSUME Timer \/ Collect PROVE IInv'
  <2>1. UNCHANGED <<cr, watch, cache, state, origin, pc, orig, obj>>
    BY <1>1 DEF Timer, Collect, store, cloud
  <2> QED BY <2>1, RestKeeps
<1> QED
  BY <1>1, DeliverKeeps, RestartKeeps, UserKeeps, CloudKeeps, Zenon DEF Environment

LEMMA InitInvariant ==
  ASSUME Init
  PROVE  IInv
<1>1. TypeOK
  BY TypeInit
<1>2. PICK c \in ClusterIds : /\ cr \in NewConfigs(1, 1, {c})
                              /\ \A d \in ClusterIds : state[d] \in {"running", "unused"}
  BY DEF Init
<1>3. /\ cache = cr /\ watch = {} /\ pc = "idle" /\ orig = Empty /\ obj = Empty
      /\ origin = [d \in ClusterIds |-> Foreign]
  BY DEF Init
<1>4. cr \in Config
  BY <1>1 DEF TypeOK, StoreTypeOK
<1>5. cr.rv = 1 /\ cr.uid = 1 /\ (~Imported => cr.clusterId = NoCluster)
  BY <1>2 DEF NewConfigs
<1>6. Owns(cr, state, origin)
  BY <1>5 DEF Owns
<1>7. Tracked(cache, cr, state, origin) /\ Tracked(Empty, cr, state, origin)
  <2>1. cr.rv > 0
    BY <1>5
  <2> QED BY <1>3, <1>4, <1>6, <2>1, CopySelf, EmptyTracked, Zenon DEF Tracked
<1>8. StoreOK
  BY <1>3, <1>5, <1>6, <1>7 DEF StoreOK, Foreign
<1>9. SyncOK /\ PointOK
  BY <1>3, <1>7 DEF SyncOK, PointOK
<1>10. NoUnaskedDelete
  BY <1>2 DEF NoUnaskedDelete
<1> QED BY <1>1, <1>8, <1>9, <1>10 DEF IInv

LEMMA StutterKeeps ==
  ASSUME IInv, UNCHANGED vars
  PROVE  IInv'
<1>1. UNCHANGED <<cr, watch, cache, state, origin, pc, orig, obj>>
  BY DEF vars
<1>2. TypeOK'
  BY StutterType DEF IInv
<1> QED BY <1>1, <1>2, RestKeeps

LEMMA StepKeeps ==
  ASSUME IInv, [Next]_vars
  PROVE  IInv'
<1>1. TypeOK
  BY DEF IInv
<1>2. CASE Worker
  BY <1>1, <1>2, WorkerType, WorkerKeeps, Zenon
<1>3. CASE Environment
  BY <1>1, <1>3, EnvironmentType, EnvironmentKeeps, Zenon
<1> QED BY <1>2, <1>3, StutterKeeps, NextSplits, Zenon

-----------------------------------------------------------------------------
(* Theorems.                                                               *)

\* IInv is an invariant, and an inductive one: whatever copies of the config a
\* sync, the cache and the watch hold, they are as old or as new as it says.
THEOREM InvariantHolds == Spec => []IInv
<1>1. Init => IInv
  BY InitInvariant
<1>2. IInv /\ [Next]_vars => IInv'
  BY StepKeeps, Zenon
<1> QED BY <1>1, <1>2, PTL DEF Spec

\* Only clusters of deleted configs are deleted, and none that the operator did
\* not make, however many configs of the name, restarts and lost answers.
THEOREM DeletesWhatIsAsked == Spec => []NoUnaskedDelete
<1>1. IInv => NoUnaskedDelete
  BY DEF IInv
<1> QED BY <1>1, InvariantHolds, PTL
=============================================================================
