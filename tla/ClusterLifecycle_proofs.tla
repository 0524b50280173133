----------------------- MODULE ClusterLifecycle_proofs -----------------------
EXTENDS ClusterLifecycle, TLAPS

\* Every write of the operator is taken from its object or not taken at all.
Stored(o, new) == UNCHANGED store \/ (o.rv = cr.rv /\ Commit(new))

LEMMA AcceptStores ==
  ASSUME NEW o, NEW new, Accept(o, new)
  PROVE  Stored(o, new)
BY DEF Accept, Stored

LEMMA RefuseStores ==
  ASSUME NEW o, NEW new, NEW e, Refuse(o, new, e)
  PROVE  Stored(o, new)
BY DEF Refuse, Stored, store

LEMMA EmptyType ==
  Empty \in Config /\ Empty.rv = 0 /\ Empty.life = "live" /\ Empty.uid = 0
BY DEF Empty, Config, Phases, Errors

LEMMA VersionType ==
  ASSUME NEW c \in Config, NEW n \in Nat
  PROVE  LET d == [c EXCEPT !.rv = n]
         IN  /\ d \in Config /\ d.rv = n
             /\ d.uid = c.uid /\ d.life = c.life /\ d.phase = c.phase
             /\ d.clusterId = c.clusterId /\ d.pools = c.pools
BY DEF Config

LEMMA ConfigFields ==
  ASSUME NEW c \in Config
  PROVE  /\ c.rv \in Nat /\ c.uid \in Nat /\ c.fin \in BOOLEAN
         /\ c.life \in {"live", "deleting", "gone"}
         /\ c.clusterId \in ClusterIds \cup {NoCluster}
         /\ c.pools \in Pools \cup {NoPools}
         /\ c.phase \in Phases /\ c.failure \in Errors \cup {""}
BY DEF Config

LEMMA CommitType ==
  ASSUME cr \in Config, watch \in SUBSET Config,
         NEW new \in Config, new.rv = cr.rv, Commit(new)
  PROVE  /\ cr' \in Config /\ watch' \in SUBSET Config
         /\ watch' \subseteq watch \cup {cr'}
         /\ (cr'.rv = cr.rv /\ cr' = cr /\ new = cr) \/ cr'.rv = cr.rv + 1
         /\ cr'.uid = new.uid /\ cr'.life = new.life /\ cr'.phase = new.phase
         /\ cr'.clusterId = new.clusterId /\ cr'.pools = new.pools
<1>1. CASE new = cr
  BY <1>1 DEF Commit
<1>2. CASE new # cr
  <2>1. cr' = [new EXCEPT !.rv = cr.rv + 1] /\ watch' = watch \cup {cr'}
    BY <1>2 DEF Commit
  <2>a. cr.rv \in Nat
    BY ConfigFields, Zenon
  <2>2. cr.rv + 1 \in Nat
    BY <2>a
  <2>3. /\ cr' \in Config /\ cr'.rv = cr.rv + 1
        /\ cr'.uid = new.uid /\ cr'.life = new.life /\ cr'.phase = new.phase
        /\ cr'.clusterId = new.clusterId /\ cr'.pools = new.pools
    BY <2>1, <2>2, VersionType, Zenon
  <2> QED BY <2>1, <2>3, Zenon
<1> QED BY <1>1, <1>2

LEMMA SpecWriteType ==
  ASSUME cr \in Config, NEW o \in Config
  PROVE  /\ SpecWrite(o) \in Config
         /\ SpecWrite(o).rv = cr.rv /\ SpecWrite(o).uid = cr.uid
         /\ SpecWrite(o).phase = cr.phase
         /\ SpecWrite(o).clusterId = o.clusterId /\ SpecWrite(o).pools = o.pools
         /\ SpecWrite(o).life =
              IF cr.life = "deleting" /\ ~o.fin THEN "gone" ELSE cr.life
BY ZenonT(40) DEF SpecWrite, Config

LEMMA StatusWriteType ==
  ASSUME cr \in Config, NEW o \in Config
  PROVE  /\ StatusWrite(o) \in Config
         /\ StatusWrite(o).rv = cr.rv /\ StatusWrite(o).uid = cr.uid
         /\ StatusWrite(o).life = cr.life /\ StatusWrite(o).phase = o.phase
         /\ StatusWrite(o).clusterId = cr.clusterId
         /\ StatusWrite(o).pools = cr.pools
BY DEF StatusWrite, Config

LEMMA StoredType ==
  ASSUME cr \in Config, watch \in SUBSET Config,
         NEW o, NEW new \in Config, new.rv = cr.rv, Stored(o, new)
  PROVE  cr' \in Config /\ watch' \in SUBSET Config
<1>1. CASE UNCHANGED store
  BY <1>1 DEF store
<1>2. CASE Commit(new)
  BY <1>2, CommitType, Zenon
<1> QED BY <1>1, <1>2 DEF Stored

LEMMA TypeParts ==
  ASSUME TypeOK
  PROVE  /\ cr \in Config /\ watch \in SUBSET Config /\ cache \in Config
         /\ orig \in Config /\ obj \in Config
         /\ err \in Errors \cup {""} /\ faults \in Nat /\ outside \in Nat
         /\ crashes \in Nat /\ secret \in Nat /\ pc \in Points
         /\ queued \in BOOLEAN /\ delayed \in BOOLEAN
         /\ state \in [ClusterIds -> States]
         /\ upstream \in [ClusterIds -> Pools \cup {NoPools}]
         /\ origin \in [ClusterIds -> Origin]
BY DEF TypeOK, StoreTypeOK, CloudTypeOK

LEMMA FaultType ==
  ASSUME faults \in Nat, Fault
  PROVE  faults' \in Nat
BY DEF Fault

LEMMA NoAnswerType ==
  ASSUME faults \in Nat, NEW c, NoAnswer(c)
  PROVE  faults' \in Nat
BY DEF Fault, NoAnswer

\* How Save ends: the object is the stored one, or the handler gives back.
LEMMA SaveEnds ==
  ASSUME TypeOK, NEW point, NEW back, Save(point, back)
  PROVE  /\ Stored(obj, SpecWrite(obj)) /\ faults' \in Nat
         /\ \/ /\ obj.rv = cr.rv /\ Commit(SpecWrite(obj))
               /\ obj' = cr' /\ pc' = point /\ err' = err
            \/ obj' = back /\ pc' = "record" /\ err' \in Errors
<1>0. faults \in Nat
  BY TypeParts, Zenon
<1>1. CASE Accept(obj, SpecWrite(obj)) /\ Continue(cr', point)
  <2>1. Stored(obj, SpecWrite(obj))
    BY <1>1, AcceptStores, Zenon
  <2> QED BY <1>0, <1>1, <2>1 DEF Accept, Continue
<1>2. ASSUME NEW e \in Errors, Refuse(obj, SpecWrite(obj), e), Return(back, e)
      PROVE  /\ Stored(obj, SpecWrite(obj)) /\ faults' \in Nat
             /\ obj' = back /\ pc' = "record" /\ err' \in Errors
  <2>1. Stored(obj, SpecWrite(obj))
    BY <1>2, RefuseStores, Zenon
  <2> QED BY <1>0, <1>2, <2>1 DEF Refuse, Return, Fault
<1> QED BY <1>1, <1>2, Zenon DEF Save

WithPhase(phase) == [obj EXCEPT !.phase = phase]

\* How SetPhase ends: the handler returns the stored object or the zero one.
LEMMA SetPhaseEnds ==
  ASSUME TypeOK, NEW phase, SetPhase(phase)
  PROVE  /\ Stored(WithPhase(phase), StatusWrite(WithPhase(phase)))
         /\ faults' \in Nat
         /\ pc' = "record" /\ err' \in Errors \cup {""}
         /\ \/ /\ WithPhase(phase).rv = cr.rv
               /\ Commit(StatusWrite(WithPhase(phase))) /\ obj' = cr'
            \/ obj' = Empty
<1> DEFINE o == WithPhase(phase)
           S == Stored(o, StatusWrite(o))
           E == /\ pc' = "record" /\ err' \in Errors \cup {""}
                /\ \/ o.rv = cr.rv /\ Commit(StatusWrite(o)) /\ obj' = cr'
                   \/ obj' = Empty
<1>0. faults \in Nat
  BY TypeParts, Zenon
<1>1. ASSUME Accept(o, StatusWrite(o)), Return(cr', "")
      PROVE  S /\ faults' \in Nat /\ E
  <2>1. S
    BY <1>1, AcceptStores, Zenon
  <2> HIDE DEF o
  <2> QED BY <1>0, <1>1, <2>1 DEF Accept, Return
<1>2. ASSUME NEW e \in Errors, Refuse(o, StatusWrite(o), e), Return(Empty, e)
      PROVE  S /\ faults' \in Nat /\ E
  <2>1. S
    BY <1>2, RefuseStores, Zenon
  <2>2. faults' \in Nat
    BY <1>0, <1>2 DEF Refuse, Fault
  <2>3. obj' = Empty /\ err' = e /\ pc' = "record"
    BY <1>2 DEF Return
  <2> QED BY <2>1, <2>2, <2>3, <1>2, Zenon
<1>3. SetPhase(phase) <=>
        \/ Accept(o, StatusWrite(o)) /\ Return(cr', "")
        \/ \E e \in Errors : Refuse(o, StatusWrite(o), e) /\ Return(Empty, e)
  BY DEF SetPhase, WithPhase
<1> HIDE DEF o
<1> QED BY <1>1, <1>2, <1>3, Zenon DEF o

-----------------------------------------------------------------------------
(* Types.                                                                  *)

LEMMA FieldTypes ==
  ASSUME NEW o \in Config
  PROVE  /\ \A p \in Phases :
              /\ [o EXCEPT !.phase = p] \in Config
              /\ \A f \in Errors \cup {""} :
                   [o EXCEPT !.failure = f, !.phase = p] \in Config
         /\ \A c \in ClusterIds : [o EXCEPT !.clusterId = c] \in Config
         /\ \A b \in BOOLEAN : [o EXCEPT !.fixed = b] \in Config
         /\ \A b \in BOOLEAN : [o EXCEPT !.fin = b] \in Config
         /\ \A q \in Pools \cup {NoPools} :
              /\ [o EXCEPT !.pools = q] \in Config
              /\ \A b \in BOOLEAN : [o EXCEPT !.pools = q, !.fixed = b] \in Config
         /\ \A l \in {"live", "deleting", "gone"} : [o EXCEPT !.life = l] \in Config
BY ZenonT(40) DEF Config

LEMMA SaveType ==
  ASSUME TypeOK, NEW point \in Points, NEW back \in Config, Save(point, back)
  PROVE  /\ cr' \in Config /\ watch' \in SUBSET Config
         /\ obj' \in Config /\ pc' \in Points
         /\ err' \in Errors \cup {""} /\ faults' \in Nat
<1>1. cr \in Config /\ watch \in SUBSET Config /\ obj \in Config
  BY TypeParts, Zenon
<1>2. SpecWrite(obj) \in Config /\ SpecWrite(obj).rv = cr.rv
  BY <1>1, SpecWriteType, Zenon
<1>3. cr' \in Config /\ watch' \in SUBSET Config
  BY <1>1, <1>2, SaveEnds, StoredType, Zenon
<1>4. "record" \in Points
  BY DEF Points
<1>5. err' \in Errors \cup {""}
  <2>1. err \in Errors \cup {""} /\ (err' = err \/ err' \in Errors)
    BY SaveEnds, TypeParts, Zenon
  <2> QED BY <2>1
<1>6. (obj' = cr' /\ pc' = point) \/ (obj' = back /\ pc' = "record")
  BY SaveEnds, Zenon
<1>7. faults' \in Nat
  BY SaveEnds, Zenon
<1> QED BY <1>3, <1>4, <1>5, <1>6, <1>7, Zenon

LEMMA SetPhaseType ==
  ASSUME TypeOK, NEW phase \in Phases, SetPhase(phase)
  PROVE  /\ cr' \in Config /\ watch' \in SUBSET Config
         /\ obj' \in Config /\ pc' \in Points
         /\ err' \in Errors \cup {""} /\ faults' \in Nat
<1>1. cr \in Config /\ watch \in SUBSET Config /\ WithPhase(phase) \in Config
  BY TypeParts, FieldTypes, Zenon DEF WithPhase
<1>2. StatusWrite(WithPhase(phase)) \in Config
      /\ StatusWrite(WithPhase(phase)).rv = cr.rv
  BY <1>1, StatusWriteType, Zenon
<1>3. cr' \in Config /\ watch' \in SUBSET Config
  BY <1>1, <1>2, SetPhaseEnds, StoredType, Zenon
<1>4. "record" \in Points
  BY DEF Points
<1>5. /\ obj' = cr' \/ obj' = Empty
      /\ pc' = "record" /\ err' \in Errors \cup {""} /\ faults' \in Nat
  BY SetPhaseEnds, Zenon
<1> QED BY <1>3, <1>4, <1>5, EmptyType, Zenon

\* The conjuncts of TypeOK one by one.
LEMMA TypeFrom ==
  ASSUME cr' \in Config, watch' \in SUBSET Config, cache' \in Config,
         orig' \in Config, obj' \in Config,
         err' \in Errors \cup {""}, faults' \in Nat, outside' \in Nat,
         crashes' \in Nat, secret' \in Nat, pc' \in Points,
         queued' \in BOOLEAN, delayed' \in BOOLEAN,
         state' \in [ClusterIds -> States],
         upstream' \in [ClusterIds -> Pools \cup {NoPools}],
         origin' \in [ClusterIds -> Origin]
  PROVE  TypeOK'
BY DEF TypeOK, StoreTypeOK, CloudTypeOK

LEMMA WriteType ==
  ASSUME TypeOK, NEW o, NEW new \in Config, new.rv = cr.rv,
         Accept(o, new) \/ \E e \in Errors : Refuse(o, new, e)
  PROVE  /\ Stored(o, new) /\ cr' \in Config /\ watch' \in SUBSET Config
         /\ faults' \in Nat
<1>1. Stored(o, new)
  BY AcceptStores, RefuseStores, Zenon
<1>2. cr' \in Config /\ watch' \in SUBSET Config
  BY <1>1, TypeParts, StoredType, Zenon
<1>3. faults \in Nat /\ (UNCHANGED faults \/ Fault)
  BY TypeParts, Zenon DEF Accept, Refuse
<1> QED BY <1>1, <1>2, <1>3, FaultType, Zenon

LEMMA WorkerType ==
  ASSUME TypeOK, Worker
  PROVE  TypeOK'
<1>0. /\ cr \in Config /\ watch \in SUBSET Config /\ cache \in Config
      /\ orig \in Config /\ obj \in Config
      /\ err \in Errors \cup {""} /\ faults \in Nat /\ outside \in Nat
      /\ crashes \in Nat /\ secret \in Nat /\ pc \in Points
      /\ queued \in BOOLEAN /\ delayed \in BOOLEAN
      /\ state \in [ClusterIds -> States]
      /\ upstream \in [ClusterIds -> Pools \cup {NoPools}]
      /\ origin \in [ClusterIds -> Origin]
  BY TypeParts, Zenon
<1>a. /\ UNCHANGED faults => faults' \in Nat
      /\ Fault => faults' \in Nat
      /\ \A c : NoAnswer(c) => faults' \in Nat
  BY <1>0, FaultType, NoAnswerType, Zenon
<1>1. ASSUME Sync PROVE TypeOK'
  <2>1. orig' \in Config /\ obj' \in Config
    BY <1>0, <1>1, EmptyType, Zenon DEF Sync
  <2>2. pc' \in Points
    BY <1>0, <1>1, ConfigFields DEF Sync, Entry, CreateEntry, Points, Phases
  <2>3. /\ UNCHANGED <<cr, watch, cache, state, upstream, origin, delayed, err,
                       secret, outside, faults, crashes>>
        /\ queued' = FALSE
    BY <1>0, <1>1 DEF Sync
  <2> QED BY <2>1, <2>2, <2>3, <1>0, TypeFrom, Zenon
<1>2. ASSUME BeginImport PROVE TypeOK'
  <2>1. SetPhase("importing") /\ "importing" \in Phases
    BY <1>0, <1>2 DEF BeginImport, Phases
  <2>2. UNCHANGED <<cache, state, upstream, origin, queued, delayed, orig,
                    secret, outside, crashes>>
    BY <1>0, <1>2 DEF BeginImport, cloud, queue
  <2> QED BY <2>1, <2>2, SetPhaseType, <1>0, TypeFrom, Zenon
<1>3. ASSUME CreateCall PROVE TypeOK'
  <2>1. \A c \in ClusterIds : /\ [orig EXCEPT !.clusterId = c] \in Config
                              /\ [obj EXCEPT !.clusterId = c] \in Config
    BY <1>0, FieldTypes
  <2>2. /\ obj' \in Config /\ orig' \in Config /\ cache' \in Config
        /\ err' \in Errors \cup {""} /\ pc' \in Points
    BY <1>0, <1>3, <2>1 DEF CreateCall, Return, Continue, Mutate, Points, Errors
  <2>3. faults' \in Nat
    BY <1>a, <1>3, Zenon DEF CreateCall
  <2>4. ASSUME NEW c \in ClusterIds, NEW b \in BOOLEAN,
               Allocate(c, [uid |-> obj.uid, rv |-> obj.rv,
                            process |-> crashes, acked |-> b])
        PROVE  /\ state' \in [ClusterIds -> States]
               /\ upstream' \in [ClusterIds -> Pools \cup {NoPools}]
               /\ origin' \in [ClusterIds -> Origin]
    <3> DEFINE from == [uid |-> obj.uid, rv |-> obj.rv, process |-> crashes,
                        acked |-> b]
    <3>1. from \in Origin
      BY <1>0, ConfigFields DEF Origin
    <3> HIDE DEF from
    <3>2. Allocate(c, from)
      BY <2>4 DEF from
    <3> QED BY <1>0, <3>1, <3>2 DEF Allocate, States
  <2>5. /\ state' \in [ClusterIds -> States]
        /\ upstream' \in [ClusterIds -> Pools \cup {NoPools}]
        /\ origin' \in [ClusterIds -> Origin]
    BY <1>0, <1>3, <2>4 DEF CreateCall, cloud
  <2>6. UNCHANGED <<cr, watch, queued, delayed, secret, outside, crashes>>
    BY <1>3 DEF CreateCall, store, queue
  <2> QED BY <2>2, <2>3, <2>5, <2>6, <1>0, TypeFrom, Zenon
<1>4. ASSUME CreateUpdate PROVE TypeOK'
  <2>1. Save("createStatus", orig) /\ "createStatus" \in Points
    BY <1>0, <1>4 DEF CreateUpdate, Points
  <2>2. UNCHANGED <<cache, state, upstream, origin, queued, delayed, orig,
                    secret, outside, crashes>>
    BY <1>0, <1>4 DEF CreateUpdate, cloud, queue
  <2> QED BY <2>1, <2>2, SaveType, <1>0, TypeFrom, Zenon
<1>5. ASSUME CreateStatus PROVE TypeOK'
  <2>1. SetPhase("creating") /\ "creating" \in Phases
    BY <1>0, <1>5 DEF CreateStatus, Phases
  <2>2. UNCHANGED <<cache, state, upstream, origin, queued, delayed, orig,
                    secret, outside, crashes>>
    BY <1>0, <1>5 DEF CreateStatus, cloud, queue
  <2> QED BY <2>1, <2>2, SetPhaseType, <1>0, TypeFrom, Zenon
<1>6. ASSUME WaitGet PROVE TypeOK'
  <2>1. obj' = obj /\ err' \in Errors \cup {""} /\ pc' \in Points
    BY <1>0, <1>6 DEF WaitGet, Return, Continue, Points, Errors
  <2>2. faults' \in Nat /\ delayed' \in BOOLEAN
    BY <1>0, <1>a, <1>6, Zenon DEF WaitGet
  <2>3. UNCHANGED <<cr, watch, cache, state, upstream, origin, queued, orig,
                    secret, outside, crashes>>
    BY <1>0, <1>6 DEF WaitGet, store, cloud
  <2> QED BY <2>1, <2>2, <2>3, <1>0, TypeFrom, Zenon
<1>7. ASSUME CASecret PROVE TypeOK'
  <2>1. obj' = obj /\ err' \in Errors \cup {""} /\ pc' \in Points
    BY <1>0, <1>7 DEF CASecret, Return, Continue, Points, Errors
  <2>2. faults' \in Nat
    BY <1>a, <1>7, Zenon DEF CASecret
  <2>3. secret' \in Nat
    BY <1>0, <1>7, ConfigFields DEF CASecret
  <2>4. UNCHANGED <<cr, watch, cache, state, upstream, origin, queued, delayed,
                    orig, outside, crashes>>
    BY <1>0, <1>7 DEF CASecret, store, cloud, queue
  <2> QED BY <2>1, <2>2, <2>3, <2>4, <1>0, TypeFrom, Zenon
<1>8. ASSUME Activate PROVE TypeOK'
  <2>1. SetPhase("active") /\ "active" \in Phases
    BY <1>0, <1>8 DEF Activate, Phases
  <2>2. UNCHANGED <<cache, state, upstream, origin, queued, delayed, orig,
                    secret, outside, crashes>>
    BY <1>0, <1>8 DEF Activate, cloud, queue
  <2> QED BY <2>1, <2>2, SetPhaseType, <1>0, TypeFrom, Zenon
<1>9. ASSUME ImportGet PROVE TypeOK'
  <2>1. FixConfig(orig) \in Config /\ FixConfig(obj) \in Config
    BY <1>0, FieldTypes DEF FixConfig
  <2>2. /\ obj' \in {obj, FixConfig(obj)} /\ orig' \in {orig, FixConfig(orig)}
        /\ cache' \in {cache, FixConfig(orig)}
        /\ err' \in Errors \cup {""} /\ pc' \in Points
    BY <1>0, <1>9 DEF ImportGet, Return, Continue, Mutate, Points, Errors
  <2>3. faults' \in Nat
    BY <1>a, <1>9, Zenon DEF ImportGet
  <2>4. UNCHANGED <<cr, watch, state, upstream, origin, queued, delayed, secret,
                    outside, crashes>>
    BY <1>0, <1>9 DEF ImportGet, store, cloud, queue
  <2> QED BY <2>1, <2>2, <2>3, <2>4, <1>0, TypeFrom, Zenon
<1>10. ASSUME ImportPools PROVE TypeOK'
  <2>1. ASSUME Present(obj.clusterId)
        PROVE  [obj EXCEPT !.pools = upstream[obj.clusterId]] \in Config
    BY <1>0, <2>1, FieldTypes DEF Present
  <2>2. obj' \in Config /\ pc' \in Points /\ err' \in Errors \cup {""}
    BY <1>0, <1>10, <2>1 DEF ImportPools, Return, Continue, Points, Errors
  <2>3. faults' \in Nat
    BY <1>a, <1>10, Zenon DEF ImportPools
  <2>4. UNCHANGED <<cr, watch, cache, state, upstream, origin, queued, delayed,
                    orig, secret, outside, crashes>>
    BY <1>10 DEF ImportPools, store, cloud, queue
  <2> QED BY <2>2, <2>3, <2>4, <1>0, TypeFrom, Zenon
<1>11. ASSUME ImportUpdate PROVE TypeOK'
  <2>1. Save("caSecret", orig) /\ "caSecret" \in Points
    BY <1>0, <1>11 DEF ImportUpdate, Points
  <2>2. UNCHANGED <<cache, state, upstream, origin, queued, delayed, orig,
                    secret, outside, crashes>>
    BY <1>0, <1>11 DEF ImportUpdate, cloud, queue
  <2> QED BY <2>1, <2>2, SaveType, <1>0, TypeFrom, Zenon
<1>12. ASSUME CheckGet PROVE TypeOK'
  <2>1. FixConfig(orig) \in Config /\ FixConfig(obj) \in Config
    BY <1>0, FieldTypes DEF FixConfig
  <2>2. /\ obj' \in {obj, FixConfig(obj)} /\ orig' \in {orig, FixConfig(orig)}
        /\ cache' \in {cache, FixConfig(orig)}
        /\ err' \in Errors \cup {""} /\ pc' \in Points
    BY <1>0, <1>12 DEF CheckGet, Return, Continue, Mutate, Points, Errors
  <2>3. faults' \in Nat /\ delayed' \in BOOLEAN
    BY <1>0, <1>a, <1>12, Zenon DEF CheckGet
  <2>4. UNCHANGED <<cr, watch, state, upstream, origin, queued, secret, outside,
                    crashes>>
    BY <1>12 DEF CheckGet, store, cloud
  <2> QED BY <2>1, <2>2, <2>3, <2>4, <1>0, TypeFrom
<1>13. ASSUME CheckStatus PROVE TypeOK'
  <2>1. SetPhase("updating") /\ "updating" \in Phases
    BY <1>13 DEF CheckStatus, Phases
  <2>2. UNCHANGED <<cache, state, upstream, origin, queued, delayed, orig,
                    secret, outside, crashes>>
    BY <1>13 DEF CheckStatus, cloud, queue
  <2> QED BY <2>1, <2>2, SetPhaseType, <1>0, TypeFrom, Zenon
<1>14. ASSUME CheckFence PROVE TypeOK'
  <2>1. Save("checkPools", orig) /\ "checkPools" \in Points
    BY <1>14 DEF CheckFence, Points
  <2>2. UNCHANGED <<cache, state, upstream, origin, queued, delayed, orig,
                    secret, outside, crashes>>
    BY <1>14 DEF CheckFence, cloud, queue
  <2> QED BY <2>1, <2>2, SaveType, <1>0, TypeFrom, Zenon
<1>15. ASSUME CheckPools PROVE TypeOK'
  <2>1. obj' = obj /\ err' \in Errors \cup {""} /\ pc' \in Points
    BY <1>0, <1>15 DEF CheckPools, Return, Continue, Points, Errors
  <2>2. faults' \in Nat /\ delayed' \in BOOLEAN
    BY <1>0, <1>a, <1>15, Zenon DEF CheckPools
  <2>3. UNCHANGED <<cr, watch, cache, state, upstream, origin, queued, orig,
                    secret, outside, crashes>>
    BY <1>15 DEF CheckPools, store, cloud
  <2> QED BY <2>1, <2>2, <2>3, <1>0, TypeFrom, Zenon
<1>16. ASSUME PoolsStatus PROVE TypeOK'
  <2>1. SetPhase("updating") /\ "updating" \in Phases /\ delayed' \in BOOLEAN
    BY <1>16 DEF PoolsStatus, Phases
  <2>2. UNCHANGED <<cache, state, upstream, origin, queued, orig, secret,
                    outside, crashes>>
    BY <1>16 DEF PoolsStatus, cloud
  <2> QED BY <2>1, <2>2, SetPhaseType, <1>0, TypeFrom, Zenon
<1>17. ASSUME Batch PROVE TypeOK'
  <2>1. obj' = obj /\ err' \in Errors \cup {""} /\ pc' \in Points
    BY <1>0, <1>17 DEF Batch, NotChanged, Return, Continue, Points, Errors
  <2>2. faults' \in Nat
    BY <1>a, <1>17, Zenon DEF Batch
  <2>3. state' \in [ClusterIds -> States]
    BY <1>0, <1>17 DEF Batch, SetState, States
  <2>4. upstream' \in [ClusterIds -> Pools \cup {NoPools}]
    <3>1. obj.pools \in Pools \cup {NoPools}
      BY <1>0, ConfigFields
    <3>2. \/ UNCHANGED upstream
          \/ \E p \in Pools \cup {NoPools} :
                upstream' = [upstream EXCEPT ![obj.clusterId] = p]
      BY <1>17, <3>1 DEF Batch, Apply
    <3> QED BY <1>0, <3>2
  <2>5. UNCHANGED <<cr, watch, cache, origin, queued, delayed, orig, secret,
                    outside, crashes>>
    BY <1>17 DEF Batch, store, queue
  <2> QED BY <2>1, <2>2, <2>3, <2>4, <2>5, <1>0, TypeFrom, Zenon
<1>18. ASSUME ChangedUpdate PROVE TypeOK'
  <2>1. SpecWrite(obj) \in Config /\ SpecWrite(obj).rv = cr.rv
    BY <1>0, SpecWriteType, Zenon
  <2>2. cr' \in Config /\ watch' \in SUBSET Config /\ faults' \in Nat
    BY <1>18, <2>1, WriteType, Zenon DEF ChangedUpdate
  <2>3. [cr' EXCEPT !.phase = "updating"] \in Config
    BY <2>2, FieldTypes DEF Phases
  <2>4. /\ obj' \in {obj, [cr' EXCEPT !.phase = "updating"]}
        /\ err' \in Errors \cup {""} /\ pc' \in Points
    BY <1>18 DEF ChangedUpdate, Return, Points
  <2>5. queued' \in BOOLEAN
    BY <1>0, <1>18 DEF ChangedUpdate
  <2>6. UNCHANGED <<cache, state, upstream, origin, delayed, orig, secret,
                    outside, crashes>>
    BY <1>18 DEF ChangedUpdate, cloud
  <2>7. obj' \in Config
    BY <1>0, <2>3, <2>4
  <2> QED BY <2>2, <2>4, <2>5, <2>6, <2>7, <1>0, TypeFrom, Zenon
<1>19. ASSUME FinishUpdate PROVE TypeOK'
  <2>1. Save("activeStatus", obj) /\ "activeStatus" \in Points
    BY <1>19 DEF FinishUpdate, Points
  <2>2. UNCHANGED <<cache, state, upstream, origin, queued, delayed, orig,
                    secret, outside, crashes>>
    BY <1>19 DEF FinishUpdate, cloud, queue
  <2> QED BY <2>1, <2>2, SaveType, <1>0, TypeFrom, Zenon
<1>20. ASSUME Record PROVE TypeOK'
  <2> DEFINE o == [obj EXCEPT !.failure = err,
                              !.phase = IF err # "" /\ @ = "active"
                                        THEN "updating" ELSE @]
  <2>1. o \in Config
    BY <1>0, ConfigFields, FieldTypes DEF Phases
  <2>2. StatusWrite(o) \in Config /\ StatusWrite(o).rv = cr.rv
    BY <1>0, <2>1, StatusWriteType, Zenon
  <2>3. \/ UNCHANGED <<obj, cr, watch, faults>>
        \/ Accept(o, StatusWrite(o)) /\ obj' = cr'
        \/ \E e \in Errors : Refuse(o, StatusWrite(o), e) /\ obj' = Empty
    BY <1>20, Zenon DEF Record, store
  <2> HIDE DEF o
  <2>4. /\ cr' \in Config /\ watch' \in SUBSET Config /\ faults' \in Nat
        /\ obj' \in Config
    BY <1>0, <2>2, <2>3, WriteType, EmptyType, Zenon
  <2>5. pc' \in Points
    BY <1>20 DEF Record, Points
  <2>6. UNCHANGED <<cache, state, upstream, origin, queued, delayed, orig, err,
                    secret, outside, crashes>>
    BY <1>20 DEF Record, cloud, queue
  <2> QED BY <2>4, <2>5, <2>6, <1>0, TypeFrom, Zenon
<1>21. ASSUME Remove PROVE TypeOK'
  <2>1. Latest \in Config
    BY <1>0 DEF Latest
  <2>2. /\ obj' \in {Empty, Latest, [Latest EXCEPT !.fin = TRUE],
                      [Latest EXCEPT !.fin = FALSE]}
        /\ orig' \in {Empty, orig} /\ pc' \in Points
        /\ err' \in Errors \cup {""}
    BY <1>0, <1>21 DEF Remove, Finish, Continue, Points
  <2>3. obj' \in Config /\ orig' \in Config
    BY <1>0, <2>1, <2>2, FieldTypes, EmptyType
  <2>4. queued' \in BOOLEAN /\ delayed' \in BOOLEAN
    BY <1>0, <1>21 DEF Remove, Finish, queue
  <2>5. UNCHANGED <<cr, watch, cache, state, upstream, origin, secret, outside,
                    faults, crashes>>
    BY <1>21 DEF Remove, store, cloud
  <2> QED BY <2>2, <2>3, <2>4, <2>5, <1>0, TypeFrom, Zenon
<1>22. ASSUME SaveFinalizer PROVE TypeOK'
  <2>1. SpecWrite(obj) \in Config /\ SpecWrite(obj).rv = cr.rv
    BY <1>0, SpecWriteType, Zenon
  <2>2. cr' \in Config /\ watch' \in SUBSET Config /\ faults' \in Nat
    BY <1>22, <2>1, WriteType, Zenon DEF SaveFinalizer
  <2>3. /\ obj' = Empty /\ orig' = Empty /\ err' = "" /\ pc' = "idle"
        /\ delayed' \in BOOLEAN /\ UNCHANGED queued
    BY <1>22 DEF SaveFinalizer, Finish
  <2>4. UNCHANGED <<cache, state, upstream, origin, secret, outside, crashes>>
    BY <1>22 DEF SaveFinalizer, cloud
  <2>5. err' \in Errors \cup {""} /\ pc' \in Points
    BY <2>3 DEF Points
  <2> QED BY <2>2, <2>3, <2>4, <2>5, <1>0, EmptyType, TypeFrom, Zenon
<1>23. ASSUME RemoveCall PROVE TypeOK'
  <2>1. [obj EXCEPT !.fin = FALSE] \in Config
    BY <1>0, FieldTypes
  <2>2. /\ obj' \in {Empty, [obj EXCEPT !.fin = FALSE]}
        /\ orig' \in {Empty, orig} /\ pc' \in Points
        /\ err' \in Errors \cup {""}
    BY <1>0, <1>23 DEF RemoveCall, Finish, Continue, Points
  <2>3. queued' \in BOOLEAN /\ delayed' \in BOOLEAN
    BY <1>0, <1>23 DEF RemoveCall, Finish, queue
  <2>4. faults' \in Nat
    BY <1>a, <1>23, Zenon DEF RemoveCall
  <2>5. state' \in [ClusterIds -> States]
    BY <1>0, <1>23 DEF RemoveCall, SetState, States
  <2>6. UNCHANGED <<cr, watch, cache, upstream, origin, secret, outside, crashes>>
    BY <1>23 DEF RemoveCall, store
  <2> QED BY <2>1, <2>2, <2>3, <2>4, <2>5, <2>6, <1>0, EmptyType, TypeFrom
<1> QED
  BY <1>1, <1>2, <1>3, <1>4, <1>5, <1>6, <1>7, <1>8, <1>9, <1>10, <1>11, <1>12,
     <1>13, <1>14, <1>15, <1>16, <1>17, <1>18, <1>19, <1>20, <1>21, <1>22,
     <1>23, Zenon DEF Worker

LEMMA NewConfigsType ==
  ASSUME NEW version \in Nat, NEW id \in Nat, NEW importable,
         importable \subseteq ClusterIds,
         NEW o \in NewConfigs(version, id, importable)
  PROVE  o \in Config
<1>1. CASE Imported
  BY <1>1 DEF NewConfigs, Config, Phases, Errors
<1>2. CASE ~Imported
  BY <1>2 DEF NewConfigs, Config, Phases, Errors
<1> QED BY <1>1, <1>2

LEMMA TypeInit ==
  ASSUME Init
  PROVE  TypeOK
<1>1. PICK c \in ClusterIds, p \in Pools :
        /\ state = [d \in ClusterIds |->
                       IF Imported /\ d = c THEN "running" ELSE "unused"]
        /\ upstream = [d \in ClusterIds |-> IF Imported /\ d = c THEN p ELSE NoPools]
        /\ cr \in NewConfigs(1, 1, {c})
  BY DEF Init
<1>2. cr \in Config
  <2>1. 1 \in Nat /\ {c} \subseteq ClusterIds
    OBVIOUS
  <2> QED BY <1>1, <2>1, NewConfigsType, Zenon
<1>3. /\ state \in [ClusterIds -> States]
      /\ upstream \in [ClusterIds -> Pools \cup {NoPools}]
  BY <1>1 DEF States
<1>4. origin \in [ClusterIds -> Origin]
  BY DEF Init, Foreign, Origin
<1>5. /\ cache = cr /\ watch = {} /\ queued = TRUE /\ delayed = FALSE
      /\ pc = "idle" /\ orig = Empty /\ obj = Empty /\ err = "" /\ secret = 0
      /\ outside = 0 /\ faults = 0 /\ crashes = 0
  BY DEF Init
<1>6. StoreTypeOK /\ CloudTypeOK
  BY <1>2, <1>3, <1>4, <1>5 DEF StoreTypeOK, CloudTypeOK
<1>7. orig \in Config /\ obj \in Config
  BY <1>5, EmptyType, Zenon
<1> QED BY <1>5, <1>6, <1>7 DEF TypeOK, Points

\* What the user, the cloud, the watch and a crash do.
Environment ==
  \/ Deliver \/ Timer \/ Restart \/ UserEdit \/ UserDelete \/ UserCreate \/ Collect
  \/ \E c \in ClusterIds : CloudStep(c) \/ CloudDisturbed(c)

LEMMA EnvironmentType ==
  ASSUME TypeOK, Environment
  PROVE  TypeOK'
<1>0. /\ cr \in Config /\ watch \in SUBSET Config /\ cache \in Config
      /\ orig \in Config /\ obj \in Config
      /\ err \in Errors \cup {""} /\ faults \in Nat /\ outside \in Nat
      /\ crashes \in Nat /\ secret \in Nat /\ pc \in Points
      /\ queued \in BOOLEAN /\ delayed \in BOOLEAN
      /\ state \in [ClusterIds -> States]
      /\ upstream \in [ClusterIds -> Pools \cup {NoPools}]
      /\ origin \in [ClusterIds -> Origin]
  BY TypeParts, Zenon
<1>n. outside + 1 \in Nat /\ crashes + 1 \in Nat
  <2>1. outside \in Nat /\ crashes \in Nat
    BY TypeParts, Zenon
  <2> QED BY <2>1
<1>c. ASSUME NEW new \in Config, new.rv = cr.rv, Commit(new)
      PROVE  cr' \in Config /\ watch' \in SUBSET Config
  BY <1>0, <1>c, CommitType, Zenon
<1>1. ASSUME Deliver PROVE TypeOK'
  <2>1. cache' \in Config /\ watch' \in SUBSET Config /\ cr' = cr /\ queued' = TRUE
    BY <1>0, <1>1 DEF Deliver, Receive
  <2>2. UNCHANGED <<state, upstream, origin, delayed, pc, orig, obj, err, secret,
                    outside, faults, crashes>>
    BY <1>1 DEF Deliver, cloud
  <2> QED BY <2>1, <2>2, <1>0, TypeFrom, Zenon
<1>2. ASSUME Timer PROVE TypeOK'
  <2>1. /\ queued' = TRUE /\ delayed' = FALSE
        /\ UNCHANGED <<cr, watch, cache, state, upstream, origin, pc, orig, obj,
                       err, secret, outside, faults, crashes>>
    BY <1>2 DEF Timer, store, cloud
  <2> QED BY <2>1, <1>0, TypeFrom, Zenon
<1>3. ASSUME Restart PROVE TypeOK'
  <2>1. /\ pc' = "idle" /\ orig' = Empty /\ obj' = Empty /\ err' = ""
        /\ cache' = cr /\ watch' = {} /\ queued' = TRUE /\ delayed' = FALSE
        /\ UNCHANGED <<cr, state, upstream, origin, secret, outside, faults>>
    BY <1>3 DEF Restart, cloud
  <2>2. crashes' \in Nat
    BY <1>n, <1>3, Zenon DEF Restart
  <2>3. pc' \in Points /\ err' \in Errors \cup {""} /\ watch' \in SUBSET Config
    BY <2>1 DEF Points
  <2> QED BY <2>1, <2>2, <2>3, <1>0, EmptyType, TypeFrom, Zenon
<1>4. ASSUME UserEdit PROVE TypeOK'
  <2>1. PICK p \in Pools, f \in BOOLEAN : Commit([cr EXCEPT !.pools = p, !.fixed = f])
    <3>1. cr.fixed \in BOOLEAN
      BY <1>0 DEF Config
    <3> QED BY <1>4, <3>1 DEF UserEdit
  <2>2. /\ [cr EXCEPT !.pools = p, !.fixed = f] \in Config
        /\ [cr EXCEPT !.pools = p, !.fixed = f].rv = cr.rv
    BY <1>0 DEF Config
  <2>3. outside' \in Nat
    BY <1>n, <1>4, Zenon DEF UserEdit
  <2>4. UNCHANGED <<cache, state, upstream, origin, queued, delayed, pc, orig, obj,
                    err, secret, faults, crashes>>
    BY <1>4 DEF UserEdit, cloud, queue
  <2> QED BY <2>1, <2>2, <2>3, <2>4, <1>c, <1>0, TypeFrom, Zenon
<1>5. ASSUME UserDelete PROVE TypeOK'
  <2>1. PICK l \in {"live", "deleting", "gone"} : Commit([cr EXCEPT !.life = l])
    BY <1>5 DEF UserDelete
  <2>2. [cr EXCEPT !.life = l] \in Config /\ [cr EXCEPT !.life = l].rv = cr.rv
    BY <1>0 DEF Config
  <2>3. UNCHANGED <<cache, state, upstream, origin, queued, delayed, pc, orig, obj,
                    err, secret, outside, faults, crashes>>
    BY <1>5 DEF UserDelete, cloud, queue
  <2> QED BY <2>1, <2>2, <2>3, <1>c, <1>0, TypeFrom, Zenon
<1>6. ASSUME UserCreate PROVE TypeOK'
  <2>1. PICK r, o : /\ r \subseteq ClusterIds
                    /\ o \in NewConfigs(cr.rv, cr.uid + 1, r) /\ Commit(o)
    BY <1>6 DEF UserCreate
  <2>2. cr.rv \in Nat /\ cr.uid + 1 \in Nat
    <3>1. cr.rv \in Nat /\ cr.uid \in Nat
      BY <1>0, ConfigFields, Zenon
    <3> QED BY <3>1
  <2>3. o \in Config
    BY <2>1, <2>2, NewConfigsType, Zenon
  <2>4. o.rv = cr.rv
    BY <2>1 DEF NewConfigs
  <2>5. UNCHANGED <<cache, state, upstream, origin, queued, delayed, pc, orig, obj,
                    err, secret, outside, faults, crashes>>
    BY <1>6 DEF UserCreate, cloud, queue
  <2> QED BY <2>1, <2>3, <2>4, <2>5, <1>c, <1>0, TypeFrom, Zenon
<1>7. ASSUME Collect PROVE TypeOK'
  <2>1. /\ secret' = 0
        /\ UNCHANGED <<cr, watch, cache, state, upstream, origin, queued, delayed,
                       pc, orig, obj, err, outside, faults, crashes>>
    BY <1>7 DEF Collect, store, cloud, queue
  <2> QED BY <2>1, <1>0, TypeFrom
<1>8. ASSUME NEW c \in ClusterIds, CloudStep(c) \/ CloudDisturbed(c) PROVE TypeOK'
  <2>1. state' \in [ClusterIds -> States] /\ UNCHANGED <<upstream, origin>>
    BY <1>0, <1>8 DEF CloudStep, CloudDisturbed, Evolve, Disturb, SetState, States
  <2>2. outside' \in Nat
    BY <1>0, <1>n, <1>8, Zenon DEF CloudStep, CloudDisturbed
  <2>3. UNCHANGED <<cr, watch, cache, queued, delayed, pc, orig, obj, err, secret,
                    faults, crashes>>
    BY <1>8 DEF CloudStep, CloudDisturbed, store, queue
  <2> QED BY <2>1, <2>2, <2>3, <1>0, TypeFrom, Zenon
<1> QED
  BY <1>1, <1>2, <1>3, <1>4, <1>5, <1>6, <1>7, <1>8, Zenon DEF Environment

LEMMA NextSplits == Next <=> Worker \/ Environment
BY Zenon DEF Next, World, Environment

LEMMA StutterType ==
  ASSUME TypeOK, UNCHANGED vars
  PROVE  TypeOK'
BY DEF vars, TypeOK, StoreTypeOK, CloudTypeOK

\* Every variable stays in its range, for any number of clusters and pools
\* and any bounds: no handler writes a phase or a message of another kind.
THEOREM TypeCorrect == Spec => []TypeOK
<1>1. Init => TypeOK
  BY TypeInit
<1>2. TypeOK /\ [Next]_vars => TypeOK'
  BY WorkerType, EnvironmentType, StutterType, NextSplits, Zenon
<1> QED BY <1>1, <1>2, PTL DEF Spec
=============================================================================
