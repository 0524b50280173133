------------------------------ MODULE Handover ------------------------------
(***************************************************************************)
(* One ACKClusterConfig passes from one operator process to the next.  On  *)
(* a signal ctx is cancelled: the informer of the old process stops and    *)
(* its work queue takes nothing more, but what is queued and what is being *)
(* done is finished (main.go:93 waits for nothing), while the lease is     *)
(* already released (main.go:132) and the new process at work.             *)
(*                                                                         *)
(* Each process is ClusterLifecycle with a work queue and a cache of its   *)
(* own (an instance of LifecycleTracking, which adds the invariants); the  *)
(* stored config, its CA secret and the clusters are shared.  There is one *)
(* watch, that of the process that still listens.                          *)
(***************************************************************************)
EXTENDS AckTypes

CONSTANTS MaxOutside, MaxFaults, MaxUid  \* as in ClusterLifecycle

ASSUME HandoverAssumption ==
  MaxOutside \in Nat /\ MaxFaults \in Nat /\ MaxUid \in Nat \ {0}

VARIABLES
  taken,                     \* the new process has the lease
  cr, watch, state, upstream, origin, secret, outside, faults,
  oldCache, oldQueued, oldDelayed, oldPc, oldOrig, oldObj, oldErr,
  newCache, newQueued, newDelayed, newPc, newOrig, newObj, newErr

shared == <<cr, watch, state, upstream, origin, secret, outside, faults>>
oldSync == <<oldCache, oldQueued, oldDelayed, oldPc, oldOrig, oldObj, oldErr>>
newSync == <<newCache, newQueued, newDelayed, newPc, newOrig, newObj, newErr>>
vars == <<taken, shared, oldSync, newSync>>

\* The number of a process, which origin tells apart, stands for its restarts.
Old == INSTANCE LifecycleTracking
         WITH cache <- oldCache, queued <- oldQueued,
              delayed <- oldDelayed, pc <- oldPc, orig <- oldOrig,
              obj <- oldObj, err <- oldErr, crashes <- 0, MaxCrashes <- 0

New == INSTANCE LifecycleTracking
         WITH cache <- newCache, queued <- newQueued,
              delayed <- newDelayed, pc <- newPc, orig <- newOrig,
              obj <- newObj, err <- newErr, crashes <- 1, MaxCrashes <- 1

Init ==
  /\ taken = FALSE /\ Old!Init
  /\ newCache = Empty /\ newQueued = FALSE /\ newDelayed = FALSE
  /\ newPc = "idle" /\ newOrig = Empty /\ newObj = Empty /\ newErr = ""

\* Mutant of Takeover: the new process waits for something to change.
TakeoverIdle ==
  /\ ~taken /\ taken' = TRUE
  /\ watch' = {} /\ newCache' = cr
  /\ oldDelayed' = FALSE
  /\ UNCHANGED <<cr, state, upstream, origin, secret, outside, faults,
                 oldCache, oldQueued, oldPc, oldOrig, oldObj, oldErr,
                 newQueued, newDelayed, newPc, newOrig, newObj, newErr>>

\* Mutant of Takeover: its watch starts before what it listed.
TakeoverReplay ==
  /\ ~taken /\ taken' = TRUE
  /\ newCache' = cr /\ newQueued' = TRUE
  /\ oldDelayed' = FALSE
  /\ UNCHANGED <<cr, watch, state, upstream, origin, secret, outside, faults,
                 oldCache, oldQueued, oldPc, oldOrig, oldObj, oldErr,
                 newDelayed, newPc, newOrig, newObj, newErr>>

\* OnStartedLeading: the new process lists the objects and starts its workers.
Takeover ==
  /\ ~taken /\ taken' = TRUE
  /\ watch' = {} /\ newCache' = cr /\ newQueued' = TRUE
  /\ oldDelayed' = FALSE
  /\ UNCHANGED <<cr, state, upstream, origin, secret, outside, faults,
                 oldCache, oldQueued, oldPc, oldOrig, oldObj, oldErr,
                 newDelayed, newPc, newOrig, newObj, newErr>>

\* What the old process, and the world it listens to, do before.
ByOld(step) == ~taken /\ step /\ UNCHANGED <<taken, newSync>>

\* The old process finishes what it has begun.
Drain == taken /\ Old!Worker /\ UNCHANGED <<taken, newSync>>

\* OnStoppedLeading: the old process exits, wherever its worker is.
Exit ==
  /\ taken
  /\ oldCache' = Empty /\ oldQueued' = FALSE /\ oldDelayed' = FALSE
  /\ oldPc' = "idle" /\ oldOrig' = Empty /\ oldObj' = Empty /\ oldErr' = ""
  /\ UNCHANGED <<taken, shared, newSync>>

ByNew(step) == taken /\ step /\ UNCHANGED <<taken, oldSync>>

Next ==
  \/ Takeover \/ Drain \/ Exit
  \/ ByOld(Old!Worker) \/ ByOld(Old!Deliver) \/ ByOld(Old!Timer) \/ ByOld(Old!World)
  \/ ByNew(New!Worker) \/ ByNew(New!Deliver) \/ ByNew(New!Timer) \/ ByNew(New!World)

Spec == Init /\ [][Next]_vars

\* As in ClusterLifecycle, for the process that has the lease; the other one exits.
Fairness ==
  /\ WF_vars(Exit)
  /\ WF_vars(ByOld(Old!Worker)) /\ WF_vars(ByNew(New!Worker))
  /\ WF_vars(ByOld(Old!Deliver)) /\ WF_vars(ByNew(New!Deliver))
  /\ WF_vars(ByOld(Old!Timer)) /\ WF_vars(ByNew(New!Timer))
  /\ WF_vars(ByOld(Old!Collect)) /\ WF_vars(ByNew(New!Collect))
  /\ \A c \in ClusterIds :
       WF_vars(ByOld(Old!CloudStep(c))) /\ WF_vars(ByNew(New!CloudStep(c)))

FairSpec == Spec /\ Fairness

-----------------------------------------------------------------------------
\* Whoever watches the config sees phases in their order and one cluster named
\* for good, although two processes write from copies of their own.
PhasesImplemented == Old!PhasesImplemented

\* Neither process says of a cluster that it is up when the other one is still
\* making it, or has named another.
PhaseTracksCluster == Old!PhaseTracksCluster

\* Each process makes one cluster at most from a version of the config, if it was
\* told of it, although the other one overtakes its copies and makes its own.
OneClusterPerVersion == Old!OneClusterPerVersion

\* The finalizer that one process removes, from a copy that the other one may
\* have overtaken, does not leave a cluster behind.
RemovalDeletesCluster == Old!RemovalDeletesCluster

\* Whatever the old process leaves half done, the new one brings to its end.
Settles == New!Settles
=============================================================================
