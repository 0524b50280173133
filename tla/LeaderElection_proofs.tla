----------------------- MODULE LeaderElection_proofs -----------------------
(***************************************************************************)
(* At most one process leads, for any number of processes, any durations   *)
(* that main.go's keep the order of, and any number of faults.             *)
(*                                                                         *)
(* OneLeads is not inductive: what keeps a waiting process out is that it  *)
(* has not known the leader's record for as long as the lease lasts.       *)
(***************************************************************************)
EXTENDS LeaderElection, TLAPS

\* Whoever knows a leader's record first saw it after the leader renewed it.
SeenLater ==
  \A p, q \in Processes :
    stage[p] = "leading" /\ q # p /\ knows[q] => since[q] <= age[p]

\* Whoever is about to write over the present record found it free.
AskedWhenFree ==
  \A p \in Processes : asking[p] /\ knows[p] => Free(p, since[p])

IInv == TypeOK /\ LeaderHolds /\ SeenLater /\ AskedWhenFree

\* A process that asks for the present record meets no other leader.
LEMMA NobodyInTheWay ==
  ASSUME IInv, NEW p \in Processes, asking[p], knows[p],
         NEW q \in Processes, stage[q] = "leading"
  PROVE  q = p
<1> SUFFICES ASSUME q # p PROVE FALSE
  OBVIOUS
<1>1. holder = q
  BY DEF IInv, LeaderHolds
<1>2. since[p] >= LeaseDuration
  BY <1>1, ElectionAssumption DEF IInv, AskedWhenFree, Free
<1>3. since[p] <= age[q]
  BY DEF IInv, SeenLater
<1>4. age[q] <= Deadline /\ age[q] \in Nat /\ since[p] \in Nat
  BY ElectionAssumption DEF IInv, TypeOK, Deadline
<1>5. Deadline < LeaseDuration /\ Deadline \in Nat /\ LeaseDuration \in Nat
  BY ElectionAssumption DEF Deadline
<1> QED
  BY <1>2, <1>3, <1>4, <1>5

\* There is one leader, since each leader is the holder.
LEMMA OneHolds == ASSUME IInv PROVE OneLeads
BY DEF IInv, LeaderHolds, OneLeads

LEMMA Numbers ==
  /\ LeaseDuration \in Nat /\ RetryPeriod \in Nat /\ RenewDeadline \in Nat
  /\ Delay \in Nat /\ MaxFaults \in Nat /\ MaxSignals \in Nat
  /\ Deadline \in Nat /\ Deadline < LeaseDuration
BY ElectionAssumption DEF Deadline

LEMMA InitInvariant == ASSUME Init PROVE IInv
BY Numbers DEF Init, IInv, TypeOK, LeaderHolds, SeenLater, AskedWhenFree, Stages

LEMMA StartKeeps == ASSUME IInv, NEW p \in Processes, Start(p) PROVE IInv'
BY Numbers
DEF IInv, TypeOK, LeaderHolds, SeenLater, AskedWhenFree, Free, Stages, Start,
    Enter, record

LEMMA ReadKeeps == ASSUME IInv, NEW p \in Processes, Read(p) PROVE IInv'
<1> DEFINE seen == IF knows[p] THEN since[p] ELSE 0
<1>1. /\ since' = [since EXCEPT ![p] = seen]
      /\ knows' = [knows EXCEPT ![p] = TRUE]
      /\ asking' = [asking EXCEPT ![p] = Free(p, seen)]
      /\ UNCHANGED <<stage, signalled, syncing, holder, age, faults, signals>>
  BY DEF Read
<1>2. seen \in 0 .. LeaseDuration
  BY Numbers DEF IInv, TypeOK
<1>3. Free(p, seen) \in BOOLEAN
  BY DEF Free
<1>4. TypeOK'
  BY <1>1, <1>2, <1>3 DEF IInv, TypeOK
<1>5. LeaderHolds'
  BY <1>1 DEF IInv, LeaderHolds
<1>6. SeenLater'
  <2> SUFFICES ASSUME NEW r \in Processes, NEW q \in Processes,
                      stage[r] = "leading", q # r, knows'[q]
               PROVE  since'[q] <= age[r]
    BY <1>1 DEF SeenLater
  <2>1. CASE q = p /\ ~knows[p]
    <3>1. since'[q] = 0
      BY <2>1, <1>1 DEF IInv, TypeOK
    <3> QED
      BY <3>1, Numbers DEF IInv, TypeOK
  <2>2. CASE ~(q = p /\ ~knows[p])
    <3>1. knows[q] /\ since'[q] = since[q]
      BY <2>2, <1>1 DEF IInv, TypeOK
    <3> QED
      BY <3>1 DEF IInv, SeenLater
  <2> QED
    BY <2>1, <2>2
<1>7. AskedWhenFree'
  <2> SUFFICES ASSUME NEW q \in Processes, asking'[q], knows'[q]
               PROVE  Free(q, since[q])'
    BY DEF AskedWhenFree
  <2>1. CASE q = p
    <3>1. Free(p, seen) /\ since'[p] = seen
      BY <2>1, <1>1 DEF IInv, TypeOK
    <3> QED
      BY <3>1, <2>1, <1>1 DEF Free
  <2>2. CASE q # p
    BY <2>2, <1>1 DEF IInv, TypeOK, AskedWhenFree, Free
  <2> QED
    BY <2>1, <2>2
<1> QED
  BY <1>4, <1>5, <1>6, <1>7 DEF IInv

LEMMA AcquireKeeps == ASSUME IInv, NEW p \in Processes, Acquire(p) PROVE IInv'
<1>1. /\ asking[p] /\ asking' = [asking EXCEPT ![p] = FALSE]
      /\ UNCHANGED <<signalled, syncing, signals>>
  BY DEF Acquire
<1>2. CASE /\ knows[p] /\ Write(p, p) /\ Enter(p, "leading")
           /\ since' = [since EXCEPT ![p] = 0] /\ age' = [age EXCEPT ![p] = 0]
           /\ UNCHANGED faults
  <2>1. \A q \in Processes : stage'[q] = "leading" => q = p
    BY <1>1, <1>2, NobodyInTheWay DEF Enter, IInv, TypeOK
  <2>2. holder' = p /\ \A q \in Processes : knows'[q] = (q = p)
    BY <1>2 DEF Write
  <2>3. TypeOK'
    BY <1>1, <1>2, Numbers DEF IInv, TypeOK, Write, Enter, Stages
  <2>4. LeaderHolds' /\ SeenLater'
    BY <2>1, <2>2 DEF LeaderHolds, SeenLater
  <2>5. AskedWhenFree'
    BY <1>1, <2>2 DEF AskedWhenFree, IInv, TypeOK
  <2> QED
    BY <2>3, <2>4, <2>5 DEF IInv
<1>3. CASE ~knows[p] /\ UNCHANGED <<stage, record, since, age, faults>>
  BY <1>1, <1>3
  DEF IInv, TypeOK, LeaderHolds, SeenLater, AskedWhenFree, Free, record
<1>4. CASE Fault /\ UNCHANGED <<stage, since, age>> /\ UNCHANGED record
  BY <1>1, <1>4
  DEF IInv, TypeOK, LeaderHolds, SeenLater, AskedWhenFree, Free, record, Fault
<1>5. CASE Fault /\ UNCHANGED <<stage, since, age>> /\ knows[p] /\ WriteUnheard(p)
  <2>1. holder' = p /\ \A q \in Processes : ~knows'[q]
    BY <1>5 DEF WriteUnheard
  <2>2. TypeOK'
    BY <1>1, <1>5 DEF IInv, TypeOK, WriteUnheard, Fault
  <2>3. LeaderHolds'
    BY <1>1, <1>5, <2>1, NobodyInTheWay DEF LeaderHolds
  <2>4. SeenLater' /\ AskedWhenFree'
    BY <2>1 DEF SeenLater, AskedWhenFree
  <2> QED
    BY <2>2, <2>3, <2>4 DEF IInv
<1> QED
  BY <1>2, <1>3, <1>4, <1>5 DEF Acquire

LEMMA SignalKeeps == ASSUME IInv, NEW p \in Processes, Signal(p) PROVE IInv'
BY Numbers
DEF IInv, TypeOK, LeaderHolds, SeenLater, AskedWhenFree, Free, Signal, record

LEMMA StopKeeps == ASSUME IInv, NEW p \in Processes, Stop(p) PROVE IInv'
<1>1. /\ stage' = [stage EXCEPT ![p] = "stopping"]
      /\ asking' = [asking EXCEPT ![p] = FALSE] /\ age' = [age EXCEPT ![p] = 0]
      /\ UNCHANGED <<signalled, syncing, holder, knows, since, faults, signals>>
  BY DEF Stop, Enter, record
<1>2. TypeOK'
  BY <1>1, Numbers DEF IInv, TypeOK, Stages
<1>3. \A q \in Processes : stage'[q] = "leading" => q # p /\ stage[q] = "leading"
  BY <1>1 DEF IInv, TypeOK
<1>4. LeaderHolds' /\ SeenLater'
  BY <1>1, <1>3 DEF IInv, TypeOK, LeaderHolds, SeenLater
<1>5. AskedWhenFree'
  BY <1>1 DEF IInv, TypeOK, AskedWhenFree, Free
<1> QED
  BY <1>2, <1>4, <1>5 DEF IInv

LEMMA ReleaseKeeps == ASSUME IInv, NEW p \in Processes, Release(p) PROVE IInv'
<1>1. /\ stage[p] = "stopping" /\ stage' = [stage EXCEPT ![p] = "leaving"]
      /\ UNCHANGED <<signalled, syncing, since, asking, age, signals>>
  BY DEF Release, Enter
<1>2. \A q \in Processes : stage'[q] = "leading" => q # p /\ stage[q] = "leading"
  BY <1>1 DEF IInv, TypeOK
<1>3. CASE UNCHANGED record /\ faults' \in Nat
  BY <1>1, <1>2, <1>3
  DEF IInv, TypeOK, LeaderHolds, SeenLater, AskedWhenFree, Free, record, Stages
<1>4. CASE /\ knows[p] /\ holder = p /\ faults' \in Nat
           /\ Write(p, Nobody) \/ WriteUnheard(Nobody)
  <2>1. holder' = Nobody /\ \A q \in Processes : knows'[q] => q = p
    BY <1>4 DEF Write, WriteUnheard
  <2>2. \A q \in Processes : stage'[q] # "leading"
    BY <1>2, <1>4 DEF IInv, LeaderHolds
  <2>3. TypeOK'
    BY <1>1, <1>4 DEF IInv, TypeOK, Write, WriteUnheard, Stages
  <2>4. LeaderHolds' /\ SeenLater'
    BY <2>2 DEF LeaderHolds, SeenLater
  <2>5. AskedWhenFree'
    BY <2>1 DEF AskedWhenFree, Free
  <2> QED
    BY <2>3, <2>4, <2>5 DEF IInv
<1>5. Fault => faults' \in Nat
  BY DEF Fault, IInv, TypeOK
<1>6. UNCHANGED faults => faults' \in Nat
  BY DEF IInv, TypeOK
<1> QED
  BY <1>3, <1>4, <1>5, <1>6 DEF Release, record

LEMMA VanishKeeps ==
  ASSUME IInv, NEW p \in Processes, Vanish(p), faults' \in Nat PROVE IInv'
<1>1. /\ stage' = [stage EXCEPT ![p] = "off"]
      /\ holder' = IF holder = p THEN Dead ELSE holder
      /\ knows' = [knows EXCEPT ![p] = FALSE] /\ since' = [since EXCEPT ![p] = 0]
      /\ asking' = [asking EXCEPT ![p] = FALSE] /\ age' = [age EXCEPT ![p] = 0]
  BY DEF Vanish, Enter
<1>2. TypeOK'
  BY <1>1, Numbers DEF IInv, TypeOK, Vanish, Stages
<1>3. \A q \in Processes : stage'[q] = "leading" => q # p /\ stage[q] = "leading"
  BY <1>1 DEF IInv, TypeOK
<1>4. LeaderHolds'
  BY <1>1, <1>3 DEF IInv, LeaderHolds
<1>5. SeenLater'
  <2> SUFFICES ASSUME NEW r \in Processes, NEW q \in Processes,
                      stage'[r] = "leading", q # r, knows'[q]
               PROVE  since'[q] <= age'[r]
    BY DEF SeenLater
  <2>1. q # p /\ r # p /\ knows[q] /\ stage[r] = "leading"
    BY <1>1, <1>3 DEF IInv, TypeOK
  <2> QED
    BY <2>1, <1>1 DEF IInv, TypeOK, SeenLater
<1>6. AskedWhenFree'
  <2> SUFFICES ASSUME NEW q \in Processes, asking'[q], knows'[q]
               PROVE  Free(q, since[q])'
    BY DEF AskedWhenFree
  <2>1. q # p /\ asking[q] /\ knows[q] /\ since'[q] = since[q]
    BY <1>1 DEF IInv, TypeOK
  <2>2. Free(q, since[q])
    BY <2>1 DEF IInv, AskedWhenFree
  <2> QED
    BY <2>1, <2>2, <1>1, ElectionAssumption DEF Free
<1> QED
  BY <1>2, <1>4, <1>5, <1>6 DEF IInv

LEMMA ExitKeeps == ASSUME IInv, NEW p \in Processes, Exit(p) PROVE IInv'
BY VanishKeeps DEF Exit, IInv, TypeOK

LEMMA CrashKeeps == ASSUME IInv, NEW p \in Processes, Crash(p) PROVE IInv'
<1>1. faults' \in Nat
  BY DEF Crash, Fault, IInv, TypeOK
<1> QED
  BY <1>1, VanishKeeps DEF Crash

LEMMA SyncKeeps == ASSUME IInv, NEW p \in Processes, Sync(p) PROVE IInv'
BY DEF IInv, TypeOK, LeaderHolds, SeenLater, AskedWhenFree, Free, Sync, record

LEMMA TickKeeps == ASSUME IInv, Tick PROVE IInv'
<1>1. /\ \A p \in Processes : stage[p] = "leading" => age[p] < Deadline
      /\ age' = [p \in Processes |->
                   IF stage[p] = "leading" THEN age[p] + 1 ELSE age[p]]
      /\ since' = [p \in Processes |->
                     IF knows[p] /\ since[p] < LeaseDuration THEN since[p] + 1
                     ELSE since[p]]
      /\ UNCHANGED <<stage, signalled, syncing, holder, knows, asking, faults, signals>>
  BY DEF Tick, Aged, record
<1>2. \A p \in Processes : since[p] \in Nat /\ age[p] \in Nat
                           /\ since[p] <= LeaseDuration /\ age[p] <= Deadline
  BY Numbers DEF IInv, TypeOK
<1>3. age' \in [Processes -> 0 .. Deadline]
  BY <1>1, <1>2, Numbers
<1>4. since' \in [Processes -> 0 .. LeaseDuration]
  BY <1>1, <1>2, Numbers
<1>5. TypeOK'
  BY <1>1, <1>3, <1>4 DEF IInv, TypeOK
<1>6. LeaderHolds'
  BY <1>1 DEF IInv, LeaderHolds
<1>7. SeenLater'
  <2> SUFFICES ASSUME NEW r \in Processes, NEW q \in Processes,
                      stage[r] = "leading", q # r, knows[q]
               PROVE  since'[q] <= age'[r]
    BY <1>1 DEF SeenLater
  <2>1. since[q] <= age[r]
    BY DEF IInv, SeenLater
  <2>2. age'[r] = age[r] + 1 /\ since'[q] <= since[q] + 1 /\ since'[q] \in Nat
    BY <1>1, <1>2
  <2> QED
    BY <2>1, <2>2, <1>2
<1>8. AskedWhenFree'
  <2> SUFFICES ASSUME NEW q \in Processes, asking[q], knows[q]
               PROVE  Free(q, since[q])'
    BY <1>1 DEF AskedWhenFree
  <2>1. Free(q, since[q])
    BY DEF IInv, AskedWhenFree
  <2>2. since'[q] >= since[q] /\ since'[q] \in Nat
    BY <1>1, <1>2
  <2> QED
    BY <2>1, <2>2, <1>1, <1>2, Numbers DEF Free
<1> QED
  BY <1>5, <1>6, <1>7, <1>8 DEF IInv

LEMMA StepKeeps == ASSUME IInv, [Next]_vars PROVE IInv'
<1>1. CASE UNCHANGED vars
  BY <1>1
  DEF vars, IInv, TypeOK, LeaderHolds, SeenLater, AskedWhenFree, Free
<1>2. CASE Tick
  BY <1>2, TickKeeps
<1>3. ASSUME NEW p \in Processes, Process(p) PROVE IInv'
  BY <1>3, StartKeeps, ReadKeeps, AcquireKeeps, SignalKeeps, StopKeeps,
     ReleaseKeeps, ExitKeeps, CrashKeeps, SyncKeeps DEF Process
<1> QED
  BY <1>1, <1>2, <1>3 DEF Next

\* main.go:123-139: the process that OnStartedLeading was called in is the only
\* one, until its OnStoppedLeading, whatever requests fail or go unanswered.
THEOREM AtMostOneLeads == Spec => []OneLeads
<1>1. Init => IInv
  BY InitInvariant
<1>2. IInv /\ [Next]_vars => IInv'
  BY StepKeeps
<1>3. IInv => OneLeads
  BY OneHolds
<1> QED
  BY <1>1, <1>2, <1>3, PTL DEF Spec

\* main.go:133-135: the lease of a process that leads is not taken from it.
THEOREM LeadersHoldTheLease == Spec => []LeaderHolds
<1>1. Init => IInv
  BY InitInvariant
<1>2. IInv /\ [Next]_vars => IInv'
  BY StepKeeps
<1>3. IInv => LeaderHolds
  BY DEF IInv
<1> QED
  BY <1>1, <1>2, <1>3, PTL DEF Spec

\* main.go:119-139: every process is at one of its stages and every timer holds
\* a number, whatever processes there are and however long the durations.
THEOREM TypeCorrect == Spec => []TypeOK
<1>1. Init => IInv
  BY InitInvariant
<1>2. IInv /\ [Next]_vars => IInv'
  BY StepKeeps
<1>3. IInv => TypeOK
  BY DEF IInv
<1> QED
  BY <1>1, <1>2, <1>3, PTL DEF Spec
=============================================================================
