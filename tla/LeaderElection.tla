--------------------------- MODULE LeaderElection ---------------------------
(***************************************************************************)
(* main.go: several operator processes, of which the holder of a lease     *)
(* runs the handlers.  The election itself is client-go's (RunOrDie with a *)
(* config map as lock), modelled from the configuration main.go gives it;  *)
(* every read and every write of the lease record is a step of its own.    *)
(*                                                                         *)
(* Time passes in ticks.  A process measures time by its own clock, from   *)
(* when it first saw the present record or last renewed it, so clocks need *)
(* not agree.  A record counts as new each time it is written.             *)
(***************************************************************************)
EXTENDS Naturals

CONSTANTS
  Processes,      \* the operator's processes, one at a time in each place
  Nobody,         \* the holder of a released record, or of one never written
  Dead,           \* a holder whose process is gone: identities are not reused
  LeaseDuration, RenewDeadline, RetryPeriod,  \* as in main.go, in ticks
  Delay,          \* how late a renewal timer may be handled
  MaxFaults,      \* bound on requests that fail or whose answer is lost, and crashes
  MaxSignals      \* bound on termination signals

\* main.go has 60, 15 and 5 seconds.
ASSUME ElectionAssumption ==
  /\ Nobody \notin Processes /\ Dead \notin Processes
  /\ {LeaseDuration, RenewDeadline, RetryPeriod, Delay, MaxFaults, MaxSignals}
       \subseteq Nat
  /\ RetryPeriod + RenewDeadline + Delay < LeaseDuration

VARIABLES
  stage,      \* where each process is
  signalled,  \* it was told to terminate: ctx is cancelled
  syncing,    \* one of its workers is inside a handler
  holder,     \* HolderIdentity of the record
  knows,      \* the record a process read or wrote last is still the present one
  since,      \* how long ago it first saw that record, at most LeaseDuration
  asking,     \* it read the record and is about to write its own name
  age,        \* how long ago a leading process renewed the lease
  faults, signals  \* how much of each bound is spent

record == <<holder, knows>>
vars   == <<stage, signalled, syncing, holder, knows, since, asking, age,
            faults, signals>>

\* off, acquiring the lease, renewing it, about to release it, about to exit.
Stages == {"off", "waiting", "leading", "stopping", "leaving"}

Init ==
  /\ stage = [p \in Processes |-> "off"]
  /\ signalled = [p \in Processes |-> FALSE]
  /\ syncing = [p \in Processes |-> FALSE]
  /\ holder = Nobody
  /\ knows = [p \in Processes |-> FALSE]
  /\ since = [p \in Processes |-> 0]
  /\ asking = [p \in Processes |-> FALSE]
  /\ age = [p \in Processes |-> 0]
  /\ faults = 0 /\ signals = 0

Fault == faults < MaxFaults /\ faults' = faults + 1

Enter(p, s) == stage' = [stage EXCEPT ![p] = s]

\* main: the process starts, with an identity of its own.
Start(p) ==
  /\ stage[p] = "off" /\ Enter(p, "waiting")
  /\ UNCHANGED <<signalled, syncing, record, since, asking, age, faults, signals>>

-----------------------------------------------------------------------------
(* The lease record.                                                       *)

\* p's name, or no name, is written over the record p knows.
Write(p, name) == holder' = name /\ knows' = [q \in Processes |-> q = p]

\* The same, but p gets no answer.
WriteUnheard(name) == holder' = name /\ knows' = [q \in Processes |-> FALSE]

\* Mutants of Free: any record may be taken over, or only a released one.
FreeAlways(p, seen) == TRUE
FreeReleased(p, seen) == holder \in {Nobody, p}

\* A record first seen so long ago may be taken over by p.
Free(p, seen) == holder \in {Nobody, p} \/ seen >= LeaseDuration

\* The process reads the record, and will write it when it is free.
Read(p) ==
  LET seen == IF knows[p] THEN since[p] ELSE 0 IN
  /\ stage[p] \in {"waiting", "leading"} /\ ~asking[p]
  /\ since' = [since EXCEPT ![p] = seen]
  /\ knows' = [knows EXCEPT ![p] = TRUE]
  /\ asking' = [asking EXCEPT ![p] = Free(p, seen)]
  /\ UNCHANGED <<stage, signalled, syncing, holder, age, faults, signals>>

\* It writes its name: accepted when nobody wrote in between.
Acquire(p) ==
  /\ asking[p] /\ asking' = [asking EXCEPT ![p] = FALSE]
  /\ \/ /\ knows[p] /\ Write(p, p) /\ Enter(p, "leading")
        /\ since' = [since EXCEPT ![p] = 0] /\ age' = [age EXCEPT ![p] = 0]
        /\ UNCHANGED faults
     \/ ~knows[p] /\ UNCHANGED <<stage, record, since, age, faults>>
     \/ /\ Fault /\ UNCHANGED <<stage, since, age>>
        /\ UNCHANGED record \/ (knows[p] /\ WriteUnheard(p))
  /\ UNCHANGED <<signalled, syncing, signals>>

\* By when a leader that could not renew the lease has stopped trying.
Deadline == RetryPeriod + RenewDeadline + Delay

-----------------------------------------------------------------------------
(* The end of a process.                                                   *)

\* SIGTERM cancels ctx.
Signal(p) ==
  /\ stage[p] # "off" /\ ~signalled[p]
  /\ signals < MaxSignals /\ signals' = signals + 1
  /\ signalled' = [signalled EXCEPT ![p] = TRUE]
  /\ UNCHANGED <<stage, syncing, record, since, asking, age, faults>>

\* The renewals end: a signal came, or the deadline passed.
Stop(p) ==
  /\ stage[p] = "leading" /\ (signalled[p] \/ age[p] >= RetryPeriod + RenewDeadline)
  /\ Enter(p, "stopping")
  /\ asking' = [asking EXCEPT ![p] = FALSE] /\ age' = [age EXCEPT ![p] = 0]
  /\ UNCHANGED <<signalled, syncing, record, since, faults, signals>>

\* ReleaseOnCancel: the record is cleared if it is still p's own.  The request
\* has no deadline; a failure is ignored.  The workers are still running.
Release(p) ==
  LET mine == knows[p] /\ holder = p IN
  /\ stage[p] = "stopping" /\ Enter(p, "leaving")
  /\ \/ mine /\ Write(p, Nobody) /\ UNCHANGED faults
     \/ ~mine /\ UNCHANGED <<record, faults>>
     \/ Fault /\ (UNCHANGED record \/ (mine /\ WriteUnheard(Nobody)))
  /\ UNCHANGED <<signalled, syncing, since, asking, age, signals>>

\* The process is gone, and with it its identity.
Vanish(p) ==
  /\ Enter(p, "off")
  /\ signalled' = [signalled EXCEPT ![p] = FALSE]
  /\ syncing' = [syncing EXCEPT ![p] = FALSE]
  /\ holder' = IF holder = p THEN Dead ELSE holder
  /\ knows' = [knows EXCEPT ![p] = FALSE] /\ since' = [since EXCEPT ![p] = 0]
  /\ asking' = [asking EXCEPT ![p] = FALSE] /\ age' = [age EXCEPT ![p] = 0]
  /\ UNCHANGED signals

\* Mutant of Exit: the process waits for a leader that went before it.
ExitLeader(p) == stage[p] = "leaving" /\ Vanish(p) /\ UNCHANGED faults

\* OnStoppedLeading, also called when a signal ends the wait for the lease.
Exit(p) ==
  /\ stage[p] = "leaving" \/ (stage[p] = "waiting" /\ signalled[p])
  /\ Vanish(p) /\ UNCHANGED faults

Crash(p) == stage[p] # "off" /\ Vanish(p) /\ Fault

-----------------------------------------------------------------------------
(* run: the workers of a process that leads, and those of one that did,    *)
(* which end with the process only.                                        *)

Working(p) == stage[p] \in {"leading", "stopping", "leaving"}

Sync(p) ==
  /\ Working(p)
  /\ syncing' = [syncing EXCEPT ![p] = ~@]
  /\ UNCHANGED <<stage, signalled, record, since, asking, age, faults, signals>>

Aged ==
  /\ age' = [p \in Processes |->
               IF stage[p] = "leading" THEN age[p] + 1 ELSE age[p]]
  /\ since' = [p \in Processes |->
                 IF knows[p] /\ since[p] < LeaseDuration THEN since[p] + 1 ELSE since[p]]
  /\ UNCHANGED <<stage, signalled, syncing, record, asking, faults, signals>>

\* Mutant of Tick: RenewDeadline is not observed.
TickUnlimited == Aged

\* Time passes, but not beyond the deadline of a leader.
Tick == Aged /\ \A p \in Processes : stage[p] = "leading" => age[p] < Deadline

Process(p) ==
  \/ Start(p) \/ Read(p) \/ Acquire(p) \/ Signal(p) \/ Stop(p)
  \/ Release(p) \/ Exit(p) \/ Crash(p) \/ Sync(p)

Next == Tick \/ \E p \in Processes : Process(p)

Spec == Init /\ [][Next]_vars

\* Running processes go on, and so does time.
Fairness ==
  /\ WF_vars(Tick)
  /\ \A p \in Processes :
       WF_vars(Read(p) \/ Acquire(p)) /\ WF_vars(Stop(p) \/ Release(p) \/ Exit(p))

FairSpec == Spec /\ Fairness

-----------------------------------------------------------------------------
TypeOK ==
  /\ stage \in [Processes -> Stages]
  /\ signalled \in [Processes -> BOOLEAN]
  /\ syncing \in [Processes -> BOOLEAN]
  /\ holder \in Processes \cup {Nobody, Dead}
  /\ knows \in [Processes -> BOOLEAN]
  /\ since \in [Processes -> 0 .. LeaseDuration]
  /\ asking \in [Processes -> BOOLEAN]
  /\ age \in [Processes -> 0 .. Deadline]
  /\ faults \in Nat /\ signals \in Nat

\* Two processes never both take themselves for the leader, whatever requests
\* fail, cross or go unanswered: two can be working only while one of them is
\* on its way to its exit.
OneLeads ==
  \A p, q \in Processes : stage[p] = "leading" /\ stage[q] = "leading" => p = q

\* A leader's lease is not taken from it: the record is its own until it stops.
LeaderHolds == \A p \in Processes : stage[p] = "leading" => holder = p

\* While a process waits for the lease it gets it, or another one leads, in the
\* end: the lease of a crashed leader runs out.
WaitingIsServed ==
  \A p \in Processes :
    stage[p] = "waiting" ~> stage[p] = "off" \/ \E q \in Processes : stage[q] = "leading"

\* A process that is told to terminate, or lost its lease, ends.
Ends ==
  \A p \in Processes : signalled[p] \/ stage[p] = "stopping" ~> stage[p] = "off"
=============================================================================
