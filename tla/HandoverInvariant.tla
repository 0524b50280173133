-------------------------- MODULE HandoverInvariant --------------------------
(***************************************************************************)
(* Why one process may follow another: an inductive invariant of Handover. *)
(* It is what one process knows of the config and the cloud, said of each  *)
(* of the two from when it starts until it exits.                          *)
(***************************************************************************)
EXTENDS Handover

\* The new process has not been started.
NewWaits ==
  /\ newCache = Empty /\ newQueued = FALSE /\ newDelayed = FALSE
  /\ newPc = "idle" /\ newOrig = Empty /\ newObj = Empty /\ newErr = ""

\* The old process has exited, and nothing wakes it.
OldGone ==
  /\ oldCache = Empty /\ oldQueued = FALSE /\ oldDelayed = FALSE
  /\ oldPc = "idle" /\ oldOrig = Empty /\ oldObj = Empty /\ oldErr = ""

OldTracks == Old!IInv /\ Old!TInv /\ Old!Informed
NewTracks == New!IInv /\ New!TInv /\ New!Informed

\* Whoever is at work knows the config and the cloud as if it were alone,
\* although the other one writes to both, and each of its own clusters.
HInv ==
  /\ taken \in BOOLEAN
  /\ IF taken THEN NewTracks /\ (OldTracks \/ OldGone)
              ELSE OldTracks /\ Old!NoneLater /\ NewWaits
=============================================================================
