-------------------------- MODULE MCLeaderElection --------------------------
(***************************************************************************)
(* LeaderElection with a few processes and short times, and what a comment *)
(* of main.go says of it.                                                  *)
(***************************************************************************)
EXTENDS LeaderElection

\* "you MUST ensure that any code you have that is protected by the lease must
\* terminate **before** you call cancel" (main.go:126-131): no two processes are
\* ever inside a handler at once.
WorkEndsBeforeRelease ==
  \A p, q \in Processes : syncing[p] /\ syncing[q] => p = q
=============================================================================
