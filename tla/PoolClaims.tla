------------------------------ MODULE PoolClaims ------------------------------
(***************************************************************************)
(* What a comment in internal/ack says of the batch and the code does not  *)
(* do, checked by a run of its own that ends in a violation.               *)
(***************************************************************************)
EXTENDS MCNodePools

\* "fix node pool id is empty after created" (internal/ack/nodepool.go:76):
\* an entry that has an id keeps it.
OnlyEmptyIdsFixed ==
  [][pc = "list" /\ pc' = "work" =>
       \A i \in DOMAIN list : list[i].id # NoId => list'[i].id = list[i].id]_vars
===============================================================================
