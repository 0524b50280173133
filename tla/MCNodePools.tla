----------------------------- MODULE MCNodePools -----------------------------
(***************************************************************************)
(* NodePools and its invariant on small lists: up to three pools, of up to *)
(* two nodes.                                                              *)
(***************************************************************************)
EXTENDS PoolsInvariant

E(name, platform, count) == [name |-> name, platform |-> platform, count |-> count]

\* Growing, shrinking, adding, replacing, emptying, another platform, and two
\* entries of one name.
MCLists == {<<E("default-nodepool", "linux", 2)>>,
            <<E("default-nodepool", "linux", 0), E("a", "linux", 2)>>,
            <<E("a", "windows", 1)>>,
            <<E("a", "linux", 0), E("a", "linux", 1)>>}
=============================================================================
