------------------------- MODULE LifecycleInvariant -------------------------
(***************************************************************************)
(* Why ClusterLifecycle keeps its promises: an inductive invariant.        *)
(*                                                                         *)
(* Nothing is said of old copies of the config but that they are older.  A *)
(* write made from one is refused, so what matters is how far a copy with  *)
(* the stored version may differ from what is stored: in memory it may be  *)
(* named, be "updating", or have its imported pools, before the store is.  *)
(***************************************************************************)
EXTENDS ClusterLifecycle

\* What a copy o with the stored version shares with the stored config c.
Current(o, c) ==
  /\ o.uid = c.uid /\ o.life = c.life
  /\ o.phase = c.phase \/ (o.phase = "updating" /\ c.phase = "active")
  /\ \/ o.clusterId = c.clusterId
     \/ c.clusterId = NoCluster /\ c.phase = "" /\ c.life = "live"
  /\ o.pools = c.pools \/ c.phase = "importing"

\* o is c or older, maybe of an earlier uid.
Earlier(o, c) ==
  /\ o.rv <= c.rv
  /\ o.uid <= c.uid
  /\ o.uid = c.uid /\ o.life # "live" => c.life # "live"

Copy(o, c) == Earlier(o, c) /\ (o.rv = c.rv => Current(o, c))

\* The cluster a config names was made for that config; st and og are the
\* states and the origins of the clusters.
Owns(o, st, og) ==
  ~Imported /\ o.clusterId # NoCluster =>
    st[o.clusterId] # "unused" /\ og[o.clusterId].uid = o.uid

Tracked(o, c, st, og) == Copy(o, c) /\ Owns(o, st, og)

StoreOK ==
  /\ cr.rv > 0 /\ cr.uid > 0 /\ Owns(cr, state, origin)
  /\ \A v \in watch : Tracked(v, cr, state, origin) /\ v.uid > 0
  /\ Tracked(cache, cr, state, origin) /\ cache.uid > 0
  /\ \A c \in ClusterIds : origin[c].uid <= cr.uid

SyncOK ==
  /\ Tracked(orig, cr, state, origin)
  /\ Tracked(obj, cr, state, origin)
  /\ pc # "idle" => orig.uid > 0

\* What the sync knows of its object at each point.
PointOK ==
  /\ pc \notin {"idle", "remove", "removeCall", "removeFinalizer"} =>
       obj.life = "live"
  /\ pc \notin {"idle", "remove", "addFinalizer", "removeCall", "removeFinalizer"} =>
       orig.life = "live"
  /\ pc = "importing" => Imported /\ obj.phase = ""
  /\ pc \in {"createCall", "createUpdate", "createStatus"} =>
       ~Imported /\ obj.phase = ""
  /\ pc = "createCall" => orig = obj /\ obj.clusterId = NoCluster
  /\ pc \in {"createUpdate", "createStatus"} => obj.clusterId # NoCluster
  /\ pc = "createStatus" /\ obj.rv = cr.rv => obj.clusterId = cr.clusterId
  /\ pc \in {"importGet", "importPools", "importUpdate"} => obj.phase = "importing"
  /\ pc = "waitGet" => obj.phase = "creating"
  /\ pc = "caSecret" => obj.phase \in {"creating", "importing"}
  /\ pc = "activeStatus" => obj.phase # ""
  /\ pc \in {"checkGet", "checkFence", "checkPools", "batch", "changedUpdate"} =>
       obj.phase \in {"active", "updating"}
  /\ pc \in {"checkStatus", "poolsStatus"} => obj.phase = "active"
  /\ pc = "finishUpdate" => obj.phase = "updating"
  /\ pc \in {"removeCall", "removeFinalizer"} => obj.life = "deleting"
  /\ pc = "removeCall" => obj.uid > 0 /\ ~Spared(obj)
  /\ pc = "removeFinalizer" =>
       \/ Spared(obj)
       \/ obj.clusterId \in ClusterIds /\ state[obj.clusterId] \in {"deleting", "deleted"}

IInv == TypeOK /\ StoreOK /\ SyncOK /\ PointOK /\ NoUnaskedDelete
=============================================================================
