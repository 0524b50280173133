------------------------------ MODULE SpecFields ------------------------------
(***************************************************************************)
(* The fields of an ACKClusterConfig's spec that describe its cluster: how *)
(* a create request is made from them (internal/ack/instance.go) and how   *)
(* FixConfig copies what the cloud reports back into them                  *)
(* (controller/ack-cluster-config-handler.go), at every import and every   *)
(* update.  Phases and node pools are the business of ClusterLifecycle and *)
(* NodePools.                                                              *)
(*                                                                         *)
(* The cloud answers in texts.  What the Go library makes of one is a      *)
(* table: Split at commas, Words at blanks, Atoi, and the texts that mean  *)
(* true.                                                                   *)
(***************************************************************************)
EXTENDS Integers, Sequences, FiniteSetsExt

CONSTANTS
  Texts,       \* every text there is, "" among them
  Split, Words,\* strings.Split(t, ",") and strings.Split(t, " ")
  Atoi,        \* strconv.Atoi(t), NotNumber when it fails
  TrueTexts,   \* the texts EqualFold takes for "true"
  MaskWords,   \* the words that contain "--node-cidr-mask"
  NotNumber,
  NotText,     \* a value of another type, null included
  Absent,      \* nothing: no parameters, no outputs, no cluster, no object
  Specs,       \* the specs users write
  Clusters,    \* what clusters made or changed elsewhere report
  MaxEdits, MaxChanges, MaxFaults  \* bounds on edits, changes elsewhere, failed calls

ASSUME TablesAssumption ==
  /\ {"", "0"} \subseteq Texts /\ NotText \notin Texts
  /\ {Split, Words} \subseteq [Texts -> Seq(Texts) \ {<<>>}]
  /\ Atoi \in [Texts -> Int \cup {NotNumber}] /\ NotNumber \notin Int
  /\ Atoi[""] = NotNumber /\ Atoi["0"] = 0
  /\ TrueTexts \subseteq Texts \ {""} /\ "--node-cidr-mask" \in MaskWords
  /\ {MaxEdits, MaxChanges, MaxFaults} \subseteq Nat

(* The fields of the spec, and where FixConfig takes them from.            *)

TopText == [ClusterType |-> "cluster_type", KubernetesVersion |-> "current_version",
            ZoneID |-> "zone_id", Name |-> "name",
            ResourceGroupID |-> "resource_group_id"]
ParamText == [ResourceGroupID |-> "ResourceGroupId", ContainerCidr |-> "ContainerCIDR",
              ServiceCidr |-> "ServiceCIDR", VpcID |-> "VpcId"]
ParamFlag == [SnatEntry |-> "SNatEntry", EndpointPublicAccess |-> "Eip"]

MasterText == {"MasterInstanceChargeType", "MasterPeriodUnit", "MasterSystemDiskCategory"}
MasterNumber == {"MasterCount", "MasterPeriod", "MasterAutoRenewPeriod",
                 "MasterSystemDiskSize"}
MasterList == [MasterInstanceTypes |-> "MasterInstanceTypes",
               MasterVswitchIds |-> "MasterVSwitchIds"]

OwnText == {"RegionID", "SecurityGroupID", "OsType", "Platform", "LoginPassword", "KeyPair"}
OwnFlag == {"CloudMonitorFlags", "SSHFlags", "DisableRollback", "Imported"}

TextFields == DOMAIN TopText \cup DOMAIN ParamText \cup MasterText \cup OwnText \cup {"ProxyMode"}
NumberFields == MasterNumber \cup {"NodeCidrMask"}
FlagFields == DOMAIN ParamFlag \cup OwnFlag \cup {"MasterAutoRenew"}
ListFields == DOMAIN MasterList \cup {"VswitchIds"}
Fields == TextFields \cup NumberFields \cup FlagFields \cup ListFields

SpecOK(s) ==
  /\ DOMAIN s = Fields
  /\ \A f \in TextFields : s[f] \in Texts
  /\ \A f \in NumberFields : s[f] \in Int
  /\ \A f \in FlagFields : s[f] \in BOOLEAN
  /\ \A f \in ListFields : s[f] \in Seq(Texts)

\* Every number can be written; the cloud's answers may hold any values.
ASSUME ObjectsAssumption ==
  /\ \A s \in Specs : SpecOK(s) /\ \E t \in Texts : Atoi[t] = s.NodeCidrMask
  /\ \A c \in Clusters :
       /\ DOMAIN c = {"top", "params", "outputs"}
       /\ \A k \in DOMAIN c.top : c.top[k] \in Texts \cup {NotText}
       /\ \A k \in DOMAIN c.params : c.params[k] \in Texts \cup {NotText}
       /\ c.outputs \in Texts \cup {NotText, Absent}

\* The fields FixConfig may change, and those it may change without parameters.
Mirrored == Fields \ (OwnText \cup OwnFlag)
MirroredTop == DOMAIN TopText \cup {"VswitchIds"}

VARIABLES
  cr,       \* the stored object: its version, its spec, whether it names a cluster
  watch,    \* versions not yet delivered
  cache,    \* the informer's copy
  queued,   \* the key is in the work queue, or will be
  pc, obj,  \* where the sync is, and its object
  attrs,    \* what the cluster reports while it runs
  status,   \* its state
  stale,    \* it changed since it was last asked about
  wanted,   \* history: the spec the config was created with
  reported, \* history: parameters have been answered
  edits, changes, faults  \* how much of each bound is spent

cluster == <<attrs, status, stale>>
vars == <<cr, watch, cache, queued, pc, obj, attrs, status, stale, wanted,
          reported, edits, changes, faults>>

-----------------------------------------------------------------------------
(* utils/parse.go, on values that are texts.                               *)

GetMapString(key, m) == IF key \in DOMAIN m THEN m[key] ELSE ""

GetMapBoolean(key, m) == key \in DOMAIN m /\ m[key] \in TrueTexts

GetMapInt64(key, m) ==
  IF key \in DOMAIN m /\ Atoi[m[key]] # NotNumber THEN Atoi[m[key]] ELSE 0

\* Its key is always "--node-cidr-mask".
GetArgValueByKey(args) ==
  LET l  == Words[args]
      at == {i \in 1 .. Len(l) - 1 : l[i] \in MaskWords}
  IN  IF at = {} THEN "" ELSE l[Min(at) + 1]

(* FixConfig, layer by layer.                                              *)

FromTop(s, top) ==
  [f \in Fields |->
    CASE f \in DOMAIN TopText -> GetMapString(TopText[f], top)
      [] f = "VswitchIds"     -> Split[GetMapString("vswitch_id", top)]
      [] OTHER                -> s[f]]

FromMasters(s, params) ==
  [f \in Fields |->
    CASE f \in MasterText        -> GetMapString(f, params)
      [] f \in MasterNumber      -> GetMapInt64(f, params)
      [] f \in DOMAIN MasterList -> Split[GetMapString(MasterList[f], params)]
      [] f = "MasterAutoRenew"   -> GetMapBoolean("MasterAutoRenew", params)
      [] OTHER                   -> s[f]]

FromParams(s, params) ==
  LET mask == Atoi[GetArgValueByKey(GetMapString("SetUpArgs", params))] IN
  [f \in Fields |->
    CASE f \in DOMAIN ParamText -> GetMapString(ParamText[f], params)
      [] f \in DOMAIN ParamFlag -> s[f] \/ GetMapBoolean(ParamFlag[f], params)
      [] f = "NodeCidrMask"     -> IF mask = NotNumber THEN s[f] ELSE mask
      [] f = "MasterVswitchIds" -> IF s[f] = <<>> THEN s.VswitchIds ELSE s[f]
      [] OTHER                  -> s[f]]

FixConfig(s, a) ==
  LET t == FromTop(s, a.top)
      m == IF t.ClusterType = "Kubernetes" THEN FromMasters(t, a.params) ELSE t
      p == IF a.params = Absent THEN t ELSE FromParams(m, a.params)
  IN  [p EXCEPT !.ProxyMode = IF a.outputs = Absent THEN @ ELSE a.outputs]

\* Mutant of Panics: a value that is no text is as good as one.
PanicsNever(a) == FALSE

\* A type assertion fails on what FixConfig reads: the process dies.
Panics(a) ==
  LET strange(keys, m) == \E k \in keys : GetMapString(k, m) = NotText IN
  \/ strange({TopText[f] : f \in DOMAIN TopText} \cup {"vswitch_id"}, a.top)
  \/ /\ a.params # Absent
     /\ \/ strange({ParamText[f] : f \in DOMAIN ParamText}
                     \cup {ParamFlag[f] : f \in DOMAIN ParamFlag} \cup {"SetUpArgs"},
                   a.params)
        \/ /\ GetMapString("cluster_type", a.top) = "Kubernetes"
           /\ strange(MasterText \cup MasterNumber \cup {"MasterAutoRenew"}
                        \cup {MasterList[f] : f \in DOMAIN MasterList}, a.params)
  \/ a.outputs = NotText

\* ConvertMapToObj, which an import calls first, may refuse what FixConfig
\* would panic on.
MayNotConvert(a) == Panics(a)

-----------------------------------------------------------------------------
(* ack.Create.                                                             *)

validateCreateRequest(s) ==
  /\ s.Name # "" /\ s.RegionID # ""
  /\ s.LoginPassword # "" \/ s.KeyPair # ""
  /\ s.VpcID # "" \/ s.SnatEntry

Itoa(n) == CHOOSE t \in Texts : Atoi[t] = n

\* Mutant of newClusterCreateRequest: the mask is forgotten.
newClusterCreateRequestLess(s) ==
  [f \in Fields \ {"VswitchIds", "ResourceGroupID", "Imported"} |->
     IF f = "NodeCidrMask" THEN "0" ELSE s[f]]

\* VswitchIds and ResourceGroupID are not sent.  What the default pool adds, its
\* platform instead of the spec's included, is left to NodePools.
newClusterCreateRequest(s) ==
  [f \in Fields \ {"VswitchIds", "ResourceGroupID", "Imported"} |->
     IF f = "NodeCidrMask" THEN Itoa(s[f]) ELSE s[f]]

\* A cluster made from a request reports what was asked for; which type it has
\* when the request names none is the cloud's choice.
Honours(c, req) ==
  LET reports(key, m, texts) == GetMapString(key, m) \in texts
      same(f, key, m) == f \in DOMAIN req /\ req[f] # "" => reports(key, m, {req[f]})
      masked(l) == \E i \in 1 .. Len(l) - 1 :
                     /\ l[i] = "--node-cidr-mask" /\ l[i + 1] = req.NodeCidrMask
                     /\ \A j \in 1 .. i - 1 : l[j] \notin MaskWords
  IN
  /\ \A f \in DOMAIN TopText : same(f, TopText[f], c.top)
  /\ \A f \in DOMAIN ParamText : same(f, ParamText[f], c.params)
  /\ \A f \in DOMAIN ParamFlag : req[f] <=> reports(ParamFlag[f], c.params, TrueTexts)
  /\ GetMapString("cluster_type", c.top) = "Kubernetes" =>
       /\ \A f \in MasterText : same(f, f, c.params)
       /\ \A f \in MasterNumber :
            req[f] # 0 => reports(f, c.params, {t \in Texts : Atoi[t] = req[f]})
       /\ \A f \in DOMAIN MasterList :
            req[f] # <<>> =>
              reports(MasterList[f], c.params, {t \in Texts : Split[t] = req[f]})
       /\ req.MasterAutoRenew <=> reports("MasterAutoRenew", c.params, TrueTexts)
  /\ req.NodeCidrMask # "0" =>
       reports("SetUpArgs", c.params, {t \in Texts : masked(Words[t])})
  /\ req.ProxyMode # "" => c.outputs = req.ProxyMode

-----------------------------------------------------------------------------
\* An imported cluster is there already; another one is asked for.
Init ==
  /\ \E s \in Specs : cr = [rv |-> 1, spec |-> s, named |-> s.Imported]
  /\ wanted = cr.spec
  /\ cache = cr /\ watch = {} /\ queued = TRUE
  /\ pc = "idle" /\ obj = Absent
  /\ attrs \in IF cr.named THEN Clusters ELSE {Absent}
  /\ status = IF cr.named THEN "running" ELSE "none"
  /\ stale = TRUE /\ reported = FALSE
  /\ edits = 0 /\ changes = 0 /\ faults = 0

Fault == faults < MaxFaults /\ faults' = faults + 1

Idle == pc' = "idle" /\ obj' = Absent

\* A write that changes nothing makes no new version and no event.
Commit(new) ==
  IF new = cr THEN UNCHANGED <<cr, watch>>
  ELSE cr' = [new EXCEPT !.rv = cr.rv + 1] /\ watch' = watch \cup {cr'}

\* The handler assigns to the informer's object as long as that is its own.
Mutate(o) == obj' = o /\ cache' = IF cache.rv = o.rv THEN o ELSE cache

\* A sync gets the cached object; a cluster that is still being made is waited for.
Sync ==
  /\ pc = "idle" /\ queued /\ queued' = FALSE
  /\ obj' = cache
  /\ \/ ~cache.named /\ pc' = "create"
     \/ cache.named /\ status # "initial" /\ pc' = "get"
  /\ UNCHANGED <<cr, watch, cache, cluster, wanted, reported, edits, changes, faults>>

\* create: the id of the new cluster goes into the informer's object.
Create ==
  /\ pc = "create"
  /\ \/ /\ validateCreateRequest(obj.spec)
        /\ \E c \in Clusters :
             Honours(c, newClusterCreateRequest(obj.spec)) /\ attrs' = c
        /\ status' = "initial" /\ stale' = TRUE
        /\ Mutate([obj EXCEPT !.named = TRUE]) /\ pc' = "update"
        /\ UNCHANGED <<queued, faults>>
     \/ /\ Fault \/ (~validateCreateRequest(obj.spec) /\ UNCHANGED faults)
        /\ queued' = TRUE /\ Idle /\ UNCHANGED <<cluster, cache>>
  /\ UNCHANGED <<cr, watch, wanted, reported, edits, changes>>

\* Parameters and outputs come while the cluster runs.
Answer ==
  IF status = "running" THEN attrs ELSE [attrs EXCEPT !.params = Absent, !.outputs = Absent]

\* importCluster and checkAndUpdate: FixConfig writes over the informer's object.
\* After a panic the next process begins with a fresh cache.
Get ==
  /\ pc = "get"
  /\ \/ /\ ~Panics(Answer)
        /\ Mutate([obj EXCEPT !.spec = FixConfig(@, Answer)]) /\ pc' = "update"
        /\ stale' = FALSE /\ reported' = (reported \/ status = "running")
        /\ UNCHANGED <<watch, queued, faults>>
     \/ /\ Panics(Answer)
        /\ cache' = cr /\ watch' = {} /\ queued' = TRUE /\ Idle
        /\ UNCHANGED <<stale, reported, faults>>
     \/ /\ Fault \/ (obj.spec.Imported /\ MayNotConvert(Answer) /\ UNCHANGED faults)
        /\ queued' = TRUE /\ Idle
        /\ UNCHANGED <<watch, cache, stale, reported>>
  /\ UNCHANGED <<cr, attrs, status, wanted, edits, changes>>

\* Mutants of Save: the version of the copy is not looked at, or an error is
\* logged and forgotten.
SaveAnyVersion ==
  /\ pc = "update"
  /\ Commit([obj EXCEPT !.rv = cr.rv]) /\ UNCHANGED <<cache, queued, faults>> /\ Idle
  /\ UNCHANGED <<cluster, wanted, reported, edits, changes>>

SaveForget ==
  /\ pc = "update"
  /\ \/ obj.rv = cr.rv /\ Commit(obj) /\ UNCHANGED faults
     \/ obj.rv # cr.rv /\ UNCHANGED <<cr, watch, faults>>
     \/ Fault /\ UNCHANGED <<cr, watch>>
  /\ UNCHANGED <<cache, queued>> /\ Idle
  /\ UNCHANGED <<cluster, wanted, reported, edits, changes>>

\* h.ackCC.Update.
Save ==
  /\ pc = "update"
  /\ \/ obj.rv = cr.rv /\ Commit(obj) /\ UNCHANGED <<queued, faults>>
     \/ obj.rv # cr.rv /\ queued' = TRUE /\ UNCHANGED <<cr, watch, faults>>
     \/ /\ Fault /\ queued' = TRUE
        /\ UNCHANGED <<cr, watch>> \/ (obj.rv = cr.rv /\ Commit(obj))
  /\ UNCHANGED cache /\ Idle
  /\ UNCHANGED <<cluster, wanted, reported, edits, changes>>

\* A watch event, and with it the key.
Deliver ==
  /\ \E v \in watch : cache' = v /\ watch' = {w \in watch : w.rv > v.rv}
  /\ queued' = TRUE
  /\ UNCHANGED <<cr, pc, obj, cluster, wanted, reported, edits, changes, faults>>

UserEdit ==
  /\ edits < MaxEdits /\ edits' = edits + 1
  /\ \E s \in Specs :
       s # cr.spec /\ s.Imported = cr.spec.Imported /\ Commit([cr EXCEPT !.spec = s])
  /\ UNCHANGED <<cache, queued, pc, obj, cluster, wanted, reported, changes, faults>>

ClusterUp ==
  /\ status = "initial" /\ status' = "running" /\ stale' = TRUE
  /\ UNCHANGED <<cr, watch, cache, queued, pc, obj, attrs, wanted, reported,
                 edits, changes, faults>>

\* Someone changes the cluster, or stops or starts it.
ClusterChange ==
  /\ status \in {"running", "inactive"}
  /\ changes < MaxChanges /\ changes' = changes + 1
  /\ \/ attrs' \in Clusters /\ UNCHANGED status
     \/ status' \in {"running", "inactive"} \ {status} /\ UNCHANGED attrs
  /\ stale' = TRUE
  /\ UNCHANGED <<cr, watch, cache, queued, pc, obj, wanted, reported, edits, faults>>

Handler == Sync \/ Create \/ Get \/ Save

Next == Handler \/ Deliver \/ UserEdit \/ ClusterUp \/ ClusterChange

Spec == Init /\ [][Next]_vars

Fairness == WF_vars(Handler) /\ WF_vars(Deliver) /\ WF_vars(ClusterUp)

FairSpec == Spec /\ Fairness

-----------------------------------------------------------------------------
\* The object as it is stored, cached, on its way, and in the hands of a sync.
Copies == {cr, cache} \cup watch \cup (IF pc = "idle" THEN {} ELSE {obj})

\* What is kept of the cloud's answers has the types of the spec.
TypeOK ==
  /\ \A o \in Copies :
       DOMAIN o = {"rv", "spec", "named"} /\ SpecOK(o.spec) /\ o.named \in BOOLEAN
  /\ queued \in BOOLEAN /\ stale \in BOOLEAN /\ reported \in BOOLEAN
  /\ pc \in {"idle", "create", "get", "update"}
  /\ status \in {"none", "initial", "running", "inactive"}

\* What the operator writes over a user's spec is limited to the fields it
\* mirrors, those from the parameters not before they were ever reported, even
\* when the user edits the config while a sync is under way.
OwnFieldsKept ==
  [][edits' = edits =>
       \A f \in Fields : cr'.spec[f] # cr.spec[f] =>
         f \in Mirrored /\ (reported \/ f \in MirroredTop)]_cr

\* What a field holds when it is left out.
Nothing(f) == IF f \in TextFields THEN {""}
              ELSE IF f \in NumberFields THEN {0}
              ELSE IF f \in ListFields THEN {<<>>} ELSE {}

Asked(f) == wanted[f] \notin Nothing(f)

\* As long as nobody else changes the config or the cluster, what the user
\* asked for stays in the spec: the create request carries it to the cloud,
\* and FixConfig brings the same back.  Not so the two fields the request
\* leaves out.
AskedIsKept ==
  edits = 0 /\ changes = 0 /\ ~wanted.Imported =>
    \A f \in Fields \ {"VswitchIds", "ResourceGroupID"} :
      Asked(f) => cr.spec[f] = wanted[f]

Quiet == pc = "idle" /\ ~queued /\ watch = {}

\* Copying the cloud's answer into the spec comes to an end, with a spec that
\* mirrors the cluster: a write of what is written already makes no event that
\* would start the next one.  Not so when the answer makes FixConfig panic, or
\* no valid cluster was asked for; and a cluster that changes is looked at only
\* when something else happens.
Mirrors ==
  <>[](\/ ~cr.named /\ ~validateCreateRequest(cr.spec)
       \/ cr.named /\ Panics(Answer)
       \/ cr.named /\ Quiet /\ ((changes > 0 /\ stale) \/ cr.spec = FixConfig(cr.spec, Answer)))
=============================================================================
