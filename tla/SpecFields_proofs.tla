-------------------------- MODULE SpecFields_proofs --------------------------
(***************************************************************************)
(* FixConfig and the writes of its result leave the fields of the user's   *)
(* own alone, keep what the user asked for in the others, and put nothing  *)
(* but values of their kind there, for any specs, clusters and texts and   *)
(* any number of edits.                                                    *)
(*                                                                         *)
(* A handler writes a whole spec from a copy.  That nothing of an edit is  *)
(* lost rests on what the copies are: one of the stored version differs    *)
(* from what is stored only where FixConfig may have written, and one of   *)
(* an earlier version is refused.                                          *)
(***************************************************************************)
EXTENDS SpecFields, SequenceTheorems, WellFoundedInduction, TLAPS

(* FixConfig.                                                              *)

LEMMA Domains ==
  /\ DOMAIN TopText \cup {"VswitchIds"} = MirroredTop
  /\ MirroredTop \subseteq Mirrored
  /\ MasterText \cup MasterNumber \cup DOMAIN MasterList \cup {"MasterAutoRenew"}
       \subseteq Mirrored
  /\ DOMAIN ParamText \cup DOMAIN ParamFlag \cup {"NodeCidrMask", "MasterVswitchIds"}
       \subseteq Mirrored
  /\ "ProxyMode" \in Mirrored
  /\ Mirrored \subseteq Fields
BY DEF MirroredTop, Mirrored, TopText, MasterText, MasterNumber, MasterList, ParamText,
       ParamFlag, Fields, TextFields, NumberFields, FlagFields, ListFields, OwnText, OwnFlag

LEMMA TopKeeps ==
  ASSUME NEW s, NEW top
  PROVE  /\ DOMAIN FromTop(s, top) = Fields
         /\ \A f \in Fields \ MirroredTop : FromTop(s, top)[f] = s[f]
BY Domains DEF FromTop

LEMMA MastersKeep ==
  ASSUME NEW s, NEW params
  PROVE  /\ DOMAIN FromMasters(s, params) = Fields
         /\ \A f \in Fields \ Mirrored : FromMasters(s, params)[f] = s[f]
BY Domains DEF FromMasters

LEMMA ParamsKeep ==
  ASSUME NEW s, NEW params
  PROVE  /\ DOMAIN FromParams(s, params) = Fields
         /\ \A f \in Fields \ Mirrored : FromParams(s, params)[f] = s[f]
BY Domains DEF FromParams

\* FixConfig changes mirrored fields only, and without parameters and outputs
\* only those at the top of the answer.
LEMMA FixConfigKeeps ==
  ASSUME NEW s, NEW a
  PROVE  /\ DOMAIN FixConfig(s, a) = Fields
         /\ \A f \in Fields : FixConfig(s, a)[f] # s[f] =>
              /\ f \in Mirrored
              /\ a.params = Absent /\ a.outputs = Absent => f \in MirroredTop
<1> DEFINE t == FromTop(s, a.top)
           m == IF t.ClusterType = "Kubernetes" THEN FromMasters(t, a.params) ELSE t
           p == IF a.params = Absent THEN t ELSE FromParams(m, a.params)
<1>1. /\ DOMAIN t = Fields
      /\ \A f \in Fields \ MirroredTop : t[f] = s[f]
  BY TopKeeps
<1>2. \A f \in Fields \ Mirrored : m[f] = s[f]
  BY <1>1, MastersKeep, Domains
<1>3. /\ DOMAIN p = Fields
      /\ \A f \in Fields \ Mirrored : p[f] = s[f]
      /\ a.params = Absent => p = t
  <2> HIDE DEF t, m
  <2> QED
    BY <1>1, <1>2, ParamsKeep, Domains
<1>4. FixConfig(s, a) = [p EXCEPT !.ProxyMode = IF a.outputs = Absent THEN @ ELSE a.outputs]
  BY DEF FixConfig
<1> HIDE DEF t, m, p
<1>5. /\ DOMAIN FixConfig(s, a) = Fields
      /\ \A f \in Fields : f # "ProxyMode" \/ a.outputs = Absent => FixConfig(s, a)[f] = p[f]
  BY <1>3, <1>4
<1> QED
  BY <1>1, <1>3, <1>5, Domains

-----------------------------------------------------------------------------
(* Copies.                                                                 *)

\* The fields in which a copy of the stored version may differ from it.
Writable(f) == f \in Mirrored /\ (reported \/ f \in MirroredTop)

\* A copy as the cache, the watch and a sync have it.
CopyOK(o) ==
  /\ o = [rv |-> o.rv, spec |-> o.spec, named |-> o.named]
  /\ o.rv \in Nat /\ o.rv <= cr.rv
  /\ DOMAIN o.spec = Fields
  /\ o.named => attrs \in Clusters
  /\ o.rv = cr.rv => \A f \in Fields : o.spec[f] # cr.spec[f] => Writable(f)

\* A user's spec has every field, of its type.
LEMMA SpecsTyped ==
  \A s \in Specs : SpecOK(s) /\ DOMAIN s = Fields /\ s.Imported \in BOOLEAN
<1>1. "Imported" \in FlagFields
  BY DEF FlagFields, OwnFlag
<1> QED
  BY <1>1, ObjectsAssumption DEF SpecOK

IInv ==
  /\ CopyOK(cr) /\ CopyOK(cache) /\ \A v \in watch : CopyOK(v)
  /\ pc # "idle" => CopyOK(obj)
  /\ pc = "get" => obj.named
  /\ reported \in BOOLEAN /\ edits \in Nat
  /\ pc \in {"idle", "create", "get", "update"}

LEMMA InitInvariant == ASSUME Init PROVE IInv
<1>1. PICK s \in Specs : cr = [rv |-> 1, spec |-> s, named |-> s.Imported]
  BY DEF Init
<1>2. CopyOK(cr)
  BY <1>1, SpecsTyped DEF Init, CopyOK
<1> QED
  BY <1>2 DEF Init, IInv

\* A copy stays good when nothing is written and more is reported.
LEMMA CopyStays ==
  ASSUME NEW o, CopyOK(o), cr' = cr, reported => reported',
         attrs' = attrs \/ attrs' \in Clusters
  PROVE  CopyOK(o)'
BY DEF CopyOK, Writable

\* A copy stays good, as an older one, when something is written.
LEMMA CopyAges ==
  ASSUME NEW o, CopyOK(o), CopyOK(cr), cr'.rv = cr.rv + 1, attrs' = attrs
  PROVE  CopyOK(o)'
BY DEF CopyOK

\* What is stored is a good copy of itself.
LEMMA StoredOK ==
  ASSUME NEW o, CopyOK(o), CopyOK(cr), cr' = [o EXCEPT !.rv = cr.rv + 1], attrs' = attrs
  PROVE  CopyOK(cr)' /\ cr'.rv = cr.rv + 1
<1>1. cr' = [rv |-> cr.rv + 1, spec |-> o.spec, named |-> o.named]
  BY DEF CopyOK
<1> QED
  BY <1>1 DEF CopyOK

\* A write keeps every copy good, and changes the spec to that of the copy.
LEMMA CommitKeeps ==
  ASSUME CopyOK(cr), \A v \in watch : CopyOK(v), attrs' = attrs, reported' = reported,
         NEW o, CopyOK(o), Commit(o)
  PROVE  /\ CopyOK(cr)' /\ (\A v \in watch : CopyOK(v))'
         /\ \A c : CopyOK(c) => CopyOK(c)'
         /\ cr'.spec = o.spec
<1>1. CASE o = cr
  BY <1>1, CopyStays DEF Commit
<1>2. CASE o # cr
  <2>1. cr' = [o EXCEPT !.rv = cr.rv + 1] /\ watch' = watch \cup {cr'}
    BY <1>2 DEF Commit
  <2>2. CopyOK(cr)' /\ cr'.rv = cr.rv + 1
    BY <2>1, StoredOK
  <2>3. \A c : CopyOK(c) => CopyOK(c)'
    BY <2>2, CopyAges
  <2>4. (\A v \in watch : CopyOK(v))'
    BY <2>1, <2>2, <2>3
  <2>5. cr'.spec = o.spec
    BY <2>1 DEF CopyOK
  <2> QED
    BY <2>2, <2>3, <2>4, <2>5
<1> QED
  BY <1>1, <1>2

-----------------------------------------------------------------------------
(* The steps.                                                              *)

LEMMA SyncKeeps == ASSUME IInv, Sync PROVE IInv'
<1>1. /\ cr' = cr /\ attrs' = attrs /\ reported' = reported /\ watch' = watch
      /\ cache' = cache /\ obj' = cache /\ edits' = edits
      /\ pc' = "create" \/ (cache.named /\ pc' = "get")
  BY DEF Sync, cluster
<1>2. CopyOK(cr)' /\ CopyOK(cache)' /\ (\A v \in watch : CopyOK(v))'
  BY <1>1, CopyStays DEF IInv
<1> QED
  BY <1>1, <1>2 DEF IInv, CopyOK, Writable

LEMMA CreateKeeps == ASSUME IInv, Create PROVE IInv'
<1> USE DEF IInv
<1>1. /\ cr' = cr /\ watch' = watch /\ reported' = reported /\ edits' = edits
      /\ pc = "create"
  BY DEF Create
<1>2. CASE attrs' \in Clusters /\ Mutate([obj EXCEPT !.named = TRUE]) /\ pc' = "update"
  <2>0. PICK o : o = [obj EXCEPT !.named = TRUE]
    OBVIOUS
  <2>1. o = [rv |-> obj.rv, spec |-> obj.spec, named |-> TRUE]
    BY <1>1, <2>0 DEF CopyOK
  <2>2. CopyOK(o)'
    <3>1. CopyOK(obj) /\ \A f \in Fields : Writable(f) => Writable(f)'
      BY <1>1 DEF Writable
    <3>2. /\ o.rv = obj.rv /\ o.spec = obj.spec
          /\ o = [rv |-> o.rv, spec |-> o.spec, named |-> o.named]
      BY <2>1
    <3> QED
      BY <1>1, <1>2, <3>1, <3>2 DEF CopyOK
  <2>3. obj' = o /\ (cache' = o \/ cache' = cache)
    BY <1>2, <2>0 DEF Mutate
  <2>4. CopyOK(cr)' /\ (\A v \in watch : CopyOK(v))' /\ CopyOK(cache)'
    BY <1>1, <1>2, <2>2, <2>3, CopyStays
  <2> QED
    BY <1>1, <1>2, <2>2, <2>3, <2>4
<1>3. CASE pc' = "idle" /\ UNCHANGED <<cluster, cache>>
  <2>1. CopyOK(cr)' /\ CopyOK(cache)' /\ (\A v \in watch : CopyOK(v))'
    BY <1>1, <1>3, CopyStays DEF cluster
  <2> QED
    BY <1>1, <1>3, <2>1
<1> QED
  BY <1>2, <1>3 DEF Create, Idle

LEMMA GetKeeps == ASSUME IInv, Get PROVE IInv'
<1> USE DEF IInv
<1>1. /\ cr' = cr /\ attrs' = attrs /\ edits' = edits /\ pc = "get"
      /\ CopyOK(obj) /\ obj.named /\ attrs \in Clusters
  BY DEF Get, CopyOK
<1>2. CASE /\ Mutate([obj EXCEPT !.spec = FixConfig(@, Answer)]) /\ pc' = "update"
           /\ reported' = (reported \/ status = "running") /\ watch' = watch
  <2>0. PICK o : o = [obj EXCEPT !.spec = FixConfig(@, Answer)]
    OBVIOUS
  <2>1. o = [rv |-> obj.rv, spec |-> FixConfig(obj.spec, Answer), named |-> obj.named]
    BY <1>1, <2>0 DEF CopyOK
  <2>2. status # "running" => Answer.params = Absent /\ Answer.outputs = Absent
    BY <1>1, ObjectsAssumption DEF Answer
  <2>3. /\ DOMAIN o.spec = Fields
        /\ \A f \in Fields : o.spec[f] # obj.spec[f] => Writable(f)'
    BY <1>1, <1>2, <2>1, <2>2, FixConfigKeeps DEF CopyOK, Writable
  <2>4. \A f \in Fields : Writable(f) => Writable(f)'
    BY <1>2 DEF Writable
  <2>5. CopyOK(o)'
    BY <1>1, <2>1, <2>3, <2>4 DEF CopyOK
  <2>6. obj' = o /\ (cache' = o \/ cache' = cache)
    BY <1>2, <2>0 DEF Mutate
  <2>7. CopyOK(cr)' /\ (\A v \in watch : CopyOK(v))' /\ CopyOK(cache)'
    BY <1>1, <1>2, <2>5, <2>6, CopyStays
  <2> QED
    BY <1>1, <1>2, <2>5, <2>6, <2>7
<1>3. CASE cache' = cr /\ watch' = {} /\ pc' = "idle" /\ reported' = reported
  <2>1. CopyOK(cr)'
    BY <1>1, <1>3, CopyStays
  <2> QED
    BY <1>1, <1>3, <2>1
<1>4. CASE cache' = cache /\ watch' = watch /\ pc' = "idle" /\ reported' = reported
  <2>1. CopyOK(cr)' /\ CopyOK(cache)' /\ (\A v \in watch : CopyOK(v))'
    BY <1>1, <1>4, CopyStays
  <2> QED
    BY <1>1, <1>4, <2>1
<1> QED
  BY <1>2, <1>3, <1>4 DEF Get, Idle

LEMMA SaveKeeps == ASSUME IInv, Save PROVE IInv'
<1> USE DEF IInv
<1>1. /\ attrs' = attrs /\ reported' = reported /\ edits' = edits /\ cache' = cache
      /\ pc = "update" /\ pc' = "idle" /\ CopyOK(obj)
  BY DEF Save, Idle, cluster
<1>2. CASE Commit(obj)
  BY <1>1, <1>2, CommitKeeps
<1>3. CASE UNCHANGED <<cr, watch>>
  <2>1. CopyOK(cr)' /\ CopyOK(cache)' /\ (\A v \in watch : CopyOK(v))'
    BY <1>1, <1>3, CopyStays
  <2> QED
    BY <1>1, <1>3, <2>1
<1> QED
  BY <1>2, <1>3 DEF Save

LEMMA DeliverKeeps == ASSUME IInv, Deliver PROVE IInv'
<1> USE DEF IInv
<1>1. PICK v \in watch : cache' = v /\ watch' = {w \in watch : w.rv > v.rv}
  BY DEF Deliver
<1>2. /\ cr' = cr /\ attrs' = attrs /\ reported' = reported /\ edits' = edits
      /\ pc' = pc /\ obj' = obj
  BY DEF Deliver, cluster
<1>3. \A c : CopyOK(c) => CopyOK(c)'
  BY <1>2, CopyStays
<1>4. CopyOK(cr)' /\ CopyOK(cache)' /\ (\A w \in watch : CopyOK(w))'
  BY <1>1, <1>2, <1>3
<1> QED
  BY <1>2, <1>3, <1>4

LEMMA UserEditKeeps == ASSUME IInv, UserEdit PROVE IInv' /\ edits' # edits
<1> USE DEF IInv
<1>1. /\ attrs' = attrs /\ reported' = reported /\ edits' = edits + 1
      /\ pc' = pc /\ obj' = obj /\ cache' = cache
  BY DEF UserEdit, cluster
<1>2. PICK s \in Specs : s # cr.spec /\ Commit([cr EXCEPT !.spec = s])
  BY DEF UserEdit
<1> DEFINE o == [cr EXCEPT !.spec = s]
<1>3. /\ o = [rv |-> cr.rv, spec |-> s, named |-> cr.named] /\ o # cr
  BY <1>2 DEF CopyOK
<1>4. /\ cr' = [rv |-> cr.rv + 1, spec |-> s, named |-> cr.named]
      /\ watch' = watch \cup {cr'}
  BY <1>2, <1>3 DEF Commit
<1>5. CopyOK(cr)'
  BY <1>1, <1>4, SpecsTyped DEF CopyOK
<1>6. \A c : CopyOK(c) => CopyOK(c)'
  BY <1>1, <1>4, CopyAges
<1> QED
  BY <1>1, <1>4, <1>5, <1>6

LEMMA ClusterKeeps == ASSUME IInv, ClusterUp \/ ClusterChange PROVE IInv'
<1>1. /\ UNCHANGED <<cr, watch, cache, pc, obj, reported, edits>>
      /\ attrs' = attrs \/ attrs' \in Clusters
  BY DEF ClusterUp, ClusterChange
<1>2. \A c : CopyOK(c) => CopyOK(c)'
  BY <1>1, CopyStays
<1> QED
  BY <1>1, <1>2 DEF IInv

LEMMA NextInvariant == ASSUME IInv, [Next]_vars PROVE IInv'
<1>1. CASE UNCHANGED vars
  BY <1>1 DEF vars, cluster, IInv, CopyOK, Writable
<1> QED
  BY <1>1, SyncKeeps, CreateKeeps, GetKeeps, SaveKeeps, DeliverKeeps, UserEditKeeps,
     ClusterKeeps
  DEF Next, Handler

\* Whatever copies the sync, the cache and the watch hold, one of the stored
\* version differs from what is stored only in fields FixConfig may write.
THEOREM CopiesAreGood == Spec => []IInv
BY InitInvariant, NextInvariant, PTL DEF Spec

-----------------------------------------------------------------------------
\* A step that is no edit writes mirrored fields only.
LEMMA StepKeepsFields ==
  ASSUME IInv, [Next]_vars, edits' = edits, cr' # cr,
         NEW f \in Fields, cr'.spec[f] # cr.spec[f]
  PROVE  Writable(f)
<1>1. Save
  BY UserEditKeeps
  DEF Next, Handler, Sync, Create, Get, Deliver, ClusterUp, ClusterChange, vars
<1>2. Commit(obj) /\ obj.rv = cr.rv /\ CopyOK(obj)
  BY <1>1 DEF Save, IInv
<1>3. cr'.spec = obj.spec
  BY <1>1, <1>2, CommitKeeps DEF Save, IInv, cluster
<1> QED
  BY <1>2, <1>3 DEF CopyOK

\* No write of the operator's, from however old a copy, touches a field that is
\* the user's own, nor one the cloud has not yet reported.
THEOREM OwnFieldsAreKept == Spec => OwnFieldsKept
<1>1. ASSUME IInv, [Next]_vars
      PROVE  [edits' = edits =>
                \A f \in Fields : cr'.spec[f] # cr.spec[f] =>
                  f \in Mirrored /\ (reported \/ f \in MirroredTop)]_cr
  BY <1>1, StepKeepsFields DEF Writable
<1> QED
  BY <1>1, CopiesAreGood, PTL DEF Spec, OwnFieldsKept

-----------------------------------------------------------------------------
(* What FixConfig reads has the types of the spec.                         *)

\* The classes of fields share nothing, and each kind of answer goes to its own.
LEMMA Classes ==
  /\ Fields = TextFields \cup NumberFields \cup FlagFields \cup ListFields
  /\ TextFields \cap (NumberFields \cup FlagFields \cup ListFields) = {}
  /\ NumberFields \cap (FlagFields \cup ListFields) = {} /\ FlagFields \cap ListFields = {}
  /\ DOMAIN TopText \cup DOMAIN ParamText \cup MasterText \cup {"ProxyMode"} \subseteq TextFields
  /\ MasterNumber \cup {"NodeCidrMask"} \subseteq NumberFields
  /\ DOMAIN ParamFlag \cup {"MasterAutoRenew"} \subseteq FlagFields
  /\ DOMAIN MasterList \cup {"VswitchIds", "MasterVswitchIds"} \subseteq ListFields
  /\ "VswitchIds" # "MasterVswitchIds" /\ "VswitchIds" \notin DOMAIN MasterList
BY DEF Fields, TextFields, NumberFields, FlagFields, ListFields, TopText, ParamText,
       MasterText, MasterNumber, ParamFlag, MasterList, OwnText, OwnFlag

\* The values of an answer are texts or something else.
Typed(a) ==
  /\ \A k \in DOMAIN a.top : a.top[k] \in Texts \cup {NotText}
  /\ a.params # Absent => \A k \in DOMAIN a.params : a.params[k] \in Texts \cup {NotText}
  /\ a.outputs \in Texts \cup {NotText, Absent}

LEMMA AnswerTyped ==
  ASSUME attrs \in Clusters
  PROVE  /\ Typed(Answer)
         /\ Answer.top = attrs.top
         /\ Answer.params \in {Absent, attrs.params}
         /\ Answer.outputs \in {Absent, attrs.outputs}
BY ObjectsAssumption DEF Answer, Typed

LEMMA TextRead ==
  ASSUME NEW m, \A k \in DOMAIN m : m[k] \in Texts \cup {NotText},
         NEW key, GetMapString(key, m) # NotText
  PROVE  GetMapString(key, m) \in Texts
BY TablesAssumption DEF GetMapString

LEMMA NumberRead ==
  ASSUME NEW m, \A k \in DOMAIN m : m[k] \in Texts \cup {NotText},
         NEW key, GetMapString(key, m) # NotText
  PROVE  GetMapInt64(key, m) \in Int
<1>1. key \in DOMAIN m => m[key] \in Texts
  BY TextRead DEF GetMapString
<1>2. key \in DOMAIN m => Atoi[m[key]] \in Int \cup {NotNumber}
  BY <1>1, TablesAssumption
<1> QED
  BY <1>2 DEF GetMapInt64

LEMMA MinIsLeast ==
  ASSUME NEW S, S \subseteq Nat, S # {}
  PROVE  Min(S) \in S /\ \A y \in S : Min(S) <= y
<1> DEFINE R == OpToRel(<, Nat)
<1>1. IsWellFoundedOn(R, Nat)
  BY NatLessThanWellFounded
<1>2. \A x, y \in Nat : y < x => <<y, x>> \in R
  BY DEF OpToRel
<1> HIDE DEF R
<1>3. PICK x \in S : \A y \in S : ~(<<y, x>> \in R)
  BY <1>1, WFMin
<1>4. \A y \in S : x <= y
  <2> TAKE y \in S
  <2>1. x \in Nat /\ y \in Nat
    OBVIOUS
  <2>2. ~(y < x)
    BY <1>2, <1>3, <2>1, Zenon
  <2> QED
    BY <2>1, <2>2
<1> QED
  BY <1>4 DEF Min

\* The word that GetArgValueByKey finds is a text, and the one after the first
\* that names the mask.
LEMMA WordRead ==
  ASSUME NEW args \in Texts
  PROVE  /\ GetArgValueByKey(args) \in Texts
         /\ \A i \in 1 .. Len(Words[args]) - 1 :
              Words[args][i] \in MaskWords
              /\ (\A j \in 1 .. i - 1 : Words[args][j] \notin MaskWords)
              => GetArgValueByKey(args) = Words[args][i + 1]
<1> DEFINE l  == Words[args]
           at == {i \in 1 .. Len(l) - 1 : l[i] \in MaskWords}
<1>1. l \in Seq(Texts)
  BY TablesAssumption
<1>2. GetArgValueByKey(args) = IF at = {} THEN "" ELSE l[Min(at) + 1]
  BY DEF GetArgValueByKey
<1> HIDE DEF l
<1>3. at \subseteq Nat /\ at \subseteq 1 .. Len(l) - 1
  BY <1>1
<1>4. ASSUME at # {} PROVE Min(at) \in at /\ \A y \in at : Min(at) <= y
  <2> HIDE DEF at
  <2> QED
    BY <1>3, <1>4, MinIsLeast
<1>5. GetArgValueByKey(args) \in Texts
  <2>1. CASE at = {}
    BY <1>2, <2>1, TablesAssumption
  <2>2. CASE at # {}
    <3>1. Min(at) \in 1 .. Len(l) - 1
      BY <1>4, <2>2
    <3>2. Min(at) + 1 \in 1 .. Len(l)
      BY <1>1, <3>1
    <3>3. l[Min(at) + 1] \in Texts
      <4> HIDE DEF at
      <4> QED
        BY <1>1, <3>2, ElementOfSeq
    <3> QED
      BY <1>2, <2>2, <3>3
  <2> QED
    BY <2>1, <2>2
<1>6. ASSUME NEW i \in 1 .. Len(l) - 1, l[i] \in MaskWords,
             \A j \in 1 .. i - 1 : l[j] \notin MaskWords
      PROVE  GetArgValueByKey(args) = l[i + 1]
  <2>1. i \in at
    BY <1>6
  <2>2. Min(at) \in at /\ Min(at) <= i
    BY <1>4, <2>1
  <2>3. Min(at) = i
    <3>1. Min(at) \notin 1 .. i - 1
      BY <1>6, <2>2
    <3>2. Min(at) \in Nat /\ Min(at) >= 1 /\ i \in Nat
      BY <1>1, <1>3, <2>2
    <3> QED
      BY <2>2, <3>1, <3>2
  <2> QED
    BY <1>2, <2>1, <2>3
<1> QED
  BY <1>5, <1>6 DEF l

\* FixConfig keeps the types, whatever the answer holds that it does not panic on.
LEMMA FixConfigTyped ==
  ASSUME NEW s, SpecOK(s), NEW a, Typed(a), ~Panics(a)
  PROVE  SpecOK(FixConfig(s, a))
<1> DEFINE t == FromTop(s, a.top)
           m == IF t.ClusterType = "Kubernetes" THEN FromMasters(t, a.params) ELSE t
           p == IF a.params = Absent THEN t ELSE FromParams(m, a.params)
<1>1. SpecOK(t) /\ t.ClusterType = GetMapString("cluster_type", a.top)
  <2>1. \A f \in DOMAIN TopText : GetMapString(TopText[f], a.top) \in Texts
    BY TextRead DEF Typed, Panics
  <2>2. Split[GetMapString("vswitch_id", a.top)] \in Seq(Texts)
    <3>1. GetMapString("vswitch_id", a.top) \in Texts
      BY TextRead DEF Typed, Panics
    <3> QED
      BY <3>1, TablesAssumption
  <2>3. "ClusterType" \in DOMAIN TopText /\ TopText["ClusterType"] = "cluster_type"
    BY DEF TopText
  <2> QED
    BY <2>1, <2>2, <2>3, Classes DEF FromTop, SpecOK
<1>2. SpecOK(p)
  <2> HIDE DEF t
  <2>1. CASE a.params = Absent
    BY <1>1, <2>1
  <2>2. CASE a.params # Absent
    <3>1. \A k \in DOMAIN a.params : a.params[k] \in Texts \cup {NotText}
      BY <2>2 DEF Typed
    <3>2. SpecOK(m)
      <4>1. CASE t.ClusterType = "Kubernetes"
        <5>1. \A k \in MasterText \cup MasterNumber \cup {"MasterAutoRenew"}
                         \cup {MasterList[f] : f \in DOMAIN MasterList} :
                GetMapString(k, a.params) # NotText
          BY <1>1, <2>2, <4>1 DEF Panics
        <5>2. \A f \in MasterText : GetMapString(f, a.params) \in Texts
          BY <3>1, <5>1, TextRead
        <5>3. \A f \in MasterNumber : GetMapInt64(f, a.params) \in Int
          BY <3>1, <5>1, NumberRead
        <5>4. \A f \in DOMAIN MasterList : Split[GetMapString(MasterList[f], a.params)] \in Seq(Texts)
          <6>1. \A f \in DOMAIN MasterList : GetMapString(MasterList[f], a.params) \in Texts
            BY <3>1, <5>1, TextRead
          <6> QED
            BY <6>1, TablesAssumption
        <5>5. GetMapBoolean("MasterAutoRenew", a.params) \in BOOLEAN
          BY DEF GetMapBoolean
        <5>6. SpecOK(FromMasters(t, a.params))
          BY <1>1, <5>2, <5>3, <5>4, <5>5, Classes DEF FromMasters, SpecOK
        <5> QED
          BY <4>1, <5>6
      <4>2. CASE t.ClusterType # "Kubernetes"
        BY <1>1, <4>2
      <4> QED
        BY <4>1, <4>2
    <3> DEFINE mask == Atoi[GetArgValueByKey(GetMapString("SetUpArgs", a.params))]
    <3>3. mask \in Int \cup {NotNumber}
      <4>1. GetMapString("SetUpArgs", a.params) \in Texts
        BY <2>2, <3>1, TextRead DEF Panics
      <4> QED
        BY <4>1, WordRead, TablesAssumption
    <3>4. \A f \in DOMAIN ParamText : GetMapString(ParamText[f], a.params) \in Texts
      <4>1. \A f \in DOMAIN ParamText : GetMapString(ParamText[f], a.params) # NotText
        BY <2>2 DEF Panics
      <4> QED
        BY <3>1, <4>1, TextRead
    <3>5. \A f \in DOMAIN ParamFlag : GetMapBoolean(ParamFlag[f], a.params) \in BOOLEAN
      BY DEF GetMapBoolean
    <3> HIDE DEF m, mask
    <3>6. SpecOK(FromParams(m, a.params))
      BY <3>2, <3>3, <3>4, <3>5, Classes DEF FromParams, SpecOK, mask
    <3> QED
      BY <2>2, <3>6
  <2> QED
    BY <2>1, <2>2
<1>3. FixConfig(s, a) = [p EXCEPT !.ProxyMode = IF a.outputs = Absent THEN @ ELSE a.outputs]
  BY DEF FixConfig
<1>4. a.outputs # Absent => a.outputs \in Texts
  BY DEF Typed, Panics
<1> HIDE DEF p
<1> QED
  BY <1>2, <1>3, <1>4, Classes DEF SpecOK

-----------------------------------------------------------------------------
(* Where the copies come from.                                             *)

\* What a commit stores and announces is a copy there was, or the new one.
LEMMA CommitCopies ==
  ASSUME NEW o, o = [rv |-> o.rv, spec |-> o.spec, named |-> o.named], Commit(o)
  PROVE  \A c \in {cr'} \cup watch' :
           \/ c \in {cr} \cup watch
           \/ c.spec = o.spec /\ c.named = o.named
<1>1. CASE o = cr
  BY <1>1 DEF Commit
<1>2. CASE o # cr
  <2>1. cr' = [rv |-> cr.rv + 1, spec |-> o.spec, named |-> o.named]
    BY <1>2 DEF Commit
  <2> QED
    BY <1>2, <2>1 DEF Commit
<1> QED
  BY <1>1, <1>2

\* A copy after a step is one from before, perhaps under a new version, or the
\* step is one of those that make a copy of their own.
LEMMA NewCopy ==
  ASSUME IInv, [Next]_vars, NEW c \in Copies'
  PROVE  \/ \E o \in Copies : c.spec = o.spec /\ c.named = o.named
         \/ /\ Create /\ c.spec = obj.spec /\ c.named = TRUE
            /\ attrs' \in Clusters /\ Honours(attrs', newClusterCreateRequest(obj.spec))
         \/ Get /\ ~Panics(Answer) /\ c.spec = FixConfig(obj.spec, Answer) /\ c.named = obj.named
         \/ UserEdit /\ c.spec \in Specs /\ c.named = cr.named
<1> USE DEF Copies
<1>1. CASE UNCHANGED vars \/ Sync \/ Deliver \/ ClusterUp \/ ClusterChange
  BY <1>1 DEF vars, Sync, Deliver, ClusterUp, ClusterChange
<1>2. CASE Create
  <2>1. CopyOK(obj) /\ cr' = cr /\ watch' = watch
    BY <1>2 DEF Create, IInv
  <2>2. CASE pc' = "idle" /\ cache' = cache
    BY <2>1, <2>2
  <2>3. CASE /\ Mutate([obj EXCEPT !.named = TRUE])
             /\ attrs' \in Clusters /\ Honours(attrs', newClusterCreateRequest(obj.spec))
    <3>1. PICK o : o = [obj EXCEPT !.named = TRUE]
      OBVIOUS
    <3>2. o = [rv |-> obj.rv, spec |-> obj.spec, named |-> TRUE]
      BY <2>1, <3>1 DEF CopyOK
    <3>3. c = o \/ c \in {cr, cache} \cup watch
      BY <2>1, <2>3, <3>1 DEF Mutate
    <3> QED
      BY <1>2, <2>3, <3>2, <3>3
  <2> QED
    BY <1>2, <2>2, <2>3 DEF Create, Idle
<1>3. CASE Get
  <2>1. CopyOK(obj) /\ cr' = cr
    BY <1>3 DEF Get, IInv
  <2>2. CASE pc' = "idle" /\ cache' \in {cr, cache} /\ watch' \subseteq watch
    BY <2>1, <2>2
  <2>3. CASE /\ ~Panics(Answer) /\ watch' = watch
             /\ Mutate([obj EXCEPT !.spec = FixConfig(@, Answer)])
    <3>1. PICK o : o = [obj EXCEPT !.spec = FixConfig(@, Answer)]
      OBVIOUS
    <3>2. o = [rv |-> obj.rv, spec |-> FixConfig(obj.spec, Answer), named |-> obj.named]
      BY <2>1, <3>1 DEF CopyOK
    <3>3. obj' = o /\ cache' \in {o, cache}
      BY <2>3, <3>1 DEF Mutate
    <3>4. c = o \/ c \in {cr, cache} \cup watch
      BY <2>1, <2>3, <3>3
    <3>5. CASE c = o
      <4>1. c.spec = FixConfig(obj.spec, Answer) /\ c.named = obj.named
        BY <3>2, <3>5
      <4> QED
        BY <1>3, <2>3, <4>1
    <3> QED
      BY <3>4, <3>5
  <2> QED
    BY <1>3, <2>2, <2>3 DEF Get, Idle
<1>4. CASE Save
  <2>1. CopyOK(obj) /\ cache' = cache /\ pc' = "idle" /\ pc = "update"
    BY <1>4 DEF Save, Idle, IInv
  <2>2. CASE UNCHANGED <<cr, watch>>
    BY <2>1, <2>2
  <2>3. CASE Commit(obj)
    BY <2>1, <2>3, CommitCopies DEF CopyOK
  <2> QED
    BY <1>4, <2>2, <2>3 DEF Save
<1>5. CASE UserEdit
  <2>1. PICK s \in Specs : Commit([cr EXCEPT !.spec = s])
    BY <1>5 DEF UserEdit
  <2>2. PICK o : o = [cr EXCEPT !.spec = s]
    OBVIOUS
  <2>3. o = [rv |-> cr.rv, spec |-> s, named |-> cr.named]
    BY <2>2 DEF IInv, CopyOK
  <2>4. \A d \in {cr'} \cup watch' :
          d \in {cr} \cup watch \/ (d.spec = s /\ d.named = cr.named)
    BY <2>1, <2>2, <2>3, CommitCopies
  <2> QED
    BY <1>5, <2>4 DEF UserEdit
<1> QED
  BY <1>1, <1>2, <1>3, <1>4, <1>5 DEF Next, Handler

-----------------------------------------------------------------------------
(* Types.                                                                  *)

LEMMA InitTyped == ASSUME Init PROVE TypeOK
<1>1. PICK s \in Specs : cr = [rv |-> 1, spec |-> s, named |-> s.Imported]
  BY DEF Init
<1>2. DOMAIN cr = {"rv", "spec", "named"} /\ SpecOK(cr.spec) /\ cr.named \in BOOLEAN
  BY <1>1, SpecsTyped
<1>3. Copies = {cr}
  BY DEF Init, Copies
<1>4. status \in {"none", "initial", "running", "inactive"}
  BY DEF Init
<1> QED
  BY <1>2, <1>3, <1>4 DEF Init, TypeOK

LEMMA StepTyped == ASSUME IInv, TypeOK, [Next]_vars PROVE TypeOK'
<1>1. ASSUME NEW c \in Copies' PROVE SpecOK(c.spec) /\ c.named \in BOOLEAN
  <2>1. CASE \E o \in Copies : c.spec = o.spec /\ c.named = o.named
    BY <2>1 DEF TypeOK
  <2>2. ASSUME pc \in {"create", "get"} PROVE SpecOK(obj.spec) /\ obj.named \in BOOLEAN
    BY <2>2 DEF TypeOK, Copies
  <2>3. CASE Create /\ c.spec = obj.spec /\ c.named = TRUE
    BY <2>2, <2>3 DEF Create
  <2>4. CASE Get /\ ~Panics(Answer) /\ c.spec = FixConfig(obj.spec, Answer) /\ c.named = obj.named
    <3>1. pc = "get" /\ attrs \in Clusters
      BY <2>4 DEF Get, IInv, CopyOK
    <3> QED
      BY <2>2, <2>4, <3>1, AnswerTyped, FixConfigTyped
  <2>5. CASE UserEdit /\ c.spec \in Specs /\ c.named = cr.named
    BY <2>5, SpecsTyped DEF TypeOK, Copies
  <2> QED
    BY <2>1, <2>3, <2>4, <2>5, NewCopy
<1>2. ASSUME NEW c \in Copies' PROVE DOMAIN c = {"rv", "spec", "named"}
  <2>1. CopyOK(c)'
    BY <1>2, NextInvariant DEF IInv, Copies
  <2> QED
    BY <2>1 DEF CopyOK
<1>3. /\ queued' \in BOOLEAN /\ stale' \in BOOLEAN /\ reported' \in BOOLEAN
      /\ status' \in {"none", "initial", "running", "inactive"}
  BY DEF TypeOK, Next, Handler, Sync, Create, Get, Save, Deliver, UserEdit, ClusterUp,
         ClusterChange, vars, cluster
<1>4. pc' \in {"idle", "create", "get", "update"}
  BY NextInvariant DEF IInv
<1> QED
  BY <1>1, <1>2, <1>3, <1>4 DEF TypeOK

\* FixConfig, ack-cluster-config-handler.go:446-516: whatever a cloud answers that
\* it does not panic on, every copy of the spec keeps its fields and their types.
THEOREM TypeCorrect == Spec => []TypeOK
BY InitTyped, StepTyped, CopiesAreGood, PTL DEF Spec

-----------------------------------------------------------------------------
(* What was asked for comes back.                                          *)

Carried == Fields \ {"VswitchIds", "ResourceGroupID"}

\* The spec s has what was asked for.
Kept(s) == \A f \in Carried : Asked(f) => s[f] = wanted[f]

LEMMA AskedMeans ==
  /\ \A f \in TextFields : Asked(f) <=> wanted[f] # ""
  /\ \A f \in NumberFields : Asked(f) <=> wanted[f] # 0
  /\ \A f \in ListFields : Asked(f) <=> wanted[f] # <<>>
BY Classes DEF Asked, Nothing

\* The request sends every field but three as it is, the mask as a text.
LEMMA RequestOf ==
  ASSUME NEW s
  PROVE  /\ \A f \in Carried \ {"Imported", "NodeCidrMask"} :
              f \in DOMAIN newClusterCreateRequest(s) /\ newClusterCreateRequest(s)[f] = s[f]
         /\ newClusterCreateRequest(s).NodeCidrMask = Itoa(s.NodeCidrMask)
BY Classes DEF newClusterCreateRequest, Carried

LEMMA FlagRead ==
  ASSUME NEW key, NEW m
  PROVE  /\ GetMapBoolean(key, m) \in BOOLEAN
         /\ GetMapBoolean(key, m) <=> GetMapString(key, m) \in TrueTexts
BY TablesAssumption DEF GetMapBoolean, GetMapString

LEMMA NumberReturns ==
  ASSUME NEW key, NEW m, NEW n \in Int, GetMapString(key, m) \in {t \in Texts : Atoi[t] = n}
  PROVE  GetMapInt64(key, m) = n
BY TablesAssumption DEF GetMapInt64, GetMapString

LEMMA MaskReturns ==
  ASSUME NEW n \in Int, n # 0, \E t \in Texts : Atoi[t] = n
  PROVE  Itoa(n) \in Texts /\ Atoi[Itoa(n)] = n /\ Itoa(n) # "0"
BY TablesAssumption DEF Itoa

\* The first word about the mask is followed by the request's.
LEMMA HonouredMask ==
  ASSUME NEW c, NEW req, Honours(c, req), req.NodeCidrMask # "0"
  PROVE  /\ GetMapString("SetUpArgs", c.params) \in Texts
         /\ GetArgValueByKey(GetMapString("SetUpArgs", c.params)) = req.NodeCidrMask
<1> DEFINE args == GetMapString("SetUpArgs", c.params)
           masked(l) == \E i \in 1 .. Len(l) - 1 :
                          /\ l[i] = "--node-cidr-mask" /\ l[i + 1] = req.NodeCidrMask
                          /\ \A j \in 1 .. i - 1 : l[j] \notin MaskWords
<1>1. args \in {t \in Texts : masked(Words[t])}
  BY DEF Honours
<1> HIDE DEF args
<1>2. args \in Texts /\ masked(Words[args])
  BY <1>1
<1>3. GetArgValueByKey(args) = req.NodeCidrMask
  BY ZenonT(40), <1>2, WordRead, TablesAssumption
<1> QED
  BY <1>2, <1>3 DEF args

\* FixConfig on the answer about a cluster that honours the request.
LEMMA FixConfigReturns ==
  ASSUME wanted \in Specs, NEW s, Kept(s),
         NEW c, Honours(c, newClusterCreateRequest(wanted)),
         NEW a, a.top = c.top, a.params \in {Absent, c.params}, a.outputs \in {Absent, c.outputs}
  PROVE  Kept(FixConfig(s, a))
<1> DEFINE req == newClusterCreateRequest(wanted)
           t == FromTop(s, a.top)
           m == IF t.ClusterType = "Kubernetes" THEN FromMasters(t, a.params) ELSE t
           p == IF a.params = Absent THEN t ELSE FromParams(m, a.params)
<1>1. /\ SpecOK(wanted) /\ \E x \in Texts : Atoi[x] = wanted.NodeCidrMask
      /\ \A f \in Carried \ {"Imported", "NodeCidrMask"} : f \in DOMAIN req /\ req[f] = wanted[f]
      /\ req.NodeCidrMask = Itoa(wanted.NodeCidrMask)
  BY RequestOf, ObjectsAssumption
<1>2. Honours(c, req)
  OBVIOUS
<1> HIDE DEF req
<1>3. /\ \A f \in DOMAIN TopText : f \in DOMAIN req /\ req[f] # "" =>
           GetMapString(TopText[f], c.top) = req[f]
      /\ \A f \in DOMAIN ParamText : f \in DOMAIN req /\ req[f] # "" =>
           GetMapString(ParamText[f], c.params) = req[f]
      /\ GetMapString("cluster_type", c.top) = "Kubernetes" =>
           /\ \A f \in MasterText : f \in DOMAIN req /\ req[f] # "" =>
                GetMapString(f, c.params) = req[f]
           /\ \A f \in MasterNumber : req[f] # 0 =>
                GetMapString(f, c.params) \in {x \in Texts : Atoi[x] = req[f]}
           /\ \A f \in DOMAIN MasterList : req[f] # <<>> =>
                Split[GetMapString(MasterList[f], c.params)] = req[f]
  BY <1>2 DEF Honours
<1>4. /\ DOMAIN TopText \cup DOMAIN ParamText \cup MasterText \cup MasterNumber
           \cup DOMAIN ParamFlag \cup DOMAIN MasterList
           \cup {"MasterAutoRenew", "MasterVswitchIds", "ProxyMode"}
           \subseteq Fields \ {"VswitchIds", "Imported", "NodeCidrMask"}
      /\ "NodeCidrMask" \in Carried /\ "NodeCidrMask" # "Imported"
  BY Classes DEF Carried, TopText, ParamText, MasterText, MasterNumber, ParamFlag, MasterList,
     Fields, NumberFields
<1>5. ~("ResourceGroupID" \in MasterText \cup MasterNumber \cup DOMAIN ParamFlag
           \cup DOMAIN MasterList \cup {"MasterAutoRenew", "MasterVswitchIds", "ProxyMode"})
  BY DEF MasterText, MasterNumber, ParamFlag, MasterList
<1>6. Kept(t)
  <2>1. ASSUME NEW f \in DOMAIN TopText, f \in Carried, wanted[f] # ""
        PROVE  GetMapString(TopText[f], a.top) = wanted[f]
    <3>1. f \in DOMAIN req /\ req[f] = wanted[f]
      BY <1>1, <1>4, <2>1
    <3>2. GetMapString(TopText[f], c.top) = req[f]
      BY <1>3, <2>1, <3>1
    <3>3. a.top = c.top
      OBVIOUS
    <3> QED
      BY <3>1, <3>2, <3>3
  <2> QED
    BY <2>1, Classes, AskedMeans DEF Kept, FromTop, Carried
<1>7. ASSUME a.params # Absent PROVE Kept(m)
  <2>1. CASE t.ClusterType = "Kubernetes"
    <3>1. GetMapString("cluster_type", c.top) = "Kubernetes" /\ a.params = c.params
      BY <1>7, <2>1 DEF FromTop, TopText, Fields, TextFields
    <3> HIDE DEF t
    <3>2. ASSUME NEW f \in MasterText, wanted[f] # ""
          PROVE  GetMapString(f, a.params) = wanted[f]
      <4>1. f \in DOMAIN req /\ req[f] = wanted[f]
        BY <1>1, <1>4, <1>5 DEF Carried
      <4> QED
        BY <1>3, <3>1, <3>2, <4>1
    <3>3. ASSUME NEW f \in MasterNumber, wanted[f] # 0
          PROVE  GetMapInt64(f, a.params) = wanted[f]
      <4>1. GetMapString(f, a.params) \in {x \in Texts : Atoi[x] = wanted[f]}
        <5>1. req[f] = wanted[f]
          BY <1>1, <1>4, <1>5 DEF Carried
        <5> QED
          BY <1>3, <3>1, <3>3, <5>1
      <4>2. wanted[f] \in Int
        BY <1>1, Classes DEF SpecOK
      <4> QED
        BY <4>1, <4>2, NumberReturns
    <3>4. ASSUME NEW f \in DOMAIN MasterList, wanted[f] # <<>>
          PROVE  Split[GetMapString(MasterList[f], a.params)] = wanted[f]
      <4>1. req[f] = wanted[f]
        BY <1>1, <1>4, <1>5 DEF Carried
      <4> QED
        BY <1>3, <3>1, <3>4, <4>1
    <3>5. GetMapBoolean("MasterAutoRenew", a.params) = wanted["MasterAutoRenew"]
      <4>1. /\ "MasterAutoRenew" \in Carried \ {"Imported", "NodeCidrMask"}
            /\ wanted["MasterAutoRenew"] \in BOOLEAN
        BY <1>1, <1>4, Classes DEF Carried, SpecOK
      <4>2. req.MasterAutoRenew <=> GetMapString("MasterAutoRenew", c.params) \in TrueTexts
        BY <1>2, <3>1 DEF Honours
      <4> QED
        BY <1>1, <3>1, <4>1, <4>2, FlagRead
    <3> QED
      BY ZenonT(40), <1>6, <2>1, <3>2, <3>3, <3>4, <3>5, Classes, AskedMeans DEF Kept, FromMasters, Carried
  <2>2. CASE t.ClusterType # "Kubernetes"
    BY <1>6, <2>2
  <2> QED
    BY <2>1, <2>2
<1> HIDE DEF t, m
<1>8. Kept(p)
  <2>1. CASE a.params = Absent
    BY <1>6, <2>1
  <2>2. CASE a.params # Absent
    <3>0. a.params = c.params
      BY <2>2
    <3>1. ASSUME NEW f \in DOMAIN ParamText, f \in Carried, wanted[f] # ""
          PROVE  GetMapString(ParamText[f], a.params) = wanted[f]
      <4>1. f \in DOMAIN req /\ req[f] = wanted[f]
        BY <1>1, <1>4, <3>1
      <4> QED
        BY <1>3, <3>0, <3>1, <4>1
    <3>2. ASSUME NEW f \in DOMAIN ParamFlag, m[f] = wanted[f]
          PROVE  (m[f] \/ GetMapBoolean(ParamFlag[f], a.params)) = wanted[f]
      <4>1. f \in Carried \ {"Imported", "NodeCidrMask"} /\ wanted[f] \in BOOLEAN
        BY <1>1, <1>4, <1>5, Classes DEF Carried, SpecOK
      <4>2. req[f] <=> GetMapString(ParamFlag[f], a.params) \in TrueTexts
        BY <1>2, <3>0 DEF Honours
      <4> QED
        BY <1>1, <3>2, <4>1, <4>2, FlagRead
    <3>3. ASSUME wanted["NodeCidrMask"] # 0
          PROVE  Atoi[GetArgValueByKey(GetMapString("SetUpArgs", a.params))] = wanted["NodeCidrMask"]
      <4>1. wanted["NodeCidrMask"] \in Int
        BY <1>1, Classes DEF SpecOK
      <4>2. /\ Atoi[req.NodeCidrMask] = wanted["NodeCidrMask"] /\ req.NodeCidrMask # "0"
        BY <1>1, <3>3, <4>1, MaskReturns
      <4> QED
        BY <1>2, <3>0, <4>2, HonouredMask
    <3>4. wanted["NodeCidrMask"] # NotNumber
      BY <1>1, Classes, TablesAssumption DEF SpecOK
    <3>5. Kept(FromParams(m, a.params))
      <4> SUFFICES ASSUME NEW f \in Carried, Asked(f)
                   PROVE  FromParams(m, a.params)[f] = wanted[f]
        BY DEF Kept
      <4>1. m[f] = wanted[f] /\ f \in Fields
        BY <1>7, <2>2 DEF Kept, Carried
      <4>2. CASE f \in DOMAIN ParamText
        BY <3>1, <4>2, <4>1, AskedMeans, Classes DEF FromParams
      <4>3. CASE f \in DOMAIN ParamFlag
        BY <3>2, <4>3, <4>1, Classes DEF FromParams
      <4>4. CASE f = "NodeCidrMask"
        BY <3>3, <3>4, <4>4, <4>1, AskedMeans, Classes DEF FromParams
      <4>5. CASE f = "MasterVswitchIds"
        BY <4>5, <4>1, AskedMeans, Classes DEF FromParams
      <4>6. CASE f \notin DOMAIN ParamText \cup DOMAIN ParamFlag
                            \cup {"NodeCidrMask", "MasterVswitchIds"}
        BY <4>6, <4>1 DEF FromParams
      <4> QED
        BY <4>2, <4>3, <4>4, <4>5, <4>6
    <3> QED
      BY <2>2, <3>5
  <2> QED
    BY <2>1, <2>2
<1>9. wanted["ProxyMode"] # "" /\ a.outputs # Absent => a.outputs = wanted["ProxyMode"]
  <2>1. "ProxyMode" \in Carried \ {"Imported", "NodeCidrMask"}
    BY <1>4, <1>5 DEF Carried
  <2> QED
    BY <1>2, <1>1, <2>1 DEF Honours
<1>10. FixConfig(s, a) = [p EXCEPT !.ProxyMode = IF a.outputs = Absent THEN @ ELSE a.outputs]
  BY DEF FixConfig, t, m
<1>11. DOMAIN p = Fields
  BY TopKeeps, ParamsKeep DEF t
<1> HIDE DEF p
<1>12. FixConfig(s, a).ProxyMode = (IF a.outputs = Absent THEN p.ProxyMode ELSE a.outputs)
       /\ \A f \in Fields \ {"ProxyMode"} : FixConfig(s, a)[f] = p[f]
  BY <1>10, <1>11, Classes
<1>13. "ProxyMode" \in TextFields /\ \A f \in Carried : f \in Fields
  BY Classes DEF Carried
<1> QED
  BY <1>8, <1>9, <1>12, <1>13, AskedMeans DEF Kept

\* Nobody but the operator has changed the config or the cluster.
Untouched == edits = 0 /\ changes = 0 /\ ~wanted.Imported

\* Every copy has what was asked for: one without a cluster because it is still
\* what was asked for, one with a cluster because that cluster honours it.
KeptInv ==
  /\ wanted \in Specs /\ edits \in Nat /\ changes \in Nat
  /\ pc = "create" => ~obj.named
  /\ Untouched => \A o \in Copies :
       IF o.named THEN Kept(o.spec) /\ Honours(attrs, newClusterCreateRequest(wanted))
       ELSE o.spec = wanted

LEMMA InitKept == ASSUME Init PROVE KeptInv
<1>1. PICK s \in Specs : cr = [rv |-> 1, spec |-> s, named |-> s.Imported]
  BY DEF Init
<1>2. Copies = {cr} /\ wanted = s /\ edits = 0 /\ changes = 0 /\ pc = "idle"
  BY <1>1 DEF Init, Copies
<1>3. Untouched => ~cr.named /\ cr.spec = wanted
  BY <1>1, <1>2 DEF Untouched
<1> QED
  BY <1>2, <1>3 DEF KeptInv

LEMMA StepKept == ASSUME IInv, KeptInv, [Next]_vars PROVE KeptInv'
<1>1. wanted' = wanted /\ wanted \in Specs
  BY DEF KeptInv, Next, Handler, Sync, Create, Get, Save, Deliver, UserEdit, ClusterUp,
         ClusterChange, vars
<1>2. edits' \in Nat /\ changes' \in Nat
  BY DEF KeptInv, Next, Handler, Sync, Create, Get, Save, Deliver, UserEdit, ClusterUp,
         ClusterChange, vars
<1>3. pc' = "create" => ~obj'.named
  BY DEF KeptInv, Next, Handler, Sync, Create, Get, Save, Deliver, UserEdit, ClusterUp,
         ClusterChange, Idle, vars
<1>4. ASSUME Untouched' PROVE Untouched /\ ~UserEdit /\ (attrs' = attrs \/ Create)
  BY <1>1, <1>4
  DEF KeptInv, Untouched, Next, Handler, Sync, Create, Get, Save, Deliver, UserEdit,
      ClusterUp, ClusterChange, vars, cluster
<1>5. ASSUME NEW f PROVE Asked(f)' <=> Asked(f)
  BY <1>1 DEF Asked, Nothing
<1>6. ASSUME NEW s PROVE Kept(s)' <=> Kept(s)
  BY <1>1, <1>5 DEF Kept
<1>7. Kept(wanted)
  BY DEF Kept
<1>8. ASSUME Untouched', attrs' = attrs \/ Honours(attrs', newClusterCreateRequest(wanted)),
             NEW c \in Copies'
      PROVE  IF c.named THEN Kept(c.spec) /\ Honours(attrs', newClusterCreateRequest(wanted))
             ELSE c.spec = wanted
  <2>1. CASE \E o \in Copies : c.spec = o.spec /\ c.named = o.named
    BY <1>4, <1>8, <2>1 DEF KeptInv
  <2>2. CASE /\ Create /\ c.spec = obj.spec /\ c.named = TRUE
             /\ Honours(attrs', newClusterCreateRequest(obj.spec))
    <3>1. obj \in Copies /\ ~obj.named
      BY <2>2 DEF Create, Copies, KeptInv
    <3>2. obj.spec = wanted
      BY <1>4, <1>8, <3>1 DEF KeptInv
    <3> QED
      BY <1>7, <2>2, <3>2
  <2>3. CASE Get /\ c.spec = FixConfig(obj.spec, Answer) /\ c.named = obj.named
    <3>1. obj \in Copies /\ obj.named /\ attrs \in Clusters
      BY <2>3 DEF Get, Copies, IInv, CopyOK
    <3>2. Kept(obj.spec) /\ Honours(attrs, newClusterCreateRequest(wanted))
      BY <1>4, <1>8, <3>1 DEF KeptInv
    <3>3. Kept(FixConfig(obj.spec, Answer))
      BY <1>1, <3>1, <3>2, AnswerTyped, FixConfigReturns
    <3>4. attrs' = attrs
      BY <2>3 DEF Get
    <3> QED
      BY <2>3, <3>1, <3>2, <3>3, <3>4
  <2> QED
    BY <1>4, <1>8, <2>1, <2>2, <2>3, NewCopy
<1>9. ASSUME Untouched' PROVE attrs' = attrs \/ Honours(attrs', newClusterCreateRequest(wanted))
  <2> SUFFICES ASSUME Create, attrs' # attrs
               PROVE  Honours(attrs', newClusterCreateRequest(wanted))
    BY <1>4, <1>9
  <2>1. Honours(attrs', newClusterCreateRequest(obj.spec))
    BY DEF Create, cluster
  <2>2. obj \in Copies /\ ~obj.named
    BY DEF Create, Copies, KeptInv
  <2>3. obj.spec = wanted
    BY <1>4, <1>9, <2>2 DEF KeptInv
  <2> QED
    BY <2>1, <2>3
<1>10. newClusterCreateRequest(wanted)' = newClusterCreateRequest(wanted)
  BY <1>1 DEF newClusterCreateRequest, Itoa
<1>11. Untouched' => \A c \in Copies' :
         IF c.named THEN Kept(c.spec)' /\ Honours(attrs', newClusterCreateRequest(wanted)')
         ELSE c.spec = wanted'
  BY <1>1, <1>6, <1>8, <1>9, <1>10
<1> QED
  BY <1>1, <1>2, <1>3, <1>11 DEF KeptInv

\* newClusterCreateRequest, instance.go, and FixConfig: as long as nobody else
\* changes the config or the cluster, what the user asked for stays in the spec,
\* whatever texts, specs and clusters there are and whatever calls fail.
THEOREM WhatIsAskedIsKept == Spec => []AskedIsKept
<1>1. KeptInv => AskedIsKept
  <2>1. cr \in Copies
    BY DEF Copies
  <2> QED
    BY <2>1 DEF KeptInv, Untouched, Kept, Carried, AskedIsKept
<1> QED
  BY <1>1, InitKept, StepKept, CopiesAreGood, PTL DEF Spec
=============================================================================
