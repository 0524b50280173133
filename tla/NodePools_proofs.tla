--------------------------- MODULE NodePools_proofs ---------------------------
(***************************************************************************)
(* What a batch of node pool requests may rely on, for any lists, quota    *)
(* and number of edits, faults and outside steps.                          *)
(***************************************************************************)
EXTENDS PoolsInvariant, FiniteSetTheorems, SequenceTheorems, TLAPS

-----------------------------------------------------------------------------
(* The queues of the batch.                                                *)

\* The members at the positions I are taken one by one, the nth at at[n].
Enumerates(l, I, at) ==
  LET c == Cardinality(I)
  IN  /\ c \in Nat /\ at \in [1 .. c -> I]
      /\ Selected(l, I) = [n \in 1 .. c |-> l[at[n]]]
      /\ \A m, n \in 1 .. c : at[m] = at[n] => m = n
      /\ \A i \in I : \E n \in 1 .. c : at[n] = i

LEMMA Enumerated ==
  ASSUME NEW l, NEW N \in Nat, NEW I \in SUBSET (1 .. N)
  PROVE  \E at : Enumerates(l, I, at)
<1> DEFINE c == Cardinality(I)
           upTo(i) == {j \in I : j <= i}
           rank == [i \in I |-> Cardinality(upTo(i))]
           at == [n \in 1 .. c |-> CHOOSE k \in I : Cardinality(upTo(k)) = n]
<1>1. IsFiniteSet(I) /\ c \in Nat
  <2>1. IsFiniteSet(1 .. N) BY FS_Interval
  <2> QED BY <2>1, FS_Subset, FS_CardinalityType
<1>2. \A i \in I : /\ IsFiniteSet(upTo(i)) /\ rank[i] \in 1 .. c
  <2> TAKE i \in I
  <2>1. upTo(i) \in SUBSET I /\ upTo(i) # {} OBVIOUS
  <2>2. /\ IsFiniteSet(upTo(i)) /\ Cardinality(upTo(i)) <= c
    BY <1>1, <2>1, FS_Subset
  <2>3. Cardinality(upTo(i)) \in Nat /\ Cardinality(upTo(i)) # 0
    BY <2>1, <2>2, FS_EmptySet, FS_CardinalityType
  <2> QED BY <1>1, <2>2, <2>3
<1>3. \A i, j \in I : i < j => rank[i] # rank[j]
  <2> SUFFICES ASSUME NEW i \in I, NEW j \in I, i < j PROVE rank[i] # rank[j] OBVIOUS
  <2>1. upTo(i) \in SUBSET upTo(j) /\ upTo(i) # upTo(j)
    <3>1. i \in Int /\ j \in Int /\ I \subseteq Int OBVIOUS
    <3>2. \A k \in I : k <= i => k <= j BY <3>1
    <3>3. j \in upTo(j) /\ j \notin upTo(i) BY <3>1
    <3> QED BY <3>2, <3>3
  <2> HIDE DEF upTo
  <2>2. Cardinality(upTo(i)) # Cardinality(upTo(j))
    BY <1>2, <2>1, FS_Subset
  <2> QED BY <2>2
<1>4. \A i, j \in I : rank[i] = rank[j] => i = j
  BY <1>3
<1>5. rank \in Injection(I, 1 .. c)
  <2> HIDE DEF upTo
  <2>1. rank \in [I -> 1 .. c] BY <1>2
  <2> HIDE DEF rank
  <2> QED BY <2>1, <1>4, Zenon DEF Injection, IsInjective
<1>6. rank \in Surjection(I, 1 .. c)
  <2>1. IsFiniteSet(1 .. c) /\ Cardinality(1 .. c) = c
    BY <1>1, FS_Interval
  <2> HIDE DEF rank
  <2> QED BY <2>1, <1>5, FS_Injection
<1>7. \A n \in 1 .. c : at[n] \in I /\ rank[at[n]] = n
  <2> TAKE n \in 1 .. c
  <2>1. \E k \in I : rank[k] = n
    <3> HIDE DEF rank
    <3> QED BY <1>6 DEF Surjection
  <2>2. \E k \in I : Cardinality(upTo(k)) = n
    BY <2>1
  <2> QED BY <2>2
<1>8. at \in [1 .. c -> I]
  BY <1>7
<1>9. Selected(l, I) = [n \in 1 .. c |-> l[at[n]]]
  BY DEF Selected
<1> HIDE DEF at, rank, c
<1>10. \A i \in I : at[rank[i]] = i
  BY <1>2, <1>4, <1>7
<1>11. \A m, n \in 1 .. c : at[m] = at[n] => m = n
  BY <1>7
<1>12. \A i \in I : \E n \in 1 .. c : at[n] = i
  BY <1>2, <1>10
<1>13. Enumerates(l, I, at)
  BY <1>1, <1>8, <1>9, <1>11, <1>12 DEF Enumerates, c
<1> QED
  BY <1>13

Tasked == [do : Kinds, np : Entry]

\* at says from which position of s, among I, each task of the queue q comes.
Queues(q, kind, s, I, at) ==
  /\ q \in Seq(Tasked)
  /\ at \in [DOMAIN q -> I]
  /\ \A n \in DOMAIN q : q[n].do = kind /\ q[n].np = s[at[n]]
  /\ \A m, n \in DOMAIN q : at[m] = at[n] => m = n
  /\ \A i \in I : \E n \in DOMAIN q : at[n] = i

LEMMA TasksQueue ==
  ASSUME NEW kind \in Kinds, NEW s, NEW N \in Nat, NEW I \in SUBSET (1 .. N),
         \A i \in I : s[i] \in Entry
  PROVE  \E at : Queues(Tasks(kind, s, I), kind, s, I, at)
<1> DEFINE c == Cardinality(I)
           q == Tasks(kind, s, I)
<1>1. PICK at : Enumerates(s, I, at)
  BY Enumerated
<1>2. /\ c \in Nat /\ at \in [1 .. c -> I]
      /\ Selected(s, I) = [n \in 1 .. c |-> s[at[n]]]
      /\ \A m, n \in 1 .. c : at[m] = at[n] => m = n
      /\ \A i \in I : \E n \in 1 .. c : at[n] = i
  BY <1>1 DEF Enumerates
<1>3. q = [n \in 1 .. c |-> Task(kind, s[at[n]])]
  <2>1. q = [n \in 1 .. c |-> Task(kind, Selected(s, I)[n])]
    BY DEF Tasks
  <2> HIDE DEF c, q
  <2> QED BY <1>2, <2>1
<1> HIDE DEF c, q
<1>4. \A n \in 1 .. c : Task(kind, s[at[n]]) \in Tasked
  BY <1>2 DEF Task, Tasked
<1>5. q \in Seq(Tasked) /\ DOMAIN q = 1 .. c
  <2>1. q \in [1 .. c -> Tasked] BY <1>3, <1>4
  <2> QED BY <1>2, <2>1, SeqDef
<1>6. \A n \in DOMAIN q : q[n].do = kind /\ q[n].np = s[at[n]]
  BY <1>3, <1>5 DEF Task
<1>7. Queues(q, kind, s, I, at)
  BY <1>2, <1>5, <1>6 DEF Queues
<1> QED
  BY <1>7 DEF q

LEMMA FourQueues ==
  ASSUME NEW S, NEW a \in Seq(S), NEW b \in Seq(S), NEW c \in Seq(S), NEW d \in Seq(S),
         NEW q, q = a \o b \o c \o d
  PROVE  /\ q \in Seq(S)
         /\ Len(q) = Len(a) + Len(b) + Len(c) + Len(d)
         /\ \A n \in 1 .. Len(q) :
              q[n] = IF n <= Len(a) THEN a[n]
                     ELSE IF n <= Len(a) + Len(b) THEN b[n - Len(a)]
                     ELSE IF n <= Len(a) + Len(b) + Len(c) THEN c[n - Len(a) - Len(b)]
                     ELSE d[n - Len(a) - Len(b) - Len(c)]
<1>0. Len(a) \in Nat /\ Len(b) \in Nat /\ Len(c) \in Nat /\ Len(d) \in Nat
  BY LenProperties
<1>1. /\ a \o b \in Seq(S) /\ Len(a \o b) = Len(a) + Len(b)
      /\ \A n \in 1 .. Len(a) + Len(b) :
           (a \o b)[n] = IF n <= Len(a) THEN a[n] ELSE b[n - Len(a)]
  BY ConcatProperties
<1> DEFINE ab == a \o b
<1>2. /\ ab \o c \in Seq(S) /\ Len(ab \o c) = Len(ab) + Len(c)
      /\ \A n \in 1 .. Len(ab) + Len(c) :
           (ab \o c)[n] = IF n <= Len(ab) THEN ab[n] ELSE c[n - Len(ab)]
  <2>1. ab \in Seq(S) BY <1>1
  <2> HIDE DEF ab
  <2> QED BY <2>1, ConcatProperties
<1> DEFINE abc == ab \o c
<1>3. /\ abc \o d \in Seq(S) /\ Len(abc \o d) = Len(abc) + Len(d)
      /\ \A n \in 1 .. Len(abc) + Len(d) :
           (abc \o d)[n] = IF n <= Len(abc) THEN abc[n] ELSE d[n - Len(abc)]
  <2>1. abc \in Seq(S) BY <1>2
  <2> HIDE DEF abc
  <2> QED BY <2>1, ConcatProperties
<1>4. q = abc \o d OBVIOUS
<1>5. Len(ab) = Len(a) + Len(b) /\ Len(abc) = Len(a) + Len(b) + Len(c)
  BY <1>1, <1>2
<1>6. \A n \in 1 .. Len(a) + Len(b) : ab[n] = IF n <= Len(a) THEN a[n] ELSE b[n - Len(a)]
  BY <1>1
<1>7. \A n \in 1 .. Len(ab) + Len(c) : abc[n] = IF n <= Len(ab) THEN ab[n] ELSE c[n - Len(ab)]
  BY <1>2
<1>8. \A n \in 1 .. Len(abc) + Len(d) : q[n] = IF n <= Len(abc) THEN abc[n] ELSE d[n - Len(abc)]
  BY <1>3, <1>4
<1>9. q \in Seq(S) /\ Len(q) = Len(abc) + Len(d)
  BY <1>3, <1>4
<1> HIDE DEF ab, abc
<1>10. \A n \in 1 .. Len(q) :
         q[n] = IF n <= Len(a) THEN a[n]
                ELSE IF n <= Len(a) + Len(b) THEN b[n - Len(a)]
                ELSE IF n <= Len(a) + Len(b) + Len(c) THEN c[n - Len(a) - Len(b)]
                ELSE d[n - Len(a) - Len(b) - Len(c)]
  BY <1>0, <1>5, <1>6, <1>7, <1>8, <1>9
<1>11. Len(q) = Len(a) + Len(b) + Len(c) + Len(d)
  BY <1>0, <1>5, <1>9
<1> QED
  BY <1>4, <1>9, <1>10, <1>11

LEMMA SeqTypes ==
  ASSUME NEW S, NEW s \in Seq(S)
  PROVE  Len(s) \in Nat /\ DOMAIN s = 1 .. Len(s) /\ \A i \in DOMAIN s : s[i] \in S
BY LenProperties, ElementOfSeq

LEMMA PoolTypes ==
  ASSUME TypeOK
  PROVE  /\ Len(pools) \in Nat /\ DOMAIN pools = 1 .. Len(pools) /\ DOMAIN pools \subseteq Ids
         /\ \A p \in DOMAIN pools : /\ pools[p] \in Pool
                                    /\ ToNodePoolConfigInfo(p) \in Entry
         /\ \A p : Present(p) <=> p \in GetNodePools
         /\ GetNodePools \subseteq DOMAIN pools
         /\ NoId \notin DOMAIN pools
<1>1. pools \in Seq(Pool) /\ Len(pools) <= MaxPools
  BY DEF TypeOK
<1>2. /\ Len(pools) \in Nat /\ DOMAIN pools = 1 .. Len(pools)
      /\ \A p \in DOMAIN pools : pools[p] \in Pool
  BY <1>1, SeqTypes
<1>3. DOMAIN pools \subseteq Ids
  BY <1>1, <1>2, PoolsAssumption DEF Ids
<1>4. \A p \in DOMAIN pools : ToNodePoolConfigInfo(p) \in Entry
  BY <1>2, <1>3 DEF ToNodePoolConfigInfo, Entry, Pool
<1> QED
  BY <1>2, <1>3, <1>4, PoolsAssumption DEF GetNodePools, Present

Source(l, kind) ==
  IF kind = "delete" THEN [p \in DOMAIN pools |-> ToNodePoolConfigInfo(p)] ELSE l

Positions(l, kind) ==
  CASE kind = "create" -> {i \in DOMAIN l : l[i].id = NoId /\ l[i].name # Default}
    [] kind = "update" -> {i \in DOMAIN l : Present(l[i].id) /\ pools[l[i].id].nodes # l[i].count}
    [] kind = "delete" -> {p \in GetNodePools : \A i \in DOMAIN l : l[i].id # p}
    [] kind = "rename" -> {i \in DOMAIN l : Present(l[i].id) /\ pools[l[i].id].name # l[i].name}

\* q is a plan for the list l, and at says from which entry or pool each task comes.
Planned(l, q, at) ==
  /\ q \in Seq(Tasked)
  /\ \A k \in DOMAIN q : /\ at[k] \in Positions(l, q[k].do)
                         /\ q[k].np = Source(l, q[k].do)[at[k]]
  /\ \A k, m \in DOMAIN q : q[k].do = q[m].do /\ at[k] = at[m] => k = m
  /\ \A k, m \in DOMAIN q : k < m => Rank[q[k].do] <= Rank[q[m].do]
  /\ \A kind \in Kinds : \A i \in Positions(l, kind) :
       \E k \in DOMAIN q : q[k].do = kind /\ at[k] = i

LEMMA PlanPlanned ==
  ASSUME TypeOK, NEW l \in Seq(Entry)
  PROVE  \E at : Planned(l, Plan(l), at)
<1>1. /\ Len(l) \in Nat /\ DOMAIN l = 1 .. Len(l) /\ \A i \in DOMAIN l : l[i] \in Entry
      /\ Len(pools) \in Nat /\ DOMAIN pools = 1 .. Len(pools)
      /\ GetNodePools \subseteq DOMAIN pools
      /\ \A p \in DOMAIN pools : ToNodePoolConfigInfo(p) \in Entry
  BY SeqTypes, PoolTypes
<1> DEFINE P(kind) == Positions(l, kind)
           S(kind) == Source(l, kind)
           Q(kind) == Tasks(kind, S(kind), P(kind))
<1>2. /\ P("create") \in SUBSET (1 .. Len(l)) /\ P("update") \in SUBSET (1 .. Len(l))
      /\ P("delete") \in SUBSET (1 .. Len(pools)) /\ P("rename") \in SUBSET (1 .. Len(l))
  BY <1>1 DEF Positions
<1>3. \A kind \in Kinds : \A i \in P(kind) : S(kind)[i] \in Entry
  BY <1>1, <1>2 DEF Source, Kinds
<1>4. \A kind \in Kinds : \E at : Queues(Q(kind), kind, S(kind), P(kind), at)
  <2> TAKE kind \in Kinds
  <2>1. \E N \in Nat : P(kind) \in SUBSET (1 .. N)
    BY <1>1, <1>2 DEF Kinds
  <2> HIDE DEF P, S
  <2> QED BY <1>3, <2>1, TasksQueue
<1>5. Plan(l) = Q("create") \o Q("update") \o Q("delete") \o Q("rename")
  BY DEF Plan, Positions, Source
<1> HIDE DEF Q, P, S
<1> DEFINE a == Q("create")
           b == Q("update")
           c == Q("delete")
           d == Q("rename")
<1>6. PICK at1, at2, at3, at4 : /\ Queues(a, "create", S("create"), P("create"), at1)
                                /\ Queues(b, "update", S("update"), P("update"), at2)
                                /\ Queues(c, "delete", S("delete"), P("delete"), at3)
                                /\ Queues(d, "rename", S("rename"), P("rename"), at4)
  BY <1>4 DEF Kinds
<1> HIDE DEF a, b, c, d
<1>7. /\ a \in Seq(Tasked) /\ b \in Seq(Tasked) /\ c \in Seq(Tasked) /\ d \in Seq(Tasked)
      /\ DOMAIN a = 1 .. Len(a) /\ DOMAIN b = 1 .. Len(b)
      /\ DOMAIN c = 1 .. Len(c) /\ DOMAIN d = 1 .. Len(d)
      /\ Len(a) \in Nat /\ Len(b) \in Nat /\ Len(c) \in Nat /\ Len(d) \in Nat
  BY <1>6, SeqTypes DEF Queues
<1> DEFINE q == Plan(l)
           at == [n \in 1 .. Len(q) |->
                    IF n <= Len(a) THEN at1[n]
                    ELSE IF n <= Len(a) + Len(b) THEN at2[n - Len(a)]
                    ELSE IF n <= Len(a) + Len(b) + Len(c) THEN at3[n - Len(a) - Len(b)]
                    ELSE at4[n - Len(a) - Len(b) - Len(c)]]
<1>8. q = a \o b \o c \o d
  BY <1>5 DEF a, b, c, d
<1> HIDE DEF q
<1>9. /\ q \in Seq(Tasked)
      /\ Len(q) = Len(a) + Len(b) + Len(c) + Len(d)
      /\ \A n \in 1 .. Len(q) :
           q[n] = IF n <= Len(a) THEN a[n]
                  ELSE IF n <= Len(a) + Len(b) THEN b[n - Len(a)]
                  ELSE IF n <= Len(a) + Len(b) + Len(c) THEN c[n - Len(a) - Len(b)]
                  ELSE d[n - Len(a) - Len(b) - Len(c)]
  BY <1>7, <1>8, FourQueues
<1>10. DOMAIN q = 1 .. Len(q)
  BY <1>9, SeqTypes
\* Where the task n comes from, by the queue it is in.
<1>11. \A n \in DOMAIN q :
         \/ n \in DOMAIN a /\ q[n] = a[n] /\ at[n] = at1[n]
         \/ \E m \in DOMAIN b : n = Len(a) + m /\ q[n] = b[m] /\ at[n] = at2[m]
         \/ \E m \in DOMAIN c : n = Len(a) + Len(b) + m /\ q[n] = c[m] /\ at[n] = at3[m]
         \/ \E m \in DOMAIN d : n = Len(a) + Len(b) + Len(c) + m /\ q[n] = d[m] /\ at[n] = at4[m]
  <2> TAKE n \in DOMAIN q
  <2> DEFINE m2 == n - Len(a)
             m3 == n - Len(a) - Len(b)
             m4 == n - Len(a) - Len(b) - Len(c)
  <2>1. n \in 1 .. Len(q) BY <1>10
  <2>2. CASE n <= Len(a)
    BY <1>7, <1>9, <2>1, <2>2
  <2>3. CASE n > Len(a) /\ n <= Len(a) + Len(b)
    <3>1. m2 \in DOMAIN b /\ n = Len(a) + m2 BY <1>7, <2>1, <2>3
    <3> QED BY <1>7, <1>9, <2>1, <2>3, <3>1
  <2>4. CASE n > Len(a) + Len(b) /\ n <= Len(a) + Len(b) + Len(c)
    <3>1. m3 \in DOMAIN c /\ n = Len(a) + Len(b) + m3 BY <1>7, <2>1, <2>4
    <3>2. q[n] = c[m3] /\ at[n] = at3[m3] BY <1>7, <1>9, <2>1, <2>4
    <3> HIDE DEF m3, at
    <3> QED BY <3>1, <3>2
  <2>5. CASE n > Len(a) + Len(b) + Len(c)
    <3>1. m4 \in DOMAIN d /\ n = Len(a) + Len(b) + Len(c) + m4 BY <1>7, <1>9, <2>1, <2>5
    <3>2. q[n] = d[m4] /\ at[n] = at4[m4] BY <1>7, <1>9, <2>1, <2>5
    <3> HIDE DEF m4, at
    <3> QED BY <3>1, <3>2
  <2> QED BY <1>7, <2>1, <2>2, <2>3, <2>4, <2>5
\* And where the tasks of each queue are.
<1>12. /\ \A n \in DOMAIN a : n \in DOMAIN q /\ q[n] = a[n] /\ at[n] = at1[n]
       /\ \A m \in DOMAIN b : LET n == Len(a) + m
                               IN  n \in DOMAIN q /\ q[n] = b[m] /\ at[n] = at2[m]
       /\ \A m \in DOMAIN c : LET n == Len(a) + Len(b) + m
                               IN  n \in DOMAIN q /\ q[n] = c[m] /\ at[n] = at3[m]
       /\ \A m \in DOMAIN d : LET n == Len(a) + Len(b) + Len(c) + m
                               IN  n \in DOMAIN q /\ q[n] = d[m] /\ at[n] = at4[m]
  <2>1. \A n \in DOMAIN a : n \in DOMAIN q /\ q[n] = a[n] /\ at[n] = at1[n]
    BY <1>7, <1>9, <1>10
  <2>2. ASSUME NEW m \in DOMAIN b
        PROVE  LET n == Len(a) + m IN n \in DOMAIN q /\ q[n] = b[m] /\ at[n] = at2[m]
    <3> DEFINE n == Len(a) + m
    <3>1. n \in 1 .. Len(q) /\ n > Len(a) /\ n <= Len(a) + Len(b) /\ n - Len(a) = m
      BY <1>7, <1>9
    <3> HIDE DEF n
    <3>2. n \in DOMAIN q /\ q[n] = b[m] /\ at[n] = at2[m] BY <1>7, <1>9, <1>10, <3>1
    <3> QED BY <3>2 DEF n
  <2>3. ASSUME NEW m \in DOMAIN c
        PROVE  LET n == Len(a) + Len(b) + m IN n \in DOMAIN q /\ q[n] = c[m] /\ at[n] = at3[m]
    <3> DEFINE n == Len(a) + Len(b) + m
    <3>1. /\ n \in 1 .. Len(q) /\ n > Len(a) + Len(b) /\ n <= Len(a) + Len(b) + Len(c)
          /\ n - Len(a) - Len(b) = m /\ n > Len(a)
      BY <1>7, <1>9
    <3> HIDE DEF n
    <3>2. n \in DOMAIN q /\ q[n] = c[m] /\ at[n] = at3[m] BY <1>7, <1>9, <1>10, <3>1
    <3> QED BY <3>2 DEF n
  <2>4. ASSUME NEW m \in DOMAIN d
        PROVE  LET n == Len(a) + Len(b) + Len(c) + m
               IN  n \in DOMAIN q /\ q[n] = d[m] /\ at[n] = at4[m]
    <3> DEFINE n == Len(a) + Len(b) + Len(c) + m
    <3>1. /\ n \in 1 .. Len(q) /\ n > Len(a) + Len(b) + Len(c)
          /\ n - Len(a) - Len(b) - Len(c) = m /\ n > Len(a) + Len(b) /\ n > Len(a)
      BY SMTT(20), <1>7, <1>9
    <3> HIDE DEF n
    <3>2. n \in DOMAIN q /\ q[n] = d[m] /\ at[n] = at4[m] BY <1>7, <1>9, <1>10, <3>1
    <3> QED BY <3>2 DEF n
  <2> HIDE DEF at
  <2> QED BY <2>1, <2>2, <2>3, <2>4
<1> HIDE DEF at
<1>13. /\ \A n \in DOMAIN a : a[n].do = "create" /\ a[n].np = S("create")[at1[n]] /\ at1[n] \in P("create")
       /\ \A n \in DOMAIN b : b[n].do = "update" /\ b[n].np = S("update")[at2[n]] /\ at2[n] \in P("update")
       /\ \A n \in DOMAIN c : c[n].do = "delete" /\ c[n].np = S("delete")[at3[n]] /\ at3[n] \in P("delete")
       /\ \A n \in DOMAIN d : d[n].do = "rename" /\ d[n].np = S("rename")[at4[n]] /\ at4[n] \in P("rename")
  BY <1>6 DEF Queues
<1>14. /\ \A m, n \in DOMAIN a : at1[m] = at1[n] => m = n
       /\ \A m, n \in DOMAIN b : at2[m] = at2[n] => m = n
       /\ \A m, n \in DOMAIN c : at3[m] = at3[n] => m = n
       /\ \A m, n \in DOMAIN d : at4[m] = at4[n] => m = n
  BY <1>6 DEF Queues
<1>15. /\ \A i \in P("create") : \E n \in DOMAIN a : at1[n] = i
       /\ \A i \in P("update") : \E n \in DOMAIN b : at2[n] = i
       /\ \A i \in P("delete") : \E n \in DOMAIN c : at3[n] = i
       /\ \A i \in P("rename") : \E n \in DOMAIN d : at4[n] = i
  BY <1>6 DEF Queues
<1>16. \A k \in DOMAIN q : at[k] \in P(q[k].do) /\ q[k].np = S(q[k].do)[at[k]]
  BY <1>11, <1>13
<1>17. \A k, m \in DOMAIN q : q[k].do = q[m].do /\ at[k] = at[m] => k = m
  BY <1>11, <1>13, <1>14
<1>18. \A k, m \in DOMAIN q : k < m => Rank[q[k].do] <= Rank[q[m].do]
  <2> SUFFICES ASSUME NEW k \in DOMAIN q, NEW m \in DOMAIN q, k < m
               PROVE  Rank[q[k].do] <= Rank[q[m].do] OBVIOUS
  <2>1. \A n \in DOMAIN q :
          \/ q[n].do = "create" /\ n <= Len(a)
          \/ q[n].do = "update" /\ n > Len(a) /\ n <= Len(a) + Len(b)
          \/ q[n].do = "delete" /\ n > Len(a) + Len(b) /\ n <= Len(a) + Len(b) + Len(c)
          \/ q[n].do = "rename" /\ n > Len(a) + Len(b) + Len(c)
    <3> TAKE n \in DOMAIN q
    <3>1. CASE n \in DOMAIN a /\ q[n] = a[n]
      BY <1>7, <1>13, <3>1
    <3>2. CASE \E x \in DOMAIN b : n = Len(a) + x /\ q[n] = b[x]
      BY <1>7, <1>13, <3>2
    <3>3. CASE \E x \in DOMAIN c : n = Len(a) + Len(b) + x /\ q[n] = c[x]
      BY <1>7, <1>13, <3>3
    <3>4. CASE \E x \in DOMAIN d : n = Len(a) + Len(b) + Len(c) + x /\ q[n] = d[x]
      BY <1>7, <1>13, <3>4
    <3> QED BY <1>11, <3>1, <3>2, <3>3, <3>4
  <2>2. k \in Int /\ m \in Int BY <1>10
  <2>3. /\ Rank["create"] = 1 /\ Rank["update"] = 2 /\ Rank["delete"] = 3 /\ Rank["rename"] = 4
    BY DEF Rank
  <2> DEFINE r(n) == Rank[q[n].do]
             s1 == Len(a)
             s2 == s1 + Len(b)
             s3 == s2 + Len(c)
             In(n) == \/ r(n) = 1 /\ n <= s1
                      \/ r(n) = 2 /\ n > s1 /\ n <= s2
                      \/ r(n) = 3 /\ n > s2 /\ n <= s3
                      \/ r(n) = 4 /\ n > s3
  <2>4. In(k) /\ In(m)
    <3>1. \A n \in DOMAIN q : In(n)
      BY <2>1, <2>3
    <3> QED BY <3>1
  <2>5. s1 \in Nat /\ s2 \in Nat /\ s3 \in Nat /\ s1 <= s2 /\ s2 <= s3
    BY <1>7
  <2> HIDE DEF r, s1, s2, s3
  <2>6. r(k) <= r(m)
    BY <2>2, <2>4, <2>5
  <2> QED BY <2>6 DEF r
<1>19. \A kind \in Kinds : \A i \in P(kind) : \E k \in DOMAIN q : q[k].do = kind /\ at[k] = i
  BY <1>12, <1>13, <1>15 DEF Kinds
<1>20. Planned(l, q, at)
  BY <1>9, <1>16, <1>17, <1>18, <1>19 DEF Planned, P, S
<1> QED
  BY <1>20 DEF q

-----------------------------------------------------------------------------
(* Types.                                                                  *)

\* What the pool p has become differs from what it was in the field f at most.
Alters(p, f) ==
  /\ pools' \in Seq(Pool) /\ Len(pools') = Len(pools) /\ DOMAIN pools' = DOMAIN pools
  /\ \A q \in DOMAIN pools : q # p => pools'[q] = pools[q]
  /\ \A g \in {"there", "name", "platform", "nodes", "target"} \ {f} : pools'[p][g] = pools[p][g]

LEMMA AlteredPool ==
  ASSUME TypeOK, NEW p \in DOMAIN pools, NEW v,
         NEW f \in {"there", "name", "platform", "nodes", "target"},
         [pools[p] EXCEPT ![f] = v] \in Pool,
         pools' = [pools EXCEPT ![p] = [pools[p] EXCEPT ![f] = v]]
  PROVE  Alters(p, f) /\ pools'[p][f] = v
<1>1. pools \in Seq(Pool) /\ p \in 1 .. Len(pools) /\ DOMAIN pools = 1 .. Len(pools)
  BY PoolTypes DEF TypeOK
<1> PICK r : r = [pools[p] EXCEPT ![f] = v]
  OBVIOUS
<1>2. pools[p] \in Pool
  BY PoolTypes
<1>3. /\ \A g \in {"there", "name", "platform", "nodes", "target"} \ {f} : r[g] = pools[p][g]
      /\ r[f] = v
  BY <1>2 DEF Pool
<1>4. /\ pools' \in Seq(Pool) /\ Len(pools') = Len(pools)
      /\ \A j \in 1 .. Len(pools) : pools'[j] = IF j = p THEN r ELSE pools[j]
  BY <1>1, ExceptSeq
<1>5. DOMAIN pools' = DOMAIN pools
  BY <1>1, <1>4, SeqTypes
<1> QED
  BY <1>1, <1>3, <1>4, <1>5 DEF Alters

LEMMA Scaled ==
  ASSUME TypeOK, NEW p \in DOMAIN pools, NEW v \in Nat,
         pools' = [pools EXCEPT ![p].target = v]
  PROVE  Alters(p, "target") /\ pools'[p].target = v
<1>1. [pools[p] EXCEPT !["target"] = v] \in Pool
  BY PoolTypes DEF Pool
<1>2. pools' = [pools EXCEPT ![p] = [pools[p] EXCEPT !["target"] = v]]
  OBVIOUS
<1> QED
  BY <1>1, <1>2, AlteredPool

LEMMA Stepped ==
  ASSUME TypeOK, NEW p \in DOMAIN pools, NEW v \in Nat,
         pools' = [pools EXCEPT ![p].nodes = v]
  PROVE  Alters(p, "nodes") /\ pools'[p].nodes = v
<1>1. [pools[p] EXCEPT !["nodes"] = v] \in Pool
  BY PoolTypes DEF Pool
<1>2. pools' = [pools EXCEPT ![p] = [pools[p] EXCEPT !["nodes"] = v]]
  OBVIOUS
<1> QED
  BY <1>1, <1>2, AlteredPool

LEMMA Deleted ==
  ASSUME TypeOK, NEW p, DeleteNodePool(p)
  PROVE  Alters(p, "there") /\ pools'[p].there = FALSE /\ p \in GetNodePools
<1>1. p \in DOMAIN pools /\ p \in GetNodePools
  BY PoolTypes DEF DeleteNodePool
<1>2. [pools[p] EXCEPT !["there"] = FALSE] \in Pool
  BY <1>1, PoolTypes DEF Pool
<1>3. pools' = [pools EXCEPT ![p] = [pools[p] EXCEPT !["there"] = FALSE]]
  BY DEF DeleteNodePool
<1> QED
  BY <1>1, <1>2, <1>3, AlteredPool

LEMMA Relabelled ==
  ASSUME TypeOK, NEW e \in Entry, UpdateNodePool(e)
  PROVE  Alters(e.id, "name") /\ pools'[e.id].name = e.name /\ e.id \in GetNodePools
<1>1. e.id \in DOMAIN pools /\ e.id \in GetNodePools
  BY PoolTypes DEF UpdateNodePool
<1>2. [pools[e.id] EXCEPT !["name"] = e.name] \in Pool
  BY <1>1, PoolTypes DEF Pool, Entry
<1>3. pools' = [pools EXCEPT ![e.id] = [pools[e.id] EXCEPT !["name"] = e.name]]
  BY DEF UpdateNodePool
<1> QED
  BY <1>1, <1>2, <1>3, AlteredPool

LEMMA Created ==
  ASSUME TypeOK, NEW e \in Entry, CreateNodePool(e)
  PROVE  /\ pools' \in Seq(Pool) /\ Len(pools') = Len(pools) + 1 /\ Len(pools') <= MaxPools
         /\ DOMAIN pools' = DOMAIN pools \cup {Len(pools')} /\ Len(pools') \notin DOMAIN pools
         /\ \A q \in DOMAIN pools : pools'[q] = pools[q]
         /\ pools'[Len(pools')] = NewPool(e)
<1>1. NewPool(e) \in Pool /\ pools \in Seq(Pool)
  BY DEF NewPool, Pool, Entry, TypeOK
<1>2. /\ Len(pools) \in Nat /\ DOMAIN pools = 1 .. Len(pools) /\ Len(pools) < MaxPools
      /\ pools' = Append(pools, NewPool(e))
  BY PoolTypes DEF CreateNodePool
<1>3. /\ pools' \in Seq(Pool) /\ Len(pools') = Len(pools) + 1
      /\ \A i \in 1 .. Len(pools) : pools'[i] = pools[i]
      /\ pools'[Len(pools) + 1] = NewPool(e)
  BY <1>1, <1>2, AppendProperties
<1>4. DOMAIN pools' = 1 .. Len(pools')
  BY <1>3, SeqTypes
<1> QED
  BY <1>2, <1>3, <1>4, PoolsAssumption

LEMMA TodoTypes ==
  ASSUME TypeOK, todo # <<>>
  PROVE  /\ Len(todo) \in Nat \ {0} /\ DOMAIN todo = 1 .. Len(todo)
         /\ \A k \in DOMAIN todo : todo[k].np \in Entry /\ todo[k].do \in Kinds
         /\ 1 \in DOMAIN todo /\ Head(todo) = todo[1] /\ np = todo[1].np
         /\ np \in Entry
<1>1. todo \in Seq(Tasked)
  BY DEF TypeOK, Tasked
<1>2. Len(todo) \in Nat \ {0} /\ DOMAIN todo = 1 .. Len(todo) /\ Head(todo) = todo[1]
  BY <1>1, SeqTypes, EmptySeq
<1>3. \A k \in DOMAIN todo : todo[k].np \in Entry /\ todo[k].do \in Kinds
  <2>1. \A k \in DOMAIN todo : todo[k] \in Tasked BY <1>1, SeqTypes
  <2> QED BY <2>1 DEF Tasked
<1> QED
  BY <1>2, <1>3 DEF np

\* How the tasks move up.
LEMMA GoShifts ==
  ASSUME TypeOK, todo # <<>>, NEW point, NEW bad, Go(point, bad)
  PROVE  /\ todo' \in Seq(Tasked) /\ DOMAIN todo' \subseteq Nat \ {0}
         /\ point = "work" =>
              /\ \A k \in DOMAIN todo' : k + 1 \in DOMAIN todo /\ todo'[k] = todo[k + 1]
              /\ \A k \in DOMAIN todo : k # 1 => k - 1 \in DOMAIN todo' /\ todo'[k - 1] = todo[k]
         /\ point # "work" => todo' = todo
<1>1. todo \in Seq(Tasked)
  BY DEF TypeOK, Tasked
<1>2. /\ Tail(todo) \in Seq(Tasked) /\ Len(Tail(todo)) = Len(todo) - 1
      /\ \A i \in 1 .. Len(Tail(todo)) : Tail(todo)[i] = todo[i + 1]
  BY <1>1, HeadTailProperties
<1>3. DOMAIN Tail(todo) = 1 .. Len(Tail(todo))
  BY <1>2, SeqTypes
<1>4. DOMAIN todo = 1 .. Len(todo) /\ Len(todo) \in Nat \ {0}
  BY TodoTypes
<1>5. /\ \A k \in DOMAIN Tail(todo) : k + 1 \in DOMAIN todo /\ Tail(todo)[k] = todo[k + 1]
      /\ \A k \in DOMAIN todo : k # 1 => k - 1 \in DOMAIN Tail(todo) /\ Tail(todo)[k - 1] = todo[k]
  BY <1>2, <1>3, <1>4
<1>6. todo' = IF point = "work" THEN Tail(todo) ELSE todo
  BY DEF Go
<1>7. DOMAIN todo \subseteq Nat \ {0} /\ DOMAIN Tail(todo) \subseteq Nat \ {0}
  BY <1>2, <1>3, <1>4
<1>8. CASE point = "work"
  BY <1>2, <1>5, <1>6, <1>7, <1>8
<1>9. CASE point # "work"
  BY <1>1, <1>6, <1>7, <1>9
<1> QED
  BY <1>8, <1>9

\* The pools stay a sequence of pools, of which none is forgotten.
PoolsStay ==
  /\ pools' \in Seq(Pool) /\ Len(pools') <= MaxPools
  /\ DOMAIN pools \subseteq DOMAIN pools'

LEMMA AlteredStay ==
  ASSUME TypeOK, NEW p, NEW f, Alters(p, f)
  PROVE  PoolsStay
BY DEF Alters, PoolsStay, TypeOK

LEMMA CreatedStay ==
  ASSUME TypeOK, NEW e \in Entry, CreateNodePool(e)
  PROVE  PoolsStay
BY Created DEF PoolsStay

\* A task about a pool that was listed is about one that was made.
LEMMA TaskPool ==
  ASSUME TypeOK, IdsMade, todo # <<>>, Head(todo).do # "create"
  PROVE  /\ np.id \in DOMAIN pools /\ np.id \in DOMAIN listed
         /\ listed[np.id] \in Pool /\ np.count \in Nat
<1>1. np.id \in DOMAIN listed /\ np.id \in DOMAIN pools /\ np \in Entry
  BY TodoTypes DEF IdsMade
<1>2. listed \in Seq(Pool)
  BY DEF TypeOK
<1> QED
  BY <1>1, <1>2, SeqTypes DEF Entry

\* What the tasks do to the pools.
LEMMA ScaleUpStays ==
  ASSUME TypeOK, IdsMade, todo # <<>>, Head(todo).do = "update", Shortfall > 0,
         ScaleUpNodePool(np.id, Shortfall)
  PROVE  /\ Alters(np.id, "target")
         /\ pools'[np.id].target = pools[np.id].target + np.count - listed[np.id].nodes
<1>1. /\ np.id \in DOMAIN pools /\ listed[np.id].nodes \in Nat /\ np.count \in Nat
      /\ pools[np.id].target \in Nat
  BY TaskPool, PoolTypes DEF Pool
<1>2. pools[np.id].target + Shortfall \in Nat
  BY <1>1 DEF Shortfall
<1>3. pools' = [pools EXCEPT ![np.id].target = pools[np.id].target + Shortfall]
  BY DEF ScaleUpNodePool
<1>4. Alters(np.id, "target") /\ pools'[np.id].target = pools[np.id].target + Shortfall
  BY <1>1, <1>2, <1>3, Scaled
<1> QED
  BY <1>1, <1>4 DEF Shortfall

LEMMA ScaleDownStays ==
  ASSUME TypeOK, NEW p \in DOMAIN pools, NEW n \in Int, ScaleDownNodePool(p, n)
  PROVE  /\ Alters(p, "target")
         /\ pools'[p].target = IF pools[p].target < n THEN 0 ELSE pools[p].target - n
<1>1. pools[p].target \in Nat
  BY PoolTypes DEF Pool
<1>2. pools' = [pools EXCEPT ![p].target =
                 IF pools[p].target < n THEN 0 ELSE pools[p].target - n]
  BY DEF ScaleDownNodePool
<1>3. (IF pools[p].target < n THEN 0 ELSE pools[p].target - n) \in Nat
  BY <1>1
<1> QED
  BY <1>2, <1>3, Scaled

LEMMA EndTyped ==
  ASSUME TypeOK, PoolsStay, NEW again \in BOOLEAN, End(again), spec' \in {spec, list},
         fresh' = fresh, faults' \in Nat, UNCHANGED <<clear, edits, outside>>
  PROVE  TypeOK'
BY EmptySeq DEF TypeOK, PoolsStay, End, Points

LEMMA GoTyped ==
  ASSUME TypeOK, PoolsStay, todo # <<>>, NEW bad \in BOOLEAN,
         NEW point \in {"work", "removeNodes", "drain", "deletePool"}, Go(point, bad),
         list' \in Seq(Entry), found' \in Nat, changed' \in BOOLEAN, faults' \in Nat,
         UNCHANGED <<clear, edits, outside>>
  PROVE  TypeOK'
<1>1. todo' \in Seq(Tasked)
  BY GoShifts
<1> QED
  BY <1>1 DEF TypeOK, PoolsStay, Go, Points, Tasked

LEMMA AbortTyped ==
  ASSUME TypeOK, PoolsStay, Abort, faults' \in Nat, UNCHANGED <<clear, edits, outside>>
  PROVE  TypeOK'
BY EndTyped DEF Abort

LEMMA SameStay ==
  ASSUME TypeOK, UNCHANGED pools
  PROVE  PoolsStay
BY DEF TypeOK, PoolsStay

LEMMA FaultTyped ==
  ASSUME TypeOK, Fault
  PROVE  faults' \in Nat
BY DEF TypeOK, Fault

LEMMA FixIdTypes ==
  ASSUME TypeOK, NEW e \in Entry
  PROVE  /\ FixId(e) \in Entry /\ FixId(e).name = e.name
         /\ FixId(e).platform = e.platform /\ FixId(e).count = e.count
         /\ \/ /\ FixId(e).id \in GetNodePools /\ pools[FixId(e).id].name = e.name
               /\ pools[FixId(e).id].platform = e.platform
            \/ /\ FixId(e).id = e.id
               /\ \A p \in GetNodePools : pools[p].name # e.name \/ pools[p].platform # e.platform
<1> DEFINE same == {p \in GetNodePools : pools[p].name = e.name /\ pools[p].platform = e.platform}
<1>1. FixId(e) = IF same = {} THEN e ELSE WithId(e, CHOOSE p \in same : TRUE)
  BY DEF FixId
<1>2. CASE same = {}
  BY <1>1, <1>2 DEF Entry
<1>3. CASE same # {}
  <2>1. PICK p \in same : FixId(e) = WithId(e, p)
    BY <1>1, <1>3
  <2>2. p \in Ids
    BY <2>1, PoolTypes
  <2> QED BY <2>1, <2>2 DEF WithId, Entry
<1> QED
  BY <1>2, <1>3

\* A list of which each entry is that of the list l at the same place, but for the id.
LEMMA SameLength ==
  ASSUME NEW l \in Seq(Entry), NEW m, m = [i \in DOMAIN l |-> m[i]],
         \A i \in DOMAIN l : m[i] \in Entry
  PROVE  m \in Seq(Entry)
<1>1. DOMAIN l = 1 .. Len(l) /\ Len(l) \in Nat
  BY SeqTypes
<1>2. m \in [1 .. Len(l) -> Entry]
  BY <1>1
<1> QED
  BY <1>1, <1>2, SeqDef

LEMMA FixedTypes ==
  ASSUME TypeOK
  PROVE  [i \in DOMAIN list |-> FixId(list[i])] \in Seq(Entry)
<1> DEFINE fixed == [i \in DOMAIN list |-> FixId(list[i])]
<1>1. list \in Seq(Entry)
  BY DEF TypeOK
<1>2. \A i \in DOMAIN list : fixed[i] \in Entry
  BY <1>1, SeqTypes, FixIdTypes
<1>3. fixed = [i \in DOMAIN list |-> fixed[i]]
  OBVIOUS
<1> HIDE DEF fixed
<1>4. fixed \in Seq(Entry)
  BY <1>1, <1>2, <1>3, SameLength
<1> QED
  BY <1>4 DEF fixed

LEMMA AskedTypes ==
  /\ \A l \in Lists : l \in Seq(Asked) /\ \A i \in DOMAIN l : l[i] \in Asked
  /\ \A e \in Asked : \A id \in Ids \cup {NoId} : WithId(e, id) \in Entry
<1>1. \A l \in Lists : l \in Seq(Asked)
  BY ListsAssumption
<1>2. \A e \in Asked : e.count \in Nat
  BY ListsAssumption
<1> QED
  BY <1>1, <1>2, SeqTypes DEF WithId, Entry, Names, Platforms

LEMMA ListTypes ==
  ASSUME NEW l \in Lists, NEW m, m = [i \in DOMAIN l |-> WithId(l[i], m[i].id)],
         \A i \in DOMAIN l : m[i].id \in Ids \cup {NoId}
  PROVE  m \in Seq(Entry)
<1>1. l \in Seq(Asked) /\ DOMAIN l = 1 .. Len(l) /\ Len(l) \in Nat
  BY AskedTypes, SeqTypes
<1>2. \A i \in DOMAIN l : WithId(l[i], m[i].id) \in Entry
  BY AskedTypes
<1>3. m \in [1 .. Len(l) -> Entry]
  BY <1>1, <1>2
<1> QED
  BY <1>1, <1>3, SeqDef

\* A new name for an entry changes no id.
LEMMA RenamedIds ==
  ASSUME TypeOK, NEW m \in Renamed
  PROVE  m \in Seq(Entry) /\ \A j \in DOMAIN m : j \in DOMAIN spec /\ m[j].id = spec[j].id
<1>1. /\ spec \in Seq(Entry) /\ DOMAIN spec = 1 .. Len(spec) /\ Len(spec) \in Nat
      /\ \A i \in DOMAIN spec : spec[i] \in Entry
  BY SeqTypes DEF TypeOK
<1>2. PICK i \in DOMAIN spec, name \in Names : m = [spec EXCEPT ![i].name = name]
  BY DEF Renamed
<1> PICK e : e = [spec[i] EXCEPT !.name = name]
  OBVIOUS
<1>3. e \in Entry /\ e.id = spec[i].id
  BY <1>1 DEF Entry
<1>4. m = [spec EXCEPT ![i] = e]
  BY <1>2
<1>5. m \in Seq(Entry) /\ \A j \in 1 .. Len(spec) : m[j] = IF j = i THEN e ELSE spec[j]
  BY <1>1, <1>3, <1>4, ExceptSeq
<1>6. DOMAIN m = DOMAIN spec
  BY <1>4
<1> QED
  BY <1>1, <1>3, <1>5, <1>6

\* An edited list: where its ids and names come from.
LEMMA EditTypes ==
  ASSUME TypeOK, NEW m \in Replaced \cup Renamed
  PROVE  /\ m \in Seq(Entry)
         /\ \A i \in DOMAIN m :
              \/ m[i].id = NoId
              \/ \E j \in DOMAIN spec : m[i].id = spec[j].id /\ m[i].name = spec[j].name
              \/ i \in DOMAIN spec /\ m[i].id = spec[i].id /\ m \in Renamed
<1>1. /\ spec \in Seq(Entry) /\ DOMAIN spec = 1 .. Len(spec) /\ Len(spec) \in Nat
      /\ \A i \in DOMAIN spec : spec[i] \in Entry
  BY SeqTypes DEF TypeOK
<1>2. ASSUME NEW l \in Lists, m = [i \in DOMAIN l |-> WithId(l[i], NoId)]
      PROVE  m \in Seq(Entry) /\ \A i \in DOMAIN m : m[i].id = NoId
  <2>1. m = [i \in DOMAIN l |-> WithId(l[i], m[i].id)] /\ \A i \in DOMAIN m : m[i].id = NoId
    BY <1>2 DEF WithId
  <2>2. DOMAIN m = DOMAIN l BY <1>2
  <2> QED BY <2>1, <2>2, ListTypes
<1>3. ASSUME NEW l \in Lists,
             m = [i \in DOMAIN l |->
                    IF \E j \in DOMAIN spec : spec[j].name = l[i].name
                    THEN WithId(l[i], spec[CHOOSE j \in DOMAIN spec : spec[j].name = l[i].name].id)
                    ELSE WithId(l[i], NoId)]
      PROVE  /\ m \in Seq(Entry)
             /\ \A i \in DOMAIN m :
                  \/ m[i].id = NoId
                  \/ \E j \in DOMAIN spec : m[i].id = spec[j].id /\ m[i].name = spec[j].name
  <2>1. DOMAIN m = DOMAIN l BY <1>3
  <2>2. \A i \in DOMAIN l :
          /\ m[i] = WithId(l[i], m[i].id)
          /\ \/ m[i].id = NoId
             \/ \E j \in DOMAIN spec : m[i].id = spec[j].id /\ m[i].name = spec[j].name
    <3> TAKE i \in DOMAIN l
    <3>1. CASE \E j \in DOMAIN spec : spec[j].name = l[i].name
      <4>1. PICK j \in DOMAIN spec : spec[j].name = l[i].name /\ m[i] = WithId(l[i], spec[j].id)
        BY <1>3, <3>1
      <4> QED BY <4>1 DEF WithId
    <3>2. CASE ~\E j \in DOMAIN spec : spec[j].name = l[i].name
      BY <1>3, <3>2 DEF WithId
    <3> QED BY <3>1, <3>2
  <2>3. m = [i \in DOMAIN l |-> WithId(l[i], m[i].id)]
    <3>1. m = [i \in DOMAIN l |-> m[i]] BY <1>3
    <3> QED BY <2>2, <3>1
  <2>4. \A i \in DOMAIN l : m[i].id \in Ids \cup {NoId}
    BY <1>1, <2>2 DEF Entry
  <2> QED BY <2>1, <2>2, <2>3, <2>4, ListTypes
<1>4. CASE m \in Renamed
  BY <1>4, RenamedIds
<1>5. CASE m \in Replaced
  BY <1>2, <1>3, <1>5 DEF Replaced
<1> QED
  BY <1>4, <1>5

LEMMA CreateTyped ==
  ASSUME TypeOK, InOrder, CreatePool
  PROVE  TypeOK'
<1>1. todo # <<>> /\ np \in Entry
  BY TodoTypes DEF CreatePool, Doing
<1>2. ASSUME CreateNodePool(np), Go("work", FALSE), UNCHANGED <<found, changed, faults>>,
             list' = [i \in DOMAIN list |->
                        IF list[i].name = np.name THEN WithId(list[i], Len(pools')) ELSE list[i]],
             UNCHANGED <<clear, edits, outside>>
      PROVE  TypeOK'
  <2>1. PoolsStay BY <1>1, <1>2, CreatedStay
  <2>2. Len(pools') \in Ids
    BY <1>1, <1>2, Created, PoolTypes DEF Ids
  <2>3. list \in Seq(Entry) /\ \A i \in DOMAIN list : list[i] \in Entry
    BY SeqTypes DEF TypeOK
  <2>4. \A i \in DOMAIN list : list'[i] \in Entry
    BY <1>2, <2>2, <2>3 DEF WithId, Entry
  <2>5. list' = [i \in DOMAIN list |-> list'[i]]
    BY <1>2
  <2>6. list' \in Seq(Entry)
    BY <2>3, <2>4, <2>5, SameLength
  <2>7. found' \in Nat /\ changed' \in BOOLEAN /\ faults' \in Nat
    BY <1>2 DEF TypeOK
  <2> QED BY <1>1, <1>2, <2>1, <2>6, <2>7, GoTyped
<1>3. ASSUME Go("work", FALSE), UNCHANGED <<pools, list, found, changed, faults>>,
             UNCHANGED <<clear, edits, outside>>
      PROVE  TypeOK'
  <2>1. list' \in Seq(Entry) /\ found' \in Nat /\ changed' \in BOOLEAN /\ faults' \in Nat
    BY <1>3 DEF TypeOK
  <2> QED BY <1>1, <1>3, <2>1, SameStay, GoTyped
<1>4. ASSUME Abort, UNCHANGED pools \/ CreateNodePool(np), UNCHANGED faults \/ Fault,
             UNCHANGED <<clear, edits, outside>>
      PROVE  TypeOK'
  <2>1. PoolsStay BY <1>1, <1>4, SameStay, CreatedStay
  <2>2. faults' \in Nat BY <1>4, FaultTyped DEF TypeOK
  <2> QED BY <1>4, <2>1, <2>2, AbortTyped
<1> QED
  BY <1>2, <1>3, <1>4 DEF CreatePool

\* The round is at a request: what it is about.
LEMMA AtTask ==
  ASSUME TypeOK, InOrder, IdsMade,
         \/ pc = "work" /\ todo # <<>> /\ Head(todo).do # "create"
         \/ pc \in {"removeNodes", "drain", "deletePool"}
  PROVE  /\ todo # <<>> /\ np \in Entry /\ Head(todo).do # "create"
         /\ np.id \in DOMAIN pools /\ np.id \in DOMAIN listed
         /\ listed[np.id] \in Pool /\ np.count \in Nat /\ pools[np.id] \in Pool
         /\ 1 \in DOMAIN todo /\ Head(todo) = todo[1] /\ np = todo[1].np
<1>1. todo # <<>> /\ Head(todo).do # "create"
  <2>1. todo \in Seq(Tasked) BY DEF TypeOK, Tasked
  <2>2. CASE pc \in {"removeNodes", "drain", "deletePool"}
    <3>1. 1 \in DOMAIN todo /\ todo[1].do \in {"update", "delete"}
      BY <2>2 DEF InOrder, Does
    <3>2. todo # <<>>
      BY <3>1
    <3> QED BY <3>1, <3>2, TodoTypes
  <2> QED BY <2>2
<1>2. /\ np \in Entry /\ 1 \in DOMAIN todo /\ Head(todo) = todo[1] /\ np = todo[1].np
  BY <1>1, TodoTypes
<1>3. /\ np.id \in DOMAIN pools /\ np.id \in DOMAIN listed
      /\ listed[np.id] \in Pool /\ np.count \in Nat
  BY <1>1, TaskPool
<1> QED
  BY <1>1, <1>2, <1>3, PoolTypes

LEMMA RequestTyped ==
  ASSUME TypeOK, InOrder, IdsMade,
         ScaleUp \/ QueryNodes \/ RemoveNodes \/ QueryExtra \/ Drain \/ DeletePool \/ RenamePool
  PROVE  TypeOK'
<1>1. /\ todo # <<>> /\ np \in Entry /\ np.id \in DOMAIN pools /\ np.id \in DOMAIN listed
      /\ listed[np.id] \in Pool /\ np.count \in Nat /\ pools[np.id] \in Pool
  BY AtTask DEF ScaleUp, QueryNodes, RemoveNodes, QueryExtra, Drain, DeletePool, RenamePool, Doing
<1>2. /\ Shortfall \in Int /\ Surplus \in Int /\ found \in Nat /\ changed \in BOOLEAN
      /\ faults \in Nat /\ list \in Seq(Entry) /\ GetClusterNodes(np.id) \in Nat
  <2>1. listed[np.id].nodes \in Nat /\ pools[np.id].nodes \in Nat
    BY <1>1 DEF Pool
  <2>2. Shortfall \in Int /\ Surplus \in Int /\ GetClusterNodes(np.id) \in Nat
    BY <1>1, <2>1 DEF Shortfall, Surplus, GetClusterNodes
  <2> QED BY <2>2 DEF TypeOK
<1>3. CASE ScaleUp
  <2>1. PoolsStay
    BY <1>1, <1>3, SameStay, ScaleUpStays, AlteredStay DEF ScaleUp, Ask, Doing
  <2>2. /\ \E bad \in BOOLEAN : Go("work", bad)
        /\ UNCHANGED faults \/ Fault
    BY <1>3 DEF ScaleUp, Ask
  <2> QED BY <1>1, <1>2, <1>3, <2>1, <2>2, FaultTyped, GoTyped DEF ScaleUp
<1>4. CASE QueryNodes
  <2>1. PoolsStay BY <1>4, SameStay DEF QueryNodes
  <2>2. /\ \E point \in {"work", "removeNodes"}, bad \in BOOLEAN : Go(point, bad)
        /\ UNCHANGED faults \/ Fault
        /\ found' \in Nat
    BY <1>2, <1>4 DEF QueryNodes
  <2> QED BY <1>1, <1>2, <1>4, <2>1, <2>2, FaultTyped, GoTyped DEF QueryNodes
<1>5. CASE RemoveNodes
  <2>1. CASE Abort
    BY <1>2, <1>5, <2>1, SameStay, AbortTyped DEF RemoveNodes, Abort, Ask, Go, End
  <2>2. CASE Ask(ScaleDownNodePool(np.id, Surplus), "work", FALSE) /\ changed' = TRUE /\ UNCHANGED <<list, found>>
    <3>1. PoolsStay
      BY <1>1, <1>2, <2>2, SameStay, ScaleDownStays, AlteredStay DEF Ask
    <3>2. /\ \E bad \in BOOLEAN : Go("work", bad)
          /\ UNCHANGED faults \/ Fault
      BY <2>2 DEF Ask
    <3> QED BY <1>1, <1>2, <1>5, <2>2, <3>1, <3>2, FaultTyped, GoTyped DEF RemoveNodes
  <2> QED BY <1>5, <2>1, <2>2 DEF RemoveNodes
<1>6. CASE QueryExtra
  <2>1. PoolsStay BY <1>6, SameStay DEF QueryExtra
  <2>2. CASE Fault /\ Abort
    BY <1>6, <2>1, <2>2, FaultTyped, AbortTyped DEF QueryExtra
  <2>3. CASE ~(Fault /\ Abort)
    <3>1. /\ \E point \in {"deletePool", "drain"} : Go(point, FALSE)
          /\ UNCHANGED faults /\ found' \in Nat /\ changed' = TRUE /\ UNCHANGED list
      BY <1>2, <1>6, <2>3 DEF QueryExtra
    <3> QED BY <1>1, <1>2, <1>6, <2>1, <3>1, GoTyped DEF QueryExtra
  <2> QED BY <2>2, <2>3
<1>7. CASE Drain
  <2>1. PoolsStay
    <3>1. UNCHANGED pools \/ ScaleDownNodePool(np.id, found)
      BY <1>7 DEF Drain, Ask
    <3>2. found \in Int
      BY <1>2
    <3> QED BY <1>1, <3>1, <3>2, SameStay, ScaleDownStays, AlteredStay
  <2>2. /\ \E bad \in BOOLEAN : Go("deletePool", bad)
        /\ UNCHANGED faults \/ Fault
    BY <1>7 DEF Drain, Ask
  <2> QED BY <1>1, <1>2, <1>7, <2>1, <2>2, FaultTyped, GoTyped DEF Drain
<1>8. CASE DeletePool
  <2>1. PoolsStay
    BY <1>8, SameStay, Deleted, AlteredStay DEF DeletePool, Ask
  <2>2. /\ \E bad \in BOOLEAN : Go("work", bad)
        /\ UNCHANGED faults \/ Fault
    BY <1>8 DEF DeletePool, Ask
  <2> QED BY <1>1, <1>2, <1>8, <2>1, <2>2, FaultTyped, GoTyped DEF DeletePool
<1>9. CASE RenamePool
  <2>1. PoolsStay
    BY <1>1, <1>9, SameStay, Relabelled, AlteredStay DEF RenamePool
  <2>2. /\ \E bad \in BOOLEAN : Go("work", bad)
        /\ UNCHANGED faults \/ Fault
        /\ changed' \in BOOLEAN
    BY <1>2, <1>9 DEF RenamePool
  <2> QED BY <1>1, <1>2, <1>9, <2>1, <2>2, FaultTyped, GoTyped DEF RenamePool
<1> QED
  BY <1>3, <1>4, <1>5, <1>6, <1>7, <1>8, <1>9

LEMMA RestTyped ==
  ASSUME TypeOK,
         Begin \/ Fence \/ List \/ Finish \/ Crash \/ CloudStep \/ UserEdit \/ OutsideStep
  PROVE  TypeOK'
<1>1. CASE Begin
  BY <1>1, SameStay DEF Begin, TypeOK, Points, bounds
<1>2. CASE Fence
  <2>1. CASE Abort
    BY <1>2, <2>1, SameStay, FaultTyped, AbortTyped DEF Fence, TypeOK
  <2>2. CASE ~Abort
    BY <1>2, <2>2 DEF Fence, TypeOK, Points, batch
  <2> QED BY <2>1, <2>2
<1>3. CASE List
  <2>1. CASE Fault /\ Abort /\ UNCHANGED clear
    BY <1>3, <2>1, SameStay, FaultTyped, AbortTyped DEF List
  <2>2. CASE ~(Fault /\ Abort /\ UNCHANGED clear)
    <3> DEFINE fixed == [i \in DOMAIN list |-> FixId(list[i])]
    <3>1. /\ list' = fixed /\ listed' = pools /\ todo' = Plan(fixed)
          /\ pc' = "work" /\ clear' = (clear /\ Clear(list))
          /\ UNCHANGED <<spec, fresh, due, found, changed, failed, faults, pools, edits, outside>>
      BY <1>3, <2>2 DEF List
    <3>2. fixed \in Seq(Entry) BY FixedTypes
    <3> HIDE DEF fixed
    <3>3. todo' \in Seq(Tasked)
      <4>1. PICK at : Planned(fixed, Plan(fixed), at) BY <3>2, PlanPlanned
      <4> QED BY <3>1, <4>1 DEF Planned
    <3>4. clear' \in BOOLEAN
      BY <3>1
    <3> QED BY <3>1, <3>2, <3>3, <3>4 DEF TypeOK, Points, Tasked
  <2> QED BY <2>1, <2>2
<1>4. CASE Finish
  <2>1. spec' \in {spec, list}
    BY <1>4 DEF Finish
  <2>2. /\ End(failed \/ changed) /\ (failed \/ changed) \in BOOLEAN
        /\ UNCHANGED <<pools, fresh, clear, edits, faults, outside>> /\ faults' \in Nat
    BY <1>4 DEF Finish, bounds, TypeOK
  <2> QED BY <2>1, <2>2, SameStay, EndTyped
<1>5. CASE Crash
  BY <1>5, SameStay, FaultTyped, AbortTyped DEF Crash
<1>6. CASE CloudStep
  <2>1. PICK p \in GetNodePools : pools' = [pools EXCEPT ![p].nodes =
                                     IF @ < pools[p].target THEN @ + 1 ELSE @ - 1] /\ Busy(p)
    BY <1>6 DEF CloudStep
  <2>2. p \in DOMAIN pools /\ pools[p].nodes \in Nat /\ pools[p].target \in Nat
    BY PoolTypes DEF Pool
  <2> PICK v : v = IF pools[p].nodes < pools[p].target THEN pools[p].nodes + 1 ELSE pools[p].nodes - 1
    OBVIOUS
  <2>3. v \in Nat
    BY <2>1, <2>2 DEF Busy
  <2>4. pools' = [pools EXCEPT ![p].nodes = v]
    BY <2>1
  <2>5. PoolsStay BY <2>2, <2>3, <2>4, Stepped, AlteredStay
  <2> QED BY <1>6, <2>5 DEF CloudStep, TypeOK, PoolsStay, batch, bounds
<1>7. CASE UserEdit
  <2>1. spec' \in Seq(Entry)
    BY <1>7, EditTypes DEF UserEdit
  <2>2. edits' \in Nat /\ clear' \in BOOLEAN
    BY <1>7 DEF UserEdit, TypeOK
  <2> QED BY <1>7, <2>1, <2>2 DEF UserEdit, TypeOK, batch
<1>8. CASE OutsideStep
  <2>1. PICK p \in GetNodePools :
          \/ \E e \in Asked : pools' = [pools EXCEPT ![p].target = e.count]
          \/ DeleteNodePool(p)
    BY <1>8 DEF OutsideStep
  <2>2. PoolsStay
    <3>1. CASE DeleteNodePool(p)
      BY <3>1, Deleted, AlteredStay
    <3>2. CASE \E e \in Asked : pools' = [pools EXCEPT ![p].target = e.count]
      <4>1. PICK e \in Asked : pools' = [pools EXCEPT ![p].target = e.count] BY <3>2
      <4>2. e.count \in Nat /\ p \in DOMAIN pools BY ListsAssumption, PoolTypes
      <4> QED BY <4>1, <4>2, Scaled, AlteredStay
    <3> QED BY <2>1, <3>1, <3>2
  <2>3. outside' \in Nat
    BY <1>8 DEF OutsideStep, TypeOK
  <2> QED BY <1>8, <2>2, <2>3 DEF OutsideStep, TypeOK, PoolsStay, batch
<1> QED
  BY <1>1, <1>2, <1>3, <1>4, <1>5, <1>6, <1>7, <1>8

LEMMA StepTyped ==
  ASSUME TypeOK, InOrder, IdsMade, [Next]_vars
  PROVE  TypeOK'
<1>1. CASE UNCHANGED vars
  BY <1>1 DEF vars, batch, bounds, TypeOK
<1>2. CASE Next
  BY <1>2, CreateTyped, RequestTyped, RestTyped DEF Next, Round
<1> QED
  BY <1>1, <1>2

LEMMA InitTyped ==
  ASSUME Init
  PROVE  TypeOK /\ Len(pools) <= 1
<1>1. PICK l \in Lists : spec = [i \in DOMAIN l |-> WithId(l[i], NoId)]
  BY DEF Init
<1>2. spec \in Seq(Entry)
  <2>1. DOMAIN spec = DOMAIN l /\ \A i \in DOMAIN l : spec[i].id = NoId
    BY <1>1 DEF WithId
  <2>2. spec = [i \in DOMAIN l |-> WithId(l[i], spec[i].id)]
    BY <1>1, <2>1
  <2> QED BY <2>1, <2>2, ListTypes
<1> DEFINE I == {i \in DOMAIN spec : spec[i].name = Default}
           default == Selected(spec, I)
<1>3. DOMAIN spec = 1 .. Len(spec) /\ Len(spec) \in Nat /\ \A i \in DOMAIN spec : spec[i] \in Entry
  BY <1>2, SeqTypes
<1>4. PICK at : Enumerates(spec, I, at)
  BY <1>3, Enumerated
<1>5. default # <<>> => default[1] \in Entry
  <2>1. /\ Cardinality(I) \in Nat /\ at \in [1 .. Cardinality(I) -> I]
        /\ default = [n \in 1 .. Cardinality(I) |-> spec[at[n]]]
    BY <1>4 DEF Enumerates
  <2>2. default \in [1 .. Cardinality(I) -> Entry]
    BY <1>3, <2>1
  <2>3. default \in Seq(Entry)
    BY <2>1, <2>2, SeqDef
  <2> HIDE DEF default
  <2>4. DOMAIN default = 1 .. Len(default)
    BY <2>3, SeqTypes
  <2> QED BY <2>3, <2>4, EmptySeq, SeqTypes
<1>6. pools = IF default = <<>> THEN <<>> ELSE <<NewPool(default[1])>>
  BY DEF Init
<1> HIDE DEF default
<1>7. pools \in Seq(Pool) /\ Len(pools) <= 1
  <2>1. default # <<>> => NewPool(default[1]) \in Pool
    BY <1>5 DEF NewPool, Pool, Entry
  <2> QED BY <1>6, <2>1
<1>8. Len(pools) <= MaxPools
  BY <1>7, SeqTypes, PoolsAssumption
<1>9. /\ listed \in Seq(Pool) /\ list \in Seq(Entry) /\ todo \in Seq(Tasked)
  BY EmptySeq DEF Init
<1>10. clear \in BOOLEAN
  BY DEF Init, Clear
<1> QED
  <2>1. /\ pc = "idle" /\ found = 0 /\ edits = 0 /\ faults = 0 /\ outside = 0
        /\ fresh = FALSE /\ due = TRUE /\ changed = FALSE /\ failed = FALSE
    BY DEF Init
  <2>2. {fresh, due, changed, failed, clear} \subseteq BOOLEAN
    BY <1>10, <2>1
  <2>3. {edits, faults, outside} \subseteq Nat /\ found \in Nat /\ pc \in Points
    BY <2>1 DEF Points
  <2>4. {pools, listed} \subseteq Seq(Pool) /\ Len(pools) <= MaxPools
    BY <1>7, <1>8, <1>9
  <2>5. {spec, list} \subseteq Seq(Entry) /\ todo \in Seq([do : Kinds, np : Entry])
    BY <1>2, <1>9 DEF Tasked
  <2> QED BY <1>7, <2>2, <2>3, <2>4, <2>5 DEF TypeOK

-----------------------------------------------------------------------------
(* What the requests do to names and sizes.                                *)

LEMMA AlteredNames ==
  ASSUME TypeOK, NamesApart, NEW p \in GetNodePools, NEW f \in {"nodes", "target"}, Alters(p, f)
  PROVE  /\ NamesApart' /\ GetNodePools' = GetNodePools
         /\ \A q \in DOMAIN pools : /\ pools'[q].name = pools[q].name
                                    /\ pools'[q].platform = pools[q].platform
<1>1. \A q \in DOMAIN pools : /\ pools'[q].name = pools[q].name /\ pools'[q].there = pools[q].there
                              /\ pools'[q].platform = pools[q].platform
  BY DEF Alters
<1>2. GetNodePools' = GetNodePools
  BY <1>1 DEF GetNodePools, Present, Alters
<1> QED
  BY <1>1, <1>2, PoolTypes DEF NamesApart

LEMMA DeletedNames ==
  ASSUME TypeOK, NamesApart, NEW p, DeleteNodePool(p)
  PROVE  /\ NamesApart' /\ GetNodePools' = GetNodePools \ {p}
         /\ \A q \in DOMAIN pools : /\ pools'[q].name = pools[q].name
                                    /\ pools'[q].platform = pools[q].platform
                                    /\ pools'[q].nodes = pools[q].nodes
                                    /\ pools'[q].target = pools[q].target
<1>1. Alters(p, "there") /\ pools'[p].there = FALSE /\ p \in GetNodePools
  BY Deleted
<1>2. \A q \in DOMAIN pools : /\ pools'[q].name = pools[q].name
                              /\ pools'[q].platform = pools[q].platform
                              /\ pools'[q].nodes = pools[q].nodes
                              /\ pools'[q].target = pools[q].target
                              /\ pools'[q].there = (pools[q].there /\ q # p)
  <2>1. \A q \in DOMAIN pools : pools[q].there \in BOOLEAN
    BY PoolTypes DEF Pool
  <2> QED BY <1>1, <2>1 DEF Alters
<1>3. GetNodePools' = GetNodePools \ {p}
  BY <1>1, <1>2 DEF GetNodePools, Present, Alters
<1> QED
  BY <1>2, <1>3, PoolTypes DEF NamesApart

LEMMA RelabelledNames ==
  ASSUME TypeOK, NamesApart, NEW e \in Entry, UpdateNodePool(e)
  PROVE  /\ NamesApart' /\ GetNodePools' = GetNodePools /\ e.id \in GetNodePools
         /\ pools'[e.id].name = e.name
         /\ \A q \in DOMAIN pools : /\ q # e.id => pools'[q].name = pools[q].name
                                    /\ pools'[q].platform = pools[q].platform
                                    /\ pools'[q].nodes = pools[q].nodes
                                    /\ pools'[q].target = pools[q].target
<1>1. Alters(e.id, "name") /\ pools'[e.id].name = e.name /\ e.id \in GetNodePools
  BY Relabelled
<1>2. \A q \in DOMAIN pools : /\ q # e.id => pools'[q].name = pools[q].name
                              /\ pools'[q].platform = pools[q].platform
                              /\ pools'[q].nodes = pools[q].nodes
                              /\ pools'[q].target = pools[q].target
                              /\ pools'[q].there = pools[q].there
  BY <1>1 DEF Alters
<1>3. GetNodePools' = GetNodePools
  BY <1>1, <1>2 DEF GetNodePools, Present, Alters
<1>4. \A q \in GetNodePools : pools[q].name # e.name
  BY DEF UpdateNodePool, Taken
<1>5. NamesApart'
  BY <1>1, <1>2, <1>3, <1>4, PoolTypes DEF NamesApart
<1> QED
  BY <1>1, <1>2, <1>3, <1>5

LEMMA CreatedNames ==
  ASSUME TypeOK, NamesApart, NEW e \in Entry, CreateNodePool(e)
  PROVE  /\ NamesApart' /\ GetNodePools' = GetNodePools \cup {Len(pools')}
<1>1. /\ DOMAIN pools' = DOMAIN pools \cup {Len(pools')} /\ Len(pools') \notin DOMAIN pools
      /\ \A q \in DOMAIN pools : pools'[q] = pools[q]
      /\ pools'[Len(pools')] = NewPool(e)
  BY Created
<1>2. GetNodePools' = GetNodePools \cup {Len(pools')}
  <2>1. \A p : p \in GetNodePools' <=> p \in DOMAIN pools' /\ pools'[p].there
    BY DEF GetNodePools, Present
  <2>2. \A p : p \in GetNodePools <=> p \in DOMAIN pools /\ pools[p].there
    BY DEF GetNodePools, Present
  <2>3. pools'[Len(pools')].there = TRUE
    BY <1>1 DEF NewPool
  <2>4. \A p : p \in GetNodePools' <=> p \in GetNodePools \/ p = Len(pools')
    BY <1>1, <2>1, <2>2, <2>3
  <2> QED BY <2>4
<1>3. \A q \in GetNodePools : pools[q].name # e.name
  BY DEF CreateNodePool, Taken
<1>4. pools'[Len(pools')].name = e.name
  BY <1>1 DEF NewPool
<1>5. GetNodePools \subseteq DOMAIN pools
  BY PoolTypes
<1>6. \A q \in GetNodePools : pools'[q].name = pools[q].name
  BY <1>1, <1>5
<1> QED
  BY <1>2, <1>3, <1>4, <1>6 DEF NamesApart

\* A world that is plain has always been.
LEMMA PlainFalls ==
  ASSUME TypeOK, [Next]_vars
  PROVE  Plain' => Plain
<1>1. clear' => clear
  <2>1. CASE List \/ UserEdit
    BY <2>1 DEF List, UserEdit
  <2>2. CASE CreatePool \/ ScaleUp \/ QueryNodes \/ RemoveNodes \/ QueryExtra \/ Drain \/ DeletePool
    BY <2>2 DEF CreatePool, ScaleUp, QueryNodes, RemoveNodes, QueryExtra, Drain, DeletePool
  <2>3. CASE RenamePool \/ Begin \/ Fence \/ Finish \/ Crash \/ CloudStep \/ OutsideStep \/ UNCHANGED vars
    BY <2>3 DEF RenamePool, Begin, Fence, Finish, Crash, CloudStep, OutsideStep, vars, bounds
  <2> QED BY <2>1, <2>2, <2>3 DEF Next, Round
<1>2. outside' = 0 => outside = 0
  <2>1. CASE OutsideStep
    BY <2>1 DEF OutsideStep, TypeOK
  <2>2. CASE ~OutsideStep
    BY <2>2
    DEF Next, Round, Begin, Fence, List, CreatePool, ScaleUp, QueryNodes, RemoveNodes, QueryExtra,
        Drain, DeletePool, RenamePool, Finish, Crash, CloudStep, UserEdit, vars, bounds
  <2> QED BY <2>1, <2>2
<1> QED
  BY <1>1, <1>2 DEF Plain

-----------------------------------------------------------------------------
(* The steps that begin or end a round.                                    *)

LEMMA RoundsEnds ==
  ASSUME BatchInv, TypeOK', PoolsStay, NamesApart', Plain' => Plain,
         todo' = <<>>, pc' \in {"idle", "fence"}, listed' \in {listed, <<>>},
         spec' \in {spec, list}, list' \in {<<>>, spec, list}
  PROVE  BatchInv'
<1>1. InOrder' /\ DeletesUnasked' /\ TasksCover' /\ Reserved'
  BY DEF InOrder, DeletesUnasked, TasksCover, Reserved, Does
<1>2. IdsMade'
  BY DEF BatchInv, IdsMade, PoolsStay
<1>3. ScalesOnce'
  BY DEF BatchInv, ScalesOnce, Does, Apart
<1> QED
  BY <1>1, <1>2, <1>3 DEF BatchInv

-----------------------------------------------------------------------------
(* The requests.                                                           *)

\* A request that goes on at point touches the pool of its task at most, and
\* while the task is still to be done, nothing a scaling relies on.
Local(point) ==
  \A p \in DOMAIN pools :
    /\ pools'[p].platform = pools[p].platform
    /\ pools'[p].name = pools[p].name \/ (Head(todo).do = "rename" /\ p = np.id)
    /\ \/ pools'[p].nodes = pools[p].nodes /\ pools'[p].target = pools[p].target
       \/ /\ p = np.id
          /\ Head(todo).do = "delete" \/ (Head(todo).do = "update" /\ point = "work")

\* Where each task to come was before.
LEMMA WasTask ==
  ASSUME BatchInv, todo # <<>>, NEW point, NEW bad, Go(point, bad), NEW k \in DOMAIN todo'
  PROVE  \E j \in DOMAIN todo : /\ todo'[k] = todo[j] /\ k \in Nat \ {0}
                                /\ j = IF point = "work" THEN k + 1 ELSE k
<1>1. TypeOK
  BY DEF BatchInv
<1>2. DOMAIN todo' \subseteq Nat \ {0}
  BY <1>1, GoShifts
<1>3. CASE point = "work"
  BY <1>1, <1>2, <1>3, GoShifts
<1>4. CASE point # "work"
  BY <1>1, <1>2, <1>4, GoShifts
<1> QED
  BY <1>3, <1>4

LEMMA TasksInOrder ==
  ASSUME BatchInv, todo # <<>>, NEW k \in DOMAIN todo
  PROVE  /\ todo[k].do = "create" => Head(todo).do = "create"
         /\ todo[k].do = "update" => Head(todo).do \in {"create", "update"}
         /\ Head(todo).do = "rename" => todo[k].do = "rename"
<1>1. /\ Head(todo) = todo[1] /\ 1 \in DOMAIN todo /\ todo[1].do \in Kinds /\ todo[k].do \in Kinds
      /\ k = 1 \/ 1 < k
  BY TodoTypes DEF BatchInv
<1>2. Rank[todo[1].do] <= Rank[todo[k].do]
  BY <1>1 DEF BatchInv, InOrder, Rank, Kinds
<1>3. /\ Rank["create"] = 1 /\ Rank["update"] = 2 /\ Rank["delete"] = 3 /\ Rank["rename"] = 4
  BY DEF Rank
<1> QED
  BY <1>1, <1>2, <1>3 DEF Kinds

LEMMA RequestKeeps ==
  ASSUME BatchInv, TypeOK', todo # <<>>, NEW bad \in BOOLEAN,
         NEW point \in {"work", "removeNodes", "drain", "deletePool"}, Go(point, bad),
         UNCHANGED <<list, clear, outside>>, PoolsStay, Local(point), NamesApart',
         point = "removeNodes" => /\ Head(todo).do = "update"
                                  /\ Plain => found' = listed[np.id].nodes,
         point \in {"drain", "deletePool"} => Head(todo).do = "delete" /\ changed',
         TasksCover'
  PROVE  BatchInv'
<1>1. TypeOK
  BY DEF BatchInv
<1>2. /\ 1 \in DOMAIN todo /\ Head(todo) = todo[1] /\ np = todo[1].np
      /\ \A k \in DOMAIN todo : todo[k].np \in Entry /\ todo[k].do \in Kinds
  BY <1>1, TodoTypes
<1>3. /\ listed' = listed /\ spec' = spec /\ pc' = point /\ (Plain' <=> Plain)
  BY DEF Go, Plain
<1>4. \A k \in DOMAIN todo' : \E j \in DOMAIN todo :
        todo'[k] = todo[j] /\ k \in Nat \ {0} /\ j = IF point = "work" THEN k + 1 ELSE k
  BY WasTask
<1>5. point # "work" => todo' = todo
  BY <1>1, GoShifts
<1>6. InOrder'
  <2>1. \A k, m \in DOMAIN todo' : k < m => Rank[todo'[k].do] <= Rank[todo'[m].do]
    <3> SUFFICES ASSUME NEW k \in DOMAIN todo', NEW m \in DOMAIN todo', k < m
                 PROVE  Rank[todo'[k].do] <= Rank[todo'[m].do] OBVIOUS
    <3>1. PICK i \in DOMAIN todo : todo'[k] = todo[i] /\ k \in Nat \ {0}
                                   /\ i = IF point = "work" THEN k + 1 ELSE k
      BY <1>4
    <3>2. PICK j \in DOMAIN todo : todo'[m] = todo[j] /\ m \in Nat \ {0}
                                   /\ j = IF point = "work" THEN m + 1 ELSE m
      BY <1>4
    <3>3. i < j BY <3>1, <3>2
    <3> QED BY <3>1, <3>2, <3>3 DEF BatchInv, InOrder
  <2>2. pc' \in {"removeNodes", "drain", "deletePool"} => 1 \in DOMAIN todo' /\ todo'[1].do = Head(todo).do
    BY <1>2, <1>3, <1>5
  <2> QED BY <1>3, <2>1, <2>2 DEF InOrder, Does
<1>7. IdsMade'
  BY <1>3, <1>4 DEF BatchInv, IdsMade, PoolsStay
<1>8. DeletesUnasked'
  <2> SUFFICES ASSUME NEW k \in DOMAIN todo', todo'[k].do = "delete", NEW i \in DOMAIN list
               PROVE  \/ list[i].name # pools'[todo'[k].np.id].name
                      \/ list[i].platform # pools'[todo'[k].np.id].platform
    BY DEF DeletesUnasked, Does
  <2>1. PICK j \in DOMAIN todo : todo'[k] = todo[j]
    BY <1>4
  <2>2. /\ todo[j].np.id \in DOMAIN pools
        /\ \/ list[i].name # pools[todo[j].np.id].name
           \/ list[i].platform # pools[todo[j].np.id].platform
    BY <2>1 DEF BatchInv, IdsMade, DeletesUnasked, Does
  <2>3. Head(todo).do # "rename"
    BY <2>1, TasksInOrder
  <2> QED BY <2>1, <2>2, <2>3 DEF Local
<1>9. ScalesOnce'
  <2> SUFFICES ASSUME Plain PROVE ScalesOnce'
    BY <1>3 DEF ScalesOnce
  <2>1. Apart(spec)' /\ Apart(list)'
    BY <1>3 DEF BatchInv, ScalesOnce, Apart
  <2>2. ASSUME NEW k \in DOMAIN todo', todo'[k].do = "update"
        PROVE  /\ pools'[todo'[k].np.id].nodes = listed'[todo'[k].np.id].nodes
               /\ pools'[todo'[k].np.id].target = listed'[todo'[k].np.id].nodes
               /\ \E i \in DOMAIN list' : /\ list'[i].name = todo'[k].np.name
                                          /\ list'[i].id = todo'[k].np.id
                                          /\ list'[i].count = todo'[k].np.count
    <3>1. PICK j \in DOMAIN todo : todo'[k] = todo[j] /\ k \in Nat \ {0}
                                   /\ j = IF point = "work" THEN k + 1 ELSE k
      BY <1>4
    <3> DEFINE p == todo[j].np.id
    <3>2. /\ p \in DOMAIN pools /\ pools[p].nodes = listed[p].nodes
          /\ pools[p].target = listed[p].nodes
          /\ \E i \in DOMAIN list : /\ list[i].name = todo[j].np.name
                                    /\ list[i].id = p
                                    /\ list[i].count = todo[j].np.count
      BY <2>2, <3>1 DEF BatchInv, IdsMade, ScalesOnce, Does
    <3>3. pools'[p].nodes = pools[p].nodes /\ pools'[p].target = pools[p].target
      <4>1. Head(todo).do \in {"create", "update"}
        BY <2>2, <3>1, TasksInOrder
      <4>2. CASE point = "work" /\ Head(todo).do = "update" /\ p = np.id
        <5>1. j = 1
          BY <1>2, <2>2, <3>1, <4>2 DEF BatchInv, ScalesOnce, Does
        <5> QED BY <3>1, <4>2, <5>1
      <4>3. CASE ~(point = "work" /\ Head(todo).do = "update" /\ p = np.id)
        BY <3>2, <4>1, <4>3 DEF Local
      <4> QED BY <4>2, <4>3
    <3> QED BY <1>3, <3>1, <3>2, <3>3
  <2>3. ASSUME NEW k \in DOMAIN todo', NEW m \in DOMAIN todo',
               todo'[k].do \in {"create", "update"}, todo'[m].do \in {"create", "update"},
               todo'[k].np.name = todo'[m].np.name \/ (/\ todo'[k].do = "update" /\ todo'[m].do = "update"
                                                       /\ todo'[k].np.id = todo'[m].np.id)
        PROVE  k = m
    <3>1. PICK i \in DOMAIN todo : todo'[k] = todo[i] /\ k \in Nat \ {0}
                                   /\ i = IF point = "work" THEN k + 1 ELSE k
      BY <1>4
    <3>2. PICK j \in DOMAIN todo : todo'[m] = todo[j] /\ m \in Nat \ {0}
                                   /\ j = IF point = "work" THEN m + 1 ELSE m
      BY <1>4
    <3>3. i = j
      BY <2>3, <3>1, <3>2 DEF BatchInv, ScalesOnce, Does
    <3> QED BY <3>1, <3>2, <3>3
  <2>4. pc' = "removeNodes" => found' = listed'[np'.id].nodes
    BY <1>3, <1>5 DEF np
  <2>5. pc' # "list"
    BY <1>3
  <2> QED BY <2>1, <2>2, <2>3, <2>4, <2>5 DEF ScalesOnce, Does
<1>10. Reserved'
  <2> SUFFICES ASSUME Plain PROVE Reserved'
    BY <1>3 DEF Reserved
  <2>1. ASSUME NEW k \in DOMAIN todo', todo'[k].do = "create"
        PROVE  \E i \in DOMAIN list' : /\ list'[i].name = todo'[k].np.name
                                       /\ list'[i].id = NoId
                                       /\ list'[i].count = todo'[k].np.count
    BY <1>4, <2>1 DEF BatchInv, Reserved, Does
  <2>2. ASSUME NEW k \in DOMAIN todo', NEW m \in DOMAIN todo',
               todo'[k].do = "rename", todo'[m].do = "rename", todo'[k].np.id = todo'[m].np.id
        PROVE  k = m
    <3>1. PICK i \in DOMAIN todo : todo'[k] = todo[i] /\ k \in Nat \ {0}
                                   /\ i = IF point = "work" THEN k + 1 ELSE k
      BY <1>4
    <3>2. PICK j \in DOMAIN todo : todo'[m] = todo[j] /\ m \in Nat \ {0}
                                   /\ j = IF point = "work" THEN m + 1 ELSE m
      BY <1>4
    <3>3. i = j
      BY <2>2, <3>1, <3>2 DEF BatchInv, Reserved, Does
    <3> QED BY <3>1, <3>2, <3>3
  <2>3. ASSUME NEW k \in DOMAIN todo', todo'[k].do = "rename", NEW i \in DOMAIN list'
        PROVE  list'[i].name # pools'[todo'[k].np.id].name
    <3>1. PICK j \in DOMAIN todo : todo'[k] = todo[j] /\ k \in Nat \ {0}
                                   /\ j = IF point = "work" THEN k + 1 ELSE k
      BY <1>4
    <3> DEFINE p == todo[j].np.id
    <3>2. p \in DOMAIN pools /\ list[i].name # pools[p].name
      BY <2>3, <3>1 DEF BatchInv, IdsMade, Reserved, Does
    <3>3. pools'[p].name = pools[p].name
      <4>1. CASE Head(todo).do = "rename" /\ p = np.id
        <5>1. j = 1
          BY <1>2, <2>3, <3>1, <4>1 DEF BatchInv, Reserved, Does
        <5>2. point = "work"
          BY <4>1
        <5> QED BY <3>1, <5>1, <5>2
      <4>2. CASE ~(Head(todo).do = "rename" /\ p = np.id)
        BY <3>2, <4>2 DEF Local
      <4> QED BY <4>1, <4>2
    <3> QED BY <3>1, <3>2, <3>3
  <2> QED BY <2>1, <2>2, <2>3 DEF Reserved, Does
<1> QED
  BY <1>6, <1>7, <1>8, <1>9, <1>10 DEF BatchInv

LEMMA SameNames ==
  ASSUME TypeOK, NamesApart, UNCHANGED pools
  PROVE  /\ NamesApart' /\ GetNodePools' = GetNodePools
         /\ \A p : Present(p)' <=> Present(p)
BY DEF NamesApart, GetNodePools, Present

LEMMA AbortKeeps ==
  ASSUME BatchInv, TypeOK', PoolsStay, NamesApart', Plain' => Plain, Abort
  PROVE  BatchInv'
<1>1. /\ todo' = <<>> /\ pc' = "idle" /\ listed' = <<>> /\ spec' = spec /\ list' = <<>>
  BY DEF Abort, End
<1> QED
  BY <1>1, RoundsEnds

\* Scaling and deleting are changes, so that nothing is claimed to be done.
LEMMA UpdatesKeep ==
  ASSUME BatchInv, TypeOK', Plain' => Plain, ScaleUp \/ RemoveNodes
  PROVE  BatchInv'
<1>1. TypeOK /\ InOrder /\ IdsMade /\ NamesApart
  BY DEF BatchInv
<1>2. /\ todo # <<>> /\ np.id \in DOMAIN pools /\ listed[np.id] \in Pool /\ np.count \in Nat
      /\ 1 \in DOMAIN todo /\ Head(todo) = todo[1]
  BY <1>1, AtTask DEF ScaleUp, RemoveNodes, Doing
<1>3. Head(todo).do = "update"
  BY <1>1, <1>2 DEF ScaleUp, RemoveNodes, Doing, InOrder, Does
<1>4. CASE Abort /\ UNCHANGED pools
  BY <1>1, <1>4, AbortKeeps, SameStay, SameNames
<1>5. ASSUME NEW bad \in BOOLEAN, Go("work", bad), changed' = TRUE,
             UNCHANGED <<list, clear, outside>>,
             UNCHANGED pools \/ (np.id \in GetNodePools /\ Alters(np.id, "target"))
      PROVE  BatchInv'
  <2>1. PoolsStay
    BY <1>1, <1>5, SameStay, AlteredStay
  <2>2. NamesApart'
    BY <1>1, <1>5, SameNames, AlteredNames
  <2>3. Local("work")
    BY <1>3, <1>5, <1>1, AlteredNames DEF Local, Alters
  <2>4. TasksCover'
    BY <1>5 DEF TasksCover
  <2> QED BY <1>2, <1>5, <2>1, <2>2, <2>3, <2>4, RequestKeeps
<1>6. CASE ScaleUp
  <2>0. PICK bad \in BOOLEAN : Go("work", bad)
    BY <1>6 DEF ScaleUp, Ask
  <2>1. changed' = TRUE /\ UNCHANGED <<list, clear, outside>>
    BY <1>6 DEF ScaleUp, Ask
  <2>2. UNCHANGED pools \/ ScaleUpNodePool(np.id, Shortfall)
    BY <1>6 DEF ScaleUp, Ask
  <2>3. Shortfall > 0
    BY <1>6 DEF ScaleUp
  <2>4. ScaleUpNodePool(np.id, Shortfall) => np.id \in GetNodePools /\ Alters(np.id, "target")
    BY <1>1, <1>2, <1>3, <2>3, ScaleUpStays, PoolTypes DEF ScaleUpNodePool
  <2>5. UNCHANGED pools \/ (np.id \in GetNodePools /\ Alters(np.id, "target"))
    BY <2>2, <2>4
  <2> QED BY <1>5, <2>0, <2>1, <2>5
<1>7. CASE RemoveNodes /\ ~(Abort /\ UNCHANGED pools)
  <2>0. PICK bad \in BOOLEAN : Go("work", bad)
    BY <1>7 DEF RemoveNodes, Ask
  <2>1. changed' = TRUE /\ UNCHANGED <<list, clear, outside>>
    BY <1>7 DEF RemoveNodes, Ask
  <2>2. UNCHANGED pools \/ ScaleDownNodePool(np.id, Surplus)
    BY <1>7 DEF RemoveNodes, Ask
  <2>3. Surplus \in Int
    <3>1. listed[np.id].nodes \in Nat BY <1>2 DEF Pool
    <3> QED BY <1>2, <3>1 DEF Surplus
  <2>4. ScaleDownNodePool(np.id, Surplus) => np.id \in GetNodePools /\ Alters(np.id, "target")
    BY <1>1, <1>2, <2>3, ScaleDownStays, PoolTypes DEF ScaleDownNodePool
  <2>5. UNCHANGED pools \/ (np.id \in GetNodePools /\ Alters(np.id, "target"))
    BY <2>2, <2>4
  <2> QED BY <1>5, <2>0, <2>1, <2>5
<1> QED
  BY <1>4, <1>6, <1>7

LEMMA QueryKeeps ==
  ASSUME BatchInv, TypeOK', Plain' => Plain, QueryNodes
  PROVE  BatchInv'
<1>1. TypeOK /\ InOrder /\ IdsMade /\ NamesApart
  BY DEF BatchInv
<1>2. /\ todo # <<>> /\ Head(todo).do = "update" /\ pc = "work"
      /\ UNCHANGED <<pools, list, changed, clear, outside>>
  BY DEF QueryNodes, Doing
<1>3. /\ np.id \in DOMAIN pools /\ listed[np.id].nodes \in Nat /\ np.count \in Nat
      /\ 1 \in DOMAIN todo /\ Head(todo) = todo[1] /\ np = todo[1].np
  BY <1>1, <1>2, AtTask DEF Pool
<1>4. PoolsStay /\ NamesApart' /\ (\A point : Local(point))
  BY <1>1, <1>2, SameStay, SameNames DEF Local
<1>5. CASE Fault /\ Go("work", TRUE)
  <2>1. failed' = TRUE
    BY <1>5 DEF Go
  <2>2. TasksCover'
    BY <2>1 DEF TasksCover
  <2> QED BY <1>2, <1>4, <1>5, <2>2, RequestKeeps
<1>6. CASE /\ found' = GetClusterNodes(np.id)
           /\ Go(IF found' = np.count THEN "work" ELSE "removeNodes", FALSE)
  <2>1. Plain => found' = listed[np.id].nodes
    BY <1>2, <1>3, <1>6 DEF BatchInv, ScalesOnce, Does, GetClusterNodes
  <2>2. Plain => found' # np.count
    BY <1>3, <2>1 DEF QueryNodes, Surplus
  <2>3. CASE found' = np.count
    <3>1. ~Plain'
      BY <2>2, <2>3
    <3>2. TasksCover'
      BY <3>1 DEF TasksCover
    <3>3. Go("work", FALSE)
      BY <1>6, <2>3
    <3> QED BY <1>2, <1>4, <3>2, <3>3, RequestKeeps
  <2>4. CASE found' # np.count
    <3>1. Go("removeNodes", FALSE)
      BY <1>6, <2>4
    <3>2. todo' = todo /\ pc' = "removeNodes" /\ (failed' <=> failed)
      BY <3>1 DEF Go
    <3>3. TasksCover'
      <4>1. TasksCover BY DEF BatchInv
      <4> QED BY <1>2, <3>2, <4>1 DEF TasksCover, Plain, Known, Present, GetNodePools, Taken, Does
    <3> QED BY <1>2, <1>4, <2>1, <3>1, <3>3, RequestKeeps
  <2> QED BY <2>3, <2>4
<1> QED
  BY <1>5, <1>6 DEF QueryNodes

LEMMA DeletesKeep ==
  ASSUME BatchInv, TypeOK', Plain' => Plain, QueryExtra \/ Drain \/ DeletePool
  PROVE  BatchInv'
<1>1. TypeOK /\ InOrder /\ IdsMade /\ NamesApart
  BY DEF BatchInv
<1>2. /\ todo # <<>> /\ np.id \in DOMAIN pools
      /\ 1 \in DOMAIN todo /\ Head(todo) = todo[1]
  BY <1>1, AtTask DEF QueryExtra, Drain, DeletePool, Doing
<1>3. Head(todo).do = "delete"
  BY <1>1, <1>2 DEF QueryExtra, Drain, DeletePool, Doing, InOrder, Does
<1>4. CASE Abort /\ UNCHANGED pools
  BY <1>1, <1>4, AbortKeeps, SameStay, SameNames
<1>5. ASSUME NEW bad \in BOOLEAN, NEW point \in {"work", "drain", "deletePool"}, Go(point, bad), changed',
             UNCHANGED <<list, clear, outside>>,
             \/ UNCHANGED pools
             \/ np.id \in GetNodePools /\ Alters(np.id, "target")
             \/ DeleteNodePool(np.id)
      PROVE  BatchInv'
  <2>1. PoolsStay
    BY <1>1, <1>5, SameStay, Deleted, AlteredStay
  <2>2. NamesApart'
    BY <1>1, <1>5, SameNames, AlteredNames, DeletedNames
  <2>3. Local(point)
    <3>1. CASE UNCHANGED pools
      BY <3>1 DEF Local
    <3>2. CASE np.id \in GetNodePools /\ Alters(np.id, "target")
      BY <1>1, <1>3, <3>2, AlteredNames DEF Local, Alters
    <3>3. CASE DeleteNodePool(np.id)
      BY <1>1, <3>3, DeletedNames DEF Local
    <3> QED BY <1>5, <3>1, <3>2, <3>3
  <2>4. TasksCover'
    BY <1>5 DEF TasksCover
  <2> QED BY <1>2, <1>3, <1>5, <2>1, <2>2, <2>3, <2>4, RequestKeeps
<1>6. CASE QueryExtra /\ ~(Abort /\ UNCHANGED pools)
  BY <1>5, <1>6 DEF QueryExtra
<1>7. Drain \/ DeletePool => changed
  BY DEF Drain, DeletePool, BatchInv, InOrder
<1>8. CASE Drain
  <2>1. \E bad \in BOOLEAN : Go("deletePool", bad)
    BY <1>8 DEF Drain, Ask
  <2>2. changed' /\ UNCHANGED <<list, clear, outside>>
    BY <1>7, <1>8 DEF Drain
  <2>3. UNCHANGED pools \/ ScaleDownNodePool(np.id, found)
    BY <1>8 DEF Drain, Ask
  <2>4. found \in Int
    BY <1>1 DEF TypeOK
  <2>5. ScaleDownNodePool(np.id, found) => np.id \in GetNodePools /\ Alters(np.id, "target")
    BY <1>1, <1>2, <2>4, ScaleDownStays, PoolTypes DEF ScaleDownNodePool
  <2> QED BY <1>5, <2>1, <2>2, <2>3, <2>5
<1>9. CASE DeletePool
  <2>1. \E bad \in BOOLEAN : Go("work", bad)
    BY <1>9 DEF DeletePool, Ask
  <2>2. changed' /\ UNCHANGED <<list, clear, outside>>
    BY <1>7, <1>9 DEF DeletePool
  <2>3. UNCHANGED pools \/ DeleteNodePool(np.id)
    BY <1>9 DEF DeletePool, Ask
  <2> QED BY <1>5, <2>1, <2>2, <2>3
<1> QED
  BY <1>4, <1>6, <1>8, <1>9

\* The renames come last, and each takes a name that only its own entry has.
LEMMA RenameCovers ==
  ASSUME BatchInv, Plain' => Plain, Doing("rename"), UpdateNodePool(np), Go("work", FALSE),
         UNCHANGED <<changed, list>>
  PROVE  TasksCover'
<1> SUFFICES ASSUME ~changed, ~failed, Plain, Known(list)'
             PROVE  /\ \A q \in GetNodePools' :
                         \/ \E k \in DOMAIN todo' : todo'[k].do \in {"update", "delete"} /\ todo'[k].np.id = q
                         \/ \E i \in DOMAIN list :
                              /\ list[i].id = q /\ list[i].count = pools'[q].target
                              /\ \/ list[i].name = pools'[q].name
                                 \/ \E k \in DOMAIN todo' : /\ todo'[k].do = "rename" /\ todo'[k].np.id = q
                                                            /\ todo'[k].np.name = list[i].name
                    /\ \A i \in DOMAIN list :
                         \/ list[i].name = Default
                         \/ \E q \in GetNodePools' : pools'[q].name = list[i].name
                         \/ \E k \in DOMAIN todo' : /\ todo'[k].do \in {"create", "rename"}
                                                    /\ todo'[k].np.name = list[i].name
  <2>1. /\ list' = list /\ (changed' <=> changed) /\ (failed' <=> failed)
        /\ Plain' => Plain
    BY DEF Go
  <2>2. CASE ~changed' /\ ~failed' /\ Plain' /\ Known(list)'
    BY <2>1, <2>2 DEF TasksCover, Does, Taken
  <2>3. CASE ~(~changed' /\ ~failed' /\ Plain' /\ Known(list)')
    BY <2>3 DEF TasksCover
  <2> QED BY <2>2, <2>3
<1>1. TypeOK /\ InOrder /\ IdsMade /\ NamesApart
  BY DEF BatchInv
<1>2. /\ todo # <<>> /\ Head(todo).do = "rename" /\ pc = "work" /\ np \in Entry
      /\ 1 \in DOMAIN todo /\ Head(todo) = todo[1] /\ np = todo[1].np /\ np.id \in DOMAIN pools
  BY <1>1, AtTask DEF Doing
<1>3. /\ GetNodePools' = GetNodePools /\ np.id \in GetNodePools
      /\ pools'[np.id].name = np.name
      /\ \A q \in DOMAIN pools : /\ q # np.id => pools'[q].name = pools[q].name
                                 /\ pools'[q].target = pools[q].target
  BY <1>1, <1>2, RelabelledNames
<1>4. Known(list)
  <2>1. \A p : Present(p)' <=> Present(p)
    BY <1>3 DEF GetNodePools, Present
  <2> QED BY <2>1 DEF Known
<1>5. \A k \in DOMAIN todo : todo[k].do = "rename"
  BY <1>2, TasksInOrder
<1>6. \A k \in DOMAIN todo : k # 1 => k - 1 \in DOMAIN todo' /\ todo'[k - 1] = todo[k]
  BY <1>1, <1>2, GoShifts
<1>7. \A k \in DOMAIN todo : todo[k].np.id = np.id => k = 1
  BY <1>2, <1>5 DEF BatchInv, Reserved, Does
<1>8. \A i \in DOMAIN list : list[i].name # pools[np.id].name
  BY <1>2 DEF BatchInv, Reserved, Does
<1>9. /\ \A q \in GetNodePools : \E i \in DOMAIN list :
           /\ list[i].id = q /\ list[i].count = pools[q].target
           /\ \/ list[i].name = pools[q].name
              \/ \E k \in DOMAIN todo : todo[k].np.id = q /\ todo[k].np.name = list[i].name
      /\ \A i \in DOMAIN list :
           \/ list[i].name = Default
           \/ \E q \in GetNodePools : pools[q].name = list[i].name
           \/ \E k \in DOMAIN todo : todo[k].np.name = list[i].name
  <2>1. TasksCover
    BY DEF BatchInv
  <2> QED BY <1>2, <1>4, <1>5, <2>1 DEF TasksCover, Does, Taken
<1>10. GetNodePools \subseteq DOMAIN pools
  BY <1>1, PoolTypes
<1>11. ASSUME NEW q \in GetNodePools
       PROVE  \E i \in DOMAIN list :
                /\ list[i].id = q /\ list[i].count = pools'[q].target
                /\ \/ list[i].name = pools'[q].name
                   \/ \E k \in DOMAIN todo' : /\ todo'[k].do = "rename" /\ todo'[k].np.id = q
                                              /\ todo'[k].np.name = list[i].name
  <2>1. PICK i \in DOMAIN list :
          /\ list[i].id = q /\ list[i].count = pools[q].target
          /\ \/ list[i].name = pools[q].name
             \/ \E k \in DOMAIN todo : todo[k].np.id = q /\ todo[k].np.name = list[i].name
    BY <1>9
  <2>2. list[i].count = pools'[q].target
    BY <1>3, <1>10, <2>1
  <2>3. CASE q = np.id
    <3>1. PICK k \in DOMAIN todo : todo[k].np.id = q /\ todo[k].np.name = list[i].name
      BY <1>8, <2>1, <2>3
    <3>2. k = 1
      BY <1>7, <2>3, <3>1
    <3> QED BY <1>2, <1>3, <2>1, <2>2, <2>3, <3>1, <3>2
  <2>4. CASE q # np.id
    <3>1. CASE list[i].name = pools[q].name
      BY <1>3, <1>10, <2>1, <2>2, <2>4, <3>1
    <3>2. CASE list[i].name # pools[q].name
      <4>1. PICK k \in DOMAIN todo : todo[k].np.id = q /\ todo[k].np.name = list[i].name
        BY <2>1, <3>2
      <4>2. k # 1
        BY <1>2, <2>4, <4>1
      <4> QED BY <1>5, <1>6, <2>1, <2>2, <4>1, <4>2
    <3> QED BY <3>1, <3>2
  <2> QED BY <2>3, <2>4
<1>12. ASSUME NEW i \in DOMAIN list, list[i].name # Default
       PROVE  \/ \E q \in GetNodePools : pools'[q].name = list[i].name
              \/ \E k \in DOMAIN todo' : /\ todo'[k].do \in {"create", "rename"}
                                         /\ todo'[k].np.name = list[i].name
  <2>1. CASE \E q \in GetNodePools : pools[q].name = list[i].name
    BY <1>3, <1>8, <1>10, <2>1
  <2>2. CASE \E k \in DOMAIN todo : todo[k].np.name = list[i].name
    BY <1>2, <1>3, <1>5, <1>6, <2>2
  <2> QED BY <1>9, <1>12, <2>1, <2>2
<1> QED
  BY <1>3, <1>11, <1>12

LEMMA RenameKeeps ==
  ASSUME BatchInv, TypeOK', Plain' => Plain, RenamePool
  PROVE  BatchInv'
<1>1. TypeOK /\ InOrder /\ IdsMade /\ NamesApart
  BY DEF BatchInv
<1>2. /\ todo # <<>> /\ Head(todo).do = "rename" /\ np \in Entry /\ Doing("rename")
      /\ UNCHANGED <<list, clear, outside>>
  BY <1>1, AtTask DEF RenamePool, Doing
<1>3. UNCHANGED pools \/ UpdateNodePool(np)
  BY DEF RenamePool
<1>4. PoolsStay
  BY <1>1, <1>2, <1>3, SameStay, Relabelled, AlteredStay
<1>5. NamesApart'
  BY <1>1, <1>2, <1>3, SameNames, RelabelledNames
<1>6. Local("work")
  <2>1. CASE UNCHANGED pools
    BY <2>1 DEF Local
  <2>2. CASE UpdateNodePool(np)
    BY <1>1, <1>2, <2>2, RelabelledNames DEF Local
  <2> QED BY <1>3, <2>1, <2>2
<1>7. ASSUME NEW bad \in BOOLEAN, Go("work", bad), TasksCover'
      PROVE  BatchInv'
  BY <1>2, <1>4, <1>5, <1>6, <1>7, RequestKeeps
<1>8. CASE changed' = TRUE /\ \E bad \in BOOLEAN : Go("work", bad)
  <2>1. TasksCover'
    BY <1>8 DEF TasksCover
  <2> QED BY <1>7, <1>8, <2>1
<1>9. CASE UpdateNodePool(np) /\ Go("work", FALSE) /\ UNCHANGED changed
  <2>1. TasksCover'
    BY <1>2, <1>9, RenameCovers
  <2> QED BY <1>7, <1>9, <2>1
<1> QED
  BY <1>8, <1>9 DEF RenamePool

\* That there is a pool of the name is all the round wanted.
LEMMA SkipKeeps ==
  ASSUME BatchInv, TypeOK', Doing("create"), Taken(np.name), Go("work", FALSE),
         UNCHANGED <<pools, list, found, changed, clear, outside>>
  PROVE  BatchInv'
<1>1. TypeOK /\ InOrder /\ IdsMade /\ NamesApart /\ TasksCover
  BY DEF BatchInv
<1>2. todo # <<>> /\ Head(todo).do = "create" /\ pc = "work"
  BY DEF Doing
<1>3. 1 \in DOMAIN todo /\ Head(todo) = todo[1] /\ np = todo[1].np
  BY <1>1, <1>2, TodoTypes
<1>4. \A k \in DOMAIN todo : k # 1 => k - 1 \in DOMAIN todo' /\ todo'[k - 1] = todo[k]
  BY <1>1, <1>2, GoShifts
<1>5. /\ GetNodePools' = GetNodePools /\ (\A p : Present(p)' <=> Present(p)) /\ NamesApart'
      /\ PoolsStay /\ Local("work")
  BY <1>1, SameNames, SameStay DEF Local
<1>6. TasksCover'
  <2>1. (failed' <=> failed) /\ (Plain' <=> Plain) /\ (Known(list)' <=> Known(list))
    BY <1>5 DEF Go, Plain, Known
  <2>2. CASE ~failed /\ ~changed /\ Plain /\ Known(list)
    <3>2. \A q \in GetNodePools :
            \/ \E k \in DOMAIN todo' : todo'[k].do \in {"update", "delete"} /\ todo'[k].np.id = q
            \/ \E i \in DOMAIN list :
                 /\ list[i].id = q /\ list[i].count = pools[q].target
                 /\ \/ list[i].name = pools[q].name
                    \/ \E k \in DOMAIN todo' : /\ todo'[k].do = "rename" /\ todo'[k].np.id = q
                                               /\ todo'[k].np.name = list[i].name
      <4> TAKE q \in GetNodePools
      <4>1. \A k \in DOMAIN todo : todo[k].do \in {"update", "delete", "rename"} =>
              k - 1 \in DOMAIN todo' /\ todo'[k - 1] = todo[k]
        BY <1>2, <1>3, <1>4
      <4>2. \/ \E k \in DOMAIN todo : todo[k].do \in {"update", "delete"} /\ todo[k].np.id = q
            \/ \E i \in DOMAIN list :
                 /\ list[i].id = q /\ list[i].count = pools[q].target
                 /\ \/ list[i].name = pools[q].name
                    \/ \E k \in DOMAIN todo : /\ todo[k].do = "rename" /\ todo[k].np.id = q
                                              /\ todo[k].np.name = list[i].name
        BY <1>1, <1>2, <2>2 DEF TasksCover, Does
      <4> QED BY <4>1, <4>2
    <3>3. \A i \in DOMAIN list :
            \/ list[i].name = Default \/ Taken(list[i].name)
            \/ \E k \in DOMAIN todo' : /\ todo'[k].do \in {"create", "rename"}
                                       /\ todo'[k].np.name = list[i].name
      <4> TAKE i \in DOMAIN list
      <4>1. \/ list[i].name = Default \/ Taken(list[i].name)
            \/ \E k \in DOMAIN todo : /\ todo[k].do \in {"create", "rename"}
                                      /\ todo[k].np.name = list[i].name
        BY <1>1, <1>2, <2>2 DEF TasksCover, Does
      <4> QED BY <1>3, <1>4, <4>1
    <3>4. \A name : Taken(name)' <=> Taken(name)
      BY <1>5 DEF Taken
    <3> QED BY <1>5, <3>2, <3>3, <3>4 DEF TasksCover, Does
  <2> QED BY <2>1, <2>2 DEF TasksCover
<1> QED
  BY <1>2, <1>5, <1>6, RequestKeeps

\* A pool is made: it is new to everyone, and one entry gets its id.
LEMMA MadeKeeps ==
  ASSUME BatchInv, TypeOK', Doing("create"), CreateNodePool(np), Go("work", FALSE),
         UNCHANGED <<found, changed, clear, outside>>,
         list' = [i \in DOMAIN list |->
                    IF list[i].name = np.name THEN WithId(list[i], Len(pools')) ELSE list[i]]
  PROVE  BatchInv'
<1> DEFINE new == Len(pools')
<1>1. TypeOK /\ InOrder /\ IdsMade /\ NamesApart
  BY DEF BatchInv
<1>2. /\ todo # <<>> /\ Head(todo).do = "create" /\ pc = "work" /\ pc' = "work"
      /\ listed' = listed /\ spec' = spec /\ (failed' <=> failed) /\ (changed' <=> changed)
      /\ (Plain' <=> Plain)
  BY DEF Doing, Go, Plain
<1>3. /\ 1 \in DOMAIN todo /\ Head(todo) = todo[1] /\ np = todo[1].np /\ np \in Entry
      /\ \A k \in DOMAIN todo : todo[k].do \in Kinds
  BY <1>1, <1>2, TodoTypes
<1>4. \A k \in DOMAIN todo : k # 1 => k - 1 \in DOMAIN todo' /\ todo'[k - 1] = todo[k]
  BY <1>1, <1>2, GoShifts
<1>5. \A k \in DOMAIN todo' : /\ k \in Nat \ {0} /\ k + 1 \in DOMAIN todo
                              /\ todo'[k] = todo[k + 1]
  BY <1>1, <1>2, GoShifts
<1>6. /\ DOMAIN pools' = DOMAIN pools \cup {new} /\ new \notin DOMAIN pools
      /\ \A q \in DOMAIN pools : pools'[q] = pools[q]
      /\ pools'[new].name = np.name /\ pools'[new].target = np.count
  <2>1. /\ DOMAIN pools' = DOMAIN pools \cup {new} /\ new \notin DOMAIN pools
        /\ \A q \in DOMAIN pools : pools'[q] = pools[q]
        /\ pools'[new] = NewPool(np)
    BY <1>1, <1>3, Created
  <2> HIDE DEF new
  <2> QED BY <2>1 DEF NewPool
<1>7. NamesApart' /\ GetNodePools' = GetNodePools \cup {new}
  BY <1>1, <1>3, CreatedNames
<1>8. /\ DOMAIN list' = DOMAIN list
      /\ \A i \in DOMAIN list :
           /\ list'[i].name = list[i].name /\ list'[i].platform = list[i].platform
           /\ list'[i].count = list[i].count
           /\ list'[i].id = IF list[i].name = np.name THEN new ELSE list[i].id
  BY DEF WithId
<1> HIDE DEF new
<1>9. GetNodePools \subseteq DOMAIN pools /\ NoId \notin DOMAIN pools /\ NoId # new
  <2>1. new \in Ids
    <3>1. new \in 1 .. MaxPools
      BY <1>1, <1>3, Created, PoolTypes, PoolsAssumption DEF new
    <3> QED BY <3>1 DEF Ids
  <2> QED BY <1>1, <2>1, PoolTypes, PoolsAssumption
<1>10. InOrder'
  BY <1>1, <1>2, <1>5 DEF InOrder, Does
<1>11. IdsMade'
  <2>1. \A i \in DOMAIN spec' : spec'[i].id \in DOMAIN pools' \cup {NoId}
    BY <1>1, <1>2, <1>6 DEF IdsMade
  <2>2. \A i \in DOMAIN list' : list'[i].id \in DOMAIN pools' \cup {NoId}
    BY <1>1, <1>6, <1>8 DEF IdsMade
  <2>3. /\ DOMAIN listed' \subseteq DOMAIN pools'
        /\ \A k \in DOMAIN todo' : todo'[k].do # "create" => todo'[k].np.id \in DOMAIN listed'
    BY <1>1, <1>2, <1>5, <1>6 DEF IdsMade
  <2> QED BY <2>1, <2>2, <2>3 DEF IdsMade
<1>12. \A k \in DOMAIN todo : todo[k].do # "create" =>
         /\ todo[k].np.id \in DOMAIN pools
         /\ pools'[todo[k].np.id] = pools[todo[k].np.id]
  BY <1>1, <1>6 DEF IdsMade
<1>13. DeletesUnasked'
  <2> SUFFICES ASSUME NEW k \in DOMAIN todo', todo'[k].do = "delete", NEW i \in DOMAIN list
               PROVE  \/ list[i].name # pools'[todo'[k].np.id].name
                      \/ list[i].platform # pools'[todo'[k].np.id].platform
    BY <1>8 DEF DeletesUnasked, Does
  <2>1. k + 1 \in DOMAIN todo /\ todo'[k] = todo[k + 1] /\ todo[k + 1].do = "delete"
    BY <1>5
  <2>2. pools'[todo[k + 1].np.id] = pools[todo[k + 1].np.id]
    BY <1>12, <2>1
  <2> QED BY <2>1, <2>2 DEF BatchInv, DeletesUnasked, Does
\* In a plain world the entry is the only one of the name, and had no id.
<1>14. ASSUME Plain
       PROVE  /\ \A i, j \in DOMAIN list : list[i].name = np.name /\ list[j].name = np.name => i = j
              /\ \E i \in DOMAIN list : /\ list[i].name = np.name /\ list[i].id = NoId
                                        /\ list[i].count = np.count
              /\ \A k \in DOMAIN todo :
                   k # 1 /\ todo[k].do \in {"create", "update"} => todo[k].np.name # np.name
  <2>1. Apart(list)
    BY <1>14 DEF BatchInv, ScalesOnce
  <2>2. \E i \in DOMAIN list : /\ list[i].name = np.name /\ list[i].id = NoId
                               /\ list[i].count = np.count
    BY <1>2, <1>3, <1>14 DEF BatchInv, Reserved, Does
  <2>3. \A k \in DOMAIN todo :
          k # 1 /\ todo[k].do \in {"create", "update"} => todo[k].np.name # np.name
    BY <1>2, <1>3, <1>14 DEF BatchInv, ScalesOnce, Does
  <2> QED BY <2>1, <2>2, <2>3 DEF Apart
<1>15. ScalesOnce'
  <2> SUFFICES ASSUME Plain PROVE ScalesOnce'
    BY <1>2 DEF ScalesOnce
  <2>1. Apart(spec)' /\ Apart(list)
    BY <1>2 DEF BatchInv, ScalesOnce, Apart
  <2>2. Apart(list)'
    <3> SUFFICES ASSUME NEW i \in DOMAIN list, NEW j \in DOMAIN list,
                        list[i].name = list[j].name \/ (list'[i].id = list'[j].id /\ list'[i].id # NoId)
                 PROVE  i = j
      BY <1>8 DEF Apart
    <3>1. \A n \in DOMAIN list : list[n].id # new
      BY <1>1, <1>6, <1>9 DEF IdsMade
    <3> QED BY <1>8, <1>14, <2>1, <3>1 DEF Apart
  <2>3. ASSUME NEW k \in DOMAIN todo', todo'[k].do = "update"
        PROVE  /\ pools'[todo'[k].np.id].nodes = listed'[todo'[k].np.id].nodes
               /\ pools'[todo'[k].np.id].target = listed'[todo'[k].np.id].nodes
               /\ \E i \in DOMAIN list' : /\ list'[i].name = todo'[k].np.name
                                          /\ list'[i].id = todo'[k].np.id
                                          /\ list'[i].count = todo'[k].np.count
    <3> PICK j : j = k + 1 OBVIOUS
    <3>1. j \in DOMAIN todo /\ todo'[k] = todo[j] /\ todo[j].do = "update" /\ j # 1
      BY <1>5, <2>3
    <3>2. /\ pools[todo[j].np.id].nodes = listed[todo[j].np.id].nodes
          /\ pools[todo[j].np.id].target = listed[todo[j].np.id].nodes
          /\ \E i \in DOMAIN list : /\ list[i].name = todo[j].np.name
                                    /\ list[i].id = todo[j].np.id
                                    /\ list[i].count = todo[j].np.count
      BY <3>1 DEF BatchInv, ScalesOnce, Does
    <3>3. pools'[todo[j].np.id] = pools[todo[j].np.id]
      BY <1>12, <3>1
    <3>4. todo[j].np.name # np.name
      BY <1>14, <3>1
    <3> QED BY <1>2, <1>8, <3>1, <3>2, <3>3, <3>4
  <2>4. ASSUME NEW k \in DOMAIN todo', NEW m \in DOMAIN todo',
               todo'[k].do \in {"create", "update"}, todo'[m].do \in {"create", "update"},
               todo'[k].np.name = todo'[m].np.name \/ (/\ todo'[k].do = "update" /\ todo'[m].do = "update"
                                                       /\ todo'[k].np.id = todo'[m].np.id)
        PROVE  k = m
    <3>1. k + 1 = m + 1
      BY <1>5, <2>4 DEF BatchInv, ScalesOnce, Does
    <3> QED BY <1>5, <3>1
  <2> QED BY <1>2, <2>1, <2>2, <2>3, <2>4 DEF ScalesOnce, Does
<1>16. Reserved'
  <2> SUFFICES ASSUME Plain PROVE Reserved'
    BY <1>2 DEF Reserved
  <2>1. ASSUME NEW k \in DOMAIN todo', todo'[k].do = "create"
        PROVE  \E i \in DOMAIN list' : /\ list'[i].name = todo'[k].np.name
                                       /\ list'[i].id = NoId
                                       /\ list'[i].count = todo'[k].np.count
    <3> PICK j : j = k + 1 OBVIOUS
    <3>1. j \in DOMAIN todo /\ todo'[k] = todo[j] /\ todo[j].do = "create" /\ j # 1
      BY <1>5, <2>1
    <3>2. \E i \in DOMAIN list : /\ list[i].name = todo[j].np.name
                                 /\ list[i].id = NoId
                                 /\ list[i].count = todo[j].np.count
      BY <3>1 DEF BatchInv, Reserved, Does
    <3>3. todo[j].np.name # np.name
      BY <1>14, <3>1
    <3> QED BY <1>8, <3>1, <3>2, <3>3
  <2>2. ASSUME NEW k \in DOMAIN todo', todo'[k].do = "rename"
        PROVE  \A i \in DOMAIN list' : list'[i].name # pools'[todo'[k].np.id].name
    <3> PICK j : j = k + 1 OBVIOUS
    <3>1. j \in DOMAIN todo /\ todo'[k] = todo[j] /\ todo[j].do = "rename"
      BY <1>5, <2>2
    <3>2. pools'[todo[j].np.id] = pools[todo[j].np.id]
      BY <1>12, <3>1
    <3> QED BY <1>8, <3>1, <3>2 DEF BatchInv, Reserved, Does
  <2>3. ASSUME NEW k \in DOMAIN todo', NEW m \in DOMAIN todo',
               todo'[k].do = "rename", todo'[m].do = "rename", todo'[k].np.id = todo'[m].np.id
        PROVE  k = m
    <3>1. k + 1 = m + 1
      BY <1>5, <2>3 DEF BatchInv, Reserved, Does
    <3> QED BY <1>5, <3>1
  <2> QED BY <2>1, <2>2, <2>3 DEF Reserved, Does
<1>17. TasksCover'
  <2>1. CASE ~(~changed /\ ~failed /\ Plain /\ Known(list)')
    BY <1>2, <2>1 DEF TasksCover
  <2>2. CASE ~changed /\ ~failed /\ Plain /\ Known(list)'
    <3>1. PICK x \in DOMAIN list : /\ list[x].name = np.name /\ list[x].id = NoId
                                   /\ list[x].count = np.count
      BY <1>14, <2>2
    <3>2. \A i \in DOMAIN list : i # x => list[i].name # np.name
      BY <1>14, <2>2, <3>1
    <3>3. Known(list)
      <4>1. \A i \in DOMAIN list : list'[i].id = NoId \/ list'[i].id \in GetNodePools'
        BY <1>8, <2>2 DEF Known, Present, GetNodePools
      <4>2. \A i \in DOMAIN list : i # x => list'[i].id = list[i].id
        BY <1>8, <3>2
      <4>3. \A i \in DOMAIN list : list[i].id # new
        BY <1>1, <1>6, <1>9 DEF IdsMade
      <4> QED BY <1>1, <1>7, <3>1, <4>1, <4>2, <4>3, PoolTypes DEF Known
    <3>4. TasksCover
      BY DEF BatchInv
    <3>5. ASSUME NEW q \in GetNodePools'
          PROVE  \/ \E k \in DOMAIN todo' : todo'[k].do \in {"update", "delete"} /\ todo'[k].np.id = q
                 \/ \E i \in DOMAIN list' :
                      /\ list'[i].id = q /\ list'[i].count = pools'[q].target
                      /\ \/ list'[i].name = pools'[q].name
                         \/ \E k \in DOMAIN todo' : /\ todo'[k].do = "rename" /\ todo'[k].np.id = q
                                                    /\ todo'[k].np.name = list'[i].name
      <4>1. CASE q = new
        BY <1>6, <1>8, <3>1, <4>1
      <4>2. CASE q # new
        <5>1. q \in GetNodePools /\ q \in DOMAIN pools /\ pools'[q] = pools[q]
          BY <1>6, <1>7, <1>9, <4>2
        <5>2. CASE \E k \in DOMAIN todo : todo[k].do \in {"update", "delete"} /\ todo[k].np.id = q
          BY <1>2, <1>3, <1>4, <5>2
        <5>3. CASE \E i \in DOMAIN list :
                      /\ list[i].id = q /\ list[i].count = pools[q].target
                      /\ \/ list[i].name = pools[q].name
                         \/ \E k \in DOMAIN todo : /\ todo[k].do = "rename" /\ todo[k].np.id = q
                                                   /\ todo[k].np.name = list[i].name
          <6>1. PICK i \in DOMAIN list :
                      /\ list[i].id = q /\ list[i].count = pools[q].target
                      /\ \/ list[i].name = pools[q].name
                         \/ \E k \in DOMAIN todo : /\ todo[k].do = "rename" /\ todo[k].np.id = q
                                                   /\ todo[k].np.name = list[i].name
            BY <5>3
          <6>2. list[i].name # np.name
            BY <1>9, <3>1, <3>2, <5>1, <6>1
          <6>3. \A k \in DOMAIN todo : todo[k].do = "rename" =>
                  k - 1 \in DOMAIN todo' /\ todo'[k - 1] = todo[k]
            BY <1>2, <1>3, <1>4
          <6> QED BY <1>8, <5>1, <6>1, <6>2, <6>3
        <5> QED BY <1>2, <2>2, <3>3, <3>4, <5>1, <5>2, <5>3 DEF TasksCover, Does
      <4> QED BY <4>1, <4>2
    <3>6. ASSUME NEW i \in DOMAIN list'
          PROVE  \/ list'[i].name = Default
                 \/ \E q \in GetNodePools' : pools'[q].name = list'[i].name
                 \/ \E k \in DOMAIN todo' : /\ todo'[k].do \in {"create", "rename"}
                                            /\ todo'[k].np.name = list'[i].name
      <4>1. \/ list[i].name = Default
            \/ \E q \in GetNodePools : pools[q].name = list[i].name
            \/ \E k \in DOMAIN todo : /\ todo[k].do \in {"create", "rename"}
                                      /\ todo[k].np.name = list[i].name
        BY <1>2, <1>8, <2>2, <3>3, <3>4, <3>6 DEF TasksCover, Does, Taken
      <4>2. CASE list[i].name = Default
        BY <1>8, <3>6, <4>2
      <4>3. CASE \E q \in GetNodePools : pools[q].name = list[i].name
        BY <1>6, <1>7, <1>8, <1>9, <3>6, <4>3
      <4>4. CASE \E k \in DOMAIN todo : /\ todo[k].do \in {"create", "rename"}
                                        /\ todo[k].np.name = list[i].name
        BY <1>3, <1>4, <1>6, <1>7, <1>8, <3>6, <4>4
      <4> QED BY <4>1, <4>2, <4>3, <4>4
    <3> QED BY <3>5, <3>6 DEF TasksCover, Does, Taken
  <2> QED BY <2>1, <2>2
<1> QED
  BY <1>7, <1>10, <1>11, <1>13, <1>15, <1>16, <1>17 DEF BatchInv

LEMMA CreateKeeps ==
  ASSUME BatchInv, TypeOK', Plain' => Plain, CreatePool
  PROVE  BatchInv'
<1>1. TypeOK /\ NamesApart /\ Doing("create")
  BY DEF BatchInv, CreatePool
<1>2. np \in Entry
  BY <1>1, TodoTypes DEF Doing
<1>3. UNCHANGED <<clear, outside>>
  BY DEF CreatePool
<1>4. CASE /\ CreateNodePool(np) /\ Go("work", FALSE) /\ UNCHANGED <<found, changed, faults>>
           /\ list' = [i \in DOMAIN list |->
                         IF list[i].name = np.name THEN WithId(list[i], Len(pools')) ELSE list[i]]
  BY <1>1, <1>3, <1>4, MadeKeeps
<1>5. CASE /\ Taken(np.name) /\ Go("work", FALSE)
           /\ UNCHANGED <<pools, list, found, changed, faults>>
  BY <1>1, <1>3, <1>5, SkipKeeps
<1>6. CASE Abort /\ (UNCHANGED pools \/ CreateNodePool(np))
  <2>1. PoolsStay /\ NamesApart'
    BY <1>1, <1>2, <1>6, SameStay, CreatedStay, SameNames, CreatedNames
  <2> QED BY <1>6, <2>1, AbortKeeps
<1> QED
  BY <1>4, <1>5, <1>6 DEF CreatePool

-----------------------------------------------------------------------------
(* The plan.                                                               *)

\* A plan's tasks, by kind: what each is about, and that no two are the same.
LEMMA PlanSays ==
  ASSUME TypeOK, NEW l \in Seq(Entry), NEW q, NEW at, Planned(l, q, at)
  PROVE  /\ \A k \in DOMAIN q : q[k].do \in Kinds /\ at[k] \in Positions(l, q[k].do)
         /\ \A k \in DOMAIN q : q[k].do \in {"create", "update", "rename"} =>
              /\ at[k] \in DOMAIN l /\ q[k].np = l[at[k]]
              /\ q[k].do = "create" <=> l[at[k]].id = NoId
              /\ q[k].do # "create" => l[at[k]].id \in GetNodePools
              /\ q[k].do = "rename" => pools[l[at[k]].id].name # l[at[k]].name
         /\ \A k \in DOMAIN q : q[k].do = "delete" =>
              /\ q[k].np.id \in GetNodePools /\ \A i \in DOMAIN l : l[i].id # q[k].np.id
         /\ \A kind \in Kinds : \A i \in Positions(l, kind) :
              \E k \in DOMAIN q : /\ q[k].do = kind /\ at[k] = i
                                  /\ q[k].np.id = IF kind = "delete" THEN i ELSE l[i].id
                                  /\ kind # "delete" => q[k].np = l[i]
<1>1. /\ q \in Seq(Tasked)
      /\ \A k \in DOMAIN q : /\ at[k] \in Positions(l, q[k].do)
                             /\ q[k].np = Source(l, q[k].do)[at[k]]
      /\ \A kind \in Kinds : \A i \in Positions(l, kind) :
           \E k \in DOMAIN q : q[k].do = kind /\ at[k] = i
  BY DEF Planned
<1>2. \A k \in DOMAIN q : q[k].do \in Kinds
  <2>1. \A k \in DOMAIN q : q[k] \in Tasked BY <1>1, SeqTypes
  <2> QED BY <2>1 DEF Tasked
<1>3. /\ NoId \notin DOMAIN pools /\ GetNodePools \subseteq DOMAIN pools
      /\ \A p : Present(p) <=> p \in GetNodePools
  BY PoolTypes
<1>4. \A kind \in {"create", "update", "rename"} : \A i \in Positions(l, kind) :
        /\ i \in DOMAIN l /\ Source(l, kind) = l
        /\ kind = "create" <=> l[i].id = NoId
        /\ kind # "create" => l[i].id \in GetNodePools
        /\ kind = "rename" => pools[l[i].id].name # l[i].name
  BY <1>3 DEF Positions, Source
<1>5. \A p \in Positions(l, "delete") :
        /\ p \in GetNodePools /\ \A i \in DOMAIN l : l[i].id # p
        /\ Source(l, "delete")[p].id = p
  BY <1>3 DEF Positions, Source, ToNodePoolConfigInfo
<1>6. \A k \in DOMAIN q : q[k].do \in {"create", "update", "rename"} =>
        /\ at[k] \in DOMAIN l /\ q[k].np = l[at[k]]
        /\ q[k].do = "create" <=> l[at[k]].id = NoId
        /\ q[k].do # "create" => l[at[k]].id \in GetNodePools
        /\ q[k].do = "rename" => pools[l[at[k]].id].name # l[at[k]].name
  BY <1>1, <1>4
<1>7. \A k \in DOMAIN q : q[k].do = "delete" =>
        /\ q[k].np.id = at[k]
        /\ q[k].np.id \in GetNodePools /\ \A i \in DOMAIN l : l[i].id # q[k].np.id
  BY <1>1, <1>5
<1>8. \A kind \in Kinds : \A i \in Positions(l, kind) :
        \E k \in DOMAIN q : /\ q[k].do = kind /\ at[k] = i
                            /\ q[k].np.id = IF kind = "delete" THEN i ELSE l[i].id
                            /\ kind # "delete" => q[k].np = l[i]
  <2> SUFFICES ASSUME NEW kind \in Kinds, NEW i \in Positions(l, kind)
               PROVE  \E k \in DOMAIN q : /\ q[k].do = kind /\ at[k] = i
                                          /\ q[k].np.id = IF kind = "delete" THEN i ELSE l[i].id
                                          /\ kind # "delete" => q[k].np = l[i]
    OBVIOUS
  <2>1. PICK k \in DOMAIN q : q[k].do = kind /\ at[k] = i
    BY <1>1
  <2> QED BY <1>6, <1>7, <2>1 DEF Kinds
<1> QED
  BY <1>1, <1>2, <1>6, <1>7, <1>8

\* The ids found for a clear list are as much apart as those it had.
LEMMA FixedApart ==
  ASSUME TypeOK, NamesApart, Clear(list), Apart(list), NEW fixed,
         fixed = [i \in DOMAIN list |-> FixId(list[i])]
  PROVE  /\ Apart(fixed)
         /\ \A i, j \in DOMAIN fixed :
              fixed[j].id \in GetNodePools /\ pools[fixed[j].id].name # fixed[j].name =>
                fixed[i].name # pools[fixed[j].id].name
<1>1. \A i \in DOMAIN list : list[i] \in Entry
  BY SeqTypes DEF TypeOK
<1>2. \A i \in DOMAIN list :
        /\ fixed[i].name = list[i].name
        /\ \/ fixed[i].id \in GetNodePools /\ pools[fixed[i].id].name = list[i].name
           \/ fixed[i].id = list[i].id
  BY <1>1, FixIdTypes
<1>3. DOMAIN fixed = DOMAIN list
  OBVIOUS
<1>4. \A i, j \in DOMAIN list :
        /\ list[i].name = list[j].name => i = j
        /\ list[i].id = list[j].id /\ list[i].id # NoId => i = j
        /\ list[i].id \in GetNodePools /\ pools[list[i].id].name = list[j].name => i = j
  BY PoolTypes DEF Clear, Apart
<1> HIDE DEF Clear, Apart
<1>5. Apart(fixed)
  BY <1>2, <1>3, <1>4 DEF Apart
<1>6. ASSUME NEW i \in DOMAIN list, NEW j \in DOMAIN list, fixed[j].id \in GetNodePools,
             pools[fixed[j].id].name # fixed[j].name, fixed[i].name = pools[fixed[j].id].name
      PROVE  FALSE
  BY <1>2, <1>4, <1>6
<1> QED
  BY <1>3, <1>5, <1>6

LEMMA ListKeeps ==
  ASSUME BatchInv, TypeOK', Plain' => Plain, List
  PROVE  BatchInv'
<1> DEFINE fixed == [i \in DOMAIN list |-> FixId(list[i])]
<1>1. TypeOK /\ NamesApart /\ IdsMade /\ UNCHANGED pools
  BY DEF BatchInv, List
<1>2. NamesApart' /\ PoolsStay /\ GetNodePools' = GetNodePools /\ (\A p : Present(p)' <=> Present(p))
  BY <1>1, SameNames, SameStay
<1>3. CASE Fault /\ Abort
  BY <1>2, <1>3, AbortKeeps
<1>4. CASE ~(Fault /\ Abort)
  <2>1. /\ list' = fixed /\ listed' = pools /\ todo' = Plan(fixed)
        /\ pc = "list" /\ pc' = "work" /\ clear' = (clear /\ Clear(list))
        /\ UNCHANGED <<spec, outside>>
    BY <1>4 DEF List
  <2>2. fixed \in Seq(Entry)
    BY <1>1, FixedTypes
  <2>3. \A i \in DOMAIN list : list[i] \in Entry
    BY <1>1, SeqTypes DEF TypeOK
  <2>4. /\ DOMAIN fixed = DOMAIN list
        /\ \A i \in DOMAIN list :
             /\ fixed[i].name = list[i].name /\ fixed[i].platform = list[i].platform
             /\ \/ fixed[i].id \in GetNodePools
                \/ /\ fixed[i].id = list[i].id
                   /\ \A p \in GetNodePools : \/ pools[p].name # list[i].name
                                              \/ pools[p].platform # list[i].platform
             /\ fixed[i].id \in GetNodePools /\ fixed[i].id # list[i].id =>
                  pools[fixed[i].id].name = list[i].name
    BY <1>1, <2>3, FixIdTypes
  <2>5. \A i \in DOMAIN list : \A p \in GetNodePools :
          pools[p].name = list[i].name /\ pools[p].platform = list[i].platform => fixed[i].id = p
    <3> TAKE i \in DOMAIN list
    <3>1. \/ /\ fixed[i].id \in GetNodePools /\ pools[fixed[i].id].name = list[i].name
          \/ \A p \in GetNodePools : pools[p].name # list[i].name \/ pools[p].platform # list[i].platform
      BY <1>1, <2>3, FixIdTypes
    <3> QED BY <1>1, <3>1 DEF NamesApart
  <2>6. Plain' => Apart(fixed) /\ \A i, j \in DOMAIN fixed :
          fixed[j].id \in GetNodePools /\ pools[fixed[j].id].name # fixed[j].name =>
            fixed[i].name # pools[fixed[j].id].name
    <3> SUFFICES ASSUME Plain'
                 PROVE  Apart(fixed) /\ \A i, j \in DOMAIN fixed :
                          fixed[j].id \in GetNodePools /\ pools[fixed[j].id].name # fixed[j].name =>
                            fixed[i].name # pools[fixed[j].id].name
      OBVIOUS
    <3>1. Clear(list)
      BY <2>1 DEF Plain
    <3>2. Apart(list)
      BY DEF BatchInv, ScalesOnce
    <3> QED BY <1>1, <3>1, <3>2, FixedApart
  <2>7. PICK at : Planned(fixed, Plan(fixed), at)
    BY <1>1, <2>2, PlanPlanned
  <2> DEFINE q == Plan(fixed)
  <2> HIDE DEF fixed, q
  <2>8. /\ \A k, m \in DOMAIN q : q[k].do = q[m].do /\ at[k] = at[m] => k = m
        /\ \A k, m \in DOMAIN q : k < m => Rank[q[k].do] <= Rank[q[m].do]
    BY <2>7 DEF Planned, q
  <2>9. \A k \in DOMAIN q : q[k].do \in Kinds /\ at[k] \in Positions(fixed, q[k].do)
    BY <1>1, <2>2, <2>7, PlanSays DEF q
  <2>10. \A k \in DOMAIN q : q[k].do \in {"create", "update", "rename"} =>
           /\ at[k] \in DOMAIN fixed /\ q[k].np = fixed[at[k]]
           /\ q[k].do = "create" <=> fixed[at[k]].id = NoId
           /\ q[k].do # "create" => fixed[at[k]].id \in GetNodePools
           /\ q[k].do = "rename" => pools[fixed[at[k]].id].name # fixed[at[k]].name
    BY <1>1, <2>2, <2>7, PlanSays DEF q
  <2>11. \A k \in DOMAIN q : q[k].do = "delete" =>
           /\ q[k].np.id \in GetNodePools /\ \A i \in DOMAIN fixed : fixed[i].id # q[k].np.id
    BY <1>1, <2>2, <2>7, PlanSays DEF q
  <2>12. \A kind \in Kinds : \A i \in Positions(fixed, kind) :
           \E k \in DOMAIN q : /\ q[k].do = kind /\ at[k] = i
                               /\ q[k].np.id = IF kind = "delete" THEN i ELSE fixed[i].id
                               /\ kind # "delete" => q[k].np = fixed[i]
    BY <1>1, <2>2, <2>7, PlanSays DEF q
  <2>13. todo' = q /\ GetNodePools \subseteq DOMAIN pools
    BY <1>1, <2>1, PoolTypes DEF q
  <2>14. InOrder'
    BY <2>1, <2>8, <2>13 DEF InOrder, Does
  <2>15. IdsMade'
    <3>1. \A i \in DOMAIN fixed : fixed[i].id \in DOMAIN pools \cup {NoId}
      BY <1>1, <2>4, <2>13 DEF IdsMade
    <3>2. \A k \in DOMAIN q : q[k].do # "create" => q[k].np.id \in DOMAIN pools
      BY <2>9, <2>10, <2>11, <2>13 DEF Kinds
    <3> QED BY <1>1, <2>1, <2>13, <3>1, <3>2 DEF IdsMade
  <2>16. DeletesUnasked'
    BY <1>1, <2>1, <2>4, <2>5, <2>11, <2>13 DEF DeletesUnasked, Does
  <2>17. ScalesOnce'
    <3> SUFFICES ASSUME Plain' PROVE ScalesOnce'
      BY DEF ScalesOnce
    <3>1. Apart(spec)' /\ Apart(list)'
      <4>1. Apart(spec) BY DEF BatchInv, ScalesOnce
      <4> QED BY <2>1, <2>6, <4>1 DEF Apart
    <3>2. ASSUME NEW k \in DOMAIN q, q[k].do = "update"
          PROVE  /\ pools'[q[k].np.id].nodes = listed'[q[k].np.id].nodes
                 /\ pools'[q[k].np.id].target = listed'[q[k].np.id].nodes
                 /\ \E i \in DOMAIN list' : /\ list'[i].name = q[k].np.name
                                            /\ list'[i].id = q[k].np.id
                                            /\ list'[i].count = q[k].np.count
      <4>1. \A p \in GetNodePools : pools[p].nodes = pools[p].target
        BY <2>1 DEF BatchInv, ScalesOnce, Busy
      <4>2. at[k] \in DOMAIN fixed /\ q[k].np = fixed[at[k]] /\ fixed[at[k]].id \in GetNodePools
        BY <2>10, <3>2
      <4> QED BY <1>1, <2>1, <4>1, <4>2
    <3>3. ASSUME NEW k \in DOMAIN q, NEW m \in DOMAIN q,
                 q[k].do \in {"create", "update"}, q[m].do \in {"create", "update"},
                 q[k].np.name = q[m].np.name \/ (/\ q[k].do = "update" /\ q[m].do = "update"
                                                 /\ q[k].np.id = q[m].np.id)
          PROVE  k = m
      <4>1. /\ at[k] \in DOMAIN fixed /\ q[k].np = fixed[at[k]]
            /\ at[m] \in DOMAIN fixed /\ q[m].np = fixed[at[m]]
            /\ q[k].do = "create" <=> fixed[at[k]].id = NoId
            /\ q[m].do = "create" <=> fixed[at[m]].id = NoId
        BY <2>10, <3>3
      <4>2. at[k] = at[m]
        BY <2>6, <3>3, <4>1 DEF Apart
      <4> QED BY <2>8, <3>3, <4>1, <4>2
    <3> QED BY <2>1, <2>13, <3>1, <3>2, <3>3 DEF ScalesOnce, Does
  <2>18. Reserved'
    <3> SUFFICES ASSUME Plain' PROVE Reserved'
      BY DEF Reserved
    <3>1. \A k \in DOMAIN q : q[k].do = "create" =>
            \E i \in DOMAIN fixed : /\ fixed[i].name = q[k].np.name
                                    /\ fixed[i].id = NoId
                                    /\ fixed[i].count = q[k].np.count
      BY <2>10
    <3>2. \A k \in DOMAIN q : q[k].do = "rename" =>
            \A i \in DOMAIN fixed : fixed[i].name # pools[q[k].np.id].name
      BY <2>6, <2>10
    <3>3. \A k, m \in DOMAIN q :
            q[k].do = "rename" /\ q[m].do = "rename" /\ q[k].np.id = q[m].np.id => k = m
      <4> SUFFICES ASSUME NEW k \in DOMAIN q, NEW m \in DOMAIN q, q[k].do = "rename",
                          q[m].do = "rename", q[k].np.id = q[m].np.id
                   PROVE  k = m OBVIOUS
      <4>1. at[k] = at[m]
        BY <2>6, <2>10 DEF Apart
      <4> QED BY <2>8, <4>1
    <3> QED BY <1>1, <2>1, <2>13, <3>1, <3>2, <3>3 DEF Reserved, Does
  <2>19. TasksCover'
    <3> SUFFICES ASSUME Plain', Known(fixed)
                 PROVE  TasksCover'
      BY <1>2, <2>1 DEF TasksCover, Known
    <3>1. ASSUME NEW p \in GetNodePools
          PROVE  \/ \E k \in DOMAIN q : q[k].do \in {"update", "delete"} /\ q[k].np.id = p
                 \/ \E i \in DOMAIN fixed :
                      /\ fixed[i].id = p /\ fixed[i].count = pools[p].target
                      /\ \/ fixed[i].name = pools[p].name
                         \/ \E k \in DOMAIN q : /\ q[k].do = "rename" /\ q[k].np.id = p
                                                /\ q[k].np.name = fixed[i].name
      <4>1. CASE \A i \in DOMAIN fixed : fixed[i].id # p
        <5>1. p \in Positions(fixed, "delete")
          BY <4>1 DEF Positions
        <5> QED BY <2>12, <5>1 DEF Kinds
      <4>2. ASSUME NEW i \in DOMAIN fixed, fixed[i].id = p
            PROVE  \/ \E k \in DOMAIN q : q[k].do \in {"update", "delete"} /\ q[k].np.id = p
                   \/ \E j \in DOMAIN fixed :
                        /\ fixed[j].id = p /\ fixed[j].count = pools[p].target
                        /\ \/ fixed[j].name = pools[p].name
                           \/ \E k \in DOMAIN q : /\ q[k].do = "rename" /\ q[k].np.id = p
                                                  /\ q[k].np.name = fixed[j].name
        <5>1. Present(p) /\ pools[p].nodes = pools[p].target
          BY <1>1, <2>1, PoolTypes DEF BatchInv, ScalesOnce, Busy
        <5>2. CASE pools[p].nodes # fixed[i].count
          <6>1. i \in Positions(fixed, "update")
            BY <4>2, <5>1, <5>2 DEF Positions
          <6> QED BY <2>12, <4>2, <6>1 DEF Kinds
        <5>3. CASE pools[p].nodes = fixed[i].count /\ pools[p].name # fixed[i].name
          <6>1. i \in Positions(fixed, "rename")
            BY <4>2, <5>1, <5>3 DEF Positions
          <6>2. PICK k \in DOMAIN q : q[k].do = "rename" /\ q[k].np = fixed[i]
            BY <2>12, <6>1 DEF Kinds
          <6> QED BY <4>2, <5>1, <5>3, <6>2
        <5>4. CASE pools[p].nodes = fixed[i].count /\ pools[p].name = fixed[i].name
          BY <4>2, <5>1, <5>4
        <5> QED BY <5>2, <5>3, <5>4
      <4> QED BY <4>1, <4>2
    <3>2. ASSUME NEW i \in DOMAIN fixed, fixed[i].name # Default
          PROVE  \/ \E p \in GetNodePools : pools[p].name = fixed[i].name
                 \/ \E k \in DOMAIN q : /\ q[k].do \in {"create", "rename"}
                                        /\ q[k].np.name = fixed[i].name
      <4>1. CASE fixed[i].id = NoId
        <5>1. i \in Positions(fixed, "create")
          BY <3>2, <4>1 DEF Positions
        <5> QED BY <2>12, <5>1 DEF Kinds
      <4>2. CASE Present(fixed[i].id) /\ pools[fixed[i].id].name # fixed[i].name
        <5>1. i \in Positions(fixed, "rename")
          BY <4>2 DEF Positions
        <5> QED BY <2>12, <5>1 DEF Kinds
      <4>3. CASE Present(fixed[i].id) /\ pools[fixed[i].id].name = fixed[i].name
        BY <1>1, <4>3, PoolTypes
      <4> QED BY <4>1, <4>2, <4>3 DEF Known
    <3> QED BY <1>1, <1>2, <2>1, <2>13, <3>1, <3>2 DEF TasksCover, Does, Taken
  <2> QED BY <1>2, <2>14, <2>15, <2>16, <2>17, <2>18, <2>19 DEF BatchInv
<1> QED
  BY <1>3, <1>4

-----------------------------------------------------------------------------
(* The rest of a round, and the world.                                     *)

LEMMA RoundKeeps ==
  ASSUME BatchInv, TypeOK', Plain' => Plain, Begin \/ Fence \/ Finish \/ Crash
  PROVE  BatchInv'
<1>1. TypeOK /\ NamesApart /\ InOrder /\ UNCHANGED pools
  BY DEF BatchInv, Begin, Fence, Finish, Crash
<1>2. PoolsStay /\ NamesApart' /\ GetNodePools' = GetNodePools
  BY <1>1, SameStay, SameNames
<1>3. CASE Abort
  BY <1>2, <1>3, AbortKeeps
<1>4. CASE Begin
  <2>1. todo = <<>>
    BY <1>1, <1>4 DEF Begin, InOrder
  <2>2. /\ todo' = <<>> /\ pc' = "fence" /\ listed' = listed /\ spec' = spec /\ list' = spec
    BY <1>4, <2>1 DEF Begin
  <2> QED BY <1>2, <2>2, RoundsEnds
<1>5. CASE Fence /\ ~Abort
  <2>1. todo = <<>>
    BY <1>1, <1>5 DEF Fence, InOrder
  <2>2. /\ todo' = <<>> /\ pc' = "list" /\ listed' = listed /\ spec' = spec /\ list' = list
        /\ \A p \in GetNodePools : ~Busy(p)
    BY <1>5, <2>1 DEF Fence, batch
  <2>3. \A p \in GetNodePools' : ~Busy(p)'
    BY <1>1, <1>2, <2>2 DEF Busy
  <2>4. InOrder' /\ DeletesUnasked' /\ TasksCover' /\ Reserved'
    BY <2>2 DEF InOrder, DeletesUnasked, TasksCover, Reserved, Does
  <2>5. IdsMade'
    BY <1>1, <2>2 DEF BatchInv, IdsMade
  <2>6. ScalesOnce'
    BY <2>2, <2>3 DEF BatchInv, ScalesOnce, Does, Apart
  <2> QED BY <1>2, <2>4, <2>5, <2>6 DEF BatchInv
<1>6. CASE Finish
  <2>1. spec' \in {spec, list}
    BY <1>6 DEF Finish
  <2>2. /\ todo' = <<>> /\ pc' = "idle" /\ listed' = <<>> /\ list' = <<>>
    BY <1>6 DEF Finish, End
  <2> QED BY <1>2, <2>1, <2>2, RoundsEnds
<1> QED
  BY <1>3, <1>4, <1>5, <1>6 DEF Crash

\* The cloud changes the nodes of one busy pool.
LEMMA CloudAlters ==
  ASSUME TypeOK, NamesApart, CloudStep
  PROVE  /\ \E p \in GetNodePools : Busy(p) /\ Alters(p, "nodes")
         /\ GetNodePools' = GetNodePools
<1>1. PICK p \in GetNodePools : /\ Busy(p)
                                /\ pools' = [pools EXCEPT ![p].nodes =
                                              IF @ < pools[p].target THEN @ + 1 ELSE @ - 1]
  BY DEF CloudStep
<1>2. p \in DOMAIN pools /\ pools[p].nodes \in Nat /\ pools[p].target \in Nat
  BY PoolTypes DEF Pool
<1> PICK v : v = IF pools[p].nodes < pools[p].target THEN pools[p].nodes + 1 ELSE pools[p].nodes - 1
  OBVIOUS
<1>3. v \in Nat
  BY <1>1, <1>2 DEF Busy
<1>4. pools' = [pools EXCEPT ![p].nodes = v]
  BY <1>1
<1>5. Alters(p, "nodes")
  BY <1>2, <1>3, <1>4, Stepped
<1> QED
  BY <1>1, <1>5, AlteredNames

LEMMA CloudKeeps ==
  ASSUME BatchInv, TypeOK', CloudStep
  PROVE  BatchInv'
<1>1. TypeOK /\ NamesApart
  BY DEF BatchInv
<1>2. /\ UNCHANGED <<spec, pc, list, listed, todo, found, changed, failed, clear, outside>>
      /\ (Plain' <=> Plain) /\ np' = np
  BY DEF CloudStep, batch, bounds, Plain, np
<1>3. PICK p \in GetNodePools : Busy(p) /\ Alters(p, "nodes")
  BY <1>1, CloudAlters
<1>4. /\ NamesApart' /\ GetNodePools' = GetNodePools /\ DOMAIN pools' = DOMAIN pools
      /\ \A q \in DOMAIN pools : /\ pools'[q].name = pools[q].name
                                 /\ pools'[q].platform = pools[q].platform
                                 /\ pools'[q].target = pools[q].target
                                 /\ q # p => pools'[q] = pools[q]
  BY <1>1, <1>3, AlteredNames DEF Alters
<1>5. GetNodePools \subseteq DOMAIN pools
  BY <1>1, PoolTypes
<1>6. InOrder' /\ IdsMade'
  BY <1>2, <1>4 DEF BatchInv, InOrder, IdsMade, Does
<1>7. \A k \in DOMAIN todo : todo[k].do # "create" =>
        /\ todo[k].np.id \in DOMAIN pools
        /\ pools'[todo[k].np.id].name = pools[todo[k].np.id].name
        /\ pools'[todo[k].np.id].platform = pools[todo[k].np.id].platform
        /\ pools'[todo[k].np.id].target = pools[todo[k].np.id].target
        /\ todo[k].np.id # p => pools'[todo[k].np.id] = pools[todo[k].np.id]
  <2> TAKE k \in DOMAIN todo
  <2> HAVE todo[k].do # "create"
  <2>1. todo[k].np.id \in DOMAIN pools
    BY DEF BatchInv, IdsMade
  <2> QED BY <1>4, <2>1
<1>8. DeletesUnasked'
  BY <1>2, <1>7 DEF BatchInv, DeletesUnasked, Does
<1>9. ScalesOnce'
  <2> SUFFICES ASSUME Plain PROVE ScalesOnce'
    BY <1>2 DEF ScalesOnce
  <2>1. pc # "list"
    BY <1>3 DEF BatchInv, ScalesOnce
  <2>2. \A k \in DOMAIN todo : todo[k].do = "update" =>
          /\ pools'[todo[k].np.id].nodes = listed[todo[k].np.id].nodes
          /\ pools'[todo[k].np.id].target = listed[todo[k].np.id].nodes
          /\ \E i \in DOMAIN list : /\ list[i].name = todo[k].np.name
                                    /\ list[i].id = todo[k].np.id
                                    /\ list[i].count = todo[k].np.count
    <3> SUFFICES ASSUME NEW k \in DOMAIN todo, todo[k].do = "update"
                 PROVE  /\ pools'[todo[k].np.id].nodes = listed[todo[k].np.id].nodes
                        /\ pools'[todo[k].np.id].target = listed[todo[k].np.id].nodes
                        /\ \E i \in DOMAIN list : /\ list[i].name = todo[k].np.name
                                                  /\ list[i].id = todo[k].np.id
                                                  /\ list[i].count = todo[k].np.count
      OBVIOUS
    <3>1. /\ pools[todo[k].np.id].nodes = listed[todo[k].np.id].nodes
          /\ pools[todo[k].np.id].target = listed[todo[k].np.id].nodes
          /\ \E i \in DOMAIN list : /\ list[i].name = todo[k].np.name
                                    /\ list[i].id = todo[k].np.id
                                    /\ list[i].count = todo[k].np.count
      BY DEF BatchInv, ScalesOnce, Does
    <3>2. todo[k].np.id # p
      BY <1>3, <3>1 DEF Busy
    <3> QED BY <1>7, <3>1, <3>2
  <2>3. Apart(spec)' /\ Apart(list)'
    BY <1>2 DEF BatchInv, ScalesOnce, Apart
  <2>4. /\ \A k, m \in DOMAIN todo :
             /\ todo[k].do \in {"create", "update"} /\ todo[m].do \in {"create", "update"}
             /\ todo[k].np.name = todo[m].np.name \/ (/\ todo[k].do = "update" /\ todo[m].do = "update"
                                                      /\ todo[k].np.id = todo[m].np.id)
             => k = m
        /\ pc = "removeNodes" => found = listed[np.id].nodes
    BY DEF BatchInv, ScalesOnce, Does
  <2> QED BY <1>2, <2>1, <2>2, <2>3, <2>4 DEF ScalesOnce, Does
<1>10. Reserved'
  BY <1>2, <1>7 DEF BatchInv, Reserved, Does
<1>11. TasksCover'
  <2>1. (\A q : Present(q)' <=> Present(q)) /\ (\A name : Taken(name)' <=> Taken(name))
    <3>1. \A q : q \in GetNodePools <=> Present(q)
      BY DEF GetNodePools, Present
    <3>2. \A q : q \in GetNodePools' <=> Present(q)'
      BY DEF GetNodePools, Present
    <3>3. \A q \in GetNodePools : pools'[q].name = pools[q].name
      BY <1>4, <1>5
    <3> QED BY <1>4, <3>1, <3>2, <3>3 DEF Taken
  <2>2. Known(list)' <=> Known(list)
    BY <1>2, <2>1 DEF Known
  <2>3. TasksCover
    BY DEF BatchInv
  <2>4. \A q \in GetNodePools : pools'[q].name = pools[q].name /\ pools'[q].target = pools[q].target
    BY <1>4, <1>5
  <2>5. GetNodePools' = GetNodePools
    BY <1>4
  <2> QED BY <1>2, <2>1, <2>2, <2>3, <2>4, <2>5 DEF TasksCover, Does
<1> QED
  BY <1>4, <1>6, <1>8, <1>9, <1>10, <1>11 DEF BatchInv

LEMMA OutsideKeeps ==
  ASSUME BatchInv, TypeOK', OutsideStep
  PROVE  BatchInv'
<1>1. TypeOK /\ NamesApart
  BY DEF BatchInv
<1>2. UNCHANGED <<spec, pc, list, listed, todo, found, changed, failed, clear>> /\ outside' = outside + 1
  BY DEF OutsideStep, batch
<1>3. ~Plain'
  BY <1>1, <1>2 DEF Plain, TypeOK
<1>4. PICK p \in GetNodePools : Alters(p, "target") \/ DeleteNodePool(p)
  <2>1. PICK p \in GetNodePools :
          \/ \E e \in Asked : pools' = [pools EXCEPT ![p].target = e.count]
          \/ DeleteNodePool(p)
    BY DEF OutsideStep
  <2>2. ASSUME NEW e \in Asked, pools' = [pools EXCEPT ![p].target = e.count]
        PROVE  Alters(p, "target")
    <3>1. e.count \in Nat /\ p \in DOMAIN pools BY <1>1, ListsAssumption, PoolTypes
    <3> QED BY <1>1, <2>2, <3>1, Scaled
  <2> QED BY <2>1, <2>2
<1>5. /\ NamesApart'
      /\ \A q \in DOMAIN pools : /\ pools'[q].name = pools[q].name
                                 /\ pools'[q].platform = pools[q].platform
  BY <1>1, <1>4, AlteredNames, DeletedNames
<1>6. DOMAIN pools' = DOMAIN pools
  BY <1>1, <1>4, Deleted DEF Alters
<1>7. InOrder' /\ IdsMade'
  BY <1>2, <1>6 DEF BatchInv, InOrder, IdsMade, Does
<1>8. \A k \in DOMAIN todo : todo[k].do # "create" => todo[k].np.id \in DOMAIN pools
  BY DEF BatchInv, IdsMade
<1>9. DeletesUnasked'
  BY <1>2, <1>5, <1>8 DEF BatchInv, DeletesUnasked, Does
<1>10. ScalesOnce' /\ Reserved' /\ TasksCover'
  BY <1>3 DEF ScalesOnce, Reserved, TasksCover
<1> QED
  BY <1>5, <1>7, <1>9, <1>10 DEF BatchInv

\* An edit that leaves the list clear leaves its ids apart: they are old ids of
\* entries of other names.
LEMMA EditKeeps ==
  ASSUME BatchInv, TypeOK', Plain' => Plain, UserEdit
  PROVE  BatchInv'
<1>1. TypeOK /\ NamesApart
  BY DEF BatchInv
<1>2. /\ UNCHANGED <<pools, pc, list, listed, todo, found, changed, failed, outside>>
      /\ spec' \in Replaced \cup Renamed /\ clear' = (clear /\ Clear(spec')) /\ np' = np
  BY DEF UserEdit, batch, np
<1>3. NamesApart' /\ GetNodePools' = GetNodePools /\ (\A p : Present(p)' <=> Present(p))
  BY <1>1, <1>2, SameNames
<1>4. \A i \in DOMAIN spec' :
        \/ spec'[i].id = NoId
        \/ \E j \in DOMAIN spec : spec'[i].id = spec[j].id /\ spec'[i].name = spec[j].name
        \/ i \in DOMAIN spec /\ spec'[i].id = spec[i].id /\ spec' \in Renamed
  BY <1>1, <1>2, EditTypes
<1>5. InOrder'
  BY <1>2 DEF BatchInv, InOrder, Does
<1>6. IdsMade'
  <2>1. \A i \in DOMAIN spec' : spec'[i].id \in DOMAIN pools \cup {NoId}
    BY <1>4 DEF BatchInv, IdsMade
  <2> QED BY <1>2, <2>1 DEF BatchInv, IdsMade
<1>7. DeletesUnasked'
  BY <1>2 DEF BatchInv, DeletesUnasked, Does
<1>8. ASSUME Plain' PROVE Apart(spec')
  <2>1. Apart(spec) /\ Clear(spec')
    BY <1>2, <1>8 DEF BatchInv, ScalesOnce, Plain
  <2>2. \A i, j \in DOMAIN spec' : spec'[i].name = spec'[j].name => i = j
    BY <2>1 DEF Clear
  <2>3. CASE spec' \in Renamed
    <3>1. \A i \in DOMAIN spec' : i \in DOMAIN spec /\ spec'[i].id = spec[i].id
      BY <1>1, <2>3, RenamedIds
    <3> QED BY <2>1, <2>2, <3>1 DEF Apart
  <2>4. CASE spec' \notin Renamed
    <3> SUFFICES ASSUME NEW i \in DOMAIN spec', NEW j \in DOMAIN spec',
                        spec'[i].id = spec'[j].id, spec'[i].id # NoId
                 PROVE  i = j
      BY <2>2 DEF Apart
    <3>1. PICK m \in DOMAIN spec : spec'[i].id = spec[m].id /\ spec'[i].name = spec[m].name
      BY <1>4, <2>4
    <3>2. PICK n \in DOMAIN spec : spec'[j].id = spec[n].id /\ spec'[j].name = spec[n].name
      BY <1>4, <2>4
    <3>3. m = n
      BY <2>1, <3>1, <3>2 DEF Apart
    <3> QED BY <2>2, <3>1, <3>2, <3>3
  <2> QED BY <2>3, <2>4
<1>9. ScalesOnce'
  <2> SUFFICES ASSUME Plain' PROVE ScalesOnce'
    BY DEF ScalesOnce
  <2>1. Apart(spec)' /\ Apart(list)'
    BY <1>2, <1>8 DEF BatchInv, ScalesOnce, Apart
  <2>2. pc' = "list" => \A p \in GetNodePools' : ~Busy(p)'
    BY <1>2, <1>3 DEF BatchInv, ScalesOnce, Busy
  <2>3. /\ \A k \in DOMAIN todo : todo[k].do = "update" =>
             /\ pools[todo[k].np.id].nodes = listed[todo[k].np.id].nodes
             /\ pools[todo[k].np.id].target = listed[todo[k].np.id].nodes
             /\ \E i \in DOMAIN list : /\ list[i].name = todo[k].np.name
                                       /\ list[i].id = todo[k].np.id
                                       /\ list[i].count = todo[k].np.count
        /\ \A k, m \in DOMAIN todo :
             /\ todo[k].do \in {"create", "update"} /\ todo[m].do \in {"create", "update"}
             /\ todo[k].np.name = todo[m].np.name \/ (/\ todo[k].do = "update" /\ todo[m].do = "update"
                                                      /\ todo[k].np.id = todo[m].np.id)
             => k = m
        /\ pc = "removeNodes" => found = listed[np.id].nodes
    BY DEF BatchInv, ScalesOnce, Does
  <2> QED BY <1>2, <2>1, <2>2, <2>3 DEF ScalesOnce, Does
<1>10. Reserved'
  BY <1>2 DEF BatchInv, Reserved, Does
<1>11. TasksCover'
  <2>1. Known(list)' <=> Known(list)
    BY <1>2, <1>3 DEF Known
  <2>2. \A name : Taken(name)' <=> Taken(name)
    BY <1>2, <1>3 DEF Taken
  <2>3. TasksCover
    BY DEF BatchInv
  <2> QED BY <1>2, <1>3, <2>1, <2>2, <2>3 DEF TasksCover, Does
<1> QED
  BY <1>3, <1>5, <1>6, <1>7, <1>9, <1>10, <1>11 DEF BatchInv

-----------------------------------------------------------------------------
(* The invariant.                                                          *)

LEMMA InitKeeps ==
  ASSUME Init
  PROVE  BatchInv
<1>1. TypeOK /\ Len(pools) <= 1
  BY InitTyped
<1>2. /\ pc = "idle" /\ todo = <<>> /\ list = <<>> /\ listed = <<>> /\ clear = Clear(spec)
      /\ \A i \in DOMAIN spec : spec[i].id = NoId
  BY DEF Init, WithId
<1>3. InOrder /\ DeletesUnasked /\ Reserved /\ TasksCover
  BY <1>2 DEF InOrder, DeletesUnasked, Reserved, TasksCover, Does
<1>4. IdsMade
  BY <1>2 DEF IdsMade
<1>5. NamesApart
  <2>1. \A p \in GetNodePools : p \in 1 .. Len(pools) /\ Len(pools) \in Nat
    BY <1>1, PoolTypes
  <2> QED BY <1>1, <2>1 DEF NamesApart
<1>6. ScalesOnce
  <2>1. Apart(list)
    BY <1>2 DEF Apart
  <2>2. Plain => Apart(spec)
    BY <1>2 DEF Plain, Clear, Apart
  <2> QED BY <1>2, <2>1, <2>2 DEF ScalesOnce, Does
<1> QED
  BY <1>1, <1>3, <1>4, <1>5, <1>6 DEF BatchInv

LEMMA StepKeeps ==
  ASSUME BatchInv, [Next]_vars
  PROVE  BatchInv'
<1>1. TypeOK' /\ (Plain' => Plain)
  BY StepTyped, PlainFalls DEF BatchInv
<1>2. CASE UNCHANGED vars
  <2>1. /\ UNCHANGED <<pools, spec, pc, list, listed, todo, found, changed, failed>>
        /\ UNCHANGED <<clear, outside>>
    BY <1>2 DEF vars, batch, bounds
  <2>2. InOrder' /\ IdsMade' /\ NamesApart' /\ DeletesUnasked'
    BY <2>1 DEF BatchInv, InOrder, IdsMade, NamesApart, GetNodePools, Present, DeletesUnasked, Does
  <2>3. ScalesOnce'
    BY <2>1 DEF BatchInv, ScalesOnce, Plain, Apart, GetNodePools, Present, Busy, Does, np
  <2>4. Reserved'
    BY <2>1 DEF BatchInv, Reserved, Plain, Does
  <2>5. TasksCover'
    BY <2>1 DEF BatchInv, TasksCover, Plain, Known, GetNodePools, Present, Taken, Does
  <2> QED BY <1>1, <2>2, <2>3, <2>4, <2>5 DEF BatchInv
<1>3. CASE Next
  BY <1>1, <1>3, CreateKeeps, UpdatesKeep, QueryKeeps, DeletesKeep, RenameKeeps, ListKeeps,
     RoundKeeps, CloudKeeps, OutsideKeeps, EditKeeps DEF Next, Round
<1> QED
  BY <1>2, <1>3

\* UpdateNodePoolBatch, nodepool.go: between its requests the batch can rely on
\* the tasks to come being about pools it listed, on none to be deleted being
\* asked for and, in a plain world, on what it listed of pools it is to scale.
THEOREM BatchHolds == Spec => []BatchInv
<1>1. Init => BatchInv
  BY InitKeeps
<1>2. BatchInv /\ [Next]_vars => BatchInv'
  BY StepKeeps
<1> QED BY <1>1, <1>2, PTL DEF Spec

\* The pools, the lists and the tasks have their types; no more pools are made
\* than the quota allows.
THEOREM TypeCorrect == Spec => []TypeOK
<1>1. BatchInv => TypeOK
  BY DEF BatchInv
<1> QED BY <1>1, BatchHolds, PTL

\* ScaleDownNodePool's nodes[i], nodepool.go: in a plain world the index stays
\* below the number of nodes found.
THEOREM IndexStaysInRange == Spec => []IndexInRange
<1>1. ASSUME BatchInv, pc = "removeNodes", Plain
      PROVE  Surplus <= found
  <2>1. listed[np.id] \in Pool /\ np.count \in Nat
    BY <1>1, AtTask DEF BatchInv
  <2>2. found = listed[np.id].nodes
    BY <1>1 DEF BatchInv, ScalesOnce
  <2> QED BY <2>1, <2>2 DEF Surplus, Pool
<1>2. BatchInv => IndexInRange
  BY <1>1 DEF IndexInRange
<1> QED BY <1>2, BatchHolds, PTL

\* UpdateNodePoolBatch, nodepool.go: in a plain world, no change and no error
\* mean that the cloud is as the list says.
THEOREM QuietIsDone == Spec => []QuietMeansDone
<1>1. ASSUME BatchInv, pc = "work", todo = <<>>, ~changed, ~failed, Plain, Known(list)
      PROVE  Matches(list)
  <2>1. \A k : k \notin DOMAIN todo
    BY <1>1
  <2>2. /\ \A p \in GetNodePools :
             \E i \in DOMAIN list : list[i].name = pools[p].name /\ list[i].count = pools[p].target
        /\ \A i \in DOMAIN list : list[i].name = Default \/ Taken(list[i].name)
    BY <1>1, <2>1 DEF BatchInv, TasksCover, Does
  <2> QED BY <2>2 DEF Matches
<1>2. BatchInv => QuietMeansDone
  BY <1>1 DEF QuietMeansDone
<1> QED BY <1>2, BatchHolds, PTL

-----------------------------------------------------------------------------
(* What the steps do to pools and sizes.                                   *)

\* Pools go by DeletePool or elsewhere.
LEMMA PoolsRemain ==
  ASSUME BatchInv, [Next]_vars, NEW p \in GetNodePools, ~Present(p)', outside' = outside
  PROVE  DeletePool /\ DeleteNodePool(np.id) /\ p = np.id
<1>1. TypeOK /\ InOrder /\ IdsMade /\ NamesApart
  BY DEF BatchInv
<1>2. pools' # pools
  BY DEF GetNodePools, Present
<1>3. GetNodePools' # GetNodePools /\ p \notin GetNodePools'
  BY DEF GetNodePools, Present
<1>4. CASE CreatePool
  <2>1. CreateNodePool(np) /\ np \in Entry
    BY <1>1, <1>2, <1>4, TodoTypes DEF CreatePool, Doing
  <2> QED BY <1>1, <1>3, <2>1, CreatedNames
<1>5. CASE ScaleUp
  <2>1. ScaleUpNodePool(np.id, Shortfall) /\ Shortfall > 0 /\ todo # <<>> /\ Head(todo).do = "update"
    BY <1>2, <1>5 DEF ScaleUp, Ask, Doing
  <2>2. Alters(np.id, "target") /\ np.id \in GetNodePools
    BY <1>1, <2>1, ScaleUpStays, PoolTypes DEF ScaleUpNodePool
  <2> QED BY <1>1, <1>3, <2>2, AlteredNames
<1>6. CASE RemoveNodes \/ Drain
  <2>1. PICK n \in Int : ScaleDownNodePool(np.id, n)
    <3>1. Surplus \in Int /\ found \in Int
      <4>1. listed[np.id] \in Pool /\ np.count \in Nat
        BY <1>1, <1>6, AtTask DEF RemoveNodes, Drain
      <4>2. listed[np.id].nodes \in Nat
        BY <4>1 DEF Pool
      <4>3. found \in Nat
        BY <1>1 DEF TypeOK
      <4> QED BY <4>1, <4>2, <4>3 DEF Surplus
    <3> QED BY <1>2, <1>6, <3>1 DEF RemoveNodes, Drain, Ask
  <2>2. np.id \in DOMAIN pools /\ np.id \in GetNodePools
    BY <1>1, <2>1, PoolTypes DEF ScaleDownNodePool
  <2>3. Alters(np.id, "target")
    BY <1>1, <2>1, <2>2, ScaleDownStays
  <2> QED BY <1>1, <1>3, <2>2, <2>3, AlteredNames
<1>7. CASE RenamePool
  <2>1. UpdateNodePool(np) /\ np \in Entry
    BY <1>1, <1>2, <1>7, TodoTypes DEF RenamePool, Doing
  <2> QED BY <1>1, <1>3, <2>1, RelabelledNames
<1>8. CASE CloudStep
  BY <1>1, <1>3, <1>8, CloudAlters
<1>9. CASE OutsideStep
  BY <1>1, <1>9 DEF OutsideStep, TypeOK
<1>10. CASE DeletePool
  <2>1. DeleteNodePool(np.id)
    BY <1>2, <1>10 DEF DeletePool, Ask
  <2> QED BY <1>1, <1>3, <1>10, <2>1, DeletedNames
<1>11. CASE Begin \/ Fence \/ List \/ QueryNodes \/ QueryExtra \/ Finish \/ Crash \/ UserEdit \/ UNCHANGED vars
  BY <1>2, <1>11
  DEF Begin, Fence, List, QueryNodes, QueryExtra, Finish, Crash, UserEdit, vars
<1> QED
  BY <1>4, <1>5, <1>6, <1>7, <1>8, <1>9, <1>10, <1>11 DEF Next, Round

\* UpdateNodePoolBatch, nodepool.go: the batch deletes no pool whose name and
\* platform its list asks for, whatever was edited, failed or happened outside.
THEOREM DeletesHold == Spec => NoDeleteOfAsked
<1> DEFINE Unasked(p) ==
      \A i \in DOMAIN list : list[i].name # pools[p].name \/ list[i].platform # pools[p].platform
<1>1. ASSUME BatchInv, [Next]_vars, NEW p \in GetNodePools, ~Present(p)', outside' = outside
      PROVE  Unasked(p)
  <2>1. pc = "deletePool" /\ p = np.id
    BY <1>1, PoolsRemain DEF DeletePool
  <2>2. Does(1, {"delete"}) /\ np = todo[1].np
    BY <1>1, <2>1, AtTask DEF BatchInv, InOrder
  <2>3. Unasked(todo[1].np.id)
    BY <1>1, <2>2 DEF BatchInv, DeletesUnasked, Does
  <2> QED BY <2>1, <2>2, <2>3
<1>2. BatchInv /\ [Next]_vars =>
        [\A p \in GetNodePools : ~Present(p)' /\ outside' = outside =>
           \A i \in DOMAIN list : list[i].name # pools[p].name
                                  \/ list[i].platform # pools[p].platform]_pools
  BY <1>1
<1> QED
  BY <1>2, BatchHolds, PTL DEF Spec, NoDeleteOfAsked

\* A pool gets another target when it is scaled to the size of its entry, when
\* it is drained, or elsewhere.
LEMMA TargetsMove ==
  ASSUME BatchInv, [Next]_vars, Plain', pc \in {"work", "removeNodes"},
         NEW p \in DOMAIN pools, pools'[p].target # pools[p].target
  PROVE  p = np.id /\ \E i \in DOMAIN list : list[i].id = p /\ list[i].count = pools'[p].target
<1>1. TypeOK /\ InOrder /\ IdsMade /\ NamesApart /\ Plain
  BY PlainFalls DEF BatchInv
<1>2. pools' # pools
  OBVIOUS
<1>3. ASSUME ScaleUp \/ RemoveNodes
      PROVE  /\ p = np.id /\ pools'[p].target = np.count
             /\ \E i \in DOMAIN list : list[i].id = np.id /\ list[i].count = np.count
  <2>1. /\ 1 \in DOMAIN todo /\ Head(todo) = todo[1] /\ np = todo[1].np /\ todo # <<>>
        /\ np.id \in DOMAIN pools /\ listed[np.id].nodes \in Nat /\ np.count \in Nat
    <3>1. \/ pc = "work" /\ todo # <<>> /\ Head(todo).do # "create"
          \/ pc = "removeNodes"
      BY <1>3 DEF ScaleUp, RemoveNodes, Doing
    <3>2. listed[np.id] \in Pool
      BY <1>1, <3>1, AtTask
    <3> QED BY <1>1, <3>1, <3>2, AtTask DEF Pool
  <2>2. todo[1].do = "update"
    BY <1>1, <1>3, <2>1 DEF ScaleUp, RemoveNodes, Doing, InOrder, Does
  <2>3. /\ pools[np.id].target = listed[np.id].nodes
        /\ \E i \in DOMAIN list : list[i].id = np.id /\ list[i].count = np.count
    BY <1>1, <2>1, <2>2 DEF BatchInv, ScalesOnce, Does
  <2>4. CASE ScaleUp
    <3>1. ScaleUpNodePool(np.id, Shortfall) /\ Shortfall > 0
      BY <1>2, <2>4 DEF ScaleUp, Ask
    <3>2. /\ Alters(np.id, "target")
          /\ pools'[np.id].target = pools[np.id].target + np.count - listed[np.id].nodes
      BY <1>1, <2>1, <2>2, <3>1, ScaleUpStays
    <3> QED BY <2>1, <2>3, <3>2 DEF Alters
  <2>5. CASE RemoveNodes
    <3>1. ScaleDownNodePool(np.id, Surplus) /\ Surplus \in Int
      <4>1. Surplus \in Int
        BY <2>1 DEF Surplus
      <4> QED BY <1>2, <2>5, <4>1 DEF RemoveNodes, Ask
    <3>2. /\ Alters(np.id, "target")
          /\ pools'[np.id].target = IF pools[np.id].target < Surplus THEN 0
                                    ELSE pools[np.id].target - Surplus
      BY <1>1, <2>1, <3>1, ScaleDownStays
    <3>3. pools'[np.id].target = np.count
      BY <2>1, <2>3, <3>2 DEF Surplus
    <3> QED BY <2>1, <2>3, <3>2, <3>3 DEF Alters
  <2> QED BY <1>3, <2>4, <2>5
<1>4. CASE CreatePool
  <2>1. CreateNodePool(np) /\ np \in Entry
    BY <1>1, <1>2, <1>4, TodoTypes DEF CreatePool, Doing
  <2> QED BY <1>1, <2>1, Created
<1>5. CASE RenamePool
  <2>1. UpdateNodePool(np) /\ np \in Entry
    BY <1>1, <1>2, <1>5, TodoTypes DEF RenamePool, Doing
  <2> QED BY <1>1, <2>1, RelabelledNames
<1>6. CASE CloudStep
  BY <1>1, <1>6, CloudAlters DEF Alters
<1>7. CASE OutsideStep
  BY <1>1, <1>7 DEF OutsideStep, TypeOK, Plain
<1>8. CASE Drain \/ DeletePool
  BY <1>8 DEF Drain, DeletePool
<1>9. CASE Begin \/ Fence \/ List \/ QueryNodes \/ QueryExtra \/ Finish \/ Crash \/ UserEdit \/ UNCHANGED vars
  BY <1>2, <1>9
  DEF Begin, Fence, List, QueryNodes, QueryExtra, Finish, Crash, UserEdit, vars
<1> QED
  BY <1>3, <1>4, <1>5, <1>6, <1>7, <1>8, <1>9 DEF Next, Round

\* ScaleUpNodePool and ScaleDownNodePool, nodepool.go: in a plain world scaling
\* a pool of the list leads to the size its entry asks for, whatever failed.
THEOREM ScalesHold == Spec => ScalesExactly
<1>1. BatchInv /\ [Next]_vars =>
        [Plain' /\ pc \in {"work", "removeNodes"} =>
           \A p \in DOMAIN pools : pools'[p].target # pools[p].target =>
             \E i \in DOMAIN list : list[i].id = p /\ list[i].count = pools'[p].target]_vars
  BY TargetsMove
<1> QED
  BY <1>1, BatchHolds, PTL DEF Spec, ScalesExactly
=============================================================================
