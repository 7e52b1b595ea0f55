----------------------------- MODULE DcllProofs -----------------------------
(***************************************************************************)
(* The two lists of list mode, for any number of nodes, names and threads: *)
(* what inserting a node and taking one out do to a ring, and what the     *)
(* functions of np_dcll.c and of app_dcll.c do to their list.              *)
(***************************************************************************)
EXTENDS NpDcll, AppDcll, TLAPS

-----------------------------------------------------------------------------
(* Sequences. *)

\* Leaving out one place makes a sequence that is shorter by one.
LEMMA OmittingSeq ==
    ASSUME NEW S, NEW s \in Seq(S), NEW k \in 1..Len(s)
    PROVE  /\ Omitting(s, k) \in Seq(S)
           /\ Len(Omitting(s, k)) = Len(s) - 1
           /\ \A i \in 1..Len(s) - 1 : Omitting(s, k)[i] = IF i < k THEN s[i] ELSE s[i + 1]
<1>1. Len(s) - 1 \in Nat
  OBVIOUS
<1>2. \A i \in 1..Len(s) - 1 : (IF i < k THEN s[i] ELSE s[i + 1]) \in S
  OBVIOUS
<1> QED
  BY <1>1, <1>2 DEF Omitting

\* It makes nothing come twice.
LEMMA OmittingDistinct ==
    ASSUME NEW S, NEW s \in Seq(S), NEW k \in 1..Len(s), Distinct(s)
    PROVE  Distinct(Omitting(s, k))
<1> DEFINE o == Omitting(s, k)
<1> SUFFICES ASSUME NEW i \in 1..Len(o), NEW j \in 1..Len(o), o[i] = o[j]
             PROVE  i = j
  BY DEF Distinct
<1>1. Len(o) = Len(s) - 1 /\ \A m \in 1..Len(s) - 1 : o[m] = IF m < k THEN s[m] ELSE s[m + 1]
  BY OmittingSeq
<1> HIDE DEF o
<1>2. i \in 1..Len(s) /\ i + 1 \in 1..Len(s) /\ j \in 1..Len(s) /\ j + 1 \in 1..Len(s)
  BY <1>1
<1> QED
  BY <1>1, <1>2 DEF Distinct

\* Neither does appending what was not there.
LEMMA AppendDistinct ==
    ASSUME NEW S, NEW s \in Seq(S), NEW x \in S, Distinct(s), x \notin Members(s)
    PROVE  Distinct(Append(s, x))
BY DEF Distinct, Members

\* What Minus leaves out is one place where x is.
LEMMA MinusOmits ==
    ASSUME NEW S, NEW s \in Seq(S), NEW x \in Members(s)
    PROVE  \E k \in 1..Len(s) : s[k] = x /\ Minus(s, x) = Omitting(s, k)
BY DEF Minus, Members

-----------------------------------------------------------------------------
(* Rings. *)

\* Inserting a node that is not in the ring appends it to the order of the ring.
LEMMA InsertedRing ==
    ASSUME NEW l \in Lists, NEW s \in Seq(Nodes), NEW new \in Nodes \ Members(s),
           Ring(l, s), Distinct(s)
    PROVE  Ring(Inserted(l, new), Append(s, new))
<1> DEFINE r == Inserted(l, new)
           a == Append(s, new)
<1>1. Len(a) = Len(s) + 1 /\ a[Len(s) + 1] = new /\ \A i \in 1..Len(s) : a[i] = s[i]
  OBVIOUS
<1>2. CASE s = <<>>
  <2>1. l.count = 0 /\ Len(s) = 0
    BY <1>2 DEF Ring
  <2>2. r = [head |-> new, count |-> 1, next |-> [l.next EXCEPT ![new] = new],
             prev |-> [l.prev EXCEPT ![new] = new]]
    BY <2>1 DEF Inserted
  <2>3. r.next[new] = new /\ r.prev[new] = new
    BY <2>2 DEF Lists
  <2>4. r.count = 1 /\ r.head = new
    BY <2>2
  <2>5. Len(a) = 1 /\ a # <<>> /\ a[1] = new
    <3>1. Len(a) = 1 /\ a[1] = new
      BY <1>1, <2>1
    <3>2. Len(a) # Len(<<>>)
      BY <3>1
    <3> QED
      BY <3>1, <3>2
  <2> HIDE DEF r, a
  <2>6. \A i \in 1..Len(a) : i = 1 /\ After(a, i) = 1 /\ Before(a, i) = 1
    BY <2>5 DEF After, Before
  <2>7. Ring(r, a)
    BY <2>3, <2>4, <2>5, <2>6 DEF Ring
  <2> QED
    BY <2>7 DEF r, a
<1>3. CASE s # <<>>
  <2> DEFINE n == Len(s)
             last == s[n]
  <2>1. n \in Nat \ {0} /\ 1 \in 1..n /\ n \in 1..n
    BY <1>3
  <2>2. l.count = n /\ l.head = s[1] /\ l.prev[s[1]] = last
    BY <1>3, <2>1 DEF Ring, Before
  <2>3. r = [head |-> s[1], count |-> n + 1,
             next |-> [l.next EXCEPT ![last] = new, ![new] = s[1]],
             prev |-> [l.prev EXCEPT ![new] = last, ![s[1]] = new]]
    BY <2>1, <2>2 DEF Inserted
  <2>4. \A i \in 1..n : s[i] \in Nodes /\ s[i] # new
    BY DEF Members
  <2>5. /\ r.next[new] = s[1] /\ r.prev[new] = last
        /\ r.next[last] = new /\ r.prev[s[1]] = new
    BY <2>1, <2>3, <2>4 DEF Lists
  <2>6. \A i \in 1..n : i # n => r.next[s[i]] = s[i + 1]
    BY <2>1, <2>3, <2>4 DEF Lists, Ring, Distinct, After
  <2>7. \A i \in 1..n : i # 1 => r.prev[s[i]] = s[i - 1]
    BY <2>1, <2>3, <2>4 DEF Lists, Ring, Distinct, Before
  <2>8. ASSUME NEW i \in 1..n + 1
        PROVE  r.next[a[i]] = a[After(a, i)] /\ r.prev[a[i]] = a[Before(a, i)]
    <3> HIDE DEF r, a
    <3>1. CASE i = n + 1
      BY <3>1, <1>1, <2>1, <2>5 DEF After, Before
    <3>2. CASE i # n + 1
      <4>1. i \in 1..n /\ a[i] = s[i] /\ After(a, i) = i + 1
        BY <3>2, <1>1, <2>1 DEF After
      <4>2. r.next[a[i]] = a[i + 1]
        BY <4>1, <1>1, <2>1, <2>5, <2>6
      <4>3. r.prev[a[i]] = a[Before(a, i)]
        BY <4>1, <1>1, <2>1, <2>5, <2>7 DEF Before
      <4> QED
        BY <4>1, <4>2, <4>3
    <3> QED
      BY <3>1, <3>2
  <2>9. r.count = Len(a) /\ a # <<>> /\ r.head = a[1]
    BY <1>1, <2>1, <2>3
  <2> QED
    BY <1>1, <2>8, <2>9 DEF Ring
<1> QED
  BY <1>2, <1>3

\* Taking out the node at place k leaves the ring of the others.
LEMMA UnlinkedRing ==
    ASSUME NEW l \in Lists, NEW s \in Seq(Nodes), NEW k \in 1..Len(s),
           NEW count \in Int, (s[k] = l.head /\ Len(s) > 1 => count > 1),
           (Len(s) = 1 => count = 1),
           Ring(l, s), Distinct(s)
    PROVE  Ring(Unlinked(l, s[k], count), Omitting(s, k))
<1> DEFINE r == Unlinked(l, s[k], count)
           o == Omitting(s, k)
           n == Len(s)
<1>1. /\ o \in Seq(Nodes) /\ Len(o) = n - 1
      /\ \A i \in 1..n - 1 : o[i] = IF i < k THEN s[i] ELSE s[i + 1]
  BY OmittingSeq
<1>2. n \in Nat /\ n >= 1 /\ 1 \in 1..n
  OBVIOUS
<1>3. l.count = n /\ l.head = s[1] /\ (s[k] = l.head <=> k = 1)
  <2>1. s # <<>>
    BY <1>2
  <2> QED
    BY <1>2, <2>1 DEF Ring, Distinct
<1>4. CASE n = 1
  <2>1. k = 1 /\ s[k] = l.head /\ count = 1
    BY <1>3, <1>4
  <2>2. r.head = NULL /\ r.count = 0
    BY <1>3, <1>4, <2>1 DEF Unlinked
  <2> HIDE DEF r, o
  <2>3. o = <<>> /\ Len(o) = 0 /\ 1..Len(o) = {}
    BY <1>1, <1>4
  <2>4. Ring(r, o)
    BY <2>2, <2>3 DEF Ring
  <2> QED
    BY <2>4 DEF r, o
<1>5. CASE n > 1
  <2> DEFINE p == Before(s, k)
             q == After(s, k)
  <2>1. p \in 1..n /\ q \in 1..n /\ p # k /\ q # k
    BY <1>2, <1>5 DEF Before, After
  <2>2. l.next[s[k]] = s[q] /\ l.prev[s[k]] = s[p]
    BY DEF Ring
  <2>3. r = [head |-> IF k = 1 THEN s[q] ELSE s[1], count |-> n - 1,
             next |-> [l.next EXCEPT ![s[p]] = s[q]],
             prev |-> [l.prev EXCEPT ![s[q]] = s[p]]]
    <3>1. ~(s[k] = l.head /\ count = 1) /\ (s[k] = l.head /\ count > 1 <=> k = 1)
      BY <1>3, <1>5
    <3> QED
      BY <1>3, <2>2, <3>1 DEF Unlinked
  <2>4. \A i \in 1..n : s[i] \in Nodes
    OBVIOUS
  <2>5. /\ r.next[s[p]] = s[q]
        /\ \A i \in 1..n : i # p => r.next[s[i]] = s[After(s, i)]
    BY <2>1, <2>3, <2>4 DEF Lists, Ring, Distinct
  <2>6. /\ r.prev[s[q]] = s[p]
        /\ \A i \in 1..n : i # q => r.prev[s[i]] = s[Before(s, i)]
    BY <2>1, <2>3, <2>4 DEF Lists, Ring, Distinct
  <2>7. r.count = Len(o) /\ o # <<>> /\ r.head = o[1]
    BY <1>1, <1>5, <2>3 DEF After
  <2> HIDE DEF r, o
  <2>8. ASSUME NEW i \in 1..n - 1
        PROVE  r.next[o[i]] = o[After(o, i)] /\ r.prev[o[i]] = o[Before(o, i)]
    <3> DEFINE m == IF i < k THEN i ELSE i + 1   \* where o[i] is in s
    <3>1. m \in 1..n /\ m # k /\ o[i] = s[m]
      BY <1>1
    <3>2. r.next[s[m]] = o[After(o, i)]
      <4>1. CASE m = p
        <5>1. o[After(o, i)] = s[q]
          <6>1. CASE k = 1
            BY <6>1, <4>1, <3>1, <1>1, <1>5 DEF After, Before
          <6>2. CASE k # 1
            BY <6>2, <4>1, <3>1, <1>1, <1>5 DEF After, Before
          <6> QED
            BY <6>1, <6>2
        <5> QED
          BY <5>1, <4>1, <2>5
      <4>2. CASE m # p
        <5>1. o[After(o, i)] = s[After(s, m)]
          <6>1. CASE i = n - 1
            BY <6>1, <4>2, <3>1, <1>1, <1>2, <1>5 DEF After, Before
          <6>2. CASE i # n - 1
            BY <6>2, <4>2, <3>1, <1>1, <1>2, <1>5 DEF After, Before
          <6> QED
            BY <6>1, <6>2
        <5> QED
          BY <5>1, <4>2, <3>1, <2>5
      <4> QED
        BY <4>1, <4>2
    <3>3. r.prev[s[m]] = o[Before(o, i)]
      <4>1. CASE m = q
        BY <4>1, <3>1, <1>1, <1>5, <2>6 DEF After, Before
      <4>2. CASE m # q /\ i = 1
        <5>1. m = 1 /\ k > 1 /\ k < n
          BY <4>2, <1>2, <1>5 DEF After
        <5>2. Before(o, i) = n - 1 /\ o[n - 1] = s[n] /\ Before(s, m) = n
          BY <4>2, <5>1, <1>1, <1>5 DEF Before
        <5> QED
          BY <4>2, <5>2, <3>1, <2>6
      <4>3. CASE m # q /\ i # 1
        <5>1. /\ Before(o, i) = i - 1 /\ i - 1 \in 1..n - 1
              /\ o[i - 1] = IF i - 1 < k THEN s[i - 1] ELSE s[i]
          BY <4>3, <1>1, <1>5 DEF Before
        <5>2. s[Before(s, m)] = o[i - 1]
          BY <4>3, <5>1, <3>1, <1>5 DEF Before, After
        <5> QED
          BY <4>3, <5>1, <5>2, <3>1, <2>6
      <4> QED
        BY <4>1, <4>2, <4>3
    <3> QED
      BY <3>1, <3>2, <3>3
  <2>9. 1..Len(o) = 1..n - 1
    BY <1>1
  <2>10. Ring(r, o)
    BY <2>7, <2>8, <2>9 DEF Ring
  <2> QED
    BY <2>10 DEF r, o
<1>6. n = 1 \/ n > 1
  <2>1. \A i \in Nat : i >= 1 => i = 1 \/ i > 1
    OBVIOUS
  <2> QED
    BY <1>2, <2>1, Zenon
<1> QED
  BY <1>4, <1>5, <1>6

-----------------------------------------------------------------------------
(* Both operations keep the type of a list. *)

LEMMA InsertedType ==
    ASSUME NEW l \in Lists, NEW new \in Nodes, NEW s \in Seq(Nodes), Ring(l, s)
    PROVE  Inserted(l, new) \in Lists
<1>1. l.count = 0 \/ l.prev[l.head] \in Nodes
  BY DEF Ring, Before
<1>2. CASE l.count = 0
  BY <1>2 DEF Inserted, Lists
<1>3. CASE l.count # 0
  BY <1>3 DEF Inserted, Lists, Ring
<1> QED
  BY <1>2, <1>3

LEMMA UnlinkedType ==
    ASSUME NEW l \in Lists, NEW s \in Seq(Nodes), NEW n \in Members(s), NEW count \in Int,
           Ring(l, s)
    PROVE  Unlinked(l, n, count) \in Lists
<1>1. n \in Nodes /\ l.next[n] \in Nodes /\ l.prev[n] \in Nodes
  BY DEF Ring, Members, After, Before
<1> QED
  BY <1>1 DEF Unlinked, Lists

\* What a search finds is a node, or nothing.
LEMMA FoundType ==
    ASSUME NEW l, NEW names, NEW name, NEW n \in Found(l, names, name)
    PROVE  n \in Nodes \cup {NULL}
<1>1. PICK w \in Walks(l) :
         n = NULL \/ \E i \in 1..l.count : n = w[i]
  BY DEF Found
<1>2. w \in [1..l.count -> Nodes]
  BY DEF Walks
<1> QED
  BY <1>1, <1>2

-----------------------------------------------------------------------------
(* The list of NPs stays a ring however its functions interleave, and      *)
(* del_np breaks it exactly when it miscounts.                             *)

NpInv == NpTypeOK /\ InOrder

LEMMA NpInvInit == NpInit => NpInv
BY DEF NpInit, NpInv, NpTypeOK, InOrder, EmptyList, Lists, Ring, Distinct

\* The list without what a thread has found is a ring again.
LEMMA WithoutRing ==
    ASSUME NpInv, NEW t \in Threads, nj = "alive", ~Stale(t)
    PROVE  /\ ListWithout(t) \in Lists
           /\ OrderWithout(t) \in Seq(Nodes)
           /\ Ring(ListWithout(t), OrderWithout(t))
           /\ Distinct(OrderWithout(t))
<1>1. list \in Lists /\ order \in Seq(Nodes) /\ Ring(list, order) /\ Distinct(order)
  BY DEF NpInv, NpTypeOK, InOrder
<1>2. CASE temp[t] = NULL
  BY <1>1, <1>2 DEF ListWithout, OrderWithout
<1>3. CASE temp[t] # NULL
  <2>1. temp[t] \in Members(order)
    BY <1>3 DEF Stale
  <2>2. PICK k \in 1..Len(order) : order[k] = temp[t] /\ Minus(order, temp[t]) = Omitting(order, k)
    BY <1>1, <2>1, MinusOmits
  <2>3. list.count = Len(order) /\ list.count \in Int
    BY <1>1 DEF Ring
  <2>4. Ring(Unlinked(list, order[k], list.count), Omitting(order, k))
    BY <1>1, <2>3, UnlinkedRing
  <2>5. Omitting(order, k) \in Seq(Nodes) /\ Distinct(Omitting(order, k))
    BY <1>1, OmittingSeq, OmittingDistinct
  <2>6. Unlinked(list, temp[t], list.count) \in Lists
    BY <1>1, <2>1, <2>3, UnlinkedType
  <2> QED
    BY <1>3, <2>2, <2>4, <2>5, <2>6 DEF ListWithout, OrderWithout
<1> QED
  BY <1>2, <1>3

\* So it is with a node inserted.
LEMMA WithNewRing ==
    ASSUME NpInv, NEW t \in Threads, nj = "alive", ~Stale(t),
           NEW new \in Nodes \ Members(OrderWithout(t))
    PROVE  /\ Inserted(ListWithout(t), new) \in Lists
           /\ Append(OrderWithout(t), new) \in Seq(Nodes)
           /\ Ring(Inserted(ListWithout(t), new), Append(OrderWithout(t), new))
           /\ Distinct(Append(OrderWithout(t), new))
<1>1. /\ ListWithout(t) \in Lists /\ OrderWithout(t) \in Seq(Nodes)
      /\ Ring(ListWithout(t), OrderWithout(t)) /\ Distinct(OrderWithout(t))
  BY WithoutRing
<1>2. Inserted(ListWithout(t), new) \in Lists
  BY <1>1, InsertedType
<1>3. Ring(Inserted(ListWithout(t), new), Append(OrderWithout(t), new))
  BY <1>1, InsertedRing
<1>4. Distinct(Append(OrderWithout(t), new))
  BY <1>1, AppendDistinct
<1> QED
  BY <1>1, <1>2, <1>3, <1>4

\* del_np leaves a ring when it does not miscount.
LEMMA DelNpRing ==
    ASSUME NpInv, NEW t \in Threads, DelNp(t)
    PROVE  /\ list' \in Lists /\ order' \in Seq(Nodes) /\ Distinct(order')
           /\ nj' = "alive" => Ring(list', order')
<1>1. /\ list \in Lists /\ order \in Seq(Nodes) /\ Ring(list, order) /\ Distinct(order)
      /\ nj = "alive" /\ ~Stale(t) /\ order' = OrderWithout(t)
  BY DEF NpInv, NpTypeOK, InOrder, DelNp, In, At
<1>2. order' \in Seq(Nodes) /\ Distinct(order')
  BY <1>1, WithoutRing
<1>3. CASE temp[t] = NULL
  <2>1. nj' # "alive" /\ list' = [list EXCEPT !.count = @ - 1]
    BY <1>3 DEF DelNp, Miscounts
  <2>2. list' \in Lists
    BY <1>1, <2>1 DEF Lists
  <2> QED
    BY <1>2, <2>1, <2>2
<1>4. CASE temp[t] # NULL
  <2>1. temp[t] \in Members(order) /\ list' = Unlinked(list, temp[t], list.count - 1)
    BY <1>1, <1>4 DEF Stale, DelNp
  <2>2. PICK k \in 1..Len(order) : order[k] = temp[t] /\ Minus(order, temp[t]) = Omitting(order, k)
    BY <1>1, <2>1, MinusOmits
  <2>3. list.count = Len(order) /\ list.count - 1 \in Int
    BY <1>1 DEF Ring
  <2>4. list' \in Lists
    BY <1>1, <2>1, <2>3, UnlinkedType
  <2>5. ASSUME nj' = "alive" PROVE Ring(list', order')
    <3>1. ~(order[k] = list.head /\ list.count \in {1, 2})
      BY <2>2, <2>5 DEF DelNp, Miscounts
    <3>2. order[k] = list.head /\ Len(order) > 1 => list.count - 1 > 1
      <4>1. \A i \in Nat : i > 1 /\ i # 2 => i - 1 > 1
        OBVIOUS
      <4>2. Len(order) \in Nat
        BY <1>1
      <4>3. Len(order) = 2 => list.count \in {1, 2}
        BY <2>3
      <4> QED
        BY <2>3, <3>1, <4>1, <4>2, <4>3, Zenon
    <3>3. Len(order) # 1
      BY <1>1, <2>3, <3>1 DEF Ring
    <3>4. Ring(Unlinked(list, order[k], list.count - 1), Omitting(order, k))
      BY <1>1, <2>3, <3>2, <3>3, UnlinkedRing
    <3> QED
      BY <1>1, <1>4, <2>1, <2>2, <3>4 DEF OrderWithout
  <2> QED
    BY <1>2, <2>4, <2>5
<1> QED
  BY <1>3, <1>4

LEMMA NpInvNext == NpInv /\ [NpNext]_npVars => NpInv'
<1> SUFFICES ASSUME NpInv, [NpNext]_npVars PROVE NpInv'
  OBVIOUS
<1> USE DEF NpInv
<1>1. CASE UNCHANGED npVars
  BY <1>1 DEF npVars, NpTypeOK, InOrder, Lists
<1>2. ASSUME NEW t \in Threads, NpCall(t) PROVE NpInv'
  BY <1>2 DEF NpCall, At, Goto, NpTypeOK, InOrder, Lists
<1>3. ASSUME NEW t \in Threads, SearchNp(t) PROVE NpInv'
  <2>1. temp' \in [Threads -> Nodes \cup {NULL}]
    BY <1>3, FoundType DEF SearchNp, NpTypeOK
  <2> QED
    BY <1>3, <2>1 DEF SearchNp, At, Goto, NpTypeOK, InOrder, Lists
<1>4. ASSUME NEW t \in Threads, UseFreed(t) PROVE NpInv'
  BY <1>4 DEF UseFreed, NpTypeOK, InOrder, Lists
<1>5. ASSUME NEW t \in Threads, AddNp(t) PROVE NpInv'
  <2>1. nj = "alive" /\ ~Stale(t)
    BY <1>5 DEF AddNp, In, At
  <2>2. list' \in Lists /\ order' \in Seq(Nodes) /\ Ring(list', order') /\ Distinct(order')
    BY <1>5, <2>1, WithoutRing, WithNewRing DEF AddNp
  <2>3. data' \in [Nodes -> NpNames] /\ app_count' \in [Nodes -> Int]
    <3>1. CASE UNCHANGED <<data, app_count>>
      BY <3>1 DEF NpTypeOK
    <3>2. ASSUME NEW new \in Nodes, data' = [data EXCEPT ![new] = call[t].val],
                 app_count' = [app_count EXCEPT ![new] = 0]
          PROVE  data' \in [Nodes -> NpNames] /\ app_count' \in [Nodes -> Int]
      BY <3>2 DEF NpTypeOK
    <3> QED
      BY <1>5, <3>1, <3>2 DEF AddNp
  <2> QED
    BY <1>5, <2>2, <2>3 DEF AddNp, Goto, NpTypeOK, InOrder
<1>6. ASSUME NEW t \in Threads, DelNpNode(t) PROVE NpInv'
  <2>1. nj = "alive" /\ ~Stale(t)
    BY <1>6 DEF DelNpNode, In, At
  <2>2. list' \in Lists /\ order' \in Seq(Nodes) /\ Ring(list', order') /\ Distinct(order')
    BY <1>6, <2>1, WithoutRing DEF DelNpNode
  <2> QED
    BY <1>6, <2>2 DEF DelNpNode, Goto, NpTypeOK, InOrder
<1>7. ASSUME NEW t \in Threads, DelNp(t) PROVE NpInv'
  <2>1. /\ list' \in Lists /\ order' \in Seq(Nodes) /\ Distinct(order')
        /\ nj' = "alive" => Ring(list', order')
    BY <1>7, DelNpRing
  <2> QED
    BY <1>7, <2>1 DEF DelNp, In, At, Goto, NpTypeOK, InOrder
<1>8. ASSUME NEW t \in Threads, GetNpAppCnt(t) PROVE NpInv'
  BY <1>8 DEF GetNpAppCnt, Goto, NpTypeOK, InOrder, Lists
<1>9. ASSUME NEW t \in Threads, NEW fn, NEW change \in Int, CountApp(t, fn, change)
      PROVE  NpInv'
  <2>1. app_count' \in [Nodes -> Int]
    BY <1>9 DEF CountApp, NpTypeOK
  <2> QED
    BY <1>9, <2>1 DEF CountApp, Goto, NpTypeOK, InOrder, Lists
<1> QED
  BY <1>1, <1>2, <1>3, <1>4, <1>5, <1>6, <1>7, <1>8, <1>9 DEF NpNext

\* The list of NPs keeps its order and its links, for any number of threads that call
\* the functions of np_dcll.c, nodes and names, until freed memory is used or del_np
\* miscounts.
THEOREM NpInOrder == NpSpec => [](NpTypeOK /\ InOrder)
BY NpInvInit, NpInvNext, PTL DEF NpSpec, NpInv

\* When del_np has counted down for an NP that is not there, or takes out the first
\* of one or two, what it leaves is no ring of the NPs that remain.
THEOREM DelNpBreaks ==
    ASSUME NULL \notin Nodes, NpInv, NEW t \in Threads, DelNp(t)
    PROVE  Ring(list', order') <=> ~Miscounts(temp[t])
<1>1. /\ list \in Lists /\ order \in Seq(Nodes) /\ Ring(list, order) /\ Distinct(order)
      /\ nj = "alive" /\ ~Stale(t) /\ order' = OrderWithout(t)
  BY DEF NpInv, NpTypeOK, InOrder, DelNp, In, At
<1>2. CASE ~Miscounts(temp[t])
  <2>1. nj' = "alive"
    BY <1>1, <1>2 DEF DelNp
  <2> QED
    BY <1>2, <2>1, DelNpRing
<1>3. CASE temp[t] = NULL
  <2>1. list'.count = list.count - 1 /\ order' = order
    BY <1>1, <1>3 DEF DelNp, OrderWithout, Lists
  <2>2. list.count = Len(order) /\ Len(order) \in Nat
    BY <1>1 DEF Ring
  <2>3. list'.count # Len(order')
    BY <2>1, <2>2
  <2> QED
    BY <1>3, <2>3 DEF Ring, Miscounts
<1>4. CASE temp[t] # NULL /\ temp[t] = list.head /\ list.count \in {1, 2}
  <2>1. temp[t] \in Members(order) /\ list' = Unlinked(list, temp[t], list.count - 1)
    BY <1>1, <1>4 DEF Stale, DelNp
  <2>2. PICK k \in 1..Len(order) : order[k] = temp[t] /\ Minus(order, temp[t]) = Omitting(order, k)
    BY <1>1, <2>1, MinusOmits
  <2>3. order' = Omitting(order, k) /\ order' \in Seq(Nodes) /\ Len(order') = Len(order) - 1
    BY <1>1, <1>4, <2>2, OmittingSeq DEF OrderWithout
  <2>4. list.count = Len(order)
    BY <1>1 DEF Ring
  <2>5. CASE list.count = 1
    <3>1. list'.head = temp[t] /\ list.head \in Nodes
      BY <1>1, <1>4, <2>1, <2>5 DEF Unlinked, Lists
    <3>2. order' = <<>>
      BY <2>3, <2>4, <2>5
    <3> QED
      BY <1>4, <3>1, <3>2 DEF Ring, Miscounts
  <2>6. CASE list.count = 2
    <3>1. list'.head = NULL
      BY <1>4, <2>1, <2>6 DEF Unlinked
    <3>2. order' # <<>> /\ order'[1] \in Nodes
      <4>1. Len(order') = 1
        BY <2>3, <2>4, <2>6
      <4> QED
        BY <2>3, <4>1
    <3> QED
      BY <1>4, <3>1, <3>2 DEF Ring, Miscounts
  <2> QED
    BY <1>4, <2>5, <2>6
<1> QED
  BY <1>2, <1>3, <1>4 DEF Miscounts

-----------------------------------------------------------------------------
(* The list of APPs stays a ring, no APP is registered twice with one NP,  *)
(* and the counters are off by one at most.                                *)

\* Who is to take something out has found a node.
HasFound == \A t \in Threads : pc[t] = "found" /\ call[t].fn = "del_app_ref" => temp[t] # NULL

AppInv == AppTypeOK /\ InOrder /\ HasFound /\ RegisteredOnce /\ CountOff

LEMMA AppInvInit == AppInit => AppInv
BY DEF AppInit, AppInv, AppTypeOK, InOrder, HasFound, RegisteredOnce, CountOff,
       EmptyList, Lists, Ring, Distinct, Members

-----------------------------------------------------------------------------
\* An action that changes neither list nor registrations keeps what is said of them.
LEMMA SameLists ==
    ASSUME AppInv, UNCHANGED <<list, order, np_list, np_count, joined>>
    PROVE  /\ nj' = nj => InOrder'
           /\ RegisteredOnce' /\ CountOff'
BY DEF AppInv, InOrder, RegisteredOnce, CountOff

LEMMA SearchStep ==
    ASSUME AppInv, NEW t \in Threads, SearchApp(t)
    PROVE  AppInv'
<1> USE DEF SearchApp, At, Goto
<1>1. PICK n \in Found(list, data, call[t].app_name) :
         /\ temp' = [temp EXCEPT ![t] = n]
         /\ Goto(t, IF n = NULL /\ call[t].fn = "del_app_ref" THEN "idle" ELSE "found")
  OBVIOUS
<1>2. n \in Nodes \cup {NULL}
  BY FoundType
<1>3. AppTypeOK'
  BY <1>1, <1>2 DEF AppInv, AppTypeOK
<1>4. HasFound'
  BY <1>1 DEF AppInv, AppTypeOK, HasFound
<1> QED
  BY <1>3, <1>4, SameLists DEF AppInv

LEMMA AddAppStep ==
    ASSUME AppInv, NEW t \in Threads, AddApp(t)
    PROVE  AppInv'
<1>1. /\ list \in Lists /\ order \in Seq(Nodes) /\ Ring(list, order) /\ Distinct(order)
      /\ np_list \in [Nodes -> Seq(NpNames)] /\ np_count \in [Nodes -> Int]
      /\ Np(t) \in NpNames \cup {NoNp}
  BY DEF AppInv, AppTypeOK, InOrder, AddApp, In, At, Np, Calls
<1>2. HasFound'
  BY DEF AppInv, AppTypeOK, HasFound, AddApp, Goto
<1>3. CASE UNCHANGED <<list, order, data, np_list, np_count, joined>>
  <2>1. AppTypeOK'
    BY <1>3 DEF AppInv, AppTypeOK, AddApp, Goto
  <2> QED
    BY <1>2, <1>3, <2>1, SameLists DEF AppInv, AddApp
<1>4. CASE \E new \in Nodes \ Members(order) :
             /\ list' = Inserted(list, new)
             /\ order' = Append(order, new)
             /\ data' = [data EXCEPT ![new] = call[t].app_name]
             /\ np_list' = [np_list EXCEPT ![new] = IF Np(t) = NoNp THEN <<>> ELSE <<Np(t)>>]
             /\ np_count' = [np_count EXCEPT ![new] = 0]
             /\ joined' = IF Np(t) = NoNp THEN joined \ {new} ELSE joined \cup {new}
  <2>1. PICK new \in Nodes \ Members(order) :
             /\ list' = Inserted(list, new)
             /\ order' = Append(order, new)
             /\ data' = [data EXCEPT ![new] = call[t].app_name]
             /\ np_list' = [np_list EXCEPT ![new] = IF Np(t) = NoNp THEN <<>> ELSE <<Np(t)>>]
             /\ np_count' = [np_count EXCEPT ![new] = 0]
             /\ joined' = IF Np(t) = NoNp THEN joined \ {new} ELSE joined \cup {new}
    BY <1>4
  <2>2. list' \in Lists /\ Ring(list', order') /\ Distinct(order')
    BY <1>1, <2>1, InsertedType, InsertedRing, AppendDistinct
  <2> DEFINE refs == IF Np(t) = NoNp THEN <<>> ELSE <<Np(t)>>
  <2>3. refs \in Seq(NpNames) /\ Distinct(refs) /\ Len(refs) = IF Np(t) = NoNp THEN 0 ELSE 1
    <3>1. CASE Np(t) = NoNp
      BY <3>1 DEF Distinct
    <3>2. CASE Np(t) # NoNp
      BY <1>1, <3>2 DEF Distinct
    <3> QED
      BY <3>1, <3>2
  <2> HIDE DEF refs
  <2>4. np_list' = [np_list EXCEPT ![new] = refs]
    BY <2>1 DEF refs
  <2>5. AppTypeOK'
    <3>1. order' \in Seq(Nodes)
      BY <1>1, <2>1
    <3>2. np_list' \in [Nodes -> Seq(NpNames)]
      BY <1>1, <2>3, <2>4
    <3>3. data' \in [Nodes -> AppNames]
      BY <2>1 DEF AppInv, AppTypeOK, Calls
    <3> QED
      BY <2>1, <2>2, <3>1, <3>2, <3>3 DEF AppInv, AppTypeOK, AddApp, Goto
  <2>6. \A n \in Members(order') : n = new \/ (n \in Members(order) /\ n \in Nodes /\ n # new)
    BY <1>1, <2>1 DEF Members
  <2>7. RegisteredOnce'
    BY <1>1, <2>3, <2>4, <2>6 DEF AppInv, RegisteredOnce
  <2>8. CountOff'
    <3>1. ASSUME NEW n \in Members(order')
          PROVE  np_count'[n] = Len(np_list'[n]) - (IF n \in joined' THEN 1 ELSE 0)
      <4>1. CASE n = new
        BY <1>1, <2>1, <2>3, <2>4, <4>1
      <4>2. CASE n # new
        BY <1>1, <2>1, <2>4, <2>6, <4>2 DEF AppInv, CountOff
      <4> QED
        BY <4>1, <4>2
    <3> QED
      BY <3>1 DEF CountOff
  <2> QED
    BY <1>2, <2>2, <2>5, <2>7, <2>8 DEF AppInv, InOrder
<1> QED
  BY <1>3, <1>4 DEF AddApp

\* The registrations of one node become refs; they remain distinct, and the counter
\* changes by as much as their number.
Changed(n, refs, change) ==
    /\ UNCHANGED <<list, order, joined>>
    /\ np_list' = [np_list EXCEPT ![n] = refs]
    /\ np_count' = [np_count EXCEPT ![n] = @ + change]
    /\ Distinct(np_list[n]) => Distinct(refs)
    /\ Len(refs) = Len(np_list[n]) + change

\* Such a change keeps what is said of the registrations and the counters.
LEMMA ChangeRefs ==
    ASSUME AppInv, NEW n \in Nodes, NEW refs \in Seq(NpNames), NEW change \in Int,
           Changed(n, refs, change)
    PROVE  /\ np_list' \in [Nodes -> Seq(NpNames)] /\ np_count' \in [Nodes -> Int]
           /\ RegisteredOnce' /\ CountOff'
<1>1. /\ np_list \in [Nodes -> Seq(NpNames)] /\ np_count \in [Nodes -> Int]
      /\ order \in Seq(Nodes)
  BY DEF AppInv, AppTypeOK
<1>2. np_list' \in [Nodes -> Seq(NpNames)] /\ np_count' \in [Nodes -> Int]
  BY <1>1 DEF Changed
<1>3. order' = order /\ joined' = joined
  BY DEF Changed
<1>4. \A m \in Members(order) : m \in Nodes
  BY <1>1 DEF Members
<1>5. ASSUME NEW m \in Members(order)
      PROVE  /\ Distinct(np_list'[m])
             /\ np_count'[m] = Len(np_list'[m]) - (IF m \in joined THEN 1 ELSE 0)
  <2> DEFINE off == IF m \in joined THEN 1 ELSE 0
  <2>1. /\ m \in Nodes /\ Distinct(np_list[m])
        /\ np_count[m] = Len(np_list[m]) - off
        /\ off \in Int /\ Len(np_list[m]) \in Int
    <3>1. m \in Nodes /\ Distinct(np_list[m])
      BY <1>4 DEF AppInv, RegisteredOnce
    <3>2. np_count[m] = Len(np_list[m]) - off
      BY DEF AppInv, CountOff
    <3>3. off \in Int /\ Len(np_list[m]) \in Int
      BY <1>1, <3>1
    <3> QED
      BY <3>1, <3>2, <3>3, Zenon
  <2> HIDE DEF off
  <2>2. CASE m = n
    <3>1. /\ np_list'[m] = refs /\ Len(refs) = Len(np_list[m]) + change
          /\ np_count'[m] = np_count[m] + change
      BY <1>1, <2>2 DEF Changed
    <3>2. np_count'[m] = Len(np_list'[m]) - off
      BY <2>1, <3>1
    <3> QED
      BY <2>1, <2>2, <3>1, <3>2 DEF Changed, off
  <2>3. CASE m # n
    <3>1. np_list'[m] = np_list[m] /\ np_count'[m] = np_count[m]
      BY <1>1, <2>1, <2>3 DEF Changed
    <3> QED
      BY <2>1, <3>1 DEF off
  <2> QED
    BY <2>2, <2>3
<1>6. RegisteredOnce' /\ CountOff'
  BY <1>3, <1>5 DEF RegisteredOnce, CountOff
<1> QED
  BY <1>2, <1>6

LEMMA AddRefStep ==
    ASSUME AppInv, NEW t \in Threads, AddRef(t)
    PROVE  AppInv'
<1> DEFINE n == temp[t]
<1>1. n \in Members(order) /\ order \in Seq(Nodes) /\ Np(t) \in NpNames
  BY DEF AppInv, AppTypeOK, AddRef, Stale, Np, Calls
<1>2. n \in Nodes
  BY <1>1 DEF Members
<1>3. HasFound'
  BY DEF AppInv, AppTypeOK, HasFound, AddRef, Goto
<1>4. InOrder'
  BY DEF AppInv, InOrder, AddRef
<1>5. CASE UNCHANGED <<np_list, np_count>>
  <2>1. AppTypeOK'
    BY <1>5 DEF AppInv, AppTypeOK, AddRef, Goto
  <2> QED
    BY <1>3, <1>4, <1>5, <2>1, SameLists DEF AppInv, AddRef
<1>6. CASE /\ Np(t) \notin Members(np_list[n])
           /\ np_list' = [np_list EXCEPT ![n] = Append(@, Np(t))]
           /\ np_count' = [np_count EXCEPT ![n] = @ + 1]
  <2> DEFINE refs == Append(np_list[n], Np(t))
  <2>1. np_list[n] \in Seq(NpNames)
    BY <1>2 DEF AppInv, AppTypeOK
  <2>2. refs \in Seq(NpNames) /\ Len(refs) = Len(np_list[n]) + 1
    BY <1>1, <2>1
  <2>3. Distinct(np_list[n]) => Distinct(refs)
    BY <1>1, <1>6, <2>1, AppendDistinct
  <2>4. Changed(n, refs, 1)
    BY <1>6, <2>2, <2>3 DEF AddRef, Changed
  <2> HIDE DEF refs, n
  <2>5. /\ np_list' \in [Nodes -> Seq(NpNames)] /\ np_count' \in [Nodes -> Int]
        /\ RegisteredOnce' /\ CountOff'
    BY <1>2, <2>2, <2>4, ChangeRefs
  <2>6. AppTypeOK'
    BY <2>5 DEF AppInv, AppTypeOK, AddRef, Goto
  <2> QED
    BY <1>3, <1>4, <2>5, <2>6 DEF AppInv
<1> QED
  BY <1>5, <1>6 DEF AddRef

LEMMA DelAppStep ==
    ASSUME AppInv, NEW t \in Threads, DelApp(t)
    PROVE  AppInv'
<1>1. /\ list \in Lists /\ order \in Seq(Nodes) /\ Ring(list, order) /\ Distinct(order)
      /\ temp[t] \in Members(order)
  BY DEF AppInv, AppTypeOK, InOrder, HasFound, DelApp, In, At, Stale
<1>2. PICK k \in 1..Len(order) : order[k] = temp[t] /\ Minus(order, temp[t]) = Omitting(order, k)
  BY <1>1, MinusOmits
<1>3. list.count = Len(order) /\ list.count \in Int
  BY <1>1 DEF Ring
<1>4. list' \in Lists
  BY <1>1, <1>3, UnlinkedType DEF DelApp
<1>5. order' \in Seq(Nodes) /\ Distinct(order')
  BY <1>1, <1>2, OmittingSeq, OmittingDistinct DEF DelApp
<1>6. Ring(Unlinked(list, order[k], list.count), Omitting(order, k))
  BY <1>1, <1>3, UnlinkedRing
<1>7. Members(order') \subseteq Members(order)
  <2>1. \A i \in 1..Len(order) - 1 : i \in 1..Len(order) /\ i + 1 \in 1..Len(order)
    BY <1>1
  <2>2. /\ order' = Omitting(order, k) /\ Len(order') = Len(order) - 1
        /\ \A i \in 1..Len(order) - 1 : order'[i] = IF i < k THEN order[i] ELSE order[i + 1]
    BY <1>1, <1>2, OmittingSeq DEF DelApp
  <2>3. ASSUME NEW i \in 1..Len(order') PROVE order'[i] \in Members(order)
    BY <2>1, <2>2 DEF Members
  <2> QED
    BY <2>3 DEF Members
<1>8. HasFound'
  BY DEF AppInv, AppTypeOK, HasFound, DelApp, Goto
<1>9. AppTypeOK'
  BY <1>4, <1>5 DEF AppInv, AppTypeOK, DelApp, Goto
<1>10. RegisteredOnce' /\ CountOff'
  BY <1>7 DEF AppInv, RegisteredOnce, CountOff, DelApp
<1> QED
  BY <1>2, <1>5, <1>6, <1>8, <1>9, <1>10 DEF AppInv, InOrder, DelApp

LEMMA DelRefStep ==
    ASSUME AppInv, NEW t \in Threads, DelRef(t)
    PROVE  AppInv'
<1> DEFINE n == temp[t]
<1>1. order \in Seq(Nodes) /\ n # NULL
  BY DEF AppInv, AppTypeOK, HasFound, DelRef, In, At
<1>2. HasFound'
  BY DEF AppInv, AppTypeOK, HasFound, DelRef, Goto
<1>3. InOrder'
  BY DEF AppInv, InOrder, DelRef
<1>4. CASE UNCHANGED <<np_list, np_count>>
  <2>1. AppTypeOK'
    BY <1>4 DEF AppInv, AppTypeOK, DelRef, Goto
  <2> QED
    BY <1>2, <1>3, <1>4, <2>1, SameLists DEF AppInv, DelRef
<1>5. CASE ~Stale(t) /\ \E i \in Meant(t) :
                /\ np_list' = [np_list EXCEPT ![n] = Omitting(@, i)]
                /\ np_count' = [np_count EXCEPT ![n] = @ - 1]
  <2>1. PICK i \in Meant(t) : /\ np_list' = [np_list EXCEPT ![n] = Omitting(@, i)]
                              /\ np_count' = [np_count EXCEPT ![n] = @ - 1]
    BY <1>5
  <2>2. n \in Nodes
    BY <1>1, <1>5 DEF Stale, Members
  <2>3. np_list[n] \in Seq(NpNames) /\ i \in 1..Len(np_list[n])
    BY <2>2 DEF AppInv, AppTypeOK, Meant
  <2> DEFINE refs == Omitting(np_list[n], i)
  <2>4. /\ refs \in Seq(NpNames) /\ Len(refs) = Len(np_list[n]) + -1
        /\ Distinct(np_list[n]) => Distinct(refs)
    BY <2>3, OmittingSeq, OmittingDistinct
  <2>5. Changed(n, refs, -1)
    BY <2>1, <2>2, <2>4 DEF DelRef, AppInv, AppTypeOK, Changed
  <2> HIDE DEF refs, n
  <2>6. /\ np_list' \in [Nodes -> Seq(NpNames)] /\ np_count' \in [Nodes -> Int]
        /\ RegisteredOnce' /\ CountOff'
    <3>1. -1 \in Int
      OBVIOUS
    <3> QED
      BY <2>2, <2>4, <2>5, <3>1, ChangeRefs
  <2>7. AppTypeOK'
    BY <2>6 DEF AppInv, AppTypeOK, DelRef, Goto
  <2> QED
    BY <1>2, <1>3, <2>6, <2>7 DEF AppInv
<1> QED
  BY <1>4, <1>5 DEF DelRef

LEMMA AppInvNext == AppInv /\ [AppNext]_appVars => AppInv'
<1> SUFFICES ASSUME AppInv, [AppNext]_appVars PROVE AppInv'
  OBVIOUS
<1>1. CASE UNCHANGED appVars
  BY <1>1 DEF appVars, AppInv, AppTypeOK, InOrder, HasFound, RegisteredOnce, CountOff
<1>2. ASSUME NEW t \in Threads, AppCall(t) PROVE AppInv'
  <2>1. AppTypeOK' /\ HasFound'
    BY <1>2 DEF AppCall, At, Goto, AppInv, AppTypeOK, HasFound
  <2> QED
    BY <1>2, <2>1, SameLists DEF AppCall, AppInv
<1>3. ASSUME NEW t \in Threads, UseWild(t) PROVE AppInv'
  <2>1. AppTypeOK' /\ HasFound' /\ InOrder'
    BY <1>3 DEF UseWild, AppInv, AppTypeOK, HasFound, InOrder
  <2> QED
    BY <1>3, <2>1, SameLists DEF UseWild, AppInv
<1> QED
  BY <1>1, <1>2, <1>3, SearchStep, AddAppStep, AddRefStep, DelAppStep, DelRefStep DEF AppNext

\* The list of APPs keeps its order and its links, for any number of threads, nodes and
\* names, until a wild pointer is used.
THEOREM AppInOrder == AppSpec => [](AppTypeOK /\ InOrder)
BY AppInvInit, AppInvNext, PTL DEF AppSpec, AppInv

\* No node has two registrations with one NP, although every thread searches the APP
\* before it takes the lock to add one.
THEOREM AppRegisteredOnce == AppSpec => []RegisteredOnce
BY AppInvInit, AppInvNext, PTL DEF AppSpec, AppInv

\* The counter of an APP is off by one just when the APP was added by a registration.
THEOREM AppCountOff == AppSpec => []CountOff
BY AppInvInit, AppInvNext, PTL DEF AppSpec, AppInv
=============================================================================
