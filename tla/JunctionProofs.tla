---------------------------- MODULE JunctionProofs ----------------------------
(***************************************************************************)
(* The handler threads, interleaved: what holds of the two hashes for any  *)
(* set of APPs, NPs and handlers, and any number of requests.              *)
(***************************************************************************)
EXTENDS Junction, FiniteSetTheorems, SequenceTheorems, WellFoundedInduction, TLAPS

LOCAL INSTANCE FiniteSetsExt   \* Max

Places == [app_reg   |-> {"accept", "find", "app_wlock", "add", "count", "incr", "print"},
           app_unreg |-> {"accept", "find", "app_wlock", "del", "print"},
           np_reg    |-> {"accept", "np_wlock", "insert", "print"},
           np_unreg  |-> {"accept", "walk", "np_wlock", "erase", "print"}]

\* Each handler stays in its own function, and works on a request of its own kind.
Typed == /\ TypeOK
         /\ req \in [Handlers -> [app : Apps \cup {"none"}, np : Names]]
         /\ \A h \in Handlers : pc[h] \in Places[h] /\ (pc[h] # "accept" => req[h] \in Requests(h))
         /\ \A k \in DOMAIN node : IsFiniteSet(node[k].np_list)

\* A request counts once at most.
InHand == IF "app_reg" \in Handlers /\ pc["app_reg"] \notin {"accept", "print"} THEN 1 ELSE 0
CountsBounded == \A n \in NPs : app_count[n] + InHand <= sent

Lists(k, n) == n \in node[k].np_list

\* The nodes in the hash are linked in their order; a node that is not there any more
\* still points forward.
Follows(k) ==
    \/ node[k].next = Null /\ \A j \in live : j <= k
    \/ /\ node[k].next \in live /\ node[k].next > k
       /\ \A j \in live : j <= k \/ node[k].next <= j
InOrder ==
    /\ head = Null => live = {}
    /\ head # Null => head \in live /\ \A k \in live : head <= k
    /\ \A k \in live : Follows(k)
    /\ \A k \in live : k = head \/ \E j \in live : node[j].next = k
    /\ live # {} => \E k \in live : \A j \in live : j <= k
    /\ \A k \in DOMAIN node : \/ node[k].next = Null
                              \/ node[k].next > k /\ node[k].next \in DOMAIN node

\* Whoever is about to be registered with an NP has found it.
LookedUp == "app_reg" \in Handlers /\ pc["app_reg"] \in {"app_wlock", "add"} =>
               req["app_reg"].np \in np_hash \cup {NoNp} \cup overlapped

OverlapSeen == \A n \in NPs : WorksOn("app_reg", n) /\ WorksOn("np_unreg", n) => n \in overlapped

\* The walk will come to every APP that lists n: none is before the cursor, and no node
\* the walk can come to, in the hash or not, leads past one.
LeadsTo(R, n) ==
    /\ cursor \in R \cup {Null}
    /\ \A k \in R : node[k].next \in R \cup {Null}
    /\ \A i \in live : Lists(i, n) => cursor # Null /\ cursor <= i
    /\ \A k \in R, i \in live : Lists(i, n) /\ k < i => node[k].next # Null /\ node[k].next <= i

WalkSees ==
    "np_unreg" \in Handlers /\ req["np_unreg"].np \notin overlapped =>
       /\ pc["np_unreg"] = "walk" => \E R \in SUBSET DOMAIN node : LeadsTo(R, req["np_unreg"].np)
       /\ pc["np_unreg"] \in {"np_wlock", "erase"} =>
             \A i \in live : ~Lists(i, req["np_unreg"].np)

JInv == /\ Typed /\ CountsBounded /\ InOrder /\ LookedUp /\ OverlapSeen
        /\ WalkSees /\ NoDanglingUnlessOverlap /\ CountedUnlessOverlap

-----------------------------------------------------------------------------
(* The hash of APPs, however it changes. *)

\* The part of the invariant that is about the nodes alone.
Chain == /\ node \in Seq(Nodes) /\ live \subseteq DOMAIN node /\ head \in live \cup {Null}
         /\ \A k \in DOMAIN node : IsFiniteSet(node[k].np_list)
         /\ InOrder

LEMMA NodeFacts ==
  ASSUME Chain
  PROVE  /\ Len(node) \in Nat /\ DOMAIN node = 1..Len(node)
         /\ \A k \in DOMAIN node :
               /\ node[k] \in Nodes /\ k \in Nat /\ k # Null
               /\ node[k].data \in Apps /\ node[k].np_list \in SUBSET Names
               /\ node[k].np_count \in Int /\ node[k].next \in Nat
               /\ IsFiniteSet(node[k].np_list) /\ Cardinality(node[k].np_list) \in Nat
<1>1. Len(node) \in Nat /\ DOMAIN node = 1..Len(node) /\ \A k \in DOMAIN node : node[k] \in Nodes
  BY LenProperties, ElementOfSeq DEF Chain
<1>2. \A k \in DOMAIN node : IsFiniteSet(node[k].np_list) /\ Cardinality(node[k].np_list) \in Nat
  BY FS_CardinalityType DEF Chain
<1> QED
  BY <1>1, <1>2 DEF Nodes, Null

\* Node k gets another list or another counter; the links stay.
Relisted(k, list, c) ==
    /\ UNCHANGED <<live, head>>
    /\ node' \in Seq(Nodes) /\ DOMAIN node' = DOMAIN node
    /\ \A j \in DOMAIN node : /\ node'[j].data = node[j].data /\ node'[j].next = node[j].next
                              /\ j # k => node'[j] = node[j]
    /\ node'[k].np_list = list /\ node'[k].np_count = c

LEMMA RelistedChain ==
  ASSUME Chain, NEW k \in DOMAIN node, NEW list, IsFiniteSet(list), NEW c,
         Relisted(k, list, c)
  PROVE  Chain'
<1> USE DEF Chain, Relisted
<1>1. InOrder'
  <2>1. \A j \in DOMAIN node : node'[j].next = node[j].next
    OBVIOUS
  <2>2. \A j \in live : Follows(j) => Follows(j)'
    BY <2>1 DEF Follows
  <2> QED
    BY <2>1, <2>2 DEF InOrder
<1> QED
  BY <1>1

LEMMA NodeRelisted ==
  ASSUME Chain, NEW k \in DOMAIN node, NEW list \in SUBSET Names, NEW c \in Int,
         UNCHANGED <<live, head>>,
         node' = [node EXCEPT ![k].np_list = list, ![k].np_count = c]
  PROVE  Relisted(k, list, c)
<1>1. DOMAIN node = 1..Len(node) /\ node[k] \in Nodes
  BY NodeFacts
<1> DEFINE new == [node[k] EXCEPT !.np_list = list, !.np_count = c]
<1>2. /\ new \in Nodes /\ new.data = node[k].data /\ new.next = node[k].next
      /\ new.np_list = list /\ new.np_count = c
  BY <1>1 DEF Nodes
<1>3. node' = [node EXCEPT ![k] = new]
  OBVIOUS
<1> HIDE DEF new
<1>4. /\ node' \in Seq(Nodes) /\ Len(node') = Len(node)
      /\ \A j \in 1..Len(node) : node'[j] = IF j = k THEN new ELSE node[j]
  <2>1. node \in Seq(Nodes) /\ k \in 1..Len(node) /\ new \in Nodes
    BY <1>1, <1>2 DEF Chain
  <2>2. /\ [node EXCEPT ![k] = new] \in Seq(Nodes) /\ Len([node EXCEPT ![k] = new]) = Len(node)
        /\ \A j \in 1..Len(node) : [node EXCEPT ![k] = new][j] = IF j = k THEN new ELSE node[j]
    BY <2>1, ExceptSeq
  <2> QED
    BY <1>3, <2>2
<1>5. DOMAIN node' = DOMAIN node
  BY <1>3
<1> QED
  BY <1>1, <1>2, <1>4, <1>5 DEF Relisted

\* A new node is the last of the hash.
Appended(new, a, n) ==
    /\ new \in Nat /\ new \notin DOMAIN node /\ DOMAIN node' = DOMAIN node \cup {new}
    /\ \A k \in DOMAIN node : k < new
    /\ live' = live \cup {new} /\ node' \in Seq(Nodes)
    /\ node'[new] = [data |-> a, np_list |-> {n}, np_count |-> 0, next |-> Null]
    /\ \A k \in DOMAIN node :
          /\ node'[k].data = node[k].data
          /\ node'[k].np_list = node[k].np_list /\ node'[k].np_count = node[k].np_count
          /\ node'[k].next = IF k \in live /\ node[k].next = Null THEN new ELSE node[k].next
    /\ head' = IF live = {} THEN new ELSE head

LEMMA NodeAppended ==
  ASSUME Chain, NEW a \in Apps, NEW n \in Names, AppendNode(a, n)
  PROVE  Appended(Len(node) + 1, a, n)
<1> DEFINE new == Len(node) + 1
           added == [data |-> a, np_list |-> {n}, np_count |-> 0, next |-> Null]
           linked == IF live = {} THEN node ELSE [node EXCEPT ![Max(live)].next = new]
<1>1. /\ Len(node) \in Nat /\ DOMAIN node = 1..Len(node) /\ new \in Nat
      /\ \A k \in DOMAIN node : node[k] \in Nodes /\ k < new /\ node[k].next \in Nat
  BY NodeFacts
<1>2. added \in Nodes
  BY DEF Nodes, Null
<1>3. /\ linked \in Seq(Nodes) /\ Len(linked) = Len(node)
      /\ \A k \in DOMAIN node :
           /\ linked[k].data = node[k].data
           /\ linked[k].np_list = node[k].np_list /\ linked[k].np_count = node[k].np_count
           /\ linked[k].next = IF k \in live /\ node[k].next = Null THEN new ELSE node[k].next
  <2>1. CASE live = {}
    BY <2>1 DEF Chain
  <2>2. CASE live # {}
    <3>1. PICK m \in live : \A j \in live : j <= m
      BY <2>2 DEF Chain, InOrder
    <3>2. live \subseteq Nat /\ m \in DOMAIN node
      BY <1>1 DEF Chain
    <3>3. \A x \in live : (\A y \in live : x >= y) => x = m
      BY <3>1, <3>2
    <3>4. m \in live /\ \A y \in live : m >= y
      BY <3>1, <3>2
    <3>5. Max(live) = m
      BY <3>3, <3>4 DEF Max
    <3>6. node[m].next = Null /\ \A k \in live : k # m => node[k].next # Null
      BY <3>1, <3>2 DEF Chain, InOrder, Follows, Null
    <3> DEFINE last == [node[m] EXCEPT !.next = new]
    <3>7. /\ last \in Nodes /\ last.data = node[m].data /\ last.np_list = node[m].np_list
          /\ last.np_count = node[m].np_count /\ last.next = new
      BY <1>1, <3>2 DEF Nodes
    <3>8. linked = [node EXCEPT ![m] = last]
      BY <2>2, <3>5
    <3> HIDE DEF last, linked, new
    <3>9. /\ linked \in Seq(Nodes) /\ Len(linked) = Len(node)
          /\ \A j \in 1..Len(node) : linked[j] = IF j = m THEN last ELSE node[j]
      BY <1>1, <3>2, <3>7, <3>8, ExceptSeq DEF Chain
    <3> QED
      BY <1>1, <3>4, <3>6, <3>7, <3>9
  <2> QED
    BY <2>1, <2>2
<1>4. node' = Append(linked, added) /\ live' = live \cup {new}
      /\ head' = IF live = {} THEN new ELSE head
  BY DEF AppendNode
<1> HIDE DEF linked, added
<1>5. /\ node' \in Seq(Nodes) /\ Len(node') = Len(node) + 1 /\ node'[Len(node) + 1] = added
      /\ \A k \in 1..Len(node) : node'[k] = linked[k]
  BY <1>2, <1>3, <1>4, AppendProperties
<1>6. DOMAIN node' = 1..(Len(node) + 1)
  BY <1>5, LenProperties
<1>7. DOMAIN node' = DOMAIN node \cup {new} /\ new \notin DOMAIN node
  BY <1>1, <1>6
<1>8. node'[new] = [data |-> a, np_list |-> {n}, np_count |-> 0, next |-> Null]
  BY <1>5 DEF added
<1> QED
  BY <1>1, <1>3, <1>4, <1>5, <1>7, <1>8 DEF Appended

LEMMA AppendedChain ==
  ASSUME Chain, NEW new, NEW a, NEW n, Appended(new, a, n)
  PROVE  Chain'
<1> USE DEF Appended
<1>1. /\ \A k \in DOMAIN node : k \in Nat /\ k # Null /\ node[k].next \in Nat
      /\ live \subseteq DOMAIN node /\ head \in live \cup {Null}
  BY NodeFacts DEF Chain
<1>2. new # Null /\ new \in live'
  <2>1. new # 0
    BY <1>1 DEF Chain, Null
  <2> QED
    BY <2>1 DEF Null
<1>3. \A k \in live' : Follows(k)'
  <2>1. Follows(new)'
    BY <1>1 DEF Follows
  <2>2. ASSUME NEW k \in live PROVE Follows(k)'
    BY <1>1, <1>2 DEF Chain, InOrder, Follows
  <2> QED
    BY <2>1, <2>2
<1>4. \A k \in live' : k = head' \/ \E j \in live' : node'[j].next = k
  <2>1. ASSUME NEW k \in live, k # head PROVE \E j \in live' : node'[j].next = k
    BY <1>1, <2>1 DEF Chain, InOrder
  <2>2. ASSUME live # {} PROVE \E j \in live : node'[j].next = new
    <3>1. PICK m \in live : \A j \in live : j <= m
      BY <2>2 DEF Chain, InOrder
    <3>2. Follows(m) /\ m \in Nat
      BY <1>1 DEF Chain, InOrder
    <3>3. node[m].next = Null
      <4>1. SUFFICES ASSUME node[m].next # Null PROVE FALSE
        OBVIOUS
      <4>2. node[m].next \in live /\ node[m].next > m
        BY <3>2, <4>1 DEF Follows
      <4>3. node[m].next <= m /\ node[m].next \in Nat
        BY <1>1, <3>1, <4>2
      <4> QED
        BY <3>2, <4>2, <4>3
    <3>4. node'[m].next = new
      BY <1>1, <3>3
    <3> QED
      BY <3>4
  <2> QED
    BY <2>1, <2>2, <1>2
<1>5. /\ head' # Null /\ head' \in live' /\ \A k \in live' : head' <= k
      /\ \A j \in live' : j <= new
  BY <1>1, <1>2 DEF Chain, InOrder
<1>6. \A k \in DOMAIN node' : node'[k].next = Null
                             \/ (node'[k].next > k /\ node'[k].next \in DOMAIN node')
  BY <1>1 DEF Chain, InOrder
<1>7. InOrder'
  BY <1>2, <1>3, <1>4, <1>5, <1>6 DEF InOrder
<1>8. \A k \in DOMAIN node' : IsFiniteSet(node'[k].np_list)
  <2>1. IsFiniteSet(node'[new].np_list)
    <3>1. node'[new].np_list = {n}
      OBVIOUS
    <3>2. IsFiniteSet({n})
      BY FS_Singleton
    <3> QED
      BY <3>1, <3>2
  <2>2. ASSUME NEW k \in DOMAIN node PROVE IsFiniteSet(node'[k].np_list)
    BY DEF Chain
  <2> QED
    BY <2>1, <2>2
<1>9. live' \subseteq DOMAIN node' /\ head' \in live' \cup {Null}
  BY <1>1, <1>5
<1> QED
  BY <1>7, <1>8, <1>9 DEF Chain

\* A node is taken out; the one before it leads to the one after it, and it stays where
\* it is for whoever stands on it.
Unlinked(k) ==
    /\ live' = live \ {k} /\ node' \in Seq(Nodes) /\ DOMAIN node' = DOMAIN node
    /\ \A j \in DOMAIN node :
          /\ node'[j].data = node[j].data
          /\ node'[j].np_list = node[j].np_list /\ node'[j].np_count = node[j].np_count
          /\ node'[j].next = IF j \in live /\ node[j].next = k THEN node[k].next ELSE node[j].next
    /\ head' = IF head = k THEN node[k].next ELSE head

LEMMA NodeUnlinked ==
  ASSUME Chain, NEW k \in live, UnlinkNode(k)
  PROVE  Unlinked(k)
<1>1. /\ Len(node) \in Nat /\ DOMAIN node = 1..Len(node) /\ k \in DOMAIN node
      /\ \A j \in DOMAIN node : node[j] \in Nodes
  BY NodeFacts DEF Chain
<1>2. /\ node' = [j \in DOMAIN node |-> IF j \in {i \in live : node[i].next = k}
                                        THEN [node[j] EXCEPT !.next = node[k].next] ELSE node[j]]
      /\ live' = live \ {k} /\ head' = IF head = k THEN node[k].next ELSE head
  BY DEF UnlinkNode
<1>3. \A j \in DOMAIN node :
         /\ [node[j] EXCEPT !.next = node[k].next] \in Nodes
         /\ [node[j] EXCEPT !.next = node[k].next].data = node[j].data
         /\ [node[j] EXCEPT !.next = node[k].next].np_list = node[j].np_list
         /\ [node[j] EXCEPT !.next = node[k].next].np_count = node[j].np_count
         /\ [node[j] EXCEPT !.next = node[k].next].next = node[k].next
  BY <1>1 DEF Nodes
<1>4. DOMAIN node' = DOMAIN node
  BY <1>2
<1>5. node' \in Seq(Nodes)
  <2>1. node' \in [1..Len(node) -> Nodes]
    BY <1>1, <1>2, <1>3
  <2> QED
    BY <1>1, <2>1
<1>6. \A j \in DOMAIN node :
         /\ node'[j].data = node[j].data
         /\ node'[j].np_list = node[j].np_list /\ node'[j].np_count = node[j].np_count
         /\ node'[j].next = IF j \in live /\ node[j].next = k THEN node[k].next ELSE node[j].next
  BY <1>2, <1>3
<1> QED
  BY <1>2, <1>4, <1>5, <1>6 DEF Unlinked

LEMMA UnlinkedChain ==
  ASSUME Chain, NEW k \in live, Unlinked(k)
  PROVE  Chain'
<1> USE DEF Unlinked
<1>1. /\ \A j \in DOMAIN node : j \in Nat /\ j # Null /\ node[j].next \in Nat
      /\ live \subseteq DOMAIN node /\ head \in live \cup {Null}
  BY NodeFacts DEF Chain
<1>2. ASSUME NEW j \in live' PROVE Follows(j)'
  <2>1. j \in live /\ j # k /\ Follows(j) /\ Follows(k) /\ \A i \in live' : i \in live /\ i # k
    BY DEF Chain, InOrder
  <2>2. node'[j].next = IF node[j].next = k THEN node[k].next ELSE node[j].next
    BY <1>1, <2>1
  <2>3. CASE node[j].next = k
    BY <1>1, <2>1, <2>2, <2>3 DEF Follows
  <2>4. CASE node[j].next # k
    BY <1>1, <2>1, <2>2, <2>4 DEF Follows
  <2> QED
    BY <2>3, <2>4
<1>3. /\ head' = Null => live' = {}
      /\ head' # Null => head' \in live' /\ \A j \in live' : head' <= j
  BY <1>1 DEF Chain, InOrder, Follows
<1>4. \A i \in live' : i = head' \/ \E j \in live' : node'[j].next = i
  <2> SUFFICES ASSUME NEW i \in live', i # head' PROVE \E j \in live' : node'[j].next = i
    OBVIOUS
  <2>1. i # head
    BY <1>1 DEF Chain, InOrder
  <2>2. PICK p \in live : node[p].next = i
    BY <2>1 DEF Chain, InOrder
  <2>3. CASE p # k
    BY <1>1, <2>2, <2>3
  <2>4. CASE p = k
    <3>1. k # head
      BY <2>2, <2>4
    <3>2. PICK q \in live : node[q].next = k
      BY <3>1 DEF Chain, InOrder
    <3>3. q # k
      BY <1>1, <3>2 DEF Chain, InOrder
    <3> QED
      BY <1>1, <2>2, <2>4, <3>2, <3>3
  <2> QED
    BY <2>3, <2>4
<1>5. ASSUME live' # {} PROVE \E m \in live' : \A j \in live' : j <= m
  <2>1. PICK m \in live : \A j \in live : j <= m
    BY <1>5 DEF Chain, InOrder
  <2>2. CASE m # k
    BY <2>1, <2>2
  <2>3. CASE m = k
    <3>1. k # head
      BY <1>1, <1>5, <2>1, <2>3 DEF Chain, InOrder
    <3>2. PICK q \in live : node[q].next = k
      BY <3>1 DEF Chain, InOrder
    <3>3. q # k /\ \A j \in live' : j <= q
      BY <1>1, <2>1, <2>3, <3>2 DEF Chain, InOrder, Follows
    <3> QED
      BY <3>3
  <2> QED
    BY <2>2, <2>3
<1>6. \A j \in DOMAIN node' : node'[j].next = Null
                             \/ (node'[j].next > j /\ node'[j].next \in DOMAIN node')
  BY <1>1 DEF Chain, InOrder
<1>7. InOrder'
  BY <1>2, <1>3, <1>4, <1>5, <1>6 DEF InOrder
<1>8. \A j \in DOMAIN node' : IsFiniteSet(node'[j].np_list)
  BY DEF Chain
<1>9. live' \subseteq DOMAIN node' /\ head' \in live' \cup {Null}
  BY <1>1, <1>3
<1> QED
  BY <1>7, <1>8, <1>9 DEF Chain

-----------------------------------------------------------------------------
(* The APPs that list an NP, and the walk that looks for them. *)

ListedBy(n) == {k \in live : n \in node[k].np_list}

LEMMA ListedFinite ==
  ASSUME Chain, NEW n
  PROVE  IsFiniteSet(ListedBy(n)) /\ Cardinality(ListedBy(n)) \in Nat
<1>1. Len(node) \in Nat /\ ListedBy(n) \in SUBSET (1..Len(node))
  BY NodeFacts DEF Chain, ListedBy
<1>2. IsFiniteSet(1..Len(node))
  BY <1>1, FS_Interval
<1> QED
  BY <1>1, <1>2, FS_Subset, FS_CardinalityType

\* Lists that gain no n and nodes that are not new leave the walk on its way.
LEMMA LeadsOn ==
  ASSUME NEW R, NEW n, LeadsTo(R, n), R \subseteq DOMAIN node, live \subseteq DOMAIN node,
         UNCHANGED cursor, live' \subseteq live,
         \A j \in DOMAIN node : node'[j].next = node[j].next,
         \A i \in live' : Lists(i, n)' => Lists(i, n)
  PROVE  LeadsTo(R, n)'
BY DEF LeadsTo

LEMMA LeadsUnlinked ==
  ASSUME Chain, NEW R \in SUBSET DOMAIN node, NEW n, LeadsTo(R, n), NEW k \in live, Unlinked(k),
         UNCHANGED cursor
  PROVE  LeadsTo(R, n)'
<1> USE DEF Unlinked
<1>1. /\ \A j \in DOMAIN node : j \in Nat /\ j # Null /\ node[j].next \in Nat
      /\ live \subseteq DOMAIN node
  BY NodeFacts DEF Chain
<1>2. \A i \in live' : Lists(i, n)' = Lists(i, n)
  BY <1>1 DEF Lists
<1>3. \A j \in R : node'[j].next \in R \cup {Null}
  BY <1>1 DEF LeadsTo
<1>4. ASSUME NEW j \in R, NEW i \in live', Lists(i, n), j < i
      PROVE  node'[j].next # Null /\ node'[j].next <= i
  <2>1. node[j].next # Null /\ node[j].next <= i /\ i \in live /\ i # k
    BY <1>4 DEF LeadsTo
  <2>2. CASE node[j].next = k /\ j \in live
    <3>1. k \in R /\ k < i
      BY <1>1, <2>1, <2>2 DEF LeadsTo
    <3>2. node[k].next # Null /\ node[k].next <= i
      BY <1>4, <2>1, <3>1 DEF LeadsTo
    <3> QED
      BY <2>2, <3>2
  <2> QED
    BY <2>1, <2>2
<1> QED
  BY <1>2, <1>3, <1>4 DEF LeadsTo

LEMMA LeadsAppended ==
  ASSUME Chain, NEW R \in SUBSET DOMAIN node, NEW n, LeadsTo(R, n), NEW new, NEW a, NEW m,
         Appended(new, a, m), m # n, UNCHANGED cursor
  PROVE  LeadsTo(R \cup {new}, n)'
<1> USE DEF Appended
<1>1. /\ \A j \in DOMAIN node : j \in Nat /\ node[j].next \in Nat
      /\ live \subseteq DOMAIN node
  BY NodeFacts DEF Chain
<1>2. ~Lists(new, n)' /\ node'[new].next = Null /\ \A i \in live : Lists(i, n)' = Lists(i, n)
  BY <1>1 DEF Lists
<1>3. \A j \in R \cup {new} : node'[j].next \in R \cup {new, Null}
  BY <1>2 DEF LeadsTo
<1>4. ASSUME NEW j \in R, NEW i \in live, Lists(i, n), j < i
      PROVE  node'[j].next # Null /\ node'[j].next <= i
  BY <1>1, <1>4 DEF LeadsTo
<1>5. \A i \in live : ~(new < i)
  BY <1>1
<1> QED
  BY <1>2, <1>3, <1>4, <1>5 DEF LeadsTo

-----------------------------------------------------------------------------
(* Where the handlers are. *)

Moves(h, place) == IF place = "accept" THEN Done(h) ELSE Goto(h, place)

LEMMA MovesPc ==
  ASSUME Typed, NEW h \in Handlers, NEW place \in Places[h], pc[h] # "accept", Moves(h, place)
  PROVE  /\ pc' \in [Handlers -> PCs]
         /\ req' \in [Handlers -> [app : Apps \cup {"none"}, np : Names]]
         /\ \A g \in Handlers : /\ pc'[g] = IF g = h THEN place ELSE pc[g]
                                /\ pc'[g] \in Places[g]
                                /\ pc'[g] # "accept" => req'[g] = req[g] /\ req'[g] \in Requests(g)
                                /\ req'[g] \in Requests(g) \cup {NoReq}
<1>1. h \in AllHandlers
  BY JunctionAssumption
<1>2. Places[h] \subseteq PCs
  BY <1>1 DEF AllHandlers, Places, PCs
<1>3. NoReq \in [app : Apps \cup {"none"}, np : Names]
  BY DEF NoReq, Names
<1>4. CASE place = "accept"
  BY <1>2, <1>3, <1>4 DEF Typed, TypeOK, Moves, Done
<1>5. CASE place # "accept"
  BY <1>2, <1>5 DEF Typed, TypeOK, Moves, Goto
<1> QED
  BY <1>4, <1>5

LEMMA RequestNp ==
  ASSUME Typed, NEW h \in Handlers
  PROVE  /\ req[h].np \in Names
         /\ pc[h] # "accept" /\ h \in {"np_reg", "np_unreg"} => req[h].np \in NPs
         /\ pc[h] # "accept" /\ h \in {"app_reg", "app_unreg"} => req[h].app \in Apps
BY DEF Typed, Requests

\* What a step of handler h leaves true, whatever it does to the hashes.
LEMMA Rest ==
  ASSUME JInv, NEW h \in Handlers, NEW place \in Places[h], pc[h] # "accept",
         place # "find", pc[h] = "print" => place = "accept", Moves(h, place), UNCHANGED clients, Chain',
         np_hash' \in SUBSET NPs, app_count' \in [NPs -> Nat],
         app_lock' \in Handlers \cup {"free"}, np_lock' \in Handlers \cup {"free"},
         cursor' \in DOMAIN node' \cup {Null}, flag' \in BOOLEAN,
         nj' \in {"alive", "crashed", "corrupt"},
         \A n \in NPs : \/ app_count'[n] <= app_count[n]
                        \/ /\ h = "app_reg" /\ pc[h] = "incr" /\ place = "print"
                           /\ app_count'[n] <= app_count[n] + 1,
         \A n \in np_hash \ np_hash' : h = "np_unreg" /\ n = req[h].np,
         h = "app_reg" /\ place \in {"app_wlock", "add"} =>
            pc[h] = "app_wlock" \/ req[h].np \in np_hash \cup {NoNp}
  PROVE  Typed' /\ CountsBounded' /\ LookedUp' /\ OverlapSeen'
<1> USE DEF JInv
<1>1. /\ pc' \in [Handlers -> PCs]
      /\ req' \in [Handlers -> [app : Apps \cup {"none"}, np : Names]]
      /\ \A g \in Handlers : /\ pc'[g] = IF g = h THEN place ELSE pc[g]
                             /\ pc'[g] \in Places[g]
                             /\ pc'[g] # "accept" => req'[g] = req[g] /\ req'[g] \in Requests(g)
                             /\ req'[g] \in Requests(g) \cup {NoReq}
  BY MovesPc
<1>2. sent \in 0..MaxRequests /\ sent' = sent /\ overlapped' = overlapped /\ app_count \in [NPs -> Nat]
      /\ overlapped \in SUBSET NPs
  BY DEF Typed, TypeOK, clients
<1>3. CountsBounded'
  <2> SUFFICES ASSUME NEW n \in NPs PROVE app_count'[n] + InHand' <= sent
    BY <1>2 DEF CountsBounded
  <2>1. app_count[n] + InHand <= sent /\ app_count[n] \in Nat /\ app_count'[n] \in Nat
        /\ sent \in Nat
    BY <1>2 DEF CountsBounded
  <2>2. InHand' <= InHand /\ InHand \in Nat /\ InHand' \in Nat
    BY <1>1 DEF InHand
  <2>3. CASE app_count'[n] <= app_count[n]
    BY <2>1, <2>2, <2>3
  <2>4. CASE /\ h = "app_reg" /\ pc[h] = "incr" /\ place = "print"
             /\ app_count'[n] <= app_count[n] + 1
    <3>1. InHand = 1 /\ InHand' = 0
      BY <1>1, <2>4 DEF InHand
    <3> QED
      BY <2>1, <2>4, <3>1
  <2> QED
    BY <2>3, <2>4
<1>4. app_count' \in [NPs -> 0..MaxRequests]
  <2> SUFFICES ASSUME NEW n \in NPs PROVE app_count'[n] <= MaxRequests
    OBVIOUS
  <2>1. app_count'[n] + InHand' <= sent /\ InHand' \in Nat
    BY <1>2, <1>3 DEF CountsBounded, InHand
  <2> QED
    BY <1>2, <2>1, JunctionAssumption
<1>5. TypeOK'
  BY <1>1, <1>2, <1>4 DEF TypeOK, Chain
<1>6. Typed'
  BY <1>1, <1>5 DEF Typed, Chain
<1>7. OverlapSeen'
  <2> SUFFICES ASSUME NEW n \in NPs, WorksOn("app_reg", n)', WorksOn("np_unreg", n)'
               PROVE  n \in overlapped
    BY <1>2 DEF OverlapSeen
  <2>1. WorksOn("app_reg", n) /\ WorksOn("np_unreg", n)
    BY <1>1 DEF WorksOn
  <2> QED
    BY <2>1 DEF OverlapSeen
<1>8. LookedUp'
  <2> SUFFICES ASSUME "app_reg" \in Handlers, pc'["app_reg"] \in {"app_wlock", "add"}
               PROVE  req'["app_reg"].np \in np_hash' \cup {NoNp} \cup overlapped
    BY <1>2 DEF LookedUp
  <2> DEFINE n == req["app_reg"].np
  <2>1. req'["app_reg"].np = n /\ pc["app_reg"] # "accept" /\ n \in Names
    BY <1>1, RequestNp
  <2>2. n \in np_hash \cup {NoNp} \cup overlapped
    BY <1>1, <2>1 DEF LookedUp
  <2>3. CASE n \in np_hash \ np_hash'
    <3>1. h = "np_unreg" /\ n = req[h].np /\ n \in NPs
      BY <2>3 DEF Typed, TypeOK
    <3>2. WorksOn("app_reg", n) /\ WorksOn("np_unreg", n)
      BY <2>1, <3>1 DEF WorksOn
    <3> QED
      BY <2>1, <3>1, <3>2 DEF OverlapSeen
  <2> QED
    BY <2>1, <2>2, <2>3
<1> QED
  BY <1>3, <1>6, <1>7, <1>8

\* A place that is told by its name.
LEMMA WhoIs ==
  ASSUME Typed, NEW h \in Handlers
  PROVE  /\ pc[h] \in {"add", "count", "incr"} => h = "app_reg"
         /\ pc[h] = "del" => h = "app_unreg"
         /\ pc[h] = "insert" => h = "np_reg"
         /\ pc[h] \in {"walk", "erase"} => h = "np_unreg"
<1>1. h \in AllHandlers /\ pc[h] \in Places[h]
  BY JunctionAssumption DEF Typed
<1>2. CASE h = "app_reg"
  BY <1>1, <1>2 DEF Places
<1>3. CASE h = "app_unreg"
  BY <1>1, <1>3 DEF Places
<1>4. CASE h = "np_reg"
  BY <1>1, <1>4 DEF Places
<1>5. CASE h = "np_unreg"
  BY <1>1, <1>5 DEF Places
<1> QED
  BY <1>1, <1>2, <1>3, <1>4, <1>5 DEF AllHandlers

LEMMA PendingIs ==
  ASSUME Typed, NEW n
  PROVE  Pending(n) <=> /\ "app_reg" \in Handlers /\ pc["app_reg"] \in {"count", "incr"}
                        /\ req["app_reg"].np = n /\ n \in np_hash
<1>1. \A h \in Handlers : pc[h] \in {"count", "incr"} => h = "app_reg"
  BY WhoIs
<1> QED
  BY <1>1 DEF Pending

\* Nobody is registered: nothing dangles, and the counters are still large enough.
LEMMA Shrinks ==
  ASSUME JInv, Typed', Chain, UNCHANGED <<np_hash, app_count, overlapped>>, live' \subseteq live,
         \A i \in live' : node'[i].np_list \subseteq node[i].np_list,
         \A n \in NPs : Pending(n)' <=> Pending(n)
  PROVE  NoDanglingUnlessOverlap' /\ CountedUnlessOverlap'
<1>1. NoDanglingUnlessOverlap'
  BY DEF JInv, NoDanglingUnlessOverlap
<1>2. ASSUME NEW n \in NPs \ overlapped
      PROVE  Cardinality(ListedBy(n)') <= app_count[n] + IF Pending(n) THEN 1 ELSE 0
  <2>1. IsFiniteSet(ListedBy(n)) /\ Cardinality(ListedBy(n)) \in Nat
    BY ListedFinite
  <2>2. ListedBy(n)' \in SUBSET ListedBy(n)
    BY DEF ListedBy
  <2>3. Cardinality(ListedBy(n)') <= Cardinality(ListedBy(n)) /\ Cardinality(ListedBy(n)') \in Nat
    BY <2>1, <2>2, FS_Subset, FS_CardinalityType
  <2>4. Cardinality(ListedBy(n)) <= app_count[n] + IF Pending(n) THEN 1 ELSE 0
    BY DEF JInv, CountedUnlessOverlap, ListedBy
  <2>5. app_count[n] + (IF Pending(n) THEN 1 ELSE 0) \in Int
    BY DEF JInv, Typed, TypeOK
  <2> HIDE DEF Pending
  <2> QED
    BY <2>1, <2>3, <2>4, <2>5
<1>3. CountedUnlessOverlap'
  BY <1>2 DEF CountedUnlessOverlap, ListedBy
<1> QED
  BY <1>1, <1>3

\* A step of another handler leaves the walk on its way.
LEMMA OtherWalks ==
  ASSUME JInv, UNCHANGED <<overlapped, cursor>>,
         "np_unreg" \in Handlers => pc'["np_unreg"] = pc["np_unreg"],
         "np_unreg" \in Handlers /\ pc["np_unreg"] # "accept" => req'["np_unreg"] = req["np_unreg"],
         \A n \in NPs \ overlapped :
            WorksOn("np_unreg", n) =>
               /\ \A R \in SUBSET DOMAIN node :
                     LeadsTo(R, n) => \E S \in SUBSET DOMAIN node' : LeadsTo(S, n)'
               /\ \A i \in live' : Lists(i, n)' => i \in live /\ Lists(i, n)
  PROVE  WalkSees'
<1> SUFFICES ASSUME "np_unreg" \in Handlers, req'["np_unreg"].np \notin overlapped,
                    pc["np_unreg"] \in {"walk", "np_wlock", "erase"}
             PROVE  LET n == req["np_unreg"].np IN
                    /\ pc["np_unreg"] = "walk" => \E S \in SUBSET DOMAIN node' : LeadsTo(S, n)'
                    /\ pc["np_unreg"] \in {"np_wlock", "erase"} => \A i \in live' : ~Lists(i, n)'
  BY DEF WalkSees
<1> DEFINE n == req["np_unreg"].np
<1>1. n \in NPs \ overlapped /\ WorksOn("np_unreg", n)
  BY RequestNp DEF JInv, WorksOn
<1> QED
  BY <1>1 DEF JInv, WalkSees

\* The hashes stay as they are.
LEMMA QuietStep ==
  ASSUME JInv, Chain, NEW h \in Handlers, NEW place \in Places[h], Moves(h, place),
         pc[h] \notin {"accept", "count", "incr"}, place \notin {"find", "count", "incr", "walk"},
         pc[h] = "print" => place = "accept",
         UNCHANGED <<hashes, walk, clients>>,
         app_lock' \in Handlers \cup {"free"}, np_lock' \in Handlers \cup {"free"},
         nj' \in {"alive", "crashed", "corrupt"},
         h = "app_reg" /\ place \in {"app_wlock", "add"} =>
            pc[h] = "app_wlock" \/ req[h].np \in np_hash \cup {NoNp},
         h = "np_unreg" /\ place = "np_wlock" => pc[h] = "walk" /\ cursor = Null,
         place = "erase" => pc[h] = "np_wlock"
  PROVE  JInv'
<1> USE DEF JInv
<1>1. /\ pc' \in [Handlers -> PCs]
      /\ \A g \in Handlers : /\ pc'[g] = IF g = h THEN place ELSE pc[g]
                             /\ pc'[g] # "accept" => req'[g] = req[g]
  BY MovesPc
<1>2. UNCHANGED <<np_hash, app_count, node, live, head, cursor, flag, sent, overlapped>>
  BY DEF hashes, walk, clients
<1>3. Chain'
  BY <1>2 DEF Chain, InOrder, Follows
<1>4. Typed' /\ CountsBounded' /\ LookedUp' /\ OverlapSeen'
  <2>1. /\ np_hash' \in SUBSET NPs /\ app_count' \in [NPs -> Nat] /\ flag' \in BOOLEAN
        /\ cursor' \in DOMAIN node' \cup {Null} /\ \A n \in NPs : app_count'[n] <= app_count[n]
    BY <1>2 DEF Typed, TypeOK
  <2>2. np_hash \ np_hash' = {}
    BY <1>2
  <2> QED
    BY <1>3, <2>1, <2>2, Rest
<1>5. \A n \in NPs : Pending(n)' <=> Pending(n)
  <2>1. \A g \in Handlers : /\ pc'[g] \in {"count", "incr"} <=> pc[g] \in {"count", "incr"}
                            /\ pc'[g] \in {"count", "incr"} => req'[g] = req[g]
    BY <1>1
  <2> QED
    BY <1>2, <2>1 DEF Pending
<1>6. NoDanglingUnlessOverlap' /\ CountedUnlessOverlap'
  BY <1>2, <1>4, <1>5, Shrinks
<1>7. WalkSees'
  <2>1. \A R, n : LeadsTo(R, n)' = LeadsTo(R, n)
    BY <1>2 DEF LeadsTo, Lists
  <2>2. \A i, n : Lists(i, n)' = Lists(i, n)
    BY <1>2 DEF Lists
  <2>3. CASE h # "np_unreg"
    BY <1>1, <1>2, <2>1, <2>2, <2>3, OtherWalks
  <2>4. CASE h = "np_unreg"
    <3> SUFFICES ASSUME req["np_unreg"].np \notin overlapped, place \in {"np_wlock", "erase"}
                 PROVE  \A i \in live : ~Lists(i, req["np_unreg"].np)
      BY <1>1, <1>2, <2>2, <2>4 DEF WalkSees
    <3>1. CASE place = "np_wlock"
      BY <2>4, <3>1 DEF WalkSees, LeadsTo
    <3>2. CASE place = "erase"
      BY <2>4, <3>2 DEF WalkSees
    <3> QED
      BY <3>1, <3>2
  <2> QED
    BY <2>3, <2>4
<1> QED
  BY <1>3, <1>4, <1>6, <1>7 DEF Chain

-----------------------------------------------------------------------------
(* A lemma for every action. *)

LEMMA ChainOf == JInv => Chain
BY DEF JInv, Typed, TypeOK, Chain

LEMMA QuietSteps ==
  ASSUME JInv, NEW h \in Handlers,
         Find(h) \/ AppWlock(h) \/ NpWlock(h) \/ WalkEnd(h) \/ PrintNps(h)
  PROVE  JInv'
<1> USE DEF At, locks
<1>1. /\ Chain /\ h \in AllHandlers /\ pc[h] \in Places[h] /\ Typed
      /\ app_lock \in Handlers \cup {"free"} /\ np_lock \in Handlers \cup {"free"}
      /\ nj \in {"alive", "crashed", "corrupt"}
  BY ChainOf, JunctionAssumption DEF JInv, Typed, TypeOK
<1>2. CASE Find(h)
  <2>1. pc[h] = "find" /\ h \in {"app_reg", "app_unreg"}
    BY <1>1, <1>2 DEF Find, AllHandlers, Places
  <2>2. CASE req[h].np \in np_hash \cup {NoNp}
    <3>1. Moves(h, "app_wlock") /\ "app_wlock" \in Places[h]
      BY <1>2, <2>1, <2>2 DEF Find, Moves, Places
    <3> QED
      BY <1>1, <1>2, <2>1, <2>2, <3>1, QuietStep DEF Find
  <2>3. CASE req[h].np \notin np_hash \cup {NoNp}
    <3>1. Moves(h, "accept") /\ "accept" \in Places[h]
      BY <1>2, <2>1, <2>3 DEF Find, Moves, Places
    <3> QED
      BY <1>1, <1>2, <2>1, <3>1, QuietStep DEF Find
  <2> QED
    BY <2>2, <2>3
<1>3. CASE AppWlock(h)
  <2>1. pc[h] = "app_wlock" /\ h \in {"app_reg", "app_unreg"}
    BY <1>1, <1>3 DEF AppWlock, AllHandlers, Places
  <2>2. CASE h = "app_reg"
    <3>1. Moves(h, "add") /\ "add" \in Places[h]
      BY <1>3, <2>2 DEF AppWlock, Moves, Places
    <3> QED
      BY <1>1, <1>3, <2>1, <3>1, QuietStep DEF AppWlock
  <2>3. CASE h = "app_unreg"
    <3>1. Moves(h, "del") /\ "del" \in Places[h]
      BY <1>3, <2>3 DEF AppWlock, Moves, Places
    <3> QED
      BY <1>1, <1>3, <2>1, <3>1, QuietStep DEF AppWlock
  <2> QED
    BY <2>1, <2>2, <2>3
<1>4. CASE NpWlock(h)
  <2>1. pc[h] = "np_wlock" /\ h \in {"np_reg", "np_unreg"}
    BY <1>1, <1>4 DEF NpWlock, AllHandlers, Places
  <2>2. CASE h = "np_reg"
    <3>1. Moves(h, "insert") /\ "insert" \in Places[h]
      BY <1>4, <2>2 DEF NpWlock, Moves, Places
    <3> QED
      BY <1>1, <1>4, <2>1, <2>2, <3>1, QuietStep DEF NpWlock
  <2>3. CASE h = "np_unreg"
    <3>1. Moves(h, "erase") /\ "erase" \in Places[h]
      BY <1>4, <2>3 DEF NpWlock, Moves, Places
    <3> QED
      BY <1>1, <1>4, <2>1, <2>3, <3>1, QuietStep DEF NpWlock
  <2> QED
    BY <2>1, <2>2, <2>3
<1>5. CASE WalkEnd(h)
  <2>1. pc[h] = "walk" /\ h = "np_unreg"
    BY <1>1, <1>5, WhoIs DEF WalkEnd
  <2>2. Moves(h, "np_wlock") /\ "np_wlock" \in Places[h]
    BY <1>5, <2>1 DEF WalkEnd, Moves, Places
  <2> QED
    BY <1>1, <1>5, <2>1, <2>2, QuietStep DEF WalkEnd
<1>6. CASE PrintNps(h)
  <2>1. Moves(h, "accept") /\ "accept" \in Places[h]
    BY <1>1, <1>6 DEF PrintNps, Moves, Places, AllHandlers
  <2> QED
    BY <1>1, <1>6, <2>1, QuietStep DEF PrintNps
<1> QED
  BY <1>2, <1>3, <1>4, <1>5, <1>6

\* A handler that refuses its request, or brings the server down.
LEMMA GivesUp ==
  ASSUME JInv, NEW h \in Handlers, pc[h] \notin {"accept", "count", "incr"}, Done(h),
         UNCHANGED <<hashes, walk, clients>>,
         app_lock' \in {app_lock, "free"}, np_lock' \in {np_lock, "free"},
         nj' \in {nj, "crashed"}
  PROVE  JInv'
<1>1. /\ Chain /\ h \in AllHandlers
      /\ app_lock \in Handlers \cup {"free"} /\ np_lock \in Handlers \cup {"free"}
      /\ nj \in {"alive", "crashed", "corrupt"}
  BY ChainOf, JunctionAssumption DEF JInv, Typed, TypeOK
<1>2. Moves(h, "accept") /\ "accept" \in Places[h]
  BY <1>1 DEF Moves, Places, AllHandlers
<1> QED
  BY <1>1, <1>2, QuietStep

\* An APP is registered with an NP.
LEMMA Added ==
  ASSUME JInv, Chain', NEW h \in Handlers, h = "app_reg", pc[h] = "add", Goto(h, "count"),
         UNCHANGED <<np_hash, app_count, locks, walk, nj, clients>>,
         NEW k \in DOMAIN node', live' = live \cup {k}, DOMAIN node \subseteq DOMAIN node',
         \A i \in live : i # k => node'[i].np_list = node[i].np_list,
         node'[k].np_list = IF k \in live THEN node[k].np_list \cup {req[h].np} ELSE {req[h].np},
         \A n, R : /\ R \in SUBSET DOMAIN node /\ n # req[h].np /\ LeadsTo(R, n)
                   => \E S \in SUBSET DOMAIN node' : LeadsTo(S, n)'
  PROVE  JInv'
<1> DEFINE new == req[h].np
<1>1. /\ Chain /\ Typed /\ new \in Names /\ Moves(h, "count") /\ "count" \in Places[h]
      /\ new \in np_hash \cup {NoNp} \cup overlapped
      /\ UNCHANGED <<cursor, overlapped, sent>>
  BY ChainOf, RequestNp DEF JInv, LookedUp, Moves, Places, walk, clients
<1>2. /\ pc' \in [Handlers -> PCs]
      /\ \A g \in Handlers : /\ pc'[g] = IF g = h THEN "count" ELSE pc[g]
                             /\ pc'[g] # "accept" => req'[g] = req[g]
  BY <1>1, MovesPc
<1>3. Typed' /\ CountsBounded' /\ LookedUp' /\ OverlapSeen'
  <2>1. /\ np_hash' \in SUBSET NPs /\ app_count' \in [NPs -> Nat] /\ flag' \in BOOLEAN
        /\ cursor' \in DOMAIN node' \cup {Null} /\ \A n \in NPs : app_count'[n] <= app_count[n]
        /\ app_lock' \in Handlers \cup {"free"} /\ np_lock' \in Handlers \cup {"free"}
        /\ nj' \in {"alive", "crashed", "corrupt"}
    BY <1>1 DEF Typed, TypeOK, walk, locks
  <2>2. np_hash \ np_hash' = {}
    OBVIOUS
  <2> QED
    BY <1>1, <2>1, <2>2, Rest
<1>4. NoDanglingUnlessOverlap'
  BY <1>1 DEF JInv, NoDanglingUnlessOverlap
<1>5. WalkSees'
  <2> SUFFICES ASSUME NEW n \in NPs \ overlapped, WorksOn("np_unreg", n)
               PROVE  /\ \A R \in SUBSET DOMAIN node :
                            LeadsTo(R, n) => \E S \in SUBSET DOMAIN node' : LeadsTo(S, n)'
                      /\ \A i \in live' : Lists(i, n)' => i \in live /\ Lists(i, n)
    BY <1>1, <1>2, OtherWalks
  <2>1. n # new
    BY DEF JInv, OverlapSeen, WorksOn
  <2> QED
    BY <2>1 DEF Lists
<1>6. CountedUnlessOverlap'
  <2> SUFFICES ASSUME NEW n \in NPs \ overlapped
               PROVE  Cardinality(ListedBy(n)') <= app_count[n] + IF Pending(n)' THEN 1 ELSE 0
    BY <1>1 DEF CountedUnlessOverlap, ListedBy
  <2>1. /\ IsFiniteSet(ListedBy(n)) /\ Cardinality(ListedBy(n)) \in Nat /\ app_count[n] \in Nat
        /\ Cardinality(ListedBy(n)) <= app_count[n]
    <3>1. ~Pending(n)
      BY <1>1, PendingIs
    <3>2. Cardinality(ListedBy(n)) <= app_count[n] + IF Pending(n) THEN 1 ELSE 0
      BY DEF JInv, CountedUnlessOverlap, ListedBy
    <3>3. app_count[n] \in Nat /\ IsFiniteSet(ListedBy(n)) /\ Cardinality(ListedBy(n)) \in Nat
      BY <1>1, ListedFinite DEF JInv, Typed, TypeOK
    <3> HIDE DEF Pending
    <3> QED
      BY <3>1, <3>2, <3>3
  <2>2. CASE n = new
    <3>1. Pending(n)'
      BY <1>1, <1>2, <2>2, JunctionAssumption DEF Pending
    <3>2. ListedBy(n)' = ListedBy(n) \cup {k}
      BY <2>2 DEF ListedBy
    <3>3. Cardinality(ListedBy(n) \cup {k}) \in {Cardinality(ListedBy(n)), Cardinality(ListedBy(n)) + 1}
      BY <2>1, FS_AddElement
    <3> QED
      BY <2>1, <3>1, <3>2, <3>3
  <2>3. CASE n # new
    <3>1. ListedBy(n)' = ListedBy(n)
      BY <2>3 DEF ListedBy
    <3> QED
      BY <2>1, <3>1
  <2> QED
    BY <2>2, <2>3
<1> QED
  BY <1>3, <1>4, <1>5, <1>6 DEF JInv, Chain

\* An APP is registered with an NP: the list of its node, or its counter, changes.
LEMMA ListChanged ==
  ASSUME Chain, NEW k \in DOMAIN node, NEW n,
         node' = [node EXCEPT ![k].np_list = @ \cup {n}]
  PROVE  node' = [node EXCEPT ![k].np_list = node[k].np_list \cup {n},
                              ![k].np_count = node[k].np_count]
<1>1. node[k] \in Nodes
  BY NodeFacts
<1>2. [node[k] EXCEPT !.np_list = node[k].np_list \cup {n}]
        = [node[k] EXCEPT !.np_list = node[k].np_list \cup {n}, !.np_count = node[k].np_count]
  BY <1>1 DEF Nodes
<1> QED
  BY <1>2

LEMMA CountChanged ==
  ASSUME Chain, NEW k \in DOMAIN node, NEW c, c = node[k].np_count + 1,
         node' = [node EXCEPT ![k].np_count = @ + 1]
  PROVE  node' = [node EXCEPT ![k].np_list = node[k].np_list, ![k].np_count = c]
<1>1. node[k] \in Nodes
  BY NodeFacts
<1>2. [node[k] EXCEPT !.np_count = c]
        = [node[k] EXCEPT !.np_list = node[k].np_list, !.np_count = c]
  BY <1>1 DEF Nodes
<1> QED
  BY <1>2

LEMMA AddStep ==
  ASSUME JInv, NEW h \in Handlers, Add(h)
  PROVE  JInv'
<1> DEFINE a == req[h].app
           n == req[h].np
<1>1. Chain /\ h = "app_reg" /\ pc[h] = "add" /\ a \in Apps /\ n \in Names
  BY ChainOf, WhoIs, RequestNp DEF JInv, Add, At
<1>2. CASE NodesOf(a) = {} /\ AppendNode(a, n) /\ Goto(h, "count") /\ UNCHANGED app_lock
  <2>1. PICK new : Appended(new, a, n)
    BY <1>1, <1>2, NodeAppended
  <2>2. Chain'
    BY <1>1, <2>1, AppendedChain
  <2>3. \A m, R : /\ R \in SUBSET DOMAIN node /\ m # n /\ LeadsTo(R, m)
                  => \E S \in SUBSET DOMAIN node' : LeadsTo(S, m)'
    <3> SUFFICES ASSUME NEW m, NEW R \in SUBSET DOMAIN node, m # n, LeadsTo(R, m)
                 PROVE  \E S \in SUBSET DOMAIN node' : LeadsTo(S, m)'
      OBVIOUS
    <3>1. UNCHANGED cursor
      BY DEF Add, walk
    <3>2. LeadsTo(R \cup {new}, m)'
      BY <1>1, <2>1, <3>1, LeadsAppended
    <3>3. R \cup {new} \in SUBSET DOMAIN node'
      BY <2>1 DEF Appended
    <3> QED
      BY <3>2, <3>3
  <2>4. /\ new \in DOMAIN node' /\ live' = live \cup {new} /\ DOMAIN node \subseteq DOMAIN node'
        /\ \A i \in live : i # new => node'[i].np_list = node[i].np_list
        /\ new \notin live /\ node'[new].np_list = {n}
    BY <1>1, <2>1 DEF Appended, Chain
  <2> QED
    BY <1>1, <1>2, <2>2, <2>3, <2>4, Added DEF Add, locks
<1>3. ASSUME NEW k \in NodesOf(a), n \notin node[k].np_list, Goto(h, "count"),
             node' = [node EXCEPT ![k].np_list = @ \cup {n}],
             UNCHANGED <<live, head, app_lock>>
      PROVE  JInv'
  <2> DEFINE list == node[k].np_list \cup {n}
             c == node[k].np_count
  <2>1. /\ k \in live /\ k \in DOMAIN node /\ node[k].np_list \in SUBSET Names
        /\ IsFiniteSet(node[k].np_list) /\ c \in Int
    BY <1>1, NodeFacts DEF Chain, NodesOf
  <2>2. IsFiniteSet(list) /\ list \in SUBSET Names
    BY <1>1, <2>1, FS_AddElement
  <2>3. node' = [node EXCEPT ![k].np_list = list, ![k].np_count = c]
    BY <1>1, <1>3, <2>1, ListChanged
  <2> HIDE DEF list
  <2>4. Relisted(k, list, c)
    <3>1. PICK d \in Int : d = c
      BY <2>1
    <3> HIDE DEF c
    <3> QED
      BY <1>1, <1>3, <2>1, <2>2, <2>3, <3>1, NodeRelisted
  <2>5. Chain'
    BY <1>1, <2>1, <2>2, <2>4, RelistedChain
  <2>6. \A m, R : /\ R \in SUBSET DOMAIN node /\ m # n /\ LeadsTo(R, m)
                  => \E S \in SUBSET DOMAIN node' : LeadsTo(S, m)'
    <3> SUFFICES ASSUME NEW m, NEW R \in SUBSET DOMAIN node, m # n, LeadsTo(R, m)
                 PROVE  \E S \in SUBSET DOMAIN node' : LeadsTo(S, m)'
      OBVIOUS
    <3>1. UNCHANGED cursor
      BY DEF Add, walk
    <3>2. \A i \in live' : Lists(i, m)' => Lists(i, m)
      BY <1>1, <2>1, <2>4 DEF Relisted, Lists, list, Chain
    <3>3. LeadsTo(R, m)'
      BY <1>1, <1>3, <2>4, <3>1, <3>2, LeadsOn DEF Relisted, Chain
    <3> QED
      BY <2>4, <3>3 DEF Relisted
  <2>7. /\ k \in DOMAIN node' /\ live' = live \cup {k} /\ DOMAIN node \subseteq DOMAIN node'
        /\ \A i \in live : i # k => node'[i].np_list = node[i].np_list
        /\ node'[k].np_list = node[k].np_list \cup {n}
    <3>1. live' = live /\ DOMAIN node' = DOMAIN node /\ live \subseteq DOMAIN node
      BY <1>1, <2>4 DEF Relisted, Chain
    <3>2. \A i \in DOMAIN node : i # k => node'[i] = node[i]
      BY <2>4 DEF Relisted
    <3>3. node'[k].np_list = node[k].np_list \cup {n}
      BY <2>4 DEF Relisted, list
    <3> QED
      BY <2>1, <3>1, <3>2, <3>3
  <2>8. UNCHANGED <<np_hash, app_count, locks, walk, nj, clients>>
    BY <1>3 DEF Add, locks
  <2>9. node'[k].np_list = IF k \in live THEN node[k].np_list \cup {n} ELSE {n}
    BY <2>1, <2>7
  <2>10. Goto(h, "count") /\ JInv /\ pc[h] = "add" /\ h = "app_reg"
    BY <1>1, <1>3
  <2> QED
    BY <2>5, <2>6, <2>7, <2>8, <2>9, <2>10, Added
<1>4. CASE Done(h) /\ UNCHANGED <<node, live, head>> /\ app_lock' = "free"
  <2>1. UNCHANGED <<hashes, walk, clients>> /\ np_lock' = np_lock /\ nj' = nj
    BY <1>4 DEF Add, hashes
  <2> QED
    BY <1>1, <1>4, <2>1, GivesUp
<1> QED
  BY <1>2, <1>3, <1>4 DEF Add

\* An APP is unregistered.
LEMMA Removed ==
  ASSUME JInv, Chain', NEW h \in Handlers, h = "app_unreg", pc[h] = "del", Goto(h, "print"),
         UNCHANGED <<np_hash, app_count, np_lock, walk, nj, clients>>, app_lock' = "free",
         live' \subseteq live, DOMAIN node' = DOMAIN node,
         \A i \in live' : node'[i].np_list \subseteq node[i].np_list,
         \A n, R : R \in SUBSET DOMAIN node /\ LeadsTo(R, n)
                   => \E S \in SUBSET DOMAIN node' : LeadsTo(S, n)'
  PROVE  JInv'
<1>1. /\ Chain /\ Typed /\ Moves(h, "print") /\ "print" \in Places[h]
      /\ UNCHANGED <<cursor, overlapped, sent>>
  BY ChainOf DEF JInv, Moves, Places, walk, clients
<1>2. /\ pc' \in [Handlers -> PCs]
      /\ \A g \in Handlers : /\ pc'[g] = IF g = h THEN "print" ELSE pc[g]
                             /\ pc'[g] # "accept" => req'[g] = req[g]
  BY <1>1, MovesPc
<1>3. Typed' /\ CountsBounded' /\ LookedUp' /\ OverlapSeen'
  <2>1. /\ np_hash' \in SUBSET NPs /\ app_count' \in [NPs -> Nat] /\ flag' \in BOOLEAN
        /\ cursor' \in DOMAIN node' \cup {Null} /\ \A n \in NPs : app_count'[n] <= app_count[n]
        /\ app_lock' \in Handlers \cup {"free"} /\ np_lock' \in Handlers \cup {"free"}
        /\ nj' \in {"alive", "crashed", "corrupt"}
    BY <1>1 DEF Typed, TypeOK, walk
  <2>2. np_hash \ np_hash' = {}
    OBVIOUS
  <2> QED
    BY <1>1, <2>1, <2>2, Rest
<1>4. \A n \in NPs : Pending(n)' <=> Pending(n)
  <2>1. \A g \in Handlers : /\ pc'[g] \in {"count", "incr"} <=> pc[g] \in {"count", "incr"}
                            /\ pc'[g] \in {"count", "incr"} => req'[g] = req[g]
    BY <1>2
  <2> QED
    BY <2>1 DEF Pending
<1>5. NoDanglingUnlessOverlap' /\ CountedUnlessOverlap'
  BY <1>1, <1>3, <1>4, Shrinks
<1>6. WalkSees'
  BY <1>1, <1>2, OtherWalks DEF Lists
<1> QED
  BY <1>3, <1>5, <1>6 DEF JInv, Chain

\* A list gains no name.
LEMMA ListShrunk ==
  ASSUME Chain, NEW k \in DOMAIN node, NEW list \in SUBSET node[k].np_list, NEW c \in Int,
         UNCHANGED <<live, head>>,
         node' = [node EXCEPT ![k].np_list = list, ![k].np_count = c]
  PROVE  Relisted(k, list, c) /\ Chain'
<1>1. node[k].np_list \in SUBSET Names /\ IsFiniteSet(node[k].np_list)
  BY NodeFacts
<1>2. list \in SUBSET Names /\ IsFiniteSet(list)
  BY <1>1, FS_Subset
<1>3. Relisted(k, list, c)
  BY <1>1, <1>2, NodeRelisted
<1> QED
  BY <1>2, <1>3, RelistedChain

\* A name that is in a list is counted.
LEMMA CountStep ==
  ASSUME JInv, NEW h \in Handlers, Count(h)
  PROVE  JInv'
<1>1. /\ Chain /\ Typed /\ h = "app_reg" /\ pc[h] = "count"
      /\ UNCHANGED <<np_hash, app_count, live, head, np_lock, walk, nj, clients>> /\ app_lock' = "free"
      /\ UNCHANGED <<cursor, overlapped, sent>> /\ Moves(h, "incr") /\ "incr" \in Places[h]
  BY ChainOf, WhoIs DEF JInv, Count, At, Moves, Places, walk, clients
<1>2. /\ pc' \in [Handlers -> PCs]
      /\ \A g \in Handlers : /\ pc'[g] = IF g = h THEN "incr" ELSE pc[g]
                             /\ pc'[g] # "accept" => req'[g] = req[g]
  BY <1>1, MovesPc
<1>3. PICK k \in NodesOf(req[h].app) : node' = [node EXCEPT ![k].np_count = @ + 1]
  BY DEF Count
<1>4. PICK c \in Int : Relisted(k, node[k].np_list, c) /\ Chain'
  <2>1. k \in DOMAIN node /\ node[k].np_count \in Int
    BY <1>1, NodeFacts DEF Chain, NodesOf
  <2>2. PICK c \in Int : c = node[k].np_count + 1
    BY <2>1
  <2>3. node' = [node EXCEPT ![k].np_list = node[k].np_list, ![k].np_count = c]
    BY <1>1, <1>3, <2>1, <2>2, CountChanged
  <2> QED
    BY <1>1, <2>1, <2>2, <2>3, ListShrunk
<1>5. /\ DOMAIN node' = DOMAIN node /\ k \in DOMAIN node /\ live \subseteq DOMAIN node
      /\ \A i \in DOMAIN node : node'[i].next = node[i].next /\ node'[i].np_list = node[i].np_list
  BY <1>1, <1>4 DEF Relisted, Chain, NodesOf
<1>6. Typed' /\ CountsBounded' /\ LookedUp' /\ OverlapSeen'
  <2>1. /\ np_hash' \in SUBSET NPs /\ app_count' \in [NPs -> Nat] /\ flag' \in BOOLEAN
        /\ cursor' \in DOMAIN node' \cup {Null} /\ \A n \in NPs : app_count'[n] <= app_count[n]
        /\ app_lock' \in Handlers \cup {"free"} /\ np_lock' \in Handlers \cup {"free"}
        /\ nj' \in {"alive", "crashed", "corrupt"}
    BY <1>1, <1>5 DEF Typed, TypeOK, walk
  <2>2. np_hash \ np_hash' = {}
    BY <1>1
  <2> QED
    BY <1>1, <1>4, <2>1, <2>2, Rest
<1>7. \A n \in NPs : Pending(n)' <=> Pending(n)
  <2>1. \A g \in Handlers : /\ pc'[g] \in {"count", "incr"} <=> pc[g] \in {"count", "incr"}
                            /\ pc'[g] \in {"count", "incr"} => req'[g] = req[g]
    BY <1>1, <1>2
  <2> QED
    BY <1>1, <2>1 DEF Pending
<1>8. NoDanglingUnlessOverlap' /\ CountedUnlessOverlap'
  BY <1>1, <1>5, <1>6, <1>7, Shrinks
<1>9. WalkSees'
  <2>1. \A i \in live : \A n : Lists(i, n)' = Lists(i, n)
    BY <1>5 DEF Lists
  <2>2. ASSUME NEW n, NEW R \in SUBSET DOMAIN node, LeadsTo(R, n) PROVE LeadsTo(R, n)'
    BY <1>1, <1>5, <2>1, <2>2, LeadsOn
  <2> QED
    BY <1>1, <1>2, <1>5, <2>1, <2>2, OtherWalks
<1> QED
  BY <1>4, <1>6, <1>8, <1>9 DEF JInv, Chain

LEMMA DelStep ==
  ASSUME JInv, NEW h \in Handlers, Del(h)
  PROVE  JInv'
<1> DEFINE a == req[h].app
           n == req[h].np
<1>1. Chain /\ h = "app_unreg" /\ pc[h] = "del"
  BY ChainOf, WhoIs DEF JInv, Del, At
<1>2. UNCHANGED <<np_hash, app_count, np_lock, walk, clients, cursor>> /\ app_lock' = "free"
  BY DEF Del, walk
<1>3. ASSUME NEW k \in NodesOf(a), UnlinkNode(k), Goto(h, "print"), UNCHANGED nj
      PROVE  JInv'
  <2>1. k \in live
    BY DEF NodesOf
  <2>2. Unlinked(k) /\ Chain'
    BY <1>1, <1>3, <2>1, NodeUnlinked, UnlinkedChain
  <2>3. \A m, R : R \in SUBSET DOMAIN node /\ LeadsTo(R, m)
                  => \E S \in SUBSET DOMAIN node' : LeadsTo(S, m)'
    BY <1>1, <1>2, <2>1, <2>2, LeadsUnlinked DEF Unlinked
  <2>4. /\ live' \subseteq live /\ DOMAIN node' = DOMAIN node
        /\ \A i \in live' : node'[i].np_list \subseteq node[i].np_list
    BY <1>1, <2>2 DEF Unlinked, Chain
  <2> QED
    BY <1>1, <1>2, <1>3, <2>2, <2>3, <2>4, Removed
<1>4. ASSUME NEW k \in NodesOf(a), n \in node[k].np_list, Goto(h, "print"), UNCHANGED nj,
             node' = [node EXCEPT ![k].np_list = @ \ {n}, ![k].np_count = @ - 1],
             UNCHANGED <<live, head>>
      PROVE  JInv'
  <2>1. k \in live /\ k \in DOMAIN node /\ node[k].np_count - 1 \in Int
    BY <1>1, NodeFacts DEF Chain, NodesOf
  <2> DEFINE list == node[k].np_list \ {n}
             c == node[k].np_count - 1
  <2>2. /\ list \in SUBSET node[k].np_list
        /\ node' = [node EXCEPT ![k].np_list = list, ![k].np_count = c]
    BY <1>4, Zenon
  <2> HIDE DEF list, c
  <2>3. Relisted(k, list, c) /\ Chain'
    <3>1. c \in Int /\ Chain /\ k \in DOMAIN node /\ UNCHANGED <<live, head>>
      BY <1>1, <1>4, <2>1 DEF c
    <3> QED
      BY <2>2, <3>1, ListShrunk
  <2>4. /\ live' \subseteq live /\ DOMAIN node' = DOMAIN node
        /\ \A i \in live' : node'[i].np_list \subseteq node[i].np_list
        /\ \A j \in DOMAIN node : node'[j].next = node[j].next
    BY <1>1, <1>4, <2>2, <2>3 DEF Relisted, Chain
  <2>5. \A m, R : R \in SUBSET DOMAIN node /\ LeadsTo(R, m)
                  => \E S \in SUBSET DOMAIN node' : LeadsTo(S, m)'
    <3> SUFFICES ASSUME NEW m, NEW R \in SUBSET DOMAIN node, LeadsTo(R, m)
                 PROVE  LeadsTo(R, m)'
      BY <2>4
    <3>1. \A i \in live' : Lists(i, m)' => Lists(i, m)
      BY <2>4 DEF Lists
    <3> QED
      BY <1>1, <1>2, <2>4, <3>1, LeadsOn DEF Chain
  <2>6. Goto(h, "print") /\ UNCHANGED nj
    BY <1>4
  <2> QED
    BY <1>1, <1>2, <2>3, <2>4, <2>5, <2>6, Removed
<1>5. CASE Done(h) /\ UNCHANGED <<node, live, head>> /\ nj' \in {nj, "crashed"}
  <2>1. UNCHANGED <<hashes, walk, clients>>
    BY <1>2, <1>5 DEF hashes
  <2> QED
    BY <1>1, <1>2, <1>5, <2>1, GivesUp
<1> QED
  BY <1>3, <1>4, <1>5 DEF Del

LEMMA IncrStep ==
  ASSUME JInv, NEW h \in Handlers, Incr(h)
  PROVE  JInv'
<1> DEFINE new == req[h].np
<1>1. /\ Chain /\ Typed /\ h = "app_reg" /\ pc[h] = "incr"
      /\ UNCHANGED <<np_hash, node, live, head, locks, walk, nj, clients>>
      /\ Moves(h, "print") /\ "print" \in Places[h]
  BY ChainOf, WhoIs DEF JInv, Incr, At, Moves, Places
<1>2. /\ pc' \in [Handlers -> PCs]
      /\ \A g \in Handlers : /\ pc'[g] = IF g = h THEN "print" ELSE pc[g]
                             /\ pc'[g] # "accept" => req'[g] = req[g]
  BY <1>1, MovesPc
<1>3. /\ app_count \in [NPs -> Nat] /\ app_count' \in [NPs -> Nat]
      /\ \A n \in NPs : app_count'[n] = app_count[n] + IF n = new /\ n \in np_hash THEN 1 ELSE 0
  <2>1. app_count \in [NPs -> Nat]
    BY <1>1 DEF Typed, TypeOK
  <2>2. app_count' = [n \in NPs |-> IF n = new /\ n \in np_hash
                                    THEN app_count[n] + 1 ELSE app_count[n]]
    BY DEF Incr
  <2> QED
    BY <2>1, <2>2
<1>4. Chain' /\ UNCHANGED <<cursor, overlapped>>
  BY <1>1 DEF Chain, InOrder, Follows, walk, clients
<1>5. Typed' /\ CountsBounded' /\ LookedUp' /\ OverlapSeen'
  <2>1. /\ np_hash' \in SUBSET NPs /\ flag' \in BOOLEAN
        /\ cursor' \in DOMAIN node' \cup {Null} /\ \A n \in NPs : app_count'[n] <= app_count[n] + 1
        /\ app_lock' \in Handlers \cup {"free"} /\ np_lock' \in Handlers \cup {"free"}
        /\ nj' \in {"alive", "crashed", "corrupt"}
    BY <1>1, <1>3 DEF Typed, TypeOK, walk, locks
  <2>2. np_hash \ np_hash' = {}
    BY <1>1
  <2> QED
    BY <1>1, <1>3, <1>4, <2>1, <2>2, Rest
<1>6. NoDanglingUnlessOverlap'
  BY <1>1, <1>4 DEF JInv, NoDanglingUnlessOverlap
<1>7. WalkSees'
  <2>1. \A R, n : LeadsTo(R, n)' = LeadsTo(R, n)
    BY <1>1, <1>4 DEF LeadsTo, Lists
  <2>2. \A i, n : Lists(i, n)' = Lists(i, n)
    BY <1>1 DEF Lists
  <2> QED
    BY <1>1, <1>2, <1>4, <2>1, <2>2, OtherWalks
<1>8. CountedUnlessOverlap'
  <2> SUFFICES ASSUME NEW n \in NPs \ overlapped
               PROVE  Cardinality(ListedBy(n)) <= app_count'[n] + IF Pending(n)' THEN 1 ELSE 0
    BY <1>1, <1>4 DEF CountedUnlessOverlap, ListedBy
  <2>1. /\ Cardinality(ListedBy(n)) <= app_count[n] + IF Pending(n) THEN 1 ELSE 0
        /\ Cardinality(ListedBy(n)) \in Nat
    BY <1>1, ListedFinite DEF JInv, CountedUnlessOverlap, ListedBy
  <2>2. Pending(n) <=> n = new /\ n \in np_hash
    BY <1>1, PendingIs
  <2>3. app_count'[n] = app_count[n] + (IF Pending(n) THEN 1 ELSE 0) /\ app_count'[n] \in Nat
    BY <1>3, <2>2
  <2>4. Cardinality(ListedBy(n)) <= app_count'[n]
    BY <2>1, <2>3
  <2> HIDE DEF Pending
  <2> QED
    BY <2>1, <2>3, <2>4
<1> QED
  BY <1>4, <1>5, <1>6, <1>7, <1>8 DEF JInv, Chain

\* An NP goes or comes: its counter starts again.
LEMMA CountReset ==
  ASSUME JInv, NEW n \in NPs, UNCHANGED <<node, live, overlapped>>,
         app_count' = [app_count EXCEPT ![n] = 0],
         n \notin overlapped => ListedBy(n) = {},
         \A m \in NPs : m # n /\ Pending(m) => Pending(m)'
  PROVE  CountedUnlessOverlap' /\ app_count' \in [NPs -> Nat]
         /\ \A m \in NPs : app_count'[m] <= app_count[m]
<1>1. app_count \in [NPs -> Nat] /\ Chain
  BY ChainOf DEF JInv, Typed, TypeOK
<1>2. /\ app_count' \in [NPs -> Nat]
      /\ \A m \in NPs : app_count'[m] = IF m = n THEN 0 ELSE app_count[m]
  BY <1>1
<1>3. ASSUME NEW m \in NPs \ overlapped
      PROVE  Cardinality(ListedBy(m)) <= app_count'[m] + IF Pending(m)' THEN 1 ELSE 0
  <2>1. /\ Cardinality(ListedBy(m)) <= app_count[m] + IF Pending(m) THEN 1 ELSE 0
        /\ Cardinality(ListedBy(m)) \in Nat /\ app_count[m] \in Nat
    BY <1>1, ListedFinite DEF JInv, CountedUnlessOverlap, ListedBy
  <2>2. CASE m = n
    <3>1. Cardinality(ListedBy(m)) = 0 /\ app_count'[m] = 0
      BY <1>2, <2>2, FS_EmptySet
    <3> QED
      BY <3>1
  <2>3. CASE m # n
    <3>1. app_count'[m] = app_count[m] /\ (Pending(m) => Pending(m)')
      BY <1>2, <2>3
    <3> HIDE DEF Pending
    <3> QED
      BY <2>1, <3>1
  <2> QED
    BY <2>2, <2>3
<1>4. CountedUnlessOverlap'
  BY <1>3 DEF CountedUnlessOverlap, ListedBy
<1> QED
  BY <1>1, <1>2, <1>4

LEMMA InsertStep ==
  ASSUME JInv, NEW h \in Handlers, Insert(h)
  PROVE  JInv'
<1> DEFINE n == req[h].np
<1>1. /\ Chain /\ Typed /\ h = "np_reg" /\ pc[h] = "insert" /\ n \in NPs /\ np_lock' = "free"
      /\ UNCHANGED <<node, live, head, app_lock, walk, nj, clients>>
      /\ "print" \in Places[h]
  BY ChainOf, WhoIs, RequestNp DEF JInv, Insert, At, Places
<1>2. CASE n \in np_hash
  <2>1. Done(h) /\ UNCHANGED <<hashes, walk, clients>>
    BY <1>1, <1>2 DEF Insert, hashes
  <2> QED
    BY <1>1, <2>1, GivesUp
<1>3. CASE n \notin np_hash
  <2>1. /\ np_hash' = np_hash \cup {n} /\ app_count' = [app_count EXCEPT ![n] = 0]
        /\ Moves(h, "print") /\ UNCHANGED <<cursor, overlapped>>
    BY <1>1, <1>3 DEF Insert, Moves, walk, clients
  <2>2. /\ pc' \in [Handlers -> PCs]
        /\ \A g \in Handlers : /\ pc'[g] = IF g = h THEN "print" ELSE pc[g]
                               /\ pc'[g] # "accept" => req'[g] = req[g]
    BY <1>1, <2>1, MovesPc
  <2>3. Chain'
    BY <1>1 DEF Chain, InOrder, Follows
  <2>4. n \notin overlapped => ListedBy(n) = {}
    BY <1>1, <1>3, JunctionAssumption DEF JInv, NoDanglingUnlessOverlap, ListedBy
  <2>5. \A m \in NPs : Pending(m) => Pending(m)'
    BY <1>1, <2>1, <2>2 DEF Pending
  <2>6. /\ CountedUnlessOverlap' /\ app_count' \in [NPs -> Nat]
        /\ \A m \in NPs : app_count'[m] <= app_count[m]
    BY <1>1, <2>1, <2>4, <2>5, CountReset
  <2>7. Typed' /\ CountsBounded' /\ LookedUp' /\ OverlapSeen'
    <3>1. /\ np_hash' \in SUBSET NPs /\ flag' \in BOOLEAN /\ cursor' \in DOMAIN node' \cup {Null}
          /\ app_lock' \in Handlers \cup {"free"} /\ np_lock' \in Handlers \cup {"free"}
          /\ nj' \in {"alive", "crashed", "corrupt"}
      BY <1>1, <2>1 DEF Typed, TypeOK, walk
    <3>2. np_hash \ np_hash' = {}
      BY <2>1
    <3> QED
      BY <1>1, <2>1, <2>3, <2>6, <3>1, <3>2, Rest
  <2>8. NoDanglingUnlessOverlap'
    BY <1>1, <2>1 DEF JInv, NoDanglingUnlessOverlap
  <2>9. WalkSees'
    <3>1. \A R, m : LeadsTo(R, m)' = LeadsTo(R, m)
      BY <1>1, <2>1 DEF LeadsTo, Lists
    <3>2. \A i, m : Lists(i, m)' = Lists(i, m)
      BY <1>1 DEF Lists
    <3> QED
      BY <1>1, <2>1, <2>2, <3>1, <3>2, OtherWalks
  <2> QED
    BY <2>3, <2>6, <2>7, <2>8, <2>9 DEF JInv, Chain
<1> QED
  BY <1>2, <1>3

LEMMA EraseStep ==
  ASSUME JInv, NEW h \in Handlers, Erase(h)
  PROVE  JInv'
<1> DEFINE n == req[h].np
<1>1. /\ Chain /\ Typed /\ h = "np_unreg" /\ pc[h] = "erase" /\ n \in NPs /\ np_lock' = "free"
      /\ UNCHANGED <<node, live, head, app_lock, walk, nj, clients, cursor, overlapped>>
      /\ np_hash' = np_hash \ {n} /\ app_count' = [app_count EXCEPT ![n] = 0]
      /\ Moves(h, "print") /\ "print" \in Places[h]
  BY ChainOf, WhoIs, RequestNp DEF JInv, Erase, At, Places, Moves, walk, clients
<1>2. /\ pc' \in [Handlers -> PCs]
      /\ \A g \in Handlers : /\ pc'[g] = IF g = h THEN "print" ELSE pc[g]
                             /\ pc'[g] # "accept" => req'[g] = req[g]
  BY <1>1, MovesPc
<1>3. Chain'
  BY <1>1 DEF Chain, InOrder, Follows
<1>4. n \notin overlapped => \A i \in live : ~Lists(i, n)
  BY <1>1 DEF JInv, WalkSees
<1>5. n \notin overlapped => ListedBy(n) = {}
  BY <1>4 DEF ListedBy, Lists
<1>6. \A m \in NPs : m # n /\ Pending(m) => Pending(m)'
  BY <1>1, <1>2 DEF Pending
<1>7. /\ CountedUnlessOverlap' /\ app_count' \in [NPs -> Nat]
      /\ \A m \in NPs : app_count'[m] <= app_count[m]
  BY <1>1, <1>5, <1>6, CountReset
<1>8. Typed' /\ CountsBounded' /\ LookedUp' /\ OverlapSeen'
  <2>1. /\ np_hash' \in SUBSET NPs /\ flag' \in BOOLEAN /\ cursor' \in DOMAIN node' \cup {Null}
        /\ app_lock' \in Handlers \cup {"free"} /\ np_lock' \in Handlers \cup {"free"}
        /\ nj' \in {"alive", "crashed", "corrupt"}
    BY <1>1 DEF Typed, TypeOK, walk
  <2>2. \A m \in np_hash \ np_hash' : h = "np_unreg" /\ m = req[h].np
    BY <1>1
  <2> QED
    BY <1>1, <1>3, <1>7, <2>1, <2>2, Rest
<1>9. NoDanglingUnlessOverlap'
  BY <1>1, <1>4 DEF JInv, NoDanglingUnlessOverlap, Lists
<1>10. WalkSees'
  BY <1>1, <1>2 DEF WalkSees
<1> QED
  BY <1>3, <1>7, <1>8, <1>9, <1>10 DEF JInv, Chain

LEMMA WalkStep ==
  ASSUME JInv, NEW h \in Handlers, Walk(h)
  PROVE  JInv'
<1> DEFINE s == node[cursor]
<1>0. PICK n : n = req[h].np
  OBVIOUS
<1>1. /\ Chain /\ Typed /\ h = "np_unreg" /\ pc[h] = "walk" /\ cursor # Null /\ n \in NPs
      /\ UNCHANGED <<np_hash, app_count, live, head, locks, clients, overlapped>>
      /\ cursor \in DOMAIN node
  BY <1>0, ChainOf, WhoIs, RequestNp DEF JInv, Walk, At, clients, Typed, TypeOK
<1>2. CASE Done(h) /\ UNCHANGED <<node, walk>> /\ nj' \in {nj, "crashed"}
  <2>1. UNCHANGED <<hashes, walk, clients, app_lock, np_lock>>
    BY <1>1, <1>2 DEF hashes, locks
  <2> QED
    BY <1>1, <1>2, <2>1, GivesUp
<1>3. CASE /\ n \in s.np_list \/ s.np_count = 1
           /\ node' = [node EXCEPT ![cursor] = Unlisted(s, n)]
           /\ cursor' = NextNode(s) /\ flag' = TRUE /\ Goto(h, "walk") /\ UNCHANGED nj
  <2> DEFINE list == IF s.np_count = 1 THEN {} ELSE s.np_list \ {n}
  <2>1. /\ s \in Nodes /\ s.np_count - 1 \in Int
        /\ s.next \in DOMAIN node \cup {Null} /\ cursor \in Nat
        /\ \A i \in DOMAIN node : i \in Nat
    BY <1>1, NodeFacts DEF Chain, InOrder
  <2> DEFINE c == s.np_count - 1
  <2>2. list \in SUBSET s.np_list
    OBVIOUS
  <2>3. node' = [node EXCEPT ![cursor].np_list = list, ![cursor].np_count = c]
    BY <1>3 DEF Unlisted
  <2> HIDE DEF list
  <2>4. Relisted(cursor, list, c) /\ Chain'
    <3>1. c \in Int
      BY <2>1
    <3> HIDE DEF c
    <3> QED
      BY <1>1, <2>2, <2>3, <3>1, ListShrunk
  <2>5. /\ DOMAIN node' = DOMAIN node /\ \A j \in DOMAIN node : node'[j].next = node[j].next
        /\ \A i \in live : node'[i].np_list \subseteq node[i].np_list
        /\ n \notin node'[cursor].np_list
    <3>1. n \notin list
      BY <1>3, <2>1 DEF list
    <3> QED
      BY <1>1, <2>2, <2>4, <3>1 DEF Relisted, Chain
  <2>6. Moves(h, "walk") /\ "walk" \in Places[h]
    BY <1>1, <1>3 DEF Moves, Places
  <2>7. /\ pc' \in [Handlers -> PCs]
        /\ \A g \in Handlers : /\ pc'[g] = IF g = h THEN "walk" ELSE pc[g]
                               /\ pc'[g] # "accept" => req'[g] = req[g]
    BY <1>1, <2>6, MovesPc
  <2>8. Typed' /\ CountsBounded' /\ LookedUp' /\ OverlapSeen'
    <3>1. /\ np_hash' \in SUBSET NPs /\ flag' \in BOOLEAN /\ cursor' \in DOMAIN node' \cup {Null}
          /\ app_lock' \in Handlers \cup {"free"} /\ np_lock' \in Handlers \cup {"free"}
          /\ nj' \in {"alive", "crashed", "corrupt"} /\ app_count' \in [NPs -> Nat]
          /\ \A m \in NPs : app_count'[m] <= app_count[m]
      BY <1>1, <1>3, <2>1, <2>5 DEF Typed, TypeOK, locks, NextNode
    <3>2. np_hash \ np_hash' = {}
      BY <1>1
    <3> QED
      BY <1>1, <2>4, <2>6, <3>1, <3>2, Rest
  <2>9. \A m \in NPs : Pending(m)' <=> Pending(m)
    <3>1. \A g \in Handlers : /\ pc'[g] \in {"count", "incr"} <=> pc[g] \in {"count", "incr"}
                              /\ pc'[g] \in {"count", "incr"} => req'[g] = req[g]
      BY <1>1, <2>7
    <3> QED
      BY <1>1, <3>1 DEF Pending
  <2>10. NoDanglingUnlessOverlap' /\ CountedUnlessOverlap'
    BY <1>1, <2>5, <2>8, <2>9, Shrinks
  <2>11. WalkSees'
    <3> SUFFICES ASSUME n \notin overlapped PROVE \E S \in SUBSET DOMAIN node : LeadsTo(S, n)'
      BY <1>0, <1>1, <2>5, <2>7 DEF WalkSees
    <3>1. PICK R \in SUBSET DOMAIN node : LeadsTo(R, n)
      BY <1>0, <1>1 DEF JInv, WalkSees
    <3>2. cursor' = node[cursor].next
      BY <1>3 DEF NextNode
    <3>3. \A i \in live : Lists(i, n)' => Lists(i, n) /\ i # cursor
      BY <2>5 DEF Lists
    <3>4. \A k \in R : node'[k].next = node[k].next
      BY <2>5
    <3>5. \A i \in live : Lists(i, n)' => cursor' # Null /\ cursor' <= i
      <4> SUFFICES ASSUME NEW i \in live, Lists(i, n)' PROVE cursor' # Null /\ cursor' <= i
        OBVIOUS
      <4>1. Lists(i, n) /\ cursor <= i /\ i # cursor /\ cursor \in R
        BY <1>1, <3>1, <3>3 DEF LeadsTo
      <4>2. cursor < i
        BY <1>1, <2>1, <4>1 DEF Chain
      <4> QED
        BY <3>1, <3>2, <4>1, <4>2 DEF LeadsTo
    <3>6. cursor' \in R \cup {Null}
      BY <1>1, <3>1, <3>2 DEF LeadsTo
    <3>7. LeadsTo(R, n)'
      BY <1>1, <3>1, <3>3, <3>4, <3>5, <3>6 DEF LeadsTo
    <3> QED
      BY <3>7
  <2> QED
    BY <2>4, <2>8, <2>10, <2>11 DEF JInv, Chain
<1> QED
  BY <1>0, <1>2, <1>3 DEF Walk

LEMMA AcceptStep ==
  ASSUME JInv, NEW h \in Handlers, Accept(h)
  PROVE  JInv'
<1>1. PICK r \in Requests(h) : req' = [req EXCEPT ![h] = r]
  BY DEF Accept
<1>2. /\ Chain /\ Typed /\ h \in AllHandlers /\ pc[h] = "accept" /\ sent' = sent + 1
      /\ sent < MaxRequests /\ sent \in Nat /\ pc' = [pc EXCEPT ![h] = Start[h]]
      /\ UNCHANGED <<np_hash, app_count, node, live, head, app_lock, np_lock, nj>>
      /\ overlapped' = overlapped \cup {n \in NPs : WorksOn("app_reg", n)' /\ WorksOn("np_unreg", n)'}
      /\ cursor' = IF h = "np_unreg" THEN head ELSE cursor
      /\ flag' = IF h = "np_unreg" THEN FALSE ELSE flag
  BY ChainOf, JunctionAssumption DEF JInv, Accept, At, hashes, locks, Typed, TypeOK
<1>3. /\ Start[h] \in Places[h] /\ Start[h] \in PCs /\ Start[h] \in {"find", "np_wlock", "walk"}
      /\ h \in {"app_reg", "app_unreg"} => Start[h] = "find"
      /\ h = "np_reg" => Start[h] = "np_wlock"
      /\ h = "np_unreg" => Start[h] = "walk"
  BY <1>2 DEF AllHandlers, Start, Places, PCs
<1>4. r \in [app : Apps \cup {"none"}, np : Names]
  BY DEF Requests, Names
<1>5. /\ pc' \in [Handlers -> PCs] /\ req' \in [Handlers -> [app : Apps \cup {"none"}, np : Names]]
      /\ \A g \in Handlers : /\ pc'[g] = IF g = h THEN Start[h] ELSE pc[g]
                             /\ req'[g] = IF g = h THEN r ELSE req[g]
  BY <1>1, <1>2, <1>3, <1>4 DEF Typed, TypeOK
<1>6. Chain'
  BY <1>2 DEF Chain, InOrder, Follows
<1>7. Typed'
  <2>1. /\ \A g \in Handlers : req'[g] \in Requests(g) \cup {NoReq}
        /\ sent' \in 0..MaxRequests /\ overlapped' \in SUBSET NPs
        /\ cursor' \in DOMAIN node' \cup {Null} /\ flag' \in BOOLEAN
    <3>1. \A g \in Handlers : req'[g] \in Requests(g) \cup {NoReq}
      BY <1>2, <1>5 DEF Typed, TypeOK
    <3>2. sent' \in 0..MaxRequests
      BY <1>2, JunctionAssumption
    <3>3. overlapped' \in SUBSET NPs
      BY <1>2 DEF Typed, TypeOK
    <3>4. cursor' \in DOMAIN node' \cup {Null} /\ flag' \in BOOLEAN
      BY <1>2 DEF Typed, TypeOK, Chain
    <3> QED
      BY <3>1, <3>2, <3>3, <3>4
  <2>2. TypeOK'
    BY <1>2, <1>5, <2>1 DEF Typed, TypeOK
  <2> QED
    BY <1>2, <1>3, <1>5, <2>2 DEF Typed
<1>8. CountsBounded'
  <2> SUFFICES ASSUME NEW n \in NPs PROVE app_count[n] + InHand' <= sent + 1
    BY <1>2 DEF CountsBounded
  <2>1. InHand' <= InHand + 1 /\ InHand \in Nat /\ InHand' \in Nat
    BY <1>2, <1>5 DEF InHand
  <2>2. app_count[n] + InHand <= sent /\ app_count[n] \in Nat
    BY DEF JInv, CountsBounded, Typed, TypeOK
  <2> QED
    BY <1>2, <2>1, <2>2
<1>9. LookedUp'
  BY <1>2, <1>3, <1>5 DEF JInv, LookedUp
<1>10. OverlapSeen'
  BY <1>2 DEF OverlapSeen
<1>11. NoDanglingUnlessOverlap'
  BY <1>2 DEF JInv, NoDanglingUnlessOverlap
<1>12. CountedUnlessOverlap'
  <2>1. \A n : Pending(n)' <=> Pending(n)
    <3>1. \A g \in Handlers : /\ pc'[g] \in {"count", "incr"} <=> pc[g] \in {"count", "incr"}
                              /\ pc'[g] \in {"count", "incr"} => req'[g] = req[g]
      BY <1>2, <1>3, <1>5
    <3> QED
      BY <1>2, <3>1 DEF Pending
  <2> HIDE DEF Pending
  <2>2. ASSUME NEW n \in NPs \ overlapped
        PROVE  Cardinality({k \in live : n \in node[k].np_list})
                  <= app_count[n] + IF Pending(n)' THEN 1 ELSE 0
    <3>1. Cardinality({k \in live : n \in node[k].np_list})
             <= app_count[n] + IF Pending(n) THEN 1 ELSE 0
      BY DEF JInv, CountedUnlessOverlap
    <3> QED
      BY <2>1, <3>1, Zenon
  <2> QED
    BY <1>2, <2>2 DEF CountedUnlessOverlap
<1>13. WalkSees'
  <2>1. CASE h = "np_unreg"
    <3> PICK R : R = live
      OBVIOUS
    <3>1. ASSUME NEW n PROVE LeadsTo(R, n)'
      <4>1. \A k \in live : k \in Nat /\ k # Null /\ node[k].next \in Nat
        BY <1>2, NodeFacts DEF Chain
      <4> QED
        BY <1>2, <2>1, <4>1 DEF Chain, InOrder, Follows, LeadsTo, Lists
    <3>2. R \in SUBSET DOMAIN node'
      BY <1>2 DEF Chain
    <3>3. pc'["np_unreg"] = "walk"
      BY <1>3, <1>5, <2>1
    <3> QED
      BY <3>1, <3>2, <3>3 DEF WalkSees
  <2>2. CASE h # "np_unreg"
    <3>1. \A R, n : LeadsTo(R, n)' = LeadsTo(R, n)
      BY <1>2, <2>2 DEF LeadsTo, Lists
    <3>2. \A i, n : Lists(i, n)' = Lists(i, n)
      BY <1>2 DEF Lists
    <3>3. "np_unreg" \in Handlers => /\ pc'["np_unreg"] = pc["np_unreg"]
                                    /\ req'["np_unreg"] = req["np_unreg"]
      BY <1>5, <2>2
    <3> QED
      BY <1>2, <3>1, <3>2, <3>3 DEF JInv, WalkSees
  <2> QED
    BY <2>1, <2>2
<1> QED
  BY <1>6, <1>7, <1>8, <1>9, <1>10, <1>11, <1>12, <1>13 DEF JInv, Chain

\* Nothing changes but nj.
LEMMA NjStep ==
  ASSUME JInv, UNCHANGED <<hashes, locks, pc, req, walk, clients>>,
         nj' \in {"alive", "crashed", "corrupt"}
  PROVE  JInv'
<1>1. UNCHANGED <<np_hash, app_count, node, live, head, app_lock, np_lock, pc, req, cursor, flag,
                  sent, overlapped>>
  BY DEF hashes, locks, walk, clients
<1>2. Typed' /\ CountsBounded' /\ InOrder'
  BY <1>1 DEF JInv, Typed, TypeOK, CountsBounded, InHand, InOrder, Follows
<1>3. LookedUp' /\ OverlapSeen'
  BY <1>1 DEF JInv, LookedUp, OverlapSeen, WorksOn
<1>4. WalkSees'
  BY <1>1 DEF JInv, WalkSees, LeadsTo, Lists
<1>5. NoDanglingUnlessOverlap' /\ CountedUnlessOverlap'
  BY <1>1 DEF JInv, NoDanglingUnlessOverlap, CountedUnlessOverlap, Pending
<1> QED
  BY <1>2, <1>3, <1>4, <1>5 DEF JInv

-----------------------------------------------------------------------------
LEMMA InitJInv == Init => JInv
<1> SUFFICES ASSUME Init PROVE JInv
  OBVIOUS
<1> USE DEF Init
<1>1. Typed
  <2>1. NoReq \in [app : Apps \cup {"none"}, np : Names]
    BY DEF NoReq, Names
  <2>2. \A h \in Handlers : "accept" \in Places[h]
    BY JunctionAssumption DEF AllHandlers, Places
  <2>3. node \in Seq(Nodes) /\ DOMAIN node = {} /\ sent \in 0..MaxRequests /\ app_count \in [NPs -> 0..MaxRequests]
    BY JunctionAssumption
  <2>4. TypeOK
    BY <2>3 DEF TypeOK, PCs
  <2> QED
    BY <2>1, <2>2, <2>3, <2>4 DEF Typed
<1>2. CountsBounded /\ InOrder
  BY DEF CountsBounded, InHand, InOrder
<1>3. LookedUp /\ OverlapSeen /\ WalkSees /\ NoDanglingUnlessOverlap
  BY DEF LookedUp, OverlapSeen, WorksOn, WalkSees, NoDanglingUnlessOverlap
<1>4. CountedUnlessOverlap
  <2>1. \A n \in NPs : {k \in live : n \in node[k].np_list} = {} /\ ~Pending(n) /\ app_count[n] = 0
    BY DEF Pending
  <2> QED
    BY <2>1, FS_EmptySet DEF CountedUnlessOverlap
<1> QED
  BY <1>1, <1>2, <1>3, <1>4 DEF JInv

LEMMA NextJInv == JInv /\ [Next]_vars => JInv'
<1> SUFFICES ASSUME JInv, [Next]_vars PROVE JInv'
  OBVIOUS
<1>1. CASE Corrupt
  BY <1>1, NjStep DEF Corrupt
<1>2. ASSUME NEW h \in Handlers, Accept(h) \/ Step(h) PROVE JInv'
  BY <1>2, AcceptStep, QuietSteps, AddStep, CountStep, IncrStep, DelStep, InsertStep, WalkStep, EraseStep
     DEF Step
<1>3. CASE UNCHANGED vars
  BY <1>3, NjStep DEF vars, JInv, Typed, TypeOK
<1> QED
  BY <1>1, <1>2, <1>3 DEF Next

\* The inductive invariant holds in every reachable state.
THEOREM JunctionInvariant == Spec => []JInv
BY InitJInv, NextJInv, PTL DEF Spec

\* Nodes, counters, cursor and locks are what they are meant to be; app_count never
\* exceeds the number of requests.
THEOREM JunctionTypeOK == Spec => []TypeOK
<1>1. JInv => TypeOK
  BY DEF JInv, Typed
<1> QED
  BY <1>1, JunctionInvariant, PTL

\* The nodes in the hash are linked in the order they were added.
THEOREM JunctionLinked == Spec => []Linked
<1>1. ASSUME JInv PROVE Linked
  <2>1. Chain /\ \A k \in DOMAIN node : k \in Nat /\ k # Null /\ node[k].next \in Nat
    BY <1>1, ChainOf, NodeFacts
  <2>2. head = IF live = {} THEN Null ELSE CHOOSE k \in live : \A j \in live : k <= j
    <3>1. CASE live = {}
      BY <2>1, <3>1 DEF Chain
    <3>2. CASE live # {}
      <4>1. head \in live /\ \A j \in live : head <= j
        BY <2>1, <3>2 DEF Chain, InOrder
      <4>2. \A k \in live : (\A j \in live : k <= j) => k = head
        BY <2>1, <4>1 DEF Chain
      <4> QED
        BY <3>2, <4>1, <4>2
    <3> QED
      BY <3>1, <3>2
  <2>3. ASSUME NEW k \in live
        PROVE  node[k].next = IF \A j \in live : j <= k THEN Null
                              ELSE CHOOSE i \in live : i > k /\ \A j \in live : j > k => i <= j
    <3>1. CASE \A j \in live : j <= k
      BY <2>1, <3>1 DEF Chain, InOrder, Follows
    <3>2. CASE ~\A j \in live : j <= k
      <4> DEFINE next == node[k].next
      <4>1. next \in live /\ next > k /\ \A j \in live : j > k => next <= j
        BY <2>1, <3>2 DEF Chain, InOrder, Follows
      <4>2. \A i \in live : (i > k /\ \A j \in live : j > k => i <= j) => i = next
        BY <2>1, <4>1 DEF Chain
      <4> HIDE DEF next
      <4>3. next = CHOOSE i \in live : i > k /\ \A j \in live : j > k => i <= j
        BY <4>1, <4>2
      <4> QED
        BY <3>2, <4>3 DEF next
    <3> QED
      BY <3>1, <3>2
  <2> QED
    BY <2>1, <2>2, <2>3 DEF Linked, Chain, InOrder
<1> QED
  BY <1>1, JunctionInvariant, PTL

\* No APP in the hash lists an NP that is gone, unless it was registered while the NP was
\* being unregistered, although lookup and walk hold no lock.
THEOREM JunctionNoDangling == Spec => []NoDanglingUnlessOverlap
<1>1. JInv => NoDanglingUnlessOverlap
  BY DEF JInv
<1> QED
  BY <1>1, JunctionInvariant, PTL

\* Under the same condition app_count misses no registration but the one about to be
\* counted.
THEOREM JunctionCounted == Spec => []CountedUnlessOverlap
<1>1. JInv => CountedUnlessOverlap
  BY DEF JInv
<1> QED
  BY <1>1, JunctionInvariant, PTL

-----------------------------------------------------------------------------
(* np_count and the lists.  A name is counted after it was added, by who   *)
(* holds app_hash_lock; unregister_np takes names out without the lock.    *)

Holding == {"add", "count", "del"}

LockHeld == \A h \in Handlers : pc[h] \in Holding => app_lock = h

\* An APP has one node.
OneNode == \A j, k \in live : node[j].data = node[k].data => j = k

CountInv == LockHeld /\ OneNode /\ NpCountCovers

LEMMA PcAfter ==
  ASSUME Typed, NEW h \in Handlers, NEW place, Moves(h, place)
  PROVE  /\ \A g \in Handlers : /\ pc'[g] = IF g = h THEN place ELSE pc[g]
                                /\ g # h => req'[g] = req[g]
         /\ place # "accept" => req' = req
BY DEF Moves, Goto, Done, Typed, TypeOK

LEMMA UncountedIs ==
  ASSUME Typed, NEW k
  PROVE  Uncounted(k) <=> /\ "app_reg" \in Handlers /\ pc["app_reg"] = "count"
                          /\ k \in live /\ node[k].data = req["app_reg"].app
<1>1. \A h \in Handlers : pc[h] = "count" => h = "app_reg"
  BY WhoIs
<1> QED
  BY <1>1 DEF Uncounted, NodesOf

\* Counts without its IF.
CountsPlain ==
    \A k \in DOMAIN node :
       /\ node[k].np_count \in Int /\ Cardinality(node[k].np_list) \in Nat
       /\ Uncounted(k) => Counts(k) = node[k].np_count + 1
       /\ ~Uncounted(k) => Counts(k) = node[k].np_count

LEMMA CountsIs == Chain => CountsPlain
<1> SUFFICES ASSUME Chain PROVE CountsPlain
  OBVIOUS
<1>1. \A k \in DOMAIN node : node[k].np_count \in Int /\ Cardinality(node[k].np_list) \in Nat
  BY NodeFacts
<1>2. ASSUME NEW k \in DOMAIN node PROVE Uncounted(k) => Counts(k) = node[k].np_count + 1
  BY Zenon DEF Counts
<1>3. ASSUME NEW k \in DOMAIN node, ~Uncounted(k) PROVE Counts(k) = node[k].np_count
  <2>1. Counts(k) = node[k].np_count + 0
    BY <1>3, Zenon DEF Counts
  <2> HIDE DEF Counts
  <2> QED
    BY <1>1, <2>1
<1> QED
  BY <1>1, <1>2, <1>3 DEF CountsPlain

\* Every handler that holds the lock is where it says.
LEMMA LockStep ==
  ASSUME LockHeld, NEW h \in Handlers, NEW place,
         \A g \in Handlers : pc'[g] = IF g = h THEN place ELSE pc[g],
         \/ app_lock' = app_lock /\ (place \in Holding => pc[h] \in Holding)
         \/ app_lock = "free" /\ app_lock' = h
         \/ app_lock' = "free" /\ pc[h] \in Holding /\ place \notin Holding
  PROVE  LockHeld'
<1>1. "free" \notin Handlers
  BY JunctionAssumption DEF AllHandlers
<1> QED
  BY <1>1 DEF LockHeld

\* A node whose list and counter stay, or fall together, is covered as before.
LEMMA CoversStep ==
  ASSUME Chain, Chain', NpCountCovers,
         \A k \in DOMAIN node' :
            \/ /\ k \in DOMAIN node /\ (Uncounted(k) => Uncounted(k)')
               /\ node'[k].np_list = node[k].np_list /\ node'[k].np_count = node[k].np_count
            \/ /\ k \in DOMAIN node /\ (Uncounted(k) => Uncounted(k)')
               /\ Cardinality(node'[k].np_list) <= Cardinality(node[k].np_list) - 1
               /\ node'[k].np_count = node[k].np_count - 1
            \/ Counts(k)' >= Cardinality(node'[k].np_list)
  PROVE  NpCountCovers'
<1>1. CountsPlain /\ CountsPlain'
  <2>1. Chain' => CountsPlain'
    BY CountsIs, PTL
  <2> QED
    BY <2>1, CountsIs
<1> SUFFICES ASSUME NEW k \in DOMAIN node' PROVE Counts(k)' >= Cardinality(node'[k].np_list)
  BY DEF NpCountCovers
<1>2. k \in DOMAIN node => Counts(k) >= Cardinality(node[k].np_list)
  BY DEF NpCountCovers
<1>3. CASE Counts(k)' >= Cardinality(node'[k].np_list)
  BY <1>3
<1>4. ASSUME k \in DOMAIN node, Uncounted(k) => Uncounted(k)', NEW d \in {0, 1},
             Cardinality(node'[k].np_list) <= Cardinality(node[k].np_list) - d,
             node'[k].np_count = node[k].np_count - d
      PROVE  Counts(k)' >= Cardinality(node'[k].np_list)
  <2>1. /\ node[k].np_count \in Int /\ Cardinality(node[k].np_list) \in Nat
        /\ node'[k].np_count \in Int /\ Cardinality(node'[k].np_list) \in Nat
    BY <1>1, <1>4 DEF CountsPlain
  <2>2. CASE Uncounted(k)
    <3>1. Counts(k) = node[k].np_count + 1 /\ Counts(k)' = node'[k].np_count + 1
      BY <1>1, <1>4, <2>2 DEF CountsPlain
    <3> HIDE DEF Counts
    <3> QED
      BY <1>2, <1>4, <2>1, <3>1
  <2>3. CASE ~Uncounted(k)
    <3>1. /\ Counts(k) = node[k].np_count
          /\ Counts(k)' \in {node'[k].np_count, node'[k].np_count + 1}
      BY <1>1, <1>4, <2>3 DEF CountsPlain
    <3> HIDE DEF Counts
    <3> QED
      BY <1>2, <1>4, <2>1, <3>1
  <2> QED
    BY <2>2, <2>3
<1>5. CASE /\ k \in DOMAIN node /\ (Uncounted(k) => Uncounted(k)')
           /\ node'[k].np_list = node[k].np_list /\ node'[k].np_count = node[k].np_count
  <2>1. /\ Cardinality(node'[k].np_list) <= Cardinality(node[k].np_list) - 0
        /\ node'[k].np_count = node[k].np_count - 0
    BY <1>1, <1>5 DEF CountsPlain
  <2> QED
    BY <1>4, <1>5, <2>1
<1>6. CASE /\ k \in DOMAIN node /\ (Uncounted(k) => Uncounted(k)')
           /\ Cardinality(node'[k].np_list) <= Cardinality(node[k].np_list) - 1
           /\ node'[k].np_count = node[k].np_count - 1
  BY <1>4, <1>6
<1> QED
  BY <1>3, <1>5, <1>6

LEMMA QuietCount ==
  ASSUME JInv, JInv', CountInv, NEW h \in Handlers, NEW place, pc[h] # "count", place # "count",
         \A g \in Handlers : /\ pc'[g] = IF g = h THEN place ELSE pc[g]
                             /\ g # h => req'[g] = req[g],
         UNCHANGED <<node, live>>, LockHeld'
  PROVE  CountInv'
<1>1. Chain /\ Chain'
  <2>1. JInv' => Chain'
    BY ChainOf, PTL
  <2> QED
    BY <2>1, ChainOf
<1>2. \A k : Uncounted(k) => Uncounted(k)'
  BY DEF Uncounted, NodesOf
<1>3. NpCountCovers'
  BY <1>1, <1>2, CoversStep DEF CountInv
<1> QED
  BY <1>3 DEF CountInv, OneNode

\* The steps that leave the nodes alone.
LEMMA QuietCounts ==
  ASSUME JInv, JInv', CountInv, NEW h \in Handlers,
         \/ Accept(h) \/ Find(h) \/ AppWlock(h) \/ NpWlock(h) \/ WalkEnd(h) \/ PrintNps(h)
         \/ Incr(h) \/ Insert(h) \/ Erase(h)
  PROVE  CountInv'
<1> USE DEF At
<1>1. Typed /\ LockHeld /\ h \in AllHandlers /\ pc[h] \in Places[h]
  BY JunctionAssumption DEF JInv, CountInv, Typed
<1>2. CASE Accept(h)
  <2>1. /\ pc' = [pc EXCEPT ![h] = Start[h]] /\ pc[h] = "accept"
        /\ \E r : req' = [req EXCEPT ![h] = r]
        /\ UNCHANGED <<node, live, app_lock>> /\ Start[h] \notin Holding
    BY <1>1, <1>2 DEF Accept, hashes, locks, Start, AllHandlers, Holding
  <2>2. \A g \in Handlers : /\ pc'[g] = IF g = h THEN Start[h] ELSE pc[g]
                            /\ g # h => req'[g] = req[g]
    BY <1>1, <2>1 DEF Typed, TypeOK
  <2>3. LockHeld'
    BY <1>1, <2>1, <2>2, LockStep
  <2> QED
    BY <2>1, <2>2, <2>3, QuietCount DEF Holding
<1>3. ASSUME NEW place, Moves(h, place), place \notin Holding \/ pc[h] = "app_wlock",
             pc[h] # "count", place # "count", UNCHANGED <<node, live>>,
             \/ app_lock' = app_lock /\ place \notin Holding
             \/ app_lock = "free" /\ app_lock' = h
      PROVE  CountInv'
  <2>1. \A g \in Handlers : /\ pc'[g] = IF g = h THEN place ELSE pc[g]
                            /\ g # h => req'[g] = req[g]
    BY <1>1, <1>3, PcAfter
  <2>2. LockHeld'
    BY <1>1, <1>3, <2>1, LockStep
  <2> QED
    BY <1>3, <2>1, <2>2, QuietCount
<1>4. CASE AppWlock(h)
  <2>1. PICK place : Moves(h, place) /\ place \in {"add", "del"}
    BY <1>4 DEF AppWlock, Moves
  <2> QED
    BY <1>3, <1>4, <2>1 DEF AppWlock, hashes
<1>5. CASE Find(h) \/ NpWlock(h) \/ WalkEnd(h) \/ PrintNps(h) \/ Incr(h) \/ Insert(h) \/ Erase(h)
  <2>1. /\ pc[h] # "count" /\ UNCHANGED <<node, live, app_lock>>
        /\ \E place : Moves(h, place) /\ place \notin Holding
    <3>1. CASE Find(h)
      BY <3>1 DEF Find, Moves, hashes, locks, Holding
    <3>2. CASE NpWlock(h)
      BY <3>2 DEF NpWlock, Moves, hashes, Holding
    <3>3. CASE WalkEnd(h)
      BY <3>3 DEF WalkEnd, Moves, hashes, locks, Holding
    <3>4. CASE PrintNps(h)
      BY <3>4 DEF PrintNps, Moves, hashes, locks, Holding
    <3>5. CASE Incr(h)
      BY <3>5 DEF Incr, Moves, locks, Holding
    <3>6. CASE Insert(h)
      BY <3>6 DEF Insert, Moves, Holding
    <3>7. CASE Erase(h)
      BY <3>7 DEF Erase, Moves, Holding
    <3> QED
      BY <1>5, <3>1, <3>2, <3>3, <3>4, <3>5, <3>6, <3>7
  <2> QED
    BY <1>3, <2>1 DEF Holding
<1> QED
  BY <1>2, <1>4, <1>5


LEMMA AddCount ==
  ASSUME JInv, JInv', CountInv, NEW h \in Handlers, Add(h)
  PROVE  CountInv'
<1> DEFINE a == req[h].app
           n == req[h].np
<1>1. /\ Chain /\ Chain' /\ Typed /\ Typed' /\ LockHeld /\ OneNode /\ NpCountCovers
      /\ h = "app_reg" /\ pc[h] = "add" /\ a \in Apps /\ n \in Names
  <2>1. JInv' => Chain'
    BY ChainOf, PTL
  <2> QED
    BY <2>1, ChainOf, WhoIs, RequestNp DEF JInv, Add, At, CountInv
<1>2. ASSUME NodesOf(a) = {}, AppendNode(a, n), Goto(h, "count"), UNCHANGED app_lock PROVE CountInv'
  <2>1. PICK new : Appended(new, a, n)
    BY <1>1, <1>2, NodeAppended
  <2>2. /\ \A g \in Handlers : pc'[g] = IF g = h THEN "count" ELSE pc[g]
        /\ req' = req
    BY <1>1, <1>2, PcAfter DEF Moves
  <2>3. /\ node'[new].data = a /\ node'[new].np_list = {n} /\ node'[new].np_count = 0
        /\ new \in live' /\ live \subseteq DOMAIN node /\ new \notin live
        /\ DOMAIN node' = DOMAIN node \cup {new} /\ live' = live \cup {new}
        /\ \A k \in DOMAIN node : /\ node'[k].data = node[k].data
                                  /\ node'[k].np_list = node[k].np_list
                                  /\ node'[k].np_count = node[k].np_count
    BY <1>1, <2>1 DEF Appended, Chain
  <2>4. LockHeld'
    BY <1>1, <1>2, <2>2, LockStep DEF Holding
  <2>5. OneNode'
    BY <1>1, <1>2, <2>3 DEF OneNode, NodesOf
  <2>6. \A k : Uncounted(k) => Uncounted(k)'
    BY <1>1, UncountedIs
  <2>7. Counts(new)' >= Cardinality(node'[new].np_list)
    <3>1. Uncounted(new)'
      BY <1>1, <2>2, <2>3 DEF Uncounted, NodesOf
    <3>2. Counts(new)' = node'[new].np_count + 1
      BY <3>1, Zenon DEF Counts
    <3>3. Cardinality({n}) = 1
      BY FS_Singleton
    <3> HIDE DEF Counts
    <3> QED
      BY <2>3, <3>2, <3>3
  <2> HIDE DEF Uncounted, Counts
  <2>8. NpCountCovers'
    BY <1>1, <2>3, <2>6, <2>7, CoversStep
  <2> QED
    BY <2>4, <2>5, <2>8 DEF CountInv
<1>3. ASSUME NEW k \in NodesOf(a), n \notin node[k].np_list, Goto(h, "count"),
             node' = [node EXCEPT ![k].np_list = @ \cup {n}],
             UNCHANGED <<live, head, app_lock>>
      PROVE  CountInv'
  <2> DEFINE list == node[k].np_list \cup {n}
             c == node[k].np_count
  <2>1. /\ k \in live /\ k \in DOMAIN node /\ node[k].np_list \in SUBSET Names
        /\ IsFiniteSet(node[k].np_list) /\ c \in Int /\ node[k].data = a
    BY <1>1, NodeFacts DEF Chain, NodesOf
  <2>2. /\ list \in SUBSET Names /\ Cardinality(list) = Cardinality(node[k].np_list) + 1
        /\ Cardinality(node[k].np_list) \in Nat
    BY <1>1, <1>3, <2>1, FS_AddElement, FS_CardinalityType
  <2>3. node' = [node EXCEPT ![k].np_list = list, ![k].np_count = c]
    BY <1>1, <1>3, <2>1, ListChanged
  <2> HIDE DEF list
  <2>4. Relisted(k, list, c)
    <3>1. PICK d \in Int : d = c
      BY <2>1
    <3> HIDE DEF c
    <3> QED
      BY <1>1, <1>3, <2>1, <2>2, <2>3, <3>1, NodeRelisted
  <2>5. /\ \A g \in Handlers : pc'[g] = IF g = h THEN "count" ELSE pc[g]
        /\ req' = req
    BY <1>1, <1>3, PcAfter DEF Moves
  <2>6. LockHeld'
    BY <1>1, <1>3, <2>5, LockStep DEF Holding
  <2>7. OneNode'
    BY <1>1, <1>3, <2>4 DEF OneNode, Relisted, Chain
  <2>8. \A j : Uncounted(j) => Uncounted(j)'
    BY <1>1, UncountedIs
  <2>9. Counts(k)' >= Cardinality(node'[k].np_list)
    <3>1. Uncounted(k)'
      BY <1>1, <1>3, <2>1, <2>4, <2>5 DEF Uncounted, NodesOf, Relisted
    <3>2. Counts(k)' = node'[k].np_count + 1
      BY <3>1, Zenon DEF Counts
    <3>3. Counts(k) >= Cardinality(node[k].np_list) /\ ~Uncounted(k)
      BY <1>1, <2>1, UncountedIs DEF NpCountCovers
    <3>4. Counts(k) = c
      BY <1>1, <2>1, <3>3, CountsIs DEF CountsPlain
    <3> HIDE DEF Counts
    <3> QED
      BY <2>1, <2>2, <2>4, <3>2, <3>3, <3>4 DEF Relisted
  <2> HIDE DEF Uncounted, Counts
  <2>10. NpCountCovers'
    BY <1>1, <2>4, <2>8, <2>9, CoversStep DEF Relisted
  <2> QED
    BY <2>6, <2>7, <2>10 DEF CountInv
<1>4. ASSUME Done(h), UNCHANGED <<node, live>>, app_lock' = "free" PROVE CountInv'
  <2>1. \A g \in Handlers : /\ pc'[g] = IF g = h THEN "accept" ELSE pc[g]
                            /\ g # h => req'[g] = req[g]
    BY <1>1, <1>4, PcAfter DEF Moves
  <2>2. LockHeld'
    BY <1>1, <1>4, <2>1, LockStep DEF Holding
  <2> QED
    BY <1>1, <1>4, <2>1, <2>2, QuietCount
<1> QED
  BY <1>2, <1>3, <1>4 DEF Add

LEMMA CountCount ==
  ASSUME JInv, JInv', CountInv, NEW h \in Handlers, Count(h)
  PROVE  CountInv'
<1> DEFINE a == req[h].app
<1>1. /\ Chain /\ Chain' /\ Typed /\ Typed' /\ LockHeld /\ OneNode /\ NpCountCovers
      /\ h = "app_reg" /\ pc[h] = "count" /\ app_lock' = "free" /\ live' = live
      /\ Goto(h, "incr")
  <2>1. JInv' => Chain'
    BY ChainOf, PTL
  <2> QED
    BY <2>1, ChainOf, WhoIs DEF JInv, Count, At, CountInv
<1>2. PICK k \in NodesOf(a) : node' = [node EXCEPT ![k].np_count = @ + 1]
  BY DEF Count
<1>3. k \in live /\ k \in DOMAIN node /\ node[k].np_count \in Int /\ node[k].data = a
  BY <1>1, NodeFacts DEF Chain, NodesOf
<1>4. PICK c \in Int : c = node[k].np_count + 1 /\ Relisted(k, node[k].np_list, c)
  <2>1. PICK c \in Int : c = node[k].np_count + 1
    BY <1>3
  <2>2. node' = [node EXCEPT ![k].np_list = node[k].np_list, ![k].np_count = c]
    BY <1>1, <1>2, <1>3, <2>1, CountChanged
  <2>3. UNCHANGED <<live, head>>
    BY DEF Count
  <2> QED
    BY <1>1, <1>3, <2>1, <2>2, <2>3, ListShrunk
<1>5. /\ \A g \in Handlers : pc'[g] = IF g = h THEN "incr" ELSE pc[g]
      /\ req' = req
  BY <1>1, PcAfter DEF Moves
<1>6. LockHeld'
  BY <1>1, <1>5, LockStep DEF Holding
<1>7. OneNode'
  BY <1>1, <1>4 DEF OneNode, Relisted, Chain
<1>8. \A j \in DOMAIN node : j # k => ~Uncounted(j)
  BY <1>1, <1>3, UncountedIs DEF OneNode
<1>9. Counts(k)' >= Cardinality(node'[k].np_list)
  <2>1. Counts(k) >= Cardinality(node[k].np_list) /\ Uncounted(k)
    BY <1>1, <1>3, UncountedIs DEF NpCountCovers
  <2>2. Counts(k) = c /\ Cardinality(node[k].np_list) \in Nat
    BY <1>1, <1>3, <1>4, <2>1, CountsIs DEF CountsPlain
  <2>3. Counts(k)' = node'[k].np_count + 1 \/ Counts(k)' = node'[k].np_count + 0
    BY Zenon DEF Counts
  <2> HIDE DEF Counts
  <2> QED
    BY <1>4, <2>1, <2>2, <2>3 DEF Relisted
<1> HIDE DEF Uncounted, Counts
<1>10. NpCountCovers'
  BY <1>1, <1>4, <1>8, <1>9, CoversStep DEF Relisted
<1> QED
  BY <1>6, <1>7, <1>10 DEF CountInv

\* A list that loses its name, or all of the one or no name it has, or of two names of
\* which one is not counted.
LEMMA DropCount ==
  ASSUME Chain, Chain', Typed, Typed', NpCountCovers, OneNode, NEW k \in DOMAIN node, NEW n,
         NEW list, NEW c, Relisted(k, list, c), c = node[k].np_count - 1,
         \/ list = {} /\ node[k].np_count = 1
         \/ list = node[k].np_list \ {n} /\ n \in node[k].np_list,
         \A j : Uncounted(j) => Uncounted(j)'
  PROVE  NpCountCovers' /\ OneNode'
<1>1. OneNode'
  BY DEF OneNode, Relisted, Chain
<1>2. CASE list = {} /\ node[k].np_count = 1
  <2>1. Counts(k)' >= Cardinality(node'[k].np_list)
    <3>1. Cardinality(node'[k].np_list) = 0 /\ node'[k].np_count = 0
      BY <1>2, FS_EmptySet DEF Relisted
    <3>2. Counts(k)' = node'[k].np_count + 1 \/ Counts(k)' = node'[k].np_count + 0
      BY Zenon DEF Counts
    <3> HIDE DEF Counts
    <3> QED
      BY <3>1, <3>2
  <2> HIDE DEF Uncounted, Counts
  <2> QED
    BY <1>1, <2>1, CoversStep DEF Relisted
<1>3. CASE list = node[k].np_list \ {n} /\ n \in node[k].np_list
  <2>1. IsFiniteSet(node[k].np_list) /\ Cardinality(node[k].np_list) \in Nat
    BY NodeFacts
  <2>2. Cardinality(node[k].np_list \ {n}) = Cardinality(node[k].np_list) - 1
    BY <1>3, <2>1, FS_RemoveElement
  <2>3. /\ Cardinality(node'[k].np_list) <= Cardinality(node[k].np_list) - 1
        /\ node'[k].np_count = node[k].np_count - 1
    BY <1>3, <2>1, <2>2 DEF Relisted
  <2> HIDE DEF Uncounted, Counts
  <2>4. NpCountCovers'
    BY <2>3, CoversStep DEF Relisted
  <2> QED
    BY <1>1, <2>4
<1> QED
  BY <1>2, <1>3

LEMMA DelCount ==
  ASSUME JInv, JInv', CountInv, NEW h \in Handlers, Del(h)
  PROVE  CountInv'
<1> DEFINE a == req[h].app
           n == req[h].np
<1>1. /\ Chain /\ Chain' /\ Typed /\ Typed' /\ LockHeld /\ OneNode /\ NpCountCovers
      /\ h = "app_unreg" /\ pc[h] = "del" /\ app_lock' = "free"
  <2>1. JInv' => Chain'
    BY ChainOf, PTL
  <2> QED
    BY <2>1, ChainOf, WhoIs DEF JInv, Del, At, CountInv
\* Nobody is adding a name while this handler holds the lock.
<1>2. \A k : ~Uncounted(k)
  <2>1. "app_reg" \in Handlers => pc["app_reg"] # "count"
    BY <1>1 DEF LockHeld, Holding
  <2> QED
    BY <1>1, <2>1, UncountedIs
<1>3. ASSUME NEW place, Moves(h, place), place \in {"print", "accept"}
      PROVE  LockHeld' /\ \A g \in Handlers : /\ pc'[g] = IF g = h THEN place ELSE pc[g]
                                              /\ g # h => req'[g] = req[g]
  <2>1. \A g \in Handlers : /\ pc'[g] = IF g = h THEN place ELSE pc[g]
                            /\ g # h => req'[g] = req[g]
    BY <1>1, <1>3, PcAfter
  <2> QED
    BY <1>1, <1>3, <2>1, LockStep DEF Holding
<1>4. ASSUME NEW k \in NodesOf(a), UnlinkNode(k), Goto(h, "print")
      PROVE  CountInv'
  <2>1. k \in live /\ Unlinked(k)
    BY <1>1, <1>4, NodeUnlinked DEF NodesOf
  <2>2. LockHeld'
    BY <1>3, <1>4 DEF Moves
  <2>3. OneNode'
    BY <1>1, <2>1 DEF OneNode, Unlinked, Chain
  <2>4. NpCountCovers'
    <3> HIDE DEF Uncounted, Counts
    <3> QED
      BY <1>1, <1>2, <2>1, CoversStep DEF Unlinked
  <2> QED
    BY <2>2, <2>3, <2>4 DEF CountInv
<1>5. ASSUME NEW k \in NodesOf(a), n \in node[k].np_list, Goto(h, "print"),
             node' = [node EXCEPT ![k].np_list = @ \ {n}, ![k].np_count = @ - 1],
             UNCHANGED <<live, head>>
      PROVE  CountInv'
  <2>1. k \in DOMAIN node /\ node[k].np_count \in Int
    BY <1>1, NodeFacts DEF Chain, NodesOf
  <2>2. PICK list, c : list = node[k].np_list \ {n} /\ c = node[k].np_count - 1
    OBVIOUS
  <2>3. c \in Int /\ list \in SUBSET node[k].np_list
    BY <2>1, <2>2
  <2>4. node' = [node EXCEPT ![k].np_list = list, ![k].np_count = c]
    BY <1>5, <2>2, Zenon
  <2>5. Relisted(k, list, c)
    BY <1>1, <1>5, <2>1, <2>3, <2>4, ListShrunk
  <2>6. NpCountCovers' /\ OneNode'
    BY <1>1, <1>2, <1>5, <2>1, <2>2, <2>5, DropCount
  <2>7. LockHeld'
    BY <1>3, <1>5 DEF Moves
  <2> QED
    BY <2>6, <2>7 DEF CountInv
<1>6. ASSUME Done(h), UNCHANGED <<node, live>> PROVE CountInv'
  <2>1. LockHeld' /\ \A g \in Handlers : /\ pc'[g] = IF g = h THEN "accept" ELSE pc[g]
                                         /\ g # h => req'[g] = req[g]
    BY <1>3, <1>6 DEF Moves
  <2> QED
    BY <1>1, <1>6, <2>1, QuietCount
<1> QED
  BY <1>4, <1>5, <1>6 DEF Del

LEMMA WalkCount ==
  ASSUME JInv, JInv', CountInv, NEW h \in Handlers, Walk(h)
  PROVE  CountInv'
<1> DEFINE s == node[cursor]
           n == req[h].np
<1>1. /\ Chain /\ Chain' /\ Typed /\ Typed' /\ LockHeld /\ OneNode /\ NpCountCovers
      /\ pc[h] = "walk" /\ UNCHANGED <<live, head, app_lock>> /\ cursor \in DOMAIN node
  <2>1. JInv' => Chain'
    BY ChainOf, PTL
  <2> QED
    BY <2>1, ChainOf DEF JInv, Walk, At, locks, CountInv, Typed, TypeOK
<1>2. ASSUME NEW place, Moves(h, place), place \in {"walk", "accept"}
      PROVE  LockHeld' /\ \A g \in Handlers : /\ pc'[g] = IF g = h THEN place ELSE pc[g]
                                              /\ g # h => req'[g] = req[g]
  <2>1. \A g \in Handlers : /\ pc'[g] = IF g = h THEN place ELSE pc[g]
                            /\ g # h => req'[g] = req[g]
    BY <1>1, <1>2, PcAfter
  <2> QED
    BY <1>1, <1>2, <2>1, LockStep DEF Holding
<1>3. CASE Done(h) /\ UNCHANGED node
  <2>1. LockHeld' /\ \A g \in Handlers : /\ pc'[g] = IF g = h THEN "accept" ELSE pc[g]
                                         /\ g # h => req'[g] = req[g]
    BY <1>2, <1>3 DEF Moves
  <2> QED
    BY <1>1, <1>3, <2>1, QuietCount
<1>4. CASE /\ n \in s.np_list \/ s.np_count = 1
           /\ node' = [node EXCEPT ![cursor] = Unlisted(s, n)] /\ Goto(h, "walk")
  <2>1. s.np_count \in Int
    BY <1>1, NodeFacts
  <2>2. PICK list, c : /\ list = IF s.np_count = 1 THEN {} ELSE s.np_list \ {n}
                       /\ c = s.np_count - 1
    OBVIOUS
  <2>3. c \in Int /\ list \in SUBSET s.np_list
    BY <2>1, <2>2
  <2>4. node' = [node EXCEPT ![cursor].np_list = list, ![cursor].np_count = c]
    BY <1>4, <2>2 DEF Unlisted
  <2>5. Relisted(cursor, list, c)
    BY <1>1, <2>3, <2>4, ListShrunk
  <2>6. LockHeld' /\ \A g \in Handlers : /\ pc'[g] = IF g = h THEN "walk" ELSE pc[g]
                                         /\ g # h => req'[g] = req[g]
    BY <1>2, <1>4 DEF Moves
  <2>7. \A j : Uncounted(j) => Uncounted(j)'
    <3>1. \A j \in live : node'[j].data = node[j].data
      BY <1>1, <2>5 DEF Relisted, Chain
    <3> QED
      BY <1>1, <2>6, <3>1 DEF Uncounted, NodesOf
  <2>8. \/ list = {} /\ s.np_count = 1
        \/ list = s.np_list \ {n} /\ n \in s.np_list
    BY <1>4, <2>2
  <2>9. NpCountCovers' /\ OneNode'
    BY <1>1, <2>2, <2>5, <2>7, <2>8, DropCount
  <2> QED
    BY <2>6, <2>9 DEF CountInv
<1> QED
  BY <1>3, <1>4 DEF Walk

LEMMA NextCountInv == JInv /\ JInv' /\ CountInv /\ [Next]_vars => CountInv'
<1> SUFFICES ASSUME JInv, JInv', CountInv, [Next]_vars PROVE CountInv'
  OBVIOUS
<1>1. CASE Corrupt \/ UNCHANGED vars
  BY <1>1 DEF Corrupt, vars, hashes, locks, CountInv, LockHeld, OneNode, NpCountCovers, Counts,
              Uncounted, NodesOf
<1>2. ASSUME NEW h \in Handlers, Accept(h) \/ Step(h) PROVE CountInv'
  BY <1>2, QuietCounts, AddCount, CountCount, DelCount, WalkCount DEF Step
<1> QED
  BY <1>1, <1>2 DEF Next

LEMMA InitCountInv == Init => CountInv
BY DEF Init, CountInv, LockHeld, OneNode, NpCountCovers, Holding

\* np_count is never less than the length of the list, the name about to be counted taken
\* into account, however the handlers interleave.
THEOREM JunctionNpCount == Spec => []NpCountCovers
<1>1. Spec => []CountInv
  BY InitJInv, NextJInv, InitCountInv, NextCountInv, PTL DEF Spec
<1>2. CountInv => NpCountCovers
  BY DEF CountInv
<1> QED
  BY <1>1, <1>2, PTL

-----------------------------------------------------------------------------
(* Without unregister_np the threads implement Registry.  First the order  *)
(* of the nodes in the hash.                                               *)

\* s lists the elements of S in ascending order.
Sorted(s, S) == /\ s \in Seq(S)
                /\ \A k \in S : \E i \in 1..Len(s) : s[i] = k
                /\ \A i, j \in 1..Len(s) : i < j => s[i] < s[j]

\* The first place in which two such sequences differ is none.
LEMMA SortedFirst ==
    ASSUME NEW S \in SUBSET Nat, NEW s, NEW u, Sorted(s, S), Sorted(u, S), Len(s) = Len(u),
           NEW m \in 1..Len(s), \A i \in 1..Len(s) : i < m => s[i] = u[i]
    PROVE  ~(s[m] < u[m])
<1> SUFFICES ASSUME s[m] < u[m] PROVE FALSE
  OBVIOUS
<1>1. /\ Len(s) \in Nat /\ \A i \in 1..Len(s) : s[i] \in S /\ u[i] \in S /\ s[i] \in Nat /\ u[i] \in Nat
  BY LenProperties, ElementOfSeq DEF Sorted
<1>2. PICK j \in 1..Len(s) : u[j] = s[m]
  BY <1>1 DEF Sorted
<1>3. CASE j < m
  <2>1. s[j] = s[m] /\ s[j] < s[m]
    BY <1>2, <1>3 DEF Sorted
  <2> QED
    BY <1>1, <2>1
<1>4. CASE j > m
  <2>1. u[m] < u[j]
    BY <1>2, <1>4 DEF Sorted
  <2> QED
    BY <1>1, <1>2, <2>1
<1>5. CASE j = m
  BY <1>1, <1>2, <1>5
<1> QED
  BY <1>1, <1>3, <1>4, <1>5

LEMMA SortedOnce ==
    ASSUME NEW S \in SUBSET Nat, NEW s, NEW u, Sorted(s, S), Sorted(u, S), Len(s) = Len(u)
    PROVE  s = u
<1> DEFINE D == {i \in 1..Len(s) : s[i] # u[i]}
<1>1. s \in Seq(S) /\ u \in Seq(S) /\ Len(s) \in Nat
  BY LenProperties DEF Sorted
<1>2. D = {}
  <2> SUFFICES ASSUME D # {} PROVE FALSE
    OBVIOUS
  <2>1. D \subseteq Nat
    OBVIOUS
  <2>2. PICK m \in D : \A j \in D : <<j, m>> \notin OpToRel(<, Nat)
    <3> HIDE DEF D
    <3> QED
      BY <2>1, WFMin, NatLessThanWellFounded, Zenon
  <2>3. ASSUME NEW i \in 1..Len(s), i < m PROVE s[i] = u[i]
    <3>1. i \in Nat /\ m \in Nat /\ <<i, m>> \in Nat \X Nat
      OBVIOUS
    <3>2. <<i, m>> \in OpToRel(<, Nat)
      BY <2>3, <3>1 DEF OpToRel
    <3> QED
      BY <2>2, <3>2
  <2>4. m \in 1..Len(s) /\ s[m] # u[m]
    OBVIOUS
  <2>5. s[m] \in Nat /\ u[m] \in Nat
    BY <1>1, <2>4, ElementOfSeq
  <2>6. ~(s[m] < u[m])
    BY <2>3, <2>4, SortedFirst
  <2>7. ~(u[m] < s[m])
    BY <2>3, <2>4, SortedFirst
  <2> QED
    BY <2>4, <2>5, <2>6, <2>7
<1> QED
  BY <1>1, <1>2, SeqEqual

\* So it is the sequence that Ascending chooses.
LEMMA AscendingIs ==
    ASSUME NEW S \in SUBSET Nat, NEW s, Sorted(s, S)
    PROVE  Ascending(S) = s
<1> DEFINE n == Len(s)
<1>1. n \in Nat /\ s \in [1..n -> S] /\ \A i \in 1..n : s[i] \in Nat
  BY LenProperties, ElementOfSeq DEF Sorted
<1>2. \A i, j \in 1..n : s[i] = s[j] => i = j
  BY <1>1 DEF Sorted
<1>3. IsFiniteSet(1..n) /\ Cardinality(1..n) = n
  BY <1>1, FS_Interval
<1>4. IsFiniteSet(S) /\ Cardinality(S) \in Nat
  <2>1. CASE n = 0
    <3>1. S = {}
      BY <2>1 DEF Sorted
    <3> QED
      BY <3>1, FS_EmptySet
  <2>2. CASE n # 0
    <3>1. PICK top \in Nat : top = s[n]
      BY <1>1, <2>2
    <3>2. \A k \in S : k <= top
      BY <1>1, <2>2, <3>1 DEF Sorted
    <3>3. IsFiniteSet(S)
      BY <3>2, FS_BoundedSetOfNaturals
    <3> QED
      BY <3>3, FS_CardinalityType
  <2> QED
    BY <2>1, <2>2, FS_CardinalityType
<1>5. Cardinality(S) = n
  <2>1. ~(Cardinality(S) < n)
    <3> SUFFICES ASSUME Cardinality(S) < n PROVE FALSE
      OBVIOUS
    <3>1. \E i, j \in 1..n : i # j /\ s[i] = s[j]
      <4> HIDE DEF n
      <4> QED
        BY <1>1, <1>3, <1>4, FS_PigeonHole
    <3> QED
      BY <1>2, <3>1
  <2>2. ~(n < Cardinality(S))
    <3> SUFFICES ASSUME n < Cardinality(S) PROVE FALSE
      OBVIOUS
    <3> DEFINE place == [k \in S |-> CHOOSE i \in 1..n : s[i] = k]
    <3>1. \A k \in S : place[k] \in 1..n /\ s[place[k]] = k
      BY DEF Sorted
    <3>2. place \in [S -> 1..n]
      BY <3>1
    <3>3. \E k, m \in S : k # m /\ place[k] = place[m]
      <4> HIDE DEF n, place
      <4> QED
        BY <1>3, <1>4, <3>2, FS_PigeonHole
    <3> QED
      BY <3>1, <3>3
  <2> QED
    BY <1>1, <1>4, <2>1, <2>2
<1> DEFINE Rises(f) == \A i, j \in DOMAIN f : i < j => f[i] < f[j]
           o == CHOOSE f \in [1..n -> S] : Rises(f)
<1>6. Ascending(S) = o
  BY <1>5 DEF Ascending
<1>7. o \in [1..n -> S] /\ \A i, j \in 1..n : i < j => o[i] < o[j]
  <2>1. s \in [1..n -> S] /\ Rises(s)
    BY <1>1 DEF Sorted
  <2>2. o \in [1..n -> S] /\ Rises(o)
    BY <2>1
  <2> QED
    BY <2>2
<1> HIDE DEF o
<1>8. \A i, j \in 1..n : o[i] = o[j] => i = j
  <2>1. \A i \in 1..n : o[i] \in Nat
    BY <1>7
  <2> QED
    BY <1>1, <1>7, <2>1
<1>9. ASSUME NEW k \in S PROVE \E i \in 1..n : o[i] = k
  <2> SUFFICES ASSUME \A i \in 1..n : o[i] # k PROVE FALSE
    OBVIOUS
  <2> DEFINE T == S \ {k}
  <2>1. o \in [1..n -> T]
    BY <1>7
  <2>2. IsFiniteSet(T) /\ Cardinality(T) = Cardinality(S) - 1
    BY <1>4, FS_RemoveElement
  <2>3. Cardinality(T) < n
    BY <1>1, <1>5, <2>2
  <2>4. \E i, j \in 1..n : i # j /\ o[i] = o[j]
    <3> HIDE DEF n, T
    <3> QED
      BY <1>3, <2>1, <2>2, <2>3, FS_PigeonHole
  <2> QED
    BY <1>8, <2>4
<1>10. o \in Seq(S) /\ Len(o) = n
  BY <1>1, <1>7
<1>11. Sorted(o, S)
  BY <1>7, <1>9, <1>10 DEF Sorted
<1> QED
  BY <1>6, <1>10, <1>11, SortedOnce

\* A larger element comes last.
LEMMA SortedAppend ==
    ASSUME NEW S \in SUBSET Nat, NEW s, Sorted(s, S), NEW new \in Nat, \A k \in S : k < new
    PROVE  Sorted(Append(s, new), S \cup {new})
<1> DEFINE u == Append(s, new)
<1>1. s \in Seq(S \cup {new}) /\ Len(s) \in Nat /\ \A i \in 1..Len(s) : s[i] \in S
  BY LenProperties, ElementOfSeq DEF Sorted
<1>2. /\ u \in Seq(S \cup {new}) /\ Len(u) = Len(s) + 1 /\ u[Len(s) + 1] = new
      /\ \A i \in 1..Len(s) : u[i] = s[i]
  BY <1>1, AppendProperties
<1> HIDE DEF u
<1>3. ASSUME NEW k \in S \cup {new} PROVE \E i \in 1..Len(u) : u[i] = k
  <2>1. CASE k = new
    BY <1>1, <1>2, <2>1
  <2>2. CASE k \in S
    <3>1. PICK i \in 1..Len(s) : s[i] = k
      BY <2>2 DEF Sorted
    <3> QED
      BY <1>1, <1>2, <3>1
  <2> QED
    BY <2>1, <2>2
<1>4. ASSUME NEW i \in 1..Len(u), NEW j \in 1..Len(u), i < j PROVE u[i] < u[j]
  <2>1. i \in 1..Len(s)
    BY <1>1, <1>2, <1>4
  <2>2. CASE j \in 1..Len(s)
    BY <1>2, <1>4, <2>1, <2>2 DEF Sorted
  <2>3. CASE j = Len(s) + 1
    BY <1>1, <1>2, <2>1, <2>3
  <2> QED
    BY <1>1, <1>2, <2>2, <2>3
<1>5. Sorted(u, S \cup {new})
  BY <1>2, <1>3, <1>4 DEF Sorted
<1> QED
  BY <1>5 DEF u

\* An element may be left out.
LEMMA SortedWithout ==
    ASSUME NEW S \in SUBSET Nat, NEW s, Sorted(s, S), NEW i \in 1..Len(s)
    PROVE  Sorted([j \in 1..Len(s) - 1 |-> IF j < i THEN s[j] ELSE s[j + 1]], S \ {s[i]})
<1> DEFINE n == Len(s)
           u == [j \in 1..n - 1 |-> IF j < i THEN s[j] ELSE s[j + 1]]
<1>1. n \in Nat /\ n - 1 \in Nat /\ \A j \in 1..n : s[j] \in S /\ s[j] \in Nat
  <2>1. s \in Seq(S) /\ Len(s) \in Nat
    BY LenProperties DEF Sorted
  <2>2. \A j \in 1..n : s[j] \in S
    BY <2>1, ElementOfSeq
  <2>3. \A j \in 1..n : s[j] \in Nat
    BY <2>2
  <2>4. n \in Nat /\ n - 1 \in Nat
    BY <2>1
  <2> QED
    BY <2>2, <2>3, <2>4
<1>2. \A j, k \in 1..n : j < k => s[j] < s[k]
  BY DEF Sorted
<1>3. \A j, k \in 1..n : s[j] = s[k] => j = k
  BY <1>1, <1>2
<1>4. \A j \in 1..n - 1 : /\ j \in 1..n /\ j + 1 \in 1..n
                          /\ u[j] = IF j < i THEN s[j] ELSE s[j + 1]
  BY <1>1
<1>5. Len(u) = n - 1 /\ DOMAIN u = 1..n - 1 /\ u \in Seq(S \ {s[i]})
  <2>1. \A j \in 1..n - 1 : u[j] \in S \ {s[i]}
    BY <1>1, <1>3, <1>4
  <2>2. u \in [1..n - 1 -> S \ {s[i]}]
    BY <2>1
  <2> HIDE DEF n, u
  <2>3. u \in Seq(S \ {s[i]})
    BY <1>1, <2>2, IsASeq
  <2>4. DOMAIN u = 1..n - 1 /\ Len(u) \in Nat /\ DOMAIN u = 1..Len(u)
    BY <2>2, <2>3, LenProperties
  <2>5. Len(u) = n - 1
    BY <1>1, <2>4
  <2> QED
    BY <2>3, <2>4, <2>5
<1> HIDE DEF u
<1>6. ASSUME NEW k \in S \ {s[i]} PROVE \E j \in 1..n - 1 : u[j] = k
  <2>1. PICK m \in 1..n : s[m] = k
    BY DEF Sorted
  <2>2. CASE m < i
    <3>1. m \in 1..n - 1 /\ u[m] = k
      BY <1>1, <1>4, <2>1, <2>2
    <3> QED
      BY <3>1
  <2>3. CASE m > i
    <3>1. m - 1 \in 1..n - 1 /\ ~(m - 1 < i) /\ (m - 1) + 1 = m
      BY <1>1, <2>1, <2>3
    <3>2. u[m - 1] = k
      BY <1>4, <2>1, <3>1
    <3> QED
      BY <3>1, <3>2
  <2> QED
    BY <1>1, <2>1, <2>2, <2>3
<1>7. ASSUME NEW j \in 1..n - 1, NEW k \in 1..n - 1, j < k PROVE u[j] < u[k]
  <2>1. CASE k < i
    <3>1. u[j] = s[j] /\ u[k] = s[k]
      BY <1>4, <1>7, <2>1
    <3> QED
      BY <1>2, <1>4, <1>7, <3>1
  <2>2. CASE ~(k < i) /\ j < i
    <3>1. u[j] = s[j] /\ u[k] = s[k + 1] /\ j < k + 1
      BY <1>4, <1>7, <2>2
    <3> QED
      BY <1>2, <1>4, <3>1
  <2>3. CASE ~(j < i)
    <3>1. u[j] = s[j + 1] /\ u[k] = s[k + 1] /\ j + 1 < k + 1
      BY <1>4, <1>7, <2>3
    <3> QED
      BY <1>2, <1>4, <3>1
  <2> QED
    BY <2>1, <2>2, <2>3
<1>8. Sorted(u, S \ {s[i]})
  BY <1>5, <1>6, <1>7 DEF Sorted
<1> QED
  BY <1>8 DEF u

-----------------------------------------------------------------------------
(* What the threads keep without unregister_np. *)

\* Whoever is about to register with an NP, or to unregister from one, has found it, and
\* NPs do not go.
Known == \A h \in Handlers : pc[h] \in {"app_wlock", "add", "count", "incr", "del"} =>
            req[h].np \in np_hash \cup {NoNp}

RInv == /\ JInv /\ CountInv /\ "np_unreg" \notin Handlers /\ overlapped = {}
        /\ Known /\ \E s : Sorted(s, live)

\* The node of an APP is what Registry knows of it.
Viewed == /\ \A k \in live : /\ NodesOf(node[k].data) = {k}
                             /\ ListOf(node[k].data) = node[k].np_list
                             /\ CountOf(node[k].data) = Counts(k)
          /\ \A a : NodesOf(a) = {} => ListOf(a) = {} /\ CountOf(a) = 0

LEMMA NodeViewed == OneNode /\ live \subseteq Nat => Viewed
<1> SUFFICES ASSUME OneNode, live \subseteq Nat PROVE Viewed
  OBVIOUS
<1>1. ASSUME NEW k \in live
      PROVE  /\ NodesOf(node[k].data) = {k}
             /\ ListOf(node[k].data) = node[k].np_list
             /\ CountOf(node[k].data) = Counts(k)
  <2>1. NodesOf(node[k].data) = {k}
    BY DEF OneNode, NodesOf
  <2>2. k \in Nat
    OBVIOUS
  <2>3. Max({k}) = k
    BY <2>2 DEF Max
  <2> QED
    BY <2>1, <2>3 DEF ListOf, CountOf
<1>2. ASSUME NEW a, NodesOf(a) = {} PROVE ListOf(a) = {} /\ CountOf(a) = 0
  BY <1>2 DEF ListOf, CountOf
<1> QED
  BY <1>1, <1>2 DEF Viewed

\* The sequence of APPs.
LEMMA HashIs ==
    (\E s : Sorted(s, live)) /\ live \subseteq Nat =>
        \A s : Sorted(s, live) => /\ AppHash = [i \in 1..Len(s) |-> node[s[i]].data]
                                  /\ DOMAIN s = 1..Len(s)
<1> SUFFICES ASSUME live \subseteq Nat, NEW s, Sorted(s, live)
             PROVE  AppHash = [i \in 1..Len(s) |-> node[s[i]].data] /\ DOMAIN s = 1..Len(s)
  OBVIOUS
<1>1. Ascending(live) = s
  BY AscendingIs
<1>2. DOMAIN s = 1..Len(s)
  BY LenProperties DEF Sorted
<1> QED
  BY <1>1, <1>2 DEF AppHash

LEMMA RFacts ==
    ASSUME RInv
    PROVE  /\ Chain /\ Typed /\ live \subseteq Nat /\ live \subseteq DOMAIN node
           /\ Viewed /\ \A k \in live : node[k].data \in Apps
           /\ LockHeld /\ OneNode /\ CountsPlain
<1>1. Chain /\ Typed /\ LockHeld /\ OneNode /\ CountsPlain
  BY ChainOf, CountsIs DEF RInv, JInv, CountInv
<1>2. live \subseteq Nat /\ live \subseteq DOMAIN node /\ \A k \in live : node[k].data \in Apps
  BY <1>1, NodeFacts DEF Chain
<1>3. Viewed
  BY <1>1, <1>2, NodeViewed
<1> QED
  BY <1>1, <1>2, <1>3

\* Without unregister_np no handler walks.
LEMMA NoWalk ==
    ASSUME RInv, NEW h \in Handlers
    PROVE  pc[h] \notin {"walk", "erase"} /\ h # "np_unreg"
BY RFacts, WhoIs DEF RInv

\* Accept: the handlers are still in no walk, and overlap with none.
LEMMA AcceptKnown ==
    ASSUME RInv, NEW h \in Handlers, Accept(h)
    PROVE  Known' /\ overlapped' = {} /\ UNCHANGED <<hashes, nj>>
<1>1. /\ UNCHANGED <<hashes, nj>> /\ pc[h] = "accept" /\ pc' = [pc EXCEPT ![h] = Start[h]]
      /\ \E r \in Requests(h) : req' = [req EXCEPT ![h] = r]
      /\ overlapped' = overlapped \cup {n \in NPs : WorksOn("app_reg", n)' /\ WorksOn("np_unreg", n)'}
  BY DEF Accept, At
<1>2. overlapped' = {}
  BY <1>1 DEF RInv, WorksOn
<1>3. Start[h] \in {"find", "np_wlock", "walk"}
  BY JunctionAssumption DEF Start, AllHandlers
<1>4. \A g \in Handlers : pc'[g] = (IF g = h THEN Start[h] ELSE pc[g]) /\ (g # h => req'[g] = req[g])
  BY <1>1, RFacts DEF Typed, TypeOK
<1>5. Known'
  BY <1>1, <1>3, <1>4 DEF RInv, Known, hashes
<1> QED
  BY <1>1, <1>2, <1>5

\* Every other step: the NPs that were found are still there.
LEMMA StepKnown ==
    ASSUME RInv, NEW h \in Handlers, NEW place \in Places[h], Moves(h, place), pc[h] # "accept",
           np_hash \subseteq np_hash',
           place \in {"app_wlock", "add", "count", "incr", "del"} =>
              \/ pc[h] \in {"app_wlock", "add", "count", "incr", "del"}
              \/ req[h].np \in np_hash \cup {NoNp}
    PROVE  Known'
<1>1. \A g \in Handlers : /\ pc'[g] = IF g = h THEN place ELSE pc[g]
                          /\ pc'[g] # "accept" => req'[g] = req[g]
  BY RFacts, MovesPc
<1>2. ASSUME NEW g \in Handlers, pc'[g] \in {"app_wlock", "add", "count", "incr", "del"}
      PROVE  req'[g].np \in np_hash' \cup {NoNp}
  <2>1. req'[g] = req[g]
    BY <1>1, <1>2
  <2>2. req[g].np \in np_hash \cup {NoNp}
    BY <1>1, <1>2 DEF RInv, Known
  <2> QED
    BY <2>1, <2>2
<1> QED
  BY <1>2 DEF Known

\* The registrations to be counted, before and after.
LEMMA PendingAfter ==
    ASSUME RInv, NEW h \in Handlers, NEW place \in Places[h], Moves(h, place), pc[h] # "accept", NEW n
    PROVE  Pending(n)' <=> /\ "app_reg" \in Handlers /\ n \in np_hash'
                           /\ req["app_reg"].np = n
                           /\ IF h = "app_reg" THEN place \in {"count", "incr"}
                                              ELSE pc["app_reg"] \in {"count", "incr"}
<1>1. \A g \in Handlers : /\ pc'[g] = IF g = h THEN place ELSE pc[g]
                          /\ pc'[g] # "accept" => req'[g] = req[g]
  BY RFacts, MovesPc
<1>2. \A g \in Handlers : pc[g] \in {"count", "incr"} => g = "app_reg"
  BY RFacts, WhoIs
<1>3. place \in {"count", "incr"} => h = "app_reg"
  BY JunctionAssumption DEF Places, AllHandlers
<1> QED
  BY <1>1, <1>2, <1>3 DEF Pending

\* Which node holds a name that is not counted, before and after.
LEMMA SameUncounted ==
    ASSUME RInv, NEW h \in Handlers, NEW place \in Places[h], Moves(h, place), pc[h] # "accept",
           pc[h] = "count" <=> place = "count", live' = live,
           \A k \in live : node'[k].data = node[k].data
    PROVE  \A k \in live : Uncounted(k)' <=> Uncounted(k)
<1>1. \A g \in Handlers : /\ pc'[g] = IF g = h THEN place ELSE pc[g]
                          /\ pc'[g] # "accept" => req'[g] = req[g]
  BY RFacts, MovesPc
<1> QED
  BY <1>1 DEF Uncounted, NodesOf

-----------------------------------------------------------------------------
(* What changes of the hash mean to Registry. *)

\* The nodes stay what they are; their lists may change.
LEMMA SameHash ==
    ASSUME RInv, live' = live, \A k \in live : node'[k].data = node[k].data
    PROVE  /\ OneNode' /\ \E s : Sorted(s, live')
           /\ AppHash' = AppHash /\ \A a : NodesOf(a)' = NodesOf(a)
<1>1. OneNode'
  BY DEF RInv, CountInv, OneNode
<1>2. \A a : NodesOf(a)' = NodesOf(a)
  BY DEF NodesOf
<1>3. PICK s : Sorted(s, live)
  BY DEF RInv
<1>4. Ascending(live) = s /\ DOMAIN s = 1..Len(s) /\ \A i \in 1..Len(s) : s[i] \in live
  <2>1. s \in Seq(live)
    BY <1>3 DEF Sorted
  <2>2. Ascending(live) = s
    BY <1>3, RFacts, AscendingIs
  <2> QED
    BY <2>1, <2>2, LenProperties, ElementOfSeq
<1>5. AppHash' = AppHash
  BY <1>4 DEF AppHash
<1> QED
  BY <1>1, <1>2, <1>3, <1>5

\* Nor do the lists and what they count.
LEMMA SameCounts ==
    ASSUME RInv, live' = live,
           \A k \in live : /\ node'[k].data = node[k].data /\ node'[k].np_list = node[k].np_list
                           /\ Counts(k)' = Counts(k)
    PROVE  /\ OneNode' /\ \E s : Sorted(s, live')
           /\ AppHash' = AppHash /\ NpList' = NpList /\ NpCount' = NpCount
<1>1. /\ OneNode' /\ \E s : Sorted(s, live')
      /\ AppHash' = AppHash /\ \A a : NodesOf(a)' = NodesOf(a)
  BY SameHash
<1>2. Viewed /\ Viewed'
  <2>1. (OneNode /\ live \subseteq Nat => Viewed)'
    BY NodeViewed, PTL
  <2> QED
    BY <1>1, <2>1, RFacts
<1>3. ASSUME NEW a \in Apps PROVE ListOf(a)' = ListOf(a) /\ CountOf(a)' = CountOf(a)
  <2>1. CASE NodesOf(a) = {}
    <3>1. NodesOf(a)' = {}
      BY <1>1, <2>1
    <3> QED
      BY <1>2, <2>1, <3>1 DEF Viewed
  <2>2. ASSUME NEW j \in NodesOf(a) PROVE ListOf(a)' = ListOf(a) /\ CountOf(a)' = CountOf(a)
    <3>1. j \in live /\ node[j].data = a
      BY <2>2 DEF NodesOf
    <3>2. ListOf(a)' = node'[j].np_list /\ CountOf(a)' = Counts(j)'
      BY <1>2, <3>1 DEF Viewed
    <3>3. ListOf(a) = node[j].np_list /\ CountOf(a) = Counts(j)
      BY <1>2, <3>1 DEF Viewed
    <3> QED
      BY <3>1, <3>2, <3>3
  <2> QED
    BY <2>1, <2>2
<1> QED
  BY <1>1, <1>3 DEF NpList, NpCount

\* The nodes do not change: Registry sees nothing but the counters.
LEMMA SameNodes ==
    ASSUME RInv, UNCHANGED <<node, live>>, \A k \in live : Uncounted(k)' <=> Uncounted(k)
    PROVE  /\ OneNode' /\ \E s : Sorted(s, live')
           /\ AppHash' = AppHash /\ NpList' = NpList /\ NpCount' = NpCount
<1>1. \A k \in live : Counts(k)' = Counts(k)
  BY Zenon DEF Counts
<1> QED
  BY <1>1, SameCounts

LEMMA SameLists ==
    ASSUME RInv, UNCHANGED <<np_hash, node, live>>, AppCount' = AppCount, Nj' = Nj,
           \A k \in live : Uncounted(k)' <=> Uncounted(k)
    PROVE  OneNode' /\ (\E s : Sorted(s, live')) /\ UNCHANGED Atomic!vars
BY SameNodes DEF Atomic!vars

\* Node k, which is an APP's, gets another list.
LEMMA HashRelisted ==
    ASSUME RInv, NEW k \in live, NEW list, NEW c, Relisted(k, list, c), NEW total, Counts(k)' = total,
           \A j \in live : j # k => (Uncounted(j)' <=> Uncounted(j))
    PROVE  /\ OneNode' /\ (\E s : Sorted(s, live')) /\ AppHash' = AppHash
           /\ NpList' = [NpList EXCEPT ![node[k].data] = list]
           /\ NpCount' = [NpCount EXCEPT ![node[k].data] = total]
<1>1. live' = live /\ \A j \in live : /\ node'[j].data = node[j].data
                                      /\ j # k => node'[j] = node[j]
  BY RFacts DEF Relisted
<1>2. /\ OneNode' /\ \E s : Sorted(s, live')
      /\ AppHash' = AppHash /\ \A a : NodesOf(a)' = NodesOf(a)
  BY <1>1, SameHash
<1>3. Viewed
  BY RFacts
<1>4. Viewed'
  <2>1. (OneNode /\ live \subseteq Nat => Viewed)'
    BY NodeViewed, PTL
  <2> QED
    BY <1>1, <1>2, <2>1, RFacts
<1>5. ASSUME NEW a \in Apps
      PROVE  /\ ListOf(a)' = IF a = node[k].data THEN list ELSE ListOf(a)
             /\ CountOf(a)' = IF a = node[k].data THEN total ELSE CountOf(a)
  <2>1. CASE a = node[k].data
    <3>1. k \in live' /\ node'[k].data = a
      BY <1>1, <2>1
    <3>2. ListOf(a)' = node'[k].np_list /\ CountOf(a)' = Counts(k)'
      BY <1>4, <3>1 DEF Viewed
    <3> QED
      BY <2>1, <3>2 DEF Relisted
  <2>2. CASE a # node[k].data /\ NodesOf(a) = {}
    <3>1. NodesOf(a)' = {}
      BY <1>2, <2>2
    <3>2. ListOf(a)' = {} /\ CountOf(a)' = 0 /\ ListOf(a) = {} /\ CountOf(a) = 0
      BY <1>3, <1>4, <2>2, <3>1 DEF Viewed
    <3> QED
      BY <2>2, <3>2
  <2>3. ASSUME a # node[k].data, NEW j \in NodesOf(a)
        PROVE  ListOf(a)' = ListOf(a) /\ CountOf(a)' = CountOf(a)
    <3>1. j \in live /\ node[j].data = a /\ j # k
      BY <2>3 DEF NodesOf
    <3>2. ListOf(a)' = node'[j].np_list /\ CountOf(a)' = Counts(j)'
      BY <1>1, <1>4, <3>1 DEF Viewed
    <3>3. ListOf(a) = node[j].np_list /\ CountOf(a) = Counts(j)
      BY <1>3, <3>1 DEF Viewed
    <3>4. Counts(j)' = Counts(j)
      BY <1>1, <3>1, Zenon DEF Counts
    <3> QED
      BY <1>1, <3>1, <3>2, <3>3, <3>4
  <2> QED
    BY <2>1, <2>2, <2>3
<1> QED
  BY <1>2, <1>5 DEF NpList, NpCount

\* A new node is APP a's, which had none.
LEMMA HashAppended ==
    ASSUME RInv, NEW new, NEW a \in Apps, NEW n, Appended(new, a, n), NodesOf(a) = {},
           Counts(new)' = 1, \A j \in live : Uncounted(j)' <=> Uncounted(j)
    PROVE  /\ OneNode' /\ (\E s : Sorted(s, live')) /\ AppHash' = Append(AppHash, a)
           /\ NpList' = [NpList EXCEPT ![a] = {n}] /\ NpCount' = [NpCount EXCEPT ![a] = 1]
<1>1. /\ Chain /\ live \subseteq Nat /\ live \subseteq DOMAIN node /\ Viewed
      /\ new \in Nat /\ new \notin live /\ live' = live \cup {new}
      /\ \A k \in live : k < new
      /\ \A k \in live : /\ node'[k].data = node[k].data
                         /\ node'[k].np_list = node[k].np_list
                         /\ node'[k].np_count = node[k].np_count
      /\ node'[new].data = a /\ node'[new].np_list = {n}
  BY RFacts DEF Appended
<1>2. OneNode'
  <2>1. \A k \in live : node[k].data # a
    BY DEF NodesOf
  <2>2. ASSUME NEW j \in live', NEW k \in live', node'[j].data = node'[k].data PROVE j = k
    <3>1. CASE j = new \/ k = new
      BY <1>1, <2>1, <2>2, <3>1
    <3>2. CASE j \in live /\ k \in live
      <4>1. node[j].data = node[k].data
        BY <1>1, <2>2, <3>2
      <4> QED
        BY <3>2, <4>1, RFacts DEF OneNode
    <3> QED
      BY <1>1, <3>1, <3>2
  <2> QED
    BY <2>2 DEF OneNode
<1>3. Viewed'
  <2>1. (OneNode /\ live \subseteq Nat => Viewed)'
    BY NodeViewed, PTL
  <2> QED
    BY <1>1, <1>2, <2>1
<1>4. PICK s : Sorted(s, live)
  BY DEF RInv
<1>5. Sorted(Append(s, new), live')
  BY <1>1, <1>4, SortedAppend
<1>6. AppHash' = Append(AppHash, a)
  <2>1. s \in Seq(Nat) /\ Len(s) \in Nat /\ DOMAIN s = 1..Len(s) /\ \A i \in 1..Len(s) : s[i] \in live
    <3>1. s \in Seq(live)
      BY <1>4 DEF Sorted
    <3>2. Len(s) \in Nat /\ DOMAIN s = 1..Len(s) /\ \A i \in 1..Len(s) : s[i] \in live
      BY <3>1, LenProperties, ElementOfSeq
    <3>3. s \in [1..Len(s) -> live]
      BY <3>1, LenProperties
    <3>4. PICK m \in Nat : m = Len(s)
      BY <3>2
    <3>5. s \in [1..m -> Nat]
      BY <1>1, <3>3, <3>4
    <3>6. s \in Seq(Nat)
      BY <3>5
    <3> QED
      BY <3>2, <3>6
  <2> DEFINE u == Append(s, new)
  <2>2. /\ u \in Seq(Nat) /\ Len(u) = Len(s) + 1 /\ u[Len(s) + 1] = new
        /\ \A i \in 1..Len(s) : u[i] = s[i]
    BY <1>1, <2>1, AppendProperties
  <2>3. DOMAIN u = 1..(Len(s) + 1)
    BY <2>2, LenProperties
  <2>4. Ascending(live) = s /\ Ascending(live') = u
    BY <1>1, <1>4, <1>5, AscendingIs
  <2> HIDE DEF u
  <2>5. AppHash = [i \in 1..Len(s) |-> node[s[i]].data]
    BY <2>1, <2>4 DEF AppHash
  <2>6. AppHash' = [i \in 1..(Len(s) + 1) |-> node'[u[i]].data]
    BY <2>3, <2>4 DEF AppHash
  <2>7. AppHash \in Seq(Apps) /\ Len(AppHash) = Len(s)
    BY <2>1, <2>5, RFacts
  <2>8. \A i \in 1..(Len(s) + 1) : node'[u[i]].data = IF i = Len(s) + 1 THEN a ELSE AppHash[i]
    BY <1>1, <2>1, <2>2, <2>5
  <2>9. /\ Append(AppHash, a) \in Seq(Apps) /\ Len(Append(AppHash, a)) = Len(s) + 1
        /\ \A i \in 1..(Len(s) + 1) : Append(AppHash, a)[i] = IF i = Len(s) + 1 THEN a ELSE AppHash[i]
    BY <2>1, <2>7, AppendProperties
  <2>10. AppHash' \in Seq(Apps) /\ Len(AppHash') = Len(s) + 1
         /\ \A i \in 1..(Len(s) + 1) : AppHash'[i] = Append(AppHash, a)[i]
    <3>1. \A i \in 1..Len(s) : AppHash[i] \in Apps
      BY <2>1, <2>5, RFacts
    <3>2. \A i \in 1..(Len(s) + 1) : i # Len(s) + 1 => i \in 1..Len(s)
      BY <2>1
    <3>3. \A i \in 1..(Len(s) + 1) : node'[u[i]].data \in Apps
      BY <2>8, <3>1, <3>2, Zenon
    <3> QED
      BY <2>1, <2>6, <2>8, <2>9, <3>3
  <2> QED
    BY <2>9, <2>10, SeqEqual
<1>7. ASSUME NEW b \in Apps
      PROVE  /\ ListOf(b)' = IF b = a THEN {n} ELSE ListOf(b)
             /\ CountOf(b)' = IF b = a THEN 1 ELSE CountOf(b)
  <2>1. CASE b = a
    <3>1. new \in live' /\ node'[new].data = a
      BY <1>1
    <3>2. ListOf(a)' = node'[new].np_list /\ CountOf(a)' = Counts(new)'
      BY <1>3, <3>1 DEF Viewed
    <3> QED
      BY <1>1, <2>1, <3>2
  <2>2. CASE b # a /\ NodesOf(b) = {}
    <3>1. NodesOf(b)' = {}
      BY <1>1, <2>2 DEF NodesOf
    <3>2. ListOf(b)' = {} /\ CountOf(b)' = 0 /\ ListOf(b) = {} /\ CountOf(b) = 0
      BY <1>1, <1>3, <2>2, <3>1 DEF Viewed
    <3> QED
      BY <2>2, <3>2
  <2>3. ASSUME b # a, NEW j \in NodesOf(b)
        PROVE  ListOf(b)' = ListOf(b) /\ CountOf(b)' = CountOf(b)
    <3>1. j \in live /\ node[j].data = b
      BY DEF NodesOf
    <3>2. ListOf(b)' = node'[j].np_list /\ CountOf(b)' = Counts(j)'
      BY <1>1, <1>3, <3>1 DEF Viewed
    <3>3. ListOf(b) = node[j].np_list /\ CountOf(b) = Counts(j)
      BY <1>1, <3>1 DEF Viewed
    <3>4. Counts(j)' = Counts(j)
      BY <1>1, <3>1, Zenon DEF Counts
    <3> QED
      BY <1>1, <3>1, <3>2, <3>3, <3>4
  <2> QED
    BY <2>1, <2>2, <2>3
<1>8. NpList' = [NpList EXCEPT ![a] = {n}] /\ NpCount' = [NpCount EXCEPT ![a] = 1]
  BY <1>7 DEF NpList, NpCount
<1> QED
  BY <1>2, <1>5, <1>6, <1>8

\* Node k is taken out, and its APP with it.
LEMMA HashUnlinked ==
    ASSUME RInv, NEW k \in live, Unlinked(k), \A j \in live : j # k => (Uncounted(j)' <=> Uncounted(j))
    PROVE  /\ OneNode' /\ (\E s : Sorted(s, live'))
           /\ \E i \in DOMAIN AppHash : AppHash[i] = node[k].data /\ AppHash' = Atomic!Without(i)
           /\ NpList' = [NpList EXCEPT ![node[k].data] = {}]
           /\ NpCount' = [NpCount EXCEPT ![node[k].data] = 0]
<1> DEFINE a == node[k].data
<1>1. /\ live \subseteq Nat /\ live \subseteq DOMAIN node /\ Viewed /\ live' = live \ {k}
      /\ \A j \in live : /\ node'[j].data = node[j].data
                         /\ node'[j].np_list = node[j].np_list
                         /\ node'[j].np_count = node[j].np_count
  BY RFacts DEF Unlinked
<1>2. OneNode'
  BY <1>1, RFacts DEF OneNode
<1>3. Viewed'
  <2>1. (OneNode /\ live \subseteq Nat => Viewed)'
    BY NodeViewed, PTL
  <2> QED
    BY <1>1, <1>2, <2>1
<1>4. PICK s : Sorted(s, live)
  BY DEF RInv
<1>5. /\ s \in Seq(live) /\ Len(s) \in Nat /\ DOMAIN s = 1..Len(s)
      /\ \A i \in 1..Len(s) : s[i] \in live
  BY <1>4, LenProperties, ElementOfSeq DEF Sorted
<1>6. PICK i \in 1..Len(s) : s[i] = k
  BY <1>4 DEF Sorted
<1> DEFINE u == [j \in 1..Len(s) - 1 |-> IF j < i THEN s[j] ELSE s[j + 1]]
<1>7. Sorted(u, live')
  <2>1. Sorted(u, live \ {s[i]})
    BY <1>1, <1>4, SortedWithout
  <2> QED
    BY <1>1, <1>6, <2>1
<1>8. AppHash[i] = a /\ i \in DOMAIN AppHash /\ AppHash' = Atomic!Without(i)
  <2>1. Ascending(live) = s
    BY <1>1, <1>4, AscendingIs
  <2>2. Ascending(live') = u
    <3>1. live' \in SUBSET Nat
      BY <1>1
    <3> QED
      BY <1>7, <3>1, AscendingIs
  <2>3. AppHash = [j \in 1..Len(s) |-> node[s[j]].data]
    BY <1>5, <2>1 DEF AppHash
  <2>4. AppHash' = [j \in 1..Len(s) - 1 |-> node'[u[j]].data]
    BY <2>2 DEF AppHash
  <2>5. ASSUME NEW j \in 1..Len(s) - 1
        PROVE  node'[u[j]].data = IF j < i THEN AppHash[j] ELSE AppHash[j + 1]
    <3>1. j \in 1..Len(s) /\ j + 1 \in 1..Len(s)
      BY <1>5
    <3> QED
      BY <1>1, <1>5, <2>3, <3>1
  <2>6. Len(AppHash) = Len(s)
    BY <1>5, <2>3, RFacts
  <2> HIDE DEF u
  <2>7. AppHash' = Atomic!Without(i)
    BY <2>4, <2>5, <2>6 DEF Atomic!Without
  <2> QED
    BY <1>6, <2>3, <2>7
<1>9. ASSUME NEW b \in Apps
      PROVE  /\ ListOf(b)' = IF b = a THEN {} ELSE ListOf(b)
             /\ CountOf(b)' = IF b = a THEN 0 ELSE CountOf(b)
  <2>1. CASE b = a \/ NodesOf(b) = {}
    <3>1. NodesOf(b)' = {}
      <4>1. CASE b = a
        <5>1. NodesOf(a) = {k}
          BY <1>1 DEF Viewed
        <5> QED
          BY <1>1, <4>1, <5>1 DEF NodesOf
      <4>2. CASE NodesOf(b) = {}
        BY <1>1, <4>2 DEF NodesOf
      <4> QED
        BY <2>1, <4>1, <4>2
    <3>2. ListOf(b)' = {} /\ CountOf(b)' = 0
      BY <1>3, <3>1 DEF Viewed
    <3> QED
      BY <1>1, <2>1, <3>2 DEF Viewed
  <2>2. ASSUME b # a, NEW j \in NodesOf(b)
        PROVE  ListOf(b)' = ListOf(b) /\ CountOf(b)' = CountOf(b)
    <3>1. j \in live /\ node[j].data = b /\ j # k
      BY <2>2 DEF NodesOf
    <3>2. ListOf(b)' = node'[j].np_list /\ CountOf(b)' = Counts(j)'
      BY <1>1, <1>3, <3>1 DEF Viewed
    <3>3. ListOf(b) = node[j].np_list /\ CountOf(b) = Counts(j)
      BY <1>1, <3>1 DEF Viewed
    <3>4. Counts(j)' = Counts(j)
      BY <1>1, <3>1, Zenon DEF Counts
    <3> QED
      BY <1>1, <3>1, <3>2, <3>3, <3>4
  <2> QED
    BY <2>1, <2>2
<1>10. NpList' = [NpList EXCEPT ![a] = {}] /\ NpCount' = [NpCount EXCEPT ![a] = 0]
  BY <1>9 DEF NpList, NpCount
<1> QED
  BY <1>2, <1>7, <1>8, <1>10

-----------------------------------------------------------------------------
(* A step of a handler is a step of Registry, or none. *)

Refines == /\ overlapped' = {} /\ Known' /\ \E s : Sorted(s, live')
           /\ Atomic!Next \/ UNCHANGED Atomic!vars

\* The APPs that Registry sees are those with a node.
LEMMA RegisteredIs ==
    ASSUME RInv, NEW a
    PROVE  a \in Atomic!Registered <=> NodesOf(a) # {}
<1>1. PICK s : Sorted(s, live)
  BY DEF RInv
<1>2. AppHash = [i \in 1..Len(s) |-> node[s[i]].data] /\ \A i \in 1..Len(s) : s[i] \in live
  BY <1>1, RFacts, HashIs, ElementOfSeq DEF Sorted
<1>3. a \in Atomic!Registered <=> \E i \in 1..Len(s) : node[s[i]].data = a
  BY <1>2 DEF Atomic!Registered
<1>4. (\E i \in 1..Len(s) : node[s[i]].data = a) <=> \E k \in live : node[k].data = a
  BY <1>1, <1>2 DEF Sorted
<1> QED
  BY <1>3, <1>4 DEF NodesOf

\* The hashes stay as they are.
LEMMA QuietRefines ==
    ASSUME RInv, NEW h \in Handlers, NEW place \in Places[h], Moves(h, place),
           pc[h] \notin {"accept", "count", "incr"}, place \notin {"count", "incr"},
           UNCHANGED <<hashes, clients, nj>>,
           place \in {"app_wlock", "add", "del"} =>
              \/ pc[h] \in {"app_wlock", "add", "del"}
              \/ req[h].np \in np_hash \cup {NoNp}
    PROVE  Refines
<1>1. UNCHANGED <<np_hash, app_count, node, live, overlapped>> /\ Nj' = Nj
  BY DEF hashes, clients, Nj
<1>2. Known'
  BY <1>1, StepKnown
<1>3. AppCount' = AppCount
  <2>1. \A n \in NPs : Pending(n)' <=> Pending(n)
    BY <1>1, RFacts, PendingAfter, PendingIs
  <2> QED
    BY <1>1, <2>1 DEF AppCount
<1>4. (\E s : Sorted(s, live')) /\ UNCHANGED Atomic!vars
  <2>1. \A k \in live : Uncounted(k)' <=> Uncounted(k)
    BY <1>1, SameUncounted
  <2> QED
    BY <1>1, <1>3, <2>1, SameLists
<1> QED
  BY <1>1, <1>2, <1>4 DEF Refines, RInv

LEMMA QuietStepsRefine ==
    ASSUME RInv, NEW h \in Handlers, Find(h) \/ AppWlock(h) \/ NpWlock(h) \/ PrintNps(h)
    PROVE  Refines
<1>1. h \in AllHandlers /\ pc[h] \in Places[h]
  BY JunctionAssumption, RFacts DEF Typed
<1>2. CASE Find(h)
  <2>1. h \in {"app_reg", "app_unreg"} /\ pc[h] = "find" /\ UNCHANGED <<hashes, clients, nj>>
    BY <1>1, <1>2 DEF Find, At, AllHandlers, Places
  <2>2. CASE req[h].np \in np_hash \cup {NoNp} /\ Goto(h, "app_wlock")
    <3>1. Moves(h, "app_wlock") /\ "app_wlock" \in Places[h]
      BY <2>1, <2>2 DEF Moves, Places
    <3> QED
      BY <2>1, <2>2, <3>1, QuietRefines
  <2>3. CASE Done(h)
    <3>1. Moves(h, "accept") /\ "accept" \in Places[h]
      BY <2>1, <2>3 DEF Moves, Places
    <3> QED
      BY <2>1, <3>1, QuietRefines
  <2> QED
    BY <1>2, <2>2, <2>3 DEF Find
<1>3. CASE AppWlock(h)
  <2> DEFINE place == IF h = "app_reg" THEN "add" ELSE "del"
  <2>1. /\ pc[h] = "app_wlock" /\ Goto(h, place) /\ UNCHANGED <<hashes, clients, nj>>
        /\ place \in {"add", "del"}
    BY <1>3 DEF AppWlock, At
  <2>2. place \in Places[h] /\ Moves(h, place)
    BY <1>1, <2>1 DEF Moves, Places, AllHandlers
  <2> QED
    BY <2>1, <2>2, QuietRefines
<1>4. CASE NpWlock(h)
  <2>1. /\ pc[h] = "np_wlock" /\ Goto(h, IF h = "np_reg" THEN "insert" ELSE "erase")
        /\ UNCHANGED <<hashes, clients, nj>>
    BY <1>4 DEF NpWlock, At
  <2>2. h = "np_reg"
    BY <1>1, <2>1, NoWalk DEF Places, AllHandlers
  <2>3. Moves(h, "insert") /\ "insert" \in Places[h]
    BY <2>1, <2>2 DEF Moves, Places
  <2> QED
    BY <2>1, <2>3, QuietRefines
<1>5. CASE PrintNps(h)
  <2>1. pc[h] = "print" /\ Done(h) /\ UNCHANGED <<hashes, clients, nj>>
    BY <1>5 DEF PrintNps, At
  <2>2. Moves(h, "accept") /\ "accept" \in Places[h]
    BY <1>1, <2>1 DEF Moves, Places, AllHandlers
  <2> QED
    BY <2>1, <2>2, QuietRefines
<1> QED
  BY <1>2, <1>3, <1>4, <1>5

LEMMA AcceptRefines ==
    ASSUME RInv, NEW h \in Handlers, Accept(h)
    PROVE  Refines
<1>1. Known' /\ overlapped' = {} /\ UNCHANGED <<hashes, nj>>
  BY AcceptKnown
<1>2. UNCHANGED <<np_hash, app_count, node, live>> /\ Nj' = Nj
  BY <1>1 DEF hashes, Nj
<1>3. AppCount' = AppCount
  <2>1. pc[h] = "accept" /\ pc' = [pc EXCEPT ![h] = Start[h]] /\ Start[h] \in {"find", "np_wlock", "walk"}
    BY JunctionAssumption DEF Accept, At, Start, AllHandlers
  <2>2. \A g \in Handlers : g # h => req'[g] = req[g]
    BY RFacts DEF Accept, Typed
  <2>3. \A g \in Handlers : /\ pc'[g] \in {"count", "incr"} <=> pc[g] \in {"count", "incr"}
                            /\ pc'[g] \in {"count", "incr"} => req'[g] = req[g]
    BY <2>1, <2>2, RFacts DEF Typed, TypeOK
  <2>4. \A n \in NPs : Pending(n)' <=> Pending(n)
    BY <1>2, <2>3 DEF Pending
  <2> QED
    BY <1>2, <2>4 DEF AppCount
<1>4. (\E s : Sorted(s, live')) /\ UNCHANGED Atomic!vars
  <2>1. pc[h] = "accept" /\ pc' = [pc EXCEPT ![h] = Start[h]] /\ Start[h] \in {"find", "np_wlock", "walk"}
    BY JunctionAssumption DEF Accept, At, Start, AllHandlers
  <2>2. \A g \in Handlers : /\ g # h => req'[g] = req[g]
                            /\ pc'[g] = "count" <=> pc[g] = "count"
    BY <2>1, RFacts DEF Accept, Typed, TypeOK
  <2>3. \A k \in live : Uncounted(k)' <=> Uncounted(k)
    BY <1>2, <2>1, <2>2 DEF Uncounted, NodesOf
  <2> QED
    BY <1>2, <1>3, <2>3, SameLists
<1> QED
  BY <1>1, <1>4 DEF Refines

\* The registration is counted: Registry has seen it counted before.
LEMMA IncrRefines ==
    ASSUME RInv, NEW h \in Handlers, Incr(h)
    PROVE  Refines
<1> DEFINE new == req[h].np
<1>1. /\ h = "app_reg" /\ pc[h] = "incr"
      /\ app_count' = [n \in NPs |-> IF n = new /\ n \in np_hash THEN app_count[n] + 1
                                     ELSE app_count[n]]
      /\ UNCHANGED <<np_hash, node, live, nj, overlapped>> /\ Nj' = Nj
      /\ Moves(h, "print") /\ "print" \in Places[h]
  BY RFacts, WhoIs DEF Incr, At, Moves, Places, Nj, clients
<1>2. Known'
  BY <1>1, StepKnown
<1>3. AppCount' = AppCount
  <2>1. ASSUME NEW n \in NPs
        PROVE  app_count'[n] + (IF Pending(n)' THEN 1 ELSE 0)
                 = app_count[n] + IF Pending(n) THEN 1 ELSE 0
    <3>1. app_count[n] \in Nat
      BY RFacts DEF Typed, TypeOK
    <3>2. ~Pending(n)' /\ (Pending(n) <=> n = new /\ n \in np_hash)
      BY <1>1, RFacts, PendingAfter, PendingIs
    <3>3. app_count'[n] = IF n = new /\ n \in np_hash THEN app_count[n] + 1 ELSE app_count[n]
      BY <1>1
    <3> HIDE DEF Pending
    <3> QED
      BY <3>1, <3>2, <3>3
  <2> QED
    BY <2>1 DEF AppCount
<1>4. (\E s : Sorted(s, live')) /\ UNCHANGED Atomic!vars
  <2>1. \A k \in live : Uncounted(k)' <=> Uncounted(k)
    BY <1>1, SameUncounted
  <2> QED
    BY <1>1, <1>3, <2>1, SameLists
<1> QED
  BY <1>1, <1>2, <1>4 DEF Refines, RInv

\* Registry counts the registration as it is made.
LEMMA CountedAtOnce ==
    ASSUME RInv, NEW h \in Handlers, pc[h] = "add", Goto(h, "count"), UNCHANGED <<np_hash, app_count>>
    PROVE  Atomic!IncrAppCnt(req[h].np)
<1> DEFINE new == req[h].np
<1>1. h = "app_reg" /\ Moves(h, "count") /\ "count" \in Places[h]
  BY RFacts, WhoIs DEF Moves, Places
<1>2. \A n \in NPs : ~Pending(n) /\ (Pending(n)' <=> n = new /\ n \in np_hash)
  BY <1>1, RFacts, PendingAfter, PendingIs
<1>3. app_count \in [NPs -> Nat] /\ sent \in 0..MaxRequests /\ np_hash \subseteq NPs
  BY RFacts DEF Typed, TypeOK
<1>4. AppCount = [n \in NPs |-> app_count[n]]
  BY <1>2, <1>3 DEF AppCount
<1>5. CASE new \in np_hash
  <2>1. new \in NPs /\ AppCount[new] = app_count[new]
    BY <1>3, <1>4, <1>5
  <2>2. AppCount[new] < MaxRequests
    <3>1. app_count[new] + InHand <= sent /\ InHand = 1
      BY <1>1, <2>1 DEF RInv, JInv, CountsBounded, InHand
    <3> QED
      BY <1>3, <2>1, <3>1, JunctionAssumption
  <2>3. AppCount' = [AppCount EXCEPT ![new] = @ + 1]
    BY <1>2, <1>3, <1>4, <1>5, <2>1 DEF AppCount
  <2> QED
    BY <1>5, <2>2, <2>3 DEF Atomic!IncrAppCnt
<1>6. CASE new \notin np_hash
  <2>1. AppCount' = AppCount
    BY <1>2, <1>3, <1>4, <1>6 DEF AppCount
  <2> QED
    BY <1>6, <2>1 DEF Atomic!IncrAppCnt
<1> QED
  BY <1>5, <1>6

LEMMA AddRefines ==
    ASSUME RInv, NEW h \in Handlers, Add(h)
    PROVE  Refines
<1> DEFINE a == req[h].app
           n == req[h].np
<1>1. /\ h = "app_reg" /\ pc[h] = "add" /\ nj = "alive" /\ UNCHANGED <<np_hash, app_count, nj, clients>>
      /\ a \in Apps /\ n \in Names /\ n \in np_hash \cup {NoNp}
      /\ Chain /\ Viewed /\ overlapped' = overlapped
  BY RFacts, WhoIs, RequestNp DEF Add, At, RInv, Known, clients
<1>2. Nj = "alive" /\ Nj' = Nj /\ Atomic!Acceptable(n)
  BY <1>1 DEF Nj, Atomic!Acceptable
<1>3. Goto(h, "count") => Known' /\ Atomic!IncrAppCnt(n)
  <2> SUFFICES ASSUME Goto(h, "count") PROVE Known' /\ Atomic!IncrAppCnt(n)
    OBVIOUS
  <2>1. Moves(h, "count") /\ "count" \in Places[h]
    BY <1>1 DEF Moves, Places
  <2> QED
    BY <1>1, <2>1, StepKnown, CountedAtOnce
<1>4. ASSUME Goto(h, "count"), n \notin NpList[a],
             AppHash' = IF NodesOf(a) # {} THEN AppHash ELSE Append(AppHash, a),
             NpList' = [NpList EXCEPT ![a] = @ \cup {n}],
             NpCount' = [NpCount EXCEPT ![a] = @ + 1]
      PROVE  Atomic!Next
  <2>1. Atomic!RegisterApp(a, n)
    BY <1>1, <1>2, <1>3, <1>4, RegisteredIs DEF Atomic!RegisterApp
  <2>2. n \in Atomic!Names
    BY <1>1 DEF Atomic!Names, Names
  <2> QED
    BY <1>1, <2>1, <2>2 DEF Atomic!Next
\* Until now every name is counted; now the one that was added is not.
<1>5. /\ \A j : ~Uncounted(j)
      /\ Goto(h, "count") =>
            \A j : Uncounted(j)' <=> j \in live' /\ node'[j].data = a
  <2>1. \A j : ~Uncounted(j)
    BY <1>1, RFacts, UncountedIs
  <2>2. Goto(h, "count") => req' = req /\ \A g \in Handlers : pc'[g] = "count" <=> g = h
    BY <1>1, RFacts, WhoIs DEF Goto, Typed, TypeOK
  <2> QED
    BY <2>1, <2>2 DEF Uncounted, NodesOf
<1>6. CASE NodesOf(a) = {} /\ AppendNode(a, n) /\ Goto(h, "count")
  <2>1. PICK new : Appended(new, a, n)
    BY <1>1, <1>6, NodeAppended
  <2>2. /\ new \in live' /\ node'[new].data = a /\ node'[new].np_count = 0
        /\ \A j \in live : node'[j].data # a
    BY <1>1, <1>6, <2>1 DEF Appended, NodesOf, Chain
  <2>3. \A j \in live : Uncounted(j)' <=> Uncounted(j)
    BY <1>5, <1>6, <2>2
  <2>4. Counts(new)' = 1
    <3>1. Uncounted(new)'
      BY <1>5, <1>6, <2>2
    <3>2. Counts(new)' = 0 + 1
      BY <2>2, <3>1, Zenon DEF Counts
    <3> HIDE DEF Counts
    <3> QED
      BY <3>2
  <2>5. /\ (\E s : Sorted(s, live')) /\ AppHash' = Append(AppHash, a)
        /\ NpList' = [NpList EXCEPT ![a] = {n}] /\ NpCount' = [NpCount EXCEPT ![a] = 1]
    BY <1>1, <1>6, <2>1, <2>3, <2>4, HashAppended
  <2>6. NpList[a] = {} /\ NpCount[a] = 0
    BY <1>1, <1>6 DEF Viewed, NpList, NpCount
  <2>7. /\ NpList' = [NpList EXCEPT ![a] = @ \cup {n}]
        /\ NpCount' = [NpCount EXCEPT ![a] = @ + 1]
    BY <2>5, <2>6
  <2> QED
    BY <1>1, <1>3, <1>4, <1>6, <2>5, <2>6, <2>7 DEF Refines, RInv
<1>7. ASSUME NEW k \in NodesOf(a), n \notin node[k].np_list, Goto(h, "count"),
             node' = [node EXCEPT ![k].np_list = @ \cup {n}],
             UNCHANGED <<live, head>>
      PROVE  Refines
  <2> DEFINE list == node[k].np_list \cup {n}
  <2>1. /\ k \in live /\ k \in DOMAIN node /\ node[k].data = a /\ node[k].np_list \in SUBSET Names
        /\ node[k].np_count \in Int
    BY <1>1, NodeFacts DEF Chain, NodesOf
  <2>2. PICK c \in Int : c = node[k].np_count
    BY <2>1
  <2>3. NpList[a] = node[k].np_list /\ NpCount[a] = c
    <3>1. Counts(k) = c
      BY <1>5, <2>1, <2>2, RFacts DEF CountsPlain
    <3> QED
      BY <1>1, <2>1, <3>1 DEF Viewed, NpList, NpCount
  <2>4. Relisted(k, list, c)
    <3>1. node' = [node EXCEPT ![k].np_list = list, ![k].np_count = c]
      BY <1>1, <1>7, <2>1, <2>2, ListChanged
    <3>2. list \in SUBSET Names
      BY <1>1, <2>1
    <3> HIDE DEF list
    <3> QED
      BY <1>1, <1>7, <2>1, <3>1, <3>2, NodeRelisted
  <2> HIDE DEF list
  <2>5. /\ node'[k].data = a /\ node'[k].np_count = c /\ k \in live'
        /\ \A j \in live : j # k => node'[j].data # a
    BY <1>1, <2>1, <2>4, RFacts DEF Relisted, Chain, OneNode
  <2>6. \A j \in live : j # k => (Uncounted(j)' <=> Uncounted(j))
    BY <1>5, <1>7, <2>5
  <2>7. Counts(k)' = c + 1
    BY <1>5, <1>7, <2>5, Zenon DEF Counts
  <2>8. /\ (\E s : Sorted(s, live')) /\ AppHash' = AppHash
        /\ NpList' = [NpList EXCEPT ![a] = list]
        /\ NpCount' = [NpCount EXCEPT ![a] = c + 1]
    BY <2>1, <2>4, <2>6, <2>7, HashRelisted
  <2>9. /\ NpList' = [NpList EXCEPT ![a] = @ \cup {n}]
        /\ NpCount' = [NpCount EXCEPT ![a] = @ + 1]
    BY <2>3, <2>8 DEF list
  <2>10. n \notin NpList[a] /\ NodesOf(a) # {}
    BY <1>7, <2>3
  <2> QED
    BY <1>1, <1>3, <1>4, <1>7, <2>8, <2>9, <2>10 DEF Refines, RInv
<1>8. CASE Done(h) /\ UNCHANGED <<node, live, head>>
  <2>1. Moves(h, "accept") /\ "accept" \in Places[h]
    BY <1>1, <1>8 DEF Moves, Places
  <2>2. UNCHANGED <<hashes, clients, nj>>
    BY <1>1, <1>8 DEF hashes
  <2> QED
    BY <1>1, <2>1, <2>2, QuietRefines
<1> QED
  BY <1>6, <1>7, <1>8 DEF Add

\* The name is counted in the node: Registry has seen it counted before.
LEMMA CountRefines ==
    ASSUME RInv, NEW h \in Handlers, Count(h)
    PROVE  Refines
<1> DEFINE a == req[h].app
<1>1. /\ h = "app_reg" /\ pc[h] = "count" /\ UNCHANGED <<np_hash, app_count, live, head, nj, overlapped>>
      /\ Nj' = Nj /\ Moves(h, "incr") /\ "incr" \in Places[h] /\ Chain
  BY RFacts, WhoIs DEF Count, At, Moves, Places, Nj, clients
<1>2. Known'
  BY <1>1, StepKnown
<1>3. AppCount' = AppCount
  <2>1. \A n \in NPs : Pending(n)' <=> Pending(n)
    BY <1>1, RFacts, PendingAfter, PendingIs
  <2> QED
    BY <1>1, <2>1 DEF AppCount
<1>4. PICK k \in NodesOf(a) : node' = [node EXCEPT ![k].np_count = @ + 1]
  BY DEF Count
<1>5. k \in live /\ k \in DOMAIN node /\ node[k].data = a /\ node[k].np_count \in Int
  BY <1>1, NodeFacts DEF Chain, NodesOf
<1>6. PICK c \in Int : c = node[k].np_count + 1 /\ Relisted(k, node[k].np_list, c)
  <2>1. PICK c \in Int : c = node[k].np_count + 1
    BY <1>5
  <2>2. node' = [node EXCEPT ![k].np_list = node[k].np_list, ![k].np_count = c]
    BY <1>1, <1>4, <1>5, <2>1, CountChanged
  <2> QED
    BY <1>1, <1>5, <2>1, <2>2, ListShrunk
<1>7. \A j \in live : ~Uncounted(j)' /\ (Uncounted(j) <=> j = k)
  <2>1. \A g \in Handlers : pc'[g] # "count"
    BY <1>1, RFacts, WhoIs, PcAfter
  <2>2. \A j \in live : Uncounted(j) <=> j = k
    BY <1>1, <1>5, RFacts, UncountedIs DEF OneNode
  <2> QED
    BY <2>1, <2>2 DEF Uncounted
<1>8. ASSUME NEW j \in live
      PROVE  /\ node'[j].data = node[j].data /\ node'[j].np_list = node[j].np_list
             /\ Counts(j)' = Counts(j)
  <2>1. /\ j \in DOMAIN node /\ node'[j].data = node[j].data /\ node'[j].np_list = node[j].np_list
        /\ node'[j].np_count = IF j = k THEN c ELSE node[j].np_count
    BY <1>1, <1>6 DEF Relisted, Chain
  <2>2. Counts(j)' = node'[j].np_count + 0
    BY <1>7, Zenon DEF Counts
  <2>3. Counts(j) = IF j = k THEN node[j].np_count + 1 ELSE node[j].np_count
    BY <1>7, <2>1, RFacts DEF CountsPlain
  <2>4. node[j].np_count \in Int
    BY <1>1, <2>1, NodeFacts
  <2> HIDE DEF Counts
  <2> QED
    BY <1>6, <2>1, <2>2, <2>3, <2>4
<1>9. (\E s : Sorted(s, live')) /\ UNCHANGED Atomic!vars
  BY <1>1, <1>3, <1>8, SameCounts DEF Atomic!vars
<1> QED
  BY <1>1, <1>2, <1>9 DEF Refines, RInv

LEMMA DelRefines ==
    ASSUME RInv, NEW h \in Handlers, Del(h)
    PROVE  Refines
<1> DEFINE a == req[h].app
           n == req[h].np
<1>1. /\ h = "app_unreg" /\ pc[h] = "del" /\ nj = "alive" /\ UNCHANGED <<np_hash, app_count, clients>>
      /\ a \in Apps /\ n \in Names /\ n \in np_hash \cup {NoNp}
      /\ Chain /\ Viewed /\ overlapped' = overlapped /\ np_hash \subseteq NPs
  BY RFacts, WhoIs, RequestNp DEF Del, At, RInv, Known, clients, Typed, TypeOK
<1>2. Nj = "alive" /\ (nj' = nj => Nj' = Nj) /\ (nj' = "crashed" => Nj' = "crashed")
  BY <1>1 DEF Nj
<1>3. ASSUME NEW place \in {"print", "accept"}, Moves(h, place)
      PROVE  Known' /\ AppCount' = AppCount
  <2>1. place \in Places[h]
    BY <1>1 DEF Places
  <2>2. Known'
    BY <1>1, <1>3, <2>1, StepKnown
  <2>3. \A m \in NPs : Pending(m)' <=> Pending(m)
    BY <1>1, <1>3, <2>1, RFacts, PendingAfter, PendingIs
  <2> QED
    BY <1>1, <2>2, <2>3 DEF AppCount
\* Nobody is adding a name while this handler holds the lock.
<1>9. \A k : ~Uncounted(k) /\ (Goto(h, "print") \/ Done(h) => ~Uncounted(k)')
  <2>1. "app_reg" \in Handlers => pc["app_reg"] # "count"
    BY <1>1, RFacts DEF LockHeld, Holding
  <2>2. \A g \in Handlers : pc[g] # "count"
    BY <2>1, RFacts, WhoIs
  <2>3. Goto(h, "print") \/ Done(h) => \A g \in Handlers : pc'[g] # "count"
    BY <2>2, RFacts DEF Goto, Done, Typed, TypeOK
  <2> QED
    BY <2>2, <2>3 DEF Uncounted
<1>4. /\ Goto(h, "print") => Moves(h, "print")
      /\ Done(h) => Moves(h, "accept") /\ "accept" \in Places[h]
  BY <1>1 DEF Moves, Places
<1>5. ASSUME NEW k \in NodesOf(a), n = NoNp, UnlinkNode(k), Goto(h, "print"), UNCHANGED nj
      PROVE  Refines
  <2>1. k \in live /\ node[k].data = a
    BY DEF NodesOf
  <2>2. Unlinked(k)
    BY <1>1, <1>5, <2>1, NodeUnlinked
  <2>3. /\ \E s : Sorted(s, live')
        /\ \E i \in DOMAIN AppHash : AppHash[i] = a /\ AppHash' = Atomic!Without(i)
        /\ NpList' = [NpList EXCEPT ![a] = {}]
        /\ NpCount' = [NpCount EXCEPT ![a] = 0]
    BY <1>5, <1>9, <2>1, <2>2, HashUnlinked
  <2>4. Known' /\ AppCount' = AppCount
    BY <1>3, <1>4, <1>5
  <2>5. Atomic!UnregisterWholeApp(a)
    BY <1>1, <1>2, <1>5, <2>3, <2>4 DEF Atomic!UnregisterWholeApp
  <2> QED
    BY <1>1, <2>3, <2>4, <2>5 DEF Refines, RInv, Atomic!Next
<1>6. ASSUME NEW k \in NodesOf(a), n # NoNp, n \in node[k].np_list, Goto(h, "print"), UNCHANGED nj,
             node' = [node EXCEPT ![k].np_list = @ \ {n}, ![k].np_count = @ - 1],
             UNCHANGED <<live, head>>
      PROVE  Refines
  <2> DEFINE list == node[k].np_list \ {n}
  <2>1. /\ k \in live /\ k \in DOMAIN node /\ node[k].data = a /\ node[k].np_count \in Int
    BY <1>1, NodeFacts DEF Chain, NodesOf
  <2>2. NpList[a] = node[k].np_list /\ NpCount[a] = node[k].np_count
    <3>1. Counts(k) = node[k].np_count
      BY <1>9, <2>1, RFacts DEF CountsPlain
    <3> QED
      BY <1>1, <2>1, <3>1 DEF Viewed, NpList, NpCount
  <2>3. PICK c \in Int : c = node[k].np_count - 1
    BY <2>1
  <2>4. Relisted(k, list, c)
    <3>1. node' = [node EXCEPT ![k].np_list = list, ![k].np_count = c]
      BY <1>6, <2>3, Zenon
    <3>2. list \in SUBSET node[k].np_list
      OBVIOUS
    <3> HIDE DEF list
    <3> QED
      BY <1>1, <1>6, <2>1, <3>1, <3>2, ListShrunk
  <2>5. /\ (\E s : Sorted(s, live')) /\ AppHash' = AppHash
        /\ NpList' = [NpList EXCEPT ![a] = list]
        /\ NpCount' = [NpCount EXCEPT ![a] = c]
    <3>1. Counts(k)' = c
      <4>1. node'[k].np_count = c
        BY <2>4 DEF Relisted
      <4>2. Counts(k)' = c + 0
        BY <1>6, <1>9, <4>1, Zenon DEF Counts
      <4> HIDE DEF Counts
      <4> QED
        BY <4>2
    <3> HIDE DEF list, Counts, Uncounted
    <3> QED
      BY <1>6, <1>9, <2>1, <2>4, <3>1, HashRelisted
  <2>6. /\ NpList' = [NpList EXCEPT ![a] = @ \ {n}]
        /\ NpCount' = [NpCount EXCEPT ![a] = @ - 1]
    BY <2>2, <2>3, <2>5 DEF list
  <2>7. Known' /\ AppCount' = AppCount
    BY <1>3, <1>4, <1>6
  <2>8. a \in Atomic!Registered /\ n \in NpList[a] /\ n \in np_hash
    BY <1>1, <1>6, <2>2, RegisteredIs
  <2>9. Atomic!UnregisterApp(a, n)
    BY <1>1, <1>2, <1>6, <2>5, <2>6, <2>7, <2>8 DEF Atomic!UnregisterApp
  <2>10. Atomic!Next
    BY <1>1, <2>8, <2>9 DEF Atomic!Next
  <2> QED
    BY <1>1, <2>5, <2>7, <2>10 DEF Refines, RInv
<1>7. ASSUME NEW k \in NodesOf(a), n # NoNp, node[k].np_list = {}, nj' = "crashed", Done(h),
             UNCHANGED <<node, live, head>>
      PROVE  Refines
  <2>1. k \in live /\ node[k].data = a
    BY DEF NodesOf
  <2>2. NpList[a] = {} /\ a \in Atomic!Registered /\ n \in np_hash
    BY <1>1, <1>7, <2>1, RegisteredIs DEF Viewed, NpList
  <2>3. (\E s : Sorted(s, live')) /\ AppHash' = AppHash
    BY <1>7, <1>9, SameNodes
  <2>4. NpList' = NpList /\ NpCount' = NpCount
    BY <1>7, <1>9, SameNodes
  <2>5. Known' /\ AppCount' = AppCount
    BY <1>3, <1>4, <1>7
  <2>6. Atomic!UnregisterApp(a, n)
    BY <1>1, <1>2, <1>7, <2>2, <2>3, <2>4, <2>5 DEF Atomic!UnregisterApp
  <2>7. Atomic!Next
    BY <1>1, <2>2, <2>6 DEF Atomic!Next
  <2> QED
    BY <1>1, <2>3, <2>5, <2>7 DEF Refines, RInv
<1>8. CASE Done(h) /\ UNCHANGED <<node, live, head, nj>>
  <2>1. UNCHANGED <<hashes, clients, nj>>
    BY <1>1, <1>8 DEF hashes
  <2> QED
    BY <1>1, <1>4, <1>8, <2>1, QuietRefines
<1> QED
  BY <1>5, <1>6, <1>7, <1>8 DEF Del

LEMMA InsertRefines ==
    ASSUME RInv, NEW h \in Handlers, Insert(h)
    PROVE  Refines
<1> DEFINE n == req[h].np
<1>1. /\ h = "np_reg" /\ pc[h] = "insert" /\ nj = "alive" /\ n \in NPs
      /\ UNCHANGED <<node, live, head, nj, clients>> /\ overlapped' = overlapped
  BY RFacts, WhoIs, RequestNp DEF Insert, At, clients
<1>2. CASE n \in np_hash /\ Done(h) /\ UNCHANGED <<np_hash, app_count>>
  <2>1. Moves(h, "accept") /\ "accept" \in Places[h] /\ UNCHANGED hashes
    BY <1>1, <1>2 DEF Moves, Places, hashes
  <2> QED
    BY <1>1, <2>1, QuietRefines
<1>3. CASE /\ n \notin np_hash /\ np_hash' = np_hash \cup {n}
           /\ app_count' = [app_count EXCEPT ![n] = 0] /\ Goto(h, "print")
  <2>1. Moves(h, "print") /\ "print" \in Places[h]
    BY <1>1, <1>3 DEF Moves, Places
  <2>2. Known'
    BY <1>1, <1>3, <2>1, StepKnown
  <2>3. \A m \in NPs : (Pending(m)' <=> Pending(m)) /\ ~Pending(n)
    <3>1. "app_reg" \in Handlers /\ pc["app_reg"] \in {"count", "incr"} => req["app_reg"].np # n
      BY <1>1, <1>3, JunctionAssumption DEF RInv, Known
    <3> QED
      BY <1>1, <1>3, <2>1, <3>1, RFacts, PendingAfter, PendingIs
  <2>4. AppCount' = [AppCount EXCEPT ![n] = 0]
    <3>1. app_count \in [NPs -> Nat]
      BY RFacts DEF Typed, TypeOK
    <3>2. \A m \in NPs : app_count'[m] = IF m = n THEN 0 ELSE app_count[m]
      BY <1>3, <3>1
    <3>3. ASSUME NEW m \in NPs
          PROVE  app_count'[m] + (IF Pending(m)' THEN 1 ELSE 0)
                   = IF m = n THEN 0 ELSE app_count[m] + IF Pending(m) THEN 1 ELSE 0
      <4> HIDE DEF Pending
      <4>1. CASE m = n
        <5>1. ~Pending(m)' /\ app_count'[m] = 0
          BY <2>3, <3>2, <4>1
        <5> QED
          BY <4>1, <5>1
      <4>2. CASE m # n
        BY <2>3, <3>2, <4>2
      <4> QED
        BY <4>1, <4>2
    <3> QED
      BY <3>3 DEF AppCount
  <2>5. \A k \in live : Uncounted(k)' <=> Uncounted(k)
    BY <1>1, <2>1, SameUncounted
  <2>6. /\ (\E s : Sorted(s, live')) /\ AppHash' = AppHash
        /\ NpList' = NpList /\ NpCount' = NpCount /\ Nj = "alive" /\ Nj' = Nj
    BY <1>1, <2>5, SameNodes DEF Nj
  <2>7. Atomic!RegisterNp(n)
    BY <1>3, <2>4, <2>6 DEF Atomic!RegisterNp
  <2> QED
    BY <1>1, <2>2, <2>6, <2>7 DEF Refines, RInv, Atomic!Next
<1> QED
  BY <1>2, <1>3 DEF Insert

LEMMA NextRefines == RInv /\ [Next]_vars => Refines
<1> SUFFICES ASSUME RInv, [Next]_vars PROVE Refines
  OBVIOUS
<1>1. ASSUME UNCHANGED <<hashes, pc, req, clients>>, nj' = nj \/ (nj = "alive" /\ nj' = "corrupt")
      PROVE  Refines
  <2>1. UNCHANGED <<np_hash, app_count, node, live, pc, req, overlapped>> /\ Nj' = Nj
    BY <1>1 DEF hashes, clients, Nj
  <2>2. AppCount' = AppCount /\ Known'
    BY <2>1 DEF AppCount, Pending, Known, RInv
  <2>3. \A k \in live : Uncounted(k)' <=> Uncounted(k)
    BY <2>1 DEF Uncounted, NodesOf
  <2> QED
    BY <2>1, <2>2, <2>3, SameLists DEF Refines, RInv
<1>2. CASE Corrupt
  BY <1>1, <1>2 DEF Corrupt
<1>3. ASSUME NEW h \in Handlers, Accept(h) \/ Step(h) PROVE Refines
  <2>1. ~WalkEnd(h) /\ ~Walk(h) /\ ~Erase(h)
    BY NoWalk DEF WalkEnd, Walk, Erase, At
  <2> QED
    BY <1>3, <2>1, AcceptRefines, QuietStepsRefine, AddRefines, CountRefines, IncrRefines, DelRefines,
       InsertRefines DEF Step
<1>4. CASE UNCHANGED vars
  BY <1>1, <1>4 DEF vars
<1> QED
  BY <1>2, <1>3, <1>4 DEF Next

LEMMA InitRefined == "np_unreg" \notin Handlers /\ Init => RInv /\ Atomic!Init
<1> SUFFICES ASSUME "np_unreg" \notin Handlers, Init PROVE RInv /\ Atomic!Init
  OBVIOUS
<1>1. JInv /\ CountInv
  BY InitJInv, InitCountInv
<1>2. Known /\ overlapped = {}
  BY DEF Init, Known
<1>3. Sorted(<<>>, live)
  BY DEF Init, Sorted
<1>4. RInv
  BY <1>1, <1>2, <1>3 DEF RInv
<1>5. AppHash = <<>>
  <2>1. AppHash = [i \in 1..Len(<<>>) |-> node[<<>>[i]].data]
    BY <1>3, <1>4, RFacts, HashIs
  <2>2. Len(<<>>) = 0
    OBVIOUS
  <2> QED
    BY <2>1, <2>2
<1>6. NpList = [a \in Apps |-> {}] /\ NpCount = [a \in Apps |-> 0]
  <2>1. \A a : NodesOf(a) = {}
    BY DEF Init, NodesOf
  <2> QED
    BY <2>1 DEF NpList, NpCount, ListOf, CountOf
<1>7. AppCount = [n \in NPs |-> 0] /\ Nj = "alive" /\ np_hash = {}
  <2>1. \A n \in NPs : ~Pending(n) /\ app_count[n] = 0
    BY DEF Init, Pending
  <2> QED
    BY <2>1 DEF AppCount, Nj, Init
<1> QED
  BY <1>4, <1>5, <1>6, <1>7 DEF Atomic!Init

\* Without unregister_np every step of the threads is a step of Registry or changes nothing
\* in it: a request takes effect at once, although lookup and counting hold no lock.
THEOREM JunctionImplementsRegistry == "np_unreg" \notin Handlers /\ Spec => ImplementsRegistry
<1>1. RInv /\ [Next]_vars => RInv'
  BY NextJInv, NextCountInv, NextRefines DEF RInv, Refines
<1>2. RInv /\ [Next]_vars => [Atomic!Next]_(Atomic!vars)
  BY NextRefines DEF Refines
<1> QED
  BY <1>1, <1>2, InitRefined, PTL DEF Spec, ImplementsRegistry, Atomic!Spec
=============================================================================
