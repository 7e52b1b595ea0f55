--------------------------- MODULE RegistryProofs ---------------------------
(***************************************************************************)
(* Proofs about the registry of nj.c, for any finite sets of applications  *)
(* and providers.  The parts of the invariant need one another: a provider *)
(* that comes back starts with app_count 0, which is no less than the      *)
(* number of its members only because no list dangles; no list dangles     *)
(* after unregister_np only because np_count is the length of the list.    *)
(***************************************************************************)
EXTENDS Registry, FiniteSetTheorems, SequenceTheorems, TLAPS

IInv == /\ TypeOK
        /\ NpCountMatches
        /\ NoDangling
        /\ HashOrder
        /\ AppCountAtLeast

-----------------------------------------------------------------------------
(* Finite sets.                                                              *)

LEMMA ListsFinite ==
  ASSUME TypeOK
  PROVE  /\ \A a \in Apps : IsFiniteSet(np_list[a]) /\ Cardinality(np_list[a]) \in Nat
         /\ \A n \in NPs : IsFiniteSet(Members(n)) /\ Cardinality(Members(n)) \in Nat
<1>1. IsFiniteSet(Names) /\ IsFiniteSet(Apps)
  BY RegistryAssumption, FS_AddElement DEF Names
<1>2. ASSUME NEW a \in Apps PROVE IsFiniteSet(np_list[a])
  BY <1>1, FS_Subset DEF TypeOK
<1>3. ASSUME NEW n \in NPs PROVE IsFiniteSet(Members(n))
  BY <1>1, FS_Subset DEF Members
<1> QED
  BY <1>2, <1>3, FS_CardinalityType

\* Lists that shrink leave the counters large enough.
LEMMA ShrinkingKeepsCounts ==
  ASSUME IInv, UNCHANGED app_count,
         \A a \in Apps : np_list'[a] \subseteq np_list[a]
  PROVE  AppCountAtLeast'
<1> SUFFICES ASSUME NEW n \in NPs
             PROVE  app_count[n] >= Cardinality(Members(n)')
  BY DEF AppCountAtLeast
<1>1. Members(n)' \in SUBSET Members(n)
  BY DEF Members
<1>2. /\ IsFiniteSet(Members(n)) /\ Cardinality(Members(n)) \in Nat
  BY ListsFinite DEF IInv
<1>3. /\ Cardinality(Members(n)') \in Nat
      /\ Cardinality(Members(n)') <= Cardinality(Members(n))
  BY <1>1, <1>2, FS_Subset, FS_CardinalityType
<1> QED
  BY <1>2, <1>3 DEF IInv, AppCountAtLeast, TypeOK

-----------------------------------------------------------------------------
(* The hash of applications.                                                 *)

\* An APP with no node yet goes to the end of the iteration.
LEMMA AppendedHash ==
  ASSUME TypeOK, HashOrder, NEW a \in Apps \ Registered,
         app_hash' = Append(app_hash, a)
  PROVE  /\ app_hash' \in Seq(Apps)
         /\ Registered' = Registered \cup {a}
         /\ \A i, j \in DOMAIN app_hash' : app_hash'[i] = app_hash'[j] => i = j
<1>1. /\ app_hash \in Seq(Apps) /\ Len(app_hash) \in Nat
      /\ DOMAIN app_hash = 1..Len(app_hash)
  BY LenProperties DEF TypeOK
<1>2. /\ app_hash' \in Seq(Apps)
      /\ Len(app_hash') = Len(app_hash) + 1
      /\ \A i \in 1..Len(app_hash) : app_hash'[i] = app_hash[i]
      /\ app_hash'[Len(app_hash) + 1] = a
  BY <1>1, AppendProperties
<1>3. DOMAIN app_hash' = 1..(Len(app_hash) + 1)
  BY <1>2, LenProperties
<1>4. Registered' = Registered \cup {a}
  <2>1. \A i \in 1..Len(app_hash) : i \in 1..(Len(app_hash) + 1)
    BY <1>1
  <2>2. \A i \in 1..(Len(app_hash) + 1) : i \in 1..Len(app_hash) \/ i = Len(app_hash) + 1
    BY <1>1
  <2>3. Len(app_hash) + 1 \in 1..(Len(app_hash) + 1)
    BY <1>1
  <2> QED
    BY <1>1, <1>2, <1>3, <2>1, <2>2, <2>3 DEF Registered
<1>5. \A i \in 1..Len(app_hash) : app_hash[i] # a
  BY <1>1 DEF Registered
<1>6. \A i, j \in DOMAIN app_hash' : app_hash'[i] = app_hash'[j] => i = j
  <2> SUFFICES ASSUME NEW i \in 1..(Len(app_hash) + 1), NEW j \in 1..(Len(app_hash) + 1),
                      app_hash'[i] = app_hash'[j]
               PROVE  i = j
    BY <1>3
  <2>1. /\ i \in 1..Len(app_hash) \/ i = Len(app_hash) + 1
        /\ j \in 1..Len(app_hash) \/ j = Len(app_hash) + 1
    BY <1>1
  <2> QED
    BY <1>1, <1>2, <1>5, <2>1 DEF HashOrder
<1> QED
  BY <1>2, <1>4, <1>6

\* HASH_DEL removes one APP and keeps the order of the others.
LEMMA DeletedHash ==
  ASSUME TypeOK, HashOrder, NEW k \in DOMAIN app_hash, app_hash' = Without(k)
  PROVE  /\ app_hash' \in Seq(Apps)
         /\ Registered' = Registered \ {app_hash[k]}
         /\ \A i, j \in DOMAIN app_hash' : app_hash'[i] = app_hash'[j] => i = j
<1> DEFINE N == Len(app_hash)
<1>1. /\ app_hash \in Seq(Apps) /\ N \in Nat /\ DOMAIN app_hash = 1..N /\ k \in 1..N
      /\ \A i \in 1..N : app_hash[i] \in Apps
  BY LenProperties, ElementOfSeq DEF TypeOK
<1>2. /\ DOMAIN app_hash' = 1..(N - 1) /\ N - 1 \in Nat
      /\ \A i \in 1..(N - 1) : app_hash'[i] = IF i < k THEN app_hash[i] ELSE app_hash[i + 1]
      /\ app_hash' = [i \in 1..(N - 1) |-> IF i < k THEN app_hash[i] ELSE app_hash[i + 1]]
  BY <1>1 DEF Without
<1> HIDE DEF N
<1>3. \A i \in 1..(N - 1) : i \in 1..N /\ i + 1 \in 1..N
  BY <1>1
<1>4. app_hash' \in Seq(Apps)
  <2>1. app_hash' \in [1..(N - 1) -> Apps]
    BY <1>1, <1>2, <1>3
  <2> QED
    BY <1>2, <2>1
<1>5. \A i, j \in 1..N : app_hash[i] = app_hash[j] => i = j
  BY <1>1 DEF HashOrder
<1>6. Registered' = Registered \ {app_hash[k]}
  <2>1. ASSUME NEW i \in 1..(N - 1)
        PROVE  app_hash'[i] \in Registered \ {app_hash[k]}
    <3>1. CASE i < k
      BY <1>1, <1>2, <1>3, <1>5, <3>1 DEF Registered
    <3>2. CASE ~(i < k)
      <4>1. i + 1 # k
        BY <1>1, <3>2
      <4> QED
        BY <1>1, <1>2, <1>3, <1>5, <3>2, <4>1 DEF Registered
    <3> QED
      BY <3>1, <3>2
  <2>2. ASSUME NEW i \in 1..N, app_hash[i] # app_hash[k]
        PROVE  \E j \in 1..(N - 1) : app_hash'[j] = app_hash[i]
    <3>1. CASE i < k
      <4>1. i \in 1..(N - 1)
        BY <1>1, <3>1
      <4> QED
        BY <1>2, <3>1, <4>1
    <3>2. CASE ~(i < k)
      <4>1. /\ i - 1 \in 1..(N - 1) /\ ~(i - 1 < k) /\ (i - 1) + 1 = i
        <5>1. i # k
          BY <2>2
        <5> QED
          BY <1>1, <3>2, <5>1
      <4> QED
        BY <1>2, <4>1
    <3> QED
      BY <3>1, <3>2
  <2>3. Registered' = {app_hash'[i] : i \in 1..(N - 1)}
    BY <1>2 DEF Registered
  <2>4. Registered = {app_hash[i] : i \in 1..N}
    BY <1>1 DEF Registered
  <2>5. Registered' \subseteq Registered \ {app_hash[k]}
    BY <2>1, <2>3
  <2>6. Registered \ {app_hash[k]} \subseteq Registered'
    BY <2>2, <2>3, <2>4
  <2> QED
    BY <2>5, <2>6
<1>7. \A i, j \in DOMAIN app_hash' : app_hash'[i] = app_hash'[j] => i = j
  <2> SUFFICES ASSUME NEW i \in 1..(N - 1), NEW j \in 1..(N - 1), app_hash'[i] = app_hash'[j]
               PROVE  i = j
    BY <1>2
  <2> DEFINE old(x) == IF x < k THEN x ELSE x + 1
  <2>1. old(i) \in 1..N /\ old(j) \in 1..N
    BY <1>3
  <2>2. app_hash'[i] = app_hash[old(i)] /\ app_hash'[j] = app_hash[old(j)]
    BY <1>2
  <2>3. old(i) = old(j)
    BY <1>5, <2>1, <2>2
  <2> QED
    BY <1>1, <2>3
<1> QED
  BY <1>4, <1>6, <1>7
-----------------------------------------------------------------------------
(* One lemma per handler.                                                    *)

\* The node of a new NP counts nobody, and nobody lists it yet.
LEMMA RegisterNpStep ==
  ASSUME NEW n \in NPs, IInv, RegisterNp(n)
  PROVE  IInv'
<1>1. TypeOK' /\ NpCountMatches' /\ NoDangling' /\ HashOrder'
  BY RegistryAssumption
     DEF IInv, TypeOK, NpCountMatches, NoDangling, HashOrder, Registered, RegisterNp
<1>2. Members(n) = {}
  BY RegistryAssumption DEF IInv, NoDangling, Members, RegisterNp
<1>3. \A m \in NPs : Members(m)' = Members(m)
  BY DEF Members, RegisterNp
<1>4. AppCountAtLeast'
  <2> SUFFICES ASSUME NEW m \in NPs
               PROVE  app_count'[m] >= Cardinality(Members(m)')
    BY DEF AppCountAtLeast
  <2>1. CASE m = n
    <3>1. Members(m)' = {} /\ Cardinality({}) = 0
      BY <1>2, <1>3, <2>1, FS_EmptySet
    <3>2. app_count'[m] = 0
      BY <2>1 DEF IInv, TypeOK, RegisterNp
    <3> QED
      BY <3>1, <3>2
  <2>2. CASE m # n
    BY <1>3, <2>2 DEF IInv, TypeOK, AppCountAtLeast, RegisterNp
  <2> QED
    BY <2>1, <2>2
<1> QED
  BY <1>1, <1>4 DEF IInv

\* A new registration is counted twice: by the APP's node and, if it names
\* an NP, by the NP's node.
LEMMA RegisterAppStep ==
  ASSUME NEW a \in Apps, NEW n \in Names, IInv, RegisterApp(a, n)
  PROVE  IInv'
<1>1. /\ TypeOK /\ np_list' = [np_list EXCEPT ![a] = @ \cup {n}]
      /\ np_count' = [np_count EXCEPT ![a] = @ + 1]
      /\ n \notin np_list[a] /\ (n = NoNp \/ n \in np_hash) /\ UNCHANGED <<np_hash, nj>>
  BY DEF IInv, RegisterApp, Acceptable
<1>2. /\ app_hash' \in Seq(Apps)
      /\ Registered' = Registered \cup {a}
      /\ \A i, j \in DOMAIN app_hash' : app_hash'[i] = app_hash'[j] => i = j
  <2>1. CASE a \in Registered
    <3>1. app_hash' = app_hash
      BY <2>1 DEF RegisterApp
    <3> QED
      BY <2>1, <3>1 DEF IInv, TypeOK, HashOrder, Registered
  <2>2. CASE a \notin Registered
    <3>1. app_hash' = Append(app_hash, a)
      BY <2>2 DEF RegisterApp
    <3> QED
      BY <2>2, <3>1, AppendedHash DEF IInv
  <2> QED
    BY <2>1, <2>2
<1>3. Cardinality(np_list[a] \cup {n}) = Cardinality(np_list[a]) + 1
  BY <1>1, ListsFinite, FS_AddElement
<1>4. NpCountMatches'
  BY <1>1, <1>3 DEF IInv, TypeOK, NpCountMatches
<1>5. NoDangling'
  BY <1>1 DEF IInv, TypeOK, NoDangling
<1>6. HashOrder'
  BY <1>1, <1>2 DEF IInv, TypeOK, HashOrder
<1>7. app_count' \in [NPs -> 0..MaxCount]
      /\ \A m \in NPs : app_count'[m] = IF m = n THEN app_count[m] + 1 ELSE app_count[m]
  <2>1. CASE n \in np_hash
    BY <2>1, RegistryAssumption DEF IInv, TypeOK, RegisterApp, IncrAppCnt
  <2>2. CASE n \notin np_hash
    <3>1. n \notin NPs
      BY <1>1, <2>2, RegistryAssumption
    <3> QED
      BY <2>2, <3>1 DEF IInv, TypeOK, RegisterApp, IncrAppCnt
  <2> QED
    BY <2>1, <2>2
<1>8. AppCountAtLeast'
  <2> SUFFICES ASSUME NEW m \in NPs
               PROVE  app_count'[m] >= Cardinality(Members(m)')
    BY DEF AppCountAtLeast
  <2>1. /\ IsFiniteSet(Members(m)) /\ Cardinality(Members(m)) \in Nat
        /\ app_count[m] >= Cardinality(Members(m)) /\ app_count[m] \in Nat
    BY ListsFinite DEF IInv, AppCountAtLeast, TypeOK
  <2>2. CASE m = n
    <3>1. Members(m)' = Members(m) \cup {a}
      BY <1>1, <2>2 DEF Members, TypeOK
    <3>2. a \notin Members(m)
      BY <1>1, <2>2 DEF Members
    <3>3. Cardinality(Members(m) \cup {a}) = Cardinality(Members(m)) + 1
      BY <2>1, <3>2, FS_AddElement
    <3> QED
      BY <1>7, <2>1, <2>2, <3>1, <3>3
  <2>3. CASE m # n
    <3>1. Members(m)' = Members(m)
      BY <1>1, <2>3 DEF Members, TypeOK
    <3> QED
      BY <1>7, <2>1, <2>3, <3>1
  <2> QED
    BY <2>2, <2>3
<1>9. TypeOK'
  BY <1>1, <1>2, <1>7 DEF TypeOK, Names
<1> QED
  BY <1>4, <1>5, <1>6, <1>8, <1>9 DEF IInv

LEMMA UnregisterWholeAppStep ==
  ASSUME NEW a \in Apps, IInv, UnregisterWholeApp(a)
  PROVE  IInv'
<1>1. PICK i \in DOMAIN app_hash : app_hash[i] = a /\ app_hash' = Without(i)
  BY DEF UnregisterWholeApp
<1>2. /\ app_hash' \in Seq(Apps)
      /\ Registered' = Registered \ {a}
      /\ \A j, k \in DOMAIN app_hash' : app_hash'[j] = app_hash'[k] => j = k
  BY <1>1, DeletedHash DEF IInv
<1>3. /\ TypeOK /\ np_list' = [np_list EXCEPT ![a] = {}]
      /\ np_count' = [np_count EXCEPT ![a] = 0]
      /\ UNCHANGED <<np_hash, app_count, nj>>
  BY DEF IInv, UnregisterWholeApp
<1>4. TypeOK'
  BY <1>2, <1>3 DEF TypeOK
<1>5. NpCountMatches'
  BY <1>3, FS_EmptySet DEF IInv, TypeOK, NpCountMatches
<1>6. NoDangling' /\ HashOrder'
  BY <1>2, <1>3 DEF IInv, TypeOK, NoDangling, HashOrder
<1>7. \A b \in Apps : np_list'[b] \subseteq np_list[b]
  BY <1>3 DEF TypeOK
<1> QED
  BY <1>3, <1>4, <1>5, <1>6, <1>7, ShrinkingKeepsCounts DEF IInv

LEMMA UnregisterAppStep ==
  ASSUME NEW a \in Apps, NEW n \in NPs, IInv, UnregisterApp(a, n)
  PROVE  IInv'
<1>1. CASE np_list[a] = {}
  <2>1. UNCHANGED <<np_hash, app_count, app_hash, np_list, np_count>> /\ nj' = "crashed"
    BY <1>1 DEF UnregisterApp
  <2> QED
    BY <2>1 DEF IInv, TypeOK, NpCountMatches, NoDangling, HashOrder, AppCountAtLeast,
                Members, Registered
<1>2. CASE np_list[a] # {}
  <2>1. /\ n \in np_list[a]
        /\ np_list' = [np_list EXCEPT ![a] = @ \ {n}]
        /\ np_count' = [np_count EXCEPT ![a] = @ - 1]
        /\ UNCHANGED <<np_hash, app_count, app_hash, nj>>
    BY <1>2 DEF UnregisterApp
  <2>2. /\ Cardinality(np_list[a] \ {n}) = Cardinality(np_list[a]) - 1
        /\ Cardinality(np_list[a] \ {n}) \in Nat
    BY <2>1, ListsFinite, FS_RemoveElement, FS_CardinalityType DEF IInv
  <2>3. NpCountMatches'
    BY <2>1, <2>2 DEF IInv, TypeOK, NpCountMatches
  <2>4. TypeOK'
    <3>1. np_count[a] - 1 \in Nat
      BY <2>2 DEF IInv, NpCountMatches
    <3> QED
      BY <2>1, <3>1 DEF IInv, TypeOK
  <2>5. NoDangling' /\ HashOrder'
    BY <2>1 DEF IInv, TypeOK, NoDangling, HashOrder, Registered
  <2>6. \A b \in Apps : np_list'[b] \subseteq np_list[b]
    BY <2>1 DEF IInv, TypeOK
  <2> QED
    BY <2>1, <2>3, <2>4, <2>5, <2>6, ShrinkingKeepsCounts DEF IInv
<1> QED
  BY <1>1, <1>2
\* unregister_np: an APP in the hash loses n, or the one name it has.
LEMMA UnlistedList ==
  ASSUME NEW a \in Registered, NEW n \in NPs, IInv, ~Hopeless(n)
  PROVE  /\ n \notin Unlisted(a, n)
         /\ Unlisted(a, n) \subseteq np_list[a]
         /\ Cardinality(Unlisted(a, n)) = np_count[a] - 1
         /\ np_count[a] - 1 \in Nat
<1>1. a \in Apps
  BY LenProperties, ElementOfSeq DEF IInv, TypeOK, Registered
<1>2. /\ IsFiniteSet(np_list[a]) /\ np_count[a] = Cardinality(np_list[a])
      /\ np_count[a] \in Nat
  BY <1>1, ListsFinite DEF IInv, NpCountMatches
<1>3. CASE np_count[a] = 1
  BY <1>3, FS_EmptySet DEF Unlisted
<1>4. CASE np_count[a] # 1
  <2>1. n \in np_list[a]
    BY <1>4 DEF Hopeless
  <2>2. Cardinality(np_list[a] \ {n}) = Cardinality(np_list[a]) - 1
    BY <1>2, <2>1, FS_RemoveElement
  <2>3. Cardinality(np_list[a] \ {n}) \in Nat
    BY <1>2, FS_RemoveElement, FS_CardinalityType
  <2> QED
    BY <1>2, <1>4, <2>2, <2>3 DEF Unlisted
<1> QED
  BY <1>3, <1>4

LEMMA UnregisterNpStep ==
  ASSUME NEW n \in NPs, IInv, UnregisterNp(n)
  PROVE  IInv'
<1>1. CASE Hopeless(n)
  <2>1. UNCHANGED <<np_hash, app_count, app_hash, np_list, np_count>> /\ nj' = "crashed"
    BY <1>1 DEF UnregisterNp
  <2> QED
    BY <2>1 DEF IInv, TypeOK, NpCountMatches, NoDangling, HashOrder, AppCountAtLeast,
                Members, Registered
<1>2. CASE ~Hopeless(n)
  <2>1. /\ np_list' = [a \in Apps |-> IF a \in Registered THEN Unlisted(a, n)
                                       ELSE np_list[a]]
        /\ np_count' = [a \in Apps |-> IF a \in Registered THEN np_count[a] - 1
                                        ELSE np_count[a]]
        /\ np_hash' = np_hash \ {n}
        /\ app_count' = [app_count EXCEPT ![n] = 0]
        /\ UNCHANGED <<app_hash, nj>>
    BY <1>2 DEF UnregisterNp
  <2>2. \A a \in Apps \ Registered : np_list[a] = {}
    BY DEF IInv, HashOrder
  <2>3. \A a \in Apps : /\ n \notin np_list'[a]
                        /\ np_list'[a] \subseteq np_list[a]
                        /\ np_count'[a] = Cardinality(np_list'[a])
                        /\ np_count'[a] \in Nat
    <3> TAKE a \in Apps
    <3>1. CASE a \in Registered
      BY <1>2, <2>1, <3>1, UnlistedList
    <3>2. CASE a \notin Registered
      BY <2>1, <2>2, <3>2 DEF IInv, NpCountMatches, TypeOK
    <3> QED
      BY <3>1, <3>2
  <2>4. NpCountMatches'
    BY <2>3 DEF NpCountMatches
  <2>5. TypeOK'
    <3>1. np_list' \in [Apps -> SUBSET Names]
      <4>1. \A a \in Apps : np_list'[a] \in SUBSET Names
        BY <2>3 DEF IInv, TypeOK
      <4> QED
        BY <2>1, <4>1
    <3>2. np_count' \in [Apps -> Nat]
      BY <2>1, <2>3
    <3> QED
      BY <2>1, <3>1, <3>2, RegistryAssumption DEF IInv, TypeOK
  <2>6. NoDangling'
    BY <2>1, <2>3 DEF IInv, NoDangling
  <2>7. HashOrder'
    BY <2>1, <2>2, <2>3 DEF IInv, HashOrder, Registered
  <2>8. AppCountAtLeast'
    <3> SUFFICES ASSUME NEW m \in NPs
                 PROVE  app_count'[m] >= Cardinality(Members(m)')
      BY DEF AppCountAtLeast
    <3>1. CASE m = n
      <4>1. Members(m)' = {} /\ Cardinality({}) = 0
        BY <2>3, <3>1, FS_EmptySet DEF Members
      <4>2. app_count'[m] = 0
        BY <2>1, <3>1 DEF IInv, TypeOK
      <4> QED
        BY <4>1, <4>2
    <3>2. CASE m # n
      <4>1. Members(m)' \in SUBSET Members(m)
        BY <2>3 DEF Members
      <4>2. IsFiniteSet(Members(m)) /\ Cardinality(Members(m)) \in Nat
        BY ListsFinite DEF IInv
      <4>3. /\ Cardinality(Members(m)') \in Nat
            /\ Cardinality(Members(m)') <= Cardinality(Members(m))
        BY <4>1, <4>2, FS_Subset, FS_CardinalityType
      <4>4. app_count'[m] = app_count[m] /\ app_count[m] \in Nat
        BY <2>1, <3>2 DEF IInv, TypeOK
      <4> QED
        BY <4>2, <4>3, <4>4 DEF IInv, AppCountAtLeast
    <3> QED
      BY <3>1, <3>2
  <2> QED
    BY <2>4, <2>5, <2>6, <2>7, <2>8 DEF IInv
<1> QED
  BY <1>1, <1>2

-----------------------------------------------------------------------------
LEMMA NextKeepsIInv == IInv /\ [Next]_vars => IInv'
<1> SUFFICES ASSUME IInv, [Next]_vars PROVE IInv'
  OBVIOUS
<1>1. CASE Next
  BY <1>1, RegisterNpStep, UnregisterNpStep, RegisterAppStep, UnregisterAppStep,
     UnregisterWholeAppStep DEF Next
<1>2. CASE UNCHANGED vars
  BY <1>2 DEF vars, IInv, TypeOK, NpCountMatches, NoDangling, HashOrder,
              AppCountAtLeast, Members, Registered
<1> QED
  BY <1>1, <1>2

LEMMA InitIInv == Init => IInv
<1> SUFFICES ASSUME Init PROVE IInv
  OBVIOUS
<1>1. TypeOK
  BY RegistryAssumption, EmptySeq DEF Init, TypeOK
<1>2. NpCountMatches /\ NoDangling
  BY FS_EmptySet DEF Init, NpCountMatches, NoDangling
<1>3. HashOrder
  BY DEF Init, HashOrder
<1>4. AppCountAtLeast
  <2>1. \A n \in NPs : Members(n) = {}
    BY DEF Init, Members
  <2>2. \A n \in NPs : Cardinality(Members(n)) = 0 /\ app_count[n] = 0
    BY <2>1, FS_EmptySet DEF Init
  <2> QED
    BY <2>2 DEF AppCountAtLeast
<1> QED
  BY <1>1, <1>2, <1>3, <1>4 DEF IInv

\* Every reachable state of the registry satisfies the inductive invariant.
THEOREM RegistryInvariant == Spec => []IInv
  BY InitIInv, NextKeepsIInv, PTL DEF Spec

\* The variables keep their types; no count becomes negative.
THEOREM RegistryTypeOK == Spec => []TypeOK
<1>1. IInv => TypeOK
  BY DEF IInv
<1> QED
  BY <1>1, RegistryInvariant, PTL

\* np_count is the length of the APP's list, however requests are ordered
\* (app_dcll.h:73).
THEOREM RegistryNpCount == Spec => []NpCountMatches
<1>1. IInv => NpCountMatches
  BY DEF IInv
<1> QED
  BY <1>1, RegistryInvariant, PTL

\* Handlers that run one after the other leave no registration with an NP
\* that is gone.
THEOREM RegistryNoDangling == Spec => []NoDangling
<1>1. IInv => NoDangling
  BY DEF IInv
<1> QED
  BY <1>1, RegistryInvariant, PTL

\* The hash holds no APP twice, and only APPs in it have registrations.
THEOREM RegistryHashOrder == Spec => []HashOrder
<1>1. IInv => HashOrder
  BY DEF IInv
<1> QED
  BY <1>1, RegistryInvariant, PTL

\* app_count is never less than the number of APPs registered.
THEOREM RegistryAppCount == Spec => []AppCountAtLeast
<1>1. IInv => AppCountAtLeast
  BY DEF IInv
<1> QED
  BY <1>1, RegistryInvariant, PTL
\* A provider that every APP lists is taken out of every list, and no other
\* registration goes with it: where np_count is 1, the one name is n.
LEMMA UnregisterNpExactStep ==
  ASSUME IInv, NEW n \in NPs, UnregisterNp(n), \A a \in Registered : n \in np_list[a]
  PROVE  np_list' = [a \in Apps |-> np_list[a] \ {n}]
<1>1. ~Hopeless(n)
  BY DEF Hopeless
<1>2. np_list' = [a \in Apps |-> IF a \in Registered THEN Unlisted(a, n) ELSE np_list[a]]
  BY <1>1 DEF UnregisterNp
<1>3. ASSUME NEW a \in Registered PROVE Unlisted(a, n) = np_list[a] \ {n}
  <2>1. CASE np_count[a] = 1
    <3>1. a \in Apps
      BY LenProperties, ElementOfSeq DEF IInv, TypeOK, Registered
    <3>2. IsFiniteSet(np_list[a]) /\ Cardinality(np_list[a]) = 1
      BY <2>1, <3>1, ListsFinite DEF IInv, NpCountMatches
    <3>3. PICK x : np_list[a] = {x}
      BY <3>2, FS_Singleton
    <3> QED
      BY <2>1, <3>3 DEF Unlisted
  <2>2. CASE np_count[a] # 1
    BY <2>2 DEF Unlisted
  <2> QED
    BY <2>1, <2>2
<1>4. ASSUME NEW a \in Apps \ Registered PROVE np_list[a] = np_list[a] \ {n}
  BY DEF IInv, HashOrder
<1> QED
  BY <1>2, <1>3, <1>4

\* unregister_np of a provider that every APP lists removes exactly its
\* registrations.
THEOREM RegistryUnregisterNpExact == Spec => UnregisterNpExact
<1>1. IInv /\ [Next]_vars =>
        [\A n \in NPs : UnregisterNp(n) /\ (\A a \in Registered : n \in np_list[a])
            => np_list' = [a \in Apps |-> np_list[a] \ {n}]]_vars
  BY UnregisterNpExactStep
<1> QED
  BY <1>1, RegistryInvariant, PTL DEF Spec, UnregisterNpExact
=============================================================================
