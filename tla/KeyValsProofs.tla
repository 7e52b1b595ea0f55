--------------------------- MODULE KeyValsProofs ---------------------------
(***************************************************************************)
(* Whatever texts are taken apart at the same time, no array overflows and *)
(* the library gets the keys its NP was registered with; and where strtok  *)
(* has mixed nothing up, requests are accepted, converted and looked up    *)
(* as their texts say.                                                     *)
(***************************************************************************)
EXTENDS KeyVals, FiniteSetTheorems, SequenceTheorems, WellFoundedInduction, TLAPS

Pieces == Elements \cup {Junk}

Typed ==
    /\ text \in [Threads -> Seq(Elements)]
    /\ \A t \in Threads : text[t] \in Texts[t]
    /\ pc \in [Threads -> {"names", "first", "next", "compare", "unknown", "refused",
                           "convert", "lookup", "done", "fault"}]
    /\ pc[Np] \in {"names", "first", "next", "done"}
    /\ save \in [of : Threads, rest : Seq(Pieces)]
    /\ tokens \in [Threads -> Seq(Pieces)]
    /\ key_val_arr \in Seq(Pieces)
    /\ argssend \in [Requests -> [pairs : Seq(Pieces), hash : BOOLEAN]]
    /\ found \in [Requests -> [key : Keys \cup {"none"}, val : Vals \cup {NoVal, FAULT},
                               copy : BOOLEAN]]
    /\ alone \in [Threads -> BOOLEAN]

\* The array of the NP is the one its thread has made, and is made once.
Stored == /\ pc[Np] # "done" => key_val_arr = <<>>
          /\ pc[Np] = "done" => key_val_arr = tokens[Np] /\ key_val_arr # <<>>

\* The elements taken fit into the room there is for them.
Fits(t) == /\ Len(tokens[t]) <= Count(text[t])
           /\ pc[t] \notin {"names", "first"} => tokens[t] # <<>>

\* What was taken without a disturbance, and what is left, is the text.
Taken(t) == alone[t] =>
    /\ pc[t] = "next" => /\ save.of = t /\ save.rest \in Seq(Elements)
                         /\ tokens[t] \o save.rest = text[t]
    /\ pc[t] \notin {"names", "first", "next"} /\ Pairs(text[t]) => tokens[t] = text[t]

\* What was decided still follows from the two arrays.
Decided(r) ==
    /\ pc[r] \in {"convert", "lookup", "fault"} =>
          key_val_arr # <<>> /\ Accepts(key_val_arr, tokens[r])
    /\ pc[r] = "refused" => key_val_arr # <<>> /\ ~Accepts(key_val_arr, tokens[r])
    /\ pc[r] \in {"lookup", "fault"} => argssend[r] = ForwardConvert(key_val_arr, tokens[r])

\* What was looked up was in the string that was made.
LookedUp(r) == found[r] # NotYet =>
    /\ pc[r] \in {"lookup", "fault"} /\ found[r].key \in Keys
    /\ found[r].val \in ValFromArgs(IF found[r].copy THEN Copied(argssend[r]) ELSE argssend[r],
                                    found[r].key)

KInv == /\ Typed /\ Stored
        /\ \A t \in Threads : Fits(t) /\ Taken(t)
        /\ \A r \in Requests : Decided(r) /\ LookedUp(r)

-----------------------------------------------------------------------------
(* The operators of the model. *)

\* A nonempty set of numbers has a least one, which Min chooses.
LEMMA MinIs ==
    ASSUME NEW S \in SUBSET Nat, S # {}
    PROVE  Min(S) \in S /\ \A j \in S : Min(S) <= j
<1>1. PICK m \in S : \A j \in S : <<j, m>> \notin OpToRel(<, Nat)
  BY WFMin, NatLessThanWellFounded, Zenon
<1>2. ASSUME NEW j \in S PROVE m <= j
  <2>1. <<j, m>> \in Nat \X Nat
    OBVIOUS
  <2>2. ~(j < m)
    BY <1>1, <2>1, Zenon DEF OpToRel
  <2> QED
    BY <2>2
<1>3. \E n \in S : \A j \in S : n <= j
  BY <1>2
<1> QED
  BY <1>3 DEF Min

\* The place of the first element with this key; 0 if there is none.
First(s, key) == LET I == {i \in 1..Len(s) : s[i].key = key}
                 IN  IF I # {} THEN Min(I) ELSE 0

LEMMA FirstIs ==
    ASSUME NEW s \in Seq(Pieces), NEW key
    PROVE  /\ First(s, key) \in 0..Len(s)
           /\ First(s, key) = 0 => \A i \in 1..Len(s) : s[i].key # key
           /\ First(s, key) # 0 => /\ s[First(s, key)].key = key
                                   /\ \A i \in 1..Len(s) : s[i].key = key => First(s, key) <= i
<1> DEFINE I == {i \in 1..Len(s) : s[i].key = key}
<1>1. CASE I = {}
  BY <1>1 DEF First
<1>2. CASE I # {}
  <2>1. First(s, key) = Min(I)
    BY <1>2 DEF First
  <2>2. Min(I) \in I /\ \A j \in I : Min(I) <= j
    <3>1. I \in SUBSET Nat
      OBVIOUS
    <3> HIDE DEF I
    <3> QED
      BY <1>2, <3>1, MinIs
  <2> HIDE DEF First
  <2> QED
    BY <2>1, <2>2
<1> QED
  BY <1>1, <1>2

\* Nothing else is there first.
LEMMA FirstOnly ==
    ASSUME NEW s \in Seq(Pieces), NEW key
    PROVE  \A k \in 1..Len(s) :
              /\ s[k].key = key
              /\ \A i \in 1..Len(s) : s[i].key = key => k <= i
              => First(s, key) = k
<1>1. ASSUME NEW k \in 1..Len(s), s[k].key = key,
             \A i \in 1..Len(s) : s[i].key = key => k <= i
      PROVE  First(s, key) = k
  <2>1. First(s, key) # 0 /\ First(s, key) \in 1..Len(s)
    BY <1>1, FirstIs
  <2>2. First(s, key) <= k /\ k <= First(s, key)
    BY <1>1, <2>1, FirstIs
  <2> QED
    BY <2>1, <2>2
<1> QED
  BY <1>1

LEMMA ForwardConvertIs ==
    ASSUME NEW two, NEW one
    PROVE  ForwardConvert(two, one) =
             [pairs |-> [j \in DOMAIN two |->
                           IF First(one, two[j].key) = 0 THEN two[j]
                           ELSE one[First(one, two[j].key)]],
              hash  |-> TRUE]
  BY DEF ForwardConvert, SelectInSeq, First

\* forward_convert makes one element for each of the NP's, with its key.
LEMMA ForwardConvertKeys ==
    ASSUME NEW two \in Seq(Pieces), NEW one \in Seq(Pieces)
    PROVE  /\ ForwardConvert(two, one) \in [pairs : Seq(Pieces), hash : BOOLEAN]
           /\ Len(ForwardConvert(two, one).pairs) = Len(two)
           /\ ForwardConvert(two, one).hash = TRUE
           /\ \A j \in 1..Len(two) :
                 /\ ForwardConvert(two, one).pairs[j] =
                       IF First(one, two[j].key) = 0 THEN two[j]
                       ELSE one[First(one, two[j].key)]
                 /\ ForwardConvert(two, one).pairs[j].key = two[j].key
<1> DEFINE e(j) == IF First(one, two[j].key) = 0 THEN two[j] ELSE one[First(one, two[j].key)]
           p == [j \in 1..Len(two) |-> e(j)]
<1>1. Len(two) \in Nat /\ DOMAIN two = 1..Len(two)
  BY LenProperties
<1>2. ForwardConvert(two, one) = [pairs |-> p, hash |-> TRUE]
  BY <1>1, ForwardConvertIs
<1>3. ASSUME NEW j \in 1..Len(two) PROVE e(j) \in Pieces /\ e(j).key = two[j].key
  <2>1. /\ First(one, two[j].key) \in 0..Len(one)
        /\ First(one, two[j].key) # 0 => one[First(one, two[j].key)].key = two[j].key
    BY FirstIs
  <2> QED
    BY <2>1
<1> HIDE DEF e
<1>4. p \in Seq(Pieces) /\ Len(p) = Len(two) /\ \A j \in 1..Len(two) : p[j] = e(j)
  BY <1>1, <1>3
<1> HIDE DEF p
<1> QED
  BY <1>2, <1>3, <1>4 DEF e

\* A text has at least one element, and the first has a "::".
LEMMA TextCount ==
    ASSUME NEW t \in Threads, NEW x \in Texts[t]
    PROVE  /\ x \in Seq(Elements) /\ x \in Seq(Pieces) /\ x # <<>> /\ Len(x) \in Nat \ {0}
           /\ Count(x) \in Nat \ {0}
           /\ Pairs(x) => \A i \in 1..Len(x) : x[i].val # NoVal
<1>1. x \in Seq(Elements) /\ x # <<>> /\ x[1].val # NoVal
  BY KeyValsAssumption
<1>2. Len(x) \in Nat \ {0} /\ DOMAIN x = 1..Len(x)
  BY <1>1, EmptySeq, LenProperties
<1> DEFINE C == {i \in DOMAIN x : x[i].val # NoVal}
<1>3. IsFiniteSet(1..Len(x)) /\ Cardinality(1..Len(x)) = Len(x)
  BY <1>2, FS_Interval
<1>4. C \in SUBSET (1..Len(x)) /\ 1 \in C
  BY <1>1, <1>2
<1>5. IsFiniteSet(C) /\ (Cardinality(1..Len(x)) = Cardinality(C) => 1..Len(x) = C)
  BY <1>3, <1>4, FS_Subset
<1>6. Cardinality(C) \in Nat /\ Cardinality(C) # 0
  BY <1>4, <1>5, FS_CardinalityType, FS_EmptySet
<1>7. Count(x) = Cardinality(C)
  BY DEF Count
<1>8. Pairs(x) => \A i \in 1..Len(x) : i \in C
  BY <1>3, <1>5, <1>7 DEF Pairs
<1>9. x \in Seq(Pieces)
  BY <1>1 DEF Pieces
<1> QED
  BY <1>1, <1>2, <1>6, <1>7, <1>8, <1>9

LEMMA HeadThenTail ==
    ASSUME NEW S, NEW s \in Seq(S), s # <<>>
    PROVE  <<Head(s)>> \in Seq(S) /\ Tail(s) \in Seq(S) /\ <<Head(s)>> \o Tail(s) = s
<1>1. Head(s) \in S /\ Tail(s) \in Seq(S) /\ <<Head(s)>> \in Seq(S)
  BY HeadTailProperties
<1>2. <<Head(s)>> \o Tail(s) \in Seq(S) /\ Len(<<Head(s)>> \o Tail(s)) = Len(s)
  BY <1>1, HeadTailProperties, ConcatProperties
<1>3. ASSUME NEW i \in 1..Len(s) PROVE (<<Head(s)>> \o Tail(s))[i] = s[i]
  BY <1>1, HeadTailProperties, ConcatProperties
<1> QED
  BY <1>1, <1>2, <1>3, SeqEqual

\* Before and after an element is taken, the elements are the same.
LEMMA TakeOne ==
    ASSUME NEW S, NEW s \in Seq(S), NEW rest \in Seq(S), rest # <<>>
    PROVE  /\ Append(s, Head(rest)) \in Seq(S) /\ Len(Append(s, Head(rest))) = Len(s) + 1
           /\ Append(s, Head(rest)) # <<>>
           /\ Tail(rest) \in Seq(S)
           /\ Append(s, Head(rest)) \o Tail(rest) = s \o rest
<1>1. /\ Head(rest) \in S /\ Tail(rest) \in Seq(S) /\ <<Head(rest)>> \in Seq(S)
      /\ <<Head(rest)>> \o Tail(rest) = rest
  BY HeadTailProperties, HeadThenTail
<1>2. /\ Append(s, Head(rest)) \in Seq(S) /\ Len(Append(s, Head(rest))) = Len(s) + 1
      /\ Append(s, Head(rest)) # <<>>
      /\ Append(s, Head(rest)) = s \o <<Head(rest)>>
  BY <1>1, AppendProperties, AppendIsConcat
<1> QED
  BY <1>1, <1>2, ConcatAssociative

-----------------------------------------------------------------------------
(* What the steps have in common. *)

\* A step of u changes nothing of the others, but strtok's position; and that only of
\* those it disturbs.
Moves(u) ==
    /\ UNCHANGED text
    /\ \A t \in Threads \ {u} :
          /\ pc'[t] = pc[t] /\ tokens'[t] = tokens[t]
          /\ alone'[t] => alone[t] /\ (UNCHANGED save \/ pc[t] # "next")
    /\ \A r \in Requests \ {u} : argssend'[r] = argssend[r] /\ found'[r] = found[r]
    /\ alone'[u] = alone[u]
    /\ key_val_arr # <<>> => UNCHANGED key_val_arr

LEMMA OthersKeep ==
    ASSUME KInv, NEW u \in Threads, Moves(u)
    PROVE  /\ \A t \in Threads \ {u} : Fits(t)' /\ Taken(t)'
           /\ \A r \in Requests \ {u} : Decided(r)' /\ LookedUp(r)'
<1>1. ASSUME NEW t \in Threads \ {u} PROVE Fits(t)' /\ Taken(t)'
  <2>1. Fits(t) /\ Taken(t)
    BY DEF KInv
  <2>2. text'[t] = text[t] /\ pc'[t] = pc[t] /\ tokens'[t] = tokens[t]
    BY DEF Moves
  <2>3. Fits(t)'
    BY <2>1, <2>2 DEF Fits
  <2>4. alone'[t] => alone[t] /\ (UNCHANGED save \/ pc[t] # "next")
    BY DEF Moves
  <2>5. Taken(t)'
    BY <2>1, <2>2, <2>4 DEF Taken
  <2> QED
    BY <2>3, <2>5
<1>2. ASSUME NEW r \in Requests \ {u} PROVE Decided(r)' /\ LookedUp(r)'
  <2>1. Decided(r) /\ LookedUp(r)
    BY DEF KInv
  <2>2. /\ pc'[r] = pc[r] /\ tokens'[r] = tokens[r]
        /\ argssend'[r] = argssend[r] /\ found'[r] = found[r]
        /\ key_val_arr # <<>> => key_val_arr' = key_val_arr
    BY DEF Moves, Threads
  <2>3. Decided(r)'
    BY <2>1, <2>2 DEF Decided
  <2>4. LookedUp(r)'
    BY <2>1, <2>2 DEF LookedUp
  <2> QED
    BY <2>3, <2>4
<1> QED
  BY <1>1, <1>2

\* So all that is left to show of a step is what it does to u itself.
LEMMA KInvAfter ==
    ASSUME KInv, NEW u \in Threads, Moves(u), Typed', Stored', Fits(u)', Taken(u)',
           u \in Requests => Decided(u)' /\ LookedUp(u)'
    PROVE  KInv'
<1>1. \A t \in Threads : Fits(t)' /\ Taken(t)'
  BY OthersKeep
<1>2. \A r \in Requests : Decided(r)' /\ LookedUp(r)'
  BY OthersKeep
<1> QED
  BY <1>1, <1>2 DEF KInv

\* What strtok disturbs.
LEMMA Disturbs ==
    ASSUME Typed, NEW u \in Threads, Disturb(u)
    PROVE  /\ alone' \in [Threads -> BOOLEAN] /\ alone'[u] = alone[u]
           /\ \A t \in Threads \ {u} : alone'[t] => alone[t] /\ pc[t] # "next"
  BY DEF Disturb, Typed

\* A thread that calls strtok on a text of its own.
LEMMA Extracts ==
    ASSUME Typed, NEW u \in Threads, KeyExtracted(u)
    PROVE  /\ save' \in [of : Threads, rest : Seq(Pieces)]
           /\ alone' \in [Threads -> BOOLEAN] /\ alone'[u] = alone[u]
           /\ \A t \in Threads \ {u} : alone'[t] => alone[t] /\ pc[t] # "next"
<1>1. <<Junk>> \in Seq(Pieces)
  BY DEF Pieces
<1>2. save' = [of |-> u, rest |-> <<Junk>>]
  BY DEF KeyExtracted
<1>3. save' \in [of : Threads, rest : Seq(Pieces)]
  BY <1>1, <1>2
<1> QED
  BY <1>3, Disturbs DEF KeyExtracted

-----------------------------------------------------------------------------
(* One lemma per step of a thread. *)

LEMMA NamesStep ==
    ASSUME KInv, NEW t \in Threads, Names(t)
    PROVE  KInv'
<1>1. Typed /\ Stored /\ Fits(t) /\ Taken(t)
  BY DEF KInv
<1>2. /\ KeyExtracted(t) /\ Goto(t, "first") /\ pc[t] = "names"
      /\ UNCHANGED <<text, tokens, key_val_arr, argssend, found>>
  BY DEF Names
<1>3. pc' = [pc EXCEPT ![t] = "first"] /\ pc'[t] = "first"
  BY <1>1, <1>2 DEF Goto, Typed
<1>4. Typed'
  <2>1. pc'[Np] \in {"names", "first", "next", "done"}
    BY <1>1, <1>3 DEF Typed, Threads
  <2> QED
    BY <1>1, <1>2, <1>3, <2>1, Extracts DEF Typed
<1>5. Moves(t)
  BY <1>1, <1>2, <1>3, Extracts DEF Moves, Typed
<1>6. Stored'
  BY <1>1, <1>2, <1>3 DEF Stored, Typed, Threads
<1>7. Fits(t)' /\ Taken(t)'
  BY <1>1, <1>2, <1>3 DEF Fits, Taken
<1>8. t \in Requests => Decided(t)' /\ LookedUp(t)'
  <2>1. ASSUME t \in Requests PROVE Decided(t) /\ LookedUp(t)
    BY <2>1 DEF KInv
  <2> QED
    BY <1>2, <1>3, <2>1 DEF Decided, LookedUp
<1> QED
  BY <1>4, <1>5, <1>6, <1>7, <1>8, KInvAfter

\* extract_key_val takes the first element.
LEMMA FirstTokenStep ==
    ASSUME KInv, NEW t \in Threads, FirstToken(t)
    PROVE  KInv'
<1>1. Typed /\ Stored /\ Fits(t) /\ Taken(t)
  BY DEF KInv
<1> DEFINE x == text[t]
<1>2. /\ pc[t] = "first" /\ Goto(t, "next") /\ Disturb(t)
      /\ tokens' = [tokens EXCEPT ![t] = <<Head(x)>>]
      /\ save' = [of |-> t, rest |-> Tail(x)]
      /\ UNCHANGED <<text, key_val_arr, argssend, found>>
  BY DEF FirstToken
<1>3. /\ x \in Seq(Elements) /\ x \in Seq(Pieces) /\ x # <<>> /\ Count(x) \in Nat \ {0}
  BY <1>1, TextCount DEF Typed
<1>4. /\ <<Head(x)>> \in Seq(Elements) /\ Tail(x) \in Seq(Elements)
      /\ <<Head(x)>> \o Tail(x) = x
      /\ <<Head(x)>> \in Seq(Pieces) /\ Tail(x) \in Seq(Pieces)
  BY <1>3, HeadThenTail
<1>5. /\ pc' = [pc EXCEPT ![t] = "next"] /\ pc'[t] = "next"
      /\ tokens'[t] = <<Head(x)>> /\ text'[t] = x
      /\ tokens' \in [Threads -> Seq(Pieces)]
  BY <1>1, <1>2, <1>4 DEF Goto, Typed
<1>6. save' \in [of : Threads, rest : Seq(Pieces)] /\ save'.of = t /\ save'.rest = Tail(x)
  BY <1>2, <1>4
<1>7. Typed'
  <2>1. pc'[Np] \in {"names", "first", "next", "done"}
    BY <1>1, <1>5 DEF Typed, Threads
  <2>2. alone' \in [Threads -> BOOLEAN]
    BY <1>1, <1>2, Disturbs
  <2> QED
    BY <1>1, <1>2, <1>5, <1>6, <2>1, <2>2 DEF Typed
<1>8. Moves(t)
  <2>1. /\ alone'[t] = alone[t]
        /\ \A u \in Threads \ {t} : alone'[u] => alone[u] /\ pc[u] # "next"
    BY <1>1, <1>2, Disturbs
  <2> QED
    BY <1>1, <1>2, <1>5, <2>1 DEF Moves, Typed
<1>9. Stored'
  BY <1>1, <1>2, <1>5 DEF Stored, Typed, Threads
<1>10. Fits(t)'
  <2>1. Len(<<Head(x)>>) = 1 /\ <<Head(x)>> # <<>>
    OBVIOUS
  <2> QED
    BY <1>3, <1>5, <2>1 DEF Fits
<1>11. Taken(t)'
  BY <1>4, <1>5, <1>6 DEF Taken
<1>12. t \in Requests => Decided(t)' /\ LookedUp(t)'
  <2>1. ASSUME t \in Requests PROVE Decided(t) /\ LookedUp(t)
    BY <2>1 DEF KInv
  <2> QED
    BY <1>2, <1>5, <2>1 DEF Decided, LookedUp
<1> QED
  BY <1>7, <1>8, <1>9, <1>10, <1>11, <1>12, KInvAfter

LEMMA LeftIs ==
    ASSUME Typed
    PROVE  /\ \A rest \in Left : rest \in Seq(Pieces)
           /\ pc[save.of] = "next" => Left = {save.rest}
<1>1. <<>> \in Seq(Pieces) /\ <<Junk>> \in Seq(Pieces)
  BY DEF Pieces
<1>2. save.rest \in Seq(Pieces)
  BY DEF Typed
<1> QED
  BY <1>1, <1>2 DEF Left

\* It takes another one, from whatever text strtok is in.
LEMMA NextTokenStep ==
    ASSUME KInv, NEW t \in Threads, NextToken(t)
    PROVE  KInv'
<1>1. Typed /\ Stored /\ Fits(t) /\ Taken(t)
  BY DEF KInv
<1>2. PICK rest \in Left \ {<<>>} :
         /\ tokens' = [tokens EXCEPT ![t] = Append(@, Head(rest))]
         /\ save' = [save EXCEPT !.rest = Tail(rest)]
  BY DEF NextToken
<1>3. /\ pc[t] = "next" /\ Len(tokens[t]) < Count(text[t]) /\ Disturb(t)
      /\ UNCHANGED <<text, pc, key_val_arr, argssend, found>>
  BY DEF NextToken
<1>4. /\ rest \in Seq(Pieces) /\ rest # <<>> /\ tokens[t] \in Seq(Pieces)
      /\ text[t] \in Texts[t] /\ text[t] \in Seq(Elements)
  BY <1>1, <1>2, LeftIs DEF Typed
<1>5. /\ Append(tokens[t], Head(rest)) \in Seq(Pieces)
      /\ Len(Append(tokens[t], Head(rest))) = Len(tokens[t]) + 1
      /\ Append(tokens[t], Head(rest)) # <<>>
      /\ Tail(rest) \in Seq(Pieces)
      /\ Append(tokens[t], Head(rest)) \o Tail(rest) = tokens[t] \o rest
  BY <1>4, TakeOne
<1>6. /\ tokens' \in [Threads -> Seq(Pieces)] /\ tokens'[t] = Append(tokens[t], Head(rest))
      /\ \A u \in Threads \ {t} : tokens'[u] = tokens[u]
  BY <1>1, <1>2, <1>5 DEF Typed
<1>7. /\ save' \in [of : Threads, rest : Seq(Pieces)]
      /\ save'.of = save.of /\ save'.rest = Tail(rest)
  BY <1>1, <1>2, <1>5 DEF Typed
<1>8. Typed'
  <2>1. alone' \in [Threads -> BOOLEAN]
    BY <1>1, <1>3, Disturbs
  <2> QED
    BY <1>1, <1>3, <1>6, <1>7, <2>1 DEF Typed
<1>9. Moves(t)
  <2>1. /\ alone'[t] = alone[t]
        /\ \A u \in Threads \ {t} : alone'[u] => alone[u] /\ pc[u] # "next"
    BY <1>1, <1>3, Disturbs
  <2> QED
    BY <1>3, <1>6, <2>1 DEF Moves
<1>10. Stored'
  BY <1>1, <1>3, <1>6 DEF Stored, Threads
<1>11. Fits(t)'
  <2>1. Count(text[t]) \in Nat /\ Len(tokens[t]) \in Nat
    BY <1>4, TextCount, LenProperties
  <2> QED
    BY <1>3, <1>5, <1>6, <2>1 DEF Fits
<1>12. Taken(t)'
  <2>1. SUFFICES ASSUME alone'[t]
                 PROVE  /\ save'.of = t /\ save'.rest \in Seq(Elements)
                        /\ tokens'[t] \o save'.rest = text[t]
    BY <1>3 DEF Taken
  <2>2. alone[t]
    BY <1>1, <1>3, <2>1, Disturbs
  <2>3. /\ save.of = t /\ save.rest \in Seq(Elements)
        /\ tokens[t] \o save.rest = text[t]
    BY <1>1, <1>3, <2>2 DEF Taken
  <2>4. rest = save.rest
    BY <1>1, <1>2, <1>3, <2>3, LeftIs
  <2>5. Tail(rest) \in Seq(Elements)
    BY <1>4, <2>3, <2>4, HeadThenTail
  <2> QED
    BY <1>5, <1>6, <1>7, <2>3, <2>4, <2>5
<1>13. t \in Requests => Decided(t)' /\ LookedUp(t)'
  <2>1. ASSUME t \in Requests PROVE Decided(t) /\ LookedUp(t)
    BY <2>1 DEF KInv
  <2> QED
    BY <1>3, <2>1 DEF Decided, LookedUp
<1> QED
  BY <1>8, <1>9, <1>10, <1>11, <1>12, <1>13, KInvAfter

\* extract_key_val returns.
LEMMA ExtractedStep ==
    ASSUME KInv, NEW t \in Threads, Extracted(t)
    PROVE  KInv'
<1>1. Typed /\ Stored /\ Fits(t) /\ Taken(t)
  BY DEF KInv
<1>2. /\ pc[t] = "next" /\ (Len(tokens[t]) >= Count(text[t]) \/ <<>> \in Left)
      /\ UNCHANGED <<text, save, tokens, argssend, found, alone>>
  BY DEF Extracted
<1>3. PICK place \in {"done", "compare"} :
         /\ Goto(t, place) /\ (place = "done" <=> t = Np)
         /\ key_val_arr' = IF t = Np THEN tokens[t] ELSE key_val_arr
  BY DEF Extracted
<1>4. pc' = [pc EXCEPT ![t] = place] /\ pc'[t] = place
  BY <1>1, <1>3 DEF Goto, Typed
<1>5. t = Np => key_val_arr = <<>>
  BY <1>1, <1>2 DEF Stored
<1>6. Typed'
  <2>1. pc'[Np] \in {"names", "first", "next", "done"}
    BY <1>1, <1>3, <1>4 DEF Typed, Threads
  <2>2. key_val_arr' \in Seq(Pieces)
    BY <1>1, <1>3 DEF Typed
  <2> QED
    BY <1>1, <1>2, <1>4, <2>1, <2>2 DEF Typed
<1>7. Moves(t)
  BY <1>1, <1>2, <1>3, <1>4, <1>5 DEF Moves, Typed
<1>8. Stored'
  BY <1>1, <1>2, <1>3, <1>4 DEF Stored, Typed, Threads, Fits
<1>9. Fits(t)'
  BY <1>1, <1>2 DEF Fits
<1>10. Taken(t)'
  <2>1. SUFFICES ASSUME alone[t], Pairs(text[t]) PROVE tokens[t] = text[t]
    BY <1>2, <1>4 DEF Taken
  <2>2. /\ save.of = t /\ save.rest \in Seq(Elements)
        /\ tokens[t] \o save.rest = text[t]
    BY <1>1, <1>2, <2>1 DEF Taken
  <2>3. tokens[t] \in Seq(Pieces) /\ save.rest \in Seq(Pieces)
    BY <1>1 DEF Typed
  <2>4. save.rest = <<>>
    <3>1. CASE <<>> \in Left
      BY <1>1, <1>2, <2>2, <3>1, LeftIs
    <3>2. CASE Len(tokens[t]) >= Count(text[t])
      <4>1. Len(tokens[t] \o save.rest) = Len(tokens[t]) + Len(save.rest)
        BY <2>3, ConcatProperties
      <4>2. Len(tokens[t] \o save.rest) = Count(text[t])
        BY <2>1, <2>2 DEF Pairs
      <4>3. Len(tokens[t]) \in Nat /\ Len(save.rest) \in Nat
        BY <2>3, LenProperties
      <4>4. Len(save.rest) = 0
        <5>1. Len(tokens[t]) >= Len(tokens[t]) + Len(save.rest)
          BY <3>2, <4>1, <4>2
        <5>2. \A m, n \in Nat : m >= m + n => n = 0
          OBVIOUS
        <5> QED
          BY <4>3, <5>1, <5>2, Zenon
      <4> QED
        BY <2>3, <4>4, EmptySeq
    <3> QED
      BY <1>2, <3>1, <3>2
  <2> QED
    BY <2>2, <2>3, <2>4, ConcatEmptySeq
<1>11. t \in Requests => Decided(t)' /\ LookedUp(t)'
  <2>1. ASSUME t \in Requests PROVE Decided(t) /\ LookedUp(t) /\ place = "compare"
    BY <1>3, <2>1, KeyValsAssumption DEF KInv
  <2> QED
    BY <1>2, <1>4, <2>1 DEF Decided, LookedUp
<1> QED
  BY <1>6, <1>7, <1>8, <1>9, <1>10, <1>11, KInvAfter

\* compare_array, where the NP is registered.
LEMMA CompareStep ==
    ASSUME KInv, NEW r \in Requests, Compare(r)
    PROVE  KInv'
<1>1. /\ Typed /\ Stored /\ Fits(r) /\ Taken(r) /\ Decided(r) /\ LookedUp(r)
      /\ r \in Threads /\ r # Np
  BY KeyValsAssumption DEF KInv, Threads
<1>2. pc[r] = "compare" /\ UNCHANGED <<text, tokens, key_val_arr, argssend, found>>
  BY DEF Compare
<1>3. PICK place \in {"unknown", "convert", "refused"} :
         /\ Goto(r, place)
         /\ place = "convert" => key_val_arr # <<>> /\ Accepts(key_val_arr, tokens[r])
         /\ place = "refused" => key_val_arr # <<>> /\ ~Accepts(key_val_arr, tokens[r])
  BY DEF Compare
<1>4. KeyExtracted(r) \/ UNCHANGED <<save, alone>>
  BY DEF Compare
<1>5. /\ save' \in [of : Threads, rest : Seq(Pieces)]
      /\ alone' \in [Threads -> BOOLEAN] /\ alone'[r] = alone[r]
      /\ \A t \in Threads \ {r} : alone'[t] => alone[t] /\ (UNCHANGED save \/ pc[t] # "next")
  BY <1>1, <1>4, Extracts DEF Typed
<1>6. pc' = [pc EXCEPT ![r] = place] /\ pc'[r] = place /\ pc'[Np] = pc[Np]
  BY <1>1, <1>3 DEF Goto, Typed, Threads
<1>7. Typed'
  BY <1>1, <1>2, <1>5, <1>6 DEF Typed
<1>8. Moves(r)
  BY <1>1, <1>2, <1>5, <1>6 DEF Moves, Typed
<1>9. Stored'
  BY <1>1, <1>2, <1>6 DEF Stored
<1>10. Fits(r)' /\ Taken(r)'
  BY <1>1, <1>2, <1>5, <1>6 DEF Fits, Taken
<1>11. Decided(r)' /\ LookedUp(r)'
  BY <1>1, <1>2, <1>3, <1>6 DEF Decided, LookedUp
<1> QED
  BY <1>1, <1>7, <1>8, <1>9, <1>10, <1>11, KInvAfter

\* forward_convert.
LEMMA ConvertStep ==
    ASSUME KInv, NEW r \in Requests, Convert(r)
    PROVE  KInv'
<1>1. /\ Typed /\ Stored /\ Fits(r) /\ Taken(r) /\ Decided(r) /\ LookedUp(r)
      /\ r \in Threads /\ r # Np
  BY KeyValsAssumption DEF KInv, Threads
<1>2. /\ pc[r] = "convert" /\ Goto(r, "lookup") /\ KeyExtracted(r)
      /\ argssend' = [argssend EXCEPT ![r] = ForwardConvert(key_val_arr, tokens[r])]
      /\ UNCHANGED <<text, tokens, key_val_arr, found>>
  BY DEF Convert
<1>3. ForwardConvert(key_val_arr, tokens[r]) \in [pairs : Seq(Pieces), hash : BOOLEAN]
  BY <1>1, ForwardConvertKeys DEF Typed
<1>4. /\ argssend' \in [Requests -> [pairs : Seq(Pieces), hash : BOOLEAN]]
      /\ argssend'[r] = ForwardConvert(key_val_arr, tokens[r])
      /\ \A q \in Requests \ {r} : argssend'[q] = argssend[q]
  BY <1>1, <1>2, <1>3 DEF Typed
<1>5. /\ save' \in [of : Threads, rest : Seq(Pieces)]
      /\ alone' \in [Threads -> BOOLEAN] /\ alone'[r] = alone[r]
      /\ \A t \in Threads \ {r} : alone'[t] => alone[t] /\ pc[t] # "next"
  BY <1>1, <1>2, Extracts
<1>6. pc' = [pc EXCEPT ![r] = "lookup"] /\ pc'[r] = "lookup" /\ pc'[Np] = pc[Np]
  BY <1>1, <1>2 DEF Goto, Typed, Threads
<1>7. Typed'
  BY <1>1, <1>2, <1>4, <1>5, <1>6 DEF Typed
<1>8. Moves(r)
  BY <1>1, <1>2, <1>4, <1>5, <1>6 DEF Moves, Typed
<1>9. Stored'
  BY <1>1, <1>2, <1>6 DEF Stored
<1>10. Fits(r)' /\ Taken(r)'
  BY <1>1, <1>2, <1>5, <1>6 DEF Fits, Taken
<1>11. Decided(r)'
  BY <1>1, <1>2, <1>4, <1>6 DEF Decided
<1>12. LookedUp(r)'
  BY <1>1, <1>2 DEF LookedUp
<1> QED
  BY <1>1, <1>7, <1>8, <1>9, <1>10, <1>11, <1>12, KInvAfter

\* What a lookup finds is a value of the string, or a NULL pointer.
LEMMA ValFromArgsType ==
    ASSUME NEW args \in [pairs : Seq(Pieces), hash : BOOLEAN], NEW key,
           NEW v \in ValFromArgs(args, key)
    PROVE  v \in Vals \cup {NoVal, FAULT}
<1> DEFINE hits == {i \in DOMAIN args.pairs :
                      /\ args.pairs[i].val # NoVal
                      /\ args.pairs[i].key = key \/ <<args.pairs[i].key, key>> \in EndsWith}
<1>1. args.pairs \in Seq(Pieces) /\ DOMAIN args.pairs = 1..Len(args.pairs)
  BY LenProperties
<1>2. v = FAULT \/ (hits # {} /\ v = args.pairs[Min(hits)].val)
  BY DEF ValFromArgs
<1>3. ASSUME hits # {} PROVE Min(hits) \in 1..Len(args.pairs)
  <2>1. hits \in SUBSET Nat /\ hits \subseteq 1..Len(args.pairs)
    BY <1>1
  <2> HIDE DEF hits
  <2> QED
    BY <1>3, <2>1, MinIs
<1> HIDE DEF hits
<1>4. \A p \in Pieces : p.val \in Vals \cup {NoVal}
  BY DEF Pieces, Elements, Junk
<1> QED
  BY <1>1, <1>2, <1>3, <1>4, ElementOfSeq

\* A key is looked up in the string or in its copy.
LEMMA LookupStep ==
    ASSUME KInv, NEW r \in Requests, NEW k \in Keys, NEW copy \in BOOLEAN, Lookup(r, k, copy)
    PROVE  KInv'
<1>1. /\ Typed /\ Stored /\ Fits(r) /\ Taken(r) /\ Decided(r) /\ LookedUp(r)
      /\ r \in Threads /\ r # Np
  BY KeyValsAssumption DEF KInv, Threads
<1> DEFINE args == IF copy THEN Copied(argssend[r]) ELSE argssend[r]
<1>2. /\ pc[r] = "lookup" /\ KeyExtracted(r)
      /\ UNCHANGED <<text, tokens, key_val_arr, argssend>>
  BY DEF Lookup
<1>3. PICK v \in ValFromArgs(args, k) :
         /\ found' = [found EXCEPT ![r] = [key |-> k, val |-> v, copy |-> copy]]
         /\ Goto(r, IF v = FAULT THEN "fault" ELSE "lookup")
  BY DEF Lookup
<1>4. args \in [pairs : Seq(Pieces), hash : BOOLEAN]
  <2>1. argssend[r] \in [pairs : Seq(Pieces), hash : BOOLEAN]
    BY <1>1 DEF Typed
  <2>2. [argssend[r] EXCEPT !.hash = FALSE] \in [pairs : Seq(Pieces), hash : BOOLEAN]
    BY <2>1
  <2> QED
    BY <2>1, <2>2 DEF Copied
<1>5. v \in Vals \cup {NoVal, FAULT}
  <2> HIDE DEF args
  <2> QED
    BY <1>4, ValFromArgsType
<1>6. PICK place \in {"fault", "lookup"} : Goto(r, place)
  BY <1>3
<1>7. /\ save' \in [of : Threads, rest : Seq(Pieces)]
      /\ alone' \in [Threads -> BOOLEAN] /\ alone'[r] = alone[r]
      /\ \A t \in Threads \ {r} : alone'[t] => alone[t] /\ pc[t] # "next"
  BY <1>1, <1>2, Extracts
<1>8. pc' = [pc EXCEPT ![r] = place] /\ pc'[r] = place /\ pc'[Np] = pc[Np]
  BY <1>1, <1>6 DEF Goto, Typed, Threads
<1>9. /\ found' \in [Requests -> [key : Keys \cup {"none"}, val : Vals \cup {NoVal, FAULT},
                                  copy : BOOLEAN]]
      /\ found'[r] = [key |-> k, val |-> v, copy |-> copy]
      /\ \A q \in Requests \ {r} : found'[q] = found[q]
  BY <1>1, <1>3, <1>5 DEF Typed
<1>10. Typed'
  BY <1>1, <1>2, <1>7, <1>8, <1>9 DEF Typed
<1>11. Moves(r)
  BY <1>1, <1>2, <1>7, <1>8, <1>9 DEF Moves, Typed
<1>12. Stored'
  BY <1>1, <1>2, <1>8 DEF Stored
<1>13. Fits(r)' /\ Taken(r)'
  BY <1>1, <1>2, <1>7, <1>8 DEF Fits, Taken
<1>14. Decided(r)'
  BY <1>1, <1>2, <1>8 DEF Decided
<1>15. LookedUp(r)'
  <2>1. /\ found'[r].key = k /\ found'[r].val = v /\ found'[r].copy = copy
        /\ argssend'[r] = argssend[r]
    BY <1>2, <1>9
  <2>2. v \in ValFromArgs(IF copy THEN Copied(argssend[r]) ELSE argssend[r], k)
    BY <1>3
  <2> QED
    BY <1>8, <2>1, <2>2 DEF LookedUp
<1> QED
  BY <1>1, <1>10, <1>11, <1>12, <1>13, <1>14, <1>15, KInvAfter

LEMMA KInvInit == Init => KInv
<1> SUFFICES ASSUME Init PROVE KInv
  OBVIOUS
<1>1. text \in [Threads -> Seq(Elements)] /\ \A t \in Threads : text[t] \in Texts[t]
  BY TextCount DEF Init
<1>2. <<>> \in Seq(Pieces)
  OBVIOUS
<1>3. NotYet \in [key : Keys \cup {"none"}, val : Vals \cup {NoVal, FAULT}, copy : BOOLEAN]
  BY DEF NotYet
<1>4. Typed
  BY <1>1, <1>2, <1>3 DEF Init, Typed, Threads
<1>5. Stored
  BY DEF Init, Stored, Threads
<1>6. ASSUME NEW t \in Threads PROVE Fits(t) /\ Taken(t)
  <2>1. Count(text[t]) \in Nat
    BY <1>1, TextCount
  <2> QED
    BY <2>1 DEF Init, Fits, Taken
<1>7. ASSUME NEW r \in Requests PROVE Decided(r) /\ LookedUp(r)
  BY DEF Init, Decided, LookedUp, Threads
<1> QED
  BY <1>4, <1>5, <1>6, <1>7 DEF KInv

LEMMA KInvNext == KInv /\ [Next]_vars => KInv'
<1> SUFFICES ASSUME KInv, [Next]_vars PROVE KInv'
  OBVIOUS
<1>1. ASSUME NEW t \in Threads, Names(t) \/ FirstToken(t) \/ NextToken(t) \/ Extracted(t)
      PROVE  KInv'
  BY <1>1, NamesStep, FirstTokenStep, NextTokenStep, ExtractedStep
<1>2. ASSUME NEW r \in Requests,
             Compare(r) \/ Convert(r) \/ \E k \in Keys \ {npname}, copy \in BOOLEAN : Lookup(r, k, copy)
      PROVE  KInv'
  BY <1>2, CompareStep, ConvertStep, LookupStep
<1>3. CASE UNCHANGED vars
  <2>1. UNCHANGED <<text, pc, save, tokens, key_val_arr, argssend, found, alone>>
    BY <1>3 DEF vars
  <2>2. Typed' /\ Stored'
    BY <2>1 DEF KInv, Typed, Stored
  <2>3. ASSUME NEW t \in Threads PROVE Fits(t)' /\ Taken(t)'
    BY <2>1 DEF KInv, Fits, Taken
  <2>4. ASSUME NEW r \in Requests PROVE Decided(r)' /\ LookedUp(r)'
    BY <2>1 DEF KInv, Decided, LookedUp
  <2> QED
    BY <2>2, <2>3, <2>4 DEF KInv
<1> QED
  BY <1>1, <1>2, <1>3 DEF Next

-----------------------------------------------------------------------------
\* Every reachable state of the key-value handling satisfies KInv.
THEOREM KeyValsInvariant == Spec => []KInv
  BY KInvInit, KInvNext, PTL DEF Spec

\* Type correctness: every variable keeps its type, and no array gets more elements than
\* extract_key_val has counted (the malloc of extract_key_val is large enough).
THEOREM KeyValsTypeOK == Spec => []TypeOK
<1>1. KInv => TypeOK
  BY DEF KInv, Typed, Stored, Fits, TypeOK, Pieces
<1> QED
  BY <1>1, KeyValsInvariant, PTL

\* The library gets the keys its NP was registered with, in their order and no others,
\* whatever strtok has mixed up (forward_convert).
THEOREM KeyValsProviderKeys == Spec => []ProviderKeys
<1>1. ASSUME KInv, NEW r \in Requests, pc[r] \in {"lookup", "fault"}
      PROVE  /\ Len(argssend[r].pairs) = Len(key_val_arr)
             /\ \A i \in DOMAIN key_val_arr : argssend[r].pairs[i].key = key_val_arr[i].key
  <2>1. Decided(r) /\ key_val_arr \in Seq(Pieces) /\ tokens[r] \in Seq(Pieces)
    BY <1>1 DEF KInv, Typed, Threads
  <2>2. argssend[r] = ForwardConvert(key_val_arr, tokens[r])
    BY <1>1, <2>1 DEF Decided
  <2>3. DOMAIN key_val_arr = 1..Len(key_val_arr)
    BY <2>1, LenProperties
  <2>4. PICK two \in Seq(Pieces), one \in Seq(Pieces) : two = key_val_arr /\ one = tokens[r]
    BY <2>1
  <2>5. /\ Len(ForwardConvert(two, one).pairs) = Len(two)
        /\ \A j \in 1..Len(two) : ForwardConvert(two, one).pairs[j].key = two[j].key
    BY ForwardConvertKeys
  <2> QED
    BY <2>2, <2>3, <2>4, <2>5
<1>2. KInv => ProviderKeys
  BY <1>1 DEF ProviderKeys
<1> QED
  BY <1>2, KeyValsInvariant, PTL

\* What the two threads have taken, once they are through, when nothing disturbed them.
LEMMA UndisturbedArrays ==
    ASSUME KInv, NEW r \in Requests, Undisturbed(r), key_val_arr # <<>>,
           pc[r] \notin {"names", "first", "next"}
    PROVE  key_val_arr = text[Np] /\ tokens[r] = text[r]
<1>1. /\ Stored /\ Taken(r) /\ Taken(Np)
      /\ alone[r] /\ Pairs(text[r]) /\ alone[Np] /\ Pairs(text[Np])
  BY DEF KInv, Undisturbed, Threads
<1>2. pc[Np] = "done" /\ key_val_arr = tokens[Np]
  BY <1>1 DEF Stored
<1> QED
  BY <1>1, <1>2 DEF Taken

\* A request is accepted exactly when all its keys are among those of the NP, when the
\* two texts were taken apart undisturbed (compare_array).
THEOREM KeyValsAcceptedRight == Spec => []AcceptedRight
<1>1. ASSUME KInv, NEW r \in Requests, Undisturbed(r),
             pc[r] \in {"convert", "lookup", "fault", "refused"}
      PROVE  /\ key_val_arr # <<>> /\ key_val_arr = text[Np] /\ tokens[r] = text[r]
             /\ Decided(r)
  <2>1. Decided(r)
    BY <1>1 DEF KInv
  <2>2. key_val_arr # <<>>
    BY <1>1, <2>1 DEF Decided
  <2> QED
    BY <1>1, <2>1, <2>2, UndisturbedArrays
<1>2. KInv => AcceptedRight
  BY <1>1 DEF AcceptedRight, Decided, Accepts
<1> QED
  BY <1>2, KeyValsInvariant, PTL

\* What is first in two arrays, one after the other.
LEMMA FirstOfBoth ==
    ASSUME NEW one \in Seq(Pieces), NEW two \in Seq(Pieces), NEW key, First(two, key) # 0
    PROVE  (one \o two)[First(one \o two, key)] =
             IF First(one, key) = 0 THEN two[First(two, key)] ELSE one[First(one, key)]
<1>1. PICK all \in Seq(Pieces) : all = one \o two
  BY ConcatProperties
<1>2. /\ Len(two) \in Nat /\ Len(one) \in Nat /\ Len(all) = Len(one) + Len(two)
      /\ \A i \in 1..Len(one) + Len(two) :
            all[i] = IF i <= Len(one) THEN one[i] ELSE two[i - Len(one)]
  BY <1>1, ConcatProperties, LenProperties
<1>3. PICK m \in 1..Len(two) : /\ m = First(two, key) /\ two[m].key = key
                               /\ \A j \in 1..Len(two) : two[j].key = key => m <= j
  <2>1. /\ First(two, key) \in 0..Len(two)
        /\ First(two, key) # 0 =>
              /\ two[First(two, key)].key = key
              /\ \A j \in 1..Len(two) : two[j].key = key => First(two, key) <= j
    BY FirstIs, Zenon
  <2>2. First(two, key) \in 1..Len(two)
    BY <1>2, <2>1
  <2> QED
    BY <2>1, <2>2, Zenon
<1>4. CASE First(one, key) = 0
  <2>1. \A j \in 1..Len(one) : one[j].key # key
    BY <1>4, FirstIs
  <2>2. PICK k \in 1..Len(all) : k = Len(one) + m
    BY <1>2
  <2>3. all[k] = two[m]
    BY <1>2, <2>2
  <2>4. ASSUME NEW j \in 1..Len(all), all[j].key = key
        PROVE  k <= j
    <3>1. j > Len(one) /\ all[j] = two[j - Len(one)] /\ j - Len(one) \in 1..Len(two)
      <4>1. j \in 1..Len(one) + Len(two) /\ (j <= Len(one) => j \in 1..Len(one))
        BY <1>2
      <4>2. all[j] = IF j <= Len(one) THEN one[j] ELSE two[j - Len(one)]
        BY <1>2, <4>1, Zenon
      <4>3. ~(j <= Len(one))
        BY <2>1, <2>4, <4>1, <4>2, Zenon
      <4>4. all[j] = two[j - Len(one)]
        BY <4>2, <4>3, Zenon
      <4> QED
        BY <1>2, <4>1, <4>3, <4>4
    <3>2. m <= j - Len(one)
      BY <1>3, <2>4, <3>1
    <3> QED
      BY <1>2, <2>2, <3>1, <3>2
  <2>5. First(all, key) = k
    <3>1. \A n \in 1..Len(all) :
             /\ all[n].key = key
             /\ \A j \in 1..Len(all) : all[j].key = key => n <= j
             => First(all, key) = n
      BY FirstOnly, Zenon
    <3>2. all[k].key = key /\ \A j \in 1..Len(all) : all[j].key = key => k <= j
      BY <1>3, <2>3, <2>4
    <3> QED
      BY <3>1, <3>2, Zenon
  <2> QED
    BY <1>1, <1>3, <1>4, <2>3, <2>5
<1>5. CASE First(one, key) # 0
  <2>1. PICK i \in 1..Len(one) : /\ i = First(one, key) /\ one[i].key = key
                                 /\ \A j \in 1..Len(one) : one[j].key = key => i <= j
    <3>1. /\ First(one, key) \in 0..Len(one)
          /\ First(one, key) # 0 =>
                /\ one[First(one, key)].key = key
                /\ \A j \in 1..Len(one) : one[j].key = key => First(one, key) <= j
      BY FirstIs, Zenon
    <3>2. First(one, key) \in 1..Len(one)
      BY <1>2, <1>5, <3>1
    <3> QED
      BY <1>5, <3>1, <3>2, Zenon
  <2>2. i \in 1..Len(all) /\ all[i] = one[i]
    BY <1>2
  <2>3. ASSUME NEW j \in 1..Len(all), all[j].key = key
        PROVE  i <= j
    <3>1. CASE j <= Len(one)
      BY <1>2, <2>1, <2>3, <3>1
    <3>2. CASE j > Len(one)
      BY <1>2, <3>2
    <3> QED
      BY <1>2, <3>1, <3>2
  <2>4. First(all, key) = i
    <3>1. \A n \in 1..Len(all) :
             /\ all[n].key = key
             /\ \A j \in 1..Len(all) : all[j].key = key => n <= j
             => First(all, key) = n
      BY FirstOnly, Zenon
    <3>2. all[i].key = key /\ \A j \in 1..Len(all) : all[j].key = key => i <= j
      BY <2>1, <2>2, <2>3
    <3> QED
      BY <2>2, <3>1, <3>2, Zenon
  <2> QED
    BY <1>1, <1>5, <2>1, <2>2, <2>4
<1> QED
  BY <1>4, <1>5

\* Where no key's name ends with this one and every element has a value, a lookup finds
\* the value of the first element with the key; or a NULL pointer, when there is none or
\* when it is the last one and no '#' ends it.
LEMMA LookupFirst ==
    ASSUME NEW args, args.pairs \in Seq(Pieces), NEW key,
           \A i \in 1..Len(args.pairs) : /\ args.pairs[i].val # NoVal
                                         /\ <<args.pairs[i].key, key>> \notin EndsWith,
           NEW v, v \in ValFromArgs(args, key)
    PROVE  IF First(args.pairs, key) = 0 THEN v = FAULT
           ELSE \/ v = args.pairs[First(args.pairs, key)].val
                \/ v = FAULT /\ First(args.pairs, key) = Len(args.pairs) /\ ~args.hash
<1> DEFINE p == args.pairs
           hits == {i \in 1..Len(p) : p[i].key = key}
<1>1. hits = {i \in DOMAIN p : p[i].val # NoVal /\ (p[i].key = key \/ <<p[i].key, key>> \in EndsWith)}
  BY LenProperties
<1>2. IF hits = {} THEN v = FAULT
      ELSE v = p[Min(hits)].val \/ (v = FAULT /\ Min(hits) = Len(p) /\ ~args.hash)
  <2> HIDE DEF hits
  <2> QED
    BY <1>1 DEF ValFromArgs
<1>3. CASE hits = {}
  BY <1>2, <1>3 DEF First
<1>4. CASE hits # {}
  <2>1. First(p, key) = Min(hits)
    BY <1>4 DEF First
  <2>2. hits \in SUBSET Nat /\ 0 \notin hits
    OBVIOUS
  <2> HIDE DEF hits
  <2>3. Min(hits) # 0
    BY <1>4, <2>2, MinIs
  <2> QED
    BY <1>2, <1>4, <2>1, <2>3
<1> QED
  BY <1>3, <1>4

\* What a request that nothing disturbed looks up is what its text says, or else the NP's
\* default, except where the code is known not to look it up right (get_val_from_args,
\* getValFromArgs).
THEOREM KeyValsLookupRight == Spec => []LookupRight
<1>1. ASSUME KInv, NEW r \in Requests, Undisturbed(r), found[r] # NotYet
      PROVE  LET key  == found[r].key
                 last == text[Np][Len(text[Np])].key
             IN  \/ key \notin KeysOf(text[Np]) /\ found[r].val = FAULT
                 \/ key \in KeysOf(text[Np]) /\ found[r].val = Wanted(r, key)
                 \/ \E k \in KeysOf(text[Np]) : <<k, key>> \in EndsWith
                 \/ found[r].copy /\ key = last /\ found[r].val = FAULT
  <2>1. /\ Typed /\ Decided(r) /\ LookedUp(r)
        /\ Np \in Threads /\ r \in Threads
    BY <1>1 DEF KInv, Threads
  <2>2. /\ pc[r] \in {"lookup", "fault"}
        /\ found[r].val \in ValFromArgs(IF found[r].copy THEN Copied(argssend[r])
                                        ELSE argssend[r], found[r].key)
    BY <1>1, <2>1 DEF LookedUp
  <2>3. key_val_arr # <<>> /\ argssend[r] = ForwardConvert(key_val_arr, tokens[r])
    BY <2>1, <2>2 DEF Decided
  <2>4. key_val_arr = text[Np] /\ tokens[r] = text[r]
    BY <1>1, <2>2, <2>3, UndisturbedArrays
  <2>5. /\ text[Np] \in Seq(Elements) /\ text[r] \in Seq(Elements)
        /\ text[Np] \in Texts[Np] /\ text[r] \in Texts[r]
        /\ Pairs(text[Np]) /\ Pairs(text[r])
    BY <1>1, <2>1 DEF Typed, Undisturbed
  <2>6. /\ \A i \in 1..Len(text[Np]) : text[Np][i].val # NoVal
        /\ \A i \in 1..Len(text[r]) : text[r][i].val # NoVal
    BY <2>1, <2>5, TextCount
  <2>7. DOMAIN text[Np] = 1..Len(text[Np]) /\ KeysOf(text[Np]) = {text[Np][i].key : i \in 1..Len(text[Np])}
    BY <2>5, LenProperties DEF KeysOf
  <2>8. Wanted(r, found[r].key) =
          (text[r] \o text[Np])[First(text[r] \o text[Np], found[r].key)].val
    BY DEF Wanted, SelectInSeq, First
  <2>9. text[Np] \in Seq(Pieces) /\ text[r] \in Seq(Pieces)
    BY <2>1, <2>5, TextCount
  <2>10. CASE \E k \in KeysOf(text[Np]) : <<k, found[r].key>> \in EndsWith
    BY <2>10
  <2>11. CASE ~\E k \in KeysOf(text[Np]) : <<k, found[r].key>> \in EndsWith
    <3>1. \A i \in 1..Len(text[Np]) : <<text[Np][i].key, found[r].key>> \notin EndsWith
      BY <2>7, <2>11
    <3>2. PICK two \in Seq(Pieces), one \in Seq(Pieces) : two = text[Np] /\ one = text[r]
      BY <2>9
    <3>3. PICK key, args :
             /\ key = found[r].key
             /\ args = IF found[r].copy THEN Copied(argssend[r]) ELSE argssend[r]
      OBVIOUS
    <3>4. /\ args.pairs \in Seq(Pieces) /\ Len(args.pairs) = Len(two)
          /\ \A j \in 1..Len(two) :
                /\ args.pairs[j].key = two[j].key
                /\ args.pairs[j] = IF First(one, two[j].key) = 0 THEN two[j]
                                   ELSE one[First(one, two[j].key)]
          /\ ~args.hash => found[r].copy
      <4>1. PICK fc : fc = ForwardConvert(two, one)
        OBVIOUS
      <4>2. /\ fc \in [pairs : Seq(Pieces), hash : BOOLEAN] /\ fc.hash = TRUE
            /\ Len(fc.pairs) = Len(two)
            /\ \A j \in 1..Len(two) :
                  /\ fc.pairs[j].key = two[j].key
                  /\ fc.pairs[j] = IF First(one, two[j].key) = 0 THEN two[j]
                                   ELSE one[First(one, two[j].key)]
        <5>1. /\ ForwardConvert(two, one) \in [pairs : Seq(Pieces), hash : BOOLEAN]
              /\ ForwardConvert(two, one).hash = TRUE
              /\ Len(ForwardConvert(two, one).pairs) = Len(two)
              /\ \A j \in 1..Len(two) :
                    /\ ForwardConvert(two, one).pairs[j].key = two[j].key
                    /\ ForwardConvert(two, one).pairs[j] =
                          IF First(one, two[j].key) = 0 THEN two[j]
                          ELSE one[First(one, two[j].key)]
          BY ForwardConvertKeys, Zenon
        <5> QED
          BY <4>1, <5>1, Zenon
      <4>3. args = IF found[r].copy THEN [fc EXCEPT !.hash = FALSE] ELSE fc
        <5>1. argssend[r] = fc
          BY <2>3, <2>4, <3>2, <4>1, Zenon
        <5>2. args = IF found[r].copy THEN Copied(argssend[r]) ELSE argssend[r]
          BY <3>3, Zenon
        <5> QED
          BY <5>1, <5>2 DEF Copied
      <4>4. args.pairs = fc.pairs /\ (~found[r].copy => args.hash)
        BY <4>2, <4>3
      <4> QED
        BY <4>2, <4>4
    <3>5. /\ \A i \in 1..Len(two) : two[i].val # NoVal /\ <<two[i].key, key>> \notin EndsWith
          /\ \A i \in 1..Len(one) : one[i].val # NoVal
      BY <2>6, <3>1, <3>2, <3>3
    <3>6. \A j \in 1..Len(args.pairs) : /\ args.pairs[j].val # NoVal
                                       /\ <<args.pairs[j].key, key>> \notin EndsWith
      <4>1. ASSUME NEW j \in 1..Len(two)
            PROVE  First(one, two[j].key) = 0 \/ First(one, two[j].key) \in 1..Len(one)
        <5>1. First(one, two[j].key) \in 0..Len(one) /\ Len(one) \in Nat
          BY FirstIs, LenProperties
        <5> QED
          BY <5>1
      <4> QED
        BY <3>4, <3>5, <4>1
    <3>7. IF First(args.pairs, key) = 0 THEN found[r].val = FAULT
          ELSE \/ found[r].val = args.pairs[First(args.pairs, key)].val
               \/ found[r].val = FAULT /\ First(args.pairs, key) = Len(args.pairs) /\ ~args.hash
      <4>1. args.pairs \in Seq(Pieces)
        BY <3>4
      <4>2. found[r].val \in ValFromArgs(args, key)
        BY <2>2, <3>3, Zenon
      <4> QED
        BY <3>6, <4>1, <4>2, LookupFirst, Zenon
    <3>8. First(args.pairs, key) = First(two, key)
      BY <3>4 DEF First
    <3>9. key \in KeysOf(text[Np]) <=> First(two, key) # 0
      <4>1. key \in KeysOf(text[Np]) <=> \E i \in 1..Len(two) : two[i].key = key
        BY <2>7, <3>2
      <4>2. First(two, key) \in 0..Len(two)
            /\ (First(two, key) # 0 => two[First(two, key)].key = key)
            /\ (First(two, key) = 0 => \A i \in 1..Len(two) : two[i].key # key)
        BY FirstIs
      <4> QED
        BY <4>1, <4>2
    <3>10. CASE First(two, key) = 0
      BY <3>3, <3>7, <3>8, <3>9, <3>10
    <3>11. CASE First(two, key) # 0
      <4>1. PICK m \in 1..Len(two) : m = First(two, key) /\ two[m].key = key
        <5>1. First(two, key) \in 0..Len(two) /\ two[First(two, key)].key = key
              /\ Len(two) \in Nat
          BY <3>11, FirstIs, LenProperties
        <5> QED
          BY <3>11, <5>1
      <4>2. CASE found[r].val = args.pairs[m].val
        <5>1. args.pairs[m] = (one \o two)[First(one \o two, key)]
          <6>1. (one \o two)[First(one \o two, key)] =
                  IF First(one, key) = 0 THEN two[First(two, key)] ELSE one[First(one, key)]
            BY <3>11, FirstOfBoth, Zenon
          <6>2. args.pairs[m] = IF First(one, two[m].key) = 0 THEN two[m]
                                ELSE one[First(one, two[m].key)]
            BY <3>4, Zenon
          <6> QED
            BY <4>1, <6>1, <6>2, Zenon
        <5>2. found[r].val = Wanted(r, key)
          BY <2>8, <3>2, <3>3, <4>2, <5>1
        <5> QED
          BY <3>3, <3>9, <3>11, <5>2
      <4>3. CASE found[r].val = FAULT /\ m = Len(two) /\ ~args.hash
        BY <3>2, <3>3, <3>4, <4>1, <4>3
      <4> QED
        BY <3>4, <3>7, <3>8, <3>11, <4>1, <4>2, <4>3
    <3> QED
      BY <3>10, <3>11
  <2> QED
    BY <2>10, <2>11
<1>2. KInv => LookupRight
  BY <1>1 DEF LookupRight
<1> QED
  BY <1>2, KeyValsInvariant, PTL
=============================================================================
