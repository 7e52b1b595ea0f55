-------------------------- MODULE ProvidersProofs --------------------------
(***************************************************************************)
(* However the calls of the two providers overlap: inotify returns the     *)
(* last event it has a wording for, if it has one; tcpdump what it has     *)
(* captured unless another call was capturing as well, and then what they  *)
(* share is reset; and both are served while descriptors are left.         *)
(***************************************************************************)
EXTENDS Providers, Integers, FiniteSetTheorems, SequenceTheorems, TLAPS

LOCAL INSTANCE FiniteSetsExt   \* Max

\* The pieces of text in retstring, and the places where a call adds to it.
Pieces == ({"number"} \X Nat) \cup ({"packet"} \X Threads \X Nat \X Nat)

Filling == {"pcap_loop", "number", "header", "packet"}

Places == {"idle", "inotify_init", "open", "inotify_add_watch", "read", "scan",
           "pcap_open_live", "strcpy", "clear", "return"} \cup Filling

ServerTyped ==
    /\ ask \in Workloads
    /\ filefd \in [Threads -> BOOLEAN]
    /\ alone \in [Threads -> BOOLEAN]
    /\ pc \in [Threads -> Places]
    /\ nj \in {"alive", "exited", "corrupt"}
    /\ calls \in [Threads -> Nat]
    /\ argsrecv \in [Threads -> [call : Nat, text : Seq(Nat) \cup Seq(Pieces)]]
    /\ fds \in 0..FDLIMIT

InotifyTyped ==
    /\ exists \in BOOLEAN
    /\ instance \in [Threads -> BOOLEAN]
    /\ watching \in [Threads -> BOOLEAN]
    /\ queue \in [Threads -> Seq(I!Events \cup {I!Removed})]
    /\ buffer \in [Threads -> Seq(I!Events \cup {I!Removed})]
    /\ i \in [Threads -> Nat]
    /\ retStr \in [Threads -> Nat]

TcpdumpTyped ==
    /\ got \in [Threads -> Nat]
    /\ end \in [Threads -> Nat]
    /\ number \in [Threads -> Nat]
    /\ retstring \in Seq(Pieces)
    /\ count \in Nat \ {0}

Typed == ServerTyped /\ InotifyTyped /\ TcpdumpTyped

\* The calls that hold a descriptor they will give back.
Holds(t) == instance[t] \/ (OfTcpdump(t) /\ pc[t] \in Filling)

Holders == {t \in Threads : Holds(t)}

\* The threads that have their file open.
Files == {t \in Threads : filefd[t]}

Counted == /\ IsFiniteSet(Holders) /\ IsFiniteSet(Files)
           /\ Cardinality(Holders) + Cardinality(Files) <= fds

\* Somebody will empty the shared buffer, and reset the counter.
Shared ==
    /\ retstring # <<>> => \E t \in Threads : OfTcpdump(t) /\ pc[t] \in Filling \cup {"strcpy", "clear"}
    /\ count # 1 => \E t \in Threads : OfTcpdump(t) /\ pc[t] \in Filling
    /\ Len(retstring) <= RETSIZE \/ nj = "corrupt"

\* A thread is in its own library, and has its file open only during a call.
Placed(t) ==
    /\ \/ OfInotify(t) /\ pc[t] \in {"idle", "inotify_init", "open", "inotify_add_watch", "read",
                                     "scan", "return"}
       \/ OfTcpdump(t) /\ pc[t] \in {"idle", "pcap_open_live", "strcpy", "clear", "return"} \cup Filling
    /\ pc[t] = "idle" => ~filefd[t]

\* Only a call that was made delivers, and each at most once.
Called(t) ==
    /\ calls[t] <= ask[t].count
    /\ argsrecv[t].call <= calls[t]
    /\ pc[t] \notin {"idle", "clear", "return"} => argsrecv[t].call < calls[t]

\* Events come only to a watch, and a watch has an instance.
Watches(t) ==
    /\ watching[t] => instance[t]
    /\ queue[t] # <<>> => instance[t]
    /\ instance[t] => OfInotify(t) /\ pc[t] \in {"open", "inotify_add_watch", "read", "scan"}
    /\ pc[t] = "scan" => instance[t]

\* retStr is about the last event with a wording of those the loop has come past, and the
\* call delivers if there is one.
Scanned(t) ==
    /\ i[t] <= Len(buffer[t]) + 1 /\ retStr[t] < i[t]
    /\ OfInotify(t) /\ pc[t] \notin {"scan", "return"} => i[t] = 1 /\ buffer[t] = <<>>
    /\ pc[t] = "scan" => buffer[t] # <<>>
    /\ retStr[t] # 0 => buffer[t][retStr[t]].kind \in Reported
    /\ \A k \in 1..i[t] - 1 : buffer[t][k].kind \in Reported => k <= retStr[t]
    /\ OfInotify(t) /\ pc[t] = "return" =>
          /\ i[t] = Len(buffer[t]) + 1
          /\ argsrecv[t].call = calls[t] <=> retStr[t] # 0
          /\ retStr[t] # 0 => argsrecv[t].text = <<retStr[t]>>

\* The first m pieces of what call c of t should return.
Wording(t, c, m) == [k \in 1..m |-> IF k % 2 = 1 THEN <<"number", (k + 1) \div 2>>
                                                 ELSE <<"packet", t, c, k \div 2>>]

Busy(t) == OfTcpdump(t) /\ pc[t] \notin {"idle", "return"}

\* How far a call has come that has the shared buffer for itself.
Progress(t) ==
    /\ pc[t] \in {"pcap_loop", "number"} =>
          retstring = Wording(t, calls[t], 2 * got[t]) /\ count = got[t] + 1
    /\ pc[t] = "number" => number[t] = count /\ end[t] = Len(retstring)
    /\ pc[t] \in {"header", "packet"} =>
          retstring = Wording(t, calls[t], 2 * got[t] + 1) /\ count = got[t] + 2
    /\ pc[t] = "packet" => end[t] = Len(retstring)
    /\ pc[t] = "strcpy" => retstring = Wording(t, calls[t], 2 * ask[t].num_packets)
    /\ pc[t] \in {"clear", "return"} /\ argsrecv[t].call = calls[t] =>
          argsrecv[t].text = Wording(t, calls[t], 2 * ask[t].num_packets)

\* A call that no other has overlapped with still has it for itself.
Exact(t) == OfTcpdump(t) /\ alone[t] =>
    /\ Busy(t) => \A u \in Threads \ {t} : ~Busy(u)
    /\ Progress(t)

Mine(t) == Placed(t) /\ Called(t) /\ Watches(t) /\ Scanned(t) /\ Exact(t)

PInv == Typed /\ Counted /\ Shared /\ \A t \in Threads : Mine(t)

-----------------------------------------------------------------------------
(* What the operators of the model do. *)

LEMMA WordingIs ==
    ASSUME NEW t \in Threads, NEW c \in Nat, NEW m \in Nat
    PROVE  /\ Wording(t, c, m) \in Seq(Pieces) /\ Len(Wording(t, c, m)) = m
           /\ \A k \in 1..m : Wording(t, c, m)[k] = IF k % 2 = 1 THEN <<"number", (k + 1) \div 2>>
                                                    ELSE <<"packet", t, c, k \div 2>>
<1> DEFINE e(k) == IF k % 2 = 1 THEN <<"number", (k + 1) \div 2>> ELSE <<"packet", t, c, k \div 2>>
<1>1. ASSUME NEW k \in 1..m PROVE e(k) \in Pieces
  <2>1. (k + 1) \div 2 \in Nat /\ k \div 2 \in Nat
    OBVIOUS
  <2> QED
    BY <2>1 DEF Pieces
<1>2. Wording(t, c, m) = [k \in 1..m |-> e(k)]
  BY DEF Wording
<1> HIDE DEF e
<1>3. [k \in 1..m |-> e(k)] \in Seq(Pieces) /\ Len([k \in 1..m |-> e(k)]) = m
  BY <1>1
<1> QED
  BY <1>2, <1>3 DEF e

\* A sequence grows by one element.
LEMMA Grown ==
    ASSUME NEW S, NEW s \in Seq(S), NEW w \in Seq(S), Len(w) = Len(s) + 1,
           \A k \in 1..Len(s) : w[k] = s[k]
    PROVE  Append(s, w[Len(w)]) = w
<1>1. Len(s) \in Nat /\ w[Len(w)] \in S
  BY LenProperties, ElementOfSeq
<1>2. PICK e \in S : e = w[Len(w)]
  BY <1>1
<1>3. Append(s, e) \in Seq(S) /\ Len(Append(s, e)) = Len(w)
  BY AppendProperties
<1>4. ASSUME NEW k \in 1..Len(w) PROVE Append(s, e)[k] = w[k]
  BY <1>1, <1>2, AppendProperties
<1>5. Append(s, e) = w
  BY <1>3, <1>4, SeqEqual
<1> QED
  BY <1>2, <1>5

\* The wording of a packet adds its number and the rest.
LEMMA WordingGrows ==
    ASSUME NEW t \in Threads, NEW c \in Nat, NEW g \in Nat
    PROVE  /\ Wording(t, c, 0) = <<>>
           /\ Append(Wording(t, c, 2 * g), <<"number", g + 1>>) = Wording(t, c, 2 * g + 1)
           /\ Append(Wording(t, c, 2 * g + 1), <<"packet", t, c, g + 1>>)
                = Wording(t, c, 2 * (g + 1))
<1>1. Wording(t, c, 0) = <<>>
  BY WordingIs, EmptySeq
<1>2. ASSUME NEW m \in Nat
      PROVE  Append(Wording(t, c, m), IF (m + 1) % 2 = 1 THEN <<"number", (m + 1 + 1) \div 2>>
                                      ELSE <<"packet", t, c, (m + 1) \div 2>>)
               = Wording(t, c, m + 1)
  <2>1. PICK s \in Seq(Pieces), w \in Seq(Pieces) :
          s = Wording(t, c, m) /\ w = Wording(t, c, m + 1)
    BY WordingIs
  <2>2. Len(s) = m /\ Len(w) = m + 1
    BY <2>1, WordingIs
  <2>3. ASSUME NEW k \in 1..m PROVE w[k] = s[k]
    BY <2>1, <2>3 DEF Wording
  <2>4. w[m + 1] = IF (m + 1) % 2 = 1 THEN <<"number", (m + 1 + 1) \div 2>>
                   ELSE <<"packet", t, c, (m + 1) \div 2>>
    BY <2>1 DEF Wording
  <2>5. Append(s, w[Len(w)]) = w
    BY <2>2, <2>3, Grown
  <2> QED
    BY <2>1, <2>2, <2>4, <2>5
<1>3. (2 * g + 1) % 2 = 1 /\ (2 * g + 1 + 1) \div 2 = g + 1 /\ 2 * g \in Nat
  OBVIOUS
<1>4. (2 * g + 1 + 1) % 2 = 0 /\ 2 * g + 1 \in Nat /\ 2 * g + 1 + 1 = 2 * (g + 1)
  OBVIOUS
<1>5. Append(Wording(t, c, 2 * g), <<"number", g + 1>>) = Wording(t, c, 2 * g + 1)
  BY <1>2, <1>3
<1>6. Append(Wording(t, c, 2 * g + 1), <<"packet", t, c, g + 1>>) = Wording(t, c, 2 * (g + 1))
  <2>1. Append(Wording(t, c, 2 * g + 1),
               IF (2 * g + 1 + 1) % 2 = 1 THEN <<"number", (2 * g + 1 + 1 + 1) \div 2>>
               ELSE <<"packet", t, c, (2 * g + 1 + 1) \div 2>>)
          = Wording(t, c, 2 * g + 1 + 1)
    BY <1>2, <1>4
  <2> QED
    BY <1>3, <1>4, <2>1
<1> QED
  BY <1>1, <1>5, <1>6

\* The beginning of a sequence.
LEMMA Prefix ==
    ASSUME NEW S, NEW s \in Seq(S), NEW n \in 0..Len(s)
    PROVE  SubSeq(s, 1, n) \in Seq(S) /\ Len(SubSeq(s, 1, n)) = n /\ (n = Len(s) => SubSeq(s, 1, n) = s)
<1>1. Len(s) \in Nat /\ \A k \in 1..n : s[k] \in S
  BY LenProperties, ElementOfSeq
<1>2. /\ SubSeq(s, 1, n) \in Seq(S)
      /\ Len(SubSeq(s, 1, n)) = n
      /\ \A k \in 1..n : SubSeq(s, 1, n)[k] = s[k]
  BY <1>1, SubSeqProperties
<1> QED
  BY <1>1, <1>2, SeqEqual

\* strcat with room copies behind what it found; the string grows by at most a piece.
LEMMA Copies ==
    ASSUME Typed, NEW t \in Threads, NEW piece \in Pieces, T!Copy(t, piece), nj = "alive",
           Len(retstring) <= RETSIZE
    PROVE  /\ retstring' \in Seq(Pieces) /\ nj' \in {"alive", "corrupt"}
           /\ Len(retstring') <= RETSIZE \/ nj' = "corrupt"
           /\ end' \in [Threads -> Nat] /\ \A u \in Threads \ {t} : end'[u] = end[u]
           /\ end[t] = Len(retstring) => retstring' = Append(retstring, piece)
<1>1. /\ end \in [Threads -> Nat] /\ end[t] \in Nat /\ retstring \in Seq(Pieces)
      /\ Len(retstring) \in Nat /\ RETSIZE \in Nat
  BY LenProperties, ProvidersAssumption DEF Typed, TcpdumpTyped
<1>2. /\ end' = [end EXCEPT ![t] = 0]
      /\ nj' = IF end[t] < RETSIZE THEN nj ELSE "corrupt"
      /\ retstring' = IF end[t] <= Len(retstring)
                      THEN Append(SubSeq(retstring, 1, end[t]), piece) ELSE retstring
  BY DEF T!Copy
<1>3. end' \in [Threads -> Nat] /\ \A u \in Threads \ {t} : end'[u] = end[u]
  BY <1>1, <1>2
<1>4. CASE end[t] <= Len(retstring)
  <2>1. PICK r \in Seq(Pieces), n \in Nat : r = retstring /\ n = end[t] /\ n \in 0..Len(r)
    BY <1>1, <1>4
  <2>2. PICK s : s = SubSeq(r, 1, n)
    OBVIOUS
  <2>3. s \in Seq(Pieces) /\ Len(s) = n /\ (n = Len(r) => s = r)
    BY <2>1, <2>2, Prefix
  <2>4. s = SubSeq(retstring, 1, end[t]) /\ Len(s) = end[t]
        /\ (end[t] = Len(retstring) => s = retstring)
    BY <2>1, <2>2, <2>3
  <2>5. Append(s, piece) \in Seq(Pieces) /\ Len(Append(s, piece)) = end[t] + 1
    BY <2>3, <2>4, AppendProperties
  <2>6. retstring' = Append(s, piece)
    BY <1>2, <1>4, <2>4
  <2> QED
    BY <1>1, <1>2, <1>3, <1>4, <2>4, <2>5, <2>6
<1>5. CASE ~(end[t] <= Len(retstring))
  BY <1>1, <1>2, <1>3, <1>5
<1> QED
  BY <1>4, <1>5

-----------------------------------------------------------------------------
(* What the steps have in common. *)

\* What a step that is not t's leaves to t: its watch may go, and a watch may get events.
Keeps(t) ==
    /\ pc'[t] = pc[t] /\ calls'[t] = calls[t] /\ argsrecv'[t] = argsrecv[t]
    /\ filefd'[t] = filefd[t] /\ instance'[t] = instance[t] /\ (watching'[t] => watching[t])
    /\ queue'[t] = queue[t] \/ watching[t]
    /\ buffer'[t] = buffer[t] /\ i'[t] = i[t] /\ retStr'[t] = retStr[t]
    /\ got'[t] = got[t] /\ end'[t] = end[t] /\ number'[t] = number[t]
    /\ alone'[t] => alone[t]

\* A step that changes what the captures share belongs to one of them, and a new one
\* finds none that is alone.
Overlaps(u) ==
    /\ UNCHANGED <<retstring, count>> \/ Busy(u)
    /\ Busy(u)' => Busy(u) \/ \A t \in Threads \ {u} : Busy(t) => ~alone'[t]

LEMMA OtherKeeps ==
    ASSUME NEW t \in Threads, Mine(t), Keeps(t), UNCHANGED ask
    PROVE  /\ Placed(t)' /\ Called(t)' /\ Watches(t)' /\ Scanned(t)'
           /\ Holds(t)' = Holds(t) /\ Busy(t)' = Busy(t)
<1>1. Placed(t) /\ Called(t) /\ Watches(t) /\ Scanned(t)
  BY DEF Mine
<1>2. Placed(t)' /\ Called(t)'
  BY <1>1 DEF Placed, Called, Keeps, OfInotify, OfTcpdump
<1>3. Watches(t)'
  BY <1>1 DEF Watches, Keeps, OfInotify
<1>4. Scanned(t)'
  BY <1>1 DEF Scanned, Keeps, OfInotify
<1>5. Holds(t)' = Holds(t) /\ Busy(t)' = Busy(t)
  BY DEF Holds, Busy, Keeps, OfTcpdump
<1> QED
  BY <1>2, <1>3, <1>4, <1>5

\* A call that is alone keeps what it has put into the buffer.
LEMMA OtherExact ==
    ASSUME NEW u, NEW t \in Threads \ {u}, Exact(t), UNCHANGED ask, Overlaps(u),
           u \in Threads,
           \A v \in Threads \ {u} : Keeps(v) /\ Busy(v)' = Busy(v)
    PROVE  Exact(t)'
<1>1. ASSUME OfTcpdump(t)', alone'[t] PROVE OfTcpdump(t) /\ alone[t]
  BY <1>1 DEF OfTcpdump, Keeps
<1>2. ASSUME OfTcpdump(t), alone[t], alone'[t], Busy(t)
      PROVE  (\A v \in Threads \ {t} : ~Busy(v)') /\ UNCHANGED <<retstring, count>>
  <2>1. \A v \in Threads \ {t} : ~Busy(v)
    BY <1>2 DEF Exact
  <2>2. ~Busy(u)
    BY <2>1
  <2>3. ~Busy(u)' /\ UNCHANGED <<retstring, count>>
    BY <1>2, <2>2 DEF Overlaps
  <2> QED
    BY <2>1, <2>3
<1>3. SUFFICES ASSUME OfTcpdump(t)', alone'[t] PROVE Exact(t)'
  BY DEF Exact
<1>4. OfTcpdump(t) /\ alone[t]
  BY <1>1, <1>3
<1>5. /\ pc'[t] = pc[t] /\ calls'[t] = calls[t] /\ argsrecv'[t] = argsrecv[t]
      /\ got'[t] = got[t] /\ end'[t] = end[t] /\ number'[t] = number[t] /\ ask' = ask
      /\ Busy(t)' = Busy(t)
  BY DEF Keeps
<1>6. CASE Busy(t)
  BY <1>2, <1>3, <1>4, <1>5, <1>6 DEF Exact, Progress, Wording
<1>7. CASE ~Busy(t)
  <2>1. pc[t] \in {"idle", "return"}
    BY <1>4, <1>7 DEF Busy
  <2> QED
    BY <1>3, <1>4, <1>5, <1>7, <2>1 DEF Exact, Progress, Wording
<1> QED
  BY <1>6, <1>7

\* A set to which u alone is added, or from which u alone is removed.
LEMMA OneMore ==
    ASSUME NEW S, IsFiniteSet(S), NEW H, NEW u, H \ {u} = S \ {u}
    PROVE  /\ IsFiniteSet(H) /\ Cardinality(S) \in Nat /\ Cardinality(H) \in Nat
           /\ Cardinality(H) <= Cardinality(S) + 1
           /\ (u \in H => u \in S) => Cardinality(H) <= Cardinality(S)
           /\ u \in S /\ u \notin H => Cardinality(H) = Cardinality(S) - 1
<1>1. /\ IsFiniteSet(S \ {u}) /\ Cardinality(S \ {u}) \in Nat /\ Cardinality(S) \in Nat
      /\ u \in S => Cardinality(S \ {u}) = Cardinality(S) - 1
      /\ u \notin S => S \ {u} = S
  BY FS_RemoveElement, FS_CardinalityType
<1>2. CASE u \in H
  <2> DEFINE R == S \ {u}
  <2>1. H = R \cup {u} /\ u \notin R
    BY <1>2
  <2>2. IsFiniteSet(R)
    BY <1>1
  <2> HIDE DEF R
  <2>3. IsFiniteSet(R \cup {u}) /\ Cardinality(R \cup {u}) = Cardinality(R) + 1
    BY <2>1, <2>2, FS_AddElement
  <2>4. IsFiniteSet(H) /\ Cardinality(H) = Cardinality(R) + 1
    BY <2>1, <2>3
  <2> QED
    BY <1>1, <1>2, <2>4 DEF R
<1>3. CASE u \notin H
  <2>1. IsFiniteSet(H) /\ Cardinality(H) = Cardinality(S \ {u})
    <3>1. H = S \ {u}
      BY <1>3
    <3> QED
      BY <1>1, <3>1
  <2>2. CASE u \in S
    BY <1>1, <1>3, <2>1, <2>2
  <2>3. CASE u \notin S
    BY <1>1, <1>3, <2>1, <2>3
  <2> QED
    BY <2>2, <2>3
<1> QED
  BY <1>2, <1>3

\* The descriptors that are held, after a step of u that does not touch its file.
LEMMA HoldersAfter ==
    ASSUME Counted, NEW u \in Threads, NEW f \in Nat, fds \in Nat, f = fds', UNCHANGED filefd,
           \A t \in Threads \ {u} : Holds(t)' = Holds(t),
           \/ f = fds + 1
           \/ f = fds /\ (Holds(u)' => Holds(u))
           \/ f = fds - 1 /\ Holds(u) /\ ~Holds(u)'
    PROVE  Counted'
<1>1. /\ Holders' \ {u} = Holders \ {u} /\ (u \in Holders <=> Holds(u)) /\ (u \in Holders' <=> Holds(u)')
      /\ Files' = Files
  BY DEF Holders, Files
<1>2. IsFiniteSet(Holders) /\ IsFiniteSet(Files) /\ Cardinality(Files) \in Nat
  BY FS_CardinalityType DEF Counted
<1> DEFINE S == Holders
           H == Holders'
           n == Cardinality(Files)
<1>3. IsFiniteSet(S) /\ H \ {u} = S \ {u}
  BY <1>1, <1>2
<1> HIDE DEF S, H, n
<1>4. /\ IsFiniteSet(H) /\ Cardinality(S) \in Nat /\ Cardinality(H) \in Nat
      /\ Cardinality(H) <= Cardinality(S) + 1
      /\ (u \in H => u \in S) => Cardinality(H) <= Cardinality(S)
      /\ u \in S /\ u \notin H => Cardinality(H) = Cardinality(S) - 1
  BY <1>3, OneMore
<1>5. Cardinality(S) + n <= fds /\ n \in Nat
  BY <1>2 DEF Counted, S, n
<1>6. Cardinality(H) + n <= f
  BY <1>1, <1>4, <1>5 DEF S, H
<1>7. IsFiniteSet(H) /\ Cardinality(H) + n <= fds'
  BY <1>4, <1>6
<1>8. H = Holders' /\ n = Cardinality(Files')
  BY <1>1 DEF H, n
<1> QED
  BY <1>1, <1>2, <1>7, <1>8 DEF Counted

\* A step of u that opens or closes its file and nothing else.
LEMMA FilesAfter ==
    ASSUME Counted, NEW u \in Threads, NEW f \in Nat, fds \in Nat, f = fds',
           \A t \in Threads : Holds(t)' = Holds(t),
           \A t \in Threads \ {u} : filefd'[t] = filefd[t],
           \/ f = fds + 1
           \/ f = fds /\ (filefd'[u] => filefd[u])
           \/ f = fds - 1 /\ filefd[u] /\ ~filefd'[u]
    PROVE  Counted'
<1>1. /\ Files' \ {u} = Files \ {u} /\ (u \in Files <=> filefd[u]) /\ (u \in Files' <=> filefd'[u])
      /\ Holders' = Holders
  BY DEF Holders, Files
<1>2. IsFiniteSet(Holders) /\ IsFiniteSet(Files) /\ Cardinality(Holders) \in Nat
  BY FS_CardinalityType DEF Counted
<1> DEFINE S == Files
           H == Files'
           n == Cardinality(Holders)
<1>3. IsFiniteSet(S) /\ H \ {u} = S \ {u}
  BY <1>1, <1>2
<1> HIDE DEF S, H, n
<1>4. /\ IsFiniteSet(H) /\ Cardinality(S) \in Nat /\ Cardinality(H) \in Nat
      /\ Cardinality(H) <= Cardinality(S) + 1
      /\ (u \in H => u \in S) => Cardinality(H) <= Cardinality(S)
      /\ u \in S /\ u \notin H => Cardinality(H) = Cardinality(S) - 1
  BY <1>3, OneMore
<1>5. n + Cardinality(S) <= fds /\ n \in Nat
  BY <1>2 DEF Counted, S, n
<1>6. n + Cardinality(H) <= f
  BY <1>1, <1>4, <1>5 DEF S, H
<1>7. IsFiniteSet(H) /\ n + Cardinality(H) <= fds'
  BY <1>4, <1>6
<1>8. H = Files' /\ n = Cardinality(Holders')
  BY <1>1 DEF H, n
<1> QED
  BY <1>1, <1>2, <1>7, <1>8 DEF Counted

\* A call that holds a descriptor has opened it, and can close it.
LEMMA HolderHas ==
    ASSUME PInv, NEW t \in Threads, Holds(t) \/ filefd[t]
    PROVE  fds - 1 \in 0..FDLIMIT
<1>1. /\ IsFiniteSet(Holders) /\ Cardinality(Holders) \in Nat
      /\ IsFiniteSet(Files) /\ Cardinality(Files) \in Nat
      /\ Cardinality(Holders) + Cardinality(Files) <= fds
  BY FS_CardinalityType DEF PInv, Counted
<1>2. t \in Holders \/ t \in Files
  BY DEF Holders, Files
<1>3. Cardinality(Holders) # 0 \/ Cardinality(Files) # 0
  BY <1>1, <1>2, FS_EmptySet
<1> QED
  BY <1>1, <1>3, ProvidersAssumption DEF PInv, Typed, ServerTyped

\* What the captures share, after a step of u that leaves it alone or ends up filling it.
LEMMA SharedAfter ==
    ASSUME Shared, NEW u \in Threads, UNCHANGED ask,
           \A t \in Threads \ {u} : pc'[t] = pc[t],
           \/ OfTcpdump(u) /\ pc'[u] \in Filling
           \/ /\ UNCHANGED <<retstring, count>>
              /\ OfTcpdump(u) /\ pc[u] \in Filling => pc'[u] \in Filling
              /\ OfTcpdump(u) /\ pc[u] \in {"strcpy", "clear"} => pc'[u] \in {"strcpy", "clear"},
           Len(retstring') <= RETSIZE \/ nj' = "corrupt"
    PROVE  Shared'
<1>1. CASE OfTcpdump(u) /\ pc'[u] \in Filling
  BY <1>1 DEF Shared, OfTcpdump
<1>2. CASE /\ UNCHANGED <<retstring, count>>
           /\ OfTcpdump(u) /\ pc[u] \in Filling => pc'[u] \in Filling
           /\ OfTcpdump(u) /\ pc[u] \in {"strcpy", "clear"} => pc'[u] \in {"strcpy", "clear"}
  <2>1. ASSUME NEW t \in Threads, OfTcpdump(t), pc[t] \in Filling
        PROVE  OfTcpdump(t)' /\ pc'[t] \in Filling
    BY <1>2, <2>1 DEF OfTcpdump
  <2>2. ASSUME NEW t \in Threads, OfTcpdump(t), pc[t] \in {"strcpy", "clear"}
        PROVE  OfTcpdump(t)' /\ pc'[t] \in {"strcpy", "clear"}
    BY <1>2, <2>2 DEF OfTcpdump
  <2> QED
    BY <1>2, <2>1, <2>2 DEF Shared
<1> QED
  BY <1>1, <1>2

\* So what is left to show of a step of u is what it does to u, and to what is shared.
LEMMA PInvAfter ==
    ASSUME PInv, NEW u \in Threads, \A t \in Threads \ {u} : Keeps(t), UNCHANGED ask,
           Overlaps(u), Typed', Shared', Mine(u)', Counted'
    PROVE  PInv'
<1>1. \A t \in Threads \ {u} : /\ Placed(t)' /\ Called(t)' /\ Watches(t)' /\ Scanned(t)'
                               /\ Holds(t)' = Holds(t) /\ Busy(t)' = Busy(t)
  BY OtherKeeps DEF PInv
<1>2. \A t \in Threads \ {u} : Exact(t)'
  BY <1>1, OtherExact DEF PInv, Mine
<1>3. \A t \in Threads : Mine(t)'
  BY <1>1, <1>2 DEF Mine
<1> QED
  BY <1>3 DEF PInv

\* The descriptors, after a step of u that leaves its file alone.
LEMMA CountedAfter ==
    ASSUME PInv, NEW u \in Threads, \A t \in Threads \ {u} : Keeps(t), UNCHANGED <<ask, filefd>>,
           Typed',
           \/ fds' = fds + 1
           \/ fds' = fds /\ (Holds(u)' => Holds(u))
           \/ fds' = fds - 1 /\ Holds(u) /\ ~Holds(u)'
    PROVE  Counted'
<1>1. \A t \in Threads \ {u} : Holds(t)' = Holds(t)
  BY OtherKeeps DEF PInv
<1>2. PICK f : f = fds'
  OBVIOUS
<1>3. f \in Nat /\ fds \in Nat
  BY <1>2, ProvidersAssumption DEF Typed, ServerTyped, PInv
<1> QED
  BY <1>1, <1>2, <1>3, HoldersAfter DEF PInv

LEMMA PInvInit == Init => PInv
<1> SUFFICES ASSUME Init PROVE PInv
  OBVIOUS
<1>1. Typed
  BY ProvidersAssumption DEF Init, I!InotifyInit, T!TcpdumpInit, Typed, ServerTyped, InotifyTyped, TcpdumpTyped, Places
<1>2. Holders = {} /\ Files = {}
  BY DEF Init, I!InotifyInit, Holders, Files, Holds, Filling
<1>3. Counted
  BY <1>2, FS_EmptySet DEF Counted, Init
<1>4. Shared
  BY ProvidersAssumption DEF Shared, Init, T!TcpdumpInit
<1>5. ASSUME NEW t \in Threads PROVE Mine(t)
  <2>1. ask[t].library \in {"inotify", "tcpdump"} /\ ask[t].count \in Nat
    BY <1>1, ProvidersAssumption DEF Typed, ServerTyped, Asks
  <2>2. Placed(t) /\ Called(t)
    BY <2>1 DEF Init, Placed, Called, OfInotify, OfTcpdump
  <2>3. Watches(t) /\ Scanned(t)
    BY DEF Init, I!InotifyInit, Watches, Scanned
  <2>4. Exact(t)
    BY DEF Init, Exact, Busy, Progress
  <2> QED
    BY <2>2, <2>3, <2>4 DEF Mine
<1> QED
  BY <1>1, <1>3, <1>4, <1>5 DEF PInv

-----------------------------------------------------------------------------
(* The directory, and the steps of inotify. *)

\* What happens is queued for those who watch; a watch may go.
LEMMA HappenIs ==
    ASSUME Typed, NEW e \in I!Events, I!Happen(e)
    PROVE  /\ queue' \in [Threads -> Seq(I!Events \cup {I!Removed})]
           /\ watching' \in [Threads -> BOOLEAN]
           /\ \A t \in Threads : (queue'[t] = queue[t] \/ watching[t]) /\ (watching'[t] => watching[t])
<1> DEFINE Q == I!Events \cup {I!Removed}
           R == I!Removed
           Seen == I!Seeing(e)
<1>1. \A t \in Threads : queue[t] \in Seq(Q) /\ watching[t] \in BOOLEAN
  BY DEF Typed, InotifyTyped
<1>2. e \in Q /\ R \in Q
  OBVIOUS
<1>3. \A t \in Seen : watching[t]
  BY DEF I!Seeing
<1> DEFINE c(ignored, u) == CASE u \notin Seen -> <<>>
                            [] u \in ignored  -> <<e, R>>
                            [] OTHER           -> <<e>>
<1>4. PICK ignored \in SUBSET Seen : queue' = [u \in Threads |-> queue[u] \o c(ignored, u)]
  BY DEF I!Happen, I!Spent
<1>9. ASSUME NEW t \in Threads
      PROVE  c(ignored, t) \in {<<>>, <<e, R>>, <<e>>} /\ (t \notin Seen => c(ignored, t) = <<>>)
  <2> HIDE DEF R, Seen
  <2>1. CASE t \notin Seen /\ t \notin ignored
    BY <2>1
  <2>2. CASE t \in Seen /\ t \in ignored
    BY <2>2
  <2>3. CASE t \in Seen /\ t \notin ignored
    BY <2>3
  <2> QED
    BY <1>4, <2>1, <2>2, <2>3
<1>5. watching' = [u \in Threads |-> watching[u] /\ u \notin I!Spent(e)]
  BY DEF I!Happen
<1> HIDE DEF Q, R, Seen, c
<1>6. ASSUME NEW t \in Threads PROVE queue'[t] \in Seq(Q) /\ (queue'[t] = queue[t] \/ watching[t])
  <2>1. queue'[t] = queue[t] \o c(ignored, t)
    BY <1>4
  <2>2. <<>> \in Seq(Q) /\ <<e, R>> \in Seq(Q) /\ <<e>> \in Seq(Q)
    BY <1>2
  <2>3. PICK s \in Seq(Q) : s = c(ignored, t) /\ (t \notin Seen => s = <<>>)
    BY <1>9, <2>2
  <2>4. queue'[t] \in Seq(Q)
    BY <1>1, <2>1, <2>3, ConcatProperties
  <2>5. t \notin Seen => queue'[t] = queue[t]
    BY <1>1, <2>1, <2>3, ConcatEmptySeq
  <2> QED
    BY <1>3, <2>4, <2>5
<1>7. queue' \in [Threads -> Seq(Q)]
  BY <1>4, <1>6
<1>8. watching' \in [Threads -> BOOLEAN] /\ \A t \in Threads : watching'[t] => watching[t]
  BY <1>5
<1> QED
  BY <1>6, <1>7, <1>8 DEF Q

\* Nothing that happens in the directory changes more than queues and watches.
LEMMA DirectoryAfter ==
    ASSUME PInv, queue' \in [Threads -> Seq(I!Events \cup {I!Removed})],
           watching' \in [Threads -> BOOLEAN], exists' \in BOOLEAN,
           \A t \in Threads : (queue'[t] = queue[t] \/ watching[t]) /\ (watching'[t] => watching[t]),
           UNCHANGED <<ask, filefd, alone, pc, nj, calls, argsrecv, fds, instance, buffer, i, retStr,
                       got, end, number, retstring, count>>
    PROVE  PInv'
<1>1. Typed'
  <2>1. ServerTyped'
    BY DEF PInv, Typed, ServerTyped
  <2>2. InotifyTyped'
    BY DEF PInv, Typed, InotifyTyped
  <2>3. TcpdumpTyped'
    BY DEF PInv, Typed, TcpdumpTyped
  <2> QED
    BY <2>1, <2>2, <2>3 DEF Typed
<1>2. Holders' = Holders /\ Files' = Files
  BY DEF Holders, Files, Holds, OfTcpdump
<1>3. Counted' /\ Shared'
  BY <1>2 DEF PInv, Counted, Shared, OfTcpdump
<1>4. ASSUME NEW t \in Threads PROVE Mine(t)'
  <2>1. Mine(t) /\ Keeps(t)
    BY DEF PInv, Keeps
  <2>2. Exact(t)'
    BY <2>1 DEF Mine, Exact, Busy, Progress, OfTcpdump, Wording
  <2> QED
    BY <2>1, <2>2, OtherKeeps DEF Mine
<1> QED
  BY <1>1, <1>3, <1>4 DEF PInv

LEMMA DirectoryStep == ASSUME PInv, Directory PROVE PInv'
<1>1. Typed
  BY DEF PInv
<1>2. CASE I!DirectoryEvent
  <2>1. PICK e \in I!Events : I!Happen(e)
    BY <1>2 DEF I!DirectoryEvent
  <2>2. /\ queue' \in [Threads -> Seq(I!Events \cup {I!Removed})]
        /\ watching' \in [Threads -> BOOLEAN]
        /\ \A t \in Threads : (queue'[t] = queue[t] \/ watching[t]) /\ (watching'[t] => watching[t])
    BY <1>1, <2>1, HappenIs
  <2>3. UNCHANGED <<exists, ask, filefd, alone, pc, nj, calls, argsrecv, fds, instance, buffer, i,
                    retStr, got, end, number, retstring, count>>
    BY <1>2 DEF Directory, I!DirectoryEvent, I!server, I!locals, tcpdumpVars
  <2>4. exists' \in BOOLEAN
    BY <1>1, <2>3 DEF Typed, InotifyTyped
  <2> QED
    BY <2>2, <2>3, <2>4, DirectoryAfter
<1>3. CASE I!Remove
  <2>1. queue' = [u \in Threads |-> IF watching[u] THEN Append(queue[u], I!Removed) ELSE queue[u]]
    BY <1>3 DEF I!Remove
  <2>2. /\ queue' \in [Threads -> Seq(I!Events \cup {I!Removed})]
        /\ \A t \in Threads : queue'[t] = queue[t] \/ watching[t]
    <3> DEFINE Q == I!Events \cup {I!Removed}
               R == I!Removed
    <3>1. R \in Q /\ \A t \in Threads : queue[t] \in Seq(Q)
      BY <1>1 DEF Typed, InotifyTyped
    <3> HIDE DEF Q, R
    <3>2. \A t \in Threads : Append(queue[t], R) \in Seq(Q)
      BY <3>1
    <3>3. queue' = [u \in Threads |-> IF watching[u] THEN Append(queue[u], R) ELSE queue[u]]
      BY <2>1 DEF R
    <3>4. queue' \in [Threads -> Seq(Q)] /\ \A t \in Threads : queue'[t] = queue[t] \/ watching[t]
      BY <3>1, <3>2, <3>3, Zenon
    <3> QED
      BY <3>4 DEF Q
  <2>3. /\ exists' = FALSE /\ watching' = [t \in Threads |-> FALSE]
        /\ UNCHANGED <<ask, filefd, alone, pc, nj, calls, argsrecv, fds, instance, buffer, i, retStr,
                       got, end, number, retstring, count>>
    BY <1>3 DEF Directory, I!Remove, I!server, I!locals, tcpdumpVars
  <2>4. watching' \in [Threads -> BOOLEAN] /\ exists' \in BOOLEAN
        /\ \A t \in Threads : watching'[t] => watching[t]
    BY <2>3
  <2> QED
    BY <2>2, <2>3, <2>4, DirectoryAfter
<1> QED
  BY <1>2, <1>3 DEF Directory

\* A step of inotify touches nothing that captures share.
LEMMA InotifyKeeps ==
    ASSUME PInv, NEW u \in Threads, OfInotify(u), nj = "alive",
           UNCHANGED <<ask, alone, got, end, number, retstring, count>>,
           \A t \in Threads \ {u} : Keeps(t), Typed', Counted',
           Placed(u)', Called(u)', Watches(u)', Scanned(u)'
    PROVE  PInv'
<1>1. ~OfTcpdump(u) /\ ~OfTcpdump(u)'
  BY DEF OfInotify, OfTcpdump
<1>2. Overlaps(u)
  BY <1>1 DEF Overlaps, Busy
<1>3. \A t \in Threads \ {u} : pc'[t] = pc[t]
  BY DEF Keeps
<1>4. Shared /\ Len(retstring') <= RETSIZE
  BY DEF PInv, Shared
<1>5. Shared'
  BY <1>1, <1>3, <1>4, SharedAfter
<1>6. Exact(u)'
  BY <1>1 DEF Exact
<1>7. Mine(u)'
  BY <1>6 DEF Mine
<1> QED
  BY <1>2, <1>5, <1>7, PInvAfter

LEMMA InotifyAfter ==
    ASSUME PInv, NEW u \in Threads, OfInotify(u), nj = "alive",
           UNCHANGED <<ask, filefd, alone, got, end, number, retstring, count>>,
           \A t \in Threads \ {u} : Keeps(t), Typed',
           Placed(u)', Called(u)', Watches(u)', Scanned(u)',
           \/ fds' = fds + 1
           \/ fds' = fds /\ (Holds(u)' => Holds(u))
           \/ fds' = fds - 1 /\ Holds(u) /\ ~Holds(u)'
    PROVE  PInv'
BY CountedAfter, InotifyKeeps

LEMMA NewInstanceStep ==
    ASSUME PInv, NEW t \in Threads, I!NewInstance(t), UNCHANGED <<filefd, alone, tcpdumpVars>>
    PROVE  PInv'
<1>1. /\ Typed /\ Placed(t) /\ Called(t) /\ Watches(t) /\ Scanned(t)
      /\ fds \in 0..FDLIMIT /\ FDLIMIT \in Nat
  BY ProvidersAssumption DEF PInv, Mine, Typed, ServerTyped, InotifyTyped
<1>2. /\ nj = "alive" /\ pc[t] = "inotify_init"
      /\ instance' = [instance EXCEPT ![t] = fds < FDLIMIT]
      /\ fds' = IF fds < FDLIMIT THEN fds + 1 ELSE fds
      /\ pc' = [pc EXCEPT ![t] = "open"]
      /\ UNCHANGED <<ask, filefd, alone, nj, calls, argsrecv, exists, watching, queue, buffer, i, retStr,
                     got, end, number, retstring, count>>
  BY DEF I!NewInstance, I!At, I!Goto, I!locals, tcpdumpVars
<1>3. pc'[t] = "open" /\ instance'[t] = (fds < FDLIMIT) /\ fds' \in 0..FDLIMIT
  BY <1>1, <1>2 DEF Typed, ServerTyped, InotifyTyped
<1>4. OfInotify(t) /\ OfInotify(t)' /\ ~instance[t]
  BY <1>1, <1>2 DEF Placed, Filling, OfInotify, Watches
<1>5. Typed'
  <2>1. instance \in [Threads -> BOOLEAN]
    BY <1>1 DEF Typed, ServerTyped, InotifyTyped
  <2>2. PICK b \in BOOLEAN : instance' = [instance EXCEPT ![t] = b]
    <3>1. CASE fds < FDLIMIT
      <4>1. (fds < FDLIMIT) = TRUE
        BY <3>1
      <4> QED
        BY <1>2, <4>1, Zenon
    <3>2. CASE ~(fds < FDLIMIT)
      <4>1. (fds < FDLIMIT) = FALSE
        BY <3>2
      <4> QED
        BY <1>2, <4>1, Zenon
    <3> QED
      BY <3>1, <3>2, Zenon
  <2>3. instance' \in [Threads -> BOOLEAN]
    BY <2>1, <2>2
  <2>4. ServerTyped'
    BY <1>1, <1>2, <1>3 DEF Typed, ServerTyped, Places
  <2>5. InotifyTyped'
    BY <1>1, <1>2, <2>3 DEF Typed, InotifyTyped
  <2>6. TcpdumpTyped'
    BY <1>1, <1>2 DEF Typed, TcpdumpTyped
  <2> QED
    BY <2>4, <2>5, <2>6 DEF Typed
<1>6. \A u \in Threads \ {t} : Keeps(u)
  BY <1>1, <1>2 DEF Typed, ServerTyped, InotifyTyped, Keeps
<1>7. Placed(t)' /\ Called(t)' /\ Watches(t)' /\ Scanned(t)'
  BY <1>1, <1>2, <1>3, <1>4 DEF Placed, Called, Watches, Scanned
<1>8. fds' = fds + 1 \/ (fds' = fds /\ (Holds(t)' => Holds(t)))
  BY <1>2, <1>3, <1>4 DEF Holds, OfInotify, OfTcpdump
<1> QED
  BY <1>2, <1>4, <1>5, <1>6, <1>7, <1>8, InotifyAfter

LEMMA OpenPathStep ==
    ASSUME PInv, NEW t \in Threads, I!OpenPath(t), UNCHANGED <<filefd, alone, tcpdumpVars>>
    PROVE  PInv'
<1>1. /\ Typed /\ Placed(t) /\ Called(t) /\ Watches(t) /\ Scanned(t)
      /\ fds \in 0..FDLIMIT /\ FDLIMIT \in Nat
  BY ProvidersAssumption DEF PInv, Mine, Typed, ServerTyped, InotifyTyped
<1>2. /\ nj = "alive" /\ pc[t] = "open"
      /\ UNCHANGED <<ask, filefd, alone, calls, argsrecv, exists, instance, buffer, i, retStr,
                     got, end, number, retstring, count>>
  BY DEF I!OpenPath, I!At, I!locals, tcpdumpVars
<1>3. OfInotify(t) /\ OfInotify(t)'
  BY <1>1, <1>2 DEF Placed, Filling, OfInotify
<1>4. CASE exists /\ fds < FDLIMIT
  <2> DEFINE e == [kind |-> OPEN, named |-> FALSE]
  <2>1. /\ fds' = fds + 1 /\ I!Happen(e) /\ nj' = nj
        /\ pc' = [pc EXCEPT ![t] = "inotify_add_watch"]
    BY <1>4 DEF I!OpenPath, I!Goto
  <2>2. e \in I!Events
    BY ProvidersAssumption DEF I!Events
  <2> HIDE DEF e
  <2>3. /\ queue' \in [Threads -> Seq(I!Events \cup {I!Removed})]
        /\ watching' \in [Threads -> BOOLEAN]
        /\ \A u \in Threads : (queue'[u] = queue[u] \/ watching[u]) /\ (watching'[u] => watching[u])
    BY <1>1, <2>1, <2>2, HappenIs
  <2>4. pc'[t] = "inotify_add_watch" /\ fds' \in 0..FDLIMIT
    BY <1>1, <1>4, <2>1 DEF Typed, ServerTyped, InotifyTyped
  <2>5. Typed'
    <3>1. ServerTyped'
      BY <1>1, <1>2, <2>1, <2>3, <2>4 DEF Typed, ServerTyped, Places, Filling
    <3>2. InotifyTyped'
      BY <1>1, <1>2, <2>1, <2>3, <2>4 DEF Typed, InotifyTyped
    <3>3. TcpdumpTyped'
      BY <1>1, <1>2, <2>1, <2>3, <2>4 DEF Typed, TcpdumpTyped
    <3> QED
      BY <3>1, <3>2, <3>3 DEF Typed
  <2>6. \A u \in Threads \ {t} : Keeps(u)
    BY <1>1, <1>2, <2>1, <2>3 DEF Typed, ServerTyped, InotifyTyped, Keeps
  <2>7. Placed(t)' /\ Called(t)' /\ Scanned(t)'
    BY <1>1, <1>2, <1>3, <2>4 DEF Placed, Called, Scanned
  <2>8. Watches(t)'
    BY <1>1, <1>2, <1>3, <2>3, <2>4 DEF Watches
  <2> QED
    BY <1>2, <1>3, <2>1, <2>5, <2>6, <2>7, <2>8, InotifyAfter
<1>5. CASE ~(exists /\ fds < FDLIMIT)
  <2>1. nj' = "exited" /\ UNCHANGED <<pc, fds, queue, watching>>
    BY <1>5 DEF I!OpenPath
  <2>2. Typed'
    <3>1. ServerTyped'
      BY <1>1, <1>2, <2>1 DEF Typed, ServerTyped, Places, Filling
    <3>2. InotifyTyped'
      BY <1>1, <1>2, <2>1 DEF Typed, InotifyTyped
    <3>3. TcpdumpTyped'
      BY <1>1, <1>2, <2>1 DEF Typed, TcpdumpTyped
    <3> QED
      BY <3>1, <3>2, <3>3 DEF Typed
  <2>3. \A u \in Threads \ {t} : Keeps(u)
    BY <1>2, <2>1 DEF Keeps
  <2>4. Placed(t)' /\ Called(t)' /\ Watches(t)' /\ Scanned(t)' /\ Holds(t)' = Holds(t)
    BY <1>1, <1>2, <1>3, <2>1
       DEF Placed, Called, Watches, Scanned, Holds, OfInotify, OfTcpdump
  <2> QED
    BY <1>2, <1>3, <2>1, <2>2, <2>3, <2>4, InotifyAfter
<1> QED
  BY <1>4, <1>5

LEMMA AddWatchStep ==
    ASSUME PInv, NEW t \in Threads, I!AddWatch(t), UNCHANGED <<filefd, alone, tcpdumpVars>>
    PROVE  PInv'
<1>1. Typed /\ Placed(t) /\ Called(t) /\ Watches(t) /\ Scanned(t)
  BY DEF PInv, Mine
<1>2. PICK b \in BOOLEAN : b = (instance[t] /\ exists /\ I!GetMask(t) # {})
  BY Zenon
<1>3. /\ nj = "alive" /\ pc[t] = "inotify_add_watch"
      /\ watching' = [watching EXCEPT ![t] = b]
      /\ pc' = [pc EXCEPT ![t] = "read"]
      /\ UNCHANGED <<ask, filefd, alone, nj, calls, argsrecv, fds, exists, instance, queue, buffer, i, retStr,
                     got, end, number, retstring, count>>
  BY <1>2, Zenon DEF I!AddWatch, I!At, I!Goto, I!locals, I!server, tcpdumpVars
<1>4. pc'[t] = "read" /\ watching'[t] = b /\ (b => instance[t])
  BY <1>1, <1>2, <1>3 DEF Typed, ServerTyped, InotifyTyped
<1>5. OfInotify(t) /\ OfInotify(t)'
  BY <1>1, <1>3 DEF Placed, Filling, OfInotify
<1>6. Typed'
  <2>1. ServerTyped'
    BY <1>1, <1>3 DEF Typed, ServerTyped, Places, Filling
  <2>2. InotifyTyped'
    BY <1>1, <1>3 DEF Typed, InotifyTyped
  <2>3. TcpdumpTyped'
    BY <1>1, <1>3 DEF Typed, TcpdumpTyped
  <2> QED
    BY <2>1, <2>2, <2>3 DEF Typed
<1>7. \A u \in Threads \ {t} : Keeps(u)
  BY <1>1, <1>3 DEF Typed, ServerTyped, InotifyTyped, Keeps
<1>8. Placed(t)' /\ Called(t)' /\ Watches(t)' /\ Scanned(t)'
  BY <1>1, <1>3, <1>4, <1>5 DEF Placed, Called, Watches, Scanned
<1>9. Holds(t)' => Holds(t)
  BY <1>3, <1>5 DEF Holds, OfInotify, OfTcpdump
<1> QED
  BY <1>3, <1>5, <1>6, <1>7, <1>8, <1>9, InotifyAfter

LEMMA ReadStep ==
    ASSUME PInv, NEW t \in Threads, I!Read(t), UNCHANGED <<filefd, alone, tcpdumpVars>>
    PROVE  PInv'
<1>1. Typed /\ Placed(t) /\ Called(t) /\ Watches(t) /\ Scanned(t)
  BY DEF PInv, Mine
<1>2. /\ nj = "alive" /\ pc[t] = "read"
      /\ UNCHANGED <<ask, filefd, alone, nj, calls, argsrecv, fds, exists, instance, watching, retStr,
                     got, end, number, retstring, count>>
  BY DEF I!Read, I!At, I!server, tcpdumpVars
<1>3. OfInotify(t) /\ OfInotify(t)' /\ i[t] = 1 /\ retStr[t] = 0 /\ buffer[t] = <<>>
  <2>1. OfInotify(t) /\ i[t] = 1 /\ buffer[t] = <<>> /\ retStr[t] < 1 /\ retStr[t] \in Nat
    BY <1>1, <1>2 DEF Placed, Filling, Scanned, Typed, ServerTyped, InotifyTyped
  <2> QED
    BY <1>2, <2>1 DEF OfInotify
<1>4. CASE ~instance[t] /\ I!Goto(t, "return") /\ UNCHANGED <<queue, buffer, i>>
  <2>1. pc' = [pc EXCEPT ![t] = "return"] /\ pc'[t] = "return"
    BY <1>1, <1>4 DEF I!Goto, Typed, ServerTyped, InotifyTyped
  <2>2. Typed' /\ \A u \in Threads \ {t} : Keeps(u)
    <3>1. Typed'
      <4>1. ServerTyped'
        BY <1>1, <1>2, <1>4, <2>1 DEF Typed, ServerTyped, Places, Filling
      <4>2. InotifyTyped'
        BY <1>1, <1>2, <1>4, <2>1 DEF Typed, InotifyTyped
      <4>3. TcpdumpTyped'
        BY <1>1, <1>2, <1>4, <2>1 DEF Typed, TcpdumpTyped
      <4> QED
        BY <4>1, <4>2, <4>3 DEF Typed
    <3>2. \A u \in Threads \ {t} : Keeps(u)
      BY <1>1, <1>2, <1>4, <2>1 DEF Typed, ServerTyped, InotifyTyped, Keeps
    <3> QED
      BY <3>1, <3>2
  <2>3. Placed(t)' /\ Called(t)' /\ Watches(t)'
    BY <1>1, <1>2, <1>3, <1>4, <2>1 DEF Placed, Called, Watches
  <2>4. argsrecv[t].call # calls[t]
    <3>1. argsrecv[t].call < calls[t] /\ argsrecv[t].call \in Nat /\ calls[t] \in Nat
      BY <1>1, <1>2 DEF Called, Typed, ServerTyped, InotifyTyped
    <3> QED
      BY <3>1
  <2>5. Scanned(t)'
    BY <1>1, <1>2, <1>3, <1>4, <2>1, <2>4 DEF Scanned
  <2>6. Holds(t)' => Holds(t)
    BY <1>2, <1>3 DEF Holds, OfInotify, OfTcpdump
  <2> QED
    BY <1>2, <1>3, <2>2, <2>3, <2>5, <2>6, InotifyAfter
<1>5. CASE /\ queue[t] # <<>>
           /\ buffer' = [buffer EXCEPT ![t] = queue[t]]
           /\ i' = [i EXCEPT ![t] = 1]
           /\ queue' = [queue EXCEPT ![t] = <<>>]
           /\ I!Goto(t, "scan")
  <2>1. pc' = [pc EXCEPT ![t] = "scan"] /\ pc'[t] = "scan" /\ i'[t] = 1 /\ queue'[t] = <<>>
        /\ buffer'[t] # <<>>
    BY <1>1, <1>5 DEF I!Goto, Typed, ServerTyped, InotifyTyped
  <2>2. <<>> \in Seq(I!Events \cup {I!Removed}) /\ queue[t] \in Seq(I!Events \cup {I!Removed})
    BY <1>1 DEF Typed, ServerTyped, InotifyTyped
  <2>3. Typed' /\ \A u \in Threads \ {t} : Keeps(u)
    <3>1. Typed'
      <4>1. ServerTyped'
        BY <1>1, <1>2, <1>5, <2>1, <2>2 DEF Typed, ServerTyped, Places, Filling
      <4>2. InotifyTyped'
        BY <1>1, <1>2, <1>5, <2>1, <2>2 DEF Typed, InotifyTyped
      <4>3. TcpdumpTyped'
        BY <1>1, <1>2, <1>5, <2>1, <2>2 DEF Typed, TcpdumpTyped
      <4> QED
        BY <4>1, <4>2, <4>3 DEF Typed
    <3>2. \A u \in Threads \ {t} : Keeps(u)
      BY <1>1, <1>2, <1>5, <2>1, <2>2 DEF Typed, ServerTyped, InotifyTyped, Keeps
    <3> QED
      BY <3>1, <3>2
  <2>4. Placed(t)' /\ Called(t)' /\ Watches(t)'
    BY <1>1, <1>2, <1>3, <1>5, <2>1 DEF Placed, Called, Watches
  <2>5. Len(buffer'[t]) \in Nat
    BY <2>3, LenProperties DEF Typed, ServerTyped, InotifyTyped
  <2>6. Scanned(t)'
    BY <1>2, <1>3, <2>1, <2>5 DEF Scanned
  <2>7. Holds(t)' => Holds(t)
    BY <1>2, <1>3 DEF Holds, OfInotify, OfTcpdump
  <2> QED
    BY <1>2, <1>3, <2>3, <2>4, <2>6, <2>7, InotifyAfter
<1> QED
  BY <1>4, <1>5 DEF I!Read

LEMMA ScanStep ==
    ASSUME PInv, NEW t \in Threads, I!Scan(t), UNCHANGED <<filefd, alone, tcpdumpVars>>
    PROVE  PInv'
<1>1. /\ Typed /\ Placed(t) /\ Called(t) /\ Watches(t) /\ Scanned(t)
      /\ i[t] \in Nat /\ retStr[t] \in Nat /\ Len(buffer[t]) \in Nat
  BY LenProperties DEF PInv, Mine, Typed, ServerTyped, InotifyTyped
<1>2. /\ nj = "alive" /\ pc[t] = "scan" /\ i[t] <= Len(buffer[t])
      /\ retStr' = [retStr EXCEPT ![t] = IF buffer[t][i[t]].kind \in Reported THEN i[t] ELSE retStr[t]]
      /\ i' = [i EXCEPT ![t] = i[t] + 1]
      /\ UNCHANGED <<ask, filefd, alone, nj, pc, calls, argsrecv, fds, exists, instance, watching, queue, buffer,
                     got, end, number, retstring, count>>
  BY DEF I!Scan, I!At, I!Event, I!server, I!watches, tcpdumpVars
<1>3. OfInotify(t) /\ OfInotify(t)'
  BY <1>1, <1>2 DEF Placed, Filling, OfInotify
<1>4. PICK r \in Nat : r = IF buffer[t][i[t]].kind \in Reported THEN i[t] ELSE retStr[t]
  BY <1>1
<1>5. retStr' = [retStr EXCEPT ![t] = r] /\ retStr'[t] = r /\ i'[t] = i[t] + 1
  BY <1>1, <1>2, <1>4 DEF Typed, ServerTyped, InotifyTyped
<1>6. Typed' /\ \A u \in Threads \ {t} : Keeps(u)
  <2>1. i' \in [Threads -> Nat] /\ retStr' \in [Threads -> Nat]
    BY <1>1, <1>2, <1>5 DEF Typed, ServerTyped, InotifyTyped
  <2>2. \A u \in Threads \ {t} : i'[u] = i[u] /\ retStr'[u] = retStr[u]
    BY <1>1, <1>2, <1>5 DEF Typed, ServerTyped, InotifyTyped
  <2>3. \A u \in Threads \ {t} : Keeps(u)
    BY <1>2, <2>2 DEF Keeps
  <2>4. Typed'
    <3>1. ServerTyped'
      BY <1>1, <1>2 DEF Typed, ServerTyped
    <3>2. InotifyTyped'
      BY <1>1, <1>2, <2>1 DEF Typed, InotifyTyped
    <3>3. TcpdumpTyped'
      BY <1>1, <1>2 DEF Typed, TcpdumpTyped
    <3> QED
      BY <3>1, <3>2, <3>3 DEF Typed
  <2> QED
    BY <2>3, <2>4
<1>7. Placed(t)' /\ Called(t)' /\ Watches(t)'
  BY <1>1, <1>2, <1>3 DEF Placed, Called, Watches, OfTcpdump
<1>8. Scanned(t)'
  <2>1. i'[t] <= Len(buffer[t]) + 1 /\ r < i'[t]
    BY <1>1, <1>2, <1>4, <1>5 DEF Scanned
  <2>2. r # 0 => buffer[t][r].kind \in Reported
    BY <1>1, <1>4 DEF Scanned
  <2>3. ASSUME NEW k \in 1..i'[t] - 1, buffer[t][k].kind \in Reported
        PROVE  k <= r
    <3>1. k = i[t] \/ k \in 1..i[t] - 1
      BY <1>1, <1>5
    <3>2. retStr[t] <= r
      BY <1>1, <1>4 DEF Scanned
    <3>3. CASE k = i[t]
      BY <1>1, <1>4, <2>3, <3>3
    <3>4. CASE k \in 1..i[t] - 1
      <4>1. k <= retStr[t]
        BY <1>1, <2>3, <3>4 DEF Scanned
      <4> QED
        BY <1>1, <3>2, <3>4, <4>1
    <3> QED
      BY <3>1, <3>3, <3>4
  <2>4. buffer'[t] = buffer[t] /\ buffer[t] # <<>> /\ retStr'[t] = r /\ pc'[t] = "scan"
    BY <1>1, <1>2, <1>5 DEF Scanned
  <2> QED
    BY <2>1, <2>2, <2>3, <2>4 DEF Scanned
<1>9. Holds(t)' => Holds(t)
  BY <1>2 DEF Holds, OfTcpdump
<1> QED
  BY <1>2, <1>3, <1>6, <1>7, <1>8, <1>9, InotifyAfter

LEMMA FinishStep ==
    ASSUME PInv, NEW t \in Threads, I!Finish(t), UNCHANGED <<filefd, alone, tcpdumpVars>>
    PROVE  PInv'
<1>1. /\ Typed /\ Placed(t) /\ Called(t) /\ Watches(t) /\ Scanned(t)
      /\ i[t] \in Nat /\ retStr[t] \in Nat /\ Len(buffer[t]) \in Nat /\ calls[t] \in Nat
  BY LenProperties DEF PInv, Mine, Typed, ServerTyped, InotifyTyped
<1>2. /\ nj = "alive" /\ pc[t] = "scan" /\ i[t] > Len(buffer[t])
      /\ I!CopyResult(t)
      /\ instance' = [instance EXCEPT ![t] = FALSE]
      /\ watching' = [watching EXCEPT ![t] = FALSE]
      /\ queue' = [queue EXCEPT ![t] = <<>>]
      /\ fds' = fds - 1
      /\ pc' = [pc EXCEPT ![t] = "return"]
      /\ UNCHANGED <<ask, filefd, alone, calls, exists, buffer, i, retStr,
                     got, end, number, retstring, count>>
  BY DEF I!Finish, I!At, I!Goto, I!locals, tcpdumpVars
<1>3. OfInotify(t) /\ OfInotify(t)' /\ instance[t]
  BY <1>1, <1>2 DEF Placed, Filling, Watches, OfInotify
<1>4. Holds(t) /\ fds' \in 0..FDLIMIT
  BY <1>2, <1>3, HolderHas DEF Holds
<1>5. /\ argsrecv' \in [Threads -> [call : Nat, text : Seq(Nat) \cup Seq(Pieces)]]
      /\ \A u \in Threads \ {t} : argsrecv'[u] = argsrecv[u]
      /\ nj' \in {"alive", "corrupt"}
      /\ retStr[t] # 0 => argsrecv'[t] = [call |-> calls[t], text |-> <<retStr[t]>>]
      /\ retStr[t] = 0 => argsrecv'[t].call < calls[t]
  <2>1. /\ argsrecv[t].call \in Nat /\ argsrecv[t].call < calls[t]
        /\ argsrecv \in [Threads -> [call : Nat, text : Seq(Nat) \cup Seq(Pieces)]]
    BY <1>1, <1>2 DEF Called, Typed, ServerTyped
  <2>2. /\ [call |-> calls[t], text |-> <<retStr[t]>>] \in [call : Nat, text : Seq(Nat) \cup Seq(Pieces)]
        /\ [call |-> 0, text |-> <<>>] \in [call : Nat, text : Seq(Nat) \cup Seq(Pieces)]
    BY <1>1
  <2>3. CASE retStr[t] # 0
    <3>1. /\ argsrecv' = [argsrecv EXCEPT ![t] = [call |-> calls[t], text |-> <<retStr[t]>>]]
          /\ nj' = nj
      BY <1>2, <2>3 DEF I!CopyResult
    <3> QED
      BY <1>2, <2>1, <2>2, <2>3, <3>1
  <2>4. CASE retStr[t] = 0
    <3>1. 0 < calls[t]
      BY <1>1, <2>1
    <3>2. argsrecv' = argsrecv \/ argsrecv' = [argsrecv EXCEPT ![t] = [call |-> 0, text |-> <<>>]]
      BY <1>2, <2>4 DEF I!CopyResult
    <3>3. nj' \in {"alive", "corrupt"}
      BY <1>2, <2>4 DEF I!CopyResult
    <3>4. CASE argsrecv' = argsrecv
      BY <2>1, <2>4, <3>3, <3>4
    <3>5. CASE argsrecv' = [argsrecv EXCEPT ![t] = [call |-> 0, text |-> <<>>]]
      BY <2>1, <2>2, <2>4, <3>1, <3>3, <3>5
    <3> QED
      BY <3>2, <3>4, <3>5
  <2> QED
    BY <2>3, <2>4
<1>6. /\ pc'[t] = "return" /\ ~instance'[t] /\ ~watching'[t] /\ queue'[t] = <<>>
  BY <1>1, <1>2 DEF Typed, ServerTyped, InotifyTyped
<1>7. Typed'
  <2>1. ServerTyped'
    BY <1>1, <1>2, <1>4, <1>5 DEF Typed, ServerTyped, Places
  <2>2. InotifyTyped'
    BY <1>1, <1>2 DEF Typed, InotifyTyped
  <2>3. TcpdumpTyped'
    BY <1>1, <1>2 DEF Typed, TcpdumpTyped
  <2> QED
    BY <2>1, <2>2, <2>3 DEF Typed
<1>8. \A u \in Threads \ {t} : Keeps(u)
  BY <1>1, <1>2, <1>5 DEF Typed, ServerTyped, InotifyTyped, Keeps
<1>9. Placed(t)' /\ Watches(t)'
  BY <1>1, <1>2, <1>3, <1>6 DEF Placed, Watches
<1>10. Called(t)'
  BY <1>1, <1>2, <1>5, <1>6 DEF Called
<1>11. Scanned(t)'
  <2>1. i[t] = Len(buffer[t]) + 1
    BY <1>1, <1>2 DEF Scanned
  <2>2. retStr[t] # 0 => argsrecv'[t].call = calls[t] /\ argsrecv'[t].text = <<retStr[t]>>
    BY <1>5
  <2>3. retStr[t] = 0 => argsrecv'[t].call # calls[t]
    <3>1. PICK c : c = argsrecv'[t].call
      OBVIOUS
    <3>2. c \in Nat /\ (retStr[t] = 0 => c < calls[t])
      BY <1>5, <3>1
    <3> QED
      BY <1>1, <3>1, <3>2
  <2> QED
    BY <1>1, <1>2, <1>3, <1>6, <2>1, <2>2, <2>3 DEF Scanned
<1>12. ~Holds(t)'
  BY <1>3, <1>6 DEF Holds, OfInotify, OfTcpdump
<1> QED
  BY <1>2, <1>3, <1>4, <1>7, <1>8, <1>9, <1>10, <1>11, <1>12, InotifyAfter

\* The file of a call that returns is closed.
LEMMA WriteCloses ==
    ASSUME PInv, NEW t \in Threads, Write(t)
    PROVE  /\ nj = "alive" /\ pc[t] = "return" /\ pc' = [pc EXCEPT ![t] = "idle"]
           /\ pc'[t] = "idle" /\ \A u \in Threads \ {t} : pc'[u] = pc[u]
           /\ UNCHANGED <<ask, alone, nj, calls, argsrecv, exists, instance, watching, queue,
                          got, end, number, retstring, count>>
           /\ filefd' \in [Threads -> BOOLEAN] /\ fds' \in 0..FDLIMIT
           /\ ~filefd'[t] /\ \A u \in Threads \ {t} : filefd'[u] = filefd[u]
           /\ fds' = fds \/ (fds' = fds - 1 /\ filefd[t])
           /\ Counted'
<1>1. Typed /\ Counted /\ Placed(t)
  BY DEF PInv, Mine
<1>2. /\ nj = "alive" /\ pc[t] = "return" /\ pc' = [pc EXCEPT ![t] = "idle"]
      /\ UNCHANGED <<ask, alone, nj, calls, argsrecv, exists, instance, watching, queue,
                     got, end, number, retstring, count>>
  BY DEF Write, I!ReturnInotify, T!ReturnTcpdump, I!At, T!At, I!Goto, T!Goto, I!watches,
         T!tcpdumpVars, inotifyVars, tcpdumpVars
<1>3. /\ filefd' = [filefd EXCEPT ![t] = FALSE]
      /\ fds' = fds \/ (fds' = fds - 1 /\ filefd[t])
  BY DEF Write
<1>4. fds \in 0..FDLIMIT /\ pc \in [Threads -> Places] /\ filefd \in [Threads -> BOOLEAN]
  BY <1>1 DEF Typed, ServerTyped
<1>5. filefd[t] => fds - 1 \in 0..FDLIMIT
  BY HolderHas
<1>6. /\ filefd' \in [Threads -> BOOLEAN] /\ fds' \in 0..FDLIMIT
      /\ ~filefd'[t] /\ \A u \in Threads \ {t} : filefd'[u] = filefd[u]
      /\ pc'[t] = "idle" /\ \A u \in Threads \ {t} : pc'[u] = pc[u]
  BY <1>2, <1>3, <1>4, <1>5
<1>7. \A u \in Threads : Holds(u)' = Holds(u)
  BY <1>2, <1>6 DEF Holds, OfTcpdump, Filling
<1>8. PICK f : f = fds'
  OBVIOUS
<1>9. f \in Nat /\ fds \in Nat
  BY <1>4, <1>6, <1>8, ProvidersAssumption
<1>10. \/ f = fds /\ (filefd'[t] => filefd[t])
       \/ f = fds - 1 /\ filefd[t] /\ ~filefd'[t]
  BY <1>3, <1>6, <1>8
<1>11. Counted'
  BY <1>1, <1>6, <1>7, <1>8, <1>9, <1>10, FilesAfter
<1> QED
  BY <1>2, <1>3, <1>6, <1>11

LEMMA ReturnInotifyStep ==
    ASSUME PInv, NEW t \in Threads, OfInotify(t), Write(t)
    PROVE  PInv'
<1>1. Typed /\ Placed(t) /\ Called(t) /\ Watches(t) /\ Scanned(t)
  BY DEF PInv, Mine
<1>2. /\ buffer' = [buffer EXCEPT ![t] = <<>>]
      /\ i' = [i EXCEPT ![t] = 1]
      /\ retStr' = [retStr EXCEPT ![t] = 0]
  BY DEF Write, I!ReturnInotify, OfInotify, OfTcpdump
<1>3. /\ nj = "alive" /\ pc[t] = "return" /\ pc' = [pc EXCEPT ![t] = "idle"]
      /\ pc'[t] = "idle" /\ \A u \in Threads \ {t} : pc'[u] = pc[u]
      /\ UNCHANGED <<ask, alone, nj, calls, argsrecv, exists, instance, watching, queue,
                     got, end, number, retstring, count>>
      /\ filefd' \in [Threads -> BOOLEAN] /\ fds' \in 0..FDLIMIT
      /\ ~filefd'[t] /\ \A u \in Threads \ {t} : filefd'[u] = filefd[u]
      /\ Counted'
  BY WriteCloses
<1>4. buffer'[t] = <<>> /\ i'[t] = 1 /\ retStr'[t] = 0 /\ OfInotify(t)'
  BY <1>1, <1>2, <1>3 DEF Typed, InotifyTyped, OfInotify
<1>5. \A u \in Threads \ {t} : Keeps(u)
  BY <1>1, <1>2, <1>3 DEF Typed, InotifyTyped, Keeps
<1>6. Typed'
  <2>1. ServerTyped'
    BY <1>1, <1>3 DEF Typed, ServerTyped, Places
  <2>2. InotifyTyped'
    BY <1>1, <1>2, <1>3 DEF Typed, InotifyTyped
  <2>3. TcpdumpTyped'
    BY <1>1, <1>3 DEF Typed, TcpdumpTyped
  <2> QED
    BY <2>1, <2>2, <2>3 DEF Typed
<1>7. Placed(t)' /\ Called(t)' /\ Watches(t)' /\ Scanned(t)'
  BY <1>1, <1>3, <1>4 DEF Placed, Called, Watches, Scanned
<1> QED
  BY <1>3, <1>5, <1>6, <1>7, InotifyKeeps

-----------------------------------------------------------------------------
(* The steps of tcpdump. *)

\* A step of a call that captures leaves inotify alone.
LEMMA TcpdumpAfter ==
    ASSUME PInv, NEW u \in Threads, Busy(u),
           UNCHANGED <<ask, filefd, alone, calls, instance, watching, queue, buffer, i, retStr>>,
           \A t \in Threads \ {u} : Keeps(t), Typed', Shared',
           Placed(u)', Called(u)', alone[u] => Progress(u)',
           \/ fds' = fds + 1
           \/ fds' = fds /\ (Holds(u)' => Holds(u))
           \/ fds' = fds - 1 /\ Holds(u) /\ ~Holds(u)'
    PROVE  PInv'
<1>1. OfTcpdump(u) /\ ~OfInotify(u) /\ ~OfInotify(u)' /\ Mine(u)
  BY DEF PInv, Busy, OfInotify, OfTcpdump
<1>2. Overlaps(u)
  BY DEF Overlaps
<1>3. Watches(u)' /\ Scanned(u)'
  <2>1. ~instance[u] /\ pc'[u] # "scan"
    BY <1>1 DEF Mine, Watches, Placed, Filling
  <2> QED
    BY <1>1, <2>1 DEF Mine, Watches, Scanned
<1>4. ASSUME alone[u] PROVE \A v \in Threads \ {u} : ~Busy(v)'
  BY <1>1, <1>4 DEF Mine, Exact, Busy, Keeps, OfTcpdump
<1>5. Exact(u)'
  BY <1>4 DEF Exact
<1>6. Mine(u)'
  BY <1>3, <1>5 DEF Mine
<1>7. Counted'
  BY CountedAfter
<1> QED
  BY <1>2, <1>6, <1>7, PInvAfter

\* Where a call that captures is.
LEMMA Captures ==
    ASSUME PInv, NEW t \in Threads,
           pc[t] \in {"pcap_open_live", "strcpy", "clear"} \cup Filling, nj = "alive"
    PROVE  /\ OfTcpdump(t) /\ ~OfInotify(t) /\ Busy(t) /\ ~instance[t]
           /\ Typed /\ Shared /\ Called(t) /\ (alone[t] => Progress(t))
           /\ Len(retstring) <= RETSIZE
           /\ got[t] \in Nat /\ count \in Nat /\ calls[t] \in Nat /\ ask[t].num_packets \in Nat
<1>1. Typed /\ Shared /\ Placed(t) /\ Called(t) /\ Watches(t) /\ Exact(t)
  BY DEF PInv, Mine
<1>2. OfTcpdump(t) /\ ~OfInotify(t)
  BY <1>1 DEF Placed, Filling, OfInotify, OfTcpdump
<1>3. Busy(t) /\ ~instance[t] /\ (alone[t] => Progress(t))
  BY <1>1, <1>2 DEF Busy, Watches, Exact, Filling
<1>4. ask[t].num_packets \in Nat
  BY <1>1, ProvidersAssumption DEF Typed, ServerTyped, TcpdumpTyped, Asks
<1> QED
  BY <1>1, <1>2, <1>3, <1>4 DEF Shared, Typed, ServerTyped, TcpdumpTyped

LEMMA OpenLiveStep ==
    ASSUME PInv, NEW t \in Threads, T!OpenLive(t), UNCHANGED <<filefd, alone, inotifyVars>>
    PROVE  PInv'
<1>1. /\ nj = "alive" /\ pc[t] = "pcap_open_live"
      /\ got' = [got EXCEPT ![t] = 0]
      /\ UNCHANGED <<ask, filefd, alone, nj, calls, argsrecv, end, number, retstring, count,
                     exists, instance, watching, queue, buffer, i, retStr>>
  BY DEF T!OpenLive, T!At, inotifyVars
<1>2. /\ OfTcpdump(t) /\ ~OfInotify(t) /\ Busy(t) /\ ~instance[t]
      /\ Typed /\ Shared /\ Called(t) /\ Exact(t)
      /\ Len(retstring) <= RETSIZE
      /\ calls[t] \in Nat /\ fds \in 0..FDLIMIT /\ FDLIMIT \in Nat
  BY <1>1, Captures, ProvidersAssumption DEF PInv, Mine, Typed, ServerTyped, TcpdumpTyped
<1>3. \/ fds' \in {fds, fds + 1} /\ pc' = [pc EXCEPT ![t] = "return"]
      \/ fds' = fds + 1 /\ pc' = [pc EXCEPT ![t] = "pcap_loop"]
  BY DEF T!OpenLive, T!Goto
<1>4. fds' \in 0..FDLIMIT
  BY <1>2 DEF T!OpenLive
<1>5. got'[t] = 0 /\ pc'[t] \in {"return", "pcap_loop"}
  BY <1>1, <1>2, <1>3 DEF Typed, ServerTyped, TcpdumpTyped
<1>6. Typed' /\ \A u \in Threads \ {t} : Keeps(u)
  <2>1. pc' \in [Threads -> Places] /\ \A u \in Threads \ {t} : pc'[u] = pc[u]
    BY <1>2, <1>3 DEF Typed, ServerTyped, TcpdumpTyped, Places, Filling
  <2>2. \A u \in Threads \ {t} : Keeps(u)
    BY <1>1, <1>2, <2>1 DEF Typed, TcpdumpTyped, Keeps
  <2>3. Typed'
    <3>1. ServerTyped'
      BY <1>1, <1>2, <1>4, <2>1 DEF Typed, ServerTyped
    <3>2. InotifyTyped'
      BY <1>1, <1>2 DEF Typed, InotifyTyped
    <3>3. TcpdumpTyped'
      BY <1>1, <1>2 DEF Typed, TcpdumpTyped
    <3> QED
      BY <3>1, <3>2, <3>3 DEF Typed
  <2> QED
    BY <2>2, <2>3
<1>7. Shared'
  <2>1. \A u \in Threads \ {t} : pc'[u] = pc[u]
    BY <1>6 DEF Keeps
  <2> QED
    BY <1>1, <1>2, <1>5, <2>1, SharedAfter DEF Filling
<1>8. Placed(t)' /\ Called(t)'
  BY <1>1, <1>2, <1>5 DEF Placed, Called, Filling, OfTcpdump
<1>9. ASSUME alone[t] PROVE Progress(t)'
  <2>1. \A u \in Threads \ {t} : ~Busy(u)
    BY <1>2, <1>9 DEF Exact
  <2>2. ~\E u \in Threads : OfTcpdump(u) /\ pc[u] \in Filling \cup {"strcpy", "clear"}
    BY <1>1, <2>1 DEF Busy, Filling
  <2>3. retstring = <<>> /\ count = 1
    BY <1>2, <2>2 DEF Shared
  <2>4. argsrecv[t].call # calls[t]
    <3>1. argsrecv[t].call < calls[t] /\ argsrecv[t].call \in Nat
      BY <1>1, <1>2 DEF Called, Typed, ServerTyped, TcpdumpTyped
    <3> QED
      BY <1>2, <3>1
  <2>5. Wording(t, calls[t], 0) = <<>>
    BY <1>2, WordingGrows
  <2> QED
    BY <1>1, <1>5, <2>3, <2>4, <2>5 DEF Progress
<1>10. fds' = fds + 1 \/ (fds' = fds /\ (Holds(t)' => Holds(t)))
  <2>1. CASE fds' = fds
    <3>1. pc'[t] = "return"
      BY <1>2, <1>3, <2>1 DEF Typed, ServerTyped, TcpdumpTyped
    <3> QED
      BY <1>1, <1>2, <2>1, <3>1 DEF Holds, Filling
  <2> QED
    BY <1>3, <2>1
<1> QED
  BY <1>1, <1>2, <1>6, <1>7, <1>8, <1>9, <1>10, TcpdumpAfter

LEMMA GotPacketStep ==
    ASSUME PInv, NEW t \in Threads, Packet(t)
    PROVE  PInv'
<1>1. /\ nj = "alive" /\ pc[t] = "pcap_loop"
      /\ number' = [number EXCEPT ![t] = count]
      /\ end' = [end EXCEPT ![t] = Len(retstring)]
      /\ pc' = [pc EXCEPT ![t] = "number"]
      /\ UNCHANGED <<ask, filefd, alone, nj, calls, argsrecv, fds, got, retstring, count,
                     exists, instance, watching, queue, buffer, i, retStr>>
  BY DEF Packet, T!GotPacket, T!At, T!Goto, T!FindEnd, inotifyVars
<1>2. /\ OfTcpdump(t) /\ Busy(t) /\ Typed /\ Shared /\ Called(t) /\ (alone[t] => Progress(t))
      /\ Len(retstring) <= RETSIZE /\ Len(retstring) \in Nat /\ count \in Nat
  BY <1>1, Captures, LenProperties DEF Filling, Typed, ServerTyped, TcpdumpTyped
<1>3. pc'[t] = "number" /\ number'[t] = count /\ end'[t] = Len(retstring)
  BY <1>1, <1>2 DEF Typed, ServerTyped, TcpdumpTyped
<1>4. Typed' /\ \A u \in Threads \ {t} : Keeps(u)
  <2>1. Typed'
    <3>1. ServerTyped'
      BY <1>1, <1>2 DEF Typed, ServerTyped, Places, Filling
    <3>2. InotifyTyped'
      BY <1>1, <1>2 DEF Typed, InotifyTyped
    <3>3. TcpdumpTyped'
      BY <1>1, <1>2 DEF Typed, TcpdumpTyped
    <3> QED
      BY <3>1, <3>2, <3>3 DEF Typed
  <2>2. \A u \in Threads \ {t} : Keeps(u)
    BY <1>1, <1>2 DEF Typed, ServerTyped, TcpdumpTyped, Keeps
  <2> QED
    BY <2>1, <2>2
<1>5. Shared'
  <2>1. \A u \in Threads \ {t} : pc'[u] = pc[u]
    BY <1>4 DEF Keeps
  <2> QED
    BY <1>1, <1>2, <1>3, <2>1, SharedAfter DEF Filling
<1>6. Placed(t)' /\ Called(t)'
  BY <1>1, <1>2, <1>3 DEF Placed, Called, Filling, OfTcpdump
<1>7. alone[t] => Progress(t)'
  BY <1>1, <1>2, <1>3 DEF Progress, Wording
<1>8. Holds(t)
  BY <1>1, <1>2 DEF Holds, Filling
<1> QED
  BY <1>1, <1>2, <1>4, <1>5, <1>6, <1>7, <1>8, TcpdumpAfter

LEMMA HeaderStep ==
    ASSUME PInv, NEW t \in Threads, T!Header(t), UNCHANGED <<filefd, alone, inotifyVars>>
    PROVE  PInv'
<1>1. /\ nj = "alive" /\ pc[t] = "header"
      /\ end' = [end EXCEPT ![t] = Len(retstring)]
      /\ pc' = [pc EXCEPT ![t] = "packet"]
      /\ UNCHANGED <<ask, filefd, alone, nj, calls, argsrecv, fds, got, number, retstring, count,
                     exists, instance, watching, queue, buffer, i, retStr>>
  BY DEF T!Header, T!At, T!Goto, T!FindEnd, inotifyVars
<1>2. /\ OfTcpdump(t) /\ Busy(t) /\ Typed /\ Shared /\ Called(t) /\ (alone[t] => Progress(t))
      /\ Len(retstring) <= RETSIZE /\ Len(retstring) \in Nat
  BY <1>1, Captures, LenProperties DEF Filling, Typed, ServerTyped, TcpdumpTyped
<1>3. pc'[t] = "packet" /\ end'[t] = Len(retstring)
  BY <1>1, <1>2 DEF Typed, ServerTyped, TcpdumpTyped
<1>4. Typed' /\ \A u \in Threads \ {t} : Keeps(u)
  <2>1. Typed'
    <3>1. ServerTyped'
      BY <1>1, <1>2 DEF Typed, ServerTyped, Places, Filling
    <3>2. InotifyTyped'
      BY <1>1, <1>2 DEF Typed, InotifyTyped
    <3>3. TcpdumpTyped'
      BY <1>1, <1>2 DEF Typed, TcpdumpTyped
    <3> QED
      BY <3>1, <3>2, <3>3 DEF Typed
  <2>2. \A u \in Threads \ {t} : Keeps(u)
    BY <1>1, <1>2 DEF Typed, ServerTyped, TcpdumpTyped, Keeps
  <2> QED
    BY <2>1, <2>2
<1>5. Shared'
  <2>1. \A u \in Threads \ {t} : pc'[u] = pc[u]
    BY <1>4 DEF Keeps
  <2> QED
    BY <1>1, <1>2, <1>3, <2>1, SharedAfter DEF Filling
<1>6. Placed(t)' /\ Called(t)'
  BY <1>1, <1>2, <1>3 DEF Placed, Called, Filling, OfTcpdump
<1>7. alone[t] => Progress(t)'
  BY <1>1, <1>2, <1>3 DEF Progress, Wording
<1>8. Holds(t)
  BY <1>1, <1>2 DEF Holds, Filling
<1> QED
  BY <1>1, <1>2, <1>4, <1>5, <1>6, <1>7, <1>8, TcpdumpAfter

LEMMA AppendNumberStep ==
    ASSUME PInv, NEW t \in Threads, T!AppendNumber(t), UNCHANGED <<filefd, alone, inotifyVars>>
    PROVE  PInv'
<1>1. /\ nj = "alive" /\ pc[t] = "number"
      /\ T!Copy(t, <<"number", number[t]>>)
      /\ count' = count + 1
      /\ number' = [number EXCEPT ![t] = 0]
      /\ pc' = [pc EXCEPT ![t] = "header"]
      /\ UNCHANGED <<ask, filefd, alone, calls, argsrecv, fds, got,
                     exists, instance, watching, queue, buffer, i, retStr>>
  BY DEF T!AppendNumber, T!At, T!Goto, T!NumberOf, inotifyVars
<1>2. /\ OfTcpdump(t) /\ Busy(t) /\ Typed /\ Shared /\ Called(t) /\ (alone[t] => Progress(t))
      /\ Len(retstring) <= RETSIZE /\ count \in Nat /\ number[t] \in Nat
      /\ got[t] \in Nat /\ calls[t] \in Nat
  BY <1>1, Captures DEF Filling, Typed, ServerTyped, TcpdumpTyped
<1>3. <<"number", number[t]>> \in Pieces
  BY <1>2 DEF Pieces
<1>4. /\ retstring' \in Seq(Pieces) /\ nj' \in {"alive", "corrupt"}
      /\ Len(retstring') <= RETSIZE \/ nj' = "corrupt"
      /\ end' \in [Threads -> Nat] /\ \A u \in Threads \ {t} : end'[u] = end[u]
      /\ end[t] = Len(retstring) => retstring' = Append(retstring, <<"number", number[t]>>)
  BY <1>1, <1>2, <1>3, Copies
<1>5. pc'[t] = "header"
  BY <1>1, <1>2 DEF Typed, ServerTyped, TcpdumpTyped
<1>6. Typed' /\ \A u \in Threads \ {t} : Keeps(u)
  <2>1. Typed'
    <3>1. ServerTyped'
      BY <1>1, <1>2, <1>4 DEF Typed, ServerTyped, Places, Filling
    <3>2. InotifyTyped'
      BY <1>1, <1>2, <1>4 DEF Typed, InotifyTyped
    <3>3. TcpdumpTyped'
      BY <1>1, <1>2, <1>4 DEF Typed, TcpdumpTyped
    <3> QED
      BY <3>1, <3>2, <3>3 DEF Typed
  <2>2. \A u \in Threads \ {t} : Keeps(u)
    BY <1>1, <1>2, <1>4 DEF Typed, ServerTyped, TcpdumpTyped, Keeps
  <2> QED
    BY <2>1, <2>2
<1>7. Shared'
  <2>1. \A u \in Threads \ {t} : pc'[u] = pc[u]
    BY <1>6 DEF Keeps
  <2> QED
    BY <1>1, <1>2, <1>4, <1>5, <2>1, SharedAfter DEF Filling
<1>8. Placed(t)' /\ Called(t)'
  BY <1>1, <1>2, <1>5 DEF Placed, Called, Filling, OfTcpdump
<1>9. ASSUME alone[t] PROVE Progress(t)'
  <2>1. /\ retstring = Wording(t, calls[t], 2 * got[t]) /\ count = got[t] + 1
        /\ number[t] = count /\ end[t] = Len(retstring)
    BY <1>1, <1>2, <1>9 DEF Progress
  <2>2. Append(Wording(t, calls[t], 2 * got[t]), <<"number", got[t] + 1>>)
          = Wording(t, calls[t], 2 * got[t] + 1)
    BY <1>2, WordingGrows
  <2>3. retstring' = Append(retstring, <<"number", number[t]>>) /\ number[t] = got[t] + 1
    BY <1>4, <2>1, Zenon
  <2>4. retstring' = Wording(t, calls[t], 2 * got[t] + 1)
    BY <2>1, <2>2, <2>3, Zenon
  <2>5. count' = got[t] + 2
    BY <1>1, <1>2, <2>1
  <2> QED
    BY <1>1, <1>5, <2>4, <2>5 DEF Progress, Wording
<1>10. Holds(t)
  BY <1>1, <1>2 DEF Holds, Filling
<1> QED
  BY <1>1, <1>2, <1>6, <1>7, <1>8, <1>9, <1>10, TcpdumpAfter

LEMMA AppendPacketStep ==
    ASSUME PInv, NEW t \in Threads, T!AppendPacket(t), UNCHANGED <<filefd, alone, inotifyVars>>
    PROVE  PInv'
<1>1. /\ nj = "alive" /\ pc[t] = "packet"
      /\ T!Copy(t, <<"packet", t, calls[t], got[t] + 1>>)
      /\ got' = [got EXCEPT ![t] = got[t] + 1]
      /\ pc' = [pc EXCEPT ![t] = "pcap_loop"]
      /\ UNCHANGED <<ask, filefd, alone, calls, argsrecv, fds, number, count,
                     exists, instance, watching, queue, buffer, i, retStr>>
  BY DEF T!AppendPacket, T!At, T!Goto, T!Packet, inotifyVars
<1>2. /\ OfTcpdump(t) /\ Busy(t) /\ Typed /\ Shared /\ Called(t) /\ (alone[t] => Progress(t))
      /\ Len(retstring) <= RETSIZE /\ count \in Nat
      /\ got[t] \in Nat /\ calls[t] \in Nat
  BY <1>1, Captures DEF Filling
<1>3. <<"packet", t, calls[t], got[t] + 1>> \in Pieces
  BY <1>2 DEF Pieces
<1>4. /\ retstring' \in Seq(Pieces) /\ nj' \in {"alive", "corrupt"}
      /\ Len(retstring') <= RETSIZE \/ nj' = "corrupt"
      /\ end' \in [Threads -> Nat] /\ \A u \in Threads \ {t} : end'[u] = end[u]
      /\ end[t] = Len(retstring) => retstring' = Append(retstring, <<"packet", t, calls[t], got[t] + 1>>)
  BY <1>1, <1>2, <1>3, Copies
<1>5. pc'[t] = "pcap_loop" /\ got'[t] = got[t] + 1
  BY <1>1, <1>2 DEF Typed, ServerTyped, TcpdumpTyped
<1>6. Typed' /\ \A u \in Threads \ {t} : Keeps(u)
  <2>1. Typed'
    <3>1. ServerTyped'
      BY <1>1, <1>2, <1>4 DEF Typed, ServerTyped, Places, Filling
    <3>2. InotifyTyped'
      BY <1>1, <1>2, <1>4 DEF Typed, InotifyTyped
    <3>3. TcpdumpTyped'
      BY <1>1, <1>2, <1>4 DEF Typed, TcpdumpTyped
    <3> QED
      BY <3>1, <3>2, <3>3 DEF Typed
  <2>2. \A u \in Threads \ {t} : Keeps(u)
    BY <1>1, <1>2, <1>4 DEF Typed, ServerTyped, TcpdumpTyped, Keeps
  <2> QED
    BY <2>1, <2>2
<1>7. Shared'
  <2>1. \A u \in Threads \ {t} : pc'[u] = pc[u]
    BY <1>6 DEF Keeps
  <2> QED
    BY <1>1, <1>2, <1>4, <1>5, <2>1, SharedAfter DEF Filling
<1>8. Placed(t)' /\ Called(t)'
  BY <1>1, <1>2, <1>5 DEF Placed, Called, Filling, OfTcpdump
<1>9. ASSUME alone[t] PROVE Progress(t)'
  <2>1. /\ retstring = Wording(t, calls[t], 2 * got[t] + 1) /\ count = got[t] + 2
        /\ end[t] = Len(retstring)
    BY <1>1, <1>2, <1>9 DEF Progress
  <2>2. Append(Wording(t, calls[t], 2 * got[t] + 1), <<"packet", t, calls[t], got[t] + 1>>)
          = Wording(t, calls[t], 2 * (got[t] + 1))
    BY <1>2, WordingGrows
  <2>3. retstring' = Append(retstring, <<"packet", t, calls[t], got[t] + 1>>)
    BY <1>4, <2>1, Zenon
  <2>4. retstring' = Wording(t, calls[t], 2 * (got[t] + 1))
    BY <2>1, <2>2, <2>3, Zenon
  <2>5. count' = got[t] + 1 + 1
    BY <1>1, <1>2, <2>1
  <2> QED
    BY <1>1, <1>5, <2>4, <2>5 DEF Progress, Wording
<1>10. Holds(t)
  BY <1>1, <1>2 DEF Holds, Filling
<1> QED
  BY <1>1, <1>2, <1>6, <1>7, <1>8, <1>9, <1>10, TcpdumpAfter

LEMMA CloseStep ==
    ASSUME PInv, NEW t \in Threads, T!Close(t), UNCHANGED <<filefd, alone, inotifyVars>>
    PROVE  PInv'
<1>1. /\ nj = "alive" /\ pc[t] = "pcap_loop" /\ got[t] = ask[t].num_packets
      /\ fds' = fds - 1
      /\ count' = 1
      /\ pc' = [pc EXCEPT ![t] = "strcpy"]
      /\ UNCHANGED <<ask, filefd, alone, nj, calls, argsrecv, got, end, number, retstring,
                     exists, instance, watching, queue, buffer, i, retStr>>
  BY DEF T!Close, T!At, T!Goto, inotifyVars
<1>2. /\ OfTcpdump(t) /\ Busy(t) /\ ~instance[t] /\ Typed /\ Shared /\ Called(t)
      /\ (alone[t] => Progress(t)) /\ Len(retstring) <= RETSIZE
  BY <1>1, Captures DEF Filling
<1>3. Holds(t) /\ fds' \in 0..FDLIMIT
  BY <1>1, <1>2, HolderHas DEF Holds, Filling
<1>4. pc'[t] = "strcpy"
  BY <1>1, <1>2 DEF Typed, ServerTyped, TcpdumpTyped
<1>5. Typed' /\ \A u \in Threads \ {t} : Keeps(u)
  <2>1. Typed'
    <3>1. ServerTyped'
      BY <1>1, <1>2, <1>3 DEF Typed, ServerTyped, Places, Filling
    <3>2. InotifyTyped'
      BY <1>1, <1>2, <1>3 DEF Typed, InotifyTyped
    <3>3. TcpdumpTyped'
      BY <1>1, <1>2, <1>3 DEF Typed, TcpdumpTyped
    <3> QED
      BY <3>1, <3>2, <3>3 DEF Typed
  <2>2. \A u \in Threads \ {t} : Keeps(u)
    BY <1>1, <1>2, <1>3 DEF Typed, ServerTyped, TcpdumpTyped, Keeps
  <2> QED
    BY <2>1, <2>2
<1>6. Shared'
  BY <1>1, <1>2, <1>4 DEF Shared, OfTcpdump
<1>7. Placed(t)' /\ Called(t)'
  BY <1>1, <1>2, <1>4 DEF Placed, Called, Filling, OfTcpdump
<1>8. alone[t] => Progress(t)'
  BY <1>1, <1>2, <1>4 DEF Progress, Wording
<1>9. ~Holds(t)'
  BY <1>1, <1>2, <1>4 DEF Holds, Filling
<1> QED
  BY <1>1, <1>2, <1>3, <1>5, <1>6, <1>7, <1>8, <1>9, TcpdumpAfter

LEMMA ResultStep ==
    ASSUME PInv, NEW t \in Threads, T!Result(t), UNCHANGED <<filefd, alone, inotifyVars>>
    PROVE  PInv'
<1>1. /\ nj = "alive" /\ pc[t] = "strcpy"
      /\ argsrecv' = [argsrecv EXCEPT ![t] = [call |-> calls[t], text |-> retstring]]
      /\ pc' = [pc EXCEPT ![t] = "clear"]
      /\ UNCHANGED <<ask, filefd, alone, nj, calls, fds, got, end, number, retstring, count,
                     exists, instance, watching, queue, buffer, i, retStr>>
  BY DEF T!Result, T!At, T!Goto, T!tcpdumpVars, inotifyVars
<1>2. /\ OfTcpdump(t) /\ Busy(t) /\ ~instance[t] /\ Typed /\ Shared /\ Called(t)
      /\ (alone[t] => Progress(t)) /\ Len(retstring) <= RETSIZE /\ calls[t] \in Nat
  BY <1>1, Captures
<1>3. [call |-> calls[t], text |-> retstring] \in [call : Nat, text : Seq(Nat) \cup Seq(Pieces)]
  BY <1>2 DEF Typed, ServerTyped, TcpdumpTyped
<1>4. pc'[t] = "clear" /\ argsrecv'[t] = [call |-> calls[t], text |-> retstring]
  BY <1>1, <1>2 DEF Typed, ServerTyped, TcpdumpTyped
<1>5. Typed' /\ \A u \in Threads \ {t} : Keeps(u)
  <2>1. Typed'
    <3>1. ServerTyped'
      BY <1>1, <1>2, <1>3 DEF Typed, ServerTyped, Places, Filling
    <3>2. InotifyTyped'
      BY <1>1, <1>2, <1>3 DEF Typed, InotifyTyped
    <3>3. TcpdumpTyped'
      BY <1>1, <1>2, <1>3 DEF Typed, TcpdumpTyped
    <3> QED
      BY <3>1, <3>2, <3>3 DEF Typed
  <2>2. \A u \in Threads \ {t} : Keeps(u)
    BY <1>1, <1>2, <1>3 DEF Typed, ServerTyped, TcpdumpTyped, Keeps
  <2> QED
    BY <2>1, <2>2
<1>6. Shared'
  <2>1. \A u \in Threads \ {t} : pc'[u] = pc[u]
    BY <1>5 DEF Keeps
  <2> QED
    BY <1>1, <1>2, <1>4, <2>1, SharedAfter DEF Filling
<1>7. Placed(t)' /\ Called(t)'
  BY <1>1, <1>2, <1>4 DEF Placed, Called, Filling, OfTcpdump
<1>8. ASSUME alone[t] PROVE Progress(t)'
  <2>1. retstring = Wording(t, calls[t], 2 * ask[t].num_packets)
    BY <1>1, <1>2, <1>8 DEF Progress
  <2>2. argsrecv'[t].text = Wording(t, calls'[t], 2 * ask'[t].num_packets)
    BY <1>1, <1>4, <2>1
  <2> QED
    BY <1>4, <2>2 DEF Progress, Wording
<1>9. ~Holds(t)'
  BY <1>1, <1>2, <1>4 DEF Holds, Filling
<1> QED
  BY <1>1, <1>2, <1>5, <1>6, <1>7, <1>8, <1>9, TcpdumpAfter

LEMMA ClearStep ==
    ASSUME PInv, NEW t \in Threads, T!Clear(t), UNCHANGED <<filefd, alone, inotifyVars>>
    PROVE  PInv'
<1>1. /\ nj = "alive" /\ pc[t] = "clear"
      /\ retstring' = <<>>
      /\ pc' = [pc EXCEPT ![t] = "return"]
      /\ UNCHANGED <<ask, filefd, alone, nj, calls, argsrecv, fds, got, end, number, count,
                     exists, instance, watching, queue, buffer, i, retStr>>
  BY DEF T!Clear, T!At, T!Goto, inotifyVars
<1>2. /\ OfTcpdump(t) /\ Busy(t) /\ ~instance[t] /\ Typed /\ Shared /\ Called(t)
      /\ (alone[t] => Progress(t))
  BY <1>1, Captures
<1>3. pc'[t] = "return" /\ Len(retstring') <= RETSIZE
  BY <1>1, <1>2, ProvidersAssumption DEF Typed, ServerTyped, TcpdumpTyped
<1>4. Typed' /\ \A u \in Threads \ {t} : Keeps(u)
  <2>1. Typed'
    <3>1. ServerTyped'
      BY <1>1, <1>2 DEF Typed, ServerTyped, Places, Filling
    <3>2. InotifyTyped'
      BY <1>1, <1>2 DEF Typed, InotifyTyped
    <3>3. TcpdumpTyped'
      BY <1>1, <1>2 DEF Typed, TcpdumpTyped
    <3> QED
      BY <3>1, <3>2, <3>3 DEF Typed
  <2>2. \A u \in Threads \ {t} : Keeps(u)
    BY <1>1, <1>2 DEF Typed, ServerTyped, TcpdumpTyped, Keeps
  <2> QED
    BY <2>1, <2>2
<1>5. Shared'
  <2>1. ASSUME NEW u \in Threads, OfTcpdump(u), pc[u] \in Filling
        PROVE  OfTcpdump(u)' /\ pc'[u] \in Filling
    BY <1>1, <1>2, <2>1 DEF Typed, ServerTyped, TcpdumpTyped, Filling, OfTcpdump
  <2> QED
    BY <1>1, <1>2, <1>3, <2>1 DEF Shared
<1>6. Placed(t)' /\ Called(t)'
  BY <1>1, <1>2, <1>3 DEF Placed, Called, Filling, OfTcpdump
<1>7. alone[t] => Progress(t)'
  BY <1>1, <1>2, <1>3 DEF Progress, Wording
<1>8. ~Holds(t)'
  BY <1>1, <1>2, <1>3 DEF Holds, Filling
<1> QED
  BY <1>1, <1>2, <1>4, <1>5, <1>6, <1>7, <1>8, TcpdumpAfter

LEMMA ReturnTcpdumpStep ==
    ASSUME PInv, NEW t \in Threads, OfTcpdump(t), Write(t)
    PROVE  PInv'
<1>1. UNCHANGED <<buffer, i, retStr>>
  BY DEF Write, OfInotify, OfTcpdump, inotifyVars
<1>2. Typed /\ Shared /\ Placed(t) /\ Called(t) /\ Watches(t) /\ Scanned(t)
  BY DEF PInv, Mine
<1>3. /\ nj = "alive" /\ pc[t] = "return" /\ pc' = [pc EXCEPT ![t] = "idle"]
      /\ pc'[t] = "idle" /\ \A u \in Threads \ {t} : pc'[u] = pc[u]
      /\ UNCHANGED <<ask, alone, nj, calls, argsrecv, exists, instance, watching, queue,
                     got, end, number, retstring, count>>
      /\ filefd' \in [Threads -> BOOLEAN] /\ fds' \in 0..FDLIMIT
      /\ ~filefd'[t] /\ \A u \in Threads \ {t} : filefd'[u] = filefd[u]
      /\ Counted'
  BY WriteCloses
<1>4. OfTcpdump(t)' /\ ~OfInotify(t)'
  BY <1>3 DEF OfTcpdump, OfInotify
<1>5. \A u \in Threads \ {t} : Keeps(u)
  BY <1>1, <1>3 DEF Keeps
<1>6. Typed'
  <2>1. ServerTyped'
    BY <1>2, <1>3 DEF Typed, ServerTyped, Places
  <2>2. InotifyTyped'
    BY <1>1, <1>2, <1>3 DEF Typed, InotifyTyped
  <2>3. TcpdumpTyped'
    BY <1>2, <1>3 DEF Typed, TcpdumpTyped
  <2> QED
    BY <2>1, <2>2, <2>3 DEF Typed
<1>7. Shared'
  <2>1. Len(retstring') <= RETSIZE \/ nj' = "corrupt"
    BY <1>2, <1>3 DEF Shared
  <2> QED
    BY <1>2, <1>3, <2>1, SharedAfter DEF Filling
<1>8. Placed(t)' /\ Called(t)' /\ Watches(t)' /\ Scanned(t)'
  BY <1>1, <1>2, <1>3, <1>4 DEF Placed, Called, Watches, Scanned
<1>9. Overlaps(t) /\ Exact(t)'
  BY <1>3 DEF Busy, Overlaps, Exact, Progress
<1>10. Mine(t)'
  BY <1>8, <1>9 DEF Mine
<1> QED
  BY <1>3, <1>5, <1>6, <1>7, <1>9, <1>10, PInvAfter

-----------------------------------------------------------------------------
(* A call begins. *)

LEMMA CallStep == ASSUME PInv, NEW t \in Threads, Call(t) PROVE PInv'
<1>1. /\ nj = "alive" /\ pc[t] = "idle" /\ calls[t] < ask[t].count
      /\ calls' = [calls EXCEPT ![t] = calls[t] + 1]
      /\ filefd' = [filefd EXCEPT ![t] = fds < FDLIMIT]
      /\ fds' = IF fds < FDLIMIT THEN fds + 1 ELSE fds
      /\ UNCHANGED <<ask, nj, argsrecv, got, end, number, retstring, count,
                     exists, instance, watching, queue, buffer, i, retStr>>
  BY DEF Call, I!At, inotifyVars, tcpdumpVars
<1>2. /\ Typed /\ Shared /\ Placed(t) /\ Called(t) /\ Watches(t) /\ Scanned(t)
      /\ calls[t] \in Nat /\ argsrecv[t].call \in Nat /\ ask[t].count \in Nat
  BY ProvidersAssumption DEF PInv, Mine, Typed, ServerTyped, TcpdumpTyped, Asks
<1>3. calls'[t] = calls[t] + 1
  BY <1>1, <1>2 DEF Typed, ServerTyped, TcpdumpTyped
<1>8. /\ filefd' \in [Threads -> BOOLEAN] /\ fds' \in 0..FDLIMIT
      /\ \A u \in Threads \ {t} : filefd'[u] = filefd[u]
      /\ fds' = fds + 1 \/ (fds' = fds /\ ~filefd'[t])
  <2>1. filefd \in [Threads -> BOOLEAN] /\ fds \in 0..FDLIMIT /\ FDLIMIT \in Nat
    BY <1>2, ProvidersAssumption DEF Typed, ServerTyped
  <2>2. CASE fds < FDLIMIT
    <3>1. (fds < FDLIMIT) = TRUE
      BY <2>2
    <3>2. filefd' = [filefd EXCEPT ![t] = TRUE]
      BY <1>1, <3>1, Zenon
    <3> QED
      BY <1>1, <2>1, <2>2, <3>2
  <2>3. CASE ~(fds < FDLIMIT)
    <3>1. (fds < FDLIMIT) = FALSE
      BY <2>3
    <3>2. filefd' = [filefd EXCEPT ![t] = FALSE]
      BY <1>1, <3>1, Zenon
    <3> QED
      BY <1>1, <2>1, <2>3, <3>2
  <2> QED
    BY <2>2, <2>3
<1>9. ASSUME \A u \in Threads : Holds(u)' = Holds(u) PROVE Counted'
  <2>1. PICK f : f = fds'
    OBVIOUS
  <2>2. f \in Nat /\ fds \in Nat
    BY <1>2, <1>8, <2>1, ProvidersAssumption DEF Typed, ServerTyped
  <2>3. f = fds + 1 \/ (f = fds /\ (filefd'[t] => filefd[t]))
    BY <1>8, <2>1
  <2> QED
    BY <1>8, <1>9, <2>1, <2>2, <2>3, FilesAfter DEF PInv
<1>4. CASE OfInotify(t) /\ pc' = [pc EXCEPT ![t] = "inotify_init"] /\ UNCHANGED alone
  <2>1. pc'[t] = "inotify_init" /\ OfInotify(t)'
    BY <1>1, <1>2, <1>4 DEF Typed, ServerTyped, TcpdumpTyped, OfInotify
  <2>2. Typed' /\ \A u \in Threads \ {t} : Keeps(u)
    <3>1. Typed'
      <4>1. ServerTyped'
        BY <1>1, <1>2, <1>4, <1>8 DEF Typed, ServerTyped, Places, Filling
      <4>2. InotifyTyped'
        BY <1>1, <1>2, <1>4 DEF Typed, InotifyTyped
      <4>3. TcpdumpTyped'
        BY <1>1, <1>2, <1>4 DEF Typed, TcpdumpTyped
      <4> QED
        BY <4>1, <4>2, <4>3 DEF Typed
    <3>2. \A u \in Threads \ {t} : Keeps(u)
      BY <1>1, <1>2, <1>4, <1>8 DEF Typed, ServerTyped, TcpdumpTyped, Keeps
    <3> QED
      BY <3>1, <3>2
  <2>3. Placed(t)' /\ Called(t)' /\ Watches(t)' /\ Scanned(t)'
    BY <1>1, <1>2, <1>3, <1>4, <2>1 DEF Placed, Called, Watches, Scanned
  <2>4. \A u \in Threads : Holds(u)' = Holds(u)
    BY <1>1, <1>4, <2>1, <2>2 DEF Holds, OfInotify, OfTcpdump, Keeps
  <2>5. Counted'
    BY <1>9, <2>4
  <2> QED
    BY <1>1, <1>4, <2>2, <2>3, <2>5, InotifyKeeps
<1>5. CASE /\ OfTcpdump(t) /\ pc' = [pc EXCEPT ![t] = "pcap_open_live"]
           /\ alone' = [u \in Threads |-> IF u = t THEN Capturing = {}
                                          ELSE alone[u] /\ u \notin Capturing]
  <2>1. pc'[t] = "pcap_open_live" /\ OfTcpdump(t)' /\ ~OfInotify(t)'
    BY <1>1, <1>2, <1>5 DEF Typed, ServerTyped, TcpdumpTyped, OfTcpdump, OfInotify
  <2>2. /\ alone' \in [Threads -> BOOLEAN]
        /\ alone'[t] => \A u \in Threads : ~Busy(u)
        /\ \A u \in Threads \ {t} : alone'[u] => alone[u] /\ ~Busy(u)
    <3>1. \A u \in Threads : u \in Capturing <=> Busy(u)
      BY DEF Capturing, Busy
    <3>2. \A u \in Threads : alone[u] \in BOOLEAN
      BY <1>2 DEF Typed, ServerTyped, TcpdumpTyped
    <3> QED
      BY <1>5, <3>1, <3>2
  <2>3. Typed' /\ \A u \in Threads \ {t} : Keeps(u)
    <3>1. Typed'
      <4>1. ServerTyped'
        BY <1>1, <1>2, <1>5, <1>8, <2>2 DEF Typed, ServerTyped, Places, Filling
      <4>2. InotifyTyped'
        BY <1>1, <1>2, <1>5, <2>2 DEF Typed, InotifyTyped
      <4>3. TcpdumpTyped'
        BY <1>1, <1>2, <1>5, <2>2 DEF Typed, TcpdumpTyped
      <4> QED
        BY <4>1, <4>2, <4>3 DEF Typed
    <3>2. \A u \in Threads \ {t} : Keeps(u)
      BY <1>1, <1>2, <1>5, <1>8, <2>2 DEF Typed, ServerTyped, TcpdumpTyped, Keeps
    <3> QED
      BY <3>1, <3>2
  <2>4. Shared'
    <3>1. \A u \in Threads \ {t} : pc'[u] = pc[u]
      BY <2>3 DEF Keeps
    <3>2. Len(retstring') <= RETSIZE \/ nj' = "corrupt"
      BY <1>1, <1>2 DEF Shared
    <3> QED
      BY <1>1, <1>2, <3>1, <3>2, SharedAfter DEF Filling
  <2>5. Placed(t)' /\ Called(t)' /\ Watches(t)' /\ Scanned(t)'
    BY <1>1, <1>2, <1>3, <2>1 DEF Placed, Called, Watches, Scanned
  <2>6. Overlaps(t)
    BY <1>1, <2>2 DEF Overlaps
  <2>7. Exact(t)'
    <3>1. ASSUME alone'[t] PROVE \A u \in Threads \ {t} : ~Busy(u)'
      BY <1>1, <2>2, <2>3, <3>1 DEF Keeps, Busy, OfTcpdump
    <3> QED
      BY <2>1, <3>1 DEF Exact, Progress
  <2>8. Mine(t)'
    BY <2>5, <2>7 DEF Mine
  <2>9. \A u \in Threads : Holds(u)' = Holds(u)
    BY <1>1, <2>1, <2>3 DEF Holds, OfTcpdump, Filling, Keeps
  <2>10. Counted'
    BY <1>9, <2>9
  <2> QED
    BY <1>1, <2>3, <2>4, <2>6, <2>8, <2>10, PInvAfter
<1> QED
  BY <1>4, <1>5 DEF Call, I!Goto

-----------------------------------------------------------------------------
(* The theorems. *)

LEMMA PInvNext == ASSUME PInv, [Next]_vars PROVE PInv'
<1>1. CASE Directory
  BY <1>1, DirectoryStep
<1>2. ASSUME NEW t \in Threads, Call(t) PROVE PInv'
  BY <1>2, CallStep
<1>3. ASSUME NEW t \in Threads, Packet(t) PROVE PInv'
  BY <1>3, GotPacketStep
<1>4. ASSUME NEW t \in Threads, Thread(t) PROVE PInv'
  <2>1. CASE I!GetnotifyInotify(t) /\ UNCHANGED <<filefd, alone, tcpdumpVars>>
    BY <2>1, NewInstanceStep, OpenPathStep, AddWatchStep, ReadStep, ScanStep, FinishStep
       DEF I!GetnotifyInotify
  <2>2. CASE T!GetnotifyTcpdump(t) /\ UNCHANGED <<filefd, alone, inotifyVars>>
    BY <2>2, OpenLiveStep, AppendNumberStep, HeaderStep, AppendPacketStep, CloseStep, ResultStep,
       ClearStep DEF T!GetnotifyTcpdump
  <2>3. CASE Write(t)
    BY <2>3, ReturnInotifyStep, ReturnTcpdumpStep DEF Write
  <2> QED
    BY <1>4, <2>1, <2>2, <2>3 DEF Thread
<1>5. CASE UNCHANGED vars
  <2>1. /\ UNCHANGED <<queue, watching, exists>>
        /\ UNCHANGED <<ask, filefd, alone, pc, nj, calls, argsrecv, fds, instance, buffer, i, retStr,
                       got, end, number, retstring, count>>
    BY <1>5 DEF vars, inotifyVars, tcpdumpVars
  <2>2. /\ queue' \in [Threads -> Seq(I!Events \cup {I!Removed})]
        /\ watching' \in [Threads -> BOOLEAN] /\ exists' \in BOOLEAN
    BY <2>1 DEF PInv, Typed, InotifyTyped
  <2> QED
    BY <2>1, <2>2, DirectoryAfter
<1> QED
  BY <1>1, <1>2, <1>3, <1>4, <1>5 DEF Next

\* The inductive invariant: who holds a descriptor, how far each call has come, and what
\* is in the variables the calls of tcpdump share.
THEOREM ProvidersInvariant == Spec => []PInv
<1>1. Init => PInv
  BY PInvInit
<1>2. PInv /\ [Next]_vars => PInv'
  BY PInvNext
<1> QED
  BY <1>1, <1>2, PTL DEF Spec

\* Type correctness; with it, nobody closes a descriptor he has not opened, and the
\* shared buffer of tcpdump overflows in no step that leaves the server alive.
THEOREM ProvidersTypeOK == Spec => []TypeOK
<1>1. ASSUME PInv PROVE TypeOK
  <2>1. ASSUME NEW t \in Threads
        PROVE  /\ calls[t] \in 0..ask[t].count
               /\ argsrecv[t].call \in 0..calls[t]
               /\ filefd[t] \in BOOLEAN
               /\ watching[t] => instance[t]
               /\ queue[t] \in Seq(I!Events \cup {I!Removed})
               /\ i[t] \in 1..Len(buffer[t]) + 1
               /\ retStr[t] < i[t]
    <3>1. /\ Typed /\ Called(t) /\ Watches(t) /\ Scanned(t)
          /\ calls[t] \in Nat /\ argsrecv[t].call \in Nat /\ ask[t].count \in Nat
          /\ i[t] \in Nat /\ retStr[t] \in Nat /\ Len(buffer[t]) \in Nat
      BY <1>1, ProvidersAssumption, LenProperties
         DEF PInv, Mine, Typed, ServerTyped, InotifyTyped, Asks
    <3> QED
      BY <3>1 DEF Typed, ServerTyped, InotifyTyped, Called, Watches, Scanned
  <2>2. Typed /\ Shared
    BY <1>1 DEF PInv
  <2> QED
    BY <2>1, <2>2 DEF TypeOK, Typed, ServerTyped, TcpdumpTyped, Shared
<1> QED
  BY <1>1, ProvidersInvariant, PTL

\* When no capture is under way the shared buffer of tcpdump is empty and its counter at
\* 1, in whatever way captures have overlapped before (the end of getnotify in tcpdump.c).
THEOREM ProvidersCleanWhenIdle == Spec => []CleanWhenIdle
<1>1. PInv => CleanWhenIdle
  BY DEF PInv, Shared, CleanWhenIdle, Capturing, Filling
<1> QED
  BY <1>1, ProvidersInvariant, PTL

\* inotify returns the last event of its batch that has a wording, and nothing of its own
\* when none has (the loop of getnotify in inotify.c).
THEOREM ProvidersLastReported == Spec => []LastReported
<1>1. ASSUME PInv, NEW t \in Threads, pc[t] = "return", OfInotify(t), argsrecv[t].call = calls[t]
      PROVE  Worded(t) # {} /\ argsrecv[t].text = <<Max(Worded(t))>>
  <2>1. /\ Scanned(t) /\ retStr[t] \in Nat /\ Len(buffer[t]) \in Nat
        /\ DOMAIN buffer[t] = 1..Len(buffer[t])
    BY <1>1, LenProperties DEF PInv, Mine, Typed, InotifyTyped
  <2>2. /\ argsrecv[t].text = <<retStr[t]>> /\ retStr[t] <= Len(buffer[t])
        /\ retStr[t] \in Worded(t)
        /\ \A k \in Worded(t) : k <= retStr[t] /\ k \in Nat
    BY <1>1, <2>1 DEF Scanned, Worded
  <2> DEFINE W == Worded(t)
             r == retStr[t]
  <2>3. r \in W /\ \A k \in W : r >= k /\ k \in Nat
    BY <2>1, <2>2
  <2>4. r \in Nat
    BY <2>1
  <2> HIDE DEF W, r
  <2>5. Max(W) \in W /\ \A k \in W : Max(W) >= k
    BY <2>3 DEF Max
  <2>6. PICK m : m = Max(W)
    OBVIOUS
  <2>7. m \in Nat /\ m >= r /\ r >= m
    BY <2>3, <2>5, <2>6
  <2>8. Max(W) = r
    BY <2>4, <2>6, <2>7
  <2> QED
    BY <2>2, <2>8 DEF W, r
<1>2. PInv => LastReported
  BY <1>1 DEF LastReported
<1> QED
  BY <1>2, ProvidersInvariant, PTL

\* A call of tcpdump that no other has overlapped with returns its own packets, all of
\* them and numbered from 1, whatever has overlapped before (got_packet, getnotify).
THEOREM ProvidersExactUnlessOverlap == Spec => []ExactUnlessOverlap
<1>1. ASSUME PInv, NEW t \in Threads,
             OfTcpdump(t), alone[t], pc[t] = "return", argsrecv[t].call = calls[t]
      PROVE  argsrecv[t].text = Wording(t, calls[t], 2 * ask[t].num_packets)
  BY <1>1 DEF PInv, Mine, Exact, Progress
<1>2. PInv => ExactUnlessOverlap
  BY <1>1 DEF ExactUnlessOverlap, Wording, T!NumberOf, T!Packet
<1> QED
  BY <1>2, ProvidersInvariant, PTL

-----------------------------------------------------------------------------
(* As long as there are descriptors left for every thread, every call is     *)
(* served.                                                                   *)

Opening == {"inotify_init", "open", "pcap_open_live"}

\* The descriptors that t may have open: its file, the one that its call gives back, and one
\* for each call that leaks, unless the call has yet to open it.
Slots(t) == {k \in -1..calls[t] :
               \/ k = -1 /\ filefd[t]
               \/ k = 0 /\ Holds(t)
               \/ k > 0 /\ Leaks(t) /\ (k < calls[t] \/ pc[t] \notin Opening)}

Held == UNION {{t} \X Slots(t) : t \in Threads}

Spent == IsFiniteSet(Leaking) /\ IsFiniteSet(Held) /\ fds <= Cardinality(Held)

\* The file is open during a call.  Inotify has its instance until it has read, and whoever
\* returns has read, or has a new notification.
Fresh(t) ==
    /\ pc[t] # "idle" => filefd[t]
    /\ pc[t] \in {"open", "inotify_add_watch", "read"} => instance[t]
    /\ pc[t] = "clear" => argsrecv[t].call = calls[t]
    /\ pc[t] = "return" /\ OfInotify(t) => buffer[t] # <<>>
    /\ pc[t] = "return" /\ OfTcpdump(t) /\ ask[t].device = "eth" => argsrecv[t].call = calls[t]

AllServed == (nj = "exited" => ~exists) /\ \A t \in Threads : Fresh(t)

SInv == PInv /\ Spent /\ (Room => AllServed)

LEMMA LeakingIs ==
    \A d : d \in Leaking <=> \E t \in Threads : Leaks(t) /\ \E k \in 1..calls[t] : d = <<t, k>>
BY DEF Leaking

LEMMA HeldIs ==
    \A d : d \in Held <=> \E t \in Threads : \E k \in Slots(t) : d = <<t, k>>
BY DEF Held

\* A descriptor that t has still to open is one that is left.
LEMMA OneLeft ==
    ASSUME SInv, Room, NEW t \in Threads, NEW k \in -1..calls[t], k \notin Slots(t),
           k <= 0 \/ Leaks(t)
    PROVE  fds < FDLIMIT
<1> DEFINE Own == Threads \X {-1, 0}
           All == Leaking \cup Own
<1>1. /\ IsFiniteSet(Leaking) /\ IsFiniteSet(Held) /\ IsFiniteSet(Threads) /\ FDLIMIT \in Nat
      /\ fds \in Nat /\ fds <= Cardinality(Held) /\ \A u \in Threads : calls[u] \in Nat
  BY ProvidersAssumption DEF SInv, Spent, PInv, Typed, ServerTyped
<1>2. IsFiniteSet(Own) /\ Cardinality(Own) = 2 * Cardinality(Threads)
  <2>1. IsFiniteSet({-1, 0}) /\ Cardinality({-1, 0}) = 2
    <3>1. IsFiniteSet({0}) /\ Cardinality({0}) = 1
      BY FS_Singleton
    <3>2. -1 \notin {0} /\ {0} \cup {-1} = {-1, 0}
      OBVIOUS
    <3>3. IsFiniteSet({0} \cup {-1}) /\ Cardinality({0} \cup {-1}) = Cardinality({0}) + 1
      BY <3>1, <3>2, FS_AddElement
    <3> QED
      BY <3>1, <3>2, <3>3
  <2>2. IsFiniteSet(Own) /\ Cardinality(Own) = Cardinality(Threads) * Cardinality({-1, 0})
    BY <1>1, <2>1, FS_Product
  <2>3. Cardinality(Threads) \in Nat
    BY <1>1, FS_CardinalityType
  <2> HIDE DEF Own
  <2> QED
    BY <2>1, <2>2, <2>3
<1>3. Leaking \cap Own = {}
  <2> SUFFICES ASSUME NEW d \in Leaking, d \in Own PROVE FALSE
    OBVIOUS
  <2>1. PICK u \in Threads : \E n \in 1..calls[u] : d = <<u, n>>
    BY LeakingIs
  <2>2. PICK n \in 1..calls[u] : d = <<u, n>>
    BY <2>1
  <2>3. n \notin {-1, 0}
    BY <1>1, <2>2
  <2> QED
    BY <2>2, <2>3
<1>4. IsFiniteSet(All) /\ Cardinality(All) = Cardinality(Leaking) + 2 * Cardinality(Threads)
  <2>1. IsFiniteSet(All)
        /\ Cardinality(All) = Cardinality(Leaking) + Cardinality(Own) - Cardinality(Leaking \cap Own)
    <3> HIDE DEF Own
    <3> QED
      BY <1>1, <1>2, FS_Union
  <2>2. Cardinality(Leaking \cap Own) = 0
    BY <1>3, FS_EmptySet
  <2>3. Cardinality(Leaking) \in Nat /\ Cardinality(Threads) \in Nat
    BY <1>1, FS_CardinalityType
  <2> HIDE DEF Own, All
  <2> QED
    BY <1>2, <2>1, <2>2, <2>3
<1>5. <<t, k>> \in All /\ <<t, k>> \notin Held
  <2>1. <<t, k>> \in All
    <3>1. CASE k \in {-1, 0}
      BY <3>1
    <3>2. CASE k \notin {-1, 0}
      <4>1. k \in 1..calls[t]
        BY <1>1, <3>2
      <4>2. Leaks(t)
        BY <1>1, <3>2
      <4> QED
        BY <4>1, <4>2, LeakingIs
    <3> QED
      BY <3>1, <3>2
  <2>2. <<t, k>> \notin Held
    BY HeldIs
  <2> QED
    BY <2>1, <2>2
<1>6. Held \subseteq All \ {<<t, k>>}
  <2>1. ASSUME NEW d \in Held PROVE d \in All
    <3>1. PICK u \in Threads : \E n \in Slots(u) : d = <<u, n>>
      BY HeldIs
    <3>2. PICK n \in Slots(u) : d = <<u, n>>
      BY <3>1
    <3>3. n \in -1..calls[u] /\ (n > 0 => Leaks(u))
      BY <3>2 DEF Slots
    <3>4. CASE n \in {-1, 0}
      BY <3>2, <3>4
    <3>5. CASE n \notin {-1, 0}
      <4>1. n \in 1..calls[u]
        BY <1>1, <3>3, <3>5
      <4>2. Leaks(u)
        BY <1>1, <3>3, <3>5
      <4> QED
        BY <3>2, <4>1, <4>2, LeakingIs
    <3> QED
      BY <3>4, <3>5
  <2> QED
    BY <1>5, <2>1
<1> HIDE DEF All
<1>7. /\ IsFiniteSet(All \ {<<t, k>>})
      /\ Cardinality(All \ {<<t, k>>}) = Cardinality(All) - 1
  BY <1>4, <1>5, FS_RemoveElement
<1>8. Cardinality(Held) <= Cardinality(All \ {<<t, k>>})
  BY <1>6, <1>7, FS_Subset
<1>9. Cardinality(Held) \in Nat /\ Cardinality(All) \in Nat
  BY <1>1, <1>4, FS_CardinalityType
<1> QED
  BY <1>1, <1>4, <1>7, <1>8, <1>9 DEF Room

\* What t may have open grows by one, or shrinks by one, when the descriptors in use do.
LEMMA HeldAfter ==
    ASSUME Spent, fds \in Nat, NEW t \in Threads,
           \A u \in Threads \ {t} : Slots(u)' = Slots(u), NEW k, NEW f \in Nat, f = fds',
           \/ Slots(t)' = Slots(t) /\ f = fds
           \/ Slots(t)' = Slots(t) \cup {k} /\ (f = fds \/ (f = fds + 1 /\ k \notin Slots(t)))
           \/ Slots(t)' = Slots(t) \ {k} /\ f = fds - 1
    PROVE  IsFiniteSet(Held') /\ fds' <= Cardinality(Held')
<1>2. \A d : d \in Held' <=> \E u \in Threads : \E n \in Slots(u)' : d = <<u, n>>
  BY DEF Held
<1>3. IsFiniteSet(Held) /\ fds <= Cardinality(Held) /\ Cardinality(Held) \in Nat
  BY FS_CardinalityType DEF Spent
<1>4. <<t, k>> \in Held <=> k \in Slots(t)
  BY HeldIs
<1>5. CASE Slots(t)' = Slots(t) /\ f = fds
  <2>1. Held' = Held
    <3>1. \A u \in Threads : Slots(u)' = Slots(u)
      BY <1>5
    <3> QED
      BY <1>2, <3>1, HeldIs
  <2> QED
    BY <1>3, <1>5, <2>1
<1>6. CASE Slots(t)' = Slots(t) \cup {k} /\ (f = fds \/ (f = fds + 1 /\ k \notin Slots(t)))
  <2> DEFINE H == Held \cup {<<t, k>>}
  <2>1. Held' = H
    <3>1. ASSUME NEW d PROVE d \in Held' <=> d \in H
      BY <1>2, <1>6, HeldIs
    <3> QED
      BY <3>1
  <2>2. IsFiniteSet(H) /\ (k \in Slots(t) => Cardinality(H) = Cardinality(Held))
        /\ (k \notin Slots(t) => Cardinality(H) = Cardinality(Held) + 1)
    BY <1>3, <1>4, FS_AddElement
  <2> HIDE DEF H
  <2>3. f <= Cardinality(H)
    BY <1>3, <1>6, <2>2
  <2> QED
    BY <2>1, <2>2, <2>3
<1>7. CASE Slots(t)' = Slots(t) \ {k} /\ f = fds - 1
  <2> DEFINE H == Held \ {<<t, k>>}
  <2>1. Held' = H
    <3>1. ASSUME NEW d PROVE d \in Held' <=> d \in H
      BY <1>2, <1>7, HeldIs
    <3> QED
      BY <3>1
  <2>2. IsFiniteSet(H) /\ Cardinality(H) >= Cardinality(Held) - 1 /\ Cardinality(H) \in Nat
    <3>1. IsFiniteSet(H) /\ (Cardinality(H) = Cardinality(Held) - 1 \/ Cardinality(H) = Cardinality(Held))
      BY <1>3, FS_RemoveElement
    <3> QED
      BY <1>3, <3>1, FS_CardinalityType
  <2> HIDE DEF H
  <2>3. f <= Cardinality(H)
    BY <1>3, <1>7, <2>2
  <2> QED
    BY <2>1, <2>2, <2>3
<1> QED
  BY <1>5, <1>6, <1>7

\* The rest of the invariant, after a step of u.
LEMMA SInvAfter ==
    ASSUME SInv, PInv', NEW u \in Threads, UNCHANGED <<ask, calls>>,
           \A t \in Threads \ {u} :
              /\ pc'[t] = pc[t] /\ instance'[t] = instance[t] /\ argsrecv'[t] = argsrecv[t]
              /\ filefd'[t] = filefd[t] /\ buffer'[t] = buffer[t],
           NEW k,
           \/ Slots(u)' = Slots(u) /\ fds' = fds
           \/ Slots(u)' = Slots(u) \cup {k} /\ (fds' = fds \/ (fds' = fds + 1 /\ k \notin Slots(u)))
           \/ Slots(u)' = Slots(u) \ {k} /\ fds' = fds - 1,
           Room => (nj' = "exited" => ~exists') /\ Fresh(u)'
    PROVE  SInv'
<1>1. \A t \in Threads \ {u} : Slots(t)' = Slots(t)
  BY DEF Slots, Holds, Leaks, OfInotify, OfTcpdump
<1>2. PICK f : f = fds'
  OBVIOUS
<1>3. f \in Nat /\ fds \in Nat
  BY <1>2, ProvidersAssumption DEF SInv, PInv, Typed, ServerTyped
<1>4. Spent'
  <2>1. IsFiniteSet(Held') /\ fds' <= Cardinality(Held')
    BY <1>1, <1>2, <1>3, HeldAfter DEF SInv
  <2>2. Leaking' = Leaking
    BY DEF Leaking, Leaks, OfInotify
  <2> QED
    BY <2>1, <2>2 DEF SInv, Spent
<1>5. Room' = Room
  BY DEF Room, Leaking, Leaks, OfInotify
<1>6. ASSUME Room, NEW t \in Threads \ {u} PROVE Fresh(t)'
  BY <1>6 DEF SInv, AllServed, Fresh, OfInotify, OfTcpdump
<1>7. Room' => AllServed'
  BY <1>5, <1>6 DEF AllServed
<1> QED
  BY <1>4, <1>7 DEF SInv

\* A step that opens and closes nothing, in a call that is past its opening.
LEMMA QuietAfter ==
    ASSUME SInv, PInv', NEW u \in Threads, NEW place, pc' = [pc EXCEPT ![u] = place],
           UNCHANGED <<ask, filefd, calls, fds, exists, instance>>, nj' = nj \/ nj' = "corrupt",
           \A t \in Threads \ {u} : argsrecv'[t] = argsrecv[t] /\ buffer'[t] = buffer[t],
           pc[u] \notin Opening, place \notin Opening,
           OfTcpdump(u) => (pc[u] \in Filling <=> place \in Filling),
           Room => Fresh(u)'
    PROVE  SInv'
<1>1. pc'[u] = place /\ \A t \in Threads \ {u} : pc'[t] = pc[t]
  BY DEF SInv, PInv, Typed, ServerTyped
<1>2. Holds(u)' = Holds(u)
  BY <1>1 DEF Holds, OfTcpdump
<1>3. Slots(u)' = Slots(u)
  BY <1>1, <1>2 DEF Slots, Leaks, OfInotify
<1>4. Room => (nj' = "exited" => ~exists')
  BY DEF SInv, AllServed
<1> QED
  BY <1>1, <1>3, <1>4, SInvAfter

\* What is known of a call.
LEMMA CallFacts ==
    ASSUME SInv, NEW t \in Threads
    PROVE  /\ PInv /\ Placed(t) /\ Called(t) /\ Watches(t) /\ Scanned(t) /\ calls[t] \in Nat
           /\ argsrecv[t].call \in Nat /\ fds \in Nat /\ instance[t] \in BOOLEAN
           /\ pc \in [Threads -> Places] /\ instance \in [Threads -> BOOLEAN]
           /\ filefd \in [Threads -> BOOLEAN] /\ calls \in [Threads -> Nat]
           /\ argsrecv \in [Threads -> [call : Nat, text : Seq(Nat) \cup Seq(Pieces)]]
           /\ buffer \in [Threads -> Seq(I!Events \cup {I!Removed})]
           /\ -1 \in -1..calls[t] /\ 0 \in -1..calls[t] /\ calls[t] \in -1..calls[t]
           /\ pc[t] \in Opening => calls[t] > 0
           /\ Room => Fresh(t) /\ (nj = "exited" => ~exists)
<1>1. PInv /\ Typed
  BY DEF SInv, PInv
<1>2. Placed(t) /\ Called(t) /\ Watches(t) /\ Scanned(t)
  BY <1>1 DEF PInv, Mine
<1>3. /\ pc \in [Threads -> Places] /\ instance \in [Threads -> BOOLEAN]
      /\ filefd \in [Threads -> BOOLEAN] /\ calls \in [Threads -> Nat] /\ fds \in 0..FDLIMIT
      /\ argsrecv \in [Threads -> [call : Nat, text : Seq(Nat) \cup Seq(Pieces)]]
      /\ buffer \in [Threads -> Seq(I!Events \cup {I!Removed})]
  BY <1>1 DEF Typed, ServerTyped, InotifyTyped
<1>4. calls[t] \in Nat /\ argsrecv[t].call \in Nat /\ instance[t] \in BOOLEAN /\ fds \in Nat
  BY <1>3, ProvidersAssumption
<1>5. pc[t] \in Opening => argsrecv[t].call < calls[t]
  BY <1>2 DEF Called, Opening
<1>6. /\ pc[t] \in Opening => calls[t] > 0
      /\ -1 \in -1..calls[t] /\ 0 \in -1..calls[t] /\ calls[t] \in -1..calls[t]
  BY <1>4, <1>5
<1>7. Room => Fresh(t) /\ (nj = "exited" => ~exists)
  BY DEF SInv, AllServed
<1> QED
  BY <1>1, <1>2, <1>3, <1>4, <1>6, <1>7

LEMMA DirectorySInv == ASSUME SInv, PInv', Directory PROVE SInv'
<1>1. UNCHANGED <<ask, filefd, pc, nj, calls, argsrecv, fds, instance, buffer>> /\ (exists' => exists)
  BY DEF Directory, I!DirectoryEvent, I!Remove, I!server, I!locals
<1>2. Leaking' = Leaking /\ Held' = Held /\ Room' = Room
  BY <1>1 DEF Leaking, Held, Slots, Holds, Leaks, Room, OfInotify, OfTcpdump
<1>3. AllServed => AllServed'
  BY <1>1 DEF AllServed, Fresh, OfInotify, OfTcpdump
<1> QED
  BY <1>1, <1>2, <1>3 DEF SInv, Spent

\* The next call is one more that may leak a descriptor.
LEMMA CallSInv == ASSUME SInv, PInv', NEW t \in Threads, Call(t) PROVE SInv'
<1> DEFINE n == calls[t] + 1
<1>1. /\ pc[t] = "idle" /\ calls' = [calls EXCEPT ![t] = n]
      /\ filefd' = [filefd EXCEPT ![t] = fds < FDLIMIT]
      /\ fds' = IF fds < FDLIMIT THEN fds + 1 ELSE fds
      /\ UNCHANGED <<ask, nj, argsrecv, instance, exists, buffer>>
      /\ \E place \in Opening \ {"open"} : pc' = [pc EXCEPT ![t] = place]
  BY DEF Call, I!At, I!Goto, T!Goto, inotifyVars, Opening
<1>2. /\ pc \in [Threads -> Places] /\ calls \in [Threads -> Nat] /\ n \in Nat
      /\ filefd \in [Threads -> BOOLEAN] /\ ~filefd[t] /\ fds \in Nat
      /\ calls[t] \in Nat /\ -1 \in -1..calls[t] /\ Watches(t)
  BY <1>1, CallFacts DEF Placed
<1>3. /\ pc'[t] \in Opening \ {"open"} /\ calls'[t] = n
      /\ \A u \in Threads \ {t} : pc'[u] = pc[u] /\ calls'[u] = calls[u]
      /\ \A u \in Threads \ {t} : filefd'[u] = filefd[u]
      /\ filefd'[t] <=> fds < FDLIMIT
  BY <1>1, <1>2
<1>4. \A u \in Threads : Holds(u)' = Holds(u) /\ Leaks(u)' = Leaks(u)
  BY <1>1, <1>3 DEF Holds, Leaks, Filling, Opening, OfInotify, OfTcpdump
<1>5. \A u \in Threads \ {t} : Slots(u)' = Slots(u)
  BY <1>3, <1>4 DEF Slots
<1>6. ASSUME NEW k PROVE k \in Slots(t)' <=> k \in Slots(t) \/ (k = -1 /\ fds < FDLIMIT)
  <2>1. k \in Slots(t) <=> /\ k \in -1..calls[t]
                          /\ \/ k = 0 /\ Holds(t)
                             \/ k > 0 /\ Leaks(t) /\ (k < calls[t] \/ pc[t] \notin Opening)
    BY <1>2 DEF Slots
  <2>2. k \in Slots(t)' <=> /\ k \in -1..n
                           /\ \/ k = -1 /\ filefd'[t]
                              \/ k = 0 /\ Holds(t)
                              \/ k > 0 /\ Leaks(t) /\ (k < n \/ pc'[t] \notin Opening)
    BY <1>3, <1>4 DEF Slots
  <2>3. pc[t] \notin Opening /\ pc'[t] \in Opening
    BY <1>1, <1>3 DEF Opening
  <2> QED
    BY <1>2, <1>3, <2>1, <2>2, <2>3
<1>7. IsFiniteSet(Held') /\ fds' <= Cardinality(Held')
  <2>1. PICK f : f = fds'
    OBVIOUS
  <2>2. CASE fds < FDLIMIT
    <3>1. Slots(t)' = Slots(t) \cup {-1} /\ -1 \notin Slots(t)
      <4>1. -1 \notin Slots(t)
        BY <1>2 DEF Slots
      <4> QED
        BY <1>6, <2>2, <4>1
    <3>2. f = fds + 1 /\ f \in Nat
      BY <1>1, <1>2, <2>1, <2>2
    <3> QED
      BY <1>2, <1>5, <2>1, <3>1, <3>2, HeldAfter DEF SInv
  <2>3. CASE ~(fds < FDLIMIT)
    <3>1. Slots(t)' = Slots(t)
      BY <1>6, <2>3
    <3>2. f = fds /\ f \in Nat
      BY <1>1, <1>2, <2>1, <2>3
    <3> QED
      BY <1>2, <1>5, <2>1, <3>1, <3>2, HeldAfter DEF SInv
  <2> QED
    BY <2>2, <2>3
<1>8. Leaking' = IF Leaks(t) THEN Leaking \cup {<<t, n>>} ELSE Leaking
  <2>1. \A d : d \in Leaking' <=> \E u \in Threads : Leaks(u) /\ \E k \in 1..calls'[u] : d = <<u, k>>
    BY <1>4 DEF Leaking
  <2>2. 1..n = 1..calls[t] \cup {n}
    BY <1>2
  <2> HIDE DEF n
  <2>3. CASE Leaks(t)
    <3>1. ASSUME NEW d PROVE d \in Leaking' <=> d \in Leaking \cup {<<t, n>>}
      BY <1>3, <2>1, <2>2, <2>3, LeakingIs
    <3> QED
      BY <2>3, <3>1
  <2>4. CASE ~Leaks(t)
    <3>1. ASSUME NEW d PROVE d \in Leaking' <=> d \in Leaking
      BY <1>3, <2>1, <2>4, LeakingIs
    <3> QED
      BY <2>4, <3>1
  <2> QED
    BY <2>3, <2>4
<1>9. IsFiniteSet(Leaking') /\ (Room' => Room)
  <2>1. IsFiniteSet(Leaking) /\ IsFiniteSet(Threads) /\ FDLIMIT \in Nat
    BY ProvidersAssumption DEF SInv, Spent
  <2>2. IsFiniteSet(Leaking')
    BY <1>8, <2>1, FS_AddElement
  <2>3. Cardinality(Leaking) <= Cardinality(Leaking')
    BY <1>8, <2>2, FS_Subset
  <2>4. Cardinality(Leaking) \in Nat /\ Cardinality(Leaking') \in Nat /\ Cardinality(Threads) \in Nat
    BY <2>1, <2>2, FS_CardinalityType
  <2> QED
    BY <2>1, <2>2, <2>3, <2>4 DEF Room
<1>10. Spent'
  BY <1>7, <1>9 DEF Spent
<1>11. Room' => AllServed'
  <2> SUFFICES ASSUME Room' PROVE AllServed'
    OBVIOUS
  <2>1. Room /\ AllServed
    BY <1>9 DEF SInv
  <2>2. -1 \notin Slots(t)
    BY <1>2 DEF Slots
  <2>3. filefd'[t]
    BY <1>2, <1>3, <2>1, <2>2, OneLeft
  <2>4. ASSUME NEW u \in Threads PROVE Fresh(u)'
    <3>1. CASE u = t
      BY <1>3, <2>3, <3>1 DEF Fresh, Opening
    <3>2. CASE u # t
      <4>1. Fresh(u)
        BY <2>1 DEF AllServed
      <4> QED
        BY <1>1, <1>3, <3>2, <4>1 DEF Fresh, OfInotify, OfTcpdump
    <3> QED
      BY <3>1, <3>2
  <2> QED
    BY <1>1, <2>1, <2>4 DEF AllServed
<1> QED
  BY <1>10, <1>11 DEF SInv

LEMMA NewInstanceSInv ==
    ASSUME SInv, PInv', NEW t \in Threads, I!NewInstance(t), UNCHANGED filefd PROVE SInv'
<1>1. /\ pc[t] = "inotify_init" /\ pc' = [pc EXCEPT ![t] = "open"]
      /\ instance' = [instance EXCEPT ![t] = fds < FDLIMIT]
      /\ fds' = IF fds < FDLIMIT THEN fds + 1 ELSE fds
      /\ UNCHANGED <<ask, nj, calls, argsrecv, exists, buffer>>
  BY DEF I!NewInstance, I!At, I!Goto, I!locals
<1>2. /\ pc'[t] = "open" /\ instance'[t] = (fds < FDLIMIT)
      /\ \A u \in Threads \ {t} : pc'[u] = pc[u] /\ instance'[u] = instance[u]
  BY <1>1, CallFacts
<1>3. OfInotify(t) /\ ~instance[t] /\ ~Holds(t)
  BY <1>1, CallFacts DEF Placed, Watches, Holds, Filling, OfInotify, OfTcpdump
<1>4. 0 \notin Slots(t) /\ 0 \in -1..calls[t]
  BY <1>3, CallFacts DEF Slots
<1>5. Slots(t)' = IF fds < FDLIMIT THEN Slots(t) \cup {0} ELSE Slots(t)
  <2>1. Holds(t)' <=> fds < FDLIMIT
    BY <1>1, <1>2, <1>3 DEF Holds, OfInotify, OfTcpdump
  <2>2. pc[t] \in Opening /\ pc'[t] \in Opening /\ calls' = calls /\ Leaks(t)' = Leaks(t)
    BY <1>1, <1>2 DEF Opening, Leaks, OfInotify
  <2> QED
    BY <1>3, <1>4, <2>1, <2>2 DEF Slots
<1>6. Room => fds < FDLIMIT
  BY <1>4, OneLeft
<1>7. Room => (nj' = "exited" => ~exists') /\ Fresh(t)'
  BY <1>1, <1>2, <1>6, CallFacts DEF Fresh
<1>8. \/ Slots(t)' = Slots(t) /\ fds' = fds
      \/ Slots(t)' = Slots(t) \cup {0} /\ fds' = fds + 1 /\ 0 \notin Slots(t)
  BY <1>1, <1>4, <1>5
<1> QED
  BY <1>1, <1>2, <1>7, <1>8, SInvAfter

LEMMA OpenPathSInv ==
    ASSUME SInv, PInv', NEW t \in Threads, I!OpenPath(t), UNCHANGED filefd PROVE SInv'
<1>1. pc[t] = "open" /\ nj = "alive" /\ UNCHANGED <<ask, calls, argsrecv, exists, instance, buffer>>
  BY DEF I!OpenPath, I!At, I!locals
<1>2. OfInotify(t) /\ calls[t] \in -1..calls[t] /\ calls[t] > 0 /\ calls[t] \in Nat
  BY <1>1, CallFacts DEF Placed, Filling, Opening
<1>3. Leaks(t) /\ calls[t] \notin Slots(t)
  BY <1>1, <1>2 DEF Leaks, Slots, Opening
<1>4. Room => fds < FDLIMIT
  BY <1>2, <1>3, OneLeft
<1>5. CASE /\ exists /\ fds < FDLIMIT /\ fds' = fds + 1 /\ nj' = nj
           /\ pc' = [pc EXCEPT ![t] = "inotify_add_watch"]
  <2>1. pc'[t] = "inotify_add_watch" /\ \A u \in Threads \ {t} : pc'[u] = pc[u]
    BY <1>5, CallFacts
  <2>2. Slots(t)' = Slots(t) \cup {calls[t]}
    <3>1. Holds(t)' = Holds(t) /\ Leaks(t)'
      BY <1>1, <1>2, <1>3 DEF Holds, Leaks, OfInotify, OfTcpdump
    <3>2. pc[t] \in Opening /\ pc'[t] \notin Opening
      BY <1>1, <2>1 DEF Opening
    <3>3. \A k \in -1..calls[t] : k < calls[t] \/ k = calls[t]
      BY <1>2
    <3> QED
      BY <1>1, <1>2, <1>3, <3>1, <3>2, <3>3 DEF Slots
  <2>3. Room => (nj' = "exited" => ~exists') /\ Fresh(t)'
    BY <1>1, <1>5, <2>1, CallFacts DEF Fresh
  <2>4. PICK k : k = calls[t]
    OBVIOUS
  <2> QED
    BY <1>1, <1>3, <1>5, <2>1, <2>2, <2>3, <2>4, SInvAfter
<1>6. CASE ~(exists /\ fds < FDLIMIT) /\ nj' = "exited" /\ UNCHANGED <<pc, fds>>
  <2>1. Slots(t)' = Slots(t)
    BY <1>1, <1>6 DEF Slots, Holds, Leaks, OfInotify, OfTcpdump
  <2>2. Room => (nj' = "exited" => ~exists') /\ Fresh(t)'
    BY <1>1, <1>4, <1>6, CallFacts DEF Fresh, OfInotify, OfTcpdump
  <2> QED
    BY <1>1, <1>6, <2>1, <2>2, SInvAfter
<1> QED
  BY <1>5, <1>6 DEF I!OpenPath, I!Goto

LEMMA FinishSInv ==
    ASSUME SInv, PInv', NEW t \in Threads, I!Finish(t), UNCHANGED filefd PROVE SInv'
<1>1. /\ pc[t] = "scan" /\ nj = "alive" /\ pc' = [pc EXCEPT ![t] = "return"]
      /\ I!CopyResult(t)
      /\ instance' = [instance EXCEPT ![t] = FALSE]
      /\ fds' = fds - 1
      /\ UNCHANGED <<ask, calls, exists, buffer>>
  BY DEF I!Finish, I!At, I!Goto, I!locals
<1>2. /\ pc'[t] = "return" /\ ~instance'[t] /\ nj' # "exited"
      /\ \A u \in Threads \ {t} : /\ pc'[u] = pc[u] /\ instance'[u] = instance[u]
                                  /\ argsrecv'[u] = argsrecv[u]
  <2>1. pc'[t] = "return" /\ ~instance'[t]
        /\ \A u \in Threads \ {t} : pc'[u] = pc[u] /\ instance'[u] = instance[u]
    BY <1>1, CallFacts
  <2>2. nj' # "exited"
    BY <1>1 DEF I!CopyResult
  <2>3. \A u \in Threads \ {t} : argsrecv'[u] = argsrecv[u]
    BY <1>1, CallFacts DEF I!CopyResult
  <2> QED
    BY <2>1, <2>2, <2>3
<1>3. OfInotify(t)' /\ ~OfTcpdump(t)' /\ buffer[t] # <<>>
  BY <1>1, CallFacts DEF Placed, Scanned, Filling, OfInotify, OfTcpdump
<1>4. Slots(t)' = Slots(t) \ {0}
  <2>1. Leaks(t)' = Leaks(t) /\ pc[t] \notin Opening /\ pc'[t] \notin Opening
    BY <1>1, <1>2 DEF Leaks, OfInotify, Opening
  <2>2. ~Holds(t)'
    BY <1>2 DEF Holds, Filling
  <2> QED
    BY <1>1, <2>1, <2>2 DEF Slots
<1>5. Room => (nj' = "exited" => ~exists') /\ Fresh(t)'
  BY <1>1, <1>2, <1>3, CallFacts DEF Fresh
<1> QED
  BY <1>1, <1>2, <1>4, <1>5, SInvAfter

\* The steps of inotify that only lead on.
LEMMA InotifyOnSInv ==
    ASSUME SInv, PInv', NEW t \in Threads, UNCHANGED filefd,
           I!AddWatch(t) \/ I!Read(t) \/ I!Scan(t)
    PROVE  SInv'
<1>1. /\ OfInotify(t) /\ ~OfTcpdump(t) /\ nj = "alive"
      /\ pc[t] \in {"inotify_add_watch", "read", "scan"}
      /\ UNCHANGED <<ask, calls, argsrecv, fds, exists, instance, nj>>
  BY CallFacts DEF I!AddWatch, I!Read, I!Scan, I!At, I!server, I!watches,
                   Placed, Filling, OfInotify, OfTcpdump
<1>2. PICK place \in {"read", "scan", "return"} :
         /\ pc' = [pc EXCEPT ![t] = place]
         /\ place = "read" => pc[t] = "inotify_add_watch"
         /\ place = "return" => pc[t] = "read" /\ ~instance[t]
  <2>1. CASE I!AddWatch(t)
    BY <2>1 DEF I!AddWatch, I!At, I!Goto
  <2>2. CASE I!Read(t)
    BY <2>2 DEF I!Read, I!At, I!Goto
  <2>3. CASE I!Scan(t)
    <3>1. pc' = [pc EXCEPT ![t] = "scan"]
      BY <2>3, CallFacts DEF I!Scan, I!At
    <3> QED
      BY <3>1
  <2> QED
    BY <2>1, <2>2, <2>3
<1>3. pc'[t] = place
  BY <1>2, CallFacts
<1>4. Room => Fresh(t)'
  BY <1>1, <1>2, <1>3, CallFacts DEF Fresh
<1>5. \A u \in Threads \ {t} : buffer'[u] = buffer[u]
  BY CallFacts DEF I!AddWatch, I!Read, I!Scan, I!locals
<1> QED
  BY <1>1, <1>2, <1>4, <1>5, QuietAfter DEF Opening

LEMMA OpenLiveSInv ==
    ASSUME SInv, PInv', NEW t \in Threads, T!OpenLive(t), UNCHANGED <<filefd, inotifyVars>> PROVE SInv'
<1> DEFINE opened == ask[t].device # "none" /\ fds < FDLIMIT
           place  == IF opened /\ ask[t].device = "eth" THEN "pcap_loop" ELSE "return"
<1>1. /\ pc[t] = "pcap_open_live" /\ nj = "alive"
      /\ fds' = IF opened THEN fds + 1 ELSE fds
      /\ pc' = [pc EXCEPT ![t] = place]
      /\ UNCHANGED <<ask, filefd, nj, calls, argsrecv, exists, instance, buffer>>
  BY DEF T!OpenLive, T!At, T!Goto, inotifyVars
<1>2. pc'[t] = place /\ \A u \in Threads \ {t} : pc'[u] = pc[u]
  BY <1>1, CallFacts
<1>3. /\ OfTcpdump(t) /\ ~OfInotify(t) /\ ~instance[t] /\ ~Holds(t)
      /\ calls[t] \in -1..calls[t] /\ calls[t] > 0 /\ calls[t] \in Nat /\ 0 \in -1..calls[t]
      /\ ask[t].device \in {"eth", "loopback", "none"}
  BY <1>1, CallFacts, ProvidersAssumption
     DEF Placed, Watches, Holds, Filling, Opening, OfInotify, OfTcpdump,
         SInv, PInv, Typed, ServerTyped, Asks
<1>4. 0 \notin Slots(t)
  BY <1>3 DEF Slots
<1>5. Leaks(t)' = Leaks(t) /\ (Leaks(t) <=> ask[t].device = "loopback")
  BY <1>1, <1>3 DEF Leaks, OfInotify
<1>6. Room /\ ask[t].device = "eth" => place = "pcap_loop"
  BY <1>3, <1>4, OneLeft
<1>7. Room => (nj' = "exited" => ~exists') /\ Fresh(t)'
  BY <1>1, <1>2, <1>3, <1>6, CallFacts DEF Fresh, OfInotify, OfTcpdump
<1>8. pc[t] \in Opening /\ place \notin Opening /\ (pc'[t] \in Filling <=> place = "pcap_loop")
  BY <1>1, <1>2 DEF Opening, Filling
<1>9. CASE place = "pcap_loop"
  <2>1. opened /\ ~Leaks(t)
    BY <1>5, <1>9
  <2>2. Holds(t)'
    BY <1>1, <1>3, <1>8, <1>9 DEF Holds, OfTcpdump
  <2>3. Slots(t)' = Slots(t) \cup {0}
    BY <1>1, <1>3, <1>5, <2>1, <2>2 DEF Slots
  <2> QED
    BY <1>1, <1>2, <1>4, <1>7, <2>1, <2>3, SInvAfter
<1>10. CASE place = "return" /\ Leaks(t)
  <2>1. ~Holds(t)'
    BY <1>1, <1>3, <1>8, <1>10 DEF Holds, OfTcpdump
  <2>2. calls[t] \notin Slots(t)
    BY <1>3, <1>8 DEF Slots
  <2>3. Slots(t)' = Slots(t) \cup {calls[t]}
    <3>1. \A k \in -1..calls[t] : k < calls[t] \/ k = calls[t]
      BY <1>3
    <3>2. pc'[t] \notin Opening
      BY <1>2, <1>8
    <3> QED
      BY <1>1, <1>3, <1>5, <1>8, <1>10, <2>1, <3>1, <3>2 DEF Slots
  <2>4. PICK k : k = calls[t]
    OBVIOUS
  <2>5. fds' = fds \/ fds' = fds + 1
    BY <1>1
  <2> QED
    BY <1>1, <1>2, <1>7, <2>2, <2>3, <2>4, <2>5, SInvAfter
<1>11. CASE place = "return" /\ ~Leaks(t)
  <2>1. ~Holds(t)' /\ ~opened
    BY <1>1, <1>3, <1>5, <1>8, <1>11 DEF Holds, OfTcpdump
  <2>2. Slots(t)' = Slots(t)
    BY <1>1, <1>3, <1>5, <1>11, <2>1 DEF Slots
  <2> QED
    BY <1>1, <1>2, <1>7, <2>1, <2>2, SInvAfter
<1> QED
  BY <1>9, <1>10, <1>11

LEMMA CloseSInv ==
    ASSUME SInv, PInv', NEW t \in Threads, T!Close(t), UNCHANGED <<filefd, inotifyVars>> PROVE SInv'
<1>1. /\ pc[t] = "pcap_loop" /\ nj = "alive" /\ pc' = [pc EXCEPT ![t] = "strcpy"]
      /\ fds' = fds - 1
      /\ UNCHANGED <<ask, filefd, nj, calls, argsrecv, exists, instance, buffer>>
  BY DEF T!Close, T!At, T!Goto, inotifyVars
<1>2. pc'[t] = "strcpy" /\ \A u \in Threads \ {t} : pc'[u] = pc[u]
  BY <1>1, CallFacts
<1>3. ~instance[t]
  BY <1>1, CallFacts DEF Watches
<1>4. Slots(t)' = Slots(t) \ {0}
  <2>1. Leaks(t)' = Leaks(t) /\ pc[t] \notin Opening /\ pc'[t] \notin Opening
    BY <1>1, <1>2 DEF Leaks, OfInotify, Opening
  <2>2. ~Holds(t)'
    BY <1>1, <1>2, <1>3 DEF Holds, Filling
  <2> QED
    BY <1>1, <2>1, <2>2 DEF Slots
<1>5. Room => (nj' = "exited" => ~exists') /\ Fresh(t)'
  BY <1>1, <1>2, CallFacts DEF Fresh
<1> QED
  BY <1>1, <1>2, <1>4, <1>5, SInvAfter

\* The steps of tcpdump that open and close nothing.
LEMMA TcpdumpOnSInv ==
    ASSUME SInv, PInv', NEW t \in Threads, UNCHANGED <<filefd, inotifyVars>>,
           \/ T!GotPacket(t) \/ T!AppendNumber(t) \/ T!Header(t) \/ T!AppendPacket(t)
           \/ T!Result(t) \/ T!Clear(t)
    PROVE  SInv'
<1>1. PICK place \in Filling \cup {"clear", "return"} :
         /\ pc' = [pc EXCEPT ![t] = place]
         /\ nj = "alive" /\ nj' \in {"alive", "corrupt"}
         /\ UNCHANGED <<ask, calls, fds, exists, instance, buffer>>
         /\ \A u \in Threads \ {t} : argsrecv'[u] = argsrecv[u]
         /\ place \in Filling => pc[t] \in Filling
         /\ place = "clear" => pc[t] = "strcpy" /\ argsrecv'[t].call = calls[t]
         /\ place = "return" => pc[t] = "clear" /\ UNCHANGED argsrecv
  <2>1. UNCHANGED <<exists, instance, buffer>> /\ argsrecv \in [Threads -> [call : Nat, text : Seq(Nat) \cup Seq(Pieces)]]
    BY CallFacts DEF inotifyVars
  <2>2. CASE T!GotPacket(t)
    BY <2>1, <2>2 DEF T!GotPacket, T!At, T!Goto, Filling
  <2>3. CASE T!AppendNumber(t)
    BY <2>1, <2>3 DEF T!AppendNumber, T!Copy, T!At, T!Goto, Filling
  <2>4. CASE T!Header(t)
    BY <2>1, <2>4 DEF T!Header, T!At, T!Goto, Filling
  <2>5. CASE T!AppendPacket(t)
    BY <2>1, <2>5 DEF T!AppendPacket, T!Copy, T!At, T!Goto, Filling
  <2>6. CASE T!Result(t)
    BY <2>1, <2>6 DEF T!Result, T!At, T!Goto, Filling
  <2>7. CASE T!Clear(t)
    BY <2>1, <2>7 DEF T!Clear, T!At, T!Goto, Filling
  <2> QED
    BY <2>2, <2>3, <2>4, <2>5, <2>6, <2>7
<1>2. pc'[t] = place
  BY <1>1, CallFacts
<1>6. OfTcpdump(t) /\ ~OfInotify(t)
  <2>1. pc[t] \in Filling \cup {"strcpy", "clear"}
    BY DEF T!GotPacket, T!AppendNumber, T!Header, T!AppendPacket, T!Result, T!Clear, T!At, Filling
  <2> QED
    BY <2>1, CallFacts DEF Placed, Filling, OfTcpdump, OfInotify
<1>3. Room => Fresh(t)'
  <2>1. ~OfInotify(t)' /\ pc[t] # "idle"
    BY <1>1, <1>6 DEF OfInotify, Filling
  <2> QED
    BY <1>1, <1>2, <2>1, CallFacts DEF Fresh, Filling
<1>4. pc[t] \notin Opening /\ place \notin Opening
  BY <1>1 DEF Opening, Filling
<1>5. pc[t] \in Filling <=> place \in Filling
  BY <1>1 DEF Filling
<1> QED
  BY <1>1, <1>3, <1>4, <1>5, QuietAfter

\* The file of a call that returns is closed.
LEMMA WriteSInv == ASSUME SInv, PInv', NEW t \in Threads, Write(t) PROVE SInv'
<1>1. /\ nj = "alive" /\ pc[t] = "return" /\ pc'[t] = "idle"
      /\ \A u \in Threads \ {t} : pc'[u] = pc[u] /\ filefd'[u] = filefd[u]
      /\ UNCHANGED <<ask, nj, calls, argsrecv, exists, instance>>
      /\ ~filefd'[t]
  BY WriteCloses DEF SInv
<1>2. fds' = IF filefd[t] THEN fds - 1 ELSE fds
  BY DEF Write
<1>3. \A u \in Threads \ {t} : buffer'[u] = buffer[u]
  BY CallFacts DEF Write, I!ReturnInotify, inotifyVars
<1>4. Slots(t)' = Slots(t) \ {-1}
  <2>1. Leaks(t)' = Leaks(t) /\ pc[t] \notin Opening /\ pc'[t] \notin Opening
    BY <1>1 DEF Leaks, OfInotify, Opening
  <2>2. Holds(t)' = Holds(t)
    BY <1>1 DEF Holds, OfTcpdump, Filling
  <2> QED
    BY <1>1, <2>1, <2>2 DEF Slots
<1>5. ~filefd[t] => Slots(t) \ {-1} = Slots(t)
  BY DEF Slots
<1>6. Room => (nj' = "exited" => ~exists') /\ Fresh(t)'
  BY <1>1 DEF Fresh
<1>7. CASE filefd[t]
  BY <1>1, <1>2, <1>3, <1>4, <1>6, <1>7, SInvAfter
<1>8. CASE ~filefd[t]
  BY <1>1, <1>2, <1>3, <1>4, <1>5, <1>6, <1>8, SInvAfter
<1> QED
  BY <1>7, <1>8

LEMMA SInvNext == ASSUME SInv, [Next]_vars PROVE SInv'
<1>1. PInv'
  BY PInvNext DEF SInv
<1>2. CASE Directory
  BY <1>1, <1>2, DirectorySInv
<1>3. ASSUME NEW t \in Threads, Call(t) \/ Packet(t) PROVE SInv'
  BY <1>1, <1>3, CallSInv, TcpdumpOnSInv DEF Packet
<1>4. ASSUME NEW t \in Threads, Thread(t) PROVE SInv'
  <2>1. CASE I!GetnotifyInotify(t) /\ UNCHANGED filefd
    BY <1>1, <2>1, NewInstanceSInv, OpenPathSInv, InotifyOnSInv, FinishSInv DEF I!GetnotifyInotify
  <2>2. CASE T!GetnotifyTcpdump(t) /\ UNCHANGED <<filefd, inotifyVars>>
    BY <1>1, <2>2, OpenLiveSInv, CloseSInv, TcpdumpOnSInv DEF T!GetnotifyTcpdump
  <2>3. CASE Write(t)
    BY <1>1, <2>3, WriteSInv
  <2> QED
    BY <1>4, <2>1, <2>2, <2>3 DEF Thread
<1>5. CASE UNCHANGED vars
  <2>1. UNCHANGED <<ask, filefd, pc, nj, calls, argsrecv, fds, instance, exists, buffer>>
    BY <1>5 DEF vars, inotifyVars
  <2>2. Leaking' = Leaking /\ Held' = Held /\ Room' = Room /\ AllServed' = AllServed
    BY <2>1 DEF Leaking, Held, Slots, Holds, Leaks, Room, AllServed, Fresh, OfInotify, OfTcpdump
  <2> QED
    BY <1>1, <2>1, <2>2 DEF SInv, Spent
<1> QED
  BY <1>2, <1>3, <1>4, <1>5 DEF Next

LEMMA SInvInit == Init => SInv
<1> SUFFICES ASSUME Init PROVE SInv
  OBVIOUS
<1>1. PInv
  BY PInvInit
<1>2. Leaking = {} /\ Held = {}
  BY DEF Init, I!InotifyInit, Leaking, Held, Slots, Holds, Filling
<1>3. Spent
  BY <1>2, FS_EmptySet DEF Spent, Init
<1>4. AllServed
  BY DEF AllServed, Fresh, Init
<1> QED
  BY <1>1, <1>3, <1>4 DEF SInv

\* As long as the calls that leak descriptors have left two for every thread, no open of the
\* directory ends the server, and a call that returns has its file open and, unless inotify
\* has read nothing it has a wording for, a notification of its own (the return values of
\* open in np_getnotify_method, and of inotify_init, open and pcap_open_live).
THEOREM ProvidersServedUntilFull == Spec => []ServedUntilFull
<1>1. SInv /\ [Next]_vars => SInv'
  BY SInvNext
<1>2. ASSUME SInv, Room, NEW t \in Threads, pc[t] = "return"
      PROVE  /\ filefd[t]
             /\ OfInotify(t) => buffer[t] # <<>>
             /\ OfInotify(t) /\ Worded(t) # {} => argsrecv[t].call = calls[t]
             /\ OfTcpdump(t) /\ ask[t].device = "eth" => argsrecv[t].call = calls[t]
  <2>1. Fresh(t) /\ Scanned(t) /\ buffer[t] \in Seq(I!Events \cup {I!Removed})
    BY <1>2, CallFacts
  <2>2. ASSUME OfInotify(t), Worded(t) # {} PROVE argsrecv[t].call = calls[t]
    <3>1. PICK k \in 1..Len(buffer[t]) : buffer[t][k].kind \in Reported
      BY <2>1, <2>2, LenProperties DEF Worded
    <3>2. Len(buffer[t]) \in Nat /\ i[t] = Len(buffer[t]) + 1
      BY <1>2, <2>1, <2>2, LenProperties DEF Scanned
    <3>3. k \in 1..i[t] - 1
      BY <3>2
    <3>4. k <= retStr[t]
      BY <2>1, <3>1, <3>3 DEF Scanned
    <3>5. retStr[t] # 0
      BY <3>1, <3>2, <3>4
    <3> QED
      BY <1>2, <2>1, <2>2, <3>5 DEF Scanned
  <2> QED
    BY <1>2, <2>1, <2>2 DEF Fresh
<1>3. SInv => ServedUntilFull
  <2> SUFFICES ASSUME SInv, Room PROVE ServedUntilFull
    BY DEF ServedUntilFull
  <2>1. nj = "exited" => ~exists
    BY DEF SInv, AllServed
  <2> QED
    BY <1>2, <2>1 DEF ServedUntilFull
<1> QED
  BY <1>1, <1>3, SInvInit, PTL DEF Spec

=============================================================================
