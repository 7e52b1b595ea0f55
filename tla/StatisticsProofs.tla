--------------------------- MODULE StatisticsProofs ---------------------------
(***************************************************************************)
(* Clients that all have the same name are told apart, for any number of   *)
(* clients and starts.                                                     *)
(***************************************************************************)
EXTENDS Statistics, TLAPS

Waiting  == {"bound", "listening", "connected"}   \* not asked yet
Handling == {"read", "connect", "print", "unlink"}

\* What NJ holds goes with where its thread is.
Holds ==
    /\ msgsock # NoOne <=> nj \in Handling \cup {"close"}
    /\ target # NoOne <=> nj \in {"print", "unlink", "close"}
    /\ nj \notin Serving => statsock = <<>>

\* Who has the name has not got its report: the name goes before the connection.
NameGoesFirst ==
    /\ \A c \in Clients : sock_read[c] # "none" => pc[c] \notin {"start", "bound"}
    /\ nj \notin {"down", "exited"} /\ file # NoOne =>
          sock_read[file] # "closed" /\ pc[file] \notin {"start", "done"}
    /\ nj = "close" => file # target

\* One client at a time: who has not asked yet has the name, and so have the only
\* connection that is not accepted and the request that is handled.
OneAtATime ==
    /\ \A c \in Clients : pc[c] \in Waiting => file = c /\ sock_read[c] = "none"
    /\ \A i \in 1..Len(statsock) :
          /\ i = 1 /\ statsock[i] = file
          /\ pc[statsock[i]] \in {"connected", "asked", "killed"}
          /\ sock_read[statsock[i]] = "none"
    /\ nj \in Handling => msgsock = file /\ statsock = <<>>
    /\ nj \in {"read", "connect"} => sock_read[msgsock] = "none"
    /\ nj = "read" => pc[msgsock] \in {"connected", "asked", "killed"}
    /\ nj = "connect" => pc[msgsock] \in {"asked", "killed"}
    /\ nj \in {"print", "unlink"} => pc[msgsock] \in {"asked", "reading", "killed"}
    /\ target # NoOne => target = msgsock

InTurn == overtaken = {} => OneAtATime

IInv == TypeOK /\ Holds /\ NameGoesFirst /\ InTurn /\ Robust

LEMMA StatInit == Init => IInv
BY StatisticsAssumption
   DEF Init, IInv, TypeOK, Holds, NameGoesFirst, InTurn, OneAtATime, Robust, Serving,
       Handling, Waiting, OnTheWay

-----------------------------------------------------------------------------
(* A lemma for every action. *)

LEMMA BindStep ==
    ASSUME IInv, NEW c \in Clients, Bind(c)
    PROVE  IInv'
<1> USE StatisticsAssumption DEF IInv, Bind, Goto, connections, OnTheWay, Listening, Serving
<1>1. TypeOK'
  BY DEF TypeOK
<1>2. Holds'
  BY DEF TypeOK, Holds, Handling
<1>3. NameGoesFirst'
  BY DEF TypeOK, Holds, NameGoesFirst
<1>4. InTurn'
  <2> SUFFICES ASSUME overtaken = {} PROVE OneAtATime'
    BY DEF InTurn
  <2> USE DEF OneAtATime
  <2>1. OneAtATime
    BY DEF InTurn
  <2>2. CASE file # NoOne
    <3>1. pc' = [pc EXCEPT ![c] = "failed"] /\ UNCHANGED <<nj, file, statsock, msgsock, target, sock_read>>
      BY <2>2
    <3>2. c # msgsock \/ nj \notin Handling
      BY <2>1 DEF Handling
    <3>3. \A i \in 1..Len(statsock) : statsock[i] # c
      BY <2>1
    <3> QED
      BY <2>1, <3>1, <3>2, <3>3 DEF TypeOK, Holds, Handling, Waiting
  <2>3. CASE file = NoOne
    <3>1. /\ nj \notin Handling /\ 1..Len(statsock) = {}
          /\ \A d \in Clients : pc[d] \notin Waiting
      BY <2>1, <2>3 DEF TypeOK, Holds, Handling
    <3>2. sock_read[c] = "none"
      BY DEF NameGoesFirst
    <3> QED
      BY <2>1, <2>3, <3>1, <3>2 DEF TypeOK, Handling, Waiting
  <2> QED
    BY <2>2, <2>3
<1>5. Robust'
  BY DEF TypeOK, Robust
<1> QED
  BY <1>1, <1>2, <1>3, <1>4, <1>5

LEMMA ListenStep ==
    ASSUME IInv, NEW c \in Clients, Listen(c)
    PROVE  IInv'
<1> USE StatisticsAssumption DEF IInv, Listen, Goto, connections, OnTheWay, Listening, Serving
<1>1. TypeOK'
  BY DEF TypeOK
<1>2. Holds'
  BY DEF TypeOK, Holds, Handling
<1>3. NameGoesFirst'
  BY DEF TypeOK, Holds, NameGoesFirst
<1>4. InTurn'
  BY DEF TypeOK, Holds, InTurn, OneAtATime, Handling, Waiting
<1>5. Robust'
  BY DEF TypeOK, Robust
<1> QED
  BY <1>1, <1>2, <1>3, <1>4, <1>5

LEMMA ConnectStep ==
    ASSUME IInv, NEW c \in Clients, Connect(c)
    PROVE  IInv'
<1> USE StatisticsAssumption DEF IInv, Connect, Goto, connections, OnTheWay, Listening, Serving
<1>1. TypeOK'
  BY DEF TypeOK
<1>2. Holds'
  BY DEF TypeOK, Holds, Handling
<1>3. NameGoesFirst'
  BY DEF TypeOK, Holds, NameGoesFirst
<1>4. InTurn'
  BY DEF TypeOK, Holds, InTurn, OneAtATime, Handling, Waiting
<1>5. Robust'
  BY DEF TypeOK, Robust
<1> QED
  BY <1>1, <1>2, <1>3, <1>4, <1>5

LEMMA AskStep ==
    ASSUME IInv, NEW c \in Clients, Ask(c)
    PROVE  IInv'
<1> USE StatisticsAssumption DEF IInv, Ask, Goto, connections, OnTheWay, Listening, Serving
<1>1. TypeOK'
  BY DEF TypeOK
<1>2. Holds'
  BY DEF TypeOK, Holds, Handling
<1>3. NameGoesFirst'
  BY DEF TypeOK, Holds, NameGoesFirst
<1>4. InTurn'
  BY DEF TypeOK, Holds, InTurn, OneAtATime, Handling, Waiting
<1>5. Robust'
  BY DEF TypeOK, Robust
<1> QED
  BY <1>1, <1>2, <1>3, <1>4, <1>5

LEMMA AcceptReportStep ==
    ASSUME IInv, NEW c \in Clients, AcceptReport(c)
    PROVE  IInv'
<1> USE StatisticsAssumption DEF IInv, AcceptReport, Goto, connections, OnTheWay, Listening, Serving
<1>1. TypeOK'
  BY DEF TypeOK
<1>2. Holds'
  BY DEF TypeOK, Holds, Handling
<1>3. NameGoesFirst'
  BY DEF TypeOK, Holds, NameGoesFirst
<1>4. InTurn'
  BY DEF TypeOK, Holds, InTurn, OneAtATime, Handling, Waiting
<1>5. Robust'
  BY DEF TypeOK, Robust
<1> QED
  BY <1>1, <1>2, <1>3, <1>4, <1>5

LEMMA ReadReportStep ==
    ASSUME IInv, NEW c \in Clients, ReadReport(c)
    PROVE  IInv'
<1> USE StatisticsAssumption DEF IInv, ReadReport, Goto, connections, OnTheWay, Listening, Serving
<1>1. TypeOK'
  BY DEF TypeOK
<1>2. Holds'
  BY DEF TypeOK, Holds, Handling
<1>3. NameGoesFirst'
  BY DEF TypeOK, Holds, NameGoesFirst
<1>4. InTurn'
  BY DEF TypeOK, Holds, InTurn, OneAtATime, Handling, Waiting
<1>5. Robust'
  BY DEF TypeOK, Robust
<1> QED
  BY <1>1, <1>2, <1>3, <1>4, <1>5

LEMMA KillStep ==
    ASSUME IInv, NEW c \in Clients, Kill(c)
    PROVE  IInv'
<1> USE StatisticsAssumption DEF IInv, Kill, Goto, connections, OnTheWay, Listening, Serving
<1>1. TypeOK'
  BY DEF TypeOK
<1>2. Holds'
  BY DEF TypeOK, Holds, Handling
<1>3. NameGoesFirst'
  BY DEF TypeOK, Holds, NameGoesFirst
<1>4. InTurn'
  BY DEF TypeOK, Holds, InTurn, OneAtATime, Handling, Waiting
<1>5. Robust'
  BY DEF TypeOK, Robust
<1> QED
  BY <1>1, <1>2, <1>3, <1>4, <1>5

LEMMA StartStep ==
    ASSUME IInv, Start
    PROVE  IInv'
<1> USE StatisticsAssumption DEF IInv, Start, Goto, connections, OnTheWay, Listening, Serving
<1>1. TypeOK'
  BY DEF TypeOK
<1>2. Holds'
  BY DEF TypeOK, Holds, Handling
<1>3. NameGoesFirst'
  BY DEF TypeOK, Holds, NameGoesFirst
<1>4. InTurn'
  BY DEF TypeOK, Holds, InTurn, OneAtATime, Handling, Waiting
<1>5. Robust'
  BY DEF TypeOK, Robust
<1> QED
  BY <1>1, <1>2, <1>3, <1>4, <1>5

LEMMA ListenStatStep ==
    ASSUME IInv, ListenStat
    PROVE  IInv'
<1> USE StatisticsAssumption DEF IInv, ListenStat, Goto, connections, OnTheWay, Listening, Serving
<1>1. TypeOK'
  BY DEF TypeOK
<1>2. Holds'
  BY DEF TypeOK, Holds, Handling
<1>3. NameGoesFirst'
  BY DEF TypeOK, Holds, NameGoesFirst
<1>4. InTurn'
  BY DEF TypeOK, Holds, InTurn, OneAtATime, Handling, Waiting
<1>5. Robust'
  BY DEF TypeOK, Robust
<1> QED
  BY <1>1, <1>2, <1>3, <1>4, <1>5

LEMMA AcceptStep ==
    ASSUME IInv, Accept
    PROVE  IInv'
<1> USE StatisticsAssumption DEF IInv, Accept, Goto, connections, OnTheWay, Listening, Serving
<1>1. TypeOK'
  BY DEF TypeOK
<1>2. Holds'
  BY DEF TypeOK, Holds, Handling
<1>3. NameGoesFirst'
  BY DEF TypeOK, Holds, NameGoesFirst
<1>4. InTurn'
  BY DEF TypeOK, Holds, InTurn, OneAtATime, Handling, Waiting
<1>5. Robust'
  BY DEF TypeOK, Robust
<1> QED
  BY <1>1, <1>2, <1>3, <1>4, <1>5

LEMMA ReadAskStep ==
    ASSUME IInv, ReadAsk
    PROVE  IInv'
<1> USE StatisticsAssumption DEF IInv, ReadAsk, Goto, connections, OnTheWay, Listening, Serving
<1>1. TypeOK'
  BY DEF TypeOK
<1>2. Holds'
  BY DEF TypeOK, Holds, Handling
<1>3. NameGoesFirst'
  BY DEF TypeOK, Holds, NameGoesFirst
<1>4. InTurn'
  BY DEF TypeOK, Holds, InTurn, OneAtATime, Handling, Waiting
<1>5. Robust'
  BY DEF TypeOK, Robust
<1> QED
  BY <1>1, <1>2, <1>3, <1>4, <1>5

LEMMA UnlinkStep ==
    ASSUME IInv, Unlink
    PROVE  IInv'
<1> USE StatisticsAssumption DEF IInv, Unlink, Goto, connections, OnTheWay, Listening, Serving
<1>1. TypeOK'
  BY DEF TypeOK
<1>2. Holds'
  BY DEF TypeOK, Holds, Handling
<1>3. NameGoesFirst'
  BY DEF TypeOK, Holds, NameGoesFirst
<1>4. InTurn'
  BY DEF TypeOK, Holds, InTurn, OneAtATime, Handling, Waiting
<1>5. Robust'
  BY DEF TypeOK, Robust
<1> QED
  BY <1>1, <1>2, <1>3, <1>4, <1>5

LEMMA CloseStep ==
    ASSUME IInv, Close
    PROVE  IInv'
<1> USE StatisticsAssumption DEF IInv, Close, Goto, connections, OnTheWay, Listening, Serving
<1>1. TypeOK'
  BY DEF TypeOK
<1>2. Holds'
  BY DEF TypeOK, Holds, Handling
<1>3. NameGoesFirst'
  BY DEF TypeOK, Holds, NameGoesFirst
<1>4. InTurn'
  BY DEF TypeOK, Holds, InTurn, OneAtATime, Handling, Waiting
<1>5. Robust'
  BY DEF TypeOK, Robust
<1> QED
  BY <1>1, <1>2, <1>3, <1>4, <1>5

LEMMA StopStep ==
    ASSUME IInv, NEW how \in {"down", "exited"}, End(how), nj \notin {"down", "exited"},
           how = "exited" => overtaken # {} \/ \E c \in Clients : pc[c] = "killed"
    PROVE  IInv'
<1> USE StatisticsAssumption DEF IInv, End, OnTheWay, Serving
<1>1. TypeOK'
  BY DEF TypeOK
<1>2. Holds'
  BY DEF Holds, Handling
<1>3. NameGoesFirst'
  BY DEF TypeOK, NameGoesFirst
<1>4. InTurn'
  BY DEF TypeOK, InTurn, OneAtATime, Handling, Waiting
<1>5. Robust'
  BY DEF Robust
<1> QED
  BY <1>1, <1>2, <1>3, <1>4, <1>5

LEMMA ConnectBackStep ==
    ASSUME IInv, ConnectBack
    PROVE  IInv'
<1> DEFINE answered == file # NoOne /\ pc[file] \in Listening
<1>1. CASE answered
  <2> USE StatisticsAssumption, <1>1 DEF IInv, ConnectBack, OnTheWay, Listening, Serving
  <2>1. TypeOK'
    BY DEF TypeOK, Holds
  <2>2. Holds'
    BY DEF TypeOK, Holds, Handling
  <2>3. NameGoesFirst'
    BY DEF TypeOK, Holds, NameGoesFirst
  <2>4. InTurn'
    BY DEF TypeOK, Holds, InTurn, OneAtATime, Handling, Waiting
  <2>5. Robust'
    BY DEF Robust
  <2> QED
    BY <2>1, <2>2, <2>3, <2>4, <2>5
<1>2. CASE ~answered
  <2>1. overtaken # {} \/ \E c \in Clients : pc[c] = "killed"
    BY <1>2 DEF IInv, TypeOK, Holds, InTurn, OneAtATime, Handling, ConnectBack, Listening, OnTheWay
  <2>2. End("exited") /\ nj \notin {"down", "exited"}
    BY <1>2 DEF ConnectBack
  <2> QED
    BY <2>1, <2>2, StopStep
<1> QED
  BY <1>1, <1>2

LEMMA PrintHashesStep ==
    ASSUME IInv, PrintHashes
    PROVE  IInv'
<1>1. CASE nj' = "unlink" /\ UNCHANGED <<starts, file, pc, overtaken, connections>>
  <2> USE <1>1 DEF IInv, PrintHashes, connections, OnTheWay, Serving
  <2>1. TypeOK'
    BY DEF TypeOK
  <2>2. Holds'
    BY DEF Holds, Handling
  <2>3. NameGoesFirst'
    BY DEF NameGoesFirst
  <2>4. InTurn'
    BY DEF InTurn, OneAtATime, Handling, Waiting
  <2>5. Robust'
    BY DEF Robust
  <2> QED
    BY <2>1, <2>2, <2>3, <2>4, <2>5
<1>2. CASE pc[target] \notin Listening /\ End("exited")
  <2>1. overtaken # {} \/ \E c \in Clients : pc[c] = "killed"
    BY <1>2, StatisticsAssumption
       DEF IInv, TypeOK, Holds, InTurn, OneAtATime, Handling, PrintHashes, Listening, OnTheWay
  <2>2. nj \notin {"down", "exited"}
    BY DEF PrintHashes
  <2> QED
    BY <1>2, <2>1, <2>2, StopStep
<1> QED
  BY <1>1, <1>2 DEF PrintHashes

LEMMA StatNext == IInv /\ [Next]_vars => IInv'
<1> SUFFICES ASSUME IInv, [Next]_vars PROVE IInv'
  OBVIOUS
<1>1. CASE UNCHANGED vars
  BY <1>1 DEF vars, connections, IInv, TypeOK, Holds, NameGoesFirst, InTurn, OneAtATime, Robust
<1>2. CASE Server
  BY <1>2, ListenStatStep, AcceptStep, ReadAskStep, ConnectBackStep, PrintHashesStep,
     UnlinkStep, CloseStep DEF Server
<1>3. CASE Start \/ Stop
  BY <1>3, StartStep, StopStep DEF Stop
<1>4. CASE \E c \in Clients : Client(c) \/ Bind(c) \/ Kill(c)
  BY <1>4, BindStep, ListenStep, ConnectStep, AskStep, AcceptReportStep, ReadReportStep,
     KillStep DEF Client
<1> QED
  BY <1>1, <1>2, <1>3, <1>4 DEF Next

-----------------------------------------------------------------------------
\* The inductive invariant holds in every reachable state.
THEOREM StatInvariant == Spec => []IInv
BY StatInit, StatNext, PTL DEF Spec

\* The connections, the name and the places of the threads are what they are meant to
\* be; one connection at most is open, that to target.
THEOREM StatTypeOK == Spec => []TypeOK
BY StatInvariant, PTL DEF IInv

\* NJ prints to the client whose request it handles, unless NJ was started while a
\* client was on its way.
THEOREM StatOwnReport == Spec => []OwnReport
<1>1. IInv => OwnReport
  BY DEF IInv, InTurn, OneAtATime, OwnReport
<1> QED
  BY <1>1, StatInvariant, PTL

\* Clients do not make NJ exit, unless one was killed or NJ was started while one was on
\* its way.
THEOREM StatRobust == Spec => []Robust
BY StatInvariant, PTL DEF IInv

\* While NJ serves, the name never belongs to a client that has read its report.
THEOREM StatNameFreed == Spec => []NameFreed
<1>1. IInv => NameFreed
  BY DEF IInv, TypeOK, NameGoesFirst, NameFreed, Serving
<1> QED
  BY <1>1, StatInvariant, PTL
=============================================================================
