----------------------------- MODULE Statistics -----------------------------
(***************************************************************************)
(* Statistics: the client stats.c and the thread print_stat_method of NJ.  *)
(*                                                                         *)
(* Every client listens at the same name, "./statsockprint", and then asks *)
(* at "./statsock".  NJ answers by connecting to that name, whoever has    *)
(* it, prints the two hashes there and unlinks the name.  Only the failing *)
(* bind keeps a second client out while the name is taken.  NJ also        *)
(* unlinks the name when it starts; a client never does.                   *)
(***************************************************************************)
EXTENDS Naturals, Sequences, FiniteSets

CONSTANTS Clients,
          NoOne,
          MaxStarts  \* bound: how often NJ is started

ASSUME StatisticsAssumption == NoOne \notin Clients /\ MaxStarts \in Nat

VARIABLES nj,        \* where the thread of NJ is; "down", or "exited" when NJ ended itself
          starts,    \* how often NJ was started
          statsock,  \* the connections to statsock that were not accepted
          msgsock,   \* whose request is being handled
          file,      \* who has bound statsockprint
          target,    \* to whom NJ has connected
          pc,        \* where each client is
          sock_read, \* the connection to each client: "none", "open" or "closed"
          overtaken  \* history: NJ was started while these clients were on their way

connections == <<statsock, msgsock, target, sock_read>>
vars == <<nj, starts, file, pc, overtaken, connections>>

\* A client that has the name or had it, and has not ended; one that listens.
OnTheWay  == {"bound", "listening", "connected", "asked", "reading"}
Listening == OnTheWay \ {"bound"}

\* NJ takes connections to statsock.
Serving == {"accept", "read", "connect", "print", "unlink", "close"}

Init == /\ nj = "down" /\ starts = 0
        /\ statsock = <<>> /\ msgsock = NoOne /\ target = NoOne
        /\ file = NoOne
        /\ pc = [c \in Clients |-> "start"]
        /\ sock_read = [c \in Clients |-> "none"]
        /\ overtaken = {}

-----------------------------------------------------------------------------
(* The client. *)
Goto(c, place) == pc' = [pc EXCEPT ![c] = place]

\* Faulty variant: the client removes the name first.
BindTakesOver(c) ==
    /\ pc[c] = "start"
    /\ file' = c /\ Goto(c, "bound")
    /\ UNCHANGED <<nj, starts, overtaken, connections>>

\* bind fails when the name exists.
Bind(c) ==
    /\ pc[c] = "start"
    /\ \/ file = NoOne /\ file' = c /\ Goto(c, "bound")
       \/ file # NoOne /\ Goto(c, "failed") /\ UNCHANGED file
    /\ UNCHANGED <<nj, starts, overtaken, connections>>

Listen(c) ==
    /\ pc[c] = "bound"
    /\ Goto(c, "listening")
    /\ UNCHANGED <<nj, starts, file, overtaken, connections>>

\* connect to statsock; the client that is refused leaves the name behind.
Connect(c) ==
    /\ pc[c] = "listening"
    /\ \/ nj \in Serving /\ Goto(c, "connected") /\ statsock' = Append(statsock, c)
       \/ nj \notin Serving /\ Goto(c, "failed") /\ UNCHANGED statsock
    /\ UNCHANGED <<nj, starts, file, overtaken, msgsock, target, sock_read>>

\* The request is written; SIGPIPE ends the client when NJ has gone.
Ask(c) ==
    /\ pc[c] = "connected"
    /\ Goto(c, IF c = msgsock \/ \E i \in DOMAIN statsock : statsock[i] = c
               THEN "asked" ELSE "failed")
    /\ UNCHANGED <<nj, starts, file, overtaken, connections>>

\* The client accepts ...
AcceptReport(c) ==
    /\ pc[c] = "asked" /\ sock_read[c] # "none"
    /\ Goto(c, "reading")
    /\ UNCHANGED <<nj, starts, file, overtaken, connections>>

\* ... and reads until the end.
ReadReport(c) ==
    /\ pc[c] = "reading" /\ sock_read[c] = "closed"
    /\ Goto(c, "done")
    /\ UNCHANGED <<nj, starts, file, overtaken, connections>>

\* Its user ends it.
Kill(c) ==
    /\ pc[c] \in OnTheWay
    /\ Goto(c, "killed")
    /\ UNCHANGED <<nj, starts, file, overtaken, connections>>

-----------------------------------------------------------------------------
(* NJ. *)

\* main: the names of earlier runs are unlinked.
Start ==
    /\ nj \in {"down", "exited"} /\ starts < MaxStarts
    /\ nj' = "starting" /\ starts' = starts + 1
    /\ file' = NoOne
    /\ overtaken' = overtaken \cup {c \in Clients : pc[c] \in OnTheWay}
    /\ UNCHANGED <<pc, connections>>

\* main binds statsock and starts the thread, which listens.
ListenStat ==
    /\ nj = "starting"
    /\ nj' = "accept"
    /\ UNCHANGED <<starts, file, pc, overtaken, connections>>

\* NJ ends, and all its connections with it; the names stay.
End(how) ==
    /\ nj' = how
    /\ statsock' = <<>> /\ msgsock' = NoOne /\ target' = NoOne
    /\ sock_read' = [c \in Clients |-> IF c = target THEN "closed" ELSE sock_read[c]]
    /\ UNCHANGED <<starts, file, pc, overtaken>>

\* SIGINT.
Stop == nj \notin {"down", "exited"} /\ End("down")

Accept ==
    /\ nj = "accept" /\ statsock # <<>>
    /\ nj' = "read"
    /\ msgsock' = Head(statsock) /\ statsock' = Tail(statsock)
    /\ UNCHANGED <<starts, file, pc, overtaken, target, sock_read>>

\* read returns what the client has written, or 0 when it has ended: handled alike.
ReadAsk ==
    /\ nj = "read" /\ pc[msgsock] # "connected"
    /\ nj' = "connect"
    /\ UNCHANGED <<starts, file, pc, overtaken, connections>>

\* print_stat connects to the name; when nobody listens there, NJ exits.
ConnectBack ==
    /\ nj = "connect"
    /\ LET answered == file # NoOne /\ pc[file] \in Listening
       IN  \/ /\ answered
              /\ nj' = "print"
              /\ target' = file
              /\ sock_read' = [sock_read EXCEPT ![file] = "open"]
              /\ UNCHANGED <<starts, file, pc, overtaken, statsock, msgsock>>
           \/ ~answered /\ End("exited")

\* The two hashes are printed, each entry with a write; SIGPIPE ends NJ at the first
\* one when the client has ended.
PrintHashes ==
    /\ nj = "print"
    /\ \/ nj' = "unlink" /\ UNCHANGED <<starts, file, pc, overtaken, connections>>
       \/ pc[target] \notin Listening /\ End("exited")

\* Faulty variant: the name stays.
UnlinkNothing ==
    /\ nj = "unlink"
    /\ nj' = "close"
    /\ UNCHANGED <<starts, file, pc, overtaken, connections>>

Unlink ==
    /\ nj = "unlink"
    /\ nj' = "close"
    /\ file' = NoOne
    /\ UNCHANGED <<starts, pc, overtaken, connections>>

\* Faulty variant: the connection to the client is kept.
CloseRequestOnly ==
    /\ nj = "close"
    /\ nj' = "accept"
    /\ msgsock' = NoOne /\ target' = NoOne
    /\ UNCHANGED <<starts, file, pc, overtaken, statsock, sock_read>>

\* Both connections are closed.
Close ==
    /\ nj = "close"
    /\ nj' = "accept"
    /\ msgsock' = NoOne /\ target' = NoOne
    /\ sock_read' = [sock_read EXCEPT ![target] = "closed"]
    /\ UNCHANGED <<starts, file, pc, overtaken, statsock>>

-----------------------------------------------------------------------------
Client(c) == Listen(c) \/ Connect(c) \/ Ask(c) \/ AcceptReport(c) \/ ReadReport(c)
Server    == ListenStat \/ Accept \/ ReadAsk \/ ConnectBack \/ PrintHashes \/ Unlink \/ Close

Next == \/ Server \/ Start \/ Stop
        \/ \E c \in Clients : Client(c) \/ Bind(c) \/ Kill(c)

\* What has been started goes on; nobody need start, stop or kill anything.
Spec == Init /\ [][Next]_vars /\ WF_vars(Server) /\ \A c \in Clients : WF_vars(Client(c))

-----------------------------------------------------------------------------
\* Type correctness.  The one open connection is that to target.
TypeOK ==
    /\ nj \in {"down", "exited", "starting"} \cup Serving
    /\ starts \in 0..MaxStarts
    /\ statsock \in Seq(Clients)
    /\ {msgsock, target, file} \subseteq Clients \cup {NoOne}
    /\ pc \in [Clients -> OnTheWay \cup {"start", "done", "failed", "killed"}]
    /\ sock_read \in [Clients -> {"none", "open", "closed"}]
    /\ \A c \in Clients : sock_read[c] = "open" <=> c = target
    /\ overtaken \subseteq Clients

\* NJ prints to the client whose request it handles, although all clients have the
\* same name, unless NJ was started while a client was on its way: then that client
\* has no name, its report goes to the next one, and so on.
OwnReport == target # NoOne => target = msgsock \/ overtaken # {}

\* Clients that nobody kills, however many come at once, do not make NJ exit, unless
\* NJ was started while one was on its way.
Robust == nj = "exited" => overtaken # {} \/ \E c \in Clients : pc[c] = "killed"

\* A client that has read its report leaves the name to the next one: while NJ serves,
\* the name belongs to a client on its way, or to one that was killed or refused.
NameFreed == nj \in Serving /\ file # NoOne => pc[file] \in OnTheWay \cup {"killed", "failed"}

\* Who has asked gets a whole report, unless it is killed, NJ ends, or NJ was started
\* since it bound the name: two clients never wait for one another.
Answered == \A c \in Clients :
    pc[c] = "asked" ~> pc[c] \in {"done", "killed"} \/ nj \in {"down", "exited"} \/ c \in overtaken
=============================================================================
