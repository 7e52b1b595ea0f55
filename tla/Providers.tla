----------------------------- MODULE Providers -----------------------------
(***************************************************************************)
(* The two providers as np_getnotify_method uses them: each thread opens   *)
(* the APP's file, calls the getnotify of its provider, and writes what is *)
(* in argsrecv, whether the call put it there or not, again and again with *)
(* the same args.  The files and the providers share the descriptors of    *)
(* the server, which the calls of inotify, and of tcpdump with a wrong     *)
(* device, use up.  That is the one reason for which open fails here;      *)
(* module Getnotify lets the file fail for any.                            *)
(***************************************************************************)
EXTENDS Naturals, Sequences, FiniteSets

LOCAL INSTANCE FiniteSetsExt  \* Max

CONSTANTS Threads,
          Workloads,  \* what the threads may have been asked for
          FDLIMIT,
          Kinds, Reported, OPEN, OfDirectory, MaxQueue,  \* see module Inotify
          RETSIZE                                        \* see module Tcpdump

Asks == [library : {"inotify", "tcpdump"},
         count : Nat,                            \* how many notifications
         flags : SUBSET STRING,                  \* for inotify, known flags or not
         device : {"eth", "loopback", "none"},   \* for tcpdump
         num_packets : Nat]

ASSUME ProvidersAssumption ==
    /\ IsFiniteSet(Threads)
    /\ Workloads \subseteq [Threads -> Asks]
    /\ Reported \subseteq Kinds
    /\ OPEN \in OfDirectory /\ OfDirectory \subseteq Kinds
    /\ FDLIMIT \in Nat /\ MaxQueue \in Nat /\ RETSIZE \in Nat

VARIABLES ask,       \* what each thread was asked for
          filefd,    \* whether each thread has the APP's file open
          alone,     \* history: no other call of tcpdump overlaps with this one
          pc, nj, calls, argsrecv, fds,
          exists, instance, watching, queue, buffer, i, retStr,
          got, end, number, retstring, count

I == INSTANCE Inotify
T == INSTANCE Tcpdump

inotifyVars == <<exists, instance, watching, queue, buffer, i, retStr>>
tcpdumpVars == <<got, end, number, retstring, count>>

vars == <<ask, filefd, alone, pc, nj, calls, argsrecv, fds, inotifyVars, tcpdumpVars>>

OfInotify(t) == ask[t].library = "inotify"
OfTcpdump(t) == ask[t].library = "tcpdump"

Init == /\ ask \in Workloads
        /\ filefd = [t \in Threads |-> FALSE]
        /\ alone = [t \in Threads |-> TRUE]
        /\ pc = [t \in Threads |-> "idle"]
        /\ nj = "alive"
        /\ calls = [t \in Threads |-> 0]
        /\ argsrecv = [t \in Threads |-> [call |-> 0, text |-> <<>>]]
        /\ fds = 0
        /\ I!InotifyInit
        /\ T!TcpdumpInit

-----------------------------------------------------------------------------
\* The calls of tcpdump that are under way.
Capturing == {t \in Threads : OfTcpdump(t) /\ pc[t] \notin {"idle", "return"}}

\* The loop of np_getnotify_method opens the file, goes on whether it is open or not, and
\* calls getnotify.
Call(t) ==
    /\ I!At(t, "idle")
    /\ calls[t] < ask[t].count
    /\ calls' = [calls EXCEPT ![t] = @ + 1]
    /\ filefd' = [filefd EXCEPT ![t] = fds < FDLIMIT]
    /\ fds' = IF fds < FDLIMIT THEN fds + 1 ELSE fds
    /\ \/ OfInotify(t) /\ I!Goto(t, "inotify_init") /\ UNCHANGED alone
       \/ /\ OfTcpdump(t) /\ I!Goto(t, "pcap_open_live")
          /\ alone' = [u \in Threads |-> IF u = t THEN Capturing = {}
                                         ELSE alone[u] /\ u \notin Capturing]
    /\ UNCHANGED <<ask, nj, argsrecv, inotifyVars, tcpdumpVars>>

\* Faulty variant: the file stays open.
WriteOpen(t) ==
    /\ filefd' = [filefd EXCEPT ![t] = FALSE]
    /\ \/ OfInotify(t) /\ I!ReturnInotify(t) /\ UNCHANGED tcpdumpVars
       \/ OfTcpdump(t) /\ T!ReturnTcpdump(t) /\ UNCHANGED inotifyVars
    /\ UNCHANGED <<alone, fds>>

\* It writes argsrecv to the file if that is open, closes it and signals the APP.
Write(t) ==
    /\ filefd' = [filefd EXCEPT ![t] = FALSE]
    /\ fds' = IF filefd[t] THEN fds - 1 ELSE fds
    /\ \/ OfInotify(t) /\ I!ReturnInotify(t) /\ UNCHANGED tcpdumpVars
       \/ OfTcpdump(t) /\ T!ReturnTcpdump(t) /\ UNCHANGED inotifyVars
    /\ UNCHANGED alone

Packet(t) == T!GotPacket(t) /\ UNCHANGED <<filefd, alone, inotifyVars>>

Directory == (I!DirectoryEvent \/ I!Remove) /\ UNCHANGED <<filefd, alone, tcpdumpVars>>

\* What a thread does on its own.
Thread(t) == \/ I!GetnotifyInotify(t) /\ UNCHANGED <<filefd, alone, tcpdumpVars>>
             \/ T!GetnotifyTcpdump(t) /\ UNCHANGED <<filefd, alone, inotifyVars>>
             \/ Write(t)

Next == \/ Directory
        \/ \E t \in Threads : Call(t) \/ Packet(t) \/ Thread(t)

\* Threads are scheduled; nothing need happen in the directory or on the network.
Spec == Init /\ [][Next]_vars /\ \A t \in Threads : WF_vars(Thread(t))

-----------------------------------------------------------------------------
TypeOK ==
    /\ nj \in {"alive", "exited", "corrupt"}
    /\ \A t \in Threads : calls[t] \in 0..ask[t].count
    /\ fds \in 0..FDLIMIT
    /\ count \in Nat \ {0}
    /\ Len(retstring) <= RETSIZE \/ nj = "corrupt"
    /\ \A t \in Threads :
          /\ argsrecv[t].call \in 0..calls[t]
          /\ filefd[t] \in BOOLEAN
          /\ watching[t] => instance[t]
          /\ queue[t] \in Seq(I!Events \cup {I!Removed})
          /\ i[t] \in 1..Len(buffer[t]) + 1
          /\ retStr[t] < i[t]

\* The calls of t never give back a descriptor.
Leaks(t) == OfInotify(t) \/ ask[t].device = "loopback"

\* The calls made so far that leak one.
Leaking == UNION {{t} \X (1..calls[t]) : t \in {u \in Threads : Leaks(u)}}

\* Two descriptors are left for every thread: of its file, and of its instance or capture.
Room == Cardinality(Leaking) + 2 * Cardinality(Threads) <= FDLIMIT

\* The events of the batch that inotify has a wording for.
Worded(t) == {k \in DOMAIN buffer[t] : buffer[t][k].kind \in Reported}

\* As long as the calls that leak a descriptor have not used up the limit, nobody ends the
\* server but by removing the directory, and a call that returns finds the APP's file open.
\* If it was to capture packets, or inotify has a wording for something in its batch, what
\* NJ writes is from this call; it has read a batch in any case.  (Afterwards the file may
\* not open, a read of inotify fail or a capture not open, and the last notification is
\* written again.)
ServedUntilFull ==
    Room => /\ nj = "exited" => ~exists
            /\ \A t \in Threads : pc[t] = "return" =>
                  /\ filefd[t]
                  /\ OfInotify(t) => buffer[t] # <<>>
                  /\ \/ OfInotify(t) /\ Worded(t) # {}
                     \/ OfTcpdump(t) /\ ask[t].device = "eth"
                     => argsrecv[t].call = calls[t]

\* Of the events of its batch inotify returns the last one that has a wording: that
\* alone reaches the APP, the others are lost.  When none has, what reaches the APP is
\* no result of this call.
LastReported ==
    \A t \in Threads : pc[t] = "return" /\ OfInotify(t) /\ argsrecv[t].call = calls[t] =>
        Worded(t) # {} /\ argsrecv[t].text = <<Max(Worded(t))>>

\* A call of tcpdump that no other overlaps with returns its own packets, numbered
\* from 1, whatever calls have overlapped with one another before.
ExactUnlessOverlap ==
    \A t \in Threads :
        OfTcpdump(t) /\ alone[t] /\ pc[t] = "return" /\ argsrecv[t].call = calls[t] =>
            argsrecv[t].text = [k \in 1..2 * ask[t].num_packets |->
                                  IF k % 2 = 1 THEN T!NumberOf((k + 1) \div 2)
                                               ELSE T!Packet(t, k \div 2)]

\* When no capture is under way the shared buffer is empty and the counter at 1.
CleanWhenIdle == Capturing = {} => retstring = <<>> /\ count = 1

\* A call has what it waits for: inotify a batch whose events all name a file, tcpdump
\* the packets it was to capture.
Ready(t) == \/ pc[t] = "scan" /\ \A k \in DOMAIN buffer[t] : buffer[t][k].named
            \/ pc[t] = "pcap_loop" /\ got[t] = ask[t].num_packets /\ ask[t].num_packets # 0

\* Such a call returns: it goes forward over every event, with a wording or not, and
\* waits for no other call.  (With an event that names no file it never returns.)
Returns == \A t \in Threads : Ready(t) ~> pc[t] = "idle" \/ nj # "alive"
=============================================================================
