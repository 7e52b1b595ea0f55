---------------------------- MODULE MCProviders ----------------------------
(* The requests with which TLC checks Providers. *)
EXTENDS Providers

CONSTANTS t1, t2

InotifyAsk(flags) == [library |-> "inotify", count |-> 2, flags |-> flags,
                      device |-> "none", num_packets |-> 0]

TcpdumpAsk(times, dev, n) == [library |-> "tcpdump", count |-> times, flags |-> {},
                                   device |-> dev, num_packets |-> n]

All == InotifyAsk({"IN_OPEN", "IN_ATTRIB"})

\* Both threads use inotify, or tcpdump, or each its own.
Pairs == {<<All, All>>,
          <<All, InotifyAsk({"IN_ATTRIB", "IN_BOGUS", "IN_ONESHOT"})>>,
          <<InotifyAsk({"IN_BOGUS"}), TcpdumpAsk(2, "eth", 1)>>,
          <<TcpdumpAsk(2, "eth", 2), TcpdumpAsk(1, "eth", 1)>>,
          <<All, TcpdumpAsk(2, "eth", 0)>>,
          <<All, TcpdumpAsk(2, "eth", 2)>>,
          <<All, TcpdumpAsk(2, "loopback", 1)>>,
          <<All, TcpdumpAsk(1, "none", 1)>>}

MCWorkloads == {[t \in Threads |-> IF t = t1 THEN p[1] ELSE p[2]] : p \in Pairs}
=============================================================================
