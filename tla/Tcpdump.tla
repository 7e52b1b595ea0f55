------------------------------ MODULE Tcpdump ------------------------------
(***************************************************************************)
(* The tcpdump provider: getnotify of tcpdump.c, called by the threads of  *)
(* module Providers.                                                       *)
(*                                                                         *)
(* A call captures as many packets as its request says, and got_packet     *)
(* appends the wording of each to retstring, numbered with count.  Both    *)
(* are static: all calls share them, and a call that ends resets them.     *)
(*                                                                         *)
(* retstring is a sequence of pieces of text.  strcat looks for the end of *)
(* the string and then copies, in two steps here; what it copies ends the  *)
(* string, and what it copies behind the end is not part of the string.    *)
(* Two pieces stand for the wording of a packet: its number, and the rest. *)
(***************************************************************************)
EXTENDS Naturals, Sequences

CONSTANTS Threads,
          FDLIMIT,    \* how many descriptors the calls can have open
          RETSIZE     \* how many pieces fit into retstring

VARIABLES pc,        \* where each thread is
          nj,        \* "alive", "exited" or "corrupt"
          calls,     \* how many calls of getnotify each thread has made
          argsrecv,  \* the notification in args, and the call that put it there
          fds,       \* how many descriptors the calls have opened and not closed
          ask,       \* the request of each thread, with its device and num_packets
          got,       \* how many packets the call has got
          end,       \* where strcat has found the end of retstring
          number,    \* the number in the string of the packet
          retstring,
          count

tcpdumpVars == <<got, end, number, retstring, count>>

TcpdumpInit == /\ got = [t \in Threads |-> 0]
               /\ end = [t \in Threads |-> 0]
               /\ number = [t \in Threads |-> 0]
               /\ retstring = <<>>
               /\ count = 1

-----------------------------------------------------------------------------
At(t, place)   == nj = "alive" /\ pc[t] = place
Goto(t, place) == pc' = [pc EXCEPT ![t] = place]

\* The pieces a packet adds to retstring.
NumberOf(n)     == <<"number", n>>
Packet(t, k)    == <<"packet", t, calls[t], k>>

\* pcap_open_live, which fails when there is no such device or no descriptor left; the
\* call returns what was in args before.  So it does when the device is no Ethernet,
\* and then the capture is not closed.
OpenLive(t) ==
    /\ At(t, "pcap_open_live")
    /\ LET opened == ask[t].device # "none" /\ fds < FDLIMIT
       IN  /\ fds' = IF opened THEN fds + 1 ELSE fds
           /\ Goto(t, IF opened /\ ask[t].device = "eth" THEN "pcap_loop" ELSE "return")
    /\ got' = [got EXCEPT ![t] = 0]
    /\ UNCHANGED <<ask, nj, calls, argsrecv, end, number, retstring, count>>

\* strcat finds the end of the string.
FindEnd(t) == end' = [end EXCEPT ![t] = Len(retstring)]

\* strcat copies the piece to where it found the end.  There may be no room.
Copy(t, piece) ==
    /\ end' = [end EXCEPT ![t] = 0]
    /\ nj' = IF end[t] < RETSIZE THEN nj ELSE "corrupt"
    /\ retstring' = IF end[t] <= Len(retstring)
                    THEN Append(SubSeq(retstring, 1, end[t]), piece) ELSE retstring

\* pcap_loop calls got_packet, for num_packets packets; 0 means for ever.  The number is
\* printed into a string of its own.
GotPacket(t) ==
    /\ At(t, "pcap_loop")
    /\ ask[t].num_packets = 0 \/ got[t] < ask[t].num_packets
    /\ number' = [number EXCEPT ![t] = count]
    /\ FindEnd(t)
    /\ Goto(t, "number")
    /\ UNCHANGED <<ask, nj, calls, argsrecv, fds, got, retstring, count>>

\* The number is appended and count goes up.
AppendNumber(t) ==
    /\ At(t, "number")
    /\ Copy(t, NumberOf(number[t]))
    /\ count' = count + 1
    /\ number' = [number EXCEPT ![t] = 0]
    /\ Goto(t, "header")
    /\ UNCHANGED <<ask, calls, argsrecv, fds, got>>

\* The addresses, the protocol and the ports, or that the header is invalid.
Header(t) ==
    /\ At(t, "header")
    /\ FindEnd(t)
    /\ Goto(t, "packet")
    /\ UNCHANGED <<ask, nj, calls, argsrecv, fds, got, number, retstring, count>>

AppendPacket(t) ==
    /\ At(t, "packet")
    /\ Copy(t, Packet(t, got[t] + 1))
    /\ got' = [got EXCEPT ![t] = @ + 1]
    /\ Goto(t, "pcap_loop")
    /\ UNCHANGED <<ask, calls, argsrecv, fds, number, count>>

\* Faulty variant: the count goes on.
CloseKeepsCount(t) ==
    /\ At(t, "pcap_loop")
    /\ ask[t].num_packets # 0 /\ got[t] = ask[t].num_packets
    /\ fds' = fds - 1
    /\ Goto(t, "strcpy")
    /\ UNCHANGED <<ask, nj, calls, argsrecv, got, end, number, retstring, count>>

\* Faulty variant: the handle is closed twice.
CloseTwice(t) ==
    /\ At(t, "pcap_loop")
    /\ ask[t].num_packets # 0 /\ got[t] = ask[t].num_packets
    /\ fds' = fds - 2
    /\ count' = 1
    /\ Goto(t, "strcpy")
    /\ UNCHANGED <<ask, nj, calls, argsrecv, got, end, number, retstring>>

\* pcap_loop returns after num_packets packets; pcap_close, and count is reset.
Close(t) ==
    /\ At(t, "pcap_loop")
    /\ ask[t].num_packets # 0 /\ got[t] = ask[t].num_packets
    /\ fds' = fds - 1
    /\ count' = 1
    /\ Goto(t, "strcpy")
    /\ UNCHANGED <<ask, nj, calls, argsrecv, got, end, number, retstring>>

\* The result is copied ...
Result(t) ==
    /\ At(t, "strcpy")
    /\ argsrecv' = [argsrecv EXCEPT ![t] = [call |-> calls[t], text |-> retstring]]
    /\ Goto(t, "clear")
    /\ UNCHANGED <<ask, nj, calls, fds, tcpdumpVars>>

\* Faulty variant: nothing is cleared.
ClearNothing(t) ==
    /\ At(t, "clear")
    /\ Goto(t, "return")
    /\ UNCHANGED <<ask, nj, calls, argsrecv, fds, tcpdumpVars>>

\* ... and retstring emptied.
Clear(t) ==
    /\ At(t, "clear")
    /\ retstring' = <<>>
    /\ Goto(t, "return")
    /\ UNCHANGED <<ask, nj, calls, argsrecv, fds, got, end, number, count>>

ReturnTcpdump(t) ==
    /\ At(t, "return")
    /\ Goto(t, "idle")
    /\ UNCHANGED <<ask, nj, calls, argsrecv, tcpdumpVars>>

GetnotifyTcpdump(t) ==
    OpenLive(t) \/ AppendNumber(t) \/ Header(t) \/ AppendPacket(t) \/ Close(t)
    \/ Result(t) \/ Clear(t)
=============================================================================
