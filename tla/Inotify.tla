------------------------------ MODULE Inotify ------------------------------
(***************************************************************************)
(* The inotify provider: getnotify of inotify.c, called by the threads of  *)
(* module Providers, which all ask for the same directory.                 *)
(*                                                                         *)
(* Every call makes an inotify instance, opens the directory as well, and  *)
(* never closes that descriptor; watches the directory; reads what has     *)
(* happened, in one batch; and returns the last event of the batch that it *)
(* has a wording for, or what its variable happens to hold when there is   *)
(* none.  The loop over the batch goes forward only past                   *)
(* events that carry a file name.  Events of the directory itself have     *)
(* none, and opening the directory is such an event for the others.        *)
(***************************************************************************)
EXTENDS Naturals, Sequences

CONSTANTS Threads,
          Kinds,      \* the flags of the table that name events
          Reported,   \* those of them that getnotify has a wording for
          OPEN,       \* IN_OPEN
          OfDirectory, \* the kinds that can happen to the directory itself
          FDLIMIT,    \* how many descriptors the calls can have open
          MaxQueue    \* bound: how many events are queued for a watch

VARIABLES pc,        \* where each thread is
          nj,        \* "alive", "exited" or "corrupt"
          calls,     \* how many calls of getnotify each thread has made
          argsrecv,  \* the notification in args, and the call that put it there
          fds,       \* how many descriptors the calls have opened and not closed
          ask,       \* the request of each thread, with its flags
          exists,    \* the directory exists
          instance,  \* inotify_init has succeeded
          watching,  \* the watch was added
          queue,     \* the events of the instance that were not read
          buffer,    \* the batch that was read
          i,         \* how far the loop has come in it
          retStr     \* the place in it of the event retStr is about; 0: not assigned

server     == <<ask, nj, calls, argsrecv, fds>>
watches    == <<instance, watching, queue>>
locals     == <<buffer, i, retStr>>
inotifyVars == <<exists, watches, locals>>

\* The flags of the table that name no event.
Special == {"IN_DONT_FOLLOW", "IN_EXCL_UNLINK", "IN_MASK_ADD", "IN_ONESHOT", "IN_ONLYDIR"}

\* IN_IGNORED names no file, and is of no kind one can ask for.
Ignored == "ignored"

\* What can happen: to a file of the directory, and to the directory itself.
Events == [kind : Kinds, named : {TRUE}]
          \cup [kind : OfDirectory, named : {FALSE}]

Removed == [kind |-> Ignored, named |-> FALSE]

InotifyInit == /\ exists = TRUE
               /\ instance = [t \in Threads |-> FALSE]
               /\ watching = [t \in Threads |-> FALSE]
               /\ queue = [t \in Threads |-> <<>>]
               /\ buffer = [t \in Threads |-> <<>>]
               /\ i = [t \in Threads |-> 1]
               /\ retStr = [t \in Threads |-> 0]

-----------------------------------------------------------------------------
At(t, place)   == nj = "alive" /\ pc[t] = place
Goto(t, place) == pc' = [pc EXCEPT ![t] = place]

\* getmask: flags that are not in the table are dropped.
GetMask(t) == ask[t].flags \cap (Kinds \cup Special)

\* The watches that see the event, and those of them that are to see one event only.
Seeing(e) == {u \in Threads : watching[u] /\ e.kind \in GetMask(u)}
Spent(e)  == {u \in Seeing(e) : "IN_ONESHOT" \in GetMask(u)}

\* The event is queued.  A watch that is spent is removed, and IN_IGNORED follows the
\* event: in time for the batch it is read with, or not.
Happen(e) ==
    /\ \E ignored \in SUBSET Spent(e) :
          queue' = [u \in Threads |-> queue[u] \o (CASE u \notin Seeing(e) -> <<>>
                                                    [] u \in ignored      -> <<e, Removed>>
                                                    [] OTHER               -> <<e>>)]
    /\ watching' = [u \in Threads |-> watching[u] /\ u \notin Spent(e)]

\* Something happens in the directory, or to it.
DirectoryEvent ==
    /\ nj = "alive" /\ exists
    /\ \A t \in Threads : Len(queue[t]) < MaxQueue
    /\ \E e \in Events : Happen(e)
    /\ UNCHANGED <<pc, server, exists, instance, locals>>

\* The directory is removed, and with it the watches: IN_IGNORED is queued for all.
Remove ==
    /\ nj = "alive" /\ exists
    /\ exists' = FALSE
    /\ queue' = [u \in Threads |-> IF watching[u] THEN Append(queue[u], Removed) ELSE queue[u]]
    /\ watching' = [t \in Threads |-> FALSE]
    /\ UNCHANGED <<pc, server, instance, locals>>

\* inotify_init; a failure is printed.
NewInstance(t) ==
    /\ At(t, "inotify_init")
    /\ instance' = [instance EXCEPT ![t] = fds < FDLIMIT]
    /\ fds' = IF fds < FDLIMIT THEN fds + 1 ELSE fds
    /\ Goto(t, "open")
    /\ UNCHANGED <<ask, nj, calls, argsrecv, exists, watching, queue, locals>>

\* open of the directory, which other watches see; its failure ends the server.
OpenPath(t) ==
    /\ At(t, "open")
    /\ \/ /\ exists /\ fds < FDLIMIT
          /\ fds' = fds + 1
          /\ Happen([kind |-> OPEN, named |-> FALSE])
          /\ Goto(t, "inotify_add_watch")
          /\ UNCHANGED nj
       \/ /\ ~(exists /\ fds < FDLIMIT)
          /\ nj' = "exited"
          /\ UNCHANGED <<pc, fds, queue, watching>>
    /\ UNCHANGED <<ask, calls, argsrecv, exists, instance, locals>>

\* inotify_add_watch fails without anybody noticing.
AddWatch(t) ==
    /\ At(t, "inotify_add_watch")
    /\ watching' = [watching EXCEPT ![t] = instance[t] /\ exists /\ GetMask(t) # {}]
    /\ Goto(t, "read")
    /\ UNCHANGED <<server, exists, instance, queue, locals>>

\* read waits for events and takes them all; of the descriptor -1 it fails, and the
\* call returns what was in args before.
Read(t) ==
    /\ At(t, "read")
    /\ \/ /\ ~instance[t]
          /\ Goto(t, "return")
          /\ UNCHANGED <<queue, buffer, i>>
       \/ /\ queue[t] # <<>>
          /\ buffer' = [buffer EXCEPT ![t] = queue[t]]
          /\ i' = [i EXCEPT ![t] = 1]
          /\ queue' = [queue EXCEPT ![t] = <<>>]
          /\ Goto(t, "scan")
    /\ UNCHANGED <<server, exists, instance, watching, retStr>>

Event(t) == buffer[t][i[t]]

\* Faulty variant: the loop goes forward past the events it has a wording for.
ScanStuck(t) ==
    /\ At(t, "scan")
    /\ i[t] <= Len(buffer[t]) /\ Event(t).named
    /\ IF Event(t).kind \in Reported
       THEN /\ retStr' = [retStr EXCEPT ![t] = i[t]]
            /\ i' = [i EXCEPT ![t] = @ + 1]
       ELSE UNCHANGED <<retStr, i>>
    /\ UNCHANGED <<pc, server, exists, watches, buffer>>

\* Faulty variant: the first event with a wording is reported.
ScanFirst(t) ==
    /\ At(t, "scan")
    /\ i[t] <= Len(buffer[t]) /\ Event(t).named
    /\ retStr' = [retStr EXCEPT ![t] = IF Event(t).kind \in Reported /\ @ = 0 THEN i[t] ELSE @]
    /\ i' = [i EXCEPT ![t] = @ + 1]
    /\ UNCHANGED <<pc, server, exists, watches, buffer>>

\* One round of the loop.  At an event without a name it neither does anything nor
\* goes forward, for ever.
Scan(t) ==
    /\ At(t, "scan")
    /\ i[t] <= Len(buffer[t]) /\ Event(t).named
    /\ retStr' = [retStr EXCEPT ![t] = IF Event(t).kind \in Reported THEN i[t] ELSE @]
    /\ i' = [i EXCEPT ![t] = @ + 1]
    /\ UNCHANGED <<pc, server, exists, watches, buffer>>

\* strcpy of retStr.  When it was never assigned it is what the stack holds there: the
\* text of an earlier call, anything else, or bytes without an end.
CopyResult(t) ==
    \/ /\ retStr[t] # 0
       /\ argsrecv' = [argsrecv EXCEPT ![t] = [call |-> calls[t], text |-> <<retStr[t]>>]]
       /\ UNCHANGED nj
    \/ /\ retStr[t] = 0
       /\ argsrecv' \in {argsrecv, [argsrecv EXCEPT ![t] = [call |-> 0, text |-> <<>>]]}
       /\ nj' \in {nj, "corrupt"}

\* The result is copied, the watch removed and the instance closed: what was queued
\* since the read is lost.  The descriptor of the directory stays open.
Finish(t) ==
    /\ At(t, "scan")
    /\ i[t] > Len(buffer[t])
    /\ CopyResult(t)
    /\ instance' = [instance EXCEPT ![t] = FALSE]
    /\ watching' = [watching EXCEPT ![t] = FALSE]
    /\ queue' = [queue EXCEPT ![t] = <<>>]
    /\ fds' = fds - 1
    /\ Goto(t, "return")
    /\ UNCHANGED <<ask, calls, exists, locals>>

\* The call has returned, and its variables are gone.
ReturnInotify(t) ==
    /\ At(t, "return")
    /\ buffer' = [buffer EXCEPT ![t] = <<>>]
    /\ i' = [i EXCEPT ![t] = 1]
    /\ retStr' = [retStr EXCEPT ![t] = 0]
    /\ Goto(t, "idle")
    /\ UNCHANGED <<ask, nj, calls, argsrecv, exists, watches>>

GetnotifyInotify(t) ==
    NewInstance(t) \/ OpenPath(t) \/ AddWatch(t) \/ Read(t) \/ Scan(t) \/ Finish(t)
=============================================================================
