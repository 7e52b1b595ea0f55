----------------------------- MODULE Getnotify -----------------------------
(***************************************************************************)
(* Requests for notifications.  app_getnotify_method starts a thread for   *)
(* each request; the thread finds the NP and the APP's registration,       *)
(* appends to it, opens the NP's library, and then, as many times as the   *)
(* request says, calls the library's getnotify, writes what it returns to  *)
(* the APP's file <pid>.txt and signals the APP.  In the end it records    *)
(* the file (non-blocking) or connects to a socket of the APP (blocking).  *)
(* nj_exit removes the files that are recorded.                            *)
(*                                                                         *)
(* The registrations change meanwhile, as module Registry says.  The       *)
(* thread searches np_hash with no lock, and only get_reg_hash takes one,  *)
(* which it gives back before the registration it found is used and which  *)
(* unregister_np does not take.  A search in a table that changes may      *)
(* follow freed memory (torn), and so may the use of what was found        *)
(* (stale).  Parsing, the keys of the request other than "count" and the   *)
(* contents of notifications are left out: compare_array accepts or        *)
(* refuses.                                                                *)
(***************************************************************************)
EXTENDS Registry

CONSTANTS Requests,    \* the getnotify requests the clients may send
          Counts,      \* how many notifications a request can ask for
          WithCount,   \* the NPs that were registered with the key "count"
          APPLIMIT,    \* the length of threadarr
          NULL         \* no library was opened

ASSUME GetnotifyAssumption == /\ IsFiniteSet(Requests)
                              /\ Counts \subseteq Nat
                              /\ WithCount \subseteq NPs
                              /\ APPLIMIT \in Nat
                              /\ NULL \notin NPs

VARIABLES handle,      \* the library opened last; NULL at first
          pc,          \* where the thread of each request is
          ask,         \* what each request asks for
          torn,        \* whether what the thread is searching has changed meanwhile
          stale,       \* whether what the thread found in the hashes was freed
          getnotify,   \* the library whose function the thread calls, or NULL
          count,       \* how many notifications the thread still waits for
          files,       \* the APPs whose <pid>.txt exists
          filefd,      \* whether the thread of each request has opened the file
          written,     \* how many notifications were written for each APP
          lost,        \* history: how many notifications for each APP could not be written
          signals,     \* how many SIGUSR1 each APP was sent
          pidfile,     \* the files recorded in PIDFILE
          listening,   \* the APPs whose socket <pid>_sock is bound and listens
          steady       \* history: registered when it asked and ever since, and no
                       \* search of its thread disturbed

registry == <<np_hash, app_count, app_hash, np_list, np_count>>
thread   == <<ask, torn, stale, getnotify, count, steady>>
output   == <<files, filefd, written, lost, signals>>
gvars    == <<registry, nj, handle, pc, thread, output, pidfile, listening>>

Asks  == [app : Apps, np : NPs, count : Counts, type : {"B", "N"}]
NoAsk == [app |-> "none", np |-> "none", count |-> 0, type |-> "none"]

PCs == {"ask", "find", "getreg", "append", "open", "dlsym", "loop", "event",
        "kill", "record", "connect", "done", "fault"}

GInit == /\ Init
         /\ handle = NULL
         /\ pc = [r \in Requests |-> "ask"]
         /\ ask = [r \in Requests |-> NoAsk]
         /\ torn = [r \in Requests |-> FALSE]
         /\ stale = [r \in Requests |-> FALSE]
         /\ getnotify = [r \in Requests |-> NULL]
         /\ count = [r \in Requests |-> 0]
         /\ files = {}
         /\ filefd = [r \in Requests |-> FALSE]
         /\ written = [a \in Apps |-> 0]
         /\ lost = [a \in Apps |-> 0]
         /\ signals = [a \in Apps |-> 0]
         /\ pidfile = {}
         /\ listening = {}
         /\ steady = [r \in Requests |-> FALSE]

-----------------------------------------------------------------------------
App(r) == ask[r].app
Np(r)  == ask[r].np

Asked == {r \in Requests : pc[r] # "ask"}

IsRegistered(r) == r \in Asked /\ Np(r) \in np_list[App(r)]

At(r, place) == nj = "alive" /\ pc[r] = place

\* While nj_exit runs, the threads that write notifications go on.
StillAt(r, place) == nj \in {"alive", "exiting"} /\ pc[r] = place

Goto(r, place) == pc' = [pc EXCEPT ![r] = place]

\* The thread follows a NULL or a freed pointer.
Fault(r) == Goto(r, "fault") /\ nj' = "crashed"

\* A search is over.
Searched(r, place) == /\ Goto(r, place)
                      /\ torn' = [torn EXCEPT ![r] = FALSE]
                      /\ UNCHANGED nj

\* Where np_getnotify_method returns to: proceed_getnotify_method records the
\* file, block_getnotify_method connects.
Caller(r) == IF ask[r].type = "N" THEN "record" ELSE "connect"

\* Faulty variant: nj_exit forgets the files.
ExitKeepsFiles == /\ nj' = "exiting"
                  /\ UNCHANGED output

\* exit calls nj_exit, which removes the recorded files.
Exit == /\ nj' = "exiting"
        /\ files' = files \ pidfile
        /\ UNCHANGED <<filefd, written, lost, signals>>

-----------------------------------------------------------------------------
\* app_getnotify_method: accept, read, and pthread_create into the next place
\* of threadarr, whether there is one or not.  Past the end anything may happen.
Ask(r) ==
    /\ At(r, "ask")
    /\ \E q \in Asks : ask' = [ask EXCEPT ![r] = q]
    /\ \/ Goto(r, "find") /\ UNCHANGED nj
       \/ Cardinality(Asked) >= APPLIMIT /\ Fault(r)
    /\ UNCHANGED <<registry, handle, torn, stale, getnotify, count, output, pidfile, listening>>
    /\ steady' = [steady EXCEPT ![r] = IsRegistered(r)']

\* appGetnotify binds and listens after it has sent a blocking request, and reads
\* for ever.
Listen(r) ==
    /\ nj = "alive"
    /\ r \in Asked /\ ask[r].type = "B"
    /\ listening' = listening \cup {App(r)}
    /\ UNCHANGED <<registry, nj, handle, pc, thread, output, pidfile>>

\* HASH_FIND_STR in np_hash, with no lock, and compare_array.
Find(r) ==
    /\ At(r, "find")
    /\ \/ Np(r) \in np_hash /\ Searched(r, "getreg")
       \/ Searched(r, Caller(r))
       \/ torn[r] /\ Fault(r) /\ UNCHANGED torn
    /\ UNCHANGED <<registry, handle, ask, stale, getnotify, count, steady, output, pidfile, listening>>

\* Faulty variant: get_reg_hash looks at the first registration only.
GetRegFirst(r) ==
    /\ At(r, "getreg")
    /\ \/ np_list[App(r)] = {Np(r)} /\ Searched(r, "append")
       \/ np_list[App(r)] # {Np(r)} /\ Fault(r) /\ UNCHANGED torn
    /\ UNCHANGED <<registry, handle, ask, stale, getnotify, count, steady, output, pidfile, listening>>

\* get_reg_hash, and key_val_ptr of what it returns: NULL when it finds nothing.
GetReg(r) ==
    /\ At(r, "getreg")
    /\ \/ IsRegistered(r) /\ Searched(r, "append")
       \/ (~IsRegistered(r) \/ torn[r]) /\ Fault(r) /\ UNCHANGED torn
    /\ UNCHANGED <<registry, handle, ask, stale, getnotify, count, steady, output, pidfile, listening>>

\* The request is appended to the registration, and converted with the keys of
\* the NP: each may have been freed since it was found, and then be intact or not.
AppendRequest(r) ==
    /\ At(r, "append")
    /\ \/ Goto(r, "open") /\ UNCHANGED nj
       \/ stale[r] /\ Fault(r)
    /\ UNCHANGED <<registry, handle, thread, output, pidfile, listening>>

\* get_np_app_cnt_hash, with no lock; the value of "count" is taken from where the key
\* is found, NULL if it is not there; the library is opened for the first registration.
Open(r) ==
    /\ At(r, "open")
    /\ \/ /\ Np(r) \in WithCount
          /\ \/ app_count[Np(r)] = 1 /\ handle' = Np(r)
             \/ (app_count[Np(r)] # 1 \/ torn[r]) /\ UNCHANGED handle
          /\ Searched(r, "dlsym")
       \/ (Np(r) \notin WithCount \/ torn[r]) /\ Fault(r) /\ UNCHANGED <<handle, torn>>
    /\ UNCHANGED <<registry, ask, stale, getnotify, count, steady, output, pidfile, listening>>

\* dlsym of the handle there is; with none the server exits.
Dlsym(r) ==
    /\ At(r, "dlsym")
    /\ \/ /\ handle = NULL
          /\ Exit
          /\ UNCHANGED <<pc, getnotify, count>>
       \/ /\ handle # NULL
          /\ getnotify' = [getnotify EXCEPT ![r] = handle]
          /\ count' = [count EXCEPT ![r] = ask[r].count]
          /\ Goto(r, "loop")
          /\ UNCHANGED <<nj, output>>
    /\ UNCHANGED <<registry, handle, ask, torn, stale, steady, pidfile, listening>>

\* The head of the loop, and the opening of the file before the wait.  When it cannot
\* be opened the thread goes on with -1 for a descriptor.
Loop(r) ==
    /\ StillAt(r, "loop")
    /\ \/ /\ count[r] # 0
          /\ \/ /\ files' = files \cup {App(r)}
                /\ filefd' = [filefd EXCEPT ![r] = TRUE]
             \/ UNCHANGED <<files, filefd>>
          /\ Goto(r, "event")
       \/ /\ count[r] = 0
          /\ Goto(r, Caller(r))
          /\ UNCHANGED <<files, filefd>>
    /\ UNCHANGED <<registry, nj, handle, thread, written, lost, signals, pidfile, listening>>

\* Faulty variant: the APP is signalled and nothing written.
EventUnwritten(r) ==
    /\ StillAt(r, "event")
    /\ filefd' = [filefd EXCEPT ![r] = FALSE]
    /\ Goto(r, "kill")
    /\ UNCHANGED <<registry, nj, handle, thread, files, written, lost, signals, pidfile, listening>>

\* The library's getnotify returns and its notification is written and the file closed;
\* a failing write is only printed.
Event(r) ==
    /\ StillAt(r, "event")
    /\ \/ /\ filefd[r]
          /\ written' = [written EXCEPT ![App(r)] = @ + 1]
          /\ UNCHANGED lost
       \/ /\ lost' = [lost EXCEPT ![App(r)] = @ + 1]
          /\ UNCHANGED written
    /\ filefd' = [filefd EXCEPT ![r] = FALSE]
    /\ Goto(r, "kill")
    /\ UNCHANGED <<registry, nj, handle, thread, files, signals, pidfile, listening>>

\* Faulty variant: the counter is not the thread's own, as handle is not.
KillCountsAll(r) ==
    /\ StillAt(r, "kill")
    /\ signals' = [signals EXCEPT ![App(r)] = @ + 1]
    /\ count' = [q \in Requests |-> count[q] - 1]
    /\ Goto(r, "loop")
    /\ UNCHANGED <<registry, nj, handle, ask, torn, stale, getnotify, steady,
                   files, filefd, written, lost, pidfile, listening>>

\* kill(pid, SIGUSR1), and the loop counts down.
Kill(r) ==
    /\ StillAt(r, "kill")
    /\ signals' = [signals EXCEPT ![App(r)] = @ + 1]
    /\ count' = [count EXCEPT ![r] = @ - 1]
    /\ Goto(r, "loop")
    /\ UNCHANGED <<registry, nj, handle, ask, torn, stale, getnotify, steady,
                   files, filefd, written, lost, pidfile, listening>>

\* proceed_getnotify_method, also when the request was refused.
Record(r) ==
    /\ At(r, "record")
    /\ pidfile' = pidfile \cup {App(r)}
    /\ Goto(r, "done")
    /\ UNCHANGED <<registry, nj, handle, thread, output, listening>>

\* Faulty variant: connect waits for the client.
ConnectWaits(r) ==
    /\ At(r, "connect")
    /\ App(r) \in listening
    /\ Goto(r, "done")
    /\ UNCHANGED <<registry, nj, handle, thread, output, pidfile, listening>>

\* block_getnotify_method; when nobody listens the server exits.
Connect(r) ==
    /\ At(r, "connect")
    /\ \/ App(r) \in listening /\ Goto(r, "done") /\ UNCHANGED <<nj, output>>
       \/ App(r) \notin listening /\ Exit /\ UNCHANGED pc
    /\ UNCHANGED <<registry, handle, thread, pidfile, listening>>

\* sigint_handler
Sigint == /\ nj = "alive"
          /\ Exit
          /\ UNCHANGED <<registry, handle, pc, thread, pidfile, listening>>

-----------------------------------------------------------------------------
\* Something r has found in the hashes is freed: the node of its NP, or the
\* registration when it is taken out of the list (and not when the whole APP
\* is taken out of the hash).
Freed(r) == \/ pc[r] \in {"getreg", "append"} /\ Np(r) \notin np_hash'
            \/ pc[r] = "append" /\ ~IsRegistered(r)' /\ App(r) \in Registered'

\* What r searches changes: a node is added to np_hash or freed, or unregister_np frees a
\* name in the list of its APP; every other change of a list holds app_hash_lock.
Disturbed(r) == /\ np_hash' # np_hash
                /\ \/ pc[r] \in {"find", "open"}
                   \/ pc[r] = "getreg" /\ np_list'[App(r)] # np_list[App(r)]

\* A handler of module Registry runs.
Registration ==
    /\ Next
    /\ UNCHANGED <<handle, pc, ask, getnotify, count, output, pidfile, listening>>
    /\ torn' = [r \in Requests |-> torn[r] \/ Disturbed(r)]
    /\ stale' = [r \in Requests |-> stale[r] \/ Freed(r)]
    /\ steady' = [r \in Requests |-> steady[r] /\ IsRegistered(r)' /\ ~Disturbed(r)]

\* What the thread of a request does without waiting for anybody else.
Thread(r) == \/ Find(r) \/ GetReg(r) \/ AppendRequest(r) \/ Open(r) \/ Dlsym(r)
             \/ Loop(r) \/ Kill(r) \/ Record(r) \/ Connect(r)

GNext == \/ Registration
         \/ Sigint
         \/ \E r \in Requests : Ask(r) \/ Listen(r) \/ Event(r) \/ Thread(r)

\* The thread of a request is scheduled; clients need not ask or listen, and
\* there need not be any events.
GFairness == \A r \in Requests : WF_gvars(Thread(r))

GSpec == GInit /\ [][GNext]_gvars /\ GFairness

-----------------------------------------------------------------------------
GTypeOK == /\ handle \in NPs \cup {NULL}
           /\ pc \in [Requests -> PCs]
           /\ ask \in [Requests -> Asks \cup {NoAsk}]
           /\ \A r \in Requests : ask[r] \in IF r \in Asked THEN Asks ELSE {NoAsk}
           /\ torn \in [Requests -> BOOLEAN]
           /\ stale \in [Requests -> BOOLEAN]
           /\ steady \in [Requests -> BOOLEAN]
           /\ getnotify \in [Requests -> NPs \cup {NULL}]
           /\ count \in [Requests -> Nat]
           /\ files \subseteq Apps
           /\ filefd \in [Requests -> BOOLEAN]
           /\ written \in [Apps -> Nat]
           /\ lost \in [Apps -> Nat]
           /\ signals \in [Apps -> Nat]
           /\ pidfile \subseteq Apps
           /\ listening \subseteq Apps
           /\ nj \in {"alive", "crashed", "exiting"}

\* The notifications of a request that its APP was signalled, those it has counted down;
\* all that an APP was signalled; and the requests that have written, or lost, one and not
\* signalled.
Notified(r)   == IF getnotify[r] # NULL THEN count[r] + 1 .. ask[r].count ELSE {}
Sent(a)       == UNION {{r} \X Notified(r) : r \in {q \in Asked : App(q) = a}}
OnTheirWay(a) == {r \in Asked : App(r) = a /\ pc[r] = "kill"}

\* An APP is sent as many signals as its requests have counted down.  For each there is a
\* notification in its file, unless the file could not be opened or written: the APP is
\* signalled then all the same.  So the k-th signal never comes before the k-th
\* notification was written or lost, however many requests share the file.
Tally == \A a \in Apps : /\ signals[a] = Cardinality(Sent(a))
                         /\ written[a] + lost[a] = signals[a] + Cardinality(OnTheirWay(a))

\* nj_exit leaves no file behind but of requests it interrupted and of blocking
\* ones, whose files are never recorded.
FilesRemoved ==
    nj = "exiting" => \A a \in files : \E r \in Asked : /\ App(r) = a
                                                        /\ pc[r] # "done" \/ ask[r].type = "B"

\* A request does not bring the server down by following a NULL or freed pointer, as long
\* as its APP is registered when it asks and ever after, no handler changes what the thread
\* is searching with no lock that keeps it out, the NP was registered with "count", and
\* threadarr has room.  Once the searches are over, other registrations may come and go
\* while the thread uses what it found.
SteadySafe == \A r \in Requests :
                 steady[r] /\ Np(r) \in WithCount /\ Cardinality(Asked) <= APPLIMIT
                    => pc[r] # "fault"

\* If the events a request waits for happen, the request ends, unless the server
\* exits or crashes: no request waits for another one.
Finishes ==
    (\A r \in Requests : WF_gvars(Event(r)))
       => \A r \in Requests : pc[r] = "find" ~> pc[r] = "done" \/ nj # "alive"

\* A request's thread "opens the NP library and calls specific function of NP"
\* (nj.h:120): of the NP that the request names.
RightProvider == \A r \in Asked : getnotify[r] \in {Np(r), NULL}
=============================================================================
