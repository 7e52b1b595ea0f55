# Notification-Junction: a formal model

TLA+ modules, TLC runs and machine-checked proofs about the Notification-Junction
(NJ), the server of `nj.c` that brings applications (APPs) and notification
providers (NPs) together.

## 1. The system

NJ is one process. `main` binds one Unix socket per kind of request and starts one
thread per socket; each thread accepts a connection, reads one request, calls its
handler and accepts again. The clients do not wait for an answer. An APP is
registered with an NP, and then asks for notifications (`getnotify`): NJ opens the
NP's shared library, calls its `getnotify` function and hands the result to the APP,
through a file and a signal (non-blocking) or through a socket of the APP (blocking).

| component | state | operations | interacts through |
|---|---|---|---|
| reader-writer lock (`rdwr_lock.c`) | `readers_reading`, `writer_writing`, a mutex, a condition variable | `rlock`, `wlock`, `runlock`, `wunlock` | called by the hashes |
| registration handlers (`nj.c`) | none of their own | `register_np`, `unregister_np`, `register_app`, `unregister_app` | the two hashes, shared by all threads |
| APP hash (`app_dcll.c`) | a node per APP with the list of the NPs it registered with and `np_count` | `add_app_ref_hash`, `del_app_ref_hash`, `get_reg_hash`, `print_hash_app` | `app_hash_lock` |
| NP hash (`np_dcll.c`) | a node per NP with `app_count` and its keys | `add_np_to_hash`, `del_np_from_hash`, `incr_np_app_cnt_hash`, `get_np_app_cnt_hash`, `print_hash_np` | `np_hash_lock` |
| notification requests (`nj.c`) | a thread per request, the library handle, `pid.txt` files | `app_getnotify_method`, `proceed_`, `block_`, `np_getnotify_method` | the hashes, `dlopen`, files, signals, sockets |
| key-value handling (`nj.c`) | the position of `strtok`, which is static | `extract_key_val`, `compare_array`, `forward_convert`, `get_val_from_args` | called by the handlers; the providers have their own `getValFromArgs` |
| start and exit (`nj.c`) | the list of pid files | `main`, `sigint_handler`, `nj_exit` | all of the above |
| statistics (`nj.c`, `stats.c`) | the names `./statsock` and `./statsockprint` | `print_stat_method`, `print_stat`, the `stats` client | NJ connects back to the name all clients share |
| list mode (`app_dcll.c`, `np_dcll.c`) | doubly linked lists | `add_np`, `del_np`, `add_app_ref`, ... | replaced by the hashes, no caller left |
| client library (`nj_nonblocklib.c`) | none | `appRegister`, `appUnregister`, `appGetnotify` | the sockets |
| inotify provider (`inotify.c`) | descriptors it opens and forgets | `getnotify`, `getmask` | called by `np_getnotify_method`; the kernel's event queues |
| tcpdump provider (`tcpdump.c`) | `retstring` and `count`, static | `getnotify`, `got_packet` | called by `np_getnotify_method`; libpcap |

The command-line clients, the graphical clients and the shell tests only send
requests. `uthash.h` is a vendored library.

### What is hard, and what makes each part correct

* **Lock.** A wakeup that is lost or goes to the wrong thread blocks a handler for
  ever; a spurious one must not let two threads in. Correct: writers are alone, the
  counters count the holders, a free lock is given to somebody who wants it.
* **Registration.** The handlers take `app_hash_lock` and `np_hash_lock` only inside
  the functions of the two hashes. The lookup of the NP, the counting, and the whole
  walk of `unregister_np` happen outside. Correct: no APP lists an NP that is gone,
  the counters agree with the lists, a request takes effect as if it were alone,
  every handler gives its locks back.
* **Notification requests.** One global library handle, an index that only grows, a
  client that listens after it asked, files recorded after they were written.
* **Key-value handling.** A request is accepted exactly when the NP knows its keys,
  and the library gets the request's values and the NP's defaults for the rest. It is
  hard because every thread uses `strtok`, because the reading of a value runs on
  to a `#` that must be there, and because keys are searched as text.
* **Providers.** They are called by many threads and keep static state, or leak
  descriptors, and their caller cannot tell a call that failed. Correct: a
  notification is the call's own, and a call ends when it has what it waits for.
* **Statistics.** All clients bind one name, and only the failing `bind` keeps them
  apart. Correct: a report goes to who asked, and the name is free again afterwards.
* **Exit.** The hashes are freed while the handlers run.

`PROJECT.json` lists each hazard at its line, with the properties that cover it.

## 2. The modules

| module | models | extends / instances |
|---|---|---|
| `RdwrLockSpec` | what a lock promises: requests, grants, releases | |
| `RdwrLock` | `rdwr_lock.c`, a step per access to shared state | implements `RdwrLockSpec` |
| `RdwrLockProofs` | theorems about `RdwrLock` | `RdwrLock`, TLAPS |
| `Registry` | the four registration handlers, each one atomic action | |
| `RegistryProofs` | theorems about `Registry` | `Registry`, TLAPS |
| `Junction` | the handler threads, interleaved, with the locks they take | implements `Registry` |
| `JunctionProofs` | theorems about `Junction` | `Junction`, TLAPS |
| `Getnotify` | the threads of getnotify requests, beside changing registrations; exit | `Registry` |
| `GetnotifyProofs` | theorems about `Getnotify` | `Getnotify`, `RegistryProofs` |
| `KeyVals`, `MCKeyVals` | the key-value functions, called by threads that share `strtok` | |
| `KeyValsProofs` | theorems about `KeyVals` | `KeyVals`, TLAPS |
| `Inotify`, `Tcpdump` | the `getnotify` of each provider, step by step | |
| `Providers`, `MCProviders` | the loop of `np_getnotify_method` around both providers | instances of `Inotify` and `Tcpdump` |
| `ProvidersProofs` | theorems about `Providers` | `Providers`, TLAPS |
| `Statistics` | `stats.c` and `print_stat_method` | |
| `StatisticsProofs` | theorems about `Statistics` | `Statistics`, TLAPS |
| `Dcll` | the doubly linked rings of list mode: insertion, removal, search | |
| `ListMode` | what the two lists have in common: the threads and the shared variables | `Dcll` |
| `NpDcll`, `AppDcll` | the functions of the two lists, interleaved | `ListMode` |
| `DcllProofs` | theorems about them | `NpDcll`, `AppDcll`, TLAPS |

**RdwrLock.** `pc[t]` says where thread t is: outside (`idle`, `read`, `write`), about
to lock the mutex (`rlock`, `wlock`, `runlock`, `wunlock`), inside
`pthread_cond_wait` (`rwait`, `wwait`), or with the mutex held (`rtest`, `wtest`,
`rdec`, `wclr`). `RTest` and `WTest` are the `while` loops of `rlock` and `wlock`:
they either count the thread in, or release the mutex and block in one step, as
`pthread_cond_wait` does. `lock_free` is the set of blocked threads; a signal takes
one out, a broadcast all, and `SpuriousWakeup` any. A woken thread must get the
mutex again (`TakeMutex`) and tests again.

**Registry.** `np_hash` is the set of NPs, `app_hash` the sequence of APPs in the
order of uthash's iteration, `np_list[a]` and `np_count[a]` the trailing list of an
APP and its counter, `app_count[n]` that of an NP. A request that a handler refuses
changes nothing and is a stutter. `unregister_np` is translated as it is: its `flag`
is not reset between APPs, so the first APP decides whether it gives up (`GivesUp`),
a later APP without the NP makes it follow NULL (`Hopeless`) unless its `np_count` is
1, in which case its single registration goes (`Unlisted`). The name of a request
that gives no NP is the empty string, which `register_app` adds to the list like any
other name (`NoNp`).

**Junction.** Here the hash of APPs is memory: `node[k]` is the node at address k,
`live` says which nodes are in the hash, `head` and `next` are uthash's links. A node
that `unregister_app` takes out is not freed and keeps its `next`, so
`unregister_np`, which walks without a lock, can stand on it. The threads' steps are:
`Accept`; `Find` (the lookup of the NP, no lock); `AppWlock`, and under `app_hash_lock`
`Add` and `Count`, or `Del`; `Incr` (counting, no lock); `NpWlock` and `Insert` or
`Erase` (under `np_hash_lock`); `Walk` and `WalkEnd` (one iteration of `unregister_np`);
`PrintNps`. `add_app_ref_hash` publishes the name first, in a new node with `np_count` 0
or at the end of a list (`Add`), and counts it afterwards (`Count`, which gives the lock
back): `unregister_np` sees the state in between. `del_app_ref_hash` has no such state
that another handler could act on without a race. The locks are the abstract ones of
`RdwrLockSpec`.

*Data races.* A step is indivisible, although the code does not make it so where no
lock is held. Two threads about to touch the same memory are in a race (`AppRace`,
`NpRace`): both write the list or the counter of one node (`Changes`), or one frees a
name (`Frees`) in a list that the other searches or prints (`Reads`; `print_hash_app`
runs at the end of three handlers, in `del_app_ref_hash` with the lock held). A walk that
finds nothing and gives up changes and frees nothing. In a race either may go first, or
`Corrupt` may happen, after which the model says nothing: `nj = "corrupt"` is final. So
every result about `Junction` holds up to the first race that mixes two steps.

*History.* `overlapped` collects the NPs for which a `register_app` and an
`unregister_np` were under way at the same time; no action reads it.

**Getnotify.** Extends `Registry`: a handler of `Registry` may run between any two
steps of a request's thread (`Registration`). `pc[r]` follows the thread of request r:
`find` (the NP, no lock), `getreg` (`get_reg_hash`, under its lock), `append` (the
request is put into the registration found before), `open` and `dlsym` (the global
`handle`), `loop`, `event`, `kill` (once per notification), then `record` for a
non-blocking and `connect` for a blocking request. `find` and `open` search `np_hash`
with no lock, and `getreg` walks a list that `unregister_np` does not take the lock for:
when a handler changes what a thread is searching (`Disturbed`), `torn[r]` says so, and
the search may find nothing, what is there, or freed memory. What a thread found in the
hashes may be freed before it uses it; `stale[r]` says so, and the use is then either
harmless or a crash. `Ask` past the end of `threadarr` is likewise one or the other. An
NP registered without the key "count" (not in `WithCount`) makes `Open` follow NULL.
`filefd[r]` says whether the file could be opened; `Event` writes the notification, or
loses it when the file is not open or the write fails (`lost`, history), and `Kill`
signals either way.
`Exit` is `exit` with its handler `nj_exit`, reached from SIGINT, from a missing
library and from a refused connection; threads that use no hash go on while it runs
(`StillAt`). `steady[r]` is history: the APP has been registered with the NP ever
since it asked, and no search of its thread was disturbed.

**KeyVals.** A text is a sequence of elements, each a key with a value or a bare one
without `::`. `save` is the static position of `strtok`: in whose text it is and what
is left there. `FirstToken` sets it and `NextToken` goes on from wherever it is, so a
thread inside `extract_key_val` (`pc[t] = "next"`) can take the elements of another
text, or run into what `extract_key` has left (`Junk`), or into an array of a function
that has returned (`Left`: anything). `Accepts` is `compare_array`, `ForwardConvert`
the function of that name; `argssend[r].hash` says that a `#` stands behind the end of
the string. `ValFromArgs` is `get_val_from_args`: the first element whose key is the
one searched, or only ends with it (`EndsWith`), read up to a `#`; without one, or
without an element, the result is `FAULT`. `alone[t]` is history: nobody else called
`strtok` while t took its text apart.

**Providers.** `Call` and `Write` are the loop of `np_getnotify_method`: it opens the
APP's file, which takes one of the server's descriptors too, or goes on without
(`filefd`), calls the library, writes `args->argsrecv`, whatever it holds, and closes
the file. Between them `Inotify` goes through `inotify_init`, `open`,
`inotify_add_watch`, `read`, one round of the loop per event (`Scan`) and `Finish`;
`Tcpdump` opens the capture and gets its packets, each with two `strcat`s that find the
end of `retstring` in one step and copy in another. When inotify has a wording for no
event of the batch, `CopyResult` copies `retStr` as the stack has it: `argsrecv` is then
what it was before, or some other text, and without an end the copy overruns it. The
kernel's part (`DirectoryEvent`, `Remove`) puts events into the queue of every watch
that asks for them; `OpenPath` is such an event too, for the watches of the others; a
watch with IN_ONESHOT is removed after its first event, and IN_IGNORED follows.
`argsrecv[t].call` records which call put the notification there, and `alone[t]` that no
other call of tcpdump overlapped with this one; no action reads either. Text past the
end of `retstring`, or a `retStr` without an end, is `nj = "corrupt"`.

**Statistics.** `file` says whose socket `./statsockprint` is, `statsock` is the queue
of connections to `./statsock`, `msgsock` the one in hand, `target` the client NJ has
connected to. A client goes `bound`, `listening`, `connected`, `asked`, `reading`,
`done`; NJ `accept`, `read`, `connect`, `print`, `unlink`, `close`. `End` is the end of
the process: the connections are closed, the names stay. `Start` unlinks them;
`overtaken` remembers the clients that were on their way then.

**List mode.** `list` is the list with its links, `order` (history) the sequence of the
nodes that were inserted and not taken out; `NpCall` and `AppCall` are the steps of a
thread in one of the functions of each list. Each function searches first (`SearchNp`,
`SearchApp`), gives the lock back, and does the rest under the lock in a step of its
own; `temp[t]` is what it has found, which in between may be freed (`Stale`), or be
freed and used again for another node. `Unlinked` has the counter it decides with as a
parameter, because `del_np` counts down before it decides and the others after.
`Miscounts` says when that goes wrong. `Meant` is the registration `del_app_ref` takes
out: the only one, whatever its name. `joined` (history) are the nodes inserted together
with a registration.

## 3. The runs

| run | instance | result |
|---|---|---|
| `rdwr_lock` | 4 threads, each may read and write | all properties hold |
| `registry` | 3 APPs, 2 NPs, counters up to 3 | all properties hold |
| `junction` | 2 APPs, 2 NPs; `app_reg`, `app_unreg`, `np_reg`; 5 requests | all properties hold |
| `junction_overlap` | 2 APPs, 1 NP; all four handlers; 5 requests | all properties hold |
| `stays_alive` | as `registry` | violated, see 6 |
| `app_hash_protected` | as `junction_overlap` | violated, see 6 |
| `getnotify` | 1 APP, 1 NP, 2 requests for 2 notifications each, 1 place in `threadarr` | all properties hold |
| `getnotify_steady` | 2 APPs, 2 NPs, one without "count", 1 request | holds |
| `right_provider` | 1 APP, 2 NPs, 2 requests | violated, see 6 |
| `key_values` | 1 registration (6 texts), 2 requests (10 texts, 1 text), 4 keys | all properties hold |
| `providers` | 2 requests in 8 combinations, 6 descriptors, queues of 2, room for 5 pieces of text | all properties hold |
| `statistics` | 3 clients, 2 starts of NJ | all properties hold |

**rdwr_lock.** Safety: `Exclusion`, `CountsAccurate`, `NoLostWakeup`, and
`ReadersBlockOnlyOnWriter`, which is why the single signal of `runlock` is enough:
whoever is blocked when the last reader leaves is a writer. `Implements`: the lock
implements `RdwrLockSpec`, and a lock that can be granted is granted to somebody.
`Served`: readers can starve a writer, so a request is not always granted; once no
new request comes and holders let go, every request is. Four threads give two readers
and two writers, or a writer and three readers, at once: enough for a signal that can
reach the wrong thread and for a thread that barges in between a wakeup and its test.

**registry.** The two hashes agree with each other in every order of requests:
`np_count` is the length of the list although `unregister_np` decrements it for every
APP; no list dangles although an NP goes by way of a walk with a broken flag;
`app_count` is never too low, also for an NP that goes and comes back; when every APP
lists the NP, `unregister_np` does exactly what it should. Three APPs are a first, a
middle and a last one for the walk; two NPs give an APP with another registration
than the one that goes. `MaxCount` stops registrations with an NP when its counter,
which only grows, has reached 3; the proofs have no such bound in mind, `MaxCount` is
any natural number there.

**junction.** Without `unregister_np`, interleaving adds nothing: each request takes
effect at once at some point while it is handled (`ImplementsRegistry`: every step of
the threads is a step of `Registry` or a stutter, with the registration that is not
counted yet seen as counted). With `unregister_np` it would not be so: a lookup can
be stale. Five requests (`MaxRequests`) are enough to register two NPs and an APP with both,
with a further request in between.

**junction_overlap.** What the missing locks can do, and no more: a registration can
dangle, or be missing from `app_count`, only if it was made while its NP was being
unregistered (`NoDanglingUnlessOverlap`, `CountedUnlessOverlap`; both are violated
without the condition). `NpCountCovers`: `np_count` is never less than the length of the
list, the name about to be counted aside, although `unregister_np` decrements it between
the adding and the counting; it can be too high for good, when `unregister_np` finds it
at 1 and drops a list to which a second name was just added. Too low, it would make
`unregister_np` drop the registrations of other NPs. `Linked`: the walk, which can stand
on a node taken out of the hash, always follows links to later nodes and ends.
`Handled`: every accepted request is handled; no error path of the four handlers keeps a
lock. One NP is enough, for all the steps that race concern one NP; with 2 NPs the run
also passes, but takes longer.

**getnotify.** Two requests of one APP share its file and its signal. `Tally`: there is
one signal for each notification a request has counted down, and the k-th signal comes
after the k-th notification is in the file, or was lost because the file could not be
opened or written, however the two threads interleave. `FilesRemoved`: what exit leaves
behind belongs to requests it interrupted or to blocking ones, whose files nobody
records. `Finishes`: given its events, a request ends unless the server does; in
particular a blocking request never waits for its client. One APP and one NP are enough
for what two requests share; requests for two notifications go round the loop.
`APPLIMIT` is 1 here so that the second request is past the end of the array.

**getnotify_steady.** `SteadySafe`: a request of an APP that stays registered, with an NP
that has "count", follows no NULL or freed pointer unless a handler changes `np_hash` or
the APP's list while the thread searches them. In particular what it found stays good
after the search, whatever happens then to the other APPs and the other NP. Without
any one of these conditions the run finds a crash; the fourth, that `threadarr` has room,
matters to the proof, for with one request it always has. One request is enough: a
second one only makes the registration's list of requests longer. Two APPs and two NPs
give it something to survive.

**key_values.** The registration of an NP and two requests are taken apart at the same
time. `AcceptedRight` and `LookupRight` compare what comes out with a reference
definition over the texts, for the requests nobody disturbed: the request's value, else
the NP's default, for every key in every order, with repeated keys, with bare elements
around them. `LookupRight` names the two cases in which the code does otherwise: a key
whose name ends a longer key's, and the last key in tcpdump's copy, which has no `#`
behind its end. `TypeOK` and `ProviderKeys` hold also for disturbed requests: whatever
`strtok` mixes up, the arrays have room for it, and the library gets the NP's keys in
the NP's order. Three texts at once make a thread lose its place to a request and to
the registration; three keys of which one ends like another, beside the name, are what
`strstr` and `forward_convert` distinguish.

**providers.** `LastReported`: of a batch exactly the last event with a wording is
reported; what else happened is lost. When there is none, what is written is no result
of this call. `ServedUntilFull`: while the calls that leak have left two descriptors for
every thread, no `open` ends the server (unless the directory is gone), the APP's file
is open whenever a call returns, and what is written is from that call if it was to
capture packets, or inotify has a wording for something in its batch. The run also goes
past that point, where the last notification is written again, the file does not open,
or the server exits. `ExactUnlessOverlap` and `CleanWhenIdle`: a capture that overlaps
with no other returns its own packets numbered from 1, whatever overlapping captures
have done to the buffer before. `Returns`: a call with what it waits for ends. Batches
of two events have a wording, none, or one followed by none; two requests of two calls
each let a call overlap with the end of another and with the beginning of the next; with
six descriptors there is room at first for both threads, and none before the last call.
One of the workloads has IN_ONESHOT and a flag that `getmask` does not know.

**statistics.** Without kills and restarts, any number of clients at once are served one
after the other. `OwnReport`, `Robust`, `NameFreed` and `Answered` say which guarantee
survives what: a client on its way when NJ starts has lost its name, so its report goes
to the next client, that one's to the one after, or NJ exits; a client that was killed
makes NJ exit when its turn comes. Three clients are one that is served and two that
meet at the name; two starts give a restart. The queue of 32 of `listen` is never full.

**Fairness.** `RdwrLock`: weak fairness of what a thread does inside one of the four
functions (`Inside`): the kernel schedules every thread, and the mutex goes to
somebody, in no promised order. Nothing is assumed of holders or of callers, and
spurious wakeups are finitely many. `Junction`: weak fairness of each thread's next
step; no fairness of `Accept`, since no client has to send anything.
`Getnotify`: weak fairness of each thread's step; none of `Ask`, of `Listen` or of
`Event`, for clients and providers promise nothing (`Finishes` assumes the events it is
about). `Providers`: weak fairness of each thread's own steps; none of events, packets
or the next call. `Statistics`: weak fairness of NJ's thread and of each client that was
started; none of starting, stopping or killing. `CHECK_DEADLOCK FALSE` in all runs but
`rdwr_lock`, because there NJ really stops: after a crash, or when no more requests come.

## 4. The proofs

`RdwrLockProofs`, for every finite set of threads: `LockInvariant` proves the
inductive invariant `IInv`, the conjunction of the type invariant and the four safety
invariants. None of the four is inductive alone: a reader that leaves keeps
`CountsAccurate` only because of `Exclusion` and the types, `NoLostWakeup` survives
the single signal of `runlock` only because of `ReadersBlockOnlyOnWriter`, and both
need the counters to say who holds the lock (`CountsSayWhoHolds`). There is one lemma
per action. `LockTypeOK`, `LockExclusion`, `LockCounts`, `LockNoLostWakeup` and
`LockReadersBlockOnlyOnWriter` follow. `LockRefines` proves that every step is a step
of `RdwrLockSpec` or a stutter, that is, the safety part of `Implements`.

`RegistryProofs`, for every finite set of APPs and NPs and every `MaxCount`:
`RegistryInvariant` with `IInv`, again the conjunction of the invariants. They lean on
one another: no list dangles after `unregister_np` only because `np_count` is the
length of the list, so that the `np_count == 1` branch empties a list of one name;
`app_count` starts at 0 for an NP that comes back, which is not too low only because
nothing dangles. `RegistryUnregisterNpExact` proves the action property from it.

`JunctionProofs`, for any APPs, NPs, set of handlers and number of requests: what the
runs check with two APPs and one NP. `JInv` has the nodes in the order of their addresses
(`InOrder`), says that a handler about to register has found its NP (`LookedUp`), and that
a walk and a registration of one NP at a time are recorded (`OverlapSeen`). The hard part
is `unregister_np`, which holds no lock while nodes are added behind it and taken out from
under it: its cursor may be on a node that has left the hash and still points to another
that has left since. `WalkSees` says what is true all the same: some set of addresses
holds the cursor, is closed under `next`, and no node in it, in the hash or not, leads
past an APP that lists the NP (`LeadsTo`). A node that is taken out keeps that by what it
points to, a new one because it does not list the NP unless they overlap. At the end of
the walk nobody lists the NP, and `NoDanglingUnlessOverlap` survives its removal;
`CountedUnlessOverlap` leans on it when the NP comes back with `app_count` 0.
`JunctionTypeOK`, `JunctionLinked`, `JunctionNoDangling` and `JunctionCounted` follow.
`JInv` says nothing of `np_count`. `JunctionNpCount` has an invariant of its own on top of
it, `CountInv`: a handler between `Add` and `Count` holds `app_hash_lock` (`LockHeld`), no
APP has two nodes in the hash (`OneNode`), so the name that is not counted yet is in one
known list; and `NpCountCovers` itself, which a walk keeps because it takes one name
away for the one it counts down, or all of them.

`JunctionImplementsRegistry` proves the whole of `ImplementsRegistry` when `np_unreg` is
not among the handlers: up to a race, every step of the threads is one request of
`Registry`, handled at once, or changes nothing in it. A registration takes effect when
it is added to the APP's list, an NP when it is inserted; the counts that come later are
already in the mapped `np_count` (`Counts`) and `app_count` (`Pending`). The mapping
turns the nodes in the hash into the sequence of their APPs, in the order of their
addresses (`Ascending`); that there is exactly one such sequence is an induction over
the set of nodes, for which the proof takes the node that was added last. `RInv` adds to
`JInv` and `CountInv` that what a handler has found is still registered when it uses it
(`Known`), which is where `unregister_np` is excluded.

`GetnotifyProofs`, for every finite set of requests, APPs and NPs, any counts and any
`APPLIMIT`: `GInv` keeps Registry's `IInv` until the server exits (`Sound`) and adds
where a thread may be with what it holds (`Placed`), whose each file is (`FilesKnown`)
and what a steady request still has (`SteadyKept`): its registration, nothing `stale` and
nothing `torn`. `SteadySafe` leans on `NoDangling`: `GetReg` and `AppendRequest` use, with
no lock, what `Find` found in `np_hash`, and an NP that an APP still lists cannot have left
it. It assumes that nothing a search goes through changes during it, for with no lock
nothing keeps a handler out there. Past the end of `threadarr` it promises
nothing, and `Cardinality(Asked)` says when that is. `GetnotifyTypeOK`,
`GetnotifyFilesRemoved` and `GetnotifySteadySafe` follow. `GetnotifyTally` needs in
addition that a thread has a library while it counts down, and never more to do than it was
asked for (`Started`). What was sent is a set of numbered notifications, not a sum: a signal
adds the one whose number the request's counter has reached, which is new, and takes its
request from those that are on their way. What is written or lost is ahead of the signals
by these.

`KeyValsProofs`, for any threads, keys, values and texts whose first element is the name of
the NP, and whatever `strtok` mixes up: `KInv` says of each thread that the tokens it has
taken fit into the arrays `extract_key_val` made from its own text, whichever text they
come from (`Fits`), and, if nobody disturbed it, that they and what `strtok` has left are
its text (`Taken`); that the NP's array is made once (`Stored`); and that what was accepted
and looked up still follows from the arrays (`Decided`, `LookedUp`). A step of one thread
changes nothing of another's but the position of `strtok`, and then the other is disturbed
(`OthersKeep`), so each step is proved for the thread that takes it. `KeyValsTypeOK`,
`KeyValsProviderKeys`, `KeyValsAcceptedRight` and `KeyValsLookupRight` follow, the last
from what `forward_convert` and `get_val_from_args` compute for any two arrays
(`ForwardConvertIs`, `FirstIs`, `FirstOfBoth`).

`ProvidersProofs`, for any finite set of threads, any workloads, any limit of
descriptors, size of `retstring` and length of the kernel's queues: `PInv` says of each
thread where it may be and that it delivers each call at most once (`Placed`, `Called`),
that only an open instance has a watch and events (`Watches`), that `retStr` is about
the last event with a wording of those the loop has come past, or not assigned
(`Scanned`), and that a call of tcpdump nobody has overlapped with has the shared buffer
for itself, filled as far as it has come (`Exact`). Between the threads it says that the
buffer and the counter are only in disorder while somebody is under way who will reset
them (`Shared`), and that the descriptors in use suffice for those that will be closed
(`Counted`). `ProvidersTypeOK`, `ProvidersCleanWhenIdle`, `ProvidersLastReported` and
`ProvidersExactUnlessOverlap` follow. `ProvidersServedUntilFull` needs the opposite
bound: no more descriptors are in use than the calls that leak and the calls under way
account for, among these two of each thread, of its file and of its instance or capture
(`Spent`, with the set `Held` of the pairs of a thread and one of its `Slots`). So while
`Room` is left, whoever is about to open one finds one free (`OneLeft`), no call goes on
without its file or its instance, and none returns without a batch or its packets
(`Fresh`).

`DcllProofs`, for any set of nodes, threads and
names, with no assumption: list mode has no caller, so it has no run either, and what is
said of it is proved. `InsertedRing` and `UnlinkedRing` prove, for rings of any length,
that the two operations keep the links and the order; `NpInOrder` and `AppInOrder` that
they are only ever used on such a ring, although what was found before the lock was taken
decides: a node that is still one is somewhere in the ring, whatever was done to the
others. `DelNpBreaks` proves that `del_np` leaves a ring exactly when it does not
miscount; it needs that NULL is no node. `AppRegisteredOnce` and `AppCountOff` lean on
`HasFound`: who is to take something out has found a node.

`StatisticsProofs`, for any set of clients and any number of starts: `OwnReport` says
nothing of the name, which is what decides, so `IInv` adds what does. `Holds` ties what
NJ holds to where its thread is. `NameGoesFirst` says that a client whose report is over
no longer has the name, which holds after a restart as well and gives `NameFreed`.
`OneAtATime` says that who has not asked yet has the name, and so has whoever waits to be
accepted or is being handled: there is one of these. A start breaks `OneAtATime` for the
clients it overtakes, hence `InTurn` asks for none (`overtaken = {}`), and `OwnReport`
and `Robust` say the same. `StatTypeOK`, `StatOwnReport`, `StatRobust` and
`StatNameFreed` follow.

Assumptions: `ThreadsAssumption` (finitely many threads, and a value that is none of
them), `RegistryAssumption` (finite sets, the empty name is no NP, `MaxCount` a natural
number), `JunctionAssumption` (the empty name is no NP, the handlers are among the four,
`MaxRequests` a natural number), `GetnotifyAssumption` (finitely many requests, natural
counts, a natural length of `threadarr`, NULL is no NP), `KeyValsAssumption` (every text
is a sequence of elements and begins with the NP's name and a value, as every caller of
`extract_key_val` makes it; the values that stand for NULL and for a crash are no values
of a text), `ProvidersAssumption` (finitely many threads, since `threadarr` is finite;
natural limits; the kinds of events that are worded or belong to the directory are
kinds), `StatisticsAssumption` (a value that is no client). TLC evaluates all of them.

Every invariant and every action property that a run checks is proved. Only model-checked
are `Served`, `Handled`, `Finishes`, `Returns`, `Answered` and the liveness part of
`Implements`: liveness is out of the prover's reach. `Leaking`, `Held` and `Sent` count by
the cardinality of a set of calls or of notifications instead of adding up counters,
because what a sum over a set does when one summand changes is an induction the prover
cannot do. `ImplementsRegistry` is not proved with `unregister_np`, for with it it does not
hold.

## 5. What is left out

*Text.* The handlers start with the names a request yields, `Inotify` with its flags:
`strtok` is shared there as well, and what another thread makes of a name is not
modelled, only what becomes of keys and values (`KeyVals`). Buffers that are too short
for a long text are left out, but for `retstring`. What is printed and logged is left out.

*Memory.* Failing `malloc`s, and the bytes of memory after a race. The two locks are
created by `malloc` and never initialised (`nj.c:84-88`); `Junction` starts them free,
which is what fresh zeroed memory gives.

*Getnotify.* The keys of a request but "count" (`compare_array` accepts or refuses), the
contents of notifications, what follows when `open` returns the descriptor 0 (`nj.c:780`
tests for that, which only a server with no standard input sees), negative counts, for
which the loop does not end, clients that die while they listen, and a provider's
library that does not exist (the server then exits). The registration handlers are
atomic, as `Registry` has them: that they overlap with the thread's searches, which they
do because neither takes a common lock, is what `torn` and `stale` stand for, and what
they do to one another is in `Junction`. A thread that reads the hashes takes no step
once exit runs: `nj_exit` frees them after it has removed the files, so a thread that
crashes on them then changes only how the process ends. What `appGetnotify` reads from
its socket is left out.

*Providers.* All inotify requests watch one directory, which is not made again. `open` of
the APP's file fails only for lack of descriptors here, for any reason in `Getnotify`; a
write that fails is in `Getnotify` alone. Of the special flags only IN_ONESHOT changes what
is seen. `getmask` takes the flags apart with `strtok`, see *Text*. The
layout of packets and the filter, which is fixed, are left out; so are signals that
interrupt a `read`.

*Statistics.* The contents of the report: the hashes are walked with no lock, as by
`print_hash_app` in `Junction`.

*List mode.* The requests and keys in a node; the `malloc` of `add_app_ref` that fails
before the lock is taken, and then gives it back; `print_np`, `print_app`, `search_reg`
and `get_reg_list`, which change nothing. How the two lists would be used together is
left open: no function of NJ or of its clients calls them.

*Whole parts.* The command-line and graphical clients and `uthash.h` are inputs and
environment.

## 6. Where the code and its documents disagree

Shown by a run:

* `stays_alive`: unregistering is said to return a negative value on an error
  (`nj.h:90`, `nj.h:93`); a second unregistration follows NULL (`app_dcll.c:674`),
  and so does `unregister_np` at an APP that does not list the NP (`nj.c:1597`).
* `app_hash_protected`: `app_hash_lock` is there "to protect access to hash"
  (`app_dcll.h:136`); `unregister_np` does not take it. In the run it has found its name
  in an APP's list and is about to free it (`nj.c:1591`), while `add_app_ref_hash`, with
  the lock, has just put the name there and is about to count it (`app_dcll.c:599`).
* `right_provider`: a request's thread calls the "specific function of NP" (`nj.h:120`);
  `dlsym` reads a global handle that another request may have set (`nj.c:762`).

Part of the models, with no run of their own:

* `np_dcll.h:42` calls `app_count` the number of APPs registered with the NP; nothing
  ever decrements it (`AppCountAtLeast` is what remains).
* After a file that does not open (`nj.c:780` lets -1 pass) or a write that fails
  (`nj.c:791`), the APP is signalled all the same (`lost` in `Getnotify`).
* A provider registered without "count" makes a request follow NULL (`nj.c:740`; `Open`).
* When inotify has a wording for nothing in its batch, it copies a `retStr` that was never
  initialised (`inotify.c:53`, `215`; `CopyResult`).
* `np_count` can stay too high: `unregister_np` drops a list with `np_count` 1 to which
  `add_app_ref_hash` is just adding a name (`nj.c:1582`; `NpCountCovers` is what remains).
* `unregister_np` of one NP deletes an APP's only registration with another
  (`nj.c:1582`; `Unlisted` in `Registry`).
* What NJ hands to tcpdump ends in a `#` only behind the NUL (`nj.c:1133`); the copy
  tcpdump makes has none, and the search for it runs on (`LookupRight`).
* Every inotify call leaks a descriptor, and with none left the server exits
  (`inotify.c:79`); a stats client that is killed makes it exit too (`nj.c:1266`).
* In list mode, `del_np` of an NP that is not there, or of the first of one or two, breaks
  the list (`np_dcll.c:287`; `DelNpBreaks`); `del_app_ref` takes an APP's only
  registration out whatever NP is named (`app_dcll.c:455`; `Meant`); `np_count` is one too
  low for an APP added by a registration (`app_dcll.c:302`; `AppCountOff`).

## 7. Plan

In this order:

1. Proofs: the safety half of the liveness properties, which the prover can do: that a
   handler of `Junction` which waits for a lock waits for one that holds it and has not
   finished, and that each step brings a handler, a getnotify request or a call of a
   provider nearer to its end.
2. The names in requests taken apart with the shared `strtok`.
3. The lock from an arbitrary initial state, and with the unmatched unlock of
   `np_dcll.c:406`.
