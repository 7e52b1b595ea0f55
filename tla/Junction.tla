------------------------------ MODULE Junction ------------------------------
(***************************************************************************)
(* The handler threads of the Notification-Junction, interleaved.  main    *)
(* starts one thread per request socket; each loops, accepting one         *)
(* connection, handling its request and going back to accept.  The threads *)
(* share the two hashes and their reader-writer locks, but nj.c takes the  *)
(* locks only inside the functions of app_dcll.c and np_dcll.c:            *)
(*   - register_app and unregister_app look the NP up with no lock before  *)
(*     they call add_app_ref_hash or del_app_ref_hash;                     *)
(*   - register_app counts the APP with no lock after it;                  *)
(*   - unregister_np walks and changes the lists of all APPs with no lock, *)
(*     and can come between the two writes of add_app_ref_hash that it can *)
(*     see: the name in the list, and np_count.                            *)
(* A step is what a thread does between two such points; one iteration of  *)
(* unregister_np's loop is one step.  When two threads are about to touch  *)
(* the same memory with no lock between them, one step may still come      *)
(* after the other, or the two may mix: then the memory is corrupt, and    *)
(* nothing is said of what follows (Corrupt).  The locks are used as       *)
(* RdwrLockSpec specifies them, which RdwrLock implements.                 *)
(***************************************************************************)
EXTENDS Integers, Sequences, FiniteSets

LOCAL INSTANCE FiniteSetsExt   \* Max

CONSTANTS Apps,         \* names of applications
          NPs,          \* names of notification providers
          NoNp,         \* the empty NP name of a request that gives none
          Handlers,     \* the handler threads that run, among AllHandlers
          MaxRequests   \* bound on the number of requests the clients send

AllHandlers == {"app_reg", "app_unreg", "np_reg", "np_unreg"}

ASSUME JunctionAssumption == /\ NoNp \notin NPs
                             /\ Handlers \subseteq AllHandlers
                             /\ MaxRequests \in Nat

VARIABLES np_hash,    \* the registered NPs
          app_count,  \* app_count[n] of an NP's node; 0 when n has no node
          node,       \* the APP nodes allocated so far; the index is the address
          live,       \* the addresses of the nodes that are in app_hash
          head,       \* hstruct_app->app_hash: the first node, or 0 for NULL
          app_lock,   \* who holds app_hash_lock for writing, or "free"
          np_lock,    \* who holds np_hash_lock for writing, or "free"
          pc,         \* where each handler is
          req,        \* the request each handler works on
          cursor,     \* s in unregister_np
          flag,       \* flag in unregister_np
          nj,         \* "alive", "crashed" once a handler followed NULL,
                      \* "corrupt" once the steps of two handlers mixed
          sent,       \* how many requests were sent
          overlapped  \* history: the NPs for which a register_app and an
                      \* unregister_np were under way at the same time

hashes == <<np_hash, app_count, node, live, head>>
locks  == <<app_lock, np_lock>>
walk   == <<cursor, flag>>
clients == <<sent, overlapped>>
vars   == <<hashes, locks, pc, req, walk, nj, clients>>

Null  == 0
Names == NPs \cup {NoNp}
NoReq == [app |-> "none", np |-> NoNp]
Nodes == [data : Apps, np_list : SUBSET Names, np_count : Int, next : Nat]

\* The requests a handler can be sent; app_unreg without an NP name means
\* all of the APP's registrations.
Requests(h) == IF h \in {"app_reg", "app_unreg"}
               THEN [app : Apps, np : Names]
               ELSE [app : {"none"}, np : NPs]

\* The first step of each handler.
Start == [app_reg |-> "find", app_unreg |-> "find",
          np_reg |-> "np_wlock", np_unreg |-> "walk"]

PCs == {"accept", "find", "app_wlock", "add", "count", "incr", "del", "np_wlock",
        "insert", "walk", "erase", "print"}

Init == /\ np_hash = {}
        /\ app_count = [n \in NPs |-> 0]
        /\ node = <<>>
        /\ live = {}
        /\ head = Null
        /\ app_lock = "free"
        /\ np_lock = "free"
        /\ pc = [h \in Handlers |-> "accept"]
        /\ req = [h \in Handlers |-> NoReq]
        /\ cursor = Null
        /\ flag = FALSE
        /\ nj = "alive"
        /\ sent = 0
        /\ overlapped = {}

-----------------------------------------------------------------------------
\* Handler h is about to take the step that starts at place; after a crash
\* nothing happens any more.
At(h, place) == nj = "alive" /\ pc[h] = place

Goto(h, place) == /\ pc' = [pc EXCEPT ![h] = place]
                  /\ UNCHANGED req

\* The handler is done and goes back to accept.
Done(h) == /\ pc' = [pc EXCEPT ![h] = "accept"]
           /\ req' = [req EXCEPT ![h] = NoReq]

WorksOn(h, n) == h \in Handlers /\ pc[h] # "accept" /\ req[h].np = n

\* accept and read: a client connects, writes its request and does not wait
\* for an answer.  unregister_np then reads the head of the hash.
Accept(h) ==
    /\ At(h, "accept")
    /\ sent < MaxRequests
    /\ sent' = sent + 1
    /\ req' \in {[req EXCEPT ![h] = r] : r \in Requests(h)}
    /\ pc' = [pc EXCEPT ![h] = Start[h]]
    /\ cursor' = IF h = "np_unreg" THEN head ELSE cursor
    /\ flag' = IF h = "np_unreg" THEN FALSE ELSE flag
    /\ overlapped' = overlapped \cup
                       {n \in NPs : WorksOn("app_reg", n)' /\ WorksOn("np_unreg", n)'}
    /\ UNCHANGED <<hashes, locks, nj>>

\* Faulty variant of Find: register_app does not look the NP up.
FindNothing(h) ==
    /\ At(h, "find")
    /\ Goto(h, "app_wlock")
    /\ UNCHANGED <<hashes, locks, walk, nj, clients>>

\* HASH_FIND_STR in np_hash, with no lock: an NP that is named must be there.
Find(h) ==
    /\ At(h, "find")
    /\ IF req[h].np \in np_hash \cup {NoNp} THEN Goto(h, "app_wlock") ELSE Done(h)
    /\ UNCHANGED <<hashes, locks, walk, nj, clients>>

\* pthread_rdwr_wlock_np(&app_hash_lock) returns.
AppWlock(h) ==
    /\ At(h, "app_wlock")
    /\ app_lock = "free"
    /\ app_lock' = h
    /\ Goto(h, IF h = "app_reg" THEN "add" ELSE "del")
    /\ UNCHANGED <<hashes, np_lock, walk, nj, clients>>

\* pthread_rdwr_wlock_np(&np_hash_lock) returns.
NpWlock(h) ==
    /\ At(h, "np_wlock")
    /\ np_lock = "free"
    /\ np_lock' = h
    /\ Goto(h, IF h = "np_reg" THEN "insert" ELSE "erase")
    /\ UNCHANGED <<hashes, app_lock, walk, nj, clients>>

NodesOf(a) == {k \in live : node[k].data = a}

-----------------------------------------------------------------------------
(* app_reg: register_app *)

\* HASH_ADD_KEYPTR: a new node goes to the end; its np_count is still 0.
AppendNode(a, n) ==
    LET new == Len(node) + 1
        linked == IF live = {} THEN node ELSE [node EXCEPT ![Max(live)].next = new]
    IN  /\ node' = Append(linked, [data |-> a, np_list |-> {n}, np_count |-> 0, next |-> Null])
        /\ live' = live \cup {new}
        /\ head' = IF live = {} THEN new ELSE head

\* add_app_ref_hash, the lock held, up to where the name is in a list that
\* unregister_np may be walking.
Add(h) ==
    LET a == req[h].app
        n == req[h].np
    IN  /\ At(h, "add")
        /\ \/ /\ NodesOf(a) = {}
              /\ AppendNode(a, n)
              /\ Goto(h, "count")
              /\ UNCHANGED app_lock
           \/ \E k \in NodesOf(a) :
                 /\ n \notin node[k].np_list
                 /\ node' = [node EXCEPT ![k].np_list = @ \cup {n}]
                 /\ Goto(h, "count")
                 /\ UNCHANGED <<live, head, app_lock>>
           \/ \E k \in NodesOf(a) :
                 /\ n \in node[k].np_list
                 /\ Done(h)
                 /\ app_lock' = "free"
                 /\ UNCHANGED <<node, live, head>>
        /\ UNCHANGED <<np_hash, app_count, np_lock, walk, nj, clients>>

\* Faulty variant of Count: only the node of a new APP is counted.
CountFirst(h) ==
    /\ At(h, "count")
    /\ \E k \in NodesOf(req[h].app) :
          node' = [node EXCEPT ![k].np_count =
                     IF node[k].np_list = {req[h].np} THEN @ + 1 ELSE @]
    /\ app_lock' = "free"
    /\ Goto(h, "incr")
    /\ UNCHANGED <<np_hash, app_count, live, head, np_lock, walk, nj, clients>>

\* The np_count++ of add_app_ref_hash, and the unlock.
Count(h) ==
    /\ At(h, "count")
    /\ \E k \in NodesOf(req[h].app) : node' = [node EXCEPT ![k].np_count = @ + 1]
    /\ app_lock' = "free"
    /\ Goto(h, "incr")
    /\ UNCHANGED <<np_hash, app_count, live, head, np_lock, walk, nj, clients>>

\* incr_np_app_cnt_hash, with no lock.
Incr(h) ==
    /\ At(h, "incr")
    /\ app_count' = [n \in NPs |-> IF n = req[h].np /\ n \in np_hash
                                   THEN app_count[n] + 1 ELSE app_count[n]]
    /\ Goto(h, "print")
    /\ UNCHANGED <<np_hash, node, live, head, locks, walk, nj, clients>>

-----------------------------------------------------------------------------
(* app_unreg: unregister_app *)

\* Faulty variant of UnlinkNode: the first node is taken out, the head of the
\* hash stays where it was.
UnlinkNodeKeepsHead(k) ==
    /\ node' = [j \in DOMAIN node |-> IF j \in live /\ node[j].next = k
                                      THEN [node[j] EXCEPT !.next = node[k].next]
                                      ELSE node[j]]
    /\ live' = live \ {k}
    /\ UNCHANGED head

\* HASH_DEL: the node before k is linked to the one after it.  Node k is not
\* freed and keeps its next pointer.
UnlinkNode(k) ==
    LET before == {j \in live : node[j].next = k}
    IN  /\ node' = [j \in DOMAIN node |-> IF j \in before
                                          THEN [node[j] EXCEPT !.next = node[k].next]
                                          ELSE node[j]]
        /\ live' = live \ {k}
        /\ head' = IF head = k THEN node[k].next ELSE head

\* del_app_ref_hash, the lock held; the unlock is part of the step.
Del(h) ==
    LET a == req[h].app
        n == req[h].np
        Named(k) == n # NoNp /\ node[k].np_list # {}
    IN  /\ At(h, "del")
        /\ \/ /\ NodesOf(a) = {}
              /\ Done(h)
              /\ UNCHANGED <<node, live, head, nj>>
           \/ \E k \in NodesOf(a) :
                 /\ n = NoNp
                 /\ UnlinkNode(k)
                 /\ Goto(h, "print")
                 /\ UNCHANGED nj
           \/ \E k \in NodesOf(a) :
                 /\ Named(k) /\ n \in node[k].np_list
                 /\ node' = [node EXCEPT ![k].np_list = @ \ {n}, ![k].np_count = @ - 1]
                 /\ Goto(h, "print")
                 /\ UNCHANGED <<live, head, nj>>
           \/ \E k \in NodesOf(a) :
                 /\ Named(k) /\ n \notin node[k].np_list
                 /\ Done(h)
                 /\ UNCHANGED <<node, live, head, nj>>
           \/ \E k \in NodesOf(a) :
                 /\ n # NoNp /\ ~Named(k)
                 /\ nj' = "crashed"
                 /\ Done(h)
                 /\ UNCHANGED <<node, live, head>>
        /\ app_lock' = "free"
        /\ UNCHANGED <<np_hash, app_count, np_lock, walk, clients>>

-----------------------------------------------------------------------------
(* np_reg: register_np.  Two faulty variants of its step come first: the NP is
   not looked up, and the lock is not given back for an NP that is there.     *)

InsertUnsearched(h) ==
    /\ At(h, "insert")
    /\ np_hash' = np_hash \cup {req[h].np}
    /\ app_count' = [app_count EXCEPT ![req[h].np] = 0]
    /\ Goto(h, "print")
    /\ np_lock' = "free"
    /\ UNCHANGED <<node, live, head, app_lock, walk, nj, clients>>

InsertKeepsLock(h) ==
    LET n == req[h].np
    IN  /\ At(h, "insert")
        /\ IF n \in np_hash
           THEN Done(h) /\ UNCHANGED <<np_hash, app_count, np_lock>>
           ELSE /\ np_hash' = np_hash \cup {n}
                /\ app_count' = [app_count EXCEPT ![n] = 0]
                /\ np_lock' = "free"
                /\ Goto(h, "print")
        /\ UNCHANGED <<node, live, head, app_lock, walk, nj, clients>>

\* add_np_to_hash, the lock held; the unlock is part of the step.
Insert(h) ==
    LET n == req[h].np
    IN  /\ At(h, "insert")
        /\ IF n \in np_hash
           THEN Done(h) /\ UNCHANGED <<np_hash, app_count>>
           ELSE /\ np_hash' = np_hash \cup {n}
                /\ app_count' = [app_count EXCEPT ![n] = 0]
                /\ Goto(h, "print")
        /\ np_lock' = "free"
        /\ UNCHANGED <<node, live, head, app_lock, walk, nj, clients>>

-----------------------------------------------------------------------------
(* np_unreg: unregister_np *)

\* The end of the list is reached.
WalkEnd(h) ==
    /\ At(h, "walk")
    /\ cursor = Null
    /\ Goto(h, "np_wlock")
    /\ UNCHANGED <<hashes, locks, walk, nj, clients>>

\* Faulty variant: the loop ends after one APP.
NoNextNode(s) == Null

\* s->hh.next
NextNode(s) == s.next

\* Node s with one name less: n, or the single name there is.
Unlisted(s, n) == [s EXCEPT !.np_list = IF s.np_count = 1 THEN {} ELSE @ \ {n},
                            !.np_count = @ - 1]

\* One iteration at node s = cursor, in the hash or not any more.  The flag
\* says that some APP so far listed n.
Walk(h) ==
    LET n == req[h].np
        s == node[cursor]
        found == n \in s.np_list
    IN  /\ At(h, "walk")
        /\ cursor # Null
        /\ \/ /\ ~found /\ ~flag
              /\ Done(h)
              /\ UNCHANGED <<node, walk, nj>>
           \/ /\ found \/ flag
              /\ found \/ s.np_count = 1
              /\ node' = [node EXCEPT ![cursor] = Unlisted(s, n)]
              /\ cursor' = NextNode(s)
              /\ flag' = TRUE
              /\ Goto(h, "walk")
              /\ UNCHANGED nj
           \/ /\ ~found /\ flag /\ s.np_count # 1
              /\ nj' = "crashed"
              /\ Done(h)
              /\ UNCHANGED <<node, walk>>
        /\ UNCHANGED <<np_hash, app_count, live, head, locks, clients>>

\* del_np_from_hash, the lock held; the unlock is part of the step.
Erase(h) ==
    LET n == req[h].np
    IN  /\ At(h, "erase")
        /\ np_hash' = np_hash \ {n}
        /\ app_count' = [app_count EXCEPT ![n] = 0]
        /\ np_lock' = "free"
        /\ Goto(h, "print")
        /\ UNCHANGED <<node, live, head, app_lock, walk, nj, clients>>

-----------------------------------------------------------------------------
\* print_hash_np takes np_hash_lock for reading and gives it back; the
\* printing itself is left out.
PrintNps(h) ==
    /\ At(h, "print")
    /\ np_lock = "free"
    /\ Done(h)
    /\ UNCHANGED <<hashes, locks, walk, nj, clients>>

-----------------------------------------------------------------------------
(* Data races *)

\* The nodes whose lists h is about to search, with app_hash_lock
\* (add_app_ref_hash, del_app_ref_hash) or without (unregister_np), and those
\* where it will find its name.
Visits(h) == CASE pc[h] = "walk" -> {cursor} \ {Null}
               [] pc[h] = "add"  -> NodesOf(req[h].app)
               [] pc[h] = "del" /\ req[h].np # NoNp -> NodesOf(req[h].app)
               [] OTHER -> {}

Finds(h) == {k \in Visits(h) : req[h].np \in node[k].np_list}

\* The nodes whose np_list_head, np_list or np_count h is about to write, and
\* those of which it frees a name.
Changes(h) ==
    CASE pc[h] = "add"   -> Visits(h) \ Finds(h)
      [] pc[h] = "count" -> NodesOf(req[h].app)
      [] pc[h] = "walk"  -> Finds(h) \cup {k \in Visits(h) : flag /\ node[k].np_count = 1}
      [] OTHER           -> Finds(h)

Frees(h) == IF pc[h] = "add" THEN {} ELSE Finds(h)

\* print_hash_app reads all lists: with no lock at the end of a handler, with
\* the lock at the end of del_app_ref_hash.
Prints(h) == \/ pc[h] = "print" /\ h # "np_reg"
             \/ pc[h] = "del" /\ IF req[h].np = NoNp THEN NodesOf(req[h].app) # {}
                                                    ELSE Finds(h) # {}
Reads(h) == Visits(h) \cup IF Prints(h) THEN live ELSE {}

\* A name put at the end of a list disturbs nobody who reads it.
AppRace == \E h, g \in Handlers : /\ h # g
                                 /\ \/ Changes(h) \cap Changes(g) # {}
                                    \/ Frees(h) \cap Reads(g) # {}

\* HASH_FIND_STR in np_hash with no lock, while a node is added or freed.
LooksUp(h) == pc[h] = "incr" \/ (pc[h] = "find" /\ req[h].np # NoNp)

NpRace == \E h, g \in Handlers : /\ LooksUp(h)
                                /\ pc[g] \in {"insert", "erase"}

Corrupt == /\ nj = "alive"
           /\ AppRace \/ NpRace
           /\ nj' = "corrupt"
           /\ UNCHANGED <<hashes, locks, pc, req, walk, clients>>

\* What a handler does once it has a request.
Step(h) == \/ Find(h) \/ AppWlock(h) \/ NpWlock(h)
           \/ Add(h) \/ Count(h) \/ Incr(h) \/ Del(h)
           \/ Insert(h) \/ WalkEnd(h) \/ Walk(h) \/ Erase(h) \/ PrintNps(h)

Next == Corrupt \/ \E h \in Handlers : Accept(h) \/ Step(h)

Spec == Init /\ [][Next]_vars

\* Each handler is a thread of its own that the kernel schedules; no client
\* has to send anything.
Fairness == \A h \in Handlers : WF_vars(Step(h))

FairSpec == Spec /\ Fairness

-----------------------------------------------------------------------------
TypeOK == /\ np_hash \subseteq NPs
          /\ app_count \in [NPs -> 0..MaxRequests]
          /\ node \in Seq(Nodes)
          /\ live \subseteq DOMAIN node
          /\ head \in live \cup {Null}
          /\ app_lock \in Handlers \cup {"free"}
          /\ np_lock \in Handlers \cup {"free"}
          /\ pc \in [Handlers -> PCs]
          /\ \A h \in Handlers : req[h] \in Requests(h) \cup {NoReq}
          /\ cursor \in DOMAIN node \cup {Null}
          /\ flag \in BOOLEAN
          /\ nj \in {"alive", "crashed", "corrupt"}
          /\ sent \in 0..MaxRequests
          /\ overlapped \subseteq NPs

\* Every request that is accepted is handled, unless the process crashed or its
\* memory is corrupt: no path through a handler keeps a lock that another one
\* needs.
Handled == \A h \in Handlers : pc[h] # "accept" ~> pc[h] = "accept" \/ nj # "alive"

\* While unregister_np takes a name out of a list and frees it, no other thread
\* changes or reads that list: app_hash_lock is there "to protect access to
\* hash" (app_dcll.h:136).
AppHashProtected ==
    \A h, g \in Handlers :
       h # g /\ pc[h] = "walk" => Frees(h) \cap (Changes(g) \cup Reads(g)) = {}

-----------------------------------------------------------------------------
\* add_app_ref_hash has put a name into the list of node k and not counted it.
Uncounted(k) == \E h \in Handlers : pc[h] = "count" /\ k \in NodesOf(req[h].app)

Counts(k) == node[k].np_count + IF Uncounted(k) THEN 1 ELSE 0

\* What the state of the threads amounts to for module Registry: the name and
\* the APP that app_reg has added and not counted yet are counted.
ListOf(a)  == UNION {node[k].np_list : k \in NodesOf(a)}
CountOf(a) == IF NodesOf(a) = {} THEN 0 ELSE Counts(Max(NodesOf(a)))
Pending(n) == \E h \in Handlers : pc[h] \in {"count", "incr"} /\ req[h].np = n /\ n \in np_hash

\* The addresses in S, in ascending order.
Ascending(S) == CHOOSE s \in [1..Cardinality(S) -> S] : \A i, j \in DOMAIN s : i < j => s[i] < s[j]

AppHash  == LET order == Ascending(live) IN [i \in DOMAIN order |-> node[order[i]].data]
AppCount == [n \in NPs |-> app_count[n] + IF Pending(n) THEN 1 ELSE 0]
NpList   == [a \in Apps |-> ListOf(a)]
NpCount  == [a \in Apps |-> CountOf(a)]
Nj       == IF nj = "corrupt" THEN "alive" ELSE nj

Atomic == INSTANCE Registry
            WITH app_count <- AppCount, app_hash <- AppHash, np_list <- NpList,
                 np_count <- NpCount, nj <- Nj, MaxCount <- MaxRequests

\* Every request takes effect at once, at some point while it is handled, as
\* long as the memory is not corrupt.
ImplementsRegistry == Atomic!Spec

-----------------------------------------------------------------------------
(* All four handlers at once.  Module Registry proves what holds when they
   take turns; here the same holds of every NP without an overlap: no other
   interleaving of lookups, walks, deletions and counting breaks a registration. *)

\* No APP in the hash lists an NP that is gone, unless it was registered while
\* the NP was being unregistered: then register_app's lookup can be stale by
\* the time add_app_ref_hash acts on it, or the walk can miss the APP.
NoDanglingUnlessOverlap ==
    \A k \in live : node[k].np_list \subseteq np_hash \cup {NoNp} \cup overlapped

\* Under the same condition no registration is missing from app_count, except
\* the one register_app is about to count.
CountedUnlessOverlap ==
    \A n \in NPs \ overlapped :
       Cardinality({k \in live : n \in node[k].np_list})
          <= app_count[n] + IF Pending(n) THEN 1 ELSE 0

\* np_count is never less than the length of the list, but for the name that
\* add_app_ref_hash is about to count; this holds of a node in the hash and of
\* one that was taken out while unregister_np stood on it.  unregister_np drops
\* the whole list of a node with np_count 1, so a count too low would lose the
\* registrations of other NPs.  It does drop two names at once when it comes
\* between the adding and the counting of the second: then np_count stays too
\* high for good.
NpCountCovers ==
    \A k \in DOMAIN node : Counts(k) >= Cardinality(node[k].np_list)

\* The nodes of the hash are linked in the order they were added: a walk that
\* starts at the head visits each of them once, and a walk that stands on a
\* node already taken out finds its way back or ends.
Linked ==
    /\ head = IF live = {} THEN Null ELSE CHOOSE k \in live : \A j \in live : k <= j
    /\ \A k \in live :
          node[k].next = IF \A j \in live : j <= k THEN Null
                         ELSE CHOOSE i \in live : i > k /\ \A j \in live : j > k => i <= j
    /\ \A k \in DOMAIN node : node[k].next = Null \/ node[k].next > k
=============================================================================
