------------------------------ MODULE Registry ------------------------------
(***************************************************************************)
(* What the Notification-Junction knows: the notification providers (NPs)  *)
(* and the applications (APPs) registered with it, and which APP is        *)
(* registered with which NP.  Each of the four handlers of nj.c,           *)
(* register_np, unregister_np, register_app and unregister_app, is one     *)
(* atomic action here; module Junction interleaves their steps.            *)
(*                                                                         *)
(* A request that a handler refuses (it returns -1) changes nothing and is *)
(* a stutter of this module.                                               *)
(***************************************************************************)
EXTENDS Integers, Sequences, FiniteSets

CONSTANTS Apps,      \* names of applications
          NPs,       \* names of notification providers
          NoNp,      \* the empty NP name of a request that gives none
          MaxCount   \* bound on the number of APPs counted for an NP

ASSUME RegistryAssumption == /\ IsFiniteSet(Apps)
                             /\ IsFiniteSet(NPs)
                             /\ NoNp \notin NPs
                             /\ MaxCount \in Nat

VARIABLES np_hash,    \* the registered NPs (keys of hstruct_np->np_hash)
          app_count,  \* app_count[n] of an NP's node; 0 when n has no node
          app_hash,   \* hstruct_app->app_hash: the APPs, in the order of iteration
          np_list,    \* np_list[a]: the NP names in the trailing list of APP a
          np_count,   \* np_count[a] of an APP's node; 0 when a has no node
          nj          \* "alive", or "crashed" once a handler followed NULL

vars == <<np_hash, app_count, app_hash, np_list, np_count, nj>>

Names == NPs \cup {NoNp}
Registered == {app_hash[i] : i \in DOMAIN app_hash}   \* the APPs that have a node

Init == /\ np_hash = {}
        /\ app_count = [n \in NPs |-> 0]
        /\ app_hash = <<>>
        /\ np_list = [a \in Apps |-> {}]
        /\ np_count = [a \in Apps |-> 0]
        /\ nj = "alive"

-----------------------------------------------------------------------------
(* Faulty variants of definitions below.  No specification uses them: a
   mutation run puts one in the place of the definition it is named after.   *)

\* register_app does not look the NP up.
AcceptableAlways(n) == TRUE

\* unregister_np empties every list of up to two names.
UnlistedTwo(a, n) == IF np_count[a] <= 2 THEN {} ELSE np_list[a] \ {n}

\* unregister_np stops after the first APP.
UnlistedFirst(a, n) == IF a = app_hash[1] THEN np_list[a] \ {n} ELSE np_list[a]

-----------------------------------------------------------------------------
\* register_np: a new NP gets a node that counts no APP.
RegisterNp(n) ==
    /\ nj = "alive"
    /\ n \notin np_hash
    /\ np_hash' = np_hash \cup {n}
    /\ app_count' = [app_count EXCEPT ![n] = 0]
    /\ UNCHANGED <<app_hash, np_list, np_count, nj>>

\* incr_np_app_cnt_hash
IncrAppCnt(n) == IF n \in np_hash
                 THEN /\ app_count[n] < MaxCount
                      /\ app_count' = [app_count EXCEPT ![n] = @ + 1]
                 ELSE UNCHANGED app_count

\* The name an APP registers with is given and known, or not given.
Acceptable(n) == n = NoNp \/ n \in np_hash

\* Faulty variant: the APP is not looked up, a node is added every time.
RegisterAppTwice(a, n) ==
    /\ nj = "alive"
    /\ Acceptable(n)
    /\ n \notin np_list[a]
    /\ app_hash' = Append(app_hash, a)
    /\ np_list' = [np_list EXCEPT ![a] = @ \cup {n}]
    /\ np_count' = [np_count EXCEPT ![a] = @ + 1]
    /\ IncrAppCnt(n)
    /\ UNCHANGED <<np_hash, nj>>

\* Faulty variant: the list is not searched for the name.
RegisterAppUnsearched(a, n) ==
    /\ nj = "alive"
    /\ Acceptable(n)
    /\ app_hash' = IF a \in Registered THEN app_hash ELSE Append(app_hash, a)
    /\ np_list' = [np_list EXCEPT ![a] = @ \cup {n}]
    /\ np_count' = [np_count EXCEPT ![a] = @ + 1]
    /\ IncrAppCnt(n)
    /\ UNCHANGED <<np_hash, nj>>

\* register_app with add_app_ref_hash: the APP gets a node if it has none; its
\* list gets the name, the empty one too, unless the list has it already.
RegisterApp(a, n) ==
    /\ nj = "alive"
    /\ Acceptable(n)
    /\ n \notin np_list[a]
    /\ app_hash' = IF a \in Registered THEN app_hash ELSE Append(app_hash, a)
    /\ np_list' = [np_list EXCEPT ![a] = @ \cup {n}]
    /\ np_count' = [np_count EXCEPT ![a] = @ + 1]
    /\ IncrAppCnt(n)
    /\ UNCHANGED <<np_hash, nj>>

\* HASH_DEL of the i-th node of the hash.
Without(i) == [j \in 1..(Len(app_hash) - 1) |->
                 IF j < i THEN app_hash[j] ELSE app_hash[j + 1]]

\* unregister_app without an NP name takes the APP out of the hash, with all
\* its registrations.  The counters of the NPs stay as they are.
UnregisterWholeApp(a) ==
    /\ nj = "alive"
    /\ \E i \in DOMAIN app_hash : app_hash[i] = a /\ app_hash' = Without(i)
    /\ np_list' = [np_list EXCEPT ![a] = {}]
    /\ np_count' = [np_count EXCEPT ![a] = 0]
    /\ UNCHANGED <<np_hash, app_count, nj>>

\* Faulty variant: np_count goes down whether the name was found or not.
UnregisterAppUnfound(a, n) ==
    /\ nj = "alive"
    /\ n \in np_hash
    /\ a \in Registered
    /\ np_list[a] # {}
    /\ np_list' = [np_list EXCEPT ![a] = @ \ {n}]
    /\ np_count' = [np_count EXCEPT ![a] = @ - 1]
    /\ UNCHANGED <<np_hash, app_count, app_hash, nj>>

\* unregister_app with an NP name takes the name out of the APP's list;
\* del_app_ref_hash reads the first node of the list whether there is one or
\* not.
UnregisterApp(a, n) ==
    /\ nj = "alive"
    /\ n \in np_hash
    /\ a \in Registered
    /\ \/ /\ np_list[a] = {}
          /\ nj' = "crashed"
          /\ UNCHANGED <<np_list, np_count>>
       \/ /\ n \in np_list[a]
          /\ np_list' = [np_list EXCEPT ![a] = @ \ {n}]
          /\ np_count' = [np_count EXCEPT ![a] = @ - 1]
          /\ UNCHANGED nj
    /\ UNCHANGED <<np_hash, app_count, app_hash>>

\* unregister_np looks for n in the list of every APP but never resets its
\* flag, so only the first APP can make it give up.
GivesUp(n) == app_hash # <<>> /\ n \notin np_list[app_hash[1]]

\* A later APP that does not list n makes it follow a NULL pointer, unless
\* np_count is 1.
Hopeless(n) == \E a \in Registered : n \notin np_list[a] /\ np_count[a] # 1

\* The list of APP a after the loop: one name less, which is n unless np_count
\* is 1 and the single name is another one.
Unlisted(a, n) == IF np_count[a] = 1 THEN {} ELSE np_list[a] \ {n}

UnregisterNp(n) ==
    /\ nj = "alive"
    /\ ~GivesUp(n)
    /\ \/ /\ Hopeless(n)
          /\ nj' = "crashed"
          /\ UNCHANGED <<np_hash, app_count, np_list, np_count>>
       \/ /\ ~Hopeless(n)
          /\ np_list' = [a \in Apps |-> IF a \in Registered THEN Unlisted(a, n)
                                       ELSE np_list[a]]
          /\ np_count' = [a \in Apps |-> IF a \in Registered THEN np_count[a] - 1
                                        ELSE np_count[a]]
          /\ np_hash' = np_hash \ {n}
          /\ app_count' = [app_count EXCEPT ![n] = 0]
          /\ UNCHANGED nj
    /\ UNCHANGED app_hash

Next == \/ \E n \in NPs : RegisterNp(n) \/ UnregisterNp(n)
        \/ \E a \in Apps, n \in Names : RegisterApp(a, n)
        \/ \E a \in Apps, n \in NPs : UnregisterApp(a, n)
        \/ \E a \in Apps : UnregisterWholeApp(a)

Spec == Init /\ [][Next]_vars

-----------------------------------------------------------------------------
TypeOK == /\ np_hash \subseteq NPs
          /\ app_count \in [NPs -> 0..MaxCount]
          /\ app_hash \in Seq(Apps)
          /\ np_list \in [Apps -> SUBSET Names]
          /\ np_count \in [Apps -> Nat]
          /\ nj \in {"alive", "crashed"}

\* np_count is the number of registrations of the APP (app_dcll.h:73), also
\* after unregister_np has decremented it for every APP.
NpCountMatches == \A a \in Apps : np_count[a] = Cardinality(np_list[a])

\* Whoever lists an NP lists one that is registered: np_getnotify_method finds
\* a provider for every registration it finds.
NoDangling == \A a \in Apps : np_list[a] \subseteq np_hash \cup {NoNp}

\* The iteration visits every APP once.
HashOrder == /\ \A i, j \in DOMAIN app_hash : app_hash[i] = app_hash[j] => i = j
             /\ \A a \in Apps \ Registered : np_list[a] = {}

\* The APPs registered with NP n.
Members(n) == {a \in Apps : n \in np_list[a]}

\* app_count never says that an NP has fewer APPs than it has: a registration
\* is not made without being counted, and no count is lost when an NP goes and
\* comes back.
AppCountAtLeast == \A n \in NPs : app_count[n] >= Cardinality(Members(n))

\* When every APP lists n, unregister_np takes n and nothing else away.
UnregisterNpExact ==
    [][\A n \in NPs : UnregisterNp(n) /\ (\A a \in Registered : n \in np_list[a])
                        => np_list' = [a \in Apps |-> np_list[a] \ {n}]]_vars

\* Unregistering returns a negative value on an error (nj.h:90 and nj.h:93):
\* it does not end the process.
StaysAlive == nj = "alive"
=============================================================================
