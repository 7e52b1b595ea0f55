------------------------------- MODULE AppDcll -------------------------------
(***************************************************************************)
(* The list of APPs in list mode, app_dcll.c: a ring of APPs, each with a  *)
(* singly linked list of its registrations.  Callers search the APP, and   *)
(* call del_app_ref with what they have found; add_app_ref searches by     *)
(* itself.  Between the search and the rest the lock is given back.        *)
(* Requests in a registration are left out, and the malloc that fails      *)
(* before the lock is taken (it would be given back without).              *)
(***************************************************************************)
EXTENDS ListMode

CONSTANTS AppNames,
          NoNp   \* no name of an NP is given: it is the APP that is meant

VARIABLES np_list,   \* the registrations of each node
          np_count,  \* the counter in each node
          joined     \* history: the nodes inserted together with a registration

appVars == <<list, order, data, np_list, np_count, joined, pc, call, temp, nj>>

Calls == [fn : {"add_app_ref", "del_app_ref"}, app_name : AppNames,
          np_name : NpNames \cup {NoNp}]

AppInit == /\ list = EmptyList
           /\ order = <<>>
           /\ data \in [Nodes -> AppNames]
           /\ np_list = [n \in Nodes |-> <<>>]
           /\ np_count = [n \in Nodes |-> 0]
           /\ joined = {}
           /\ pc = [t \in Threads |-> "idle"]
           /\ call \in [Threads -> Calls]
           /\ temp = [t \in Threads |-> NULL]
           /\ nj = "alive"

-----------------------------------------------------------------------------
\* A thread calls a function.
AppCall(t) ==
    /\ At(t, "idle")
    /\ \E c \in Calls : call' = [call EXCEPT ![t] = c]
    /\ Goto(t, "search")
    /\ UNCHANGED <<list, order, data, np_list, np_count, joined, temp, nj>>

\* search_app; del_app_ref is not called when it finds nothing.
SearchApp(t) ==
    /\ At(t, "search")
    /\ \E n \in Found(list, data, call[t].app_name) :
          /\ temp' = [temp EXCEPT ![t] = n]
          /\ Goto(t, IF n = NULL /\ call[t].fn = "del_app_ref" THEN "idle" ELSE "found")
    /\ UNCHANGED <<list, order, data, np_list, np_count, joined, call, nj>>

Np(t) == call[t].np_name

\* del_app_ref with an NP first looks whether the list is empty.
GivesUp(t) == call[t].fn = "del_app_ref" /\ Np(t) # NoNp /\ list.count = 0

\* What was found is used although it is no node; or an APP that is there is to be added
\* without an NP: the name of none is compared, or a pointer nobody has set becomes its
\* list.
UseWild(t) ==
    /\ At(t, "found")
    /\ \/ Stale(t) /\ ~GivesUp(t)
       \/ call[t].fn = "add_app_ref" /\ Np(t) = NoNp /\ temp[t] # NULL
    /\ nj' = "corrupt"
    /\ UNCHANGED <<list, order, data, np_list, np_count, joined, pc, call, temp>>

\* add_app_ref of an APP that was not found: a new node, unless there is no memory for
\* it.  Its counter starts from 0, with a registration or without.
AddApp(t) ==
    /\ In(t, "add_app_ref") /\ temp[t] = NULL
    /\ \/ UNCHANGED <<list, order, data, np_list, np_count, joined>>
       \/ \E new \in Nodes \ Members(order) :
             /\ list' = Inserted(list, new)
             /\ order' = Append(order, new)
             /\ data' = [data EXCEPT ![new] = call[t].app_name]
             /\ np_list' = [np_list EXCEPT ![new] = IF Np(t) = NoNp THEN <<>> ELSE <<Np(t)>>]
             /\ np_count' = [np_count EXCEPT ![new] = 0]
             /\ joined' = IF Np(t) = NoNp THEN joined \ {new} ELSE joined \cup {new}
    /\ Goto(t, "idle")
    /\ UNCHANGED <<call, temp, nj>>

\* add_app_ref of an APP that was found: a registration it has is refused.
AddRef(t) ==
    /\ In(t, "add_app_ref") /\ temp[t] # NULL /\ ~Stale(t) /\ Np(t) # NoNp
    /\ \/ Np(t) \in Members(np_list[temp[t]]) /\ UNCHANGED <<np_list, np_count>>
       \/ /\ Np(t) \notin Members(np_list[temp[t]])
          /\ np_list' = [np_list EXCEPT ![temp[t]] = Append(@, Np(t))]
          /\ np_count' = [np_count EXCEPT ![temp[t]] = @ + 1]
    /\ Goto(t, "idle")
    /\ UNCHANGED <<list, order, data, joined, call, temp, nj>>

\* del_app_ref without an NP: the node is taken out.
DelApp(t) ==
    /\ In(t, "del_app_ref") /\ Np(t) = NoNp /\ ~Stale(t)
    /\ list' = Unlinked(list, temp[t], list.count)
    /\ order' = Minus(order, temp[t])
    /\ Goto(t, "idle")
    /\ UNCHANGED <<data, np_list, np_count, joined, call, temp, nj>>

\* The registration that del_app_ref takes out: the only one whatever its name, one of
\* several when it has this name.
Meant(t) == LET refs == np_list[temp[t]]
            IN  {i \in 1..Len(refs) : Len(refs) = 1 \/ refs[i] = Np(t)}

\* del_app_ref with an NP.
DelRef(t) ==
    /\ In(t, "del_app_ref") /\ Np(t) # NoNp
    /\ \/ (GivesUp(t) \/ (~Stale(t) /\ Meant(t) = {})) /\ UNCHANGED <<np_list, np_count>>
       \/ /\ ~GivesUp(t) /\ ~Stale(t)
          /\ \E i \in Meant(t) :
                /\ np_list' = [np_list EXCEPT ![temp[t]] = Omitting(@, i)]
                /\ np_count' = [np_count EXCEPT ![temp[t]] = @ - 1]
    /\ Goto(t, "idle")
    /\ UNCHANGED <<list, order, data, joined, call, temp, nj>>

AppNext == \E t \in Threads :
           \/ AppCall(t) \/ SearchApp(t) \/ UseWild(t)
           \/ AddApp(t) \/ AddRef(t) \/ DelApp(t) \/ DelRef(t)

AppSpec == AppInit /\ [][AppNext]_appVars

-----------------------------------------------------------------------------
\* Type correctness.
AppTypeOK == /\ list \in Lists
             /\ order \in Seq(Nodes)
             /\ data \in [Nodes -> AppNames]
             /\ np_list \in [Nodes -> Seq(NpNames)]
             /\ np_count \in [Nodes -> Int]
             /\ joined \subseteq Nodes
             /\ pc \in [Threads -> {"idle", "search", "found"}]
             /\ call \in [Threads -> Calls]
             /\ temp \in [Threads -> Nodes \cup {NULL}]
             /\ nj \in {"alive", "corrupt"}

\* No APP is registered twice with one NP in the same node.
RegisteredOnce == \A n \in Members(order) : Distinct(np_list[n])

\* The counter of an APP is the number of its registrations, one less for an APP that
\* was added by a registration: it is -1 when those are gone.
CountOff == \A n \in Members(order) :
               np_count[n] = Len(np_list[n]) - (IF n \in joined THEN 1 ELSE 0)
=============================================================================
