------------------------------- MODULE NpDcll -------------------------------
(***************************************************************************)
(* The list of NPs in list mode, np_dcll.c.  Every function first searches *)
(* the NP, under the lock for reading, gives the lock back, and takes it   *)
(* again, most of them for writing: what was found may be freed meanwhile, *)
(* and the memory used again for another NP.  An action is what a function *)
(* does under the lock.  Usage and key-value arrays are left out.          *)
(***************************************************************************)
EXTENDS ListMode

VARIABLE app_count   \* the counter in each node

npVars == <<list, order, data, app_count, pc, call, temp, nj>>

Functions == {"add_np", "del_np", "del_np_node", "get_np_app_cnt",
              "incr_np_app_cnt", "decr_np_app_cnt"}

NpInit == /\ list = EmptyList
          /\ order = <<>>
          /\ data \in [Nodes -> NpNames]
          /\ app_count = [n \in Nodes |-> 0]
          /\ pc = [t \in Threads |-> "idle"]
          /\ call \in [Threads -> [fn : Functions, val : NpNames]]
          /\ temp = [t \in Threads |-> NULL]
          /\ nj = "alive"

-----------------------------------------------------------------------------
\* A thread calls a function.
NpCall(t) ==
    /\ At(t, "idle")
    /\ \E c \in [fn : Functions, val : NpNames] : call' = [call EXCEPT ![t] = c]
    /\ Goto(t, "search")
    /\ UNCHANGED <<list, order, data, app_count, temp, nj>>

\* search_np; its caller calls del_np_node only with what it has found.
SearchNp(t) ==
    /\ At(t, "search")
    /\ \E n \in Found(list, data, call[t].val) :
          /\ temp' = [temp EXCEPT ![t] = n]
          /\ Goto(t, IF n = NULL /\ call[t].fn = "del_np_node" THEN "idle" ELSE "found")
    /\ UNCHANGED <<list, order, data, app_count, call, nj>>

\* What was found is used, or freed once more, although it is no node any more.
UseFreed(t) ==
    /\ At(t, "found") /\ Stale(t)
    /\ nj' = "corrupt"
    /\ UNCHANGED <<list, order, data, app_count, pc, call, temp>>

\* The list and its order without the node that was found, if one was.
ListWithout(t)  == IF temp[t] = NULL THEN list ELSE Unlinked(list, temp[t], list.count)
OrderWithout(t) == IF temp[t] = NULL THEN order ELSE Minus(order, temp[t])

\* add_np: the NP of that name is taken out, and a new node inserted unless there is no
\* memory for it.
AddNp(t) ==
    /\ In(t, "add_np") /\ ~Stale(t)
    /\ \/ /\ list' = ListWithout(t) /\ order' = OrderWithout(t)
          /\ UNCHANGED <<data, app_count>>
       \/ \E new \in Nodes \ Members(OrderWithout(t)) :
             /\ list' = Inserted(ListWithout(t), new)
             /\ order' = Append(OrderWithout(t), new)
             /\ data' = [data EXCEPT ![new] = call[t].val]
             /\ app_count' = [app_count EXCEPT ![new] = 0]
    /\ Goto(t, "idle")
    /\ UNCHANGED <<call, temp, nj>>

DelNpNode(t) ==
    /\ In(t, "del_np_node") /\ ~Stale(t)
    /\ list' = ListWithout(t) /\ order' = OrderWithout(t)
    /\ Goto(t, "idle")
    /\ UNCHANGED <<data, app_count, call, temp, nj>>

\* del_np counts down first, and then decides with what is left: wrongly when there is
\* no such NP, and when it is the first one of one or two.
Miscounts(n) == n = NULL \/ (n = list.head /\ list.count \in {1, 2})

DelNp(t) ==
    /\ In(t, "del_np") /\ ~Stale(t)
    /\ list' = IF temp[t] = NULL THEN [list EXCEPT !.count = @ - 1]
               ELSE Unlinked(list, temp[t], list.count - 1)
    /\ order' = OrderWithout(t)
    /\ nj' = IF Miscounts(temp[t]) THEN "miscounted" ELSE nj
    /\ Goto(t, "idle")
    /\ UNCHANGED <<data, app_count, call, temp>>

\* get_np_app_cnt reads the counter when it has given the lock back.
GetNpAppCnt(t) ==
    /\ In(t, "get_np_app_cnt") /\ ~Stale(t)
    /\ Goto(t, "idle")
    /\ UNCHANGED <<list, order, data, app_count, call, temp, nj>>

\* incr_np_app_cnt, decr_np_app_cnt
CountApp(t, fn, change) ==
    /\ In(t, fn) /\ ~Stale(t)
    /\ app_count' = IF temp[t] = NULL THEN app_count
                    ELSE [app_count EXCEPT ![temp[t]] = @ + change]
    /\ Goto(t, "idle")
    /\ UNCHANGED <<list, order, data, call, temp, nj>>

NpNext == \E t \in Threads :
           \/ NpCall(t) \/ SearchNp(t) \/ UseFreed(t)
           \/ AddNp(t) \/ DelNpNode(t) \/ DelNp(t) \/ GetNpAppCnt(t)
           \/ CountApp(t, "incr_np_app_cnt", 1) \/ CountApp(t, "decr_np_app_cnt", -1)

NpSpec == NpInit /\ [][NpNext]_npVars

-----------------------------------------------------------------------------
\* Type correctness.  The links stay links even after del_np has gone wrong.
NpTypeOK == /\ list \in Lists
            /\ order \in Seq(Nodes)
            /\ data \in [Nodes -> NpNames]
            /\ app_count \in [Nodes -> Int]
            /\ pc \in [Threads -> {"idle", "search", "found"}]
            /\ call \in [Threads -> [fn : Functions, val : NpNames]]
            /\ temp \in [Threads -> Nodes \cup {NULL}]
            /\ nj \in {"alive", "corrupt", "miscounted"}
=============================================================================
