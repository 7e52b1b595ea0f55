------------------------------ MODULE ListMode ------------------------------
(***************************************************************************)
(* What the lists of NPs and of APPs have in common: threads call the      *)
(* functions of np_dcll.c or app_dcll.c.  Each function searches a node    *)
(* under the lock for reading, gives the lock back, and takes it again.    *)
(***************************************************************************)
EXTENDS Dcll

CONSTANTS Threads, NpNames

VARIABLES list,   \* the list
          order,  \* history: its nodes, in the order of their insertion
          data,   \* the name in each node
          pc,     \* where each thread is
          call,   \* the function it is in, and what it was called with
          temp,   \* the node it has found
          nj      \* "alive", or what has gone wrong: nothing is said of what follows

At(t, place)   == nj = "alive" /\ pc[t] = place
Goto(t, place) == pc' = [pc EXCEPT ![t] = place]

In(t, fn) == At(t, "found") /\ call[t].fn = fn

\* What was found is no node any more: it was freed since the search.
Stale(t) == temp[t] # NULL /\ temp[t] \notin Members(order)

\* However the functions interleave between their search and the rest, the links are a
\* ring of the nodes that were inserted and not taken out, in the order of their
\* insertion, until something goes wrong.
InOrder == nj = "alive" => Ring(list, order) /\ Distinct(order)
=============================================================================
