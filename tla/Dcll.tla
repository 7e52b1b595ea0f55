-------------------------------- MODULE Dcll --------------------------------
(***************************************************************************)
(* The doubly linked circular lists of list mode: how np_dcll.c and        *)
(* app_dcll.c, both in the same way, insert a node and take one out.       *)
(* A list is its head, its count and the links; Nodes are the places in    *)
(* memory that malloc may return.                                          *)
(***************************************************************************)
EXTENDS Integers, Sequences

CONSTANTS Nodes, NULL

Lists == [head : Nodes \cup {NULL}, count : Int,
          next : [Nodes -> Nodes \cup {NULL}], prev : [Nodes -> Nodes \cup {NULL}]]

\* init_np, init_app: no node is linked.
EmptyList == [head |-> NULL, count |-> 0,
              next |-> [n \in Nodes |-> NULL], prev |-> [n \in Nodes |-> NULL]]

\* A new node becomes the last one, before the head.  (The branch the code has for a
\* list of one node does the same.)
Inserted(l, new) ==
    IF l.count = 0
    THEN [head |-> new, count |-> 1,
          next |-> [l.next EXCEPT ![new] = new], prev |-> [l.prev EXCEPT ![new] = new]]
    ELSE LET last == l.prev[l.head]
         IN  [head |-> l.head, count |-> l.count + 1,
              next |-> [l.next EXCEPT ![last] = new, ![new] = l.head],
              prev |-> [l.prev EXCEPT ![new] = last, ![l.head] = new]]

\* A node is taken out; count is the counter the code decides with, before or after it
\* has counted down.
Unlinked(l, n, count) ==
    IF n = l.head /\ count = 1
    THEN [head |-> NULL, count |-> l.count - 1,
          next |-> [l.next EXCEPT ![n] = NULL], prev |-> [l.prev EXCEPT ![n] = NULL]]
    ELSE [head |-> IF n = l.head /\ count > 1 THEN l.next[n] ELSE l.head,
          count |-> l.count - 1,
          next |-> [l.next EXCEPT ![l.prev[n]] = l.next[n]],
          prev |-> [l.prev EXCEPT ![l.next[n]] = l.prev[n]]]

\* The loop of search_np and search_app: count nodes, from the head on.
Walks(l) == {w \in [1..l.count -> Nodes] :
                \A i \in 1..l.count : w[i] = IF i = 1 THEN l.head ELSE l.next[w[i - 1]]}

\* It finds the first node with this name, or nothing.
Found(l, data, name) ==
    UNION {LET named == {i \in 1..l.count : data[w[i]] = name}
           IN  IF named = {} THEN {NULL}
               ELSE {w[i] : i \in {j \in named : \A k \in named : j <= k}} : w \in Walks(l)}

-----------------------------------------------------------------------------
After(s, i)  == IF i = Len(s) THEN 1 ELSE i + 1
Before(s, i) == IF i = 1 THEN Len(s) ELSE i - 1

\* The list is a ring of the nodes of s, in that order, from the head on, and count is
\* their number.
Ring(l, s) ==
    /\ l.count = Len(s)
    /\ l.head = IF s = <<>> THEN NULL ELSE s[1]
    /\ \A i \in 1..Len(s) : /\ l.next[s[i]] = s[After(s, i)]
                            /\ l.prev[s[i]] = s[Before(s, i)]

Members(s) == {s[i] : i \in 1..Len(s)}

\* Nothing is twice in s.
Distinct(s) == \A i, j \in 1..Len(s) : s[i] = s[j] => i = j

\* s without what is at place k; without x.
Omitting(s, k) == [i \in 1..Len(s) - 1 |-> IF i < k THEN s[i] ELSE s[i + 1]]
Minus(s, x)    == Omitting(s, CHOOSE k \in 1..Len(s) : s[k] = x)
=============================================================================
