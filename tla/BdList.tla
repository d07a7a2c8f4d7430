------------------------------- MODULE BdList -------------------------------
(***************************************************************************)
(* The intrusive doubly linked list of rmi/bd_list.h, which Taurus takes   *)
(* for sequences: bd_push_front at the head, bd_pop_back at the tail.      *)
(* Lists and nodes are addresses, a node's links are in the node.  order   *)
(* is no variable of the code: it remembers what was pushed, oldest first, *)
(* to say what the pointers should be.                                     *)
(***************************************************************************)
EXTENDS Integers, Sequences, Functions, SequencesExt

CONSTANTS Lists, Nodes, NULL

ListAssumption == NULL \notin Nodes

ASSUME ListAssumption

VARIABLES
  head, tail, count,  \* of a bd_list
  prev, next,         \* of a bd_node
  returned,           \* what the last call returned
  order

vars == <<head, tail, count, prev, next, returned, order>>

\* memset: malloc_coroutine clears a node, co_thread_init the lists.
Init ==
  /\ head = [l \in Lists |-> NULL]
  /\ tail = [l \in Lists |-> NULL]
  /\ count = [l \in Lists |-> 0]
  /\ prev = [n \in Nodes |-> NULL]
  /\ next = [n \in Nodes |-> NULL]
  /\ returned = NULL
  /\ order = [l \in Lists |-> <<>>]

Members(l) == Range(order[l])
Free(n) == \A l \in Lists : n \notin Members(l)

-----------------------------------------------------------------------------

\* A walk along next finds what is in every set that holds the head and the
\* next of what it holds.
bd_find_node(l, n) ==
  \A S \in SUBSET Nodes :
    (/\ head[l] \in S \cup {NULL}
     /\ \A m \in S : next[m] \in S \cup {NULL}) => n \in S

\* Mutant: the node becomes the tail of a list that is not empty, too.
bd_push_front_as_tail(l, n) ==
  /\ Free(n)
  /\ tail' = [tail EXCEPT ![l] = n]
  /\ head' = [head EXCEPT ![l] = n]
  /\ count' = [count EXCEPT ![l] = @ + 1]
  /\ returned' = NULL
  /\ order' = [order EXCEPT ![l] = Append(@, n)]
  /\ UNCHANGED <<next, prev>>

\* The caller's node is in no list.  Its prev is not set, nor its next when
\* the list is empty: they are as the node left its last list.
bd_push_front(l, n) ==
  /\ Free(n)
  /\ tail' = [tail EXCEPT ![l] = IF @ = NULL THEN n ELSE @]
  /\ IF head[l] # NULL
       THEN /\ next' = [next EXCEPT ![n] = head[l]]
            /\ prev' = [prev EXCEPT ![head[l]] = n]
       ELSE UNCHANGED <<next, prev>>
  /\ head' = [head EXCEPT ![l] = n]
  /\ count' = [count EXCEPT ![l] = @ + 1]
  /\ returned' = NULL
  /\ order' = [order EXCEPT ![l] = Append(@, n)]

\* Mutant: the node keeps its prev.
bd_pop_back_prev_kept(l) ==
  /\ tail[l] # NULL
  /\ prev[tail[l]] # NULL
  /\ returned' = tail[l]
  /\ tail' = [tail EXCEPT ![l] = prev[@]]
  /\ next' = [next EXCEPT ![prev[tail[l]]] = NULL]
  /\ count' = [count EXCEPT ![l] = @ - 1]
  /\ order' = [order EXCEPT ![l] = Tail(@)]
  /\ UNCHANGED <<head, prev>>

\* Mutant: an empty list is counted down.
bd_pop_back_counted(l) ==
  /\ tail[l] = NULL
  /\ returned' = NULL
  /\ count' = [count EXCEPT ![l] = @ - 1]
  /\ UNCHANGED <<head, tail, prev, next, order>>

\* The tail is taken out; only its prev is cleared.
bd_pop_back(l) ==
  \/ /\ tail[l] = NULL
     /\ returned' = NULL
     /\ UNCHANGED <<head, tail, count, prev, next, order>>
  \/ /\ tail[l] # NULL
     /\ returned' = tail[l]
     /\ IF prev[tail[l]] = NULL
          THEN /\ tail' = [tail EXCEPT ![l] = NULL]
               /\ head' = [head EXCEPT ![l] = NULL]
               /\ UNCHANGED next
          ELSE /\ tail' = [tail EXCEPT ![l] = prev[@]]
               /\ next' = [next EXCEPT ![prev[tail[l]]] = NULL]
               /\ UNCHANGED head
     /\ prev' = [prev EXCEPT ![tail[l]] = NULL]
     /\ count' = [count EXCEPT ![l] = @ - 1]
     /\ order' = [order EXCEPT ![l] = Tail(@)]

\* n is taken out of order[l].
Forget(l, n) ==
  \E i \in DOMAIN order[l] :
    order[l][i] = n /\ order' = [order EXCEPT ![l] = RemoveAt(@, i)]

\* The neighbours of n are joined.
Unlink(n) ==
  /\ next' = [m \in Nodes |->
                IF m = n THEN NULL ELSE IF m = prev[n] THEN next[n] ELSE next[m]]
  /\ prev' = [m \in Nodes |->
                IF m = n THEN NULL ELSE IF m = next[n] THEN prev[n] ELSE prev[m]]

\* Mutant: the ends of the list are not looked at.
bd_remove_node_ends_kept(l, n) ==
  /\ Forget(l, n)
  /\ Unlink(n)
  /\ count' = [count EXCEPT ![l] = @ - 1]
  /\ returned' = NULL
  /\ UNCHANGED <<head, tail>>

\* The caller's node is in the list: an assertion says so.  Where it has no
\* neighbour, the end of the list moves.
bd_remove_node(l, n) ==
  /\ Forget(l, n)
  /\ Unlink(n)
  /\ head' = [head EXCEPT ![l] = IF prev[n] = NULL THEN next[n] ELSE @]
  /\ tail' = [tail EXCEPT ![l] = IF next[n] = NULL THEN prev[n] ELSE @]
  /\ count' = [count EXCEPT ![l] = @ - 1]
  /\ returned' = NULL

Next ==
  \/ \E l \in Lists, n \in Nodes : bd_push_front(l, n)
  \/ \E l \in Lists : bd_pop_back(l)
  \/ \E l \in Lists, n \in Nodes : bd_remove_node(l, n)

Spec == Init /\ [][Next]_vars

-----------------------------------------------------------------------------
(* Properties *)

TypeOK ==
  /\ head \in [Lists -> Nodes \cup {NULL}]
  /\ tail \in [Lists -> Nodes \cup {NULL}]
  /\ count \in [Lists -> Nat]
  /\ prev \in [Nodes -> Nodes \cup {NULL}]
  /\ next \in [Nodes -> Nodes \cup {NULL}]
  /\ returned \in Nodes \cup {NULL}
  /\ order \in [Lists -> Seq(Nodes)]

\* The pointers of the list l are those of the sequence s.
Linked(l, s) ==
  /\ count[l] = Len(s)
  /\ head[l] = IF s = <<>> THEN NULL ELSE s[Len(s)]
  /\ tail[l] = IF s = <<>> THEN NULL ELSE s[1]
  /\ \A i \in DOMAIN s :
       /\ prev[s[i]] = IF i = Len(s) THEN NULL ELSE s[i + 1]
       /\ next[s[i]] = IF i = 1 THEN NULL ELSE s[i - 1]

\* Whatever order nodes go through several lists in, and whichever end or
\* middle they leave by, head, tail, count and both chains agree; a node that
\* has left a list has no link, on which the next push counts.
WellLinked ==
  /\ \A l \in Lists : Linked(l, order[l]) /\ IsInjective(order[l])
  /\ \A l, k \in Lists : l # k => Members(l) \cap Members(k) = {}
  /\ \A n \in Nodes : Free(n) => prev[n] = NULL /\ next[n] = NULL

\* bd_find_node, which bd_remove_node asserts, is true of the nodes that were
\* pushed on the list and not taken out since.
FindsMembers ==
  \A l \in Lists, n \in Nodes : bd_find_node(l, n) <=> n \in Members(l)

\* bd_pop_back returns the node that has been in the list longest, and 0 only
\* from an empty list.
PopsOldest ==
  [][\A l \in Lists : bd_pop_back(l) =>
       returned' = IF order[l] = <<>> THEN NULL ELSE Head(order[l])]_vars
=============================================================================
