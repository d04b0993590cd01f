-------------------------------- MODULE Links --------------------------------
(***************************************************************************)
(* The bidirectional linked list of lib/general/list.c, on which event     *)
(* queues, handles, variables and the blocks of a memory pool are kept.    *)
(* Its operations are given on the pointers: h.prev and h.next of every    *)
(* node, NIL for NULL.  A list has no header: it is known by any of its    *)
(* nodes, and a list** holds one of them or NIL.                           *)
(***************************************************************************)
EXTENDS Naturals, Sequences, FiniteSets, SequencesExt, FiniteSetsExt

CONSTANTS
  Nodes,  \* struct list
  NIL,    \* NULL
  Rank    \* what a sorter compares: it swaps a before b if Rank[a] > Rank[b]

ASSUME NodesAssumption == IsFiniteSet(Nodes) /\ NIL \notin Nodes
ASSUME RankAssumption == Rank \in [Nodes -> Nat]

Unlinked == [prev |-> [n \in Nodes |-> NIL], next |-> [n \in Nodes |-> NIL]]

\* a->next=b, b->prev=a
Link(h, a, b) == [h EXCEPT !.next[a] = b, !.prev[b] = a]

\* The nodes reached from p by one of the link functions, p first.
Chase(f, p) ==
  LET at[i \in 0..Cardinality(Nodes)] ==
        IF i = 0 THEN p ELSE IF at[i - 1] = NIL THEN NIL ELSE f[at[i - 1]]
  IN at

\* The node at which that walk ends, NIL if it ends nowhere (ELOOP).
EndOf(f, p) ==
  IF p = NIL THEN NIL
  ELSE LET at == Chase(f, p)
           ends == {n \in {at[i] : i \in DOMAIN at} \ {NIL} : f[n] = NIL}
       IN IF ends = {} THEN NIL ELSE CHOOSE n \in ends : TRUE

FirstOf(h, p) == EndOf(h.prev, p)
LastOf(h, p) == EndOf(h.next, p)

\* The nodes of the list that p is in, as a set and in their order
Members(h, p) ==
  IF p = NIL THEN {}
  ELSE LET at == Chase(h.next, FirstOf(h, p))
       IN {at[i] : i \in DOMAIN at} \ {NIL}

Items(h, p) ==
  [i \in 1..Cardinality(Members(h, p)) |-> Chase(h.next, FirstOf(h, p))[i - 1]]

IsAlone(h, p) == p # NIL /\ h.prev[p] = NIL /\ h.next[p] = NIL

\* new, with the list it is in, after point
AddTo(h, point, new) ==
  IF point = NIL \/ new = NIL \/ point = new THEN h
  ELSE IF h.next[point] = NIL THEN Link(h, point, new)
  ELSE LET f == FirstOf(h, new)
           l == LastOf(h, new)
       IN IF f = NIL \/ l = NIL THEN h
          ELSE Link(Link(h, l, h.next[point]), point, f)

\* new before point: between two nodes the ends of new's list change places
InsertTo(h, point, new) ==
  LET f == FirstOf(h, new)
      l == LastOf(h, new)
  IN IF point = NIL \/ l = NIL THEN h
     ELSE IF h.prev[point] = NIL THEN Link(h, l, point)
     ELSE Link(Link(h, h.prev[point], l), f, point)

RemoveFrom(h, x) ==
  LET p == h.prev[x]
      n == h.next[x]
      joined == IF p # NIL /\ n # NIL THEN Link(h, p, n)
                ELSE IF n # NIL THEN [h EXCEPT !.prev[n] = NIL]
                ELSE IF p # NIL THEN [h EXCEPT !.next[p] = NIL]
                ELSE h
  IN [joined EXCEPT !.prev[x] = NIL, !.next[x] = NIL]

SwapNeighbor(h, a, b) ==
  LET p == h.prev[a]
      n == h.next[b]
      outer == [prev |-> IF n = NIL THEN h.prev ELSE [h.prev EXCEPT ![n] = a],
                next |-> IF p = NIL THEN h.next ELSE [h.next EXCEPT ![p] = b]]
  IN [prev |-> [outer.prev EXCEPT ![b] = p, ![a] = b],
      next |-> [outer.next EXCEPT ![a] = n, ![b] = a]]

Swaps(a, b) == Rank[a] > Rank[b]

\* A step of the bubble sort: s.at moves on, or has been moved on by the swap.  So what
\* was swapped is not compared again in the same pass.
SortStep(s) ==
  IF s.at = NIL THEN s
  ELSE LET n == s.h.next[s.at]
           h == IF n # NIL /\ Swaps(s.at, n) THEN SwapNeighbor(s.h, s.at, n) ELSE s.h
       IN [h |-> h, at |-> h.next[s.at]]
SortPass(h, p) ==
  LET after[i \in 0..Cardinality(Nodes)] ==
        IF i = 0 THEN [h |-> h, at |-> FirstOf(h, p)] ELSE SortStep(after[i - 1])
  IN after[Cardinality(Nodes)].h

\* Passes until one swaps nothing.  Each other one leaves fewer pairs in the wrong
\* order, of which there are fewer than pairs of nodes.
SortList(h, p) ==
  LET after[k \in 0..(Cardinality(Nodes) * Cardinality(Nodes))] ==
        IF k = 0 THEN h ELSE SortPass(after[k - 1], p)
  IN after[CHOOSE k \in DOMAIN after : SortPass(after[k], p) = after[k]]

ReverseList(h, p) ==
  LET all == Members(h, p)
  IN [prev |-> [n \in Nodes |-> IF n \in all THEN h.next[n] ELSE h.prev[n]],
      next |-> [n \in Nodes |-> IF n \in all THEN h.prev[n] ELSE h.next[n]]]

\* A freed node is cleared; the list it was in is cut at it.
FreeItem(h, x) ==
  LET p == h.prev[x]
      n == h.next[x]
  IN [prev |-> [m \in Nodes |-> IF m \in {x, n} THEN NIL ELSE h.prev[m]],
      next |-> [m \in Nodes |-> IF m \in {x, p} THEN NIL ELSE h.next[m]]]
FreeList(h, p) ==
  LET all == Items(h, p)
      after[i \in 0..Len(all)] == IF i = 0 THEN h ELSE FreeItem(after[i - 1], all[i])
  IN after[Len(all)]

\* The list** operations: what they do to the links, then to the variable.
ObjAdd(h, lst, x) == IF lst = NIL THEN h ELSE AddTo(h, LastOf(h, lst), x)
ObjAddTo(lst, x) == IF lst = NIL THEN x ELSE lst

ObjInsert(h, lst, x) == IF lst = NIL THEN h ELSE InsertTo(h, FirstOf(h, lst), x)
ObjInsertTo(h, lst, x) == FirstOf(ObjInsert(h, lst, x), ObjAddTo(lst, x))

ObjStrip(h, lst, x) == IF IsAlone(h, lst) /\ lst # x THEN h ELSE RemoveFrom(h, x)

\* Faulty variant of ObjStripTo: the list** goes on to the next node only.
ObjStripToNext(h, lst, x) == IF lst # x THEN lst ELSE h.next[x]

ObjStripTo(h, lst, x) ==
  IF lst # x THEN lst
  ELSE IF h.next[x] # NIL THEN h.next[x]
  ELSE h.prev[x]

ObjDel(h, lst, x) == IF IsAlone(h, lst) /\ lst # x THEN h ELSE FreeItem(ObjStrip(h, lst, x), x)

\* old keeps the links it had
ObjReplace(h, old, new) ==
  LET g == RemoveFrom(h, new)
      into == [prev |-> [g.prev EXCEPT ![new] = g.prev[old]],
               next |-> [g.next EXCEPT ![new] = g.next[old]]]
  IN [prev |-> IF g.next[old] = NIL THEN into.prev ELSE [into.prev EXCEPT ![g.next[old]] = new],
      next |-> IF g.prev[old] = NIL THEN into.next ELSE [into.next EXCEPT ![g.prev[old]] = new]]

\* list_search_one with the comparator Test
Search(h, p, Test(_)) ==
  LET all == Items(h, p)
      i == SelectInSeq(all, Test)
  IN IF i = 0 THEN NIL ELSE all[i]
=============================================================================
