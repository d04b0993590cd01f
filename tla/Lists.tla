-------------------------------- MODULE Lists --------------------------------
(***************************************************************************)
(* A program that keeps its nodes in lists with the operations of Links:   *)
(* whatever they do to the pointers, and whichever node of its list a      *)
(* list** happens to hold, the user sees sequences.                        *)
(***************************************************************************)
EXTENDS Links

CONSTANT Names  \* the list** variables of the program

VARIABLES
  links,  \* prev and next of every node
  lst,    \* the list** variables
  stale   \* nodes replaced in their list and not freed yet

listVars == <<links, lst, stale>>

InList(l) == Members(links, lst[l])
Spare == Nodes \ (stale \cup UNION {InList(l) : l \in Names})

ListsInit ==
  /\ links = Unlinked
  /\ lst = [l \in Names |-> NIL]
  /\ stale = {}

Add(l, x) ==
  /\ links' = ObjAdd(links, lst[l], x)
  /\ lst' = [lst EXCEPT ![l] = ObjAddTo(@, x)]
  /\ UNCHANGED stale

InsertFirst(l, x) ==
  /\ links' = ObjInsert(links, lst[l], x)
  /\ lst' = [lst EXCEPT ![l] = ObjInsertTo(links, @, x)]
  /\ UNCHANGED stale

AddAfter(point, x) == links' = AddTo(links, point, x) /\ UNCHANGED <<lst, stale>>
InsertBefore(point, x) == links' = InsertTo(links, point, x) /\ UNCHANGED <<lst, stale>>

Delete(l, x) ==
  /\ links' = ObjDel(links, lst[l], x)
  /\ lst' = [lst EXCEPT ![l] = ObjStripTo(links, @, x)]
  /\ UNCHANGED stale

\* the first item the comparator accepts, which here accepts items of one rank
DeleteFound(l, r) ==
  LET x == Search(links, lst[l], LAMBDA n : Rank[n] = r)
  IN x # NIL /\ Delete(l, x)

Replace(l, old, x) ==
  /\ links' = ObjReplace(links, old, x)
  /\ lst' = [lst EXCEPT ![l] = IF @ = old THEN x ELSE @]
  /\ stale' = stale \cup {old}

SwapNext(x) ==
  /\ links.next[x] # NIL
  /\ links' = SwapNeighbor(links, x, links.next[x])
  /\ UNCHANGED <<lst, stale>>

Sort(l) == links' = SortList(links, lst[l]) /\ UNCHANGED <<lst, stale>>
ReverseOrder(l) == links' = ReverseList(links, lst[l]) /\ UNCHANGED <<lst, stale>>

\* list_merge leaves the second list** to its caller, who gives it up.
Merge(l, m) ==
  /\ lst[l] # NIL /\ lst[m] # NIL
  /\ links' = AddTo(links, LastOf(links, lst[l]), FirstOf(links, lst[m]))
  /\ lst' = [lst EXCEPT ![m] = NIL]
  /\ UNCHANGED stale

FreeAll(l) ==
  /\ links' = FreeList(links, lst[l])
  /\ lst' = [lst EXCEPT ![l] = NIL]
  /\ UNCHANGED stale

\* The memory of a replaced node is freed, and comes back cleared by list_new.
Renew(x) ==
  /\ links' = [prev |-> [links.prev EXCEPT ![x] = NIL], next |-> [links.next EXCEPT ![x] = NIL]]
  /\ stale' = stale \ {x}
  /\ UNCHANGED lst

ListsNext ==
  \/ \E l \in Names :
       \/ \E x \in Spare : Add(l, x) \/ InsertFirst(l, x)
       \/ \E p \in InList(l), x \in Spare : AddAfter(p, x) \/ InsertBefore(p, x) \/ Replace(l, p, x)
       \/ \E x \in InList(l) : Delete(l, x) \/ SwapNext(x)
       \/ \E r \in {Rank[n] : n \in Nodes} : DeleteFound(l, r)
       \/ lst[l] # NIL /\ (Sort(l) \/ ReverseOrder(l) \/ FreeAll(l))
       \/ \E m \in Names \ {l} : Merge(l, m)
  \/ \E x \in stale : Renew(x)

ListsSpec == ListsInit /\ [][ListsNext]_listVars

-----------------------------------------------------------------------------
(* What the pointers implement *)

Sequences == INSTANCE ListSpec WITH items <- [l \in Names |-> Items(links, lst[l])]

\* Whatever the operations do with the pointers, and whichever node of the list
\* the list** happens to hold, the user sees the sequence he asked for: no
\* operation loses, duplicates or reorders an item, or reaches another list.
ListsAreSequences == Sequences!Spec

\* Walking a list by prev finds what walking it by next finds: the list can be
\* entered at any node (list_first) and left at any (list_obj_strip).
LinksAgree ==
  \A l \in Names : \A x, y \in InList(l) : links.next[x] = y <=> links.prev[y] = x
=============================================================================
