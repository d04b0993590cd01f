------------------------------ MODULE ListSpec ------------------------------
(***************************************************************************)
(* What a list promises its user: named sequences of items, no item in two *)
(* places, and operations that say where an item goes and nothing about    *)
(* the pointers that take it there.                                        *)
(***************************************************************************)
EXTENDS Naturals, Sequences, SequencesExt

CONSTANTS
  Names,        \* the lists
  Nodes,        \* the items
  Swaps(_, _)   \* does the sorter want the second item before the first?

VARIABLE items  \* the items of every list, in order

Used == UNION {ToSet(items[l]) : l \in Names}
Unused == Nodes \ Used

Init == items = [l \in Names |-> <<>>]

InsertItem(l, i, x) == items' = [items EXCEPT ![l] = InsertAt(@, i, x)]
RemoveItem(l, i) == items' = [items EXCEPT ![l] = RemoveAt(@, i)]
ReplaceItem(l, i, x) == items' = [items EXCEPT ![l][i] = x]
SwapItems(l, i) == items' = [items EXCEPT ![l][i] = items[l][i + 1], ![l][i + 1] = items[l][i]]
ReverseItems(l) == items' = [items EXCEPT ![l] = Reverse(@)]
Concatenate(l, m) == items' = [items EXCEPT ![l] = @ \o items[m], ![m] = <<>>]
Clear(l) == items' = [items EXCEPT ![l] = <<>>]

\* A sorted list holds the same items and no pair of neighbours to be swapped.
SortItems(l) ==
  \E s \in SetToSeqs(ToSet(items[l])) :
    /\ \A i \in 1..(Len(s) - 1) : ~Swaps(s[i], s[i + 1])
    /\ items' = [items EXCEPT ![l] = s]

Next ==
  \E l \in Names :
    \/ \E i \in 1..(Len(items[l]) + 1), x \in Unused : InsertItem(l, i, x)
    \/ \E i \in 1..Len(items[l]) : RemoveItem(l, i)
    \/ \E i \in 1..Len(items[l]), x \in Unused : ReplaceItem(l, i, x)
    \/ \E i \in 1..(Len(items[l]) - 1) : SwapItems(l, i)
    \/ ReverseItems(l)
    \/ SortItems(l)
    \/ Clear(l)
    \/ \E m \in Names \ {l} : Concatenate(l, m)

Spec == Init /\ [][Next]_items
=============================================================================
