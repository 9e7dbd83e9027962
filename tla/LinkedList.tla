----------------------------- MODULE LinkedList -----------------------------
(***************************************************************************)
(* threads/list.cc with its pointers: a list is first, last and the heap   *)
(* of its elements.  The other modules see lists as sequences; here every  *)
(* operation is compared with the one on sequences.  Using an element that *)
(* was deleted is an error of the function application.                    *)
(***************************************************************************)
EXTENDS Integers, Sequences, SequencesExt, FiniteSetsExt

CONSTANT MaxElements   \* a bound on the elements of a list
ASSUME LinkedListAssumption == MaxElements \in Nat \ {0}

NULL == 0
EmptyList == [first |-> NULL, last |-> NULL, heap |-> <<>>]
ListIsEmpty(l) == l.first = NULL
Item(l, e) == l.heap[e].item
NextOf(l, e) == l.heap[e].next

\* new ListElement, at the smallest free place, and delete.
NewElement(l) == Min((1..(MaxElements + 1)) \ DOMAIN l.heap)
Allocated(l, item, key) ==
    [l EXCEPT !.heap = [e \in DOMAIN @ \cup {NewElement(l)} |->
        IF e = NewElement(l) THEN [item |-> item, key |-> key, next |-> NULL] ELSE l.heap[e]]]
Delete(l, e) == [l EXCEPT !.heap = [f \in DOMAIN @ \ {e} |-> l.heap[f]]]

ListAppend(l, item) ==
    LET e == NewElement(l)  new == Allocated(l, item, 0) IN
    IF ListIsEmpty(l) THEN [new EXCEPT !.first = e, !.last = e]
    ELSE [new EXCEPT !.heap[l.last].next = e, !.last = e]
ListPrepend(l, item) ==
    LET e == NewElement(l)  new == Allocated(l, item, 0) IN
    IF ListIsEmpty(l) THEN [new EXCEPT !.first = e, !.last = e]
    ELSE [new EXCEPT !.heap[e].next = l.first, !.first = e]

\* The elements in the order of next: what Mapcar visits.
Mapcar(l) ==
    LET walk[k \in 0..MaxElements + 1] ==
            IF k = 0 THEN <<>>
            ELSE LET seen == walk[k - 1]
                     at == IF seen = <<>> THEN l.first ELSE NextOf(l, Last(seen))
                 IN  IF at = NULL THEN seen ELSE Append(seen, at)
    IN  walk[MaxElements + 1]

\* SortedInsert stops before the first element after the first that is bigger.
StopsBefore(sortKey, key) == sortKey < key
SortedInsert(l, item, sortKey) ==
    LET e == NewElement(l)  new == Allocated(l, item, sortKey)
        stops == {k \in 1..(Len(Mapcar(l)) - 1) : StopsBefore(sortKey, l.heap[Mapcar(l)[k + 1]].key)}
        ptr == Mapcar(l)[Min(stops)]
    IN  IF ListIsEmpty(l) THEN [new EXCEPT !.first = e, !.last = e]
        ELSE IF sortKey < l.heap[l.first].key THEN [new EXCEPT !.heap[e].next = l.first, !.first = e]
        ELSE IF stops # {} THEN [new EXCEPT !.heap[e].next = NextOf(l, ptr), !.heap[ptr].next = e]
        ELSE [new EXCEPT !.heap[l.last].next = e, !.last = e]

\* SortedRemove gives the item and its key; Remove ignores the key.
SortedRemove(l) ==
    IF ListIsEmpty(l) THEN [l |-> l, item |-> NULL, key |-> NULL]
    ELSE [l |-> Delete(IF l.first = l.last THEN [l EXCEPT !.first = NULL, !.last = NULL]
                       ELSE [l EXCEPT !.first = NextOf(l, l.first)], l.first),
          item |-> Item(l, l.first), key |-> l.heap[l.first].key]

\* How RemoveItem takes element e, after prev, off a list of several.
\* Mutant: the last element is treated like one in the middle.
UnlinkKeepsLast(l, e, prev) ==
    IF e = l.first THEN [l EXCEPT !.first = NextOf(l, e)]
    ELSE [l EXCEPT !.heap[prev].next = NextOf(l, e)]
Unlink(l, e, prev) ==
    IF e = l.last THEN [l EXCEPT !.heap[prev].next = NULL, !.last = prev]
    ELSE IF e = l.first THEN [l EXCEPT !.first = NextOf(l, e)]
    ELSE [l EXCEPT !.heap[prev].next = NextOf(l, e)]
RemoveItem(l, item) ==
    LET walk == Mapcar(l)
        hits == {k \in DOMAIN walk : Item(l, walk[k]) = item}
        k == Min(hits)
        prev == IF k = 1 THEN NULL ELSE walk[k - 1]
    IN  IF ListIsEmpty(l) \/ hits = {} THEN [l |-> l, result |-> -1]
        ELSE IF l.first = l.last THEN [l |-> Delete([l EXCEPT !.first = NULL, !.last = NULL], l.first), result |-> 0]
        ELSE [l |-> Delete(Unlink(l, walk[k], prev), walk[k]), result |-> 0]

\* ~List removes until Remove returns NULL.
DeleteList(l) ==
    LET loop[k \in 0..MaxElements + 1] ==
            IF k = 0 THEN [l |-> l, item |-> -1]
            ELSE IF loop[k - 1].item = NULL THEN loop[k - 1]
            ELSE LET r == SortedRemove(loop[k - 1].l) IN [l |-> r.l, item |-> r.item]
    IN  loop[MaxElements + 1].l

-----------------------------------------------------------------------------
(* Lists as sequences of items and keys                                    *)

AsSeq(l) == [k \in DOMAIN Mapcar(l) |-> [item |-> Item(l, Mapcar(l)[k]), key |-> l.heap[Mapcar(l)[k]].key]]
Entry2(item, key) == [item |-> item, key |-> key]
InsertSorted(seq, item, key) ==
    LET before == {k \in DOMAIN seq : \A j \in 1..k : seq[j].key <= key} IN
    SubSeq(seq, 1, Cardinality(before)) \o <<Entry2(item, key)>>
      \o SubSeq(seq, Cardinality(before) + 1, Len(seq))
WithoutFirst(seq, item) ==
    LET at == {k \in DOMAIN seq : seq[k].item = item} IN
    IF at = {} THEN seq ELSE SubSeq(seq, 1, Min(at) - 1) \o SubSeq(seq, Min(at) + 1, Len(seq))

\* The list is the sequence: its elements hang together from first to last, the
\* end is marked by NULL (where ReadyToRun and Append go on), and no element is
\* left behind in the heap or used after it was deleted.
ListIsSequence(l, seq) ==
    LET walk == Mapcar(l) IN
    /\ AsSeq(l) = seq
    /\ {walk[k] : k \in DOMAIN walk} = DOMAIN l.heap
    /\ IF seq = <<>> THEN l.first = NULL /\ l.last = NULL
       ELSE l.last = Last(walk) /\ NextOf(l, l.last) = NULL
    /\ DeleteList(l) = EmptyList
=============================================================================
