------------------------------- MODULE Stacks -------------------------------
(***************************************************************************)
(* The stacks of the C++ primer (c++example/): one in an array (stack.cc,  *)
(* templatestack.cc and ArrayStack of inheritstack.cc, which are the same  *)
(* code) and ListStack of inheritstack.cc on the list of c++example/list.cc*)
(* (LinkedList without keys).  An ASSERT that fails gives Aborted.         *)
(***************************************************************************)
EXTENDS LinkedList

Aborted == "aborted"

NewArrayStack(sz) == [stack |-> [k \in 0..(sz - 1) |-> -1], size |-> sz, top |-> 0]
Full(s) == s.top = s.size
Empty(s) == s.top = 0
Push(s, value) == IF Full(s) THEN Aborted ELSE [s EXCEPT !.stack[s.top] = value, !.top = @ + 1]

Pop(s) == IF Empty(s) THEN Aborted ELSE [s |-> [s EXCEPT !.top = @ - 1], value |-> s.stack[s.top - 1]]

\* ListStack pushes at the front of its list, and is never full.
ListPush(l, value) == ListPrepend(l, value)
ListPop(l) == IF ListIsEmpty(l) THEN Aborted ELSE LET r == SortedRemove(l) IN [s |-> r.l, value |-> r.item]

\* SelfTest pushes count, count + 1, ... while there is room, or numToPush of
\* them, and shows what it pops until the stack is empty.
SelfTest(sz, count) ==
    LET pushed[k \in 0..sz] == IF k = 0 THEN NewArrayStack(sz) ELSE Push(pushed[k - 1], count + k - 1)
        popped[k \in 0..sz] ==
            IF k = 0 THEN [s |-> pushed[sz], out |-> <<>>]
            ELSE LET p == Pop(popped[k - 1].s) IN [s |-> p.s, out |-> Append(popped[k - 1].out, p.value)]
    IN  popped[sz]
ListSelfTest(numToPush, count) ==
    LET pushed[k \in 0..numToPush] == IF k = 0 THEN EmptyList ELSE ListPush(pushed[k - 1], count + k - 1)
        popped[k \in 0..numToPush] ==
            IF k = 0 THEN [s |-> pushed[numToPush], out |-> <<>>]
            ELSE LET p == ListPop(popped[k - 1].s) IN [s |-> p.s, out |-> Append(popped[k - 1].out, p.value)]
    IN  popped[numToPush]

-----------------------------------------------------------------------------
\* Both stacks are the same last-in first-out sequence, the top of it first.
StacksAgree(s, l, seq) ==
    /\ s.top = Len(seq)
    /\ \A k \in DOMAIN seq : s.stack[Len(seq) - k] = seq[k]
    /\ ListIsSequence(l, [k \in DOMAIN seq |-> Entry2(seq[k], 0)])
    /\ Full(s) <=> Len(seq) = s.size
    /\ seq # <<>> => Pop(s).value = Head(seq) /\ ListPop(l).value = Head(seq)

\* SelfTest shows the pushed values in reverse and leaves the stack empty.
SelfTestReverses(sz, count) ==
    LET expected == [k \in 1..sz |-> count + sz - k] IN
    /\ SelfTest(sz, count).out = expected /\ Empty(SelfTest(sz, count).s)
    /\ ListSelfTest(sz, count).out = expected /\ ListIsEmpty(ListSelfTest(sz, count).s)
=============================================================================
