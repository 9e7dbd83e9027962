------------------------------- MODULE Lists --------------------------------
(* What the operations of threads/list.cc (Append, Remove, RemoveItem,     *)
(* SortedInsert, on lists seen as sequences) do to what is on a list: the   *)
(* lemmas that the proofs about Kernel, Synch, Interrupt and Process share. *)
EXTENDS Integers, Sequences, SequencesExt, SequenceTheorems, WellFoundedInduction, TLAPS

\* The threads on a list, each there once.
Once(list) == \A i, j \in DOMAIN list : list[i] = list[j] => i = j
On(t, list) == \E i \in DOMAIN list : list[i] = t

\* List::Append of a thread that is not on the list keeps entries unique and
\* adds just that thread.
LEMMA AppendLemma ==
    ASSUME NEW S, NEW list \in Seq(S), NEW x \in S
    PROVE  /\ Append(list, x) \in Seq(S)
           /\ \A t : On(t, Append(list, x)) <=> On(t, list) \/ t = x
           /\ Once(list) /\ ~On(x, list) => Once(Append(list, x))
<1>1. Append(list, x) \in Seq(S)
  OBVIOUS
<1>2. /\ DOMAIN Append(list, x) = 1 .. Len(list) + 1
      /\ \A i \in 1 .. Len(list) : Append(list, x)[i] = list[i]
      /\ Append(list, x)[Len(list) + 1] = x
      /\ DOMAIN list = 1 .. Len(list)
      /\ Len(list) \in Nat
  OBVIOUS
<1>3. \A t : On(t, Append(list, x)) <=> On(t, list) \/ t = x
  BY <1>2 DEF On
<1>4. Once(list) /\ ~On(x, list) => Once(Append(list, x))
  BY <1>2 DEF On, Once
<1>. QED BY <1>1, <1>3, <1>4

\* List::Remove takes the first thread, and only it, off the list.
LEMMA TailLemma ==
    ASSUME NEW S, NEW list \in Seq(S), list # << >>
    PROVE  /\ Head(list) \in S
           /\ On(Head(list), list)
           /\ Tail(list) \in Seq(S)
           /\ \A t : On(t, Tail(list)) => On(t, list)
           /\ \A t : On(t, list) => On(t, Tail(list)) \/ t = Head(list)
           /\ Once(list) => Once(Tail(list)) /\ ~On(Head(list), Tail(list))
<1>1. /\ Len(list) \in Nat \ {0}
      /\ DOMAIN list = 1 .. Len(list)
      /\ DOMAIN Tail(list) = 1 .. Len(list) - 1
      /\ \A i \in 1 .. Len(list) - 1 : Tail(list)[i] = list[i + 1]
      /\ Head(list) = list[1]
      /\ Tail(list) \in Seq(S)
      /\ Head(list) \in S
  OBVIOUS
<1>2. On(Head(list), list)
  BY <1>1 DEF On
<1>3. \A t : On(t, Tail(list)) => On(t, list)
  <2>. SUFFICES ASSUME NEW t, NEW i \in 1 .. Len(list) - 1, Tail(list)[i] = t
                PROVE  On(t, list)
    BY <1>1 DEF On
  <2>1. i + 1 \in 1 .. Len(list) /\ list[i + 1] = t
    BY <1>1
  <2>. QED BY <1>1, <2>1 DEF On
<1>4. \A t : On(t, list) => On(t, Tail(list)) \/ t = Head(list)
  <2>. SUFFICES ASSUME NEW t, NEW i \in 1 .. Len(list), list[i] = t, i # 1
                PROVE  On(t, Tail(list))
    BY <1>1 DEF On
  <2>1. i - 1 \in 1 .. Len(list) - 1 /\ Tail(list)[i - 1] = list[(i - 1) + 1]
    BY <1>1
  <2>2. Tail(list)[i - 1] = t /\ i - 1 \in DOMAIN Tail(list)
    BY <1>1, <2>1
  <2>. QED BY <2>2 DEF On
<1>5. Once(list) => Once(Tail(list)) /\ ~On(Head(list), Tail(list))
  BY <1>1 DEF On, Once
<1>. QED BY <1>1, <1>2, <1>3, <1>4, <1>5

\* List::RemoveItem closes the gap: what is behind the entry moves up by one.
LEMMA RemoveAtElements ==
    ASSUME NEW S, NEW list \in Seq(S), NEW k \in DOMAIN list
    PROVE  /\ RemoveAt(list, k) \in Seq(S)
           /\ Len(RemoveAt(list, k)) = Len(list) - 1
           /\ DOMAIN RemoveAt(list, k) = 1 .. Len(list) - 1
           /\ \A i \in 1 .. Len(list) - 1 :
                RemoveAt(list, k)[i] = IF i < k THEN list[i] ELSE list[i + 1]
<1>. DEFINE new == RemoveAt(list, k)
<1>1. /\ Len(list) \in Nat
      /\ k \in 1 .. Len(list)
      /\ DOMAIN list = 1 .. Len(list)
  OBVIOUS
<1>2. /\ SubSeq(list, 1, k - 1) \in Seq(S)
      /\ Len(SubSeq(list, 1, k - 1)) = k - 1
      /\ \A i \in 1 .. k - 1 : SubSeq(list, 1, k - 1)[i] = list[i]
  BY <1>1
<1>3. /\ SubSeq(list, k + 1, Len(list)) \in Seq(S)
      /\ Len(SubSeq(list, k + 1, Len(list))) = Len(list) - k
      /\ \A i \in 1 .. Len(list) - k : SubSeq(list, k + 1, Len(list))[i] = list[k + i]
  BY <1>1
<1>4. /\ new \in Seq(S)
      /\ Len(new) = Len(list) - 1
      /\ DOMAIN new = 1 .. Len(list) - 1
      /\ \A i \in 1 .. Len(list) - 1 : new[i] = IF i < k THEN list[i] ELSE list[i + 1]
  <2>. DEFINE l == SubSeq(list, 1, k - 1)
              r == SubSeq(list, k + 1, Len(list))
  <2>a. /\ l \o r \in Seq(S)
        /\ Len(l \o r) = Len(l) + Len(r)
        /\ \A i \in 1 .. Len(l) + Len(r) :
             (l \o r)[i] = IF i <= Len(l) THEN l[i] ELSE r[i - Len(l)]
    <3>1. l \in Seq(S) /\ r \in Seq(S)
      BY <1>2, <1>3
    <3>. HIDE DEF l, r
    <3>. QED BY <3>1, ConcatProperties, Zenon
  <2>b. /\ Len(l) = k - 1 /\ Len(r) = Len(list) - k
        /\ \A i \in 1 .. k - 1 : l[i] = list[i]
        /\ \A i \in 1 .. Len(list) - k : r[i] = list[k + i]
    BY <1>2, <1>3
  <2>c. new = l \o r
    BY DEF RemoveAt
  <2>. HIDE DEF l, r, new
  <2>d. /\ new \in Seq(S)
        /\ Len(new) = Len(l) + Len(r)
        /\ \A i \in 1 .. Len(l) + Len(r) :
             new[i] = IF i <= Len(l) THEN l[i] ELSE r[i - Len(l)]
    BY <2>a, <2>c, Zenon
  <2>1. new \in Seq(S) /\ Len(new) = Len(list) - 1
    BY <1>1, <2>b, <2>d
  <2>2. ASSUME NEW i \in 1 .. Len(list) - 1
        PROVE  new[i] = IF i < k THEN list[i] ELSE list[i + 1]
    <3>1. CASE i < k
      BY <1>1, <2>b, <2>d, <3>1
    <3>2. CASE ~(i < k)
      <4>1. new[i] = r[i - (k - 1)]
        BY <1>1, <2>b, <2>d, <3>2
      <4>2. i - (k - 1) \in 1 .. Len(list) - k /\ k + (i - (k - 1)) = i + 1
        BY <1>1, <3>2
      <4>. QED BY <2>b, <3>2, <4>1, <4>2
    <3>. QED BY <3>1, <3>2
  <2>. QED BY <1>1, <2>1, <2>2
<1>. QED BY <1>4

\* List::RemoveItem of what may not be on the list, or more than once.
LEMMA RemoveFirstLemma ==
    ASSUME NEW S, NEW list \in Seq(S), NEW x
    PROVE  RemoveFirst(list, x) \in Seq(S)
<1>. DEFINE I == {i \in 1 .. Len(list) : list[i] = x}
            Less == OpToRel(<, Nat)
<1>1. CASE I # {}
  <2>1. I \subseteq Nat
    OBVIOUS
  <2>2. \E m \in I : \A i \in I : ~(<<i, m>> \in Less)
    BY <1>1, <2>1, NatLessThanWellFounded, WFMin
  <2>3. Less = {ss \in Nat \X Nat : ss[1] < ss[2]}
    BY Zenon DEF OpToRel
  <2>. HIDE DEF Less
  <2>4. \A m, i \in Nat : ~(<<i, m>> \in Less) => m <= i
    BY <2>3
  <2>5. \E m \in I : \A i \in I : m <= i
    BY <2>1, <2>2, <2>4
  <2>6. Min(I) \in I
    BY <2>5 DEF Min
  <2>7. SelectInSeq(list, LAMBDA v : v = x) \in DOMAIN list
    BY <1>1, <2>6 DEF SelectInSeq
  <2>. QED BY <1>1, <2>7, RemoveAtElements DEF RemoveFirst
<1>2. CASE I = {}
  BY <1>2 DEF RemoveFirst
<1>. QED BY <1>1, <1>2

\* List::RemoveItem takes the thread it finds, and only it, off the list.
LEMMA RemoveAtLemma ==
    ASSUME NEW S, NEW list \in Seq(S), NEW k \in DOMAIN list, Once(list)
    PROVE  /\ RemoveAt(list, k) \in Seq(S)
           /\ Once(RemoveAt(list, k))
           /\ \A t : On(t, RemoveAt(list, k)) <=> On(t, list) /\ t # list[k]
<1>. DEFINE new == RemoveAt(list, k)
<1>1. /\ Len(list) \in Nat
      /\ k \in 1 .. Len(list)
      /\ DOMAIN list = 1 .. Len(list)
  OBVIOUS
<1>4. /\ new \in Seq(S)
      /\ Len(new) = Len(list) - 1
      /\ DOMAIN new = 1 .. Len(list) - 1
      /\ \A i \in 1 .. Len(list) - 1 : new[i] = IF i < k THEN list[i] ELSE list[i + 1]
  BY RemoveAtElements
<1>. HIDE DEF new
<1>5. Once(new)
  <2>. SUFFICES ASSUME NEW i \in 1 .. Len(list) - 1, NEW j \in 1 .. Len(list) - 1,
                       new[i] = new[j]
                PROVE  i = j
    BY <1>4 DEF Once
  <2>. DEFINE old(n) == IF n < k THEN n ELSE n + 1
  <2>1. /\ old(i) \in 1 .. Len(list) /\ old(j) \in 1 .. Len(list)
        /\ new[i] = list[old(i)] /\ new[j] = list[old(j)]
    BY <1>1, <1>4
  <2>2. old(i) = old(j)
    BY <1>1, <2>1 DEF Once
  <2>. QED BY <1>1, <2>2
<1>6. ASSUME NEW t, On(t, new) PROVE On(t, list) /\ t # list[k]
  <2>1. PICK i \in 1 .. Len(list) - 1 : new[i] = t
    BY <1>4, <1>6 DEF On
  <2>2. PICK j \in 1 .. Len(list) : j # k /\ list[j] = t
    BY <1>1, <1>4, <2>1
  <2>. QED BY <1>1, <2>2 DEF On, Once
<1>7. ASSUME NEW t, On(t, list), t # list[k] PROVE On(t, new)
  <2>1. PICK j \in 1 .. Len(list) : j # k /\ list[j] = t
    BY <1>1, <1>7 DEF On
  <2>2. CASE j < k
    BY <1>1, <1>4, <2>1, <2>2 DEF On
  <2>3. CASE j > k
    <3>1. j - 1 \in 1 .. Len(list) - 1 /\ new[j - 1] = list[(j - 1) + 1]
      BY <1>1, <1>4, <2>3
    <3>. QED BY <1>1, <1>4, <2>1, <3>1 DEF On
  <2>. QED BY <1>1, <2>1, <2>2, <2>3
<1>. QED BY <1>4, <1>5, <1>6, <1>7 DEF new

\* No thread that is on both lists is further back on the new one.
NotBack(old, new) == \A i \in DOMAIN old, j \in DOMAIN new : old[i] = new[j] => j <= i

\* Append, Remove and RemoveItem are FIFO: nobody who stays moves back, be a
\* newcomer appended or not.
LEMMA FifoLemma ==
    ASSUME NEW S, NEW list \in Seq(S), Once(list)
    PROVE  /\ NotBack(list, list)
           /\ \A x \in S : ~On(x, list) => NotBack(list, Append(list, x))
           /\ list # << >> => NotBack(list, Tail(list))
           /\ list # << >> => \A x \in S : ~On(x, list) => NotBack(list, Append(Tail(list), x))
           /\ \A k \in DOMAIN list : NotBack(list, RemoveAt(list, k))
<1>0. DOMAIN list = 1 .. Len(list) /\ Len(list) \in Nat
  OBVIOUS
<1>1. NotBack(list, list)
  BY <1>0 DEF NotBack, Once
<1>2. ASSUME NEW x \in S, ~On(x, list) PROVE NotBack(list, Append(list, x))
  <2>1. /\ DOMAIN Append(list, x) = 1 .. Len(list) + 1
        /\ \A i \in 1 .. Len(list) : Append(list, x)[i] = list[i]
        /\ Append(list, x)[Len(list) + 1] = x
    OBVIOUS
  <2>. QED BY <1>0, <1>2, <2>1 DEF NotBack, Once, On
<1>3. ASSUME list # << >>
      PROVE  /\ NotBack(list, Tail(list))
             /\ \A x \in S : ~On(x, list) => NotBack(list, Append(Tail(list), x))
  <2>1. /\ Len(list) >= 1
        /\ Tail(list) \in Seq(S)
        /\ Len(Tail(list)) = Len(list) - 1
        /\ DOMAIN Tail(list) = 1 .. Len(list) - 1
        /\ \A i \in 1 .. Len(list) - 1 : Tail(list)[i] = list[i + 1]
    BY <1>3
  <2>2. NotBack(list, Tail(list))
    <3>. SUFFICES ASSUME NEW i \in 1 .. Len(list), NEW j \in 1 .. Len(list) - 1,
                         list[i] = Tail(list)[j]
                  PROVE  j <= i
      BY <1>0, <2>1 DEF NotBack
    <3>1. j + 1 \in 1 .. Len(list) /\ list[i] = list[j + 1]
      BY <1>0, <2>1
    <3>2. i = j + 1
      BY <1>0, <3>1 DEF Once
    <3>. QED BY <3>2
  <2>3. ASSUME NEW x \in S, ~On(x, list) PROVE NotBack(list, Append(Tail(list), x))
    <3>. DEFINE new == Append(Tail(list), x)
    <3>1. /\ DOMAIN new = 1 .. Len(list)
          /\ \A j \in 1 .. Len(list) - 1 : new[j] = Tail(list)[j]
          /\ new[Len(list)] = x
      BY <1>0, <2>1
    <3>. HIDE DEF new
    <3>2. \A i \in 1 .. Len(list) : list[i] # x
      BY <1>0, <2>3 DEF On
    <3>3. \A i \in 1 .. Len(list), j \in 1 .. Len(list) : list[i] = new[j] => j \in 1 .. Len(list) - 1
      BY <1>0, <3>1, <3>2
    <3>4. NotBack(list, new)
      BY <1>0, <2>1, <2>2, <3>1, <3>3 DEF NotBack
    <3>. QED BY <3>4 DEF new
  <2>. QED BY <2>2, <2>3
<1>4. ASSUME NEW k \in DOMAIN list PROVE NotBack(list, RemoveAt(list, k))
  <2>. DEFINE new == RemoveAt(list, k)
  <2>1. /\ DOMAIN new = 1 .. Len(list) - 1
        /\ \A i \in 1 .. Len(list) - 1 : new[i] = IF i < k THEN list[i] ELSE list[i + 1]
    BY RemoveAtElements
  <2>. HIDE DEF new
  <2>. SUFFICES ASSUME NEW i \in 1 .. Len(list), NEW j \in 1 .. Len(list) - 1,
                       list[i] = new[j]
                PROVE  j <= i
    BY <1>0, <2>1 DEF NotBack, new
  <2>2. CASE j < k
    BY <1>0, <2>1, <2>2 DEF Once
  <2>3. CASE ~(j < k)
    <3>1. j + 1 \in 1 .. Len(list) /\ list[i] = list[j + 1]
      BY <1>0, <2>1, <2>3
    <3>2. i = j + 1
      BY <1>0, <3>1 DEF Once
    <3>. QED BY <3>2
  <2>. QED BY <2>2, <2>3
<1>. QED BY <1>1, <1>2, <1>3, <1>4

\* The elements of a list with e put at k.
LEMMA InsertAtElements ==
    ASSUME NEW S, NEW list \in Seq(S), NEW k \in DOMAIN list, NEW e \in S
    PROVE  /\ InsertAt(list, k, e) \in Seq(S)
           /\ Len(InsertAt(list, k, e)) = Len(list) + 1
           /\ \A i \in 1 .. Len(list) + 1 : i < k => InsertAt(list, k, e)[i] = list[i]
           /\ InsertAt(list, k, e)[k] = e
           /\ \A i \in 1 .. Len(list) + 1 : i > k => InsertAt(list, k, e)[i] = list[i - 1]
<1>. DEFINE new == InsertAt(list, k, e)
            l == SubSeq(list, 1, k - 1)
            r == SubSeq(list, k, Len(list))
            m == l \o <<e>>
<1>1. Len(list) \in Nat /\ k \in 1 .. Len(list)
  OBVIOUS
<1>2. /\ l \in Seq(S) /\ Len(l) = k - 1
      /\ \A i \in 1 .. k - 1 : l[i] = list[i]
  BY <1>1
<1>3. /\ r \in Seq(S) /\ Len(r) = Len(list) - k + 1
      /\ \A i \in 1 .. Len(list) - k + 1 : r[i] = list[k + i - 1]
  BY <1>1
<1>4. new = m \o r
  BY DEF InsertAt
<1>5. /\ <<e>> \in Seq(S) /\ Len(<<e>>) = 1 /\ <<e>>[1] = e
  OBVIOUS
<1>6. /\ m \in Seq(S) /\ Len(m) = Len(l) + Len(<<e>>)
      /\ \A i \in 1 .. Len(l) + Len(<<e>>) : m[i] = IF i <= Len(l) THEN l[i] ELSE <<e>>[i - Len(l)]
  <2>. HIDE DEF l
  <2>. QED BY <1>2, <1>5, ConcatProperties, Zenon
<1>7. /\ m \o r \in Seq(S) /\ Len(m \o r) = Len(m) + Len(r)
      /\ \A i \in 1 .. Len(m) + Len(r) : (m \o r)[i] = IF i <= Len(m) THEN m[i] ELSE r[i - Len(m)]
  <2>1. m \in Seq(S) /\ r \in Seq(S)
    BY <1>3, <1>6
  <2>. HIDE DEF m, r
  <2>. QED BY <2>1, ConcatProperties, Zenon
<1>. HIDE DEF new, l, r, m
<1>8. /\ new \in Seq(S) /\ Len(new) = Len(m) + Len(r)
      /\ \A i \in 1 .. Len(m) + Len(r) : new[i] = IF i <= Len(m) THEN m[i] ELSE r[i - Len(m)]
  BY <1>4, <1>7, Zenon
<1>9. Len(m) = k /\ Len(m) + Len(r) = Len(list) + 1
  BY <1>1, <1>2, <1>3, <1>5, <1>6
<1>10. ASSUME NEW i \in 1 .. Len(list) + 1
       PROVE  new[i] = IF i < k THEN list[i] ELSE IF i = k THEN e ELSE list[i - 1]
  <2>1. CASE i < k
    BY <1>1, <1>2, <1>5, <1>6, <1>8, <1>9, <2>1
  <2>2. CASE i = k
    <3>0. k \in 1 .. Len(l) + Len(<<e>>) /\ ~(k <= Len(l))
      BY <1>1, <1>2, <1>5
    <3>a. m[k] = <<e>>[k - Len(l)]
      BY <1>6, <3>0, Zenon
    <3>b. i \in 1 .. Len(m) + Len(r) /\ i <= Len(m)
      BY <1>1, <1>9, <2>2
    <3>1. new[i] = m[k]
      BY <1>8, <2>2, <3>b, Zenon
    <3>2. k - Len(l) = 1
      BY <1>1, <1>2
    <3>. QED BY <1>5, <2>2, <3>a, <3>1, <3>2
  <2>3. CASE i > k
    <3>1. new[i] = r[i - k]
      BY <1>1, <1>8, <1>9, <2>3
    <3>2. i - k \in 1 .. Len(list) - k + 1 /\ k + (i - k) - 1 = i - 1
      BY <1>1, <2>3
    <3>. QED BY <1>3, <2>3, <3>1, <3>2
  <2>. QED BY <1>1, <2>1, <2>2, <2>3
<1>11. k \in 1 .. Len(list) + 1
  BY <1>1
<1>12. \A i \in 1 .. Len(list) + 1 : i < k => new[i] = list[i]
  BY <1>10
<1>13. \A i \in 1 .. Len(list) + 1 : i > k => new[i] = list[i - 1]
  BY <1>1, <1>10
<1>14. new[k] = e
  BY <1>1, <1>10, <1>11
<1>. QED BY <1>8, <1>9, <1>12, <1>13, <1>14 DEF new
=============================================================================
