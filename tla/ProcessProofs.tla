--------------------------- MODULE ProcessProofs ----------------------------
(***************************************************************************)
(* The user processes for any number of threads, address spaces, PCBs,     *)
(* pids and pages, with any of the system calls, with and without the      *)
(* timer and with an allocator that may hand out freed objects again: no   *)
(* pointer is ever to an object of the wrong kind, page tables share no    *)
(* page and the page bitmap is exact, and a live PCB stays the one its pid *)
(* finds until a deleted PCB is used.                                      *)
(*                                                                         *)
(* None of the three is inductive.  All rest on how the routines call each *)
(* other (CallOrder): what a frame returns to decides what the thread may  *)
(* do next with the objects it points to.  PagesExact needs to know that a *)
(* page table that is about to be filled is empty (EmptyUntilFilled), and  *)
(* PidsExact that a pid is free, but not forgotten, only inside the        *)
(* DeallocatePCB of its own PCB (PidInv).                                  *)
(*                                                                         *)
(* The second half is about programs that do not Join or Kill, without the *)
(* timer (Ordinary): no process is harmed, and everything is given back,   *)
(* until memory that a PCB still leads to is handed out again or an Exec   *)
(* finds too little (NoFlaw).  Both follow from OrdinaryInv, which relates *)
(* the objects of a process to each other and to the point the running     *)
(* thread has reached.                                                     *)
(***************************************************************************)
EXTENDS Process, Lists, FiniteSetTheorems, TLAPS

Point == {"user", "allocatePCB", "findPid", "copySpace", "copyPages", "forkThread",
          "deleteSpace", "freePages", "freeSpace", "pcbDtor", "pcbFree",
          "deallocatePCB", "clearPid", "forgetPCB", "children", "self", "exitSpace",
          "finish", "join", "killed", "load"}

\* A frame at p may lie directly on one at q, its caller or what it returns to.
MayCall(p, q) ==
    \/ p \in {"allocatePCB", "findPid"} /\ q = "copySpace"
    \/ p \in {"copySpace", "copyPages", "forkThread", "load", "join", "killed", "finish"}
       /\ q = "user"
    \/ p \in {"deleteSpace", "freePages", "freeSpace"} /\ q \in {"pcbFree", "finish", "load"}
    \/ p \in {"pcbDtor", "pcbFree"} /\ q \in {"forgetPCB", "user"}
    \/ p \in {"deallocatePCB", "clearPid", "forgetPCB"} /\ q \in {"children", "exitSpace"}
    \/ p = "children" /\ q \in {"self", "killed"}
    \/ p = "self" /\ q = "exitSpace"
    \/ p = "exitSpace" /\ q = "finish"

\* The locals a routine needs at a point are there.
FrameType ==
    {f \in [at : Point, pcb : PcbAddr \cup {NULL}, space : SpaceAddr \cup {NULL},
            kids : Seq(PcbAddr), n : Nat] :
        /\ f.at \in {"copyPages", "forkThread", "pcbDtor", "pcbFree", "deallocatePCB",
                     "clearPid", "children", "self", "join", "killed", "load"} => f.pcb \in PcbAddr
        /\ f.at \in {"copyPages", "forkThread", "deleteSpace", "freePages", "freeSpace"}
             => f.space \in SpaceAddr
        /\ f.at = "forgetPCB" => f.n \in Pid}

\* The points of doExit and doKill, below which there are only such points.
Outer == {"children", "self", "killed", "exitSpace", "finish", "user"}

\* A stack on which every frame returns to one that expects it.
CallOrder(s) ==
    /\ \A i \in 1 .. Len(s) - 1 : MayCall(s[i].at, s[i + 1].at)
    /\ \A i, j \in 1 .. Len(s) : i < j /\ s[i].at \in Outer => s[j].at \in Outer
    /\ s # << >> => s[Len(s)].at = "user"

\* A nonempty stack of that kind, whose top frame can go on: the constructor of
\* AddrSpace has the PCB that AllocatePCB returned.
Stackful(s) == s \in Seq(FrameType) /\ s # << >> /\ CallOrder(s)
Ready(s) == Stackful(s) /\ (s[1].at = "copySpace" => s[1].pcb \in PcbAddr)

StackInv ==
    /\ stack \in [ThreadAddr -> Seq(FrameType)]
    /\ \A t \in ThreadAddr :
         /\ stack[t] = << >> <=> tstate[t] \in {"unused", "finished"}
         /\ stack[t] # << >> => Ready(stack[t])
    /\ current # NULL => tstate[current] = "ready"

PcbType == [state : {"unused", "live", "freed"}, pid : Pid, parent : PcbAddr \cup {NULL},
            thread : ThreadAddr \cup {NULL}, exited : BOOLEAN, children : Seq(PcbAddr)]

\* The type invariant, and that a space some thread runs in has a PCB.
ObjectInv ==
    /\ ProcessTypeOK
    /\ pcb \in [PcbAddr -> PcbType]
    /\ misused \in BOOLEAN
    /\ \A t \in ThreadAddr : tspace[t] # NULL => owner[tspace[t]] # NULL

\* The thread t is in a constructor before, or in a destructor after, the moment
\* its space has pages.
EmptyPoint == {"copyPages", "freeSpace"}
Emptying(t) == stack[t] # << >> /\ Head(stack[t]).at \in EmptyPoint
Target(t) == Head(stack[t]).space

\* An object off the heap has no pages, nor has one that is being made or unmade,
\* which only one thread does.
EmptyUntilFilled ==
    /\ \A s \in SpaceAddr : sstate[s] # "live" => pages[s] = {}
    /\ \A t \in ThreadAddr : Emptying(t) => sstate[Target(t)] = "live" /\ pages[Target(t)] = {}
    /\ \A t, u \in ThreadAddr : Emptying(t) /\ Emptying(u) /\ Target(t) = Target(u) => t = u

\* The frames of t from which it will release pcbManagerLock.
LockFrames(t) == {i \in 1 .. Len(stack[t]) : stack[t][i].at \in {"findPid", "clearPid", "forgetPCB"}}

\* Whoever is between Acquire and Release of pcbManagerLock holds it.
LockHeld == \A t \in ThreadAddr : LockFrames(t) # {} => pcbManagerLock = t

\* A forgetPCB frame of t: DeallocatePCB has cleared the bit, not yet pcbs[pid].
Forgets(t, i, pid) == i \in 1 .. Len(stack[t]) /\ stack[t][i].at = "forgetPCB" /\ stack[t][i].n = pid

\* A live PCB whose pid is not taken, or about to be forgotten, is the one that
\* DeallocatePCB is about to delete.
PidInv ==
    ~misused => \A b \in PcbAddr : pcb[b].state = "live" =>
        /\ pcbs[pcb[b].pid] = b
        /\ pcb[b].pid \in usedPids \/ \E t \in ThreadAddr : \E i \in 1 .. Len(stack[t]) : Forgets(t, i, pcb[b].pid)
        /\ \A t \in ThreadAddr : \A i \in 1 .. Len(stack[t]) : Forgets(t, i, pcb[b].pid) =>
             i > 1 /\ stack[t][i - 1].at \in {"pcbDtor", "pcbFree"} /\ stack[t][i - 1].pcb = b

-----------------------------------------------------------------------------
(* Stacks                                                                  *)

\* The top frame of a stack, and what is below it.
LEMMA PopLemma ==
  ASSUME NEW s, Stackful(s)
  PROVE  /\ s[1] \in FrameType /\ Head(s) = s[1]
         /\ Tail(s) \in Seq(FrameType) /\ Len(Tail(s)) = Len(s) - 1 /\ Len(s) \in Nat \ {0}
         /\ \A i \in 1 .. Len(s) - 1 : Tail(s)[i] = s[i + 1]
         /\ s[1].at # "user" => Stackful(Tail(s)) /\ MayCall(s[1].at, Tail(s)[1].at)
         /\ s[1].at = "user" => Len(s) = 1
<1>1. s \in Seq(FrameType) /\ s # << >> /\ CallOrder(s)
  BY DEF Stackful
<1>2. Len(s) \in Nat \ {0} /\ s[1] \in FrameType /\ Head(s) = s[1]
  BY <1>1
<1>n. Len(s) \in Nat /\ Len(s) # 0
  BY <1>1
<1>3. /\ Tail(s) \in Seq(FrameType) /\ Len(Tail(s)) = Len(s) - 1
      /\ \A i \in 1 .. Len(s) - 1 : Tail(s)[i] = s[i + 1]
  BY <1>1, <1>2
<1>4. ASSUME s[1].at # "user" PROVE Stackful(Tail(s)) /\ MayCall(s[1].at, Tail(s)[1].at)
  <2>1. Len(s) > 1
    BY <1>1, <1>2, <1>4 DEF CallOrder
  <2>2. Tail(s) # << >> /\ Tail(s)[1] = s[2] /\ Tail(s)[Len(s) - 1] = s[Len(s)]
    <3>1. Len(s) - 1 \in 1 .. Len(s) - 1 /\ (Len(s) - 1) + 1 = Len(s) /\ 1 \in 1 .. Len(s) - 1
      BY <1>2, <2>1
    <3>2. Tail(s) # << >>
      <4>0. \A n \in Nat : n > 1 => n - 1 # 0
        OBVIOUS
      <4>1. Len(Tail(s)) # 0
        BY <1>n, <1>3, <2>1, <4>0, Zenon
      <4>2. Len(<< >>) = 0
        OBVIOUS
      <4>. QED BY <4>1, <4>2, Zenon
    <3>. QED BY <1>3, <3>1, <3>2
  <2>3. MayCall(s[1].at, s[2].at)
    BY <1>1, <1>2, <2>1 DEF CallOrder
  <2>4. \A i \in 1 .. Len(Tail(s)) - 1 : MayCall(Tail(s)[i].at, Tail(s)[i + 1].at)
    <3>. TAKE i \in 1 .. Len(Tail(s)) - 1
    <3>1. i \in 1 .. Len(s) - 1 /\ i + 1 \in 1 .. Len(s) - 1 /\ (i + 1) + 1 = i + 2
      BY <1>2, <1>3
    <3>2. Tail(s)[i] = s[i + 1] /\ Tail(s)[i + 1] = s[(i + 1) + 1]
      BY <1>3, <3>1
    <3>. QED BY <1>1, <3>1, <3>2 DEF CallOrder
  <2>5. \A i, j \in 1 .. Len(Tail(s)) : i < j /\ Tail(s)[i].at \in Outer => Tail(s)[j].at \in Outer
    <3>. TAKE i, j \in 1 .. Len(Tail(s))
    <3>1. i + 1 \in 1 .. Len(s) /\ j + 1 \in 1 .. Len(s) /\ (i < j => i + 1 < j + 1)
      BY <1>2, <1>3
    <3>2. Tail(s)[i] = s[i + 1] /\ Tail(s)[j] = s[j + 1]
      BY <1>2, <1>3
    <3>. QED BY <1>1, <3>1, <3>2 DEF CallOrder
  <2>6. Tail(s)[Len(Tail(s))].at = "user"
    BY <1>1, <1>3, <2>2 DEF CallOrder
  <2>. QED BY <1>3, <2>2, <2>3, <2>4, <2>5, <2>6 DEF Stackful, CallOrder
<1>5. ASSUME s[1].at = "user" PROVE Len(s) = 1
  <2>1. ASSUME Len(s) > 1 PROVE FALSE
    <3>0. 1 \in 1 .. Len(s) - 1 /\ 1 + 1 = 2
      BY <1>n, <2>1
    <3>1. MayCall(s[1].at, s[2].at)
      BY <1>1, <3>0 DEF CallOrder
    <3>. QED BY <1>5, <3>1 DEF MayCall
  <2>2. \A n \in Nat : n # 0 /\ ~(n > 1) => n = 1
    OBVIOUS
  <2>. QED BY <1>n, <2>1, <2>2, Zenon
<1>. QED BY <1>2, <1>3, <1>4, <1>5

\* A frame is put on a stack whose top frame expects it.
LEMMA PushLemma ==
  ASSUME NEW s, Stackful(s), NEW f \in FrameType, MayCall(f.at, s[1].at)
  PROVE  /\ Stackful(<<f>> \o s) /\ (<<f>> \o s)[1] = f /\ Len(<<f>> \o s) = Len(s) + 1
         /\ \A i \in 1 .. Len(s) : (<<f>> \o s)[i + 1] = s[i]
<1>. DEFINE r == <<f>> \o s
<1>1. s \in Seq(FrameType) /\ s # << >> /\ CallOrder(s) /\ Len(s) \in Nat \ {0}
  BY DEF Stackful
<1>2. r \in Seq(FrameType) /\ Len(r) = Len(s) + 1 /\ r[1] = f
      /\ \A i \in 1 .. Len(s) : r[i + 1] = s[i]
  <2>1. <<f>> \in Seq(FrameType) /\ Len(<<f>>) = 1 /\ <<f>>[1] = f
    OBVIOUS
  <2>2. /\ r \in Seq(FrameType) /\ Len(r) = 1 + Len(s)
        /\ \A i \in 1 .. 1 + Len(s) : r[i] = IF i <= 1 THEN <<f>>[i] ELSE s[i - 1]
    BY <1>1, <2>1, ConcatProperties
  <2>. QED BY <1>1, <2>1, <2>2
<1>. HIDE DEF r
<1>3. \A i \in 1 .. Len(r) - 1 : MayCall(r[i].at, r[i + 1].at)
  <2>. TAKE i \in 1 .. Len(r) - 1
  <2>1. CASE i = 1
    <3>1. r[1] = f /\ r[1 + 1] = s[1]
      BY <1>1, <1>2
    <3>. QED BY <2>1, <3>1
  <2>2. CASE i # 1
    <3>1. PICK k \in 1 .. Len(s) - 1 : i = k + 1
      <4>1. i - 1 \in 1 .. Len(s) - 1 /\ i = (i - 1) + 1
        BY <1>1, <1>2, <2>2
      <4>. QED BY <4>1
    <3>2. r[k + 1] = s[k] /\ r[(k + 1) + 1] = s[k + 1] /\ MayCall(s[k].at, s[k + 1].at)
      BY <1>1, <1>2, <3>1 DEF CallOrder
    <3>. QED BY <3>1, <3>2
  <2>. QED BY <2>1, <2>2
<1>4. \A i, j \in 1 .. Len(r) : i < j /\ r[i].at \in Outer => r[j].at \in Outer
  <2>. SUFFICES ASSUME NEW i \in 1 .. Len(r), NEW j \in 1 .. Len(r), i < j, r[i].at \in Outer
                PROVE  r[j].at \in Outer
    OBVIOUS
  <2>1. PICK l \in 1 .. Len(s) : j = l + 1
    <3>1. j - 1 \in 1 .. Len(s) /\ j = (j - 1) + 1
      BY <1>1, <1>2
    <3>. QED BY <3>1
  <2>2. r[j] = s[l]
    BY <1>2, <2>1
  <2>3. CASE i = 1
    <3>1. s[1].at \in Outer
      BY <1>2, <2>3 DEF MayCall, Outer
    <3>2. l = 1 \/ 1 < l
      BY <1>1
    <3>3. 1 \in 1 .. Len(s)
      BY <1>1
    <3>. QED BY <1>1, <2>2, <3>1, <3>2, <3>3 DEF CallOrder
  <2>4. CASE i # 1
    <3>1. PICK k \in 1 .. Len(s) : i = k + 1
      <4>1. i - 1 \in 1 .. Len(s) /\ i = (i - 1) + 1
        BY <1>1, <1>2, <2>4
      <4>. QED BY <4>1
    <3>2. r[i] = s[k] /\ k < l
      BY <1>1, <1>2, <2>1, <3>1
    <3>. QED BY <1>1, <2>2, <3>2 DEF CallOrder
  <2>. QED BY <2>3, <2>4
<1>5. r # << >> /\ r[Len(r)].at = "user"
  BY <1>1, <1>2 DEF CallOrder
<1>6. Stackful(r)
  BY <1>2, <1>3, <1>4, <1>5 DEF Stackful, CallOrder
<1>. QED BY <1>2, <1>6 DEF r

\* The points at which a thread is inside, or about to end, a DeallocatePCB or
\* an AllocatePCB.
Special == {"findPid", "clearPid", "forgetPCB", "pcbDtor", "pcbFree"}

\* From s to r, d frames went and k frames came, none of them at such a point.
Shifted(s, r) ==
    \E d \in 0 .. Len(s), k \in Nat :
        /\ Len(r) = Len(s) - d + k
        /\ \A i \in 1 .. d : s[i].at \notin Special
        /\ \A i \in 1 .. k : r[i].at \notin Special
        /\ \A i \in 1 .. Len(s) - d : r[i + k] = s[i + d]

\* A stack that is only popped or pushed on is shifted.
LEMMA ShiftLemma ==
  ASSUME NEW s, Stackful(s)
  PROVE  /\ Shifted(s, s)
         /\ s[1].at \notin Special \cup {"user"} => Shifted(s, Tail(s))
<1>1. Len(s) \in Nat \ {0}
  BY PopLemma
<1>2. Shifted(s, s)
  <2>1. Len(s) = Len(s) - 0 + 0
    BY <1>1
  <2>2. \A i \in 1 .. Len(s) - 0 : s[i + 0] = s[i + 0]
    OBVIOUS
  <2>3. 0 \in 0 .. Len(s) /\ 0 \in Nat
    BY <1>1
  <2>4. (\A i \in 1 .. 0 : s[i].at \notin Special)
    OBVIOUS
  <2>. QED BY <2>1, <2>2, <2>3, <2>4 DEF Shifted
<1>3. ASSUME s[1].at \notin Special \cup {"user"} PROVE Shifted(s, Tail(s))
  <2>1. Len(Tail(s)) = Len(s) - 1 + 0 /\ 1 \in 0 .. Len(s) /\ 0 \in Nat
    BY <1>1, PopLemma
  <2>2. \A i \in 1 .. Len(s) - 1 : Tail(s)[i + 0] = s[i + 1]
    BY <1>1, PopLemma
  <2>3. (\A i \in 1 .. 1 : s[i].at \notin Special) /\ (\A i \in 1 .. 0 : Tail(s)[i].at \notin Special)
    BY <1>3
  <2>. QED BY <2>1, <2>2, <2>3 DEF Shifted
<1>. QED BY <1>2, <1>3

\* A frame at no special point that is put on a shifted stack.
LEMMA ShiftPush ==
  ASSUME NEW s, Stackful(s), NEW r, Stackful(r), Shifted(s, r),
         NEW f \in FrameType, MayCall(f.at, r[1].at), f.at \notin Special
  PROVE  Shifted(s, <<f>> \o r)
<1>. DEFINE q == <<f>> \o r
<1>1. Len(s) \in Nat /\ Len(r) \in Nat
  BY PopLemma
<1>2. q[1] = f /\ Len(q) = Len(r) + 1 /\ \A i \in 1 .. Len(r) : q[i + 1] = r[i]
  BY PushLemma
<1>. HIDE DEF q
<1>3. PICK d \in 0 .. Len(s), k \in Nat :
        /\ Len(r) = Len(s) - d + k
        /\ \A i \in 1 .. d : s[i].at \notin Special
        /\ \A i \in 1 .. k : r[i].at \notin Special
        /\ \A i \in 1 .. Len(s) - d : r[i + k] = s[i + d]
  BY DEF Shifted
<1>4. Len(q) = Len(s) - d + (k + 1) /\ k + 1 \in Nat
  BY <1>1, <1>2, <1>3
<1>5. \A i \in 1 .. k + 1 : q[i].at \notin Special
  <2>. TAKE i \in 1 .. k + 1
  <2>1. CASE i = 1
    BY <2>1, <1>2
  <2>2. CASE i # 1
    <3>1. PICK j \in 1 .. k : i = j + 1
      <4>1. i - 1 \in 1 .. k /\ i = (i - 1) + 1
        BY <2>2, <1>3
      <4>. QED BY <4>1
    <3>2. j \in 1 .. Len(r)
      BY <1>1, <1>3, <3>1
    <3>. QED BY <1>2, <1>3, <3>1, <3>2
  <2>. QED BY <2>1, <2>2
<1>6. \A i \in 1 .. Len(s) - d : q[i + (k + 1)] = s[i + d]
  <2>. TAKE i \in 1 .. Len(s) - d
  <2>1. i + k \in 1 .. Len(r) /\ i + (k + 1) = (i + k) + 1
    BY <1>1, <1>3
  <2>. QED BY <1>2, <1>3, <2>1
<1>7. Shifted(s, q)
  BY <1>3, <1>4, <1>5, <1>6 DEF Shifted
<1>. QED BY <1>7 DEF q

\* Four frames are put on a stack, at once and one after the other.
Four(f, g, h, k, s) == <<f, g, h, k>> \o s
OneByOne(f, g, h, k, s) == <<f>> \o (<<g>> \o (<<h>> \o (<<k>> \o s)))

\* A pair of frames is put together from the two.
LEMMA PairLemma == \A a, b \in FrameType : <<a, b>> = <<a>> \o <<b>>
<1>. TAKE a, b \in FrameType
<1>1. <<a>> \in Seq(FrameType) /\ <<b>> \in Seq(FrameType) /\ <<a, b>> \in Seq(FrameType)
      /\ Len(<<a>>) = 1 /\ Len(<<b>>) = 1 /\ Len(<<a, b>>) = 2
  OBVIOUS
<1>2. /\ <<a>> \o <<b>> \in Seq(FrameType) /\ Len(<<a>> \o <<b>>) = 2
      /\ \A i \in 1 .. 2 : (<<a>> \o <<b>>)[i] = IF i <= 1 THEN <<a>>[i] ELSE <<b>>[i - 1]
  BY <1>1, ConcatProperties
<1>3. \A i \in 1 .. 2 : <<a, b>>[i] = IF i <= 1 THEN <<a>>[i] ELSE <<b>>[i - 1]
  OBVIOUS
<1>. DEFINE u == <<a, b>>
            v == <<a>> \o <<b>>
<1>4. u \in Seq(FrameType) /\ v \in Seq(FrameType) /\ Len(u) = Len(v) /\ Len(u) = 2
      /\ \A i \in 1 .. 2 : u[i] = v[i]
  BY <1>1, <1>2, <1>3
<1>. HIDE DEF u, v
<1>5. u = v
  BY <1>4, SeqEqual
<1>. QED BY <1>5 DEF u, v

\* fs \o s, for the numbers of frames that the routines push at once.
LEMMA PushMore ==
  ASSUME NEW s \in Seq(FrameType), NEW f \in FrameType, NEW g \in FrameType
  PROVE  << >> \o s = s /\ <<f, g>> \o s = <<f>> \o (<<g>> \o s)
<1>1. << >> \o s = s
  BY ConcatEmptySeq
<1>2. <<f>> \in Seq(FrameType) /\ <<g>> \in Seq(FrameType)
  OBVIOUS
<1>3. <<f, g>> = <<f>> \o <<g>>
  BY PairLemma
<1>4. <<f>> \o <<g>> \o s = <<f>> \o (<<g>> \o s)
  BY <1>2, ConcatAssociative
<1>. QED BY <1>1, <1>3, <1>4

\* The same for doExit, which pushes four.
LEMMA PushFour ==
  ASSUME NEW s \in Seq(FrameType), NEW f \in FrameType, NEW g \in FrameType,
         NEW h \in FrameType, NEW k \in FrameType
  PROVE  Four(f, g, h, k, s) = OneByOne(f, g, h, k, s)
<1>2. /\ <<f>> \in Seq(FrameType) /\ <<g>> \in Seq(FrameType) /\ <<h>> \in Seq(FrameType)
      /\ <<k>> \in Seq(FrameType) /\ <<f, g>> \in Seq(FrameType) /\ <<h, k>> \in Seq(FrameType)
      /\ <<f, g, h, k>> \in Seq(FrameType)
  OBVIOUS
<1>c. <<f, g, h, k>> = <<f, g>> \o <<h, k>>
  <2>1. Len(<<f, g>>) = 2 /\ Len(<<h, k>>) = 2 /\ Len(<<f, g, h, k>>) = 4
    OBVIOUS
  <2>2. /\ <<f, g>> \o <<h, k>> \in Seq(FrameType) /\ Len(<<f, g>> \o <<h, k>>) = 4
        /\ \A i \in 1 .. 4 : (<<f, g>> \o <<h, k>>)[i] = IF i <= 2 THEN <<f, g>>[i] ELSE <<h, k>>[i - 2]
    BY <1>2, <2>1, ConcatProperties
  <2>3. \A i \in 1 .. 4 : <<f, g, h, k>>[i] = IF i <= 2 THEN <<f, g>>[i] ELSE <<h, k>>[i - 2]
    OBVIOUS
  <2>. QED BY <1>2, <2>1, <2>2, <2>3, SeqEqual
<1>3. <<f, g>> = <<f>> \o <<g>> /\ <<h, k>> = <<h>> \o <<k>> /\ <<f, g, h, k>> = <<f, g>> \o <<h, k>>
  BY <1>c, PairLemma
<1>5. <<h>> \o <<k>> \o s = <<h>> \o (<<k>> \o s) /\ <<h>> \o (<<k>> \o s) \in Seq(FrameType)
  BY <1>2, ConcatAssociative, ConcatProperties
<1>6. <<f, g>> \o <<h, k>> \o s = <<f, g>> \o (<<h, k>> \o s)
  BY <1>2, ConcatAssociative
<1>7. <<f>> \o <<g>> \o (<<h>> \o (<<k>> \o s)) = <<f>> \o (<<g>> \o (<<h>> \o (<<k>> \o s)))
  BY <1>2, <1>5, ConcatAssociative
<1>9. <<f, g, h, k>> \o s = <<f>> \o <<g>> \o (<<h>> \o (<<k>> \o s))
  BY <1>3, <1>5, <1>6
<1>. QED BY <1>7, <1>9, Zenon DEF Four, OneByOne

-----------------------------------------------------------------------------
(* What the actions do to the running thread's stack                       *)

\* Frames as the routines make them.
LEMMA Frames ==
  /\ \A at \in {"user", "allocatePCB", "findPid", "copySpace", "exitSpace", "finish"} :
       Plain(at) \in FrameType /\ Plain(at).at = at
  /\ \A b \in PcbAddr : \A at \in {"copySpace", "pcbDtor", "pcbFree", "deallocatePCB", "clearPid",
                                   "self", "join", "killed"} :
       OnPcb(at, b) \in FrameType /\ OnPcb(at, b).at = at /\ OnPcb(at, b).pcb = b
  /\ \A x \in SpaceAddr : \A at \in {"deleteSpace", "freePages", "freeSpace"} :
       OnSpace(at, x) \in FrameType /\ OnSpace(at, x).at = at /\ OnSpace(at, x).space = x
  /\ \A b \in PcbAddr, x \in SpaceAddr : \A at \in {"copyPages", "forkThread"} :
       Frame(at, b, x, << >>, 0) \in FrameType /\ Frame(at, b, x, << >>, 0).at = at
       /\ Frame(at, b, x, << >>, 0).space = x
  /\ \A b \in PcbAddr, ks \in Seq(PcbAddr) :
       Frame("children", b, NULL, ks, 0) \in FrameType /\ Frame("children", b, NULL, ks, 0).at = "children"
  /\ \A b \in PcbAddr, n \in Nat :
       Frame("load", b, NULL, << >>, n) \in FrameType /\ Frame("load", b, NULL, << >>, n).at = "load"
  /\ \A pid \in Pid : Frame("forgetPCB", NULL, NULL, << >>, pid) \in FrameType
       /\ Frame("forgetPCB", NULL, NULL, << >>, pid).at = "forgetPCB"
       /\ Frame("forgetPCB", NULL, NULL, << >>, pid).n = pid
<1>. USE DEF Frame, FrameType, Point
<1>0. << >> \in Seq(PcbAddr) /\ 0 \in Nat /\ Pid \subseteq Nat
  BY ProcessAssumption DEF Pid
<1>1. \A at \in {"user", "allocatePCB", "findPid", "copySpace", "exitSpace", "finish"} :
       Plain(at) \in FrameType /\ Plain(at).at = at
  BY <1>0 DEF Plain
<1>2. \A b \in PcbAddr : \A at \in {"copySpace", "pcbDtor", "pcbFree", "deallocatePCB", "clearPid",
                                   "self", "join", "killed"} :
       OnPcb(at, b) \in FrameType /\ OnPcb(at, b).at = at /\ OnPcb(at, b).pcb = b
  BY <1>0 DEF OnPcb
<1>3. \A x \in SpaceAddr : \A at \in {"deleteSpace", "freePages", "freeSpace"} :
       OnSpace(at, x) \in FrameType /\ OnSpace(at, x).at = at /\ OnSpace(at, x).space = x
  BY <1>0 DEF OnSpace
<1>4. \A b \in PcbAddr, x \in SpaceAddr : \A at \in {"copyPages", "forkThread"} :
       Frame(at, b, x, << >>, 0) \in FrameType /\ Frame(at, b, x, << >>, 0).at = at
       /\ Frame(at, b, x, << >>, 0).space = x
  BY <1>0
<1>5. \A b \in PcbAddr, ks \in Seq(PcbAddr) :
       Frame("children", b, NULL, ks, 0) \in FrameType /\ Frame("children", b, NULL, ks, 0).at = "children"
  BY <1>0
<1>6. \A b \in PcbAddr, n \in Nat :
       Frame("load", b, NULL, << >>, n) \in FrameType /\ Frame("load", b, NULL, << >>, n).at = "load"
  BY <1>0
<1>7. \A pid \in Pid : Frame("forgetPCB", NULL, NULL, << >>, pid) \in FrameType
       /\ Frame("forgetPCB", NULL, NULL, << >>, pid).at = "forgetPCB"
       /\ Frame("forgetPCB", NULL, NULL, << >>, pid).n = pid
  BY <1>0
<1>. QED BY <1>1, <1>2, <1>3, <1>4, <1>5, <1>6, <1>7

\* The running thread has a stack.
LEMMA Running ==
  ASSUME StackInv, ObjectInv, current # NULL
  PROVE  /\ current \in ThreadAddr /\ tstate[current] = "ready"
         /\ Ready(stack[current]) /\ Stackful(stack[current])
         /\ Top = stack[current][1] /\ Top \in FrameType
<1>1. current \in ThreadAddr /\ tstate[current] = "ready"
  BY DEF StackInv, ObjectInv, ProcessTypeOK
<1>2. Ready(stack[current])
  BY <1>1 DEF StackInv
<1>3. Stackful(stack[current])
  BY <1>2 DEF Ready
<1>. QED BY <1>1, <1>2, <1>3, PopLemma DEF Top, me

\* The running thread's stack is shifted to one whose top is at no point of Q.
Moved(Q) ==
    \E r \in Seq(FrameType) :
        /\ Ready(r) /\ Shifted(stack[current], r) /\ r[1].at \notin Q
        /\ stack' = [stack EXCEPT ![current] = r]

\* A routine returns.
LEMMA ReturnMoves ==
  ASSUME StackInv, ObjectInv, current # NULL, Return,
         Top.at \notin Special \cup {"user", "allocatePCB"}
  PROVE  Moved(EmptyPoint)
<1>. DEFINE s == stack[current]
            r == Tail(s)
<1>1. Stackful(s) /\ s[1].at = Top.at
  BY Running
<1>2. stack' = [stack EXCEPT ![current] = r]
  <2>1. << >> \o Tail(s) = Tail(s)
    BY <1>1, PopLemma, ConcatEmptySeq
  <2>. QED BY <2>1 DEF Return, Become, me
<1>. HIDE DEF s
<1>3. Stackful(r) /\ MayCall(Top.at, r[1].at) /\ Shifted(s, r)
  BY <1>1, PopLemma, ShiftLemma
<1>4. r[1].at \notin EmptyPoint /\ r[1].at # "copySpace"
  BY <1>3 DEF MayCall, EmptyPoint, Special
<1>5. r \in Seq(FrameType)
  BY <1>3 DEF Stackful
<1>. QED BY <1>2, <1>3, <1>4, <1>5 DEF Moved, Ready, s

\* A routine goes on to its next point, or calls another as the last it does.
LEMMA BecomeMoves ==
  ASSUME StackInv, ObjectInv, current # NULL, NEW f \in FrameType, Become(<<f>>),
         Top.at \notin Special \cup {"user"}, f.at \notin Special \cup {"copySpace"},
         \A q \in Point : MayCall(Top.at, q) => MayCall(f.at, q), NEW Q, f.at \notin Q
  PROVE  Moved(Q)
<1>. DEFINE s == stack[current]
            r == <<f>> \o Tail(s)
<1>1. Stackful(s) /\ s[1].at = Top.at
  BY Running
<1>2. stack' = [stack EXCEPT ![current] = r]
  BY DEF Become, me
<1>. HIDE DEF s
<1>3. Stackful(Tail(s)) /\ MayCall(Top.at, Tail(s)[1].at) /\ Shifted(s, Tail(s))
  BY <1>1, PopLemma, ShiftLemma
<1>4. Tail(s)[1].at \in Point
  BY <1>3, PopLemma DEF FrameType
<1>5. MayCall(f.at, Tail(s)[1].at)
  BY <1>3, <1>4
<1>6. Stackful(r) /\ r[1] = f /\ Shifted(s, r)
  BY <1>1, <1>3, <1>5, PushLemma, ShiftPush
<1>7. r \in Seq(FrameType) /\ Ready(r)
  BY <1>6 DEF Stackful, Ready
<1>. QED BY <1>2, <1>6, <1>7 DEF Moved, s

\* A routine calls another, to which it will return.
LEMMA BecomeTwoMoves ==
  ASSUME StackInv, ObjectInv, current # NULL, NEW f \in FrameType, NEW g \in FrameType, Become(<<f, g>>),
         Top.at \notin Special \cup {"user"}, f.at \notin Special \cup {"copySpace"} \cup EmptyPoint,
         g.at \notin Special, MayCall(f.at, g.at),
         \A q \in Point : MayCall(Top.at, q) => MayCall(g.at, q)
  PROVE  Moved(EmptyPoint)
<1>. DEFINE s == stack[current]
            q == <<g>> \o Tail(s)
            r == <<f>> \o q
<1>1. Stackful(s) /\ s[1].at = Top.at
  BY Running
<1>2. Stackful(Tail(s)) /\ MayCall(Top.at, Tail(s)[1].at) /\ Shifted(s, Tail(s)) /\ Tail(s) \in Seq(FrameType)
  BY <1>1, PopLemma, ShiftLemma
<1>3. stack' = [stack EXCEPT ![current] = r]
  <2>1. <<f, g>> \o Tail(s) = r
    BY <1>2, PushMore
  <2>. QED BY <2>1 DEF Become, me
<1>. HIDE DEF s
<1>4. Tail(s)[1].at \in Point
  BY <1>2, PopLemma DEF FrameType
<1>5. MayCall(g.at, Tail(s)[1].at)
  BY <1>2, <1>4
<1>6. Stackful(q) /\ q[1] = g /\ Shifted(s, q)
  BY <1>1, <1>2, <1>5, PushLemma, ShiftPush
<1>7. Stackful(r) /\ r[1] = f /\ Shifted(s, r)
  <2>. HIDE DEF q
  <2>. QED BY <1>1, <1>6, PushLemma, ShiftPush
<1>8. r \in Seq(FrameType) /\ Ready(r)
  BY <1>7 DEF Stackful, Ready
<1>. QED BY <1>3, <1>7, <1>8 DEF Moved, s

\* User code calls the kernel: doJoin puts one frame on the stack.
LEMMA CallMoves ==
  ASSUME StackInv, ObjectInv, current # NULL, NEW f \in FrameType, Call(<<f>>), Top.at = "user",
         f.at \notin Special \cup {"copySpace"} \cup EmptyPoint, MayCall(f.at, "user")
  PROVE  Moved(EmptyPoint)
<1>. DEFINE s == stack[current]
            r == <<f>> \o s
<1>1. Stackful(s) /\ s[1].at = "user"
  BY Running
<1>2. stack' = [stack EXCEPT ![current] = r]
  BY DEF Call, me
<1>. HIDE DEF s
<1>3. Stackful(r) /\ r[1] = f /\ Shifted(s, r)
  BY <1>1, PushLemma, ShiftPush, ShiftLemma
<1>4. r \in Seq(FrameType) /\ Ready(r)
  BY <1>3 DEF Stackful, Ready
<1>. QED BY <1>2, <1>3, <1>4 DEF Moved, s

\* A system call that works in two steps.
LEMMA CallTwoMoves ==
  ASSUME StackInv, ObjectInv, current # NULL, NEW f \in FrameType, NEW g \in FrameType,
         Call(<<f, g>>), Top.at = "user",
         f.at \notin Special \cup {"copySpace"} \cup EmptyPoint, g.at \notin Special,
         MayCall(f.at, g.at), MayCall(g.at, "user")
  PROVE  Moved(EmptyPoint)
<1>. DEFINE s == stack[current]
            q == <<g>> \o s
            r == <<f>> \o q
<1>1. Stackful(s) /\ s[1].at = "user" /\ s \in Seq(FrameType)
  BY Running DEF Stackful
<1>2. stack' = [stack EXCEPT ![current] = r]
  <2>1. <<f, g>> \o s = r
    BY <1>1, PushMore
  <2>. QED BY <2>1 DEF Call, me
<1>. HIDE DEF s
<1>3. Stackful(q) /\ q[1] = g /\ Shifted(s, q)
  BY <1>1, PushLemma, ShiftPush, ShiftLemma
<1>4. Stackful(r) /\ r[1] = f /\ Shifted(s, r)
  <2>. HIDE DEF q
  <2>. QED BY <1>1, <1>3, PushLemma, ShiftPush
<1>5. r \in Seq(FrameType) /\ Ready(r)
  BY <1>4 DEF Stackful, Ready
<1>. QED BY <1>2, <1>4, <1>5 DEF Moved, s

\* doExit, which works in four.
LEMMA CallFourMoves ==
  ASSUME StackInv, ObjectInv, current # NULL,
         NEW f \in FrameType, NEW g \in FrameType, NEW h \in FrameType, NEW k \in FrameType,
         Call(<<f, g, h, k>>), Top.at = "user",
         f.at = "children", g.at = "self", h.at = "exitSpace", k.at = "finish"
  PROVE  Moved(EmptyPoint)
<1>. DEFINE s == stack[current]
            n == <<k>> \o s
            p == <<h>> \o n
            q == <<g>> \o p
            r == <<f>> \o q
<1>0. /\ MayCall("finish", "user") /\ MayCall("exitSpace", "finish")
      /\ MayCall("self", "exitSpace") /\ MayCall("children", "self")
      /\ {"children", "self", "exitSpace", "finish"} \cap (Special \cup EmptyPoint) = {}
  BY DEF MayCall, Special, EmptyPoint
<1>1. Stackful(s) /\ s[1].at = "user" /\ s \in Seq(FrameType)
  BY Running DEF Stackful
<1>2. stack' = [stack EXCEPT ![current] = r]
  <2>0. s \in Seq(FrameType)
    BY <1>1
  <2>1. Four(f, g, h, k, s) = OneByOne(f, g, h, k, s)
    BY <2>0, PushFour
  <2>2. <<f, g, h, k>> \o s = r
    BY <2>1, Zenon DEF Four, OneByOne
  <2>. QED BY <2>2, Zenon DEF Call, me
<1>. HIDE DEF s
<1>3. Stackful(n) /\ n[1] = k /\ Shifted(s, n)
  BY <1>0, <1>1, PushLemma, ShiftPush, ShiftLemma
<1>. HIDE DEF n
<1>4. Stackful(p) /\ p[1] = h /\ Shifted(s, p)
  BY <1>0, <1>1, <1>3, PushLemma, ShiftPush
<1>. HIDE DEF p
<1>5. Stackful(q) /\ q[1] = g /\ Shifted(s, q)
  BY <1>0, <1>1, <1>4, PushLemma, ShiftPush
<1>. HIDE DEF q
<1>6. Stackful(r) /\ r[1] = f /\ Shifted(s, r)
  BY <1>0, <1>1, <1>5, PushLemma, ShiftPush
<1>7. r \in Seq(FrameType) /\ Ready(r)
  BY <1>6 DEF Stackful, Ready
<1>8. r[1].at \notin EmptyPoint
  BY <1>0, <1>6
<1>. QED BY <1>2, <1>6, <1>7, <1>8 DEF Moved, s

\* A release wakes a sleeper and RemoveThread takes a ready thread off the list:
\* neither stops the running thread, nor makes or ends one.
LEMMA TstateLemma ==
  ASSUME StackInv, ObjectInv, current # NULL,
         UNCHANGED tstate \/ (\E points : WakeOne(points)) \/ (\E v : RemoveThread(v))
  PROVE  /\ tstate' \in [ThreadAddr -> {"unused", "ready", "asleep", "removed", "finished"}]
         /\ tstate'[current] = "ready"
         /\ \A t \in ThreadAddr : tstate'[t] \in {"unused", "finished"} <=> tstate[t] \in {"unused", "finished"}
<1>1. /\ tstate \in [ThreadAddr -> {"unused", "ready", "asleep", "removed", "finished"}]
      /\ current \in ThreadAddr /\ tstate[current] = "ready"
  BY Running DEF ObjectInv, ProcessTypeOK
<1>2. CASE UNCHANGED tstate
  BY <1>1, <1>2
<1>3. ASSUME NEW points, WakeOne(points)
      PROVE  UNCHANGED tstate \/ \E t \in ThreadAddr : tstate[t] = "asleep" /\ tstate' = [tstate EXCEPT ![t] = "ready"]
  BY <1>3 DEF WakeOne, Asleep
<1>4. CASE \E t \in ThreadAddr : tstate[t] = "asleep" /\ tstate' = [tstate EXCEPT ![t] = "ready"]
  BY <1>1, <1>4
<1>5. ASSUME NEW v, RemoveThread(v)
      PROVE  /\ tstate' = [x \in ThreadAddr |-> IF x = v /\ v # current /\ tstate[v] = "ready"
                                                THEN "removed" ELSE tstate[x]]
  BY <1>5 DEF RemoveThread, me
<1>6. CASE \E v : RemoveThread(v)
  <2>1. PICK v : tstate' = [x \in ThreadAddr |-> IF x = v /\ v # current /\ tstate[v] = "ready"
                                                 THEN "removed" ELSE tstate[x]]
    BY <1>5, <1>6
  <2>. QED BY <1>1, <2>1
<1>. QED BY <1>2, <1>3, <1>4, <1>6

\* The running thread's stack is replaced.
LEMMA Replaced ==
  ASSUME StackInv, ObjectInv, current # NULL, NEW r, Ready(r),
         stack' = [stack EXCEPT ![current] = r], current' = current,
         UNCHANGED tstate \/ (\E points : WakeOne(points)) \/ (\E v : RemoveThread(v))
  PROVE  StackInv'
<1>1. /\ tstate'[current] = "ready" /\ current \in ThreadAddr
      /\ \A t \in ThreadAddr : tstate'[t] \in {"unused", "finished"} <=> tstate[t] \in {"unused", "finished"}
  BY TstateLemma, Running
<1>2. stack \in [ThreadAddr -> Seq(FrameType)] /\ r \in Seq(FrameType) /\ r # << >>
  BY DEF StackInv, Ready, Stackful
<1>3. stack' \in [ThreadAddr -> Seq(FrameType)] /\ stack'[current] = r
      /\ \A t \in ThreadAddr : t # current => stack'[t] = stack[t]
  BY <1>1, <1>2
<1>4. ASSUME NEW t \in ThreadAddr
      PROVE  /\ stack'[t] = << >> <=> tstate'[t] \in {"unused", "finished"}
             /\ stack'[t] # << >> => Ready(stack'[t])
  <2>1. CASE t = current
    <3>1. tstate'[t] \notin {"unused", "finished"}
      BY <1>1, <2>1
    <3>. QED BY <1>2, <1>3, <2>1, <3>1, Zenon
  <2>2. CASE t # current
    BY <1>1, <1>3, <2>2 DEF StackInv
  <2>. QED BY <2>1, <2>2
<1>. QED BY <1>1, <1>3, <1>4 DEF StackInv, Ready, Stackful, CallOrder

-----------------------------------------------------------------------------
(* What the actions leave alone                                            *)

\* The stacks stay, and at most the running thread gives up the CPU, or a ready
\* one gets it.
StillStep ==
    /\ stack' = stack
    /\ \/ /\ tstate' = tstate
          /\ current' \in {current, NULL} \/ (current' \in ThreadAddr /\ tstate[current'] = "ready")
       \/ current # NULL /\ tstate' = [tstate EXCEPT ![current] = "asleep"] /\ current' = NULL

\* The running thread goes on, with its stack shifted.
MoveStep(Q) ==
    /\ current # NULL /\ current' = current
    /\ UNCHANGED tstate \/ (\E points : WakeOne(points)) \/ (\E v : RemoveThread(v))
    /\ Moved(Q)

SamePages == UNCHANGED <<sstate, pages, usedPages>>

SamePids ==
    /\ UNCHANGED <<pcbs, usedPids, pcbManagerLock>>
    /\ \A b \in PcbAddr : pcb'[b].state = pcb[b].state /\ pcb'[b].pid = pcb[b].pid
    /\ ~misused' => ~misused

DullStep == (StillStep \/ MoveStep(EmptyPoint)) /\ SamePages /\ SamePids

\* A thread in user code has an address space, which has a PCB.
LEMMA UserLemma ==
  ASSUME StackInv, ObjectInv, NEW call, InUser(call)
  PROVE  current # NULL /\ Top.at = "user" /\ Mine \in SpaceAddr /\ MyPcb \in PcbAddr
<1>1. current # NULL /\ Top.at = "user" /\ Mine \in SpaceAddr
  BY DEF InUser, At, SpaceGone, me
<1>2. current \in ThreadAddr /\ Mine # NULL
  BY <1>1, Running, ProcessAssumption
<1>. QED BY <1>1, <1>2 DEF ObjectInv, ProcessTypeOK, MyPcb, Mine, me

\* Sleeping in Acquire, and dying.
LEMMA SleepAndCrash ==
  ASSUME ObjectInv, current # NULL, SleepInAcquire \/ (\E why : Crash(why))
  PROVE  DullStep
<1>1. CASE SleepInAcquire
  <2>1. StillStep
    BY <1>1 DEF SleepInAcquire, StillStep, me
  <2>2. SamePages /\ SamePids
    BY <1>1 DEF SleepInAcquire, SamePages, SamePids, spaceVars, pidVars, lockVars, histVars
  <2>. QED BY <2>1, <2>2 DEF DullStep
<1>2. CASE \E why : Crash(why)
  <2>1. StillStep
    BY <1>2 DEF Crash, StillStep, threadVars
  <2>2. SamePages /\ SamePids
    BY <1>2 DEF Crash, SamePages, SamePids, spaceVars, pidVars, lockVars, histVars
  <2>. QED BY <2>1, <2>2 DEF DullStep
<1>. QED BY <1>1, <1>2

\* The scheduler, the crashes and the waits.
LEMMA StillSteps ==
  ASSUME StackInv, ObjectInv,
         GiveWay \/ Dispatch \/ Over \/ NullSpace \/ JoinWaits \/ KillFreed \/ UNCHANGED vars
  PROVE  DullStep
<1>. USE DEF StillStep, SamePages, SamePids, threadVars, spaceVars, pidVars, lockVars, histVars
<1>1. CASE GiveWay
  BY <1>1 DEF GiveWay, DullStep
<1>2. CASE Dispatch
  <2>1. StillStep
    BY <1>2 DEF Dispatch
  <2>. QED BY <1>2, <2>1 DEF Dispatch, DullStep
<1>3. CASE Over \/ UNCHANGED vars
  BY <1>3 DEF Over, DullStep, vars
<1>4. CASE NullSpace \/ KillFreed
  <2>1. current # NULL /\ \E why : Crash(why)
    BY <1>4 DEF NullSpace, KillFreed, InUser, At, me
  <2>. QED BY <2>1, SleepAndCrash
<1>5. CASE JoinWaits
  <2>1. StillStep /\ SamePages
    BY <1>5 DEF JoinWaits
  <2>2. ~misused' => ~misused
    BY <1>5 DEF JoinWaits, Uses, ObjectInv
  <2>3. SamePids
    BY <1>5, <2>2 DEF JoinWaits
  <2>. QED BY <2>1, <2>3 DEF DullStep
<1>. QED BY <1>1, <1>2, <1>3, <1>4, <1>5

\* The calls of user code: doFork, doExit, doJoin, doKill, doExec.
LEMMA CallSteps ==
  ASSUME StackInv, ObjectInv, doFork \/ doExit \/ doJoin \/ doKill \/ doExec
  PROVE  DullStep
<1>. USE DEF spaceVars, pidVars, lockVars, histVars
<1>0. /\ {"allocatePCB", "join", "children", "deleteSpace"}
            \cap (Special \cup {"copySpace"} \cup EmptyPoint) = {}
      /\ {"copySpace", "killed", "load"} \cap Special = {}
      /\ MayCall("allocatePCB", "copySpace") /\ MayCall("copySpace", "user")
      /\ MayCall("join", "user") /\ MayCall("children", "killed") /\ MayCall("killed", "user")
      /\ MayCall("deleteSpace", "load") /\ MayCall("load", "user")
  BY DEF Special, EmptyPoint, MayCall
<1>t. pcb \in [PcbAddr -> PcbType] /\ pcbs \in [Pid -> PcbAddr \cup {NULL}] /\ misused \in BOOLEAN
  BY DEF ObjectInv, ProcessTypeOK
<1>1. CASE doFork
  <2>1. current # NULL /\ Top.at = "user"
    BY <1>1, UserLemma DEF doFork
  <2>2. Call(<<Plain("allocatePCB"), Plain("copySpace")>>)
    BY <1>1 DEF doFork
  <2>3. /\ Plain("allocatePCB") \in FrameType /\ Plain("allocatePCB").at = "allocatePCB"
        /\ Plain("copySpace") \in FrameType /\ Plain("copySpace").at = "copySpace"
    BY Frames
  <2>4. Moved(EmptyPoint)
    BY <1>0, <2>1, <2>2, <2>3, CallTwoMoves
  <2>5. MoveStep(EmptyPoint)
    BY <1>1, <2>1, <2>4 DEF doFork, MoveStep
  <2>6. SamePages /\ SamePids
    BY <1>1 DEF doFork, SamePages, SamePids
  <2>. QED BY <2>5, <2>6 DEF DullStep
<1>2. CASE doExit
  <2>1. current # NULL /\ Top.at = "user" /\ MyPcb \in PcbAddr
    BY <1>2, UserLemma DEF doExit
  <2>. DEFINE b == MyPcb
              f == Frame("children", b, NULL, pcb[b].children, 0)
  <2>2. Call(<<f, OnPcb("self", b), Plain("exitSpace"), Plain("finish")>>)
    BY <1>2 DEF doExit, StartExit
  <2>3. pcb[b].children \in Seq(PcbAddr)
    BY <1>t, <2>1 DEF PcbType
  <2>4. /\ f \in FrameType /\ f.at = "children"
        /\ OnPcb("self", b) \in FrameType /\ OnPcb("self", b).at = "self"
        /\ Plain("exitSpace") \in FrameType /\ Plain("exitSpace").at = "exitSpace"
        /\ Plain("finish") \in FrameType /\ Plain("finish").at = "finish"
    BY <2>1, <2>3, Frames
  <2>. HIDE DEF f
  <2>5. Moved(EmptyPoint)
    BY <2>1, <2>2, <2>4, CallFourMoves
  <2>6. MoveStep(EmptyPoint)
    BY <1>2, <2>1, <2>5 DEF doExit, StartExit, MoveStep
  <2>7. SamePages
    BY <1>2 DEF doExit, StartExit, SamePages
  <2>8. ~misused' => ~misused
    BY <1>2, <1>t DEF doExit, StartExit, Uses
  <2>9. pcb' = [pcb EXCEPT ![b].exited = TRUE]
    BY <1>2 DEF doExit, StartExit
  <2>10. \A c \in PcbAddr : pcb'[c].state = pcb[c].state /\ pcb'[c].pid = pcb[c].pid
    BY <1>t, <2>1, <2>9 DEF PcbType
  <2>11. SamePids
    BY <1>2, <2>8, <2>10 DEF doExit, StartExit, SamePids
  <2>. QED BY <2>6, <2>7, <2>11 DEF DullStep
<1>3. CASE doJoin
  <2>1. current # NULL /\ Top.at = "user"
    BY <1>3, UserLemma DEF doJoin
  <2>2. PICK pid \in Pid : pcbs[pid] # NULL /\ Call(<<OnPcb("join", pcbs[pid])>>)
    BY <1>3 DEF doJoin
  <2>3. pcbs[pid] \in PcbAddr
    BY <1>t, <2>2
  <2>4. OnPcb("join", pcbs[pid]) \in FrameType /\ OnPcb("join", pcbs[pid]).at = "join"
    BY <2>3, Frames
  <2>5. Moved(EmptyPoint)
    BY <1>0, <2>1, <2>2, <2>4, CallMoves
  <2>6. MoveStep(EmptyPoint)
    BY <1>3, <2>1, <2>5 DEF doJoin, MoveStep
  <2>7. SamePages /\ SamePids
    BY <1>3 DEF doJoin, SamePages, SamePids
  <2>. QED BY <2>6, <2>7 DEF DullStep
<1>4. CASE doKill
  <2>1. current # NULL /\ Top.at = "user"
    BY <1>4, UserLemma DEF doKill
  <2>2. PICK pid \in Pid :
          LET b == pcbs[pid]
              p == pcb[b].parent
          IN  /\ b # NULL
              /\ RemoveThread(pcb[b].thread)
              /\ Call(<<Frame("children", b, NULL, pcb[b].children, 0), OnPcb("killed", b)>>)
              /\ pcb' = IF p = NULL THEN pcb
                        ELSE [pcb EXCEPT ![p].children = RemoveFirst(@, b)]
              /\ misused' = (misused \/ (p # NULL /\ pcb[p].state # "live"))
    BY <1>4 DEF doKill
  <2>. DEFINE b == pcbs[pid]
              f == Frame("children", b, NULL, pcb[b].children, 0)
  <2>3. b \in PcbAddr
    BY <1>t, <2>2
  <2>4. pcb[b].children \in Seq(PcbAddr)
    BY <1>t, <2>3 DEF PcbType
  <2>5. /\ f \in FrameType /\ f.at = "children"
        /\ OnPcb("killed", b) \in FrameType /\ OnPcb("killed", b).at = "killed"
    BY <2>3, <2>4, Frames
  <2>6. Call(<<f, OnPcb("killed", b)>>)
    BY <2>2
  <2>a. \E v : RemoveThread(v)
    BY <2>2
  <2>b. ~misused' => ~misused
    BY <2>2, <1>t
  <2>c. \A c \in PcbAddr : pcb'[c].state = pcb[c].state /\ pcb'[c].pid = pcb[c].pid
    <3>1. PICK p, ks : pcb' = pcb \/ pcb' = [pcb EXCEPT ![p].children = ks]
      BY <2>2
    <3>. QED BY <1>t, <3>1 DEF PcbType
  <2>. HIDE DEF f, b
  <2>7. Moved(EmptyPoint)
    BY <1>0, <2>1, <2>5, <2>6, CallTwoMoves
  <2>8. MoveStep(EmptyPoint)
    BY <1>4, <2>1, <2>7, <2>a DEF doKill, MoveStep
  <2>9. SamePages /\ SamePids
    BY <1>4, <2>b, <2>c DEF doKill, SamePages, SamePids
  <2>. QED BY <2>8, <2>9 DEF DullStep
<1>5. CASE doExec
  <2>1. current # NULL /\ Top.at = "user" /\ Mine \in SpaceAddr /\ MyPcb \in PcbAddr
    BY <1>5, UserLemma DEF doExec
  <2>2. PICK n \in ExecSize : Call(<<OnSpace("deleteSpace", Mine), Frame("load", MyPcb, NULL, << >>, n)>>)
    BY <1>5 DEF doExec
  <2>. DEFINE g == Frame("load", MyPcb, NULL, << >>, n)
  <2>3. n \in Nat
    BY ProcessAssumption
  <2>4. /\ OnSpace("deleteSpace", Mine) \in FrameType /\ OnSpace("deleteSpace", Mine).at = "deleteSpace"
        /\ g \in FrameType /\ g.at = "load"
    BY <2>1, <2>3, Frames
  <2>5. Moved(EmptyPoint)
    <3>. HIDE DEF g
    <3>1. Call(<<OnSpace("deleteSpace", Mine), g>>)
      BY <2>2 DEF g
    <3>. QED BY <1>0, <2>1, <2>4, <3>1, CallTwoMoves
  <2>6. MoveStep(EmptyPoint)
    BY <1>5, <2>1, <2>5 DEF doExec, MoveStep
  <2>7. SamePages /\ SamePids
    BY <1>5 DEF doExec, SamePages, SamePids
  <2>. QED BY <2>6, <2>7 DEF DullStep
<1>. QED BY <1>1, <1>2, <1>3, <1>4, <1>5

\* The steps inside doFork, doExit and doKill that touch neither pages nor pids.
LEMMA InnerSteps ==
  ASSUME StackInv, ObjectInv,
         CopyFails \/ EnterDeleteSpace \/ Child \/ ChildIsFreed \/ NoMoreChildren \/ Self \/ ExitSpace
         \/ KillReturns
  PROVE  DullStep
<1>. USE DEF spaceVars, pidVars, lockVars, histVars
<1>0. /\ {"copyPages", "deleteSpace", "children", "self", "exitSpace", "killed"}
            \cap (Special \cup {"user", "allocatePCB"}) = {}
      /\ {"deallocatePCB", "freePages", "deleteSpace", "children"}
            \cap (Special \cup {"copySpace"} \cup EmptyPoint) = {}
      /\ MayCall("deallocatePCB", "children")
      /\ \A q \in Point : MayCall("deleteSpace", q) => MayCall("freePages", q)
      /\ \A q \in Point : MayCall("self", q) => MayCall("deallocatePCB", q)
      /\ \A q \in Point : MayCall("exitSpace", q) => MayCall("deleteSpace", q)
  BY DEF Special, EmptyPoint, MayCall
<1>t. pcb \in [PcbAddr -> PcbType] /\ misused \in BOOLEAN
  BY DEF ObjectInv
<1>1. CASE CopyFails
  <2>1. current # NULL /\ Top.at = "copyPages" /\ Return
    BY <1>1 DEF CopyFails, At, me
  <2>2. MoveStep(EmptyPoint)
    BY <1>0, <1>1, <2>1, ReturnMoves DEF CopyFails, MoveStep
  <2>3. SamePages /\ SamePids
    BY <1>1 DEF CopyFails, SamePages, SamePids
  <2>. QED BY <2>2, <2>3 DEF DullStep
<1>2. CASE EnterDeleteSpace
  <2>1. current # NULL /\ Top.at = "deleteSpace"
    BY <1>2 DEF EnterDeleteSpace, At, me
  <2>2. CASE SleepInAcquire
    BY <2>1, <2>2, SleepAndCrash
  <2>3. CASE ~SleepInAcquire
    <3>1. Top.space \in SpaceAddr
      BY <2>1, Running DEF FrameType
    <3>2. OnSpace("freePages", Top.space) \in FrameType /\ OnSpace("freePages", Top.space).at = "freePages"
      BY <3>1, Frames
    <3>3. Become(<<OnSpace("freePages", Top.space)>>) /\ UNCHANGED <<tstate, current>>
      BY <1>2, <2>3 DEF EnterDeleteSpace
    <3>4. Moved(EmptyPoint)
      BY <1>0, <2>1, <3>2, <3>3, BecomeMoves
    <3>5. MoveStep(EmptyPoint)
      BY <2>1, <3>3, <3>4 DEF MoveStep
    <3>6. SamePages /\ SamePids
      BY <1>2, <2>3 DEF EnterDeleteSpace, SamePages, SamePids
    <3>. QED BY <3>5, <3>6 DEF DullStep
  <2>. QED BY <2>2, <2>3
<1>3. CASE Child
  <2>1. current # NULL /\ Top.at = "children" /\ Top.kids # << >>
    BY <1>3 DEF Child, At, me
  <2>2. Top.pcb \in PcbAddr /\ Top.kids \in Seq(PcbAddr)
    BY <2>1, Running DEF FrameType
  <2>3. Head(Top.kids) \in PcbAddr /\ Tail(Top.kids) \in Seq(PcbAddr)
    BY <2>1, <2>2
  <2>. DEFINE c == Head(Top.kids)
              rest == Frame("children", Top.pcb, NULL, Tail(Top.kids), 0)
  <2>4. /\ rest \in FrameType /\ rest.at = "children"
        /\ OnPcb("deallocatePCB", c) \in FrameType /\ OnPcb("deallocatePCB", c).at = "deallocatePCB"
    <3>1. \A ks \in Seq(PcbAddr) : Frame("children", Top.pcb, NULL, ks, 0) \in FrameType
            /\ Frame("children", Top.pcb, NULL, ks, 0).at = "children"
      BY <2>2, Frames
    <3>2. \A b \in PcbAddr : OnPcb("deallocatePCB", b) \in FrameType
            /\ OnPcb("deallocatePCB", b).at = "deallocatePCB"
      BY Frames
    <3>. QED BY <2>3, <3>1, <3>2, Zenon
  <2>5. /\ \/ Become(<<OnPcb("deallocatePCB", c), rest>>) /\ pcb' = pcb
           \/ Become(<<rest>>) /\ pcb' = [pcb EXCEPT ![c].parent = NULL]
        /\ UNCHANGED <<tstate, current, sstate, pages, usedPages, pcbs, usedPids, pcbManagerLock, misused>>
    BY <1>3 DEF Child
  <2>. HIDE DEF c, rest
  <2>6. \A b \in PcbAddr : pcb'[b].state = pcb[b].state /\ pcb'[b].pid = pcb[b].pid
    BY <1>t, <2>5 DEF PcbType
  <2>7. Moved(EmptyPoint)
    <3>1. CASE Become(<<OnPcb("deallocatePCB", c), rest>>)
      BY <1>0, <2>1, <2>4, <3>1, BecomeTwoMoves
    <3>2. CASE Become(<<rest>>)
      BY <1>0, <2>1, <2>4, <3>2, BecomeMoves
    <3>. QED BY <2>5, <3>1, <3>2
  <2>8. MoveStep(EmptyPoint)
    BY <2>1, <2>5, <2>7 DEF MoveStep
  <2>9. SamePages /\ SamePids
    BY <2>5, <2>6 DEF SamePages, SamePids
  <2>. QED BY <2>8, <2>9 DEF DullStep
<1>4. CASE ChildIsFreed
  <2>1. current # NULL /\ Top.at = "children" /\ Top.kids # << >>
    BY <1>4 DEF ChildIsFreed, At, me
  <2>2. Top.pcb \in PcbAddr /\ Top.kids \in Seq(PcbAddr)
    BY <2>1, Running DEF FrameType
  <2>3. Tail(Top.kids) \in Seq(PcbAddr)
    BY <2>1, <2>2
  <2>. DEFINE rest == Frame("children", Top.pcb, NULL, Tail(Top.kids), 0)
  <2>4. rest \in FrameType /\ rest.at = "children"
    <3>1. \A ks \in Seq(PcbAddr) : Frame("children", Top.pcb, NULL, ks, 0) \in FrameType
            /\ Frame("children", Top.pcb, NULL, ks, 0).at = "children"
      BY <2>2, Frames
    <3>. QED BY <2>3, <3>1, Zenon
  <2>5. Become(<<rest>>)
    BY <1>4 DEF ChildIsFreed
  <2>. HIDE DEF rest
  <2>6. Moved(EmptyPoint)
    BY <1>0, <2>1, <2>4, <2>5, BecomeMoves
  <2>7. MoveStep(EmptyPoint)
    BY <1>4, <2>1, <2>6 DEF ChildIsFreed, MoveStep
  <2>8. SamePages /\ SamePids
    BY <1>4 DEF ChildIsFreed, SamePages, SamePids
  <2>. QED BY <2>7, <2>8 DEF DullStep
<1>5. CASE NoMoreChildren
  <2>1. current # NULL /\ Top.at = "children" /\ Return
    BY <1>5 DEF NoMoreChildren, At, me
  <2>2. MoveStep(EmptyPoint)
    BY <1>0, <1>5, <2>1, ReturnMoves DEF NoMoreChildren, MoveStep
  <2>3. SamePages /\ SamePids
    BY <1>5 DEF NoMoreChildren, SamePages, SamePids
  <2>. QED BY <2>2, <2>3 DEF DullStep
<1>6. CASE Self
  <2>1. current # NULL /\ Top.at = "self"
    BY <1>6 DEF Self, At, me
  <2>2. Top.pcb \in PcbAddr
    BY <2>1, Running DEF FrameType
  <2>3. OnPcb("deallocatePCB", Top.pcb) \in FrameType
        /\ OnPcb("deallocatePCB", Top.pcb).at = "deallocatePCB"
    BY <2>2, Frames
  <2>4. Become(<<OnPcb("deallocatePCB", Top.pcb)>>) \/ Return
    BY <1>6 DEF Self
  <2>5. Moved(EmptyPoint)
    <3>1. CASE Become(<<OnPcb("deallocatePCB", Top.pcb)>>)
      BY <1>0, <2>1, <2>3, <3>1, BecomeMoves
    <3>2. CASE Return
      BY <1>0, <2>1, <3>2, ReturnMoves
    <3>. QED BY <2>4, <3>1, <3>2
  <2>6. MoveStep(EmptyPoint)
    BY <1>6, <2>1, <2>5 DEF Self, MoveStep
  <2>7. ~misused' => ~misused
    BY <1>6, <1>t DEF Self, Uses
  <2>8. SamePages /\ SamePids
    BY <1>6, <2>7 DEF Self, SamePages, SamePids
  <2>. QED BY <2>6, <2>8 DEF DullStep
<1>7. CASE ExitSpace
  <2>1. current # NULL /\ Top.at = "exitSpace" /\ current \in ThreadAddr
    BY <1>7, Running DEF ExitSpace, At, me
  <2>2. Return \/ (Mine # NULL /\ Become(<<OnSpace("deleteSpace", Mine)>>))
    BY <1>7 DEF ExitSpace
  <2>3. Moved(EmptyPoint)
    <3>1. CASE Return
      BY <1>0, <2>1, <3>1, ReturnMoves
    <3>2. CASE Mine # NULL /\ Become(<<OnSpace("deleteSpace", Mine)>>)
      <4>1. Mine \in SpaceAddr
        BY <2>1, <3>2 DEF ObjectInv, ProcessTypeOK, Mine, me
      <4>2. OnSpace("deleteSpace", Mine) \in FrameType /\ OnSpace("deleteSpace", Mine).at = "deleteSpace"
        BY <4>1, Frames
      <4>. QED BY <1>0, <2>1, <3>2, <4>2, BecomeMoves
    <3>. QED BY <2>2, <3>1, <3>2
  <2>4. MoveStep(EmptyPoint)
    BY <1>7, <2>1, <2>3 DEF ExitSpace, MoveStep
  <2>5. SamePages /\ SamePids
    BY <1>7 DEF ExitSpace, SamePages, SamePids
  <2>. QED BY <2>4, <2>5 DEF DullStep
<1>8. CASE KillReturns
  <2>1. current # NULL /\ Top.at = "killed"
    BY <1>8 DEF KillReturns, At, me
  <2>2. CASE Crash("pointer")
    BY <2>1, <2>2, SleepAndCrash
  <2>3. CASE ~Crash("pointer")
    <3>1. Return /\ UNCHANGED <<tstate, current>>
      BY <1>8, <2>3 DEF KillReturns
    <3>2. MoveStep(EmptyPoint)
      BY <1>0, <2>1, <3>1, ReturnMoves DEF MoveStep
    <3>3. ~misused' => ~misused
      BY <1>8, <2>3, <1>t DEF KillReturns, Uses
    <3>4. SamePages /\ SamePids
      BY <1>8, <2>3, <3>3 DEF KillReturns, SamePages, SamePids
    <3>. QED BY <3>2, <3>4 DEF DullStep
  <2>. QED BY <2>2, <2>3
<1>. QED BY <1>1, <1>2, <1>3, <1>4, <1>5, <1>6, <1>7, <1>8

\* The steps of the address spaces' constructors and destructors.
LEMMA SpaceSteps ==
  ASSUME StackInv, ObjectInv, EnterCopySpace \/ CopySpace \/ DeleteSpace \/ FreeSpace \/ Load
  PROVE  DullStep \/ (MoveStep({}) /\ SamePids)
<1>. USE DEF spaceVars, pidVars, lockVars, histVars
<1>0. /\ {"copySpace", "copyPages", "freePages", "freeSpace", "load"}
            \cap (Special \cup {"user"}) = {}
      /\ {"freeSpace", "load"} \cap (Special \cup {"user", "allocatePCB"}) = {}
      /\ {"copyPages", "forkThread", "freeSpace"} \cap (Special \cup {"copySpace"}) = {}
      /\ \A q \in Point : MayCall("copySpace", q) => MayCall("copyPages", q)
      /\ \A q \in Point : MayCall("copyPages", q) => MayCall("forkThread", q)
      /\ \A q \in Point : MayCall("freePages", q) => MayCall("freeSpace", q)
  BY DEF Special, EmptyPoint, MayCall
<1>m. Moved(EmptyPoint) => Moved({})
  BY DEF Moved
<1>1. CASE EnterCopySpace
  <2>1. current # NULL /\ Top.at = "copySpace"
    BY <1>1 DEF EnterCopySpace, At, me
  <2>2. CASE SleepInAcquire
    BY <2>1, <2>2, SleepAndCrash
  <2>3. CASE ~SleepInAcquire
    <3>1. Top.pcb \in PcbAddr
      BY <2>1, Running DEF Ready
    <3>2. PICK x \in SpaceAddr : Become(<<Frame("copyPages", Top.pcb, x, << >>, 0)>>)
      <4>1. DOMAIN sstate = SpaceAddr
        BY DEF ObjectInv, ProcessTypeOK
      <4>. QED BY <1>1, <2>3, <4>1 DEF EnterCopySpace, Fresh
    <3>. DEFINE f == Frame("copyPages", Top.pcb, x, << >>, 0)
    <3>3. f \in FrameType /\ f.at = "copyPages"
      BY <3>1, Frames
    <3>4. Become(<<f>>)
      BY <3>2
    <3>. HIDE DEF f
    <3>5. Moved({})
      BY <1>0, <2>1, <3>3, <3>4, BecomeMoves
    <3>6. MoveStep({})
      BY <1>1, <2>1, <2>3, <3>5 DEF EnterCopySpace, MoveStep
    <3>7. SamePids
      BY <1>1, <2>3 DEF EnterCopySpace, SamePids
    <3>. QED BY <3>6, <3>7
  <2>. QED BY <2>2, <2>3
<1>2. CASE CopySpace
  <2>1. current # NULL /\ Top.at = "copyPages"
    BY <1>2 DEF CopySpace, At, me
  <2>2. Top.pcb \in PcbAddr /\ Top.space \in SpaceAddr
    BY <2>1, Running DEF FrameType
  <2>. DEFINE f == Frame("forkThread", Top.pcb, Top.space, << >>, 0)
  <2>3. f \in FrameType /\ f.at = "forkThread"
    BY <2>2, Frames
  <2>4. Become(<<f>>)
    BY <1>2 DEF CopySpace
  <2>. HIDE DEF f
  <2>5. Moved({})
    BY <1>0, <2>1, <2>3, <2>4, BecomeMoves
  <2>6. MoveStep({})
    BY <1>2, <2>1, <2>5 DEF CopySpace, ReleaseMm, MoveStep
  <2>7. SamePids
    BY <1>2 DEF CopySpace, SamePids
  <2>. QED BY <2>6, <2>7
<1>3. CASE DeleteSpace
  <2>1. current # NULL /\ Top.at = "freePages"
    BY <1>3 DEF DeleteSpace, At, me
  <2>2. CASE Crash("assert")
    BY <2>1, <2>2, SleepAndCrash
  <2>3. CASE ~Crash("assert")
    <3>1. Top.space \in SpaceAddr
      BY <2>1, Running DEF FrameType
    <3>2. OnSpace("freeSpace", Top.space) \in FrameType /\ OnSpace("freeSpace", Top.space).at = "freeSpace"
      BY <3>1, Frames
    <3>3. Become(<<OnSpace("freeSpace", Top.space)>>) /\ ReleaseMm /\ current' = current
      BY <1>3, <2>3 DEF DeleteSpace
    <3>4. Moved({})
      BY <1>0, <2>1, <3>2, <3>3, BecomeMoves
    <3>5. MoveStep({})
      BY <2>1, <3>3, <3>4 DEF ReleaseMm, MoveStep
    <3>6. SamePids
      BY <1>3, <2>3 DEF DeleteSpace, SamePids
    <3>. QED BY <3>5, <3>6
  <2>. QED BY <2>2, <2>3
<1>4. CASE FreeSpace
  <2>1. current # NULL /\ Top.at = "freeSpace" /\ Return
    BY <1>4 DEF FreeSpace, At, me
  <2>2. MoveStep({})
    BY <1>0, <1>4, <1>m, <2>1, ReturnMoves DEF FreeSpace, MoveStep
  <2>3. SamePids
    BY <1>4 DEF FreeSpace, SamePids
  <2>. QED BY <2>2, <2>3
<1>5. CASE Load
  <2>1. current # NULL /\ Top.at = "load" /\ Return
    BY <1>5 DEF Load, At, me
  <2>2. MoveStep({})
    BY <1>0, <1>5, <1>m, <2>1, ReturnMoves DEF Load, MoveStep
  <2>3. SamePids
    BY <1>5 DEF Load, SamePids
  <2>. QED BY <2>2, <2>3
<1>. QED BY <1>1, <1>2, <1>3, <1>4, <1>5

\* <<f>> \o Tail(s), frame by frame.
LEMMA BecomeLemma ==
  ASSUME NEW s, Stackful(s), s[1].at # "user", NEW f \in FrameType, MayCall(f.at, Tail(s)[1].at)
  PROVE  /\ Stackful(<<f>> \o Tail(s)) /\ (<<f>> \o Tail(s))[1] = f
         /\ Len(<<f>> \o Tail(s)) = Len(s)
         /\ \A i \in 2 .. Len(s) : (<<f>> \o Tail(s))[i] = s[i]
<1>. DEFINE u == Tail(s)
            r == <<f>> \o u
<1>1. /\ Stackful(u) /\ Len(u) = Len(s) - 1 /\ Len(s) \in Nat \ {0}
      /\ \A i \in 1 .. Len(s) - 1 : u[i] = s[i + 1]
  BY PopLemma
<1>2. MayCall(f.at, u[1].at)
  OBVIOUS
<1>. HIDE DEF u
<1>3. Stackful(r) /\ r[1] = f /\ Len(r) = Len(u) + 1 /\ \A i \in 1 .. Len(u) : r[i + 1] = u[i]
  BY <1>1, <1>2, PushLemma
<1>. HIDE DEF r
<1>4. Len(r) = Len(s)
  BY <1>1, <1>3
<1>5. \A i \in 2 .. Len(s) : r[i] = s[i]
  <2>. TAKE i \in 2 .. Len(s)
  <2>1. i - 1 \in 1 .. Len(u) /\ (i - 1) + 1 = i /\ i - 1 \in 1 .. Len(s) - 1
    BY <1>1
  <2>. QED BY <1>1, <1>3, <2>1
<1>. QED BY <1>3, <1>4, <1>5 DEF r, u

\* The running thread goes on with the stack r.
GoesOn(r) ==
    /\ current # NULL /\ current' = current
    /\ UNCHANGED tstate \/ (\E points : WakeOne(points)) \/ (\E v : RemoveThread(v))
    /\ Ready(r) /\ r[1].at \notin EmptyPoint
    /\ stack' = [stack EXCEPT ![current] = r]

\* r is s but for the frame on top, which is f.
NewTop(s, r, f) == Len(r) = Len(s) /\ r[1] = f /\ \A i \in 2 .. Len(s) : r[i] = s[i]

\* r is s with the two frames f and g in the place of the top one.
NewTwo(s, r, f, g) ==
    Len(r) = Len(s) + 1 /\ r[1] = f /\ r[2] = g /\ \A i \in 2 .. Len(s) : r[i + 1] = s[i]

\* r is s without the frame on top.
NewTail(s, r) == Len(r) = Len(s) - 1 /\ \A i \in 1 .. Len(s) - 1 : r[i] = s[i + 1]

\* The steps that take a lock of the PCB manager or run ~PCB.
LEMMA LockSteps ==
  ASSUME StackInv, ObjectInv
  PROVE  /\ EnterAllocatePCB => DullStep \/ \E r : GoesOn(r) /\ NewTop(stack[current], r, Plain("findPid"))
         /\ EnterDeallocatePCB => DullStep \/ \E r : GoesOn(r) /\ NewTop(stack[current], r, OnPcb("clearPid", Top.pcb))
         /\ JoinDeletes => \E r : GoesOn(r) /\ NewTop(stack[current], r, OnPcb("pcbDtor", Top.pcb))
         /\ ClearPid => \E r : GoesOn(r) /\ NewTwo(stack[current], r, OnPcb("pcbDtor", Top.pcb),
                                 Frame("forgetPCB", NULL, NULL, << >>, pcb[Top.pcb].pid))
         /\ DestroyPCBSpace => \E r, x : x \in SpaceAddr /\ GoesOn(r)
                                 /\ NewTwo(stack[current], r, OnSpace("deleteSpace", x), OnPcb("pcbFree", Top.pcb))
         /\ DestroyPCB => \E r : GoesOn(r) /\ NewTail(stack[current], r)
         /\ ForgetPCB => \E r : GoesOn(r) /\ NewTail(stack[current], r)
<1>. USE DEF spaceVars, pidVars, lockVars, histVars
<1>0. /\ {"findPid", "clearPid", "pcbDtor", "deleteSpace"} \cap (EmptyPoint \cup {"copySpace"}) = {}
      /\ \A q \in Point : MayCall("allocatePCB", q) => MayCall("findPid", q)
      /\ \A q \in Point : MayCall("deallocatePCB", q) => MayCall("clearPid", q)
      /\ \A q \in Point : MayCall("join", q) => MayCall("pcbDtor", q)
      /\ \A q \in Point : MayCall("clearPid", q) => MayCall("forgetPCB", q)
      /\ \A q \in Point : MayCall("pcbDtor", q) => MayCall("pcbFree", q)
      /\ MayCall("pcbDtor", "forgetPCB") /\ MayCall("deleteSpace", "pcbFree")
  BY DEF EmptyPoint, MayCall
<1>t. pcb \in [PcbAddr -> PcbType] /\ tspace \in [ThreadAddr -> SpaceAddr \cup {NULL}]
  BY DEF ObjectInv, ProcessTypeOK
<1>. DEFINE s == stack[current]
            u == Tail(s)
<1>r. ASSUME current # NULL
      PROVE  Stackful(s) /\ Top = s[1] /\ Top \in FrameType
  BY <1>r, Running
<1>b. ASSUME current # NULL, Top.at # "user", NEW f \in FrameType, Become(<<f>>),
             \A q \in Point : MayCall(Top.at, q) => MayCall(f.at, q),
             f.at \notin EmptyPoint \cup {"copySpace"}, current' = current, UNCHANGED tstate
      PROVE  \E r : GoesOn(r) /\ NewTop(s, r, f)
  <2>1. Stackful(s) /\ s[1].at # "user"
    BY <1>b, <1>r
  <2>2. Stackful(u) /\ MayCall(Top.at, u[1].at)
    BY <1>b, <1>r, <2>1, PopLemma
  <2>3. u[1].at \in Point
    BY <2>2, PopLemma DEF FrameType
  <2>4. MayCall(f.at, u[1].at)
    BY <1>b, <2>2, <2>3
  <2>. DEFINE r == <<f>> \o u
  <2>5. stack' = [stack EXCEPT ![current] = r]
    BY <1>b DEF Become, me
  <2>6. Stackful(r) /\ r[1] = f /\ NewTop(s, r, f)
    <3>. HIDE DEF s
    <3>. QED BY <2>1, <2>4, BecomeLemma DEF NewTop
  <2>. HIDE DEF r, s, u
  <2>7. Ready(r) /\ r[1].at \notin EmptyPoint
    BY <1>b, <2>6 DEF Ready
  <2>8. GoesOn(r)
    BY <1>b, <2>5, <2>7 DEF GoesOn
  <2>. QED BY <2>6, <2>8
<1>c. ASSUME current # NULL, Top.at # "user", NEW f \in FrameType, NEW g \in FrameType, Become(<<f, g>>),
             \A q \in Point : MayCall(Top.at, q) => MayCall(g.at, q), MayCall(f.at, g.at),
             f.at \notin EmptyPoint \cup {"copySpace"}, current' = current, UNCHANGED tstate
      PROVE  \E r : GoesOn(r) /\ NewTwo(s, r, f, g)
  <2>1. Stackful(s) /\ s[1].at # "user"
    BY <1>c, <1>r
  <2>2. Stackful(u) /\ MayCall(Top.at, u[1].at)
    BY <1>c, <1>r, <2>1, PopLemma
  <2>3. u[1].at \in Point
    BY <2>2, PopLemma DEF FrameType
  <2>4. MayCall(g.at, u[1].at)
    BY <1>c, <2>2, <2>3
  <2>. DEFINE r == <<f, g>> \o u
  <2>5. stack' = [stack EXCEPT ![current] = r]
    BY <1>c DEF Become, me
  <2>6. Stackful(r) /\ r[1] = f /\ NewTwo(s, r, f, g)
    <3>. DEFINE q == <<g>> \o u
                v == <<f>> \o q
    <3>1. Stackful(q) /\ q[1] = g /\ Len(q) = Len(s) /\ \A i \in 2 .. Len(s) : q[i] = s[i]
      <4>. HIDE DEF s
      <4>. QED BY <2>1, <2>4, BecomeLemma
    <3>2. r = v /\ Len(s) \in Nat \ {0}
      <4>1. u \in Seq(FrameType) /\ Len(s) \in Nat \ {0}
        BY <2>1, PopLemma
      <4>. QED BY <4>1, PushMore
    <3>. HIDE DEF s, q, r
    <3>3. MayCall(f.at, g.at)
      BY <1>c
    <3>4. Stackful(v) /\ v[1] = f /\ Len(v) = Len(q) + 1 /\ \A i \in 1 .. Len(q) : v[i + 1] = q[i]
      BY <3>1, <3>3, PushLemma
    <3>. HIDE DEF v
    <3>5. v[1 + 1] = g /\ 1 + 1 = 2
      BY <3>1, <3>2, <3>4
    <3>6. \A i \in 2 .. Len(s) : v[i + 1] = s[i]
      BY <3>1, <3>2, <3>4
    <3>7. Len(v) = Len(s) + 1
      BY <3>1, <3>4
    <3>. QED BY <3>2, <3>4, <3>5, <3>6, <3>7 DEF NewTwo
  <2>. HIDE DEF r, s, u
  <2>7. Ready(r) /\ r[1].at \notin EmptyPoint
    BY <1>c, <2>6 DEF Ready
  <2>8. GoesOn(r)
    BY <1>c, <2>5, <2>7 DEF GoesOn
  <2>. QED BY <2>6, <2>8
<1>d. ASSUME current # NULL, Top.at \notin {"user", "allocatePCB", "findPid"}, Return, current' = current,
             UNCHANGED tstate \/ (\E points : WakeOne(points)) \/ (\E v : RemoveThread(v))
      PROVE  \E r : GoesOn(r) /\ NewTail(s, r)
  <2>1. Stackful(s) /\ s[1].at = Top.at
    BY <1>d, <1>r
  <2>2. /\ Stackful(u) /\ MayCall(Top.at, u[1].at) /\ NewTail(s, u)
        /\ u \in Seq(FrameType)
    BY <1>d, <2>1, PopLemma DEF NewTail
  <2>3. stack' = [stack EXCEPT ![current] = u]
    <3>1. << >> \o u = u
      BY <2>2, ConcatEmptySeq
    <3>. QED BY <1>d, <3>1 DEF Return, Become, me
  <2>. HIDE DEF s, u
  <2>4. u[1].at \notin EmptyPoint \cup {"copySpace"}
    BY <1>d, <2>2 DEF MayCall, EmptyPoint
  <2>5. GoesOn(u)
    BY <1>d, <2>2, <2>3, <2>4 DEF GoesOn, Ready
  <2>. QED BY <2>2, <2>5
<1>. HIDE DEF s, u
<1>1. ASSUME EnterAllocatePCB PROVE DullStep \/ \E r : GoesOn(r) /\ NewTop(s, r, Plain("findPid"))
  <2>1. current # NULL /\ Top.at = "allocatePCB"
    BY <1>1 DEF EnterAllocatePCB, At, me
  <2>2. CASE SleepInAcquire
    BY <2>1, <2>2, SleepAndCrash
  <2>3. CASE ~SleepInAcquire
    <3>1. Become(<<Plain("findPid")>>) /\ current' = current /\ UNCHANGED tstate
      BY <1>1, <2>3 DEF EnterAllocatePCB
    <3>2. Plain("findPid") \in FrameType /\ Plain("findPid").at = "findPid"
      BY Frames
    <3>. QED BY <1>0, <1>b, <2>1, <3>1, <3>2
  <2>. QED BY <2>2, <2>3
<1>2. ASSUME EnterDeallocatePCB
      PROVE  DullStep \/ \E r : GoesOn(r) /\ NewTop(s, r, OnPcb("clearPid", Top.pcb))
  <2>1. current # NULL /\ Top.at = "deallocatePCB"
    BY <1>2 DEF EnterDeallocatePCB, At, me
  <2>2. CASE SleepInAcquire
    BY <2>1, <2>2, SleepAndCrash
  <2>3. CASE ~SleepInAcquire
    <3>1. Become(<<OnPcb("clearPid", Top.pcb)>>) /\ current' = current /\ UNCHANGED tstate
      BY <1>2, <2>3 DEF EnterDeallocatePCB
    <3>2. Top.pcb \in PcbAddr
      BY <1>r, <2>1 DEF FrameType
    <3>3. OnPcb("clearPid", Top.pcb) \in FrameType /\ OnPcb("clearPid", Top.pcb).at = "clearPid"
      BY <3>2, Frames
    <3>. QED BY <1>0, <1>b, <2>1, <3>1, <3>3
  <2>. QED BY <2>2, <2>3
<1>3. ASSUME JoinDeletes PROVE \E r : GoesOn(r) /\ NewTop(s, r, OnPcb("pcbDtor", Top.pcb))
  <2>1. current # NULL /\ Top.at = "join" /\ Become(<<OnPcb("pcbDtor", Top.pcb)>>)
        /\ current' = current /\ UNCHANGED tstate
    BY <1>3 DEF JoinDeletes, At, me
  <2>2. Top.pcb \in PcbAddr
    BY <1>r, <2>1 DEF FrameType
  <2>3. OnPcb("pcbDtor", Top.pcb) \in FrameType /\ OnPcb("pcbDtor", Top.pcb).at = "pcbDtor"
    BY <2>2, Frames
  <2>. QED BY <1>0, <1>b, <2>1, <2>3
<1>4. ASSUME ClearPid
      PROVE  \E r : GoesOn(r) /\ NewTwo(s, r, OnPcb("pcbDtor", Top.pcb),
                                        Frame("forgetPCB", NULL, NULL, << >>, pcb[Top.pcb].pid))
  <2>. DEFINE g == Frame("forgetPCB", NULL, NULL, << >>, pcb[Top.pcb].pid)
  <2>1. current # NULL /\ Top.at = "clearPid" /\ Become(<<OnPcb("pcbDtor", Top.pcb), g>>)
        /\ current' = current /\ UNCHANGED tstate
    BY <1>4 DEF ClearPid, At, me
  <2>2. Top.pcb \in PcbAddr
    BY <1>r, <2>1 DEF FrameType
  <2>3. OnPcb("pcbDtor", Top.pcb) \in FrameType /\ OnPcb("pcbDtor", Top.pcb).at = "pcbDtor"
    BY <2>2, Frames
  <2>4. pcb[Top.pcb].pid \in Pid
    BY <1>t, <2>2 DEF PcbType
  <2>5. g \in FrameType /\ g.at = "forgetPCB"
    BY <2>4, Frames
  <2>. HIDE DEF g
  <2>6. \E r : GoesOn(r) /\ NewTwo(s, r, OnPcb("pcbDtor", Top.pcb), g)
    BY <1>0, <1>c, <2>1, <2>3, <2>5
  <2>. QED BY <2>6 DEF g
<1>5. ASSUME DestroyPCBSpace
      PROVE  \E r, x : x \in SpaceAddr /\ GoesOn(r)
                       /\ NewTwo(s, r, OnSpace("deleteSpace", x), OnPcb("pcbFree", Top.pcb))
  <2>. DEFINE x == tspace[Victim(Top.pcb)]
  <2>1. current # NULL /\ Top.at = "pcbDtor" /\ Become(<<OnSpace("deleteSpace", x), OnPcb("pcbFree", Top.pcb)>>)
        /\ HasPageTable(Victim(Top.pcb)) /\ current' = current /\ UNCHANGED tstate
    BY <1>5 DEF DestroyPCBSpace, At, me
  <2>2. Top.pcb \in PcbAddr
    BY <1>r, <2>1 DEF FrameType
  <2>3. Victim(Top.pcb) \in ThreadAddr \cup {NULL}
    BY <1>t, <2>2 DEF Victim, PcbType
  <2>4. x \in SpaceAddr
    BY <1>t, <2>1, <2>3 DEF HasPageTable
  <2>5. OnSpace("deleteSpace", x) \in FrameType /\ OnSpace("deleteSpace", x).at = "deleteSpace"
    BY <2>4, Frames
  <2>6. OnPcb("pcbFree", Top.pcb) \in FrameType /\ OnPcb("pcbFree", Top.pcb).at = "pcbFree"
    BY <2>2, Frames
  <2>. HIDE DEF x
  <2>7. \E r : GoesOn(r) /\ NewTwo(s, r, OnSpace("deleteSpace", x), OnPcb("pcbFree", Top.pcb))
    BY <1>0, <1>c, <2>1, <2>5, <2>6
  <2>. QED BY <2>4, <2>7
<1>6. ASSUME DestroyPCB PROVE \E r : GoesOn(r) /\ NewTail(s, r)
  <2>1. current # NULL /\ Top.at \in {"pcbDtor", "pcbFree"} /\ Return /\ current' = current
        /\ \E v : RemoveThread(v)
    BY <1>6 DEF DestroyPCB, At, me
  <2>. QED BY <1>d, <2>1
<1>7. ASSUME ForgetPCB PROVE \E r : GoesOn(r) /\ NewTail(s, r)
  <2>1. current # NULL /\ Top.at = "forgetPCB" /\ Return /\ current' = current
        /\ \E points : WakeOne(points)
    BY <1>7 DEF ForgetPCB, ReleasePcbs, At, me
  <2>. QED BY <1>d, <2>1
<1>. QED BY <1>1, <1>2, <1>3, <1>4, <1>5, <1>6, <1>7 DEF s

\* The rest of AllocatePCB leaves a stack outside the PCB manager.
LEMMA AllocateStep ==
  ASSUME StackInv, ObjectInv, AllocatePCB
  PROVE  \/ DullStep
         \/ \E r : /\ GoesOn(r) /\ \A i \in 1 .. Len(r) : r[i].at \notin Special
                   /\ \A i \in 2 .. Len(stack[current]) : stack[current][i].at \notin Special
<1>1. current # NULL /\ Top.at = "findPid"
  BY DEF AllocatePCB, At, me
<1>2. CASE Crash("full")
  BY <1>1, <1>2, SleepAndCrash
<1>3. CASE ~Crash("full")
  <2>. DEFINE s == stack[current]
              u == Tail(s)
              w == Tail(u)
  <2>1. PICK b \in PcbAddr :
          /\ stack' = [stack EXCEPT ![me] = <<OnPcb("copySpace", b)>> \o Tail(Tail(@))]
          /\ ReleasePcbs /\ current' = current
    BY <1>3 DEF AllocatePCB, Fresh, PcbState
  <2>2. Stackful(s) /\ s[1].at = "findPid"
    BY <1>1, Running
  <2>. HIDE DEF s
  <2>3. /\ Stackful(u) /\ MayCall("findPid", u[1].at) /\ Len(u) = Len(s) - 1 /\ Len(s) \in Nat
        /\ \A i \in 1 .. Len(s) - 1 : u[i] = s[i + 1]
    BY <2>2, PopLemma
  <2>4. u[1].at = "copySpace"
    BY <2>3 DEF MayCall
  <2>. HIDE DEF u
  <2>5. /\ Stackful(w) /\ MayCall("copySpace", w[1].at) /\ Len(w) = Len(u) - 1
        /\ \A i \in 1 .. Len(u) - 1 : w[i] = u[i + 1]
    BY <2>3, <2>4, PopLemma
  <2>6. w[1].at = "user"
    BY <2>5 DEF MayCall
  <2>. HIDE DEF w
  <2>7. Len(w) = 1
    BY <2>5, <2>6, PopLemma
  <2>. DEFINE f == OnPcb("copySpace", b)
              r == <<f>> \o w
  <2>8. f \in FrameType /\ f.at = "copySpace" /\ f.pcb = b
    BY Frames
  <2>9. MayCall("copySpace", "user")
    BY DEF MayCall
  <2>10. stack' = [stack EXCEPT ![current] = r]
    BY <2>1 DEF me, s, u, w
  <2>. HIDE DEF f
  <2>11. Stackful(r) /\ r[1] = f /\ Len(r) = Len(w) + 1 /\ \A i \in 1 .. Len(w) : r[i + 1] = w[i]
    BY <2>5, <2>6, <2>8, <2>9, PushLemma
  <2>. HIDE DEF r
  <2>12. Ready(r) /\ r[1].at \notin EmptyPoint
    BY <2>8, <2>11 DEF Ready, EmptyPoint
  <2>13. GoesOn(r)
    BY <1>1, <2>1, <2>10, <2>12 DEF GoesOn, ReleasePcbs
  <2>14. \A i \in 1 .. Len(r) : r[i].at \notin Special
    <3>. TAKE i \in 1 .. Len(r)
    <3>1. r[1 + 1] = w[1] /\ 1 + 1 = 2
      BY <2>7, <2>11
    <3>2. i = 1 \/ i = 2
      BY <2>7, <2>11
    <3>. QED BY <2>6, <2>8, <2>11, <3>1, <3>2 DEF Special
  <2>15. \A i \in 2 .. Len(s) : s[i].at \notin Special
    <3>. TAKE i \in 2 .. Len(s)
    <3>0. \A m \in Nat : (m - 1) - 1 = 1 => m = 3
      OBVIOUS
    <3>1. Len(s) = 3
      BY <2>3, <2>5, <2>7, <3>0, Zenon
    <3>2. i = 2 \/ i = 3
      BY <3>1
    <3>3. u[1] = s[1 + 1] /\ 1 + 1 = 2
      BY <2>3, <3>1
    <3>4. u[2] = s[2 + 1] /\ 2 + 1 = 3
      BY <2>3, <3>1
    <3>5. w[1] = u[1 + 1]
      <4>1. 1 \in 1 .. Len(u) - 1
        <5>1. Len(u) - 1 = 1
          BY <2>5, <2>7, Zenon
        <5>. QED BY <5>1
      <4>. QED BY <2>5, <4>1
    <3>. QED BY <2>4, <2>6, <3>2, <3>3, <3>4, <3>5 DEF Special
  <2>. QED BY <2>13, <2>14, <2>15 DEF s
<1>. QED BY <1>2, <1>3

\* The rest of doFork: a thread begins, and its parent is back in user code.
LEMMA ForkStep ==
  ASSUME StackInv, ObjectInv, ForkThread
  PROVE  \E t \in ThreadAddr :
           /\ current # NULL /\ current' = current /\ t # current /\ stack[t] = << >>
           /\ tstate[t] \in {"unused", "finished"} /\ tstate' = [tstate EXCEPT ![t] = "ready"]
           /\ Ready(<<Plain("user")>>) /\ Ready(Tail(stack[current]))
           /\ Tail(stack[current])[1].at = "user" /\ <<Plain("user")>>[1].at = "user"
           /\ Len(<<Plain("user")>>) = 1 /\ Len(Tail(stack[current])) = 1 /\ Len(stack[current]) = 2
           /\ stack[current][1].at = "forkThread" /\ stack[current][2].at = "user"
           /\ stack' = [stack EXCEPT ![t] = <<Plain("user")>>, ![current] = Tail(@)]
<1>1. current # NULL /\ Top.at = "forkThread"
  BY DEF ForkThread, At, me
<1>2. PICK t \in ThreadAddr :
        /\ tstate[t] \in {"unused", "finished"} /\ tstate' = [tstate EXCEPT ![t] = "ready"]
        /\ stack' = [stack EXCEPT ![t] = <<Plain("user")>>, ![current] = Tail(@)]
  <2>1. DOMAIN tstate = ThreadAddr
    BY DEF ObjectInv, ProcessTypeOK
  <2>. QED BY <2>1 DEF ForkThread, Fresh, me
<1>3. t # current /\ stack[t] = << >>
  <2>1. tstate[current] = "ready"
    BY <1>1, Running
  <2>. QED BY <1>2, <2>1 DEF StackInv
<1>4. current' = current
  BY DEF ForkThread
<1>5. Ready(<<Plain("user")>>) /\ <<Plain("user")>>[1].at = "user" /\ Len(<<Plain("user")>>) = 1
  <2>. DEFINE q == <<Plain("user")>>
  <2>1. Plain("user") \in FrameType /\ Plain("user").at = "user"
    BY Frames
  <2>2. q \in Seq(FrameType) /\ Len(q) = 1 /\ q[1] = Plain("user") /\ q # << >>
    BY <2>1
  <2>. HIDE DEF q
  <2>3. CallOrder(q)
    BY <2>1, <2>2 DEF CallOrder
  <2>4. Ready(q) /\ q[1].at = "user"
    BY <2>1, <2>2, <2>3 DEF Ready, Stackful
  <2>. QED BY <2>2, <2>4 DEF q
<1>6. /\ Ready(Tail(stack[current])) /\ Tail(stack[current])[1].at = "user"
      /\ Len(Tail(stack[current])) = 1 /\ Len(stack[current]) = 2
      /\ stack[current][1].at = "forkThread" /\ stack[current][2].at = "user"
  <2>. DEFINE s == stack[current]
              u == Tail(s)
  <2>1. Stackful(s) /\ s[1].at = "forkThread"
    BY <1>1, Running
  <2>. HIDE DEF s
  <2>2. /\ Stackful(u) /\ MayCall("forkThread", u[1].at) /\ Len(u) = Len(s) - 1 /\ Len(s) \in Nat
        /\ \A i \in 1 .. Len(s) - 1 : u[i] = s[i + 1]
    BY <2>1, PopLemma
  <2>. HIDE DEF u
  <2>3. u[1].at = "user"
    BY <2>2 DEF MayCall
  <2>4. Len(u) = 1
    BY <2>2, <2>3, PopLemma
  <2>5. Len(s) = 2
    <3>1. \A m \in Nat : m - 1 = 1 => m = 2
      OBVIOUS
    <3>. QED BY <2>2, <2>4, <3>1, Zenon
  <2>6. u[1] = s[1 + 1] /\ 1 + 1 = 2
    BY <2>2, <2>5
  <2>7. Ready(u)
    BY <2>2, <2>3 DEF Ready
  <2>. QED BY <2>1, <2>3, <2>4, <2>5, <2>6, <2>7 DEF s, u
<1>. QED BY <1>1, <1>2, <1>3, <1>4, <1>5, <1>6

\* A thread ends from the last frame of doExit.
LEMMA FinishStep ==
  ASSUME StackInv, ObjectInv, Finish
  PROVE  /\ current # NULL /\ current' = NULL /\ tstate' = [tstate EXCEPT ![current] = "finished"]
         /\ stack' = [stack EXCEPT ![current] = << >>]
         /\ \A i \in 1 .. Len(stack[current]) : stack[current][i].at \notin Special
<1>1. /\ current # NULL /\ Top.at = "finish" /\ current' = NULL
      /\ tstate' = [tstate EXCEPT ![current] = "finished"]
      /\ stack' = [stack EXCEPT ![current] = << >>]
  BY DEF Finish, At, me
<1>. DEFINE s == stack[current]
<1>2. Stackful(s) /\ s[1].at = "finish"
  BY <1>1, Running
<1>. HIDE DEF s
<1>3. \A i \in 1 .. Len(s) : s[i].at \notin Special
  <2>. TAKE i \in 1 .. Len(s)
  <2>1. Len(s) \in Nat /\ CallOrder(s)
    BY <1>2, PopLemma DEF Stackful
  <2>2. i = 1 \/ 1 < i
    BY <2>1
  <2>3. s[i].at \in Outer
    BY <1>2, <2>1, <2>2 DEF CallOrder, Outer
  <2>. QED BY <2>3 DEF Outer, Special
<1>. QED BY <1>1, <1>3 DEF s

\* The threads keep to the order of calls, whatever step is taken.
LEMMA StackStep ==
  ASSUME StackInv, ObjectInv, [ProcessNext]_vars
  PROVE  StackInv'
<1>t. /\ tstate \in [ThreadAddr -> {"unused", "ready", "asleep", "removed", "finished"}]
      /\ stack \in [ThreadAddr -> Seq(FrameType)]
  BY DEF ObjectInv, ProcessTypeOK, StackInv
<1>n. NULL \notin ThreadAddr
  BY ProcessAssumption
<1>1. ASSUME StillStep PROVE StackInv'
  <2>1. stack' = stack
    BY <1>1 DEF StillStep
  <2>2. CASE tstate' = tstate /\ (current' \in {current, NULL} \/ (current' \in ThreadAddr /\ tstate[current'] = "ready"))
    BY <2>1, <2>2 DEF StackInv, Ready, Stackful, CallOrder
  <2>3. CASE current # NULL /\ tstate' = [tstate EXCEPT ![current] = "asleep"] /\ current' = NULL
    <3>1. current \in ThreadAddr /\ tstate[current] = "ready"
      BY <2>3, Running
    <3>2. \A t \in ThreadAddr : tstate'[t] \in {"unused", "finished"} <=> tstate[t] \in {"unused", "finished"}
      BY <1>t, <2>3, <3>1
    <3>. QED BY <2>1, <2>3, <3>2 DEF StackInv, Ready, Stackful, CallOrder
  <2>. QED BY <1>1, <2>2, <2>3 DEF StillStep
<1>2. ASSUME NEW Q, MoveStep(Q) PROVE StackInv'
  <2>1. PICK r \in Seq(FrameType) : Ready(r) /\ stack' = [stack EXCEPT ![current] = r]
    BY <1>2 DEF MoveStep, Moved
  <2>. QED BY <1>2, <2>1, Replaced DEF MoveStep
<1>3. ASSUME NEW r, GoesOn(r) PROVE StackInv'
  BY <1>3, Replaced DEF GoesOn
<1>4. DullStep => StackInv'
  BY <1>1, <1>2 DEF DullStep
<1>5. CASE ForkThread
  <2>1. PICK t \in ThreadAddr :
           /\ current # NULL /\ current' = current /\ t # current
           /\ tstate[t] \in {"unused", "finished"} /\ tstate' = [tstate EXCEPT ![t] = "ready"]
           /\ Ready(<<Plain("user")>>) /\ Ready(Tail(stack[current]))
           /\ stack' = [stack EXCEPT ![t] = <<Plain("user")>>, ![current] = Tail(@)]
    BY <1>5, ForkStep
  <2>. DEFINE p == <<Plain("user")>>
              u == Tail(stack[current])
  <2>2. current \in ThreadAddr /\ tstate[current] = "ready"
    BY <2>1, Running
  <2>3. p \in Seq(FrameType) /\ p # << >> /\ u \in Seq(FrameType) /\ u # << >> /\ Ready(p) /\ Ready(u)
    BY <2>1 DEF Ready, Stackful
  <2>. HIDE DEF p, u
  <2>a. stack' = [stack EXCEPT ![t] = p, ![current] = u]
    BY <2>1 DEF p, u
  <2>4. stack'[t] = p /\ stack'[current] = u /\ stack' \in [ThreadAddr -> Seq(FrameType)]
        /\ \A x \in ThreadAddr : x \notin {t, current} => stack'[x] = stack[x]
    BY <1>t, <2>1, <2>2, <2>3, <2>a
  <2>5. tstate'[t] = "ready" /\ tstate'[current] = "ready"
        /\ \A x \in ThreadAddr : x \notin {t, current} => tstate'[x] = tstate[x]
    BY <1>t, <2>1, <2>2
  <2>6. ASSUME NEW x \in ThreadAddr
        PROVE  /\ stack'[x] = << >> <=> tstate'[x] \in {"unused", "finished"}
               /\ stack'[x] # << >> => Ready(stack'[x])
    <3>1. CASE x \in {t, current}
      <4>1. stack'[x] # << >> /\ Ready(stack'[x])
        BY <2>3, <2>4, <3>1
      <4>2. tstate'[x] \notin {"unused", "finished"}
        BY <2>5, <3>1
      <4>. QED BY <4>1, <4>2, Zenon
    <3>2. CASE x \notin {t, current}
      BY <2>4, <2>5, <3>2 DEF StackInv
    <3>. QED BY <3>1, <3>2
  <2>. QED BY <2>1, <2>4, <2>5, <2>6 DEF StackInv, Ready, Stackful, CallOrder
<1>6. CASE Finish
  <2>1. /\ current # NULL /\ current' = NULL /\ tstate' = [tstate EXCEPT ![current] = "finished"]
        /\ stack' = [stack EXCEPT ![current] = << >>] /\ current \in ThreadAddr
    BY <1>6, FinishStep, Running
  <2>2. << >> \in Seq(FrameType)
    OBVIOUS
  <2>3. stack' \in [ThreadAddr -> Seq(FrameType)] /\ stack'[current] = << >> /\ tstate'[current] = "finished"
        /\ \A x \in ThreadAddr : x # current => stack'[x] = stack[x] /\ tstate'[x] = tstate[x]
    BY <1>t, <2>1, <2>2
  <2>4. ASSUME NEW x \in ThreadAddr
        PROVE  /\ stack'[x] = << >> <=> tstate'[x] \in {"unused", "finished"}
               /\ stack'[x] # << >> => Ready(stack'[x])
    <3>1. CASE x = current
      <4>1. tstate'[x] \in {"unused", "finished"} /\ stack'[x] = << >>
        BY <2>3, <3>1
      <4>. QED BY <4>1, Zenon
    <3>2. CASE x # current
      BY <2>3, <3>2 DEF StackInv
    <3>. QED BY <3>1, <3>2
  <2>. QED BY <2>1, <2>3, <2>4 DEF StackInv, Ready, Stackful, CallOrder
<1>7. CASE GiveWay \/ Dispatch \/ Over \/ NullSpace \/ JoinWaits \/ KillFreed \/ UNCHANGED vars
  BY <1>4, <1>7, StillSteps
<1>8. CASE doFork \/ doExit \/ doJoin \/ doKill \/ doExec
  BY <1>4, <1>8, CallSteps
<1>9. CASE CopyFails \/ EnterDeleteSpace \/ Child \/ ChildIsFreed \/ NoMoreChildren \/ Self \/ ExitSpace
           \/ KillReturns
  BY <1>4, <1>9, InnerSteps
<1>10. CASE EnterCopySpace \/ CopySpace \/ DeleteSpace \/ FreeSpace \/ Load
  BY <1>2, <1>4, <1>10, SpaceSteps
<1>11. CASE EnterAllocatePCB \/ EnterDeallocatePCB \/ JoinDeletes \/ ClearPid \/ DestroyPCBSpace
            \/ DestroyPCB \/ ForgetPCB
  BY <1>3, <1>4, <1>11, LockSteps
<1>12. CASE AllocatePCB
  BY <1>3, <1>4, <1>12, AllocateStep
<1>. QED
  BY <1>5, <1>6, <1>7, <1>8, <1>9, <1>10, <1>11, <1>12 DEF ProcessNext

-----------------------------------------------------------------------------
(* Types                                                                   *)

\* The tables and the owners of the spaces keep their types.
TablesTyped ==
    /\ tspace \in [ThreadAddr -> SpaceAddr \cup {NULL}]
    /\ sstate \in [SpaceAddr -> {"unused", "live", "freed"}]
    /\ pages \in [SpaceAddr -> SUBSET Page]
    /\ owner \in [SpaceAddr -> PcbAddr \cup {NULL}]
    /\ \A t \in ThreadAddr : tspace[t] # NULL => owner[tspace[t]] # NULL
    /\ usedPages \subseteq Page

PcbsTyped ==
    /\ pcb \in [PcbAddr -> PcbType]
    /\ pcbs \in [Pid -> PcbAddr \cup {NULL}]
    /\ usedPids \subseteq Pid

RestTyped ==
    /\ mmLock \in ThreadAddr \cup {NULL} /\ pcbManagerLock \in ThreadAddr \cup {NULL}
    /\ current \in ThreadAddr \cup {NULL}
    /\ crashed \in {"no", "full", "assert", "pointer"}
    /\ misused \in BOOLEAN

ThreadsTyped == tstate \in [ThreadAddr -> {"unused", "ready", "asleep", "removed", "finished"}]

\* ObjectInv is what the four say.
LEMMA Retype == ObjectInv <=> TablesTyped /\ PcbsTyped /\ RestTyped /\ ThreadsTyped
<1>1. ObjectInv => TablesTyped /\ PcbsTyped /\ RestTyped /\ ThreadsTyped
  BY DEF ObjectInv, ProcessTypeOK, TablesTyped, PcbsTyped, RestTyped, ThreadsTyped
<1>2. PcbsTyped => \A b \in PcbAddr :
         /\ pcb[b].state \in {"unused", "live", "freed"} /\ pcb[b].pid \in Pid
         /\ pcb[b].parent \in PcbAddr \cup {NULL} /\ pcb[b].thread \in ThreadAddr \cup {NULL}
         /\ pcb[b].exited \in BOOLEAN /\ pcb[b].children \in Seq(PcbAddr)
  BY DEF PcbsTyped, PcbType
<1>3. ASSUME TablesTyped, PcbsTyped, RestTyped, ThreadsTyped PROVE ProcessTypeOK
  BY <1>2, <1>3 DEF ProcessTypeOK, TablesTyped, PcbsTyped, RestTyped, ThreadsTyped
<1>. QED
  BY <1>1, <1>3 DEF ObjectInv, TablesTyped, PcbsTyped, RestTyped

\* The locks, the CPU and the outcome.
LEMMA RestStep ==
  ASSUME StackInv, ObjectInv, [ProcessNext]_vars
  PROVE  RestTyped' /\ ThreadsTyped'
<1>1. RestTyped /\ ThreadsTyped
  BY Retype
<1>2. ThreadsTyped'
  <2>1. DullStep => ThreadsTyped'
    <3>1. StillStep => ThreadsTyped'
      BY <1>1 DEF StillStep, ThreadsTyped
    <3>2. MoveStep(EmptyPoint) => ThreadsTyped'
      BY TstateLemma DEF MoveStep, ThreadsTyped
    <3>. QED BY <3>1, <3>2 DEF DullStep
  <2>2. MoveStep({}) => ThreadsTyped'
    BY TstateLemma DEF MoveStep, ThreadsTyped
  <2>3. \A r : GoesOn(r) => ThreadsTyped'
    BY TstateLemma DEF GoesOn, ThreadsTyped
  <2>4. ForkThread \/ Finish => ThreadsTyped'
    <3>1. ForkThread => \E t \in ThreadAddr : tstate' = [tstate EXCEPT ![t] = "ready"]
      BY ForkStep
    <3>2. Finish => tstate' = [tstate EXCEPT ![current] = "finished"]
      BY FinishStep
    <3>. QED BY <1>1, <3>1, <3>2 DEF ThreadsTyped
  <2>. QED
    BY <2>1, <2>2, <2>3, <2>4, StillSteps, CallSteps, InnerSteps, SpaceSteps, LockSteps, AllocateStep
    DEF ProcessNext
<1>3. misused' \in BOOLEAN
  <2>1. misused \in BOOLEAN
    BY <1>1 DEF RestTyped
  <2>2. \A p : misused' = (misused \/ p) => misused' \in BOOLEAN
    BY <2>1, Zenon
  <2>3. UNCHANGED misused \/ misused' = TRUE \/ \E p : misused' = (misused \/ p)
    <3>1. CASE UNCHANGED vars
      BY <3>1 DEF vars, histVars
    <3>2. CASE GiveWay \/ Dispatch \/ Over \/ NullSpace \/ JoinWaits \/ KillFreed
      BY <3>2 DEF GiveWay, Dispatch, Over, NullSpace, JoinWaits, KillFreed, Crash, Uses, vars, histVars
    <3>3. CASE doFork \/ doExit \/ doJoin \/ doExec
      BY <3>3 DEF doFork, doExit, StartExit, doJoin, doExec, Uses, histVars
    <3>4. CASE doKill
      BY <3>4 DEF doKill
    <3>5. CASE CopyFails \/ EnterDeleteSpace \/ Child \/ ChildIsFreed \/ NoMoreChildren \/ Self \/ ExitSpace
               \/ KillReturns
      BY <3>5 DEF CopyFails, EnterDeleteSpace, Child, ChildIsFreed, NoMoreChildren, Self, ExitSpace,
                  KillReturns, SleepInAcquire, Crash, Uses, histVars
    <3>6. CASE EnterCopySpace \/ CopySpace \/ DeleteSpace \/ FreeSpace \/ Load
      BY <3>6 DEF EnterCopySpace, CopySpace, DeleteSpace, FreeSpace, Load, SleepInAcquire, Crash, histVars
    <3>7. CASE EnterAllocatePCB \/ EnterDeallocatePCB \/ JoinDeletes \/ ClearPid \/ DestroyPCBSpace
               \/ DestroyPCB \/ ForgetPCB \/ AllocatePCB \/ ForkThread \/ Finish
      BY <3>7 DEF EnterAllocatePCB, EnterDeallocatePCB, JoinDeletes, ClearPid, DestroyPCBSpace, DestroyPCB,
                  ForgetPCB, AllocatePCB, ForkThread, Finish, SleepInAcquire, Crash, Uses, histVars
    <3>. QED BY <3>1, <3>2, <3>3, <3>4, <3>5, <3>6, <3>7 DEF ProcessNext
  <2>. QED BY <2>1, <2>2, <2>3
<1>4. /\ mmLock' \in ThreadAddr \cup {NULL} /\ pcbManagerLock' \in ThreadAddr \cup {NULL}
      /\ current' \in ThreadAddr \cup {NULL}
      /\ crashed' \in {"no", "full", "assert", "pointer"}
  <2>1. CASE UNCHANGED vars
    BY <1>1, <2>1 DEF vars, lockVars, RestTyped
  <2>2. CASE GiveWay \/ Dispatch \/ Over \/ NullSpace \/ JoinWaits \/ KillFreed
    BY <1>1, <2>2 DEF GiveWay, Dispatch, Over, NullSpace, JoinWaits, KillFreed, Crash, vars, lockVars, RestTyped
  <2>3. CASE doFork \/ doExit \/ doJoin \/ doKill \/ doExec
    BY <1>1, <2>3 DEF doFork, doExit, StartExit, doJoin, doKill, doExec, lockVars, RestTyped
  <2>5. CASE CopyFails \/ EnterDeleteSpace \/ Child \/ ChildIsFreed \/ NoMoreChildren \/ Self \/ ExitSpace
             \/ KillReturns
    BY <1>1, <2>5 DEF CopyFails, EnterDeleteSpace, Child, ChildIsFreed, NoMoreChildren, Self, ExitSpace,
                KillReturns, SleepInAcquire, Crash, lockVars, RestTyped, me
  <2>6. CASE EnterCopySpace \/ CopySpace \/ DeleteSpace \/ FreeSpace \/ Load
    BY <1>1, <2>6 DEF EnterCopySpace, CopySpace, DeleteSpace, FreeSpace, Load, SleepInAcquire, Crash, lockVars,
                RestTyped, me, ReleaseMm
  <2>7. CASE EnterAllocatePCB \/ EnterDeallocatePCB \/ JoinDeletes \/ ClearPid \/ DestroyPCBSpace
             \/ DestroyPCB \/ ForgetPCB \/ AllocatePCB \/ ForkThread \/ Finish
    BY <1>1, <2>7 DEF EnterAllocatePCB, EnterDeallocatePCB, JoinDeletes, ClearPid, DestroyPCBSpace, DestroyPCB,
                ForgetPCB, AllocatePCB, ForkThread, Finish, SleepInAcquire, Crash, lockVars, RestTyped, me,
                ReleasePcbs
  <2>. QED BY <2>1, <2>2, <2>3, <2>5, <2>6, <2>7 DEF ProcessNext
<1>. QED BY <1>2, <1>3, <1>4 DEF RestTyped

\* The address spaces and their page tables.
LEMMA TablesStep ==
  ASSUME StackInv, ObjectInv, [ProcessNext]_vars
  PROVE  TablesTyped'
<1>1. TablesTyped
  BY Retype
<1>2. ASSUME UNCHANGED <<tspace, spaceVars, usedPages>> PROVE TablesTyped'
  BY <1>1, <1>2 DEF TablesTyped, spaceVars
<1>l. \A n, free : Lowest(n, free) \subseteq free
  BY DEF Lowest
<1>3. CASE UNCHANGED vars
  BY <1>2, <1>3 DEF vars, threadVars
<1>4. CASE GiveWay \/ Dispatch \/ Over \/ NullSpace \/ JoinWaits \/ KillFreed
  BY <1>2, <1>4 DEF GiveWay, Dispatch, Over, NullSpace, JoinWaits, KillFreed, Crash, vars, threadVars
<1>5. CASE doFork \/ doExit \/ doJoin \/ doKill \/ doExec
  BY <1>2, <1>5 DEF doFork, doExit, StartExit, doJoin, doKill, doExec
<1>6. CASE CopyFails \/ EnterDeleteSpace \/ Child \/ ChildIsFreed \/ NoMoreChildren \/ Self \/ ExitSpace
           \/ KillReturns
  BY <1>2, <1>6 DEF CopyFails, EnterDeleteSpace, Child, ChildIsFreed, NoMoreChildren, Self, ExitSpace,
                    KillReturns, SleepInAcquire, Crash, threadVars
<1>7. CASE EnterAllocatePCB \/ EnterDeallocatePCB \/ JoinDeletes \/ ClearPid \/ DestroyPCBSpace
           \/ ForgetPCB \/ AllocatePCB \/ Finish
  BY <1>2, <1>7 DEF EnterAllocatePCB, EnterDeallocatePCB, JoinDeletes, ClearPid, DestroyPCBSpace,
                    ForgetPCB, AllocatePCB, Finish, SleepInAcquire, Crash, threadVars
<1>8. CASE EnterCopySpace
  <2>1. CASE SleepInAcquire
    BY <1>2, <2>1 DEF SleepInAcquire
  <2>2. CASE ~SleepInAcquire
    <3>1. /\ \E s \in SpaceAddr : sstate' = [sstate EXCEPT ![s] = "live"]
          /\ UNCHANGED <<tspace, pages, owner, usedPages>>
      BY <1>1, <1>8, <2>2 DEF EnterCopySpace, Fresh, TablesTyped
    <3>. QED BY <1>1, <3>1 DEF TablesTyped
  <2>. QED BY <2>1, <2>2
<1>9. CASE CopySpace
  <2>1. /\ \E ps \in SUBSET Page : /\ pages' = [pages EXCEPT ![Top.space] = ps]
                                   /\ usedPages' = usedPages \cup ps
        /\ UNCHANGED <<tspace, sstate, owner>>
    BY <1>9, <1>l DEF CopySpace, FreePages
  <2>. QED BY <1>1, <2>1 DEF TablesTyped
<1>10. CASE DeleteSpace
  <2>1. CASE Crash("assert")
    BY <1>2, <2>1 DEF Crash, threadVars
  <2>2. CASE ~Crash("assert")
    <3>1. /\ pages' = [pages EXCEPT ![Top.space] = {}]
          /\ usedPages' = usedPages \ pages[Top.space]
          /\ UNCHANGED <<tspace, sstate, owner>>
      BY <1>10, <2>2 DEF DeleteSpace, DeallocatePages
    <3>. QED BY <1>1, <3>1 DEF TablesTyped
  <2>. QED BY <2>1, <2>2
<1>11. CASE FreeSpace
  <2>1. sstate' = [sstate EXCEPT ![Top.space] = "freed"] /\ UNCHANGED <<tspace, pages, owner, usedPages>>
    BY <1>11 DEF FreeSpace
  <2>. QED BY <1>1, <2>1 DEF TablesTyped
<1>12. CASE Load
  <2>1. current \in ThreadAddr /\ Top.pcb \in PcbAddr
    BY <1>12, Running DEF Load, At, me, FrameType
  <2>2. CASE tspace' = [tspace EXCEPT ![current] = NULL] /\ UNCHANGED <<spaceVars, usedPages>>
    BY <1>1, <2>2 DEF TablesTyped, spaceVars
  <2>3. CASE ~(tspace' = [tspace EXCEPT ![current] = NULL] /\ UNCHANGED <<spaceVars, usedPages>>)
    <3>1. PICK s \in SpaceAddr, ps \in SUBSET Page :
            /\ sstate' = [sstate EXCEPT ![s] = "live"]
            /\ pages' = [pages EXCEPT ![s] = ps]
            /\ owner' = [owner EXCEPT ![s] = Top.pcb]
            /\ tspace' = [tspace EXCEPT ![current] = s]
            /\ usedPages' = usedPages \cup ps
      BY <1>1, <1>12, <1>l, <2>3 DEF Load, Fresh, TablesTyped, FreePages, me
    <3>2. Top.pcb # NULL /\ NULL \notin SpaceAddr
      BY <2>1, ProcessAssumption
    <3>. QED BY <1>1, <2>1, <3>1, <3>2 DEF TablesTyped
  <2>. QED BY <2>2, <2>3
<1>13. CASE ForkThread
  <2>1. Top.pcb \in PcbAddr /\ Top.space \in SpaceAddr /\ Top.pcb # NULL /\ NULL \notin SpaceAddr
    BY <1>13, Running, ProcessAssumption DEF ForkThread, At, me, FrameType
  <2>2. PICK t : /\ tspace' = [tspace EXCEPT ![t] = Top.space]
                 /\ owner' = [owner EXCEPT ![Top.space] = Top.pcb]
                 /\ UNCHANGED <<sstate, pages, usedPages>>
    BY <1>13 DEF ForkThread
  <2>. QED BY <1>1, <2>1, <2>2 DEF TablesTyped
<1>14. CASE DestroyPCB
  <2>1. PICK v : /\ tspace' = [t \in ThreadAddr |-> IF t = v THEN NULL ELSE tspace[t]]
                 /\ UNCHANGED <<spaceVars, usedPages>>
    BY <1>14 DEF DestroyPCB
  <2>. QED BY <1>1, <2>1 DEF TablesTyped, spaceVars
<1>. QED
  BY <1>3, <1>4, <1>5, <1>6, <1>7, <1>8, <1>9, <1>10, <1>11, <1>12, <1>13, <1>14 DEF ProcessNext

\* The PCBs and the process table.
LEMMA PcbsStep ==
  ASSUME StackInv, ObjectInv, [ProcessNext]_vars
  PROVE  PcbsTyped'
<1>1. PcbsTyped
  BY Retype
<1>2. ASSUME UNCHANGED <<pcb, pidVars>> PROVE PcbsTyped'
  BY <1>1, <1>2 DEF PcbsTyped, pidVars
<1>3. ASSUME UNCHANGED pidVars, NEW b, NEW q \in PcbType, pcb' = [pcb EXCEPT ![b] = q] PROVE PcbsTyped'
  BY <1>1, <1>3 DEF PcbsTyped, pidVars
<1>4. CASE UNCHANGED vars
  BY <1>2, <1>4 DEF vars
<1>5. CASE GiveWay \/ Dispatch \/ Over \/ NullSpace \/ JoinWaits \/ KillFreed
  BY <1>2, <1>5 DEF GiveWay, Dispatch, Over, NullSpace, JoinWaits, KillFreed, Crash, vars
<1>6. CASE doFork \/ doJoin \/ doExec
  BY <1>2, <1>6 DEF doFork, doJoin, doExec
<1>7. CASE CopyFails \/ EnterDeleteSpace \/ ChildIsFreed \/ NoMoreChildren \/ Self \/ ExitSpace \/ KillReturns
  BY <1>2, <1>7 DEF CopyFails, EnterDeleteSpace, ChildIsFreed, NoMoreChildren, Self, ExitSpace,
                    KillReturns, SleepInAcquire, Crash
<1>8. CASE EnterCopySpace \/ CopySpace \/ DeleteSpace \/ FreeSpace \/ Load
  BY <1>2, <1>8 DEF EnterCopySpace, CopySpace, DeleteSpace, FreeSpace, Load, SleepInAcquire, Crash
<1>9. CASE EnterAllocatePCB \/ EnterDeallocatePCB \/ JoinDeletes \/ DestroyPCBSpace \/ Finish
  BY <1>2, <1>9 DEF EnterAllocatePCB, EnterDeallocatePCB, JoinDeletes, DestroyPCBSpace, Finish, SleepInAcquire
<1>10. CASE ClearPid
  <2>1. usedPids' \subseteq usedPids /\ UNCHANGED <<pcb, pcbs>>
    BY <1>10 DEF ClearPid
  <2>. QED BY <1>1, <2>1 DEF PcbsTyped
<1>11. CASE ForgetPCB
  <2>1. pcbs' = [pcbs EXCEPT ![Top.n] = NULL] /\ UNCHANGED <<pcb, usedPids>>
    BY <1>11 DEF ForgetPCB
  <2>. QED BY <1>1, <2>1 DEF PcbsTyped
<1>12. CASE AllocatePCB
  <2>1. CASE Crash("full")
    BY <1>2, <2>1 DEF Crash
  <2>2. CASE ~Crash("full")
    <3>1. PICK pid \in Pid, b \in PcbAddr :
            /\ pcb' = [pcb EXCEPT ![b] = NewPCB(pid)]
            /\ pcbs' = [pcbs EXCEPT ![pid] = b]
            /\ usedPids' = usedPids \cup {pid}
      BY <1>12, <2>2 DEF AllocatePCB, Lowest, FreePids, Fresh, PcbState
    <3>2. NewPCB(pid) \in PcbType
      BY DEF NewPCB, PcbType
    <3>. QED BY <1>1, <3>1, <3>2 DEF PcbsTyped
  <2>. QED BY <2>1, <2>2
<1>13. CASE doExit
  <2>1. MyPcb \in PcbAddr
    BY <1>13, UserLemma DEF doExit
  <2>2. pcb' = [pcb EXCEPT ![MyPcb] = [pcb[MyPcb] EXCEPT !.exited = TRUE]] /\ UNCHANGED pidVars
    BY <1>13 DEF doExit, StartExit
  <2>3. [pcb[MyPcb] EXCEPT !.exited = TRUE] \in PcbType
    BY <1>1, <2>1 DEF PcbsTyped, PcbType
  <2>. QED BY <1>3, <2>2, <2>3
<1>14. CASE Child
  <2>1. CASE UNCHANGED pcb
    BY <1>2, <1>14, <2>1 DEF Child
  <2>2. CASE ~UNCHANGED pcb
    <3>. DEFINE c == Head(Top.kids)
    <3>1. pcb' = [pcb EXCEPT ![c] = [pcb[c] EXCEPT !.parent = NULL]] /\ UNCHANGED pidVars
      BY <1>14, <2>2 DEF Child
    <3>2. c \in PcbAddr
      <4>1. Top \in FrameType /\ Top.kids # << >>
        BY <1>14, Running DEF Child, At, me
      <4>2. Top.kids \in Seq(PcbAddr)
        BY <4>1 DEF FrameType
      <4>. QED BY <4>1, <4>2
    <3>. HIDE DEF c
    <3>3. [pcb[c] EXCEPT !.parent = NULL] \in PcbType
      BY <1>1, <3>2 DEF PcbsTyped, PcbType
    <3>. QED BY <1>3, <3>1, <3>3
  <2>. QED BY <2>1, <2>2
<1>15. CASE doKill
  <2>1. PICK pid \in Pid : /\ pcbs[pid] # NULL
                           /\ pcb' = IF pcb[pcbs[pid]].parent = NULL THEN pcb
                                ELSE [pcb EXCEPT ![pcb[pcbs[pid]].parent].children = RemoveFirst(@, pcbs[pid])]
    BY <1>15 DEF doKill
  <2>. DEFINE b == pcbs[pid]
              p == pcb[b].parent
              ks == RemoveFirst(pcb[p].children, b)
  <2>2. UNCHANGED pidVars
    BY <1>15 DEF doKill
  <2>3. CASE p = NULL
    BY <1>2, <2>1, <2>2, <2>3
  <2>4. CASE p # NULL
    <3>1. p \in PcbAddr
      BY <1>1, <2>1, <2>4 DEF PcbsTyped, PcbType
    <3>2. ks \in Seq(PcbAddr)
      <4>1. pcb[p].children \in Seq(PcbAddr)
        BY <1>1, <3>1 DEF PcbsTyped, PcbType
      <4>. QED BY <4>1, RemoveFirstLemma
    <3>3. pcb' = [pcb EXCEPT ![p] = [pcb[p] EXCEPT !.children = ks]]
      BY <2>1, <2>4
    <3>. HIDE DEF ks, p, b
    <3>4. [pcb[p] EXCEPT !.children = ks] \in PcbType
      BY <1>1, <3>1, <3>2 DEF PcbsTyped, PcbType
    <3>. QED BY <1>3, <2>2, <3>3, <3>4
  <2>. QED BY <2>3, <2>4
<1>16. CASE DestroyPCB
  <2>. DEFINE b == Top.pcb
              th == IF Victim(b) = NULL THEN pcb[b].thread ELSE NULL
  <2>1. pcb' = [pcb EXCEPT ![b] = [pcb[b] EXCEPT !.state = "freed", !.thread = th]] /\ UNCHANGED pidVars
    BY <1>16 DEF DestroyPCB
  <2>2. b \in PcbAddr
    BY <1>16, Running DEF DestroyPCB, At, me, FrameType
  <2>3. th \in ThreadAddr \cup {NULL}
    BY <1>1, <2>2 DEF PcbsTyped, PcbType
  <2>. HIDE DEF th, b
  <2>4. [pcb[b] EXCEPT !.state = "freed", !.thread = th] \in PcbType
    BY <1>1, <2>2, <2>3 DEF PcbsTyped, PcbType
  <2>. QED BY <1>3, <2>1, <2>4
<1>17. CASE ForkThread
  <2>. DEFINE c == Top.pcb
              p == MyPcb
  <2>1. PICK t \in ThreadAddr :
          pcb' = [pcb EXCEPT ![c].thread = t, ![c].parent = p, ![p].children = Append(@, c)]
    <3>1. DOMAIN tstate = ThreadAddr
      BY DEF ObjectInv, ProcessTypeOK
    <3>. QED BY <1>17, <3>1 DEF ForkThread, Fresh
  <2>2. c \in PcbAddr
    BY <1>17, Running DEF ForkThread, At, me, FrameType
  <2>3. p \in PcbAddr
    <3>1. Mine \in SpaceAddr /\ current \in ThreadAddr /\ tspace[current] = Mine
      BY <1>17, Running DEF ForkThread, SpaceGone, At, me, Mine
    <3>2. TablesTyped /\ NULL \notin SpaceAddr
      BY Retype, ProcessAssumption
    <3>. QED BY <3>1, <3>2 DEF MyPcb, TablesTyped
  <2>. HIDE DEF c, p
  <2>. DEFINE one == [pcb EXCEPT ![c] = [pcb[c] EXCEPT !.thread = t, !.parent = p]]
              ks == Append(one[p].children, c)
  <2>4. pcb' = [one EXCEPT ![p] = [one[p] EXCEPT !.children = ks]]
    BY <1>1, <2>1, <2>2, <2>3 DEF PcbsTyped, PcbType
  <2>5. [pcb[c] EXCEPT !.thread = t, !.parent = p] \in PcbType
    BY <1>1, <2>2, <2>3 DEF PcbsTyped, PcbType
  <2>6. one \in [PcbAddr -> PcbType]
    BY <1>1, <2>5 DEF PcbsTyped
  <2>. HIDE DEF one
  <2>7. one[p] \in PcbType /\ one[p].children \in Seq(PcbAddr)
    BY <2>3, <2>6 DEF PcbType
  <2>8. ks \in Seq(PcbAddr)
    BY <2>2, <2>7
  <2>. HIDE DEF ks
  <2>9. [one[p] EXCEPT !.children = ks] \in PcbType
    BY <2>7, <2>8 DEF PcbType
  <2>10. UNCHANGED pidVars
    BY <1>17 DEF ForkThread
  <2>. QED BY <1>1, <2>4, <2>6, <2>9, <2>10 DEF PcbsTyped, pidVars
<1>. QED
  BY <1>4, <1>5, <1>6, <1>7, <1>8, <1>9, <1>10, <1>11, <1>12, <1>13, <1>14, <1>15, <1>16, <1>17 DEF ProcessNext

\* No pointer is ever to an object of another kind, whatever step is taken.
LEMMA ObjectStep ==
  ASSUME StackInv, ObjectInv, [ProcessNext]_vars
  PROVE  ObjectInv'
<1>1. (ObjectInv <=> TablesTyped /\ PcbsTyped /\ RestTyped /\ ThreadsTyped)'
  BY Retype, PTL
<1>. QED BY <1>1, TablesStep, PcbsStep, RestStep

-----------------------------------------------------------------------------
(* Pages                                                                   *)

\* No thread comes to make or unmake a space.
Quiet == \A t \in ThreadAddr : Emptying(t)' => Emptying(t) /\ Target(t)' = Target(t)

\* A step that replaces only the running thread's stack.
LEMMA OtherStacks ==
  ASSUME StackInv, ObjectInv, current # NULL, NEW r, stack' = [stack EXCEPT ![current] = r]
  PROVE  stack'[current] = r /\ \A t \in ThreadAddr : t # current => stack'[t] = stack[t]
<1>1. stack \in [ThreadAddr -> Seq(FrameType)] /\ current \in ThreadAddr
  BY Running DEF StackInv
<1>. QED BY <1>1

\* Most steps are of that kind.
LEMMA QuietSteps ==
  ASSUME StackInv, ObjectInv
  PROVE  /\ StillStep => Quiet
         /\ MoveStep(EmptyPoint) => Quiet
         /\ \A r : GoesOn(r) => Quiet
         /\ ForkThread => Quiet
         /\ Finish => Quiet
<1>. DEFINE Off(s) == s # << >> => Head(s).at \notin EmptyPoint
<1>1. \A r : Ready(r) /\ r[1].at \notin EmptyPoint => Off(r)
  BY PopLemma DEF Ready
<1>2. ASSUME \A t \in ThreadAddr : stack'[t] = stack[t] \/ Off(stack'[t]) PROVE Quiet
  BY <1>2 DEF Quiet, Emptying, Target
<1>3. ASSUME NEW r, current # NULL, Ready(r), r[1].at \notin EmptyPoint, stack' = [stack EXCEPT ![current] = r]
      PROVE  Quiet
  <2>1. Off(r)
    BY <1>1, <1>3
  <2>2. stack'[current] = r /\ \A t \in ThreadAddr : t # current => stack'[t] = stack[t]
    BY <1>3, OtherStacks
  <2>. HIDE DEF Off
  <2>3. \A t \in ThreadAddr : stack'[t] = stack[t] \/ Off(stack'[t])
    BY <2>1, <2>2
  <2>. QED BY <1>2, <2>3
<1>4. StillStep => Quiet
  BY <1>2 DEF StillStep
<1>5. MoveStep(EmptyPoint) => Quiet
  BY <1>3 DEF MoveStep, Moved
<1>6. \A r : GoesOn(r) => Quiet
  BY <1>3 DEF GoesOn
<1>7. ASSUME ForkThread PROVE Quiet
  <2>. DEFINE p == <<Plain("user")>>
              u == Tail(stack[current])
  <2>1. PICK t \in ThreadAddr :
           /\ current # NULL /\ t # current
           /\ Ready(p) /\ Ready(u) /\ u[1].at = "user" /\ p[1].at = "user"
           /\ stack' = [stack EXCEPT ![t] = p, ![current] = u]
    BY <1>7, ForkStep
  <2>. HIDE DEF p, u
  <2>2. stack \in [ThreadAddr -> Seq(FrameType)] /\ current \in ThreadAddr
    BY <2>1, Running DEF StackInv
  <2>3. "user" \notin EmptyPoint
    BY DEF EmptyPoint
  <2>4. Off(p) /\ Off(u)
    BY <1>1, <2>1, <2>3
  <2>5. stack'[t] = p /\ stack'[current] = u
        /\ \A x \in ThreadAddr : x \notin {t, current} => stack'[x] = stack[x]
    BY <2>1, <2>2
  <2>. HIDE DEF Off
  <2>6. \A x \in ThreadAddr : stack'[x] = stack[x] \/ Off(stack'[x])
    BY <2>4, <2>5
  <2>. QED BY <1>2, <2>6
<1>8. ASSUME Finish PROVE Quiet
  <2>1. stack'[current] = << >> /\ \A t \in ThreadAddr : t # current => stack'[t] = stack[t]
    BY <1>8, FinishStep, OtherStacks
  <2>2. Off(<< >>)
    OBVIOUS
  <2>. HIDE DEF Off
  <2>3. \A t \in ThreadAddr : stack'[t] = stack[t] \/ Off(stack'[t])
    BY <2>1, <2>2
  <2>. QED BY <1>2, <2>3
<1>. QED BY <1>4, <1>5, <1>6, <1>7, <1>8

\* The running thread's top frame is replaced by f.
LEMMA BecomeTop ==
  ASSUME StackInv, ObjectInv, current # NULL, NEW f \in FrameType, Become(<<f>>)
  PROVE  /\ stack'[current] # << >> /\ Head(stack'[current]) = f
         /\ \A t \in ThreadAddr : t # current => stack'[t] = stack[t]
<1>. DEFINE u == Tail(stack[current])
            r == <<f>> \o u
<1>1. Stackful(stack[current])
  BY Running
<1>2. u \in Seq(FrameType)
  BY <1>1, PopLemma
<1>. HIDE DEF u
<1>3. r # << >> /\ Head(r) = f
  BY <1>2
<1>4. stack' = [stack EXCEPT ![current] = r]
  BY DEF Become, me, u
<1>. HIDE DEF r
<1>5. stack'[current] = r /\ \A t \in ThreadAddr : t # current => stack'[t] = stack[t]
  BY <1>4, OtherStacks
<1>. QED BY <1>3, <1>5

\* Pages are taken for an empty page table, or all of a page table's are freed.
LEMMA FillAndFree ==
  ASSUME ObjectInv, PagesExact, NEW s \in SpaceAddr
  PROVE  /\ \A ps : pages[s] = {} /\ ps \cap usedPages = {} /\ pages' = [pages EXCEPT ![s] = ps]
                    /\ usedPages' = usedPages \cup ps => PagesExact'
         /\ pages' = [pages EXCEPT ![s] = {}] /\ usedPages' = usedPages \ pages[s] => PagesExact'
<1>1. pages \in [SpaceAddr -> SUBSET Page]
  BY DEF ObjectInv, ProcessTypeOK
<1>2. ASSUME NEW ps, pages[s] = {}, ps \cap usedPages = {}, pages' = [pages EXCEPT ![s] = ps],
             usedPages' = usedPages \cup ps
      PROVE  PagesExact'
  <2>1. pages'[s] = ps /\ \A x \in SpaceAddr : x # s => pages'[x] = pages[x]
    BY <1>1, <1>2
  <2>2. \A x \in SpaceAddr : pages[x] \subseteq usedPages
    BY DEF PagesExact
  <2>3. \A x, y \in SpaceAddr : x # y => pages'[x] \cap pages'[y] = {}
    BY <1>2, <2>1, <2>2 DEF PagesExact
  <2>4. \A p : p \in usedPages' <=> \E x \in SpaceAddr : p \in pages'[x]
    <3>1. \A p : p \in usedPages <=> \E x \in SpaceAddr : p \in pages[x]
      BY DEF PagesExact
    <3>. QED BY <1>2, <2>1, <3>1
  <2>. QED BY <2>3, <2>4 DEF PagesExact
<1>3. ASSUME pages' = [pages EXCEPT ![s] = {}], usedPages' = usedPages \ pages[s]
      PROVE  PagesExact'
  <2>1. pages'[s] = {} /\ \A x \in SpaceAddr : x # s => pages'[x] = pages[x]
    BY <1>1, <1>3
  <2>3. \A x, y \in SpaceAddr : x # y => pages'[x] \cap pages'[y] = {}
    BY <2>1 DEF PagesExact
  <2>4. \A p : p \in usedPages' <=> \E x \in SpaceAddr : p \in pages'[x]
    <3>1. \A p : p \in usedPages <=> \E x \in SpaceAddr : p \in pages[x]
      BY DEF PagesExact
    <3>2. \A p, x : x \in SpaceAddr /\ x # s /\ p \in pages[x] => p \notin pages[s]
      BY DEF PagesExact
    <3>. QED BY <1>3, <2>1, <3>1, <3>2
  <2>. QED BY <2>3, <2>4 DEF PagesExact
<1>. QED BY <1>2, <1>3

\* A page table is filled once, by the thread that made it, from free pages,
\* and its pages are freed once, whatever step is taken.
LEMMA PagesStep ==
  ASSUME StackInv, ObjectInv, EmptyUntilFilled, PagesExact, [ProcessNext]_vars
  PROVE  EmptyUntilFilled' /\ PagesExact'
<1>t. /\ sstate \in [SpaceAddr -> {"unused", "live", "freed"}]
      /\ pages \in [SpaceAddr -> SUBSET Page]
  BY DEF ObjectInv, ProcessTypeOK
<1>l. \A n : Lowest(n, FreePages) \cap usedPages = {}
  BY DEF Lowest, FreePages
<1>1. ASSUME Quiet, SamePages PROVE EmptyUntilFilled' /\ PagesExact'
  <2>1. UNCHANGED <<sstate, pages, usedPages>>
    BY <1>1 DEF SamePages
  <2>2. PagesExact'
    BY <2>1 DEF PagesExact
  <2>3. EmptyUntilFilled'
    BY <1>1, <2>1 DEF EmptyUntilFilled, Quiet
  <2>. QED BY <2>2, <2>3
<1>2. DullStep => Quiet /\ SamePages
  BY QuietSteps DEF DullStep
<1>f. ASSUME NEW s \in SpaceAddr, sstate[s] # "live"
      PROVE  pages[s] = {} /\ \A u \in ThreadAddr : Emptying(u) => Target(u) # s
  BY <1>f DEF EmptyUntilFilled
<1>n. ASSUME current # NULL, Top.at \in {"copyPages", "freeSpace"}
      PROVE  /\ Emptying(current) /\ Target(current) = Top.space /\ Top.space \in SpaceAddr
             /\ current \in ThreadAddr
             /\ sstate[Top.space] = "live" /\ pages[Top.space] = {}
             /\ \A u \in ThreadAddr : u # current /\ Emptying(u) => Target(u) # Top.space
  <2>1. current \in ThreadAddr /\ stack[current] # << >> /\ Top \in FrameType
    BY <1>n, Running DEF Stackful
  <2>2. Top.space \in SpaceAddr
    BY <1>n, <2>1 DEF FrameType
  <2>3. Emptying(current) /\ Target(current) = Top.space
    BY <1>n, <2>1 DEF Emptying, EmptyPoint, Target, Top, me
  <2>. QED BY <2>1, <2>2, <2>3 DEF EmptyUntilFilled
<1>3. CASE EnterCopySpace
  <2>1. current # NULL /\ Top.at = "copySpace"
    BY <1>3 DEF EnterCopySpace, At, me
  <2>2. CASE SleepInAcquire
    BY <1>1, <1>2, <2>1, <2>2, SleepAndCrash
  <2>3. CASE ~SleepInAcquire
    <3>0. PICK c \in ThreadAddr : c = current
      BY <2>1, Running
    <3>1. PICK s \in Fresh(sstate, "freed") :
            /\ sstate' = [sstate EXCEPT ![s] = "live"]
            /\ Become(<<Frame("copyPages", Top.pcb, s, << >>, 0)>>)
            /\ UNCHANGED <<pages, usedPages>>
      BY <1>3, <2>3 DEF EnterCopySpace
    <3>2. s \in SpaceAddr /\ sstate[s] # "live"
      BY <1>t, <3>1 DEF Fresh
    <3>. DEFINE f == Frame("copyPages", Top.pcb, s, << >>, 0)
    <3>3. Top.pcb \in PcbAddr
      BY <2>1, Running DEF Ready
    <3>4. f \in FrameType /\ f.at = "copyPages" /\ f.space = s
      BY <3>2, <3>3, Frames
    <3>. HIDE DEF f
    <3>5. /\ stack'[c] # << >> /\ Head(stack'[c]) = f
          /\ \A t \in ThreadAddr : t # c => stack'[t] = stack[t]
      BY <2>1, <3>0, <3>1, <3>4, BecomeTop DEF f
    <3>6. pages[s] = {} /\ \A u \in ThreadAddr : Emptying(u) => Target(u) # s
      BY <1>f, <3>2
    <3>7. /\ sstate'[s] = "live" /\ \A x \in SpaceAddr : x # s => sstate'[x] = sstate[x]
          /\ UNCHANGED pages
      BY <1>t, <3>1, <3>2
    <3>8. /\ Target(c)' = s
          /\ \A t \in ThreadAddr : t # c => (Emptying(t)' <=> Emptying(t)) /\ Target(t)' = Target(t)
      BY <3>4, <3>5 DEF Emptying, Target
    <3>9. \A x \in SpaceAddr : sstate'[x] # "live" => pages'[x] = {}
      BY <3>7 DEF EmptyUntilFilled
    <3>10. \A t \in ThreadAddr : Emptying(t)' => sstate'[Target(t)'] = "live" /\ pages'[Target(t)'] = {}
      <4>. SUFFICES ASSUME NEW t \in ThreadAddr, Emptying(t)'
                    PROVE  sstate'[Target(t)'] = "live" /\ pages'[Target(t)'] = {}
        OBVIOUS
      <4>1. CASE t = c
        BY <3>6, <3>7, <3>8, <4>1
      <4>2. CASE t # c
        <5>1. sstate[Target(t)] = "live" /\ pages[Target(t)] = {} /\ Target(t)' = Target(t)
          BY <3>8, <4>2 DEF EmptyUntilFilled
        <5>. QED BY <1>t, <3>1, <3>2, <3>7, <5>1
      <4>. QED BY <4>1, <4>2
    <3>11. \A t, u \in ThreadAddr : Emptying(t)' /\ Emptying(u)' /\ Target(t)' = Target(u)' => t = u
      BY <3>6, <3>8 DEF EmptyUntilFilled
    <3>12. EmptyUntilFilled'
      BY <3>9, <3>10, <3>11 DEF EmptyUntilFilled
    <3>. QED BY <3>1, <3>12 DEF PagesExact
  <2>. QED BY <2>2, <2>3
<1>4. CASE CopySpace
  <2>. DEFINE s == Top.space
              ps == Lowest(Cardinality(pages[Mine]), FreePages)
  <2>1. /\ current # NULL /\ Top.at = "copyPages"
        /\ pages' = [pages EXCEPT ![s] = ps] /\ usedPages' = usedPages \cup ps
        /\ Become(<<Frame("forkThread", Top.pcb, s, << >>, 0)>>) /\ UNCHANGED sstate
    BY <1>4 DEF CopySpace, At, me
  <2>2. /\ s \in SpaceAddr /\ sstate[s] = "live" /\ pages[s] = {}
        /\ \A u \in ThreadAddr : u # current /\ Emptying(u) => Target(u) # s
    BY <1>n, <2>1
  <2>3. PagesExact'
    BY <1>l, <2>1, <2>2, FillAndFree
  <2>. DEFINE f == Frame("forkThread", Top.pcb, s, << >>, 0)
              c == current
  <2>4. Top.pcb \in PcbAddr
    BY <2>1, Running DEF FrameType
  <2>5. f \in FrameType /\ f.at = "forkThread"
    BY <2>2, <2>4, Frames
  <2>. HIDE DEF f
  <2>6. /\ stack'[c] # << >> /\ Head(stack'[c]) = f
        /\ \A t \in ThreadAddr : t # c => stack'[t] = stack[t]
    BY <2>1, <2>5, BecomeTop DEF f
  <2>. HIDE DEF c, s, ps
  <2>7. \A t \in ThreadAddr : Emptying(t)' => t # c /\ Emptying(t) /\ Target(t)' = Target(t)
    BY <2>5, <2>6 DEF Emptying, Target, EmptyPoint
  <2>8. \A x \in SpaceAddr : x # s => pages'[x] = pages[x]
    BY <1>t, <2>1
  <2>9. ASSUME NEW t \in ThreadAddr, Emptying(t)'
        PROVE  sstate'[Target(t)'] = "live" /\ pages'[Target(t)'] = {}
    <3>1. /\ Target(t)' = Target(t) /\ Target(t) # s
          /\ sstate[Target(t)] = "live" /\ pages[Target(t)] = {}
      BY <2>2, <2>7, <2>9 DEF EmptyUntilFilled, c
    <3>. QED BY <1>t, <2>1, <3>1
  <2>10. EmptyUntilFilled'
    BY <2>1, <2>2, <2>7, <2>8, <2>9 DEF EmptyUntilFilled
  <2>. QED BY <2>3, <2>10
<1>5. CASE DeleteSpace
  <2>. DEFINE s == Top.space
  <2>1. current # NULL /\ Top.at = "freePages"
    BY <1>5 DEF DeleteSpace, At, me
  <2>2. CASE Crash("assert")
    BY <1>1, <1>2, <2>1, <2>2, SleepAndCrash
  <2>3. CASE ~Crash("assert")
    <3>1. /\ pages[s] # {} /\ usedPages' = usedPages \ pages[s] /\ pages' = [pages EXCEPT ![s] = {}]
          /\ Become(<<OnSpace("freeSpace", s)>>) /\ UNCHANGED sstate
      BY <1>5, <2>3 DEF DeleteSpace, DeallocatePages
    <3>2. s \in SpaceAddr
      BY <2>1, Running DEF FrameType
    <3>0. PICK c \in ThreadAddr : c = current
      BY <2>1, Running
    <3>3. PagesExact'
      BY <3>1, <3>2, FillAndFree
    <3>. DEFINE f == OnSpace("freeSpace", s)
    <3>4. f \in FrameType /\ f.at = "freeSpace" /\ f.space = s
      BY <3>2, Frames
    <3>. HIDE DEF f
    <3>5. /\ stack'[c] # << >> /\ Head(stack'[c]) = f
          /\ \A t \in ThreadAddr : t # c => stack'[t] = stack[t]
      BY <2>1, <3>0, <3>1, <3>4, BecomeTop DEF f
    <3>. HIDE DEF s
    <3>6. /\ Target(c)' = s
          /\ \A t \in ThreadAddr : t # c => (Emptying(t)' <=> Emptying(t)) /\ Target(t)' = Target(t)
      BY <3>4, <3>5 DEF Emptying, Target
    <3>7. sstate[s] = "live" /\ \A u \in ThreadAddr : Emptying(u) => Target(u) # s
      BY <3>1, <3>2 DEF EmptyUntilFilled
    <3>8. pages'[s] = {} /\ \A x : pages[x] = {} /\ x \in SpaceAddr => pages'[x] = {}
      BY <1>t, <3>1, <3>2
    <3>9. ASSUME NEW t \in ThreadAddr, Emptying(t)'
          PROVE  sstate'[Target(t)'] = "live" /\ pages'[Target(t)'] = {}
      <4>1. CASE t = c
        BY <3>1, <3>6, <3>7, <3>8, <4>1
      <4>2. CASE t # c
        <5>1. sstate[Target(t)] = "live" /\ pages[Target(t)] = {} /\ Target(t)' = Target(t) /\ Target(t) # s
          BY <3>6, <3>7, <3>9, <4>2 DEF EmptyUntilFilled
        <5>. QED BY <1>t, <3>1, <5>1
      <4>. QED BY <4>1, <4>2
    <3>10. \A t, u \in ThreadAddr : Emptying(t)' /\ Emptying(u)' /\ Target(t)' = Target(u)' => t = u
      BY <3>6, <3>7 DEF EmptyUntilFilled
    <3>11. EmptyUntilFilled'
      BY <3>1, <3>8, <3>9, <3>10 DEF EmptyUntilFilled
    <3>. QED BY <3>3, <3>11
  <2>. QED BY <2>2, <2>3
<1>6. CASE FreeSpace
  <2>. DEFINE s == Top.space
              c == current
  <2>1. /\ current # NULL /\ Top.at = "freeSpace" /\ Return
        /\ sstate' = [sstate EXCEPT ![s] = "freed"] /\ UNCHANGED <<pages, usedPages>>
    BY <1>6 DEF FreeSpace, At, me
  <2>2. /\ s \in SpaceAddr /\ pages[s] = {}
        /\ \A u \in ThreadAddr : u # c /\ Emptying(u) => Target(u) # s
    BY <1>n, <2>1
  <2>3. PICK r : Ready(r) /\ r[1].at \notin EmptyPoint /\ stack' = [stack EXCEPT ![current] = r]
    <3>1. "freeSpace" \notin Special \cup {"user", "allocatePCB"}
      BY DEF Special
    <3>. QED BY <2>1, <3>1, ReturnMoves DEF Moved
  <2>4. r # << >> /\ Head(r).at \notin EmptyPoint
    BY <2>3, PopLemma DEF Ready, Stackful
  <2>5. stack'[c] = r /\ \A t \in ThreadAddr : t # c => stack'[t] = stack[t]
    BY <2>1, <2>3, OtherStacks
  <2>. HIDE DEF c, s
  <2>6. \A t \in ThreadAddr : Emptying(t)' => t # c /\ Emptying(t) /\ Target(t)' = Target(t)
    BY <2>4, <2>5 DEF Emptying, Target
  <2>7. ASSUME NEW t \in ThreadAddr, Emptying(t)'
        PROVE  sstate'[Target(t)'] = "live" /\ pages'[Target(t)'] = {}
    <3>1. sstate[Target(t)] = "live" /\ pages[Target(t)] = {} /\ Target(t)' = Target(t) /\ Target(t) # s
      BY <2>2, <2>6, <2>7 DEF EmptyUntilFilled
    <3>. QED BY <1>t, <2>1, <3>1
  <2>8. EmptyUntilFilled'
    BY <1>t, <2>1, <2>2, <2>6, <2>7 DEF EmptyUntilFilled
  <2>. QED BY <2>1, <2>8 DEF PagesExact
<1>7. CASE Load
  <2>. DEFINE ps == Lowest(Top.n, FreePages)
  <2>1. current # NULL /\ Top.at = "load" /\ Return
    BY <1>7 DEF Load, At, me
  <2>2. Quiet
    <3>1. "load" \notin Special \cup {"user", "allocatePCB"}
      BY DEF Special
    <3>2. Moved(EmptyPoint) /\ current' = current /\ UNCHANGED tstate
      BY <1>7, <2>1, <3>1, ReturnMoves DEF Load
    <3>. QED BY <2>1, <3>2, QuietSteps DEF MoveStep
  <2>3. CASE UNCHANGED <<spaceVars, usedPages>>
    BY <1>1, <2>2, <2>3 DEF SamePages, spaceVars
  <2>4. CASE ~UNCHANGED <<spaceVars, usedPages>>
    <3>1. PICK s \in Fresh(sstate, "freed") :
             /\ sstate' = [sstate EXCEPT ![s] = "live"]
             /\ pages' = [pages EXCEPT ![s] = ps]
             /\ usedPages' = usedPages \cup ps
      BY <1>7, <2>4 DEF Load
    <3>2. s \in SpaceAddr /\ sstate[s] # "live"
      BY <1>t, <3>1 DEF Fresh
    <3>3. pages[s] = {} /\ \A u \in ThreadAddr : Emptying(u) => Target(u) # s
      BY <1>f, <3>2
    <3>4. PagesExact'
      BY <1>l, <3>1, <3>2, <3>3, FillAndFree
    <3>. HIDE DEF ps
    <3>5. /\ sstate'[s] = "live"
          /\ \A x \in SpaceAddr : x # s => sstate'[x] = sstate[x] /\ pages'[x] = pages[x]
      BY <1>t, <3>1, <3>2
    <3>6. ASSUME NEW t \in ThreadAddr, Emptying(t)'
          PROVE  sstate'[Target(t)'] = "live" /\ pages'[Target(t)'] = {}
      <4>1. sstate[Target(t)] = "live" /\ pages[Target(t)] = {} /\ Target(t)' = Target(t) /\ Target(t) # s
        BY <2>2, <3>3, <3>6 DEF EmptyUntilFilled, Quiet
      <4>. QED BY <1>t, <3>1, <4>1
    <3>7. EmptyUntilFilled'
      BY <2>2, <3>5, <3>6 DEF EmptyUntilFilled, Quiet
    <3>. QED BY <3>4, <3>7
  <2>. QED BY <2>3, <2>4
<1>8. CASE GiveWay \/ Dispatch \/ Over \/ NullSpace \/ JoinWaits \/ KillFreed \/ UNCHANGED vars
  BY <1>1, <1>2, <1>8, StillSteps
<1>9. CASE doFork \/ doExit \/ doJoin \/ doKill \/ doExec
  BY <1>1, <1>2, <1>9, CallSteps
<1>10. CASE CopyFails \/ EnterDeleteSpace \/ Child \/ ChildIsFreed \/ NoMoreChildren \/ Self \/ ExitSpace
            \/ KillReturns
  BY <1>1, <1>2, <1>10, InnerSteps
<1>11. CASE EnterAllocatePCB \/ EnterDeallocatePCB \/ JoinDeletes \/ ClearPid \/ DestroyPCBSpace
            \/ DestroyPCB \/ ForgetPCB \/ AllocatePCB \/ ForkThread \/ Finish
  <2>1. Quiet
    BY <1>2, <1>11, LockSteps, AllocateStep, QuietSteps
  <2>2. SamePages
    BY <1>11 DEF EnterAllocatePCB, EnterDeallocatePCB, JoinDeletes, ClearPid, DestroyPCBSpace, DestroyPCB,
                 ForgetPCB, AllocatePCB, ForkThread, Finish, SleepInAcquire, Crash, SamePages, spaceVars
  <2>. QED BY <1>1, <2>1, <2>2
<1>. QED
  BY <1>3, <1>4, <1>5, <1>6, <1>7, <1>8, <1>9, <1>10, <1>11 DEF ProcessNext

-----------------------------------------------------------------------------
(* Pids                                                                    *)

LockPoint == {"findPid", "clearPid", "forgetPCB"}
DtorPoint == {"pcbDtor", "pcbFree"}

\* From s to r no frame at a LockPoint came or went, and the destructor that
\* will return to one still works on the same PCB.
Kept(s, r) ==
    /\ \A j \in 1 .. Len(r) : r[j].at \in LockPoint =>
         \E i \in 1 .. Len(s) :
            /\ s[i] = r[j]
            /\ i > 1 /\ s[i - 1].at \in DtorPoint =>
                 j > 1 /\ r[j - 1].at \in DtorPoint /\ r[j - 1].pcb = s[i - 1].pcb
    /\ \A i \in 1 .. Len(s) : s[i].at \in LockPoint => \E j \in 1 .. Len(r) : r[j] = s[i]

\* A shift of a stack keeps its frames at special points.
LEMMA ShiftKeeps ==
  ASSUME NEW s \in Seq(FrameType), NEW r \in Seq(FrameType), Shifted(s, r)
  PROVE  Kept(s, r)
<1>1. PICK d \in 0 .. Len(s), k \in Nat :
        /\ Len(r) = Len(s) - d + k
        /\ \A i \in 1 .. d : s[i].at \notin Special
        /\ \A i \in 1 .. k : r[i].at \notin Special
        /\ \A i \in 1 .. Len(s) - d : r[i + k] = s[i + d]
  BY DEF Shifted
<1>2. Len(s) \in Nat /\ Len(r) \in Nat
  OBVIOUS
<1>3. LockPoint \subseteq Special /\ DtorPoint \subseteq Special
  BY DEF LockPoint, DtorPoint, Special
<1>4. ASSUME NEW j \in 1 .. Len(r), r[j].at \in LockPoint
      PROVE  \E i \in 1 .. Len(s) :
               /\ s[i] = r[j]
               /\ i > 1 /\ s[i - 1].at \in DtorPoint =>
                    j > 1 /\ r[j - 1].at \in DtorPoint /\ r[j - 1].pcb = s[i - 1].pcb
  <2>1. ~(j \in 1 .. k)
    BY <1>1, <1>3, <1>4
  <2>2. PICK e \in 1 .. Len(s) - d : j = e + k
    <3>1. j - k \in 1 .. Len(s) - d /\ j = (j - k) + k
      BY <1>1, <1>2, <2>1
    <3>. QED BY <3>1
  <2>3. r[j] = s[e + d] /\ e + d \in 1 .. Len(s)
    BY <1>1, <1>2, <2>2
  <2>4. ASSUME e + d > 1, s[e + d - 1].at \in DtorPoint
        PROVE  j > 1 /\ r[j - 1] = s[e + d - 1]
    <3>1. ~(e + d - 1 \in 1 .. d)
      BY <1>1, <1>3, <2>4
    <3>2. e - 1 \in 1 .. Len(s) - d /\ (e - 1) + d = e + d - 1 /\ (e - 1) + k = j - 1 /\ j > 1
      BY <1>1, <1>2, <2>2, <2>4, <3>1
    <3>. QED BY <1>1, <3>2
  <2>. QED BY <2>3, <2>4
<1>5. ASSUME NEW i \in 1 .. Len(s), s[i].at \in LockPoint
      PROVE  \E j \in 1 .. Len(r) : r[j] = s[i]
  <2>1. ~(i \in 1 .. d)
    BY <1>1, <1>3, <1>5
  <2>2. i - d \in 1 .. Len(s) - d /\ (i - d) + d = i /\ (i - d) + k \in 1 .. Len(r)
    BY <1>1, <1>2, <2>1
  <2>3. r[(i - d) + k] = s[(i - d) + d]
    BY <1>1, <2>2
  <2>. QED BY <2>2, <2>3
<1>. QED BY <1>4, <1>5 DEF Kept

\* So do an unchanged stack, and one with nothing at such points.
LEMMA KeptAnyway ==
  /\ \A s : Kept(s, s)
  /\ \A s, r : (\A i \in 1 .. Len(s) : s[i].at \notin Special) /\ (\A j \in 1 .. Len(r) : r[j].at \notin Special)
       => Kept(s, r)
<1>1. LockPoint \subseteq Special
  BY DEF LockPoint, Special
<1>2. \A s : Kept(s, s)
  BY DEF Kept
<1>. QED BY <1>1, <1>2 DEF Kept

KeptStep == (\A t \in ThreadAddr : Kept(stack[t], stack'[t])) /\ SamePids

\* Most steps are of this kind.
LEMMA KeptSteps ==
  ASSUME StackInv, ObjectInv
  PROVE  /\ DullStep => KeptStep
         /\ MoveStep({}) /\ SamePids => KeptStep
         /\ ForkThread => KeptStep
         /\ Finish => KeptStep
         /\ JoinDeletes => KeptStep
         /\ DestroyPCBSpace => KeptStep
<1>s. stack \in [ThreadAddr -> Seq(FrameType)]
  BY DEF StackInv
<1>1. ASSUME NEW Q, MoveStep(Q) PROVE \A t \in ThreadAddr : Kept(stack[t], stack'[t])
  <2>1. PICK r \in Seq(FrameType) :
          current # NULL /\ Shifted(stack[current], r) /\ stack' = [stack EXCEPT ![current] = r]
    BY <1>1 DEF MoveStep, Moved
  <2>2. current \in ThreadAddr
    BY <2>1, Running
  <2>3. Kept(stack[current], r)
    BY <1>s, <2>1, <2>2, ShiftKeeps
  <2>4. stack'[current] = r /\ \A t \in ThreadAddr : t # current => stack'[t] = stack[t]
    BY <2>1, OtherStacks
  <2>. QED BY <2>3, <2>4, KeptAnyway
<1>2. StillStep => \A t \in ThreadAddr : Kept(stack[t], stack'[t])
  BY KeptAnyway DEF StillStep
<1>3. ASSUME ForkThread PROVE KeptStep
  <2>. DEFINE p == <<Plain("user")>>
              u == Tail(stack[current])
  <2>1. PICK t \in ThreadAddr :
           /\ current # NULL /\ t # current /\ stack[t] = << >>
           /\ u[1].at = "user" /\ p[1].at = "user" /\ Len(p) = 1 /\ Len(u) = 1 /\ Len(stack[current]) = 2
           /\ stack[current][1].at = "forkThread" /\ stack[current][2].at = "user"
           /\ stack' = [stack EXCEPT ![t] = p, ![current] = u]
    BY <1>3, ForkStep
  <2>. HIDE DEF p, u
  <2>2. current \in ThreadAddr
    BY <2>1, Running
  <2>3. stack'[t] = p /\ stack'[current] = u
        /\ \A x \in ThreadAddr : x \notin {t, current} => stack'[x] = stack[x]
    BY <1>s, <2>1, <2>2
  <2>a. "user" \notin Special /\ "forkThread" \notin Special /\ Len(<< >>) = 0
    BY DEF Special
  <2>b. \A i \in 1 .. 2 : i = 1 \/ i = 2
    OBVIOUS
  <2>c. \A i \in 1 .. 1 : i = 1
    OBVIOUS
  <2>4. Kept(stack[t], p) /\ Kept(stack[current], u)
    <3>1. (\A i \in 1 .. Len(p) : p[i].at \notin Special) /\ (\A i \in 1 .. Len(u) : u[i].at \notin Special)
      BY <2>1, <2>a, <2>c
    <3>2. \A i \in 1 .. Len(stack[current]) : stack[current][i].at \notin Special
      BY <2>1, <2>a, <2>b
    <3>3. \A i \in 1 .. Len(stack[t]) : stack[t][i].at \notin Special
      BY <2>1
    <3>. QED BY <3>1, <3>2, <3>3, KeptAnyway
  <2>5. \A x \in ThreadAddr : Kept(stack[x], stack'[x])
    BY <2>3, <2>4, KeptAnyway
  <2>6. \A b \in PcbAddr : pcb'[b].state = pcb[b].state /\ pcb'[b].pid = pcb[b].pid
    BY <1>3 DEF ForkThread, ObjectInv, PcbType
  <2>7. UNCHANGED <<pcbs, usedPids, pcbManagerLock>> /\ (~misused' => ~misused)
    <3>1. UNCHANGED <<pcbs, usedPids, pcbManagerLock>>
      BY <1>3 DEF ForkThread, pidVars, lockVars
    <3>2. ~misused' => ~misused
      BY <1>3, Zenon DEF ForkThread, Uses
    <3>. QED BY <3>1, <3>2
  <2>. QED BY <2>5, <2>6, <2>7 DEF KeptStep, SamePids
<1>4. ASSUME Finish PROVE KeptStep
  <2>1. /\ stack'[current] = << >> /\ \A t \in ThreadAddr : t # current => stack'[t] = stack[t]
        /\ \A i \in 1 .. Len(stack[current]) : stack[current][i].at \notin Special
    BY <1>4, FinishStep, OtherStacks
  <2>2. Kept(stack[current], << >>)
    <3>1. \A i \in 1 .. Len(<< >>) : << >>[i].at \notin Special
      OBVIOUS
    <3>. QED BY <2>1, <3>1, KeptAnyway
  <2>3. SamePids
    BY <1>4 DEF Finish, SamePids, pidVars, lockVars, histVars
  <2>. QED BY <2>1, <2>2, <2>3, KeptAnyway DEF KeptStep
<1>5. ASSUME JoinDeletes PROVE KeptStep
  <2>1. PICK r : GoesOn(r) /\ NewTop(stack[current], r, OnPcb("pcbDtor", Top.pcb))
    BY <1>5, LockSteps
  <2>2. current # NULL /\ Top.at = "join" /\ stack' = [stack EXCEPT ![current] = r]
    BY <1>5, <2>1 DEF JoinDeletes, At, me, GoesOn
  <2>. DEFINE s == stack[current]
              f == OnPcb("pcbDtor", Top.pcb)
  <2>3. Len(s) \in Nat \ {0} /\ s[1].at = "join"
    BY <2>2, Running, PopLemma
  <2>4. f.at = "pcbDtor"
    <3>1. Top.pcb \in PcbAddr
      BY <2>2, Running DEF FrameType
    <3>. QED BY <3>1, Frames
  <2>. HIDE DEF s, f
  <2>5. Len(r) = Len(s) /\ r[1] = f /\ \A i \in 2 .. Len(s) : r[i] = s[i]
    BY <2>1 DEF NewTop, s, f
  <2>6. "join" \notin LockPoint \cup DtorPoint /\ "pcbDtor" \notin LockPoint
    BY DEF LockPoint, DtorPoint
  <2>7. \A i \in 1 .. Len(s) : i = 1 \/ (i \in 2 .. Len(s) /\ i > 1 /\ (i - 1 = 1 \/ i - 1 \in 2 .. Len(s)))
    BY <2>3
  <2>8. Kept(s, r)
    BY <2>3, <2>4, <2>5, <2>6, <2>7 DEF Kept
  <2>9. stack'[current] = r /\ \A t \in ThreadAddr : t # current => stack'[t] = stack[t]
    BY <2>2, OtherStacks
  <2>10. SamePids
    <3>1. UNCHANGED <<pcbs, usedPids, pcbManagerLock, pcb>>
      BY <1>5 DEF JoinDeletes, pidVars, lockVars
    <3>2. ~misused' => ~misused
      BY <1>5, Zenon DEF JoinDeletes, Uses
    <3>. QED BY <3>1, <3>2 DEF SamePids
  <2>. QED BY <2>8, <2>9, <2>10, KeptAnyway DEF KeptStep, s
<1>6. ASSUME DestroyPCBSpace PROVE KeptStep
  <2>1. PICK r, x : x \in SpaceAddr /\ GoesOn(r)
                    /\ NewTwo(stack[current], r, OnSpace("deleteSpace", x), OnPcb("pcbFree", Top.pcb))
    BY <1>6, LockSteps
  <2>2. current # NULL /\ Top.at = "pcbDtor" /\ stack' = [stack EXCEPT ![current] = r]
    BY <1>6, <2>1 DEF DestroyPCBSpace, At, me, GoesOn
  <2>. DEFINE s == stack[current]
              f == OnSpace("deleteSpace", x)
              g == OnPcb("pcbFree", Top.pcb)
  <2>3. Len(s) \in Nat \ {0} /\ s[1].at = "pcbDtor" /\ s[1] = Top
    BY <2>2, Running, PopLemma
  <2>4. f.at = "deleteSpace" /\ g.at = "pcbFree" /\ g.pcb = s[1].pcb
    <3>1. Top.pcb \in PcbAddr
      BY <2>2, Running DEF FrameType
    <3>. QED BY <2>1, <2>3, <3>1, Frames
  <2>. HIDE DEF s, f, g
  <2>5. Len(r) = Len(s) + 1 /\ r[1] = f /\ r[2] = g /\ \A i \in 2 .. Len(s) : r[i + 1] = s[i]
    BY <2>1 DEF NewTwo, s, f, g
  <2>6. {"pcbDtor", "deleteSpace", "pcbFree"} \cap LockPoint = {} /\ "pcbFree" \in DtorPoint
    BY DEF LockPoint, DtorPoint
  <2>7. ASSUME NEW j \in 1 .. Len(r), r[j].at \in LockPoint
        PROVE  \E i \in 1 .. Len(s) :
                 /\ s[i] = r[j]
                 /\ i > 1 /\ s[i - 1].at \in DtorPoint =>
                      j > 1 /\ r[j - 1].at \in DtorPoint /\ r[j - 1].pcb = s[i - 1].pcb
    <3>1. j # 1 /\ j # 2
      BY <2>4, <2>5, <2>6, <2>7
    <3>2. PICK i \in 2 .. Len(s) : j = i + 1
      <4>1. j - 1 \in 2 .. Len(s) /\ j = (j - 1) + 1
        BY <2>3, <2>5, <3>1
      <4>. QED BY <4>1
    <3>3. i \in 1 .. Len(s) /\ s[i] = r[j] /\ j > 1 /\ j - 1 = i
      BY <2>3, <2>5, <3>2
    <3>4. ASSUME s[i - 1].at \in DtorPoint PROVE r[i].at \in DtorPoint /\ r[i].pcb = s[i - 1].pcb
      <4>1. CASE i = 2
        <5>1. i - 1 = 1
          BY <4>1
        <5>. QED BY <2>4, <2>5, <2>6, <4>1, <5>1
      <4>2. CASE i # 2
        <5>1. i - 1 \in 2 .. Len(s) /\ (i - 1) + 1 = i
          BY <2>3, <4>2
        <5>2. r[i] = s[i - 1]
          BY <2>5, <5>1
        <5>. QED BY <3>4, <5>2
      <4>. QED BY <4>1, <4>2
    <3>. QED BY <3>3, <3>4
  <2>8. ASSUME NEW i \in 1 .. Len(s), s[i].at \in LockPoint
        PROVE  \E j \in 1 .. Len(r) : r[j] = s[i]
    <3>1. i # 1
      BY <2>3, <2>6, <2>8
    <3>2. i \in 2 .. Len(s) /\ i + 1 \in 1 .. Len(r)
      BY <2>3, <2>5, <3>1
    <3>. QED BY <2>5, <3>2
  <2>9. Kept(s, r)
    BY <2>7, <2>8 DEF Kept
  <2>10. stack'[current] = r /\ \A t \in ThreadAddr : t # current => stack'[t] = stack[t]
    BY <2>2, OtherStacks
  <2>11. SamePids
    BY <1>6 DEF DestroyPCBSpace, SamePids, pidVars, lockVars, histVars
  <2>. QED BY <2>9, <2>10, <2>11, KeptAnyway DEF KeptStep, s
<1>. QED
  BY <1>1, <1>2, <1>3, <1>4, <1>5, <1>6 DEF DullStep, KeptStep

\* Nobody is in DeallocatePCB past the clearing of the bit.
NoForget == \A t \in ThreadAddr : \A i \in 1 .. Len(stack[t]) : stack[t][i].at # "forgetPCB"

\* The process table and the bitmap agree with the live PCBs.
Settled == \A b \in PcbAddr : pcb[b].state = "live" => pcbs[pcb[b].pid] = b /\ pcb[b].pid \in usedPids

\* What PidInv says then.
LEMMA SettledLemma == NoForget => (PidInv <=> (~misused => Settled))
BY DEF NoForget, PidInv, Settled, Forgets

\* Whoever has a frame at a LockPoint holds the lock.
LEMMA HolderLemma ==
  LockHeld <=> \A t \in ThreadAddr : (\E i \in 1 .. Len(stack[t]) : stack[t][i].at \in LockPoint)
                                        => pcbManagerLock = t
BY DEF LockHeld, LockFrames, LockPoint

\* The steps that keep the frames at such points.
LEMMA KeptPids ==
  ASSUME LockHeld, PidInv, KeptStep
  PROVE  LockHeld' /\ PidInv'
<1>1. LockHeld'
  <2>1. (LockHeld <=> \A t \in ThreadAddr : (\E i \in 1 .. Len(stack[t]) : stack[t][i].at \in LockPoint)
                                        => pcbManagerLock = t)'
    BY HolderLemma, PTL
  <2>2. ASSUME NEW t \in ThreadAddr, NEW j \in 1 .. Len(stack'[t]), stack'[t][j].at \in LockPoint
        PROVE  pcbManagerLock' = t
    <3>1. PICK i \in 1 .. Len(stack[t]) : stack[t][i] = stack'[t][j]
      BY <2>2 DEF KeptStep, Kept
    <3>. QED BY <2>2, <3>1, HolderLemma DEF KeptStep, SamePids
  <2>. QED BY <2>1, <2>2
<1>2. PidInv'
  <2>. SUFFICES ASSUME ~misused', NEW b \in PcbAddr, pcb'[b].state = "live"
                PROVE  /\ pcbs'[pcb'[b].pid] = b
                       /\ pcb'[b].pid \in usedPids' \/ \E t \in ThreadAddr : \E i \in 1 .. Len(stack'[t]) : Forgets(t, i, pcb[b].pid)'
                       /\ \A t \in ThreadAddr : \A i \in 1 .. Len(stack'[t]) : Forgets(t, i, pcb[b].pid)' =>
                            i > 1 /\ stack'[t][i - 1].at \in {"pcbDtor", "pcbFree"} /\ stack'[t][i - 1].pcb = b
    BY DEF PidInv
  <2>1. /\ pcbs' = pcbs /\ usedPids' = usedPids /\ ~misused
        /\ pcb'[b].pid = pcb[b].pid /\ pcb[b].state = "live"
    BY DEF KeptStep, SamePids
  <2>2. PICK pid : pid = pcb[b].pid
    OBVIOUS
  <2>3. /\ pcbs[pid] = b
        /\ pid \in usedPids \/ \E t \in ThreadAddr : \E i \in 1 .. Len(stack[t]) : Forgets(t, i, pid)
        /\ \A t \in ThreadAddr : \A i \in 1 .. Len(stack[t]) : Forgets(t, i, pid) =>
             i > 1 /\ stack[t][i - 1].at \in DtorPoint /\ stack[t][i - 1].pcb = b
    BY <2>1, <2>2 DEF PidInv, DtorPoint
  <2>f. "forgetPCB" \in LockPoint
    BY DEF LockPoint
  <2>4. ASSUME NEW t \in ThreadAddr, NEW i \in 1 .. Len(stack[t]), Forgets(t, i, pid)
        PROVE  \E j \in 1 .. Len(stack'[t]) : Forgets(t, j, pid)'
    <3>1. PICK j \in 1 .. Len(stack'[t]) : stack'[t][j] = stack[t][i]
      BY <2>4, <2>f DEF KeptStep, Kept, Forgets
    <3>. QED BY <2>4, <3>1 DEF Forgets
  <2>5. ASSUME NEW t \in ThreadAddr, NEW j \in 1 .. Len(stack'[t]), Forgets(t, j, pid)'
        PROVE  j > 1 /\ stack'[t][j - 1].at \in DtorPoint /\ stack'[t][j - 1].pcb = b
    <3>1. stack'[t][j].at = "forgetPCB" /\ stack'[t][j].n = pid
      BY <2>5 DEF Forgets
    <3>2. PICK i \in 1 .. Len(stack[t]) :
            /\ stack[t][i] = stack'[t][j]
            /\ i > 1 /\ stack[t][i - 1].at \in DtorPoint =>
                 j > 1 /\ stack'[t][j - 1].at \in DtorPoint /\ stack'[t][j - 1].pcb = stack[t][i - 1].pcb
      BY <2>f, <3>1 DEF KeptStep, Kept
    <3>3. Forgets(t, i, pid)
      BY <3>1, <3>2 DEF Forgets
    <3>. QED BY <2>3, <3>2, <3>3
  <2>. QED BY <2>1, <2>2, <2>3, <2>4, <2>5 DEF Forgets, DtorPoint
<1>. QED BY <1>1, <1>2

\* pcbManagerLock is taken: nobody is inside, and then only the running thread.
LEMMA TakeLock ==
  ASSUME StackInv, ObjectInv, LockHeld, PidInv, pcbManagerLock = NULL, pcbManagerLock' = current,
         UNCHANGED <<pcb, pcbs, usedPids, misused>>,
         NEW r, GoesOn(r), NEW f, NewTop(stack[current], r, f), f.at # "forgetPCB"
  PROVE  LockHeld' /\ PidInv'
<1>0. PICK c \in ThreadAddr : c = current /\ c # NULL
  BY Running DEF GoesOn
<1>n. NULL \notin ThreadAddr
  BY ProcessAssumption
<1>1. \A t \in ThreadAddr : \A i \in 1 .. Len(stack[t]) : stack[t][i].at \notin LockPoint
  BY <1>n, HolderLemma
<1>2. stack'[c] = r /\ \A t \in ThreadAddr : t # c => stack'[t] = stack[t]
  BY <1>0, OtherStacks DEF GoesOn
<1>3. LockHeld'
  <2>1. (LockHeld <=> \A t \in ThreadAddr : (\E i \in 1 .. Len(stack[t]) : stack[t][i].at \in LockPoint)
                                        => pcbManagerLock = t)'
    BY HolderLemma, PTL
  <2>2. \A t \in ThreadAddr : (\E i \in 1 .. Len(stack'[t]) : stack'[t][i].at \in LockPoint) => t = c
    BY <1>1, <1>2
  <2>. QED BY <1>0, <2>1, <2>2
<1>4. NoForget /\ NoForget'
  <2>1. "forgetPCB" \in LockPoint
    BY DEF LockPoint
  <2>2. Len(stack[c]) \in Nat
    BY <1>0, Running, PopLemma
  <2>3. Len(r) = Len(stack[c]) /\ r[1] = f /\ \A i \in 2 .. Len(stack[c]) : r[i] = stack[c][i]
    BY <1>0 DEF NewTop
  <2>4. \A i \in 1 .. Len(r) : r[i].at # "forgetPCB"
    <3>. TAKE i \in 1 .. Len(r)
    <3>1. i = 1 \/ i \in 2 .. Len(stack[c])
      BY <2>2, <2>3
    <3>2. \A k \in 2 .. Len(stack[c]) : k \in 1 .. Len(stack[c])
      OBVIOUS
    <3>. QED BY <1>1, <2>1, <2>3, <3>1, <3>2
  <2>5. NoForget
    BY <1>1, <2>1 DEF NoForget
  <2>6. NoForget'
    BY <1>2, <2>4, <2>5 DEF NoForget
  <2>. QED BY <2>5, <2>6
<1>5. (NoForget => (PidInv <=> (~misused => Settled)))'
  BY SettledLemma, PTL
<1>6. PidInv'
  BY <1>4, <1>5, SettledLemma DEF Settled
<1>. QED BY <1>3, <1>6

\* The lock is released, by the one thread inside.
LEMMA GiveLock ==
  ASSUME StackInv, ObjectInv, LockHeld, NEW c \in ThreadAddr, pcbManagerLock = c,
         NEW r, stack'[c] = r, \A t \in ThreadAddr : t # c => stack'[t] = stack[t],
         \A i \in 1 .. Len(r) : r[i].at \notin LockPoint
  PROVE  LockHeld' /\ NoForget'
<1>1. \A t \in ThreadAddr : t # c => \A i \in 1 .. Len(stack[t]) : stack[t][i].at \notin LockPoint
  BY HolderLemma
<1>2. \A t \in ThreadAddr : \A i \in 1 .. Len(stack'[t]) : stack'[t][i].at \notin LockPoint
  BY <1>1
<1>3. (LockHeld <=> \A t \in ThreadAddr : (\E i \in 1 .. Len(stack[t]) : stack[t][i].at \in LockPoint)
                                      => pcbManagerLock = t)'
  BY HolderLemma, PTL
<1>4. "forgetPCB" \in LockPoint
  BY DEF LockPoint
<1>5. NoForget'
  BY <1>2, <1>4 DEF NoForget
<1>. QED BY <1>2, <1>3, <1>5

\* Below DeallocatePCB there is only doExit or doKill.
LEMMA Inside ==
  ASSUME StackInv, ObjectInv, LockHeld, current # NULL, Top.at \in LockPoint
  PROVE  /\ pcbManagerLock = current /\ Len(stack[current]) \in Nat \ {0} /\ stack[current][1] = Top
         /\ \A t \in ThreadAddr : t # current =>
              \A i \in 1 .. Len(stack[t]) : stack[t][i].at \notin LockPoint
         /\ Top.at \in {"clearPid", "forgetPCB"} =>
              \A i \in 2 .. Len(stack[current]) : stack[current][i].at \in Outer
<1>. DEFINE s == stack[current]
<1>1. Stackful(s) /\ Top = s[1] /\ current \in ThreadAddr
  BY Running
<1>2. Len(s) \in Nat \ {0} /\ 1 \in 1 .. Len(s)
  BY <1>1, PopLemma
<1>3. pcbManagerLock = current
  BY <1>1, <1>2, HolderLemma
<1>4. \A t \in ThreadAddr : t # current =>
         \A i \in 1 .. Len(stack[t]) : stack[t][i].at \notin LockPoint
  BY <1>3, HolderLemma
<1>. HIDE DEF s
<1>5. ASSUME Top.at \in {"clearPid", "forgetPCB"}, NEW i \in 2 .. Len(s)
      PROVE  s[i].at \in Outer
  <2>1. CallOrder(s)
    BY <1>1 DEF Stackful
  <2>2. MayCall(s[1].at, s[2].at)
    BY <1>2, <2>1 DEF CallOrder
  <2>3. s[2].at \in Outer
    BY <1>1, <1>5, <2>2 DEF MayCall, Outer
  <2>4. i = 2 \/ 2 < i
    BY <1>2
  <2>5. i \in 1 .. Len(s) /\ 2 \in 1 .. Len(s)
    BY <1>2
  <2>. QED BY <2>1, <2>3, <2>4, <2>5 DEF CallOrder
<1>. QED BY <1>1, <1>2, <1>3, <1>4, <1>5 DEF s

\* The rest of AllocatePCB: a free pid and a fresh PCB.
LEMMA AllocateKeepsPids ==
  ASSUME StackInv, ObjectInv, LockHeld, PidInv, AllocatePCB
  PROVE  LockHeld' /\ PidInv'
<1>1. CASE DullStep
  BY <1>1, KeptSteps, KeptPids
<1>2. CASE ~DullStep
  <2>1. PICK r : /\ GoesOn(r) /\ \A i \in 1 .. Len(r) : r[i].at \notin Special
                 /\ \A i \in 2 .. Len(stack[current]) : stack[current][i].at \notin Special
    BY <1>2, AllocateStep
  <2>2. Top.at = "findPid" /\ "findPid" \in LockPoint /\ "forgetPCB" \in LockPoint
        /\ LockPoint \subseteq Special
    BY DEF AllocatePCB, At, LockPoint, Special
  <2>3. PICK c \in ThreadAddr : c = current /\ c # NULL
    BY <2>1, Running DEF GoesOn
  <2>4. stack'[c] = r /\ \A t \in ThreadAddr : t # c => stack'[t] = stack[t]
    BY <2>1, <2>3, OtherStacks DEF GoesOn
  <2>5. /\ pcbManagerLock = c /\ Len(stack[c]) \in Nat \ {0} /\ stack[c][1].at = "findPid"
        /\ \A t \in ThreadAddr : t # c => \A i \in 1 .. Len(stack[t]) : stack[t][i].at \notin LockPoint
    BY <2>2, <2>3, Inside
  <2>6. LockHeld' /\ NoForget'
    BY <2>1, <2>2, <2>4, <2>5, GiveLock
  <2>7. NoForget
    <3>1. \A i \in 1 .. Len(stack[c]) : stack[c][i].at # "forgetPCB"
      <4>. TAKE i \in 1 .. Len(stack[c])
      <4>1. i = 1 \/ i \in 2 .. Len(stack[c])
        BY <2>5
      <4>2. \A k \in 2 .. Len(stack[c]) : stack[c][k].at # "forgetPCB"
        BY <2>1, <2>2, <2>3
      <4>. QED BY <2>5, <4>1, <4>2
    <3>. QED BY <2>2, <2>5, <3>1 DEF NoForget
  <2>8. ~Crash("full")
    BY <1>2, <2>3, SleepAndCrash
  <2>9. PICK pid \in Pid, b \in PcbAddr :
          /\ pid \notin usedPids /\ pcb[b].state # "live"
          /\ pcb' = [pcb EXCEPT ![b] = NewPCB(pid)]
          /\ pcbs' = [pcbs EXCEPT ![pid] = b]
          /\ usedPids' = usedPids \cup {pid} /\ UNCHANGED misused
    BY <2>8 DEF AllocatePCB, Lowest, FreePids, Fresh, PcbState, histVars
  <2>10. ASSUME Settled PROVE Settled'
    <3>1. PcbsTyped
      BY Retype
    <3>2. /\ pcb'[b].pid = pid /\ pcbs'[pid] = b
          /\ \A x \in PcbAddr : x # b => pcb'[x] = pcb[x]
          /\ \A k \in Pid : k # pid => pcbs'[k] = pcbs[k]
          /\ \A x \in PcbAddr : pcb[x].pid \in Pid
      BY <2>9, <3>1 DEF PcbsTyped, NewPCB, PcbType
    <3>. SUFFICES ASSUME NEW x \in PcbAddr, pcb'[x].state = "live"
                  PROVE  pcbs'[pcb'[x].pid] = x /\ pcb'[x].pid \in usedPids'
      BY DEF Settled
    <3>3. CASE x = b
      BY <2>9, <3>2, <3>3
    <3>4. CASE x # b
      <4>1. pcb'[x] = pcb[x] /\ pcbs[pcb[x].pid] = x /\ pcb[x].pid \in usedPids
        BY <2>10, <3>2, <3>4 DEF Settled
      <4>2. pcb[x].pid # pid /\ pcb[x].pid \in Pid
        BY <2>9, <3>2, <4>1
      <4>. QED BY <2>9, <3>2, <4>1, <4>2
    <3>. QED BY <3>3, <3>4
  <2>11. (NoForget => (PidInv <=> (~misused => Settled)))'
    BY SettledLemma, PTL
  <2>12. PidInv'
    BY <2>6, <2>7, <2>9, <2>10, <2>11, SettledLemma
  <2>. QED BY <2>6, <2>12
<1>. QED BY <1>1, <1>2

\* DeallocatePCB clears the bit of a live PCB, or a deleted PCB is used.
LEMMA ClearKeepsPids ==
  ASSUME StackInv, ObjectInv, LockHeld, PidInv, ClearPid
  PROVE  LockHeld' /\ PidInv'
<1>. DEFINE d == Top.pcb
            pid == pcb[Top.pcb].pid
            s == stack[current]
<1>1. PICK r : GoesOn(r) /\ NewTwo(s, r, OnPcb("pcbDtor", d), Frame("forgetPCB", NULL, NULL, << >>, pid))
  BY LockSteps
<1>2. /\ current # NULL /\ Top.at = "clearPid" /\ usedPids' = usedPids \ {pid} /\ UNCHANGED <<pcb, pcbs>>
      /\ pcbManagerLock' = pcbManagerLock
  BY DEF ClearPid, At, me, lockVars
<1>3. d \in PcbAddr /\ pid \in Pid /\ PcbsTyped
  <2>1. d \in PcbAddr
    BY <1>2, Running DEF FrameType
  <2>2. PcbsTyped
    BY Retype
  <2>. QED BY <2>1, <2>2 DEF PcbsTyped, PcbType
<1>4. PICK c \in ThreadAddr : c = current
  BY <1>2, Running
<1>5. PICK b \in PcbAddr, k \in Pid : b = d /\ k = pid
  BY <1>3
<1>6. /\ pcbManagerLock = c /\ Len(stack[c]) \in Nat \ {0} /\ stack[c][1].at = "clearPid"
      /\ \A t \in ThreadAddr : t # c => \A i \in 1 .. Len(stack[t]) : stack[t][i].at \notin LockPoint
      /\ \A i \in 2 .. Len(stack[c]) : stack[c][i].at \in Outer
  <2>1. "clearPid" \in LockPoint
    BY DEF LockPoint
  <2>. QED BY <1>2, <1>4, <2>1, Inside
<1>7. stack'[c] = r /\ \A t \in ThreadAddr : t # c => stack'[t] = stack[t]
  BY <1>1, <1>2, <1>4, OtherStacks DEF GoesOn
<1>8. /\ Len(r) = Len(stack[c]) + 1
      /\ r[1].at = "pcbDtor" /\ r[1].pcb = b /\ r[2].at = "forgetPCB" /\ r[2].n = k
      /\ \A i \in 2 .. Len(stack[c]) : r[i + 1] = stack[c][i]
  <2>. DEFINE f == OnPcb("pcbDtor", d)
              g == Frame("forgetPCB", NULL, NULL, << >>, pid)
  <2>1. f.at = "pcbDtor" /\ f.pcb = b /\ g.at = "forgetPCB" /\ g.n = k
    BY <1>3, <1>5, Frames
  <2>. HIDE DEF f, g
  <2>2. NewTwo(stack[c], r, f, g)
    BY <1>1, <1>4 DEF f, g
  <2>. QED BY <2>1, <2>2 DEF NewTwo
<1>9. LockHeld'
  <2>1. (LockHeld <=> \A t \in ThreadAddr : (\E i \in 1 .. Len(stack[t]) : stack[t][i].at \in LockPoint)
                                        => pcbManagerLock = t)'
    BY HolderLemma, PTL
  <2>2. \A t \in ThreadAddr : (\E i \in 1 .. Len(stack'[t]) : stack'[t][i].at \in LockPoint) => t = c
    BY <1>6, <1>7
  <2>. QED BY <1>2, <1>6, <2>1, <2>2
<1>10. NoForget
  <2>1. "forgetPCB" \in LockPoint /\ "forgetPCB" \notin Outer
    BY DEF LockPoint, Outer
  <2>2. \A i \in 1 .. Len(stack[c]) : i = 1 \/ i \in 2 .. Len(stack[c])
    BY <1>6
  <2>. QED BY <1>6, <2>1, <2>2 DEF NoForget
<1>11. \A t \in ThreadAddr : \A i \in 1 .. Len(stack'[t]) : stack'[t][i].at = "forgetPCB" => t = c /\ i = 2
  <2>. SUFFICES ASSUME NEW t \in ThreadAddr, NEW i \in 1 .. Len(stack'[t]), stack'[t][i].at = "forgetPCB"
                PROVE  t = c /\ i = 2
    OBVIOUS
  <2>1. t = c
    BY <1>7, <1>10 DEF NoForget
  <2>2. i = 1 \/ i = 2 \/ (i - 1 \in 2 .. Len(stack[c]) /\ (i - 1) + 1 = i)
    BY <1>6, <1>7, <1>8, <2>1
  <2>3. "forgetPCB" \notin Outer
    BY DEF Outer
  <2>. QED BY <1>6, <1>7, <1>8, <2>1, <2>2, <2>3
<1>12. PidInv'
  <2>. HIDE DEF d, pid, s
  <2>. SUFFICES ASSUME ~misused', NEW x \in PcbAddr, pcb'[x].state = "live"
                PROVE  /\ pcbs'[pcb'[x].pid] = x
                       /\ pcb'[x].pid \in usedPids' \/ \E t \in ThreadAddr : \E i \in 1 .. Len(stack'[t]) : Forgets(t, i, pcb[x].pid)'
                       /\ \A t \in ThreadAddr : \A i \in 1 .. Len(stack'[t]) : Forgets(t, i, pcb[x].pid)' =>
                            i > 1 /\ stack'[t][i - 1].at \in {"pcbDtor", "pcbFree"} /\ stack'[t][i - 1].pcb = x
    BY DEF PidInv
  <2>1. ~misused /\ pcb[b].state = "live"
    BY <1>5, Zenon DEF ClearPid, Uses, d
  <2>2. Settled /\ pcb[b].pid = k
    BY <1>5, <1>10, <2>1, SettledLemma DEF d, pid
  <2>3. pcb' = pcb /\ pcbs' = pcbs /\ usedPids' = usedPids \ {k}
    BY <1>2, <1>5
  <2>4. pcbs[pcb[x].pid] = x /\ pcb[x].pid \in usedPids /\ pcbs[k] = b
    BY <2>1, <2>2, <2>3 DEF Settled
  <2>5. x = b <=> pcb[x].pid = k
    BY <2>2, <2>4
  <2>6. 2 \in 1 .. Len(stack'[c]) /\ stack'[c][2].at = "forgetPCB" /\ stack'[c][2].n = k
        /\ stack'[c][1].at = "pcbDtor" /\ stack'[c][1].pcb = b
    BY <1>6, <1>7, <1>8
  <2>7. pcb'[x].pid \in usedPids' \/ \E t \in ThreadAddr : \E i \in 1 .. Len(stack'[t]) : Forgets(t, i, pcb[x].pid)'
    <3>1. CASE x = b
      <4>1. Forgets(c, 2, pcb[x].pid)'
        BY <2>3, <2>5, <2>6, <3>1 DEF Forgets
      <4>. QED BY <2>6, <4>1
    <3>2. CASE x # b
      BY <2>3, <2>4, <2>5, <3>2
    <3>. QED BY <3>1, <3>2
  <2>8. ASSUME NEW t \in ThreadAddr, NEW i \in 1 .. Len(stack'[t]), Forgets(t, i, pcb[x].pid)'
        PROVE  i > 1 /\ stack'[t][i - 1].at \in {"pcbDtor", "pcbFree"} /\ stack'[t][i - 1].pcb = x
    <3>1. stack'[t][i].at = "forgetPCB" /\ stack'[t][i].n = pcb[x].pid
      BY <2>3, <2>8 DEF Forgets
    <3>2. t = c /\ i = 2
      BY <1>11, <3>1
    <3>3. x = b
      BY <2>5, <2>6, <3>1, <3>2
    <3>4. i > 1 /\ i - 1 = 1
      BY <3>2
    <3>. QED BY <2>6, <3>2, <3>3, <3>4
  <2>. QED BY <2>3, <2>4, <2>7, <2>8
<1>. QED BY <1>9, <1>12

\* DeallocatePCB forgets a pid that no live PCB has.
LEMMA ForgetKeepsPids ==
  ASSUME StackInv, ObjectInv, LockHeld, PidInv, ForgetPCB
  PROVE  LockHeld' /\ PidInv'
<1>1. PICK r : GoesOn(r) /\ NewTail(stack[current], r)
  BY LockSteps
<1>2. /\ current # NULL /\ Top.at = "forgetPCB" /\ UNCHANGED <<pcb, usedPids, misused>>
      /\ pcbs' = [pcbs EXCEPT ![Top.n] = NULL]
  BY DEF ForgetPCB, At, me, histVars
<1>3. PICK c \in ThreadAddr : c = current
  BY <1>2, Running
<1>4. "forgetPCB" \in LockPoint /\ LockPoint \cap Outer = {}
  BY DEF LockPoint, Outer
<1>5. /\ pcbManagerLock = c /\ Len(stack[c]) \in Nat \ {0} /\ stack[c][1].at = "forgetPCB"
      /\ stack[c][1].n = Top.n
      /\ \A t \in ThreadAddr : t # c => \A i \in 1 .. Len(stack[t]) : stack[t][i].at \notin LockPoint
      /\ \A i \in 2 .. Len(stack[c]) : stack[c][i].at \in Outer
  BY <1>2, <1>3, <1>4, Inside
<1>6. stack'[c] = r /\ \A t \in ThreadAddr : t # c => stack'[t] = stack[t]
  BY <1>1, <1>2, <1>3, OtherStacks DEF GoesOn
<1>7. \A i \in 1 .. Len(r) : r[i].at \notin LockPoint
  <2>. TAKE i \in 1 .. Len(r)
  <2>1. Len(r) = Len(stack[c]) - 1 /\ \A j \in 1 .. Len(stack[c]) - 1 : r[j] = stack[c][j + 1]
    BY <1>1, <1>3 DEF NewTail
  <2>2. i \in 1 .. Len(stack[c]) - 1 /\ i + 1 \in 2 .. Len(stack[c])
    BY <1>5, <2>1
  <2>. QED BY <1>4, <1>5, <2>1, <2>2
<1>8. LockHeld' /\ NoForget'
  BY <1>5, <1>6, <1>7, GiveLock
<1>9. PICK n : n = Top.n
  OBVIOUS
<1>10. \A t \in ThreadAddr : \A i \in 1 .. Len(stack[t]) : stack[t][i].at = "forgetPCB" => t = c /\ i = 1
  <2>1. \A i \in 1 .. Len(stack[c]) : i = 1 \/ i \in 2 .. Len(stack[c])
    BY <1>5
  <2>. QED BY <1>4, <1>5, <2>1
<1>11. ASSUME ~misused PROVE Settled'
  <2>. SUFFICES ASSUME NEW x \in PcbAddr, pcb[x].state = "live"
                PROVE  pcbs'[pcb[x].pid] = x /\ pcb[x].pid \in usedPids
    BY <1>2 DEF Settled
  <2>1. /\ pcbs[pcb[x].pid] = x
        /\ pcb[x].pid \in usedPids \/ \E t \in ThreadAddr : \E i \in 1 .. Len(stack[t]) : Forgets(t, i, pcb[x].pid)
        /\ \A t \in ThreadAddr : \A i \in 1 .. Len(stack[t]) : Forgets(t, i, pcb[x].pid) => i > 1
    BY <1>11 DEF PidInv
  <2>2. pcb[x].pid # n
    <3>1. 1 \in 1 .. Len(stack[c]) /\ ~(1 > 1)
      BY <1>5
    <3>2. Forgets(c, 1, n)
      BY <1>5, <1>9, <3>1 DEF Forgets
    <3>. QED BY <2>1, <3>1, <3>2
  <2>3. pcb[x].pid \in usedPids
    BY <1>5, <1>9, <1>10, <2>1, <2>2 DEF Forgets
  <2>4. PcbsTyped
    BY Retype
  <2>5. pcbs'[pcb[x].pid] = x
    BY <1>2, <1>9, <2>1, <2>2, <2>4 DEF PcbsTyped, PcbType
  <2>. QED BY <2>3, <2>5
<1>12. (NoForget => (PidInv <=> (~misused => Settled)))'
  BY SettledLemma, PTL
<1>13. PidInv'
  BY <1>2, <1>8, <1>11, <1>12
<1>. QED BY <1>8, <1>13

\* ~PCB ends: its PCB is no longer live when DeallocatePCB forgets the pid.
LEMMA DestroyKeepsPids ==
  ASSUME StackInv, ObjectInv, LockHeld, PidInv, DestroyPCB
  PROVE  LockHeld' /\ PidInv'
<1>1. PICK r : GoesOn(r) /\ NewTail(stack[current], r)
  BY LockSteps
<1>2. /\ current # NULL /\ Top.at \in {"pcbDtor", "pcbFree"}
      /\ UNCHANGED <<pcbs, usedPids, misused, pcbManagerLock>>
  BY DEF DestroyPCB, At, me, histVars, pidVars, lockVars
<1>3. PICK c \in ThreadAddr : c = current
  BY <1>2, Running
<1>4. PICK d \in PcbAddr : d = Top.pcb
  BY <1>2, Running DEF FrameType
<1>5. pcb'[d].state = "freed" /\ \A x \in PcbAddr : x # d => pcb'[x] = pcb[x]
  <2>1. PcbsTyped
    BY Retype
  <2>. QED BY <1>4, <2>1 DEF DestroyPCB, PcbsTyped, PcbType
<1>6. Len(stack[c]) \in Nat \ {0} /\ stack[c][1].at \in {"pcbDtor", "pcbFree"} /\ stack[c][1].pcb = d
  BY <1>2, <1>3, <1>4, Running, PopLemma
<1>7. stack'[c] = r /\ \A t \in ThreadAddr : t # c => stack'[t] = stack[t]
  BY <1>1, <1>2, <1>3, OtherStacks DEF GoesOn
<1>8. Len(r) = Len(stack[c]) - 1 /\ \A i \in 1 .. Len(stack[c]) - 1 : r[i] = stack[c][i + 1]
  BY <1>1, <1>3 DEF NewTail
<1>9. LockHeld'
  <2>1. (LockHeld <=> \A t \in ThreadAddr : (\E i \in 1 .. Len(stack[t]) : stack[t][i].at \in LockPoint)
                                        => pcbManagerLock = t)'
    BY HolderLemma, PTL
  <2>2. ASSUME NEW i \in 1 .. Len(r), r[i].at \in LockPoint PROVE pcbManagerLock = c
    <3>1. i \in 1 .. Len(stack[c]) - 1 /\ i + 1 \in 1 .. Len(stack[c])
      BY <1>6, <1>8
    <3>. QED BY <1>8, <2>2, <3>1, HolderLemma
  <2>3. \A t \in ThreadAddr : (\E i \in 1 .. Len(stack'[t]) : stack'[t][i].at \in LockPoint) => pcbManagerLock = t
    BY <1>7, <2>2, HolderLemma
  <2>. QED BY <1>2, <2>1, <2>3
<1>10. PidInv'
  <2>. SUFFICES ASSUME ~misused', NEW x \in PcbAddr, pcb'[x].state = "live"
                PROVE  /\ pcbs'[pcb'[x].pid] = x
                       /\ pcb'[x].pid \in usedPids' \/ \E t \in ThreadAddr : \E i \in 1 .. Len(stack'[t]) : Forgets(t, i, pcb[x].pid)'
                       /\ \A t \in ThreadAddr : \A i \in 1 .. Len(stack'[t]) : Forgets(t, i, pcb[x].pid)' =>
                            i > 1 /\ stack'[t][i - 1].at \in {"pcbDtor", "pcbFree"} /\ stack'[t][i - 1].pcb = x
    BY DEF PidInv
  <2>1. x # d /\ pcb'[x] = pcb[x] /\ ~misused /\ pcb[x].state = "live"
    BY <1>2, <1>5
  <2>2. PICK pid : pid = pcb[x].pid
    OBVIOUS
  <2>3. /\ pcbs[pid] = x
        /\ pid \in usedPids \/ \E t \in ThreadAddr : \E i \in 1 .. Len(stack[t]) : Forgets(t, i, pid)
        /\ \A t \in ThreadAddr : \A i \in 1 .. Len(stack[t]) : Forgets(t, i, pid) =>
             i > 1 /\ stack[t][i - 1].at \in DtorPoint /\ stack[t][i - 1].pcb = x
    BY <2>1, <2>2 DEF PidInv, DtorPoint
  <2>4. ASSUME NEW t \in ThreadAddr, NEW i \in 1 .. Len(stack[t]), Forgets(t, i, pid)
        PROVE  \E j \in 1 .. Len(stack'[t]) : Forgets(t, j, pid)'
    <3>1. CASE t # c
      BY <1>7, <2>4, <3>1 DEF Forgets
    <3>2. CASE t = c
      <4>1. i > 1
        BY <2>3, <2>4
      <4>2. i - 1 \in 1 .. Len(stack[c]) - 1 /\ (i - 1) + 1 = i
        BY <1>6, <3>2, <4>1
      <4>3. i - 1 \in 1 .. Len(r) /\ r[i - 1] = stack[c][i]
        BY <1>8, <4>2
      <4>4. Forgets(t, i - 1, pid)'
        BY <1>7, <2>4, <3>2, <4>3 DEF Forgets
      <4>. QED BY <1>7, <3>2, <4>3, <4>4
    <3>. QED BY <3>1, <3>2
  <2>5. ASSUME NEW t \in ThreadAddr, NEW j \in 1 .. Len(stack'[t]), Forgets(t, j, pid)'
        PROVE  j > 1 /\ stack'[t][j - 1].at \in DtorPoint /\ stack'[t][j - 1].pcb = x
    <3>1. CASE t # c
      <4>1. Forgets(t, j, pid) /\ stack'[t] = stack[t]
        BY <1>7, <2>5, <3>1 DEF Forgets
      <4>. QED BY <2>3, <2>5, <4>1
    <3>2. CASE t = c
      <4>1. j \in 1 .. Len(stack[c]) - 1 /\ j + 1 \in 1 .. Len(stack[c]) /\ (j + 1) - 1 = j /\ Len(r) = Len(stack[c]) - 1
        BY <1>6, <1>7, <1>8, <3>2
      <4>2. r[j] = stack[c][j + 1]
        BY <1>8, <4>1
      <4>3. Forgets(c, j + 1, pid)
        BY <1>7, <2>5, <3>2, <4>1, <4>2 DEF Forgets
      <4>4. stack[c][j].at \in DtorPoint /\ stack[c][j].pcb = x
        BY <2>3, <4>1, <4>3
      <4>5. j # 1
        BY <1>6, <2>1, <4>4
      <4>6. j - 1 \in 1 .. Len(stack[c]) - 1 /\ (j - 1) + 1 = j /\ j > 1
        BY <1>6, <4>1, <4>5
      <4>7. r[j - 1] = stack[c][j]
        BY <1>8, <4>6
      <4>. QED BY <1>7, <3>2, <4>4, <4>6, <4>7
    <3>. QED BY <3>1, <3>2
  <2>6. pcbs' = pcbs /\ usedPids' = usedPids /\ pcb'[x].pid = pid
    BY <1>2, <2>1, <2>2
  <2>. QED BY <2>3, <2>4, <2>5, <2>6 DEF Forgets, DtorPoint
<1>. QED BY <1>9, <1>10

\* The process table keeps up with the live PCBs, whatever step is taken.
LEMMA PidStep ==
  ASSUME StackInv, ObjectInv, LockHeld, PidInv, [ProcessNext]_vars
  PROVE  LockHeld' /\ PidInv'
<1>1. KeptStep => LockHeld' /\ PidInv'
  BY KeptPids
<1>2. DullStep => LockHeld' /\ PidInv'
  BY <1>1, KeptSteps
<1>3. CASE GiveWay \/ Dispatch \/ Over \/ NullSpace \/ JoinWaits \/ KillFreed \/ UNCHANGED vars
  BY <1>2, <1>3, StillSteps
<1>4. CASE doFork \/ doExit \/ doJoin \/ doKill \/ doExec
  BY <1>2, <1>4, CallSteps
<1>5. CASE CopyFails \/ EnterDeleteSpace \/ Child \/ ChildIsFreed \/ NoMoreChildren \/ Self \/ ExitSpace
           \/ KillReturns
  BY <1>2, <1>5, InnerSteps
<1>6. CASE EnterCopySpace \/ CopySpace \/ DeleteSpace \/ FreeSpace \/ Load
  BY <1>1, <1>2, <1>6, SpaceSteps, KeptSteps
<1>7. CASE ForkThread \/ Finish \/ JoinDeletes \/ DestroyPCBSpace
  BY <1>1, <1>7, KeptSteps
<1>8. CASE EnterAllocatePCB
  <2>1. CASE DullStep
    BY <1>2, <2>1
  <2>2. CASE ~DullStep
    <3>1. current # NULL /\ ~SleepInAcquire
      BY <1>8, <2>2, SleepAndCrash DEF EnterAllocatePCB, At, me
    <3>2. pcbManagerLock = NULL /\ pcbManagerLock' = current /\ UNCHANGED <<pcb, pcbs, usedPids, misused>>
      BY <1>8, <3>1 DEF EnterAllocatePCB, me, pidVars, histVars
    <3>3. PICK r : GoesOn(r) /\ NewTop(stack[current], r, Plain("findPid"))
      BY <1>8, <2>2, LockSteps
    <3>4. Plain("findPid").at # "forgetPCB"
      BY DEF Plain, Frame
    <3>. QED BY <3>2, <3>3, <3>4, TakeLock
  <2>. QED BY <2>1, <2>2
<1>9. CASE EnterDeallocatePCB
  <2>1. CASE DullStep
    BY <1>2, <2>1
  <2>2. CASE ~DullStep
    <3>1. current # NULL /\ ~SleepInAcquire
      BY <1>9, <2>2, SleepAndCrash DEF EnterDeallocatePCB, At, me
    <3>2. pcbManagerLock = NULL /\ pcbManagerLock' = current /\ UNCHANGED <<pcb, pcbs, usedPids, misused>>
      BY <1>9, <3>1 DEF EnterDeallocatePCB, me, pidVars, histVars
    <3>3. PICK r : GoesOn(r) /\ NewTop(stack[current], r, OnPcb("clearPid", Top.pcb))
      BY <1>9, <2>2, LockSteps
    <3>4. OnPcb("clearPid", Top.pcb).at # "forgetPCB"
      BY DEF OnPcb, Frame
    <3>. QED BY <3>2, <3>3, <3>4, TakeLock
  <2>. QED BY <2>1, <2>2
<1>10. CASE AllocatePCB
  BY <1>10, AllocateKeepsPids
<1>11. CASE ClearPid
  BY <1>11, ClearKeepsPids
<1>12. CASE ForgetPCB
  BY <1>12, ForgetKeepsPids
<1>13. CASE DestroyPCB
  BY <1>13, DestroyKeepsPids
<1>. QED
  BY <1>3, <1>4, <1>5, <1>6, <1>7, <1>8, <1>9, <1>10, <1>11, <1>12, <1>13 DEF ProcessNext

-----------------------------------------------------------------------------
(* The theorems                                                            *)

\* The first process, as StartProcess leaves it.
LEMMA ProcessStart ==
  ASSUME ProcessInit
  PROVE  StackInv /\ ObjectInv /\ EmptyUntilFilled /\ PagesExact /\ LockHeld /\ PidInv
<1>. DEFINE p == <<Plain("user")>>
<1>u. Plain("user") \in FrameType /\ Plain("user").at = "user"
  BY Frames
<1>p. p \in Seq(FrameType) /\ Len(p) = 1 /\ p[1] = Plain("user") /\ p # << >> /\ Head(p) = Plain("user")
  BY <1>u
<1>. HIDE DEF p
<1>a. /\ main \in ThreadAddr /\ mainSpace \in SpaceAddr /\ mainPcb \in PcbAddr
      /\ NULL \notin ThreadAddr /\ NULL \notin SpaceAddr /\ NULL \notin PcbAddr
      /\ NumPids \in Nat \ {0} /\ NumPages \in Nat /\ MainSize \in 1 .. NumPages
  BY ProcessAssumption
<1>z. 0 \in Pid /\ 0 .. MainSize - 1 \subseteq Page
  BY <1>a DEF Pid, Page
<1>e. << >> \in Seq(FrameType) /\ Len(<< >>) = 0 /\ << >> \in Seq(PcbAddr)
  OBVIOUS
<1>s. stack = [t \in ThreadAddr |-> IF t = main THEN p ELSE << >>]
  BY DEF ProcessInit, p
<1>r. Ready(p)
  <2>1. CallOrder(p)
    BY <1>u, <1>p DEF CallOrder
  <2>. QED BY <1>u, <1>p, <2>1 DEF Ready, Stackful
<1>t. stack[main] = p /\ \A t \in ThreadAddr : t # main => stack[t] = << >>
  BY <1>a, <1>s
<1>1. StackInv
  <2>1. stack \in [ThreadAddr -> Seq(FrameType)]
    BY <1>p, <1>e, <1>s
  <2>2. ASSUME NEW t \in ThreadAddr
        PROVE  /\ stack[t] = << >> <=> tstate[t] \in {"unused", "finished"}
               /\ stack[t] # << >> => Ready(stack[t])
    <3>1. CASE t = main
      <4>1. tstate[t] = "ready"
        BY <3>1, <1>a DEF ProcessInit
      <4>. QED BY <1>p, <1>r, <1>t, <3>1, <4>1
    <3>2. CASE t # main
      <4>1. tstate[t] = "unused"
        BY <3>2 DEF ProcessInit
      <4>. QED BY <1>t, <3>2, <4>1
    <3>. QED BY <3>1, <3>2
  <2>3. tstate[current] = "ready"
    BY <1>a DEF ProcessInit
  <2>. QED BY <2>1, <2>2, <2>3 DEF StackInv
<1>2. ObjectInv
  <2>1. TablesTyped
    BY <1>a, <1>z DEF ProcessInit, TablesTyped
  <2>2. PcbsTyped
    <3>1. NewPCB(0) \in PcbType
      BY <1>z, <1>e DEF NewPCB, PcbType
    <3>2. [NewPCB(0) EXCEPT !.thread = main] \in PcbType /\ [NewPCB(0) EXCEPT !.state = "unused"] \in PcbType
      BY <1>a, <3>1 DEF PcbType
    <3>3. pcb \in [PcbAddr -> PcbType]
      BY <3>2 DEF ProcessInit
    <3>. QED BY <1>a, <1>z, <3>3 DEF ProcessInit, PcbsTyped
  <2>3. RestTyped /\ ThreadsTyped
    BY <1>a DEF ProcessInit, RestTyped, ThreadsTyped
  <2>. QED BY <2>1, <2>2, <2>3, Retype
<1>3. EmptyUntilFilled
  <2>1. \A s \in SpaceAddr : sstate[s] # "live" => pages[s] = {}
    BY <1>a DEF ProcessInit
  <2>2. \A t \in ThreadAddr : ~Emptying(t)
    BY <1>u, <1>p, <1>t DEF Emptying, EmptyPoint
  <2>. QED BY <2>1, <2>2 DEF EmptyUntilFilled
<1>4. PagesExact
  <2>1. pages[mainSpace] = usedPages /\ \A s \in SpaceAddr : s # mainSpace => pages[s] = {}
    BY <1>a DEF ProcessInit
  <2>2. \A p1 : p1 \in usedPages <=> \E s \in SpaceAddr : p1 \in pages[s]
    BY <1>a, <2>1
  <2>3. \A r, s \in SpaceAddr : r # s => pages[r] \cap pages[s] = {}
    BY <2>1
  <2>. QED BY <2>2, <2>3 DEF PagesExact
<1>f. \A t \in ThreadAddr : \A i \in 1 .. Len(stack[t]) : stack[t][i].at = "user"
  <2>. SUFFICES ASSUME NEW t \in ThreadAddr, NEW i \in 1 .. Len(stack[t])
                PROVE  stack[t][i].at = "user"
    OBVIOUS
  <2>1. t = main
    BY <1>e, <1>t
  <2>2. i = 1
    <3>1. \A n : n = 1 => \A k \in 1 .. n : k = 1
      OBVIOUS
    <3>2. Len(stack[t]) = 1
      BY <1>p, <1>t, <2>1, Zenon
    <3>. QED BY <3>1, <3>2, Zenon
  <2>. QED BY <1>u, <1>p, <1>t, <2>1, <2>2
<1>5. LockHeld
  BY <1>f, HolderLemma DEF LockPoint
<1>6. PidInv
  <2>1. NoForget
    BY <1>f DEF NoForget
  <2>2. Settled
    <3>1. \A b \in PcbAddr : pcb[b].state = "live" => b = mainPcb
      BY DEF ProcessInit, NewPCB
    <3>2. pcb[mainPcb].pid = 0 /\ pcbs[0] = mainPcb /\ 0 \in usedPids
      BY <1>a, <1>z DEF ProcessInit, NewPCB
    <3>. QED BY <3>1, <3>2 DEF Settled
  <2>. QED BY <2>1, <2>2, SettledLemma
<1>. QED BY <1>1, <1>2, <1>3, <1>4, <1>5, <1>6

\* The inductive invariants together.
THEOREM ProcessInvariant ==
  ProcessSpec => [](StackInv /\ ObjectInv /\ EmptyUntilFilled /\ PagesExact /\ LockHeld /\ PidInv)
<1>1. ProcessInit => StackInv /\ ObjectInv /\ EmptyUntilFilled /\ PagesExact /\ LockHeld /\ PidInv
  BY ProcessStart
<1>2. (StackInv /\ ObjectInv /\ EmptyUntilFilled /\ PagesExact /\ LockHeld /\ PidInv) /\ [ProcessNext]_vars
      => (StackInv /\ ObjectInv /\ EmptyUntilFilled /\ PagesExact /\ LockHeld /\ PidInv)'
  <2>. SUFFICES ASSUME StackInv, ObjectInv, EmptyUntilFilled, PagesExact, LockHeld, PidInv, [ProcessNext]_vars
                PROVE  (StackInv /\ ObjectInv /\ EmptyUntilFilled /\ PagesExact /\ LockHeld /\ PidInv)'
    OBVIOUS
  <2>. QED BY StackStep, ObjectStep, PagesStep, PidStep
<1>. QED BY <1>1, <1>2, PTL DEF ProcessSpec

\* Every pointer of the kernel's process objects stays NULL or one to an object
\* of its kind, also where the code follows pointers to deleted objects.
THEOREM ProcessTypeCorrect == ProcessSpec => []ProcessTypeOK
<1>1. ObjectInv => ProcessTypeOK
  BY DEF ObjectInv
<1>. QED BY <1>1, ProcessInvariant, PTL

\* No two page tables share a page and the bitmap of MemoryManager is exact, for
\* any number of processes, pages and system calls, preempted anywhere.
THEOREM PagesAreExact == ProcessSpec => []PagesExact
BY ProcessInvariant, PTL

\* Until a deleted PCB is used, a live PCB is the one its pid finds, and its pid
\* is taken unless DeallocatePCB is at work.
THEOREM PidsAreExact == ProcessSpec => []PidsExact
<1>1. ObjectInv /\ LockHeld /\ PidInv => PidsExact
  <2>. SUFFICES ASSUME ObjectInv, LockHeld, PidInv, ~misused, NEW b \in PcbAddr, pcb[b].state = "live"
                PROVE  pcbs[pcb[b].pid] = b /\ (pcb[b].pid \in usedPids \/ pcbManagerLock # NULL)
    BY DEF PidsExact
  <2>1. pcbs[pcb[b].pid] = b
        /\ (pcb[b].pid \in usedPids \/ \E t \in ThreadAddr : \E i \in 1 .. Len(stack[t]) : Forgets(t, i, pcb[b].pid))
    BY DEF PidInv
  <2>2. ASSUME NEW t \in ThreadAddr, NEW i \in 1 .. Len(stack[t]), Forgets(t, i, pcb[b].pid)
        PROVE  pcbManagerLock # NULL
    <3>1. stack[t][i].at \in LockPoint
      BY <2>2 DEF Forgets, LockPoint
    <3>2. pcbManagerLock = t
      BY <3>1, HolderLemma
    <3>. QED BY <3>2, ProcessAssumption
  <2>. QED BY <2>1, <2>2
<1>. QED BY <1>1, ProcessInvariant, PTL

-----------------------------------------------------------------------------
(* Programs that only Fork, Exec, Exit and Yield, without the timer        *)
(*                                                                         *)
(* The objects of a process refer to each other: its thread to its space,  *)
(* that to its PCB, the PCB to the thread, to its parent and children.     *)
(* ProcessesSurvive and EverythingReturned need these to agree at every    *)
(* point of doFork, doExec and doExit.  Only the running thread is inside  *)
(* a routine; what the invariants say depends on the point it has reached  *)
(* and on the set of its frames.                                           *)

\* Without the timer a thread keeps the CPU inside the kernel; Join and Kill may
\* leave pointers to deleted objects (section 6 of the README).
Ordinary == ~Timer /\ "Join" \notin Syscall /\ "Kill" \notin Syscall

\* Where the running thread is; a thread that was dispatched is in user code.
Here == IF current = NULL THEN "user" ELSE Top.at

FramesOf(s) == {s[i] : i \in 1 .. Len(s)}
Under(s) == {s[i] : i \in 2 .. Len(s)}
Ats(fs) == {f.at : f \in fs}

\* The frames of the running thread.
Calls == IF current = NULL THEN {} ELSE FramesOf(stack[current])
Within(p) == \E f \in Calls : f.at = p
Exiting == Within("finish")

\* Nothing failed, and only the running thread is inside a routine or holds a lock.
OneAtATime ==
    /\ crashed \in {"no", "full"} /\ misused = FALSE
    /\ \A t \in ThreadAddr : tstate[t] \in {"unused", "ready", "finished"}
    /\ \A t \in ThreadAddr : tstate[t] = "ready" /\ t # current => stack[t][1].at = "user"
    /\ mmLock = IF Here \in {"copyPages", "freePages"} THEN current ELSE NULL
    /\ pcbManagerLock = IF Here \in {"findPid", "clearPid", "pcbDtor", "forgetPCB"}
                        THEN current ELSE NULL

Live(b) == pcb[b].state = "live"

\* The locals of the running thread's frames are about its own process; the
\* children that doExit has still to see are there, once each.
InOrder(f) ==
    /\ f.at \notin {"join", "killed", "pcbFree"}
    /\ f.at \in {"children", "self", "load"} => f.pcb = MyPcb
    /\ f.at = "load" => f.n \in ExecSize
    /\ f.at = "children" =>
         /\ \A m, n \in 1 .. Len(f.kids) : f.kids[m] = f.kids[n] => m = n
         /\ \A n \in 1 .. Len(f.kids) :
              Live(f.kids[n]) /\ pcb[f.kids[n]].parent = MyPcb /\ f.kids[n] # MyPcb

FramesInOrder ==
    /\ \A f \in Calls : InOrder(f)
    /\ Here = "pcbDtor" => Within("forgetPCB")
    /\ Here \in {"deleteSpace", "freePages", "freeSpace"} => Top.space = Mine

\* The running thread has given its pages back.
Bare(t) == t = current /\ Here \in {"freeSpace", "load", "finish"}

\* A ready thread has a space of its own with pages, and all other pages belong to
\* the space that doFork is making; a thread that ~PCB will follow left a deleted
\* one, which nobody has been given since.
SpacesInUse ==
    /\ \A t, u \in ThreadAddr :
         tstate[t] = "ready" /\ tstate[u] = "ready" /\ tspace[t] = tspace[u] => t = u
    /\ \A t \in ThreadAddr :
         /\ Relic(t) /\ tspace[t] # NULL => sstate[tspace[t]] = "freed"
         /\ tstate[t] = "ready" => tspace[t] # NULL
         /\ tstate[t] = "ready" /\ ~Bare(t) => sstate[tspace[t]] = "live" /\ pages[tspace[t]] # {}
    /\ Here \in {"load", "finish"} => sstate[Mine] = "freed"
    /\ Here \in {"copyPages", "forkThread"} =>
         sstate[Top.space] = "live" /\ \A t \in ThreadAddr : tstate[t] = "ready" => tspace[t] # Top.space
    /\ Here = "forkThread" => pages[Top.space] # {}
    /\ \A s \in SpaceAddr : pages[s] # {} =>
         \/ \E t \in ThreadAddr : tstate[t] = "ready" /\ tspace[t] = s
         \/ Here = "forkThread" /\ Top.space = s
    /\ Here \in {"allocatePCB", "findPid", "copySpace", "copyPages"} =>
         Cardinality(pages[Mine]) <= Cardinality(FreePages)

Newborn == {"copySpace", "copyPages", "forkThread"}
Deletion == {"deallocatePCB", "clearPid", "pcbDtor"}
Kids == {b \in PcbAddr : \E f \in Calls : f.at = "children" /\ \E n \in 1 .. Len(f.kids) : f.kids[n] = b}

\* A process that has not exited has a ready thread, whose space names its PCB,
\* which names the thread; one that has exited is exiting now or its thread is dead.
Owners ==
    /\ \A t \in ThreadAddr : tstate[t] = "ready" /\ ~(t = current /\ Exiting) =>
         /\ Live(owner[tspace[t]]) /\ pcb[owner[tspace[t]]].thread = t
         /\ ~pcb[owner[tspace[t]]].exited
    /\ Exiting => /\ Live(MyPcb) => pcb[MyPcb].exited /\ pcb[MyPcb].thread = current
                  /\ Within("self") => Live(MyPcb)
    /\ \A b \in PcbAddr : Live(b) /\ ~pcb[b].exited =>
         \/ \E t \in ThreadAddr : tstate[t] = "ready" /\ owner[tspace[t]] = b
         \/ Here \in Newborn /\ Top.pcb = b
    /\ \A b \in PcbAddr : Live(b) /\ pcb[b].exited =>
         \/ Exiting /\ b = MyPcb
         \/ pcb[b].thread # NULL /\ tstate[pcb[b].thread] = "finished"
    /\ Here \in Newborn =>
         /\ Live(Top.pcb) /\ ~pcb[Top.pcb].exited /\ pcb[Top.pcb].parent = NULL
         /\ pcb[Top.pcb].thread = NULL /\ pcb[Top.pcb].children = << >>

\* b is a child of p, which has not exited or has still to see it in doExit.
ChildOf(b, p) ==
    /\ p # b /\ Live(p)
    /\ \/ ~pcb[p].exited /\ \E n \in 1 .. Len(pcb[p].children) : pcb[p].children[n] = b
       \/ Exiting /\ p = MyPcb /\ (b \in Kids \/ (Here \in Deletion /\ Top.pcb = b))

\* Parents and children know each other, and an exited process that is still there
\* has a parent, unless it is about to be deleted.
Families ==
    /\ \A b \in PcbAddr : Live(b) /\ pcb[b].exited /\ pcb[b].parent = NULL =>
         Exiting /\ b = MyPcb /\ (Within("self") \/ (Here \in Deletion /\ Top.pcb = b))
    /\ \A b \in PcbAddr : Live(b) /\ pcb[b].parent # NULL => ChildOf(b, pcb[b].parent)
    /\ \A p \in PcbAddr : Live(p) /\ ~pcb[p].exited =>
         /\ \A m, n \in 1 .. Len(pcb[p].children) : pcb[p].children[m] = pcb[p].children[n] => m = n
         /\ \A n \in 1 .. Len(pcb[p].children) :
              Live(pcb[p].children[n]) /\ pcb[pcb[p].children[n]].parent = p
    /\ Here \in Deletion =>
         /\ Live(Top.pcb) /\ pcb[Top.pcb].exited /\ Top.pcb \notin Kids
         /\ Within("self") => Top.pcb # MyPcb /\ pcb[Top.pcb].parent = MyPcb
         /\ ~Within("self") => Top.pcb = MyPcb /\ pcb[Top.pcb].parent = NULL

\* A pid that is taken is that of a PCB.
PidsInUse ==
    /\ \A i \in usedPids : \E b \in PcbAddr : Live(b) /\ pcb[b].pid = i
    /\ Here = "pcbDtor" => pcb[Top.pcb].pid \notin usedPids

Sound == StackInv /\ ObjectInv /\ EmptyUntilFilled /\ PagesExact
OrdinaryInv == OneAtATime /\ FramesInOrder /\ SpacesInUse /\ Owners /\ Families /\ PidsInUse

\* An Exec always finds memory for its program.
ExecFits == Here = "load" => Top.n <= Cardinality(FreePages)

-----------------------------------------------------------------------------
(* The frames of the running thread                                        *)

\* The frames of a stack that is put together.
LEMMA Joined ==
  ASSUME NEW fs \in Seq(FrameType), NEW u \in Seq(FrameType)
  PROVE  /\ FramesOf(fs \o u) = FramesOf(fs) \cup FramesOf(u)
         /\ fs # << >> => (fs \o u)[1] = fs[1]
         /\ fs = << >> => fs \o u = u
<1>. DEFINE r == fs \o u
<1>1. /\ r \in Seq(FrameType) /\ Len(r) = Len(fs) + Len(u) /\ Len(fs) \in Nat /\ Len(u) \in Nat
      /\ \A i \in 1 .. Len(fs) + Len(u) : r[i] = IF i <= Len(fs) THEN fs[i] ELSE u[i - Len(fs)]
  BY ConcatProperties
<1>2. fs = << >> => r = u
  BY ConcatEmptySeq
<1>3. fs # << >> => Len(fs) > 0
  BY <1>1
<1>. HIDE DEF r
<1>4. fs # << >> => r[1] = fs[1]
  BY <1>1, <1>3
<1>5. ASSUME NEW x \in FramesOf(r) PROVE x \in FramesOf(fs) \cup FramesOf(u)
  <2>1. PICK i \in 1 .. Len(fs) + Len(u) : x = r[i]
    BY <1>1, <1>5 DEF FramesOf
  <2>2. CASE i <= Len(fs)
    BY <1>1, <2>1, <2>2 DEF FramesOf
  <2>3. CASE ~(i <= Len(fs))
    <3>1. i - Len(fs) \in 1 .. Len(u) /\ x = u[i - Len(fs)]
      BY <1>1, <2>1, <2>3
    <3>. QED BY <3>1 DEF FramesOf
  <2>. QED BY <2>2, <2>3
<1>6. ASSUME NEW x \in FramesOf(fs) PROVE x \in FramesOf(r)
  <2>1. PICK i \in 1 .. Len(fs) : x = fs[i]
    BY <1>6 DEF FramesOf
  <2>2. i \in 1 .. Len(r) /\ x = r[i]
    BY <1>1, <2>1
  <2>. QED BY <2>2 DEF FramesOf
<1>7. ASSUME NEW x \in FramesOf(u) PROVE x \in FramesOf(r)
  <2>1. PICK i \in 1 .. Len(u) : x = u[i]
    BY <1>7 DEF FramesOf
  <2>2. i + Len(fs) \in 1 .. Len(r) /\ ~(i + Len(fs) <= Len(fs)) /\ (i + Len(fs)) - Len(fs) = i
    BY <1>1, <2>1
  <2>3. x = r[i + Len(fs)]
    BY <1>1, <2>1, <2>2
  <2>. QED BY <2>2, <2>3 DEF FramesOf
<1>8. FramesOf(r) = FramesOf(fs) \cup FramesOf(u)
  BY <1>5, <1>6, <1>7
<1>. QED BY <1>2, <1>4, <1>8 DEF r

\* One frame, two and four; and a stack without the frame on top.
LEMMA FewFrames ==
  /\ \A f \in FrameType : <<f>> \in Seq(FrameType) /\ <<f>> # << >> /\ <<f>>[1] = f /\ FramesOf(<<f>>) = {f}
  /\ \A f, g \in FrameType :
       <<f, g>> \in Seq(FrameType) /\ <<f, g>> # << >> /\ <<f, g>>[1] = f /\ FramesOf(<<f, g>>) = {f, g}
  /\ \A f, g, h, k \in FrameType :
       /\ <<f, g, h, k>> \in Seq(FrameType) /\ <<f, g, h, k>> # << >> /\ <<f, g, h, k>>[1] = f
       /\ FramesOf(<<f, g, h, k>>) = {f, g, h, k}
  /\ \A s \in Seq(FrameType) : s # << >> =>
       /\ Tail(s) \in Seq(FrameType) /\ FramesOf(Tail(s)) = Under(s)
       /\ s[1] \in FrameType /\ Head(s) = s[1] /\ FramesOf(s) = {s[1]} \cup Under(s)
       /\ Under(s) \subseteq FrameType
       /\ Tail(s) # << >> => Tail(s)[1] = s[2] /\ s[2] \in Under(s)
<1>1. \A f \in FrameType : <<f>> \in Seq(FrameType) /\ <<f>> # << >> /\ <<f>>[1] = f /\ FramesOf(<<f>>) = {f}
  BY DEF FramesOf
<1>2. \A f, g \in FrameType :
       <<f, g>> \in Seq(FrameType) /\ <<f, g>> # << >> /\ <<f, g>>[1] = f /\ FramesOf(<<f, g>>) = {f, g}
  <2>. SUFFICES ASSUME NEW f \in FrameType, NEW g \in FrameType
       PROVE  <<f, g>> \in Seq(FrameType) /\ <<f, g>> # << >> /\ <<f, g>>[1] = f /\ FramesOf(<<f, g>>) = {f, g}
    OBVIOUS
  <2>. DEFINE s == <<f, g>>
  <2>1. s \in Seq(FrameType) /\ s # << >> /\ Len(s) = 2 /\ s[1] = f /\ s[2] = g
    OBVIOUS
  <2>2. 1 .. 2 = {1, 2}
    OBVIOUS
  <2>. HIDE DEF s
  <2>3. FramesOf(s) = {s[1], s[2]}
    BY <2>1, <2>2 DEF FramesOf
  <2>. QED BY <2>1, <2>3 DEF s
<1>3. \A f, g, h, k \in FrameType :
       /\ <<f, g, h, k>> \in Seq(FrameType) /\ <<f, g, h, k>> # << >> /\ <<f, g, h, k>>[1] = f
       /\ FramesOf(<<f, g, h, k>>) = {f, g, h, k}
  <2>. SUFFICES ASSUME NEW f \in FrameType, NEW g \in FrameType, NEW h \in FrameType, NEW k \in FrameType
       PROVE  /\ <<f, g, h, k>> \in Seq(FrameType) /\ <<f, g, h, k>> # << >> /\ <<f, g, h, k>>[1] = f
              /\ FramesOf(<<f, g, h, k>>) = {f, g, h, k}
    OBVIOUS
  <2>. DEFINE s == <<f, g, h, k>>
  <2>1. s \in Seq(FrameType) /\ s # << >> /\ Len(s) = 4 /\ s[1] = f /\ s[2] = g /\ s[3] = h /\ s[4] = k
    OBVIOUS
  <2>2. 1 .. 4 = {1, 2, 3, 4}
    OBVIOUS
  <2>. HIDE DEF s
  <2>3. FramesOf(s) = {s[1], s[2], s[3], s[4]}
    BY <2>1, <2>2 DEF FramesOf
  <2>. QED BY <2>1, <2>3 DEF s
<1>4. ASSUME NEW s \in Seq(FrameType), s # << >>
      PROVE  /\ Tail(s) \in Seq(FrameType) /\ FramesOf(Tail(s)) = Under(s)
             /\ s[1] \in FrameType /\ Head(s) = s[1] /\ FramesOf(s) = {s[1]} \cup Under(s)
             /\ Under(s) \subseteq FrameType
             /\ Tail(s) # << >> => Tail(s)[1] = s[2] /\ s[2] \in Under(s)
  <2>1. /\ Tail(s) \in Seq(FrameType) /\ Len(Tail(s)) = Len(s) - 1 /\ Len(s) \in Nat /\ Len(s) # 0
        /\ \A i \in 1 .. Len(s) - 1 : Tail(s)[i] = s[i + 1]
    BY <1>4
  <2>2. s[1] \in FrameType /\ Head(s) = s[1] /\ \A i \in 1 .. Len(s) : s[i] \in FrameType
    BY <1>4, <2>1
  <2>3. Under(s) \subseteq FrameType
    BY <2>1, <2>2 DEF Under
  <2>4. FramesOf(s) = {s[1]} \cup Under(s)
    <3>1. \A i : i \in 1 .. Len(s) <=> i = 1 \/ i \in 2 .. Len(s)
      BY <2>1
    <3>. QED BY <3>1 DEF FramesOf, Under
  <2>5. ASSUME NEW x \in Under(s) PROVE x \in FramesOf(Tail(s))
    <3>1. PICK i \in 2 .. Len(s) : x = s[i]
      BY <2>5 DEF Under
    <3>2. i - 1 \in 1 .. Len(Tail(s)) /\ i - 1 \in 1 .. Len(s) - 1 /\ (i - 1) + 1 = i
      BY <2>1, <3>1
    <3>3. x = Tail(s)[i - 1]
      BY <2>1, <3>1, <3>2
    <3>. QED BY <3>2, <3>3 DEF FramesOf
  <2>6. ASSUME NEW x \in FramesOf(Tail(s)) PROVE x \in Under(s)
    <3>1. PICK i \in 1 .. Len(Tail(s)) : x = Tail(s)[i]
      BY <2>6 DEF FramesOf
    <3>2. i + 1 \in 2 .. Len(s) /\ x = s[i + 1]
      BY <2>1, <3>1
    <3>. QED BY <3>2 DEF Under
  <2>7. ASSUME Tail(s) # << >> PROVE Tail(s)[1] = s[2] /\ s[2] \in Under(s)
    <3>1. Len(Tail(s)) # 0
      BY <2>1, <2>7
    <3>2. 1 \in 1 .. Len(s) - 1 /\ 1 + 1 = 2 /\ 2 \in 2 .. Len(s)
      BY <2>1, <3>1
    <3>. QED BY <2>1, <3>2 DEF Under
  <2>. QED BY <2>1, <2>2, <2>3, <2>4, <2>5, <2>6, <2>7
<1>. QED BY <1>1, <1>2, <1>3, <1>4

\* The points of the frames below the top one, from CallOrder: each routine is
\* called from few places, so the point on top nearly determines them.
Lower(s) == Ats(Under(s))
ExitPath == {"self", "exitSpace", "finish", "user"}

\* A stack without its top frame is a stack, unless that is the user program.
LEMMA LowerStep ==
  ASSUME NEW s, Stackful(s)
  PROVE  /\ s \in Seq(FrameType) /\ s # << >>
         /\ s[1].at = "user" => Under(s) = {} /\ Lower(s) = {}
         /\ s[1].at # "user" =>
              /\ Stackful(Tail(s)) /\ MayCall(s[1].at, s[2].at) /\ Tail(s)[1] = s[2]
              /\ Lower(s) = {s[2].at} \cup Lower(Tail(s))
<1>1. s \in Seq(FrameType) /\ s # << >>
  BY DEF Stackful
<1>2. ASSUME s[1].at = "user" PROVE Under(s) = {} /\ Lower(s) = {}
  <2>1. Len(s) = 1
    BY <1>2, PopLemma
  <2>. QED BY <2>1 DEF Under, Lower, Ats
<1>3. ASSUME s[1].at # "user"
      PROVE  /\ Stackful(Tail(s)) /\ MayCall(s[1].at, s[2].at) /\ Tail(s)[1] = s[2]
             /\ Lower(s) = {s[2].at} \cup Lower(Tail(s))
  <2>1. Stackful(Tail(s)) /\ MayCall(s[1].at, Tail(s)[1].at)
    BY <1>3, PopLemma
  <2>2. Tail(s) \in Seq(FrameType) /\ Tail(s) # << >>
    BY <2>1 DEF Stackful
  <2>3. Tail(s)[1] = s[2] /\ FramesOf(Tail(s)) = Under(s)
    BY <1>1, <2>2, FewFrames
  <2>4. Under(s) = {s[2]} \cup Under(Tail(s))
    BY <2>2, <2>3, FewFrames
  <2>. QED BY <2>1, <2>3, <2>4 DEF Lower, Ats
<1>. QED BY <1>1, <1>2, <1>3

\* Which frames can lie below the top one.
LEMMA Shapes ==
  ASSUME NEW s, Stackful(s)
  PROVE  /\ s[1].at \in {"copySpace", "copyPages", "forkThread", "load", "finish", "killed", "join"} =>
              s[2].at = "user" /\ Lower(s) = {"user"}
         /\ s[1].at \in {"allocatePCB", "findPid"} =>
              s[2].at = "copySpace" /\ Lower(s) = {"copySpace", "user"}
         /\ s[1].at \in {"deleteSpace", "freePages", "freeSpace"} =>
              \/ s[2].at \in {"load", "finish"} /\ Lower(s) = {s[2].at, "user"}
              \/ "pcbFree" \in Lower(s)
         /\ s[1].at = "exitSpace" => s[2].at = "finish" /\ Lower(s) = {"finish", "user"}
         /\ s[1].at = "self" => s[2].at = "exitSpace" /\ Lower(s) = {"exitSpace", "finish", "user"}
         /\ s[1].at = "children" => (s[2].at = "self" /\ Lower(s) = ExitPath) \/ "killed" \in Lower(s)
         /\ s[1].at \in {"deallocatePCB", "clearPid", "forgetPCB"} =>
              \/ s[2].at = "exitSpace" /\ Lower(s) = {"exitSpace", "finish", "user"}
              \/ s[2].at = "children" /\ Lower(s) = {"children"} \cup ExitPath
              \/ "killed" \in Lower(s)
         /\ s[1].at = "pcbDtor" =>
              \/ s[2].at = "forgetPCB" /\ Lower(s) = {"forgetPCB", "exitSpace", "finish", "user"}
              \/ s[2].at = "forgetPCB" /\ Lower(s) = {"forgetPCB", "children"} \cup ExitPath
              \/ "killed" \in Lower(s) \/ Lower(s) = {"user"}
<1>. USE DEF MayCall, ExitPath
<1>u. ASSUME NEW r, Stackful(r), r[1].at # "user", r[2].at = "user"
      PROVE  Lower(r) = {"user"}
  <2>1. Lower(Tail(r)) = {}
    BY <1>u, LowerStep
  <2>. QED BY <1>u, <2>1, LowerStep
<1>1. ASSUME NEW r, Stackful(r),
             r[1].at \in {"copySpace", "copyPages", "forkThread", "load", "finish", "killed", "join"}
      PROVE  r[2].at = "user" /\ Lower(r) = {"user"}
  <2>1. r[2].at = "user"
    BY <1>1, LowerStep
  <2>. QED BY <1>1, <1>u, <2>1
<1>2. ASSUME NEW r, Stackful(r), r[1].at \in {"allocatePCB", "findPid"}
      PROVE  r[2].at = "copySpace" /\ Lower(r) = {"copySpace", "user"}
  <2>1. r[2].at = "copySpace" /\ Stackful(Tail(r)) /\ Tail(r)[1] = r[2] /\ Lower(r) = {r[2].at} \cup Lower(Tail(r))
    BY <1>2, LowerStep
  <2>2. Lower(Tail(r)) = {"user"}
    BY <1>1, <2>1
  <2>. QED BY <2>1, <2>2
<1>3. ASSUME NEW r, Stackful(r), r[1].at = "exitSpace"
      PROVE  r[2].at = "finish" /\ Lower(r) = {"finish", "user"}
  <2>1. r[2].at = "finish" /\ Stackful(Tail(r)) /\ Tail(r)[1] = r[2] /\ Lower(r) = {r[2].at} \cup Lower(Tail(r))
    BY <1>3, LowerStep
  <2>2. Lower(Tail(r)) = {"user"}
    BY <1>1, <2>1
  <2>. QED BY <2>1, <2>2
<1>4. ASSUME NEW r, Stackful(r), r[1].at = "self"
      PROVE  r[2].at = "exitSpace" /\ Lower(r) = {"exitSpace", "finish", "user"}
  <2>1. r[2].at = "exitSpace" /\ Stackful(Tail(r)) /\ Tail(r)[1] = r[2] /\ Lower(r) = {r[2].at} \cup Lower(Tail(r))
    BY <1>4, LowerStep
  <2>2. Lower(Tail(r)) = {"finish", "user"}
    BY <1>3, <2>1
  <2>. QED BY <2>1, <2>2
<1>5. ASSUME NEW r, Stackful(r), r[1].at = "children"
      PROVE  (r[2].at = "self" /\ Lower(r) = ExitPath) \/ "killed" \in Lower(r)
  <2>1. r[2].at \in {"self", "killed"} /\ Stackful(Tail(r)) /\ Tail(r)[1] = r[2] /\ Lower(r) = {r[2].at} \cup Lower(Tail(r))
    BY <1>5, LowerStep
  <2>2. r[2].at = "self" => Lower(Tail(r)) = {"exitSpace", "finish", "user"}
    BY <1>4, <2>1
  <2>. QED BY <2>1, <2>2
<1>6. ASSUME NEW r, Stackful(r), r[1].at \in {"deallocatePCB", "clearPid", "forgetPCB"}
      PROVE  \/ r[2].at = "exitSpace" /\ Lower(r) = {"exitSpace", "finish", "user"}
             \/ r[2].at = "children" /\ Lower(r) = {"children"} \cup ExitPath
             \/ "killed" \in Lower(r)
  <2>1. r[2].at \in {"children", "exitSpace"} /\ Stackful(Tail(r)) /\ Tail(r)[1] = r[2] /\ Lower(r) = {r[2].at} \cup Lower(Tail(r))
    BY <1>6, LowerStep
  <2>2. r[2].at = "exitSpace" => Lower(Tail(r)) = {"finish", "user"}
    BY <1>3, <2>1
  <2>3. r[2].at = "children" => Lower(Tail(r)) = ExitPath \/ "killed" \in Lower(Tail(r))
    BY <1>5, <2>1
  <2>. QED BY <2>1, <2>2, <2>3
<1>7. ASSUME s[1].at = "pcbDtor"
      PROVE  \/ s[2].at = "forgetPCB" /\ Lower(s) = {"forgetPCB", "exitSpace", "finish", "user"}
             \/ s[2].at = "forgetPCB" /\ Lower(s) = {"forgetPCB", "children"} \cup ExitPath
             \/ "killed" \in Lower(s) \/ Lower(s) = {"user"}
  <2>1. s[2].at \in {"forgetPCB", "user"} /\ Stackful(Tail(s)) /\ Tail(s)[1] = s[2] /\ Lower(s) = {s[2].at} \cup Lower(Tail(s))
    BY <1>7, LowerStep
  <2>2. s[2].at = "user" => Lower(Tail(s)) = {}
    BY <2>1, LowerStep
  <2>3. ASSUME s[2].at = "forgetPCB"
        PROVE  \/ Lower(Tail(s)) = {"exitSpace", "finish", "user"}
               \/ Lower(Tail(s)) = {"children"} \cup ExitPath
               \/ "killed" \in Lower(Tail(s))
    BY <2>1, <2>3, <1>6
  <2>4. CASE s[2].at = "user"
    BY <2>1, <2>2, <2>4
  <2>5. CASE s[2].at = "forgetPCB"
    BY <2>1, <2>3, <2>5
  <2>. QED BY <2>1, <2>4, <2>5
<1>8. ASSUME s[1].at \in {"deleteSpace", "freePages", "freeSpace"}
      PROVE  \/ s[2].at \in {"load", "finish"} /\ Lower(s) = {s[2].at, "user"}
             \/ "pcbFree" \in Lower(s)
  <2>1. s[2].at \in {"pcbFree", "load", "finish"} /\ Stackful(Tail(s)) /\ Tail(s)[1] = s[2] /\ Lower(s) = {s[2].at} \cup Lower(Tail(s))
    BY <1>8, LowerStep
  <2>2. s[2].at \in {"load", "finish"} => Lower(Tail(s)) = {"user"}
    BY <2>1, <1>1
  <2>. QED BY <2>1, <2>2
<1>. QED BY <1>1, <1>2, <1>3, <1>4, <1>5, <1>6, <1>7, <1>8

Rest == Under(stack[current])
Second == stack[current][2]

\* The running thread goes on with f on top and the frames fs.
Moves(f, fs) ==
    /\ current # NULL /\ current' = current
    /\ Top' = f /\ Here' = f.at /\ Calls' = fs
    /\ \A t \in ThreadAddr : t # current => stack'[t] = stack[t]

\* Where the running thread can be, and what is below.
LEMMA Points ==
  ASSUME Sound, FramesInOrder, current # NULL
  PROVE  /\ current \in ThreadAddr /\ tstate[current] = "ready"
         /\ Top \in FrameType /\ Here = Top.at /\ Top = stack[current][1]
         /\ Calls = {Top} \cup Rest /\ Calls \subseteq FrameType
         /\ \A p : Within(p) <=> p = Here \/ p \in Lower(stack[current])
         /\ Here # "user" => Second \in Rest
         /\ Here \notin {"join", "killed", "pcbFree"}
         /\ Here = "user" => Rest = {} /\ Lower(stack[current]) = {}
         /\ Here \in {"copySpace", "copyPages", "forkThread", "load", "finish"} =>
              Second.at = "user" /\ Lower(stack[current]) = {"user"}
         /\ Here \in {"allocatePCB", "findPid"} =>
              Second.at = "copySpace" /\ Lower(stack[current]) = {"copySpace", "user"}
         /\ Here \in {"deleteSpace", "freePages", "freeSpace"} =>
              Second.at \in {"load", "finish"} /\ Lower(stack[current]) = {Second.at, "user"}
         /\ Here = "exitSpace" => Second.at = "finish" /\ Lower(stack[current]) = {"finish", "user"}
         /\ Here = "self" => Second.at = "exitSpace" /\ Lower(stack[current]) = {"exitSpace", "finish", "user"}
         /\ Here = "children" => Second.at = "self" /\ Lower(stack[current]) = ExitPath
         /\ Here \in {"deallocatePCB", "clearPid", "forgetPCB"} =>
              \/ Second.at = "exitSpace" /\ Lower(stack[current]) = {"exitSpace", "finish", "user"}
              \/ Second.at = "children" /\ Lower(stack[current]) = {"children"} \cup ExitPath
         /\ Here = "pcbDtor" => Second.at = "forgetPCB" /\
              \/ Lower(stack[current]) = {"forgetPCB", "exitSpace", "finish", "user"}
              \/ Lower(stack[current]) = {"forgetPCB", "children"} \cup ExitPath
<1>. DEFINE s == stack[current]
<1>1. /\ current \in ThreadAddr /\ tstate[current] = "ready" /\ Stackful(s)
      /\ Top = s[1] /\ Top \in FrameType
  BY Running DEF Sound
<1>2. Here = Top.at
  BY DEF Here
<1>3. s \in Seq(FrameType) /\ s # << >>
  BY <1>1 DEF Stackful
<1>4. Calls = {Top} \cup Rest /\ Rest \subseteq FrameType
  BY <1>1, <1>3, FewFrames DEF Calls, Rest
<1>5. \A p : Within(p) <=> p = Here \/ p \in Lower(s)
  BY <1>2, <1>4 DEF Within, Lower, Ats, Rest
<1>6. \A f \in Calls : f.at \notin {"join", "killed", "pcbFree"}
  BY DEF FramesInOrder, InOrder
<1>7. Here \notin {"join", "killed", "pcbFree"} /\ Lower(s) \cap {"join", "killed", "pcbFree"} = {}
  BY <1>2, <1>4, <1>6 DEF Lower, Ats, Rest
<1>8. Here = "pcbDtor" => "forgetPCB" \in Lower(s)
  BY <1>5 DEF FramesInOrder
<1>9. Here # "user" => Second \in Rest
  <2>1. ASSUME Here # "user" PROVE Second \in Rest
    <3>1. Stackful(Tail(s))
      BY <1>1, <1>2, <2>1, LowerStep
    <3>. QED BY <1>3, <3>1, FewFrames DEF Stackful, Second, Rest
  <2>. QED BY <2>1
<1>10. Here = "user" => Rest = {} /\ Lower(s) = {}
  BY <1>1, <1>2, LowerStep DEF Rest
<1>11. Second = s[2]
  BY DEF Second
<1>. HIDE DEF s
<1>12. /\ Here \in {"copySpace", "copyPages", "forkThread", "load", "finish"} =>
              Second.at = "user" /\ Lower(s) = {"user"}
       /\ Here \in {"allocatePCB", "findPid"} =>
              Second.at = "copySpace" /\ Lower(s) = {"copySpace", "user"}
       /\ Here \in {"deleteSpace", "freePages", "freeSpace"} =>
              Second.at \in {"load", "finish"} /\ Lower(s) = {Second.at, "user"}
       /\ Here = "exitSpace" => Second.at = "finish" /\ Lower(s) = {"finish", "user"}
       /\ Here = "self" => Second.at = "exitSpace" /\ Lower(s) = {"exitSpace", "finish", "user"}
       /\ Here = "children" => Second.at = "self" /\ Lower(s) = ExitPath
  BY <1>1, <1>2, <1>7, <1>11, Shapes
<1>13. Here \in {"deallocatePCB", "clearPid", "forgetPCB"} =>
              \/ Second.at = "exitSpace" /\ Lower(s) = {"exitSpace", "finish", "user"}
              \/ Second.at = "children" /\ Lower(s) = {"children"} \cup ExitPath
  BY <1>1, <1>2, <1>7, <1>11, Shapes
<1>14. Here = "pcbDtor" => Second.at = "forgetPCB" /\
              (\/ Lower(s) = {"forgetPCB", "exitSpace", "finish", "user"}
               \/ Lower(s) = {"forgetPCB", "children"} \cup ExitPath)
  <2>1. Here = "pcbDtor" =>
              \/ s[2].at = "forgetPCB" /\ Lower(s) = {"forgetPCB", "exitSpace", "finish", "user"}
              \/ s[2].at = "forgetPCB" /\ Lower(s) = {"forgetPCB", "children"} \cup ExitPath
              \/ "killed" \in Lower(s) \/ Lower(s) = {"user"}
    BY <1>1, <1>2, Shapes
  <2>2. "killed" \notin Lower(s)
    BY <1>7
  <2>3. Here = "pcbDtor" => Lower(s) # {"user"}
    BY <1>8
  <2>. QED BY <1>11, <2>1, <2>2, <2>3
<1>15. /\ Here \in {"deallocatePCB", "clearPid", "forgetPCB"} =>
              \/ Second.at = "exitSpace" /\ Lower(stack[current]) = {"exitSpace", "finish", "user"}
              \/ Second.at = "children" /\ Lower(stack[current]) = {"children"} \cup ExitPath
       /\ Here = "pcbDtor" => Second.at = "forgetPCB" /\
              \/ Lower(stack[current]) = {"forgetPCB", "exitSpace", "finish", "user"}
              \/ Lower(stack[current]) = {"forgetPCB", "children"} \cup ExitPath
  BY <1>13, <1>14 DEF s
<1>16. /\ \A p : Within(p) <=> p = Here \/ p \in Lower(stack[current])
       /\ Here = "user" => Rest = {} /\ Lower(stack[current]) = {}
       /\ Top = stack[current][1]
  BY <1>1, <1>5, <1>10 DEF s
<1>17. Calls \subseteq FrameType
  BY <1>1, <1>4
<1>18. /\ Here \in {"copySpace", "copyPages", "forkThread", "load", "finish"} =>
              Second.at = "user" /\ Lower(stack[current]) = {"user"}
       /\ Here \in {"allocatePCB", "findPid"} =>
              Second.at = "copySpace" /\ Lower(stack[current]) = {"copySpace", "user"}
       /\ Here \in {"deleteSpace", "freePages", "freeSpace"} =>
              Second.at \in {"load", "finish"} /\ Lower(stack[current]) = {Second.at, "user"}
       /\ Here = "exitSpace" => Second.at = "finish" /\ Lower(stack[current]) = {"finish", "user"}
       /\ Here = "self" => Second.at = "exitSpace" /\ Lower(stack[current]) = {"exitSpace", "finish", "user"}
       /\ Here = "children" => Second.at = "self" /\ Lower(stack[current]) = ExitPath
  BY <1>12 DEF s
<1>. QED BY <1>1, <1>2, <1>4, <1>7, <1>9, <1>15, <1>16, <1>17, <1>18

\* What Become and Call make of the frames.
LEMMA NewFrames ==
  ASSUME Sound, FramesInOrder, current # NULL, current' = current
  PROVE  /\ \A f \in FrameType : Become(<<f>>) => Moves(f, {f} \cup Rest)
         /\ \A f, g \in FrameType : Become(<<f, g>>) => Moves(f, {f, g} \cup Rest)
         /\ Return /\ Here # "user" => Moves(Second, Rest)
         /\ \A f, g \in FrameType : Call(<<f, g>>) => Moves(f, {f, g} \cup Calls)
         /\ \A f, g, h, k \in FrameType : Call(<<f, g, h, k>>) => Moves(f, {f, g, h, k} \cup Calls)
<1>. DEFINE s == stack[current]
<1>1. /\ current \in ThreadAddr /\ Stackful(s) /\ Top = s[1] /\ Here = Top.at
  BY Running DEF Sound, Here
<1>2. s \in Seq(FrameType) /\ s # << >>
  BY <1>1 DEF Stackful
<1>3. Tail(s) \in Seq(FrameType) /\ FramesOf(Tail(s)) = Rest /\ Calls = FramesOf(s)
  BY <1>2, FewFrames DEF Rest, Calls
<1>4. ASSUME NEW r \in Seq(FrameType), r # << >>, stack' = [stack EXCEPT ![current] = r]
      PROVE  Moves(r[1], FramesOf(r))
  <2>1. stack'[current] = r /\ \A t \in ThreadAddr : t # current => stack'[t] = stack[t]
    BY <1>4, OtherStacks DEF Sound
  <2>2. Top' = Head(stack'[current'])
    BY DEF Top, me
  <2>3. Top' = r[1]
    BY <1>4, <2>1, <2>2
  <2>4. Here' = Top'.at
    BY DEF Here
  <2>5. Calls' = FramesOf(r)
    BY <2>1 DEF Calls
  <2>. QED BY <2>1, <2>3, <2>4, <2>5 DEF Moves
<1>. HIDE DEF s
<1>5. ASSUME NEW fs \in Seq(FrameType), fs # << >>, NEW u \in Seq(FrameType)
      PROVE  fs \o u \in Seq(FrameType) /\ fs \o u # << >>
  <2>1. /\ fs \o u \in Seq(FrameType) /\ Len(fs \o u) = Len(fs) + Len(u)
        /\ Len(fs) \in Nat /\ Len(u) \in Nat
    BY <1>5, ConcatProperties
  <2>2. Len(fs) > 0
    BY <1>5
  <2>3. Len(fs \o u) # 0
    BY <2>1, <2>2
  <2>. QED BY <2>1, <2>3
<1>6. ASSUME NEW fs \in Seq(FrameType), fs # << >>, Become(fs)
      PROVE  Moves(fs[1], FramesOf(fs) \cup Rest)
  <2>1. stack' = [stack EXCEPT ![current] = fs \o Tail(s)]
    BY <1>6 DEF Become, me, s
  <2>2. fs \o Tail(s) \in Seq(FrameType) /\ fs \o Tail(s) # << >>
    BY <1>3, <1>5, <1>6
  <2>3. Moves((fs \o Tail(s))[1], FramesOf(fs \o Tail(s)))
    BY <1>4, <2>1, <2>2
  <2>. QED BY <1>3, <1>6, <2>3, Joined
<1>7. ASSUME NEW fs \in Seq(FrameType), fs # << >>, Call(fs)
      PROVE  Moves(fs[1], FramesOf(fs) \cup Calls)
  <2>1. stack' = [stack EXCEPT ![current] = fs \o s]
    BY <1>7 DEF Call, me, s
  <2>2. fs \o s \in Seq(FrameType) /\ fs \o s # << >>
    BY <1>2, <1>5, <1>7
  <2>3. Moves((fs \o s)[1], FramesOf(fs \o s))
    BY <1>4, <2>1, <2>2
  <2>. QED BY <1>2, <1>3, <1>7, <2>3, Joined
<1>8. ASSUME Return, Here # "user" PROVE Moves(Second, Rest)
  <2>1. stack' = [stack EXCEPT ![current] = << >> \o Tail(s)]
    BY <1>8 DEF Return, Become, me, s
  <2>2. << >> \o Tail(s) = Tail(s)
    BY <1>3, ConcatEmptySeq
  <2>3. Stackful(Tail(s))
    BY <1>1, <1>8, LowerStep
  <2>4. Tail(s) # << >> /\ Tail(s)[1] = s[2]
    BY <1>2, <2>3, FewFrames DEF Stackful
  <2>5. Moves(Tail(s)[1], FramesOf(Tail(s)))
    BY <1>3, <1>4, <2>1, <2>2, <2>4
  <2>. QED BY <1>3, <2>4, <2>5 DEF Second, s
<1>9. \A f \in FrameType : Become(<<f>>) => Moves(f, {f} \cup Rest)
  <2>. TAKE f \in FrameType
  <2>1. <<f>> \in Seq(FrameType) /\ <<f>> # << >> /\ <<f>>[1] = f /\ FramesOf(<<f>>) = {f}
    BY FewFrames
  <2>. DEFINE fs == <<f>>
  <2>. HIDE DEF fs
  <2>2. Become(fs) => Moves(fs[1], FramesOf(fs) \cup Rest)
    BY <1>6, <2>1 DEF fs
  <2>. QED BY <2>1, <2>2 DEF fs
<1>10. \A f, g \in FrameType : /\ Become(<<f, g>>) => Moves(f, {f, g} \cup Rest)
                               /\ Call(<<f, g>>) => Moves(f, {f, g} \cup Calls)
  <2>. SUFFICES ASSUME NEW f \in FrameType, NEW g \in FrameType
                PROVE  /\ Become(<<f, g>>) => Moves(f, {f, g} \cup Rest)
                       /\ Call(<<f, g>>) => Moves(f, {f, g} \cup Calls)
    OBVIOUS
  <2>. DEFINE fs == <<f, g>>
  <2>1. fs \in Seq(FrameType) /\ fs # << >> /\ fs[1] = f /\ FramesOf(fs) = {f, g}
    BY FewFrames
  <2>. HIDE DEF fs
  <2>2. (Become(fs) => Moves(fs[1], FramesOf(fs) \cup Rest)) /\ (Call(fs) => Moves(fs[1], FramesOf(fs) \cup Calls))
    BY <1>6, <1>7, <2>1
  <2>. QED BY <2>1, <2>2 DEF fs
<1>11. \A f, g, h, k \in FrameType : Call(<<f, g, h, k>>) => Moves(f, {f, g, h, k} \cup Calls)
  <2>. SUFFICES ASSUME NEW f \in FrameType, NEW g \in FrameType, NEW h \in FrameType, NEW k \in FrameType
                PROVE  Call(<<f, g, h, k>>) => Moves(f, {f, g, h, k} \cup Calls)
    OBVIOUS
  <2>. DEFINE fs == <<f, g, h, k>>
  <2>1. fs \in Seq(FrameType) /\ fs # << >> /\ fs[1] = f /\ FramesOf(fs) = {f, g, h, k}
    BY FewFrames
  <2>. HIDE DEF fs
  <2>2. Call(fs) => Moves(fs[1], FramesOf(fs) \cup Calls)
    BY <1>7, <2>1
  <2>. QED BY <2>1, <2>2 DEF fs
<1>. QED BY <1>8, <1>9, <1>10, <1>11

-----------------------------------------------------------------------------
(* What a step may leave as it was                                         *)

\* The objects of a ready thread.
LEMMA OwnThings ==
  ASSUME Sound, SpacesInUse
  PROVE  /\ \A t \in ThreadAddr : tstate[t] = "ready" =>
              tspace[t] \in SpaceAddr /\ owner[tspace[t]] \in PcbAddr
         /\ current # NULL => current \in ThreadAddr /\ tstate[current] = "ready"
                                /\ Mine \in SpaceAddr /\ MyPcb \in PcbAddr
<1>1. ASSUME NEW t \in ThreadAddr, tstate[t] = "ready"
      PROVE  tspace[t] \in SpaceAddr /\ owner[tspace[t]] \in PcbAddr
  <2>1. tspace[t] # NULL
    BY <1>1 DEF SpacesInUse
  <2>2. tspace[t] \in SpaceAddr
    BY <2>1 DEF Sound, ObjectInv, ProcessTypeOK
  <2>3. owner[tspace[t]] # NULL
    BY <2>1 DEF Sound, ObjectInv
  <2>. QED BY <2>2, <2>3 DEF Sound, ObjectInv, ProcessTypeOK
<1>2. current # NULL => current \in ThreadAddr /\ tstate[current] = "ready"
  BY Running DEF Sound
<1>. QED BY <1>1, <1>2 DEF Mine, MyPcb, me

\* Frames as before, or that are in order.
LEMMA FramesKept ==
  ASSUME FramesInOrder, MyPcb' = MyPcb, UNCHANGED pcb, \A f \in Calls' : f \in Calls \/ InOrder(f),
         Here' = "pcbDtor" => Within("forgetPCB")',
         Here' \in {"deleteSpace", "freePages", "freeSpace"} => Top'.space = Mine'
  PROVE  FramesInOrder'
<1>1. \A f : InOrder(f)' <=> InOrder(f)
  BY DEF InOrder, Live
<1>2. \A f \in Calls' : InOrder(f)'
  BY <1>1 DEF FramesInOrder
<1>. QED BY <1>2 DEF FramesInOrder

\* A relic stays one while its PCB does.
LEMMA RelicsKept ==
  ASSUME UNCHANGED tstate, \A b \in PcbAddr : Live(b)' => Live(b) /\ pcb'[b].thread = pcb[b].thread
  PROVE  \A t : Relic(t)' => Relic(t)
BY DEF Relic, Live

\* The tables are as they were and no space is being made or given back.
LEMMA SpacesKept ==
  ASSUME SpacesInUse, UNCHANGED <<tstate, tspace, sstate, pages>>,
         \A t \in ThreadAddr : Relic(t)' => Relic(t),
         Here \notin {"freeSpace", "load", "finish", "forkThread"},
         Here' \notin {"freeSpace", "load", "finish", "forkThread", "copyPages"},
         Here' \in {"allocatePCB", "findPid", "copySpace"} =>
           Cardinality(pages'[Mine']) <= Cardinality(FreePages')
  PROVE  SpacesInUse'
<1>1. \A t \in ThreadAddr : ~Bare(t) /\ ~Bare(t)'
  BY DEF Bare
<1>. QED BY <1>1 DEF SpacesInUse

\* So are threads and PCBs, and the running thread stays in, or out of, doExit.
LEMMA OwnersKept ==
  ASSUME Owners, UNCHANGED <<tstate, tspace, owner, pcb>>,
         \/ ~Exiting /\ ~Exiting'
         \/ current' = current /\ (Exiting' <=> Exiting) /\ (Within("self")' => Within("self")),
         Here \in Newborn \/ Here' \in Newborn => Here \in Newborn /\ Here' \in Newborn /\ Top'.pcb = Top.pcb
  PROVE  Owners'
<1>1. \A b : Live(b)' <=> Live(b)
  BY DEF Live
<1>2. ASSUME NEW t \in ThreadAddr, tstate'[t] = "ready", ~(t = current' /\ Exiting')
      PROVE  ~(t = current /\ Exiting) /\ tstate[t] = "ready"
  BY <1>2
<1>3. Exiting' => Exiting /\ MyPcb' = MyPcb /\ current' = current /\ (Within("self")' => Within("self"))
  <2>1. current' = current => MyPcb' = MyPcb
    BY DEF MyPcb, Mine, me
  <2>. QED BY <2>1, Zenon
<1>4. \A t \in ThreadAddr : tstate'[t] = "ready" /\ ~(t = current' /\ Exiting') =>
         /\ Live(owner[tspace[t]])' /\ pcb'[owner'[tspace'[t]]].thread = t
         /\ ~pcb'[owner'[tspace'[t]]].exited
  <2>. SUFFICES ASSUME NEW t \in ThreadAddr, tstate'[t] = "ready", ~(t = current' /\ Exiting')
                PROVE  /\ Live(owner[tspace[t]])' /\ pcb'[owner'[tspace'[t]]].thread = t
                       /\ ~pcb'[owner'[tspace'[t]]].exited
    OBVIOUS
  <2>1. ~(t = current /\ Exiting) /\ tstate[t] = "ready"
    BY <1>2
  <2>2. Live(owner[tspace[t]]) /\ pcb[owner[tspace[t]]].thread = t /\ ~pcb[owner[tspace[t]]].exited
    BY <2>1 DEF Owners
  <2>. QED BY <2>2 DEF Live
<1>5. Exiting' => /\ Live(MyPcb)' => pcb'[MyPcb'].exited /\ pcb'[MyPcb'].thread = current'
                  /\ Within("self")' => Live(MyPcb)'
  BY <1>3 DEF Owners, Live
<1>6. \A b \in PcbAddr : Live(b)' /\ ~pcb'[b].exited =>
         \/ \E t \in ThreadAddr : tstate'[t] = "ready" /\ owner'[tspace'[t]] = b
         \/ Here' \in Newborn /\ Top'.pcb = b
  BY <1>1 DEF Owners
<1>7. \A b \in PcbAddr : Live(b)' /\ pcb'[b].exited =>
         \/ Exiting' /\ b = MyPcb'
         \/ pcb'[b].thread # NULL /\ tstate'[pcb'[b].thread] = "finished"
  <2>1. Exiting => Exiting' /\ MyPcb' = MyPcb
    BY DEF MyPcb, Mine, me
  <2>. QED BY <1>1, <2>1 DEF Owners
<1>8. Here' \in Newborn =>
         /\ Live(Top.pcb)' /\ ~pcb'[Top'.pcb].exited /\ pcb'[Top'.pcb].parent = NULL
         /\ pcb'[Top'.pcb].thread = NULL /\ pcb'[Top'.pcb].children = << >>
  BY DEF Owners, Live
<1>. QED BY <1>1, <1>4, <1>5, <1>6, <1>7, <1>8 DEF Owners

\* So are the PCBs, and those the running thread deletes.
LEMMA FamiliesKept ==
  ASSUME Families, UNCHANGED pcb, Exiting \/ Exiting' => Exiting /\ Exiting' /\ MyPcb' = MyPcb,
         Within("self")' <=> Within("self"), Kids' = Kids,
         Here \in Deletion \/ Here' \in Deletion =>
           Here \in Deletion /\ Here' \in Deletion /\ Top'.pcb = Top.pcb /\ MyPcb' = MyPcb
  PROVE  Families'
<1>1. \A b : Live(b)' <=> Live(b)
  BY DEF Live
<1>2. \A b, p : ChildOf(b, p)' <=> ChildOf(b, p)
  BY <1>1 DEF ChildOf
<1>3. /\ \A b \in PcbAddr : Live(b)' /\ pcb'[b].exited /\ pcb'[b].parent = NULL =>
           Exiting' /\ b = MyPcb' /\ (Within("self")' \/ (Here' \in Deletion /\ Top'.pcb = b))
  BY <1>1 DEF Families
<1>4. \A b \in PcbAddr : Live(b)' /\ pcb'[b].parent # NULL => ChildOf(b, pcb[b].parent)'
  BY <1>1, <1>2 DEF Families
<1>5. \A p \in PcbAddr : Live(p)' /\ ~pcb'[p].exited =>
         /\ \A m, n \in 1 .. Len(pcb'[p].children) : pcb'[p].children[m] = pcb'[p].children[n] => m = n
         /\ \A n \in 1 .. Len(pcb'[p].children) :
              Live(pcb[p].children[n])' /\ pcb'[pcb'[p].children[n]].parent = p
  BY DEF Families, Live
<1>6. Here' \in Deletion =>
         /\ Live(Top.pcb)' /\ pcb'[Top'.pcb].exited /\ Top'.pcb \notin Kids'
         /\ Within("self")' => Top'.pcb # MyPcb' /\ pcb'[Top'.pcb].parent = MyPcb'
         /\ ~Within("self")' => Top'.pcb = MyPcb' /\ pcb'[Top'.pcb].parent = NULL
  BY DEF Families, Live
<1>. QED BY <1>3, <1>4, <1>5, <1>6 DEF Families

\* So are the pids.
LEMMA PidsKept ==
  ASSUME PidsInUse, UNCHANGED <<usedPids, pcb>>, Here' # "pcbDtor"
  PROVE  PidsInUse'
BY DEF PidsInUse, Live

\* The invariants as a step finds them, and the step hands out no relic.
Before == Sound /\ OrdinaryInv /\ Ordinary /\ NoFlaw'

\* The guard of an action says where the running thread is.
LEMMA AtHere == \A p : At(p) => current # NULL /\ Here = p /\ crashed = "no"
BY DEF At, me, Here

\* The top frame is replaced.
LEMMA TopMoves ==
  ASSUME Sound, FramesInOrder, current # NULL, NEW f, NEW new, Moves(f, new \cup Rest)
  PROVE  /\ \A p : Within(p) <=> p = Here \/ p \in Ats(Rest)
         /\ \A p : Within(p)' <=> p \in Ats(new) \/ p \in Ats(Rest)
         /\ Here # "children" /\ "children" \notin Ats(new) => Kids' = Kids
         /\ \A g \in Calls' : g \in new \/ g \in Calls
<1>1. Calls' = new \cup Rest
  BY DEF Moves
<1>2. Calls = {Top} \cup Rest /\ Here = Top.at
  BY Points
<1>3. /\ \A p : Within(p) <=> p = Here \/ p \in Ats(Rest)
      /\ \A p : Within(p)' <=> p \in Ats(new) \/ p \in Ats(Rest)
      /\ \A g \in Calls' : g \in new \/ g \in Calls
  BY <1>1, <1>2 DEF Within, Ats
<1>4. ASSUME Here # "children", "children" \notin Ats(new) PROVE Kids' = Kids
  <2>1. \A g : g.at = "children" => (g \in Calls' <=> g \in Calls)
    BY <1>1, <1>2, <1>4 DEF Ats
  <2>. QED BY <2>1 DEF Kids
<1>. QED BY <1>3, <1>4

\* Frames are put on top.
LEMMA PutOnTop ==
  ASSUME NEW f, NEW new, Moves(f, new \cup Calls)
  PROVE  /\ \A p : Within(p)' <=> p \in Ats(new) \/ Within(p)
         /\ "children" \notin Ats(new) => Kids' = Kids
         /\ \A g \in Calls' : g \in new \/ g \in Calls
<1>1. Calls' = new \cup Calls
  BY DEF Moves
<1>2. /\ \A p : Within(p)' <=> p \in Ats(new) \/ Within(p)
      /\ \A g \in Calls' : g \in new \/ g \in Calls
  BY <1>1 DEF Within, Ats
<1>4. ASSUME "children" \notin Ats(new) PROVE Kids' = Kids
  <2>1. \A g : g.at = "children" => (g \in Calls' <=> g \in Calls)
    BY <1>1, <1>4 DEF Ats
  <2>. QED BY <2>1 DEF Kids
<1>. QED BY <1>2, <1>4

\* Threads and failures are as before, and the locks as the new point demands.
LEMMA OneKept ==
  ASSUME OneAtATime, NEW f, NEW fs, Moves(f, fs), UNCHANGED <<tstate, crashed, misused>>,
         mmLock' = IF f.at \in {"copyPages", "freePages"} THEN current ELSE NULL,
         pcbManagerLock' = IF f.at \in {"findPid", "clearPid", "pcbDtor", "forgetPCB"} THEN current ELSE NULL
  PROVE  OneAtATime'
BY DEF OneAtATime, Moves

\* Nobody sleeps, so a release wakes nobody.
LEMMA NobodyWakes ==
  ASSUME OneAtATime, NEW points, WakeOne(points)
  PROVE  UNCHANGED tstate
BY DEF OneAtATime, WakeOne, Asleep

\* A step that moves the running thread and changes no object but a lock or a pid.
LEMMA QuietMove ==
  ASSUME Before, NEW f, NEW fs, Moves(f, fs),
         UNCHANGED <<tstate, tspace, sstate, pages, owner, pcb, usedPages, crashed, misused>>,
         mmLock' = IF f.at \in {"copyPages", "freePages"} THEN current ELSE NULL,
         pcbManagerLock' = IF f.at \in {"findPid", "clearPid", "pcbDtor", "forgetPCB"} THEN current ELSE NULL,
         \A g \in Calls' : g \in Calls \/ InOrder(g),
         f.at = "pcbDtor" => Within("forgetPCB")',
         f.at \in {"deleteSpace", "freePages"} => f.space = Mine,
         Here \notin {"freeSpace", "load", "finish", "forkThread"},
         f.at \notin {"freeSpace", "load", "finish", "forkThread", "copyPages"},
         f.at \in {"allocatePCB", "findPid", "copySpace"} =>
           Cardinality(pages[Mine]) <= Cardinality(FreePages),
         Exiting' <=> Exiting, Within("self")' => Within("self"),
         Here \in Newborn \/ f.at \in Newborn => Here \in Newborn /\ f.at \in Newborn /\ f.pcb = Top.pcb
  PROVE  /\ OneAtATime' /\ FramesInOrder' /\ SpacesInUse' /\ Owners'
         /\ MyPcb' = MyPcb
<1>0. OneAtATime /\ FramesInOrder /\ SpacesInUse /\ Owners
  BY DEF Before, OrdinaryInv
<1>1. current' = current /\ Here' = f.at /\ Top' = f
  BY DEF Moves
<1>2. Mine' = Mine /\ MyPcb' = MyPcb /\ FreePages' = FreePages /\ pages' = pages
  BY <1>1 DEF MyPcb, Mine, me, FreePages
<1>3. OneAtATime'
  BY <1>0, OneKept
<1>4. FramesInOrder'
  <2>1. Here' = "pcbDtor" => Within("forgetPCB")'
    BY <1>1
  <2>2. Here' \in {"deleteSpace", "freePages", "freeSpace"} => Top'.space = Mine'
    BY <1>1, <1>2
  <2>. QED BY <1>0, <1>2, <2>1, <2>2, FramesKept
<1>5. SpacesInUse'
  <2>1. Here' \notin {"freeSpace", "load", "finish", "forkThread", "copyPages"}
    BY <1>1
  <2>2. Here' \in {"allocatePCB", "findPid", "copySpace"} =>
          Cardinality(pages'[Mine']) <= Cardinality(FreePages')
    BY <1>1, <1>2
  <2>3. \A t \in ThreadAddr : Relic(t)' => Relic(t)
    BY RelicsKept DEF Live
  <2>. QED BY <1>0, <2>1, <2>2, <2>3, SpacesKept
<1>6. Owners'
  <2>1. Here \in Newborn \/ Here' \in Newborn => Here \in Newborn /\ Here' \in Newborn /\ Top'.pcb = Top.pcb
    BY <1>1
  <2>. QED BY <1>0, <1>1, <2>1, OwnersKept
<1>. QED BY <1>2, <1>3, <1>4, <1>5, <1>6

\* doFork finds that there is memory for a copy.
LEMMA doForkStep ==
  ASSUME Before, doFork
  PROVE  OrdinaryInv'
<1>. DEFINE f == Plain("allocatePCB")
            g == Plain("copySpace")
<1>0. /\ Sound /\ OneAtATime /\ FramesInOrder /\ Families /\ PidsInUse
      /\ current # NULL /\ Here = "user"
  BY AtHere DEF Before, OrdinaryInv, doFork, InUser
<1>1. /\ UNCHANGED <<tstate, tspace, sstate, pages, owner, pcb, usedPids, usedPages, mmLock, pcbManagerLock,
                     current, crashed, misused>>
      /\ Cardinality(pages[Mine]) <= Cardinality(FreePages)
      /\ Call(<<f, g>>)
  BY DEF doFork, spaceVars, pidVars, lockVars
<1>2. f \in FrameType /\ f.at = "allocatePCB" /\ g \in FrameType /\ g.at = "copySpace"
  BY Frames
<1>. HIDE DEF f, g
<1>3. Moves(f, {f, g} \cup Calls)
  BY <1>0, <1>1, <1>2, NewFrames
<1>4. /\ \A p : Within(p)' <=> p \in {"allocatePCB", "copySpace"} \/ Within(p)
      /\ Kids' = Kids /\ Here' = "allocatePCB" /\ \A h \in Calls' : h \in {f, g} \/ h \in Calls
  <2>1. Ats({f, g}) = {"allocatePCB", "copySpace"}
    BY <1>2 DEF Ats
  <2>2. Here' = f.at
    BY <1>3 DEF Moves
  <2>. QED BY <1>2, <1>3, <2>1, <2>2, PutOnTop
<1>5. \A p : Within(p) <=> p = "user"
  BY <1>0, Points
<1>6. ~Exiting /\ ~Exiting' /\ (Within("self")' <=> Within("self"))
  BY <1>4, <1>5 DEF Exiting
<1>7. mmLock = NULL /\ pcbManagerLock = NULL
  BY <1>0 DEF OneAtATime
<1>8. InOrder(f) /\ InOrder(g)
  BY <1>2 DEF InOrder
<1>9. OneAtATime' /\ FramesInOrder' /\ SpacesInUse' /\ Owners'
  BY <1>0, <1>1, <1>2, <1>3, <1>4, <1>6, <1>7, <1>8, QuietMove DEF Newborn
<1>10. Families'
  BY <1>0, <1>1, <1>4, <1>6, FamiliesKept DEF Deletion
<1>11. PidsInUse'
  BY <1>0, <1>1, <1>4, PidsKept
<1>. QED BY <1>9, <1>10, <1>11 DEF OrdinaryInv

\* The frames after a routine goes on, and after it returns.
LEMMA Onward ==
  ASSUME Sound, FramesInOrder, current # NULL, current' = current
  PROVE  /\ \A f \in FrameType : Become(<<f>>) =>
              /\ Moves(f, {f} \cup Rest) /\ Here' = f.at /\ Top' = f
              /\ \A p : Within(p)' <=> p = f.at \/ p \in Lower(stack[current])
              /\ Here # "children" /\ f.at # "children" => Kids' = Kids
              /\ \A g \in Calls' : g = f \/ g \in Calls
         /\ Return /\ Here # "user" =>
              /\ Moves(Second, Rest) /\ Here' = Second.at /\ Top' = Second
              /\ \A p : Within(p)' <=> p \in Lower(stack[current])
              /\ Here # "children" => Kids' = Kids
              /\ \A g \in Calls' : g \in Calls
<1>1. ASSUME NEW f \in FrameType, Become(<<f>>)
      PROVE  /\ Moves(f, {f} \cup Rest) /\ Here' = f.at /\ Top' = f
             /\ \A p : Within(p)' <=> p = f.at \/ p \in Lower(stack[current])
             /\ Here # "children" /\ f.at # "children" => Kids' = Kids
             /\ \A g \in Calls' : g = f \/ g \in Calls
  <2>1. Moves(f, {f} \cup Rest)
    BY <1>1, NewFrames
  <2>2. Here' = f.at /\ Top' = f
    BY <2>1 DEF Moves
  <2>3. Ats({f}) = {f.at} /\ Lower(stack[current]) = Ats(Rest)
    BY DEF Ats, Lower, Rest
  <2>4. /\ \A p : Within(p)' <=> p \in Ats({f}) \/ p \in Ats(Rest)
        /\ Here # "children" /\ "children" \notin Ats({f}) => Kids' = Kids
        /\ \A g \in Calls' : g \in {f} \/ g \in Calls
    BY <2>1, TopMoves
  <2>. QED BY <2>1, <2>2, <2>3, <2>4
<1>2. ASSUME Return, Here # "user"
      PROVE  /\ Moves(Second, Rest) /\ Here' = Second.at /\ Top' = Second
             /\ \A p : Within(p)' <=> p \in Lower(stack[current])
             /\ Here # "children" => Kids' = Kids
             /\ \A g \in Calls' : g \in Calls
  <2>1. Moves(Second, Rest)
    BY <1>2, NewFrames
  <2>2. Here' = Second.at /\ Top' = Second
    BY <2>1 DEF Moves
  <2>. DEFINE no == {}
  <2>3. Ats(no) = {} /\ Lower(stack[current]) = Ats(Rest) /\ no \cup Rest = Rest /\ \A g : g \notin no
    BY DEF Ats, Lower, Rest
  <2>. HIDE DEF no
  <2>4. Moves(Second, no \cup Rest)
    BY <2>1, <2>3
  <2>5. /\ \A p : Within(p)' <=> p \in Ats(no) \/ p \in Ats(Rest)
        /\ Here # "children" /\ "children" \notin Ats(no) => Kids' = Kids
        /\ \A g \in Calls' : g \in no \/ g \in Calls
    BY <2>4, TopMoves
  <2>. QED BY <2>1, <2>2, <2>3, <2>5
<1>. QED BY <1>1, <1>2

\* Nothing that the invariants speak of changes; Nachos may have died.
LEMMA NothingMoves ==
  ASSUME OrdinaryInv, crashed' \in {"no", "full"},
         UNCHANGED <<tstate, tspace, stack, sstate, pages, owner, pcb, usedPids, usedPages,
                     mmLock, pcbManagerLock, current, misused>>
  PROVE  OrdinaryInv'
<1>1. /\ Here' = Here /\ Top' = Top /\ Calls' = Calls /\ Mine' = Mine /\ MyPcb' = MyPcb
      /\ FreePages' = FreePages /\ Kids' = Kids
  BY DEF Here, Top, me, Calls, Mine, MyPcb, FreePages, Kids
<1>2. \A p : Within(p)' <=> Within(p)
  BY <1>1 DEF Within
<1>3. Exiting' <=> Exiting
  BY <1>2 DEF Exiting
<1>4. OneAtATime'
  BY <1>1 DEF OrdinaryInv, OneAtATime
<1>5. FramesInOrder'
  BY <1>1, <1>2, FramesKept DEF OrdinaryInv, FramesInOrder
<1>6. SpacesInUse'
  <2>1. \A t \in ThreadAddr : Bare(t)' <=> Bare(t)
    BY <1>1 DEF Bare
  <2>2. \A t \in ThreadAddr : Relic(t)' <=> Relic(t)
    BY DEF Relic
  <2>. QED BY <1>1, <2>1, <2>2 DEF OrdinaryInv, SpacesInUse
<1>7. Owners'
  <2>1. \/ ~Exiting /\ ~Exiting'
        \/ current' = current /\ (Exiting' <=> Exiting) /\ (Within("self")' => Within("self"))
    BY <1>2, <1>3
  <2>2. Here \in Newborn \/ Here' \in Newborn => Here \in Newborn /\ Here' \in Newborn /\ Top'.pcb = Top.pcb
    BY <1>1
  <2>. QED BY <2>1, <2>2, OwnersKept DEF OrdinaryInv
<1>8. Families'
  <2>1. Here \in Deletion \/ Here' \in Deletion =>
          Here \in Deletion /\ Here' \in Deletion /\ Top'.pcb = Top.pcb /\ MyPcb' = MyPcb
    BY <1>1
  <2>2. Exiting \/ Exiting' => Exiting /\ Exiting' /\ MyPcb' = MyPcb
    BY <1>1, <1>3
  <2>. QED BY <1>1, <1>2, <2>1, <2>2, FamiliesKept DEF OrdinaryInv
<1>9. PidsInUse'
  BY <1>1 DEF OrdinaryInv, PidsInUse, Live
<1>. QED BY <1>4, <1>5, <1>6, <1>7, <1>8, <1>9 DEF OrdinaryInv

\* AllocatePCB and DeallocatePCB take the lock, which is free.
LEMMA EnterAllocatePCBStep ==
  ASSUME Before, EnterAllocatePCB
  PROVE  OrdinaryInv'
<1>. DEFINE f == Plain("findPid")
<1>0. /\ Sound /\ OneAtATime /\ FramesInOrder /\ SpacesInUse /\ Families /\ PidsInUse
      /\ current # NULL /\ Here = "allocatePCB"
  BY AtHere DEF Before, OrdinaryInv, EnterAllocatePCB
<1>1. mmLock = NULL /\ pcbManagerLock = NULL
  BY <1>0 DEF OneAtATime
<1>2. /\ UNCHANGED <<tstate, tspace, sstate, pages, owner, pcb, usedPids, usedPages, mmLock, current,
                     crashed, misused>>
      /\ pcbManagerLock' = current /\ Become(<<f>>)
  BY <1>1 DEF EnterAllocatePCB, me, spaceVars, pidVars, histVars
<1>3. f \in FrameType /\ f.at = "findPid"
  BY Frames
<1>. HIDE DEF f
<1>4. /\ Moves(f, {f} \cup Rest) /\ Here' = f.at
      /\ \A p : Within(p)' <=> p = f.at \/ p \in Lower(stack[current])
      /\ Kids' = Kids /\ \A g \in Calls' : g = f \/ g \in Calls
  BY <1>0, <1>2, <1>3, Onward
<1>5. Lower(stack[current]) = {"copySpace", "user"} /\ \A p : Within(p) <=> p = Here \/ p \in Lower(stack[current])
  BY <1>0, Points
<1>6. ~Exiting /\ ~Exiting' /\ (Within("self")' <=> Within("self"))
  BY <1>0, <1>3, <1>4, <1>5 DEF Exiting
<1>7. Cardinality(pages[Mine]) <= Cardinality(FreePages)
  BY <1>0 DEF SpacesInUse
<1>8. InOrder(f)
  BY <1>3 DEF InOrder
<1>9. OneAtATime' /\ FramesInOrder' /\ SpacesInUse' /\ Owners'
  BY <1>0, <1>1, <1>2, <1>3, <1>4, <1>6, <1>7, <1>8, QuietMove DEF Newborn
<1>10. Families'
  BY <1>0, <1>2, <1>3, <1>4, <1>6, FamiliesKept DEF Deletion
<1>11. PidsInUse'
  BY <1>0, <1>2, <1>3, <1>4, PidsKept
<1>. QED BY <1>9, <1>10, <1>11 DEF OrdinaryInv

\* DeallocatePCB has the lock; the PCB is the one it was called for.
LEMMA EnterDeallocatePCBStep ==
  ASSUME Before, EnterDeallocatePCB
  PROVE  OrdinaryInv'
<1>. DEFINE f == OnPcb("clearPid", Top.pcb)
<1>0. /\ Sound /\ OneAtATime /\ FramesInOrder /\ SpacesInUse /\ Families /\ PidsInUse
      /\ current # NULL /\ Here = "deallocatePCB"
  BY AtHere DEF Before, OrdinaryInv, EnterDeallocatePCB
<1>1. mmLock = NULL /\ pcbManagerLock = NULL
  BY <1>0 DEF OneAtATime
<1>2. /\ UNCHANGED <<tstate, tspace, sstate, pages, owner, pcb, usedPids, usedPages, mmLock, current,
                     crashed, misused>>
      /\ pcbManagerLock' = current /\ Become(<<f>>)
  BY <1>1 DEF EnterDeallocatePCB, me, spaceVars, pidVars, histVars
<1>3. f \in FrameType /\ f.at = "clearPid" /\ f.pcb = Top.pcb
  <2>1. Top \in FrameType /\ Here = Top.at
    BY <1>0, Points
  <2>2. Top.pcb \in PcbAddr
    BY <1>0, <2>1 DEF FrameType
  <2>. QED BY <2>2, Frames
<1>. HIDE DEF f
<1>4. /\ Moves(f, {f} \cup Rest) /\ Here' = f.at /\ Top' = f
      /\ \A p : Within(p)' <=> p = f.at \/ p \in Lower(stack[current])
      /\ Kids' = Kids /\ \A g \in Calls' : g = f \/ g \in Calls
  BY <1>0, <1>2, <1>3, Onward
<1>5. \A p : Within(p) <=> p = Here \/ p \in Lower(stack[current])
  BY <1>0, Points
<1>6. (Exiting' <=> Exiting) /\ (Within("self")' <=> Within("self"))
  BY <1>0, <1>3, <1>4, <1>5 DEF Exiting
<1>8. InOrder(f)
  BY <1>3 DEF InOrder
<1>9. OneAtATime' /\ FramesInOrder' /\ SpacesInUse' /\ Owners' /\ MyPcb' = MyPcb
  BY <1>0, <1>1, <1>2, <1>3, <1>4, <1>6, <1>8, QuietMove DEF Newborn
<1>10. Families'
  BY <1>0, <1>2, <1>3, <1>4, <1>6, <1>9, FamiliesKept DEF Deletion
<1>11. PidsInUse'
  BY <1>0, <1>2, <1>3, <1>4, PidsKept
<1>. QED BY <1>9, <1>10, <1>11 DEF OrdinaryInv

\* ~AddrSpace takes the other lock.
LEMMA EnterDeleteSpaceStep ==
  ASSUME Before, EnterDeleteSpace
  PROVE  OrdinaryInv'
<1>. DEFINE f == OnSpace("freePages", Top.space)
<1>0. /\ Sound /\ OneAtATime /\ FramesInOrder /\ SpacesInUse /\ Families /\ PidsInUse
      /\ current # NULL /\ Here = "deleteSpace"
  BY AtHere DEF Before, OrdinaryInv, EnterDeleteSpace
<1>1. mmLock = NULL /\ pcbManagerLock = NULL
  BY <1>0 DEF OneAtATime
<1>2. /\ UNCHANGED <<tstate, tspace, sstate, pages, owner, pcb, usedPids, usedPages, pcbManagerLock, current,
                     crashed, misused>>
      /\ mmLock' = current /\ Become(<<f>>)
  BY <1>1 DEF EnterDeleteSpace, me, spaceVars, pidVars, histVars
<1>3. f \in FrameType /\ f.at = "freePages" /\ f.space = Mine
  <2>1. Top \in FrameType /\ Here = Top.at
    BY <1>0, Points
  <2>2. Top.space \in SpaceAddr
    BY <1>0, <2>1 DEF FrameType
  <2>3. Top.space = Mine
    BY <1>0 DEF FramesInOrder
  <2>. QED BY <2>2, <2>3, Frames
<1>. HIDE DEF f
<1>4. /\ Moves(f, {f} \cup Rest) /\ Here' = f.at
      /\ \A p : Within(p)' <=> p = f.at \/ p \in Lower(stack[current])
      /\ Kids' = Kids /\ \A g \in Calls' : g = f \/ g \in Calls
  BY <1>0, <1>2, <1>3, Onward
<1>5. \A p : Within(p) <=> p = Here \/ p \in Lower(stack[current])
  BY <1>0, Points
<1>6. (Exiting' <=> Exiting) /\ (Within("self")' <=> Within("self"))
  BY <1>0, <1>3, <1>4, <1>5 DEF Exiting
<1>8. InOrder(f)
  BY <1>3 DEF InOrder
<1>9. OneAtATime' /\ FramesInOrder' /\ SpacesInUse' /\ Owners' /\ MyPcb' = MyPcb
  BY <1>0, <1>1, <1>2, <1>3, <1>4, <1>6, <1>8, QuietMove DEF Newborn
<1>10. Families'
  BY <1>0, <1>2, <1>3, <1>4, <1>6, <1>9, FamiliesKept DEF Deletion
<1>11. PidsInUse'
  BY <1>0, <1>2, <1>3, <1>4, PidsKept
<1>. QED BY <1>9, <1>10, <1>11 DEF OrdinaryInv

\* doExit comes to its own space, which it has.
LEMMA ExitSpaceStep ==
  ASSUME Before, ExitSpace
  PROVE  OrdinaryInv'
<1>. DEFINE f == OnSpace("deleteSpace", Mine)
<1>0. /\ Sound /\ OneAtATime /\ FramesInOrder /\ SpacesInUse /\ Families /\ PidsInUse
      /\ current # NULL /\ Here = "exitSpace"
  BY AtHere DEF Before, OrdinaryInv, ExitSpace
<1>1. mmLock = NULL /\ pcbManagerLock = NULL
  BY <1>0 DEF OneAtATime
<1>m. Mine \in SpaceAddr
  BY <1>0, OwnThings
<1>2. /\ UNCHANGED <<tstate, tspace, sstate, pages, owner, pcb, usedPids, usedPages, mmLock, pcbManagerLock, current,
                     crashed, misused>>
      /\ Become(<<f>>)
  BY <1>m, ProcessAssumption DEF ExitSpace, me, spaceVars, pidVars, lockVars, histVars
<1>3. f \in FrameType /\ f.at = "deleteSpace" /\ f.space = Mine
  BY <1>m, Frames
<1>. HIDE DEF f
<1>4. /\ Moves(f, {f} \cup Rest) /\ Here' = f.at
      /\ \A p : Within(p)' <=> p = f.at \/ p \in Lower(stack[current])
      /\ Kids' = Kids /\ \A g \in Calls' : g = f \/ g \in Calls
  BY <1>0, <1>2, <1>3, Onward
<1>5. \A p : Within(p) <=> p = Here \/ p \in Lower(stack[current])
  BY <1>0, Points
<1>6. (Exiting' <=> Exiting) /\ (Within("self")' <=> Within("self"))
  BY <1>0, <1>3, <1>4, <1>5 DEF Exiting
<1>8. InOrder(f)
  BY <1>3 DEF InOrder
<1>9. OneAtATime' /\ FramesInOrder' /\ SpacesInUse' /\ Owners' /\ MyPcb' = MyPcb
  BY <1>0, <1>1, <1>2, <1>3, <1>4, <1>6, <1>8, QuietMove DEF Newborn
<1>10. Families'
  BY <1>0, <1>2, <1>3, <1>4, <1>6, <1>9, FamiliesKept DEF Deletion
<1>11. PidsInUse'
  BY <1>0, <1>2, <1>3, <1>4, PidsKept
<1>. QED BY <1>9, <1>10, <1>11 DEF OrdinaryInv

\* DeallocatePCB ends, in doExit or for one of its children.
LEMMA ForgetPCBStep ==
  ASSUME Before, ForgetPCB
  PROVE  OrdinaryInv'
<1>0. /\ Sound /\ OneAtATime /\ FramesInOrder /\ SpacesInUse /\ Families /\ PidsInUse
      /\ current # NULL /\ Here = "forgetPCB"
  BY AtHere DEF Before, OrdinaryInv, ForgetPCB
<1>1. mmLock = NULL
  BY <1>0 DEF OneAtATime
<1>t. UNCHANGED tstate /\ pcbManagerLock' = NULL
  BY <1>0, NobodyWakes DEF ForgetPCB, ReleasePcbs
<1>2. /\ UNCHANGED <<tspace, sstate, pages, owner, pcb, usedPids, usedPages, mmLock, current, crashed, misused>>
      /\ Return
  BY DEF ForgetPCB, spaceVars, histVars
<1>3. Second.at \in {"exitSpace", "children"}
  BY <1>0, Points
<1>4. /\ Moves(Second, Rest) /\ Here' = Second.at
      /\ \A p : Within(p)' <=> p \in Lower(stack[current])
      /\ Kids' = Kids /\ \A g \in Calls' : g \in Calls
  BY <1>0, <1>2, Onward
<1>5. \A p : Within(p) <=> p = Here \/ p \in Lower(stack[current])
  BY <1>0, Points
<1>6. (Exiting' <=> Exiting) /\ (Within("self")' <=> Within("self"))
  BY <1>0, <1>4, <1>5 DEF Exiting
<1>9. OneAtATime' /\ FramesInOrder' /\ SpacesInUse' /\ Owners' /\ MyPcb' = MyPcb
  BY <1>0, <1>1, <1>t, <1>2, <1>3, <1>4, <1>6, QuietMove DEF Newborn
<1>10. Families'
  BY <1>0, <1>2, <1>3, <1>4, <1>6, <1>9, FamiliesKept DEF Deletion
<1>11. PidsInUse'
  BY <1>0, <1>2, <1>3, <1>4, PidsKept
<1>. QED BY <1>9, <1>10, <1>11 DEF OrdinaryInv

\* doExit has seen all children.
LEMMA NoMoreChildrenStep ==
  ASSUME Before, NoMoreChildren
  PROVE  OrdinaryInv'
<1>0. /\ Sound /\ OneAtATime /\ FramesInOrder /\ SpacesInUse /\ Families /\ PidsInUse
      /\ current # NULL /\ Here = "children" /\ Top.kids = << >>
  BY AtHere DEF Before, OrdinaryInv, NoMoreChildren
<1>1. mmLock = NULL /\ pcbManagerLock = NULL
  BY <1>0 DEF OneAtATime
<1>2. /\ UNCHANGED <<tstate, tspace, sstate, pages, owner, pcb, usedPids, usedPages, mmLock, pcbManagerLock,
                     current, crashed, misused>>
      /\ Return
  BY DEF NoMoreChildren, spaceVars, pidVars, lockVars, histVars
<1>3. Second.at = "self" /\ Lower(stack[current]) = ExitPath
  BY <1>0, Points
<1>4. /\ Moves(Second, Rest) /\ Here' = Second.at
      /\ \A p : Within(p)' <=> p \in Lower(stack[current])
      /\ \A g \in Calls' : g \in Calls
  BY <1>0, <1>2, Onward
<1>5. \A p : Within(p) <=> p = Here \/ p \in Lower(stack[current])
  BY <1>0, Points
<1>6. (Exiting' <=> Exiting) /\ (Within("self")' <=> Within("self"))
  BY <1>0, <1>4, <1>5 DEF Exiting
<1>7. Kids' = Kids
  <2>1. Calls = {Top} \cup Rest /\ Calls' = Rest
    BY <1>0, <1>4, Points DEF Moves
  <2>2. \A g \in Rest : g.at # "children"
    BY <1>3 DEF Lower, Ats, Rest, ExitPath
  <2>3. \A n : n \notin 1 .. Len(Top.kids)
    BY <1>0
  <2>4. Kids = {} /\ Kids' = {}
    BY <2>1, <2>2, <2>3 DEF Kids
  <2>. QED BY <2>4
<1>9. OneAtATime' /\ FramesInOrder' /\ SpacesInUse' /\ Owners' /\ MyPcb' = MyPcb
  BY <1>0, <1>1, <1>2, <1>3, <1>4, <1>6, QuietMove DEF Newborn
<1>10. Families'
  BY <1>0, <1>2, <1>3, <1>4, <1>6, <1>7, <1>9, FamiliesKept DEF Deletion
<1>11. PidsInUse'
  BY <1>0, <1>2, <1>3, <1>4, PidsKept
<1>. QED BY <1>9, <1>10, <1>11 DEF OrdinaryInv

\* Without a children frame there are no children left to see.
LEMMA NoKids == ~Within("children") => Kids = {}
BY DEF Within, Kids

\* The pid of the PCB to be deleted is given back.
LEMMA ClearPidStep ==
  ASSUME Before, ClearPid
  PROVE  OrdinaryInv'
<1>. DEFINE f == OnPcb("pcbDtor", Top.pcb)
            g == Frame("forgetPCB", NULL, NULL, << >>, pcb[Top.pcb].pid)
<1>0. /\ Sound /\ OneAtATime /\ FramesInOrder /\ SpacesInUse /\ Families /\ PidsInUse
      /\ current # NULL /\ Here = "clearPid"
  BY AtHere DEF Before, OrdinaryInv, ClearPid
<1>1. mmLock = NULL /\ pcbManagerLock = current
  BY <1>0 DEF OneAtATime
<1>l. Live(Top.pcb) /\ misused = FALSE
  BY <1>0 DEF Families, Deletion, OneAtATime
<1>2. /\ UNCHANGED <<tstate, tspace, sstate, pages, owner, pcb, usedPages, mmLock, pcbManagerLock, current, crashed>>
      /\ usedPids' = usedPids \ {pcb[Top.pcb].pid}
      /\ Become(<<f, g>>)
  BY DEF ClearPid, spaceVars, lockVars
<1>u. misused' = misused
  BY <1>l, Zenon DEF ClearPid, Uses, Live
<1>3. f \in FrameType /\ f.at = "pcbDtor" /\ f.pcb = Top.pcb /\ g \in FrameType /\ g.at = "forgetPCB"
  <2>1. Top \in FrameType /\ Here = Top.at
    BY <1>0, Points
  <2>2. Top.pcb \in PcbAddr
    BY <1>0, <2>1 DEF FrameType
  <2>3. pcb[Top.pcb].pid \in Pid
    BY <1>0, <2>2 DEF Sound, ObjectInv, ProcessTypeOK
  <2>. QED BY <2>2, <2>3, Frames
<1>. HIDE DEF f, g
<1>4. Moves(f, {f, g} \cup Rest)
  BY <1>0, <1>2, <1>3, NewFrames
<1>5. \A p : Within(p) <=> p = Here \/ p \in Lower(stack[current])
  BY <1>0, Points
<1>6. /\ Here' = f.at /\ Top' = f /\ Kids' = Kids
      /\ \A p : Within(p)' <=> p \in {"pcbDtor", "forgetPCB"} \/ p \in Lower(stack[current])
      /\ \A h \in Calls' : h = f \/ h = g \/ h \in Calls
  <2>1. Ats({f, g}) = {"pcbDtor", "forgetPCB"} /\ Ats(Rest) = Lower(stack[current])
    BY <1>3 DEF Ats, Lower, Rest
  <2>2. /\ \A p : Within(p)' <=> p \in Ats({f, g}) \/ p \in Ats(Rest)
        /\ Here # "children" /\ "children" \notin Ats({f, g}) => Kids' = Kids
        /\ \A h \in Calls' : h \in {f, g} \/ h \in Calls
    BY <1>0, <1>4, TopMoves
  <2>3. Here' = f.at /\ Top' = f
    BY <1>4 DEF Moves
  <2>. QED BY <1>0, <2>1, <2>2, <2>3
<1>7. (Exiting' <=> Exiting) /\ (Within("self")' <=> Within("self")) /\ Within("forgetPCB")'
  BY <1>0, <1>5, <1>6 DEF Exiting
<1>8. InOrder(f) /\ InOrder(g)
  BY <1>3 DEF InOrder
<1>9. OneAtATime' /\ FramesInOrder' /\ SpacesInUse' /\ Owners' /\ MyPcb' = MyPcb
  BY <1>0, <1>1, <1>2, <1>u, <1>3, <1>4, <1>6, <1>7, <1>8, QuietMove DEF Newborn
<1>10. Families'
  BY <1>0, <1>2, <1>3, <1>6, <1>7, <1>9, FamiliesKept DEF Deletion
<1>11. PidsInUse'
  <2>1. \A i \in usedPids' : \E b \in PcbAddr : Live(b)' /\ pcb'[b].pid = i
    BY <1>0, <1>2 DEF PidsInUse, Live
  <2>2. pcb'[Top'.pcb].pid \notin usedPids'
    BY <1>2, <1>3, <1>6
  <2>. QED BY <2>1, <2>2 DEF PidsInUse
<1>. QED BY <1>9, <1>10, <1>11 DEF OrdinaryInv

\* doExit deletes its own PCB, unless a parent will.
LEMMA SelfStep ==
  ASSUME Before, Self
  PROVE  OrdinaryInv'
<1>. DEFINE f == OnPcb("deallocatePCB", Top.pcb)
<1>0. /\ Sound /\ OneAtATime /\ FramesInOrder /\ SpacesInUse /\ Owners /\ Families /\ PidsInUse
      /\ current # NULL /\ Here = "self"
  BY AtHere DEF Before, OrdinaryInv, Self
<1>1. mmLock = NULL /\ pcbManagerLock = NULL /\ misused = FALSE
  BY <1>0 DEF OneAtATime
<1>5. \A p : Within(p) <=> p = Here \/ p \in Lower(stack[current])
  BY <1>0, Points
<1>6. Second.at = "exitSpace" /\ Lower(stack[current]) = {"exitSpace", "finish", "user"}
  BY <1>0, Points
<1>7. Exiting /\ Within("self") /\ ~Within("children")
  BY <1>0, <1>5, <1>6 DEF Exiting
<1>p. MyPcb \in PcbAddr /\ Top.pcb = MyPcb
  <2>1. Top \in Calls /\ Top.at = "self"
    BY <1>0, Points
  <2>. QED BY <1>0, <2>1, OwnThings DEF FramesInOrder, InOrder
<1>l. Live(MyPcb) /\ pcb[MyPcb].exited
  BY <1>0, <1>7 DEF Owners
<1>2. UNCHANGED <<tstate, tspace, sstate, pages, owner, pcb, usedPids, usedPages, mmLock, pcbManagerLock,
                  current, crashed>>
  BY DEF Self, spaceVars, pidVars, lockVars
<1>u. misused' = misused
  BY <1>l, <1>p, <1>1, Zenon DEF Self, Uses, Live
<1>k. Kids = {}
  BY <1>7, NoKids
<1>8. ASSUME pcb[MyPcb].parent = NULL
      PROVE  OrdinaryInv'
  <2>2. Become(<<f>>)
    BY <1>l, <1>p, <1>8 DEF Self, HasNoParent, Live
  <2>3. f \in FrameType /\ f.at = "deallocatePCB" /\ f.pcb = MyPcb
    BY <1>p, Frames
  <2>. HIDE DEF f
  <2>4. /\ Moves(f, {f} \cup Rest) /\ Here' = f.at /\ Top' = f
        /\ \A p : Within(p)' <=> p = f.at \/ p \in Lower(stack[current])
        /\ Kids' = Kids /\ \A g \in Calls' : g = f \/ g \in Calls
    BY <1>0, <1>2, <2>2, <2>3, Onward
  <2>5. Exiting' /\ ~Within("self")'
    BY <1>6, <2>3, <2>4 DEF Exiting
  <2>6. InOrder(f)
    BY <2>3 DEF InOrder
  <2>7. OneAtATime' /\ FramesInOrder' /\ SpacesInUse' /\ Owners' /\ MyPcb' = MyPcb
    BY <1>0, <1>1, <1>2, <1>u, <1>7, <2>3, <2>4, <2>5, <2>6, QuietMove DEF Newborn
  <2>8. Families'
    <3>1. \A b : Live(b)' <=> Live(b)
      BY <1>2 DEF Live
    <3>2. Here' \in Deletion /\ Top'.pcb = MyPcb'
      BY <2>3, <2>4, <2>7 DEF Deletion
    <3>3. \A b \in PcbAddr : Live(b)' /\ pcb'[b].exited /\ pcb'[b].parent = NULL =>
             Exiting' /\ b = MyPcb' /\ (Within("self")' \/ (Here' \in Deletion /\ Top'.pcb = b))
      BY <1>0, <1>2, <2>5, <2>7, <3>1, <3>2 DEF Families
    <3>4. ASSUME NEW b \in PcbAddr, Live(b), pcb[b].parent # NULL PROVE ChildOf(b, pcb[b].parent)'
      <4>1. ChildOf(b, pcb[b].parent)
        BY <1>0, <3>4 DEF Families
      <4>2. b \notin Kids /\ Here \notin Deletion
        BY <1>0, <1>k DEF Deletion
      <4>3. pcb[b].parent # b /\ Live(pcb[b].parent) /\ ~pcb[pcb[b].parent].exited
            /\ \E n \in 1 .. Len(pcb[pcb[b].parent].children) : pcb[pcb[b].parent].children[n] = b
        BY <4>1, <4>2 DEF ChildOf
      <4>. QED BY <1>2, <3>1, <4>3 DEF ChildOf
    <3>5. \A p \in PcbAddr : Live(p)' /\ ~pcb'[p].exited =>
             /\ \A m, n \in 1 .. Len(pcb'[p].children) : pcb'[p].children[m] = pcb'[p].children[n] => m = n
             /\ \A n \in 1 .. Len(pcb'[p].children) :
                  Live(pcb[p].children[n])' /\ pcb'[pcb'[p].children[n]].parent = p
      BY <1>0, <1>2, <3>1 DEF Families, Live
    <3>6. Live(Top.pcb)' /\ pcb'[Top'.pcb].exited /\ Top'.pcb \notin Kids' /\ pcb'[Top'.pcb].parent = NULL
      BY <1>2, <1>8, <1>l, <1>k, <2>3, <2>4 DEF Live
    <3>. QED BY <1>2, <2>5, <3>1, <3>2, <3>3, <3>4, <3>5, <3>6 DEF Families
  <2>9. PidsInUse'
    BY <1>0, <1>2, <2>3, <2>4, PidsKept
  <2>. QED BY <2>7, <2>8, <2>9 DEF OrdinaryInv
<1>9. ASSUME pcb[MyPcb].parent # NULL
      PROVE  OrdinaryInv'
  <2>2. Return
    BY <1>p, <1>9 DEF Self, HasNoParent
  <2>4. /\ Moves(Second, Rest) /\ Here' = Second.at
        /\ \A p : Within(p)' <=> p \in Lower(stack[current])
        /\ Kids' = Kids /\ \A g \in Calls' : g \in Calls
    BY <1>0, <1>2, <2>2, Onward
  <2>5. Exiting' /\ ~Within("self")'
    BY <1>6, <2>4 DEF Exiting
  <2>7. OneAtATime' /\ FramesInOrder' /\ SpacesInUse' /\ Owners' /\ MyPcb' = MyPcb
    BY <1>0, <1>1, <1>2, <1>u, <1>6, <1>7, <2>4, <2>5, QuietMove DEF Newborn
  <2>8. Families'
    <3>1. \A b : Live(b)' <=> Live(b)
      BY <1>2 DEF Live
    <3>2. Here' \notin Deletion
      BY <1>6, <2>4 DEF Deletion
    <3>3. \A b \in PcbAddr : ~(Live(b)' /\ pcb'[b].exited /\ pcb'[b].parent = NULL)
      BY <1>0, <1>2, <1>9, <3>1 DEF Families
    <3>4. \A b, p : ChildOf(b, p)' <=> ChildOf(b, p)
      <4>1. Here \notin Deletion
        BY <1>0 DEF Deletion
      <4>. QED BY <1>2, <1>k, <2>4, <3>1, <3>2, <4>1 DEF ChildOf
    <3>5. \A p \in PcbAddr : Live(p)' /\ ~pcb'[p].exited =>
             /\ \A m, n \in 1 .. Len(pcb'[p].children) : pcb'[p].children[m] = pcb'[p].children[n] => m = n
             /\ \A n \in 1 .. Len(pcb'[p].children) :
                  Live(pcb[p].children[n])' /\ pcb'[pcb'[p].children[n]].parent = p
      BY <1>0, <1>2, <3>1 DEF Families, Live
    <3>6. \A b \in PcbAddr : Live(b)' /\ pcb'[b].parent # NULL => ChildOf(b, pcb[b].parent)'
      BY <1>0, <1>2, <3>1, <3>4 DEF Families
    <3>. QED BY <3>2, <3>3, <3>5, <3>6 DEF Families
  <2>9. PidsInUse'
    BY <1>0, <1>2, <1>6, <2>4, PidsKept
  <2>. QED BY <2>7, <2>8, <2>9 DEF OrdinaryInv
<1>. QED BY <1>8, <1>9

\* doExec is about to delete its own space.
LEMMA doExecStep ==
  ASSUME Before, doExec
  PROVE  OrdinaryInv'
<1>0. /\ Sound /\ OneAtATime /\ FramesInOrder /\ SpacesInUse /\ Families /\ PidsInUse
      /\ current # NULL /\ Here = "user"
  BY AtHere DEF Before, OrdinaryInv, doExec, InUser
<1>1. PICK n \in ExecSize : Call(<<OnSpace("deleteSpace", Mine), Frame("load", MyPcb, NULL, << >>, n)>>)
  BY DEF doExec
<1>. DEFINE f == OnSpace("deleteSpace", Mine)
            g == Frame("load", MyPcb, NULL, << >>, n)
<1>2. /\ UNCHANGED <<tstate, tspace, sstate, pages, owner, pcb, usedPids, usedPages, mmLock, pcbManagerLock,
                     current, crashed, misused>>
      /\ Call(<<f, g>>)
  BY <1>1 DEF doExec, spaceVars, pidVars, lockVars
<1>3. /\ f \in FrameType /\ f.at = "deleteSpace" /\ f.space = Mine
      /\ g \in FrameType /\ g.at = "load" /\ g.pcb = MyPcb /\ g.n = n
  <2>1. Mine \in SpaceAddr /\ MyPcb \in PcbAddr /\ n \in Nat
    BY <1>0, OwnThings, ProcessAssumption
  <2>2. g.pcb = MyPcb /\ g.n = n
    BY DEF Frame
  <2>. QED BY <2>1, <2>2, Frames
<1>. HIDE DEF f, g
<1>4. Moves(f, {f, g} \cup Calls)
  BY <1>0, <1>2, <1>3, NewFrames
<1>5. /\ \A p : Within(p)' <=> p \in {"deleteSpace", "load"} \/ Within(p)
      /\ Kids' = Kids /\ Here' = "deleteSpace" /\ \A h \in Calls' : h \in {f, g} \/ h \in Calls
  <2>1. Ats({f, g}) = {"deleteSpace", "load"}
    BY <1>3 DEF Ats
  <2>2. Here' = f.at
    BY <1>4 DEF Moves
  <2>. QED BY <1>3, <1>4, <2>1, <2>2, PutOnTop
<1>6. \A p : Within(p) <=> p = "user"
  BY <1>0, Points
<1>7. ~Exiting /\ ~Exiting' /\ (Within("self")' <=> Within("self"))
  BY <1>5, <1>6 DEF Exiting
<1>8. mmLock = NULL /\ pcbManagerLock = NULL
  BY <1>0 DEF OneAtATime
<1>9. InOrder(f) /\ InOrder(g)
  BY <1>3 DEF InOrder
<1>10. OneAtATime' /\ FramesInOrder' /\ SpacesInUse' /\ Owners'
  BY <1>0, <1>2, <1>3, <1>4, <1>5, <1>7, <1>8, <1>9, QuietMove DEF Newborn
<1>11. Families'
  BY <1>0, <1>2, <1>5, <1>7, FamiliesKept DEF Deletion
<1>12. PidsInUse'
  BY <1>0, <1>2, <1>5, PidsKept
<1>. QED BY <1>10, <1>11, <1>12 DEF OrdinaryInv

\* A thread in user code, or not running, has nothing unfinished.
LEMMA InUserCode ==
  ASSUME Sound, FramesInOrder, Here = "user"
  PROVE  \A p : p # "user" => ~Within(p)
<1>1. CASE current = NULL
  BY <1>1 DEF Within, Calls
<1>2. CASE current # NULL
  BY <1>2, Points
<1>. QED BY <1>1, <1>2

\* Another thread is given the CPU, from user code to user code.
LEMMA Switched ==
  ASSUME Before, Here = "user", Here' = "user", \A f \in Calls' : f.at = "user",
         \A t \in ThreadAddr : tstate[t] = "ready" => stack[t][1].at = "user",
         UNCHANGED <<tstate, tspace, stack, sstate, pages, owner, pcb, usedPids, usedPages,
                     mmLock, pcbManagerLock, crashed, misused>>
  PROVE  OrdinaryInv'
<1>0. Sound /\ OneAtATime /\ FramesInOrder /\ SpacesInUse /\ Owners /\ Families /\ PidsInUse
  BY DEF Before, OrdinaryInv
<1>1. \A p : p # "user" => ~Within(p) /\ ~Within(p)'
  BY <1>0, InUserCode DEF Within
<1>2. ~Exiting /\ ~Exiting' /\ Kids = {} /\ Kids' = {}
  BY <1>1 DEF Exiting, Within, Kids
<1>3. OneAtATime'
  BY <1>0 DEF OneAtATime
<1>4. FramesInOrder'
  BY DEF FramesInOrder, InOrder
<1>5. SpacesInUse'
  <2>1. \A t \in ThreadAddr : Relic(t)' => Relic(t)
    BY RelicsKept DEF Live
  <2>. QED BY <1>0, <2>1, SpacesKept
<1>6. Owners'
  BY <1>0, <1>2, OwnersKept DEF Newborn
<1>7. Families'
  BY <1>0, <1>1, <1>2, FamiliesKept DEF Deletion
<1>8. PidsInUse'
  BY <1>0, PidsKept
<1>. QED BY <1>3, <1>4, <1>5, <1>6, <1>7, <1>8 DEF OrdinaryInv

\* Without the timer a thread gives way only in user code.
LEMMA GiveWayStep ==
  ASSUME Before, GiveWay
  PROVE  OrdinaryInv'
<1>0. Sound /\ OneAtATime /\ FramesInOrder /\ current # NULL /\ Here = "user"
  BY DEF Before, OrdinaryInv, Ordinary, GiveWay, InUser, At, me, Here
<1>1. /\ UNCHANGED <<tstate, tspace, stack, sstate, pages, owner, pcb, usedPids, usedPages,
                     mmLock, pcbManagerLock, crashed, misused>>
      /\ current' = NULL
  BY DEF GiveWay, threadVars, spaceVars, pidVars, lockVars, histVars
<1>2. Here' = "user" /\ Calls' = {}
  BY <1>1 DEF Here, Calls
<1>3. Top = stack[current][1] /\ Here = Top.at
  BY <1>0, Points
<1>4. \A t \in ThreadAddr : tstate[t] = "ready" => stack[t][1].at = "user"
  BY <1>0, <1>3 DEF OneAtATime
<1>. QED BY <1>0, <1>1, <1>2, <1>4, Switched

\* The thread that gets the CPU is in user code.
LEMMA DispatchStep ==
  ASSUME Before, Dispatch, Sound'
  PROVE  OrdinaryInv'
<1>0. Sound /\ OneAtATime /\ FramesInOrder /\ current = NULL /\ Here = "user"
  BY DEF Before, OrdinaryInv, Dispatch, me, Here
<1>1. /\ UNCHANGED <<tstate, tspace, stack, sstate, pages, owner, pcb, usedPids, usedPages,
                     mmLock, pcbManagerLock, crashed, misused>>
      /\ current' \in ThreadAddr /\ tstate[current'] = "ready"
  BY DEF Dispatch, threadVars, spaceVars, pidVars, lockVars, histVars
<1>2. \A t \in ThreadAddr : t # current
  BY <1>0, ProcessAssumption
<1>3. \A t \in ThreadAddr : tstate[t] = "ready" => stack[t][1].at = "user"
  BY <1>0, <1>2 DEF OneAtATime
<1>. DEFINE s == stack'[current']
<1>4. current' # NULL
  BY <1>1, ProcessAssumption
<1>5. Stackful(s) /\ Top' = s[1]
  <2>1. (StackInv /\ ObjectInv /\ current # NULL => Stackful(stack[current]) /\ Top = stack[current][1])'
    BY Running, PTL
  <2>. QED BY <1>4, <2>1 DEF Sound
<1>6. s[1].at = "user"
  BY <1>1, <1>3
<1>7. s \in Seq(FrameType) /\ s # << >> /\ Under(s) = {}
  BY <1>5, <1>6, LowerStep
<1>8. FramesOf(s) = {s[1]} \cup Under(s)
  BY <1>7, FewFrames
<1>9. Calls' = FramesOf(s)
  BY <1>4 DEF Calls
<1>10. Here' = "user" /\ \A f \in Calls' : f.at = "user"
  BY <1>4, <1>5, <1>6, <1>7, <1>8, <1>9 DEF Here
<1>. QED BY <1>0, <1>1, <1>3, <1>10, Switched

\* The page counts of the tables are numbers.
LEMMA Counts ==
  ASSUME Sound
  PROVE  /\ \A s \in SpaceAddr : pages[s] \subseteq Page /\ Cardinality(pages[s]) \in Nat
         /\ FreePages \subseteq Page /\ Cardinality(FreePages) \in Nat
         /\ \A s \in SpaceAddr : pages[s] # {} => Cardinality(pages[s]) > 0
<1>1. IsFiniteSet(Page)
  BY FS_Interval, ProcessAssumption DEF Page
<1>2. \A s \in SpaceAddr : pages[s] \subseteq Page
  BY DEF Sound, ObjectInv, ProcessTypeOK
<1>3. FreePages \subseteq Page
  BY DEF FreePages
<1>4. \A s \in SpaceAddr : IsFiniteSet(pages[s]) /\ Cardinality(pages[s]) \in Nat
  BY <1>1, <1>2, FS_Subset, FS_CardinalityType
<1>5. Cardinality(FreePages) \in Nat
  BY <1>1, <1>3, FS_Subset, FS_CardinalityType
<1>6. ASSUME NEW s \in SpaceAddr, pages[s] # {} PROVE Cardinality(pages[s]) > 0
  <2>1. Cardinality(pages[s]) # 0
    BY <1>4, <1>6, FS_EmptySet
  <2>. QED BY <1>4, <2>1
<1>. QED BY <1>2, <1>3, <1>4, <1>5, <1>6

\* A set of naturals has a least element.
LEMMA Least ==
  ASSUME NEW S \in SUBSET Nat, S # {}
  PROVE  \E m \in S : \A j \in S : ~(j < m)
<1>. DEFINE Less == OpToRel(<, Nat)
<1>1. \E m \in S : \A i \in S : ~(<<i, m>> \in Less)
  BY NatLessThanWellFounded, WFMin
<1>2. Less = {ss \in Nat \X Nat : ss[1] < ss[2]}
  BY Zenon DEF OpToRel
<1>. HIDE DEF Less
<1>3. \A m, i \in Nat : i < m => <<i, m>> \in Less
  BY <1>2
<1>. QED BY <1>1, <1>3

\* Find returns a page if one is wanted and one is free.
LEMMA SomeLowest ==
  ASSUME NEW n \in Nat, n > 0, n <= Cardinality(FreePages)
  PROVE  Lowest(n, FreePages) # {}
<1>1. FreePages \subseteq Nat /\ IsFiniteSet(FreePages)
  <2>1. IsFiniteSet(Page) /\ Page \subseteq Nat
    BY FS_Interval, ProcessAssumption DEF Page
  <2>. QED BY <2>1, FS_Subset DEF FreePages
<1>2. FreePages # {}
  BY FS_EmptySet
<1>3. PICK m \in FreePages : \A j \in FreePages : ~(j < m)
  BY <1>1, <1>2, Least
<1>4. {j \in FreePages : j < m} = {}
  BY <1>3
<1>5. Cardinality({j \in FreePages : j < m}) = 0
  BY <1>4, FS_EmptySet
<1>. QED BY <1>3, <1>5 DEF Lowest

\* Memory does not get short in doFork, and nobody deletes a space it is using.
LEMMA MemoryStays ==
  ASSUME Before
  PROVE  ~CopyFails /\ ~NullSpace
<1>0. Sound /\ FramesInOrder /\ SpacesInUse
  BY DEF Before, OrdinaryInv
<1>1. ASSUME CopyFails PROVE FALSE
  <2>1. current # NULL /\ Here = "copyPages" /\ Cardinality(pages[Mine]) > Cardinality(FreePages)
    BY <1>1, AtHere DEF CopyFails
  <2>2. Cardinality(pages[Mine]) <= Cardinality(FreePages)
    BY <1>0, <2>1 DEF SpacesInUse
  <2>3. Cardinality(pages[Mine]) \in Nat /\ Cardinality(FreePages) \in Nat
    BY <1>0, <2>1, OwnThings, Counts
  <2>. QED BY <2>1, <2>2, <2>3
<1>2. ASSUME NullSpace PROVE FALSE
  <2>1. current # NULL /\ Here \in {"user", "copyPages", "forkThread"} /\ SpaceGone
    BY <1>2 DEF NullSpace, Here, me
  <2>2. /\ current \in ThreadAddr /\ tstate[current] = "ready" /\ Mine \in SpaceAddr
        /\ Mine = tspace[current]
    BY <1>0, <2>1, OwnThings DEF Mine, me
  <2>3. ~Bare(current)
    BY <2>1 DEF Bare
  <2>4. pages[Mine] # {}
    BY <1>0, <2>2, <2>3 DEF SpacesInUse
  <2>. QED BY <2>1, <2>2, <2>4 DEF SpaceGone
<1>. QED BY <1>1, <1>2

\* The constructor of AddrSpace has a new object, and the lock.
LEMMA EnterCopySpaceStep ==
  ASSUME Before, EnterCopySpace
  PROVE  OrdinaryInv'
<1>0. /\ Sound /\ OneAtATime /\ FramesInOrder /\ SpacesInUse /\ Owners /\ Families /\ PidsInUse
      /\ current # NULL /\ Here = "copySpace"
  BY AtHere DEF Before, OrdinaryInv, Ordinary, EnterCopySpace
<1>1. mmLock = NULL /\ pcbManagerLock = NULL
  BY <1>0 DEF OneAtATime
<1>2. /\ UNCHANGED <<tstate, tspace, pages, owner, pcb, usedPids, usedPages, pcbManagerLock, current,
                     crashed, misused>>
      /\ mmLock' = current
      /\ \E s \in Fresh(sstate, "freed") :
           /\ sstate' = [sstate EXCEPT ![s] = "live"]
           /\ HandOutSpace(s)
           /\ Become(<<Frame("copyPages", Top.pcb, s, << >>, 0)>>)
  BY <1>1 DEF EnterCopySpace, me, pidVars
<1>3. PICK s \in Fresh(sstate, "freed") :
           /\ sstate' = [sstate EXCEPT ![s] = "live"]
           /\ HandOutSpace(s)
           /\ Become(<<Frame("copyPages", Top.pcb, s, << >>, 0)>>)
  BY <1>2
<1>4. s \in SpaceAddr /\ sstate[s] # "live" /\ sstate'[s] = "live" /\ \A x \in SpaceAddr : x # s => sstate'[x] = sstate[x]
  <2>1. sstate \in [SpaceAddr -> {"unused", "live", "freed"}]
    BY <1>0 DEF Sound, ObjectInv, ProcessTypeOK
  <2>2. s \in SpaceAddr /\ sstate[s] # "live"
    BY <1>0, <2>1 DEF Fresh
  <2>. QED BY <1>3, <2>1, <2>2
<1>. DEFINE f == Frame("copyPages", Top.pcb, s, << >>, 0)
<1>5. Top.pcb \in PcbAddr
  <2>1. Ready(stack[current]) /\ Top = stack[current][1]
    BY <1>0, Running DEF Sound
  <2>2. Top.at = "copySpace"
    BY <1>0, Points
  <2>. QED BY <2>1, <2>2 DEF Ready
<1>6. f \in FrameType /\ f.at = "copyPages" /\ f.space = s /\ f.pcb = Top.pcb
  <2>1. f.pcb = Top.pcb
    BY DEF Frame
  <2>. QED BY <1>4, <1>5, <2>1, Frames
<1>7. Become(<<f>>)
  BY <1>3
<1>. HIDE DEF f
<1>8. /\ Moves(f, {f} \cup Rest) /\ Here' = f.at /\ Top' = f
      /\ \A p : Within(p)' <=> p = f.at \/ p \in Lower(stack[current])
      /\ Kids' = Kids /\ \A g \in Calls' : g = f \/ g \in Calls
  BY <1>0, <1>2, <1>6, <1>7, Onward
<1>9. Lower(stack[current]) = {"user"} /\ \A p : Within(p) <=> p = Here \/ p \in Lower(stack[current])
  BY <1>0, Points
<1>10. ~Exiting /\ ~Exiting' /\ (Within("self")' <=> Within("self"))
  BY <1>0, <1>6, <1>8, <1>9 DEF Exiting
<1>11. Mine' = Mine /\ MyPcb' = MyPcb /\ FreePages' = FreePages /\ current' = current
  BY <1>2 DEF MyPcb, Mine, me, FreePages
<1>12. OneAtATime'
  BY <1>0, <1>1, <1>2, <1>6, <1>8, OneKept
<1>13. FramesInOrder'
  <2>1. InOrder(f)
    BY <1>6 DEF InOrder
  <2>. QED BY <1>0, <1>2, <1>6, <1>8, <1>11, <2>1, FramesKept
<1>14. SpacesInUse'
  <2>4. \A t \in ThreadAddr : ~Bare(t) /\ ~Bare(t)'
    BY <1>0, <1>6, <1>8 DEF Bare
  <2>1. \A t \in ThreadAddr : tstate[t] = "ready" \/ Relic(t) => tspace[t] # s
    <3>1. \A t \in ThreadAddr : Relic(t) => tspace[t] # s
      BY <1>3 DEF Before, NoFlaw, HandOutSpace
    <3>2. \A t \in ThreadAddr : tstate[t] = "ready" => tspace[t] # s
      BY <1>0, <1>4, <2>4 DEF SpacesInUse
    <3>. QED BY <3>1, <3>2
  <2>2. \A t \in ThreadAddr : tspace[t] # NULL => tspace[t] \in SpaceAddr
    BY <1>0 DEF Sound, ObjectInv, ProcessTypeOK
  <2>3. \A t \in ThreadAddr : (tstate[t] = "ready" \/ Relic(t)) /\ tspace[t] # NULL =>
            sstate'[tspace[t]] = sstate[tspace[t]]
    BY <1>4, <2>1, <2>2
  <2>r. \A t \in ThreadAddr : Relic(t)' => Relic(t)
    BY <1>2, RelicsKept DEF Live
  <2>5. \A t \in ThreadAddr :
         /\ Relic(t)' /\ tspace'[t] # NULL => sstate'[tspace'[t]] = "freed"
         /\ tstate'[t] = "ready" => tspace'[t] # NULL
         /\ tstate'[t] = "ready" /\ ~Bare(t)' => sstate'[tspace'[t]] = "live" /\ pages'[tspace'[t]] # {}
    BY <1>0, <1>2, <2>3, <2>4, <2>r DEF SpacesInUse
  <2>6. \A x \in SpaceAddr : pages'[x] # {} => \E t \in ThreadAddr : tstate'[t] = "ready" /\ tspace'[t] = x
    BY <1>0, <1>2 DEF SpacesInUse
  <2>7. Cardinality(pages'[Mine']) <= Cardinality(FreePages')
    BY <1>0, <1>2, <1>11 DEF SpacesInUse
  <2>8. \A t, u \in ThreadAddr :
         tstate'[t] = "ready" /\ tstate'[u] = "ready" /\ tspace'[t] = tspace'[u] => t = u
    BY <1>0, <1>2 DEF SpacesInUse
  <2>9. /\ Here' = "copyPages" /\ sstate'[Top'.space] = "live"
        /\ \A t \in ThreadAddr : tstate'[t] = "ready" => tspace'[t] # Top'.space
    BY <1>2, <1>4, <1>6, <1>8, <2>1
  <2>. QED BY <2>5, <2>6, <2>7, <2>8, <2>9 DEF SpacesInUse
<1>15. Owners'
  BY <1>0, <1>2, <1>6, <1>8, <1>10, OwnersKept DEF Newborn
<1>16. Families'
  BY <1>0, <1>2, <1>6, <1>8, <1>10, FamiliesKept DEF Deletion
<1>17. PidsInUse'
  BY <1>0, <1>2, <1>6, <1>8, PidsKept
<1>. QED BY <1>12, <1>13, <1>14, <1>15, <1>16, <1>17 DEF OrdinaryInv

\* The copy gets its pages.
LEMMA CopySpaceStep ==
  ASSUME Before, CopySpace
  PROVE  OrdinaryInv'
<1>0. /\ Sound /\ OneAtATime /\ FramesInOrder /\ SpacesInUse /\ Owners /\ Families /\ PidsInUse
      /\ current # NULL /\ Here = "copyPages"
  BY AtHere DEF Before, OrdinaryInv, CopySpace
<1>1. pcbManagerLock = NULL
  BY <1>0 DEF OneAtATime
<1>. DEFINE f == Frame("forkThread", Top.pcb, Top.space, << >>, 0)
            new == Lowest(Cardinality(pages[Mine]), FreePages)
<1>t. UNCHANGED tstate /\ mmLock' = NULL
  BY <1>0, NobodyWakes DEF CopySpace, ReleaseMm
<1>2. /\ UNCHANGED <<tspace, sstate, owner, pcb, usedPids, pcbManagerLock, current, crashed, misused>>
      /\ pages' = [pages EXCEPT ![Top.space] = new]
      /\ Become(<<f>>)
  BY DEF CopySpace, pidVars, histVars
<1>3. f \in FrameType /\ f.at = "forkThread" /\ f.space = Top.space /\ f.pcb = Top.pcb /\ Top.space \in SpaceAddr
  <2>1. Top \in FrameType /\ Top.at = "copyPages"
    BY <1>0, Points
  <2>2. Top.pcb \in PcbAddr /\ Top.space \in SpaceAddr
    BY <2>1 DEF FrameType
  <2>3. f.pcb = Top.pcb
    BY DEF Frame
  <2>. QED BY <2>2, <2>3, Frames
<1>4. new # {}
  <2>1. Mine \in SpaceAddr /\ current \in ThreadAddr /\ tstate[current] = "ready" /\ Mine = tspace[current]
    BY <1>0, OwnThings DEF Mine, me
  <2>2. ~Bare(current)
    BY <1>0 DEF Bare
  <2>3. pages[Mine] # {} /\ Cardinality(pages[Mine]) <= Cardinality(FreePages)
    BY <1>0, <2>1, <2>2 DEF SpacesInUse
  <2>4. Cardinality(pages[Mine]) \in Nat /\ Cardinality(pages[Mine]) > 0
    BY <1>0, <2>1, <2>3, Counts
  <2>. QED BY <2>3, <2>4, SomeLowest
<1>. HIDE DEF f, new
<1>5. pages'[Top.space] = new /\ \A x \in SpaceAddr : x # Top.space => pages'[x] = pages[x]
  <2>1. pages \in [SpaceAddr -> SUBSET Page]
    BY <1>0 DEF Sound, ObjectInv, ProcessTypeOK
  <2>. QED BY <1>2, <1>3, <2>1
<1>8. /\ Moves(f, {f} \cup Rest) /\ Here' = f.at /\ Top' = f
      /\ \A p : Within(p)' <=> p = f.at \/ p \in Lower(stack[current])
      /\ Kids' = Kids /\ \A g \in Calls' : g = f \/ g \in Calls
  BY <1>0, <1>2, <1>3, Onward
<1>9. Lower(stack[current]) = {"user"} /\ \A p : Within(p) <=> p = Here \/ p \in Lower(stack[current])
  BY <1>0, Points
<1>10. ~Exiting /\ ~Exiting' /\ (Within("self")' <=> Within("self"))
  BY <1>0, <1>3, <1>8, <1>9 DEF Exiting
<1>11. Mine' = Mine /\ MyPcb' = MyPcb /\ current' = current
  BY <1>2 DEF MyPcb, Mine, me
<1>12. OneAtATime'
  BY <1>0, <1>1, <1>t, <1>2, <1>3, <1>8, OneKept
<1>13. FramesInOrder'
  <2>1. InOrder(f)
    BY <1>3 DEF InOrder
  <2>. QED BY <1>0, <1>2, <1>3, <1>8, <1>11, <2>1, FramesKept
<1>14. SpacesInUse'
  <2>1. \A t \in ThreadAddr : tstate[t] = "ready" => tspace[t] # Top.space
    BY <1>0 DEF SpacesInUse
  <2>r. \A t \in ThreadAddr : Relic(t)' => Relic(t)
    BY <1>t, <1>2, RelicsKept DEF Live
  <2>2. \A t \in ThreadAddr : tspace[t] # NULL => tspace[t] \in SpaceAddr
    BY <1>0 DEF Sound, ObjectInv, ProcessTypeOK
  <2>3. \A t \in ThreadAddr : tstate[t] = "ready" /\ tspace[t] # NULL => pages'[tspace[t]] = pages[tspace[t]]
    BY <1>5, <2>1, <2>2
  <2>4. \A t \in ThreadAddr : ~Bare(t) /\ ~Bare(t)'
    BY <1>0, <1>3, <1>8 DEF Bare
  <2>5. \A t \in ThreadAddr :
         /\ Relic(t)' /\ tspace'[t] # NULL => sstate'[tspace'[t]] = "freed"
         /\ tstate'[t] = "ready" => tspace'[t] # NULL
         /\ tstate'[t] = "ready" /\ ~Bare(t)' => sstate'[tspace'[t]] = "live" /\ pages'[tspace'[t]] # {}
    BY <1>0, <1>t, <1>2, <2>3, <2>4, <2>r DEF SpacesInUse
  <2>6. \A x \in SpaceAddr : pages'[x] # {} =>
          \/ \E t \in ThreadAddr : tstate'[t] = "ready" /\ tspace'[t] = x
          \/ Here' = "forkThread" /\ Top'.space = x
    BY <1>0, <1>t, <1>2, <1>3, <1>5, <1>8 DEF SpacesInUse
  <2>8. \A t, u \in ThreadAddr :
         tstate'[t] = "ready" /\ tstate'[u] = "ready" /\ tspace'[t] = tspace'[u] => t = u
    BY <1>0, <1>t, <1>2 DEF SpacesInUse
  <2>9. /\ Here' = "forkThread" /\ sstate'[Top'.space] = "live"
        /\ \A t \in ThreadAddr : tstate'[t] = "ready" => tspace'[t] # Top'.space
        /\ pages'[Top'.space] # {}
    BY <1>0, <1>t, <1>2, <1>3, <1>4, <1>5, <1>8 DEF SpacesInUse
  <2>. QED BY <2>5, <2>6, <2>8, <2>9 DEF SpacesInUse
<1>15. Owners'
  BY <1>0, <1>t, <1>2, <1>3, <1>8, <1>10, OwnersKept DEF Newborn
<1>16. Families'
  BY <1>0, <1>2, <1>3, <1>8, <1>10, FamiliesKept DEF Deletion
<1>17. PidsInUse'
  BY <1>0, <1>2, <1>3, <1>8, PidsKept
<1>. QED BY <1>12, <1>13, <1>14, <1>15, <1>16, <1>17 DEF OrdinaryInv

\* The space that a relic left has no pages.
LEMMA RelicsHaveNone ==
  ASSUME Sound, SpacesInUse, NEW t \in ThreadAddr, Relic(t), tspace[t] \in SpaceAddr,
         Here \notin {"freeSpace", "load", "finish", "forkThread"}
  PROVE  pages[tspace[t]] = {}
<1>. SUFFICES ASSUME pages[tspace[t]] # {} PROVE FALSE
  OBVIOUS
<1>1. PICK u \in ThreadAddr : tstate[u] = "ready" /\ tspace[u] = tspace[t]
  BY DEF SpacesInUse
<1>2. ~Bare(u)
  BY DEF Bare
<1>3. sstate[tspace[t]] = "live"
  BY <1>1, <1>2 DEF SpacesInUse
<1>4. tspace[t] # NULL
  BY ProcessAssumption
<1>. QED BY <1>3, <1>4 DEF SpacesInUse

\* ~AddrSpace returns the pages of the running thread.
LEMMA DeleteSpaceStep ==
  ASSUME Before, DeleteSpace
  PROVE  OrdinaryInv'
<1>. DEFINE f == OnSpace("freeSpace", Top.space)
<1>0. /\ Sound /\ OneAtATime /\ FramesInOrder /\ SpacesInUse /\ Owners /\ Families /\ PidsInUse
      /\ current # NULL /\ Here = "freePages"
  BY AtHere DEF Before, OrdinaryInv, DeleteSpace
<1>1. pcbManagerLock = NULL
  BY <1>0 DEF OneAtATime
<1>s. /\ Top.space = Mine /\ Mine \in SpaceAddr /\ current \in ThreadAddr /\ tstate[current] = "ready"
      /\ Mine = tspace[current]
  BY <1>0, OwnThings DEF FramesInOrder, Mine, me
<1>p. pages[Mine] # {} /\ sstate[Mine] = "live"
  <2>1. ~Bare(current)
    BY <1>0 DEF Bare
  <2>. QED BY <1>0, <1>s, <2>1 DEF SpacesInUse
<1>t. UNCHANGED tstate /\ mmLock' = NULL
  BY <1>0, <1>s, <1>p, NobodyWakes DEF DeleteSpace, ReleaseMm
<1>2. /\ UNCHANGED <<tspace, sstate, owner, pcb, usedPids, pcbManagerLock, current, crashed, misused>>
      /\ pages' = [pages EXCEPT ![Mine] = {}]
      /\ Become(<<f>>)
  BY <1>s, <1>p DEF DeleteSpace, pidVars, histVars
<1>3. f \in FrameType /\ f.at = "freeSpace" /\ f.space = Mine
  BY <1>s, Frames
<1>. HIDE DEF f
<1>5. pages'[Mine] = {} /\ \A x \in SpaceAddr : x # Mine => pages'[x] = pages[x]
  <2>1. pages \in [SpaceAddr -> SUBSET Page]
    BY <1>0 DEF Sound, ObjectInv, ProcessTypeOK
  <2>. QED BY <1>2, <1>s, <2>1
<1>8. /\ Moves(f, {f} \cup Rest) /\ Here' = f.at /\ Top' = f
      /\ \A p : Within(p)' <=> p = f.at \/ p \in Lower(stack[current])
      /\ Kids' = Kids /\ \A g \in Calls' : g = f \/ g \in Calls
  BY <1>0, <1>2, <1>3, Onward
<1>9. \A p : Within(p) <=> p = Here \/ p \in Lower(stack[current])
  BY <1>0, Points
<1>10. (Exiting' <=> Exiting) /\ (Within("self")' <=> Within("self"))
  BY <1>0, <1>3, <1>8, <1>9 DEF Exiting
<1>11. Mine' = Mine /\ MyPcb' = MyPcb /\ current' = current
  BY <1>2 DEF MyPcb, Mine, me
<1>12. OneAtATime'
  BY <1>0, <1>1, <1>t, <1>2, <1>3, <1>8, OneKept
<1>13. FramesInOrder'
  <2>1. InOrder(f)
    BY <1>3 DEF InOrder
  <2>. QED BY <1>0, <1>2, <1>3, <1>8, <1>11, <2>1, FramesKept
<1>14. SpacesInUse'
  <2>1. \A t \in ThreadAddr : tstate[t] = "ready" /\ t # current => tspace[t] # Mine
    BY <1>0, <1>s DEF SpacesInUse
  <2>r. \A t \in ThreadAddr : Relic(t)' => Relic(t)
    BY <1>t, <1>2, RelicsKept DEF Live
  <2>2. \A t \in ThreadAddr : tspace[t] # NULL => tspace[t] \in SpaceAddr
    BY <1>0 DEF Sound, ObjectInv, ProcessTypeOK
  <2>3. \A t \in ThreadAddr : tstate[t] = "ready" /\ tspace[t] # NULL /\ t # current =>
            pages'[tspace[t]] = pages[tspace[t]]
    BY <1>5, <2>1, <2>2
  <2>4. \A t \in ThreadAddr : ~Bare(t) /\ (Bare(t)' <=> t = current)
    BY <1>0, <1>3, <1>8, <1>11 DEF Bare
  <2>5. \A t \in ThreadAddr :
         /\ Relic(t)' /\ tspace'[t] # NULL => sstate'[tspace'[t]] = "freed"
         /\ tstate'[t] = "ready" => tspace'[t] # NULL
         /\ tstate'[t] = "ready" /\ ~Bare(t)' => sstate'[tspace'[t]] = "live" /\ pages'[tspace'[t]] # {}
    BY <1>0, <1>t, <1>2, <2>3, <2>4, <2>r DEF SpacesInUse
  <2>6. \A x \in SpaceAddr : pages'[x] # {} => \E t \in ThreadAddr : tstate'[t] = "ready" /\ tspace'[t] = x
    BY <1>0, <1>t, <1>2, <1>5 DEF SpacesInUse
  <2>8. \A t, u \in ThreadAddr :
         tstate'[t] = "ready" /\ tstate'[u] = "ready" /\ tspace'[t] = tspace'[u] => t = u
    BY <1>0, <1>t, <1>2 DEF SpacesInUse
  <2>. QED BY <1>3, <1>8, <2>5, <2>6, <2>8 DEF SpacesInUse
<1>15. Owners'
  BY <1>0, <1>t, <1>2, <1>3, <1>8, <1>10, <1>11, OwnersKept DEF Newborn
<1>16. Families'
  BY <1>0, <1>2, <1>3, <1>8, <1>10, <1>11, FamiliesKept DEF Deletion
<1>17. PidsInUse'
  BY <1>0, <1>2, <1>3, <1>8, PidsKept
<1>. QED BY <1>12, <1>13, <1>14, <1>15, <1>16, <1>17 DEF OrdinaryInv

\* The space of the running thread is off the heap.
LEMMA FreeSpaceStep ==
  ASSUME Before, FreeSpace
  PROVE  OrdinaryInv'
<1>0. /\ Sound /\ OneAtATime /\ FramesInOrder /\ SpacesInUse /\ Owners /\ Families /\ PidsInUse
      /\ current # NULL /\ Here = "freeSpace"
  BY AtHere DEF Before, OrdinaryInv, FreeSpace
<1>1. mmLock = NULL /\ pcbManagerLock = NULL
  BY <1>0 DEF OneAtATime
<1>s. /\ Top.space = Mine /\ Mine \in SpaceAddr /\ current \in ThreadAddr /\ tstate[current] = "ready"
      /\ Mine = tspace[current]
  BY <1>0, OwnThings DEF FramesInOrder, Mine, me
<1>2. /\ UNCHANGED <<tstate, tspace, pages, owner, pcb, usedPids, mmLock, pcbManagerLock, current, crashed, misused>>
      /\ sstate' = [sstate EXCEPT ![Mine] = "freed"]
      /\ Return
  BY <1>s DEF FreeSpace, pidVars, lockVars, histVars
<1>3. Second.at \in {"load", "finish"}
  BY <1>0, Points
<1>5. sstate'[Mine] = "freed" /\ \A x \in SpaceAddr : x # Mine => sstate'[x] = sstate[x]
  <2>1. sstate \in [SpaceAddr -> {"unused", "live", "freed"}]
    BY <1>0 DEF Sound, ObjectInv, ProcessTypeOK
  <2>. QED BY <1>2, <1>s, <2>1
<1>8. /\ Moves(Second, Rest) /\ Here' = Second.at /\ Top' = Second
      /\ \A p : Within(p)' <=> p \in Lower(stack[current])
      /\ Kids' = Kids /\ \A g \in Calls' : g \in Calls
  BY <1>0, <1>2, Onward
<1>9. \A p : Within(p) <=> p = Here \/ p \in Lower(stack[current])
  BY <1>0, Points
<1>10. (Exiting' <=> Exiting) /\ (Within("self")' <=> Within("self"))
  BY <1>0, <1>8, <1>9 DEF Exiting
<1>11. Mine' = Mine /\ MyPcb' = MyPcb /\ current' = current
  BY <1>2 DEF MyPcb, Mine, me
<1>12. OneAtATime'
  BY <1>0, <1>1, <1>2, <1>3, <1>8, OneKept
<1>13. FramesInOrder'
  BY <1>0, <1>2, <1>3, <1>8, <1>11, FramesKept
<1>14. SpacesInUse'
  <2>1. \A t \in ThreadAddr : tstate[t] = "ready" /\ t # current => tspace[t] # Mine
    BY <1>0, <1>s DEF SpacesInUse
  <2>r. \A t \in ThreadAddr : Relic(t)' => Relic(t)
    BY <1>2, RelicsKept DEF Live
  <2>2. \A t \in ThreadAddr : tspace[t] # NULL => tspace[t] \in SpaceAddr
    BY <1>0 DEF Sound, ObjectInv, ProcessTypeOK
  <2>3. \A t \in ThreadAddr : tspace[t] # NULL /\ t # current =>
            /\ tstate[t] = "ready" => sstate'[tspace[t]] = sstate[tspace[t]]
            /\ sstate[tspace[t]] = "freed" => sstate'[tspace[t]] = "freed"
    BY <1>5, <2>1, <2>2
  <2>4. \A t \in ThreadAddr : (Bare(t) <=> t = current) /\ (Bare(t)' <=> t = current)
    BY <1>0, <1>3, <1>8, <1>11 DEF Bare
  <2>5. \A t \in ThreadAddr :
         /\ Relic(t)' /\ tspace'[t] # NULL => sstate'[tspace'[t]] = "freed"
         /\ tstate'[t] = "ready" => tspace'[t] # NULL
         /\ tstate'[t] = "ready" /\ ~Bare(t)' => sstate'[tspace'[t]] = "live" /\ pages'[tspace'[t]] # {}
    <3>. SUFFICES ASSUME NEW t \in ThreadAddr
                  PROVE  /\ Relic(t)' /\ tspace'[t] # NULL => sstate'[tspace'[t]] = "freed"
                         /\ tstate'[t] = "ready" => tspace'[t] # NULL
                         /\ tstate'[t] = "ready" /\ ~Bare(t)' => sstate'[tspace'[t]] = "live" /\ pages'[tspace'[t]] # {}
      OBVIOUS
    <3>1. CASE t = current
      BY <1>2, <1>s, <1>5, <2>4, <3>1, ProcessAssumption
    <3>2. CASE t # current
      BY <1>0, <1>2, <2>3, <2>4, <2>r, <3>2 DEF SpacesInUse
    <3>. QED BY <3>1, <3>2
  <2>6. \A x \in SpaceAddr : pages'[x] # {} => \E t \in ThreadAddr : tstate'[t] = "ready" /\ tspace'[t] = x
    BY <1>0, <1>2 DEF SpacesInUse
  <2>8. \A t, u \in ThreadAddr :
         tstate'[t] = "ready" /\ tstate'[u] = "ready" /\ tspace'[t] = tspace'[u] => t = u
    BY <1>0, <1>2 DEF SpacesInUse
  <2>9. Here' \in {"load", "finish"} /\ sstate'[Mine'] = "freed"
    BY <1>3, <1>5, <1>8, <1>11
  <2>. QED BY <2>5, <2>6, <2>8, <2>9 DEF SpacesInUse
<1>15. Owners'
  BY <1>0, <1>2, <1>3, <1>8, <1>10, <1>11, OwnersKept DEF Newborn
<1>16. Families'
  BY <1>0, <1>2, <1>3, <1>8, <1>10, <1>11, FamiliesKept DEF Deletion
<1>17. PidsInUse'
  BY <1>0, <1>2, <1>3, <1>8, PidsKept
<1>. QED BY <1>12, <1>13, <1>14, <1>15, <1>16, <1>17 DEF OrdinaryInv

\* A PCB is deleted by its own thread or after its thread has ended.
LEMMA NoVictimRuns ==
  ASSUME Before, current # NULL, Here = "pcbDtor"
  PROVE  /\ Top.pcb \in PcbAddr /\ ~HasPageTable(Victim(Top.pcb))
         /\ Victim(Top.pcb) # NULL => Victim(Top.pcb) \in ThreadAddr /\ tstate[Victim(Top.pcb)] = "finished"
         /\ Exiting
<1>0. Sound /\ FramesInOrder /\ SpacesInUse /\ Owners /\ Families
  BY DEF Before, OrdinaryInv
<1>1. Top \in FrameType /\ Top.at = "pcbDtor"
  BY <1>0, Points
<1>2. Top.pcb \in PcbAddr
  BY <1>1 DEF FrameType
<1>3. Exiting
  <2>1. "finish" \in Lower(stack[current]) /\ \A p : Within(p) <=> p = Here \/ p \in Lower(stack[current])
    BY <1>0, Points DEF ExitPath
  <2>. QED BY <2>1 DEF Exiting
<1>4. Live(Top.pcb) /\ pcb[Top.pcb].exited
  BY <1>0 DEF Families, Deletion
<1>5. pcb[Top.pcb].thread \in ThreadAddr \cup {NULL}
  BY <1>0, <1>2 DEF Sound, ObjectInv, ProcessTypeOK
<1>6. Victim(Top.pcb) # NULL => Victim(Top.pcb) \in ThreadAddr /\ tstate[Victim(Top.pcb)] = "finished"
  <2>1. CASE Top.pcb = MyPcb
    BY <1>0, <1>3, <1>4, <2>1 DEF Owners, Victim, me
  <2>2. CASE Top.pcb # MyPcb
    BY <1>0, <1>2, <1>4, <1>5, <2>2 DEF Owners, Victim
  <2>. QED BY <2>1, <2>2
<1>7. ~HasPageTable(Victim(Top.pcb))
  <2>. SUFFICES ASSUME HasPageTable(Victim(Top.pcb)) PROVE FALSE
    OBVIOUS
  <2>. DEFINE v == Victim(Top.pcb)
  <2>1. v # NULL /\ tspace[v] # NULL /\ pages[tspace[v]] # {}
    BY DEF HasPageTable
  <2>2. v \in ThreadAddr /\ tstate[v] = "finished" /\ pcb[Top.pcb].thread = v
    BY <1>6, <2>1 DEF Victim
  <2>. HIDE DEF v
  <2>3. tspace[v] \in SpaceAddr
    BY <1>0, <2>1, <2>2 DEF Sound, ObjectInv, ProcessTypeOK
  <2>4. Relic(v)
    BY <1>2, <1>4, <2>2 DEF Relic, Live
  <2>. QED BY <1>0, <2>1, <2>2, <2>3, <2>4, RelicsHaveNone
<1>. QED BY <1>2, <1>3, <1>6, <1>7

\* The PCB is gone; its thread, if it is another, keeps no space.
LEMMA DestroyPCBStep ==
  ASSUME Before, DestroyPCB
  PROVE  OrdinaryInv'
<1>. DEFINE b == Top.pcb
            v == Victim(b)
<1>0. /\ Sound /\ OneAtATime /\ FramesInOrder /\ SpacesInUse /\ Owners /\ Families /\ PidsInUse
      /\ current # NULL /\ Here = "pcbDtor"
  <2>1. Sound /\ OneAtATime /\ FramesInOrder /\ SpacesInUse /\ Owners /\ Families /\ PidsInUse
    BY DEF Before, OrdinaryInv
  <2>2. current # NULL /\ Here \in {"pcbFree", "pcbDtor"}
    BY AtHere DEF DestroyPCB
  <2>3. Here # "pcbFree"
    BY <2>1, <2>2, Points
  <2>. QED BY <2>1, <2>2, <2>3
<1>1. mmLock = NULL /\ pcbManagerLock = current
  BY <1>0 DEF OneAtATime
<1>b. b \in PcbAddr /\ (v # NULL => v \in ThreadAddr /\ tstate[v] = "finished") /\ Exiting
  BY <1>0, NoVictimRuns
<1>m. /\ current \in ThreadAddr /\ tstate[current] = "ready" /\ MyPcb \in PcbAddr
  BY <1>0, OwnThings
<1>2. /\ tspace' = [t \in ThreadAddr |-> IF t = v THEN NULL ELSE tspace[t]]
      /\ tstate' = [x \in ThreadAddr |-> IF x = v /\ v # me /\ tstate[v] = "ready" THEN "removed" ELSE tstate[x]]
      /\ pcb' = [pcb EXCEPT ![b].state = "freed", ![b].thread = IF v = NULL THEN @ ELSE NULL]
      /\ UNCHANGED <<sstate, pages, owner, usedPids, mmLock, pcbManagerLock, current, crashed, misused>>
      /\ Return
  BY DEF DestroyPCB, RemoveThread, spaceVars, pidVars, lockVars, histVars
<1>. HIDE DEF v
<1>3. /\ \A c \in PcbAddr : c # b => pcb'[c] = pcb[c]
      /\ pcb'[b].state = "freed"
  <2>1. pcb \in [PcbAddr -> PcbType]
    BY <1>0 DEF Sound, ObjectInv
  <2>. QED BY <1>2, <1>b, <2>1 DEF PcbType
<1>4. /\ \A t \in ThreadAddr : tstate'[t] = tstate[t]
      /\ \A t \in ThreadAddr : t # v => tspace'[t] = tspace[t]
      /\ \A t \in ThreadAddr : t = v => tspace'[t] = NULL
      /\ UNCHANGED tstate
  <2>1. \A t \in ThreadAddr : tstate'[t] = tstate[t]
    BY <1>2, <1>b, ProcessAssumption
  <2>2. tstate \in [ThreadAddr -> {"unused", "ready", "asleep", "removed", "finished"}]
    BY <1>0 DEF Sound, ObjectInv, ProcessTypeOK
  <2>3. tstate' \in [ThreadAddr -> {"unused", "ready", "asleep", "removed", "finished"}]
    BY <1>2, <2>2
  <2>4. tstate' = tstate
    BY <2>1, <2>2, <2>3
  <2>. QED BY <1>2, <2>1, <2>4
<1>v. \A t \in ThreadAddr : tstate[t] = "ready" => t # v
  BY <1>b, ProcessAssumption
<1>5. current # v
  BY <1>v, <1>m
<1>6. Mine' = Mine /\ MyPcb' = MyPcb /\ current' = current
  BY <1>2, <1>4, <1>5, <1>m DEF MyPcb, Mine, me
<1>8. /\ Moves(Second, Rest) /\ Here' = Second.at /\ Top' = Second
      /\ \A p : Within(p)' <=> p \in Lower(stack[current])
      /\ Kids' = Kids /\ \A g \in Calls' : g \in Calls
  BY <1>0, <1>2, Onward
<1>9. /\ Second.at = "forgetPCB"
      /\ \/ Lower(stack[current]) = {"forgetPCB", "exitSpace", "finish", "user"}
         \/ Lower(stack[current]) = {"forgetPCB", "children"} \cup ExitPath
      /\ \A p : Within(p) <=> p = Here \/ p \in Lower(stack[current])
  BY <1>0, Points
<1>10. (Exiting' <=> Exiting) /\ (Within("self")' <=> Within("self")) /\ Here' = "forgetPCB"
  BY <1>0, <1>8, <1>9 DEF Exiting
<1>11. ~Within("self") => Kids = {}
  <2>1. Within("children") => Within("self")
    BY <1>0, <1>9 DEF ExitPath
  <2>. QED BY <2>1, NoKids
<1>f. /\ Live(b) /\ pcb[b].exited /\ b \notin Kids
      /\ Within("self") => b # MyPcb /\ pcb[b].parent = MyPcb
      /\ ~Within("self") => b = MyPcb /\ pcb[b].parent = NULL
  BY <1>0 DEF Families, Deletion
<1>l. \A c \in PcbAddr : Live(c)' <=> Live(c) /\ c # b
  BY <1>3 DEF Live
<1>12. OneAtATime'
  BY <1>0, <1>1, <1>4, <1>2, <1>9, <1>8, OneKept
<1>13. FramesInOrder'
  <2>1. ASSUME NEW f \in Calls' PROVE InOrder(f)'
    <3>1. f \in Calls /\ InOrder(f)
      BY <1>0, <1>8, <2>1 DEF FramesInOrder
    <3>2. ASSUME f.at = "children", NEW n \in 1 .. Len(f.kids)
          PROVE  Live(f.kids[n])' /\ pcb'[f.kids[n]].parent = MyPcb' /\ f.kids[n] # MyPcb'
      <4>1. Live(f.kids[n]) /\ pcb[f.kids[n]].parent = MyPcb /\ f.kids[n] # MyPcb
        BY <3>1, <3>2 DEF InOrder
      <4>2. f \in FrameType
        BY <1>0, <3>1, Points
      <4>3. f.kids[n] \in PcbAddr
        BY <3>2, <4>2 DEF FrameType
      <4>4. f.kids[n] \in Kids
        BY <3>1, <3>2, <4>3 DEF Kids
      <4>5. f.kids[n] # b
        BY <1>f, <4>4
      <4>. QED BY <1>3, <1>6, <4>1, <4>3, <4>5 DEF Live
    <3>. QED BY <1>6, <3>1, <3>2 DEF InOrder
  <2>. QED BY <1>10, <2>1 DEF FramesInOrder
<1>14. SpacesInUse'
  <2>4. \A t \in ThreadAddr : ~Bare(t) /\ ~Bare(t)'
    BY <1>0, <1>10 DEF Bare
  <2>r. \A t \in ThreadAddr : Relic(t)' => Relic(t)
    BY <1>3, <1>4, <1>l, RelicsKept
  <2>5. \A t \in ThreadAddr :
         /\ Relic(t)' /\ tspace'[t] # NULL => sstate'[tspace'[t]] = "freed"
         /\ tstate'[t] = "ready" => tspace'[t] # NULL
         /\ tstate'[t] = "ready" /\ ~Bare(t)' => sstate'[tspace'[t]] = "live" /\ pages'[tspace'[t]] # {}
    <3>. SUFFICES ASSUME NEW t \in ThreadAddr
                  PROVE  /\ Relic(t)' /\ tspace'[t] # NULL => sstate'[tspace'[t]] = "freed"
                         /\ tstate'[t] = "ready" => tspace'[t] # NULL
                         /\ tstate'[t] = "ready" /\ ~Bare(t)' => sstate'[tspace'[t]] = "live" /\ pages'[tspace'[t]] # {}
      OBVIOUS
    <3>1. CASE t = v
      BY <1>b, <1>4, <3>1, ProcessAssumption
    <3>2. CASE t # v
      BY <1>0, <1>2, <1>4, <2>4, <2>r, <3>2 DEF SpacesInUse
    <3>. QED BY <3>1, <3>2
  <2>6. \A x \in SpaceAddr : pages'[x] # {} => \E t \in ThreadAddr : tstate'[t] = "ready" /\ tspace'[t] = x
    <3>. SUFFICES ASSUME NEW x \in SpaceAddr, pages[x] # {}
                  PROVE  \E t \in ThreadAddr : tstate'[t] = "ready" /\ tspace'[t] = x
      BY <1>2
    <3>1. PICK t \in ThreadAddr : tstate[t] = "ready" /\ tspace[t] = x
      BY <1>0 DEF SpacesInUse
    <3>2. t # v
      BY <1>v, <3>1
    <3>. QED BY <1>4, <3>1, <3>2
  <2>8. \A t, u \in ThreadAddr :
         tstate'[t] = "ready" /\ tstate'[u] = "ready" /\ tspace'[t] = tspace'[u] => t = u
    BY <1>0, <1>4, <1>v DEF SpacesInUse
  <2>. QED BY <1>10, <2>5, <2>6, <2>8 DEF SpacesInUse
<1>15. Owners'
  <2>1. ASSUME NEW t \in ThreadAddr, tstate'[t] = "ready", ~(t = current' /\ Exiting')
        PROVE  /\ Live(owner[tspace[t]])' /\ pcb'[owner'[tspace'[t]]].thread = t
               /\ ~pcb'[owner'[tspace'[t]]].exited
    <3>1. tstate[t] = "ready" /\ ~(t = current /\ Exiting) /\ t # v
      BY <1>4, <1>6, <1>10, <1>v, <2>1
    <3>2. tspace'[t] = tspace[t] /\ owner[tspace[t]] \in PcbAddr
      BY <1>0, <1>4, <3>1, OwnThings
    <3>3. Live(owner[tspace[t]]) /\ pcb[owner[tspace[t]]].thread = t /\ ~pcb[owner[tspace[t]]].exited
      BY <1>0, <3>1 DEF Owners
    <3>4. owner[tspace[t]] # b
      BY <1>f, <3>3
    <3>. QED BY <1>2, <1>3, <3>2, <3>3, <3>4 DEF Live
  <2>2. /\ Live(MyPcb)' => pcb'[MyPcb'].exited /\ pcb'[MyPcb'].thread = current'
        /\ Within("self")' => Live(MyPcb)'
    <3>1. Live(MyPcb)' => MyPcb # b
      BY <1>3, <1>6 DEF Live
    <3>2. MyPcb # b => pcb'[MyPcb'] = pcb[MyPcb]
      BY <1>3, <1>6, <1>m
    <3>3. Within("self")' => MyPcb # b
      BY <1>10, <1>f
    <3>. QED BY <1>0, <1>2, <1>b, <1>6, <1>10, <3>1, <3>2, <3>3 DEF Owners, Live
  <2>3. ASSUME NEW c \in PcbAddr, Live(c)', ~pcb'[c].exited
        PROVE  \E t \in ThreadAddr : tstate'[t] = "ready" /\ owner'[tspace'[t]] = c
    <3>1. c # b /\ Live(c) /\ ~pcb[c].exited
      BY <1>l, <1>3, <2>3
    <3>2. PICK t \in ThreadAddr : tstate[t] = "ready" /\ owner[tspace[t]] = c
      BY <1>0, <3>1 DEF Owners, Newborn
    <3>3. t # v
      BY <1>v, <3>2
    <3>. QED BY <1>2, <1>4, <3>2, <3>3
  <2>4. ASSUME NEW c \in PcbAddr, Live(c)', pcb'[c].exited
        PROVE  \/ Exiting' /\ c = MyPcb'
               \/ pcb'[c].thread # NULL /\ tstate'[pcb'[c].thread] = "finished"
    <3>1. c # b /\ Live(c) /\ pcb[c].exited
      BY <1>l, <1>3, <2>4
    <3>. QED BY <1>0, <1>3, <1>4, <1>6, <1>10, <3>1 DEF Owners
  <2>. QED BY <1>10, <2>1, <2>2, <2>3, <2>4 DEF Owners, Newborn
<1>16. Families'
  <2>1. ASSUME NEW c \in PcbAddr, Live(c)', pcb'[c].exited, pcb'[c].parent = NULL
        PROVE  Exiting' /\ c = MyPcb' /\ Within("self")'
    <3>1. c # b /\ Live(c) /\ pcb[c].exited /\ pcb[c].parent = NULL
      BY <1>l, <1>3, <2>1
    <3>. QED BY <1>0, <1>6, <1>10, <3>1 DEF Families
  <2>2. ASSUME NEW c \in PcbAddr, Live(c)', pcb'[c].parent # NULL
        PROVE  ChildOf(c, pcb[c].parent)'
    <3>1. c # b /\ Live(c) /\ pcb[c].parent # NULL /\ pcb'[c] = pcb[c]
      BY <1>l, <1>3, <2>2
    <3>2. PICK p : p = pcb[c].parent
      OBVIOUS
    <3>3. p \in PcbAddr
      BY <1>0, <3>1, <3>2 DEF Sound, ObjectInv, ProcessTypeOK
    <3>4. ChildOf(c, p)
      BY <1>0, <3>1, <3>2 DEF Families
    <3>5. /\ p # c /\ Live(p)
          /\ \/ ~pcb[p].exited /\ \E n \in 1 .. Len(pcb[p].children) : pcb[p].children[n] = c
             \/ Exiting /\ p = MyPcb /\ c \in Kids
      BY <3>1, <3>4 DEF ChildOf
    <3>6. p # b
      BY <1>11, <1>f, <3>5
    <3>7. pcb'[p] = pcb[p] /\ Live(p)'
      BY <1>3, <1>l, <3>3, <3>5, <3>6
    <3>8. ChildOf(c, p)'
      BY <1>6, <1>8, <1>10, <3>5, <3>7 DEF ChildOf
    <3>. QED BY <3>1, <3>2, <3>8, Zenon
  <2>3. ASSUME NEW p \in PcbAddr, Live(p)', ~pcb'[p].exited
        PROVE  /\ \A m, n \in 1 .. Len(pcb'[p].children) : pcb'[p].children[m] = pcb'[p].children[n] => m = n
               /\ \A n \in 1 .. Len(pcb'[p].children) :
                    Live(pcb[p].children[n])' /\ pcb'[pcb'[p].children[n]].parent = p
    <3>1. p # b /\ Live(p) /\ ~pcb[p].exited /\ pcb'[p] = pcb[p]
      BY <1>l, <1>3, <2>3
    <3>2. /\ \A m, n \in 1 .. Len(pcb[p].children) : pcb[p].children[m] = pcb[p].children[n] => m = n
          /\ \A n \in 1 .. Len(pcb[p].children) : Live(pcb[p].children[n]) /\ pcb[pcb[p].children[n]].parent = p
      BY <1>0, <3>1 DEF Families
    <3>3. pcb[b].parent # p
      <4>1. Within("self") => Live(MyPcb) /\ pcb[MyPcb].exited
        BY <1>0, <1>b DEF Owners
      <4>. QED BY <1>f, <3>1, <4>1, ProcessAssumption
    <3>4. \A n \in 1 .. Len(pcb[p].children) : pcb[p].children[n] \in PcbAddr
      BY <1>0 DEF Sound, ObjectInv, ProcessTypeOK
    <3>5. \A n \in 1 .. Len(pcb[p].children) : pcb[p].children[n] # b
      BY <3>2, <3>3
    <3>6. \A n \in 1 .. Len(pcb'[p].children) :
                    pcb'[pcb'[p].children[n]] = pcb[pcb[p].children[n]]
      BY <1>3, <3>1, <3>4, <3>5
    <3>. QED BY <3>1, <3>2, <3>6 DEF Live
  <2>. QED BY <1>10, <2>1, <2>2, <2>3 DEF Families, Deletion
<1>17. PidsInUse'
  <2>1. ASSUME NEW i \in usedPids' PROVE \E c \in PcbAddr : Live(c)' /\ pcb'[c].pid = i
    <3>1. PICK c \in PcbAddr : Live(c) /\ pcb[c].pid = i
      BY <1>0, <1>2, <2>1 DEF PidsInUse
    <3>2. c # b
      BY <1>0, <1>2, <2>1, <3>1 DEF PidsInUse
    <3>. QED BY <1>3, <1>l, <3>1, <3>2
  <2>. QED BY <1>10, <2>1 DEF PidsInUse
<1>. QED BY <1>12, <1>13, <1>14, <1>15, <1>16, <1>17 DEF OrdinaryInv

\* A thread finishes: its PCB is gone or waits for its parent.
LEMMA FinishIsOrdinary ==
  ASSUME Before, Finish
  PROVE  OrdinaryInv'
<1>0. /\ Sound /\ OneAtATime /\ FramesInOrder /\ SpacesInUse /\ Owners /\ Families /\ PidsInUse
      /\ current # NULL /\ Here = "finish"
  BY AtHere DEF Before, OrdinaryInv, Finish
<1>1. mmLock = NULL /\ pcbManagerLock = NULL
  BY <1>0 DEF OneAtATime
<1>m. /\ current \in ThreadAddr /\ tstate[current] = "ready" /\ MyPcb \in PcbAddr /\ Mine \in SpaceAddr
      /\ Mine = tspace[current] /\ MyPcb = owner[Mine]
  BY <1>0, OwnThings DEF Mine, MyPcb, me
<1>2. /\ UNCHANGED <<tspace, sstate, pages, owner, pcb, usedPids, mmLock, pcbManagerLock, crashed, misused>>
      /\ tstate' = [tstate EXCEPT ![current] = "finished"]
      /\ stack' = [stack EXCEPT ![current] = << >>]
      /\ current' = NULL
  BY DEF Finish, me, spaceVars, pidVars, lockVars, histVars
<1>3. /\ tstate'[current] = "finished"
      /\ \A t \in ThreadAddr : t # current => tstate'[t] = tstate[t]
      /\ \A t \in ThreadAddr : t # current => stack'[t] = stack[t]
      /\ \A t \in ThreadAddr : tstate'[t] = "ready" => t # current /\ tstate[t] = "ready"
  <2>1. tstate \in [ThreadAddr -> {"unused", "ready", "asleep", "removed", "finished"}]
    BY <1>0 DEF Sound, ObjectInv, ProcessTypeOK
  <2>2. stack \in [ThreadAddr -> Seq(FrameType)]
    BY <1>0 DEF Sound, StackInv
  <2>. QED BY <1>2, <1>m, <2>1, <2>2
<1>4. Here' = "user" /\ Calls' = {} /\ ~Exiting' /\ Kids' = {}
  BY <1>2 DEF Here, Calls, Exiting, Within, Kids
<1>5. Exiting /\ ~Within("self") /\ ~Within("children")
  <2>1. Lower(stack[current]) = {"user"} /\ \A p : Within(p) <=> p = Here \/ p \in Lower(stack[current])
    BY <1>0, Points
  <2>. QED BY <1>0, <2>1 DEF Exiting
<1>6. Kids = {} /\ Here \notin Deletion
  BY <1>0, <1>5, NoKids DEF Deletion
<1>l. \A c : Live(c)' <=> Live(c)
  BY <1>2 DEF Live
<1>7. pages[Mine] = {} /\ sstate[Mine] = "freed"
  <2>1. sstate[Mine] = "freed"
    BY <1>0 DEF SpacesInUse
  <2>. QED BY <1>0, <1>m, <2>1 DEF Sound, EmptyUntilFilled
<1>12. OneAtATime'
  BY <1>0, <1>1, <1>2, <1>3, <1>4, <1>m DEF OneAtATime
<1>13. FramesInOrder'
  BY <1>4 DEF FramesInOrder
<1>14. SpacesInUse'
  <2>5. \A t \in ThreadAddr :
         /\ Relic(t)' /\ tspace'[t] # NULL => sstate'[tspace'[t]] = "freed"
         /\ tstate'[t] = "ready" => tspace'[t] # NULL
         /\ tstate'[t] = "ready" /\ ~Bare(t)' => sstate'[tspace'[t]] = "live" /\ pages'[tspace'[t]] # {}
    <3>. SUFFICES ASSUME NEW t \in ThreadAddr
                  PROVE  /\ Relic(t)' /\ tspace'[t] # NULL => sstate'[tspace'[t]] = "freed"
                         /\ tstate'[t] = "ready" => tspace'[t] # NULL
                         /\ tstate'[t] = "ready" /\ ~Bare(t)' => sstate'[tspace'[t]] = "live" /\ pages'[tspace'[t]] # {}
      OBVIOUS
    <3>1. CASE t = current
      BY <1>2, <1>3, <1>m, <1>7, <3>1
    <3>2. CASE t # current
      <4>1. ~Bare(t)
        BY <3>2 DEF Bare
      <4>2. Relic(t)' => Relic(t)
        BY <1>2, <1>3, <3>2 DEF Relic
      <4>. QED BY <1>0, <1>2, <1>3, <3>2, <4>1, <4>2 DEF SpacesInUse
    <3>. QED BY <3>1, <3>2
  <2>6. \A x \in SpaceAddr : pages'[x] # {} => \E t \in ThreadAddr : tstate'[t] = "ready" /\ tspace'[t] = x
    <3>. SUFFICES ASSUME NEW x \in SpaceAddr, pages[x] # {}
                  PROVE  \E t \in ThreadAddr : tstate'[t] = "ready" /\ tspace'[t] = x
      BY <1>2
    <3>1. PICK t \in ThreadAddr : tstate[t] = "ready" /\ tspace[t] = x
      BY <1>0 DEF SpacesInUse
    <3>2. t # current
      BY <1>m, <1>7, <3>1
    <3>. QED BY <1>2, <1>3, <3>1, <3>2
  <2>8. \A t, u \in ThreadAddr :
         tstate'[t] = "ready" /\ tstate'[u] = "ready" /\ tspace'[t] = tspace'[u] => t = u
    BY <1>0, <1>2, <1>3 DEF SpacesInUse
  <2>. QED BY <1>4, <2>5, <2>6, <2>8 DEF SpacesInUse
<1>15. Owners'
  <2>1. ASSUME NEW t \in ThreadAddr, tstate'[t] = "ready"
        PROVE  /\ Live(owner[tspace[t]])' /\ pcb'[owner'[tspace'[t]]].thread = t
               /\ ~pcb'[owner'[tspace'[t]]].exited
    <3>1. tstate[t] = "ready" /\ ~(t = current /\ Exiting)
      BY <1>3, <2>1
    <3>3. Live(owner[tspace[t]]) /\ pcb[owner[tspace[t]]].thread = t /\ ~pcb[owner[tspace[t]]].exited
      BY <1>0, <3>1 DEF Owners
    <3>. QED BY <1>2, <3>3 DEF Live
  <2>3. ASSUME NEW c \in PcbAddr, Live(c)', ~pcb'[c].exited
        PROVE  \E t \in ThreadAddr : tstate'[t] = "ready" /\ owner'[tspace'[t]] = c
    <3>1. Live(c) /\ ~pcb[c].exited
      BY <1>l, <1>2, <2>3
    <3>2. PICK t \in ThreadAddr : tstate[t] = "ready" /\ owner[tspace[t]] = c
      BY <1>0, <3>1 DEF Owners, Newborn
    <3>3. t # current
      BY <1>0, <1>m, <1>5, <3>1, <3>2 DEF Owners
    <3>. QED BY <1>2, <1>3, <3>2, <3>3
  <2>4. ASSUME NEW c \in PcbAddr, Live(c)', pcb'[c].exited
        PROVE  pcb'[c].thread # NULL /\ tstate'[pcb'[c].thread] = "finished"
    <3>1. Live(c) /\ pcb[c].exited
      BY <1>l, <1>2, <2>4
    <3>2. CASE c = MyPcb
      BY <1>0, <1>2, <1>3, <1>5, <3>1, <3>2 DEF Owners
    <3>3. CASE c # MyPcb
      <4>1. pcb[c].thread # NULL /\ tstate[pcb[c].thread] = "finished"
        BY <1>0, <3>1, <3>3 DEF Owners
      <4>2. pcb[c].thread \in ThreadAddr
        BY <1>0, <4>1 DEF Sound, ObjectInv, ProcessTypeOK
      <4>. QED BY <1>2, <1>3, <1>m, <4>1, <4>2
    <3>. QED BY <3>2, <3>3
  <2>. QED BY <1>4, <2>1, <2>3, <2>4 DEF Owners, Newborn
<1>16. Families'
  <2>1. \A c \in PcbAddr : ~(Live(c)' /\ pcb'[c].exited /\ pcb'[c].parent = NULL)
    BY <1>0, <1>2, <1>l, <1>5, <1>6 DEF Families
  <2>2. ASSUME NEW c \in PcbAddr, Live(c)', pcb'[c].parent # NULL
        PROVE  ChildOf(c, pcb[c].parent)'
    <3>2. ChildOf(c, pcb[c].parent)
      BY <1>0, <1>2, <1>l, <2>2 DEF Families
    <3>. QED BY <1>2, <1>l, <1>6, <3>2 DEF ChildOf
  <2>3. \A p \in PcbAddr : Live(p)' /\ ~pcb'[p].exited =>
               /\ \A m, n \in 1 .. Len(pcb'[p].children) : pcb'[p].children[m] = pcb'[p].children[n] => m = n
               /\ \A n \in 1 .. Len(pcb'[p].children) :
                    Live(pcb[p].children[n])' /\ pcb'[pcb'[p].children[n]].parent = p
    BY <1>0, <1>2, <1>l DEF Families, Live
  <2>. QED BY <1>4, <2>1, <2>2, <2>3 DEF Families, Deletion
<1>17. PidsInUse'
  BY <1>0, <1>2, <1>4, PidsKept
<1>. QED BY <1>12, <1>13, <1>14, <1>15, <1>16, <1>17 DEF OrdinaryInv

\* doExec's new space.
LEMMA LoadStep ==
  ASSUME Before, Load
  PROVE  OrdinaryInv'
<1>0. /\ Sound /\ OneAtATime /\ FramesInOrder /\ SpacesInUse /\ Owners /\ Families /\ PidsInUse
      /\ current # NULL /\ Here = "load"
  BY AtHere DEF Before, OrdinaryInv, Ordinary, Load
<1>1. mmLock = NULL /\ pcbManagerLock = NULL
  BY <1>0 DEF OneAtATime
<1>m. /\ current \in ThreadAddr /\ tstate[current] = "ready" /\ MyPcb \in PcbAddr /\ Mine \in SpaceAddr
      /\ Mine = tspace[current] /\ MyPcb = owner[Mine]
  BY <1>0, OwnThings DEF Mine, MyPcb, me
<1>n. Top.pcb = MyPcb /\ Top.n \in Nat /\ Top.n > 0 /\ Top.n <= Cardinality(FreePages)
  <2>1. Top \in Calls /\ Top.at = "load"
    BY <1>0, Points
  <2>2. Top.pcb = MyPcb /\ Top.n \in ExecSize
    BY <1>0, <2>1 DEF FramesInOrder, InOrder
  <2>3. ExecSize \subseteq Nat \ {0}
    BY ProcessAssumption
  <2>4. Top.n \in Nat /\ Top.n # 0
    BY <2>2, <2>3
  <2>5. ~starved'
    BY DEF Before, NoFlaw
  <2>6. Top.n <= Cardinality(FreePages)
    BY <2>5 DEF Load
  <2>. QED BY <2>2, <2>4, <2>6
<1>c. Cardinality(FreePages) \in Nat
  BY <1>0, Counts
<1>. DEFINE new == Lowest(Top.n, FreePages)
<1>2. /\ UNCHANGED <<tstate, pcb, usedPids, mmLock, pcbManagerLock, current, crashed, misused>>
      /\ Return
      /\ \E s \in Fresh(sstate, "freed") :
               /\ HandOutSpace(s)
               /\ sstate' = [sstate EXCEPT ![s] = "live"]
               /\ pages' = [pages EXCEPT ![s] = new]
               /\ owner' = [owner EXCEPT ![s] = MyPcb]
               /\ tspace' = [tspace EXCEPT ![current] = s]
  <2>1. ~(Top.n > Cardinality(FreePages))
    BY <1>n, <1>c
  <2>. QED BY <1>n, <2>1 DEF Load, me, pidVars, lockVars, histVars
<1>3. new # {}
  BY <1>n, SomeLowest
<1>. HIDE DEF new
<1>4. PICK s \in Fresh(sstate, "freed") :
               /\ HandOutSpace(s)
               /\ sstate' = [sstate EXCEPT ![s] = "live"]
               /\ pages' = [pages EXCEPT ![s] = new]
               /\ owner' = [owner EXCEPT ![s] = MyPcb]
               /\ tspace' = [tspace EXCEPT ![current] = s]
  BY <1>2
<1>5. s \in SpaceAddr /\ sstate[s] # "live"
  <2>1. sstate \in [SpaceAddr -> {"unused", "live", "freed"}]
    BY <1>0 DEF Sound, ObjectInv, ProcessTypeOK
  <2>. QED BY <1>0, <2>1 DEF Fresh
<1>6. /\ sstate'[s] = "live" /\ \A x \in SpaceAddr : x # s => sstate'[x] = sstate[x]
      /\ pages'[s] = new /\ \A x \in SpaceAddr : x # s => pages'[x] = pages[x]
      /\ owner'[s] = MyPcb /\ \A x \in SpaceAddr : x # s => owner'[x] = owner[x]
      /\ tspace'[current] = s /\ \A t \in ThreadAddr : t # current => tspace'[t] = tspace[t]
  <2>1. /\ sstate \in [SpaceAddr -> {"unused", "live", "freed"}] /\ pages \in [SpaceAddr -> SUBSET Page]
        /\ owner \in [SpaceAddr -> PcbAddr \cup {NULL}] /\ tspace \in [ThreadAddr -> SpaceAddr \cup {NULL}]
    BY <1>0 DEF Sound, ObjectInv, ProcessTypeOK
  <2>. QED BY <1>4, <1>5, <1>m, <2>1
<1>7. pages[Mine] = {} /\ sstate[Mine] = "freed"
  <2>1. sstate[Mine] = "freed"
    BY <1>0 DEF SpacesInUse
  <2>. QED BY <1>0, <1>m, <2>1 DEF Sound, EmptyUntilFilled
<1>8. \A t \in ThreadAddr :
         /\ (tstate[t] = "ready" /\ t # current) \/ Relic(t) => tspace[t] # s
         /\ tspace[t] # NULL => tspace[t] \in SpaceAddr
  <2>1. \A t \in ThreadAddr : tspace[t] \in SpaceAddr \cup {NULL}
    BY <1>0 DEF Sound, ObjectInv, ProcessTypeOK
  <2>2. \A t \in ThreadAddr : Relic(t) => tspace[t] # s
    BY <1>4 DEF Before, NoFlaw, HandOutSpace
  <2>3. \A t \in ThreadAddr : tstate[t] = "ready" /\ t # current => tspace[t] # s
    BY <1>0, <1>5 DEF SpacesInUse, Bare
  <2>. QED BY <2>1, <2>2, <2>3, ProcessAssumption
<1>9. /\ Second.at = "user" /\ Lower(stack[current]) = {"user"}
      /\ \A p : Within(p) <=> p = Here \/ p \in Lower(stack[current])
  BY <1>0, Points
<1>10. /\ Moves(Second, Rest) /\ Here' = "user"
       /\ \A p : Within(p)' <=> p = "user"
       /\ Kids' = Kids /\ \A g \in Calls' : g \in Calls
  <2>1. /\ Moves(Second, Rest) /\ Here' = Second.at
        /\ \A p : Within(p)' <=> p \in Lower(stack[current])
        /\ Kids' = Kids /\ \A g \in Calls' : g \in Calls
    BY <1>0, <1>2, Onward
  <2>. QED BY <1>9, <2>1
<1>11. /\ ~Exiting /\ ~Exiting' /\ (Within("self")' <=> Within("self"))
       /\ current' = current
  BY <1>0, <1>2, <1>9, <1>10 DEF Exiting
<1>u. MyPcb' = MyPcb
  <2>1. Mine' = s
    BY <1>2, <1>6 DEF Mine, me
  <2>2. MyPcb' = owner'[Mine']
    BY DEF MyPcb
  <2>. QED BY <1>6, <2>1, <2>2
<1>12. OneAtATime'
  BY <1>0, <1>1, <1>2, <1>9, <1>10, OneKept
<1>13. FramesInOrder'
  BY <1>0, <1>2, <1>10, <1>u, FramesKept
<1>14. SpacesInUse'
  <2>4. \A t \in ThreadAddr : (Bare(t) <=> t = current) /\ ~Bare(t)'
    BY <1>0, <1>10 DEF Bare
  <2>5. \A t \in ThreadAddr :
         /\ Relic(t)' /\ tspace'[t] # NULL => sstate'[tspace'[t]] = "freed"
         /\ tstate'[t] = "ready" => tspace'[t] # NULL
         /\ tstate'[t] = "ready" /\ ~Bare(t)' => sstate'[tspace'[t]] = "live" /\ pages'[tspace'[t]] # {}
    <3>. SUFFICES ASSUME NEW t \in ThreadAddr
                  PROVE  /\ Relic(t)' /\ tspace'[t] # NULL => sstate'[tspace'[t]] = "freed"
                         /\ tstate'[t] = "ready" => tspace'[t] # NULL
                         /\ tstate'[t] = "ready" /\ ~Bare(t)' => sstate'[tspace'[t]] = "live" /\ pages'[tspace'[t]] # {}
      OBVIOUS
    <3>1. CASE t = current
      <4>1. ~Relic(t)'
        BY <1>2, <1>m, <3>1 DEF Relic
      <4>. QED BY <1>2, <1>3, <1>5, <1>6, <1>m, <3>1, <4>1, ProcessAssumption
    <3>2. CASE t # current
      <4>1. tspace'[t] = tspace[t] /\ ~Bare(t)
        BY <1>6, <2>4, <3>2
      <4>2. (tstate[t] = "ready" \/ Relic(t)) /\ tspace[t] # NULL =>
               sstate'[tspace[t]] = sstate[tspace[t]] /\ pages'[tspace[t]] = pages[tspace[t]]
        BY <1>6, <1>8, <3>2
      <4>3. Relic(t)' => Relic(t)
        BY <1>2, RelicsKept DEF Live
      <4>. QED BY <1>0, <1>2, <4>1, <4>2, <4>3 DEF SpacesInUse
    <3>. QED BY <3>1, <3>2
  <2>6. \A x \in SpaceAddr : pages'[x] # {} => \E t \in ThreadAddr : tstate'[t] = "ready" /\ tspace'[t] = x
    <3>. SUFFICES ASSUME NEW x \in SpaceAddr, pages'[x] # {}
                  PROVE  \E t \in ThreadAddr : tstate'[t] = "ready" /\ tspace'[t] = x
      OBVIOUS
    <3>1. CASE x = s
      BY <1>2, <1>6, <1>m, <3>1
    <3>2. CASE x # s
      <4>1. PICK t \in ThreadAddr : tstate[t] = "ready" /\ tspace[t] = x
        BY <1>0, <1>6, <3>2 DEF SpacesInUse
      <4>2. t # current
        BY <1>m, <1>6, <1>7, <3>2, <4>1
      <4>. QED BY <1>2, <1>6, <4>1, <4>2
    <3>. QED BY <3>1, <3>2
  <2>8. \A t, u \in ThreadAddr :
         tstate'[t] = "ready" /\ tstate'[u] = "ready" /\ tspace'[t] = tspace'[u] => t = u
    BY <1>0, <1>2, <1>6, <1>8, <1>m DEF SpacesInUse
  <2>. QED BY <1>10, <2>5, <2>6, <2>8 DEF SpacesInUse
<1>l. \A c : Live(c)' <=> Live(c)
  BY <1>2 DEF Live
<1>15. Owners'
  <2>o. ASSUME NEW t \in ThreadAddr, tstate[t] = "ready" PROVE owner'[tspace'[t]] = owner[tspace[t]]
    <3>1. CASE t = current
      BY <1>6, <1>m, <3>1
    <3>2. CASE t # current
      <4>1. tspace[t] \in SpaceAddr
        BY <1>0, <2>o, OwnThings
      <4>. QED BY <1>6, <1>8, <2>o, <3>2, <4>1
    <3>. QED BY <3>1, <3>2
  <2>1. ASSUME NEW t \in ThreadAddr, tstate'[t] = "ready"
        PROVE  /\ Live(owner[tspace[t]])' /\ pcb'[owner'[tspace'[t]]].thread = t
               /\ ~pcb'[owner'[tspace'[t]]].exited
    <3>1. tstate[t] = "ready"
      BY <1>2, <2>1
    <3>3. Live(owner[tspace[t]]) /\ pcb[owner[tspace[t]]].thread = t /\ ~pcb[owner[tspace[t]]].exited
      BY <1>0, <1>11, <3>1 DEF Owners
    <3>. QED BY <1>2, <2>o, <3>1, <3>3 DEF Live
  <2>3. ASSUME NEW c \in PcbAddr, Live(c)', ~pcb'[c].exited
        PROVE  \E t \in ThreadAddr : tstate'[t] = "ready" /\ owner'[tspace'[t]] = c
    <3>1. Live(c) /\ ~pcb[c].exited
      BY <1>l, <1>2, <2>3
    <3>2. PICK t \in ThreadAddr : tstate[t] = "ready" /\ owner[tspace[t]] = c
      BY <1>0, <3>1 DEF Owners, Newborn
    <3>. QED BY <1>2, <2>o, <3>2
  <2>4. \A c \in PcbAddr : Live(c)' /\ pcb'[c].exited =>
             pcb'[c].thread # NULL /\ tstate'[pcb'[c].thread] = "finished"
    BY <1>0, <1>2, <1>l, <1>11 DEF Owners
  <2>. QED BY <1>10, <1>11, <2>1, <2>3, <2>4 DEF Owners, Newborn
<1>16. Families'
  BY <1>0, <1>2, <1>10, <1>11, FamiliesKept DEF Deletion
<1>17. PidsInUse'
  BY <1>0, <1>2, <1>10, PidsKept
<1>. QED BY <1>12, <1>13, <1>14, <1>15, <1>16, <1>17 DEF OrdinaryInv

\* A new PCB for the child.
LEMMA AllocatePCBStep ==
  ASSUME Before, AllocatePCB
  PROVE  OrdinaryInv'
<1>0. /\ Sound /\ OneAtATime /\ FramesInOrder /\ SpacesInUse /\ Owners /\ Families /\ PidsInUse
      /\ current # NULL /\ Here = "findPid" /\ OrdinaryInv
  BY AtHere DEF Before, OrdinaryInv, Ordinary, AllocatePCB
<1>1. mmLock = NULL
  BY <1>0 DEF OneAtATime
<1>f. CASE Crash("full")
  BY <1>0, <1>f, NothingMoves DEF Crash, threadVars, spaceVars, pidVars, lockVars, histVars
<1>a. ASSUME ~Crash("full") PROVE OrdinaryInv'
  <2>1. PICK pid \in Lowest(1, FreePids), b \in Fresh(PcbState, "freed") :
            /\ pcb' = [pcb EXCEPT ![b] = NewPCB(pid)]
            /\ usedPids' = usedPids \cup {pid}
            /\ ReleasePcbs
            /\ stack' = [stack EXCEPT ![current] = <<OnPcb("copySpace", b)>> \o Tail(Tail(stack[current]))]
            /\ UNCHANGED <<tspace, sstate, pages, owner, usedPages, mmLock, current, crashed, misused>>
    <3>1. \E pid \in Lowest(1, FreePids), b \in Fresh(PcbState, "freed") :
            /\ pcb' = [pcb EXCEPT ![b] = NewPCB(pid)]
            /\ usedPids' = usedPids \cup {pid}
            /\ ReleasePcbs
            /\ stack' = [stack EXCEPT ![me] = <<OnPcb("copySpace", b)>> \o Tail(Tail(@))]
            /\ UNCHANGED <<tspace, spaceVars, usedPages, mmLock, current, crashed, histVars>>
      BY <1>a DEF AllocatePCB
    <3>. QED BY <3>1 DEF me, spaceVars, histVars
  <2>t. UNCHANGED tstate /\ pcbManagerLock' = NULL
    BY <1>0, <2>1, NobodyWakes DEF ReleasePcbs
  <2>2. b \in PcbAddr /\ pcb[b].state # "live"
    BY <1>0, <2>1 DEF Fresh, PcbState
  <2>3. /\ \A c \in PcbAddr : c # b => pcb'[c] = pcb[c]
        /\ pcb'[b] = NewPCB(pid)
    <3>1. pcb \in [PcbAddr -> PcbType]
      BY <1>0 DEF Sound, ObjectInv
    <3>. QED BY <2>1, <2>2, <3>1
  <2>4. /\ pcb'[b].state = "live" /\ pcb'[b].pid = pid /\ pcb'[b].parent = NULL /\ pcb'[b].thread = NULL
        /\ pcb'[b].exited = FALSE /\ pcb'[b].children = << >>
    BY <2>3 DEF NewPCB
  <2>l. Live(b)' /\ ~Live(b) /\ \A c \in PcbAddr : c # b => (Live(c)' <=> Live(c))
    BY <2>2, <2>3, <2>4 DEF Live
  <2>. DEFINE s == stack[current]
              u == Tail(Tail(s))
              f == OnPcb("copySpace", b)
  <2>5. f \in FrameType /\ f.at = "copySpace" /\ f.pcb = b
    BY <2>2, Frames
  <2>6. u \in Seq(FrameType) /\ u # << >> /\ u[1].at = "user" /\ FramesOf(u) = {u[1]}
    <3>1. Stackful(s) /\ s[1].at = "findPid"
      BY <1>0, Running, Points DEF Sound
    <3>2. Stackful(Tail(s)) /\ Tail(s)[1].at = "copySpace"
      BY <3>1, LowerStep DEF MayCall
    <3>3. Stackful(u) /\ MayCall(Tail(s)[1].at, u[1].at)
      BY <3>2, PopLemma
    <3>. HIDE DEF u
    <3>4. u[1].at = "user"
      BY <3>2, <3>3 DEF MayCall
    <3>5. u \in Seq(FrameType) /\ u # << >> /\ Under(u) = {}
      BY <3>3, <3>4, LowerStep
    <3>6. FramesOf(u) = {u[1]} \cup Under(u)
      BY <3>5, FewFrames
    <3>. QED BY <3>4, <3>5, <3>6
  <2>7. stack' = [stack EXCEPT ![current] = <<f>> \o u]
    BY <2>1
  <2>. HIDE DEF f, u
  <2>8. Here' = "copySpace" /\ Top' = f /\ Calls' = {f, u[1]}
    <3>1. stack'[current] = <<f>> \o u
      BY <1>0, <2>7, OtherStacks DEF Sound
    <3>2. FramesOf(<<f>> \o u) = {f} \cup {u[1]} /\ (<<f>> \o u)[1] = f
      <4>. DEFINE one == <<f>>
      <4>1. one \in Seq(FrameType) /\ one # << >> /\ one[1] = f /\ FramesOf(one) = {f}
        BY <2>5, FewFrames
      <4>. HIDE DEF one
      <4>2. FramesOf(one \o u) = FramesOf(one) \cup FramesOf(u) /\ (one \o u)[1] = one[1]
        BY <2>6, <4>1, Joined
      <4>. QED BY <2>6, <4>1, <4>2 DEF one
    <3>3. Top' = Head(stack'[current])
      BY <2>1 DEF Top, me
    <3>4. Head(<<f>> \o u) = (<<f>> \o u)[1]
      OBVIOUS
    <3>5. Here' = Top'.at /\ Calls' = FramesOf(stack'[current])
      BY <1>0, <2>1 DEF Here, Calls
    <3>. QED BY <2>5, <3>1, <3>2, <3>3, <3>4, <3>5
  <2>9. \A t \in ThreadAddr : t # current => stack'[t] = stack[t]
    BY <1>0, <2>7, OtherStacks DEF Sound
  <2>10. (\A p : Within(p)' <=> p \in {"copySpace", "user"}) /\ ~Exiting' /\ Kids' = {}
    BY <2>5, <2>6, <2>8 DEF Within, Exiting, Kids
  <2>11. ~Exiting /\ Kids = {}
    <3>1. Lower(stack[current]) = {"copySpace", "user"} /\ \A p : Within(p) <=> p = Here \/ p \in Lower(stack[current])
      BY <1>0, Points
    <3>. QED BY <1>0, <3>1, NoKids DEF Exiting
  <2>m. Mine' = Mine /\ MyPcb' = MyPcb /\ FreePages' = FreePages /\ current' = current
    BY <2>1 DEF MyPcb, Mine, me, FreePages
  <2>12. OneAtATime'
    BY <1>0, <1>1, <2>1, <2>t, <2>8, <2>9 DEF OneAtATime
  <2>13. FramesInOrder'
    BY <2>5, <2>6, <2>8 DEF FramesInOrder, InOrder
  <2>14. SpacesInUse'
    <3>1. Cardinality(pages'[Mine']) <= Cardinality(FreePages')
      BY <1>0, <2>1, <2>m DEF SpacesInUse
    <3>2. ASSUME NEW t \in ThreadAddr, Relic(t)' PROVE Relic(t)
      <4>1. t # NULL
        BY ProcessAssumption
      <4>. QED BY <2>t, <2>3, <2>4, <3>2, <4>1 DEF Relic
    <3>. QED BY <1>0, <2>1, <2>t, <2>5, <2>8, <3>1, <3>2, SpacesKept
  <2>15. Owners'
    <3>1. ASSUME NEW t \in ThreadAddr, tstate'[t] = "ready"
          PROVE  /\ Live(owner[tspace[t]])' /\ pcb'[owner'[tspace'[t]]].thread = t
                 /\ ~pcb'[owner'[tspace'[t]]].exited
      <4>1. Live(owner[tspace[t]]) /\ pcb[owner[tspace[t]]].thread = t /\ ~pcb[owner[tspace[t]]].exited
        BY <1>0, <2>t, <2>11, <3>1 DEF Owners
      <4>2. owner[tspace[t]] \in PcbAddr
        BY <1>0, <2>t, <3>1, OwnThings
      <4>. QED BY <2>1, <2>3, <2>l, <4>1, <4>2 DEF Live
    <3>3. ASSUME NEW c \in PcbAddr, Live(c)', ~pcb'[c].exited, c # b
          PROVE  \E t \in ThreadAddr : tstate'[t] = "ready" /\ owner'[tspace'[t]] = c
      BY <1>0, <2>1, <2>t, <2>3, <2>l, <3>3 DEF Owners, Newborn
    <3>4. ASSUME NEW c \in PcbAddr, Live(c)', pcb'[c].exited
          PROVE  pcb'[c].thread # NULL /\ tstate'[pcb'[c].thread] = "finished"
      <4>1. c # b /\ Live(c) /\ pcb[c].exited
        BY <2>3, <2>4, <2>l, <3>4
      <4>. QED BY <1>0, <2>t, <2>3, <2>11, <4>1 DEF Owners
    <3>5. /\ Live(Top.pcb)' /\ ~pcb'[Top'.pcb].exited /\ pcb'[Top'.pcb].parent = NULL
          /\ pcb'[Top'.pcb].thread = NULL /\ pcb'[Top'.pcb].children = << >>
      BY <2>4, <2>5, <2>8 DEF Live
    <3>6. Here' \in Newborn /\ Top'.pcb = b
      BY <2>5, <2>8 DEF Newborn
    <3>. QED BY <2>10, <3>1, <3>3, <3>4, <3>5, <3>6 DEF Owners
  <2>16. Families'
    <3>1. ASSUME NEW c \in PcbAddr, Live(c)', pcb'[c].exited, pcb'[c].parent = NULL PROVE FALSE
      <4>1. c # b /\ Live(c) /\ pcb[c].exited /\ pcb[c].parent = NULL
        BY <2>3, <2>4, <2>l, <3>1
      <4>. QED BY <1>0, <2>11, <4>1 DEF Families
    <3>2. ASSUME NEW c \in PcbAddr, Live(c)', pcb'[c].parent # NULL
          PROVE  ChildOf(c, pcb[c].parent)'
      <4>1. c # b /\ Live(c) /\ pcb[c].parent # NULL /\ pcb'[c] = pcb[c]
        BY <2>3, <2>4, <2>l, <3>2
      <4>2. PICK p : p = pcb[c].parent
        OBVIOUS
      <4>3. p \in PcbAddr
        BY <1>0, <4>1, <4>2 DEF Sound, ObjectInv, ProcessTypeOK
      <4>4. /\ p # c /\ Live(p) /\ ~pcb[p].exited
            /\ \E n \in 1 .. Len(pcb[p].children) : pcb[p].children[n] = c
        BY <1>0, <2>11, <4>1, <4>2 DEF Families, ChildOf
      <4>5. pcb'[p] = pcb[p] /\ Live(p)'
        BY <2>3, <2>l, <4>3, <4>4
      <4>6. ChildOf(c, p)'
        BY <4>4, <4>5 DEF ChildOf
      <4>. QED BY <4>1, <4>2, <4>6, Zenon
    <3>3. ASSUME NEW p \in PcbAddr, Live(p)', ~pcb'[p].exited
          PROVE  /\ \A m, n \in 1 .. Len(pcb'[p].children) : pcb'[p].children[m] = pcb'[p].children[n] => m = n
                 /\ \A n \in 1 .. Len(pcb'[p].children) :
                      Live(pcb[p].children[n])' /\ pcb'[pcb'[p].children[n]].parent = p
      <4>1. CASE p = b
        <5>1. pcb'[p].children = << >>
          BY <2>4, <4>1
        <5>2. \A n : n \notin 1 .. Len(pcb'[p].children)
          BY <5>1
        <5>. QED BY <5>2
      <4>2. CASE p # b
        <5>1. Live(p) /\ ~pcb[p].exited /\ pcb'[p] = pcb[p]
          BY <2>3, <2>l, <3>3, <4>2
        <5>2. /\ \A m, n \in 1 .. Len(pcb[p].children) : pcb[p].children[m] = pcb[p].children[n] => m = n
              /\ \A n \in 1 .. Len(pcb[p].children) : Live(pcb[p].children[n]) /\ pcb[pcb[p].children[n]].parent = p
          BY <1>0, <5>1 DEF Families
        <5>3. \A n \in 1 .. Len(pcb[p].children) : pcb[p].children[n] \in PcbAddr
          BY <1>0 DEF Sound, ObjectInv, ProcessTypeOK
        <5>4. \A n \in 1 .. Len(pcb'[p].children) :
                        pcb'[pcb'[p].children[n]] = pcb[pcb[p].children[n]]
          BY <2>3, <2>l, <5>1, <5>2, <5>3
        <5>. QED BY <5>1, <5>2, <5>4 DEF Live
      <4>. QED BY <4>1, <4>2
    <3>. QED BY <2>8, <3>1, <3>2, <3>3 DEF Families, Deletion
  <2>17. PidsInUse'
    <3>1. ASSUME NEW i \in usedPids' PROVE \E c \in PcbAddr : Live(c)' /\ pcb'[c].pid = i
      <4>1. CASE i = pid
        BY <2>2, <2>4, <2>l, <4>1
      <4>2. CASE i # pid
        <5>1. PICK c \in PcbAddr : Live(c) /\ pcb[c].pid = i
          BY <1>0, <2>1, <3>1, <4>2 DEF PidsInUse
        <5>. QED BY <2>3, <2>l, <5>1
      <4>. QED BY <4>1, <4>2
    <3>. QED BY <2>8, <3>1 DEF PidsInUse
  <2>. QED BY <2>12, <2>13, <2>14, <2>15, <2>16, <2>17 DEF OrdinaryInv
<1>. QED BY <1>f, <1>a

\* A process begins to exit; its children are all still there.
LEMMA doExitStep ==
  ASSUME Before, doExit
  PROVE  OrdinaryInv'
<1>0. /\ Sound /\ OneAtATime /\ FramesInOrder /\ SpacesInUse /\ Owners /\ Families /\ PidsInUse
      /\ current # NULL /\ Here = "user"
  BY AtHere DEF Before, OrdinaryInv, doExit, InUser
<1>1. mmLock = NULL /\ pcbManagerLock = NULL /\ misused = FALSE
  BY <1>0 DEF OneAtATime
<1>. DEFINE b == MyPcb
            f == Frame("children", b, NULL, pcb[b].children, 0)
            g == OnPcb("self", b)
            h == Plain("exitSpace")
            k == Plain("finish")
<1>m. /\ current \in ThreadAddr /\ tstate[current] = "ready" /\ b \in PcbAddr
  BY <1>0, OwnThings
<1>2. /\ UNCHANGED <<tspace, sstate, pages, owner, usedPids, usedPages, mmLock, pcbManagerLock, current, crashed>>
      /\ pcb' = [pcb EXCEPT ![b].exited = TRUE]
      /\ tstate' = [x \in ThreadAddr |-> IF x = pcb[b].thread /\ pcb[b].thread # me /\ tstate[pcb[b].thread] = "ready"
                                         THEN "removed" ELSE tstate[x]]
      /\ Call(<<f, g, h, k>>)
      /\ Uses(b)
  BY DEF doExit, StartExit, RemoveThread, spaceVars, pidVars, lockVars
<1>4. \A p : Within(p) <=> p = "user"
  BY <1>0, Points
<1>5. ~Exiting /\ Kids = {}
  BY <1>4, NoKids DEF Exiting
<1>l. Live(b) /\ pcb[b].thread = current /\ ~pcb[b].exited
  BY <1>0, <1>5, <1>m DEF Owners, MyPcb, Mine, me
<1>u. misused' = misused
  BY <1>1, <1>2, <1>l, Zenon DEF Uses, Live
<1>t. UNCHANGED tstate
  <2>1. tstate \in [ThreadAddr -> {"unused", "ready", "asleep", "removed", "finished"}]
    BY <1>0 DEF Sound, ObjectInv, ProcessTypeOK
  <2>2. tstate' = [x \in ThreadAddr |-> tstate[x]]
    BY <1>2, <1>l DEF me
  <2>. QED BY <2>1, <2>2
<1>k. /\ pcb[b].children \in Seq(PcbAddr)
      /\ \A i, j \in 1 .. Len(pcb[b].children) : pcb[b].children[i] = pcb[b].children[j] => i = j
      /\ \A i \in 1 .. Len(pcb[b].children) : pcb[b].children[i] \in PcbAddr
           /\ Live(pcb[b].children[i]) /\ pcb[pcb[b].children[i]].parent = b /\ pcb[b].children[i] # b
  <2>1. pcb[b].children \in Seq(PcbAddr)
    BY <1>0, <1>m DEF Sound, ObjectInv, ProcessTypeOK
  <2>2. /\ \A i, j \in 1 .. Len(pcb[b].children) : pcb[b].children[i] = pcb[b].children[j] => i = j
        /\ \A i \in 1 .. Len(pcb[b].children) :
             Live(pcb[b].children[i]) /\ pcb[pcb[b].children[i]].parent = b
    BY <1>0, <1>m, <1>l DEF Families
  <2>3. \A i \in 1 .. Len(pcb[b].children) : pcb[b].children[i] \in PcbAddr
    BY <2>1
  <2>4. \A i \in 1 .. Len(pcb[b].children) : pcb[b].children[i] # b
    <3>1. b # NULL
      BY <1>m, ProcessAssumption
    <3>. QED BY <1>0, <2>2, <2>3, <3>1 DEF Families, ChildOf
  <2>. QED BY <2>1, <2>2, <2>3, <2>4
<1>3. /\ f \in FrameType /\ f.at = "children" /\ f.pcb = b /\ f.kids = pcb[b].children
      /\ g \in FrameType /\ g.at = "self" /\ g.pcb = b
      /\ h \in FrameType /\ h.at = "exitSpace" /\ k \in FrameType /\ k.at = "finish"
  <2>1. f.pcb = b /\ f.kids = pcb[b].children
    BY DEF Frame
  <2>2. f \in FrameType /\ f.at = "children"
    BY <1>m, <1>k, Frames
  <2>. QED BY <1>m, <2>1, <2>2, Frames
<1>p. \A c \in PcbAddr : /\ pcb'[c].state = pcb[c].state /\ pcb'[c].pid = pcb[c].pid
                         /\ pcb'[c].parent = pcb[c].parent /\ pcb'[c].thread = pcb[c].thread
                         /\ pcb'[c].children = pcb[c].children
                         /\ pcb'[c].exited = IF c = b THEN TRUE ELSE pcb[c].exited
  <2>1. pcb \in [PcbAddr -> PcbType]
    BY <1>0 DEF Sound, ObjectInv
  <2>. QED BY <1>2, <1>m, <2>1 DEF PcbType
<1>v. \A c \in PcbAddr : Live(c)' <=> Live(c)
  BY <1>p DEF Live
<1>6. Mine' = Mine /\ MyPcb' = b /\ FreePages' = FreePages /\ current' = current
  BY <1>2 DEF MyPcb, Mine, me, FreePages
<1>. HIDE DEF f, g, h, k
<1>7. Moves(f, {f, g, h, k} \cup Calls)
  BY <1>0, <1>2, <1>3, NewFrames
<1>8. /\ \A p : Within(p)' <=> p \in {"children", "self", "exitSpace", "finish"} \/ Within(p)
      /\ Here' = "children" /\ \A x \in Calls' : x \in {f, g, h, k} \/ x \in Calls
  <2>1. Ats({f, g, h, k}) = {"children", "self", "exitSpace", "finish"}
    BY <1>3 DEF Ats
  <2>2. Here' = f.at
    BY <1>7 DEF Moves
  <2>. QED BY <1>3, <1>7, <2>1, <2>2, PutOnTop
<1>9. Exiting' /\ Within("self")'
  BY <1>8 DEF Exiting
<1>10. \A c \in PcbAddr : c \in Kids' <=> \E i \in 1 .. Len(pcb[b].children) : pcb[b].children[i] = c
  <2>1. f \in Calls'
    BY <1>7 DEF Moves
  <2>2. \A x \in Calls' : x.at = "children" => x = f
    BY <1>3, <1>4, <1>8 DEF Within
  <2>3. \A c \in PcbAddr : c \in Kids' <=> \E i \in 1 .. Len(f.kids) : f.kids[i] = c
    BY <1>3, <2>1, <2>2 DEF Kids
  <2>. QED BY <1>3, <2>3
<1>12. OneAtATime'
  BY <1>0, <1>1, <1>2, <1>u, <1>t, <1>3, <1>7, OneKept
<1>13. FramesInOrder'
  <2>1. ASSUME NEW x \in Calls' PROVE InOrder(x)'
    <3>1. CASE x = f
      <4>1. \A i \in 1 .. Len(x.kids) : Live(x.kids[i])' /\ pcb'[x.kids[i]].parent = b /\ x.kids[i] # b
        <5>. TAKE i \in 1 .. Len(x.kids)
        <5>1. PICK c \in PcbAddr : c = x.kids[i] /\ Live(c) /\ pcb[c].parent = b /\ c # b
          BY <1>3, <1>k, <3>1
        <5>2. Live(c)' /\ pcb'[c].parent = b
          BY <1>p, <1>v, <5>1
        <5>. QED BY <5>1, <5>2 DEF Live
      <4>2. \A i, j \in 1 .. Len(x.kids) : x.kids[i] = x.kids[j] => i = j
        BY <1>3, <1>k, <3>1
      <4>. QED BY <1>3, <1>6, <3>1, <4>1, <4>2 DEF InOrder
    <3>2. CASE x = g
      BY <1>3, <1>6, <3>2 DEF InOrder
    <3>3. CASE x = h \/ x = k
      BY <1>3, <3>3 DEF InOrder
    <3>4. CASE x \in Calls
      <4>1. x.at = "user"
        BY <1>4, <3>4 DEF Within
      <4>. QED BY <4>1 DEF InOrder
    <3>. QED BY <1>8, <2>1, <3>1, <3>2, <3>3, <3>4
  <2>. QED BY <1>8, <2>1 DEF FramesInOrder
<1>14. SpacesInUse'
  <2>1. \A t \in ThreadAddr : Relic(t)' => Relic(t)
    BY <1>p, <1>v, <1>t, RelicsKept
  <2>. QED BY <1>0, <1>2, <1>t, <1>8, <2>1, SpacesKept
<1>15. Owners'
  <2>1. ASSUME NEW t \in ThreadAddr, tstate'[t] = "ready", ~(t = current' /\ Exiting')
        PROVE  /\ Live(owner[tspace[t]])' /\ pcb'[owner'[tspace'[t]]].thread = t
               /\ ~pcb'[owner'[tspace'[t]]].exited
    <3>1. t # current /\ tstate[t] = "ready"
      BY <1>6, <1>9, <1>t, <2>1
    <3>2. Live(owner[tspace[t]]) /\ pcb[owner[tspace[t]]].thread = t /\ ~pcb[owner[tspace[t]]].exited
      BY <1>0, <1>5, <3>1 DEF Owners
    <3>3. owner[tspace[t]] \in PcbAddr /\ owner[tspace[t]] # b
      BY <1>0, <1>l, <3>1, <3>2, OwnThings
    <3>4. Live(owner[tspace[t]])'
      BY <1>2, <1>v, <3>2, <3>3 DEF Live
    <3>. QED BY <1>2, <1>p, <3>2, <3>3, <3>4
  <2>2. /\ Live(MyPcb)' => pcb'[MyPcb'].exited /\ pcb'[MyPcb'].thread = current'
        /\ Live(MyPcb)'
    <3>1. Live(MyPcb)'
      BY <1>6, <1>l, <1>m, <1>p DEF Live
    <3>. QED BY <1>6, <1>l, <1>m, <1>p, <3>1
  <2>3. ASSUME NEW c \in PcbAddr, Live(c)', ~pcb'[c].exited
        PROVE  \E t \in ThreadAddr : tstate'[t] = "ready" /\ owner'[tspace'[t]] = c
    <3>1. Live(c) /\ ~pcb[c].exited
      BY <1>v, <1>p, <2>3
    <3>. QED BY <1>0, <1>2, <1>t, <3>1 DEF Owners, Newborn
  <2>4. ASSUME NEW c \in PcbAddr, Live(c)', pcb'[c].exited, c # MyPcb'
        PROVE  pcb'[c].thread # NULL /\ tstate'[pcb'[c].thread] = "finished"
    <3>1. Live(c) /\ pcb[c].exited
      BY <1>v, <1>p, <1>6, <2>4
    <3>. QED BY <1>0, <1>p, <1>t, <1>5, <3>1 DEF Owners
  <2>. QED BY <1>8, <1>9, <2>1, <2>2, <2>3, <2>4 DEF Owners, Newborn
<1>16. Families'
  <2>1. ASSUME NEW c \in PcbAddr, Live(c)', pcb'[c].exited, pcb'[c].parent = NULL
        PROVE  Exiting' /\ c = MyPcb' /\ Within("self")'
    <3>1. Live(c) /\ pcb[c].parent = NULL /\ (c # b => pcb[c].exited)
      BY <1>v, <1>p, <2>1
    <3>2. c = b
      BY <1>0, <1>5, <3>1 DEF Families
    <3>. QED BY <1>6, <1>9, <3>2
  <2>2. ASSUME NEW c \in PcbAddr, Live(c)', pcb'[c].parent # NULL
        PROVE  ChildOf(c, pcb[c].parent)'
    <3>1. Live(c) /\ pcb[c].parent # NULL /\ pcb'[c].parent = pcb[c].parent
      BY <1>v, <1>p, <2>2
    <3>2. PICK p : p = pcb[c].parent
      OBVIOUS
    <3>3. p \in PcbAddr
      BY <1>0, <3>1, <3>2 DEF Sound, ObjectInv, ProcessTypeOK
    <3>4. /\ p # c /\ Live(p) /\ ~pcb[p].exited
          /\ \E n \in 1 .. Len(pcb[p].children) : pcb[p].children[n] = c
      BY <1>0, <1>5, <3>1, <3>2 DEF Families, ChildOf
    <3>5. Live(p)'
      BY <1>v, <3>3, <3>4
    <3>6. CASE p = b
      BY <1>6, <1>9, <1>10, <3>4, <3>5, <3>6, <3>1, <3>2 DEF ChildOf
    <3>7. CASE p # b
      <4>1. ChildOf(c, p)'
        BY <1>p, <3>3, <3>4, <3>5, <3>7 DEF ChildOf
      <4>. QED BY <3>1, <3>2, <4>1, Zenon
    <3>. QED BY <3>6, <3>7
  <2>3. ASSUME NEW p \in PcbAddr, Live(p)', ~pcb'[p].exited
        PROVE  /\ \A m, n \in 1 .. Len(pcb'[p].children) : pcb'[p].children[m] = pcb'[p].children[n] => m = n
               /\ \A n \in 1 .. Len(pcb'[p].children) :
                    Live(pcb[p].children[n])' /\ pcb'[pcb'[p].children[n]].parent = p
    <3>1. Live(p) /\ ~pcb[p].exited /\ pcb'[p].children = pcb[p].children
      BY <1>v, <1>p, <2>3
    <3>2. /\ \A m, n \in 1 .. Len(pcb[p].children) : pcb[p].children[m] = pcb[p].children[n] => m = n
          /\ \A n \in 1 .. Len(pcb[p].children) : Live(pcb[p].children[n]) /\ pcb[pcb[p].children[n]].parent = p
      BY <1>0, <3>1 DEF Families
    <3>3. \A n \in 1 .. Len(pcb[p].children) : pcb[p].children[n] \in PcbAddr
      BY <1>0 DEF Sound, ObjectInv, ProcessTypeOK
    <3>4. \A n \in 1 .. Len(pcb'[p].children) : /\ pcb'[pcb'[p].children[n]].state = "live"
                                                /\ pcb'[pcb'[p].children[n]].parent = p
      <4>. TAKE n \in 1 .. Len(pcb'[p].children)
      <4>1. PICK c \in PcbAddr : c = pcb[p].children[n] /\ Live(c) /\ pcb[c].parent = p
        BY <3>1, <3>2, <3>3
      <4>2. pcb'[p].children[n] = c
        BY <3>1, <4>1
      <4>3. pcb'[c].state = "live" /\ pcb'[c].parent = p
        BY <1>p, <4>1 DEF Live
      <4>. QED BY <4>2, <4>3
    <3>. QED BY <3>1, <3>2, <3>4 DEF Live
  <2>. QED BY <1>8, <2>1, <2>2, <2>3 DEF Families, Deletion
<1>17. PidsInUse'
  BY <1>0, <1>2, <1>p, <1>v, <1>8 DEF PidsInUse
<1>. QED BY <1>12, <1>13, <1>14, <1>15, <1>16, <1>17 DEF OrdinaryInv

\* What decspn finds: the child it is at is there and nobody else's.
LEMMA FirstChild ==
  ASSUME Before, current # NULL, Here = "children", Top.kids # << >>
  PROVE  /\ MyPcb \in PcbAddr /\ Live(MyPcb) /\ pcb[MyPcb].exited /\ Top.pcb = MyPcb
         /\ Exiting /\ Within("self") /\ Lower(stack[current]) = ExitPath
         /\ Top \in FrameType /\ Top.kids \in Seq(PcbAddr) /\ Tail(Top.kids) \in Seq(PcbAddr)
         /\ Head(Top.kids) \in PcbAddr /\ Live(Head(Top.kids)) /\ Head(Top.kids) # MyPcb
         /\ pcb[Head(Top.kids)].parent = MyPcb
         /\ \A m, n \in 1 .. Len(Tail(Top.kids)) : Tail(Top.kids)[m] = Tail(Top.kids)[n] => m = n
         /\ \A n \in 1 .. Len(Tail(Top.kids)) :
              /\ Tail(Top.kids)[n] \in PcbAddr /\ Tail(Top.kids)[n] # Head(Top.kids)
              /\ Live(Tail(Top.kids)[n]) /\ pcb[Tail(Top.kids)[n]].parent = MyPcb /\ Tail(Top.kids)[n] # MyPcb
         /\ \A c \in PcbAddr : c \in Kids <=>
              c = Head(Top.kids) \/ \E n \in 1 .. Len(Tail(Top.kids)) : Tail(Top.kids)[n] = c
<1>. DEFINE s == Top.kids
            r == Tail(s)
<1>0. Sound /\ FramesInOrder /\ SpacesInUse /\ Owners
  BY DEF Before, OrdinaryInv
<1>1. Top \in FrameType /\ Top.at = "children" /\ Top \in Calls /\ Calls = {Top} \cup Rest
  BY <1>0, Points
<1>2. /\ Lower(stack[current]) = ExitPath /\ \A p : Within(p) <=> p = Here \/ p \in Lower(stack[current])
  BY <1>0, Points
<1>3. Exiting /\ Within("self")
  BY <1>2 DEF Exiting, ExitPath
<1>4. MyPcb \in PcbAddr /\ Live(MyPcb) /\ pcb[MyPcb].exited
  BY <1>0, <1>3, OwnThings DEF Owners
<1>5. /\ Top.pcb = MyPcb
      /\ \A m, n \in 1 .. Len(s) : s[m] = s[n] => m = n
      /\ \A n \in 1 .. Len(s) : Live(s[n]) /\ pcb[s[n]].parent = MyPcb /\ s[n] # MyPcb
  BY <1>0, <1>1 DEF FramesInOrder, InOrder
<1>6. s \in Seq(PcbAddr)
  BY <1>1 DEF FrameType
<1>. HIDE DEF s
<1>7. /\ r \in Seq(PcbAddr) /\ Len(s) \in Nat /\ Len(r) = Len(s) - 1 /\ Len(s) > 0 /\ Head(s) = s[1]
      /\ \A n \in 1 .. Len(r) : r[n] = s[n + 1] /\ n + 1 \in 1 .. Len(s) /\ r[n] \in PcbAddr
  <2>1. s # << >>
    BY DEF s
  <2>. QED BY <1>6, <2>1
<1>. HIDE DEF r
<1>8. 1 \in 1 .. Len(s) /\ s[1] \in PcbAddr
  BY <1>6, <1>7
<1>9. \A m, n \in 1 .. Len(r) : r[m] = r[n] => m = n
  BY <1>5, <1>7
<1>10. \A n \in 1 .. Len(r) : r[n] # s[1] /\ Live(r[n]) /\ pcb[r[n]].parent = MyPcb /\ r[n] # MyPcb
  <2>. TAKE n \in 1 .. Len(r)
  <2>1. r[n] = s[n + 1] /\ n + 1 \in 1 .. Len(s) /\ n + 1 # 1
    BY <1>7
  <2>. QED BY <1>5, <1>8, <2>1
<1>11. ASSUME NEW c \in PcbAddr
       PROVE  c \in Kids <=> c = s[1] \/ \E n \in 1 .. Len(r) : r[n] = c
  <2>1. \A x \in Rest : x.at # "children"
    BY <1>2 DEF Lower, Ats, Rest, ExitPath
  <2>2. c \in Kids <=> \E n \in 1 .. Len(s) : s[n] = c
    BY <1>1, <2>1 DEF Kids, s
  <2>3. ASSUME NEW n \in 1 .. Len(s), s[n] = c PROVE c = s[1] \/ \E i \in 1 .. Len(r) : r[i] = c
    <3>1. CASE n = 1
      BY <2>3, <3>1
    <3>2. CASE n # 1
      <4>1. n - 1 \in 1 .. Len(r) /\ (n - 1) + 1 = n
        BY <1>7, <3>2
      <4>2. r[n - 1] = c
        BY <1>7, <2>3, <4>1
      <4>. QED BY <4>1, <4>2
    <3>. QED BY <3>1, <3>2
  <2>4. ASSUME NEW i \in 1 .. Len(r), r[i] = c PROVE \E n \in 1 .. Len(s) : s[n] = c
    BY <1>7, <2>4
  <2>. QED BY <1>8, <2>2, <2>3, <2>4
<1>12. /\ Head(s) \in PcbAddr /\ Live(Head(s)) /\ Head(s) # MyPcb /\ pcb[Head(s)].parent = MyPcb
  BY <1>5, <1>7, <1>8
<1>13. /\ \A n \in 1 .. Len(r) :
            /\ r[n] \in PcbAddr /\ r[n] # Head(s)
            /\ Live(r[n]) /\ pcb[r[n]].parent = MyPcb /\ r[n] # MyPcb
       /\ \A c \in PcbAddr : c \in Kids <=> c = Head(s) \/ \E n \in 1 .. Len(r) : r[n] = c
  BY <1>7, <1>10, <1>11
<1>14. Top.pcb = MyPcb
  BY <1>5
<1>. QED BY <1>1, <1>2, <1>3, <1>4, <1>6, <1>7, <1>9, <1>12, <1>13, <1>14 DEF s, r

\* doExit deletes an exited child, and leaves another without a parent.
LEMMA ChildStep ==
  ASSUME Before, Child
  PROVE  OrdinaryInv'
<1>. DEFINE c == Head(Top.kids)
            r == Tail(Top.kids)
            f == OnPcb("deallocatePCB", c)
            g == Frame("children", Top.pcb, NULL, r, 0)
<1>0. /\ Sound /\ OneAtATime /\ FramesInOrder /\ SpacesInUse /\ Owners /\ Families /\ PidsInUse
      /\ current # NULL /\ Here = "children" /\ Top.kids # << >>
  BY AtHere DEF Before, OrdinaryInv, Child
<1>1. mmLock = NULL /\ pcbManagerLock = NULL
  BY <1>0 DEF OneAtATime
<1>k. /\ MyPcb \in PcbAddr /\ Live(MyPcb) /\ pcb[MyPcb].exited /\ Top.pcb = MyPcb
      /\ Exiting /\ Within("self") /\ Lower(stack[current]) = ExitPath
      /\ r \in Seq(PcbAddr) /\ c \in PcbAddr /\ Live(c) /\ c # MyPcb /\ pcb[c].parent = MyPcb
      /\ \A m, n \in 1 .. Len(r) : r[m] = r[n] => m = n
      /\ \A n \in 1 .. Len(r) : /\ r[n] \in PcbAddr /\ r[n] # c
                                /\ Live(r[n]) /\ pcb[r[n]].parent = MyPcb /\ r[n] # MyPcb
      /\ \A x \in PcbAddr : x \in Kids <=> x = c \/ \E n \in 1 .. Len(r) : r[n] = x
  BY <1>0, FirstChild
<1>2. /\ UNCHANGED <<tstate, tspace, sstate, pages, owner, usedPids, usedPages, mmLock, pcbManagerLock, current,
                     crashed, misused>>
      /\ \/ pcb[c].exited /\ Become(<<f, g>>) /\ UNCHANGED pcb
         \/ ~pcb[c].exited /\ Become(<<g>>) /\ pcb' = [pcb EXCEPT ![c].parent = NULL]
  BY DEF Child, HasExited, spaceVars, pidVars, lockVars, histVars
<1>3. /\ f \in FrameType /\ f.at = "deallocatePCB" /\ f.pcb = c
      /\ g \in FrameType /\ g.at = "children" /\ g.pcb = MyPcb /\ g.kids = r
  <2>0. g.pcb = Top.pcb /\ g.kids = r
    BY DEF Frame
  <2>1. g.pcb = MyPcb /\ g.kids = r
    BY <1>k, <2>0
  <2>2. g \in FrameType /\ g.at = "children"
    <3>1. Top.pcb \in PcbAddr /\ r \in Seq(PcbAddr)
      BY <1>k
    <3>. HIDE DEF r
    <3>. QED BY <3>1, Frames
  <2>3. c \in PcbAddr
    BY <1>k
  <2>4. f \in FrameType /\ f.at = "deallocatePCB" /\ f.pcb = c
    BY <2>3, Frames
  <2>. QED BY <2>1, <2>2, <2>4
<1>. HIDE DEF c, r, f, g
<1>4. InOrder(f) /\ InOrder(g)
  BY <1>3, <1>k DEF InOrder
<1>5. \A p : Within(p) <=> p = Here \/ p \in Lower(stack[current])
  BY <1>0, Points
<1>6. \A x \in Rest : x.at # "children"
  BY <1>k DEF Lower, Ats, Rest, ExitPath
<1>7. MyPcb' = MyPcb /\ current' = current
  BY <1>2 DEF MyPcb, Mine, me
<1>e. ASSUME pcb[c].exited PROVE OrdinaryInv'
  <2>1. Become(<<f, g>>) /\ UNCHANGED pcb
    BY <1>2, <1>e
  <2>2. Moves(f, {f, g} \cup Rest)
    BY <1>0, <1>2, <1>3, <2>1, NewFrames
  <2>3. /\ Here' = "deallocatePCB" /\ Top' = f
        /\ \A p : Within(p)' <=> p \in {"deallocatePCB", "children"} \/ p \in ExitPath
        /\ \A h \in Calls' : h = f \/ h = g \/ h \in Calls
    <3>1. Ats({f, g}) = {"deallocatePCB", "children"} /\ Ats(Rest) = ExitPath
      BY <1>3, <1>k DEF Ats, Lower, Rest
    <3>2. /\ \A p : Within(p)' <=> p \in Ats({f, g}) \/ p \in Ats(Rest)
          /\ \A h \in Calls' : h \in {f, g} \/ h \in Calls
      BY <1>0, <2>2, TopMoves
    <3>3. Here' = f.at /\ Top' = f
      BY <2>2 DEF Moves
    <3>. QED BY <1>3, <3>1, <3>2, <3>3
  <2>4. Exiting' /\ Within("self")'
    BY <2>3 DEF Exiting, ExitPath
  <2>5. \A x \in PcbAddr : x \in Kids' <=> \E n \in 1 .. Len(r) : r[n] = x
    <3>1. \A h : h \in Calls' <=> h = f \/ h = g \/ h \in Rest
      BY <2>2 DEF Moves
    <3>2. \A x \in PcbAddr : x \in Kids' <=> \E n \in 1 .. Len(g.kids) : g.kids[n] = x
      BY <1>3, <1>6, <3>1 DEF Kids
    <3>. QED BY <1>3, <3>2
  <2>6. OneAtATime' /\ FramesInOrder' /\ SpacesInUse' /\ Owners'
    <3>1. \A h \in Calls' : h \in Calls \/ InOrder(h)
      BY <1>4, <2>3
    <3>. QED BY <1>0, <1>1, <1>2, <1>3, <1>k, <2>1, <2>2, <2>4, <3>1, QuietMove DEF Newborn
  <2>v. \A b : Live(b)' <=> Live(b)
    BY <2>1 DEF Live
  <2>7. Families'
    <3>1. \A b \in PcbAddr : Live(b)' /\ pcb'[b].exited /\ pcb'[b].parent = NULL =>
             Exiting' /\ b = MyPcb' /\ Within("self")'
      BY <1>0, <1>7, <2>1, <2>4, <2>v DEF Families
    <3>2. ASSUME NEW b \in PcbAddr, Live(b), pcb[b].parent # NULL PROVE ChildOf(b, pcb[b].parent)'
      <4>1. ChildOf(b, pcb[b].parent)
        BY <1>0, <3>2 DEF Families
      <4>2. b \in Kids => b \in Kids' \/ b = c
        BY <1>k, <2>5
      <4>3. Here' \in Deletion /\ Top'.pcb = c /\ Here \notin Deletion
        BY <1>0, <1>3, <2>3 DEF Deletion
      <4>. QED BY <1>7, <2>1, <2>4, <2>v, <4>1, <4>2, <4>3 DEF ChildOf
    <3>3. \A p \in PcbAddr : Live(p)' /\ ~pcb'[p].exited =>
             /\ \A m, n \in 1 .. Len(pcb'[p].children) : pcb'[p].children[m] = pcb'[p].children[n] => m = n
             /\ \A n \in 1 .. Len(pcb'[p].children) :
                  Live(pcb[p].children[n])' /\ pcb'[pcb'[p].children[n]].parent = p
      BY <1>0, <2>1, <2>v DEF Families, Live
    <3>4. /\ Live(Top.pcb)' /\ pcb'[Top'.pcb].exited /\ Top'.pcb \notin Kids'
          /\ Top'.pcb # MyPcb' /\ pcb'[Top'.pcb].parent = MyPcb'
      <4>1. Top'.pcb = c
        BY <1>3, <2>3
      <4>2. c \notin Kids'
        BY <1>k, <2>5
      <4>. QED BY <1>e, <1>k, <1>7, <2>1, <4>1, <4>2 DEF Live
    <3>. QED BY <2>1, <2>4, <2>v, <3>1, <3>2, <3>3, <3>4 DEF Families
  <2>8. PidsInUse'
    BY <1>0, <1>2, <2>1, <2>3, PidsKept
  <2>. QED BY <2>6, <2>7, <2>8 DEF OrdinaryInv
<1>n. ASSUME ~pcb[c].exited PROVE OrdinaryInv'
  <2>1. Become(<<g>>) /\ pcb' = [pcb EXCEPT ![c].parent = NULL]
    BY <1>2, <1>n
  <2>p. \A b \in PcbAddr : /\ pcb'[b].state = pcb[b].state /\ pcb'[b].pid = pcb[b].pid
                           /\ pcb'[b].exited = pcb[b].exited /\ pcb'[b].thread = pcb[b].thread
                           /\ pcb'[b].children = pcb[b].children
                           /\ pcb'[b].parent = IF b = c THEN NULL ELSE pcb[b].parent
    <3>1. pcb \in [PcbAddr -> PcbType]
      BY <1>0 DEF Sound, ObjectInv
    <3>. QED BY <1>k, <2>1, <3>1 DEF PcbType
  <2>v. \A b \in PcbAddr : Live(b)' <=> Live(b)
    BY <2>p DEF Live
  <2>2. Moves(g, {g} \cup Rest) /\ Here' = "children"
        /\ \A h \in Calls' : h = g \/ h \in Rest
    <3>1. Moves(g, {g} \cup Rest)
      BY <1>0, <1>2, <1>3, <2>1, NewFrames
    <3>. QED BY <1>3, <3>1 DEF Moves
  <2>3. \A p : Within(p)' <=> p = "children" \/ p \in ExitPath
    <3>1. Ats({g}) = {"children"} /\ Ats(Rest) = ExitPath
      BY <1>3, <1>k DEF Ats, Lower, Rest
    <3>2. \A p : Within(p)' <=> p \in Ats({g}) \/ p \in Ats(Rest)
      BY <1>0, <2>2, TopMoves
    <3>. QED BY <3>1, <3>2
  <2>4. Exiting' /\ Within("self")'
    BY <2>3 DEF Exiting, ExitPath
  <2>5. \A x \in PcbAddr : x \in Kids' <=> \E n \in 1 .. Len(r) : r[n] = x
    <3>1. \A h : h \in Calls' <=> h = g \/ h \in Rest
      BY <2>2 DEF Moves
    <3>2. \A x \in PcbAddr : x \in Kids' <=> \E n \in 1 .. Len(g.kids) : g.kids[n] = x
      BY <1>3, <1>6, <3>1 DEF Kids
    <3>. QED BY <1>3, <3>2
  <2>6. OneAtATime'
    BY <1>0, <1>1, <1>2, <1>3, <2>2, OneKept
  <2>7. FramesInOrder'
    <3>1. ASSUME NEW h, h = g PROVE InOrder(h)'
      <4>1. \A n \in 1 .. Len(h.kids) : Live(h.kids[n])' /\ pcb'[h.kids[n]].parent = MyPcb /\ h.kids[n] # MyPcb
        <5>. TAKE n \in 1 .. Len(h.kids)
        <5>1. PICK x \in PcbAddr : x = h.kids[n] /\ x # c /\ Live(x) /\ pcb[x].parent = MyPcb /\ x # MyPcb
          BY <1>3, <1>k, <3>1
        <5>2. Live(x)' /\ pcb'[x].parent = MyPcb
          BY <2>p, <2>v, <5>1
        <5>. QED BY <5>1, <5>2 DEF Live
      <4>2. \A m, n \in 1 .. Len(h.kids) : h.kids[m] = h.kids[n] => m = n
        BY <1>3, <1>k, <3>1
      <4>. QED BY <1>3, <1>7, <3>1, <4>1, <4>2 DEF InOrder
    <3>2. ASSUME NEW h \in Rest PROVE InOrder(h)'
      <4>1. h \in Calls
        BY <1>0, <3>2, Points
      <4>2. InOrder(h)
        BY <1>0, <4>1 DEF FramesInOrder
      <4>. QED BY <1>6, <1>7, <3>2, <4>2 DEF InOrder
    <3>3. \A h \in Calls' : InOrder(h)'
      BY <2>2, <3>1, <3>2
    <3>. QED BY <2>2, <3>3 DEF FramesInOrder
  <2>8. SpacesInUse'
    <3>1. \A t \in ThreadAddr : Relic(t)' => Relic(t)
      BY <1>2, <2>p, <2>v, RelicsKept
    <3>. QED BY <1>0, <1>2, <2>2, <3>1, SpacesKept
  <2>9. Owners'
    <3>1. ASSUME NEW t \in ThreadAddr, tstate'[t] = "ready", ~(t = current' /\ Exiting')
          PROVE  /\ Live(owner[tspace[t]])' /\ pcb'[owner'[tspace'[t]]].thread = t
                 /\ ~pcb'[owner'[tspace'[t]]].exited
      <4>1. tstate[t] = "ready" /\ ~(t = current /\ Exiting)
        BY <1>2, <1>k, <2>4, <3>1
      <4>2. Live(owner[tspace[t]]) /\ pcb[owner[tspace[t]]].thread = t /\ ~pcb[owner[tspace[t]]].exited
        BY <1>0, <4>1 DEF Owners
      <4>3. owner[tspace[t]] \in PcbAddr
        BY <1>0, <4>1, OwnThings
      <4>. QED BY <1>2, <2>p, <4>2, <4>3 DEF Live
    <3>2. /\ pcb'[MyPcb'].exited /\ pcb'[MyPcb'].thread = current' /\ Live(MyPcb)'
      <4>1. pcb[MyPcb].thread = current
        BY <1>0, <1>k DEF Owners
      <4>2. Live(MyPcb)'
        BY <1>7, <1>k, <2>p DEF Live
      <4>. QED BY <1>7, <1>k, <2>p, <4>1, <4>2
    <3>3. \A b \in PcbAddr : Live(b)' /\ ~pcb'[b].exited =>
             \E t \in ThreadAddr : tstate'[t] = "ready" /\ owner'[tspace'[t]] = b
      BY <1>0, <1>2, <2>p, <2>v DEF Owners, Newborn
    <3>4. \A b \in PcbAddr : Live(b)' /\ pcb'[b].exited =>
             \/ Exiting' /\ b = MyPcb'
             \/ pcb'[b].thread # NULL /\ tstate'[pcb'[b].thread] = "finished"
      BY <1>0, <1>2, <1>7, <2>p, <2>v, <2>4 DEF Owners
    <3>. QED BY <2>2, <3>1, <3>2, <3>3, <3>4 DEF Owners, Newborn
  <2>10. Families'
    <3>1. ASSUME NEW b \in PcbAddr, Live(b)', pcb'[b].exited, pcb'[b].parent = NULL
          PROVE  Exiting' /\ b = MyPcb' /\ Within("self")'
      <4>1. b # c
        BY <1>n, <1>k, <2>p, <3>1
      <4>2. Live(b) /\ pcb[b].exited /\ pcb[b].parent = NULL
        BY <2>p, <2>v, <3>1, <4>1
      <4>. QED BY <1>0, <1>7, <2>4, <4>2 DEF Families
    <3>2. ASSUME NEW b \in PcbAddr, Live(b)', pcb'[b].parent # NULL PROVE ChildOf(b, pcb[b].parent)'
      <4>1. Live(b) /\ b # c /\ pcb'[b].parent = pcb[b].parent /\ pcb[b].parent # NULL
        BY <2>p, <2>v, <3>2
      <4>2. PICK p : p = pcb[b].parent
        OBVIOUS
      <4>3. p \in PcbAddr
        BY <1>0, <4>1, <4>2 DEF Sound, ObjectInv, ProcessTypeOK
      <4>4. /\ p # b /\ Live(p)
            /\ \/ ~pcb[p].exited /\ \E n \in 1 .. Len(pcb[p].children) : pcb[p].children[n] = b
               \/ Exiting /\ p = MyPcb /\ b \in Kids
        BY <1>0, <4>1, <4>2 DEF Families, ChildOf, Deletion
      <4>5. b \in Kids => b \in Kids'
        BY <1>k, <2>5, <4>1
      <4>6. Live(p)' /\ pcb'[p].exited = pcb[p].exited /\ pcb'[p].children = pcb[p].children
        BY <2>p, <2>v, <4>3, <4>4
      <4>7. ChildOf(b, p)'
        BY <1>7, <2>4, <4>4, <4>5, <4>6 DEF ChildOf
      <4>. QED BY <4>1, <4>2, <4>7, Zenon
    <3>3. ASSUME NEW p \in PcbAddr, Live(p)', ~pcb'[p].exited
          PROVE  /\ \A m, n \in 1 .. Len(pcb'[p].children) : pcb'[p].children[m] = pcb'[p].children[n] => m = n
                 /\ \A n \in 1 .. Len(pcb'[p].children) :
                      Live(pcb[p].children[n])' /\ pcb'[pcb'[p].children[n]].parent = p
      <4>1. Live(p) /\ ~pcb[p].exited /\ pcb'[p].children = pcb[p].children
        BY <2>p, <2>v, <3>3
      <4>2. /\ \A m, n \in 1 .. Len(pcb[p].children) : pcb[p].children[m] = pcb[p].children[n] => m = n
            /\ \A n \in 1 .. Len(pcb[p].children) : Live(pcb[p].children[n]) /\ pcb[pcb[p].children[n]].parent = p
        BY <1>0, <4>1 DEF Families
      <4>3. \A n \in 1 .. Len(pcb[p].children) : pcb[p].children[n] \in PcbAddr
        BY <1>0 DEF Sound, ObjectInv, ProcessTypeOK
      <4>4. \A n \in 1 .. Len(pcb'[p].children) : /\ pcb'[pcb'[p].children[n]].state = "live"
                                                  /\ pcb'[pcb'[p].children[n]].parent = p
        <5>. TAKE n \in 1 .. Len(pcb'[p].children)
        <5>1. PICK x \in PcbAddr : x = pcb[p].children[n] /\ Live(x) /\ pcb[x].parent = p
          BY <4>1, <4>2, <4>3
        <5>2. x # c
          BY <1>k, <4>1, <5>1
        <5>3. pcb'[x].state = "live" /\ pcb'[x].parent = p
          BY <2>p, <5>1, <5>2 DEF Live
        <5>4. pcb'[p].children[n] = x
          BY <4>1, <5>1
        <5>. QED BY <5>3, <5>4
      <4>. QED BY <4>1, <4>2, <4>4 DEF Live
    <3>. QED BY <2>2, <3>1, <3>2, <3>3 DEF Families, Deletion
  <2>11. PidsInUse'
    BY <1>0, <1>2, <2>p, <2>v, <2>2 DEF PidsInUse
  <2>. QED BY <2>6, <2>7, <2>8, <2>9, <2>10, <2>11 DEF OrdinaryInv
<1>. QED BY <1>e, <1>n

\* The child gets its thread, and parent and child know each other.
LEMMA ForkThreadStep ==
  ASSUME Before, ForkThread
  PROVE  OrdinaryInv'
<1>. DEFINE c == Top.pcb
            s == Top.space
            p == MyPcb
<1>0. /\ Sound /\ OneAtATime /\ FramesInOrder /\ SpacesInUse /\ Owners /\ Families /\ PidsInUse
      /\ current # NULL /\ Here = "forkThread"
  BY AtHere DEF Before, OrdinaryInv, Ordinary, ForkThread
<1>1. mmLock = NULL /\ pcbManagerLock = NULL /\ misused = FALSE
  BY <1>0 DEF OneAtATime
<1>m. /\ current \in ThreadAddr /\ tstate[current] = "ready" /\ p \in PcbAddr /\ p = owner[tspace[current]]
  BY <1>0, OwnThings DEF MyPcb, Mine, me
<1>c. c \in PcbAddr /\ s \in SpaceAddr
  <2>1. Top \in FrameType /\ Top.at = "forkThread"
    BY <1>0, Points
  <2>. QED BY <2>1 DEF FrameType
<1>2. PICK t \in Fresh(tstate, "finished") :
         /\ HandOutThread(t)
         /\ tstate' = [tstate EXCEPT ![t] = "ready"]
         /\ tspace' = [tspace EXCEPT ![t] = s]
         /\ stack' = [stack EXCEPT ![t] = <<Plain("user")>>, ![current] = Tail(@)]
         /\ pcb' = [pcb EXCEPT ![c].thread = t, ![c].parent = p, ![p].children = Append(@, c)]
  BY DEF ForkThread, me
<1>3. /\ owner' = [owner EXCEPT ![s] = c]
      /\ Uses(p)
      /\ UNCHANGED <<sstate, pages, usedPids, usedPages, mmLock, pcbManagerLock, current, crashed>>
  BY DEF ForkThread, pidVars, lockVars
<1>4. /\ Lower(stack[current]) = {"user"} /\ Second.at = "user"
      /\ \A q : Within(q) <=> q = Here \/ q \in Lower(stack[current])
  BY <1>0, Points
<1>5. ~Exiting /\ Kids = {}
  BY <1>0, <1>4, NoKids DEF Exiting
<1>l. Live(p) /\ pcb[p].thread = current /\ ~pcb[p].exited
  BY <1>0, <1>5, <1>m DEF Owners
<1>n. Live(c) /\ ~pcb[c].exited /\ pcb[c].parent = NULL /\ pcb[c].thread = NULL /\ pcb[c].children = << >>
  BY <1>0 DEF Owners, Newborn
<1>d. c # p
  BY <1>l, <1>n, <1>m, ProcessAssumption
<1>u. misused' = misused
  BY <1>1, <1>3, <1>l, Zenon DEF Uses, Live
<1>t. t \in ThreadAddr /\ tstate[t] # "ready" /\ t # current /\ ~Relic(t)
  <2>1. tstate \in [ThreadAddr -> {"unused", "ready", "asleep", "removed", "finished"}]
    BY <1>0 DEF Sound, ObjectInv, ProcessTypeOK
  <2>2. ~Relic(t)
    BY <1>2 DEF Before, NoFlaw, HandOutThread
  <2>. QED BY <1>0, <1>m, <2>1, <2>2 DEF Fresh
<1>6. /\ tstate'[t] = "ready" /\ \A u \in ThreadAddr : u # t => tstate'[u] = tstate[u]
      /\ tspace'[t] = s /\ \A u \in ThreadAddr : u # t => tspace'[u] = tspace[u]
      /\ owner'[s] = c /\ \A x \in SpaceAddr : x # s => owner'[x] = owner[x]
      /\ stack'[t] = <<Plain("user")>> /\ stack'[current] = Tail(stack[current])
      /\ \A u \in ThreadAddr : u # t /\ u # current => stack'[u] = stack[u]
  <2>1. /\ tstate \in [ThreadAddr -> {"unused", "ready", "asleep", "removed", "finished"}]
        /\ owner \in [SpaceAddr -> PcbAddr \cup {NULL}] /\ tspace \in [ThreadAddr -> SpaceAddr \cup {NULL}]
    BY <1>0 DEF Sound, ObjectInv, ProcessTypeOK
  <2>2. stack \in [ThreadAddr -> Seq(FrameType)]
    BY <1>0 DEF Sound, StackInv
  <2>3. /\ tstate'[t] = "ready" /\ \A u \in ThreadAddr : u # t => tstate'[u] = tstate[u]
        /\ tspace'[t] = s /\ \A u \in ThreadAddr : u # t => tspace'[u] = tspace[u]
    BY <1>2, <1>t, <2>1
  <2>4. owner'[s] = c /\ \A x \in SpaceAddr : x # s => owner'[x] = owner[x]
    BY <1>3, <1>c, <2>1
  <2>5. /\ stack'[t] = <<Plain("user")>> /\ stack'[current] = Tail(stack[current])
        /\ \A u \in ThreadAddr : u # t /\ u # current => stack'[u] = stack[u]
    BY <1>2, <1>t, <1>m, <2>2
  <2>. QED BY <2>3, <2>4, <2>5
<1>p. /\ \A b \in PcbAddr : /\ pcb'[b].state = pcb[b].state /\ pcb'[b].pid = pcb[b].pid
                            /\ pcb'[b].exited = pcb[b].exited
                            /\ pcb'[b].thread = IF b = c THEN t ELSE pcb[b].thread
                            /\ pcb'[b].parent = IF b = c THEN p ELSE pcb[b].parent
                            /\ b # p => pcb'[b].children = pcb[b].children
      /\ pcb'[p].children = Append(pcb[p].children, c)
  <2>1. pcb \in [PcbAddr -> PcbType]
    BY <1>0 DEF Sound, ObjectInv
  <2>2. \A b \in PcbAddr : b # c /\ b # p => pcb'[b] = pcb[b]
    BY <1>2, <1>c, <1>m, <2>1
  <2>3. /\ pcb'[c].state = pcb[c].state /\ pcb'[c].pid = pcb[c].pid /\ pcb'[c].exited = pcb[c].exited
        /\ pcb'[c].thread = t /\ pcb'[c].parent = p /\ pcb'[c].children = pcb[c].children
    BY <1>2, <1>c, <1>m, <1>d, <2>1 DEF PcbType
  <2>4. /\ pcb'[p].state = pcb[p].state /\ pcb'[p].pid = pcb[p].pid /\ pcb'[p].exited = pcb[p].exited
        /\ pcb'[p].thread = pcb[p].thread /\ pcb'[p].parent = pcb[p].parent
        /\ pcb'[p].children = Append(pcb[p].children, c)
    BY <1>2, <1>c, <1>m, <1>d, <2>1 DEF PcbType
  <2>. QED BY <1>d, <2>2, <2>3, <2>4
<1>. HIDE DEF c, s, p
<1>v. \A b \in PcbAddr : Live(b)' <=> Live(b)
  BY <1>p DEF Live
<1>7. Here' = "user" /\ Calls' = Rest
  <2>1. s = s /\ stack[current] \in Seq(FrameType) /\ stack[current] # << >>
    BY <1>0, Running DEF Sound, Stackful
  <2>2. FramesOf(Tail(stack[current])) = Rest /\ (Tail(stack[current]) # << >> => Tail(stack[current])[1] = Second)
        /\ Tail(stack[current]) \in Seq(FrameType)
    BY <2>1, FewFrames DEF Rest, Second
  <2>3. Tail(stack[current]) # << >>
    <3>1. Stackful(stack[current]) /\ stack[current][1].at # "user"
      BY <1>0, Running, Points DEF Sound
    <3>2. Stackful(Tail(stack[current]))
      BY <3>1, LowerStep
    <3>. QED BY <3>2 DEF Stackful
  <2>4. Head(Tail(stack[current])) = Second
    BY <2>2, <2>3
  <2>5. Top' = Head(stack'[current])
    BY <1>3 DEF Top, me
  <2>6. Here' = Top'.at /\ Calls' = FramesOf(stack'[current])
    BY <1>0, <1>3 DEF Here, Calls
  <2>. QED BY <1>4, <1>6, <2>2, <2>4, <2>5, <2>6
<1>8. (\A q : Within(q)' <=> q = "user") /\ ~Exiting' /\ Kids' = {}
  <2>1. \A q : Within(q)' <=> q \in Lower(stack[current])
    BY <1>7 DEF Within, Lower, Ats, Rest
  <2>2. \A q : Within(q)' <=> q = "user"
    BY <1>4, <2>1
  <2>. QED BY <2>2 DEF Exiting, Within, Kids
<1>9. Mine' = Mine /\ MyPcb' = p /\ current' = current
  <2>1. Mine' = Mine
    BY <1>3, <1>6, <1>m, <1>t DEF Mine, me
  <2>2. Mine # s /\ Mine \in SpaceAddr /\ MyPcb = p
    BY <1>0, <1>m, OwnThings DEF SpacesInUse, Mine, me, p, s
  <2>3. MyPcb' = owner'[Mine']
    BY DEF MyPcb
  <2>4. MyPcb = owner[Mine]
    BY DEF MyPcb
  <2>. QED BY <1>3, <1>6, <2>1, <2>2, <2>3, <2>4
<1>s. /\ \A u \in ThreadAddr : tstate[u] = "ready" => tspace[u] # s
      /\ sstate[s] = "live" /\ pages[s] # {}
  BY <1>0 DEF SpacesInUse, s
<1>12. OneAtATime'
  <2>1. stack'[t][1].at = "user"
    <3>1. Plain("user") \in FrameType /\ Plain("user").at = "user"
      BY Frames
    <3>2. <<Plain("user")>>[1] = Plain("user")
      BY <3>1, FewFrames
    <3>. QED BY <1>6, <3>1, <3>2
  <2>2. \A u \in ThreadAddr : tstate'[u] \in {"unused", "ready", "finished"}
    BY <1>0, <1>6 DEF OneAtATime
  <2>3. \A u \in ThreadAddr : tstate'[u] = "ready" /\ u # current' => stack'[u][1].at = "user"
    BY <1>0, <1>6, <1>9, <2>1 DEF OneAtATime
  <2>. QED BY <1>0, <1>1, <1>3, <1>u, <1>7, <2>2, <2>3 DEF OneAtATime
<1>13. FramesInOrder'
  <2>1. \A f \in Calls' : f.at = "user"
    BY <1>8 DEF Within
  <2>. QED BY <1>7, <2>1 DEF FramesInOrder, InOrder
<1>14. SpacesInUse'
  <2>4. \A u \in ThreadAddr : ~Bare(u) /\ ~Bare(u)'
    BY <1>0, <1>7 DEF Bare
  <2>r. ASSUME NEW u \in ThreadAddr, u # t, Relic(u)' PROVE Relic(u)
    BY <1>6, <1>p, <2>r DEF Relic
  <2>5. \A u \in ThreadAddr :
         /\ Relic(u)' /\ tspace'[u] # NULL => sstate'[tspace'[u]] = "freed"
         /\ tstate'[u] = "ready" => tspace'[u] # NULL
         /\ tstate'[u] = "ready" /\ ~Bare(u)' => sstate'[tspace'[u]] = "live" /\ pages'[tspace'[u]] # {}
    <3>. SUFFICES ASSUME NEW u \in ThreadAddr
                  PROVE  /\ Relic(u)' /\ tspace'[u] # NULL => sstate'[tspace'[u]] = "freed"
                         /\ tstate'[u] = "ready" => tspace'[u] # NULL
                         /\ tstate'[u] = "ready" /\ ~Bare(u)' => sstate'[tspace'[u]] = "live" /\ pages'[tspace'[u]] # {}
      OBVIOUS
    <3>1. CASE u = t
      <4>1. s # NULL
        BY <1>c, ProcessAssumption DEF s
      <4>2. ~Relic(u)'
        BY <1>6, <3>1 DEF Relic
      <4>. QED BY <1>3, <1>6, <1>s, <3>1, <4>1, <4>2
    <3>2. CASE u # t
      BY <1>0, <1>3, <1>6, <2>4, <2>r, <3>2 DEF SpacesInUse
    <3>. QED BY <3>1, <3>2
  <2>6. \A x \in SpaceAddr : pages'[x] # {} => \E u \in ThreadAddr : tstate'[u] = "ready" /\ tspace'[u] = x
    <3>. SUFFICES ASSUME NEW x \in SpaceAddr, pages[x] # {}
                  PROVE  \E u \in ThreadAddr : tstate'[u] = "ready" /\ tspace'[u] = x
      BY <1>3
    <3>1. CASE x = s
      BY <1>6, <1>t, <3>1
    <3>2. CASE x # s
      <4>1. PICK u \in ThreadAddr : tstate[u] = "ready" /\ tspace[u] = x
        BY <1>0, <3>2 DEF SpacesInUse, s
      <4>2. u # t
        BY <1>t, <4>1
      <4>. QED BY <1>6, <4>1, <4>2
    <3>. QED BY <3>1, <3>2
  <2>8. \A u, w \in ThreadAddr :
         tstate'[u] = "ready" /\ tstate'[w] = "ready" /\ tspace'[u] = tspace'[w] => u = w
    BY <1>0, <1>6, <1>s DEF SpacesInUse
  <2>. QED BY <1>7, <2>5, <2>6, <2>8 DEF SpacesInUse
<1>15. Owners'
  <2>o. ASSUME NEW u \in ThreadAddr, tstate[u] = "ready"
        PROVE  u # t /\ tspace'[u] = tspace[u] /\ owner[tspace[u]] \in PcbAddr /\ owner'[tspace[u]] = owner[tspace[u]]
    <3>1. u # t
      BY <1>t, <2>o
    <3>2. tspace[u] \in SpaceAddr /\ owner[tspace[u]] \in PcbAddr
      BY <1>0, <2>o, OwnThings
    <3>. QED BY <1>6, <1>s, <2>o, <3>1, <3>2
  <2>1. ASSUME NEW u \in ThreadAddr, tstate'[u] = "ready"
        PROVE  /\ Live(owner[tspace[u]])' /\ pcb'[owner'[tspace'[u]]].thread = u
               /\ ~pcb'[owner'[tspace'[u]]].exited
    <3>1. CASE u = t
      <4>1. owner'[tspace'[u]] = c /\ c \in PcbAddr
        BY <1>6, <1>c, <3>1 DEF c
      <4>2. pcb'[c].state = "live" /\ pcb'[c].thread = u /\ ~pcb'[c].exited
        BY <1>p, <1>n, <3>1, <4>1 DEF Live
      <4>. QED BY <4>1, <4>2 DEF Live
    <3>2. CASE u # t
      <4>1. tstate[u] = "ready"
        BY <1>6, <2>1, <3>2
      <4>2. Live(owner[tspace[u]]) /\ pcb[owner[tspace[u]]].thread = u /\ ~pcb[owner[tspace[u]]].exited
        BY <1>0, <1>5, <4>1 DEF Owners
      <4>3. PICK b \in PcbAddr : b = owner[tspace[u]]
        BY <2>o, <4>1
      <4>4. owner'[tspace'[u]] = b
        BY <2>o, <4>1, <4>3
      <4>5. b # c
        BY <1>n, <4>2, <4>3, ProcessAssumption
      <4>6. pcb'[b].state = "live" /\ pcb'[b].thread = u /\ ~pcb'[b].exited
        BY <1>p, <4>2, <4>3, <4>5 DEF Live
      <4>. QED BY <4>4, <4>6 DEF Live
    <3>. QED BY <3>1, <3>2
  <2>3. ASSUME NEW b \in PcbAddr, Live(b)', ~pcb'[b].exited
        PROVE  \E u \in ThreadAddr : tstate'[u] = "ready" /\ owner'[tspace'[u]] = b
    <3>1. CASE b = c
      BY <1>6, <1>t, <3>1
    <3>2. CASE b # c
      <4>1. Live(b) /\ ~pcb[b].exited
        BY <1>v, <1>p, <2>3
      <4>2. PICK u \in ThreadAddr : tstate[u] = "ready" /\ owner[tspace[u]] = b
        BY <1>0, <3>2, <4>1 DEF Owners, c
      <4>3. u # t /\ owner'[tspace'[u]] = b
        BY <2>o, <4>2
      <4>. QED BY <1>6, <4>2, <4>3
    <3>. QED BY <3>1, <3>2
  <2>4. ASSUME NEW b \in PcbAddr, Live(b)', pcb'[b].exited
        PROVE  pcb'[b].thread # NULL /\ tstate'[pcb'[b].thread] = "finished"
    <3>1. Live(b) /\ pcb[b].exited /\ b # c
      BY <1>v, <1>p, <1>n, <2>4
    <3>2. pcb[b].thread # NULL /\ tstate[pcb[b].thread] = "finished"
      BY <1>0, <1>5, <3>1 DEF Owners
    <3>3. pcb[b].thread \in ThreadAddr
      BY <1>0, <3>2 DEF Sound, ObjectInv, ProcessTypeOK
    <3>4. pcb'[b].thread = pcb[b].thread /\ pcb[b].thread # t
      <4>1. Relic(pcb[b].thread)
        BY <3>1, <3>2 DEF Relic, Live
      <4>. QED BY <1>p, <1>t, <3>1, <4>1
    <3>. QED BY <1>6, <3>2, <3>3, <3>4
  <2>. QED BY <1>7, <1>8, <2>1, <2>3, <2>4 DEF Owners, Newborn
<1>k. /\ pcb[p].children \in Seq(PcbAddr) /\ p \in PcbAddr /\ c \in PcbAddr
      /\ \A n \in 1 .. Len(pcb[p].children) : pcb[p].children[n] # c
  <2>1. p \in PcbAddr /\ c \in PcbAddr
    BY <1>m, <1>c DEF p, c
  <2>2. pcb[p].children \in Seq(PcbAddr)
    BY <1>0, <2>1 DEF Sound, ObjectInv, ProcessTypeOK
  <2>3. \A n \in 1 .. Len(pcb[p].children) : pcb[pcb[p].children[n]].parent = p
    BY <1>0, <1>l, <2>1 DEF Families
  <2>. QED BY <1>n, <2>1, <2>2, <2>3, ProcessAssumption
<1>a. PICK q : q = Append(pcb[p].children, c)
  OBVIOUS
<1>b. /\ q = pcb'[p].children /\ Len(pcb[p].children) \in Nat /\ Len(q) = Len(pcb[p].children) + 1
      /\ q[Len(q)] = c
      /\ \A n \in 1 .. Len(pcb[p].children) : q[n] = pcb[p].children[n] /\ n \in 1 .. Len(q)
      /\ \A n \in 1 .. Len(q) : n = Len(q) \/ n \in 1 .. Len(pcb[p].children)
  BY <1>p, <1>k, <1>a
<1>16. Families'
  <2>1. \A b \in PcbAddr : ~(Live(b)' /\ pcb'[b].exited /\ pcb'[b].parent = NULL)
    <3>1. \A b \in PcbAddr : ~(Live(b) /\ pcb[b].exited /\ pcb[b].parent = NULL)
      BY <1>0, <1>5 DEF Families
    <3>. QED BY <1>p, <1>v, <1>n, <3>1
  <2>2. ASSUME NEW b \in PcbAddr, Live(b)', pcb'[b].parent # NULL
        PROVE  ChildOf(b, pcb[b].parent)'
    <3>1. CASE b = c
      <4>1. PICK x : x = p
        OBVIOUS
      <4>2. pcb'[b].parent = x /\ Live(x)' /\ ~pcb'[x].exited /\ x # b
        BY <1>p, <1>v, <1>k, <1>l, <1>d, <3>1, <4>1
      <4>3. \E n \in 1 .. Len(pcb'[x].children) : pcb'[x].children[n] = b
        <5>1. Len(q) \in 1 .. Len(q)
          BY <1>b
        <5>. QED BY <1>b, <3>1, <4>1, <5>1
      <4>4. ChildOf(b, x)'
        BY <4>2, <4>3 DEF ChildOf
      <4>. QED BY <4>2, <4>4, Zenon
    <3>2. CASE b # c
      <4>1. Live(b) /\ pcb'[b].parent = pcb[b].parent /\ pcb[b].parent # NULL
        BY <1>p, <1>v, <2>2, <3>2
      <4>2. PICK x : x = pcb[b].parent
        OBVIOUS
      <4>3. x \in PcbAddr
        BY <1>0, <4>1, <4>2 DEF Sound, ObjectInv, ProcessTypeOK
      <4>4. x # b /\ Live(x) /\ ~pcb[x].exited
            /\ \E n \in 1 .. Len(pcb[x].children) : pcb[x].children[n] = b
        BY <1>0, <1>5, <4>1, <4>2 DEF Families, ChildOf
      <4>5. Live(x)' /\ ~pcb'[x].exited
        BY <1>p, <1>v, <4>3, <4>4
      <4>6. \E n \in 1 .. Len(pcb'[x].children) : pcb'[x].children[n] = b
        <5>1. CASE x = p
          BY <1>b, <4>4, <5>1
        <5>2. CASE x # p
          BY <1>p, <4>3, <4>4, <5>2
        <5>. QED BY <5>1, <5>2
      <4>7. ChildOf(b, x)'
        BY <4>4, <4>5, <4>6 DEF ChildOf
      <4>. QED BY <4>1, <4>2, <4>7, Zenon
    <3>. QED BY <3>1, <3>2
  <2>3. ASSUME NEW x \in PcbAddr, Live(x)', ~pcb'[x].exited
        PROVE  /\ \A m, n \in 1 .. Len(pcb'[x].children) : pcb'[x].children[m] = pcb'[x].children[n] => m = n
               /\ \A n \in 1 .. Len(pcb'[x].children) :
                    Live(pcb[x].children[n])' /\ pcb'[pcb'[x].children[n]].parent = x
    <3>1. Live(x) /\ ~pcb[x].exited
      BY <1>p, <1>v, <2>3
    <3>2. /\ \A m, n \in 1 .. Len(pcb[x].children) : pcb[x].children[m] = pcb[x].children[n] => m = n
          /\ \A n \in 1 .. Len(pcb[x].children) : Live(pcb[x].children[n]) /\ pcb[pcb[x].children[n]].parent = x
      BY <1>0, <3>1 DEF Families
    <3>3. \A n \in 1 .. Len(pcb[x].children) : pcb[x].children[n] \in PcbAddr
      BY <1>0 DEF Sound, ObjectInv, ProcessTypeOK
    <3>4. ASSUME NEW n \in 1 .. Len(pcb[x].children)
          PROVE  /\ pcb'[pcb[x].children[n]].state = "live" /\ pcb'[pcb[x].children[n]].parent = x
                 /\ pcb[x].children[n] # c
      <4>1. PICK y \in PcbAddr : y = pcb[x].children[n] /\ Live(y) /\ pcb[y].parent = x
        BY <3>2, <3>3
      <4>2. y # c
        BY <1>n, <4>1, ProcessAssumption
      <4>. QED BY <1>p, <4>1, <4>2 DEF Live
    <3>5. CASE x # p
      <4>1. pcb'[x].children = pcb[x].children
        BY <1>p, <3>5
      <4>. QED BY <3>2, <3>4, <4>1 DEF Live
    <3>6. CASE x = p
      <4>1. \A m, n \in 1 .. Len(q) : q[m] = q[n] => m = n
        <5>. SUFFICES ASSUME NEW m \in 1 .. Len(q), NEW n \in 1 .. Len(q), q[m] = q[n]
                      PROVE  m = n
          OBVIOUS
        <5>1. \A i \in 1 .. Len(pcb[p].children) : q[i] # c
          BY <1>b, <1>k
        <5>2. CASE m \in 1 .. Len(pcb[p].children) /\ n \in 1 .. Len(pcb[p].children)
          <6>1. q[m] = pcb[p].children[m] /\ q[n] = pcb[p].children[n]
            BY <1>b, <5>2
          <6>. QED BY <3>2, <3>6, <5>2, <6>1
        <5>3. CASE m = Len(q) \/ n = Len(q)
          <6>1. m = Len(q) \/ m \in 1 .. Len(pcb[p].children)
            BY <1>b
          <6>2. n = Len(q) \/ n \in 1 .. Len(pcb[p].children)
            BY <1>b
          <6>. QED BY <1>b, <5>1, <5>3, <6>1, <6>2, Zenon
        <5>. QED BY <1>b, <5>2, <5>3
      <4>2. \A n \in 1 .. Len(q) : pcb'[q[n]].state = "live" /\ pcb'[q[n]].parent = x
        <5>. TAKE n \in 1 .. Len(q)
        <5>1. CASE n = Len(q)
          <6>1. q[n] = c
            BY <1>b, <5>1
          <6>2. pcb'[c].state = "live" /\ pcb'[c].parent = x
            <7>1. pcb[c].state = "live" /\ c \in PcbAddr
              BY <1>n, <1>k DEF Live
            <7>. QED BY <1>p, <3>6, <7>1
          <6>. QED BY <6>1, <6>2
        <5>2. CASE n # Len(q)
          BY <1>b, <3>4, <3>6, <5>2
        <5>. QED BY <5>1, <5>2
      <4>3. pcb'[x].children = q
        BY <1>b, <3>6
      <4>. QED BY <4>1, <4>2, <4>3 DEF Live
    <3>. QED BY <3>5, <3>6
  <2>. QED BY <1>7, <2>1, <2>2, <2>3 DEF Families, Deletion
<1>17. PidsInUse'
  BY <1>0, <1>3, <1>p, <1>v, <1>7 DEF PidsInUse
<1>. QED BY <1>12, <1>13, <1>14, <1>15, <1>16, <1>17 DEF OrdinaryInv

\* Join and Kill are not made, nor is a frame of theirs found.
LEMMA NoJoinNoKill ==
  ASSUME Before
  PROVE  ~(doJoin \/ JoinWaits \/ JoinDeletes \/ doKill \/ KillFreed \/ KillReturns)
<1>0. Sound /\ FramesInOrder /\ "Join" \notin Syscall /\ "Kill" \notin Syscall
  BY DEF Before, OrdinaryInv, Ordinary
<1>1. ~doJoin /\ ~doKill /\ ~KillFreed
  BY <1>0 DEF doJoin, doKill, KillFreed, InUser
<1>2. current # NULL => Here \notin {"join", "killed"}
  BY <1>0, Points
<1>3. ~JoinWaits /\ ~JoinDeletes /\ ~KillReturns
  BY <1>2, AtHere DEF JoinWaits, JoinDeletes, KillReturns
<1>. QED BY <1>1, <1>3

\* What the code looks out for does not happen: the thread of a PCB that is
\* deleted has no page table any more, and no child was deleted before its parent.
LEMMA NothingLeftOver ==
  ASSUME Before
  PROVE  ~DestroyPCBSpace /\ ~ChildIsFreed
<1>1. ASSUME DestroyPCBSpace PROVE FALSE
  <2>1. current # NULL /\ Here = "pcbDtor" /\ HasPageTable(Victim(Top.pcb))
    BY <1>1, AtHere DEF DestroyPCBSpace
  <2>2. ~HasPageTable(Victim(Top.pcb))
    BY <2>1, NoVictimRuns
  <2>. QED BY <2>1, <2>2
<1>2. ASSUME ChildIsFreed PROVE FALSE
  <2>1. current # NULL /\ Here = "children" /\ Top.kids # << >> /\ pcb[Head(Top.kids)].state = "freed"
    BY <1>2, AtHere DEF ChildIsFreed
  <2>2. Live(Head(Top.kids))
    BY <2>1, FirstChild
  <2>. QED BY <2>1, <2>2 DEF Live
<1>. QED BY <1>1, <1>2

\* A thread that has to wait, and a machine that has stopped.
LEMMA OverStep ==
  ASSUME Before, Over \/ UNCHANGED vars
  PROVE  OrdinaryInv'
<1>1. /\ UNCHANGED <<tstate, tspace, stack, sstate, pages, owner, pcb, usedPids, usedPages,
                     mmLock, pcbManagerLock, current, misused>>
      /\ crashed' = crashed
  BY DEF Over, vars, threadVars, spaceVars, pidVars, lockVars, histVars
<1>2. OrdinaryInv /\ crashed \in {"no", "full"}
  BY DEF Before, OrdinaryInv, OneAtATime
<1>. QED BY <1>1, <1>2, NothingMoves

\* The six invariants hold after every step.
LEMMA OrdinaryStep ==
  ASSUME Before, Sound', [ProcessNext]_vars
  PROVE  OrdinaryInv'
<1>1. CASE GiveWay \/ Dispatch \/ Over \/ NullSpace
  BY <1>1, GiveWayStep, DispatchStep, OverStep, MemoryStays
<1>2. CASE doFork \/ EnterAllocatePCB \/ AllocatePCB \/ EnterCopySpace \/ CopyFails \/ CopySpace \/ ForkThread
  BY <1>2, doForkStep, EnterAllocatePCBStep, AllocatePCBStep, EnterCopySpaceStep, MemoryStays,
     CopySpaceStep, ForkThreadStep
<1>3. CASE EnterDeleteSpace \/ DeleteSpace \/ FreeSpace
  BY <1>3, EnterDeleteSpaceStep, DeleteSpaceStep, FreeSpaceStep
<1>4. CASE DestroyPCBSpace \/ DestroyPCB \/ EnterDeallocatePCB \/ ClearPid \/ ForgetPCB
  BY <1>4, NothingLeftOver, DestroyPCBStep, EnterDeallocatePCBStep, ClearPidStep, ForgetPCBStep
<1>5. CASE doExit \/ Child \/ ChildIsFreed \/ NoMoreChildren \/ Self \/ ExitSpace \/ Finish
  BY <1>5, doExitStep, ChildStep, NothingLeftOver, NoMoreChildrenStep, SelfStep, ExitSpaceStep,
     FinishIsOrdinary
<1>6. CASE doJoin \/ JoinWaits \/ JoinDeletes \/ doKill \/ KillFreed \/ KillReturns
  BY <1>6, NoJoinNoKill
<1>7. CASE doExec \/ Load
  BY <1>7, doExecStep, LoadStep
<1>8. CASE UNCHANGED vars
  BY <1>8, OverStep
<1>. QED BY <1>1, <1>2, <1>3, <1>4, <1>5, <1>6, <1>7, <1>8 DEF ProcessNext

\* They hold of the first process.
LEMMA OrdinaryStart ==
  ASSUME ProcessInit
  PROVE  OrdinaryInv
<1>a. /\ main \in ThreadAddr /\ mainSpace \in SpaceAddr /\ mainPcb \in PcbAddr
      /\ NULL \notin ThreadAddr /\ NULL \notin SpaceAddr /\ NULL \notin PcbAddr
      /\ NumPids \in Nat \ {0} /\ MainSize \in Nat /\ MainSize > 0
  BY ProcessAssumption
<1>b. /\ current = main /\ current # NULL /\ mmLock = NULL /\ pcbManagerLock = NULL
      /\ crashed = "no" /\ misused = FALSE
      /\ usedPids = {0} /\ 0 \in 0 .. MainSize - 1
  BY <1>a DEF ProcessInit
<1>c. /\ tstate[main] = "ready" /\ \A t \in ThreadAddr : t # main => tstate[t] = "unused"
      /\ tspace[main] = mainSpace /\ \A t \in ThreadAddr : t # main => tspace[t] = NULL
      /\ sstate[mainSpace] = "live" /\ owner[mainSpace] = mainPcb
      /\ 0 \in pages[mainSpace] /\ \A s \in SpaceAddr : s # mainSpace => pages[s] = {}
  BY <1>a, <1>b DEF ProcessInit
<1>p. /\ pcb[mainPcb].state = "live" /\ pcb[mainPcb].pid = 0 /\ ~pcb[mainPcb].exited
      /\ pcb[mainPcb].parent = NULL /\ pcb[mainPcb].thread = main /\ pcb[mainPcb].children = << >>
      /\ \A b \in PcbAddr : b # mainPcb => pcb[b].state = "unused"
  BY <1>a DEF ProcessInit, NewPCB
<1>s. stack[main] = <<Plain("user")>>
  BY <1>a DEF ProcessInit
<1>u. Plain("user") \in FrameType /\ Plain("user").at = "user"
  BY Frames
<1>1. /\ Top = Plain("user") /\ Calls = {Plain("user")} /\ Here = "user"
      /\ \A q : Within(q) <=> q = "user"
  <2>1. Head(<<Plain("user")>>) = Plain("user")
    BY <1>u
  <2>2. FramesOf(<<Plain("user")>>) = {Plain("user")}
    BY <1>u, FewFrames
  <2>3. Top = Plain("user") /\ Calls = {Plain("user")}
    BY <1>b, <1>s, <2>1, <2>2, Zenon DEF Top, me, Calls
  <2>4. Here = "user"
    BY <1>b, <1>u, <2>3, Zenon DEF Here
  <2>5. \A q : Within(q) <=> q = "user"
    BY <1>u, <2>3, Zenon DEF Within
  <2>. QED BY <2>3, <2>4, <2>5
<1>2. ~Exiting /\ Mine = mainSpace /\ MyPcb = mainPcb /\ \A b : Live(b) /\ b \in PcbAddr => b = mainPcb
  BY <1>1, <1>b, <1>c, <1>p DEF Exiting, Mine, MyPcb, me, Live
<1>3. OneAtATime
  BY <1>b, <1>c, <1>1 DEF OneAtATime
<1>4. FramesInOrder
  BY <1>u, <1>1 DEF FramesInOrder, InOrder
<1>5. SpacesInUse
  <2>1. \A t \in ThreadAddr : ~Relic(t)
    BY <1>c DEF Relic
  <2>2. \A t \in ThreadAddr : tstate[t] = "ready" => t = main
    BY <1>c
  <2>. QED BY <1>a, <1>b, <1>c, <1>1, <2>1, <2>2 DEF SpacesInUse, Bare
<1>6. Owners
  BY <1>a, <1>c, <1>p, <1>1, <1>2 DEF Owners, Live, Newborn
<1>7. Families
  <2>1. \A n \in 1 .. Len(pcb[mainPcb].children) : FALSE
    BY <1>p
  <2>. QED BY <1>p, <1>1, <1>2, <2>1 DEF Families, Deletion
<1>8. PidsInUse
  BY <1>a, <1>b, <1>p, <1>1 DEF PidsInUse, Live
<1>. QED BY <1>3, <1>4, <1>5, <1>6, <1>7, <1>8 DEF OrdinaryInv

\* The invariants say that no process is harmed.
LEMMA NobodyIsHarmed ==
  ASSUME Sound, OrdinaryInv
  PROVE  ProcessesSurvive
<1>1. ProcessTypeOK
  BY DEF Sound, ObjectInv
<1>2. NoCrash /\ NobodyVanishes /\ NoFreedPCBUsed
  BY DEF OrdinaryInv, OneAtATime, NoCrash, NobodyVanishes, NoFreedPCBUsed
<1>3. LockHeldInside
  <2>. SUFFICES ASSUME mmLock # NULL
                PROVE  \E i \in DOMAIN stack[mmLock] : stack[mmLock][i].at \in {"copyPages", "freePages"}
    BY DEF LockHeldInside
  <2>1. mmLock = current /\ current # NULL /\ Here \in {"copyPages", "freePages"} /\ FramesInOrder
    BY DEF OrdinaryInv, OneAtATime
  <2>2. Here = Top.at /\ Top = stack[current][1]
    BY <2>1, Points
  <2>3. 1 \in DOMAIN stack[current]
    <3>1. Stackful(stack[current])
      BY <2>1, Running DEF Sound
    <3>2. stack[current] \in Seq(FrameType) /\ stack[current] # << >>
      BY <3>1 DEF Stackful
    <3>. QED BY <3>2
  <2>. QED BY <2>1, <2>2, <2>3
<1>. QED BY <1>1, <1>2, <1>3 DEF ProcessesSurvive

\* When no thread is left, neither a page nor a pid is: the page would be that of
\* a ready thread; the PCB with the pid would have exited, and its parent, and
\* so on, but the parent of an exited PCB has not exited.
LEMMA AllGivenBack ==
  ASSUME Sound, OrdinaryInv
  PROVE  EverythingReturned
<1>. SUFFICES ASSUME \A t \in ThreadAddr : tstate[t] \in {"unused", "finished"}
              PROVE  usedPages = {} /\ usedPids = {}
  BY DEF EverythingReturned
<1>0. /\ StackInv /\ ObjectInv /\ PagesExact
      /\ SpacesInUse /\ Owners /\ Families /\ PidsInUse
  BY DEF Sound, OrdinaryInv
<1>1. current = NULL
  <2>1. current \in ThreadAddr \cup {NULL} /\ (current # NULL => tstate[current] = "ready")
    BY <1>0 DEF ObjectInv, ProcessTypeOK, StackInv
  <2>. QED BY <2>1
<1>2. Here = "user" /\ ~Exiting
  BY <1>1 DEF Here, Exiting, Within, Calls
<1>3. usedPages = {}
  <2>1. \A s \in SpaceAddr : pages[s] = {}
    BY <1>0, <1>2 DEF SpacesInUse
  <2>. QED BY <1>0, <2>1 DEF PagesExact
<1>4. \A b \in PcbAddr : Live(b) => pcb[b].exited
  BY <1>0, <1>2 DEF Owners, Newborn
<1>5. \A b \in PcbAddr : ~Live(b)
  <2>. SUFFICES ASSUME NEW b \in PcbAddr, Live(b) PROVE FALSE
    OBVIOUS
  <2>1. pcb[b].parent # NULL
    BY <1>0, <1>2, <1>4 DEF Families
  <2>2. ChildOf(b, pcb[b].parent) /\ pcb[b].parent \in PcbAddr
    BY <1>0, <2>1 DEF Families, ObjectInv, ProcessTypeOK
  <2>. QED BY <1>2, <1>4, <2>2 DEF ChildOf
<1>6. usedPids = {}
  BY <1>0, <1>5 DEF PidsInUse
<1>. QED BY <1>3, <1>6

\* What has been found out is not forgotten.
LEMMA FlawsStay ==
  ASSUME [ProcessNext]_vars
  PROVE  (~reused' => ~reused) /\ (~starved' => ~starved)
<1>1. reused' = reused /\ starved' = starved => (~reused' => ~reused) /\ (~starved' => ~starved)
  OBVIOUS
<1>s. \A s : HandOutSpace(s) => (~reused' => ~reused)
  BY Zenon DEF HandOutSpace
<1>t. \A t : HandOutThread(t) => (~reused' => ~reused)
  BY Zenon DEF HandOutThread
<1>2. CASE GiveWay \/ Dispatch \/ Over \/ NullSpace
  BY <1>1, <1>2 DEF GiveWay, Dispatch, Over, NullSpace, Crash, vars, histVars, flaws
<1>3. CASE doFork \/ EnterAllocatePCB \/ AllocatePCB \/ CopyFails \/ CopySpace
  BY <1>1, <1>3 DEF doFork, EnterAllocatePCB, AllocatePCB, CopyFails, CopySpace, SleepInAcquire,
     Crash, histVars, flaws
<1>4. CASE EnterCopySpace
  <2>1. CASE SleepInAcquire
    BY <1>1, <2>1 DEF SleepInAcquire, histVars, flaws
  <2>2. CASE ~SleepInAcquire
    <3>1. starved' = starved /\ \E s : HandOutSpace(s)
      BY <1>4, <2>2 DEF EnterCopySpace
    <3>. QED BY <1>s, <3>1
  <2>. QED BY <2>1, <2>2
<1>5. CASE ForkThread
  <2>1. starved' = starved /\ \E t : HandOutThread(t)
    BY <1>5 DEF ForkThread
  <2>. QED BY <1>t, <2>1
<1>6. CASE EnterDeleteSpace \/ DeleteSpace \/ FreeSpace
  BY <1>1, <1>6 DEF EnterDeleteSpace, DeleteSpace, FreeSpace, SleepInAcquire, Crash, histVars, flaws
<1>7. CASE DestroyPCBSpace \/ DestroyPCB \/ EnterDeallocatePCB \/ ClearPid \/ ForgetPCB
  BY <1>1, <1>7 DEF DestroyPCBSpace, DestroyPCB, EnterDeallocatePCB, ClearPid, ForgetPCB,
     SleepInAcquire, histVars, flaws
<1>8. CASE doExit \/ Child \/ ChildIsFreed \/ NoMoreChildren \/ Self \/ ExitSpace \/ Finish
  BY <1>1, <1>8 DEF doExit, StartExit, Child, ChildIsFreed, NoMoreChildren, Self, ExitSpace, Finish,
     histVars, flaws
<1>9. CASE doJoin \/ JoinWaits \/ JoinDeletes \/ doKill \/ KillFreed \/ KillReturns
  BY <1>1, <1>9 DEF doJoin, JoinWaits, JoinDeletes, doKill, KillFreed, KillReturns, Crash,
     histVars, flaws
<1>10. CASE doExec
  BY <1>1, <1>10 DEF doExec, flaws
<1>11. CASE Load
  <2>1. reused' = reused \/ \E s : HandOutSpace(s)
    BY <1>11 DEF Load
  <2>2. starved' = TRUE \/ starved' = starved
    BY <1>11 DEF Load
  <2>. QED BY <1>s, <2>1, <2>2
<1>12. CASE UNCHANGED vars
  BY <1>1, <1>12 DEF vars, histVars, flaws
<1>. QED BY <1>2, <1>3, <1>4, <1>5, <1>6, <1>7, <1>8, <1>9, <1>10, <1>11, <1>12 DEF ProcessNext

\* The inductive invariant of programs that do not Join or Kill, run one routine
\* at a time: it holds until a relic's memory is handed out again or an Exec finds
\* too little of it.
THEOREM OrdinaryInvariant ==
  ASSUME Ordinary
  PROVE  ProcessSpec => [](NoFlaw => OrdinaryInv)
<1>1. ProcessInit => (NoFlaw => OrdinaryInv)
  BY OrdinaryStart
<1>2. Sound /\ Sound' /\ (NoFlaw => OrdinaryInv) /\ [ProcessNext]_vars => (NoFlaw => OrdinaryInv)'
  <2>. SUFFICES ASSUME Sound, Sound', NoFlaw => OrdinaryInv, [ProcessNext]_vars, NoFlaw'
                PROVE  OrdinaryInv'
    OBVIOUS
  <2>1. NoFlaw
    BY FlawsStay DEF NoFlaw
  <2>2. Before
    BY <2>1 DEF Before
  <2>. QED BY <2>2, OrdinaryStep
<1>3. ProcessSpec => []Sound
  BY ProcessInvariant, PTL DEF Sound
<1>. QED BY <1>1, <1>2, <1>3, PTL DEF ProcessSpec

\* No sequence of Forks, Execs, Yields and Exits harms a process or the machine,
\* which dies only of a full process table, until one of the two things happens
\* that ProcessesSurvive excepts.
THEOREM EveryProcessSurvives ==
  ASSUME Ordinary
  PROVE  ProcessSpec => []ProcessesSurvive
<1>1. Sound /\ OrdinaryInv => ProcessesSurvive
  BY NobodyIsHarmed
<1>2. Sound /\ ~NoFlaw => ProcessesSurvive
  BY DEF Sound, ObjectInv, ProcessesSurvive
<1>3. ProcessSpec => []Sound
  BY ProcessInvariant, PTL DEF Sound
<1>. QED BY <1>1, <1>2, <1>3, OrdinaryInvariant, PTL

\* When the last of these processes has exited, every page and pid is free again,
\* with the same two exceptions.
THEOREM EverythingIsReturned ==
  ASSUME Ordinary
  PROVE  ProcessSpec => []EverythingReturned
<1>1. Sound /\ OrdinaryInv => EverythingReturned
  BY AllGivenBack
<1>2. ~NoFlaw => EverythingReturned
  BY DEF EverythingReturned
<1>3. ProcessSpec => []Sound
  BY ProcessInvariant, PTL DEF Sound
<1>. QED BY <1>1, <1>2, <1>3, OrdinaryInvariant, PTL

-----------------------------------------------------------------------------
(* Programs of one size                                                    *)

\* A process that gave its pages back to load another program can have as many.
SameSize ==
    /\ \A s \in SpaceAddr : pages[s] # {} => Cardinality(pages[s]) = MainSize
    /\ \A t \in ThreadAddr :
         tstate[t] = "ready" /\ pages[tspace[t]] = {} /\ ~pcb[owner[tspace[t]]].exited =>
             MainSize <= Cardinality(FreePages)

\* One more page than n, if there is one, is the least of those left over.
LEMMA OneMore ==
  ASSUME NEW F \in SUBSET Nat, IsFiniteSet(F), NEW n \in Nat, n < Cardinality(F),
         Cardinality(Lowest(n, F)) = n
  PROVE  Cardinality(Lowest(n + 1, F)) = n + 1
<1>. DEFINE L == Lowest(n, F)
            Below(p) == {j \in F : j < p}
<1>1. /\ \A p : Below(p) \in SUBSET F
      /\ \A p \in F : p \in L <=> Cardinality(Below(p)) < n
      /\ \A p : p \in Lowest(n + 1, F) <=> p \in F /\ Cardinality(Below(p)) < n + 1
      /\ L \in SUBSET F /\ Cardinality(L) = n
  BY DEF Lowest
<1>2. \A p : \A j : j \in Below(p) <=> j \in F /\ j < p
  OBVIOUS
<1>. HIDE DEF L, Below
<1>3. \A T \in SUBSET F : IsFiniteSet(T) /\ Cardinality(T) \in Nat
  BY FS_Subset, FS_CardinalityType
<1>4. \A p, q : Below(p) \subseteq Below(q) => Cardinality(Below(p)) <= Cardinality(Below(q))
  BY <1>1, <1>3, FS_Subset
<1>5. PICK m \in F \ L : \A j \in F \ L : ~(j < m)
  <2>1. F # L
    BY <1>1
  <2>2. F \ L # {} /\ F \ L \in SUBSET Nat
    BY <1>1, <2>1
  <2>. QED BY <2>2, Least
<1>6. Below(m) = L
  <2>1. \A p \in Below(m) : p \in L
    BY <1>2, <1>5
  <2>2. ASSUME NEW p \in L PROVE p \in Below(m)
    <3>. SUFFICES ASSUME ~(p < m) PROVE FALSE
      BY <1>1, <1>2
    <3>1. p \in Nat /\ m \in Nat /\ p \in F
      BY <1>1, <1>5
    <3>2. \A j \in F : j < m => j < p
      BY <3>1
    <3>3. Below(m) \subseteq Below(p)
      BY <1>2, <3>2
    <3>4. Cardinality(Below(m)) <= Cardinality(Below(p)) /\ Cardinality(Below(p)) < n
      BY <1>1, <1>4, <3>1, <3>3
    <3>5. Cardinality(Below(m)) < n
      BY <1>1, <1>3, <3>4
    <3>. QED BY <1>1, <1>5, <3>5
  <2>. QED BY <2>1, <2>2
<1>7. L \cup {m} \in SUBSET F /\ Cardinality(L \cup {m}) = n + 1
  BY <1>1, <1>3, <1>5, FS_AddElement
<1>8. Lowest(n + 1, F) = L \cup {m}
  <2>1. \A p \in L : p \in Lowest(n + 1, F)
    <3>1. \A p \in L : p \in F /\ Cardinality(Below(p)) < n /\ Cardinality(Below(p)) \in Nat
      BY <1>1, <1>3
    <3>. QED BY <1>1, <3>1
  <2>2. m \in Lowest(n + 1, F)
    BY <1>1, <1>5, <1>6
  <2>3. ASSUME NEW p \in Lowest(n + 1, F), p \notin L, p # m PROVE FALSE
    <3>1. p \in F /\ p \in F \ L
      BY <1>1, <2>3
    <3>2. p \in Nat /\ m \in Nat /\ ~(p < m)
      BY <1>5, <3>1
    <3>3. m < p
      BY <2>3, <3>2
    <3>4. \A j \in F : j < m => j < p
      BY <3>2, <3>3
    <3>5. L \cup {m} \subseteq Below(p)
      BY <1>2, <1>5, <1>6, <3>3, <3>4
    <3>6. Below(p) \in SUBSET F /\ IsFiniteSet(Below(p)) /\ Cardinality(Below(p)) \in Nat
      BY <1>1, <1>3
    <3>7. n + 1 <= Cardinality(Below(p))
      BY <1>7, <3>5, <3>6, FS_Subset
    <3>8. Cardinality(Below(p)) < n + 1
      BY <1>1, <2>3
    <3>. QED BY <3>6, <3>7, <3>8
  <2>. QED BY <2>1, <2>2, <2>3
<1>. QED BY <1>7, <1>8

\* MemoryManager hands out as many pages as it is asked for.
LEMMA LowestCounts ==
  ASSUME NEW F \in SUBSET Nat, IsFiniteSet(F), NEW n \in Nat, n <= Cardinality(F)
  PROVE  Cardinality(Lowest(n, F)) = n
<1>. DEFINE Bad == {k \in 0 .. Cardinality(F) : Cardinality(Lowest(k, F)) # k}
<1>1. Cardinality(F) \in Nat
  BY FS_CardinalityType
<1>2. Bad = {}
  <2>. SUFFICES ASSUME Bad # {} PROVE FALSE
    OBVIOUS
  <2>0. Bad \in SUBSET Nat
    BY <1>1
  <2>1. PICK b \in Bad : \A j \in Bad : ~(j < b)
    BY <2>0, Least
  <2>2. b \in Nat /\ b <= Cardinality(F) /\ Cardinality(Lowest(b, F)) # b
    BY <1>1, <2>1
  <2>3. b # 0
    <3>1. Lowest(0, F) = {}
      <4>1. \A p : {j \in F : j < p} \in SUBSET F
        OBVIOUS
      <4>2. \A p : Cardinality({j \in F : j < p}) \in Nat
        BY <4>1, FS_Subset, FS_CardinalityType
      <4>3. \A p : ~(Cardinality({j \in F : j < p}) < 0)
        BY <4>2
      <4>. QED BY <4>3 DEF Lowest
    <3>. QED BY <2>2, <3>1, FS_EmptySet
  <2>4. b - 1 \in Nat /\ b - 1 < Cardinality(F) /\ (b - 1) + 1 = b
    BY <1>1, <2>2, <2>3
  <2>5. Cardinality(Lowest(b - 1, F)) = b - 1
    <3>1. b - 1 \in 0 .. Cardinality(F) /\ b - 1 < b
      BY <1>1, <2>2, <2>4
    <3>. QED BY <2>1, <3>1
  <2>6. Cardinality(Lowest((b - 1) + 1, F)) = (b - 1) + 1
    BY <2>4, <2>5, OneMore
  <2>. QED BY <2>2, <2>4, <2>6
<1>3. n \in 0 .. Cardinality(F)
  BY <1>1
<1>. QED BY <1>2, <1>3

\* Where no page is allocated or freed, no process loses its pages.
LEMMA RoomKept ==
  ASSUME SameSize, UNCHANGED <<pages, usedPages>>,
         \A t \in ThreadAddr : tstate'[t] = "ready" /\ pages[tspace'[t]] = {} =>
             /\ tstate[t] = "ready" /\ tspace'[t] = tspace[t]
             /\ pcb[owner[tspace[t]]].exited => pcb'[owner'[tspace[t]]].exited
  PROVE  SameSize'
<1>1. FreePages' = FreePages
  BY DEF FreePages
<1>2. \A s \in SpaceAddr : pages'[s] # {} => Cardinality(pages'[s]) = MainSize
  BY DEF SameSize
<1>3. \A t \in ThreadAddr :
         tstate'[t] = "ready" /\ pages'[tspace'[t]] = {} /\ ~pcb'[owner'[tspace'[t]]].exited =>
             MainSize <= Cardinality(FreePages')
  BY <1>1 DEF SameSize
<1>. QED BY <1>2, <1>3 DEF SameSize

\* A PCB that has exited stays so, and no thread gets ready that was not.
LEMMA StayExited ==
  ASSUME Before, SameSize, UNCHANGED <<tspace, owner, pages, usedPages>>,
         \A t \in ThreadAddr : tstate'[t] = "ready" => tstate[t] = "ready",
         \A b \in PcbAddr : pcb[b].exited => pcb'[b].exited
  PROVE  SameSize'
<1>1. \A t \in ThreadAddr : tstate[t] = "ready" => owner[tspace[t]] \in PcbAddr
  BY OwnThings DEF Before, OrdinaryInv
<1>. QED BY <1>1, RoomKept

\* All steps but those in which pages are allocated or freed, or objects made.
LEMMA QuietSizes ==
  ASSUME Before, SameSize,
         \/ GiveWay \/ Dispatch \/ Over \/ doFork \/ EnterAllocatePCB \/ EnterCopySpace
         \/ EnterDeleteSpace \/ FreeSpace
         \/ EnterDeallocatePCB \/ ClearPid \/ ForgetPCB
         \/ doExit \/ Child \/ NoMoreChildren \/ Self \/ ExitSpace \/ Finish \/ doExec
         \/ UNCHANGED vars
  PROVE  SameSize'
<1>0. /\ OneAtATime /\ tstate \in [ThreadAddr -> {"unused", "ready", "asleep", "removed", "finished"}]
      /\ pcb \in [PcbAddr -> PcbType]
  BY DEF Before, Sound, ObjectInv, ProcessTypeOK, OrdinaryInv
<1>s. SleepInAcquire => \A t \in ThreadAddr : tstate'[t] = "ready" => tstate[t] = "ready"
  BY <1>0 DEF SleepInAcquire
<1>r. ASSUME NEW v, RemoveThread(v), NEW t \in ThreadAddr, tstate'[t] = "ready"
      PROVE  tstate[t] = "ready"
  BY <1>r DEF RemoveThread
<1>1. CASE \/ GiveWay \/ Dispatch \/ Over \/ doFork \/ ClearPid \/ NoMoreChildren \/ Self \/ ExitSpace
           \/ doExec \/ FreeSpace \/ UNCHANGED vars
  <2>1. UNCHANGED <<tstate, tspace, owner, pages, usedPages, pcb>>
    BY <1>1 DEF GiveWay, Dispatch, Over, doFork, ClearPid, NoMoreChildren, Self, ExitSpace, doExec,
       FreeSpace, vars, threadVars, spaceVars
  <2>. QED BY <2>1, StayExited
<1>2. CASE EnterAllocatePCB \/ EnterCopySpace \/ EnterDeleteSpace \/ EnterDeallocatePCB
  <2>1. UNCHANGED <<tspace, owner, pages, usedPages, pcb>>
    BY <1>2 DEF EnterAllocatePCB, EnterCopySpace, EnterDeleteSpace, EnterDeallocatePCB, SleepInAcquire,
       spaceVars
  <2>2. UNCHANGED tstate \/ SleepInAcquire
    BY <1>2 DEF EnterAllocatePCB, EnterCopySpace, EnterDeleteSpace, EnterDeallocatePCB
  <2>. QED BY <1>s, <2>1, <2>2, StayExited
<1>3. CASE ForgetPCB
  <2>1. UNCHANGED <<tspace, owner, pages, usedPages, pcb>>
    BY <1>3 DEF ForgetPCB, spaceVars
  <2>2. UNCHANGED tstate
    BY <1>0, <1>3, NobodyWakes DEF ForgetPCB, ReleasePcbs
  <2>. QED BY <2>1, <2>2, StayExited
<1>4. CASE doExit
  <2>1. UNCHANGED <<tspace, owner, pages, usedPages>> /\ pcb' = [pcb EXCEPT ![MyPcb].exited = TRUE]
    BY <1>4 DEF doExit, StartExit, spaceVars
  <2>2. \A t \in ThreadAddr : tstate'[t] = "ready" => tstate[t] = "ready"
    BY <1>r, <1>4 DEF doExit, StartExit
  <2>3. \A b \in PcbAddr : pcb[b].exited => pcb'[b].exited
    <3>. SUFFICES ASSUME NEW b \in PcbAddr, pcb[b].exited PROVE pcb'[b].exited
      OBVIOUS
    <3>1. CASE b = MyPcb
      BY <1>0, <2>1, <3>1 DEF PcbType
    <3>2. CASE b # MyPcb
      BY <1>0, <2>1, <3>2
    <3>. QED BY <3>1, <3>2
  <2>. QED BY <2>1, <2>2, <2>3, StayExited
<1>5. CASE Child
  <2>1. UNCHANGED <<tstate, tspace, owner, pages, usedPages>>
    BY <1>5 DEF Child, spaceVars
  <2>2. pcb' = pcb \/ pcb' = [pcb EXCEPT ![Head(Top.kids)].parent = NULL]
    BY <1>5 DEF Child
  <2>3. \A b \in PcbAddr : pcb[b].exited => pcb'[b].exited
    <3>. SUFFICES ASSUME NEW b \in PcbAddr, pcb[b].exited PROVE pcb'[b].exited
      OBVIOUS
    <3>1. CASE b = Head(Top.kids)
      BY <1>0, <2>2, <3>1 DEF PcbType
    <3>2. CASE b # Head(Top.kids)
      BY <1>0, <2>2, <3>2
    <3>. QED BY <3>1, <3>2
  <2>. QED BY <2>1, <2>3, StayExited
<1>6. CASE Finish
  <2>1. UNCHANGED <<tspace, owner, pages, usedPages, pcb>>
    BY <1>6 DEF Finish, spaceVars
  <2>2. \A t \in ThreadAddr : tstate'[t] = "ready" => tstate[t] = "ready"
    BY <1>0, <1>6 DEF Finish
  <2>. QED BY <2>1, <2>2, StayExited
<1>. QED BY <1>1, <1>2, <1>3, <1>4, <1>5, <1>6

\* A new PCB is nobody's yet, a deleted one was that of a process that exited.
LEMMA PcbSizes ==
  ASSUME Before, SameSize, AllocatePCB \/ DestroyPCB
  PROVE  SameSize'
<1>0. /\ Sound /\ OneAtATime /\ FramesInOrder /\ SpacesInUse /\ Owners
      /\ pcb \in [PcbAddr -> PcbType]
  BY DEF Before, Sound, ObjectInv, OrdinaryInv, Ordinary
<1>o. \A t \in ThreadAddr : tstate[t] = "ready" => owner[tspace[t]] \in PcbAddr
  BY <1>0, OwnThings
<1>1. CASE AllocatePCB
  <2>1. current # NULL /\ Here = "findPid"
    BY <1>1, AtHere DEF AllocatePCB
  <2>2. ~Exiting
    <3>1. Lower(stack[current]) = {"copySpace", "user"} /\ \A p : Within(p) <=> p = Here \/ p \in Lower(stack[current])
      BY <1>0, <2>1, Points
    <3>. QED BY <2>1, <3>1 DEF Exiting
  <2>3. UNCHANGED <<tspace, owner, pages, usedPages>>
    BY <1>1 DEF AllocatePCB, Crash, threadVars, spaceVars
  <2>4. UNCHANGED tstate
    BY <1>0, <1>1, NobodyWakes DEF AllocatePCB, Crash, threadVars, ReleasePcbs
  <2>5. \/ pcb' = pcb
        \/ \E pid, b : pcb' = [pcb EXCEPT ![b] = NewPCB(pid)] /\ b \in PcbAddr /\ pcb[b].state # "live"
    BY <1>0, <1>1 DEF AllocatePCB, Crash, Fresh, PcbState
  <2>6. \A b \in PcbAddr : pcb[b].state = "live" => pcb'[b] = pcb[b]
    BY <1>0, <2>5
  <2>7. \A t \in ThreadAddr : tstate[t] = "ready" => pcb[owner[tspace[t]]].state = "live"
    BY <1>0, <2>2 DEF Owners, Live
  <2>. QED BY <1>o, <2>3, <2>4, <2>6, <2>7, RoomKept
<1>2. CASE DestroyPCB
  <2>0. current # NULL /\ Here = "pcbDtor"
    <3>1. current # NULL /\ Here \in {"pcbDtor", "pcbFree"}
      BY <1>2, AtHere DEF DestroyPCB
    <3>2. Here # "pcbFree"
      BY <1>0, <3>1, Points
    <3>. QED BY <3>1, <3>2
  <2>. DEFINE v == Victim(Top.pcb)
  <2>1. v # NULL => v \in ThreadAddr /\ tstate[v] = "finished"
    BY <2>0, NoVictimRuns
  <2>2. /\ tspace' = [t \in ThreadAddr |-> IF t = v THEN NULL ELSE tspace[t]]
        /\ RemoveThread(v)
        /\ pcb' = [pcb EXCEPT ![Top.pcb].state = "freed", ![Top.pcb].thread = IF v = NULL THEN @ ELSE NULL]
        /\ UNCHANGED <<owner, pages, usedPages>>
    BY <1>2 DEF DestroyPCB, spaceVars
  <2>. HIDE DEF v
  <2>3. ASSUME NEW t \in ThreadAddr, tstate'[t] = "ready"
        PROVE  tstate[t] = "ready" /\ tspace'[t] = tspace[t]
    <3>1. tstate[t] = "ready"
      BY <2>2, <2>3 DEF RemoveThread
    <3>2. t # v
      BY <2>1, <3>1, ProcessAssumption
    <3>. QED BY <2>2, <3>1, <3>2
  <2>4. \A b \in PcbAddr : pcb[b].exited => pcb'[b].exited
    <3>. SUFFICES ASSUME NEW b \in PcbAddr, pcb[b].exited PROVE pcb'[b].exited
      OBVIOUS
    <3>1. CASE b = Top.pcb
      BY <1>0, <2>2, <3>1 DEF PcbType
    <3>2. CASE b # Top.pcb
      BY <1>0, <2>2, <3>2
    <3>. QED BY <3>1, <3>2
  <2>. QED BY <1>o, <2>2, <2>3, <2>4, RoomKept
<1>. QED BY <1>1, <1>2

\* The child that starts has the pages doFork made for it.
LEMMA ForkSizes ==
  ASSUME Before, SameSize, ForkThread
  PROVE  SameSize'
<1>0. /\ Sound /\ FramesInOrder /\ SpacesInUse /\ current # NULL /\ Here = "forkThread"
      /\ tstate \in [ThreadAddr -> {"unused", "ready", "asleep", "removed", "finished"}]
      /\ tspace \in [ThreadAddr -> SpaceAddr \cup {NULL}] /\ owner \in [SpaceAddr -> PcbAddr \cup {NULL}]
      /\ pcb \in [PcbAddr -> PcbType]
  BY AtHere DEF Before, Sound, ObjectInv, ProcessTypeOK, OrdinaryInv, ForkThread
<1>1. Top.space \in SpaceAddr /\ Top.pcb \in PcbAddr
  BY <1>0, Points DEF FrameType
<1>2. PICK t \in ThreadAddr :
         /\ tstate' = [tstate EXCEPT ![t] = "ready"]
         /\ tspace' = [tspace EXCEPT ![t] = Top.space]
         /\ pcb' = [pcb EXCEPT ![Top.pcb].thread = t, ![Top.pcb].parent = MyPcb,
                               ![MyPcb].children = Append(@, Top.pcb)]
  BY <1>0 DEF ForkThread, Fresh
<1>3. owner' = [owner EXCEPT ![Top.space] = Top.pcb] /\ UNCHANGED <<pages, usedPages>>
  BY DEF ForkThread
<1>4. tspace'[t] = Top.space /\ pages[Top.space] # {}
  BY <1>0, <1>2 DEF SpacesInUse
<1>5. \A u \in ThreadAddr : u # t /\ tstate'[u] = "ready" =>
         tstate[u] = "ready" /\ tspace'[u] = tspace[u] /\ owner'[tspace[u]] = owner[tspace[u]]
  <2>. SUFFICES ASSUME NEW u \in ThreadAddr, u # t, tstate'[u] = "ready"
                PROVE  tstate[u] = "ready" /\ tspace'[u] = tspace[u] /\ owner'[tspace[u]] = owner[tspace[u]]
    OBVIOUS
  <2>1. tstate[u] = "ready" /\ tspace'[u] = tspace[u]
    BY <1>0, <1>2
  <2>2. tspace[u] # Top.space /\ tspace[u] \in SpaceAddr
    BY <1>0, <2>1, OwnThings DEF SpacesInUse
  <2>. QED BY <1>0, <1>1, <1>3, <2>1, <2>2
<1>6. MyPcb \in PcbAddr /\ \A u \in ThreadAddr : tstate[u] = "ready" => owner[tspace[u]] \in PcbAddr
  BY <1>0, OwnThings
<1>7. \A b \in PcbAddr : pcb'[b].exited = pcb[b].exited
  <2>. SUFFICES ASSUME NEW b \in PcbAddr PROVE pcb'[b].exited = pcb[b].exited
    OBVIOUS
  <2>. DEFINE r == [pcb EXCEPT ![Top.pcb].thread = t, ![Top.pcb].parent = MyPcb]
  <2>1. r[b].exited = pcb[b].exited /\ r \in [PcbAddr -> PcbType]
    BY <1>0, <1>1, <1>6 DEF PcbType
  <2>2. pcb' = [r EXCEPT ![MyPcb].children = Append(@, Top.pcb)]
    BY <1>2
  <2>. HIDE DEF r
  <2>3. pcb'[b].exited = r[b].exited
    BY <1>6, <2>1, <2>2 DEF PcbType
  <2>. QED BY <2>1, <2>3
<1>. QED BY <1>3, <1>4, <1>5, <1>6, <1>7, RoomKept

\* The tables the code makes, and the one it gives back.
LEMMA TableSizes ==
  ASSUME Before, SameSize, Sound', ExecSize \subseteq {MainSize},
         CopySpace \/ Load \/ DeleteSpace, ExecFits
  PROVE  SameSize'
<1>0. /\ Sound /\ OneAtATime /\ FramesInOrder /\ SpacesInUse /\ current # NULL
      /\ pages \in [SpaceAddr -> SUBSET Page]
      /\ tspace \in [ThreadAddr -> SpaceAddr \cup {NULL}]
  BY AtHere DEF Before, Sound, ObjectInv, ProcessTypeOK, OrdinaryInv, Ordinary, CopySpace, Load, DeleteSpace
<1>m. /\ current \in ThreadAddr /\ tstate[current] = "ready" /\ Mine \in SpaceAddr /\ Mine = tspace[current]
  BY <1>0, OwnThings DEF Mine, me
<1>n. MainSize \in Nat /\ MainSize > 0
  BY ProcessAssumption
<1>f. FreePages \in SUBSET Nat /\ IsFiniteSet(FreePages) /\ Cardinality(FreePages) \in Nat
  <2>1. IsFiniteSet(Page) /\ Page \subseteq Nat
    BY FS_Interval, ProcessAssumption DEF Page
  <2>. QED BY <2>1, FS_Subset, FS_CardinalityType DEF FreePages
<1>l. \A n \in Nat : n <= Cardinality(FreePages) => Cardinality(Lowest(n, FreePages)) = n
  BY <1>f, LowestCounts
<1>e. Cardinality({}) = 0
  BY FS_EmptySet
<1>1. CASE CopySpace
  <2>1. Here = "copyPages"
    BY <1>1, AtHere DEF CopySpace
  <2>2. /\ Cardinality(pages[Mine]) <= Cardinality(FreePages)
        /\ pages' = [pages EXCEPT ![Top.space] = Lowest(Cardinality(pages[Mine]), FreePages)]
        /\ UNCHANGED <<tspace, owner, pcb>>
    BY <1>1 DEF CopySpace
  <2>3. UNCHANGED tstate
    BY <1>0, <1>1, NobodyWakes DEF CopySpace, ReleaseMm
  <2>4. \A t \in ThreadAddr : ~Bare(t)
    BY <2>1 DEF Bare
  <2>5. \A t \in ThreadAddr : tstate[t] = "ready" =>
           tspace[t] # Top.space /\ pages[tspace[t]] # {} /\ tspace[t] # NULL
    BY <1>0, <2>1, <2>4 DEF SpacesInUse
  <2>6. Cardinality(pages[Mine]) = MainSize
    BY <1>m, <2>5 DEF SameSize
  <2>7. \A s \in SpaceAddr : pages'[s] = pages[s] \/ Cardinality(pages'[s]) = MainSize
    BY <1>0, <1>n, <1>l, <2>2, <2>6
  <2>8. \A t \in ThreadAddr : tstate'[t] = "ready" => pages'[tspace'[t]] # {}
    BY <1>0, <2>2, <2>3, <2>5
  <2>. QED BY <2>7, <2>8 DEF SameSize
<1>2. CASE Load
  <2>1. Here = "load"
    BY <1>2, AtHere DEF Load
  <2>2. Top.n = MainSize
    <3>1. Top \in Calls /\ Top.at = "load"
      BY <1>0, <2>1, Points
    <3>. QED BY <1>0, <3>1 DEF FramesInOrder, InOrder
  <2>3. MainSize <= Cardinality(FreePages)
    BY <2>1, <2>2 DEF ExecFits
  <2>4. PICK s \in SpaceAddr :
          /\ sstate[s] # "live"
          /\ pages' = [pages EXCEPT ![s] = Lowest(MainSize, FreePages)]
          /\ tspace' = [tspace EXCEPT ![current] = s]
    <3>1. ~(Top.n > Cardinality(FreePages))
      BY <1>n, <1>f, <2>2, <2>3
    <3>2. DOMAIN sstate = SpaceAddr
      BY <1>0 DEF Sound, ObjectInv, ProcessTypeOK
    <3>. QED BY <1>0, <1>2, <2>2, <3>1, <3>2 DEF Load, Fresh, me
  <2>5. UNCHANGED tstate
    BY <1>2 DEF Load
  <2>6. Cardinality(Lowest(MainSize, FreePages)) = MainSize
    BY <1>n, <1>l, <2>3
  <2>7. \A x \in SpaceAddr : pages'[x] = pages[x] \/ Cardinality(pages'[x]) = MainSize
    BY <1>0, <2>4, <2>6
  <2>8. \A t \in ThreadAddr : tstate'[t] = "ready" => pages'[tspace'[t]] # {}
    <3>. SUFFICES ASSUME NEW t \in ThreadAddr, tstate[t] = "ready" PROVE pages'[tspace'[t]] # {}
      BY <2>5
    <3>1. CASE t = current
      BY <1>0, <1>n, <1>e, <1>m, <2>4, <2>6, <3>1
    <3>2. CASE t # current
      <4>1. pages[tspace[t]] # {} /\ tspace[t] # s /\ tspace[t] # NULL
        BY <1>0, <2>4, <3>2 DEF SpacesInUse, Bare
      <4>. QED BY <1>0, <2>4, <3>2, <4>1
    <3>. QED BY <3>1, <3>2
  <2>. QED BY <2>7, <2>8 DEF SameSize
<1>3. CASE DeleteSpace
  <2>1. Here = "freePages" /\ Top.space = Mine
    BY <1>0, <1>3, AtHere DEF DeleteSpace, FramesInOrder
  <2>2. ~Bare(current)
    BY <2>1 DEF Bare
  <2>3. pages[Mine] # {}
    BY <1>0, <1>m, <2>2 DEF SpacesInUse
  <2>4. pages' = [pages EXCEPT ![Mine] = {}] /\ usedPages' = usedPages \ pages[Mine]
    BY <1>3, <2>1, <2>3 DEF DeleteSpace, DeallocatePages
  <2>5. Cardinality(pages[Mine]) = MainSize
    BY <1>m, <2>3 DEF SameSize
  <2>6. pages[Mine] \subseteq FreePages'
    BY <1>0, <1>m, <2>4 DEF FreePages
  <2>7. IsFiniteSet(FreePages')
    <3>1. IsFiniteSet(Page)
      BY FS_Interval, ProcessAssumption DEF Page
    <3>. QED BY <3>1, FS_Subset DEF FreePages
  <2>8. MainSize <= Cardinality(FreePages')
    BY <2>5, <2>6, <2>7, FS_Subset
  <2>9. \A x \in SpaceAddr : pages'[x] # {} => pages'[x] = pages[x]
    BY <1>0, <2>4
  <2>. QED BY <2>8, <2>9 DEF SameSize
<1>. QED BY <1>1, <1>2, <1>3

\* If all programs are of one size, memory that was enough for one of them is
\* enough for another.
LEMMA SameSizeFits ==
  ASSUME Sound, OrdinaryInv, SameSize, ExecSize \subseteq {MainSize}
  PROVE  ExecFits
<1>. SUFFICES ASSUME Here = "load" PROVE Top.n <= Cardinality(FreePages)
  BY DEF ExecFits
<1>0. FramesInOrder /\ SpacesInUse /\ Owners /\ current # NULL
  BY DEF OrdinaryInv, Here
<1>1. /\ Top \in Calls /\ Lower(stack[current]) = {"user"}
      /\ \A p : Within(p) <=> p = Here \/ p \in Lower(stack[current])
      /\ Top.at = "load"
  BY <1>0, Points
<1>2. Top.n = MainSize
  BY <1>0, <1>1 DEF FramesInOrder, InOrder
<1>3. /\ current \in ThreadAddr /\ tstate[current] = "ready" /\ Mine \in SpaceAddr /\ Mine = tspace[current]
  BY <1>0, OwnThings DEF Mine, me
<1>4. pages[Mine] = {}
  BY <1>0, <1>3 DEF SpacesInUse, Sound, EmptyUntilFilled
<1>5. ~pcb[owner[Mine]].exited
  BY <1>0, <1>1, <1>3 DEF Owners, Exiting
<1>. QED BY <1>2, <1>3, <1>4, <1>5 DEF SameSize

\* SameSize holds after every step.
LEMMA SameSizeStep ==
  ASSUME Before, SameSize, ExecSize \subseteq {MainSize}, Sound', [ProcessNext]_vars
  PROVE  SameSize'
<1>1. ExecFits
  BY SameSizeFits DEF Before
<1>2. CASE GiveWay \/ Dispatch \/ Over \/ NullSpace
  BY <1>2, QuietSizes, MemoryStays
<1>3. CASE doFork \/ EnterAllocatePCB \/ AllocatePCB \/ EnterCopySpace \/ CopyFails \/ CopySpace \/ ForkThread
  BY <1>1, <1>3, QuietSizes, PcbSizes, MemoryStays, TableSizes, ForkSizes
<1>4. CASE EnterDeleteSpace \/ DeleteSpace \/ FreeSpace
  BY <1>1, <1>4, QuietSizes, TableSizes
<1>5. CASE DestroyPCBSpace \/ DestroyPCB \/ EnterDeallocatePCB \/ ClearPid \/ ForgetPCB
  BY <1>5, NothingLeftOver, PcbSizes, QuietSizes
<1>6. CASE doExit \/ Child \/ ChildIsFreed \/ NoMoreChildren \/ Self \/ ExitSpace \/ Finish
  BY <1>6, NothingLeftOver, QuietSizes
<1>7. CASE doJoin \/ JoinWaits \/ JoinDeletes \/ doKill \/ KillFreed \/ KillReturns
  BY <1>7, NoJoinNoKill
<1>8. CASE doExec \/ Load
  BY <1>1, <1>8, QuietSizes, TableSizes
<1>9. CASE UNCHANGED vars
  BY <1>9, QuietSizes
<1>. QED BY <1>2, <1>3, <1>4, <1>5, <1>6, <1>7, <1>8, <1>9 DEF ProcessNext

\* It holds of the first process.
LEMMA SameSizeStart ==
  ASSUME ProcessInit
  PROVE  SameSize
<1>1. Cardinality(0 .. MainSize - 1) = MainSize /\ 0 \in 0 .. MainSize - 1
  BY FS_Interval, ProcessAssumption
<1>2. /\ \A s \in SpaceAddr : pages[s] # {} => pages[s] = 0 .. MainSize - 1
      /\ \A t \in ThreadAddr : tstate[t] = "ready" => t = main
      /\ tspace[main] = mainSpace /\ pages[mainSpace] = 0 .. MainSize - 1
  BY ProcessAssumption DEF ProcessInit
<1>. QED BY <1>1, <1>2 DEF SameSize

\* In a step of such programs every Exec finds its memory.
LEMMA NobodyStarves ==
  ASSUME ExecFits, ObjectInv, FramesInOrder, current # NULL => Top.n \in Nat,
         [ProcessNext]_vars, ~starved
  PROVE  ~starved'
<1>f. Cardinality(FreePages) \in Nat
  <2>1. IsFiniteSet(Page)
    BY FS_Interval, ProcessAssumption DEF Page
  <2>. QED BY <2>1, FS_Subset, FS_CardinalityType DEF FreePages
<1>2. CASE GiveWay \/ Dispatch \/ Over \/ NullSpace
  BY <1>2 DEF GiveWay, Dispatch, Over, NullSpace, Crash, vars, histVars, flaws
<1>3. CASE doFork \/ EnterAllocatePCB \/ AllocatePCB \/ CopyFails \/ CopySpace
  BY <1>3 DEF doFork, EnterAllocatePCB, AllocatePCB, CopyFails, CopySpace, SleepInAcquire,
     Crash, histVars, flaws
<1>4. CASE EnterCopySpace \/ ForkThread
  BY <1>4 DEF EnterCopySpace, ForkThread, SleepInAcquire, histVars, flaws
<1>6. CASE EnterDeleteSpace \/ DeleteSpace \/ FreeSpace
  BY <1>6 DEF EnterDeleteSpace, DeleteSpace, FreeSpace, SleepInAcquire, Crash, histVars, flaws
<1>7. CASE DestroyPCBSpace \/ DestroyPCB \/ EnterDeallocatePCB \/ ClearPid \/ ForgetPCB
  BY <1>7 DEF DestroyPCBSpace, DestroyPCB, EnterDeallocatePCB, ClearPid, ForgetPCB,
     SleepInAcquire, histVars, flaws
<1>8. CASE doExit \/ Child \/ ChildIsFreed \/ NoMoreChildren \/ Self \/ ExitSpace \/ Finish
  BY <1>8 DEF doExit, StartExit, Child, ChildIsFreed, NoMoreChildren, Self, ExitSpace, Finish,
     histVars, flaws
<1>9. CASE doJoin \/ JoinWaits \/ JoinDeletes \/ doKill \/ KillFreed \/ KillReturns
  BY <1>9 DEF doJoin, JoinWaits, JoinDeletes, doKill, KillFreed, KillReturns, Crash, histVars, flaws
<1>10. CASE doExec
  BY <1>10 DEF doExec, flaws
<1>11. CASE Load
  <2>1. current # NULL /\ Here = "load"
    BY <1>11, AtHere DEF Load
  <2>2. ~(Top.n > Cardinality(FreePages))
    BY <1>f, <2>1 DEF ExecFits
  <2>. QED BY <1>11, <2>2 DEF Load
<1>12. CASE UNCHANGED vars
  BY <1>12 DEF vars, histVars, flaws
<1>. QED BY <1>2, <1>3, <1>4, <1>6, <1>7, <1>8, <1>9, <1>10, <1>11, <1>12 DEF ProcessNext

\* The inductive invariant of programs of one size that do not Join or Kill, until
\* a relic's memory is handed out again.
THEOREM SameSizeInvariant ==
  ASSUME Ordinary, ExecSize \subseteq {MainSize}
  PROVE  ProcessSpec => [](~reused => OrdinaryInv /\ SameSize /\ ~starved)
<1>. DEFINE J == ~reused => OrdinaryInv /\ SameSize /\ ~starved
<1>1. ProcessInit => J
  BY OrdinaryStart, SameSizeStart DEF ProcessInit
<1>2. Sound /\ Sound' /\ J /\ [ProcessNext]_vars => J'
  <2>. SUFFICES ASSUME Sound, Sound', J, [ProcessNext]_vars, ~reused'
                PROVE  OrdinaryInv' /\ SameSize' /\ ~starved'
    OBVIOUS
  <2>1. ~reused
    BY FlawsStay
  <2>2. OrdinaryInv /\ SameSize /\ ~starved
    BY <2>1
  <2>3. ExecFits
    BY <2>2, SameSizeFits
  <2>4. current # NULL => Top.n \in Nat
    BY <2>2, Points DEF OrdinaryInv, FrameType
  <2>5. ~starved'
    BY <2>2, <2>3, <2>4, NobodyStarves DEF Sound, OrdinaryInv
  <2>6. Before
    BY <2>2, <2>5 DEF Before, NoFlaw
  <2>. QED BY <2>2, <2>5, <2>6, OrdinaryStep, SameSizeStep
<1>3. ProcessSpec => []Sound
  BY ProcessInvariant, PTL DEF Sound
<1>. QED BY <1>1, <1>2, <1>3, PTL DEF ProcessSpec

\* Programs of one size never find too little memory for an Exec: one that was
\* enough for the old program is enough for the new one, and nobody runs between.
THEOREM OneSizeAlwaysFits ==
  ASSUME Ordinary, ExecSize \subseteq {MainSize}
  PROVE  ProcessSpec => [](~reused => NoFlaw)
<1>1. (~reused => OrdinaryInv /\ SameSize /\ ~starved) => (~reused => NoFlaw)
  BY DEF NoFlaw
<1>. QED BY <1>1, SameSizeInvariant, PTL
=============================================================================
