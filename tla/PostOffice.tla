----------------------------- MODULE PostOffice -----------------------------
(***************************************************************************)
(* network/post.cc over machine/network.cc, with the mailboxes of          *)
(* threads/synchlist.cc and the clients of network/nettest.cc.  Machines   *)
(* are Nachos processes connected by datagram sockets, which keep the      *)
(* order; Network::Send loses packets at random unless reliability is 1.   *)
(*                                                                         *)
(* Locks and semaphores are one step per operation, as Synch justifies: a  *)
(* critical section of a SynchList is one step, and Condition::Wait is     *)
(* being in waiters.  A message is its headers and an identity; lengths,   *)
(* which every client keeps below MaxMailSize, are left out.               *)
(***************************************************************************)
EXTENDS Naturals, Sequences, FiniteSets

CONSTANTS
    Machine, Box, Client,
    Host,     \* the machine each client thread runs on
    Script,   \* the calls each client makes, one after the other
    Workload, \* which clients may run together
    NoMail, NoClient

\* A message: the headers of PostOffice and Network, and its identity.
Mail == [to : Machine, box : Box, from : Machine, reply : Box, id : Client \X Nat]

\* The calls a client can make.
CallType ==
    [op : {"send"}, to : Machine, box : Box, reply : Box] \cup [op : {"receive"}, box : Box]
    \cup [op : {"reply"}, reply : Box] \cup [op : {"halt"}]

\* Clients name boxes that exist, as the ASSERTs of post.cc demand, and reply to
\* what they have received.
ASSUME PostAssumption ==
    /\ Host \in [Client -> Machine] /\ Script \in [Client -> Seq(CallType)]
    /\ \A c \in Client : \A i \in DOMAIN Script[c] : Script[c][i].op = "reply" =>
          \E j \in 1 .. i - 1 : Script[c][j].op = "receive"
    /\ Workload \subseteq SUBSET Client
    /\ NoClient \notin Client /\ NoMail \notin Mail

VARIABLES
    power,            \* "off", "up" or "halted"
    reliable,         \* reliability = 1
    running,          \* the clients of this execution
    socket,           \* packets that wait in each machine's socket
    inHdr,            \* Network::inHdr and inbox; NoMail when length = 0
    sendIrq,          \* NetworkSendDone interrupts that are queued
    messageAvailable, messageSent, sendLock,
    worker, hand,     \* the postal worker, and the mail in its buffer
    boxes, waiters,   \* each mailbox's messages, and who waits in Remove
    step, stage, last, \* each client's call, how far it is, the last mail it received
    got, sent         \* history: everything it received; all that was sent and not lost

netVars  == <<socket, inHdr, sendIrq, messageAvailable, messageSent>>
postVars == <<worker, hand, boxes, waiters>>
vars == <<power, reliable, running, netVars, sendLock, postVars, step, stage, last, got, sent>>

\* The calls of a client, and MailTest: a message to box 0 of the other
\* machine, its message from our box 0, the acknowledgment to the box it names,
\* and the other's acknowledgment from our box 1.  Mutants: halting without the
\* acknowledgment; naming box 0 for it.
SendTo(m, b, reply) == [op |-> "send", to |-> m, box |-> b, reply |-> reply]
ReceiveFrom(b)      == [op |-> "receive", box |-> b]
Reply(reply)        == [op |-> "reply", reply |-> reply]
HaltMachine         == [op |-> "halt"]
MailTestHasty(farAddr) == <<SendTo(farAddr, 0, 1), ReceiveFrom(0), Reply(1), HaltMachine>>
MailTestWrongBox(farAddr) ==
    <<SendTo(farAddr, 0, 0), ReceiveFrom(0), Reply(0), ReceiveFrom(1), HaltMachine>>
MailTest(farAddr) ==
    <<SendTo(farAddr, 0, 1), ReceiveFrom(0), Reply(1), ReceiveFrom(1), HaltMachine>>

Call(c) == Script[c][step[c]]
Calls(c, ops) ==
    c \in running /\ power[Host[c]] = "up" /\ step[c] <= Len(Script[c]) /\ Call(c).op \in ops

\* The message a send or a reply hands to the post office.
Outgoing(c) ==
    [to |-> IF Call(c).op = "send" THEN Call(c).to ELSE last[c].from,
     box |-> IF Call(c).op = "send" THEN Call(c).box ELSE last[c].reply,
     from |-> Host[c], reply |-> Call(c).reply, id |-> <<c, step[c]>>]

PostInit ==
    /\ power = [m \in Machine |-> "off"]
    /\ reliable \in BOOLEAN
    /\ running \in Workload
    /\ socket = [m \in Machine |-> << >>]
    /\ inHdr = [m \in Machine |-> NoMail]
    /\ sendIrq = [m \in Machine |-> 0]
    /\ messageAvailable = [m \in Machine |-> 0] /\ messageSent = [m \in Machine |-> 0]
    /\ sendLock = [m \in Machine |-> NoClient]
    /\ worker = [m \in Machine |-> "wait"] /\ hand = [m \in Machine |-> NoMail]
    /\ boxes = [m \in Machine |-> [b \in Box |-> << >>]]
    /\ waiters = boxes
    /\ step = [c \in Client |-> 1] /\ stage = [c \in Client |-> "idle"]
    /\ last = [c \in Client |-> NoMail] /\ got = [c \in Client |-> << >>] /\ sent = {}

\* A machine starts: the constructors bind the socket and fork the worker.
Boot(m) ==
    /\ power[m] = "off"
    /\ power' = [power EXCEPT ![m] = "up"]
    /\ UNCHANGED <<reliable, running, netVars, sendLock, postVars, step, stage, last, got, sent>>

\* main.cc waits two seconds before MailTest, which stands for: by then the
\* other machine has started.
Delayed == \A m \in Machine : power[m] # "off"

-----------------------------------------------------------------------------
(* PostOffice::Send                                                        *)

AcquireSend(c) ==
    /\ Calls(c, {"send", "reply"}) /\ Delayed
    /\ stage[c] = "idle" /\ sendLock[Host[c]] = NoClient
    /\ sendLock' = [sendLock EXCEPT ![Host[c]] = c]
    /\ stage' = [stage EXCEPT ![c] = "send"]
    /\ UNCHANGED <<power, reliable, running, netVars, postVars, step, last, got, sent>>

\* Network::Send schedules the interrupt, and loses the packet or puts it into
\* the socket.
Send(c) ==
    LET mail == Outgoing(c) IN
    /\ Calls(c, {"send", "reply"}) /\ stage[c] = "send"
    /\ sendIrq' = [sendIrq EXCEPT ![Host[c]] = @ + 1]
    /\ \/ /\ socket' = [socket EXCEPT ![mail.to] = Append(@, mail)]
          /\ sent' = sent \cup {mail}
       \/ ~reliable /\ UNCHANGED <<socket, sent>>
    /\ stage' = [stage EXCEPT ![c] = "wait"]
    /\ UNCHANGED <<power, reliable, running, inHdr, messageAvailable, messageSent, sendLock, postVars,
                   step, last, got>>

PacketSent(m) == messageSent' = [messageSent EXCEPT ![m] = @ + 1]

SendDone(m) ==
    /\ power[m] = "up" /\ sendIrq[m] > 0
    /\ sendIrq' = [sendIrq EXCEPT ![m] = @ - 1]
    /\ PacketSent(m)
    /\ UNCHANGED <<power, reliable, running, socket, inHdr, messageAvailable, sendLock, postVars,
                   step, stage, last, got, sent>>

AwaitSent(c) ==
    /\ Calls(c, {"send", "reply"}) /\ stage[c] = "wait" /\ messageSent[Host[c]] > 0
    /\ messageSent' = [messageSent EXCEPT ![Host[c]] = @ - 1]
    /\ stage' = [stage EXCEPT ![c] = "release"]
    /\ UNCHANGED <<power, reliable, running, socket, inHdr, sendIrq, messageAvailable, sendLock, postVars,
                   step, last, got, sent>>

ReleaseSend(c) ==
    /\ Calls(c, {"send", "reply"}) /\ stage[c] = "release"
    /\ sendLock' = [sendLock EXCEPT ![Host[c]] = NoClient]
    /\ stage' = [stage EXCEPT ![c] = "idle"]
    /\ step' = [step EXCEPT ![c] = @ + 1]
    /\ UNCHANGED <<power, reliable, running, netVars, postVars, last, got, sent>>

-----------------------------------------------------------------------------
(* Arrival, the postal worker, and PostOffice::Receive                     *)

IncomingPacket(m) == messageAvailable' = [messageAvailable EXCEPT ![m] = @ + 1]

\* CheckPktAvail when it reads a packet.
CheckPktAvail(m) ==
    /\ power[m] = "up" /\ inHdr[m] = NoMail /\ socket[m] # << >>
    /\ inHdr' = [inHdr EXCEPT ![m] = Head(socket[m])]
    /\ socket' = [socket EXCEPT ![m] = Tail(@)]
    /\ IncomingPacket(m)
    /\ UNCHANGED <<power, reliable, running, sendIrq, messageSent, sendLock, postVars, step, stage, last, got, sent>>

WorkerAwait(m) ==
    /\ power[m] = "up" /\ worker[m] = "wait" /\ messageAvailable[m] > 0
    /\ messageAvailable' = [messageAvailable EXCEPT ![m] = @ - 1]
    /\ worker' = [worker EXCEPT ![m] = "receive"]
    /\ UNCHANGED <<power, reliable, running, socket, inHdr, sendIrq, messageSent, sendLock,
                   hand, boxes, waiters, step, stage, last, got, sent>>

\* Network::Receive.
WorkerReceive(m) ==
    /\ power[m] = "up" /\ worker[m] = "receive"
    /\ hand' = [hand EXCEPT ![m] = inHdr[m]]
    /\ inHdr' = [inHdr EXCEPT ![m] = NoMail]
    /\ worker' = [worker EXCEPT ![m] = "put"]
    /\ UNCHANGED <<power, reliable, running, socket, sendIrq, messageAvailable, messageSent, sendLock,
                   boxes, waiters, step, stage, last, got, sent>>

\* MailBox::Put and SynchList::Append: the list grows and one waiter is woken.
\* Mutant: no Signal.
PutSilently(m, b) ==
    /\ boxes' = [boxes EXCEPT ![m][b] = Append(@, hand[m])]
    /\ UNCHANGED <<waiters, stage>>
Put(m, b) ==
    /\ boxes' = [boxes EXCEPT ![m][b] = Append(@, hand[m])]
    /\ IF waiters[m][b] = << >> THEN UNCHANGED <<waiters, stage>>
       ELSE /\ waiters' = [waiters EXCEPT ![m][b] = Tail(@)]
            /\ stage' = [stage EXCEPT ![Head(waiters[m][b])] = "woken"]

WorkerPut(m) ==
    /\ power[m] = "up" /\ worker[m] = "put"
    /\ Put(m, hand[m].box)
    /\ hand' = [hand EXCEPT ![m] = NoMail]
    /\ worker' = [worker EXCEPT ![m] = "wait"]
    /\ UNCHANGED <<power, reliable, running, netVars, sendLock, step, last, got, sent>>

\* SynchList::Remove on an empty list, at the first test or after a wake-up.
\* Mutant: if in place of while, so that a woken client takes what is not there.
Waits(c, m, b) ==
    /\ waiters' = [waiters EXCEPT ![m][b] = Append(@, c)]
    /\ stage' = [stage EXCEPT ![c] = "waiting"]
    /\ UNCHANGED <<step, last, got>>
FindsEmptyOnce(c, m, b) ==
    IF stage[c] = "woken"
    THEN /\ got' = [got EXCEPT ![c] = Append(@, NoMail)]
         /\ step' = [step EXCEPT ![c] = @ + 1] /\ stage' = [stage EXCEPT ![c] = "idle"]
         /\ UNCHANGED <<waiters, last>>
    ELSE Waits(c, m, b)
FindsEmpty(c, m, b) == Waits(c, m, b)

ReceiveWait(c) ==
    /\ Calls(c, {"receive"}) /\ stage[c] \in {"idle", "woken"}
    /\ boxes[Host[c]][Call(c).box] = << >>
    /\ FindsEmpty(c, Host[c], Call(c).box)
    /\ UNCHANGED <<power, reliable, running, netVars, sendLock, worker, hand, boxes, sent>>

\* SynchList::Remove and MailBox::Get.
ReceiveTake(c) ==
    LET here == Host[c]  box == Call(c).box IN
    /\ Calls(c, {"receive"}) /\ stage[c] \in {"idle", "woken"}
    /\ boxes[here][box] # << >>
    /\ last' = [last EXCEPT ![c] = Head(boxes[here][box])]
    /\ got' = [got EXCEPT ![c] = Append(@, Head(boxes[here][box]))]
    /\ boxes' = [boxes EXCEPT ![here][box] = Tail(@)]
    /\ stage' = [stage EXCEPT ![c] = "idle"]
    /\ step' = [step EXCEPT ![c] = @ + 1]
    /\ UNCHANGED <<power, reliable, running, netVars, sendLock, worker, hand, waiters, sent>>

\* interrupt->Halt(): the machine and all its threads stop.
Halt(c) ==
    /\ Calls(c, {"halt"})
    /\ power' = [power EXCEPT ![Host[c]] = "halted"]
    /\ UNCHANGED <<reliable, running, netVars, sendLock, postVars, step, stage, last, got, sent>>

ClientStep(c) ==
    \/ AcquireSend(c) \/ Send(c) \/ AwaitSent(c) \/ ReleaseSend(c)
    \/ ReceiveWait(c) \/ ReceiveTake(c) \/ Halt(c)
WorkerStep(m) == WorkerAwait(m) \/ WorkerReceive(m) \/ WorkerPut(m)

PostNext ==
    \/ \E m \in Machine : Boot(m) \/ SendDone(m) \/ CheckPktAvail(m) \/ WorkerStep(m)
    \/ \E c \in Client : ClientStep(c)

\* Nachos goes on while a thread is ready or an interrupt is queued.  No more
\* is needed: clients make finitely many calls, and no step is for nothing.
PostSpec == PostInit /\ [][PostNext]_vars /\ WF_vars(PostNext)

-----------------------------------------------------------------------------
(* Properties                                                              *)

PostTypeOK ==
    /\ \A m \in Machine : power[m] \in {"off", "up", "halted"}
    /\ \A m \in Machine : messageAvailable[m] \in 0..1 /\ messageSent[m] \in 0..1
    /\ \A m \in Machine : worker[m] \in {"wait", "receive", "put"}
    /\ \A c \in Client : stage[c] \in {"idle", "send", "wait", "release", "waiting", "woken"}

\* A packet is sent to a socket that exists, or SendToSocket aborts: of two
\* MailTests the one that halts first has been sent everything it will be sent.
NeverSendsToClosedSocket ==
    \A c \in Client : stage[c] = "send" /\ power[Host[c]] = "up" => power[Outgoing(c).to] = "up"

\* sendLock covers the packet until its interrupt: at most one is on its way
\* from a machine, and whoever waits for messageSent waits for its own.  (The
\* network's sendBusy, meant to assert this, is never set.)
OneOutstandingSend ==
    \A m \in Machine :
        /\ sendIrq[m] + messageSent[m] = Cardinality({c \in Client : Host[c] = m /\ stage[c] = "wait"})
        /\ sendIrq[m] + messageSent[m] <= 1

\* The worker that was told of a packet finds it: Receive never returns an empty
\* header, whose box number would trip the ASSERT of PostalDelivery.
WorkerFindsPacket == \A m \in Machine : worker[m] = "receive" => inHdr[m] # NoMail

\* Nobody sleeps on a mailbox that has mail for which nobody was woken.
NoMailStranded ==
    \A m \in Machine, b \in Box : waiters[m][b] # << >> =>
        Len(boxes[m][b]) <=
            Cardinality({c \in Client : Host[c] = m /\ stage[c] = "woken" /\ Call(c).box = b})

\* Each interrupt and each V of the post office meets the thread it is meant
\* for: the sender its own completion, the worker a packet, a receiver mail.
NoSignalAstray == PostTypeOK /\ OneOutstandingSend /\ WorkerFindsPacket /\ NoMailStranded

\* The messages for box b of a sequence, in their order.
Addressed(list, b) ==
    LET f[n \in 0 .. Len(list)] ==
          IF n = 0 THEN << >> ELSE IF list[n].box = b THEN Append(f[n - 1], list[n]) ELSE f[n - 1]
    IN f[Len(list)]

\* The mailboxes are queues that lose only at the sender: the mail for a box is
\* what the box holds, then the worker's hand, the network's buffer, the socket.
ListOf(mail) == IF mail = NoMail THEN << >> ELSE <<mail>>
InTransit(m) == ListOf(hand[m]) \o ListOf(inHdr[m]) \o socket[m]
MailFor(m, b) == boxes[m][b] \o Addressed(InTransit(m), b)

Service == INSTANCE MailService WITH
    posted <- sent,
    queue  <- [m \in Machine |-> [b \in Box |-> MailFor(m, b)]]

\* A mailbox is a queue: each message that is not lost when it is sent is received
\* at most once, unchanged and in the order of sending, whichever client takes it.
MailIsQueued == Service!MSSpec

\* On a reliable network MailTests complete, whatever else the machines do: a
\* client that ends with Halt gets there.
MailTestCompletes ==
    \A c \in {d \in Client : Script[d][Len(Script[d])].op = "halt"} :
        reliable /\ c \in running ~> power[Host[c]] = "halted"
=============================================================================
