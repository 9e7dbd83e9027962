---------------------------- MODULE MailService -----------------------------
(***************************************************************************)
(* What a PostOffice promises (network/post.h): a mailbox is a queue.      *)
(* Mail may be lost when it is sent; otherwise each message is received at *)
(* most once, as it was sent, and in the order of sending.                 *)
(***************************************************************************)
EXTENDS Sequences

CONSTANTS Client, Machine, Box
VARIABLES
    posted, \* the messages that were sent and not lost
    queue,  \* the mail on its way to, or in, each box of each machine
    got     \* what each client has received

MSInit ==
    /\ posted = {}
    /\ queue = [m \in Machine |-> [b \in Box |-> << >>]]
    /\ got = [c \in Client |-> << >>]

\* A new message goes to the end of the queue of the box it is addressed to.
Post ==
    \E mail \in posted' \ posted :
        /\ posted' = posted \cup {mail}
        /\ queue' = [queue EXCEPT ![mail.to][mail.box] = Append(@, mail)]
        /\ got' = got

Take(c, m, b) ==
    /\ got'[c] # got[c] /\ queue[m][b] # << >>
    /\ got' = [got EXCEPT ![c] = Append(@, Head(queue[m][b]))]
    /\ queue' = [queue EXCEPT ![m][b] = Tail(@)]
    /\ posted' = posted

MSNext == Post \/ \E c \in Client, m \in Machine, b \in Box : Take(c, m, b)

MSSpec == MSInit /\ [][MSNext]_<<posted, queue, got>>
=============================================================================
