----------------------------- MODULE MCDevices ------------------------------
(* main.cc starts file system work (-cp, -p, -t: a disk), the console test *)
(* (-c), or on a network kernel the mail test (-o); device says which one  *)
(* this run of Nachos is.                                                  *)
(*                                                                         *)
(* On the network two machines run MailTest with each other, while a third *)
(* thread sends through the post office of one of them; or one thread      *)
(* sends two messages to a box of its machine from which two others        *)
(* receive.                                                                *)
EXTENDS SynchDisk, Console, PostOffice, TLC

CONSTANTS m1, m2, a, b, s, s2, r, r2

Hosts   == a :> m1 @@ b :> m2 @@ s :> m1 @@ s2 :> m1 @@ r :> m1 @@ r2 :> m1
Scripts ==
    a :> MailTest(m2) @@ b :> MailTest(m1)
    @@ s :> <<SendTo(m1, 2, 2), SendTo(m1, 2, 2)>> @@ s2 :> <<SendTo(m1, 2, 2)>>
    @@ r :> <<ReceiveFrom(2), ReceiveFrom(2)>> @@ r2 :> <<ReceiveFrom(2)>>

VARIABLE device
deviceVars == <<diskVars, consoleVars, vars, device>>

\* Nobody types or mails where that device is not used.
Init ==
    /\ DiskInit /\ ConsoleInit /\ PostInit
    /\ device \in {"disk", "console", "network"}
    /\ device # "console" => input = << >>
    /\ device # "network" => running = {a, b, s2} /\ ~reliable

Disk    == device = "disk" /\ DiskNext /\ UNCHANGED <<consoleVars, vars, device>>
Display == device = "console" /\ ConsoleNext /\ UNCHANGED <<diskVars, vars, device>>
Network == device = "network" /\ PostNext /\ UNCHANGED <<diskVars, consoleVars, device>>

Next == Disk \/ Display \/ Network

\* The steps of disk and console are never enabled where they do not run; of the
\* machines on the network some one goes on as long as one can (PostSpec).
Spec == Init /\ [][Next]_deviceVars /\ DiskFairness /\ ConsoleFairness /\ WF_deviceVars(Network)

\* Every disk request returns and every echo completes: neither SynchDisk nor
\* ConsoleTest waits for an interrupt or a V that does not come.
DevicesComplete == RequestsReturn /\ EchoCompletes
=============================================================================
