------------------------------ MODULE Console -------------------------------
(***************************************************************************)
(* machine/console.cc and the ConsoleTest of userprog/progtest.cc: a       *)
(* one-character input buffer filled by a polling interrupt, an output     *)
(* that is busy until its interrupt, and a thread that echoes.             *)
(*                                                                         *)
(* The character 0xFF is not typed: as a char it equals EOF, which the     *)
(* device uses for an empty buffer.                                        *)
(***************************************************************************)
EXTENDS Naturals, Sequences, SequencesExt

CONSTANTS
    Char, Quit,  \* what may be typed, and the 'q' that ends the test
    EOF,         \* incoming when no character is buffered
    MaxTyped     \* bound on the length of the input

ASSUME ConsoleAssumption == Quit \in Char /\ EOF \notin Char /\ MaxTyped \in Nat

VARIABLES
    input, typed,           \* what is typed, and how much of it was read
    incoming, putBusy,      \* Console's fields
    writeIrq,               \* ConsoleWriteDone interrupts that are queued
    readAvail, writeDone,   \* the semaphores of ConsoleTest
    display,                \* what was written to the screen
    at, ch                  \* where ConsoleTest is, and its character

consoleVars == <<input, typed, incoming, putBusy, writeIrq, readAvail, writeDone, display, at, ch>>

ConsoleInit ==
    /\ input \in SeqOf(Char, MaxTyped)
    /\ typed = 0
    /\ incoming = EOF /\ putBusy = FALSE /\ writeIrq = 0
    /\ readAvail = 0 /\ writeDone = 0
    /\ display = << >>
    /\ at = "awaitChar" /\ ch = EOF

\* CheckCharAvail when PollFile sees a character; otherwise it does nothing but
\* schedule the next poll.
CheckCharAvail ==
    /\ incoming = EOF /\ typed < Len(input)
    /\ typed' = typed + 1
    /\ incoming' = input[typed + 1]
    /\ readAvail' = readAvail + 1
    /\ UNCHANGED <<input, putBusy, writeIrq, writeDone, display, at, ch>>

\* Console::WriteDone and the handler it calls.
WriteDone ==
    /\ writeIrq > 0
    /\ writeIrq' = writeIrq - 1
    /\ putBusy' = FALSE
    /\ writeDone' = writeDone + 1
    /\ UNCHANGED <<input, typed, incoming, readAvail, display, at, ch>>

AwaitChar ==
    /\ at = "awaitChar" /\ readAvail > 0
    /\ readAvail' = readAvail - 1
    /\ at' = "get"
    /\ UNCHANGED <<input, typed, incoming, putBusy, writeIrq, writeDone, display, ch>>

\* Mutant of GetChar: the buffer is not emptied.
GetCharKeeps ==
    /\ at = "get"
    /\ ch' = incoming
    /\ at' = "put"
    /\ UNCHANGED <<input, typed, incoming, putBusy, writeIrq, readAvail, writeDone, display>>

GetChar ==
    /\ at = "get"
    /\ ch' = incoming
    /\ incoming' = EOF
    /\ at' = "put"
    /\ UNCHANGED <<input, typed, putBusy, writeIrq, readAvail, writeDone, display>>

PutChar ==
    /\ at = "put"
    /\ display' = Append(display, ch)
    /\ putBusy' = TRUE
    /\ writeIrq' = writeIrq + 1
    /\ at' = "awaitWrite"
    /\ UNCHANGED <<input, typed, incoming, readAvail, writeDone, ch>>

AwaitWrite ==
    /\ at = "awaitWrite" /\ writeDone > 0
    /\ writeDone' = writeDone - 1
    /\ at' = IF ch = Quit THEN "done" ELSE "awaitChar"
    /\ UNCHANGED <<input, typed, incoming, putBusy, writeIrq, readAvail, display, ch>>

ConsoleTest == AwaitChar \/ GetChar \/ PutChar \/ AwaitWrite

ConsoleNext == CheckCharAvail \/ WriteDone \/ ConsoleTest

ConsoleSpec == ConsoleInit /\ [][ConsoleNext]_consoleVars

\* The poll and the write interrupt are scheduled, so they are delivered.
ConsoleFairness ==
    WF_consoleVars(CheckCharAvail) /\ WF_consoleVars(WriteDone) /\ WF_consoleVars(ConsoleTest)

-----------------------------------------------------------------------------
(* Properties                                                              *)

ConsoleTypeOK ==
    /\ incoming \in Char \cup {EOF} /\ putBusy \in BOOLEAN
    /\ writeIrq \in 0..1 /\ readAvail \in 0..1 /\ writeDone \in 0..1
    /\ at \in {"awaitChar", "get", "put", "awaitWrite", "done"}

\* No character is lost, repeated or overtaken between keyboard and screen: what
\* was read is what was displayed, then the echo's character, then the buffer.
EchoInOrder ==
    SubSeq(input, 1, typed) =
        display \o (IF at = "put" THEN <<ch>> ELSE << >>)
                \o (IF incoming # EOF THEN <<incoming>> ELSE << >>)

\* The ASSERT of PutChar: the character before it has been written.
PutFindsConsoleFree == at = "put" => ~putBusy

\* ConsoleTest and the device's two interrupts never get in each other's way.
EchoExact == ConsoleTypeOK /\ EchoInOrder /\ PutFindsConsoleFree

\* Everything that is typed appears, as far as the first 'q', and then the test
\* returns.
UpToQuit ==
    LET quits == {i \in DOMAIN input : input[i] = Quit} IN
    IF quits = {} THEN input ELSE SubSeq(input, 1, CHOOSE i \in quits : \A j \in quits : i <= j)

EchoCompletes == <>[](display = UpToQuit /\ (at = "done" <=> \E i \in DOMAIN input : input[i] = Quit))
=============================================================================
