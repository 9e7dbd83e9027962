------------------------------ MODULE Startup -------------------------------
(***************************************************************************)
(* threads/system.cc and threads/main.cc: how a command line becomes       *)
(* settings, global objects and commands.  A build is the set of symbols   *)
(* its Makefile defines; a line is the sequence of the words after         *)
(* "nachos".  Initialize and main go over the line one after the other,    *)
(* each knowing only its own flags.                                        *)
(***************************************************************************)
EXTENDS Integers, Sequences, SequencesExt

\* for (argc--, argv++; argc > 0; argc -= argCount, argv += argCount): Arg gives
\* argCount and what the word at position at makes of s.
Scan(line, start, Arg(_, _)) ==
    LET loop[k \in 0..Len(line)] ==
            IF k = 0 THEN [at |-> 1, s |-> start]
            ELSE LET now == loop[k - 1] IN
                 IF now.at > Len(line) \/ now.s.ended THEN now
                 ELSE LET arg == Arg(now.s, now.at) IN [at |-> now.at + arg.argCount, s |-> arg.s]
    IN  loop[Len(line)].s
Took(argCount, s) == [argCount |-> argCount, s |-> s]

\* An ASSERT(argc > n) that fails ends the program.
Needs(n, line, at, took, s) == IF at + n <= Len(line) THEN took ELSE Took(1, [s EXCEPT !.ended = TRUE])
Operand(line, at, n) == IF at + n <= Len(line) THEN line[at + n] ELSE ""

-----------------------------------------------------------------------------
(* Initialize                                                              *)

Defaults == [debugArgs |-> "", randomYield |-> FALSE, debugUserProg |-> FALSE, format |-> FALSE,
             rely |-> "1", netname |-> "0", ended |-> FALSE]

InitArg(build, line, s, at) ==
    LET word == line[at]  operand == Operand(line, at, 1) IN
    CASE word = "-d" -> IF at = Len(line) THEN Took(1, [s EXCEPT !.debugArgs = "+"])
                        ELSE Took(2, [s EXCEPT !.debugArgs = operand])
      [] word = "-rs" -> Needs(1, line, at, Took(2, [s EXCEPT !.randomYield = TRUE]), s)
      [] word = "-s" /\ "USER_PROGRAM" \in build -> Took(1, [s EXCEPT !.debugUserProg = TRUE])
      [] word = "-f" /\ "FILESYS_NEEDED" \in build -> Took(1, [s EXCEPT !.format = TRUE])
      [] word = "-l" /\ "NETWORK" \in build -> Needs(1, line, at, Took(2, [s EXCEPT !.rely = operand]), s)
      [] word = "-m" /\ "NETWORK" \in build -> Needs(1, line, at, Took(2, [s EXCEPT !.netname = operand]), s)
      [] OTHER -> Took(1, s)
Settings(build, line) ==
    LET Arg(s, at) == InitArg(build, line, s, at) IN Scan(line, Defaults, Arg)

\* The objects Initialize creates, in order, and the first Enable.
Initialize(build, set) ==
    LET If(p, objects) == IF p THEN objects ELSE <<>> IN
    <<"stats", "interrupt", "scheduler">> \o If(set.randomYield, <<"timer">>)
      \o <<"currentThread", "Enable">>
      \o If("USER_PROGRAM" \in build, <<"machine", "mm", "mmLock", "pcbManager">>)
      \o If("FILESYS" \in build, <<"synchDisk">>)
      \o If("FILESYS_NEEDED" \in build, <<"fileSystem">>)
      \o If("NETWORK" \in build, <<"postOffice">>)

\* What creating an object dereferences.  Enabling interrupts may run a timer
\* interrupt that is due, and yield; the file system sleeps for the disk; the
\* post office polls the network and forks its worker.
Uses(object, build) ==
    CASE object = "timer"      -> {"interrupt", "stats"}
      [] object = "Enable"     -> {"interrupt", "stats", "scheduler", "currentThread"}
      [] object = "fileSystem" -> IF "FILESYS" \in build
                                  THEN {"synchDisk", "currentThread", "scheduler", "interrupt", "Enable"} ELSE {}
      [] object = "postOffice" -> {"interrupt", "stats", "scheduler"}
      [] OTHER                 -> {}

-----------------------------------------------------------------------------
(* main                                                                    *)

\* Commands that do not return: a user program ends with Exit or Halt, the
\* console and the mail test halt.
NoFile == "missing"
Starts(s, command) ==
    [s EXCEPT !.done = Append(@, command),
              !.ended = command[1] \in {"ConsoleTest", "MailTest"} \/ (command[1] = "StartProcess" /\ command[2] # NoFile)]

\* argCount of a command.  Mutant: the name of the file to print is left for
\* the next round.
argCountShort(word) == CASE word = "-cp" -> 3 [] word \in {"-x", "-r", "-o"} -> 2 [] OTHER -> 1
argCount(word) == CASE word = "-cp" -> 3 [] word \in {"-x", "-p", "-r", "-o"} -> 2 [] OTHER -> 1

MainArg(build, line, s, at) ==
    LET word == line[at]  one == Operand(line, at, 1)  two == Operand(line, at, 2)
        Runs(n, command) == Needs(n, line, at, Took(argCount(word), Starts(s, command)), s)
    IN CASE word = "-z" -> Runs(0, <<"copyright">>)
         [] word = "-x" /\ "USER_PROGRAM" \in build -> Runs(1, <<"StartProcess", one>>)
         [] word = "-c" /\ "USER_PROGRAM" \in build ->
              IF at = Len(line) THEN Runs(0, <<"ConsoleTest", "", "">>) ELSE Runs(2, <<"ConsoleTest", one, two>>)
         [] word = "-cp" /\ "FILESYS" \in build -> Runs(2, <<"Copy", one, two>>)
         [] word = "-p"  /\ "FILESYS" \in build -> Runs(1, <<"PrintFile", one>>)
         [] word = "-r"  /\ "FILESYS" \in build -> Runs(1, <<"Remove", one>>)
         [] word = "-l"  /\ "FILESYS" \in build -> Runs(0, <<"List">>)
         [] word = "-D"  /\ "FILESYS" \in build -> Runs(0, <<"PrintAll">>)
         [] word = "-t"  /\ "FILESYS" \in build -> Runs(0, <<"PerformanceTest">>)
         [] word = "-o"  /\ "NETWORK" \in build -> Runs(1, <<"MailTest", one>>)
         [] OTHER -> Took(1, s)

\* The loop of a build with THREADS: it uses up the line, so that the loop of
\* MainArg has nothing left.  -q without a number reads past the line.
ThreadsArg(line, s, at) ==
    IF line[at] # "-q" THEN Took(1, [s EXCEPT !.testnum = "1"])
    ELSE Needs(1, line, at, Took(2, [s EXCEPT !.testnum = Operand(line, at, 1)]), s)

\* What is run for a line: before the last loop a kernel without user programs
\* runs ThreadTest or Ping, but the elevator's runs ElevatorTest and then only
\* yields, for ever.
Main(build, line) ==
    LET TArg(s, at) == ThreadsArg(line, s, at)
        MArg(s, at) == MainArg(build, line, s, at)
        threads == Scan(line, [testnum |-> "4", ended |-> FALSE], TArg)
        first == IF "HW1_ELEVATOR" \in build THEN <<<<"ElevatorTest">>>>
                 ELSE IF "USER_PROGRAM" \in build THEN <<>>
                 ELSE IF "THREADS" \in build THEN <<<<"ThreadTest", threads.testnum>>>> ELSE <<<<"Ping">>>>
    IN  IF Settings(build, line).ended THEN <<>>
        ELSE IF "THREADS" \in build THEN IF threads.ended THEN <<>> ELSE first
        ELSE IF "HW1_ELEVATOR" \in build THEN first
        ELSE Scan(line, [done |-> first, ended |-> FALSE], MArg).done

-----------------------------------------------------------------------------
(* Properties.  An option is a documented flag with its operands.          *)

LineOf(options) == FlattenSeq(options)
Has(options, flag) == \E k \in DOMAIN options : options[k][1] = flag
LastOf(options, flag, default) ==
    LET at == {k \in DOMAIN options : options[k][1] = flag} IN
    IF at = {} THEN default ELSE options[CHOOSE k \in at : \A j \in at : j <= k][2]

\* The settings are the ones the options ask for, wherever they stand: no operand
\* is taken for a flag, none is lost.  -l has two meanings in a network kernel,
\* where it and not -n sets the reliability: -n changes nothing.
SettingsAsGiven(build, options) ==
    ("NETWORK" \in build /\ Has(options, "-l")) \/
    Settings(build, LineOf(options)) =
        [debugArgs |-> LastOf(options, "-d", ""), randomYield |-> Has(options, "-rs"),
         debugUserProg |-> "USER_PROGRAM" \in build /\ Has(options, "-s"),
         format |-> "FILESYS_NEEDED" \in build /\ Has(options, "-f"), rely |-> "1",
         netname |-> IF "NETWORK" \in build THEN LastOf(options, "-m", "0") ELSE "0", ended |-> FALSE]

\* Each command is run with its own operands, in the order of the line, until
\* one that does not return; but not at all in a kernel built with THREADS, whose
\* loop has used up the line, nor in the elevator's.
Command(build, option) ==
    LET For(symbol, name) == IF symbol \in build THEN <<[option EXCEPT ![1] = name]>> ELSE <<>> IN
    CASE option[1] = "-z" -> <<<<"copyright">>>>
      [] option[1] = "-x" -> For("USER_PROGRAM", "StartProcess")
      [] option[1] = "-c" -> For("USER_PROGRAM", "ConsoleTest")
      [] option[1] = "-cp" -> For("FILESYS", "Copy")
      [] option[1] = "-p" -> For("FILESYS", "PrintFile")
      [] option[1] = "-r" -> For("FILESYS", "Remove")
      [] option[1] = "-l" -> For("FILESYS", "List")
      [] option[1] = "-D" -> For("FILESYS", "PrintAll")
      [] option[1] = "-t" -> For("FILESYS", "PerformanceTest")
      [] option[1] = "-o" -> For("NETWORK", "MailTest")
      [] OTHER -> <<>>
CommandsInOrder(build, options) ==
    LET asked == FlattenSeq([k \in DOMAIN options |-> Command(build, options[k])])
        stops == {k \in DOMAIN asked : Starts([done |-> <<>>, ended |-> FALSE], asked[k]).ended}
        upTo  == IF stops = {} THEN asked ELSE SubSeq(asked, 1, CHOOSE k \in stops : \A j \in stops : k <= j)
        usesUp == "NETWORK" \in build /\ Has(options, "-l")
    IN  IF "HW1_ELEVATOR" \in build THEN Main(build, LineOf(options)) = <<<<"ElevatorTest">>>>
        ELSE "THREADS" \notin build /\ "USER_PROGRAM" \in build /\ ~usesUp
                 => Main(build, LineOf(options)) = upTo

\* Every object is created after those its creation uses, exactly once.
InOrder(build, set) ==
    LET made == Initialize(build, set) IN
    \A k \in DOMAIN made :
        /\ Uses(made[k], build) \subseteq {made[j] : j \in 1..(k - 1)}
        /\ \A j \in 1..(k - 1) : made[j] # made[k]
=============================================================================
