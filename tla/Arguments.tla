------------------------------ MODULE Arguments ------------------------------
(***************************************************************************)
(* The command line (get_parameters in gecko_bglib/src/main.c) and what    *)
(* its USAGE says:  [-n] [-b baud rate] [-s serial port] [-l log level].   *)
(*                                                                         *)
(* An argument is a word.  What the library makes of a word as a number or *)
(* as the name of a port is external.                                      *)
(***************************************************************************)
EXTENDS Integers, SequencesExt

CONSTANTS
    Atoi(_),    \* the number a word stands for, 0 if none
    Cut(_),     \* the first 31 characters of a word: what serial_port holds
    Numbers     \* the words that are numbers

\* The options that are followed by a value.
Valued == {"-b", "-s", "-l"}

DefaultArgs ==
    [baudrate |-> 115200, serial_port |-> "/dev/ttyS1", log_level |-> 1,
     disable_log_file |-> FALSE]

\* Store the value of an option; log_level is a uint8_t.  A baud rate that is negative
\* becomes a large one in a uint32_t: like it, it is none of the speeds of uartOpen.
Put(args, option, word) ==
    CASE option = "-b" -> [args EXCEPT !.baudrate = Atoi(word)]
      [] option = "-s" -> [args EXCEPT !.serial_port = Cut(word)]
      [] option = "-l" -> [args EXCEPT !.log_level = Atoi(word) % 256]

\* The state of the loop of get_parameters: the option whose value is expected,
\* the options that have been given, and whether it goes on.
Begin == [expect |-> "", got |-> {}, ok |-> TRUE, args |-> DefaultArgs]

\* Mutant: got_baud, got_serial and got_log are not looked at.
TakeTwice(s, word) ==
    IF ~s.ok THEN s
    ELSE IF s.expect # ""
    THEN [s EXCEPT !.args = Put(@, s.expect, word),
                   !.got = @ \cup {s.expect}, !.expect = ""]
    ELSE IF word \in Valued THEN [s EXCEPT !.expect = word]
    ELSE IF word = "-n" THEN [s EXCEPT !.args.disable_log_file = TRUE]
    ELSE [s EXCEPT !.ok = FALSE]

\* One argument.  -h, --help, an option given twice and any other word end it.
Take(s, word) ==
    IF ~s.ok THEN s
    ELSE IF s.expect # ""
    THEN [s EXCEPT !.args = Put(@, s.expect, word),
                   !.got = @ \cup {s.expect}, !.expect = ""]
    ELSE IF word \in Valued \ s.got THEN [s EXCEPT !.expect = word]
    ELSE IF word = "-n" THEN [s EXCEPT !.args.disable_log_file = TRUE]
    ELSE [s EXCEPT !.ok = FALSE]

get_parameters(argv) ==
    LET s == FoldLeft(Take, Begin, argv)
    IN  [ok |-> s.ok /\ s.expect = "", args |-> s.args]

-----------------------------------------------------------------------------
(* The reference: USAGE as a grammar, and what the words mean to who writes  *)
(* them.  Each word is a value, if it follows a valued option, or else an    *)
(* option; no option is repeated, but those that are Repeatable.             *)

Roles(argv, Repeatable) ==
    {role \in [DOMAIN argv -> {"option", "flag", "value"}] :
        \A i \in DOMAIN argv :
            /\ role[i] = "value" <=> i > 1 /\ role[i - 1] = "option"
            /\ role[i] = "option" => argv[i] \in Valued /\ i < Len(argv)
            /\ role[i] = "flag" => argv[i] = "-n"
            /\ \A j \in DOMAIN argv \ {i} :
                   /\ role[i] # "value" /\ role[j] # "value"
                   /\ argv[i] \notin Repeatable
                   => argv[i] # argv[j]}

\* The levels of log.h.
LogLevels == 0..5

\* What can follow an option: a baud rate, the name of a port, a log level.
Suits(option, word) ==
    CASE option = "-b" -> word \in Numbers /\ Atoi(word) >= 0
      [] option = "-s" -> Cut(word) = word
      [] option = "-l" -> word \in Numbers /\ Atoi(word) \in LogLevels

AllFit(argv, role) ==
    \A i \in DOMAIN argv : role[i] = "option" => Suits(argv[i], argv[i + 1])

\* The value of an option, if it is given.
Given(argv, role, option, Value(_), default) ==
    IF \E i \in DOMAIN argv : role[i] = "option" /\ argv[i] = option
    THEN Value(argv[1 + CHOOSE i \in DOMAIN argv :
                           role[i] = "option" /\ argv[i] = option])
    ELSE default

Itself(word) == word

Meaning(argv, role) ==
    [baudrate |-> Given(argv, role, "-b", Atoi, DefaultArgs.baudrate),
     serial_port |-> Given(argv, role, "-s", Itself, DefaultArgs.serial_port),
     log_level |-> Given(argv, role, "-l", Atoi, DefaultArgs.log_level),
     disable_log_file |-> \E i \in DOMAIN argv : role[i] = "flag"]

\* get_parameters accepts every command line of USAGE, in any order of its options
\* and even if a value looks like an option, and takes from it what it says, if the
\* values fit.  It accepts others: those that USAGE would allow if it had -n more than
\* once, and values of any kind, of which it makes what it can.
ParsedAsUsage(argv) ==
    /\ get_parameters(argv).ok <=> Roles(argv, {"-n"}) # {}
    /\ \A role \in Roles(argv, {}) :
          /\ get_parameters(argv).ok
          /\ AllFit(argv, role) => get_parameters(argv).args = Meaning(argv, role)
==============================================================================
