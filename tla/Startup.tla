------------------------------- MODULE Startup -------------------------------
(***************************************************************************)
(* main of gecko_bglib/src/main.c, from its arguments to the loop and from *)
(* any fatal error to the end of the process: the composition of           *)
(* Arguments, Azure and LedQueue, whose actions it takes, with the log     *)
(* (log.c) and the serial port.                                            *)
(*                                                                         *)
(* The loop itself is ThunderboardApp: here it pushes jobs, posts what it  *)
(* has read, and may meet a fatal error at any time.                       *)
(***************************************************************************)
EXTENDS Azure, Arguments

CONSTANTS
    Words,      \* bound: the words of the command line
    MaxWords,   \* bound: how many of them
    Capacity, Kind, Red, Quit, NoJob,       \* as in LedQueue
    StartJob, NetworkJob, ScanJob           \* the first jobs main pushes

VARIABLES
    at,         \* the step of main that is next
    argv,       \* the command line
    args,       \* G300Args
    thread,     \* the LED worker thread has been created
    logFile,    \* L.fp: "none", "open", or "closed" and still in use
    level,      \* L.level
    port,       \* serialHandle: "none", "open" or "closed"
    killed,     \* the process died of a use of the closed log
    queue, start, job, wpc, shown, mpc, result, crashed     \* as in LedQueue

Led == INSTANCE LedQueue

ledVars == <<queue, start, job, wpc, shown, mpc, result, crashed>>
mainVars == <<at, argv, args, thread, logFile, level, port, killed>>
vars == <<mainVars, azureVars, ledVars>>

ASSUME JobsAssumption == {StartJob, NetworkJob, ScanJob} \subseteq DOMAIN Kind \ {Red}

\* What LedQueue assumes of its constants.
ASSUME LedAssumption ==
    /\ Capacity \in Nat /\ Capacity >= 2
    /\ Kind \in [DOMAIN Kind -> {"OFF", "ON", "ON_OFF", "ALTERNATE"}]
    /\ Red \in DOMAIN Kind
    /\ Quit \notin DOMAIN Kind
    /\ NoJob \notin DOMAIN Kind \cup {Quit}

\* atoi returns an int.
ASSUME WordsAssumption ==
    /\ \A word \in Words : Atoi(word) \in Int
    /\ MaxWords \in Nat

\* speedTab of uart_posix.c.
Speeds == {300, 1200, 2400, 4800, 9600, 19200, 38400, 57600, 115200}

TRACE == 0
DEBUG == 1
WARN == 3

Ended == killed \/ crashed \/ mpc = "exited" \/ at = "exit"

Goto(step) == at' = step

\* A step of main that touches neither the LED queue nor Azure.
Main(step) ==
    /\ ~Ended
    /\ at = step
    /\ UNCHANGED ledVars

-----------------------------------------------------------------------------
(* The steps of main, in their order. *)

ReadArguments ==
    /\ Main("args")
    /\ IF get_parameters(argv).ok
       THEN Goto("thread") /\ args' = get_parameters(argv).args
       ELSE Goto("exit") /\ UNCHANGED args
    /\ argv' = <<>>
    /\ UNCHANGED <<thread, logFile, level, port, killed, azureVars>>

\* A thread that could not be created is logged, and main goes on.
CreateThread ==
    /\ Main("thread")
    /\ thread' \in BOOLEAN
    /\ Goto("first job")
    /\ UNCHANGED <<argv, args, logFile, level, port, killed, azureVars>>

PushAt(step, next, j) ==
    /\ ~Ended
    /\ at = step
    /\ Led!PushDemoJob(j)
    /\ Goto(next)
    /\ UNCHANGED <<argv, args, thread, logFile, level, port, killed>>

\* Mutant: the first job is left to the ones that follow.
PushLater ==
    /\ Main("first job")
    /\ Goto("log")
    /\ UNCHANGED <<argv, args, thread, logFile, level, port, killed, azureVars>>

PushFirstJob == PushAt("first job", "log", StartJob) /\ UNCHANGED azureVars

\* The level of the log is set only if there is a file.
OpenLog ==
    /\ Main("log")
    /\ \/ UNCHANGED <<logFile, level>>
       \/ /\ ~args.disable_log_file
          /\ logFile' = "open"
          /\ level' = args.log_level
    /\ Goto("curl")
    /\ UNCHANGED <<argv, args, thread, port, killed, azureVars>>

InitCurl ==
    /\ Main("curl")
    /\ at' \in {"network job", "fatal"}
    /\ UNCHANGED <<argv, args, thread, logFile, level, port, killed, azureVars>>

PushNetworkJob == PushAt("network job", "network", NetworkJob) /\ UNCHANGED azureVars

\* A call of one of the three functions of azure_functions.c, its steps, and
\* its return.
CallAzure(step, next, Call) ==
    /\ Main(step)
    /\ Call
    /\ Goto(next)
    /\ UNCHANGED <<argv, args, thread, logFile, level, port, killed>>

RunAzure ==
    /\ ~Ended
    /\ call # "none"
    /\ AzureStep
    /\ UNCHANGED <<mainVars, ledVars>>

Returned(step, next, failed) ==
    /\ Main(step)
    /\ call = "none"
    /\ Goto(IF ret = "ok" THEN next ELSE failed)
    /\ UNCHANGED <<argv, args, thread, logFile, level, port, killed, azureVars>>

CheckNetwork == CallAzure("network", "in network", WaitForNetwork)
NetworkChecked == Returned("in network", "azure", "fatal")
Provision == CallAzure("azure", "in azure", InitAzure)

Provisioned == Returned("in azure", "uart", "fatal")

\* uartOpen fails for a speed that is not in its table, and if the port does.
OpenPort ==
    /\ Main("uart")
    /\ \/ args.baudrate \in Speeds /\ port' = "open" /\ Goto("scan job")
       \/ UNCHANGED port /\ Goto("fatal")
    /\ UNCHANGED <<argv, args, thread, logFile, level, killed, azureVars>>

\* The command that resets the NCP follows, which no event answers yet.
PushScanJob == PushAt("scan job", "loop", ScanJob) /\ UNCHANGED azureVars

-----------------------------------------------------------------------------
(* The loop. *)

\* handle_event, or a reading that is about to be uploaded or has been.
PushDemoJob(j) == PushAt("loop", "loop", j) /\ UNCHANGED azureVars

Upload == CallAzure("loop", "in loop", PostTelemetry)

\* The result of azure_post_telemetry is not looked at.
Uploaded == Returned("in loop", "loop", "loop")

DemoFails ==
    /\ Main("loop")
    /\ Goto("fatal")
    /\ UNCHANGED <<argv, args, thread, logFile, level, port, killed, azureVars>>

-----------------------------------------------------------------------------
(* flash_led. *)

\* The log is closed but stays the log; the port is closed, open or not.
CloseLog ==
    /\ Main("fatal")
    /\ logFile' = IF logFile = "open" THEN "closed" ELSE logFile
    /\ port' = "closed"
    /\ Goto("red")
    /\ UNCHANGED <<argv, args, thread, level, killed, azureVars>>

FlashRed ==
    /\ ~Ended
    /\ at = "red"
    /\ Led!FlashRed
    /\ UNCHANGED <<mainVars, azureVars>>

Shutdown ==
    /\ ~Ended
    /\ (Led!WakeUp \/ Led!PushQuit \/ Led!JoinAndExit)
    /\ UNCHANGED <<mainVars, azureVars>>

\* A message to the closed log may kill the process: that of a push or pop of a job,
\* the red one to begin with, that of a push that is refused, or that which precedes
\* pthread_join.
UseClosedLog ==
    /\ ~Ended
    /\ logFile = "closed"
    /\ \/ level = TRACE /\ (mpc \in {"run", "quit"} \/ (thread /\ wpc = "get"))
       \/ level <= DEBUG /\ mpc = "join"
       \/ level <= WARN /\ mpc \in {"sleep", "quit"} /\ result = "full"
    /\ killed' = TRUE
    /\ UNCHANGED <<at, argv, args, thread, logFile, level, port, azureVars, ledVars>>

-----------------------------------------------------------------------------

Worker ==
    /\ ~Ended
    /\ thread
    /\ Led!Worker
    /\ UNCHANGED <<mainVars, azureVars>>

StartUp ==
    \/ ReadArguments \/ CreateThread \/ PushFirstJob \/ OpenLog \/ InitCurl
    \/ PushNetworkJob \/ CheckNetwork \/ NetworkChecked
    \/ Provision \/ Provisioned \/ OpenPort \/ PushScanJob
    \/ RunAzure

Loop == Upload \/ Uploaded \/ DemoFails \/ \E j \in Led!DemoJobs : PushDemoJob(j)

FlashLed == CloseLog \/ FlashRed \/ Shutdown

Init ==
    /\ at = "args"
    /\ argv \in UNION {[1..n -> Words] : n \in 0..MaxWords}
    /\ args = DefaultArgs
    /\ thread = FALSE
    /\ logFile = "none"
    /\ level = TRACE
    /\ port = "none"
    /\ killed = FALSE
    /\ AzureInit
    /\ Led!Init

Next ==
    \/ StartUp
    \/ Loop
    \/ FlashLed
    \/ Worker
    \/ UseClosedLog
    \/ Ended /\ UNCHANGED vars

Spec == Init /\ [][Next]_vars

\* Both threads run, and libcurl returns in the end; nothing obliges the demo to
\* do anything once it is in its loop.
FairSpec ==
    /\ Spec
    /\ WF_vars(StartUp)
    /\ WF_vars(RunAzure /\ req # "sent")
    /\ WF_vars(RunAzure /\ req = "sent" /\ req' # "sent")
    /\ WF_vars(FlashLed)
    /\ WF_vars(Worker)

-----------------------------------------------------------------------------

Steps ==
    {"args", "exit", "thread", "first job", "log", "curl", "network job", "network",
     "in network", "azure", "in azure", "uart", "scan job", "loop", "in loop", "fatal", "red"}

\* Every variable has its type.
TypeOK ==
    /\ at \in Steps
    /\ args.log_level \in 0..255 /\ args.disable_log_file \in BOOLEAN
    /\ thread \in BOOLEAN
    /\ logFile \in {"none", "open", "closed"}
    /\ level \in 0..255
    /\ port \in {"none", "open", "closed"}
    /\ killed \in BOOLEAN
    /\ AzureTypeOK
    /\ Led!TypeOK

\* get_parameters takes a command line of USAGE as it is meant.
ArgumentsAsUsage == at = "args" => ParsedAsUsage(argv)

\* When the loop begins everything it relies on is there: the port is open at a
\* speed it has, the service has assigned this device, asked with the operation id
\* that it gave, and the name of the hub is the service's, but for one as long as
\* the field, which loses its last character.
ReadyMeansProvisioned ==
    (at \in {"scan job", "loop", "in loop"} /\ mpc = "run") =>
        /\ port = "open"
        /\ args.baudrate \in Speeds
        /\ operation = "whole"
        /\ device # ""
        /\ hub = IF device = "exact" THEN "cut" ELSE "whole"

\* What a request has received, and what was parsed, are of that request: none of
\* an earlier one is left, nor of the page that wait_for_network_connection read.
ResponseOfThisRequest ==
    req # "no" =>
        /\ \A i \in DOMAIN buffer : buffer[i] = call
        /\ json # NoJson => json.of = call

\* A null start can be met only before the first job is pushed; and the closed log
\* kills the process only behind a fatal error, and only if there was a log file whose
\* level was WARN or lower: with -n, or with a higher level, an error gets to its end.
DiesAtItsEndsOnly ==
    /\ crashed => at = "first job"
    /\ killed => at = "red" /\ ~args.disable_log_file /\ args.log_level <= WARN

\* main comes to its loop or to an end: no number of failures keeps it waiting.
StartsOrFails == at = "args" ~> at \in {"loop", "fatal"} \/ Ended

\* A fatal error ends the process, if there is a worker to take QUIT.
FatalEnds == at = "fatal" /\ thread ~> Ended
==============================================================================
