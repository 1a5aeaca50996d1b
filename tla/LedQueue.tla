------------------------------ MODULE LedQueue -------------------------------
(***************************************************************************)
(* The LED worker thread and its job queue (gecko_bglib/src/led_worker.c), *)
(* with the thread that pushes jobs: main.c and app.c while the demo runs, *)
(* then flash_led, which shows red, stops the worker and exits.            *)
(*                                                                         *)
(* The mutex makes each of new_led_job_ready, get_next_led_job and         *)
(* push_led_job one step; anything can happen between two of them.         *)
(***************************************************************************)
EXTENDS Integers, Sequences

CONSTANTS
    Capacity,   \* JOB_QUEUE_SIZE
    Kind,       \* for each job of main.c and app.c, its LED_JOB_ type
    Red,        \* flash_red_job
    Quit,       \* quit_job
    NoJob       \* a job of type LED_JOB_NONE: an empty slot

\* The jobs that drive the LED.  The demo pushes all but the red one, which is
\* pushed by flash_led.
Colours == DOMAIN Kind

DemoJobs == Colours \ {Red}

Jobs == Colours \cup {Quit}

ASSUME CapacityAssumption == Capacity \in Nat /\ Capacity >= 2

ASSUME JobAssumption ==
    /\ Kind \in [Colours -> {"OFF", "ON", "ON_OFF", "ALTERNATE"}]
    /\ Red \in Colours
    /\ Quit \notin Colours
    /\ NoJob \notin Jobs

Slots == 0..Capacity - 1

\* The null pointer, for start.
Null == -1

VARIABLES
    queue,     \* _led_job_queue.queue
    start,     \* _led_job_queue.start: the index of a slot, or Null
    job,       \* led_worker: the job being done
    wpc,       \* led_worker: the step of its loop, or "done"
    shown,     \* what the LED shows: the job that drove it last
    mpc,       \* the other thread: "run", then the steps of flash_led
    result,    \* what push_led_job returned last
    crashed    \* the process was killed by a null pointer

queueVars == <<queue, start>>
vars == <<queue, start, job, wpc, shown, mpc, result, crashed>>

-----------------------------------------------------------------------------
(* The queue. *)

After(i) == IF i = Capacity - 1 THEN 0 ELSE i + 1

Empty(i) == queue[i] = NoJob

\* Mutant: the slot after start is taken without looking whether it is empty.
PushOver(j) ==
    /\ result' = "ok"
    /\ IF start = Null
       THEN start' = 0 /\ queue' = [queue EXCEPT ![0] = j]
       ELSE /\ queue' = [queue EXCEPT ![IF Empty(start) THEN start
                                       ELSE After(start)] = j]
            /\ UNCHANGED start

\* push_led_job tries the slot start points to and the one after it.
Push(j) ==
    \/ /\ start = Null
       /\ start' = 0
       /\ queue' = [queue EXCEPT ![0] = j]
       /\ result' = "ok"
    \/ /\ start # Null /\ Empty(start)
       /\ queue' = [queue EXCEPT ![start] = j]
       /\ result' = "ok"
       /\ UNCHANGED start
    \/ /\ start # Null /\ ~Empty(start) /\ Empty(After(start))
       /\ queue' = [queue EXCEPT ![After(start)] = j]
       /\ result' = "ok"
       /\ UNCHANGED start
    \/ /\ start # Null /\ ~Empty(start) /\ ~Empty(After(start))
       /\ result' = "full"
       /\ UNCHANGED queueVars

-----------------------------------------------------------------------------
(* led_worker. *)

\* new_led_job_ready follows start without looking whether it is null.
CheckCrash ==
    /\ ~crashed
    /\ wpc = "check"
    /\ start = Null
    /\ crashed' = TRUE
    /\ UNCHANGED <<queueVars, job, wpc, shown, mpc, result>>

\* Mutant: the worker looks for a job without finding one.
CheckAlways ==
    /\ ~crashed
    /\ wpc = "check"
    /\ start # Null
    /\ wpc' = "get"
    /\ UNCHANGED <<queueVars, job, shown, mpc, result, crashed>>

\* Mutant: the worker looks for a job only when it has none.
CheckWhenIdle ==
    /\ ~crashed
    /\ wpc = "check"
    /\ start # Null
    /\ wpc' = IF Empty(start) \/ job # NoJob THEN "work" ELSE "get"
    /\ UNCHANGED <<queueVars, job, shown, mpc, result, crashed>>

Check ==
    /\ ~crashed
    /\ wpc = "check"
    /\ start # Null
    /\ wpc' = IF Empty(start) THEN "work" ELSE "get"
    /\ UNCHANGED <<queueVars, job, shown, mpc, result, crashed>>

\* Mutant: start is never moved on.
GetAndStay ==
    /\ ~crashed
    /\ wpc = "get"
    /\ wpc' = "work"
    /\ job' = queue[start]
    /\ queue' = [queue EXCEPT ![start] = NoJob]
    /\ UNCHANGED <<start, shown, mpc, result, crashed>>

\* get_next_led_job moves start on only if the next slot holds a job.
Get ==
    /\ ~crashed
    /\ wpc = "get"
    /\ wpc' = "work"
    /\ IF start # Null /\ ~Empty(start)
       THEN /\ job' = queue[start]
            /\ queue' = [queue EXCEPT ![start] = NoJob]
            /\ start' = IF Empty(After(start)) THEN start ELSE After(start)
       ELSE job' = NoJob /\ UNCHANGED queueVars
    /\ UNCHANGED <<shown, mpc, result, crashed>>

\* Mutant: a job without colours is shown as well.
WorkShowsAll ==
    /\ ~crashed
    /\ wpc = "work"
    /\ wpc' = IF job = Quit THEN "done" ELSE "check"
    /\ shown' = job
    /\ job' = IF job \in Colours /\ Kind[job] = "ON" THEN NoJob ELSE job
    /\ UNCHANGED <<queueVars, mpc, result, crashed>>

\* A job is done over and over until the next one is ready, except that a
\* colour is switched on only once and that QUIT ends the thread.
Work ==
    /\ ~crashed
    /\ wpc = "work"
    /\ wpc' = IF job = Quit THEN "done" ELSE "check"
    /\ shown' = IF job \in Colours THEN job ELSE shown
    /\ job' = IF job \in Colours /\ Kind[job] = "ON" THEN NoJob ELSE job
    /\ UNCHANGED <<queueVars, mpc, result, crashed>>

Worker == CheckCrash \/ Check \/ Get \/ Work

-----------------------------------------------------------------------------
(* The main thread. *)

PushDemoJob(j) ==
    /\ ~crashed
    /\ mpc = "run"
    /\ Push(j)
    /\ UNCHANGED <<job, wpc, shown, mpc, crashed>>

\* flash_led: the result of the push is not looked at.
FlashRed ==
    /\ ~crashed
    /\ mpc = "run"
    /\ Push(Red)
    /\ mpc' = "sleep"
    /\ UNCHANGED <<job, wpc, shown, crashed>>

WakeUp ==
    /\ ~crashed
    /\ mpc = "sleep"
    /\ mpc' = "quit"
    /\ UNCHANGED <<queueVars, job, wpc, shown, result, crashed>>

\* Mutant: flash_led goes on to push QUIT when it was accepted.
PushQuitAgain ==
    /\ ~crashed
    /\ mpc = "quit"
    /\ Push(Quit)
    /\ mpc' \in {"quit", "join"}
    /\ UNCHANGED <<job, wpc, shown, crashed>>

\* Mutant: QUIT is pushed once, accepted or not.
PushQuitOnce ==
    /\ ~crashed
    /\ mpc = "quit"
    /\ Push(Quit)
    /\ mpc' = "join"
    /\ UNCHANGED <<job, wpc, shown, crashed>>

\* This push is repeated until it succeeds.
PushQuit ==
    /\ ~crashed
    /\ mpc = "quit"
    /\ Push(Quit)
    /\ mpc' = IF result' = "ok" THEN "join" ELSE "quit"
    /\ UNCHANGED <<job, wpc, shown, crashed>>

JoinAndExit ==
    /\ ~crashed
    /\ mpc = "join"
    /\ wpc = "done"
    /\ mpc' = "exited"
    /\ UNCHANGED <<queueVars, job, wpc, shown, result, crashed>>

FlashLed == FlashRed \/ WakeUp \/ PushQuit \/ JoinAndExit

Main == FlashLed \/ \E j \in DemoJobs : PushDemoJob(j)

-----------------------------------------------------------------------------

Stopped == crashed \/ mpc = "exited"

\* main starts the thread before it pushes the first job.
Init ==
    /\ queue = [i \in Slots |-> NoJob]
    /\ start = Null
    /\ job = NoJob
    /\ wpc = "check"
    /\ shown = NoJob
    /\ mpc = "run"
    /\ result = "ok"
    /\ crashed = FALSE

Next == Worker \/ Main \/ (Stopped /\ UNCHANGED vars)

Spec == Init /\ [][Next]_vars

\* Both threads run; nothing obliges the demo to push jobs or to fail.
FairSpec ==
    /\ Spec
    /\ WF_vars(Worker)
    /\ WF_vars(mpc # "run" /\ FlashLed)

-----------------------------------------------------------------------------

\* Every variable has its type.
TypeOK ==
    /\ queue \in [Slots -> Jobs \cup {NoJob}]
    /\ start \in Slots \cup {Null}
    /\ job \in Jobs \cup {NoJob}
    /\ wpc \in {"check", "get", "work", "done"}
    /\ shown \in Colours \cup {NoJob}
    /\ mpc \in {"run", "sleep", "quit", "join", "exited"}
    /\ result \in {"ok", "full"}
    /\ crashed \in BOOLEAN

\* The jobs that wait are in the slot start points to and the one after it, in
\* that order: no other slot of the queue is ever used, and no job is stranded in
\* one that neither push_led_job nor get_next_led_job will look at.
Contiguous ==
    \A i \in Slots : ~Empty(i) =>
        /\ start # Null
        /\ ~Empty(start)
        /\ i \in {start, After(start)}

\* The job new_led_job_ready has seen is still there when get_next_led_job takes it
\* in a critical section of its own: the worker never falls back to no job.
ReadyJobStays == wpc = "get" => start # Null /\ ~Empty(start)

\* QUIT is the last job: when the worker has ended nothing is left in the queue,
\* and flash_led has no more to push.
QuitIsLast ==
    wpc = "done" => mpc \in {"join", "exited"} /\ \A i \in Slots : Empty(i)

\* The jobs that wait, in order: what LedFifo keeps.
fifo ==
    IF start = Null \/ Empty(start) THEN <<>>
    ELSE IF Empty(After(start)) THEN <<queue[start]>>
    ELSE <<queue[start], queue[After(start)]>>

Fifo == INSTANCE LedFifo WITH Depth <- 2

\* The ring of Capacity slots is a FIFO of two jobs.
ImplementsFifo == Fifo!Spec

\* A fatal error ends the process, unless it has already crashed: QUIT is
\* accepted at last, the worker comes to it, and pthread_join returns.
ShutdownEnds == mpc = "sleep" ~> Stopped

\* An accepted job is taken: the LED does not get stuck on an earlier one.
JobsAreTaken ==
    \A j \in Colours : (fifo # <<>> /\ Head(fifo) = j) ~> (job = j \/ Stopped)

-----------------------------------------------------------------------------
(* What the README of the program says, and the code does otherwise. *)

\* README.md:12: a fatal error flashes red.
FatalIsShown == mpc = "exited" => shown = Red
==============================================================================
