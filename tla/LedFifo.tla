------------------------------- MODULE LedFifo -------------------------------
(***************************************************************************)
(* What led_worker.c offers to the rest of the program: push_led_job hands *)
(* a job to the LED worker, the worker takes the jobs in the order in      *)
(* which they were accepted, none is lost and none is taken twice, and a   *)
(* push is refused only when Depth jobs are waiting.                       *)
(***************************************************************************)
EXTENDS Naturals, Sequences

CONSTANTS
    Jobs,    \* what can be pushed
    NoJob,   \* no job: LED_JOB_NONE
    Depth    \* how many jobs can wait

VARIABLES
    fifo,    \* the jobs that wait
    job,     \* the job the worker has taken
    result   \* what the last push returned: "ok" or "full"

vars == <<fifo, job, result>>

Init == fifo = <<>> /\ job = NoJob /\ result = "ok"

Push(j) ==
    /\ IF Len(fifo) < Depth
       THEN fifo' = Append(fifo, j) /\ result' = "ok"
       ELSE fifo' = fifo /\ result' = "full"
    /\ UNCHANGED job

Take ==
    /\ fifo # <<>>
    /\ job' = Head(fifo)
    /\ fifo' = Tail(fifo)
    /\ UNCHANGED result

Finish == job' = NoJob /\ UNCHANGED <<fifo, result>>

Next == (\E j \in Jobs : Push(j)) \/ Take \/ Finish

Spec == Init /\ [][Next]_vars
==============================================================================
