--------------------------- MODULE LedQueue_proof ----------------------------
(***************************************************************************)
(* Proofs about LedQueue, for every capacity from two slots on and every   *)
(* set of jobs: its invariants, and that the ring of slots implements the  *)
(* FIFO of two jobs.                                                       *)
(***************************************************************************)
EXTENDS LedQueue, TLAPS

-----------------------------------------------------------------------------
(* The slots. *)

\* The slot after a slot is another slot.
LEMMA AfterIsSlot ==
  ASSUME NEW i \in Slots
  PROVE  After(i) \in Slots /\ After(i) # i
  BY CapacityAssumption, SMT DEF Slots, After

-----------------------------------------------------------------------------

\* QUIT is pushed when nothing will be pushed any more, it is the last job of the
\* queue, and once taken it is the worker's last job.
QuitInv ==
    /\ job = Quit => mpc \in {"join", "exited"} /\ \A i \in Slots : Empty(i)
    /\ \A i \in Slots : queue[i] = Quit => mpc \in {"join", "exited"}
    /\ start # Null /\ queue[start] = Quit => Empty(After(start))
    /\ wpc = "done" => job = Quit

\* The inductive invariant.  Contiguous is what makes an empty slot at start mean
\* that the whole queue is empty.
IInv == TypeOK /\ Contiguous /\ ReadyJobStays /\ QuitInv

LEMMA InitIInv == Init => IInv
  <1> SUFFICES ASSUME Init PROVE IInv
    OBVIOUS
  <1> USE CapacityAssumption, JobAssumption DEF Init
  <1>1. TypeOK
    BY DEF TypeOK
  <1>2. Contiguous /\ ReadyJobStays /\ QuitInv
    BY DEF Contiguous, ReadyJobStays, QuitInv, Empty, Jobs, Null
  <1> QED
    BY <1>1, <1>2 DEF IInv

-----------------------------------------------------------------------------
(* Pushing a job. *)

\* A push leaves the queue well formed, and a job found ready stays where it is.
LEMMA PushKeeps ==
  ASSUME TypeOK, Contiguous, NEW j \in Jobs, Push(j)
  PROVE  /\ queue' \in [Slots -> Jobs \cup {NoJob}]
         /\ start' \in Slots \cup {Null}
         /\ result' \in {"ok", "full"}
         /\ Contiguous'
         /\ start # Null /\ ~Empty(start) => start' = start /\ queue'[start] = queue[start]
  <1> USE CapacityAssumption, JobAssumption DEF TypeOK, Contiguous, Empty
  <1>1. 0 \in Slots /\ Null \notin Slots
    BY SMT DEF Slots, Null
  <1>2. CASE start = Null
    BY <1>1, <1>2 DEF Push, Null
  <1>3. CASE start # Null /\ Empty(start)
    BY <1>1, <1>3, AfterIsSlot DEF Push
  <1>4. CASE start # Null /\ ~Empty(start) /\ Empty(After(start))
    BY <1>1, <1>4, AfterIsSlot DEF Push
  <1>5. CASE start # Null /\ ~Empty(start) /\ ~Empty(After(start))
    BY <1>1, <1>5, AfterIsSlot DEF Push, queueVars
  <1> QED
    BY <1>2, <1>3, <1>4, <1>5

\* What a push adds to the queue is the pushed job, behind those that wait.
LEMMA PushAdds ==
  ASSUME TypeOK, Contiguous, NEW j \in Jobs, Push(j)
  PROVE  /\ \A i \in Slots : queue'[i] \in {queue[i], j}
         /\ start' # Null
         /\ queue'[start'] # j => queue'[start'] = queue[start'] /\ start = start'
  <1> USE CapacityAssumption, JobAssumption DEF TypeOK, Contiguous, Empty
  <1>1. 0 \in Slots /\ Null \notin Slots
    BY SMT DEF Slots, Null
  <1>2. CASE start = Null
    BY <1>1, <1>2 DEF Push, Null
  <1>3. CASE start # Null
    BY <1>1, <1>3, AfterIsSlot DEF Push, queueVars
  <1> QED
    BY <1>2, <1>3

-----------------------------------------------------------------------------

LEMMA NextIInv == IInv /\ [Next]_vars => IInv'
  <1> SUFFICES ASSUME IInv, [Next]_vars PROVE IInv'
    OBVIOUS
  <1> USE CapacityAssumption, JobAssumption DEF IInv
  <1>0. Null \notin Slots /\ NoJob # Quit /\ Quit \in Jobs /\ Colours \subseteq Jobs
    BY SMT DEF Slots, Null, Jobs
  <1>1. CASE CheckCrash
    BY <1>1 DEF CheckCrash, queueVars, TypeOK, Contiguous, ReadyJobStays, QuitInv, Empty
  <1>2. CASE Check
    BY <1>2 DEF Check, queueVars, TypeOK, Contiguous, ReadyJobStays, QuitInv, Empty
  <1>3. CASE Get
    <2>1. /\ start # Null /\ ~Empty(start)
          /\ job' = queue[start]
          /\ queue' = [queue EXCEPT ![start] = NoJob]
          /\ start' = IF Empty(After(start)) THEN start ELSE After(start)
      BY <1>3 DEF Get, ReadyJobStays
    <2>2. start \in Slots /\ After(start) \in Slots /\ After(start) # start
      BY <2>1, AfterIsSlot DEF TypeOK
    <2>3. TypeOK'
      BY <1>3, <2>1, <2>2 DEF Get, TypeOK
    <2>4. Contiguous'
      <3>1. \A i \in Slots : queue'[i] # NoJob => i = After(start)
        BY <2>1, <2>2 DEF Contiguous, TypeOK, Empty
      <3>2. start' \in Slots /\ start' # Null
        BY <1>0, <2>1, <2>2
      <3>3. CASE Empty(After(start))
        BY <2>1, <2>2, <3>1, <3>3 DEF Contiguous, TypeOK, Empty
      <3>4. CASE ~Empty(After(start))
        <4>1. start' = After(start) /\ queue'[start'] # NoJob
          BY <2>1, <2>2, <3>4 DEF TypeOK, Empty
        <4> QED
          BY <3>1, <3>2, <4>1 DEF Contiguous, Empty
      <3> QED
        BY <3>3, <3>4
    <2>5. ReadyJobStays'
      BY <1>3 DEF Get, ReadyJobStays
    <2>6. After(start') \in Slots /\ After(start') # start'
      BY <2>1, <2>2, AfterIsSlot
    <2>7. QuitInv'
      BY <1>0, <1>3, <2>1, <2>2, <2>4, <2>6 DEF Get, QuitInv, Contiguous, TypeOK, Empty
    <2> QED
      BY <2>3, <2>4, <2>5, <2>7
  <1>4. CASE Work
    BY <1>0, <1>4 DEF Work, queueVars, TypeOK, Contiguous, ReadyJobStays, QuitInv, Empty
  <1>5. ASSUME NEW j \in Jobs, Push(j), UNCHANGED <<job, wpc, shown, crashed>>,
               mpc' \in {"run", "sleep", "quit", "join", "exited"},
               mpc \in {"run", "quit"},
               j = Quit /\ result' = "ok" => mpc' = "join",
               j = Quit /\ result' # "ok" => mpc' = "quit",
               j # Quit => mpc = "run"
        PROVE  IInv'
    <2>1. TypeOK' /\ Contiguous'
      BY <1>5, PushKeeps DEF TypeOK
    <2>2. ReadyJobStays'
      BY <1>5, PushKeeps DEF ReadyJobStays, Empty
    <2>3. job # Quit /\ wpc # "done" /\ \A i \in Slots : queue[i] # Quit
      BY <1>5 DEF QuitInv
    <2>4. CASE j # Quit
      <3>1. \A i \in Slots : queue'[i] # Quit
        BY <1>5, <2>3, <2>4, PushAdds
      <3>2. start' # Null => start' \in Slots
        BY <2>1 DEF TypeOK
      <3> QED
        BY <1>5, <2>1, <2>2, <2>3, <3>1, <3>2 DEF QuitInv
    <2>5. CASE j = Quit
      <3>1. \A i \in Slots : queue'[i] = Quit => mpc' \in {"join", "exited"}
        <4>1. CASE result' = "ok"
          BY <1>5, <2>5, <4>1
        <4>2. CASE result' # "ok"
          BY <1>5, <2>3, <4>2 DEF Push, queueVars
        <4> QED
          BY <4>1, <4>2
      <3>2. start' # Null /\ queue'[start'] = Quit => Empty(After(start))'
        <4>1. 0 \in Slots
          BY SMT DEF Slots
        <4>2. CASE start = Null
          <5>1. start' = 0 /\ queue' = [queue EXCEPT ![0] = j]
            BY <1>5, <4>2 DEF Push
          <5> QED
            BY <4>1, <4>2, <5>1, AfterIsSlot DEF Contiguous, TypeOK, Empty
        <4>3. CASE start # Null
          <5>1. start' = start /\ start \in Slots
            BY <1>5, <4>3 DEF Push, queueVars, TypeOK
          <5>2. CASE Empty(start)
            BY <1>5, <4>3, <5>1, <5>2, AfterIsSlot DEF Push, Contiguous, TypeOK, Empty
          <5>3. CASE ~Empty(start)
            BY <1>5, <2>3, <4>3, <5>1, <5>3, AfterIsSlot
            DEF Push, queueVars, TypeOK, Empty
          <5> QED
            BY <5>2, <5>3
        <4> QED
          BY <4>2, <4>3
      <3> QED
        BY <1>5, <2>1, <2>2, <2>3, <3>1, <3>2 DEF QuitInv
    <2> QED
      BY <2>1, <2>2, <2>4, <2>5
  <1>6. ASSUME NEW j \in DemoJobs, PushDemoJob(j) PROVE IInv'
    BY <1>0, <1>5, <1>6 DEF PushDemoJob, DemoJobs, Jobs
  <1>7. CASE FlashRed
    BY <1>0, <1>5, <1>7 DEF FlashRed, Jobs
  <1>8. CASE WakeUp
    BY <1>8 DEF WakeUp, queueVars, TypeOK, Contiguous, ReadyJobStays, QuitInv, Empty
  <1>9. CASE PushQuit
    BY <1>0, <1>5, <1>9 DEF PushQuit, Jobs
  <1>10. CASE JoinAndExit
    BY <1>10 DEF JoinAndExit, queueVars, TypeOK, Contiguous, ReadyJobStays, QuitInv, Empty
  <1>11. CASE UNCHANGED vars
    BY <1>11 DEF vars, queueVars, TypeOK, Contiguous, ReadyJobStays, QuitInv, Empty
  <1> QED
    BY <1>1, <1>2, <1>3, <1>4, <1>6, <1>7, <1>8, <1>9, <1>10, <1>11
    DEF Next, Worker, Main, FlashLed

\* The inductive invariant holds in every behaviour.
THEOREM Invariance == Spec => []IInv
  BY InitIInv, NextIInv, PTL DEF Spec

\* led_worker.c keeps its variables in their types.
THEOREM TypeCorrect == Spec => []TypeOK
  BY Invariance, PTL DEF IInv

\* push_led_job and get_next_led_job use no slot but start and the one after it.
THEOREM QueueIsContiguous == Spec => []Contiguous
  BY Invariance, PTL DEF IInv

\* A job new_led_job_ready has seen is there for get_next_led_job.
THEOREM ReadyJobsStay == Spec => []ReadyJobStays
  BY Invariance, PTL DEF IInv

\* When the worker has ended, no job waits and flash_led only joins it.
THEOREM QuitEndsAll == Spec => []QuitIsLast
  <1>1. IInv => QuitIsLast
    BY DEF IInv, QuitInv, QuitIsLast
  <1> QED
    BY <1>1, Invariance, PTL

-----------------------------------------------------------------------------
(* The queue implements the FIFO of two jobs. *)

\* A push appends to the waiting jobs, or is refused because there are two.
LEMMA PushRefines ==
  ASSUME TypeOK, Contiguous, NEW j \in Jobs, Push(j), UNCHANGED job
  PROVE  Fifo!Push(j)
  <1> USE CapacityAssumption, JobAssumption DEF TypeOK, Contiguous, Empty, Fifo!Push
  <1>1. 0 \in Slots /\ Null \notin Slots /\ j # NoJob
    BY SMT DEF Slots, Null
  <1>2. CASE start = Null
    <2>1. queue'[0] = j /\ start' = 0 /\ result' = "ok"
      BY <1>1, <1>2 DEF Push
    <2>2. queue'[After(0)] = NoJob
      BY <1>1, <1>2, AfterIsSlot DEF Push
    <2>3. fifo = <<>> /\ fifo' = <<j>>
      BY <1>1, <1>2, <2>1, <2>2 DEF fifo, Null
    <2> QED
      BY <2>1, <2>3
  <1>3. CASE start # Null /\ Empty(start)
    <2>1. queue'[start] = j /\ start' = start /\ result' = "ok"
      BY <1>1, <1>3 DEF Push
    <2>2. queue'[After(start)] = NoJob
      BY <1>1, <1>3, AfterIsSlot DEF Push
    <2>3. fifo = <<>> /\ fifo' = <<j>>
      BY <1>1, <1>3, <2>1, <2>2 DEF fifo
    <2> QED
      BY <2>1, <2>3
  <1>4. CASE start # Null /\ ~Empty(start) /\ Empty(After(start))
    <2>1. /\ queue'[After(start)] = j /\ queue'[start] = queue[start]
          /\ start' = start /\ result' = "ok"
      BY <1>1, <1>4, AfterIsSlot DEF Push
    <2>2. fifo = <<queue[start]>> /\ fifo' = <<queue[start], j>>
      BY <1>1, <1>4, <2>1 DEF fifo
    <2> QED
      BY <2>1, <2>2
  <1>5. CASE start # Null /\ ~Empty(start) /\ ~Empty(After(start))
    <2>1. UNCHANGED <<queue, start>> /\ result' = "full"
      BY <1>5 DEF Push, queueVars
    <2>2. fifo = <<queue[start], queue[After(start)]>> /\ fifo' = fifo
      BY <1>5, <2>1 DEF fifo
    <2> QED
      BY <2>1, <2>2
  <1> QED
    BY <1>2, <1>3, <1>4, <1>5

\* Taking a job removes the first of those that wait.
LEMMA GetRefines ==
  ASSUME IInv, Get
  PROVE  Fifo!Take
  <1> USE CapacityAssumption, JobAssumption DEF IInv
  <1>1. /\ start # Null /\ ~Empty(start)
        /\ job' = queue[start]
        /\ queue' = [queue EXCEPT ![start] = NoJob]
        /\ start' = IF Empty(After(start)) THEN start ELSE After(start)
        /\ result' = result
    BY DEF Get, ReadyJobStays
  <1>2. start \in Slots /\ After(start) \in Slots /\ After(start) # start
    BY <1>1, AfterIsSlot DEF TypeOK
  <1>3. CASE Empty(After(start))
    <2>1. fifo = <<queue[start]>> /\ fifo' = <<>>
      BY <1>1, <1>2, <1>3 DEF fifo, Empty, TypeOK
    <2> QED
      BY <1>1, <2>1 DEF Fifo!Take
  <1>4. CASE ~Empty(After(start))
    <2>1. start' = After(start) /\ queue'[start'] = queue[start'] /\ ~Empty(start)'
      BY <1>1, <1>2, <1>4 DEF Empty, TypeOK
    <2>2. After(start') \in Slots /\ After(start') # start'
      BY <1>2, <2>1, AfterIsSlot
    <2>3. Empty(After(start))'
      BY <1>1, <1>2, <2>1, <2>2 DEF Contiguous, TypeOK, Empty
    <2>4. start' # Null
      BY <1>2, <2>1, SMT DEF Slots, Null
    <2>5. fifo = <<queue[start], queue[start']>> /\ fifo' = <<queue[start']>>
      BY <1>1, <1>4, <2>1, <2>3, <2>4 DEF fifo
    <2> QED
      BY <1>1, <2>5 DEF Fifo!Take
  <1> QED
    BY <1>3, <1>4

\* Every step of the worker and of the main thread is one of the FIFO, or none.
LEMMA StepRefines == IInv /\ [Next]_vars => [Fifo!Next]_(Fifo!vars)
  <1> SUFFICES ASSUME IInv, [Next]_vars PROVE [Fifo!Next]_(Fifo!vars)
    OBVIOUS
  <1> USE DEF Fifo!Next, Fifo!vars
  <1>1. CASE Get
    BY <1>1, GetRefines
  <1>2. CASE Work
    BY <1>2 DEF Work, queueVars, fifo, Empty, Fifo!Finish
  <1>3. ASSUME NEW j \in Jobs, Push(j), UNCHANGED job PROVE Fifo!Next
    BY <1>3, PushRefines DEF IInv
  <1>4. ASSUME NEW j \in DemoJobs, PushDemoJob(j) PROVE Fifo!Next
    BY <1>3, <1>4 DEF PushDemoJob, DemoJobs, Jobs
  <1>5. CASE FlashRed
    BY <1>3, <1>5, JobAssumption DEF FlashRed, Jobs
  <1>6. CASE PushQuit
    BY <1>3, <1>6 DEF PushQuit, Jobs
  <1>7. CASE CheckCrash \/ Check \/ WakeUp \/ JoinAndExit \/ UNCHANGED vars
    BY <1>7 DEF CheckCrash, Check, WakeUp, JoinAndExit, vars, queueVars, fifo, Empty
  <1> QED
    BY <1>1, <1>2, <1>4, <1>5, <1>6, <1>7 DEF Next, Worker, Main, FlashLed

\* The ring of Capacity slots is a FIFO of two jobs that loses none, duplicates none
\* and refuses a push only when two jobs wait, whatever the capacity.
THEOREM Refinement == Spec => ImplementsFifo
  <1>1. Init => Fifo!Init
    BY DEF Init, fifo, Fifo!Init
  <1> QED
    BY <1>1, StepRefines, Invariance, PTL DEF Spec, ImplementsFifo, Fifo!Spec
==============================================================================
