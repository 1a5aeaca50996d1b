------------------------ MODULE ThunderboardApp_proof ------------------------
(***************************************************************************)
(* Proofs about ThunderboardApp, for every peripheral, every size of its   *)
(* lists and of the inbox, and any number of faults of any kind: its type  *)
(* invariant, that no event of a connection is seen after the reset that   *)
(* ended it, and that the host has one GATT procedure under way at most.   *)
(***************************************************************************)
EXTENDS ThunderboardApp, CountingLemmas, SequenceTheorems

-----------------------------------------------------------------------------
(* The loops over the sensors. *)

\* Where a loop over the sensors stops there is a sensor of the kind it looks
\* for, or the loop is past the last sensor.
LEMMA FirstReadable ==
  ASSUME NEW i \in 1..NumSensors + 1
  PROVE  /\ FirstSensor(i, CanRead) \in 1..NumSensors + 1
         /\ FirstSensor(i, CanRead) \in Sensors => CanRead(FirstSensor(i, CanRead))
  <1> DEFINE S == {s \in i..NumSensors : CanRead(s)} \cup {NumSensors + 1}
  <1>1. NumSensors + 1 \in Nat /\ NumSensors + 1 \notin Sensors
    BY DeviceAssumption DEF Sensors
  <1>2. S \subseteq 1..NumSensors + 1 /\ S # {}
    BY DeviceAssumption
  <1>3. Min(S) \in S
    BY <1>1, <1>2, MinIsLeast, Zenon
  <1> QED
    BY <1>1, <1>2, <1>3 DEF FirstSensor

LEMMA FirstSubscribable ==
  ASSUME NEW i \in 1..NumSensors + 1
  PROVE  /\ FirstSensor(i, CanSubscribe) \in 1..NumSensors + 1
         /\ FirstSensor(i, CanSubscribe) \in Sensors =>
                CanSubscribe(FirstSensor(i, CanSubscribe))
  <1> DEFINE S == {s \in i..NumSensors : CanSubscribe(s)} \cup {NumSensors + 1}
  <1>1. NumSensors + 1 \in Nat /\ NumSensors + 1 \notin Sensors
    BY DeviceAssumption DEF Sensors
  <1>2. S \subseteq 1..NumSensors + 1 /\ S # {}
    BY DeviceAssumption
  <1>3. Min(S) \in S
    BY <1>1, <1>2, MinIsLeast, Zenon
  <1> QED
    BY <1>1, <1>2, <1>3 DEF FirstSensor

-----------------------------------------------------------------------------
(* What the NCP sends. *)

\* The events of a GATT procedure: its completion is the last of them.
GoodProc(p) ==
    /\ p \in Seq(Event)
    /\ \A i \in 1..Len(p) :
          /\ p[i].type \in {"service", "characteristic", "value", "completed"}
          /\ ~p[i].stale
          /\ p[i].type = "completed" => i = Len(p)

LEMMA CompletedIsEvent == Completed \in Event /\ GoodProc(<<Completed>>)
  <1>1. Completed \in Event
    BY DEF Completed, Ev, Event, EventTypes
  <1>2. /\ <<Completed>> \in Seq(Event)
        /\ Len(<<Completed>>) = 1 /\ <<Completed>>[1] = Completed
    BY <1>1
  <1>3. Completed.type = "completed" /\ ~Completed.stale
    BY DEF Completed, Ev
  <1> QED
    BY <1>1, <1>2, <1>3 DEF GoodProc

LEMMA EmptyIsGood == GoodProc(<<>>)
  BY DEF GoodProc

LEMMA ServicesProcIsGood == GoodProc(ServicesProc)
  <1> DEFINE n == Len(ServiceChars)
  <1>1. n \in Nat
    BY DeviceAssumption
  <1>2. \A i \in ServiceIds : Ev("service", i) \in Event /\ ServiceIds = 1..n
    BY <1>1 DEF Ev, Event, EventTypes, ServiceIds
  <1>3. ServicesProc \in [1..n + 1 -> Event]
    BY <1>2, CompletedIsEvent DEF ServicesProc
  <1>4. ServicesProc \in Seq(Event) /\ Len(ServicesProc) = n + 1
    BY <1>1, <1>3
  <1> QED
    BY <1>1, <1>4 DEF GoodProc, ServicesProc, ServiceIds, Ev, Completed

LEMMA CharsProcIsGood ==
  ASSUME NEW s
  PROVE  GoodProc(CharsProc(s))
  <1>1. CASE s \notin ServiceIds
    BY <1>1, CompletedIsEvent DEF CharsProc
  <1>2. CASE s \in ServiceIds
    <2> DEFINE n == Len(ServiceChars[s])
               P == [i \in 1..n + 1 |->
                        IF i <= n THEN Ev("characteristic", ServiceChars[s][i])
                        ELSE Completed]
    <2>1. ServiceChars[s] \in Seq(Handles) /\ n \in Nat
      BY <1>2, DeviceAssumption DEF ServiceIds
    <2>2. \A i \in 1..n : ServiceChars[s][i] \in Handles /\ Handles \subseteq Nat
      BY <2>1, DeviceAssumption
    <2>3. \A i \in 1..n : Ev("characteristic", ServiceChars[s][i]) \in Event
      BY <2>2 DEF Ev, Event, EventTypes
    <2>4. P \in [1..n + 1 -> Event]
      BY <2>1, <2>3, CompletedIsEvent
    <2>5. P \in Seq(Event) /\ Len(P) = n + 1
      BY <2>1, <2>4
    <2>6. GoodProc(P)
      BY <2>1, <2>5 DEF GoodProc, Ev, Completed
    <2> QED
      BY <1>2, <2>6 DEF CharsProc
  <1> QED
    BY <1>1, <1>2

LEMMA ReadProcIsGood ==
  ASSUME NEW h
  PROVE  GoodProc(ReadProc(h))
  <1>1. CASE h \notin Readable
    BY <1>1, CompletedIsEvent DEF ReadProc
  <1>2. CASE h \in Readable
    <2>1. h \in Handles /\ h \in Nat
      BY <1>2, DeviceAssumption
    <2>2. Ev("value", h) \in Event
      BY <2>1 DEF Ev, Event, EventTypes
    <2> DEFINE P == <<Ev("value", h), Completed>>
    <2>3. P \in Seq(Event) /\ Len(P) = 2 /\ P[1] = Ev("value", h) /\ P[2] = Completed
      BY <2>2, CompletedIsEvent
    <2>4. GoodProc(P)
      BY <2>3 DEF GoodProc, Ev, Completed
    <2> QED
      BY <1>2, <2>4 DEF ReadProc
  <1> QED
    BY <1>1, <1>2

-----------------------------------------------------------------------------
(* What a command does. *)

\* How a handler can leave the variables that commands change: a procedure is
\* only started when none is under way, and every way to INIT sends a reset.
Outcome ==
    /\ state' \in States
    /\ status' \in Statuses
   
    /\ charsLen' \in Nat
    /\ faults' \in Nat
    /\ resetPending' \in BOOLEAN
    /\ proc' = proc \/ (proc = <<>> /\ GoodProc(proc'))
    /\ \/ state' # "INIT" /\ resetPending' = resetPending
       \/ state' = "INIT" /\ resetPending' = TRUE

\* An answer to a command never lets the number of faults fall below zero, and a
\* procedure is only accepted when none is under way.
LEMMA AnswerCounts ==
  ASSUME HostTypeOK, NEW r, CountFault(r), r = "error" => r \in CommandResults
  PROVE  faults' \in Nat
  BY DEF HostTypeOK, CountFault, CommandResults

LEMMA GattAnswer ==
  ASSUME NEW r \in GattResults \cup {"not_found"}
  PROVE  /\ r \in Results
         /\ r = "error" => r \in CommandResults
         /\ r = "ok" => proc = <<>> /\ link = "up"
  BY DEF GattResults, CommandResults, Results, Refusals

LEMMA StartOutcome ==
  ASSUME HostTypeOK, NEW results, results \subseteq GattResults \cup {"not_found"},
         NEW events, GoodProc(events), Start(results, events),
         state' \in GattStates, UNCHANGED <<charsLen, resetPending>>
  PROVE  Outcome
  <1>1. PICK r \in results :
           /\ CountFault(r)
           /\ IF r = "ok"
              THEN proc' = events /\ UNCHANGED status
              ELSE Stop("command_failed") /\ UNCHANGED proc
    BY DEF Start
  <1>2. faults' \in Nat
    BY <1>1, AnswerCounts, GattAnswer
  <1>3. proc' = proc \/ (proc = <<>> /\ GoodProc(proc'))
    BY <1>1, GattAnswer
  <1>4. status' \in Statuses
    BY <1>1 DEF Stop, Statuses, HostTypeOK
  <1>5. /\ state' \in States /\ state' # "INIT"
        /\ charsLen' \in Nat /\ resetPending' \in BOOLEAN
    BY DEF States, GattStates, HostTypeOK
  <1> QED
    BY <1>2, <1>3, <1>4, <1>5 DEF Outcome

LEMMA RequestOutcome ==
  ASSUME HostTypeOK, NEW s \in Sensors, sensors[s] # Null, NEW revert,
         Request(s, revert)
  PROVE  /\ Outcome
         /\ lastRequested' \in Nat
         /\ state' \in {"READ", "INIT"}
  <1>1. PICK r \in GattResults :
          /\ CountFault(r)
          /\ \/ /\ r = "ok"
                /\ proc' = ReadProc(Handle(s))
                /\ state' = "READ"
                /\ UNCHANGED <<status, charsLen, resetPending>>
             \/ /\ r \in revert
                /\ EnterInit
                /\ UNCHANGED <<status, proc>>
             \/ /\ r \notin revert \cup {"ok"}
                /\ Stop("command_failed")
                /\ state' = "READ"
                /\ UNCHANGED <<proc, charsLen, resetPending>>
    BY DEF Request
  <1>2. faults' \in Nat
    BY <1>1, AnswerCounts, GattAnswer
  <1>3. proc' = proc \/ (proc = <<>> /\ GoodProc(proc'))
    BY <1>1, GattAnswer, ReadProcIsGood
  <1>4. status' \in Statuses
    BY <1>1 DEF Stop, Statuses, HostTypeOK
  <1>5. state' \in {"READ", "INIT"} /\ state' \in States /\ charsLen' \in Nat
    BY <1>1 DEF EnterInit, States, HostTypeOK
  <1>6. /\ resetPending' \in BOOLEAN
        /\ \/ state' # "INIT" /\ resetPending' = resetPending
           \/ state' = "INIT" /\ resetPending' = TRUE
    BY <1>1 DEF EnterInit, HostTypeOK
  <1>7. lastRequested' \in Nat
    BY DeviceAssumption DEF Request, Handle, HostTypeOK, Null
  <1> QED
    BY <1>2, <1>3, <1>4, <1>5, <1>6, <1>7 DEF Outcome

LEMMA EnterReadOutcome ==
  ASSUME HostTypeOK, EnterRead
  PROVE  /\ Outcome
         /\ lastRequested' \in Nat
         /\ readIndex' \in 1..NumSensors + 1
         /\ state' \in {"READ", "INIT"}
  <1> DEFINE s == FirstSensor(1, CanRead)
  <1>1. s \in 1..NumSensors + 1 /\ (s \in Sensors => CanRead(s))
    <2>1. 1 \in 1..NumSensors + 1
      BY DeviceAssumption
    <2> QED
      BY <2>1, FirstReadable
  <1>2. readIndex' = s
    BY DEF EnterRead
  <1>3. CASE s \in Sensors
    <2>1. Request(s, Refusals) /\ sensors[s] # Null
      BY <1>1, <1>3 DEF EnterRead, CanRead
    <2> HIDE DEF s
    <2> QED
      BY <1>1, <1>2, <1>3, <2>1, RequestOutcome
  <1>4. CASE s \notin Sensors
    BY <1>1, <1>2, <1>4 DEF EnterRead, Outcome, HostTypeOK, States
  <1> QED
    BY <1>3, <1>4

LEMMA SubscribeOutcome ==
  ASSUME HostTypeOK, NEW i \in 1..NumSensors + 1, SubscribeFrom(i)
  PROVE  /\ Outcome
         /\ lastRequested' \in Nat
         /\ readIndex' \in 1..NumSensors + 1
         /\ subIndex' \in 1..NumSensors + 1
         /\ subscribed' \subseteq Handles
         /\ state' \in {"SUBSCRIBE", "READ", "INIT"}
  <1> DEFINE s == FirstSensor(i, CanSubscribe)
  <1>1. s \in 1..NumSensors + 1 /\ (s \in Sensors => CanSubscribe(s))
    BY FirstSubscribable
  <1>2. CASE s \in Sensors
    <2>1. /\ state' = "SUBSCRIBE"
          /\ UNCHANGED <<readIndex, lastRequested, charsLen, resetPending>>
      BY <1>2 DEF SubscribeFrom
    <2>2. PICK r \in GattResults :
             /\ CountFault(r)
             /\ IF r = "ok"
                THEN /\ proc' = <<Completed>>
                     /\ subIndex' = s + 1
                     /\ subscribed' = subscribed \cup {Handle(s)}
                     /\ UNCHANGED status
                ELSE /\ Stop("command_failed")
                     /\ subIndex' = s
                     /\ UNCHANGED <<proc, subscribed>>
      BY <1>2 DEF SubscribeFrom
    <2>3. Handle(s) \in Handles
      BY <1>1, <1>2, DeviceAssumption DEF CanSubscribe
    <2>4. subscribed' \subseteq Handles
      BY <2>2, <2>3 DEF HostTypeOK
    <2>5. subIndex' \in 1..NumSensors + 1
      <3>1. s \in 1..NumSensors /\ NumSensors \in Nat
        BY <1>2, DeviceAssumption DEF Sensors
      <3> HIDE DEF s
      <3> QED
        BY <2>2, <3>1
    <2>6. faults' \in Nat
      BY <2>2, AnswerCounts, GattAnswer
    <2>7. proc' = proc \/ (proc = <<>> /\ GoodProc(proc'))
      BY <2>2, GattAnswer, CompletedIsEvent
    <2>8. status' \in Statuses
      BY <2>2 DEF Stop, Statuses, HostTypeOK
    <2> QED
      BY <2>1, <2>4, <2>5, <2>6, <2>7, <2>8 DEF Outcome, HostTypeOK, States
  <1>3. CASE s \notin Sensors
    <2>1. subIndex' = s /\ UNCHANGED subscribed /\ EnterRead
      BY <1>3 DEF SubscribeFrom
    <2> QED
      BY <1>1, <2>1, EnterReadOutcome DEF HostTypeOK
  <1> QED
    BY <1>2, <1>3

-----------------------------------------------------------------------------
(* The inductive invariant. *)

\* Between the decision to reset the NCP and the boot event, which is the only
\* one, the host is in INIT.  No procedure survives the reset, and nothing that
\* was sent before the boot event, nor a completion, can follow it.
BootInv ==
    Running =>
        /\ state # "INIT" => ~resetPending
        /\ state # "INIT" \/ resetPending =>
               \A i \in 1..Len(inbox) : inbox[i].type # "boot"
        /\ state = "INIT" /\ ~resetPending => proc = <<>>
        /\ \A i, j \in 1..Len(inbox) :
               inbox[i].type = "boot" /\ i < j =>
                   inbox[j].type \notin {"boot", "completed"} /\ ~inbox[j].stale

Safe == BootInv /\ NoStaleEvents /\ OneProcedure

IInv == HostTypeOK /\ GoodProc(proc) /\ Safe

\* The inbox after its head was taken, and after an event was added.
LEMMA TakenInbox ==
  ASSUME HostTypeOK, NEW type, Receive(type)
  PROVE  /\ Running
         /\ inbox' \in Seq(Event) /\ Len(inbox) \in Nat /\ Len(inbox') = Len(inbox) - 1
         /\ 1 \in 1..Len(inbox) /\ inbox[1].type = type
         /\ \A i \in 1..Len(inbox') : i + 1 \in 1..Len(inbox) /\ inbox'[i] = inbox[i + 1]
  <1>1. inbox \in Seq(Event) /\ inbox # <<>> /\ inbox' = Tail(inbox)
    BY DEF HostTypeOK, Receive
  <1>2. Head(inbox) = inbox[1] /\ Len(inbox) \in Nat \ {0}
    BY <1>1
  <1>3. \A i \in 1..Len(Tail(inbox)) : Tail(inbox)[i] = inbox[i + 1]
    BY <1>1
  <1> QED
    BY <1>1, <1>2, <1>3 DEF Receive, Running

LEMMA DeliveredInbox ==
  ASSUME HostTypeOK, NEW e \in Event, Deliver(e)
  PROVE  /\ Running
         /\ inbox' \in Seq(Event) /\ Len(inbox) \in Nat /\ Len(inbox') = Len(inbox) + 1
         /\ \A i \in 1..Len(inbox) : inbox'[i] = inbox[i]
         /\ inbox'[Len(inbox) + 1] = e
  BY DEF HostTypeOK, Deliver, Running

\* What the handler of a state other than INIT may do: stop, go to INIT and reset
\* the NCP, leave the procedure alone, or start one when its connection has just
\* been opened or its previous procedure has completed.
LEMMA HandledSafe ==
  ASSUME IInv, state # "INIT", NEW type, Receive(type),
         Running' =>
            \/ state' = "INIT" /\ resetPending' = TRUE
            \/ /\ state' # "INIT" /\ resetPending' = resetPending
               /\ \/ proc' = proc /\ (state' \in GattStates <=> state \in GattStates)
                  \/ /\ proc' = proc \/ proc = <<>>
                     /\ state' \in GattStates
                     /\ type = "completed" \/ state = "CONNECT"
  PROVE  Safe'
  <1> SUFFICES ASSUME Running' PROVE Safe'
    BY DEF Safe, BootInv, NoStaleEvents, OneProcedure
  <1> USE TakenInbox DEF IInv
  <1>1. /\ Running
        /\ \A i \in 1..Len(inbox) : inbox[i].type # "boot" /\ ~inbox[i].stale
    BY DEF Safe, BootInv, NoStaleEvents
  <1>2. \A i \in 1..Len(inbox') : inbox'[i].type # "boot" /\ ~inbox'[i].stale
    BY <1>1
  <1>3. CASE state' = "INIT" /\ resetPending' = TRUE
    BY <1>2, <1>3 DEF Safe, BootInv, NoStaleEvents, OneProcedure
  <1>4. CASE state' # "INIT" /\ resetPending' = resetPending
    <2>1. BootInv' /\ NoStaleEvents'
      BY <1>1, <1>2, <1>4 DEF Safe, BootInv, NoStaleEvents
    <2>2. /\ \A i, j \in Completions : i = j
          /\ proc # <<>> => Completions = {}
          /\ state \notin GattStates => proc = <<>> /\ Completions = {}
      BY <1>1 DEF Safe, OneProcedure
    <2>3. \A i \in Completions' : i \in 1..Len(inbox') /\ i + 1 \in Completions
      BY <1>1 DEF Completions
    <2>4. \A i, j \in Completions' : i = j
      BY <2>2, <2>3
    <2>5. OneProcedure'
      <3>1. CASE proc' = proc /\ (state' \in GattStates <=> state \in GattStates)
        <4>1. Completions = {} => Completions' = {}
          BY <2>3
        <4> QED
          BY <2>2, <2>4, <3>1, <4>1, Zenon DEF OneProcedure
      <3>2. CASE state' \in GattStates /\ (type = "completed" \/ state = "CONNECT")
        <4>1. CASE state = "CONNECT"
          <5>1. Completions' = {}
            BY <2>2, <2>3, <4>1 DEF GattStates
          <5> QED
            BY <2>4, <3>2, <5>1, Zenon DEF OneProcedure
        <4>2. CASE type = "completed"
          <5>1. 1 \in Completions
            BY <1>1, <4>2 DEF Completions
          <5>2. \A i \in Completions' : i + 1 = 1 /\ i \in 1..Len(inbox')
            BY <2>2, <2>3, <5>1
          <5>3. Completions' = {}
            BY <5>2
          <5> QED
            BY <2>4, <3>2, <5>3, Zenon DEF OneProcedure
        <4> QED
          BY <3>2, <4>1, <4>2
      <3> QED
        BY <1>4, <3>1, <3>2
    <2> QED
      BY <2>1, <2>5 DEF Safe
  <1> QED
    BY <1>3, <1>4

\* An event of the NCP does no harm: a completion is that of its procedure, which
\* then has nothing left to send.
LEMMA DeliveredSafe ==
  ASSUME IInv, NEW e \in Event, Deliver(e), ~e.stale, e.type # "boot",
         UNCHANGED <<state, status, resetPending>>,
         e.type = "completed" => proc # <<>> /\ proc' = <<>>,
         proc' # <<>> => proc # <<>>
  PROVE  Safe'
  <1> USE DeliveredInbox DEF IInv, Running
  <1>1. \A i \in 1..Len(inbox') : i \in 1..Len(inbox) \/ i = Len(inbox) + 1
    BY DeliveredInbox
  <1>2. NoStaleEvents'
    BY <1>1 DEF Safe, NoStaleEvents
  <1>3. BootInv'
    <2>1. BootInv /\ Running
      BY DEF Safe
    <2>2. \A i \in 1..Len(inbox') : inbox'[i].type = "boot" => i \in 1..Len(inbox)
      BY <1>1
    <2>3. \A i, j \in 1..Len(inbox') :
             inbox'[i].type = "boot" /\ i < j =>
                 inbox'[j].type \notin {"boot", "completed"} /\ ~inbox'[j].stale
      <3> SUFFICES ASSUME NEW i \in 1..Len(inbox'), NEW j \in 1..Len(inbox'),
                          inbox'[i].type = "boot", i < j
                   PROVE  inbox'[j].type \notin {"boot", "completed"} /\ ~inbox'[j].stale
        OBVIOUS
      <3>1. i \in 1..Len(inbox) /\ inbox[i].type = "boot"
        BY <2>2
      <3>2. proc = <<>>
        BY <2>1, <3>1 DEF BootInv
      <3>3. CASE j \in 1..Len(inbox)
        BY <2>1, <3>1, <3>3 DEF BootInv
      <3>4. CASE j = Len(inbox) + 1
        BY <3>2, <3>4
      <3> QED
        BY <1>1, <3>3, <3>4
    <2> QED
      BY <2>1, <2>2, <2>3 DEF BootInv
  <1>4. OneProcedure'
    <2> SUFFICES ASSUME state # "INIT" PROVE OneProcedure'
      BY DEF OneProcedure
    <2>1. OneProcedure
      BY DEF Safe
    <2>2. CASE e.type # "completed"
      <3>1. Completions' = Completions
        BY <1>1, <2>2 DEF Completions
      <3> QED
        BY <2>1, <3>1 DEF OneProcedure
    <2>3. CASE e.type = "completed"
      <3>1. Completions = {} /\ state \in GattStates
        BY <2>1, <2>3 DEF OneProcedure
      <3>2. \A i \in Completions' : i = Len(inbox) + 1
        BY <1>1, <3>1 DEF Completions
      <3> QED
        BY <2>3, <3>1, <3>2 DEF OneProcedure
    <2> QED
      BY <2>2, <2>3
  <1> QED
    BY <1>2, <1>3, <1>4 DEF Safe

\* A procedure can end, or lose what it had left to send, at any time.
LEMMA ProcEndsSafe ==
  ASSUME IInv, UNCHANGED <<state, status, resetPending, inbox>>,
         proc' # <<>> => proc # <<>>
  PROVE  Safe'
  <1>1. Completions' = Completions
    BY DEF Completions
  <1> QED
    BY <1>1 DEF IInv, Safe, BootInv, NoStaleEvents, OneProcedure, Running

-----------------------------------------------------------------------------
(* The invariant holds initially. *)

LEMMA InitIInv == Init => IInv
  <1> SUFFICES ASSUME Init PROVE IInv
    OBVIOUS
  <1>1. /\ NumSensors \in Nat \ {0} /\ MaxChars \in Nat \ {0} /\ MaxFaults \in Nat
        /\ AdvTimeout \in Nat
    BY DeviceAssumption, BoundAssumption
  <1>2. HostTypeOK
    <2>1. 1 \in 1..NumSensors + 1 /\ 0 \in 0..AdvTimeout + 1 /\ 0 \in 0..MaxChars
      BY <1>1
    <2>2. /\ chars \in [1..MaxChars -> Handles \cup {Null}]
          /\ reading \in [1..MaxChars -> Sensors \cup {Null}]
          /\ sensors \in [Sensors -> 0..MaxChars]
      BY <2>1 DEF Init, Null
    <2>3. services \in Seq(ServiceIds) /\ proc \in Seq(Event) /\ inbox \in Seq(Event)
      BY DEF Init
    <2>4. scanning \in BOOLEAN /\ resetPending \in BOOLEAN
      BY DEF Init
    <2> QED
      BY <1>1, <2>1, <2>2, <2>3, <2>4 DEF Init, HostTypeOK, States, Statuses
  <1>3. GoodProc(proc)
    BY EmptyIsGood DEF Init
  <1>4. inbox = <<>> /\ 1..Len(inbox) = {} /\ state = "INIT" /\ resetPending
    BY DEF Init
  <1>5. Safe
    BY <1>4 DEF Safe, BootInv, NoStaleEvents, OneProcedure
  <1> QED
    BY <1>2, <1>3, <1>5 DEF IInv

-----------------------------------------------------------------------------
(* One lemma for each action of the host. *)

LEMMA OutcomeGood ==
  ASSUME IInv, Outcome
  PROVE  GoodProc(proc') /\ proc' \in Seq(Event)
  BY DEF IInv, Outcome, GoodProc

LEMMA BootKeeps == IInv /\ Boot => IInv'
  <1> SUFFICES ASSUME IInv, Boot PROVE IInv'
    OBVIOUS
  <1>1. /\ state = "INIT" /\ Receive("boot") /\ EnterDiscovery
        /\ UNCHANGED <<pc, gattVars, roundVars, link, proc, subscribed, resetPending>>
    BY DEF Boot
  <1>2. PICK r \in CommandResults :
          /\ CountFault(r)
          /\ IF r = "ok"
             THEN scanning' = TRUE /\ UNCHANGED status
             ELSE Stop("command_failed") /\ UNCHANGED scanning
    BY <1>1 DEF EnterDiscovery
  <1>3. faults' \in Nat
    BY <1>2, AnswerCounts DEF IInv
  <1>4. state' = "DISCOVERY" /\ waited' = 0
    BY <1>1 DEF EnterDiscovery
  <1>5. status' \in Statuses /\ scanning' \in BOOLEAN
    BY <1>2, Zenon DEF Stop, IInv, HostTypeOK, Statuses
  <1>6. HostTypeOK'
    <2>1. inbox' \in Seq(Event)
      BY <1>1, TakenInbox DEF IInv
    <2>2. waited' \in 0..AdvTimeout + 1 /\ state' \in States
      BY <1>4, BoundAssumption DEF States
    <2> QED
      BY <1>1, <1>3, <1>5, <2>1, <2>2 DEF IInv, HostTypeOK, gattVars, roundVars
  <1>7. GoodProc(proc')
    BY <1>1 DEF IInv
  <1>8. Safe'
    <2>1. /\ BootInv /\ Running /\ Len(inbox) \in Nat
          /\ 1 \in 1..Len(inbox) /\ inbox[1].type = "boot"
          /\ \A i \in 1..Len(inbox') :
                i + 1 \in 1..Len(inbox) /\ inbox'[i] = inbox[i + 1] /\ 1 < i + 1
      <3>1. HostTypeOK /\ Receive("boot") /\ state = "INIT" /\ Safe
        BY <1>1 DEF IInv
      <3>2. BootInv
        BY <3>1 DEF Safe
      <3> QED
        BY <3>1, <3>2, TakenInbox
    <2>2. ~resetPending
      BY <2>1 DEF BootInv
    <2>3. proc' = <<>> /\ ~resetPending'
      BY <1>1, <2>1, <2>2 DEF BootInv
    <2>4. \A i \in 1..Len(inbox') :
             inbox'[i].type \notin {"boot", "completed"} /\ ~inbox'[i].stale
      BY <2>1 DEF BootInv
    <2>5. BootInv' /\ NoStaleEvents'
      BY <1>4, <2>3, <2>4 DEF BootInv, NoStaleEvents
    <2>6. Completions' = {}
      BY <2>4 DEF Completions
    <2>7. OneProcedure'
      BY <1>4, <2>3, <2>6 DEF OneProcedure
    <2> QED
      BY <2>5, <2>7 DEF Safe
  <1> QED
    BY <1>6, <1>7, <1>8 DEF IInv

LEMMA AdvertisementTimeoutKeeps == IInv /\ AdvertisementTimeout => IInv'
  <1> SUFFICES ASSUME IInv, AdvertisementTimeout PROVE IInv'
    OBVIOUS
  <1>1. PICK type \in EventTypes : Receive(type)
    BY DEF AdvertisementTimeout
  <1>2. /\ state = "DISCOVERY" /\ Stop("adv_timeout")
        /\ UNCHANGED <<state, pc, gattVars, roundVars, waited, ncpVars, faults>>
    BY DEF AdvertisementTimeout
  <1>3. HostTypeOK'
    <2>1. inbox' \in Seq(Event)
      BY <1>1, TakenInbox DEF IInv
    <2> QED
      BY <1>2, <2>1 DEF IInv, HostTypeOK, gattVars, roundVars, ncpVars, Stop, Statuses
  <1>4. GoodProc(proc')
    BY <1>2 DEF IInv, ncpVars
  <1>5. Safe'
    <2>1. ~Running'
      BY <1>2 DEF Stop, Running
    <2> QED
      BY <2>1 DEF Safe, BootInv, NoStaleEvents, OneProcedure
  <1> QED
    BY <1>3, <1>4, <1>5 DEF IInv

LEMMA ThunderboardFoundKeeps == IInv /\ ThunderboardFound => IInv'
  <1> SUFFICES ASSUME IInv, ThunderboardFound PROVE IInv'
    OBVIOUS
  <1>1. /\ state = "DISCOVERY" /\ Receive("scan")
        /\ UNCHANGED <<pc, gattVars, roundVars, waited, proc, subscribed, resetPending>>
    BY DEF ThunderboardFound
  <1>2. /\ state' \in {"DISCOVERY", "CONNECT"} /\ status' \in Statuses
        /\ faults' \in Nat /\ scanning' \in BOOLEAN
        /\ link' \in {"down", "connecting", "up"}
    <2>1. CASE scanning' = FALSE /\ EnterConnect
      <3>1. PICK r \in CommandResults :
              /\ CountFault(r)
              /\ IF r = "ok"
                 THEN link' = "connecting" /\ UNCHANGED status
                 ELSE Stop("command_failed") /\ UNCHANGED link
        BY <2>1 DEF EnterConnect
      <3>2. faults' \in Nat
        BY <3>1, AnswerCounts DEF IInv
      <3> QED
        BY <2>1, <3>1, <3>2 DEF EnterConnect, Stop, IInv, HostTypeOK, Statuses
    <2>2. CASE /\ "error" \in CommandResults /\ CountFault("error")
               /\ UNCHANGED <<state, status, ledVars, scanning, link>>
      <3>1. faults' \in Nat
        BY <2>2, AnswerCounts DEF IInv
      <3> QED
        BY <1>1, <2>2, <3>1 DEF IInv, HostTypeOK
    <2> QED
      BY <2>1, <2>2 DEF ThunderboardFound
  <1>3. HostTypeOK'
    <2>1. inbox' \in Seq(Event)
      BY <1>1, TakenInbox DEF IInv
    <2> QED
      BY <1>1, <1>2, <2>1 DEF IInv, HostTypeOK, gattVars, roundVars, States
  <1>4. GoodProc(proc')
    BY <1>1 DEF IInv
  <1>5. Safe'
    BY <1>1, <1>2, HandledSafe DEF GattStates
  <1> QED
    BY <1>3, <1>4, <1>5 DEF IInv

LEMMA OtherAdvertisementKeeps == IInv /\ OtherAdvertisement => IInv'
  <1> SUFFICES ASSUME IInv, OtherAdvertisement PROVE IInv'
    OBVIOUS
  <1>1. /\ state = "DISCOVERY" /\ Receive("scan")
        /\ UNCHANGED <<hostVars, waited, ncpVars, faults>>
    BY DEF OtherAdvertisement
  <1>2. HostTypeOK'
    <2>1. inbox' \in Seq(Event)
      BY <1>1, TakenInbox DEF IInv
    <2> QED
      BY <1>1, <2>1 DEF IInv, HostTypeOK, hostVars, gattVars, roundVars, ncpVars
  <1>3. GoodProc(proc')
    BY <1>1 DEF IInv, ncpVars
  <1>4. Safe'
    BY <1>1, HandledSafe DEF hostVars, ncpVars
  <1> QED
    BY <1>2, <1>3, <1>4 DEF IInv

LEMMA OpenedKeeps == IInv /\ Opened => IInv'
  <1> SUFFICES ASSUME IInv, Opened PROVE IInv'
    OBVIOUS
  <1>1. /\ state = "CONNECT" /\ Receive("opened") /\ EnterServices
        /\ UNCHANGED <<pc, gattVars, roundVars, waited, link, scanning, subscribed,
                       resetPending>>
    BY DEF Opened
  <1>2. state' = "DISCOVER_SERVICES" /\ Start(GattResults, ServicesProc)
    BY <1>1 DEF EnterServices
  <1>3. Outcome
    BY <1>1, <1>2, StartOutcome, ServicesProcIsGood DEF IInv, GattStates, gattVars
  <1>4. HostTypeOK'
    <2>1. inbox' \in Seq(Event)
      BY <1>1, TakenInbox DEF IInv
    <2> QED
      BY <1>1, <1>3, <2>1, OutcomeGood DEF IInv, HostTypeOK, Outcome, gattVars, roundVars
  <1>5. Safe'
    BY <1>1, <1>2, <1>3, HandledSafe DEF GattStates, Outcome
  <1> QED
    BY <1>3, <1>4, <1>5, OutcomeGood DEF IInv

LEMMA ClosedKeeps == IInv /\ Closed => IInv'
  <1> SUFFICES ASSUME IInv, Closed PROVE IInv'
    OBVIOUS
  <1>1. /\ state # "INIT" /\ Receive("closed") /\ EnterInit
        /\ UNCHANGED <<status, pc, ledVars, services, serviceIndex, chars, sensors,
                   roundVars, waited, link, proc, scanning, subscribed, faults>>
    BY DEF Closed, LinkStates, GattStates
  <1>2. HostTypeOK'
    <2>1. inbox' \in Seq(Event)
      BY <1>1, TakenInbox DEF IInv
    <2> QED
      BY <1>1, <2>1 DEF IInv, HostTypeOK, EnterInit, roundVars, States
  <1>3. GoodProc(proc')
    BY <1>1 DEF IInv
  <1>4. Safe'
    BY <1>1, HandledSafe DEF EnterInit
  <1> QED
    BY <1>2, <1>3, <1>4 DEF IInv

\* The argument of an event at the head of the inbox.
LEMMA HeadArg ==
  ASSUME HostTypeOK, NEW type, Receive(type)
  PROVE  /\ Arg \in Nat
         /\ type = "service" => Arg \in ServiceIds
         /\ type \in {"characteristic", "value"} => Arg \in Handles
  <1>1. inbox \in Seq(Event) /\ inbox # <<>> /\ Head(inbox).type = type
    BY DEF HostTypeOK, Receive
  <1>2. Head(inbox) \in Event
    BY <1>1
  <1> QED
    BY <1>1, <1>2 DEF Arg, Event

LEMMA ServiceFoundKeeps == IInv /\ ServiceFound => IInv'
  <1> SUFFICES ASSUME IInv, ServiceFound PROVE IInv'
    OBVIOUS
  <1>1. /\ state = "DISCOVER_SERVICES" /\ Receive("service")
        /\ UNCHANGED <<state, pc, serviceIndex, chars, charsLen, sensors, roundVars,
                       waited, ncpVars, faults>>
    BY DEF ServiceFound
  <1>2. HostTypeOK'
    <2>1. inbox' \in Seq(Event) /\ Arg \in ServiceIds
      BY <1>1, TakenInbox, HeadArg DEF IInv
    <2>2. CASE Len(services) = MaxServices
      BY <1>1, <2>1, <2>2 DEF ServiceFound, Stop, IInv, HostTypeOK, Statuses,
                              roundVars, ncpVars
    <2>3. CASE Len(services) # MaxServices
      <3>1. services' = Append(services, Arg) /\ UNCHANGED status
        BY <2>3 DEF ServiceFound
      <3>2. services' \in Seq(ServiceIds)
        BY <2>1, <3>1 DEF IInv, HostTypeOK
      <3> QED
        BY <1>1, <2>1, <3>1, <3>2 DEF IInv, HostTypeOK, roundVars, ncpVars
    <2> QED
      BY <2>2, <2>3
  <1>3. GoodProc(proc')
    BY <1>1 DEF IInv, ncpVars
  <1>4. Safe'
    BY <1>1, HandledSafe DEF ncpVars
  <1> QED
    BY <1>2, <1>3, <1>4 DEF IInv

\* DiscoverChars is a procedure of the state it enters.
LEMMA DiscoverCharsOutcome ==
  ASSUME HostTypeOK, NEW i, DiscoverChars(i), UNCHANGED <<charsLen, resetPending>>
  PROVE  Outcome /\ state' = "DISCOVER_CHARACTERISTICS"
  <1> DEFINE s == IF i <= Len(services) THEN services[i] ELSE 0
             results == IF s = 0 THEN GattResults \cup {"not_found"} ELSE GattResults
  <1>1. state' = "DISCOVER_CHARACTERISTICS" /\ Start(results, CharsProc(s))
    BY DEF DiscoverChars
  <1>2. results \subseteq GattResults \cup {"not_found"} /\ GoodProc(CharsProc(s))
    BY CharsProcIsGood
  <1> HIDE DEF s, results
  <1> QED
    BY <1>1, <1>2, StartOutcome DEF GattStates

LEMMA ServicesDiscoveredKeeps == IInv /\ ServicesDiscovered => IInv'
  <1> SUFFICES ASSUME IInv, ServicesDiscovered PROVE IInv'
    OBVIOUS
  <1>1. /\ state = "DISCOVER_SERVICES" /\ Receive("completed")
        /\ DiscoverChars(serviceIndex)
        /\ UNCHANGED <<pc, gattVars, roundVars, waited, link, scanning, subscribed,
                       resetPending>>
    BY DEF ServicesDiscovered
  <1>2. Outcome /\ state' = "DISCOVER_CHARACTERISTICS"
    BY <1>1, DiscoverCharsOutcome DEF IInv, gattVars
  <1>3. HostTypeOK'
    <2>1. inbox' \in Seq(Event)
      BY <1>1, TakenInbox DEF IInv
    <2> QED
      BY <1>1, <1>2, <2>1, OutcomeGood DEF IInv, HostTypeOK, Outcome, gattVars, roundVars
  <1>4. Safe'
    BY <1>1, <1>2, HandledSafe DEF GattStates, Outcome
  <1> QED
    BY <1>2, <1>3, <1>4, OutcomeGood DEF IInv

LEMMA CharacteristicFoundKeeps == IInv /\ CharacteristicFound => IInv'
  <1> SUFFICES ASSUME IInv, CharacteristicFound PROVE IInv'
    OBVIOUS
  <1>1. /\ state = "DISCOVER_CHARACTERISTICS" /\ Receive("characteristic")
        /\ charsLen' = charsLen + 1
        /\ UNCHANGED <<state, pc, ledVars, services, serviceIndex, roundVars, waited,
                       ncpVars, faults>>
    BY DEF CharacteristicFound
  <1>2. HostTypeOK'
    <2>1. inbox' \in Seq(Event) /\ Arg \in Handles
      BY <1>1, TakenInbox, HeadArg DEF IInv
    <2>2. charsLen \in Nat /\ MaxChars \in Nat /\ Uuid[Arg] \in Sensors \cup {0}
      BY <2>1, DeviceAssumption, BoundAssumption DEF IInv, HostTypeOK
    <2>3. /\ chars' \in [1..MaxChars -> Handles \cup {Null}]
          /\ sensors' \in [Sensors -> 0..MaxChars]
          /\ status' \in Statuses
      <3>1. CASE charsLen + 1 > MaxChars
        BY <3>1 DEF CharacteristicFound, IInv, HostTypeOK, Statuses
      <3>2. CASE ~(charsLen + 1 > MaxChars)
        <4>1. charsLen + 1 \in 1..MaxChars
          BY <2>2, <3>2
        <4>2. /\ chars' = [chars EXCEPT ![charsLen + 1] = Arg]
              /\ sensors' = Register(charsLen + 1, Arg)
              /\ status' = status
          BY <3>2 DEF CharacteristicFound
        <4>3. sensors' \in [Sensors -> 0..MaxChars]
          BY <2>2, <4>1, <4>2 DEF Register, IInv, HostTypeOK
        <4> QED
          BY <2>1, <4>1, <4>2, <4>3 DEF IInv, HostTypeOK
      <3> QED
        BY <3>1, <3>2
    <2> QED
      BY <1>1, <2>1, <2>2, <2>3 DEF IInv, HostTypeOK, roundVars, ncpVars
  <1>3. GoodProc(proc')
    BY <1>1 DEF IInv, ncpVars
  <1>4. Safe'
    BY <1>1, HandledSafe DEF ncpVars
  <1> QED
    BY <1>2, <1>3, <1>4 DEF IInv

LEMMA CharacteristicsDiscoveredKeeps == IInv /\ CharacteristicsDiscovered => IInv'
  <1> SUFFICES ASSUME IInv, CharacteristicsDiscovered PROVE IInv'
    OBVIOUS
  <1>1. /\ state = "DISCOVER_CHARACTERISTICS" /\ Receive("completed")
        /\ serviceIndex' = serviceIndex + 1
        /\ UNCHANGED <<pc, services, chars, sensors, reading, waited, link, scanning>>
    BY DEF CharacteristicsDiscovered
  <1>2. /\ Outcome /\ state' \in GattStates \cup {"INIT"}
        /\ lastRequested' \in Nat
        /\ readIndex' \in 1..NumSensors + 1 /\ subIndex' \in 1..NumSensors + 1
        /\ subscribed' \subseteq Handles
    <2>1. CASE /\ DiscoverChars(serviceIndex')
               /\ UNCHANGED <<subIndex, readIndex, lastRequested, charsLen,
                              subscribed, resetPending>>
      <3>1. Outcome /\ state' = "DISCOVER_CHARACTERISTICS"
        BY <2>1, DiscoverCharsOutcome DEF IInv
      <3> QED
        BY <2>1, <3>1 DEF GattStates, IInv, HostTypeOK
    <2>2. CASE SubscribeFrom(1)
      <3>1. 1 \in 1..NumSensors + 1
        BY DeviceAssumption
      <3> QED
        BY <2>2, <3>1, SubscribeOutcome DEF IInv, GattStates
    <2> QED
      BY <2>1, <2>2 DEF CharacteristicsDiscovered
  <1>3. HostTypeOK'
    <2>1. inbox' \in Seq(Event) /\ serviceIndex' \in Nat \ {0}
      BY <1>1, TakenInbox DEF IInv, HostTypeOK
    <2> QED
      BY <1>1, <1>2, <2>1, OutcomeGood DEF IInv, HostTypeOK, Outcome
  <1>4. Safe'
    BY <1>1, <1>2, HandledSafe DEF GattStates, Outcome
  <1> QED
    BY <1>2, <1>3, <1>4, OutcomeGood DEF IInv

LEMMA SubscribedKeeps == IInv /\ Subscribed => IInv'
  <1> SUFFICES ASSUME IInv, Subscribed PROVE IInv'
    OBVIOUS
  <1>1. /\ state = "SUBSCRIBE" /\ Receive("completed") /\ SubscribeFrom(subIndex)
        /\ UNCHANGED <<pc, services, serviceIndex, chars, sensors, reading, waited,
                       link, scanning>>
    BY DEF Subscribed
  <1>2. /\ Outcome /\ state' \in GattStates \cup {"INIT"}
        /\ lastRequested' \in Nat
        /\ readIndex' \in 1..NumSensors + 1 /\ subIndex' \in 1..NumSensors + 1
        /\ subscribed' \subseteq Handles
    BY <1>1, SubscribeOutcome DEF IInv, HostTypeOK, GattStates
  <1>3. HostTypeOK'
    <2>1. inbox' \in Seq(Event)
      BY <1>1, TakenInbox DEF IInv
    <2> QED
      BY <1>1, <1>2, <2>1, OutcomeGood DEF IInv, HostTypeOK, Outcome
  <1>4. Safe'
    BY <1>1, <1>2, HandledSafe DEF GattStates, Outcome
  <1> QED
    BY <1>2, <1>3, <1>4, OutcomeGood DEF IInv

LEMMA ValueReceivedKeeps == IInv /\ ValueReceived => IInv'
  <1> SUFFICES ASSUME IInv, ValueReceived PROVE IInv'
    OBVIOUS
  <1>1. /\ state = "READ" /\ Receive("value")
        /\ UNCHANGED <<state, pc, ledVars, gattVars, subIndex, lastRequested, waited,
                       ncpVars, faults>>
    BY DEF ValueReceived
  <1>2. HostTypeOK'
    <2>1. inbox' \in Seq(Event) /\ Arg \in Handles
      BY <1>1, TakenInbox, HeadArg DEF IInv
    <2>2. Uuid[Arg] \in Sensors \cup {Null} /\ NumSensors \in Nat
      BY <2>1, DeviceAssumption DEF Null
    <2>3. AfterValue(Arg) \in 1..NumSensors + 1
      BY <2>2 DEF AfterValue, Sensors, IInv, HostTypeOK
    <2>4. /\ status' \in Statuses
          /\ readIndex' \in 1..NumSensors + 1
          /\ reading' \in [1..MaxChars -> Sensors \cup {Null}]
      BY <2>2, <2>3 DEF ValueReceived, Statuses, IInv, HostTypeOK
    <2> QED
      BY <1>1, <2>1, <2>4 DEF IInv, HostTypeOK, gattVars, ncpVars
  <1>3. GoodProc(proc')
    BY <1>1 DEF IInv, ncpVars
  <1>4. Safe'
    BY <1>1, HandledSafe DEF ncpVars
  <1> QED
    BY <1>2, <1>3, <1>4 DEF IInv

LEMMA RequestNextKeeps == IInv /\ RequestNext => IInv'
  <1> SUFFICES ASSUME IInv, RequestNext PROVE IInv'
    OBVIOUS
  <1> DEFINE s == FirstSensor(readIndex, CanRead)
  <1>1. /\ state = "READ" /\ Receive("completed")
        /\ s \in Sensors /\ readIndex' = s /\ Request(s, {"invalid_conn_handle"})
        /\ UNCHANGED <<pc, services, serviceIndex, chars, sensors, subIndex, reading,
                       waited, link, scanning, subscribed>>
    BY DEF RequestNext
  <1>2. s \in 1..NumSensors + 1 /\ sensors[s] # Null
    BY <1>1, FirstReadable DEF IInv, HostTypeOK, CanRead
  <1> HIDE DEF s
  <1>3. Outcome /\ lastRequested' \in Nat /\ state' \in {"READ", "INIT"}
    BY <1>1, <1>2, RequestOutcome DEF IInv, HostTypeOK
  <1>4. HostTypeOK'
    <2>1. inbox' \in Seq(Event)
      BY <1>1, TakenInbox DEF IInv
    <2> QED
      BY <1>1, <1>2, <1>3, <2>1, OutcomeGood DEF IInv, HostTypeOK, Outcome
  <1>5. Safe'
    BY <1>1, <1>3, HandledSafe DEF GattStates, Outcome
  <1> QED
    BY <1>3, <1>4, <1>5, OutcomeGood DEF IInv

LEMMA RefreshKeeps == IInv /\ Refresh => IInv'
  <1> SUFFICES ASSUME IInv, Refresh PROVE IInv'
    OBVIOUS
  <1>1. /\ state = "READ" /\ Receive("completed") /\ readIndex' = 1
        /\ sensors[1] # Null /\ Request(1, Refusals)
        /\ reading' = [i \in 1..MaxChars |-> Null] /\ pc' = "upload"
        /\ UNCHANGED <<services, serviceIndex, chars, sensors, subIndex, waited, link,
                       scanning, subscribed>>
    BY DEF Refresh, RoundEnded
  <1>2. 1 \in Sensors /\ 1 \in 1..NumSensors + 1
    BY DeviceAssumption DEF Sensors
  <1>3. Outcome /\ lastRequested' \in Nat /\ state' \in {"READ", "INIT"}
    BY <1>1, <1>2, RequestOutcome DEF IInv
  <1>4. HostTypeOK'
    <2>1. inbox' \in Seq(Event)
      BY <1>1, TakenInbox DEF IInv
    <2> QED
      BY <1>1, <1>2, <1>3, <2>1, OutcomeGood DEF IInv, HostTypeOK, Outcome
  <1>5. Safe'
    BY <1>1, <1>3, HandledSafe DEF GattStates, Outcome
  <1> QED
    BY <1>3, <1>4, <1>5, OutcomeGood DEF IInv

LEMMA RefreshCrashKeeps == IInv /\ RefreshCrash => IInv'
  <1> SUFFICES ASSUME IInv, RefreshCrash PROVE IInv'
    OBVIOUS
  <1>1. /\ state = "READ" /\ Receive("completed") /\ readIndex' = 1
        /\ status' = "null_deref"
        /\ UNCHANGED <<state, pc, ledVars, gattVars, subIndex, lastRequested, reading,
                       waited, ncpVars, faults>>
    BY DEF RefreshCrash, RoundEnded
  <1>2. HostTypeOK'
    <2>1. inbox' \in Seq(Event) /\ 1 \in 1..NumSensors + 1
      BY <1>1, TakenInbox, DeviceAssumption DEF IInv
    <2> QED
      BY <1>1, <2>1 DEF IInv, HostTypeOK, gattVars, ncpVars, Statuses
  <1>3. GoodProc(proc')
    BY <1>1 DEF IInv, ncpVars
  <1>4. Safe'
    BY <1>1, HandledSafe DEF ncpVars
  <1> QED
    BY <1>2, <1>3, <1>4 DEF IInv

LEMMA IgnoreKeeps == IInv /\ Ignore => IInv'
  <1> SUFFICES ASSUME IInv, Ignore PROVE IInv'
    OBVIOUS
  <1>1. PICK type \in EventTypes \ Handled(state) : Receive(type)
    BY DEF Ignore
  <1>2. UNCHANGED <<hostVars, waited, ncpVars, faults>>
    BY DEF Ignore
  <1>3. HostTypeOK'
    <2>1. inbox' \in Seq(Event)
      BY <1>1, TakenInbox DEF IInv
    <2> QED
      BY <1>2, <2>1 DEF IInv, HostTypeOK, hostVars, gattVars, roundVars, ncpVars
  <1>4. GoodProc(proc')
    BY <1>2 DEF IInv, ncpVars
  <1>5. Safe'
    <2>1. state' = state /\ status' = status /\ resetPending' = resetPending /\ proc' = proc
      BY <1>2 DEF hostVars, ncpVars
    <2>2. CASE state # "INIT"
      BY <1>1, <2>1, <2>2, HandledSafe
    <2>3. CASE state = "INIT"
      <3>1. BootInv /\ Running /\ Len(inbox) \in Nat
            /\ \A i \in 1..Len(inbox') :
                  i \in Nat /\ i + 1 \in 1..Len(inbox) /\ inbox'[i] = inbox[i + 1]
        BY <1>1, TakenInbox DEF IInv, Safe
      <3>2. \A i, j \in 1..Len(inbox') :
               inbox'[i].type = "boot" /\ i < j =>
                   inbox'[j].type \notin {"boot", "completed"} /\ ~inbox'[j].stale
        <4> SUFFICES ASSUME NEW i \in 1..Len(inbox'), NEW j \in 1..Len(inbox'),
                            inbox'[i].type = "boot", i < j
                     PROVE  inbox'[j].type \notin {"boot", "completed"} /\ ~inbox'[j].stale
          OBVIOUS
        <4>1. i + 1 < j + 1 /\ inbox[i + 1].type = "boot"
          BY <3>1
        <4> QED
          BY <3>1, <4>1 DEF BootInv
      <3>3. resetPending => \A i \in 1..Len(inbox') : inbox'[i].type # "boot"
        BY <3>1 DEF BootInv
      <3>4. BootInv'
        BY <2>1, <2>3, <3>1, <3>2, <3>3 DEF BootInv
      <3> QED
        BY <2>1, <2>3, <3>4 DEF Safe, NoStaleEvents, OneProcedure
    <2> QED
      BY <2>2, <2>3
  <1> QED
    BY <1>3, <1>4, <1>5 DEF IInv

LEMMA UploadKeeps == IInv /\ Upload => IInv'
  <1> SUFFICES ASSUME IInv, Upload PROVE IInv'
    OBVIOUS
  <1>1. /\ pc' = "loop"
        /\ UNCHANGED <<state, status, gattVars, roundVars, waited, ncpVars, inbox, faults>>
    BY DEF Upload
  <1>2. HostTypeOK'
    BY <1>1 DEF IInv, HostTypeOK, gattVars, roundVars, ncpVars
  <1>3. GoodProc(proc') /\ Safe'
    BY <1>1, ProcEndsSafe DEF IInv, ncpVars
  <1> QED
    BY <1>2, <1>3 DEF IInv

LEMMA TakeJobKeeps == IInv /\ TakeJob => IInv'
  <1> SUFFICES ASSUME IInv, TakeJob PROVE IInv'
    OBVIOUS
  <1>1. UNCHANGED <<state, status, pc, gattVars, roundVars, waited, ncpVars, inbox, faults>>
    BY DEF TakeJob
  <1>2. HostTypeOK'
    BY <1>1 DEF IInv, HostTypeOK, gattVars, roundVars, ncpVars
  <1>3. GoodProc(proc') /\ Safe'
    BY <1>1, ProcEndsSafe DEF IInv, ncpVars
  <1> QED
    BY <1>2, <1>3 DEF IInv

-----------------------------------------------------------------------------
(* One lemma for each action of the NCP and the peripheral. *)

\* An event made by Ev is one, given an argument that fits its type.
LEMMA EvIsEvent ==
  ASSUME NEW type \in EventTypes, NEW arg \in Nat,
         type = "service" => arg \in ServiceIds,
         type \in {"characteristic", "value"} => arg \in Handles
  PROVE  /\ Ev(type, arg) \in Event
         /\ Ev(type, arg).type = type /\ ~Ev(type, arg).stale
  BY DEF Ev, Event

\* The reset leaves the types of the events as they are and announces itself.
LEMMA ResetInbox ==
  ASSUME HostTypeOK, Reset
  PROVE  /\ inbox' \in Seq(Event) /\ Len(inbox) \in Nat /\ Len(inbox') = Len(inbox) + 1
         /\ \A i \in 1..Len(inbox) : inbox'[i].type = inbox[i].type
         /\ inbox'[Len(inbox) + 1].type = "boot"
  <1> DEFINE old == [i \in 1..Len(inbox) |-> [inbox[i] EXCEPT !.stale = TRUE]]
             boot == Ev("boot", 0)
  <1>1. inbox' = Append(old, boot)
    BY DEF Reset
  <1>2. boot \in Event /\ boot.type = "boot"
    BY EvIsEvent DEF EventTypes
  <1>3. /\ inbox \in Seq(Event) /\ Len(inbox) \in Nat
        /\ \A i \in 1..Len(inbox) : inbox[i] \in Event
    BY DEF HostTypeOK
  <1>4. \A e \in Event : /\ [e EXCEPT !.stale = TRUE] \in Event
                        /\ [e EXCEPT !.stale = TRUE].type = e.type
    BY DEF Event
  <1>5. /\ old \in Seq(Event) /\ Len(old) = Len(inbox)
        /\ \A i \in 1..Len(inbox) : old[i].type = inbox[i].type
    <2>1. \A i \in 1..Len(inbox) : old[i] \in Event /\ old[i].type = inbox[i].type
      BY <1>3, <1>4
    <2>2. old \in [1..Len(inbox) -> Event]
      BY <2>1
    <2> QED
      BY <1>3, <2>1, <2>2, IsASeq
  <1> HIDE DEF old, boot
  <1> QED
    BY <1>1, <1>2, <1>3, <1>5

LEMMA ResetKeeps == IInv /\ Reset => IInv'
  <1> SUFFICES ASSUME IInv, Reset PROVE IInv'
    OBVIOUS
  <1>1. /\ Running /\ resetPending
        /\ link' = "down" /\ proc' = <<>> /\ scanning' = FALSE /\ subscribed' = {}
        /\ resetPending' = FALSE
        /\ UNCHANGED <<hostVars, waited, faults>>
    BY DEF Reset, Running
  <1>2. /\ inbox' \in Seq(Event) /\ Len(inbox) \in Nat /\ Len(inbox') = Len(inbox) + 1
        /\ \A i \in 1..Len(inbox) : inbox'[i].type = inbox[i].type
        /\ inbox'[Len(inbox) + 1].type = "boot"
    BY ResetInbox DEF IInv
  <1>3. HostTypeOK'
    <2>1. scanning' \in BOOLEAN /\ resetPending' \in BOOLEAN
      BY <1>1, Zenon
    <2>2. proc' \in Seq(Event)
      BY <1>1
    <2> QED
      BY <1>1, <1>2, <2>1, <2>2 DEF IInv, HostTypeOK, hostVars, gattVars, roundVars
  <1>4. Safe'
    <2>1. BootInv /\ state = "INIT"
      BY <1>1 DEF IInv, Safe, BootInv
    <2>2. \A i \in 1..Len(inbox) : inbox'[i].type # "boot"
      BY <1>1, <1>2, <2>1 DEF BootInv
    <2>3. \A i, j \in 1..Len(inbox') : inbox'[i].type = "boot" => ~(i < j)
      BY <1>2, <2>2
    <2>4. state' = "INIT" /\ ~resetPending' /\ proc' = <<>>
      BY <1>1, <2>1 DEF hostVars
    <2>5. BootInv'
      BY <2>3, <2>4 DEF BootInv
    <2> QED
      BY <2>4, <2>5 DEF Safe, NoStaleEvents, OneProcedure
  <1>5. GoodProc(proc')
    BY <1>1, EmptyIsGood
  <1> QED
    BY <1>3, <1>4, <1>5 DEF IInv

LEMMA AdvertiseKeeps ==
  ASSUME IInv, NEW match \in {0, 1}, Advertise(match)
  PROVE  IInv'
  <1>1. Deliver(Ev("scan", match)) /\ UNCHANGED <<hostVars, waited, ncpVars, faults>>
    BY DEF Advertise
  <1>2. /\ Ev("scan", match) \in Event
        /\ Ev("scan", match).type = "scan" /\ ~Ev("scan", match).stale
    BY EvIsEvent DEF EventTypes
  <1>3. HostTypeOK'
    BY <1>1, <1>2, DeliveredInbox DEF IInv, HostTypeOK, hostVars, gattVars, roundVars, ncpVars
  <1>4. Safe'
    BY <1>1, <1>2, DeliveredSafe DEF hostVars, ncpVars
  <1> QED
    BY <1>1, <1>3, <1>4 DEF IInv, ncpVars

LEMMA OpenConnectionKeeps == IInv /\ OpenConnection => IInv'
  <1> SUFFICES ASSUME IInv, OpenConnection PROVE IInv'
    OBVIOUS
  <1>1. /\ Deliver(Ev("opened", 0)) /\ link' = "up"
        /\ UNCHANGED <<hostVars, waited, proc, scanning, subscribed, resetPending, faults>>
    BY DEF OpenConnection
  <1>2. /\ Ev("opened", 0) \in Event
        /\ Ev("opened", 0).type = "opened" /\ ~Ev("opened", 0).stale
    BY EvIsEvent DEF EventTypes
  <1>3. HostTypeOK'
    BY <1>1, <1>2, DeliveredInbox DEF IInv, HostTypeOK, hostVars, gattVars, roundVars
  <1>4. Safe'
    BY <1>1, <1>2, DeliveredSafe DEF hostVars
  <1> QED
    BY <1>1, <1>3, <1>4 DEF IInv

LEMMA OtherEventKeeps == IInv /\ OtherEvent => IInv'
  <1> SUFFICES ASSUME IInv, OtherEvent PROVE IInv'
    OBVIOUS
  <1>1. Deliver(Ev("other", 0)) /\ UNCHANGED <<hostVars, waited, ncpVars, faults>>
    BY DEF OtherEvent
  <1>2. /\ Ev("other", 0) \in Event
        /\ Ev("other", 0).type = "other" /\ ~Ev("other", 0).stale
    BY EvIsEvent DEF EventTypes
  <1>3. HostTypeOK'
    BY <1>1, <1>2, DeliveredInbox DEF IInv, HostTypeOK, hostVars, gattVars, roundVars, ncpVars
  <1>4. Safe'
    BY <1>1, <1>2, DeliveredSafe DEF hostVars, ncpVars
  <1> QED
    BY <1>1, <1>3, <1>4 DEF IInv, ncpVars

LEMMA ProgressKeeps == IInv /\ Progress => IInv'
  <1> SUFFICES ASSUME IInv, Progress PROVE IInv'
    OBVIOUS
  <1> DEFINE e == Head(proc)
  <1>1. /\ proc # <<>> /\ Deliver(e) /\ proc' = Tail(proc)
        /\ UNCHANGED <<hostVars, waited, link, scanning, subscribed, resetPending, faults>>
    BY DEF Progress
  <1>2. /\ proc \in Seq(Event) /\ e = proc[1] /\ 1 \in 1..Len(proc) /\ e \in Event
        /\ proc' \in Seq(Event) /\ Len(proc) \in Nat /\ Len(proc') = Len(proc) - 1
        /\ \A i \in 1..Len(proc') : i + 1 \in 1..Len(proc) /\ proc'[i] = proc[i + 1]
    BY <1>1 DEF IInv, GoodProc
  <1>3. e.type # "boot" /\ ~e.stale /\ (e.type = "completed" => Len(proc) = 1)
    BY <1>2 DEF IInv, GoodProc
  <1>4. e.type = "completed" => proc' = <<>>
    BY <1>2, <1>3
  <1>5. GoodProc(proc')
    BY <1>2 DEF IInv, GoodProc
  <1> HIDE DEF e
  <1>6. HostTypeOK'
    BY <1>1, <1>2, DeliveredInbox DEF IInv, HostTypeOK, hostVars, gattVars, roundVars
  <1>7. Safe'
    BY <1>1, <1>2, <1>3, <1>4, DeliveredSafe DEF hostVars
  <1> QED
    BY <1>5, <1>6, <1>7 DEF IInv

LEMMA NotifyKeeps ==
  ASSUME IInv, NEW h, Notify(h)
  PROVE  IInv'
  <1>1. /\ h \in subscribed /\ Deliver(Ev("value", h))
        /\ UNCHANGED <<hostVars, waited, ncpVars, faults>>
    BY DEF Notify
  <1>2. h \in Handles /\ h \in Nat
    BY <1>1, DeviceAssumption DEF IInv, HostTypeOK
  <1>3. /\ Ev("value", h) \in Event
        /\ Ev("value", h).type = "value" /\ ~Ev("value", h).stale
    BY <1>2, EvIsEvent DEF EventTypes
  <1>4. HostTypeOK'
    BY <1>1, <1>3, DeliveredInbox DEF IInv, HostTypeOK, hostVars, gattVars, roundVars, ncpVars
  <1>5. Safe'
    BY <1>1, <1>3, DeliveredSafe DEF hostVars, ncpVars
  <1> QED
    BY <1>1, <1>4, <1>5 DEF IInv, ncpVars

LEMMA DisconnectKeeps == IInv /\ Disconnect => IInv'
  <1> SUFFICES ASSUME IInv, Disconnect PROVE IInv'
    OBVIOUS
  <1>1. /\ faults > 0 /\ Deliver(Ev("closed", 0)) /\ link' = "down" /\ proc' = <<>>
        /\ subscribed' = {} /\ faults' = faults - 1
        /\ UNCHANGED <<hostVars, waited, scanning, resetPending>>
    BY DEF Disconnect
  <1>2. /\ Ev("closed", 0) \in Event
        /\ Ev("closed", 0).type = "closed" /\ ~Ev("closed", 0).stale
    BY EvIsEvent DEF EventTypes
  <1>3. HostTypeOK'
    BY <1>1, <1>2, DeliveredInbox DEF IInv, HostTypeOK, hostVars, gattVars, roundVars
  <1>4. Safe'
    BY <1>1, <1>2, DeliveredSafe DEF hostVars
  <1> QED
    BY <1>1, <1>3, <1>4, EmptyIsGood DEF IInv

LEMMA AttErrorKeeps == IInv /\ AttError => IInv'
  <1> SUFFICES ASSUME IInv, AttError PROVE IInv'
    OBVIOUS
  <1>1. /\ faults > 0 /\ proc # <<>> /\ proc' = <<Completed>> /\ faults' = faults - 1
        /\ UNCHANGED <<hostVars, waited, link, scanning, subscribed, resetPending, inbox>>
    BY DEF AttError
  <1>2. GoodProc(proc') /\ proc' \in Seq(Event)
    BY <1>1, CompletedIsEvent
  <1>3. HostTypeOK'
    BY <1>1, <1>2 DEF IInv, HostTypeOK, hostVars, gattVars, roundVars
  <1>4. Safe'
    BY <1>1, ProcEndsSafe DEF hostVars
  <1> QED
    BY <1>2, <1>3, <1>4 DEF IInv

LEMMA Prefix ==
  ASSUME NEW S, NEW s \in Seq(S), NEW n \in Nat, n <= Len(s)
  PROVE  /\ SubSeq(s, 1, n) \in Seq(S) /\ Len(SubSeq(s, 1, n)) = n
         /\ \A i \in 1..n : SubSeq(s, 1, n)[i] = s[i]
  <1>1. \A i \in 1..n : s[i] \in S
    OBVIOUS
  <1>2. SubSeq(s, 1, n) \in Seq(S)
    BY <1>1, SubSeqProperties
  <1>3. Len(SubSeq(s, 1, n)) = n
    BY <1>1, SubSeqProperties, SMT
  <1>4. \A i \in 1..n : SubSeq(s, 1, n)[i] = s[i]
    BY <1>1, SubSeqProperties, SMT
  <1> QED
    BY <1>2, <1>3, <1>4

LEMMA DropEventKeeps == IInv /\ DropEvent => IInv'
  <1> SUFFICES ASSUME IInv, DropEvent PROVE IInv'
    OBVIOUS
  <1>1. /\ Running /\ faults > 0 /\ inbox # <<>> /\ faults' = faults - 1
        /\ inbox' = SubSeq(inbox, 1, Len(inbox) - 1)
        /\ UNCHANGED <<hostVars, waited, ncpVars>>
    BY DEF DropEvent, Running
  <1>2. /\ inbox' \in Seq(Event) /\ Len(inbox) \in Nat /\ Len(inbox') = Len(inbox) - 1
        /\ \A i \in 1..Len(inbox') : i \in 1..Len(inbox) /\ inbox'[i] = inbox[i]
    <2>1. inbox \in Seq(Event) /\ Len(inbox) \in Nat \ {0}
      BY <1>1, EmptySeq DEF IInv, HostTypeOK
    <2> DEFINE n == Len(inbox) - 1
    <2>2. n \in Nat /\ n <= Len(inbox)
      BY <2>1
    <2> HIDE DEF n
    <2>3. /\ SubSeq(inbox, 1, n) \in Seq(Event) /\ Len(SubSeq(inbox, 1, n)) = n
          /\ \A i \in 1..n : SubSeq(inbox, 1, n)[i] = inbox[i]
      BY <2>1, <2>2, Prefix
    <2>4. n = Len(inbox) - 1
      BY DEF n
    <2> QED
      BY <1>1, <2>1, <2>3, <2>4
  <1>3. HostTypeOK'
    BY <1>1, <1>2 DEF IInv, HostTypeOK, hostVars, gattVars, roundVars, ncpVars
  <1>4. BootInv' /\ NoStaleEvents'
    <2>1. /\ BootInv /\ NoStaleEvents
          /\ UNCHANGED <<state, status, resetPending, proc>>
      BY <1>1 DEF IInv, Safe, hostVars, ncpVars
    <2>2. BootInv'
      BY <1>1, <1>2, <2>1 DEF BootInv, Running
    <2>3. NoStaleEvents'
      BY <1>1, <1>2, <2>1 DEF NoStaleEvents, Running
    <2> QED
      BY <2>2, <2>3
  <1>5. OneProcedure'
    <2>1. \A i \in Completions' : i \in Completions
      BY <1>2 DEF Completions
    <2> QED
      BY <1>1, <2>1 DEF IInv, Safe, OneProcedure, Running, hostVars, ncpVars
  <1> QED
    BY <1>1, <1>3, <1>4, <1>5 DEF IInv, Safe, ncpVars

LEMMA TickKeeps == IInv /\ Tick => IInv'
  <1> SUFFICES ASSUME IInv, Tick PROVE IInv'
    OBVIOUS
  <1>1. /\ ~(waited > AdvTimeout) /\ waited' = waited + 1
        /\ UNCHANGED <<hostVars, ncpVars, inbox, faults>>
    BY DEF Tick, TimedOut
  <1>2. waited' \in 0..AdvTimeout + 1
    BY <1>1, BoundAssumption DEF IInv, HostTypeOK
  <1>3. HostTypeOK'
    BY <1>1, <1>2 DEF IInv, HostTypeOK, hostVars, gattVars, roundVars, ncpVars
  <1>4. GoodProc(proc') /\ Safe'
    BY <1>1, ProcEndsSafe DEF IInv, hostVars, ncpVars
  <1> QED
    BY <1>3, <1>4 DEF IInv

LEMMA StutterKeeps == IInv /\ UNCHANGED vars => IInv'
  <1> SUFFICES ASSUME IInv, UNCHANGED vars PROVE IInv'
    OBVIOUS
  <1>1. HostTypeOK'
    BY DEF IInv, HostTypeOK, vars, hostVars, gattVars, roundVars, ncpVars
  <1>2. GoodProc(proc') /\ Safe'
    BY ProcEndsSafe DEF IInv, vars, hostVars, ncpVars
  <1> QED
    BY <1>1, <1>2 DEF IInv

-----------------------------------------------------------------------------

LEMMA NextIInv == IInv /\ [Next]_vars => IInv'
  <1> SUFFICES ASSUME IInv, [Next]_vars PROVE IInv'
    OBVIOUS
  <1>1. CASE HandleEvent
    BY <1>1, BootKeeps, AdvertisementTimeoutKeeps, ThunderboardFoundKeeps,
       OpenedKeeps, ClosedKeeps, ServiceFoundKeeps, ServicesDiscoveredKeeps,
       CharacteristicFoundKeeps, CharacteristicsDiscoveredKeeps, SubscribedKeeps,
       ValueReceivedKeeps, RequestNextKeeps, RefreshKeeps, RefreshCrashKeeps,
       IgnoreKeeps, OtherAdvertisementKeeps
    DEF HandleEvent
  <1>2. CASE Upload
    BY <1>2, UploadKeeps
  <1>3. CASE Environment
    BY <1>3, ResetKeeps, OpenConnectionKeeps, OtherEventKeeps, ProgressKeeps,
       DisconnectKeeps, AttErrorKeeps, DropEventKeeps, TickKeeps,
       AdvertiseKeeps, NotifyKeeps
    DEF Environment, OpenFails, LoseConnection
  <1>4. CASE UNCHANGED vars
    BY <1>4, StutterKeeps
  <1>5. CASE TakeJob
    BY <1>5, TakeJobKeeps
  <1> QED
    BY <1>1, <1>2, <1>3, <1>4, <1>5 DEF Next, Stopped

\* IInv holds in every state of the demo.
THEOREM Invariance == Spec => []IInv
  BY InitIInv, NextIInv, PTL DEF Spec

\* handle_event never sees an event from before the reset outside of INIT.
THEOREM StaleEventsIgnored == Spec => []NoStaleEvents
  BY Invariance, PTL DEF IInv, Safe

\* app.c starts a GATT procedure only after the completion of the one before, and
\* takes every completion for the right one.
THEOREM ProceduresOneByOne == Spec => []OneProcedure
  BY Invariance, PTL DEF IInv, Safe

-----------------------------------------------------------------------------
(* The LED. *)

LEMMA PushedType ==
  ASSUME LedTypeOK, NEW j \in LedJobs, PushLed(j)
  PROVE  LedTypeOK'
  BY DEF LedTypeOK, PushLed, LedWorker!Push

\* A job that is accepted is the last one.
LEMMA PushedIsLast ==
  ASSUME LedTypeOK, NEW j \in LedJobs, PushLed(j), pushed' = "ok"
  PROVE  LastJob' = j
  <1>1. waiting' = Append(waiting, j) /\ led' = led
    BY DEF PushLed, LedWorker!Push
  <1>2. waiting \in Seq(LedJobs)
    BY DEF LedTypeOK
  <1> QED
    BY <1>1, <1>2 DEF LastJob

\* The worker takes the first job, which changes the last one in nothing.
LEMMA TakenType ==
  ASSUME LedTypeOK, LedWorker!Take
  PROVE  LedTypeOK' /\ LastJob' = LastJob /\ pushed' = pushed
  <1>1. /\ waiting # << >> /\ led' = Head(waiting) /\ waiting' = Tail(waiting)
        /\ pushed' = pushed
    BY DEF LedWorker!Take
  <1>2. waiting \in Seq(LedJobs) /\ pushed \in {"ok", "full"}
    BY DEF LedTypeOK
  <1>3. Head(waiting) \in LedJobs /\ Tail(waiting) \in Seq(LedJobs)
    BY <1>1, <1>2
  <1>4. LastJob = waiting[Len(waiting)]
    BY <1>1, <1>2 DEF LastJob
  <1>5. LastJob' = waiting[Len(waiting)]
    <2>1. Len(waiting') = Len(waiting) - 1 /\ Len(waiting) \in Nat \ {0}
      BY <1>1, <1>2
    <2>2. \A k \in 1..Len(waiting') : waiting'[k] = waiting[k + 1]
      BY <1>1, <1>2
    <2>3. Len(<<led'>> \o waiting') = Len(waiting)
      BY <1>3, <1>1, <2>1
    <2>4. CASE Len(waiting) = 1
      BY <1>1, <1>2, <1>3, <2>3, <2>4 DEF LastJob
    <2>5. CASE Len(waiting) > 1
      <3>1. (<<led'>> \o waiting')[Len(waiting)] = waiting'[Len(waiting) - 1]
        BY <1>1, <1>3, <2>1, <2>5
      <3>2. Len(waiting) - 1 \in 1..Len(waiting') /\ Len(waiting) - 1 + 1 = Len(waiting)
        BY <2>1, <2>5
      <3> QED
        BY <2>2, <2>3, <3>1, <3>2 DEF LastJob
    <2> QED
      BY <2>1, <2>4, <2>5
  <1> QED
    BY <1>1, <1>2, <1>3, <1>4, <1>5 DEF LedTypeOK

\* What a step does to the LED: nothing, one push, or the worker's.
LedStep == UNCHANGED ledVars \/ (\E j \in LedJobs : PushLed(j)) \/ LedWorker!Take

LEMMA SubscribeLed ==
  ASSUME NEW i, SubscribeFrom(i)
  PROVE  UNCHANGED ledVars \/ PushLed("green_red")
  BY DEF SubscribeFrom, EnterRead

LEMMA EveryLedStep ==
  ASSUME [Next]_vars
  PROVE  LedStep
  <1> "green" \in LedJobs /\ "green_red" \in LedJobs /\ "yellow" \in LedJobs
    BY DEF LedJobs
  <1>1. CASE HandleEvent
    <2>1. ASSUME Boot \/ AdvertisementTimeout PROVE LedStep
      BY <2>1 DEF Boot, AdvertisementTimeout, LedStep
    <2>2. ASSUME ThunderboardFound PROVE LedStep
      BY <2>2 DEF ThunderboardFound, EnterConnect, LedStep, ledVars
    <2>3. ASSUME OtherAdvertisement \/ Ignore PROVE LedStep
      BY <2>3 DEF OtherAdvertisement, Ignore, hostVars, LedStep
    <2>4. ASSUME Opened \/ Closed \/ ServiceFound \/ ServicesDiscovered PROVE LedStep
      BY <2>4 DEF Opened, Closed, ServiceFound, ServicesDiscovered, LedStep
    <2>5. ASSUME CharacteristicFound \/ ValueReceived \/ RequestNext \/ RefreshCrash
          PROVE  LedStep
      BY <2>5 DEF CharacteristicFound, ValueReceived, RequestNext, RefreshCrash, LedStep
    <2>6. ASSUME CharacteristicsDiscovered \/ Subscribed PROVE LedStep
      BY <2>6, SubscribeLed DEF CharacteristicsDiscovered, Subscribed, LedStep, ledVars
    <2>7. ASSUME Refresh PROVE LedStep
      BY <2>7 DEF Refresh, LedStep
    <2> QED
      BY <1>1, <2>1, <2>2, <2>3, <2>4, <2>5, <2>6, <2>7 DEF HandleEvent
  <1>2. CASE Upload
    BY <1>2 DEF Upload, LedStep
  <1>3. CASE TakeJob
    BY <1>3 DEF TakeJob, LedStep
  <1>4. CASE Environment \/ UNCHANGED vars
    BY <1>4 DEF Environment, Reset, Advertise, OpenConnection, OtherEvent, Progress,
       Notify, OpenFails, LoseConnection, Disconnect, AttError, DropEvent, Tick, vars,
       hostVars, LedStep
  <1> QED
    BY <1>1, <1>2, <1>3, <1>4 DEF Next, Stopped

LEMMA LedTyped ==
  ASSUME LedTypeOK, [Next]_vars
  PROVE  LedTypeOK'
  <1>1. CASE UNCHANGED ledVars
    BY <1>1 DEF ledVars, LedTypeOK
  <1> QED
    BY <1>1, EveryLedStep, PushedType, TakenType DEF LedStep

LEMMA InitLedTyped == Init => LedTypeOK
  <1> SUFFICES ASSUME Init PROVE LedTypeOK
    OBVIOUS
  <1>1. StartJobs \in Seq(LedJobs \cup {"none"}) /\ Len(StartJobs) = 4
    BY DEF StartJobs, LedJobs
  <1>2. PICK last \in {3, 4} : \E i \in 1..last :
          led = StartJobs[i] /\ waiting = SubSeq(StartJobs, i + 1, last)
    BY DEF Init, InitLed
  <1>3. \A k \in 2..4 : StartJobs[k] \in LedJobs
    BY DEF StartJobs, LedJobs
  <1>4. PICK i \in 1..last :
          led = StartJobs[i] /\ waiting = SubSeq(StartJobs, i + 1, last)
    BY <1>2
  <1>5. waiting = [k \in 1..last - i |-> StartJobs[i + k]]
    BY <1>1, <1>2, <1>4
  <1>6. \A k \in 1..last - i : i + k \in 2..4
    BY <1>2, <1>4
  <1>7. last - i \in Nat
    BY <1>2, <1>4
  <1>8. \A k \in 1..last - i : waiting[k] \in LedJobs
    BY <1>3, <1>5, <1>6
  <1>9. waiting \in Seq(LedJobs)
    BY <1>5, <1>7, <1>8
  <1>10. StartJobs[i] \in LedJobs \cup {"none"}
    BY <1>2, <1>4 DEF StartJobs, LedJobs
  <1> QED
    BY <1>4, <1>9, <1>10 DEF LedTypeOK, Init, InitLed

\* The variables of app.c keep their types: each pointer of all_sensors leads into
\* the list of characteristics or is null, and sensor_index stays within the
\* sensors, whatever the peripheral has and however often it is lost.
THEOREM TypeCorrect == Spec => []TypeOK
  <1>1. Spec => []LedTypeOK
    BY InitLedTyped, LedTyped, PTL DEF Spec
  <1> QED
    BY <1>1, Invariance, PTL DEF IInv, TypeOK

\* An upload is begun by the handler of READ, which may have left it for INIT.
UploadInv == pc = "upload" => state \in {"READ", "INIT"}

\* A step that keeps the LED keeps what it is due to show, and one that pushes a
\* job pushes that which is due, as long as the host is connected.
LEMMA PushedIsDue ==
  ASSUME UploadInv, [Next]_vars, Running', state' \in LinkStates
  PROVE  \/ UNCHANGED ledVars /\ state \in LinkStates /\ Due' = Due /\ Running
         \/ Due' \in LedJobs /\ PushLed(Due')
         \/ LedWorker!Take /\ state \in LinkStates /\ Due' = Due /\ Running
  <1> DEFINE Same == /\ UNCHANGED ledVars /\ state \in LinkStates /\ Running
                     /\ Due' = Due
             Pushed == PushLed(Due') /\ Due' \in LedJobs
  <1>1. CASE HandleEvent
    <2>1. ASSUME NEW type, Receive(type) PROVE Running /\ pc = "loop"
      BY <2>1 DEF Receive, Running
    <2>2. ~Boot /\ ~AdvertisementTimeout /\ ~Closed /\ ~RefreshCrash
      BY DEF Boot, EnterDiscovery, AdvertisementTimeout, Stop, Running, LinkStates,
         GattStates, Closed, EnterInit, RefreshCrash
    <2>3. ASSUME ThunderboardFound PROVE Pushed
      <3>1. state' = "CONNECT" /\ PushLed("green") /\ pc' = "loop"
        BY <2>1, <2>3 DEF ThunderboardFound, EnterConnect, LinkStates, GattStates
      <3> QED
        BY <3>1 DEF Due, LedJobs
    <2>4. ~OtherAdvertisement
      BY DEF OtherAdvertisement, hostVars, LinkStates, GattStates
    <2>5. ASSUME Opened \/ ServiceFound \/ ServicesDiscovered \/ CharacteristicFound
          PROVE  Same
      BY <2>1, <2>5 DEF Opened, EnterServices, ServiceFound, ServicesDiscovered,
         CharacteristicFound, DiscoverChars, Due, LinkStates, GattStates
    <2>6. ASSUME NEW i, SubscribeFrom(i), state \in GattStates, state # "READ",
                 Running, pc = "loop", pc' = pc
          PROVE  Same \/ Pushed
      <3>1. CASE state' = "SUBSCRIBE" /\ UNCHANGED ledVars
        BY <2>6, <3>1 DEF Due, LinkStates
      <3>2. CASE EnterRead
        <4>1. state' = "READ" /\ PushLed("green_red")
          BY <3>2 DEF EnterRead, Request, EnterInit, LinkStates, GattStates
        <4> QED
          BY <2>6, <4>1 DEF Due, LedJobs
      <3> QED
        BY <2>6, <3>1, <3>2 DEF SubscribeFrom, ledVars
    <2>7. ASSUME CharacteristicsDiscovered \/ Subscribed PROVE Same \/ Pushed
      <3>1. CASE Subscribed
        BY <2>1, <2>6, <3>1 DEF Subscribed, GattStates
      <3>2. CASE /\ CharacteristicsDiscovered
                 /\ state' = "DISCOVER_CHARACTERISTICS" /\ UNCHANGED ledVars
        BY <2>1, <3>2 DEF CharacteristicsDiscovered, Due, LinkStates, GattStates
      <3>3. CASE CharacteristicsDiscovered /\ SubscribeFrom(1)
        BY <2>1, <2>6, <3>3 DEF CharacteristicsDiscovered, GattStates
      <3> QED
        BY <2>7, <3>1, <3>2, <3>3 DEF CharacteristicsDiscovered, DiscoverChars, ledVars
    <2>8. ASSUME ValueReceived \/ RequestNext PROVE Same
      BY <2>1, <2>8 DEF ValueReceived, RequestNext, Request, EnterInit, Due, LinkStates,
         GattStates
    <2>9. ASSUME Refresh PROVE Pushed
      BY <2>9 DEF Refresh, Due, LedJobs
    <2>10. ASSUME Ignore PROVE Same
      BY <2>1, <2>10 DEF Ignore, hostVars, Due
    <2> QED
      BY <1>1, <2>2, <2>3, <2>4, <2>5, <2>7, <2>8, <2>9, <2>10, Zenon DEF HandleEvent
  <1>2. CASE Upload
    <2>1. state = "READ" /\ state' = state /\ pc' = "loop" /\ PushLed("green_red")
      BY <1>2 DEF Upload, UploadInv, LinkStates, GattStates
    <2> QED
      BY <2>1 DEF Due, LedJobs
  <1>3. CASE TakeJob
    BY <1>3 DEF TakeJob, Due, Running
  <1>4. CASE Environment \/ UNCHANGED vars
    <2>1. UNCHANGED hostVars
      BY <1>4 DEF Environment, Reset, Advertise, OpenConnection, OtherEvent, Progress,
         Notify, OpenFails, LoseConnection, Disconnect, AttError, DropEvent, Tick, vars
    <2> QED
      BY <2>1 DEF hostVars, Due, Running
  <1> QED
    BY <1>1, <1>2, <1>3, <1>4 DEF Next, Stopped

LEMMA UploadInvKept ==
  ASSUME UploadInv, [Next]_vars
  PROVE  UploadInv'
  <1> SUFFICES ASSUME pc' = "upload" PROVE state' \in {"READ", "INIT"}
    BY DEF UploadInv
  <1>1. CASE HandleEvent
    <2>1. ASSUME NEW type, Receive(type) PROVE pc = "loop"
      BY <2>1 DEF Receive
    <2>2. ~Boot /\ ~AdvertisementTimeout /\ ~ThunderboardFound
      BY <2>1 DEF Boot, AdvertisementTimeout, ThunderboardFound
    <2>3. ~OtherAdvertisement /\ ~Ignore
      BY <2>1 DEF OtherAdvertisement, Ignore, hostVars
    <2>4. ~Opened /\ ~Closed /\ ~ServiceFound /\ ~ServicesDiscovered
      BY <2>1 DEF Opened, Closed, ServiceFound, ServicesDiscovered
    <2>5. ~CharacteristicFound /\ ~CharacteristicsDiscovered /\ ~Subscribed
      BY <2>1 DEF CharacteristicFound, CharacteristicsDiscovered, Subscribed
    <2>6. ~ValueReceived /\ ~RequestNext /\ ~RefreshCrash
      BY <2>1 DEF ValueReceived, RequestNext, RefreshCrash, RoundEnded
    <2>7. Refresh
      BY <1>1, <2>2, <2>3, <2>4, <2>5, <2>6 DEF HandleEvent
    <2>8. Request(1, Refusals)
      BY <2>7 DEF Refresh
    <2> QED
      BY <2>8 DEF Request, EnterInit
  <1>2. ~Upload
    BY DEF Upload
  <1>3. CASE TakeJob
    BY <1>3 DEF TakeJob, UploadInv
  <1>4. CASE Environment \/ UNCHANGED vars
    BY <1>4 DEF Environment, Reset, Advertise, OpenConnection, OtherEvent, Progress,
       Notify, OpenFails, LoseConnection, Disconnect, AttError, DropEvent, Tick, vars,
       hostVars, UploadInv
  <1> QED
    BY <1>1, <1>2, <1>3, <1>4 DEF Next, Stopped

\* The job pushed last, if push_led_job accepted it, is the one for what the host
\* does, and the last that the LED worker will come to, whatever is lost or refused
\* meanwhile and however late the worker is.
THEOREM LedFollowsHost == Spec => []LedFollows
  <1>1. Init => LedFollows /\ UploadInv
    BY DEF Init, LedFollows, UploadInv, LinkStates, GattStates
  <1>2. ASSUME LedTypeOK, UploadInv, LedFollows, [Next]_vars PROVE LedFollows'
    <2> SUFFICES ASSUME Running', state' \in LinkStates, pushed' = "ok"
                 PROVE  LastJob' = Due'
      BY DEF LedFollows
    <2>1. CASE UNCHANGED ledVars /\ state \in LinkStates /\ Due' = Due /\ Running
      BY <1>2, <2>1 DEF LedFollows, LastJob, ledVars
    <2>2. CASE Due' \in LedJobs /\ PushLed(Due')
      BY <1>2, <2>2, PushedIsLast
    <2>3. CASE LedWorker!Take /\ state \in LinkStates /\ Due' = Due /\ Running
      BY <1>2, <2>3, TakenType DEF LedFollows
    <2> QED
      BY <1>2, <2>1, <2>2, <2>3, PushedIsDue
  <1> QED
    BY <1>1, <1>2, InitLedTyped, LedTyped, UploadInvKept, PTL DEF Spec
==============================================================================
