--------------------------- MODULE ThunderboardApp ---------------------------
(***************************************************************************)
(* The Bluetooth application of the G300 demo: the event handlers of       *)
(* gecko_bglib/src/app.c driven by the loop of gecko_bglib/src/main.c.     *)
(*                                                                         *)
(* The host scans for a Thunderboard, connects to it, discovers its        *)
(* services and characteristics, subscribes to those that notify and then  *)
(* reads the others round after round.  A completed round is copied into   *)
(* _sensor_values (refresh_sensor_values) and uploaded by the main loop.   *)
(*                                                                         *)
(* The host talks to the Bluetooth co-processor (NCP) with commands, each  *)
(* answered at once, and learns what happens from a FIFO of events.  The   *)
(* NCP and the peripheral behind it are not part of the repository: they   *)
(* are modelled from what app.c relies on.  The FIFO is the channel that   *)
(* module Bglib implements as long as its queue does not fill up.          *)
(***************************************************************************)
EXTENDS Integers, Sequences, FiniteSetsExt

CONSTANTS
    NumSensors,     \* NUM_THUNDERBOARD_SENSORS: length of all_sensors
    Refreshed,      \* the sensors refresh_sensor_values dereferences
    Handles,        \* the characteristics of the peripheral
    ServiceChars,   \* the peripheral: for each service, its characteristics
    Uuid,           \* the sensor whose UUID a characteristic has, or 0
    Readable,       \* characteristics with the read property
    Notifying,      \* characteristics with the notify or indicate property
    MaxServices,    \* MAX_NUM_SERVICES
    MaxChars,       \* MAX_NUM_CHARACTERISTICS
    AdvTimeout,     \* ADVERTISEMENT_TIMEOUT_SECONDS, in clock ticks
    LedDepth,       \* how many jobs can wait for the LED worker (see LedQueue)
    Faults,         \* the kinds of fault that can occur
    FaultStates,    \* the states of the host in which "loss" and "att" occur
    MaxFaults,      \* bound: how many faults occur
    MaxInbox        \* bound: events the NCP delivers ahead of the host

\* The states of enum AppState, named without their prefix.
States == {"INIT", "DISCOVERY", "CONNECT", "DISCOVER_SERVICES",
           "DISCOVER_CHARACTERISTICS", "SUBSCRIBE", "READ"}

\* The states in which a GATT procedure is under way, and those in which the
\* handlers react to the loss of the connection.
GattStates ==
    {"DISCOVER_SERVICES", "DISCOVER_CHARACTERISTICS", "SUBSCRIBE", "READ"}

\* Mutant: the state CONNECT has no case for a connection that failed to open.
LinkStatesNoConnect == GattStates

LinkStates == {"CONNECT"} \cup GattStates

Sensors == 1..NumSensors

\* Index 0 is the C null pointer, for sensor pointers into the list of
\* characteristics as well as for the handle of an entry never written.
Null == 0

\* "connect": a connection cannot be opened; "loss": an open one is lost;
\* "att": a GATT procedure ends early, with an error; "command": the NCP refuses
\* a command for a reason unknown to the host; "silence": time passes while no
\* matching advertisement is received; "drop": an event finds the ring full.
FaultKinds == {"connect", "loss", "att", "command", "silence", "drop"}

ASSUME DeviceAssumption ==
    /\ NumSensors \in Nat \ {0}
    /\ Refreshed \subseteq Sensors
    /\ Handles \subseteq Nat \ {Null}
    /\ ServiceChars \in Seq(Seq(Handles))
    /\ Uuid \in [Handles -> Sensors \cup {0}]
    /\ Readable \subseteq Handles
    /\ Notifying \subseteq Handles

ASSUME BoundAssumption ==
    /\ MaxServices \in Nat \ {0}
    /\ MaxChars \in Nat \ {0}
    /\ AdvTimeout \in Nat
    /\ LedDepth \in Nat
    /\ Faults \subseteq FaultKinds
    /\ FaultStates \subseteq States
    /\ MaxFaults \in Nat
    /\ MaxInbox \in Nat \ {0}

VARIABLES
    state,          \* _state
    status,         \* "running", or why the process stopped
    pc,             \* main: at gecko_peek_event, or in upload_sensor_values
    led,            \* the job the LED worker has in hand, which it shows
    waiting,        \* the jobs that wait for the LED worker
    pushed,         \* what the last push_led_job returned, to nobody
    services,       \* _thunderboard.services, as the sequence of its entries
    serviceIndex,   \* service_index of the characteristic discovery, from 1
    chars,          \* _thunderboard.characteristics.list: each entry's handle
    charsLen,       \* _thunderboard.characteristics.length
    sensors,        \* _thunderboard.all_sensors: indexes into chars, or Null
    subIndex,       \* sensor_index of subscribe_to_next_characteristic, from 1
    readIndex,      \* sensor_index of the read handler, from 1; all values past
                    \* the last sensor are one
    lastRequested,  \* last_requested_characteristic
    reading,        \* for each entry, the sensor whose value was stored in it
                    \* since the last refresh, or Null
    waited,         \* ticks since discovery_start_time
    link,           \* NCP: the connection
    proc,           \* NCP: events the running GATT procedure still has to send
    scanning,       \* NCP: advertisements are being reported
    subscribed,     \* NCP: characteristics whose notifications are on
    resetPending,   \* a system reset was sent and not yet carried out
    inbox,          \* events sent by the NCP and not yet handled
    faults          \* how many faults may still occur

LedJobs == {"red_green_yellow", "flash_yellow", "yellow_green", "green",
            "green_red", "yellow"}

gattVars  == <<services, serviceIndex, chars, charsLen, sensors>>
ledVars   == <<led, waiting, pushed>>
roundVars == <<subIndex, readIndex, lastRequested, reading>>
ncpVars   == <<link, proc, scanning, subscribed, resetPending>>
hostVars  == <<state, status, pc, ledVars, gattVars, roundVars>>
vars      == <<hostVars, waited, ncpVars, inbox, faults>>

-----------------------------------------------------------------------------
(* Events. arg is the service, the characteristic or whether the name in an
   advertisement is that of a Thunderboard; stale is a history variable:
   the event was sent before the last reset of the NCP. *)

ServiceIds == 1..Len(ServiceChars)

EventTypes == {"boot", "scan", "opened", "closed", "service",
               "characteristic", "completed", "value", "other"}

Event ==
    {e \in [type : EventTypes, arg : Nat, stale : BOOLEAN] :
        /\ e.type = "service" => e.arg \in ServiceIds
        /\ e.type \in {"characteristic", "value"} => e.arg \in Handles}

Ev(type, arg) == [type |-> type, arg |-> arg, stale |-> FALSE]

Completed == Ev("completed", 0)

\* What each GATT procedure of the NCP sends, its completion last.
ServicesProc ==
    [i \in 1..Len(ServiceChars) + 1 |->
        IF i \in ServiceIds THEN Ev("service", i) ELSE Completed]

\* A service handle the peripheral does not have finds no characteristics.
CharsProc(s) ==
    IF s \in ServiceIds
    THEN [i \in 1..Len(ServiceChars[s]) + 1 |->
             IF i <= Len(ServiceChars[s])
             THEN Ev("characteristic", ServiceChars[s][i]) ELSE Completed]
    ELSE <<Completed>>

\* Reading a characteristic without the read property ends with an error.
ReadProc(h) ==
    IF h \in Readable THEN <<Ev("value", h), Completed>> ELSE <<Completed>>

\* What the NCP can answer to a command, and to one that starts a GATT
\* procedure on the connection.
CommandResults ==
    {"ok"} \cup (IF "command" \in Faults /\ faults > 0 THEN {"error"} ELSE {})

GattResults ==
    IF link # "up" THEN {"invalid_conn_handle"}
    ELSE IF proc # <<>> THEN {"wrong_state"}
    ELSE CommandResults

\* An unexplained refusal is one of the faults.
CountFault(r) == faults' = IF r = "error" THEN faults - 1 ELSE faults

-----------------------------------------------------------------------------
(* The entry actions that handle_state_transition runs, each with the
   commands it sends and what their answers make of it. *)

\* push_led_job, whose result is not looked at.
LedWorker == INSTANCE LedFifo WITH
    Jobs <- LedJobs, NoJob <- "none", Depth <- LedDepth,
    fifo <- waiting, job <- led, result <- pushed

PushLed(j) == LedWorker!Push(j)

\* flash_led: the event loop is never resumed.  What flash_led does is in LedQueue
\* and Startup.
Stop(reason) == status' = reason

\* Mutant: INIT is entered without resetting the NCP.
EnterInitNoReset ==
    /\ state' = "INIT"
    /\ charsLen' = 0
    /\ UNCHANGED resetPending

EnterInit ==
    /\ state' = "INIT"
    /\ charsLen' = 0
    /\ resetPending' = TRUE

EnterDiscovery ==
    /\ state' = "DISCOVERY"
    /\ waited' = 0
    /\ \E r \in CommandResults :
          /\ CountFault(r)
          /\ IF r = "ok"
             THEN scanning' = TRUE /\ UNCHANGED status
             ELSE Stop("command_failed") /\ UNCHANGED scanning

EnterConnect ==
    /\ state' = "CONNECT"
    /\ PushLed("green")
    /\ \E r \in CommandResults :
          /\ CountFault(r)
          /\ IF r = "ok"
             THEN link' = "connecting" /\ UNCHANGED status
             ELSE Stop("command_failed") /\ UNCHANGED link

\* A GATT procedure whose refusal is fatal.
Start(results, events) ==
    \E r \in results :
       /\ CountFault(r)
       /\ IF r = "ok"
          THEN proc' = events /\ UNCHANGED status
          ELSE Stop("command_failed") /\ UNCHANGED proc

EnterServices ==
    /\ state' = "DISCOVER_SERVICES"
    /\ Start(GattResults, ServicesProc)

\* services.list is zero beyond its length, and 0 is no service's handle: a
\* command on it may be refused.
DiscoverChars(i) ==
    LET s == IF i <= Len(services) THEN services[i] ELSE 0 IN
    /\ state' = "DISCOVER_CHARACTERISTICS"
    /\ Start(IF s = 0 THEN GattResults \cup {"not_found"} ELSE GattResults,
             CharsProc(s))

\* Where a loop over the sensors stops that starts at i and looks for P.
FirstSensor(i, P(_)) == Min({s \in i..NumSensors : P(s)} \cup {NumSensors + 1})

Handle(s) == chars[sensors[s]]

CanRead(s) == sensors[s] # Null /\ Handle(s) \in Readable

CanSubscribe(s) == sensors[s] # Null /\ Handle(s) \in Notifying

\* Request the value of sensor s; a refusal in revert leads back to INIT, any
\* other one is fatal.
Request(s, revert) ==
    /\ lastRequested' = Handle(s)
    /\ \E r \in GattResults :
          /\ CountFault(r)
          /\ \/ /\ r = "ok"
                /\ proc' = ReadProc(Handle(s))
                /\ state' = "READ"
                /\ UNCHANGED <<status, charsLen, resetPending>>
             \/ /\ r \in revert
                /\ EnterInit
                /\ UNCHANGED <<status, proc>>
             \/ /\ r \notin revert \cup {"ok"}
                /\ Stop("command_failed")
                /\ state' = "READ"
                /\ UNCHANGED <<proc, charsLen, resetPending>>

Refusals == {"invalid_conn_handle", "wrong_state", "error"}

\* Nothing is requested, and nothing will happen, when no sensor is readable.
EnterRead ==
    LET s == FirstSensor(1, CanRead) IN
    /\ readIndex' = s
    /\ PushLed("green_red")
    /\ IF s \in Sensors
       THEN Request(s, Refusals)
       ELSE /\ state' = "READ"
            /\ UNCHANGED <<status, lastRequested, proc, charsLen,
                           resetPending, faults>>

\* subscribe_to_next_characteristic from sensor i, READ when none is left.
SubscribeFrom(i) ==
    LET s == FirstSensor(i, CanSubscribe) IN
    \/ /\ s \in Sensors
       /\ state' = "SUBSCRIBE"
       /\ \E r \in GattResults :
             /\ CountFault(r)
             /\ IF r = "ok"
                THEN /\ proc' = <<Completed>>
                     /\ subIndex' = s + 1
                     /\ subscribed' = subscribed \cup {Handle(s)}
                     /\ UNCHANGED status
                ELSE /\ Stop("command_failed")
                     /\ subIndex' = s
                     /\ UNCHANGED <<proc, subscribed>>
       /\ UNCHANGED <<ledVars, readIndex, lastRequested, charsLen, resetPending>>
    \/ /\ s \notin Sensors
       /\ subIndex' = s
       /\ UNCHANGED subscribed
       /\ EnterRead

-----------------------------------------------------------------------------
(* The main loop takes the next event and handle_event dispatches it to the
   handler of the state. *)

Receive(type) ==
    /\ status = "running"
    /\ pc = "loop"
    /\ inbox # <<>>
    /\ Head(inbox).type = type
    /\ inbox' = Tail(inbox)

Arg == Head(inbox).arg

\* Mutant: any event is taken for the boot event.
BootOnAnything ==
    /\ state = "INIT"
    /\ \E type \in EventTypes : Receive(type)
    /\ EnterDiscovery
    /\ UNCHANGED <<pc, ledVars, gattVars, roundVars, link, proc, subscribed,
                   resetPending>>

\* state_handler_init: the NCP has restarted.
Boot ==
    /\ state = "INIT"
    /\ Receive("boot")
    /\ EnterDiscovery
    /\ UNCHANGED <<pc, ledVars, gattVars, roundVars, link, proc, subscribed,
                   resetPending>>

TimedOut == waited > AdvTimeout

\* state_handler_discovery: the time is looked at when an event arrives.
AdvertisementTimeout ==
    /\ state = "DISCOVERY"
    /\ TimedOut
    /\ \E type \in EventTypes : Receive(type)
    /\ Stop("adv_timeout")
    /\ UNCHANGED <<state, pc, ledVars, gattVars, roundVars, waited, ncpVars, faults>>

\* A Thunderboard advertises: scanning ends, unless the NCP refuses to.
ThunderboardFound ==
    /\ state = "DISCOVERY"
    /\ ~TimedOut
    /\ Receive("scan")
    /\ Arg = 1
    /\ \/ /\ scanning' = FALSE
          /\ EnterConnect
       \/ /\ "error" \in CommandResults
          /\ CountFault("error")
          /\ UNCHANGED <<state, status, ledVars, scanning, link>>
    /\ UNCHANGED <<pc, gattVars, roundVars, waited, proc, subscribed, resetPending>>

OtherAdvertisement ==
    /\ state = "DISCOVERY"
    /\ ~TimedOut
    /\ Receive("scan")
    /\ Arg = 0
    /\ UNCHANGED <<hostVars, waited, ncpVars, faults>>

\* state_handler_connect: the connection is open.
Opened ==
    /\ state = "CONNECT"
    /\ Receive("opened")
    /\ EnterServices
    /\ UNCHANGED <<pc, ledVars, gattVars, roundVars, waited, link, scanning,
                   subscribed, resetPending>>

\* The answer of every state from CONNECT on to the loss of the connection.
Closed ==
    /\ state \in LinkStates
    /\ Receive("closed")
    /\ EnterInit
    /\ UNCHANGED <<status, pc, ledVars, services, serviceIndex, chars, sensors,
                   roundVars, waited, link, proc, scanning, subscribed, faults>>

\* Mutant: the first service starts the discovery of its characteristics, before
\* the discovery of the services has completed.
ServiceFoundTooEager ==
    /\ state = "DISCOVER_SERVICES"
    /\ Receive("service")
    /\ services' = Append(services, Arg)
    /\ DiscoverChars(serviceIndex)
    /\ UNCHANGED <<pc, ledVars, serviceIndex, chars, charsLen, sensors, roundVars,
                   waited, link, scanning, subscribed, resetPending>>

\* state_handler_service_discovery: append the service.
ServiceFound ==
    /\ state = "DISCOVER_SERVICES"
    /\ Receive("service")
    /\ IF Len(services) = MaxServices
       THEN Stop("max_services") /\ UNCHANGED services
       ELSE services' = Append(services, Arg) /\ UNCHANGED status
    /\ UNCHANGED <<state, pc, ledVars, serviceIndex, chars, charsLen, sensors, roundVars,
                   waited, ncpVars, faults>>

ServicesDiscovered ==
    /\ state = "DISCOVER_SERVICES"
    /\ Receive("completed")
    /\ DiscoverChars(serviceIndex)
    /\ UNCHANGED <<pc, ledVars, gattVars, roundVars, waited, link, scanning,
                   subscribed, resetPending>>

\* Mutant: entry n is taken by the first sensor without one, whatever its UUID.
RegisterAny(n, h) ==
    LET free == {s \in Sensors : sensors[s] = Null} IN
    IF free # {} THEN [sensors EXCEPT ![Min(free)] = n] ELSE sensors

\* Entry n holds characteristic h: the sensor of that UUID points to it, unless
\* it already points to another entry.
Register(n, h) ==
    LET u == Uuid[h] IN
    IF u # 0 /\ sensors[u] = Null THEN [sensors EXCEPT ![u] = n] ELSE sensors

\* state_handler_characteristic_discovery: append the characteristic.  The list
\* is not guarded.  The program goes on after an entry beyond it, with whatever
\* that has overwritten: "overrun" is where the model ends, and no property
\* counts it as an end of the program.
CharacteristicFound ==
    LET n == charsLen + 1 IN
    /\ state = "DISCOVER_CHARACTERISTICS"
    /\ Receive("characteristic")
    /\ charsLen' = n
    /\ IF n > MaxChars
       THEN status' = "overrun" /\ UNCHANGED <<chars, sensors>>
       ELSE /\ chars' = [chars EXCEPT ![n] = Arg]
            /\ sensors' = Register(n, Arg)
            /\ UNCHANGED status
    /\ UNCHANGED <<state, pc, ledVars, services, serviceIndex, roundVars, waited,
                   ncpVars, faults>>

\* Mutant: the last service is left out.
IsServiceButLast(i) == i < Len(services)

IsService(i) == i <= Len(services)

CharacteristicsDiscovered ==
    /\ state = "DISCOVER_CHARACTERISTICS"
    /\ Receive("completed")
    /\ serviceIndex' = serviceIndex + 1
    /\ \/ /\ IsService(serviceIndex')
          /\ DiscoverChars(serviceIndex')
          /\ UNCHANGED <<ledVars, subIndex, readIndex, lastRequested, charsLen,
                         subscribed, resetPending>>
       \/ /\ ~IsService(serviceIndex')
          /\ SubscribeFrom(1)
    /\ UNCHANGED <<pc, services, chars, sensors, reading, waited, link, scanning>>

\* state_handler_subscribe_characteristics.
Subscribed ==
    /\ state = "SUBSCRIBE"
    /\ Receive("completed")
    /\ SubscribeFrom(subIndex)
    /\ UNCHANGED <<pc, services, serviceIndex, chars, sensors, reading, waited,
                   link, scanning>>

\* Mutant: any value counts for the one that was requested.
AfterAnyValue(h) == IF readIndex \in Sensors THEN readIndex + 1 ELSE readIndex

\* The value that was requested moves the round on to the next sensor.
AfterValue(h) ==
    IF h = lastRequested /\ readIndex \in Sensors THEN readIndex + 1 ELSE readIndex

\* get_characteristic_by_handle goes through the sensors in their order and
\* follows each pointer, null or not: where it stops.
SensorOfHandle(h) == FirstSensor(1, LAMBDA i : sensors[i] = Null \/ Handle(i) = h)

\* state_handler_read_characteristics: store the value.
ValueReceived ==
    LET s == SensorOfHandle(Arg) IN
    /\ state = "READ"
    /\ Receive("value")
    /\ \/ /\ s \in Sensors /\ sensors[s] = Null
          /\ status' = "null_deref"
          /\ UNCHANGED <<reading, readIndex>>
       \/ /\ s \in Sensors /\ sensors[s] # Null
          /\ reading' = [reading EXCEPT ![sensors[s]] = Uuid[Arg]]
          /\ readIndex' = AfterValue(Arg)
          /\ UNCHANGED status
       \/ /\ s \notin Sensors
          /\ UNCHANGED <<status, reading, readIndex>>
    /\ UNCHANGED <<state, pc, ledVars, gattVars, subIndex, lastRequested, waited,
                   ncpVars, faults>>

\* Mutant: a request on a lost connection is as fatal as any other refusal.
RequestNextOrStop ==
    LET s == FirstSensor(readIndex, CanRead) IN
    /\ state = "READ"
    /\ Receive("completed")
    /\ s \in Sensors
    /\ readIndex' = s
    /\ Request(s, {})
    /\ UNCHANGED <<pc, ledVars, services, serviceIndex, chars, sensors, subIndex,
                   reading, waited, link, scanning, subscribed>>

\* A read has ended: request the next readable sensor.
RequestNext ==
    LET s == FirstSensor(readIndex, CanRead) IN
    /\ state = "READ"
    /\ Receive("completed")
    /\ s \in Sensors
    /\ readIndex' = s
    /\ Request(s, {"invalid_conn_handle"})
    /\ UNCHANGED <<pc, ledVars, services, serviceIndex, chars, sensors, subIndex,
                   reading, waited, link, scanning, subscribed>>

\* Mutant: the index of a round that starts is off by one.
RoundEndedOffByOne ==
    /\ state = "READ"
    /\ Receive("completed")
    /\ FirstSensor(readIndex, CanRead) \notin Sensors
    /\ readIndex' = 0

RoundEnded ==
    /\ state = "READ"
    /\ Receive("completed")
    /\ FirstSensor(readIndex, CanRead) \notin Sensors
    /\ readIndex' = 1

\* The last read of a round has ended: refresh_sensor_values copies the stored
\* values, a new round starts with the first sensor, and the main loop, back
\* from handle_event, pushes yellow and starts to upload.
Refresh ==
    /\ RoundEnded
    /\ \A s \in Refreshed \cup {1} : sensors[s] # Null
    /\ reading' = [i \in 1..MaxChars |-> Null]
    /\ Request(1, Refusals)
    /\ pc' = "upload"
    /\ PushLed("yellow")
    /\ UNCHANGED <<services, serviceIndex, chars, sensors, subIndex, waited, link,
                   scanning, subscribed>>

RefreshCrash ==
    /\ RoundEnded
    /\ \E s \in Refreshed \cup {1} : sensors[s] = Null
    /\ status' = "null_deref"
    /\ UNCHANGED <<state, pc, ledVars, gattVars, subIndex, lastRequested, reading,
                   waited, ncpVars, faults>>

\* Mutant: the LED is not set back after an upload.
UploadStaysYellow ==
    /\ status = "running"
    /\ pc = "upload"
    /\ pc' = "loop"
    /\ UNCHANGED <<state, status, ledVars, gattVars, roundVars, waited, ncpVars, inbox, faults>>

\* upload_sensor_values has returned: its result is not looked at.
Upload ==
    /\ status = "running"
    /\ pc = "upload"
    /\ pc' = "loop"
    /\ PushLed("green_red")
    /\ UNCHANGED <<state, status, gattVars, roundVars, waited, ncpVars, inbox, faults>>

\* The LED worker takes the next job, at any time.
TakeJob ==
    /\ status = "running"
    /\ LedWorker!Take
    /\ UNCHANGED <<state, status, pc, gattVars, roundVars, waited, ncpVars, inbox, faults>>

\* The events the handler of a state reacts to: it ignores the others.
Handled(s) ==
    {type \in EventTypes :
        \/ s = "INIT" /\ type = "boot"
        \/ s = "DISCOVERY" /\ type = "scan"
        \/ s = "CONNECT" /\ type = "opened"
        \/ s = "DISCOVER_SERVICES" /\ type = "service"
        \/ s = "DISCOVER_CHARACTERISTICS" /\ type = "characteristic"
        \/ s = "READ" /\ type = "value"
        \/ s \in GattStates /\ type = "completed"
        \/ s \in LinkStates /\ type = "closed"}

Ignore ==
    /\ ~(state = "DISCOVERY" /\ TimedOut)
    /\ \E type \in EventTypes \ Handled(state) : Receive(type)
    /\ UNCHANGED <<hostVars, waited, ncpVars, faults>>

HandleEvent ==
    \/ Boot \/ AdvertisementTimeout \/ ThunderboardFound \/ OtherAdvertisement
    \/ Opened \/ Closed \/ ServiceFound \/ ServicesDiscovered
    \/ CharacteristicFound \/ CharacteristicsDiscovered \/ Subscribed
    \/ ValueReceived \/ RequestNext \/ Refresh \/ RefreshCrash \/ Ignore

-----------------------------------------------------------------------------
(* The co-processor and the peripheral. They deliver at most MaxInbox events
   ahead of the host, and what they do once it has stopped is of no interest. *)

Deliver(e) ==
    /\ status = "running"
    /\ Len(inbox) < MaxInbox
    /\ inbox' = Append(inbox, e)

\* The reset ends everything and is announced; what was sent before is stale.
Reset ==
    /\ status = "running"
    /\ resetPending
    /\ Len(inbox) < MaxInbox
    /\ inbox' = Append([i \in 1..Len(inbox) |-> [inbox[i] EXCEPT !.stale = TRUE]],
                       Ev("boot", 0))
    /\ link' = "down"
    /\ proc' = <<>>
    /\ scanning' = FALSE
    /\ subscribed' = {}
    /\ resetPending' = FALSE
    /\ UNCHANGED <<hostVars, waited, faults>>

Advertise(match) ==
    /\ scanning
    /\ Deliver(Ev("scan", match))
    /\ UNCHANGED <<hostVars, waited, ncpVars, faults>>

\* The connection opens; its parameters are reported right after.
OpenConnection ==
    /\ link = "connecting"
    /\ Deliver(Ev("opened", 0))
    /\ link' = "up"
    /\ UNCHANGED <<hostVars, waited, proc, scanning, subscribed, resetPending, faults>>

OtherEvent ==
    /\ link = "up"
    /\ Deliver(Ev("other", 0))
    /\ UNCHANGED <<hostVars, waited, ncpVars, faults>>

\* The running procedure sends its next event.
Progress ==
    /\ proc # <<>>
    /\ Deliver(Head(proc))
    /\ proc' = Tail(proc)
    /\ UNCHANGED <<hostVars, waited, link, scanning, subscribed, resetPending, faults>>

\* A characteristic the host subscribed to changes.
Notify(h) ==
    /\ h \in subscribed
    /\ Deliver(Ev("value", h))
    /\ UNCHANGED <<hostVars, waited, ncpVars, faults>>

\* The connection ends, a running procedure with it and without a completion.
Disconnect ==
    /\ faults > 0
    /\ Deliver(Ev("closed", 0))
    /\ link' = "down"
    /\ proc' = <<>>
    /\ subscribed' = {}
    /\ faults' = faults - 1
    /\ UNCHANGED <<hostVars, waited, scanning, resetPending>>

OpenFails ==
    /\ "connect" \in Faults
    /\ link = "connecting"
    /\ Disconnect

LoseConnection ==
    /\ "loss" \in Faults
    /\ state \in FaultStates
    /\ link = "up"
    /\ Disconnect

\* The running procedure fails: what it had left to report is not reported.
AttError ==
    /\ "att" \in Faults
    /\ state \in FaultStates
    /\ status = "running"
    /\ faults > 0
    /\ Len(proc) > 1
    /\ proc' = <<Completed>>
    /\ faults' = faults - 1
    /\ UNCHANGED <<hostVars, waited, link, scanning, subscribed, resetPending, inbox>>

\* The event that has just come finds no room in the ring (see Bglib), which is
\* filled while a handler waits for the response to a command.
DropEvent ==
    /\ "drop" \in Faults
    /\ status = "running"
    /\ faults > 0
    /\ inbox # <<>>
    /\ inbox' = SubSeq(inbox, 1, Len(inbox) - 1)
    /\ faults' = faults - 1
    /\ UNCHANGED <<hostVars, waited, ncpVars>>

\* Time passes while scanning.
Tick ==
    /\ "silence" \in Faults
    /\ status = "running"
    /\ state = "DISCOVERY"
    /\ ~TimedOut
    /\ waited' = waited + 1
    /\ UNCHANGED <<hostVars, ncpVars, inbox, faults>>

Environment ==
    \/ Reset \/ OpenConnection \/ OtherEvent \/ Progress \/ OpenFails
    \/ LoseConnection \/ AttError \/ DropEvent \/ Tick
    \/ \E match \in {0, 1} : Advertise(match)
    \/ \E h \in Notifying : Notify(h)

\* The process is gone.
Stopped == status # "running" /\ UNCHANGED vars

-----------------------------------------------------------------------------

\* The jobs that main has pushed on its way to the loop, behind none. Of these the
\* last one, for the search, was refused if the worker had taken none by then.
StartJobs == <<"none", "red_green_yellow", "flash_yellow", "yellow_green">>

InitLed ==
    /\ pushed \in {"ok", "full"}
    /\ LET last == IF pushed = "ok" THEN 4 ELSE 3 IN
       \E i \in 1..last :
          /\ led = StartJobs[i]
          /\ waiting = SubSeq(StartJobs, i + 1, last)
    /\ Len(waiting) <= LedDepth

Init ==
    /\ state = "INIT"
    /\ status = "running"
    /\ pc = "loop"
    /\ InitLed
    /\ services = <<>>
    /\ serviceIndex = 1
    /\ chars = [i \in 1..MaxChars |-> Null]
    /\ charsLen = 0
    /\ sensors = [s \in Sensors |-> Null]
    /\ subIndex = 1
    /\ readIndex = 1
    /\ lastRequested = 0
    /\ reading = [i \in 1..MaxChars |-> Null]
    /\ waited = 0
    /\ link = "down"
    /\ proc = <<>>
    /\ scanning = FALSE
    /\ subscribed = {}
    /\ resetPending = TRUE
    /\ inbox = <<>>
    /\ faults = MaxFaults

Next == HandleEvent \/ Upload \/ TakeJob \/ Environment \/ Stopped

Spec == Init /\ [][Next]_vars

\* The loop of main never blocks for good and the clock advances; the NCP
\* carries out what it was told to do, other events notwithstanding.
HostFairness ==
    /\ WF_vars(HandleEvent)
    /\ WF_vars(Upload)
    /\ WF_vars(TakeJob)
    /\ WF_vars(Tick)

NcpFairness ==
    /\ SF_vars(Reset)
    /\ SF_vars(OpenConnection)
    /\ SF_vars(Progress)

\* A Thunderboard in range keeps advertising.
FairSpec == Spec /\ HostFairness /\ NcpFairness /\ SF_vars(Advertise(1))

\* As FairSpec, but there may be no Thunderboard in range.
SilentSpec == Spec /\ HostFairness /\ NcpFairness

-----------------------------------------------------------------------------

Statuses == {"running", "command_failed", "adv_timeout", "max_services",
             "null_deref", "overrun"}


Results == Refusals \cup {"ok", "not_found"}

\* The types of all variables but those of the LED, and of these.
HostTypeOK ==
    /\ state \in States
    /\ status \in Statuses
    /\ pc \in {"loop", "upload"}
    /\ services \in Seq(ServiceIds)
    /\ serviceIndex \in Nat \ {0}
    /\ chars \in [1..MaxChars -> Handles \cup {Null}]
    /\ charsLen \in Nat
    /\ sensors \in [Sensors -> 0..MaxChars]
    /\ subIndex \in 1..NumSensors + 1
    /\ readIndex \in 1..NumSensors + 1
    /\ lastRequested \in Nat
    /\ reading \in [1..MaxChars -> Sensors \cup {Null}]
    /\ waited \in 0..AdvTimeout + 1
    /\ link \in {"down", "connecting", "up"}
    /\ proc \in Seq(Event)
    /\ scanning \in BOOLEAN
    /\ subscribed \subseteq Handles
    /\ resetPending \in BOOLEAN
    /\ inbox \in Seq(Event)
    /\ faults \in Nat

LedTypeOK ==
    /\ led \in LedJobs \cup {"none"}
    /\ waiting \in Seq(LedJobs)
    /\ pushed \in {"ok", "full"}

\* Every variable has its type.
TypeOK == HostTypeOK /\ LedTypeOK

-----------------------------------------------------------------------------
(* Safety. *)

Running == status = "running"

\* The completions the host will still see of what it has started.
Completions ==
    {i \in 1..Len(inbox) : inbox[i].type = "completed" /\ ~inbox[i].stale}

\* The host never has two GATT procedures under way, and takes no completion for
\* that of a procedure it did not start: each handler sends its next command only
\* once the previous one has completed, across losses and failed procedures.
OneProcedure ==
    Running /\ state # "INIT" =>
        /\ \A i, j \in Completions : i = j
        /\ proc # <<>> => Completions = {}
        /\ state \notin GattStates => proc = <<>> /\ Completions = {}

\* An event sent before a reset of the NCP is only ever seen in INIT, which
\* ignores it: no completion or value of a lost connection reaches the handlers
\* of the next one.
NoStaleEvents ==
    Running /\ state # "INIT" => \A i \in 1..Len(inbox) : ~inbox[i].stale

\* As long as procedures do not fail, every sensor of the device has its pointer
\* when they are first followed, whatever connections were lost on the way: the
\* loops in SUBSCRIBE and READ, get_characteristic_by_handle and
\* refresh_sensor_values meet no null pointer.  service_index and
\* services.length, which are never reset, stay in step for that.
SensorsRegistered ==
    Running /\ state \in {"SUBSCRIBE", "READ"} => \A s \in Sensors : sensors[s] # Null

\* Once discovery is over each sensor pointer leads to an entry of the list that
\* holds the sensor's own characteristic, although INIT empties the list without
\* clearing the pointers and the next connection fills it again.
SensorsMatch ==
    Running /\ state \in {"SUBSCRIBE", "READ"} =>
        \A s \in Sensors : sensors[s] # Null => Uuid[Handle(s)] = s

\* Characteristics are discovered only in services the device has reported, and
\* all of those that are left belong to the present connection.
DiscoveryInStep ==
    Running /\ state = "DISCOVER_CHARACTERISTICS" =>
        LET left == SubSeq(services, serviceIndex, Len(services)) IN
        /\ left # <<>>
        /\ \A i \in 1..Len(left) :
              left[i] = Len(ServiceChars) - Len(left) + i

\* The job that README.md:10 to 12 has for what the host does: yellow while values
\* are sent, green and red while they are read, green from the connection on.
Due ==
    IF pc = "upload" THEN "yellow" ELSE IF state = "READ" THEN "green_red" ELSE "green"

\* The job the LED comes to show when the worker has taken all there is.
LastJob == LET jobs == <<led>> \o waiting IN jobs[Len(jobs)]

\* The LED follows the host as far as the queue lets it: if the push the host made
\* last was accepted then its job is the last one in the queue, or in the worker's
\* hands with no other to replace it, and it is the job for what the host does now.
\* Three places in app.c and main.c push these jobs, an upload ends after the
\* handler that began it and may have lost the connection, and the worker takes
\* jobs at any time.  A push that was refused is never made again: until the
\* next one the LED shows what the host did before.
LedFollows ==
    Running /\ state \in LinkStates /\ pushed = "ok" =>
        LastJob = Due

\* The program survives: whatever is lost, refused or answered with an error, the
\* loop of main keeps running.
KeepsRunning == Running

-----------------------------------------------------------------------------
(* Action properties. *)

\* What is uploaded was measured: when refresh_sensor_values runs, the buffer of
\* every readable sensor was written since the previous refresh, with a value
\* of that sensor.
RefreshComplete ==
    [][pc' = "upload" /\ pc = "loop" =>
          \A s \in Sensors : CanRead(s) => reading[sensors[s]] = s]_vars

-----------------------------------------------------------------------------
(* Liveness. *)

\* Sensor values are uploaded again and again.
UploadsGoOn == []<>(pc = "upload")

\* The same, unless the program comes to flash_led.  A null pointer that is followed
\* or a list that is overrun is no such end.
UploadsOrStops ==
    []<>(pc = "upload") \/ <>(status \in {"command_failed", "adv_timeout", "max_services"})

-----------------------------------------------------------------------------
(* What the messages and comments of the program say of it, and the code does
   otherwise.  So is SensorsMatch, when connections are lost before discovery is
   over: app.c:559 and the like say that the pointer was registered for the
   temperature characteristic. *)

\* app.c:486: the list of services overflows on a device with too many of them.
MaxServicesExceeded == status = "max_services" => Len(ServiceChars) > MaxServices

\* app.c:397: the scan waits a maximum of ADVERTISEMENT_TIMEOUT_SECONDS.
ScanEnds == state = "DISCOVERY" ~> state # "DISCOVERY" \/ ~Running
==============================================================================
