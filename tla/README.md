# Verification of the G300 Thunderboard demo

The G300 is a DLink gateway. Its demo program (`src/gecko_bglib/`, C) finds a
Silicon Labs Thunderboard over Bluetooth, reads its sensors again and again and
posts the values to Azure IoT, while the LED of the gateway shows what it does.
This directory holds TLA+ models of the parts that carry the program's logic, the
TLC runs that check them and proofs, checked by TLAPS, of their most important
properties. `PROJECT.json` lists the runs, the hazards and the source lines of
every definition.

## 1. The system

| Component | Source | State | Operations |
|---|---|---|---|
| Bluetooth application | `app.c`, `app.h` | `_state`, `_thunderboard` (services, characteristics, ten sensor pointers), `_sensor_values`, and statics inside the handlers | one handler per state, called by `handle_event` or, on entry, by `handle_state_transition` |
| Main loop and shutdown | `main.c` | `last_reading_id` | poll, handle, upload; `flash_led` shows red, stops the LED worker and exits |
| LED worker | `led_worker.c` | `_led_job_queue` (ring of ten and a start pointer), the job being done | `push_led_job` by the main thread; `new_led_job_ready` and `get_next_led_job` by the worker |
| BGAPI transport | `gecko_bglib.c` | ring of 30 events with `gecko_queue_w` and `gecko_queue_r`, one response | `gecko_peek_event`, `gecko_handle_command`, both reading messages from the UART |
| Azure | `azure_functions.c` | `_azure_config` (operation id, host name), `_curl_buffer` with its offset, `_json_response` | `wait_for_network_connection`, `azure_init`, `azure_post_telemetry`, all but the first over one `make_request` |
| Startup, command line | `main.c`, `main.h` | `G300Args`, the thread, the log file, the port | `get_parameters`, the steps before the loop, `flash_led` from each of them |
| Serial port | `uart_posix.c` | the file descriptor | `uartOpen`, `uartClose`, and the read, write and peek loops |
| Commands | `host_gecko.h` | none | 119 inline functions, each of which makes a header and stores parameters |
| Log | `log.c` | level, file | lines written by two threads |
| Advertisement parser | `app.c:283-326` | none | a loop over the fields of an advertisement |
| Legacy host | `src/bglib/` | its own | an earlier prototype for another dongle |

How they interact:

- The **co-processor** (NCP) runs the Bluetooth stack. The host sends it a command
  and blocks until the response (`gecko_handle_command`). Events that arrive
  meanwhile go to the ring, as do those the main loop reads. One thread, so a
  handler and the commands it sends are one step for the application, but the
  NCP goes on meanwhile, and what the host learns is always older than what is.
- A **handler** may send commands and change `_state`, which runs the entry
  action of the new state at once; that may change the state again.
- The **main loop** calls the handler with each event and uploads the values
  when `_sensor_values.id` has changed.
- Both `main.c` and `app.c` **push LED jobs**; the worker thread does a job over and
  over until the next one is ready. The mutex protects each access to the queue, not
  what happens between two of them.
- **Fatal errors** end in `flash_led`, which never returns to the loop.

What is hard here: events of a lost connection that are still queued; handlers that
tell procedures apart by the state alone; statics and pointers that survive a
reconnection; notifications among the values that were asked for; a loss of
connection between an event and the command it leads to; two threads and a queue
accessed in separate critical sections; a shutdown that competes for that queue; a
ring of events that fills up while a command waits; reads that fail in the middle of
a message. `PROJECT.json` lists these hazards at their lines.

What makes the components correct:

- *Application*: one GATT procedure at a time; nothing of a lost connection is taken
  for the present one; all sensors are found, and each pointer is that of its
  sensor; what is uploaded was measured since the last upload; after any loss
  the program comes back, or stops; the LED follows what the program does.
- *LED worker*: accepted jobs are done in order, none is lost or stranded; the
  shutdown ends.
- *Transport*: a lossless FIFO as long as the ring does not fill up; the event in use
  is never overwritten, even when it does; commands return.
- *Azure*: the loop begins only when the service has assigned the device and its name
  is known; no response of an earlier request is taken for the present one;
  retries end.
- *Startup*: whatever fails, `main` comes to its loop or to an end; nothing kills the
  process but at its two ends; a command line of `USAGE` is taken as it is meant.
- *Serial port and commands*: bytes are cut into messages where they begin, however
  few come at a time; the NCP hears the command that was called; a command returns
  its own response; the boot event is found behind what was left on the line.

## 2. Modules

All paths are below `src/gecko_bglib/`.

### ThunderboardApp (`src/app.c`, the loop of `src/main.c`)

Each variable stands for one of the program's, as the comments at its declaration
say. There is an action for each case of each handler's `switch`; the guard
`Receive(type)` takes the head of the event FIFO. Entry actions (`EnterInit`,
`EnterDiscovery`, ..., `EnterRead`) are operators that the actions call where the
code calls `handle_state_transition`; `EnterRead` may go on to `EnterInit` in the
same step, as it does in the code. `Upload` is the rest of the loop's body: it
comes between the handler that refreshed the values and the next event.

Null pointers and list overruns are states: `status` becomes `"null_deref"` or
`"overrun"` where the code would follow a null pointer or write past the list. The model
ends there, as it knows nothing of a program that has written past its list; no liveness
property takes that for an end of the program. `flash_led` stops the model as
well, with the reason; what it does then is in `LedQueue` and `Startup`.

The LED worker is seen through its queue, as `LedFifo` promises it: `PushLed` is refused
when `LedDepth` jobs wait, and nobody looks at that; `TakeJob` is the worker, at any time. So
`led` is the job the LED shows, `waiting` those it will show, `pushed` what the last push
returned. `LedDepth` is 2 in the code. With 0 the queue refuses everything and the
LED has no states: the runs that ask nothing of it do so. `Init` has any of the three jobs
that `main` has pushed by then in the worker's hands.

The NCP and the peripheral are external, modelled from what `app.c` relies on: a
GATT command is answered with `invalid_conn_handle` if there is no connection and with
`wrong_state` if a procedure is running, and else starts a procedure that sends its
events one by one, a completion last; a lost connection sends `closed` and ends the
procedure without a completion; a reset ends everything and sends `boot`. Faults are
chosen by the constant `Faults`: connections that are not opened or are lost,
procedures that end with an error, commands refused for no reason the host knows,
silence on the air, and events that are dropped because the ring is full (`DropEvent`:
the newest event in the inbox never was there; which ones are dropped depends on how far
`Bglib` is behind, so any may be). `stale` in an event is a history variable: the event was sent
before the last reset.

Abstracted: sensor values (a value is named by its characteristic), UUIDs (a map from
characteristics to sensors), the bytes of advertisements (a name matches or not),
the five seconds of sleep in `INIT`, logging.

### LedQueue and LedFifo (`src/led_worker.c`, `flash_led` of `src/main.c`)

The mutex makes `new_led_job_ready` (`Check`), `get_next_led_job` (`Get`) and
`push_led_job` (`Push`) one step each. The worker's `wpc` says at which of them it is;
the other thread pushes any demo job, which red is not (`PushDemoJob`), until it calls `flash_led`
(`FlashRed`, `WakeUp`, `PushQuit`, `JoinAndExit`). The calls in `app.c` and `main.c` decide
which job is pushed when; here any can come at any time, which covers all of them.
`LedFifo` is what the rest of the program relies on: a FIFO of `Depth` jobs.
`LedQueue` implements it with `Depth <- 2`, whatever the capacity of the ring: a push
tries only the slot of `start` and the one after it. (The code says "LED Job Queue
Full!" when two of ten slots are in use.)

### Bglib and EventChannel (`src/gecko_bglib.c`, `include/gecko_bglib.h`)

`wire` is what the NCP has sent and nobody has read. `Fetch` and `AwaitResponse` are the
two callers of `gecko_wait_message`; `Store` takes a slot before the payload is read, so
that a read that fails in the payload (`ReadFails`) leaves old data in it, as in the
code. After a failed read `rest` says that a part of a message is before `wire`, and
`gecko_wait_message` goes on in the middle of it (`ReadRest`): what is left is
skipped, or taken for a header, which may swallow messages behind it, store an event that
was never sent (`Junk`) or end a command as if it were its response (`ReceiveJunk`). What the
bytes look like is left open, so all of these may happen. The response that comes
when nobody waits for it any more is ignored (`IgnoreResponse`). A handler sends no further
command while such a response is missing: that bounds the model, and only where reads
fail. `Deliver` hands out a pointer into the ring, not a copy: `slot` and `given`, a
history variable, say what it pointed to. `EventChannel` is the lossless FIFO that
the application assumes; `ThunderboardApp`'s `inbox` is one.

### GeckoCommands (`include/host_gecko.h`)

The 119 commands as data, in the order of the file: name, class, index, the length its
header gets, the bytes of the parameters that are stored, whether an array ends it,
whether a response is waited for. The operators below the table are the code that all
of the inline functions repeat: `TooLong` is the test against `BGLIB_MSG_MAX_PAYLOAD`,
`Header` the word that is sent, `MsgLen`, `MsgClass` and `MsgIndex` how the macros take it
apart. That the length in the header and the bytes stored agree is not assumed: `fixed`
and `stored` are read from different lines.

### NcpLink (`src/uart_posix.c`, `gecko_wait_message`)

One level below `Bglib`: a message is a sequence of bytes, a read returns any
part of what is there (`Read`), a write takes any part of what is left (`Write`), and any
of them may fail. `ReadType`, `ReadLength` and `ReadMessage` are the three parts of
`gecko_wait_message`, with its returns when a byte is no type or a length is too long;
`NextMessage` is what its two callers do then. `ReadFails` in the data still delivers the
message, as its header has been stored. `Call`, `AwaitResponse` and `Return` are a
command of `GeckoCommands`, with a response or without. A byte carries, as history, the
message it is of and its place there: only the properties look at them. The NCP
is external: it boots, answers and sends events. Real headers have four bytes; class and
index are left out on this line, as reading decides nothing by them. The room in the ring is
`Bglib`'s.

### Azure (`src/azure_functions.c`)

`call` is the function that runs, `req` its `make_request`. `BeginRequest` resets the
buffer and the parsed response, `ReceiveChunk` is `write_callback`, `RequestFails` stands for
each of the ways out of `make_request` with an error, `RequestDone` for the parsing of a
body that says whatever the service says. Then one action for each branch of
`fetch_operation_id`, `fetch_host_name` and `azure_post_telemetry`.
`wait_for_network_connection` has its own use of libcurl, without a reset of the buffer:
`NetworkUp` may leave the page there. Names of hubs are told apart by how they compare
with the field they are copied to. So are operation ids, whose field is filled by the same function. libcurl, parson and the
services are external. Two things are assumed of the service: once it has assigned
a device it keeps to its answer, and it names a hub only to who asks with the operation id
that it gave. The code relies on the latter: with an empty id, or one that is cut, it
asks all the same.

### Arguments (`get_parameters` of `src/main.c`)

The loop as a fold of `Take` over the words. Against it stands `USAGE` as it reads:
`Roles` is its grammar, with each option at most once, `Suits` says which values an option
can have (a baud rate, a name that its field can hold, one of the levels of `log.h`), and
`Meaning` is what they say, with no field to fit. `ParsedAsUsage` compares the two:
every command line of `USAGE` is accepted, in any order of its options, and if its values
suit then what they say is what is stored. The code is more lenient than `USAGE`, which
`ParsedAsUsage` states as well: it accepts `-n` more than once (`Roles` has the options that
may be repeated as a parameter), and values of any kind, of which it stores what
`atoi`, a byte or 31 characters make of them: with `-l 260` the level is 4. A word is an
atom; `atoi` and the copy of a name to a field are constants of the module.

### Startup (`main` and `flash_led` of `src/main.c`, `src/log.c`, `uartOpen`)

Composes `Arguments`, `Azure` and `LedQueue`: `at` is the step of `main` that is next, and each
step that pushes a job takes the action of `LedQueue`.
The loop is reduced to what it does to these three: it pushes any job, posts what it
has read, and may meet a fatal error at any time (`DemoFails`); `ThunderboardApp` has the
rest. `thread` is whether the worker was created, as `main` goes on if not. `logFile` is
`"closed"` once `flash_led` has closed a file that the log still writes to (`CloseLog`),
which it does before it pushes red (`FlashRed`): each message at or above the level may
then kill the process (`UseClosedLog`), or not, as a write to a closed `FILE` is
undefined. The messages are those of the worker and of `push_led_job`, the one for red
included, and the one before `pthread_join`.

### MC modules

`MCThunderboardApp` defines a small device: two services, one with a readable sensor
behind a characteristic that is no sensor, one with a readable sensor that
`refresh_sensor_values` does not use (UV) and a notifying one (acceleration).
`MCLedQueue` has one job of each type. `Bglib` needs only numbers and is run as it is.
`MCStartup` defines the numbers that words stand for (0 and 260, which is no speed, no
level, and more than a byte holds) and a field for the port that holds one character. `MCNcpLink` defines what may be left on the line when the port is opened, and
events of which one ends like a response.

## 3. Runs

| Run | Shows | Bounds |
|---|---|---|
| `app_faults` | types, `OneProcedure`, `NoStaleEvents`, `LedFollows` under all faults at any time, dropped events included | 2 faults, 3 events ahead, 4 services (so the list can fill up), 8 characteristics, a LED queue of 2 |
| `app_reconnect` | after losses and errors in READ: `SensorsMatch`, `DiscoveryInStep`, `KeepsRunning`, `RefreshComplete`, `UploadsGoOn` | 3 faults, 3 events ahead, a list of 4 characteristics: exactly one discovery, so that a length that is not reset overruns it |
| `app_no_stall` | losses and refusals in every state: `SensorsRegistered`, `UploadsOrStops` | 3 faults, 2 events ahead, room for the 16 characteristics of four discoveries |
| `led_queue` | the LED queue's invariants, `ImplementsFifo`, `ShutdownEnds`, `JobsAreTaken` | ring of 4, so that it wraps and has slots that must stay empty |
| `bglib_channel` | `ImplementsChannel`, `AllDelivered` | ring of 4, at most 3 undelivered events, 8 events: the ring wraps twice |
| `bglib_overflow` | `InUseStable`, `InOrder`, `CommandsReturn` | ring of 3, up to 4 undelivered events of 6, one failing read, with any number of messages swallowed behind it |
| `startup` | `ArgumentsAsUsage`, `ReadyMeansProvisioned`, `ResponseOfThisRequest`, `DiesAtItsEndsOnly`, `StartsOrFails`, `FatalEnds` | up to 4 words of `-b -s -l -n 0 260`; 2 attempts, 2 retries; a buffer of one chunk; names of three lengths; a ring of 2 |
| `ncp_link` | `MessagesInStep`, `ResponseOfCommand`, `HeardAsCalled`, `CommandsReturn`, `BootIsSeen` | all 119 commands, those with an array at 255 and 257 bytes and with an empty one; 4 leftovers; messages of up to 2 bytes; an event or a command is added while at most 3 bytes wait; one failing call, and three commands after it |

Three faults are enough for a second and a third connection, each of which meets
what the earlier ones left behind (`services`, `serviceIndex`, `sensors`): a list
that is never reset, an index that is never reset and pointers that are kept all show
by the third. `app_faults` has two, of any kind, so that the LED queue fits in: what
it asks is about one connection and the one before. Two or three events ahead of the host are enough for a
completion, a loss and a notification in any order. The clock needs one tick
beyond the timeout.

In `startup` four words are two options with their values, given twice or
one within the other, which is as much as the parser can be confused by: it remembers the
option it expects a value for and those it has had. Two attempts and two retries are
one more than the first. A buffer of one chunk is empty, full, or refuses. A ring of two has
the depth of every larger one. In `ncp_link` a message of up to four bytes can be cut
in each place; 255 and 257 bytes are the two sides of the length that a header cannot hold;
a failing call shows what a failure leads to, and a second one would only
weaken the same properties, which all except it. After a failure three commands stand for
all: one with a response, one without, one with an array.

Three runs do without deadlock checking, as the program really may wait for ever there:
in `bglib_overflow` and `ncp_link` when a read fails in a response
(`gecko_wait_response` has no timeout) or what was left on the line swallows the boot event;
in `app_faults` when the event that is dropped is the one a handler waits for.

Four runs expect a violation. Each states what a message or a document of the
repository says, and TLC shows how the code does otherwise:

| Run | Says | Does |
|---|---|---|
| `app_max_services` | `app.c:486` "Max Services Exceeded" | `services.length` is never reset: a device with few services exceeds the list after some reconnections |
| `app_mixed_up` | `app.c:559` "Registered Temperature Characteristic" | a connection lost during discovery leaves the pointer at an entry that the next discovery fills with another characteristic |
| `app_scan` | `app.c:397` "Wait a maximum of ADVERTISEMENT_TIMEOUT_SECONDS" | the time is looked at only when an event arrives |
| `led_red` | `src/README.md:12` "Flashing Red: A Fatal error has occured" | the red job can be refused, and nobody looks |

The models show more of the kind, which no run checks:

- A connection lost while services are discovered makes the next discovery find them
  twice and may overrun the list of characteristics (`status = "overrun"`); a service whose
  discovery failed leaves a null sensor that `get_characteristic_by_handle` follows
  (`"null_deref"`).
- The worker may look at the LED queue before the first job is pushed (`CheckCrash`). If it
  could not be created, the third push and all later ones are refused, QUIT
  among them, and `flash_led` never ends: `FatalEnds` is about a program with a worker.
- After `flash_led` has closed the log file, every message at or above the level of the log
  is written to it (`UseClosedLog`), at level TRACE that of the push of the red job included: if
  that kills the process, red is never shown. `DiesAtItsEndsOnly` says when it cannot.
- A LED job that the queue refuses is not pushed again: two that come while the worker is at
  a long one leave no room for the next, and the LED shows something else until another
  push. `LedFollows` holds up to the refusal.
- `get_parameters` takes a baud rate, a level or a port that does not fit its field for
  another one, and `-n` more than once.
- A full ring drops events that `gecko_bglib.h:16` says are queued, and a program that waits
  for one of them waits for ever. After a read that failed, an event has the data of an older
  one (`ReadFails`), where `gecko_bglib.h:47` says that its data is at the pointer; and what is
  left of the message may be taken for messages that the NCP never sent (`ReadRest`).
- `host_gecko.h:53` calls 256 "the maximum BGAPI command payload size", and a command of that
  length is not refused; but the length in its header is a byte, and the NCP reads an
  empty command of the next class (theorem `LongestIsMisread`). The demo sends none.
- If what an earlier session left on the line looks like a header, it may take the boot event
  for its data, and the host waits for ever for a boot it has swallowed.
- A hub name exactly as long as its field passes the test of `extract_json_string` and
  loses its last character: `ReadyMeansProvisioned` says so.
- Green is shown before the connection is open, and a second search shows whatever was
  shown before.

## 4. Fairness

- *Application* (`FairSpec`): the main loop handles events and uploads return
  (`WF`): no call in them waits for the NCP's events, and `azure_post_telemetry` ends.
  The NCP carries out a reset, a connection and a running procedure (`SF`, as
  notifications and advertisements may keep the inbox full in between), and a
  Thunderboard in range advertises again and again. `SilentSpec` drops the last one.
  Faults are bounded in number: between two of them there is time enough.
- *LED worker* (`FairSpec`): both threads run. Weak fairness is enough: a waiting
  thread gets the mutex. `flash_led` is fair once it has begun, but nothing obliges
  the program to fail or to push jobs.
- *Transport* (`FairSpec`): the host keeps running, the NCP answers commands (`WF`),
  and a handler returns after finitely many commands (`SF(Handled)`): none of them loops.
- *Startup* (`FairSpec`): both threads run, so the steps of `main`, `flash_led` and the
  worker are weakly fair. A transfer of libcurl ends, well or badly, and what follows
  is code of the program. `make_request` sets no timeout, so a service that accepts a
  connection and never answers is excluded by this assumption and by nothing else. The loop is
  not fair: nothing obliges the demo to push, post or fail.
- *Line* (`FairSpec`): a write to a tty is taken in the end, a read returns what is there,
  and the NCP answers what it has heard. `Poll` is fair only where it finds bytes.
  The NCP's events and the handlers' commands are not: none need come.

## 5. Proofs

The proofs hold for every value of the constants under the assumptions named in the
modules (`DeviceAssumption`, `BoundAssumption`, `CapacityAssumption`, `JobAssumption`,
`QueueAssumption`, `LinkAssumption`, `AzureAssumption`, `JobsAssumption`, `LedAssumption`,
`WordsAssumption`), which say what kind of thing each constant is. Where a theorem needs
more, it is a hypothesis of the theorem, and listed here. Every invariant and every action
property of the passing runs is proved, and so are the two refinements
(`ImplementsFifo`, `ImplementsChannel`).

**ThunderboardApp_proof**: every device, list size, number and kind of faults.

- `TypeOK`, `OneProcedure` and `NoStaleEvents`. The last two are not inductive. What
  they need is an account of what is still to come: no boot event is queued while a reset is
  pending, and once one is, nothing behind it is stale and no completion follows it
  (`BootInv`); a running procedure is
  well formed, with one completion, its last event (`GoodProc`); outside INIT no reset is
  pending, nothing is stale, and there is at most one of a running procedure and a
  queued completion, and neither outside the GATT states (`Safe`). Lemmas say what
  `Start`, `Request`, `EnterRead` and `SubscribeFrom` lead to (`Outcome`), what taking and
  adding an event does to the completions, and then each action preserves the
  invariant. `Refresh` and `Request` follow sensor pointers only after a test or a guard,
  which is where `FirstSensor` is used. All of the
  invariant speaks of what is queued and not of what must be, so that it survives an event
  that is dropped (`DropEventKeeps`): a drop can stop the program, but not confuse it.
- `LedFollows` (theorem `LedFollowsHost`), for a queue of any length: whoever leaves or enters
  READ, opens a connection, or begins or ends an upload, pushes the right job; if it is accepted
  it is the last of the queue (`PushedIsLast`), and it stays the last that the worker
  comes to when the worker takes a job (`TakenType`). `UploadInv` says in which states an upload
  can run, as the handler before it may have lost the connection.

**ThunderboardRounds_proof**: every device again, but fewer faults.

| Theorem | Property | Hypotheses |
|---|---|---|
| `AllRegistered`, `NoNullFollowed` | `SensorsRegistered`; `"null_deref"` is never reached | the device has every sensor; no event is dropped; no procedure of the discovery fails. Connections may be lost in every state |
| `SensorsMatched`, `DiscoveryKeepsStep` | `SensorsMatch`, `DiscoveryInStep` | no connection is lost and no procedure fails while services or characteristics are discovered, whatever fails in the other states; no event is dropped; the device has a service |
| `RoundsComplete` | `RefreshComplete` | as before, and a sensor that notifies is not readable as well and is not the first one |
| `MainLoopRuns` | `KeepsRunning` | connections are lost and procedures fail in READ only, no event is dropped, the device has every sensor, no command is refused without a reason and there is no silence; `services.list` has room for the services of `MaxFaults` + 1 connections, the list of characteristics for those of one |

These hypotheses are what the code relies on. `app_mixed_up` shows what becomes of
`SensorsMatch` without them, `app_max_services` the same of the room for services. The one
about notifying sensors is needed because a value is told from the answer to a request by
its characteristic alone: a notification of the sensor that is being read would move
`sensor_index` on twice, and a sensor would be passed over. The device of the runs is of
that kind: its notifying sensor, acceleration, is not readable and not the first.
The arguments:

- `RegInv`: each sensor has its pointer, or belongs to a service that is still to be
  looked at, or is about to be reported before the completion (`Ahead`); so a completion
  that finds no service left finds every sensor registered.
- `LinkInv`: which events of the connection can be queued in which state. From the boot on
  the connection is down until the host opens it, and up while services and
  characteristics are discovered; a `closed` is queued only once it is down.
- `PlaceInv`, `ListInv`: what a complete discovery writes does not depend on the connection.
  With `off[m]` characteristics in the services up to m, the d-th characteristic of service m
  is entry `off[m - 1] + d` of the list, on each connection; so an entry that is written
  again gets the value it has, and the pointers that INIT does not clear stay right.
  `Stream` says which reports of the running procedure are queued where. That such an `off`,
  and such a list, exist (`OffsetsExist`, `ListExists`) is an induction over the services.
- `ReadInv`: of the values on their way, one at most is the answer to the last request, and
  it precedes the completion of its procedure (`Arriving`); those that come unasked are of
  sensors that are never requested; each readable sensor the round has passed has its value
  (`ReadSoFar`).
- `Funded`: `services.length`, which is never reset, has grown by no more than the number of
  services of the device for each fault that has occurred, and once for the present connection.

**LedQueue_proof**: every capacity and set of jobs. The invariant is `TypeOK`,
`Contiguous`, `ReadyJobStays` and where
QUIT can be (`QuitInv`: queued, in the worker's hands or nowhere, and behind no later
job). From it follow `QuitIsLast` and, step by step, the refinement of `LedFifo`.

**Bglib_proof**: every length of the ring and number of events.

- `InUseStable` needs that the pointer leads to the slot just behind the
  read index: `After(slot) = r` while an event is handled. `Full` keeps that slot free.
- `InOrder` (`DeliveredInOrder`), with any failed reads and a ring that is full or not: the
  number of the last genuine event that was given, those in the ring from r to w and those
  on the wire are one increasing sequence (`InSequence`). An event that is dropped, or swallowed
  by what is left of a message, leaves a gap, not a disorder; one that was never sent has
  no number, and stands in the ring without being part of the sequence.
- `ImplementsChannel` (`RingIsChannel`), if `MaxBacklog < QueueLen` and no read fails: an
  event moves from the wire to the ring without a change of `Undelivered`, and only a
  delivery takes the first of them.

**NcpLink_proof**: every length of messages, whatever is left on the line, whatever data
events have, any number of failing calls.

- `TypeOK` (`TypeCorrect`): what has been read and what is still needed add up
  to the header or the message (`ReadSoFar`).
- `MessagesInStep` (`ReadsInStep`): what has been read, followed by what is on the line, is
  in step (`StepInv`): each byte is followed by the next one of its message, as many as
  the length in the message says, and each message begins with a type. Taking a message off the front keeps it so,
  wherever reads cut it.
- `ResponseOfCommand` (`OwnResponse`): there is at most one response on its way, and it is
  that of the command that waits (`ResponseInv`); the data of an event that looks like a
  response is no message of its own as reads are in step.
- `HeardAsCalled` (`CommandsHeard`), if no array is so long that its command has exactly
  `MaxPayload` bytes (`LongestIsMisread` is about these).

**GeckoCommands_proof**: a lemma for each table says that its numbers fit the bytes
of a header and that the length is that of the parameters that are stored
(`CommandsFit`), `BytesOfWord` that a word gives back the three bytes it is made
of. `HeadersAgree` follows for every length but one, and `LongestIsMisread` says what
happens at that one.

**Startup_proof**: every command line, number of retries, size of buffer, queue capacity
and set of jobs.

- `UsageIsParsed`, for every sequence of any words. The fold is unfolded into the results
  after each word (`ParsedUnfold`), and these are compared with the roles that the words can
  have, one after the other: what is accepted, and what is stored, is that of the roles
  with a repeated `-n` allowed (`AllowedIsParsed`). The roles of `USAGE` are among them, and
  a value that suits its option is stored as it is (`FittingIsTaken`).
  `ArgumentsTaken` (`ArgumentsAsUsage`) is the same of `main`.
- `DiesAtItsEnds` needs to know when there is a worker, a first job and a closed log, and
  that the level of the log is the one of the command line (`DeathInv`): a closed log kills
  the process in `flash_led` only, before or after red has been pushed, and never with `-n`
  or a level above WARN. `ResponsesBelong` follows from which calls make requests
  (`RequestInv`).
- `LoopIsProvisioned` is the long one: `ReadyInv` ties the function of Azure that runs to
  the step of `main` that called it, and the parsed name to the service's, through every
  branch of `fetch_operation_id` and `fetch_host_name`.
- `TypeOK` (`TypeCorrect`) takes the types of the queue from LedQueue_proof, as each step is one
  of `LedQueue` or leaves the queue alone (`StepOfLed`), and those of the arguments from
  `AllowedIsParsed`.

**CountingLemmas** holds what several of these share: that `Min` is a least element
(`MinIsLeast`), indexes that wrap (`ModOnce`), and `CountingUp`. The prover cannot use the
induction theorems of its library, which take an operator as a parameter. `CountingUp` is
induction over a set instead: a set that has 0 and, with each number, the next
one, has all numbers. Folds and offsets are reasoned about with it.

Only model-checked: liveness (`UploadsGoOn`, `UploadsOrStops`, `ShutdownEnds`,
`JobsAreTaken`, `AllDelivered`, `CommandsReturn`, `StartsOrFails`, `FatalEnds`, `BootIsSeen`),
as fairness and `ENABLED` are beyond the prover; and the four violations.

## 6. Plan

What is left, most important first.

1. **Host**: the composition of `Bglib` and `ThunderboardApp`'s loop. `app_faults` drops any
   event; the composition would drop just those that find the ring full, and would let
   a response be lost while a handler waits for it. Abstract specification:
   `EventChannel` under a backlog of less than `BGLIB_QUEUE_LEN`.
2. **NcpLink and Bglib**: that the bytes cut into messages implement `Bglib`'s `wire` of
   whole messages, as long as no read fails; `StepInv` is most of the proof.
3. **Advertisement**: the loop over the fields of an advertisement (`app.c:283-326`), whose
   names are terminated one place too far, compared with the fields as they were meant.
4. Proofs: `MainLoopRuns` for losses in SUBSCRIBE, where the program stops only if a
   subscription is refused because the connection is gone.

## 7. Not modelled

- The layouts of responses and events in `host_gecko.h` and the headers of constants:
  structs and numbers without code.
- How the serial port is configured and what the flush of `uartOpen` throws away: I/O. What
  is left after it is any of `Tails`. A read on a port that was hung up.
- What the log writes, and its lock, which nobody sets: two threads may mix up their lines.
- The conversions of sensor values to physical units, the texts of URLs and JSON bodies, the
  signature of the SAS token.
- The bytes of an advertisement: whether it matches is an input of `ThunderboardApp`.
- `src/bglib/`, an earlier prototype for another dongle. `src/makefile` does not build
  it, and it cannot be linked as it is: its `main.c` calls `gecko_cmd_system_reset`, which
  nothing in `src/bglib/` defines. There is no program whose behaviour a model could be
  faithful to.
- Build files, scripts and firmware images.
