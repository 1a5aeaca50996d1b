-------------------------------- MODULE Bglib --------------------------------
(***************************************************************************)
(* The BGAPI transport of the host (gecko_bglib/src/gecko_bglib.c): a ring *)
(* of BGLIB_QUEUE_LEN events, filled whenever a message is read from the   *)
(* UART, be it to deliver an event or to wait for the response to a        *)
(* command.                                                                *)
(*                                                                         *)
(* The application polls (gecko_peek_event in the loop of main.c), handles *)
(* the event through the pointer it got and sends commands meanwhile, each *)
(* of which blocks until its response.  The NCP sends events and responses *)
(* over the wire at any time.                                              *)
(***************************************************************************)
EXTENDS Integers, SequencesExt

CONSTANTS
    QueueLen,     \* BGLIB_QUEUE_LEN
    MaxEvents,    \* bound: how many events the NCP sends
    MaxBacklog,   \* bound: how many of them are undelivered at a time
    MaxFailures   \* bound: how many reads of the UART fail

ASSUME QueueAssumption == QueueLen \in Nat \ {0}

ASSUME BoundAssumption ==
    /\ MaxEvents \in Nat
    /\ MaxBacklog \in Nat
    /\ MaxFailures \in Nat

Slots == 0..QueueLen - 1

\* Events are numbered in the order in which they are sent.
EventIds == 1..MaxEvents

\* What is not an event of the NCP: memory that was never written, and what is
\* taken for an event when reads start in the middle of a message.
Junk == 0

\* The response to a command, on the wire.
Response == 0

\* A message in memory: its header and its payload, each with the number of the
\* event it was read from.
Packet == [header : 0..MaxEvents, data : 0..MaxEvents]

Blank == [header |-> Junk, data |-> Junk]

VARIABLES
    queue,      \* gecko_queue
    w,          \* gecko_queue_w
    r,          \* gecko_queue_r
    wire,       \* messages sent by the NCP and not yet read
    rest,       \* before them, there is what a failed read left of a message
    phase,      \* "poll" for the next event, "handle" it, "wait" for a response
    slot,       \* where the pointer to the event being handled points
    given,      \* history: the event as it was when it was delivered
    latest,     \* history: the number of the last event of the NCP that was delivered
    commanded,  \* the NCP has a command to respond to
    sent,       \* how many events the NCP has sent
    failures    \* how many reads may still fail

ringVars == <<queue, w, r>>
lineVars == <<wire, rest>>
givenVars == <<slot, given, latest>>
vars == <<ringVars, lineVars, phase, givenVars, commanded, sent, failures>>

-----------------------------------------------------------------------------
(* gecko_wait_message. *)

After(i) == (i + 1) % QueueLen

\* Mutant: the queue is never full.
NeverFull == FALSE

\* One slot stays free.
Full == After(w) = r

\* Mutant: the write index does not wrap around.
StoreNoWrap(packet) ==
    /\ queue' = [queue EXCEPT ![w] = packet]
    /\ w' = w + 1
    /\ UNCHANGED r

\* A slot is taken before the payload is read into it.
Store(packet) ==
    /\ queue' = [queue EXCEPT ![w] = packet]
    /\ w' = After(w)
    /\ UNCHANGED r

\* Read an event: it is dropped when the queue is full.
ReadEvent ==
    /\ ~rest
    /\ wire # <<>> /\ Head(wire) # Response
    /\ wire' = Tail(wire)
    /\ IF Full
       THEN UNCHANGED ringVars
       ELSE Store([header |-> Head(wire), data |-> Head(wire)])
    /\ UNCHANGED <<rest, failures>>

\* A read fails: at the first byte, in the header, in a response or an event that is
\* dropped, or in the payload of an event, which has its slot by then and what was
\* there before for its data.  Except at the first byte, the rest of the message is
\* left on the line.
ReadFails ==
    /\ ~rest
    /\ failures > 0
    /\ failures' = failures - 1
    /\ \/ UNCHANGED <<ringVars, lineVars>>
       \/ /\ wire # <<>>
          /\ wire' = Tail(wire)
          /\ rest' = TRUE
          /\ \/ UNCHANGED ringVars
             \/ /\ Head(wire) # Response
                /\ ~Full
                /\ Store([header |-> Head(wire), data |-> queue[w].data])

\* What is left of a message is read like a message.  It is skipped, or taken for one:
\* then the messages behind it are swallowed one by one, until an event that the NCP
\* never sent is stored, or it is given up.  The last message that is swallowed may
\* leave a rest in turn.
ReadRest ==
    /\ rest
    /\ rest' \in BOOLEAN
    /\ \/ UNCHANGED <<wire, ringVars>>
       \/ wire # <<>> /\ wire' = Tail(wire) /\ UNCHANGED ringVars
       \/ ~Full /\ Store([header |-> Junk, data |-> Junk]) /\ UNCHANGED wire
    /\ UNCHANGED failures

ReadMessage == ReadEvent \/ ReadFails \/ ReadRest

-----------------------------------------------------------------------------
(* The application. *)

\* An event is handled through a pointer to its slot.
Hand(i) ==
    /\ phase' = "handle"
    /\ slot' = i
    /\ given' = queue[i]
    /\ latest' = IF queue[i].header = Junk THEN latest ELSE queue[i].header

\* Mutant: the event stays in the queue.
DeliverAndKeep ==
    /\ phase = "poll"
    /\ w # r
    /\ Hand(r)
    /\ UNCHANGED <<ringVars, lineVars, commanded, sent, failures>>

\* Mutant: the newest event is delivered.
DeliverNewest ==
    /\ phase = "poll"
    /\ w # r
    /\ w' = (w - 1) % QueueLen
    /\ Hand(w')
    /\ UNCHANGED <<queue, r, lineVars, commanded, sent, failures>>

\* gecko_get_event(0): the next event of the queue, by reference.
Deliver ==
    /\ phase = "poll"
    /\ w # r
    /\ Hand(r)
    /\ r' = After(r)
    /\ UNCHANGED <<queue, w, lineVars, commanded, sent, failures>>

\* gecko_get_event(0) with an empty queue: read what is on the wire first.
Fetch ==
    /\ phase = "poll"
    /\ w = r
    /\ ReadMessage
    /\ UNCHANGED <<phase, givenVars, commanded, sent>>

\* A response that nobody waits for, its command having returned with junk, goes to
\* handle_event, which knows no such event.
IgnoreResponse ==
    /\ phase = "poll"
    /\ w = r
    /\ ~rest
    /\ wire # <<>> /\ Head(wire) = Response
    /\ wire' = Tail(wire)
    /\ UNCHANGED <<ringVars, rest, phase, givenVars, commanded, sent, failures>>

\* gecko_get_event(0) with nothing on the wire either returns NULL.
PollAgain ==
    /\ phase = "poll"
    /\ w = r
    /\ wire = <<>> /\ ~rest
    /\ UNCHANGED vars

\* gecko_handle_command.  Bound: after a command that returned early, the NCP has
\* answered before the next one, and there is no more than MaxBacklog on the line.
Command ==
    /\ phase = "handle"
    /\ ~commanded /\ Len(wire) <= MaxBacklog
    /\ phase' = "wait"
    /\ commanded' = TRUE
    /\ UNCHANGED <<ringVars, lineVars, givenVars, sent, failures>>

\* Mutant: events that precede the response are thrown away.
AwaitResponseOnly ==
    /\ phase = "wait"
    /\ ~rest
    /\ wire # <<>> /\ Head(wire) # Response
    /\ wire' = Tail(wire)
    /\ UNCHANGED <<ringVars, rest, phase, givenVars, commanded, sent, failures>>

\* Mutant: nothing is read while the queue is full.
AwaitResponseAndRoom ==
    /\ phase = "wait"
    /\ ~Full
    /\ ReadMessage
    /\ UNCHANGED <<phase, givenVars, commanded, sent>>

\* gecko_wait_response: events that precede the response are read as well.
AwaitResponse ==
    /\ phase = "wait"
    /\ ReadMessage
    /\ UNCHANGED <<phase, givenVars, commanded, sent>>

ReceiveResponse ==
    /\ phase = "wait"
    /\ ~rest
    /\ wire # <<>> /\ Head(wire) = Response
    /\ wire' = Tail(wire)
    /\ phase' = "handle"
    /\ UNCHANGED <<ringVars, rest, givenVars, commanded, sent, failures>>

\* What is left of a message looks like a response.
ReceiveJunk ==
    /\ phase = "wait"
    /\ rest
    /\ rest' \in BOOLEAN
    /\ phase' = "handle"
    /\ UNCHANGED <<ringVars, wire, givenVars, commanded, sent, failures>>

\* handle_event returns.
Handled ==
    /\ phase = "handle"
    /\ phase' = "poll"
    /\ UNCHANGED <<ringVars, lineVars, givenVars, commanded, sent, failures>>

Host ==
    \/ Deliver \/ Fetch \/ IgnoreResponse \/ Handled
    \/ Command \/ AwaitResponse \/ ReceiveResponse \/ ReceiveJunk

-----------------------------------------------------------------------------
(* The co-processor. *)

\* The events in the queue, oldest first.
Queued == [i \in 1..(w - r) % QueueLen |-> queue[(r + i - 1) % QueueLen].header]

AddEvent(events, m) == IF m = Response THEN events ELSE Append(events, m)

EventsOnWire == FoldLeft(AddEvent, <<>>, wire)

Undelivered == Queued \o EventsOnWire

SendEvent ==
    /\ sent < MaxEvents
    /\ Len(Undelivered) < MaxBacklog
    /\ sent' = sent + 1
    /\ wire' = Append(wire, sent')
    /\ UNCHANGED <<ringVars, rest, phase, givenVars, commanded, failures>>

Respond ==
    /\ commanded
    /\ commanded' = FALSE
    /\ wire' = Append(wire, Response)
    /\ UNCHANGED <<ringVars, rest, phase, givenVars, sent, failures>>

-----------------------------------------------------------------------------

Init ==
    /\ queue = [i \in Slots |-> Blank]
    /\ w = 0
    /\ r = 0
    /\ wire = <<>>
    /\ rest = FALSE
    /\ phase = "poll"
    /\ slot = 0
    /\ given = Blank
    /\ latest = 0
    /\ commanded = FALSE
    /\ sent = 0
    /\ failures = MaxFailures

Next == Host \/ PollAgain \/ SendEvent \/ Respond

Spec == Init /\ [][Next]_vars

\* The NCP answers, and a handler returns after finitely many commands: it does
\* not keep sending them for ever.
FairSpec ==
    /\ Spec
    /\ WF_vars(\/ Deliver \/ Fetch \/ IgnoreResponse
               \/ AwaitResponse \/ ReceiveResponse \/ ReceiveJunk)
    /\ SF_vars(Handled)
    /\ WF_vars(Respond)

-----------------------------------------------------------------------------

\* Every variable has its type.
TypeOK ==
    /\ queue \in [Slots -> Packet]
    /\ w \in Slots
    /\ r \in Slots
    /\ wire \in Seq(0..MaxEvents)
    /\ rest \in BOOLEAN
    /\ phase \in {"poll", "handle", "wait"}
    /\ slot \in Slots
    /\ given \in Packet
    /\ latest \in 0..MaxEvents
    /\ commanded \in BOOLEAN
    /\ sent \in 0..MaxEvents
    /\ failures \in 0..MaxFailures

\* The event a handler works on is not overwritten, however many events the
\* commands it sends read into the queue: the one slot that Full keeps free is
\* the slot the handler's pointer leads to.
InUseStable == phase # "poll" => queue[slot] = given

\* The events of the NCP that are delivered come in the order in which they were
\* sent, none of them twice, even when the queue is full, and when a read has failed
\* and events were swallowed by what is left of a message, and others made up.
InOrder ==
    [][(phase = "poll" /\ phase' = "handle" /\ given'.header # Junk) =>
           given'.header > latest]_vars

\* The queue and the wire together are a lossless FIFO for the application, as long as
\* no read fails.
Channel ==
    INSTANCE EventChannel
    WITH Events <- EventIds, chan <- Undelivered, current <- given.header

ImplementsChannel == Channel!Spec

\* Every event that is sent is delivered in the end.
AllDelivered == \A n \in EventIds : sent = n ~> given.header = n

\* Every command returns, events dropped meanwhile or not, unless a read fails:
\* then its response may be lost or swallowed, and it waits for ever.
CommandsReturn == phase = "wait" ~> phase = "handle" \/ failures < MaxFailures
==============================================================================
