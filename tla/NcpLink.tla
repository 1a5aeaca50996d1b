------------------------------- MODULE NcpLink -------------------------------
(***************************************************************************)
(* The serial line between host and co-processor: uart_posix.c, with reads *)
(* and writes that are short or fail, under gecko_wait_message of          *)
(* gecko_bglib.c, which cuts the bytes into messages, and one command at a *)
(* time of GeckoCommands.  Bglib is the level above: it has the messages   *)
(* whole, and the ring they go to.                                         *)
(*                                                                         *)
(* A message is a type, a length and as many bytes more: the four bytes of *)
(* a real header are two here.  Any byte may look like a type.             *)
(***************************************************************************)
EXTENDS GeckoCommands

CONSTANTS
    Totals,         \* bound: the lengths of the commands with an array
    Tails,          \* what may be left of a message when the port is opened
    EventData,      \* the data of events
    MaxData,        \* BGLIB_MSG_MAX_PAYLOAD, of messages
    MaxLine,        \* bound: an event is sent, and a command called, while at most so
                    \* many bytes wait
    MaxFailures,    \* bound: how many reads and writes fail
    CalledAfter     \* bound: the names of the commands called after one has failed

\* How a byte looks: a number, which may be a length or data; these two are types.
EVT == 20
RSP == 21

ASSUME LinkAssumption ==
    /\ MaxData \in Nat \ {0}
    /\ \A tail \in Tails : tail \in Seq(Nat)
    /\ \A data \in EventData : data \in Seq(Nat) /\ Len(data) <= MaxData
    /\ MaxLine \in Nat
    /\ MaxFailures \in Nat

VARIABLES
    hpc,        \* the host: "idle" in its loop, in uartTx ("write"), in uartRx for
                \* the "type", the "length" or the "data", or "returned"
    cmd,        \* the command and the bytes of its array; None
    unwritten,  \* of its message: "all", "some" or "none"
    waiting,    \* uartRx is called to get a response
    line,       \* what the NCP has sent and the host not read
    got,        \* the bytes read of a message
    need,       \* dataToRead
    rsp,        \* gecko_rsp_msg, as the caller of a command reads it
    booted,     \* the boot event has been delivered
    heard,      \* the NCP has the message of a command to carry out
    clean,      \* history: what was left of a message did not look like another
    failures    \* how many reads and writes may still fail

rxVars == <<line, got, need>>
vars == <<hpc, cmd, unwritten, waiting, rxVars, rsp, booted, heard, clean, failures>>

Reset == CHOOSE c \in Commands : c.name = "system_reset"

None == [c |-> [Reset EXCEPT !.name = "none"], n |-> 0]

\* A message: the bytes with what it is of and their places in it.
Message(type, of, data) ==
    LET bytes == <<type, Len(data)>> \o data
    IN  [i \in DOMAIN bytes |-> [looks |-> bytes[i], of |-> of, i |-> i]]

Response(c) == Message(RSP, c.name, <<0>>)
TooLongResponse(c) == <<[looks |-> RSP, of |-> c.name, i |-> 0]>>

\* The arrays a command is tried with.
Lengths(c) ==
    IF c.array THEN {n \in 0..255 : n = 0 \/ c.fixed + n \in Totals} ELSE {0}

-----------------------------------------------------------------------------
(* A command is sent. *)

\* The inline functions of host_gecko.h; handlers send commands after the boot.
Call(c, n) ==
    /\ hpc = "idle"
    /\ booted
    /\ Len(line) <= MaxLine
    /\ failures = MaxFailures \/ c.name \in CalledAfter
    /\ cmd' = [c |-> c, n |-> n]
    /\ IF TooLong(c, n)
       THEN /\ rsp' = TooLongResponse(c)
            /\ hpc' = "returned"
            /\ UNCHANGED unwritten
       ELSE hpc' = "write" /\ unwritten' = "all" /\ UNCHANGED rsp
    /\ UNCHANGED <<waiting, rxVars, booted, heard, clean, failures>>

\* Mutant: what a short write leaves is not written.
WriteOnce ==
    /\ hpc = "write"
    /\ unwritten = "all"
    /\ unwritten' \in {"some", "none"}
    /\ IF unwritten' = "none" THEN heard' = cmd ELSE UNCHANGED heard
    /\ hpc' = IF cmd.c.reply THEN "type" ELSE "returned"
    /\ waiting' = cmd.c.reply
    /\ need' = 1
    /\ got' = <<>>
    /\ UNCHANGED <<cmd, line, rsp, booted, clean, failures>>

\* uartTx goes on until all is written. Bound: the line holds one command.
Write ==
    /\ hpc = "write"
    /\ unwritten # "none"
    /\ unwritten' \in (IF heard = None THEN {"some", "none"} ELSE {"some"})
    /\ IF unwritten' = "none" THEN heard' = cmd ELSE UNCHANGED heard
    /\ UNCHANGED <<hpc, cmd, waiting, rxVars, rsp, booted, clean, failures>>

\* gecko_handle_command goes on to wait for the response, even if serial_write has
\* failed; gecko_handle_command_noresponse returns.
AwaitResponse ==
    /\ waiting' = cmd.c.reply
    /\ hpc' = IF cmd.c.reply THEN "type" ELSE "returned"
    /\ got' = <<>>
    /\ need' = 1

Written ==
    /\ hpc = "write"
    /\ unwritten = "none"
    /\ AwaitResponse
    /\ UNCHANGED <<cmd, unwritten, line, rsp, booted, heard, clean, failures>>

\* An error other than EAGAIN; serial_write only logs it.
WriteFails ==
    /\ hpc = "write"
    /\ unwritten # "none"
    /\ failures > 0
    /\ failures' = failures - 1
    /\ AwaitResponse
    /\ UNCHANGED <<cmd, unwritten, line, rsp, booted, heard, clean>>

\* The caller has read gecko_rsp_msg, which is forgotten here.
Return ==
    /\ hpc = "returned"
    /\ hpc' = "idle"
    /\ cmd' = None
    /\ unwritten' = "none"
    /\ waiting' = FALSE
    /\ got' = <<>>
    /\ need' = 0
    /\ rsp' = <<>>
    /\ UNCHANGED <<line, booted, heard, clean, failures>>

-----------------------------------------------------------------------------
(* Messages are read. *)

\* gecko_get_event reads if uartRxPeek finds something, or fails.
Poll ==
    /\ hpc = "idle"
    /\ \/ line # <<>> /\ UNCHANGED failures
       \/ failures > 0 /\ failures' = failures - 1
    /\ hpc' = "type"
    /\ got' = <<>>
    /\ need' = 1
    /\ UNCHANGED <<cmd, unwritten, waiting, line, rsp, booted, heard, clean>>

Reading == hpc \in {"type", "length", "data"}

\* Mutant: a short read counts as a whole one.
ReadOnce ==
    /\ Reading /\ need > 0
    /\ \E n \in 1..need :
          /\ n <= Len(line)
          /\ got' = got \o SubSeq(line, 1, n)
          /\ line' = SubSeq(line, n + 1, Len(line))
    /\ need' = 0
    /\ UNCHANGED <<hpc, cmd, unwritten, waiting, rsp, booted, heard, clean, failures>>

\* uartRx: a read returns what there is, up to what is needed.
Read ==
    /\ Reading /\ need > 0
    /\ \E n \in 1..need :
          /\ n <= Len(line)
          /\ got' = got \o SubSeq(line, 1, n)
          /\ line' = SubSeq(line, n + 1, Len(line))
          /\ need' = need - n
    /\ UNCHANGED <<hpc, cmd, unwritten, waiting, rsp, booted, heard, clean, failures>>

\* gecko_wait_message returns without a response: gecko_wait_response calls it
\* again, gecko_get_event looks for an event and for bytes to read first.
NextMessage ==
    /\ hpc' = IF waiting THEN "type" ELSE "idle"
    /\ got' = <<>>
    /\ need' = IF waiting THEN 1 ELSE 0

\* The header of a message has been stored by the time its data is read: an event
\* is in the ring then, and a response in gecko_rsp_msg.
Deliver ==
    /\ rsp' = IF waiting /\ got[1].looks = RSP THEN got ELSE rsp
    /\ booted' = (booted \/ (got[1].of = "boot" /\ got[1].i = 1))

ReadFails ==
    /\ Reading /\ need > 0
    /\ failures > 0
    /\ failures' = failures - 1
    /\ IF hpc = "data" THEN Deliver ELSE UNCHANGED <<rsp, booted>>
    /\ NextMessage
    /\ UNCHANGED <<cmd, unwritten, waiting, line, heard, clean>>

\* Mutant: any byte is taken for a type.
TypeUnchecked ==
    /\ hpc = "type" /\ need = 0
    /\ hpc' = "length" /\ need' = 1 /\ UNCHANGED got
    /\ UNCHANGED <<cmd, unwritten, waiting, line, rsp, booted, heard, clean, failures>>

\* A byte that does not look like a type is skipped.
ReadType ==
    /\ hpc = "type" /\ need = 0
    /\ IF got[1].looks \in {EVT, RSP}
       THEN hpc' = "length" /\ need' = 1 /\ UNCHANGED got
       ELSE NextMessage
    /\ UNCHANGED <<cmd, unwritten, waiting, line, rsp, booted, heard, clean, failures>>

\* Mutant: any length is taken.
LengthUnchecked ==
    /\ hpc = "length" /\ need = 0
    /\ hpc' = "data" /\ need' = got[2].looks /\ UNCHANGED got
    /\ UNCHANGED <<cmd, unwritten, waiting, line, rsp, booted, heard, clean, failures>>

\* A length that is too long is given up, its message is not.
ReadLength ==
    /\ hpc = "length" /\ need = 0
    /\ IF got[2].looks > MaxData
       THEN NextMessage
       ELSE hpc' = "data" /\ need' = got[2].looks /\ UNCHANGED got
    /\ UNCHANGED <<cmd, unwritten, waiting, line, rsp, booted, heard, clean, failures>>

\* Mutant: whatever is read first ends the command.
AnyIsResponse ==
    /\ hpc = "data" /\ need = 0
    /\ IF waiting
       THEN rsp' = got /\ hpc' = "returned" /\ got' = <<>> /\ need' = 0
       ELSE NextMessage /\ UNCHANGED rsp
    /\ booted' = (booted \/ (got[1].of = "boot" /\ got[1].i = 1))
    /\ UNCHANGED <<cmd, unwritten, waiting, line, heard, clean, failures>>

\* An event goes to the ring, or out of it to its handler; a response nobody
\* waits for is handed to handle_event, which knows no such event.
ReadMessage ==
    /\ hpc = "data" /\ need = 0
    /\ Deliver
    /\ IF waiting /\ got[1].looks = RSP
       THEN hpc' = "returned" /\ got' = <<>> /\ need' = 0
       ELSE NextMessage
    /\ UNCHANGED <<cmd, unwritten, waiting, line, heard, clean, failures>>

-----------------------------------------------------------------------------
(* The co-processor. *)

HeardHeader == Header(heard.c, heard.n)

\* It answers a command it knows, or boots.
Answer ==
    /\ heard # None
    /\ heard' = None
    /\ line' = line \o (IF heard.c = Reset THEN Message(EVT, "boot", <<0>>)
                        ELSE IF heard.c.reply THEN Response(heard.c) ELSE <<>>)
    /\ UNCHANGED <<hpc, cmd, unwritten, waiting, got, need, rsp, booted, clean, failures>>

SendEvent ==
    /\ booted
    /\ Len(line) <= MaxLine
    /\ \E data \in EventData : line' = line \o Message(EVT, "event", data)
    /\ UNCHANGED <<hpc, cmd, unwritten, waiting, got, need, rsp, booted, heard, clean,
                   failures>>

-----------------------------------------------------------------------------

\* main has opened the port, while the NCP was in the middle of a message, and
\* resets it.
Init ==
    /\ hpc = "write"
    /\ cmd = [c |-> Reset, n |-> 0]
    /\ unwritten = "all"
    /\ waiting = FALSE
    /\ line \in {[i \in DOMAIN tail |-> [looks |-> tail[i], of |-> "left", i |-> 0]] :
                    tail \in Tails}
    /\ got = <<>>
    /\ need = 0
    /\ rsp = <<>>
    /\ booted = FALSE
    /\ heard = None
    /\ clean = \A i \in DOMAIN line : line[i].looks \notin {EVT, RSP}
    /\ failures = MaxFailures

Host ==
    \/ Write \/ Written \/ WriteFails \/ Return
    \/ Poll \/ Read \/ ReadFails \/ ReadType \/ ReadLength \/ ReadMessage

Next ==
    \/ Host
    \/ \E c \in Commands : \E n \in Lengths(c) : Call(c, n)
    \/ Answer \/ SendEvent

Spec == Init /\ [][Next]_vars

\* A write of a tty ends, reads find what is there, and the NCP answers; the
\* handlers need send no command.
FairSpec ==
    /\ Spec
    /\ WF_vars(Write /\ unwritten' = "none")
    /\ WF_vars(/\ Written \/ Return \/ Poll \/ Read \/ ReadType \/ ReadLength \/ ReadMessage
               /\ failures' = failures)
    /\ WF_vars(Answer)

-----------------------------------------------------------------------------

\* Every variable has its type.
TypeOK ==
    /\ hpc \in {"idle", "write", "type", "length", "data", "returned"}
    /\ (cmd = None \/ (cmd.c \in Commands /\ cmd.n \in 0..255))
    /\ unwritten \in {"all", "some", "none"}
    /\ waiting \in BOOLEAN
    /\ need \in 0..MaxData
    /\ Len(got) <= 2 + MaxData
    /\ booted \in BOOLEAN
    /\ heard.c \in Commands \union {None.c}
    /\ clean \in BOOLEAN
    /\ failures \in 0..MaxFailures

\* What is taken for a message is one, from its first byte on: however the bytes
\* come, and whatever was left on the line when the port was opened, reads never
\* get out of step with the messages, unless one fails or what was left looks
\* like a type.
MessagesInStep ==
    (clean /\ failures = MaxFailures /\ hpc \in {"length", "data"}) =>
        \A i \in DOMAIN got : got[i].i = i /\ got[i].of = got[1].of

\* A command returns its own response, or that it is too long, whatever events
\* come meanwhile.
ResponseOfCommand ==
    (hpc = "returned" /\ cmd.c.reply /\ failures = MaxFailures /\ clean) =>
        rsp = IF TooLong(cmd.c, cmd.n) THEN TooLongResponse(cmd.c) ELSE Response(cmd.c)

\* The NCP hears the command that was called, with all of its parameters.
HeardAsCalled ==
    heard # None =>
        /\ MsgClass(HeardHeader) = heard.c.class
        /\ MsgIndex(HeardHeader) = heard.c.index
        /\ MsgLen(HeardHeader) = StoredBytes(heard.c, heard.n)

\* A command that is sent returns, unless a read or a write fails.
CommandsReturn == hpc = "write" ~> hpc = "returned" \/ failures < MaxFailures

\* The boot event is found behind what was left on the line.
BootIsSeen == clean ~> booted \/ failures < MaxFailures
==============================================================================
