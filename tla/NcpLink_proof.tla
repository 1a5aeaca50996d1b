---------------------------- MODULE NcpLink_proof ----------------------------
(***************************************************************************)
(* Proofs about NcpLink, for every maximal length of a message, whatever   *)
(* is left on the line, whatever data events have, and however many reads  *)
(* and writes fail.                                                        *)
(***************************************************************************)
EXTENDS NcpLink, GeckoCommands_proof, SequenceTheorems

-----------------------------------------------------------------------------
(* The inductive invariant. *)

\* A command that the inline functions let through, with the bytes of its array.
Sent(h) ==
    /\ h.c \in Commands
    /\ h.n \in Lengths(h.c)
    /\ ~TooLong(h.c, h.n)

HeardInv ==
    /\ hpc \in {"idle", "write", "type", "length", "data", "returned"}
    /\ cmd # None => cmd.c \in Commands /\ cmd.n \in 0..255
    /\ hpc = "write" => Sent(cmd)
    /\ heard # None => Sent(heard)

\* What the bytes of messages are.
Byte == [looks : Nat,
         of : {c.name : c \in Commands} \union {"left", "boot", "event"},
         i : Nat]

TypeInv ==
    /\ unwritten \in {"all", "some", "none"}
    /\ waiting \in BOOLEAN
    /\ line \in Seq(Byte)
    /\ got \in Seq(Byte)
    /\ need \in 0..MaxData
    /\ booted \in BOOLEAN
    /\ clean \in BOOLEAN
    /\ failures \in 0..MaxFailures

\* What uartRx has read of a message, and still needs, in each state of
\* gecko_wait_message.
ReadSoFar ==
    /\ hpc \in {"idle", "write", "returned"} => got = <<>>
    /\ hpc = "type" => Len(got) + need = 1
    /\ hpc = "length" => Len(got) >= 1 /\ Len(got) + need = 2
    /\ hpc = "data" => /\ Len(got) >= 2
                       /\ got[2].looks <= MaxData
                       /\ Len(got) + need = 2 + got[2].looks

LinkInv == HeardInv /\ TypeInv /\ ReadSoFar

-----------------------------------------------------------------------------
(* Commands. *)

LEMMA CommandTypes ==
  ASSUME NEW c \in Commands
  PROVE  c.fixed \in 0..255 /\ c.array \in BOOLEAN /\ c.reply \in BOOLEAN
         /\ c.stored = c.fixed
  BY CommandsFit DEF Fits

\* system_reset is a command.
LEMMA ResetIsCommand == Reset \in Commands /\ Reset.name = "system_reset"
  <1> DEFINE k == NoReply("system_reset", 1, 1, 1)
             r == [class |-> 1, name |-> k.name, index |-> k.index, fixed |-> k.fixed,
                   stored |-> k.stored, array |-> k.array, reply |-> k.reply]
  <1>1. r \in SystemCommands1
    BY Zenon DEF SystemCommands1, Class
  <1>2. r \in Commands
    BY <1>1, Zenon DEF Commands
  <1>3. r.name = "system_reset"
    BY DEF NoReply, Cmd
  <1> QED
    BY <1>2, <1>3, Zenon DEF Reset

LEMMA LengthsAreBytes == ASSUME NEW c PROVE \A n \in Lengths(c) : n \in 0..255
  BY DEF Lengths

LEMMA ResetIsSent == Sent([c |-> Reset, n |-> 0])
  <1>1. Reset.array \in BOOLEAN /\ Reset.fixed \in 0..255
    BY ResetIsCommand, CommandTypes
  <1>2. 0 \in Lengths(Reset)
    BY DEF Lengths
  <1>3. ~TooLong(Reset, 0)
    BY <1>1 DEF TooLong, MaxPayload
  <1> QED
    BY ResetIsCommand, <1>2, <1>3 DEF Sent

-----------------------------------------------------------------------------
(* Bytes and messages. *)

\* m is the message of this type with these data, sent for of.
Laid(m, type, of, data) ==
    /\ m \in Seq(Byte)
    /\ Len(m) = 2 + Len(data)
    /\ m[1].looks = type
    /\ m[2].looks = Len(data)
    /\ \A j \in 1..Len(data) : m[2 + j].looks = data[j]
    /\ \A j \in 1..Len(m) : m[j].of = of /\ m[j].i = j

LEMMA TypesAreNumbers == EVT \in Nat /\ RSP \in Nat
  BY DEF EVT, RSP

LEMMA MessageProperties ==
  ASSUME NEW type \in Nat, NEW data \in Seq(Nat),
         NEW of \in {c.name : c \in Commands} \union {"left", "boot", "event"}
  PROVE  Laid(Message(type, of, data), type, of, data)
  <1> DEFINE head == <<type, Len(data)>>
             bytes == head \o data
             m == Message(type, of, data)
             n == 2 + Len(data)
  <1>1. head \in Seq(Nat) /\ Len(head) = 2 /\ Len(data) \in Nat
    OBVIOUS
  <1>2. bytes \in Seq(Nat) /\ Len(bytes) = n /\ DOMAIN bytes = 1..n
    BY <1>1
  <1>3. bytes[1] = type /\ bytes[2] = Len(data)
    BY <1>1
  <1>4. \A j \in 1..Len(data) : bytes[2 + j] = data[j]
    BY <1>1
  <1>5. n \in Nat /\ n >= 2
    BY <1>1
  <1>6. \A j \in 1..n : bytes[j] \in Nat
    BY <1>2
  <1>7. m = [j \in 1..n |-> [looks |-> bytes[j], of |-> of, i |-> j]]
    BY <1>2 DEF Message
  <1> HIDE DEF bytes, n, m
  <1>8. \A j \in 1..n : [looks |-> bytes[j], of |-> of, i |-> j] \in Byte
    BY <1>5, <1>6 DEF Byte
  <1>9. m \in Seq(Byte) /\ Len(m) = n
    BY <1>5, <1>7, <1>8
  <1>10. \A j \in 1..n : m[j].looks = bytes[j] /\ m[j].of = of /\ m[j].i = j
    BY <1>7
  <1>11. 1 \in 1..n /\ 2 \in 1..n /\ \A j \in 1..Len(data) : 2 + j \in 1..n
    BY <1>1 DEF n
  <1> QED
    <2>1. Laid(m, type, of, data)
      BY <1>3, <1>4, <1>9, <1>10, <1>11 DEF n, Laid
    <2> QED
      BY <2>1 DEF m

\* What is to be read after n bytes of l have been read behind g.
Moved(g, l, n) == (g \o SubSeq(l, 1, n)) \o SubSeq(l, n + 1, Len(l))

\* What a read takes from the line follows what was read before it.
LEMMA ReadBytes ==
  ASSUME NEW T, NEW g \in Seq(T), NEW l \in Seq(T), NEW n \in 1..Len(l)
  PROVE  LET g2 == g \o SubSeq(l, 1, n)
             l2 == SubSeq(l, n + 1, Len(l))
         IN  /\ g2 \in Seq(T) /\ l2 \in Seq(T)
             /\ Len(g2) = Len(g) + n
             /\ \A i \in 1..Len(g) : g2[i] = g[i]
             /\ Moved(g, l, n) = g \o l
  <1> DEFINE a == SubSeq(l, 1, n)
             b == SubSeq(l, n + 1, Len(l))
  <1>1. Len(l) \in Nat /\ Len(g) \in Nat /\ n \in Nat
    OBVIOUS
  <1>2. a \in Seq(T) /\ Len(a) = n
    BY <1>1
  <1>3. b \in Seq(T)
    BY <1>1, SMTT(30)
  <1>4. a \o b = l
    <2>1. SubSeq(l, 1, Len(l)) = l
      BY SubSeqFull
    <2>2. 1 \in 1..Len(l) + 1 /\ n \in 1 - 1..Len(l) /\ Len(l) \in n..Len(l)
      BY <1>1
    <2> QED
      BY <2>1, <2>2, ConcatAdjacentSubSeq
  <1> HIDE DEF a, b
  <1>5. /\ g \o a \in Seq(T)
        /\ Len(g \o a) = Len(g) + n
        /\ \A i \in 1..Len(g) : (g \o a)[i] = g[i]
    BY <1>1, <1>2
  <1>6. (g \o a) \o b = g \o l
    <2>1. g \in Seq(T) /\ a \in Seq(T) /\ b \in Seq(T)
      BY <1>2, <1>3
    <2>2. (g \o a) \o b = g \o (a \o b)
      BY <2>1
    <2> QED
      BY <1>4, <2>2, Zenon
  <1>7. Moved(g, l, n) = g \o l
    BY <1>6, Zenon DEF Moved, a, b
  <1> QED
    BY <1>3, <1>5, <1>7, Zenon DEF a, b

-----------------------------------------------------------------------------
(* Types, and commands as they are called. *)

LEMMA InitLinkInv == Init => LinkInv
  <1> SUFFICES ASSUME Init PROVE LinkInv
    OBVIOUS
  <1>1. HeardInv
    <2>1. cmd.c \in Commands /\ cmd.n \in 0..255
      BY ResetIsCommand DEF Init
    <2> QED
      BY <2>1, ResetIsSent DEF Init, HeardInv
  <1>2. line \in Seq(Byte)
    <2>1. PICK tail \in Tails :
             line = [i \in DOMAIN tail |-> [looks |-> tail[i], of |-> "left", i |-> 0]]
      BY DEF Init
    <2>2. tail \in Seq(Nat)
      BY LinkAssumption
    <2>3. \A i \in 1..Len(tail) : [looks |-> tail[i], of |-> "left", i |-> 0] \in Byte
      BY <2>2 DEF Byte
    <2>4. DOMAIN tail = 1..Len(tail) /\ Len(tail) \in Nat
      BY <2>2
    <2> QED
      BY <2>1, <2>3, <2>4
  <1>3. TypeInv
    <2>1. clean \in BOOLEAN /\ booted \in BOOLEAN /\ waiting \in BOOLEAN
      BY Zenon DEF Init
    <2>2. need \in 0..MaxData /\ failures \in 0..MaxFailures
      BY LinkAssumption DEF Init
    <2>3. unwritten \in {"all", "some", "none"} /\ got \in Seq(Byte)
      BY DEF Init
    <2> QED
      BY <1>2, <2>1, <2>2, <2>3, Zenon DEF TypeInv
  <1>4. ReadSoFar
    BY DEF Init, ReadSoFar
  <1> QED
    BY <1>1, <1>3, <1>4 DEF LinkInv

LEMMA NextLinkInv == LinkInv /\ [Next]_vars => LinkInv'
  <1> SUFFICES ASSUME LinkInv, [Next]_vars PROVE LinkInv'
    OBVIOUS
  <1> USE LinkAssumption DEF LinkInv
  <1>0. <<>> \in Seq(Byte) /\ Len(<<>>) = 0 /\ {0, 1} \subseteq 0..MaxData
    OBVIOUS
  <1>1. ASSUME NEW c \in Commands, NEW n \in Lengths(c), Call(c, n) PROVE LinkInv'
    <2>1. n \in 0..255
      BY LengthsAreBytes
    <2>2. HeardInv'
      BY <1>1, <2>1 DEF Call, HeardInv, Sent
    <2>3. TypeInv'
      BY <1>1 DEF Call, TypeInv, rxVars
    <2>4. ReadSoFar'
      BY <1>1 DEF Call, ReadSoFar, rxVars
    <2> QED
      BY <2>2, <2>3, <2>4
  <1>2. CASE Write
    <2>1. HeardInv'
      BY <1>2 DEF Write, HeardInv
    <2>2. TypeInv'
      BY <1>2 DEF Write, TypeInv, rxVars
    <2>3. ReadSoFar'
      BY <1>2 DEF Write, ReadSoFar, rxVars
    <2> QED
      BY <2>1, <2>2, <2>3
  <1>3. CASE Written \/ WriteFails
    <2>1. hpc = "write" /\ AwaitResponse
      BY <1>3 DEF Written, WriteFails
    <2>2. hpc' \in {"type", "returned"} /\ cmd' = cmd /\ heard' = heard
      BY <1>3, <2>1 DEF Written, WriteFails, AwaitResponse
    <2>3. HeardInv'
      BY <2>2 DEF HeardInv
    <2>4. waiting' \in BOOLEAN
      <3>1. cmd.c.reply \in BOOLEAN
        BY <2>1, CommandTypes DEF HeardInv, Sent
      <3> QED
        BY <2>1, <3>1 DEF AwaitResponse
    <2>5. failures' \in 0..MaxFailures
      BY <1>3 DEF Written, WriteFails, TypeInv
    <2>6. TypeInv'
      BY <1>0, <1>3, <2>1, <2>4, <2>5 DEF Written, WriteFails, AwaitResponse, TypeInv
    <2>7. ReadSoFar'
      BY <1>0, <2>1 DEF AwaitResponse, ReadSoFar
    <2> QED
      BY <2>3, <2>6, <2>7
  <1>4. CASE Return
    <2>1. HeardInv'
      BY <1>4 DEF Return, HeardInv
    <2>2. TypeInv' /\ ReadSoFar'
      BY <1>0, <1>4 DEF Return, TypeInv, ReadSoFar
    <2> QED
      BY <2>1, <2>2
  <1>5. CASE Poll
    <2>1. HeardInv'
      BY <1>5 DEF Poll, HeardInv
    <2>2. failures' \in 0..MaxFailures
      BY <1>5 DEF Poll, TypeInv
    <2>3. TypeInv' /\ ReadSoFar'
      BY <1>0, <1>5, <2>2 DEF Poll, TypeInv, ReadSoFar
    <2> QED
      BY <2>1, <2>3
  <1>6. CASE Read
    <2>1. PICK n \in 1..need :
             /\ n <= Len(line)
             /\ got' = got \o SubSeq(line, 1, n)
             /\ line' = SubSeq(line, n + 1, Len(line))
             /\ need' = need - n
      BY <1>6 DEF Read
    <2>2. Len(line) \in Nat /\ Len(got) \in Nat /\ n \in 1..Len(line)
      BY <2>1 DEF TypeInv
    <2>3. /\ got' \in Seq(Byte) /\ line' \in Seq(Byte)
          /\ Len(got') = Len(got) + n
          /\ \A i \in 1..Len(got) : got'[i] = got[i]
      BY <2>1, <2>2, ReadBytes DEF TypeInv
    <2>4. need' \in 0..MaxData /\ Len(got') + need' = Len(got) + need
      BY <2>1, <2>2, <2>3 DEF TypeInv
    <2>5. HeardInv'
      BY <1>6 DEF Read, HeardInv
    <2>6. TypeInv'
      BY <1>6, <2>3, <2>4 DEF Read, TypeInv
    <2>7. hpc' = hpc /\ hpc \in {"type", "length", "data"}
      BY <1>6 DEF Read, Reading
    <2>8. ReadSoFar'
      BY <2>2, <2>3, <2>4, <2>7 DEF ReadSoFar
    <2> QED
      BY <2>5, <2>6, <2>8
  <1>7. ASSUME NextMessage, UNCHANGED <<cmd, unwritten, waiting, line, heard, clean>>,
               booted' \in BOOLEAN, failures' \in 0..MaxFailures
        PROVE  LinkInv'
    <2>1. hpc' \in {"type", "idle"} /\ (hpc' = "type" => need' = 1)
          /\ got' = <<>> /\ need' \in {0, 1}
      BY <1>7 DEF NextMessage
    <2>2. HeardInv'
      BY <1>7, <2>1 DEF HeardInv
    <2>3. TypeInv'
      BY <1>0, <1>7, <2>1 DEF TypeInv
    <2>4. ReadSoFar'
      <3>1. hpc' = "type" => Len(got') + need' = 1
        <4>1. 0 + 1 = 1
          OBVIOUS
        <4> QED
          BY <1>0, <2>1, <4>1, Zenon
      <3> QED
        BY <2>1, <3>1 DEF ReadSoFar
    <2> QED
      BY <2>2, <2>3, <2>4
  <1>8. Deliver => booted' \in BOOLEAN
    BY DEF Deliver, TypeInv
  <1>9. CASE ReadFails
    <2>1. failures' \in 0..MaxFailures /\ booted' \in BOOLEAN
      BY <1>8, <1>9 DEF ReadFails, TypeInv
    <2> QED
      BY <1>7, <1>9, <2>1 DEF ReadFails
  <1>10. CASE ReadType
    <2>1. CASE NextMessage
      <3>1. booted' \in BOOLEAN /\ failures' \in 0..MaxFailures
        BY <1>10 DEF ReadType, TypeInv
      <3> QED
        BY <1>7, <1>10, <2>1, <3>1 DEF ReadType
    <2>2. CASE hpc' = "length" /\ need' = 1 /\ UNCHANGED got
      <3>1. HeardInv'
        BY <1>10, <2>2 DEF ReadType, HeardInv
      <3>2. TypeInv'
        BY <1>0, <1>10, <2>2 DEF ReadType, TypeInv
      <3>3. Len(got) = 1
        BY <1>10 DEF ReadType, ReadSoFar, TypeInv
      <3>4. ReadSoFar'
        BY <2>2, <3>3 DEF ReadSoFar
      <3> QED
        BY <3>1, <3>2, <3>4
    <2> QED
      BY <1>10, <2>1, <2>2 DEF ReadType
  <1>11. CASE ReadLength
    <2>1. CASE NextMessage
      <3>1. booted' \in BOOLEAN /\ failures' \in 0..MaxFailures
        BY <1>11 DEF ReadLength, TypeInv
      <3> QED
        BY <1>7, <1>11, <2>1, <3>1 DEF ReadLength
    <2>2. CASE ~(got[2].looks > MaxData) /\ hpc' = "data" /\ need' = got[2].looks
               /\ UNCHANGED got
      <3>1. HeardInv'
        BY <1>11, <2>2 DEF ReadLength, HeardInv
      <3>2. Len(got) = 2
        BY <1>11 DEF ReadLength, ReadSoFar, TypeInv
      <3>3. got[2].looks \in 0..MaxData
        <4>1. got \in Seq(Byte) /\ 2 \in 1..Len(got)
          BY <3>2 DEF TypeInv
        <4>2. got[2] \in Byte
          BY <4>1
        <4> QED
          BY <2>2, <4>2 DEF Byte
      <3>4. TypeInv'
        BY <1>11, <2>2, <3>3 DEF ReadLength, TypeInv
      <3>5. ReadSoFar'
        BY <2>2, <3>2, <3>3 DEF ReadSoFar
      <3> QED
        BY <3>1, <3>4, <3>5
    <2> QED
      BY <1>11, <2>1, <2>2 DEF ReadLength
  <1>12. CASE ReadMessage
    <2>1. failures' \in 0..MaxFailures /\ booted' \in BOOLEAN
      BY <1>8, <1>12 DEF ReadMessage, TypeInv
    <2>2. CASE NextMessage
      BY <1>7, <1>12, <2>1, <2>2 DEF ReadMessage
    <2>3. CASE hpc' = "returned" /\ got' = <<>> /\ need' = 0
      <3>1. HeardInv'
        BY <1>12, <2>3 DEF ReadMessage, HeardInv
      <3>2. TypeInv'
        BY <1>0, <1>12, <2>1, <2>3 DEF ReadMessage, TypeInv
      <3>3. ReadSoFar'
        BY <2>3 DEF ReadSoFar
      <3> QED
        BY <3>1, <3>2, <3>3
    <2> QED
      BY <1>12, <2>2, <2>3 DEF ReadMessage
  <1>13. CASE Answer
    <2>1. line' \in Seq(Byte)
      <3>1. heard.c \in Commands
        BY <1>13 DEF Answer, HeardInv, Sent
      <3>2. EVT \in Nat /\ RSP \in Nat /\ << 0 >> \in Seq(Nat)
        BY DEF EVT, RSP
      <3>3. Message(EVT, "boot", << 0 >>) \in Seq(Byte) /\ Response(heard.c) \in Seq(Byte)
        <4>1. /\ Laid(Message(EVT, "boot", << 0 >>), EVT, "boot", << 0 >>)
              /\ Laid(Message(RSP, heard.c.name, << 0 >>), RSP, heard.c.name, << 0 >>)
          BY <3>1, <3>2, MessageProperties
        <4> QED
          BY <4>1 DEF Laid, Response
      <3> QED
        BY <1>0, <1>13, <3>3 DEF Answer, TypeInv
    <2>2. HeardInv'
      BY <1>13 DEF Answer, HeardInv
    <2>3. TypeInv' /\ ReadSoFar'
      BY <1>13, <2>1 DEF Answer, TypeInv, ReadSoFar
    <2> QED
      BY <2>2, <2>3
  <1>14. CASE SendEvent
    <2>1. PICK data \in EventData : line' = line \o Message(EVT, "event", data)
      BY <1>14 DEF SendEvent
    <2>2. line' \in Seq(Byte)
      <3>1. Message(EVT, "event", data) \in Seq(Byte)
        BY MessageProperties, TypesAreNumbers DEF Laid
      <3> QED
        BY <2>1, <3>1 DEF TypeInv
    <2>3. HeardInv'
      BY <1>14 DEF SendEvent, HeardInv
    <2>4. TypeInv' /\ ReadSoFar'
      BY <1>14, <2>2 DEF SendEvent, TypeInv, ReadSoFar
    <2> QED
      BY <2>3, <2>4
  <1>15. CASE UNCHANGED vars
    BY <1>15 DEF vars, rxVars, HeardInv, TypeInv, ReadSoFar
  <1> QED
    BY <1>1, <1>2, <1>3, <1>4, <1>5, <1>6, <1>9, <1>10, <1>11, <1>12, <1>13, <1>14, <1>15
       DEF Next, Host

\* LinkInv holds in every state of the line and its two ends.
THEOREM LinkInvariance == Spec => []LinkInv
  BY InitLinkInv, NextLinkInv, PTL DEF Spec

\* Every variable keeps its type, whatever fails: gecko_wait_message never reads more
\* than a header and the longest payload of a message.
THEOREM TypeCorrect == Spec => []TypeOK
  <1>1. LinkInv => TypeOK
    <2> SUFFICES ASSUME LinkInv PROVE TypeOK
      OBVIOUS
    <2> USE LinkAssumption DEF LinkInv
    <2>1. Len(got) <= 2 + MaxData
      <3>1. Len(got) \in Nat /\ need \in Nat
        BY DEF TypeInv
      <3>2. CASE hpc = "data"
        <4>1. got[2] \in Byte
          BY <3>1, <3>2 DEF ReadSoFar, TypeInv
        <4>2. got[2].looks \in Nat
          BY <4>1 DEF Byte
        <4> QED
          BY <3>1, <3>2, <4>2 DEF ReadSoFar
      <3>3. CASE hpc # "data"
        BY <3>1, <3>3 DEF ReadSoFar, HeardInv
      <3> QED
        BY <3>2, <3>3
    <2>2. heard.c \in Commands \union {None.c}
      BY DEF HeardInv, Sent
    <2>3. cmd = None \/ (cmd.c \in Commands /\ cmd.n \in 0..255)
      BY DEF HeardInv
    <2> QED
      BY <2>1, <2>2, <2>3 DEF TypeOK, TypeInv, HeardInv
  <1> QED
    BY <1>1, LinkInvariance, PTL

\* The co-processor reads the class, the index and all parameters of the command that
\* was called, for every command of host_gecko.h and every length of its array with
\* which it is not exactly MaxPayload bytes long (LongestIsMisread is about that one).
THEOREM CommandsHeard ==
  ASSUME MaxPayload \notin Totals
  PROVE  Spec => []HeardAsCalled
  <1>1. LinkInv => HeardAsCalled
    <2> SUFFICES ASSUME LinkInv, heard # None PROVE
                    /\ MsgClass(HeardHeader) = heard.c.class
                    /\ MsgIndex(HeardHeader) = heard.c.index
                    /\ MsgLen(HeardHeader) = StoredBytes(heard.c, heard.n)
      BY DEF HeardAsCalled
    <2> DEFINE c == heard.c
               n == heard.n
    <2>1. c \in Commands /\ n \in Lengths(c) /\ ~TooLong(c, n)
      BY DEF LinkInv, HeardInv, Sent
    <2> HIDE DEF c, n
    <2>2. c.fixed \in 0..255 /\ c.array \in BOOLEAN /\ c.stored = c.fixed
      BY <2>1, CommandTypes
    <2>3. n \in 0..255
      BY <2>1, LengthsAreBytes
    <2>4. c.array \/ n = 0
      BY <2>1 DEF Lengths
    <2>5. c.fixed + n # MaxPayload
      <3>1. n = 0 \/ c.fixed + n \in Totals
        BY <2>1 DEF Lengths
      <3>2. CASE n = 0
        BY <2>2, <3>2 DEF MaxPayload
      <3> QED
        BY <3>1, <3>2
    <2>6. /\ MsgLen(Header(c, n)) = c.fixed + n
          /\ MsgClass(Header(c, n)) = c.class
          /\ MsgIndex(Header(c, n)) = c.index
      BY <2>1, <2>3, <2>4, <2>5, HeadersAgree, Zenon
    <2>7. StoredBytes(c, n) = c.fixed + n
      BY <2>2 DEF StoredBytes
    <2> QED
      BY <2>6, <2>7, Zenon DEF HeardHeader, c, n
  <1> QED
    BY <1>1, LinkInvariance, PTL

-----------------------------------------------------------------------------
(* Messages and what is taken for one. *)

\* At p no message is in the middle.
Starts(s, p) == p <= Len(s) => s[p].i \in {0, 1}

\* At p there is a message, with all of its bytes.
Whole(s, p) ==
    /\ s[p].looks \in {EVT, RSP}
    /\ p + 1 <= Len(s)
    /\ s[p + 1].looks <= MaxData
    /\ p + 1 + s[p + 1].looks <= Len(s)
    /\ \A j \in p..p + 1 + s[p + 1].looks : s[j].i = j - p + 1 /\ s[j].of = s[p].of

\* Whole messages, behind bytes that do not look like a type.
InStep(s) ==
    /\ Starts(s, 1)
    /\ \A p \in 1..Len(s) :
          /\ s[p].i = 0 => s[p].looks \notin {EVT, RSP} /\ Starts(s, p + 1)
          /\ s[p].i = 1 => Whole(s, p) /\ Starts(s, p + 2 + s[p + 1].looks)

\* The bytes that have been sent to the host, and not been used by it.
Stream == got \o line

\* No read or write has failed, and what was left of a message does not look like one.
Good == clean /\ failures = MaxFailures

StepInv ==
    Good => /\ InStep(Stream)
            /\ hpc \in {"length", "data"} => got[1].i = 1

\* All of s but its first k bytes.
Suffix(s, k, t) ==
    /\ k \in 0..Len(s)
    /\ t \in Seq(Byte)
    /\ Len(t) = Len(s) - k
    /\ \A p \in 1..Len(t) : t[p] = s[p + k]

LEMMA ByteTypes ==
  ASSUME NEW s \in Seq(Byte), NEW p \in 1..Len(s)
  PROVE  s[p] \in Byte /\ s[p].looks \in Nat /\ s[p].i \in Nat
  <1>1. s[p] \in Byte
    OBVIOUS
  <1> QED
    BY <1>1 DEF Byte

LEMMA WholeInSuffix ==
  ASSUME NEW s \in Seq(Byte), NEW k, NEW t, Suffix(s, k, t),
         NEW p \in 1..Len(t), Whole(s, p + k)
  PROVE  Whole(t, p) /\ t[p + 1] = s[p + k + 1]
  <1>1. k \in Nat /\ p \in Nat /\ Len(s) \in Nat /\ Len(t) \in Nat /\ Len(t) = Len(s) - k
    BY DEF Suffix
  <1>2. p + k + 1 \in 1..Len(s) /\ p + 1 \in 1..Len(t)
    BY <1>1 DEF Whole
  <1>3. t[p] = s[p + k] /\ t[p + 1] = s[p + k + 1]
    BY <1>1, <1>2 DEF Suffix
  <1> DEFINE L == s[p + k + 1].looks
  <1>4. L \in Nat
    BY <1>2, ByteTypes
  <1> HIDE DEF L
  <1>5. p + k + 1 + L <= Len(s)
    BY DEF Whole, L
  <1>6. ASSUME NEW j \in p..p + 1 + L
        PROVE  t[j].i = j - p + 1 /\ t[j].of = t[p].of
    <2>1. j \in 1..Len(t) /\ j + k \in p + k..p + k + 1 + L
      BY <1>1, <1>4, <1>5
    <2>2. t[j] = s[j + k]
      BY <2>1 DEF Suffix
    <2>3. s[j + k].i = (j + k) - (p + k) + 1 /\ s[j + k].of = s[p + k].of
      BY <2>1 DEF Whole, L
    <2>4. (j + k) - (p + k) + 1 = j - p + 1
      BY <1>1, <2>1
    <2> QED
      BY <1>3, <2>2, <2>3, <2>4, Zenon
  <1>7. p + 1 + L <= Len(t)
    BY <1>1, <1>4, <1>5
  <1>8. t[p].looks \in {EVT, RSP} /\ L <= MaxData
    BY <1>3 DEF Whole, L
  <1>9. t[p + 1].looks = L
    BY <1>3, Zenon DEF L
  <1>10. p + 1 <= Len(t)
    BY <1>2
  <1> QED
    BY <1>3, <1>6, <1>7, <1>8, <1>9, <1>10, Zenon DEF Whole

\* What is behind a message, or a byte of none, is in step if all is.
LEMMA InStepSuffix ==
  ASSUME NEW s \in Seq(Byte), NEW k, NEW t, Suffix(s, k, t),
         InStep(s), Starts(s, k + 1)
  PROVE  InStep(t)
  <1>1. k \in Nat /\ Len(s) \in Nat /\ Len(t) \in Nat /\ Len(t) = Len(s) - k
    BY DEF Suffix
  <1>2. ASSUME NEW p \in Nat \ {0}, Starts(s, p + k) PROVE Starts(t, p)
    <2> SUFFICES ASSUME p <= Len(t) PROVE t[p].i \in {0, 1}
      BY DEF Starts
    <2>1. t[p] = s[p + k]
      BY <1>1 DEF Suffix
    <2> QED
      BY <1>1, <1>2, <2>1 DEF Starts
  <1>3. Starts(t, 1)
    <2>1. k + 1 = 1 + k
      BY <1>1
    <2> QED
      BY <1>2, <2>1
  <1>4. ASSUME NEW p \in 1..Len(t)
        PROVE  /\ t[p].i = 0 => t[p].looks \notin {EVT, RSP} /\ Starts(t, p + 1)
               /\ t[p].i = 1 => Whole(t, p) /\ Starts(t, p + 2 + t[p + 1].looks)
    <2>1. p + k \in 1..Len(s) /\ t[p] = s[p + k]
      BY <1>1 DEF Suffix
    <2>2. CASE t[p].i = 0
      <3>1. t[p].looks \notin {EVT, RSP} /\ Starts(s, p + k + 1)
        BY <2>1, <2>2 DEF InStep
      <3>2. p + k + 1 = (p + 1) + k /\ p + 1 \in Nat \ {0}
        BY <1>1
      <3>3. Starts(t, p + 1)
        BY <1>2, <3>1, <3>2
      <3> QED
        BY <2>2, <3>1, <3>3
    <2>3. CASE t[p].i = 1
      <3>1. Whole(s, p + k) /\ Starts(s, p + k + 2 + s[p + k + 1].looks)
        BY <2>1, <2>3 DEF InStep
      <3>2. Whole(t, p) /\ t[p + 1] = s[p + k + 1]
        BY <3>1, WholeInSuffix
      <3>3. t[p + 1].looks \in Nat
        <4>1. p + k + 1 \in 1..Len(s)
          BY <1>1, <3>1 DEF Whole
        <4> QED
          BY <3>2, <4>1, ByteTypes
      <3> DEFINE q == p + 2 + t[p + 1].looks
      <3>4. q \in Nat \ {0} /\ p + k + 2 + t[p + 1].looks = q + k
        BY <1>1, <3>3, SMTT(30)
      <3>5. Starts(s, q + k)
        BY <3>1, <3>2, <3>4
      <3> HIDE DEF q
      <3>6. Starts(t, q)
        BY <1>2, <3>4, <3>5
      <3> QED
        BY <2>3, <3>2, <3>6 DEF q
    <2> QED
      BY <2>2, <2>3
  <1> QED
    BY <1>3, <1>4 DEF InStep

\* A message that is sent is behind whole messages.
LEMMA InStepAppend ==
  ASSUME NEW s \in Seq(Byte), InStep(s),
         NEW type \in {EVT, RSP}, NEW data \in Seq(Nat), Len(data) <= MaxData,
         NEW of \in {c.name : c \in Commands} \union {"left", "boot", "event"}
  PROVE  LET t == s \o Message(type, of, data)
         IN  /\ t \in Seq(Byte) /\ InStep(t)
             /\ Len(t) = Len(s) + 2 + Len(data)
             /\ \A p \in 1..Len(s) : t[p] = s[p]
             /\ \A j \in 1..2 + Len(data) : t[Len(s) + j] = Message(type, of, data)[j]
  <1> DEFINE m == Message(type, of, data)
             t == s \o m
             n == Len(s)
             L == Len(data)
  <1>1. /\ m \in Seq(Byte) /\ Len(m) = 2 + L
        /\ m[1].looks = type /\ m[2].looks = L
        /\ \A j \in 1..Len(m) : m[j].of = of /\ m[j].i = j
    <2>1. Laid(m, type, of, data)
      BY MessageProperties, TypesAreNumbers
    <2> HIDE DEF m
    <2> QED
      BY <2>1 DEF Laid
  <1> HIDE DEF m
  <1>2. n \in Nat /\ L \in Nat /\ L <= MaxData
    OBVIOUS
  <1>3. /\ t \in Seq(Byte) /\ Len(t) = n + 2 + L
        /\ \A p \in 1..n : t[p] = s[p]
        /\ \A j \in 1..2 + L : t[n + j] = m[j]
    <2>1. /\ t \in Seq(Byte) /\ Len(t) = n + Len(m)
          /\ \A i \in 1..n + Len(m) : t[i] = IF i <= n THEN s[i] ELSE m[i - n]
      <3>1. s \in Seq(Byte) /\ m \in Seq(Byte)
        BY <1>1
      <3> QED
        BY <3>1
    <2> HIDE DEF t, n, L
    <2>2. Len(t) = n + 2 + L
      BY <1>1, <1>2, <2>1
    <2>3. ASSUME NEW p \in 1..n PROVE t[p] = s[p]
      <3>1. p \in 1..n + Len(m) /\ p <= n
        BY <1>1, <1>2
      <3> QED
        BY <2>1, <3>1
    <2>4. ASSUME NEW j \in 1..2 + L PROVE t[n + j] = m[j]
      <3>1. n + j \in 1..n + Len(m) /\ ~(n + j <= n) /\ (n + j) - n = j
        BY <1>1, <1>2
      <3> QED
        BY <2>1, <3>1
    <2> QED
      BY <2>1, <2>2, <2>3, <2>4
  <1> HIDE DEF t, n, L
  <1>4. ASSUME NEW p \in Nat \ {0}, p <= n + 1, p <= n => s[p].i \in {0, 1}
        PROVE  Starts(t, p)
    <2>1. CASE p <= n
      <3>1. t[p] = s[p]
        BY <1>3, <2>1, <1>2
      <3> QED
        BY <1>4, <2>1, <3>1 DEF Starts
    <2>2. CASE p = n + 1
      <3>1. t[p] = m[1] /\ m[1].i = 1
        BY <1>1, <1>2, <1>3, <2>2
      <3> QED
        BY <3>1 DEF Starts
    <2> QED
      BY <1>2, <1>4, <2>1, <2>2
  <1>5. Starts(t, 1)
    <2>1. 1 <= n => s[1].i \in {0, 1}
      BY DEF InStep, Starts, n
    <2> QED
      BY <1>2, <1>4, <2>1
  <1>6. ASSUME NEW p \in 1..n
        PROVE  /\ t[p].i = 0 => t[p].looks \notin {EVT, RSP} /\ Starts(t, p + 1)
               /\ t[p].i = 1 => Whole(t, p) /\ Starts(t, p + 2 + t[p + 1].looks)
    <2>1. t[p] = s[p]
      BY <1>3
    <2>2. CASE s[p].i = 0
      <3>1. s[p].looks \notin {EVT, RSP} /\ (p + 1 <= n => s[p + 1].i \in {0, 1})
        BY <2>2 DEF InStep, Starts, n
      <3>2. p + 1 \in Nat \ {0} /\ p + 1 <= n + 1
        BY <1>2
      <3>3. Starts(t, p + 1)
        BY <1>4, <3>1, <3>2
      <3> QED
        BY <2>1, <2>2, <3>1, <3>3
    <2>3. CASE s[p].i = 1
      <3>1. Whole(s, p) /\ Starts(s, p + 2 + s[p + 1].looks)
        BY <2>3 DEF InStep, n
      <3>2. p + 1 \in 1..n
        BY <1>2, <3>1 DEF Whole, n
      <3> DEFINE l == s[p + 1].looks
      <3>3. l \in Nat /\ t[p + 1] = s[p + 1]
        BY <1>3, <3>2, ByteTypes DEF n
      <3> HIDE DEF l
      <3>4. p + 1 + l <= n
        BY <3>1 DEF Whole, n, l
      <3>5. \A j \in p..p + 1 + l : s[j].i = j - p + 1 /\ s[j].of = s[p].of /\ t[j] = s[j]
        <4>1. \A j \in p..p + 1 + l : j \in 1..n
          BY <1>2, <3>3, <3>4
        <4> QED
          BY <1>3, <3>1, <4>1 DEF Whole, l
      <3>6. p + 1 <= Len(t) /\ p + 1 + l <= Len(t)
        BY <1>2, <1>3, <3>2, <3>3, <3>4
      <3>7. t[p + 1].looks = l /\ l <= MaxData /\ t[p].looks \in {EVT, RSP}
        BY <2>1, <3>1, <3>3 DEF Whole, l
      <3>8. Whole(t, p)
        BY <2>1, <3>5, <3>6, <3>7, Zenon DEF Whole
      <3>9. p + 2 + l \in Nat \ {0} /\ p + 2 + l <= n + 1
        BY <1>2, <3>3, <3>4
      <3>10. p + 2 + l <= n => s[p + 2 + l].i \in {0, 1}
        BY <3>1 DEF Starts, n, l
      <3>11. Starts(t, p + 2 + l)
        BY <1>4, <3>9, <3>10
      <3> QED
        BY <2>1, <2>3, <3>7, <3>8, <3>11
    <2> QED
      BY <2>1, <2>2, <2>3
  <1>7. /\ n + 1 \in 1..Len(t) /\ n + 2 \in 1..Len(t)
        /\ t[n + 1] = m[1] /\ t[n + 2] = m[2]
    BY <1>2, <1>3
  <1>8. Whole(t, n + 1) /\ Starts(t, n + 1 + 2 + t[n + 2].looks)
    <2>1. t[n + 1].looks = type /\ t[n + 2].looks = L /\ t[n + 1].of = of
      BY <1>1, <1>2, <1>7
    <2>2. ASSUME NEW j \in n + 1..n + 1 + 1 + L
          PROVE  t[j].i = j - (n + 1) + 1 /\ t[j].of = of
      <3> DEFINE d == j - n
      <3>1. d \in 1..2 + L /\ j = n + d /\ j - (n + 1) + 1 = d
        <4>1. n \in Nat /\ L \in Nat /\ j \in Int /\ n + 1 <= j /\ j <= n + 1 + 1 + L
          BY <1>2
        <4> QED
          BY <4>1
      <3> HIDE DEF d
      <3>2. t[j] = m[d]
        BY <1>3, <3>1
      <3>3. m[d].of = of /\ m[d].i = d
        BY <1>1, <3>1
      <3> QED
        BY <3>1, <3>2, <3>3
    <2>3. /\ n + 1 + 1 = n + 2 /\ n + 1 + 1 <= Len(t) /\ n + 1 + 1 + L <= Len(t)
          /\ ~(n + 1 + 2 + L <= Len(t))
      BY <1>2, <1>3
    <2>4. L <= MaxData
      BY <1>2
    <2>5. type \in {EVT, RSP}
      OBVIOUS
    <2>6. Whole(t, n + 1)
      BY <2>1, <2>2, <2>3, <2>4, <2>5, Zenon DEF Whole
    <2> QED
      BY <2>1, <2>3, <2>6, Zenon DEF Starts
  <1>9. ASSUME NEW p \in n + 1..Len(t)
        PROVE  /\ t[p].i = 0 => t[p].looks \notin {EVT, RSP} /\ Starts(t, p + 1)
               /\ t[p].i = 1 => Whole(t, p) /\ Starts(t, p + 2 + t[p + 1].looks)
    <2> DEFINE d == p - n
    <2>1. d \in 1..2 + L /\ p = n + d
      BY <1>2, <1>3
    <2>2. t[p].i = d
      BY <1>1, <1>3, <2>1
    <2> HIDE DEF d
    <2>3. CASE d # 1
      BY <2>1, <2>2, <2>3
    <2>4. CASE d = 1
      <3>1. p = n + 1 /\ p + 1 = n + 2 /\ t[p].i # 0
        BY <1>2, <2>1, <2>2, <2>4
      <3> QED
        BY <1>8, <3>1, Zenon
    <2> QED
      BY <2>3, <2>4
  <1>10. InStep(t)
    <2>1. \A p \in 1..Len(t) : p \in 1..n \/ p \in n + 1..Len(t)
      BY <1>2, <1>3
    <2> QED
      BY <1>5, <1>6, <1>9, <2>1, Zenon DEF InStep
  <1> QED
    BY <1>3, <1>10, Zenon DEF t, m, n, L

-----------------------------------------------------------------------------
(* How actions change what is to be read. *)

LEMMA StreamBytes ==
  ASSUME TypeInv
  PROVE  /\ Stream \in Seq(Byte)
         /\ Suffix(Stream, Len(got), line)
         /\ Len(got) \in Nat
         /\ \A i \in 1..Len(got) : Stream[i] = got[i] /\ i <= Len(Stream)
  <1>1. got \in Seq(Byte) /\ line \in Seq(Byte)
    BY DEF TypeInv
  <1>2. Len(got) \in Nat /\ Len(line) \in Nat
    BY <1>1
  <1>3. /\ Stream \in Seq(Byte)
        /\ Len(Stream) = Len(got) + Len(line)
        /\ \A i \in 1..Len(got) + Len(line) :
              Stream[i] = IF i <= Len(got) THEN got[i] ELSE line[i - Len(got)]
    BY <1>1 DEF Stream
  <1>4. \A i \in 1..Len(got) : Stream[i] = got[i] /\ i <= Len(Stream)
    BY <1>2, <1>3
  <1>5. ASSUME NEW p \in 1..Len(line) PROVE line[p] = Stream[p + Len(got)]
    <2>1. /\ p + Len(got) \in 1..Len(got) + Len(line)
          /\ ~(p + Len(got) <= Len(got))
          /\ (p + Len(got)) - Len(got) = p
      BY <1>2
    <2> QED
      BY <1>3, <2>1
  <1>6. Len(got) \in 0..Len(Stream) /\ Len(line) = Len(Stream) - Len(got)
    BY <1>2, <1>3
  <1> QED
    BY <1>1, <1>2, <1>3, <1>4, <1>5, <1>6 DEF Suffix

\* Actions that only write, or read without using up a message.
LEMMA StreamKept ==
  ASSUME LinkInv,
         \/ \E c \in Commands : \E n \in Lengths(c) : Call(c, n)
         \/ Write \/ Written \/ WriteFails \/ Return \/ Poll \/ Read
         \/ UNCHANGED rxVars
         \/ UNCHANGED <<got, line>>
  PROVE  Stream' = Stream
  <1>1. CASE UNCHANGED <<got, line>>
    BY <1>1 DEF Stream
  <1>2. CASE (\E c \in Commands : \E n \in Lengths(c) : Call(c, n)) \/ Write
             \/ UNCHANGED rxVars
    BY <1>1, <1>2 DEF Call, Write, rxVars
  <1>3. CASE Written \/ WriteFails \/ Return \/ Poll
    <2>1. got = <<>>
      BY <1>3 DEF Written, WriteFails, Return, Poll, LinkInv, ReadSoFar
    <2>2. got' = <<>> /\ line' = line
      BY <1>3 DEF Written, WriteFails, Return, Poll, AwaitResponse
    <2> QED
      BY <1>1, <2>1, <2>2
  <1>4. CASE Read
    <2>1. PICK n \in 1..need :
             /\ n <= Len(line)
             /\ got' = got \o SubSeq(line, 1, n)
             /\ line' = SubSeq(line, n + 1, Len(line))
      BY <1>4 DEF Read
    <2>2. n \in 1..Len(line) /\ got \in Seq(Byte) /\ line \in Seq(Byte)
      BY <2>1, LinkAssumption DEF LinkInv, TypeInv
    <2>3. Moved(got, line, n) = got \o line
      BY <2>2, ReadBytes
    <2> QED
      BY <2>1, <2>3, Zenon DEF Stream, Moved
  <1> QED
    BY <1>1, <1>2, <1>3, <1>4

\* gecko_wait_message forgets what it has read.
LEMMA StreamCut ==
  ASSUME LinkInv, got' = <<>>, line' = line
  PROVE  Suffix(Stream, Len(got), Stream') /\ Stream' \in Seq(Byte)
  <1>1. line \in Seq(Byte)
    BY DEF LinkInv, TypeInv
  <1>2. Stream' = line
    <2>1. Stream' = <<>> \o line
      BY Zenon DEF Stream
    <2> QED
      BY <1>1, <2>1, ConcatEmptySeq
  <1> QED
    BY <1>1, <1>2, StreamBytes, Zenon DEF LinkInv

\* The co-processor sends a message.
LEMMA StreamLonger ==
  ASSUME LinkInv, NEW m \in Seq(Byte), got' = got, line' = line \o m
  PROVE  Stream' = Stream \o m
  <1>1. got \in Seq(Byte) /\ line \in Seq(Byte) /\ m \in Seq(Byte)
    BY DEF LinkInv, TypeInv
  <1>2. (got \o line) \o m = got \o (line \o m)
    BY <1>1, SMTT(30)
  <1> QED
    BY <1>2, Zenon DEF Stream

\* As long as all is in step, a type is the first byte of a message, a length is not
\* too long, and the data read last is that of a message, up to its end.
LEMMA Cut ==
  ASSUME LinkInv, StepInv, Good, need = 0
  PROVE  /\ hpc = "type" =>
              /\ Len(got) = 1
              /\ got[1] = Stream[1]
              /\ got[1].looks \in {EVT, RSP} => got[1].i = 1
              /\ got[1].looks \notin {EVT, RSP} =>
                    got[1].i = 0 /\ Starts(Stream, Len(got) + 1)
         /\ hpc = "length" => ~(got[2].looks > MaxData)
         /\ hpc = "data" =>
              /\ Stream[1].i = 1
              /\ Len(got) = 2 + got[2].looks
              /\ got[2] = Stream[2]
              /\ Whole(Stream, 1)
              /\ Starts(Stream, Len(got) + 1)
  <1>1. InStep(Stream) /\ (hpc \in {"length", "data"} => got[1].i = 1)
    BY DEF StepInv
  <1>2. /\ Stream \in Seq(Byte) /\ Len(got) \in Nat
        /\ \A i \in 1..Len(got) : Stream[i] = got[i] /\ i <= Len(Stream)
    BY StreamBytes DEF LinkInv
  <1>3. 1 <= Len(got) => 1 \in 1..Len(got) /\ 1 \in 1..Len(Stream)
    BY <1>2
  <1>4. CASE hpc = "type"
    <2>1. Len(got) = 1
      BY <1>2, <1>4 DEF LinkInv, ReadSoFar
    <2>2. got[1] = Stream[1] /\ 1 \in 1..Len(Stream)
      BY <1>2, <1>3, <2>1
    <2>3. Stream[1].i \in {0, 1}
      BY <1>1, <2>2 DEF InStep, Starts
    <2>4. Stream[1].i = 0 => Stream[1].looks \notin {EVT, RSP} /\ Starts(Stream, 1 + 1)
      BY <1>1, <2>2 DEF InStep
    <2>5. Stream[1].i = 1 => Stream[1].looks \in {EVT, RSP}
      BY <1>1, <2>2 DEF InStep, Whole
    <2> QED
      BY <1>4, <2>1, <2>2, <2>3, <2>4, <2>5
  <1>5. CASE hpc \in {"length", "data"}
    <2>1. 2 <= Len(got) /\ 1 \in 1..Len(got) /\ 2 \in 1..Len(got)
      <3>1. hpc = "length" => Len(got) + 0 = 2
        BY DEF LinkInv, ReadSoFar
      <3>2. hpc = "data" => 2 <= Len(got)
        BY DEF LinkInv, ReadSoFar
      <3>3. PICK n \in Nat : n = Len(got)
        BY <1>2
      <3>4. 2 <= n
        BY <1>5, <3>1, <3>2, <3>3
      <3>5. 1 \in 1..n /\ 2 \in 1..n
        BY <3>4
      <3> QED
        BY <3>3, <3>4, <3>5
    <2>2. got[1] = Stream[1] /\ got[2] = Stream[2] /\ 1 \in 1..Len(Stream)
      BY <1>2, <1>3, <2>1
    <2>3. Stream[1].i = 1
      BY <1>1, <1>5, <2>2
    <2>4. Whole(Stream, 1) /\ Starts(Stream, 1 + 2 + Stream[1 + 1].looks)
      BY <1>1, <2>2, <2>3, Zenon DEF InStep
    <2>5. Stream[2].looks \in Nat
      BY <1>2, <2>1, ByteTypes
    <2>6. Stream[2].looks <= MaxData
      BY <2>4 DEF Whole
    <2>7. CASE hpc = "length"
      BY <2>2, <2>5, <2>6, <2>7, LinkAssumption
    <2>8. CASE hpc = "data"
      <3>1. Len(got) = 2 + got[2].looks
        BY <1>2, <2>2, <2>5, <2>8 DEF LinkInv, ReadSoFar
      <3>2. Len(got) + 1 = 1 + 2 + Stream[1 + 1].looks
        BY <2>2, <2>5, <3>1
      <3> QED
        BY <2>2, <2>3, <2>4, <2>8, <3>1, <3>2
    <2> QED
      BY <1>5, <2>7, <2>8
  <1> QED
    BY <1>4, <1>5

LEMMA GoodBefore == LinkInv /\ [Next]_vars /\ Good' => Good
  <1> SUFFICES ASSUME LinkInv, [Next]_vars, Good' PROVE Good
    OBVIOUS
  <1>1. clean' = clean
    BY DEF Next, Host, Call, Write, Written, WriteFails, Return, Poll, Read, ReadFails,
           ReadType, ReadLength, ReadMessage, Answer, SendEvent, vars
  <1>2. failures' = failures \/ failures' = failures - 1
    BY DEF Next, Host, Call, Write, Written, WriteFails, Return, Poll, Read, ReadFails,
           ReadType, ReadLength, ReadMessage, Answer, SendEvent, vars
  <1>3. failures \in 0..MaxFailures /\ failures' = MaxFailures
    BY DEF LinkInv, TypeInv, Good
  <1> QED
    BY <1>1, <1>2, <1>3, LinkAssumption DEF Good

-----------------------------------------------------------------------------
(* Reads stay in step with the messages. *)

LEMMA InitStepInv == Init => StepInv
  <1> SUFFICES ASSUME Init, clean PROVE InStep(Stream) /\ hpc = "write"
    BY DEF StepInv, Good, Init
  <1>1. line \in Seq(Byte)
    BY InitLinkInv DEF LinkInv, TypeInv
  <1>2. Stream = line
    <2>1. Stream = <<>> \o line
      BY DEF Init, Stream
    <2> QED
      BY <1>1, <2>1, ConcatEmptySeq
  <1>3. DOMAIN line = 1..Len(line) /\ Len(line) \in Nat
    BY <1>1
  <1>4. \A p \in 1..Len(line) : line[p].i = 0 /\ line[p].looks \notin {EVT, RSP}
    <2>1. PICK tail \in Tails :
             line = [i \in DOMAIN tail |-> [looks |-> tail[i], of |-> "left", i |-> 0]]
      BY DEF Init
    <2>2. \A p \in DOMAIN line : line[p].i = 0
      BY <2>1
    <2>3. \A p \in DOMAIN line : line[p].looks \notin {EVT, RSP}
      BY DEF Init
    <2> QED
      BY <1>3, <2>2, <2>3
  <1>5. InStep(line)
    <2>1. ASSUME NEW p \in Nat \ {0} PROVE Starts(line, p)
      BY <1>3, <1>4 DEF Starts
    <2>2. Starts(line, 1) /\ \A p \in 1..Len(line) : Starts(line, p + 1)
      BY <1>3, <2>1
    <2> QED
      BY <1>4, <2>2 DEF InStep
  <1> QED
    BY <1>2, <1>5 DEF Init

LEMMA NextStepInv == LinkInv /\ StepInv /\ [Next]_vars => StepInv'
  <1> SUFFICES ASSUME LinkInv, StepInv, [Next]_vars, Good'
               PROVE  InStep(Stream') /\ (hpc' \in {"length", "data"} => got'[1].i = 1)
    BY DEF StepInv, InStep, Starts, Whole
  <1>1. Good /\ InStep(Stream)
    BY GoodBefore DEF StepInv
  <1>2. failures' = failures
    BY <1>1 DEF Good
  <1>3. Stream \in Seq(Byte)
    BY StreamBytes DEF LinkInv
  <1>4. ASSUME \/ \E c \in Commands : \E n \in Lengths(c) : Call(c, n)
               \/ Write \/ Written \/ Return \/ Poll
        PROVE  InStep(Stream') /\ hpc' \notin {"length", "data"}
    <2>1. Stream' = Stream
      BY <1>4, StreamKept
    <2>2. hpc' \notin {"length", "data"}
      BY <1>4 DEF Call, Write, Written, AwaitResponse, Return, Poll
    <2> QED
      BY <1>1, <2>1, <2>2
  <1>5. CASE Read
    <2>1. Stream' = Stream /\ hpc' = hpc
      BY <1>5, StreamKept DEF Read
    <2>2. ASSUME hpc \in {"length", "data"} PROVE got'[1] = got[1]
      <3>1. /\ got \in Seq(Byte) /\ line \in Seq(Byte) /\ Len(got) \in Nat
            /\ 1 <= Len(got)
        BY <2>2 DEF LinkInv, TypeInv, ReadSoFar
      <3>2. PICK n \in 1..need : n <= Len(line) /\ got' = got \o SubSeq(line, 1, n)
        BY <1>5 DEF Read
      <3>3. n \in 1..Len(line) /\ 1 \in 1..Len(got)
        BY <3>1, <3>2, LinkAssumption DEF LinkInv, TypeInv
      <3> QED
        BY <3>1, <3>2, <3>3, ReadBytes
    <2> QED
      BY <1>1, <2>1, <2>2, Zenon DEF StepInv
  <1>6. ASSUME NextMessage \/ (hpc' = "returned" /\ got' = <<>>), line' = line,
               Starts(Stream, Len(got) + 1)
        PROVE  InStep(Stream') /\ hpc' \notin {"length", "data"}
    <2>1. got' = <<>> /\ hpc' \notin {"length", "data"}
      BY <1>6 DEF NextMessage
    <2>2. Suffix(Stream, Len(got), Stream')
      BY <1>6, <2>1, StreamCut
    <2> QED
      BY <1>1, <1>3, <1>6, <2>1, <2>2, InStepSuffix
  <1>7. CASE ReadType
    <2>1. /\ got[1].looks \in {EVT, RSP} => got[1].i = 1
          /\ got[1].looks \notin {EVT, RSP} => Starts(Stream, Len(got) + 1)
      BY <1>1, <1>7, Cut DEF ReadType
    <2>2. CASE got[1].looks \in {EVT, RSP}
      <3>1. got' = got /\ line' = line
        BY <1>7, <2>2 DEF ReadType
      <3>2. Stream' = Stream
        BY <3>1, StreamKept
      <3> QED
        BY <1>1, <2>1, <2>2, <3>1, <3>2
    <2>3. CASE got[1].looks \notin {EVT, RSP}
      BY <1>6, <1>7, <2>1, <2>3 DEF ReadType
    <2> QED
      BY <2>2, <2>3
  <1>8. CASE ReadLength
    <2>1. ~(got[2].looks > MaxData)
      BY <1>1, <1>8, Cut DEF ReadLength
    <2>2. got' = got /\ line' = line /\ hpc \in {"length", "data"}
      BY <1>8, <2>1 DEF ReadLength
    <2>3. Stream' = Stream
      BY <2>2, StreamKept
    <2> QED
      BY <1>1, <2>2, <2>3, Zenon DEF StepInv
  <1>9. CASE ReadMessage
    <2>1. Starts(Stream, Len(got) + 1)
      BY <1>1, <1>9, Cut DEF ReadMessage
    <2>2. NextMessage \/ (hpc' = "returned" /\ got' = <<>>)
      BY <1>9 DEF ReadMessage
    <2>3. line' = line
      BY <1>9 DEF ReadMessage
    <2> QED
      BY <1>6, <2>1, <2>2, <2>3
  <1>10. CASE Answer
    <2>1. got' = got /\ hpc' = hpc /\ heard.c \in Commands
      BY <1>10 DEF Answer, LinkInv, HeardInv, Sent
    <2>2. << 0 >> \in Seq(Nat) /\ Len(<< 0 >>) = 1 /\ 1 <= MaxData
      BY LinkAssumption
    <2>3. CASE line' = line \o <<>>
      <3>1. line' = line
        BY <2>3 DEF LinkInv, TypeInv
      <3>2. Stream' = Stream
        BY <2>1, <3>1, StreamKept
      <3> QED
        BY <1>1, <2>1, <3>2, Zenon DEF StepInv
    <2>4. ASSUME NEW type \in {EVT, RSP},
                 NEW of \in {c.name : c \in Commands} \union {"left", "boot", "event"},
                 line' = line \o Message(type, of, << 0 >>)
          PROVE  InStep(Stream')
      <3>1. Message(type, of, << 0 >>) \in Seq(Byte)
        BY <2>2, MessageProperties, TypesAreNumbers DEF Laid
      <3>2. Stream' = Stream \o Message(type, of, << 0 >>)
        BY <2>1, <2>4, <3>1, StreamLonger
      <3>3. InStep(Stream \o Message(type, of, << 0 >>))
        BY <1>1, <1>3, <2>2, InStepAppend
      <3> QED
        BY <3>2, <3>3
    <2>5. InStep(Stream') \/ line' = line \o <<>>
      BY <1>10, <2>1, <2>4 DEF Answer, Response
    <2> QED
      BY <1>1, <2>1, <2>3, <2>5, Zenon DEF StepInv
  <1>11. CASE SendEvent
    <2>1. PICK data \in EventData : line' = line \o Message(EVT, "event", data)
      BY <1>11 DEF SendEvent
    <2>2. data \in Seq(Nat) /\ Len(data) <= MaxData
      BY LinkAssumption
    <2>3. got' = got /\ hpc' = hpc
      BY <1>11 DEF SendEvent
    <2>4. Message(EVT, "event", data) \in Seq(Byte)
      BY <2>2, MessageProperties, TypesAreNumbers DEF Laid
    <2>5. Stream' = Stream \o Message(EVT, "event", data)
      BY <2>1, <2>3, <2>4, StreamLonger
    <2>6. InStep(Stream')
      BY <1>1, <1>3, <2>2, <2>5, InStepAppend
    <2> QED
      BY <1>1, <2>3, <2>6, Zenon DEF StepInv
  <1>12. CASE UNCHANGED vars
    <2>1. got' = got /\ line' = line /\ hpc' = hpc
      BY <1>12 DEF vars, rxVars
    <2>2. Stream' = Stream
      BY <2>1, StreamKept
    <2> QED
      BY <1>1, <2>1, <2>2, Zenon DEF StepInv
  <1>13. ~WriteFails /\ ~ReadFails
    <2>1. failures' = failures - 1 => failures' # failures
      BY DEF LinkInv, TypeInv
    <2> QED
      BY <1>2, <2>1 DEF WriteFails, ReadFails
  <1> QED
    BY <1>4, <1>5, <1>7, <1>8, <1>9, <1>10, <1>11, <1>12, <1>13 DEF Next, Host

THEOREM StepInvariance == Spec => [](LinkInv /\ StepInv)
  <1>1. Init => LinkInv /\ StepInv
    BY InitLinkInv, InitStepInv
  <1>2. LinkInv /\ StepInv /\ [Next]_vars => (LinkInv /\ StepInv)'
    BY NextLinkInv, NextStepInv
  <1> QED
    BY <1>1, <1>2, PTL DEF Spec

\* Reads never get out of step with the messages, however they cut them, whatever the
\* data of a message looks like and however long it is: what gecko_wait_message takes
\* for a message is one, unless a read or write fails or the rest of a message that was
\* on the line when the port was opened looks like the beginning of one.
THEOREM ReadsInStep == Spec => []MessagesInStep
  <1>1. LinkInv /\ StepInv => MessagesInStep
    <2> SUFFICES ASSUME LinkInv, StepInv, Good, hpc \in {"length", "data"},
                        NEW i \in DOMAIN got
                 PROVE  got[i].i = i /\ got[i].of = got[1].of
      BY DEF MessagesInStep, Good
    <2>1. /\ Stream \in Seq(Byte) /\ Len(got) \in Nat
          /\ \A k \in 1..Len(got) : Stream[k] = got[k] /\ k <= Len(Stream)
      BY StreamBytes DEF LinkInv
    <2>2. i \in 1..Len(got) /\ 1 \in 1..Len(got) /\ i \in Int
      <3>1. got \in Seq(Byte)
        BY DEF LinkInv, TypeInv
      <3> QED
        BY <3>1
    <2>3. Stream[1] = got[1] /\ Stream[i] = got[i] /\ 1 \in 1..Len(Stream)
      BY <2>1, <2>2
    <2>4. Stream[1].i = 1
      BY <2>3 DEF StepInv
    <2>5. Whole(Stream, 1)
      BY <2>3, <2>4 DEF StepInv, InStep
    <2>6. i <= 1 + 1 + Stream[1 + 1].looks
      <3>1. CASE hpc = "length"
        <4>1. Stream[1 + 1].looks \in Nat
          BY <2>1, <2>5, ByteTypes DEF Whole
        <4>2. Len(got) <= 2
          BY <2>1, <3>1 DEF LinkInv, TypeInv, ReadSoFar
        <4> QED
          BY <2>2, <4>1, <4>2
      <3>2. CASE hpc = "data"
        <4>1. 2 \in 1..Len(got) /\ Len(got) + need = 2 + got[2].looks /\ need \in Nat
          BY <2>1, <3>2 DEF LinkInv, TypeInv, ReadSoFar
        <4>2. Stream[1 + 1].looks = got[2].looks /\ got[2].looks \in Nat
          BY <2>1, <4>1, ByteTypes
        <4> QED
          BY <2>1, <2>2, <4>1, <4>2
      <3> QED
        BY <3>1, <3>2
    <2>7. Stream[i].i = i - 1 + 1 /\ Stream[i].of = Stream[1].of
      BY <2>2, <2>5, <2>6 DEF Whole
    <2> QED
      BY <2>2, <2>3, <2>7
  <1> QED
    BY <1>1, StepInvariance, PTL

-----------------------------------------------------------------------------
(* A command gets its own response. *)

\* A response begins at p.
IsResponse(s, p) == s[p].i = 1 /\ s[p].looks = RSP

NoResponse(s) == \A p \in 1..Len(s) : ~IsResponse(s, p)

\* At most one response is in s, and if so it is that of the named command.
OneResponse(s, name) ==
    /\ \A p \in 1..Len(s) : IsResponse(s, p) =>
          s[p].of = name /\ s[p + 1].looks = 1 /\ s[p + 2].looks = 0
    /\ \A p, q \in 1..Len(s) : IsResponse(s, p) /\ IsResponse(s, q) => p = q

\* The host is going to wait for a response, or does so.
Awaiting ==
    \/ hpc \in {"type", "length", "data"} /\ waiting
    \/ hpc = "write" /\ unwritten = "none"

ResponseInv ==
    /\ waiting => hpc \notin {"idle", "write"} /\ cmd.c.reply
    /\ waiting => Sent(cmd)
    /\ Good =>
       /\ heard # None /\ heard.c.reply => heard = cmd /\ Awaiting /\ NoResponse(Stream)
       /\ \/ NoResponse(Stream)
          \/ Awaiting /\ cmd.c.reply /\ OneResponse(Stream, cmd.c.name)
       /\ ResponseOfCommand

LEMMA ResponsesInSuffix ==
  ASSUME NEW s \in Seq(Byte), InStep(s), NEW k, NEW t, Suffix(s, k, t), NEW name
  PROVE  /\ NoResponse(s) => NoResponse(t)
         /\ OneResponse(s, name) => OneResponse(t, name)
         /\ OneResponse(s, name) /\ IsResponse(s, 1) /\ k > 0 => NoResponse(t)
  <1>1. k \in Nat /\ Len(s) \in Nat /\ Len(t) \in Nat /\ Len(t) = Len(s) - k
    BY DEF Suffix
  <1>2. \A p \in 1..Len(t) : p + k \in 1..Len(s) /\ t[p] = s[p + k]
    BY <1>1 DEF Suffix
  <1>3. \A p \in 1..Len(t) : IsResponse(t, p) => IsResponse(s, p + k)
    BY <1>2 DEF IsResponse
  <1>4. NoResponse(s) => NoResponse(t)
    BY <1>2, <1>3, Zenon DEF NoResponse
  <1>5. ASSUME OneResponse(s, name) PROVE OneResponse(t, name)
    <2>1. ASSUME NEW p \in 1..Len(t), IsResponse(t, p)
          PROVE  t[p].of = name /\ t[p + 1].looks = 1 /\ t[p + 2].looks = 0
      <3>1. /\ s[p + k].of = name /\ s[p + k + 1].looks = 1 /\ s[p + k + 2].looks = 0
            /\ s[p + k].i = 1
        BY <1>2, <1>3, <1>5, <2>1 DEF OneResponse, IsResponse
      <3>2. Whole(s, p + k)
        BY <1>2, <3>1 DEF InStep
      <3>3. t[p + 1] = s[p + k + 1]
        BY <3>2, WholeInSuffix
      <3>4. p + k + 1 + 1 <= Len(s)
        BY <3>1, <3>2 DEF Whole
      <3>5. p + 2 \in 1..Len(t) /\ (p + 2) + k = p + k + 2
        BY <1>1, <3>4
      <3>6. t[p + 2] = s[p + k + 2]
        BY <1>2, <3>5
      <3> QED
        BY <1>2, <3>1, <3>3, <3>6
    <2>2. ASSUME NEW p \in 1..Len(t), NEW q \in 1..Len(t), IsResponse(t, p), IsResponse(t, q)
          PROVE  p = q
      <3>1. p + k = q + k
        BY <1>2, <1>3, <1>5, <2>2, Zenon DEF OneResponse
      <3> QED
        BY <1>1, <3>1
    <2> QED
      BY <2>1, <2>2 DEF OneResponse
  <1>6. ASSUME OneResponse(s, name), IsResponse(s, 1), k > 0 PROVE NoResponse(t)
    <2> SUFFICES ASSUME NEW p \in 1..Len(t), IsResponse(t, p) PROVE FALSE
      BY DEF NoResponse
    <2>1. IsResponse(s, p + k) /\ p + k \in 1..Len(s)
      BY <1>2, <1>3
    <2>2. 1 \in 1..Len(s)
      BY <1>1, <2>1
    <2>3. p + k = 1
      BY <1>6, <2>1, <2>2, Zenon DEF OneResponse
    <2> QED
      BY <1>1, <1>6, <2>3
  <1> QED
    BY <1>4, <1>5, <1>6

LEMMA ResponsesAppended ==
  ASSUME NEW s \in Seq(Byte), InStep(s), NEW name,
         NEW type \in {EVT, RSP}, NEW data \in Seq(Nat), Len(data) <= MaxData,
         NEW of \in {c.name : c \in Commands} \union {"left", "boot", "event"}
  PROVE  LET t == s \o Message(type, of, data)
         IN  /\ type = EVT /\ NoResponse(s) => NoResponse(t)
             /\ type = EVT /\ OneResponse(s, name) => OneResponse(t, name)
             /\ NoResponse(s) /\ data = << 0 >> => OneResponse(t, of)
  <1> DEFINE m == Message(type, of, data)
             t == s \o m
             n == Len(s)
  <1>1. /\ m \in Seq(Byte) /\ Len(m) = 2 + Len(data)
        /\ m[1].looks = type /\ m[2].looks = Len(data)
        /\ \A j \in 1..Len(data) : m[2 + j].looks = data[j]
        /\ \A j \in 1..Len(m) : m[j].of = of /\ m[j].i = j
    <2>1. Laid(m, type, of, data)
      BY MessageProperties, TypesAreNumbers
    <2> HIDE DEF m
    <2> QED
      BY <2>1 DEF Laid
  <1>2. /\ Len(t) = n + 2 + Len(data)
        /\ \A p \in 1..n : t[p] = s[p]
        /\ \A j \in 1..2 + Len(data) : t[n + j] = m[j]
    BY InStepAppend
  <1>3. n \in Nat /\ Len(data) \in Nat
    OBVIOUS
  <1> HIDE DEF m, t, n
  <1>4. ASSUME NEW p \in 1..Len(t), IsResponse(t, p)
        PROVE  \/ p \in 1..n /\ IsResponse(s, p)
               \/ p = n + 1 /\ type = RSP
    <2>1. CASE p <= n
      BY <1>2, <1>3, <1>4, <2>1 DEF IsResponse
    <2>2. CASE ~(p <= n)
      <3> DEFINE d == p - n
      <3>1. d \in 1..2 + Len(data) /\ p = n + d
        BY <1>2, <1>3, <2>2
      <3> HIDE DEF d
      <3>2. t[p] = m[d] /\ m[d].i = d
        BY <1>1, <1>2, <3>1
      <3>3. d = 1
        BY <1>4, <3>2 DEF IsResponse
      <3>4. type = RSP
        BY <1>1, <1>4, <3>2, <3>3 DEF IsResponse
      <3> QED
        BY <3>1, <3>3, <3>4
    <2> QED
      BY <2>1, <2>2
  <1>5. EVT # RSP
    BY DEF EVT, RSP
  <1>6. type = EVT /\ NoResponse(s) => NoResponse(t)
    BY <1>4, <1>5, Zenon DEF NoResponse, n
  <1>7. ASSUME type = EVT, OneResponse(s, name) PROVE OneResponse(t, name)
    <2>1. ASSUME NEW p \in 1..Len(t), IsResponse(t, p)
          PROVE  t[p].of = name /\ t[p + 1].looks = 1 /\ t[p + 2].looks = 0
      <3>1. p \in 1..n /\ IsResponse(s, p)
        BY <1>4, <1>5, <1>7, <2>1
      <3>2. s[p].of = name /\ s[p + 1].looks = 1 /\ s[p + 2].looks = 0
        BY <1>7, <3>1 DEF OneResponse, n
      <3>3. Whole(s, p)
        BY <3>1 DEF InStep, IsResponse, n
      <3>4. p + 1 + 1 <= n
        BY <3>2, <3>3 DEF Whole, n
      <3>5. p + 1 \in 1..n /\ p + 2 \in 1..n
        BY <1>3, <3>4
      <3> QED
        BY <1>2, <3>1, <3>2, <3>5
    <2>2. ASSUME NEW p \in 1..Len(t), NEW q \in 1..Len(t), IsResponse(t, p), IsResponse(t, q)
          PROVE  p = q
      <3>1. p \in 1..n /\ IsResponse(s, p) /\ q \in 1..n /\ IsResponse(s, q)
        BY <1>4, <1>5, <1>7, <2>2
      <3> QED
        BY <1>7, <3>1, Zenon DEF OneResponse, n
    <2> QED
      BY <2>1, <2>2 DEF OneResponse
  <1>8. ASSUME NoResponse(s), data = << 0 >> PROVE OneResponse(t, of)
    <2>1. ASSUME NEW p \in 1..Len(t), IsResponse(t, p) PROVE p = n + 1
      BY <1>4, <1>8, <2>1 DEF NoResponse, n
    <2>2. Len(data) = 1 /\ data[1] = 0
      BY <1>8
    <2>3. t[n + 1].of = of /\ t[n + 2].looks = 1 /\ t[n + 3].looks = 0
      <3>1. /\ 1 \in 1..2 + Len(data) /\ 2 \in 1..2 + Len(data) /\ 3 \in 1..2 + Len(data)
            /\ 1 \in 1..Len(data) /\ 1 \in 1..Len(m)
        BY <1>1, <2>2
      <3>2. t[n + 1] = m[1] /\ t[n + 2] = m[2] /\ t[n + 3] = m[3]
        BY <1>2, <3>1
      <3>3. m[2 + 1].looks = 0
        BY <1>1, <2>2, <3>1
      <3> QED
        BY <1>1, <2>2, <3>1, <3>2, <3>3
    <2>4. n + 1 + 1 = n + 2 /\ n + 1 + 2 = n + 3
      BY <1>3
    <2> QED
      BY <2>1, <2>3, <2>4, Zenon DEF OneResponse
  <1> QED
    BY <1>6, <1>7, <1>8 DEF t, m

\* A response that has been read whole is the one expected.
LEMMA ReadWhole ==
  ASSUME LinkInv, StepInv, Good, hpc = "data", need = 0,
         NEW c \in Commands, OneResponse(Stream, c.name), got[1].looks = RSP
  PROVE  got = Response(c) /\ IsResponse(Stream, 1)
  <1>1. /\ Stream[1].i = 1
        /\ Len(got) = 2 + got[2].looks
        /\ got[2] = Stream[2]
        /\ Whole(Stream, 1)
    BY Cut
  <1>2. /\ Stream \in Seq(Byte) /\ Len(got) \in Nat
        /\ \A i \in 1..Len(got) : Stream[i] = got[i] /\ i <= Len(Stream)
    BY StreamBytes DEF LinkInv
  <1>3. 2 <= Len(got) /\ got \in Seq(Byte)
    BY DEF LinkInv, ReadSoFar, TypeInv
  <1>4. 1 \in 1..Len(got) /\ 1 \in 1..Len(Stream)
    BY <1>2, <1>3
  <1>5. IsResponse(Stream, 1)
    BY <1>1, <1>2, <1>4 DEF IsResponse
  <1>6. Stream[1].of = c.name /\ Stream[1 + 1].looks = 1 /\ Stream[1 + 2].looks = 0
    BY <1>4, <1>5, Zenon DEF OneResponse
  <1>7. Len(got) = 3
    BY <1>1, <1>6
  <1>8. \A j \in 1..3 : Stream[j].i = j /\ Stream[j].of = c.name
    <2>1. 1 + 1 + Stream[1 + 1].looks = 3
      BY <1>6
    <2>2. \A j \in 1..3 : Stream[j].i = j - 1 + 1 /\ Stream[j].of = Stream[1].of
      BY <1>1, <2>1 DEF Whole
    <2> QED
      BY <1>6, <2>2
  <1>9. /\ got[1].looks = RSP /\ got[2].looks = 1 /\ got[3].looks = 0
        /\ \A j \in 1..3 : got[j].i = j /\ got[j].of = c.name
    BY <1>2, <1>6, <1>7, <1>8
  <1> DEFINE m == Response(c)
  <1>10. /\ m \in Seq(Byte) /\ Len(m) = 3
         /\ m[1].looks = RSP /\ m[2].looks = 1 /\ m[3].looks = 0
         /\ \A j \in 1..3 : m[j].i = j /\ m[j].of = c.name
    <2>1. << 0 >> \in Seq(Nat) /\ Len(<< 0 >>) = 1 /\ << 0 >>[1] = 0 /\ RSP \in Nat
      BY DEF RSP
    <2>2. Laid(m, RSP, c.name, << 0 >>)
      BY <2>1, MessageProperties DEF Response
    <2> HIDE DEF m
    <2>3. m[2 + 1].looks = 0
      BY <2>1, <2>2 DEF Laid
    <2> QED
      BY <2>1, <2>2, <2>3 DEF Laid
  <1> HIDE DEF m
  <1>11. \A j \in 1..3 : got[j] = m[j]
    <2> SUFFICES ASSUME NEW j \in 1..3 PROVE got[j] = m[j]
      OBVIOUS
    <2>1. got[j] \in Byte /\ m[j] \in Byte
      <3>1. j \in 1..Len(got) /\ j \in 1..Len(m)
        BY <1>7, <1>10
      <3> QED
        BY <1>3, <1>10, <3>1, ByteTypes
    <2>2. got[j].looks = m[j].looks /\ got[j].of = m[j].of /\ got[j].i = m[j].i
      BY <1>9, <1>10
    <2> QED
      BY <2>1, <2>2 DEF Byte
  <1>12. got = m
    BY <1>3, <1>7, <1>10, <1>11, SeqEqual
  <1> QED
    BY <1>5, <1>12 DEF m

LEMMA InitResponseInv == Init => ResponseInv
  <1> SUFFICES ASSUME Init PROVE ResponseInv
    OBVIOUS
  <1>1. ~waiting /\ hpc = "write" /\ unwritten = "all" /\ heard = None
    BY DEF Init
  <1>2. ASSUME Good PROVE NoResponse(Stream)
    <2>1. line \in Seq(Byte)
      BY InitLinkInv DEF LinkInv, TypeInv
    <2>2. Stream = line
      <3>1. Stream = <<>> \o line
        BY DEF Init, Stream
      <3> QED
        BY <2>1, <3>1, ConcatEmptySeq
    <2>3. \A p \in DOMAIN line : line[p].looks \notin {EVT, RSP}
      BY <1>2 DEF Init, Good
    <2>4. DOMAIN line = 1..Len(line)
      BY <2>1
    <2> QED
      BY <2>2, <2>3, <2>4 DEF NoResponse, IsResponse
  <1> QED
    BY <1>1, <1>2 DEF ResponseInv, ResponseOfCommand

LEMMA NextResponseInv == LinkInv /\ StepInv /\ ResponseInv /\ [Next]_vars => ResponseInv'
  <1> SUFFICES ASSUME LinkInv, StepInv, ResponseInv, [Next]_vars PROVE ResponseInv'
    OBVIOUS
  <1>1. Good' => Good /\ failures' = failures /\ InStep(Stream) /\ Stream \in Seq(Byte)
    BY GoodBefore, StreamBytes DEF StepInv, LinkInv, Good
  <1>2. failures' = failures - 1 => ~Good'
    BY <1>1 DEF LinkInv, TypeInv
  <1>3. hpc \in {"idle", "write", "type", "length", "data", "returned"}
    BY DEF LinkInv, HeardInv
  <1>4. hpc \in {"idle", "returned"} => ~Awaiting
    BY DEF Awaiting
  <1>5. ASSUME NEW c \in Commands, NEW n \in Lengths(c), Call(c, n) PROVE ResponseInv'
    <2>1. hpc = "idle" /\ ~waiting
      BY <1>5 DEF Call, ResponseInv
    <2>2. waiting' = waiting /\ heard' = heard /\ cmd' = [c |-> c, n |-> n]
      BY <1>5 DEF Call
    <2>3. Stream' = Stream
      BY <1>5, StreamKept
    <2>4. ASSUME Good' PROVE NoResponse(Stream) /\ ~(heard # None /\ heard.c.reply)
      BY <1>1, <1>4, <2>1, <2>4 DEF ResponseInv
    <2>5. ResponseOfCommand'
      BY <1>5, <2>2 DEF Call, ResponseOfCommand
    <2> QED
      BY <2>1, <2>2, <2>3, <2>4, <2>5 DEF ResponseInv
  <1>6. CASE Write
    <2>1. /\ hpc = "write" /\ unwritten # "none" /\ hpc' = hpc
          /\ cmd' = cmd /\ waiting' = waiting
      BY <1>6 DEF Write
    <2>2. Stream' = Stream
      BY <1>6, StreamKept
    <2>3. ASSUME Good' PROVE NoResponse(Stream) /\ ~(heard # None /\ heard.c.reply)
      BY <1>1, <2>1, <2>3 DEF ResponseInv, Awaiting
    <2>4. heard' = heard \/ (heard' = cmd /\ unwritten' = "none")
      BY <1>6 DEF Write
    <2>5. ResponseOfCommand'
      BY <2>1 DEF ResponseOfCommand
    <2>6. (unwritten' = "none") => Awaiting'
      BY <2>1 DEF Awaiting
    <2> QED
      BY <2>1, <2>2, <2>3, <2>4, <2>5, <2>6 DEF ResponseInv
  <1>7. CASE Written \/ WriteFails
    <2>1. /\ hpc = "write" /\ waiting' = cmd.c.reply
          /\ hpc' = IF cmd.c.reply THEN "type" ELSE "returned"
          /\ cmd' = cmd /\ heard' = heard
      BY <1>7 DEF Written, WriteFails, AwaitResponse
    <2>2. Sent(cmd) /\ cmd.c \in Commands
      BY <2>1 DEF LinkInv, HeardInv, Sent
    <2>3. cmd.c.reply \in BOOLEAN
      BY <2>2, CommandTypes
    <2>4. Stream' = Stream
      BY <1>7, StreamKept
    <2>5. CASE cmd.c.reply
      <3>1. Awaiting' /\ hpc' = "type" /\ waiting'
        BY <2>1, <2>5 DEF Awaiting
      <3>2. ResponseOfCommand'
        BY <3>1 DEF ResponseOfCommand
      <3> QED
        BY <1>1, <2>1, <2>2, <2>4, <2>5, <3>1, <3>2 DEF ResponseInv, Sent
    <2>6. CASE ~cmd.c.reply
      <3>1. hpc' = "returned" /\ ~waiting'
        BY <2>1, <2>6
      <3>2. ResponseOfCommand'
        BY <2>1, <2>6 DEF ResponseOfCommand
      <3>3. ASSUME Good' PROVE NoResponse(Stream) /\ ~(heard # None /\ heard.c.reply)
        BY <1>1, <2>6, <3>3 DEF ResponseInv
      <3> QED
        BY <2>1, <2>4, <3>1, <3>2, <3>3 DEF ResponseInv
    <2> QED
      BY <2>3, <2>5, <2>6
  <1>8. CASE Return \/ Poll
    <2>1. /\ hpc \in {"returned", "idle"} /\ hpc' \in {"idle", "type"} /\ ~waiting'
          /\ heard' = heard
      BY <1>8 DEF Return, Poll, ResponseInv
    <2>2. Stream' = Stream
      BY <1>8, StreamKept
    <2>3. ASSUME Good' PROVE NoResponse(Stream) /\ ~(heard # None /\ heard.c.reply)
      BY <1>1, <1>4, <2>1, <2>3 DEF ResponseInv
    <2>4. ResponseOfCommand'
      BY <2>1 DEF ResponseOfCommand
    <2> QED
      BY <2>1, <2>2, <2>3, <2>4 DEF ResponseInv
  <1>9. ASSUME hpc' = hpc, UNCHANGED <<cmd, unwritten, waiting, rsp, heard, clean, failures>>,
               Stream' = Stream
        PROVE  ResponseInv'
    <2>1. Awaiting' = Awaiting /\ Good' = Good
      BY <1>9 DEF Awaiting, Good
    <2>2. ResponseOfCommand' = ResponseOfCommand
      BY <1>9 DEF ResponseOfCommand
    <2> QED
      BY <1>9, <2>1, <2>2, Zenon DEF ResponseInv
  <1>10. CASE Read
    BY <1>9, <1>10, StreamKept DEF Read
  <1>11. ASSUME hpc \in {"type", "length", "data"}, hpc' \in {"type", "length", "data"},
                UNCHANGED <<cmd, waiting, heard>>, Stream' = Stream
         PROVE  ResponseInv'
    <2>1. Awaiting' <=> Awaiting
      BY <1>11 DEF Awaiting
    <2>2. ResponseOfCommand'
      BY <1>11 DEF ResponseOfCommand
    <2>3. waiting' => hpc' \notin {"idle", "write"}
      BY <1>11
    <2>4. Sent(cmd)' = Sent(cmd)
      BY <1>11 DEF Sent, TooLong, Lengths
    <2> QED
      BY <1>1, <1>11, <2>1, <2>2, <2>3, <2>4, Zenon DEF ResponseInv
  <1>12. ASSUME Reading, NextMessage, UNCHANGED <<cmd, waiting, line, heard>>,
                Good' => Starts(Stream, Len(got) + 1)
         PROVE  ResponseInv'
    <2>1. hpc \in {"type", "length", "data"}
      BY <1>12 DEF Reading
    <2>2. hpc' = (IF waiting THEN "type" ELSE "idle") /\ got' = <<>> /\ waiting \in BOOLEAN
      BY <1>12 DEF NextMessage, LinkInv, TypeInv
    <2>3. Awaiting' <=> Awaiting
      BY <1>12, <2>1, <2>2 DEF Awaiting
    <2>4. ResponseOfCommand'
      BY <2>2 DEF ResponseOfCommand
    <2>5. Suffix(Stream, Len(got), Stream')
      BY <1>12, <2>2, StreamCut
    <2>6. ASSUME Good'
          PROVE  /\ NoResponse(Stream) => NoResponse(Stream')
                 /\ OneResponse(Stream, cmd.c.name) => OneResponse(Stream', cmd.c.name)
      BY <1>1, <2>5, <2>6, ResponsesInSuffix
    <2>7. waiting' => hpc' \notin {"idle", "write"} /\ cmd.c.reply
      BY <1>12, <2>2 DEF ResponseInv
    <2>8. waiting' => Sent(cmd')
      BY <1>12, <2>2 DEF ResponseInv
    <2> QED
      BY <1>1, <1>12, <2>3, <2>4, <2>6, <2>7, <2>8, Zenon DEF ResponseInv
  <1>13. CASE ReadType
    <2>1. CASE got[1].looks \in {EVT, RSP}
      <3>1. Stream' = Stream
        BY <1>13, <2>1, StreamKept DEF ReadType
      <3> QED
        BY <1>11, <1>13, <2>1, <3>1 DEF ReadType
    <2>2. CASE got[1].looks \notin {EVT, RSP}
      <3>1. Good' => Starts(Stream, Len(got) + 1)
        BY <1>1, <1>13, <2>2, Cut DEF ReadType
      <3> QED
        BY <1>12, <1>13, <2>2, <3>1 DEF ReadType, Reading
    <2> QED
      BY <2>1, <2>2
  <1>14. CASE ReadLength
    <2>1. CASE ~(got[2].looks > MaxData)
      <3>1. Stream' = Stream
        BY <1>14, <2>1, StreamKept DEF ReadLength
      <3> QED
        BY <1>11, <1>14, <2>1, <3>1 DEF ReadLength
    <2>2. CASE got[2].looks > MaxData
      <3>1. Good' => Starts(Stream, Len(got) + 1)
        BY <1>1, <1>14, <2>2, Cut DEF ReadLength
      <3> QED
        BY <1>12, <1>14, <2>2, <3>1 DEF ReadLength, Reading
    <2> QED
      BY <2>1, <2>2
  <1>15. CASE ReadFails
    <2>1. ~Good'
      BY <1>2, <1>15 DEF ReadFails
    <2> QED
      BY <1>12, <1>15, <2>1 DEF ReadFails
  <1>16. CASE ReadMessage
    <2>1. Good' => Starts(Stream, Len(got) + 1)
      BY <1>1, <1>16, Cut DEF ReadMessage
    <2>2. CASE ~(waiting /\ got[1].looks = RSP)
      BY <1>12, <1>16, <2>1, <2>2 DEF ReadMessage, Reading
    <2>3. CASE waiting /\ got[1].looks = RSP
      <3>1. /\ hpc = "data" /\ need = 0 /\ hpc' = "returned" /\ got' = <<>>
            /\ rsp' = got /\ cmd' = cmd /\ line' = line /\ heard' = heard
            /\ waiting' = waiting
        BY <1>16, <2>3 DEF ReadMessage, Deliver
      <3>2. Suffix(Stream, Len(got), Stream')
        BY <3>1, StreamCut
      <3>3. cmd.c.reply /\ Sent(cmd) /\ cmd.c \in Commands
        BY <2>3 DEF ResponseInv, Sent
      <3>4. ASSUME Good'
            PROVE  /\ rsp' = Response(cmd.c) /\ NoResponse(Stream')
                   /\ ~(heard # None /\ heard.c.reply)
        <4>1. Good /\ InStep(Stream) /\ Stream \in Seq(Byte)
          BY <1>1, <3>4
        <4>2. IsResponse(Stream, 1) /\ 1 \in 1..Len(Stream)
          <5>1. /\ Len(got) \in Nat
                /\ \A i \in 1..Len(got) : Stream[i] = got[i] /\ i <= Len(Stream)
            BY StreamBytes DEF LinkInv
          <5>2. 2 <= Len(got)
            BY <3>1 DEF LinkInv, ReadSoFar
          <5>3. Stream[1] = got[1] /\ 1 <= Len(Stream)
            BY <5>1, <5>2
          <5>4. Stream[1].i = 1
            BY <3>1, <4>1, Cut
          <5>5. Len(Stream) \in Nat
            BY <4>1
          <5> QED
            BY <2>3, <5>3, <5>4, <5>5 DEF IsResponse
        <4>3. ~NoResponse(Stream)
          BY <4>2, Zenon DEF NoResponse
        <4>4. OneResponse(Stream, cmd.c.name) /\ ~(heard # None /\ heard.c.reply)
          BY <4>1, <4>3, Zenon DEF ResponseInv
        <4>5. got = Response(cmd.c)
          BY <2>3, <3>1, <3>3, <4>1, <4>4, ReadWhole
        <4>6. Len(got) > 0
          BY <3>1 DEF LinkInv, ReadSoFar, TypeInv
        <4>7. NoResponse(Stream')
          BY <3>2, <4>1, <4>2, <4>4, <4>6, ResponsesInSuffix
        <4> QED
          BY <3>1, <4>4, <4>5, <4>7
      <3>5. ASSUME Good' PROVE ResponseOfCommand'
        <4>1. ~TooLong(cmd.c, cmd.n)
          BY <3>3 DEF Sent
        <4> QED
          BY <3>1, <3>4, <3>5, <4>1 DEF ResponseOfCommand
      <3> QED
        BY <3>1, <3>3, <3>4, <3>5 DEF ResponseInv
    <2> QED
      BY <2>2, <2>3
  <1>17. CASE Answer
    <2>1. /\ hpc' = hpc /\ UNCHANGED <<cmd, unwritten, waiting, rsp, clean, failures>>
          /\ got' = got /\ heard # None /\ heard' = None /\ heard.c \in Commands
      BY <1>17 DEF Answer, LinkInv, HeardInv, Sent
    <2>2. (Awaiting' <=> Awaiting) /\ (Good' <=> Good)
      BY <2>1 DEF Awaiting, Good
    <2>3. ResponseOfCommand' = ResponseOfCommand
      BY <2>1 DEF ResponseOfCommand
    <2>4. << 0 >> \in Seq(Nat) /\ Len(<< 0 >>) <= MaxData
      BY LinkAssumption
    <2>5. ASSUME Good',
                 \/ NoResponse(Stream')
                 \/ Awaiting /\ cmd.c.reply /\ OneResponse(Stream', cmd.c.name)
          PROVE  ResponseInv'
      BY <1>1, <2>1, <2>2, <2>3, <2>5, Zenon DEF ResponseInv
    <2>6. ASSUME Good',
                 line' = line \o Message(EVT, "boot", << 0 >>)
          PROVE  ResponseInv'
      <3>1. Message(EVT, "boot", << 0 >>) \in Seq(Byte)
        BY <2>4, MessageProperties, TypesAreNumbers DEF Laid
      <3>2. Stream' = Stream \o Message(EVT, "boot", << 0 >>)
        BY <2>1, <2>6, <3>1, StreamLonger
      <3>3. /\ NoResponse(Stream) => NoResponse(Stream')
            /\ OneResponse(Stream, cmd.c.name) => OneResponse(Stream', cmd.c.name)
        BY <1>1, <2>4, <2>6, <3>2, ResponsesAppended
      <3> QED
        BY <1>1, <2>5, <2>6, <3>3, Zenon DEF ResponseInv
    <2>7. ASSUME Good', heard.c.reply, line' = line \o Response(heard.c)
          PROVE  ResponseInv'
      <3>1. heard = cmd /\ Awaiting /\ NoResponse(Stream)
        BY <1>1, <2>1, <2>7, Zenon DEF ResponseInv
      <3>2. Response(heard.c) \in Seq(Byte)
        <4>1. heard.c.name \in {c.name : c \in Commands} \union {"left", "boot", "event"}
          BY <2>1
        <4>2. RSP \in Nat
          BY DEF RSP
        <4> QED
          BY <2>4, <4>1, <4>2, MessageProperties, TypesAreNumbers DEF Laid, Response
      <3>3. Stream' = Stream \o Response(heard.c)
        BY <2>1, <2>7, <3>2, StreamLonger
      <3>4. OneResponse(Stream', cmd.c.name)
        <4>1. \A s \in Seq(Byte) : InStep(s) /\ NoResponse(s)
                 => OneResponse(s \o Message(RSP, cmd.c.name, << 0 >>), cmd.c.name)
          BY <2>1, <2>4, <3>1, ResponsesAppended
        <4> QED
          BY <1>1, <2>7, <3>1, <3>3, <4>1, Zenon DEF Response
      <3> QED
        BY <2>5, <2>7, <3>1, <3>4, Zenon
    <2>8. ASSUME Good', line' = line \o <<>>
          PROVE  ResponseInv'
      <3>1. line' = line
        BY <2>8 DEF LinkInv, TypeInv
      <3>2. Stream' = Stream
        BY <2>1, <3>1, StreamKept
      <3> QED
        BY <1>1, <2>5, <2>8, <3>2, Zenon DEF ResponseInv
    <2>9. CASE ~Good'
      BY <2>1, <2>9, Zenon DEF ResponseInv
    <2> QED
      BY <1>17, <2>6, <2>7, <2>8, <2>9, Zenon DEF Answer
  <1>18. CASE SendEvent
    <2>1. PICK data \in EventData : line' = line \o Message(EVT, "event", data)
      BY <1>18 DEF SendEvent
    <2>2. data \in Seq(Nat) /\ Len(data) <= MaxData
      BY LinkAssumption
    <2>3. /\ hpc' = hpc /\ got' = got
          /\ UNCHANGED <<cmd, unwritten, waiting, rsp, heard, clean, failures>>
      BY <1>18 DEF SendEvent
    <2>4. Message(EVT, "event", data) \in Seq(Byte)
      BY <2>2, MessageProperties, TypesAreNumbers DEF Laid
    <2>5. Stream' = Stream \o Message(EVT, "event", data)
      BY <2>1, <2>3, <2>4, StreamLonger
    <2>6. Awaiting' = Awaiting /\ Good' = Good /\ ResponseOfCommand' = ResponseOfCommand
      BY <2>3 DEF Awaiting, Good, ResponseOfCommand
    <2>7. ASSUME Good'
          PROVE  /\ NoResponse(Stream) => NoResponse(Stream')
                 /\ OneResponse(Stream, cmd.c.name) => OneResponse(Stream', cmd.c.name)
      BY <1>1, <2>2, <2>5, <2>7, ResponsesAppended
    <2> QED
      BY <1>1, <2>3, <2>6, <2>7, Zenon DEF ResponseInv
  <1>19. CASE UNCHANGED vars
    <2>1. Stream' = Stream
      BY <1>19, StreamKept DEF vars
    <2> QED
      BY <1>9, <1>19, <2>1 DEF vars
  <1> QED
    BY <1>5, <1>6, <1>7, <1>8, <1>10, <1>13, <1>14, <1>15, <1>16, <1>17, <1>18, <1>19
       DEF Next, Host

\* Each command returns with its own response, or that it is too long, for every
\* command of host_gecko.h: events that come meanwhile and the bytes that look like a
\* response in them are not taken for it, unless reads and messages have got out of
\* step.
THEOREM OwnResponse == Spec => []ResponseOfCommand
  <1>1. Init => LinkInv /\ StepInv /\ ResponseInv
    BY InitLinkInv, InitStepInv, InitResponseInv
  <1>2. LinkInv /\ StepInv /\ ResponseInv /\ [Next]_vars
           => (LinkInv /\ StepInv /\ ResponseInv)'
    BY NextLinkInv, NextStepInv, NextResponseInv
  <1>3. LinkInv /\ StepInv /\ ResponseInv => ResponseOfCommand
    BY DEF ResponseInv, ResponseOfCommand, Good
  <1> QED
    BY <1>1, <1>2, <1>3, PTL DEF Spec
==============================================================================
