----------------------------- MODULE Bglib_proof -----------------------------
(***************************************************************************)
(* Proofs about Bglib, for every BGLIB_QUEUE_LEN and every number of       *)
(* events and failed reads: the event an application handles is never      *)
(* overwritten by the events its commands read into the queue, events are  *)
(* delivered in their order, and as long as the queue has room, and reads  *)
(* succeed, queue and wire together are the channel of EventChannel.       *)
(***************************************************************************)
EXTENDS Bglib, CountingLemmas, SequenceTheorems

\* The slot after a slot is a slot.
LEMMA AfterIsSlot ==
  ASSUME NEW i \in Slots
  PROVE  After(i) \in Slots
  BY QueueAssumption, SMT DEF Slots, After

\* The inductive invariant: the slot of the event being handled is the one before
\* the read index, which is the slot that Full keeps from being written.
IInv ==
    /\ TypeOK
    /\ InUseStable
    /\ phase # "poll" => After(slot) = r

LEMMA InitIInv == Init => IInv
  <1> SUFFICES ASSUME Init PROVE IInv
    OBVIOUS
  <1>1. 0 \in Slots /\ Blank \in Packet /\ 0 \in 0..MaxEvents
    BY QueueAssumption, BoundAssumption, SMT DEF Slots, Blank, Junk, Packet
  <1>2. TypeOK
    BY <1>1, BoundAssumption DEF Init, TypeOK
  <1> QED
    BY <1>2 DEF Init, IInv, InUseStable

\* Reading a message never touches the slot before the read index.
LEMMA ReadKeeps ==
  ASSUME TypeOK, ReadMessage
  PROVE  /\ queue' \in [Slots -> Packet] /\ w' \in Slots /\ r' = r
         /\ wire' \in Seq(0..MaxEvents) /\ rest' \in BOOLEAN
         /\ failures' \in 0..MaxFailures
         /\ \A i \in Slots : After(i) = r => queue'[i] = queue[i]
  <1> USE BoundAssumption DEF TypeOK
  <1>1. ASSUME wire # <<>> PROVE Head(wire) \in 0..MaxEvents /\ Tail(wire) \in Seq(0..MaxEvents)
    BY <1>1
  <1>2. ASSUME NEW p \in Packet, ~Full, Store(p)
        PROVE  /\ queue' \in [Slots -> Packet] /\ w' \in Slots /\ r' = r
               /\ \A i \in Slots : After(i) = r => queue'[i] = queue[i]
    BY <1>2, AfterIsSlot DEF Store, Full
  <1>3. CASE ReadEvent
    <2>1. [header |-> Head(wire), data |-> Head(wire)] \in Packet
      BY <1>1, <1>3 DEF ReadEvent, Packet
    <2>2. wire' \in Seq(0..MaxEvents) /\ rest' \in BOOLEAN /\ failures' \in 0..MaxFailures
      BY <1>1, <1>3 DEF ReadEvent
    <2> QED
      BY <1>2, <1>3, <2>1, <2>2 DEF ReadEvent, ringVars
  <1>4. CASE ReadFails
    <2> DEFINE p == [header |-> Head(wire), data |-> queue[w].data]
    <2>1. wire # <<>> => p \in Packet
      BY <1>1 DEF Packet
    <2> HIDE DEF p
    <2>2. wire' \in Seq(0..MaxEvents) /\ rest' \in BOOLEAN /\ failures' \in 0..MaxFailures
      <3>1. failures' \in 0..MaxFailures
        BY <1>4 DEF ReadFails
      <3>2. UNCHANGED <<wire, rest>> \/ (wire # <<>> /\ wire' = Tail(wire) /\ rest' = TRUE)
        BY <1>4 DEF ReadFails, lineVars
      <3> QED
        BY <1>1, <3>1, <3>2
    <2>3. UNCHANGED ringVars \/ (wire # <<>> /\ ~Full /\ Store(p))
      BY <1>4 DEF ReadFails, p
    <2> QED
      BY <1>2, <2>1, <2>2, <2>3 DEF ringVars
  <1>5. CASE ReadRest
    <2> DEFINE p == [header |-> Junk, data |-> Junk]
    <2>1. p \in Packet
      <3>1. Junk \in 0..MaxEvents
        BY DEF Junk
      <3> QED
        BY <3>1, Zenon DEF Packet
    <2> HIDE DEF p
    <2>2. wire' \in Seq(0..MaxEvents) /\ rest' \in BOOLEAN /\ failures' \in 0..MaxFailures
      BY <1>1, <1>5 DEF ReadRest
    <2>3. UNCHANGED ringVars \/ (~Full /\ Store(p))
      BY <1>5 DEF ReadRest, p
    <2> QED
      BY <1>2, <2>1, <2>2, <2>3 DEF ringVars
  <1> QED
    BY <1>3, <1>4, <1>5 DEF ReadMessage

LEMMA NextIInv == IInv /\ [Next]_vars => IInv'
  <1> SUFFICES ASSUME IInv, [Next]_vars PROVE IInv'
    OBVIOUS
  <1> USE DEF IInv
  <1>1. CASE Deliver
    <2>1. queue[r] \in Packet /\ queue[r].header \in 0..MaxEvents
      BY DEF TypeOK, Packet
    <2> QED
      BY <1>1, <2>1, AfterIsSlot DEF Deliver, Hand, lineVars, TypeOK, InUseStable
  <1>2. CASE Fetch
    BY <1>2, ReadKeeps DEF Fetch, givenVars, TypeOK, InUseStable
  <1>3. CASE Command
    BY <1>3 DEF Command, ringVars, lineVars, givenVars, TypeOK, InUseStable
  <1>4. CASE AwaitResponse
    <2>1. queue'[slot] = queue[slot]
      BY <1>4, ReadKeeps DEF AwaitResponse, TypeOK
    <2>2. TypeOK'
      BY <1>4, ReadKeeps DEF AwaitResponse, givenVars, TypeOK
    <2> QED
      BY <1>4, <2>1, <2>2, ReadKeeps DEF AwaitResponse, givenVars, InUseStable
  <1>5. CASE ReceiveResponse \/ ReceiveJunk \/ IgnoreResponse
    <2>1. CASE ReceiveResponse
      BY <2>1 DEF ReceiveResponse, ringVars, givenVars, TypeOK, InUseStable
    <2>2. CASE ReceiveJunk
      BY <2>2 DEF ReceiveJunk, ringVars, givenVars, TypeOK, InUseStable
    <2>3. CASE IgnoreResponse
      BY <2>3 DEF IgnoreResponse, ringVars, givenVars, TypeOK, InUseStable
    <2> QED
      BY <1>5, <2>1, <2>2, <2>3
  <1>6. CASE Handled
    BY <1>6 DEF Handled, ringVars, lineVars, givenVars, TypeOK, InUseStable
  <1>7. CASE SendEvent
    <2>1. sent' \in 0..MaxEvents
      BY <1>7, BoundAssumption DEF SendEvent, TypeOK
    <2>2. wire' \in Seq(0..MaxEvents)
      BY <1>7, <2>1 DEF SendEvent, TypeOK
    <2> QED
      BY <1>7, <2>1, <2>2 DEF SendEvent, ringVars, givenVars, TypeOK, InUseStable
  <1>8. CASE Respond
    <2>1. wire' \in Seq(0..MaxEvents)
      BY <1>8, BoundAssumption DEF Respond, Response, TypeOK
    <2> QED
      BY <1>8, <2>1 DEF Respond, ringVars, givenVars, TypeOK, InUseStable
  <1>9. CASE PollAgain \/ UNCHANGED vars
    BY <1>9 DEF PollAgain, vars, ringVars, lineVars, givenVars, TypeOK, InUseStable
  <1> QED
    BY <1>1, <1>2, <1>3, <1>4, <1>5, <1>6, <1>7, <1>8, <1>9 DEF Next, Host

\* IInv holds in every state of the library and its application.
THEOREM Invariance == Spec => []IInv
  BY InitIInv, NextIInv, PTL DEF Spec

\* gecko_bglib.c keeps its variables in their types: no index leaves the ring.
THEOREM TypeCorrect == Spec => []TypeOK
  BY Invariance, PTL DEF IInv

\* The pointer gecko_get_event returns stays valid until the handler returns,
\* whatever the length of the queue and however many commands the handler sends.
THEOREM InUseNeverOverwritten == Spec => []InUseStable
  BY Invariance, PTL DEF IInv

-----------------------------------------------------------------------------
(* The events on the wire. *)

Events(s) == FoldLeft(AddEvent, <<>>, s)

\* FoldLeft goes through a sequence from its first element on.
LEMMA EventsUnfold ==
  ASSUME NEW T, NEW s \in Seq(T)
  PROVE  \E g : /\ g[0] = <<>>
                /\ \A k \in 1..Len(s) : g[k] = AddEvent(g[k - 1], s[k])
                /\ Events(s) = g[Len(s)]
  <1> DEFINE Step(G, d) ==
               IF d = {} THEN <<>> ELSE AddEvent(G[d \ {Max(d)}], s[Max(d)])
             Iter(G, n) == G = [d \in SUBSET (1..n) |-> Step(G, d)]
             F == CHOOSE G : Iter(G, Len(s))
             S == {n \in Nat : \E G : Iter(G, n)}
  <1>1. Len(s) \in Nat /\ DOMAIN s = 1..Len(s)
    OBVIOUS
  <1>2. 0 \in S
    <2>1. \A d \in SUBSET (1..0) : d = {}
      OBVIOUS
    <2> DEFINE G0 == [d \in SUBSET (1..0) |-> <<>>]
    <2>2. G0 = [d \in SUBSET (1..0) |-> Step(G0, d)]
      BY <2>1
    <2> QED
      BY <2>2
  <1>3. ASSUME NEW n \in Nat, n \in S PROVE n + 1 \in S
    <2>1. PICK G : Iter(G, n)
      BY <1>3
    <2> DEFINE H == [d \in SUBSET (1..n + 1) |->
                       IF n + 1 \in d THEN AddEvent(G[d \ {n + 1}], s[n + 1]) ELSE G[d]]
    <2>2. ASSUME NEW d \in SUBSET (1..n + 1) PROVE H[d] = Step(H, d)
      <3>1. CASE n + 1 \in d
        <4>1. Max(d) = n + 1
          BY <3>1, MaxOfInterval
        <4>2. d \ {n + 1} \in SUBSET (1..n + 1) /\ n + 1 \notin d \ {n + 1}
          OBVIOUS
        <4>3. H[d \ {n + 1}] = G[d \ {n + 1}]
          BY <4>2
        <4>4. H[d] = AddEvent(G[d \ {n + 1}], s[n + 1])
          BY <3>1
        <4> HIDE DEF H
        <4> QED
          BY <3>1, <4>1, <4>3, <4>4
      <3>2. CASE n + 1 \notin d
        <4>1. d \in SUBSET (1..n)
          BY <3>2
        <4>2. H[d] = Step(G, d)
          BY <2>1, <3>2, <4>1
        <4>3. CASE d # {}
          <5>1. d \ {Max(d)} \in SUBSET (1..n)
            BY <4>1
          <5>2. H[d \ {Max(d)}] = G[d \ {Max(d)}]
            BY <3>2, <5>1
          <5> QED
            BY <4>2, <4>3, <5>2
        <4> QED
          BY <4>2, <4>3
      <3> QED
        BY <3>1, <3>2
    <2>3. H = [d \in SUBSET (1..n + 1) |-> H[d]]
      OBVIOUS
    <2>4. Iter(H, n + 1)
      <3> HIDE DEF H
      <3> QED
        BY <2>2, <2>3
    <2> HIDE DEF H, Iter
    <2> QED
      BY <2>4
  <1>4. \A n \in Nat : n \in S
    <2> HIDE DEF S
    <2> QED
      BY <1>2, <1>3, CountingUp
  <1>5. Iter(F, Len(s))
    <2>1. \E G : Iter(G, Len(s))
      BY <1>1, <1>4
    <2> HIDE DEF Iter
    <2> QED
      BY <2>1
  <1>6. Events(s) = F[1..Len(s)]
    BY <1>1 DEF Events, FoldLeft, MapThenFoldSet
  <1> DEFINE g == [k \in 0..Len(s) |-> F[1..k]]
  <1>7. g[0] = <<>>
    <2>1. 1..0 = {} /\ 1..0 \in SUBSET (1..Len(s))
      OBVIOUS
    <2> HIDE DEF F
    <2>2. F[1..0] = <<>>
      BY <1>5, <2>1
    <2> QED
      BY <1>1, <2>2
  <1>8. ASSUME NEW k \in 1..Len(s) PROVE g[k] = AddEvent(g[k - 1], s[k])
    <2>1. /\ 1..k \in SUBSET (1..Len(s)) /\ 1..k # {}
          /\ (1..k) \ {k} = 1..k - 1
      <3>1. k \in Nat \ {0} /\ k <= Len(s)
        BY <1>1
      <3> QED
        BY <3>1, <1>1
    <2>2. Max(1..k) = k
      BY <1>1, MaxOfInterval
    <2> HIDE DEF F
    <2>3. F[1..k] = AddEvent(F[1..k - 1], s[k])
      BY <1>5, <2>1, <2>2
    <2> QED
      BY <1>1, <2>3
  <1>9. Events(s) = g[Len(s)]
    BY <1>1, <1>6
  <1> HIDE DEF g
  <1> QED
    BY <1>7, <1>8, <1>9

LEMMA ConcatAppend ==
  ASSUME NEW T, NEW a \in Seq(T), NEW b \in Seq(T), NEW x \in T
  PROVE  a \o Append(b, x) = Append(a \o b, x)
  <1>1. Append(b, x) = b \o <<x>> /\ <<x>> \in Seq(T)
    BY AppendIsConcat
  <1>2. a \o b \in Seq(T)
    OBVIOUS
  <1>3. Append(a \o b, x) = (a \o b) \o <<x>>
    BY <1>2, AppendIsConcat
  <1>4. a \o (b \o <<x>>) = (a \o b) \o <<x>>
    BY <1>1, ConcatAssociative
  <1> QED
    BY <1>1, <1>3, <1>4

LEMMA MoveHead ==
  ASSUME NEW T, NEW a \in Seq(T), NEW b \in Seq(T), b # <<>>
  PROVE  Append(a, Head(b)) \o Tail(b) = a \o b
  <1>1. /\ Head(b) \in T /\ Tail(b) \in Seq(T) /\ <<Head(b)>> \in Seq(T)
        /\ b = <<Head(b)>> \o Tail(b)
    OBVIOUS
  <1>2. Append(a, Head(b)) = a \o <<Head(b)>>
    BY <1>1, AppendIsConcat
  <1>3. (a \o <<Head(b)>>) \o Tail(b) = a \o (<<Head(b)>> \o Tail(b))
    BY <1>1, ConcatAssociative
  <1> QED
    BY <1>1, <1>2, <1>3

LEMMA TakeHead ==
  ASSUME NEW T, NEW a \in Seq(T), NEW b \in Seq(T), a # <<>>
  PROVE  /\ a \o b # <<>>
         /\ Head(a \o b) = Head(a)
         /\ Tail(a \o b) = Tail(a) \o b
  <1>1. Len(a) \in Nat \ {0} /\ Len(b) \in Nat /\ Tail(a) \in Seq(T)
    OBVIOUS
  <1>2. a \o b \in Seq(T) /\ Len(a \o b) > 0 /\ (a \o b)[1] = a[1]
    BY <1>1
  <1>3. Tail(a \o b) = Tail(a) \o b
    BY <1>1, <1>2
  <1> QED
    BY <1>1, <1>2, <1>3

LEMMA EventsType ==
  ASSUME NEW T, NEW s \in Seq(T)
  PROVE  Events(s) \in Seq(T)
  <1>1. PICK g : /\ g[0] = <<>>
                 /\ \A k \in 1..Len(s) : g[k] = AddEvent(g[k - 1], s[k])
                 /\ Events(s) = g[Len(s)]
    BY EventsUnfold
  <1> DEFINE S == {k \in Nat : k <= Len(s) => g[k] \in Seq(T)}
  <1>2. 0 \in S
    <2>1. <<>> \in Seq(T)
      OBVIOUS
    <2> QED
      BY <1>1, <2>1
  <1>3. ASSUME NEW k \in Nat, k \in S PROVE k + 1 \in S
    <2> SUFFICES ASSUME k + 1 <= Len(s) PROVE g[k + 1] \in Seq(T)
      OBVIOUS
    <2>1. k + 1 \in 1..Len(s) /\ s[k + 1] \in T /\ (k + 1) - 1 = k
      OBVIOUS
    <2>2. g[k] \in Seq(T)
      BY <1>3
    <2>3. g[k + 1] = AddEvent(g[k], s[k + 1])
      BY <1>1, <2>1
    <2> QED
      BY <2>1, <2>2, <2>3 DEF AddEvent
  <1>4. \A k \in Nat : k \in S
    <2> HIDE DEF S
    <2> QED
      BY <1>2, <1>3, CountingUp
  <1> QED
    BY <1>1, <1>4

LEMMA EventsOfNone == Events(<<>>) = <<>>
  <1>1. <<>> \in Seq({}) /\ Len(<<>>) = 0
    OBVIOUS
  <1> QED
    BY <1>1, EventsUnfold

LEMMA EventsAppend ==
  ASSUME NEW T, NEW s \in Seq(T), NEW m \in T
  PROVE  Events(Append(s, m)) = AddEvent(Events(s), m)
  <1> DEFINE t == Append(s, m)
  <1>1. /\ t \in Seq(T) /\ Len(s) \in Nat /\ Len(t) = Len(s) + 1
        /\ t[Len(s) + 1] = m /\ \A k \in 1..Len(s) : t[k] = s[k]
    OBVIOUS
  <1> HIDE DEF t
  <1>2. PICK g : /\ g[0] = <<>>
                 /\ \A k \in 1..Len(s) : g[k] = AddEvent(g[k - 1], s[k])
                 /\ Events(s) = g[Len(s)]
    BY EventsUnfold
  <1>3. PICK h : /\ h[0] = <<>>
                 /\ \A k \in 1..Len(t) : h[k] = AddEvent(h[k - 1], t[k])
                 /\ Events(t) = h[Len(t)]
    BY <1>1, EventsUnfold
  <1> DEFINE S == {k \in Nat : k <= Len(s) => h[k] = g[k]}
  <1>4. 0 \in S
    BY <1>2, <1>3
  <1>5. ASSUME NEW k \in Nat, k \in S PROVE k + 1 \in S
    <2> SUFFICES ASSUME k + 1 <= Len(s) PROVE h[k + 1] = g[k + 1]
      OBVIOUS
    <2>1. /\ k + 1 \in 1..Len(s) /\ k + 1 \in 1..Len(t) /\ (k + 1) - 1 = k
          /\ h[k] = g[k] /\ t[k + 1] = s[k + 1]
      BY <1>1, <1>5
    <2> QED
      BY <1>2, <1>3, <2>1
  <1>6. \A k \in Nat : k \in S
    <2> HIDE DEF S
    <2> QED
      BY <1>4, <1>5, CountingUp
  <1>7. h[Len(s)] = g[Len(s)]
    BY <1>1, <1>6
  <1>8. Len(t) \in 1..Len(t) /\ Len(t) - 1 = Len(s) /\ t[Len(t)] = m
    BY <1>1
  <1>9. h[Len(t)] = AddEvent(h[Len(s)], m)
    BY <1>3, <1>8
  <1> QED
    BY <1>2, <1>3, <1>7, <1>9 DEF t

\* The first message is an event, and the first one, or it is left out.
LEMMA EventsFirst ==
  ASSUME NEW T, NEW s \in Seq(T), s # <<>>
  PROVE  /\ Head(s) = Response => Events(s) = Events(Tail(s))
         /\ Head(s) # Response =>
                /\ Events(s) # <<>>
                /\ Head(Events(s)) = Head(s)
                /\ Tail(Events(s)) = Events(Tail(s))
  <1> DEFINE t == Tail(s)
             first == AddEvent(<<>>, Head(s))
  <1>1. /\ t \in Seq(T) /\ Len(s) \in Nat /\ Len(s) > 0 /\ Len(t) = Len(s) - 1
        /\ Head(s) = s[1] /\ Head(s) \in T /\ \A k \in 1..Len(t) : t[k] = s[k + 1]
    OBVIOUS
  <1>2. first \in Seq(T)
    BY <1>1 DEF AddEvent
  <1> HIDE DEF t, first
  <1>3. PICK g : /\ g[0] = <<>>
                 /\ \A k \in 1..Len(s) : g[k] = AddEvent(g[k - 1], s[k])
                 /\ Events(s) = g[Len(s)]
    BY EventsUnfold
  <1>4. PICK h : /\ h[0] = <<>>
                 /\ \A k \in 1..Len(t) : h[k] = AddEvent(h[k - 1], t[k])
                 /\ Events(t) = h[Len(t)]
    BY <1>1, EventsUnfold
  <1> DEFINE S == {k \in Nat : k <= Len(t) =>
                       h[k] \in Seq(T) /\ g[k + 1] = first \o h[k]}
  <1>5. 0 \in S
    <2>1. 1 \in 1..Len(s) /\ 1 - 1 = 0
      BY <1>1
    <2>2. g[1] = first
      BY <1>1, <1>3, <2>1 DEF first
    <2>3. <<>> \in Seq(T) /\ first \o <<>> = first
      BY <1>2, ConcatEmptySeq
    <2>4. h[0] \in Seq(T) /\ g[0 + 1] = first \o h[0]
      <3>1. 0 + 1 = 1
        OBVIOUS
      <3> QED
        BY <1>4, <2>2, <2>3, <3>1, Zenon
    <2> QED
      BY <2>4, Zenon
  <1>6. ASSUME NEW k \in Nat, k \in S PROVE k + 1 \in S
    <2> SUFFICES ASSUME k + 1 <= Len(t)
                 PROVE  h[k + 1] \in Seq(T) /\ g[k + 2] = first \o h[k + 1]
      OBVIOUS
    <2>1. /\ k + 1 \in 1..Len(t) /\ (k + 1) - 1 = k
          /\ k + 2 \in 1..Len(s) /\ (k + 2) - 1 = k + 1
          /\ t[k + 1] = s[k + 2] /\ t[k + 1] \in T
      BY <1>1
    <2>2. h[k] \in Seq(T) /\ g[k + 1] = first \o h[k]
      BY <1>6, <2>1
    <2>3. h[k + 1] = AddEvent(h[k], t[k + 1])
      BY <1>4, <2>1
    <2>4. g[k + 2] = AddEvent(g[k + 1], t[k + 1])
      BY <1>3, <2>1
    <2>5. first \o Append(h[k], t[k + 1]) = Append(first \o h[k], t[k + 1])
      BY <1>2, <2>1, <2>2, ConcatAppend, SMTT(30)
    <2>6. CASE t[k + 1] = Response
      BY <2>2, <2>3, <2>4, <2>6 DEF AddEvent
    <2>7. CASE t[k + 1] # Response
      <3>1. h[k + 1] = Append(h[k], t[k + 1]) /\ g[k + 2] = Append(first \o h[k], t[k + 1])
        BY <2>2, <2>3, <2>4, <2>7 DEF AddEvent
      <3>2. h[k + 1] \in Seq(T)
        BY <2>1, <2>2, <3>1
      <3> QED
        BY <2>5, <3>1, <3>2
    <2> QED
      BY <2>6, <2>7
  <1>7. \A k \in Nat : k \in S
    <2> HIDE DEF S
    <2> QED
      BY <1>5, <1>6, CountingUp
  <1>8. Len(t) \in Nat /\ Len(t) + 1 = Len(s)
    BY <1>1
  <1>9. Events(t) \in Seq(T) /\ Events(s) = first \o Events(t)
    <2>1. Len(t) \in S
      BY <1>7, <1>8
    <2>2. h[Len(t)] \in Seq(T) /\ g[Len(t) + 1] = first \o h[Len(t)]
      BY <1>8, <2>1
    <2> QED
      BY <1>3, <1>4, <1>8, <2>2
  <1>10. CASE Head(s) = Response
    BY <1>9, <1>10 DEF first, AddEvent, t
  <1>11. CASE Head(s) # Response
    <2>1. first = <<Head(s)>>
      BY <1>11 DEF first, AddEvent
    <2> QED
      BY <1>1, <1>9, <1>11, <2>1 DEF t
  <1> QED
    BY <1>10, <1>11

-----------------------------------------------------------------------------
(* The events in the queue. *)

LEMMA FunctionIsSequence ==
  ASSUME NEW T, NEW n \in Nat, NEW s \in [1..n -> T]
  PROVE  s \in Seq(T) /\ Len(s) = n
  OBVIOUS

\* The queue q read from slot a on, as far as slot b.
QueuedIn(q, a, b) ==
    [i \in 1..(b - a) % QueueLen |-> q[(a + i - 1) % QueueLen].header]

\* How many events are in the ring.
LEMMA RingLength ==
  ASSUME NEW a \in Slots, NEW b \in Slots
  PROVE  /\ (b - a) % QueueLen = IF b < a THEN b - a + QueueLen ELSE b - a
         /\ (b - a) % QueueLen \in 0..QueueLen - 1
  <1> DEFINE d == b - a
  <1>1. /\ QueueLen \in Nat \ {0} /\ d \in Int /\ d > -QueueLen /\ d < 2 * QueueLen
        /\ (d < 0 <=> b < a) /\ d < QueueLen
    BY QueueAssumption DEF Slots
  <1> HIDE DEF d
  <1>2. d % QueueLen =
            IF d < 0 THEN d + QueueLen ELSE IF d < QueueLen THEN d ELSE d - QueueLen
    BY <1>1, ModOnce, Zenon
  <1>3. d % QueueLen \in 0..QueueLen - 1
    BY <1>1, <1>2
  <1>4. d % QueueLen = IF b < a THEN d + QueueLen ELSE d
    BY <1>1, <1>2
  <1> QED
    BY <1>3, <1>4 DEF d

\* The slot of the i-th of them.
LEMMA RingSlot ==
  ASSUME NEW a \in Slots, NEW i \in 1..QueueLen
  PROVE  /\ (a + i - 1) % QueueLen \in Slots
         /\ (a + i - 1) % QueueLen =
                IF a + i - 1 < QueueLen THEN a + i - 1 ELSE a + i - 1 - QueueLen
  <1> DEFINE d == a + i - 1
  <1>1. /\ QueueLen \in Nat \ {0} /\ d \in Int /\ d > -QueueLen /\ d < 2 * QueueLen
        /\ d >= 0
    BY QueueAssumption DEF Slots
  <1> HIDE DEF d
  <1>2. d % QueueLen =
            IF d < 0 THEN d + QueueLen ELSE IF d < QueueLen THEN d ELSE d - QueueLen
    BY <1>1, ModOnce, Zenon
  <1>3. d % QueueLen \in Slots
    BY <1>1, <1>2 DEF Slots
  <1>4. d % QueueLen = IF d < QueueLen THEN d ELSE d - QueueLen
    BY <1>1, <1>2
  <1>5. a \in Int /\ i \in Int /\ QueueLen \in Int
    BY QueueAssumption DEF Slots
  <1> QED
    BY <1>3, <1>4, <1>5 DEF d

LEMMA AfterSlot ==
  ASSUME NEW a \in Slots
  PROVE  After(a) = IF a + 1 = QueueLen THEN 0 ELSE a + 1
  <1> DEFINE d == a + 1
  <1>1. /\ QueueLen \in Nat \ {0} /\ d \in Int /\ d > -QueueLen /\ d < 2 * QueueLen
        /\ d >= 0 /\ d <= QueueLen
    BY QueueAssumption DEF Slots
  <1> HIDE DEF d
  <1>2. d % QueueLen =
            IF d < 0 THEN d + QueueLen ELSE IF d < QueueLen THEN d ELSE d - QueueLen
    BY <1>1, ModOnce, Zenon
  <1>3. d % QueueLen = IF d = QueueLen THEN 0 ELSE d
    BY <1>1, <1>2
  <1> QED
    BY <1>3 DEF d, After

LEMMA QueuedType ==
  ASSUME NEW q \in [Slots -> Packet], NEW a \in Slots, NEW b \in Slots
  PROVE  /\ QueuedIn(q, a, b) \in Seq(0..MaxEvents)
         /\ Len(QueuedIn(q, a, b)) = IF b < a THEN b - a + QueueLen ELSE b - a
         /\ Len(QueuedIn(q, a, b)) \in 0..QueueLen - 1
         /\ \A i \in 1..Len(QueuedIn(q, a, b)) :
                /\ i \in 1..QueueLen
                /\ QueuedIn(q, a, b)[i] = q[(a + i - 1) % QueueLen].header
  <1> DEFINE n == (b - a) % QueueLen
  <1>1. /\ n \in 0..QueueLen - 1 /\ QueueLen \in Nat
        /\ n = IF b < a THEN b - a + QueueLen ELSE b - a
    BY RingLength, QueueAssumption
  <1> HIDE DEF n
  <1>2. \A i \in 1..n : q[(a + i - 1) % QueueLen].header \in 0..MaxEvents
    <2> TAKE i \in 1..n
    <2>1. i \in 1..QueueLen
      BY <1>1
    <2>2. (a + i - 1) % QueueLen \in Slots
      BY <2>1, RingSlot
    <2> QED
      BY <2>2 DEF Packet
  <1>3. QueuedIn(q, a, b) = [i \in 1..n |-> q[(a + i - 1) % QueueLen].header]
    BY DEF QueuedIn, n
  <1>4. QueuedIn(q, a, b) \in [1..n -> 0..MaxEvents]
    BY <1>2, <1>3, Zenon
  <1>5. QueuedIn(q, a, b) \in Seq(0..MaxEvents) /\ Len(QueuedIn(q, a, b)) = n
    <2> DEFINE s == QueuedIn(q, a, b)
    <2>1. n \in Nat /\ s \in [1..n -> 0..MaxEvents]
      BY <1>1, <1>4
    <2> HIDE DEF s
    <2>2. s \in Seq(0..MaxEvents) /\ Len(s) = n
      BY <2>1, FunctionIsSequence
    <2> QED
      BY <2>2 DEF s
  <1>6. \A i \in 1..n : i \in 1..QueueLen
    BY <1>1
  <1>7. \A i \in 1..n : QueuedIn(q, a, b)[i] = q[(a + i - 1) % QueueLen].header
    BY <1>3
  <1> QED
    BY <1>1, <1>5, <1>6, <1>7, Zenon

\* An event is stored behind the others, in a slot that is none of theirs.
LEMMA QueuedAfterStore ==
  ASSUME NEW q \in [Slots -> Packet], NEW a \in Slots, NEW b \in Slots, After(b) # a,
         NEW p \in Packet
  PROVE  QueuedIn([q EXCEPT ![b] = p], a, After(b)) = Append(QueuedIn(q, a, b), p.header)
  <1> DEFINE qq == [q EXCEPT ![b] = p]
             bb == After(b)
             s == QueuedIn(q, a, b)
             t == QueuedIn(qq, a, bb)
             u == Append(s, p.header)
  <1>1. /\ QueueLen \in Nat \ {0} /\ a \in 0..QueueLen - 1 /\ b \in 0..QueueLen - 1
        /\ bb \in Slots /\ qq \in [Slots -> Packet]
        /\ bb = IF b + 1 = QueueLen THEN 0 ELSE b + 1
    BY QueueAssumption, AfterSlot, AfterIsSlot DEF Slots
  <1>2. /\ s \in Seq(0..MaxEvents)
        /\ Len(s) = IF b < a THEN b - a + QueueLen ELSE b - a
        /\ \A i \in 1..Len(s) : s[i] = q[(a + i - 1) % QueueLen].header
    BY QueuedType
  <1>3. /\ t \in Seq(0..MaxEvents)
        /\ Len(t) = IF bb < a THEN bb - a + QueueLen ELSE bb - a
        /\ \A i \in 1..Len(t) : t[i] = qq[(a + i - 1) % QueueLen].header
    <2>1. bb \in Slots /\ qq \in [Slots -> Packet]
      BY <1>1
    <2> HIDE DEF qq, bb
    <2> QED
      BY <2>1, QueuedType, Zenon
  <1>4. \A i \in Slots : qq[i] = IF i = b THEN p ELSE q[i]
    OBVIOUS
  <1>5. p.header \in 0..MaxEvents
    BY DEF Packet
  <1> HIDE DEF s, t, qq
  <1>6. Len(s) \in Nat /\ Len(t) = Len(s) + 1 /\ Len(t) <= QueueLen
    BY <1>1, <1>2, <1>3
  <1>7. ASSUME NEW i \in 1..Len(t)
        PROVE  /\ (a + i - 1) % QueueLen \in Slots
               /\ (a + i - 1) % QueueLen = b <=> i = Len(t)
    <2>1. i \in 1..QueueLen
      BY <1>1, <1>6
    <2> DEFINE k == (a + i - 1) % QueueLen
    <2>2. k \in Slots /\ k = IF a + i - 1 < QueueLen THEN a + i - 1 ELSE a + i - 1 - QueueLen
      BY <2>1, RingSlot
    <2> HIDE DEF k
    <2>3. k = b <=> i = Len(t)
      BY <1>1, <1>2, <1>6, <2>1, <2>2
    <2> QED
      BY <2>2, <2>3 DEF k
  <1>8. u \in Seq(0..MaxEvents) /\ Len(u) = Len(t)
    BY <1>2, <1>5, <1>6
  <1>9. ASSUME NEW i \in 1..Len(t) PROVE t[i] = u[i]
    <2>1. CASE i = Len(t)
      <3>1. t[i] = p.header
        BY <1>3, <1>4, <1>7, <2>1
      <3> QED
        BY <1>2, <1>5, <1>6, <2>1, <3>1
    <2>2. CASE i # Len(t)
      <3>1. i \in 1..Len(s)
        BY <1>6, <2>2
      <3>2. t[i] = q[(a + i - 1) % QueueLen].header
        BY <1>3, <1>4, <1>7, <2>2
      <3>3. t[i] = s[i]
        BY <1>2, <3>1, <3>2
      <3> QED
        BY <1>2, <1>5, <3>1, <3>3
    <2> QED
      BY <2>1, <2>2
  <1>10. t = u
    <2> HIDE DEF u
    <2> QED
      BY <1>3, <1>8, <1>9, SeqEqual
  <1> QED
    BY <1>10 DEF t, u, s, qq

\* The first event is taken out.
LEMMA QueuedAfterTake ==
  ASSUME NEW q \in [Slots -> Packet], NEW a \in Slots, NEW b \in Slots, a # b
  PROVE  /\ QueuedIn(q, a, b) # <<>>
         /\ Head(QueuedIn(q, a, b)) = q[a].header
         /\ QueuedIn(q, After(a), b) = Tail(QueuedIn(q, a, b))
  <1> DEFINE aa == After(a)
             s == QueuedIn(q, a, b)
             t == QueuedIn(q, aa, b)
             u == Tail(s)
  <1>1. /\ QueueLen \in Nat \ {0} /\ a \in 0..QueueLen - 1 /\ b \in 0..QueueLen - 1
        /\ aa \in Slots
        /\ aa = IF a + 1 = QueueLen THEN 0 ELSE a + 1
    BY QueueAssumption, AfterSlot, AfterIsSlot DEF Slots
  <1>2. /\ s \in Seq(0..MaxEvents)
        /\ Len(s) = IF b < a THEN b - a + QueueLen ELSE b - a
        /\ Len(s) \in 0..QueueLen - 1
        /\ \A i \in 1..Len(s) : s[i] = q[(a + i - 1) % QueueLen].header
    BY QueuedType
  <1>3. /\ t \in Seq(0..MaxEvents)
        /\ Len(t) = IF b < aa THEN b - aa + QueueLen ELSE b - aa
        /\ Len(t) \in 0..QueueLen - 1
        /\ \A i \in 1..Len(t) : t[i] = q[(aa + i - 1) % QueueLen].header
    <2>1. aa \in Slots
      BY <1>1
    <2> HIDE DEF aa
    <2> QED
      BY <2>1, QueuedType, Zenon
  <1> HIDE DEF s, t, aa
  <1>4. Len(s) \in Nat \ {0} /\ Len(t) = Len(s) - 1
    <2>1. Len(s) = IF b < a THEN b - a + QueueLen ELSE b - a
      BY <1>2
    <2>2. Len(t) = IF b < aa THEN b - aa + QueueLen ELSE b - aa
      BY <1>3
    <2> QED
      BY <1>1, <2>1, <2>2
  <1>5. s # <<>> /\ Head(s) = s[1]
    BY <1>2, <1>4
  <1>6. s[1] = q[a].header
    <2>1. 1 \in 1..Len(s) /\ 1 \in 1..QueueLen
      BY <1>1, <1>4
    <2>2. (a + 1 - 1) % QueueLen = a
      BY <1>1, <2>1, RingSlot DEF Slots
    <2> QED
      BY <1>2, <2>1, <2>2
  <1>7. ASSUME NEW i \in 1..Len(t)
        PROVE  (aa + i - 1) % QueueLen = (a + (i + 1) - 1) % QueueLen
    <2>1. i \in 1..QueueLen /\ i + 1 \in 1..QueueLen
      BY <1>1, <1>2, <1>4
    <2> DEFINE k == (aa + i - 1) % QueueLen
               l == (a + (i + 1) - 1) % QueueLen
    <2>2. k = IF aa + i - 1 < QueueLen THEN aa + i - 1 ELSE aa + i - 1 - QueueLen
      BY <1>1, <2>1, RingSlot
    <2>3. l = IF a + (i + 1) - 1 < QueueLen THEN a + (i + 1) - 1
              ELSE a + (i + 1) - 1 - QueueLen
      <3> DEFINE j == i + 1
      <3>1. j \in 1..QueueLen
        BY <2>1
      <3> HIDE DEF j
      <3>2. (a + j - 1) % QueueLen = IF a + j - 1 < QueueLen THEN a + j - 1
                                     ELSE a + j - 1 - QueueLen
        BY <3>1, RingSlot
      <3> QED
        BY <3>2 DEF j
    <2> HIDE DEF k, l
    <2>4. k = l
      BY <1>1, <2>1, <2>2, <2>3
    <2> QED
      BY <2>4 DEF k, l
  <1>8. u \in Seq(0..MaxEvents) /\ Len(u) = Len(t)
    BY <1>2, <1>4, <1>5
  <1>9. ASSUME NEW i \in 1..Len(t) PROVE t[i] = u[i]
    <2>1. i + 1 \in 1..Len(s) /\ u[i] = s[i + 1]
      BY <1>2, <1>4, <1>5
    <2>2. s[i + 1] = q[(a + (i + 1) - 1) % QueueLen].header
      BY <1>2, <2>1
    <2> QED
      BY <1>3, <1>7, <2>1, <2>2
  <1>10. t = u
    <2> HIDE DEF u
    <2> QED
      BY <1>3, <1>8, <1>9, SeqEqual
  <1> QED
    BY <1>5, <1>6, <1>10 DEF t, s, u, aa

-----------------------------------------------------------------------------
(* Events stay in their order. *)

\* The numbers of the events in the queue, junk apart, then those of the events on the
\* wire, go up, from above that of the event delivered last to that of the one sent last.
Ordered(onQueue, onWire, current, last) ==
    /\ current <= last
    /\ \A i \in 1..Len(onQueue) :
          onQueue[i] = Junk \/ (current < onQueue[i] /\ onQueue[i] <= last)
    /\ \A i \in 1..Len(onWire) : current < onWire[i] /\ onWire[i] <= last
    /\ \A i, j \in 1..Len(onQueue) :
          i < j => onQueue[i] = Junk \/ onQueue[j] = Junk \/ onQueue[i] < onQueue[j]
    /\ \A i, j \in 1..Len(onWire) : i < j => onWire[i] < onWire[j]
    /\ \A i \in 1..Len(onQueue), j \in 1..Len(onWire) : onQueue[i] < onWire[j]

LEMMA OrderedLost ==
  ASSUME NEW a \in Seq(Nat), NEW b \in Seq(Nat), NEW c \in Nat, NEW n \in Nat,
         Ordered(a, b, c, n), b # <<>>
  PROVE  Ordered(a, Tail(b), c, n)
  <1>1. /\ Len(b) \in Nat \ {0} /\ Len(Tail(b)) = Len(b) - 1
        /\ \A i \in 1..Len(Tail(b)) : Tail(b)[i] = b[i + 1] /\ i + 1 \in 1..Len(b)
    OBVIOUS
  <1> DEFINE t == Tail(b)
  <1> HIDE DEF t
  <1>2. \A i \in 1..Len(t) : t[i] = b[i + 1] /\ i + 1 \in 1..Len(b) /\ i \in Nat
    BY <1>1 DEF t
  <1>3. \A i, j \in 1..Len(t) : i < j => i + 1 < j + 1
    OBVIOUS
  <1>4. Ordered(a, t, c, n)
    BY <1>2, <1>3 DEF Ordered
  <1> QED
    BY <1>4 DEF t

LEMMA OrderedJunk ==
  ASSUME NEW a \in Seq(Nat), NEW b \in Seq(Nat), NEW c \in Nat, NEW n \in Nat,
         Ordered(a, b, c, n)
  PROVE  Ordered(Append(a, Junk), b, c, n)
  <1> DEFINE q == Append(a, Junk)
  <1>1. /\ Len(a) \in Nat /\ Len(q) = Len(a) + 1
        /\ \A i \in 1..Len(q) : q[i] = IF i \in 1..Len(a) THEN a[i] ELSE Junk
    <2>1. Junk \in Nat
      BY DEF Junk
    <2>2. /\ Len(q) = Len(a) + 1 /\ q[Len(a) + 1] = Junk
          /\ \A i \in 1..Len(a) : q[i] = a[i]
      BY <2>1, AppendProperties
    <2> HIDE DEF q
    <2>3. Len(a) \in Nat
      OBVIOUS
    <2> QED
      BY <2>2, <2>3
  <1> HIDE DEF q
  <1>2. \A i \in 1..Len(q) : q[i] = Junk \/ (c < q[i] /\ q[i] <= n)
    BY <1>1 DEF Ordered
  <1>3. \A i, j \in 1..Len(q) : i < j => q[i] = Junk \/ q[j] = Junk \/ q[i] < q[j]
    BY <1>1 DEF Ordered
  <1>4. \A i \in 1..Len(q), j \in 1..Len(b) : q[i] < b[j]
    <2>1. \A j \in 1..Len(b) : b[j] \in Nat /\ c < b[j]
      BY DEF Ordered
    <2>2. \A j \in 1..Len(b) : Junk < b[j]
      BY <2>1 DEF Junk
    <2>3. \A i \in 1..Len(a), j \in 1..Len(b) : a[i] < b[j]
      BY DEF Ordered
    <2> QED
      BY <1>1, <2>2, <2>3
  <1>5. Ordered(q, b, c, n)
    BY <1>2, <1>3, <1>4 DEF Ordered
  <1> QED
    BY <1>5 DEF q

LEMMA OrderedRead ==
  ASSUME NEW a \in Seq(Nat), NEW b \in Seq(Nat), NEW c \in Nat, NEW n \in Nat,
         Ordered(a, b, c, n), b # <<>>
  PROVE  Ordered(Append(a, Head(b)), Tail(b), c, n)
  <1> DEFINE t == Tail(b)
             q == Append(a, Head(b))
  <1>1. /\ Len(a) \in Nat /\ Len(b) \in Nat \ {0} /\ Len(t) = Len(b) - 1
        /\ \A i \in 1..Len(t) : t[i] = b[i + 1] /\ i + 1 \in 1..Len(b) /\ 1 < i + 1
        /\ 1 \in 1..Len(b) /\ Head(b) = b[1] /\ b[1] \in Nat
    OBVIOUS
  <1>2. /\ Len(q) = Len(a) + 1
        /\ \A i \in 1..Len(q) :
              q[i] = IF i \in 1..Len(a) THEN a[i] ELSE b[1]
    BY <1>1, SMTT(30)
  <1>3. Ordered(a, t, c, n)
    BY OrderedLost
  <1> HIDE DEF t, q
  <1>4. \A i \in 1..Len(q) : q[i] = Junk \/ (c < q[i] /\ q[i] <= n)
    BY <1>1, <1>2 DEF Ordered
  <1>5. \A i \in 1..Len(a) : a[i] < b[1]
    BY <1>1 DEF Ordered
  <1>6. \A i, j \in 1..Len(q) : i < j => q[i] = Junk \/ q[j] = Junk \/ q[i] < q[j]
    <2> SUFFICES ASSUME NEW i \in 1..Len(q), NEW j \in 1..Len(q), i < j
                 PROVE  q[i] = Junk \/ q[j] = Junk \/ q[i] < q[j]
      OBVIOUS
    <2>1. i \in 1..Len(a)
      BY <1>1, <1>2
    <2>2. CASE j \in 1..Len(a)
      BY <1>2, <1>3, <2>1, <2>2 DEF Ordered
    <2>3. CASE j \notin 1..Len(a)
      BY <1>2, <1>5, <2>1, <2>3
    <2> QED
      BY <2>2, <2>3
  <1>7. \A j \in 1..Len(t) : b[1] < t[j]
    BY <1>1 DEF Ordered
  <1>8. \A i \in 1..Len(q), j \in 1..Len(t) : q[i] < t[j]
    BY <1>2, <1>3, <1>7 DEF Ordered
  <1>9. Ordered(q, t, c, n)
    BY <1>3, <1>4, <1>6, <1>8 DEF Ordered
  <1> QED
    BY <1>9 DEF q, t

LEMMA OrderedTaken ==
  ASSUME NEW a \in Seq(Nat), NEW b \in Seq(Nat), NEW c \in Nat, NEW n \in Nat,
         Ordered(a, b, c, n), a # <<>>
  PROVE  /\ Head(a) = Junk => Ordered(Tail(a), b, c, n)
         /\ Head(a) # Junk => Ordered(Tail(a), b, Head(a), n) /\ Head(a) > c
  <1> DEFINE t == Tail(a)
  <1>1. /\ Len(a) \in Nat \ {0} /\ Len(t) = Len(a) - 1
        /\ \A i \in 1..Len(t) : t[i] = a[i + 1] /\ i + 1 \in 1..Len(a) /\ 1 < i + 1
        /\ 1 \in 1..Len(a) /\ Head(a) = a[1] /\ a[1] \in Nat
    OBVIOUS
  <1> HIDE DEF t
  <1>2. \A i, j \in 1..Len(t) : i < j => t[i] = Junk \/ t[j] = Junk \/ t[i] < t[j]
    <2> SUFFICES ASSUME NEW i \in 1..Len(t), NEW j \in 1..Len(t), i < j
                 PROVE  t[i] = Junk \/ t[j] = Junk \/ t[i] < t[j]
      OBVIOUS
    <2>1. i + 1 < j + 1 /\ i + 1 \in 1..Len(a) /\ j + 1 \in 1..Len(a)
      BY <1>1
    <2>2. a[i + 1] = Junk \/ a[j + 1] = Junk \/ a[i + 1] < a[j + 1]
      BY <2>1 DEF Ordered
    <2> QED
      BY <1>1, <2>2
  <1>3. \A i \in 1..Len(t), j \in 1..Len(b) : t[i] < b[j]
    BY <1>1 DEF Ordered
  <1>4. \A i, j \in 1..Len(b) : i < j => b[i] < b[j]
    BY DEF Ordered
  <1>5. ASSUME a[1] = Junk PROVE Ordered(t, b, c, n)
    <2>1. \A i \in 1..Len(t) : t[i] = Junk \/ (c < t[i] /\ t[i] <= n)
      BY <1>1 DEF Ordered
    <2>2. c <= n /\ \A i \in 1..Len(b) : c < b[i] /\ b[i] <= n
      BY DEF Ordered
    <2> QED
      BY <1>2, <1>3, <1>4, <2>1, <2>2 DEF Ordered
  <1>6. ASSUME a[1] # Junk PROVE Ordered(t, b, a[1], n) /\ a[1] > c
    <2>1. a[1] > c /\ a[1] <= n
      BY <1>1, <1>6 DEF Ordered
    <2>2. \A i \in 1..Len(t) : t[i] = Junk \/ (a[1] < t[i] /\ t[i] <= n)
      BY <1>1, <1>6 DEF Ordered
    <2>3. \A i \in 1..Len(b) : a[1] < b[i] /\ b[i] <= n
      BY <1>1 DEF Ordered
    <2>4. Ordered(t, b, a[1], n)
      BY <1>2, <1>3, <1>4, <2>1, <2>2, <2>3 DEF Ordered
    <2> QED
      BY <2>1, <2>4
  <1> QED
    BY <1>1, <1>5, <1>6 DEF t

LEMMA OrderedSent ==
  ASSUME NEW a \in Seq(Nat), NEW b \in Seq(Nat), NEW c \in Nat, NEW n \in Nat,
         Ordered(a, b, c, n)
  PROVE  Ordered(a, Append(b, n + 1), c, n + 1)
  <1> DEFINE q == Append(b, n + 1)
  <1>1. /\ Len(b) \in Nat /\ Len(q) = Len(b) + 1 /\ q[Len(b) + 1] = n + 1
        /\ \A i \in 1..Len(b) : q[i] = b[i]
    <2>1. n + 1 \in Nat
      OBVIOUS
    <2> QED
      BY <2>1, AppendProperties
  <1> HIDE DEF q
  <1>2. \A i \in 1..Len(q) : q[i] = IF i \in 1..Len(b) THEN b[i] ELSE n + 1
    BY <1>1
  <1>3. /\ c <= n + 1
        /\ \A i \in 1..Len(a) :
              a[i] < n + 1 /\ (a[i] = Junk \/ (c < a[i] /\ a[i] <= n + 1))
    BY DEF Ordered, Junk
  <1>4. \A i \in 1..Len(b) : c < b[i] /\ b[i] < n + 1 /\ b[i] <= n + 1
    BY DEF Ordered
  <1>5. c < n + 1
    BY DEF Ordered
  <1>6. \A i \in 1..Len(q) : c < q[i] /\ q[i] <= n + 1
    BY <1>2, <1>4, <1>5, SMTT(30)
  <1>7. \A i, j \in 1..Len(q) : i < j => q[i] < q[j]
    <2> SUFFICES ASSUME NEW i \in 1..Len(q), NEW j \in 1..Len(q), i < j
                 PROVE  q[i] < q[j]
      OBVIOUS
    <2>1. i \in 1..Len(b)
      BY <1>1
    <2>2. CASE j \in 1..Len(b)
      BY <1>2, <2>1, <2>2 DEF Ordered
    <2>3. CASE j \notin 1..Len(b)
      BY <1>2, <1>4, <2>1, <2>3
    <2> QED
      BY <2>2, <2>3
  <1>8. \A i \in 1..Len(a), j \in 1..Len(q) : a[i] < q[j]
    BY <1>2, <1>3 DEF Ordered
  <1>9. Ordered(a, q, c, n + 1)
    BY <1>3, <1>6, <1>7, <1>8 DEF Ordered
  <1> QED
    BY <1>9 DEF q

-----------------------------------------------------------------------------
(* What a step does to the events that are sent and not yet delivered. *)

Unmoved == UNCHANGED <<Queued, EventsOnWire>>

\* The next event on the wire goes to the queue, or is lost; junk joins the queue.
MovedToQueue ==
    /\ EventsOnWire # <<>>
    /\ Queued' = Append(Queued, Head(EventsOnWire))
    /\ EventsOnWire' = Tail(EventsOnWire)

Lost ==
    /\ EventsOnWire # <<>>
    /\ UNCHANGED Queued
    /\ EventsOnWire' = Tail(EventsOnWire)
    /\ Full \/ failures > 0 \/ rest

JunkQueued ==
    /\ Queued' = Append(Queued, Junk)
    /\ UNCHANGED EventsOnWire
    /\ rest

Taken ==
    /\ Queued # <<>>
    /\ Queued' = Tail(Queued)
    /\ UNCHANGED EventsOnWire
    /\ given'.header = Head(Queued)
    /\ latest' = IF Head(Queued) = Junk THEN latest ELSE Head(Queued)
    /\ UNCHANGED sent

Sent ==
    /\ sent < MaxEvents
    /\ Len(Undelivered) < MaxBacklog
    /\ sent' = sent + 1
    /\ UNCHANGED Queued
    /\ EventsOnWire' = Append(EventsOnWire, sent + 1)
    /\ UNCHANGED givenVars

LEMMA QueuedIsQueuedIn ==
  /\ Queued = QueuedIn(queue, r, w)
  /\ Queued' = QueuedIn(queue', r', w')
  /\ EventsOnWire = Events(wire)
  /\ EventsOnWire' = Events(wire')
  BY DEF Queued, QueuedIn, EventsOnWire, Events

LEMMA UndeliveredType ==
  ASSUME TypeOK
  PROVE  Queued \in Seq(0..MaxEvents) /\ EventsOnWire \in Seq(0..MaxEvents)
  BY QueuedIsQueuedIn, QueuedType, EventsType DEF TypeOK

\* A message leaves the wire, and nothing is stored but, perhaps, an event.
LEMMA WireMoves ==
  ASSUME TypeOK, wire # <<>>, wire' = Tail(wire),
         \/ UNCHANGED ringVars /\ (Head(wire) # Response => Full \/ failures > 0 \/ rest)
         \/ /\ Head(wire) # Response /\ ~Full
            /\ \E p \in Packet : p.header = Head(wire) /\ Store(p)
  PROVE  Unmoved \/ MovedToQueue \/ Lost
  <1>1. /\ wire \in Seq(0..MaxEvents) /\ Head(wire) \in 0..MaxEvents
        /\ queue \in [Slots -> Packet] /\ w \in Slots /\ r \in Slots
    <2>1. wire \in Seq(0..MaxEvents)
      BY DEF TypeOK
    <2>2. Head(wire) \in 0..MaxEvents
      BY <2>1, HeadTailProperties
    <2> QED
      BY <2>1, <2>2 DEF TypeOK
  <1>2. CASE Head(wire) = Response
    <2>1. EventsOnWire' = EventsOnWire
      BY <1>1, <1>2, EventsFirst, QueuedIsQueuedIn
    <2> QED
      BY <1>2, <2>1, QueuedIsQueuedIn DEF ringVars, Unmoved
  <1>3. CASE Head(wire) # Response
    <2>1. /\ EventsOnWire # <<>> /\ EventsOnWire' = Tail(EventsOnWire)
          /\ Head(EventsOnWire) = Head(wire)
      BY <1>1, <1>3, EventsFirst, QueuedIsQueuedIn
    <2>2. CASE UNCHANGED ringVars /\ (Full \/ failures > 0 \/ rest)
      BY <2>1, <2>2, QueuedIsQueuedIn DEF ringVars, Lost
    <2>3. ASSUME ~Full, NEW p \in Packet, p.header = Head(wire), Store(p)
          PROVE  MovedToQueue
      <3>1. QueuedIn(queue', r', w') = Append(QueuedIn(queue, r, w), p.header)
        BY <1>1, <2>3, QueuedAfterStore DEF Store, Full
      <3> QED
        BY <2>1, <2>3, <3>1, QueuedIsQueuedIn DEF MovedToQueue
    <2> QED
      BY <1>3, <2>2, <2>3
  <1> QED
    BY <1>2, <1>3

LEMMA ReadMoves ==
  ASSUME TypeOK, ReadMessage
  PROVE  Unmoved \/ MovedToQueue \/ Lost \/ JunkQueued
  <1>1. CASE UNCHANGED <<ringVars, wire>>
    BY <1>1, QueuedIsQueuedIn DEF ringVars, Unmoved
  <1>2. wire # <<>> => Head(wire) \in 0..MaxEvents
    BY HeadTailProperties DEF TypeOK
  <1>3. queue \in [Slots -> Packet] /\ w \in Slots /\ r \in Slots
    BY DEF TypeOK
  <1>4. CASE ReadEvent
    <2> DEFINE p == [header |-> Head(wire), data |-> Head(wire)]
    <2>1. p \in Packet /\ p.header = Head(wire)
      BY <1>2, <1>4 DEF ReadEvent, Packet
    <2>2. IF Full THEN UNCHANGED ringVars ELSE Store(p)
      BY <1>4 DEF ReadEvent
    <2>3. wire # <<>> /\ Head(wire) # Response /\ wire' = Tail(wire)
      BY <1>4 DEF ReadEvent
    <2> HIDE DEF p
    <2> QED
      BY <2>1, <2>2, <2>3, WireMoves
  <1>5. CASE ReadFails
    <2> DEFINE p == [header |-> Head(wire), data |-> queue[w].data]
    <2>1. failures > 0
      BY <1>5 DEF ReadFails
    <2>2. \/ UNCHANGED <<ringVars, wire>>
          \/ /\ wire # <<>> /\ wire' = Tail(wire)
             /\ UNCHANGED ringVars \/ (Head(wire) # Response /\ ~Full /\ Store(p))
      BY <1>5 DEF ReadFails, lineVars
    <2>3. wire # <<>> => p \in Packet /\ p.header = Head(wire)
      BY <1>2, <1>3 DEF Packet
    <2> HIDE DEF p
    <2> QED
      BY <1>1, <2>1, <2>2, <2>3, WireMoves
  <1>6. CASE ReadRest
    <2> DEFINE p == [header |-> Junk, data |-> Junk]
    <2>1. rest
      BY <1>6 DEF ReadRest
    <2>2. \/ UNCHANGED <<ringVars, wire>>
          \/ wire # <<>> /\ wire' = Tail(wire) /\ UNCHANGED ringVars
          \/ ~Full /\ Store(p) /\ UNCHANGED wire
      BY <1>6 DEF ReadRest
    <2>3. p \in Packet /\ p.header = Junk
      BY BoundAssumption DEF Packet, Junk
    <2> HIDE DEF p
    <2>4. CASE ~Full /\ Store(p) /\ UNCHANGED wire
      <3>1. QueuedIn(queue', r', w') = Append(QueuedIn(queue, r, w), p.header)
        BY <1>3, <2>3, <2>4, QueuedAfterStore DEF Store, Full
      <3> QED
        BY <2>1, <2>3, <2>4, <3>1, QueuedIsQueuedIn DEF JunkQueued
    <2>5. CASE wire # <<>> /\ wire' = Tail(wire) /\ UNCHANGED ringVars
      BY <2>1, <2>5, WireMoves
    <2> QED
      BY <1>1, <2>2, <2>4, <2>5
  <1> QED
    BY <1>4, <1>5, <1>6 DEF ReadMessage

LEMMA StepMoves ==
  ASSUME TypeOK, [Next]_vars
  PROVE  \/ /\ Unmoved \/ MovedToQueue \/ Lost \/ JunkQueued
            /\ UNCHANGED <<givenVars, sent>>
            /\ phase = "poll" => phase' = "poll"
         \/ Taken
         \/ Sent /\ UNCHANGED phase
  <1>1. CASE Deliver
    <2>1. /\ w # r /\ given' = queue[r] /\ r' = After(r)
          /\ latest' = IF queue[r].header = Junk THEN latest ELSE queue[r].header
          /\ UNCHANGED <<queue, w, wire, sent>>
      BY <1>1 DEF Deliver, Hand, lineVars
    <2>2. /\ QueuedIn(queue, r, w) # <<>>
          /\ Head(QueuedIn(queue, r, w)) = queue[r].header
          /\ QueuedIn(queue, After(r), w) = Tail(QueuedIn(queue, r, w))
      BY <2>1, QueuedAfterTake DEF TypeOK
    <2> QED
      BY <2>1, <2>2, QueuedIsQueuedIn DEF Taken
  <1>2. CASE Fetch \/ AwaitResponse
    BY <1>2, ReadMoves DEF Fetch, AwaitResponse
  <1>3. CASE Command \/ Handled \/ ReceiveJunk \/ PollAgain \/ UNCHANGED vars
    <2>1. /\ UNCHANGED <<queue, r, w, wire, givenVars, sent>>
          /\ phase = "poll" => phase' = "poll"
      BY <1>3 DEF Command, Handled, ReceiveJunk, PollAgain, ringVars, lineVars, vars
    <2> QED
      BY <2>1, QueuedIsQueuedIn DEF Unmoved
  <1>4. CASE ReceiveResponse \/ IgnoreResponse
    <2>1. /\ wire # <<>> /\ Head(wire) = Response /\ wire' = Tail(wire)
          /\ UNCHANGED <<queue, r, w, givenVars, sent>>
          /\ phase = "poll" => phase' = "poll"
      BY <1>4 DEF ReceiveResponse, IgnoreResponse, ringVars
    <2>2. Events(wire') = Events(wire)
      BY <2>1, EventsFirst DEF TypeOK
    <2> QED
      BY <2>1, <2>2, QueuedIsQueuedIn DEF Unmoved
  <1>5. CASE SendEvent
    <2>1. /\ sent < MaxEvents /\ Len(Undelivered) < MaxBacklog /\ sent' = sent + 1
          /\ wire' = Append(wire, sent + 1) /\ UNCHANGED <<queue, r, w, givenVars, phase>>
      BY <1>5 DEF SendEvent, ringVars
    <2>2. sent + 1 \in 0..MaxEvents /\ sent + 1 # Response
      BY <2>1, BoundAssumption DEF TypeOK, Response
    <2>3. Events(wire') = Append(Events(wire), sent + 1)
      BY <2>1, <2>2, EventsAppend DEF TypeOK, AddEvent
    <2> QED
      BY <2>1, <2>3, QueuedIsQueuedIn DEF Sent
  <1>6. CASE Respond
    <2>1. /\ wire' = Append(wire, Response)
          /\ UNCHANGED <<queue, r, w, givenVars, sent, phase>>
      BY <1>6 DEF Respond, ringVars
    <2>2. Response \in 0..MaxEvents
      BY BoundAssumption DEF Response
    <2>3. Events(wire') = Events(wire)
      BY <2>1, <2>2, EventsAppend DEF TypeOK, AddEvent
    <2> QED
      BY <2>1, <2>3, QueuedIsQueuedIn DEF Unmoved
  <1> QED
    BY <1>1, <1>2, <1>3, <1>4, <1>5, <1>6 DEF Next, Host

-----------------------------------------------------------------------------

InSequence == Ordered(Queued, EventsOnWire, latest, sent)

LEMMA InitInSequence == Init => InSequence
  <1> SUFFICES ASSUME Init PROVE InSequence
    OBVIOUS
  <1>1. TypeOK
    BY InitIInv DEF IInv
  <1>2. EventsOnWire = <<>>
    BY QueuedIsQueuedIn, EventsOfNone DEF Init
  <1>3. Len(Queued) = 0
    BY <1>1, QueuedIsQueuedIn, QueuedType DEF Init, TypeOK, Slots
  <1> QED
    BY <1>2, <1>3 DEF Init, InSequence, Ordered

\* The order is kept, and what is delivered is next in it.
LEMMA NextInSequence ==
  ASSUME IInv, InSequence, [Next]_vars
  PROVE  /\ InSequence'
         /\ phase = "poll" /\ phase' = "handle" /\ given'.header # Junk
                => given'.header > latest
  <1> DEFINE a == Queued
             b == EventsOnWire
             c == latest
             n == sent
  <1>1. TypeOK /\ TypeOK'
    BY NextIInv DEF IInv
  <1>2. a \in Seq(0..MaxEvents) /\ b \in Seq(0..MaxEvents)
    BY <1>1, UndeliveredType
  <1>3. a \in Seq(Nat) /\ b \in Seq(Nat)
    BY <1>2, BoundAssumption, SeqMonotonic
  <1>4. c \in Nat /\ n \in Nat
    BY <1>1 DEF TypeOK
  <1>5. Ordered(a, b, c, n)
    BY DEF InSequence
  <1> HIDE DEF a, b, c, n
  <1> DEFINE Steady == UNCHANGED <<givenVars, sent>> /\ (phase = "poll" => phase' = "poll")
  <1>6. CASE Unmoved /\ Steady
    BY <1>6 DEF Unmoved, InSequence, givenVars
  <1>7. CASE MovedToQueue /\ Steady
    <2>1. b # <<>> /\ Queued' = Append(a, Head(b)) /\ EventsOnWire' = Tail(b)
      BY <1>7 DEF MovedToQueue, a, b
    <2>2. Ordered(Append(a, Head(b)), Tail(b), c, n)
      BY <1>3, <1>4, <1>5, <2>1, OrderedRead
    <2> QED
      BY <1>7, <2>1, <2>2 DEF InSequence, givenVars, c, n
  <1>8. CASE Lost /\ Steady
    <2>1. b # <<>> /\ Queued' = a /\ EventsOnWire' = Tail(b)
      BY <1>8 DEF Lost, a, b
    <2>2. Ordered(a, Tail(b), c, n)
      BY <1>3, <1>4, <1>5, <2>1, OrderedLost
    <2> QED
      BY <1>8, <2>1, <2>2 DEF InSequence, givenVars, c, n
  <1>9. CASE JunkQueued /\ Steady
    <2>1. Queued' = Append(a, Junk) /\ EventsOnWire' = b
      BY <1>9 DEF JunkQueued, a, b
    <2>2. Ordered(Append(a, Junk), b, c, n)
      BY <1>3, <1>4, <1>5, OrderedJunk
    <2> QED
      BY <1>9, <2>1, <2>2 DEF InSequence, givenVars, c, n
  <1>10. CASE Taken
    <2>1. /\ a # <<>> /\ Queued' = Tail(a) /\ EventsOnWire' = b
          /\ given'.header = Head(a) /\ sent' = n
          /\ latest' = IF Head(a) = Junk THEN c ELSE Head(a)
      BY <1>10 DEF Taken, a, b, c, n
    <2>2. /\ Head(a) = Junk => Ordered(Tail(a), b, c, n)
          /\ Head(a) # Junk => Ordered(Tail(a), b, Head(a), n) /\ Head(a) > c
      BY <1>3, <1>4, <1>5, <2>1, OrderedTaken
    <2> QED
      BY <2>1, <2>2 DEF InSequence, c
  <1>11. CASE Sent /\ UNCHANGED phase
    <2>1. /\ Queued' = a /\ EventsOnWire' = Append(b, n + 1)
          /\ latest' = c /\ sent' = n + 1
      BY <1>11 DEF Sent, givenVars, a, b, c, n
    <2>2. Ordered(a, Append(b, n + 1), c, n + 1)
      BY <1>3, <1>4, <1>5, OrderedSent
    <2> QED
      BY <1>11, <2>1, <2>2 DEF InSequence
  <1> QED
    BY <1>1, <1>6, <1>7, <1>8, <1>9, <1>10, <1>11, StepMoves

\* gecko_get_event delivers the events of the NCP in the order in which it sent them and
\* none of them twice: with a ring of any length, full or not, and whatever reads fail
\* and whatever is made, then, of the rest of a message.
THEOREM DeliveredInOrder == Spec => InOrder
  <1> DEFINE Next1 == phase = "poll" /\ phase' = "handle" /\ given'.header # Junk
  <1>1. IInv /\ InSequence /\ [Next]_vars => (IInv /\ InSequence)'
    BY NextIInv, NextInSequence
  <1>2. IInv /\ InSequence /\ [Next]_vars => [Next1 => given'.header > latest]_vars
    BY NextInSequence
  <1> QED
    BY <1>1, <1>2, InitIInv, InitInSequence, PTL DEF Spec, InOrder

-----------------------------------------------------------------------------
(* The queue and the wire are a channel. *)

\* With room in the queue for the events that are undelivered, and reads that do
\* not fail, each step is one of the channel's, or none.
LEMMA NextIsChannelNext ==
  ASSUME IInv, [Next]_vars, MaxBacklog < QueueLen, failures = 0, ~rest,
         Len(Undelivered) <= MaxBacklog
  PROVE  /\ [Channel!Next]_Channel!vars
         /\ failures' = 0 /\ ~rest'
         /\ Len(Undelivered') <= MaxBacklog
  <1> DEFINE a == Queued
             b == EventsOnWire
             T == 0..MaxEvents
  <1>1. TypeOK /\ TypeOK'
    BY NextIInv DEF IInv
  <1>2. a \in Seq(T) /\ b \in Seq(T)
    BY <1>1, UndeliveredType
  <1>3. Undelivered = a \o b /\ Undelivered' = Queued' \o EventsOnWire'
    BY DEF Undelivered
  <1> HIDE DEF a, b, T
  <1>4. Len(a) + Len(b) <= MaxBacklog /\ Len(a) \in Nat /\ Len(b) \in Nat
    BY <1>2, <1>3
  <1>5. failures' = 0 /\ ~rest'
    BY DEF Next, Host, Deliver, Fetch, PollAgain, IgnoreResponse, Command, AwaitResponse,
       ReceiveResponse, ReceiveJunk, Handled, SendEvent, Respond, ReadMessage, ReadEvent,
       ReadFails, ReadRest, vars, lineVars
  <1>6. CASE Unmoved /\ UNCHANGED <<givenVars, sent>>
    BY <1>5, <1>6 DEF Unmoved, Undelivered, Channel!vars, givenVars
  <1>7. CASE MovedToQueue /\ UNCHANGED <<givenVars, sent>>
    <2>1. b # <<>> /\ Queued' = Append(a, Head(b)) /\ EventsOnWire' = Tail(b)
      BY <1>7 DEF MovedToQueue, a, b
    <2>2. Append(a, Head(b)) \o Tail(b) = a \o b
      BY <1>2, <2>1, MoveHead
    <2>3. UNCHANGED Undelivered
      BY <1>3, <2>1, <2>2
    <2> QED
      BY <1>5, <1>7, <2>3 DEF Channel!vars, givenVars
  <1>8. ~Lost /\ ~JunkQueued
    <2> SUFFICES ASSUME Lost PROVE FALSE
      BY DEF JunkQueued
    <2>1. Full /\ Len(b) > 0
      BY <1>2 DEF Lost, b
    <2>2. Len(a) = QueueLen - 1
      <3>1. /\ QueueLen \in Nat \ {0} /\ w \in 0..QueueLen - 1 /\ r \in 0..QueueLen - 1
            /\ r = IF w + 1 = QueueLen THEN 0 ELSE w + 1
        BY <1>1, <2>1, QueueAssumption, AfterSlot DEF TypeOK, Slots, Full
      <3>2. Len(a) = IF w < r THEN w - r + QueueLen ELSE w - r
        BY <1>1, QueuedIsQueuedIn, QueuedType DEF a, TypeOK
      <3> QED
        BY <3>1, <3>2
    <2> QED
      BY <1>4, <2>1, <2>2, QueueAssumption, BoundAssumption
  <1>9. CASE Taken
    <2>1. /\ a # <<>> /\ Queued' = Tail(a) /\ EventsOnWire' = b
          /\ given'.header = Head(a)
      BY <1>9 DEF Taken, a, b
    <2>2. /\ a \o b # <<>> /\ Head(a \o b) = Head(a) /\ Tail(a \o b) = Tail(a) \o b
      BY <1>2, <2>1, TakeHead
    <2>3. Len(Tail(a \o b)) <= MaxBacklog
      BY <1>2, <1>4, <2>1, <2>2, BoundAssumption
    <2> QED
      BY <1>3, <1>5, <2>1, <2>2, <2>3 DEF Channel!Next, Channel!Deliver
  <1>10. CASE Sent
    <2>1. /\ Queued' = a /\ EventsOnWire' = Append(b, sent + 1) /\ sent < MaxEvents
          /\ given' = given /\ Len(a \o b) < MaxBacklog
      BY <1>3, <1>10 DEF Sent, givenVars, a, b
    <2>2. sent + 1 \in EventIds /\ sent + 1 \in T
      BY <1>1, <2>1, BoundAssumption DEF TypeOK, EventIds, T
    <2>3. a \o Append(b, sent + 1) = Append(a \o b, sent + 1)
      BY <1>2, <2>2, ConcatAppend
    <2>4. Len(Append(a \o b, sent + 1)) <= MaxBacklog
      BY <1>2, <2>1, <2>2, BoundAssumption
    <2>5. Channel!Send(sent + 1)
      BY <1>3, <2>1, <2>3 DEF Channel!Send
    <2> QED
      BY <1>3, <1>5, <2>1, <2>2, <2>3, <2>4, <2>5 DEF Channel!Next
  <1> QED
    BY <1>1, <1>6, <1>7, <1>8, <1>9, <1>10, StepMoves

\* For the application the library is a lossless channel of events: for every
\* BGLIB_QUEUE_LEN, as long as fewer events than that are undelivered at a time and
\* no read fails.  Liveness apart, this is what gecko_bglib.h promises.
THEOREM RingIsChannel ==
  ASSUME MaxBacklog < QueueLen, MaxFailures = 0
  PROVE  Spec => ImplementsChannel
  <1> DEFINE Inv == IInv /\ failures = 0 /\ ~rest /\ Len(Undelivered) <= MaxBacklog
  <1>1. Init => Channel!Init /\ Inv
    <2> SUFFICES ASSUME Init PROVE Channel!Init /\ Inv
      OBVIOUS
    <2>1. IInv
      BY InitIInv
    <2>2. EventsOnWire = <<>>
      BY QueuedIsQueuedIn, EventsOfNone DEF Init
    <2>3. Queued \in Seq(0..MaxEvents) /\ Len(Queued) = 0
      BY <2>1, QueuedIsQueuedIn, QueuedType DEF Init, IInv, TypeOK, Slots
    <2>4. Undelivered = <<>>
      BY <2>2, <2>3 DEF Undelivered
    <2> QED
      BY <2>1, <2>4, BoundAssumption DEF Init, Channel!Init, Blank, Junk
  <1>2. Inv /\ [Next]_vars => Inv' /\ [Channel!Next]_Channel!vars
    BY NextIInv, NextIsChannelNext
  <1> QED
    BY <1>1, <1>2, PTL DEF Spec, ImplementsChannel, Channel!Spec

==============================================================================
