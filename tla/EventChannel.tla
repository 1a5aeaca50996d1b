----------------------------- MODULE EventChannel ----------------------------
(***************************************************************************)
(* What gecko_bglib promises the application about events (the comment at  *)
(* the top of gecko_bglib.h): those received while a command waits for its *)
(* response are queued and delivered later, so that every event is         *)
(* delivered once and in order, and the event being handled stays what it  *)
(* was.  ThunderboardApp's inbox is such a channel.                        *)
(***************************************************************************)
EXTENDS Naturals, Sequences

CONSTANT Events   \* what can be sent

VARIABLES
    chan,      \* events sent and not yet delivered
    current    \* the event delivered last

vars == <<chan, current>>

Init == chan = <<>> /\ current = 0

Send(e) == chan' = Append(chan, e) /\ UNCHANGED current

Deliver ==
    /\ chan # <<>>
    /\ current' = Head(chan)
    /\ chan' = Tail(chan)

Next == (\E e \in Events : Send(e)) \/ Deliver

Spec == Init /\ [][Next]_vars
==============================================================================
