----------------------------- MODULE MCNcpLink -------------------------------
(* What is left of a message: nothing, its data, or data that looks like a message
   of two bytes, or like one that is too long. *)
EXTENDS NcpLink

MCTails == {<<>>, <<0, 1>>, <<EVT, 2>>, <<RSP, 3, 0>>}

(* No data, and data whose end looks like a response. *)
MCEventData == {<<>>, <<0, RSP>>}
==============================================================================
