----------------------------- MODULE MCLedQueue ------------------------------
(* One job of each kind the worker knows; red flashes. *)
EXTENDS LedQueue, TLC

CONSTANTS cycle, on, off

MCKind == (Red :> "ON_OFF") @@ (cycle :> "ALTERNATE") @@ (on :> "ON") @@ (off :> "OFF")
==============================================================================
