-------------------------- MODULE MCThunderboardApp --------------------------
(* A small Thunderboard for TLC: two services, with a readable temperature
   sensor after a characteristic that is no sensor, a readable UV sensor (the one
   refresh_sensor_values leaves out) and a notifying acceleration sensor. *)
EXTENDS ThunderboardApp, TLC

MCNumSensors   == 3
MCRefreshed    == {1, 3}
MCHandles      == {10, 11, 12, 13}
MCServiceChars == << <<11, 10>>, <<12, 13>> >>
MCUuid         == (10 :> 1) @@ (11 :> 0) @@ (12 :> 2) @@ (13 :> 3)
MCReadable     == {10, 11, 12}
MCNotifying    == {13}
==============================================================================
