----------------------------- MODULE MCStartup -------------------------------
(* The options; the number 0, which is a level and no speed; and one that is neither, and
   does not fit log_level.  An option where a value is expected counts as 0, a number where
   an option is expected is none; the name of a port holds one character.  One job, and
   red. *)
EXTENDS Startup, TLC

MCAtoi(word) == IF word = "260" THEN 260 ELSE 0

MCCut(word) == CASE word = "0" -> "0" [] word = "260" -> "2" [] OTHER -> "-"

MCKind == ("colours" :> "ALTERNATE") @@ ("red" :> "ON_OFF")
==============================================================================
