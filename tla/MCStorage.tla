-------------------------------- MODULE MCStorage -------------------------------
(***************************************************************************)
(* Storage for TLC.  The timeline: two plain commands of one length, the command that  *)
(* deploys the stored block of two commands, and a clock of a few seconds.  The       *)
(* memories: three sectors of three pages, of which two blank ones are the end of the   *)
(* data.  The power: one load of each kind at least, two quantities on one board and    *)
(* three on the other.                                                          *)
(***************************************************************************)
EXTENDS Storage, TLC

Cmds     == {1, 2, 3}
Lengths  == 1 :> 11 @@ 2 :> 11 @@ 3 :> 12
DeployBy == 3 :> "SBC_0"
Stored   == "SBC_0" :> <<[cmd |-> 1, cycle |-> 1], [cmd |-> 2, cycle |-> 0],
                         [cmd |-> 2, cycle |-> 3]>>
Seconds  == {2, 3, 4}

MCRecorders == {"hk", "msn"}
AnyFilling  == "hk" :> 0..9 @@ "msn" :> {1}
Empty       == "hk" :> {0} @@ "msn" :> {0}

MCLoads    == {"RW", "HEATER", "MSN5V", "SF", "AQU", "OVCO"}
MCChannels == "PCU" :> 2 @@ "PDU" :> 3
MCHome     == "PCU" :> 1 @@ "PDU" :> 3
===============================================================================
