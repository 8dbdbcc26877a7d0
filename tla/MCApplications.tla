----------------------------- MODULE MCApplications -----------------------------
(***************************************************************************)
(* Applications for TLC: every frame of tlm_frame.cpp, two blocks, words of 6 bits    *)
(* and two cycles to the second, so that the milliseconds overflow after 6.5 seconds   *)
(* and the master cycle turns over, and eleven years.                            *)
(***************************************************************************)
EXTENDS Applications

(* A level is declared in the third measurement, 8.4 s in the code; the delays of the   *)
(* blocks keep their order, and overlap as they do there: a RETURN can be answered      *)
(* while the last command of LEVEL1 (20 s) or of LEVEL2 (44 s) waits.                  *)
MCDelay == "SHED" :> {1, 6} @@ "SAFE" :> {2} @@ "SF_OFF" :> {6} @@ "LONG" :> {7}
        @@ "SHORT" :> {1} @@ "ARM0" :> {2} @@ "ARM1" :> {2} @@ "ARM2" :> {3} @@ "SF_ON" :> {3}
        @@ "TRANSITION" :> {2}
===============================================================================
