------------------------------- MODULE MCDownlink -------------------------------
(* Downlink with durations of 0 to 3 seconds of 4 rounds, 3 s being too long.  *)
EXTENDS Downlink, TLC

MCReply == "carrier" :> 1 @@ "sub" :> 2
===============================================================================
