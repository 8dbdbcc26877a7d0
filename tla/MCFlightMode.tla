----------------------------- MODULE MCFlightMode -----------------------------
(* FlightMode with two modes that the default table allows and one that it     *)
(* does not (RESERVE1), and the blocks of the source scaled down: each ends     *)
(* its transition, some cycles after its first command.                       *)
EXTENDS FlightMode

MCMode == {"SAFE", "NORMAL", "RESERVE1"}

C(in, code) == [in |-> in, code |-> code, arg |-> "none"]
Start(in, m) == [in |-> in, code |-> "START_TRANSITION", arg |-> m]

MCBlock ==
    [BC_SL_ANY_TO_SAFE   |-> <<C(1, "OTHER"), C(3, "FINISH_TRANSITION")>>,
     BC_SL_ANY_TO_NORMAL |-> <<C(2, "FINISH_TRANSITION")>>,
     BC_UVC_LV2_ACTION   |-> <<Start(1, "SAFE"), C(2, "OTHER")>>]

MCDefaultTable ==
    [from \in MCMode |->
        [SAFE     |-> "BC_SL_ANY_TO_SAFE",
         NORMAL   |-> "BC_SL_ANY_TO_NORMAL",
         RESERVE1 |-> "none"]]

(* The ground starts and finishes transitions, clears the timeline, allows the  *)
(* reserved mode, and activates the rule of the low voltage again.           *)
AllowReserved ==
    [in |-> 0, code |-> "SET_TRANSITION_TABLE",
     arg |-> [from |-> "SAFE", to |-> "RESERVE1", block |-> "BC_SL_ANY_TO_NORMAL"]]

Rearm == [in |-> 0, code |-> "AH_ACTIVATE_RULE", arg |-> "BC_UVC_LV2_ACTION"]

NormalList ==
    [in |-> 0, code |-> "SET_MODE_LIST", arg |-> [mode |-> "NORMAL", list |-> "NEW"]]

MCGroundCommands ==
    {Start(0, "NORMAL"), Start(0, "RESERVE1"), C(0, "FINISH_TRANSITION"),
     C(0, "CLEAR_TIMELINE"), AllowReserved, Rearm, NormalList}
===============================================================================
