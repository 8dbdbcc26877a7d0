------------------------------ MODULE Applications ------------------------------
(***************************************************************************)
(* Five components that share no variable, composed: a behaviour is one of the       *)
(* packets of telemetry, of the under-voltage control, of the table of blocks, of    *)
(* the clock or of the calendar, as it begins, and the others stand still.           *)
(***************************************************************************)
EXTENDS Telemetry

(* Of UnderVoltage, BlockTable, Clock and Calendar; Telemetry declares its own.       *)
CONSTANTS DetCount, Delay, Elsewhere, Size, MaxMoves, MaxMeets, MaxJumps, UvcMaxOps,
          MaxBlocks, MaxLength, MaxMaster, MaxRegistered, BctMaxOps,
          Word, CycleMs, SecondMs, MaxCycle, Start, Ahead, MaxNow, MaxCommands, ClkMaxOps,
          FirstYear, LastYear

VARIABLE part

-------------------------------------------------------------------------------
VARIABLES is_enabled, level, count, rules, log, seen, full, timeline, duty, sf, v, turn,
          overtaken, fate, meets, jumps, uvc_ops
UVC == INSTANCE UnderVoltage WITH MaxOps <- UvcMaxOps, ops <- uvc_ops

uvcVars == <<is_enabled, level, count, rules, log, seen, full, timeline, duty, sf, v, turn,
             overtaken, fate, meets, jumps, uvc_ops>>

VARIABLES pos, is_active, length, cmds, master, combining, trapped, registered, cleared,
          ran, bct_ops
BCT == INSTANCE BlockTable WITH MaxOps <- BctMaxOps, ops <- bct_ops

bctVars == <<pos, is_active, length, cmds, master, combining, trapped, registered, cleared,
             ran, bct_ops>>

VARIABLES clk_master, initial_utime, utime, rtc_sync_ena, rtc, clk_timeline, now, era, clk_ops
CLK == INSTANCE Clock WITH
           MaxOps <- ClkMaxOps, master <- clk_master, timeline <- clk_timeline, ops <- clk_ops

clkVars == <<clk_master, initial_utime, utime, rtc_sync_ena, rtc, clk_timeline, now, era,
             clk_ops>>

VARIABLES today, chip, sound, crossed
CAL == INSTANCE Calendar WITH rtc <- chip

calVars == <<today, chip, sound, crossed>>

ASSUME ApplicationsAssumption ==
    /\ UVC!UnderVoltageConstants /\ BCT!BlockTableConstants
    /\ CLK!ClockConstants /\ CAL!CalendarConstants

-------------------------------------------------------------------------------
AppsInit ==
    /\ part \in {"telemetry", "uvc", "blocks", "clock", "calendar"}
    /\ Init /\ BCT!Init /\ CAL!Init
    /\ UVC!Init /\ (part # "uvc" => v = 0)
    /\ CLK!Init /\ (part # "clock" => ~rtc_sync_ena)

TelemetryStep ==
    part = "telemetry" /\ Next /\ UNCHANGED <<part, uvcVars, bctVars, clkVars, calVars>>

UVCStep == part = "uvc" /\ UVC!Next /\ UNCHANGED <<part, vars, bctVars, clkVars, calVars>>

BCTStep == part = "blocks" /\ BCT!Next /\ UNCHANGED <<part, vars, uvcVars, clkVars, calVars>>

CLKStep == part = "clock" /\ CLK!Next /\ UNCHANGED <<part, vars, uvcVars, bctVars, calVars>>

CALStep == part = "calendar" /\ CAL!Next /\ UNCHANGED <<part, vars, uvcVars, bctVars, clkVars>>

AppsNext == TelemetryStep \/ UVCStep \/ BCTStep \/ CLKStep \/ CALStep

appsVars == <<part, vars, uvcVars, bctVars, clkVars, calVars>>

UVCCycle == part = "uvc" /\ UVC!Cycle /\ UNCHANGED <<part, vars, bctVars, clkVars, calVars>>

AppsSpec == AppsInit /\ [][AppsNext]_appsVars /\ WF_appsVars(UVCCycle)

(* The properties of the other modules: what each says is there.                 *)
Protected      == part = "uvc" => UVC!Protected
ReturnNotLost  == UVC!ReturnNotLost
ReturnUndoes   == UVC!ReturnUndoes
ClockAccurate  == CLK!ClockAccurate
CommandsOnTime == CLK!CommandsOnTime
RTCWithinADay  == CAL!RTCWithinADay
NoStaleCommand == [][BCT!RunsUncleared]_bctVars
===============================================================================
