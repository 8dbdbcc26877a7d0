--------------------------------- MODULE Power ---------------------------------
(***************************************************************************)
(* The power distribution (EPS.cpp, PCU.cpp, PDU.cpp) and its commands         *)
(* (cmd_action_power.cpp): the switches of the loads, what the software and the *)
(* FRAM say of them, the two sides by which the boards are reached, and the     *)
(* channel of the multiplexer that is measured in each call of EPS_GetStatus.   *)
(*                                                                             *)
(* Assumed of the hardware: a pulse latches the switch of a load; RW and UNREG  *)
(* are on as long as their port is high; a restart of the processor makes its   *)
(* own pins inputs, and a reset of the boards those of the expanders.         *)
(***************************************************************************)
EXTENDS Naturals, Sequences

CONSTANTS Loads,        \* those of the loads below that this instance has
          Channels,     \* board -> the number of quantities measured in one round
          Home,         \* board -> the quantity at port 0 of its multiplexer
          MaxOps, MaxMishaps    \* bounds on commands and faults, and on lost writes

AllLoads == {"ADCS", "UNREG", "HEATER", "RW", "MSN5V", "SUBCAM", "SF", "MSN_UNREG_EN", "RW_EN",
             "AQU", "OVCO"}

Held   == {"UNREG", "RW"} \cap Loads
Direct == {"HEATER", "MSN_UNREG_EN", "RW_EN"} \cap Loads
Fed    == {"AQU", "OVCO"} \cap Loads        \* pins, behind the switch of the 5 V
Pulsed == Loads \ (Held \cup Direct \cup Fed)

Boards == {"PCU", "PDU"}
Sides  == {"A", "B"}

PowerConstants ==
    /\ {"MSN5V", "SF", "OVCO"} \subseteq Loads /\ Loads \subseteq AllLoads
    /\ Channels \in [Boards -> Nat \ {0}]
    /\ \A b \in Boards : Home[b] \in 1..Channels[b]

VARIABLES select,       \* the side in use
          access,       \* pcu_access_sts, pdu_access_sts: those that are Success
          broken,       \* the <<side, board>> that do not answer
          wired,        \* the boards whose pins are outputs
          cycle,        \* the step of the round of each board
          mux,          \* the quantity whose port the multiplexer selects
          on,           \* the switches
          pwr_sts, fram,
          agenda        \* the switches the running command has still to make

(* For the properties only. *)
VARIABLES odd,          \* the quantities whose value was taken at another port
          calm,         \* the calls of EPS_GetStatus since the last disturbance
          dropped,      \* switched off by a restart or an initialisation
          mishaps,      \* commands with a lost write, to a deaf board, or cut off
          struck,       \* the loads that these were about, until they are switched again
          order,        \* the last composite command, and what FRAM held then
          ops

eps   == <<select, access, broken, wired>>
meter == <<cycle, mux, odd, calm>>
sw    == <<on, pwr_sts, fram, dropped, mishaps, struck>>
vars  == <<eps, meter, sw, agenda, order, ops>>

Idle == agenda = <<>>
None == [cmd |-> "none", saved |-> {}, clean |-> FALSE]
Set(f, l, v) == [f EXCEPT ![l] = v]
All(v) == [b \in Boards |-> v]

Init ==
    /\ select = "A" /\ broken = {} /\ access = Boards /\ wired = Boards
    /\ cycle = All(1) /\ mux = All(1)
    /\ on = [l \in Loads |-> FALSE] /\ pwr_sts = on /\ fram = on
    /\ agenda = <<>>
    /\ odd = [b \in Boards |-> 1..Channels[b]] /\ calm = All(1)
    /\ dropped = {} /\ mishaps = 0 /\ struck = {} /\ order = None /\ ops = 0

Answers(b) == <<select, b>> \notin broken /\ b \in wired

-------------------------------------------------------------------------------
(* PCU_getAnalogTlm, PDU_getAnalogTlm: convert what was selected in the call     *)
(* before, select the next.  The end of a round leads to step 1, not to 0.      *)
NextChannel(b) == IF cycle[b] = Channels[b] THEN 1 ELSE cycle[b] + 1

(* Mutant: a round begins again with the step that only selects. *)
RoundFromZero(b) == IF cycle[b] = Channels[b] THEN 0 ELSE cycle[b] + 1

NextStep(b) == NextChannel(b)

Measured(b) ==
    IF cycle[b] # 0 /\ Answers(b) /\ mux[b] = cycle[b] THEN odd[b] \ {cycle[b]}
    ELSE odd[b] \cup ({cycle[b]} \ {0})

EPS_GetStatus ==
    /\ cycle' = [b \in Boards |-> IF b \in access THEN NextStep(b) ELSE cycle[b]]
    /\ mux' = [b \in Boards |-> IF b \in access /\ Answers(b) THEN NextChannel(b) ELSE mux[b]]
    /\ odd' = [b \in Boards |-> IF b \in access THEN Measured(b) ELSE odd[b]]
    /\ calm' = [b \in Boards |->
                  IF b \notin access THEN calm[b]
                  ELSE IF ~Answers(b) THEN 0
                  ELSE IF calm[b] > Channels[b] THEN calm[b] ELSE calm[b] + 1]

EPS_update == Idle /\ EPS_GetStatus /\ UNCHANGED <<eps, sw, agenda, order, ops>>

-------------------------------------------------------------------------------
(* PCU_init and PDU_init make the pins outputs, and low: the multiplexer is at    *)
(* port 0, and what the pins of the PDU held is off.                         *)
Reached(side, dead) == {b \in Boards : <<side, b>> \notin dead}

Off(loads) ==
    /\ on' = [l \in Loads |-> on[l] /\ l \notin loads]
    /\ dropped' = dropped \cup {l \in loads : on[l]}

(* ch is 0 to 2, and side B only when it is 1. *)
EPS_SELECT(side) ==
    LET boards == Reached(side, broken)
    IN  /\ select' = side
        /\ access' = boards
        /\ wired' = wired \cup boards
        /\ mux' = [b \in Boards |-> IF b \in boards THEN Home[b] ELSE mux[b]]
        /\ calm' = All(0)
        /\ Off(IF "PDU" \in boards THEN Held ELSE {})
        /\ UNCHANGED <<broken, cycle, odd, pwr_sts, fram, mishaps, struck>>

(* The boards restart, those that hang may answer again.  The command does not    *)
(* initialise them.                                                          *)
EPS_RESET ==
    /\ broken' \in SUBSET broken
    /\ wired' = {}
    /\ Off(Held)
    /\ UNCHANGED <<select, access, meter, pwr_sts, fram, mishaps, struck>>

(* EPS_init: side A, or else B, or else a reset and A again; then the first step *)
(* of the round when both answer.                                            *)
EPS_init ==
    LET reset == \A side \in Sides : Reached(side, broken) # Boards
        side  == IF ~reset /\ Reached("A", broken) # Boards THEN "B" ELSE "A"
    IN  \E dead \in IF reset THEN SUBSET broken ELSE {broken} :
          LET boards == Reached(side, dead)
              both   == boards = Boards
          IN  /\ broken' = dead /\ select' = side /\ access' = boards
              /\ wired' = IF reset THEN boards ELSE wired \cup boards
              /\ cycle' = All(IF both THEN 1 ELSE 0)
              /\ mux' = [b \in Boards |-> IF both THEN 1 ELSE Home[b]]
              /\ calm' = All(IF both THEN 1 ELSE 0)

-------------------------------------------------------------------------------
(* The writes of PWR_PDU_SET (four) and PWR_PDU_UNREG_SET (two or three), of which *)
(* one may be lost (0: none).  The acknowledgement is the last one, read back, and *)
(* a deaf board reads as low.                                                *)
Moves(l, v, lost) == lost # (IF l \in Held \/ v THEN 2 ELSE 1)

Acknowledged(l, v, lost) ==
    IF l \in Held THEN lost # (IF v THEN 2 ELSE 3) ELSE v => lost # 4

ReadsLow(l, v) == l \in Held => ~v

(* Mutant: the status is kept whatever the board said. *)
RecordAlways(l, v, ack) == pwr_sts' = Set(pwr_sts, l, v) /\ fram' = Set(fram, l, v)

Record(l, v, ack) ==
    /\ pwr_sts' = IF ack THEN Set(pwr_sts, l, v) ELSE pwr_sts
    /\ fram' = IF ack THEN Set(fram, l, v) ELSE fram

Switch(l, v, moved, ack, mishap) ==
    /\ on' = IF moved THEN Set(on, l, v) ELSE on
    /\ Record(l, v, ack)
    /\ dropped' = IF moved \/ ack THEN dropped \ {l} ELSE dropped
    /\ mishaps' = IF mishap THEN mishaps + 1 ELSE mishaps
    /\ struck' = IF mishap THEN struck \cup {l} ELSE IF moved THEN struck \ {l} ELSE struck
    /\ order' = IF mishap \/ ~moved THEN [order EXCEPT !.clean = FALSE] ELSE order

PWR_PDU(l, v) ==
    /\ IF "PDU" \notin access THEN Switch(l, v, FALSE, FALSE, FALSE)
       ELSE IF ~Answers("PDU") THEN Switch(l, v, FALSE, ReadsLow(l, v), TRUE)
       ELSE \E lost \in 0..4 :
              /\ lost # 0 => mishaps < MaxMishaps
              /\ Switch(l, v, Moves(l, v, lost), Acknowledged(l, v, lost), lost # 0)
    /\ EPS_GetStatus

PWR_pin(l, v) ==
    /\ Switch(l, v, TRUE, TRUE, FALSE)
    /\ IF l \in Direct THEN UNCHANGED meter ELSE EPS_GetStatus

(* The commands, as sequences of switches.  AQU and OVCO switch the 5 V with them. *)
Turn(l, v) == [load |-> l, value |-> v, saved |-> FALSE, as |-> l]

(* What FRAM_Read_PWR_STS finds for the load "as" when its turn has come. *)
Restore(l, as) == [load |-> l, value |-> FALSE, saved |-> TRUE, as |-> as]

PWR_(l, v) == IF l \in Fed THEN <<Turn("MSN5V", v), Turn(l, v)>> ELSE <<Turn(l, v)>>

(* The loads that this instance has not are passed over. *)
OFF(l)     == IF l \in Loads THEN <<Turn(l, FALSE)>> ELSE <<>>
RESTORE(l) == IF l \notin Loads THEN <<>>
              ELSE IF l \in Fed THEN <<Restore("MSN5V", l), Restore(l, l)>>
              ELSE <<Restore(l, l)>>

(* Mutant: the 5 V stay on. *)
SafeOff5VOn ==
    OFF("ADCS") \o OFF("UNREG") \o OFF("HEATER") \o OFF("RW") \o OFF("SUBCAM")
      \o OFF("SF") \o OFF("RW_EN") \o OFF("MSN_UNREG_EN") \o <<Turn("SF", TRUE)>>

PWR_SAFE_OFF ==
    OFF("ADCS") \o OFF("UNREG") \o OFF("HEATER") \o OFF("RW") \o OFF("MSN5V")
      \o OFF("SUBCAM") \o OFF("SF") \o OFF("RW_EN") \o OFF("MSN_UNREG_EN")
      \o <<Turn("SF", TRUE)>>

Cmd_POWER_REBOOT ==
    RESTORE("UNREG") \o RESTORE("HEATER") \o RESTORE("RW") \o RESTORE("ADCS")
      \o RESTORE("MSN5V") \o RESTORE("SUBCAM") \o RESTORE("SF")
      \o RESTORE("MSN_UNREG_EN") \o RESTORE("RW_EN") \o RESTORE("AQU") \o RESTORE("OVCO")

(* The next switch of the running command. *)
Step ==
    /\ ~Idle
    /\ LET e == Head(agenda)
           v == IF e.saved THEN fram[e.as] ELSE e.value
       IN  IF e.load \in Held \cup Pulsed THEN PWR_PDU(e.load, v) ELSE PWR_pin(e.load, v)
    /\ agenda' = Tail(agenda)
    /\ UNCHANGED <<eps, ops>>

-------------------------------------------------------------------------------
Op == ops < MaxOps /\ ops' = ops + 1

Command(name, steps) ==
    /\ Idle /\ Op
    /\ agenda' = steps
    /\ order' = [cmd |-> name, saved |-> {l \in Loads : fram[l]}, clean |-> TRUE]
    /\ UNCHANGED <<eps, meter, sw>>

(* cmdExec, for the two loads that are fed by the 5 V, and for the others.         *)
FedCommand == \E l \in Loads \cap Fed, v \in BOOLEAN : Command("switch", PWR_(l, v))

Ground ==
    \/ \E l \in Loads \ Fed, v \in BOOLEAN : Command("switch", PWR_(l, v))
    \/ Command("safe", PWR_SAFE_OFF)
    \/ Command("reboot", Cmd_POWER_REBOOT)
    \/ /\ Idle /\ Op
       /\ EPS_RESET \/ \E side \in Sides : EPS_SELECT(side)
       /\ order' = None
       /\ UNCHANGED agenda

(* A board no longer answers on a side. *)
Fail ==
    /\ Op
    /\ \E side \in Sides, b \in Boards : broken' = broken \cup {<<side, b>>}
    /\ order' = [order EXCEPT !.clean = FALSE]
    /\ UNCHANGED <<select, access, wired, meter, sw, agenda>>

(* The processor restarts, perhaps between a switch and its record in the FRAM. *)
Restart ==
    /\ Op
    /\ EPS_init
    /\ \E cut \in IF Idle THEN {FALSE} ELSE BOOLEAN :
         LET e   == Head(agenda)
             v   == IF e.saved THEN fram[e.as] ELSE e.value
             was == IF cut THEN Set(on, e.load, v) ELSE on
         IN  /\ cut => mishaps < MaxMishaps
             /\ mishaps' = IF cut THEN mishaps + 1 ELSE mishaps
             /\ struck' = IF cut THEN struck \cup {e.load} ELSE struck
             /\ on' = [l \in Loads |-> was[l] /\ l \in Pulsed]
             /\ dropped' = dropped \cup {l \in Loads \ Pulsed : was[l]}
    /\ odd' = [b \in Boards |-> 1..Channels[b]]
    /\ pwr_sts' = [l \in Loads |-> FALSE]
    /\ agenda' = <<>> /\ order' = None
    /\ UNCHANGED fram

Next == EPS_update \/ Step \/ FedCommand \/ Ground \/ Fail \/ Restart

Spec == Init /\ [][Next]_vars

-------------------------------------------------------------------------------
(* What the FRAM says of a load is how it is switched, through restarts, changes *)
(* of side and boards that fail, but for those whose last command had a write     *)
(* lost, was acknowledged by a deaf board or was cut off by a restart; and for    *)
(* those that a restart or EPS_SELECT has switched off since.                 *)
SavedAsSwitched == \A l \in Loads \ (dropped \cup struck) : on[l] = fram[l]

(* A value that EPS_GetStatus took at the wrong port, because EPS_SELECT moved     *)
(* the multiplexer under the round or a board was deaf, is replaced within one     *)
(* round and the call that finds the port again.                            *)
StraysHeal == \A b \in Boards : calm[b] > Channels[b] => odd[b] = {}

Powered == {l \in Loads : on[l] /\ (l \in Fed => on["MSN5V"])}

(* A composite command that met no fault has done its work.  PWR_SAFE_OFF leaves   *)
(* nothing powered but SF, though AQU and OVCO are not on its list.  POWER_REBOOT   *)
(* restores every load as it was saved but the 5 V, which end as OVCO was saved,   *)
(* also when AQU needs them: the restored loads switch each other.            *)
CompositesComplete ==
    Idle /\ order.clean =>
      /\ order.cmd = "safe" => Powered = {"SF"}
      /\ order.cmd = "reboot" =>
           {l \in Loads : on[l]} = IF "OVCO" \in order.saved THEN order.saved \cup {"MSN5V"}
                                   ELSE order.saved \ {"MSN5V"}
===============================================================================
