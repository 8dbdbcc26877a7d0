------------------------------ MODULE UnderVoltage ------------------------------
(***************************************************************************)
(* The under-voltage control (UVC_app.cpp) with what answers it: the rules 0, 1    *)
(* and 2 of the anomaly handler (AnomalyHandler.cpp), which deploy the blocks of   *)
(* BlockCommandDefinisions.cpp on the timeline, and the commands of those blocks; *)
(* with the commands of others on the timeline, and the places they take          *)
(* (PL_deploy_block_cmd, as in PacketList).                                      *)
(*                                                                             *)
(* The unit of time is a turn of the block that holds ANOMALY_HANDLER and UVC:    *)
(* every turn brings a look at the log and then a measurement.                  *)
(***************************************************************************)
EXTENDS Integers, FiniteSets

CONSTANTS DetCount,     \* UVC_DEFAULT_DET_COUNT, 10
          Delay,        \* command of a block -> the turns from deployment to execution
          Elsewhere,    \* turns to which a command is moved whose time is taken: any
          Size,         \* TL_CMD_LIST_MAX, 32
          MaxMoves,     \* bounds on the commands of one block that are moved, and on the
          MaxMeets,     \* blocks of which one is moved or refused,
          MaxJumps,     \* bound on measurements that skip a range of the voltage
          MaxOps        \* bound on commands, restarts and other anomalies

(* Levels; the anomaly that declares one has its name, and a rule of its own. *)
Declared == {"LEVEL1", "LEVEL2", "RETURN"}

(* The ranges between the thresholds, from above RTN to below LV2. *)
Ranges == 0..3
Full == 0
Low  == 2
Dead == 3

(* Mutant: what RETURN deploys does not activate its own rule again. *)
BlockOnce(rule) ==
    CASE rule = "LEVEL1" -> {"SHED"}
      [] rule = "LEVEL2" -> {"SAFE", "SF_OFF", "LONG"}
      [] rule = "RETURN" -> {"SHORT", "ARM0", "ARM1", "SF_ON"}

(* BC_load_uvc_lv1_action, BC_load_uvc_lv2_action and BC_load_uvc_return_action. *)
Block(rule) ==
    CASE rule = "LEVEL1" -> {"SHED"}
      [] rule = "LEVEL2" -> {"SAFE", "SF_OFF", "LONG"}
      [] rule = "RETURN" -> {"SHORT", "ARM0", "ARM1", "ARM2", "SF_ON"}

(* A name may stand for several commands: SHED for the switching off of seven loads,  *)
(* TRANSITION for the sequence that START_TRANSITION deploys.                       *)
Commands == {"SHED", "SAFE", "SF_OFF", "LONG", "SHORT", "ARM0", "ARM1", "ARM2", "SF_ON",
             "TRANSITION"}

(* Mutant: one of them activates the wrong rule. *)
ArmsShifted(cmd) == CASE cmd = "ARM0" -> {"LEVEL1"} [] cmd = "ARM1" -> {"LEVEL1"}
                      [] cmd = "ARM2" -> {"RETURN"} [] OTHER -> {}

Arms(cmd) == CASE cmd = "ARM0" -> {"LEVEL1"} [] cmd = "ARM1" -> {"LEVEL2"}
               [] cmd = "ARM2" -> {"RETURN"} [] OTHER -> {}

UnderVoltageConstants ==
    /\ DetCount \in Nat /\ MaxJumps \in Nat /\ MaxOps \in Nat
    /\ Delay \in [Commands -> SUBSET (Nat \ {0})]
    /\ \A c \in Commands : Delay[c] # {}
    /\ Elsewhere \subseteq Nat /\ {Size, MaxMoves, MaxMeets} \subseteq Nat

VARIABLES is_enabled, level,
          count,        \* count_uvc_2, count_uvc_1 and count_uvc_rtn: the measurements
                        \* counted for LEVEL1, LEVEL2 and RETURN
          rules,        \* those that are active
          log,          \* the last two records of the log, the older first
          seen,         \* whether the handler has seen the last one
          full,         \* whether the log has no place left
          timeline,     \* <<turns left, command>>
          duty, sf,     \* what the blocks change
          v, turn

(* For the properties only. *)
VARIABLES overtaken,    \* the last answer found commands under way, or was one of two
          fate,         \* since the start: whether a command of a block was moved to another
                        \* time, or a command, a record or a rule was lost
          meets, jumps, ops

uvc   == <<is_enabled, level, count>>
ah    == <<rules, log, seen, full>>
craft == <<duty, sf>>
vars  == <<uvc, ah, timeline, craft, v, turn, overtaken, fate, meets, jumps, ops>>

NoCount == [l \in Declared |-> 0]

(* UVC_init_ and AH_init_, as the processor starts. *)
Boot ==
    /\ level' = "SUCCESS" /\ count' = NoCount
    /\ rules' = Declared /\ log' = <<"none", "none">> /\ seen' = TRUE /\ full' = FALSE
    /\ timeline' = {} /\ overtaken' = FALSE /\ fate' = "kept" /\ turn' = "AH"

Init ==
    /\ is_enabled = TRUE /\ level = "SUCCESS" /\ count = NoCount
    /\ rules = Declared /\ log = <<"none", "none">> /\ seen = TRUE /\ full = FALSE
    /\ timeline = {} /\ overtaken = FALSE /\ fate = "kept" /\ turn = "AH"
    /\ duty = "SHORT" /\ sf = TRUE
    /\ v \in Ranges /\ meets = 0 /\ jumps = 0 /\ ops = 0

-------------------------------------------------------------------------------
(* PL_deploy_block_cmd: a list without room for the block is cleared.  A command may   *)
(* meet another at its time, and is then moved or refused; what comes after a moved     *)
(* command is late by as many cycles, and may meet another as well; what comes after a   *)
(* refused one is left out.  A turn has several cycles: to have the same turn need not be *)
(* to meet.                                                                    *)
Entries(c) == {<<d, c>> : d \in Delay[c]}

Worse(f1, f2) == IF "lost" \in {f1, f2} THEN "lost" ELSE IF f1 = "kept" THEN f2 ELSE f1

(* What a block of commands finds.                                                 *)
Found == [list |-> timeline, fate |-> fate, meets |-> meets]

Room(s, block) ==
    IF Size - Cardinality(s.list) < Cardinality(block) /\ s.list # {}
    THEN [list |-> {}, fate |-> "lost", meets |-> s.meets] ELSE s

MayMeet(list, block) ==
    {e \in block : \E t \in list, f \in block : t[1] = f[1] /\ f[1] <= e[1]}

Befores(part) == {part} \cup {{e \in part : e[1] < f[1]} : f \in part}
Moves(part)   ==
    UNION {[moved -> Elsewhere] : moved \in {m \in SUBSET part : Cardinality(m) <= MaxMoves}}

Put(s, block, left, moves) ==
    [list |-> s.list \cup (block \ (left \cup DOMAIN moves))
                     \cup {<<moves[e], e[2]>> : e \in DOMAIN moves},
     fate |-> IF left # {} THEN "lost" ELSE Worse(s.fate, "moved"),
     meets |-> s.meets + 1]

InTime(s, block) ==
    [list |-> s.list \cup block, fate |-> s.fate, meets |-> s.meets]

Puts(s, block) ==
    LET late == MayMeet(s.list, block)
    IN  {InTime(s, block)} \cup
        (IF s.meets < MaxMeets
         THEN {p \in UNION {{Put(s, block, late \ part, moves) : moves \in Moves(part)} :
                               part \in Befores(late)} : p.list # s.list \cup block}
         ELSE {})

Deploys(s, cmds) ==
    LET block == UNION {Entries(c) : c \in cmds} IN Puts(Room(s, block), block)

-------------------------------------------------------------------------------
(* AL_add_anomaly: the same again only lengthens the run of the last record, and a full  *)
(* log takes nothing; the count goes up, so that the handler looks.                  *)
AL_add(a) ==
    /\ log' = IF full \/ log[2] = a THEN log ELSE <<log[2], a>>
    /\ seen' = FALSE
    /\ fate' = IF full /\ a \in Declared THEN "lost" ELSE fate

(* AH_exec_: the handler begins at the last record of the time before, which it     *)
(* looks at a second time, and then the new one.  Both find a rule if it is active, *)
(* and the answer inactivates it.                                             *)
Examined == {log[1], log[2]}

Answer == IF seen THEN {} ELSE Examined \cap rules

(* respond_to_anomaly_, for one record. *)
Deployed(s, a) == IF a \in Answer THEN Deploys(s, Block(a)) ELSE {s}

AH_exec ==
    /\ turn = "AH" /\ turn' = "UVC"
    /\ seen' = TRUE
    /\ log' = <<"none", log[2]>>
    /\ rules' = rules \ Answer
    /\ \E mid \in Deployed(Found, log[1]) : \E end \in Deployed(mid, log[2]) :
          timeline' = end.list /\ fate' = end.fate /\ meets' = end.meets
    /\ IF Answer = {} THEN UNCHANGED overtaken
       ELSE overtaken' = (timeline # {} \/ \E r1, r2 \in Answer : r1 # r2)
    /\ UNCHANGED <<uvc, full, craft, v, jumps, ops>>

-------------------------------------------------------------------------------
(* UVC_execute_: at most one condition holds, and only its count goes on; all go    *)
(* back to 0 when none holds.                                                *)
Beyond(l, volt) ==
    CASE l = "LEVEL2" -> volt = Dead /\ level = "LEVEL1"
      [] l = "LEVEL1" -> volt >= Low /\ level \notin {"LEVEL1", "LEVEL2"}
      [] l = "RETURN" -> volt = Full /\ level \in {"LEVEL1", "LEVEL2"}

Condition(l, volt) == Beyond(l, volt)

Measure(volt) ==
    \/ \E l \in Declared :
          /\ Condition(l, volt)
          /\ count' = [count EXCEPT ![l] = @ + 1]
          /\ IF count[l] > DetCount THEN level' = l /\ AL_add(l)
             ELSE UNCHANGED <<level, log, seen, fate>>
    \/ /\ \A l \in Declared : ~Condition(l, volt)
       /\ count' = NoCount
       /\ UNCHANGED <<level, log, seen, fate>>

Jump(volt) == IF volt - v \in -1..1 THEN 0 ELSE 1

Due == {t \in timeline : t[1] = 0}

(* A turn ends with the measurement; what is due has been executed by then. *)
UVC_execute ==
    /\ turn = "UVC" /\ turn' = "AH" /\ Due = {}
    /\ \E volt \in Ranges :
          /\ jumps + Jump(volt) <= MaxJumps
          /\ v' = volt /\ jumps' = jumps + Jump(volt)
          /\ IF is_enabled THEN Measure(volt) ELSE UNCHANGED <<level, count, log, seen, fate>>
    /\ timeline' = {<<t[1] - 1, t[2]>> : t \in timeline}
    /\ UNCHANGED <<is_enabled, rules, full, craft, overtaken, meets, ops>>

(* tl_cmd_dispatcher_.  START_TRANSITION deploys the sequence of the mode SAFE, if no       *)
(* other transition is in progress; one of its commands is pwr_off_safe.                *)
Sequence(t) ==
    LET rest == [list |-> timeline \ {t}, fate |-> fate, meets |-> meets]
    IN  {rest} \cup (IF t[2] = "SAFE" THEN Deploys(rest, {"TRANSITION"}) ELSE {})

Execute ==
    \E t \in Due :
        /\ \E s \in Sequence(t) : timeline' = s.list /\ fate' = s.fate /\ meets' = s.meets
        /\ rules' = rules \cup Arms(t[2])
        /\ duty' = IF t[2] \in {"SHORT", "LONG"} THEN t[2] ELSE duty
        /\ sf' \in CASE t[2] = "SF_ON" -> {TRUE} [] t[2] = "SF_OFF" -> {FALSE}
                     [] t[2] = "TRANSITION" -> {sf, FALSE} [] OTHER -> {sf}
        /\ UNCHANGED <<uvc, log, seen, full, v, turn, overtaken, jumps, ops>>

-------------------------------------------------------------------------------
Counted == ops < MaxOps /\ ops' = ops + 1

(* Cmd_EPS_UVC_ENABLE: the level is forgotten, the counts and the rules are not. *)
UVC_ENABLE ==
    /\ Counted
    /\ is_enabled' \in BOOLEAN /\ level' = "SUCCESS"
    /\ UNCHANGED <<count, ah, timeline, craft, v, turn, overtaken, fate, meets, jumps>>

(* Cmd_EPS_UVC_SET_BAT_V, UVC_set: other thresholds, in another place of which the  *)
(* voltage then is.                                                            *)
UVC_set == v' \in Ranges

UVC_SET_BAT_V ==
    /\ Counted /\ UVC_set
    /\ UNCHANGED <<uvc, ah, timeline, craft, turn, overtaken, fate, meets, jumps>>

(* The rules by command, and Cmd_AH_clear_log.                                     *)
AH_activate_rule ==
    /\ Counted
    /\ \E r \in Declared : rules' = rules \cup {r}
    /\ UNCHANGED <<uvc, log, seen, full, timeline, craft, v, turn, overtaken, fate, meets, jumps>>

AH_inactivate_rule ==
    /\ Counted
    /\ \E r \in rules : rules' = rules \ {r}
    /\ fate' = "lost"
    /\ UNCHANGED <<uvc, log, seen, full, timeline, craft, v, turn, overtaken, meets, jumps>>

AH_clear_log ==
    /\ Counted
    /\ log' = <<"none", "none">> /\ seen' = TRUE /\ full' = FALSE
    /\ fate' = IF seen THEN fate ELSE "lost"
    /\ UNCHANGED <<uvc, rules, timeline, craft, v, turn, overtaken, meets, jumps>>

(* Commands of others: one more on the timeline, or all of them cleared.               *)
TL_register ==
    /\ Counted
    /\ \E n \in Elsewhere \cup UNION {Delay[c] : c \in Commands} :
          timeline' = timeline \cup {<<n, "OTHER">>}
    /\ UNCHANGED <<uvc, ah, craft, v, turn, overtaken, fate, meets, jumps>>

CLEAR_ALL_TIMELINE ==
    /\ Counted
    /\ timeline' = {} /\ fate' = IF timeline = {} THEN fate ELSE "lost"
    /\ UNCHANGED <<uvc, ah, craft, v, turn, overtaken, meets, jumps>>

Commanded == \/ UVC_ENABLE \/ UVC_SET_BAT_V \/ AH_activate_rule \/ AH_inactivate_rule
             \/ AH_clear_log \/ TL_register \/ CLEAR_ALL_TIMELINE

(* Any other anomaly, the one that fills the log included. *)
OtherAnomaly ==
    /\ Counted /\ seen
    /\ AL_add("other")
    /\ full' \in {full, TRUE}
    /\ UNCHANGED <<uvc, rules, timeline, craft, v, turn, overtaken, meets, jumps>>

(* The enabling, the thresholds and the duty are in the FRAM, and read again. *)
Restart ==
    /\ Counted /\ Boot
    /\ UNCHANGED <<is_enabled, craft, v, meets, jumps>>

Cycle == AH_exec \/ UVC_execute \/ Execute

Next == Cycle \/ Commanded \/ OtherAnomaly \/ Restart

Spec == Init /\ [][Next]_vars /\ WF_vars(Cycle)

-------------------------------------------------------------------------------
(* When the battery stays below the lowest threshold, the control being enabled,    *)
(* the transmitter comes to its long pauses for good, whatever the voltage, the     *)
(* levels and the restarts were before: unless, since the last start, a command of  *)
(* a block was moved or refused because its time was taken or went with a cleared     *)
(* timeline, a level found the log full or was cleared from it unseen, or a rule was    *)
(* inactivated by command (UVC_app.cpp:74-106, AnomalyHandler.cpp:93-173).            *)
Protected ==
    <>[](v = Dead /\ is_enabled)
        => \/ <>[](level = "LEVEL2" /\ duty = "LONG")
           \/ <>[](fate # "kept")

(* The rule that answers a RETURN inactivates itself as every rule does, and only    *)
(* its own block activates it again: it is not lost, though the handler looks at     *)
(* records twice, the rules of the two levels can be used up by an old record, and   *)
(* blocks are deployed over one another, which may move the activation to another      *)
(* time; but a command that is refused or cleared, or the rule inactivated by        *)
(* command, loses it until a restart or a command.                                *)
ReturnNotLost ==
    fate # "lost" /\ "RETURN" \notin rules => \E t \in timeline : t[2] = "ARM2"

(* After the answer to a RETURN the transmitter has its short pauses again and      *)
(* all rules are active, unless something was lost, or an answer came while          *)
(* commands were under way (overtaken): LONG comes 44 s after LEVEL2 was answered,   *)
(* and then undoes what a RETURN has done, with nothing to declare it again.       *)
ReturnUndoes ==
    level = "RETURN" /\ seen /\ timeline = {} /\ ~overtaken /\ fate # "lost"
        => duty = "SHORT" /\ sf /\ rules = Declared
===============================================================================
