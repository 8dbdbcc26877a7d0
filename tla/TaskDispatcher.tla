---------------------------- MODULE TaskDispatcher ----------------------------
(***************************************************************************)
(* The main loop of the C&DH against its timer interrupt.  loop() calls      *)
(* TDSP_execute_pl_as_task_list over and over; a call starts at most one of  *)
(* the tasks of the cycle.  The interrupt (ISR of CDH.ino) counts the steps  *)
(* and the cycles, and may come between any two reads of the clock: each of  *)
(* them is an action of its own here.                                       *)
(*                                                                         *)
(* The tasks are the commands of a block of the block command table, put on  *)
(* a packet list at their steps.  What a task does is not looked at, except  *)
(* for the commands on the dispatcher itself that it may execute.            *)
(***************************************************************************)
EXTENDS PacketList, FiniteSets

CONSTANTS TDSP_TASK_MAX,         \* nodes of task_list_: 10
          OBCT_MAX_CYCLE,        \* the master cycle returns to 0 here: 0xfffffff0
          OBCT_STEPS_PER_CYCLE,  \* 50
          Block,                 \* the blocks of tasks as they are loaded: id -> sequence
                                 \* of [time, task]
          BC_TL_NORMAL,          \* the block of the normal task list
          RebootCycle,           \* the cycles that FRAM may hold at the boot
          Operations,            \* the commands on the dispatcher that tasks execute
          PassSteps,             \* the steps that may go by in a pass of loop()
          SchedulePassSteps      \* those that leave room for the tasks in a cycle (Room)

VARIABLES master, step,          \* master_clock
          activated_at, task_list_id,   \* TDSP_info_
          task_list,             \* task_list_
          cmds, is_active,       \* of the blocks
          pc,                    \* where the main loop is
          elapsed,               \* steps since the pass began
          anomaly                \* the last anomaly of this application

(* For the properties only. *)
VARIABLES ran,                   \* the tasks started in this cycle, as steps
          lost,                  \* the last cycle ended without its whole list
          onSchedule             \* no long pass so far, no command, booted in cycle 0

clock == <<master, step>>
info  == <<activated_at, task_list_id, task_list>>
hist  == <<ran, lost, onSchedule>>
bcti  == <<cmds, is_active>>
vars  == <<clock, info, bcti, pc, elapsed, anomaly, hist>>

Task  == UNION {{Block[b][i] : i \in 1..Len(Block[b])} : b \in DOMAIN Block}
Cycle == 0..(OBCT_MAX_CYCLE - 1)

(* The commands on the dispatcher; the argument is a block or a cycle. *)
Operation == [op : {"SET_TASK_LIST_ID", "CLEAR_BLOCK", "REGISTER", "ACTIVATE_BLOCK"},
              arg : DOMAIN Block]
        \cup [op : {"SET_OBC_TIME"}, arg : Cycle]

ASSUME TaskAssumption ==
    /\ TDSP_TASK_MAX \in Nat \ {0}
    /\ OBCT_MAX_CYCLE \in 1..(CycleSpan - 1)
    /\ OBCT_STEPS_PER_CYCLE \in 1..(CycleSpan - 1)
    /\ BC_TL_NORMAL \in DOMAIN Block
    /\ RebootCycle \subseteq Cycle
    /\ Operations \subseteq Operation
    /\ {PassSteps, SchedulePassSteps} \subseteq Nat
    /\ \A b \in DOMAIN Block :
         /\ Block[b] \in Seq([time : Time, task : STRING])
         /\ Len(Block[b]) <= TDSP_TASK_MAX

(* A cycle has room for the tasks of a list: for one pass each, the pass in       *)
(* which it began and the one that finds the list empty, from the start and from  *)
(* the step of each task on.                                                 *)
Room(tasks) ==
    /\ (Len(tasks) + 2) * SchedulePassSteps <= OBCT_STEPS_PER_CYCLE
    /\ \A i \in 1..Len(tasks) :
         tasks[i].time + (Len(tasks) - i + 2) * SchedulePassSteps <= OBCT_STEPS_PER_CYCLE

(* That is what makes a schedule: for the 10 tasks at the steps 0 to 9 of the     *)
(* source (NormalTL.cpp) and 50 steps, passes of up to 4.                       *)
ASSUME ScheduleAssumption ==
    StrictlyOrdered(Block[BC_TL_NORMAL]) /\ Room(Block[BC_TL_NORMAL])

Deployment == DeployBlock(task_list, TDSP_TASK_MAX,
                          [is_active |-> is_active[task_list_id],
                           cmds |-> cmds[task_list_id]], 0)

(* TDSP_initialize: the list is deployed for the cycle 0 whatever the cycle is. *)
Init ==
    /\ master \in RebootCycle
    /\ step = 0
    /\ activated_at = 0
    /\ task_list_id = BC_TL_NORMAL
    /\ task_list = Deploy(<<>>, TDSP_TASK_MAX, Block[BC_TL_NORMAL], 0).list
    /\ cmds = [b \in DOMAIN Block |-> Block[b]]
    /\ is_active = [b \in DOMAIN Block |-> TRUE]
    /\ pc = "loop"
    /\ elapsed = 0
    /\ anomaly = "none"
    /\ ran = <<>> /\ lost = FALSE
    /\ onSchedule = (master = 0)

-------------------------------------------------------------------------------
(* The interrupt: OBCT_count_up. *)

WholeListRan == {ran[i] : i \in 1..Len(ran)} = Times(cmds[task_list_id])

CycleEnds ==
    /\ step' = 0
    /\ master' = (master + 1) % OBCT_MAX_CYCLE
    /\ ran' = <<>>
    /\ lost' = ~WholeListRan

StepEnds ==
    /\ step' = step + 1
    /\ UNCHANGED <<master, ran, lost>>

ISR ==
    /\ elapsed < PassSteps
    /\ elapsed' = elapsed + 1
    /\ onSchedule' = (onSchedule /\ elapsed < SchedulePassSteps)
    /\ IF step + 1 = OBCT_STEPS_PER_CYCLE THEN CycleEnds ELSE StepEnds
    /\ UNCHANGED <<info, bcti, pc, anomaly>>

-------------------------------------------------------------------------------
(* The main loop, TDSP_execute_pl_as_task_list. *)

Label == {"loop", "due", "not_due", "not_after", "before", "deploy", "load",
          "on_time", "past_time"}

Goto(label) == pc' = label /\ UNCHANGED elapsed
Return      == pc' = "loop" /\ elapsed' = 0

ReadMaster ==
    /\ pc = "loop"
    /\ IF activated_at = master THEN Goto("due") ELSE Goto("not_due")
    /\ UNCHANGED <<clock, info, bcti, anomaly, hist>>

(* The second read of the cycle, and the third. *)
ReadMasterAfter ==
    /\ pc = "not_due"
    /\ IF activated_at > master THEN Return ELSE Goto("not_after")
    /\ UNCHANGED <<clock, info, bcti, anomaly, hist>>

ReadMasterBefore ==
    /\ pc = "not_after"
    /\ IF activated_at < master THEN Goto("before") ELSE Return
    /\ UNCHANGED <<clock, info, bcti, anomaly, hist>>

(* The list still has tasks of a cycle that is over (TDSP_CYCLE_OVERRUN), or   *)
(* the dispatcher was deployed for the cycle 0 and the counter is about to    *)
(* turn over.                                                                *)
Overrun ==
    /\ pc = "before"
    /\ IF activated_at = 0 /\ master = OBCT_MAX_CYCLE - 1
       THEN /\ Return
            /\ UNCHANGED <<task_list, anomaly>>
       ELSE /\ anomaly' = "TDSP_CYCLE_OVERRUN"
            /\ task_list' = <<>>
            /\ Goto("deploy")
    /\ UNCHANGED <<clock, activated_at, task_list_id, bcti, hist>>

StartTask ==
    /\ pc = "due"
    /\ Check(task_list, step) # "PL_TLC_NOT_YET"
    /\ Goto(IF step = Head(task_list).time THEN "on_time" ELSE "past_time")
    /\ ran' = Append(ran, Head(task_list).time)
    /\ UNCHANGED <<clock, info, bcti, anomaly, lost, onSchedule>>

NothingToStart ==
    /\ pc = "due"
    /\ Check(task_list, step) = "PL_TLC_NOT_YET"
    /\ IF task_list = <<>>
       THEN Goto("deploy")
       ELSE Return
    /\ UNCHANGED <<clock, info, bcti, anomaly, ran, lost, onSchedule>>

(* A block that is cleared has no commands and is not active (BCT_clear_block); it is  *)
(* loaded again command by command, and may be activated before it is complete.     *)
BlockChanged(op, b) ==
    \/ /\ op = "CLEAR_BLOCK"
       /\ cmds' = [cmds EXCEPT ![b] = <<>>]
       /\ is_active' = [is_active EXCEPT ![b] = FALSE]
    \/ /\ op = "REGISTER" /\ Len(cmds[b]) < Len(Block[b])
       /\ cmds' = [cmds EXCEPT ![b] = Append(@, Block[b][Len(@) + 1])]
       /\ UNCHANGED is_active
    \/ /\ op = "ACTIVATE_BLOCK"
       /\ is_active' = [is_active EXCEPT ![b] = TRUE]
       /\ UNCHANGED cmds

(* The end of a task (CDIS_dispatch_command): it succeeded or not, and may      *)
(* have been a command on the dispatcher.  Its packet leaves the list now.    *)
Perform(o) ==
    \/ /\ o.op = "SET_TASK_LIST_ID"
       /\ task_list_id' = o.arg
       /\ UNCHANGED <<master, activated_at, bcti>>
    \/ /\ o.op \in {"CLEAR_BLOCK", "REGISTER", "ACTIVATE_BLOCK"}
       /\ BlockChanged(o.op, o.arg)
       /\ UNCHANGED <<master, activated_at, task_list_id>>
    \/ /\ o.op = "SET_OBC_TIME"
       /\ master' = o.arg
       /\ activated_at' = o.arg
       /\ UNCHANGED <<task_list_id, bcti>>

EndTask ==
    /\ pc \in {"on_time", "past_time"}
    /\ \/ UNCHANGED <<master, activated_at, task_list_id, bcti, onSchedule>>
       \/ (\E o \in Operations : Perform(o)) /\ onSchedule' = FALSE
    /\ \E succeeded \in BOOLEAN :
         anomaly' = IF pc = "on_time" /\ ~succeeded THEN "TDSP_TASK_EXEC_FAILED"
                    ELSE anomaly
    /\ task_list' = DropHead(task_list)
    /\ Return
    /\ UNCHANGED <<step, ran, lost>>

(* Mutant: the list is deployed for the cycle that runs. *)
DeployForThisCycle ==
    /\ pc = "deploy"
    /\ activated_at' = master
    /\ Goto("load")
    /\ UNCHANGED <<clock, task_list_id, task_list, bcti, anomaly, hist>>

(* TDSP_deploy_block_as_task_list_: first the cycle, then the list. *)
DeployReadsMaster ==
    /\ pc = "deploy"
    /\ activated_at' = master + 1
    /\ Goto("load")
    /\ UNCHANGED <<clock, task_list_id, task_list, bcti, anomaly, hist>>

DeployList ==
    /\ pc = "load"
    /\ task_list' = Deployment.list
    /\ anomaly' = IF Deployment.ack = "PL_SUCCESS" THEN anomaly ELSE "TDSP_DEPLOY_FAILED"
    /\ Return
    /\ UNCHANGED <<clock, activated_at, task_list_id, bcti, hist>>

MainLoop ==
    \/ ReadMaster \/ ReadMasterAfter \/ ReadMasterBefore \/ Overrun
    \/ StartTask \/ NothingToStart \/ EndTask
    \/ DeployReadsMaster \/ DeployList

Next == ISR \/ MainLoop

Spec == Init /\ [][Next]_vars

-------------------------------------------------------------------------------
(* However long the passes are and whenever the interrupt comes: in one cycle  *)
(* the tasks start in the order of their steps and none starts twice, also in  *)
(* a cycle in which the list is deployed anew after an overrun, or the clock   *)
(* is set, or the task list exchanged.                                       *)
TasksStartInOrder ==
    \A i, j \in 1..Len(ran) : i < j => ran[i] < ran[j]

(* As long as no pass of the main loop takes more than SchedulePassSteps, no     *)
(* overrun is reported: a dispatcher that waits is not taken for a late one     *)
(* when the cycle turns over between the reads of lines 58, 86 and 90.         *)
NoOverrunOnSchedule == onSchedule => anomaly # "TDSP_CYCLE_OVERRUN"

(* On the same condition every cycle runs its whole list, until the counter       *)
(* turns over: no cycle begins between the last task of the one before and the  *)
(* read of line 46, which would be lost without an anomaly.                   *)
NoCycleLost == onSchedule /\ activated_at # OBCT_MAX_CYCLE => ~lost

===============================================================================
