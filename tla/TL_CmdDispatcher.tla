--------------------------- MODULE TL_CmdDispatcher ---------------------------
(***************************************************************************)
(* The timeline of the C&DH: the commands waiting for their master cycle    *)
(* (tl_cmd_list of PacketHandler.cpp), the application that executes them   *)
(* (TL_CmdDispatcher.cpp), and the commands that work on the timeline.      *)
(*                                                                         *)
(* Commands reach the timeline from the ground (analyze_single_cmd_) and    *)
(* from the blocks of the block command table (Cmd_DEPLOY_BLOCK); the       *)
(* commands that work on it, and the one that sets the clock it is read     *)
(* with, come from the ground, or from the timeline itself.                 *)
(***************************************************************************)
EXTENDS PacketList, FiniteSets

CONSTANTS TL_CMD_LIST_MAX,  \* nodes of tl_cmd_list: 32
          OBCT_MAX_CYCLE,   \* the master cycle returns to 0 here: 0xfffffff0
          RebootCycle,      \* the master cycle that FRAM holds and the program never writes
          Block,            \* the block command table: id -> block
          Other,            \* the codes of the commands that leave the timeline alone
          Immediate,        \* the commands the ground sends to work on the timeline
          Registered,       \* the commands the ground registers on the timeline
          RegisteredFor,    \* and the cycles it registers them for
          Watched           \* the cycles EveryCommandLeaves is checked for

(* A block is [is_active, cmds]; the packets of cmds are [time, code, arg].   *)
Deploying == {[code |-> "DEPLOY_BLOCK", arg |-> b] : b \in DOMAIN Block}
Clearing  == {[code |-> "CLEAR_ALL_TIMELINE", arg |-> 0]}
             \cup {[code |-> "CLEAR_TIMELINE_AT", arg |-> t] : t \in Time}
Plain     == {[code |-> c, arg |-> 0] : c \in Other}
Setting   == {[code |-> "SET_OBC_TIME", arg |-> t] : t \in Time}
Command   == Deploying \cup Clearing \cup Setting \cup Plain

At(c, t) == [time |-> t, code |-> c.code, arg |-> c.arg]

Packet == {At(c, t) : c \in Command, t \in Time}

ASSUME TimelineAssumption ==
    /\ TL_CMD_LIST_MAX \in Nat \ {0}
    /\ OBCT_MAX_CYCLE \in 1..CycleSpan
    /\ RebootCycle \in Time \ {OBCT_MAX_CYCLE - 1}
    /\ Other \cap {"DEPLOY_BLOCK", "CLEAR_ALL_TIMELINE", "CLEAR_TIMELINE_AT",
                  "SET_OBC_TIME"} = {}
    /\ Immediate \cup Registered \subseteq Command
    /\ RegisteredFor \subseteq Time
    /\ Watched \subseteq 0..(OBCT_MAX_CYCLE - 2)
    /\ \A b \in DOMAIN Block :
         /\ Block[b].is_active \in BOOLEAN
         /\ Block[b].cmds \in Seq(Packet)
         /\ Len(Block[b].cmds) <= TL_CMD_LIST_MAX

VARIABLES master,       \* master_clock->master
          tl_cmd_list,
          halted,       \* no task runs any more: a trap on NULL, or the turnover
          called,       \* tl_cmd_dispatcher_ had its call in this cycle
          overtaken,    \* the commands the clock was set past that still wait
          jumped        \* the clock has been set in this cycle

vars == <<master, tl_cmd_list, halted, called, overtaken, jumped>>

(* The commands that are more than n cycles late. *)
Behind(n) == {t \in Times(tl_cmd_list) : t + n < master}

(* The start of the program.  TMGR_init takes the cycle from FRAM, unless the   *)
(* clock follows the RTC: then it is 0.  The tasks wait for cycle 0, so that    *)
(* they miss the first cycle when it is another.                               *)
Init ==
    /\ master \in {0, RebootCycle}
    /\ called = (master # 0)
    /\ tl_cmd_list = <<>>
    /\ halted = FALSE
    /\ overtaken = 0
    /\ jumped = FALSE

(* Mutant: the cycle is not kept to 32 bits. *)
NextCycleOn == IF master + 1 = OBCT_MAX_CYCLE THEN 0 ELSE master + 1

(* OBCT_count_up: only OBCT_MAX_CYCLE itself turns over; a cycle beyond it, to   *)
(* which the clock can be set, goes on to the end of the 32 bits.               *)
NextCycle == IF master + 1 = OBCT_MAX_CYCLE THEN 0 ELSE (master + 1) % CycleSpan

(* The timer interrupt at the end of a cycle.  The task list holds one call of  *)
(* the dispatcher (BC_load_normal_mode), so a cycle without an overrun of the   *)
(* tasks has one: the cycles of this module are those.  At the turnover the     *)
(* task list already waits for OBCT_MAX_CYCLE, which never comes: nothing runs  *)
(* again before a restart (TDSP_execute_pl_as_task_list).                      *)
Tick ==
    /\ ~halted
    /\ called
    /\ called' = FALSE
    /\ jumped' = FALSE
    /\ master' = NextCycle
    /\ halted' = (master + 1 = OBCT_MAX_CYCLE)
    /\ overtaken' = LET late == Cardinality(Behind(0))
                    IN  IF late < overtaken THEN late ELSE overtaken
    /\ UNCHANGED tl_cmd_list

-------------------------------------------------------------------------------
(* What executing command c does to the timeline when it holds list. *)

Cmd_DEPLOY_BLOCK(list, b) ==
    /\ tl_cmd_list' = DeployBlock(list, TL_CMD_LIST_MAX, Block[b], master).list
    /\ UNCHANGED <<master, halted, overtaken, jumped>>

Cmd_CLEAR_ALL_TIMELINE ==
    /\ tl_cmd_list' = <<>>
    /\ UNCHANGED <<master, halted, overtaken, jumped>>

(* drop_tl_cmd_at_: PL_drop_node traps when the node is the only one. *)
Cmd_CLEAR_TIMELINE_AT(list, t) ==
    /\ \/ /\ t \notin Times(list)
          /\ tl_cmd_list' = list
          /\ UNCHANGED halted
       \/ \E i \in 1..Len(list) :
            /\ list[i].time = t
            /\ tl_cmd_list' = RemoveAt(list, i)
            /\ halted' = (Len(list) = 1)
    /\ UNCHANGED <<master, overtaken, jumped>>

(* Any cycle of 32 bits is taken, and the task list goes on in it. *)
Cmd_SET_OBC_TIME(list, m) ==
    /\ master' = m
    /\ tl_cmd_list' = list
    /\ overtaken' = Cardinality(Behind(0)')
    /\ jumped' = TRUE
    /\ UNCHANGED halted

Execute(list, c) ==
    \/ c.code = "DEPLOY_BLOCK" /\ Cmd_DEPLOY_BLOCK(list, c.arg)
    \/ c.code = "CLEAR_ALL_TIMELINE" /\ Cmd_CLEAR_ALL_TIMELINE
    \/ c.code = "CLEAR_TIMELINE_AT" /\ Cmd_CLEAR_TIMELINE_AT(list, c.arg)
    \/ c.code = "SET_OBC_TIME" /\ Cmd_SET_OBC_TIME(list, c.arg)
    \/ /\ c.code \in Other
       /\ tl_cmd_list' = list
       /\ UNCHANGED <<master, halted, overtaken, jumped>>

-------------------------------------------------------------------------------
(* A command of the ground on the timeline, executed when it is received. *)
GroundCommand(c) ==
    /\ ~halted
    /\ Execute(tl_cmd_list, c)
    /\ UNCHANGED called

(* A command of the ground for the cycle t: add_tl_cmd_. *)
GroundRegister(c, t) ==
    /\ ~halted
    /\ tl_cmd_list' = Insert(tl_cmd_list, TL_CMD_LIST_MAX, At(c, t), master)
    /\ UNCHANGED <<master, halted, called, overtaken, jumped>>

(* tl_cmd_dispatcher_: one command a call, off the list before it executes. *)
Call ==
    /\ ~halted
    /\ ~called
    /\ called' = TRUE
    /\ IF Check(tl_cmd_list, master) = "PL_TLC_NOT_YET"
       THEN UNCHANGED <<master, tl_cmd_list, halted, overtaken, jumped>>
       ELSE Execute(DropHead(tl_cmd_list), Head(tl_cmd_list))

(* A restart, which may come at any time. *)
Restart ==
    /\ master' \in {0, RebootCycle}
    /\ called' = (master' # 0)
    /\ tl_cmd_list' = <<>>
    /\ halted' = FALSE
    /\ overtaken' = 0
    /\ jumped' = FALSE

Next ==
    \/ Tick
    \/ \E c \in Immediate : GroundCommand(c)
    \/ \E c \in Registered, t \in RegisteredFor : GroundRegister(c, t)
    \/ Call
    \/ Restart

Spec == Init /\ [][Next]_vars

(* The timer never stops, and the task list calls the dispatcher.  Besides a    *)
(* start, which clears the list, a call is the only step that sets the flag,    *)
(* so it stands for the action Call.                                           *)
CallStep == ~halted /\ ~called /\ called' = TRUE

FairSpec == Spec /\ WF_vars(Tick) /\ WF_called(CallStep)

-------------------------------------------------------------------------------
(* The variables hold values of the right kind. *)
TypeOK ==
    /\ master \in Time
    /\ tl_cmd_list \in Seq(Packet)
    /\ {halted, called, jumped} \subseteq BOOLEAN
    /\ overtaken \in 0..TL_CMD_LIST_MAX

(* The timeline is in strict order of time and within its nodes, whatever was *)
(* registered, deployed (over the limit, onto times taken), dropped from the  *)
(* middle or executed: PL_check_tl_cmd, which reads only the head, misses no  *)
(* command that is due.                                                      *)
TimelineInOrder ==
    /\ StrictlyOrdered(tl_cmd_list)
    /\ Len(tl_cmd_list) <= TL_CMD_LIST_MAX

(* A command is executed in its cycle or in the next one, unless the clock was  *)
(* set.  A call executes one command, and two can become due in a cycle: the    *)
(* one that was waiting for it, and another registered for the same cycle once  *)
(* that one has been executed.  When the clock is set past commands they are    *)
(* worked off one a cycle and hold up those behind them; the backlog is never   *)
(* larger than the commands that were overtaken and still wait, and one cycle   *)
(* of what became due since: it does not grow with the cycles in which two      *)
(* become due.                                                                 *)
BacklogOfSettings ==
    /\ Cardinality(Behind(1)) <= overtaken
    /\ called => Cardinality(Behind(0)) <= overtaken

(* A command that waits for a cycle to come leaves the timeline - executed or   *)
(* cleared, by a restart at the latest - although commands keep coming in       *)
(* before it, unless the clock is set before that.  Not claimed for the last    *)
(* cycle before the counter turns over, when the tasks stop, nor for the times  *)
(* beyond it, which never come.                                                *)
EveryCommandLeaves ==
    \A t \in Watched :
        (~halted /\ master <= t /\ t \in Times(tl_cmd_list))
            ~> (jumped \/ t \notin Times(tl_cmd_list))

-------------------------------------------------------------------------------
(* What deploying any of the blocks now would do to the timeline. *)
Deployed(b) == DeployBlock(tl_cmd_list, TL_CMD_LIST_MAX, Block[b], master)

OnList(p, list) == \E i \in 1..Len(list) : list[i] = p

(* A deployment that does not report it (PL_BC_LIST_CLEARED, or an error)      *)
(* neither drops a command that was waiting nor leaves one of the block out,   *)
(* even when it had to move some; and when it reports plain success, every     *)
(* command of the block is at its offset from now.                            *)
DeployKeepsCommands ==
    \A b \in DOMAIN Block :
        LET r == Deployed(b) IN
        /\ r.ack \in {"PL_SUCCESS", "PL_BC_TIME_ADJUSTED"} =>
             /\ \A i \in 1..Len(tl_cmd_list) : OnList(tl_cmd_list[i], r.list)
             /\ Len(r.list) = Len(tl_cmd_list) + Len(Block[b].cmds)
        /\ r.ack = "PL_SUCCESS" =>
             \A i \in 1..Len(Block[b].cmds) :
               LET c == Block[b].cmds[i]
               IN  OnList([c EXCEPT !.time = master + @], r.list)

===============================================================================
