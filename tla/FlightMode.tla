------------------------------ MODULE FlightMode ------------------------------
(***************************************************************************)
(* The operation mode (ModeManager.cpp) with what carries a transition out:  *)
(* the timeline, on which the block of the transition is deployed and which  *)
(* executes its last command, FINISH_TRANSITION; the ground and the anomaly  *)
(* handler, which start transitions and deploy blocks; and FRAM, from which  *)
(* a restart takes the mode.                                                *)
(*                                                                         *)
(* The timeline is held by the time left to each of its commands, so time    *)
(* goes on for ever; the order and the lateness of its commands are those    *)
(* of TL_CmdDispatcher.  A command of a block that finds its time taken is   *)
(* moved to its byte-reversed time (PacketList!Moved): that is any time      *)
(* here, or one too far off to count, or it is refused and ends the block.   *)
(***************************************************************************)
EXTENDS Integers, Sequences, FiniteSets

CONSTANTS Mode,             \* MD_ModeID below MODE_MAX
          SAFE,
          BC_TL_NORMAL,     \* the task list of TDSP_initialize
          TaskList,         \* the blocks that SET_MODE_LIST may name, with it
          Block,            \* blocks of commands: id -> sequence of [in, code, arg]
          MM_NOT_DEFINED,   \* the entry of a transition that is not allowed
          DefaultTable,     \* MD_load_transition_table
          Erased,           \* the byte of a FRAM that was never written
          Horizon,          \* no command counts that is further off than this
          MaxMoves,         \* bound: how often one command is moved
          TL_CMD_LIST_MAX,
          GroundCommands,   \* the commands that the ground sends
          Responses         \* the blocks that AH deploys

Code == {"START_TRANSITION", "FINISH_TRANSITION", "CLEAR_TIMELINE",
         "SET_MODE_LIST", "SET_TRANSITION_TABLE", "AH_ACTIVATE_RULE", "OTHER"}

NoMode == "no mode"

(* What the blocks are made of. *)
BlockCommand == UNION {{Block[b][i] : i \in DOMAIN Block[b]} : b \in DOMAIN Block}

(* A command with an argument out of its range is refused before it does        *)
(* anything (Cmd_START_TRANSITION, MM_set_mode_list, MM_set_transition_table):   *)
(* it is one of the OTHER.                                                     *)
InRange(c) ==
    /\ c.code \in Code
    /\ c.code = "START_TRANSITION" => c.arg \in Mode
    /\ c.code = "SET_MODE_LIST" => c.arg.mode \in Mode /\ c.arg.list \in TaskList
    /\ c.code = "SET_TRANSITION_TABLE" =>
         /\ c.arg.from \in Mode /\ c.arg.to \in Mode
         /\ c.arg.block \in DOMAIN Block \cup {MM_NOT_DEFINED}
    /\ c.code = "AH_ACTIVATE_RULE" => c.arg \in Responses

(* The default table allows a mode from every mode or from none. *)
ASSUME ModeAssumption ==
    /\ SAFE \in Mode /\ NoMode \notin Mode
    /\ BC_TL_NORMAL \in TaskList
    /\ MM_NOT_DEFINED \notin DOMAIN Block
    /\ DefaultTable \in [Mode -> [Mode -> DOMAIN Block \cup {MM_NOT_DEFINED}]]
    /\ \A from \in Mode : DefaultTable[from] = DefaultTable[SAFE]
    /\ DefaultTable[SAFE][SAFE] # MM_NOT_DEFINED
    /\ Erased \notin Mode
    /\ Horizon \in Nat
    /\ MaxMoves \in Nat \ {0}
    /\ TL_CMD_LIST_MAX \in Nat \ {0}
    /\ Responses \subseteq DOMAIN Block
    /\ \A b \in DOMAIN Block :
         Block[b] \in Seq(BlockCommand) /\ Len(Block[b]) \in 1..TL_CMD_LIST_MAX
    /\ \A c \in BlockCommand : c.in \in 1..Horizon /\ InRange(c)
    /\ \A c \in GroundCommands : InRange(c)

VARIABLES stat, current_id, previous_id,    \* ops_mode_
          mode_list, transition_table,
          task_list_id,                     \* of the task dispatcher
          fram,                             \* the two bytes of the mode in FRAM
          timeline,                         \* the commands that wait
          armed,    \* the responses whose rule of AH is active
          turn,     \* the calls still to come in this cycle
          pc,       \* what the processor is doing
          todo,     \* a deployment: its commands left, the sum of the moves
          goal      \* the mode to enter after it

(* For the properties only: a FINISH_TRANSITION of the transition under way    *)
(* was cleared, or was moved out of sight or refused as it was deployed, or     *)
(* its block has none.                                                       *)
VARIABLE lost

ops    == <<stat, current_id, previous_id>>
tables == <<mode_list, transition_table>>
vars   == <<ops, tables, task_list_id, fram, timeline, armed, turn, pc, todo, goal, lost>>

Idle    == pc = "idle"
Nothing == [cmds |-> <<>>, adj |-> 0]

Finishes(c) == c.code = "FINISH_TRANSITION"
SomeFinishes(cmds) == \E i \in 1..Len(cmds) : Finishes(cmds[i])

(* The calls of a cycle that matter: tl_cmd_dispatcher_ once, and at most once  *)
(* rt_cmd_dispatcher_ and AH_exec_, whose blocks are rotated.                 *)
Calls == {"TL_CMD", "RT_CMD", "ANOMALY_HANDLER"}

(* FRAM holds what an earlier run left, or nothing. *)
Init ==
    /\ fram \in [current : Mode, previous : Mode]
                \cup {[current |-> Erased, previous |-> Erased]}
    /\ stat = "MM_FINISHED" /\ current_id = SAFE /\ previous_id = SAFE
    /\ mode_list = [m \in Mode |-> BC_TL_NORMAL]
    /\ transition_table = DefaultTable
    /\ task_list_id = BC_TL_NORMAL
    /\ timeline = {}
    /\ armed = Responses
    /\ turn = Calls
    /\ pc = "boot" /\ todo = Nothing /\ goal = NoMode
    /\ lost = FALSE

-------------------------------------------------------------------------------
(* PL_deploy_block_cmd, one command a step, of which only a restart sees the    *)
(* middle.  The mode m is entered after it, if it is one.  line is the         *)
(* timeline at the call, was is lost there.                                  *)
Deploy(line, was, b, m) ==
    LET clear == TL_CMD_LIST_MAX - Cardinality(line) < Len(Block[b]) IN
    /\ timeline' = IF clear THEN {} ELSE line
    /\ todo' = [cmds |-> Block[b], adj |-> 0]
    /\ goal' = m
    /\ pc' = "deploy"
    /\ lost' = IF m # NoMode
               THEN ~SomeFinishes(Block[b])
               ELSE was \/ (clear /\ \E c \in line : Finishes(c))

At(t) == {c \in timeline : c.in = t}

Put(c, t) == timeline' = timeline \cup {[in |-> t, code |-> c.code, arg |-> c.arg]}

Free == {t \in 0..Horizon : At(t) = {}}

DeployOne ==
    LET c  == Head(todo.cmds)
        at == c.in + todo.adj
        go(n) == todo' = [cmds |-> Tail(todo.cmds), adj |-> todo.adj + n]
    IN
    /\ pc = "deploy" /\ todo.cmds # <<>>
    /\ \/ /\ at <= Horizon /\ At(at) = {}
          /\ Put(c, at) /\ go(0)
          /\ UNCHANGED lost
       \/ /\ at <= Horizon /\ At(at) # {}
          /\ \E t \in Free, n \in 1..MaxMoves : Put(c, t) /\ go(n)
          /\ UNCHANGED lost
       \/ /\ at > Horizon \/ At(at) # {}
          /\ \E n \in 0..MaxMoves : go(n)
          /\ lost' = (lost \/ Finishes(c))
          /\ UNCHANGED timeline
       \/ /\ at <= Horizon /\ At(at) # {}
          /\ todo' = [todo EXCEPT !.cmds = <<>>]
          /\ lost' = (lost \/ SomeFinishes(todo.cmds))
          /\ UNCHANGED timeline
    /\ UNCHANGED <<ops, tables, task_list_id, fram, armed, turn, pc, goal>>

(* The end of the deployment, whose result is not looked at.  The rest of       *)
(* MM_start_transition enters the mode, and saves it byte by byte.            *)
EnterMode ==
    /\ pc = "deploy" /\ todo.cmds = <<>>
    /\ IF goal = NoMode
       THEN pc' = "idle" /\ UNCHANGED ops
       ELSE /\ previous_id' = current_id
            /\ current_id' = goal
            /\ stat' = "MM_IN_PROGRESS"
            /\ pc' = "write_current"
    /\ todo' = Nothing /\ goal' = NoMode
    /\ UNCHANGED <<tables, task_list_id, fram, timeline, armed, turn, lost>>

(* Mutant: the mode left is saved as the current one. *)
WriteOld ==
    /\ pc = "write_current"
    /\ fram' = [fram EXCEPT !.current = previous_id]
    /\ pc' = "write_previous"
    /\ UNCHANGED <<ops, tables, task_list_id, timeline, armed, turn, todo, goal, lost>>

WriteCurrent ==
    /\ pc = "write_current"
    /\ fram' = [fram EXCEPT !.current = current_id]
    /\ pc' = "write_previous"
    /\ UNCHANGED <<ops, tables, task_list_id, timeline, armed, turn, todo, goal, lost>>

WritePrevious ==
    /\ pc = "write_previous"
    /\ fram' = [fram EXCEPT !.previous = previous_id]
    /\ pc' = "idle"
    /\ UNCHANGED <<ops, tables, task_list_id, timeline, armed, turn, todo, goal, lost>>

-------------------------------------------------------------------------------
(* The commands, executed when the timeline holds line: a command of the       *)
(* timeline is off it by then.                                               *)

(* MM_start_transition; a refusal is an anomaly, and nothing else. *)
StartTransition(line, m) ==
    LET b == transition_table[current_id][m] IN
    /\ IF stat # "MM_FINISHED" \/ b = MM_NOT_DEFINED
       THEN timeline' = line /\ UNCHANGED <<pc, todo, goal, lost>>
       ELSE Deploy(line, lost, b, m)
    /\ UNCHANGED <<ops, tables, task_list_id, armed>>

(* Mutant: only the transition to another mode is finished. *)
FinishOnlyMoves(line) ==
    /\ stat' = IF current_id = previous_id THEN stat ELSE "MM_FINISHED"
    /\ timeline' = line
    /\ UNCHANGED <<current_id, previous_id, tables, task_list_id, armed, pc, todo, goal, lost>>

(* Cmd_FINISH_TRANSITION: the status is set first, so MM_finish_transition      *)
(* answers MM_NOT_IN_PROGRESS and does not set the task list of the mode.      *)
FinishTransition(line) ==
    /\ stat' = "MM_FINISHED"
    /\ timeline' = line
    /\ UNCHANGED <<current_id, previous_id, tables, task_list_id, armed, pc, todo, goal, lost>>

(* Cmd_CLEAR_ALL_TIMELINE, or Cmd_CLEAR_TIMELINE_AT of one command. *)
ClearTimeline(line) ==
    /\ \E gone \in {line} \cup {{c} : c \in line} :
         /\ timeline' = line \ gone
         /\ lost' = (lost \/ \E c \in gone : Finishes(c))
    /\ UNCHANGED <<ops, tables, task_list_id, armed, pc, todo, goal>>

SetModeList(line, arg) ==
    /\ mode_list' = [mode_list EXCEPT ![arg.mode] = arg.list]
    /\ timeline' = line
    /\ UNCHANGED <<ops, transition_table, task_list_id, armed, pc, todo, goal, lost>>

SetTransitionTable(line, arg) ==
    /\ transition_table' = [transition_table EXCEPT ![arg.from][arg.to] = arg.block]
    /\ timeline' = line
    /\ UNCHANGED <<ops, mode_list, task_list_id, armed, pc, todo, goal, lost>>

AH_activate_rule(line, b) ==
    /\ armed' = armed \cup {b}
    /\ timeline' = line
    /\ UNCHANGED <<ops, tables, task_list_id, pc, todo, goal, lost>>

Other(line) ==
    /\ timeline' = line
    /\ UNCHANGED <<ops, tables, task_list_id, armed, pc, todo, goal, lost>>

(* cmdExec. *)
ExecuteMode(line, c) ==
    \/ c.code = "START_TRANSITION" /\ StartTransition(line, c.arg)
    \/ c.code = "SET_MODE_LIST" /\ SetModeList(line, c.arg)

ExecuteTransition(line, c) ==
    \/ c.code = "FINISH_TRANSITION" /\ FinishTransition(line)
    \/ c.code = "SET_TRANSITION_TABLE" /\ SetTransitionTable(line, c.arg)

ExecuteTimeline(line, c) == c.code = "CLEAR_TIMELINE" /\ ClearTimeline(line)

Execute(line, c) ==
    /\ \/ ExecuteMode(line, c)
       \/ ExecuteTransition(line, c)
       \/ ExecuteTimeline(line, c)
       \/ c.code = "AH_ACTIVATE_RULE" /\ AH_activate_rule(line, c.arg)
       \/ c.code = "OTHER" /\ Other(line)
    /\ UNCHANGED fram

-------------------------------------------------------------------------------
(* The calls of a cycle. *)

TakeTurn(app) ==
    /\ Idle
    /\ app \in turn
    /\ turn' = turn \ {app}

(* tl_cmd_dispatcher_ executes the earliest command, if it is due. *)
Due == {c \in timeline : c.in <= 0 /\ \A d \in timeline : c.in <= d.in}

(* Mutant: a command whose time is past is dropped. *)
CallTLOnTime ==
    /\ TakeTurn("TL_CMD")
    /\ IF Due = {} \/ \A c \in Due : c.in < 0
       THEN Other(timeline \ Due) /\ UNCHANGED fram
       ELSE \E c \in Due : Execute(timeline \ {c}, c)

CallTL ==
    /\ TakeTurn("TL_CMD")
    /\ IF Due = {}
       THEN Other(timeline) /\ UNCHANGED fram
       ELSE \E c \in Due : Execute(timeline \ {c}, c)

(* rt_cmd_dispatcher_ with a command of the ground. *)
CallRT(c) ==
    /\ TakeTurn("RT_CMD")
    /\ Execute(timeline, c)

(* respond_to_anomaly_ deploys the block of an active rule, and inactivates it. *)
Respond(b) ==
    /\ TakeTurn("ANOMALY_HANDLER")
    /\ b \in armed
    /\ armed' = armed \ {b}
    /\ Deploy(timeline, lost, b, NoMode)
    /\ UNCHANGED <<ops, tables, task_list_id, fram>>

Tick ==
    /\ Idle
    /\ "TL_CMD" \notin turn
    /\ turn' = Calls
    /\ timeline' = {[c EXCEPT !.in = @ - 1] : c \in timeline}
    /\ UNCHANGED <<ops, tables, task_list_id, fram, armed, pc, todo, goal, lost>>

(* A restart at any moment loses all but FRAM. *)
Restart ==
    /\ pc # "boot"
    /\ pc' = "boot" /\ todo' = Nothing /\ goal' = NoMode
    /\ timeline' = {} /\ lost' = FALSE
    /\ armed' = Responses
    /\ turn' = Calls
    /\ UNCHANGED <<ops, tables, task_list_id, fram>>

(* What a boot makes of FRAM: a mode that the default table allows, or SAFE. *)
Valid == fram.previous # Erased /\ DefaultTable[SAFE][fram.current] # MM_NOT_DEFINED

SavedMode == IF Valid THEN fram.current ELSE SAFE

(* MM_initialize, which enters the saved mode anew, and TDSP_initialize. *)
Boot ==
    /\ pc = "boot"
    /\ mode_list' = [m \in Mode |-> BC_TL_NORMAL]
    /\ transition_table' = DefaultTable
    /\ task_list_id' = BC_TL_NORMAL
    /\ stat' = "MM_FINISHED"
    /\ current_id' = SavedMode
    /\ previous_id' = IF Valid THEN fram.previous ELSE SAFE
    /\ Deploy(timeline, lost, DefaultTable[SavedMode][SavedMode], SavedMode)
    /\ UNCHANGED <<fram, armed, turn>>

(* What the processor does by itself; it is never without a step. *)
Processor ==
    \/ Boot
    \/ DeployOne \/ EnterMode \/ WriteCurrent \/ WritePrevious
    \/ CallTL
    \/ Tick

Next ==
    \/ Processor
    \/ \E c \in GroundCommands : CallRT(c)
    \/ \E b \in Responses : Respond(b)
    \/ Restart

Spec == Init /\ [][Next]_vars

(* The processor goes on, and with it the cycles, in each of which the         *)
(* dispatcher of the timeline is called.                                     *)
FairSpec == Spec /\ WF_vars(Processor)

-------------------------------------------------------------------------------
(* A transition in progress has its FINISH_TRANSITION on the timeline, unless   *)
(* that was lost there: otherwise the mode could not be changed any more, for   *)
(* MM_start_transition refuses while one is in progress.  So it is although    *)
(* the ground may finish a transition early and start the next, whose end is    *)
(* then also brought about by the command of the one before, and although other *)
(* blocks are deployed over it.                                              *)
FinishIsPending ==
    pc = "idle" /\ stat = "MM_IN_PROGRESS" /\ ~lost => \E c \in timeline : Finishes(c)

(* A restart at any moment, between the two writes to FRAM too, comes up in the  *)
(* mode that is current or in the one before it; in SAFE, if one of them is a   *)
(* mode that only an uploaded table allows.  And it never takes a byte that was  *)
(* not written for a mode.                                                   *)
RestartKeepsMode ==
    /\ fram.previous # Erased => fram.current # Erased
    /\ pc # "boot" =>
         \/ SavedMode \in {current_id, previous_id}
         \/ /\ SavedMode = SAFE
            /\ \E m \in {current_id, previous_id} : DefaultTable[SAFE][m] = MM_NOT_DEFINED

(* A transition ends, unless its FINISH_TRANSITION is lost or the computer      *)
(* restarts: neither the other blocks nor the ground can keep it waiting.     *)
TransitionEnds ==
    stat = "MM_IN_PROGRESS" ~> (stat = "MM_FINISHED" \/ lost \/ pc = "boot")

===============================================================================
