------------------------------- MODULE BlockTable -------------------------------
(***************************************************************************)
(* The table of blocks (BlockCommandTable.cpp): the ground edits blocks command   *)
(* by command, at a position that every edit moves, while the task list rotates   *)
(* them and commands combine them.                                            *)
(*                                                                             *)
(* A command in a block is <<n, effect>>: the n-th that was registered, and what  *)
(* it does: <<"app">> succeeds, <<"ends">> is forwarded to another computer or fails, *)
(* <<"clear", b>> clears a block.  Blocks that run themselves, without end, are left  *)
(* out.                                                                        *)
(***************************************************************************)
EXTENDS Naturals

CONSTANTS MaxBlocks,        \* BCT_MAX_BLOCKS
          MaxLength,        \* BCT_MAX_BLOCK_LENGTH
          MaxMaster,        \* OBCT_MAX_CYCLE: the master cycle is modulo it
          MaxRegistered,    \* bound on commands registered
          MaxOps            \* and on the other edits

BlockTableConstants ==
    /\ {MaxBlocks, MaxMaster} \subseteq Nat \ {0} /\ MaxLength \in Nat \ {0, 1}
    /\ {MaxRegistered, MaxOps} \subseteq Nat

Blocks  == 0..(MaxBlocks - 1)
Effects == {<<"app">>, <<"ends">>} \cup {<<"clear", b>> : b \in Blocks}

VARIABLES pos,          \* [block, cmd]
          is_active, length,
          cmds,         \* with those behind the length, which stay where they were
          master,
          combining,    \* the block that COMBINE is in, and the index there
          trapped       \* the processor has divided by 0

(* For the properties only.                                                      *)
VARIABLES registered,   \* the commands registered so far
          cleared,      \* as many were, when the block was last cleared
          ran,          \* block and number of the command that ran in the last step
          ops

table == <<pos, is_active, length, cmds>>
vars  == <<table, master, combining, trapped, registered, cleared, ran, ops>>

Nothing == [block |-> 0, index |-> MaxLength]
NoneRan == <<0, 0>>

(* BCT_initialize: the blocks of BC_load_defaults, here of one command each, after     *)
(* which the position is at the end of the last.                                 *)
Init ==
    /\ pos = [block |-> MaxBlocks - 1, cmd |-> 1]
    /\ is_active = [b \in Blocks |-> TRUE] /\ length = [b \in Blocks |-> 1]
    /\ cmds = [b \in Blocks |-> [i \in 0..(MaxLength - 1) |->
                    <<IF i = 0 THEN 1 ELSE 0, <<"app">> >>]]
    /\ master = 0 /\ combining = Nothing /\ trapped = FALSE
    /\ registered = 1 /\ cleared = [b \in Blocks |-> 0] /\ ran = NoneRan /\ ops = 0

Idle == combining = Nothing /\ ~trapped

-------------------------------------------------------------------------------
(* BCT_clear_block; the commands stay behind the length.                            *)
BCT_clear_block(b) ==
    /\ pos' = [block |-> b, cmd |-> 0]
    /\ is_active' = [is_active EXCEPT ![b] = FALSE]
    /\ length' = [length EXCEPT ![b] = 0]
    /\ cleared' = [cleared EXCEPT ![b] = registered]
    /\ UNCHANGED cmds

(* BCT_set_position_, for a position within the limits.                              *)
BCT_set_position(b, i) ==
    /\ pos' = [block |-> b, cmd |-> i]
    /\ UNCHANGED <<is_active, length, cmds, cleared>>

(* Mutant: a gap of one behind the end is let through.                              *)
IsolatedLater == pos.cmd > length[pos.block] + 1
Isolated == pos.cmd > length[pos.block]

(* BCT_register_cmd: also into a block that is active.  The position may then be beyond  *)
(* the end of the table, for the next command to be refused.                       *)
BCT_register_cmd(effect) ==
    /\ registered < MaxRegistered
    /\ pos.cmd < MaxLength /\ ~Isolated
    /\ registered' = registered + 1
    /\ cmds' = [cmds EXCEPT ![pos.block][pos.cmd] = <<registered', effect>>]
    /\ pos' = [pos EXCEPT !.cmd = @ + 1]
    /\ length' = [length EXCEPT ![pos.block] = IF @ < pos'.cmd THEN pos'.cmd ELSE @]
    /\ UNCHANGED <<is_active, cleared>>

(* BCT_activate_block: of length 0 too.                                            *)
BCT_activate_block ==
    /\ length[pos.block] = pos.cmd
    /\ is_active' = [is_active EXCEPT ![pos.block] = TRUE]
    /\ UNCHANGED <<pos, length, cmds, cleared>>

-------------------------------------------------------------------------------
(* PH_despatch_command for the command of a block.                                 *)
Effect(b, i) == cmds[b][i][2]

Despatch(b, i) ==
    /\ ran' = <<b, cmds[b][i][1]>>
    /\ IF Effect(b, i)[1] = "clear" THEN BCT_clear_block(Effect(b, i)[2])
       ELSE UNCHANGED <<table, cleared>>

(* A new cycle: the tasks of its list rotate blocks.                                *)
Cycle ==
    /\ Idle
    /\ master' = (master + 1) % MaxMaster
    /\ ran' = NoneRan /\ UNCHANGED <<table, combining, trapped, registered, cleared, ops>>

(* BCT_rotate_block_cmd_.                                                         *)
Rotate ==
    /\ Idle
    /\ \E b \in Blocks :
          /\ is_active[b]
          /\ IF length[b] = 0 THEN trapped' = TRUE /\ ran' = NoneRan /\ UNCHANGED <<table, cleared>>
             ELSE Despatch(b, master % length[b]) /\ UNCHANGED trapped
    /\ UNCHANGED <<master, combining, registered, ops>>

(* BCT_combine_block_cmd_: the length is read again after every command, and one that   *)
(* is forwarded or fails ends it.                                               *)
Combine ==
    /\ Idle
    /\ \E b \in Blocks : is_active[b] /\ combining' = [block |-> b, index |-> 0]
    /\ ran' = NoneRan /\ UNCHANGED <<table, master, trapped, registered, cleared, ops>>

CombineNext ==
    LET b == combining.block
        i == combining.index
    IN  /\ combining # Nothing
        /\ IF i < length[b]
           THEN /\ Despatch(b, i)
                /\ combining' = IF Effect(b, i)[1] = "ends" \/ i + 1 = MaxLength
                                THEN Nothing ELSE [combining EXCEPT !.index = i + 1]
           ELSE combining' = Nothing /\ ran' = NoneRan /\ UNCHANGED <<table, cleared>>
        /\ UNCHANGED <<master, trapped, registered, ops>>

-------------------------------------------------------------------------------
(* From the ground.  What is refused changes nothing.                               *)
Edit ==
    /\ Idle /\ ops < MaxOps /\ ops' = ops + 1
    /\ \/ \E b \in Blocks : BCT_clear_block(b)
       \/ \E b \in Blocks, i \in 0..(MaxLength - 1) : BCT_set_position(b, i)
       \/ BCT_activate_block
    /\ ran' = NoneRan /\ UNCHANGED <<master, combining, trapped, registered>>

Register ==
    /\ Idle
    /\ \E effect \in Effects : BCT_register_cmd(effect)
    /\ ran' = NoneRan /\ UNCHANGED <<master, combining, trapped, ops>>

(* cmdExec, for the two commands that run a block.                                 *)
RunBlock == Rotate \/ Combine

Next == Cycle \/ RunBlock \/ CombineNext \/ Edit \/ Register

Spec == Init /\ [][Next]_vars

-------------------------------------------------------------------------------
(* No command runs that was registered before its block was last cleared, though the   *)
(* cleared commands stay in the table behind the length, and commands are put at      *)
(* positions in blocks that are being rotated or that clear themselves                *)
(* (BlockCommandTable.cpp:144-196).                                               *)
RunsUncleared == ran' # NoneRan => ran'[2] > cleared[ran'[1]]

NoStaleCommand == [][RunsUncleared]_vars
===============================================================================
