------------------------------ MODULE StoredBlocks ------------------------------
(***************************************************************************)
(* The blocks of commands that are stored in the FRAM (FRAM_cmd_manager.cpp) and   *)
(* the actions at restarts that deploy them without the ground                     *)
(* (AutonomousControl.cpp).                                                   *)
(*                                                                             *)
(* The ground uploads a block packet by packet and sends a packet again until it  *)
(* is answered; packets and answers may be lost.  What it sends is external.      *)
(***************************************************************************)
EXTENDS Naturals, Sequences

CONSTANTS MaxBlocks,    \* FRAM_S_BCT_MAX_BLOCKS, 32
          Length,       \* FRAM_S_BCT_MAX_BLOCK_LENGTH, 14
          Counts,       \* the numbers that the ground gives to packets are 1..Counts: a
                        \* packet of number 0 that is sent twice is stored twice
          Actions,      \* RESTART_ACTION_MAX, 16
          Chosen,       \* the blocks that the ground gives to actions
          Wrap,         \* the counter of restarts is below it: 2^16
          MaxPackets,   \* bound on packets
          MaxOps,       \* bound on commands and restarts
          CutOps        \* that on those of them with a change of an action cut

StoredBlocksConstants ==
    /\ {MaxBlocks, Length, Actions} \subseteq Nat \ {0}
    /\ Chosen \subseteq 0..(MaxBlocks - 1)
    /\ Counts \in Nat \ {0, 1} /\ Wrap \in Nat \ {0, 1, 2}
    /\ {MaxPackets, MaxOps, CutOps} \subseteq Nat

Blocks    == 0..(MaxBlocks - 1)
Positions == 0..(Length - 1)
Ids       == 0..(Actions - 1)

(* The packets in the order in which the ground makes them; 0 is an empty slot.    *)
Packets     == 1..MaxPackets
Count(p)    == 1 + (p % Counts)
Slot        == [cycle : 0..MaxPackets, packet : 0..MaxPackets]
Holds(p)    == [cycle |-> p, packet |-> p]
Nothing     == [i \in Positions |-> Holds(0)]

VARIABLES number, position,     \* Stored_BC_Number, Stored_BC_Position
          prev_cmd_count,
          stored, is_active,    \* in the FRAM
          timeline,             \* what the last deployment gave to the FRAM timeline
          counter,      \* restart_non_cmd_counter, in the FRAM too
          actions,      \* restart_action, in the FRAM too
          disactivate, r,       \* the statics: executed, cleared in this run
          rt            \* the blocks that RT_Cmd_Register has been given

(* The ground, and for the properties.                                         *)
VARIABLES up,           \* the upload in progress
          made,         \* the packets made
          meant,        \* what the ground was answered to be stored
          spoiled,      \* the blocks of which that need not hold
          fired,        \* the actions executed, in order, since the last contact or
                        \* turnover of the counter
          ops

ram    == <<number, position, prev_cmd_count>>
fram   == <<stored, is_active>>
auto   == <<counter, actions, disactivate, r, rt>>
ground == <<up, made, meant, spoiled>>
vars   == <<ram, fram, timeline, auto, ground, fired, ops>>

NoUpload == [block |-> 0, pos |-> 0, left |-> 0, trust |-> FALSE]
NoAction == [bc |-> 0, activate |-> FALSE, time |-> 0]
Settings == {NoAction} \cup [bc : Chosen, activate : {TRUE}, time : 1..2]

(* FRAM_TLC_Begin and AutoControl_init, which reads the actions.                   *)
Init ==
    /\ number = 0 /\ position = 0 /\ prev_cmd_count = 0
    /\ stored = [b \in Blocks |-> Nothing] /\ is_active = [b \in Blocks |-> FALSE]
    /\ timeline = {}
    /\ counter = 1 /\ actions = [i \in Ids |-> NoAction]
    /\ disactivate = FALSE /\ r = FALSE /\ rt = {}
    /\ up = NoUpload /\ made = 0 /\ meant = [b \in Blocks |-> Nothing] /\ spoiled = {}
    /\ fired = <<>> /\ ops = 0

-------------------------------------------------------------------------------
(* FRAM_SBC_Write_packet: a packet with the number of the one before is refused,  *)
(* and so is one beyond the end, whose number has been noted.                 *)
IsDouble(p) == prev_cmd_count # 0 /\ prev_cmd_count = Count(p)

(* Mutant: the number is not looked at. *)
TakesAny(p) == position < Length

Takes(p) == ~IsDouble(p) /\ position < Length

FRAM_SBC_Write_packet(p) ==
    /\ prev_cmd_count' = Count(p)
    /\ IF Takes(p)
       THEN stored' = [stored EXCEPT ![number][position] = Holds(p)] /\ position' = position + 1
       ELSE UNCHANGED <<stored, position>>
    /\ UNCHANGED <<number, is_active>>

(* FRAM_SBC_Deploy_Block: the slots that have a cycle other than 0.               *)
Plan(slots) == {<<i, slots[i]>> : i \in {j \in Positions : slots[j].cycle # 0}}

FRAM_SBC_Deploy_Block(b) ==
    timeline' = IF is_active[b] THEN Plan(stored[b]) ELSE timeline

-------------------------------------------------------------------------------
(* Clear_NonCmd_counter, at every packet from the ground and once per run.        *)
Clear_NonCmd_counter ==
    /\ counter' = IF r THEN counter ELSE 0
    /\ r' = TRUE

Contact == Clear_NonCmd_counter /\ fired' = <<>> /\ UNCHANGED <<disactivate, rt>>

(* Mutant: an action whose time has passed is executed too. *)
ChosenLate(c) == {i \in Ids : actions[i].time <= c}

ChosenNow(c) == {i \in Ids : actions[i].time = c /\ \A j \in 0..(i - 1) : actions[j].time # c}

Due == ChosenNow(counter)

(* AutoControl_execute, a command in the sequences of the modes NORMAL and SAFE.   *)
AutoControl_execute ==
    /\ ~disactivate /\ disactivate' = TRUE
    /\ IF counter = 0 \/ Due = {} THEN UNCHANGED <<counter, r, rt, fired>>
       ELSE \E i \in Due :
              /\ rt' = IF actions[i].activate THEN rt \cup {actions[i].bc} ELSE rt
              /\ IF i = Actions - 1 THEN Clear_NonCmd_counter ELSE UNCHANGED <<counter, r>>
              /\ fired' = IF i = Actions - 1 /\ ~r THEN <<>> ELSE Append(fired, i)
    /\ UNCHANGED <<ram, fram, timeline, actions, ground, ops>>

(* The realtime command FRAM_DEPLOY_BLOCK.                                       *)
Deploy ==
    /\ \E b \in rt : FRAM_SBC_Deploy_Block(b) /\ rt' = rt \ {b}
    /\ UNCHANGED <<ram, fram, counter, actions, disactivate, r, ground, fired, ops>>

(* At a restart: the rest of an upload will go into block 0; the counter may turn over. *)
Rest == IF up.left > 0 THEN {0} ELSE {}
Kept == IF counter + 1 = Wrap THEN <<>> ELSE fired

(* The processor restarts, perhaps between two writes to the FRAM.  Of a packet the   *)
(* cycle is written before the packet itself.                                    *)
WriteCut ==
    /\ up.left > 0 /\ Takes(made + 1)
    /\ stored' = [stored EXCEPT ![number][position].cycle = made + 1]
    /\ spoiled' = spoiled \cup {0, number}
    /\ fired' = Kept /\ UNCHANGED actions

(* A removal, of one packet, of a block or of all, goes from packet to packet, the     *)
(* cycle first: what is before packet i of block b has gone, and perhaps its cycle, or  *)
(* the packet itself.                                                          *)
RemoveCut ==
    /\ \E b \in Blocks, i \in Positions :
       \E first \in {<<b, i>>, <<b, 0>>, <<0, 0>>},
          s \in {stored[b][i], [stored[b][i] EXCEPT !.cycle = 0], Holds(0)} :
          /\ stored' = [c \in Blocks |->
                           IF c \in first[1]..(b - 1) THEN Nothing
                           ELSE IF c # b THEN stored[c]
                           ELSE [j \in Positions |-> IF j = i THEN s
                                                     ELSE IF j \in first[2]..(i - 1) THEN Holds(0)
                                                     ELSE stored[b][j]]]
          /\ spoiled' = spoiled \cup (first[1]..b) \cup Rest
    /\ fired' = Kept /\ UNCHANGED actions

(* Of an action the block is written first, then whether it is active, then its time.  *)
(* The packet that changes it is a contact, which clears the counter only afterwards. *)
ActionCut ==
    /\ \E i \in Ids, a \in Settings :
          actions' \in {[actions EXCEPT ![i] = a],
                        [actions EXCEPT ![i] = [a EXCEPT !.time = actions[i].time]],
                        [actions EXCEPT ![i] = [actions[i] EXCEPT !.bc = a.bc]]}
    /\ spoiled' = spoiled \cup Rest /\ fired' = <<>>
    /\ UNCHANGED stored

Restart ==
    /\ ops < MaxOps /\ ops' = ops + 1
    /\ number' = 0 /\ position' = 0 /\ prev_cmd_count' = 0
    /\ counter' = (counter + 1) % Wrap /\ disactivate' = FALSE /\ r' = FALSE /\ rt' = {}
    /\ \/ /\ UNCHANGED <<stored, actions>> /\ spoiled' = spoiled \cup Rest
          /\ fired' = Kept
       \/ WriteCut \/ RemoveCut \/ (ops < CutOps /\ ActionCut)
    /\ up' = [up EXCEPT !.trust = FALSE]
    /\ UNCHANGED <<is_active, timeline, made, meant>>

-------------------------------------------------------------------------------
(* An upload.  The ground says where it begins; it may be abandoned.               *)
Counted == ops < MaxOps /\ ops' = ops + 1

(* FRAM_SBC_Set_Stored_BC_Number.  Packets numbered as the last one are refused.   *)
Begin ==
    /\ Counted /\ Contact
    /\ \E b \in Blocks, pos \in Positions, n \in 1..(Length + 1) :
          /\ made + n <= MaxPackets
          /\ number' = b /\ position' = pos
          /\ up' = [block |-> b, pos |-> pos, left |-> n,
                    trust |-> b \notin spoiled /\ Count(made + 1) # prev_cmd_count]
          /\ spoiled' = spoiled \cup {b}
    /\ UNCHANGED <<prev_cmd_count, fram, timeline, actions, made, meant>>

SetRefused ==
    /\ Counted /\ Contact
    /\ position' = 0
    /\ up' = [up EXCEPT !.trust = FALSE] /\ spoiled' = spoiled \cup {number}
    /\ UNCHANGED <<number, prev_cmd_count, fram, timeline, actions, made, meant>>

(* The next packet arrives, for the first time or again; the ground goes on when   *)
(* it is answered, by success or by a conflict.                               *)
Answered ==
    LET done == up.left = 1
    IN  /\ up' = IF done THEN NoUpload ELSE [up EXCEPT !.pos = @ + 1, !.left = @ - 1]
        /\ made' = made + 1
        /\ meant' = IF up.pos < Length
                    THEN [meant EXCEPT ![up.block][up.pos] = Holds(made + 1)] ELSE meant
        /\ spoiled' = IF done /\ up.trust THEN spoiled \ {up.block} ELSE spoiled

Upload ==
    /\ up.left > 0
    /\ FRAM_SBC_Write_packet(made + 1) /\ Contact
    /\ Answered \/ UNCHANGED ground
    /\ UNCHANGED <<timeline, actions, ops>>

(* The packets that were not answered are given up, the first one's number too, as  *)
(* it may have arrived.                                                       *)
Abandon ==
    /\ up.left > 0
    /\ up' = NoUpload /\ made' \in {made, made + 1}
    /\ UNCHANGED <<ram, fram, timeline, auto, meant, spoiled, fired, ops>>

(* Commands: ACTIVATE_BLOCK, REMOVE_BLOCK and REMOVE_ALL_BLOCK, REMOVE_BLOCK_AT_    *)
(* POSITION, REQUEST_BC_PARAM and DEPLOY_BLOCK.                               *)
Activate ==
    /\ \E b \in Blocks : is_active' = [is_active EXCEPT ![b] = ~@]
    /\ UNCHANGED <<number, position, stored, timeline, actions, meant, up, spoiled>>

Remove ==
    /\ \E B \in {{b} : b \in Blocks} \cup {Blocks} :
          /\ stored' = [b \in Blocks |-> IF b \in B THEN Nothing ELSE stored[b]]
          /\ meant' = [b \in Blocks |-> IF b \in B THEN Nothing ELSE meant[b]]
          /\ spoiled' = IF up.left = 0 THEN spoiled \ B ELSE spoiled
          /\ up' = [up EXCEPT !.trust = @ /\ up.block \notin B]
    /\ UNCHANGED <<number, position, is_active, timeline, actions>>

RemoveAt ==
    /\ \E b \in Blocks, i \in Positions :
          /\ stored' = [stored EXCEPT ![b][i] = Holds(0)]
          /\ meant' = [meant EXCEPT ![b][i] = Holds(0)]
          /\ up' = [up EXCEPT !.trust = @ /\ up.block # b]
    /\ UNCHANGED <<number, position, is_active, timeline, actions, spoiled>>

(* FRAM_SBC_ExtractData. *)
Extract ==
    /\ \E b \in Blocks, i \in Positions : number' = b /\ position' = i
    /\ up' = [up EXCEPT !.trust = FALSE]
    /\ spoiled' = spoiled \cup IF up.left > 0 THEN {number'} ELSE {}
    /\ UNCHANGED <<fram, timeline, actions, meant>>

DeployNow ==
    /\ \E b \in Blocks : FRAM_SBC_Deploy_Block(b)
    /\ UNCHANGED <<number, position, fram, actions, meant, up, spoiled>>

(* AutoControl_set_action and AutoControl_remove_action; remove_all_action is      *)
(* several of the latter.                                                     *)
SetAction ==
    /\ \E i \in Ids, a \in Settings : actions' = [actions EXCEPT ![i] = a]
    /\ UNCHANGED <<number, position, fram, timeline, meant, up, spoiled>>

SentCommand(command) ==
    /\ Counted /\ Contact
    /\ command
    /\ UNCHANGED <<prev_cmd_count, made>>

Change == SentCommand(Activate \/ Remove \/ RemoveAt \/ Extract \/ DeployNow)

AutoControl == SentCommand(SetAction)

(* Action number RESTART_ACTION_MAX is not refused and lies behind the array: where     *)
(* the statics follow it they are overwritten, before the packet clears the counter.  *)
SetBeyond ==
    /\ Counted
    /\ disactivate' \in BOOLEAN
    /\ counter' \in {counter, 0} /\ r' = TRUE /\ fired' = <<>>
    /\ UNCHANGED <<ram, fram, timeline, actions, rt, ground>>

(* AutoControl_set_restart_non_cmd_counter; the packet may clear the counter after it. *)
SetCounter ==
    /\ Counted /\ counter' \in 0..2 /\ r' = TRUE /\ fired' = <<>>
    /\ UNCHANGED <<ram, fram, timeline, actions, disactivate, rt, ground>>

(* cmdExec: the commands of the stored blocks, and of the autonomous control.       *)
BlockCommand == Begin \/ SetRefused \/ Change \/ Deploy

ControlCommand == SetCounter \/ SetBeyond \/ AutoControl \/ AutoControl_execute

Next == BlockCommand \/ ControlCommand \/ Upload \/ Abandon \/ Restart

Spec == Init /\ [][Next]_vars

-------------------------------------------------------------------------------
(* A block holds what the ground was answered, every packet once and at its place,  *)
(* whatever packets and answers were lost.  Damage has its bounds: a restart, a     *)
(* refused position, a removal or a readout during an upload spoils the block of   *)
(* the upload and the one into which the rest then goes, 0 after a restart; a       *)
(* restart during a removal those it had come to; a packet with the number of the   *)
(* last one, sent for another position, its block.                              *)
StoredAsMeant == \A b \in Blocks \ spoiled : stored[b] = meant[b]

(* From one contact with the ground to the next no action is executed twice, and    *)
(* one of a later time never before one of an earlier, however often the processor *)
(* restarts and wherever it does; unless the counter turns over, and all begins    *)
(* anew.                                                                     *)
EscalatesInOrder ==
    Len(fired') > Len(fired) =>
        \A k \in DOMAIN fired : actions[fired[k]].time < actions[fired'[Len(fired')]].time

EscalatesOnce == [][EscalatesInOrder]_vars
===============================================================================
