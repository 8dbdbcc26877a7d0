------------------------------ MODULE PacketList ------------------------------
(***************************************************************************)
(* The packet lists of PacketList.cpp, seen by their users: a list is the   *)
(* sequence of the packets on the active chain, head first.  Two kinds of   *)
(* use share the code: FIFO lists (PL_push_back) and timelines, which are   *)
(* kept in the order of the execution times (PL_insert_tl_cmd).  How the     *)
(* chain of nodes realises the sequence is module PacketListNodes.           *)
(*                                                                         *)
(* A packet is a record with at least a field "time"; the rest of it is     *)
(* never read here.                                                         *)
(***************************************************************************)
EXTENDS Integers, Sequences

CONSTANT Byte           \* values of one byte of a packet: 256 on board

ASSUME ByteAssumption == Byte \in Nat \ {0, 1}

(* cycle_t and size_t are 32 bits wide. *)
CycleSpan == Byte * Byte * Byte * Byte

Time == 0..(CycleSpan - 1)

(* The order of the bytes of a 32-bit number reversed.  CCP_set_cmd_time     *)
(* stores the bytes as the (little endian) processor keeps them and          *)
(* CCP_get_cmd_time reads them as big endian, so one pair reverses them.     *)
Swap32(t) == (t % Byte) * Byte * Byte * Byte
           + ((t \div Byte) % Byte) * Byte * Byte
           + ((t \div (Byte * Byte)) % Byte) * Byte
           + (t \div (Byte * Byte * Byte))

-------------------------------------------------------------------------------
(* Timelines: strictly increasing execution times, head first. *)

StrictlyOrdered(list) ==
    \A i, j \in 1..Len(list) : i < j => list[i].time < list[j].time

Times(list) == {list[i].time : i \in 1..Len(list)}

(* Where a packet of time t goes: before the first packet that is not earlier. *)
Place(list, t) ==
    CHOOSE i \in 1..(Len(list) + 1) :
        /\ \A j \in 1..(i - 1) : list[j].time < t
        /\ i <= Len(list) => list[i].time >= t

InsertAt(list, i, p) ==
    [j \in 1..(Len(list) + 1) |->
        IF j < i THEN list[j] ELSE IF j = i THEN p ELSE list[j - 1]]

(* Mutant: two packets may have one time. *)
InsertAckTwice(list, size, t, now) ==
    IF now > t THEN "PL_TLC_PAST_TIME"
    ELSE IF Len(list) = size THEN "PL_LIST_FULL"
    ELSE "PL_SUCCESS"

(* The answer of PL_insert_tl_cmd for a packet of time t at the time now. *)
InsertAck(list, size, t, now) ==
    IF now > t THEN "PL_TLC_PAST_TIME"
    ELSE IF Len(list) = size THEN "PL_LIST_FULL"
    ELSE IF t \in Times(list) THEN "PL_TLC_ALREADY_EXISTS"
    ELSE "PL_SUCCESS"

(* The list it leaves. *)
Insert(list, size, p, now) ==
    IF InsertAck(list, size, p.time, now) = "PL_SUCCESS"
    THEN InsertAt(list, Place(list, p.time), p)
    ELSE list

(* Mutant: only the command of this very cycle is due. *)
CheckNeverPast(list, now) ==
    IF list # <<>> /\ now = Head(list).time THEN "PL_TLC_ON_TIME"
    ELSE "PL_TLC_NOT_YET"

(* PL_check_tl_cmd. *)
Check(list, now) ==
    IF list = <<>> \/ now < Head(list).time THEN "PL_TLC_NOT_YET"
    ELSE IF now = Head(list).time THEN "PL_TLC_ON_TIME"
    ELSE "PL_TLC_PAST_TIME"

(* Mutant: the executed packet stays. *)
DropHeadKeeps(list) == list

(* PL_drop_head: nothing to drop is not an error. *)
DropHead(list) == IF list = <<>> THEN list ELSE Tail(list)

RemoveAt(list, i) ==
    [j \in 1..(Len(list) - 1) |-> IF j < i THEN list[j] ELSE list[j + 1]]

-------------------------------------------------------------------------------
(* PL_deploy_block_cmd: the commands of a block go on a timeline at start +   *)
(* their offsets.  A command whose place is taken is moved and tried again,   *)
(* and what was added to its time (adj) also delays the commands after it.    *)
(* The new time is not the old one plus 1: it has gone through CCP_get_cmd_   *)
(* time and one more reversal, so the bytes come out in the other order.      *)

CONSTANT AdjLimit       \* a command is not moved again once adj exceeds it: 100

ASSUME AdjAssumption == AdjLimit \in Nat

Moved(t) == (Swap32(t) + 1) % CycleSpan

(* The state of the loop over the block: the list, the sum of the            *)
(* adjustments, the last answer, and the time last tried.                    *)
Attempt(size, start, s, c, t) ==
    [list |-> Insert(s.list, size, [c EXCEPT !.time = t], start),
     adj  |-> s.adj,
     ack  |-> InsertAck(s.list, size, t, start),
     time |-> t]

Retry(size, start, s, c) ==
    Attempt(size, start, [s EXCEPT !.adj = @ + 1], c, Moved(s.time))

(* One pass of the while loop, the k-th, or none any more.  The limit is       *)
(* tested after a pass, so a command whose place is taken is moved once.      *)
RetryPass(size, start, s, c, k) ==
    IF s.ack = "PL_TLC_ALREADY_EXISTS" /\ (k = 1 \/ s.adj <= AdjLimit)
    THEN Retry(size, start, s, c)
    ELSE s

Retries(size, start, first, c) ==
    LET pass[k \in 0..(AdjLimit + 1)] ==
          IF k = 0 THEN first ELSE RetryPass(size, start, pass[k - 1], c, k)
    IN  pass[AdjLimit + 1]

(* Mutant: a command that was refused is left out, the rest goes on. *)
DeployCmdSkips(size, start, s, c) ==
    Retries(size, start,
            Attempt(size, start, s, c, (start + s.adj + c.time) % CycleSpan), c)

(* One pass of the for loop; a command that was refused ends the deployment. *)
DeployCmd(size, start, s, c) ==
    IF s.ack # "PL_SUCCESS" THEN s
    ELSE Retries(size, start,
                 Attempt(size, start, s, c, (start + s.adj + c.time) % CycleSpan), c)

DeployCmds(size, start, begin, cmds) ==
    LET pass[i \in 0..Len(cmds)] ==
          IF i = 0 THEN begin ELSE DeployCmd(size, start, pass[i - 1], cmds[i])
    IN  pass[Len(cmds)]

Deploy(list, size, cmds, start) ==
    LET cleared == size - Len(list) < Len(cmds)
        end     == DeployCmds(size, start,
                              [list |-> IF cleared THEN <<>> ELSE list,
                               adj |-> 0, ack |-> "PL_SUCCESS", time |-> start],
                              cmds)
    IN  [list |-> end.list,
         ack  |-> IF end.ack # "PL_SUCCESS" THEN end.ack
                  ELSE IF cleared THEN "PL_BC_LIST_CLEARED"
                  ELSE IF end.adj # 0 THEN "PL_BC_TIME_ADJUSTED"
                  ELSE "PL_SUCCESS"]

(* PL_deploy_block_cmd for a block of the block command table. *)
DeployBlock(list, size, block, start) ==
    IF block.is_active
    THEN Deploy(list, size, block.cmds, start)
    ELSE [list |-> list, ack |-> "PL_BC_INACTIVE_BLOCK"]
===============================================================================
