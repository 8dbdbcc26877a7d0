----------------------------- MODULE PacketQueue ------------------------------
(***************************************************************************)
(* What a packet list promises to the dispatchers that use it: the active   *)
(* packets are a sequence, changed by one operation at a time.  The FIFO    *)
(* lists only grow at the end; the timelines grow in the order of time.     *)
(* PacketListNodes implements this specification with linked nodes.         *)
(***************************************************************************)
EXTENDS PacketList

CONSTANTS Packet,       \* the packets: records with a field "time"
          Size,         \* total_nodes
          Now           \* the times at which the list is used

VARIABLES timed,        \* the list is a timeline: this never changes
          list,         \* the active packets, head first
          active,       \* their number, as PL_count_active_nodes tells it
          executed      \* executed_nodes

queueVars == <<timed, list, active, executed>>

QueueInit == timed \in BOOLEAN /\ list = <<>> /\ active = 0 /\ executed = 0

Becomes(new) == list' = new /\ active' = Len(new)

(* PL_insert_tl_cmd: a refused packet leaves the list alone. *)
QueueInsert(p, now) ==
    /\ Becomes(Insert(list, Size, p, now))
    /\ UNCHANGED executed

(* PL_push_back; PL_LIST_FULL leaves the list alone. *)
QueuePushBack(p) ==
    /\ Becomes(IF Len(list) = Size THEN list ELSE Append(list, p))
    /\ UNCHANGED executed

(* PL_drop_executed. *)
QueueDropExecuted ==
    /\ Becomes(DropHead(list))
    /\ executed' = executed + 1

(* PL_drop_node of one of the active packets. *)
QueueDropNode ==
    /\ \E i \in 1..Len(list) : Becomes(RemoveAt(list, i))
    /\ UNCHANGED executed

(* PL_clear_list; PL_initialize also resets the counter. *)
QueueClear ==
    /\ Becomes(<<>>)
    /\ executed' \in {executed, 0}

QueueNext ==
    /\ \/ /\ timed
          /\ (\E p \in Packet, now \in Now : QueueInsert(p, now)) \/ QueueDropNode
       \/ ~timed /\ \E p \in Packet : QueuePushBack(p)
       \/ QueueDropExecuted
       \/ QueueClear
    /\ UNCHANGED timed

QueueSpec == QueueInit /\ [][QueueNext]_queueVars
===============================================================================
