--------------------------- MODULE PacketListNodes ----------------------------
(***************************************************************************)
(* PacketList.cpp as it is in memory: the nodes of a fixed stock, each with *)
(* a packet and a link, chained on an active and on an inactive list.  The  *)
(* operations are those of the timelines (PL_insert_tl_cmd, PL_drop_node)   *)
(* and of the FIFO lists (PL_push_back); a list is used in one of the ways. *)
(***************************************************************************)
EXTENDS PacketList, FiniteSets

CONSTANTS Packets,      \* the packets that can be put on the list
          NumNodes,     \* pl_public.total_nodes
          Now,          \* the times at which the list is used
          MaxExecuted,  \* bound of this model on executed_nodes
          NoPacket      \* the zeroed packet of a node never used

ASSUME NodesAssumption ==
    /\ NumNodes \in Nat \ {0}
    /\ \A p \in Packets : p.time \in Time
    /\ Now \subseteq Time

VARIABLES timed,        \* a timeline, or a FIFO list
          packet,       \* stock[n].packet
          next,         \* stock[n].next
          inactive_list_head, active_list_head, active_list_tail,
          active_nodes, executed_nodes,
          fault         \* a NULL pointer was followed: the processor traps

listVars == <<timed, packet, next, inactive_list_head, active_list_head,
              active_list_tail, active_nodes, executed_nodes, fault>>

Nodes == 1..NumNodes    \* index in stock, plus one
NULL  == 0

(* The nodes reached from n by following the links, at most k of them. *)
Chain(n) ==
    LET follow[k \in 0..NumNodes] ==
          [m \in Nodes \cup {NULL} |->
             IF k = 0 \/ m = NULL THEN <<>>
             ELSE <<m>> \o follow[k - 1][next[m]]]
    IN  follow[NumNodes][n]

Active   == Chain(active_list_head)
Inactive == Chain(inactive_list_head)

(* The links of PL_clear_list: the stock in order, the last one to NULL. *)
FreshLinks == [n \in Nodes |-> IF n = NumNodes THEN NULL ELSE n + 1]

ListInit ==
    /\ timed \in BOOLEAN
    /\ packet = [n \in Nodes |-> NoPacket]
    /\ next = FreshLinks
    /\ inactive_list_head = 1
    /\ active_list_head = NULL
    /\ active_list_tail = NULL
    /\ active_nodes = 0
    /\ executed_nodes = 0
    /\ fault = FALSE

-------------------------------------------------------------------------------
(* PL_get_free_node_ takes the head of the inactive list; the three ways to   *)
(* link it are written with the free node already off that list.              *)

HasFree == inactive_list_head # NULL
Free    == inactive_list_head

PushFront(p) ==
    /\ packet' = [packet EXCEPT ![Free] = p]
    /\ next' = [next EXCEPT ![Free] = active_list_head]
    /\ active_list_head' = Free
    /\ active_list_tail' =
         IF active_list_tail = NULL THEN Free ELSE active_list_tail

PushBack(p) ==
    /\ packet' = [packet EXCEPT ![Free] = p]
    /\ next' = IF active_list_tail = NULL
               THEN [next EXCEPT ![Free] = NULL]
               ELSE [next EXCEPT ![Free] = NULL, ![active_list_tail] = Free]
    /\ active_list_head' =
         IF active_list_tail = NULL THEN Free ELSE active_list_head
    /\ active_list_tail' = Free

(* Mutant: what followed pos is cut off. *)
InsertAfterCuts(pos, p) ==
    /\ packet' = [packet EXCEPT ![Free] = p]
    /\ next' = [next EXCEPT ![Free] = NULL, ![pos] = Free]
    /\ UNCHANGED <<active_list_head, active_list_tail>>

InsertAfter(pos, p) ==
    /\ packet' = [packet EXCEPT ![Free] = p]
    /\ next' = [next EXCEPT ![Free] = next[pos], ![pos] = Free]
    /\ UNCHANGED <<active_list_head, active_list_tail>>

TookFree ==
    /\ inactive_list_head' = next[Free]
    /\ active_nodes' = active_nodes + 1
    /\ UNCHANGED <<executed_nodes, fault>>

(* The walk of PL_insert_tl_cmd: the first node after the head whose packet   *)
(* is not earlier than t.                                                     *)
FirstNotEarlier(t) ==
    CHOOSE i \in 2..Len(Active) :
        /\ packet[Active[i]].time >= t
        /\ \A j \in 2..(i - 1) : packet[Active[j]].time < t

PL_insert_tl_cmd(p, now) ==
    LET head == packet[active_list_head].time
        tail == packet[active_list_tail].time
        curr == FirstNotEarlier(p.time)
    IN  /\ ~fault
        /\ now <= p.time                            \* else PL_TLC_PAST_TIME
        /\ HasFree                                  \* else PL_LIST_FULL
        /\ TookFree
        /\ \/ active_list_head = NULL /\ PushFront(p)
           \/ /\ active_list_head # NULL
              /\ \/ tail < p.time /\ PushBack(p)
                 \/ tail >= p.time /\ head > p.time /\ PushFront(p)
                 \/ /\ tail >= p.time /\ head < p.time
                    /\ packet[Active[curr]].time # p.time  \* else ALREADY_EXISTS
                    /\ InsertAfter(Active[curr - 1], p)

PL_push_back(p) ==
    /\ ~fault
    /\ HasFree                                      \* else PL_LIST_FULL
    /\ TookFree
    /\ PushBack(p)

-------------------------------------------------------------------------------
(* PL_drop_head on a list that is not empty. *)
DropHeadNode ==
    /\ active_list_head' = next[active_list_head]
    /\ active_list_tail' =
         IF next[active_list_head] = NULL THEN NULL ELSE active_list_tail
    /\ next' = [next EXCEPT ![active_list_head] = inactive_list_head]
    /\ inactive_list_head' = active_list_head
    /\ active_nodes' = active_nodes - 1

(* PL_drop_executed counts even when there was nothing to drop. *)
PL_drop_executed ==
    /\ ~fault
    /\ executed_nodes < MaxExecuted
    /\ executed_nodes' = executed_nodes + 1
    /\ IF active_list_head = NULL
       THEN UNCHANGED <<next, inactive_list_head, active_list_head,
                        active_list_tail, active_nodes>>
       ELSE DropHeadNode
    /\ UNCHANGED <<packet, fault>>

(* PL_drop_node of the head drops it and goes on to the search for its        *)
(* predecessor: on the list that is left the search ends without one, but     *)
(* when the head was the only node it starts by following the NULL head.      *)
DropFirst(pos) ==
    /\ pos = active_list_head
    /\ DropHeadNode
    /\ fault' = (active_list_head' = NULL)

(* Mutant: the node dropped is not given back. *)
DropLaterLosesNode(pos) ==
    LET i    == CHOOSE j \in 2..Len(Active) : Active[j] = pos
        temp == Active[i - 1]
    IN  /\ pos # active_list_head
        /\ next' = [next EXCEPT ![temp] = next[pos]]
        /\ active_list_tail' =
             IF active_list_tail = pos THEN temp ELSE active_list_tail
        /\ active_nodes' = active_nodes - 1
        /\ UNCHANGED <<inactive_list_head, active_list_head, fault>>

DropLater(pos) ==
    LET i    == CHOOSE j \in 2..Len(Active) : Active[j] = pos
        temp == Active[i - 1]
    IN  /\ pos # active_list_head
        /\ next' = [next EXCEPT ![temp] = next[pos], ![pos] = inactive_list_head]
        /\ active_list_tail' =
             IF active_list_tail = pos THEN temp ELSE active_list_tail
        /\ inactive_list_head' = pos
        /\ active_nodes' = active_nodes - 1
        /\ UNCHANGED <<active_list_head, fault>>

PL_drop_node ==
    /\ ~fault
    /\ \E i \in 1..Len(Active) : DropFirst(Active[i]) \/ DropLater(Active[i])
    /\ UNCHANGED <<packet, executed_nodes>>

PL_clear_list ==
    /\ ~fault
    /\ next' = FreshLinks
    /\ active_nodes' = 0
    /\ inactive_list_head' = 1
    /\ active_list_head' = NULL
    /\ active_list_tail' = NULL
    /\ UNCHANGED <<packet, executed_nodes, fault>>

(* PL_initialize, and the restart that follows a trap. *)
PL_initialize ==
    /\ packet' \in {packet, [n \in Nodes |-> NoPacket]}
    /\ next' = FreshLinks
    /\ active_nodes' = 0
    /\ inactive_list_head' = 1
    /\ active_list_head' = NULL
    /\ active_list_tail' = NULL
    /\ executed_nodes' = 0
    /\ fault' = FALSE

-------------------------------------------------------------------------------
ListNext ==
    /\ \/ /\ timed
          /\ (\E p \in Packets, now \in Now : PL_insert_tl_cmd(p, now)) \/ PL_drop_node
       \/ ~timed /\ \E p \in Packets : PL_push_back(p)
       \/ PL_drop_executed
       \/ PL_clear_list
       \/ PL_initialize
    /\ UNCHANGED timed

ListSpec == ListInit /\ [][ListNext]_listVars

-------------------------------------------------------------------------------
(* No node is ever lost or on two lists: the active and the inactive chain    *)
(* end, and together hold every node of the stock exactly once.  PL_clear_    *)
(* list, PL_get_free_node_ and the two drops move nodes between them.         *)
NoNodeLost ==
    LET on(chain) == {chain[i] : i \in 1..Len(chain)}
    IN  /\ on(Active) \cup on(Inactive) = Nodes
        /\ Len(Active) + Len(Inactive) = NumNodes

(* The nodes implement the sequence that the dispatchers rely on, for both    *)
(* ways of using a list: in particular a timeline stays in order of time with *)
(* no two packets at one time, and a FIFO list keeps the order of arrival.    *)
Queue == INSTANCE PacketQueue
    WITH Packet <- Packets,
         list <- [i \in 1..Len(Active) |-> packet[Active[i]]],
         active <- active_nodes, executed <- executed_nodes, Size <- NumNodes

ImplementsQueue == Queue!QueueSpec
===============================================================================
