--------------------------- MODULE MCPacketListNodes ---------------------------
(* An instance of PacketListNodes for TLC: a packet is told by its time, on a    *)
(* timeline because no two share one, on a FIFO list because it is not read.   *)
EXTENDS PacketListNodes

AnyPackets == {[time |-> t] : t \in 1..5}

Times0to2 == 0..2
===============================================================================
