--------------------------------- MODULE Uplink ---------------------------------
(***************************************************************************)
(* How the bytes that the receiver of the radio gives become packets: first the    *)
(* reception from the serial port, which cuts one packet out of the bytes that     *)
(* wait there (Serial_DataReceive of CommonSerialReceiver.cpp, PORT_DATA), then the *)
(* extraction, which reads the same bytes once more with a state that outlives the *)
(* reception (PH_extract_packet of PacketHandler.cpp).                         *)
(*                                                                             *)
(* A byte is a number.  A packet is STX1 STX2 L, L bytes of data, two bytes of a  *)
(* checksum that is computed and not compared, ETX1 ETX2.  The length 0xA8, which the *)
(* reception takes for 0xA1 when it is the third byte, is left out: no L is it.     *)
(***************************************************************************)
EXTENDS Integers, SequencesExt

CONSTANTS STX1, STX2, ETX1, ETX2,       \* 0xEB, 0x90, 0xC5, 0x79
          MaxLength                     \* CCP_MAX_PACKET_LENGTH

ASSUME UplinkAssumption ==
    /\ {STX1, STX2, ETX1, ETX2, MaxLength} \subseteq Nat
    /\ STX1 # STX2

Packet(data) == <<STX1, STX2, Len(data)>> \o data \o <<0, 0, ETX1, ETX2>>

(* The first of the bytes from position i on that is b, 0 if there is none.        *)
Position(u, i, b) ==
    LET places == {j \in i..Len(u) : u[j] = b}
    IN  IF places = {} THEN 0 ELSE CHOOSE j \in places : \A k \in places : j <= k

-------------------------------------------------------------------------------
(* Serial_DataReceive.  Where the packet ends, counted from its first byte STX1;    *)
(* the length is looked at again with each byte that follows it.  0: not known yet. *)
PacketEnd(u) ==
    LET header == Position(u, 1, STX1)
        second == IF header = 0 THEN 0 ELSE Position(u, header + 1, STX2)
    IN  IF second = 0 \/ second >= Len(u) THEN 0
        ELSE LET whole == header + u[second + 1] + 6     \* CCP_STX_ETX_LENGTH
             IN  IF whole > second + 2 THEN whole ELSE second + 2

Receives(u) == PacketEnd(u) \in 1..Len(u) /\ PacketEnd(u) <= MaxLength

(* Mutant: the bytes are not counted before a packet is found.                     *)
TakenAll(u) == IF Receives(u) THEN PacketEnd(u) ELSE Len(u)

(* Bytes that the call takes: one packet, with what is before it, or all it can.    *)
Taken(u) ==
    IF Receives(u) THEN PacketEnd(u)
    ELSE IF Len(u) > MaxLength THEN MaxLength + 1 ELSE Len(u)

(* It waits for the rest of a packet that began, until its time is over.           *)
Waits(u) == Position(u, 1, STX1) # 0 /\ ~Receives(u) /\ Len(u) <= MaxLength

-------------------------------------------------------------------------------
(* PE_initialize.                                                             *)
NoPacket == [rec_status |-> 0, rec_count |-> 0, packet |-> <<>>]

(* PH_check_packet_error.                                                      *)
EndsWell(p) == p[Len(p)] = ETX2 /\ p[Len(p) - 1] = ETX1

(* One byte of PH_extract_packet: the state, and the packets that came out.          *)
Extract(x, b) ==
    LET pei == x.pei
        p   == Append(pei.packet, b)
        To(s, n, q) == [x EXCEPT !.pei = [rec_status |-> s, rec_count |-> n, packet |-> q]]
    IN  CASE pei.rec_status = 0 -> IF b = STX1 THEN To(1, pei.rec_count, <<b>>) ELSE x
          [] pei.rec_status = 1 -> IF b = STX2 THEN To(2, pei.rec_count, p) ELSE x
          [] pei.rec_status = 2 -> To(3, b + 4, p)
          [] OTHER -> IF pei.rec_count > 1 THEN To(3, pei.rec_count - 1, p)
                      ELSE [pei |-> To(0, 0, p).pei,
                            out |-> IF EndsWell(p) THEN Append(x.out, p) ELSE x.out]

(* PH_extract_packet.                                                         *)
PH_extract_packet(bytes, pei) ==
    FoldLeft(Extract, [pei |-> pei, out |-> <<>>], bytes)
===============================================================================
