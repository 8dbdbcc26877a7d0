------------------------------- MODULE Telemetry -------------------------------
(***************************************************************************)
(* The packets of telemetry: who puts them together in the one buffer           *)
(* TlmTransferFrame, which count they get, and where add_rt_tlm sends them: over the   *)
(* serial line of the mission (LoRa), into the memory of the mission, into the       *)
(* memory of the satellite, to the list that is transmitted.  When the generators are   *)
(* due is in the modules GroundLink and Recorder; here they may run at any time.      *)
(*                                                                             *)
(* A packet is [id, mark, count, made, bytes]: mark is its discrimination, made the      *)
(* number of the packet among all, and a byte is a stamp, which packet wrote it and for   *)
(* which field.                                                                  *)
(***************************************************************************)
EXTENDS TlmFrames

CONSTANTS Requested,    \* frames that the ground asks for
          MissionIds,   \* those of check_msn_packet that the mission sends
          Forwards,     \* tables of lora_fwd_tlm that the ground sets
          ListMax,      \* RT_TLM_LIST_MAX
          Wrap,         \* counts are modulo Wrap, 256
          MaxMade,      \* bound on the packets made,
          MaxOps        \* and on commands of the ground and restarts

ASSUME TelemetryAssumption ==
    /\ Requested \subseteq Ids /\ MissionIds \subseteq Nat \ Ids
    /\ Forwards \subseteq SUBSET Nat
    /\ {ListMax, Wrap, MaxMade} \subseteq Nat \ {0} /\ MaxOps \in Nat

CCP_OBC_TLM_ID == 1

Memories == {"hk", "msn"}

VARIABLES frame,        \* packet_data of TlmTransferFrame
          TlmCount, DrTlmCount,
          rt_tlm_list,
          enabled,      \* of hk_dr and msn_dr: what is recorded
          pages,        \* the packets in the two memories
          fwd,          \* the ids of lora_fwd_tlm, none when it is disabled
          stx           \* pwr_sts.stx

(* For the properties only: the packets made, the pages of before the last restart, and    *)
(* the commands and restarts.                                                       *)
VARIABLES made, began, ops

counts  == <<TlmCount, DrTlmCount>>
routes  == <<enabled, fwd, stx>>
vars    == <<frame, counts, rt_tlm_list, enabled, pages, fwd, stx, made, began, ops>>

Stamp(n, at) == n * DATA_PACKET_SIZE + at
MadeAs(s)    == s \div DATA_PACKET_SIZE

Blank  == [b \in 0..(DATA_PACKET_SIZE - 1) |-> Stamp(0, 0)]
NoneOf == [id \in Ids |-> 0]

Init ==
    /\ frame = Blank /\ TlmCount = NoneOf /\ DrTlmCount = NoneOf
    /\ rt_tlm_list = <<>>
    /\ enabled = {} /\ pages = [m \in Memories |-> <<>>] /\ fwd = {} /\ stx = FALSE
    /\ made = 0 /\ began = 0 /\ ops = 0

(* A restart: the buffer, the counts and the list are in the memory of the processor, and    *)
(* DR_initialize and LoRa_initialize_ leave everything disabled; the pages are in the flash,  *)
(* and the transmitter is as it is found.                                             *)
Restart ==
    /\ frame' = Blank /\ TlmCount' = NoneOf /\ DrTlmCount' = NoneOf
    /\ rt_tlm_list' = <<>>
    /\ enabled' = {} /\ fwd' = {} /\ stx' \in BOOLEAN
    /\ began' = Len(pages["hk"])
    /\ UNCHANGED <<pages, made>>

-------------------------------------------------------------------------------
(* TlmHeader, the function of the frame, TlmFooter: the count of the frame goes up, the   *)
(* one of its kind, and its fields are written over what the buffer holds.             *)
TLM_REAL == "real"
TLM_DR   == "dr"

(* Mutant: one count for both kinds.                                               *)
CountsOne(id, tlm_mode) ==
    [k \in {TLM_REAL, TLM_DR} |-> [TlmCount EXCEPT ![id] = (@ + 1) % Wrap]]

(* What the two counts of the frames become.                                         *)
Counts(id, tlm_mode) ==
    [k \in {TLM_REAL, TLM_DR} |->
        LET old == IF k = TLM_DR THEN DrTlmCount ELSE TlmCount
        IN  IF k = tlm_mode THEN [old EXCEPT ![id] = (@ + 1) % Wrap] ELSE old]

Written(id) ==
    [b \in DOMAIN frame |-> IF FieldAt[id][b] = NotWritten THEN frame[b]
                            ELSE Stamp(made + 1, FieldAt[id][b])]

MakeTlmPacket(id, tlm_mode) ==
    /\ made < MaxMade
    /\ made' = made + 1
    /\ UNCHANGED began
    /\ TlmCount' = Counts(id, tlm_mode)[TLM_REAL]
    /\ DrTlmCount' = Counts(id, tlm_mode)[TLM_DR]
    /\ frame' = Written(id)

(* Mutant: the copy is taken before the frame is combined.                              *)
PacketEarly(id, tlm_mode) ==
    [id |-> id, mark |-> "tlm", made |-> made + 1,
     count |-> Counts(id, tlm_mode)[tlm_mode][id],
     bytes |-> [b \in 0..(TLM_BYTE_COUNT + Returned[id] - 1) |-> frame[b]]]

(* CCP_initialize: a copy of as many bytes of the buffer as the frame has.               *)
Packet(id, tlm_mode) ==
    LET bytes == Written(id)
    IN  [id |-> id, mark |-> "tlm", made |-> made + 1,
         count |-> Counts(id, tlm_mode)[tlm_mode][id],
         bytes |-> [b \in 0..(TLM_BYTE_COUNT + Returned[id] - 1) |-> bytes[b]]]

-------------------------------------------------------------------------------
(* _DR_PacketWrite marks the packet of its caller, and writes it.                      *)
Marked(p) == [p EXCEPT !.mark = "dr"]
DR_PacketWrite(m, p) == [pages EXCEPT ![m] = Append(@, Marked(p))]

(* add_rt_tlm.  What it does with a packet: a packet for the serial line of the mission    *)
(* or for its memory is its caller's to take there.                                  *)
PastLoRa(p)  == p.id \notin fwd
ForMission(p) == PastLoRa(p) /\ "msn" \in enabled /\ p.mark = "tlm" /\ p.id \in MissionIds
ForList(p)   == PastLoRa(p) /\ ~ForMission(p)

(* Mutant: a packet that is read back is not told from a new one.                      *)
AlsoRecordedMarked(p) ==
    /\ ForList(p) /\ "hk" \in enabled
    /\ p.id # CCP_OBC_TLM_ID /\ p.id \notin MissionIds
AlsoRecorded(p) ==
    /\ ForList(p) /\ "hk" \in enabled /\ p.mark = "tlm"
    /\ p.id # CCP_OBC_TLM_ID /\ p.id \notin MissionIds

PushBack(p) == IF Len(rt_tlm_list) = ListMax THEN <<>> ELSE Append(rt_tlm_list, p)

add_rt_tlm(p) ==
    /\ pages' = IF AlsoRecorded(p) THEN DR_PacketWrite("hk", p) ELSE pages
    /\ rt_tlm_list' = IF ForList(p) THEN PushBack(IF AlsoRecorded(p) THEN Marked(p) ELSE p)
                      ELSE rt_tlm_list

-------------------------------------------------------------------------------
(* OBC_TlmRegister, for a frame that is asked for, or the answer to a command; a packet     *)
(* that add_rt_tlm leaves to its caller ends here.                                      *)
OBC_TlmRegister(id) ==
    /\ MakeTlmPacket(id, TLM_REAL)
    /\ add_rt_tlm(Packet(id, TLM_REAL))
    /\ UNCHANGED routes

(* OBC_tlm_generator_: only for an empty list and a transmitter that is on.               *)
OBC_tlm_generator ==
    /\ rt_tlm_list = <<>> /\ stx
    /\ OBC_TlmRegister(CCP_OBC_TLM_ID)
    /\ UNCHANGED ops

st_tlm_generator ==
    /\ "hk" \in enabled
    /\ MakeTlmPacket(CCP_OBC_TLM_ID, TLM_DR)
    /\ pages' = DR_PacketWrite("hk", Packet(CCP_OBC_TLM_ID, TLM_DR))
    /\ UNCHANGED <<rt_tlm_list, routes, ops>>

(* Packets that are put together and leave at once: LoRa_ObcTlmSend, and OBC_TlmSend      *)
(* before the power is reset.                                                     *)
SendsAtOnce(id) ==
    /\ MakeTlmPacket(id, TLM_REAL)
    /\ UNCHANGED <<rt_tlm_list, pages, routes>>
LoRa_ObcTlmSend(id) == SendsAtOnce(id)
OBC_TlmSend         == SendsAtOnce(CCP_OBC_TLM_ID)

(* MSN_packet_handler_: a packet of the mission, of bytes that are not the buffer's.       *)
MSN_packet_handler(id) ==
    LET p == [id |-> id, mark |-> "tlm", count |-> 0, made |-> made + 1, bytes |-> <<>>]
    IN  /\ made < MaxMade
        /\ made' = made + 1
        /\ IF ForMission(p)
           THEN pages' = DR_PacketWrite("msn", p) /\ UNCHANGED rt_tlm_list
           ELSE add_rt_tlm(p)
        /\ UNCHANGED <<frame, counts, routes, began, ops>>

(* DR_PacketRead: a packet of a memory is extracted like one that comes in.               *)
DR_Replay(m, k) ==
    /\ add_rt_tlm(pages[m][k])
    /\ UNCHANGED <<frame, counts, routes, made, began>>

(* PH_send_realtime_telemetry: the head of the list goes back into the buffer.             *)
Over(bytes) == [b \in DOMAIN frame |-> IF b \in DOMAIN bytes THEN bytes[b] ELSE frame[b]]

PH_send_realtime_telemetry ==
    /\ rt_tlm_list # <<>>
    /\ frame' = Over(Head(rt_tlm_list).bytes)
    /\ rt_tlm_list' = Tail(rt_tlm_list)
    /\ UNCHANGED <<counts, pages, routes, made, began, ops>>

-------------------------------------------------------------------------------
(* Commands of the ground, with the power of the transmitter, and restarts.              *)
Request == \E id \in Requested : OBC_TlmRegister(id) \/ LoRa_ObcTlmSend(id)

Switch ==
    /\ \/ \E m \in Memories : enabled' = (enabled \ {m}) \cup ({m} \ enabled)
                              /\ UNCHANGED <<fwd, stx>>
       \/ fwd' \in Forwards /\ UNCHANGED <<enabled, stx>>
       \/ stx' = ~stx /\ UNCHANGED <<enabled, fwd>>
    /\ UNCHANGED <<frame, counts, rt_tlm_list, pages, made, began>>

Replay == \E m \in Memories : \E k \in DOMAIN pages[m] : DR_Replay(m, k)

Command ==
    /\ ops < MaxOps
    /\ ops' = ops + 1
    /\ Request \/ OBC_TlmSend \/ Switch \/ Replay \/ Restart

Next ==
    \/ OBC_tlm_generator \/ st_tlm_generator
    \/ \E id \in MissionIds : MSN_packet_handler(id)
    \/ PH_send_realtime_telemetry
    \/ Command

Spec == Init /\ [][Next]_vars

-------------------------------------------------------------------------------
Kept == {rt_tlm_list[k] : k \in DOMAIN rt_tlm_list}
            \cup UNION {{pages[m][k] : k \in DOMAIN pages[m]} : m \in Memories}

(* Every packet of the satellite's own, wherever it waits, is whole: all its bytes were     *)
(* written for it, none is left of the packet that was in TlmTransferFrame before, and      *)
(* every field of its frame has all its bytes, none overwritten by another field           *)
(* (tlm_frame.cpp: 65-94, 273-1905; the lengths returned and the positions written          *)
(* are kept in step by hand only).                                                    *)
PacketsWhole ==
    \A p \in Kept : p.id \in Ids =>
        /\ \A b \in DOMAIN p.bytes : MadeAs(p.bytes[b]) = p.made
        /\ \A f \in Fields[p.id] : \A b \in Bytes(f) : p.bytes[b] = Stamp(p.made, f.at)

(* No packet is recorded twice, whatever is recorded and read back meanwhile: a packet      *)
(* read back goes through add_rt_tlm again, which would record it as it did the first         *)
(* time (PacketHandler.cpp:326-372, DataRecorderManager.cpp:153-214).                  *)
RecordedOnce ==
    \A m1, m2 \in Memories : \A k1 \in DOMAIN pages[m1], k2 \in DOMAIN pages[m2] :
        pages[m1][k1].made = pages[m2][k2].made => m1 = m2 /\ k1 = k2

(* The periodic packets recorded since a restart are numbered from 1 on, however many        *)
(* packets of the same frame were transmitted in between: with one number missing a page      *)
(* is lost, and a number 1 out of turn is a restart (tlm_frame.cpp:54-64).                  *)
RecordNumbered ==
    LET hk  == pages["hk"]
        Run == {k \in DOMAIN hk : k > began /\ hk[k].id = CCP_OBC_TLM_ID}
    IN  /\ \A k \in Run : (\A j \in Run : j >= k) => hk[k].count = 1 % Wrap
        /\ \A k1, k2 \in Run :
              k1 < k2 /\ (\A k \in Run : k <= k1 \/ k >= k2)
                => hk[k2].count = (hk[k1].count + 1) % Wrap
===============================================================================
