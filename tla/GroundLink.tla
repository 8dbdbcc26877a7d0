------------------------------- MODULE GroundLink -------------------------------
(***************************************************************************)
(* The ground and the satellite: the packets of the ground come through a radio     *)
(* that may spoil them (module Uplink); GS_DataHandler acknowledges what it receives *)
(* with a packet of telemetry; OBC_TlmGenerator makes one of its own at an interval; *)
(* both go to the list rt_tlm_list, which TlmDispatcher.cpp sends from.           *)
(*                                                                             *)
(* A cycle of the task list runs the generator, then the commands, then the       *)
(* reception from the ground.  Of the list only the number of its packets matters.  *)
(***************************************************************************)
EXTENDS Uplink, FiniteSets, FiniteSetsExt

CONSTANTS Data,         \* the data of the packets of the ground, in the order sent
          Noise,        \* bytes that may come in the place of another
          Waiting,      \* the bytes that the buffer of the port holds
          TlmListMax,   \* RT_TLM_LIST_MAX
          OBCT_MAX_CYCLE,       \* the master cycle returns to 0 here: 0xfffffff0
          Wrap,         \* products are modulo Wrap, 2^32
          CyclesPerSec, \* OBCT_CYCLES_PER_SEC
          FirstInterval, Intervals,     \* TLM_INITAL_SEND_INTERVAL, those of commands
          Clocks,       \* master cycles set by a command
          Restored,     \* master cycles a start may begin with
          MaxDamages, MaxEvents         \* bounds on damages, and on these and the rest

ASSUME GroundLinkAssumption ==
    /\ Data \in Seq(Seq(Nat)) /\ Noise \subseteq Nat
    /\ {Waiting, TlmListMax, CyclesPerSec, Wrap} \subseteq Nat \ {0}
    /\ OBCT_MAX_CYCLE \in 1..Wrap
    /\ FirstInterval \in Nat /\ Intervals \subseteq Nat
    /\ Clocks \cup Restored \subseteq 0..(OBCT_MAX_CYCLE - 1)
    /\ {MaxDamages, MaxEvents} \subseteq Nat

(* Two packets fit into the longest: of longer ones a whole one behind the end of one *)
(* that was cut is cut as well, and so on as long as the port is full.              *)
ASSUME PacketAssumption ==
    \A m, n \in DOMAIN Data : Len(Packet(Data[m])) + Len(Packet(Data[n])) - 1 <= MaxLength

VARIABLES uart,         \* the bytes that wait in the port
          cmd_pei,      \* the static of gs_data_handler_
          rt_tlm_list,  \* number of packets
          stx,          \* the transmitter is on
          master,       \* master cycle
          slot,         \* the next of the two handlers: "tlm", "gs"; "none" where the
                        \* list of tasks waits for a cycle that does not come
          tlm_send_interval,
          interval, cycle       \* the statics of OBC_tlm_generator_

(* For the properties only. *)
VARIABLES sent,         \* packets of the ground so far
          whole, got,   \* those sent whole; those of them that came out
          damages, ops, \* spoilt ones, and other events
          quiet,        \* calls of the generator in a row, with the transmitter on, that
                        \* left the list empty; begun anew when the clock is set
          lengthened    \* the count of intervals is of a shorter interval than this one

port  == <<uart, cmd_pei, got>>
ground == <<sent, whole, damages>>
pace  == <<tlm_send_interval, interval, cycle>>
heard == <<quiet, lengthened>>
vars  == <<port, ground, rt_tlm_list, stx, master, slot, pace, ops, heard>>

Init ==
    /\ uart = <<>> /\ cmd_pei = NoPacket
    /\ rt_tlm_list = 0 /\ stx = FALSE
    /\ master \in Restored /\ slot = "tlm"
    /\ tlm_send_interval = FirstInterval /\ interval = 0 /\ cycle = 0
    /\ sent = 0 /\ whole = {} /\ got = {} /\ damages = 0 /\ ops = 0
    /\ quiet = 0 /\ lengthened = FALSE

-------------------------------------------------------------------------------
(* The ground sends its next packet.                                            *)
Arrive(bytes) ==
    /\ Len(uart) + Len(bytes) <= Waiting
    /\ uart' = uart \o bytes
    /\ sent' = sent + 1
    /\ UNCHANGED <<cmd_pei, got, rt_tlm_list, stx, master, slot, pace, ops, heard>>

Uplinked ==
    /\ sent < Len(Data)
    /\ Arrive(Packet(Data[sent + 1]))
    /\ whole' = whole \cup {sent + 1} /\ UNCHANGED damages

(* A byte that is lost, a byte that is another, an end that is missing.             *)
Spoilt(p) ==
    {RemoveAt(p, i) : i \in DOMAIN p} \cup {SubSeq(p, 1, i) : i \in 1..(Len(p) - 1)}
        \cup {[p EXCEPT ![i] = b] : i \in DOMAIN p, b \in Noise}

UplinkedBadly ==
    /\ sent < Len(Data) /\ damages < MaxDamages /\ damages + ops < MaxEvents
    /\ \E bytes \in Spoilt(Packet(Data[sent + 1])) : Arrive(bytes)
    /\ damages' = damages + 1 /\ UNCHANGED whole

-------------------------------------------------------------------------------
(* add_rt_tlm: when the list is full it is initialised, and the packet lost too.     *)
AddTo(list) == IF list < TlmListMax THEN list + 1 ELSE 0

(* Mutant: the intervals are not counted anew when the clock is behind.             *)
SinceKept == interval

(* OBC_tlm_generator_, with the arithmetic of unsigned integers.                    *)
Since == IF master < cycle THEN 0 ELSE interval

Due == master > (tlm_send_interval * CyclesPerSec * Since) % Wrap

Generate ==
    /\ slot = "tlm" /\ slot' = "gs"
    /\ cycle' = master
    /\ interval' = IF Due THEN (Since + 1) % Wrap ELSE Since
    /\ rt_tlm_list' = IF Due /\ rt_tlm_list = 0 /\ stx THEN 1 ELSE rt_tlm_list
    /\ quiet' = IF rt_tlm_list' = 0 /\ stx THEN quiet + 1 ELSE 0
    /\ lengthened' = (lengthened /\ ~Due /\ Since = interval)
    /\ UNCHANGED <<port, ground, stx, master, tlm_send_interval, ops>>

(* The end of the cycle, of two when it took too long (then the list is deployed in    *)
(* the second).  The list that is deployed in the last cycle is for OBCT_MAX_CYCLE,  *)
(* which the counter never reaches: no task starts any more.                       *)
Later(n) ==
    /\ master' = (master + n) % OBCT_MAX_CYCLE
    /\ slot' = IF master + n < OBCT_MAX_CYCLE THEN "tlm" ELSE "none"

(* gs_data_handler_: whatever was received is acknowledged, also what was no command. *)
GS_DataHandler ==
    /\ slot = "gs"
    /\ uart' = SubSeq(uart, Taken(uart) + 1, Len(uart))
    /\ IF Receives(uart)
       THEN LET x == PH_extract_packet(SubSeq(uart, 1, Taken(uart)), cmd_pei)
            IN  /\ cmd_pei' = x.pei
                /\ got' = got \cup {n \in whole : \E i \in DOMAIN x.out : x.out[i] = Packet(Data[n])}
                /\ rt_tlm_list' = AddTo(rt_tlm_list)
       ELSE UNCHANGED <<cmd_pei, got, rt_tlm_list>>
    /\ \/ Later(1)
       \/ Waits(uart) /\ Later(2)
    /\ UNCHANGED <<ground, stx, pace, ops, heard>>

(* TLMD_execute, when the transmitter takes a packet.  With the transmitter off      *)
(* TlmSend sends nothing, says so to nobody, and the packet is dropped.           *)
TLMD_execute ==
    /\ rt_tlm_list > 0
    /\ rt_tlm_list' = rt_tlm_list - 1
    /\ UNCHANGED <<port, ground, stx, master, slot, pace, ops, heard>>

-------------------------------------------------------------------------------
(* Commands, which run between the two handlers, and what else happens.            *)
Op == damages + ops < MaxEvents /\ ops' = ops + 1 /\ UNCHANGED <<sent, damages>>

SET_TLM_INTERVAL ==
    /\ slot = "gs" /\ Op
    /\ tlm_send_interval' \in Intervals
    /\ lengthened' = (lengthened \/ tlm_send_interval' > tlm_send_interval)
    /\ UNCHANGED <<port, whole, rt_tlm_list, stx, master, slot, interval, cycle, quiet>>

SET_OBC_TIME ==
    /\ slot = "gs" /\ Op
    /\ master' \in Clocks
    /\ quiet' = 0
    /\ UNCHANGED <<port, whole, rt_tlm_list, stx, slot, pace, lengthened>>

(* A request for telemetry, a page that is replayed, a packet of a mission.          *)
Register ==
    /\ slot = "gs" /\ Op
    /\ rt_tlm_list' = AddTo(rt_tlm_list)
    /\ UNCHANGED <<port, whole, stx, master, slot, pace, heard>>

(* The transmitter is switched on, and off (module Downlink says when).            *)
Switch ==
    /\ slot = "gs"
    /\ stx' = ~stx
    /\ UNCHANGED <<port, ground, rt_tlm_list, master, slot, pace, ops, heard>>

(* A restart: nothing of all this is kept but the clock, as far as it is restored.    *)
Restart ==
    /\ Op
    /\ uart' = <<>> /\ cmd_pei' = NoPacket
    /\ rt_tlm_list' = 0 /\ stx' = FALSE
    /\ master' \in Restored /\ slot' = "tlm"
    /\ tlm_send_interval' = FirstInterval /\ interval' = 0 /\ cycle' = 0
    /\ quiet' = 0 /\ lengthened' = FALSE
    /\ whole' = got /\ UNCHANGED got

Next ==
    \/ Uplinked \/ UplinkedBadly
    \/ Generate \/ GS_DataHandler \/ TLMD_execute
    \/ SET_TLM_INTERVAL \/ SET_OBC_TIME \/ Register \/ Switch \/ Restart

Spec == Init /\ [][Next]_vars

-------------------------------------------------------------------------------
(* What a packet spoilt on its way costs is bounded: the packets sent whole (since   *)
(* the start) that never came out of the extraction are, for each spoilt one, no     *)
(* more than begin in as many bytes as the longest packet has, also where the        *)
(* reception cuts the stream in the middle of a packet and where the two searches     *)
(* have fallen out of step.                                                    *)
Cost == (MaxLength - 1) \div Min({Len(Packet(Data[n])) : n \in DOMAIN Data}) + 1

FewLost == uart = <<>> => Cardinality(whole \ got) <= Cost * damages

(* The satellite does not fall silent while its tasks run: with the transmitter on,   *)
(* no more calls of the generator than an interval has cycles leave the list empty    *)
(* in a row, wherever the clock was set to, the list initialised, the interval       *)
(* shortened or the transmitter switched meanwhile.  Only when an interval was        *)
(* lengthened may it be as many as there are cycles in all the intervals counted so  *)
(* far: then the next telemetry waits for their product.                          *)
SilenceBounded ==
    [][Generate => LET longest == tlm_send_interval * CyclesPerSec
                   IN  quiet' <= IF lengthened' THEN longest * interval' ELSE longest]_vars
===============================================================================
