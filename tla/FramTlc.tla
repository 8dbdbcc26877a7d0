------------------------------- MODULE FramTlc -------------------------------
(***************************************************************************)
(* The timeline in the FRAM (FRAM_cmd_manager.cpp): slots of a time and a      *)
(* packet, which the power may leave half written, the application that takes *)
(* the commands that are due (FRAM_TL_CmdDispatcher.cpp), and the stored       *)
(* blocks, whose commands are put in the timeline when they are deployed.      *)
(*                                                                             *)
(* The copy of the times in RAM is read again at the end of each handler, so   *)
(* between two handlers it is the FRAM.  A handler makes its writes one by one:   *)
(* between two of them a second may pass, or the power fail.                 *)
(***************************************************************************)
EXTENDS Naturals, Sequences, FiniteSetsExt

CONSTANTS FRAM_TLC_MAX,     \* 62 slots
          Base,             \* a time has two halves in this model, in the FRAM four bytes
          Commands,         \* what a packet can ask for
          Length,           \* command -> the length of its packet
          Deploys,          \* the commands FRAM_DEPLOY_BLOCK -> the block
          Block,            \* stored block -> its commands [cmd, cycle] by position
          Times,            \* the times of the commands the ground registers
          Calls,            \* calls of the dispatcher in a second; 20 in the code
          MaxTime,          \* bound of this model on the clock
          MaxOps, MaxCuts   \* bounds on what the ground does, and on power losses

Slots == 0..(FRAM_TLC_MAX - 1)
Digit == 0..(Base - 1)
None  == 0                  \* a packet never written: the bytes are zero

ASSUME FramAssumption ==
    /\ FRAM_TLC_MAX \in Nat \ {0}
    /\ Base \in Nat \ {0, 1}
    /\ None \notin Commands
    /\ Length \in [Commands -> Nat \ {0}]
    /\ DOMAIN Deploys \subseteq Commands
    /\ \A c \in DOMAIN Deploys : Deploys[c] \in DOMAIN Block
    /\ \A b \in DOMAIN Block : Block[b] \in Seq([cmd : Commands, cycle : Nat])
    /\ {MaxTime, MaxOps, MaxCuts} \subseteq Nat /\ Calls \in Nat \ {0}
    /\ Times \subseteq 0..MaxTime
    /\ \A b \in DOMAIN Block : \A i \in DOMAIN Block[b] :
         MaxTime + Block[b][i].cycle < Base * Base

VARIABLES fram,     \* hi, lo: the time of each slot, head, tail: its packet
          active,   \* the stored blocks that may be deployed, also in the FRAM
          utime,
          rest,     \* the writes the running handler has still to make
          rec_data, \* the packet taken from its slot and not executed yet
          agenda,   \* the commands of the block that is being deployed
          wipe      \* how many slots the clearing of all has still to come to

(* For the properties only. *)
VARIABLES owed,     \* the packets registered, not executed and not cleared
          strange,  \* executions of what was not owed, or before its time
          cuts,     \* power losses in the middle of a handler
          looks,    \* calls of the dispatcher in this second, up to Calls
          steady,   \* the clock ran and the dispatcher was called so often in every second
          ops

loop == <<rest, rec_data, agenda, wipe>>
hist == <<owed, strange, cuts, looks, steady, ops>>
vars == <<fram, active, utime, loop, hist>>

Blank   == [cmd |-> None, time |-> 0]
Nothing == [packet |-> Blank, params |-> None]

Time(f, s)  == f.hi[s] * Base + f.lo[s]
Occupied(f) == {s \in Slots : Time(f, s) # 0}

(* The head of a packet holds its code and its time, the tail the parameters.  *)
Whole(f, s)  == f.head[s] # Blank /\ f.tail[s] = f.head[s].cmd
Held(f)      == {f.head[s] : s \in {t \in Occupied(f) : Whole(f, t)}}
Pending(f)   == {f.head[s] : s \in {t \in Occupied(f) : Whole(f, t) /\ f.head[t].time = Time(f, t)}}

(* No handler is running. *)
Idle == loop = <<<<>>, Nothing, <<>>, 0>>

Init ==
    /\ fram = [hi |-> [s \in Slots |-> 0], lo |-> [s \in Slots |-> 0],
               head |-> [s \in Slots |-> Blank], tail |-> [s \in Slots |-> None]]
    /\ active = DOMAIN Block
    /\ utime = 0
    /\ rest = <<>> /\ rec_data = Nothing /\ agenda = <<>> /\ wipe = 0
    /\ owed = {} /\ strange = 0 /\ cuts = 0 /\ looks = 0 /\ steady = TRUE /\ ops = 0

-------------------------------------------------------------------------------
(* The writes of the handlers, in their order.  The write of the queue length   *)
(* is left out: what it writes is never read.                                *)
Bytes(field, s, value) == [field |-> field, slot |-> s, value |-> value]

(* Mutant: only one half of the time is zeroed. *)
DropHalf(s) == IF Time(fram, s) = 0 THEN <<>> ELSE <<Bytes("hi", s, 0)>>

FRAM_TLC_drop_time(s) ==
    IF Time(fram, s) = 0 THEN <<>> ELSE <<Bytes("hi", s, 0), Bytes("lo", s, 0)>>

(* add_fram_tlc: refused when the time is past, taken or, with a free slot, 0.  *)
Refused(t) ==
    \/ t < utime
    \/ Occupied(fram) = Slots
    \/ \E s \in Slots : Time(fram, s) = t

FRAM_TLC_Write_packet(cmd, t) ==
    LET s == Min(Slots \ Occupied(fram))
    IN  <<Bytes("hi", s, t \div Base), Bytes("lo", s, t % Base),
          Bytes("head", s, [cmd |-> cmd, time |-> t]), Bytes("tail", s, cmd)>>

add_fram_tlc(cmd, t) == IF Refused(t) THEN <<>> ELSE FRAM_TLC_Write_packet(cmd, t)

ClearAtTime(t) ==
    LET at == {s \in Slots : Time(fram, s) = t}
    IN  IF at = {} THEN <<>> ELSE FRAM_TLC_drop_time(Min(at))

(* FRAM_SBC_Deploy_Block *)
Deployed(b) == IF b \in active THEN Block[b] ELSE <<>>

-------------------------------------------------------------------------------
(* The next write of the running handler.  What it clears is not owed any more. *)
Write ==
    /\ rest # <<>>
    /\ LET w == Head(rest)
       IN  fram' = [fram EXCEPT ![w.field][w.slot] = w.value]
    /\ rest' = Tail(rest)
    /\ owed' = (IF rec_data = Nothing THEN owed \ (Pending(fram) \ Pending(fram')) ELSE owed)
                 \cup (Pending(fram') \ Pending(fram))
    /\ UNCHANGED <<active, utime, rec_data, agenda, wipe, strange, cuts, looks, steady, ops>>

(* The next command of the block: a position whose cycle is 0 is skipped, and    *)
(* nobody hears of a command that is refused.                                *)
DeployNext ==
    /\ rest = <<>> /\ agenda # <<>>
    /\ LET entry == Head(agenda)
       IN  rest' = IF entry.cycle = 0 THEN <<>>
                   ELSE add_fram_tlc(entry.cmd, utime + entry.cycle)
    /\ agenda' = Tail(agenda)
    /\ UNCHANGED <<fram, active, utime, rec_data, wipe, hist>>

(* The next slot of a clearing of all. *)
ClearNext ==
    /\ rest = <<>> /\ wipe > 0
    /\ rest' = FRAM_TLC_drop_time(FRAM_TLC_MAX - wipe)
    /\ wipe' = wipe - 1
    /\ UNCHANGED <<fram, active, utime, rec_data, agenda, hist>>

(* The commands of the ground: the handler begins. *)
Handle(writes, entries, slots, calm) ==
    /\ Idle
    /\ ops < MaxOps /\ ops' = ops + 1
    /\ rest' = writes
    /\ agenda' = entries
    /\ wipe' = slots
    /\ steady' = (steady /\ calm)
    /\ UNCHANGED <<fram, active, utime, rec_data, owed, strange, cuts, looks>>

(* Cmd_FRAM_ACTIVATE_BLOCK *)
Activate(b, on) ==
    /\ Idle
    /\ ops < MaxOps /\ ops' = ops + 1
    /\ active' = IF on THEN active \cup {b} ELSE active \ {b}
    /\ UNCHANGED <<fram, utime, loop, owed, strange, cuts, looks, steady>>

(* Cmd_SET_OBC_TIME *)
SetTime(t) ==
    /\ Idle
    /\ ops < MaxOps /\ ops' = ops + 1
    /\ utime' = t
    /\ steady' = FALSE
    /\ UNCHANGED <<fram, active, loop, owed, strange, cuts, looks>>

Ground ==
    \/ \E cmd \in Commands, t \in Times : Handle(add_fram_tlc(cmd, t), <<>>, 0, t # utime)
    \/ \E b \in DOMAIN Block :
         Handle(<<>>, Deployed(b), 0, TRUE) \/ \E on \in BOOLEAN : Activate(b, on)
    \/ Handle(<<>>, <<>>, FRAM_TLC_MAX, TRUE)
    \/ \E t \in Times : Handle(ClearAtTime(t), <<>>, 0, TRUE) \/ SetTime(t)
    \/ \E s \in Slots : Handle(FRAM_TLC_drop_time(s), <<>>, 0, TRUE)

-------------------------------------------------------------------------------
(* fram_tl_cmd_dispatcher_: the packet is copied, its time is zeroed, and then   *)
(* the packet is executed.  The first slot is taken, not the earliest time.    *)

(* Mutants: a command is due in its second only, or only after it. *)
DueNow   == {s \in Occupied(fram) : Time(fram, s) = utime}
DueAfter == {s \in Occupied(fram) : Time(fram, s) < utime}

Due == {s \in Occupied(fram) : Time(fram, s) <= utime}

Looked == looks' = IF looks < Calls THEN looks + 1 ELSE looks

FRAM_TLC_search_tlc ==
    /\ Idle
    /\ IF Due = {}
       THEN /\ Looked
            /\ steady' = TRUE
            /\ UNCHANGED <<rest, rec_data>>
       ELSE /\ LET s == Min(Due)
               IN  /\ rec_data' = [packet |-> fram.head[s], params |-> fram.tail[s]]
                   /\ rest' = FRAM_TLC_drop_time(s)
            /\ UNCHANGED <<looks, steady>>
    /\ UNCHANGED <<fram, active, utime, agenda, wipe, owed, strange, cuts, ops>>

(* PH_extract_packet takes a packet that ends where its length says; the CRC is *)
(* not compared.                                                             *)
Parses ==
    /\ rec_data.packet # Blank /\ rec_data.params # None
    /\ Length[rec_data.packet.cmd] = Length[rec_data.params]

Intact == rec_data.packet # Blank /\ rec_data.params = rec_data.packet.cmd

AsOwed == Intact /\ rec_data.packet \in owed /\ rec_data.packet.time <= utime

Execute ==
    /\ rec_data # Nothing /\ rest = <<>>
    /\ agenda' = IF Parses /\ rec_data.packet.cmd \in DOMAIN Deploys
                 THEN Deployed(Deploys[rec_data.packet.cmd]) ELSE <<>>
    /\ rec_data' = Nothing
    /\ strange' = IF Parses /\ ~AsOwed THEN strange + 1 ELSE strange
    /\ owed' = IF AsOwed \/ (Intact /\ rec_data.packet \notin Held(fram))
               THEN owed \ {rec_data.packet} ELSE owed
    /\ Looked
    /\ UNCHANGED <<fram, active, utime, rest, wipe, cuts, steady, ops>>

Dispatch == FRAM_TLC_search_tlc \/ Execute

-------------------------------------------------------------------------------
(* A second passes.  The dispatcher is called in every cycle, twenty times in a *)
(* second, unless a task blocks the main loop for longer.                    *)
Clock(last) ==
    /\ utime < last
    /\ utime' = utime + 1
    /\ looks' = 0
    /\ steady' = (steady /\ looks = Calls)
    /\ UNCHANGED <<fram, active, loop, owed, strange, cuts, ops>>

Tick == Clock(MaxTime)

(* setup(): with the RTC the clock goes on, without it it begins at 0 again.    *)
Boot ==
    /\ utime' \in {0, utime}
    /\ rest' = <<>> /\ rec_data' = Nothing /\ agenda' = <<>> /\ wipe' = 0
    /\ looks' = 0 /\ steady' = FALSE
    /\ UNCHANGED <<fram, active, owed, strange>>

(* The power fails in the middle of a handler, or between two. *)
PowerLoss == ~Idle /\ cuts < MaxCuts /\ cuts' = cuts + 1 /\ Boot /\ UNCHANGED ops

Restart == Idle /\ ops < MaxOps /\ ops' = ops + 1 /\ Boot /\ UNCHANGED cuts

MainLoop == Write \/ DeployNext \/ ClearNext \/ Dispatch

Next == MainLoop \/ Ground \/ Tick \/ PowerLoss \/ Restart

Spec     == Init /\ [][Next]_vars
(* The dispatcher is on the timeline of every mode, and the timer always runs. *)
FairSpec == Spec /\ WF_vars(MainLoop) /\ WF_vars(Tick)

-------------------------------------------------------------------------------
(* The commands that were promised and are nowhere any more. *)
Lost == owed \ (Held(fram) \cup {rec_data.packet})

(* A power loss costs at most one command: either one that is never executed, or *)
(* one execution of what was not asked for (an old packet of the slot, a packet  *)
(* of two halves, a command before its time).  Whatever is registered, cleared,  *)
(* deployed and restarted, a command is executed once, whole, and in its time.   *)
DamageBounded == strange + Cardinality(Lost) <= cuts

(* As long as the clock runs, the dispatcher is called and the ground registers  *)
(* for the future, no command is left when its second is over: a power loss may  *)
(* give one slot more the time of another, for which there must be a call.      *)
OnTime ==
    steady /\ Idle /\ cuts < Calls => \A s \in Occupied(fram) : utime <= Time(fram, s)

(* A command does not stay in the FRAM once its time has come: it is executed,   *)
(* or dropped unread, whatever the other slots hold and wherever the clock jumps. *)
EverySlotEmpties ==
    \A s \in Slots : (Idle /\ Time(fram, s) \in 1..MaxTime) ~> (Time(fram, s) = 0)
===============================================================================
