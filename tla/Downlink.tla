-------------------------------- MODULE Downlink --------------------------------
(***************************************************************************)
(* The transmitter (STRX_update.cpp): the alternation of on and off, the bursts,  *)
(* the commands that configure the radio after it is switched on, the answers   *)
(* to a lock of the receiver, the protection against overheating, and the        *)
(* watch over it (TLMD_anomaly_detect, TlmDispatcher.cpp).                       *)
(*                                                                             *)
(* One round of the slots stands for the 5 cycles in which the block that holds    *)
(* RT_CMD is rotated once, 4 rounds being a second.  The block that holds          *)
(* STRX_UPDATE takes 7 cycles: it has its turn in some of the rounds.           *)
(***************************************************************************)
EXTENDS Naturals, Sequences, FiniteSets

CONSTANTS PerSec,       \* OBCT_CYCLES_PER_SEC, in rounds
          Durations,    \* the durations, in seconds, that a command may carry
          Limit,        \* the longest on time that is accepted, 30 min
          OnDur, OffDur, ReplyDur,  \* the defaults
          LockCount,    \* a lock counts when it was seen more often than this: 5
          OtcCount,     \* STRX_OTC_THR_COUNT
          Watch,        \* TLMD: 10 s, in cycles
          ListMax,      \* RT_CMD_LIST_MAX: the list of STX_sequence_ON alone
          MaxOps        \* bound on commands, restarts and changes outside

Locks    == {"carrier", "sub"}
Settings == {"SET_TX_PWR", "SET_OUTPORT", "SET_BR"}
Zero     == [l \in Locks |-> 0]
No       == [l \in Locks |-> FALSE]

ASSUME DownlinkAssumption ==
    /\ {PerSec, Limit, OnDur, OffDur, Watch, ListMax, LockCount, OtcCount} \subseteq Nat \ {0}
    /\ Durations \subseteq Nat /\ ReplyDur \in [Locks -> Nat] /\ MaxOps \in Nat

(* The list has room for the settings, and a second of rounds empties it.           *)
ASSUME ListAssumption == 4 <= ListMax /\ ListMax <= PerSec

VARIABLES slot,         \* the application whose turn it is
          tx,           \* stx_transmit_on, _count, stx_burst_duration, stx_on_remaining;
                        \* rt, the commands of rt_cmd_list; and of the radio: what it was
                        \* told since it has power; cut, bare: see RadioConfigured
          dur,          \* stx_transmit_on_duration, stx_transmit_off_duration
          reply,        \* strx_carrierlock_reply_time, strx_subcarrierlock_reply_time
          raise, lock, unlock,      \* the statics of the two handlers of a lock
          otc, otc_count, watch,    \* strx_otc_enable, tlmd_anomaly_detect_enable
          age,          \* TLMD: the master cycle minus start_cycle
          fram,         \* the saved settings
          locked, hot   \* what the receiver and the sensor see

(* For the properties only. *)
VARIABLE ops

handlers == <<raise, lock, unlock>>
config   == <<dur, reply, otc, watch, fram>>
world    == <<locked, hot>>
vars == <<slot, tx, handlers, config, otc_count, age, world, ops>>

Blank == [dur |-> <<0, 0>>, reply |-> Zero, otc |-> TRUE, watch |-> TRUE]

-------------------------------------------------------------------------------
(* Operations on the transmitter.                                              *)
PowerUp(t, bare) == [t EXCEPT !.on = TRUE, !.count = 0, !.cut = FALSE,
                              !.told = IF t.on THEN @ ELSE {},
                              !.bare = IF t.on THEN @ ELSE bare]

set_ON(t) == PowerUp(t, TRUE)

PowerDown(t, cut) == [t EXCEPT !.on = FALSE, !.count = 0, !.burst = 0, !.left = 0, !.cut = cut]

set_OFF(t) == PowerDown(t, TRUE)

add_rt_cmd(rt, cmd) == IF Len(rt) < ListMax THEN Append(rt, cmd) ELSE rt

ConfigureRadio(rt) == add_rt_cmd(add_rt_cmd(add_rt_cmd(rt, "SET_TX_PWR"), "SET_OUTPORT"), "SET_BR")

sequence_ON(t) == [PowerUp(t, t.cut) EXCEPT !.rt = ConfigureRadio(t.rt)]

(* After an off time that was not 0; one of 0 leaves no time to empty the list,     *)
(* neither before the time on nor in it.                                        *)
sequence_AfterOff(t) ==
    IF dur[2] = 0 THEN [sequence_ON([t EXCEPT !.cut = TRUE]) EXCEPT !.cut = TRUE] ELSE sequence_ON(t)

Remaining(d, count) == d - count \div PerSec

(* Mutant: a burst does not end. *)
TransmitEndless(t) ==
    IF t.burst > 0 THEN [t EXCEPT !.left = t.burst, !.count = 1]
    ELSE IF ~t.on THEN IF t.count >= dur[2] * PerSec THEN sequence_AfterOff(t) ELSE t
    ELSE IF t.count >= dur[1] * PerSec THEN PowerDown(t, t.cut)
    ELSE [t EXCEPT !.left = Remaining(dur[1], t.count)]

(* Mutant: the time on in cycles, not in seconds. *)
AlternateFast(t) ==
    LET on == IF t.burst > 0 THEN t.burst ELSE dur[1]
    IN  IF t.burst = 0 /\ ~t.on
        THEN IF t.count >= dur[2] * PerSec THEN sequence_AfterOff(t) ELSE t
        ELSE IF t.count >= on THEN PowerDown(t, on = 0 \/ t.cut)
        ELSE [t EXCEPT !.left = Remaining(on, t.count)]

(* STX_transmit_, but for the count that ends it. *)
Alternate(t) ==
    LET on == IF t.burst > 0 THEN t.burst ELSE dur[1]
    IN  IF t.burst = 0 /\ ~t.on
        THEN IF t.count >= dur[2] * PerSec THEN sequence_AfterOff(t) ELSE t
        ELSE IF t.count >= on * PerSec THEN PowerDown(t, on = 0 \/ t.cut)
        ELSE [t EXCEPT !.left = Remaining(on, t.count)]

(* TLMD_execute follows every task: TLMD_anomaly_detect with the time a.          *)
TLMD(t, a, enabled) ==
    LET stuck == enabled /\ t.count <= 1 /\ a > Watch
    IN  /\ tx' = IF stuck THEN set_OFF(t) ELSE t
        /\ age' = IF enabled /\ (stuck \/ t.count > 1) THEN 0
                  ELSE IF a > Watch THEN Watch + 1 ELSE a

-------------------------------------------------------------------------------
(* STRX_init_ and STX_tx_init_, as the processor starts; the time since          *)
(* start_cycle is far when TMGR_init takes up the cycle that was saved.          *)
BootDur == IF fram.dur[1] # 0 /\ fram.dur[2] # 0 THEN fram.dur ELSE <<OnDur, OffDur>>

BootTx == [on |-> TRUE, count |-> 0, burst |-> 0, left |-> 0,
           rt |-> ConfigureRadio(<<>>), told |-> {}, cut |-> FALSE, bare |-> FALSE]

Boot ==
    /\ dur' = BootDur
    /\ reply' = IF fram.reply = Zero THEN ReplyDur ELSE fram.reply
    /\ raise' = No /\ lock' = Zero /\ unlock' = Zero
    /\ otc' = fram.otc /\ otc_count' = 0 /\ watch' = fram.watch
    /\ \E a \in {0, Watch + 1} : TLMD(BootTx, a, fram.watch)
    /\ slot' = "RT_CMD"
    /\ UNCHANGED fram

Init ==
    /\ fram = Blank
    /\ dur = <<OnDur, OffDur>> /\ reply = ReplyDur
    /\ raise = No /\ lock = Zero /\ unlock = Zero
    /\ otc = TRUE /\ otc_count = 0 /\ watch = TRUE
    /\ tx = BootTx /\ age = 0 /\ slot = "RT_CMD"
    /\ locked = {} /\ hot = FALSE
    /\ ops = 0

-------------------------------------------------------------------------------
Turn(from, to) == slot = from /\ slot' = to

(* rt_cmd_dispatcher_: the head of the list.  The radio keeps what it is told as  *)
(* long as it has power.                                                      *)
Dispatch(t) ==
    [t EXCEPT !.rt = Tail(@), !.told = IF t.on THEN @ \cup {Head(t.rt)} ELSE @]

rt_cmd_dispatcher ==
    /\ Turn("RT_CMD", "STX_TRANSMIT")
    /\ TLMD(IF tx.rt = <<>> THEN tx ELSE Dispatch(tx), age, watch)
    /\ UNCHANGED <<handlers, config, otc_count, world, ops>>

(* The cycle ends here. *)
STX_transmit ==
    /\ Turn("STX_TRANSMIT", "STRX_UPDATE")
    /\ LET t == Alternate(tx) IN TLMD([t EXCEPT !.count = @ + 1], age + 1, watch)
    /\ UNCHANGED <<handlers, config, otc_count, world, ops>>

Skip ==
    /\ Turn("STRX_UPDATE", "COMMAND")
    /\ UNCHANGED <<tx, handlers, config, otc_count, age, world, ops>>

(* STRX_OTC_Detect: RT_Cmd_Register hands Cmd_STRX_TX_ON(PWR_OFF) to              *)
(* PH_analyze_packet, which executes it before it returns.                       *)
OtcFires == otc /\ hot /\ otc_count + 1 > OtcCount

OTC_Detect(t) == IF OtcFires THEN set_OFF(t) ELSE t

(* STRX_carrierlock_handler and STRX_subcarrierlock_handler: both are governed by *)
(* the reply time of the carrier.                                            *)
Handled     == reply["carrier"] # 0
Visible(l)  == "carrier" \in locked /\ l \in locked
Sees(l)     == ~raise[l] /\ Visible(l)
Misses(l)   == l \notin locked
Raises(l)   == Handled /\ Sees(l) /\ lock[l] + 1 > LockCount
Releases(l) == Misses(l) /\ unlock[l] + 1 > LockCount

(* Mutant: answers without asking how long the transmission lasts anyway. *)
AnswerAlways(t, l) ==
    IF Raises(l) THEN sequence_ON([t EXCEPT !.burst = reply[l]]) ELSE t

Answer(t, l) ==
    IF Raises(l) /\ t.left < reply[l] THEN sequence_ON([t EXCEPT !.burst = reply[l]]) ELSE t

Handle ==
    IF ~Handled THEN UNCHANGED handlers
    ELSE /\ raise' = [l \in Locks |-> Raises(l) \/ (raise[l] /\ ~Releases(l))]
         /\ lock' = [l \in Locks |-> IF Sees(l) /\ ~Raises(l) THEN lock[l] + 1 ELSE 0]
         /\ unlock' = [l \in Locks |-> IF Misses(l) /\ ~Releases(l) THEN unlock[l] + 1 ELSE 0]

STRX_update ==
    /\ Turn("STRX_UPDATE", "COMMAND")
    /\ TLMD(Answer(Answer(OTC_Detect(tx), "carrier"), "sub"), age, watch)
    /\ Handle
    /\ otc_count' = IF otc /\ hot /\ ~OtcFires THEN otc_count + 1 ELSE 0
    /\ UNCHANGED <<config, world, ops>>

-------------------------------------------------------------------------------
(* Commands, from the ground or a stored block.                                 *)
Counted == ops < MaxOps /\ ops' = ops + 1

(* FRAM_Write_stx_on_off_duration, _strx_otc_ena, _strx_lock_reply_time and          *)
(* _tlmd_anomaly_ena.                                                          *)
Save(setting, value) == fram' = [fram EXCEPT ![setting] = value]

Changed(t) == TLMD(t, age, watch)

(* STX_set_transmit_duration: refused or not, the durations are those in use. *)
SET_STX_ONOFF_DURATION ==
    \E on, off \in Durations :
        /\ dur' = <<on, off>>
        /\ IF on > Limit \/ off = 0 THEN Changed(tx) /\ UNCHANGED fram
           ELSE Changed(sequence_ON(tx)) /\ Save("dur", <<on, off>>)
        /\ UNCHANGED <<reply, otc, watch>>

SET_STX_BURST_DURATION ==
    /\ \E d \in Durations : d <= Limit /\ Changed(sequence_ON([tx EXCEPT !.burst = d]))
    /\ UNCHANGED config

STRX_TX_ON ==
    /\ Changed(set_ON(tx)) \/ Changed(set_OFF(tx))
    /\ UNCHANGED config

SET_STRX_LOCK_REPLY_TIME ==
    /\ reply' \in [Locks -> Durations]
    /\ Save("reply", reply')
    /\ Changed(tx)
    /\ UNCHANGED <<dur, otc, watch>>

STRX_OTC_ENABLE ==
    /\ otc' = ~otc /\ Save("otc", otc')
    /\ Changed(tx)
    /\ UNCHANGED <<dur, reply, watch>>

SET_TLMD_ANOMALY_ENABLE ==
    /\ watch' = ~watch /\ Save("watch", watch')
    /\ TLMD(tx, age, watch')
    /\ UNCHANGED <<dur, reply, otc>>

(* Cmd_SET_MASTER_CYCLE: the difference of the cycles, unsigned, becomes large. *)
SetMasterCycle ==
    /\ TLMD(tx, Watch + 1, watch)
    /\ UNCHANGED config

Command ==
    /\ Turn("COMMAND", "RT_CMD") /\ Counted
    /\ \/ SET_STX_ONOFF_DURATION \/ SET_STX_BURST_DURATION \/ STRX_TX_ON
       \/ SET_STRX_LOCK_REPLY_TIME \/ STRX_OTC_ENABLE \/ SET_TLMD_ANOMALY_ENABLE
       \/ SetMasterCycle
    /\ UNCHANGED <<handlers, otc_count, world>>

NoCommand ==
    /\ Turn("COMMAND", "RT_CMD")
    /\ UNCHANGED <<tx, handlers, config, otc_count, age, world, ops>>

Restart == Counted /\ Boot /\ UNCHANGED world

(* The pass of a station, and the temperature. *)
Outside ==
    /\ Counted /\ slot = "COMMAND"
    /\ \/ locked' \in SUBSET Locks /\ UNCHANGED hot
       \/ hot' = ~hot /\ UNCHANGED locked
    /\ UNCHANGED <<slot, tx, handlers, config, otc_count, age>>

Cycle == rt_cmd_dispatcher \/ STX_transmit \/ STRX_update \/ Skip \/ NoCommand

Next == Cycle \/ Command \/ Restart \/ Outside

(* The loop goes on, and a rotated block comes round. *)
Fairness == WF_vars(Cycle) /\ SF_vars(STRX_update)

Spec == Init /\ [][Next]_vars /\ Fairness

-------------------------------------------------------------------------------
(* STX_sequence_ON ignores the refusals of a list that may be full.  Nevertheless *)
(* the radio has been told, or will still be, all of its settings: what is refused *)
(* is on its way already, or a second of on or off has emptied the list.  Except   *)
(* (bare) when it is powered by TX_ON, which configures nothing; after a time on   *)
(* that was cut by a command, the heat or the watch; and after an off time of 0,   *)
(* which is refused and yet used: neither the time on that follows it nor the one   *)
(* after that has had a second in which the list was emptied.                    *)
RadioConfigured ==
    tx.on /\ ~tx.bare => Settings \subseteq tx.told \cup {tx.rt[i] : i \in DOMAIN tx.rt}

(* A lock of the receiver never shortens a transmission in progress: stx_on_       *)
(* remaining, by which the handlers judge, is no less than what is left.  Except   *)
(* in the cycle that has just switched it on: it is still 0 then, and the answer  *)
(* takes the place of the whole on time.  And except when the heat has switched it  *)
(* off earlier in the same call: stx_on_remaining is 0, so that the handlers switch  *)
(* it on again, hot as it is, for the reply time.                                *)
Rest(t, d) == (IF t.burst > 0 THEN t.burst ELSE d[1]) * PerSec - t.count

LockNeverShortens ==
    [][STRX_update /\ tx.on /\ tx.count > 1 /\ ~OtcFires => Rest(tx', dur') >= Rest(tx, dur)]_vars

(* Whatever the commands, the locks and the restarts were, the transmitter comes    *)
(* to rest again and again; and it comes on again and again unless it is hot.    *)
Alternates ==
    /\ []<>(~tx.on)
    /\ <>[](~hot) => []<>(tx.on)
===============================================================================
