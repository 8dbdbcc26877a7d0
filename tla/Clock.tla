---------------------------------- MODULE Clock ----------------------------------
(***************************************************************************)
(* The two times of the satellite: the master cycle, that the interrupt counts,      *)
(* and the seconds of Unix time computed from it (OBCTime.cpp, TimeManager.cpp), in    *)
(* words that overflow; how the ground, the RTC and restarts set them, and commands     *)
(* of the ground for a second, which wait for a cycle.                              *)
(*                                                                             *)
(* The unit of time is a cycle; the steps of a cycle are in TaskDispatcher.  The RTC   *)
(* is external: it tells the true second, or 0 once it has lost it; by how much its   *)
(* date may be wrong is in Calendar.                                             *)
(***************************************************************************)
EXTENDS Integers, FiniteSets

CONSTANTS Word,         \* unsigned int is modulo it, 2^32
          CycleMs,      \* OBCT_STEP_IN_MSEC * OBCT_STEPS_PER_CYCLE, 50
          SecondMs,     \* 1000
          MaxCycle,     \* OBCT_MAX_CYCLE
          Start,        \* the second in which the model begins
          Ahead,        \* commands are for at most so many seconds later
          MaxNow,       \* bound on time, in cycles
          MaxCommands,  \* bound on commands that wait
          MaxOps        \* bound on commands that set the time, losses and restarts

PerSecond == SecondMs \div CycleMs

ClockConstants ==
    /\ {Word, CycleMs, SecondMs, MaxCycle, Start, MaxNow} \subseteq Nat \ {0}
    /\ SecondMs % CycleMs = 0 /\ MaxCycle < Word
    /\ {Ahead, MaxCommands, MaxOps} \subseteq Nat

VARIABLES master, initial_utime, utime,
          rtc_sync_ena,     \* in the FRAM
          rtc,              \* "right", or "lost"
          timeline          \* [at, utime, sound]: the cycle it waits for, the second that the
                            \* ground named, and whether CommandsOnTime is about it

(* For the properties only.                                                      *)
VARIABLES now,      \* the true time, in cycles
          era,      \* -1 when the clock was last set wrongly or not at all, or else how often
                    \* the milliseconds of the master cycle had overflowed
          ops

clock == <<master, initial_utime, utime>>
vars  == <<clock, rtc_sync_ena, rtc, timeline, now, era, ops>>

NowSec   == now \div PerSecond
Turns(m) == (CycleMs * m) \div Word

-------------------------------------------------------------------------------
(* OBCT_cycle2sec, and the same expression in OBCT_count_up.                          *)
OBCT_cycle2sec(cycle) == ((CycleMs * cycle) % Word) \div SecondMs

(* Mutant: the seconds are taken for cycles.                                         *)
UtimeAsCycle(u, initial) == IF u < initial THEN 0 ELSE u - initial
OBCT_utime2cycle(u, initial) ==
    IF u < initial THEN 0 ELSE ((SecondMs * (u - initial)) % Word) \div CycleMs

(* Mutant: the seconds that have passed are not deducted.                             *)
SyncedWhole(u, m) == u
Synced(u, m) == u - OBCT_cycle2sec(m)

(* TMGR_sync_OBC_time: the second u, at the cycle m.  A second before the cycle's own is    *)
(* refused.                                                                     *)
TMGR_sync_OBC_time(u, m, true) ==
    IF u < OBCT_cycle2sec(m) THEN UNCHANGED <<initial_utime, utime, era>>
    ELSE /\ initial_utime' = Synced(u, m)
         /\ utime' = OBCT_cycle2sec(m) + Synced(u, m)
         /\ era' = IF true THEN Turns(m) ELSE -1

Unsound(cmds) == {[c EXCEPT !.sound = FALSE] : c \in cmds}

-------------------------------------------------------------------------------
(* The satellite has just started and has not been told the time.                      *)
Init ==
    /\ master = 0 /\ initial_utime = 0 /\ utime = 0
    /\ rtc_sync_ena \in BOOLEAN /\ rtc = "lost"
    /\ timeline = {}
    /\ now = PerSecond * Start /\ era = -1 /\ ops = 0

Due == {c \in timeline : c.at <= master}

(* TMGR_count_up at the end of a cycle, in which what was due has been executed.  The      *)
(* cycle turns over, and then the seconds start again.                              *)
TMGR_count_up ==
    /\ now < MaxNow /\ Due = {}
    /\ now' = now + 1
    /\ master' = (master + 1) % MaxCycle
    /\ utime' = OBCT_cycle2sec(master') + initial_utime
    /\ era' = IF master' = 0 THEN -1 ELSE era
    /\ timeline' = IF master' = 0 THEN Unsound(timeline) ELSE timeline
    /\ UNCHANGED <<initial_utime, rtc_sync_ena, rtc, ops>>

(* tl_cmd_dispatcher_: the first, on time or past it.                                 *)
Execute ==
    /\ \E c \in Due : /\ \A d \in Due : c.at <= d.at
                      /\ timeline' = timeline \ {c}
    /\ UNCHANGED <<clock, rtc_sync_ena, rtc, now, era, ops>>

(* analyze_single_cmd_ for a command from the ground with a second, CCP_set_utime2cycle.    *)
Register ==
    /\ Cardinality(timeline) < MaxCommands
    /\ \E u \in (NowSec - 1)..(NowSec + Ahead) :
        LET at == OBCT_utime2cycle(u, initial_utime)
        IN  /\ at >= master /\ \A c \in timeline : c.at # at
            /\ timeline' = timeline \cup
                  {[at |-> at, utime |-> u,
                    sound |-> /\ era = 0 /\ Turns(master) = 0 /\ u >= NowSec
                              /\ SecondMs * (u - initial_utime) < Word]}
    /\ UNCHANGED <<clock, rtc_sync_ena, rtc, now, era, ops>>

-------------------------------------------------------------------------------
(* Cmd_SYNC_OBC_TIME and Cmd_SYNC_TIME, which sets the RTC even when the time is refused   *)
(* for the clock; Cmd_SYNC_RTC_TIME.  The ground may be wrong about the second.         *)
SYNC_TIME ==
    \E u \in {NowSec, 0} :
        \/ /\ TMGR_sync_OBC_time(u, master, u = NowSec)
           /\ rtc' \in {rtc, IF u = NowSec THEN "right" ELSE "lost"}
           /\ UNCHANGED <<master, rtc_sync_ena, timeline>>
        \/ /\ rtc' = IF u = NowSec THEN "right" ELSE "lost"
           /\ UNCHANGED <<clock, rtc_sync_ena, timeline, era>>

FRAM_SYNC_RTC_ENABLE ==
    /\ rtc_sync_ena' \in BOOLEAN
    /\ UNCHANGED <<clock, rtc, timeline, era>>

(* Cmd_SET_OBC_TIME: utime stays until the cycle ends.                                *)
SET_OBC_TIME ==
    /\ master' \in {0, MaxCycle - 1} /\ initial_utime' = 0
    /\ era' = -1 /\ timeline' = Unsound(timeline)
    /\ UNCHANGED <<utime, rtc_sync_ena, rtc>>

(* The processor restarts and is back after a time, with the time of the RTC if that is       *)
(* enabled, TMGR_init.  The master cycle in the FRAM is never written, and its offset is 0.  *)
Restart ==
    /\ \E down \in 1..PerSecond :
          /\ now + down <= MaxNow
          /\ now' = now + down
    /\ master' = 0 /\ timeline' = {}
    /\ IF rtc_sync_ena
       THEN TMGR_sync_OBC_time(IF rtc = "right" THEN now' \div PerSecond ELSE 0, 0, rtc = "right")
       ELSE initial_utime' = 0 /\ utime' = 0 /\ era' = -1
    /\ UNCHANGED <<rtc_sync_ena, rtc>>

RTCLosesTime ==
    /\ rtc' = "lost"
    /\ UNCHANGED <<clock, rtc_sync_ena, timeline, era>>

Command ==
    /\ ops < MaxOps /\ ops' = ops + 1
    /\ \/ SYNC_TIME /\ now' = now
       \/ FRAM_SYNC_RTC_ENABLE /\ now' = now
       \/ SET_OBC_TIME /\ now' = now
       \/ RTCLosesTime /\ now' = now
       \/ Restart

Next == TMGR_count_up \/ Execute \/ Register \/ Command

Spec == Init /\ [][Next]_vars

-------------------------------------------------------------------------------
(* Once the clock was set to the right second, from the ground or from the RTC, it tells   *)
(* the right second or a neighbour of it, until the milliseconds of the master cycle,        *)
(* 50 * master, overflow the next time, after 49.7 days (OBCTime.cpp:44,               *)
(* TimeManager.cpp:93-103): whatever restarts, refused times and cycles came in between.   *)
ClockAccurate ==
    era = Turns(master) => utime - NowSec \in -1..1

(* A command for a second that has not passed is executed in that second or in the one       *)
(* before it, though it waits for a cycle and the clock is set again meanwhile: if the        *)
(* clock was right when it was registered, neither the master cycle nor the wait overflowed   *)
(* (OBCTime.cpp:137-148, CommonTlmCmdPacket.cpp:275-297), and the master cycle was not set    *)
(* or turned over.                                                              *)
CommandsOnTime ==
    \A c \in Due : c.sound => c.utime - NowSec \in 0..1
===============================================================================
