-------------------------------- MODULE Storage ---------------------------------
(***************************************************************************)
(* What the satellite stores and finds again after a restart: the timeline in the    *)
(* FRAM, the stored blocks and the autonomous control, the switches of the loads,     *)
(* and the data recorders in their flash memories.  The four share no variable, and each  *)
(* takes its steps between those of the others; a run looks at some of them, and the   *)
(* others stand still.                                                            *)
(***************************************************************************)
EXTENDS FramTlc

(* Of StoredBlocks, Recorder and Power; FramTlc declares its own.                    *)
CONSTANTS MaxBlocks, BlockLength, Numbers, Actions, Chosen, Wrap, MaxPackets, SbcMaxOps, CutOps,
          Recorders, Sectors, Pages, Thr, Counts, ReplayFrom, Filled, RecMaxOps, MaxRecords,
          Loads, Channels, Home, PwrMaxOps, MaxMishaps,
          Parts             \* those that take steps

-------------------------------------------------------------------------------
VARIABLES number, position, prev_cmd_count, stored, is_active, timeline, counter, actions,
          disactivate, heard, rt, up, made, meant, spoiled, fired, sbc_ops
SBC == INSTANCE StoredBlocks WITH
           Length <- BlockLength, Counts <- Numbers, MaxOps <- SbcMaxOps,
           r <- heard, ops <- sbc_ops

sbcVars == <<number, position, prev_cmd_count, stored, is_active, timeline, counter, actions,
             disactivate, heard, rt, up, made, meant, spoiled, fired, sbc_ops>>

VARIABLES flash, begun, wp, enabled, rp, num, replay, num_read, erasing, tar, start,
          misled, scanned, sent, cut, mixed, rec_ops, records
REC == INSTANCE Recorder WITH MaxOps <- RecMaxOps, ops <- rec_ops

recVars == <<flash, begun, wp, enabled, rp, num, replay, num_read, erasing, tar, start,
             misled, scanned, sent, cut, mixed, rec_ops, records>>

VARIABLES select, access, broken, wired, cycle, mux, on, pwr_sts, pwr_fram, pwr_agenda,
          odd, calm, dropped, mishaps, struck, order, pwr_ops
PWR == INSTANCE Power WITH
           MaxOps <- PwrMaxOps, fram <- pwr_fram, agenda <- pwr_agenda, ops <- pwr_ops

pwrVars == <<select, access, broken, wired, cycle, mux, on, pwr_sts, pwr_fram, pwr_agenda,
             odd, calm, dropped, mishaps, struck, order, pwr_ops>>

ASSUME StorageAssumption ==
    /\ SBC!StoredBlocksConstants /\ REC!RecorderConstants /\ PWR!PowerConstants
    /\ Parts \subseteq {"timeline", "blocks", "recorders", "power"}

-------------------------------------------------------------------------------
StorageInit == Init /\ SBC!Init /\ REC!Init /\ PWR!Init

FTLStep == "timeline" \in Parts /\ Next /\ UNCHANGED <<sbcVars, recVars, pwrVars>>

SBCStep == "blocks" \in Parts /\ SBC!Next /\ UNCHANGED <<vars, recVars, pwrVars>>

RECStep == "recorders" \in Parts /\ REC!Next /\ UNCHANGED <<vars, sbcVars, pwrVars>>

PWRStep == "power" \in Parts /\ PWR!Next /\ UNCHANGED <<vars, sbcVars, recVars>>

StorageNext == FTLStep \/ SBCStep \/ RECStep \/ PWRStep

storageVars == <<vars, sbcVars, recVars, pwrVars>>

(* The dispatcher is on the timeline of every mode, and the timer always runs.       *)
Loop  == "timeline" \in Parts /\ MainLoop /\ UNCHANGED <<sbcVars, recVars, pwrVars>>
Timer == "timeline" \in Parts /\ Tick /\ UNCHANGED <<sbcVars, recVars, pwrVars>>

StorageSpec ==
    StorageInit /\ [][StorageNext]_storageVars /\ WF_storageVars(Loop) /\ WF_storageVars(Timer)

(* The properties of the other modules: what each says is there.                    *)
StoredAsMeant      == SBC!StoredAsMeant
EscalatesOnce      == [][SBC!EscalatesInOrder]_sbcVars
AppendOnly         == REC!AppendOnly
ReplayExact        == [][REC!EndsWhole]_recVars
SavedAsSwitched    == PWR!SavedAsSwitched
StraysHeal         == PWR!StraysHeal
CompositesComplete == PWR!CompositesComplete
===============================================================================
