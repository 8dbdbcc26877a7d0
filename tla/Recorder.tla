-------------------------------- MODULE Recorder --------------------------------
(***************************************************************************)
(* The two data recorders (DataRecorderManager.cpp) in their flash memories, with  *)
(* the applications that record, replay and erase (Stored_TlmGenerator.cpp,       *)
(* MSN_PacketHandler.cpp) and their commands (cmd_action_cmdtlm.cpp).             *)
(*                                                                             *)
(* A page holds one packet.  Pages are numbered through the sectors; nothing on   *)
(* the flash says where its data end, which is found out by looking for blank     *)
(* pages.  A page is programmed once: programming it again spoils it (SerialFlash  *)
(* does not check, the memory clears bits and never sets them but by an erasure). *)
(***************************************************************************)
EXTENDS Integers

CONSTANTS Recorders,    \* "hk", "msn"
          Sectors,      \* the sectors of a memory, 256
          Pages,        \* the pages of a sector, 256
          Thr,          \* DR_EMPTY_SECTOR_THR
          Counts,       \* numbers of sectors or packets that a command may carry
          ReplayFrom,   \* pages that a command may name
          Filled,         \* the numbers of pages a memory may hold at first
          MaxOps, MaxRecords    \* bounds on commands and restarts, and on packets

RecorderConstants ==
    /\ {Sectors, Pages, Thr} \subseteq Nat \ {0} /\ Thr < Pages
    /\ Counts \subseteq Nat /\ ReplayFrom \subseteq Nat
    /\ MaxOps \in Nat /\ MaxRecords \in Nat

Size == Sectors * Pages
Page == 0..(Size - 1)
PagesOf(s) == {p \in Page : p \div Pages = s % Sectors}  \* the address has 3 bytes

VARIABLES flash,        \* what each page holds: "blank", "data", "spoilt"
          begun,        \* the static p of OBC_DR_Initialize, MSN_DR_Initialize
          wp,           \* write_pointer
          enabled,
          rp, num, replay,      \* replay_pointer, _num_packet, _enabled
          num_read,     \* the static of DR_Replay, for all recorders
          erasing, tar, start   \* dr_erase_enabled, _tar_sector, _start_sector

(* For the properties only. *)
VARIABLES misled,       \* the recorders whose end of data cannot be relied on
          scanned,      \* wp was looked for since the start
          sent,         \* packets of the replay in progress
          cut,          \* a replay was broken off since one came to its end
          mixed,        \* the recorders whose replay shares num_read
          ops, records

store  == <<flash, wp, enabled, misled, scanned>>
play   == <<rp, num, replay, num_read, sent, cut, mixed>>
eraser == <<erasing, tar, start>>
vars   == <<store, begun, play, eraser, ops, records>>

Set(f, r, v) == [f EXCEPT ![r] = v]
All(v) == [r \in Recorders |-> v]

Written(f) == {p \in Page : f[p] # "blank"}
Prefix(n)  == [p \in Page |-> IF p < n THEN "data" ELSE "blank"]

Init ==
    /\ flash \in {[r \in Recorders |-> Prefix(n[r])] :
                   n \in {m \in [Recorders -> 0..Size] : \A r \in Recorders : m[r] \in Filled[r]}}
    /\ begun = {} /\ wp = All(0) /\ enabled = {}
    /\ rp = All(0) /\ num = All(0) /\ replay = {} /\ num_read = 0
    /\ erasing = {} /\ tar = All(0) /\ start = All(0)
    /\ misled = {} /\ scanned = {} /\ sent = All(0) /\ cut = FALSE /\ mixed = {}
    /\ ops = 0 /\ records = 0

-------------------------------------------------------------------------------
(* DR_GenWrittenPointer: the first page of the first Thr + 1 blank ones in a row. *)
(* The last sector is not looked at; and where the run of blank pages crosses from *)
(* one sector to the next, the 16 bits of inner_address go below 0, and the page  *)
(* is that of the next sector.                                               *)
Looked == {p \in Page : p < Size - Pages}

BlankRun(f, p, n) == p >= n /\ \A q \in (p - n)..p : f[q] = "blank"

Found(f, n) == {p \in Looked : BlankRun(f, p, n)}

First(S) == CHOOSE p \in S : \A q \in S : p <= q
Last(S)  == CHOOSE p \in S : \A q \in S : q <= p

Back(p, n) == (p \div Pages) * Pages + (((p % Pages) - n) % Pages)

(* Mutant: one blank page less is taken back than was counted. *)
GenWrittenShort(f) ==
    IF Found(f, Thr) = {} THEN Size - Pages ELSE Back(First(Found(f, Thr)), Thr - 1)

GenWrittenPointer(f) ==
    IF Found(f, Thr) = {} THEN Size - Pages ELSE Back(First(Found(f, Thr)), Thr)

(* The ends of the data at which it goes wrong. *)
End(f)    == IF Written(f) = {} THEN 0 ELSE Last(Written(f)) + 1
Unsafe(n) == (n % Pages) + Thr >= Pages \/ n > Size - Pages

(* DR_UpdateRecordSector, with the memory f. *)
Update(r, f) ==
    /\ flash' = Set(flash, r, f)
    /\ wp' = Set(wp, r, GenWrittenPointer(f))
    /\ scanned' = scanned \cup {r}
    /\ misled' = IF Unsafe(End(f)) THEN misled \cup {r} ELSE misled
    /\ enabled' = enabled \ {r}
    /\ rp' = Set(rp, r, 0) /\ num' = Set(num, r, 0)
    /\ replay' = replay \ {r}
    /\ cut' = (cut \/ r \in replay)
    /\ UNCHANGED <<num_read, sent, mixed>>

-------------------------------------------------------------------------------
(* _DR_PacketWrite: st_tlm_generator_ and OBC_DR_PacketWrite for the recorder of   *)
(* the house-keeping, MSN_packet_handler_ for the one of the missions.          *)
Programmed(f, p) == [f EXCEPT ![p] = IF @ = "blank" THEN "data" ELSE "spoilt"]

DR_PacketWrite(r) ==
    /\ r \in enabled /\ records < MaxRecords /\ records' = records + 1
    /\ IF wp[r] >= Size THEN UNCHANGED store
       ELSE /\ flash' = Set(flash, r, Programmed(flash[r], wp[r]))
            /\ wp' = Set(wp, r, wp[r] + 1)
            /\ UNCHANGED <<enabled, misled, scanned>>
    /\ UNCHANGED <<begun, play, eraser, ops>>

(* The packet that is read goes to the list of telemetry; DR_PacketRead does not    *)
(* ask whether it was one.                                                     *)
(* Mutant: the count is left as it is at the end of a replay. *)
NextReadKept(r) == num_read + 1

NextRead(r) == IF num_read + 1 >= num[r] THEN 0 ELSE num_read + 1

DR_Replay(r) ==
    /\ r \in replay
    /\ rp' = Set(rp, r, (rp[r] + 1) % Size)
    /\ num_read' = NextRead(r)
    /\ replay' = IF num_read + 1 >= num[r] THEN replay \ {r} ELSE replay
    /\ sent' = Set(sent, r, sent[r] + 1)
    /\ mixed' = IF replay # {r} THEN Recorders ELSE mixed
    /\ cut' = (cut /\ r \in replay')
    /\ UNCHANGED <<store, begun, num, eraser, ops, records>>

(* ST_DR_erase_handler_, MSN_DR_erase_handler_: from the last sector down to the    *)
(* first, both included, the end of the data being looked for each time.         *)
Erased(f, s) == [p \in Page |-> IF p \in PagesOf(s) THEN "blank" ELSE f[p]]

LastErasure(r) == tar[r] = 0 \/ tar[r] = start[r]

DR_erase_handler(r) ==
    /\ r \in erasing
    /\ Update(r, Erased(flash[r], tar[r]))
    /\ erasing' = IF LastErasure(r) THEN erasing \ {r} ELSE erasing
    /\ tar' = IF LastErasure(r) THEN tar ELSE Set(tar, r, tar[r] - 1)
    /\ UNCHANGED <<begun, start, ops, records>>

-------------------------------------------------------------------------------
Counted == ops < MaxOps /\ ops' = ops + 1 /\ UNCHANGED records

(* Cmd_OBC_DR_RECORD, Cmd_MSN_DR_RECORD_ENABLE: whether the end is known or not.    *)
RECORD(r) ==
    /\ Counted
    /\ \/ /\ enabled' = enabled \cup {r}
          /\ misled' = IF r \in erasing \/ (r \notin scanned /\ Written(flash[r]) # {})
                       THEN misled \cup {r} ELSE misled
       \/ enabled' = enabled \ {r} /\ UNCHANGED misled
    /\ UNCHANGED <<flash, wp, scanned, begun, play, eraser>>

(* DR_initialize, once after a start; the memory may not answer, and is not asked  *)
(* again.                                                                    *)
DR_INITIALIZE(r) ==
    /\ Counted /\ r \notin begun /\ begun' = begun \cup {r}
    /\ Update(r, flash[r]) \/ UNCHANGED <<store, play>>
    /\ UNCHANGED eraser

REPLAY_PARAM_SET(r) ==
    /\ Counted /\ \E p \in ReplayFrom : rp' = Set(rp, r, p)
    /\ UNCHANGED <<store, begun, num, replay, num_read, sent, cut, mixed, eraser>>

(* A replay that begins while another is in progress, or after one was broken off, *)
(* is mixed: what num_read holds is not its own.                             *)
Begin(r) ==
    /\ num' \in {Set(num, r, n) : n \in Counts}
    /\ replay' = replay \cup {r} /\ sent' = Set(sent, r, 0)
    /\ cut' = (cut \/ r \in replay)
    /\ mixed' = IF cut' \/ replay # {} THEN Recorders ELSE mixed \ {r}
    /\ UNCHANGED num_read

Stop(r) ==
    /\ replay' = replay \ {r}
    /\ cut' = (cut \/ r \in replay)
    /\ UNCHANGED <<num, num_read, sent, mixed>>

(* Cmd_OBC_DR_REPLAY, Cmd_MSN_DR_REPLAY; the disabling one carries a number too. *)
REPLAY(r) ==
    /\ Counted /\ UNCHANGED rp
    /\ Begin(r) \/ Stop(r)
    /\ UNCHANGED <<store, begun, eraser>>

DIRECT_REPLAY(r) ==
    /\ Counted /\ \E p \in ReplayFrom : rp' = Set(rp, r, p)
    /\ Begin(r)
    /\ UNCHANGED <<store, begun, eraser>>

(* st_tlm_erase, MSN_DR_Set_EraseMode. *)
FirstTarget(s, n) == s + n

Covers(r, s, n) == s + n < Sectors /\ \A p \in Written(flash[r]) : p \div Pages <= s + n

ERASE(r) ==
    /\ Counted
    /\ \E s \in 0..(Sectors - 1), n \in Counts :
          /\ start' = Set(start, r, s) /\ tar' = Set(tar, r, FirstTarget(s, n))
          /\ erasing' = erasing \cup {r}
          /\ misled' = IF Covers(r, s, n) /\ r \notin enabled THEN misled ELSE misled \cup {r}
    /\ UNCHANGED <<flash, wp, enabled, scanned, begun, play>>

Restart ==
    /\ Counted
    /\ begun' = {} /\ wp' = All(0) /\ enabled' = {}
    /\ rp' = All(0) /\ num' = All(0) /\ replay' = {} /\ num_read' = 0
    /\ erasing' = {} /\ tar' = All(0) /\ start' = All(0)
    /\ scanned' = {} /\ sent' = All(0) /\ cut' = FALSE /\ mixed' = {}
    /\ UNCHANGED <<flash, misled>>

(* Three commands of each recorder move its replay, three its data.                 *)
ReplayCommand(r) == REPLAY_PARAM_SET(r) \/ REPLAY(r) \/ DIRECT_REPLAY(r)

DataCommand(r) == RECORD(r) \/ DR_INITIALIZE(r) \/ ERASE(r)

Command(r) == ReplayCommand(r) \/ DataCommand(r)

Next ==
    \/ \E r \in Recorders : DR_PacketWrite(r) \/ DR_Replay(r) \/ DR_erase_handler(r) \/ Command(r)
    \/ Restart

Spec == Init /\ [][Next]_vars

-------------------------------------------------------------------------------
(* A recorder appends to its data: between restarts, new searches for the end and  *)
(* erasures in whatever order, the pages before the pointer are written, once,     *)
(* and those after it are blank.  Except (misled) when the end was looked for      *)
(* within Thr pages of the end of a sector or in the last one, when recording was    *)
(* begun without looking for it or in the middle of an erasure, and when an        *)
(* erasure left data above the sectors it named or went past the last sector.      *)
AppendOnly ==
    \A r \in Recorders \ misled :
        LET n == End(flash[r])
        IN  /\ flash[r] = Prefix(n)
            /\ r \in scanned \/ r \in enabled => wp[r] = n

(* A replay that comes to its end has sent the packets it was asked for, one at     *)
(* least, unless it shared the counter: with the other recorder, or with a replay   *)
(* that was stopped before its end and left its count behind.                   *)
EndsWhole ==
    \A r \in Recorders \ mixed :
        DR_Replay(r) /\ r \notin replay' /\ r \notin mixed'
            => sent'[r] = num[r] \/ (num[r] = 0 /\ sent'[r] = 1)

ReplayExact == [][EndsWhole]_vars
===============================================================================
