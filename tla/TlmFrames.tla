------------------------------- MODULE TlmFrames -------------------------------
(***************************************************************************)
(* The frames of tlm_frame.cpp.  Every packet of telemetry is put together in    *)
(* one static buffer, TlmTransferFrame, that is never cleared: a byte that the      *)
(* function of a frame does not write keeps what the packet before left there.     *)
(*                                                                             *)
(* A frame is the set of its fields, [at, width]; what a field holds is left out.   *)
(* The positions of a frame's own fields count from TLM_POSITION_MAIN.             *)
(***************************************************************************)
EXTENDS Integers, Sequences, SequencesExt, FiniteSetsExt

Field(at, width) == [at |-> at, width |-> width]
Bytes(f)         == f.at..(f.at + f.width - 1)
Moved(fields, n) == {[f EXCEPT !.at = @ + n] : f \in fields}

(* n times the fields of the given widths, one after the other from position at.    *)
Repeat(at, n, widths) ==
    LET Before(k) == FoldSeq(+, 0, SubSeq(widths, 1, k))
    IN  {Field(at + i * Before(Len(widths)) + Before(k - 1), widths[k]) :
            i \in 0..(n - 1), k \in DOMAIN widths}

Bytewise(from, to) == Repeat(from, to - from + 1, <<1>>)

-------------------------------------------------------------------------------
(* The frames.  01: the state of the satellite, modes and power, then the analog     *)
(* values, the recorders and the link.                                           *)
TLM_OBC_01_state ==
    Bytewise(0, 1) \cup Repeat(2, 2, <<4>>) \cup Bytewise(10, 30) \cup Repeat(31, 1, <<4>>)
    \cup Bytewise(35, 57) \cup Repeat(58, 2, <<4>>) \cup Bytewise(66, 85)
    \cup Repeat(86, 2, <<2>>) \cup Bytewise(90, 90) \cup Repeat(91, 5, <<2>>)
    \cup Bytewise(101, 101) \cup Repeat(102, 2, <<2>>)
    \cup Bytewise(106, 106) \cup Repeat(107, 3, <<2>>)
TLM_OBC_01_link ==
    Bytewise(113, 120) \cup Repeat(121, 4, <<4>>) \cup Bytewise(137, 138)
    \cup Repeat(139, 4, <<2>>) \cup Bytewise(147, 148) \cup Repeat(149, 3, <<4>>)
    \cup Repeat(161, 1, <<2>>) \cup Repeat(163, 1, <<4>>) \cup Bytewise(167, 172)

(* 02, 03: the occupied times of the FRAM timeline. 04, 05: a stored block.          *)
TLM_OBC_02_first  == Repeat(0, 29, <<4>>)
TLM_OBC_02_second == Repeat(116, 19, <<4>>)
TLM_OBC_03 == Repeat(0, 16, <<4>>)
TLM_OBC_05 == Bytewise(0, 129)
TLM_OBC_04 == Repeat(0, 1, <<1, 1>>) \cup Repeat(2, 14, <<1, 1, 4>>)

(* 07: the autonomous control and 64 its actions. 08: the under-voltage control.     *)
(* 09: the gyroscope.                                                            *)
TLM_OBC_07 ==
    Bytewise(0, 2) \cup Repeat(3, 1, <<4>>) \cup Bytewise(7, 10) \cup Repeat(11, 1, <<4>>)
    \cup Bytewise(15, 16)
TLM_OBC_08 == Repeat(0, 2, <<2>>) \cup Repeat(4, 1, <<4>>) \cup Bytewise(8, 13)
TLM_OBC_09 == Repeat(0, 3, <<4>>)
TLM_OBC_64 == Repeat(0, 16, <<1, 1, 2>>)

(* 60: blocks. 61: the anomalies. 62: the timeline. 63: one block of commands.       *)
TLM_OBC_60_first  == Bytewise(0, 143)
TLM_OBC_60_second == Bytewise(144, 163)
TLM_OBC_61_first  == Repeat(0, 2, <<4>>) \cup Repeat(8, 15, <<4, 1, 1, 1, 1>>)
TLM_OBC_61_second == Repeat(128, 5, <<4, 1, 1, 1, 1>>)
TLM_OBC_62_times  == Repeat(0, 29, <<4>>)
TLM_OBC_62_codes  == Repeat(116, 3, <<4>>) \cup Bytewise(128, 191)
TLM_OBC_63 ==
    Repeat(0, 1, <<1>>) \cup Repeat(1, 9, <<4, 1, 1>>) \cup Repeat(55, 1, <<4, 1>>)

-------------------------------------------------------------------------------
(* tlm_packet_ptr and MakeTlmPacket: the frames there are, and the bytes that the    *)
(* function of each returns.                                                      *)
Ids == {1, 2, 3, 4, 5, 7, 8, 9, 60, 61, 62, 63, 64}

TLM_OBC(id) ==
    CASE id = 1  -> TLM_OBC_01_state \cup TLM_OBC_01_link
      [] id = 2  -> TLM_OBC_02_first \cup TLM_OBC_02_second
      [] id = 3  -> TLM_OBC_03
      [] id = 4  -> TLM_OBC_04
      [] id = 5  -> TLM_OBC_05
      [] id = 7  -> TLM_OBC_07
      [] id = 8  -> TLM_OBC_08
      [] id = 9  -> TLM_OBC_09
      [] id = 60 -> TLM_OBC_60_first \cup TLM_OBC_60_second
      [] id = 61 -> TLM_OBC_61_first \cup TLM_OBC_61_second
      [] id = 62 -> TLM_OBC_62_times \cup TLM_OBC_62_codes
      [] id = 63 -> TLM_OBC_63
      [] id = 64 -> TLM_OBC_64

Returned ==
    [id \in Ids |->
        CASE id = 1 -> 173 [] id = 2 -> 192 [] id = 3 -> 64 [] id = 4 -> 86 [] id = 5 -> 130
          [] id = 7 -> 17 [] id = 8 -> 14 [] id = 9 -> 12 [] id = 60 -> 164
          [] id = 61 -> 168 [] id = 62 -> 192 [] id = 63 -> 60 [] id = 64 -> 64]

TLM_POSITION_MAIN == 14
TLM_BYTE_COUNT    == 18      \* of the header and the footer
DATA_PACKET_SIZE  == 219     \* packet_data of TlmTransferFrame

(* Start marks, length, discrimination, mode, count, time, and the four bytes of the   *)
(* answer to the last command; CRC and end marks behind the frame's own fields.        *)
TlmHeader      == Bytewise(0, 1) \cup Bytewise(3, 5) \cup Repeat(6, 1, <<4>>) \cup Bytewise(10, 13)
TlmFooter(ofs) == {Field(2, 1)} \cup Moved(Repeat(0, 2, <<2>>), TLM_POSITION_MAIN + ofs)

(* The fields that TlmPacket_combining writes for a frame.                          *)
Fields ==
    [id \in Ids |->
        TlmHeader \cup Moved(TLM_OBC(id), TLM_POSITION_MAIN) \cup TlmFooter(Returned[id])]

(* The position of the field that a byte of the frame belongs to, the last one that     *)
(* was written there; NotWritten where there is none.                               *)
NotWritten == -1
FieldAt ==
    [id \in Ids |->
        [b \in 0..(DATA_PACKET_SIZE - 1) |->
            Max({f.at : f \in {g \in Fields[id] : b \in Bytes(g)}} \cup {NotWritten})]]

(* The lengths that are returned and the positions that are written, kept in step by     *)
(* hand only: a frame fits the buffer, each of its bytes is written, and its fields lie    *)
(* within it and apart from one another.                                             *)
FramesWhole ==
    \A id \in Ids :
        LET own == 0..(TLM_BYTE_COUNT + Returned[id] - 1)
        IN  /\ own \subseteq 0..(DATA_PACKET_SIZE - 1)
            /\ \A b \in own : FieldAt[id][b] \in 0..(DATA_PACKET_SIZE - 1)
            /\ \A f \in Fields[id] : \A b \in Bytes(f) : b \in own /\ FieldAt[id][b] = f.at

ASSUME FramesAssumption == FramesWhole
===============================================================================
