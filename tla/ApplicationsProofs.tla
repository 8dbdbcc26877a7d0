--------------------------- MODULE ApplicationsProofs ---------------------------
(***************************************************************************)
(* The applications for every size of their tables, every delay of a block,        *)
(* every width of the words and every bound: the answers of the under-voltage       *)
(* control, the commands of a block that is cleared, the two times of the            *)
(* satellite, and the record of the telemetry.                                    *)
(***************************************************************************)
EXTENDS Applications, TLAPS

(* The under-voltage control.  An answer to RETURN is either under way or done,        *)
(* command by command, or what happened since was not a RETURN.                  *)
RuleTypes ==
    /\ rules \subseteq UVC!Declared
    /\ level \in UVC!Declared \cup {"SUCCESS"}

Has(list, cmd) == \E t \in list : t[2] = cmd
Waits(cmd)     == Has(timeline, cmd)

(* A level that is about to be answered by a RETURN is not the last record.          *)
RecordsInOrder ==
    /\ log[1] = log[2] => log[1] = "none"
    /\ fate # "lost" /\ level = "RETURN" =>
          /\ log[2] \notin {"LEVEL1", "LEVEL2"}
          /\ log[1] \in {"LEVEL1", "LEVEL2"} => log[2] = "RETURN"

Returning ==
    /\ \A t \in timeline : t[2] \in UVC!Block("RETURN") \cup {"OTHER"}
    /\ Waits("SHORT") \/ duty = "SHORT"
    /\ Waits("SF_ON") \/ sf
    /\ Waits("ARM0") \/ "LEVEL1" \in rules
    /\ Waits("ARM1") \/ "LEVEL2" \in rules
    /\ Waits("ARM2") \/ "RETURN" \in rules

NotReturned ==
    /\ \A t \in timeline : t[2] \notin UVC!Block("RETURN")
    /\ "RETURN" \in rules
    /\ level = "RETURN" => ~seen /\ log[2] = "RETURN"

Answering == ~overtaken /\ fate # "lost" => Returning \/ NotReturned

UVCInv == RuleTypes /\ RecordsInOrder /\ ReturnNotLost /\ Answering

(* The table of blocks.                                                        *)
Position == [block : BCT!Blocks, cmd : Nat]
Slots    == 0..(MaxLength - 1)

TableTypes ==
    /\ pos \in Position
    /\ is_active \in [BCT!Blocks -> BOOLEAN]
    /\ length \in [BCT!Blocks -> 0..MaxLength]
    /\ cmds \in [BCT!Blocks -> [Slots -> Nat \X BCT!Effects]]
    /\ master \in Nat
    /\ combining \in [block : BCT!Blocks, index : 0..MaxLength]
    /\ registered \in Nat
    /\ cleared \in [BCT!Blocks -> Nat]

ClearedBefore == \A b \in BCT!Blocks : cleared[b] <= registered

NoneStale ==
    \A b \in BCT!Blocks : \A i \in Slots : i < length[b] => cmds[b][i][1] > cleared[b]

BCTInv == TableTypes /\ ClearedBefore /\ NoneStale

(* The clock, in milliseconds: what the seconds since the start of the cycle are         *)
(* computed from, and by how much the time that the clock tells differs from the true   *)
(* one.                                                                           *)
Ms(m) == (CycleMs * m) % Word
Off(n, m, initial) == CycleMs * n - (Ms(m) + SecondMs * initial)

Wait == [at : Nat, utime : Int, sound : BOOLEAN]

ClockTypes ==
    /\ clk_master \in 0..(MaxCycle - 1) /\ initial_utime \in Int /\ utime \in Int
    /\ now \in Nat /\ era \in Int
    /\ clk_timeline \subseteq Wait

EraPast == era <= CLK!Turns(clk_master)

SetRight ==
    era = CLK!Turns(clk_master) =>
        /\ utime = CLK!OBCT_cycle2sec(clk_master) + initial_utime
        /\ -SecondMs < Off(now, clk_master, initial_utime)
        /\ Off(now, clk_master, initial_utime) < SecondMs

(* The second of a command, against the cycle in which it will be executed.              *)
WaitsRight ==
    \A c \in clk_timeline : c.sound =>
        LET then == now + c.at - clk_master
        IN  /\ c.at >= clk_master
            /\ CLK!PerSecond * (c.utime - 1) < then /\ then < CLK!PerSecond * (c.utime + 1)

CLKInv == ClockTypes /\ EraPast /\ SetRight /\ WaitsRight

(* The record of telemetry: sequences of packets that are marked, and numbered as they     *)
(* were made.                                                                     *)
Values(s) == {s[k] : k \in DOMAIN s}

RecordTypes ==
    /\ made \in Nat
    /\ DOMAIN pages = Memories /\ pages = [m \in Memories |-> pages[m]]
    /\ \A m \in Memories : pages[m] \in Seq(Values(pages[m]))

RecordMarked ==
    \A m \in Memories : \A k \in DOMAIN pages[m] :
        pages[m][k].mark = "dr" /\ pages[m][k].made \in 1..made

RecordInv == RecordTypes /\ RecordMarked /\ RecordedOnce

(* The last of the periodic packets since the restart has the count that the next one goes   *)
(* on from; when there is none, that is 0.                                            *)
PeriodicIn(s, k, b) == k > b /\ s[k].id = CCP_OBC_TLM_ID

NoneYet(s, b) == \A k \in DOMAIN s : ~PeriodicIn(s, k, b)

LastOf(s, b, k) ==
    /\ k \in DOMAIN s /\ PeriodicIn(s, k, b)
    /\ \A j \in DOMAIN s : PeriodicIn(s, j, b) => j <= k

LastNumber ==
    /\ NoneYet(pages["hk"], began) => DrTlmCount[CCP_OBC_TLM_ID] = 0
    /\ \A k \in DOMAIN pages["hk"] :
          LastOf(pages["hk"], began, k) => pages["hk"][k].count = DrTlmCount[CCP_OBC_TLM_ID]

CountTypes == DrTlmCount \in [Ids -> Nat] /\ began \in Nat /\ began <= Len(pages["hk"])

NumberInv == CountTypes /\ LastNumber /\ RecordNumbered

(* A packet of the satellite's own has the bytes that its frame has written for it.         *)
OwnBytes(id)     == 0..(TLM_BYTE_COUNT + Returned[id] - 1)
OfFrame(id, n)   == [b \in OwnBytes(id) |-> Stamp(n, FieldAt[id][b])]
Whole(p)         == p.id \in Ids => p.made \in Nat /\ p.bytes = OfFrame(p.id, p.made)

ListType   == rt_tlm_list \in Seq(Values(rt_tlm_list))
BufferType == 0..(DATA_PACKET_SIZE - 1) \subseteq DOMAIN frame

WholeInv == ListType /\ BufferType /\ \A p \in Kept : Whole(p)

(* The calendar.  Days is mktime's count; the chip counts the leap years of its register,    *)
(* and takes the 29th of a February that has 28 days for the day before the 1st of March.    *)
Days(y, m, d) ==
    365 * (y - 2000) + (y - 2000 + 3) \div 4 + CAL!BeforeMonth[m]
        + (IF m > 2 /\ y % 4 = 0 THEN 1 ELSE 0) + d - 1

Date      == [y : Int, m : 1..12, d : 1..31]
Beyond(c) == c.d > CAL!Length(CAL!LeapYear(c.y), c.m)
ChipDay(c) == Days(c.y + 2000, c.m, c.d) - (IF Beyond(c) THEN 1 ELSE 0)

(* The date c of the chip is the date t, in its two digits.                             *)
SameDate(c, t) == c = [t EXCEPT !.y = @ - 1982]

TodayInv ==
    /\ today \in Date /\ today.y \in 2000..LastYear
    /\ today.d <= CAL!Length(CAL!LeapYear(today.y), today.m)

(* The chip goes as many days as the world, 18 years ahead, from a day that is right.        *)
InStep ==
    /\ chip \in Date /\ chip.y >= 18
    /\ chip.d <= CAL!Length(chip.y % 2 = 0, chip.m)
    /\ ChipDay(chip) - CAL!DayNumber(today) \in 6574..6575
    /\ ~crossed => SameDate(chip, today)

CALInv == TodayInv /\ (sound => InStep)

-------------------------------------------------------------------------------
(* A step of the whole is a step of each component, or leaves it alone. *)

LEMMA PartSteps ==
    ASSUME [AppsNext]_appsVars
    PROVE  /\ UVC!Next \/ UNCHANGED uvcVars
           /\ BCT!Next \/ UNCHANGED bctVars
           /\ CLK!Next \/ UNCHANGED clkVars
           /\ CAL!Next \/ UNCHANGED calVars
           /\ Next \/ UNCHANGED vars
BY Zenon DEF AppsNext, TelemetryStep, UVCStep, BCTStep, CLKStep, CALStep, appsVars

-------------------------------------------------------------------------------
(* The under-voltage control. *)

LEMMA UVCInit ==
    ASSUME UVC!Init
    PROVE  UVCInv
BY DEF UVC!Init, UVCInv, RuleTypes, RecordsInOrder, UVC!ReturnNotLost, ReturnNotLost,
       Answering, Returning, UVC!Declared

(* What waits is what waited, but for the command that is executed. *)
LEMMA StillWaits ==
    ASSUME NEW c, NEW list, NEW t \in list, t[2] # c
    PROVE  Has(list, c) => Has(list \ {t}, c)
BY DEF Has

LEMMA WaitsOn ==
    ASSUME NEW c, timeline' = {<<t[1] - 1, t[2]>> : t \in timeline}
    PROVE  Waits(c)' <=> Waits(c)
<1>1. ASSUME NEW t \in timeline PROVE <<t[1] - 1, t[2]>>[2] = t[2]
  OBVIOUS
<1> QED
  BY <1>1 DEF Waits, Has

(* A block as PL_deploy_block_cmd puts it on a list: nothing comes from elsewhere, while   *)
(* nothing is lost every command waits, and on an empty list all are in time.            *)
AllOf(names) == UNION {UVC!Entries(c) : c \in names}

LEMMA BlockHas ==
    ASSUME NEW names
    PROVE  /\ \A e \in AllOf(names) : e[2] \in names
           /\ \A c \in names : c \in UVC!Commands => Has(AllOf(names), c)
<1>1. ASSUME NEW e \in AllOf(names) PROVE e[2] \in names
  <2>1. PICK c \in names : e \in UVC!Entries(c)
    BY DEF AllOf
  <2>2. PICK d \in Delay[c] : e = <<d, c>>
    BY <2>1 DEF UVC!Entries
  <2> QED
    BY <2>2
<1>2. ASSUME NEW c \in names, c \in UVC!Commands PROVE Has(AllOf(names), c)
  <2>1. PICK d \in Delay[c] : TRUE
    BY <1>2, ApplicationsAssumption DEF UVC!UnderVoltageConstants
  <2>2. <<d, c>> \in AllOf(names)
    BY <1>2, <2>1 DEF AllOf, UVC!Entries
  <2>3. <<d, c>>[2] = c
    OBVIOUS
  <2> QED
    BY <2>2, <2>3 DEF Has
<1> QED
  BY <1>1, <1>2

LEMMA RoomIs ==
    ASSUME NEW s, NEW block
    PROVE  \/ UVC!Room(s, block) = s
           \/ UVC!Room(s, block).list = {} /\ UVC!Room(s, block).fate = "lost" /\ s.list # {}
BY DEF UVC!Room

LEMMA PutIs ==
    ASSUME NEW s, NEW block, NEW p \in UVC!Puts(s, block)
    PROVE  \/ p = UVC!InTime(s, block)
           \/ \E left \in SUBSET UVC!MayMeet(s.list, block) :
                 \E moves \in UVC!Moves(UVC!MayMeet(s.list, block)) :
                    p = UVC!Put(s, block, left, moves) /\ p.list # s.list \cup block
<1> DEFINE late == UVC!MayMeet(s.list, block)
<1>1. \/ p = UVC!InTime(s, block)
      \/ /\ p \in UNION {{UVC!Put(s, block, late \ some, moves) : moves \in UVC!Moves(some)} :
                            some \in UVC!Befores(late)}
         /\ p.list # s.list \cup block
  BY DEF UVC!Puts
<1>2. ASSUME NEW some \in UVC!Befores(late) PROVE some \subseteq late
  BY DEF UVC!Befores
<1>3. ASSUME NEW some \in SUBSET late PROVE UVC!Moves(some) \subseteq UVC!Moves(late)
  BY DEF UVC!Moves
<1> HIDE DEF late
<1>4. ASSUME NEW some \in UVC!Befores(late), NEW moves \in UVC!Moves(some),
             p = UVC!Put(s, block, late \ some, moves), p.list # s.list \cup block
      PROVE  \E left \in SUBSET late : \E m \in UVC!Moves(late) :
                p = UVC!Put(s, block, left, m) /\ p.list # s.list \cup block
  <2>1. late \ some \in SUBSET late /\ moves \in UVC!Moves(late)
    BY <1>2, <1>3, <1>4
  <2> QED
    BY <1>4, <2>1
<1> QED
  BY <1>1, <1>4 DEF late

LEMMA MovesAre ==
    ASSUME NEW some, NEW moves \in UVC!Moves(some)
    PROVE  DOMAIN moves \subseteq some
BY DEF UVC!Moves

LEMMA MeetsAre ==
    ASSUME NEW list, NEW block
    PROVE  /\ UVC!MayMeet(list, block) \subseteq block
           /\ list = {} => UVC!MayMeet(list, block) = {}
BY DEF UVC!MayMeet

LEMMA PutOnly ==
    ASSUME NEW s, NEW block, NEW p \in UVC!Puts(s, block), NEW u \in p.list
    PROVE  Has(s.list, u[2]) \/ Has(block, u[2])
<1>1. CASE p = UVC!InTime(s, block)
  BY <1>1 DEF UVC!InTime, Has
<1>2. CASE p # UVC!InTime(s, block)
  <2> DEFINE late == UVC!MayMeet(s.list, block)
  <2>1. PICK left \in SUBSET late : \E moves \in UVC!Moves(late) :
           p = UVC!Put(s, block, left, moves)
    BY <1>2, PutIs
  <2>2. PICK moves \in UVC!Moves(late) : p = UVC!Put(s, block, left, moves)
    BY <2>1
  <2>3. DOMAIN moves \subseteq block
    BY MovesAre, MeetsAre
  <2>4. u \in s.list \/ u \in block \/ \E e \in DOMAIN moves : u = <<moves[e], e[2]>>
    BY <2>2 DEF UVC!Put
  <2>5. ASSUME NEW e \in DOMAIN moves, u = <<moves[e], e[2]>> PROVE u[2] = e[2]
    BY <2>5
  <2> QED
    BY <2>3, <2>4, <2>5 DEF Has
<1> QED
  BY <1>1, <1>2

LEMMA PutKeeps ==
    ASSUME NEW s, NEW block, NEW p \in UVC!Puts(s, block), p.fate # "lost", NEW c,
           Has(s.list, c) \/ Has(block, c)
    PROVE  s.fate # "lost" /\ Has(p.list, c)
<1>1. CASE p = UVC!InTime(s, block)
  BY <1>1 DEF UVC!InTime, Has
<1>2. CASE p # UVC!InTime(s, block)
  <2> DEFINE late == UVC!MayMeet(s.list, block)
  <2>1. PICK left \in SUBSET late : \E moves \in UVC!Moves(late) :
           p = UVC!Put(s, block, left, moves)
    BY <1>2, PutIs
  <2>2. PICK moves \in UVC!Moves(late) : p = UVC!Put(s, block, left, moves)
    BY <2>1
  <2>3. /\ p.list = s.list \cup (block \ (left \cup DOMAIN moves))
                           \cup {<<moves[e], e[2]>> : e \in DOMAIN moves}
        /\ p.fate = IF left # {} THEN "lost" ELSE UVC!Worse(s.fate, "moved")
    BY <2>2 DEF UVC!Put
  <2>4. left = {} /\ s.fate # "lost"
    BY <2>3 DEF UVC!Worse
  <2>5. ASSUME NEW e \in block PROVE Has(p.list, e[2])
    <3>1. CASE e \in DOMAIN moves
      <4>1. <<moves[e], e[2]>> \in p.list
        BY <2>3, <3>1
      <4>2. <<moves[e], e[2]>>[2] = e[2]
        OBVIOUS
      <4> QED
        BY <4>1, <4>2 DEF Has
    <3>2. CASE e \notin DOMAIN moves
      <4>1. e \in p.list
        BY <2>3, <2>4, <3>2
      <4> QED
        BY <4>1 DEF Has
    <3> QED
      BY <3>1, <3>2
  <2>6. ASSUME NEW t \in s.list PROVE Has(p.list, t[2])
    <3>1. t \in p.list
      BY <2>3
    <3> QED
      BY <3>1 DEF Has
  <2> QED
    BY <2>4, <2>5, <2>6 DEF Has
<1> QED
  BY <1>1, <1>2

LEMMA PutFree ==
    ASSUME NEW s, NEW block, NEW p \in UVC!Puts(s, block), s.list = {}
    PROVE  p.list = block /\ p.fate = s.fate
<1>1. p = UVC!InTime(s, block)
  <2> SUFFICES ASSUME p # UVC!InTime(s, block) PROVE FALSE
    OBVIOUS
  <2>1. UVC!MayMeet(s.list, block) = {}
    BY MeetsAre
  <2>2. PICK left \in SUBSET {} : \E moves \in UVC!Moves({}) :
           p = UVC!Put(s, block, left, moves) /\ p.list # s.list \cup block
    <3> DEFINE late == UVC!MayMeet(s.list, block)
               Some(l) == \E left \in SUBSET l : \E moves \in UVC!Moves(l) :
                             p = UVC!Put(s, block, left, moves) /\ p.list # s.list \cup block
    <3>1. Some(late)
      BY PutIs
    <3>2. late = {}
      BY <2>1
    <3> HIDE DEF late
    <3> QED
      BY <3>1, <3>2
  <2>3. PICK moves \in UVC!Moves({}) :
           p = UVC!Put(s, block, left, moves) /\ p.list # s.list \cup block
    BY <2>2
  <2>4. DOMAIN moves = {}
    BY MovesAre
  <2>5. p.list = s.list \cup block
    BY <2>2, <2>3, <2>4 DEF UVC!Put
  <2> QED
    BY <2>3, <2>5
<1> QED
  BY <1>1 DEF UVC!InTime

LEMMA DeploysIs ==
    ASSUME NEW s, NEW names
    PROVE  UVC!Deploys(s, names) = UVC!Puts(UVC!Room(s, AllOf(names)), AllOf(names))
BY DEF UVC!Deploys, AllOf

LEMMA DeploysOnly ==
    ASSUME NEW s, NEW names, NEW p \in UVC!Deploys(s, names), NEW u \in p.list
    PROVE  Has(s.list, u[2]) \/ u[2] \in names
<1> DEFINE room == UVC!Room(s, AllOf(names))
<1>1. p \in UVC!Puts(room, AllOf(names))
  BY DeploysIs
<1>2. room = s \/ room.list = {}
  BY RoomIs
<1> HIDE DEF room
<1>3. Has(room.list, u[2]) \/ Has(AllOf(names), u[2])
  BY <1>1, PutOnly
<1>4. Has(AllOf(names), u[2]) => u[2] \in names
  BY BlockHas DEF Has
<1> QED
  BY <1>2, <1>3, <1>4 DEF Has

LEMMA DeploysKeep ==
    ASSUME NEW s, NEW names, names # {}, names \subseteq UVC!Commands,
           NEW p \in UVC!Deploys(s, names), p.fate # "lost"
    PROVE  /\ s.fate # "lost"
           /\ \A c : Has(s.list, c) => Has(p.list, c)
           /\ \A c \in names : Has(p.list, c)
<1> DEFINE room == UVC!Room(s, AllOf(names))
<1>1. p \in UVC!Puts(room, AllOf(names))
  BY DeploysIs
<1>2. room = s \/ room.fate = "lost"
  BY RoomIs
<1> HIDE DEF room
<1>3. \A c \in names : Has(AllOf(names), c)
  BY BlockHas
<1>4. PICK c \in names : TRUE
  OBVIOUS
<1>5. room.fate # "lost"
  BY <1>1, <1>3, <1>4, PutKeeps
<1>6. room = s
  BY <1>2, <1>5
<1> QED
  BY <1>1, <1>3, <1>5, <1>6, PutKeeps

LEMMA DeploysFree ==
    ASSUME NEW s, NEW names, NEW p \in UVC!Deploys(s, names), s.list = {}
    PROVE  p.list = AllOf(names) /\ p.fate = s.fate
<1>1. UVC!Room(s, AllOf(names)) = s
  BY RoomIs
<1> QED
  BY <1>1, DeploysIs, PutFree

LEMMA BlocksAre ==
    ASSUME NEW r \in UVC!Declared
    PROVE  UVC!Block(r) # {} /\ UVC!Block(r) \subseteq UVC!Commands
BY DEF UVC!Block, UVC!Declared, UVC!Commands

(* One record, and what the handler does at both together.                              *)
LEMMA DeployedKeeps ==
    ASSUME RuleTypes, NEW s, NEW a, NEW p \in UVC!Deployed(s, a), p.fate # "lost"
    PROVE  /\ s.fate # "lost"
           /\ \A c : Has(s.list, c) => Has(p.list, c)
           /\ a \in UVC!Answer => \A c \in UVC!Block(a) : Has(p.list, c)
<1>1. CASE a \in UVC!Answer
  <2>1. a \in UVC!Declared
    BY <1>1 DEF UVC!Answer, RuleTypes
  <2>2. p \in UVC!Deploys(s, UVC!Block(a))
    BY <1>1 DEF UVC!Deployed
  <2> QED
    BY <2>1, <2>2, BlocksAre, DeploysKeep
<1>2. CASE a \notin UVC!Answer
  BY <1>2 DEF UVC!Deployed
<1> QED
  BY <1>1, <1>2

LEMMA DeployedFree ==
    ASSUME NEW s, NEW a, NEW p \in UVC!Deployed(s, a), s.list = {}
    PROVE  /\ p.fate = s.fate
           /\ p.list = IF a \in UVC!Answer THEN AllOf(UVC!Block(a)) ELSE {}
BY DeploysFree DEF UVC!Deployed

(* The handler looks at the log. *)
LEMMA AHKeepsUVC ==
    ASSUME UVCInv, UVC!AH_exec
    PROVE  UVCInv'
<1> DEFINE answer == UVC!Answer
           found  == UVC!Found
<1>1. /\ seen' = TRUE /\ log' = <<"none", log[2]>>
      /\ rules' = rules \ answer
      /\ answer = {} => overtaken' = overtaken
      /\ answer # {} /\ ~overtaken' => timeline = {} /\ \A r1, r2 \in answer : r1 = r2
      /\ level' = level /\ duty' = duty /\ sf' = sf
  BY DEF UVC!AH_exec, UVC!uvc, UVC!craft
<1>2. PICK mid \in UVC!Deployed(found, log[1]) : \E end \in UVC!Deployed(mid, log[2]) :
         timeline' = end.list /\ fate' = end.fate
  BY DEF UVC!AH_exec
<1>3. PICK end \in UVC!Deployed(mid, log[2]) : timeline' = end.list /\ fate' = end.fate
  BY <1>2
<1>4. found.list = timeline /\ found.fate = fate
  BY DEF UVC!Found
<1>5. answer \subseteq rules /\ answer \subseteq {log[1], log[2]} /\ answer \subseteq UVC!Declared
  BY DEF UVC!Answer, UVC!Examined, UVCInv, RuleTypes
<1>6. ~seen => answer = UVC!Examined \cap rules
  BY DEF UVC!Answer
<1>7. answer # {} => ~seen
  BY DEF UVC!Answer
<1>8. ASSUME fate' # "lost"
      PROVE  /\ fate # "lost"
             /\ \A c : Waits(c) => Waits(c)'
             /\ \A r \in answer : \A c \in UVC!Block(r) : Waits(c)'
  <2>1. /\ mid.fate # "lost"
        /\ \A c : Has(mid.list, c) => Has(end.list, c)
        /\ log[2] \in answer => \A c \in UVC!Block(log[2]) : Has(end.list, c)
    BY <1>3, <1>8, DeployedKeeps DEF UVCInv
  <2>2. /\ found.fate # "lost"
        /\ \A c : Has(found.list, c) => Has(mid.list, c)
        /\ log[1] \in answer => \A c \in UVC!Block(log[1]) : Has(mid.list, c)
    BY <2>1, DeployedKeeps DEF UVCInv
  <2>3. \A c : Waits(c)' <=> Has(end.list, c)
    BY <1>3 DEF Waits, Has
  <2> QED
    BY <1>4, <1>5, <2>1, <2>2, <2>3 DEF Waits
<1>9. answer = {} => timeline' = timeline /\ fate' = fate
  BY <1>3, <1>4 DEF UVC!Deployed
<1>10. ASSUME NEW r, answer = {r}, timeline = {}
       PROVE  timeline' = AllOf(UVC!Block(r)) /\ fate' = fate
  <2>1. r # "none" /\ log[1] # log[2]
    BY <1>5, <1>10 DEF UVCInv, RecordsInOrder, UVC!Declared
  <2>2. CASE r = log[1]
    <3>1. mid.list = AllOf(UVC!Block(r)) /\ mid.fate = fate
      BY <1>4, <1>10, <2>2, DeployedFree
    <3>2. log[2] \notin answer
      BY <1>10, <2>1, <2>2
    <3>3. end = mid
      BY <3>2 DEF UVC!Deployed
    <3> QED
      BY <1>3, <3>1, <3>3
  <2>3. CASE r = log[2]
    <3>1. log[1] \notin answer
      BY <1>10, <2>1, <2>3
    <3>2. mid = found
      BY <3>1 DEF UVC!Deployed
    <3>3. end.list = AllOf(UVC!Block(r)) /\ end.fate = fate
      BY <1>4, <1>10, <2>3, <3>2, DeployedFree
    <3> QED
      BY <1>3, <3>3
  <2> QED
    BY <1>5, <1>10, <2>2, <2>3
<1> HIDE DEF answer, found
<1>11. RuleTypes'
  BY <1>1 DEF UVCInv, RuleTypes
<1>12. RecordsInOrder'
  BY <1>1, <1>8 DEF UVCInv, RecordsInOrder
<1>13. ReturnNotLost'
  <2> SUFFICES ASSUME fate' # "lost", "RETURN" \notin rules' PROVE Waits("ARM2")'
    BY DEF Waits, Has, ReturnNotLost, UVC!ReturnNotLost
  <2>1. CASE "RETURN" \in answer
    BY <1>8, <2>1, "ARM2" \in UVC!Block("RETURN") DEF UVC!Block
  <2>2. CASE "RETURN" \notin answer
    BY <1>1, <1>8, <2>2 DEF UVCInv, ReturnNotLost, UVC!ReturnNotLost, Waits, Has
  <2> QED
    BY <2>1, <2>2
<1>14. Answering'
  <2> SUFFICES ASSUME ~overtaken', fate' # "lost" PROVE (Returning \/ NotReturned)'
    BY DEF Answering
  <2>1. CASE answer = {}
    <3>1. timeline' = timeline /\ rules' = rules /\ ~overtaken /\ fate # "lost"
      BY <1>1, <1>8, <1>9, <2>1
    <3>2. Returning => Returning'
      BY <1>1, <3>1 DEF Returning, Waits, Has
    <3>3. NotReturned => NotReturned'
      <4>1. ~("RETURN" \in rules /\ ~seen /\ log[2] = "RETURN")
        BY <1>6, <2>1 DEF UVC!Examined
      <4> QED
        BY <1>1, <3>1, <4>1 DEF NotReturned
    <3> QED
      BY <3>1, <3>2, <3>3 DEF UVCInv, Answering
  <2>2. CASE answer # {}
    <3>1. PICK r \in answer : TRUE
      BY <2>2
    <3>2. timeline = {} /\ \A r1, r2 \in answer : r1 = r2
      BY <1>1, <2>2
    <3>3. answer = {r} /\ r \in UVC!Declared /\ r \in UVC!Examined /\ ~seen
      BY <1>5, <1>7, <3>1, <3>2 DEF UVC!Examined
    <3>4. fate # "lost" /\ "RETURN" \in rules
      BY <1>8, <3>2 DEF UVCInv, ReturnNotLost, UVC!ReturnNotLost
    <3>5. ASSUME NEW t \in timeline' PROVE t[2] \in UVC!Block(r)
      BY <1>10, <3>2, <3>3, BlockHas
    <3>6. CASE r = "RETURN"
      <4>1. \A c \in UVC!Block("RETURN") : Waits(c)'
        BY <1>8, <3>1, <3>6
      <4>2. {"SHORT", "SF_ON", "ARM0", "ARM1", "ARM2"} \subseteq UVC!Block("RETURN")
        BY DEF UVC!Block
      <4> QED
        BY <3>5, <3>6, <4>1, <4>2 DEF Returning
    <3>7. CASE r # "RETURN"
      <4>1. \A c \in UVC!Block(r) : c \notin UVC!Block("RETURN")
        BY <3>3, <3>7 DEF UVC!Block, UVC!Declared
      <4>2. "RETURN" \in rules'
        BY <1>1, <3>3, <3>4, <3>7
      <4>3. level # "RETURN"
        <5>1. log[1] # "RETURN" /\ log[2] # "RETURN"
          BY <1>6, <3>3, <3>4, <3>7 DEF UVC!Examined
        <5>2. r \in {log[1], log[2]} /\ r \in {"LEVEL1", "LEVEL2"}
          BY <3>3, <3>7 DEF UVC!Examined, UVC!Declared
        <5> QED
          BY <3>4, <5>1, <5>2 DEF UVCInv, RecordsInOrder
      <4> QED
        BY <1>1, <3>5, <4>1, <4>2, <4>3 DEF NotReturned
    <3> QED
      BY <3>6, <3>7
  <2> QED
    BY <2>1, <2>2
<1> QED
  BY <1>11, <1>12, <1>13, <1>14 DEF UVCInv

(* A measurement, and whatever else only adds a record or changes the level. *)
LEMMA LogKeepsUVC ==
    ASSUME UVCInv,
           rules' = rules, duty' = duty, sf' = sf, overtaken' = overtaken,
           timeline' = timeline \/ timeline' = {<<t[1] - 1, t[2]>> : t \in timeline},
           \/ UNCHANGED <<level, log, seen, fate>>
           \/ level' = "SUCCESS" /\ UNCHANGED <<log, seen, fate>>
           \/ \E l \in UVC!Declared : level' = l /\ UVC!AL_add(l)
           \/ seen /\ UNCHANGED level /\ UVC!AL_add("other")
    PROVE  UVCInv'
<1>1. \A c : Waits(c)' <=> Waits(c)
  BY WaitsOn DEF Waits, Has
<1>2. RuleTypes'
  BY DEF UVCInv, RuleTypes, UVC!Declared
<1>3. fate' # "lost" => fate # "lost"
  BY DEF UVC!AL_add
<1>4. RecordsInOrder'
  BY DEF UVCInv, RecordsInOrder, UVC!Declared, UVC!AL_add
<1>5. ReturnNotLost'
  BY <1>1, <1>3 DEF UVCInv, ReturnNotLost, UVC!ReturnNotLost, Waits, Has
<1>6. Returning => Returning'
  <2> SUFFICES ASSUME Returning, NEW t \in timeline'
               PROVE  t[2] \in UVC!Block("RETURN") \cup {"OTHER"}
    BY <1>1 DEF Returning
  <2> QED
    BY DEF Returning
<1>7. fate' # "lost" /\ NotReturned => NotReturned'
  <2> SUFFICES ASSUME NotReturned, fate' # "lost" PROVE NotReturned'
    OBVIOUS
  <2>1. ASSUME NEW t \in timeline' PROVE t[2] \notin UVC!Block("RETURN")
    BY DEF NotReturned
  <2>2. level' = "RETURN" => ~seen' /\ log'[2] = "RETURN"
    BY DEF NotReturned, UVC!Declared, UVC!AL_add
  <2> QED
    BY <2>1, <2>2 DEF NotReturned
<1> QED
  BY <1>2, <1>3, <1>4, <1>5, <1>6, <1>7 DEF UVCInv, Answering

(* A command of a block is executed. *)
LEMMA ExecuteKeepsUVC ==
    ASSUME UVCInv, UVC!Execute
    PROVE  UVCInv'
<1>1. PICK t \in UVC!Due :
          /\ \E s \in UVC!Sequence(t) : timeline' = s.list /\ fate' = s.fate
          /\ rules' = rules \cup UVC!Arms(t[2])
          /\ duty' = IF t[2] \in {"SHORT", "LONG"} THEN t[2] ELSE duty
          /\ t[2] = "SF_ON" => sf'
          /\ t[2] \notin {"SF_ON", "SF_OFF", "TRANSITION"} => sf' = sf
          /\ level' = level /\ log' = log /\ seen' = seen /\ overtaken' = overtaken
  BY DEF UVC!Execute, UVC!uvc
<1> DEFINE c    == t[2]
           rest == timeline \ {t}
<1>2. t \in timeline
  BY DEF UVC!Due
<1>3. UVC!Arms(c) \subseteq UVC!Declared /\ (c = "ARM2" => "RETURN" \in UVC!Arms(c))
  BY DEF UVC!Arms, UVC!Declared
<1>4. PICK s \in UVC!Sequence(t) : timeline' = s.list /\ fate' = s.fate
  BY <1>1
<1>5. \/ s.list = rest /\ s.fate = fate
      \/ /\ c = "SAFE"
         /\ \E q : q.list = rest /\ q.fate = fate /\ s \in UVC!Deploys(q, {"TRANSITION"})
  BY DEF UVC!Sequence
<1>6. fate' # "lost" => fate # "lost" /\ \A d : Has(rest, d) => Waits(d)'
  <2> SUFFICES ASSUME fate' # "lost"
               PROVE  fate # "lost" /\ \A d : Has(rest, d) => Waits(d)'
    OBVIOUS
  <2>1. CASE s.list = rest /\ s.fate = fate
    BY <1>4, <2>1 DEF Waits, Has
  <2>2. CASE \E q : q.list = rest /\ q.fate = fate /\ s \in UVC!Deploys(q, {"TRANSITION"})
    <3>1. PICK q : q.list = rest /\ q.fate = fate /\ s \in UVC!Deploys(q, {"TRANSITION"})
      BY <2>2
    <3>2. {"TRANSITION"} # {} /\ {"TRANSITION"} \subseteq UVC!Commands
      BY DEF UVC!Commands
    <3>3. q.fate # "lost" /\ \A d : Has(q.list, d) => Has(s.list, d)
      BY <1>4, <3>1, <3>2, DeploysKeep
    <3> QED
      BY <1>4, <3>1, <3>3 DEF Waits, Has
  <2> QED
    BY <1>5, <2>1, <2>2
<1>7. ASSUME NEW u \in timeline' PROVE u[2] = "TRANSITION" \/ Has(timeline, u[2])
  <2>1. CASE s.list = rest
    BY <1>4, <2>1 DEF Has
  <2>2. CASE \E q : q.list = rest /\ q.fate = fate /\ s \in UVC!Deploys(q, {"TRANSITION"})
    <3>1. PICK q : q.list = rest /\ s \in UVC!Deploys(q, {"TRANSITION"})
      BY <2>2
    <3>2. Has(q.list, u[2]) \/ u[2] \in {"TRANSITION"}
      BY <1>4, <3>1, DeploysOnly
    <3> QED
      BY <3>1, <3>2 DEF Has
  <2> QED
    BY <1>5, <2>1, <2>2
<1>8. fate' # "lost" => \A d : c # d => (Waits(d) => Waits(d)')
  BY <1>2, <1>6, StillWaits DEF Waits
<1>9. RuleTypes'
  BY <1>1, <1>3 DEF UVCInv, RuleTypes
<1>10. RecordsInOrder'
  BY <1>1, <1>6 DEF UVCInv, RecordsInOrder
<1>11. ReturnNotLost'
  <2> SUFFICES ASSUME fate' # "lost" PROVE Waits("ARM2")' \/ "RETURN" \in rules'
    BY DEF Waits, Has, ReturnNotLost, UVC!ReturnNotLost
  <2>1. Waits("ARM2") \/ "RETURN" \in rules
    BY <1>6 DEF UVCInv, ReturnNotLost, UVC!ReturnNotLost, Waits, Has
  <2> QED
    BY <1>1, <1>3, <1>8, <2>1
<1>12. fate' # "lost" /\ Returning => Returning'
  <2> SUFFICES ASSUME fate' # "lost", Returning PROVE Returning'
    OBVIOUS
  <2>1. c \in {"SHORT", "ARM0", "ARM1", "ARM2", "SF_ON", "OTHER"}
    BY <1>2 DEF Returning, UVC!Block
  <2>2. (\A d \in timeline : d[2] \in UVC!Block("RETURN") \cup {"OTHER"})'
    <3>1. timeline' = rest
      BY <1>4, <1>5, <2>1
    <3> QED
      BY <3>1 DEF Returning
  <2>3. (Waits("SHORT") \/ duty = "SHORT")'
    BY <1>1, <1>8, <2>1 DEF Returning
  <2>4. (Waits("SF_ON") \/ sf)'
    <3>1. CASE c = "SF_ON"
      BY <1>1, <3>1
    <3>2. CASE c # "SF_ON"
      <4>1. sf' = sf
        BY <1>1, <2>1, <3>2
      <4> QED
        BY <1>8, <3>2, <4>1 DEF Returning
    <3> QED
      BY <3>1, <3>2
  <2>5. (Waits("ARM0") \/ "LEVEL1" \in rules)'
    BY <1>1, <1>8 DEF Returning, UVC!Arms
  <2>6. (Waits("ARM1") \/ "LEVEL2" \in rules)'
    BY <1>1, <1>8 DEF Returning, UVC!Arms
  <2>7. (Waits("ARM2") \/ "RETURN" \in rules)'
    BY <1>1, <1>8 DEF Returning, UVC!Arms
  <2> QED
    BY <2>2, <2>3, <2>4, <2>5, <2>6, <2>7 DEF Returning
<1>13. NotReturned => NotReturned'
  <2> SUFFICES ASSUME NotReturned PROVE NotReturned'
    OBVIOUS
  <2>1. ASSUME NEW u \in timeline' PROVE u[2] \notin UVC!Block("RETURN")
    <3>1. "TRANSITION" \notin UVC!Block("RETURN")
      BY DEF UVC!Block
    <3> QED
      BY <1>7, <3>1 DEF NotReturned, Has
  <2> QED
    BY <1>1, <2>1 DEF NotReturned
<1> QED
  BY <1>1, <1>6, <1>9, <1>10, <1>11, <1>12, <1>13 DEF UVCInv, Answering

(* Commands of others on the timeline, and the commands of the ground for the rules.       *)
LEMMA RegisterKeepsUVC ==
    ASSUME UVCInv, UVC!TL_register
    PROVE  UVCInv'
<1>1. PICK n : timeline' = timeline \cup {<<n, "OTHER">>}
  BY DEF UVC!TL_register
<1>2. /\ rules' = rules /\ level' = level /\ log' = log /\ seen' = seen /\ duty' = duty
      /\ sf' = sf /\ overtaken' = overtaken /\ fate' = fate
  BY DEF UVC!TL_register, UVC!uvc, UVC!ah, UVC!craft
<1>3. \A c : Waits(c) => Waits(c)'
  BY <1>1 DEF Waits, Has
<1>4. ASSUME NEW t \in timeline' PROVE t \in timeline \/ t[2] = "OTHER"
  BY <1>1
<1>5. RuleTypes' /\ RecordsInOrder'
  BY <1>2 DEF UVCInv, RuleTypes, RecordsInOrder
<1>6. ReturnNotLost'
  BY <1>2, <1>3 DEF UVCInv, ReturnNotLost, UVC!ReturnNotLost, Waits, Has
<1>7. Returning => Returning'
  BY <1>2, <1>3, <1>4 DEF Returning
<1>8. NotReturned => NotReturned'
  BY <1>2, <1>4, "OTHER" \notin UVC!Block("RETURN") DEF NotReturned, UVC!Block
<1> QED
  BY <1>2, <1>5, <1>6, <1>7, <1>8 DEF UVCInv, Answering

LEMMA ActivateKeepsUVC ==
    ASSUME UVCInv, UVC!AH_activate_rule
    PROVE  UVCInv'
<1>1. PICK r \in UVC!Declared : rules' = rules \cup {r}
  BY DEF UVC!AH_activate_rule
<1>2. /\ timeline' = timeline /\ level' = level /\ log' = log /\ seen' = seen /\ duty' = duty
      /\ sf' = sf /\ overtaken' = overtaken /\ fate' = fate
  BY DEF UVC!AH_activate_rule, UVC!uvc, UVC!craft
<1>3. RuleTypes' /\ RecordsInOrder'
  BY <1>1, <1>2 DEF UVCInv, RuleTypes, RecordsInOrder
<1>4. ReturnNotLost'
  BY <1>1, <1>2 DEF UVCInv, ReturnNotLost, UVC!ReturnNotLost
<1>5. Returning => Returning'
  BY <1>1, <1>2 DEF Returning, Waits, Has
<1>6. NotReturned => NotReturned'
  BY <1>1, <1>2 DEF NotReturned
<1> QED
  BY <1>2, <1>3, <1>4, <1>5, <1>6 DEF UVCInv, Answering

(* What loses something.                                                           *)
LEMMA LosesUVC ==
    ASSUME UVCInv, rules' \subseteq rules, level' = level, log' = log, fate' = "lost"
    PROVE  UVCInv'
BY DEF UVCInv, RuleTypes, RecordsInOrder, ReturnNotLost, UVC!ReturnNotLost, Answering

LEMMA UVCStays ==
    ASSUME UVCInv, UNCHANGED <<rules, level, log, seen, timeline, duty, sf, overtaken, fate>>
    PROVE  UVCInv'
BY DEF UVCInv, RuleTypes, RecordsInOrder, ReturnNotLost, UVC!ReturnNotLost, Answering,
       Returning, NotReturned, Waits, Has

LEMMA UVCKept ==
    ASSUME UVCInv, UVC!Next \/ UNCHANGED uvcVars
    PROVE  UVCInv'
<1>1. CASE UVC!AH_exec
  BY <1>1, AHKeepsUVC
<1>2. CASE UVC!UVC_execute
  <2>1. /\ rules' = rules /\ duty' = duty /\ sf' = sf /\ overtaken' = overtaken
        /\ timeline' = {<<t[1] - 1, t[2]>> : t \in timeline}
    BY <1>2 DEF UVC!UVC_execute, UVC!craft
  <2>2. \/ UNCHANGED <<level, log, seen, fate>>
        \/ \E l \in UVC!Declared : level' = l /\ UVC!AL_add(l)
    BY <1>2 DEF UVC!UVC_execute, UVC!Measure
  <2> QED
    BY <2>1, <2>2, LogKeepsUVC
<1>3. CASE UVC!Execute
  BY <1>3, ExecuteKeepsUVC
<1>4. CASE UVC!UVC_ENABLE
  BY <1>4, LogKeepsUVC DEF UVC!UVC_ENABLE, UVC!ah, UVC!craft
<1>5. CASE UVC!UVC_SET_BAT_V
  BY <1>5, UVCStays DEF UVC!UVC_SET_BAT_V, UVC!uvc, UVC!ah, UVC!craft
<1>6. CASE UVC!AH_activate_rule
  BY <1>6, ActivateKeepsUVC
<1>7. CASE UVC!AH_inactivate_rule
  BY <1>7, LosesUVC DEF UVC!AH_inactivate_rule, UVC!uvc
<1>8. CASE UVC!AH_clear_log
  <2>1. /\ log' = <<"none", "none">> /\ seen' /\ fate' = IF seen THEN fate ELSE "lost"
        /\ UNCHANGED <<level, rules, timeline, duty, sf, overtaken>>
    BY <1>8 DEF UVC!AH_clear_log, UVC!uvc, UVC!craft
  <2>2. RuleTypes' /\ RecordsInOrder'
    BY <2>1 DEF UVCInv, RuleTypes, RecordsInOrder
  <2>3. ReturnNotLost'
    BY <2>1 DEF UVCInv, ReturnNotLost, UVC!ReturnNotLost
  <2>4. Returning => Returning'
    BY <2>1 DEF Returning, Waits, Has
  <2>5. NotReturned /\ seen => NotReturned'
    BY <2>1 DEF NotReturned
  <2> QED
    BY <2>1, <2>2, <2>3, <2>4, <2>5 DEF UVCInv, Answering
<1>9. CASE UVC!TL_register
  BY <1>9, RegisterKeepsUVC
<1>10. CASE UVC!CLEAR_ALL_TIMELINE
  <2>1. timeline' = {} /\ UNCHANGED <<rules, level, log, seen, duty, sf, overtaken>>
    BY <1>10 DEF UVC!CLEAR_ALL_TIMELINE, UVC!uvc, UVC!ah, UVC!craft
  <2>2. CASE timeline = {}
    <3>1. fate' = fate
      BY <1>10, <2>2 DEF UVC!CLEAR_ALL_TIMELINE
    <3> QED
      BY <2>1, <2>2, <3>1, UVCStays
  <2>3. CASE timeline # {}
    <3>1. fate' = "lost"
      BY <1>10, <2>3 DEF UVC!CLEAR_ALL_TIMELINE
    <3> QED
      BY <2>1, <3>1, LosesUVC
  <2> QED
    BY <2>2, <2>3
<1>11. CASE UVC!OtherAnomaly
  BY <1>11, LogKeepsUVC DEF UVC!OtherAnomaly, UVC!uvc, UVC!craft
<1>12. CASE UVC!Restart
  <2>1. /\ rules' = UVC!Declared /\ timeline' = {} /\ level' = "SUCCESS"
        /\ log' = <<"none", "none">>
    BY <1>12 DEF UVC!Restart, UVC!Boot
  <2> QED
    BY <2>1 DEF UVCInv, RuleTypes, RecordsInOrder, ReturnNotLost, UVC!ReturnNotLost,
               Answering, NotReturned, UVC!Declared
<1>13. CASE UNCHANGED uvcVars
  BY <1>13, UVCStays DEF uvcVars
<1> QED
  BY <1>1, <1>2, <1>3, <1>4, <1>5, <1>6, <1>7, <1>8, <1>9, <1>10, <1>11, <1>12, <1>13
     DEF UVC!Next, UVC!Cycle, UVC!Commanded

LEMMA UVCAlways == AppsSpec => []UVCInv
<1>1. AppsInit => UVCInv
  BY UVCInit DEF AppsInit
<1>2. UVCInv /\ [AppsNext]_appsVars => UVCInv'
  BY PartSteps, UVCKept
<1> QED
  BY <1>1, <1>2, PTL DEF AppsSpec

(* The rule that answers the return of the voltage is not lost while no command of a      *)
(* block was refused or cleared: it is active, or the command that activates it again      *)
(* waits on the timeline; whatever records the handler looks at twice, whatever blocks    *)
(* are deployed over one another and wherever their commands are moved to               *)
(* (AnomalyHandler.cpp, BC_load_uvc_return_action, PacketList.cpp:215-275).            *)
THEOREM ReturnKept == AppsSpec => []ReturnNotLost
<1>1. UVCInv => ReturnNotLost
  BY DEF UVCInv
<1> QED
  BY <1>1, UVCAlways, PTL

(* After the answer to a RETURN the transmitter has its short pauses and all rules are    *)
(* active again, unless something was lost or an answer came while commands were under     *)
(* way: for all delays of the commands, all counts and all courses of the voltage        *)
(* (UVC_app.cpp, AnomalyHandler.cpp, BlockCommandDefinisions.cpp).                     *)
THEOREM ReturnComplete == AppsSpec => []ReturnUndoes
<1>1. UVCInv => ReturnUndoes
  <2> SUFFICES ASSUME UVCInv, level = "RETURN", seen, timeline = {}, ~overtaken,
                      fate # "lost"
               PROVE  duty = "SHORT" /\ sf /\ rules = UVC!Declared
    BY DEF ReturnUndoes, UVC!ReturnUndoes
  <2>1. Returning
    BY DEF UVCInv, Answering, NotReturned
  <2>2. \A c : ~Waits(c)
    BY DEF Waits, Has
  <2>3. rules \subseteq UVC!Declared
    BY DEF UVCInv, RuleTypes
  <2> QED
    BY <2>1, <2>2, <2>3 DEF Returning, UVC!Declared
<1> QED
  BY <1>1, UVCAlways, PTL

-------------------------------------------------------------------------------
(* The table of blocks. *)

LEMMA BlockTableNats ==
    /\ MaxBlocks \in Nat \ {0} /\ MaxMaster \in Nat \ {0} /\ MaxLength \in Nat \ {0, 1}
BY ApplicationsAssumption DEF BCT!BlockTableConstants

LEMMA BCTInit ==
    ASSUME BCT!Init
    PROVE  BCTInv
<1> USE BlockTableNats
<1>1. MaxBlocks - 1 \in BCT!Blocks /\ 0 \in BCT!Blocks
  BY DEF BCT!Blocks
<1>2. <<"app">> \in BCT!Effects
  BY DEF BCT!Effects
<1>3. /\ pos \in Position
      /\ is_active \in [BCT!Blocks -> BOOLEAN]
      /\ length \in [BCT!Blocks -> 0..MaxLength]
      /\ master \in Nat /\ registered \in Nat /\ cleared \in [BCT!Blocks -> Nat]
      /\ combining \in [block : BCT!Blocks, index : 0..MaxLength]
  BY <1>1 DEF BCT!Init, BCT!Nothing, Position
<1>4. cmds \in [BCT!Blocks -> [Slots -> Nat \X BCT!Effects]]
  <2>1. ASSUME NEW i \in Slots
        PROVE  <<IF i = 0 THEN 1 ELSE 0, <<"app">> >> \in Nat \X BCT!Effects
    BY <1>2
  <2> QED
    BY <2>1 DEF BCT!Init, Slots
<1>5. ClearedBefore
  BY DEF BCT!Init, ClearedBefore
<1>6. NoneStale
  <2> SUFFICES ASSUME NEW b \in BCT!Blocks, NEW i \in Slots, i < length[b]
               PROVE  cmds[b][i][1] > cleared[b]
    BY DEF NoneStale
  <2>1. i = 0
    BY DEF BCT!Init, Slots
  <2>2. cmds[b][0] = <<1, <<"app">> >> /\ cleared[b] = 0
    BY <2>1 DEF BCT!Init, Slots
  <2> QED
    BY <2>1, <2>2
<1> QED
  BY <1>3, <1>4, <1>5, <1>6 DEF BCTInv, TableTypes

(* The parts of the table that a step changes, and the rest. *)
BCTRest == UNCHANGED <<registered>> /\ master' \in Nat
            /\ combining' \in [block : BCT!Blocks, index : 0..MaxLength]

LEMMA TableStays ==
    ASSUME BCTInv, UNCHANGED <<length, cmds, cleared>>, BCTRest,
           pos' \in Position, is_active' \in [BCT!Blocks -> BOOLEAN]
    PROVE  BCTInv'
BY DEF BCTInv, TableTypes, ClearedBefore, NoneStale, BCTRest

LEMMA ClearKeeps ==
    ASSUME BCTInv, NEW b \in BCT!Blocks, BCT!BCT_clear_block(b), BCTRest
    PROVE  BCTInv'
<1> USE BlockTableNats
<1>1. /\ pos' = [block |-> b, cmd |-> 0]
      /\ is_active' = [is_active EXCEPT ![b] = FALSE]
      /\ length' = [length EXCEPT ![b] = 0]
      /\ cleared' = [cleared EXCEPT ![b] = registered]
      /\ cmds' = cmds /\ registered' = registered
  BY DEF BCT!BCT_clear_block, BCTRest
<1>2. TableTypes'
  <2>1. 0 \in Nat /\ 0 \in 0..MaxLength
    OBVIOUS
  <2>2. pos' \in Position
    BY <1>1, <2>1 DEF Position
  <2>3. length' \in [BCT!Blocks -> 0..MaxLength] /\ cleared' \in [BCT!Blocks -> Nat]
    BY <1>1, <2>1 DEF BCTInv, TableTypes
  <2> QED
    BY <1>1, <2>2, <2>3 DEF BCTInv, TableTypes, BCTRest
<1>3. ClearedBefore'
  <2> SUFFICES ASSUME NEW d \in BCT!Blocks PROVE cleared'[d] <= registered
    BY <1>1 DEF ClearedBefore
  <2> QED
    BY <1>1 DEF BCTInv, TableTypes, ClearedBefore
<1>4. NoneStale'
  <2> SUFFICES ASSUME NEW d \in BCT!Blocks, NEW i \in Slots, i < length'[d]
               PROVE  cmds[d][i][1] > cleared'[d]
    BY <1>1 DEF NoneStale
  <2>1. d # b
    BY <1>1 DEF BCTInv, TableTypes, Slots
  <2>2. length'[d] = length[d] /\ cleared'[d] = cleared[d]
    BY <1>1, <2>1 DEF BCTInv, TableTypes
  <2> QED
    BY <2>2 DEF BCTInv, NoneStale
<1> QED
  BY <1>2, <1>3, <1>4 DEF BCTInv

(* What was registered last is newer than every clearing, and it is put where the length    *)
(* leaves no gap.                                                                   *)
LEMMA RegisterKeeps ==
    ASSUME BCTInv, BCT!Register
    PROVE  BCTInv'
<1> USE BlockTableNats
<1>1. PICK effect \in BCT!Effects : BCT!BCT_register_cmd(effect)
  BY DEF BCT!Register
<1> DEFINE b == pos.block
           p == pos.cmd
           new == <<registered + 1, effect>>
<1>2. /\ p < MaxLength /\ ~(p > length[b])
      /\ registered' = registered + 1
      /\ cmds' = [cmds EXCEPT ![b][p] = new]
      /\ pos' = [pos EXCEPT !.cmd = p + 1]
      /\ length' = [length EXCEPT ![b] = IF @ < pos'.cmd THEN pos'.cmd ELSE @]
      /\ is_active' = is_active /\ cleared' = cleared
      /\ master' = master /\ combining' = combining
  BY <1>1 DEF BCT!BCT_register_cmd, BCT!Isolated, BCT!Register
<1>3. /\ b \in BCT!Blocks /\ p \in Slots /\ registered \in Nat /\ p \in Nat
      /\ length[b] \in 0..MaxLength /\ pos'.cmd = p + 1
      /\ length[b] \in Nat
  BY <1>2 DEF BCTInv, TableTypes, Position, Slots
<1>4. length' = [length EXCEPT ![b] = IF length[b] < p + 1 THEN p + 1 ELSE length[b]]
  BY <1>2, <1>3
<1>5. \A d \in BCT!Blocks : length'[d] = IF d = b /\ length[b] < p + 1 THEN p + 1 ELSE length[d]
  BY <1>4 DEF BCTInv, TableTypes
<1>6. new \in Nat \X BCT!Effects /\ new[1] = registered + 1
  BY <1>3
<1> HIDE DEF new
<1>7. cmds' \in [BCT!Blocks -> [Slots -> Nat \X BCT!Effects]]
  BY <1>2, <1>3, <1>6 DEF BCTInv, TableTypes
<1>8. \A d \in BCT!Blocks : \A i \in Slots :
          cmds'[d][i] = IF d = b /\ i = p THEN new ELSE cmds[d][i]
  BY <1>2, <1>3 DEF BCTInv, TableTypes
<1>9. TableTypes'
  <2>1. p + 1 \in Nat /\ p + 1 \in 0..MaxLength /\ registered + 1 \in Nat
    BY <1>2, <1>3
  <2>2. pos' \in Position
    BY <1>2, <2>1 DEF BCTInv, TableTypes, Position
  <2>3. length' \in [BCT!Blocks -> 0..MaxLength]
    BY <1>3, <1>4, <2>1 DEF BCTInv, TableTypes
  <2> QED
    BY <1>2, <1>7, <2>1, <2>2, <2>3 DEF BCTInv, TableTypes
<1>10. ClearedBefore'
  BY <1>2 DEF BCTInv, TableTypes, ClearedBefore
<1>11. NoneStale'
  <2> SUFFICES ASSUME NEW d \in BCT!Blocks, NEW i \in Slots, i < length'[d]
               PROVE  cmds'[d][i][1] > cleared[d]
    BY <1>2 DEF NoneStale
  <2>1. cleared[d] \in Nat /\ cleared[d] <= registered
    BY DEF BCTInv, TableTypes, ClearedBefore
  <2>2. CASE d = b /\ i = p
    BY <1>3, <1>6, <1>8, <2>1, <2>2
  <2>3. CASE ~(d = b /\ i = p)
    <3>1. i < length[d]
      BY <1>2, <1>3, <1>5, <2>3 DEF Slots
    <3> QED
      BY <1>8, <2>3, <3>1 DEF BCTInv, NoneStale
  <2> QED
    BY <2>2, <2>3
<1> QED
  BY <1>9, <1>10, <1>11 DEF BCTInv

(* A command that is despatched is one of its block as it stands. *)
LEMMA DespatchKeeps ==
    ASSUME BCTInv, NEW b \in BCT!Blocks, NEW i \in Slots, i < length[b],
           BCT!Despatch(b, i), BCTRest
    PROVE  BCTInv'
<1>1. BCT!Effect(b, i) \in BCT!Effects
  BY DEF BCTInv, TableTypes, BCT!Effect
<1>2. CASE BCT!Effect(b, i)[1] = "clear"
  <2>1. BCT!Effect(b, i)[2] \in BCT!Blocks
    BY <1>1, <1>2 DEF BCT!Effects
  <2>2. BCT!BCT_clear_block(BCT!Effect(b, i)[2])
    BY <1>2 DEF BCT!Despatch
  <2> QED
    BY <2>1, <2>2, ClearKeeps
<1>3. CASE BCT!Effect(b, i)[1] # "clear"
  <2>1. UNCHANGED <<pos, is_active, length, cmds, cleared>>
    BY <1>3 DEF BCT!Despatch, BCT!table
  <2>2. pos' \in Position /\ is_active' \in [BCT!Blocks -> BOOLEAN]
    BY <2>1 DEF BCTInv, TableTypes
  <2> QED
    BY <2>1, <2>2, TableStays
<1> QED
  BY <1>2, <1>3

LEMMA DespatchUncleared ==
    ASSUME BCTInv, NEW b \in BCT!Blocks, NEW i \in Slots, i < length[b], BCT!Despatch(b, i)
    PROVE  BCT!RunsUncleared
<1>1. ran' = <<b, cmds[b][i][1]>>
  BY DEF BCT!Despatch
<1>2. cmds[b][i][1] > cleared[b]
  BY DEF BCTInv, NoneStale
<1> QED
  BY <1>1, <1>2 DEF BCT!RunsUncleared

LEMMA NothingRan ==
    ASSUME ran' = BCT!NoneRan
    PROVE  BCT!RunsUncleared
BY DEF BCT!RunsUncleared

(* Every operation keeps the invariant, and what it runs is not stale. *)
LEMMA TableSteps ==
    ASSUME BCTInv, BCT!Next
    PROVE  BCTInv' /\ BCT!RunsUncleared
<1> USE BlockTableNats
<1>1. CASE BCT!Cycle
  <2>1. (master + 1) % MaxMaster \in Nat
    BY DEF BCTInv, TableTypes
  <2>2. BCTRest /\ UNCHANGED <<pos, is_active, length, cmds, cleared>> /\ ran' = BCT!NoneRan
    BY <1>1, <2>1 DEF BCT!Cycle, BCT!table, BCTRest, BCTInv, TableTypes
  <2>3. pos' \in Position /\ is_active' \in [BCT!Blocks -> BOOLEAN]
    BY <2>2 DEF BCTInv, TableTypes
  <2> QED
    BY <2>2, <2>3, TableStays, NothingRan
<1>2. CASE BCT!Rotate
  <2>1. PICK b \in BCT!Blocks :
          IF length[b] = 0
          THEN ran' = BCT!NoneRan /\ UNCHANGED <<BCT!table, cleared>>
          ELSE BCT!Despatch(b, master % length[b])
    BY <1>2 DEF BCT!Rotate
  <2>2. BCTRest
    BY <1>2 DEF BCT!Rotate, BCTRest, BCTInv, TableTypes
  <2>3. CASE length[b] = 0
    <3>1. UNCHANGED <<pos, is_active, length, cmds, cleared>> /\ ran' = BCT!NoneRan
      BY <2>1, <2>3 DEF BCT!table
    <3>2. pos' \in Position /\ is_active' \in [BCT!Blocks -> BOOLEAN]
      BY <3>1 DEF BCTInv, TableTypes
    <3> QED
      BY <2>2, <3>1, <3>2, TableStays, NothingRan
  <2>4. CASE length[b] # 0
    <3>1. length[b] \in 1..MaxLength /\ master \in Nat
      BY <2>4 DEF BCTInv, TableTypes
    <3>2. \A n \in 1..MaxLength : master % n \in 0..(n - 1)
      BY <3>1
    <3>3. master % length[b] \in Slots /\ master % length[b] < length[b]
      BY <3>1, <3>2 DEF Slots
    <3> QED
      BY <2>1, <2>2, <2>4, <3>3, DespatchKeeps, DespatchUncleared
  <2> QED
    BY <2>3, <2>4
<1>3. CASE BCT!Combine
  <2>1. PICK b \in BCT!Blocks : combining' = [block |-> b, index |-> 0]
    BY <1>3 DEF BCT!Combine
  <2>2. combining' \in [block : BCT!Blocks, index : 0..MaxLength]
    BY <2>1, 0 \in 0..MaxLength
  <2>3. BCTRest /\ UNCHANGED <<pos, is_active, length, cmds, cleared>> /\ ran' = BCT!NoneRan
    BY <1>3, <2>2 DEF BCT!Combine, BCT!table, BCTRest, BCTInv, TableTypes
  <2>4. pos' \in Position /\ is_active' \in [BCT!Blocks -> BOOLEAN]
    BY <2>3 DEF BCTInv, TableTypes
  <2> QED
    BY <2>3, <2>4, TableStays, NothingRan
<1>4. CASE BCT!CombineNext
  <2> DEFINE b == combining.block
             i == combining.index
  <2>1. b \in BCT!Blocks /\ i \in 0..MaxLength
    BY DEF BCTInv, TableTypes
  <2>2. BCT!Nothing \in [block : BCT!Blocks, index : 0..MaxLength]
    <3>1. 0 \in BCT!Blocks /\ MaxLength \in 0..MaxLength
      BY DEF BCT!Blocks
    <3> QED
      BY <3>1 DEF BCT!Nothing
  <2>3. CASE i < length[b]
    <3>1. i \in Slots /\ i + 1 \in 0..MaxLength
      BY <2>1, <2>3 DEF BCTInv, TableTypes, Slots
    <3>2. /\ BCT!Despatch(b, i)
          /\ combining' = BCT!Nothing \/ combining' = [combining EXCEPT !.index = i + 1]
          /\ master' = master /\ registered' = registered
      BY <1>4, <2>3 DEF BCT!CombineNext
    <3>3. combining' \in [block : BCT!Blocks, index : 0..MaxLength]
      BY <2>2, <3>1, <3>2 DEF BCTInv, TableTypes
    <3>4. BCTRest
      BY <3>2, <3>3 DEF BCTRest, BCTInv, TableTypes
    <3> QED
      BY <2>1, <2>3, <3>1, <3>2, <3>4, DespatchKeeps, DespatchUncleared
  <2>4. CASE ~(i < length[b])
    <3>1. /\ combining' = BCT!Nothing /\ ran' = BCT!NoneRan
          /\ UNCHANGED <<pos, is_active, length, cmds, cleared>>
          /\ master' = master /\ registered' = registered
      BY <1>4, <2>4 DEF BCT!CombineNext, BCT!table
    <3>2. BCTRest /\ pos' \in Position /\ is_active' \in [BCT!Blocks -> BOOLEAN]
      BY <2>2, <3>1 DEF BCTRest, BCTInv, TableTypes
    <3> QED
      BY <3>1, <3>2, TableStays, NothingRan
  <2> QED
    BY <2>3, <2>4
<1>5. CASE BCT!Edit
  <2>1. BCTRest /\ ran' = BCT!NoneRan
    BY <1>5 DEF BCT!Edit, BCTRest, BCTInv, TableTypes
  <2>2. CASE \E b \in BCT!Blocks : BCT!BCT_clear_block(b)
    BY <2>1, <2>2, ClearKeeps, NothingRan
  <2>3. CASE \E b \in BCT!Blocks, i \in 0..(MaxLength - 1) : BCT!BCT_set_position(b, i)
    <3>1. PICK b \in BCT!Blocks, i \in 0..(MaxLength - 1) : BCT!BCT_set_position(b, i)
      BY <2>3
    <3>2. pos' \in Position /\ UNCHANGED <<is_active, length, cmds, cleared>>
      BY <3>1 DEF BCT!BCT_set_position, Position
    <3>3. is_active' \in [BCT!Blocks -> BOOLEAN]
      BY <3>2 DEF BCTInv, TableTypes
    <3> QED
      BY <2>1, <3>2, <3>3, TableStays, NothingRan
  <2>4. CASE BCT!BCT_activate_block
    <3>1. /\ UNCHANGED <<pos, length, cmds, cleared>>
          /\ is_active' = [is_active EXCEPT ![pos.block] = TRUE]
      BY <2>4 DEF BCT!BCT_activate_block
    <3>2. pos' \in Position /\ is_active' \in [BCT!Blocks -> BOOLEAN]
      BY <3>1 DEF BCTInv, TableTypes
    <3> QED
      BY <2>1, <3>1, <3>2, TableStays, NothingRan
  <2> QED
    BY <1>5, <2>2, <2>3, <2>4 DEF BCT!Edit
<1>6. CASE BCT!Register
  BY <1>6, RegisterKeeps, NothingRan DEF BCT!Register
<1> QED
  BY <1>1, <1>2, <1>3, <1>4, <1>5, <1>6 DEF BCT!Next, BCT!RunBlock

LEMMA BCTUnchanged ==
    ASSUME BCTInv, UNCHANGED bctVars
    PROVE  BCTInv'
BY DEF bctVars, BCTInv, TableTypes, ClearedBefore, NoneStale

LEMMA BCTAlways == AppsSpec => []BCTInv
<1>1. AppsInit => BCTInv
  BY BCTInit DEF AppsInit
<1>2. BCTInv /\ [AppsNext]_appsVars => BCTInv'
  BY PartSteps, TableSteps, BCTUnchanged
<1> QED
  BY <1>1, <1>2, PTL DEF AppsSpec

(* No command of a block runs that was registered before the block was last cleared:        *)
(* for every number and length of the blocks, and however edits, rotation and the           *)
(* combination of blocks that clear blocks are interleaved (BlockCommandTable.cpp:144-196).  *)
THEOREM RunsFresh == AppsSpec => NoStaleCommand
<1>1. BCTInv /\ [AppsNext]_appsVars => [BCT!RunsUncleared]_bctVars
  BY PartSteps, TableSteps
<1> QED
  BY <1>1, BCTAlways, PTL DEF AppsSpec, NoStaleCommand

-------------------------------------------------------------------------------
(* Arithmetic: products and quotients by a constant that is not known. *)

LEMMA DivMod ==
    ASSUME NEW a \in Nat, NEW d \in Nat \ {0}
    PROVE  /\ a \div d \in Nat /\ a % d \in Nat /\ a % d < d
           /\ a = d * (a \div d) + (a % d)
OBVIOUS

LEMMA Spread ==
    ASSUME NEW k \in Int, NEW a \in Int, NEW b \in Int
    PROVE  k * a \in Int /\ k * (a + b) = k * a + k * b /\ k * (a - b) = k * a - k * b
OBVIOUS

LEMMA Balanced == \A a, b, c, d \in Int : (a + d) - ((b + d) + c) = a - (b + c)
OBVIOUS

LEMMA Cancel ==
    ASSUME NEW k \in Nat \ {0}, NEW a \in Int, NEW b \in Int, k * a < k * b
    PROVE  a < b
<1> SUFFICES ASSUME a - b \in Nat PROVE FALSE
  OBVIOUS
<1>1. k * (a - b) = k * a - k * b /\ k * a \in Int /\ k * b \in Int
  BY Spread
<1>2. \A x \in Nat : k * x \in Nat
  OBVIOUS
<1>3. k * (a - b) \in Nat
  BY <1>2
<1> QED
  BY <1>1, <1>3

LEMMA QuotientOfProduct ==
    ASSUME NEW d \in Nat \ {0}, NEW a \in Nat
    PROVE  (d * a) \div d = a
<1> DEFINE p == d * a
           q == p \div d
           r == p % d
<1>1. p \in Nat /\ d * a = p
  OBVIOUS
<1> HIDE DEF p
<1>2. q \in Nat /\ r \in Nat /\ r < d /\ p = d * q + r
  BY <1>1, DivMod
<1> HIDE DEF q, r
<1>3. d * q \in Int /\ d * (q + 1) = d * q + d * 1 /\ d * (a + 1) = d * a + d * 1 /\ d * 1 = d
  BY <1>2, Spread
<1>4. d * a < d * (q + 1) /\ d * q < d * (a + 1)
  BY <1>1, <1>2, <1>3
<1>5. a < q + 1 /\ q < a + 1
  BY <1>2, <1>4, Cancel
<1> QED
  BY <1>2, <1>5 DEF q

-------------------------------------------------------------------------------
(* The two times of the satellite. *)

LEMMA ClockNats ==
    /\ Word \in Nat \ {0} /\ CycleMs \in Nat \ {0} /\ SecondMs \in Nat \ {0}
    /\ MaxCycle \in Nat \ {0} /\ Start \in Nat /\ SecondMs % CycleMs = 0
BY ApplicationsAssumption DEF CLK!ClockConstants

LEMMA CyclesOfSecond ==
    /\ CLK!PerSecond \in Nat \ {0}
    /\ \A x \in Int : SecondMs * x = CycleMs * (CLK!PerSecond * x)
<1>1. CLK!PerSecond \in Nat /\ SecondMs = CycleMs * CLK!PerSecond
  BY ClockNats, DivMod DEF CLK!PerSecond
<1>2. CLK!PerSecond # 0
  BY <1>1, ClockNats
<1> QED
  BY <1>1, <1>2, ClockNats

(* The milliseconds of a cycle, the overflows before it, and its seconds. *)
LEMMA Milliseconds ==
    ASSUME NEW m \in Nat
    PROVE  /\ Ms(m) \in Nat /\ Ms(m) < Word /\ CLK!Turns(m) \in Nat
           /\ CycleMs * m = Word * CLK!Turns(m) + Ms(m)
           /\ CLK!OBCT_cycle2sec(m) \in Nat
           /\ SecondMs * CLK!OBCT_cycle2sec(m) <= Ms(m)
           /\ Ms(m) < SecondMs * CLK!OBCT_cycle2sec(m) + SecondMs
<1>1. CycleMs * m \in Nat
  BY ClockNats
<1>2. Ms(m) \in Nat /\ Ms(m) < Word /\ CLK!Turns(m) \in Nat
      /\ CycleMs * m = Word * CLK!Turns(m) + Ms(m)
  BY <1>1, ClockNats, DivMod DEF Ms, CLK!Turns
<1>3. CLK!OBCT_cycle2sec(m) = Ms(m) \div SecondMs
  BY DEF CLK!OBCT_cycle2sec, Ms
<1>4. /\ CLK!OBCT_cycle2sec(m) \in Nat /\ Ms(m) % SecondMs \in Nat /\ Ms(m) % SecondMs < SecondMs
      /\ Ms(m) = SecondMs * CLK!OBCT_cycle2sec(m) + (Ms(m) % SecondMs)
  <2>1. Ms(m) \in Nat /\ SecondMs \in Nat \ {0}
    BY <1>2, ClockNats
  <2>2. /\ Ms(m) \div SecondMs \in Nat /\ Ms(m) % SecondMs \in Nat
        /\ Ms(m) % SecondMs < SecondMs
        /\ Ms(m) = SecondMs * (Ms(m) \div SecondMs) + (Ms(m) % SecondMs)
    BY <2>1, DivMod
  <2> QED
    BY <1>3, <2>2
<1>5. SecondMs * CLK!OBCT_cycle2sec(m) \in Int
  BY <1>4, ClockNats
<1> QED
  BY <1>2, <1>4, <1>5, ClockNats

LEMMA AtZero == CLK!Turns(0) = 0 /\ CLK!OBCT_cycle2sec(0) = 0 /\ Ms(0) = 0
<1>1. CycleMs * 0 = 0
  BY ClockNats
<1>2. \A d \in Nat \ {0} : 0 \div d = 0 /\ 0 % d = 0
  OBVIOUS
<1> QED
  BY <1>1, <1>2, ClockNats DEF CLK!Turns, CLK!OBCT_cycle2sec, Ms

(* The next cycle is later by its length, or the milliseconds have overflowed. *)
LEMMA NextCycle ==
    ASSUME NEW m \in Nat
    PROVE  /\ CLK!Turns(m) <= CLK!Turns(m + 1)
           /\ CLK!Turns(m) = CLK!Turns(m + 1) => Ms(m + 1) = Ms(m) + CycleMs
<1> DEFINE s == CLK!Turns(m)
           t == CLK!Turns(m + 1)
<1>1. /\ s \in Nat /\ t \in Nat /\ Ms(m) \in Nat /\ Ms(m + 1) \in Nat /\ Ms(m + 1) < Word
      /\ CycleMs * m = Word * s + Ms(m)
      /\ CycleMs * (m + 1) = Word * t + Ms(m + 1)
  BY Milliseconds, m + 1 \in Nat
<1>2. CycleMs * (m + 1) = CycleMs * m + CycleMs
  BY ClockNats, Spread
<1> HIDE DEF s, t
<1>3. Word * s \in Int /\ Word * t \in Int /\ Word * (t + 1) = Word * t + Word
  BY <1>1, ClockNats, Spread
<1>4. Word * s < Word * (t + 1)
  BY <1>1, <1>2, <1>3, ClockNats
<1>5. s < t + 1
  BY <1>1, <1>4, ClockNats, Cancel
<1>6. s = t => Ms(m + 1) = Ms(m) + CycleMs
  <2> SUFFICES ASSUME s = t PROVE Ms(m + 1) = Ms(m) + CycleMs
    OBVIOUS
  <2>1. Word * s = Word * t
    OBVIOUS
  <2> QED
    BY <1>1, <1>2, <1>3, <2>1, ClockNats
<1> QED
  BY <1>1, <1>5, <1>6 DEF s, t

(* The true second of a time in cycles. *)
LEMMA TrueSecond ==
    ASSUME NEW n \in Nat
    PROVE  /\ n \div CLK!PerSecond \in Nat
           /\ CLK!PerSecond * (n \div CLK!PerSecond) <= n
           /\ n < CLK!PerSecond * (n \div CLK!PerSecond + 1)
<1> DEFINE q == n \div CLK!PerSecond
<1>1. /\ q \in Nat /\ n % CLK!PerSecond \in Nat /\ n % CLK!PerSecond < CLK!PerSecond
      /\ n = CLK!PerSecond * q + (n % CLK!PerSecond)
  BY CyclesOfSecond, DivMod
<1> HIDE DEF q
<1>2. CLK!PerSecond * q \in Int
      /\ CLK!PerSecond * (q + 1) = CLK!PerSecond * q + CLK!PerSecond
  BY <1>1, CyclesOfSecond, Spread
<1> QED
  BY <1>1, <1>2, CyclesOfSecond DEF q

LEMMA Grows ==
    ASSUME NEW k \in Nat \ {0}, NEW a \in Int, NEW b \in Int
    PROVE  (a <= b => k * a <= k * b) /\ (a < b => k * a < k * b)
<1>1. k * a \in Int /\ k * b \in Int
  BY Spread
<1>2. k * b < k * a => b < a
  BY Cancel
<1>3. a < b => k * a # k * b
  <2> SUFFICES ASSUME a < b, k * a = k * b PROVE FALSE
    OBVIOUS
  <2>1. k * (b - a) = k * b - k * a
    BY Spread
  <2>2. \A x \in Nat \ {0} : k * x # 0
    OBVIOUS
  <2> QED
    BY <1>1, <2>1, <2>2
<1> QED
  BY <1>1, <1>2, <1>3

(* The milliseconds of a time, between those of its second and of the next. *)
LEMMA TrueMilliseconds ==
    ASSUME NEW n \in Nat
    PROVE  LET u == n \div CLK!PerSecond
           IN  SecondMs * u <= CycleMs * n /\ CycleMs * n < SecondMs * u + SecondMs
<1> DEFINE u == n \div CLK!PerSecond
<1>1. u \in Nat /\ CLK!PerSecond * u <= n /\ n < CLK!PerSecond * (u + 1)
  BY TrueSecond
<1> HIDE DEF u
<1>2. /\ CLK!PerSecond * u \in Int /\ CLK!PerSecond * (u + 1) \in Int /\ u + 1 \in Int
      /\ SecondMs * u = CycleMs * (CLK!PerSecond * u)
      /\ SecondMs * (u + 1) = CycleMs * (CLK!PerSecond * (u + 1))
  BY <1>1, CyclesOfSecond, Spread
<1>3. SecondMs * u <= CycleMs * n /\ CycleMs * n < SecondMs * (u + 1)
  BY <1>1, <1>2, ClockNats, Grows
<1>4. SecondMs * (u + 1) = SecondMs * u + SecondMs
  BY <1>1, ClockNats, Spread
<1> QED
  BY <1>3, <1>4 DEF u

(* The clock as it is set to a second u. *)
LEMMA SyncedRight ==
    ASSUME NEW n \in Nat, NEW m \in Nat, NEW u \in Int, u = n \div CLK!PerSecond
    PROVE  /\ -SecondMs < Off(n, m, CLK!Synced(u, m))
           /\ Off(n, m, CLK!Synced(u, m)) < SecondMs
<1> DEFINE s == CLK!OBCT_cycle2sec(m)
<1>1. /\ s \in Nat /\ Ms(m) \in Nat
      /\ SecondMs * s <= Ms(m) /\ Ms(m) < SecondMs * s + SecondMs
  BY Milliseconds
<1>2. SecondMs * u <= CycleMs * n /\ CycleMs * n < SecondMs * u + SecondMs
  BY TrueMilliseconds
<1>3. CLK!Synced(u, m) = u - s
  BY DEF CLK!Synced
<1> HIDE DEF s
<1>4. /\ SecondMs * (u - s) = SecondMs * u - SecondMs * s
      /\ SecondMs * u \in Int /\ SecondMs * s \in Int /\ CycleMs * n \in Int
  <2>1. SecondMs \in Int /\ CycleMs \in Int /\ u \in Int /\ s \in Int /\ n \in Int
    BY <1>1, ClockNats
  <2>2. SecondMs * (u - s) = SecondMs * u - SecondMs * s
    BY <2>1, Spread
  <2>3. SecondMs * u \in Int /\ SecondMs * s \in Int
    BY <2>1, Spread
  <2>4. CycleMs * n \in Int
    BY <2>1, Spread
  <2> QED
    BY <2>2, <2>3, <2>4
<1>5. Off(n, m, CLK!Synced(u, m)) = CycleMs * n - (Ms(m) + (SecondMs * u - SecondMs * s))
  BY <1>3, <1>4 DEF Off
<1> QED
  BY <1>1, <1>2, <1>4, <1>5, ClockNats

(* A clock that is not off by a second tells the second or its neighbour. *)
LEMMA TellsSecond ==
    ASSUME NEW n \in Nat, NEW m \in Nat, NEW i \in Int,
           -SecondMs < Off(n, m, i), Off(n, m, i) < SecondMs
    PROVE  CLK!OBCT_cycle2sec(m) + i - n \div CLK!PerSecond \in -1..1
<1> DEFINE s == CLK!OBCT_cycle2sec(m)
           u == n \div CLK!PerSecond
<1>1. /\ s \in Nat /\ Ms(m) \in Nat
      /\ SecondMs * s <= Ms(m) /\ Ms(m) < SecondMs * s + SecondMs
  BY Milliseconds
<1>2. u \in Nat /\ SecondMs * u <= CycleMs * n /\ CycleMs * n < SecondMs * u + SecondMs
  BY TrueMilliseconds, TrueSecond
<1> HIDE DEF s, u
<1>3. /\ SecondMs * u \in Int /\ SecondMs * s \in Int /\ SecondMs * i \in Int /\ CycleMs * n \in Int
      /\ SecondMs * (s + i) = SecondMs * s + SecondMs * i /\ SecondMs * (s + i) \in Int
  BY <1>1, <1>2, ClockNats, Spread
<1>4. /\ SecondMs * (u + 2) = SecondMs * u + 2 * SecondMs
      /\ SecondMs * (s + i + 2) = SecondMs * (s + i) + 2 * SecondMs
  BY <1>1, <1>2, ClockNats, Spread, SecondMs * 2 = 2 * SecondMs
<1>5. SecondMs * (s + i) < SecondMs * (u + 2) /\ SecondMs * u < SecondMs * (s + i + 2)
  BY <1>1, <1>2, <1>3, <1>4, ClockNats DEF Off
<1>6. s + i < u + 2 /\ u < s + i + 2
  BY <1>1, <1>2, <1>5, ClockNats, Cancel
<1> QED
  BY <1>1, <1>2, <1>6 DEF s, u

LEMMA CLKInit ==
    ASSUME CLK!Init
    PROVE  CLKInv
<1>1. 0 \in 0..(MaxCycle - 1)
  BY ClockNats
<1>2. CLK!PerSecond * Start \in Nat
  BY CyclesOfSecond, ClockNats
<1>3. ClockTypes
  BY <1>1, <1>2 DEF CLK!Init, ClockTypes
<1> QED
  BY <1>3, AtZero DEF CLK!Init, CLKInv, EraPast, SetRight, WaitsRight

LEMMA MasterNat ==
    ASSUME ClockTypes
    PROVE  clk_master \in Nat
BY ClockNats DEF ClockTypes

(* The time is set, at the cycle m and the true time n. *)
LEMMA SyncKeeps ==
    ASSUME ClockTypes, EraPast,
           NEW m \in 0..(MaxCycle - 1), clk_master' = m, NEW n \in Nat, now' = n,
           NEW u \in Nat, NEW right \in BOOLEAN, right => u = n \div CLK!PerSecond,
           ~(u < CLK!OBCT_cycle2sec(m)),
           CLK!TMGR_sync_OBC_time(u, m, right)
    PROVE  /\ initial_utime' \in Int /\ utime' \in Int /\ era' \in Int
           /\ EraPast' /\ SetRight'
<1> DEFINE s == CLK!OBCT_cycle2sec(m)
           i == CLK!Synced(u, m)
<1>1. m \in Nat
  BY ClockNats
<1>2. s \in Nat /\ CLK!Turns(m) \in Nat
  BY <1>1, Milliseconds
<1>3. i \in Int /\ s + i \in Int
  BY <1>2 DEF CLK!Synced
<1>4. /\ initial_utime' = i /\ utime' = s + i
      /\ era' = IF right THEN CLK!Turns(m) ELSE -1
  BY DEF CLK!TMGR_sync_OBC_time
<1>5. right => -SecondMs < Off(n, m, i) /\ Off(n, m, i) < SecondMs
  BY <1>1, SyncedRight
<1> HIDE DEF s, i
<1>6. CLK!Turns(clk_master)' = CLK!Turns(m)
      /\ CLK!OBCT_cycle2sec(clk_master)' = s
      /\ Off(now, clk_master, initial_utime)' = Off(n, m, i)
  BY <1>4 DEF s, CLK!Turns, CLK!OBCT_cycle2sec, Off, Ms
<1>7. EraPast'
  BY <1>2, <1>4, <1>6 DEF EraPast
<1>8. SetRight'
  <2> SUFFICES ASSUME era' = CLK!Turns(m)
               PROVE  /\ utime' = s + i
                      /\ -SecondMs < Off(n, m, i) /\ Off(n, m, i) < SecondMs
    BY <1>4, <1>6 DEF SetRight
  <2>1. right
    BY <1>2, <1>4
  <2> QED
    BY <1>4, <1>5, <2>1
<1>9. initial_utime' \in Int /\ utime' \in Int
  BY <1>3, <1>4
<1>10. era' \in Int
  <2>1. era' = CLK!Turns(m) \/ era' = -1
    BY <1>4
  <2> QED
    BY <1>2, <2>1
<1> QED
  BY <1>7, <1>8, <1>9, <1>10

(* Time that stays true to the cycles, or waits that are no longer vouched for. *)
LEMMA UnsoundWaits ==
    ASSUME ClockTypes, clk_timeline' = CLK!Unsound(clk_timeline)
    PROVE  clk_timeline' \subseteq Wait /\ WaitsRight'
<1> SUFFICES ASSUME NEW c \in clk_timeline' PROVE c \in Wait /\ c.sound = FALSE
  BY DEF WaitsRight
<1>1. PICK d \in clk_timeline : c = [d EXCEPT !.sound = FALSE]
  BY DEF CLK!Unsound
<1>2. d \in Wait
  BY DEF ClockTypes
<1> QED
  BY <1>1, <1>2 DEF Wait

LEMMA CountUpKeeps ==
    ASSUME CLKInv, CLK!TMGR_count_up
    PROVE  CLKInv'
<1>1. /\ now' = now + 1 /\ initial_utime' = initial_utime
      /\ clk_master' = (clk_master + 1) % MaxCycle
      /\ utime' = CLK!OBCT_cycle2sec(clk_master') + initial_utime
      /\ era' = IF clk_master' = 0 THEN -1 ELSE era
      /\ clk_timeline' = IF clk_master' = 0 THEN CLK!Unsound(clk_timeline) ELSE clk_timeline
      /\ CLK!Due = {}
  BY DEF CLK!TMGR_count_up
<1>2. /\ ClockTypes /\ EraPast /\ SetRight /\ WaitsRight
      /\ clk_master \in 0..(MaxCycle - 1) /\ clk_master \in Nat /\ now \in Nat /\ era \in Int
      /\ initial_utime \in Int
  BY MasterNat DEF CLKInv, ClockTypes
<1>3. (clk_master + 1) % MaxCycle =
          IF clk_master + 1 = MaxCycle THEN 0 ELSE clk_master + 1
  <2>1. \A k \in Nat \ {0} : \A x \in 0..(k - 1) : x % k = x
    OBVIOUS
  <2>2. \A k \in Nat \ {0} : k % k = 0
    OBVIOUS
  <2> QED
    BY <1>2, <2>1, <2>2, ClockNats
<1>4. clk_master' \in 0..(MaxCycle - 1) /\ clk_master' \in Nat
  BY <1>1, <1>2, <1>3, ClockNats
<1>5. CLK!OBCT_cycle2sec(clk_master') \in Nat
  BY <1>4, Milliseconds
<1>6. utime' \in Int /\ now' \in Nat /\ era' \in Int
  BY <1>1, <1>2, <1>5
<1>7. CLK!OBCT_cycle2sec(clk_master)' = CLK!OBCT_cycle2sec(clk_master')
      /\ CLK!Turns(clk_master)' = CLK!Turns(clk_master')
      /\ Off(now, clk_master, initial_utime)' = Off(now + 1, clk_master', initial_utime)
  BY <1>1 DEF CLK!OBCT_cycle2sec, CLK!Turns, Off, Ms
<1>8. CASE clk_master' = 0
  <2>1. clk_timeline' \subseteq Wait /\ WaitsRight'
    BY <1>1, <1>2, <1>8, UnsoundWaits
  <2>2. EraPast' /\ SetRight'
    BY <1>1, <1>7, <1>8, AtZero DEF EraPast, SetRight
  <2>3. ClockTypes'
    BY <1>1, <1>2, <1>4, <1>6, <2>1 DEF ClockTypes
  <2> QED
    BY <2>1, <2>2, <2>3 DEF CLKInv
<1>9. CASE clk_master' # 0
  <2>1. clk_master' = clk_master + 1 /\ era' = era /\ clk_timeline' = clk_timeline
    BY <1>1, <1>3, <1>9
  <2>2. ClockTypes'
    BY <1>1, <1>2, <1>4, <1>6, <2>1 DEF ClockTypes
  <2>3. /\ CLK!Turns(clk_master) \in Nat /\ CLK!Turns(clk_master + 1) \in Nat
        /\ CLK!Turns(clk_master) <= CLK!Turns(clk_master + 1)
        /\ CLK!Turns(clk_master) = CLK!Turns(clk_master + 1) =>
              Ms(clk_master + 1) = Ms(clk_master) + CycleMs
    BY <1>2, NextCycle, Milliseconds, clk_master + 1 \in Nat
  <2>4. EraPast'
    BY <1>2, <1>7, <2>1, <2>3 DEF EraPast
  <2>5. SetRight'
    <3> SUFFICES ASSUME era = CLK!Turns(clk_master + 1)
                 PROVE  /\ -SecondMs < Off(now + 1, clk_master + 1, initial_utime)
                        /\ Off(now + 1, clk_master + 1, initial_utime) < SecondMs
      BY <1>1, <1>7, <2>1 DEF SetRight
    <3>1. era = CLK!Turns(clk_master)
      BY <1>2, <2>3 DEF EraPast
    <3>2. Ms(clk_master + 1) = Ms(clk_master) + CycleMs
      BY <2>3, <3>1
    <3>3. CycleMs * (now + 1) = CycleMs * now + CycleMs /\ CycleMs * now \in Int
      BY <1>2, ClockNats, Spread
    <3>4. SecondMs * initial_utime \in Int /\ Ms(clk_master) \in Nat
      <4>1. initial_utime \in Int /\ clk_master \in Nat
        BY <1>2
      <4>2. SecondMs \in Int
        BY ClockNats
      <4>3. SecondMs * initial_utime \in Int
        BY <4>1, <4>2, Spread
      <4> QED
        BY <4>1, <4>3, Milliseconds
    <3>5. Off(now + 1, clk_master + 1, initial_utime) = Off(now, clk_master, initial_utime)
      <4>1. CycleMs \in Int /\ Ms(clk_master) \in Int
        <5>1. CycleMs \in Int
          BY ClockNats
        <5>2. Ms(clk_master) \in Nat
          BY <1>2, Milliseconds
        <5> QED
          BY <5>1, <5>2
      <4> DEFINE p == CycleMs * now
                 q == SecondMs * initial_utime
      <4>2. p \in Int /\ q \in Int
        BY <3>3, <3>4
      <4>3. Off(now + 1, clk_master + 1, initial_utime)
                = (p + CycleMs) - ((Ms(clk_master) + CycleMs) + q)
        BY <3>2, <3>3 DEF Off
      <4>4. Off(now, clk_master, initial_utime) = p - (Ms(clk_master) + q)
        BY DEF Off
      <4> HIDE DEF p, q
      <4> QED
        BY <4>1, <4>2, <4>3, <4>4, Balanced
    <3> QED
      BY <1>2, <3>1, <3>5 DEF SetRight
  <2>6. WaitsRight'
    <3> SUFFICES ASSUME NEW c \in clk_timeline, c.sound
                 PROVE  LET then == now' + c.at - clk_master'
                        IN  /\ c.at >= clk_master'
                            /\ CLK!PerSecond * (c.utime - 1) < then
                            /\ then < CLK!PerSecond * (c.utime + 1)
      BY <2>1 DEF WaitsRight
    <3>1. c.at \in Nat
      BY <1>2 DEF ClockTypes, Wait
    <3>2. ~(c.at <= clk_master)
      BY <1>1 DEF CLK!Due
    <3>3. now' + c.at - clk_master' = now + c.at - clk_master
      BY <1>1, <1>2, <2>1, <3>1
    <3> QED
      BY <1>2, <2>1, <3>1, <3>2, <3>3 DEF WaitsRight
  <2> QED
    BY <2>2, <2>4, <2>5, <2>6 DEF CLKInv
<1> QED
  BY <1>8, <1>9

(* The cycle that a command of the ground waits for. *)
LEMMA RegisteredRight ==
    ASSUME ClockTypes, SetRight,
           NEW u \in Int, NEW at, at = CLK!OBCT_utime2cycle(u, initial_utime), at >= clk_master,
           era = 0, CLK!Turns(clk_master) = 0, u >= CLK!NowSec,
           SecondMs * (u - initial_utime) < Word
    PROVE  /\ CLK!PerSecond * (u - 1) < now + at - clk_master
           /\ now + at - clk_master < CLK!PerSecond * (u + 1)
<1> DEFINE i == initial_utime
           m == clk_master
           n == now
           p == CLK!PerSecond
<1>1. m \in Nat /\ i \in Int /\ n \in Nat /\ p \in Nat \ {0} /\ u - i \in Int
  BY MasterNat, CyclesOfSecond DEF ClockTypes
(* In cycles, the clock is off by less than a second. *)
<1>2. -p < n - m - p * i /\ n - m - p * i < p
  <2>1. -SecondMs < Off(n, m, i) /\ Off(n, m, i) < SecondMs
    BY DEF SetRight
  <2> HIDE DEF i, m, n, p
  <2>2. Ms(m) = CycleMs * m
    <3>1. Ms(m) \in Nat /\ CycleMs * m = Word * CLK!Turns(m) + Ms(m)
      BY <1>1, Milliseconds
    <3>2. CLK!Turns(m) = 0 /\ Word * 0 = 0
      BY ClockNats DEF m
    <3> QED
      BY <3>1, <3>2
  <2>3. SecondMs * i = CycleMs * (p * i) /\ SecondMs = CycleMs * p
    <3>1. SecondMs * i = CycleMs * (p * i)
      BY <1>1, CyclesOfSecond DEF p
    <3>2. SecondMs * 1 = CycleMs * (p * 1) /\ SecondMs * 1 = SecondMs /\ p * 1 = p
      BY <1>1, CyclesOfSecond, ClockNats DEF p
    <3> QED
      BY <3>1, <3>2
  <2>4. p * i \in Int /\ CycleMs \in Int /\ CycleMs \in Nat \ {0}
    BY <1>1, Spread, ClockNats
  <2> DEFINE x == p * i
  <2>5. x \in Int
    BY <2>4
  <2>6. Off(n, m, i) = CycleMs * n - (CycleMs * m + CycleMs * x)
    BY <2>2, <2>3 DEF Off
  <2> HIDE DEF x
  <2>7. /\ CycleMs * (m + x) = CycleMs * m + CycleMs * x
        /\ CycleMs * (m + x + p) = CycleMs * (m + x) + CycleMs * p
        /\ CycleMs * (n + p) = CycleMs * n + CycleMs * p
        /\ CycleMs * m \in Int /\ CycleMs * x \in Int /\ CycleMs * n \in Int /\ CycleMs * p \in Int
    <3>1. m \in Int /\ n \in Int /\ p \in Int /\ m + x \in Int
      BY <1>1, <2>5
    <3> QED
      BY <2>4, <2>5, <3>1, Spread
  <2>8. CycleMs * n < CycleMs * (m + x + p) /\ CycleMs * (m + x) < CycleMs * (n + p)
    BY <2>1, <2>3, <2>6, <2>7
  <2>9. n < m + x + p /\ m + x < n + p
    BY <1>1, <2>4, <2>5, <2>8, Cancel
  <2> QED
    BY <1>1, <2>5, <2>9 DEF x
<1>3. CASE u < i
  <2>1. at = 0 /\ m = 0
    BY <1>1, <1>3 DEF CLK!OBCT_utime2cycle
  <2>2. n < p * (u + 1)
    <3>1. n \div p \in Nat /\ n < p * (n \div p + 1)
      BY <1>1, TrueSecond
    <3>2. n \div p <= u
      BY DEF CLK!NowSec
    <3>3. p * (n \div p + 1) <= p * (u + 1)
      <4> DEFINE q == n \div p
      <4>1. q \in Nat /\ q <= u
        BY <3>1, <3>2
      <4> HIDE DEF q
      <4>2. q + 1 \in Int /\ u + 1 \in Int /\ q + 1 <= u + 1
        BY <4>1
      <4>3. p * (q + 1) <= p * (u + 1)
        BY <1>1, <4>2, Grows
      <4> QED
        BY <4>3 DEF q
    <3>4. p * (n \div p + 1) \in Int /\ p * (u + 1) \in Int
      BY <1>1, <3>1, Spread
    <3> QED
      BY <1>1, <3>1, <3>3, <3>4
  <2>3. p * (u - 1) < n
    <3> HIDE DEF i, p
    <3>1. p * (u + 1) <= p * i /\ p * (u - 1) < p * (u + 1)
      BY <1>1, <1>3, Grows
    <3>2. p * (u + 1) = p * u + p /\ p * (u - 1) = p * u - p /\ p * u \in Int /\ p * i \in Int
      <4>1. p * 1 = p /\ p \in Int /\ 1 \in Int
        BY <1>1
      <4> QED
        BY <1>1, <4>1, Spread
    <3> QED
      BY <1>1, <1>2, <2>1, <3>1, <3>2
  <2> QED
    BY <1>1, <2>1, <2>2, <2>3
<1>4. CASE ~(u < i)
  <2>1. at = p * (u - i)
    <3>1. u - i \in Nat /\ SecondMs * (u - i) \in Nat
      BY <1>1, <1>4, ClockNats
    <3>2. (SecondMs * (u - i)) % Word = SecondMs * (u - i)
      <4>1. \A k \in Nat \ {0} : \A x \in Nat : x < k => x % k = x
        OBVIOUS
      <4> QED
        BY <3>1, <4>1, ClockNats
    <3>3. SecondMs * (u - i) = CycleMs * (p * (u - i)) /\ p * (u - i) \in Nat
      BY <1>1, <3>1, CyclesOfSecond
    <3>4. (CycleMs * (p * (u - i))) \div CycleMs = p * (u - i)
      BY <3>3, ClockNats, QuotientOfProduct
    <3>5. at = ((SecondMs * (u - i)) % Word) \div CycleMs
      BY <1>4 DEF CLK!OBCT_utime2cycle
    <3> QED
      BY <3>2, <3>3, <3>4, <3>5
  <2> HIDE DEF i, m, n, p
  <2>2. /\ p * (u - i) = p * u - p * i /\ p * (u + 1) = p * u + p /\ p * (u - 1) = p * u - p
        /\ p * u \in Int /\ p * i \in Int
    <3>1. p * 1 = p /\ p \in Int /\ 1 \in Int
      BY <1>1
    <3> QED
      BY <1>1, <3>1, Spread
  <2>3. p * (u - 1) < n + at - m /\ n + at - m < p * (u + 1)
    BY <1>1, <1>2, <2>1, <2>2
  <2> QED
    BY <2>3 DEF m, n, p
<1> QED
  BY <1>3, <1>4

LEMMA RegisterWaits ==
    ASSUME CLKInv, CLK!Register
    PROVE  CLKInv'
<1>1. /\ ClockTypes /\ EraPast /\ SetRight /\ WaitsRight
      /\ clk_master \in Nat /\ now \in Nat /\ initial_utime \in Int
  BY MasterNat DEF CLKInv, ClockTypes
<1>2. CLK!NowSec \in Nat
  BY <1>1, TrueSecond DEF CLK!NowSec
<1>3. PICK u \in (CLK!NowSec - 1)..(CLK!NowSec + Ahead) :
        /\ CLK!OBCT_utime2cycle(u, initial_utime) >= clk_master
        /\ clk_timeline' = clk_timeline \cup
              {[at |-> CLK!OBCT_utime2cycle(u, initial_utime), utime |-> u,
                sound |-> /\ era = 0 /\ CLK!Turns(clk_master) = 0 /\ u >= CLK!NowSec
                          /\ SecondMs * (u - initial_utime) < Word]}
  BY DEF CLK!Register
<1> DEFINE at == CLK!OBCT_utime2cycle(u, initial_utime)
           vouched == /\ era = 0 /\ CLK!Turns(clk_master) = 0 /\ u >= CLK!NowSec
                      /\ SecondMs * (u - initial_utime) < Word
           new == [at |-> at, utime |-> u, sound |-> vouched]
<1>4. UNCHANGED <<clk_master, initial_utime, utime, now, era>>
  BY DEF CLK!Register, CLK!clock
<1>5. u \in Int
  BY <1>2
<1>6. at \in Nat
  <2>1. CASE u < initial_utime
    BY <2>1 DEF CLK!OBCT_utime2cycle
  <2>2. CASE ~(u < initial_utime)
    <3>1. u - initial_utime \in Nat
      BY <1>1, <1>5, <2>2
    <3>2. SecondMs * (u - initial_utime) \in Nat
      BY <3>1, ClockNats
    <3>3. (SecondMs * (u - initial_utime)) % Word \in Nat
      BY <3>2, ClockNats, DivMod
    <3> QED
      BY <2>2, <3>3, ClockNats, DivMod DEF CLK!OBCT_utime2cycle
  <2> QED
    BY <2>1, <2>2
<1>7. vouched => /\ CLK!PerSecond * (u - 1) < now + at - clk_master
                 /\ now + at - clk_master < CLK!PerSecond * (u + 1)
  BY <1>1, <1>3, <1>5, RegisteredRight
<1>8. at >= clk_master /\ clk_timeline' = clk_timeline \cup {new} /\ vouched \in BOOLEAN
  BY <1>3
<1> HIDE DEF at, vouched
<1>9. new \in Wait /\ new.at = at /\ new.utime = u /\ new.sound = vouched
  BY <1>5, <1>6, <1>8 DEF Wait
<1> HIDE DEF new
<1>10. ClockTypes'
  BY <1>1, <1>4, <1>8, <1>9 DEF ClockTypes
<1>11. EraPast' /\ SetRight'
  BY <1>1, <1>4 DEF EraPast, SetRight, CLK!Turns, CLK!OBCT_cycle2sec, Off, Ms
<1>12. WaitsRight'
  <2> SUFFICES ASSUME NEW c \in clk_timeline', c.sound
               PROVE  LET then == now + c.at - clk_master
                      IN  /\ c.at >= clk_master
                          /\ CLK!PerSecond * (c.utime - 1) < then
                          /\ then < CLK!PerSecond * (c.utime + 1)
    BY <1>4 DEF WaitsRight
  <2>1. CASE c \in clk_timeline
    BY <1>1, <2>1 DEF WaitsRight
  <2>2. CASE c = new
    <3>1. vouched
      BY <1>9, <2>2
    <3> QED
      BY <1>7, <1>8, <1>9, <2>2, <3>1
  <2> QED
    BY <1>8, <2>1, <2>2
<1> QED
  BY <1>10, <1>11, <1>12 DEF CLKInv

(* The time is set from the ground. *)
LEMMA SyncTimeKeeps ==
    ASSUME CLKInv, CLK!SYNC_TIME, now' = now
    PROVE  CLKInv'
<1>1. /\ ClockTypes /\ EraPast /\ SetRight /\ WaitsRight
      /\ clk_master \in 0..(MaxCycle - 1) /\ clk_master \in Nat /\ now \in Nat
  BY MasterNat DEF CLKInv, ClockTypes
<1>2. clk_master' = clk_master /\ clk_timeline' = clk_timeline
  BY DEF CLK!SYNC_TIME, CLK!clock
<1>3. WaitsRight'
  BY <1>1, <1>2 DEF WaitsRight
<1>4. CASE UNCHANGED <<initial_utime, utime, era>>
  <2>1. ClockTypes' /\ EraPast' /\ SetRight'
    BY <1>1, <1>2, <1>4
       DEF ClockTypes, EraPast, SetRight, CLK!Turns, CLK!OBCT_cycle2sec, Off, Ms
  <2> QED
    BY <1>3, <2>1 DEF CLKInv
<1>5. CASE \E u \in {CLK!NowSec, 0} :
              /\ ~(u < CLK!OBCT_cycle2sec(clk_master))
              /\ CLK!TMGR_sync_OBC_time(u, clk_master, u = CLK!NowSec)
  <2>1. PICK u \in {CLK!NowSec, 0} :
              /\ ~(u < CLK!OBCT_cycle2sec(clk_master))
              /\ CLK!TMGR_sync_OBC_time(u, clk_master, u = CLK!NowSec)
    BY <1>5
  <2>2. CLK!NowSec \in Nat /\ u \in Nat /\ CLK!NowSec = now \div CLK!PerSecond
    BY <1>1, TrueSecond DEF CLK!NowSec
  <2> DEFINE right == (u = CLK!NowSec)
  <2>3. right \in BOOLEAN /\ (right => u = now \div CLK!PerSecond)
    BY <2>2
  <2>4. CLK!TMGR_sync_OBC_time(u, clk_master, right)
    BY <2>1
  <2> HIDE DEF right
  <2>5. initial_utime' \in Int /\ utime' \in Int /\ era' \in Int /\ EraPast' /\ SetRight'
    BY <1>1, <1>2, <2>1, <2>2, <2>3, <2>4, SyncKeeps
  <2>6. ClockTypes'
    BY <1>1, <1>2, <2>5 DEF ClockTypes
  <2> QED
    BY <1>3, <2>5, <2>6 DEF CLKInv
<1> QED
  BY <1>4, <1>5 DEF CLK!SYNC_TIME, CLK!clock, CLK!TMGR_sync_OBC_time

LEMMA SetTimeKeeps ==
    ASSUME CLKInv, CLK!SET_OBC_TIME, now' = now
    PROVE  CLKInv'
<1>1. /\ clk_master' \in 0..(MaxCycle - 1) /\ initial_utime' = 0 /\ era' = -1
      /\ clk_timeline' = CLK!Unsound(clk_timeline) /\ utime' = utime
  BY ClockNats DEF CLK!SET_OBC_TIME
<1>2. clk_timeline' \subseteq Wait /\ WaitsRight'
  BY <1>1, UnsoundWaits DEF CLKInv
<1>3. ClockTypes'
  BY <1>1, <1>2 DEF CLKInv, ClockTypes
<1>4. clk_master' \in Nat
  BY <1>1, ClockNats
<1>5. CLK!Turns(clk_master') \in Nat /\ CLK!Turns(clk_master)' = CLK!Turns(clk_master')
  BY <1>4, Milliseconds DEF CLK!Turns
<1>6. EraPast' /\ SetRight'
  BY <1>1, <1>5 DEF EraPast, SetRight
<1> QED
  BY <1>2, <1>3, <1>6 DEF CLKInv

LEMMA RestartKeepsClock ==
    ASSUME CLKInv, CLK!Restart
    PROVE  CLKInv'
<1>1. PICK down \in 1..CLK!PerSecond : now' = now + down
  BY DEF CLK!Restart
<1>2. now' \in Nat
  BY <1>1, CyclesOfSecond DEF CLKInv, ClockTypes
<1>3. clk_master' = 0 /\ clk_timeline' = {} /\ 0 \in 0..(MaxCycle - 1)
  BY ClockNats DEF CLK!Restart
<1>4. WaitsRight' /\ clk_timeline' \subseteq Wait
  BY <1>3 DEF WaitsRight
<1>5. CASE rtc_sync_ena
  <2> DEFINE right == (rtc = "right")
             n == now'
             u == IF rtc = "right" THEN n \div CLK!PerSecond ELSE 0
  <2>1. CLK!TMGR_sync_OBC_time(u, 0, right)
    BY <1>5 DEF CLK!Restart
  <2>2. u \in Nat /\ (right => u = n \div CLK!PerSecond) /\ right \in BOOLEAN
    BY <1>2, TrueSecond
  <2>3. n \in Nat /\ now' = n
    BY <1>2
  <2> HIDE DEF u, right, n
  <2>4. ~(u < CLK!OBCT_cycle2sec(0))
    BY <2>2, AtZero
  <2>5. initial_utime' \in Int /\ utime' \in Int /\ era' \in Int /\ EraPast' /\ SetRight'
    BY <1>3, <2>1, <2>2, <2>3, <2>4, SyncKeeps DEF CLKInv
  <2>6. ClockTypes'
    BY <1>2, <1>3, <1>4, <2>5 DEF ClockTypes
  <2> QED
    BY <1>4, <2>5, <2>6 DEF CLKInv
<1>6. CASE ~rtc_sync_ena
  <2>1. initial_utime' = 0 /\ utime' = 0 /\ era' = -1
    BY <1>6 DEF CLK!Restart
  <2>2. CLK!Turns(clk_master)' = 0
    BY <1>3, AtZero DEF CLK!Turns
  <2>3. ClockTypes' /\ EraPast' /\ SetRight'
    BY <1>2, <1>3, <1>4, <2>1, <2>2 DEF ClockTypes, EraPast, SetRight
  <2> QED
    BY <1>4, <2>3 DEF CLKInv
<1> QED
  BY <1>5, <1>6

LEMMA ClockStays ==
    ASSUME CLKInv, UNCHANGED <<clk_master, initial_utime, utime, now, era>>,
           clk_timeline' \subseteq clk_timeline
    PROVE  CLKInv'
<1>1. ClockTypes'
  BY DEF CLKInv, ClockTypes
<1>2. EraPast' /\ SetRight'
  BY DEF CLKInv, EraPast, SetRight, CLK!Turns, CLK!OBCT_cycle2sec, Off, Ms
<1>3. WaitsRight'
  BY DEF CLKInv, WaitsRight
<1> QED
  BY <1>1, <1>2, <1>3 DEF CLKInv

LEMMA ClockKept ==
    ASSUME CLKInv, CLK!Next \/ UNCHANGED clkVars
    PROVE  CLKInv'
<1>1. CASE CLK!TMGR_count_up
  BY <1>1, CountUpKeeps
<1>2. CASE CLK!Execute
  BY <1>2, ClockStays DEF CLK!Execute, CLK!clock
<1>3. CASE CLK!Register
  BY <1>3, RegisterWaits
<1>4. CASE CLK!Command
  <2>1. CASE CLK!SYNC_TIME /\ now' = now
    BY <2>1, SyncTimeKeeps
  <2>2. CASE CLK!FRAM_SYNC_RTC_ENABLE /\ now' = now
    BY <2>2, ClockStays DEF CLK!FRAM_SYNC_RTC_ENABLE, CLK!clock
  <2>3. CASE CLK!SET_OBC_TIME /\ now' = now
    BY <2>3, SetTimeKeeps
  <2>4. CASE CLK!RTCLosesTime /\ now' = now
    BY <2>4, ClockStays DEF CLK!RTCLosesTime, CLK!clock
  <2>5. CASE CLK!Restart
    BY <2>5, RestartKeepsClock
  <2> QED
    BY <1>4, <2>1, <2>2, <2>3, <2>4, <2>5 DEF CLK!Command
<1>5. CASE UNCHANGED clkVars
  BY <1>5, ClockStays DEF clkVars
<1> QED
  BY <1>1, <1>2, <1>3, <1>4, <1>5 DEF CLK!Next

LEMMA CLKAlways == AppsSpec => []CLKInv
<1>1. AppsInit => CLKInv
  BY CLKInit DEF AppsInit
<1>2. CLKInv /\ [AppsNext]_appsVars => CLKInv'
  BY PartSteps, ClockKept
<1> QED
  BY <1>1, <1>2, PTL DEF AppsSpec

(* A clock that was set to the right second tells it or a neighbour of it until the           *)
(* milliseconds overflow: for every width of the word, every length of a cycle that divides    *)
(* the second, and whatever restarts, refused times and turns of the cycle came before        *)
(* (OBCTime.cpp:44, TimeManager.cpp:93-103).                                           *)
THEOREM TellsTime == AppsSpec => []ClockAccurate
<1>1. CLKInv => ClockAccurate
  <2> SUFFICES ASSUME CLKInv, era = CLK!Turns(clk_master)
               PROVE  utime - CLK!NowSec \in -1..1
    BY DEF ClockAccurate, CLK!ClockAccurate
  <2>1. clk_master \in Nat /\ now \in Nat /\ initial_utime \in Int
    BY MasterNat DEF CLKInv, ClockTypes
  <2>2. /\ utime = CLK!OBCT_cycle2sec(clk_master) + initial_utime
        /\ -SecondMs < Off(now, clk_master, initial_utime)
        /\ Off(now, clk_master, initial_utime) < SecondMs
    BY DEF CLKInv, SetRight
  <2>3. CLK!OBCT_cycle2sec(clk_master) + initial_utime - now \div CLK!PerSecond \in -1..1
    BY <2>1, <2>2, TellsSecond
  <2>4. utime = CLK!OBCT_cycle2sec(clk_master) + initial_utime
    BY <2>2
  <2>5. CLK!NowSec = now \div CLK!PerSecond
    BY DEF CLK!NowSec
  <2>6. CLK!OBCT_cycle2sec(clk_master) \in Nat /\ CLK!NowSec \in Nat
    BY <2>1, <2>5, Milliseconds, TrueSecond
  <2> QED
    BY <2>1, <2>3, <2>4, <2>5, <2>6
<1> QED
  BY <1>1, CLKAlways, PTL

(* A command of the ground for a second, registered by a clock that was right, is executed in   *)
(* that second or in the one before it, however often the clock is set while it waits          *)
(* (OBCTime.cpp:137-148, CommonTlmCmdPacket.cpp:275-297).                               *)
THEOREM SecondsKept == AppsSpec => []CommandsOnTime
<1>1. CLKInv => CommandsOnTime
  <2> SUFFICES ASSUME CLKInv, NEW c \in CLK!Due, c.sound
               PROVE  c.utime - CLK!NowSec \in 0..1
    BY DEF CommandsOnTime, CLK!CommandsOnTime
  <2>1. c \in clk_timeline /\ c.at <= clk_master
    BY DEF CLK!Due
  <2>2. c \in Wait /\ clk_master \in Nat /\ now \in Nat
    BY <2>1, MasterNat DEF CLKInv, ClockTypes
  <2>3. c.utime \in Int /\ c.at \in Nat
    BY <2>2 DEF Wait
  <2>4. /\ c.at >= clk_master
        /\ CLK!PerSecond * (c.utime - 1) < now + c.at - clk_master
        /\ now + c.at - clk_master < CLK!PerSecond * (c.utime + 1)
    BY <2>1 DEF CLKInv, WaitsRight
  <2>5. now + c.at - clk_master = now
    BY <2>1, <2>2, <2>3, <2>4
  <2> DEFINE p == CLK!PerSecond
             u == c.utime
             s == CLK!NowSec
  <2>6. s \in Nat /\ p * s <= now /\ now < p * (s + 1) /\ p \in Nat \ {0} /\ u \in Int
    BY <2>2, <2>3, TrueSecond, CyclesOfSecond DEF CLK!NowSec
  <2>7. p * (u - 1) < now /\ now < p * (u + 1)
    BY <2>4, <2>5
  <2> HIDE DEF p, u, s
  <2>8. p * s \in Int /\ p * (s + 1) \in Int /\ p * (u - 1) \in Int /\ p * (u + 1) \in Int
    BY <2>6, Spread
  <2>9. p * (u - 1) < p * (s + 1) /\ p * s < p * (u + 1)
    BY <2>2, <2>6, <2>7, <2>8
  <2>10. u - 1 < s + 1 /\ s < u + 1
    BY <2>6, <2>9, Cancel
  <2>11. u - s \in 0..1
    BY <2>6, <2>10
  <2> QED
    BY <2>11 DEF u, s
<1> QED
  BY <1>1, CLKAlways, PTL

-------------------------------------------------------------------------------
(* The calendar. *)

LEMMA Months ==
    /\ \A m \in 1..12 : CAL!BeforeMonth[m] \in 0..334
    /\ CAL!BeforeMonth[1] = 0 /\ CAL!BeforeMonth[12] = 334
    /\ \A m \in 1..11 : CAL!BeforeMonth[m + 1] = CAL!BeforeMonth[m] + CAL!Length(FALSE, m)
<1>1. ASSUME NEW m \in 1..12
      PROVE  CAL!BeforeMonth[m] \in 0..334
  BY DEF CAL!BeforeMonth
<1>2. ASSUME NEW m \in 1..11
      PROVE  CAL!BeforeMonth[m + 1] = CAL!BeforeMonth[m] + CAL!Length(FALSE, m)
  BY DEF CAL!BeforeMonth, CAL!Length
<1> QED
  BY <1>1, <1>2 DEF CAL!BeforeMonth

LEMMA Lengths ==
    ASSUME NEW leap \in BOOLEAN, NEW m \in 1..12
    PROVE  /\ CAL!Length(leap, m) \in 28..31
           /\ CAL!Length(leap, m) = CAL!Length(FALSE, m) + (IF leap /\ m = 2 THEN 1 ELSE 0)
           /\ CAL!Length(leap, 12) = 31
BY DEF CAL!Length

(* The day after, in each of the places of NextDay. *)
Extra(y, m) == IF m > 2 /\ y % 4 = 0 THEN 1 ELSE 0
Years(y)    == 365 * (y - 2000) + (y - 2000 + 3) \div 4

LEMMA DaysTypes ==
    ASSUME NEW y \in Int, NEW m \in 1..12, NEW d \in Int
    PROVE  /\ Years(y) \in Int /\ CAL!BeforeMonth[m] \in 0..334 /\ Extra(y, m) \in 0..1
           /\ Days(y, m, d) \in Int
<1>1. Days(y, m, d) = Years(y) + CAL!BeforeMonth[m] + Extra(y, m) + d - 1
  BY Zenon DEF Days, Years, Extra
<1>2. Years(y) \in Int
  BY DEF Years
<1>3. CAL!BeforeMonth[m] \in 0..334
  BY Zenon, Months
<1>4. Extra(y, m) \in 0..1
  BY DEF Extra
<1> QED
  BY <1>1, <1>2, <1>3, <1>4

LEMMA NextYear ==
    ASSUME NEW y \in Int
    PROVE  Years(y + 1) = Years(y) + 365 + Extra(y, 12)
<1>1. (y - 1996) \div 4 = (y - 1997) \div 4 + (IF y % 4 = 0 THEN 1 ELSE 0)
  OBVIOUS
<1>2. /\ Years(y + 1) = 365 * (y - 1999) + (y - 1996) \div 4
      /\ Years(y) = 365 * (y - 2000) + (y - 1997) \div 4
  BY DEF Years
<1>3. Extra(y, 12) = IF y % 4 = 0 THEN 1 ELSE 0
  BY DEF Extra
<1> QED
  BY <1>1, <1>2, <1>3

LEMMA NextMonth ==
    ASSUME NEW y \in Int, NEW m \in 1..11
    PROVE  CAL!BeforeMonth[m + 1] + Extra(y, m + 1)
               = CAL!BeforeMonth[m] + Extra(y, m) + CAL!Length(y % 4 = 0, m)
<1> DEFINE one == IF y % 4 = 0 /\ m = 2 THEN 1 ELSE 0
           b == CAL!BeforeMonth[m]
           l == CAL!Length(FALSE, m)
           x == Extra(y, m)
<1>1. CAL!BeforeMonth[m + 1] = b + l
  BY Zenon, Months
<1>2. m \in 1..12 /\ (y % 4 = 0) \in BOOLEAN
  OBVIOUS
<1>3. CAL!Length(y % 4 = 0, m) = l + one /\ l \in 28..31
  BY Zenon, <1>2, Lengths, FALSE \in BOOLEAN
<1>4. Extra(y, m + 1) = x + one /\ x \in 0..1 /\ one \in 0..1
  BY DEF Extra
<1>5. b \in 0..334
  BY Zenon, <1>2, Months
<1> HIDE DEF one, b, l, x
<1>6. (b + l) + (x + one) = (b + x) + (l + one)
  BY <1>3, <1>4, <1>5
<1>7. CAL!BeforeMonth[m + 1] + Extra(y, m + 1) = (b + x) + CAL!Length(y % 4 = 0, m)
  BY <1>1, <1>3, <1>4, <1>6
<1> QED
  BY <1>7 DEF b, x

LEMMA DayAfter ==
    ASSUME NEW y \in Int, NEW m \in 1..12, NEW d \in Int
    PROVE  /\ Days(y, m, d + 1) = Days(y, m, d) + 1
           /\ d = CAL!Length(y % 4 = 0, m) /\ m < 12 => Days(y, m + 1, 1) = Days(y, m, d) + 1
           /\ d = 31 /\ m = 12 => Days(y + 1, 1, 1) = Days(y, m, d) + 1
<1> DEFINE b == CAL!BeforeMonth[m]
           x == Extra(y, m)
           yrs == Years(y)
<1>1. Days(y, m, d) = yrs + b + x + d - 1
  BY Zenon DEF Days, Years, Extra
<1>2. Days(y, m, d + 1) = yrs + b + x + (d + 1) - 1
  BY Zenon DEF Days, Years, Extra
<1>0. yrs \in Int /\ b \in 0..334 /\ x \in 0..1
  <2>1. b \in 0..334
    BY Zenon, Months
  <2> QED
    BY <2>1 DEF Years, Extra
<1>3. ASSUME d = CAL!Length(y % 4 = 0, m), m < 12
      PROVE  Days(y, m + 1, 1) = Days(y, m, d) + 1
  <2> DEFINE c == CAL!BeforeMonth[m + 1]
             z == Extra(y, m + 1)
  <2>1. m \in 1..11 /\ m + 1 \in 1..12 /\ 1 \in Int
    BY <1>3
  <2>2. Days(y, m + 1, 1) = yrs + c + z + 1 - 1
    BY Zenon DEF Days, Years, Extra
  <2>4. c \in 0..334 /\ z \in 0..1
    <3>1. c \in 0..334
      BY Zenon, <2>1, Months
    <3> QED
      BY <3>1 DEF Extra
  <2>3. c + z = b + x + d
    BY Zenon, <1>3, <2>1, NextMonth
  <2> HIDE DEF b, x, c, z, yrs
  <2> QED
    BY <1>0, <1>1, <2>2, <2>3, <2>4
<1>4. ASSUME d = 31, m = 12
      PROVE  Days(y + 1, 1, 1) = Days(y, m, d) + 1
  <2> DEFINE c == CAL!BeforeMonth[1]
             next == Years(y + 1)
  <2>1. c = 0 /\ b = 334 /\ next = yrs + 365 + x
    BY <1>4, Months, NextYear
  <2>2. Days(y + 1, 1, 1) = 365 * (y - 1999) + (y - 1996) \div 4
    BY <2>1 DEF Days
  <2>3. next = 365 * (y - 1999) + (y - 1996) \div 4
    BY DEF Years
  <2> HIDE DEF b, x, c, yrs, next
  <2> QED
    BY <1>0, <1>1, <1>4, <2>1, <2>2, <2>3
<1> HIDE DEF b, x, yrs
<1>5. Days(y, m, d + 1) = Days(y, m, d) + 1
  BY <1>0, <1>1, <1>2
<1> QED
  BY <1>3, <1>4, <1>5

LEMMA NumberOfDate == \A date : CAL!DayNumber(date) = Days(date.y, date.m, date.d)
BY DEF CAL!DayNumber, CAL!LeapYear, Days

(* The day after, in each of its cases. *)
NextIs(n, c, leap) ==
    /\ n = [y |-> n.y, m |-> n.m, d |-> n.d]
    /\ c.d < CAL!Length(leap, c.m) => n.y = c.y /\ n.m = c.m /\ n.d = c.d + 1
    /\ ~(c.d < CAL!Length(leap, c.m)) /\ c.m < 12
         => n.y = c.y /\ n.m = c.m + 1 /\ n.d = 1
    /\ ~(c.d < CAL!Length(leap, c.m)) /\ ~(c.m < 12)
         => n.y = c.y + 1 /\ n.m = 1 /\ n.d = 1

LEMMA NextDayIs ==
    ASSUME NEW c \in Date, NEW leap
    PROVE  NextIs(CAL!NextDay(c, leap), c, leap)
<1> DEFINE n == CAL!NextDay(c, leap)
<1>1. CASE c.d < CAL!Length(leap, c.m)
  <2>1. n = [c EXCEPT !.d = c.d + 1]
    BY Zenon, <1>1 DEF CAL!NextDay
  <2> HIDE DEF n
  <2>2. n = [y |-> n.y, m |-> n.m, d |-> n.d] /\ n.y = c.y /\ n.m = c.m /\ n.d = c.d + 1
    BY <2>1 DEF Date
  <2> QED
    BY Zenon, <1>1, <2>2 DEF n, NextIs
<1>2. CASE ~(c.d < CAL!Length(leap, c.m)) /\ c.m < 12
  <2>1. n = [c EXCEPT !.m = c.m + 1, !.d = 1]
    BY Zenon, <1>2 DEF CAL!NextDay
  <2> HIDE DEF n
  <2>2. n = [y |-> n.y, m |-> n.m, d |-> n.d] /\ n.y = c.y /\ n.m = c.m + 1 /\ n.d = 1
    BY <2>1 DEF Date
  <2> QED
    BY Zenon, <1>2, <2>2 DEF n, NextIs
<1>3. CASE ~(c.d < CAL!Length(leap, c.m)) /\ ~(c.m < 12)
  <2>1. n = [y |-> c.y + 1, m |-> 1, d |-> 1]
    BY Zenon, <1>3 DEF CAL!NextDay
  <2> HIDE DEF n
  <2>2. n = [y |-> n.y, m |-> n.m, d |-> n.d] /\ n.y = c.y + 1 /\ n.m = 1 /\ n.d = 1
    BY <2>1
  <2> QED
    BY Zenon, <1>3, <2>2 DEF n, NextIs
<1> QED
  BY Zenon, <1>1, <1>2, <1>3

(* The day after c is n, whose year is as many years after the year z as after c's. *)
CountsOn(n, c, z) ==
    /\ n \in Date /\ n.y \in {c.y, c.y + 1}
    /\ \A nz \in Int :
           nz - z = n.y - c.y => /\ n.d <= CAL!Length(nz % 4 = 0, n.m)
                                /\ Days(nz, n.m, n.d) = Days(z, c.m, c.d) + 1

LEMMA TomorrowCounts ==
    ASSUME NEW c \in Date, NEW leap \in BOOLEAN, NEW z \in Int, leap <=> z % 4 = 0,
           c.d <= CAL!Length(leap, c.m), NEW n, NextIs(n, c, leap)
    PROVE  CountsOn(n, c, z)
<1>1. PICK m \in 1..12, d \in 1..31 : m = c.m /\ d = c.d /\ c.y \in Int
  BY DEF Date
<1> DEFINE len == CAL!Length(leap, m)
<1>0. /\ n = [y |-> n.y, m |-> n.m, d |-> n.d]
      /\ d < len => n.y = c.y /\ n.m = m /\ n.d = d + 1
      /\ ~(d < len) /\ m < 12 => n.y = c.y /\ n.m = m + 1 /\ n.d = 1
      /\ ~(d < len) /\ ~(m < 12) => n.y = c.y + 1 /\ n.m = 1 /\ n.d = 1
  BY Zenon, <1>1 DEF NextIs
<1>2. \A k \in 1..12 : CAL!Length(leap, k) \in 28..31
  BY Zenon, Lengths
<1>3. d <= CAL!Length(leap, m) /\ CAL!Length(leap, m) = CAL!Length(z % 4 = 0, m)
  BY <1>1 DEF CAL!Length
<1>4. CASE d < CAL!Length(leap, m)
  <2>1. n = [y |-> n.y, m |-> n.m, d |-> n.d] /\ n.y = c.y /\ n.m = m /\ n.d = d + 1
    BY <1>0, <1>4
  <2>2. d + 1 \in 1..31 /\ d + 1 <= CAL!Length(leap, m)
    BY <1>2, <1>4
  <2>3. n \in Date
    BY <1>1, <2>1, <2>2 DEF Date
  <2>4. Days(z, m, d + 1) = Days(z, m, d) + 1
    BY DayAfter
  <2>5. \A nz \in Int : nz - z = n.y - c.y => nz = z
    BY <1>1, <2>1
  <2>6. d + 1 <= CAL!Length(z % 4 = 0, m)
    BY Zenon, <1>3, <2>2
  <2>7. \A nz \in Int :
            nz - z = n.y - c.y => /\ n.d <= CAL!Length(nz % 4 = 0, n.m)
                                 /\ Days(nz, n.m, n.d) = Days(z, c.m, c.d) + 1
    BY Zenon, <1>1, <2>1, <2>4, <2>5, <2>6
  <2>8. n.y \in {c.y, c.y + 1}
    BY <2>1
  <2> QED
    BY <2>3, <2>7, <2>8 DEF CountsOn
<1>5. CASE d = CAL!Length(leap, m) /\ m < 12
  <2>1. n = [y |-> n.y, m |-> n.m, d |-> n.d] /\ n.y = c.y /\ n.m = m + 1 /\ n.d = 1
    BY <1>0, <1>2, <1>5
  <2>2. m + 1 \in 1..12 /\ 1 <= CAL!Length(leap, m + 1)
    BY <1>2, <1>5
  <2>3. n \in Date
    BY <1>1, <2>1, <2>2 DEF Date
  <2>4. Days(z, m + 1, 1) = Days(z, m, d) + 1
    BY SMTT(30), <1>3, <1>5, DayAfter
  <2>5. \A nz \in Int : nz - z = n.y - c.y => nz = z
    BY <1>1, <2>1
  <2>6. 1 <= CAL!Length(z % 4 = 0, m + 1)
    BY DEF CAL!Length
  <2>7. \A nz \in Int :
            nz - z = n.y - c.y => /\ n.d <= CAL!Length(nz % 4 = 0, n.m)
                                 /\ Days(nz, n.m, n.d) = Days(z, c.m, c.d) + 1
    BY Zenon, <1>1, <2>1, <2>4, <2>5, <2>6
  <2>8. n.y \in {c.y, c.y + 1}
    BY <2>1
  <2> QED
    BY <2>3, <2>7, <2>8 DEF CountsOn
<1>6. CASE d = CAL!Length(leap, m) /\ ~(m < 12)
  <2>1. n = [y |-> n.y, m |-> n.m, d |-> n.d] /\ n.y = c.y + 1 /\ n.m = 1 /\ n.d = 1
    BY <1>0, <1>2, <1>6
  <2>2. m = 12 /\ d = 31
    BY <1>6 DEF CAL!Length
  <2>3. n \in Date
    BY <1>1, <2>1 DEF Date
  <2>4. Days(z + 1, 1, 1) = Days(z, m, d) + 1
    BY <2>2, DayAfter
  <2>5. \A nz \in Int : nz - z = n.y - c.y => nz = z + 1
    BY <1>1, <2>1
  <2>6. \A nz \in Int : 1 <= CAL!Length(nz % 4 = 0, 1)
    BY DEF CAL!Length
  <2> QED
    BY <1>1, <2>1, <2>3, <2>4, <2>5, <2>6 DEF CountsOn
<1>7. d < CAL!Length(leap, m) \/ d = CAL!Length(leap, m)
  BY <1>2, <1>3
<1> QED
  BY Zenon, <1>4, <1>5, <1>6, <1>7

(* The year in full, of the two digits of the chip. *)
InFull(z, y) == z = y + 2000

LEMMA ChipDayIs ==
    ASSUME NEW c \in Date, NEW leap \in BOOLEAN, leap <=> c.y % 4 = 0,
           NEW z \in Int, InFull(z, c.y)
    PROVE  /\ c.d <= CAL!Length(leap, c.m) => ChipDay(c) = Days(z, c.m, c.d)
           /\ ~(c.d <= CAL!Length(leap, c.m)) => ChipDay(c) = Days(z, c.m, c.d) - 1
           /\ ChipDay(c) \in Int /\ Days(z, c.m, c.d) \in Int
<1>1. c.m \in 1..12 /\ c.d \in Int /\ c.d \in 1..31
  BY DEF Date
<1>2. Days(z, c.m, c.d) \in Int
  BY Zenon, <1>1, DaysTypes
<1>3. Beyond(c) <=> ~(c.d <= CAL!Length(leap, c.m))
  <2>1. CAL!Length(leap, c.m) = CAL!Length(CAL!LeapYear(c.y), c.m)
    BY DEF CAL!Length, CAL!LeapYear
  <2>2. CAL!Length(leap, c.m) \in 28..31
    BY Zenon, <1>1, Lengths
  <2> QED
    BY <1>1, <2>1, <2>2 DEF Beyond
<1> QED
  BY <1>2, <1>3 DEF ChipDay, InFull

(* Beyond the month is the 29th of a February, of an even year. *)
LEMMA BeyondIs ==
    ASSUME NEW y \in Int, NEW m \in 1..12, NEW d \in 1..31,
           d <= CAL!Length(y % 2 = 0, m), d > CAL!Length(y % 4 = 0, m)
    PROVE  m = 2 /\ d = 29 /\ y % 4 = 2
<1>1. CASE m = 2
  BY <1>1 DEF CAL!Length
<1>2. CASE m # 2
  <2>1. CAL!Length(y % 2 = 0, m) = CAL!Length(y % 4 = 0, m)
    BY <1>2 DEF CAL!Length
  <2>2. CAL!Length(y % 4 = 0, m) \in Int
    BY DEF CAL!Length
  <2> QED
    BY <2>1, <2>2
<1> QED
  BY <1>1, <1>2

LEMMA EvenLonger ==
    ASSUME NEW y \in Int, NEW m \in 1..12
    PROVE  CAL!Length(y % 4 = 0, m) <= CAL!Length(y % 2 = 0, m)
BY DEF CAL!Length

(* The chip's day after: a 29th of February, set in a year that has none for the chip, is     *)
(* followed by the 1st of March like the day before it.                                  *)
LEMMA ChipCounts ==
    ASSUME NEW c \in Date, c.d <= CAL!Length(c.y % 2 = 0, c.m),
           NEW leap \in BOOLEAN, leap <=> c.y % 4 = 0, NEW n, NextIs(n, c, leap)
    PROVE  /\ n \in Date /\ n.y \in {c.y, c.y + 1}
           /\ n.d <= CAL!Length(n.y % 2 = 0, n.m)
           /\ ChipDay(n) = ChipDay(c) + 1
<1>2. PICK z \in Int : InFull(z, c.y)
  BY DEF InFull, Date
<1>3. c.y \in Int /\ c.m \in 1..12 /\ c.d \in 1..31
  BY DEF Date
<1>4. leap <=> z % 4 = 0
  <2>1. (c.y % 4 = 0) <=> (z % 4 = 0)
    BY <1>2, <1>3 DEF InFull
  <2> QED
    BY <2>1
<1>6. CASE c.d <= CAL!Length(leap, c.m)
  <2>1. CountsOn(n, c, z)
    BY Zenon, <1>4, <1>6, TomorrowCounts
  <2>2. n \in Date /\ n.y \in {c.y, c.y + 1} /\ n.y \in Int /\ n.m \in 1..12 /\ n.d \in 1..31
    BY <2>1 DEF CountsOn, Date
  <2>3. PICK nz \in Int : InFull(nz, n.y)
    BY <2>2 DEF InFull
  <2>4. n.d <= CAL!Length(nz % 4 = 0, n.m) /\ Days(nz, n.m, n.d) = Days(z, c.m, c.d) + 1
    <3>1. nz - z = n.y - c.y
      BY <1>2, <1>3, <2>2, <2>3 DEF InFull
    <3> QED
      BY Zenon, <2>1, <3>1 DEF CountsOn
  <2>5. PICK nleap \in BOOLEAN : nleap <=> n.y % 4 = 0
    OBVIOUS
  <2>6. n.d <= CAL!Length(nleap, n.m) /\ n.d <= CAL!Length(n.y % 2 = 0, n.m)
    BY <2>2, <2>3, <2>4, <2>5 DEF CAL!Length, InFull
  <2>7. ChipDay(n) = Days(nz, n.m, n.d)
    BY Zenon, <2>2, <2>3, <2>5, <2>6, ChipDayIs
  <2>8. ChipDay(c) = Days(z, c.m, c.d)
    BY Zenon, <1>2, <1>4, <1>6, ChipDayIs
  <2> QED
    BY Zenon, <2>2, <2>4, <2>6, <2>7, <2>8
<1>7. CASE ~(c.d <= CAL!Length(leap, c.m))
  <2>1. c.m = 2 /\ c.d = 29 /\ c.y % 4 = 2 /\ ~leap
    <3>1. c.d > CAL!Length(c.y % 4 = 0, c.m)
      BY <1>3, <1>4, <1>7 DEF CAL!Length
    <3> QED
      BY <1>3, <1>4, <3>1, BeyondIs
  <2>2. n.y = c.y /\ n.m = 3 /\ n.d = 1 /\ n = [y |-> n.y, m |-> n.m, d |-> n.d]
    <3>1. ~(c.d < CAL!Length(leap, c.m)) /\ c.m < 12
      BY <2>1 DEF CAL!Length
    <3> QED
      BY <2>1, <3>1 DEF NextIs
  <2>3. n \in Date
    BY <1>3, <2>2 DEF Date
  <2>4. n.d <= CAL!Length(n.y % 2 = 0, n.m) /\ n.d <= CAL!Length(leap, n.m)
    BY <2>2 DEF CAL!Length
  <2>5. ChipDay(n) = Days(z, n.m, n.d)
    <3>1. (leap <=> n.y % 4 = 0) /\ InFull(z, n.y)
      BY Zenon, <1>2, <1>4, <2>2
    <3> QED
      BY Zenon, <2>3, <2>4, <3>1, ChipDayIs
  <2>6. ChipDay(c) = Days(z, c.m, c.d) - 1
    BY Zenon, <1>2, <1>4, <1>7, ChipDayIs
  <2>7. /\ Days(z, 2, 29) = Days(z, 2, 28) + 1 /\ Days(z, 3, 1) = Days(z, 2, 28) + 1
        /\ Days(z, 2, 28) \in Int
    <3>1. PICK two \in 1..12, day \in Int : two = 2 /\ day = 28
      OBVIOUS
    <3>2. day = CAL!Length(z % 4 = 0, two) /\ two < 12
      BY <1>4, <2>1, <3>1 DEF CAL!Length
    <3>3. /\ Days(z, two, day + 1) = Days(z, two, day) + 1
          /\ Days(z, two + 1, 1) = Days(z, two, day) + 1
      BY Zenon, <3>2, DayAfter
    <3>4. Days(z, two, day) \in Int
      BY Zenon, DaysTypes
    <3>5. two + 1 = 3 /\ day + 1 = 29
      BY <3>1
    <3> QED
      BY Zenon, <3>1, <3>3, <3>4, <3>5
  <2>8. ChipDay(n) = ChipDay(c) + 1
    BY <2>1, <2>2, <2>5, <2>6, <2>7
  <2> QED
    BY Zenon, <2>2, <2>3, <2>4, <2>8
<1> QED
  BY Zenon, <1>6, <1>7

(* The year that is read of the two digits of the chip. *)
ReadAs(w, y) == w = y + 1982

(* 18 years have 6574 days or 6575: the chip has its 29th of February in other years. *)
LEMMA EighteenYears ==
    ASSUME NEW y \in Int, NEW m \in 1..12, NEW d \in Int,
           NEW w \in Int, ReadAs(w, y), NEW z \in Int, InFull(z, y)
    PROVE  Days(w, m, d) - Days(z, m, d)
               \in IF y % 4 = 2 /\ m = 2 THEN {-6575} ELSE {-6575, -6574}
<1>1. w = y + 1982 /\ z = y + 2000
  BY DEF ReadAs, InFull
<1>2. Years(w) - Years(z) = IF y % 4 \in {0, 3} THEN -6574 ELSE -6575
  <2>1. (y - 15) \div 4 - (y + 3) \div 4 = IF y % 4 \in {0, 3} THEN -4 ELSE -5
    OBVIOUS
  <2>2. /\ Years(w) = 365 * (y - 18) + (y - 15) \div 4
        /\ Years(z) = 365 * y + (y + 3) \div 4
    BY <1>1 DEF Years
  <2> QED
    BY <2>1, <2>2
<1>3. /\ Extra(w, m) = IF m > 2 /\ y % 4 = 2 THEN 1 ELSE 0
      /\ Extra(z, m) = IF m > 2 /\ y % 4 = 0 THEN 1 ELSE 0
  BY <1>1 DEF Extra
<1> DEFINE b == CAL!BeforeMonth[m]
<1>4. /\ Days(z, m, d) = Years(z) + b + Extra(z, m) + d - 1
      /\ Days(w, m, d) = Years(w) + b + Extra(w, m) + d - 1
  BY Zenon DEF Days, Years, Extra
<1>5. Years(z) \in Int /\ Years(w) \in Int /\ b \in Int
  <2>1. b \in 0..334
    BY Zenon, Months
  <2> QED
    BY <2>1 DEF Years
<1>0. Extra(z, m) \in Int /\ Extra(w, m) \in Int
  BY DEF Extra
<1> HIDE DEF b
<1>6. Days(w, m, d) - Days(z, m, d) = (Years(w) - Years(z)) + (Extra(w, m) - Extra(z, m))
  BY <1>0, <1>4, <1>5
<1>7. Extra(w, m) - Extra(z, m) \in IF y % 4 = 2 THEN IF m > 2 THEN {1} ELSE {0}
                                   ELSE IF y % 4 = 0 THEN {-1, 0} ELSE {0}
  BY <1>3
<1>8. CASE y % 4 = 2
  BY <1>2, <1>6, <1>7, <1>8
<1>9. CASE y % 4 # 2
  BY <1>2, <1>6, <1>7, <1>9
<1> QED
  BY <1>8, <1>9

LEMMA Gap ==
    ASSUME NEW c \in Date, c.d <= CAL!Length(c.y % 2 = 0, c.m),
           NEW w \in Int, ReadAs(w, c.y)
    PROVE  Days(w, c.m, c.d) - ChipDay(c) \in -6575..-6574
<1>1. PICK y \in Int, m \in 1..12, d \in 1..31 : y = c.y /\ m = c.m /\ d = c.d
  BY DEF Date
<1>2. PICK z \in Int : InFull(z, c.y)
  BY <1>1 DEF InFull
<1>3. PICK leap \in BOOLEAN : leap <=> c.y % 4 = 0
  OBVIOUS
<1>4. /\ d <= CAL!Length(leap, m) => ChipDay(c) = Days(z, m, d)
      /\ ~(d <= CAL!Length(leap, m)) => ChipDay(c) = Days(z, m, d) - 1
  <2>1. /\ c.d <= CAL!Length(leap, c.m) => ChipDay(c) = Days(z, c.m, c.d)
        /\ ~(c.d <= CAL!Length(leap, c.m)) => ChipDay(c) = Days(z, c.m, c.d) - 1
    BY <1>2, <1>3, ChipDayIs
  <2> QED
    BY Zenon, <1>1, <2>1
<1>5. ~(d <= CAL!Length(leap, m)) => m = 2 /\ y % 4 = 2
  <2> SUFFICES ASSUME ~(d <= CAL!Length(leap, m))
               PROVE  m = 2 /\ y % 4 = 2
    OBVIOUS
  <2>1. d > CAL!Length(y % 4 = 0, m) /\ d <= CAL!Length(y % 2 = 0, m)
    BY <1>1, <1>3 DEF CAL!Length
  <2> QED
    BY <2>1, BeyondIs
<1>6. Days(w, m, d) - Days(z, m, d) \in IF y % 4 = 2 /\ m = 2 THEN {-6575} ELSE {-6575, -6574}
  <2>1. ReadAs(w, y) /\ InFull(z, y) /\ d \in Int
    BY <1>1, <1>2
  <2> QED
    BY <2>1, EighteenYears
<1>7. Days(w, m, d) \in Int /\ Days(z, m, d) \in Int
  <2>1. d \in Int
    OBVIOUS
  <2> QED
    BY <2>1, DaysTypes
<1>8. Days(w, m, d) - ChipDay(c) \in -6575..-6574
  <2> DEFINE far == ~(d <= CAL!Length(leap, m))
  <2>1. far => y % 4 = 2 /\ m = 2
    BY <1>5
  <2>2. /\ ~far => ChipDay(c) = Days(z, m, d)
        /\ far => ChipDay(c) = Days(z, m, d) - 1
    BY <1>4
  <2> HIDE DEF far
  <2> QED
    BY <1>6, <1>7, <2>1, <2>2
<1> QED
  BY <1>1, <1>8

(* The register, in two digits, is read back as the year it was written for. *)
LEMMA RegisterRead ==
    ASSUME NEW n \in 18..99
    PROVE  2000 + CAL!Byte(CAL!bcd2bin(CAL!Register(n)) - 18) = 1982 + n
<1>1. PICK t \in 1..9, u \in 0..9 : n = 10 * t + u
  <2>1. n \div 10 \in 1..9
    OBVIOUS
  <2>2. n % 10 \in 0..9
    OBVIOUS
  <2>3. n - 10 * (n \div 10) = n % 10
    OBVIOUS
  <2> QED
    BY <2>1, <2>2, <2>3
<1>2. CAL!Register(n) = 16 * t + u
  BY <1>1 DEF CAL!Register
<1>3. (16 * t + u) \div 16 = t
  OBVIOUS
<1>4. CAL!bcd2bin(CAL!Register(n)) = n
  BY <1>1, <1>2, <1>3 DEF CAL!bcd2bin, CAL!Byte
<1> QED
  BY <1>4 DEF CAL!Byte

(* What is written before 2030 is 18 years more than the ground's. *)
LEMMA RegisterWritten ==
    ASSUME NEW y \in 2000..2029
    PROVE  LET u == y - 1900 + 1870
               b == CAL!Byte(IF u >= 2000 THEN u - 2000 ELSE u)
           IN  CAL!Digits(CAL!bin2bcd(b)) = y - 1982
<1> DEFINE u == y - 1900 + 1870
           b == CAL!Byte(IF u >= 2000 THEN u - 2000 ELSE u)
<1>1. b = y - 1822
  BY DEF CAL!Byte
<1> HIDE DEF b
<1>2. PICK t \in 17..20, e \in 0..9 : b = 10 * t + e
  <2>1. b \in 178..207
    BY <1>1
  <2>2. b \div 10 \in 17..20
    BY <2>1
  <2>3. b % 10 \in 0..9
    BY <2>1
  <2>4. b - 10 * (b \div 10) = b % 10
    BY <2>1
  <2> QED
    BY <2>1, <2>2, <2>3, <2>4
<1>3. CAL!bin2bcd(b) = 16 * t + e - 256
  <2>1. b \div 10 = t
    BY <1>2
  <2>2. b + 6 * t = 16 * t + e
    BY <1>2
  <2>3. (16 * t + e) % 256 = 16 * t + e - 256
    OBVIOUS
  <2> QED
    BY <2>1, <2>2, <2>3 DEF CAL!bin2bcd, CAL!Byte
<1>4. CAL!Digits(CAL!bin2bcd(b)) = 10 * (t - 16) + e
  <2> DEFINE r == CAL!bin2bcd(b)
  <2>1. r = 16 * (t - 16) + e
    BY <1>3
  <2> HIDE DEF r
  <2>2. r \div 16 = t - 16 /\ r % 16 = e
    BY <2>1
  <2> QED
    BY <2>2 DEF CAL!Digits, r
<1> QED
  BY <1>1, <1>2, <1>4 DEF b

LEMMA SameDateIs ==
    ASSUME NEW t \in Date, NEW c, c = [y |-> c.y, m |-> c.m, d |-> c.d]
    PROVE  SameDate(c, t) <=> c.y = t.y - 1982 /\ c.m = t.m /\ c.d = t.d
<1>1. [t EXCEPT !.y = @ - 1982] = [y |-> t.y - 1982, m |-> t.m, d |-> t.d]
  BY DEF Date
<1> QED
  BY <1>1 DEF SameDate

LEMMA DateWritten ==
    ASSUME NEW t \in Date, t.y \in 2000..2029
    PROVE  SameDate(CAL!adjust(CAL!DateTime(CAL!Convert_UnixTime2UTC(t))), t)
<1> DEFINE u == t.y - 1900 + 1870
           b == CAL!Byte(IF u >= 2000 THEN u - 2000 ELSE u)
           digits == CAL!Digits(CAL!bin2bcd(b))
           utc == CAL!Convert_UnixTime2UTC(t)
           dt == CAL!DateTime(utc)
           c == CAL!adjust(dt)
<1>1. utc = [y |-> u, m |-> t.m, d |-> t.d]
  BY DEF CAL!Convert_UnixTime2UTC, Date
<1> HIDE DEF u, utc
<1>2. dt = [y |-> b, m |-> t.m, d |-> t.d]
  BY <1>1 DEF CAL!DateTime
<1> HIDE DEF b, dt
<1>3. c = [y |-> digits, m |-> t.m, d |-> t.d]
  BY <1>2 DEF CAL!adjust
<1>4. digits = t.y - 1982
  BY RegisterWritten DEF b, u
<1> HIDE DEF c, digits
<1>5. c = [y |-> c.y, m |-> c.m, d |-> c.d] /\ c.y = t.y - 1982 /\ c.m = t.m /\ c.d = t.d
  BY <1>3, <1>4
<1>6. SameDate(c, t)
  BY <1>5, SameDateIs
<1> QED
  BY <1>6 DEF c, dt, utc

(* Chip and world together, but for the 28th of a February of an even year. *)
EvenFebruary(t) == t.m = 2 /\ t.d = 28 /\ t.y % 2 = 0

LEMMA StepTogether ==
    ASSUME NEW t \in Date, NEW c \in Date, SameDate(c, t), ~EvenFebruary(t),
           NEW lt \in BOOLEAN, lt <=> t.y % 4 = 0, NEW lc \in BOOLEAN, lc <=> c.y % 4 = 0,
           t.d <= CAL!Length(lt, t.m),
           NEW tn \in Date, NextIs(tn, t, lt), NEW cn, NextIs(cn, c, lc)
    PROVE  SameDate(cn, tn)
<1>1. c.y = t.y - 1982 /\ c.m = t.m /\ c.d = t.d
  BY DEF Date, SameDate
<1>2. t.y \in Int /\ t.m \in 1..12 /\ t.d \in 1..31
  BY DEF Date
<1> DEFINE short == t.d < CAL!Length(lt, t.m)
<1>3. short <=> c.d < CAL!Length(lc, c.m)
  <2>1. CASE t.m # 2
    <3>1. CAL!Length(lt, t.m) = CAL!Length(lc, t.m)
      BY <2>1 DEF CAL!Length
    <3> QED
      BY <1>1, <3>1
  <2>2. CASE t.m = 2
    <3>1. CAL!Length(lt, t.m) = (IF t.y % 4 = 0 THEN 29 ELSE 28)
      BY <2>2 DEF CAL!Length
    <3>2. CAL!Length(lc, c.m) = (IF t.y % 4 = 2 THEN 29 ELSE 28)
      BY <1>1, <1>2, <2>2 DEF CAL!Length
    <3>3. t.d = 28 => t.y % 2 # 0
      BY <2>2 DEF EvenFebruary
    <3> QED
      BY <1>1, <1>2, <3>1, <3>2, <3>3
  <2> QED
    BY <2>1, <2>2
<1>4. /\ tn = [y |-> tn.y, m |-> tn.m, d |-> tn.d]
      /\ short => tn.y = t.y /\ tn.m = t.m /\ tn.d = t.d + 1
      /\ ~short /\ t.m < 12 => tn.y = t.y /\ tn.m = t.m + 1 /\ tn.d = 1
      /\ ~short /\ ~(t.m < 12) => tn.y = t.y + 1 /\ tn.m = 1 /\ tn.d = 1
  BY Zenon DEF NextIs
<1>5. /\ cn = [y |-> cn.y, m |-> cn.m, d |-> cn.d]
      /\ short => cn.y = c.y /\ cn.m = c.m /\ cn.d = c.d + 1
      /\ ~short /\ c.m < 12 => cn.y = c.y /\ cn.m = c.m + 1 /\ cn.d = 1
      /\ ~short /\ ~(c.m < 12) => cn.y = c.y + 1 /\ cn.m = 1 /\ cn.d = 1
  BY Zenon, <1>3 DEF NextIs
<1> HIDE DEF short
<1>6. cn.y = tn.y - 1982 /\ cn.m = tn.m /\ cn.d = tn.d
  BY <1>1, <1>2, <1>4, <1>5
<1> QED
  BY <1>5, <1>6, SameDateIs

LEMMA NumbersAre ==
    ASSUME NEW c \in Date
    PROVE  ChipDay(c) \in Int /\ CAL!DayNumber(c) \in Int
<1>1. c.y \in Int /\ c.m \in 1..12 /\ c.d \in Int
  BY DEF Date
<1>2. PICK z \in Int : InFull(z, c.y)
  BY <1>1 DEF InFull
<1>3. PICK leap \in BOOLEAN : leap <=> c.y % 4 = 0
  OBVIOUS
<1>4. ChipDay(c) \in Int
  BY Zenon, <1>2, <1>3, ChipDayIs
<1>5. Days(c.y, c.m, c.d) \in Int
  BY Zenon, <1>1, DaysTypes
<1> QED
  BY Zenon, <1>4, <1>5, NumberOfDate

LEMMA CalendarInit ==
    ASSUME CAL!CalendarConstants, CAL!Init
    PROVE  CALInv
<1>1. today = [y |-> FirstYear, m |-> 1, d |-> 1] /\ ~sound
  BY DEF CAL!Init
<1>2. FirstYear \in 2000..LastYear /\ FirstYear \in Int
  BY DEF CAL!CalendarConstants
<1>3. today \in Date /\ today.y \in 2000..LastYear /\ today.m = 1 /\ today.d = 1
  BY <1>1, <1>2 DEF Date
<1>4. today.d <= CAL!Length(CAL!LeapYear(today.y), today.m)
  BY <1>3 DEF CAL!Length
<1> QED
  BY <1>1, <1>3, <1>4 DEF CALInv, TodayInv

LEMMA TodayGoes ==
    ASSUME CALInv, CAL!DayPasses
    PROVE  /\ TodayInv'
           /\ CAL!DayNumber(today') = CAL!DayNumber(today) + 1
<1>1. today \in Date /\ today.y \in Int
  BY DEF CALInv, TodayInv, Date
<1>2. PICK leap \in BOOLEAN : leap <=> today.y % 4 = 0
  OBVIOUS
<1>3. today.d <= CAL!Length(leap, today.m)
  BY <1>2 DEF CALInv, TodayInv, CAL!LeapYear, CAL!Length
<1>4. PICK n : n = today' /\ NextIs(n, today, leap)
  <2>1. today' = CAL!NextDay(today, CAL!LeapYear(today.y))
    BY DEF CAL!DayPasses
  <2>2. CAL!LeapYear(today.y) = leap
    BY <1>2 DEF CAL!LeapYear
  <2>3. NextIs(CAL!NextDay(today, leap), today, leap)
    BY <1>1, NextDayIs
  <2> QED
    BY <2>1, <2>2, <2>3
<1>5. CountsOn(n, today, today.y)
  BY <1>1, <1>2, <1>3, <1>4, TomorrowCounts
<1>6. n \in Date /\ n.y \in {today.y, today.y + 1} /\ n.y \in Int
  BY <1>1, <1>5 DEF CountsOn
<1>7. /\ n.d <= CAL!Length(n.y % 4 = 0, n.m)
      /\ Days(n.y, n.m, n.d) = Days(today.y, today.m, today.d) + 1
  BY <1>5, <1>6 DEF CountsOn
<1>8. n.y \in 2000..LastYear
  <2>1. today.y \in 2000..LastYear
    BY DEF CALInv, TodayInv
  <2>2. n.y <= LastYear
    BY <1>4 DEF CAL!DayPasses
  <2> QED
    BY <1>1, <1>6, <2>1, <2>2
<1>9. n.d <= CAL!Length(CAL!LeapYear(n.y), n.m)
  BY Zenon, <1>7 DEF CAL!LeapYear
<1>10. TodayInv'
  BY <1>4, <1>6, <1>8, <1>9 DEF TodayInv
<1>11. CAL!DayNumber(n) = CAL!DayNumber(today) + 1
  BY Zenon, <1>7, NumberOfDate
<1> QED
  BY <1>4, <1>10, <1>11

LEMMA ChipGoes ==
    ASSUME CALInv, CAL!DayPasses, sound
    PROVE  InStep'
<1>1. chip \in Date /\ chip.y >= 18 /\ chip.d <= CAL!Length(chip.y % 2 = 0, chip.m)
  BY DEF CALInv, InStep
<1>2. today \in Date /\ today.d <= CAL!Length(CAL!LeapYear(today.y), today.m)
  BY DEF CALInv, TodayInv
<1>3. /\ today' = CAL!NextDay(today, CAL!LeapYear(today.y))
      /\ chip' = CAL!NextDay(chip, CAL!LeapYear(chip.y))
      /\ crossed' = (crossed \/ EvenFebruary(today))
  BY DEF CAL!DayPasses, EvenFebruary
<1>4. PICK lt \in BOOLEAN, lc \in BOOLEAN : (lt <=> today.y % 4 = 0) /\ (lc <=> chip.y % 4 = 0)
  OBVIOUS
<1>5. CAL!LeapYear(today.y) = lt /\ CAL!LeapYear(chip.y) = lc
  BY <1>4 DEF CAL!LeapYear
<1>6. PICK tn, cn : tn = today' /\ cn = chip' /\ NextIs(tn, today, lt) /\ NextIs(cn, chip, lc)
  <2>1. today' = CAL!NextDay(today, lt) /\ chip' = CAL!NextDay(chip, lc)
    BY <1>3, <1>5
  <2>2. /\ NextIs(CAL!NextDay(today, lt), today, lt)
        /\ NextIs(CAL!NextDay(chip, lc), chip, lc)
    BY <1>1, <1>2, NextDayIs
  <2> QED
    BY <2>1, <2>2
<1>7. /\ cn \in Date /\ cn.y \in {chip.y, chip.y + 1}
      /\ cn.d <= CAL!Length(cn.y % 2 = 0, cn.m)
      /\ ChipDay(cn) = ChipDay(chip) + 1
  BY <1>1, <1>4, <1>6, ChipCounts
<1>8. tn \in Date /\ CAL!DayNumber(tn) = CAL!DayNumber(today) + 1
  BY <1>6, TodayGoes DEF TodayInv
<1>9. cn.y >= 18
  BY <1>1, <1>7 DEF Date
<1>10. ChipDay(cn) - CAL!DayNumber(tn) \in 6574..6575
  <2>1. ChipDay(chip) \in Int /\ CAL!DayNumber(today) \in Int
    BY <1>1, <1>2, NumbersAre
  <2>2. ChipDay(chip) - CAL!DayNumber(today) \in 6574..6575
    BY DEF CALInv, InStep
  <2> QED
    BY <1>7, <1>8, <2>1, <2>2
<1>11. ~crossed' => SameDate(cn, tn)
  <2> SUFFICES ASSUME ~crossed'
               PROVE  SameDate(cn, tn)
    OBVIOUS
  <2>1. SameDate(chip, today) /\ ~EvenFebruary(today)
    <3>1. crossed' = (crossed \/ EvenFebruary(today))
      BY <1>3
    <3>2. ~crossed /\ ~EvenFebruary(today)
      BY Zenon, <3>1
    <3> QED
      BY <3>2 DEF CALInv, InStep
  <2>2. today.d <= CAL!Length(lt, today.m)
    BY <1>2, <1>5
  <2> QED
    BY <1>1, <1>2, <1>4, <1>6, <1>8, <2>1, <2>2, StepTogether
<1> QED
  BY <1>6, <1>7, <1>9, <1>10, <1>11 DEF InStep

LEMMA ChipSet ==
    ASSUME CALInv, CAL!RTC_UTIME_SET
    PROVE  CALInv'
<1> DEFINE early == today.y < 2030
<1>1. /\ chip' = CAL!adjust(CAL!DateTime(CAL!Convert_UnixTime2UTC(today)))
      /\ sound' = early /\ today' = today
  BY DEF CAL!RTC_UTIME_SET
<1>0. early \in BOOLEAN
  OBVIOUS
<1> HIDE DEF early
<1>2. TodayInv /\ TodayInv'
  BY <1>1 DEF CALInv, TodayInv
<1>3. ASSUME early
      PROVE  InStep'
  <2>1. today \in Date /\ today.y \in 2000..2029
    <3>1. today \in Date /\ today.y \in 2000..LastYear /\ today.y \in Int
      BY <1>2 DEF TodayInv, Date
    <3> QED
      BY <1>3, <3>1 DEF early
  <2>2. PICK c : c = chip' /\ SameDate(c, today)
    BY <1>1, <2>1, DateWritten
  <2>3. c \in Date /\ c.y = today.y - 1982 /\ c.m = today.m /\ c.d = today.d
    BY <2>1, <2>2 DEF SameDate, Date
  <2>4. c.y >= 18
    BY <2>1, <2>3
  <2>5. c.d <= CAL!Length(c.y % 2 = 0, c.m)
    <3>1. today.d <= CAL!Length(CAL!LeapYear(today.y), today.m)
      BY <1>2 DEF TodayInv
    <3> QED
      BY <2>1, <2>3, <3>1 DEF CAL!Length, CAL!LeapYear, Date
  <2>6. ChipDay(c) - CAL!DayNumber(today) \in 6574..6575
    <3>1. today.y \in Int /\ ReadAs(today.y, c.y)
      BY <2>1, <2>3 DEF ReadAs
    <3>2. Days(today.y, c.m, c.d) - ChipDay(c) \in -6575..-6574
      BY <2>3, <2>5, <3>1, Gap
    <3>3. CAL!DayNumber(today) = Days(today.y, c.m, c.d)
      BY <2>3, NumberOfDate
    <3>4. ChipDay(c) \in Int /\ CAL!DayNumber(today) \in Int
      BY <2>1, <2>3, NumbersAre
    <3> QED
      BY <3>2, <3>3, <3>4
  <2> QED
    BY <1>1, <2>2, <2>3, <2>4, <2>5, <2>6 DEF InStep
<1>4. ASSUME ~early
      PROVE  ~sound'
  BY <1>0, <1>1, <1>4
<1> QED
  BY Zenon, <1>2, <1>3, <1>4 DEF CALInv

LEMMA CalendarKept ==
    ASSUME CALInv, CAL!Next \/ UNCHANGED calVars
    PROVE  CALInv'
<1>1. CASE CAL!RTC_UTIME_SET
  BY <1>1, ChipSet
<1>2. CASE CAL!DayPasses
  <2>1. TodayInv'
    BY <1>2, TodayGoes
  <2>2. sound' = sound
    BY <1>2 DEF CAL!DayPasses
  <2>3. sound => InStep'
    BY <1>2, ChipGoes
  <2> QED
    BY <2>1, <2>2, <2>3 DEF CALInv
<1>3. CASE UNCHANGED calVars
  BY <1>3 DEF calVars, CALInv, TodayInv, InStep
<1> QED
  BY <1>1, <1>2, <1>3 DEF CAL!Next

(* The chip's register has two digits for as long as the model goes on. *)
LEMMA TwoDigits ==
    ASSUME CAL!CalendarConstants, CALInv, sound
    PROVE  chip.y \in 18..99
<1>1. chip \in Date /\ chip.y >= 18 /\ today \in Date
  BY DEF CALInv, TodayInv, InStep
<1>2. PICK y \in Int, m \in 1..12, d \in 1..31 : y = chip.y /\ m = chip.m /\ d = chip.d
  BY <1>1 DEF Date
<1>3. PICK ty \in Int, tm \in 1..12, td \in 1..31 : ty = today.y /\ tm = today.m /\ td = today.d
  BY <1>1 DEF Date
<1>4. ty <= 2080
  <2>1. today.y \in 2000..LastYear
    BY DEF CALInv, TodayInv
  <2>2. LastYear \in Int /\ LastYear <= 2080
    BY DEF CAL!CalendarConstants
  <2> QED
    BY <1>3, <2>1, <2>2
<1>5. CAL!DayNumber(today) <= 29585 /\ CAL!DayNumber(today) \in Int
  <2> DEFINE b == CAL!BeforeMonth[tm]
  <2>1. CAL!DayNumber(today) = Days(ty, tm, td)
    BY <1>3, NumberOfDate
  <2>2. Days(ty, tm, td) = Years(ty) + b + Extra(ty, tm) + td - 1
    BY Zenon DEF Days, Years, Extra
  <2>3. b \in 0..334
    BY Zenon, Months
  <2>4. Extra(ty, tm) \in 0..1
    BY DEF Extra
  <2>5. Years(ty) <= 29220 /\ Years(ty) \in Int
    BY <1>4 DEF Years
  <2> HIDE DEF b
  <2> QED
    BY <2>1, <2>2, <2>3, <2>4, <2>5
<1>6. ChipDay(chip) <= 36160
  <2>1. ChipDay(chip) \in Int
    BY <1>1, NumbersAre
  <2>2. ChipDay(chip) - CAL!DayNumber(today) \in 6574..6575
    BY DEF CALInv, InStep
  <2> QED
    BY <1>5, <2>1, <2>2
<1>7. ChipDay(chip) >= Years(y + 2000) - 1
  <2> DEFINE b == CAL!BeforeMonth[m]
  <2>1. ChipDay(chip) = Days(y + 2000, m, d) - (IF Beyond(chip) THEN 1 ELSE 0)
    <3>1. ChipDay(chip)
              = Days(chip.y + 2000, chip.m, chip.d) - (IF Beyond(chip) THEN 1 ELSE 0)
      BY Zenon DEF ChipDay
    <3> QED
      BY <1>2, <3>1
  <2>2. Days(y + 2000, m, d) = Years(y + 2000) + b + Extra(y + 2000, m) + d - 1
    BY Zenon DEF Days, Years, Extra
  <2>3. b \in 0..334
    BY Zenon, Months
  <2>4. Extra(y + 2000, m) \in 0..1 /\ Years(y + 2000) \in Int
    BY DEF Extra, Years
  <2>5. ChipDay(chip) \in Int
    BY <1>1, NumbersAre
  <2> HIDE DEF b
  <2> QED
    BY <2>1, <2>2, <2>3, <2>4, <2>5
<1>8. y < 100
  <2>1. Years(y + 2000) = 365 * y + (y + 3) \div 4
    BY DEF Years
  <2>2. ChipDay(chip) \in Int
    BY <1>1, NumbersAre
  <2>3. Years(y + 2000) <= 36161 /\ Years(y + 2000) \in Int
    BY <1>6, <1>7, <2>1, <2>2
  <2> QED
    BY <2>1, <2>3
<1> QED
  BY <1>1, <1>2, <1>8

(* What is read of the chip is 1982 years after its two digits. *)
LEMMA ChipRead ==
    ASSUME NEW c \in Date, c.y \in 18..99
    PROVE  CAL!now(c) = [y |-> c.y + 1982, m |-> c.m, d |-> c.d]
<1>1. 2000 + CAL!Byte(CAL!bcd2bin(CAL!Register(c.y)) - 18) = c.y + 1982
  <2>1. 2000 + CAL!Byte(CAL!bcd2bin(CAL!Register(c.y)) - 18) = 1982 + c.y
    BY RegisterRead
  <2> QED
    BY <2>1
<1>2. CAL!now(c) = [c EXCEPT !.y = 2000 + CAL!Byte(CAL!bcd2bin(CAL!Register(c.y)) - 18)]
  BY DEF CAL!now
<1>3. CAL!now(c) = [c EXCEPT !.y = c.y + 1982]
  BY <1>1, <1>2
<1> QED
  BY <1>3 DEF Date

LEMMA DayRead ==
    ASSUME CAL!CalendarConstants, CALInv
    PROVE  CAL!RTCWithinADay
<1> SUFFICES ASSUME sound
             PROVE  /\ CAL!RTC_get_UNIX_TIME - CAL!DayNumber(today) \in -1..1
                    /\ ~crossed => CAL!RTC_get_UNIX_TIME = CAL!DayNumber(today)
  BY DEF CAL!RTCWithinADay
<1>1. chip \in Date /\ today \in Date /\ chip.d <= CAL!Length(chip.y % 2 = 0, chip.m)
  BY DEF CALInv, TodayInv, InStep
<1>2. PICK w \in Int : w = chip.y + 1982 /\ ReadAs(w, chip.y)
  BY <1>1 DEF Date, ReadAs
<1>3. CAL!RTC_get_UNIX_TIME = Days(w, chip.m, chip.d)
  <2>1. CAL!now(chip) = [y |-> w, m |-> chip.m, d |-> chip.d]
    BY <1>1, <1>2, TwoDigits, ChipRead
  <2>2. CAL!RTC_get_UNIX_TIME = CAL!DayNumber(CAL!now(chip))
    BY DEF CAL!RTC_get_UNIX_TIME
  <2> QED
    BY <2>1, <2>2, NumberOfDate
<1>4. Days(w, chip.m, chip.d) - ChipDay(chip) \in -6575..-6574
  BY <1>1, <1>2, Gap
<1>5. ChipDay(chip) - CAL!DayNumber(today) \in 6574..6575
  BY DEF CALInv, InStep
<1>6. /\ ChipDay(chip) \in Int /\ CAL!DayNumber(today) \in Int
      /\ Days(w, chip.m, chip.d) \in Int
  <2>1. chip.m \in 1..12 /\ chip.d \in Int
    BY <1>1 DEF Date
  <2> QED
    BY <1>1, <2>1, NumbersAre, DaysTypes
<1>7. CAL!RTC_get_UNIX_TIME - CAL!DayNumber(today) \in -1..1
  BY <1>3, <1>4, <1>5, <1>6
<1>8. ASSUME ~crossed
      PROVE  CAL!RTC_get_UNIX_TIME = CAL!DayNumber(today)
  <2>1. SameDate(chip, today)
    BY <1>8 DEF CALInv, InStep
  <2>2. w = today.y /\ chip.m = today.m /\ chip.d = today.d
    BY <1>1, <1>2, <2>1 DEF SameDate, Date
  <2> QED
    BY <1>3, <2>2, NumberOfDate
<1> QED
  BY <1>7, <1>8

(* The real-time clock, once set, tells the right day until the 28th of a February of an      *)
(* even year is over, and later it is wrong by one day at most, over all the years that the    *)
(* two digits of the chip's register can hold (RX8900.cpp:61-63, 274, 296, Utility.cpp:213). *)
THEOREM DayKept == AppsSpec => []RTCWithinADay
<1>1. AppsInit => CALInv
  BY ApplicationsAssumption, CalendarInit DEF AppsInit
<1>2. CALInv /\ [AppsNext]_appsVars => CALInv'
  BY PartSteps, CalendarKept
<1>3. CALInv => RTCWithinADay
  BY ApplicationsAssumption, DayRead DEF RTCWithinADay
<1> QED
  BY <1>1, <1>2, <1>3, PTL DEF AppsSpec

-------------------------------------------------------------------------------
(* The record of telemetry. *)

LEMMA Appended ==
    ASSUME NEW s, s \in Seq(Values(s)), NEW q
    PROVE  /\ Len(s) \in Nat /\ DOMAIN s = 1..Len(s)
           /\ DOMAIN Append(s, q) = 1..(Len(s) + 1)
           /\ \A k \in 1..Len(s) : Append(s, q)[k] = s[k]
           /\ Append(s, q)[Len(s) + 1] = q
           /\ Append(s, q) \in Seq(Values(Append(s, q)))
<1> DEFINE V == Values(s) \cup {q}
           t == Append(s, q)
<1>1. Len(s) \in Nat /\ DOMAIN s = 1..Len(s)
  OBVIOUS
<1>2. s \in Seq(V)
  <2>1. \A k \in 1..Len(s) : s[k] \in V
    BY <1>1 DEF Values
  <2> QED
    BY <1>1, <2>1
<1>3. /\ t \in Seq(V) /\ Len(t) = Len(s) + 1
      /\ \A k \in 1..Len(s) : t[k] = s[k]
      /\ t[Len(s) + 1] = q
  BY <1>1, <1>2
<1> HIDE DEF t
<1>4. DOMAIN t = 1..(Len(s) + 1)
  BY <1>1, <1>3
<1>5. t \in Seq(Values(t))
  <2>1. \A k \in 1..Len(t) : t[k] \in Values(t)
    BY <1>3, <1>4 DEF Values
  <2> QED
    BY <1>3, <2>1
<1> QED
  BY <1>1, <1>3, <1>4, <1>5 DEF t

LEMMA RecordStays ==
    ASSUME RecordInv, pages' = pages, made' \in {made, made + 1}
    PROVE  RecordInv'
<1>1. made \in Nat /\ made' \in Nat /\ made <= made'
  BY DEF RecordInv, RecordTypes
<1>2. RecordTypes'
  BY <1>1 DEF RecordInv, RecordTypes, Values
<1>3. RecordMarked'
  BY <1>1 DEF RecordInv, RecordMarked
<1>4. RecordedOnce'
  BY DEF RecordInv, RecordedOnce
<1> QED
  BY <1>2, <1>3, <1>4 DEF RecordInv

(* A packet that is new is recorded. *)
LEMMA Recorded ==
    ASSUME RecordInv, NEW q, NEW mem \in Memories, q.mark = "dr", q.made = made + 1,
           made' = made + 1, pages' = [pages EXCEPT ![mem] = Append(@, q)]
    PROVE  RecordInv'
<1>1. made \in Nat /\ made + 1 \in 1..(made + 1) /\ 1..made \subseteq 1..(made + 1)
  BY DEF RecordInv, RecordTypes
<1>2. /\ pages' = [m \in Memories |-> pages'[m]] /\ DOMAIN pages' = Memories
      /\ pages'[mem] = Append(pages[mem], q)
      /\ \A m \in Memories \ {mem} : pages'[m] = pages[m]
  BY DEF RecordInv, RecordTypes
<1> DEFINE s == pages[mem]
<1>3. /\ Len(s) \in Nat /\ DOMAIN s = 1..Len(s)
      /\ DOMAIN pages'[mem] = 1..(Len(s) + 1)
      /\ \A k \in 1..Len(s) : pages'[mem][k] = s[k]
      /\ pages'[mem][Len(s) + 1] = q
      /\ pages'[mem] \in Seq(Values(pages'[mem]))
  <2>1. s \in Seq(Values(s))
    BY DEF RecordInv, RecordTypes
  <2> HIDE DEF s
  <2>2. pages'[mem] = Append(s, q)
    BY <1>2 DEF s
  <2> DEFINE t == Append(s, q)
  <2>3. /\ Len(s) \in Nat /\ DOMAIN s = 1..Len(s) /\ DOMAIN t = 1..(Len(s) + 1)
        /\ \A k \in 1..Len(s) : t[k] = s[k]
        /\ t[Len(s) + 1] = q /\ t \in Seq(Values(t))
    BY <2>1, Appended
  <2> HIDE DEF t
  <2>4. pages'[mem] = t
    BY <2>2 DEF t
  <2> QED
    BY Zenon, <2>3, <2>4
<1>4. RecordTypes'
  <2>1. \A m \in Memories : pages'[m] \in Seq(Values(pages'[m]))
    BY <1>2, <1>3 DEF RecordInv, RecordTypes
  <2>2. \A m \in Memories : (pages[m] \in Seq(Values(pages[m])))'
    BY <2>1 DEF Values
  <2> QED
    BY <1>1, <1>2, <2>2 DEF RecordTypes
(* What a page holds was there before, or is the new packet. *)
<1> DEFINE Old(m, k) == k \in DOMAIN pages[m] /\ pages'[m][k] = pages[m][k]
           New(m, k) == m = mem /\ k = Len(s) + 1 /\ pages'[m][k] = q
<1>5. ASSUME NEW m \in Memories, NEW k \in DOMAIN pages'[m]
      PROVE  Old(m, k) \/ New(m, k)
  <2>1. CASE m = mem
    BY <1>3, <2>1
  <2>2. CASE m # mem
    BY <1>2, <2>2
  <2> QED
    BY <2>1, <2>2
<1>6. \A m \in Memories : \A k \in DOMAIN pages[m] :
          pages[m][k].mark = "dr" /\ pages[m][k].made \in 1..made
  BY DEF RecordInv, RecordMarked
<1> HIDE DEF s
<1>7. RecordMarked'
  <2> SUFFICES ASSUME NEW m \in Memories, NEW k \in DOMAIN pages'[m]
               PROVE  pages'[m][k].mark = "dr" /\ pages'[m][k].made \in 1..(made + 1)
    BY DEF RecordMarked
  <2>1. CASE Old(m, k)
    BY <1>1, <1>6, <2>1
  <2>2. CASE New(m, k)
    BY <1>1, <2>2
  <2> QED
    BY <1>5, <2>1, <2>2
<1>8. RecordedOnce'
  <2> SUFFICES ASSUME NEW m1 \in Memories, NEW m2 \in Memories,
                      NEW k1 \in DOMAIN pages'[m1], NEW k2 \in DOMAIN pages'[m2],
                      pages'[m1][k1].made = pages'[m2][k2].made
               PROVE  m1 = m2 /\ k1 = k2
    BY DEF RecordedOnce
  <2>1. CASE Old(m1, k1) /\ Old(m2, k2)
    BY <2>1 DEF RecordInv, RecordedOnce
  <2>2. CASE New(m1, k1) /\ New(m2, k2)
    BY <2>2
  <2>3. CASE Old(m1, k1) /\ New(m2, k2)
    BY <1>1, <1>6, <2>3
  <2>4. CASE New(m1, k1) /\ Old(m2, k2)
    BY <1>1, <1>6, <2>4
  <2> QED
    BY <1>5, <2>1, <2>2, <2>3, <2>4
<1> QED
  BY <1>4, <1>7, <1>8 DEF RecordInv

(* A packet that has just been made, on its way to add_rt_tlm or into a memory.            *)
Fresh(p) == Marked(p).mark = "dr" /\ Marked(p).made = made + 1

LEMMA PacketFresh ==
    ASSUME NEW id, NEW mode
    PROVE  Fresh(Packet(id, mode))
BY DEF Fresh, Marked, Packet

LEMMA WriteKeeps ==
    ASSUME RecordInv, NEW p, Fresh(p), NEW mem \in Memories, made' = made + 1,
           pages' = DR_PacketWrite(mem, p)
    PROVE  RecordInv'
BY Recorded DEF Fresh, DR_PacketWrite

LEMMA AddKeeps ==
    ASSUME RecordInv, NEW p, Fresh(p), made' = made + 1, add_rt_tlm(p)
    PROVE  RecordInv'
<1>1. CASE AlsoRecorded(p)
  <2>1. pages' = DR_PacketWrite("hk", p) /\ "hk" \in Memories
    BY <1>1 DEF add_rt_tlm, Memories
  <2> QED
    BY <2>1, WriteKeeps
<1>2. CASE ~AlsoRecorded(p)
  <2>1. pages' = pages /\ made' \in {made, made + 1}
    BY <1>2 DEF add_rt_tlm
  <2> QED
    BY <2>1, RecordStays
<1> QED
  BY <1>1, <1>2

LEMMA RegisterKeepsRecord ==
    ASSUME RecordInv, NEW id, OBC_TlmRegister(id)
    PROVE  RecordInv'
BY PacketFresh, AddKeeps DEF OBC_TlmRegister, MakeTlmPacket

LEMMA RecordKept ==
    ASSUME RecordInv, Next \/ UNCHANGED vars
    PROVE  RecordInv'
<1>1. CASE OBC_tlm_generator
  BY <1>1, RegisterKeepsRecord DEF OBC_tlm_generator
<1>2. CASE st_tlm_generator
  <2>1. made' = made + 1 /\ pages' = DR_PacketWrite("hk", Packet(CCP_OBC_TLM_ID, TLM_DR))
    BY <1>2 DEF st_tlm_generator, MakeTlmPacket
  <2> QED
    BY <2>1, PacketFresh, WriteKeeps, "hk" \in Memories DEF Memories
<1>3. CASE \E id \in MissionIds : MSN_packet_handler(id)
  <2>1. PICK id \in MissionIds : MSN_packet_handler(id)
    BY <1>3
  <2> DEFINE p == [id |-> id, mark |-> "tlm", count |-> 0, made |-> made + 1, bytes |-> <<>>]
  <2>2. made' = made + 1 /\ (pages' = DR_PacketWrite("msn", p) \/ add_rt_tlm(p))
    BY <2>1 DEF MSN_packet_handler
  <2>3. Fresh(p)
    BY DEF Fresh, Marked
  <2> HIDE DEF p
  <2> QED
    BY <2>2, <2>3, AddKeeps, WriteKeeps, "msn" \in Memories DEF Memories
<1>4. CASE PH_send_realtime_telemetry
  BY <1>4, RecordStays DEF PH_send_realtime_telemetry
<1>5. CASE Request
  <2>1. PICK id \in Requested : OBC_TlmRegister(id) \/ LoRa_ObcTlmSend(id)
    BY <1>5 DEF Request
  <2> QED
    BY <2>1, RegisterKeepsRecord, RecordStays DEF LoRa_ObcTlmSend, SendsAtOnce, MakeTlmPacket
<1>6. CASE OBC_TlmSend
  BY <1>6, RecordStays DEF OBC_TlmSend, SendsAtOnce, MakeTlmPacket
<1>7. CASE Switch
  BY <1>7, RecordStays DEF Switch
<1>8. CASE Replay
  <2>0. PICK m \in Memories : \E k \in DOMAIN pages[m] : DR_Replay(m, k)
    BY <1>8 DEF Replay
  <2>1. PICK k \in DOMAIN pages[m] : DR_Replay(m, k)
    BY <2>0
  <2>2. ~AlsoRecorded(pages[m][k])
    BY DEF AlsoRecorded, RecordInv, RecordMarked
  <2>3. pages' = pages /\ made' = made
    BY <2>1, <2>2 DEF DR_Replay, add_rt_tlm
  <2> QED
    BY <2>3, RecordStays
<1>9. CASE UNCHANGED vars
  BY <1>9, RecordStays DEF vars
<1>10. CASE Restart
  BY <1>10, RecordStays DEF Restart
<1> QED
  BY <1>1, <1>2, <1>3, <1>4, <1>5, <1>6, <1>7, <1>8, <1>9, <1>10 DEF Next, Command

LEMMA RecordAlways == AppsSpec => []RecordInv
<1>1. AppsInit => RecordInv
  <2> SUFFICES ASSUME AppsInit PROVE RecordInv
    OBVIOUS
  <2>1. made = 0 /\ pages = [m \in Memories |-> <<>>]
    BY DEF AppsInit, Init
  <2>2. \A m \in Memories : pages[m] = <<>> /\ DOMAIN pages[m] = {}
    BY <2>1
  <2>3. \A m \in Memories : pages[m] \in Seq(Values(pages[m]))
    <3>1. \A S : <<>> \in Seq(S)
      OBVIOUS
    <3> QED
      BY Zenon, <2>2, <3>1
  <2> QED
    BY <2>1, <2>2, <2>3 DEF RecordInv, RecordTypes, RecordMarked, RecordedOnce
<1>2. RecordInv /\ [AppsNext]_appsVars => RecordInv'
  BY PartSteps, RecordKept
<1> QED
  BY <1>1, <1>2, PTL DEF AppsSpec

(* No packet is in the record twice, however long it is recorded, transmitted and read back:   *)
(* for all frames, tables of forwarded packets and sizes of the list                            *)
(* (PacketHandler.cpp:326-372, DataRecorderManager.cpp:153-214).                        *)
THEOREM NoDuplicates == AppsSpec => []RecordedOnce
<1>1. RecordInv => RecordedOnce
  BY DEF RecordInv
<1> QED
  BY <1>1, RecordAlways, PTL

-------------------------------------------------------------------------------
(* The numbers of the periodic packets. *)

LEMMA NumbersStay ==
    ASSUME NumberInv, pages'["hk"] = pages["hk"], DrTlmCount' = DrTlmCount, began' = began
    PROVE  NumberInv'
BY DEF NumberInv, CountTypes, LastNumber, RecordNumbered

(* A packet q goes into the record: a periodic one has the next number, and any other       *)
(* leaves the count alone.                                                        *)
LEMMA NumberedOn ==
    ASSUME RecordInv, NumberInv, NEW q, pages'["hk"] = Append(pages["hk"], q),
           DrTlmCount' \in [Ids -> Nat], began' = began,
           LET c == DrTlmCount[CCP_OBC_TLM_ID]
           IN  IF q.id = CCP_OBC_TLM_ID
               THEN q.count = (c + 1) % Wrap /\ DrTlmCount'[CCP_OBC_TLM_ID] = (c + 1) % Wrap
               ELSE DrTlmCount'[CCP_OBC_TLM_ID] = c
    PROVE  NumberInv'
<1> DEFINE s == pages["hk"]
           t == pages'["hk"]
           n == Len(s)
           b == began
           c == DrTlmCount[CCP_OBC_TLM_ID]
           c2 == DrTlmCount'[CCP_OBC_TLM_ID]
           P(k) == PeriodicIn(s, k, b)
           Q(k) == PeriodicIn(t, k, b)
<1>1. s \in Seq(Values(s))
  BY "hk" \in Memories DEF RecordInv, RecordTypes, Memories
<1>2. /\ n \in Nat /\ DOMAIN s = 1..n /\ DOMAIN t = 1..(n + 1) /\ Len(t) = n + 1
      /\ \A k \in 1..n : t[k] = s[k]
      /\ t[n + 1] = q
  <2> HIDE DEF s
  <2>1. t = Append(s, q) /\ Append(s, q) \in Seq(Values(Append(s, q)))
    BY <1>1, Appended DEF s
  <2>2. Len(t) \in Nat /\ DOMAIN t = 1..Len(t)
    BY <2>1
  <2> HIDE DEF t
  <2> QED
    BY <1>1, <2>1, <2>2, Appended
<1>3. b \in Nat /\ b <= n
  BY DEF NumberInv, CountTypes
<1>4. /\ \A k \in 1..n : Q(k) <=> P(k)
      /\ Q(n + 1) <=> q.id = CCP_OBC_TLM_ID
  BY <1>2, <1>3 DEF PeriodicIn
<1>5. /\ (\A k \in 1..n : ~P(k)) => c = 0
      /\ \A k \in 1..n : P(k) /\ (\A j \in 1..n : P(j) => j <= k) => s[k].count = c
  BY <1>2 DEF NumberInv, LastNumber, LastOf, NoneYet
<1>6. /\ \A k \in 1..n : P(k) /\ (\A j \in 1..n : P(j) => j >= k) => s[k].count = 1 % Wrap
      /\ \A k1, k2 \in 1..n :
             /\ P(k1) /\ P(k2) /\ k1 < k2
             /\ \A k \in 1..n : P(k) => k <= k1 \/ k >= k2
             => s[k2].count = (s[k1].count + 1) % Wrap
  BY <1>2 DEF NumberInv, RecordNumbered, PeriodicIn
<1>7. IF q.id = CCP_OBC_TLM_ID THEN q.count = (c + 1) % Wrap /\ c2 = (c + 1) % Wrap ELSE c2 = c
  OBVIOUS
<1>8. CountTypes'
  BY <1>2, <1>3 DEF CountTypes
<1> HIDE DEF s, t, n, b, c, c2, P, Q
<1>9. 1..n \subseteq 1..(n + 1) /\ n + 1 \in 1..(n + 1) /\ \A k \in 1..(n + 1) : k \in 1..n \/ k = n + 1
  BY <1>2
<1>10. (\A k \in 1..(n + 1) : ~Q(k)) => c2 = 0
  BY <1>4, <1>5, <1>7, <1>9
<1>11. ASSUME NEW k \in 1..(n + 1), Q(k), \A j \in 1..(n + 1) : Q(j) => j <= k
       PROVE  t[k].count = c2
  <2>1. CASE k = n + 1
    BY <1>2, <1>4, <1>7, <1>11, <2>1
  <2>2. CASE k # n + 1
    <3>1. k \in 1..n /\ ~Q(n + 1)
      BY <1>2, <1>9, <1>11, <2>2
    <3>2. s[k].count = c
      BY <1>4, <1>5, <1>9, <1>11, <3>1
    <3> QED
      BY <1>2, <1>4, <1>7, <3>1, <3>2
  <2> QED
    BY <2>1, <2>2
<1>12. ASSUME NEW k \in 1..(n + 1), Q(k), \A j \in 1..(n + 1) : Q(j) => j >= k
       PROVE  t[k].count = 1 % Wrap
  <2>1. CASE k = n + 1
    <3>1. \A j \in 1..n : ~P(j)
      BY <1>2, <1>4, <1>9, <1>12, <2>1
    <3>2. q.id = CCP_OBC_TLM_ID /\ c = 0
      BY <1>4, <1>5, <1>12, <2>1, <3>1
    <3>3. q.count = (0 + 1) % Wrap
      BY <1>7, <3>2
    <3> QED
      BY <1>2, <2>1, <3>3
  <2>2. CASE k # n + 1
    <3>1. k \in 1..n
      BY <1>9, <2>2
    <3>2. s[k].count = 1 % Wrap
      BY <1>4, <1>6, <1>9, <1>12, <3>1
    <3> QED
      BY <1>2, <3>1, <3>2
  <2> QED
    BY <2>1, <2>2
<1>13. ASSUME NEW k1 \in 1..(n + 1), NEW k2 \in 1..(n + 1), Q(k1), Q(k2), k1 < k2,
              \A k \in 1..(n + 1) : Q(k) => k <= k1 \/ k >= k2
       PROVE  t[k2].count = (t[k1].count + 1) % Wrap
  <2>0. k1 \in 1..n /\ P(k1)
    BY <1>2, <1>4, <1>13
  <2>1. CASE k2 = n + 1
    <3>1. q.count = (c + 1) % Wrap
      BY <1>4, <1>7, <1>13, <2>1
    <3>2. \A j \in 1..n : P(j) => j <= k1
      <4> SUFFICES ASSUME NEW j \in 1..n, P(j) PROVE j <= k1
        OBVIOUS
      <4>1. Q(j) /\ j \in 1..(n + 1) /\ ~(j >= k2)
        BY <1>2, <1>4, <2>1
      <4> QED
        BY <1>13, <4>1
    <3>3. s[k1].count = c
      BY <1>5, <2>0, <3>2
    <3> QED
      BY <1>2, <2>0, <2>1, <3>1, <3>3
  <2>2. CASE k2 # n + 1
    <3>1. k2 \in 1..n /\ P(k2)
      BY <1>4, <1>9, <1>13, <2>2
    <3>2. \A k \in 1..n : P(k) => k <= k1 \/ k >= k2
      BY <1>4, <1>9, <1>13
    <3>3. s[k2].count = (s[k1].count + 1) % Wrap
      BY <1>6, <1>13, <2>0, <3>1, <3>2
    <3> QED
      BY <1>2, <2>0, <3>1, <3>3
  <2> QED
    BY <2>1, <2>2
<1>14. LastNumber'
  <2>1. /\ (\A k \in DOMAIN t : ~PeriodicIn(t, k, b)) => c2 = 0
        /\ \A k \in DOMAIN t : LastOf(t, b, k) => t[k].count = c2
    BY <1>2, <1>10, <1>11 DEF LastOf, Q
  <2> QED
    BY <2>1 DEF LastNumber, NoneYet, t, b, c2
<1>15. RecordNumbered'
  <2> DEFINE Run == {k \in DOMAIN t : k > b /\ t[k].id = CCP_OBC_TLM_ID}
  <2>1. \A k : k \in Run <=> k \in 1..(n + 1) /\ Q(k)
    BY <1>2 DEF Q, PeriodicIn
  <2> HIDE DEF Run
  <2>2. \A k \in Run : (\A j \in Run : j >= k) => t[k].count = 1 % Wrap
    BY <1>12, <2>1
  <2>3. \A k1, k2 \in Run :
          k1 < k2 /\ (\A k \in Run : k <= k1 \/ k >= k2)
            => t[k2].count = (t[k1].count + 1) % Wrap
    BY <1>13, <2>1
  <2> QED
    BY <2>2, <2>3 DEF RecordNumbered, Run, t, b
<1> QED
  BY <1>8, <1>14, <1>15 DEF NumberInv

(* A restart begins a new run. *)
LEMMA RestartNumbers ==
    ASSUME RecordInv, Restart
    PROVE  NumberInv'
<1> DEFINE s == pages["hk"]
<1>1. /\ DrTlmCount' = [id \in Ids |-> 0] /\ began' = Len(s) /\ pages' = pages
  BY DEF Restart, NoneOf
<1>2. s \in Seq(Values(s))
  BY "hk" \in Memories DEF RecordInv, RecordTypes, Memories
<1>3. /\ DOMAIN s = 1..Len(s) /\ Len(s) \in Nat
      /\ \A k \in DOMAIN s : ~(k > Len(s))
  <2> HIDE DEF s
  <2> QED
    BY <1>2
<1>4. CountTypes'
  BY <1>1, <1>3 DEF CountTypes
<1>5. CCP_OBC_TLM_ID \in Ids
  BY DEF CCP_OBC_TLM_ID, Ids
<1>6. DrTlmCount'[CCP_OBC_TLM_ID] = 0
  BY <1>1, <1>5
<1>7. LastNumber'
  BY <1>1, <1>3, <1>6 DEF LastNumber, LastOf, PeriodicIn
<1>8. RecordNumbered'
  BY <1>1, <1>3 DEF RecordNumbered
<1> QED
  BY <1>4, <1>7, <1>8 DEF NumberInv

(* What a packet that add_rt_tlm records, or none, means for the numbers: it is not a       *)
(* periodic one.                                                                   *)
LEMMA AddKeepsNumbers ==
    ASSUME RecordInv, NumberInv, NEW p, add_rt_tlm(p), DrTlmCount' \in [Ids -> Nat],
           began' = began,
           DrTlmCount'[CCP_OBC_TLM_ID] = DrTlmCount[CCP_OBC_TLM_ID],
           AlsoRecorded(p) => Marked(p).id # CCP_OBC_TLM_ID
    PROVE  NumberInv'
<1>1. CASE AlsoRecorded(p)
  <2>1. pages' = DR_PacketWrite("hk", p) /\ Marked(p).id # CCP_OBC_TLM_ID
    BY <1>1 DEF add_rt_tlm
  <2>2. pages'["hk"] = Append(pages["hk"], Marked(p))
    BY <2>1, "hk" \in Memories DEF DR_PacketWrite, RecordInv, RecordTypes, Memories
  <2> QED
    BY <2>1, <2>2, NumberedOn
<1>2. CASE ~AlsoRecorded(p)
  <2>1. pages'["hk"] = pages["hk"]
    BY <1>2 DEF add_rt_tlm
  <2> QED
    BY <2>1 DEF NumberInv, CountTypes, LastNumber, RecordNumbered
<1> QED
  BY <1>1, <1>2

LEMMA CountsOfFrames ==
    ASSUME CountTypes, NEW id \in Ids
    PROVE  /\ Counts(id, TLM_REAL)[TLM_DR] = DrTlmCount
           /\ Counts(id, TLM_DR)[TLM_DR] = [DrTlmCount EXCEPT ![id] = (@ + 1) % Wrap]
           /\ Counts(id, TLM_DR)[TLM_DR] \in [Ids -> Nat]
<1>1. (DrTlmCount[id] + 1) % Wrap \in Nat
  BY TelemetryAssumption DEF TelemetryAssumption, CountTypes
<1>2. /\ Counts(id, TLM_REAL)[TLM_DR] = DrTlmCount
      /\ Counts(id, TLM_DR)[TLM_DR] = [DrTlmCount EXCEPT ![id] = (@ + 1) % Wrap]
  BY DEF Counts, TLM_REAL, TLM_DR
<1> QED
  BY <1>1, <1>2 DEF CountTypes

LEMMA RegisterKeepsNumbers ==
    ASSUME RecordInv, NumberInv, NEW id \in Ids, OBC_TlmRegister(id)
    PROVE  NumberInv'
<1>1. DrTlmCount' = DrTlmCount /\ began' = began
  BY CountsOfFrames DEF OBC_TlmRegister, MakeTlmPacket, NumberInv
<1> DEFINE p == Packet(id, TLM_REAL)
<1>2. add_rt_tlm(p)
  BY DEF OBC_TlmRegister
<1>3. Marked(p).id = p.id
  BY DEF Marked, Packet
<1> HIDE DEF p
<1> QED
  BY <1>1, <1>2, <1>3, AddKeepsNumbers DEF NumberInv, CountTypes, AlsoRecorded

LEMMA SendsKeepsNumbers ==
    ASSUME NumberInv, NEW id \in Ids, SendsAtOnce(id)
    PROVE  NumberInv'
BY CountsOfFrames, NumbersStay DEF SendsAtOnce, MakeTlmPacket, NumberInv

LEMMA NumbersKept ==
    ASSUME RecordInv, NumberInv, Next \/ UNCHANGED vars
    PROVE  NumberInv'
<1> CCP_OBC_TLM_ID \in Ids /\ Requested \subseteq Ids
  BY TelemetryAssumption DEF TelemetryAssumption, CCP_OBC_TLM_ID, Ids
<1>1. CASE OBC_tlm_generator
  BY <1>1, RegisterKeepsNumbers DEF OBC_tlm_generator
<1>2. CASE st_tlm_generator
  <2> DEFINE q == Marked(Packet(CCP_OBC_TLM_ID, TLM_DR))
             c == DrTlmCount[CCP_OBC_TLM_ID]
  <2>1. pages'["hk"] = Append(pages["hk"], q)
    BY <1>2, "hk" \in Memories
    DEF st_tlm_generator, DR_PacketWrite, RecordInv, RecordTypes, Memories
  <2>2. /\ DrTlmCount' = [DrTlmCount EXCEPT ![CCP_OBC_TLM_ID] = (@ + 1) % Wrap]
        /\ DrTlmCount' \in [Ids -> Nat]
        /\ DrTlmCount' = Counts(CCP_OBC_TLM_ID, TLM_DR)[TLM_DR]
        /\ began' = began
    BY <1>2, CountsOfFrames DEF st_tlm_generator, MakeTlmPacket, NumberInv
  <2>3. DrTlmCount'[CCP_OBC_TLM_ID] = (c + 1) % Wrap
    BY <2>2 DEF NumberInv, CountTypes
  <2>4. q.id = CCP_OBC_TLM_ID /\ q.count = Counts(CCP_OBC_TLM_ID, TLM_DR)[TLM_DR][CCP_OBC_TLM_ID]
    BY DEF Marked, Packet
  <2>5. q.count = (c + 1) % Wrap
    BY <2>2, <2>3, <2>4
  <2> HIDE DEF q
  <2> QED
    BY <2>1, <2>2, <2>3, <2>4, <2>5, NumberedOn
<1>3. CASE \E id \in MissionIds : MSN_packet_handler(id)
  <2>1. PICK id \in MissionIds : MSN_packet_handler(id)
    BY <1>3
  <2> DEFINE p == [id |-> id, mark |-> "tlm", count |-> 0, made |-> made + 1, bytes |-> <<>>]
  <2>2. DrTlmCount' = DrTlmCount /\ began' = began /\ (pages' = DR_PacketWrite("msn", p) \/ add_rt_tlm(p))
    BY <2>1 DEF MSN_packet_handler, counts
  <2>3. CASE add_rt_tlm(p)
    <3>1. Marked(p).id = p.id
      BY DEF Marked
    <3> HIDE DEF p
    <3> QED
      BY <2>2, <2>3, <3>1, AddKeepsNumbers DEF NumberInv, CountTypes, AlsoRecorded
  <2>4. CASE pages' = DR_PacketWrite("msn", p)
    BY <2>2, <2>4, NumbersStay DEF DR_PacketWrite, RecordInv, RecordTypes, Memories
  <2> QED
    BY <2>2, <2>3, <2>4
<1>4. CASE PH_send_realtime_telemetry
  BY <1>4, NumbersStay DEF PH_send_realtime_telemetry, counts
<1>5. CASE Request
  <2>1. PICK id \in Requested : OBC_TlmRegister(id) \/ LoRa_ObcTlmSend(id)
    BY <1>5 DEF Request
  <2> QED
    BY <2>1, RegisterKeepsNumbers, SendsKeepsNumbers DEF LoRa_ObcTlmSend
<1>6. CASE OBC_TlmSend
  BY <1>6, SendsKeepsNumbers DEF OBC_TlmSend
<1>7. CASE Switch
  BY <1>7, NumbersStay DEF Switch, counts
<1>8. CASE Replay
  <2>0. PICK m \in Memories : \E k \in DOMAIN pages[m] : DR_Replay(m, k)
    BY <1>8 DEF Replay
  <2>1. PICK k \in DOMAIN pages[m] : DR_Replay(m, k)
    BY <2>0
  <2>2. add_rt_tlm(pages[m][k]) /\ DrTlmCount' = DrTlmCount /\ began' = began
    BY <2>1 DEF DR_Replay, counts
  <2>3. ~AlsoRecorded(pages[m][k])
    BY DEF AlsoRecorded, RecordInv, RecordMarked
  <2> QED
    BY <2>2, <2>3, AddKeepsNumbers DEF NumberInv, CountTypes
<1>9. CASE UNCHANGED vars
  BY <1>9, NumbersStay DEF vars, counts
<1>10. CASE Restart
  BY <1>10, RestartNumbers
<1> QED
  BY <1>1, <1>2, <1>3, <1>4, <1>5, <1>6, <1>7, <1>8, <1>9, <1>10 DEF Next, Command

(* The periodic packets recorded since a restart are numbered from 1 on, modulo the size of   *)
(* the count, whatever is transmitted, requested, sent by the mission and read back in        *)
(* between (tlm_frame.cpp:54-64).                                                    *)
THEOREM CountsFollow == AppsSpec => []RecordNumbered
<1>1. AppsInit => NumberInv
  <2> SUFFICES ASSUME AppsInit PROVE NumberInv
    OBVIOUS
  <2>1. /\ DrTlmCount = [id \in Ids |-> 0] /\ pages = [m \in Memories |-> <<>>]
        /\ began = 0
    BY DEF AppsInit, Init, NoneOf
  <2>2. pages["hk"] = <<>> /\ DOMAIN pages["hk"] = {} /\ Len(pages["hk"]) = 0
    BY <2>1, "hk" \in Memories DEF Memories
  <2>3. DrTlmCount[CCP_OBC_TLM_ID] = 0
    <3>1. CCP_OBC_TLM_ID \in Ids
      BY DEF CCP_OBC_TLM_ID, Ids
    <3> QED
      BY <2>1, <3>1
  <2>4. CountTypes
    BY <2>1, <2>2 DEF CountTypes
  <2>5. LastNumber
    BY <2>2, <2>3 DEF LastNumber, LastOf
  <2>6. RecordNumbered
    BY <2>2 DEF RecordNumbered
  <2> QED
    BY <2>4, <2>5, <2>6 DEF NumberInv
<1>2. RecordInv /\ NumberInv /\ [AppsNext]_appsVars => NumberInv'
  BY PartSteps, NumbersKept
<1>3. NumberInv => RecordNumbered
  BY DEF NumberInv
<1> QED
  BY <1>1, <1>2, <1>3, RecordAlways, PTL DEF AppsSpec

-------------------------------------------------------------------------------
(* The bytes of the packets. *)

(* What is kept, by its place. *)
LEMMA KeptPlaces ==
    /\ \A k \in DOMAIN rt_tlm_list : rt_tlm_list[k] \in Kept
    /\ \A m \in Memories : \A k \in DOMAIN pages[m] : pages[m][k] \in Kept
    /\ \A p \in Kept : \/ \E k \in DOMAIN rt_tlm_list : p = rt_tlm_list[k]
                      \/ \E m \in Memories : \E k \in DOMAIN pages[m] : p = pages[m][k]
BY DEF Kept

LEMMA CombinedFills ==
    ASSUME BufferType, NEW id, frame' = Written(id)
    PROVE  BufferType'
BY DEF BufferType, Written

LEMMA SameListKeeps ==
    ASSUME WholeInv, pages' = pages, rt_tlm_list' = rt_tlm_list, BufferType'
    PROVE  WholeInv'
<1>1. Kept' = Kept
  BY DEF Kept
<1>2. ListType'
  BY DEF WholeInv, ListType, Values
<1> QED
  BY <1>1, <1>2 DEF WholeInv, Whole

(* What the tables of the frames say of one of them.                                  *)

LEMMA FrameFacts ==
    ASSUME NEW id \in Ids
    PROVE  /\ OwnBytes(id) \subseteq 0..(DATA_PACKET_SIZE - 1)
           /\ \A b \in OwnBytes(id) : FieldAt[id][b] \in 0..(DATA_PACKET_SIZE - 1)
           /\ \A f \in Fields[id] : \A b \in Bytes(f) : b \in OwnBytes(id) /\ FieldAt[id][b] = f.at
BY Zenon, FramesAssumption DEF FramesWhole, OwnBytes

(* A packet of a frame that has just been combined is whole.                           *)
LEMMA PacketWhole ==
    ASSUME BufferType, made \in Nat, NEW id \in Ids, NEW mode
    PROVE  Whole(Packet(id, mode)) /\ Whole(Marked(Packet(id, mode)))
<1> DEFINE bytes == [b \in OwnBytes(id) |-> Written(id)[b]]
           p == Packet(id, mode)
<1>1. ASSUME NEW b \in OwnBytes(id)
      PROVE  Written(id)[b] = Stamp(made + 1, FieldAt[id][b])
  <2>1. b \in DOMAIN frame
    BY FrameFacts DEF BufferType
  <2>2. FieldAt[id][b] # NotWritten
    BY FrameFacts DEF NotWritten, DATA_PACKET_SIZE
  <2> QED
    BY <2>1, <2>2 DEF Written
<1>2. bytes = OfFrame(id, made + 1)
  BY <1>1 DEF OfFrame
<1>3. bytes = [b \in 0..(TLM_BYTE_COUNT + Returned[id] - 1) |-> Written(id)[b]]
  BY DEF OwnBytes
<1> HIDE DEF bytes
<1>4. p = [id |-> id, mark |-> "tlm", made |-> made + 1, count |-> p.count, bytes |-> bytes]
  BY <1>3 DEF Packet
<1> HIDE DEF p
<1>5. /\ p.id = id /\ p.made = made + 1 /\ p.bytes = bytes
      /\ Marked(p).id = id /\ Marked(p).made = made + 1 /\ Marked(p).bytes = bytes
  BY <1>4 DEF Marked
<1>6. Whole(p) /\ Whole(Marked(p))
  BY <1>2, <1>5 DEF Whole
<1> QED
  BY <1>6 DEF p

(* add_rt_tlm keeps what was kept, and the packet, which the record may mark.             *)
LEMMA AddKept ==
    ASSUME RecordInv, ListType, NEW p, add_rt_tlm(p)
    PROVE  /\ ListType'
           /\ \A q \in Kept' : q \in Kept \/ q = p \/ (AlsoRecorded(p) /\ q = Marked(p))
<1> DEFINE New(q) == q = p \/ (AlsoRecorded(p) /\ q = Marked(p))
           r == IF AlsoRecorded(p) THEN Marked(p) ELSE p
<1>1. /\ New(r)
      /\ rt_tlm_list' \in {rt_tlm_list, <<>>, Append(rt_tlm_list, r)}
  BY DEF add_rt_tlm, PushBack
<1>2. ListType' /\ \A k \in DOMAIN rt_tlm_list' : rt_tlm_list'[k] \in Kept \/ New(rt_tlm_list'[k])
  <2> DEFINE s == rt_tlm_list
             t == rt_tlm_list'
  <2>0. s \in Seq(Values(s)) /\ \A k \in DOMAIN s : s[k] \in Kept
    BY KeptPlaces DEF ListType
  <2>1. CASE t = s
    BY <2>0, <2>1 DEF ListType, Values
  <2>2. CASE t = <<>>
    <3>1. <<>> \in Seq(Values(<<>>)) /\ DOMAIN <<>> = {}
      OBVIOUS
    <3> QED
      BY <2>2, <3>1 DEF ListType, Values
  <2>3. CASE t = Append(s, r)
    <3> HIDE DEF s, t, r
    <3>1. /\ Len(s) \in Nat /\ DOMAIN s = 1..Len(s) /\ DOMAIN t = 1..(Len(s) + 1)
          /\ \A k \in 1..Len(s) : t[k] = s[k]
          /\ t[Len(s) + 1] = r /\ t \in Seq(Values(t))
      BY <2>0, <2>3, Appended
    <3>2. \A k \in DOMAIN t : k \in DOMAIN s \/ k = Len(s) + 1
      BY <3>1
    <3>3. \A k \in DOMAIN t : t[k] \in Kept \/ New(t[k])
      BY <1>1, <2>0, <3>1, <3>2
    <3> QED
      BY <3>1, <3>3 DEF t, ListType, Values
  <2> QED
    BY <1>1, <2>1, <2>2, <2>3
<1>3. ASSUME NEW m \in Memories, NEW k \in DOMAIN pages'[m]
      PROVE  pages'[m][k] \in Kept \/ New(pages'[m][k])
  <2>1. CASE pages'[m] = pages[m]
    BY <1>3, <2>1, KeptPlaces
  <2>2. CASE pages'[m] # pages[m]
    <3>1. AlsoRecorded(p) /\ m = "hk" /\ pages'[m] = Append(pages[m], Marked(p))
      BY <2>2 DEF add_rt_tlm, DR_PacketWrite, RecordInv, RecordTypes
    <3> DEFINE s == pages[m]
               t == pages'[m]
    <3>2. s \in Seq(Values(s))
      BY DEF RecordInv, RecordTypes
    <3> HIDE DEF s
    <3>3. t = Append(s, Marked(p))
      BY <3>1 DEF s
    <3> HIDE DEF t
    <3>4. /\ Len(s) \in Nat /\ DOMAIN s = 1..Len(s) /\ DOMAIN t = 1..(Len(s) + 1)
          /\ \A j \in 1..Len(s) : t[j] = s[j]
          /\ t[Len(s) + 1] = Marked(p)
      BY <3>2, <3>3, Appended
    <3>5. k \in DOMAIN s \/ k = Len(s) + 1
      BY <1>3, <3>4 DEF t
    <3>6. t[k] \in Kept \/ t[k] = Marked(p)
      BY <3>4, <3>5, KeptPlaces DEF s
    <3> QED
      BY <3>1, <3>6 DEF t
  <2> QED
    BY <2>1, <2>2
<1> HIDE DEF New
<1>4. \A q \in Kept' : \/ \E k \in DOMAIN rt_tlm_list' : q = rt_tlm_list'[k]
                       \/ \E m \in Memories : \E k \in DOMAIN pages'[m] : q = pages'[m][k]
  BY DEF Kept
<1>5. \A q \in Kept' : q \in Kept \/ New(q)
  BY <1>2, <1>3, <1>4
<1> QED
  BY <1>2, <1>5 DEF New

LEMMA AddKeepsWhole ==
    ASSUME RecordInv, WholeInv, BufferType', NEW p, add_rt_tlm(p), Whole(p),
           AlsoRecorded(p) => Whole(Marked(p))
    PROVE  WholeInv'
<1>1. ListType' /\ \A q \in Kept' : q \in Kept \/ q = p \/ (AlsoRecorded(p) /\ q = Marked(p))
  BY AddKept DEF WholeInv
<1>2. \A q \in Kept' : Whole(q)
  BY <1>1 DEF WholeInv
<1> QED
  BY <1>1, <1>2 DEF WholeInv, Whole

LEMMA RegisterKeepsWhole ==
    ASSUME RecordInv, WholeInv, NEW id \in Ids, OBC_TlmRegister(id)
    PROVE  WholeInv'
<1> DEFINE p == Packet(id, TLM_REAL)
<1>1. add_rt_tlm(p) /\ frame' = Written(id)
  BY DEF OBC_TlmRegister, MakeTlmPacket
<1>2. BufferType'
  BY <1>1, CombinedFills DEF WholeInv
<1>3. Whole(p) /\ Whole(Marked(p))
  BY PacketWhole DEF WholeInv, RecordInv, RecordTypes
<1> HIDE DEF p
<1> QED
  BY <1>1, <1>2, <1>3, AddKeepsWhole

LEMMA SendsKeepsWhole ==
    ASSUME WholeInv, NEW id, SendsAtOnce(id)
    PROVE  WholeInv'
<1>1. pages' = pages /\ rt_tlm_list' = rt_tlm_list /\ frame' = Written(id)
  BY DEF SendsAtOnce, MakeTlmPacket
<1> QED
  BY <1>1, CombinedFills, SameListKeeps DEF WholeInv

(* A packet that goes into a memory.                                                *)
LEMMA WriteKeepsWhole ==
    ASSUME RecordInv, WholeInv, BufferType', NEW m \in Memories, NEW p, Whole(Marked(p)),
           pages' = DR_PacketWrite(m, p), rt_tlm_list' = rt_tlm_list
    PROVE  WholeInv'
<1> DEFINE s == pages[m]
           q == Marked(p)
<1>1. /\ s \in Seq(Values(s)) /\ pages'[m] = Append(s, q)
      /\ DOMAIN pages' = Memories /\ \A x \in Memories \ {m} : pages'[x] = pages[x]
  BY DEF DR_PacketWrite, RecordInv, RecordTypes
<1>2. /\ DOMAIN pages'[m] = 1..(Len(s) + 1) /\ DOMAIN s = 1..Len(s)
      /\ \A k \in 1..Len(s) : pages'[m][k] = s[k]
      /\ pages'[m][Len(s) + 1] = q
  <2> HIDE DEF s, q
  <2> QED
    BY <1>1, Appended
<1> HIDE DEF q
<1>3. ASSUME NEW x \in Memories, NEW k \in DOMAIN pages'[x]
      PROVE  Whole(pages'[x][k])
  <2>1. CASE x # m
    BY <1>1, <1>3, <2>1, KeptPlaces DEF WholeInv
  <2>2. CASE x = m /\ k \in DOMAIN s
    BY <1>2, <2>2, KeptPlaces DEF WholeInv
  <2>3. CASE x = m /\ k = Len(s) + 1
    BY <1>2, <2>3 DEF q
  <2>4. x = m => k \in DOMAIN s \/ k = Len(s) + 1
    <3> HIDE DEF s
    <3> QED
      BY <1>2, <1>3 DEF s
  <2> QED
    BY <2>1, <2>2, <2>3, <2>4
<1>4. \A k \in DOMAIN rt_tlm_list : Whole(rt_tlm_list[k])
  BY KeptPlaces DEF WholeInv
<1>5. \A r \in Kept' : \/ \E k \in DOMAIN rt_tlm_list' : r = rt_tlm_list'[k]
                       \/ \E x \in Memories : \E k \in DOMAIN pages'[x] : r = pages'[x][k]
  BY DEF Kept
<1>6. \A r \in Kept' : Whole(r)
  BY <1>3, <1>4, <1>5
<1>7. ListType'
  BY DEF WholeInv, ListType, Values
<1> QED
  BY <1>6, <1>7 DEF WholeInv, Whole

(* The head of the list goes back into the buffer, whatever its length.                  *)
LEMMA SentKeepsWhole ==
    ASSUME WholeInv, PH_send_realtime_telemetry
    PROVE  WholeInv'
<1> DEFINE s == rt_tlm_list
           t == rt_tlm_list'
<1>1. /\ s # <<>> /\ t = Tail(s) /\ pages' = pages
      /\ frame' = Over(Head(s).bytes)
  BY DEF PH_send_realtime_telemetry
<1>2. DOMAIN frame' = DOMAIN frame
  BY <1>1 DEF Over
<1>3. BufferType'
  BY <1>2 DEF WholeInv, BufferType
<1>4. s \in Seq(Values(s))
  BY DEF WholeInv, ListType
<1>5. /\ t \in Seq(Values(s)) /\ DOMAIN t = 1..(Len(s) - 1) /\ DOMAIN s = 1..Len(s)
      /\ \A k \in DOMAIN t : t[k] = s[k + 1] /\ k + 1 \in DOMAIN s
  <2>1. t = Tail(s) /\ s # <<>>
    BY <1>1
  <2> HIDE DEF s, t
  <2> QED
    BY <1>4, <2>1
<1>6. ListType'
  <2>1. \A k \in DOMAIN t : t[k] \in Values(t)
    BY Zenon DEF Values
  <2> HIDE DEF s, t
  <2>2. t \in Seq(Values(s))
    BY Zenon, <1>5
  <2>3. DOMAIN t = 1..Len(t)
    BY <2>2
  <2>4. t \in Seq(Values(t))
    BY <2>1, <2>2, <2>3
  <2> QED
    BY <2>4 DEF ListType, Values, t
<1>7. \A k \in DOMAIN t : t[k] \in Kept
  BY <1>5, KeptPlaces
<1>8. \A q \in Kept' : q \in Kept
  BY <1>1, <1>7 DEF Kept
<1> QED
  BY <1>3, <1>6, <1>8 DEF WholeInv, Whole

LEMMA WholeKept ==
    ASSUME RecordInv, WholeInv, Next \/ UNCHANGED vars
    PROVE  WholeInv'
<1> CCP_OBC_TLM_ID \in Ids /\ Requested \subseteq Ids /\ made \in Nat
  BY TelemetryAssumption
  DEF TelemetryAssumption, CCP_OBC_TLM_ID, Ids, RecordInv, RecordTypes
<1>0. ASSUME UNCHANGED <<frame, pages, rt_tlm_list>>
      PROVE  WholeInv'
  BY <1>0, SameListKeeps DEF WholeInv, BufferType
<1>1. CASE OBC_tlm_generator
  BY <1>1, RegisterKeepsWhole DEF OBC_tlm_generator
<1>2. CASE st_tlm_generator
  <2> DEFINE p == Packet(CCP_OBC_TLM_ID, TLM_DR)
  <2>1. /\ pages' = DR_PacketWrite("hk", p) /\ rt_tlm_list' = rt_tlm_list
        /\ frame' = Written(CCP_OBC_TLM_ID)
    BY <1>2 DEF st_tlm_generator, MakeTlmPacket
  <2>2. Whole(Marked(p)) /\ BufferType'
    BY <2>1, PacketWhole, CombinedFills DEF WholeInv
  <2> HIDE DEF p
  <2> QED
    BY <2>1, <2>2, WriteKeepsWhole, "hk" \in Memories DEF Memories
<1>3. CASE \E id \in MissionIds : MSN_packet_handler(id)
  <2>1. PICK id \in MissionIds : MSN_packet_handler(id)
    BY <1>3
  <2> DEFINE p == [id |-> id, mark |-> "tlm", count |-> 0, made |-> made + 1, bytes |-> <<>>]
  <2>2. id \notin Ids
    BY TelemetryAssumption DEF TelemetryAssumption
  <2>3. Whole(p) /\ Whole(Marked(p))
    BY <2>2 DEF Whole, Marked
  <2>4. BufferType' /\ (\/ pages' = DR_PacketWrite("msn", p) /\ rt_tlm_list' = rt_tlm_list
                       \/ add_rt_tlm(p))
    BY <2>1 DEF MSN_packet_handler, WholeInv, BufferType
  <2> HIDE DEF p
  <2> QED
    BY <2>3, <2>4, AddKeepsWhole, WriteKeepsWhole, "msn" \in Memories DEF Memories
<1>4. CASE PH_send_realtime_telemetry
  BY <1>4, SentKeepsWhole
<1>5. CASE Request
  <2>1. PICK id \in Requested : OBC_TlmRegister(id) \/ LoRa_ObcTlmSend(id)
    BY <1>5 DEF Request
  <2> QED
    BY <2>1, RegisterKeepsWhole, SendsKeepsWhole DEF LoRa_ObcTlmSend
<1>6. CASE OBC_TlmSend
  BY <1>6, SendsKeepsWhole DEF OBC_TlmSend
<1>7. CASE Switch
  BY <1>0, <1>7 DEF Switch
<1>8. CASE Replay
  <2>0. PICK m \in Memories : \E k \in DOMAIN pages[m] : DR_Replay(m, k)
    BY <1>8 DEF Replay
  <2>1. PICK k \in DOMAIN pages[m] : DR_Replay(m, k)
    BY <2>0
  <2> DEFINE p == pages[m][k]
  <2>2. ~AlsoRecorded(p)
    BY DEF AlsoRecorded, RecordInv, RecordMarked
  <2>3. add_rt_tlm(p) /\ Whole(p) /\ BufferType'
    BY <2>1, KeptPlaces DEF DR_Replay, WholeInv, BufferType
  <2> HIDE DEF p
  <2> QED
    BY <2>2, <2>3, AddKeepsWhole
<1>9. CASE UNCHANGED vars
  BY <1>0, <1>9 DEF vars
<1>10. CASE Restart
  <2>1. rt_tlm_list' = <<>> /\ pages' = pages /\ frame' = Blank
    BY <1>10 DEF Restart
  <2>2. BufferType'
    BY <2>1 DEF BufferType, Blank
  <2>3. \A S : <<>> \in Seq(S)
    OBVIOUS
  <2>4. ListType' /\ DOMAIN rt_tlm_list' = {}
    BY <2>1, <2>3 DEF ListType
  <2>5. Kept' \subseteq Kept
    BY <2>1, <2>4 DEF Kept
  <2> QED
    BY <2>2, <2>4, <2>5 DEF WholeInv, Whole
<1> QED
  BY <1>1, <1>2, <1>3, <1>4, <1>5, <1>6, <1>7, <1>8, <1>9, <1>10 DEF Next, Command

(* A stamp tells which packet wrote the byte.                                          *)
LEMMA StampTells ==
    ASSUME NEW n \in Nat, NEW at \in 0..(DATA_PACKET_SIZE - 1)
    PROVE  MadeAs(Stamp(n, at)) = n
BY DEF MadeAs, Stamp, DATA_PACKET_SIZE

LEMMA WholeIsWhole == ASSUME WholeInv PROVE PacketsWhole
<1> SUFFICES ASSUME NEW p \in Kept, p.id \in Ids
             PROVE  /\ \A b \in DOMAIN p.bytes : MadeAs(p.bytes[b]) = p.made
                    /\ \A f \in Fields[p.id] : \A b \in Bytes(f) :
                           p.bytes[b] = Stamp(p.made, f.at)
  BY DEF PacketsWhole
<1>1. p.made \in Nat /\ p.bytes = OfFrame(p.id, p.made)
  BY DEF WholeInv, Whole
<1>2. ASSUME NEW b \in OwnBytes(p.id)
      PROVE  p.bytes[b] = Stamp(p.made, FieldAt[p.id][b])
  BY <1>1 DEF OfFrame
<1>3. ASSUME NEW b \in DOMAIN p.bytes
      PROVE  MadeAs(p.bytes[b]) = p.made
  <2>1. b \in OwnBytes(p.id)
    BY <1>1, <1>3 DEF OfFrame
  <2> QED
    BY <1>1, <1>2, <2>1, FrameFacts, StampTells
<1>4. ASSUME NEW f \in Fields[p.id], NEW b \in Bytes(f)
      PROVE  p.bytes[b] = Stamp(p.made, f.at)
  BY <1>2, FrameFacts
<1> QED
  BY <1>3, <1>4

(* Every packet of the satellite's own, on the list or in a memory, has all its bytes and    *)
(* fields from its own frame, although all frames are combined in one buffer that is never     *)
(* cleared, that transmissions of any length write over, and whatever is recorded and read       *)
(* back meanwhile (tlm_frame.cpp:65-94, 171-270).                                      *)
THEOREM FramesArrive == AppsSpec => []PacketsWhole
<1>1. AppsInit => WholeInv
  <2> SUFFICES ASSUME AppsInit PROVE WholeInv
    OBVIOUS
  <2>1. /\ rt_tlm_list = <<>> /\ pages = [m \in Memories |-> <<>>]
        /\ frame = [b \in 0..(DATA_PACKET_SIZE - 1) |-> Stamp(0, 0)]
    BY DEF AppsInit, Init, Blank
  <2>2. DOMAIN rt_tlm_list = {} /\ \A m \in Memories : DOMAIN pages[m] = {}
    BY <2>1
  <2>3. Kept = {}
    BY <2>2 DEF Kept
  <2>4. \A S : <<>> \in Seq(S)
    OBVIOUS
  <2>5. ListType
    BY Zenon, <2>1, <2>4 DEF ListType
  <2>6. BufferType
    BY <2>1 DEF BufferType
  <2> QED
    BY <2>3, <2>5, <2>6 DEF WholeInv
<1>2. RecordInv /\ WholeInv /\ [AppsNext]_appsVars => WholeInv'
  BY PartSteps, WholeKept
<1>3. WholeInv => PacketsWhole
  BY WholeIsWhole
<1> QED
  BY <1>1, <1>2, <1>3, RecordAlways, PTL DEF AppsSpec

===============================================================================
