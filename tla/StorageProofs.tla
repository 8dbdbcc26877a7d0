------------------------------ MODULE StorageProofs ------------------------------
(***************************************************************************)
(* The storage for every size of its memories, every number of commands and faults:  *)
(* what is stored is what was meant, is recorded once and read back as it is, and a    *)
(* restart finds the switches as they were.                                       *)
(***************************************************************************)
EXTENDS Storage, TLAPS, FiniteSetTheorems, WellFoundedInduction

(* The stored blocks. *)
Content == [SBC!Positions -> [cycle : Nat, packet : Nat]]

BlockTypes ==
    /\ stored \in [SBC!Blocks -> Content] /\ meant \in [SBC!Blocks -> Content]
    /\ number \in SBC!Blocks /\ position \in 0..BlockLength /\ prev_cmd_count \in Nat
    /\ up \in [block : SBC!Blocks, pos : Nat, left : Nat, trust : BOOLEAN]
    /\ made \in Nat
    /\ spoiled \subseteq SBC!Blocks

(* An upload keeps the block that it is for, and the one that it goes to, spoiled.      *)
UploadSpoils == up.left > 0 => up.block \in spoiled /\ number \in spoiled

(* One that nothing has disturbed has stored what was answered, and perhaps the packet  *)
(* that was not answered yet.                                                    *)
UpTo(n) == IF n < BlockLength THEN n ELSE BlockLength

Awaited ==
    /\ prev_cmd_count # SBC!Count(made + 1)
    /\ position = UpTo(up.pos) /\ stored[up.block] = meant[up.block]

Arrived ==
    /\ prev_cmd_count = SBC!Count(made + 1)
    /\ position = UpTo(up.pos + 1)
    /\ stored[up.block] = IF up.pos < BlockLength
                          THEN [meant[up.block] EXCEPT ![up.pos] = SBC!Holds(made + 1)]
                          ELSE meant[up.block]

Undisturbed == up.trust => up.left > 0 /\ number = up.block /\ (Awaited \/ Arrived)

BlocksInv == BlockTypes /\ UploadSpoils /\ Undisturbed /\ StoredAsMeant

(* The autonomous control: what was executed had its time at this restart or an earlier  *)
(* one, an earlier one as long as nothing has been executed since this one.            *)
Executed == {fired[k] : k \in DOMAIN fired}

Action == [bc : SBC!Blocks, activate : BOOLEAN, time : Nat]

ControlInv ==
    /\ counter \in 0..(Wrap - 1) /\ disactivate \in BOOLEAN
    /\ actions \in [SBC!Ids -> Action]
    /\ fired \in Seq(SBC!Ids)
    /\ \A k \in DOMAIN fired : actions[fired[k]].time <= counter
    /\ ~disactivate => \A k \in DOMAIN fired : actions[fired[k]].time < counter

(* The recorders. *)
RecorderTypes ==
    /\ flash \in [Recorders -> [REC!Page -> {"blank", "data", "spoilt"}]]
    /\ wp \in [Recorders -> Nat] /\ tar \in [Recorders -> Nat] /\ start \in [Recorders -> Nat]
    /\ num \in [Recorders -> Nat] /\ sent \in [Recorders -> Nat] /\ num_read \in Nat
    /\ {enabled, replay, erasing, misled, scanned, mixed} \subseteq SUBSET Recorders
    /\ cut \in BOOLEAN

(* Where the data of a recorder end, what is still to be erased, and that its pointer is     *)
(* there or was never set.                                                        *)
DataUpTo(r, n) ==
    /\ flash[r] = REC!Prefix(n)
    /\ r \in scanned \/ r \in enabled => wp[r] = n
    /\ r \notin scanned => wp[r] \in {0, n}
    /\ r \in erasing => r \notin enabled /\ tar[r] < Sectors /\ n <= (tar[r] + 1) * Pages

DataInv == \A r \in Recorders \ misled : \E n \in 0..REC!Size : DataUpTo(r, n)

ReplayInv ==
    /\ \A r \in replay \ mixed : /\ replay = {r} /\ num_read = sent[r]
                                 /\ sent[r] < num[r] \/ sent[r] = 0
    /\ replay = {} /\ ~cut => num_read = 0

RecordersInv == RecorderTypes /\ DataInv /\ ReplayInv

(* The power. *)
Entry == [load : Loads, value : BOOLEAN, saved : BOOLEAN, as : Loads]

Order == [cmd : {"none", "switch", "safe", "reboot"}, saved : SUBSET Loads, clean : BOOLEAN]

PowerTypes ==
    /\ {on, pwr_fram} \subseteq [Loads -> BOOLEAN]
    /\ pwr_agenda \in Seq(Entry)
    /\ access \subseteq PWR!Boards
    /\ cycle \in [PWR!Boards -> Nat] /\ mux \in [PWR!Boards -> Nat]
    /\ odd \in [PWR!Boards -> SUBSET Nat] /\ calm \in [PWR!Boards -> Nat]
    /\ order \in Order

(* How many calls ago a quantity was measured, when n are measured in a round and c is the     *)
(* next.                                                                           *)
Ago(q, c, n) == IF q < c THEN c - q ELSE c - q + n

RoundInv ==
    \A b \in PWR!Boards :
        LET n == Channels[b]
        IN  /\ cycle[b] <= n /\ odd[b] \subseteq 1..n /\ calm[b] <= n + 1
            /\ calm[b] > 0 => /\ cycle[b] > 0 /\ mux[b] = cycle[b]
                              /\ \A q \in odd[b] : Ago(q, cycle[b], n) >= calm[b]

(* A composite command without a fault has the switches that it has still to make on its      *)
(* agenda, the one for SF last.                                                      *)
Ahead(e) == \E i \in DOMAIN pwr_agenda : pwr_agenda[i] = e

SafeUnderWay ==
    /\ \A i \in DOMAIN pwr_agenda :
         \/ \E l \in Loads : pwr_agenda[i] = PWR!Turn(l, FALSE)
         \/ i = Len(pwr_agenda) /\ pwr_agenda[i] = PWR!Turn("SF", TRUE)
    /\ IF pwr_agenda = <<>> THEN \A l \in Loads \ PWR!Fed : on[l] <=> l = "SF"
       ELSE pwr_agenda[Len(pwr_agenda)] = PWR!Turn("SF", TRUE)
    /\ \A l \in Loads \ (PWR!Fed \cup {"SF"}) : on[l] => Ahead(PWR!Turn(l, FALSE))

RebootUnderWay ==
    LET mine(l) == PWR!Restore(l, l)
        last5V  == PWR!Restore("MSN5V", "OVCO")
    IN  /\ \A i \in DOMAIN pwr_agenda :
             \/ \E l \in Loads : pwr_agenda[i] = mine(l)
             \/ \E l \in PWR!Fed : pwr_agenda[i] = PWR!Restore("MSN5V", l)
        /\ \A l \in Loads \ {"MSN5V"} : /\ pwr_fram[l] <=> l \in order.saved
                                        /\ on[l] = pwr_fram[l] \/ Ahead(mine(l))
        /\ on["MSN5V"] = pwr_fram["OVCO"] \/ Ahead(last5V)
        /\ \A i \in DOMAIN pwr_agenda : pwr_agenda[i].load = "MSN5V" =>
               \E j \in i..Len(pwr_agenda) : pwr_agenda[j] = last5V

OrderInv ==
    order.clean => /\ order.cmd = "safe" => SafeUnderWay
                   /\ order.cmd = "reboot" => RebootUnderWay

PowerInv == PowerTypes /\ RoundInv /\ SavedAsSwitched /\ OrderInv

(* The timeline in the FRAM.  In these, f is a FRAM, o the packets that are owed, and B the slots  *)
(* that the running handler is about: none, or one.                                 *)
Packets == [cmd : Commands, time : Nat]

FRAM == [hi : [Slots -> Nat], lo : [Slots -> Nat],
         head : [Slots -> Packets \cup {Blank}], tail : [Slots -> Commands \cup {None}]]

Copies == [packet : Packets \cup {Blank}, params : Commands \cup {None}]

TimelineTypes ==
    /\ fram \in FRAM
    /\ active \subseteq DOMAIN Block
    /\ utime \in 0..MaxTime
    /\ rec_data \in Copies
    /\ agenda \in Seq([cmd : Commands, cycle : Nat])
    /\ wipe \in 0..FRAM_TLC_MAX
    /\ owed \in SUBSET Packets /\ IsFiniteSet(owed)
    /\ strange \in Nat /\ cuts \in Nat /\ looks \in 0..Calls /\ steady \in BOOLEAN

(* A packet is pending in a slot at its time; it is held in a slot, whatever the time there.     *)
PendingAt(f, s) ==
    /\ Time(f, s) # 0 /\ Whole(f, s)
    /\ f.head[s].time = Time(f, s)

Here(f, s) == IF PendingAt(f, s) THEN {f.head[s]} ELSE {}

HeldBy(f, S) == {f.head[s] : s \in {t \in S : Whole(f, t)}}

(* Slots that pend a packet each that is owed. *)
Sound(f, o, G) ==
    /\ \A s \in G : PendingAt(f, s) /\ f.head[s] \in o
    /\ \A s, u \in G : f.head[s] = f.head[u] => s = u

(* The damage outside of B: what is nowhere any more but perhaps in "here", and the slots that  *)
(* do not pend what they should.                                                  *)
Gone(f, o, B, here) == o \ (HeldBy(f, Occupied(f) \ B) \cup here)

Damage(f, o, B, here, G) ==
    Cardinality(Gone(f, o, B, here)) + Cardinality((Occupied(f) \ B) \ G)

Accounts(f, o, B, here, n) ==
    \E G \in SUBSET (Occupied(f) \ B) : Sound(f, o, G) /\ Damage(f, o, B, here, G) <= n

(* The writes that are left of a handler that drops the time of a slot, or fills the slot.     *)
Dropping(f, s, w) ==
    \/ w = <<Bytes("hi", s, 0), Bytes("lo", s, 0)>>
    \/ w = <<Bytes("lo", s, 0)>> /\ f.hi[s] = 0

Filling(f, o, s, p, w) ==
    LET hi   == Bytes("hi", s, p.time \div Base)
        lo   == Bytes("lo", s, p.time % Base)
        head == Bytes("head", s, p)
        tail == Bytes("tail", s, p.cmd)
    IN  /\ p.time # 0
        /\ \A u \in Slots \ {s} : Time(f, u) # p.time
        /\ \/ w = <<hi, lo, head, tail>>
           \/ w = <<lo, head, tail>> /\ f.hi[s] = p.time \div Base
           \/ w = <<head, tail>> /\ Time(f, s) = p.time
           \/ w = <<tail>> /\ Time(f, s) = p.time /\ f.head[s] = p
        /\ PendingAt(f, s) /\ f.head[s] = p => p \in o

(* The slots of a time: not more than there were power losses, but one.                  *)
AtTime(f, B, t) == {s \in Slots \ B : Time(f, s) = t}

Alike(f, B, n) == \A t \in Nat \ {0} : Cardinality(AtTime(f, B, t)) <= n + 1

(* As long as the clock is steady no slot is late, and each that is due has its call; n of  *)
(* them was taken from its slot and waits for its execution.                          *)
Steady == steady /\ cuts < Calls

Punctual(B, n) ==
    Steady =>
        /\ \A s \in Occupied(fram) \ B : utime <= Time(fram, s)
        /\ n > 0 \/ (utime # 0 /\ AtTime(fram, B, utime) # {}) =>
              Cardinality(AtTime(fram, B, utime)) + looks + n <= cuts + 1

InTime(t) == Steady => utime < t \/ (utime = t /\ looks = 0)

(* Between two commands or slots of a handler, in a write, and in the dispatcher, which has       *)
(* copied the packet of s: one that is owed is no damage; any other is accounted for.          *)
Between == Accounts(fram, owed, {}, {}, cuts - strange) /\ Alike(fram, {}, cuts) /\ Punctual({}, 0)

Outside(s) ==
    /\ Accounts(fram, owed, {s}, Here(fram, s), cuts - strange)
    /\ Alike(fram, {s}, cuts) /\ Punctual({s}, 0)

InWrite(s) ==
    /\ Outside(s)
    /\ \/ Dropping(fram, s, rest)
       \/ \E p \in Packets : Filling(fram, owed, s, p, rest) /\ InTime(p.time)

Known == IF Intact THEN {rec_data.packet} ELSE {}

Ready(s) ==
    \E G \in SUBSET (Occupied(fram) \ {s}) :
        /\ Sound(fram, owed, G)
        /\ \/ Damage(fram, owed, {s}, Known, G) + 1 <= cuts - strange
           \/ /\ Damage(fram, owed, {s}, Known, G) <= cuts - strange
              /\ AsOwed /\ \A u \in G : fram.head[u] # rec_data.packet

Taken(s) ==
    /\ fram.head[s] = rec_data.packet /\ fram.tail[s] = rec_data.params
    /\ agenda = <<>> /\ wipe = 0
    /\ Dropping(fram, s, rest) \/ (rest = <<>> /\ Time(fram, s) = 0)
    /\ Ready(s) /\ Alike(fram, {s}, cuts) /\ Punctual({s}, 1)

Phases ==
    /\ rec_data = Nothing /\ rest = <<>> => Between
    /\ rec_data = Nothing /\ rest # <<>> => \E s \in Slots : InWrite(s)
    /\ rec_data # Nothing => \E s \in Slots : Taken(s)

TimelineInv == TimelineTypes /\ Phases

-------------------------------------------------------------------------------
LEMMA PartSteps ==
    ASSUME [StorageNext]_storageVars
    PROVE  /\ SBC!Next \/ UNCHANGED sbcVars
           /\ REC!Next \/ UNCHANGED recVars
           /\ PWR!Next \/ UNCHANGED pwrVars
BY Zenon DEF StorageNext, FTLStep, SBCStep, RECStep, PWRStep, storageVars

-------------------------------------------------------------------------------
(* Arithmetic: products and quotients by a constant that is not known. *)

LEMMA DivMod ==
    ASSUME NEW a \in Nat, NEW d \in Nat \ {0}
    PROVE  /\ a \div d \in Nat /\ a % d \in Nat /\ a % d < d
           /\ a = d * (a \div d) + (a % d)
OBVIOUS

LEMMA Spread ==
    ASSUME NEW k \in Int, NEW a \in Int, NEW b \in Int
    PROVE  k * a \in Int /\ k * (a + b) = k * a + k * b /\ k * (a - b) = k * a - k * b
OBVIOUS

LEMMA Cancel ==
    ASSUME NEW k \in Nat \ {0}, NEW a \in Int, NEW b \in Int, k * a < k * b
    PROVE  a < b
<1> SUFFICES ASSUME a - b \in Nat PROVE FALSE
  OBVIOUS
<1>1. k * (a - b) = k * a - k * b /\ k * a \in Int /\ k * b \in Int
  BY Spread
<1>2. \A x \in Nat : k * x \in Nat
  OBVIOUS
<1>3. k * (a - b) \in Nat
  BY <1>2
<1> QED
  BY <1>1, <1>3

-------------------------------------------------------------------------------
(* The stored blocks. *)

LEMMA BlockConstants ==
    /\ MaxBlocks \in Nat \ {0} /\ BlockLength \in Nat \ {0} /\ Numbers \in Nat \ {0, 1}
    /\ Actions \in Nat \ {0} /\ Wrap \in Nat \ {0, 1, 2}
    /\ 0 \in SBC!Blocks /\ SBC!Blocks \subseteq Nat
    /\ SBC!Positions = {i \in Nat : i < BlockLength}
BY StorageAssumption DEF SBC!StoredBlocksConstants, SBC!Blocks, SBC!Positions

(* Two packets that follow each other have different numbers, and no packet the number 0.   *)
LEMMA CountsDiffer ==
    ASSUME NEW n \in Nat
    PROVE  SBC!Count(n + 1) \in Nat \ {0} /\ SBC!Count(n + 1) # SBC!Count(n + 2)
<1> DEFINE p == n + 1
           q == (n + 1) \div Numbers
           s == (n + 2) \div Numbers
           c == (n + 1) % Numbers
           d == (n + 2) % Numbers
<1>1. Numbers \in Nat \ {0, 1} /\ n + 1 \in Nat /\ n + 2 \in Nat
  BY BlockConstants
<1>2. q \in Nat /\ c \in Nat /\ n + 1 = Numbers * q + c
  BY <1>1, DivMod
<1>3. s \in Nat /\ d \in Nat /\ n + 2 = Numbers * s + d
  BY <1>1, DivMod
<1>4. SBC!Count(n + 1) = 1 + c /\ SBC!Count(n + 2) = 1 + d
  BY DEF SBC!Count
<1> HIDE DEF p, q, s, c, d
<1>5. ASSUME c = d PROVE FALSE
  <2>1. /\ Numbers * (s - q) = Numbers * s - Numbers * q
        /\ Numbers * s \in Int /\ Numbers * q \in Int
    BY <1>1, <1>2, <1>3, Spread
  <2>2. Numbers * (s - q) = 1
    BY <1>2, <1>3, <1>5, <2>1
  <2>3. Numbers * 0 = 0 /\ Numbers * 1 = Numbers /\ s - q \in Int
    BY <1>1, <1>2, <1>3
  <2>4. Numbers * 0 < Numbers * (s - q) /\ Numbers * (s - q) < Numbers * 1
    BY <1>1, <2>2, <2>3
  <2>5. 0 < s - q
    BY <1>1, <2>3, <2>4, Cancel
  <2>6. s - q < 1
    BY <1>1, <2>3, <2>4, Cancel
  <2> QED
    BY <1>2, <1>3, <2>5, <2>6
<1> QED
  BY <1>2, <1>3, <1>4, <1>5

LEMMA SBCInit ==
    ASSUME SBC!Init
    PROVE  BlocksInv /\ ControlInv
<1>1. BlockTypes
  BY BlockConstants DEF SBC!Init, BlockTypes, Content, SBC!Nothing, SBC!Holds, SBC!NoUpload,
     SBC!Blocks
<1>2. UploadSpoils /\ Undisturbed /\ StoredAsMeant
  BY DEF SBC!Init, UploadSpoils, Undisturbed, StoredAsMeant, SBC!StoredAsMeant, SBC!NoUpload
<1>3. counter \in 0..(Wrap - 1) /\ disactivate \in BOOLEAN
  BY BlockConstants DEF SBC!Init
<1>4. actions \in [SBC!Ids -> Action]
  BY BlockConstants DEF SBC!Init, SBC!NoAction, Action
<1>5. fired = <<>> /\ <<>> \in Seq(SBC!Ids) /\ DOMAIN <<>> = {}
  BY DEF SBC!Init
<1> QED
  BY <1>1, <1>2, <1>3, <1>4, <1>5 DEF BlocksInv, ControlInv

(* A packet that arrives for an upload that nothing has disturbed is stored, unless it is   *)
(* the second time: then it is there.                                             *)
LEMMA PacketStored ==
    ASSUME BlocksInv, SBC!FRAM_SBC_Write_packet(made + 1), up.trust
    PROVE  /\ number = up.block /\ up.left > 0
           /\ prev_cmd_count' = SBC!Count(made + 1)
           /\ position' = UpTo(up.pos + 1)
           /\ stored' = [stored EXCEPT ![up.block] =
                           IF up.pos < BlockLength
                           THEN [meant[up.block] EXCEPT ![up.pos] = SBC!Holds(made + 1)]
                           ELSE meant[up.block]]
<1> DEFINE new == IF up.pos < BlockLength
                  THEN [meant[up.block] EXCEPT ![up.pos] = SBC!Holds(made + 1)]
                  ELSE meant[up.block]
<1>1. /\ number = up.block /\ up.left > 0 /\ prev_cmd_count' = SBC!Count(made + 1)
      /\ Awaited \/ Arrived
  BY DEF BlocksInv, Undisturbed, SBC!FRAM_SBC_Write_packet
<1>2. /\ up.pos \in Nat /\ made \in Nat /\ up.block \in SBC!Blocks /\ BlockLength \in Nat \ {0}
      /\ stored \in [SBC!Blocks -> Content]
  BY BlockConstants DEF BlocksInv, BlockTypes
<1>3. CASE Arrived
  <2>1. SBC!IsDouble(made + 1)
    BY <1>2, <1>3, CountsDiffer DEF Arrived, SBC!IsDouble
  <2>2. stored' = stored /\ position' = position
    BY <2>1 DEF SBC!FRAM_SBC_Write_packet, SBC!Takes
  <2>3. stored[up.block] = new /\ position = UpTo(up.pos + 1)
    BY <1>3 DEF Arrived
  <2> QED
    BY <1>1, <1>2, <2>2, <2>3
<1>4. CASE Awaited
  <2>1. ~SBC!IsDouble(made + 1)
    BY <1>4 DEF Awaited, SBC!IsDouble
  <2>2. position = UpTo(up.pos) /\ stored[up.block] = meant[up.block]
    BY <1>4 DEF Awaited
  <2>3. CASE up.pos < BlockLength
    <3>1. position = up.pos /\ UpTo(up.pos + 1) = up.pos + 1
      BY <1>2, <2>2, <2>3 DEF UpTo
    <3>2. SBC!Takes(made + 1)
      BY <2>1, <2>3, <3>1 DEF SBC!Takes
    <3>3. /\ stored' = [stored EXCEPT ![number][position] = SBC!Holds(made + 1)]
          /\ position' = position + 1
      BY <3>2 DEF SBC!FRAM_SBC_Write_packet
    <3>4. stored' = [stored EXCEPT ![up.block] =
                       [stored[up.block] EXCEPT ![up.pos] = SBC!Holds(made + 1)]]
      BY <1>1, <3>1, <3>3
    <3> QED
      BY <1>1, <2>2, <2>3, <3>1, <3>3, <3>4
  <2>4. CASE ~(up.pos < BlockLength)
    <3>1. position = BlockLength /\ UpTo(up.pos + 1) = BlockLength
      BY <1>2, <2>2, <2>4 DEF UpTo
    <3>2. ~SBC!Takes(made + 1)
      BY <1>2, <3>1 DEF SBC!Takes
    <3>3. stored' = stored /\ position' = position
      BY <3>2 DEF SBC!FRAM_SBC_Write_packet
    <3> QED
      BY <1>1, <1>2, <2>2, <2>4, <3>1, <3>3
  <2> QED
    BY <2>3, <2>4
<1> QED
  BY <1>1, <1>3, <1>4

BlockState == <<number, position, prev_cmd_count, stored, up, made, meant, spoiled>>

LEMMA BlocksUnchanged ==
    ASSUME BlocksInv, UNCHANGED BlockState
    PROVE  BlocksInv'
BY DEF BlocksInv, BlockState, BlockTypes, UploadSpoils, Undisturbed, Awaited, Arrived,
   StoredAsMeant, SBC!StoredAsMeant, Content

LEMMA BlocksTyped ==
    ASSUME BlocksInv
    PROVE  /\ stored \in [SBC!Blocks -> Content] /\ meant \in [SBC!Blocks -> Content]
           /\ number \in SBC!Blocks /\ position \in 0..BlockLength /\ prev_cmd_count \in Nat
           /\ up \in [block : SBC!Blocks, pos : Nat, left : Nat, trust : BOOLEAN]
           /\ made \in Nat /\ spoiled \subseteq SBC!Blocks
BY DEF BlocksInv, BlockTypes

LEMMA BlocksTypedNext ==
    ASSUME stored' \in [SBC!Blocks -> Content], meant' \in [SBC!Blocks -> Content],
           number' \in SBC!Blocks, position' \in 0..BlockLength, prev_cmd_count' \in Nat,
           up' \in [block : SBC!Blocks, pos : Nat, left : Nat, trust : BOOLEAN],
           made' \in Nat, spoiled' \subseteq SBC!Blocks
    PROVE  BlockTypes'
BY DEF BlockTypes, Content

LEMMA HoldsTyped ==
    ASSUME NEW n \in Nat
    PROVE  SBC!Holds(n) \in [cycle : Nat, packet : Nat]
BY DEF SBC!Holds

(* One slot is written. *)
LEMMA SlotWritten ==
    ASSUME NEW f \in [SBC!Blocks -> Content], NEW b \in SBC!Blocks, NEW i \in SBC!Positions,
           NEW v \in [cycle : Nat, packet : Nat]
    PROVE  [f EXCEPT ![b][i] = v] \in [SBC!Blocks -> Content]
<1>1. f[b] \in Content
  OBVIOUS
<1>2. [f[b] EXCEPT ![i] = v] \in Content
  BY <1>1 DEF Content
<1> QED
  BY <1>2

(* What the ground is answered. *)
LEMMA AnsweredKept ==
    ASSUME BlocksInv, SBC!Upload, SBC!Answered
    PROVE  BlocksInv'
<1> DEFINE done == up.left = 1
           p    == SBC!Holds(made + 1)
<1>1. /\ up.left > 0 /\ up.left \in Nat /\ up.pos \in Nat /\ made \in Nat
      /\ up.block \in SBC!Blocks /\ BlockLength \in Nat \ {0} /\ up.trust \in BOOLEAN
      /\ meant \in [SBC!Blocks -> Content] /\ stored \in [SBC!Blocks -> Content]
      /\ number \in SBC!Blocks /\ position \in 0..BlockLength /\ spoiled \subseteq SBC!Blocks
      /\ up \in [block : SBC!Blocks, pos : Nat, left : Nat, trust : BOOLEAN]
  BY BlockConstants DEF BlocksInv, BlockTypes, SBC!Upload
<1>2. /\ SBC!FRAM_SBC_Write_packet(made + 1) /\ number' = number /\ made' = made + 1
      /\ prev_cmd_count' = SBC!Count(made + 1)
  BY DEF SBC!Upload, SBC!Answered, SBC!FRAM_SBC_Write_packet
<1>3. up' = IF done THEN SBC!NoUpload ELSE [up EXCEPT !.pos = @ + 1, !.left = @ - 1]
  BY DEF SBC!Answered
<1>4. meant' = IF up.pos < BlockLength THEN [meant EXCEPT ![up.block][up.pos] = p] ELSE meant
  BY DEF SBC!Answered
<1>5. spoiled' = IF done /\ up.trust THEN spoiled \ {up.block} ELSE spoiled
  BY DEF SBC!Answered
<1>6. up.block \in spoiled /\ number \in spoiled
  BY <1>1 DEF BlocksInv, UploadSpoils
<1>7. p \in [cycle : Nat, packet : Nat] /\ SBC!Count(made + 1) \in Nat
  BY <1>1, HoldsTyped, CountsDiffer
<1>8. \/ stored' = stored /\ position' = position
      \/ /\ position < BlockLength /\ position' = position + 1
         /\ stored' = [stored EXCEPT ![number][position] = p]
  BY <1>2 DEF SBC!FRAM_SBC_Write_packet, SBC!Takes
<1> HIDE DEF p
<1>9. stored' \in [SBC!Blocks -> Content] /\ position' \in 0..BlockLength
  <2>1. ASSUME position < BlockLength
        PROVE  [stored EXCEPT ![number][position] = p] \in [SBC!Blocks -> Content]
    <3>1. position \in SBC!Positions
      BY <1>1, <2>1, BlockConstants
    <3> QED
      BY <1>1, <1>7, <3>1, SlotWritten
  <2> QED
    BY <1>1, <1>8, <2>1
<1>10. meant' \in [SBC!Blocks -> Content]
  <2>1. ASSUME up.pos < BlockLength
        PROVE  [meant EXCEPT ![up.block][up.pos] = p] \in [SBC!Blocks -> Content]
    <3>1. up.pos \in SBC!Positions
      BY <1>1, <2>1, BlockConstants
    <3> QED
      BY <1>1, <1>7, <3>1, SlotWritten
  <2> QED
    BY <1>1, <1>4, <2>1
<1>11. up' \in [block : SBC!Blocks, pos : Nat, left : Nat, trust : BOOLEAN]
  <2> DEFINE moved == [up EXCEPT !.pos = up.pos + 1]
  <2>1. moved \in [block : SBC!Blocks, pos : Nat, left : Nat, trust : BOOLEAN]
    BY <1>1
  <2>2. up.pos + 1 \in Nat /\ (~done => up.left - 1 \in Nat)
    BY <1>1
  <2>3. up' = IF done THEN SBC!NoUpload ELSE [moved EXCEPT !.left = up.left - 1]
    BY Zenon, <1>3
  <2> HIDE DEF moved
  <2>4. SBC!NoUpload \in [block : SBC!Blocks, pos : Nat, left : Nat, trust : BOOLEAN]
    BY BlockConstants DEF SBC!NoUpload
  <2> QED
    BY <2>1, <2>2, <2>3, <2>4
<1>12. BlockTypes'
  BY <1>1, <1>2, <1>5, <1>7, <1>9, <1>10, <1>11 DEF BlockTypes, Content
<1>13. UploadSpoils'
  <2> SUFFICES ASSUME up'.left > 0 PROVE up'.block \in spoiled' /\ number' \in spoiled'
    BY DEF UploadSpoils
  <2>1. ~done
    BY <1>3 DEF SBC!NoUpload
  <2> QED
    BY <1>1, <1>2, <1>3, <1>5, <1>6, <2>1
<1>14. ASSUME up.trust
       PROVE  /\ stored'[up.block] = meant'[up.block] /\ position' = UpTo(up.pos + 1)
              /\ \A b \in SBC!Blocks \ {up.block} : stored'[b] = stored[b]
              /\ number = up.block
  BY <1>1, <1>2, <1>4, <1>14, PacketStored DEF p
<1>15. \A b \in SBC!Blocks \ {up.block, number} : stored'[b] = stored[b] /\ meant'[b] = meant[b]
  BY <1>1, <1>4, <1>8
<1>16. Undisturbed'
  <2> SUFFICES ASSUME up'.trust PROVE up'.left > 0 /\ number' = up'.block /\ Awaited'
    BY DEF Undisturbed
  <2>1. ~done
    BY <1>3 DEF SBC!NoUpload
  <2>2. /\ up.trust /\ up'.left = up.left - 1 /\ up'.pos = up.pos + 1 /\ up'.block = up.block
    BY <1>1, <1>3, <2>1
  <2>3. prev_cmd_count' # SBC!Count(made' + 1)
    <3>1. made' + 1 = made + 2
      BY <1>1, <1>2
    <3> QED
      BY <1>1, <1>2, <3>1, CountsDiffer
  <2>4. SBC!Count(made' + 1) = SBC!Count(made + 1)'
    BY DEF SBC!Count
  <2>5. UpTo(up.pos + 1) = UpTo(up'.pos)
    BY <2>2
  <2>6. Awaited'
    BY <1>14, <2>2, <2>3, <2>4, <2>5 DEF Awaited, UpTo
  <2> QED
    BY <1>1, <1>2, <1>14, <2>1, <2>2, <2>6
<1>17. StoredAsMeant'
  <2> SUFFICES ASSUME NEW b \in SBC!Blocks, b \notin spoiled' PROVE stored'[b] = meant'[b]
    BY DEF StoredAsMeant, SBC!StoredAsMeant, SBC!Blocks
  <2>1. CASE b \notin spoiled
    <3>1. b # up.block /\ b # number
      BY <1>6, <2>1
    <3>2. stored[b] = meant[b]
      BY <2>1 DEF BlocksInv, StoredAsMeant, SBC!StoredAsMeant
    <3> QED
      BY <1>15, <3>1, <3>2
  <2>2. CASE b \in spoiled
    <3>1. b = up.block /\ up.trust
      BY <1>5, <2>2
    <3> QED
      BY <1>14, <3>1
  <2> QED
    BY <2>1, <2>2
<1> QED
  BY <1>12, <1>13, <1>16, <1>17 DEF BlocksInv

(* The answer is lost: the packet is there, and the ground does not know. *)
LEMMA UnansweredKept ==
    ASSUME BlocksInv, SBC!Upload, UNCHANGED SBC!ground
    PROVE  BlocksInv'
<1> DEFINE p == SBC!Holds(made + 1)
<1>1. /\ up.left > 0 /\ up.pos \in Nat /\ made \in Nat
      /\ up.block \in SBC!Blocks /\ BlockLength \in Nat \ {0}
      /\ stored \in [SBC!Blocks -> Content]
      /\ number \in SBC!Blocks /\ position \in 0..BlockLength
  BY BlockConstants DEF BlocksInv, BlockTypes, SBC!Upload
<1>2. /\ SBC!FRAM_SBC_Write_packet(made + 1) /\ number' = number
      /\ prev_cmd_count' = SBC!Count(made + 1)
  BY DEF SBC!Upload, SBC!FRAM_SBC_Write_packet
<1>3. up' = up /\ made' = made /\ meant' = meant /\ spoiled' = spoiled
  BY DEF SBC!ground
<1>4. p \in [cycle : Nat, packet : Nat] /\ SBC!Count(made + 1) \in Nat
  BY <1>1, HoldsTyped, CountsDiffer
<1>5. \/ stored' = stored /\ position' = position
      \/ /\ position < BlockLength /\ position' = position + 1
         /\ stored' = [stored EXCEPT ![number][position] = p]
  BY <1>2 DEF SBC!FRAM_SBC_Write_packet, SBC!Takes
<1> HIDE DEF p
<1>6. stored' \in [SBC!Blocks -> Content] /\ position' \in 0..BlockLength
  <2>1. ASSUME position < BlockLength
        PROVE  [stored EXCEPT ![number][position] = p] \in [SBC!Blocks -> Content]
    <3>1. position \in SBC!Positions
      BY <1>1, <2>1, BlockConstants
    <3> QED
      BY <1>1, <1>4, <3>1, SlotWritten
  <2> QED
    BY <1>1, <1>5, <2>1
<1>7. BlockTypes'
  BY <1>2, <1>3, <1>4, <1>6 DEF BlocksInv, BlockTypes, Content
<1>8. UploadSpoils'
  BY <1>2, <1>3 DEF BlocksInv, UploadSpoils
<1>9. Undisturbed'
  <2> SUFFICES ASSUME up.trust PROVE number' = up.block /\ up.left > 0 /\ Arrived'
    BY <1>3 DEF Undisturbed
  <2>1. /\ number = up.block /\ position' = UpTo(up.pos + 1)
        /\ stored' = [stored EXCEPT ![up.block] =
                        IF up.pos < BlockLength
                        THEN [meant[up.block] EXCEPT ![up.pos] = SBC!Holds(made + 1)]
                        ELSE meant[up.block]]
    BY <1>2, PacketStored
  <2>2. stored'[up.block] = IF up.pos < BlockLength
                            THEN [meant[up.block] EXCEPT ![up.pos] = SBC!Holds(made + 1)]
                            ELSE meant[up.block]
    BY <1>1, <2>1
  <2>3. SBC!Count(made + 1)' = SBC!Count(made + 1) /\ SBC!Holds(made + 1)' = SBC!Holds(made + 1)
    BY <1>3
  <2>4. UpTo(up.pos + 1)' = UpTo(up.pos + 1)
    BY <1>3
  <2>5. Arrived'
    BY <1>2, <1>3, <2>1, <2>2, <2>3, <2>4 DEF Arrived
  <2> QED
    BY <1>1, <1>2, <2>1, <2>5
<1>10. StoredAsMeant'
  <2> SUFFICES ASSUME NEW b \in SBC!Blocks, b \notin spoiled PROVE stored'[b] = meant[b]
    BY <1>3 DEF StoredAsMeant, SBC!StoredAsMeant, SBC!Blocks
  <2>1. b # number
    BY <1>1 DEF BlocksInv, UploadSpoils
  <2>2. stored[b] = meant[b]
    BY DEF BlocksInv, StoredAsMeant, SBC!StoredAsMeant
  <2> QED
    BY <1>1, <1>5, <2>1, <2>2
<1> QED
  BY <1>7, <1>8, <1>9, <1>10 DEF BlocksInv

LEMMA AbandonKept ==
    ASSUME BlocksInv, SBC!Abandon
    PROVE  BlocksInv'
<1>1. /\ up' = SBC!NoUpload /\ made' \in {made, made + 1} /\ UNCHANGED <<meant, spoiled>>
      /\ UNCHANGED <<number, position, prev_cmd_count, stored>>
  BY DEF SBC!Abandon, SBC!ram, SBC!fram
<1>2. BlockTypes'
  <2>1. SBC!NoUpload \in [block : SBC!Blocks, pos : Nat, left : Nat, trust : BOOLEAN]
    BY BlockConstants DEF SBC!NoUpload
  <2>2. made' \in Nat
    BY <1>1, BlocksTyped
  <2> QED
    BY <1>1, <2>1, <2>2, BlocksTyped, BlocksTypedNext
<1>3. UploadSpoils' /\ Undisturbed' /\ StoredAsMeant'
  BY <1>1 DEF BlocksInv, UploadSpoils, Undisturbed, StoredAsMeant, SBC!StoredAsMeant, SBC!NoUpload
<1> QED
  BY <1>2, <1>3 DEF BlocksInv

(* A restart leaves what it cut in blocks that are spoiled: a slot half written, or a     *)
(* removal half done.                                                             *)
Cut == /\ stored' \in [SBC!Blocks -> Content]
       /\ spoiled \subseteq spoiled' /\ spoiled' \subseteq SBC!Blocks
       /\ up.left > 0 => 0 \in spoiled'
       /\ \A b \in SBC!Blocks \ spoiled' : stored'[b] = stored[b]

LEMMA WriteCutKept ==
    ASSUME BlocksInv, SBC!WriteCut
    PROVE  Cut
<1>1. /\ number \in SBC!Blocks /\ position \in 0..BlockLength /\ made \in Nat
      /\ stored \in [SBC!Blocks -> Content] /\ spoiled \subseteq SBC!Blocks
  BY BlocksTyped
<1>2. /\ position < BlockLength /\ spoiled' = spoiled \cup {0, number}
      /\ stored' = [stored EXCEPT ![number][position].cycle = made + 1]
  BY DEF SBC!WriteCut, SBC!Takes
<1> DEFINE v == [stored[number][position] EXCEPT !.cycle = made + 1]
<1>3. position \in SBC!Positions
  BY <1>1, <1>2, BlockConstants
<1>4. stored[number][position] \in [cycle : Nat, packet : Nat]
  BY <1>1, <1>3 DEF Content
<1>5. v \in [cycle : Nat, packet : Nat]
  BY <1>1, <1>4
<1>6. stored' = [stored EXCEPT ![number][position] = v]
  BY Zenon, <1>2
<1> HIDE DEF v
<1>7. stored' \in [SBC!Blocks -> Content]
  BY <1>1, <1>3, <1>5, <1>6, SlotWritten
<1>8. \A b \in SBC!Blocks \ spoiled' : stored'[b] = stored[b]
  BY <1>1, <1>2, <1>6
<1> QED
  BY <1>1, <1>2, <1>7, <1>8, BlockConstants DEF Cut

LEMMA RemoveCutKept ==
    ASSUME BlocksInv, SBC!RemoveCut
    PROVE  Cut
<1> DEFINE Left(b, i) == {stored[b][i], [stored[b][i] EXCEPT !.cycle = 0], SBC!Holds(0)}
           Emptied(b, i, from, s) ==
               [j \in SBC!Positions |-> IF j = i THEN s
                                        ELSE IF j \in from..(i - 1) THEN SBC!Holds(0)
                                        ELSE stored[b][j]]
<1> DEFINE Cuts(b, i, first, s) ==
          /\ stored' = [c \in SBC!Blocks |->
                           IF c \in first[1]..(b - 1) THEN SBC!Nothing
                           ELSE IF c # b THEN stored[c] ELSE Emptied(b, i, first[2], s)]
          /\ spoiled' = spoiled \cup (first[1]..b) \cup SBC!Rest
<1>0. PICK b \in SBC!Blocks, i \in SBC!Positions :
          \E first \in {<<b, i>>, <<b, 0>>, <<0, 0>>}, s \in Left(b, i) : Cuts(b, i, first, s)
  BY Zenon DEF SBC!RemoveCut
<1>1. PICK first \in {<<b, i>>, <<b, 0>>, <<0, 0>>}, s \in Left(b, i) : Cuts(b, i, first, s)
  BY <1>0
<1>2. /\ stored \in [SBC!Blocks -> Content] /\ spoiled \subseteq SBC!Blocks
      /\ SBC!Holds(0) \in [cycle : Nat, packet : Nat] /\ SBC!Nothing \in Content
  BY BlocksTyped, HoldsTyped DEF SBC!Nothing, Content
<1>3. stored[b][i] \in [cycle : Nat, packet : Nat]
  BY <1>1, <1>2 DEF Content
<1>4. s \in [cycle : Nat, packet : Nat]
  BY <1>1, <1>2, <1>3
<1>5. Emptied(b, i, first[2], s) \in Content
  BY <1>1, <1>2, <1>4 DEF Content
<1> HIDE DEF Emptied
<1>6. stored' \in [SBC!Blocks -> Content]
  BY <1>1, <1>2, <1>5
<1>7. first[1] \in {0, b}
  BY <1>1
<1>8. first[1]..b \subseteq SBC!Blocks /\ \A c \in first[1]..(b - 1) : c \in first[1]..b
  BY <1>1, <1>7, BlockConstants DEF SBC!Blocks
<1>9. b \in first[1]..b
  BY <1>1, <1>7, BlockConstants
<1>10. SBC!Rest \subseteq SBC!Blocks /\ (up.left > 0 => 0 \in SBC!Rest)
  BY BlockConstants DEF SBC!Rest
<1>11. ASSUME NEW c \in SBC!Blocks, c \notin spoiled'
       PROVE  stored'[c] = stored[c]
  BY <1>1, <1>8, <1>9, <1>11
<1> QED
  BY <1>1, <1>2, <1>6, <1>8, <1>10, <1>11 DEF Cut

LEMMA BlocksRestartKept ==
    ASSUME BlocksInv, SBC!Restart
    PROVE  BlocksInv'
<1>1. /\ number' = 0 /\ position' = 0 /\ prev_cmd_count' = 0
      /\ up' = [up EXCEPT !.trust = FALSE] /\ UNCHANGED <<made, meant>>
  BY DEF SBC!Restart
<1>2. Cut
  <2>1. ASSUME stored' = stored, spoiled' = spoiled \cup SBC!Rest
        PROVE  Cut
    BY <2>1, BlocksTyped, BlockConstants DEF Cut, SBC!Rest
  <2> QED
    BY <2>1, WriteCutKept, RemoveCutKept DEF SBC!Restart, SBC!ActionCut
<1>3. /\ up' \in [block : SBC!Blocks, pos : Nat, left : Nat, trust : BOOLEAN]
      /\ up'.left = up.left /\ up'.block = up.block /\ up'.trust = FALSE
  BY <1>1, BlocksTyped
<1>4. BlockTypes'
  <2>1. number' \in SBC!Blocks /\ position' \in 0..BlockLength /\ prev_cmd_count' \in Nat
    BY <1>1, BlockConstants
  <2> QED
    BY <1>1, <1>2, <1>3, <2>1, BlocksTyped, BlocksTypedNext DEF Cut
<1>5. UploadSpoils'
  BY <1>1, <1>2, <1>3 DEF BlocksInv, UploadSpoils, Cut
<1>6. Undisturbed'
  BY <1>3 DEF Undisturbed
<1>7. ASSUME NEW b \in SBC!Blocks, b \notin spoiled'
      PROVE  stored'[b] = meant'[b]
  <2>1. b \notin spoiled /\ stored'[b] = stored[b]
    BY <1>2, <1>7 DEF Cut
  <2>2. stored[b] = meant[b]
    BY <2>1 DEF BlocksInv, StoredAsMeant, SBC!StoredAsMeant
  <2> QED
    BY <1>1, <2>1, <2>2
<1>8. StoredAsMeant'
  BY <1>7 DEF StoredAsMeant, SBC!StoredAsMeant, SBC!Blocks
<1> QED
  BY <1>4, <1>5, <1>6, <1>8 DEF BlocksInv

(* An upload is trusted when its block was whole and its first packet is not the last one *)
(* again.                                                                        *)
LEMMA BeginKept ==
    ASSUME BlocksInv, SBC!Begin
    PROVE  BlocksInv'
<1>1. PICK b \in SBC!Blocks, pos \in SBC!Positions, n \in 1..(BlockLength + 1) :
          /\ number' = b /\ position' = pos
          /\ up' = [block |-> b, pos |-> pos, left |-> n,
                    trust |-> b \notin spoiled /\ SBC!Count(made + 1) # prev_cmd_count]
          /\ spoiled' = spoiled \cup {b}
  BY DEF SBC!Begin
<1>2. UNCHANGED <<prev_cmd_count, stored, made, meant>>
  BY DEF SBC!Begin, SBC!fram
<1>3. pos \in Nat /\ pos < BlockLength /\ n \in Nat /\ n > 0
  BY BlockConstants
<1>4. (b \notin spoiled /\ SBC!Count(made + 1) # prev_cmd_count) \in BOOLEAN
  OBVIOUS
<1>5. up' \in [block : SBC!Blocks, pos : Nat, left : Nat, trust : BOOLEAN]
  BY <1>1, <1>3, <1>4
<1>6. BlockTypes'
  <2>1. position' \in 0..BlockLength /\ number' \in SBC!Blocks /\ spoiled' \subseteq SBC!Blocks
    BY <1>1, <1>3, BlockConstants, BlocksTyped
  <2> QED
    BY <1>2, <1>5, <2>1, BlocksTyped, BlocksTypedNext
<1>7. /\ up'.block = b /\ up'.pos = pos /\ up'.left = n
      /\ up'.trust = (b \notin spoiled /\ SBC!Count(made + 1) # prev_cmd_count)
  BY <1>1
<1>8. UploadSpoils'
  BY <1>1, <1>7 DEF UploadSpoils
<1>9. Undisturbed'
  <2> SUFFICES ASSUME up'.trust PROVE Awaited'
    BY <1>1, <1>3, <1>7 DEF Undisturbed
  <2>1. b \notin spoiled /\ SBC!Count(made + 1) # prev_cmd_count
    BY <1>7
  <2>2. stored[b] = meant[b]
    BY <2>1 DEF BlocksInv, StoredAsMeant, SBC!StoredAsMeant
  <2>3. SBC!Count(made + 1)' = SBC!Count(made + 1)
    BY <1>2
  <2>4. UpTo(up.pos)' = pos
    BY <1>3, <1>7 DEF UpTo
  <2> QED
    BY <1>1, <1>2, <1>7, <2>1, <2>2, <2>3, <2>4 DEF Awaited
<1>10. StoredAsMeant'
  BY <1>1, <1>2 DEF BlocksInv, StoredAsMeant, SBC!StoredAsMeant, SBC!Blocks
<1> QED
  BY <1>6, <1>8, <1>9, <1>10 DEF BlocksInv

LEMMA SetRefusedKept ==
    ASSUME BlocksInv, SBC!SetRefused
    PROVE  BlocksInv'
<1>1. /\ position' = 0 /\ up' = [up EXCEPT !.trust = FALSE] /\ spoiled' = spoiled \cup {number}
      /\ UNCHANGED <<number, prev_cmd_count, stored, made, meant>>
  BY DEF SBC!SetRefused, SBC!fram
<1>2. /\ up' \in [block : SBC!Blocks, pos : Nat, left : Nat, trust : BOOLEAN]
      /\ up'.left = up.left /\ up'.block = up.block /\ up'.trust = FALSE
  BY <1>1, BlocksTyped
<1>3. BlockTypes'
  <2>1. position' \in 0..BlockLength /\ spoiled' \subseteq SBC!Blocks
    BY <1>1, BlockConstants, BlocksTyped
  <2> QED
    BY <1>1, <1>2, <2>1, BlocksTyped, BlocksTypedNext
<1>4. UploadSpoils' /\ Undisturbed'
  BY <1>1, <1>2 DEF BlocksInv, UploadSpoils, Undisturbed
<1>5. StoredAsMeant'
  BY <1>1 DEF BlocksInv, StoredAsMeant, SBC!StoredAsMeant, SBC!Blocks
<1> QED
  BY <1>3, <1>4, <1>5 DEF BlocksInv

(* A change is made to what is stored and to what is meant alike; an upload that it     *)
(* meets is no longer trusted.                                                    *)
LEMMA RemoveKept ==
    ASSUME BlocksInv, SBC!Remove, UNCHANGED <<prev_cmd_count, made>>
    PROVE  BlocksInv'
<1>1. PICK B \in SUBSET SBC!Blocks :
          /\ stored' = [b \in SBC!Blocks |-> IF b \in B THEN SBC!Nothing ELSE stored[b]]
          /\ meant' = [b \in SBC!Blocks |-> IF b \in B THEN SBC!Nothing ELSE meant[b]]
          /\ spoiled' = IF up.left = 0 THEN spoiled \ B ELSE spoiled
          /\ up' = [up EXCEPT !.trust = @ /\ up.block \notin B]
  <2>1. {{b} : b \in SBC!Blocks} \cup {SBC!Blocks} \subseteq SUBSET SBC!Blocks
    OBVIOUS
  <2>2. PICK B \in {{b} : b \in SBC!Blocks} \cup {SBC!Blocks} :
          /\ stored' = [b \in SBC!Blocks |-> IF b \in B THEN SBC!Nothing ELSE stored[b]]
          /\ meant' = [b \in SBC!Blocks |-> IF b \in B THEN SBC!Nothing ELSE meant[b]]
          /\ spoiled' = IF up.left = 0 THEN spoiled \ B ELSE spoiled
          /\ up' = [up EXCEPT !.trust = @ /\ up.block \notin B]
    BY Zenon DEF SBC!Remove
  <2> QED
    BY Zenon, <2>1, <2>2
<1>2. UNCHANGED <<number, position, prev_cmd_count, made>>
  BY DEF SBC!Remove
<1>3. SBC!Nothing \in Content
  BY HoldsTyped DEF SBC!Nothing, Content
<1>4. stored' \in [SBC!Blocks -> Content] /\ meant' \in [SBC!Blocks -> Content]
  BY <1>1, <1>3, BlocksTyped
<1>5. (up.trust /\ up.block \notin B) \in BOOLEAN
  OBVIOUS
<1>6. /\ up' \in [block : SBC!Blocks, pos : Nat, left : Nat, trust : BOOLEAN]
      /\ up'.left = up.left /\ up'.block = up.block /\ up'.pos = up.pos
      /\ up'.trust = (up.trust /\ up.block \notin B)
  BY <1>1, <1>5, BlocksTyped
<1>7. BlockTypes'
  <2>1. spoiled' \subseteq SBC!Blocks
    BY <1>1, BlocksTyped
  <2> QED
    BY <1>2, <1>4, <1>6, <2>1, BlocksTyped, BlocksTypedNext
<1>8. UploadSpoils'
  BY <1>1, <1>2, <1>6, BlocksTyped DEF BlocksInv, UploadSpoils
<1>9. Undisturbed'
  <2> SUFFICES ASSUME up'.trust
               PROVE  up'.left > 0 /\ number' = up'.block /\ (Awaited' \/ Arrived')
    BY DEF Undisturbed
  <2>1. up.trust /\ up.block \notin B /\ up.block \in SBC!Blocks
    BY <1>6, BlocksTyped
  <2>2. stored'[up.block] = stored[up.block] /\ meant'[up.block] = meant[up.block]
    BY <1>1, <2>1
  <2>3. Awaited \/ Arrived
    BY <2>1 DEF BlocksInv, Undisturbed
  <2>4. Awaited => Awaited'
    BY <1>2, <1>6, <2>2 DEF Awaited, UpTo, SBC!Count
  <2>5. Arrived => Arrived'
    BY <1>2, <1>6, <2>2 DEF Arrived, UpTo, SBC!Count, SBC!Holds
  <2> QED
    BY <1>2, <1>6, <2>1, <2>3, <2>4, <2>5 DEF BlocksInv, Undisturbed
<1>10. ASSUME NEW b \in SBC!Blocks, b \notin spoiled'
       PROVE  stored'[b] = meant'[b]
  <2>1. b \in B \/ b \notin spoiled
    BY <1>1, <1>10
  <2>2. b \notin spoiled => stored[b] = meant[b]
    BY DEF BlocksInv, StoredAsMeant, SBC!StoredAsMeant
  <2> QED
    BY <1>1, <2>1, <2>2
<1>11. StoredAsMeant'
  BY <1>10 DEF StoredAsMeant, SBC!StoredAsMeant, SBC!Blocks
<1> QED
  BY <1>7, <1>8, <1>9, <1>11 DEF BlocksInv

LEMMA RemoveAtKept ==
    ASSUME BlocksInv, SBC!RemoveAt, UNCHANGED <<prev_cmd_count, made>>
    PROVE  BlocksInv'
<1> DEFINE p == SBC!Holds(0)
<1>1. PICK b \in SBC!Blocks, i \in SBC!Positions :
          /\ stored' = [stored EXCEPT ![b][i] = p]
          /\ meant' = [meant EXCEPT ![b][i] = p]
          /\ up' = [up EXCEPT !.trust = @ /\ up.block # b]
  BY DEF SBC!RemoveAt
<1>2. UNCHANGED <<number, position, prev_cmd_count, made, spoiled>>
  BY DEF SBC!RemoveAt
<1>3. p \in [cycle : Nat, packet : Nat]
  BY HoldsTyped
<1> HIDE DEF p
<1>4. stored' \in [SBC!Blocks -> Content] /\ meant' \in [SBC!Blocks -> Content]
  BY <1>1, <1>3, SlotWritten, BlocksTyped
<1>5. (up.trust /\ up.block # b) \in BOOLEAN
  OBVIOUS
<1>6. /\ up' \in [block : SBC!Blocks, pos : Nat, left : Nat, trust : BOOLEAN]
      /\ up'.left = up.left /\ up'.block = up.block /\ up'.pos = up.pos
      /\ up'.trust = (up.trust /\ up.block # b)
  BY <1>1, <1>5, BlocksTyped
<1>7. BlockTypes'
  BY <1>2, <1>4, <1>6, BlocksTyped, BlocksTypedNext
<1>8. UploadSpoils'
  BY <1>2, <1>6, BlocksTyped DEF BlocksInv, UploadSpoils
<1>9. Undisturbed'
  <2> SUFFICES ASSUME up'.trust
               PROVE  up'.left > 0 /\ number' = up'.block /\ (Awaited' \/ Arrived')
    BY DEF Undisturbed
  <2>1. up.trust /\ up.block # b /\ up.block \in SBC!Blocks
    BY <1>6, BlocksTyped
  <2>2. stored'[up.block] = stored[up.block] /\ meant'[up.block] = meant[up.block]
    BY <1>1, <2>1, BlocksTyped
  <2>3. Awaited \/ Arrived
    BY <2>1 DEF BlocksInv, Undisturbed
  <2>4. Awaited => Awaited'
    BY <1>2, <1>6, <2>2 DEF Awaited, UpTo, SBC!Count
  <2>5. Arrived => Arrived'
    BY <1>2, <1>6, <2>2 DEF Arrived, UpTo, SBC!Count, SBC!Holds
  <2> QED
    BY <1>2, <1>6, <2>1, <2>3, <2>4, <2>5 DEF BlocksInv, Undisturbed
<1>10. ASSUME NEW c \in SBC!Blocks, c \notin spoiled
       PROVE  stored'[c] = meant'[c]
  <2>1. stored[c] = meant[c]
    BY <1>10 DEF BlocksInv, StoredAsMeant, SBC!StoredAsMeant
  <2>2. CASE c # b
    BY <1>1, <2>1, <2>2, BlocksTyped
  <2>3. CASE c = b
    <3>1. stored'[b] = [stored[b] EXCEPT ![i] = p] /\ meant'[b] = [meant[b] EXCEPT ![i] = p]
      BY <1>1, BlocksTyped
    <3> QED
      BY <2>1, <2>3, <3>1
  <2> QED
    BY <2>2, <2>3
<1>11. StoredAsMeant'
  BY <1>2, <1>10 DEF StoredAsMeant, SBC!StoredAsMeant, SBC!Blocks
<1> QED
  BY <1>7, <1>8, <1>9, <1>11 DEF BlocksInv

LEMMA ExtractKept ==
    ASSUME BlocksInv, SBC!Extract, UNCHANGED <<prev_cmd_count, made>>
    PROVE  BlocksInv'
<1>1. PICK b \in SBC!Blocks, i \in SBC!Positions : number' = b /\ position' = i
  BY DEF SBC!Extract
<1>2. /\ up' = [up EXCEPT !.trust = FALSE]
      /\ spoiled' = spoiled \cup IF up.left > 0 THEN {number'} ELSE {}
      /\ UNCHANGED <<prev_cmd_count, stored, made, meant>>
  BY DEF SBC!Extract, SBC!fram
<1>3. /\ up' \in [block : SBC!Blocks, pos : Nat, left : Nat, trust : BOOLEAN]
      /\ up'.left = up.left /\ up'.block = up.block /\ up'.trust = FALSE
  BY <1>2, BlocksTyped
<1>4. BlockTypes'
  <2>1. position' \in 0..BlockLength /\ number' \in SBC!Blocks /\ spoiled' \subseteq SBC!Blocks
    BY <1>1, <1>2, BlockConstants, BlocksTyped
  <2> QED
    BY <1>2, <1>3, <2>1, BlocksTyped, BlocksTypedNext
<1>5. UploadSpoils'
  BY <1>2, <1>3 DEF BlocksInv, UploadSpoils
<1>6. Undisturbed'
  BY <1>3 DEF Undisturbed
<1>7. StoredAsMeant'
  BY <1>2 DEF BlocksInv, StoredAsMeant, SBC!StoredAsMeant, SBC!Blocks
<1> QED
  BY <1>4, <1>5, <1>6, <1>7 DEF BlocksInv

LEMMA ChangeKept ==
    ASSUME BlocksInv, SBC!Change
    PROVE  BlocksInv'
<1>1. /\ SBC!Activate \/ SBC!Remove \/ SBC!RemoveAt \/ SBC!Extract \/ SBC!DeployNow
      /\ UNCHANGED <<prev_cmd_count, made>>
  BY Zenon DEF SBC!Change, SBC!SentCommand
<1>2. SBC!Activate \/ SBC!DeployNow => UNCHANGED BlockState
  BY <1>1 DEF SBC!Activate, SBC!DeployNow, SBC!fram, BlockState
<1> QED
  BY <1>1, <1>2, BlocksUnchanged, RemoveKept, RemoveAtKept, ExtractKept

LEMMA BlocksKept ==
    ASSUME BlocksInv, SBC!Next \/ UNCHANGED sbcVars
    PROVE  BlocksInv'
<1>1. CASE UNCHANGED sbcVars
  BY <1>1, BlocksUnchanged DEF sbcVars, BlockState
<1>2. CASE SBC!BlockCommand
  <2>1. SBC!Deploy => UNCHANGED BlockState
    BY DEF SBC!Deploy, SBC!ram, SBC!fram, SBC!ground, BlockState
  <2> QED
    BY <1>2, <2>1, BeginKept, SetRefusedKept, ChangeKept, BlocksUnchanged
    DEF SBC!BlockCommand
<1>3. CASE SBC!ControlCommand
  <2>1. SBC!SetCounter \/ SBC!SetBeyond \/ SBC!AutoControl_execute => UNCHANGED BlockState
    BY DEF SBC!SetCounter, SBC!SetBeyond, SBC!AutoControl_execute, SBC!ram, SBC!fram, SBC!ground, BlockState
  <2>2. SBC!AutoControl => UNCHANGED BlockState
    BY DEF SBC!AutoControl, SBC!SentCommand, SBC!SetAction, SBC!fram, BlockState
  <2> QED
    BY <1>3, <2>1, <2>2, BlocksUnchanged DEF SBC!ControlCommand
<1>4. CASE SBC!Upload
  BY <1>4, AnsweredKept, UnansweredKept DEF SBC!Upload
<1> QED
  BY <1>1, <1>2, <1>3, <1>4, AbandonKept, BlocksRestartKept DEF SBC!Next

LEMMA BlocksAlways == StorageSpec => []BlocksInv
<1>1. StorageInit => BlocksInv
  BY SBCInit DEF StorageInit
<1>2. BlocksInv /\ [StorageNext]_storageVars => BlocksInv'
  BY PartSteps, BlocksKept
<1> QED
  BY <1>1, <1>2, PTL DEF StorageSpec

(* A block holds what the ground was answered, every packet once and at its place, for all  *)
(* numbers and lengths of the blocks, all counts of at least two and however many packets    *)
(* and answers are lost (FRAM_cmd_manager.cpp, FRAM_SBC_Write_packet).                  *)
THEOREM UploadsKept == StorageSpec => []StoredAsMeant
<1>1. BlocksInv => StoredAsMeant
  BY DEF BlocksInv
<1> QED
  BY <1>1, BlocksAlways, PTL

-------------------------------------------------------------------------------
(* The autonomous control. *)

ControlState == <<counter, actions, disactivate, fired>>

LEMMA ControlUnchanged ==
    ASSUME ControlInv, UNCHANGED ControlState
    PROVE  ControlInv'
BY DEF ControlInv, ControlState, Action

LEMMA NothingFired == <<>> \in Seq(SBC!Ids) /\ DOMAIN <<>> = {}
OBVIOUS

(* A packet from the ground, and all else that forgets what was executed. *)
LEMMA ControlForgets ==
    ASSUME fired' = <<>>, counter' \in 0..(Wrap - 1), disactivate' \in BOOLEAN,
           actions' \in [SBC!Ids -> Action]
    PROVE  ControlInv'
BY NothingFired DEF ControlInv, SBC!Ids, Action, SBC!Blocks

LEMMA ContactKept ==
    ASSUME ControlInv, SBC!Contact, actions' \in [SBC!Ids -> Action]
    PROVE  ControlInv'
<1>1. fired' = <<>> /\ disactivate' = disactivate /\ counter' \in {0, counter}
  BY DEF SBC!Contact, SBC!Clear_NonCmd_counter
<1>2. counter' \in 0..(Wrap - 1) /\ disactivate' \in BOOLEAN
  BY <1>1, BlockConstants DEF ControlInv
<1> QED
  BY <1>1, <1>2, ControlForgets

(* Only AutoControl_execute executes, and what it executes has its time now. *)
LEMMA ExecutesNow ==
    ASSUME ControlInv, SBC!AutoControl_execute
    PROVE  /\ ~disactivate /\ disactivate' = TRUE /\ actions' = actions
           /\ \/ fired' = fired /\ counter' = counter
              \/ fired' = <<>> /\ counter' = 0
              \/ \E i \in SBC!Ids : /\ fired' = Append(fired, i) /\ actions[i].time = counter
                                    /\ counter' = counter
<1>1. ~disactivate /\ disactivate' = TRUE /\ actions' = actions
  BY DEF SBC!AutoControl_execute
<1>2. CASE counter = 0 \/ SBC!Due = {}
  BY <1>1, <1>2 DEF SBC!AutoControl_execute
<1>3. CASE ~(counter = 0 \/ SBC!Due = {})
  <2>1. PICK i \in SBC!Due :
          /\ IF i = Actions - 1 THEN SBC!Clear_NonCmd_counter ELSE UNCHANGED <<counter, heard>>
          /\ fired' = IF i = Actions - 1 /\ ~heard THEN <<>> ELSE Append(fired, i)
    BY <1>3 DEF SBC!AutoControl_execute
  <2>2. i \in SBC!Ids /\ actions[i].time = counter
    BY <2>1 DEF SBC!Due, SBC!ChosenNow
  <2>3. CASE i = Actions - 1 /\ ~heard
    BY <1>1, <2>1, <2>3 DEF SBC!Clear_NonCmd_counter
  <2>4. CASE ~(i = Actions - 1 /\ ~heard)
    <3>1. counter' = counter /\ fired' = Append(fired, i)
      BY <2>1, <2>4 DEF SBC!Clear_NonCmd_counter
    <3> QED
      BY <1>1, <2>2, <3>1
  <2> QED
    BY <2>3, <2>4
<1> QED
  BY <1>2, <1>3

LEMMA Appended ==
    ASSUME NEW S, NEW s \in Seq(S), NEW e \in S
    PROVE  /\ Append(s, e) \in Seq(S) /\ Len(Append(s, e)) = Len(s) + 1
           /\ Append(s, e)[Len(s) + 1] = e
           /\ \A k \in DOMAIN Append(s, e) :
                 (k \in DOMAIN s /\ Append(s, e)[k] = s[k]) \/ Append(s, e)[k] = e
OBVIOUS

LEMMA ExecuteKept ==
    ASSUME ControlInv, SBC!AutoControl_execute
    PROVE  ControlInv'
<1>1. CASE fired' = fired /\ counter' = counter
  BY <1>1, ExecutesNow DEF ControlInv
<1>2. CASE fired' = <<>> /\ counter' = 0
  <2>1. actions \in [SBC!Ids -> Action]
    BY DEF ControlInv
  <2>2. 0 \in 0..(Wrap - 1)
    BY BlockConstants
  <2>3. disactivate' \in BOOLEAN /\ actions' = actions
    BY ExecutesNow
  <2> QED
    BY <1>2, <2>1, <2>2, <2>3, ControlForgets
<1>3. CASE \E i \in SBC!Ids : /\ fired' = Append(fired, i) /\ actions[i].time = counter
                              /\ counter' = counter
  <2>1. PICK i \in SBC!Ids : /\ fired' = Append(fired, i) /\ actions[i].time = counter
                             /\ counter' = counter
    BY <1>3
  <2>2. fired \in Seq(SBC!Ids)
    BY DEF ControlInv
  <2>3. \A k \in DOMAIN fired' : (k \in DOMAIN fired /\ fired'[k] = fired[k]) \/ fired'[k] = i
    BY <2>1, <2>2, Appended
  <2>4. counter \in Nat
    BY BlockConstants DEF ControlInv
  <2>5. \A k \in DOMAIN fired' : actions[fired'[k]].time <= counter
    BY <2>1, <2>3, <2>4 DEF ControlInv
  <2>6. fired' \in Seq(SBC!Ids)
    BY <2>1, <2>2, Appended
  <2> QED
    BY <2>1, <2>5, <2>6, ExecutesNow DEF ControlInv
<1> QED
  BY <1>1, <1>2, <1>3, ExecutesNow

(* What an action may be set to, whole or as far as it has been written. *)
LEMMA SettingsTyped == SBC!Settings \subseteq Action
<1>1. Chosen \subseteq SBC!Blocks /\ 0 \in SBC!Blocks /\ 1..2 \subseteq Nat
  BY StorageAssumption, BlockConstants DEF SBC!StoredBlocksConstants, SBC!Blocks
<1>2. SBC!NoAction \in Action
  BY <1>1 DEF SBC!NoAction, Action
<1>3. [bc : Chosen, activate : {TRUE}, time : 1..2] \subseteq Action
  BY <1>1 DEF Action
<1> QED
  BY <1>2, <1>3 DEF SBC!Settings

LEMMA ActionSet ==
    ASSUME ControlInv, NEW i \in SBC!Ids, NEW a \in Action, actions' = [actions EXCEPT ![i] = a]
    PROVE  actions' \in [SBC!Ids -> Action]
BY DEF ControlInv

LEMMA SetActionTyped ==
    ASSUME ControlInv, SBC!SetAction
    PROVE  actions' \in [SBC!Ids -> Action]
BY SettingsTyped, ActionSet DEF SBC!SetAction

LEMMA ActionCutTyped ==
    ASSUME ControlInv, SBC!ActionCut
    PROVE  actions' \in [SBC!Ids -> Action]
<1> DEFINE whole(a, c)  == a
           timed(a, c)  == [a EXCEPT !.time = c.time]
           blocks(a, c) == [c EXCEPT !.bc = a.bc]
<1>1. PICK i \in SBC!Ids, a \in SBC!Settings :
          \/ actions' = [actions EXCEPT ![i] = a]
          \/ actions' = [actions EXCEPT ![i] = timed(a, actions[i])]
          \/ actions' = [actions EXCEPT ![i] = blocks(a, actions[i])]
  BY DEF SBC!ActionCut
<1>2. a \in Action /\ actions[i] \in Action
  BY <1>1, SettingsTyped DEF ControlInv
<1>3. timed(a, actions[i]) \in Action /\ blocks(a, actions[i]) \in Action
  BY <1>2 DEF Action
<1> HIDE DEF timed, blocks
<1> QED
  BY <1>1, <1>2, <1>3, ActionSet

(* The time of what was executed lies before the next restart, unless the counter turns     *)
(* over.                                                                         *)
LEMMA ControlRestartKept ==
    ASSUME ControlInv, SBC!Restart
    PROVE  ControlInv'
<1>1. /\ counter' = (counter + 1) % Wrap /\ disactivate' = FALSE
      /\ SBC!ActionCut \/ (actions' = actions /\ fired' = SBC!Kept)
  BY DEF SBC!Restart, SBC!WriteCut, SBC!RemoveCut
<1>2. counter \in 0..(Wrap - 1) /\ Wrap \in Nat \ {0}
  BY BlockConstants DEF ControlInv
<1>3. counter' \in 0..(Wrap - 1)
  <2>1. CASE counter + 1 = Wrap
    BY <1>1, <1>2, <2>1
  <2>2. CASE counter + 1 # Wrap
    <3>1. (counter + 1) % Wrap = counter + 1
      BY <1>2, <2>2
    <3> QED
      BY <1>1, <1>2, <2>2, <3>1
  <2> QED
    BY <2>1, <2>2
<1>4. CASE SBC!ActionCut
  <2>1. fired' = <<>> /\ actions' \in [SBC!Ids -> Action]
    BY <1>4, ActionCutTyped DEF SBC!ActionCut
  <2> QED
    BY <1>1, <1>3, <2>1, ControlForgets
<1>5. CASE actions' = actions /\ fired' = SBC!Kept /\ counter + 1 = Wrap
  <2>1. fired' = <<>> /\ actions' \in [SBC!Ids -> Action]
    BY <1>5 DEF SBC!Kept, ControlInv
  <2> QED
    BY <1>1, <1>3, <2>1, ControlForgets
<1>6. CASE actions' = actions /\ fired' = SBC!Kept /\ counter + 1 # Wrap
  <2>1. counter' = counter + 1 /\ counter + 1 \in 0..(Wrap - 1)
    <3>1. (counter + 1) % Wrap = counter + 1
      BY <1>2, <1>6
    <3> QED
      BY <1>1, <1>2, <1>6, <3>1
  <2>2. fired' = fired /\ fired \in Seq(SBC!Ids) /\ actions' \in [SBC!Ids -> Action]
    BY <1>6 DEF ControlInv, SBC!Kept
  <2>3. \A k \in DOMAIN fired : actions[fired[k]].time \in Nat
    <3>1. \A k \in DOMAIN fired : fired[k] \in SBC!Ids
      BY <2>2
    <3> QED
      BY <3>1 DEF ControlInv, Action
  <2>4. \A k \in DOMAIN fired : actions[fired[k]].time < counter + 1
    BY <1>2, <2>3 DEF ControlInv
  <2>5. \A k \in DOMAIN fired : actions[fired[k]].time <= counter + 1
    BY <1>2, <2>3 DEF ControlInv
  <2> QED
    BY <1>1, <1>6, <2>1, <2>2, <2>4, <2>5 DEF ControlInv
<1> QED
  BY <1>1, <1>4, <1>5, <1>6

LEMMA ControlKept ==
    ASSUME ControlInv, SBC!Next \/ UNCHANGED sbcVars
    PROVE  ControlInv'
<1>1. actions \in [SBC!Ids -> Action]
  BY DEF ControlInv
<1>2. SBC!Contact /\ UNCHANGED actions => ControlInv'
  BY <1>1, ContactKept
<1>3. CASE UNCHANGED sbcVars
  BY <1>3, ControlUnchanged DEF sbcVars, ControlState
<1>4. CASE SBC!BlockCommand
  <2>1. SBC!Deploy => UNCHANGED ControlState
    BY DEF SBC!Deploy, ControlState
  <2>2. SBC!Begin \/ SBC!SetRefused => SBC!Contact /\ UNCHANGED actions
    BY DEF SBC!Begin, SBC!SetRefused
  <2>3. SBC!Change => SBC!Contact /\ UNCHANGED actions
    BY DEF SBC!Change, SBC!SentCommand, SBC!Activate, SBC!Remove, SBC!RemoveAt, SBC!Extract,
       SBC!DeployNow
  <2> QED
    BY <1>2, <1>4, <2>1, <2>2, <2>3, ControlUnchanged DEF SBC!BlockCommand
<1>5. CASE SBC!ControlCommand
  <2>1. CASE SBC!SetCounter
    <3>1. fired' = <<>> /\ counter' \in 0..2 /\ UNCHANGED <<actions, disactivate>>
      BY <2>1 DEF SBC!SetCounter
    <3>2. counter' \in 0..(Wrap - 1) /\ disactivate' \in BOOLEAN
      BY <3>1, BlockConstants DEF ControlInv
    <3> QED
      BY <1>1, <3>1, <3>2, ControlForgets
  <2>2. CASE SBC!AutoControl
    <3>1. SBC!Contact /\ SBC!SetAction
      BY <2>2 DEF SBC!AutoControl, SBC!SentCommand
    <3> QED
      BY <3>1, SetActionTyped, ContactKept
  <2>3. CASE SBC!SetBeyond
    <3>1. /\ fired' = <<>> /\ counter' \in {counter, 0} /\ disactivate' \in BOOLEAN
          /\ UNCHANGED actions
      BY <2>3 DEF SBC!SetBeyond
    <3>2. counter' \in 0..(Wrap - 1)
      BY <3>1, BlockConstants DEF ControlInv
    <3> QED
      BY <1>1, <3>1, <3>2, ControlForgets
  <2> QED
    BY <1>5, <2>1, <2>2, <2>3, ExecuteKept DEF SBC!ControlCommand
<1>6. CASE SBC!Upload
  BY <1>2, <1>6 DEF SBC!Upload
<1>7. CASE SBC!Abandon
  BY <1>7, ControlUnchanged DEF SBC!Abandon, SBC!auto, ControlState
<1> QED
  BY <1>3, <1>4, <1>5, <1>6, <1>7, ControlRestartKept DEF SBC!Next

LEMMA ControlAlways == StorageSpec => []ControlInv
<1>1. StorageInit => ControlInv
  BY SBCInit DEF StorageInit
<1>2. ControlInv /\ [StorageNext]_storageVars => ControlInv'
  BY PartSteps, ControlKept
<1> QED
  BY <1>1, <1>2, PTL DEF StorageSpec

(* What is executed has a later time than all that was before. *)
LEMMA ExecutesLater ==
    ASSUME ControlInv, SBC!AutoControl_execute
    PROVE  SBC!EscalatesInOrder
<1>1. fired \in Seq(SBC!Ids) /\ Len(fired) \in Nat
  BY DEF ControlInv
<1> SUFFICES ASSUME Len(fired') > Len(fired)
             PROVE  \A k \in DOMAIN fired :
                       actions[fired[k]].time < actions[fired'[Len(fired')]].time
  BY DEF SBC!EscalatesInOrder
<1>2. PICK i \in SBC!Ids : fired' = Append(fired, i) /\ actions[i].time = counter
  BY <1>1, ExecutesNow
<1>3. fired'[Len(fired')] = i
  BY <1>1, <1>2, Appended
<1> QED
  BY <1>2, <1>3, ExecutesNow DEF ControlInv

LEMMA OthersExecuteNothing ==
    ASSUME ControlInv, SBC!Next, ~SBC!AutoControl_execute
    PROVE  fired' = <<>> \/ fired' = fired
<1>1. SBC!Contact => fired' = <<>>
  BY DEF SBC!Contact
<1>2. CASE SBC!BlockCommand
  BY <1>1, <1>2 DEF SBC!BlockCommand, SBC!Begin, SBC!SetRefused, SBC!Change, SBC!SentCommand,
     SBC!Deploy
<1>3. CASE SBC!ControlCommand
  BY <1>1, <1>3 DEF SBC!ControlCommand, SBC!SetCounter, SBC!SetBeyond, SBC!AutoControl,
     SBC!SentCommand
<1>4. CASE SBC!Upload \/ SBC!Abandon \/ SBC!Restart
  BY <1>1, <1>4 DEF SBC!Upload, SBC!Abandon, SBC!Restart, SBC!WriteCut, SBC!RemoveCut,
     SBC!ActionCut, SBC!Kept
<1> QED
  BY <1>2, <1>3, <1>4 DEF SBC!Next

(* From one contact with the ground to the next no action is executed twice, and none after *)
(* one of a later time, for all numbers of actions and of restarts                     *)
(* (AutonomousControl.cpp, AutoControl_execute).                                  *)
THEOREM Escalates == StorageSpec => EscalatesOnce
<1>1. ControlInv /\ [StorageNext]_storageVars => [SBC!EscalatesInOrder]_sbcVars
  <2> SUFFICES ASSUME ControlInv, SBC!Next, ~SBC!AutoControl_execute
               PROVE  SBC!EscalatesInOrder
    BY PartSteps, ExecutesLater
  <2>1. fired \in Seq(SBC!Ids)
    BY DEF ControlInv
  <2>2. ~(Len(fired') > Len(fired))
    BY <2>1, OthersExecuteNothing
  <2> QED
    BY <2>2 DEF SBC!EscalatesInOrder
<1> QED
  BY <1>1, ControlAlways, PTL DEF StorageSpec, EscalatesOnce

-------------------------------------------------------------------------------
LEMMA DivisionUnique ==
    ASSUME NEW d \in Nat \ {0}, NEW q \in Nat, NEW s \in Nat, s < d
    PROVE  (d * q + s) \div d = q /\ (d * q + s) % d = s
<1> DEFINE a == d * q + s
           k == a \div d
           m == a % d
<1>1. a \in Nat
  OBVIOUS
<1>2. d * q \in Int /\ a = d * q + s
  OBVIOUS
<1> HIDE DEF a
<1>3. k \in Nat /\ m \in Nat /\ m < d /\ a = d * k + m
  BY <1>1, DivMod
<1> HIDE DEF k, m
<1>4. /\ d * k \in Int /\ d * (k + 1) = d * k + d * 1 /\ d * (q + 1) = d * q + d * 1
      /\ d * 1 = d
  BY <1>3, Spread
<1>5. d * q < d * (k + 1) /\ d * k < d * (q + 1)
  BY <1>2, <1>3, <1>4
<1>6. q < k + 1 /\ k < q + 1
  BY <1>3, <1>5, Cancel
<1>7. k = q
  BY <1>3, <1>6
<1>8. m = s
  BY <1>2, <1>3, <1>7
<1> QED
  BY <1>7, <1>8 DEF a, k, m

(* A product grows with its factor. *)
LEMMA Grows ==
    ASSUME NEW d \in Nat, NEW a \in Nat, NEW b \in Nat, a <= b
    PROVE  d * a \in Nat /\ d * a <= d * b
<1>1. d * (b - a) = d * b - d * a /\ d * a \in Int /\ d * b \in Int
  BY Spread
<1>2. \A x \in Nat : d * x \in Nat
  OBVIOUS
<1>3. d * (b - a) \in Nat /\ d * a \in Nat
  BY <1>2
<1> QED
  BY <1>1, <1>3

-------------------------------------------------------------------------------
(* The memories of the recorders. *)

LEMMA RecorderConstants ==
    /\ Sectors \in Nat \ {0} /\ Pages \in Nat \ {0} /\ Thr \in Nat \ {0} /\ Thr < Pages
    /\ Counts \subseteq Nat
    /\ REC!Size = Pages * Sectors /\ REC!Size \in Nat /\ REC!Size > 0
    /\ REC!Page = {p \in Nat : p < REC!Size}
<1>1. /\ Sectors \in Nat \ {0} /\ Pages \in Nat \ {0} /\ Thr \in Nat \ {0} /\ Thr < Pages
      /\ Counts \subseteq Nat
  BY StorageAssumption DEF REC!RecorderConstants
<1>2. REC!Size = Pages * Sectors
  BY <1>1 DEF REC!Size
<1>3. Pages * 1 = Pages /\ Pages * 1 <= Pages * Sectors /\ Pages * Sectors \in Nat
  BY <1>1, Grows
<1>4. REC!Size \in Nat /\ REC!Size > 0
  BY <1>1, <1>2, <1>3
<1>5. REC!Page = {p \in Nat : p < REC!Size}
  BY <1>4 DEF REC!Page
<1> QED
  BY <1>1, <1>2, <1>4, <1>5

LEMMA PrefixRead ==
    ASSUME NEW n \in 0..REC!Size, NEW p \in REC!Page
    PROVE  /\ n \in Nat /\ n <= REC!Size /\ p \in Nat /\ p < REC!Size
           /\ REC!Prefix(n)[p] = IF p < n THEN "data" ELSE "blank"
BY RecorderConstants DEF REC!Prefix

LEMMA PrefixTyped ==
    ASSUME NEW n \in 0..REC!Size
    PROVE  REC!Prefix(n) \in [REC!Page -> {"blank", "data", "spoilt"}]
BY DEF REC!Prefix

(* The data end where they end. *)
LEMMA EndOfPrefix ==
    ASSUME NEW n \in 0..REC!Size
    PROVE  /\ REC!Written(REC!Prefix(n)) = {p \in REC!Page : p < n}
           /\ REC!End(REC!Prefix(n)) = n
<1> DEFINE W == REC!Written(REC!Prefix(n))
<1>1. n \in Nat /\ n <= REC!Size
  BY RecorderConstants
<1>2. W = {p \in REC!Page : p < n}
  BY PrefixRead DEF REC!Written
<1>3. CASE n = 0
  <2>1. W = {}
    BY <1>2, <1>3, RecorderConstants
  <2> QED
    BY <1>2, <1>3, <2>1 DEF REC!End
<1>4. CASE n # 0
  <2>1. n - 1 \in W
    BY <1>1, <1>2, <1>4, RecorderConstants
  <2>2. \A q \in W : q \in Nat /\ q <= n - 1
    BY <1>1, <1>2, <1>4, RecorderConstants
  <2>3. REC!Last(W) \in W /\ \A q \in W : q <= REC!Last(W)
    BY <2>1, <2>2 DEF REC!Last
  <2> HIDE DEF W
  <2>4. REC!Last(W) = n - 1
    BY <1>1, <2>1, <2>2, <2>3
  <2>5. REC!End(REC!Prefix(n)) = REC!Last(W) + 1
    BY <2>1 DEF REC!End, W
  <2> QED
    BY <1>1, <1>2, <2>4, <2>5 DEF W
<1> QED
  BY <1>3, <1>4

(* The search for blank pages finds the end of the data where it is not within Thr pages of  *)
(* the end of a sector and not in the last sector.                                    *)
LEMMA BlankAfter ==
    ASSUME NEW n \in 0..REC!Size
    PROVE  REC!Found(REC!Prefix(n), Thr) = {p \in REC!Page : p < REC!Size - Pages /\ n + Thr <= p}
<1>1. n \in Nat /\ Thr \in Nat
  BY RecorderConstants
<1>2. ASSUME NEW p \in REC!Page
      PROVE  REC!BlankRun(REC!Prefix(n), p, Thr) <=> n + Thr <= p
  <2>1. p \in Nat /\ p < REC!Size /\ REC!Size \in Nat
    BY RecorderConstants
  <2>2. ASSUME n + Thr <= p PROVE REC!BlankRun(REC!Prefix(n), p, Thr)
    <3>1. \A q \in (p - Thr)..p : q \in REC!Page /\ ~(q < n)
      BY <1>1, <2>1, <2>2, RecorderConstants
    <3>2. \A q \in (p - Thr)..p : REC!Prefix(n)[q] = "blank"
      BY <3>1, PrefixRead
    <3> QED
      BY <1>1, <2>1, <2>2, <3>2 DEF REC!BlankRun
  <2>3. ASSUME REC!BlankRun(REC!Prefix(n), p, Thr) PROVE n + Thr <= p
    <3>1. p >= Thr /\ p - Thr \in (p - Thr)..p /\ p - Thr \in REC!Page
      BY <1>1, <2>1, <2>3, RecorderConstants DEF REC!BlankRun
    <3>2. REC!Prefix(n)[p - Thr] = "blank"
      BY <2>3, <3>1 DEF REC!BlankRun
    <3>3. ~(p - Thr < n)
      BY <3>1, <3>2, PrefixRead
    <3> QED
      BY <1>1, <2>1, <3>1, <3>3
  <2> QED
    BY <2>2, <2>3
<1> QED
  BY <1>2 DEF REC!Found, REC!Looked

LEMMA SearchFinds ==
    ASSUME NEW n \in 0..REC!Size, ~REC!Unsafe(n)
    PROVE  REC!GenWrittenPointer(REC!Prefix(n)) = n
<1> DEFINE F == REC!Found(REC!Prefix(n), Thr)
           k == n \div Pages
           s == n % Pages
<1>1. /\ n \in Nat /\ n <= REC!Size /\ Thr \in Nat \ {0} /\ Pages \in Nat \ {0}
      /\ Sectors \in Nat \ {0} /\ REC!Size \in Nat
  BY RecorderConstants
<1>2. k \in Nat /\ s \in Nat /\ s < Pages /\ n = Pages * k + s
  BY <1>1, DivMod
<1>3. s + Thr < Pages /\ n <= REC!Size - Pages
  BY <1>1, <1>2 DEF REC!Unsafe
<1>4. F = {p \in REC!Page : p < REC!Size - Pages /\ n + Thr <= p}
  BY BlankAfter
<1> HIDE DEF k, s, F
<1>5. REC!GenWrittenPointer(REC!Prefix(n))
        = IF F = {} THEN REC!Size - Pages ELSE REC!Back(REC!First(F), Thr)
  BY DEF REC!GenWrittenPointer, F
<1>6. CASE F = {}
  <2>1. ~(n + Thr < REC!Size - Pages)
    BY <1>1, <1>4, <1>6, RecorderConstants
  <2>2. REC!Size - Pages = Pages * (Sectors - 1)
    BY <1>1, RecorderConstants, Spread
  <2>3. ASSUME n < REC!Size - Pages PROVE FALSE
    <3>1. Pages * k \in Int /\ Pages * k < Pages * (Sectors - 1)
      BY <1>1, <1>2, <2>2, <2>3
    <3>2. k < Sectors - 1
      BY <1>1, <1>2, <3>1, Cancel
    <3>3. Pages * (k + 1) <= Pages * (Sectors - 1)
      BY <1>1, <1>2, <3>2, Grows
    <3>4. Pages * (k + 1) = Pages * k + Pages
      BY <1>1, <1>2, Spread
    <3> QED
      BY <1>1, <1>2, <1>3, <2>1, <2>2, <3>1, <3>3, <3>4
  <2>4. n = REC!Size - Pages
    BY <1>1, <1>3, <2>3
  <2> QED
    BY <1>5, <1>6, <2>4
<1>7. CASE F # {}
  <2>1. n + Thr \in F /\ \A p \in F : p \in Nat /\ n + Thr <= p
    BY <1>1, <1>4, <1>7, RecorderConstants
  <2>2. REC!First(F) = n + Thr
    <3>1. REC!First(F) \in F /\ \A q \in F : REC!First(F) <= q
      BY <1>1, <2>1 DEF REC!First
    <3> QED
      BY <1>1, <2>1, <3>1
  <2>3. s + Thr \in Nat /\ n + Thr = Pages * k + (s + Thr)
    BY <1>1, <1>2
  <2>4. (n + Thr) \div Pages = k /\ (n + Thr) % Pages = s + Thr
    <3>1. Pages \in Nat \ {0} /\ k \in Nat /\ s + Thr < Pages
      BY <1>1, <1>2, <1>3
    <3>2. PICK d : d = s + Thr
      OBVIOUS
    <3>3. (Pages * k + d) \div Pages = k /\ (Pages * k + d) % Pages = d
      BY <2>3, <3>1, <3>2, DivisionUnique
    <3> QED
      BY <2>3, <3>2, <3>3
  <2>5. ((s + Thr) - Thr) % Pages = s
    <3>1. (s + Thr) - Thr = s
      BY <1>1, <1>2
    <3>2. s % Pages = s
      BY <1>1, <1>2
    <3> QED
      BY <3>1, <3>2
  <2>6. REC!Back(n + Thr, Thr) = k * Pages + s
    BY <2>4, <2>5 DEF REC!Back
  <2>7. k * Pages = Pages * k
    BY <1>1, <1>2
  <2> QED
    BY <1>2, <1>5, <1>7, <2>2, <2>6, <2>7
<1> QED
  BY <1>6, <1>7

(* An erasure of the sector in which the data end leaves those before it. *)
LEMMA ErasedPrefix ==
    ASSUME NEW n \in 0..REC!Size, NEW t \in Nat, t < Sectors, n <= (t + 1) * Pages
    PROVE  \E m \in 0..REC!Size : /\ REC!Erased(REC!Prefix(n), t) = REC!Prefix(m)
                                  /\ m <= n /\ m <= t * Pages
<1> DEFINE low == Pages * t
           m == IF n < low THEN n ELSE low
<1>1. /\ Pages \in Nat \ {0} /\ Sectors \in Nat \ {0} /\ n \in Nat /\ REC!Size \in Nat
      /\ n <= REC!Size
  BY RecorderConstants
<1>2. /\ low \in Nat /\ t * Pages = low /\ (t + 1) * Pages = Pages * (t + 1)
      /\ Pages * (t + 1) = low + Pages
  <2>1. low \in Nat /\ Pages * (t + 1) = Pages * t + Pages * 1 /\ Pages * 1 = Pages
    BY <1>1, Grows, Spread
  <2>2. t * Pages = Pages * t /\ (t + 1) * Pages = Pages * (t + 1)
    BY <1>1
  <2> QED
    BY <2>1, <2>2
<1>3. ASSUME NEW p \in REC!Page
      PROVE  p \in REC!PagesOf(t) <=> low <= p /\ p < low + Pages
  <2> DEFINE k == p \div Pages
             s == p % Pages
  <2>1. p \in Nat
    BY RecorderConstants
  <2>2. k \in Nat /\ s \in Nat /\ s < Pages /\ p = Pages * k + s
    BY <1>1, <2>1, DivMod
  <2>3. p \in REC!PagesOf(t) <=> k = t
    BY <1>1 DEF REC!PagesOf
  <2> HIDE DEF k, s
  <2>4. k = t => low <= p /\ p < low + Pages
    BY <1>1, <1>2, <2>2
  <2>5. ASSUME low <= p, p < low + Pages PROVE k = t
    <3>1. p - low \in Nat /\ p - low < Pages /\ p = Pages * t + (p - low)
      BY <1>1, <1>2, <2>1, <2>5
    <3> QED
      BY <1>1, <3>1, DivisionUnique DEF k
  <2> QED
    BY <2>3, <2>4, <2>5
<1> HIDE DEF low
<1>4. m \in 0..REC!Size /\ m <= n /\ m <= t * Pages
  BY <1>1, <1>2
<1>5. ASSUME NEW p \in REC!Page
      PROVE  REC!Erased(REC!Prefix(n), t)[p] = REC!Prefix(m)[p]
  <2>1. REC!Erased(REC!Prefix(n), t)[p]
          = IF p \in REC!PagesOf(t) THEN "blank" ELSE IF p < n THEN "data" ELSE "blank"
    BY PrefixRead DEF REC!Erased
  <2>2. REC!Prefix(m)[p] = IF p < m THEN "data" ELSE "blank"
    BY <1>4, PrefixRead
  <2>3. p \in Nat
    BY RecorderConstants
  <2>4. (p < m) <=> (p \notin REC!PagesOf(t) /\ p < n)
    BY <1>1, <1>2, <1>3, <2>3
  <2> QED
    BY <2>1, <2>2, <2>4
<1>6. REC!Erased(REC!Prefix(n), t) = REC!Prefix(m)
  BY <1>5 DEF REC!Erased, REC!Prefix
<1> QED
  BY <1>4, <1>6

(* A set of numbers that is not empty has a least. *)
LEMMA LeastExists ==
    ASSUME NEW S \in SUBSET Nat, S # {}
    PROVE  \E m \in S : \A p \in S : m <= p
<1>1. PICK m \in S : \A p \in S : <<p, m>> \notin OpToRel(<, Nat)
  BY Zenon, WFMin, NatLessThanWellFounded
<1>2. \A p \in S : p < m => <<p, m>> \in OpToRel(<, Nat)
  <2>1. \A p \in Nat, n \in Nat : p < n => <<p, n>> \in OpToRel(<, Nat)
    BY DEF OpToRel
  <2> QED
    BY Zenon, <2>1
<1>3. \A p \in S : ~(p < m)
  BY Zenon, <1>1, <1>2
<1> QED
  BY <1>3

LEMMA PointerTyped ==
    ASSUME NEW f
    PROVE  REC!GenWrittenPointer(f) \in Nat
<1> DEFINE F == REC!Found(f, Thr)
<1>1. /\ Pages \in Nat \ {0} /\ Sectors \in Nat \ {0} /\ Thr \in Nat /\ REC!Size \in Nat
      /\ REC!Size = Pages * Sectors
  BY RecorderConstants
<1>2. F \in SUBSET Nat
  BY RecorderConstants DEF REC!Found, REC!Looked
<1>3. REC!GenWrittenPointer(f)
        = IF F = {} THEN REC!Size - Pages ELSE REC!Back(REC!First(F), Thr)
  BY DEF REC!GenWrittenPointer
<1>4. REC!Size - Pages \in Nat
  <2>1. Pages * 1 = Pages /\ Pages * 1 <= Pages * Sectors
    BY <1>1, Grows
  <2> QED
    BY <1>1, <2>1
<1> HIDE DEF F
<1>5. CASE F # {}
  <2>1. \E m \in F : \A p \in F : m <= p
    BY <1>2, <1>5, LeastExists
  <2>2. REC!First(F) \in Nat
    BY <1>2, <2>1 DEF REC!First
  <2>3. ASSUME NEW p \in Nat PROVE REC!Back(p, Thr) \in Nat
    <3>1. (p \div Pages) \in Nat /\ (((p % Pages) - Thr) % Pages) \in Nat
      BY <1>1
    <3>2. (p \div Pages) * Pages \in Nat
      BY <1>1, <3>1
    <3> QED
      BY <3>1, <3>2 DEF REC!Back
  <2> QED
    BY <1>3, <1>5, <2>2, <2>3
<1> QED
  BY <1>3, <1>4, <1>5

-------------------------------------------------------------------------------
(* What the recorders do. *)

DataState   == <<flash, wp, enabled, misled, scanned, erasing, tar>>
ReplayState == <<num, replay, num_read, sent, cut, mixed>>

LEMMA RecordersTyped ==
    ASSUME RecorderTypes
    PROVE  /\ flash \in [Recorders -> [REC!Page -> {"blank", "data", "spoilt"}]]
           /\ wp \in [Recorders -> Nat] /\ tar \in [Recorders -> Nat]
           /\ start \in [Recorders -> Nat]
           /\ num \in [Recorders -> Nat] /\ sent \in [Recorders -> Nat] /\ num_read \in Nat
           /\ enabled \subseteq Recorders /\ replay \subseteq Recorders
           /\ erasing \subseteq Recorders /\ misled \subseteq Recorders
           /\ scanned \subseteq Recorders /\ mixed \subseteq Recorders
           /\ cut \in BOOLEAN
BY DEF RecorderTypes

LEMMA RecordersTypedNext ==
    ASSUME flash' \in [Recorders -> [REC!Page -> {"blank", "data", "spoilt"}]],
           wp' \in [Recorders -> Nat], tar' \in [Recorders -> Nat],
           start' \in [Recorders -> Nat],
           num' \in [Recorders -> Nat], sent' \in [Recorders -> Nat], num_read' \in Nat,
           enabled' \subseteq Recorders, replay' \subseteq Recorders,
           erasing' \subseteq Recorders, misled' \subseteq Recorders,
           scanned' \subseteq Recorders, mixed' \subseteq Recorders,
           cut' \in BOOLEAN
    PROVE  RecorderTypes'
BY DEF RecorderTypes, REC!Page, REC!Size

(* A command of one recorder leaves the data of the others alone. *)
LEMMA OneRecorder ==
    ASSUME NEW r \in Recorders, DataInv, misled \subseteq misled',
           \A x \in Recorders \ {r} :
              /\ flash'[x] = flash[x] /\ wp'[x] = wp[x] /\ tar'[x] = tar[x]
              /\ x \in scanned' <=> x \in scanned
              /\ x \in enabled' <=> x \in enabled
              /\ x \in erasing' <=> x \in erasing,
           r \notin misled' => \E n \in 0..REC!Size : DataUpTo(r, n)'
    PROVE  DataInv'
<1> SUFFICES ASSUME NEW x \in Recorders, x \notin misled'
             PROVE  \E n \in 0..REC!Size : DataUpTo(x, n)'
  BY DEF DataInv, REC!Size
<1>1. CASE x # r
  <2>1. PICK n \in 0..REC!Size : DataUpTo(x, n)
    BY DEF DataInv
  <2>2. DataUpTo(x, n)'
    BY <1>1, <2>1 DEF DataUpTo, REC!Prefix, REC!Page, REC!Size
  <2> QED
    BY <2>2
<1> QED
  BY <1>1

LEMMA DataUnchanged ==
    ASSUME DataInv, UNCHANGED DataState
    PROVE  DataInv'
BY DEF DataInv, DataState, DataUpTo, REC!Prefix, REC!Page, REC!Size

LEMMA RECInit ==
    ASSUME REC!Init
    PROVE  RecordersInv
<1>1. PICK n \in [Recorders -> 0..REC!Size] : flash = [r \in Recorders |-> REC!Prefix(n[r])]
  BY DEF REC!Init
<1>2. RecorderTypes
  BY <1>1, PrefixTyped DEF REC!Init, RecorderTypes, REC!All
<1>3. DataInv
  BY <1>1 DEF REC!Init, DataInv, DataUpTo, REC!All
<1>4. ReplayInv
  BY DEF REC!Init, ReplayInv
<1> QED
  BY <1>2, <1>3, <1>4 DEF RecordersInv

(* A new search for the end of the data. *)
LEMMA UpdateFinds ==
    ASSUME NEW r \in Recorders, RecorderTypes, NEW n \in 0..REC!Size,
           REC!Update(r, REC!Prefix(n)), r \notin misled'
    PROVE  /\ flash'[r] = REC!Prefix(n) /\ wp'[r] = n
           /\ r \in scanned' /\ r \notin enabled'
<1>1. ~REC!Unsafe(n)
  BY EndOfPrefix DEF REC!Update
<1>2. REC!GenWrittenPointer(REC!Prefix(n)) = n
  BY <1>1, SearchFinds
<1>3. flash'[r] = REC!Prefix(n) /\ wp'[r] = n
  BY <1>2, RecordersTyped DEF REC!Update, REC!Set
<1> QED
  BY <1>3 DEF REC!Update

LEMMA UpdateOthers ==
    ASSUME NEW r \in Recorders, RecorderTypes, NEW f, REC!Update(r, f),
           NEW x \in Recorders \ {r}
    PROVE  /\ flash'[x] = flash[x] /\ wp'[x] = wp[x]
           /\ x \in scanned' <=> x \in scanned
           /\ x \in enabled' <=> x \in enabled
BY RecordersTyped DEF REC!Update, REC!Set

LEMMA UpdateTyped ==
    ASSUME NEW r \in Recorders, RecorderTypes,
           NEW f \in [REC!Page -> {"blank", "data", "spoilt"}], REC!Update(r, f)
    PROVE  /\ flash' \in [Recorders -> [REC!Page -> {"blank", "data", "spoilt"}]]
           /\ wp' \in [Recorders -> Nat] /\ num' \in [Recorders -> Nat] /\ sent' = sent
           /\ enabled' \subseteq Recorders /\ replay' \subseteq Recorders
           /\ misled' \subseteq Recorders /\ misled \subseteq misled'
           /\ scanned' \subseteq Recorders /\ mixed' = mixed /\ num_read' = num_read
           /\ cut' \in BOOLEAN
<1>1. REC!GenWrittenPointer(f) \in Nat
  BY PointerTyped
<1>2. wp' \in [Recorders -> Nat] /\ num' \in [Recorders -> Nat]
  BY <1>1, RecordersTyped DEF REC!Update, REC!Set
<1>3. flash' \in [Recorders -> [REC!Page -> {"blank", "data", "spoilt"}]]
  BY RecordersTyped DEF REC!Update, REC!Set
<1> QED
  BY <1>2, <1>3, RecordersTyped DEF REC!Update

(* A packet is written to the page after the data. *)
LEMMA WriteKept ==
    ASSUME NEW r \in Recorders, RecorderTypes, DataInv, REC!DR_PacketWrite(r)
    PROVE  RecorderTypes' /\ DataInv'
<1>1. /\ r \in enabled
      /\ UNCHANGED <<num, replay, num_read, sent, cut, mixed, erasing, tar, start>>
  BY DEF REC!DR_PacketWrite, REC!play, REC!eraser
<1>2. CASE wp[r] >= REC!Size
  <2>1. UNCHANGED <<flash, wp, enabled, misled, scanned>>
    BY <1>2 DEF REC!DR_PacketWrite, REC!store
  <2>2. RecorderTypes'
    BY <1>1, <2>1, RecordersTyped, RecordersTypedNext
  <2> QED
    BY <1>1, <2>1, <2>2, DataUnchanged DEF DataState
<1>3. CASE ~(wp[r] >= REC!Size)
  <2> DEFINE g == REC!Programmed(flash[r], wp[r])
  <2>1. /\ flash' = [flash EXCEPT ![r] = g] /\ wp' = [wp EXCEPT ![r] = wp[r] + 1]
        /\ UNCHANGED <<enabled, misled, scanned>>
    BY <1>3 DEF REC!DR_PacketWrite, REC!Set
  <2>2. g \in [REC!Page -> {"blank", "data", "spoilt"}]
    BY RecordersTyped DEF REC!Programmed
  <2>3. RecorderTypes'
    <3>1. /\ flash' \in [Recorders -> [REC!Page -> {"blank", "data", "spoilt"}]]
          /\ wp' \in [Recorders -> Nat]
      BY <2>1, <2>2, RecordersTyped
    <3> QED
      BY <1>1, <2>1, <3>1, RecordersTyped, RecordersTypedNext
  <2>4. \A x \in Recorders \ {r} : flash'[x] = flash[x] /\ wp'[x] = wp[x]
    BY <2>1, RecordersTyped
  <2>5. ASSUME r \notin misled PROVE \E n \in 0..REC!Size : DataUpTo(r, n)'
    <3>1. PICK n \in 0..REC!Size : DataUpTo(r, n)
      BY <2>5 DEF DataInv
    <3>2. /\ flash[r] = REC!Prefix(n) /\ wp[r] = n /\ r \notin erasing
      BY <1>1, <3>1 DEF DataUpTo
    <3>3. n \in Nat /\ REC!Size \in Nat /\ n < REC!Size
      BY <1>3, <3>2, RecorderConstants
    <3>4. g = REC!Prefix(n + 1)
      <4>1. ASSUME NEW p \in REC!Page PROVE g[p] = REC!Prefix(n + 1)[p]
        <5>1. g[p] = IF p = n THEN IF REC!Prefix(n)[p] = "blank" THEN "data" ELSE "spoilt"
                     ELSE REC!Prefix(n)[p]
          BY <3>2, RecordersTyped DEF REC!Programmed
        <5>2. /\ REC!Prefix(n)[p] = IF p < n THEN "data" ELSE "blank"
              /\ REC!Prefix(n + 1)[p] = IF p < n + 1 THEN "data" ELSE "blank"
              /\ p \in Nat
          BY <3>3, PrefixRead
        <5> QED
          BY <3>3, <5>1, <5>2
      <4>2. g \in [REC!Page -> {"blank", "data", "spoilt"}]
        BY <2>2
      <4>3. REC!Prefix(n + 1) \in [REC!Page -> {"blank", "data", "spoilt"}]
        BY <3>3, PrefixTyped
      <4> HIDE DEF g
      <4> QED
        BY <4>1, <4>2, <4>3
    <3>5. flash'[r] = REC!Prefix(n + 1) /\ wp'[r] = n + 1
      BY <2>1, <3>2, <3>4, RecordersTyped
    <3>6. REC!Prefix(n + 1)' = REC!Prefix(n + 1) /\ n + 1 \in 0..REC!Size
      BY <3>3 DEF REC!Prefix, REC!Page, REC!Size
    <3>7. DataUpTo(r, n + 1)'
      BY <1>1, <2>1, <3>2, <3>5, <3>6 DEF DataUpTo
    <3> QED
      BY <3>6, <3>7
  <2>6. DataInv'
    BY <1>1, <2>1, <2>4, <2>5, OneRecorder
  <2> QED
    BY <2>3, <2>6
<1> QED
  BY <1>2, <1>3

(* An erasure goes on from the sector in which the data end, or one above, down. *)
LEMMA EraseKept ==
    ASSUME NEW r \in Recorders, RecorderTypes, DataInv, REC!DR_erase_handler(r)
    PROVE  RecorderTypes' /\ DataInv'
<1> DEFINE g == REC!Erased(flash[r], tar[r])
<1>1. /\ r \in erasing /\ REC!Update(r, g) /\ UNCHANGED start
      /\ erasing' = IF REC!LastErasure(r) THEN erasing \ {r} ELSE erasing
      /\ tar' = IF REC!LastErasure(r) THEN tar ELSE [tar EXCEPT ![r] = tar[r] - 1]
  BY DEF REC!DR_erase_handler, REC!Set
<1>2. g \in [REC!Page -> {"blank", "data", "spoilt"}]
  BY RecordersTyped DEF REC!Erased
<1>3. ~REC!LastErasure(r) => tar[r] - 1 \in Nat
  BY RecordersTyped DEF REC!LastErasure
<1>4. RecorderTypes'
  <2>1. tar' \in [Recorders -> Nat]
    BY <1>1, <1>3, RecordersTyped
  <2>2. erasing' \subseteq Recorders
    BY <1>1, RecordersTyped
  <2> HIDE DEF g
  <2>3. /\ flash' \in [Recorders -> [REC!Page -> {"blank", "data", "spoilt"}]]
        /\ wp' \in [Recorders -> Nat] /\ num' \in [Recorders -> Nat] /\ sent' = sent
        /\ enabled' \subseteq Recorders /\ replay' \subseteq Recorders
        /\ misled' \subseteq Recorders
        /\ scanned' \subseteq Recorders /\ mixed' = mixed /\ num_read' = num_read
        /\ cut' \in BOOLEAN
    BY <1>1, <1>2, UpdateTyped
  <2> QED
    BY <1>1, <2>1, <2>2, <2>3, RecordersTyped, RecordersTypedNext
<1>5. \A x \in Recorders \ {r} :
         /\ flash'[x] = flash[x] /\ wp'[x] = wp[x] /\ tar'[x] = tar[x]
         /\ x \in scanned' <=> x \in scanned
         /\ x \in enabled' <=> x \in enabled
         /\ x \in erasing' <=> x \in erasing
  <2> HIDE DEF g
  <2>1. \A x \in Recorders \ {r} : tar'[x] = tar[x] /\ (x \in erasing' <=> x \in erasing)
    BY <1>1, RecordersTyped
  <2> QED
    BY <1>1, <2>1, UpdateOthers
<1>6. misled \subseteq misled'
  BY <1>1, <1>2, UpdateTyped
<1>7. ASSUME r \notin misled' PROVE \E n \in 0..REC!Size : DataUpTo(r, n)'
  <2>1. PICK n \in 0..REC!Size : DataUpTo(r, n)
    BY <1>6, <1>7 DEF DataInv
  <2>2. flash[r] = REC!Prefix(n) /\ tar[r] < Sectors /\ n <= (tar[r] + 1) * Pages
    BY <1>1, <2>1 DEF DataUpTo
  <2>3. tar[r] \in Nat
    BY RecordersTyped
  <2>4. PICK m \in 0..REC!Size : /\ REC!Erased(REC!Prefix(n), tar[r]) = REC!Prefix(m)
                                 /\ m <= tar[r] * Pages
    BY <2>2, <2>3, ErasedPrefix
  <2>5. g = REC!Prefix(m)
    BY <2>2, <2>4
  <2>6. /\ flash'[r] = REC!Prefix(m) /\ wp'[r] = m /\ r \in scanned' /\ r \notin enabled'
    <3>1. REC!Update(r, REC!Prefix(m))
      BY <1>1, <2>5
    <3> QED
      BY <1>7, <3>1, UpdateFinds
  <2>7. ASSUME r \in erasing' PROVE tar'[r] < Sectors /\ m <= (tar'[r] + 1) * Pages
    <3>1. ~REC!LastErasure(r) /\ tar'[r] = tar[r] - 1
      BY <1>1, <2>7, RecordersTyped
    <3>2. tar'[r] + 1 = tar[r] /\ tar'[r] < Sectors
      BY <1>3, <2>2, <2>3, <3>1, RecorderConstants
    <3> QED
      BY <2>4, <3>2
  <2>8. REC!Prefix(m)' = REC!Prefix(m)
    BY DEF REC!Prefix, REC!Page, REC!Size
  <2>9. DataUpTo(r, m)'
    BY <2>6, <2>7, <2>8 DEF DataUpTo
  <2> QED
    BY <2>9
<1>8. DataInv'
  BY <1>5, <1>6, <1>7, OneRecorder
<1> QED
  BY <1>4, <1>8

(* Recording begins where the pointer is: it must have been looked for, or there are no     *)
(* data, and no erasure may be in progress.                                         *)
LEMMA RecordKept ==
    ASSUME NEW r \in Recorders, RecorderTypes, DataInv, REC!RECORD(r)
    PROVE  RecorderTypes' /\ DataInv'
<1>1. /\ UNCHANGED <<flash, wp, scanned, num, replay, num_read, sent, cut, mixed,
                     erasing, tar, start>>
      /\ \/ /\ enabled' = enabled \cup {r}
            /\ misled' = IF r \in erasing \/ (r \notin scanned /\ REC!Written(flash[r]) # {})
                         THEN misled \cup {r} ELSE misled
         \/ enabled' = enabled \ {r} /\ misled' = misled
  BY DEF REC!RECORD, REC!play, REC!eraser
<1>2. misled' \subseteq Recorders /\ enabled' \subseteq Recorders /\ misled \subseteq misled'
  BY <1>1, RecordersTyped
<1>3. RecorderTypes'
  BY <1>1, <1>2, RecordersTyped, RecordersTypedNext
<1>4. ASSUME r \notin misled' PROVE \E n \in 0..REC!Size : DataUpTo(r, n)'
  <2>1. PICK n \in 0..REC!Size : DataUpTo(r, n)
    BY <1>2, <1>4 DEF DataInv
  <2>2. REC!Prefix(n)' = REC!Prefix(n)
    BY DEF REC!Prefix, REC!Page, REC!Size
  <2>3. CASE r \notin enabled'
    <3>1. DataUpTo(r, n)'
      BY <1>1, <2>1, <2>2, <2>3 DEF DataUpTo
    <3> QED
      BY <3>1
  <2>4. CASE r \in enabled'
    <3>1. r \notin erasing /\ (r \in scanned \/ REC!Written(flash[r]) = {})
      BY <1>1, <1>4, <2>4
    <3>2. wp[r] = n
      <4>1. CASE r \in scanned
        BY <2>1, <4>1 DEF DataUpTo
      <4>2. CASE r \notin scanned
        <5>1. {p \in REC!Page : p < n} = {}
          BY <2>1, <3>1, <4>2, EndOfPrefix DEF DataUpTo
        <5>2. n = 0
          BY <5>1, RecorderConstants
        <5> QED
          BY <2>1, <4>2, <5>2 DEF DataUpTo
      <4> QED
        BY <4>1, <4>2
    <3>3. DataUpTo(r, n)'
      BY <1>1, <2>1, <2>2, <3>1, <3>2 DEF DataUpTo
    <3> QED
      BY <3>3
  <2> QED
    BY <2>3, <2>4
<1>5. DataInv'
  BY <1>1, <1>2, <1>4, OneRecorder
<1> QED
  BY <1>3, <1>5

LEMMA InitializeKept ==
    ASSUME NEW r \in Recorders, RecorderTypes, DataInv, REC!DR_INITIALIZE(r)
    PROVE  RecorderTypes' /\ DataInv'
<1>1. UNCHANGED <<erasing, tar, start>>
  BY DEF REC!DR_INITIALIZE, REC!eraser
<1>2. CASE UNCHANGED <<REC!store, REC!play>>
  <2>1. UNCHANGED <<flash, wp, enabled, misled, scanned, num, replay, num_read, sent, cut, mixed>>
    BY <1>2 DEF REC!store, REC!play
  <2>2. RecorderTypes'
    BY <1>1, <2>1, RecordersTyped, RecordersTypedNext
  <2> QED
    BY <1>1, <2>1, <2>2, DataUnchanged DEF DataState
<1>3. CASE REC!Update(r, flash[r])
  <2>1. flash[r] \in [REC!Page -> {"blank", "data", "spoilt"}]
    BY RecordersTyped
  <2>2. RecorderTypes'
    BY <1>1, <1>3, <2>1, UpdateTyped, RecordersTyped, RecordersTypedNext
  <2>3. misled \subseteq misled'
    BY <1>3, <2>1, UpdateTyped
  <2>4. ASSUME r \notin misled' PROVE \E n \in 0..REC!Size : DataUpTo(r, n)'
    <3>1. PICK n \in 0..REC!Size : DataUpTo(r, n)
      BY <2>3, <2>4 DEF DataInv
    <3>2. REC!Update(r, REC!Prefix(n))
      BY <1>3, <3>1 DEF DataUpTo
    <3>3. flash'[r] = REC!Prefix(n) /\ wp'[r] = n /\ r \in scanned' /\ r \notin enabled'
      BY <2>4, <3>2, UpdateFinds
    <3>4. REC!Prefix(n)' = REC!Prefix(n)
      BY DEF REC!Prefix, REC!Page, REC!Size
    <3>5. DataUpTo(r, n)'
      BY <1>1, <3>1, <3>3, <3>4 DEF DataUpTo
    <3> QED
      BY <3>5
  <2>5. DataInv'
    BY <1>1, <1>3, <2>3, <2>4, UpdateOthers, OneRecorder
  <2> QED
    BY <2>2, <2>5
<1> QED
  BY <1>2, <1>3 DEF REC!DR_INITIALIZE

(* An erasure that begins covers the data, and nothing is recorded, or it is not relied on. *)
LEMMA EraseBeginsKept ==
    ASSUME NEW r \in Recorders, RecorderTypes, DataInv, REC!ERASE(r)
    PROVE  RecorderTypes' /\ DataInv'
<1>1. UNCHANGED <<flash, wp, enabled, scanned, num, replay, num_read, sent, cut, mixed>>
  BY DEF REC!ERASE, REC!play
<1>2. PICK s \in 0..(Sectors - 1), k \in Counts :
        /\ start' = [start EXCEPT ![r] = s] /\ tar' = [tar EXCEPT ![r] = s + k]
        /\ erasing' = erasing \cup {r}
        /\ misled' = IF REC!Covers(r, s, k) /\ r \notin enabled THEN misled ELSE misled \cup {r}
  BY DEF REC!ERASE, REC!Set, REC!FirstTarget
<1>3. s \in Nat /\ k \in Nat /\ s + k \in Nat
  BY RecorderConstants
<1>4. misled \subseteq misled'
  BY <1>2
<1>5. RecorderTypes'
  <2>1. start' \in [Recorders -> Nat] /\ tar' \in [Recorders -> Nat]
    BY <1>2, <1>3, RecordersTyped
  <2>2. erasing' \subseteq Recorders /\ misled' \subseteq Recorders
    BY <1>2, RecordersTyped
  <2> QED
    BY <1>1, <2>1, <2>2, RecordersTyped, RecordersTypedNext
<1>6. ASSUME r \notin misled' PROVE \E n \in 0..REC!Size : DataUpTo(r, n)'
  <2>1. REC!Covers(r, s, k) /\ r \notin enabled
    BY <1>2, <1>6
  <2>2. PICK n \in 0..REC!Size : DataUpTo(r, n)
    BY <1>4, <1>6 DEF DataInv
  <2>3. tar'[r] = s + k /\ s + k < Sectors
    BY <1>2, <2>1, RecordersTyped DEF REC!Covers
  <2>4. n <= (s + k + 1) * Pages
    <3> DEFINE t == s + k
               q == (n - 1) \div Pages
               m == (n - 1) % Pages
    <3>1. n \in Nat /\ Pages \in Nat \ {0} /\ t \in Nat
      BY <1>3, RecorderConstants
    <3>2. Pages * (t + 1) \in Nat /\ (t + 1) * Pages = Pages * (t + 1)
      BY <3>1, Grows
    <3>3. CASE n = 0
      BY <3>1, <3>2, <3>3
    <3>4. CASE n # 0
      <4>1. n - 1 \in REC!Page /\ n - 1 \in Nat
        BY <3>1, <3>4, RecorderConstants
      <4>2. n - 1 \in REC!Written(flash[r])
        BY <2>2, <3>1, <4>1, EndOfPrefix DEF DataUpTo
      <4>3. q <= t
        BY <2>1, <4>2 DEF REC!Covers
      <4>4. q \in Nat /\ m \in Nat /\ m < Pages /\ n - 1 = Pages * q + m
        BY <3>1, <4>1, DivMod
      <4> HIDE DEF t, q, m
      <4>5. Pages * q \in Nat /\ Pages * q <= Pages * t
        BY <3>1, <4>3, <4>4, Grows
      <4>6. Pages * (t + 1) = Pages * t + Pages * 1 /\ Pages * t \in Int /\ Pages * 1 = Pages
        BY <3>1, Spread
      <4> QED
        BY <3>1, <3>2, <4>4, <4>5, <4>6 DEF t
    <3> QED
      BY <3>3, <3>4
  <2>5. REC!Prefix(n)' = REC!Prefix(n)
    BY DEF REC!Prefix, REC!Page, REC!Size
  <2>6. DataUpTo(r, n)'
    BY <1>1, <2>1, <2>2, <2>3, <2>4, <2>5 DEF DataUpTo
  <2> QED
    BY <2>6
<1>7. \A x \in Recorders \ {r} : tar'[x] = tar[x] /\ (x \in erasing' <=> x \in erasing)
  BY <1>2, RecordersTyped
<1>8. DataInv'
  BY <1>1, <1>4, <1>6, <1>7, OneRecorder
<1> QED
  BY <1>5, <1>8

(* The commands of a replay, and its packets, leave the data alone. *)
LEMMA ReplaysLeaveData ==
    ASSUME NEW r \in Recorders, REC!DR_Replay(r) \/ REC!ReplayCommand(r)
    PROVE  UNCHANGED DataState /\ UNCHANGED start
BY DEF REC!DR_Replay, REC!ReplayCommand, REC!REPLAY_PARAM_SET, REC!REPLAY, REC!DIRECT_REPLAY,
   REC!store, REC!eraser, DataState

LEMMA DataRestartKept ==
    ASSUME RecorderTypes, DataInv, REC!Restart
    PROVE  RecorderTypes' /\ DataInv'
<1>1. /\ wp' = [r \in Recorders |-> 0] /\ enabled' = {} /\ num' = [r \in Recorders |-> 0]
      /\ replay' = {} /\ num_read' = 0 /\ erasing' = {} /\ tar' = [r \in Recorders |-> 0]
      /\ start' = [r \in Recorders |-> 0] /\ scanned' = {} /\ sent' = [r \in Recorders |-> 0]
      /\ cut' = FALSE /\ mixed' = {} /\ UNCHANGED <<flash, misled>>
  BY DEF REC!Restart, REC!All
<1>2. RecorderTypes'
  <2>1. [r \in Recorders |-> 0] \in [Recorders -> Nat] /\ {} \subseteq Recorders
    OBVIOUS
  <2> QED
    BY <1>1, <2>1, RecordersTyped, RecordersTypedNext
<1>3. ASSUME NEW r \in Recorders, r \notin misled'
      PROVE  \E n \in 0..REC!Size : DataUpTo(r, n)'
  <2>1. PICK n \in 0..REC!Size : DataUpTo(r, n)
    BY <1>1, <1>3 DEF DataInv
  <2>2. REC!Prefix(n)' = REC!Prefix(n)
    BY DEF REC!Prefix, REC!Page, REC!Size
  <2>3. DataUpTo(r, n)'
    BY <1>1, <2>1, <2>2 DEF DataUpTo
  <2> QED
    BY <2>3
<1>4. DataInv'
  BY <1>3 DEF DataInv, REC!Size
<1> QED
  BY <1>2, <1>4

-------------------------------------------------------------------------------
(* The replays. *)

LEMMA ReplayUnchanged ==
    ASSUME ReplayInv, UNCHANGED ReplayState
    PROVE  ReplayInv'
BY DEF ReplayInv, ReplayState

LEMMA BeginTyped ==
    ASSUME NEW r \in Recorders, RecorderTypes, REC!Begin(r)
    PROVE  /\ num' \in [Recorders -> Nat] /\ sent' \in [Recorders -> Nat] /\ num_read' = num_read
           /\ replay' = replay \cup {r} /\ mixed' \subseteq Recorders /\ cut' \in BOOLEAN
<1>1. num' \in [Recorders -> Nat] /\ sent' \in [Recorders -> Nat]
  BY RecordersTyped, RecorderConstants DEF REC!Begin, REC!Set
<1> QED
  BY <1>1, RecordersTyped DEF REC!Begin

LEMMA BeginReplayKept ==
    ASSUME NEW r \in Recorders, RecorderTypes, ReplayInv, REC!Begin(r)
    PROVE  ReplayInv'
<1>1. /\ replay' = replay \cup {r} /\ cut' = (cut \/ r \in replay) /\ num_read' = num_read
      /\ mixed' = IF cut' \/ replay # {} THEN Recorders ELSE mixed \ {r}
      /\ sent' = [sent EXCEPT ![r] = 0]
  BY DEF REC!Begin, REC!Set
<1>2. CASE cut' \/ replay # {}
  <2>1. mixed' = Recorders /\ replay' \subseteq Recorders
    BY <1>1, <1>2, RecordersTyped
  <2> QED
    BY <1>1, <2>1 DEF ReplayInv
<1>3. CASE ~(cut' \/ replay # {})
  <2>1. replay' = {r} /\ sent'[r] = 0 /\ num_read' = 0
    BY <1>1, <1>3, RecordersTyped DEF ReplayInv
  <2> QED
    BY <2>1 DEF ReplayInv
<1> QED
  BY <1>2, <1>3

LEMMA StopReplayKept ==
    ASSUME NEW r \in Recorders, RecorderTypes, ReplayInv, UNCHANGED <<num_read, sent, mixed>>,
           replay' = replay \ {r}, cut' = (cut \/ r \in replay),
           \A x \in Recorders \ {r} : num'[x] = num[x]
    PROVE  ReplayInv'
<1>1. ASSUME NEW x \in replay', x \notin mixed'
      PROVE  replay' = {x} /\ num_read' = sent'[x] /\ (sent'[x] < num'[x] \/ sent'[x] = 0)
  <2>1. x \in replay \ mixed /\ x # r /\ x \in Recorders
    BY <1>1, RecordersTyped
  <2> QED
    BY <2>1 DEF ReplayInv
<1>2. replay' = {} /\ ~cut' => num_read' = 0
  BY DEF ReplayInv
<1> QED
  BY <1>1, <1>2 DEF ReplayInv

(* A packet is replayed. *)
LEMMA ReplayKept ==
    ASSUME NEW r \in Recorders, RecorderTypes, ReplayInv, REC!DR_Replay(r)
    PROVE  /\ ReplayInv'
           /\ num' = num /\ sent' \in [Recorders -> Nat] /\ num_read' \in Nat
           /\ replay' \subseteq Recorders /\ mixed' \subseteq Recorders /\ cut' \in BOOLEAN
<1>1. /\ r \in replay /\ num' = num
      /\ num_read' = IF num_read + 1 >= num[r] THEN 0 ELSE num_read + 1
      /\ replay' = IF num_read + 1 >= num[r] THEN replay \ {r} ELSE replay
      /\ sent' = [sent EXCEPT ![r] = sent[r] + 1]
      /\ mixed' = IF replay # {r} THEN Recorders ELSE mixed
      /\ cut' = (cut /\ r \in replay')
  BY DEF REC!DR_Replay, REC!NextRead, REC!Set
<1>2. /\ num_read \in Nat /\ num[r] \in Nat /\ sent[r] \in Nat /\ sent'[r] = sent[r] + 1
      /\ replay \subseteq Recorders /\ cut \in BOOLEAN /\ mixed \subseteq Recorders
  BY <1>1, RecordersTyped
<1>3. sent' \in [Recorders -> Nat] /\ num_read' \in Nat
  BY <1>1, <1>2, RecordersTyped
<1>4. replay' \subseteq Recorders /\ mixed' \subseteq Recorders /\ cut' \in BOOLEAN
  BY <1>1, <1>2
<1>5. CASE replay # {r}
  <2>1. mixed' = Recorders /\ replay' # {}
    BY <1>1, <1>2, <1>5
  <2> QED
    BY <1>1, <1>3, <1>4, <2>1 DEF ReplayInv
<1>6. CASE replay = {r}
  <2>1. CASE num_read + 1 >= num[r]
    <3>1. replay' = {} /\ num_read' = 0
      BY <1>1, <1>6, <2>1
    <3> QED
      BY <1>1, <1>3, <1>4, <3>1 DEF ReplayInv
  <2>2. CASE ~(num_read + 1 >= num[r])
    <3>1. replay' = {r} /\ num_read' = num_read + 1 /\ mixed' = mixed
      BY <1>1, <1>6, <2>2
    <3>2. r \notin mixed => num_read = sent[r]
      BY <1>1 DEF ReplayInv
    <3> QED
      BY <1>1, <1>2, <1>3, <1>4, <2>2, <3>1, <3>2 DEF ReplayInv
  <2> QED
    BY <2>1, <2>2
<1> QED
  BY <1>5, <1>6

LEMMA UpdateReplayKept ==
    ASSUME NEW r \in Recorders, NEW f, RecorderTypes, ReplayInv, REC!Update(r, f)
    PROVE  ReplayInv'
<1>1. /\ UNCHANGED <<num_read, sent, mixed>>
      /\ replay' = replay \ {r} /\ cut' = (cut \/ r \in replay)
      /\ num' = [num EXCEPT ![r] = 0]
  BY DEF REC!Update, REC!Set
<1>2. \A x \in Recorders \ {r} : num'[x] = num[x]
  BY <1>1, RecordersTyped
<1> QED
  BY <1>1, <1>2, StopReplayKept

LEMMA DataCommandKept ==
    ASSUME NEW r \in Recorders, RecordersInv, REC!DataCommand(r)
    PROVE  RecordersInv'
<1>1. RecorderTypes /\ DataInv /\ ReplayInv
  BY DEF RecordersInv
<1>2. RecorderTypes' /\ DataInv'
  BY <1>1, RecordKept, InitializeKept, EraseBeginsKept DEF REC!DataCommand
<1>3. CASE REC!RECORD(r) \/ REC!ERASE(r)
  <2>1. UNCHANGED ReplayState
    BY <1>3 DEF REC!RECORD, REC!ERASE, REC!play, ReplayState
  <2> QED
    BY <1>1, <1>2, <2>1, ReplayUnchanged DEF RecordersInv
<1>4. CASE REC!DR_INITIALIZE(r)
  <2>1. UNCHANGED REC!play => UNCHANGED ReplayState
    BY DEF REC!play, ReplayState
  <2>2. ReplayInv'
    BY <1>1, <1>4, <2>1, UpdateReplayKept, ReplayUnchanged DEF REC!DR_INITIALIZE
  <2> QED
    BY <1>2, <2>2 DEF RecordersInv
<1> QED
  BY <1>3, <1>4 DEF REC!DataCommand

LEMMA ReplayCommandKept ==
    ASSUME NEW r \in Recorders, RecordersInv, REC!ReplayCommand(r)
    PROVE  RecordersInv'
<1>1. RecorderTypes /\ DataInv /\ ReplayInv
  BY DEF RecordersInv
<1>2. UNCHANGED DataState /\ UNCHANGED start
  BY ReplaysLeaveData
<1>3. DataInv'
  BY <1>1, <1>2, DataUnchanged
<1>4. UNCHANGED <<flash, wp, enabled, misled, scanned, erasing, tar, start>>
  BY <1>2 DEF DataState
<1>5. CASE REC!Begin(r)
  <2>1. ReplayInv'
    BY <1>1, <1>5, BeginReplayKept
  <2>2. /\ num' \in [Recorders -> Nat] /\ sent' \in [Recorders -> Nat] /\ num_read' = num_read
        /\ replay' = replay \cup {r} /\ mixed' \subseteq Recorders /\ cut' \in BOOLEAN
    BY <1>1, <1>5, BeginTyped
  <2>3. RecorderTypes'
    BY <1>1, <1>4, <2>2, RecordersTyped, RecordersTypedNext
  <2> QED
    BY <1>3, <2>1, <2>3 DEF RecordersInv
<1>6. CASE REC!Stop(r)
  <2>1. /\ replay' = replay \ {r} /\ cut' = (cut \/ r \in replay)
        /\ UNCHANGED <<num, num_read, sent, mixed>>
    BY <1>6 DEF REC!Stop
  <2>2. ReplayInv'
    BY <1>1, <2>1, StopReplayKept
  <2>3. replay' \subseteq Recorders /\ cut' \in BOOLEAN
    BY <1>1, <2>1, RecordersTyped
  <2>4. RecorderTypes'
    BY <1>1, <1>4, <2>1, <2>3, RecordersTyped, RecordersTypedNext
  <2> QED
    BY <1>3, <2>2, <2>4 DEF RecordersInv
<1>7. CASE REC!REPLAY_PARAM_SET(r)
  <2>1. UNCHANGED <<num, replay, num_read, sent, cut, mixed>>
    BY <1>7 DEF REC!REPLAY_PARAM_SET
  <2>2. ReplayInv'
    BY <1>1, <2>1, ReplayUnchanged DEF ReplayState
  <2>3. RecorderTypes'
    BY <1>1, <1>4, <2>1, RecordersTyped, RecordersTypedNext
  <2> QED
    BY <1>3, <2>2, <2>3 DEF RecordersInv
<1> QED
  BY <1>5, <1>6, <1>7 DEF REC!ReplayCommand, REC!REPLAY, REC!DIRECT_REPLAY

LEMMA RecordersKept ==
    ASSUME RecordersInv, REC!Next \/ UNCHANGED recVars
    PROVE  RecordersInv'
<1>1. RecorderTypes /\ DataInv /\ ReplayInv
  BY DEF RecordersInv
<1>2. CASE UNCHANGED recVars
  <2>1. /\ UNCHANGED DataState /\ UNCHANGED ReplayState
        /\ UNCHANGED <<flash, wp, enabled, misled, scanned, erasing, tar, start,
                       num, replay, num_read, sent, cut, mixed>>
    BY <1>2 DEF recVars, DataState, ReplayState
  <2>2. RecorderTypes'
    BY <1>1, <2>1, RecordersTyped, RecordersTypedNext
  <2> QED
    BY <1>1, <2>1, <2>2, DataUnchanged, ReplayUnchanged DEF RecordersInv
<1>3. CASE REC!Restart
  <2>1. RecorderTypes' /\ DataInv'
    BY <1>1, <1>3, DataRestartKept
  <2>2. ReplayInv'
    BY <1>3 DEF REC!Restart, ReplayInv
  <2> QED
    BY <2>1, <2>2 DEF RecordersInv
<1>4. ASSUME NEW r \in Recorders, REC!DR_PacketWrite(r) PROVE RecordersInv'
  <2>1. UNCHANGED ReplayState
    BY <1>4 DEF REC!DR_PacketWrite, REC!play, ReplayState
  <2> QED
    BY <1>1, <1>4, <2>1, WriteKept, ReplayUnchanged DEF RecordersInv
<1>5. ASSUME NEW r \in Recorders, REC!DR_Replay(r) PROVE RecordersInv'
  <2>1. UNCHANGED DataState /\ UNCHANGED start
    BY <1>5, ReplaysLeaveData
  <2>2. UNCHANGED <<flash, wp, enabled, misled, scanned, erasing, tar, start>>
    BY <2>1 DEF DataState
  <2>3. RecorderTypes'
    BY <1>1, <1>5, <2>2, ReplayKept, RecordersTyped, RecordersTypedNext
  <2> QED
    BY <1>1, <1>5, <2>1, <2>3, DataUnchanged, ReplayKept DEF RecordersInv
<1>6. ASSUME NEW r \in Recorders, REC!DR_erase_handler(r) PROVE RecordersInv'
  <2>1. REC!Update(r, REC!Erased(flash[r], tar[r]))
    BY <1>6 DEF REC!DR_erase_handler
  <2> QED
    BY <1>1, <1>6, <2>1, EraseKept, UpdateReplayKept DEF RecordersInv
<1> QED
  BY <1>2, <1>3, <1>4, <1>5, <1>6, DataCommandKept, ReplayCommandKept
  DEF REC!Next, REC!Command

LEMMA RecordersAlways == StorageSpec => []RecordersInv
<1>1. StorageInit => RecordersInv
  BY RECInit DEF StorageInit
<1>2. RecordersInv /\ [StorageNext]_storageVars => RecordersInv'
  BY PartSteps, RecordersKept
<1> QED
  BY <1>1, <1>2, PTL DEF StorageSpec

(* A recorder appends to its data, in memories of every size and in whatever order it is    *)
(* restarted, told to record and to erase, unless it is misled: the linear search          *)
(* (DataRecorderManager.cpp, DR_GenWrittenPointer) finds the end that _DR_PacketWrite left,   *)
(* but not an end within Thr pages of that of a sector, or in the last sector, which the   *)
(* theorem excepts with all other cases of misled.                                   *)
THEOREM Appends == StorageSpec => []AppendOnly
<1>1. RecordersInv => AppendOnly
  <2> SUFFICES ASSUME RecordersInv, NEW r \in Recorders, r \notin misled
               PROVE  LET n == REC!End(flash[r])
                      IN  /\ flash[r] = REC!Prefix(n)
                          /\ r \in scanned \/ r \in enabled => wp[r] = n
    BY DEF AppendOnly, REC!AppendOnly
  <2>1. PICK n \in 0..REC!Size : DataUpTo(r, n)
    BY DEF RecordersInv, DataInv
  <2>2. REC!End(flash[r]) = n
    BY <2>1, EndOfPrefix DEF DataUpTo
  <2> QED
    BY <2>1, <2>2 DEF DataUpTo
<1> QED
  BY <1>1, RecordersAlways, PTL

(* A replay that comes to its end has sent the packets it was asked for, whatever the number  *)
(* and the recorders (DataRecorderManager.cpp, DR_Replay).                           *)
THEOREM ReplaysWhole == StorageSpec => ReplayExact
<1>1. RecordersInv /\ [StorageNext]_storageVars => [REC!EndsWhole]_recVars
  <2> SUFFICES ASSUME RecordersInv, NEW r \in Recorders, r \notin mixed, REC!DR_Replay(r),
                      r \notin replay'
               PROVE  sent'[r] = num[r] \/ (num[r] = 0 /\ sent'[r] = 1)
    BY PartSteps DEF REC!EndsWhole
  <2>1. r \in replay /\ num_read = sent[r] /\ (sent[r] < num[r] \/ sent[r] = 0)
    BY DEF REC!DR_Replay, RecordersInv, ReplayInv
  <2>2. sent[r] \in Nat /\ num[r] \in Nat
    BY RecordersTyped DEF RecordersInv
  <2>3. num_read + 1 >= num[r]
    BY <2>1 DEF REC!DR_Replay
  <2>4. sent'[r] = sent[r] + 1
    BY RecordersTyped DEF REC!DR_Replay, REC!Set, RecordersInv
  <2> QED
    BY <2>1, <2>2, <2>3, <2>4
<1> QED
  BY <1>1, RecordersAlways, PTL DEF StorageSpec, ReplayExact

-------------------------------------------------------------------------------
(* The power. *)

PowerSwitches == <<on, pwr_fram, dropped, struck>>

LEMMA PowerConstants ==
    /\ {"MSN5V", "SF", "OVCO"} \subseteq Loads /\ Loads \subseteq PWR!AllLoads
    /\ \A b \in PWR!Boards : Channels[b] \in Nat \ {0} /\ Home[b] \in Nat
<1>1. /\ {"MSN5V", "SF", "OVCO"} \subseteq Loads /\ Loads \subseteq PWR!AllLoads
      /\ Channels \in [PWR!Boards -> Nat \ {0}]
      /\ \A b \in PWR!Boards : Home[b] \in 1..Channels[b]
  BY StorageAssumption DEF PWR!PowerConstants
<1>2. \A b \in PWR!Boards : Channels[b] \in Nat \ {0}
  BY <1>1
<1> QED
  BY <1>1, <1>2

LEMMA PowerTyped ==
    ASSUME PowerTypes
    PROVE  /\ on \in [Loads -> BOOLEAN] /\ pwr_fram \in [Loads -> BOOLEAN]
           /\ pwr_agenda \in Seq(Entry) /\ access \subseteq PWR!Boards
           /\ cycle \in [PWR!Boards -> Nat] /\ mux \in [PWR!Boards -> Nat]
           /\ odd \in [PWR!Boards -> SUBSET Nat] /\ calm \in [PWR!Boards -> Nat]
           /\ order \in Order
BY DEF PowerTypes

LEMMA PowerTypedNext ==
    ASSUME on' \in [Loads -> BOOLEAN], pwr_fram' \in [Loads -> BOOLEAN],
           pwr_agenda' \in Seq(Entry), access' \subseteq PWR!Boards,
           cycle' \in [PWR!Boards -> Nat], mux' \in [PWR!Boards -> Nat],
           odd' \in [PWR!Boards -> SUBSET Nat], calm' \in [PWR!Boards -> Nat],
           order' \in Order
    PROVE  PowerTypes'
BY DEF PowerTypes, Entry, Order, PWR!Boards

-------------------------------------------------------------------------------
(* A round of measurements. *)

(* One call moves what a quantity was measured one call back. *)
LEMMA OneCallBack ==
    ASSUME NEW n \in Nat \ {0}, NEW c \in 1..n, NEW q \in (1..n) \ {c}
    PROVE  Ago(q, IF c = n THEN 1 ELSE c + 1, n) = Ago(q, c, n) + 1
BY DEF Ago

LEMMA AgoBounds ==
    ASSUME NEW n \in Nat \ {0}, NEW c \in 1..n, NEW q \in 1..n
    PROVE  1 <= Ago(q, c, n) /\ Ago(q, c, n) <= n
BY DEF Ago

RoundOf(b, c, m, d, k) ==
    LET n == Channels[b]
    IN  /\ c <= n /\ d \subseteq 1..n /\ k <= n + 1
        /\ k > 0 => c > 0 /\ m = c /\ \A q \in d : Ago(q, c, n) >= k

LEMMA RoundIsOf == RoundInv <=> \A b \in PWR!Boards : RoundOf(b, cycle[b], mux[b], odd[b], calm[b])
BY DEF RoundInv, RoundOf

LEMMA RoundKeptBy ==
    ASSUME \A b \in PWR!Boards : RoundOf(b, cycle'[b], mux'[b], odd'[b], calm'[b])
    PROVE  RoundInv'
BY DEF RoundInv, RoundOf, Ago, PWR!Boards

LEMMA StatusKept ==
    ASSUME PowerTypes, RoundInv, PWR!EPS_GetStatus
    PROVE  /\ RoundInv'
           /\ cycle' \in [PWR!Boards -> Nat] /\ mux' \in [PWR!Boards -> Nat]
           /\ odd' \in [PWR!Boards -> SUBSET Nat] /\ calm' \in [PWR!Boards -> Nat]
<1>1. ASSUME NEW b \in PWR!Boards
      PROVE  /\ RoundOf(b, cycle'[b], mux'[b], odd'[b], calm'[b])
             /\ cycle'[b] \in Nat /\ mux'[b] \in Nat /\ odd'[b] \subseteq Nat /\ calm'[b] \in Nat
  <2> DEFINE n == Channels[b]
             c == cycle[b]
             next == IF c = n THEN 1 ELSE c + 1
  <2>1. /\ n \in Nat \ {0} /\ c \in Nat /\ c <= n /\ mux[b] \in Nat /\ odd[b] \subseteq 1..n
        /\ calm[b] \in Nat /\ calm[b] <= n + 1
        /\ calm[b] > 0 => c > 0 /\ mux[b] = c /\ \A q \in odd[b] : Ago(q, c, n) >= calm[b]
    BY PowerConstants, PowerTyped, RoundIsOf DEF RoundOf
  <2>2. CASE b \notin access
    <3>1. cycle'[b] = c /\ mux'[b] = mux[b] /\ odd'[b] = odd[b] /\ calm'[b] = calm[b]
      BY <2>2 DEF PWR!EPS_GetStatus
    <3> QED
      BY <2>1, <3>1 DEF RoundOf
  <2>3. CASE b \in access
    <3>1. cycle'[b] = next /\ next \in 1..n
      BY <2>1, <2>3 DEF PWR!EPS_GetStatus, PWR!NextStep, PWR!NextChannel
    <3>2. odd'[b] = PWR!Measured(b)
      BY <2>3 DEF PWR!EPS_GetStatus
    <3>3. odd'[b] \subseteq 1..n
      BY <2>1, <3>2 DEF PWR!Measured
    <3>4. CASE ~PWR!Answers(b)
      <4>1. calm'[b] = 0 /\ mux'[b] = mux[b]
        BY <2>3, <3>4 DEF PWR!EPS_GetStatus
      <4> QED
        BY <2>1, <3>1, <3>3, <4>1 DEF RoundOf
    <3>5. CASE PWR!Answers(b)
      <4>1. /\ mux'[b] = next
            /\ calm'[b] = IF calm[b] > n THEN calm[b] ELSE calm[b] + 1
        BY <2>3, <3>5 DEF PWR!EPS_GetStatus, PWR!NextChannel
      <4>2. calm'[b] \in Nat /\ calm'[b] > 0 /\ calm'[b] <= n + 1 /\ calm'[b] <= calm[b] + 1
        BY <2>1, <4>1
      <4>3. ASSUME NEW q \in odd'[b] PROVE Ago(q, next, n) >= calm'[b]
        <5>1. q \in 1..n
          BY <3>3
        <5>2. CASE calm[b] = 0
          <6>1. 1 <= Ago(q, next, n) /\ calm'[b] <= 1
            BY <2>1, <3>1, <4>2, <5>1, <5>2, AgoBounds
          <6>2. Ago(q, next, n) \in Int
            BY <2>1, <3>1, <5>1 DEF Ago
          <6> QED
            BY <4>2, <6>1, <6>2
        <5>3. CASE calm[b] # 0
          <6>1. c > 0 /\ mux[b] = c /\ c \in 1..n
            BY <2>1, <5>3
          <6>2. q \in odd[b] /\ q # c
            BY <3>2, <3>5, <6>1 DEF PWR!Measured
          <6>3. Ago(q, next, n) = Ago(q, c, n) + 1
            BY <2>1, <5>1, <6>1, <6>2, OneCallBack
          <6>4. Ago(q, c, n) >= calm[b] /\ Ago(q, c, n) \in Int
            BY <2>1, <5>1, <5>3, <6>1, <6>2 DEF Ago
          <6> QED
            BY <2>1, <4>2, <6>3, <6>4
        <5> QED
          BY <5>2, <5>3
      <4> HIDE DEF next
      <4>4. RoundOf(b, cycle'[b], mux'[b], odd'[b], calm'[b])
        BY <2>1, <3>1, <3>3, <4>1, <4>2, <4>3 DEF RoundOf
      <4> QED
        BY <2>1, <3>1, <3>3, <4>1, <4>2, <4>4
    <3> QED
      BY <3>4, <3>5
  <2> QED
    BY <2>2, <2>3
<1>2. /\ cycle' = [b \in PWR!Boards |-> cycle'[b]] /\ mux' = [b \in PWR!Boards |-> mux'[b]]
      /\ odd' = [b \in PWR!Boards |-> odd'[b]] /\ calm' = [b \in PWR!Boards |-> calm'[b]]
  BY DEF PWR!EPS_GetStatus
<1>3. /\ cycle' \in [PWR!Boards -> Nat] /\ mux' \in [PWR!Boards -> Nat]
      /\ odd' \in [PWR!Boards -> SUBSET Nat] /\ calm' \in [PWR!Boards -> Nat]
  BY <1>1, <1>2
<1> QED
  BY <1>1, <1>3, RoundKeptBy

-------------------------------------------------------------------------------
(* The switches and what the FRAM says of them. *)

LEMMA SavedUnchanged ==
    ASSUME SavedAsSwitched, UNCHANGED PowerSwitches
    PROVE  SavedAsSwitched'
BY DEF SavedAsSwitched, PWR!SavedAsSwitched, PowerSwitches

(* What one switch did: it moved the load and was recorded, or did nothing, or had a mishap. *)
Moved(l, v) ==
    /\ on' = [on EXCEPT ![l] = v] /\ pwr_fram' = [pwr_fram EXCEPT ![l] = v]
    /\ struck' = struck \ {l} /\ dropped' = dropped \ {l} /\ order' = order

Struck(l, v) ==
    /\ on' \in {on, [on EXCEPT ![l] = v]} /\ pwr_fram' \in {pwr_fram, [pwr_fram EXCEPT ![l] = v]}
    /\ struck' = struck \cup {l} /\ dropped' \in {dropped, dropped \ {l}}
    /\ order' = [order EXCEPT !.clean = FALSE]

Ignored ==
    /\ UNCHANGED PowerSwitches /\ order' = [order EXCEPT !.clean = FALSE]

LEMMA SwitchDoes ==
    ASSUME NEW l, NEW v, NEW moved \in BOOLEAN, NEW ack \in BOOLEAN, NEW mishap \in BOOLEAN,
           PWR!Switch(l, v, moved, ack, mishap),
           ~mishap => moved = ack
    PROVE  Moved(l, v) \/ Struck(l, v) \/ Ignored
<1>1. CASE mishap
  BY <1>1 DEF PWR!Switch, PWR!Record, PWR!Set, Struck
<1>2. CASE ~mishap /\ moved
  BY <1>2 DEF PWR!Switch, PWR!Record, PWR!Set, Moved
<1>3. CASE ~mishap /\ ~moved
  BY <1>3 DEF PWR!Switch, PWR!Record, PWR!Set, Ignored, PowerSwitches
<1> QED
  BY <1>1, <1>2, <1>3

LEMMA PDUDoes ==
    ASSUME NEW l \in Loads, NEW v \in BOOLEAN, PWR!PWR_PDU(l, v)
    PROVE  Moved(l, v) \/ Struck(l, v) \/ Ignored
<1>1. CASE "PDU" \notin access
  <2>1. PWR!Switch(l, v, FALSE, FALSE, FALSE)
    BY <1>1 DEF PWR!PWR_PDU
  <2> QED
    BY <2>1, SwitchDoes
<1>2. CASE "PDU" \in access /\ ~PWR!Answers("PDU")
  <2>1. PWR!Switch(l, v, FALSE, PWR!ReadsLow(l, v), TRUE)
    BY <1>2 DEF PWR!PWR_PDU
  <2>2. PWR!ReadsLow(l, v) \in BOOLEAN
    BY DEF PWR!ReadsLow
  <2> QED
    BY <2>1, <2>2, SwitchDoes
<1>3. CASE "PDU" \in access /\ PWR!Answers("PDU")
  <2>1. PICK lost \in 0..4 :
          PWR!Switch(l, v, PWR!Moves(l, v, lost), PWR!Acknowledged(l, v, lost), lost # 0)
    BY <1>3 DEF PWR!PWR_PDU
  <2>2. PWR!Moves(l, v, lost) \in BOOLEAN /\ PWR!Acknowledged(l, v, lost) \in BOOLEAN
    BY DEF PWR!Moves, PWR!Acknowledged
  <2>3. lost = 0 => PWR!Moves(l, v, lost) /\ PWR!Acknowledged(l, v, lost)
    BY DEF PWR!Moves, PWR!Acknowledged
  <2>4. (lost # 0) \in BOOLEAN
    OBVIOUS
  <2>5. ~(lost # 0) => PWR!Moves(l, v, lost) = PWR!Acknowledged(l, v, lost)
    BY <2>2, <2>3
  <2> QED
    BY Zenon, <2>1, <2>2, <2>4, <2>5, SwitchDoes
<1> QED
  BY <1>1, <1>2, <1>3

(* The switch that the head of the agenda asks for. *)
Wanted(e) == IF e.saved THEN pwr_fram[e.as] ELSE e.value

LEMMA StepDoes ==
    ASSUME PowerTypes, RoundInv, PWR!Step, NEW e, e = Head(pwr_agenda)
    PROVE  /\ e \in Entry /\ Wanted(e) \in BOOLEAN /\ pwr_agenda # <<>>
           /\ pwr_agenda' = Tail(pwr_agenda) /\ access' = access
           /\ Moved(e.load, Wanted(e)) \/ Struck(e.load, Wanted(e)) \/ Ignored
           /\ PWR!EPS_GetStatus \/ UNCHANGED <<cycle, mux, odd, calm>>
<1>1. pwr_agenda # <<>> /\ pwr_agenda \in Seq(Entry)
  BY PowerTyped DEF PWR!Step, PWR!Idle
<1>2. e \in Entry
  BY <1>1
<1>3. e.load \in Loads /\ e.as \in Loads /\ e.saved \in BOOLEAN /\ e.value \in BOOLEAN
  BY <1>2 DEF Entry
<1>4. Wanted(e) \in BOOLEAN
  BY <1>3, PowerTyped DEF Wanted
<1>5. IF e.load \in PWR!Held \cup PWR!Pulsed THEN PWR!PWR_PDU(e.load, Wanted(e))
      ELSE PWR!PWR_pin(e.load, Wanted(e))
  BY DEF PWR!Step, Wanted
<1>6. pwr_agenda' = Tail(pwr_agenda) /\ access' = access
  BY DEF PWR!Step, PWR!eps
<1>7. CASE PWR!PWR_PDU(e.load, Wanted(e))
  <2>1. PWR!EPS_GetStatus
    BY <1>7 DEF PWR!PWR_PDU
  <2> QED
    BY <1>1, <1>2, <1>3, <1>4, <1>6, <1>7, <2>1, PDUDoes
<1>8. CASE PWR!PWR_pin(e.load, Wanted(e))
  <2>1. PWR!Switch(e.load, Wanted(e), TRUE, TRUE, FALSE)
    BY <1>8 DEF PWR!PWR_pin
  <2>2. Moved(e.load, Wanted(e))
    BY <2>1 DEF PWR!Switch, PWR!Record, PWR!Set, Moved
  <2>3. PWR!EPS_GetStatus \/ UNCHANGED <<cycle, mux, odd, calm>>
    BY <1>8 DEF PWR!PWR_pin, PWR!meter
  <2> QED
    BY <1>1, <1>2, <1>4, <1>6, <2>2, <2>3
<1> QED
  BY <1>5, <1>7, <1>8

(* Whatever it did, what the FRAM says holds of the loads that had no mishap. *)
LEMMA SwitchKept ==
    ASSUME PowerTypes, SavedAsSwitched, NEW l \in Loads, NEW v \in BOOLEAN,
           Moved(l, v) \/ Struck(l, v) \/ Ignored
    PROVE  /\ SavedAsSwitched' /\ on' \in [Loads -> BOOLEAN] /\ pwr_fram' \in [Loads -> BOOLEAN]
           /\ order' \in Order
<1>1. on \in [Loads -> BOOLEAN] /\ pwr_fram \in [Loads -> BOOLEAN] /\ order \in Order
  BY PowerTyped
<1>2. \A x \in Loads : x \notin dropped \cup struck => on[x] = pwr_fram[x]
  BY DEF SavedAsSwitched, PWR!SavedAsSwitched
<1>3. CASE Moved(l, v)
  <2>1. \A x \in Loads : x \notin dropped' \cup struck' => on'[x] = pwr_fram'[x]
    BY <1>1, <1>2, <1>3 DEF Moved
  <2>2. on' \in [Loads -> BOOLEAN] /\ pwr_fram' \in [Loads -> BOOLEAN] /\ order' = order
    BY <1>1, <1>3 DEF Moved
  <2> QED
    BY <1>1, <2>1, <2>2 DEF SavedAsSwitched, PWR!SavedAsSwitched
<1>4. CASE Struck(l, v)
  <2>1. \A x \in Loads : x \notin dropped' \cup struck' => on'[x] = pwr_fram'[x]
    BY <1>1, <1>2, <1>4 DEF Struck
  <2>2. on' \in [Loads -> BOOLEAN] /\ pwr_fram' \in [Loads -> BOOLEAN]
    BY <1>1, <1>4 DEF Struck
  <2>3. order' \in Order
    <3>1. order' = [order EXCEPT !.clean = FALSE]
      BY <1>4 DEF Struck
    <3> QED
      BY <1>1, <3>1 DEF Order
  <2> QED
    BY <2>1, <2>2, <2>3 DEF SavedAsSwitched, PWR!SavedAsSwitched
<1>5. CASE Ignored
  <2>1. SavedAsSwitched'
    BY <1>5, SavedUnchanged DEF Ignored
  <2>2. order' = [order EXCEPT !.clean = FALSE] /\ on' = on /\ pwr_fram' = pwr_fram
    BY <1>5 DEF Ignored, PowerSwitches
  <2>3. order' \in Order
    BY <1>1, <2>2 DEF Order
  <2> QED
    BY <1>1, <2>1, <2>2, <2>3
<1> QED
  BY <1>3, <1>4, <1>5

-------------------------------------------------------------------------------
(* The composite commands. *)

LEMMA TailOf ==
    ASSUME NEW S, NEW s \in Seq(S), s # <<>>
    PROVE  /\ Tail(s) \in Seq(S) /\ Len(Tail(s)) = Len(s) - 1 /\ Len(s) \in Nat \ {0}
           /\ 1 \in DOMAIN s /\ Head(s) = s[1]
           /\ \A i \in DOMAIN Tail(s) : i \in Nat \ {0} /\ i + 1 \in DOMAIN s /\ Tail(s)[i] = s[i + 1]
           /\ \A i \in DOMAIN s : i \in Nat /\ 1 <= i /\ i <= Len(s)
           /\ \A i \in DOMAIN s : i # 1 => i - 1 \in DOMAIN Tail(s) /\ Tail(s)[i - 1] = s[i]
           /\ Tail(s) = <<>> <=> Len(s) = 1
<1>1. /\ Tail(s) \in Seq(S) /\ Len(Tail(s)) = Len(s) - 1 /\ Len(s) \in Nat \ {0}
      /\ DOMAIN s = 1..Len(s) /\ DOMAIN Tail(s) = 1..Len(Tail(s)) /\ Head(s) = s[1]
  OBVIOUS
<1>2. \A i \in DOMAIN Tail(s) : Tail(s)[i] = s[i + 1]
  OBVIOUS
<1>3. \A i \in DOMAIN s : i # 1 => i - 1 \in DOMAIN Tail(s) /\ (i - 1) + 1 = i
  BY <1>1
<1>4. \A i \in DOMAIN s : i # 1 => Tail(s)[i - 1] = s[i]
  BY <1>2, <1>3
<1>5. Tail(s) = <<>> <=> Len(s) = 1
  <2> DEFINE t == Tail(s)
  <2>1. t \in Seq(S) /\ Len(t) = Len(s) - 1 /\ Len(s) \in Nat
    BY <1>1
  <2> HIDE DEF t
  <2>2. t = <<>> <=> Len(t) = 0
    <3>1. t = <<>> => Len(t) = 0
      OBVIOUS
    <3>2. Len(t) = 0 => t = <<>>
      BY <2>1
    <3> QED
      BY <3>1, <3>2
  <2> QED
    BY <2>1, <2>2 DEF t
<1>6. \A i \in DOMAIN Tail(s) : i \in Nat \ {0} /\ i + 1 \in DOMAIN s
  BY <1>1
<1>7. 1 \in DOMAIN s /\ \A i \in DOMAIN s : i \in Nat /\ 1 <= i /\ i <= Len(s)
  BY <1>1
<1> QED
  BY <1>1, <1>2, <1>3, <1>4, <1>5, <1>6, <1>7

(* What was ahead is ahead, but for the head. *)
LEMMA StillAhead ==
    ASSUME pwr_agenda \in Seq(Entry), pwr_agenda # <<>>, pwr_agenda' = Tail(pwr_agenda),
           NEW x, Ahead(x), x # Head(pwr_agenda)
    PROVE  Ahead(x)'
<1>1. PICK i \in DOMAIN pwr_agenda : pwr_agenda[i] = x
  BY DEF Ahead
<1>2. i # 1
  BY <1>1, TailOf
<1>3. i - 1 \in DOMAIN pwr_agenda' /\ pwr_agenda'[i - 1] = x
  BY <1>1, <1>2, TailOf
<1> QED
  BY <1>3 DEF Ahead

LEMMA SafeStep ==
    ASSUME PowerTypes, SafeUnderWay, pwr_agenda # <<>>, pwr_agenda' = Tail(pwr_agenda),
           NEW e, e = Head(pwr_agenda), Moved(e.load, Wanted(e))
    PROVE  SafeUnderWay'
<1> DEFINE sf == PWR!Turn("SF", TRUE)
           n  == Len(pwr_agenda)
<1>1. /\ on \in [Loads -> BOOLEAN] /\ pwr_agenda \in Seq(Entry) /\ n \in Nat \ {0}
      /\ 1 \in DOMAIN pwr_agenda /\ e = pwr_agenda[1]
      /\ Len(pwr_agenda') = n - 1
  BY PowerTyped, TailOf
<1>2. /\ \A i \in DOMAIN pwr_agenda' : /\ i \in Nat \ {0} /\ i + 1 \in DOMAIN pwr_agenda
                                       /\ pwr_agenda'[i] = pwr_agenda[i + 1]
      /\ pwr_agenda' = <<>> <=> n = 1
  BY <1>1, TailOf
<1>3. on' = [on EXCEPT ![e.load] = Wanted(e)]
  BY DEF Moved
<1>4. /\ \A i \in DOMAIN pwr_agenda :
           \/ \E l \in Loads : pwr_agenda[i] = PWR!Turn(l, FALSE)
           \/ i = n /\ pwr_agenda[i] = sf
      /\ pwr_agenda[n] = sf
      /\ \A l \in Loads \ (PWR!Fed \cup {"SF"}) : on[l] => Ahead(PWR!Turn(l, FALSE))
  BY DEF SafeUnderWay
<1>5. \A i \in DOMAIN pwr_agenda' :
        \/ \E l \in Loads : pwr_agenda'[i] = PWR!Turn(l, FALSE)
        \/ i = Len(pwr_agenda') /\ pwr_agenda'[i] = sf
  <2> SUFFICES ASSUME NEW i \in DOMAIN pwr_agenda'
               PROVE  \/ \E l \in Loads : pwr_agenda'[i] = PWR!Turn(l, FALSE)
                      \/ i = Len(pwr_agenda') /\ pwr_agenda'[i] = sf
    OBVIOUS
  <2>1. i + 1 \in DOMAIN pwr_agenda /\ pwr_agenda'[i] = pwr_agenda[i + 1] /\ i \in Nat
    BY <1>2
  <2>2. \/ \E l \in Loads : pwr_agenda[i + 1] = PWR!Turn(l, FALSE)
        \/ i + 1 = n /\ pwr_agenda[i + 1] = sf
    BY <1>4, <2>1
  <2> HIDE DEF n, sf
  <2>3. i + 1 = n => i = Len(pwr_agenda')
    BY <1>1, <2>1
  <2> QED
    BY <2>1, <2>2, <2>3
<1>6. CASE n = 1
  <2>1. pwr_agenda' = <<>> /\ e = sf
    BY <1>1, <1>2, <1>4, <1>6
  <2>2. e.load = "SF" /\ Wanted(e) = TRUE
    BY <2>1 DEF PWR!Turn, Wanted
  <2>3. ASSUME NEW l \in Loads \ PWR!Fed PROVE on'[l] <=> l = "SF"
    <3>1. CASE l = "SF"
      BY <1>1, <1>3, <2>2, <3>1
    <3>2. CASE l # "SF"
      <4>1. ~Ahead(PWR!Turn(l, FALSE))
        <5>1. \A i \in DOMAIN pwr_agenda : i = 1
          BY <1>1, <1>6
        <5>2. PWR!Turn(l, FALSE) # sf
          BY <3>2 DEF PWR!Turn
        <5> QED
          BY <1>1, <2>1, <5>1, <5>2 DEF Ahead
      <4>2. ~on[l]
        BY <1>4, <3>2, <4>1
      <4> QED
        BY <1>1, <1>3, <2>2, <3>2, <4>2
    <3> QED
      BY <3>1, <3>2
  <2>4. \A l \in Loads \ (PWR!Fed \cup {"SF"}) : ~on'[l]
    BY <2>3
  <2> QED
    BY <1>5, <2>1, <2>3, <2>4 DEF SafeUnderWay, PWR!Turn, PWR!Fed
<1>7. CASE n # 1
  <2>1. pwr_agenda' # <<>> /\ pwr_agenda'[Len(pwr_agenda')] = sf
    <3>1. n - 1 \in DOMAIN pwr_agenda'
      BY <1>1, <1>7, TailOf
    <3>2. pwr_agenda'[n - 1] = pwr_agenda[(n - 1) + 1] /\ (n - 1) + 1 = n
      BY <1>1, <1>2, <3>1
    <3> QED
      BY <1>1, <1>2, <1>4, <1>7, <3>2
  <2>2. PICK m \in Loads : e = PWR!Turn(m, FALSE)
    BY <1>1, <1>4, <1>7
  <2>3. e.load = m /\ Wanted(e) = FALSE
    BY <2>2 DEF PWR!Turn, Wanted
  <2>4. ASSUME NEW l \in Loads \ (PWR!Fed \cup {"SF"}), on'[l]
        PROVE  Ahead(PWR!Turn(l, FALSE))'
    <3>1. l # m /\ on[l]
      BY <1>1, <1>3, <2>3, <2>4
    <3>2. PWR!Turn(l, FALSE) # e
      BY <2>3, <3>1 DEF PWR!Turn
    <3>3. Ahead(PWR!Turn(l, FALSE))
      BY <1>4, <3>1
    <3>4. Ahead(PWR!Turn(l, FALSE))'
      BY <1>1, <3>2, <3>3, StillAhead DEF PWR!Turn, Ahead
    <3> QED
      BY <3>4
  <2> QED
    BY <1>5, <2>1, <2>4 DEF SafeUnderWay, PWR!Turn, PWR!Fed
<1> QED
  BY <1>6, <1>7

(* A load that is restored was saved; the 5 V end as the last of those that need them. *)
LEMMA RebootStep ==
    ASSUME PowerTypes, RebootUnderWay, pwr_agenda # <<>>, pwr_agenda' = Tail(pwr_agenda),
           NEW e, e = Head(pwr_agenda), Moved(e.load, Wanted(e))
    PROVE  RebootUnderWay'
<1> DEFINE mine(l) == PWR!Restore(l, l)
           last5V  == PWR!Restore("MSN5V", "OVCO")
           n       == Len(pwr_agenda)
<1>1. /\ on \in [Loads -> BOOLEAN] /\ pwr_fram \in [Loads -> BOOLEAN]
      /\ pwr_agenda \in Seq(Entry) /\ n \in Nat \ {0}
      /\ 1 \in DOMAIN pwr_agenda /\ e = pwr_agenda[1]
      /\ Len(pwr_agenda') = n - 1
  BY PowerTyped, TailOf
<1>2. \A i \in DOMAIN pwr_agenda' : /\ i \in Nat \ {0} /\ i + 1 \in DOMAIN pwr_agenda
                                    /\ pwr_agenda'[i] = pwr_agenda[i + 1]
  BY <1>1, TailOf
<1>3. /\ on' = [on EXCEPT ![e.load] = Wanted(e)]
      /\ pwr_fram' = [pwr_fram EXCEPT ![e.load] = Wanted(e)] /\ order' = order
  BY DEF Moved
<1>4. /\ \A i \in DOMAIN pwr_agenda :
           \/ \E l \in Loads : pwr_agenda[i] = mine(l)
           \/ \E l \in PWR!Fed : pwr_agenda[i] = PWR!Restore("MSN5V", l)
      /\ \A l \in Loads \ {"MSN5V"} : /\ pwr_fram[l] <=> l \in order.saved
                                      /\ on[l] = pwr_fram[l] \/ Ahead(mine(l))
      /\ on["MSN5V"] = pwr_fram["OVCO"] \/ Ahead(last5V)
      /\ \A i \in DOMAIN pwr_agenda : pwr_agenda[i].load = "MSN5V" =>
             \E j \in i..n : pwr_agenda[j] = last5V
  BY DEF RebootUnderWay
<1>5. \/ \E l \in Loads : e = mine(l)
      \/ \E l \in PWR!Fed : e = PWR!Restore("MSN5V", l)
  BY <1>1, <1>4
<1>6. "MSN5V" \in Loads /\ "OVCO" \in Loads
  BY PowerConstants
<1>7. /\ e.load \in Loads
      /\ e.load # "MSN5V" => e = mine(e.load) /\ Wanted(e) = pwr_fram[e.load]
      /\ e = last5V => e.load = "MSN5V" /\ Wanted(e) = pwr_fram["OVCO"]
  BY <1>5, <1>6 DEF PWR!Restore, Wanted
<1>8. \A l \in Loads \ {"MSN5V"} : pwr_fram'[l] = pwr_fram[l]
  BY <1>1, <1>3, <1>7
<1>9. ASSUME NEW x, Ahead(x), x # e PROVE Ahead(x)'
  BY <1>1, <1>9, StillAhead
<1>10. ASSUME NEW l \in Loads \ {"MSN5V"} PROVE on'[l] = pwr_fram'[l] \/ Ahead(mine(l))'
  <2>1. CASE l = e.load
    <3>1. on'[l] = Wanted(e) /\ pwr_fram'[l] = Wanted(e)
      BY <1>1, <1>3, <2>1
    <3> QED
      BY <3>1
  <2>2. CASE l # e.load
    <3>1. on'[l] = on[l] /\ pwr_fram'[l] = pwr_fram[l]
      BY <1>1, <1>3, <2>2
    <3>2. mine(l) # e
      BY <2>2 DEF PWR!Restore
    <3>3. Ahead(mine(l)) => Ahead(mine(l))'
      BY <1>9, <3>2 DEF PWR!Restore, Ahead
    <3> QED
      BY <1>4, <3>1, <3>3
  <2> QED
    BY <2>1, <2>2
<1>11. \A i \in DOMAIN pwr_agenda' : pwr_agenda'[i].load = "MSN5V" =>
           \E j \in i..(n - 1) : pwr_agenda'[j] = last5V
  <2> SUFFICES ASSUME NEW i \in DOMAIN pwr_agenda', pwr_agenda'[i].load = "MSN5V"
               PROVE  \E j \in i..(n - 1) : pwr_agenda'[j] = last5V
    OBVIOUS
  <2> HIDE DEF n, last5V
  <2>1. i \in Nat \ {0} /\ i + 1 \in DOMAIN pwr_agenda /\ pwr_agenda[i + 1].load = "MSN5V"
    BY <1>2
  <2>2. PICK j \in (i + 1)..n : pwr_agenda[j] = last5V
    BY <1>4, <2>1
  <2>3. j \in DOMAIN pwr_agenda /\ j # 1 /\ j - 1 \in i..(n - 1)
    BY <1>1, <2>1, <2>2 DEF n
  <2>4. pwr_agenda'[j - 1] = last5V
    BY <1>1, <2>2, <2>3, TailOf
  <2> QED
    BY <2>3, <2>4
<1>12. on'["MSN5V"] = pwr_fram'["OVCO"] \/ Ahead(last5V)'
  <2>1. pwr_fram'["OVCO"] = pwr_fram["OVCO"]
    BY <1>6, <1>8
  <2>2. CASE e = last5V
    BY <1>1, <1>3, <1>6, <1>7, <2>1, <2>2
  <2>3. CASE e # last5V /\ e.load = "MSN5V"
    <3>1. PICK j \in 1..n : pwr_agenda[j] = last5V
      BY <1>1, <1>4, <2>3
    <3>2. j \in DOMAIN pwr_agenda
      BY <1>1
    <3>3. Ahead(last5V)
      BY <3>1, <3>2 DEF Ahead
    <3>4. Ahead(last5V)'
      BY <1>9, <2>3, <3>3 DEF PWR!Restore, Ahead
    <3> QED
      BY <3>4
  <2>4. CASE e # last5V /\ e.load # "MSN5V"
    <3>1. on'["MSN5V"] = on["MSN5V"]
      BY <1>1, <1>3, <1>6, <2>4
    <3>2. Ahead(last5V) => Ahead(last5V)'
      BY <1>9, <2>4 DEF PWR!Restore, Ahead
    <3> QED
      BY <1>4, <2>1, <3>1, <3>2
  <2> QED
    BY <2>2, <2>3, <2>4
<1>13. \A i \in DOMAIN pwr_agenda' :
          \/ \E l \in Loads : pwr_agenda'[i] = mine(l)
          \/ \E l \in PWR!Fed : pwr_agenda'[i] = PWR!Restore("MSN5V", l)
  BY <1>2, <1>4
<1>14. \A l \in Loads \ {"MSN5V"} : pwr_fram'[l] <=> l \in order'.saved
  BY <1>3, <1>4, <1>8
<1> QED
  BY <1>1, <1>10, <1>11, <1>12, <1>13, <1>14 DEF RebootUnderWay, PWR!Restore, PWR!Fed

(* What a composite command puts on the agenda. *)
Elements(s) == {s[i] : i \in DOMAIN s}

LEMMA JoinedIs ==
    ASSUME NEW S, NEW s \in Seq(S), NEW t \in Seq(S)
    PROVE  s \o t \in Seq(S)
OBVIOUS

LEMMA JoinedElements ==
    ASSUME NEW S, NEW s \in Seq(S), NEW t \in Seq(S)
    PROVE  Elements(s \o t) = Elements(s) \cup Elements(t)
<1>1. /\ s \o t \in Seq(S) /\ Len(s \o t) = Len(s) + Len(t)
      /\ Len(s) \in Nat /\ Len(t) \in Nat
      /\ DOMAIN s = 1..Len(s) /\ DOMAIN t = 1..Len(t) /\ DOMAIN (s \o t) = 1..(Len(s) + Len(t))
  OBVIOUS
<1>2. \A i \in 1..Len(s) : (s \o t)[i] = s[i]
  OBVIOUS
<1>3. \A i \in 1..Len(t) : (s \o t)[Len(s) + i] = t[i]
  OBVIOUS
<1> DEFINE u == s \o t
           m == Len(s)
           n == Len(t)
<1>4. /\ DOMAIN u = 1..(m + n) /\ DOMAIN s = 1..m /\ DOMAIN t = 1..n /\ m \in Nat /\ n \in Nat
      /\ \A i \in 1..m : u[i] = s[i]
      /\ \A i \in 1..n : u[m + i] = t[i]
  BY <1>1, <1>2, <1>3
<1> HIDE DEF u, m, n
<1>5. ASSUME NEW x, x \in Elements(u) PROVE x \in Elements(s) \cup Elements(t)
  <2>1. PICK i \in 1..(m + n) : u[i] = x
    BY <1>4, <1>5 DEF Elements
  <2>2. CASE i <= m
    <3>1. i \in 1..m
      BY <1>4, <2>2
    <3> QED
      BY <1>4, <2>1, <3>1 DEF Elements
  <2>3. CASE ~(i <= m)
    <3>1. i - m \in 1..n /\ m + (i - m) = i
      BY <1>4, <2>3
    <3>2. t[i - m] = x
      BY <1>4, <2>1, <3>1
    <3> QED
      BY <1>4, <3>1, <3>2 DEF Elements
  <2> QED
    BY <2>2, <2>3
<1>6. ASSUME NEW x, x \in Elements(s) \cup Elements(t) PROVE x \in Elements(u)
  <2>1. CASE x \in Elements(s)
    <3>1. PICK i \in 1..m : s[i] = x
      BY <1>4, <2>1 DEF Elements
    <3>2. i \in 1..(m + n) /\ u[i] = x
      BY <1>4, <3>1
    <3> QED
      BY <1>4, <3>2 DEF Elements
  <2>2. CASE x \in Elements(t)
    <3>1. PICK i \in 1..n : t[i] = x
      BY <1>4, <2>2 DEF Elements
    <3>2. m + i \in 1..(m + n) /\ u[m + i] = x
      BY <1>4, <3>1
    <3> QED
      BY <1>4, <3>2 DEF Elements
  <2> QED
    BY <1>6, <2>1, <2>2
<1>7. Elements(u) = Elements(s) \cup Elements(t)
  BY <1>5, <1>6
<1> QED
  BY <1>5, <1>6 DEF u

LEMMA Joined ==
    ASSUME NEW S, NEW s \in Seq(S), NEW t \in Seq(S)
    PROVE  /\ s \o t \in Seq(S) /\ Elements(s \o t) = Elements(s) \cup Elements(t)
           /\ Len(s \o t) = Len(s) + Len(t)
           /\ \A i \in 1..Len(s) : (s \o t)[i] = s[i]
           /\ \A i \in 1..Len(t) : (s \o t)[Len(s) + i] = t[i]
<1>1. /\ s \o t \in Seq(S) /\ Len(s \o t) = Len(s) + Len(t)
      /\ Len(s) \in Nat /\ Len(t) \in Nat
      /\ DOMAIN s = 1..Len(s) /\ DOMAIN t = 1..Len(t) /\ DOMAIN (s \o t) = 1..(Len(s) + Len(t))
  OBVIOUS
<1>2. \A i \in 1..Len(s) : (s \o t)[i] = s[i]
  OBVIOUS
<1>3. \A i \in 1..Len(t) : (s \o t)[Len(s) + i] = t[i]
  OBVIOUS
<1>4. Elements(s \o t) = Elements(s) \cup Elements(t)
  BY JoinedElements
<1> QED
  BY <1>1, <1>2, <1>3, <1>4

LEMMA ElementsOf ==
    /\ Elements(<<>>) = {}
    /\ \A x : Elements(<<x>>) = {x}
    /\ \A x, y : Elements(<<x, y>>) = {x, y}
<1>1. Elements(<<>>) = {}
  BY DEF Elements
<1>2. ASSUME NEW x PROVE Elements(<<x>>) = {x}
  BY DEF Elements
<1>3. ASSUME NEW x, NEW y PROVE Elements(<<x, y>>) = {x, y}
  <2>1. DOMAIN <<x, y>> = {1, 2} /\ <<x, y>>[1] = x /\ <<x, y>>[2] = y
    OBVIOUS
  <2> QED
    BY <2>1 DEF Elements
<1> QED
  BY <1>1, <1>2, <1>3

LEMMA EntriesTyped ==
    /\ \A l \in Loads, v \in BOOLEAN : PWR!Turn(l, v) \in Entry
    /\ \A l \in Loads, k \in Loads : PWR!Restore(l, k) \in Entry
BY DEF PWR!Turn, PWR!Restore, Entry

(* The loads of K are switched off. *)
Offs(s, K) == s \in Seq(Entry) /\ Elements(s) = {PWR!Turn(l, FALSE) : l \in Loads \cap K}

LEMMA OffsOne ==
    ASSUME NEW k
    PROVE  Offs(PWR!OFF(k), {k})
<1>1. CASE k \in Loads
  <2> DEFINE e == PWR!Turn(k, FALSE)
  <2>1. PWR!OFF(k) = <<e>> /\ e \in Entry
    BY <1>1, EntriesTyped DEF PWR!OFF
  <2>2. Elements(PWR!OFF(k)) = {e}
    BY Zenon, <2>1, ElementsOf
  <2> HIDE DEF e
  <2>3. PWR!OFF(k) \in Seq(Entry)
    BY <2>1
  <2> QED
    BY <1>1, <2>2, <2>3 DEF Offs, e
<1>2. CASE k \notin Loads
  <2>1. PWR!OFF(k) = <<>> /\ <<>> \in Seq(Entry)
    BY <1>2 DEF PWR!OFF
  <2>2. Loads \cap {k} = {}
    BY <1>2
  <2> QED
    BY <2>1, <2>2, ElementsOf DEF Offs
<1> QED
  BY <1>1, <1>2

LEMMA OffsMore ==
    ASSUME NEW s, NEW K, Offs(s, K), NEW k
    PROVE  Offs(s \o PWR!OFF(k), K \cup {k})
<1>1. /\ s \in Seq(Entry) /\ PWR!OFF(k) \in Seq(Entry)
      /\ Elements(s) = {PWR!Turn(l, FALSE) : l \in Loads \cap K}
      /\ Elements(PWR!OFF(k)) = {PWR!Turn(l, FALSE) : l \in Loads \cap {k}}
  BY OffsOne DEF Offs
<1> DEFINE t == PWR!OFF(k)
<1>2. t \in Seq(Entry)
  BY <1>1
<1> HIDE DEF t
<1>3. s \o t \in Seq(Entry)
  BY <1>1, <1>2, JoinedIs
<1>a. s \in Seq(Entry)
  BY <1>1
<1>4. Elements(s \o t) = Elements(s) \cup Elements(t)
  BY <1>2, <1>a, JoinedElements
<1> QED
  BY <1>1, <1>3, <1>4 DEF Offs, t

(* PWR_SAFE_OFF ends with the SF, after every load that has a switch of its own. *)
LEMMA SafeAgenda ==
    \E s \in Seq(Entry) :
        /\ PWR!PWR_SAFE_OFF = s \o <<PWR!Turn("SF", TRUE)>>
        /\ Elements(s) = {PWR!Turn(l, FALSE) : l \in Loads \ PWR!Fed}
<1> DEFINE s1 == PWR!OFF("ADCS")
           s2 == s1 \o PWR!OFF("UNREG")
           s3 == s2 \o PWR!OFF("HEATER")
           s4 == s3 \o PWR!OFF("RW")
           s5 == s4 \o PWR!OFF("MSN5V")
           s6 == s5 \o PWR!OFF("SUBCAM")
           s7 == s6 \o PWR!OFF("SF")
           s8 == s7 \o PWR!OFF("RW_EN")
           s9 == s8 \o PWR!OFF("MSN_UNREG_EN")
           K1 == {"ADCS"}
           K2 == K1 \cup {"UNREG"}
           K3 == K2 \cup {"HEATER"}
           K4 == K3 \cup {"RW"}
           K5 == K4 \cup {"MSN5V"}
           K6 == K5 \cup {"SUBCAM"}
           K7 == K6 \cup {"SF"}
           K8 == K7 \cup {"RW_EN"}
           K9 == K8 \cup {"MSN_UNREG_EN"}
<1>1. PWR!PWR_SAFE_OFF = s9 \o <<PWR!Turn("SF", TRUE)>>
  BY Zenon DEF PWR!PWR_SAFE_OFF
<1>2. Offs(s1, K1)
  BY OffsOne
<1> HIDE DEF s1
<1>3. Offs(s2, K2)
  BY <1>2, OffsMore
<1> HIDE DEF s2
<1>4. Offs(s3, K3)
  BY <1>3, OffsMore
<1> HIDE DEF s3
<1>5. Offs(s4, K4)
  BY <1>4, OffsMore
<1> HIDE DEF s4
<1>6. Offs(s5, K5)
  BY <1>5, OffsMore
<1> HIDE DEF s5
<1>7. Offs(s6, K6)
  BY <1>6, OffsMore
<1> HIDE DEF s6
<1>8. Offs(s7, K7)
  BY <1>7, OffsMore
<1> HIDE DEF s7
<1>9. Offs(s8, K8)
  BY <1>8, OffsMore
<1> HIDE DEF s8
<1>10. Offs(s9, K9)
  BY <1>9, OffsMore
<1> HIDE DEF s9
<1>11. Loads \cap K9 = Loads \ PWR!Fed
  BY PowerConstants DEF PWR!AllLoads, PWR!Fed
<1>12. s9 \in Seq(Entry) /\ Elements(s9) = {PWR!Turn(l, FALSE) : l \in Loads \ PWR!Fed}
  BY <1>10, <1>11 DEF Offs
<1> QED
  BY <1>1, <1>12

LEMMA SafeBegins ==
    ASSUME pwr_agenda' = PWR!PWR_SAFE_OFF
    PROVE  SafeUnderWay' /\ pwr_agenda' \in Seq(Entry)
<1> DEFINE sf == PWR!Turn("SF", TRUE)
<1>1. PICK s \in Seq(Entry) : /\ pwr_agenda' = s \o <<sf>>
                              /\ Elements(s) = {PWR!Turn(l, FALSE) : l \in Loads \ PWR!Fed}
  BY SafeAgenda
<1>2. sf \in Entry
  BY EntriesTyped, PowerConstants
<1> HIDE DEF sf
<1>3. /\ <<sf>> \in Seq(Entry) /\ Len(<<sf>>) = 1 /\ <<sf>>[1] = sf /\ Len(s) \in Nat
      /\ DOMAIN s = 1..Len(s)
  BY <1>2
<1>4. /\ pwr_agenda' \in Seq(Entry) /\ Len(pwr_agenda') = Len(s) + 1
      /\ \A i \in 1..Len(s) : pwr_agenda'[i] = s[i]
      /\ pwr_agenda'[Len(s) + 1] = sf
  BY <1>1, <1>3, Joined
<1>5. DOMAIN pwr_agenda' = 1..(Len(s) + 1) /\ pwr_agenda' # <<>>
  BY <1>3, <1>4
<1>6. ASSUME NEW i \in DOMAIN pwr_agenda'
      PROVE  \/ \E l \in Loads : pwr_agenda'[i] = PWR!Turn(l, FALSE)
             \/ i = Len(pwr_agenda') /\ pwr_agenda'[i] = sf
  <2>1. CASE i \in 1..Len(s)
    <3>1. pwr_agenda'[i] \in Elements(s)
      BY <1>3, <1>4, <2>1 DEF Elements
    <3>2. \E l \in Loads \ PWR!Fed : pwr_agenda'[i] = PWR!Turn(l, FALSE)
      BY <1>1, <3>1
    <3> QED
      BY <3>2
  <2>2. CASE i \notin 1..Len(s)
    <3>1. i = Len(s) + 1
      BY <1>3, <1>5, <2>2
    <3> QED
      BY <1>4, <3>1
  <2> QED
    BY <2>1, <2>2
<1>7. ASSUME NEW l \in Loads \ (PWR!Fed \cup {"SF"})
      PROVE  \E i \in DOMAIN pwr_agenda' : pwr_agenda'[i] = PWR!Turn(l, FALSE)
  <2>1. PWR!Turn(l, FALSE) \in Elements(s)
    BY <1>1
  <2>2. PICK i \in 1..Len(s) : s[i] = PWR!Turn(l, FALSE)
    BY <1>3, <2>1 DEF Elements
  <2>3. i \in DOMAIN pwr_agenda'
    BY <1>3, <1>5
  <2> QED
    BY <1>4, <2>2, <2>3
<1> QED
  BY <1>4, <1>5, <1>6, <1>7 DEF SafeUnderWay, Ahead, PWR!Turn, PWR!Fed, sf

(* The loads of K are restored. *)
Restores(s, K) ==
    /\ s \in Seq(Entry)
    /\ \A e \in Elements(s) : \/ \E l \in Loads : e = PWR!Restore(l, l)
                              \/ \E l \in PWR!Fed : e = PWR!Restore("MSN5V", l)
    /\ \A l \in Loads \cap K : PWR!Restore(l, l) \in Elements(s)

LEMMA RestoresOne ==
    ASSUME NEW k
    PROVE  Restores(PWR!RESTORE(k), {k})
<1>1. CASE k \notin Loads
  <2>1. PWR!RESTORE(k) = <<>> /\ <<>> \in Seq(Entry)
    BY <1>1 DEF PWR!RESTORE
  <2>2. Loads \cap {k} = {}
    BY <1>1
  <2> QED
    BY <2>1, <2>2, ElementsOf DEF Restores
<1>2. CASE k \in Loads /\ k \notin PWR!Fed
  <2> DEFINE e == PWR!Restore(k, k)
  <2>1. PWR!RESTORE(k) = <<e>> /\ e \in Entry
    BY <1>2, EntriesTyped DEF PWR!RESTORE
  <2>2. Elements(PWR!RESTORE(k)) = {e}
    BY Zenon, <2>1, ElementsOf
  <2> HIDE DEF e
  <2>3. PWR!RESTORE(k) \in Seq(Entry)
    BY <2>1
  <2> QED
    BY <1>2, <2>2, <2>3 DEF Restores, e
<1>3. CASE k \in PWR!Fed
  <2> DEFINE d == PWR!Restore("MSN5V", k)
             e == PWR!Restore(k, k)
  <2>1. k \in Loads /\ "MSN5V" \in Loads
    BY <1>3, PowerConstants DEF PWR!Fed
  <2>2. PWR!RESTORE(k) = <<d, e>> /\ d \in Entry /\ e \in Entry
    BY <1>3, <2>1, EntriesTyped DEF PWR!RESTORE
  <2>3. Elements(PWR!RESTORE(k)) = {d, e}
    BY Zenon, <2>2, ElementsOf
  <2> HIDE DEF d, e
  <2>4. PWR!RESTORE(k) \in Seq(Entry)
    BY <2>2
  <2> QED
    BY <1>3, <2>1, <2>3, <2>4 DEF Restores, d, e
<1> QED
  BY <1>1, <1>2, <1>3

LEMMA RestoresMore ==
    ASSUME NEW s, NEW K, Restores(s, K), NEW k
    PROVE  Restores(s \o PWR!RESTORE(k), K \cup {k})
<1> DEFINE t == PWR!RESTORE(k)
<1>1. Restores(t, {k})
  BY RestoresOne
<1> HIDE DEF t
<1>2. s \in Seq(Entry) /\ t \in Seq(Entry)
  BY <1>1 DEF Restores
<1>3. s \o t \in Seq(Entry) /\ Elements(s \o t) = Elements(s) \cup Elements(t)
  BY <1>2, Joined
<1>4. Restores(s \o t, K \cup {k})
  BY <1>1, <1>3 DEF Restores
<1> QED
  BY <1>4 DEF t

(* POWER_REBOOT ends with OVCO and the 5 V before it. *)
LEMMA RebootAgenda ==
    \E s \in Seq(Entry) :
        /\ PWR!Cmd_POWER_REBOOT
             = s \o <<PWR!Restore("MSN5V", "OVCO"), PWR!Restore("OVCO", "OVCO")>>
        /\ Restores(s, Loads \ {"OVCO"})
<1> DEFINE s1  == PWR!RESTORE("UNREG")
           s2  == s1 \o PWR!RESTORE("HEATER")
           s3  == s2 \o PWR!RESTORE("RW")
           s4  == s3 \o PWR!RESTORE("ADCS")
           s5  == s4 \o PWR!RESTORE("MSN5V")
           s6  == s5 \o PWR!RESTORE("SUBCAM")
           s7  == s6 \o PWR!RESTORE("SF")
           s8  == s7 \o PWR!RESTORE("MSN_UNREG_EN")
           s9  == s8 \o PWR!RESTORE("RW_EN")
           s10 == s9 \o PWR!RESTORE("AQU")
           K1  == {"UNREG"}
           K2  == K1 \cup {"HEATER"}
           K3  == K2 \cup {"RW"}
           K4  == K3 \cup {"ADCS"}
           K5  == K4 \cup {"MSN5V"}
           K6  == K5 \cup {"SUBCAM"}
           K7  == K6 \cup {"SF"}
           K8  == K7 \cup {"MSN_UNREG_EN"}
           K9  == K8 \cup {"RW_EN"}
           K10 == K9 \cup {"AQU"}
<1>1. PWR!Cmd_POWER_REBOOT = s10 \o PWR!RESTORE("OVCO")
  BY Zenon DEF PWR!Cmd_POWER_REBOOT
<1>2. Restores(s1, K1)
  BY RestoresOne
<1> HIDE DEF s1
<1>3. Restores(s2, K2)
  BY <1>2, RestoresMore
<1> HIDE DEF s2
<1>4. Restores(s3, K3)
  BY <1>3, RestoresMore
<1> HIDE DEF s3
<1>5. Restores(s4, K4)
  BY <1>4, RestoresMore
<1> HIDE DEF s4
<1>6. Restores(s5, K5)
  BY <1>5, RestoresMore
<1> HIDE DEF s5
<1>7. Restores(s6, K6)
  BY <1>6, RestoresMore
<1> HIDE DEF s6
<1>8. Restores(s7, K7)
  BY <1>7, RestoresMore
<1> HIDE DEF s7
<1>9. Restores(s8, K8)
  BY <1>8, RestoresMore
<1> HIDE DEF s8
<1>10. Restores(s9, K9)
  BY <1>9, RestoresMore
<1> HIDE DEF s9
<1>11. Restores(s10, K10)
  BY <1>10, RestoresMore
<1> HIDE DEF s10
<1>12. Loads \cap K10 = Loads \ {"OVCO"}
  BY PowerConstants DEF PWR!AllLoads
<1>13. Restores(s10, Loads \ {"OVCO"}) /\ s10 \in Seq(Entry)
  BY <1>11, <1>12 DEF Restores
<1>14. PWR!RESTORE("OVCO") = <<PWR!Restore("MSN5V", "OVCO"), PWR!Restore("OVCO", "OVCO")>>
  BY PowerConstants DEF PWR!RESTORE, PWR!Fed
<1> QED
  BY <1>1, <1>13, <1>14

LEMMA RebootBegins ==
    ASSUME PowerTypes, pwr_agenda' = PWR!Cmd_POWER_REBOOT, pwr_fram' = pwr_fram,
           order'.saved = {l \in Loads : pwr_fram[l]}
    PROVE  RebootUnderWay' /\ pwr_agenda' \in Seq(Entry)
<1> DEFINE d == PWR!Restore("MSN5V", "OVCO")
           e == PWR!Restore("OVCO", "OVCO")
           mine(l) == PWR!Restore(l, l)
<1>1. PICK s \in Seq(Entry) : pwr_agenda' = s \o <<d, e>> /\ Restores(s, Loads \ {"OVCO"})
  BY RebootAgenda
<1>2. d \in Entry /\ e \in Entry /\ "OVCO" \in PWR!Fed /\ "OVCO" \in Loads /\ "MSN5V" \in Loads
  BY EntriesTyped, PowerConstants DEF PWR!Fed
<1>3. e.load # "MSN5V"
  BY DEF PWR!Restore
<1> HIDE DEF d, e
<1>4. /\ <<d, e>> \in Seq(Entry) /\ Len(<<d, e>>) = 2 /\ <<d, e>>[1] = d /\ <<d, e>>[2] = e
      /\ Len(s) \in Nat /\ DOMAIN s = 1..Len(s)
  BY <1>2
<1> DEFINE m == Len(s)
<1>5. /\ pwr_agenda' \in Seq(Entry) /\ Len(pwr_agenda') = m + 2
      /\ \A i \in 1..m : pwr_agenda'[i] = s[i]
      /\ pwr_agenda'[m + 1] = d /\ pwr_agenda'[m + 2] = e
  BY <1>1, <1>4, Joined
<1>6. m \in Nat /\ DOMAIN s = 1..m /\ DOMAIN pwr_agenda' = 1..(m + 2)
  BY <1>4, <1>5
<1> HIDE DEF m
<1>7. ASSUME NEW i \in DOMAIN pwr_agenda'
      PROVE  \/ \E l \in Loads : pwr_agenda'[i] = mine(l)
             \/ \E l \in PWR!Fed : pwr_agenda'[i] = PWR!Restore("MSN5V", l)
  <2>1. CASE i \in 1..m
    <3>1. pwr_agenda'[i] \in Elements(s)
      BY <1>5, <1>6, <2>1 DEF Elements
    <3> QED
      BY <1>1, <3>1 DEF Restores
  <2>2. CASE i \notin 1..m
    <3>1. i = m + 1 \/ i = m + 2
      BY <1>6, <2>2
    <3>2. pwr_agenda'[i] = d \/ pwr_agenda'[i] = e
      BY <1>5, <3>1
    <3> QED
      BY <1>2, <3>2 DEF d, e
  <2> QED
    BY <2>1, <2>2
<1>8. ASSUME NEW l \in Loads
      PROVE  \E i \in DOMAIN pwr_agenda' : pwr_agenda'[i] = mine(l)
  <2>1. CASE l = "OVCO"
    <3>1. m + 2 \in DOMAIN pwr_agenda'
      BY <1>6
    <3> QED
      BY <1>5, <2>1, <3>1 DEF e
  <2>2. CASE l # "OVCO"
    <3>1. mine(l) \in Elements(s)
      BY <1>1, <2>2 DEF Restores
    <3>2. PICK i \in 1..m : s[i] = mine(l)
      BY <1>6, <3>1 DEF Elements
    <3>3. i \in DOMAIN pwr_agenda'
      BY <1>6
    <3> QED
      BY <1>5, <3>2, <3>3
  <2> QED
    BY <2>1, <2>2
<1>9. \E i \in DOMAIN pwr_agenda' : pwr_agenda'[i] = d
  <2>1. m + 1 \in DOMAIN pwr_agenda'
    BY <1>6
  <2> QED
    BY <1>5, <2>1
<1>10. ASSUME NEW i \in DOMAIN pwr_agenda', pwr_agenda'[i].load = "MSN5V"
       PROVE  \E j \in i..Len(pwr_agenda') : pwr_agenda'[j] = d
  <2>1. i # m + 2
    BY <1>3, <1>5, <1>10
  <2>2. m + 1 \in i..Len(pwr_agenda')
    BY <1>5, <1>6, <2>1
  <2> QED
    BY <1>5, <2>2
<1>11. \A l \in Loads : pwr_fram'[l] <=> l \in order'.saved
  BY PowerTyped
<1> QED
  BY <1>5, <1>7, <1>8, <1>9, <1>10, <1>11
  DEF RebootUnderWay, Ahead, PWR!Restore, PWR!Fed, d, e

LEMMA OrderUnchanged ==
    ASSUME OrderInv, UNCHANGED <<on, pwr_fram, pwr_agenda, order>>
    PROVE  OrderInv'
<1>1. SafeUnderWay => SafeUnderWay'
  BY DEF SafeUnderWay, Ahead, PWR!Turn, PWR!Fed
<1>2. RebootUnderWay => RebootUnderWay'
  BY DEF RebootUnderWay, Ahead, PWR!Restore, PWR!Fed
<1> QED
  BY <1>1, <1>2 DEF OrderInv

LEMMA OrderVoid ==
    ASSUME ~order'.clean
    PROVE  OrderInv'
BY DEF OrderInv

LEMMA PWRInit ==
    ASSUME PWR!Init
    PROVE  PowerInv
<1>1. PowerTypes
  <2>1. on \in [Loads -> BOOLEAN] /\ pwr_fram \in [Loads -> BOOLEAN]
    BY DEF PWR!Init
  <2>2. pwr_agenda \in Seq(Entry) /\ access \subseteq PWR!Boards /\ order \in Order
    BY DEF PWR!Init, PWR!None, Order
  <2>3. /\ cycle \in [PWR!Boards -> Nat] /\ mux \in [PWR!Boards -> Nat]
        /\ calm \in [PWR!Boards -> Nat] /\ odd \in [PWR!Boards -> SUBSET Nat]
    BY PowerConstants DEF PWR!Init, PWR!All
  <2> QED
    BY <2>1, <2>2, <2>3 DEF PowerTypes
<1>2. ASSUME NEW b \in PWR!Boards
      PROVE  RoundOf(b, cycle[b], mux[b], odd[b], calm[b])
  <2>1. cycle[b] = 1 /\ mux[b] = 1 /\ calm[b] = 1 /\ odd[b] = 1..Channels[b]
    BY DEF PWR!Init, PWR!All
  <2>2. Channels[b] \in Nat \ {0}
    BY PowerConstants
  <2> QED
    BY <2>1, <2>2 DEF RoundOf, Ago
<1>3. SavedAsSwitched
  BY DEF PWR!Init, SavedAsSwitched, PWR!SavedAsSwitched
<1>4. OrderInv
  BY DEF PWR!Init, PWR!None, OrderInv
<1> QED
  BY <1>1, <1>2, <1>3, <1>4, RoundIsOf DEF PowerInv

LEMMA PowerParts ==
    ASSUME PowerInv
    PROVE  PowerTypes /\ RoundInv /\ SavedAsSwitched /\ OrderInv
BY DEF PowerInv

LEMMA UpdateKept ==
    ASSUME PowerInv, PWR!EPS_update
    PROVE  PowerInv'
<1>1. PWR!EPS_GetStatus /\ UNCHANGED <<access, on, pwr_fram, dropped, struck, pwr_agenda, order>>
  BY DEF PWR!EPS_update, PWR!eps, PWR!sw
<1>2. /\ RoundInv'
      /\ cycle' \in [PWR!Boards -> Nat] /\ mux' \in [PWR!Boards -> Nat]
      /\ odd' \in [PWR!Boards -> SUBSET Nat] /\ calm' \in [PWR!Boards -> Nat]
  BY <1>1, PowerParts, StatusKept
<1>3. PowerTypes'
  BY <1>1, <1>2, PowerParts, PowerTyped, PowerTypedNext
<1>4. SavedAsSwitched' /\ OrderInv'
  BY <1>1, PowerParts, SavedUnchanged, OrderUnchanged DEF PowerSwitches
<1> QED
  BY <1>2, <1>3, <1>4 DEF PowerInv

LEMMA StepKept ==
    ASSUME PowerInv, PWR!Step
    PROVE  PowerInv'
<1> DEFINE e == Head(pwr_agenda)
<1>1. /\ e \in Entry /\ Wanted(e) \in BOOLEAN /\ pwr_agenda # <<>>
      /\ pwr_agenda' = Tail(pwr_agenda) /\ access' = access
      /\ Moved(e.load, Wanted(e)) \/ Struck(e.load, Wanted(e)) \/ Ignored
      /\ PWR!EPS_GetStatus \/ UNCHANGED <<cycle, mux, odd, calm>>
  BY PowerParts, StepDoes
<1>2. e.load \in Loads
  BY <1>1 DEF Entry
<1>3. /\ SavedAsSwitched' /\ on' \in [Loads -> BOOLEAN] /\ pwr_fram' \in [Loads -> BOOLEAN]
      /\ order' \in Order
  BY <1>1, <1>2, PowerParts, SwitchKept
<1>4. /\ RoundInv'
      /\ cycle' \in [PWR!Boards -> Nat] /\ mux' \in [PWR!Boards -> Nat]
      /\ odd' \in [PWR!Boards -> SUBSET Nat] /\ calm' \in [PWR!Boards -> Nat]
  <2>1. CASE PWR!EPS_GetStatus
    BY <2>1, PowerParts, StatusKept
  <2>2. CASE UNCHANGED <<cycle, mux, odd, calm>>
    <3>1. RoundInv'
      BY <2>2, PowerParts, RoundIsOf, RoundKeptBy
    <3> QED
      BY <2>2, <3>1, PowerParts, PowerTyped
  <2> QED
    BY <1>1, <2>1, <2>2
<1>5. pwr_agenda \in Seq(Entry)
  BY PowerParts, PowerTyped
<1>6. PowerTypes'
  <2>1. pwr_agenda' \in Seq(Entry)
    BY <1>1, <1>5, TailOf
  <2> QED
    BY <1>1, <1>3, <1>4, <2>1, PowerParts, PowerTyped, PowerTypedNext
<1>7. OrderInv'
  <2>1. CASE Moved(e.load, Wanted(e))
    <3>1. order' = order
      BY <2>1 DEF Moved
    <3>2. SafeUnderWay => SafeUnderWay'
      BY <1>1, <2>1, PowerParts, SafeStep
    <3>3. RebootUnderWay => RebootUnderWay'
      BY <1>1, <2>1, PowerParts, RebootStep
    <3> QED
      BY <3>1, <3>2, <3>3, PowerParts DEF OrderInv
  <2>2. CASE Struck(e.load, Wanted(e)) \/ Ignored
    <3>1. order' = [order EXCEPT !.clean = FALSE] /\ order \in Order
      BY <2>2, PowerParts, PowerTyped DEF Struck, Ignored
    <3>2. ~order'.clean
      BY <3>1 DEF Order
    <3> QED
      BY <3>2, OrderVoid
  <2> QED
    BY <1>1, <2>1, <2>2
<1> QED
  BY <1>3, <1>4, <1>6, <1>7 DEF PowerInv

(* A command for a load. *)
LEMMA SwitchAgenda ==
    ASSUME NEW l \in Loads, NEW v \in BOOLEAN
    PROVE  PWR!PWR_(l, v) \in Seq(Entry)
<1> DEFINE d == PWR!Turn("MSN5V", v)
           e == PWR!Turn(l, v)
<1>1. d \in Entry /\ e \in Entry
  BY EntriesTyped, PowerConstants
<1>2. PWR!PWR_(l, v) = IF l \in PWR!Fed THEN <<d, e>> ELSE <<e>>
  BY DEF PWR!PWR_
<1> HIDE DEF d, e
<1>3. <<d, e>> \in Seq(Entry) /\ <<e>> \in Seq(Entry)
  BY <1>1
<1> QED
  BY <1>2, <1>3

LEMMA CommandKept ==
    ASSUME PowerInv, NEW name \in {"switch", "safe", "reboot"}, NEW steps \in Seq(Entry),
           PWR!Command(name, steps),
           name = "safe" => SafeUnderWay', name = "reboot" => RebootUnderWay'
    PROVE  PowerInv'
<1>1. /\ pwr_agenda' = steps
      /\ order' = [cmd |-> name, saved |-> {l \in Loads : pwr_fram[l]}, clean |-> TRUE]
      /\ UNCHANGED <<access, cycle, mux, odd, calm, on, pwr_fram, dropped, struck>>
  BY DEF PWR!Command, PWR!eps, PWR!meter, PWR!sw
<1>2. order' \in Order /\ order'.cmd = name
  BY <1>1 DEF Order
<1>3. PowerTypes'
  BY <1>1, <1>2, PowerParts, PowerTyped, PowerTypedNext
<1>4. RoundInv'
  BY <1>1, PowerParts, RoundIsOf, RoundKeptBy
<1>5. SavedAsSwitched'
  BY <1>1, PowerParts, SavedUnchanged DEF PowerSwitches
<1>6. OrderInv'
  BY <1>2 DEF OrderInv
<1> QED
  BY <1>3, <1>4, <1>5, <1>6 DEF PowerInv

(* The loads of a board that is initialised are off, and known to be. *)
LEMMA OffKept ==
    ASSUME PowerTypes, SavedAsSwitched, NEW K, PWR!Off(K), UNCHANGED <<pwr_fram, struck>>
    PROVE  SavedAsSwitched' /\ on' \in [Loads -> BOOLEAN]
<1>1. /\ on' = [l \in Loads |-> on[l] /\ l \notin K]
      /\ dropped' = dropped \cup {l \in K : on[l]}
  BY DEF PWR!Off
<1>2. on \in [Loads -> BOOLEAN] /\ pwr_fram \in [Loads -> BOOLEAN]
  BY PowerTyped
<1>3. on' \in [Loads -> BOOLEAN]
  BY <1>1
<1>4. ASSUME NEW l \in Loads, l \notin dropped' \cup struck' PROVE on'[l] = pwr_fram'[l]
  <2>1. on[l] = pwr_fram[l]
    BY <1>1, <1>4 DEF SavedAsSwitched, PWR!SavedAsSwitched
  <2>2. on'[l] <=> on[l]
    BY <1>1, <1>4
  <2>3. on[l] \in BOOLEAN /\ on'[l] \in BOOLEAN
    BY <1>2, <1>3
  <2> QED
    BY <2>1, <2>2, <2>3
<1>5. SavedAsSwitched'
  BY <1>4 DEF SavedAsSwitched, PWR!SavedAsSwitched
<1> QED
  BY <1>3, <1>5

LEMMA SelectKept ==
    ASSUME PowerInv, NEW side, PWR!EPS_SELECT(side), order' = PWR!None, pwr_agenda' = pwr_agenda
    PROVE  PowerInv'
<1> DEFINE boards == PWR!Reached(side, broken)
<1>1. /\ access' = boards /\ calm' = [b \in PWR!Boards |-> 0]
      /\ mux' = [b \in PWR!Boards |-> IF b \in boards THEN Home[b] ELSE mux[b]]
      /\ UNCHANGED <<cycle, odd, pwr_fram, struck>>
      /\ PWR!Off(IF "PDU" \in boards THEN PWR!Held ELSE {})
  BY DEF PWR!EPS_SELECT, PWR!All
<1>2. boards \subseteq PWR!Boards
  BY DEF PWR!Reached
<1>3. SavedAsSwitched' /\ on' \in [Loads -> BOOLEAN]
  BY <1>1, PowerParts, OffKept
<1>4. ~order'.clean /\ order' \in Order
  BY DEF PWR!None, Order
<1> HIDE DEF boards
<1>5. PowerTypes'
  <2>1. mux' \in [PWR!Boards -> Nat] /\ calm' \in [PWR!Boards -> Nat]
    BY <1>1, PowerParts, PowerTyped, PowerConstants
  <2> QED
    BY <1>1, <1>2, <1>3, <1>4, <2>1, PowerParts, PowerTyped, PowerTypedNext
<1>6. RoundInv'
  <2>1. ASSUME NEW b \in PWR!Boards
        PROVE  RoundOf(b, cycle'[b], mux'[b], odd'[b], calm'[b])
    <3>1. /\ calm'[b] = 0 /\ cycle'[b] = cycle[b] /\ odd'[b] = odd[b]
          /\ Channels[b] \in Nat \ {0}
      BY <1>1, PowerConstants
    <3>2. cycle[b] <= Channels[b] /\ odd[b] \subseteq 1..Channels[b]
      BY PowerParts, RoundIsOf DEF RoundOf
    <3> QED
      BY <3>1, <3>2 DEF RoundOf
  <2> QED
    BY <2>1, RoundKeptBy
<1> QED
  BY <1>3, <1>4, <1>5, <1>6, OrderVoid DEF PowerInv

LEMMA ResetKept ==
    ASSUME PowerInv, PWR!EPS_RESET, order' = PWR!None, pwr_agenda' = pwr_agenda
    PROVE  PowerInv'
<1>1. /\ UNCHANGED <<access, cycle, mux, odd, calm, pwr_fram, struck>>
      /\ PWR!Off(PWR!Held)
  BY DEF PWR!EPS_RESET, PWR!meter
<1>2. SavedAsSwitched' /\ on' \in [Loads -> BOOLEAN]
  BY <1>1, PowerParts, OffKept
<1>3. ~order'.clean /\ order' \in Order
  BY DEF PWR!None, Order
<1>4. PowerTypes'
  BY <1>1, <1>2, <1>3, PowerParts, PowerTyped, PowerTypedNext
<1>5. RoundInv'
  BY <1>1, PowerParts, RoundIsOf, RoundKeptBy
<1> QED
  BY <1>2, <1>3, <1>4, <1>5, OrderVoid DEF PowerInv

LEMMA FailKept ==
    ASSUME PowerInv, PWR!Fail
    PROVE  PowerInv'
<1>1. /\ order' = [order EXCEPT !.clean = FALSE]
      /\ UNCHANGED <<access, cycle, mux, odd, calm, on, pwr_fram, dropped, struck, pwr_agenda>>
  BY DEF PWR!Fail, PWR!meter, PWR!sw
<1>2. order' \in Order /\ ~order'.clean
  BY <1>1, PowerParts, PowerTyped DEF Order
<1>3. PowerTypes'
  BY <1>1, <1>2, PowerParts, PowerTyped, PowerTypedNext
<1>4. RoundInv'
  BY <1>1, PowerParts, RoundIsOf, RoundKeptBy
<1>5. SavedAsSwitched'
  BY <1>1, PowerParts, SavedUnchanged DEF PowerSwitches
<1> QED
  BY <1>2, <1>3, <1>4, <1>5, OrderVoid DEF PowerInv

(* A restart: the loads that are not latched are off; the round begins anew. *)
LEMMA PowerRestartKept ==
    ASSUME PowerInv, PWR!Restart
    PROVE  PowerInv'
<1>1. PICK boards \in SUBSET PWR!Boards, both \in BOOLEAN :
        /\ access' = boards
        /\ cycle' = [b \in PWR!Boards |-> IF both THEN 1 ELSE 0]
        /\ mux' = [b \in PWR!Boards |-> IF both THEN 1 ELSE Home[b]]
        /\ calm' = [b \in PWR!Boards |-> IF both THEN 1 ELSE 0]
  <2>1. PWR!EPS_init
    BY DEF PWR!Restart
  <2>2. \A side, dead : PWR!Reached(side, dead) \in SUBSET PWR!Boards
    BY DEF PWR!Reached
  <2>3. \A side, dead : (PWR!Reached(side, dead) = PWR!Boards) \in BOOLEAN
    OBVIOUS
  <2> QED
    BY <2>1, <2>2, <2>3 DEF PWR!EPS_init, PWR!All
<1>2. odd' = [b \in PWR!Boards |-> 1..Channels[b]] /\ pwr_agenda' = <<>> /\ order' = PWR!None
  BY DEF PWR!Restart
<1>3. pwr_fram' = pwr_fram
  BY DEF PWR!Restart
<1> DEFINE e == Head(pwr_agenda)
           v == IF e.saved THEN pwr_fram[e.as] ELSE e.value
<1>4. PICK c \in BOOLEAN :
        /\ struck' = IF c THEN struck \cup {e.load} ELSE struck
        /\ on' = [l \in Loads |-> (IF c THEN PWR!Set(on, e.load, v) ELSE on)[l] /\ l \in PWR!Pulsed]
        /\ dropped' = dropped \cup
             {l \in Loads \ PWR!Pulsed : (IF c THEN PWR!Set(on, e.load, v) ELSE on)[l]}
  BY DEF PWR!Restart
<1>5. on \in [Loads -> BOOLEAN] /\ pwr_fram \in [Loads -> BOOLEAN]
  BY PowerParts, PowerTyped
<1> HIDE DEF e, v
<1>6. on' \in [Loads -> BOOLEAN]
  BY <1>4
<1>7. ASSUME NEW l \in Loads, l \notin dropped' \cup struck' PROVE on'[l] = pwr_fram'[l]
  <2> DEFINE was == IF c THEN PWR!Set(on, e.load, v) ELSE on
  <2>1. was[l] = on[l]
    BY <1>4, <1>5, <1>7 DEF PWR!Set
  <2>2. on[l] = pwr_fram[l]
    BY <1>4, <1>7, PowerParts DEF SavedAsSwitched, PWR!SavedAsSwitched
  <2>3. on'[l] <=> was[l] /\ l \in PWR!Pulsed
    BY <1>4
  <2>4. was[l] => l \in PWR!Pulsed
    BY <1>4, <1>7
  <2> HIDE DEF was
  <2>5. on'[l] <=> on[l]
    BY <2>1, <2>3, <2>4
  <2> QED
    BY <1>3, <1>5, <1>6, <2>2, <2>5
<1>8. SavedAsSwitched'
  BY <1>7 DEF SavedAsSwitched, PWR!SavedAsSwitched
<1>9. order' \in Order /\ ~order'.clean
  BY <1>2 DEF PWR!None, Order
<1>10. ASSUME NEW b \in PWR!Boards
       PROVE  RoundOf(b, cycle'[b], mux'[b], odd'[b], calm'[b])
  <2>1. Channels[b] \in Nat \ {0} /\ odd'[b] = 1..Channels[b]
    BY <1>2, PowerConstants
  <2>2. \/ cycle'[b] = 1 /\ mux'[b] = 1 /\ calm'[b] = 1
        \/ cycle'[b] = 0 /\ calm'[b] = 0
    BY <1>1
  <2> QED
    BY <2>1, <2>2 DEF RoundOf, Ago
<1>11. PowerTypes'
  <2>1. /\ cycle' \in [PWR!Boards -> Nat] /\ mux' \in [PWR!Boards -> Nat]
        /\ calm' \in [PWR!Boards -> Nat]
    BY <1>1, PowerConstants
  <2>2. odd' \in [PWR!Boards -> SUBSET Nat]
    BY <1>2, PowerConstants
  <2>3. pwr_agenda' \in Seq(Entry)
    BY <1>2
  <2> QED
    BY <1>1, <1>3, <1>5, <1>6, <1>9, <2>1, <2>2, <2>3, PowerTypedNext
<1> QED
  BY <1>8, <1>9, <1>10, <1>11, RoundKeptBy, OrderVoid DEF PowerInv

LEMMA PowerUnchanged ==
    ASSUME PowerInv, UNCHANGED pwrVars
    PROVE  PowerInv'
<1>1. UNCHANGED <<access, cycle, mux, odd, calm, on, pwr_fram, dropped, struck, pwr_agenda, order>>
  BY DEF pwrVars
<1>2. PowerTypes'
  BY <1>1, PowerParts, PowerTyped, PowerTypedNext
<1>3. RoundInv'
  BY <1>1, PowerParts, RoundIsOf, RoundKeptBy
<1>4. SavedAsSwitched' /\ OrderInv'
  BY <1>1, PowerParts, SavedUnchanged, OrderUnchanged DEF PowerSwitches
<1> QED
  BY <1>2, <1>3, <1>4 DEF PowerInv

LEMMA GroundKept ==
    ASSUME PowerInv, PWR!Ground \/ PWR!FedCommand
    PROVE  PowerInv'
<1>1. ASSUME NEW l \in Loads, NEW v \in BOOLEAN, PWR!Command("switch", PWR!PWR_(l, v))
      PROVE  PowerInv'
  BY <1>1, SwitchAgenda, CommandKept
<1>2. CASE PWR!Command("safe", PWR!PWR_SAFE_OFF)
  <2>1. pwr_agenda' = PWR!PWR_SAFE_OFF
    BY <1>2 DEF PWR!Command
  <2>2. SafeUnderWay' /\ PWR!PWR_SAFE_OFF \in Seq(Entry)
    BY <2>1, SafeBegins
  <2> QED
    BY <1>2, <2>2, CommandKept
<1>3. CASE PWR!Command("reboot", PWR!Cmd_POWER_REBOOT)
  <2>1. /\ pwr_agenda' = PWR!Cmd_POWER_REBOOT /\ pwr_fram' = pwr_fram
        /\ order'.saved = {l \in Loads : pwr_fram[l]}
    BY <1>3 DEF PWR!Command, PWR!sw
  <2>2. RebootUnderWay' /\ PWR!Cmd_POWER_REBOOT \in Seq(Entry)
    BY <2>1, PowerParts, RebootBegins
  <2> QED
    BY <1>3, <2>2, CommandKept
<1>4. CASE /\ PWR!EPS_RESET \/ \E side \in PWR!Sides : PWR!EPS_SELECT(side)
           /\ order' = PWR!None
           /\ UNCHANGED pwr_agenda
  BY <1>4, SelectKept, ResetKept
<1> QED
  BY <1>1, <1>2, <1>3, <1>4 DEF PWR!Ground, PWR!FedCommand

LEMMA PowerAlways == StorageSpec => []PowerInv
<1>1. StorageInit => PowerInv
  BY PWRInit DEF StorageInit
<1>2. PowerInv /\ [StorageNext]_storageVars => PowerInv'
  BY PartSteps, PowerUnchanged, UpdateKept, StepKept, GroundKept, FailKept, PowerRestartKept
  DEF PWR!Next
<1> QED
  BY <1>1, <1>2, PTL DEF StorageSpec

(* What the FRAM says of a load is how it is switched, for all loads of the satellite and      *)
(* however often a write is lost, a board is deaf or the processor restarts                 *)
(* (PDU.cpp, PWR_PDU_SET; FRAM_PWR_manager.cpp).                                       *)
THEOREM SavedSwitches == StorageSpec => []SavedAsSwitched
<1>1. PowerInv => SavedAsSwitched
  BY PowerParts
<1> QED
  BY <1>1, PowerAlways, PTL

(* A value taken at the wrong port of a multiplexer is replaced within a round and a call, for  *)
(* all numbers of quantities (PCU.cpp, PCU_getAnalogTlm; PDU.cpp, PDU_getAnalogTlm).           *)
THEOREM StraysReplaced == StorageSpec => []StraysHeal
<1>1. PowerInv => StraysHeal
  <2> SUFFICES ASSUME PowerInv, NEW b \in PWR!Boards, calm[b] > Channels[b], NEW q \in odd[b]
               PROVE  FALSE
    BY DEF StraysHeal, PWR!StraysHeal
  <2>1. RoundOf(b, cycle[b], mux[b], odd[b], calm[b])
    BY PowerParts, RoundIsOf
  <2>2. Channels[b] \in Nat \ {0} /\ cycle[b] \in Nat /\ calm[b] \in Nat
    BY PowerParts, PowerTyped, PowerConstants
  <2>3. /\ cycle[b] \in 1..Channels[b] /\ q \in 1..Channels[b]
        /\ Ago(q, cycle[b], Channels[b]) >= calm[b]
    BY <2>1, <2>2 DEF RoundOf
  <2>4. Ago(q, cycle[b], Channels[b]) <= Channels[b] /\ Ago(q, cycle[b], Channels[b]) \in Int
    BY <2>2, <2>3, AgoBounds DEF Ago
  <2> QED
    BY <2>2, <2>3, <2>4
<1> QED
  BY <1>1, PowerAlways, PTL

(* A composite command that met no fault has done its work, whatever loads there are and       *)
(* however they were switched and saved (cmd_action_power.cpp, PWR_SAFE_OFF,                 *)
(* Cmd_POWER_REBOOT).                                                                 *)
THEOREM CompositesDone == StorageSpec => []CompositesComplete
<1>1. PowerInv => CompositesComplete
  <2> SUFFICES ASSUME PowerInv, pwr_agenda = <<>>, order.clean
               PROVE  /\ order.cmd = "safe" => PWR!Powered = {"SF"}
                      /\ order.cmd = "reboot" =>
                           {l \in Loads : on[l]} = IF "OVCO" \in order.saved
                                                   THEN order.saved \cup {"MSN5V"}
                                                   ELSE order.saved \ {"MSN5V"}
    BY DEF CompositesComplete, PWR!CompositesComplete, PWR!Idle
  <2>1. /\ on \in [Loads -> BOOLEAN] /\ pwr_fram \in [Loads -> BOOLEAN] /\ order.saved \subseteq Loads
    BY PowerParts, PowerTyped DEF Order
  <2>2. {"MSN5V", "SF", "OVCO"} \subseteq Loads
    BY PowerConstants
  <2>3. ASSUME order.cmd = "safe" PROVE PWR!Powered = {"SF"}
    <3>1. \A l \in Loads \ PWR!Fed : on[l] <=> l = "SF"
      BY <2>3, PowerParts DEF OrderInv, SafeUnderWay
    <3>2. "SF" \notin PWR!Fed /\ "MSN5V" \notin PWR!Fed
      BY DEF PWR!Fed
    <3>3. on["SF"] /\ ~on["MSN5V"]
      BY <2>2, <3>1, <3>2
    <3> QED
      BY <2>2, <3>1, <3>2, <3>3 DEF PWR!Powered
  <2>4. ASSUME order.cmd = "reboot"
        PROVE  {l \in Loads : on[l]} = IF "OVCO" \in order.saved
                                       THEN order.saved \cup {"MSN5V"}
                                       ELSE order.saved \ {"MSN5V"}
    <3>1. \A x : ~Ahead(x)
      BY DEF Ahead
    <3>2. RebootUnderWay
      BY <2>4, PowerParts DEF OrderInv
    <3>3. \A l \in Loads \ {"MSN5V"} : on[l] <=> l \in order.saved
      BY <3>1, <3>2 DEF RebootUnderWay
    <3>4. on["MSN5V"] <=> "OVCO" \in order.saved
      BY <2>1, <2>2, <3>1, <3>2 DEF RebootUnderWay
    <3> QED
      BY <2>1, <2>2, <3>3, <3>4
  <2> QED
    BY <2>3, <2>4
<1> QED
  BY <1>1, PowerAlways, PTL

-------------------------------------------------------------------------------
(* The timeline in the FRAM: what a change of one slot does to the account.          *)

(* Numbers of elements. *)
LEMMA Fewer ==
    ASSUME NEW S, IsFiniteSet(S), NEW T, T \subseteq S
    PROVE  /\ IsFiniteSet(T) /\ Cardinality(T) \in Nat /\ Cardinality(S) \in Nat
           /\ Cardinality(T) <= Cardinality(S)
BY FS_Subset, FS_CardinalityType

LEMMA OneMore ==
    ASSUME NEW S, IsFiniteSet(S), NEW x, NEW T, T \subseteq S \cup {x}
    PROVE  /\ IsFiniteSet(T) /\ Cardinality(T) \in Nat /\ Cardinality(S) \in Nat
           /\ Cardinality(T) <= Cardinality(S) + 1
<1>1. Cardinality(S) \in Nat
  BY FS_CardinalityType
<1>2. /\ IsFiniteSet(S \cup {x})
      /\ Cardinality(S \cup {x}) = IF x \in S THEN Cardinality(S) ELSE Cardinality(S) + 1
  BY FS_AddElement
<1>3. Cardinality(S \cup {x}) <= Cardinality(S) + 1
  BY <1>1, <1>2
<1>4. QED
  BY <1>1, <1>2, <1>3, Fewer

LEMMA OneLess ==
    ASSUME NEW S, IsFiniteSet(S), NEW x \in S, NEW T, T \subseteq S \ {x}
    PROVE  /\ IsFiniteSet(T) /\ Cardinality(T) \in Nat /\ Cardinality(S) \in Nat
           /\ Cardinality(T) + 1 <= Cardinality(S)
<1>1. /\ IsFiniteSet(S \ {x}) /\ Cardinality(S) \in Nat
      /\ Cardinality(S \ {x}) = Cardinality(S) - 1
  BY FS_RemoveElement, FS_CardinalityType
<1>2. QED
  BY <1>1, Fewer

LEMMA SlotsFinite == IsFiniteSet(Slots) /\ \A S : S \subseteq Slots => IsFiniteSet(S)
<1>1. FRAM_TLC_MAX \in Nat
  BY FramAssumption DEF FramAssumption
<1>2. IsFiniteSet(Slots)
  BY <1>1, FS_Interval DEF Slots
<1>3. QED
  BY <1>2, Fewer

LEMMA OccupiedSlots ==
    ASSUME NEW f
    PROVE  Occupied(f) \subseteq Slots
BY DEF Occupied

(* Two FRAMs that differ in one slot at most. *)
Beside(f, g, s) ==
    \A u \in Slots \ {s} : /\ g.hi[u] = f.hi[u] /\ g.lo[u] = f.lo[u]
                           /\ g.head[u] = f.head[u] /\ g.tail[u] = f.tail[u]

LEMMA BesideSlots ==
    ASSUME NEW f, NEW g, NEW s \in Slots, Beside(f, g, s)
    PROVE  /\ \A u \in Slots \ {s} : /\ Time(g, u) = Time(f, u)
                                     /\ Whole(g, u) <=> Whole(f, u)
                                     /\ PendingAt(g, u) <=> PendingAt(f, u)
           /\ Occupied(g) \ {s} = Occupied(f) \ {s}
           /\ HeldBy(g, Occupied(g) \ {s}) = HeldBy(f, Occupied(f) \ {s})
           /\ \A t : AtTime(g, {s}, t) = AtTime(f, {s}, t)
<1>1. ASSUME NEW u \in Slots \ {s}
      PROVE  /\ Time(g, u) = Time(f, u)
             /\ Whole(g, u) <=> Whole(f, u)
             /\ PendingAt(g, u) <=> PendingAt(f, u)
  BY DEF Beside, Time, Whole, PendingAt
<1>2. Occupied(g) \ {s} = Occupied(f) \ {s}
  BY <1>1 DEF Occupied
<1>3. \A t : AtTime(g, {s}, t) = AtTime(f, {s}, t)
  BY <1>1 DEF AtTime
<1>4. HeldBy(g, Occupied(g) \ {s}) = HeldBy(f, Occupied(f) \ {s})
  <2>1. \A u \in Occupied(f) \ {s} : u \in Slots \ {s} /\ g.head[u] = f.head[u]
    BY OccupiedSlots DEF Beside
  <2>2. QED
    BY <1>1, <1>2, <2>1 DEF HeldBy
<1>5. QED
  BY <1>1, <1>2, <1>3, <1>4

(* The parts of it. *)
LEMMA BesidePending ==
    ASSUME NEW f, NEW g, NEW s \in Slots, Beside(f, g, s)
    PROVE  \A u \in Slots \ {s} : PendingAt(g, u) <=> PendingAt(f, u)
BY DEF Beside, Time, Whole, PendingAt

LEMMA BesideTime ==
    ASSUME NEW f, NEW g, NEW s \in Slots, Beside(f, g, s)
    PROVE  \A u \in Slots \ {s} : Time(g, u) = Time(f, u)
BY DEF Beside, Time

LEMMA BesideOccupied ==
    ASSUME NEW f, NEW g, NEW s \in Slots, Beside(f, g, s)
    PROVE  Occupied(g) \ {s} = Occupied(f) \ {s}
BY BesideSlots

LEMMA BesideHeld ==
    ASSUME NEW f, NEW g, NEW s \in Slots, Beside(f, g, s)
    PROVE  HeldBy(g, Occupied(g) \ {s}) = HeldBy(f, Occupied(f) \ {s})
BY BesideSlots

LEMMA BesideAtTime ==
    ASSUME NEW f, NEW g, NEW s \in Slots, Beside(f, g, s)
    PROVE  \A t : AtTime(g, {s}, t) = AtTime(f, {s}, t)
BY BesideSlots

(* What is pending is held outside of a slot, or pending in it.                      *)
LEMMA PendingSplit ==
    ASSUME NEW f, NEW s
    PROVE  /\ Pending(f) \subseteq HeldBy(f, Occupied(f) \ {s}) \cup Here(f, s)
           /\ s \in Slots => Here(f, s) \subseteq Pending(f)
           /\ Held(f) = HeldBy(f, Occupied(f))
           /\ HeldBy(f, Occupied(f) \ {s}) \subseteq Held(f)
           /\ \A u \in Slots : PendingAt(f, u) => u \in Occupied(f) /\ f.head[u] \in Pending(f)
<1>1. \A u : u \in Occupied(f) <=> u \in Slots /\ Time(f, u) # 0
  BY DEF Occupied
<1>2. \A u \in Slots : PendingAt(f, u) => u \in Occupied(f) /\ f.head[u] \in Pending(f)
  BY <1>1 DEF PendingAt, Pending
<1>3. s \in Slots => Here(f, s) \subseteq Pending(f)
  BY <1>2 DEF Here
<1>4. ASSUME NEW p \in Pending(f), p \notin HeldBy(f, Occupied(f) \ {s})
      PROVE  p \in Here(f, s)
  <2>1. PICK u \in Occupied(f) : /\ Whole(f, u) /\ f.head[u].time = Time(f, u)
                                 /\ p = f.head[u]
    BY DEF Pending
  <2>2. u = s
    BY <1>4, <2>1 DEF HeldBy
  <2>3. QED
    BY <1>1, <2>1, <2>2 DEF Here, PendingAt
<1>5. QED
  BY <1>2, <1>3, <1>4 DEF Held, HeldBy

(* Both sets whose elements are the damage are finite. *)
LEMMA DamageFinite ==
    ASSUME NEW f, NEW o, IsFiniteSet(o), NEW B, NEW here, NEW G
    PROVE  /\ IsFiniteSet(Gone(f, o, B, here)) /\ Cardinality(Gone(f, o, B, here)) \in Nat
           /\ IsFiniteSet((Occupied(f) \ B) \ G) /\ Cardinality((Occupied(f) \ B) \ G) \in Nat
           /\ Damage(f, o, B, here, G) \in Nat
<1>1. IsFiniteSet(Gone(f, o, B, here)) /\ IsFiniteSet((Occupied(f) \ B) \ G)
  BY Fewer, SlotsFinite, OccupiedSlots DEF Gone
<1>2. QED
  BY <1>1, FS_CardinalityType DEF Damage

LEMMA DamageLess ==
    ASSUME NEW f, NEW o, IsFiniteSet(o), NEW B, NEW here, NEW G,
           NEW g, NEW q, NEW C, NEW there, NEW H,
           Gone(g, q, C, there) \subseteq Gone(f, o, B, here),
           (Occupied(g) \ C) \ H \subseteq (Occupied(f) \ B) \ G
    PROVE  /\ Damage(g, q, C, there, H) \in Nat /\ Damage(f, o, B, here, G) \in Nat
           /\ Damage(g, q, C, there, H) <= Damage(f, o, B, here, G)
<1>1. /\ IsFiniteSet(Gone(f, o, B, here)) /\ IsFiniteSet((Occupied(f) \ B) \ G)
      /\ Damage(f, o, B, here, G) \in Nat
  BY DamageFinite
<1>2. /\ Cardinality(Gone(g, q, C, there)) \in Nat /\ Cardinality(Gone(f, o, B, here)) \in Nat
      /\ Cardinality(Gone(g, q, C, there)) <= Cardinality(Gone(f, o, B, here))
  BY <1>1, Fewer
<1>3. /\ Cardinality((Occupied(g) \ C) \ H) \in Nat /\ Cardinality((Occupied(f) \ B) \ G) \in Nat
      /\ Cardinality((Occupied(g) \ C) \ H) <= Cardinality((Occupied(f) \ B) \ G)
  BY <1>1, Fewer
<1>4. QED
  BY <1>2, <1>3 DEF Damage

(* One packet or one slot more is damage of one more. *)
LEMMA DamageOneMore ==
    ASSUME NEW f, NEW o, IsFiniteSet(o), NEW B, NEW here, NEW G,
           NEW g, NEW q, NEW C, NEW there, NEW H, NEW x,
           \/ /\ Gone(g, q, C, there) \subseteq Gone(f, o, B, here)
              /\ (Occupied(g) \ C) \ H \subseteq ((Occupied(f) \ B) \ G) \cup {x}
           \/ /\ Gone(g, q, C, there) \subseteq Gone(f, o, B, here) \cup {x}
              /\ (Occupied(g) \ C) \ H \subseteq (Occupied(f) \ B) \ G
    PROVE  /\ Damage(g, q, C, there, H) \in Nat /\ Damage(f, o, B, here, G) \in Nat
           /\ Damage(g, q, C, there, H) <= Damage(f, o, B, here, G) + 1
<1>1. /\ IsFiniteSet(Gone(f, o, B, here)) /\ IsFiniteSet((Occupied(f) \ B) \ G)
      /\ Cardinality(Gone(f, o, B, here)) \in Nat /\ Cardinality((Occupied(f) \ B) \ G) \in Nat
  BY DamageFinite
<1>2. CASE /\ Gone(g, q, C, there) \subseteq Gone(f, o, B, here)
           /\ (Occupied(g) \ C) \ H \subseteq ((Occupied(f) \ B) \ G) \cup {x}
  <2>1. /\ Cardinality(Gone(g, q, C, there)) \in Nat
        /\ Cardinality(Gone(g, q, C, there)) <= Cardinality(Gone(f, o, B, here))
    BY <1>1, <1>2, Fewer
  <2>2. /\ Cardinality((Occupied(g) \ C) \ H) \in Nat
        /\ Cardinality((Occupied(g) \ C) \ H) <= Cardinality((Occupied(f) \ B) \ G) + 1
    BY <1>1, <1>2, OneMore
  <2>3. QED
    BY <1>1, <2>1, <2>2 DEF Damage
<1>3. CASE /\ Gone(g, q, C, there) \subseteq Gone(f, o, B, here) \cup {x}
           /\ (Occupied(g) \ C) \ H \subseteq (Occupied(f) \ B) \ G
  <2>1. /\ Cardinality(Gone(g, q, C, there)) \in Nat
        /\ Cardinality(Gone(g, q, C, there)) <= Cardinality(Gone(f, o, B, here)) + 1
    BY <1>1, <1>3, OneMore
  <2>2. /\ Cardinality((Occupied(g) \ C) \ H) \in Nat
        /\ Cardinality((Occupied(g) \ C) \ H) <= Cardinality((Occupied(f) \ B) \ G)
    BY <1>1, <1>3, Fewer
  <2>3. QED
    BY <1>1, <2>1, <2>2 DEF Damage
<1>4. QED
  BY <1>2, <1>3

(* A write of a handler, which follows what is owed, does no damage outside of its slot.    *)
LEMMA WriteAccounts ==
    ASSUME NEW f, NEW g, NEW s \in Slots, Beside(f, g, s), NEW o, IsFiniteSet(o), NEW n,
           NEW q, q = (o \ (Pending(f) \ Pending(g))) \cup (Pending(g) \ Pending(f)),
           n \in Int, Accounts(f, o, {s}, Here(f, s), n)
    PROVE  Accounts(g, q, {s}, Here(g, s), n)
<1>1. PICK G \in SUBSET (Occupied(f) \ {s}) :
        Sound(f, o, G) /\ Damage(f, o, {s}, Here(f, s), G) <= n
  BY DEF Accounts
<1>2. G \in SUBSET (Occupied(g) \ {s}) /\ G \subseteq Slots \ {s}
  BY <1>1, BesideOccupied, OccupiedSlots
<1>3. ASSUME NEW u \in G
      PROVE  PendingAt(g, u) /\ g.head[u] = f.head[u] /\ g.head[u] \in q
  <2>1. PendingAt(f, u) /\ f.head[u] \in o /\ u \in Slots \ {s}
    BY <1>1, <1>2 DEF Sound
  <2>2. PendingAt(g, u) /\ g.head[u] = f.head[u]
    BY <2>1, BesideSlots DEF Beside
  <2>3. g.head[u] \in Pending(g)
    BY <2>1, <2>2, PendingSplit
  <2>4. QED
    BY <2>1, <2>2, <2>3
<1>4. Sound(g, q, G)
  BY <1>1, <1>3 DEF Sound
<1>5. Gone(g, q, {s}, Here(g, s)) \subseteq Gone(f, o, {s}, Here(f, s))
  <2> SUFFICES ASSUME NEW p \in q, p \notin HeldBy(g, Occupied(g) \ {s}), p \notin Here(g, s)
               PROVE  /\ p \in o /\ p \notin HeldBy(f, Occupied(f) \ {s})
                      /\ p \notin Here(f, s)
    BY DEF Gone
  <2>1. p \notin Pending(g)
    BY PendingSplit
  <2>2. p \in o /\ p \notin Pending(f)
    BY <2>1
  <2>3. p \notin HeldBy(f, Occupied(f) \ {s})
    BY BesideHeld
  <2>4. Here(f, s) \subseteq Pending(f)
    BY PendingSplit
  <2>5. QED
    BY <2>2, <2>3, <2>4
<1>6. (Occupied(g) \ {s}) \ G \subseteq (Occupied(f) \ {s}) \ G
  BY BesideSlots
<1>7. /\ Damage(g, q, {s}, Here(g, s), G) \in Nat /\ Damage(f, o, {s}, Here(f, s), G) \in Nat
      /\ Damage(g, q, {s}, Here(g, s), G) <= Damage(f, o, {s}, Here(f, s), G)
  BY <1>5, <1>6, DamageLess
<1>8. Damage(g, q, {s}, Here(g, s), G) <= n
  BY <1>1, <1>7
<1>9. QED
  BY <1>2, <1>4, <1>8 DEF Accounts

(* A slot may be left out: it takes what was its damage with it. *)
LEMMA Exclude ==
    ASSUME NEW f, NEW s \in Slots, NEW o, IsFiniteSet(o), NEW n \in Int,
           Accounts(f, o, {}, {}, n)
    PROVE  Accounts(f, o, {s}, Here(f, s), n)
<1>1. PICK G \in SUBSET (Occupied(f) \ {}) : Sound(f, o, G) /\ Damage(f, o, {}, {}, G) <= n
  BY DEF Accounts
<1> DEFINE H == G \ {s}
<1>2. H \in SUBSET (Occupied(f) \ {s}) /\ Sound(f, o, H)
  BY <1>1 DEF Sound
<1>3. Damage(f, o, {s}, Here(f, s), H) <= Damage(f, o, {}, {}, G) /\ Damage(f, o, {s}, Here(f, s), H) \in Nat
      /\ Damage(f, o, {}, {}, G) \in Nat
  <2>1. (Occupied(f) \ {s}) \ H \subseteq (Occupied(f) \ {}) \ G
    OBVIOUS
  <2>2. \A p \in HeldBy(f, Occupied(f) \ {}) :
          p \in HeldBy(f, Occupied(f) \ {s}) \/ (p = f.head[s] /\ s \in Occupied(f) /\ Whole(f, s))
    BY DEF HeldBy
  <2>3. CASE s \in Occupied(f) /\ ~PendingAt(f, s)
    <3>1. s \notin G
      BY <1>1, <2>3 DEF Sound
    <3>2. (Occupied(f) \ {s}) \ H \subseteq ((Occupied(f) \ {}) \ G) \ {s}
      OBVIOUS
    <3>3. Gone(f, o, {s}, Here(f, s)) \subseteq Gone(f, o, {}, {}) \cup {f.head[s]}
      BY <2>2 DEF Gone
    <3>4. /\ IsFiniteSet(Gone(f, o, {}, {})) /\ IsFiniteSet((Occupied(f) \ {}) \ G)
          /\ s \in (Occupied(f) \ {}) \ G
      BY <3>1, <2>3, DamageFinite
    <3>5. /\ Cardinality((Occupied(f) \ {s}) \ H) \in Nat /\ Cardinality((Occupied(f) \ {}) \ G) \in Nat
          /\ Cardinality((Occupied(f) \ {s}) \ H) + 1 <= Cardinality((Occupied(f) \ {}) \ G)
      BY <3>2, <3>4, OneLess
    <3>6. /\ Cardinality(Gone(f, o, {s}, Here(f, s))) \in Nat /\ Cardinality(Gone(f, o, {}, {})) \in Nat
          /\ Cardinality(Gone(f, o, {s}, Here(f, s))) <= Cardinality(Gone(f, o, {}, {})) + 1
      BY <3>3, <3>4, OneMore
    <3>7. QED
      BY <3>5, <3>6 DEF Damage
  <2>4. CASE s \notin Occupied(f) \/ PendingAt(f, s)
    <3>1. Gone(f, o, {s}, Here(f, s)) \subseteq Gone(f, o, {}, {})
      BY <2>2, <2>4 DEF Gone, Here
    <3>2. QED
      BY <2>1, <3>1, DamageLess
  <2>5. QED
    BY <2>3, <2>4
<1>4. Damage(f, o, {s}, Here(f, s), H) <= n
  BY <1>1, <1>3
<1>5. QED
  BY <1>2, <1>4 DEF Accounts

(* A slot that is taken in again is free, or pends what is owed and alone at its time.       *)
LEMMA IncludeFree ==
    ASSUME NEW f, NEW s \in Slots, NEW o, NEW n, NEW here,
           Time(f, s) = 0, Accounts(f, o, {s}, Here(f, s), n)
    PROVE  Accounts(f, o, {}, {}, n)
<1>1. Occupied(f) \ {s} = Occupied(f) \ {}
  BY DEF Occupied
<1>2. Here(f, s) = {}
  BY DEF Here, PendingAt
<1>3. QED
  BY <1>1, <1>2 DEF Accounts, Damage, Gone

LEMMA IncludePending ==
    ASSUME NEW f, NEW s \in Slots, NEW o, IsFiniteSet(o), NEW n \in Int,
           PendingAt(f, s), f.head[s] \in o,
           \A u \in Slots \ {s} : Time(f, u) # Time(f, s),
           Accounts(f, o, {s}, Here(f, s), n)
    PROVE  Accounts(f, o, {}, {}, n)
<1>1. PICK G \in SUBSET (Occupied(f) \ {s}) :
        Sound(f, o, G) /\ Damage(f, o, {s}, Here(f, s), G) <= n
  BY DEF Accounts
<1> DEFINE H == G \cup {s}
<1>2. s \in Occupied(f) /\ f.head[s] \in Pending(f) /\ H \in SUBSET (Occupied(f) \ {})
  BY <1>1, PendingSplit
<1>3. \A u \in G : f.head[u] # f.head[s]
  <2>1. \A u \in G : PendingAt(f, u) /\ u \in Slots \ {s}
    BY <1>1, OccupiedSlots DEF Sound
  <2>2. QED
    BY <2>1 DEF PendingAt
<1>4. Sound(f, o, H)
  BY <1>1, <1>3 DEF Sound
<1>5. Gone(f, o, {}, {}) \subseteq Gone(f, o, {s}, Here(f, s))
  <2>1. Here(f, s) \subseteq HeldBy(f, Occupied(f) \ {})
    BY <1>2 DEF Here, HeldBy, PendingAt
  <2>2. HeldBy(f, Occupied(f) \ {s}) \subseteq HeldBy(f, Occupied(f) \ {})
    BY DEF HeldBy
  <2>3. QED
    BY <2>1, <2>2 DEF Gone
<1>6. (Occupied(f) \ {}) \ H \subseteq (Occupied(f) \ {s}) \ G
  OBVIOUS
<1>7. /\ Damage(f, o, {}, {}, H) \in Nat /\ Damage(f, o, {s}, Here(f, s), G) \in Nat
      /\ Damage(f, o, {}, {}, H) <= Damage(f, o, {s}, Here(f, s), G)
  BY <1>5, <1>6, DamageLess
<1>8. Damage(f, o, {}, {}, H) <= n
  BY <1>1, <1>7
<1>9. QED
  BY <1>2, <1>4, <1>8 DEF Accounts

(* The power fails in a handler: at most its slot, or the packet it took from it, is lost.    *)
LEMMA Interrupted ==
    ASSUME NEW f, NEW s \in Slots, NEW o, IsFiniteSet(o), NEW n \in Int, NEW here, NEW p,
           here \subseteq {p}, s \in Occupied(f) => here \subseteq Held(f),
           NEW G \in SUBSET (Occupied(f) \ {s}), Sound(f, o, G),
           Damage(f, o, {s}, here, G) <= n
    PROVE  Accounts(f, o, {}, {}, n + 1)
<1>1. HeldBy(f, Occupied(f) \ {s}) \subseteq HeldBy(f, Occupied(f) \ {})
  BY DEF HeldBy
<1>2. /\ Damage(f, o, {}, {}, G) \in Nat /\ Damage(f, o, {s}, here, G) \in Nat
      /\ Damage(f, o, {}, {}, G) <= Damage(f, o, {s}, here, G) + 1
  <2>1. CASE s \in Occupied(f)
    <3>1. Gone(f, o, {}, {}) \subseteq Gone(f, o, {s}, here)
      BY <2>1, <1>1 DEF Gone, Held, HeldBy
    <3>2. (Occupied(f) \ {}) \ G \subseteq ((Occupied(f) \ {s}) \ G) \cup {s}
      OBVIOUS
    <3>3. QED
      BY <3>1, <3>2, DamageOneMore
  <2>2. CASE s \notin Occupied(f)
    <3>1. Occupied(f) \ {} = Occupied(f) \ {s}
      BY <2>2
    <3>2. Gone(f, o, {}, {}) \subseteq Gone(f, o, {s}, here) \cup {p}
      BY <3>1 DEF Gone
    <3>3. QED
      BY <3>1, <3>2, DamageOneMore
  <2>3. QED
    BY <2>1, <2>2
<1>3. Damage(f, o, {}, {}, G) <= n + 1 /\ G \in SUBSET (Occupied(f) \ {})
  BY <1>2
<1>4. QED
  BY <1>3 DEF Accounts

LEMMA WriteInterrupted ==
    ASSUME NEW f, NEW s \in Slots, NEW o, IsFiniteSet(o), NEW n \in Int,
           Accounts(f, o, {s}, Here(f, s), n)
    PROVE  Accounts(f, o, {}, {}, n + 1)
<1>1. PICK G \in SUBSET (Occupied(f) \ {s}) :
        Sound(f, o, G) /\ Damage(f, o, {s}, Here(f, s), G) <= n
  BY DEF Accounts
<1>2. Here(f, s) \subseteq {f.head[s]}
  BY DEF Here
<1>3. s \in Occupied(f) => Here(f, s) \subseteq Held(f)
  BY DEF Here, Held, PendingAt
<1>4. QED
  BY <1>1, <1>2, <1>3, Interrupted

(* What is lost is damage. *)
LEMMA LostIsDamage ==
    ASSUME NEW f, NEW o, IsFiniteSet(o), NEW B, NEW here, NEW G, NEW n \in Int, NEW more,
           here \subseteq Held(f) \cup more, Damage(f, o, B, here, G) <= n
    PROVE  /\ Cardinality(o \ (Held(f) \cup more)) \in Nat
           /\ Cardinality(o \ (Held(f) \cup more)) <= n
<1>1. HeldBy(f, Occupied(f) \ B) \subseteq Held(f)
  BY DEF HeldBy, Held
<1>2. o \ (Held(f) \cup more) \subseteq Gone(f, o, B, here)
  BY <1>1 DEF Gone
<1>3. /\ IsFiniteSet(Gone(f, o, B, here)) /\ Cardinality((Occupied(f) \ B) \ G) \in Nat
  BY DamageFinite
<1>4. /\ Cardinality(o \ (Held(f) \cup more)) \in Nat /\ Cardinality(Gone(f, o, B, here)) \in Nat
      /\ Cardinality(o \ (Held(f) \cup more)) <= Cardinality(Gone(f, o, B, here))
  BY <1>2, <1>3, Fewer
<1>5. QED
  BY <1>3, <1>4 DEF Damage

(* The execution of a packet whose slot is free: it is owed no more, or it was strange and       *)
(* stays owed where a slot holds it.                                              *)
LEMMA ExecutesOwed ==
    ASSUME NEW f, NEW s \in Slots, Time(f, s) = 0, NEW o, IsFiniteSet(o), NEW n \in Int,
           NEW p, NEW here, here \subseteq {p},
           NEW G \in SUBSET (Occupied(f) \ {s}), Sound(f, o, G),
           \/ Damage(f, o, {s}, here, G) + 1 <= n
           \/ Damage(f, o, {s}, here, G) <= n /\ \A u \in G : f.head[u] # p
    PROVE  Accounts(f, o \ {p}, {}, {}, n)
<1>1. Occupied(f) \ {} = Occupied(f) \ {s}
  BY DEF Occupied
<1>2. Gone(f, o \ {p}, {}, {}) \subseteq Gone(f, o, {s}, here)
  BY <1>1 DEF Gone
<1> DEFINE H == {u \in G : f.head[u] # p}
<1>3. Sound(f, o \ {p}, H) /\ H \in SUBSET (Occupied(f) \ {})
  BY DEF Sound
<1>4. Damage(f, o \ {p}, {}, {}, H) <= n
  <2>1. CASE \A u \in G : f.head[u] # p
    <3>1. H = G
      BY <2>1
    <3>2. /\ Damage(f, o \ {p}, {}, {}, H) \in Nat /\ Damage(f, o, {s}, here, G) \in Nat
          /\ Damage(f, o \ {p}, {}, {}, H) <= Damage(f, o, {s}, here, G)
      BY <1>1, <1>2, <3>1, DamageLess
    <3>3. QED
      BY <3>2
  <2>2. CASE \E u \in G : f.head[u] = p
    <3>1. PICK u \in G : f.head[u] = p
      BY <2>2
    <3>2. \A v \in G : f.head[v] = p => v = u
      BY <3>1 DEF Sound
    <3>3. (Occupied(f) \ {}) \ H \subseteq ((Occupied(f) \ {s}) \ G) \cup {u}
      BY <1>1, <3>2
    <3>4. /\ Damage(f, o \ {p}, {}, {}, H) \in Nat /\ Damage(f, o, {s}, here, G) \in Nat
          /\ Damage(f, o \ {p}, {}, {}, H) <= Damage(f, o, {s}, here, G) + 1
      BY <1>2, <3>3, DamageOneMore
    <3>5. QED
      BY <3>1, <3>4
  <2>3. QED
    BY <2>1, <2>2
<1>5. QED
  BY <1>3, <1>4 DEF Accounts

LEMMA ExecutesStrange ==
    ASSUME NEW f, NEW s \in Slots, Time(f, s) = 0, NEW o, IsFiniteSet(o), NEW n \in Int,
           NEW p, NEW here, NEW q,
           \/ q = o /\ here \subseteq Held(f)
           \/ q = o \ {p} /\ here \subseteq {p} /\ p \notin Held(f),
           NEW G \in SUBSET (Occupied(f) \ {s}), Sound(f, o, G),
           Damage(f, o, {s}, here, G) <= n
    PROVE  Accounts(f, q, {}, {}, n)
<1>1. Occupied(f) \ {} = Occupied(f) \ {s} /\ Held(f) = HeldBy(f, Occupied(f) \ {})
  BY DEF Occupied, Held, HeldBy
<1>2. Gone(f, q, {}, {}) \subseteq Gone(f, o, {s}, here)
  BY <1>1 DEF Gone
<1>3. Sound(f, q, G) /\ G \in SUBSET (Occupied(f) \ {})
  <2>1. \A u \in G : f.head[u] \in Held(f)
    BY DEF Sound, PendingAt, Held
  <2>2. QED
    BY <2>1 DEF Sound
<1>4. /\ Damage(f, q, {}, {}, G) \in Nat /\ Damage(f, o, {s}, here, G) \in Nat
      /\ Damage(f, q, {}, {}, G) <= Damage(f, o, {s}, here, G)
  BY <1>1, <1>2, DamageLess
<1>5. QED
  BY <1>3, <1>4 DEF Accounts

-------------------------------------------------------------------------------
(* The slots of a time. *)

LEMMA AtTimeSlots ==
    ASSUME NEW f, NEW B, NEW t
    PROVE  IsFiniteSet(AtTime(f, B, t)) /\ Cardinality(AtTime(f, B, t)) \in Nat
<1>1. AtTime(f, B, t) \subseteq Slots
  BY DEF AtTime
<1>2. QED
  BY <1>1, SlotsFinite, FS_CardinalityType

LEMMA AtTimeExcept ==
    ASSUME NEW f, NEW s \in Slots, NEW t
    PROVE  /\ AtTime(f, {s}, t) = AtTime(f, {}, t) \ {s}
           /\ Cardinality(AtTime(f, {s}, t)) \in Nat /\ Cardinality(AtTime(f, {}, t)) \in Nat
           /\ Cardinality(AtTime(f, {s}, t)) <= Cardinality(AtTime(f, {}, t))
           /\ Time(f, s) # t => AtTime(f, {s}, t) = AtTime(f, {}, t)
           /\ Time(f, s) = t =>
                Cardinality(AtTime(f, {s}, t)) + 1 = Cardinality(AtTime(f, {}, t))
<1>1. AtTime(f, {s}, t) = AtTime(f, {}, t) \ {s}
  BY DEF AtTime
<1>2. s \in AtTime(f, {}, t) <=> Time(f, s) = t
  BY DEF AtTime
<1>3. IsFiniteSet(AtTime(f, {}, t)) /\ Cardinality(AtTime(f, {}, t)) \in Nat
  BY AtTimeSlots
<1>4. Cardinality(AtTime(f, {s}, t)) = IF s \in AtTime(f, {}, t)
                                       THEN Cardinality(AtTime(f, {}, t)) - 1
                                       ELSE Cardinality(AtTime(f, {}, t))
  BY <1>1, <1>3, FS_RemoveElement
<1>5. Cardinality(AtTime(f, {s}, t)) \in Nat
  BY AtTimeSlots
<1>6. Time(f, s) # t => AtTime(f, {s}, t) = AtTime(f, {}, t)
  BY <1>1, <1>2
<1>7. Time(f, s) = t =>
        Cardinality(AtTime(f, {s}, t)) + 1 = Cardinality(AtTime(f, {}, t))
  BY <1>2, <1>3, <1>4
<1>8. Cardinality(AtTime(f, {s}, t)) <= Cardinality(AtTime(f, {}, t))
  BY <1>3, <1>4
<1>9. QED
  BY <1>1, <1>3, <1>5, <1>6, <1>7, <1>8

LEMMA AtTimeLess ==
    ASSUME NEW f, NEW s \in Slots, NEW t
    PROVE  /\ AtTime(f, {s}, t) = AtTime(f, {}, t) \ {s}
           /\ Cardinality(AtTime(f, {s}, t)) <= Cardinality(AtTime(f, {}, t))
<1>1. AtTime(f, {s}, t) = AtTime(f, {}, t) \ {s}
  BY DEF AtTime
<1>2. AtTime(f, {s}, t) \subseteq AtTime(f, {}, t)
  BY <1>1
<1>3. IsFiniteSet(AtTime(f, {}, t))
  BY AtTimeSlots
<1>4. QED
  BY <1>1, <1>2, <1>3, Fewer

LEMMA AlikeExcept ==
    ASSUME NEW f, NEW s \in Slots, NEW n \in Nat
    PROVE  /\ Alike(f, {}, n) => Alike(f, {s}, n)
           /\ Alike(f, {s}, n) => Alike(f, {}, n + 1)
           /\ Alike(f, {s}, n) /\ Time(f, s) = 0 => Alike(f, {}, n)
           /\ Alike(f, {s}, n) /\ (\A u \in Slots \ {s} : Time(f, u) # Time(f, s)) => Alike(f, {}, n)
<1>1. \A t \in Nat \ {0} :
        /\ Cardinality(AtTime(f, {s}, t)) \in Nat /\ Cardinality(AtTime(f, {}, t)) \in Nat
        /\ Cardinality(AtTime(f, {s}, t)) <= Cardinality(AtTime(f, {}, t))
        /\ Cardinality(AtTime(f, {}, t)) <= Cardinality(AtTime(f, {s}, t)) + 1
        /\ Time(f, s) # t => Cardinality(AtTime(f, {s}, t)) = Cardinality(AtTime(f, {}, t))
  <2> SUFFICES ASSUME NEW t \in Nat \ {0}
               PROVE  /\ Cardinality(AtTime(f, {s}, t)) \in Nat
                      /\ Cardinality(AtTime(f, {}, t)) \in Nat
                      /\ Cardinality(AtTime(f, {s}, t)) <= Cardinality(AtTime(f, {}, t))
                      /\ Cardinality(AtTime(f, {}, t)) <= Cardinality(AtTime(f, {s}, t)) + 1
                      /\ Time(f, s) # t =>
                           Cardinality(AtTime(f, {s}, t)) = Cardinality(AtTime(f, {}, t))
    OBVIOUS
  <2>1. CASE Time(f, s) = t
    BY <2>1, AtTimeExcept
  <2>2. CASE Time(f, s) # t
    <3>1. AtTime(f, {s}, t) = AtTime(f, {}, t)
      BY <2>2 DEF AtTime
    <3>2. QED
      BY <2>2, <3>1, AtTimeSlots
  <2>3. QED
    BY <2>1, <2>2
<1>2. ASSUME \A u \in Slots \ {s} : Time(f, u) # Time(f, s), Time(f, s) \in Nat \ {0}
      PROVE  Cardinality(AtTime(f, {}, Time(f, s))) = 1
  <2>1. AtTime(f, {s}, Time(f, s)) = {}
    BY <1>2 DEF AtTime
  <2>2. Cardinality(AtTime(f, {s}, Time(f, s))) = 0
    BY <2>1, FS_EmptySet
  <2>3. QED
    BY <2>2, AtTimeExcept
<1>3. Alike(f, {}, n) => Alike(f, {s}, n)
  <2> SUFFICES ASSUME Alike(f, {}, n), NEW t \in Nat \ {0}
               PROVE  Cardinality(AtTime(f, {s}, t)) <= n + 1
    BY DEF Alike
  <2>1. Cardinality(AtTime(f, {}, t)) <= n + 1
    BY DEF Alike
  <2>2. QED
    BY <1>1, <2>1
<1> SUFFICES ASSUME Alike(f, {s}, n)
             PROVE  /\ Alike(f, {}, n + 1)
                    /\ Time(f, s) = 0 => Alike(f, {}, n)
                    /\ (\A u \in Slots \ {s} : Time(f, u) # Time(f, s)) => Alike(f, {}, n)
  BY <1>3
<1>4. \A t \in Nat \ {0} : Cardinality(AtTime(f, {s}, t)) <= n + 1
  BY DEF Alike
<1>5. Alike(f, {}, n + 1)
  <2> SUFFICES ASSUME NEW t \in Nat \ {0}
               PROVE  Cardinality(AtTime(f, {}, t)) <= (n + 1) + 1
    BY DEF Alike
  <2>1. /\ Cardinality(AtTime(f, {s}, t)) \in Nat /\ Cardinality(AtTime(f, {}, t)) \in Nat
        /\ Cardinality(AtTime(f, {}, t)) <= Cardinality(AtTime(f, {s}, t)) + 1
    BY <1>1
  <2>2. Cardinality(AtTime(f, {s}, t)) <= n + 1
    BY <1>4
  <2>3. QED
    BY <2>1, <2>2
<1>6. Time(f, s) = 0 => Alike(f, {}, n)
  BY <1>1, <1>4 DEF Alike
<1>7. (\A u \in Slots \ {s} : Time(f, u) # Time(f, s)) => Alike(f, {}, n)
  <2> SUFFICES ASSUME \A u \in Slots \ {s} : Time(f, u) # Time(f, s), NEW t \in Nat \ {0}
               PROVE  Cardinality(AtTime(f, {}, t)) <= n + 1
    BY DEF Alike
  <2>1. CASE Time(f, s) = t
    BY <1>2, <2>1
  <2>2. CASE Time(f, s) # t
    BY <1>1, <1>4, <2>2
  <2>3. QED
    BY <2>1, <2>2
<1>8. QED
  BY <1>5, <1>6, <1>7

LEMMA AlikeBeside ==
    ASSUME NEW f, NEW g, NEW s \in Slots, Beside(f, g, s), NEW n
    PROVE  Alike(g, {s}, n) <=> Alike(f, {s}, n)
<1>1. \A t : AtTime(g, {s}, t) = AtTime(f, {s}, t)
  BY BesideSlots
<1>2. QED
  BY <1>1 DEF Alike

LEMMA TimeNat ==
    ASSUME NEW f \in FRAM, NEW s \in Slots
    PROVE  Time(f, s) \in Nat /\ f.hi[s] \in Nat /\ f.lo[s] \in Nat
<1>1. f.hi[s] \in Nat /\ f.lo[s] \in Nat
  BY DEF FRAM
<1>2. Base \in Nat
  BY FramAssumption DEF FramAssumption
<1> HIDE DEF FRAM
<1>3. f.hi[s] * Base \in Nat
  BY <1>1, <1>2
<1>4. QED
  BY <1>1, <1>3 DEF Time

(* The four writes. *)
Written(f, w) == [f EXCEPT ![w.field][w.slot] = w.value]

LEMMA WriteHi ==
    ASSUME NEW f \in FRAM, NEW s \in Slots, NEW v \in Nat, NEW w, w = Bytes("hi", s, v),
           NEW g, g = Written(f, w)
    PROVE  /\ g \in FRAM /\ Beside(f, g, s)
           /\ g.hi[s] = v /\ g.lo[s] = f.lo[s] /\ g.head[s] = f.head[s] /\ g.tail[s] = f.tail[s]
BY DEF Written, Bytes, FRAM, Beside

LEMMA WriteLo ==
    ASSUME NEW f \in FRAM, NEW s \in Slots, NEW v \in Nat, NEW w, w = Bytes("lo", s, v),
           NEW g, g = Written(f, w)
    PROVE  /\ g \in FRAM /\ Beside(f, g, s)
           /\ g.hi[s] = f.hi[s] /\ g.lo[s] = v /\ g.head[s] = f.head[s] /\ g.tail[s] = f.tail[s]
BY DEF Written, Bytes, FRAM, Beside

LEMMA WriteHead ==
    ASSUME NEW f \in FRAM, NEW s \in Slots, NEW v \in Packets, NEW w, w = Bytes("head", s, v),
           NEW g, g = Written(f, w)
    PROVE  /\ g \in FRAM /\ Beside(f, g, s)
           /\ g.hi[s] = f.hi[s] /\ g.lo[s] = f.lo[s] /\ g.head[s] = v /\ g.tail[s] = f.tail[s]
BY DEF Written, Bytes, FRAM, Beside

LEMMA WriteTail ==
    ASSUME NEW f \in FRAM, NEW s \in Slots, NEW v \in Commands, NEW w, w = Bytes("tail", s, v),
           NEW g, g = Written(f, w)
    PROVE  /\ g \in FRAM /\ Beside(f, g, s)
           /\ g.hi[s] = f.hi[s] /\ g.lo[s] = f.lo[s] /\ g.head[s] = f.head[s] /\ g.tail[s] = v
BY DEF Written, Bytes, FRAM, Beside

-------------------------------------------------------------------------------
(* Punctuality. *)

LEMMA TimelineNumbers ==
    ASSUME TimelineTypes
    PROVE  /\ utime \in Nat /\ looks \in Nat /\ cuts \in Nat /\ strange \in Nat
           /\ cuts - strange \in Int /\ steady \in BOOLEAN /\ IsFiniteSet(owed)
           /\ Calls \in Nat \ {0} /\ looks <= Calls /\ fram \in FRAM
           /\ \A B, t : Cardinality(AtTime(fram, B, t)) \in Nat
<1>1. Calls \in Nat \ {0} /\ MaxTime \in Nat
  BY FramAssumption DEF FramAssumption
<1>2. \A B, t : Cardinality(AtTime(fram, B, t)) \in Nat
  BY AtTimeSlots
<1>3. QED
  BY <1>1, <1>2 DEF TimelineTypes

LEMMA PunctualExcept ==
    ASSUME TimelineTypes, NEW s \in Slots, Punctual({}, 0)
    PROVE  Punctual({s}, 0)
<1> SUFFICES ASSUME Steady PROVE
      /\ \A u \in Occupied(fram) \ {s} : utime <= Time(fram, u)
      /\ utime # 0 /\ AtTime(fram, {s}, utime) # {} =>
            Cardinality(AtTime(fram, {s}, utime)) + looks + 0 <= cuts + 1
  BY DEF Punctual
<1>1. \A u \in Occupied(fram) \ {} : utime <= Time(fram, u)
  BY DEF Punctual
<1>2. ASSUME utime # 0, AtTime(fram, {s}, utime) # {}
      PROVE  Cardinality(AtTime(fram, {s}, utime)) + looks + 0 <= cuts + 1
  <2>1. /\ AtTime(fram, {s}, utime) = AtTime(fram, {}, utime) \ {s}
        /\ Cardinality(AtTime(fram, {s}, utime)) <= Cardinality(AtTime(fram, {}, utime))
    BY AtTimeLess
  <2>2. AtTime(fram, {}, utime) # {}
    BY <1>2, <2>1
  <2>3. Cardinality(AtTime(fram, {}, utime)) + looks + 0 <= cuts + 1
    BY <1>2, <2>2 DEF Punctual
  <2>4. QED
    BY <2>1, <2>3, TimelineNumbers
<1>3. QED
  BY <1>1, <1>2

(* The slot that is taken is due in this second. *)
LEMMA PunctualTaken ==
    ASSUME TimelineTypes, NEW s \in Occupied(fram), Time(fram, s) <= utime, Punctual({}, 0)
    PROVE  Punctual({s}, 1)
<1> SUFFICES ASSUME Steady PROVE
      /\ \A u \in Occupied(fram) \ {s} : utime <= Time(fram, u)
      /\ Cardinality(AtTime(fram, {s}, utime)) + looks + 1 <= cuts + 1
  BY DEF Punctual
<1>1. \A u \in Occupied(fram) \ {} : utime <= Time(fram, u)
  BY DEF Punctual
<1>2. s \in Slots /\ Time(fram, s) # 0 /\ Time(fram, s) \in Nat
  BY TimelineNumbers, TimeNat DEF Occupied
<1>3. Time(fram, s) = utime /\ utime # 0
  BY <1>1, <1>2, TimelineNumbers
<1>4. AtTime(fram, {}, utime) # {}
  BY <1>2, <1>3 DEF AtTime
<1>5. Cardinality(AtTime(fram, {}, utime)) + looks + 0 <= cuts + 1
  BY <1>3, <1>4 DEF Punctual
<1>6. Cardinality(AtTime(fram, {s}, utime)) + 1 = Cardinality(AtTime(fram, {}, utime))
  BY <1>2, <1>3, AtTimeExcept
<1>7. Cardinality(AtTime(fram, {s}, utime)) + looks + 1 <= cuts + 1
  BY <1>5, <1>6, TimelineNumbers
<1>8. QED
  BY <1>1, <1>7

LEMMA PunctualFree ==
    ASSUME TimelineTypes, NEW s \in Slots, Time(fram, s) = 0, Punctual({s}, 0)
    PROVE  Punctual({}, 0)
<1>1. Occupied(fram) \ {s} = Occupied(fram) \ {}
  BY DEF Occupied
<1>2. CASE utime # 0
  <2>1. AtTime(fram, {s}, utime) = AtTime(fram, {}, utime)
    BY <1>2, AtTimeExcept
  <2>2. QED
    BY <1>1, <2>1 DEF Punctual
<1>3. CASE utime = 0
  BY <1>1, <1>3 DEF Punctual
<1>4. QED
  BY <1>2, <1>3

LEMMA PunctualFilled ==
    ASSUME TimelineTypes, NEW s \in Slots, Time(fram, s) # 0,
           \A u \in Slots \ {s} : Time(fram, u) # Time(fram, s),
           InTime(Time(fram, s)), Punctual({s}, 0)
    PROVE  Punctual({}, 0)
<1> SUFFICES ASSUME Steady PROVE
      /\ \A u \in Occupied(fram) \ {} : utime <= Time(fram, u)
      /\ utime # 0 /\ AtTime(fram, {}, utime) # {} =>
            Cardinality(AtTime(fram, {}, utime)) + looks + 0 <= cuts + 1
  BY DEF Punctual
<1>1. utime < Time(fram, s) \/ (utime = Time(fram, s) /\ looks = 0)
  BY DEF InTime
<1>2. Time(fram, s) \in Nat
  BY TimelineNumbers, TimeNat
<1>3. \A u \in Occupied(fram) \ {} : utime <= Time(fram, u)
  <2>1. \A u \in Occupied(fram) \ {s} : utime <= Time(fram, u)
    BY DEF Punctual
  <2>2. utime <= Time(fram, s)
    BY <1>1, <1>2, TimelineNumbers
  <2>3. QED
    BY <2>1, <2>2
<1>4. CASE utime = Time(fram, s)
  <2>1. AtTime(fram, {s}, utime) = {}
    BY <1>4 DEF AtTime
  <2>2. Cardinality(AtTime(fram, {s}, utime)) = 0
    BY <2>1, FS_EmptySet
  <2>3. Cardinality(AtTime(fram, {s}, utime)) + 1 = Cardinality(AtTime(fram, {}, utime))
    BY <1>4, AtTimeExcept
  <2>4. looks = 0
    BY <1>1, <1>2, <1>4, TimelineNumbers
  <2>5. Cardinality(AtTime(fram, {}, utime)) + looks + 0 <= cuts + 1
    BY <2>2, <2>3, <2>4, TimelineNumbers
  <2>6. QED
    BY <1>3, <2>5
<1>5. CASE utime # Time(fram, s)
  <2>1. AtTime(fram, {s}, utime) = AtTime(fram, {}, utime)
    BY <1>5, AtTimeExcept
  <2>2. utime # 0 /\ AtTime(fram, {}, utime) # {} =>
            Cardinality(AtTime(fram, {}, utime)) + looks + 0 <= cuts + 1
    BY <2>1 DEF Punctual
  <2>3. QED
    BY <1>3, <2>2
<1>6. QED
  BY <1>4, <1>5

(* A second that passes finds the calls made, and with them every slot that was due taken.    *)
LEMMA PunctualClock ==
    ASSUME TimelineTypes, NEW n \in {0, 1}, NEW B, Alike(fram, B, cuts), Punctual(B, n),
           NEW last, Clock(last)
    PROVE  Punctual(B, n)'
<1> SUFFICES ASSUME Steady' PROVE
      /\ \A u \in Occupied(fram) \ B : utime' <= Time(fram, u)
      /\ Cardinality(AtTime(fram, B, utime')) + looks' + n <= cuts + 1
  BY DEF Punctual, Clock
<1>1. /\ Steady /\ looks = Calls /\ cuts < Calls /\ utime' = utime + 1 /\ looks' = 0
  BY TimelineNumbers DEF Steady, Clock
<1>2. \A u \in Occupied(fram) \ B : utime <= Time(fram, u)
  BY <1>1 DEF Punctual
<1>3. n = 0 /\ ~(utime # 0 /\ AtTime(fram, B, utime) # {})
  <2>1. SUFFICES ASSUME n > 0 \/ (utime # 0 /\ AtTime(fram, B, utime) # {}) PROVE FALSE
    OBVIOUS
  <2>2. Cardinality(AtTime(fram, B, utime)) + looks + n <= cuts + 1
    BY <1>1, <2>1 DEF Punctual
  <2>3. Cardinality(AtTime(fram, B, utime)) + n >= 1
    <3>1. AtTime(fram, B, utime) # {} => Cardinality(AtTime(fram, B, utime)) # 0
      BY AtTimeSlots, FS_EmptySet
    <3>2. Cardinality(AtTime(fram, B, utime)) \in Nat
      BY TimelineNumbers
    <3>3. CASE n = 1
      BY <3>2, <3>3
    <3>4. CASE n = 0
      BY <2>1, <3>1, <3>2, <3>4
    <3>5. QED
      BY <3>3, <3>4
  <2>4. QED
    BY <1>1, <2>2, <2>3, TimelineNumbers
<1>4. \A u \in Occupied(fram) \ B : utime' <= Time(fram, u)
  <2> SUFFICES ASSUME NEW u \in Occupied(fram) \ B PROVE utime + 1 <= Time(fram, u)
    BY <1>1
  <2>1. u \in Slots \ B /\ Time(fram, u) # 0 /\ Time(fram, u) \in Nat
    BY TimelineNumbers, TimeNat DEF Occupied
  <2>2. Time(fram, u) # utime
    BY <1>3, <2>1 DEF AtTime
  <2>3. QED
    BY <1>2, <2>1, <2>2, TimelineNumbers
<1>5. Cardinality(AtTime(fram, B, utime')) + looks' + n <= cuts + 1
  <2>1. utime' \in Nat \ {0}
    BY <1>1, TimelineNumbers
  <2>2. Cardinality(AtTime(fram, B, utime')) <= cuts + 1
    BY <2>1 DEF Alike
  <2>3. Cardinality(AtTime(fram, B, utime')) \in Nat
    BY TimelineNumbers
  <2>4. QED
    BY <1>1, <1>3, <2>2, <2>3, TimelineNumbers
<1>6. QED
  BY <1>4, <1>5

LEMMA PunctualSame ==
    ASSUME NEW B, NEW n, Punctual(B, n), UNCHANGED <<fram, utime, cuts, looks>>, steady' => steady
    PROVE  Punctual(B, n)'
BY DEF Punctual, Steady

LEMMA PunctualLost == ASSUME NEW B, NEW n, ~steady' PROVE Punctual(B, n)'
BY DEF Punctual, Steady

-------------------------------------------------------------------------------
(* The phases of a handler. *)

LEMMA Leave ==
    ASSUME TimelineTypes, Between, NEW s \in Slots
    PROVE  Outside(s)
<1>1. Accounts(fram, owed, {s}, Here(fram, s), cuts - strange)
  BY TimelineNumbers, Exclude DEF Between
<1>2. Alike(fram, {s}, cuts)
  BY TimelineNumbers, AlikeExcept DEF Between
<1>3. Punctual({s}, 0)
  BY PunctualExcept DEF Between
<1>4. QED
  BY <1>1, <1>2, <1>3 DEF Outside

LEMMA ReturnFree ==
    ASSUME TimelineTypes, NEW s \in Slots, Outside(s), Time(fram, s) = 0
    PROVE  Between
<1>1. Accounts(fram, owed, {}, {}, cuts - strange)
  BY IncludeFree DEF Outside
<1>2. Alike(fram, {}, cuts)
  BY TimelineNumbers, AlikeExcept DEF Outside
<1>3. Punctual({}, 0)
  BY PunctualFree DEF Outside
<1>4. QED
  BY <1>1, <1>2, <1>3 DEF Between

LEMMA ReturnFilled ==
    ASSUME TimelineTypes, NEW s \in Slots, Outside(s), PendingAt(fram, s), fram.head[s] \in owed,
           \A u \in Slots \ {s} : Time(fram, u) # Time(fram, s), InTime(Time(fram, s))
    PROVE  Between
<1>1. Accounts(fram, owed, {}, {}, cuts - strange)
  BY TimelineNumbers, IncludePending DEF Outside
<1>2. Alike(fram, {}, cuts)
  BY TimelineNumbers, AlikeExcept DEF Outside
<1>3. Punctual({}, 0)
  BY PunctualFilled DEF Outside, PendingAt
<1>4. QED
  BY <1>1, <1>2, <1>3 DEF Between

(* What begins between two handlers, or two parts of one. *)
LEMMA Begins ==
    ASSUME TimelineTypes, Between, rec_data = Nothing, NEW s \in Slots,
           UNCHANGED <<fram, owed, strange, cuts, looks, utime, rec_data>>, steady' => steady,
           \/ rest' = <<>>
           \/ Dropping(fram, s, rest')
           \/ \E p \in Packets : /\ Filling(fram, owed, s, p, rest')
                                 /\ steady' => utime < p.time
    PROVE  Phases'
<1>1. rest' = <<>> => Between'
  <2>1. Punctual({}, 0)'
    BY PunctualSame DEF Between
  <2>2. QED
    BY <2>1 DEF Between
<1>2. Outside(s)'
  <2>1. Outside(s)
    BY Leave
  <2>2. Punctual({s}, 0)'
    BY <2>1, PunctualSame DEF Outside
  <2>3. QED
    BY <2>1, <2>2 DEF Outside
<1>3. Dropping(fram, s, rest') => InWrite(s)'
  BY <1>2 DEF InWrite
<1>4. ASSUME NEW p \in Packets, Filling(fram, owed, s, p, rest'), steady' => utime < p.time
      PROVE  InWrite(s)'
  <2>1. InTime(p.time)'
    BY <1>4 DEF InTime, Steady
  <2>2. Filling(fram, owed, s, p, rest)'
    BY <1>4
  <2>3. QED
    BY <1>2, <2>1, <2>2 DEF InWrite
<1>5. rest' # <<>> => InWrite(s)'
  BY <1>3, <1>4
<1>6. QED
  BY <1>1, <1>5 DEF Phases

LEMMA DropWrites ==
    ASSUME NEW s
    PROVE  FRAM_TLC_drop_time(s) = <<>> \/ Dropping(fram, s, FRAM_TLC_drop_time(s))
BY DEF FRAM_TLC_drop_time, Dropping

LEMMA LeastSlot ==
    ASSUME NEW S, S \subseteq Slots, S # {}
    PROVE  Min(S) \in S /\ Min(S) \in Slots
<1>1. S \in SUBSET Nat
  BY DEF Slots
<1>2. \E m \in S : \A p \in S : m <= p
  BY <1>1, LeastExists
<1>3. QED
  BY <1>2 DEF Min

LEMMA SomeSlot == 0 \in Slots
BY FramAssumption DEF FramAssumption, Slots

(* A packet is registered in a free slot, at a time that no slot has. *)
LEMMA Registers ==
    ASSUME TimelineTypes, NEW cmd \in Commands, NEW t \in Nat
    PROVE  \/ add_fram_tlc(cmd, t) = <<>>
           \/ /\ utime <= t
              /\ \E s \in Slots : \E p \in Packets :
                   p.time = t /\ Filling(fram, owed, s, p, add_fram_tlc(cmd, t))
<1> SUFFICES ASSUME ~Refused(t)
             PROVE  /\ utime <= t
                    /\ \E s \in Slots : \E p \in Packets :
                         p.time = t /\ Filling(fram, owed, s, p, FRAM_TLC_Write_packet(cmd, t))
  BY DEF add_fram_tlc
<1>1. /\ utime <= t /\ Occupied(fram) # Slots /\ \A u \in Slots : Time(fram, u) # t
  BY TimelineNumbers DEF Refused
<1> DEFINE s == Min(Slots \ Occupied(fram))
           p == [cmd |-> cmd, time |-> t]
<1>2. s \in Slots /\ s \notin Occupied(fram)
  <2>1. Slots \ Occupied(fram) # {}
    BY <1>1 DEF Occupied
  <2>2. QED
    BY <2>1, LeastSlot
<1>3. Time(fram, s) = 0 /\ t # 0
  BY <1>1, <1>2 DEF Occupied
<1>4. p \in Packets /\ p.time = t /\ p.cmd = cmd
  BY DEF Packets
<1>5. ~PendingAt(fram, s)
  BY <1>3 DEF PendingAt
<1>6. FRAM_TLC_Write_packet(cmd, t) =
        <<Bytes("hi", s, p.time \div Base), Bytes("lo", s, p.time % Base),
          Bytes("head", s, p), Bytes("tail", s, p.cmd)>>
  BY DEF FRAM_TLC_Write_packet
<1> HIDE DEF s, p
<1>7. Filling(fram, owed, s, p, FRAM_TLC_Write_packet(cmd, t))
  BY <1>1, <1>3, <1>4, <1>5, <1>6 DEF Filling
<1>8. QED
  BY <1>1, <1>2, <1>4, <1>7

-------------------------------------------------------------------------------
(* The steps. *)

LEMMA IdlePhase ==
    ASSUME TimelineInv, Idle
    PROVE  rest = <<>> /\ rec_data = Nothing /\ agenda = <<>> /\ wipe = 0 /\ Between
<1>1. rest = <<>> /\ rec_data = Nothing /\ agenda = <<>> /\ wipe = 0
  BY DEF Idle, loop
<1>2. QED
  BY <1>1 DEF TimelineInv, Phases

LEMMA BetweenPhase ==
    ASSUME TimelineInv, rest = <<>>, agenda # <<>> \/ wipe # 0
    PROVE  rec_data = Nothing /\ Between
BY DEF TimelineInv, Phases, Taken

LEMMA BlockEntries ==
    ASSUME NEW b \in DOMAIN Block
    PROVE  Deployed(b) \in Seq([cmd : Commands, cycle : Nat])
<1>1. Block[b] \in Seq([cmd : Commands, cycle : Nat])
  BY FramAssumption DEF FramAssumption
<1>2. <<>> \in Seq([cmd : Commands, cycle : Nat])
  OBVIOUS
<1>3. QED
  BY <1>1, <1>2 DEF Deployed

LEMMA DeployNextKept ==
    ASSUME TimelineInv, DeployNext
    PROVE  TimelineInv'
<1>1. TimelineTypes
  BY DEF TimelineInv
<1>2. rec_data = Nothing /\ Between
  BY BetweenPhase DEF DeployNext
<1>3. Head(agenda) \in [cmd : Commands, cycle : Nat] /\ Tail(agenda) \in Seq([cmd : Commands, cycle : Nat])
  <2>1. agenda \in Seq([cmd : Commands, cycle : Nat]) /\ agenda # <<>>
    BY <1>1 DEF TimelineTypes, DeployNext
  <2> DEFINE E == [cmd : Commands, cycle : Nat]
  <2>2. agenda \in Seq(E)
    BY <2>1
  <2> HIDE DEF E
  <2>3. Head(agenda) \in E /\ Tail(agenda) \in Seq(E)
    BY <2>1, <2>2
  <2>4. QED
    BY <2>3 DEF E
<1>4. TimelineTypes'
  BY <1>1, <1>3 DEF TimelineTypes, DeployNext, hist
<1> DEFINE t == utime + Head(agenda).cycle
           cmd == Head(agenda).cmd
<1>5. t \in Nat /\ cmd \in Commands /\ (Head(agenda).cycle # 0 => utime < t)
  <2>1. utime \in Nat
    BY <1>1, TimelineNumbers
  <2>2. cmd \in Commands /\ Head(agenda).cycle \in Nat
    BY <1>3
  <2>3. QED
    BY <2>1, <2>2
<1>6. rest' = IF Head(agenda).cycle = 0 THEN <<>> ELSE add_fram_tlc(cmd, t)
  BY DEF DeployNext
<1> HIDE DEF t, cmd
<1>7. UNCHANGED <<fram, owed, strange, cuts, looks, utime, rec_data, steady>>
  BY DEF DeployNext, hist
<1>8. \E s \in Slots : \/ rest' = <<>>
                       \/ \E p \in Packets : /\ Filling(fram, owed, s, p, rest')
                                             /\ steady' => utime < p.time
  <2>1. CASE Head(agenda).cycle = 0
    BY <1>6, <2>1, SomeSlot
  <2>2. CASE Head(agenda).cycle # 0
    <3>1. rest' = add_fram_tlc(cmd, t) /\ utime < t
      BY <1>5, <1>6, <2>2
    <3>2. QED
      BY <1>1, <1>5, <3>1, Registers, SomeSlot
  <2>3. QED
    BY <2>1, <2>2
<1>9. Phases'
  BY <1>1, <1>2, <1>7, <1>8, Begins
<1>10. QED
  BY <1>4, <1>9 DEF TimelineInv

LEMMA ClearNextKept ==
    ASSUME TimelineInv, ClearNext
    PROVE  TimelineInv'
<1>1. TimelineTypes
  BY DEF TimelineInv
<1>2. FRAM_TLC_MAX \in Nat /\ wipe \in 1..FRAM_TLC_MAX
  BY <1>1, FramAssumption DEF FramAssumption, TimelineTypes, ClearNext
<1>3. rec_data = Nothing /\ Between
  BY <1>2, BetweenPhase DEF ClearNext
<1>4. TimelineTypes'
  <2>1. wipe' \in 0..FRAM_TLC_MAX
    BY <1>2 DEF ClearNext
  <2>2. QED
    BY <1>1, <2>1 DEF TimelineTypes, ClearNext, hist
<1>5. FRAM_TLC_MAX - wipe \in Slots
  BY <1>2 DEF Slots
<1>6. rest' = <<>> \/ Dropping(fram, FRAM_TLC_MAX - wipe, rest')
  BY DropWrites DEF ClearNext
<1>7. UNCHANGED <<fram, owed, strange, cuts, looks, utime, rec_data, steady>>
  BY DEF ClearNext, hist
<1>8. Phases'
  BY <1>1, <1>3, <1>5, <1>6, <1>7, Begins
<1>9. QED
  BY <1>4, <1>8 DEF TimelineInv

(* The commands of the ground. *)
LEMMA HandleKept ==
    ASSUME TimelineInv, NEW writes, NEW entries \in Seq([cmd : Commands, cycle : Nat]),
           NEW slots \in 0..FRAM_TLC_MAX, NEW fit \in BOOLEAN,
           Handle(writes, entries, slots, fit), NEW s \in Slots,
           \/ writes = <<>>
           \/ Dropping(fram, s, writes)
           \/ \E p \in Packets : Filling(fram, owed, s, p, writes) /\ (fit => utime < p.time)
    PROVE  TimelineInv'
<1>1. TimelineTypes
  BY DEF TimelineInv
<1>2. rec_data = Nothing /\ Between
  BY IdlePhase DEF Handle
<1>3. TimelineTypes'
  BY <1>1 DEF TimelineTypes, Handle
<1>4. /\ UNCHANGED <<fram, owed, strange, cuts, looks, utime, rec_data>>
      /\ steady' => steady /\ fit
      /\ rest' = writes
  BY DEF Handle
<1>5. Phases'
  BY <1>1, <1>2, <1>4, Begins
<1>6. QED
  BY <1>3, <1>5 DEF TimelineInv

LEMMA SameAccounts ==
    ASSUME TimelineInv, Idle, UNCHANGED <<fram, loop, owed, strange, cuts, looks>>,
           utime' \in 0..MaxTime, active' \subseteq DOMAIN Block,
           ~steady' \/ UNCHANGED <<utime, steady>>, steady' \in BOOLEAN
    PROVE  TimelineInv'
<1>1. rest = <<>> /\ rec_data = Nothing /\ Between
  BY IdlePhase
<1>2. TimelineTypes'
  BY DEF TimelineInv, TimelineTypes, loop
<1>3. rest' = <<>> /\ rec_data' = Nothing
  BY <1>1 DEF loop, Nothing, Blank
<1>4. Punctual({}, 0)'
  BY <1>1, PunctualSame, PunctualLost DEF Between
<1>5. Between'
  BY <1>1, <1>4 DEF Between
<1>6. QED
  BY <1>2, <1>3, <1>5 DEF TimelineInv, Phases

LEMMA FramGroundKept ==
    ASSUME TimelineInv, Ground
    PROVE  TimelineInv'
<1>1. /\ TimelineTypes /\ <<>> \in Seq([cmd : Commands, cycle : Nat])
      /\ FRAM_TLC_MAX \in Nat /\ Times \subseteq 0..MaxTime /\ MaxTime \in Nat
  BY FramAssumption DEF TimelineInv, FramAssumption
<1>2. 0 \in 0..FRAM_TLC_MAX /\ FRAM_TLC_MAX \in 0..FRAM_TLC_MAX
  BY <1>1
<1>3. ASSUME NEW cmd \in Commands, NEW t \in Times, Handle(add_fram_tlc(cmd, t), <<>>, 0, t # utime)
      PROVE  TimelineInv'
  <2>1. t \in Nat
    BY <1>1
  <2>2. \E s \in Slots :
          \/ add_fram_tlc(cmd, t) = <<>>
          \/ \E p \in Packets : /\ Filling(fram, owed, s, p, add_fram_tlc(cmd, t))
                                /\ t # utime => utime < p.time
    BY <1>1, <2>1, Registers, SomeSlot, TimelineNumbers
  <2>3. QED
    BY <1>1, <1>2, <1>3, <2>2, HandleKept
<1>4. ASSUME NEW b \in DOMAIN Block, Handle(<<>>, Deployed(b), 0, TRUE)
      PROVE  TimelineInv'
  BY <1>2, <1>4, BlockEntries, SomeSlot, HandleKept
<1>5. ASSUME NEW b \in DOMAIN Block, NEW v \in BOOLEAN, Activate(b, v)
      PROVE  TimelineInv'
  <2>1. /\ UNCHANGED <<fram, loop, owed, strange, cuts, looks, utime, steady>> /\ Idle
        /\ utime' \in 0..MaxTime /\ active' \subseteq DOMAIN Block /\ steady' \in BOOLEAN
    BY <1>1, <1>5 DEF Activate, TimelineTypes
  <2>2. QED
    BY <2>1, SameAccounts
<1>6. ASSUME Handle(<<>>, <<>>, FRAM_TLC_MAX, TRUE)
      PROVE  TimelineInv'
  BY <1>1, <1>2, <1>6, SomeSlot, HandleKept
<1>7. ASSUME NEW t \in Times, Handle(ClearAtTime(t), <<>>, 0, TRUE)
      PROVE  TimelineInv'
  <2>1. \E s \in Slots : ClearAtTime(t) = <<>> \/ Dropping(fram, s, ClearAtTime(t))
    <3> DEFINE at == {u \in Slots : Time(fram, u) = t}
    <3>1. CASE at = {}
      BY <3>1, SomeSlot DEF ClearAtTime
    <3>2. CASE at # {}
      <4>1. Min(at) \in Slots
        BY <3>2, LeastSlot
      <4>2. ClearAtTime(t) = FRAM_TLC_drop_time(Min(at))
        BY <3>2 DEF ClearAtTime
      <4>3. QED
        BY <4>1, <4>2, DropWrites
    <3>3. QED
      BY <3>1, <3>2
  <2>2. QED
    BY <1>1, <1>2, <1>7, <2>1, HandleKept
<1>8. ASSUME NEW t \in Times, SetTime(t)
      PROVE  TimelineInv'
  <2>1. /\ UNCHANGED <<fram, loop, owed, strange, cuts, looks>> /\ Idle
        /\ utime' \in 0..MaxTime /\ active' \subseteq DOMAIN Block /\ steady' = FALSE
    BY <1>1, <1>8 DEF SetTime, TimelineTypes
  <2>2. QED
    BY <2>1, SameAccounts
<1>9. ASSUME NEW s \in Slots, Handle(FRAM_TLC_drop_time(s), <<>>, 0, TRUE)
      PROVE  TimelineInv'
  BY <1>1, <1>2, <1>9, DropWrites, HandleKept
<1>10. QED
  BY <1>3, <1>4, <1>5, <1>6, <1>7, <1>8, <1>9 DEF Ground

Takeable(f, s, o, n, here) ==
    \E G \in SUBSET (Occupied(f) \ {s}) :
       /\ Sound(f, o, G)
       /\ \/ Damage(f, o, {s}, here, G) + 1 <= n
          \/ /\ Damage(f, o, {s}, here, G) <= n
             /\ PendingAt(f, s) /\ f.head[s] \in o
             /\ \A u \in G : f.head[u] # f.head[s]

(* The dispatcher takes the first slot that is due: if it is not one of those that pend what     *)
(* they should, it is accounted for already.                                       *)
LEMMA Takes ==
    ASSUME NEW f, NEW s \in Occupied(f), NEW o, IsFiniteSet(o), NEW n \in Int, NEW here,
           here = IF Whole(f, s) THEN {f.head[s]} ELSE {}, Accounts(f, o, {}, {}, n)
    PROVE  Takeable(f, s, o, n, here)
<1>1. PICK G \in SUBSET (Occupied(f) \ {}) : Sound(f, o, G) /\ Damage(f, o, {}, {}, G) <= n
  BY DEF Accounts
<1> DEFINE H == G \ {s}
<1>2. H \in SUBSET (Occupied(f) \ {s}) /\ Sound(f, o, H)
  BY <1>1 DEF Sound
<1>3. Gone(f, o, {s}, here) \subseteq Gone(f, o, {}, {})
  <2>1. \A p \in HeldBy(f, Occupied(f) \ {}) : p \in HeldBy(f, Occupied(f) \ {s}) \/ p \in here
    BY DEF HeldBy
  <2>2. QED
    BY <2>1 DEF Gone
<1>4. CASE s \in G
  <2>1. (Occupied(f) \ {s}) \ H \subseteq (Occupied(f) \ {}) \ G
    OBVIOUS
  <2>2. /\ Damage(f, o, {s}, here, H) \in Nat /\ Damage(f, o, {}, {}, G) \in Nat
        /\ Damage(f, o, {s}, here, H) <= Damage(f, o, {}, {}, G)
    BY <1>3, <2>1, DamageLess
  <2>3. Damage(f, o, {s}, here, H) <= n
    BY <1>1, <2>2
  <2>4. PendingAt(f, s) /\ f.head[s] \in o /\ \A u \in H : f.head[u] # f.head[s]
    BY <1>1, <1>4 DEF Sound
  <2>5. QED
    BY <1>2, <2>3, <2>4 DEF Takeable
<1>5. CASE s \notin G
  <2>1. (Occupied(f) \ {s}) \ H \subseteq ((Occupied(f) \ {}) \ G) \ {s}
    OBVIOUS
  <2>2. /\ IsFiniteSet(Gone(f, o, {}, {})) /\ IsFiniteSet((Occupied(f) \ {}) \ G)
        /\ s \in (Occupied(f) \ {}) \ G
    BY <1>5, DamageFinite
  <2>3. /\ Cardinality((Occupied(f) \ {s}) \ H) \in Nat /\ Cardinality((Occupied(f) \ {}) \ G) \in Nat
        /\ Cardinality((Occupied(f) \ {s}) \ H) + 1 <= Cardinality((Occupied(f) \ {}) \ G)
    BY <2>1, <2>2, OneLess
  <2>4. /\ Cardinality(Gone(f, o, {s}, here)) \in Nat /\ Cardinality(Gone(f, o, {}, {})) \in Nat
        /\ Cardinality(Gone(f, o, {s}, here)) <= Cardinality(Gone(f, o, {}, {}))
    BY <1>3, <2>2, Fewer
  <2>5. Damage(f, o, {s}, here, H) + 1 <= n
    BY <1>1, <2>3, <2>4 DEF Damage
  <2>6. QED
    BY <1>2, <2>5 DEF Takeable
<1>6. QED
  BY <1>4, <1>5

LEMMA SearchKept ==
    ASSUME TimelineInv, FRAM_TLC_search_tlc
    PROVE  TimelineInv'
<1>1. TimelineTypes
  BY DEF TimelineInv
<1>2. rest = <<>> /\ rec_data = Nothing /\ agenda = <<>> /\ wipe = 0 /\ Between
  BY IdlePhase DEF FRAM_TLC_search_tlc
<1>3. UNCHANGED <<fram, active, utime, agenda, wipe, owed, strange, cuts, ops>>
  BY DEF FRAM_TLC_search_tlc
<1>4. CASE Due = {}
  <2>1. /\ looks' = IF looks < Calls THEN looks + 1 ELSE looks
        /\ steady' = TRUE /\ UNCHANGED <<rest, rec_data>>
    BY <1>4 DEF FRAM_TLC_search_tlc, Looked
  <2>2. TimelineTypes'
    <3>1. looks' \in 0..Calls
      BY <1>1, <2>1, TimelineNumbers
    <3>2. QED
      BY <1>1, <1>3, <2>1, <3>1 DEF TimelineTypes
  <2>3. Punctual({}, 0)'
    <3>1. \A u \in Occupied(fram) : utime < Time(fram, u)
      <4>1. \A u \in Occupied(fram) : Time(fram, u) \in Nat
        BY <1>1, TimelineNumbers, TimeNat DEF Occupied
      <4>2. QED
        BY <1>1, <1>4, <4>1, TimelineNumbers DEF Due
    <3>2. utime # 0 => AtTime(fram, {}, utime) = {}
      <4>1. \A u \in Occupied(fram) : Time(fram, u) # utime
        BY <1>1, <3>1, TimelineNumbers
      <4>2. QED
        BY <4>1 DEF AtTime, Occupied
    <3>3. \A u \in Occupied(fram) : utime <= Time(fram, u)
      <4>1. \A u \in Occupied(fram) : Time(fram, u) \in Nat
        BY <1>1, TimelineNumbers, TimeNat DEF Occupied
      <4>2. QED
        BY <1>1, <3>1, <4>1, TimelineNumbers
    <3>4. QED
      BY <1>3, <3>2, <3>3 DEF Punctual
  <2>4. Between'
    BY <1>2, <1>3, <2>3 DEF Between
  <2>5. rest' = <<>> /\ rec_data' = Nothing
    BY <1>2, <2>1 DEF Nothing, Blank
  <2>6. QED
    BY <2>2, <2>4, <2>5 DEF TimelineInv, Phases
<1>5. CASE Due # {}
  <2>1. PICK s \in Slots : s = Min(Due) /\ s \in Due
    <3>1. Due \subseteq Slots
      BY DEF Due, Occupied
    <3>2. QED
      BY <1>5, <3>1, LeastSlot
  <2>2. s \in Occupied(fram) /\ Time(fram, s) # 0 /\ Time(fram, s) <= utime
    BY <2>1 DEF Due, Occupied
  <2>3. /\ rec_data' = [packet |-> fram.head[s], params |-> fram.tail[s]]
        /\ rest' = FRAM_TLC_drop_time(s) /\ UNCHANGED <<looks, steady>>
    BY <1>5, <2>1 DEF FRAM_TLC_search_tlc
  <2>4. TimelineTypes'
    <3>1. rec_data' \in Copies
      BY <1>1, <2>1, <2>3 DEF TimelineTypes, FRAM, Copies
    <3>2. QED
      BY <1>1, <1>3, <2>3, <3>1 DEF TimelineTypes
  <2>5. Dropping(fram, s, rest)'
    BY <1>3, <2>2, <2>3 DEF FRAM_TLC_drop_time, Dropping
  <2>6. Outside(s)'
    <3>1. Outside(s)
      BY <1>1, <1>2, <2>1, Leave
    <3>2. Punctual({s}, 0)'
      BY <1>3, <2>3, <3>1, PunctualSame DEF Outside
    <3>3. QED
      BY <1>3, <3>1, <3>2 DEF Outside
  <2>7. InWrite(s)'
    BY <2>5, <2>6 DEF InWrite
  <2>8. Taken(s)'
    <3>1. /\ fram'.head[s] = rec_data'.packet /\ fram'.tail[s] = rec_data'.params
          /\ agenda' = <<>> /\ wipe' = 0
      BY <1>2, <1>3, <2>3
    <3>2. Alike(fram, {s}, cuts)'
      BY <2>6 DEF Outside
    <3>3. Punctual({s}, 1)'
      <4>1. Punctual({s}, 1)
        BY <1>1, <1>2, <2>2, PunctualTaken DEF Between
      <4>2. QED
        BY <1>3, <2>3, <4>1, PunctualSame
    <3>4. Intact' <=> Whole(fram, s)
      BY <2>3 DEF Intact, Whole
    <3>5. Known' = IF Whole(fram, s) THEN {fram.head[s]} ELSE {}
      BY <2>3, <3>4 DEF Known
    <3>6. \E k : k = Known'
      OBVIOUS
    <3>a. PICK k : k = Known'
      BY <3>6
    <3>b. k = IF Whole(fram, s) THEN {fram.head[s]} ELSE {}
      BY <3>5, <3>a
    <3>c. Accounts(fram, owed, {}, {}, cuts - strange)
      BY <1>2 DEF Between
    <3>d. Takeable(fram, s, owed, cuts - strange, k)
      <4>1. IsFiniteSet(owed) /\ cuts - strange \in Int
        BY <1>1, TimelineNumbers
      <4>2. QED
        BY <2>2, <3>b, <3>c, <4>1, Takes
    <3>e. PICK G \in SUBSET (Occupied(fram) \ {s}) :
             /\ Sound(fram, owed, G)
             /\ \/ Damage(fram, owed, {s}, Known', G) + 1 <= cuts - strange
                \/ /\ Damage(fram, owed, {s}, Known', G) <= cuts - strange
                   /\ PendingAt(fram, s) /\ fram.head[s] \in owed
                   /\ \A u \in G : fram.head[u] # fram.head[s]
      BY <3>a, <3>d DEF Takeable
    <3>7. PendingAt(fram, s) /\ fram.head[s] \in owed => AsOwed'
      BY <1>3, <2>2, <2>3, <3>4 DEF AsOwed, PendingAt
    <3>8. Ready(s)'
      BY <1>3, <2>3, <3>e, <3>7 DEF Ready
    <3>9. QED
      BY <2>5, <3>1, <3>2, <3>3, <3>8 DEF Taken
  <2>9. rest' # <<>>
    BY <2>5 DEF Dropping
  <2>10. QED
    BY <2>1, <2>4, <2>7, <2>8, <2>9 DEF TimelineInv, Phases
<1>6. QED
  BY <1>4, <1>5

LEMMA PunctualExecuted ==
    ASSUME TimelineTypes, NEW s \in Slots, Time(fram, s) = 0, Punctual({s}, 1),
           UNCHANGED <<fram, utime, cuts, steady>>, Looked
    PROVE  Punctual({}, 0)'
<1> SUFFICES ASSUME Steady PROVE
      /\ \A u \in Occupied(fram) \ {} : utime <= Time(fram, u)
      /\ utime # 0 => Cardinality(AtTime(fram, {}, utime)) + looks' + 0 <= cuts + 1
  BY DEF Punctual, Steady
<1>1. \A u \in Occupied(fram) \ {} : utime <= Time(fram, u)
  BY DEF Punctual, Occupied
<1>2. ASSUME utime # 0
      PROVE  Cardinality(AtTime(fram, {}, utime)) + looks' + 0 <= cuts + 1
  <2>1. AtTime(fram, {s}, utime) = AtTime(fram, {}, utime)
    BY <1>2, AtTimeExcept
  <2>2. Cardinality(AtTime(fram, {s}, utime)) + looks + 1 <= cuts + 1
    BY DEF Punctual
  <2>3. looks' \in Nat /\ looks' <= looks + 1
    BY TimelineNumbers DEF Looked
  <2>4. QED
    BY <2>1, <2>2, <2>3, TimelineNumbers
<1>3. QED
  BY <1>1, <1>2

LEMMA ExecutionKept ==
    ASSUME TimelineInv, Execute
    PROVE  TimelineInv'
<1>1. TimelineTypes /\ rec_data # Nothing /\ rest = <<>>
  BY DEF TimelineInv, Execute
<1>2. PICK s \in Slots : Taken(s)
  BY <1>1 DEF TimelineInv, Phases
<1>3. Time(fram, s) = 0
  BY <1>1, <1>2 DEF Taken, Dropping
<1>4. /\ UNCHANGED <<fram, active, utime, rest, wipe, cuts, steady, ops>>
      /\ rec_data' = Nothing /\ Looked
      /\ agenda' = IF Parses /\ rec_data.packet.cmd \in DOMAIN Deploys
                   THEN Deployed(Deploys[rec_data.packet.cmd]) ELSE <<>>
      /\ strange' = IF Parses /\ ~AsOwed THEN strange + 1 ELSE strange
      /\ owed' = IF AsOwed \/ (Intact /\ rec_data.packet \notin Held(fram))
                 THEN owed \ {rec_data.packet} ELSE owed
  BY DEF Execute
<1>5. TimelineTypes'
  <2>1. agenda' \in Seq([cmd : Commands, cycle : Nat])
    <3>1. CASE Parses /\ rec_data.packet.cmd \in DOMAIN Deploys
      <4>1. Deploys[rec_data.packet.cmd] \in DOMAIN Block
        BY <3>1, FramAssumption DEF FramAssumption
      <4>2. QED
        BY <1>4, <3>1, <4>1, BlockEntries
    <3>2. CASE ~(Parses /\ rec_data.packet.cmd \in DOMAIN Deploys)
      <4>1. agenda' = <<>>
        BY <1>4, <3>2
      <4>2. QED
        BY <4>1
    <3>3. QED
      BY <3>1, <3>2
  <2>2. rec_data' \in Copies
    BY <1>4 DEF Copies, Nothing
  <2>3. owed' \in SUBSET Packets /\ IsFiniteSet(owed')
    <3>1. owed' \subseteq owed
      BY <1>4
    <3>2. QED
      BY <1>1, <3>1, Fewer DEF TimelineTypes
  <2>4. strange' \in Nat /\ looks' \in 0..Calls
    BY <1>1, <1>4, TimelineNumbers DEF Looked
  <2>5. QED
    BY <1>1, <1>4, <2>1, <2>2, <2>3, <2>4 DEF TimelineTypes
<1>6. Alike(fram, {}, cuts)'
  <2>1. Alike(fram, {}, cuts)
    BY <1>1, <1>2, <1>3, AlikeExcept, TimelineNumbers DEF Taken
  <2>2. QED
    BY <1>4, <2>1
<1>7. Punctual({}, 0)'
  BY <1>1, <1>2, <1>3, <1>4, PunctualExecuted DEF Taken
<1>8. Accounts(fram, owed, {}, {}, cuts - strange)'
  <2> DEFINE p == rec_data.packet
  <2>1. PICK G \in SUBSET (Occupied(fram) \ {s}) :
        /\ Sound(fram, owed, G)
        /\ \/ Damage(fram, owed, {s}, Known, G) + 1 <= cuts - strange
           \/ /\ Damage(fram, owed, {s}, Known, G) <= cuts - strange
              /\ AsOwed /\ \A u \in G : fram.head[u] # p
    BY <1>2 DEF Taken, Ready
  <2>2. Known \subseteq {p} /\ Damage(fram, owed, {s}, Known, G) \in Nat
    BY <1>1, DamageFinite, TimelineNumbers DEF Known
  <2>3. CASE AsOwed
    <3>1. owed' = owed \ {p} /\ strange' = strange
      BY <1>4, <2>3
    <3>2. \/ Damage(fram, owed, {s}, Known, G) + 1 <= cuts - strange
          \/ Damage(fram, owed, {s}, Known, G) <= cuts - strange /\ \A u \in G : fram.head[u] # p
      BY <2>1
    <3>3. Accounts(fram, owed \ {p}, {}, {}, cuts - strange)
      BY <1>1, <1>3, <2>1, <2>2, <3>2, ExecutesOwed, TimelineNumbers
    <3>4. QED
      BY <1>4, <3>1, <3>3
  <2>4. CASE ~AsOwed
    <3>1. strange' \in Nat /\ strange' <= strange + 1
      BY <1>1, <1>4, TimelineNumbers
    <3>2. Damage(fram, owed, {s}, Known, G) <= cuts - strange' /\ cuts - strange' \in Int
      BY <1>1, <2>1, <2>2, <2>4, <3>1, TimelineNumbers
    <3>3. \/ owed' = owed /\ Known \subseteq Held(fram)
          \/ owed' = owed \ {p} /\ Known \subseteq {p} /\ p \notin Held(fram)
      BY <1>4, <2>4 DEF Known
    <3>4. Accounts(fram, owed', {}, {}, cuts - strange')
      BY <1>1, <1>3, <2>1, <3>2, <3>3, ExecutesStrange, TimelineNumbers
    <3>5. QED
      BY <1>4, <3>4
  <2>5. QED
    BY <2>3, <2>4
<1>9. Between' /\ rest' = <<>>
  BY <1>1, <1>4, <1>6, <1>7, <1>8 DEF Between
<1>10. QED
  BY <1>4, <1>5, <1>9 DEF TimelineInv, Phases

(* One write of a handler. *)
LEMMA PendingPackets ==
    ASSUME NEW f \in FRAM
    PROVE  Pending(f) \subseteq Packets /\ IsFiniteSet(Pending(f))
<1> DEFINE T == {t \in Occupied(f) : Whole(f, t) /\ f.head[t].time = Time(f, t)}
<1>1. T \subseteq Slots
  BY OccupiedSlots
<1>2. IsFiniteSet(T)
  BY <1>1, SlotsFinite
<1>3. IsFiniteSet({f.head[s] : s \in T})
  <2> DEFINE I == {f.head[s] : s \in T}
  <2>1. [s \in T |-> f.head[s]] \in Surjection(T, I)
    BY DEF Surjection
  <2> HIDE DEF T, I
  <2>2. IsFiniteSet(I)
    BY <1>2, <2>1, FS_Surjection
  <2>3. QED
    BY <2>2 DEF I
<1>4. \A s \in T : f.head[s] \in Packets
  BY <1>1 DEF FRAM, Whole
<1>5. QED
  BY <1>3, <1>4 DEF Pending

LEMMA WriteOwes ==
    ASSUME TimelineTypes, Write, fram' \in FRAM
    PROVE  owed' \in SUBSET Packets /\ IsFiniteSet(owed')
<1>1. owed' \subseteq owed \cup Pending(fram')
  BY DEF Write
<1>2. Pending(fram') \subseteq Packets /\ IsFiniteSet(Pending(fram'))
  BY PendingPackets
<1>3. owed \subseteq Packets /\ IsFiniteSet(owed)
  BY DEF TimelineTypes
<1>4. IsFiniteSet(owed \cup Pending(fram'))
  BY <1>2, <1>3, FS_Union
<1>5. IsFiniteSet(owed')
  BY <1>1, <1>4, Fewer
<1>6. QED
  BY <1>1, <1>2, <1>3, <1>5

LEMMA DroppingWrites ==
    ASSUME NEW f \in FRAM, NEW s \in Slots, NEW w, Dropping(f, s, w),
           NEW e, e = Head(w), NEW g, g = Written(f, e)
    PROVE  /\ g \in FRAM /\ Beside(f, g, s)
           /\ g.head[s] = f.head[s] /\ g.tail[s] = f.tail[s]
           /\ Dropping(g, s, Tail(w)) \/ (Tail(w) = <<>> /\ Time(g, s) = 0)
<1>1. CASE w = <<Bytes("hi", s, 0), Bytes("lo", s, 0)>>
  <2>1. e = Bytes("hi", s, 0) /\ Tail(w) = <<Bytes("lo", s, 0)>>
    BY <1>1
  <2>2. /\ g \in FRAM /\ Beside(f, g, s) /\ g.hi[s] = 0
        /\ g.head[s] = f.head[s] /\ g.tail[s] = f.tail[s]
    BY <2>1, WriteHi
  <2>3. QED
    BY <2>1, <2>2 DEF Dropping
<1>2. CASE w = <<Bytes("lo", s, 0)>> /\ f.hi[s] = 0
  <2>1. e = Bytes("lo", s, 0) /\ Tail(w) = <<>>
    BY <1>2
  <2>2. /\ g \in FRAM /\ Beside(f, g, s) /\ g.hi[s] = 0 /\ g.lo[s] = 0
        /\ g.head[s] = f.head[s] /\ g.tail[s] = f.tail[s]
    BY <1>2, <2>1, WriteLo
  <2>3. Time(g, s) = 0
    <3>1. Base \in Nat
      BY FramAssumption DEF FramAssumption
    <3>2. 0 * Base + 0 = 0
      BY <3>1
    <3>3. QED
      BY <2>2, <3>2 DEF Time
  <2>4. QED
    BY <2>1, <2>2, <2>3
<1>3. QED
  BY <1>1, <1>2 DEF Dropping

(* The two halves of a time make it up again. *)
LEMMA TwoHalves ==
    ASSUME NEW t \in Nat
    PROVE  t \div Base \in Nat /\ t % Base \in Nat /\ (t \div Base) * Base + (t % Base) = t
<1>1. Base \in Nat \ {0}
  BY FramAssumption DEF FramAssumption
<1>2. t \div Base \in Nat /\ t % Base \in Nat /\ t = Base * (t \div Base) + (t % Base)
  BY <1>1, DivMod
<1>3. \A a \in Nat, b \in Nat : a * b = b * a
  OBVIOUS
<1> DEFINE q == t \div Base
<1>4. q \in Nat /\ Base * q = q * Base
  BY <1>1, <1>2, <1>3
<1>5. QED
  BY <1>2, <1>4

(* What a slot is filled with is owed as soon as it is pending there. *)
LEMMA FilledIsOwed ==
    ASSUME NEW f, NEW g, NEW s \in Slots, NEW p, NEW o,
           \A u \in Slots \ {s} : Time(f, u) # p.time,
           PendingAt(f, s) /\ f.head[s] = p => p \in o,
           PendingAt(g, s) /\ g.head[s] = p
    PROVE  p \in (o \ (Pending(f) \ Pending(g))) \cup (Pending(g) \ Pending(f))
<1>1. p \in Pending(g)
  BY PendingSplit
<1>2. ASSUME p \in Pending(f) PROVE p \in o
  <2>1. PICK u \in Occupied(f) : /\ Whole(f, u) /\ f.head[u].time = Time(f, u)
                                 /\ p = f.head[u]
    BY <1>2 DEF Pending
  <2>2. u \in Slots /\ Time(f, u) = p.time
    BY <2>1, OccupiedSlots
  <2>3. u = s
    BY <2>2
  <2>4. PendingAt(f, s)
    BY <2>1, <2>3 DEF PendingAt, Occupied
  <2>5. QED
    BY <2>1, <2>3, <2>4
<1>3. QED
  BY <1>1, <1>2

IsFilled(f, o, s, p) ==
    /\ PendingAt(f, s) /\ f.head[s] \in o /\ Time(f, s) = p.time
    /\ \A u \in Slots \ {s} : Time(f, u) # Time(f, s)

LEMMA FillingWrites ==
    ASSUME NEW f \in FRAM, NEW s \in Slots, NEW w, NEW o, NEW p \in Packets,
           Filling(f, o, s, p, w),
           NEW e, e = Head(w), NEW g, g = Written(f, e),
           NEW q, q = (o \ (Pending(f) \ Pending(g))) \cup (Pending(g) \ Pending(f))
    PROVE  /\ g \in FRAM /\ Beside(f, g, s)
           /\ Filling(g, q, s, p, Tail(w)) \/ (Tail(w) = <<>> /\ IsFilled(g, q, s, p))
<1> DEFINE hi   == Bytes("hi", s, p.time \div Base)
           lo   == Bytes("lo", s, p.time % Base)
           head == Bytes("head", s, p)
           tail == Bytes("tail", s, p.cmd)
<1>1. p.time \in Nat /\ p.cmd \in Commands
  BY DEF Packets
<1>2. /\ p.time \div Base \in Nat /\ p.time % Base \in Nat
      /\ (p.time \div Base) * Base + (p.time % Base) = p.time
  BY <1>1, TwoHalves
<1>3. /\ p.time # 0
      /\ \A u \in Slots \ {s} : Time(f, u) # p.time
      /\ PendingAt(f, s) /\ f.head[s] = p => p \in o
  BY DEF Filling
<1>4. ASSUME Beside(f, g, s)
      PROVE  \A u \in Slots \ {s} : Time(g, u) # p.time
  <2>1. \A u \in Slots \ {s} : Time(g, u) = Time(f, u)
    BY <1>4, BesideTime
  <2>2. QED
    BY <1>3, <2>1
<1>5. ASSUME PendingAt(g, s), g.head[s] = p
      PROVE  p \in q
  <2>1. p \in (o \ (Pending(f) \ Pending(g))) \cup (Pending(g) \ Pending(f))
    BY <1>3, <1>5, FilledIsOwed
  <2>2. QED
    BY <2>1
<1>6. CASE w = <<hi, lo, head, tail>>
  <2>1. e = hi /\ Tail(w) = <<lo, head, tail>>
    BY <1>6
  <2>2. g \in FRAM /\ Beside(f, g, s) /\ g.hi[s] = p.time \div Base
    <3>1. PICK v \in Nat : v = p.time \div Base
      BY <1>2
    <3>2. e = Bytes("hi", s, v)
      BY <2>1, <3>1
    <3>3. QED
      BY <3>1, <3>2, WriteHi
  <2>3. QED
    BY <1>3, <1>4, <1>5, <2>1, <2>2 DEF Filling
<1>7. CASE w = <<lo, head, tail>> /\ f.hi[s] = p.time \div Base
  <2>1. e = lo /\ Tail(w) = <<head, tail>>
    BY <1>7
  <2>2. /\ g \in FRAM /\ Beside(f, g, s)
        /\ g.hi[s] = p.time \div Base /\ g.lo[s] = p.time % Base
    <3>1. PICK v \in Nat : v = p.time % Base
      BY <1>2
    <3>2. e = Bytes("lo", s, v)
      BY <2>1, <3>1
    <3>3. g \in FRAM /\ Beside(f, g, s) /\ g.hi[s] = f.hi[s] /\ g.lo[s] = v
      BY <3>2, WriteLo
    <3>4. QED
      BY <1>7, <3>1, <3>3
  <2>3. Time(g, s) = p.time
    BY <1>2, <2>2 DEF Time
  <2>4. QED
    BY <1>3, <1>4, <1>5, <2>1, <2>2, <2>3 DEF Filling
<1>8. CASE w = <<head, tail>> /\ Time(f, s) = p.time
  <2>1. e = head /\ Tail(w) = <<tail>>
    BY <1>8
  <2>2. /\ g \in FRAM /\ Beside(f, g, s)
        /\ g.hi[s] = f.hi[s] /\ g.lo[s] = f.lo[s] /\ g.head[s] = p
    BY <2>1, WriteHead
  <2>3. Time(g, s) = p.time
    BY <1>8, <2>2 DEF Time
  <2>4. QED
    BY <1>3, <1>4, <1>5, <2>1, <2>2, <2>3 DEF Filling
<1>9. CASE w = <<tail>> /\ Time(f, s) = p.time /\ f.head[s] = p
  <2>1. e = tail /\ Tail(w) = <<>>
    BY <1>9
  <2>2. /\ g \in FRAM /\ Beside(f, g, s) /\ g.head[s] = p /\ g.tail[s] = p.cmd
        /\ g.hi[s] = f.hi[s] /\ g.lo[s] = f.lo[s]
    BY <1>1, <1>9, <2>1, WriteTail
  <2>3. Time(g, s) = p.time
    BY <1>9, <2>2 DEF Time
  <2>4. p # Blank
    BY <1>1, <1>3 DEF Blank
  <2>5. PendingAt(g, s)
    BY <1>3, <2>2, <2>3, <2>4 DEF PendingAt, Whole
  <2>6. QED
    BY <1>4, <1>5, <2>1, <2>2, <2>3, <2>5 DEF IsFilled
<1>10. QED
  BY <1>6, <1>7, <1>8, <1>9 DEF Filling

LEMMA DroppingLeft ==
    ASSUME NEW f, NEW s, NEW w, Dropping(f, s, w)
    PROVE  w # <<>>
<1>1. \E hi, lo : w = <<hi, lo>> \/ w = <<lo>>
  BY Zenon DEF Dropping
<1>2. QED
  BY <1>1

LEMMA FillingLeft ==
    ASSUME NEW f, NEW o, NEW s, NEW p, NEW w, Filling(f, o, s, p, w)
    PROVE  w # <<>>
<1>1. \E hi, lo, head, tail :
        w \in {<<hi, lo, head, tail>>, <<lo, head, tail>>, <<head, tail>>, <<tail>>}
  BY Zenon DEF Filling
<1>2. QED
  BY <1>1

LEMMA PunctualBeside ==
    ASSUME NEW s \in Slots, NEW n, Beside(fram, fram', s), Punctual({s}, n),
           UNCHANGED <<utime, cuts, looks, steady>>
    PROVE  Punctual({s}, n)'
<1>1. /\ \A u \in Slots \ {s} : Time(fram', u) = Time(fram, u)
      /\ Occupied(fram') \ {s} = Occupied(fram) \ {s}
      /\ \A t : AtTime(fram', {s}, t) = AtTime(fram, {s}, t)
  BY BesideTime, BesideOccupied, BesideAtTime
<1>2. \A u \in Occupied(fram) \ {s} : Time(fram', u) = Time(fram, u)
  BY <1>1, OccupiedSlots
<1>3. QED
  BY <1>1, <1>2 DEF Punctual, Steady

(* The lemmas of the phases at the next state. *)
ReturnsFree ==
    \A s \in Slots : TimelineTypes /\ Outside(s) /\ Time(fram, s) = 0 => Between

ReturnsFilled ==
    \A s \in Slots :
        /\ TimelineTypes /\ Outside(s) /\ PendingAt(fram, s) /\ fram.head[s] \in owed
        /\ \A u \in Slots \ {s} : Time(fram, u) # Time(fram, s)
        /\ InTime(Time(fram, s))
        => Between

LEMMA Returns == ReturnsFree /\ ReturnsFilled
BY ReturnFree, ReturnFilled DEF ReturnsFree, ReturnsFilled

LEMMA ReturnsNext == ReturnsFree' /\ ReturnsFilled'
BY Returns, PTL

LEMMA ReturnFreeNext ==
    ASSUME NEW s \in Slots, TimelineTypes', Outside(s)', Time(fram', s) = 0
    PROVE  Between'
BY ReturnsNext DEF ReturnsFree

LEMMA ReturnFilledNext ==
    ASSUME NEW s \in Slots, TimelineTypes', Outside(s)', PendingAt(fram', s),
           fram'.head[s] \in owed',
           \A u \in Slots \ {s} : Time(fram', u) # Time(fram', s), InTime(Time(fram, s))'
    PROVE  Between'
BY ReturnsNext DEF ReturnsFilled

(* A write of a handler of the ground, of a block or of a clearing. *)
LEMMA HandlerWrites ==
    ASSUME TimelineTypes, TimelineTypes', Write, rec_data = Nothing,
           NEW s \in Slots, Outside(s), Beside(fram, fram', s)
    PROVE  Outside(s)'
<1>1. /\ owed' = (owed \ (Pending(fram) \ Pending(fram'))) \cup (Pending(fram') \ Pending(fram))
      /\ UNCHANGED <<utime, strange, cuts, looks, steady>>
  BY DEF Write
<1>2. Accounts(fram', owed', {s}, Here(fram', s), cuts - strange)
  <2>1. IsFiniteSet(owed) /\ cuts - strange \in Int
    BY TimelineNumbers
  <2>2. Accounts(fram, owed, {s}, Here(fram, s), cuts - strange)
    BY DEF Outside
  <2>3. QED
    BY <1>1, <2>1, <2>2, WriteAccounts
<1>3. Alike(fram', {s}, cuts)
  BY AlikeBeside DEF Outside
<1>4. Punctual({s}, 0)'
  BY <1>1, PunctualBeside DEF Outside
<1>5. QED
  BY <1>1, <1>2, <1>3, <1>4 DEF Outside

(* A write of the dispatcher, which drops the slot whose packet it has copied. *)
AsSound(f, o, g, q, s, here, G) ==
    /\ G \in SUBSET (Occupied(g) \ {s}) /\ Sound(g, q, G)
    /\ \A u \in G : g.head[u] = f.head[u]
    /\ Damage(g, q, {s}, here, G) \in Nat /\ Damage(f, o, {s}, here, G) \in Nat
    /\ Damage(g, q, {s}, here, G) <= Damage(f, o, {s}, here, G)

LEMMA CopyKept ==
    ASSUME NEW f, NEW g, NEW s \in Slots, Beside(f, g, s), g.head[s] = f.head[s],
           NEW o, IsFiniteSet(o), NEW here, Whole(g, s) => f.head[s] \in here,
           NEW q, q = o \cup (Pending(g) \ Pending(f)),
           NEW G \in SUBSET (Occupied(f) \ {s}), Sound(f, o, G)
    PROVE  AsSound(f, o, g, q, s, here, G)
<1>1. /\ \A u \in Slots \ {s} : PendingAt(g, u) <=> PendingAt(f, u)
      /\ Occupied(g) \ {s} = Occupied(f) \ {s}
      /\ HeldBy(g, Occupied(g) \ {s}) = HeldBy(f, Occupied(f) \ {s})
  BY BesidePending, BesideOccupied, BesideHeld
<1>2. G \subseteq Slots \ {s}
  BY OccupiedSlots
<1>3. \A u \in G : g.head[u] = f.head[u]
  BY <1>2 DEF Beside
<1>4. Sound(g, q, G)
  BY <1>1, <1>2, <1>3 DEF Sound
<1>5. Gone(g, q, {s}, here) \subseteq Gone(f, o, {s}, here)
  <2> SUFFICES ASSUME NEW p \in q, p \notin HeldBy(g, Occupied(g) \ {s}), p \notin here
               PROVE  p \in o
    BY <1>1 DEF Gone
  <2>1. p \notin Here(g, s)
    BY DEF Here, PendingAt
  <2>2. p \notin Pending(g)
    BY <2>1, PendingSplit
  <2>3. QED
    BY <2>2
<1>6. (Occupied(g) \ {s}) \ G \subseteq (Occupied(f) \ {s}) \ G
  BY <1>1
<1>7. /\ Damage(g, q, {s}, here, G) \in Nat /\ Damage(f, o, {s}, here, G) \in Nat
      /\ Damage(g, q, {s}, here, G) <= Damage(f, o, {s}, here, G)
  BY <1>5, <1>6, DamageLess
<1>8. QED
  BY <1>1, <1>3, <1>4, <1>7 DEF AsSound

LEMMA ReadyKept ==
    ASSUME TimelineTypes, Write, rec_data # Nothing, NEW s \in Slots, Beside(fram, fram', s),
           fram'.head[s] = fram.head[s], fram'.tail[s] = fram.tail[s],
           fram.head[s] = rec_data.packet, fram.tail[s] = rec_data.params, Ready(s)
    PROVE  Ready(s)'
<1>1. /\ owed' = owed \cup (Pending(fram') \ Pending(fram))
      /\ UNCHANGED <<utime, rec_data, strange, cuts>>
  BY DEF Write
<1>2. PICK G \in SUBSET (Occupied(fram) \ {s}) :
        /\ Sound(fram, owed, G)
        /\ \/ Damage(fram, owed, {s}, Known, G) + 1 <= cuts - strange
           \/ /\ Damage(fram, owed, {s}, Known, G) <= cuts - strange
              /\ AsOwed /\ \A u \in G : fram.head[u] # rec_data.packet
  BY DEF Ready
<1>3. Whole(fram', s) => fram.head[s] \in Known
  BY DEF Known, Intact, Whole
<1>4. /\ G \in SUBSET (Occupied(fram') \ {s}) /\ Sound(fram', owed', G)
      /\ \A u \in G : fram'.head[u] = fram.head[u]
      /\ Damage(fram', owed', {s}, Known, G) \in Nat /\ Damage(fram, owed, {s}, Known, G) \in Nat
      /\ Damage(fram', owed', {s}, Known, G) <= Damage(fram, owed, {s}, Known, G)
  <2>1. IsFiniteSet(owed)
    BY TimelineNumbers
  <2>2. PICK g, q, k : g = fram' /\ q = owed' /\ k = Known
    OBVIOUS
  <2>3. /\ Beside(fram, g, s) /\ g.head[s] = fram.head[s]
        /\ Whole(g, s) => fram.head[s] \in k
        /\ q = owed \cup (Pending(g) \ Pending(fram))
    BY <1>1, <1>3, <2>2
  <2>4. G \in SUBSET (Occupied(fram) \ {s}) /\ Sound(fram, owed, G)
    BY <1>2
  <2>5. AsSound(fram, owed, g, q, s, k, G)
    BY <2>1, <2>3, <2>4, CopyKept
  <2>6. QED
    BY <2>2, <2>5 DEF AsSound
<1>5. Known' = Known /\ (AsOwed => AsOwed')
  BY <1>1 DEF Known, AsOwed, Intact
<1>6. cuts - strange \in Int
  BY TimelineNumbers
<1>7. \/ Damage(fram', owed', {s}, Known, G) + 1 <= cuts - strange
      \/ /\ Damage(fram', owed', {s}, Known, G) <= cuts - strange
         /\ AsOwed /\ \A u \in G : fram.head[u] # rec_data.packet
  BY <1>2, <1>4, <1>6
<1>8. QED
  BY <1>1, <1>4, <1>5, <1>7 DEF Ready

LEMMA FramWriteKept ==
    ASSUME TimelineInv, Write
    PROVE  TimelineInv'
<1>1. TimelineTypes /\ rest # <<>> /\ fram \in FRAM
  BY TimelineNumbers DEF TimelineInv, Write
<1>2. PICK e : e = Head(rest)
  OBVIOUS
<1>3. /\ fram' = Written(fram, e) /\ rest' = Tail(rest)
      /\ UNCHANGED <<active, utime, rec_data, agenda, wipe, strange, cuts, looks, steady, ops>>
  BY <1>2 DEF Write, Written
<1>4. fram' \in FRAM => TimelineTypes'
  <2>1. fram' \in FRAM => owed' \in SUBSET Packets /\ IsFiniteSet(owed')
    BY <1>1, WriteOwes
  <2>2. QED
    BY <1>1, <1>3, <2>1 DEF TimelineTypes
<1>5. CASE rec_data = Nothing
  <2>1. PICK s \in Slots : InWrite(s)
    BY <1>1, <1>5 DEF TimelineInv, Phases
  <2>2. Outside(s)
    BY <2>1 DEF InWrite
  <2>3. CASE Dropping(fram, s, rest)
    <3>1. /\ fram' \in FRAM /\ Beside(fram, fram', s)
          /\ Dropping(fram', s, rest') \/ (rest' = <<>> /\ Time(fram', s) = 0)
      BY <1>1, <1>2, <1>3, <2>3, DroppingWrites
    <3>2. TimelineTypes' /\ Outside(s)'
      BY <1>1, <1>4, <1>5, <2>2, <3>1, HandlerWrites
    <3>3. CASE Dropping(fram', s, rest')
      <4>a. InWrite(s)'
        BY <3>2, <3>3 DEF InWrite
      <4>b. rest' # <<>>
        BY <3>3, DroppingLeft
      <4>1. InWrite(s)' /\ rest' # <<>>
        BY <4>a, <4>b
      <4>2. QED
        BY <1>3, <1>5, <3>2, <4>1 DEF TimelineInv, Phases, Nothing, Blank
    <3>4. CASE rest' = <<>> /\ Time(fram', s) = 0
      <4>1. Between'
        BY <3>2, <3>4, ReturnFreeNext
      <4>2. QED
        BY <1>3, <1>5, <3>2, <3>4, <4>1 DEF TimelineInv, Phases, Nothing, Blank
    <3>5. QED
      BY <3>1, <3>3, <3>4
  <2>4. ASSUME NEW p \in Packets, Filling(fram, owed, s, p, rest), InTime(p.time)
        PROVE  TimelineInv'
    <3>1. /\ fram' \in FRAM /\ Beside(fram, fram', s)
          /\ \/ Filling(fram', owed', s, p, rest')
             \/ /\ rest' = <<>> /\ PendingAt(fram', s) /\ fram'.head[s] \in owed'
                /\ Time(fram', s) = p.time
                /\ \A u \in Slots \ {s} : Time(fram', u) # Time(fram', s)
      <4>1. owed' = (owed \ (Pending(fram) \ Pending(fram')))
                      \cup (Pending(fram') \ Pending(fram))
        BY <1>5 DEF Write
      <4>2. PICK f, o, w : f = fram /\ o = owed /\ w = rest
        OBVIOUS
      <4>3. PICK g, q, v : g = fram' /\ q = owed' /\ v = rest'
        OBVIOUS
      <4>4. /\ f \in FRAM /\ Filling(f, o, s, p, w) /\ e = Head(w) /\ g = Written(f, e)
            /\ q = (o \ (Pending(f) \ Pending(g))) \cup (Pending(g) \ Pending(f))
            /\ v = Tail(w)
        BY <1>1, <1>2, <1>3, <2>4, <4>1, <4>2, <4>3
      <4>5. /\ g \in FRAM /\ Beside(f, g, s)
            /\ Filling(g, q, s, p, v) \/ (v = <<>> /\ IsFilled(g, q, s, p))
        BY <4>4, FillingWrites
      <4>6. QED
        BY <4>2, <4>3, <4>5 DEF IsFilled
    <3>2. TimelineTypes' /\ Outside(s)'
      BY <1>1, <1>4, <1>5, <2>2, <3>1, HandlerWrites
    <3>3. InTime(p.time)'
      BY <1>3, <2>4 DEF InTime, Steady
    <3>4. CASE Filling(fram', owed', s, p, rest')
      <4>a. InWrite(s)'
        BY <3>2, <3>3, <3>4 DEF InWrite
      <4>b. rest' # <<>>
        BY <3>4, FillingLeft
      <4>1. InWrite(s)' /\ rest' # <<>>
        BY <4>a, <4>b
      <4>2. QED
        BY <1>3, <1>5, <3>2, <4>1 DEF TimelineInv, Phases, Nothing, Blank
    <3>5. CASE /\ rest' = <<>> /\ PendingAt(fram', s) /\ fram'.head[s] \in owed'
               /\ Time(fram', s) = p.time
               /\ \A u \in Slots \ {s} : Time(fram', u) # Time(fram', s)
      <4>1. InTime(Time(fram, s))'
        BY <3>3, <3>5 DEF InTime, Steady
      <4>2. Between'
        BY <3>2, <3>5, <4>1, ReturnFilledNext
      <4>3. QED
        BY <1>3, <1>5, <3>2, <3>5, <4>2 DEF TimelineInv, Phases, Nothing, Blank
    <3>6. QED
      BY <3>1, <3>4, <3>5
  <2>5. QED
    BY <2>1, <2>3, <2>4 DEF InWrite
<1>6. CASE rec_data # Nothing
  <2>1. PICK s \in Slots : Taken(s)
    BY <1>6 DEF TimelineInv, Phases
  <2>2. Dropping(fram, s, rest)
    BY <1>1, <2>1 DEF Taken
  <2>3. /\ fram' \in FRAM /\ Beside(fram, fram', s)
        /\ fram'.head[s] = fram.head[s] /\ fram'.tail[s] = fram.tail[s]
        /\ Dropping(fram', s, rest') \/ (rest' = <<>> /\ Time(fram', s) = 0)
    BY <1>1, <1>2, <1>3, <2>2, DroppingWrites
  <2>4. Ready(s)'
    BY <1>1, <1>6, <2>1, <2>3, ReadyKept DEF Taken
  <2>5. Alike(fram, {s}, cuts)'
    BY <1>3, <2>1, <2>3, AlikeBeside DEF Taken
  <2>6. Punctual({s}, 1)'
    BY <1>3, <2>1, <2>3, PunctualBeside DEF Taken
  <2>7. Taken(s)'
    BY <1>3, <2>1, <2>3, <2>4, <2>5, <2>6 DEF Taken
  <2>8. QED
    BY <1>3, <1>4, <1>6, <2>3, <2>7 DEF TimelineInv, Phases, Nothing, Blank
<1>7. QED
  BY <1>5, <1>6

(* A second passes in the middle of a handler, or between two. *)
LEMMA InTimeClock ==
    ASSUME TimelineTypes, Tick, NEW t \in Nat, InTime(t)
    PROVE  InTime(t)'
<1> SUFFICES ASSUME Steady' PROVE (utime < t \/ (utime = t /\ looks = 0))'
  BY DEF InTime
<1>1. /\ Steady /\ looks = Calls /\ utime' = utime + 1 /\ looks' = 0
  BY TimelineNumbers DEF Steady, Tick, Clock
<1>2. utime < t
  BY <1>1, TimelineNumbers DEF InTime
<1>3. QED
  BY <1>1, <1>2, TimelineNumbers

LEMMA ReadyClock ==
    ASSUME TimelineTypes, Tick, NEW s \in Slots, Ready(s)
    PROVE  Ready(s)'
<1>1. UNCHANGED <<fram, rec_data, owed, strange, cuts>> /\ utime' = utime + 1
  BY DEF Tick, Clock, loop
<1>2. ASSUME AsOwed PROVE AsOwed'
  <2>1. rec_data.packet.time \in Nat
    BY <1>2 DEF AsOwed, TimelineTypes, Packets
  <2>2. utime \in Nat
    BY TimelineNumbers
  <2>3. rec_data.packet.time <= utime + 1
    BY <1>2, <2>1, <2>2 DEF AsOwed
  <2>4. QED
    BY <1>1, <1>2, <2>3 DEF AsOwed, Intact
<1>3. Known' = Known
  BY <1>1 DEF Known, Intact
<1>4. QED
  BY <1>1, <1>2, <1>3 DEF Ready

LEMMA FramClockKept ==
    ASSUME TimelineInv, Tick
    PROVE  TimelineInv'
<1>1. /\ TimelineTypes /\ Tick /\ utime < MaxTime /\ utime' = utime + 1 /\ looks' = 0
      /\ UNCHANGED <<fram, active, rest, rec_data, agenda, wipe, owed, strange, cuts>>
      /\ steady' = (steady /\ looks = Calls)
  BY DEF TimelineInv, Tick, Clock, loop
<1>2. TimelineTypes'
  <2>1. utime' \in 0..MaxTime /\ looks' \in 0..Calls /\ steady' \in BOOLEAN
    <3>1. MaxTime \in Nat /\ Calls \in Nat
      BY FramAssumption DEF FramAssumption
    <3>2. QED
      BY <1>1, <3>1, TimelineNumbers
  <2>2. QED
    BY <1>1, <2>1 DEF TimelineTypes
<1>3. CASE rec_data = Nothing /\ rest = <<>>
  <2>1. Between
    BY <1>3 DEF TimelineInv, Phases
  <2>2. Punctual({}, 0)'
    BY <1>1, <2>1, PunctualClock DEF Between, Tick
  <2>3. Between'
    BY <1>1, <2>1, <2>2 DEF Between
  <2>4. QED
    BY <1>1, <1>2, <1>3, <2>3 DEF TimelineInv, Phases, Nothing, Blank
<1>4. CASE rec_data = Nothing /\ rest # <<>>
  <2>1. PICK s \in Slots : InWrite(s)
    BY <1>4 DEF TimelineInv, Phases
  <2>2. Punctual({s}, 0)'
    BY <1>1, <2>1, PunctualClock DEF InWrite, Outside, Tick
  <2>3. Outside(s)'
    BY <1>1, <2>1, <2>2 DEF InWrite, Outside
  <2>4. ASSUME NEW p \in Packets, Filling(fram, owed, s, p, rest), InTime(p.time)
        PROVE  Filling(fram, owed, s, p, rest)' /\ InTime(p.time)'
    <3>1. p.time \in Nat
      BY DEF Packets
    <3>2. InTime(p.time)'
      BY <1>1, <2>4, <3>1, InTimeClock
    <3>3. QED
      BY <1>1, <2>4, <3>2
  <2>5. Dropping(fram, s, rest) => Dropping(fram, s, rest)'
    BY <1>1
  <2>6. InWrite(s)'
    BY <2>1, <2>3, <2>4, <2>5 DEF InWrite
  <2>7. QED
    BY <1>1, <1>2, <1>4, <2>6 DEF TimelineInv, Phases, Nothing, Blank
<1>5. CASE rec_data # Nothing
  <2>1. PICK s \in Slots : Taken(s)
    BY <1>5 DEF TimelineInv, Phases
  <2>2. Punctual({s}, 1)'
    BY <1>1, <2>1, PunctualClock DEF Taken, Tick
  <2>3. Ready(s)'
    BY <1>1, <2>1, ReadyClock DEF Taken
  <2>4. Taken(s)'
    BY <1>1, <2>1, <2>2, <2>3 DEF Taken
  <2>5. QED
    BY <1>1, <1>2, <1>5, <2>4 DEF TimelineInv, Phases, Nothing, Blank
<1>6. QED
  BY <1>3, <1>4, <1>5

(* The power fails, or the program is restarted: the handler is over. *)
LEMMA Boots ==
    ASSUME TimelineInv, Boot, cuts' \in Nat, NEW n, n = cuts',
           Accounts(fram, owed, {}, {}, n - strange), Alike(fram, {}, n)
    PROVE  TimelineInv'
<1>1. /\ utime' \in {0, utime} /\ rest' = <<>> /\ rec_data' = Nothing /\ agenda' = <<>>
      /\ wipe' = 0 /\ looks' = 0 /\ steady' = FALSE
      /\ UNCHANGED <<fram, active, owed, strange>>
  BY DEF Boot
<1>2. TimelineTypes'
  <2>1. /\ FRAM_TLC_MAX \in Nat /\ MaxTime \in Nat /\ Calls \in Nat
        /\ <<>> \in Seq([cmd : Commands, cycle : Nat])
    BY FramAssumption DEF FramAssumption
  <2>2. utime' \in 0..MaxTime /\ wipe' \in 0..FRAM_TLC_MAX /\ looks' \in 0..Calls
    BY <1>1, <2>1 DEF TimelineInv, TimelineTypes
  <2>3. rec_data' \in Copies
    BY <1>1 DEF Copies, Nothing
  <2>4. QED
    BY <1>1, <2>1, <2>2, <2>3 DEF TimelineInv, TimelineTypes
<1>3. Punctual({}, 0)'
  BY <1>1, PunctualLost
<1>4. Between'
  BY <1>1, <1>3 DEF Between
<1>5. rest' = <<>> /\ rec_data' = Nothing
  BY <1>1
<1>6. QED
  BY <1>2, <1>4, <1>5 DEF TimelineInv, Phases

LEMMA MoreDamage ==
    ASSUME NEW f, NEW o, IsFiniteSet(o), NEW n \in Int, Accounts(f, o, {}, {}, n)
    PROVE  Accounts(f, o, {}, {}, n + 1)
<1>1. PICK G \in SUBSET (Occupied(f) \ {}) : Sound(f, o, G) /\ Damage(f, o, {}, {}, G) <= n
  BY DEF Accounts
<1>2. Damage(f, o, {}, {}, G) \in Nat
  BY DamageFinite
<1>3. Damage(f, o, {}, {}, G) <= n + 1
  BY <1>1, <1>2
<1>4. QED
  BY <1>1, <1>3 DEF Accounts

LEMMA MoreAlike ==
    ASSUME NEW f, NEW n \in Nat, Alike(f, {}, n)
    PROVE  Alike(f, {}, n + 1)
<1>1. \A t : Cardinality(AtTime(f, {}, t)) \in Nat
  BY AtTimeSlots
<1>2. QED
  BY <1>1 DEF Alike

LEMMA FramPowerLossKept ==
    ASSUME TimelineInv, PowerLoss
    PROVE  TimelineInv'
<1>1. /\ TimelineTypes /\ Boot /\ cuts \in Nat /\ cuts - strange \in Int /\ IsFiniteSet(owed)
      /\ strange \in Nat
  BY TimelineNumbers DEF TimelineInv, PowerLoss
<1>2. PICK n : n = cuts'
  OBVIOUS
<1>3. n = cuts + 1 /\ n \in Nat /\ n - strange = (cuts - strange) + 1
  BY <1>1, <1>2 DEF PowerLoss
<1>4. /\ Accounts(fram, owed, {}, {}, (cuts - strange) + 1)
      /\ Alike(fram, {}, cuts + 1)
  <2>1. CASE rec_data = Nothing /\ rest = <<>>
    <3>1. Between
      BY <2>1 DEF TimelineInv, Phases
    <3>2. QED
      BY <1>1, <3>1, MoreDamage, MoreAlike DEF Between
  <2>2. CASE rec_data = Nothing /\ rest # <<>>
    <3>1. PICK s \in Slots : InWrite(s)
      BY <2>2 DEF TimelineInv, Phases
    <3>2. Accounts(fram, owed, {}, {}, (cuts - strange) + 1)
      BY <1>1, <3>1, WriteInterrupted DEF InWrite, Outside
    <3>3. Alike(fram, {}, cuts + 1)
      BY <1>1, <3>1, AlikeExcept DEF InWrite, Outside
    <3>4. QED
      BY <3>2, <3>3
  <2>3. CASE rec_data # Nothing
    <3>1. PICK s \in Slots : Taken(s)
      BY <2>3 DEF TimelineInv, Phases
    <3>2. PICK G \in SUBSET (Occupied(fram) \ {s}) :
            /\ Sound(fram, owed, G)
            /\ \/ Damage(fram, owed, {s}, Known, G) + 1 <= cuts - strange
               \/ Damage(fram, owed, {s}, Known, G) <= cuts - strange
      BY <3>1 DEF Taken, Ready
    <3>3. Damage(fram, owed, {s}, Known, G) \in Nat
      BY <1>1, DamageFinite
    <3>4. Damage(fram, owed, {s}, Known, G) <= cuts - strange
      BY <1>1, <3>2, <3>3
    <3>5. Known \subseteq {rec_data.packet}
      BY DEF Known
    <3>6. s \in Occupied(fram) => Known \subseteq Held(fram)
      BY <3>1 DEF Known, Intact, Taken, Held, Whole
    <3>7. Accounts(fram, owed, {}, {}, (cuts - strange) + 1)
      BY <1>1, <3>2, <3>4, <3>5, <3>6, Interrupted
    <3>8. Alike(fram, {}, cuts + 1)
      BY <1>1, <3>1, AlikeExcept DEF Taken
    <3>9. QED
      BY <3>7, <3>8
  <2>4. QED
    BY <2>1, <2>2, <2>3
<1>5. Accounts(fram, owed, {}, {}, n - strange) /\ Alike(fram, {}, n)
  BY <1>3, <1>4
<1>6. QED
  BY <1>1, <1>2, <1>3, <1>5, Boots

LEMMA FramRestartKept ==
    ASSUME TimelineInv, Restart
    PROVE  TimelineInv'
<1>1. Between
  BY IdlePhase DEF Restart
<1>2. cuts' = cuts /\ Boot /\ cuts \in Nat
  BY TimelineNumbers DEF Restart, TimelineInv
<1>3. QED
  BY <1>1, <1>2, Boots DEF Between

LEMMA FramUnchanged ==
    ASSUME TimelineInv, UNCHANGED vars
    PROVE  TimelineInv'
<1>1. /\ UNCHANGED <<fram, active, utime, rest, rec_data, agenda, wipe>>
      /\ UNCHANGED <<owed, strange, cuts, looks, steady>>
  BY DEF vars, loop, hist
<1>2. TimelineTypes'
  BY <1>1 DEF TimelineInv, TimelineTypes
<1>3. rec_data' = Nothing <=> rec_data = Nothing
  BY <1>1 DEF Nothing, Blank
<1>4. Between => Between'
  BY <1>1 DEF Between, Punctual, Steady
<1>5. ASSUME NEW s \in Slots, InWrite(s) PROVE InWrite(s)'
  BY <1>1, <1>5 DEF InWrite, Outside, Punctual, Steady, InTime
<1>6. ASSUME NEW s \in Slots, Taken(s) PROVE Taken(s)'
  <2>1. Known' = Known /\ (AsOwed <=> AsOwed')
    BY <1>1 DEF Known, AsOwed, Intact
  <2>2. Ready(s)'
    BY <1>1, <1>6, <2>1 DEF Taken, Ready
  <2>3. QED
    BY <1>1, <1>6, <2>2 DEF Taken, Punctual, Steady
<1>7. QED
  BY <1>1, <1>2, <1>3, <1>4, <1>5, <1>6 DEF TimelineInv, Phases

LEMMA FramKept ==
    ASSUME TimelineInv, Next \/ UNCHANGED vars
    PROVE  TimelineInv'
BY FramWriteKept, DeployNextKept, ClearNextKept, SearchKept, ExecutionKept, FramGroundKept,
   FramClockKept, FramPowerLossKept, FramRestartKept, FramUnchanged
   DEF Next, MainLoop, Dispatch

LEMMA FramInit ==
    ASSUME Init
    PROVE  TimelineInv
<1>1. /\ MaxTime \in Nat /\ FRAM_TLC_MAX \in Nat /\ Calls \in Nat \ {0} /\ Base \in Nat
  BY FramAssumption DEF FramAssumption
<1>2. /\ \A s \in Slots : fram.hi[s] = 0 /\ fram.lo[s] = 0
      /\ utime = 0 /\ rest = <<>> /\ rec_data = Nothing /\ agenda = <<>> /\ wipe = 0
      /\ owed = {} /\ strange = 0 /\ cuts = 0 /\ looks = 0 /\ steady = TRUE
      /\ active = DOMAIN Block
  BY DEF Init
<1>3. TimelineTypes
  <2>1. fram \in FRAM
    BY DEF Init, FRAM
  <2>2. rec_data \in Copies /\ agenda \in Seq([cmd : Commands, cycle : Nat])
    BY <1>2 DEF Copies, Nothing
  <2>3. IsFiniteSet(owed)
    BY <1>2, FS_EmptySet
  <2>4. QED
    BY <1>1, <1>2, <2>1, <2>2, <2>3 DEF TimelineTypes
<1>4. \A s \in Slots : Time(fram, s) = 0
  <2>1. 0 * Base + 0 = 0
    BY <1>1
  <2>2. QED
    BY <1>2, <2>1 DEF Time
<1>5. Occupied(fram) = {}
  BY <1>4 DEF Occupied
<1>6. Accounts(fram, owed, {}, {}, cuts - strange)
  <2>1. Sound(fram, owed, {})
    BY DEF Sound
  <2>2. Gone(fram, owed, {}, {}) = {} /\ (Occupied(fram) \ {}) \ {} = {}
    BY <1>2, <1>5 DEF Gone
  <2>3. Damage(fram, owed, {}, {}, {}) = 0
    BY <2>2, FS_EmptySet DEF Damage
  <2>4. Damage(fram, owed, {}, {}, {}) <= cuts - strange
    BY <1>2, <2>3
  <2>5. QED
    BY <2>1, <2>4 DEF Accounts
<1>7. Alike(fram, {}, cuts)
  <2> SUFFICES ASSUME NEW t \in Nat \ {0} PROVE Cardinality(AtTime(fram, {}, t)) <= cuts + 1
    BY DEF Alike
  <2>1. AtTime(fram, {}, t) = {}
    BY <1>4 DEF AtTime
  <2>2. QED
    BY <1>2, <2>1, FS_EmptySet
<1>8. Punctual({}, 0)
  BY <1>2, <1>5 DEF Punctual
<1>9. QED
  BY <1>2, <1>3, <1>6, <1>7, <1>8 DEF TimelineInv, Phases, Between

LEMMA TimelineSteps ==
    ASSUME [StorageNext]_storageVars
    PROVE  Next \/ UNCHANGED vars
BY Zenon DEF StorageNext, FTLStep, SBCStep, RECStep, PWRStep, storageVars

LEMMA TimelineAlways == StorageSpec => []TimelineInv
<1>1. StorageInit => TimelineInv
  BY FramInit DEF StorageInit
<1>2. TimelineInv /\ [StorageNext]_storageVars => TimelineInv'
  BY TimelineSteps, FramKept
<1> QED
  BY <1>1, <1>2, PTL DEF StorageSpec

(* A power loss costs at most one command: one that is never executed, or one execution of  *)
(* what was not asked for, wherever between two writes it comes, for every number of slots,  *)
(* of blocks and of power losses (FRAM_cmd_manager.cpp, FRAM_TL_CmdDispatcher.cpp).        *)
THEOREM DamageLimited == StorageSpec => []DamageBounded
<1>1. TimelineInv => DamageBounded
  <2> SUFFICES ASSUME TimelineInv PROVE DamageBounded
    OBVIOUS
  <2>1. /\ cuts \in Nat /\ strange \in Nat /\ cuts - strange \in Int /\ IsFiniteSet(owed)
    BY TimelineNumbers DEF TimelineInv
  <2>2. SUFFICES \E B, here, G : /\ Damage(fram, owed, B, here, G) <= cuts - strange
                                 /\ here \subseteq Held(fram) \cup {rec_data.packet}
    <3>1. PICK B, here, G : /\ Damage(fram, owed, B, here, G) <= cuts - strange
                            /\ here \subseteq Held(fram) \cup {rec_data.packet}
      BY <2>2
    <3>2. PICK more : more = {rec_data.packet}
      OBVIOUS
    <3>3. /\ Cardinality(owed \ (Held(fram) \cup more)) \in Nat
          /\ Cardinality(owed \ (Held(fram) \cup more)) <= cuts - strange
      BY <2>1, <3>1, <3>2, LostIsDamage
    <3>4. Lost = owed \ (Held(fram) \cup more)
      BY <3>2 DEF Lost
    <3>5. QED
      BY <2>1, <3>3, <3>4 DEF DamageBounded
  <2>3. CASE rec_data = Nothing /\ rest = <<>>
    BY <2>3 DEF TimelineInv, Phases, Between, Accounts
  <2>4. CASE rec_data = Nothing /\ rest # <<>>
    <3>1. PICK s \in Slots : InWrite(s)
      BY <2>4 DEF TimelineInv, Phases
    <3>2. Here(fram, s) \subseteq Held(fram)
      BY DEF Here, Held, PendingAt, Occupied
    <3>3. QED
      BY <3>1, <3>2 DEF InWrite, Outside, Accounts
  <2>5. CASE rec_data # Nothing
    <3>1. PICK s \in Slots : Taken(s)
      BY <2>5 DEF TimelineInv, Phases
    <3>2. PICK G \in SUBSET (Occupied(fram) \ {s}) :
            \/ Damage(fram, owed, {s}, Known, G) + 1 <= cuts - strange
            \/ Damage(fram, owed, {s}, Known, G) <= cuts - strange
      BY <3>1 DEF Taken, Ready
    <3>3. Damage(fram, owed, {s}, Known, G) \in Nat
      BY <2>1, DamageFinite
    <3>4. Damage(fram, owed, {s}, Known, G) <= cuts - strange
      BY <2>1, <3>2, <3>3
    <3>5. Known \subseteq Held(fram) \cup {rec_data.packet}
      BY DEF Known
    <3>6. QED
      BY <3>4, <3>5
  <2>6. QED
    BY <2>3, <2>4, <2>5
<1> QED
  BY <1>1, TimelineAlways, PTL

(* As long as the clock runs, the dispatcher has its calls and the ground registers for the   *)
(* future, no command of the FRAM is left when its second is over, as long as there were     *)
(* fewer power losses than calls in a second (FRAM_TL_CmdDispatcher.cpp).               *)
THEOREM Timely == StorageSpec => []OnTime
<1>1. TimelineInv => OnTime
  <2>1. TimelineInv /\ Idle => Between
    BY IdlePhase
  <2>2. QED
    BY <2>1 DEF OnTime, Between, Punctual, Steady
<1> QED
  BY <1>1, TimelineAlways, PTL
===============================================================================
