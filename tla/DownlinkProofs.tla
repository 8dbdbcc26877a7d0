----------------------------- MODULE DownlinkProofs -----------------------------
(***************************************************************************)
(* The transmitter for every duration, every length of its list and every number  *)
(* of commands, locks and restarts: the radio is told its settings although the     *)
(* list may refuse them, and a lock does not shorten a transmission.              *)
(***************************************************************************)
EXTENDS Downlink, Integers, TLAPS

Slots  == {"RT_CMD", "STX_TRANSMIT", "STRX_UPDATE", "COMMAND"}

Tx == [on : BOOLEAN, count : Nat, burst : Nat, left : Int, rt : Seq(Settings),
       told : SUBSET Settings, cut : BOOLEAN, bare : BOOLEAN]

(* The dispatcher has just taken one.                                             *)
Room(s) == IF s = "STX_TRANSMIT" THEN ListMax - 1 ELSE ListMax

(* The count of the time on or off tells how many commands have left the list since it  *)
(* began, unless it followed an off time of 0.                                    *)
SettingsLeave(t, s) ==
    ~(t.on /\ t.cut) /\ Len(t.rt) > 0 => Len(t.rt) + t.count <= Room(s)

(* After a time on that was not cut the list is empty.                              *)
Idle(t) == ~t.on /\ ~t.cut => Len(t.rt) = 0

Told(t) == t.on /\ ~t.bare => Settings \subseteq t.told \cup {t.rt[i] : i \in DOMAIN t.rt}

(* The transmitter t in the slot s.                                                *)
Listed(t, s) == t \in Tx /\ Len(t.rt) <= Room(s)

Good(t, s) ==
    /\ Listed(t, s)
    /\ t.burst > 0 => t.on
    /\ SettingsLeave(t, s) /\ Idle(t) /\ Told(t)

(* What the handlers of a lock judge by.                                          *)
OnTime(t, d) == IF t.burst > 0 THEN t.burst ELSE d[1]

LeftIsTrue(t, d) ==
    t.on /\ t.count > 1 => /\ t.left = Remaining(OnTime(t, d), t.count - 1)
                          /\ t.count - 1 < OnTime(t, d) * PerSec

Judged ==
    slot = "STRX_UPDATE" =>
        LeftIsTrue(tx, dur) /\ (watch /\ tx.on /\ tx.count > 1 => age <= Watch)

Stored == [dur : Nat \X Nat, reply : [Locks -> Nat], otc : BOOLEAN, watch : BOOLEAN]

Configuration ==
    /\ dur \in Nat \X Nat /\ reply \in [Locks -> Nat]
    /\ otc \in BOOLEAN /\ watch \in BOOLEAN
    /\ fram \in Stored

Types == slot \in Slots /\ otc_count \in Nat /\ age \in Nat /\ Configuration

IInv == Types /\ Good(tx, slot) /\ Judged

-------------------------------------------------------------------------------
(* The list. *)

LEMMA ListBounds ==
    /\ ListMax \in Nat /\ PerSec \in Nat /\ Watch \in Nat
    /\ 4 <= ListMax /\ ListMax <= PerSec
BY DownlinkAssumption, ListAssumption

(* What a command that is added leaves of the list.                               *)
Added(rt, cmd, list) ==
    /\ list \in Seq(Settings) /\ Len(rt) <= Len(list) /\ Len(list) <= ListMax
    /\ \A i \in 1..Len(rt) : list[i] = rt[i]
    /\ \A i \in 1..Len(list) : i > Len(rt) => list[i] = cmd
    /\ Len(rt) < ListMax => Len(list) = Len(rt) + 1 /\ list[Len(rt) + 1] = cmd

LEMMA Adding ==
    ASSUME NEW rt \in Seq(Settings), NEW cmd \in Settings, Len(rt) <= ListMax
    PROVE  Added(rt, cmd, add_rt_cmd(rt, cmd))
BY ListBounds DEF add_rt_cmd, Added

(* What is in the list stays where it is, and nothing but settings follow.           *)
Extends(rt, list) ==
    /\ list \in Seq(Settings)
    /\ Len(rt) <= Len(list) /\ Len(list) <= ListMax
    /\ \A i \in 1..Len(rt) : list[i] = rt[i]
    /\ \A i \in 1..Len(list) : i > Len(rt) => list[i] \in Settings

Members(list) == {list[i] : i \in DOMAIN list}

LEMMA Configuring ==
    ASSUME NEW rt \in Seq(Settings), Len(rt) <= ListMax
    PROVE  /\ Extends(rt, ConfigureRadio(rt))
           /\ Len(rt) + 3 <= ListMax => /\ Len(ConfigureRadio(rt)) = Len(rt) + 3
                                        /\ Settings \subseteq Members(ConfigureRadio(rt))
<1> DEFINE a == add_rt_cmd(rt, "SET_TX_PWR")
           b == add_rt_cmd(a, "SET_OUTPORT")
           c == add_rt_cmd(b, "SET_BR")
<1>0. {"SET_TX_PWR", "SET_OUTPORT", "SET_BR"} = Settings
  BY DEF Settings
<1>1. ConfigureRadio(rt) = c
  BY DEF ConfigureRadio
<1>2. /\ a \in Seq(Settings) /\ Len(rt) <= Len(a) /\ Len(a) <= ListMax
      /\ \A i \in 1..Len(rt) : a[i] = rt[i]
      /\ \A i \in 1..Len(a) : i > Len(rt) => a[i] = "SET_TX_PWR"
      /\ Len(rt) < ListMax => Len(a) = Len(rt) + 1 /\ a[Len(rt) + 1] = "SET_TX_PWR"
  <2>1. rt \in Seq(Settings) /\ Len(rt) <= ListMax /\ "SET_TX_PWR" \in Settings
    BY <1>0
  <2>2. Added(rt, "SET_TX_PWR", a)
    BY <2>1, Adding
  <2> HIDE DEF a
  <2> QED
    BY <2>2 DEF Added
<1> HIDE DEF a
<1>3. /\ b \in Seq(Settings) /\ Len(a) <= Len(b) /\ Len(b) <= ListMax
      /\ \A i \in 1..Len(a) : b[i] = a[i]
      /\ \A i \in 1..Len(b) : i > Len(a) => b[i] = "SET_OUTPORT"
      /\ Len(a) < ListMax => Len(b) = Len(a) + 1 /\ b[Len(a) + 1] = "SET_OUTPORT"
  <2>1. a \in Seq(Settings) /\ Len(a) <= ListMax /\ "SET_OUTPORT" \in Settings
    BY <1>0, <1>2
  <2>2. Added(a, "SET_OUTPORT", b)
    BY <2>1, Adding
  <2> HIDE DEF b
  <2> QED
    BY <2>2 DEF Added
<1> HIDE DEF b
<1>4. /\ c \in Seq(Settings) /\ Len(b) <= Len(c) /\ Len(c) <= ListMax
      /\ \A i \in 1..Len(b) : c[i] = b[i]
      /\ \A i \in 1..Len(c) : i > Len(b) => c[i] = "SET_BR"
      /\ Len(b) < ListMax => Len(c) = Len(b) + 1 /\ c[Len(b) + 1] = "SET_BR"
  <2>1. b \in Seq(Settings) /\ Len(b) <= ListMax /\ "SET_BR" \in Settings
    BY <1>0, <1>3
  <2>2. Added(b, "SET_BR", c)
    BY <2>1, Adding
  <2> HIDE DEF c
  <2> QED
    BY <2>2 DEF Added
<1> HIDE DEF c
<1>5. Len(rt) \in Nat /\ Len(a) \in Nat /\ Len(b) \in Nat /\ Len(c) \in Nat /\ ListMax \in Nat
  BY <1>2, <1>3, <1>4, ListBounds
<1>6. ASSUME NEW i \in 1..Len(rt) PROVE c[i] = rt[i]
  <2>1. i \in 1..Len(a) /\ i \in 1..Len(b)
    BY <1>2, <1>3, <1>5
  <2>2. a[i] = rt[i]
    BY <1>2
  <2>3. b[i] = a[i] /\ c[i] = b[i]
    BY <1>3, <1>4, <2>1
  <2> QED
    BY <2>2, <2>3
<1>7. ASSUME NEW i \in 1..Len(c), i > Len(rt) PROVE c[i] \in Settings
  <2>1. CASE i > Len(b)
    BY <1>0, <1>4, <2>1
  <2>2. CASE i <= Len(b) /\ i > Len(a)
    BY <1>0, <1>3, <1>4, <1>5, <2>2
  <2>3. CASE i <= Len(a)
    <3>1. i \in 1..Len(a) /\ i \in 1..Len(b)
      BY <1>3, <1>5, <2>3
    <3>2. c[i] = a[i]
      BY <1>3, <1>4, <3>1
    <3> QED
      BY <1>0, <1>2, <1>7, <3>1, <3>2
  <2> QED
    BY <1>5, <2>1, <2>2, <2>3
<1>8. Extends(rt, c)
  <2>1. Len(rt) <= Len(c)
    BY <1>2, <1>3, <1>4, <1>5
  <2> QED
    BY <1>4, <1>6, <1>7, <2>1 DEF Extends
<1>9. ASSUME Len(rt) + 3 <= ListMax
      PROVE  Len(c) = Len(rt) + 3 /\ Settings \subseteq Members(c)
  <2>1. Len(a) = Len(rt) + 1 /\ a[Len(rt) + 1] = "SET_TX_PWR"
    BY <1>2, <1>5, <1>9
  <2>2. Len(b) = Len(rt) + 2 /\ b[Len(rt) + 2] = "SET_OUTPORT"
    BY <1>3, <1>5, <1>9, <2>1
  <2>3. Len(c) = Len(rt) + 3 /\ c[Len(rt) + 3] = "SET_BR"
    BY <1>4, <1>5, <1>9, <2>2
  <2>4. b[Len(rt) + 1] = "SET_TX_PWR"
    BY <1>3, <1>5, <2>1
  <2>5. c[Len(rt) + 1] = "SET_TX_PWR" /\ c[Len(rt) + 2] = "SET_OUTPORT"
    BY <1>4, <1>5, <2>2, <2>4
  <2>6. DOMAIN c = 1..Len(c)
    BY <1>4
  <2>7. {Len(rt) + 1, Len(rt) + 2, Len(rt) + 3} \subseteq DOMAIN c
    BY <1>5, <2>3, <2>6
  <2> QED
    BY <1>0, <2>3, <2>5, <2>7 DEF Members
<1> QED
  BY <1>1, <1>8, <1>9
-------------------------------------------------------------------------------
(* What is done with the transmitter. *)

LEMMA TxFields ==
    ASSUME NEW t \in Tx
    PROVE  /\ t.on \in BOOLEAN /\ t.count \in Nat /\ t.burst \in Nat /\ t.left \in Int
           /\ t.rt \in Seq(Settings) /\ t.told \in SUBSET Settings
           /\ t.cut \in BOOLEAN /\ t.bare \in BOOLEAN
           /\ Len(t.rt) \in Nat /\ DOMAIN t.rt = 1..Len(t.rt)
           /\ \A i \in 1..Len(t.rt) : t.rt[i] \in Settings
BY DEF Tx

LEMMA Rooms ==
    ASSUME NEW s
    PROVE  /\ Room(s) \in Nat /\ Room(s) <= ListMax /\ ListMax - 1 <= Room(s)
           /\ s = "STX_TRANSMIT" => Room(s) = ListMax - 1
           /\ s # "STX_TRANSMIT" => Room(s) = ListMax
BY ListBounds DEF Room

(* The fields that the operations change. *)
LEMMA OffFields ==
    ASSUME NEW t \in Tx, NEW cut \in BOOLEAN
    PROVE  /\ PowerDown(t, cut) \in Tx
           /\ PowerDown(t, cut).rt = t.rt /\ ~PowerDown(t, cut).on
           /\ PowerDown(t, cut).count = 0 /\ PowerDown(t, cut).burst = 0
           /\ PowerDown(t, cut).cut = cut
<1> DEFINE a == [t EXCEPT !.on = FALSE]
           b == [a EXCEPT !.count = 0]
           c == [b EXCEPT !.burst = 0]
           d == [c EXCEPT !.left = 0]
           e == [d EXCEPT !.cut = cut]
<1>1. /\ a \in Tx /\ a.on = FALSE
      /\ a.count = t.count /\ a.burst = t.burst /\ a.left = t.left /\ a.rt = t.rt
      /\ a.told = t.told /\ a.cut = t.cut /\ a.bare = t.bare
  BY DEF Tx
<1> HIDE DEF a
<1>2. /\ b \in Tx /\ b.count = 0
      /\ b.on = a.on /\ b.burst = a.burst /\ b.left = a.left /\ b.rt = a.rt
      /\ b.told = a.told /\ b.cut = a.cut /\ b.bare = a.bare
  BY <1>1 DEF Tx
<1> HIDE DEF b
<1>3. /\ c \in Tx /\ c.burst = 0
      /\ c.on = b.on /\ c.count = b.count /\ c.left = b.left /\ c.rt = b.rt
      /\ c.told = b.told /\ c.cut = b.cut /\ c.bare = b.bare
  BY <1>2 DEF Tx
<1> HIDE DEF c
<1>4. /\ d \in Tx /\ d.left = 0
      /\ d.on = c.on /\ d.count = c.count /\ d.burst = c.burst /\ d.rt = c.rt
      /\ d.told = c.told /\ d.cut = c.cut /\ d.bare = c.bare
  <2>1. c \in Tx
    BY <1>3
  <2> HIDE DEF c
  <2> QED
    BY <2>1 DEF Tx
<1> HIDE DEF d
<1>5. /\ e \in Tx /\ e.cut = cut
      /\ e.on = d.on /\ e.count = d.count /\ e.burst = d.burst /\ e.left = d.left
      /\ e.rt = d.rt /\ e.told = d.told /\ e.bare = d.bare
  BY <1>4 DEF Tx
<1> HIDE DEF e
<1>6. PowerDown(t, cut) = e
  BY DEF PowerDown, a, b, c, d, e
<1> QED
  BY <1>1, <1>2, <1>3, <1>4, <1>5, <1>6

LEMMA OnFields ==
    ASSUME NEW t \in Tx, NEW bare \in BOOLEAN
    PROVE  /\ PowerUp(t, bare) \in Tx
           /\ PowerUp(t, bare).rt = t.rt /\ PowerUp(t, bare).on
           /\ PowerUp(t, bare).count = 0 /\ ~PowerUp(t, bare).cut
           /\ PowerUp(t, bare).burst = t.burst /\ PowerUp(t, bare).left = t.left
           /\ PowerUp(t, bare).told = IF t.on THEN t.told ELSE {}
           /\ PowerUp(t, bare).bare = IF t.on THEN t.bare ELSE bare
<1> DEFINE told == IF t.on THEN t.told ELSE {}
           now == IF t.on THEN t.bare ELSE bare
<1>1. told \in SUBSET Settings /\ now \in BOOLEAN
  BY TxFields
<1> HIDE DEF told, now
<1> DEFINE a == [t EXCEPT !.on = TRUE]
           b == [a EXCEPT !.count = 0]
           c == [b EXCEPT !.cut = FALSE]
           d == [c EXCEPT !.told = told]
           e == [d EXCEPT !.bare = now]
<1>3. /\ a \in Tx /\ a.on = TRUE
      /\ a.count = t.count /\ a.burst = t.burst /\ a.left = t.left /\ a.rt = t.rt
      /\ a.told = t.told /\ a.cut = t.cut /\ a.bare = t.bare
  BY DEF Tx
<1> HIDE DEF a
<1>4. /\ b \in Tx /\ b.count = 0
      /\ b.on = a.on /\ b.burst = a.burst /\ b.left = a.left /\ b.rt = a.rt
      /\ b.told = a.told /\ b.cut = a.cut /\ b.bare = a.bare
  BY <1>3 DEF Tx
<1> HIDE DEF b
<1>5. /\ c \in Tx /\ c.cut = FALSE
      /\ c.on = b.on /\ c.count = b.count /\ c.burst = b.burst /\ c.left = b.left
      /\ c.rt = b.rt /\ c.told = b.told /\ c.bare = b.bare
  BY <1>4 DEF Tx
<1> HIDE DEF c
<1>6. /\ d \in Tx /\ d.told = told
      /\ d.on = c.on /\ d.count = c.count /\ d.burst = c.burst /\ d.left = c.left
      /\ d.rt = c.rt /\ d.cut = c.cut /\ d.bare = c.bare
  BY <1>1, <1>5 DEF Tx
<1> HIDE DEF d
<1>7. /\ e \in Tx /\ e.bare = now
      /\ e.on = d.on /\ e.count = d.count /\ e.burst = d.burst /\ e.left = d.left
      /\ e.rt = d.rt /\ e.told = d.told /\ e.cut = d.cut
  BY <1>1, <1>6 DEF Tx
<1> HIDE DEF e
<1>8. PowerUp(t, bare) = e
  BY DEF PowerUp, a, b, c, d, e, told, now
<1> QED
  BY <1>3, <1>4, <1>5, <1>6, <1>7, <1>8 DEF told, now

LEMMA ListFields ==
    ASSUME NEW t \in Tx, NEW list \in Seq(Settings)
    PROVE  /\ [t EXCEPT !.rt = list] \in Tx
           /\ [t EXCEPT !.rt = list].rt = list
           /\ [t EXCEPT !.rt = list].on = t.on /\ [t EXCEPT !.rt = list].count = t.count
           /\ [t EXCEPT !.rt = list].burst = t.burst /\ [t EXCEPT !.rt = list].left = t.left
           /\ [t EXCEPT !.rt = list].told = t.told /\ [t EXCEPT !.rt = list].cut = t.cut
           /\ [t EXCEPT !.rt = list].bare = t.bare
BY DEF Tx

(* What is left of the list is no concern of a transmitter that was cut.             *)
LEMMA SwitchedOff ==
    ASSUME NEW t, NEW s \in Slots, Listed(t, s)
    PROVE  Good(set_OFF(t), s)
<1> DEFINE u == set_OFF(t)
<1>1. t \in Tx /\ Len(t.rt) \in Nat
  BY TxFields DEF Listed
<1>2. /\ u \in Tx /\ u.rt = t.rt /\ ~u.on /\ u.count = 0 /\ u.burst = 0 /\ u.cut
  BY <1>1, OffFields DEF set_OFF
<1> HIDE DEF u
<1>3. Listed(u, s) /\ SettingsLeave(u, s)
  BY <1>1, <1>2 DEF Listed, SettingsLeave
<1>4. Idle(u) /\ Told(u) /\ ~(u.burst > 0)
  BY <1>2 DEF Idle, Told
<1> QED
  BY <1>3, <1>4 DEF Good, u

LEMMA SequenceFields ==
    ASSUME NEW t \in Tx, Len(t.rt) <= ListMax
    PROVE  /\ sequence_ON(t) \in Tx /\ sequence_ON(t).rt = ConfigureRadio(t.rt)
           /\ Extends(t.rt, ConfigureRadio(t.rt))
           /\ sequence_ON(t).on /\ sequence_ON(t).count = 0 /\ ~sequence_ON(t).cut
           /\ sequence_ON(t).burst = t.burst /\ sequence_ON(t).left = t.left
           /\ sequence_ON(t).told = IF t.on THEN t.told ELSE {}
           /\ sequence_ON(t).bare = IF t.on THEN t.bare ELSE t.cut
<1> DEFINE list == ConfigureRadio(t.rt)
<1>1. Extends(t.rt, list) /\ list \in Seq(Settings)
  BY TxFields, Configuring DEF Extends
<1>2. sequence_ON(t) = [PowerUp(t, t.cut) EXCEPT !.rt = list]
  BY DEF sequence_ON
<1> HIDE DEF list
<1>3. t.cut \in BOOLEAN /\ PowerUp(t, t.cut) \in Tx
  BY TxFields, OnFields
<1> QED
  BY <1>1, <1>2, <1>3, OnFields, ListFields DEF list

(* STX_sequence_ON, at a time when the list has room if it must.                     *)
LEMMA SwitchedOn ==
    ASSUME NEW t, NEW s \in Slots \ {"STX_TRANSMIT"},
           Listed(t, s), Told(t), ~t.on /\ ~t.cut => Len(t.rt) = 0
    PROVE  Good(sequence_ON(t), s)
<1> DEFINE u == sequence_ON(t)
           rt == t.rt
           list == ConfigureRadio(rt)
<1>1. t \in Tx /\ Len(rt) \in Nat /\ Len(rt) <= ListMax
  BY TxFields, Rooms DEF Listed
<1>2. Extends(rt, list) /\ (Len(rt) = 0 => Settings \subseteq Members(list))
  BY <1>1, TxFields, Configuring, ListBounds
<1>4. /\ u \in Tx /\ u.rt = list /\ u.on /\ u.count = 0 /\ ~u.cut
      /\ u.told = (IF t.on THEN t.told ELSE {})
      /\ u.bare = (IF t.on THEN t.bare ELSE t.cut)
  BY <1>1, SequenceFields
<1> HIDE DEF list
<1> HIDE DEF u
<1>5. Len(list) \in Nat /\ Len(list) <= Room(s)
  BY <1>2, Rooms DEF Extends
<1>8. SettingsLeave(u, s)
  BY <1>4, <1>5 DEF SettingsLeave
<1>9. Idle(u)
  BY <1>4 DEF Idle
<1>10. Told(u)
  <2> SUFFICES ASSUME ~u.bare PROVE Settings \subseteq u.told \cup Members(list)
    BY <1>4 DEF Told, Members
  <2>1. CASE ~t.on
    <3>1. ~t.cut
      BY <1>4, <2>1
    <3> QED
      BY <1>2, <2>1, <3>1
  <2>2. CASE t.on
    <3>1. Settings \subseteq t.told \cup Members(rt)
      BY <1>4, <2>2 DEF Told, Members
    <3>2. Members(rt) \subseteq Members(list)
      <4>1. DOMAIN rt = 1..Len(rt) /\ DOMAIN list = 1..Len(list)
        BY <1>1, <1>2, TxFields DEF Extends
      <4>2. \A i \in 1..Len(rt) : i \in 1..Len(list) /\ list[i] = rt[i]
        BY <1>1, <1>2, <1>5 DEF Extends
      <4> QED
        BY <4>1, <4>2 DEF Members
    <3> QED
      BY <1>4, <2>2, <3>1, <3>2
  <2> QED
    BY <2>1, <2>2
<1>11. Listed(u, s)
  BY <1>4, <1>5 DEF Listed
<1> QED
  BY <1>4, <1>8, <1>9, <1>10, <1>11 DEF Good, u

(* After a second in the same state nothing is left of the settings.                 *)
LEMMA Drained ==
    ASSUME NEW t, Good(t, "STX_TRANSMIT"), t.count >= ListMax, ~(t.on /\ t.cut)
    PROVE  Len(t.rt) = 0
<1>1. t \in Tx /\ Len(t.rt) \in Nat /\ t.count \in Nat /\ ListMax \in Nat
  BY TxFields, ListBounds DEF Good, Listed
<1>2. Len(t.rt) > 0 => Len(t.rt) + t.count <= ListMax - 1
  BY Rooms DEF Good, SettingsLeave
<1> QED
  BY <1>1, <1>2

(* A second has at least as many rounds as the list has places.                    *)
LEMMA SecondsDrain ==
    ASSUME NEW d \in Nat \ {0}
    PROVE  d * PerSec \in Nat /\ d * PerSec >= ListMax
<1>1. ASSUME NEW x \in Nat, NEW p \in Nat PROVE x * p \in Nat /\ (x + 1) * p = x * p + p
  OBVIOUS
<1>2. d - 1 \in Nat /\ d = (d - 1) + 1 /\ PerSec \in Nat
  BY ListBounds
<1>3. (d - 1) * PerSec \in Nat /\ d * PerSec = (d - 1) * PerSec + PerSec
  BY <1>1, <1>2
<1> QED
  BY <1>2, <1>3, ListBounds

LEMMA CountFields ==
    ASSUME NEW t \in Tx, NEW k \in Nat
    PROVE  /\ [t EXCEPT !.count = k] \in Tx
           /\ [t EXCEPT !.count = k].count = k
           /\ [t EXCEPT !.count = k].on = t.on /\ [t EXCEPT !.count = k].rt = t.rt
           /\ [t EXCEPT !.count = k].burst = t.burst /\ [t EXCEPT !.count = k].left = t.left
           /\ [t EXCEPT !.count = k].told = t.told /\ [t EXCEPT !.count = k].cut = t.cut
           /\ [t EXCEPT !.count = k].bare = t.bare
BY DEF Tx

LEMMA CutFields ==
    ASSUME NEW t \in Tx, NEW cut \in BOOLEAN
    PROVE  /\ [t EXCEPT !.cut = cut] \in Tx
           /\ [t EXCEPT !.cut = cut].cut = cut
           /\ [t EXCEPT !.cut = cut].on = t.on /\ [t EXCEPT !.cut = cut].rt = t.rt
           /\ [t EXCEPT !.cut = cut].burst = t.burst /\ [t EXCEPT !.cut = cut].left = t.left
           /\ [t EXCEPT !.cut = cut].told = t.told /\ [t EXCEPT !.cut = cut].count = t.count
           /\ [t EXCEPT !.cut = cut].bare = t.bare
BY DEF Tx

LEMMA LeftFields ==
    ASSUME NEW t \in Tx, NEW left \in Int
    PROVE  /\ [t EXCEPT !.left = left] \in Tx
           /\ [t EXCEPT !.left = left].left = left
           /\ [t EXCEPT !.left = left].on = t.on /\ [t EXCEPT !.left = left].rt = t.rt
           /\ [t EXCEPT !.left = left].burst = t.burst
           /\ [t EXCEPT !.left = left].told = t.told
           /\ [t EXCEPT !.left = left].count = t.count
           /\ [t EXCEPT !.left = left].cut = t.cut /\ [t EXCEPT !.left = left].bare = t.bare
BY DEF Tx

LEMMA BurstFields ==
    ASSUME NEW t \in Tx, NEW burst \in Nat
    PROVE  /\ [t EXCEPT !.burst = burst] \in Tx
           /\ [t EXCEPT !.burst = burst].burst = burst
           /\ [t EXCEPT !.burst = burst].on = t.on /\ [t EXCEPT !.burst = burst].rt = t.rt
           /\ [t EXCEPT !.burst = burst].left = t.left
           /\ [t EXCEPT !.burst = burst].told = t.told
           /\ [t EXCEPT !.burst = burst].count = t.count
           /\ [t EXCEPT !.burst = burst].cut = t.cut /\ [t EXCEPT !.burst = burst].bare = t.bare
BY DEF Tx
-------------------------------------------------------------------------------
(* STX_transmit_. *)

LEMMA SameList ==
    ASSUME NEW t, NEW u \in Tx, NEW s, Listed(t, s), u.rt = t.rt
    PROVE  Listed(u, s)
BY DEF Listed

LEMMA ListedAfterTransmit ==
    ASSUME NEW t, NEW u \in Tx, Listed(t, "STX_TRANSMIT"), u.rt = t.rt
    PROVE  /\ Listed(u, "STRX_UPDATE")
           /\ Len(u.rt) \in Nat /\ Len(u.rt) < ListMax
<1>1. Listed(u, "STX_TRANSMIT") /\ Len(u.rt) \in Nat
  BY SameList, TxFields
<1>2. Len(u.rt) < ListMax
  BY <1>1, Rooms, ListBounds DEF Listed
<1> QED
  BY <1>1, <1>2, Rooms, ListBounds DEF Listed

(* One round more of the time on or off.                                         *)
LEMMA Waiting ==
    ASSUME NEW t, NEW u \in Tx, Good(t, "STX_TRANSMIT"),
           u.count = t.count + 1, u.on = t.on, u.burst = t.burst, u.rt = t.rt,
           u.told = t.told, u.cut = t.cut, u.bare = t.bare
    PROVE  Good(u, "STRX_UPDATE")
<1>1. t \in Tx /\ Listed(u, "STRX_UPDATE")
  BY ListedAfterTransmit DEF Good, Listed
<1>2. t.count \in Nat /\ Len(t.rt) \in Nat /\ ListMax \in Nat
  BY <1>1, TxFields, ListBounds
<1>3. SettingsLeave(u, "STRX_UPDATE")
  BY <1>2, Rooms DEF Good, SettingsLeave
<1>4. Idle(u) /\ Told(u)
  BY DEF Good, Idle, Told
<1>5. u.burst > 0 => u.on
  BY DEF Good
<1> QED
  BY <1>1, <1>3, <1>4, <1>5 DEF Good

(* The end of a time on.                                                         *)
LEMMA Ending ==
    ASSUME NEW t, NEW cut \in BOOLEAN, Good(t, "STX_TRANSMIT"),
           ~cut => t.count >= ListMax /\ ~t.cut
    PROVE  Good([PowerDown(t, cut) EXCEPT !.count = 1], "STRX_UPDATE")
<1> DEFINE p == PowerDown(t, cut)
           u == [p EXCEPT !.count = 1]
<1>1. t \in Tx /\ Listed(t, "STX_TRANSMIT")
  BY DEF Good, Listed
<1>2. p \in Tx /\ p.rt = t.rt /\ ~p.on /\ p.burst = 0 /\ p.cut = cut
  BY <1>1, OffFields
<1> HIDE DEF p
<1>3. /\ u \in Tx /\ u.rt = t.rt /\ ~u.on /\ u.burst = 0 /\ u.cut = cut /\ u.count = 1
  BY <1>2, CountFields
<1> HIDE DEF u
<1>4. Listed(u, "STRX_UPDATE") /\ Len(u.rt) \in Nat /\ Len(u.rt) < ListMax
  BY <1>1, <1>3, ListedAfterTransmit
<1>5. SettingsLeave(u, "STRX_UPDATE")
  BY <1>3, <1>4, Rooms, ListBounds DEF SettingsLeave
<1>6. Idle(u)
  <2>1. ~cut => Len(t.rt) = 0
    BY Drained
  <2> QED
    BY <1>3, <2>1 DEF Idle
<1>7. Told(u) /\ (u.burst > 0 => u.on)
  BY <1>3 DEF Told
<1> QED
  BY <1>4, <1>5, <1>6, <1>7 DEF Good, u, p

(* The end of an off time: the list is empty, or the time did not last.             *)
LEMMA Beginning ==
    ASSUME NEW t, Good(t, "STX_TRANSMIT"), ~t.on,
           dur \in Nat \X Nat, t.count >= dur[2] * PerSec
    PROVE  /\ sequence_AfterOff(t) \in Tx /\ sequence_AfterOff(t).count = 0
           /\ Good([sequence_AfterOff(t) EXCEPT !.count = 1], "STRX_UPDATE")
<1>1. t \in Tx /\ Listed(t, "STX_TRANSMIT") /\ Len(t.rt) \in Nat /\ Len(t.rt) < ListMax
  BY ListedAfterTransmit, TxFields DEF Good, Listed
<1>2. Listed(t, "STRX_UPDATE")
  BY <1>1, ListedAfterTransmit
<1>3. ASSUME NEW w \in Tx, NEW u \in Tx, Good(w, "STRX_UPDATE"), w.on,
             u.on, u.rt = w.rt, u.told = w.told, u.bare = w.bare,
             SettingsLeave(u, "STRX_UPDATE")
      PROVE  Good(u, "STRX_UPDATE")
  <2>1. Listed(u, "STRX_UPDATE")
    BY <1>3, SameList DEF Good
  <2>2. Idle(u) /\ Told(u)
    BY <1>3 DEF Good, Idle, Told
  <2> QED
    BY <1>3, <2>1, <2>2 DEF Good
<1>4. CASE dur[2] = 0
  <2> DEFINE v == [t EXCEPT !.cut = TRUE]
             w == sequence_ON(v)
             x == [w EXCEPT !.cut = TRUE]
             u == [x EXCEPT !.count = 1]
  <2>1. v \in Tx /\ v.rt = t.rt /\ ~v.on /\ v.cut
    BY <1>1, CutFields
  <2>2. sequence_AfterOff(t) = x
    BY <1>4 DEF sequence_AfterOff
  <2> HIDE DEF v
  <2>3. Listed(v, "STRX_UPDATE") /\ Told(v)
    BY <1>2, <2>1, SameList DEF Told
  <2>4. Good(w, "STRX_UPDATE")
    BY <2>1, <2>3, SwitchedOn DEF Slots
  <2>5. w \in Tx /\ w.on /\ w.count = 0
    BY <1>1, <2>1, SequenceFields, ListBounds
  <2> HIDE DEF w
  <2>6. /\ x \in Tx /\ x.count = 0 /\ x.on /\ x.cut
        /\ x.rt = w.rt /\ x.told = w.told /\ x.bare = w.bare
    <3>1. /\ x \in Tx /\ x.cut = TRUE /\ x.on = w.on /\ x.count = w.count
          /\ x.rt = w.rt /\ x.told = w.told /\ x.bare = w.bare
      BY <2>5, CutFields
    <3> HIDE DEF x
    <3> QED
      BY <2>5, <3>1
  <2> HIDE DEF x
  <2>7. u \in Tx /\ u.on /\ u.cut /\ u.rt = w.rt /\ u.told = w.told /\ u.bare = w.bare
    BY <2>6, CountFields
  <2> HIDE DEF u
  <2>8. SettingsLeave(u, "STRX_UPDATE")
    BY <2>7 DEF SettingsLeave
  <2>9. Good(u, "STRX_UPDATE")
    BY <1>3, <2>4, <2>5, <2>7, <2>8
  <2> QED
    BY <2>2, <2>6, <2>9 DEF u
<1>5. CASE dur[2] # 0
  <2> DEFINE w == sequence_ON(t)
             u == [w EXCEPT !.count = 1]
  <2>1. t.count >= ListMax
    <3>1. dur[2] \in Nat \ {0} /\ t.count \in Nat
      BY <1>1, <1>5, TxFields
    <3>2. dur[2] * PerSec \in Nat /\ dur[2] * PerSec >= ListMax
      BY <3>1, SecondsDrain
    <3> QED
      BY <3>1, <3>2, ListBounds
  <2>2. Len(t.rt) = 0
    BY <2>1, Drained
  <2>3. sequence_AfterOff(t) = w
    BY <1>5 DEF sequence_AfterOff
  <2>4. Good(w, "STRX_UPDATE")
    BY <1>2, <2>2, SwitchedOn DEF Slots, Told
  <2>5. w \in Tx /\ w.on /\ w.count = 0 /\ w.rt = ConfigureRadio(t.rt)
    BY <1>1, SequenceFields, ListBounds
  <2>6. Len(w.rt) = 3
    <3>1. t.rt \in Seq(Settings) /\ Len(t.rt) <= ListMax
      BY <1>1, TxFields, ListBounds
    <3>2. Len(t.rt) + 3 <= ListMax /\ Len(t.rt) + 3 = 3
      BY <2>2, ListBounds
    <3> QED
      BY <2>5, <3>1, <3>2, Configuring
  <2> HIDE DEF w
  <2>7. /\ u \in Tx /\ u.on /\ u.count = 1 /\ u.rt = w.rt /\ u.told = w.told
        /\ u.bare = w.bare
    BY <2>5, CountFields
  <2> HIDE DEF u
  <2>8. SettingsLeave(u, "STRX_UPDATE")
    <3>1. Len(u.rt) = 3 /\ u.count = 1
      BY <2>6, <2>7
    <3>2. 3 + 1 <= Room("STRX_UPDATE")
      BY Rooms, ListBounds
    <3> QED
      BY <3>1, <3>2 DEF SettingsLeave
  <2>9. Good(u, "STRX_UPDATE")
    BY <1>3, <2>4, <2>5, <2>7, <2>8
  <2> QED
    BY <2>3, <2>5, <2>9 DEF u
<1> QED
  BY <1>4, <1>5

(* STX_transmit_ as a whole.                                                     *)
LEMMA Transmitting ==
    ASSUME NEW t, Good(t, "STX_TRANSMIT"), dur \in Nat \X Nat
    PROVE  LET u == [Alternate(t) EXCEPT !.count = @ + 1]
           IN  /\ Good(u, "STRX_UPDATE")
               /\ LeftIsTrue(u, dur)
<1> DEFINE on == IF t.burst > 0 THEN t.burst ELSE dur[1]
           x == Alternate(t)
           u == [x EXCEPT !.count = @ + 1]
<1>1. /\ t \in Tx /\ t.count \in Nat /\ t.burst \in Nat /\ t.cut \in BOOLEAN
      /\ on \in Nat /\ PerSec \in Nat \ {0}
  BY TxFields, ListBounds DEF Good, Listed
<1>2. x = IF t.burst = 0 /\ ~t.on
          THEN IF t.count >= dur[2] * PerSec THEN sequence_AfterOff(t) ELSE t
          ELSE IF t.count >= on * PerSec THEN PowerDown(t, on = 0 \/ t.cut)
          ELSE [t EXCEPT !.left = Remaining(on, t.count)]
  BY DEF Alternate
<1> HIDE DEF x
<1>3. SUFFICES /\ Good(u, "STRX_UPDATE")
               /\ LeftIsTrue(u, dur)
  BY DEF x
<1>4. u = [x EXCEPT !.count = x.count + 1]
  OBVIOUS
<1> HIDE DEF u
<1>5. CASE t.burst = 0 /\ ~t.on /\ t.count >= dur[2] * PerSec
  <2>1. x = sequence_AfterOff(t)
    BY <1>2, <1>5
  <2>2. x \in Tx /\ x.count = 0 /\ Good([x EXCEPT !.count = 1], "STRX_UPDATE")
    BY <1>5, <2>1, Beginning
  <2>3. u = [x EXCEPT !.count = 1]
    BY <1>4, <2>2
  <2>4. u.count = 1
    BY <2>2, <2>3, CountFields
  <2> QED
    BY <2>2, <2>3, <2>4 DEF LeftIsTrue
<1>6. CASE t.burst = 0 /\ ~t.on /\ ~(t.count >= dur[2] * PerSec)
  <2>1. x = t
    BY <1>2, <1>6
  <2>2. /\ u \in Tx /\ u.count = t.count + 1 /\ u.on = t.on /\ u.burst = t.burst
        /\ u.rt = t.rt /\ u.told = t.told /\ u.cut = t.cut /\ u.bare = t.bare
    BY <1>1, <1>4, <2>1, CountFields
  <2>3. Good(u, "STRX_UPDATE")
    BY <2>2, Waiting
  <2> QED
    BY <1>6, <2>2, <2>3 DEF LeftIsTrue
<1>7. CASE ~(t.burst = 0 /\ ~t.on) /\ t.count >= on * PerSec
  <2> DEFINE cut == on = 0 \/ t.cut
  <2>1. cut \in BOOLEAN /\ (~cut => on \in Nat \ {0} /\ ~t.cut)
    BY <1>1
  <2>2. x = PowerDown(t, cut)
    BY <1>2, <1>7
  <2>3. ~cut => t.count >= ListMax
    <3>1. ASSUME on \in Nat \ {0} PROVE on * PerSec \in Nat /\ on * PerSec >= ListMax
      BY <3>1, SecondsDrain
    <3> QED
      BY <1>1, <1>7, <2>1, <3>1, ListBounds
  <2> HIDE DEF cut
  <2>4. Good([PowerDown(t, cut) EXCEPT !.count = 1], "STRX_UPDATE")
    BY <2>1, <2>3, Ending
  <2>5. x \in Tx /\ x.count = 0 /\ ~x.on
    BY <1>1, <2>1, <2>2, OffFields
  <2>6. u = [x EXCEPT !.count = 1]
    BY <1>4, <2>5
  <2>7. ~u.on
    BY <2>5, <2>6, CountFields
  <2> QED
    BY <2>2, <2>4, <2>6, <2>7 DEF LeftIsTrue
<1>8. CASE ~(t.burst = 0 /\ ~t.on) /\ ~(t.count >= on * PerSec)
  <2> DEFINE left == Remaining(on, t.count)
  <2>1. x = [t EXCEPT !.left = left]
    BY <1>2, <1>8
  <2>2. left \in Int
    BY <1>1 DEF Remaining
  <2> HIDE DEF left
  <2>3. /\ x \in Tx /\ x.left = left /\ x.on = t.on /\ x.rt = t.rt /\ x.burst = t.burst
        /\ x.told = t.told /\ x.count = t.count /\ x.cut = t.cut /\ x.bare = t.bare
    BY <1>1, <2>1, <2>2, LeftFields
  <2>4. /\ u \in Tx /\ u.left = left /\ u.on = t.on /\ u.rt = t.rt /\ u.burst = t.burst
        /\ u.told = t.told /\ u.count = t.count + 1 /\ u.cut = t.cut /\ u.bare = t.bare
    BY <1>1, <1>4, <2>3, CountFields
  <2>5. Good(u, "STRX_UPDATE")
    BY <2>4, Waiting
  <2>6. u.count - 1 = t.count /\ OnTime(u, dur) = on
    BY <1>1, <2>4 DEF OnTime
  <2>7. u.count - 1 < on * PerSec
    <3>1. ASSUME NEW p \in Nat, NEW d \in Nat PROVE p * d \in Nat
      OBVIOUS
    <3>2. on * PerSec \in Nat
      BY <1>1, <3>1
    <3> QED
      BY <1>1, <1>8, <2>6, <3>2
  <2>8. LeftIsTrue(u, dur)
    BY <2>4, <2>6, <2>7 DEF left, LeftIsTrue
  <2> QED
    BY <2>5, <2>8
<1> QED
  BY <1>3, <1>5, <1>6, <1>7, <1>8

-------------------------------------------------------------------------------
(* rt_cmd_dispatcher_. *)

(* The list without its head.                                                    *)
LEMMA Taking ==
    ASSUME NEW rt \in Seq(Settings), rt # <<>>
    PROVE  /\ Head(rt) = rt[1] /\ rt[1] \in Settings
           /\ Tail(rt) \in Seq(Settings)
           /\ Len(Tail(rt)) = Len(rt) - 1 /\ Len(rt) \in Nat \ {0}
           /\ \A i \in 1..Len(Tail(rt)) : i + 1 \in 1..Len(rt) /\ Tail(rt)[i] = rt[i + 1]
OBVIOUS

LEMMA ToldFields ==
    ASSUME NEW t \in Tx, NEW told \in SUBSET Settings
    PROVE  /\ [t EXCEPT !.told = told] \in Tx
           /\ [t EXCEPT !.told = told].told = told
           /\ [t EXCEPT !.told = told].on = t.on /\ [t EXCEPT !.told = told].rt = t.rt
           /\ [t EXCEPT !.told = told].burst = t.burst
           /\ [t EXCEPT !.told = told].count = t.count
           /\ [t EXCEPT !.told = told].cut = t.cut /\ [t EXCEPT !.told = told].bare = t.bare
BY DEF Tx

LEMMA Dispatching ==
    ASSUME NEW t, Good(t, "RT_CMD"), t.rt # <<>>
    PROVE  Good(Dispatch(t), "STX_TRANSMIT")
<1> DEFINE list == Tail(t.rt)
           told == IF t.on THEN t.told \cup {Head(t.rt)} ELSE t.told
           rest == [t EXCEPT !.rt = list]
           u == [rest EXCEPT !.told = told]
<1>1. /\ t \in Tx /\ t.rt \in Seq(Settings) /\ t.count \in Nat /\ t.told \subseteq Settings
      /\ DOMAIN t.rt = 1..Len(t.rt) /\ Len(t.rt) <= ListMax /\ ListMax \in Nat
  BY TxFields, Rooms, ListBounds DEF Good, Listed
<1>2. /\ Head(t.rt) = t.rt[1] /\ t.rt[1] \in Settings
      /\ list \in Seq(Settings) /\ DOMAIN list = 1..Len(list)
      /\ Len(list) = Len(t.rt) - 1 /\ Len(t.rt) \in Nat \ {0}
      /\ \A i \in 1..Len(list) : i + 1 \in 1..Len(t.rt) /\ list[i] = t.rt[i + 1]
  BY <1>1, Taking
<1>3. told \subseteq Settings /\ t.told \subseteq told /\ (t.on => t.rt[1] \in told)
  BY <1>1, <1>2
<1>4. Dispatch(t) = u
  BY <1>1 DEF Dispatch, Tx
<1> HIDE DEF list, told
<1>5. /\ rest \in Tx /\ rest.rt = list
      /\ rest.on = t.on /\ rest.count = t.count /\ rest.burst = t.burst
      /\ rest.told = t.told /\ rest.cut = t.cut /\ rest.bare = t.bare
  BY <1>1, <1>2, ListFields
<1> HIDE DEF rest
<1>6. /\ u \in Tx /\ u.told = told /\ u.on = t.on /\ u.rt = list
      /\ u.burst = t.burst /\ u.count = t.count /\ u.cut = t.cut /\ u.bare = t.bare
  BY <1>3, <1>5, ToldFields
<1> HIDE DEF u
<1>7. Listed(u, "STX_TRANSMIT")
  BY <1>1, <1>2, <1>6, Rooms DEF Listed
<1>8. SettingsLeave(u, "STX_TRANSMIT")
  <2>1. ~(t.on /\ t.cut) => Len(t.rt) + t.count <= ListMax
    BY <1>2, Rooms DEF Good, SettingsLeave
  <2> QED
    BY <1>1, <1>2, <1>6, <2>1, Rooms DEF SettingsLeave
<1>9. Idle(u)
  BY <1>2, <1>6 DEF Good, Idle
<1>10. Told(u)
  <2> SUFFICES ASSUME t.on, ~t.bare, NEW c \in Settings, c \notin told
               PROVE  c \in Members(list)
    BY <1>6 DEF Told, Members
  <2>1. c \in Members(t.rt)
    BY <1>3 DEF Good, Told, Members
  <2>2. PICK j \in 1..Len(t.rt) : t.rt[j] = c
    BY <1>1, <2>1 DEF Members
  <2>3. j # 1
    BY <1>3, <2>2
  <2>4. j - 1 \in 1..Len(list) /\ (j - 1) + 1 = j
    BY <1>2, <2>3
  <2>5. list[j - 1] = c
    BY <1>2, <2>2, <2>4
  <2> QED
    BY <1>2, <2>4, <2>5 DEF Members
<1>11. t.burst > 0 => t.on
  BY DEF Good
<1> QED
  BY <1>4, <1>6, <1>7, <1>8, <1>9, <1>10, <1>11 DEF Good

(* Nothing to take.                                                              *)
LEMMA NothingToTake ==
    ASSUME NEW t, Good(t, "RT_CMD"), t.rt = <<>>
    PROVE  Good(t, "STX_TRANSMIT")
<1>1. t \in Tx /\ Len(t.rt) = 0
  BY DEF Good, Listed
<1> QED
  BY <1>1, Rooms DEF Good, Listed, SettingsLeave
-------------------------------------------------------------------------------
(* STRX_update. *)

(* Between the end of the cycle and the dispatcher the list has the same room.        *)
LEMMA NextTurn ==
    ASSUME NEW t, NEW s \in Slots \ {"STX_TRANSMIT"}, NEW u \in Slots \ {"STX_TRANSMIT"},
           Good(t, s)
    PROVE  Good(t, u)
<1>1. Room(s) = Room(u)
  BY Rooms
<1> QED
  BY <1>1 DEF Good, Listed, SettingsLeave

(* STRX_OTC_Detect. *)
LEMMA Heating ==
    ASSUME Good(tx, "STRX_UPDATE")
    PROVE  Good(OTC_Detect(tx), "COMMAND")
<1>1. Good(tx, "COMMAND")
  BY NextTurn DEF Slots
<1>2. Good(set_OFF(tx), "COMMAND")
  BY <1>1, SwitchedOff DEF Good, Slots
<1> QED
  BY <1>1, <1>2 DEF OTC_Detect

(* The answer to a lock. *)
LEMMA Answering ==
    ASSUME NEW t, NEW l \in Locks, Good(t, "COMMAND"), reply \in [Locks -> Nat]
    PROVE  Good(Answer(t, l), "COMMAND")
<1> DEFINE v == [t EXCEPT !.burst = reply[l]]
<1>1. t \in Tx /\ reply[l] \in Nat
  BY DEF Good, Listed
<1>2. CASE ~(Raises(l) /\ t.left < reply[l])
  BY <1>2 DEF Answer
<1>3. CASE Raises(l) /\ t.left < reply[l]
  <2>1. Answer(t, l) = sequence_ON(v)
    BY <1>3 DEF Answer
  <2>2. /\ v \in Tx /\ v.rt = t.rt /\ v.on = t.on /\ v.cut = t.cut /\ v.bare = t.bare
        /\ v.told = t.told
    BY <1>1, BurstFields
  <2> HIDE DEF v
  <2>3. Listed(v, "COMMAND") /\ Told(v)
    BY <2>2, SameList DEF Good, Told
  <2>4. ~v.on /\ ~v.cut => Len(v.rt) = 0
    BY <2>2 DEF Good, Idle
  <2> QED
    BY <2>1, <2>3, <2>4, SwitchedOn DEF Slots
<1> QED
  BY <1>2, <1>3
-------------------------------------------------------------------------------
(* The steps. *)

(* The watch leaves the transmitter as it is, or switches it off; not while the count    *)
(* runs.                                                                       *)
LEMMA Watching ==
    ASSUME NEW t, NEW s \in Slots, Good(t, s),
           NEW a \in Nat, NEW enabled \in BOOLEAN, TLMD(t, a, enabled)
    PROVE  /\ Good(tx', s) /\ age' \in Nat
           /\ tx' = t \/ ~tx'.on
           /\ enabled /\ t.count > 1 => tx' = t /\ age' = 0
<1> DEFINE stuck == enabled /\ t.count <= 1 /\ a > Watch
<1>1. tx' = IF stuck THEN set_OFF(t) ELSE t
  BY DEF TLMD
<1>2. age' = IF enabled /\ (stuck \/ t.count > 1) THEN 0 ELSE IF a > Watch THEN Watch + 1 ELSE a
  BY DEF TLMD
<1>3. t \in Tx /\ t.count \in Nat /\ Watch \in Nat
  BY TxFields, ListBounds DEF Good, Listed
<1>4. Good(set_OFF(t), s) /\ ~set_OFF(t).on
  BY <1>3, SwitchedOff, OffFields DEF Good, set_OFF
<1>5. age' \in Nat
  BY <1>2, <1>3
<1>6. enabled /\ t.count > 1 => ~stuck /\ age' = 0
  BY <1>2, <1>3
<1> HIDE DEF stuck
<1>7. tx' = t \/ tx' = set_OFF(t)
  BY <1>1
<1>8. Good(tx', s)
  BY <1>4, <1>7
<1> QED
  BY <1>1, <1>4, <1>5, <1>6, <1>7, <1>8

LEMMA BootGood == Good(BootTx, "RT_CMD")
<1> DEFINE list == ConfigureRadio(<<>>)
<1>1. /\ <<>> \in Seq(Settings) /\ Len(<<>>) = 0
      /\ ListMax \in Nat /\ 4 <= ListMax /\ Room("RT_CMD") = ListMax
  BY ListBounds, Rooms
<1>2. /\ list \in Seq(Settings) /\ Len(list) = 3 /\ DOMAIN list = 1..3
      /\ Settings \subseteq Members(list)
      /\ \A i \in 1..3 : list[i] \in Settings
  <2>1. Extends(<<>>, list) /\ Len(list) = 3 /\ Settings \subseteq Members(list)
    <3>1. Len(<<>>) <= ListMax /\ Len(<<>>) + 3 <= ListMax /\ Len(<<>>) + 3 = 3
      BY <1>1
    <3> QED
      BY <1>1, <3>1, Configuring
  <2> QED
    BY <1>1, <2>1 DEF Extends
<1>3. BootTx = [on |-> TRUE, count |-> 0, burst |-> 0, left |-> 0, rt |-> list,
                told |-> {}, cut |-> FALSE, bare |-> FALSE]
  BY DEF BootTx
<1> HIDE DEF list
<1>4. /\ BootTx \in Tx /\ BootTx.rt = list /\ BootTx.on /\ BootTx.count = 0 /\ ~BootTx.cut
  BY <1>2, <1>3 DEF Tx
<1>5. Listed(BootTx, "RT_CMD") /\ SettingsLeave(BootTx, "RT_CMD")
  <2>1. Len(BootTx.rt) = 3
    BY <1>2, <1>4
  <2>2. 3 <= Room("RT_CMD") /\ 3 + 0 <= Room("RT_CMD")
    BY <1>1
  <2> QED
    BY <1>4, <2>1, <2>2 DEF Listed, SettingsLeave
<1>8. Idle(BootTx) /\ ~(BootTx.burst > 0)
  BY <1>3, <1>4 DEF Idle
<1>7. Told(BootTx)
  BY <1>2, <1>4 DEF Told, Members
<1> QED
  BY <1>4, <1>5, <1>7, <1>8 DEF Good

LEMMA InitInv == Init => IInv
<1> SUFFICES ASSUME Init PROVE IInv
  OBVIOUS
<1>1. Types
  <2>1. OnDur \in Nat /\ OffDur \in Nat /\ ReplyDur \in [Locks -> Nat] /\ Zero \in [Locks -> Nat]
    BY DownlinkAssumption DEF Zero
  <2>2. Blank \in Stored
    BY <2>1 DEF Blank, Stored
  <2> QED
    BY <2>1, <2>2 DEF Init, Types, Configuration, Slots
<1>2. Good(tx, slot)
  BY BootGood DEF Init
<1>3. Judged
  BY DEF Init, Judged
<1> QED
  BY <1>1, <1>2, <1>3 DEF IInv

(* What is saved. *)
LEMMA Saving ==
    ASSUME fram \in Stored
    PROVE  /\ \A v \in Nat \X Nat : Save("dur", v) => fram' \in Stored
           /\ \A v \in [Locks -> Nat] : Save("reply", v) => fram' \in Stored
           /\ \A v \in BOOLEAN : Save("otc", v) => fram' \in Stored
           /\ \A v \in BOOLEAN : Save("watch", v) => fram' \in Stored
<1>1. ASSUME NEW v \in Nat \X Nat, Save("dur", v) PROVE fram' \in Stored
  BY <1>1 DEF Save, Stored
<1>2. ASSUME NEW v \in [Locks -> Nat], Save("reply", v) PROVE fram' \in Stored
  BY <1>2 DEF Save, Stored
<1>3. ASSUME NEW v \in BOOLEAN, Save("otc", v) PROVE fram' \in Stored
  BY <1>3 DEF Save, Stored
<1>4. ASSUME NEW v \in BOOLEAN, Save("watch", v) PROVE fram' \in Stored
  BY <1>4 DEF Save, Stored
<1> QED
  BY <1>1, <1>2, <1>3, <1>4

LEMMA DispatcherStep == ASSUME IInv, rt_cmd_dispatcher PROVE IInv'
<1> DEFINE t == IF tx.rt = <<>> THEN tx ELSE Dispatch(tx)
<1>1. /\ slot = "RT_CMD" /\ slot' = "STX_TRANSMIT" /\ TLMD(t, age, watch)
      /\ UNCHANGED <<dur, reply, otc, watch, fram, otc_count>>
  BY DEF rt_cmd_dispatcher, Turn, config
<1>2. otc_count \in Nat /\ age \in Nat /\ watch \in BOOLEAN /\ Good(tx, "RT_CMD")
  BY <1>1 DEF IInv, Types, Configuration
<1>3. Good(t, "STX_TRANSMIT")
  BY <1>2, NothingToTake, Dispatching
<1> HIDE DEF t
<1>4. Good(tx', "STX_TRANSMIT") /\ age' \in Nat
  BY <1>1, <1>2, <1>3, Watching DEF Slots
<1>5. Types' /\ Judged'
  BY <1>1, <1>4 DEF IInv, Types, Configuration, Judged, Slots
<1> QED
  BY <1>1, <1>4, <1>5 DEF IInv

LEMMA TransmitStep == ASSUME IInv, STX_transmit PROVE IInv'
<1> DEFINE t == Alternate(tx)
           u == [t EXCEPT !.count = @ + 1]
<1>1. /\ slot = "STX_TRANSMIT" /\ slot' = "STRX_UPDATE" /\ TLMD(u, age + 1, watch)
      /\ UNCHANGED <<dur, reply, otc, watch, fram, otc_count>>
  BY DEF STX_transmit, Turn, config
<1>2. /\ otc_count \in Nat /\ age + 1 \in Nat /\ watch \in BOOLEAN /\ dur \in Nat \X Nat
      /\ Good(tx, "STX_TRANSMIT")
  BY <1>1 DEF IInv, Types, Configuration
<1>3. /\ Good(u, "STRX_UPDATE")
      /\ LeftIsTrue(u, dur)
  BY <1>2, Transmitting
<1> HIDE DEF u
<1>4. /\ Good(tx', "STRX_UPDATE") /\ age' \in Nat
      /\ tx' = u \/ ~tx'.on
      /\ watch /\ u.count > 1 => tx' = u /\ age' = 0
  BY <1>1, <1>2, <1>3, Watching DEF Slots
<1>5. Types'
  BY <1>1, <1>4 DEF IInv, Types, Configuration, Slots
<1>6. Judged'
  <2> SUFFICES ASSUME tx'.on, tx'.count > 1
               PROVE  LeftIsTrue(tx', dur') /\ (watch' => age' <= Watch)
    BY DEF Judged, LeftIsTrue
  <2>1. tx' = u /\ dur' = dur /\ watch' = watch
    BY <1>1, <1>4
  <2>2. u.on /\ u.count > 1
    BY <2>1
  <2>3. watch => age' = 0
    BY <1>4, <2>2
  <2> QED
    BY <1>3, <2>1, <2>2, <2>3, ListBounds
<1> QED
  BY <1>1, <1>4, <1>5, <1>6 DEF IInv

LEMMA UpdateStep == ASSUME IInv, STRX_update PROVE IInv'
<1> DEFINE t == OTC_Detect(tx)
           u == Answer(t, "carrier")
           v == Answer(u, "sub")
<1>1. /\ slot = "STRX_UPDATE" /\ slot' = "COMMAND" /\ TLMD(v, age, watch)
      /\ otc_count' = (IF otc /\ hot /\ ~OtcFires THEN otc_count + 1 ELSE 0)
      /\ UNCHANGED <<dur, reply, otc, watch, fram>>
  BY DEF STRX_update, Turn, config
<1>2. /\ otc_count \in Nat /\ age \in Nat /\ watch \in BOOLEAN /\ reply \in [Locks -> Nat]
      /\ Good(tx, "STRX_UPDATE")
  BY <1>1 DEF IInv, Types, Configuration
<1>3. otc_count' \in Nat
  BY <1>1, <1>2
<1>4. Good(t, "COMMAND")
  BY <1>2, <1>3, Heating
<1> HIDE DEF t
<1>5. Good(u, "COMMAND")
  BY <1>2, <1>4, Answering DEF Locks
<1> HIDE DEF u
<1>6. Good(v, "COMMAND")
  BY <1>2, <1>5, Answering DEF Locks
<1> HIDE DEF v
<1>7. Good(tx', "COMMAND") /\ age' \in Nat
  BY <1>1, <1>2, <1>6, Watching DEF Slots
<1>8. Types' /\ Judged'
  BY <1>1, <1>3, <1>7 DEF IInv, Types, Configuration, Judged, Slots
<1> QED
  BY <1>1, <1>3, <1>7, <1>8 DEF IInv

LEMMA SkipStep == ASSUME IInv, Skip PROVE IInv'
<1>1. /\ slot = "STRX_UPDATE" /\ slot' = "COMMAND" /\ tx' = tx
      /\ UNCHANGED <<dur, reply, otc, watch, fram, otc_count, age>>
  BY DEF Skip, Turn, config
<1>2. Good(tx, "COMMAND")
  BY <1>1, NextTurn DEF Slots, IInv, Types, Configuration
<1>3. Types' /\ Judged'
  BY <1>1 DEF IInv, Types, Configuration, Judged, Slots
<1> QED
  BY <1>1, <1>2, <1>3 DEF IInv

LEMMA NoCommandStep == ASSUME IInv, NoCommand PROVE IInv'
<1>1. /\ slot = "COMMAND" /\ slot' = "RT_CMD" /\ tx' = tx
      /\ UNCHANGED <<dur, reply, otc, watch, fram, otc_count, age>>
  BY DEF NoCommand, Turn, config
<1>2. Good(tx, "RT_CMD")
  BY <1>1, NextTurn DEF Slots, IInv, Types, Configuration
<1>3. Types' /\ Judged'
  BY <1>1 DEF IInv, Types, Configuration, Judged, Slots
<1> QED
  BY <1>1, <1>2, <1>3 DEF IInv

(* The commands: what each leaves to the watch.                                    *)
LEMMA Powered ==
    ASSUME NEW t, Good(t, "COMMAND")
    PROVE  Good(set_ON(t), "RT_CMD")
<1> DEFINE u == set_ON(t)
<1>1. Good(t, "RT_CMD") /\ t \in Tx /\ Len(t.rt) \in Nat /\ Room("RT_CMD") = ListMax
  BY NextTurn, TxFields, Rooms DEF Good, Listed, Slots
<1>2. /\ u \in Tx /\ u.rt = t.rt /\ u.on /\ u.count = 0 /\ ~u.cut
      /\ u.told = (IF t.on THEN t.told ELSE {}) /\ u.bare = (IF t.on THEN t.bare ELSE TRUE)
  BY <1>1, OnFields DEF set_ON
<1> HIDE DEF u
<1>3. Listed(u, "RT_CMD") /\ SettingsLeave(u, "RT_CMD")
  BY <1>1, <1>2 DEF Good, Listed, SettingsLeave
<1>4. Idle(u)
  BY <1>2 DEF Idle
<1>5. Told(u)
  BY <1>1, <1>2 DEF Good, Told
<1> QED
  BY <1>2, <1>3, <1>4, <1>5 DEF Good, u

LEMMA Sequenced ==
    ASSUME NEW t, NEW u \in Tx, Good(t, "COMMAND"),
           u.rt = t.rt, u.on = t.on, u.cut = t.cut, u.bare = t.bare, u.told = t.told
    PROVE  Good(sequence_ON(u), "RT_CMD")
<1>1. Good(t, "RT_CMD")
  BY NextTurn DEF Slots
<1>2. Listed(u, "RT_CMD") /\ Told(u)
  BY <1>1, SameList DEF Good, Told
<1>3. ~u.on /\ ~u.cut => Len(u.rt) = 0
  BY DEF Good, Idle
<1> QED
  BY <1>2, <1>3, SwitchedOn DEF Slots

(* What a command may leave.                                                      *)
Commanded == Good(tx, "RT_CMD")' /\ (age \in Nat)' /\ Configuration'

LEMMA LeftToWatch ==
    ASSUME NEW t, NEW a \in Nat, NEW enabled \in BOOLEAN,
           otc_count \in Nat, otc_count' = otc_count,
           Good(t, "RT_CMD"), TLMD(t, a, enabled), Configuration'
    PROVE  Commanded
<1>1. Good(tx', "RT_CMD") /\ age' \in Nat
  BY Watching DEF Slots
<1> QED
  BY <1>1 DEF Commanded

LEMMA OnOffStep ==
    ASSUME IInv, slot = "COMMAND", otc_count' = otc_count, SET_STX_ONOFF_DURATION
    PROVE  Commanded
<1>1. /\ otc_count \in Nat /\ age \in Nat /\ watch \in BOOLEAN /\ Configuration
      /\ Good(tx, "COMMAND") /\ Good(tx, "RT_CMD") /\ tx \in Tx
  BY NextTurn DEF Slots, IInv, Types, Configuration, Good, Listed
<1>2. PICK on \in Durations, off \in Durations :
        /\ dur' = <<on, off>>
        /\ IF on > Limit \/ off = 0 THEN Changed(tx) /\ UNCHANGED fram
           ELSE Changed(sequence_ON(tx)) /\ Save("dur", <<on, off>>)
        /\ UNCHANGED <<reply, otc, watch>>
  BY DEF SET_STX_ONOFF_DURATION
<1>3. <<on, off>> \in Nat \X Nat
  BY DownlinkAssumption
<1>4. fram' \in Stored
  BY <1>1, <1>2, <1>3, Saving DEF Configuration
<1>5. Configuration'
  BY <1>1, <1>2, <1>3, <1>4 DEF Configuration
<1>6. Good(sequence_ON(tx), "RT_CMD")
  BY <1>1, Sequenced
<1>7. TLMD(tx, age, watch) \/ TLMD(sequence_ON(tx), age, watch)
  BY <1>2 DEF Changed
<1> QED
  BY <1>1, <1>5, <1>6, <1>7, LeftToWatch

LEMMA BurstStep ==
    ASSUME IInv, slot = "COMMAND", otc_count' = otc_count, SET_STX_BURST_DURATION
    PROVE  Commanded
<1>1. /\ otc_count \in Nat /\ age \in Nat /\ watch \in BOOLEAN /\ Configuration
      /\ Good(tx, "COMMAND") /\ tx \in Tx
  BY DEF IInv, Types, Configuration, Good, Listed
<1>2. PICK d \in Durations : TLMD(sequence_ON([tx EXCEPT !.burst = d]), age, watch)
  BY DEF SET_STX_BURST_DURATION, Changed
<1>3. d \in Nat
  BY DownlinkAssumption
<1> DEFINE u == [tx EXCEPT !.burst = d]
<1>4. /\ u \in Tx /\ u.rt = tx.rt /\ u.on = tx.on /\ u.cut = tx.cut /\ u.bare = tx.bare
      /\ u.told = tx.told
  BY <1>1, <1>3, BurstFields
<1>5. TLMD(sequence_ON(u), age, watch)
  BY <1>2
<1> HIDE DEF u
<1>6. Good(sequence_ON(u), "RT_CMD")
  BY <1>1, <1>4, Sequenced
<1>7. Configuration'
  BY <1>1 DEF SET_STX_BURST_DURATION, config, Configuration
<1> QED
  BY <1>1, <1>5, <1>6, <1>7, LeftToWatch

(* The commands that leave the transmitter alone, or switch it.                      *)
LEMMA OtherSteps ==
    ASSUME IInv, slot = "COMMAND", otc_count' = otc_count,
           \/ STRX_TX_ON \/ SET_STRX_LOCK_REPLY_TIME \/ STRX_OTC_ENABLE
           \/ SET_TLMD_ANOMALY_ENABLE \/ SetMasterCycle
    PROVE  Commanded
<1>1. /\ otc_count \in Nat /\ age \in Nat /\ watch \in BOOLEAN /\ otc \in BOOLEAN
      /\ dur \in Nat \X Nat /\ reply \in [Locks -> Nat] /\ fram \in Stored
      /\ Good(tx, "COMMAND") /\ Good(tx, "RT_CMD") /\ tx \in Tx
  BY NextTurn DEF Slots, IInv, Types, Configuration, Good, Listed
<1>2. CASE STRX_TX_ON
  <2>1. Configuration'
    BY <1>1, <1>2 DEF STRX_TX_ON, config, Configuration
  <2>2. TLMD(set_ON(tx), age, watch) \/ TLMD(set_OFF(tx), age, watch)
    BY <1>2 DEF STRX_TX_ON, Changed
  <2>3. Good(set_ON(tx), "RT_CMD")
    BY <1>1, Powered
  <2>4. Good(set_OFF(tx), "RT_CMD")
    BY <1>1, SwitchedOff DEF Good, Slots
  <2> QED
    BY <1>1, <2>1, <2>2, <2>3, <2>4, LeftToWatch
<1>3. CASE SET_STRX_LOCK_REPLY_TIME
  <2>1. reply' \in [Locks -> Nat] /\ Save("reply", reply') /\ UNCHANGED <<dur, otc, watch>>
    BY <1>3, DownlinkAssumption DEF SET_STRX_LOCK_REPLY_TIME
  <2>2. fram' \in Stored
    BY <1>1, <2>1, Saving
  <2>3. Configuration'
    BY <1>1, <2>1, <2>2 DEF Configuration
  <2> QED
    BY <1>1, <1>3, <2>3, LeftToWatch DEF SET_STRX_LOCK_REPLY_TIME, Changed
<1>4. CASE STRX_OTC_ENABLE
  <2>1. otc' \in BOOLEAN /\ Save("otc", otc') /\ UNCHANGED <<dur, reply, watch>>
    BY <1>4 DEF STRX_OTC_ENABLE
  <2>2. fram' \in Stored
    BY <1>1, <2>1, Saving
  <2>3. Configuration'
    BY <1>1, <2>1, <2>2 DEF Configuration
  <2> QED
    BY <1>1, <1>4, <2>3, LeftToWatch DEF STRX_OTC_ENABLE, Changed
<1>5. CASE SET_TLMD_ANOMALY_ENABLE
  <2>1. watch' \in BOOLEAN /\ Save("watch", watch') /\ UNCHANGED <<dur, reply, otc>>
    BY <1>5 DEF SET_TLMD_ANOMALY_ENABLE
  <2>2. fram' \in Stored
    BY <1>1, <2>1, Saving
  <2>3. Configuration'
    BY <1>1, <2>1, <2>2 DEF Configuration
  <2>4. PICK e \in BOOLEAN : e = watch' /\ TLMD(tx, age, e)
    BY <1>5, <2>1 DEF SET_TLMD_ANOMALY_ENABLE
  <2> QED
    BY <1>1, <2>3, <2>4, LeftToWatch
<1>7. CASE SetMasterCycle
  <2>1. Configuration' /\ Watch + 1 \in Nat
    BY <1>1, <1>7, ListBounds DEF SetMasterCycle, config, Configuration
  <2> QED
    BY <1>1, <1>7, <2>1, LeftToWatch DEF SetMasterCycle
<1> QED
  BY <1>2, <1>3, <1>4, <1>5, <1>7

LEMMA CommandStep == ASSUME IInv, Command PROVE IInv'
<1>1. slot = "COMMAND" /\ slot' = "RT_CMD" /\ otc_count' = otc_count
  BY DEF Command, Turn
<1>2. Commanded
  BY <1>1, OnOffStep, BurstStep, OtherSteps DEF Command
<1>3. Types' /\ Good(tx, slot)'
  BY <1>1, <1>2 DEF IInv, Types, Commanded, Slots
<1>4. Judged'
  BY <1>1 DEF Judged
<1> QED
  BY <1>3, <1>4 DEF IInv

LEMMA RestartStep == ASSUME IInv, Restart PROVE IInv'
<1>1. /\ slot' = "RT_CMD" /\ dur' = BootDur /\ otc_count' = 0
      /\ reply' = (IF fram.reply = Zero THEN ReplyDur ELSE fram.reply)
      /\ otc' = fram.otc /\ watch' = fram.watch /\ fram' = fram
      /\ \E a \in {0, Watch + 1} : TLMD(BootTx, a, fram.watch)
  BY DEF Restart, Boot
<1>2. PICK a \in {0, Watch + 1} : TLMD(BootTx, a, fram.watch)
  BY <1>1
<1>3. /\ fram \in Stored /\ fram.dur \in Nat \X Nat /\ fram.reply \in [Locks -> Nat]
      /\ fram.otc \in BOOLEAN /\ fram.watch \in BOOLEAN
  BY DEF IInv, Types, Configuration, Stored
<1>4. Configuration'
  <2>1. BootDur \in Nat \X Nat
    BY <1>3, DownlinkAssumption DEF BootDur
  <2>2. reply' \in [Locks -> Nat]
    BY <1>1, <1>3, DownlinkAssumption
  <2> QED
    BY <1>1, <1>3, <2>1, <2>2 DEF Configuration
<1>5. a \in Nat
  BY ListBounds
<1>6. Good(tx', "RT_CMD") /\ age' \in Nat
  BY <1>2, <1>3, <1>5, BootGood, Watching DEF Slots
<1>7. Types' /\ Judged'
  BY <1>1, <1>4, <1>6 DEF Types, Judged, Slots
<1> QED
  BY <1>1, <1>6, <1>7 DEF IInv

LEMMA NextInv == IInv /\ [Next]_vars => IInv'
<1> SUFFICES ASSUME IInv, [Next]_vars PROVE IInv'
  OBVIOUS
<1>1. CASE Cycle
  BY <1>1, DispatcherStep, TransmitStep, UpdateStep, SkipStep, NoCommandStep DEF Cycle
<1>2. CASE Outside
  <2>1. UNCHANGED <<slot, tx, dur, reply, otc, watch, fram, otc_count, age>>
    BY <1>2 DEF Outside, config
  <2> QED
    BY <2>1 DEF IInv, Types, Configuration, Judged
<1>3. CASE UNCHANGED vars
  <2>1. UNCHANGED <<slot, tx, dur, reply, otc, watch, fram, otc_count, age>>
    BY <1>3 DEF vars, config
  <2> QED
    BY <2>1 DEF IInv, Types, Configuration, Judged
<1> QED
  BY <1>1, <1>2, <1>3, CommandStep, RestartStep DEF Next

LEMMA Invariant == Spec => []IInv
BY InitInv, NextInv, PTL DEF Spec

(* Whatever the durations, the commands, the locks and the restarts were: a radio that    *)
(* was switched on after a time on that nothing cut, and not after an off time of 0, has  *)
(* been told its settings, or will be, although STX_sequence_ON ignores refusals.        *)
THEOREM SettingsArrive == Spec => []RadioConfigured
<1>1. IInv => RadioConfigured
  BY DEF IInv, Good, Told, RadioConfigured
<1> QED
  BY <1>1, Invariant, PTL

-------------------------------------------------------------------------------
(* The locks. *)

(* An answer of r seconds, more than are left by the whole seconds of d that c rounds     *)
(* have taken, is no shorter than what is left after one round more.                   *)
LEMMA AnswerIsLonger ==
    ASSUME NEW P \in Nat \ {0}, NEW d \in Nat, NEW c \in Nat, NEW r \in Nat,
           r > d - c \div P, c < d * P
    PROVE  r > 0 /\ r * P >= d * P - (c + 1)
<1> DEFINE q == c \div P
<1>1. q \in Nat /\ q * P <= c
  OBVIOUS
<1> HIDE DEF q
<1>2. ASSUME NEW x \in Nat, NEW y \in Nat, x <= y PROVE x * P <= y * P
  BY <1>2
<1>3. q < d
  <2>1. d <= q => d * P <= q * P
    BY <1>1, <1>2
  <2>2. d * P \in Nat /\ q * P \in Nat
    BY <1>1
  <2> QED
    BY <1>1, <2>1, <2>2
<1>4. d - q \in Nat /\ d - q <= r /\ r > 0
  BY <1>1, <1>3 DEF q
<1>5. (d - q) * P <= r * P
  BY <1>2, <1>4
<1>6. (d - q) * P = d * P - q * P
  BY <1>1
<1> QED
  BY <1>1, <1>4, <1>5, <1>6

(* u is t with a burst that is longer than what is left of t, or with none.            *)
Outlasts(u, t) ==
    /\ u \in Tx /\ Len(u.rt) <= ListMax /\ u.on /\ u.left = t.left
    /\ \/ u.burst = t.burst /\ u.count = t.count
       \/ u.burst > t.left /\ u.count = 0

LEMMA AnswerOutlasts ==
    ASSUME NEW t, NEW u, NEW l \in Locks, Outlasts(u, t), reply \in [Locks -> Nat]
    PROVE  Outlasts(Answer(u, l), t)
<1> DEFINE v == [u EXCEPT !.burst = reply[l]]
           w == sequence_ON(v)
<1>1. u \in Tx /\ reply[l] \in Nat /\ Len(u.rt) <= ListMax /\ u.rt \in Seq(Settings)
  BY TxFields DEF Outlasts
<1>2. CASE ~(Raises(l) /\ u.left < reply[l])
  BY <1>2 DEF Answer
<1>3. CASE Raises(l) /\ u.left < reply[l]
  <2>1. Answer(u, l) = w
    BY <1>3 DEF Answer
  <2>2. v \in Tx /\ v.rt = u.rt /\ v.burst = reply[l] /\ v.left = u.left
    BY <1>1, BurstFields
  <2> HIDE DEF v
  <2>3. /\ w \in Tx /\ w.rt = ConfigureRadio(v.rt) /\ w.on /\ w.count = 0
        /\ w.burst = v.burst /\ w.left = v.left
    BY <1>1, <2>2, SequenceFields
  <2> HIDE DEF w
  <2>4. Len(w.rt) <= ListMax
    BY <1>1, <2>2, <2>3, Configuring DEF Extends
  <2>5. w.left = t.left /\ w.burst > t.left
    <3>1. u.left = t.left /\ w.burst = reply[l]
      BY <2>2, <2>3 DEF Outlasts
    <3>2. u.left \in Int
      BY <1>1, TxFields
    <3> QED
      BY <1>1, <1>3, <2>2, <2>3, <3>1, <3>2
  <2>6. Outlasts(w, t)
    BY <2>3, <2>4, <2>5 DEF Outlasts
  <2> QED
    BY <2>1, <2>6
<1> QED
  BY <1>2, <1>3

LEMMA NoLockShortens ==
    ASSUME IInv, STRX_update, tx.on, tx.count > 1, ~OtcFires
    PROVE  Rest(tx', dur') >= Rest(tx, dur)
<1> DEFINE u == Answer(Answer(OTC_Detect(tx), "carrier"), "sub")
           d == OnTime(tx, dur)
           c == tx.count - 1
<1>1. slot = "STRX_UPDATE" /\ TLMD(u, age, watch) /\ dur' = dur
  BY DEF STRX_update, Turn, config
<1>2. /\ Good(tx, "STRX_UPDATE") /\ tx \in Tx /\ reply \in [Locks -> Nat]
      /\ dur \in Nat \X Nat /\ tx.count \in Nat /\ tx.burst \in Nat /\ age \in Nat
      /\ watch \in BOOLEAN /\ PerSec \in Nat \ {0} /\ Watch \in Nat
  BY <1>1, TxFields, ListBounds DEF IInv, Types, Configuration, Good, Listed
<1>3. tx.left = Remaining(d, c) /\ c < d * PerSec /\ (watch => age <= Watch)
  BY <1>1 DEF IInv, Judged, LeftIsTrue
<1>4. Outlasts(u, tx)
  <2>1. OTC_Detect(tx) = tx
    BY DEF OTC_Detect
  <2>2. Outlasts(tx, tx)
    BY <1>2, Rooms DEF Outlasts, Good, Listed
  <2> QED
    BY <1>2, <2>1, <2>2, AnswerOutlasts DEF Locks
<1> HIDE DEF u
<1>5. tx' = u
  BY <1>1, <1>2, <1>3 DEF TLMD
<1>6. u.burst \in Nat /\ u.count \in Nat /\ d \in Nat /\ c \in Nat
  BY <1>2, <1>4, TxFields DEF Outlasts, OnTime
<1>7. Rest(tx, dur) = d * PerSec - (c + 1)
  <2>1. c + 1 = tx.count
    BY <1>2
  <2> QED
    BY <2>1 DEF Rest, OnTime
<1>8. CASE u.burst = tx.burst /\ u.count = tx.count
  <2>1. Rest(tx', dur') = Rest(tx, dur)
    BY <1>1, <1>5, <1>8 DEF Rest
  <2>2. Rest(tx, dur) \in Int
    <3>1. ASSUME NEW x \in Nat, NEW p \in Nat, NEW y \in Nat PROVE x * p - y \in Int
      OBVIOUS
    <3> QED
      BY <1>2, <1>6, <1>7, <3>1
  <2> QED
    BY <2>1, <2>2
<1>9. CASE u.burst > tx.left /\ u.count = 0
  <2>1. u.burst > d - c \div PerSec
    BY <1>3, <1>9 DEF Remaining
  <2> HIDE DEF d, c
  <2>2. u.burst > 0 /\ u.burst * PerSec >= d * PerSec - (c + 1)
    BY <1>2, <1>3, <1>6, <2>1, AnswerIsLonger
  <2>3. Rest(tx', dur') = u.burst * PerSec - 0
    BY <1>5, <1>9, <2>2 DEF Rest
  <2>4. u.burst * PerSec \in Nat
    <3>1. ASSUME NEW x \in Nat, NEW p \in Nat PROVE x * p \in Nat
      OBVIOUS
    <3> QED
      BY <1>2, <1>6, <3>1
  <2> QED
    BY <1>7, <2>2, <2>3, <2>4
<1> QED
  BY <1>4, <1>8, <1>9 DEF Outlasts

(* A lock of the receiver never shortens a transmission in progress, whatever the         *)
(* durations, the reply times and the moment of the lock, unless the heat has switched the  *)
(* transmitter off in the same call: the handlers judge by stx_on_remaining, which counts   *)
(* whole seconds.                                                               *)
THEOREM LocksProlong == Spec => LockNeverShortens
<1>1. IInv /\ [Next]_vars =>
        [STRX_update /\ tx.on /\ tx.count > 1 /\ ~OtcFires => Rest(tx', dur') >= Rest(tx, dur)]_vars
  BY NoLockShortens
<1> QED
  BY <1>1, Invariant, PTL DEF Spec, LockNeverShortens
===============================================================================
