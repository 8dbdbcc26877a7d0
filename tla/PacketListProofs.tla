-------------------------- MODULE PacketListProofs ---------------------------
(***************************************************************************)
(* What the operations of PacketList preserve, for timelines of any packets *)
(* and any size: every one of them, the deployment of a block included,     *)
(* turns a timeline into a timeline.                                        *)
(***************************************************************************)
EXTENDS PacketList, SequenceTheorems, WellFoundedInduction, TLAPS

(* Induction for the loops: over a list, or over a log, they are recursive functions  *)
(* on 0..n; that such a function exists and stays in a set is proved here once, from    *)
(* the least-number principle in a form that names sets instead of predicates.       *)

(* The pairs of naturals of which the first is the smaller. *)
Less == {ij \in Nat \X Nat : ij[1] < ij[2]}

LEMMA LessWellFounded == IsWellFoundedOn(Less, Nat)
<1>1. IsWellFoundedOn(OpToRel(<, Nat), Nat)
  BY NatLessThanWellFounded
<1>2. OpToRel(<, Nat) = Less
  BY DEF OpToRel, Less
<1> QED
  BY <1>1, <1>2

(* Every non-empty set of naturals has a least element. *)
LEMMA LeastNumber ==
    ASSUME NEW T \in SUBSET Nat, T # {}
    PROVE  \E x \in T : \A y \in T : x <= y
<1>1. \E x \in T : \A y \in T : <<y, x>> \notin Less
  BY LessWellFounded, WFMin
<1>2. ASSUME NEW x \in T, NEW y \in T, <<y, x>> \notin Less
      PROVE  x <= y
  BY <1>2 DEF Less
<1> QED
  BY <1>1, <1>2

(* Induction on the naturals, for membership in a set. *)
LEMMA SetInduction ==
    ASSUME NEW S, 0 \in S, \A n \in Nat : n \in S => n + 1 \in S
    PROVE  Nat \subseteq S
<1> DEFINE Missing == {n \in Nat : n \notin S}
<1> SUFFICES ASSUME Missing # {} PROVE FALSE
  OBVIOUS
<1>1. PICK x \in Missing : \A y \in Missing : x <= y
  BY LeastNumber
<1>2. x # 0 /\ x - 1 \in Nat
  BY <1>1
<1>3. x - 1 \in S
  BY <1>1, <1>2
<1> QED
  BY <1>2, <1>3

(* The step G, at the places 1..n, does not leave the set State. *)
StaysIn(State, n, G) == \A i \in 1..n, s \in State : G[<<i, s>>] \in State

(* f is the sequence of values, from f0, that the step G gives. *)
Iterates(f, f0, n, G) ==
    \A i \in 0..n : f[i] = IF i = 0 THEN f0 ELSE G[<<i, f[i - 1]>>]

(* A function on 0..n given by its first value and a step exists. *)
LEMMA IterationExists ==
    ASSUME NEW State, NEW f0 \in State, NEW n \in Nat, NEW G, StaysIn(State, n, G)
    PROVE  \E f \in [0..n -> State] : Iterates(f, f0, n, G)
<1> USE DEF StaysIn, Iterates
<1> DEFINE Until(m, f) == \A i \in 0..m : f[i] = IF i = 0 THEN f0 ELSE G[<<i, f[i - 1]>>]
           Done == {m \in Nat : m <= n => \E f \in [0..m -> State] : Until(m, f)}
<1>1. 0 \in Done
  <2>1. [i \in 0..0 |-> f0] \in [0..0 -> State] /\ Until(0, [i \in 0..0 |-> f0])
    OBVIOUS
  <2> QED
    BY <2>1
<1>2. ASSUME NEW m \in Nat, m \in Done, m + 1 <= n
      PROVE  \E f \in [0..(m + 1) -> State] : Until(m + 1, f)
  <2>1. PICK f \in [0..m -> State] : Until(m, f)
    BY <1>2
  <2> DEFINE g == [i \in 0..(m + 1) |-> IF i = m + 1 THEN G[<<m + 1, f[m]>>] ELSE f[i]]
  <2>2. G[<<m + 1, f[m]>>] \in State
    BY <1>2
  <2>3. g \in [0..(m + 1) -> State]
    BY <2>2
  <2>4. ASSUME NEW i \in 0..(m + 1)
        PROVE  g[i] = IF i = 0 THEN f0 ELSE G[<<i, g[i - 1]>>]
    <3>1. CASE i = m + 1
      <4>1. i # 0 /\ i - 1 = m /\ m \in 0..(m + 1) /\ m # m + 1
        BY <3>1
      <4>2. g[i] = G[<<m + 1, f[m]>>] /\ g[i - 1] = f[m]
        BY <3>1, <4>1
      <4> QED
        BY <3>1, <4>1, <4>2
    <3>2. CASE i # m + 1
      <4>1. i \in 0..m /\ g[i] = f[i]
        BY <3>2
      <4>2. i # 0 => i - 1 \in 0..(m + 1) /\ i - 1 # m + 1 /\ g[i - 1] = f[i - 1]
        BY <4>1
      <4> QED
        BY <2>1, <4>1, <4>2
    <3> QED
      BY <3>1, <3>2
  <2>5. Until(m + 1, g)
    BY <2>4
  <2> QED
    BY <2>3, <2>5
<1>3. \A m \in Nat : m \in Done => m + 1 \in Done
  BY <1>2
<1>4. n \in Done
  <2> HIDE DEF Done
  <2> QED
    BY <1>1, <1>3, SetInduction
<1> QED
  BY <1>4

(* The last value of such a function is in a set that holds the first one and *)
(* with each value the next.                                                 *)
LEMMA IterationStays ==
    ASSUME NEW State, NEW n \in Nat, NEW f, f[0] \in State,
           \A i \in 1..n : f[i - 1] \in State => f[i] \in State
    PROVE  f[n] \in State
<1> DEFINE S == {i \in Nat : i <= n => f[i] \in State}
<1>1. 0 \in S
  OBVIOUS
<1>2. ASSUME NEW i \in Nat, i \in S
      PROVE  i + 1 \in S
  <2> SUFFICES ASSUME i + 1 <= n PROVE f[i + 1] \in State
    OBVIOUS
  <2>1. i + 1 \in 1..n /\ (i + 1) - 1 = i /\ f[i] \in State
    BY <1>2
  <2> QED
    BY <2>1
<1> HIDE DEF S
<1>3. Nat \subseteq S
  BY <1>1, <1>2, SetInduction
<1> QED
  BY <1>3 DEF S
-------------------------------------------------------------------------------

(* What the order of a timeline is about. *)
HaveTimes(P) == \A p \in P : p.time \in Time

(* P is a set of packets: giving one another execution time is a packet.     *)
IsPacketSet(P) ==
    \A p \in P :
        /\ p.time \in Time
        /\ \A t \in Time : /\ [p EXCEPT !.time = t] \in P
                           /\ [p EXCEPT !.time = t].time = t

(* Giving a packet its own time changes nothing: it is a record.               *)
KeepsItself(P) == \A p \in P : [p EXCEPT !.time = p.time] = p

LEMMA PacketsHaveTimes == ASSUME NEW P, IsPacketSet(P) PROVE HaveTimes(P)
BY DEF IsPacketSet, HaveTimes

(* The timelines of packets of P with at most size nodes. *)
Timelines(P, size) == {l \in Seq(P) : StrictlyOrdered(l) /\ Len(l) <= size}

-------------------------------------------------------------------------------
(* The 32-bit arithmetic stays in 32 bits. *)

LEMMA CycleSpanPositive == CycleSpan \in Nat \ {0}
<1>1. ASSUME NEW x \in Nat \ {0}, NEW y \in Nat \ {0}
      PROVE  x * y \in Nat \ {0}
  OBVIOUS
<1>2. Byte \in Nat \ {0}
  BY ByteAssumption
<1>3. Byte * Byte \in Nat \ {0}
  BY <1>1, <1>2
<1>4. Byte * Byte * Byte \in Nat \ {0}
  BY <1>1, <1>2, <1>3
<1> QED
  BY <1>1, <1>2, <1>4 DEF CycleSpan

LEMMA ModuloInTime == ASSUME NEW x \in Int PROVE x % CycleSpan \in Time
BY CycleSpanPositive DEF Time

LEMMA TimeInNat == Time \subseteq Nat
BY CycleSpanPositive DEF Time

LEMMA MovedInTime == ASSUME NEW t \in Time PROVE Moved(t) \in Time
<1>1. ASSUME NEW x \in Int, NEW y \in Int
      PROVE  x * y \in Int /\ x + y \in Int
  OBVIOUS
<1>2. ASSUME NEW x \in Int, NEW y \in Nat \ {0}
      PROVE  x % y \in Int /\ x \div y \in Int
  OBVIOUS
<1>3. /\ t \in Int
      /\ Byte \in Nat \ {0}
      /\ Byte * Byte \in Nat \ {0}
      /\ Byte * Byte * Byte \in Nat \ {0}
  <2>1. ASSUME NEW x \in Nat \ {0}, NEW y \in Nat \ {0}
        PROVE  x * y \in Nat \ {0}
    OBVIOUS
  <2>2. t \in Int /\ Byte \in Nat \ {0}
    BY ByteAssumption, TimeInNat
  <2>3. Byte * Byte \in Nat \ {0}
    BY <2>1, <2>2
  <2> QED
    BY <2>1, <2>2, <2>3
<1>4. /\ t % Byte \in Int
      /\ (t \div Byte) % Byte \in Int
      /\ (t \div (Byte * Byte)) % Byte \in Int
      /\ t \div (Byte * Byte * Byte) \in Int
  BY <1>2, <1>3
<1>5. /\ (t % Byte) * Byte * Byte * Byte \in Int
      /\ ((t \div Byte) % Byte) * Byte * Byte \in Int
      /\ ((t \div (Byte * Byte)) % Byte) * Byte \in Int
  BY <1>1, <1>3, <1>4
<1>6. Swap32(t) \in Int
  BY <1>4, <1>5 DEF Swap32
<1> QED
  BY <1>6, ModuloInTime DEF Moved

-------------------------------------------------------------------------------
(* Operations on one timeline. *)

(* The place of a time exists: everything before it is earlier, and the packet *)
(* at it (if there is one) is not.                                            *)
LEMMA PlaceProperties ==
    ASSUME NEW P, HaveTimes(P), NEW list \in Seq(P), NEW t \in Time
    PROVE  LET i == Place(list, t) IN
           /\ i \in 1..(Len(list) + 1)
           /\ \A j \in 1..(i - 1) : list[j].time < t
           /\ i <= Len(list) => list[i].time >= t
<1> DEFINE T == {i \in 1..(Len(list) + 1) : i <= Len(list) => list[i].time >= t}
<1>1. Len(list) \in Nat
  OBVIOUS
<1>2. T \in SUBSET Nat /\ Len(list) + 1 \in T
  BY <1>1
<1>3. PICK i \in T : \A j \in T : i <= j
  BY <1>2, LeastNumber
<1>4. ASSUME NEW j \in 1..(i - 1)
      PROVE  list[j].time < t
  <2>1. j \in 1..Len(list) /\ j \notin T
    BY <1>1, <1>2, <1>3
  <2>2. list[j] \in P
    BY <2>1
  <2>3. list[j].time \in Nat /\ t \in Nat
    BY <2>2, TimeInNat DEF HaveTimes
  <2> QED
    BY <2>1, <2>3, <1>1
<1>5. \E k \in 1..(Len(list) + 1) :
        /\ \A j \in 1..(k - 1) : list[j].time < t
        /\ k <= Len(list) => list[k].time >= t
  BY <1>3, <1>4
<1> QED
  BY <1>5 DEF Place

(* A packet put at the place of its time, when no other has that time. *)
LEMMA InsertAtKeepsOrder ==
    ASSUME NEW P, HaveTimes(P), NEW list \in Seq(P), StrictlyOrdered(list),
           NEW p \in P, p.time \notin Times(list)
    PROVE  LET new == InsertAt(list, Place(list, p.time), p) IN
           /\ new \in Seq(P)
           /\ Len(new) = Len(list) + 1
           /\ StrictlyOrdered(new)
<1> DEFINE i   == Place(list, p.time)
           new == InsertAt(list, i, p)
<1>1. /\ i \in 1..(Len(list) + 1)
      /\ \A j \in 1..(i - 1) : list[j].time < p.time
      /\ i <= Len(list) => list[i].time >= p.time
  BY PlaceProperties DEF HaveTimes
<1> HIDE DEF i
<1>2. Len(list) \in Nat
  OBVIOUS
<1>3. /\ new \in [1..(Len(list) + 1) -> P]
      /\ \A j \in 1..(Len(list) + 1) :
           new[j] = IF j < i THEN list[j] ELSE IF j = i THEN p ELSE list[j - 1]
  BY <1>1, <1>2 DEF InsertAt
<1> HIDE DEF new
<1>4. new \in Seq(P) /\ Len(new) = Len(list) + 1
  BY <1>2, <1>3
<1>5. \A j \in 1..Len(list) : list[j] \in P /\ list[j].time \in Nat
  <2>1. \A c \in P : c.time \in Nat
    BY TimeInNat DEF HaveTimes
  <2> QED
    BY <1>2, <2>1
<1>6. p.time \in Nat
  BY TimeInNat DEF HaveTimes
<1>7. \A j \in 1..Len(list) : j >= i => list[j].time > p.time
  <2> SUFFICES ASSUME NEW j \in 1..Len(list), j >= i
               PROVE  list[j].time > p.time
    OBVIOUS
  <2>1. i \in 1..Len(list) /\ list[i].time >= p.time
    BY <1>1, <1>2
  <2>2. list[i].time # p.time
    BY <2>1 DEF Times
  <2>3. list[i].time <= list[j].time
    BY <2>1, <1>5 DEF StrictlyOrdered
  <2> QED
    BY <2>1, <2>2, <2>3, <1>5, <1>6
<1>8. ASSUME NEW j \in 1..Len(new), NEW k \in 1..Len(new), j < k
      PROVE  new[j].time < new[k].time
  <2>1. CASE k < i
    <3>1. j \in 1..Len(list) /\ k \in 1..Len(list) /\ new[j] = list[j] /\ new[k] = list[k]
      BY <2>1, <1>1, <1>2, <1>3, <1>4, <1>8
    <3> QED
      BY <3>1, <1>8 DEF StrictlyOrdered
  <2>2. CASE k = i
    <3>1. j \in 1..(i - 1) /\ new[j] = list[j] /\ new[k] = p
      BY <2>2, <1>1, <1>2, <1>3, <1>4, <1>8
    <3> QED
      BY <3>1, <1>1
  <2>3. CASE k > i /\ j < i
    <3>1. /\ j \in 1..(i - 1) /\ j \in 1..Len(list) /\ new[j] = list[j]
          /\ k - 1 \in 1..Len(list) /\ k - 1 >= i /\ new[k] = list[k - 1]
      BY <2>3, <1>1, <1>2, <1>3, <1>4
    <3>2. list[j].time < p.time /\ p.time < list[k - 1].time
      BY <3>1, <1>1, <1>7
    <3> QED
      BY <3>1, <3>2, <1>5, <1>6
  <2>4. CASE k > i /\ j = i
    <3>1. k - 1 \in 1..Len(list) /\ k - 1 >= i /\ new[k] = list[k - 1] /\ new[j] = p
      BY <2>4, <1>1, <1>2, <1>3, <1>4
    <3>2. p.time < list[k - 1].time
      BY <3>1, <1>5, <1>6, <1>7
    <3> QED
      BY <3>1, <3>2
  <2>5. CASE k > i /\ j > i
    <3>1. /\ j - 1 \in 1..Len(list) /\ new[j] = list[j - 1]
          /\ k - 1 \in 1..Len(list) /\ new[k] = list[k - 1] /\ j - 1 < k - 1
      BY <2>5, <1>1, <1>2, <1>3, <1>4, <1>8
    <3> QED
      BY <3>1 DEF StrictlyOrdered
  <2>6. i \in Int /\ j \in Int /\ k \in Int
    BY <1>1
  <2> QED
    BY <2>1, <2>2, <2>3, <2>4, <2>5, <2>6
<1> QED
  BY <1>4, <1>8 DEF StrictlyOrdered, new, i

(* PL_insert_tl_cmd turns a timeline into a timeline. *)
LEMMA InsertKeepsTimeline ==
    ASSUME NEW P, IsPacketSet(P), NEW size \in Nat, NEW list \in Timelines(P, size),
           NEW p \in P, NEW now \in Time
    PROVE  Insert(list, size, p, now) \in Timelines(P, size)
<1>1. list \in Seq(P) /\ StrictlyOrdered(list) /\ Len(list) <= size
  BY DEF Timelines
<1>2. CASE InsertAck(list, size, p.time, now) = "PL_SUCCESS"
  <2>1. Len(list) # size /\ p.time \notin Times(list)
    BY <1>2 DEF InsertAck
  <2>2. Len(list) + 1 <= size
    BY <1>1, <2>1
  <2> QED
    BY <1>1, <1>2, <2>1, <2>2, PacketsHaveTimes, InsertAtKeepsOrder
       DEF Insert, Timelines
<1>3. CASE InsertAck(list, size, p.time, now) # "PL_SUCCESS"
  BY <1>3 DEF Insert
<1> QED
  BY <1>2, <1>3

LEMMA EmptyIsTimeline == ASSUME NEW P, NEW size \in Nat PROVE <<>> \in Timelines(P, size)
BY DEF Timelines, StrictlyOrdered

(* PL_drop_head turns a timeline into a timeline. *)
LEMMA DropHeadKeepsTimeline ==
    ASSUME NEW P, NEW size \in Nat, NEW list \in Timelines(P, size)
    PROVE  DropHead(list) \in Timelines(P, size)
<1>1. CASE list = <<>>
  BY <1>1 DEF DropHead
<1>2. CASE list # <<>>
  <2>1. /\ Tail(list) \in Seq(P)
        /\ Len(Tail(list)) = Len(list) - 1
        /\ \A i \in 1..Len(Tail(list)) : Tail(list)[i] = list[i + 1]
    BY <1>2 DEF Timelines
  <2>2. StrictlyOrdered(Tail(list))
    BY <2>1 DEF Timelines, StrictlyOrdered
  <2> QED
    BY <1>2, <2>1, <2>2 DEF DropHead, Timelines
<1> QED
  BY <1>1, <1>2

(* PL_drop_node turns a timeline into a timeline. *)
LEMMA RemoveAtKeepsTimeline ==
    ASSUME NEW P, NEW size \in Nat, NEW list \in Timelines(P, size),
           NEW i \in 1..Len(list)
    PROVE  RemoveAt(list, i) \in Timelines(P, size)
<1> DEFINE new == RemoveAt(list, i)
<1>1. list \in Seq(P) /\ Len(list) \in Nat /\ StrictlyOrdered(list) /\ Len(list) <= size
  BY DEF Timelines
<1>2. /\ new \in [1..(Len(list) - 1) -> P]
      /\ \A j \in 1..(Len(list) - 1) : new[j] = IF j < i THEN list[j] ELSE list[j + 1]
  BY <1>1 DEF RemoveAt
<1> HIDE DEF new
<1>3. new \in Seq(P) /\ Len(new) = Len(list) - 1
  BY <1>1, <1>2
<1>4. StrictlyOrdered(new)
  <2> SUFFICES ASSUME NEW j \in 1..Len(new), NEW k \in 1..Len(new), j < k
               PROVE  new[j].time < new[k].time
    BY DEF StrictlyOrdered
  <2> DEFINE from(m) == IF m < i THEN m ELSE m + 1
  <2>1. /\ from(j) \in 1..Len(list) /\ from(k) \in 1..Len(list) /\ from(j) < from(k)
        /\ new[j] = list[from(j)] /\ new[k] = list[from(k)]
    BY <1>1, <1>2, <1>3
  <2> HIDE DEF from
  <2> QED
    BY <1>1, <2>1 DEF StrictlyOrdered
<1> QED
  BY <1>1, <1>3, <1>4 DEF Timelines, new

-------------------------------------------------------------------------------
(* The loops of PL_deploy_block_cmd. *)

InsertAcks == {"PL_SUCCESS", "PL_TLC_PAST_TIME", "PL_LIST_FULL", "PL_TLC_ALREADY_EXISTS"}

(* The values of the loop's variables, of which the list is a timeline. *)
LoopStates(P, size) ==
    [list : Timelines(P, size), adj : Nat, ack : InsertAcks, time : Time]

LEMMA InsertAckIsAck ==
    ASSUME NEW list, NEW size, NEW t, NEW now
    PROVE  InsertAck(list, size, t, now) \in InsertAcks
BY DEF InsertAck, InsertAcks

(* One try to register a command of the block. *)
LEMMA AttemptKeepsTimeline ==
    ASSUME NEW P, IsPacketSet(P), NEW size \in Nat, NEW start \in Time,
           NEW s \in LoopStates(P, size), NEW c \in P, NEW t \in Time
    PROVE  Attempt(size, start, s, c, t) \in LoopStates(P, size)
<1>1. [c EXCEPT !.time = t] \in P
  BY DEF IsPacketSet
<1>2. s.list \in Timelines(P, size) /\ s.adj \in Nat
  BY DEF LoopStates
<1>3. Insert(s.list, size, [c EXCEPT !.time = t], start) \in Timelines(P, size)
  BY <1>1, <1>2, InsertKeepsTimeline
<1>4. InsertAck(s.list, size, t, start) \in InsertAcks
  BY InsertAckIsAck
<1> QED
  BY <1>2, <1>3, <1>4 DEF Attempt, LoopStates

(* The second and later tries, as often as they are made. *)
LEMMA RetryPassKeepsTimeline ==
    ASSUME NEW P, IsPacketSet(P), NEW size \in Nat, NEW start \in Time,
           NEW s \in LoopStates(P, size), NEW c \in P, NEW k
    PROVE  RetryPass(size, start, s, c, k) \in LoopStates(P, size)
<1> DEFINE moved == [s EXCEPT !.adj = @ + 1]
<1>1. moved \in LoopStates(P, size)
  BY DEF LoopStates
<1>2. Moved(s.time) \in Time
  BY MovedInTime DEF LoopStates
<1> HIDE DEF moved
<1>3. Attempt(size, start, moved, c, Moved(s.time)) \in LoopStates(P, size)
  BY <1>1, <1>2, AttemptKeepsTimeline
<1> QED
  BY <1>3 DEF RetryPass, Retry, moved

(* The tries are the passes of the loop, one after the other. *)
LEMMA RetriesArePasses ==
    ASSUME NEW P, IsPacketSet(P), NEW size \in Nat, NEW start \in Time,
           NEW first \in LoopStates(P, size), NEW c \in P
    PROVE  LET n == AdjLimit + 1 IN
           \E pass :
             /\ Retries(size, start, first, c) = pass[n]
             /\ pass[0] = first
             /\ \A k \in 1..n : pass[k] = RetryPass(size, start, pass[k - 1], c, k)
<1> DEFINE State == LoopStates(P, size)
           n == AdjLimit + 1
           G == [ks \in (1..n) \X State |-> RetryPass(size, start, ks[2], c, ks[1])]
<1>1. n \in Nat
  BY AdjAssumption
<1>2. \A k \in 1..n, s \in State : G[<<k, s>>] = RetryPass(size, start, s, c, k)
  OBVIOUS
<1>3. StaysIn(State, n, G)
  BY <1>2, RetryPassKeepsTimeline DEF StaysIn
<1> HIDE DEF n, G
<1>4. PICK f \in [0..n -> State] : Iterates(f, first, n, G)
  BY <1>1, <1>3, IterationExists
<1> HIDE DEF State
<1>5. \A k \in 0..n : f[k] = IF k = 0 THEN first
                             ELSE RetryPass(size, start, f[k - 1], c, k)
  <2> SUFFICES ASSUME NEW k \in 0..n, k # 0
               PROVE  f[k] = RetryPass(size, start, f[k - 1], c, k)
    BY <1>4 DEF Iterates
  <2>1. k \in 1..n /\ k - 1 \in 0..n
    BY <1>1
  <2> QED
    BY <1>2, <1>4, <2>1 DEF Iterates
<1> DEFINE IsPass(g) == g = [k \in 0..n |->
                          IF k = 0 THEN first
                          ELSE RetryPass(size, start, g[k - 1], c, k)]
           pass == CHOOSE g : IsPass(g)
<1>6. IsPass(f)
  BY <1>4, <1>5
<1>7. IsPass(pass)
  BY <1>6
<1>8. Retries(size, start, first, c) = pass[n]
  BY DEF Retries, n
<1> HIDE DEF pass
<1>9. \A k \in 0..n : pass[k] = IF k = 0 THEN first
                                ELSE RetryPass(size, start, pass[k - 1], c, k)
  BY <1>7
<1>10. /\ pass[0] = first
       /\ \A k \in 1..n : pass[k] = RetryPass(size, start, pass[k - 1], c, k)
  BY <1>1, <1>9
<1> QED
  BY <1>8, <1>10 DEF n

LEMMA RetriesKeepTimeline ==
    ASSUME NEW P, IsPacketSet(P), NEW size \in Nat, NEW start \in Time,
           NEW first \in LoopStates(P, size), NEW c \in P
    PROVE  Retries(size, start, first, c) \in LoopStates(P, size)
<1> DEFINE State == LoopStates(P, size)
           n == AdjLimit + 1
<1>1. n \in Nat
  BY AdjAssumption
<1>2. PICK pass :
        /\ Retries(size, start, first, c) = pass[n]
        /\ pass[0] = first
        /\ \A k \in 1..n : pass[k] = RetryPass(size, start, pass[k - 1], c, k)
  BY RetriesArePasses
<1> HIDE DEF n, State
<1>3. pass[0] \in State
  BY <1>2 DEF State
<1>4. ASSUME NEW k \in 1..n, pass[k - 1] \in State
      PROVE  pass[k] \in State
  BY <1>2, <1>4, RetryPassKeepsTimeline DEF State
<1> QED
  BY <1>1, <1>2, <1>3, <1>4, IterationStays DEF State

(* One command of the block. *)
LEMMA DeployCmdKeepsTimeline ==
    ASSUME NEW P, IsPacketSet(P), NEW size \in Nat, NEW start \in Time,
           NEW s \in LoopStates(P, size), NEW c \in P
    PROVE  DeployCmd(size, start, s, c) \in LoopStates(P, size)
<1>1. start + s.adj + c.time \in Int
  BY TimeInNat DEF LoopStates, IsPacketSet
<1>2. (start + s.adj + c.time) % CycleSpan \in Time
  BY <1>1, ModuloInTime
<1> QED
  BY <1>2, AttemptKeepsTimeline, RetriesKeepTimeline DEF DeployCmd

(* The deployment is the passes of the for loop, one after the other. *)
LEMMA DeployCmdsArePasses ==
    ASSUME NEW P, IsPacketSet(P), NEW size \in Nat, NEW start \in Time,
           NEW begin \in LoopStates(P, size), NEW cmds \in Seq(P)
    PROVE  \E pass :
             /\ DeployCmds(size, start, begin, cmds) = pass[Len(cmds)]
             /\ pass[0] = begin
             /\ \A i \in 1..Len(cmds) :
                  pass[i] = DeployCmd(size, start, pass[i - 1], cmds[i])
<1> DEFINE State == LoopStates(P, size)
           n == Len(cmds)
           G == [is \in (1..n) \X State |-> DeployCmd(size, start, is[2], cmds[is[1]])]
<1>1. n \in Nat /\ \A i \in 1..n : cmds[i] \in P
  OBVIOUS
<1>2. \A i \in 1..n, s \in State : G[<<i, s>>] = DeployCmd(size, start, s, cmds[i])
  OBVIOUS
<1>3. StaysIn(State, n, G)
  BY <1>1, <1>2, DeployCmdKeepsTimeline DEF StaysIn
<1> HIDE DEF n, G
<1>4. PICK f \in [0..n -> State] : Iterates(f, begin, n, G)
  BY <1>1, <1>3, IterationExists
<1> HIDE DEF State
<1>5. \A i \in 0..n : f[i] = IF i = 0 THEN begin
                             ELSE DeployCmd(size, start, f[i - 1], cmds[i])
  <2> SUFFICES ASSUME NEW i \in 0..n, i # 0
               PROVE  f[i] = DeployCmd(size, start, f[i - 1], cmds[i])
    BY <1>4 DEF Iterates
  <2>1. i \in 1..n /\ i - 1 \in 0..n
    BY <1>1
  <2> QED
    BY <1>2, <1>4, <2>1 DEF Iterates
<1> DEFINE IsPass(g) == g = [i \in 0..n |->
                          IF i = 0 THEN begin
                          ELSE DeployCmd(size, start, g[i - 1], cmds[i])]
           pass == CHOOSE g : IsPass(g)
<1>6. IsPass(f)
  BY <1>4, <1>5
<1>7. IsPass(pass)
  BY <1>6
<1>8. DeployCmds(size, start, begin, cmds) = pass[n]
  BY DEF DeployCmds, n
<1> HIDE DEF pass
<1>9. \A i \in 0..n : pass[i] = IF i = 0 THEN begin
                                ELSE DeployCmd(size, start, pass[i - 1], cmds[i])
  BY <1>7
<1>10. /\ pass[0] = begin
       /\ \A i \in 1..n : pass[i] = DeployCmd(size, start, pass[i - 1], cmds[i])
  BY <1>1, <1>9
<1> QED
  BY <1>8, <1>10 DEF n

LEMMA DeployCmdsKeepTimeline ==
    ASSUME NEW P, IsPacketSet(P), NEW size \in Nat, NEW start \in Time,
           NEW begin \in LoopStates(P, size), NEW cmds \in Seq(P)
    PROVE  DeployCmds(size, start, begin, cmds) \in LoopStates(P, size)
<1> DEFINE State == LoopStates(P, size)
           n == Len(cmds)
<1>1. n \in Nat /\ \A i \in 1..n : cmds[i] \in P
  OBVIOUS
<1>2. PICK pass :
        /\ DeployCmds(size, start, begin, cmds) = pass[n]
        /\ pass[0] = begin
        /\ \A i \in 1..n : pass[i] = DeployCmd(size, start, pass[i - 1], cmds[i])
  BY DeployCmdsArePasses
<1> HIDE DEF n, State
<1>3. pass[0] \in State
  BY <1>2 DEF State
<1>4. ASSUME NEW i \in 1..n, pass[i - 1] \in State
      PROVE  pass[i] \in State
  BY <1>1, <1>2, <1>4, DeployCmdKeepsTimeline DEF State
<1> QED
  BY <1>1, <1>2, <1>3, <1>4, IterationStays DEF State

(* PL_deploy_block_cmd turns a timeline into a timeline, whatever the times of *)
(* the block collide with and however often commands are moved.               *)
LEMMA DeployKeepsTimeline ==
    ASSUME NEW P, IsPacketSet(P), NEW size \in Nat, NEW list \in Timelines(P, size),
           NEW cmds \in Seq(P), NEW start \in Time
    PROVE  Deploy(list, size, cmds, start).list \in Timelines(P, size)
<1> DEFINE cleared == size - Len(list) < Len(cmds)
           begin == [list |-> IF cleared THEN <<>> ELSE list,
                     adj |-> 0, ack |-> "PL_SUCCESS", time |-> start]
<1>1. begin.list \in Timelines(P, size)
  BY EmptyIsTimeline
<1>2. begin \in LoopStates(P, size)
  BY <1>1 DEF LoopStates, InsertAcks
<1> HIDE DEF cleared
<1>3. DeployCmds(size, start, begin, cmds).list \in Timelines(P, size)
  BY <1>2, DeployCmdsKeepTimeline DEF LoopStates
<1> QED
  BY <1>3 DEF Deploy, cleared

-------------------------------------------------------------------------------
(* A block that is in order is deployed on an empty timeline as it is. *)

(* The answer of the first try ends the tries, but for a time that is taken. *)
LEMMA SuccessIsNotRetried ==
    ASSUME NEW P, IsPacketSet(P), NEW size \in Nat, NEW start \in Time,
           NEW first \in LoopStates(P, size), first.ack = "PL_SUCCESS", NEW c \in P
    PROVE  Retries(size, start, first, c) = first
<1> DEFINE n == AdjLimit + 1
<1>1. n \in Nat
  BY AdjAssumption
<1>2. PICK pass :
        /\ Retries(size, start, first, c) = pass[n]
        /\ pass[0] = first
        /\ \A k \in 1..n : pass[k] = RetryPass(size, start, pass[k - 1], c, k)
  BY RetriesArePasses
<1> HIDE DEF n
<1> DEFINE Only == {first}
<1>3. pass[0] \in Only
  BY <1>2
<1>4. ASSUME NEW k \in 1..n, pass[k - 1] \in Only
      PROVE  pass[k] \in Only
  BY <1>2, <1>4 DEF RetryPass
<1> HIDE DEF Only
<1>5. pass[n] \in Only
  BY <1>1, <1>3, <1>4, IterationStays
<1> QED
  BY <1>2, <1>5 DEF Only

(* A packet later than all of a list goes behind them. *)
LEMMA InsertLast ==
    ASSUME NEW P, IsPacketSet(P), NEW size \in Nat, NEW list \in Seq(P), Len(list) < size,
           NEW p \in P, \A j \in 1..Len(list) : list[j].time < p.time
    PROVE  /\ InsertAck(list, size, p.time, 0) = "PL_SUCCESS"
           /\ Insert(list, size, p, 0) = Append(list, p)
<1>1. Len(list) \in Nat /\ p.time \in Nat /\ \A j \in 1..Len(list) : list[j].time \in Nat
  BY TimeInNat DEF IsPacketSet
<1>2. p.time \notin Times(list)
  BY <1>1 DEF Times
<1>3. InsertAck(list, size, p.time, 0) = "PL_SUCCESS"
  BY <1>1, <1>2 DEF InsertAck
<1>4. /\ Place(list, p.time) \in 1..(Len(list) + 1)
      /\ Place(list, p.time) <= Len(list) => list[Place(list, p.time)].time >= p.time
  BY PacketsHaveTimes, PlaceProperties DEF IsPacketSet
<1>5. Place(list, p.time) = Len(list) + 1
  BY <1>1, <1>4
<1>6. InsertAt(list, Len(list) + 1, p) = Append(list, p)
  <2> DEFINE new == InsertAt(list, Len(list) + 1, p)
  <2>1. /\ new \in [1..(Len(list) + 1) -> P]
        /\ \A j \in 1..(Len(list) + 1) : new[j] = IF j = Len(list) + 1 THEN p ELSE list[j]
    BY <1>1 DEF InsertAt
  <2> HIDE DEF new
  <2>2. new \in Seq(P) /\ Len(new) = Len(list) + 1
    BY <1>1, <2>1
  <2>3. \A j \in 1..Len(new) : new[j] = Append(list, p)[j]
    BY <1>1, <2>1, <2>2
  <2>4. Append(list, p) \in Seq(P) /\ Len(Append(list, p)) = Len(list) + 1
    BY AppendProperties
  <2>5. new = Append(list, p)
    BY <2>2, <2>3, <2>4, SeqEqual
  <2> QED
    BY <2>5 DEF new
<1> QED
  BY <1>3, <1>5, <1>6 DEF Insert

(* The state of the loop after the first i commands of such a block. *)
PutInOrder(P, size, cmds, i, s) ==
    /\ s \in LoopStates(P, size)
    /\ s.list = SubSeq(cmds, 1, i)
    /\ s.adj = 0
    /\ s.ack = "PL_SUCCESS"

LEMMA DeployCmdInOrder ==
    ASSUME NEW P, IsPacketSet(P), KeepsItself(P),
           NEW size \in Nat, NEW cmds \in Seq(P), StrictlyOrdered(cmds), Len(cmds) <= size,
           NEW i \in 1..Len(cmds), NEW s, PutInOrder(P, size, cmds, i - 1, s)
    PROVE  PutInOrder(P, size, cmds, i, DeployCmd(size, 0, s, cmds[i]))
<1> DEFINE c == cmds[i]
           tried == Attempt(size, 0, s, c, c.time)
<1>1. /\ Len(cmds) \in Nat /\ c \in P /\ c.time \in Time /\ c.time \in Nat
      /\ 0 \in Time /\ CycleSpan \in Nat \ {0}
  BY CycleSpanPositive, TimeInNat DEF IsPacketSet, Time
<1> HIDE DEF tried
<1>2. (0 + s.adj + c.time) % CycleSpan = c.time
  <2>1. \A t \in 0..(CycleSpan - 1) : t % CycleSpan = t
    BY <1>1
  <2>2. 0 + s.adj + c.time = c.time
    BY <1>1 DEF PutInOrder
  <2> QED
    BY <1>1, <2>1, <2>2 DEF Time
<1>3. /\ s.list \in Seq(P)
      /\ Len(s.list) = i - 1
      /\ \A j \in 1..(i - 1) : s.list[j] = cmds[j]
  BY <1>1 DEF PutInOrder
<1>4. \A j \in 1..Len(s.list) : s.list[j].time < c.time
  <2>1. \A j \in 1..(i - 1) : cmds[j].time < cmds[i].time
    BY <1>1 DEF StrictlyOrdered
  <2> QED
    BY <1>3, <2>1
<1>5. /\ InsertAck(s.list, size, c.time, 0) = "PL_SUCCESS"
      /\ Insert(s.list, size, c, 0) = Append(s.list, c)
  <2> DEFINE l == s.list
  <2>1. /\ l \in Seq(P) /\ Len(l) < size /\ c \in P
        /\ \A j \in 1..Len(l) : l[j].time < c.time
    BY <1>1, <1>3, <1>4
  <2> HIDE DEF c, l
  <2>2. /\ InsertAck(l, size, c.time, 0) = "PL_SUCCESS"
        /\ Insert(l, size, c, 0) = Append(l, c)
    BY <2>1, InsertLast
  <2> QED
    BY <2>2 DEF l
<1>6. Append(s.list, c) = SubSeq(cmds, 1, i)
  <2>1. /\ Append(s.list, c) \in Seq(P) /\ Len(Append(s.list, c)) = i
        /\ \A j \in 1..i : Append(s.list, c)[j] = cmds[j]
    BY <1>1, <1>3, AppendProperties
  <2>2. /\ SubSeq(cmds, 1, i) \in Seq(P) /\ Len(SubSeq(cmds, 1, i)) = i
        /\ \A j \in 1..i : SubSeq(cmds, 1, i)[j] = cmds[j]
    BY <1>1
  <2> QED
    BY <2>1, <2>2, SeqEqual
<1>7. tried = [list |-> SubSeq(cmds, 1, i), adj |-> 0, ack |-> "PL_SUCCESS", time |-> c.time]
  BY <1>1, <1>5, <1>6 DEF Attempt, PutInOrder, KeepsItself, tried
<1>8. tried \in LoopStates(P, size)
  BY <1>1, AttemptKeepsTimeline DEF PutInOrder, tried
<1>9. PutInOrder(P, size, cmds, i, tried) /\ tried.ack = "PL_SUCCESS"
  BY <1>7, <1>8 DEF PutInOrder
<1>10. Retries(size, 0, tried, c) = tried
  BY <1>1, <1>8, <1>9, SuccessIsNotRetried
<1>11. DeployCmd(size, 0, s, c) = Retries(size, 0, tried, c)
  BY <1>2 DEF DeployCmd, PutInOrder, tried
<1> QED
  BY <1>9, <1>10, <1>11

LEMMA DeployInOrder ==
    ASSUME NEW P, IsPacketSet(P), KeepsItself(P),
           NEW size \in Nat, NEW cmds \in Seq(P), StrictlyOrdered(cmds), Len(cmds) <= size
    PROVE  Deploy(<<>>, size, cmds, 0) = [list |-> cmds, ack |-> "PL_SUCCESS"]
<1> DEFINE begin == [list |-> <<>>, adj |-> 0, ack |-> "PL_SUCCESS", time |-> 0]
           n == Len(cmds)
<1>1. n \in Nat /\ 0 \in Time
  BY CycleSpanPositive DEF Time
<1>2. begin \in LoopStates(P, size)
  BY <1>1, EmptyIsTimeline DEF LoopStates, InsertAcks
<1>3. PICK pass :
        /\ DeployCmds(size, 0, begin, cmds) = pass[n]
        /\ pass[0] = begin
        /\ \A i \in 1..n : pass[i] = DeployCmd(size, 0, pass[i - 1], cmds[i])
  BY <1>1, <1>2, DeployCmdsArePasses
<1> DEFINE D == {i \in Nat : i <= n => PutInOrder(P, size, cmds, i, pass[i])}
<1>4. 0 \in D
  <2>1. SubSeq(cmds, 1, 0) = <<>>
    OBVIOUS
  <2>2. PutInOrder(P, size, cmds, 0, begin)
    BY <1>2, <2>1 DEF PutInOrder
  <2> QED
    BY <1>3, <2>2
<1>5. ASSUME NEW i \in Nat, i \in D
      PROVE  i + 1 \in D
  <2> SUFFICES ASSUME i + 1 <= n PROVE PutInOrder(P, size, cmds, i + 1, pass[i + 1])
    OBVIOUS
  <2>1. i + 1 \in 1..n /\ (i + 1) - 1 = i
    BY <1>1
  <2>2. PutInOrder(P, size, cmds, i, pass[i])
    BY <1>1, <1>5, <2>1
  <2>3. pass[i + 1] = DeployCmd(size, 0, pass[i], cmds[i + 1])
    BY <1>3, <2>1
  <2> QED
    BY <2>1, <2>2, <2>3, DeployCmdInOrder
<1> HIDE DEF D
<1>6. n \in D
  BY <1>1, <1>4, <1>5, SetInduction
<1>7. PutInOrder(P, size, cmds, n, pass[n])
  BY <1>1, <1>6 DEF D
<1>8. SubSeq(cmds, 1, n) = cmds
  OBVIOUS
<1>9. ~(size - Len(<<>>) < n)
  BY <1>1
<1> HIDE DEF n
<1> QED
  BY <1>3, <1>7, <1>8, <1>9 DEF Deploy, PutInOrder, n

-------------------------------------------------------------------------------
(* What the operations put on a timeline and take off it. *)

Members(list) == {list[i] : i \in 1..Len(list)}

LEMMA InsertAtMembers ==
    ASSUME NEW P, NEW list \in Seq(P), NEW i \in 1..(Len(list) + 1), NEW p \in P
    PROVE  /\ InsertAt(list, i, p) \in Seq(P)
           /\ Len(InsertAt(list, i, p)) = Len(list) + 1
           /\ Members(InsertAt(list, i, p)) = Members(list) \cup {p}
<1> DEFINE new == InsertAt(list, i, p)
<1>1. Len(list) \in Nat
  OBVIOUS
<1>2. /\ new \in [1..(Len(list) + 1) -> P]
      /\ \A j \in 1..(Len(list) + 1) :
           new[j] = IF j < i THEN list[j] ELSE IF j = i THEN p ELSE list[j - 1]
  BY <1>1 DEF InsertAt
<1> HIDE DEF new
<1>3. new \in Seq(P) /\ Len(new) = Len(list) + 1
  BY <1>1, <1>2
<1>4. ASSUME NEW j \in 1..Len(new)
      PROVE  new[j] \in Members(list) \cup {p}
  <2>1. CASE j < i
    BY <1>1, <1>2, <1>3, <2>1 DEF Members
  <2>2. CASE j = i
    BY <1>2, <1>3, <2>2
  <2>3. CASE j > i
    <3>1. j - 1 \in 1..Len(list) /\ new[j] = list[j - 1]
      BY <1>1, <1>2, <1>3, <2>3
    <3> QED
      BY <3>1 DEF Members
  <2> QED
    BY <1>1, <1>3, <2>1, <2>2, <2>3
<1>5. ASSUME NEW j \in 1..Len(list)
      PROVE  list[j] \in Members(new)
  <2>1. CASE j < i
    <3>1. j \in 1..Len(new) /\ new[j] = list[j]
      BY <1>1, <1>2, <1>3, <2>1
    <3> QED
      BY <3>1 DEF Members
  <2>2. CASE j >= i
    <3>1. j + 1 \in 1..Len(new) /\ new[j + 1] = list[(j + 1) - 1] /\ (j + 1) - 1 = j
      BY <1>1, <1>2, <1>3, <2>2
    <3> QED
      BY <3>1 DEF Members
  <2> QED
    BY <1>1, <2>1, <2>2
<1>6. p \in Members(new)
  <2>1. i \in 1..Len(new) /\ new[i] = p
    BY <1>1, <1>2, <1>3
  <2> QED
    BY <2>1 DEF Members
<1>7. Members(new) = Members(list) \cup {p}
  BY <1>4, <1>5, <1>6 DEF Members
<1> QED
  BY <1>3, <1>7 DEF new

(* PL_insert_tl_cmd puts its packet on the list, unless it answers an error, and   *)
(* never one whose time is past.                                              *)
LEMMA InsertMembers ==
    ASSUME NEW P, IsPacketSet(P), NEW size \in Nat, NEW list \in Timelines(P, size),
           NEW p \in P, NEW now \in Time
    PROVE  IF InsertAck(list, size, p.time, now) = "PL_SUCCESS"
           THEN /\ Members(Insert(list, size, p, now)) = Members(list) \cup {p}
                /\ Len(Insert(list, size, p, now)) = Len(list) + 1
                /\ p.time >= now
           ELSE Insert(list, size, p, now) = list
<1>1. list \in Seq(P) /\ p.time \in Time
  BY DEF Timelines, IsPacketSet
<1>2. Place(list, p.time) \in 1..(Len(list) + 1)
  BY <1>1, PacketsHaveTimes, PlaceProperties
<1>3. InsertAck(list, size, p.time, now) = "PL_SUCCESS" => p.time >= now
  <2>1. p.time \in Nat /\ now \in Nat
    BY <1>1, TimeInNat
  <2>2. InsertAck(list, size, p.time, now) = "PL_SUCCESS" => ~(now > p.time)
    BY DEF InsertAck
  <2> QED
    BY <2>1, <2>2
<1>4. LET new == InsertAt(list, Place(list, p.time), p) IN
      Members(new) = Members(list) \cup {p} /\ Len(new) = Len(list) + 1
  BY <1>1, <1>2, InsertAtMembers
<1> QED
  BY <1>3, <1>4 DEF Insert

(* The command c at the time t. *)
Timed(c, t) == [c EXCEPT !.time = t]

LEMMA TimedIsPacket ==
    ASSUME NEW P, IsPacketSet(P), NEW c \in P, NEW t \in Time
    PROVE  Timed(c, t) \in P /\ Timed(c, t).time = t
BY DEF IsPacketSet, Timed

(* The packet that was put on the list of before, at the time t if no adjustment   *)
(* was made since.                                                            *)
PutOn(P, start, before, c, t, s, p) ==
    /\ p \in P
    /\ p.time >= start
    /\ Members(s.list) = Members(before.list) \cup {p}
    /\ Len(s.list) = Len(before.list) + 1
    /\ s.adj = before.adj => p = Timed(c, t)

(* The states in which the tries to register the command c may end: it is on the   *)
(* list, or the list is as it was.                                             *)
Tried(P, size, start, before, c, t) ==
    {s \in LoopStates(P, size) :
        /\ s.adj >= before.adj
        /\ IF s.ack = "PL_SUCCESS" THEN \E p : PutOn(P, start, before, c, t, s, p)
           ELSE s.list = before.list}

LEMMA FirstTry ==
    ASSUME NEW P, IsPacketSet(P), NEW size \in Nat, NEW start \in Time,
           NEW before \in LoopStates(P, size), NEW c \in P, NEW t \in Time
    PROVE  Attempt(size, start, before, c, t) \in Tried(P, size, start, before, c, t)
<1> DEFINE p == Timed(c, t)
           s == Attempt(size, start, before, c, t)
<1>1. p \in P /\ p.time = t
  BY TimedIsPacket
<1>2. /\ s.list = Insert(before.list, size, p, start)
      /\ s.ack = InsertAck(before.list, size, p.time, start)
      /\ s.adj = before.adj
  BY <1>1 DEF Attempt, Timed
<1>3. s \in LoopStates(P, size)
  BY AttemptKeepsTimeline
<1> HIDE DEF s
<1>4. before.list \in Timelines(P, size) /\ before.adj \in Nat
  BY DEF LoopStates
<1> HIDE DEF p
<1>5. IF s.ack = "PL_SUCCESS"
      THEN /\ Members(s.list) = Members(before.list) \cup {p}
           /\ Len(s.list) = Len(before.list) + 1
           /\ p.time >= start
      ELSE s.list = before.list
  <2>1. IF InsertAck(before.list, size, p.time, start) = "PL_SUCCESS"
        THEN /\ Members(Insert(before.list, size, p, start)) = Members(before.list) \cup {p}
             /\ Len(Insert(before.list, size, p, start)) = Len(before.list) + 1
             /\ p.time >= start
        ELSE Insert(before.list, size, p, start) = before.list
    BY <1>1, <1>4, InsertMembers
  <2> QED
    BY <1>2, <2>1
<1>6. s.ack = "PL_SUCCESS" => PutOn(P, start, before, c, t, s, p)
  BY <1>1, <1>5 DEF PutOn, p
<1>7. s \in Tried(P, size, start, before, c, t)
  BY <1>2, <1>3, <1>4, <1>5, <1>6 DEF Tried
<1> QED
  BY <1>7 DEF s

LEMMA NextTry ==
    ASSUME NEW P, IsPacketSet(P), NEW size \in Nat, NEW start \in Time,
           NEW before \in LoopStates(P, size), NEW c \in P, NEW t,
           NEW s \in Tried(P, size, start, before, c, t), NEW k
    PROVE  RetryPass(size, start, s, c, k) \in Tried(P, size, start, before, c, t)
<1>1. CASE s.ack # "PL_TLC_ALREADY_EXISTS"
  BY <1>1 DEF RetryPass
<1>2. CASE s.ack = "PL_TLC_ALREADY_EXISTS"
  <2> DEFINE moved == [s EXCEPT !.adj = @ + 1]
             new == Attempt(size, start, moved, c, Moved(s.time))
  <2>1. s \in LoopStates(P, size) /\ s.list = before.list /\ s.adj >= before.adj
    BY <1>2 DEF Tried
  <2>2. /\ moved \in LoopStates(P, size) /\ moved.list = s.list /\ moved.adj = s.adj + 1
        /\ Moved(s.time) \in Time /\ before.adj \in Nat /\ s.adj \in Nat
    BY <2>1, MovedInTime DEF LoopStates
  <2> HIDE DEF moved
  <2>3. new \in Tried(P, size, start, moved, c, Moved(s.time))
    BY <2>2, FirstTry
  <2>4. new.adj = moved.adj
    BY DEF Attempt
  <2> HIDE DEF new
  <2>5. new \in Tried(P, size, start, before, c, t)
    <3>1. new \in LoopStates(P, size) /\ new.adj > before.adj
      BY <2>1, <2>2, <2>3, <2>4 DEF Tried
    <3>2. ASSUME NEW p, PutOn(P, start, moved, c, Moved(s.time), new, p)
          PROVE  PutOn(P, start, before, c, t, new, p)
      BY <2>1, <2>2, <3>1, <3>2 DEF PutOn
    <3>3. /\ new.adj >= before.adj
          /\ new.ack = "PL_SUCCESS" => \E p : PutOn(P, start, before, c, t, new, p)
          /\ new.ack # "PL_SUCCESS" => new.list = before.list
      <4>1. new.adj >= before.adj
        BY <2>2, <2>4, <3>1
      <4>2. /\ new.ack = "PL_SUCCESS" => \E p : PutOn(P, start, moved, c, Moved(s.time), new, p)
            /\ new.ack # "PL_SUCCESS" => new.list = moved.list
        BY <2>3 DEF Tried
      <4> QED
        BY <2>1, <2>2, <3>2, <4>1, <4>2
    <3> QED
      BY <3>1, <3>3 DEF Tried
  <2>6. RetryPass(size, start, s, c, k) \in {s, new}
    BY DEF RetryPass, Retry, new, moved
  <2> QED
    BY <2>5, <2>6
<1> QED
  BY <1>1, <1>2

(* All the tries for a command. *)
LEMMA AllTries ==
    ASSUME NEW P, IsPacketSet(P), NEW size \in Nat, NEW start \in Time,
           NEW before \in LoopStates(P, size), before.ack = "PL_SUCCESS", NEW c \in P
    PROVE  DeployCmd(size, start, before, c)
             \in Tried(P, size, start, before, c, (start + before.adj + c.time) % CycleSpan)
<1> DEFINE t == (start + before.adj + c.time) % CycleSpan
           first == Attempt(size, start, before, c, t)
           End == Tried(P, size, start, before, c, t)
           n == AdjLimit + 1
<1>1. start + before.adj + c.time \in Int
  BY TimeInNat DEF LoopStates, IsPacketSet
<1>2. t \in Time
  BY <1>1, ModuloInTime
<1>3. DeployCmd(size, start, before, c) = Retries(size, start, first, c)
  BY DEF DeployCmd
<1> HIDE DEF t
<1>4. first \in LoopStates(P, size) /\ first \in End
  BY <1>2, AttemptKeepsTimeline, FirstTry
<1> HIDE DEF first
<1>5. n \in Nat
  BY AdjAssumption
<1>6. PICK pass :
        /\ Retries(size, start, first, c) = pass[n]
        /\ pass[0] = first
        /\ \A k \in 1..n : pass[k] = RetryPass(size, start, pass[k - 1], c, k)
  BY <1>4, RetriesArePasses
<1> HIDE DEF n
<1>7. ASSUME NEW k \in 1..n, pass[k - 1] \in End
      PROVE  pass[k] \in End
  BY <1>6, <1>7, NextTry
<1> HIDE DEF End
<1>8. pass[n] \in End
  BY <1>4, <1>5, <1>6, <1>7, IterationStays
<1> QED
  BY <1>3, <1>6, <1>8 DEF End, t

(* The packets that are not past at start. *)
NotPast(P, start) == {p \in P : p.time >= start}

(* The state of the loop over the block after i commands, on what was list. *)
PutSoFar(P, size, start, list, cmds, i, s) ==
    /\ s \in LoopStates(P, size)
    /\ Members(s.list) \subseteq Members(list) \cup NotPast(P, start)
    /\ s.ack = "PL_SUCCESS" =>
         /\ Members(list) \subseteq Members(s.list)
         /\ Len(s.list) = Len(list) + i
         /\ s.adj = 0 =>
              \A j \in 1..i : Timed(cmds[j], start + cmds[j].time) \in Members(s.list)

(* A time that went beyond 32 bits would be past, and not on the list. *)
LEMMA NotTurnedOver ==
    ASSUME NEW start \in Time, NEW t \in Time, (start + t) % CycleSpan >= start
    PROVE  (start + t) % CycleSpan = start + t
<1>1. CycleSpan \in Nat \ {0} /\ start \in 0..(CycleSpan - 1) /\ t \in 0..(CycleSpan - 1)
  BY CycleSpanPositive DEF Time
<1>2. ASSUME NEW x \in Nat, x < CycleSpan
      PROVE  x % CycleSpan = x
  BY <1>1, <1>2
<1>3. ASSUME NEW x \in Nat, x >= CycleSpan, x < 2 * CycleSpan
      PROVE  x % CycleSpan = x - CycleSpan
  BY <1>1, <1>3
<1> QED
  BY <1>1, <1>2, <1>3

LEMMA DeployCmdMembers ==
    ASSUME NEW P, IsPacketSet(P), NEW size \in Nat, NEW start \in Time,
           NEW list \in Seq(P), NEW cmds \in Seq(P), NEW i \in 1..Len(cmds),
           NEW s, PutSoFar(P, size, start, list, cmds, i - 1, s)
    PROVE  PutSoFar(P, size, start, list, cmds, i, DeployCmd(size, start, s, cmds[i]))
<1> DEFINE c == cmds[i]
           t == (start + s.adj + c.time) % CycleSpan
           new == DeployCmd(size, start, s, c)
<1>1. c \in P /\ c.time \in Time /\ s \in LoopStates(P, size) /\ s.adj \in Nat
  BY DEF IsPacketSet, PutSoFar, LoopStates
<1>2. CASE s.ack # "PL_SUCCESS"
  <2>1. new = s
    BY <1>2 DEF DeployCmd
  <2> QED
    BY <1>2, <2>1 DEF PutSoFar
<1>3. CASE s.ack = "PL_SUCCESS"
  <2>1. new \in Tried(P, size, start, s, c, t)
    BY <1>1, <1>3, AllTries
  <2> HIDE DEF new, c
  <2>2. new \in LoopStates(P, size) /\ new.adj \in Nat /\ new.adj >= s.adj
    BY <2>1 DEF Tried, LoopStates
  <2>3. CASE new.ack # "PL_SUCCESS"
    <3>1. new.list = s.list
      BY <2>1, <2>3 DEF Tried
    <3> QED
      BY <2>2, <2>3, <3>1 DEF PutSoFar, new, c
  <2>4. CASE new.ack = "PL_SUCCESS"
    <3>1. PICK p : PutOn(P, start, s, c, t, new, p)
      BY <2>1, <2>4 DEF Tried
    <3>2. /\ p \in NotPast(P, start)
          /\ Members(new.list) = Members(s.list) \cup {p}
          /\ Len(new.list) = Len(s.list) + 1
      BY <3>1 DEF PutOn, NotPast
    <3>3. /\ Members(new.list) \subseteq Members(list) \cup NotPast(P, start)
          /\ Members(list) \subseteq Members(new.list)
      BY <1>3, <3>2 DEF PutSoFar
    <3>4. Len(new.list) = Len(list) + i
      <4>1. Len(s.list) = Len(list) + (i - 1) /\ Len(list) \in Nat
        BY <1>3 DEF PutSoFar
      <4> QED
        BY <3>2, <4>1
    <3>5. ASSUME new.adj = 0
          PROVE  \A j \in 1..i : Timed(cmds[j], start + cmds[j].time) \in Members(new.list)
      <4>1. s.adj = 0
        BY <1>1, <2>2, <3>5
      <4>2. p = Timed(c, (start + c.time) % CycleSpan)
        <5>1. start + s.adj + c.time = start + c.time
          BY <1>1, <4>1, TimeInNat
        <5> QED
          BY <3>1, <3>5, <4>1, <5>1 DEF PutOn
      <4>3. p.time = (start + c.time) % CycleSpan
        <5>1. start + c.time \in Int
          <6> HIDE DEF t
          <6>1. start \in Nat /\ c.time \in Nat
            BY <1>1, TimeInNat
          <6> QED
            BY <6>1
        <5> QED
          BY <1>1, <4>2, <5>1, ModuloInTime, TimedIsPacket
      <4>4. p = Timed(c, start + c.time)
        BY <1>1, <3>2, <4>2, <4>3, NotTurnedOver DEF NotPast
      <4>5. \A j \in 1..(i - 1) : Timed(cmds[j], start + cmds[j].time) \in Members(s.list)
        BY <1>3, <4>1 DEF PutSoFar
      <4> QED
        BY <3>2, <4>4, <4>5 DEF c
    <3> QED
      BY <2>2, <3>3, <3>4, <3>5 DEF PutSoFar, new, c
  <2> QED
    BY <2>3, <2>4
<1> QED
  BY <1>2, <1>3

LEMMA DeployCmdsMembers ==
    ASSUME NEW P, IsPacketSet(P), NEW size \in Nat, NEW start \in Time,
           NEW begin \in LoopStates(P, size), NEW cmds \in Seq(P)
    PROVE  PutSoFar(P, size, start, begin.list, cmds, Len(cmds),
                    DeployCmds(size, start, begin, cmds))
<1> DEFINE n == Len(cmds)
           list == begin.list
<1>1. n \in Nat /\ list \in Seq(P) /\ Len(list) \in Nat
  BY DEF LoopStates, Timelines
<1>2. PICK pass :
        /\ DeployCmds(size, start, begin, cmds) = pass[n]
        /\ pass[0] = begin
        /\ \A i \in 1..n : pass[i] = DeployCmd(size, start, pass[i - 1], cmds[i])
  BY DeployCmdsArePasses
<1> DEFINE D == {i \in Nat : i <= n => PutSoFar(P, size, start, list, cmds, i, pass[i])}
<1>3. 0 \in D
  <2>1. PutSoFar(P, size, start, list, cmds, 0, begin)
    BY <1>1 DEF PutSoFar
  <2> QED
    BY <1>2, <2>1
<1>4. ASSUME NEW i \in Nat, i \in D
      PROVE  i + 1 \in D
  <2> SUFFICES ASSUME i + 1 <= n PROVE PutSoFar(P, size, start, list, cmds, i + 1, pass[i + 1])
    OBVIOUS
  <2>1. i + 1 \in 1..n /\ (i + 1) - 1 = i
    BY <1>1
  <2>2. PutSoFar(P, size, start, list, cmds, i, pass[i])
    BY <1>1, <1>4, <2>1
  <2>3. pass[i + 1] = DeployCmd(size, start, pass[i], cmds[i + 1])
    BY <1>2, <2>1
  <2> HIDE DEF list
  <2> QED
    BY <1>1, <2>1, <2>2, <2>3, DeployCmdMembers
<1> HIDE DEF D
<1>5. n \in D
  BY <1>1, <1>3, <1>4, SetInduction
<1> QED
  BY <1>1, <1>2, <1>5 DEF D

(* PL_deploy_block_cmd adds packets that are not past; when it answers that it did  *)
(* what was asked, or that it moved some, nothing that waited is gone and every      *)
(* command has been added; and when it did not move any, at its offset from start.   *)
LEMMA DeployMembers ==
    ASSUME NEW P, IsPacketSet(P), NEW size \in Nat, NEW list \in Timelines(P, size),
           NEW cmds \in Seq(P), NEW start \in Time
    PROVE  LET r == Deploy(list, size, cmds, start) IN
           /\ Members(r.list) \subseteq Members(list) \cup NotPast(P, start)
           /\ r.ack \in {"PL_SUCCESS", "PL_BC_TIME_ADJUSTED"} =>
                /\ Members(list) \subseteq Members(r.list)
                /\ Len(r.list) = Len(list) + Len(cmds)
           /\ r.ack = "PL_SUCCESS" =>
                \A j \in 1..Len(cmds) : Timed(cmds[j], start + cmds[j].time) \in Members(r.list)
<1> DEFINE cleared == size - Len(list) < Len(cmds)
           begin == [list |-> IF cleared THEN <<>> ELSE list,
                     adj |-> 0, ack |-> "PL_SUCCESS", time |-> start]
           end == DeployCmds(size, start, begin, cmds)
           r == Deploy(list, size, cmds, start)
<1>1. begin.list \in Timelines(P, size)
  BY EmptyIsTimeline
<1>2. begin \in LoopStates(P, size)
  BY <1>1 DEF LoopStates, InsertAcks
<1>3. /\ r.list = end.list
      /\ r.ack = IF end.ack # "PL_SUCCESS" THEN end.ack
                 ELSE IF cleared THEN "PL_BC_LIST_CLEARED"
                 ELSE IF end.adj # 0 THEN "PL_BC_TIME_ADJUSTED"
                 ELSE "PL_SUCCESS"
  BY DEF Deploy
<1>4. begin.list = IF cleared THEN <<>> ELSE list
  OBVIOUS
<1> HIDE DEF r
<1> HIDE DEF begin, cleared
<1>5. PutSoFar(P, size, start, begin.list, cmds, Len(cmds), end)
  BY <1>2, DeployCmdsMembers
<1> HIDE DEF end
<1>6. end.ack \in InsertAcks
  BY <1>5 DEF PutSoFar, LoopStates
<1>7. Members(begin.list) \subseteq Members(list)
  BY <1>4 DEF Members
<1>8. /\ r.ack \in {"PL_SUCCESS", "PL_BC_TIME_ADJUSTED"} =>
           end.ack = "PL_SUCCESS" /\ begin.list = list
      /\ r.ack = "PL_SUCCESS" => end.adj = 0
  BY <1>3, <1>4, <1>6 DEF InsertAcks
<1> QED
  BY <1>3, <1>5, <1>7, <1>8 DEF PutSoFar, r
===============================================================================
