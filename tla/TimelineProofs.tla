---------------------------- MODULE TimelineProofs ----------------------------
(***************************************************************************)
(* How the lists of commands are kept, from the memory up.  First the nodes *)
(* of every packet list: whatever the size of the stock they implement the  *)
(* sequence of packets and none of them is lost.  Then the timeline, which   *)
(* is such a sequence: it stays in the order of time for every size of its  *)
(* list, every block command table, and every command the ground sends.     *)
(***************************************************************************)
EXTENDS PacketListNodes, TL_CmdDispatcher, PacketListProofs, FiniteSetTheorems

(* The chain read with the links nx, and what it is: h is the first node of s  *)
(* and every node of s is linked to the next one.                            *)
ChainOf(nx, n) ==
    LET follow[k \in 0..NumNodes] ==
          [m \in Nodes \cup {NULL} |->
             IF k = 0 \/ m = NULL THEN <<>>
             ELSE <<m>> \o follow[k - 1][nx[m]]]
    IN  follow[NumNodes][n]

Links(nx, h, s) ==
    /\ h = IF s = <<>> THEN NULL ELSE s[1]
    /\ \A i \in 1..Len(s) : nx[s[i]] = IF i = Len(s) THEN NULL ELSE s[i + 1]

(* Every node is on one of the two chains, once. *)
Separate(a, b) ==
    /\ \A i, j \in 1..Len(a) : a[i] = a[j] => i = j
    /\ \A i, j \in 1..Len(b) : b[i] = b[j] => i = j
    /\ \A i \in 1..Len(a), j \in 1..Len(b) : a[i] # b[j]
    /\ \A n \in Nodes : \/ \E i \in 1..Len(a) : a[i] = n
                        \/ \E i \in 1..Len(b) : b[i] = n
    /\ Len(a) + Len(b) = NumNodes

(* The links nx and the three pointers hold the active chain a and the inactive b. *)
TwoChains(nx, head, tail, inactive, a, b) ==
    /\ nx \in [Nodes -> Nodes \cup {NULL}]
    /\ a \in Seq(Nodes)
    /\ b \in Seq(Nodes)
    /\ Links(nx, head, a)
    /\ Links(nx, inactive, b)
    /\ Separate(a, b)
    /\ tail = IF a = <<>> THEN NULL ELSE a[Len(a)]

(* The packets on a chain. *)
PacketsOn(pkt, a) == [i \in 1..Len(a) |-> pkt[a[i]]]

(* The inductive invariant of the nodes. *)
ListInv ==
    /\ timed \in BOOLEAN
    /\ fault \in BOOLEAN
    /\ packet \in [Nodes -> Packets \cup {NoPacket}]
    /\ TwoChains(next, active_list_head, active_list_tail, inactive_list_head,
                 Active, Inactive)
    /\ active_nodes = Len(Active)
    /\ PacketsOn(packet, Active) \in Seq(Packets)
    /\ timed => StrictlyOrdered(PacketsOn(packet, Active))

-------------------------------------------------------------------------------
(* Reading a chain. *)

LEMMA ReadChain ==
    ASSUME NEW nx \in [Nodes -> Nodes \cup {NULL}], NEW n \in Nodes \cup {NULL}
    PROVE  \E follow :
             /\ ChainOf(nx, n) = follow[NumNodes][n]
             /\ \A k \in 0..NumNodes, m \in Nodes \cup {NULL} :
                  follow[k][m] = IF k = 0 \/ m = NULL THEN <<>>
                                 ELSE <<m>> \o follow[k - 1][nx[m]]
<1> DEFINE Ends  == Nodes \cup {NULL}
           State == [Ends -> Seq(Nodes)]
           None  == [m \in Ends |-> <<>>]
           One(s) == [m \in Ends |-> IF m = NULL THEN <<>> ELSE <<m>> \o s[nx[m]]]
           G == [ks \in (1..NumNodes) \X State |-> One(ks[2])]
<1>1. NumNodes \in Nat
  BY NodesAssumption
<1>2. None \in State
  OBVIOUS
<1>3. ASSUME NEW s \in State
      PROVE  One(s) \in State
  <2>1. ASSUME NEW m \in Ends, m # NULL
        PROVE  <<m>> \o s[nx[m]] \in Seq(Nodes)
    <3>1. m \in Nodes /\ nx[m] \in Ends
      BY <2>1
    <3>2. <<m>> \in Seq(Nodes) /\ s[nx[m]] \in Seq(Nodes)
      BY <3>1
    <3> QED
      BY <3>2
  <2> QED
    BY <2>1
<1>4. \A k \in 1..NumNodes, s \in State : G[<<k, s>>] = One(s)
  BY Zenon
<1>5. StaysIn(State, NumNodes, G)
  BY <1>3, <1>4, Zenon DEF StaysIn
<1> HIDE DEF G, State, None
<1>6. PICK f \in [0..NumNodes -> State] : Iterates(f, None, NumNodes, G)
  BY <1>1, <1>2, <1>5, IterationExists
<1>7. \A k \in 0..NumNodes : f[k] = IF k = 0 THEN None ELSE One(f[k - 1])
  <2> SUFFICES ASSUME NEW k \in 0..NumNodes, k # 0
               PROVE  f[k] = One(f[k - 1])
    BY <1>6, Zenon DEF Iterates
  <2>1. k \in 1..NumNodes /\ k - 1 \in 0..NumNodes
    BY <1>1
  <2> HIDE DEF One
  <2>2. f[k - 1] \in State
    BY <1>6, <2>1
  <2>3. f[k] = G[<<k, f[k - 1]>>]
    BY <1>6, Zenon DEF Iterates
  <2> QED
    BY <1>4, <2>1, <2>2, <2>3, Zenon
<1> DEFINE Follows(g) ==
             g = [k \in 0..NumNodes |->
                   [m \in Ends |-> IF k = 0 \/ m = NULL THEN <<>>
                                   ELSE <<m>> \o g[k - 1][nx[m]]]]
           follow == CHOOSE g : Follows(g)
<1>8. Follows(f)
  <2>1. ASSUME NEW k \in 0..NumNodes
        PROVE  f[k] = [m \in Ends |-> IF k = 0 \/ m = NULL THEN <<>>
                                      ELSE <<m>> \o f[k - 1][nx[m]]]
    <3>1. CASE k = 0
      BY <1>7, <3>1, Zenon DEF None
    <3>2. CASE k # 0
      <4>1. f[k] = One(f[k - 1])
        BY <1>7, <3>2, Zenon
      <4> QED
        BY <3>2, <4>1, Zenon
    <3> QED
      BY <3>1, <3>2
  <2>2. f = [k \in 0..NumNodes |-> f[k]]
    BY <1>6, Zenon
  <2> QED
    BY <2>1, <2>2, Zenon
<1>9. Follows(follow)
  BY <1>8, Zenon
<1>10. ChainOf(nx, n) = follow[NumNodes][n]
  BY Zenon DEF ChainOf
<1> HIDE DEF follow
<1>11. ASSUME NEW k \in 0..NumNodes, NEW m \in Ends
       PROVE  follow[k][m] = IF k = 0 \/ m = NULL THEN <<>>
                             ELSE <<m>> \o follow[k - 1][nx[m]]
  <2>1. follow[k] = [o \in Ends |-> IF k = 0 \/ o = NULL THEN <<>>
                                    ELSE <<o>> \o follow[k - 1][nx[o]]]
    BY <1>9, Zenon
  <2> QED
    BY <2>1, Zenon
<1> QED
  BY <1>10, <1>11, Zenon

(* The nodes of s from the i-th on. *)
From(s, i) == [j \in 1..(Len(s) - i + 1) |-> s[i + j - 1]]

LEMMA FromIsSeq ==
    ASSUME NEW s \in Seq(Nodes), NEW i \in 1..(Len(s) + 1)
    PROVE  From(s, i) \in Seq(Nodes) /\ Len(From(s, i)) = Len(s) - i + 1
<1>1. Len(s) \in Nat /\ Len(s) - i + 1 \in Nat
  OBVIOUS
<1>2. \A j \in 1..(Len(s) - i + 1) : i + j - 1 \in 1..Len(s)
  BY <1>1
<1> QED
  BY <1>1, <1>2 DEF From

LEMMA FromSteps ==
    ASSUME NEW s \in Seq(Nodes), NEW i \in 1..Len(s)
    PROVE  <<s[i]>> \o From(s, i + 1) = From(s, i)
<1> DEFINE l == <<s[i]>> \o From(s, i + 1)
<1>1. Len(s) \in Nat /\ i + 1 \in 1..(Len(s) + 1) /\ s[i] \in Nodes
  OBVIOUS
<1>2. /\ From(s, i) \in Seq(Nodes) /\ Len(From(s, i)) = Len(s) - i + 1
      /\ From(s, i + 1) \in Seq(Nodes) /\ Len(From(s, i + 1)) = Len(s) - i
  BY <1>1, FromIsSeq
<1>3. l \in Seq(Nodes) /\ Len(l) = Len(s) - i + 1
  BY <1>1, <1>2
<1>4. ASSUME NEW j \in 1..(Len(s) - i + 1)
      PROVE  l[j] = From(s, i)[j]
  <2>1. From(s, i)[j] = s[i + j - 1]
    BY DEF From
  <2>2. CASE j = 1
    <3>1. l[1] = s[i]
      BY <1>1, <1>2
    <3> QED
      BY <2>1, <2>2, <3>1
  <2>3. CASE j # 1
    <3>1. j - 1 \in 1..(Len(s) - i) /\ (i + 1) + (j - 1) - 1 = i + j - 1
      BY <1>1, <2>3
    <3>2. l[j] = From(s, i + 1)[j - 1]
      BY <1>1, <1>2, <3>1
    <3>3. From(s, i + 1)[j - 1] = s[i + j - 1]
      BY <3>1 DEF From
    <3> QED
      BY <2>1, <3>2, <3>3
  <2> QED
    BY <2>2, <2>3
<1> HIDE DEF l
<1>5. l = From(s, i)
  BY <1>2, <1>3, <1>4, SeqEqual
<1> QED
  BY <1>5 DEF l

LEMMA FromFirst == ASSUME NEW s \in Seq(Nodes) PROVE From(s, 1) = s
<1>1. 1 \in 1..(Len(s) + 1) /\ Len(s) \in Nat
  OBVIOUS
<1>2. From(s, 1) \in Seq(Nodes) /\ Len(From(s, 1)) = Len(s)
  BY <1>1, FromIsSeq
<1>3. \A j \in 1..Len(s) : From(s, 1)[j] = s[j]
  BY <1>1 DEF From
<1> QED
  BY <1>2, <1>3, SeqEqual

(* Following the links of a chain that is not longer than the stock reads it. *)
LEMMA ChainIs ==
    ASSUME NEW nx \in [Nodes -> Nodes \cup {NULL}], NEW h, NEW s \in Seq(Nodes),
           Links(nx, h, s), Len(s) <= NumNodes
    PROVE  ChainOf(nx, h) = s
<1> DEFINE Ends == Nodes \cup {NULL}
<1>1. NumNodes \in Nat \ {0} /\ Len(s) \in Nat
  BY NodesAssumption
<1>2. h \in Ends
  BY <1>1 DEF Links
<1>3. PICK follow :
        /\ ChainOf(nx, h) = follow[NumNodes][h]
        /\ \A k \in 0..NumNodes, m \in Ends :
             follow[k][m] = IF k = 0 \/ m = NULL THEN <<>>
                            ELSE <<m>> \o follow[k - 1][nx[m]]
  BY <1>2, ReadChain
<1>4. \A k \in 0..NumNodes : follow[k][NULL] = <<>>
  BY <1>3
<1> DEFINE Reads(k) == \A i \in 1..Len(s) : Len(s) - i < k => follow[k][s[i]] = From(s, i)
           Good == {k \in Nat : k <= NumNodes => Reads(k)}
<1>5. 0 \in Good
  BY <1>1
<1>6. ASSUME NEW k \in Nat, k \in Good
      PROVE  k + 1 \in Good
  <2> SUFFICES ASSUME k + 1 <= NumNodes, NEW i \in 1..Len(s), Len(s) - i < k + 1
               PROVE  follow[k + 1][s[i]] = From(s, i)
    BY <1>1
  <2>1. k \in 0..NumNodes /\ k + 1 \in 0..NumNodes /\ (k + 1) - 1 = k /\ k + 1 # 0
    BY <1>1
  <2>2. Reads(k)
    BY <1>1, <1>6, <2>1
  <2>3. s[i] \in Nodes /\ s[i] \in Ends /\ s[i] # NULL
    <3>1. s[i] \in Nodes
      OBVIOUS
    <3> QED
      BY <1>1, <3>1 DEF Nodes, NULL
  <2>4. follow[k + 1][s[i]] = <<s[i]>> \o follow[k][nx[s[i]]]
    BY <1>3, <2>1, <2>3
  <2>5. follow[k][nx[s[i]]] = From(s, i + 1)
    <3>1. CASE i = Len(s)
      <4>1. nx[s[i]] = NULL
        BY <3>1 DEF Links
      <4>2. follow[k][nx[s[i]]] = <<>>
        BY <1>4, <2>1, <4>1
      <4>3. From(s, i + 1) = <<>>
        <5>1. i + 1 \in 1..(Len(s) + 1)
          BY <1>1
        <5>2. From(s, i + 1) \in Seq(Nodes) /\ Len(From(s, i + 1)) = 0
          BY <1>1, <3>1, <5>1, FromIsSeq
        <5> QED
          BY <5>2
      <4> QED
        BY <4>2, <4>3
    <3>2. CASE i # Len(s)
      <4>1. i + 1 \in 1..Len(s) /\ Len(s) - (i + 1) < k
        BY <1>1, <3>2
      <4>2. nx[s[i]] = s[i + 1]
        BY <3>2 DEF Links
      <4> QED
        BY <2>2, <4>1, <4>2
    <3> QED
      BY <3>1, <3>2
  <2> QED
    BY <2>4, <2>5, FromSteps
<1>7. NumNodes \in Good
  <2> HIDE DEF Good
  <2>1. Nat \subseteq Good
    BY <1>5, <1>6, SetInduction
  <2> QED
    BY <1>1, <2>1
<1>8. CASE s = <<>>
  <2>1. h = NULL
    BY <1>8 DEF Links
  <2> QED
    BY <1>1, <1>3, <1>4, <1>8, <2>1
<1>9. CASE s # <<>>
  <2>1. h = s[1] /\ 1 \in 1..Len(s) /\ Len(s) - 1 < NumNodes
    BY <1>1, <1>9 DEF Links
  <2>2. follow[NumNodes][s[1]] = From(s, 1)
    BY <1>1, <1>7, <2>1
  <2> QED
    BY <1>3, <2>1, <2>2, FromFirst
<1> QED
  BY <1>8, <1>9

-------------------------------------------------------------------------------
(* The three ways a chain changes: a free node is put into the active one, a   *)
(* node of it is given back, and the stock is in order again.                 *)

LEMMA ChainFacts ==
    ASSUME NEW nx, NEW head, NEW tail, NEW inactive, NEW a, NEW b,
           TwoChains(nx, head, tail, inactive, a, b)
    PROVE  /\ Len(a) \in Nat /\ Len(b) \in Nat /\ Len(a) + Len(b) = NumNodes
           /\ \A i \in 1..Len(a) : a[i] \in Nodes /\ a[i] # NULL
           /\ \A i \in 1..Len(b) : b[i] \in Nodes /\ b[i] # NULL
           /\ (a = <<>>) <=> (Len(a) = 0)
           /\ (b = <<>>) <=> (Len(b) = 0)
           /\ (head = NULL) <=> (a = <<>>)
           /\ (tail = NULL) <=> (a = <<>>)
           /\ (inactive = NULL) <=> (b = <<>>)
<1>1. NumNodes \in Nat
  BY NodesAssumption
<1>2. a \in Seq(Nodes) /\ b \in Seq(Nodes) /\ Len(a) + Len(b) = NumNodes
  BY DEF TwoChains, Separate
<1>3. \A n \in Nodes : n # NULL
  BY <1>1 DEF Nodes, NULL
<1>4. /\ \A i \in 1..Len(a) : a[i] \in Nodes
      /\ \A i \in 1..Len(b) : b[i] \in Nodes
      /\ Len(a) \in Nat /\ Len(b) \in Nat
      /\ (a = <<>>) <=> (Len(a) = 0)
      /\ (b = <<>>) <=> (Len(b) = 0)
  BY <1>2
<1>5. a # <<>> => head = a[1] /\ tail = a[Len(a)] /\ 1 \in 1..Len(a) /\ Len(a) \in 1..Len(a)
  BY <1>4 DEF TwoChains, Links
<1>6. b # <<>> => inactive = b[1] /\ 1 \in 1..Len(b)
  BY <1>4 DEF TwoChains, Links
<1>7. (a = <<>> => head = NULL /\ tail = NULL) /\ (b = <<>> => inactive = NULL)
  BY DEF TwoChains, Links
<1> QED
  BY <1>2, <1>3, <1>4, <1>5, <1>6, <1>7

(* The first free node goes to the place c of the active chain. *)
LEMMA PutOnChain ==
    ASSUME NEW nx, NEW head, NEW tail, NEW inactive, NEW a, NEW b,
           TwoChains(nx, head, tail, inactive, a, b), b # <<>>,
           NEW c \in 1..(Len(a) + 1),
           NEW new \in [Nodes -> Nodes \cup {NULL}],
           new[b[1]] = IF c = Len(a) + 1 THEN NULL ELSE a[c],
           c > 1 => new[a[c - 1]] = b[1],
           \A n \in Nodes : n # b[1] /\ (c > 1 => n # a[c - 1]) => new[n] = nx[n]
    PROVE  TwoChains(new,
                     IF c = 1 THEN b[1] ELSE head,
                     IF c = Len(a) + 1 THEN b[1] ELSE tail,
                     nx[b[1]],
                     InsertAt(a, c, b[1]), Tail(b))
<1> DEFINE a2 == InsertAt(a, c, b[1])
           b2 == Tail(b)
<1>1. /\ Len(a) \in Nat /\ Len(b) \in Nat \ {0} /\ Len(a) + Len(b) = NumNodes
      /\ \A i \in 1..Len(a) : a[i] \in Nodes
      /\ \A i \in 1..Len(b) : b[i] \in Nodes
  BY ChainFacts
<1>2. /\ a \in Seq(Nodes) /\ b \in Seq(Nodes) /\ 1 \in 1..Len(b) /\ b[1] \in Nodes
  BY <1>1 DEF TwoChains
<1>3. /\ a2 \in [1..(Len(a) + 1) -> Nodes]
      /\ \A j \in 1..(Len(a) + 1) :
           a2[j] = IF j < c THEN a[j] ELSE IF j = c THEN b[1] ELSE a[j - 1]
  BY <1>1, <1>2 DEF InsertAt
<1>4. b2 \in Seq(Nodes) /\ Len(b2) = Len(b) - 1 /\ \A j \in 1..Len(b2) : b2[j] = b[j + 1]
  BY <1>2
<1> HIDE DEF a2, b2
<1>5. a2 \in Seq(Nodes) /\ Len(a2) = Len(a) + 1
  BY <1>1, <1>3
<1>6. /\ \A i, j \in 1..Len(a) : a[i] = a[j] => i = j
      /\ \A i, j \in 1..Len(b) : b[i] = b[j] => i = j
      /\ \A i \in 1..Len(a), j \in 1..Len(b) : a[i] # b[j]
      /\ \A n \in Nodes : \/ \E i \in 1..Len(a) : a[i] = n
                          \/ \E i \in 1..Len(b) : b[i] = n
  BY DEF TwoChains, Separate
<1>7. /\ head = IF a = <<>> THEN NULL ELSE a[1]
      /\ tail = IF a = <<>> THEN NULL ELSE a[Len(a)]
      /\ \A i \in 1..Len(a) : nx[a[i]] = IF i = Len(a) THEN NULL ELSE a[i + 1]
      /\ \A i \in 1..Len(b) : nx[b[i]] = IF i = Len(b) THEN NULL ELSE b[i + 1]
  BY DEF TwoChains, Links
<1>8. \A i \in 1..Len(a) : i # c - 1 => new[a[i]] = nx[a[i]]
  <2> SUFFICES ASSUME NEW i \in 1..Len(a), i # c - 1
               PROVE  new[a[i]] = nx[a[i]]
    OBVIOUS
  <2>1. a[i] \in Nodes /\ a[i] # b[1]
    BY <1>1, <1>2, <1>6
  <2>2. c > 1 => c - 1 \in 1..Len(a)
    BY <1>1
  <2>3. c > 1 => a[i] # a[c - 1]
    BY <1>6, <2>2
  <2> QED
    BY <2>1, <2>3
<1>9. ASSUME NEW i \in 1..Len(b), i # 1
      PROVE  new[b[i]] = nx[b[i]]
  <2>1. b[i] \in Nodes /\ b[i] # b[1]
    BY <1>1, <1>2, <1>6, <1>9
  <2>2. c > 1 => b[i] # a[c - 1]
    <3>1. c > 1 => c - 1 \in 1..Len(a)
      BY <1>1
    <3> QED
      BY <1>6, <3>1
  <2> QED
    BY <2>1, <2>2
<1>10. Links(new, IF c = 1 THEN b[1] ELSE head, a2)
  <2>1. a2 # <<>>
    BY <1>1, <1>5
  <2>2. a2[1] = IF c = 1 THEN b[1] ELSE head
    BY <1>1, <1>3, <1>7
  <2>3. ASSUME NEW j \in 1..Len(a2)
        PROVE  new[a2[j]] = IF j = Len(a2) THEN NULL ELSE a2[j + 1]
    <3>1. CASE j < c - 1
      <4>1. j \in 1..Len(a) /\ j # Len(a) /\ j # c - 1 /\ j < c /\ j + 1 < c /\ j # Len(a2)
        BY <1>1, <1>5, <3>1
      <4>2. a2[j] = a[j] /\ a2[j + 1] = a[j + 1]
        BY <1>1, <1>3, <4>1
      <4> QED
        BY <1>7, <1>8, <4>1, <4>2
    <3>2. CASE j = c - 1
      <4>1. c > 1 /\ j < c /\ j # Len(a2) /\ j + 1 = c /\ j + 1 \in 1..(Len(a) + 1)
        BY <1>1, <1>5, <3>2
      <4>2. a2[j] = a[c - 1] /\ a2[j + 1] = b[1]
        BY <1>3, <1>5, <3>2, <4>1
      <4> QED
        BY <4>1, <4>2
    <3>3. CASE j = c
      <4>1. a2[j] = b[1]
        BY <1>3, <1>5, <3>3
      <4>2. j # Len(a2) => a2[j + 1] = a[c]
        BY <1>1, <1>3, <1>5, <3>3
      <4> QED
        BY <1>5, <3>3, <4>1, <4>2
    <3>4. CASE j > c
      <4>1. j - 1 \in 1..Len(a) /\ j - 1 # c - 1 /\ ~(j < c) /\ j # c
        BY <1>1, <1>5, <3>4
      <4>2. a2[j] = a[j - 1]
        BY <1>3, <1>5, <4>1
      <4>3. ASSUME j # Len(a2)
            PROVE  a2[j + 1] = a[j]
        <5>1. j + 1 \in 1..(Len(a) + 1) /\ ~(j + 1 < c) /\ j + 1 # c /\ (j + 1) - 1 = j
          BY <1>1, <1>5, <3>4, <4>3
        <5> QED
          BY <1>3, <5>1
      <4>4. new[a[j - 1]] = IF j - 1 = Len(a) THEN NULL ELSE a[j]
        <5>1. (j - 1) + 1 = j
          OBVIOUS
        <5>2. new[a[j - 1]] = nx[a[j - 1]]
          BY <1>8, <4>1
        <5>3. nx[a[j - 1]] = IF j - 1 = Len(a) THEN NULL ELSE a[(j - 1) + 1]
          BY <1>7, <4>1
        <5> QED
          BY <5>1, <5>2, <5>3
      <4> QED
        BY <1>1, <1>5, <4>2, <4>3, <4>4
    <3> QED
      BY <1>1, <1>5, <3>1, <3>2, <3>3, <3>4
  <2> QED
    BY <2>1, <2>2, <2>3 DEF Links
<1>11. Links(new, nx[b[1]], b2)
  <2>1. nx[b[1]] = IF b2 = <<>> THEN NULL ELSE b2[1]
    <3>1. CASE Len(b) = 1
      BY <1>2, <1>4, <1>7, <3>1
    <3>2. CASE Len(b) # 1
      <4>1. 1 \in 1..Len(b2) /\ b2 # <<>>
        BY <1>1, <1>4, <3>2
      <4> QED
        BY <1>2, <1>4, <1>7, <3>2, <4>1
    <3> QED
      BY <3>1, <3>2
  <2>2. ASSUME NEW j \in 1..Len(b2)
        PROVE  new[b2[j]] = IF j = Len(b2) THEN NULL ELSE b2[j + 1]
    <3>1. j + 1 \in 1..Len(b) /\ j + 1 # 1 /\ (j = Len(b2) <=> j + 1 = Len(b))
      BY <1>1, <1>4
    <3>2. b2[j] = b[j + 1]
      BY <1>4
    <3>3. j # Len(b2) => b2[j + 1] = b[(j + 1) + 1]
      BY <1>1, <1>4
    <3> QED
      BY <1>7, <1>9, <3>1, <3>2, <3>3
  <2> QED
    BY <2>1, <2>2 DEF Links
<1>12. Separate(a2, b2)
  <2>1. ASSUME NEW i \in 1..Len(a2), NEW j \in 1..Len(a2), a2[i] = a2[j]
        PROVE  i = j
    <3>1. ASSUME NEW k \in 1..Len(a2), k # c
          PROVE  \E m \in 1..Len(a) : a2[k] = a[m] /\ m = IF k < c THEN k ELSE k - 1
      <4>1. CASE k < c
        <5>1. k \in 1..Len(a) /\ a2[k] = a[k]
          BY <1>1, <1>3, <1>5, <4>1
        <5> QED
          BY <4>1, <5>1
      <4>2. CASE ~(k < c)
        <5>1. k - 1 \in 1..Len(a)
          BY <1>1, <1>5, <3>1, <4>2
        <5>2. a2[k] = a[k - 1]
          BY <1>3, <1>5, <3>1, <4>2
        <5> QED
          BY <4>2, <5>1, <5>2
      <4> QED
        BY <4>1, <4>2
    <3>2. a2[c] = b[1]
      BY <1>3
    <3>3. CASE i = c \/ j = c
      <4>1. ASSUME NEW k \in 1..Len(a2), k # c
            PROVE  a2[k] # b[1]
        <5>1. PICK m \in 1..Len(a) : a2[k] = a[m]
          BY <3>1, <4>1
        <5> QED
          BY <1>2, <1>6, <5>1
      <4> QED
        BY <2>1, <3>2, <3>3, <4>1
    <3>4. CASE i # c /\ j # c
      <4>1. PICK m \in 1..Len(a) : a2[i] = a[m] /\ m = IF i < c THEN i ELSE i - 1
        BY <3>1, <3>4
      <4>2. PICK o \in 1..Len(a) : a2[j] = a[o] /\ o = IF j < c THEN j ELSE j - 1
        BY <3>1, <3>4
      <4>3. a[m] = a[o]
        BY <2>1, <4>1, <4>2
      <4>4. m = o
        BY <1>6, <4>3
      <4> QED
        BY <1>1, <1>5, <3>4, <4>1, <4>2, <4>4
    <3> QED
      BY <3>3, <3>4
  <2>2. \A i, j \in 1..Len(b2) : b2[i] = b2[j] => i = j
    BY <1>1, <1>4, <1>6
  <2>3. ASSUME NEW i \in 1..Len(a2), NEW j \in 1..Len(b2)
        PROVE  a2[i] # b2[j]
    <3>1. j + 1 \in 1..Len(b) /\ j + 1 # 1 /\ b2[j] = b[j + 1]
      BY <1>1, <1>4
    <3>2. a2[i] = b[1] \/ \E k \in 1..Len(a) : a2[i] = a[k]
      BY <1>1, <1>3, <1>5
    <3> QED
      BY <1>2, <1>6, <3>1, <3>2
  <2>4. ASSUME NEW n \in Nodes
        PROVE  (\E i \in 1..Len(a2) : a2[i] = n) \/ (\E i \in 1..Len(b2) : b2[i] = n)
    <3>1. CASE \E i \in 1..Len(a) : a[i] = n
      <4>1. PICK i \in 1..Len(a) : a[i] = n
        BY <3>1
      <4>2. CASE i < c
        BY <1>1, <1>3, <1>5, <4>1, <4>2
      <4>3. CASE i >= c
        <5>1. i + 1 \in 1..Len(a2) /\ a2[i + 1] = a[i]
          BY <1>1, <1>3, <1>5, <4>3
        <5> QED
          BY <4>1, <5>1
      <4> QED
        BY <1>1, <4>2, <4>3
    <3>2. CASE \E i \in 1..Len(b) : b[i] = n
      <4>1. PICK i \in 1..Len(b) : b[i] = n
        BY <3>2
      <4>2. CASE i = 1
        BY <1>3, <1>5, <4>1, <4>2
      <4>3. CASE i # 1
        <5>1. i - 1 \in 1..Len(b2) /\ b2[i - 1] = b[i]
          BY <1>1, <1>4, <4>3
        <5> QED
          BY <4>1, <5>1
      <4> QED
        BY <4>2, <4>3
    <3> QED
      BY <1>6, <3>1, <3>2
  <2>5. Len(a2) + Len(b2) = NumNodes
    BY <1>1, <1>4, <1>5
  <2> QED
    BY <2>1, <2>2, <2>3, <2>4, <2>5 DEF Separate
<1>13. (IF c = Len(a) + 1 THEN b[1] ELSE tail) = IF a2 = <<>> THEN NULL ELSE a2[Len(a2)]
  <2>1. a2 # <<>> /\ Len(a2) \in 1..(Len(a) + 1)
    BY <1>1, <1>5
  <2>2. CASE c = Len(a) + 1
    BY <1>3, <1>5, <2>1, <2>2
  <2>3. CASE c # Len(a) + 1
    <3>1. a # <<>> /\ ~(Len(a2) < c) /\ Len(a2) # c /\ Len(a2) - 1 = Len(a)
      BY <1>1, <1>5, <2>3
    <3> QED
      BY <1>3, <1>7, <2>1, <2>3, <3>1
  <2> QED
    BY <2>2, <2>3
<1> QED
  BY <1>4, <1>5, <1>10, <1>11, <1>12, <1>13 DEF TwoChains, a2, b2

(* The i-th node of the active chain goes to the head of the inactive one. *)
LEMMA TakeFromChain ==
    ASSUME NEW nx, NEW head, NEW tail, NEW inactive, NEW a, NEW b,
           TwoChains(nx, head, tail, inactive, a, b),
           NEW i \in 1..Len(a),
           NEW new \in [Nodes -> Nodes \cup {NULL}],
           new[a[i]] = inactive,
           i > 1 => new[a[i - 1]] = nx[a[i]],
           \A n \in Nodes : n # a[i] /\ (i > 1 => n # a[i - 1]) => new[n] = nx[n]
    PROVE  TwoChains(new,
                     IF i = 1 THEN nx[a[1]] ELSE head,
                     IF i # Len(a) THEN tail ELSE IF i = 1 THEN NULL ELSE a[i - 1],
                     a[i],
                     RemoveAt(a, i), <<a[i]>> \o b)
<1> DEFINE a2 == RemoveAt(a, i)
           b2 == <<a[i]>> \o b
<1>1. /\ Len(a) \in Nat /\ Len(b) \in Nat /\ Len(a) + Len(b) = NumNodes
      /\ \A j \in 1..Len(a) : a[j] \in Nodes
      /\ \A j \in 1..Len(b) : b[j] \in Nodes
  BY ChainFacts
<1>2. /\ a \in Seq(Nodes) /\ b \in Seq(Nodes) /\ a[i] \in Nodes
      /\ a # <<>> /\ 1 \in 1..Len(a) /\ Len(a) \in 1..Len(a)
  BY <1>1 DEF TwoChains
<1>3. /\ a2 \in [1..(Len(a) - 1) -> Nodes]
      /\ \A j \in 1..(Len(a) - 1) : a2[j] = IF j < i THEN a[j] ELSE a[j + 1]
  BY <1>1, <1>2 DEF RemoveAt
<1>4. /\ b2 \in Seq(Nodes) /\ Len(b2) = Len(b) + 1 /\ b2[1] = a[i]
      /\ \A j \in 1..Len(b) : b2[j + 1] = b[j]
  BY <1>1, <1>2
<1> HIDE DEF a2, b2
<1>5. a2 \in Seq(Nodes) /\ Len(a2) = Len(a) - 1
  <2>1. Len(a) - 1 \in Nat
    BY <1>1, <1>2
  <2> QED
    BY <1>3, <2>1
<1>6. /\ \A j, k \in 1..Len(a) : a[j] = a[k] => j = k
      /\ \A j, k \in 1..Len(b) : b[j] = b[k] => j = k
      /\ \A j \in 1..Len(a), k \in 1..Len(b) : a[j] # b[k]
      /\ \A n \in Nodes : \/ \E j \in 1..Len(a) : a[j] = n
                          \/ \E j \in 1..Len(b) : b[j] = n
  BY DEF TwoChains, Separate
<1>7. /\ head = a[1]
      /\ tail = a[Len(a)]
      /\ inactive = IF b = <<>> THEN NULL ELSE b[1]
      /\ \A j \in 1..Len(a) : nx[a[j]] = IF j = Len(a) THEN NULL ELSE a[j + 1]
      /\ \A j \in 1..Len(b) : nx[b[j]] = IF j = Len(b) THEN NULL ELSE b[j + 1]
  BY <1>2 DEF TwoChains, Links
<1>8. ASSUME NEW j \in 1..Len(a), j # i, j # i - 1
      PROVE  new[a[j]] = nx[a[j]]
  <2>1. a[j] \in Nodes /\ a[j] # a[i]
    BY <1>1, <1>6, <1>8
  <2>2. i > 1 => a[j] # a[i - 1]
    <3>1. i > 1 => i - 1 \in 1..Len(a)
      BY <1>1
    <3> QED
      BY <1>6, <1>8, <3>1
  <2> QED
    BY <2>1, <2>2
<1>9. ASSUME NEW j \in 1..Len(b)
      PROVE  new[b[j]] = nx[b[j]]
  <2>1. b[j] \in Nodes /\ b[j] # a[i]
    BY <1>1, <1>6
  <2>2. i > 1 => b[j] # a[i - 1]
    <3>1. i > 1 => i - 1 \in 1..Len(a)
      BY <1>1
    <3> QED
      BY <1>6, <3>1
  <2> QED
    BY <2>1, <2>2
<1>10. Links(new, IF i = 1 THEN nx[a[1]] ELSE head, a2)
  <2>1. (IF i = 1 THEN nx[a[1]] ELSE head) = IF a2 = <<>> THEN NULL ELSE a2[1]
    <3>1. CASE Len(a) = 1
      <4>1. i = 1 /\ a2 = <<>>
        BY <1>1, <1>5, <3>1
      <4> QED
        BY <1>2, <1>7, <3>1, <4>1
    <3>2. CASE Len(a) # 1
      <4>1. a2 # <<>> /\ 1 \in 1..(Len(a) - 1)
        BY <1>1, <1>2, <1>5, <3>2
      <4>2. a2[1] = IF 1 < i THEN a[1] ELSE a[1 + 1]
        BY <1>3, <4>1
      <4>3. nx[a[1]] = a[1 + 1]
        BY <1>2, <1>7, <3>2
      <4> QED
        BY <1>1, <1>7, <4>1, <4>2, <4>3
    <3> QED
      BY <3>1, <3>2
  <2>2. ASSUME NEW j \in 1..Len(a2)
        PROVE  new[a2[j]] = IF j = Len(a2) THEN NULL ELSE a2[j + 1]
    <3>0. j \in 1..Len(a) /\ j + 1 \in 1..Len(a) /\ j # Len(a)
      BY <1>1, <1>5
    <3>1. CASE j < i - 1
      <4>1. j # i /\ j # i - 1 /\ j < i /\ j + 1 < i /\ j + 1 \in 1..(Len(a) - 1) /\ j # Len(a2)
        BY <1>1, <1>5, <3>1
      <4>2. a2[j] = a[j] /\ a2[j + 1] = a[j + 1]
        BY <1>3, <1>5, <4>1
      <4> QED
        BY <1>7, <1>8, <3>0, <4>1, <4>2
    <3>2. CASE j = i - 1
      <4>1. i > 1 /\ j < i /\ j + 1 = i /\ ~(j + 1 < i)
        BY <3>2
      <4>2. a2[j] = a[i - 1]
        BY <1>3, <1>5, <3>2, <4>1
      <4>3. new[a2[j]] = IF i = Len(a) THEN NULL ELSE a[i + 1]
        BY <1>7, <4>1, <4>2
      <4>4. j # Len(a2) => a2[j + 1] = a[i + 1]
        BY <1>1, <1>3, <1>5, <4>1
      <4> QED
        BY <1>1, <1>5, <4>1, <4>3, <4>4
    <3>3. CASE j >= i
      <4>1. ~(j < i) /\ j + 1 # i /\ j + 1 # i - 1
        BY <3>3
      <4>2. a2[j] = a[j + 1]
        BY <1>3, <1>5, <4>1
      <4>3. new[a[j + 1]] = IF j + 1 = Len(a) THEN NULL ELSE a[(j + 1) + 1]
        BY <1>7, <1>8, <3>0, <4>1
      <4>4. ASSUME j # Len(a2)
            PROVE  a2[j + 1] = a[(j + 1) + 1]
        <5>1. j + 1 \in 1..(Len(a) - 1) /\ ~(j + 1 < i)
          BY <1>1, <1>5, <3>3, <4>4
        <5> QED
          BY <1>3, <5>1
      <4> QED
        BY <1>1, <1>5, <4>2, <4>3, <4>4
    <3> QED
      BY <1>1, <1>5, <3>1, <3>2, <3>3
  <2> QED
    BY <2>1, <2>2 DEF Links
<1>11. Links(new, a[i], b2)
  <2>1. b2 # <<>>
    BY <1>1, <1>4
  <2>2. ASSUME NEW j \in 1..Len(b2)
        PROVE  new[b2[j]] = IF j = Len(b2) THEN NULL ELSE b2[j + 1]
    <3>1. CASE j = 1
      <4>1. CASE Len(b) = 0
        <5>1. inactive = NULL /\ j = Len(b2)
          BY <1>2, <1>4, <1>7, <3>1, <4>1
        <5> QED
          BY <1>4, <3>1, <5>1
      <4>2. CASE Len(b) # 0
        <5>1. inactive = b[1] /\ 1 \in 1..Len(b) /\ j # Len(b2)
          BY <1>1, <1>2, <1>4, <1>7, <3>1, <4>2
        <5> QED
          BY <1>4, <3>1, <5>1
      <4> QED
        BY <4>1, <4>2
    <3>2. CASE j # 1
      <4>1. j - 1 \in 1..Len(b) /\ (j - 1) + 1 = j /\ (j = Len(b2) <=> j - 1 = Len(b))
        BY <1>1, <1>4, <3>2
      <4>2. b2[j] = b[j - 1]
        BY <1>4, <4>1
      <4>3. j # Len(b2) => j \in 1..Len(b) /\ b2[j + 1] = b[j]
        BY <1>1, <1>4
      <4>4. nx[b[j - 1]] = IF j - 1 = Len(b) THEN NULL ELSE b[(j - 1) + 1]
        BY <1>7, <4>1
      <4>5. new[b[j - 1]] = nx[b[j - 1]]
        BY <1>9, <4>1
      <4> QED
        BY <4>1, <4>2, <4>3, <4>4, <4>5
    <3> QED
      BY <3>1, <3>2
  <2> QED
    BY <1>4, <2>1, <2>2 DEF Links
<1>12. Separate(a2, b2)
  <2>0. ASSUME NEW j \in 1..Len(a2)
        PROVE  \E m \in 1..Len(a) : m # i /\ a2[j] = a[m] /\ m = IF j < i THEN j ELSE j + 1
    BY <1>1, <1>3, <1>5
  <2>1. ASSUME NEW j \in 1..Len(a2), NEW k \in 1..Len(a2), a2[j] = a2[k]
        PROVE  j = k
    <3>1. PICK m \in 1..Len(a) : a2[j] = a[m] /\ m = IF j < i THEN j ELSE j + 1
      BY <2>0
    <3>2. PICK o \in 1..Len(a) : a2[k] = a[o] /\ o = IF k < i THEN k ELSE k + 1
      BY <2>0
    <3>3. a[m] = a[o]
      BY <2>1, <3>1, <3>2
    <3>4. m = o
      BY <1>6, <3>3
    <3> QED
      BY <1>1, <1>5, <3>1, <3>2, <3>4
  <2>2. ASSUME NEW j \in 1..Len(b2)
        PROVE  j = 1 \/ (j - 1 \in 1..Len(b) /\ b2[j] = b[j - 1])
    <3>1. j # 1 => j - 1 \in 1..Len(b) /\ (j - 1) + 1 = j
      BY <1>1, <1>4
    <3> QED
      BY <1>4, <3>1
  <2>3. ASSUME NEW j \in 1..Len(b2), NEW k \in 1..Len(b2), b2[j] = b2[k]
        PROVE  j = k
    <3>1. CASE j = 1 \/ k = 1
      <4>1. ASSUME NEW m \in 1..Len(b2), m # 1
            PROVE  b2[m] # a[i]
        <5>1. m - 1 \in 1..Len(b) /\ b2[m] = b[m - 1]
          BY <2>2, <4>1
        <5> QED
          BY <1>6, <5>1
      <4> QED
        BY <1>4, <2>3, <3>1, <4>1
    <3>2. CASE j # 1 /\ k # 1
      <4>1. /\ j - 1 \in 1..Len(b) /\ b2[j] = b[j - 1]
            /\ k - 1 \in 1..Len(b) /\ b2[k] = b[k - 1]
        BY <2>2, <3>2
      <4>2. b[j - 1] = b[k - 1]
        BY <2>3, <4>1
      <4>3. j - 1 = k - 1
        BY <1>6, <4>1, <4>2
      <4> QED
        BY <1>1, <1>4, <4>3
    <3> QED
      BY <3>1, <3>2
  <2>4. ASSUME NEW j \in 1..Len(a2), NEW k \in 1..Len(b2)
        PROVE  a2[j] # b2[k]
    <3>1. PICK m \in 1..Len(a) : m # i /\ a2[j] = a[m]
      BY <2>0
    <3>2. CASE k = 1
      <4>1. a[m] # a[i]
        BY <1>6, <3>1
      <4> QED
        BY <1>4, <3>1, <3>2, <4>1
    <3>3. CASE k # 1
      <4>1. k - 1 \in 1..Len(b) /\ b2[k] = b[k - 1]
        BY <2>2, <3>3
      <4>2. a[m] # b[k - 1]
        BY <1>6, <4>1
      <4> QED
        BY <3>1, <4>1, <4>2
    <3> QED
      BY <3>2, <3>3
  <2>5. ASSUME NEW n \in Nodes
        PROVE  (\E j \in 1..Len(a2) : a2[j] = n) \/ (\E j \in 1..Len(b2) : b2[j] = n)
    <3>1. CASE \E j \in 1..Len(a) : a[j] = n
      <4>1. PICK j \in 1..Len(a) : a[j] = n
        BY <3>1
      <4>2. CASE j < i
        <5>1. j \in 1..(Len(a) - 1)
          BY <1>1, <4>2
        <5>2. j \in 1..Len(a2) /\ a2[j] = a[j]
          BY <1>3, <1>5, <4>2, <5>1
        <5> QED
          BY <4>1, <5>2
      <4>3. CASE j = i
        <5>1. 1 \in 1..Len(b2)
          BY <1>1, <1>4
        <5> QED
          BY <1>4, <4>1, <4>3, <5>1
      <4>4. CASE j > i
        <5>1. j - 1 \in 1..(Len(a) - 1) /\ ~(j - 1 < i) /\ (j - 1) + 1 = j
          BY <1>1, <4>4
        <5>2. j - 1 \in 1..Len(a2) /\ a2[j - 1] = a[j]
          BY <1>3, <1>5, <5>1
        <5> QED
          BY <4>1, <5>2
      <4> QED
        BY <1>1, <4>2, <4>3, <4>4
    <3>2. CASE \E j \in 1..Len(b) : b[j] = n
      <4>1. PICK j \in 1..Len(b) : b[j] = n
        BY <3>2
      <4>2. j + 1 \in 1..Len(b2)
        BY <1>1, <1>4
      <4> QED
        BY <1>4, <4>1, <4>2
    <3> QED
      BY <1>6, <3>1, <3>2
  <2>6. Len(a2) + Len(b2) = NumNodes
    BY <1>1, <1>4, <1>5
  <2> QED
    BY <2>1, <2>3, <2>4, <2>5, <2>6 DEF Separate
<1>13. (IF i # Len(a) THEN tail ELSE IF i = 1 THEN NULL ELSE a[i - 1])
         = IF a2 = <<>> THEN NULL ELSE a2[Len(a2)]
  <2>1. CASE Len(a) = 1
    <3>1. i = 1 /\ a2 = <<>>
      BY <1>1, <1>5, <2>1
    <3> QED
      BY <2>1, <3>1
  <2>2. CASE Len(a) # 1
    <3>1. a2 # <<>> /\ Len(a2) \in 1..(Len(a) - 1) /\ Len(a2) + 1 = Len(a)
      BY <1>1, <1>2, <1>5, <2>2
    <3>2. a2[Len(a2)] = IF Len(a2) < i THEN a[Len(a2)] ELSE a[Len(a)]
      BY <1>3, <3>1
    <3>3. i = Len(a) => i # 1 /\ Len(a2) < i /\ i - 1 = Len(a2)
      BY <1>1, <1>5, <2>2
    <3>4. i # Len(a) => ~(Len(a2) < i)
      BY <1>1, <1>5
    <3> QED
      BY <1>7, <3>1, <3>2, <3>3, <3>4
  <2> QED
    BY <2>1, <2>2
<1> QED
  BY <1>4, <1>5, <1>10, <1>11, <1>12, <1>13 DEF TwoChains, a2, b2

(* All the stock on the inactive chain, as PL_clear_list leaves it. *)
LEMMA FreshChain ==
    TwoChains(FreshLinks, NULL, NULL, 1, <<>>, [i \in 1..NumNodes |-> i])
<1> DEFINE b == [i \in 1..NumNodes |-> i]
<1>1. NumNodes \in Nat \ {0}
  BY NodesAssumption
<1>2. FreshLinks \in [Nodes -> Nodes \cup {NULL}]
  <2>1. ASSUME NEW n \in Nodes, n # NumNodes
        PROVE  n + 1 \in Nodes
    BY <1>1, <2>1 DEF Nodes
  <2> QED
    BY <2>1 DEF FreshLinks
<1>3. b \in Seq(Nodes) /\ Len(b) = NumNodes /\ b # <<>> /\ \A i \in 1..NumNodes : b[i] = i
  BY <1>1 DEF Nodes
<1> HIDE DEF b
<1>4. Links(FreshLinks, 1, b)
  BY <1>1, <1>3 DEF Links, FreshLinks, Nodes
<1>5. Links(FreshLinks, NULL, <<>>)
  BY DEF Links
<1>6. Separate(<<>>, b)
  BY <1>1, <1>3 DEF Separate, Nodes
<1> QED
  BY <1>2, <1>3, <1>4, <1>5, <1>6 DEF TwoChains, b

-------------------------------------------------------------------------------
(* The packets of the chain follow it: the sequence of PacketQueue. *)

LEMMA PacketsPut ==
    ASSUME NEW nx, NEW head, NEW tail, NEW inactive, NEW a, NEW b,
           TwoChains(nx, head, tail, inactive, a, b), b # <<>>,
           NEW c \in 1..(Len(a) + 1),
           NEW pkt, NEW new, NEW p, new[b[1]] = p,
           \A n \in Nodes : n # b[1] => new[n] = pkt[n]
    PROVE  PacketsOn(new, InsertAt(a, c, b[1])) = InsertAt(PacketsOn(pkt, a), c, p)
<1> DEFINE a2 == InsertAt(a, c, b[1])
           l  == PacketsOn(pkt, a)
<1>1. /\ Len(a) \in Nat /\ Len(b) \in Nat \ {0} /\ b[1] \in Nodes /\ 1 \in 1..Len(b)
      /\ \A i \in 1..Len(a) : a[i] \in Nodes
  BY ChainFacts
<1>2. \A i \in 1..Len(a) : a[i] # b[1]
  BY <1>1 DEF TwoChains, Separate
<1>3. Len(a2) = Len(a) + 1
      /\ \A j \in 1..(Len(a) + 1) :
           a2[j] = IF j < c THEN a[j] ELSE IF j = c THEN b[1] ELSE a[j - 1]
  BY <1>1 DEF InsertAt
<1>4. Len(l) = Len(a) /\ \A j \in 1..Len(a) : l[j] = pkt[a[j]]
  BY <1>1 DEF PacketsOn
<1>5. new[b[1]] = p /\ \A n \in Nodes : n # b[1] => new[n] = pkt[n]
  OBVIOUS
<1> HIDE DEF a2, l
<1>6. ASSUME NEW j \in 1..(Len(a) + 1)
      PROVE  new[a2[j]] = IF j < c THEN l[j] ELSE IF j = c THEN p ELSE l[j - 1]
  <2>1. CASE j < c
    <3>1. j \in 1..Len(a)
      BY <1>1, <2>1
    <3> QED
      BY <1>1, <1>2, <1>3, <1>4, <1>5, <2>1, <3>1
  <2>2. CASE j = c
    <3>1. ~(j < c)
      BY <2>2
    <3> QED
      BY <1>3, <1>5, <2>2, <3>1
  <2>3. CASE j > c
    <3>1. j - 1 \in 1..Len(a) /\ ~(j < c) /\ j # c
      BY <1>1, <2>3
    <3> QED
      BY <1>1, <1>2, <1>3, <1>4, <1>5, <3>1
  <2> QED
    BY <1>1, <2>1, <2>2, <2>3
<1>7. PacketsOn(new, a2) = InsertAt(l, c, p)
  BY <1>3, <1>4, <1>6 DEF PacketsOn, InsertAt
<1> QED
  BY <1>7 DEF a2, l

LEMMA PacketsTaken ==
    ASSUME NEW a \in Seq(Nodes), NEW i \in 1..Len(a), NEW pkt
    PROVE  PacketsOn(pkt, RemoveAt(a, i)) = RemoveAt(PacketsOn(pkt, a), i)
<1> DEFINE a2 == RemoveAt(a, i)
           l  == PacketsOn(pkt, a)
<1>1. Len(a) \in Nat \ {0}
  OBVIOUS
<1>2. /\ Len(a2) = Len(a) - 1
      /\ \A j \in 1..(Len(a) - 1) : a2[j] = IF j < i THEN a[j] ELSE a[j + 1]
  BY <1>1 DEF RemoveAt
<1>3. Len(l) = Len(a) /\ \A j \in 1..Len(a) : l[j] = pkt[a[j]]
  BY <1>1 DEF PacketsOn
<1> HIDE DEF a2, l
<1>4. ASSUME NEW j \in 1..(Len(a) - 1)
      PROVE  pkt[a2[j]] = IF j < i THEN l[j] ELSE l[j + 1]
  <2>1. j \in 1..Len(a) /\ j + 1 \in 1..Len(a)
    BY <1>1
  <2> QED
    BY <1>2, <1>3, <2>1
<1>5. PacketsOn(pkt, a2) = RemoveAt(l, i)
  BY <1>2, <1>3, <1>4 DEF PacketsOn, RemoveAt
<1> QED
  BY <1>5 DEF a2, l

(* The first packet gone is the first of the sequence gone. *)
LEMMA FirstTaken ==
    ASSUME NEW S, NEW l \in Seq(S), l # <<>>
    PROVE  RemoveAt(l, 1) = Tail(l) /\ 1 \in 1..Len(l)
<1>1. Len(l) \in Nat \ {0}
  OBVIOUS
<1>2. RemoveAt(l, 1) = [j \in 1..(Len(l) - 1) |-> l[j + 1]]
  BY <1>1 DEF RemoveAt
<1>3. /\ Tail(l) \in Seq(S) /\ Len(Tail(l)) = Len(l) - 1
      /\ \A j \in 1..(Len(l) - 1) : Tail(l)[j] = l[j + 1]
  BY <1>1
<1>4. \A j \in 1..(Len(l) - 1) : l[j + 1] \in S
  BY <1>1
<1>5. /\ RemoveAt(l, 1) \in Seq(S) /\ Len(RemoveAt(l, 1)) = Len(l) - 1
      /\ \A j \in 1..(Len(l) - 1) : RemoveAt(l, 1)[j] = l[j + 1]
  BY <1>1, <1>2, <1>4
<1>6. RemoveAt(l, 1) = Tail(l)
  BY <1>3, <1>5, SeqEqual
<1> QED
  BY <1>1, <1>6

(* There is one place for a time. *)
LEMMA PlaceIs ==
    ASSUME NEW P, HaveTimes(P), NEW list \in Seq(P), NEW t \in Time,
           NEW c \in 1..(Len(list) + 1),
           \A j \in 1..(c - 1) : list[j].time < t,
           c <= Len(list) => list[c].time >= t
    PROVE  Place(list, t) = c
<1> DEFINE i == Place(list, t)
<1>1. /\ i \in 1..(Len(list) + 1)
      /\ \A j \in 1..(i - 1) : list[j].time < t
      /\ i <= Len(list) => list[i].time >= t
  BY PlaceProperties
<1> HIDE DEF i
<1>2. Len(list) \in Nat /\ t \in Int
  BY TimeInNat
<1>3. ASSUME NEW j \in 1..Len(list)
      PROVE  list[j].time \in Nat
  <2>1. list[j] \in P
    BY <1>2
  <2>2. list[j].time \in Time
    BY <2>1 DEF HaveTimes
  <2> QED
    BY <2>2, TimeInNat, Zenon
<1>4. ~(i < c)
  <2> SUFFICES ASSUME i < c PROVE FALSE
    OBVIOUS
  <2>1. i \in 1..(c - 1) /\ i <= Len(list) /\ i \in 1..Len(list)
    BY <1>1, <1>2
  <2> QED
    BY <1>1, <1>2, <1>3, <2>1
<1>5. ~(c < i)
  <2> SUFFICES ASSUME c < i PROVE FALSE
    OBVIOUS
  <2>1. c \in 1..(i - 1) /\ c <= Len(list) /\ c \in 1..Len(list)
    BY <1>1, <1>2
  <2> QED
    BY <1>1, <1>2, <1>3, <2>1
<1> QED
  BY <1>1, <1>2, <1>4, <1>5 DEF i

-------------------------------------------------------------------------------
(* The invariant, and what each operation does to the sequence of packets. *)

LEMMA ChainsRead ==
    /\ Active = ChainOf(next, active_list_head)
    /\ Inactive = ChainOf(next, inactive_list_head)
    /\ Active' = ChainOf(next', active_list_head')
    /\ Inactive' = ChainOf(next', inactive_list_head')
BY Zenon DEF Active, Inactive, Chain, ChainOf

(* The chains that the links and the pointers hold are those that are read. *)
LEMMA ChainsAre ==
    ASSUME NEW nx, NEW head, NEW tail, NEW inactive, NEW a, NEW b,
           TwoChains(nx, head, tail, inactive, a, b)
    PROVE  ChainOf(nx, head) = a /\ ChainOf(nx, inactive) = b
<1>1. Len(a) <= NumNodes /\ Len(b) <= NumNodes
  BY ChainFacts
<1> QED
  BY <1>1, ChainIs DEF TwoChains

(* The active packets. *)
Seen == PacketsOn(packet, Active)

(* What an operation may do to them. *)
Moves ==
    \/ /\ timed
       /\ \E p \in Packets, now \in Now : Seen' = Insert(Seen, NumNodes, p, now)
       /\ UNCHANGED executed_nodes
    \/ /\ timed
       /\ \E i \in 1..Len(Seen) : Seen' = RemoveAt(Seen, i)
       /\ UNCHANGED executed_nodes
    \/ /\ ~timed
       /\ \E p \in Packets : Len(Seen) # NumNodes /\ Seen' = Append(Seen, p)
       /\ UNCHANGED executed_nodes
    \/ /\ Seen' = DropHead(Seen)
       /\ executed_nodes' = executed_nodes + 1
    \/ /\ Seen' = <<>>
       /\ executed_nodes' \in {executed_nodes, 0}

LEMMA SeenFacts ==
    ASSUME ListInv
    PROVE  /\ Seen \in Seq(Packets)
           /\ Len(Seen) = Len(Active)
           /\ Len(Active) \in Nat
           /\ \A i \in 1..Len(Active) : Seen[i] = packet[Active[i]]
           /\ Seen \in Seq(Packets)
           /\ Len(Seen) <= NumNodes
           /\ timed => Seen \in Timelines(Packets, NumNodes)
<1>1. Len(Active) \in Nat /\ Len(Inactive) \in Nat /\ Len(Active) + Len(Inactive) = NumNodes
  BY ChainFacts DEF ListInv
<1>2. Len(Seen) = Len(Active) /\ \A i \in 1..Len(Active) : Seen[i] = packet[Active[i]]
  BY <1>1 DEF Seen, PacketsOn
<1>3. Seen \in Seq(Packets) /\ (timed => StrictlyOrdered(Seen))
  BY DEF ListInv, Seen
<1> QED
  BY <1>1, <1>2, <1>3 DEF Timelines

(* The chains a and b after a step are the invariant's again. *)
LEMMA KeepsListInv ==
    ASSUME ListInv, NEW a, NEW b,
           TwoChains(next', active_list_head', active_list_tail', inactive_list_head', a, b),
           UNCHANGED timed, fault' \in BOOLEAN,
           packet' \in [Nodes -> Packets \cup {NoPacket}],
           active_nodes' = Len(a),
           PacketsOn(packet', a) \in Seq(Packets),
           timed => StrictlyOrdered(PacketsOn(packet', a))
    PROVE  ListInv' /\ Seen' = PacketsOn(packet', a)
<1>1. Active' = a /\ Inactive' = b
  BY ChainsRead, ChainsAre
<1>2. Seen' = PacketsOn(packet', a)
  BY <1>1 DEF Seen
<1> QED
  BY <1>1, <1>2 DEF ListInv

(* A free node with the packet p at the place c. *)
Puts(c, p) ==
    /\ TwoChains(next', active_list_head', active_list_tail', inactive_list_head',
                 InsertAt(Active, c, Free), Tail(Inactive))
    /\ packet' = [packet EXCEPT ![Free] = p]

LEMMA FreeNode ==
    ASSUME ListInv, HasFree
    PROVE  /\ Inactive # <<>>
           /\ Free = Inactive[1]
           /\ Free \in Nodes
           /\ \A i \in 1..Len(Active) : Active[i] \in Nodes /\ Active[i] # Free
           /\ Len(Active) < NumNodes
<1>1. /\ Inactive # <<>> /\ Len(Inactive) \in Nat \ {0} /\ Len(Active) \in Nat
      /\ Len(Active) + Len(Inactive) = NumNodes
      /\ \A i \in 1..Len(Active) : Active[i] \in Nodes
      /\ \A i \in 1..Len(Inactive) : Inactive[i] \in Nodes
  BY ChainFacts DEF ListInv, HasFree
<1>2. Free = Inactive[1] /\ 1 \in 1..Len(Inactive)
  BY <1>1 DEF ListInv, TwoChains, Links, Free
<1>3. \A i \in 1..Len(Active) : Active[i] # Inactive[1]
  BY <1>2 DEF ListInv, TwoChains, Separate
<1> QED
  BY <1>1, <1>2, <1>3

LEMMA PushFrontPuts ==
    ASSUME ListInv, HasFree, TookFree, NEW p, PushFront(p)
    PROVE  Puts(1, p)
<1> DEFINE a == Active
           b == Inactive
<1>1. /\ TwoChains(next, active_list_head, active_list_tail, inactive_list_head, a, b)
      /\ next \in [Nodes -> Nodes \cup {NULL}]
  BY DEF ListInv, TwoChains
<1>2. b # <<>> /\ Free = b[1] /\ Free \in Nodes
  BY FreeNode
<1>3. /\ Len(a) \in Nat /\ 1 \in 1..(Len(a) + 1)
      /\ (active_list_head = NULL <=> a = <<>>)
      /\ (active_list_tail = NULL <=> a = <<>>)
      /\ (a = <<>> <=> Len(a) = 0)
      /\ \A i \in 1..Len(a) : a[i] \in Nodes
  BY <1>1, ChainFacts
<1>4. active_list_head = IF 1 = Len(a) + 1 THEN NULL ELSE a[1]
  BY <1>1, <1>3 DEF TwoChains, Links
<1> HIDE DEF a, b
<1>5. /\ next' = [next EXCEPT ![b[1]] = active_list_head]
      /\ active_list_head' = b[1]
      /\ active_list_tail' = IF active_list_tail = NULL THEN b[1] ELSE active_list_tail
      /\ inactive_list_head' = next[b[1]]
  BY <1>2, Zenon DEF PushFront, TookFree, Free
<1>6. active_list_head \in Nodes \cup {NULL}
  BY <1>3, <1>4
<1>7. next' \in [Nodes -> Nodes \cup {NULL}] /\ next'[b[1]] = active_list_head
      /\ \A n \in Nodes : n # b[1] => next'[n] = next[n]
  BY <1>1, <1>2, <1>5, <1>6
<1>8. active_list_tail' = IF 1 = Len(a) + 1 THEN b[1] ELSE active_list_tail
  BY <1>3, <1>5
<1>9. TwoChains(next', b[1], IF 1 = Len(a) + 1 THEN b[1] ELSE active_list_tail,
                next[b[1]], InsertAt(a, 1, b[1]), Tail(b))
  BY <1>1, <1>2, <1>3, <1>4, <1>7, PutOnChain
<1>10. TwoChains(next', active_list_head', active_list_tail', inactive_list_head',
                 InsertAt(a, 1, b[1]), Tail(b))
  BY <1>5, <1>8, <1>9
<1> QED
  BY <1>2, <1>10 DEF Puts, a, b, PushFront

LEMMA PushBackPuts ==
    ASSUME ListInv, HasFree, TookFree, NEW p, PushBack(p)
    PROVE  Puts(Len(Active) + 1, p)
<1> DEFINE a == Active
           b == Inactive
           c == Len(a) + 1
<1>1. /\ TwoChains(next, active_list_head, active_list_tail, inactive_list_head, a, b)
      /\ next \in [Nodes -> Nodes \cup {NULL}]
  BY DEF ListInv, TwoChains
<1>2. b # <<>> /\ Free = b[1] /\ Free \in Nodes /\ \A i \in 1..Len(a) : a[i] # b[1]
  BY FreeNode
<1>3. /\ Len(a) \in Nat /\ c \in 1..(Len(a) + 1)
      /\ (active_list_tail = NULL <=> a = <<>>)
      /\ (a = <<>> <=> Len(a) = 0)
      /\ \A i \in 1..Len(a) : a[i] \in Nodes
  BY <1>1, ChainFacts
<1>4. a # <<>> => /\ active_list_tail = a[c - 1] /\ c > 1 /\ c - 1 \in 1..Len(a)
                  /\ a[c - 1] \in Nodes /\ a[c - 1] # b[1]
  BY <1>1, <1>2, <1>3 DEF TwoChains
<1>5. a = <<>> => c = 1
  BY <1>3
<1> HIDE DEF a, b
<1>6. /\ next' = IF active_list_tail = NULL THEN [next EXCEPT ![b[1]] = NULL]
                 ELSE [next EXCEPT ![b[1]] = NULL, ![active_list_tail] = b[1]]
      /\ active_list_head' = IF active_list_tail = NULL THEN b[1] ELSE active_list_head
      /\ active_list_tail' = b[1]
      /\ inactive_list_head' = next[b[1]]
  BY <1>2, Zenon DEF PushBack, TookFree, Free
<1>7. /\ next' \in [Nodes -> Nodes \cup {NULL}]
      /\ next'[b[1]] = NULL
      /\ c > 1 => next'[a[c - 1]] = b[1]
      /\ \A n \in Nodes : n # b[1] /\ (c > 1 => n # a[c - 1]) => next'[n] = next[n]
  <2>1. CASE a = <<>>
    BY <1>1, <1>2, <1>3, <1>5, <1>6, <2>1
  <2>2. CASE a # <<>>
    <3>1. next' = [next EXCEPT ![b[1]] = NULL, ![a[c - 1]] = b[1]]
      BY <1>3, <1>4, <1>6, <2>2
    <3> QED
      BY <1>1, <1>2, <1>4, <2>2, <3>1
  <2> QED
    BY <2>1, <2>2
<1>8. active_list_head' = IF c = 1 THEN b[1] ELSE active_list_head
  BY <1>3, <1>4, <1>5, <1>6
<1> HIDE DEF c
<1>9. TwoChains(next', IF c = 1 THEN b[1] ELSE active_list_head,
                IF c = Len(a) + 1 THEN b[1] ELSE active_list_tail,
                next[b[1]], InsertAt(a, c, b[1]), Tail(b))
  <2>1. next'[b[1]] = IF c = Len(a) + 1 THEN NULL ELSE a[c]
    BY <1>7 DEF c
  <2> QED
    BY <1>1, <1>2, <1>3, <1>7, <2>1, PutOnChain
<1>10. TwoChains(next', active_list_head', active_list_tail', inactive_list_head',
                 InsertAt(a, c, b[1]), Tail(b))
  BY <1>6, <1>8, <1>9 DEF c
<1> QED
  BY <1>2, <1>10 DEF Puts, a, b, c, PushBack

LEMMA InsertAfterPuts ==
    ASSUME ListInv, HasFree, TookFree, NEW p, NEW c \in 2..Len(Active),
           InsertAfter(Active[c - 1], p)
    PROVE  Puts(c, p)
<1> DEFINE a == Active
           b == Inactive
<1>1. /\ TwoChains(next, active_list_head, active_list_tail, inactive_list_head, a, b)
      /\ next \in [Nodes -> Nodes \cup {NULL}]
  BY DEF ListInv, TwoChains
<1>2. b # <<>> /\ Free = b[1] /\ Free \in Nodes /\ \A i \in 1..Len(a) : a[i] # b[1]
  BY FreeNode
<1>3. /\ Len(a) \in Nat
      /\ \A i \in 1..Len(a) : a[i] \in Nodes
  BY <1>1, ChainFacts
<1> HIDE DEF a, b
<1>4. c \in 2..Len(a) /\ InsertAfter(a[c - 1], p)
  BY DEF a
<1>5. /\ c \in 1..(Len(a) + 1) /\ c > 1 /\ c # 1 /\ c # Len(a) + 1 /\ c \in 1..Len(a)
      /\ c - 1 \in 1..Len(a) /\ c - 1 # Len(a) /\ (c - 1) + 1 = c
  BY <1>3, <1>4
<1>6. a[c - 1] \in Nodes /\ a[c - 1] # b[1] /\ a[c] \in Nodes
  BY <1>2, <1>3, <1>5
<1>7. next[a[c - 1]] = a[c]
  BY <1>1, <1>5 DEF TwoChains, Links
<1>8. /\ next' = [next EXCEPT ![b[1]] = a[c], ![a[c - 1]] = b[1]]
      /\ active_list_head' = active_list_head
      /\ active_list_tail' = active_list_tail
      /\ inactive_list_head' = next[b[1]]
  BY <1>2, <1>4, <1>7, Zenon DEF InsertAfter, TookFree, Free
<1>9. /\ next' \in [Nodes -> Nodes \cup {NULL}]
      /\ next'[b[1]] = a[c]
      /\ next'[a[c - 1]] = b[1]
      /\ \A n \in Nodes : n # b[1] /\ n # a[c - 1] => next'[n] = next[n]
  BY <1>1, <1>2, <1>6, <1>8
<1>10. TwoChains(next', active_list_head, active_list_tail,
                 next[b[1]], InsertAt(a, c, b[1]), Tail(b))
  BY <1>1, <1>2, <1>5, <1>9, PutOnChain
<1>11. TwoChains(next', active_list_head', active_list_tail', inactive_list_head',
                 InsertAt(a, c, b[1]), Tail(b))
  BY <1>8, <1>10
<1> QED
  BY <1>2, <1>4, <1>11 DEF Puts, a, b, InsertAfter

(* What it does to the packets. *)
LEMMA PutsInserts ==
    ASSUME ListInv, HasFree, NEW p \in Packets, NEW c \in 1..(Len(Active) + 1), Puts(c, p)
    PROVE  /\ packet' \in [Nodes -> Packets \cup {NoPacket}]
           /\ Len(InsertAt(Active, c, Free)) = Len(Active) + 1
           /\ PacketsOn(packet', InsertAt(Active, c, Free)) = InsertAt(Seen, c, p)
<1>1. /\ TwoChains(next, active_list_head, active_list_tail, inactive_list_head,
                   Active, Inactive)
      /\ packet \in [Nodes -> Packets \cup {NoPacket}]
  BY DEF ListInv
<1>2. Inactive # <<>> /\ Free = Inactive[1]
  BY FreeNode
<1>3. packet' = [packet EXCEPT ![Free] = p]
  BY DEF Puts
<1>4. Len(Active) \in Nat
  BY <1>1, ChainFacts
<1>5. Len(InsertAt(Active, c, Free)) = Len(Active) + 1
  BY <1>4 DEF InsertAt
<1>6. /\ packet'[Inactive[1]] = p
      /\ \A n \in Nodes : n # Inactive[1] => packet'[n] = packet[n]
  <2>1. Inactive[1] \in Nodes
    BY <1>2, FreeNode
  <2> QED
    BY <1>1, <1>2, <1>3, <2>1
<1>8. PacketsOn(packet', InsertAt(Active, c, Inactive[1]))
        = InsertAt(PacketsOn(packet, Active), c, p)
  BY <1>1, <1>2, <1>6, PacketsPut
<1>7. packet' \in [Nodes -> Packets \cup {NoPacket}]
  BY <1>1, <1>3
<1> QED
  BY <1>2, <1>3, <1>5, <1>7, <1>8 DEF Seen

LEMMA PutsKeeps ==
    ASSUME ListInv, UNCHANGED timed, HasFree, TookFree, NEW p \in Packets,
           NEW c \in 1..(Len(Active) + 1), Puts(c, p),
           timed => StrictlyOrdered(InsertAt(Seen, c, p))
    PROVE  ListInv' /\ Seen' = InsertAt(Seen, c, p)
<1> DEFINE a == InsertAt(Active, c, Free)
           b == Tail(Inactive)
<1>1. /\ packet' \in [Nodes -> Packets \cup {NoPacket}]
      /\ Len(a) = Len(Active) + 1
      /\ PacketsOn(packet', a) = InsertAt(Seen, c, p)
  BY PutsInserts
<1>2. TwoChains(next', active_list_head', active_list_tail', inactive_list_head', a, b)
  BY DEF Puts
<1>3. InsertAt(Seen, c, p) \in Seq(Packets)
  <2>1. Seen \in Seq(Packets) /\ Len(Seen) \in Nat /\ Len(Seen) = Len(Active)
    BY SeenFacts
  <2>2. InsertAt(Seen, c, p) \in [1..(Len(Seen) + 1) -> Packets]
    BY <2>1 DEF InsertAt
  <2> QED
    BY <2>1, <2>2
<1>4. active_nodes' = Len(a) /\ fault' \in BOOLEAN
  BY <1>1 DEF ListInv, TookFree
<1> HIDE DEF a, b
<1> QED
  BY <1>1, <1>2, <1>3, <1>4, KeepsListInv

(* PL_push_back on a FIFO list. *)
LEMMA PushBackMoves ==
    ASSUME ListInv, UNCHANGED timed, ~timed, NEW p \in Packets, PL_push_back(p)
    PROVE  ListInv' /\ Moves
<1> DEFINE c == Len(Active) + 1
<1>1. HasFree /\ TookFree /\ PushBack(p)
  BY DEF PL_push_back
<1>2. Seen \in Seq(Packets) /\ Len(Seen) \in Nat /\ Len(Seen) = Len(Active) /\ Len(Seen) # NumNodes
  BY <1>1, FreeNode, SeenFacts, NodesAssumption
<1>3. c \in 1..(Len(Active) + 1) /\ Puts(c, p)
  BY <1>1, <1>2, PushBackPuts
<1>4. ListInv' /\ Seen' = InsertAt(Seen, c, p)
  <2> HIDE DEF c
  <2> QED
    BY <1>1, <1>3, PutsKeeps
<1>5. InsertAt(Seen, c, p) = Append(Seen, p)
  <2> DEFINE l == InsertAt(Seen, c, p)
  <2>1. \A j \in 1..Len(Seen) : Seen[j] \in Packets
    BY <1>2
  <2>2. /\ l \in [1..(Len(Seen) + 1) -> Packets]
        /\ \A j \in 1..(Len(Seen) + 1) : l[j] = IF j < Len(Seen) + 1 THEN Seen[j] ELSE p
    BY <1>2, <2>1 DEF InsertAt
  <2> HIDE DEF l
  <2>3. l \in Seq(Packets) /\ Len(l) = Len(Seen) + 1
    BY <1>2, <2>2
  <2>4. /\ Append(Seen, p) \in Seq(Packets) /\ Len(Append(Seen, p)) = Len(Seen) + 1
        /\ \A j \in 1..(Len(Seen) + 1) :
             Append(Seen, p)[j] = IF j < Len(Seen) + 1 THEN Seen[j] ELSE p
    BY <1>2
  <2>5. l = Append(Seen, p)
    BY <2>2, <2>3, <2>4, SeqEqual
  <2> QED
    BY <2>5 DEF l
<1>6. UNCHANGED executed_nodes
  BY <1>1 DEF TookFree
<1> QED
  BY <1>2, <1>4, <1>5, <1>6 DEF Moves

LEMMA PacketTimes == HaveTimes(Packets) /\ \A p \in Packets : p.time \in Nat
<1>1. HaveTimes(Packets)
  BY NodesAssumption DEF HaveTimes
<1>2. \A p \in Packets : p.time \in Nat
  BY <1>1, TimeInNat, Zenon DEF HaveTimes
<1> QED
  BY <1>1, <1>2

(* The walk finds the first packet that is not earlier. *)
LEMMA WalkFinds ==
    ASSUME ListInv, timed, NEW t \in Nat, Active # <<>>,
           Seen[Len(Active)].time >= t, Seen[1].time < t
    PROVE  LET i == FirstNotEarlier(t) IN
           /\ i \in 2..Len(Active)
           /\ Seen[i].time >= t
           /\ \A j \in 1..(i - 1) : Seen[j].time < t
<1> DEFINE T == {i \in 2..Len(Active) : Seen[i].time >= t}
           IsFirst(i) == /\ packet[Active[i]].time >= t
                         /\ \A j \in 2..(i - 1) : packet[Active[j]].time < t
<1>1. /\ Len(Active) \in Nat /\ Len(Seen) = Len(Active) /\ Seen \in Seq(Packets)
      /\ \A i \in 1..Len(Active) : Seen[i] = packet[Active[i]]
  BY SeenFacts
<1>2. \A i \in 1..Len(Active) : Seen[i].time \in Nat
  BY <1>1, PacketTimes
<1>3. Len(Active) # 0
  BY ChainFacts DEF ListInv
<1>4. Len(Active) # 1
  BY <1>1, <1>2
<1>5. T \in SUBSET Nat /\ Len(Active) \in T
  BY <1>1, <1>3, <1>4
<1>6. PICK i \in T : \A j \in T : i <= j
  BY <1>5, LeastNumber
<1>7. i \in 2..Len(Active) /\ IsFirst(i)
  <2>1. i \in 2..Len(Active) /\ i \in 1..Len(Active) /\ packet[Active[i]].time >= t
    BY <1>1, <1>6
  <2>2. ASSUME NEW j \in 2..(i - 1)
        PROVE  packet[Active[j]].time < t
    <3>1. j \in 2..Len(Active) /\ j \in 1..Len(Active) /\ j \notin T
      BY <1>1, <1>6, <2>1
    <3> QED
      BY <1>1, <1>2, <3>1
  <2> QED
    BY <2>1, <2>2
<1> DEFINE c == FirstNotEarlier(t)
<1>8. c \in 2..Len(Active) /\ IsFirst(c)
  BY <1>7, Zenon DEF FirstNotEarlier
<1> HIDE DEF c
<1>9. c \in 1..Len(Active) /\ Seen[c].time >= t
  BY <1>1, <1>8
<1>10. ASSUME NEW j \in 1..(c - 1)
       PROVE  Seen[j].time < t
  <2>1. CASE j = 1
    BY <2>1
  <2>2. CASE j # 1
    <3>1. j \in 2..(c - 1) /\ j \in 1..Len(Active)
      BY <1>1, <1>8, <2>2
    <3> QED
      BY <1>1, <1>8, <3>1
  <2> QED
    BY <2>1, <2>2
<1> QED
  BY <1>8, <1>9, <1>10 DEF c

(* PL_insert_tl_cmd puts the packet behind those of earlier times, and the *)
(* packet at that place is later.                                         *)
LEMMA InsertPlaces ==
    ASSUME ListInv, timed, NEW p \in Packets, NEW now, PL_insert_tl_cmd(p, now)
    PROVE  \E c \in 1..(Len(Active) + 1) :
             /\ Puts(c, p)
             /\ \A j \in 1..(c - 1) : Seen[j].time < p.time
             /\ c <= Len(Active) => Seen[c].time > p.time
<1> DEFINE n == Len(Active)
           t == p.time
           curr == FirstNotEarlier(t)
<1>1. HasFree /\ TookFree
  BY DEF PL_insert_tl_cmd
<1>2. /\ n \in Nat /\ Len(Seen) = n /\ Seen \in Seq(Packets)
      /\ \A i \in 1..n : Seen[i] = packet[Active[i]]
      /\ timed => StrictlyOrdered(Seen)
  BY SeenFacts DEF ListInv, Seen
<1>3. (active_list_head = NULL <=> Active = <<>>) /\ (Active = <<>> <=> n = 0)
  BY ChainFacts DEF ListInv
<1>4. t \in Nat /\ \A i \in 1..n : Seen[i].time \in Nat
  BY <1>2, PacketTimes
<1>5. CASE active_list_head = NULL
  <2>1. PushFront(p)
    BY <1>5 DEF PL_insert_tl_cmd
  <2>2. Puts(1, p)
    BY <1>1, <2>1, PushFrontPuts
  <2> QED
    BY <1>2, <1>3, <1>5, <2>2
<1>6. CASE active_list_head # NULL
  <2>1. /\ active_list_head = Active[1] /\ active_list_tail = Active[n]
        /\ 1 \in 1..n /\ n \in 1..n
    BY <1>2, <1>3, <1>6 DEF ListInv, TwoChains, Links
  <2>2. packet[active_list_head] = Seen[1] /\ packet[active_list_tail] = Seen[n]
    BY <1>2, <2>1
  <2>3. \/ Seen[n].time < t /\ PushBack(p)
        \/ Seen[n].time >= t /\ Seen[1].time > t /\ PushFront(p)
        \/ /\ Seen[n].time >= t /\ Seen[1].time < t
           /\ packet[Active[curr]].time # t
           /\ InsertAfter(Active[curr - 1], p)
    <3> HIDE DEF curr, n, t
    <3>1. \/ packet[active_list_tail].time < t /\ PushBack(p)
          \/ /\ packet[active_list_tail].time >= t /\ packet[active_list_head].time > t
             /\ PushFront(p)
          \/ /\ packet[active_list_tail].time >= t /\ packet[active_list_head].time < t
             /\ packet[Active[curr]].time # t
             /\ InsertAfter(Active[curr - 1], p)
      BY <1>6, Zenon DEF PL_insert_tl_cmd, curr, t
    <3> QED
      BY <2>2, <3>1
  <2>4. CASE Seen[n].time < t /\ PushBack(p)
    <3>1. Puts(n + 1, p)
      BY <1>1, <2>4, PushBackPuts
    <3>2. ASSUME NEW j \in 1..n
          PROVE  Seen[j].time < t
      <4>1. j # n => Seen[j].time < Seen[n].time
        BY <1>2, <2>1 DEF StrictlyOrdered
      <4> QED
        BY <1>4, <2>1, <2>4, <4>1
    <3>3. n + 1 \in 1..(n + 1) /\ (n + 1) - 1 = n /\ ~(n + 1 <= n)
      BY <1>2
    <3> QED
      BY <3>1, <3>2, <3>3
  <2>5. CASE Seen[n].time >= t /\ Seen[1].time > t /\ PushFront(p)
    <3>1. Puts(1, p)
      BY <1>1, <2>5, PushFrontPuts
    <3> QED
      BY <1>2, <2>5, <3>1
  <2>6. CASE /\ Seen[n].time >= t /\ Seen[1].time < t
             /\ packet[Active[curr]].time # t
             /\ InsertAfter(Active[curr - 1], p)
    <3>1. /\ curr \in 2..n
          /\ Seen[curr].time >= t
          /\ \A j \in 1..(curr - 1) : Seen[j].time < t
      BY <1>3, <1>4, <1>6, <2>6, WalkFinds
    <3> HIDE DEF curr, n, t
    <3>2. curr \in 1..n /\ curr \in 1..(n + 1)
      BY <1>2, <3>1
    <3>3. Puts(curr, p)
      BY <1>1, <2>6, <3>1, InsertAfterPuts DEF n
    <3>4. Seen[curr].time > t
      <4>1. Seen[curr].time # t
        BY <1>2, <2>6, <3>2
      <4> QED
        BY <1>4, <3>1, <3>2, <4>1
    <3> QED
      BY <3>1, <3>2, <3>3, <3>4 DEF n, t
  <2> QED
    BY <2>3, <2>4, <2>5, <2>6
<1> QED
  BY <1>5, <1>6

LEMMA InsertMoves ==
    ASSUME ListInv, UNCHANGED timed, timed, NEW p \in Packets, NEW now \in Now,
           PL_insert_tl_cmd(p, now)
    PROVE  ListInv' /\ Moves
<1> DEFINE t == p.time
<1>1. HasFree /\ TookFree /\ now <= t
  BY DEF PL_insert_tl_cmd
<1>2. PICK c \in 1..(Len(Active) + 1) :
        /\ Puts(c, p)
        /\ \A j \in 1..(c - 1) : Seen[j].time < t
        /\ c <= Len(Active) => Seen[c].time > t
  BY InsertPlaces
<1>3. /\ Len(Active) \in Nat /\ Len(Seen) = Len(Active) /\ Seen \in Seq(Packets)
      /\ StrictlyOrdered(Seen)
  BY SeenFacts DEF ListInv, Seen
<1>4. t \in Nat /\ t \in Time /\ \A i \in 1..Len(Seen) : Seen[i].time \in Nat
  BY <1>3, PacketTimes, NodesAssumption
<1>5. Len(Seen) # NumNodes
  BY <1>1, <1>3, FreeNode, NodesAssumption
<1>6. t \notin Times(Seen)
  <2> SUFFICES ASSUME NEW j \in 1..Len(Seen)
               PROVE  Seen[j].time # t
    BY DEF Times
  <2>1. CASE j < c
    <3>1. j \in 1..(c - 1)
      BY <1>3, <2>1
    <3> QED
      BY <1>2, <1>4, <3>1
  <2>2. CASE j = c
    BY <1>2, <1>3, <1>4, <2>2
  <2>3. CASE j > c
    <3>1. c \in 1..Len(Seen) /\ c <= Len(Active) /\ c < j
      BY <1>3, <2>3
    <3>2. Seen[c].time < Seen[j].time
      BY <1>3, <3>1 DEF StrictlyOrdered
    <3> QED
      BY <1>2, <1>4, <3>1, <3>2
  <2> QED
    BY <1>3, <2>1, <2>2, <2>3
<1>7. Place(Seen, t) = c
  <2>1. c <= Len(Seen) => Seen[c].time >= t
    <3>1. c <= Len(Seen) => c \in 1..Len(Seen)
      BY <1>3
    <3> QED
      BY <1>2, <1>3, <1>4, <3>1
  <2> HIDE DEF t
  <2> QED
    BY <1>2, <1>3, <1>4, <2>1, PacketTimes, PlaceIs
<1>8. StrictlyOrdered(InsertAt(Seen, c, p))
  BY <1>3, <1>6, <1>7, PacketTimes, InsertAtKeepsOrder
<1>9. ListInv' /\ Seen' = InsertAt(Seen, c, p)
  BY <1>1, <1>2, <1>8, PutsKeeps
<1>10. InsertAck(Seen, NumNodes, t, now) = "PL_SUCCESS"
  <2>1. now \in Nat
    BY NodesAssumption, TimeInNat
  <2> QED
    BY <1>1, <1>4, <1>5, <1>6, <2>1 DEF InsertAck
<1>11. Seen' = Insert(Seen, NumNodes, p, now)
  BY <1>7, <1>9, <1>10 DEF Insert
<1>12. UNCHANGED executed_nodes
  BY <1>1 DEF TookFree
<1> QED
  BY <1>9, <1>11, <1>12 DEF Moves

(* The node of the i-th packet given back. *)
Takes(i) ==
    /\ TwoChains(next', active_list_head', active_list_tail', inactive_list_head',
                 RemoveAt(Active, i), <<Active[i]>> \o Inactive)
    /\ active_nodes' = active_nodes - 1

LEMMA DropHeadTakes ==
    ASSUME ListInv, active_list_head # NULL, DropHeadNode
    PROVE  1 \in 1..Len(Active) /\ Takes(1)
<1> DEFINE a == Active
           b == Inactive
<1>1. /\ TwoChains(next, active_list_head, active_list_tail, inactive_list_head, a, b)
      /\ next \in [Nodes -> Nodes \cup {NULL}]
  BY DEF ListInv, TwoChains
<1>2. /\ Len(a) \in Nat /\ 1 \in 1..Len(a) /\ a # <<>>
      /\ \A i \in 1..Len(a) : a[i] \in Nodes /\ a[i] # NULL
      /\ inactive_list_head \in Nodes \cup {NULL}
  <2>1. b # <<>> => inactive_list_head = b[1] /\ 1 \in 1..Len(b)
    BY <1>1, ChainFacts DEF TwoChains, Links
  <2> QED
    BY <1>1, <2>1, ChainFacts
<1> HIDE DEF a, b
<1>3. active_list_head = a[1] /\ a[1] \in Nodes
  BY <1>1, <1>2 DEF TwoChains, Links
<1>4. next[a[1]] = IF 1 = Len(a) THEN NULL ELSE a[1 + 1]
  BY <1>1, <1>2 DEF TwoChains, Links
<1>5. next[a[1]] = NULL <=> 1 = Len(a)
  <2>1. 1 # Len(a) => 1 + 1 \in 1..Len(a)
    BY <1>2
  <2>2. 1 # Len(a) => a[1 + 1] # NULL
    BY <1>2, <2>1
  <2> QED
    BY <1>4, <2>2
<1>6. /\ active_list_head' = next[a[1]]
      /\ active_list_tail' = IF next[a[1]] = NULL THEN NULL ELSE active_list_tail
      /\ next' = [next EXCEPT ![a[1]] = inactive_list_head]
      /\ inactive_list_head' = a[1]
      /\ active_nodes' = active_nodes - 1
  BY <1>3 DEF DropHeadNode
<1>7. /\ next' \in [Nodes -> Nodes \cup {NULL}]
      /\ next'[a[1]] = inactive_list_head
      /\ \A n \in Nodes : n # a[1] => next'[n] = next[n]
  BY <1>1, <1>2, <1>3, <1>6
<1>8. TwoChains(next', next[a[1]],
                IF 1 # Len(a) THEN active_list_tail ELSE NULL,
                a[1], RemoveAt(a, 1), <<a[1]>> \o b)
  <2> DEFINE new == next'
  <2>1. /\ new \in [Nodes -> Nodes \cup {NULL}]
        /\ new[a[1]] = inactive_list_head
        /\ 1 > 1 => new[a[1 - 1]] = next[a[1]]
        /\ \A n \in Nodes : n # a[1] /\ (1 > 1 => n # a[1 - 1]) => new[n] = next[n]
    BY <1>7
  <2> HIDE DEF new
  <2>2. TwoChains(new,
                  IF 1 = 1 THEN next[a[1]] ELSE active_list_head,
                  IF 1 # Len(a) THEN active_list_tail
                  ELSE IF 1 = 1 THEN NULL ELSE a[1 - 1],
                  a[1], RemoveAt(a, 1), <<a[1]>> \o b)
    BY <1>1, <1>2, <2>1, TakeFromChain
  <2>3. TwoChains(new, next[a[1]], IF 1 # Len(a) THEN active_list_tail ELSE NULL,
                  a[1], RemoveAt(a, 1), <<a[1]>> \o b)
    BY <2>2
  <2> QED
    BY <2>3 DEF new
<1>9. active_list_tail' = IF 1 # Len(a) THEN active_list_tail ELSE NULL
  BY <1>5, <1>6
<1>10. TwoChains(next', active_list_head', active_list_tail', inactive_list_head',
                 RemoveAt(a, 1), <<a[1]>> \o b)
  BY <1>6, <1>8, <1>9
<1> QED
  BY <1>2, <1>6, <1>10 DEF Takes, a, b

LEMMA DropLaterTakes ==
    ASSUME ListInv, NEW i \in 1..Len(Active), DropLater(Active[i])
    PROVE  Takes(i)
<1> DEFINE a   == Active
           b   == Inactive
           pos == a[i]
           k   == CHOOSE j \in 2..Len(a) : a[j] = pos
<1>1. /\ TwoChains(next, active_list_head, active_list_tail, inactive_list_head, a, b)
      /\ next \in [Nodes -> Nodes \cup {NULL}]
  BY DEF ListInv, TwoChains
<1>2. /\ Len(a) \in Nat /\ a # <<>> /\ active_list_head = a[1]
      /\ active_list_tail = a[Len(a)] /\ Len(a) \in 1..Len(a)
      /\ \A j \in 1..Len(a) : a[j] \in Nodes
      /\ inactive_list_head \in Nodes \cup {NULL}
  <2>1. b # <<>> => inactive_list_head = b[1] /\ 1 \in 1..Len(b)
    BY <1>1, ChainFacts DEF TwoChains, Links
  <2>2. a # <<>>
    BY <1>1, ChainFacts
  <2> QED
    BY <1>1, <2>1, <2>2, ChainFacts DEF TwoChains, Links
<1>3. \A j, l \in 1..Len(a) : a[j] = a[l] => j = l
  BY <1>1 DEF TwoChains, Separate
<1>4. i # 1
  BY <1>2 DEF DropLater
<1>5. /\ i > 1 /\ i \in 2..Len(a) /\ i - 1 \in 1..Len(a)
      /\ (i - 1) + 1 = i /\ i - 1 # Len(a) /\ i - 1 # i
  BY <1>2, <1>4
<1>6. k \in 2..Len(a) /\ a[k] = pos
  BY <1>5
<1> HIDE DEF k
<1>7. k = i
  <2>1. k \in 1..Len(a)
    BY <1>2, <1>6
  <2> QED
    BY <1>3, <1>6, <2>1
<1>8. /\ next' = [next EXCEPT ![a[k - 1]] = next[pos], ![pos] = inactive_list_head]
      /\ active_list_tail' =
           IF active_list_tail = pos THEN a[k - 1] ELSE active_list_tail
      /\ inactive_list_head' = pos
      /\ active_nodes' = active_nodes - 1
      /\ active_list_head' = active_list_head
  BY Zenon DEF DropLater, k
<1>9. a[i - 1] \in Nodes /\ a[i] \in Nodes /\ a[i - 1] # a[i] /\ next[a[i]] \in Nodes \cup {NULL}
  BY <1>1, <1>2, <1>3, <1>5
<1> HIDE DEF a, b
<1>10. next' = [next EXCEPT ![a[i - 1]] = next[a[i]], ![a[i]] = inactive_list_head]
  BY <1>7, <1>8
<1>11. /\ next' \in [Nodes -> Nodes \cup {NULL}]
       /\ next'[a[i]] = inactive_list_head
       /\ next'[a[i - 1]] = next[a[i]]
       /\ \A n \in Nodes : n # a[i] /\ n # a[i - 1] => next'[n] = next[n]
  BY <1>1, <1>2, <1>9, <1>10
<1>12. i \in 1..Len(a)
  BY DEF a
<1>13. TwoChains(next', active_list_head,
                 IF i # Len(a) THEN active_list_tail ELSE a[i - 1],
                 a[i], RemoveAt(a, i), <<a[i]>> \o b)
  BY <1>1, <1>4, <1>11, <1>12, TakeFromChain
<1>14. active_list_tail = a[i] <=> i = Len(a)
  BY <1>2, <1>3, <1>12
<1>15. active_list_tail' = IF i # Len(a) THEN active_list_tail ELSE a[i - 1]
  BY <1>7, <1>8, <1>14
<1>16. TwoChains(next', active_list_head', active_list_tail', inactive_list_head',
                 RemoveAt(a, i), <<a[i]>> \o b)
  BY <1>8, <1>13, <1>15
<1> QED
  BY <1>8, <1>16 DEF Takes, a, b

LEMMA RemovedIsSeq ==
    ASSUME NEW S, NEW l \in Seq(S), NEW i \in 1..Len(l)
    PROVE  RemoveAt(l, i) \in Seq(S) /\ Len(RemoveAt(l, i)) = Len(l) - 1
<1>1. Len(l) \in Nat /\ Len(l) - 1 \in Nat
  OBVIOUS
<1>2. \A j \in 1..(Len(l) - 1) : l[j] \in S /\ l[j + 1] \in S
  BY <1>1
<1> QED
  BY <1>1, <1>2 DEF RemoveAt

LEMMA TakesKeeps ==
    ASSUME ListInv, UNCHANGED <<timed, packet>>, fault' \in BOOLEAN,
           NEW i \in 1..Len(Active), Takes(i)
    PROVE  ListInv' /\ Seen' = RemoveAt(Seen, i) /\ i \in 1..Len(Seen)
<1> DEFINE a == RemoveAt(Active, i)
           b == <<Active[i]>> \o Inactive
<1>1. Active \in Seq(Nodes)
  BY DEF ListInv, TwoChains
<1>2. PacketsOn(packet', a) = RemoveAt(Seen, i)
  BY <1>1, PacketsTaken DEF Seen
<1>3. /\ Seen \in Seq(Packets) /\ Len(Seen) = Len(Active)
      /\ timed => Seen \in Timelines(Packets, NumNodes)
  BY SeenFacts
<1>4. RemoveAt(Seen, i) \in Seq(Packets) /\ i \in 1..Len(Seen)
  BY <1>3, RemovedIsSeq
<1>5. timed => StrictlyOrdered(RemoveAt(Seen, i))
  <2>1. NumNodes \in Nat
    BY NodesAssumption
  <2>2. timed => RemoveAt(Seen, i) \in Timelines(Packets, NumNodes)
    BY <1>3, <1>4, <2>1, RemoveAtKeepsTimeline
  <2> QED
    BY <2>2 DEF Timelines
<1>6. active_nodes' = Len(a)
  BY <1>1, RemovedIsSeq DEF ListInv, Takes
<1>7. TwoChains(next', active_list_head', active_list_tail', inactive_list_head', a, b)
  BY DEF Takes
<1>8. packet' \in [Nodes -> Packets \cup {NoPacket}]
  BY DEF ListInv
<1> HIDE DEF a, b
<1> QED
  BY <1>2, <1>4, <1>5, <1>6, <1>7, <1>8, KeepsListInv

(* PL_drop_executed. *)
LEMMA DropExecutedMoves ==
    ASSUME ListInv, UNCHANGED timed, PL_drop_executed
    PROVE  ListInv' /\ Moves
<1>1. executed_nodes' = executed_nodes + 1 /\ UNCHANGED <<packet, fault>> /\ fault' \in BOOLEAN
  BY DEF PL_drop_executed, ListInv
<1>2. /\ Seen \in Seq(Packets) /\ Len(Seen) = Len(Active)
      /\ (active_list_head = NULL <=> Active = <<>>) /\ (Active = <<>> <=> Len(Active) = 0)
  BY SeenFacts, ChainFacts DEF ListInv
<1>3. CASE active_list_head = NULL
  <2>1. UNCHANGED <<next, inactive_list_head, active_list_head, active_list_tail, active_nodes>>
    BY <1>3 DEF PL_drop_executed
  <2>2. Seen = <<>>
    <3>1. Len(Seen) = 0
      BY <1>2, <1>3
    <3> QED
      BY <1>2, <3>1
  <2>3. TwoChains(next', active_list_head', active_list_tail', inactive_list_head',
                  Active, Inactive)
    BY <2>1 DEF ListInv
  <2>4. ListInv' /\ Seen' = PacketsOn(packet', Active)
    BY <1>1, <2>1, <2>3, KeepsListInv DEF ListInv
  <2>5. Seen' = Seen
    BY <1>1, <2>4 DEF Seen
  <2> QED
    BY <1>1, <2>2, <2>4, <2>5 DEF Moves, DropHead
<1>4. CASE active_list_head # NULL
  <2>1. DropHeadNode
    BY <1>4 DEF PL_drop_executed
  <2>2. 1 \in 1..Len(Active) /\ Takes(1)
    BY <1>4, <2>1, DropHeadTakes
  <2>3. ListInv' /\ Seen' = RemoveAt(Seen, 1)
    BY <1>1, <2>2, TakesKeeps
  <2>4. Seen # <<>>
    BY <1>2, <1>4
  <2>5. Seen' = DropHead(Seen)
    BY <1>2, <2>3, <2>4, FirstTaken DEF DropHead
  <2> QED
    BY <1>1, <2>3, <2>5 DEF Moves
<1> QED
  BY <1>3, <1>4

(* PL_drop_node, of the head and of a later node. *)
LEMMA DropNodeMoves ==
    ASSUME ListInv, UNCHANGED timed, timed, PL_drop_node
    PROVE  ListInv' /\ Moves
<1>1. PICK i \in 1..Len(Active) : DropFirst(Active[i]) \/ DropLater(Active[i])
  BY DEF PL_drop_node
<1>2. UNCHANGED <<packet, executed_nodes>> /\ fault \in BOOLEAN
  BY DEF PL_drop_node, ListInv
<1>3. PICK j \in 1..Len(Active) : Takes(j) /\ fault' \in BOOLEAN
  <2>1. CASE DropFirst(Active[i])
    <3>1. active_list_head # NULL
      BY <2>1, ChainFacts DEF DropFirst, ListInv
    <3>2. 1 \in 1..Len(Active) /\ Takes(1)
      BY <2>1, <3>1, DropHeadTakes DEF DropFirst
    <3>3. fault' \in BOOLEAN
      BY <2>1 DEF DropFirst
    <3> QED
      BY <3>2, <3>3
  <2>2. CASE DropLater(Active[i])
    <3>1. fault' \in BOOLEAN
      BY <1>2, <2>2 DEF DropLater
    <3> QED
      BY <2>2, <3>1, DropLaterTakes
  <2> QED
    BY <1>1, <2>1, <2>2
<1>4. ListInv' /\ Seen' = RemoveAt(Seen, j) /\ j \in 1..Len(Seen)
  BY <1>2, <1>3, TakesKeeps
<1> QED
  BY <1>2, <1>4 DEF Moves

(* PL_clear_list, PL_initialize, and the list as it begins. *)
LEMMA ClearMoves ==
    ASSUME ListInv, UNCHANGED timed, PL_clear_list \/ PL_initialize
    PROVE  ListInv' /\ Moves
<1> DEFINE b == [i \in 1..NumNodes |-> i]
<1>1. /\ next' = FreshLinks /\ active_list_head' = NULL /\ active_list_tail' = NULL
      /\ inactive_list_head' = 1 /\ active_nodes' = 0
  BY DEF PL_clear_list, PL_initialize
<1>2. TwoChains(next', active_list_head', active_list_tail', inactive_list_head', <<>>, b)
  BY <1>1, FreshChain
<1>3. packet' \in [Nodes -> Packets \cup {NoPacket}]
  BY DEF PL_clear_list, PL_initialize, ListInv
<1>4. fault' \in BOOLEAN /\ executed_nodes' \in {executed_nodes, 0}
  BY DEF PL_clear_list, PL_initialize, ListInv
<1>5. /\ PacketsOn(packet', <<>>) = <<>>
      /\ StrictlyOrdered(<<>>)
      /\ Len(<<>>) = 0
  BY DEF PacketsOn, StrictlyOrdered
<1>6. PacketsOn(packet', <<>>) \in Seq(Packets) /\ StrictlyOrdered(PacketsOn(packet', <<>>))
  <2>1. <<>> \in Seq(Packets)
    OBVIOUS
  <2> QED
    BY <1>5, <2>1
<1> HIDE DEF b
<1>7. ListInv' /\ Seen' = PacketsOn(packet', <<>>)
  BY <1>1, <1>2, <1>3, <1>4, <1>5, <1>6, KeepsListInv
<1> QED
  BY <1>4, <1>5, <1>7 DEF Moves

LEMMA ListInvInit == ASSUME ListInit PROVE ListInv /\ Seen = <<>>
<1> DEFINE b == [i \in 1..NumNodes |-> i]
<1>1. TwoChains(next, active_list_head, active_list_tail, inactive_list_head, <<>>, b)
  BY FreshChain DEF ListInit
<1>2. Active = <<>> /\ Inactive = b
  <2> HIDE DEF b
  <2> QED
    BY <1>1, ChainsAre, ChainsRead
<1>3. Seen = <<>> /\ StrictlyOrdered(<<>>) /\ Len(<<>>) = 0
  BY <1>2 DEF Seen, PacketsOn, StrictlyOrdered
<1>4. packet \in [Nodes -> Packets \cup {NoPacket}]
  BY DEF ListInit
<1>5. /\ PacketsOn(packet, Active) \in Seq(Packets)
      /\ StrictlyOrdered(PacketsOn(packet, Active))
  BY <1>3 DEF Seen
<1>6. active_nodes = Len(Active) /\ timed \in BOOLEAN /\ fault \in BOOLEAN
  BY <1>2, <1>3 DEF ListInit
<1> HIDE DEF b
<1> QED
  BY <1>1, <1>2, <1>3, <1>4, <1>5, <1>6 DEF ListInv

LEMMA ListStutters ==
    ASSUME ListInv, UNCHANGED listVars
    PROVE  ListInv' /\ Seen' = Seen
<1>1. Active' = Active /\ Inactive' = Inactive
  BY ChainsRead DEF listVars
<1> QED
  BY <1>1 DEF ListInv, Seen, listVars

LEMMA ListMoves ==
    ASSUME ListInv, ListNext
    PROVE  ListInv' /\ Moves /\ UNCHANGED timed
<1>1. UNCHANGED timed
  BY DEF ListNext
<1>2. CASE timed /\ \E p \in Packets, now \in Now : PL_insert_tl_cmd(p, now)
  BY <1>1, <1>2, InsertMoves
<1>3. CASE timed /\ PL_drop_node
  BY <1>1, <1>3, DropNodeMoves
<1>4. CASE ~timed /\ \E p \in Packets : PL_push_back(p)
  BY <1>1, <1>4, PushBackMoves
<1>5. CASE PL_drop_executed
  BY <1>1, <1>5, DropExecutedMoves
<1>6. CASE PL_clear_list \/ PL_initialize
  BY <1>1, <1>6, ClearMoves
<1> QED
  BY <1>1, <1>2, <1>3, <1>4, <1>5, <1>6 DEF ListNext

(* The chains of nodes stay what the pointers and the links of the stock say:  *)
(* each operation of PacketList.cpp moves at most one node between them.     *)
THEOREM ChainsStay == ListSpec => []ListInv
<1>1. ListInit => ListInv
  BY ListInvInit
<1>2. ListInv /\ [ListNext]_listVars => ListInv'
  BY ListMoves, ListStutters
<1> QED
  BY <1>1, <1>2, PTL DEF ListSpec

LEMMA ChainsLoseNoNode == ASSUME ListInv PROVE NoNodeLost
<1>1. /\ \A i \in 1..Len(Active) : Active[i] \in Nodes
      /\ \A i \in 1..Len(Inactive) : Inactive[i] \in Nodes
      /\ Len(Active) + Len(Inactive) = NumNodes
  BY ChainFacts DEF ListInv
<1>2. \A n \in Nodes : \/ \E i \in 1..Len(Active) : Active[i] = n
                       \/ \E i \in 1..Len(Inactive) : Inactive[i] = n
  BY DEF ListInv, TwoChains, Separate
<1> QED
  BY <1>1, <1>2, Zenon DEF NoNodeLost

(* No node of a packet list is ever lost or on two chains, whatever the size of *)
(* the stock and in whatever order the operations of PacketList.cpp are called. *)
THEOREM NoNodeIsLost == ListSpec => []NoNodeLost
<1>1. ListInv => NoNodeLost
  BY ChainsLoseNoNode
<1> QED
  BY <1>1, ChainsStay, PTL

(* The sequence of PacketQueue is the one that is seen. *)
LEMMA SeenIsQueue ==
    ASSUME ListInv
    PROVE  /\ Seen = [i \in 1..Len(Active) |-> packet[Active[i]]]
           /\ Len(Seen) = active_nodes
<1>1. Len(Seen) = Len(Active)
  BY SeenFacts
<1> QED
  BY <1>1 DEF Seen, PacketsOn, ListInv

LEMMA MovesAreQueueSteps ==
    ASSUME ListInv, ListInv', Moves, UNCHANGED timed
    PROVE  Queue!QueueNext
<1> DEFINE list == [i \in 1..Len(Active) |-> packet[Active[i]]]
<1>1. list = Seen /\ Len(Seen) = active_nodes
  BY SeenIsQueue
<1>2. list' = Seen' /\ Len(Seen') = active_nodes'
  <2>1. list' = Seen'
    BY DEF Seen, PacketsOn
  <2>2. Active' \in Seq(Nodes) /\ active_nodes' = Len(Active')
    BY DEF ListInv, TwoChains
  <2>3. Len(Seen') = Len(Active')
    BY <2>2 DEF Seen, PacketsOn
  <2> QED
    BY <2>1, <2>2, <2>3
<1>3. CASE /\ timed
           /\ \E p \in Packets, now \in Now : Seen' = Insert(Seen, NumNodes, p, now)
           /\ UNCHANGED executed_nodes
  <2>1. PICK p \in Packets, now \in Now : Seen' = Insert(Seen, NumNodes, p, now)
    BY <1>3
  <2>2. Queue!Insert(list, NumNodes, p, now) = Insert(list, NumNodes, p, now)
    BY Zenon DEF Queue!Insert, Insert, Queue!InsertAck, InsertAck, Queue!Times, Times,
                 Queue!InsertAt, InsertAt, Queue!Place, Place
  <2>3. Queue!QueueInsert(p, now)
    BY <1>1, <1>2, <1>3, <2>1, <2>2 DEF Queue!QueueInsert, Queue!Becomes
  <2> QED
    BY <1>3, <2>3 DEF Queue!QueueNext
<1>4. CASE /\ timed
           /\ \E i \in 1..Len(Seen) : Seen' = RemoveAt(Seen, i)
           /\ UNCHANGED executed_nodes
  <2>1. PICK i \in 1..Len(Seen) : Seen' = RemoveAt(Seen, i)
    BY <1>4
  <2>2. Queue!RemoveAt(list, i) = RemoveAt(list, i)
    BY DEF Queue!RemoveAt, RemoveAt
  <2>3. Queue!QueueDropNode
    BY <1>1, <1>2, <1>4, <2>1, <2>2 DEF Queue!QueueDropNode, Queue!Becomes
  <2> QED
    BY <1>4, <2>3 DEF Queue!QueueNext
<1>5. CASE /\ ~timed
           /\ \E p \in Packets : Len(Seen) # NumNodes /\ Seen' = Append(Seen, p)
           /\ UNCHANGED executed_nodes
  <2>1. PICK p \in Packets : Len(Seen) # NumNodes /\ Seen' = Append(Seen, p)
    BY <1>5
  <2>2. Queue!QueuePushBack(p)
    BY <1>1, <1>2, <1>5, <2>1 DEF Queue!QueuePushBack, Queue!Becomes
  <2> QED
    BY <1>5, <2>2 DEF Queue!QueueNext
<1>6. CASE /\ Seen' = DropHead(Seen)
           /\ executed_nodes' = executed_nodes + 1
  <2>1. Queue!DropHead(list) = DropHead(list)
    BY DEF Queue!DropHead, DropHead
  <2>2. Queue!QueueDropExecuted
    BY <1>1, <1>2, <1>6, <2>1 DEF Queue!QueueDropExecuted, Queue!Becomes
  <2> QED
    BY <2>2 DEF Queue!QueueNext
<1>7. CASE /\ Seen' = <<>>
           /\ executed_nodes' \in {executed_nodes, 0}
  <2>1. Queue!QueueClear
    BY <1>1, <1>2, <1>7 DEF Queue!QueueClear, Queue!Becomes
  <2> QED
    BY <2>1 DEF Queue!QueueNext
<1> QED
  BY <1>3, <1>4, <1>5, <1>6, <1>7 DEF Moves

(* The linked nodes implement the sequence of packets: each operation of          *)
(* PacketList.cpp does to its chain what PacketQueue promises to the dispatchers. *)
THEOREM NodesImplementQueue == ListSpec => ImplementsQueue
<1>1. ListInit => Queue!QueueInit
  <2> SUFFICES ASSUME ListInit PROVE Queue!QueueInit
    OBVIOUS
  <2>1. Seen = <<>> /\ Seen = [i \in 1..Len(Active) |-> packet[Active[i]]]
    BY ListInvInit, SeenIsQueue
  <2> QED
    BY <2>1 DEF ListInit, Queue!QueueInit
<1>2. ListInv /\ ListInv' /\ [ListNext]_listVars => [Queue!QueueNext]_(Queue!queueVars)
  <2>1. ASSUME ListInv, ListInv', ListNext
        PROVE  Queue!QueueNext
    BY <2>1, ListMoves, MovesAreQueueSteps
  <2>2. ASSUME ListInv, ListInv', UNCHANGED listVars
        PROVE  UNCHANGED Queue!queueVars
    <3>1. Seen' = Seen
      BY <2>2, ListStutters
    <3>2. [i \in 1..Len(Active) |-> packet[Active[i]]]'
            = [i \in 1..Len(Active) |-> packet[Active[i]]]
      BY <3>1 DEF Seen, PacketsOn
    <3> QED
      BY <2>2, <3>2 DEF Queue!queueVars, listVars
  <2> QED
    BY <2>1, <2>2
<1> QED
  BY <1>1, <1>2, ChainsStay, PTL DEF ListSpec, ImplementsQueue, Queue!QueueSpec

-------------------------------------------------------------------------------
(* The timeline. *)

(* The inductive invariant of the timeline: the list is a timeline of packets (which is what *)
(* TimelineInOrder says of a sequence of packets) and the cycle a time.      *)
IInv ==
    /\ master \in Time
    /\ tl_cmd_list \in Timelines(Packet, TL_CMD_LIST_MAX)
    /\ halted \in BOOLEAN
    /\ called \in BOOLEAN
    /\ overtaken \in 0..TL_CMD_LIST_MAX
    /\ jumped \in BOOLEAN

LEMMA PacketsArePackets == IsPacketSet(Packet)
<1> SUFFICES ASSUME NEW c \in Command, NEW t0 \in Time, NEW t \in Time
             PROVE  /\ At(c, t0).time \in Time
                    /\ [At(c, t0) EXCEPT !.time = t] = At(c, t)
                    /\ At(c, t).time = t
  BY DEF IsPacketSet, Packet
<1> QED
  BY DEF At

(* The commands of list that are more than n cycles late in the cycle m. *)
LateBy(list, m, n) == {t \in Times(list) : t + n < m}

(* There are no more of them than nodes of the list. *)
LEMMA LateAreFew ==
    ASSUME NEW list \in Timelines(Packet, TL_CMD_LIST_MAX), NEW m, NEW n
    PROVE  /\ IsFiniteSet(LateBy(list, m, n))
           /\ Cardinality(LateBy(list, m, n)) \in 0..TL_CMD_LIST_MAX
<1> DEFINE f == [i \in 1..Len(list) |-> list[i].time]
<1>1. Len(list) \in Nat /\ Len(list) <= TL_CMD_LIST_MAX /\ TL_CMD_LIST_MAX \in Nat
  BY TimelineAssumption DEF Timelines
<1>2. f \in Surjection(1..Len(list), Times(list))
  BY DEF Surjection, Times
<1>3. IsFiniteSet(1..Len(list)) /\ Cardinality(1..Len(list)) = Len(list)
  <2>1. ASSUME NEW k \in Nat
        PROVE  IsFiniteSet(1..k) /\ Cardinality(1..k) = k
    <3>1. /\ IsFiniteSet(1..k)
          /\ Cardinality(1..k) = IF 1 > k THEN 0 ELSE k - 1 + 1
      BY FS_Interval
    <3>2. (IF 1 > k THEN 0 ELSE k - 1 + 1) = k
      OBVIOUS
    <3> QED
      BY <3>1, <3>2
  <2> QED
    BY <1>1, <2>1
<1> HIDE DEF f
<1>4. IsFiniteSet(Times(list)) /\ Cardinality(Times(list)) <= Cardinality(1..Len(list))
  BY <1>2, <1>3, FS_Surjection
<1>5. LateBy(list, m, n) \in SUBSET Times(list)
  BY DEF LateBy
<1>6. /\ IsFiniteSet(LateBy(list, m, n))
      /\ Cardinality(LateBy(list, m, n)) <= Cardinality(Times(list))
  BY <1>4, <1>5, FS_Subset
<1>7. Cardinality(LateBy(list, m, n)) \in Nat /\ Cardinality(Times(list)) \in Nat
  BY <1>4, <1>6, FS_CardinalityType
<1> QED
  BY <1>1, <1>3, <1>4, <1>6, <1>7

LEMMA BehindIsLate == \A n : Behind(n) = LateBy(tl_cmd_list, master, n)
BY DEF Behind, LateBy

(* The arguments of the commands that have one, on the timeline too. *)
LEMMA CommandArguments ==
    ASSUME NEW c \in Command \cup Packet
    PROVE  /\ c.code = "DEPLOY_BLOCK" => c.arg \in DOMAIN Block
           /\ c.code = "SET_OBC_TIME" => c.arg \in Time
<1>1. ASSUME NEW d \in Command
      PROVE  /\ d.code = "DEPLOY_BLOCK" => d.arg \in DOMAIN Block
             /\ d.code = "SET_OBC_TIME" => d.arg \in Time
  BY TimelineAssumption DEF Command, Deploying, Clearing, Setting, Plain
<1> QED
  BY <1>1 DEF Packet, At

(* What executing a command leaves, when it finds a timeline. *)
LEMMA ExecuteKeepsTimeline ==
    ASSUME IInv, NEW list \in Timelines(Packet, TL_CMD_LIST_MAX),
           NEW c \in Command \cup Packet, Execute(list, c)
    PROVE  /\ master' \in Time
           /\ tl_cmd_list' \in Timelines(Packet, TL_CMD_LIST_MAX)
           /\ halted' \in BOOLEAN
           /\ overtaken' \in 0..TL_CMD_LIST_MAX
           /\ jumped' \in BOOLEAN
<1>0. TL_CMD_LIST_MAX \in Nat
  BY TimelineAssumption
<1>1. CASE c.code = "DEPLOY_BLOCK" /\ Cmd_DEPLOY_BLOCK(list, c.arg)
  <2>1. Block[c.arg].cmds \in Seq(Packet)
    BY <1>1, CommandArguments, TimelineAssumption
  <2>2. Deploy(list, TL_CMD_LIST_MAX, Block[c.arg].cmds, master).list
          \in Timelines(Packet, TL_CMD_LIST_MAX)
    BY <1>0, <2>1, PacketsArePackets, DeployKeepsTimeline DEF IInv
  <2>3. DeployBlock(list, TL_CMD_LIST_MAX, Block[c.arg], master).list
          \in Timelines(Packet, TL_CMD_LIST_MAX)
    BY <2>2 DEF DeployBlock
  <2> QED
    BY <1>1, <2>3 DEF Cmd_DEPLOY_BLOCK, IInv
<1>2. CASE c.code = "CLEAR_ALL_TIMELINE" /\ Cmd_CLEAR_ALL_TIMELINE
  BY <1>0, <1>2, EmptyIsTimeline DEF Cmd_CLEAR_ALL_TIMELINE, IInv
<1>3. CASE c.code = "CLEAR_TIMELINE_AT" /\ Cmd_CLEAR_TIMELINE_AT(list, c.arg)
  BY <1>0, <1>3, RemoveAtKeepsTimeline DEF Cmd_CLEAR_TIMELINE_AT, IInv
<1>4. CASE c.code = "SET_OBC_TIME" /\ Cmd_SET_OBC_TIME(list, c.arg)
  <2>1. tl_cmd_list' = list /\ master' \in Time /\ jumped' = TRUE /\ UNCHANGED halted
    BY <1>4, CommandArguments DEF Cmd_SET_OBC_TIME
  <2>2. Behind(0)' = LateBy(tl_cmd_list', master', 0)
    BY DEF Behind, LateBy
  <2>3. Cardinality(LateBy(tl_cmd_list', master', 0)) \in 0..TL_CMD_LIST_MAX
    BY <2>1, LateAreFew
  <2>4. overtaken' = Cardinality(Behind(0)')
    BY <1>4 DEF Cmd_SET_OBC_TIME
  <2> QED
    BY <2>1, <2>2, <2>3, <2>4 DEF IInv
<1>5. CASE /\ c.code \in Other
           /\ tl_cmd_list' = list
           /\ UNCHANGED <<master, halted, overtaken, jumped>>
  BY <1>5 DEF IInv
<1> QED
  BY <1>1, <1>2, <1>3, <1>4, <1>5 DEF Execute

(* What the clock does at the end of a cycle. *)
LEMMA NextCycleIs ==
    ASSUME master \in Time
    PROVE  NextCycle \in Time /\ NextCycle \in {0, master + 1}
<1>1. CycleSpan \in Nat \ {0} /\ master \in 0..(CycleSpan - 1)
  BY CycleSpanPositive DEF Time
<1>2. (master + 1) % CycleSpan = IF master + 1 = CycleSpan THEN 0 ELSE master + 1
  BY <1>1
<1> QED
  BY <1>1, <1>2 DEF NextCycle, Time

LEMMA StepKeepsIInv == ASSUME IInv, [Next]_vars PROVE IInv'
<1>0. TL_CMD_LIST_MAX \in Nat
  BY TimelineAssumption
<1>1. CASE Tick
  <2> DEFINE late == Cardinality(Behind(0))
  <2>1. late \in 0..TL_CMD_LIST_MAX
    BY BehindIsLate, LateAreFew DEF IInv
  <2> HIDE DEF late
  <2>2. overtaken' = IF late < overtaken THEN late ELSE overtaken
    BY <1>1 DEF Tick, late
  <2>3. overtaken' \in 0..TL_CMD_LIST_MAX
    BY <2>1, <2>2 DEF IInv
  <2>4. master' \in Time
    BY <1>1, NextCycleIs DEF Tick, IInv
  <2> QED
    BY <1>1, <2>3, <2>4 DEF Tick, IInv
<1>2. ASSUME NEW c \in Immediate, GroundCommand(c)
      PROVE  IInv'
  <2>1. c \in Command
    BY TimelineAssumption
  <2>2. called' = called /\ Execute(tl_cmd_list, c)
    BY <1>2 DEF GroundCommand
  <2> QED
    BY <2>1, <2>2, ExecuteKeepsTimeline DEF IInv
<1>3. ASSUME NEW c \in Registered, NEW t \in RegisteredFor, GroundRegister(c, t)
      PROVE  IInv'
  <2>1. At(c, t) \in Packet
    BY TimelineAssumption DEF Packet
  <2>2. Insert(tl_cmd_list, TL_CMD_LIST_MAX, At(c, t), master)
          \in Timelines(Packet, TL_CMD_LIST_MAX)
    BY <1>0, <2>1, PacketsArePackets, InsertKeepsTimeline DEF IInv
  <2> QED
    BY <1>3, <2>2 DEF GroundRegister, IInv
<1>4. CASE Call
  <2>1. CASE Check(tl_cmd_list, master) = "PL_TLC_NOT_YET"
    BY <1>4, <2>1 DEF Call, IInv
  <2>2. CASE Check(tl_cmd_list, master) # "PL_TLC_NOT_YET"
    <3>1. tl_cmd_list \in Seq(Packet) /\ tl_cmd_list # <<>>
      BY <2>2 DEF Check, Timelines, IInv
    <3>2. Head(tl_cmd_list) \in Packet
      BY <3>1
    <3>3. DropHead(tl_cmd_list) \in Timelines(Packet, TL_CMD_LIST_MAX)
      BY <1>0, DropHeadKeepsTimeline DEF IInv
    <3>4. Execute(DropHead(tl_cmd_list), Head(tl_cmd_list)) /\ called' = TRUE
      BY <1>4, <2>2 DEF Call
    <3> QED
      BY <3>2, <3>3, <3>4, ExecuteKeepsTimeline DEF IInv
  <2> QED
    BY <2>1, <2>2
<1>5. CASE Restart
  <2>1. 0 \in Time /\ RebootCycle \in Time
    BY TimelineAssumption, CycleSpanPositive DEF Time
  <2> DEFINE late == master' # 0
  <2>2. late \in BOOLEAN
    OBVIOUS
  <2> HIDE DEF late
  <2>3. /\ master' \in {0, RebootCycle}
        /\ tl_cmd_list' = <<>>
        /\ halted' = FALSE
        /\ overtaken' = 0
        /\ jumped' = FALSE
    BY <1>5 DEF Restart
  <2>4. called' = late
    BY <1>5, Zenon DEF Restart, late
  <2>5. called' \in BOOLEAN
    BY <2>2, <2>4, Zenon
  <2>6. master' \in Time /\ overtaken' \in 0..TL_CMD_LIST_MAX
    BY <1>0, <2>1, <2>3
  <2>7. <<>> \in Timelines(Packet, TL_CMD_LIST_MAX)
    BY <1>0, EmptyIsTimeline
  <2>8. /\ tl_cmd_list' \in Timelines(Packet, TL_CMD_LIST_MAX)
        /\ halted' \in BOOLEAN
        /\ jumped' \in BOOLEAN
    BY <2>3, <2>7
  <2> QED
    BY <2>5, <2>6, <2>8, Zenon DEF IInv
<1>6. CASE UNCHANGED vars
  BY <1>6 DEF vars, IInv
<1> QED
  BY <1>1, <1>2, <1>3, <1>4, <1>5, <1>6 DEF Next

LEMMA Invariance == Spec => []IInv
<1>1. Init => IInv
  <2>1. <<>> \in Timelines(Packet, TL_CMD_LIST_MAX)
    BY TimelineAssumption, EmptyIsTimeline
  <2>2. 0 \in Time /\ RebootCycle \in Time /\ 0 \in 0..TL_CMD_LIST_MAX
    BY TimelineAssumption, CycleSpanPositive DEF Time
  <2> QED
    BY <2>1, <2>2 DEF Init, IInv
<1> QED
  BY <1>1, StepKeepsIInv, PTL DEF Spec

(* The variables hold values of the right kind: in particular every command   *)
(* that waits on the timeline is one that was registered or is in a block,     *)
(* with a time of 32 bits.                                                    *)
THEOREM TypeCorrect == Spec => []TypeOK
<1>1. IInv => TypeOK
  BY DEF IInv, TypeOK, Timelines
<1> QED
  BY <1>1, Invariance, PTL

(* The timeline is in strict order of time and within its nodes, whatever the *)
(* sizes, the blocks and the commands: registrations (PL_insert_tl_cmd),       *)
(* deployments with their retries (PL_deploy_block_cmd), drops from the head   *)
(* and from the middle, and clears all leave it so.                           *)
THEOREM Ordered == Spec => []TimelineInOrder
<1>1. IInv => TimelineInOrder
  BY DEF IInv, TimelineInOrder, Timelines
<1> QED
  BY <1>1, Invariance, PTL

-------------------------------------------------------------------------------
(* How late a command can be.  BacklogOfSettings is inductive on timelines: no    *)
(* step adds a command that is late, a cycle makes one more late at the most, and *)
(* a call takes the head, which is the latest.                                  *)

LEMMA RemoveAtMembers ==
    ASSUME NEW list \in Seq(Packet), NEW i \in 1..Len(list)
    PROVE  Members(RemoveAt(list, i)) \subseteq Members(list)
<1> DEFINE new == RemoveAt(list, i)
<1>1. Len(list) \in Nat /\ Len(list) - 1 \in Nat
  OBVIOUS
<1>2. /\ DOMAIN new = 1..(Len(list) - 1)
      /\ \A j \in 1..(Len(list) - 1) : new[j] = IF j < i THEN list[j] ELSE list[j + 1]
      /\ new \in [1..(Len(list) - 1) -> Packet]
  BY <1>1 DEF RemoveAt
<1> HIDE DEF new
<1>3. Len(new) = Len(list) - 1
  BY <1>1, <1>2
<1>4. ASSUME NEW j \in 1..Len(new)
      PROVE  new[j] \in Members(list)
  <2>1. CASE j < i
    BY <1>1, <1>2, <1>3, <2>1 DEF Members
  <2>2. CASE j >= i
    <3>1. j + 1 \in 1..Len(list) /\ new[j] = list[j + 1]
      BY <1>1, <1>2, <1>3, <2>2
    <3> QED
      BY <3>1 DEF Members
  <2> QED
    BY <1>1, <2>1, <2>2
<1> QED
  BY <1>4 DEF Members, new

(* Unless it sets the clock, a command puts nothing on the timeline that is past. *)
LEMMA ExecuteMembers ==
    ASSUME IInv, NEW list \in Timelines(Packet, TL_CMD_LIST_MAX),
           NEW c \in Command \cup Packet, Execute(list, c)
    PROVE  \/ /\ UNCHANGED <<master, overtaken>>
              /\ Members(tl_cmd_list') \subseteq Members(list) \cup NotPast(Packet, master)
           \/ overtaken' = Cardinality(LateBy(tl_cmd_list', master', 0))
<1>0. TL_CMD_LIST_MAX \in Nat
  BY TimelineAssumption
<1>1. CASE c.code = "DEPLOY_BLOCK" /\ Cmd_DEPLOY_BLOCK(list, c.arg)
  <2>1. Block[c.arg].cmds \in Seq(Packet)
    BY <1>1, CommandArguments, TimelineAssumption
  <2>2. Members(Deploy(list, TL_CMD_LIST_MAX, Block[c.arg].cmds, master).list)
          \subseteq Members(list) \cup NotPast(Packet, master)
    BY <1>0, <2>1, PacketsArePackets, DeployMembers DEF IInv
  <2>3. Members(DeployBlock(list, TL_CMD_LIST_MAX, Block[c.arg], master).list)
          \subseteq Members(list) \cup NotPast(Packet, master)
    BY <2>2 DEF DeployBlock
  <2> QED
    BY <1>1, <2>3 DEF Cmd_DEPLOY_BLOCK
<1>2. CASE c.code = "CLEAR_ALL_TIMELINE" /\ Cmd_CLEAR_ALL_TIMELINE
  <2>1. tl_cmd_list' = <<>> /\ UNCHANGED <<master, overtaken>>
    BY <1>2 DEF Cmd_CLEAR_ALL_TIMELINE
  <2> QED
    BY <2>1 DEF Members
<1>3. CASE c.code = "CLEAR_TIMELINE_AT" /\ Cmd_CLEAR_TIMELINE_AT(list, c.arg)
  <2>1. \A i \in 1..Len(list) : Members(RemoveAt(list, i)) \subseteq Members(list)
    BY RemoveAtMembers DEF Timelines
  <2> QED
    BY <1>3, <2>1 DEF Cmd_CLEAR_TIMELINE_AT
<1>4. CASE c.code = "SET_OBC_TIME" /\ Cmd_SET_OBC_TIME(list, c.arg)
  <2>1. overtaken' = Cardinality(Behind(0)')
    BY <1>4 DEF Cmd_SET_OBC_TIME
  <2>2. Behind(0)' = LateBy(tl_cmd_list', master', 0)
    BY DEF Behind, LateBy
  <2> QED
    BY <2>1, <2>2
<1>5. CASE /\ c.code \in Other
           /\ tl_cmd_list' = list
           /\ UNCHANGED <<master, halted, overtaken, jumped>>
  BY <1>5
<1> QED
  BY <1>1, <1>2, <1>3, <1>4, <1>5 DEF Execute

(* BacklogOfSettings, of a list, a cycle and a bound. *)
Backlog(list, m, bound, c) ==
    /\ Cardinality(LateBy(list, m, 1)) <= bound
    /\ c => Cardinality(LateBy(list, m, 0)) <= bound

LEMMA BacklogIs == BacklogOfSettings <=> Backlog(tl_cmd_list, master, overtaken, called)
BY BehindIsLate DEF BacklogOfSettings, Backlog

LEMMA TimesOfMembers ==
    ASSUME NEW list \in Timelines(Packet, TL_CMD_LIST_MAX)
    PROVE  /\ \A t \in Times(list) : t \in Nat
           /\ \A t : t \in Times(list) <=> \E p \in Members(list) : p.time = t
<1>1. \A p \in Packet : p.time \in Nat
  BY PacketsArePackets, TimeInNat DEF IsPacketSet
<1> QED
  BY <1>1 DEF Times, Members, Timelines

(* A list with nothing new that is past has no more late commands. *)
LEMMA LateFromBefore ==
    ASSUME NEW m \in Time, NEW n \in {0, 1},
           NEW list \in Timelines(Packet, TL_CMD_LIST_MAX),
           NEW new \in Timelines(Packet, TL_CMD_LIST_MAX),
           Members(new) \subseteq Members(list) \cup NotPast(Packet, m)
    PROVE  Cardinality(LateBy(new, m, n)) <= Cardinality(LateBy(list, m, n))
<1>1. m \in Nat
  BY TimeInNat
<1>2. ASSUME NEW t \in LateBy(new, m, n)
      PROVE  t \in LateBy(list, m, n)
  <2>1. t \in Times(new) /\ t \in Nat /\ t + n < m
    BY TimesOfMembers DEF LateBy
  <2>2. PICK p \in Members(new) : p.time = t
    BY <2>1, TimesOfMembers
  <2>3. ~(p.time >= m)
    BY <1>1, <2>1, <2>2
  <2>4. p \in Members(list)
    BY <2>3 DEF NotPast
  <2>5. t \in Times(list)
    BY <2>2, <2>4, TimesOfMembers
  <2> QED
    BY <2>1, <2>5 DEF LateBy
<1>3. LateBy(new, m, n) \in SUBSET LateBy(list, m, n)
  BY <1>2
<1> QED
  BY <1>3, LateAreFew, FS_Subset

(* What is more than a cycle late is late. *)
LEMMA LateIsLate ==
    ASSUME NEW m \in Time, NEW list \in Timelines(Packet, TL_CMD_LIST_MAX)
    PROVE  Cardinality(LateBy(list, m, 1)) <= Cardinality(LateBy(list, m, 0))
<1>1. LateBy(list, m, 1) \in SUBSET LateBy(list, m, 0)
  BY TimesOfMembers, TimeInNat DEF LateBy
<1> QED
  BY <1>1, LateAreFew, FS_Subset

(* A cycle makes late what was due, and nothing when the counter turns over. *)
LEMMA LateAfterTick ==
    ASSUME NEW m \in Time, NEW list \in Timelines(Packet, TL_CMD_LIST_MAX)
    PROVE  /\ LateBy(list, m + 1, 1) = LateBy(list, m, 0)
           /\ LateBy(list, 0, 1) = {}
<1>1. /\ \A t \in Times(list) : t \in Nat
      /\ m \in Nat
  BY TimesOfMembers, TimeInNat
<1> QED
  BY <1>1 DEF LateBy

(* The head is the latest: a call that finds no more than bound commands a cycle   *)
(* late leaves no more than bound late.                                           *)
LEMMA BehindTheHead ==
    ASSUME NEW list \in Timelines(Packet, TL_CMD_LIST_MAX), NEW m \in Time,
           NEW bound \in Nat, Cardinality(LateBy(list, m, 1)) <= bound
    PROVE  IF Check(list, m) = "PL_TLC_NOT_YET"
           THEN Cardinality(LateBy(list, m, 0)) <= bound
           ELSE Cardinality(LateBy(DropHead(list), m, 0)) <= bound
<1>1. /\ list \in Seq(Packet) /\ Len(list) \in Nat /\ StrictlyOrdered(list)
      /\ m \in Nat /\ \A i \in 1..Len(list) : list[i].time \in Nat
  <2>1. \A p \in Packet : p.time \in Nat
    BY PacketsArePackets, TimeInNat DEF IsPacketSet
  <2> QED
    BY <2>1, TimeInNat DEF Timelines
<1>2. Cardinality({}) = 0
  BY FS_EmptySet
<1>3. CASE list = <<>>
  <2>1. LateBy(list, m, 0) = {} /\ Check(list, m) = "PL_TLC_NOT_YET"
    BY <1>3 DEF LateBy, Times, Check
  <2> QED
    BY <1>2, <2>1
<1>4. CASE list # <<>>
  <2>1. Head(list) = list[1] /\ 1 \in 1..Len(list)
    BY <1>1, <1>4
  <2>2. \A i \in 2..Len(list) : list[1].time < list[i].time
    BY <1>1, <2>1 DEF StrictlyOrdered
  <2>3. CASE m < list[1].time
    <3>1. \A i \in 1..Len(list) : ~(list[i].time + 0 < m)
      BY <1>1, <2>1, <2>2, <2>3
    <3>2. LateBy(list, m, 0) = {}
      BY <3>1 DEF LateBy, Times
    <3>3. Cardinality(LateBy(list, m, 0)) <= bound
      BY <1>2, <3>2
    <3>4. Check(list, m) = "PL_TLC_NOT_YET"
      BY <2>1, <2>3 DEF Check
    <3> QED
      BY <3>3, <3>4
  <2>4. CASE ~(m < list[1].time)
    <3> DEFINE h == list[1].time
               rest == DropHead(list)
    <3>1. Check(list, m) # "PL_TLC_NOT_YET"
      BY <1>4, <2>1, <2>4 DEF Check
    <3>2. /\ Len(rest) = Len(list) - 1
          /\ \A i \in 1..Len(rest) : rest[i] = list[i + 1]
      BY <1>1, <1>4 DEF DropHead
    <3>3. \A t \in Times(rest) : t \in Nat /\ t \in Times(list) /\ h < t
      <4>1. ASSUME NEW i \in 1..Len(rest)
            PROVE  /\ i + 1 \in 2..Len(list)
                   /\ rest[i].time = list[i + 1].time
        BY <1>1, <3>2
      <4> QED
        BY <1>1, <2>2, <4>1 DEF Times
    <3>4. h \in Nat /\ h \in Times(list)
      BY <1>1, <2>1 DEF Times
    <3>5. rest \in Timelines(Packet, TL_CMD_LIST_MAX)
      BY TimelineAssumption, DropHeadKeepsTimeline
    <3> HIDE DEF rest, h
    <3>6. CASE h + 1 < m
      <4> DEFINE Late1 == LateBy(list, m, 1)
                 Others == Late1 \ {h}
      <4>1. h \in Late1
        BY <3>4, <3>6 DEF LateBy
      <4>2. LateBy(rest, m, 0) \subseteq Others \cup {m - 1}
        BY <1>1, <3>3 DEF LateBy
      <4>3. IsFiniteSet(Late1) /\ Cardinality(Late1) \in Nat
        BY LateAreFew
      <4>4. Cardinality(Late1) <= bound
        OBVIOUS
      <4> HIDE DEF Late1
      <4>5. IsFiniteSet(Others) /\ Cardinality(Others) = Cardinality(Late1) - 1
        BY <4>1, <4>3, FS_RemoveElement
      <4> HIDE DEF Others
      <4>6. /\ IsFiniteSet(Others \cup {m - 1})
            /\ Cardinality(Others \cup {m - 1}) <= Cardinality(Others) + 1
        <5>1. Cardinality(Others) \in Nat
          BY <4>5, FS_CardinalityType
        <5>2. /\ IsFiniteSet(Others \cup {m - 1})
              /\ Cardinality(Others \cup {m - 1})
                   = IF m - 1 \in Others THEN Cardinality(Others) ELSE Cardinality(Others) + 1
          BY <4>5, FS_AddElement
        <5> QED
          BY <5>1, <5>2
      <4>7. Cardinality(LateBy(rest, m, 0)) <= Cardinality(Others \cup {m - 1})
        BY <4>2, <4>6, FS_Subset
      <4>8. /\ Cardinality(LateBy(rest, m, 0)) \in Nat
            /\ Cardinality(Others \cup {m - 1}) \in Nat
        BY <3>5, <4>6, LateAreFew, FS_CardinalityType
      <4> QED
        BY <3>1, <4>3, <4>4, <4>5, <4>6, <4>7, <4>8 DEF rest
    <3>7. CASE ~(h + 1 < m)
      <4>0. \A t \in Times(rest) : ~(t + 0 < m)
        BY <1>1, <3>3, <3>4, <3>7
      <4>1. LateBy(rest, m, 0) = {}
        BY <4>0 DEF LateBy
      <4> QED
        BY <1>2, <3>1, <4>1 DEF rest
    <3> QED
      BY <3>6, <3>7
  <2> QED
    BY <2>3, <2>4
<1> QED
  BY <1>3, <1>4

(* A command keeps the bound, whether it sets the clock or not. *)
LEMMA ExecuteKeepsBacklog ==
    ASSUME IInv, IInv', NEW list \in Timelines(Packet, TL_CMD_LIST_MAX),
           NEW c \in Command \cup Packet, Execute(list, c), NEW was \in BOOLEAN,
           Backlog(list, master, overtaken, was)
    PROVE  Backlog(tl_cmd_list', master', overtaken', was)
<1>1. /\ master \in Time /\ master' \in Time
      /\ tl_cmd_list' \in Timelines(Packet, TL_CMD_LIST_MAX)
      /\ overtaken \in Nat /\ overtaken' \in Nat
  BY TimelineAssumption DEF IInv
<1>2. CASE /\ UNCHANGED <<master, overtaken>>
           /\ Members(tl_cmd_list') \subseteq Members(list) \cup NotPast(Packet, master)
  <2>1. /\ Cardinality(LateBy(tl_cmd_list', master, 0)) <= Cardinality(LateBy(list, master, 0))
        /\ Cardinality(LateBy(tl_cmd_list', master, 1)) <= Cardinality(LateBy(list, master, 1))
    BY <1>1, <1>2, LateFromBefore
  <2>2. \A l \in Timelines(Packet, TL_CMD_LIST_MAX), n \in {0, 1} :
          Cardinality(LateBy(l, master, n)) \in 0..TL_CMD_LIST_MAX
    BY LateAreFew
  <2>3. TL_CMD_LIST_MAX \in Nat
    BY TimelineAssumption
  <2> QED
    BY <1>1, <1>2, <2>1, <2>2, <2>3 DEF Backlog
<1>3. CASE overtaken' = Cardinality(LateBy(tl_cmd_list', master', 0))
  <2>1. Cardinality(LateBy(tl_cmd_list', master', 1)) <= overtaken'
    BY <1>1, <1>3, LateIsLate
  <2> QED
    BY <1>1, <1>3, <2>1 DEF Backlog
<1> QED
  BY <1>2, <1>3, ExecuteMembers

LEMMA StepKeepsBacklog ==
    ASSUME IInv, BacklogOfSettings, [Next]_vars
    PROVE  BacklogOfSettings'
<1>0. /\ TL_CMD_LIST_MAX \in Nat /\ master \in Time /\ overtaken \in Nat
      /\ tl_cmd_list \in Timelines(Packet, TL_CMD_LIST_MAX)
      /\ tl_cmd_list \in Seq(Packet)
      /\ IInv'
  BY TimelineAssumption, StepKeepsIInv DEF IInv, Timelines
<1>1. Backlog(tl_cmd_list, master, overtaken, called)
  BY BacklogIs
<1> DEFINE Held == Backlog(tl_cmd_list, master, overtaken, called)
<1>2. (BacklogOfSettings <=> Held)'
  BY BacklogIs, PTL
<1>3. CASE Tick
  <2> DEFINE late == Cardinality(LateBy(tl_cmd_list, master, 0))
  <2>1. late <= overtaken /\ tl_cmd_list' = tl_cmd_list /\ called' = FALSE
    BY <1>1, <1>3 DEF Tick, Backlog
  <2>2. late \in Nat
    BY <1>0, LateAreFew
  <2>3. Cardinality(Behind(0)) = late
    BY BehindIsLate
  <2>4. overtaken' = IF late < overtaken THEN late ELSE overtaken
    BY <1>3, <2>3 DEF Tick
  <2>5. master' \in {0, master + 1}
    BY <1>0, <1>3, NextCycleIs DEF Tick
  <2>6. Cardinality(LateBy(tl_cmd_list, master', 1)) \in {0, late}
    BY <1>0, <2>5, LateAfterTick, FS_EmptySet
  <2> HIDE DEF late
  <2>7. Cardinality(LateBy(tl_cmd_list, master', 1)) <= overtaken'
    BY <1>0, <2>1, <2>2, <2>4, <2>6
  <2> QED
    BY <1>2, <2>1, <2>7 DEF Backlog
<1>4. ASSUME NEW c \in Immediate, GroundCommand(c)
      PROVE  BacklogOfSettings'
  <2>1. c \in Command /\ Execute(tl_cmd_list, c) /\ called' = called /\ called \in BOOLEAN
    BY <1>4, TimelineAssumption DEF GroundCommand, IInv
  <2>2. Backlog(tl_cmd_list', master', overtaken', called)
    BY <1>0, <1>1, <2>1, ExecuteKeepsBacklog
  <2> QED
    BY <1>2, <2>1, <2>2
<1>5. ASSUME NEW c \in Registered, NEW t \in RegisteredFor, GroundRegister(c, t)
      PROVE  BacklogOfSettings'
  <2> DEFINE p == At(c, t)
  <2>1. p \in Packet
    BY TimelineAssumption DEF Packet
  <2> HIDE DEF p
  <2>2. Members(Insert(tl_cmd_list, TL_CMD_LIST_MAX, p, master))
          \subseteq Members(tl_cmd_list) \cup NotPast(Packet, master)
    BY <1>0, <2>1, PacketsArePackets, InsertMembers DEF NotPast
  <2>3. /\ tl_cmd_list' = Insert(tl_cmd_list, TL_CMD_LIST_MAX, p, master)
        /\ UNCHANGED <<master, called, overtaken>>
    BY <1>5 DEF GroundRegister, p
  <2>4. tl_cmd_list' \in Timelines(Packet, TL_CMD_LIST_MAX)
    BY <1>0 DEF IInv
  <2>5. /\ Cardinality(LateBy(tl_cmd_list', master, 0))
             <= Cardinality(LateBy(tl_cmd_list, master, 0))
        /\ Cardinality(LateBy(tl_cmd_list', master, 1))
             <= Cardinality(LateBy(tl_cmd_list, master, 1))
    BY <1>0, <2>2, <2>3, <2>4, LateFromBefore
  <2>6. \A l \in Timelines(Packet, TL_CMD_LIST_MAX), n \in {0, 1} :
          Cardinality(LateBy(l, master, n)) \in 0..TL_CMD_LIST_MAX
    BY LateAreFew
  <2>7. Backlog(tl_cmd_list', master', overtaken', called')
    BY <1>0, <1>1, <2>3, <2>4, <2>5, <2>6 DEF Backlog
  <2> QED
    BY <1>2, <2>7
<1>6. CASE Call
  <2>1. called' = TRUE
    BY <1>6 DEF Call
  <2>2. CASE Check(tl_cmd_list, master) = "PL_TLC_NOT_YET"
    <3>1. Cardinality(LateBy(tl_cmd_list, master, 0)) <= overtaken
      BY <1>0, <1>1, <2>2, BehindTheHead DEF Backlog
    <3>2. UNCHANGED <<tl_cmd_list, master, overtaken>>
      BY <1>6, <2>2 DEF Call
    <3> QED
      BY <1>1, <1>2, <3>1, <3>2 DEF Backlog
  <2>3. CASE Check(tl_cmd_list, master) # "PL_TLC_NOT_YET"
    <3> DEFINE rest == DropHead(tl_cmd_list)
               head == Head(tl_cmd_list)
    <3>1. tl_cmd_list # <<>>
      BY <2>3 DEF Check
    <3>2. head \in Packet
      BY <1>0, <3>1
    <3>3. Execute(rest, head)
      BY <1>6, <2>3 DEF Call
    <3>4. rest \in Timelines(Packet, TL_CMD_LIST_MAX)
      BY <1>0, DropHeadKeepsTimeline
    <3>5. Cardinality(LateBy(rest, master, 0)) <= overtaken
      BY <1>0, <1>1, <2>3, BehindTheHead DEF Backlog
    <3> HIDE DEF rest, head
    <3>6. Cardinality(LateBy(rest, master, 1)) <= overtaken
      <4>1. /\ Cardinality(LateBy(rest, master, 0)) \in 0..TL_CMD_LIST_MAX
            /\ Cardinality(LateBy(rest, master, 1)) \in 0..TL_CMD_LIST_MAX
        BY <3>4, LateAreFew
      <4> QED
        BY <1>0, <3>4, <3>5, <4>1, LateIsLate
    <3>7. Backlog(rest, master, overtaken, TRUE)
      BY <3>5, <3>6 DEF Backlog
    <3>8. Backlog(tl_cmd_list', master', overtaken', TRUE)
      BY <1>0, <3>2, <3>3, <3>4, <3>7, ExecuteKeepsBacklog
    <3> QED
      BY <1>2, <2>1, <3>8
  <2> QED
    BY <2>2, <2>3
<1>7. CASE Restart
  <2>1. tl_cmd_list' = <<>> /\ overtaken' = 0
    BY <1>7 DEF Restart
  <2>2. \A m, n : LateBy(<<>>, m, n) = {}
    BY DEF LateBy, Times
  <2> QED
    BY <1>2, <2>1, <2>2, FS_EmptySet DEF Backlog
<1>8. CASE UNCHANGED vars
  BY <1>1, <1>2, <1>8 DEF vars
<1> QED
  BY <1>3, <1>4, <1>5, <1>6, <1>7, <1>8 DEF Next

(* A command waits for its cycle or is one cycle late, whatever is due at once and   *)
(* whatever is deployed or registered in between; setting the clock makes as many    *)
(* later than that as it is set past, and no more: the dispatcher executes one a     *)
(* call and its backlog does not grow.                                             *)
THEOREM BacklogBounded == Spec => []BacklogOfSettings
<1>1. Init => BacklogOfSettings
  <2> SUFFICES ASSUME Init PROVE BacklogOfSettings
    OBVIOUS
  <2>1. Behind(0) = {} /\ Behind(1) = {}
    BY DEF Init, Behind, Times
  <2> QED
    BY <2>1, FS_EmptySet DEF Init, BacklogOfSettings
<1> QED
  BY <1>1, Invariance, StepKeepsBacklog, PTL DEF Spec

-------------------------------------------------------------------------------
(* What a deployment promises, in every state there is. *)

LEMMA OnListIsMember == ASSUME NEW p, NEW list PROVE OnList(p, list) <=> p \in Members(list)
BY DEF OnList, Members

LEMMA IInvGivesDeployKeepsCommands == ASSUME IInv PROVE DeployKeepsCommands
<1> SUFFICES ASSUME NEW b \in DOMAIN Block
             PROVE  /\ Deployed(b).ack \in {"PL_SUCCESS", "PL_BC_TIME_ADJUSTED"} =>
                         /\ \A i \in 1..Len(tl_cmd_list) : OnList(tl_cmd_list[i], Deployed(b).list)
                         /\ Len(Deployed(b).list) = Len(tl_cmd_list) + Len(Block[b].cmds)
                    /\ Deployed(b).ack = "PL_SUCCESS" =>
                         \A i \in 1..Len(Block[b].cmds) :
                           OnList([Block[b].cmds[i] EXCEPT !.time = master + @], Deployed(b).list)
  BY DEF DeployKeepsCommands
<1> DEFINE cmds == Block[b].cmds
           r == Deploy(tl_cmd_list, TL_CMD_LIST_MAX, cmds, master)
<1>1. /\ TL_CMD_LIST_MAX \in Nat /\ master \in Time /\ cmds \in Seq(Packet)
      /\ tl_cmd_list \in Timelines(Packet, TL_CMD_LIST_MAX)
  BY TimelineAssumption DEF IInv
<1>2. Deployed(b).ack \in {"PL_SUCCESS", "PL_BC_TIME_ADJUSTED"} => Deployed(b) = r
  BY DEF Deployed, DeployBlock
<1> HIDE DEF cmds
<1>3. /\ r.ack \in {"PL_SUCCESS", "PL_BC_TIME_ADJUSTED"} =>
           /\ Members(tl_cmd_list) \subseteq Members(r.list)
           /\ Len(r.list) = Len(tl_cmd_list) + Len(cmds)
      /\ r.ack = "PL_SUCCESS" =>
           \A j \in 1..Len(cmds) : Timed(cmds[j], master + cmds[j].time) \in Members(r.list)
  BY <1>1, PacketsArePackets, DeployMembers
<1> HIDE DEF r
<1>4. \A i \in 1..Len(cmds) :
        Timed(cmds[i], master + cmds[i].time) = [cmds[i] EXCEPT !.time = master + @]
  BY Zenon DEF Timed
<1>5. \A i \in 1..Len(tl_cmd_list) : tl_cmd_list[i] \in Members(tl_cmd_list)
  BY DEF Members
<1>6. Deployed(b).ack \in {"PL_SUCCESS", "PL_BC_TIME_ADJUSTED"} =>
        /\ \A i \in 1..Len(tl_cmd_list) : OnList(tl_cmd_list[i], Deployed(b).list)
        /\ Len(Deployed(b).list) = Len(tl_cmd_list) + Len(cmds)
  BY <1>2, <1>3, <1>5, OnListIsMember
<1>7. Deployed(b).ack = "PL_SUCCESS" =>
        \A i \in 1..Len(cmds) :
          OnList([cmds[i] EXCEPT !.time = master + @], Deployed(b).list)
  <2> SUFFICES ASSUME Deployed(b).ack = "PL_SUCCESS", NEW i \in 1..Len(cmds)
               PROVE  OnList([cmds[i] EXCEPT !.time = master + @], Deployed(b).list)
    OBVIOUS
  <2>1. Timed(cmds[i], master + cmds[i].time) \in Members(Deployed(b).list)
    BY <1>2, <1>3
  <2>2. [cmds[i] EXCEPT !.time = master + @] \in Members(Deployed(b).list)
    BY <1>4, <2>1, Zenon
  <2> QED
    BY <2>2, OnListIsMember, Zenon
<1> QED
  BY <1>6, <1>7, Zenon DEF cmds

(* PL_deploy_block_cmd answers what it did: unless it reports the list cleared or    *)
(* an error, no command that was waiting is lost and every command of the block is    *)
(* added, whatever times collide; and on plain success each is at its offset.        *)
THEOREM DeploymentsReported == Spec => []DeployKeepsCommands
<1> QED
  BY Invariance, IInvGivesDeployKeepsCommands, PTL
===============================================================================
