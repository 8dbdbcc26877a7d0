--------------------------- MODULE FlightModeProofs ----------------------------
(***************************************************************************)
(* A transition under way has its end on the timeline, and a restart at any  *)
(* moment comes up in a mode that was chosen: for every set of modes, every  *)
(* default table, every block and whatever the ground and the rules do.      *)
(***************************************************************************)
EXTENDS FlightMode, TLAPS

Tables == [Mode -> [Mode -> DOMAIN Block \cup {MM_NOT_DEFINED}]]

(* What may wait on the timeline: a command of a block, at any time. *)
Waiting == {[in |-> t, code |-> c.code, arg |-> c.arg] : t \in Int, c \in BlockCommand}

Types ==
    /\ stat \in {"MM_FINISHED", "MM_IN_PROGRESS"}
    /\ current_id \in Mode /\ previous_id \in Mode
    /\ transition_table \in Tables
    /\ fram \in [current : Mode \cup {Erased}, previous : Mode \cup {Erased}]
    /\ timeline \subseteq Waiting
    /\ pc \in {"boot", "deploy", "write_current", "write_previous", "idle"}
    /\ todo \in [cmds : Seq(BlockCommand), adj : Nat]
    /\ goal \in Mode \cup {NoMode}
    /\ lost \in BOOLEAN

FinishWaits == \E c \in timeline : Finishes(c)

(* The end of the transition that is under way, or will be after the deployment,   *)
(* is on the timeline or still to be put there.                                 *)
EndInSight ==
    /\ pc = "deploy" /\ ~lost /\ (goal # NoMode \/ stat = "MM_IN_PROGRESS") =>
         FinishWaits \/ SomeFinishes(todo.cmds)
    /\ pc \in {"idle", "write_current", "write_previous"}
         /\ stat = "MM_IN_PROGRESS" /\ ~lost => FinishWaits

Kept(m) == fram.current = m /\ fram.previous # Erased

(* How FRAM and the mode go together at each point of a transition. *)
ModeInFRAM ==
    /\ fram.previous # Erased => fram.current # Erased
    /\ pc = "idle" => Kept(current_id)
    /\ pc = "deploy" => \/ Kept(current_id)
                        \/ ~Valid /\ current_id = SAFE /\ goal = SAFE
    /\ pc = "write_current" => \/ Kept(previous_id)
                               \/ ~Valid /\ current_id = SAFE
    /\ pc = "write_previous" => /\ fram.current = current_id
                                /\ fram.previous = Erased => current_id = SAFE

IInv == Types /\ EndInSight /\ ModeInFRAM

-------------------------------------------------------------------------------
(* The commands of the blocks, and those that wait, are in range. *)

LEMMA WaitingFor ==
    ASSUME NEW t \in Int, NEW d \in BlockCommand
    PROVE  [in |-> t, code |-> d.code, arg |-> d.arg] \in Waiting
<1> DEFINE put(x, c) == [in |-> x, code |-> c.code, arg |-> c.arg]
<1>1. Waiting = {put(x, c) : x \in Int, c \in BlockCommand}
  BY DEF Waiting
<1>2. put(t, d) = [in |-> t, code |-> d.code, arg |-> d.arg]
  OBVIOUS
<1> HIDE DEF put
<1>3. put(t, d) \in Waiting
  BY <1>1
<1> QED
  BY <1>2, <1>3

LEMMA WaitingInRange ==
    ASSUME NEW c \in Waiting
    PROVE  /\ InRange(c)
           /\ [c EXCEPT !.in = c.in - 1] \in Waiting
           /\ Finishes([c EXCEPT !.in = c.in - 1]) <=> Finishes(c)
<1>1. PICK t \in Int, d \in BlockCommand : c = [in |-> t, code |-> d.code, arg |-> d.arg]
  BY DEF Waiting
<1>2. c.code = d.code /\ c.arg = d.arg
  BY <1>1
<1>3. InRange(d)
  BY ModeAssumption
<1>4. InRange(c)
  BY <1>2, <1>3 DEF InRange
<1>5. t - 1 \in Int
  BY <1>1
<1>6. [c EXCEPT !.in = c.in - 1] = [in |-> t - 1, code |-> d.code, arg |-> d.arg]
  BY <1>1
<1>7. [c EXCEPT !.in = c.in - 1] \in Waiting
  BY <1>5, <1>6, WaitingFor
<1>8. [c EXCEPT !.in = c.in - 1].code = c.code
  BY <1>2, <1>6
<1> QED
  BY <1>4, <1>7, <1>8 DEF Finishes

LEMMA SavedModeIsAllowed ==
    ASSUME Types, ModeInFRAM
    PROVE  SavedMode \in Mode /\ DefaultTable[SavedMode][SavedMode] \in DOMAIN Block
<1>1. Valid => fram.current \in Mode
  BY DEF Valid, Types, ModeInFRAM
<1>2. SavedMode \in Mode /\ DefaultTable[SAFE][SavedMode] # MM_NOT_DEFINED
  BY <1>1, ModeAssumption DEF SavedMode, Valid
<1>3. DefaultTable[SavedMode] = DefaultTable[SAFE] /\ SAFE \in Mode
  BY <1>2, ModeAssumption
<1>4. DefaultTable[SAFE][SavedMode] \in DOMAIN Block \cup {MM_NOT_DEFINED}
  BY <1>2, <1>3, ModeAssumption
<1> QED
  BY <1>2, <1>3, <1>4

(* The part of the invariant that a deployment begins with. *)
LEMMA DeployBegins ==
    ASSUME Types, NEW line \in SUBSET Waiting, NEW was \in BOOLEAN,
           NEW b \in DOMAIN Block, NEW m \in Mode \cup {NoMode}, Deploy(line, was, b, m)
    PROVE  /\ timeline' \subseteq Waiting
           /\ pc' = "deploy"
           /\ goal' = m
           /\ todo' \in [cmds : Seq(BlockCommand), adj : Nat]
           /\ lost' \in BOOLEAN
           /\ ~lost' /\ m # NoMode => SomeFinishes(todo'.cmds)
           /\ ~lost' /\ m = NoMode /\ (\E c \in line : Finishes(c)) =>
                ~was /\ (\E c \in timeline' : Finishes(c))
<1> DEFINE clear == TL_CMD_LIST_MAX - Cardinality(line) < Len(Block[b])
<1>1. Block[b] \in Seq(BlockCommand)
  BY ModeAssumption
<1>2. /\ timeline' = IF clear THEN {} ELSE line
      /\ todo' = [cmds |-> Block[b], adj |-> 0] /\ goal' = m /\ pc' = "deploy"
      /\ lost' = IF m # NoMode THEN ~SomeFinishes(Block[b])
                 ELSE was \/ (clear /\ \E c \in line : Finishes(c))
  BY DEF Deploy
<1> HIDE DEF clear
<1>3. lost' \in BOOLEAN
  <2>1. (~SomeFinishes(Block[b])) \in BOOLEAN
    BY DEF SomeFinishes
  <2>2. (was \/ (clear /\ \E c \in line : Finishes(c))) \in BOOLEAN
    OBVIOUS
  <2> QED
    BY <1>2, <2>1, <2>2, Zenon
<1> QED
  BY <1>1, <1>2, <1>3

(* A command that leaves the mode, FRAM and the tables of the invariant alone. *)
Settled == UNCHANGED <<current_id, previous_id, fram, pc, todo, goal>>

LEMMA SettledKeeps ==
    ASSUME IInv, Idle, Settled, transition_table' \in Tables, timeline' \subseteq Waiting,
           stat' \in {"MM_FINISHED", "MM_IN_PROGRESS"}, lost' \in BOOLEAN,
           stat' = "MM_IN_PROGRESS" /\ ~lost' => \E c \in timeline' : Finishes(c)
    PROVE  IInv'
<1>1. Types'
  BY DEF IInv, Types, Settled
<1>2. EndInSight'
  BY DEF EndInSight, FinishWaits, Settled, Idle
<1>3. ModeInFRAM'
  BY DEF IInv, ModeInFRAM, Kept, Valid, Settled, Idle
<1> QED
  BY <1>1, <1>2, <1>3 DEF IInv

(* A command, when line is the timeline without it. *)
LEMMA ExecuteKeepsIInv ==
    ASSUME IInv, Idle, NEW c, InRange(c),
           NEW line \in SUBSET timeline, timeline \ line \subseteq {c}, Execute(line, c)
    PROVE  IInv'
<1>1. /\ Types /\ line \subseteq Waiting /\ transition_table \in Tables
      /\ stat \in {"MM_FINISHED", "MM_IN_PROGRESS"} /\ lost \in BOOLEAN
      /\ UNCHANGED fram
  BY DEF IInv, Types, Execute
<1>2. ~Finishes(c) /\ stat = "MM_IN_PROGRESS" /\ ~lost => \E d \in line : Finishes(d)
  BY DEF IInv, EndInSight, FinishWaits, Idle
<1>3. CASE c.code = "START_TRANSITION" /\ StartTransition(line, c.arg)
  <2> DEFINE b == transition_table[current_id][c.arg]
  <2>1. c.arg \in Mode /\ ~Finishes(c)
    BY <1>3 DEF InRange, Finishes
  <2>2. CASE stat # "MM_FINISHED" \/ b = MM_NOT_DEFINED
    <3>1. timeline' = line /\ Settled /\ UNCHANGED <<stat, lost, transition_table>>
      BY <1>1, <1>3, <2>2 DEF StartTransition, Settled, ops, tables
    <3> QED
      BY <1>1, <1>2, <2>1, <3>1, SettledKeeps
  <2>3. CASE ~(stat # "MM_FINISHED" \/ b = MM_NOT_DEFINED)
    <3>1. b \in DOMAIN Block
      BY <1>1, <2>1, <2>3 DEF Types, Tables
    <3>2. Deploy(line, lost, b, c.arg) /\ UNCHANGED <<ops, tables>>
      BY <1>3, <2>3 DEF StartTransition
    <3> HIDE DEF b
    <3>3. /\ timeline' \subseteq Waiting
          /\ pc' = "deploy"
          /\ goal' = c.arg
          /\ todo' \in [cmds : Seq(BlockCommand), adj : Nat]
          /\ lost' \in BOOLEAN
          /\ ~lost' /\ c.arg # NoMode => SomeFinishes(todo'.cmds)
      BY <1>1, <2>1, <3>1, <3>2, DeployBegins
    <3>4. Types'
      BY <1>1, <2>1, <3>2, <3>3 DEF Types, ops, tables
    <3>5. EndInSight'
      BY <2>1, <3>3, ModeAssumption DEF EndInSight, FinishWaits
    <3>6. ModeInFRAM'
      BY <1>1, <3>2, <3>3 DEF IInv, ModeInFRAM, Kept, Idle, ops
    <3> QED
      BY <3>4, <3>5, <3>6 DEF IInv
  <2> QED
    BY <2>2, <2>3
<1>4. CASE c.code = "SET_MODE_LIST" /\ SetModeList(line, c.arg)
  <2>1. timeline' = line /\ Settled /\ UNCHANGED <<stat, lost, transition_table>>
    BY <1>1, <1>4 DEF SetModeList, Settled, ops
  <2> QED
    BY <1>1, <1>2, <1>4, <2>1, SettledKeeps DEF Finishes
<1>5. CASE c.code = "FINISH_TRANSITION" /\ FinishTransition(line)
  <2>1. /\ timeline' = line /\ Settled /\ stat' = "MM_FINISHED"
        /\ UNCHANGED <<lost, transition_table>>
    BY <1>1, <1>5 DEF FinishTransition, Settled, tables
  <2> QED
    BY <1>1, <2>1, SettledKeeps
<1>6. CASE c.code = "SET_TRANSITION_TABLE" /\ SetTransitionTable(line, c.arg)
  <2>1. timeline' = line /\ Settled /\ UNCHANGED <<stat, lost>>
    BY <1>1, <1>6 DEF SetTransitionTable, Settled, ops
  <2>2. transition_table' \in Tables
    <3>1. /\ c.arg.from \in Mode /\ c.arg.to \in Mode
          /\ c.arg.block \in DOMAIN Block \cup {MM_NOT_DEFINED}
      BY <1>6 DEF InRange
    <3>2. transition_table' = [transition_table EXCEPT ![c.arg.from][c.arg.to] = c.arg.block]
      BY <1>6 DEF SetTransitionTable
    <3> QED
      BY <1>1, <3>1, <3>2 DEF Tables
  <2> QED
    BY <1>1, <1>2, <1>6, <2>1, <2>2, SettledKeeps DEF Finishes
<1>7. CASE c.code = "CLEAR_TIMELINE" /\ ClearTimeline(line)
  <2>1. PICK gone \in {line} \cup {{d} : d \in line} :
          /\ timeline' = line \ gone
          /\ lost' = (lost \/ \E d \in gone : Finishes(d))
    BY <1>7 DEF ClearTimeline
  <2>2. Settled /\ UNCHANGED <<stat, transition_table>>
    BY <1>1, <1>7 DEF ClearTimeline, Settled, ops, tables
  <2>3. lost' \in BOOLEAN /\ timeline' \subseteq Waiting
    BY <1>1, <2>1
  <2>4. stat = "MM_IN_PROGRESS" /\ ~lost' => \E d \in timeline' : Finishes(d)
    BY <1>2, <1>7, <2>1 DEF Finishes
  <2> QED
    BY <1>1, <2>2, <2>3, <2>4, SettledKeeps
<1>8. CASE c.code = "AH_ACTIVATE_RULE" /\ AH_activate_rule(line, c.arg)
  <2>1. timeline' = line /\ Settled /\ UNCHANGED <<stat, lost, transition_table>>
    BY <1>1, <1>8 DEF AH_activate_rule, Settled, ops, tables
  <2> QED
    BY <1>1, <1>2, <1>8, <2>1, SettledKeeps DEF Finishes
<1>9. CASE c.code = "OTHER" /\ Other(line)
  <2>1. timeline' = line /\ Settled /\ UNCHANGED <<stat, lost, transition_table>>
    BY <1>1, <1>9 DEF Other, Settled, ops, tables
  <2> QED
    BY <1>1, <1>2, <1>9, <2>1, SettledKeeps DEF Finishes
<1> QED
  BY <1>3, <1>4, <1>5, <1>6, <1>7, <1>8, <1>9
     DEF Execute, ExecuteMode, ExecuteTransition, ExecuteTimeline

-------------------------------------------------------------------------------
(* The steps of a deployment. *)

LEMMA BootKeepsIInv == ASSUME IInv, Boot PROVE IInv'
<1> DEFINE b == DefaultTable[SavedMode][SavedMode]
<1>1. Types /\ ModeInFRAM /\ pc = "boot" /\ SAFE \in Mode
  BY ModeAssumption DEF IInv, Boot
<1>2. SavedMode \in Mode /\ b \in DOMAIN Block
  BY <1>1, SavedModeIsAllowed
<1> HIDE DEF b
<1>3. /\ Deploy(timeline, lost, b, SavedMode)
      /\ stat' = "MM_FINISHED" /\ transition_table' = DefaultTable
      /\ current_id' = SavedMode
      /\ previous_id' = IF Valid THEN fram.previous ELSE SAFE
      /\ UNCHANGED fram
  BY DEF Boot, b
<1>4. /\ timeline' \subseteq Waiting
      /\ pc' = "deploy"
      /\ goal' = SavedMode
      /\ todo' \in [cmds : Seq(BlockCommand), adj : Nat]
      /\ lost' \in BOOLEAN
      /\ ~lost' /\ SavedMode # NoMode => SomeFinishes(todo'.cmds)
  <2>1. timeline \in SUBSET Waiting /\ lost \in BOOLEAN
    BY <1>1 DEF Types
  <2> QED
    BY <1>1, <1>2, <1>3, <2>1, DeployBegins
<1>5. Types'
  <2>1. Valid => fram.previous \in Mode
    BY <1>1 DEF Valid, Types
  <2>2. DefaultTable \in Tables
    BY ModeAssumption DEF Tables
  <2> QED
    BY <1>1, <1>2, <1>3, <1>4, <2>1, <2>2 DEF Types
<1>6. EndInSight'
  BY <1>2, <1>4, ModeAssumption DEF EndInSight
<1>7. ModeInFRAM'
  <2>1. Valid => current_id' = fram.current /\ fram.previous # Erased
    BY <1>3 DEF SavedMode, Valid
  <2>2. ~Valid => current_id' = SAFE /\ goal' = SAFE
    BY <1>3, <1>4 DEF SavedMode
  <2> QED
    BY <1>1, <1>3, <1>4, <2>1, <2>2 DEF ModeInFRAM, Kept, Valid
<1> QED
  BY <1>5, <1>6, <1>7 DEF IInv

LEMMA DeployOneKeepsIInv == ASSUME IInv, DeployOne PROVE IInv'
<1> DEFINE c == Head(todo.cmds)
           rest == Tail(todo.cmds)
<1>1. /\ todo.cmds \in Seq(BlockCommand) /\ todo.cmds # <<>> /\ todo.adj \in Nat
      /\ pc = "deploy" /\ timeline \subseteq Waiting /\ lost \in BOOLEAN
  BY DEF IInv, Types, DeployOne
<1>2. /\ c \in BlockCommand /\ rest \in Seq(BlockCommand)
      /\ SomeFinishes(todo.cmds) => Finishes(c) \/ SomeFinishes(rest)
  <2>1. /\ c \in BlockCommand /\ rest \in Seq(BlockCommand)
        /\ c = todo.cmds[1]
        /\ Len(rest) = Len(todo.cmds) - 1
        /\ \A i \in 1..Len(rest) : rest[i] = todo.cmds[i + 1]
    BY <1>1
  <2>2. ASSUME NEW i \in 1..Len(todo.cmds), Finishes(todo.cmds[i]), i # 1
        PROVE  SomeFinishes(rest)
    <3>1. i - 1 \in 1..Len(rest) /\ (i - 1) + 1 = i
      BY <1>1, <2>1, <2>2
    <3>2. rest[i - 1] = todo.cmds[i]
      BY <2>1, <3>1
    <3> QED
      BY <2>2, <3>1, <3>2 DEF SomeFinishes
  <2> QED
    BY <2>1, <2>2 DEF SomeFinishes
<1>3. /\ UNCHANGED <<ops, tables, fram, pc, goal>>
  BY DEF DeployOne
<1>4. ASSUME timeline' \subseteq Waiting,
             todo' \in [cmds : Seq(BlockCommand), adj : Nat], lost' \in BOOLEAN,
             FinishWaits => FinishWaits', ~lost' => ~lost,
             ~lost' /\ SomeFinishes(todo.cmds) => FinishWaits' \/ SomeFinishes(todo'.cmds)
      PROVE  IInv'
  <2>1. Types'
    BY <1>3, <1>4 DEF IInv, Types, ops, tables
  <2>2. EndInSight'
    BY <1>1, <1>3, <1>4 DEF IInv, EndInSight, ops
  <2>3. ModeInFRAM'
    BY <1>1, <1>3 DEF IInv, ModeInFRAM, Kept, Valid, ops
  <2> QED
    BY <2>1, <2>2, <2>3 DEF IInv
<1>5. ASSUME NEW t \in Int, NEW n \in Nat, Put(c, t), UNCHANGED lost,
             todo' = [cmds |-> rest, adj |-> todo.adj + n]
      PROVE  IInv'
  <2> DEFINE put == [in |-> t, code |-> c.code, arg |-> c.arg]
  <2>1. put \in Waiting /\ (Finishes(c) => Finishes(put))
    <3>1. put.code = c.code
      OBVIOUS
    <3>2. put \in Waiting
      BY <1>2, t \in Int, WaitingFor
    <3> QED
      BY <3>1, <3>2 DEF Finishes
  <2>2. timeline' = timeline \cup {put}
    BY <1>5 DEF Put
  <2> HIDE DEF put, c, rest
  <2>3. timeline' \subseteq Waiting /\ (FinishWaits => FinishWaits')
    BY <1>1, <2>1, <2>2 DEF FinishWaits
  <2>4. Finishes(c) => FinishWaits'
    BY <2>1, <2>2 DEF FinishWaits
  <2>5. todo' \in [cmds : Seq(BlockCommand), adj : Nat] /\ todo'.cmds = rest
    BY <1>1, <1>2, <1>5
  <2> QED
    BY <1>1, <1>2, <1>4, <1>5, <2>3, <2>4, <2>5
<1>6. ASSUME UNCHANGED timeline, lost' = (lost \/ Finishes(c)),
             NEW n \in Nat, todo' = [cmds |-> rest, adj |-> todo.adj + n]
      PROVE  IInv'
  <2>1. todo' \in [cmds : Seq(BlockCommand), adj : Nat] /\ todo'.cmds = rest
    BY <1>1, <1>2, <1>6
  <2> HIDE DEF c, rest
  <2>2. lost' \in BOOLEAN /\ (~lost' => ~lost /\ ~Finishes(c))
    BY <1>1, <1>6, Zenon
  <2>3. FinishWaits' <=> FinishWaits
    BY <1>6 DEF FinishWaits
  <2> QED
    BY <1>1, <1>2, <1>4, <1>6, <2>1, <2>2, <2>3
<1>7. ASSUME UNCHANGED timeline, lost' = (lost \/ SomeFinishes(todo.cmds)),
             todo' = [todo EXCEPT !.cmds = <<>>]
      PROVE  IInv'
  <2>1. todo' \in [cmds : Seq(BlockCommand), adj : Nat]
    <3>1. <<>> \in Seq(BlockCommand) /\ todo \in [cmds : Seq(BlockCommand), adj : Nat]
      BY DEF IInv, Types
    <3> QED
      BY <1>7, <3>1
  <2>2. lost' \in BOOLEAN /\ (~lost' => ~lost /\ ~SomeFinishes(todo.cmds))
    BY <1>1, <1>7, Zenon
  <2>3. FinishWaits' <=> FinishWaits
    BY <1>7 DEF FinishWaits
  <2> QED
    BY <1>1, <1>4, <1>7, <2>1, <2>2, <2>3
<1>8. \/ \E t \in Int, n \in Nat :
           Put(c, t) /\ UNCHANGED lost /\ todo' = [cmds |-> rest, adj |-> todo.adj + n]
      \/ \E n \in Nat :
           /\ UNCHANGED timeline /\ lost' = (lost \/ Finishes(c))
           /\ todo' = [cmds |-> rest, adj |-> todo.adj + n]
      \/ /\ UNCHANGED timeline /\ lost' = (lost \/ SomeFinishes(todo.cmds))
         /\ todo' = [todo EXCEPT !.cmds = <<>>]
  <2>1. /\ 1..MaxMoves \subseteq Nat /\ 0..MaxMoves \subseteq Nat /\ Free \subseteq Int
        /\ 0 \in Nat
    BY ModeAssumption DEF Free
  <2>2. c.in + todo.adj \in Int
    BY <1>1, <1>2, ModeAssumption
  <2> HIDE DEF c, rest
  <2> QED
    BY <2>1, <2>2 DEF DeployOne, c, rest
<1> QED
  BY <1>5, <1>6, <1>7, <1>8

LEMMA EnterModeKeepsIInv == ASSUME IInv, EnterMode PROVE IInv'
<1>1. /\ Types /\ pc = "deploy" /\ todo.cmds = <<>>
      /\ todo' = Nothing /\ goal' = NoMode
      /\ UNCHANGED <<tables, fram, timeline, lost>>
  BY DEF IInv, EnterMode
<1>2. ~SomeFinishes(todo.cmds) /\ Nothing \in [cmds : Seq(BlockCommand), adj : Nat]
  BY <1>1 DEF SomeFinishes, Nothing
<1>3. FinishWaits' <=> FinishWaits
  BY <1>1 DEF FinishWaits
<1>4. CASE goal = NoMode
  <2>1. pc' = "idle" /\ UNCHANGED <<stat, current_id, previous_id>>
    BY <1>4 DEF EnterMode, ops
  <2>2. Types'
    BY <1>1, <1>2, <2>1 DEF Types, tables
  <2>3. EndInSight'
    BY <1>1, <1>2, <1>3, <2>1 DEF IInv, EndInSight
  <2>4. ModeInFRAM'
    BY <1>1, <1>4, <2>1, ModeAssumption DEF IInv, ModeInFRAM, Kept
  <2> QED
    BY <2>2, <2>3, <2>4 DEF IInv
<1>5. CASE goal # NoMode
  <2>1. /\ pc' = "write_current" /\ stat' = "MM_IN_PROGRESS"
        /\ previous_id' = current_id /\ current_id' = goal
    BY <1>5 DEF EnterMode
  <2>2. Types'
    BY <1>1, <1>2, <1>5, <2>1 DEF Types, tables
  <2>3. EndInSight'
    BY <1>1, <1>2, <1>3, <1>5, <2>1 DEF IInv, EndInSight
  <2>4. ModeInFRAM'
    BY <1>1, <2>1 DEF IInv, ModeInFRAM, Kept, Valid
  <2> QED
    BY <2>2, <2>3, <2>4 DEF IInv
<1> QED
  BY <1>4, <1>5

LEMMA WritesKeepIInv == ASSUME IInv, WriteCurrent \/ WritePrevious PROVE IInv'
<1>1. /\ Types /\ fram \in [current : Mode \cup {Erased}, previous : Mode \cup {Erased}]
      /\ current_id \in Mode /\ previous_id \in Mode
      /\ current_id # Erased /\ previous_id # Erased
  BY ModeAssumption DEF IInv, Types
<1>2. UNCHANGED <<ops, tables, timeline, todo, goal, lost>>
  BY DEF WriteCurrent, WritePrevious
<1>3. CASE WriteCurrent
  <2>1. pc = "write_current" /\ pc' = "write_previous"
    BY <1>3 DEF WriteCurrent
  <2>2. /\ fram' \in [current : Mode \cup {Erased}, previous : Mode \cup {Erased}]
        /\ fram'.current = current_id /\ fram'.previous = fram.previous
    BY <1>1, <1>3 DEF WriteCurrent
  <2>3. Types'
    BY <1>1, <1>2, <2>1, <2>2 DEF Types, ops, tables
  <2>4. EndInSight'
    BY <1>2, <2>1 DEF IInv, EndInSight, FinishWaits, ops
  <2>5. ModeInFRAM'
    BY <1>1, <1>2, <2>1, <2>2 DEF IInv, ModeInFRAM, Kept, Valid, ops
  <2> QED
    BY <2>3, <2>4, <2>5 DEF IInv
<1>4. CASE WritePrevious
  <2>1. pc = "write_previous" /\ pc' = "idle"
    BY <1>4 DEF WritePrevious
  <2>2. /\ fram' \in [current : Mode \cup {Erased}, previous : Mode \cup {Erased}]
        /\ fram'.current = fram.current /\ fram'.previous = previous_id
    BY <1>1, <1>4 DEF WritePrevious
  <2>3. Types'
    BY <1>1, <1>2, <2>1, <2>2 DEF Types, ops, tables
  <2>4. EndInSight'
    BY <1>2, <2>1 DEF IInv, EndInSight, FinishWaits, ops
  <2>5. ModeInFRAM'
    BY <1>1, <1>2, <2>1, <2>2 DEF IInv, ModeInFRAM, Kept, ops
  <2> QED
    BY <2>3, <2>4, <2>5 DEF IInv
<1> QED
  BY <1>3, <1>4

-------------------------------------------------------------------------------
(* The calls of a cycle, and a restart. *)

LEMMA CallTLKeepsIInv == ASSUME IInv, CallTL PROVE IInv'
<1>1. Idle /\ timeline \subseteq Waiting
  BY DEF CallTL, TakeTurn, IInv, Types
<1>2. CASE Due = {}
  <2>1. Settled /\ UNCHANGED <<timeline, stat, lost, transition_table>>
    BY <1>2 DEF CallTL, Other, Settled, ops, tables
  <2>2. stat = "MM_IN_PROGRESS" /\ ~lost => \E c \in timeline : Finishes(c)
    BY <1>1 DEF IInv, EndInSight, FinishWaits, Idle
  <2> QED
    BY <1>1, <2>1, <2>2, SettledKeeps DEF IInv, Types
<1>3. CASE Due # {}
  <2>1. PICK c \in Due : Execute(timeline \ {c}, c)
    BY <1>3 DEF CallTL
  <2>2. c \in timeline /\ InRange(c)
    BY <1>1, WaitingInRange DEF Due
  <2>3. timeline \ {c} \in SUBSET timeline /\ timeline \ (timeline \ {c}) \subseteq {c}
    OBVIOUS
  <2> QED
    BY <1>1, <2>1, <2>2, <2>3, ExecuteKeepsIInv
<1> QED
  BY <1>2, <1>3

LEMMA RespondKeepsIInv == ASSUME IInv, NEW b \in Responses, Respond(b) PROVE IInv'
<1>1. /\ Types /\ Idle /\ timeline \in SUBSET Waiting /\ lost \in BOOLEAN
      /\ b \in DOMAIN Block /\ NoMode \in Mode \cup {NoMode}
  BY ModeAssumption DEF IInv, Types, Respond, TakeTurn
<1>2. Deploy(timeline, lost, b, NoMode) /\ UNCHANGED <<ops, tables, fram>>
  BY DEF Respond
<1>3. /\ timeline' \subseteq Waiting
      /\ pc' = "deploy"
      /\ goal' = NoMode
      /\ todo' \in [cmds : Seq(BlockCommand), adj : Nat]
      /\ lost' \in BOOLEAN
      /\ ~lost' /\ (\E c \in timeline : Finishes(c)) =>
           ~lost /\ (\E c \in timeline' : Finishes(c))
  BY <1>1, <1>2, DeployBegins
<1>4. ~lost' => ~lost
  BY <1>1, <1>2, Zenon DEF Deploy
<1>5. Types'
  BY <1>1, <1>2, <1>3 DEF Types, ops, tables
<1>6. EndInSight'
  BY <1>1, <1>2, <1>3, <1>4 DEF IInv, EndInSight, FinishWaits, Idle, ops
<1>7. ModeInFRAM'
  BY <1>1, <1>2, <1>3 DEF IInv, ModeInFRAM, Kept, Idle, ops
<1> QED
  BY <1>5, <1>6, <1>7 DEF IInv

LEMMA TickKeepsIInv == ASSUME IInv, Tick PROVE IInv'
<1>1. Idle /\ timeline \subseteq Waiting
  BY DEF Tick, IInv, Types
<1>2. timeline' = {[c EXCEPT !.in = c.in - 1] : c \in timeline}
  BY DEF Tick
<1>3. Settled /\ UNCHANGED <<stat, lost, transition_table>>
  BY DEF Tick, Settled, ops, tables
<1>4. timeline' \subseteq Waiting
  BY <1>1, <1>2, WaitingInRange
<1>5. stat = "MM_IN_PROGRESS" /\ ~lost => \E c \in timeline' : Finishes(c)
  <2>1. stat = "MM_IN_PROGRESS" /\ ~lost => \E c \in timeline : Finishes(c)
    BY <1>1 DEF IInv, EndInSight, FinishWaits, Idle
  <2>2. ASSUME NEW c \in timeline, Finishes(c)
        PROVE  \E d \in timeline' : Finishes(d)
    <3> DEFINE d == [c EXCEPT !.in = c.in - 1]
    <3>1. d \in timeline'
      BY <1>2
    <3>2. Finishes(d)
      BY <1>1, <2>2, WaitingInRange
    <3> HIDE DEF d
    <3> QED
      BY <3>1, <3>2
  <2> QED
    BY <2>1, <2>2
<1> QED
  BY <1>1, <1>3, <1>4, <1>5, SettledKeeps DEF IInv, Types

LEMMA RestartKeepsIInv == ASSUME IInv, Restart PROVE IInv'
<1>1. /\ pc' = "boot" /\ todo' = Nothing /\ goal' = NoMode /\ timeline' = {} /\ lost' = FALSE
      /\ UNCHANGED <<ops, tables, fram>>
  BY DEF Restart
<1>2. Nothing \in [cmds : Seq(BlockCommand), adj : Nat]
  BY DEF Nothing
<1>3. Types'
  BY <1>1, <1>2 DEF IInv, Types, ops, tables
<1>4. EndInSight' /\ ModeInFRAM'
  BY <1>1 DEF IInv, EndInSight, ModeInFRAM, ops
<1> QED
  BY <1>3, <1>4 DEF IInv

LEMMA StepKeepsIInv == ASSUME IInv, [Next]_vars PROVE IInv'
<1>1. ASSUME NEW c \in GroundCommands, CallRT(c)
      PROVE  IInv'
  <2>1. InRange(c) /\ Idle /\ Execute(timeline, c)
    BY <1>1, ModeAssumption DEF CallRT, TakeTurn
  <2>2. timeline \in SUBSET timeline /\ timeline \ timeline \subseteq {c}
    OBVIOUS
  <2> QED
    BY <2>1, <2>2, ExecuteKeepsIInv
<1>2. CASE Processor
  BY <1>2, BootKeepsIInv, DeployOneKeepsIInv, EnterModeKeepsIInv, WritesKeepIInv,
     CallTLKeepsIInv, TickKeepsIInv DEF Processor
<1>3. CASE UNCHANGED vars
  <2>1. Types'
    BY <1>3 DEF vars, ops, tables, IInv, Types
  <2>2. EndInSight'
    BY <1>3 DEF vars, ops, tables, IInv, EndInSight, FinishWaits
  <2>3. ModeInFRAM'
    BY <1>3 DEF vars, ops, tables, IInv, ModeInFRAM, Kept, Valid
  <2> QED
    BY <2>1, <2>2, <2>3 DEF IInv
<1> QED
  BY <1>1, <1>2, <1>3, RespondKeepsIInv, RestartKeepsIInv DEF Next

LEMMA InitGivesIInv == ASSUME Init PROVE IInv
<1>1. Nothing \in [cmds : Seq(BlockCommand), adj : Nat]
  BY DEF Nothing
<1>2. fram \in [current : Mode \cup {Erased}, previous : Mode \cup {Erased}]
      /\ (fram.previous # Erased => fram.current # Erased)
  BY ModeAssumption DEF Init
<1>3. Types
  BY <1>1, <1>2, ModeAssumption DEF Init, Types, Tables
<1>4. EndInSight /\ ModeInFRAM
  BY <1>2 DEF Init, EndInSight, ModeInFRAM
<1> QED
  BY <1>3, <1>4 DEF IInv

LEMMA Invariance == Spec => []IInv
<1> QED
  BY InitGivesIInv, StepKeepsIInv, PTL DEF Spec

(* A transition in progress has its FINISH_TRANSITION on the timeline, unless it was  *)
(* lost there, whatever blocks the ground and the rules deploy over it: otherwise     *)
(* MM_start_transition would refuse every other mode.                             *)
THEOREM EndIsPending == Spec => []FinishIsPending
<1>1. IInv => FinishIsPending
  BY DEF IInv, EndInSight, FinishWaits, FinishIsPending
<1> QED
  BY <1>1, Invariance, PTL

(* A restart at any moment, also between the two bytes of FRAM_Write_ops_mode, comes  *)
(* up in the current mode or the one before; or in SAFE, when one of them is a mode    *)
(* that only an uploaded table allows.                                           *)
THEOREM ModeSurvives == Spec => []RestartKeepsMode
<1>1. ASSUME IInv
      PROVE  RestartKeepsMode
  <2>1. pc \in {"boot", "deploy", "write_current", "write_previous", "idle"}
    BY <1>1 DEF IInv, Types
  <2> QED
    BY <1>1, <2>1 DEF IInv, ModeInFRAM, Kept, RestartKeepsMode, SavedMode, Valid
<1> QED
  BY <1>1, Invariance, PTL
===============================================================================
