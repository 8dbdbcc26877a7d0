-------------------------- MODULE TaskDispatcherProofs --------------------------
(***************************************************************************)
(* The main loop against its timer interrupt: for every task list, counter, *)
(* length of a cycle and of a pass, and every command on the dispatcher,     *)
(* the tasks of a cycle start in order; and when the passes leave room for   *)
(* them, no cycle overruns and none is lost.                                *)
(***************************************************************************)
EXTENDS TaskDispatcher, PacketListProofs

Packets == [time : Time, task : STRING]

(* The blocks, as far as they are loaded. *)
Content ==
    /\ cmds \in [DOMAIN Block -> Seq(Packets)]
    /\ \A b \in DOMAIN Block : Len(cmds[b]) <= TDSP_TASK_MAX

Types ==
    /\ master \in Cycle
    /\ step \in 0..(OBCT_STEPS_PER_CYCLE - 1)
    /\ activated_at \in 0..OBCT_MAX_CYCLE
    /\ task_list_id \in DOMAIN Block
    /\ task_list \in Timelines(Packets, TDSP_TASK_MAX)
    /\ Content
    /\ is_active \in [DOMAIN Block -> BOOLEAN]
    /\ pc \in Label
    /\ elapsed \in Nat
    /\ ran \in Seq(Time)

(* The tasks that wait come after those that started in this cycle. *)
RanBefore ==
    \A i \in 1..Len(ran), j \in 1..Len(task_list) : ran[i] < task_list[j].time

(* Where the main loop is, a list that has tasks for this cycle has only later    *)
(* ones.  The others are for a cycle to come, in which none has started.        *)
Order ==
    /\ TasksStartInOrder
    /\ pc \in {"loop", "not_due", "not_after", "before"} =>
         RanBefore \/ activated_at > master
    /\ pc = "due" => RanBefore
    /\ pc \in {"on_time", "past_time"} =>
         task_list # <<>> /\ \A i \in 1..Len(ran) : ran[i] <= Head(task_list).time
    /\ pc \in {"deploy", "load"} => task_list = <<>>
    /\ pc = "load" => ran = <<>> \/ activated_at > master

-------------------------------------------------------------------------------
(* The schedule. *)

Normal == Block[BC_TL_NORMAL]

From(i) == SubSeq(Normal, i, Len(Normal))

InTask == pc \in {"on_time", "past_time"}

(* The step in which this pass began, and the passes that the tasks still to       *)
(* start take with it and the one that finds the list empty, end in this cycle.   *)
OnTime ==
    step - elapsed
      + (Len(Normal) - Len(ran) + (IF InTask THEN 2 ELSE 1)) * SchedulePassSteps
        < OBCT_STEPS_PER_CYCLE

(* The list is that of the cycle, less the tasks that ended. *)
Running ==
    /\ activated_at = master
    /\ pc \in {"loop", "not_due", "not_after", "due", "on_time", "past_time", "deploy"}
    /\ Len(ran) <= Len(Normal)
    /\ \A i \in 1..Len(ran) : ran[i] = Normal[i].time
    /\ InTask => Len(ran) > 0
    /\ task_list = IF InTask THEN From(Len(ran)) ELSE From(Len(ran) + 1)
    /\ OnTime
    /\ pc \in {"not_due", "not_after"} => ran = <<>> /\ step < elapsed
    /\ pc = "deploy" => Len(ran) = Len(Normal)

(* The list is that of the next cycle, and this one has run its own. *)
Ahead ==
    /\ activated_at = master + 1
    /\ pc \in {"loop", "not_due", "load"}
    /\ WholeListRan
    /\ task_list = IF pc = "load" THEN <<>> ELSE Normal
    /\ pc = "load" => step - elapsed + SchedulePassSteps < OBCT_STEPS_PER_CYCLE

(* The list waits for a cycle that never comes. *)
TurnedOver ==
    /\ activated_at = OBCT_MAX_CYCLE
    /\ pc \in {"loop", "not_due", "load"}

Scheduled ==
    /\ elapsed <= SchedulePassSteps
    /\ task_list_id = BC_TL_NORMAL
    /\ cmds[BC_TL_NORMAL] = Normal /\ is_active[BC_TL_NORMAL]
    /\ anomaly # "TDSP_CYCLE_OVERRUN"
    /\ \/ (Running \/ Ahead) /\ ~lost
       \/ TurnedOver

IInv ==
    /\ Types
    /\ Order
    /\ onSchedule \in BOOLEAN
    /\ onSchedule => Scheduled

-------------------------------------------------------------------------------
(* The constants are numbers of the right size, and the blocks lists of packets. *)
LEMMA Constants ==
    /\ TDSP_TASK_MAX \in Nat
    /\ OBCT_MAX_CYCLE \in Nat \ {0}
    /\ OBCT_STEPS_PER_CYCLE \in Nat \ {0}
    /\ 0..(OBCT_STEPS_PER_CYCLE - 1) \subseteq Time
    /\ SchedulePassSteps \in Nat
    /\ \A b \in DOMAIN Block : Block[b] \in Seq(Packets) /\ Len(Block[b]) <= TDSP_TASK_MAX
    /\ BC_TL_NORMAL \in DOMAIN Block
<1>1. CycleSpan \in Nat \ {0}
  BY CycleSpanPositive
<1>2. /\ TDSP_TASK_MAX \in Nat
      /\ OBCT_MAX_CYCLE \in Nat \ {0}
      /\ OBCT_STEPS_PER_CYCLE \in 1..(CycleSpan - 1)
      /\ SchedulePassSteps \in Nat
      /\ BC_TL_NORMAL \in DOMAIN Block
  BY <1>1, TaskAssumption
<1>3. \A b \in DOMAIN Block : Block[b] \in Seq(Packets) /\ Len(Block[b]) <= TDSP_TASK_MAX
  BY TaskAssumption DEF Packets
<1> QED
  BY <1>1, <1>2, <1>3 DEF Time

LEMMA PacketsArePackets == IsPacketSet(Packets) /\ KeepsItself(Packets)
<1>1. \A p \in Packets, t \in Time : [p EXCEPT !.time = t] = [time |-> t, task |-> p.task]
  BY DEF Packets
<1>2. \A p \in Packets : p.time \in Time /\ p.task \in STRING
                      /\ p = [time |-> p.time, task |-> p.task]
  BY DEF Packets
<1>3. IsPacketSet(Packets)
  BY <1>1, <1>2 DEF IsPacketSet, Packets
<1>4. KeepsItself(Packets)
  BY <1>1, <1>2 DEF KeepsItself
<1> QED
  BY <1>3, <1>4

(* The deployment of a list, whatever block it is and whatever is left of the last. *)
LEMMA DeploymentIsTimeline ==
    ASSUME Types
    PROVE  Deployment.list \in Timelines(Packets, TDSP_TASK_MAX)
<1>1. cmds[task_list_id] \in Seq(Packets) /\ task_list \in Timelines(Packets, TDSP_TASK_MAX)
  BY DEF Types, Content
<1>2. 0 \in Time
  BY CycleSpanPositive DEF Time
<1>3. Deploy(task_list, TDSP_TASK_MAX, cmds[task_list_id], 0).list
        \in Timelines(Packets, TDSP_TASK_MAX)
  BY <1>1, <1>2, Constants, PacketsArePackets, DeployKeepsTimeline
<1> QED
  BY <1>1, <1>3 DEF Deployment, DeployBlock

(* The list of the normal mode is deployed as it stands in its block. *)
LEMMA NormalAsItIs ==
    Deploy(<<>>, TDSP_TASK_MAX, Normal, 0) = [list |-> Normal, ack |-> "PL_SUCCESS"]
<1>1. /\ Normal \in Seq(Packets) /\ Len(Normal) <= TDSP_TASK_MAX
      /\ TDSP_TASK_MAX \in Nat
  BY Constants DEF Normal
<1>2. StrictlyOrdered(Normal)
  BY ScheduleAssumption DEF Normal
<1> QED
  BY <1>1, <1>2, PacketsArePackets, DeployInOrder

LEMMA NormalDeployment ==
    ASSUME task_list = <<>>, task_list_id = BC_TL_NORMAL, cmds[BC_TL_NORMAL] = Normal,
           is_active[BC_TL_NORMAL]
    PROVE  Deployment.list = Normal
BY NormalAsItIs DEF Deployment, DeployBlock

-------------------------------------------------------------------------------
(* A block that is cleared or loaded keeps within the nodes of a task list. *)
LEMMA BlockChangedTyped ==
    ASSUME Types, NEW op, NEW b \in DOMAIN Block, BlockChanged(op, b)
    PROVE  Content' /\ is_active' \in [DOMAIN Block -> BOOLEAN]
<1>0. /\ cmds \in [DOMAIN Block -> Seq(Packets)]
      /\ \A c \in DOMAIN Block : cmds[c] \in Seq(Packets) /\ Len(cmds[c]) <= TDSP_TASK_MAX
      /\ is_active \in [DOMAIN Block -> BOOLEAN]
      /\ Block[b] \in Seq(Packets) /\ Len(Block[b]) <= TDSP_TASK_MAX /\ TDSP_TASK_MAX \in Nat
  BY Constants DEF Types, Content
<1>1. ASSUME NEW list \in Seq(Packets), Len(list) <= TDSP_TASK_MAX,
             cmds' = [cmds EXCEPT ![b] = list]
      PROVE  Content'
  <2>1. cmds' \in [DOMAIN Block -> Seq(Packets)]
    BY <1>0, <1>1
  <2>2. \A c \in DOMAIN Block : Len(cmds'[c]) <= TDSP_TASK_MAX
    BY <1>0, <1>1
  <2> QED
    BY <2>1, <2>2 DEF Content
<1>2. CASE op = "CLEAR_BLOCK" /\ cmds' = [cmds EXCEPT ![b] = <<>>]
           /\ is_active' = [is_active EXCEPT ![b] = FALSE]
  <2>1. <<>> \in Seq(Packets) /\ Len(<<>>) <= TDSP_TASK_MAX
    BY <1>0
  <2> QED
    BY <1>0, <1>1, <1>2, <2>1
<1>3. CASE /\ Len(cmds[b]) < Len(Block[b]) /\ UNCHANGED is_active
           /\ cmds' = [cmds EXCEPT ![b] = Append(cmds[b], Block[b][Len(cmds[b]) + 1])]
  <2> DEFINE list == Append(cmds[b], Block[b][Len(cmds[b]) + 1])
  <2>1. Block[b][Len(cmds[b]) + 1] \in Packets
    BY <1>0, <1>3
  <2>2. list \in Seq(Packets) /\ Len(list) = Len(cmds[b]) + 1
    BY <1>0, <2>1
  <2>3. Len(list) <= TDSP_TASK_MAX
    BY <1>0, <1>3, <2>2
  <2>4. cmds' = [cmds EXCEPT ![b] = list]
    BY <1>3
  <2> HIDE DEF list
  <2>5. Content'
    BY <1>1, <2>2, <2>3, <2>4
  <2> QED
    BY <1>0, <1>3, <2>5
<1>4. CASE is_active' = [is_active EXCEPT ![b] = TRUE] /\ UNCHANGED cmds
  BY <1>0, <1>4 DEF Content
<1> QED
  BY <1>2, <1>3, <1>4 DEF BlockChanged

(* Each step keeps the types. *)
LEMMA TypesKept == ASSUME Types, [Next]_vars PROVE Types'
<1> USE DEF Types, bcti
<1>a. UNCHANGED cmds => (Content' <=> Content)
  BY DEF Content
<1>0. /\ OBCT_MAX_CYCLE \in Nat \ {0} /\ OBCT_STEPS_PER_CYCLE \in Nat \ {0}
      /\ TDSP_TASK_MAX \in Nat
  BY Constants
<1>1. CASE ISR
  <2>1. elapsed' \in Nat /\ pc' = pc /\ UNCHANGED <<info, bcti>>
    BY <1>1 DEF ISR
  <2>2. CASE CycleEnds
    <3>1. master' \in Cycle
      BY <1>0, <2>2 DEF CycleEnds, Cycle
    <3>2. step' \in 0..(OBCT_STEPS_PER_CYCLE - 1) /\ ran' \in Seq(Time)
      BY <1>0, <2>2 DEF CycleEnds
    <3> QED
      BY <1>a, <2>1, <3>1, <3>2 DEF info
  <2>3. CASE StepEnds /\ step + 1 # OBCT_STEPS_PER_CYCLE
    <3>1. step' \in 0..(OBCT_STEPS_PER_CYCLE - 1)
      BY <1>0, <2>3 DEF StepEnds
    <3> QED
      BY <1>a, <2>1, <2>3, <3>1 DEF StepEnds, info
  <2> QED
    BY <1>1, <2>2, <2>3 DEF ISR
<1>2. CASE ReadMaster
  BY <1>a, <1>2 DEF ReadMaster, Goto, Label, clock, info, hist
<1>3. CASE ReadMasterAfter
  BY <1>a, <1>3 DEF ReadMasterAfter, Goto, Return, Label, clock, info, hist
<1>4. CASE ReadMasterBefore
  BY <1>a, <1>4 DEF ReadMasterBefore, Goto, Return, Label, clock, info, hist
<1>5. CASE Overrun
  BY <1>0, <1>a, <1>5, EmptyIsTimeline DEF Overrun, Goto, Return, Label, clock, hist
<1>6. CASE StartTask
  <2>1. task_list \in Seq(Packets) /\ task_list # <<>>
    BY <1>6 DEF StartTask, Check, Timelines
  <2>2. Head(task_list).time \in Time
    <3>1. Head(task_list) \in Packets
      BY <2>1
    <3> QED
      BY <3>1 DEF Packets
  <2>3. ran' \in Seq(Time)
    BY <1>6, <2>2 DEF StartTask
  <2> QED
    BY <1>a, <1>6, <2>3 DEF StartTask, Goto, Label, clock, info
<1>7. CASE NothingToStart
  BY <1>a, <1>7 DEF NothingToStart, Goto, Return, Label, clock, info
<1>8. CASE EndTask
  <2>1. task_list' \in Timelines(Packets, TDSP_TASK_MAX)
    BY <1>0, <1>8, DropHeadKeepsTimeline DEF EndTask
  <2>2. /\ pc' \in Label /\ elapsed' \in Nat /\ step' = step /\ ran' = ran
    BY <1>8 DEF EndTask, Return, Label
  <2>3. ASSUME NEW o \in Operations, Perform(o)
        PROVE  /\ master' \in Cycle /\ activated_at' \in 0..OBCT_MAX_CYCLE
               /\ task_list_id' \in DOMAIN Block
               /\ Content' /\ is_active' \in [DOMAIN Block -> BOOLEAN]
    <3>1. o \in Operation
      BY TaskAssumption
    <3>2. /\ o.op = "SET_OBC_TIME" => o.arg \in Cycle
          /\ o.op # "SET_OBC_TIME" => o.arg \in DOMAIN Block
      BY <3>1 DEF Operation
    <3>3. CASE o.op = "SET_OBC_TIME"
      BY <1>0, <1>a, <2>3, <3>2, <3>3 DEF Perform, Cycle
    <3>4. CASE o.op = "SET_TASK_LIST_ID"
      BY <1>a, <2>3, <3>2, <3>4 DEF Perform
    <3>5. CASE o.op \in {"CLEAR_BLOCK", "REGISTER", "ACTIVATE_BLOCK"}
      <4>1. UNCHANGED <<master, activated_at, task_list_id>> /\ BlockChanged(o.op, o.arg)
        BY <2>3, <3>5 DEF Perform
      <4>2. o.arg \in DOMAIN Block
        BY <3>2, <3>5
      <4>3. Content' /\ is_active' \in [DOMAIN Block -> BOOLEAN]
        BY <4>1, <4>2, BlockChangedTyped
      <4> QED
        BY <4>1, <4>3
    <3> QED
      BY <2>3, <3>3, <3>4, <3>5 DEF Perform
  <2>4. /\ master' \in Cycle /\ activated_at' \in 0..OBCT_MAX_CYCLE
        /\ task_list_id' \in DOMAIN Block
        /\ Content' /\ is_active' \in [DOMAIN Block -> BOOLEAN]
    BY <1>8, <1>a, <2>3 DEF EndTask
  <2> QED
    BY <2>1, <2>2, <2>4
<1>9. CASE DeployReadsMaster
  <2>1. activated_at' \in 0..OBCT_MAX_CYCLE
    BY <1>0, <1>9 DEF DeployReadsMaster, Cycle
  <2> QED
    BY <1>a, <1>9, <2>1 DEF DeployReadsMaster, Goto, Label, clock, hist
<1>10. CASE DeployList
  <2>1. task_list' \in Timelines(Packets, TDSP_TASK_MAX)
    BY <1>10, DeploymentIsTimeline DEF DeployList
  <2> QED
    BY <1>a, <1>10, <2>1 DEF DeployList, Return, Label, clock, hist
<1>11. CASE UNCHANGED vars
  BY <1>a, <1>11 DEF vars, clock, info, hist
<1> QED
  BY <1>1, <1>2, <1>3, <1>4, <1>5, <1>6, <1>7, <1>8, <1>9, <1>10, <1>11 DEF Next, MainLoop

-------------------------------------------------------------------------------
(* Each step keeps the order. *)

(* The times that the properties compare are numbers. *)
LEMMA TimesAreNumbers ==
    ASSUME Types
    PROVE  /\ \A i \in 1..Len(ran) : ran[i] \in Nat
           /\ \A j \in 1..Len(task_list) : task_list[j].time \in Nat
           /\ task_list # <<>> => Head(task_list) = task_list[1] /\ Len(task_list) > 0
<1>1. \A i \in 1..Len(ran) : ran[i] \in Time
  BY DEF Types
<1>2. task_list \in Seq(Packets)
  BY DEF Types, Timelines
<1>3. \A j \in 1..Len(task_list) : task_list[j] \in Packets
  BY <1>2
<1>4. \A j \in 1..Len(task_list) : task_list[j].time \in Time
  BY <1>3 DEF Packets
<1>5. task_list # <<>> => Head(task_list) = task_list[1] /\ Len(task_list) > 0
  BY <1>2
<1> QED
  BY <1>1, <1>4, <1>5, TimeInNat

(* The task that starts is later than those that ran, and the first of the list. *)
LEMMA StartKeepsOrder == ASSUME Types, Order, StartTask PROVE Order'
<1> DEFINE t == Head(task_list).time
           n == Len(ran)
<1>1. task_list # <<>> /\ pc = "due" /\ RanBefore
  BY DEF StartTask, Check, Order
<1>2. t = task_list[1].time /\ t \in Nat /\ Len(task_list) \in Nat \ {0}
  BY <1>1, TimesAreNumbers DEF Types, Timelines
<1>3. \A i \in 1..n : ran[i] \in Nat /\ ran[i] < t
  BY <1>1, <1>2, TimesAreNumbers DEF RanBefore
<1>4. /\ n \in Nat /\ Len(ran') = n + 1
      /\ \A i \in 1..(n + 1) : ran'[i] = IF i = n + 1 THEN t ELSE ran[i]
  BY DEF StartTask, Types
<1> HIDE DEF t, n
<1>5. TasksStartInOrder'
  <2> SUFFICES ASSUME NEW i \in 1..(n + 1), NEW j \in 1..(n + 1), i < j
               PROVE  ran'[i] < ran'[j]
    BY <1>4 DEF TasksStartInOrder
  <2>1. i \in 1..n /\ ran'[i] = ran[i]
    BY <1>4
  <2>2. CASE j = n + 1
    BY <1>3, <1>4, <2>1, <2>2
  <2>3. CASE j # n + 1
    <3>1. j \in 1..n /\ ran'[j] = ran[j]
      BY <1>4, <2>3
    <3>2. ran[i] < ran[j]
      BY <2>1, <3>1 DEF Order, TasksStartInOrder, n
    <3> QED
      BY <2>1, <3>1, <3>2
  <2> QED
    BY <2>2, <2>3
<1>6. \A i \in 1..Len(ran') : ran'[i] <= t
  BY <1>2, <1>3, <1>4
<1>7. pc' \in {"on_time", "past_time"} /\ task_list' = task_list
  BY DEF StartTask, Goto, info
<1> QED
  BY <1>1, <1>5, <1>6, <1>7 DEF Order, t

(* After the task that ended come those of later steps. *)
LEMMA EndKeepsOrder == ASSUME Types, Order, EndTask PROVE Order'
<1>1. /\ task_list # <<>> /\ \A i \in 1..Len(ran) : ran[i] <= Head(task_list).time
      /\ pc' = "loop" /\ ran' = ran /\ task_list' = Tail(task_list)
  BY DEF EndTask, Order, Return, DropHead
<1>2. task_list \in Seq(Packets) /\ StrictlyOrdered(task_list)
  BY DEF Types, Timelines
<1>3. /\ Len(task_list') = Len(task_list) - 1 /\ Len(task_list) \in Nat
      /\ \A j \in 1..Len(task_list') : task_list'[j] = task_list[j + 1]
  BY <1>1, <1>2
<1>4. ASSUME NEW i \in 1..Len(ran), NEW j \in 1..Len(task_list')
      PROVE  ran[i] < task_list'[j].time
  <2>1. /\ 1 \in 1..Len(task_list) /\ j + 1 \in 1..Len(task_list)
        /\ 1 < j + 1
    BY <1>3
  <2>2. task_list[1].time < task_list[j + 1].time
    BY <1>2, <2>1 DEF StrictlyOrdered
  <2>3. ran[i] <= task_list[1].time
    <3>1. Head(task_list) = task_list[1]
      BY <1>1, <1>2
    <3> QED
      BY <1>1, <3>1
  <2>4. /\ ran[i] \in Int /\ task_list[1].time \in Int
        /\ task_list[j + 1].time \in Int /\ task_list'[j] = task_list[j + 1]
    BY <1>3, <2>1, TimesAreNumbers
  <2> QED
    BY <2>2, <2>3, <2>4
<1>5. RanBefore'
  BY <1>1, <1>4 DEF RanBefore
<1> QED
  BY <1>1, <1>5 DEF Order, TasksStartInOrder

LEMMA OrderKept == ASSUME Types, Order, [Next]_vars PROVE Order'
<1> USE DEF Order
<1>1. CASE ISR
  <2>1. pc' = pc /\ UNCHANGED <<activated_at, task_list>>
    BY <1>1 DEF ISR, info
  <2>2. CASE CycleEnds
    BY <2>1, <2>2 DEF CycleEnds, RanBefore, TasksStartInOrder
  <2>3. CASE StepEnds
    BY <2>1, <2>3 DEF StepEnds, RanBefore, TasksStartInOrder
  <2> QED
    BY <1>1, <2>2, <2>3 DEF ISR
<1>2. CASE ReadMaster
  <2>1. activated_at \in Int /\ master \in Int
    BY Constants DEF Types, Cycle
  <2> QED
    BY <1>2, <2>1 DEF ReadMaster, Goto, RanBefore, TasksStartInOrder, clock, info, hist
<1>3. CASE ReadMasterAfter
  BY <1>3 DEF ReadMasterAfter, Goto, Return, RanBefore, TasksStartInOrder, clock, info, hist
<1>4. CASE ReadMasterBefore
  BY <1>4 DEF ReadMasterBefore, Goto, Return, RanBefore, TasksStartInOrder, clock, info, hist
<1>5. CASE Overrun
  BY <1>5 DEF Overrun, Goto, Return, RanBefore, TasksStartInOrder, clock, hist
<1>6. CASE StartTask
  BY <1>6, StartKeepsOrder
<1>7. CASE NothingToStart
  BY <1>7 DEF NothingToStart, Goto, Return, RanBefore, TasksStartInOrder, clock, info
<1>8. CASE EndTask
  BY <1>8, EndKeepsOrder
<1>9. CASE DeployReadsMaster
  <2>1. activated_at' > master'
    BY <1>9, Constants DEF DeployReadsMaster, Types, Cycle, clock
  <2> QED
    BY <1>9, <2>1 DEF DeployReadsMaster, Goto, TasksStartInOrder, clock, hist
<1>10. CASE DeployList
  BY <1>10 DEF DeployList, Return, RanBefore, TasksStartInOrder, clock, hist
<1>11. CASE UNCHANGED vars
  BY <1>11 DEF vars, clock, info, hist, RanBefore, TasksStartInOrder
<1> QED
  BY <1>1, <1>2, <1>3, <1>4, <1>5, <1>6, <1>7, <1>8, <1>9, <1>10, <1>11 DEF Next, MainLoop

-------------------------------------------------------------------------------
(* The schedule. *)

LEMMA Products ==
    /\ \A k \in Nat : k * SchedulePassSteps \in Nat
    /\ \A k \in Nat : (k + 1) * SchedulePassSteps = k * SchedulePassSteps + SchedulePassSteps
    /\ 0 * SchedulePassSteps = 0
    /\ 1 * SchedulePassSteps = SchedulePassSteps
<1>1. SchedulePassSteps \in Nat
  BY Constants
<1> QED
  BY <1>1

(* What is left of the list of the normal mode after its first tasks. *)
LEMMA FromProperties ==
    ASSUME NEW i \in 1..(Len(Normal) + 1)
    PROVE  /\ From(i) \in Seq(Packets)
           /\ Len(From(i)) = Len(Normal) - i + 1
           /\ i = 1 => From(i) = Normal
           /\ i = Len(Normal) + 1 <=> From(i) = <<>>
           /\ i <= Len(Normal) => Head(From(i)) = Normal[i] /\ Tail(From(i)) = From(i + 1)
<1>1. Normal \in Seq(Packets) /\ Len(Normal) \in Nat
  BY Constants DEF Normal
<1>2. /\ From(i) \in Seq(Packets)
      /\ Len(From(i)) = Len(Normal) - i + 1
  BY <1>1 DEF From
<1>3. i = 1 => From(i) = Normal
  BY <1>1, SubSeqFull DEF From
<1>4. i = Len(Normal) + 1 <=> From(i) = <<>>
  <2>1. i = Len(Normal) + 1 <=> Len(From(i)) = 0
    BY <1>1, <1>2
  <2> QED
    BY <1>2, <2>1
<1>5. ASSUME i <= Len(Normal)
      PROVE  Head(From(i)) = Normal[i] /\ Tail(From(i)) = From(i + 1)
  <2>1. i \in 1..Len(Normal) /\ Len(Normal) \in i..Len(Normal)
    BY <1>1, <1>5
  <2> QED
    BY <1>1, <2>1, HeadTailOfSubSeq DEF From
<1> QED
  BY <1>2, <1>3, <1>4, <1>5

LEMMA FromAll == Len(Normal) \in Nat /\ From(1) = Normal
<1>1. Len(Normal) \in Nat
  BY Constants DEF Normal
<1>2. 1 \in 1..(Len(Normal) + 1)
  BY <1>1
<1> QED
  BY <1>1, <1>2, FromProperties

(* What the conjuncts of the schedule are about, as numbers. *)
LEMMA ScheduleNumbers ==
    ASSUME Types
    PROVE  /\ step \in Nat /\ elapsed \in Nat /\ master \in Nat /\ activated_at \in Nat
           /\ master < OBCT_MAX_CYCLE /\ step < OBCT_STEPS_PER_CYCLE
           /\ Len(ran) \in Nat /\ Len(Normal) \in Nat
           /\ OBCT_MAX_CYCLE \in Nat \ {0} /\ OBCT_STEPS_PER_CYCLE \in Nat \ {0}
           /\ SchedulePassSteps \in Nat
<1>1. Len(Normal) \in Nat
  BY Constants DEF Normal
<1> QED
  BY <1>1, Constants DEF Types, Cycle

(* OnTime without products: the passes of the tasks not started yet. *)
Rest == (Len(Normal) - Len(ran)) * SchedulePassSteps

LEMMA Unturned == \A n \in Nat \ {0} : \A x \in 0..(n - 1) : x % n = x
OBVIOUS

LEMMA Regrouped ==
    \A s, e, r, p \in Int :
        /\ s - e + (r + p + p) = s - e + r + (p + p)
        /\ s - e + (r + p) = s - e + r + p
OBVIOUS

LEMMA RoomBehind ==
    \A s, t, r, p, n \in Int : s < t /\ t + r + p <= n => s + r + p < n
OBVIOUS

LEMMA OnTimeUnfolded ==
    ASSUME Types, Len(ran) <= Len(Normal)
    PROVE  /\ Rest \in Nat
           /\ OnTime <=> step - elapsed + Rest
                            + (IF InTask THEN SchedulePassSteps + SchedulePassSteps
                               ELSE SchedulePassSteps) < OBCT_STEPS_PER_CYCLE
<1> DEFINE m == Len(Normal) - Len(ran)
<1>1. m \in Nat
  BY ScheduleNumbers
<1>2. /\ m * SchedulePassSteps \in Nat
      /\ (m + 1) * SchedulePassSteps = m * SchedulePassSteps + SchedulePassSteps
      /\ (m + 2) * SchedulePassSteps
           = m * SchedulePassSteps + SchedulePassSteps + SchedulePassSteps
  <2>1. m + 1 \in Nat /\ m + 2 = (m + 1) + 1
    BY <1>1
  <2> HIDE DEF m
  <2>2. (m + 2) * SchedulePassSteps = (m + 1) * SchedulePassSteps + SchedulePassSteps
    BY <2>1, Products
  <2> QED
    BY <1>1, <2>2, Products
<1> HIDE DEF m
<1>3. Rest = m * SchedulePassSteps
  BY DEF Rest, m
<1>4. OnTime <=> step - elapsed + (m + (IF InTask THEN 2 ELSE 1)) * SchedulePassSteps
                   < OBCT_STEPS_PER_CYCLE
  BY DEF OnTime, m
<1>5. CASE InTask
  <2>1. OnTime <=> step - elapsed + (m + 2) * SchedulePassSteps < OBCT_STEPS_PER_CYCLE
    BY <1>4, <1>5
  <2>2. OnTime <=> step - elapsed + (Rest + SchedulePassSteps + SchedulePassSteps)
                      < OBCT_STEPS_PER_CYCLE
    BY <1>2, <1>3, <2>1
  <2>3. Rest \in Nat
    BY <1>2, <1>3
  <2> QED
    BY <1>5, <2>2, <2>3, ScheduleNumbers, Regrouped
<1>6. CASE ~InTask
  <2>1. OnTime <=> step - elapsed + (m + 1) * SchedulePassSteps < OBCT_STEPS_PER_CYCLE
    BY <1>4, <1>6
  <2>2. OnTime <=> step - elapsed + (Rest + SchedulePassSteps) < OBCT_STEPS_PER_CYCLE
    BY <1>2, <1>3, <2>1
  <2>3. Rest \in Nat
    BY <1>2, <1>3
  <2> QED
    BY <1>6, <2>2, <2>3, ScheduleNumbers, Regrouped
<1> QED
  BY <1>2, <1>3, <1>5, <1>6

(* The room for the tasks not started, in the same terms. *)
LEMMA RoomForTheRest ==
    ASSUME Types, Len(ran) <= Len(Normal)
    PROVE  /\ ran = <<>> => Rest + SchedulePassSteps + SchedulePassSteps
                              <= OBCT_STEPS_PER_CYCLE
           /\ Len(ran) < Len(Normal) =>
                Normal[Len(ran) + 1].time + Rest + SchedulePassSteps <= OBCT_STEPS_PER_CYCLE
<1> DEFINE n == Len(Normal)
           k == Len(ran)
<1>1. n \in Nat /\ k \in Nat /\ n - k \in Nat
  BY ScheduleNumbers
<1>2. /\ (n + 2) * SchedulePassSteps <= OBCT_STEPS_PER_CYCLE
      /\ \A i \in 1..n :
           Normal[i].time + (n - i + 2) * SchedulePassSteps <= OBCT_STEPS_PER_CYCLE
  BY ScheduleAssumption DEF Room, Normal
<1>3. Rest = (n - k) * SchedulePassSteps
  BY DEF Rest
<1> HIDE DEF n, k
<1>4. ASSUME k = 0
      PROVE  Rest + SchedulePassSteps + SchedulePassSteps <= OBCT_STEPS_PER_CYCLE
  <2>1. /\ n + 1 \in Nat /\ n + 2 = (n + 1) + 1 /\ n - k = n
    BY <1>1, <1>4
  <2>2. (n + 2) * SchedulePassSteps
          = n * SchedulePassSteps + SchedulePassSteps + SchedulePassSteps
    BY <1>1, <2>1, Products
  <2> QED
    BY <1>2, <1>3, <2>1, <2>2
<1>5. ASSUME k < n
      PROVE  Normal[k + 1].time + Rest + SchedulePassSteps <= OBCT_STEPS_PER_CYCLE
  <2>1. k + 1 \in 1..n /\ n - (k + 1) + 2 = (n - k) + 1
    BY <1>1, <1>5
  <2>2. Normal[k + 1].time + ((n - k) + 1) * SchedulePassSteps <= OBCT_STEPS_PER_CYCLE
    BY <1>2, <2>1
  <2>3. ((n - k) + 1) * SchedulePassSteps = Rest + SchedulePassSteps
    BY <1>1, <1>3, Products
  <2>4. Normal[k + 1].time \in Nat
    <3>1. Normal[k + 1] \in Packets
      BY <2>1, Constants DEF Normal, n
    <3> QED
      BY <3>1, TimeInNat DEF Packets
  <2>5. Rest \in Nat
    BY <1>1, <1>3, Products
  <2>6. Normal[k + 1].time + (Rest + SchedulePassSteps) <= OBCT_STEPS_PER_CYCLE
    BY <2>2, <2>3
  <2> QED
    BY <2>4, <2>5, <2>6, ScheduleNumbers
<1>6. ran = <<>> => k = 0
  BY DEF k
<1> QED
  BY <1>4, <1>5, <1>6 DEF n, k

(* The steps of the timer on schedule: no cycle ends in a pass that may still       *)
(* find tasks, and the list of the next cycle is there when one ends.            *)
LEMMA ISRKeepsSchedule ==
    ASSUME Types, Types', onSchedule, Scheduled, ISR, onSchedule'
    PROVE  Scheduled'
<1> USE ScheduleNumbers
<1>1. /\ elapsed < SchedulePassSteps /\ elapsed' = elapsed + 1
      /\ pc' = pc /\ anomaly' = anomaly /\ cmds' = cmds /\ is_active' = is_active
      /\ activated_at' = activated_at /\ task_list_id' = task_list_id
      /\ task_list' = task_list
  BY DEF ISR, info, bcti
<1>2. /\ elapsed' <= SchedulePassSteps
      /\ (task_list_id = BC_TL_NORMAL
           /\ cmds[BC_TL_NORMAL] = Normal /\ is_active[BC_TL_NORMAL]
           /\ anomaly # "TDSP_CYCLE_OVERRUN")'
  BY <1>1 DEF Scheduled, Normal
<1>3. CASE step + 1 # OBCT_STEPS_PER_CYCLE
  <2>1. step' = step + 1 /\ UNCHANGED <<master, ran, lost>>
    BY <1>3 DEF ISR, StepEnds
  <2>2. step' - elapsed' = step - elapsed
    BY <1>1, <2>1
  <2>3. OnTime => OnTime'
    BY <1>1, <2>1, <2>2 DEF OnTime, InTask
  <2>4. Running => Running'
    BY <1>1, <2>1, <2>3 DEF Running, InTask
  <2>5. Ahead => Ahead'
    BY <1>1, <2>1, <2>2 DEF Ahead, WholeListRan
  <2>6. TurnedOver => TurnedOver'
    BY <1>1 DEF TurnedOver
  <2> QED
    BY <1>2, <2>1, <2>4, <2>5, <2>6 DEF Scheduled
<1>4. CASE step + 1 = OBCT_STEPS_PER_CYCLE
  <2>1. step' = 0 /\ master' = (master + 1) % OBCT_MAX_CYCLE /\ ran' = <<>>
        /\ lost' = ~WholeListRan
    BY <1>4 DEF ISR, CycleEnds
  <2>2. ~Running
    <3>1. ASSUME Running PROVE FALSE
      <4>1. /\ Rest \in Nat
            /\ step - elapsed + Rest + SchedulePassSteps < OBCT_STEPS_PER_CYCLE
        BY <3>1, OnTimeUnfolded DEF Running
      <4> QED
        BY <1>1, <1>4, <4>1
    <3> QED
      BY <3>1
  <2>3. TurnedOver => TurnedOver'
    BY <1>1 DEF TurnedOver
  <2>4. ASSUME Ahead, ~lost
        PROVE  TurnedOver' \/ (Running /\ ~lost)'
    <3>1. pc \in {"loop", "not_due"} /\ task_list = Normal /\ WholeListRan
          /\ activated_at = master + 1
      BY <1>1, <1>4, <2>4 DEF Ahead
    <3>2. CASE master + 1 = OBCT_MAX_CYCLE
      BY <1>1, <3>1, <3>2 DEF TurnedOver
    <3>3. CASE master + 1 # OBCT_MAX_CYCLE
      <4>1. master' = master + 1
        <5>1. master + 1 \in 0..(OBCT_MAX_CYCLE - 1)
          BY <3>3
        <5> QED
          BY <2>1, <5>1, Unturned
      <4>2. /\ Len(ran') = 0 /\ ~InTask'
            /\ task_list' = From(1)
        <5>1. Len(ran') = 0
          BY <2>1
        <5>2. pc' = pc /\ task_list' = task_list
          BY DEF ISR, info
        <5> QED
          BY <3>1, <5>1, <5>2, FromAll DEF InTask
      <4>3. Rest' + SchedulePassSteps + SchedulePassSteps <= OBCT_STEPS_PER_CYCLE
            /\ Rest' \in Nat
        <5>1. ran' = <<>> /\ Len(ran') <= Len(Normal)
          BY <2>1, <4>2
        <5>2. (Types /\ Len(ran) <= Len(Normal))'
          BY <5>1 DEF Normal
        <5>3. (Rest \in Nat)'
          BY <5>2, OnTimeUnfolded, PTL
        <5>4. (ran = <<>> => Rest + SchedulePassSteps + SchedulePassSteps
                               <= OBCT_STEPS_PER_CYCLE)'
          BY <5>2, RoomForTheRest, PTL
        <5> QED
          BY <5>1, <5>3, <5>4
      <4>4. OnTime'
        <5>1. (Types /\ Len(ran) <= Len(Normal))'
          BY <4>2 DEF Normal
        <5>2. (OnTime <=> step - elapsed + Rest
                            + (IF InTask THEN SchedulePassSteps + SchedulePassSteps
                               ELSE SchedulePassSteps) < OBCT_STEPS_PER_CYCLE)'
          BY <5>1, OnTimeUnfolded, PTL
        <5>3. step' - elapsed' + Rest' + SchedulePassSteps < OBCT_STEPS_PER_CYCLE
          <6> DEFINE rest == Rest'
          <6>1. /\ rest \in Nat /\ rest + SchedulePassSteps + SchedulePassSteps
                                     <= OBCT_STEPS_PER_CYCLE
                /\ step' - elapsed' = 0 - (elapsed + 1) /\ elapsed \in Nat
                /\ step' - elapsed' \in Int
            BY <1>1, <2>1, <4>3
          <6> HIDE DEF rest
          <6>2. step' - elapsed' + rest + SchedulePassSteps < OBCT_STEPS_PER_CYCLE
            BY <6>1
          <6> QED
            BY <6>2 DEF rest
        <5> QED
          BY <4>2, <5>2, <5>3
      <4>5. Running'
        BY <1>1, <2>1, <3>1, <4>1, <4>2, <4>4 DEF Running, InTask
      <4> QED
        BY <2>1, <3>1, <4>5
    <3> QED
      BY <3>2, <3>3
  <2> QED
    BY <1>2, <2>2, <2>3, <2>4 DEF Scheduled
<1> QED
  BY <1>3, <1>4

(* A pass that ends in time leaves the next one its time. *)
LEMMA ReturnOnTime ==
    ASSUME Types, Len(ran) <= Len(Normal),
           step + Rest + SchedulePassSteps < OBCT_STEPS_PER_CYCLE,
           step' = step, elapsed' = 0, ran' = ran, ~InTask'
    PROVE  OnTime'
<1>1. /\ Rest = (Len(Normal) - Len(ran)) * SchedulePassSteps
      /\ (Len(Normal) - Len(ran) + 1) * SchedulePassSteps = Rest + SchedulePassSteps
      /\ Rest \in Nat
  <2>1. Len(Normal) - Len(ran) \in Nat
    BY ScheduleNumbers
  <2> QED
    BY <2>1, Products DEF Rest
<1>2. step - 0 + (Len(Normal) - Len(ran) + 1) * SchedulePassSteps < OBCT_STEPS_PER_CYCLE
  BY <1>1, ScheduleNumbers
<1> QED
  BY <1>2 DEF OnTime

(* The reads of the clock on schedule. *)
LEMMA ReadsKeepSchedule ==
    ASSUME Types, Scheduled, ReadMaster \/ ReadMasterAfter \/ ReadMasterBefore
    PROVE  Scheduled'
<1> USE ScheduleNumbers
<1>1. /\ UNCHANGED <<master, step, activated_at, task_list_id, task_list, cmds, is_active,
                     anomaly, ran, lost>>
  BY DEF ReadMaster, ReadMasterAfter, ReadMasterBefore, clock, info, bcti, hist
<1>2. elapsed' \in {elapsed, 0}
  BY DEF ReadMaster, ReadMasterAfter, ReadMasterBefore, Goto, Return
<1>3. /\ elapsed' <= SchedulePassSteps
      /\ (task_list_id = BC_TL_NORMAL
           /\ cmds[BC_TL_NORMAL] = Normal /\ is_active[BC_TL_NORMAL]
           /\ anomaly # "TDSP_CYCLE_OVERRUN")'
  BY <1>1, <1>2 DEF Scheduled, Normal
<1>4. CASE TurnedOver
  <2>1. activated_at > master
    BY <1>4 DEF TurnedOver
  <2>2. pc' \in {"loop", "not_due"}
    BY <1>4, <2>1 DEF TurnedOver, ReadMaster, ReadMasterAfter, ReadMasterBefore, Goto, Return
  <2> QED
    BY <1>1, <1>3, <1>4, <2>2 DEF TurnedOver, Scheduled
<1>5. CASE Ahead /\ ~lost
  <2>1. activated_at > master
    BY <1>5 DEF Ahead
  <2>2. pc' \in {"loop", "not_due"} /\ pc # "load"
    BY <1>5, <2>1 DEF Ahead, ReadMaster, ReadMasterAfter, ReadMasterBefore, Goto, Return
  <2>3. Ahead'
    BY <1>1, <1>5, <2>2 DEF Ahead, WholeListRan
  <2> QED
    BY <1>1, <1>3, <1>5, <2>3 DEF Scheduled
<1>6. CASE Running /\ ~lost
  <2>1. activated_at = master
    BY <1>6 DEF Running
  <2>2. CASE ReadMaster \/ ReadMasterAfter
    <3>1. /\ elapsed' = elapsed /\ ~InTask /\ ~InTask'
          /\ \/ pc = "loop" /\ pc' = "due"
             \/ pc = "not_due" /\ pc' = "not_after"
      BY <2>1, <2>2 DEF ReadMaster, ReadMasterAfter, Goto, Return, InTask
    <3>2. OnTime'
      BY <1>1, <1>6, <3>1 DEF Running, OnTime
    <3>3. Running'
      BY <1>1, <1>6, <3>1, <3>2 DEF Running
    <3> QED
      BY <1>1, <1>3, <1>6, <3>3 DEF Scheduled
  <2>3. CASE ReadMasterBefore
    <3>1. /\ pc = "not_after" /\ pc' = "loop" /\ elapsed' = 0 /\ ~InTask /\ ~InTask'
      BY <2>1, <2>3 DEF ReadMasterBefore, Goto, Return, InTask
    <3>2. ran = <<>> /\ step < SchedulePassSteps
      BY <1>6, <3>1 DEF Running, Scheduled
    <3>3. /\ Len(ran) <= Len(Normal)
          /\ Rest \in Nat /\ Rest + SchedulePassSteps + SchedulePassSteps
                               <= OBCT_STEPS_PER_CYCLE
      BY <1>6, <3>2, OnTimeUnfolded, RoomForTheRest DEF Running
    <3>4. step + Rest + SchedulePassSteps < OBCT_STEPS_PER_CYCLE
      BY <3>2, <3>3
    <3>5. OnTime'
      BY <1>1, <3>1, <3>3, <3>4, ReturnOnTime
    <3>6. Running'
      BY <1>1, <1>6, <3>1, <3>5 DEF Running
    <3> QED
      BY <1>1, <1>3, <1>6, <3>6 DEF Scheduled
  <2> QED
    BY <2>2, <2>3
<1> QED
  BY <1>4, <1>5, <1>6 DEF Scheduled

(* A pass ends and the next begins. *)
LEMMA TasksKeepSchedule ==
    ASSUME Types, onSchedule, Scheduled, StartTask \/ NothingToStart \/ EndTask, onSchedule'
    PROVE  Scheduled'
<1> USE ScheduleNumbers
<1> DEFINE k == Len(ran)
           n == Len(Normal)
<1>1. /\ Running /\ ~lost /\ pc \in {"due", "on_time", "past_time"}
      /\ k <= n /\ k \in Nat /\ n \in Nat
  BY DEF Scheduled, Ahead, TurnedOver, Running, StartTask, NothingToStart, EndTask
<1>2. /\ activated_at = master
      /\ \A i \in 1..k : ran[i] = Normal[i].time
      /\ task_list = IF InTask THEN From(k) ELSE From(k + 1)
      /\ InTask => k > 0
  BY <1>1 DEF Running
<1>3. /\ Rest \in Nat
      /\ step - elapsed + Rest + (IF InTask THEN SchedulePassSteps + SchedulePassSteps
                                  ELSE SchedulePassSteps) < OBCT_STEPS_PER_CYCLE
  BY <1>1, OnTimeUnfolded DEF Running
<1>4. UNCHANGED <<master, step, activated_at, task_list_id, cmds, is_active, lost>>
  BY DEF StartTask, NothingToStart, EndTask, clock, info, bcti
<1>5. /\ elapsed' \in {elapsed, 0}
      /\ anomaly' # "TDSP_CYCLE_OVERRUN"
  BY DEF Scheduled, StartTask, NothingToStart, EndTask, Goto, Return
<1>6. /\ elapsed' <= SchedulePassSteps
      /\ (task_list_id = BC_TL_NORMAL
           /\ cmds[BC_TL_NORMAL] = Normal /\ is_active[BC_TL_NORMAL])'
  BY <1>4, <1>5 DEF Scheduled, Normal
<1>7. CASE StartTask
  <2>1. /\ pc = "due" /\ task_list # <<>> /\ task_list' = task_list /\ elapsed' = elapsed
        /\ pc' \in {"on_time", "past_time"}
        /\ ran' = Append(ran, Head(task_list).time)
    BY <1>7 DEF StartTask, Check, Goto, info
  <2>2. k + 1 \in 1..(n + 1) /\ task_list = From(k + 1)
    BY <1>1, <1>2, <2>1 DEF InTask
  <2>3. k < n /\ Head(task_list) = Normal[k + 1]
    <3>1. k + 1 # n + 1
      BY <2>1, <2>2, FromProperties
    <3>2. k < n /\ k + 1 <= n
      BY <1>1, <3>1
    <3> QED
      BY <2>2, <3>2, FromProperties
  <2>4. /\ Len(ran') = k + 1
        /\ \A i \in 1..(k + 1) : ran'[i] = Normal[i].time
    <3>1. /\ Len(ran') = k + 1 /\ ran'[k + 1] = Head(task_list).time
          /\ \A i \in 1..k : ran'[i] = ran[i]
      BY <2>1 DEF Types
    <3>2. \A i \in 1..(k + 1) : i = k + 1 \/ i \in 1..k
      BY <1>1
    <3> QED
      BY <1>2, <2>3, <3>1, <3>2
  <2>5. OnTime'
    <3>1. n - (k + 1) + 2 = n - k + 1
      BY <1>1
    <3>2. step - elapsed + (n - k + 1) * SchedulePassSteps < OBCT_STEPS_PER_CYCLE
      BY <1>1, <2>1 DEF Running, OnTime, InTask
    <3>3. Len(ran') = k + 1 /\ InTask' /\ step' = step /\ elapsed' = elapsed
      BY <1>4, <2>1, <2>4 DEF InTask
    <3> QED
      BY <3>1, <3>2, <3>3 DEF OnTime
  <2>6. Running'
    BY <1>1, <1>2, <1>4, <2>1, <2>2, <2>3, <2>4, <2>5 DEF Running, InTask
  <2> QED
    BY <1>1, <1>4, <1>5, <1>6, <2>6 DEF Scheduled
<1>8. CASE NothingToStart
  <2>1. /\ pc = "due" /\ task_list' = task_list /\ ran' = ran
        /\ task_list = From(k + 1) /\ k + 1 \in 1..(n + 1)
    BY <1>1, <1>2, <1>8 DEF NothingToStart, info, InTask
  <2>2. CASE task_list = <<>>
    <3>0. k + 1 = n + 1
      BY <2>1, <2>2, FromProperties
    <3>1. k = n /\ pc' = "deploy" /\ elapsed' = elapsed
      BY <1>1, <1>8, <2>2, <3>0 DEF NothingToStart, Goto
    <3>2. OnTime'
      BY <1>1, <1>4, <2>1, <3>1 DEF Running, OnTime, InTask
    <3>3. Running'
      BY <1>1, <1>2, <1>4, <2>1, <3>1, <3>2 DEF Running, InTask
    <3> QED
      BY <1>1, <1>4, <1>5, <1>6, <3>3 DEF Scheduled
  <2>3. CASE task_list # <<>>
    <3>1. pc' = "loop" /\ elapsed' = 0 /\ step < Head(task_list).time
      BY <1>8, <2>3 DEF NothingToStart, Check, Return
    <3>0. k + 1 # n + 1
      BY <2>1, <2>3, FromProperties
    <3>2. k < n /\ Head(task_list) = Normal[k + 1]
      <4>1. k < n
        BY <1>1, <3>0
      <4>2. Head(From(k + 1)) = Normal[k + 1]
        <5>1. k + 1 <= n
          BY <1>1, <4>1
        <5> QED
          BY <2>1, <5>1, FromProperties
      <4> QED
        BY <2>1, <4>1, <4>2
    <3>3. Normal[k + 1].time + Rest + SchedulePassSteps <= OBCT_STEPS_PER_CYCLE
      BY <1>1, <3>2, RoomForTheRest
    <3>4. Normal[k + 1].time \in Nat
      BY <2>3, <3>2, TimesAreNumbers, <1>1 DEF Types, Timelines
    <3>5. step + Rest + SchedulePassSteps < OBCT_STEPS_PER_CYCLE
      <4> HIDE DEF k, n
      <4>1. step < Normal[k + 1].time
        BY <3>1, <3>2
      <4>2. Rest \in Nat
        BY <1>3
      <4>3. step \in Nat /\ SchedulePassSteps \in Nat /\ OBCT_STEPS_PER_CYCLE \in Nat
        OBVIOUS
      <4> HIDE ScheduleNumbers
      <4> QED
        BY <3>3, <3>4, <4>1, <4>2, <4>3, RoomBehind
    <3>6. OnTime'
      BY <1>1, <1>4, <2>1, <3>1, <3>5, ReturnOnTime DEF InTask
    <3>7. Running'
      BY <1>1, <1>2, <1>4, <2>1, <3>1, <3>6 DEF Running, InTask
    <3> QED
      BY <1>1, <1>4, <1>5, <1>6, <3>7 DEF Scheduled
  <2> QED
    BY <2>2, <2>3
<1>9. CASE EndTask
  <2>1. /\ InTask /\ pc' = "loop" /\ elapsed' = 0 /\ ran' = ran
        /\ task_list' = DropHead(task_list)
    BY <1>9 DEF EndTask, Return, InTask
  <2>2. k \in 1..(n + 1) /\ k <= n /\ task_list = From(k) /\ k # n + 1
    BY <1>1, <1>2, <2>1
  <2>3. task_list' = From(k + 1)
    BY <2>1, <2>2, FromProperties DEF DropHead
  <2>4. step + Rest + SchedulePassSteps < OBCT_STEPS_PER_CYCLE
    BY <1>3, <2>1 DEF Scheduled
  <2>5. OnTime'
    BY <1>1, <1>4, <2>1, <2>4, ReturnOnTime DEF InTask
  <2>6. Running'
    BY <1>1, <1>2, <1>4, <2>1, <2>3, <2>5 DEF Running, InTask
  <2> QED
    BY <1>1, <1>4, <1>5, <1>6, <2>6 DEF Scheduled
<1> QED
  BY <1>7, <1>8, <1>9

(* The deployment on schedule, for the next cycle. *)
LEMMA DeployKeepsSchedule ==
    ASSUME Types, Order, Scheduled, DeployReadsMaster \/ DeployList
    PROVE  Scheduled'
<1> USE ScheduleNumbers
<1>1. /\ UNCHANGED <<master, step, task_list_id, cmds, is_active, ran, lost>>
      /\ elapsed' \in {elapsed, 0}
  BY DEF DeployReadsMaster, DeployList, clock, bcti, hist, Goto, Return
<1>2. anomaly' # "TDSP_CYCLE_OVERRUN"
  BY DEF DeployReadsMaster, DeployList, Scheduled
<1>3. /\ elapsed' <= SchedulePassSteps
      /\ (task_list_id = BC_TL_NORMAL
           /\ cmds[BC_TL_NORMAL] = Normal /\ is_active[BC_TL_NORMAL])'
  BY <1>1 DEF Scheduled, Normal
<1>4. CASE DeployReadsMaster
  <2>1. /\ pc = "deploy" /\ pc' = "load" /\ elapsed' = elapsed
        /\ activated_at' = master + 1 /\ task_list' = task_list
    BY <1>4 DEF DeployReadsMaster, Goto
  <2>2. Running /\ ~lost /\ Len(ran) = Len(Normal) /\ task_list = <<>>
    BY <2>1 DEF Scheduled, Ahead, TurnedOver, Running, Order
  <2>3. {ran[i] : i \in 1..Len(ran)} = Times(Normal)
    BY <2>2 DEF Running, Times
  <2>4. WholeListRan'
    BY <1>1, <2>3 DEF WholeListRan, Scheduled
  <2>5. step - elapsed + SchedulePassSteps < OBCT_STEPS_PER_CYCLE
    BY <2>1, <2>2, OnTimeUnfolded DEF Running, InTask
  <2>6. Ahead'
    BY <1>1, <2>1, <2>2, <2>4, <2>5 DEF Ahead
  <2> QED
    BY <1>1, <1>2, <1>3, <2>2, <2>6 DEF Scheduled
<1>5. CASE DeployList
  <2>1. /\ pc = "load" /\ pc' = "loop" /\ activated_at' = activated_at
        /\ task_list' = Deployment.list
    BY <1>5 DEF DeployList, Return
  <2>2. task_list' = Normal
    BY <2>1, NormalDeployment DEF Order, Scheduled
  <2>3. Ahead => Ahead'
    BY <1>1, <2>1, <2>2 DEF Ahead, WholeListRan
  <2>4. TurnedOver => TurnedOver'
    BY <2>1 DEF TurnedOver
  <2>5. ~Running
    BY <2>1 DEF Running
  <2> QED
    BY <1>1, <1>2, <1>3, <2>3, <2>4, <2>5 DEF Scheduled
<1> QED
  BY <1>4, <1>5

-------------------------------------------------------------------------------
LEMMA StepKeepsIInv == ASSUME IInv, [Next]_vars PROVE IInv'
<1>1. Types' /\ Order'
  BY TypesKept, OrderKept DEF IInv
<1>2. onSchedule' \in BOOLEAN /\ (onSchedule' => onSchedule)
  <2>1. CASE UNCHANGED onSchedule
    BY <2>1 DEF IInv
  <2>2. CASE onSchedule' = (onSchedule /\ elapsed < SchedulePassSteps)
    BY <2>2 DEF IInv
  <2>3. CASE onSchedule' = FALSE
    BY <2>3
  <2> QED
    BY <2>1, <2>2, <2>3
    DEF Next, MainLoop, vars, hist, ISR, ReadMaster, ReadMasterAfter, ReadMasterBefore,
        Overrun, StartTask, NothingToStart, EndTask, DeployReadsMaster, DeployList
<1>3. ASSUME onSchedule'
      PROVE  Scheduled'
  <2>1. Types /\ Order /\ onSchedule /\ Scheduled
    BY <1>2, <1>3 DEF IInv
  <2>2. CASE ISR
    BY <1>1, <1>3, <2>1, <2>2, ISRKeepsSchedule
  <2>3. CASE ReadMaster \/ ReadMasterAfter \/ ReadMasterBefore
    BY <2>1, <2>3, ReadsKeepSchedule
  <2>4. CASE Overrun
    BY <2>1, <2>4 DEF Overrun, Scheduled, Running, Ahead, TurnedOver, bcti
  <2>5. CASE StartTask \/ NothingToStart \/ EndTask
    BY <1>3, <2>1, <2>5, TasksKeepSchedule
  <2>6. CASE DeployReadsMaster \/ DeployList
    BY <2>1, <2>6, DeployKeepsSchedule
  <2>7. CASE UNCHANGED vars
    BY <2>1, <2>7 DEF vars, clock, info, bcti, hist, Scheduled, Running, Ahead, TurnedOver,
                      OnTime, InTask, WholeListRan, Normal
  <2> QED
    BY <2>2, <2>3, <2>4, <2>5, <2>6, <2>7 DEF Next, MainLoop
<1> QED
  BY <1>1, <1>2, <1>3 DEF IInv

LEMMA InitIsIInv == ASSUME Init PROVE IInv
<1>1. task_list = Normal /\ Normal \in Seq(Packets) /\ Len(Normal) <= TDSP_TASK_MAX
  BY NormalAsItIs, Constants DEF Init, Normal
<1>2. task_list \in Timelines(Packets, TDSP_TASK_MAX)
  BY <1>1, ScheduleAssumption DEF Timelines, Normal
<1>3. /\ master \in Cycle /\ task_list_id = BC_TL_NORMAL /\ step = 0 /\ elapsed = 0
      /\ activated_at = 0 /\ cmds = [b \in DOMAIN Block |-> Block[b]]
      /\ is_active = [b \in DOMAIN Block |-> TRUE] /\ pc = "loop"
      /\ ran = <<>> /\ lost = FALSE /\ anomaly = "none" /\ onSchedule = (master = 0)
  BY TaskAssumption DEF Init
<1>4. Types
  <2>1. Content
    BY <1>3, Constants DEF Content
  <2> QED
    BY <1>2, <1>3, <2>1, Constants DEF Types, Label
<1>5. Order
  BY <1>3 DEF Order, RanBefore, TasksStartInOrder
<1>6. ASSUME onSchedule
      PROVE  Scheduled
  <2>1. master = 0
    BY <1>3, <1>6
  <2>2. /\ Len(ran) = 0 /\ ~InTask /\ task_list = From(1) /\ Len(ran) <= Len(Normal)
    BY <1>1, <1>3, <1>4, FromProperties, ScheduleNumbers DEF InTask
  <2>3. Rest \in Nat /\ Rest + SchedulePassSteps + SchedulePassSteps <= OBCT_STEPS_PER_CYCLE
    BY <1>3, <1>4, <2>2, OnTimeUnfolded, RoomForTheRest
  <2>4. 0 - 0 + Rest + SchedulePassSteps < OBCT_STEPS_PER_CYCLE
    <3>1. SchedulePassSteps = 0 => Rest = 0
      BY <1>4, ScheduleNumbers DEF Rest
    <3> QED
      BY <1>4, <2>3, <3>1, ScheduleNumbers
  <2>5. OnTime
    BY <1>3, <1>4, <2>2, <2>4, OnTimeUnfolded
  <2>6. Running
    BY <1>3, <2>1, <2>2, <2>5 DEF Running, InTask
  <2> QED
    BY <1>3, <1>4, <2>6, Constants, ScheduleNumbers DEF Scheduled, Normal
<1> QED
  BY <1>3, <1>4, <1>5, <1>6 DEF IInv

LEMMA Invariance == Spec => []IInv
BY InitIsIInv, StepKeepsIInv, PTL DEF Spec

(* Within a cycle the tasks start in the order of their steps and none twice,       *)
(* whatever the task lists, the operations of tasks and the length of the passes,   *)
(* and wherever the interrupt comes between the reads of                          *)
(* TDSP_execute_pl_as_task_list.                                               *)
THEOREM InOrder == Spec => []TasksStartInOrder
<1>1. IInv => TasksStartInOrder
  BY DEF IInv, Order
<1> QED
  BY <1>1, Invariance, PTL

(* For every task list whose steps leave room (Room), passes within                *)
(* SchedulePassSteps are never taken for an overrun.                              *)
THEOREM NoOverrun == Spec => []NoOverrunOnSchedule
<1>1. IInv => NoOverrunOnSchedule
  BY DEF IInv, Scheduled, NoOverrunOnSchedule
<1> QED
  BY <1>1, Invariance, PTL

(* Nor is a cycle lost on such a schedule before the counter turns over: each       *)
(* runs the whole list of TDSP_deploy_block_as_task_list_.                        *)
THEOREM WholeLists == Spec => []NoCycleLost
<1>1. IInv => NoCycleLost
  BY DEF IInv, Scheduled, NoCycleLost, TurnedOver
<1> QED
  BY <1>1, Invariance, PTL
===============================================================================
