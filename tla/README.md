# TLA+ models of the OPTIMAL-1 C&DH flight software

OPTIMAL-1 is a CubeSat. The code in `src/CDH` is the software of its command and
data handling computer: a PIC32 with no operating system, one main loop and one
timer interrupt. This directory models it in TLA+, checks the models with
TLC on small instances, and proves theorems about them with TLAPS.

`PROJECT.json` lists the components, the runs, the lines each definition stands for
(`map`), the mutants, and the hazards of the code with the properties that cover them.

## 1. The system

`setup()` (`CDH.ino` 95-133) starts the devices and the components in a fixed
order. A timer then interrupts every millisecond and counts the time up
(`TMGR_count_up`, 50 steps to a cycle, 20 cycles to a second). `loop()` calls
`TDSP_execute_pl_as_task_list` and `TLMD_execute` for ever. A *task list* is a block
of commands, each with the step of the cycle in which it is to run; the tasks are
applications (`AppRegistry`), and some applications are dispatchers of commands.
Two tasks of the normal list rotate a block each, so that the applications of the block
TLMCMD come every 5 cycles and those of PERIPHERAL every 7.
Nothing preempts the main loop but the interrupt, and there is no watchdog: a task
that blocks, blocks everything.

A command reaches its handler in one of these ways:

    ground --> serial input / LoRa --> PacketHandler --+--> realtime list ----+
                                                       +--> timeline (cycle) -+-> cmd_analyze -> handler
      other blocks, anomaly rules, autonomous control -+--> FRAM timeline ----+
                                                       +--> block table --> DEPLOY / ROTATE / COMBINE

and telemetry leaves in one of these:

    frames, mission packets, replays --> add_rt_tlm --+--> list of telemetry --> transmitter
                                                      +--> recorder (flash)
                                                      +--> LoRa line of the mission

### 1.1 Components

| Component | State | Operations | Correct when |
|---|---|---|---|
| Packet lists (`PacketList`) | a stock of nodes, chained into an active and a free list; counters | push, insert in order of time, drop head, drop any, clear, initialise, deploy a block | no node is lost, the links are those of a queue, a timeline stays in order |
| Timeline (`TL_CmdDispatcher`) | the list of commands by master cycle | register, dispatch one per call, deploy a block, clear all, clear one | commands leave in their cycle or the next; none starves |
| Task dispatcher (`TaskDispatcher`, `CommandDispatcher`) | the task list, the cycle it is for | a pass: start a task, wait, deploy for the next cycle, report an overrun | each task once per cycle, in order, in its cycle |
| Mission time (`OBCTime`, `TimeManager`) | master, step, mode time, seconds | interrupt, set, synchronise, restart | the second is right through settings, overflows and restarts; commands for a second run in it |
| Real-time clock (`RTC`, `RX8900`) | the date in a chip | set, read | the day read is the day set, and the days counted since |
| Operation modes (`ModeManager`, `ModeDefinisions`) | mode, previous mode, status, tables; the mode in FRAM | start, finish, set list, set table, boot | a transition ends; a boot finds the mode |
| Anomaly log (`AnomalyLogger`) | records of runs of alike anomalies | add, clear | no anomaly is lost while there is room |
| Anomaly handler (`AnomalyHandler`) | 16 rules, which are active, its place in the log | look, register, activate, inactivate, clear | what is new is looked at, once |
| FRAM timeline (`FRAM_cmd_manager`, `FRAM_TL_CmdDispatcher`) | 62 slots of a time and a packet, in FRAM | register, dispatch, clear by slot, time or all | each command once, whole, in its second, through power losses |
| Stored blocks (`FRAM_cmd_manager`) | 32 blocks of 14 commands in FRAM, a write position | register, remove, activate, deploy, read out | a block is stored as the ground was answered |
| Autonomous control | restart counters and 16 actions in FRAM | at boot, execute, clear | each action once, in order, until the ground is heard |
| Block command table | 10 blocks of commands in RAM, a write position | clear, register, activate, rotate, combine | what runs was registered since the block was cleared |
| Packet handler | six lists and their routing | parse, route, despatch | a packet is extracted whole; it goes where it belongs, once |
| Realtime commands | a list of 4 | dispatch one per call | order of arrival; refusals do no harm |
| Under-voltage control (`UVC_app`) | level, thresholds, three counters | a measurement | a low voltage is answered, and so is its return |
| Power (`EPS`, `PCU`, `PDU`) | switches, saved in FRAM | switch, restore | the saved and the real switches agree |
| Transmitter (`STRX_update`) | on/off times, burst, settings | transmit cycle, set, burst, locks | off when its time is over, on with its settings |
| Telemetry (`TlmDispatcher`, `RT_TlmDispatcher`, `tlm_frame`, `OBC_/Stored_TlmGenerator`) | one buffer, counts, a list of 12, the pace | generate, send, watch the transmitter | packets are whole and numbered; the satellite is heard |
| Data recorder (`DataRecorderManager`, `MSN_PacketHandler`) | pointers, counters; sectors of a flash | write, replay, erase, find the pointer | what was written can be replayed; no other page is touched |
| Command input (`CommonSerialReceiver`, `GS_DataHandler`, `LoRaCmd_handler`) | partial packets | bytes, acknowledgement | a spoilt packet costs few others |
| Sensors, drivers, mathematics, debugging | registers | I/O | out of scope, see section 7 |

They interact by calls from the one main loop; by the interrupt, which shares the
mission time with it; by packets that one component puts on the list of another (a
response to an anomaly is a block on the timeline, a mode transition too); and by
FRAM, which carries the mode, the slots, the stored blocks and the settings over a
restart.

### 1.2 What is hard

* **The interrupt** changes the clock between any two reads of it in one pass.
* **Power loss**: FRAM is written byte by byte, and the code has no transactions.
* **The time** turns over, overflows in milliseconds after 49.7 days, is set from the ground,
  and starts anew at a restart.
* **Lists of a few entries** fill up; the refusal is often not looked at.
* **Commands that change what runs them**: the task list, the timeline, the rules, the blocks.
* **Statics**: one buffer for all telemetry, one counter for two recorders, two state
  machines that read the same bytes; what a packet, a replay or a lock leaves behind is
  found by the next.
* **Long sequences** of legal commands: a rule made active again, a transition over
  a transition, a side of the power supply changed in the middle of a round.

The hazards in `PROJECT.json` list these at the lines where they bite.

## 2. The modules

| Module | Models | Uses |
|---|---|---|
| `PacketList` | the operations on a list as operators on sequences, `PL_deploy_block_cmd` with its retries | |
| `PacketQueue` | abstract specification: the queue that users of a list rely on | `PacketList` |
| `PacketListNodes` | the nodes and links of `PacketList.cpp`; implements `PacketQueue` | `PacketQueue` (INSTANCE) |
| `TL_CmdDispatcher` | the timeline of commands | `PacketList` |
| `TaskDispatcher` | main loop against the interrupt | `PacketList` |
| `FlightMode` | modes composed with the timeline, FRAM, the response to an anomaly, restarts | |
| `AnomalyHandler` | log and handler | |
| `FramTlc` | the timeline in FRAM, write by write | |
| `StoredBlocks` | the blocks in FRAM against a link that loses packets; autonomous control | |
| `Power` | the switches, their record in FRAM, the measurements | |
| `UnderVoltage` | under-voltage control composed with log, rules, blocks and timeline | |
| `Downlink` | transmitter, its configuration over the list of realtime commands, the watch over it | |
| `Recorder` | two recorders in flash memories | |
| `Uplink` | bytes to packets: the reception and the extraction | |
| `GroundLink` | ground, radio, acknowledgement, telemetry at an interval, the list it leaves by | `Uplink` |
| `TlmFrames` | the thirteen frames, field by field | |
| `Telemetry` | who makes packets in the one buffer, their counts, and where they go | `TlmFrames` |
| `BlockTable` | the table of blocks edited while it runs | |
| `Clock` | master cycle and Unix time in words that overflow | |
| `Calendar` | the date on its way into the RTC and back | |
| `Applications` | `Telemetry`, `UnderVoltage`, `BlockTable`, `Clock` and `Calendar`, composed | `Telemetry`, the others (INSTANCE) |
| `Storage` | `FramTlc`, `StoredBlocks`, `Power` and `Recorder`, composed | `FramTlc`, the others (INSTANCE) |
| `PacketListProofs`, `TimelineProofs`, `TaskDispatcherProofs`, `AnomalyHandlerProofs`, `FlightModeProofs`, `ApplicationsProofs`, `StorageProofs`, `DownlinkProofs` | theorems (section 5) | what they are about, `TLAPS` |
| `MC*` | the constants of the runs | what they run |

### PacketList, PacketQueue, PacketListNodes
A list in `PacketList.cpp` is a stock of nodes chained into an active and a free
list. `PacketListNodes` has a variable for each pointer and one action for each
operation, split where the code treats head, tail and middle apart. An index past
the stock or a NULL that is followed is the variable `fault`. `PacketQueue` says what
the dispatchers expect - a sequence, in order of time when the list is a timeline -
and is checked as a property under the refinement that reads the active chain.
The other modules then use sequences. The deployment of a block is the recursion-free
`Deploy` of `PacketList`: commands and retries are iterations, so that they can be
proved about. A time has four bytes in base `Byte` (256 in the code), because the
retry reverses them.

### TL_CmdDispatcher
`Call` is one call of the application, which executes at most one command. `GroundCommand`
is a realtime command that deploys or clears; `GroundRegister` puts a command on the timeline.
`Tick` ends a cycle, in which the application is called at least once (the variable `called`:
the task list has it once). Lost cycles belong to `TaskDispatcher`. `trapped` is the processor
that has followed a NULL pointer: `PL_drop_node` of the only node does (`PacketList.cpp`
337-340). What follows a trap is a restart, with an empty list and the cycle saved in FRAM.

### TaskDispatcher
One action for each read of the shared clock in `TDSP_execute_pl_as_task_list` and
in the deployment; `pc` is the line. `ISR` may run between any two of them, as often as
`PassSteps` allows in one pass: a task may take two cycles and more. The end of a task may be a
command that exchanges, clears or activates the list, or sets the clock. `ran`,
`lost` (a cycle has gone by without its whole list) and `onSchedule` record history for the properties.
`Room` is what a list must leave for its schedule to be kept; the list of the source (10 tasks at the steps 0 to 9
of 50, `NormalTL.cpp`) has it for passes of up to 4 steps.

### FlightMode
A transition deploys a block whose last command ends it. The block is put on the
timeline command by command (`DeployOne`), the mode is written to FRAM in two writes,
and the power may fail between any two actions. Times on the timeline are relative
to now. A command that `PL_deploy_block_cmd` moves may land at any free time, or
be refused; if it was the FINISH_TRANSITION, the ghost `lost` says so. One that is moved
beyond `Horizon` counts as lost too: its byte-reversed time is days or years away. Such a
command of another kind is left out, and with it the node it takes. Turns of the three applications
that touch the mode (TL_CMD, RT_CMD, ANOMALY_HANDLER) come once each in a cycle. All
blocks of the mode table are active, as they are after boot.

### AnomalyHandler
`AL_add_anomaly` and `AH_exec` are the two sides; the commands on rules and log are
actions of their own. The ghost `fresh` holds the anomalies since the last look.
Anomalies that come when the log is full are
not in `fresh`: the log records them as `AL_FULL`, whatever they are, until it is
cleared. The counter of an element is only ever changed in a copy (section 8), so it is
the threshold.

### FramTlc
A handler is a sequence of writes (`rest`), made one by one by `Write`; `DeployNext`
is one command of a stored block, `ClearNext` one slot of a clearing of all (`wipe` counts those to come),
`FRAM_TLC_search_tlc` the search and the copy of a packet,
`Execute` its execution after the slot was freed. `Tick` and `PowerLoss` may come between any two. A time
has two parts here (four bytes in FRAM) and a packet two, which is what a torn write
can mix up. `Parses` is what the parser asks of a packet - its end where its length
says - since the comparison of the checksum is commented out (`PacketHandler.cpp` 90).
Ghosts: `owed` (promised, not executed, not cleared), `strange` (executions nobody
asked for), `cuts`.

### StoredBlocks
The ground (external: `up`, the upload in progress) sends the packets of a block one after
the other and one again until it is answered. `Upload` is one packet at the satellite, whose
answer may be lost; `FRAM_SBC_Write_packet` compares its number with the last one and moves the position.
`Restart` is `AutoControl_init` and clears the position and the number. `AutoControl_execute`
takes the first action that is due, as often as its application is called. A time of an
action is a number of restarts. Ghosts: `meant` (what the ground was answered), `spoiled`
(the blocks that section 8 excepts), `fired` (the actions executed since the ground was heard, or since the
counter of restarts turned over).

### Power
A command is a list of switches to make (`agenda`), one `Step` each, so that a
restart can come between two. One of the writes of a switch may be lost, and a board may `Fail`
on a side. The two sides reach the boards through different expanders; a call of `EPS_GetStatus`
(`EPS_update`) measures at the port the multiplexer was set to in the call before. What the
hardware does with pins and pulses is assumed in the header of the module. Ghosts: `dropped` (the loads that a
restart or a change of side switched off) and `struck` (those whose last command had a write lost, was acknowledged by a deaf
board or was cut off), until they are switched again.

### UnderVoltage
The unit of time is a turn of the block that holds ANOMALY_HANDLER and UVC, 7 cycles, in which
the handler looks first. A threshold crossed is `Beyond`, counted by `Condition`; a level is
declared as an anomaly, whose rule deploys a block of timed commands on `timeline`. The last of
them arm rules again. The voltage moves anywhere among the thresholds; `OtherAnomaly` is an anomaly
of another component, which puts a record between. The ghost `overtaken` marks an answer that found
commands of another under way.

### Downlink
`slot` is the application whose turn it is; the transmitter's variables are one record, because
each handler reads and writes most of them. A round of the slots stands for the 5 cycles of the
block TLMCMD; STRX_UPDATE, in the block of 7, has its turn in some of the rounds. `STX_sequence_ON` puts
three commands on the list of four and ignores refusals; the radio remembers what it was `told`
since it has power. The ghost `cut` says that the last time on was cut by a command, the heat or the watch, or
that an off time of 0 came before this one; `bare` that the radio was switched on after such a time, or by TX_ON, so that
nobody promises its settings. `ListAssumption` is the relation of the source's numbers: a list of 4, 4 rounds in
a second, heat counted to 10.

### Recorder
A page of a flash holds one packet and is blank, data or spoilt (programmed twice). `Update`
looks for the end of the data as `DR_SetWritePointer` does, going back over blank pages in the 16 bits of one
sector. `DR_Replay` sends one packet per call and counts with the static that both recorders share;
`DR_erase_handler` erases one sector per call. Ghosts: `misled` names the recorders of which section 8 says
that their end of data cannot be relied on; `mixed` those whose replay shared the counter.

### Uplink, GroundLink
`Uplink` has no variables: it is the two searches for a packet as functions of the bytes. The reception
(`Serial_DataReceive`) cuts a packet out of the bytes that wait; the extraction (`PH_extract_packet`) reads
these bytes once more with a state that outlives the call. `GroundLink` lets the ground send packets whole or
spoilt - a byte changed or lost, or the end missing - and has the acknowledgement and the telemetry on one list,
which is initialised as a whole when it is full. The pace of telemetry is a product of an
interval and a count, compared with a clock that commands set.

### TlmFrames, Telemetry
A frame is the set of its fields, `[at, width]`, in the order of the code; what a field holds is left out.
`Telemetry` keeps the bytes of the buffer as stamps (packet and field) and every packet that is
kept somewhere, and follows `add_rt_tlm`: the LoRa line, the mission's recorder, the satellite's own recorder, the
list. When generators are due is in `GroundLink` and `Recorder`; here they may run at any time.

### BlockTable
A command in a block is its number and its effect; behind the length of a block cleared commands stay in the
table. `Edit` and `Register` are from the ground; `Rotate` is a task, `Combine` and `CombineNext` run a
block command by command, so that a command can clear the block it is in.

### Clock, Calendar
In `Clock` the unit is a cycle and words are modulo `Word`; `SYNC_TIME`, `SET_OBC_TIME`, the RTC at a restart and the
refusal of a time before the current one are as in the code. `timeline` holds commands of the ground
for a second, with the cycle that was computed for it at registration. `Calendar` takes one day after the other
and may set the chip on any of them: the date goes through `gmtime`, a byte, BCD and a register
18 years ahead.

### Applications
Five components that share no variable - `Telemetry`, `UnderVoltage`, `BlockTable`, `Clock`, `Calendar` - in
one run: each behaviour is one of one of them, chosen in the initial state, and the others stand still. The state
space is the sum of the five and not their product, and a property of one is checked where that one moves.

### Storage
What the satellite stores and finds again after a restart: `FramTlc`, `StoredBlocks`, `Power` and `Recorder`. They share no
variable; each takes its steps between those of the others. `Parts` names those that take steps: a run looks at
one, and the others stand still; the theorems hold for any of them together.

## 3. The runs

| Run | Checks | Bounds |
|---|---|---|
| `list_nodes` | `NoNodeLost`, `ImplementsQueue` | 4 nodes, 5 packets, 3 values of the clock: every operation on an empty, a full and a half full list, and each place in it |
| `timeline` | `TypeOK`, `TimelineInOrder`, `AtMostOneCycleLate`, `DeployKeepsCommands`, `EveryCommandLeaves` | list of 3, cycles 0-11 and times of 4 bits; blocks that fit, do not fit, collide with the list and with themselves, are inactive and empty, and one that deploys another |
| `tasks` | `TasksStartInOrder`, `NoOverrunOnSchedule`, `NoCycleLost` | 4 steps in a cycle, 5 cycles, 2 lists of 2 tasks with different steps, passes of up to 9 steps (two cycles and one) |
| `mode` | `FinishIsPending`, `RestartKeepsMode`, `TransitionEnds` | 3 modes, one only in an uploaded table; list of 4, blocks of 1 and 2, times 0-4 (970 thousand states, two minutes) |
| `anomalies` | `NothingOutOfSight`, `EveryAnomalyAnswered` | 3 anomalies, 6 occurrences, log of 4 (so that it fills up), 3 rules of each condition |
| `fram_tlc` | `DamageBounded`, `OnTime`, `EverySlotEmpties` | 2 slots, 3 commands of 2 lengths, one of which deploys a block of 3 entries, 5 seconds of 2 calls, 2 orders from the ground and 1 power loss |
| `power` | `SavedAsSwitched`, `StraysHeal`, `CompositesComplete` | 6 loads of all kinds (on a pin of its own, held, latched by a pulse, fed by another), 2 boards with 2 sides and 2 and 3 measurements, 3 commands or failures, 1 lost write |
| `downlink` | `RadioConfigured`, `LockNeverShortens`, `Alternates` | durations 0 and 1 and the refused 3, in seconds of 4 rounds; list of 4, 2 commands of the ground, any number of locks |
| `recorder` | `AppendOnly`, `ReplayExact` | 2 recorders, 3 sectors of 3 pages, 3 commands, 2 packets more than the memory held, restarts |
| `stored_blocks` | `StoredAsMeant`, `EscalatesOnce` | 2 blocks of 2 positions, 3 packets, each sent any number of times, 3 actions, 4 commands, restarts |
| `ground_link` | `FewLost`, `TelemetryResumes` | 3 packets of 2 lengths, 1 of them spoilt at any place, port of 18 bytes, list of 2, 2 commands (508 thousand states) |
| `applications` | `PacketsWhole`, `RecordedOnce`, `RecordNumbered`; `Protected`, `ReturnNotLost`, `ReturnUndoes`; `NoStaleCommand`; `ClockAccurate`, `CommandsOnTime`; `RTCWithinADay` | telemetry: all 13 frames, list of 2, 3 packets, 3 commands; under-voltage: levels after 3 measurements, the voltage jumps once before it dies, 1 command; blocks: 2 of 3 commands, 3 registered, 2 edits; clock: words of 6 bits, 16 seconds, 1 command that waits, 3 settings; calendar: each day of 2021 to 2031 (896 thousand states) |

What a run shows is in `PROJECT.json` under `about`, what a property says stands before it in its
module. Only `timeline` has a `TypeOK`: the others spend their properties on what
could really be wrong, and have their types proved as a part of their inductive invariants (section 5). Every property is one that a
plausible slip in the code would break: `mutants` in `PROJECT.json` names it for each, and the mutated
operator stands before the original in its module.

Exceptions that a property makes (`misled`, `spoiled`, `mixed`, `overtaken`, `bare`, `dropped`, `struck`) are cases in
which the code does break it; each is stated in the comment of the property and listed in
section 8. They are as narrow as they could be made.

Why the bounds are enough. The lists are small in the code as well (4 to 32), and what
the operations tell apart is empty, full, head, tail and middle, which three or four nodes
show. The task dispatcher compares cycles with `=`, `<` and `>` and with the last one, so
five cycles have one of each; two tasks give an order. The modes differ only in
being in the default table or not. In `fram_tlc` two slots are what it takes for slot
order to differ from time order; reusing a slot takes two orders; the
invariants of this run and the inductive one of its proof were also checked, without liveness, with two power losses
and three calls a second. The clock of that run
stops at `MaxTime`: a time beyond it is not claimed to be reached. Three sectors are a first, a middle and a last one,
three pages the same; two of three are needed for a threshold of one blank page. The answers to a lock
last 1 and 2 seconds, as long and longer than a time on. In `ground_link` the damaged packet may be the first, the middle
or the last, and the port holds more than a packet. The words of `Clock` overflow twice
before the model ends and the master cycle turns over once; leap years in
2021-2031 are three of the chip's and two of the calendar's. Commands are counted (`MaxOps`): two or three are what it takes
for one to come between the other and its effect.
`CHECK_DEADLOCK FALSE` stands in the runs whose behaviours end at their bounds (`recorder`, `stored_blocks`,
`ground_link`, `applications`).

## 4. Fairness

Liveness is only claimed where the code schedules the step unconditionally:
* `TL_CmdDispatcher`: the timer (`Tick`) and the call of the application, which every
  task list contains.
* `FlightMode`: the processor goes on (`Processor`); nothing is asked of the ground,
  of anomalies, or of restarts.
* `FramTlc`: the main loop and the timer.
* `Downlink`: the loop goes on (`Cycle`), and STRX_UPDATE has its turn again and again. The latter is strong
  fairness: its slot comes round without it when the block of 7 cycles has another application
  there, so the step is not enabled all the time, but infinitely often.
* `UnderVoltage`: the turn of the block goes on (`Cycle`; `UVCCycle` in `Applications`).
* `GroundLink`: the task list goes from slot to slot (`NextSlot`), and the loop calls `TLMD_execute`, which
  sends as long as the transmitter is on.
The rest is weak fairness: each of these steps stays possible until it is taken; a trap is
the end of both in `TL_CmdDispatcher` until the restart, which empties the list. The action properties
(`EveryAnomalyAnswered`, `LockNeverShortens`, `ReplayExact`, `EscalatesOnce`, `NoStaleCommand`) need none.

## 5. What is proved

Each theorem holds for every value of the constants that the named assumptions allow. The assumptions say that
sizes, times and bounds are numbers, that tables hold what the code puts into them, and what else is named
below; TLC evaluates them in the runs. Each argument is an inductive invariant that stands first in its module of
proofs, was checked by TLC in the run of its module before it was proved, and is preserved by one lemma for each
action.

| Module | Theorem | What it states |
|---|---|---|
| `TimelineProofs` | `ChainsStay`, `NoNodeIsLost` | `ListSpec => []ListInv`, `[]NoNodeLost` (`PacketListNodes`) |
| | `NodesImplementQueue` | `ListSpec => ImplementsQueue`: the refinement of `PacketQueue` by `PacketListNodes` |
| | `TypeCorrect` | `Spec => []TypeOK` (`TL_CmdDispatcher`) |
| | `Ordered` | `Spec => []TimelineInOrder` |
| | `LatenessBounded` | `Spec => []AtMostOneCycleLate` |
| | `DeploymentsReported` | `Spec => []DeployKeepsCommands` |
| `TaskDispatcherProofs` | `InOrder` | `Spec => []TasksStartInOrder` |
| | `NoOverrun` | `Spec => []NoOverrunOnSchedule` |
| | `WholeLists` | `Spec => []NoCycleLost` |
| `AnomalyHandlerProofs` | `InSightAlways` | `Spec => []NothingOutOfSight` |
| | `AllAnswered` | `Spec => EveryAnomalyAnswered`, an action property |
| `FlightModeProofs` | `EndIsPending` | `Spec => []FinishIsPending` |
| | `ModeSurvives` | `Spec => []RestartKeepsMode` |
| `ApplicationsProofs` | `ReturnKept`, `ReturnComplete` | `AppsSpec => []ReturnNotLost`, `[]ReturnUndoes` (`UnderVoltage`) |
| | `RunsFresh` | `AppsSpec => NoStaleCommand`, an action property (`BlockTable`) |
| | `TellsTime`, `SecondsKept` | `AppsSpec => []ClockAccurate`, `[]CommandsOnTime` (`Clock`) |
| | `DayKept` | `AppsSpec => []RTCWithinADay` (`Calendar`) |
| | `NoDuplicates`, `CountsFollow`, `FramesArrive` | `AppsSpec => []RecordedOnce`, `[]RecordNumbered`, `[]PacketsWhole` (`Telemetry`) |
| `StorageProofs` | `DamageLimited`, `Timely` | `StorageSpec => []DamageBounded`, `[]OnTime` (`FramTlc`) |
| | `UploadsKept` | `StorageSpec => []StoredAsMeant` (`StoredBlocks`) |
| | `Escalates` | `StorageSpec => EscalatesOnce`, an action property (`StoredBlocks`) |
| | `Appends` | `StorageSpec => []AppendOnly` (`Recorder`) |
| | `ReplaysWhole` | `StorageSpec => ReplayExact`, an action property (`Recorder`) |
| | `SavedSwitches`, `StraysReplaced`, `CompositesDone` | `StorageSpec => []SavedAsSwitched`, `[]StraysHeal`, `[]CompositesComplete` (`Power`) |
| `DownlinkProofs` | `SettingsArrive` | `Spec => []RadioConfigured` |
| | `LocksProlong` | `Spec => LockNeverShortens`, an action property |

**The nodes.** `ListInv` says what the pointers and links hold: two chains, as sequences of nodes (`TwoChains`), which end, have every
node of the stock exactly once between them (`Separate`), begin at the two heads, and of which the active one ends at the tail and has as many nodes as
are counted; its packets are in order if it is a timeline. `NoNodeLost` alone is not inductive: it does not say that the tail is the last
node, and a drop or an insertion with another tail cuts a chain. `Chain`, which follows links up to `NumNodes` times, is a recursive function, and
`ChainIs` is what is needed of it: if a sequence without repetitions begins at a node and each of its nodes is linked to the next one, the function
returns that sequence. There is then one lemma for each of the three things that happen to the chains - a free node is put anywhere on
the active one (`PutOnChain`), a node is taken from it (`TakeFromChain`), all are free (`FreshChain`) - and one for each operation that says what the
list of packets becomes. `Moves` collects these: a step inserts a packet in its place, appends it, takes one away, or empties the list. The invariant
and the refinement both follow from `Moves`, the order of an insertion by the same lemma as on the timeline.

**The timeline.** `IInv` says that the cycle is one of the counter's and that the
list is in `Timelines(Packet, TL_CMD_LIST_MAX)`: a sequence of packets, in strict order, that
fits. The type and the order must go together: the place of an insertion is only defined
for times that are numbers, and a list that is out of order would be searched wrongly.
`PacketListProofs` proves one lemma for each operation (insert, drop the head, remove,
attempt, pass, retries, deploy a command, deploy a block); the last four are
iterations, for which the lemmas on iterations at its head (which the anomaly handler uses too) prove that a sequence of steps that each
stay in a set exists and stays in it. `SetInduction` there is induction on a
set of numbers, derived from well-foundedness, because the library's theorem takes
an operator as a parameter. The lateness needs the order (only the head is looked at, so that what is late must be the
head) and the fact that every insertion refuses a time before the clock. That a deployment keeps
what it reports follows the iteration once more: each pass adds the commands it is through with and drops none.

**The task dispatcher.** The invariant has two parts. `Order` says that what has run comes, by its steps, before what
is left of the list, for every length of passes. `Scheduled` holds while every pass was short: the
list that is left is the tail of the block that begins behind what ran, and the step of the interrupt is
at most what the passes so far may have taken - so that the rest has room in the cycle (`RoomForTheRest`), and neither the
comparison of line 58 nor the read of line 46 can meet the next cycle. Its other case (`TurnedOver`) is the
counter that has turned over, after which nothing is claimed. `ScheduleAssumption` is the hypothesis: the list of the
source, in strict order, has `Room`.

**The anomaly handler.** `IInv` adds to the property that the handler's place is before the end of the log as soon as there is a
record (`PointerInLog`), which a merge, a new record, the last record of a full log and a clear each keep. The action property then
follows for one look: a `fresh` anomaly is in a record from the place on, with at least its run, and the only
active rule for it is satisfied by that record.

**The modes.** `FinishIsPending` needs that the deployment under way still has its FINISH_TRANSITION ahead (among the
commands left, or on the timeline) at each of its commands, and the commands in range (`InRange`: a
command that is not is refused before it does anything). `RestartKeepsMode` needs what the two writes leave at
each label of `pc` (`ModeInFRAM`): the byte of the current mode is written first, so that between the writes the
FRAM holds the new mode and the previous of the one before.

**Under-voltage.** `UVCInv` says that unless an answer has overtaken another, the computer is in one of two states: `Returning`, in which the
timeline holds commands of RETURN alone and each of its five effects has come about or waits, or `NotReturned`, in which none of its
commands waits and its rule is active. Which of them a look leads to depends on the two last records of the log, which
`RecordsInOrder` describes.

**The block table.** `NoneStale` says of each place below the length of a block that its command was registered after the block was
last cleared, whether or not the block is active; the numbers of registrations only grow (`ClearedBefore`). The position, which may
point at any block and place, is only bounded by its type.

**The clock.** The words overflow, so the invariant is stated with quotients: the Unix second kept is the true one less a
difference of less than a second since the last setting, until the milliseconds overflow. The lemmas on `\div` and
`%` (`Spread`, `Cancel`, `Grows`) hold for every word and every length of a cycle that divides the second. The proof showed that
a command runs in its second or in the one before, never later, and the property was made to say so.

**The calendar.** The chip counts the days of years that are 18 ahead, and 18 years have 6574 days or 6575 (`EighteenYears`). `InStep` says that the
chip, from a day that was right, goes one day for each day of the world: `ChipDay - DayNumber(today)` stays one of the two, and what is read, 18
years less, is again one of the two away (`Gap`), which leaves a day. A 29th of February that was set in a year in which the chip has none goes on to
the 1st of March like the 28th (`BeyondIs`, `ChipCounts`). Until the 28th of a February of an even year is over the dates are the same
but for the 18 years (`StepTogether`). The years end in 2080 (`CalendarConstants`), beyond which the chip's two digits turn over;
TLC has also checked the invariant on each day from 2000 to 2080.

**The record.** `RecordMarked` says that all that is in a memory bears the mark of the recorder and has a number already given; a packet that is
read back keeps its mark, so that `add_rt_tlm` does not record it once more, and a new one has a new number. For the counts, `LastNumber` says that
the last periodic packet of the record has the count from which the next one goes on: only the generator of the record uses this count, and of what
else is recorded nothing is periodic.

**The packets.** `WholeInv` says of every packet that is kept that its bytes are those its frame has written for it (`OfFrame`), and of the buffer only that
it is large enough: what it holds may be anything, since a transmission writes any packet over it. That the frames leave no gap, fit the buffer and
do not overlap is `FramesAssumption`: it says something of the tables of `TlmFrames` alone and mentions no constant of the model, so that TLC
has decided it when it evaluates it. The proof is of the rest: no order in which packets are made, transmitted and
read back lets a byte of another packet into one that is kept.

**The timeline in the FRAM.** `TimelineInv` says for each phase of a handler what stands between it and a loss. `Accounts`: there is a set of
slots that pend a packet each that is owed, no two the same, such that what is owed and held nowhere, and the slots that are
not in the set, are together at most as many as there were power losses without a strange execution for them. Between two
handlers all slots are counted (`Between`), in a write all but the one that is written (`InWrite`), which is taken in again when
it is free or filled, and with a packet copied all but its slot (`Taken`), where a packet that is not owed must be
accounted for already (`Ready`). A power loss gives the slot up, whatever half of it is written (`Interrupted`). For the time, `Alike`
says that a time has at most one slot more than there were power losses, since a registration refuses a time that is
taken and only a torn write can make one; with as many calls in a second each of those has its call (`Punctual`).

**The stored blocks.** `BlocksInv` says of an upload that nothing has disturbed (`up.trust`) that the computer is where the ground thinks:
either the packet under way has not come yet (`Awaited`), and the block is what was answered, or it has and only the answer is
missing (`Arrived`), and the block has that packet too. The number of the packet tells the two apart, which is what a count of at
least two is for. For the autonomous control `ControlInv` says that an executed action had its time at this restart or an earlier one, and
an earlier one as long as none was executed since this one.

**The recorders.** `DataInv`: unless a recorder is `misled`, its data are a prefix of the memory, the pointer is behind it or was never set, and an
erasure still covers it. The search for the end is proved for every size of pages and sectors: what it finds is the first place with
a run of blank pages, whose existence (`LeastExists`) follows from well-foundedness and stands for an
induction over the pages; going back over the run leads to the end of the prefix, because the place is in the same sector
(`DivisionUnique`, `Grows`). `ReplayInv`: a recorder that replays and is not `mixed` is the only one, and the shared count is its own.

**The power.** `RoundInv` counts for each board how many calls ago a quantity was measured (`Ago`): no stray value is
older than the number of undisturbed calls. `OrderInv` says of a composite command without a fault what is still on its agenda: each
load is switched as it should be or its switch is ahead. That the agenda of a restoration ends the 5 V with the value saved for
OVCO (`last5V`) is the order in which `Cmd_POWER_REBOOT` lists AQU and OVCO.

**The transmitter.** `Good` says where the commands of the list are. The count of the time on or off tells how many have left it since that
time began (`SettingsLeave`, `OthersLeave`), so that after a second that nothing cut no settings and no command of another
user are left; what may be left is one command of the heat, which is gone before the heat is counted again (`OffSoon`). At the turn of
the transmitter the list then has room for the three settings (`Idle`). The sequence may be refused in the middle of a time, but only what is
on its way already (`Told`). The proof showed that the second is needed: an off duration of 0, which is refused and yet used,
leaves none, and after six commands a setting is refused that is not on its way. That is beyond the bound of the run, and the exception
in `RadioConfigured` was widened to it. For the locks, `Judged` says that `stx_on_remaining` is the time left in whole
seconds, at least; a lock that answers with no more than that does not replace it.

Where a module is an INSTANCE, the prover takes the operators of the libraries in it for others than those of the
theorems (`UVC!Cardinality`). That is why `UnderVoltage` says with quantifiers what could be a cardinality.

## 6. What is only model-checked

* Liveness (`EveryCommandLeaves`, `TransitionEnds`, `EverySlotEmpties`, `Alternates`, `TelemetryResumes`, `Protected`), which
  TLAPS does not do.
* `FramesAssumption`, what the proof of `PacketsWhole` needs of the tables of the thirteen frames: sums (`FoldSeq`) and maxima (`Max`) are recursive in the
  libraries, and the tables are written out, so TLC computes all there is to know.
* `FewLost`: the two searches for a packet (`Uplink`) are iterations over the bytes with `FoldLeft` and `Min`, defined by recursion in the
  libraries, so that what they compute for every input needs induction over data. It is claimed for the packets of the run, not for data
  of any content.

## 7. What is not modelled

`PROJECT.json` gives a reason for each component.

* Drivers (`DTWI`, `DSPI`, `Wire`, `MPU9250`, vendored for the most part), sensors, actuators and debug
  output are I/O; mathematics computes with real numbers. `cmd_analyze_obc.c` is an old
  copy of the `.cpp`.
* The reassembly of LoRa commands: `rec_data` (`LoRaCmd_handler.cpp` 200-230) is not initialised and
  is not static, while the counters of the pieces are; from the second piece on the result depends on what the stack
  held. Its short commands end in `RT_Cmd_Register` and the FRAM timeline, which are modelled.
* What the fields of a frame hold, and wording and format of debug messages.
* The lists of commands forwarded to the attitude computer and to the missions; the uploads of binary data that
  pass through; commands that only form packets for another computer.
* Power: the pins of the IMU and of the radios, `PWR_UNREG_OBC_SET`, `Cmd_INITIALIZE_APP`, conversions of readings.
* Stored blocks: the counter of all restarts (only the one without contact is used), the command that wipes the FRAM,
  identifiers out of range, and the request that lists a block.
* FRAM: settings torn between two writes (but for the mode and the slots, whose writes are modelled one by one), the
  verification that erases a blank FRAM, and bytes that are no mode (`ModeManager.cpp` 35 would
  index its table with them).
* `BlockTable`: blocks that run themselves without end, and numbers of blocks beyond the table, which
  ROTATE and COMBINE do not check.
* The length 0xA8, which the reception takes for 0xA1 when it is the third byte (`Uplink`).
* The RTC: reads that fail, and its flag of a low voltage, which `setup()` does not look at.
* The duration of applications measured by `AM_execute_app`, which nothing uses.
* `FlightMode`: a transition that is refused because another is in
  progress is not tried again, so the response to a low voltage of the second level can be lost
  (hazard at `ModeManager.cpp` 160).

## 8. Observations

What was met while modelling and what the exceptions of the properties are about. The models
have these as the code has them, unless section 7 leaves them out.

**Timeline and tasks**
* A command that is moved because its time is taken lands at its byte-reversed time plus one
  (`PacketList.cpp` 245-257).
* `PL_drop_node` of the only node follows a NULL pointer (`PacketList.cpp` 337-340).
* A cycle that begins between the last task and the read of line 46 is lost silently
  (`TaskDispatcher.cpp` 44-46), and a list deployed in the last cycle before the turnover waits for
  the cycle `OBCT_MAX_CYCLE`, which never comes (92-94).
* The pointers that telemetry shows of the timeline are refreshed only by UPDATE_TIMELINE_TLM (`TL_CmdDispatcher.cpp` 98-127).

**Modes and anomalies**
* `MM_finish_transition` never loads the task list of the new mode (`ModeManager.cpp` 165-182).
* A rule made active again answers the record that was looked at last, however old (`AnomalyHandler.cpp` 97-136).
* Cumulating rules do not cumulate: the counter is changed in a copy (`AnomalyHandler.cpp` 126-146).
* Consequences for the under-voltage control: the rules of the levels can be used up by an old record; LONG, 44 s
  after LEVEL2 was answered, undoes what a RETURN has done (`overtaken`); the counts are stale
  after UVC_ENABLE (`UVC_app.cpp` 74-106).

**Time**
* The seconds are computed in milliseconds of 32 bits, which overflow after 49.7 days (`OBCTime.cpp` 44; the
  conversion to cycles, 140-148, overflows likewise).
* The time of a command for a block from the ground is converted as if it were a Unix second
  (`PacketHandler.cpp` 189-194); a delay less than the initial second becomes 0.
* SYNC_TIME sets the RTC before the clock refuses the time.
* The year goes into the RTC 18 years ahead (`Utility.cpp` 213, `RX8900.cpp` 61-63, 274, 296): it works from 2000 to 2029,
  and the leap years of the chip are 2022, 2026 and 2030 instead of 2024 and 2028.
* `FRAM_Write_master_cycle` is never called. `AM_execute_app` copies the clock while the interrupt
  may change it, so that a duration may come out near 2^32.

**Block table**
* CLEAR_BLOCK and then ACTIVATE_BLOCK give an active block of length 0, by which ROTATE divides (`BlockCommandTable.cpp` 108, 187-196).
* After the boot the position is at the end of the last default block, so that a command registered without a position
  makes that block longer.
* COMBINE stops after a command that is forwarded (138); ROTATE reports ILLEGAL_CONTEXT for one (95-97).

**Recorders** (`misled`, `mixed`)
* The search for the end of the data counts blank pages across no boundary of sectors, and never looks into the last sector
  (`DataRecorderManager.cpp` 60-110); sectors from 256 on wrap.
* One sector more is erased than was asked for (`MSN_PacketHandler.cpp` 148); RECORD without INITIALIZE writes from
  page 0 on; `ena_timetag` is not initialised.
* A replay that was stopped, or that of the other recorder, leaves its count in `num_read_packet` (221).
* `_DR_PacketWrite` copies one byte past the packet (188), and marks the caller's packet, which is then transmitted, as
  one of the record (175).

**Stored blocks** (`spoiled`)
* A readout, a refused position and a restart move the position of an upload in progress (`FRAM_cmd_manager.cpp` 314-326, 532).
* After 2^16 restarts without contact the counter turns over, and the actions of the autonomous control begin anew
  (`AutonomousControl.cpp`).
* A packet that has the number of the last one taken is refused though it is another (350-353).
* The uploads of binary data keep the number of a packet even if nothing was recorded (`cmd_action_cmdtlm.cpp` 534-575).

**Transmitter** (`bare`)
* An off duration that is refused is used nevertheless (`cmd_action_cmdtlm.cpp` 495, `STRX_update.cpp` 269-275).
* TX_ON powers the radio without its settings; a lock in the first cycle of a transmission takes the place of the whole
  on time (`STRX_update.cpp` 410).
* The watch measures from 0 at boot and fires early (`TlmDispatcher.cpp` 84-86).

**Link and telemetry**
* The checksum is not compared (`PacketHandler.cpp` 90). The extraction has no bound on its packet: after a spoilt one
  it runs on into the next and past `data` (130-135).
* A full list of telemetry is initialised as a whole (367); with the transmitter off packets are dropped as sent.
* An interval made longer silences the telemetry until the product is reached (`OBC_TlmGenerator.cpp` 40).
* TLM_OBC_60 shows rules 16-23 though there are 16, and TLM_OBC_03 the slots 62 and 63 though there are 62
  (`tlm_frame.cpp`); frame 63 shows the tenth command without parameters.
* Packets made on board or replayed whose id is in the table of LoRa forwards are neither forwarded nor listed
  (`PacketHandler.cpp` 328-340).
* `OBC_TlmSend` before EPS_RESET overtakes what is on the list.

## 9. Plan

Done: all modules of section 2, which is all that the plan of the model had, and the proofs of section 5.

Of the model there are left, where a run has room: the forward lists of the packet handler; settings torn between two
writes; the ports of the attitude computer and of the missions, which use the receiver of `Uplink`.
