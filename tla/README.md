# A verification of libeywa's control plane

`src/` holds *eywa*, the middleware of an interactive display: a vendor HIDL
service (`hardware/interfaces/xbhhwmw`) in front of `middleware/libeywa`, a C++
library that drives the board's HDMI switches, USB routing, front MCU, pluggable
computer modules, audio codecs, touch panels and sensors. Most of its 300 000
lines are vendor register sequences. The part with control logic of its own is
small: a worker-thread class, two kinds of message queue, a service with one
dispatch lock, and the managers that are built from them. That part is modelled
here.

All paths below are under `src/middleware/libeywa/` unless they start otherwise.

## 1. Inventory

| component | state it keeps | operations | talks to |
|---|---|---|---|
| `XbhMWThread` (`common/support/XbhMWThread.cpp`) | `mStat.{wait,once,exit}`, `mId`, mutex, condition | `run(flag)`, `suspend`, `resume`, `exit`, `exitAndJoin`, destructor; `loop`, `task` in the pthread | base class of every manager, task and chip driver |
| `XbhMsgHub` (`common/support/XbhMsgHub.cpp`) | queue, handler set, two mutexes, init flag | `PostMsg`, `SendMsg`, `RegisterHandler`, `UnregisterHandler`, the reader | every manager posts events; `XbhService` is the one handler |
| `XbhMsgQueue` (`common/support/XbhMsgQueue.cpp`) | list of timed messages; one static mutex for all queues | `postMsg`, `getMsg`, `removeMsg` | second base class of the follow, HDMI switch, audio-detect, kernel-message managers |
| `XbhService` (`logic/XbhService.cpp`) | dispatch map, `mLock`, callback list, `mNotifyLock` | `invoke`, `setCallback`, `disconnect`, `notify` | HIDL service above, managers below |
| HIDL service (`src/hardware/.../XbhHwmw.cpp`) | callbacks, its own lock | `hwInvoke`, `hwRegistCallback`, `onObjectDeath` | clients, `XbhService` |
| source manager (`logic/source`) | `mCurrentSrc`, connection and signal states, UAC delay | `selectSource`, `setSourceSwitchPort`, `setSourceUsbPort`, a 500 ms poll | follow manager, HDMI switch manager, 5V DET of the receiver |
| follow manager (`logic/follow`) | `mChangeToSrc`, `mCurrentSrc`, a queue | `setFollowPort`, its thread | USB/GPIO routing, back to the source manager |
| HDMI switch manager and task (`logic/hdmiswitch`) | a queue; the chip objects, their port tables | `setActivePort`, its thread; creation of the chips | switch chips, 5V DET |
| MCU drivers (`logic/mcu/module`) | `mState`, `mUpgradeStatus`, `mFileName`, `mLock` | `upgradeFirmware`, `getFirmwareVersion`, the upgrade body | `invoke`, I2C |
| other chips that are upgraded (under `logic/`: Rts5450M, Hl817, Ap8224, Ap8232, Cs5803aq, Csv5363, Ite6563, Gsv2712) | the state, the file name, of two chips a flag for the version, of one `mLock` | `upgradeFirmware`, `getFirmwareVersion`, the upgrade body | `invoke`, I2C |
| audio detection (`logic/audiodetect`) | plug states, a queue with delays | poll of MIC, headphone, ARC | mute controls, hub |
| OPS manager (`logic/ops`) | plug and power states of four modules | poll: plug, start, power report | power controls, hub |
| check of the computer modules (`platform/board`, XMH610) | result, picture, timeout count and random number of two slots, the filter for repeated packets | a pass four times a second: timeouts, one packet | modules and MCU over UART, the OPS manager through Android properties |
| kernel messages, watchdog, network switch, lift bracket, what else the chips' drivers do, touch, sensors, RTC | little | one chip or device each | hub, `invoke` |
| platform layers, configuration database, vendored C libraries, JNI | files, GPIO, sysfs | | |

What is hard here is always the same: a client's thread, a poll thread and a
worker thread share a few members, some under a lock and some not; threads are
suspended, resumed, joined and restarted across objects; and work is handed over
with a message and finished seconds later. There is no persistence protocol and
no network, so crash recovery and message loss are not among the hazards. The
complete list of hazards, each at its line, is in `PROJECT.json`.

Correctness, component by component:

* thread: at most one pthread in the body; a joined thread ends; what lets the loop go
  leads to the body; ONCE means once; no pthread survives the object;
* hub: every message handled once, in order, whatever the interleaving;
* queues: a post is never slept through;
* upgrade: every caller is answered, no accepted request is lost and its file is the one
  programmed, `RUNNING` is always left, one writer on the chip;
* upgrade of the other chips: the file taken on last is the one tried, `RUNNING` is left,
  a call made while the chip is programmed comes back at once and leaves it alone;
* switching: after the last request the port, USB, 5V DET and the managers'
  own notion of the current source agree;
* source poll: 5V DET, the reported signal and the USB sound card end as the source
  selected last wants them, and the sound card never comes early;
* audio: the microphone follows its plug, whatever messages are still on their way;
  speaker and headphone are never open at once;
* callbacks: a registered client is told of every event, once; a dead one is
  forgotten; nobody waits for ever;
* OPS: what the boot start passes is on, an empty slot has no power, and every
  change is reported in the end;
* check of the computer modules: each packet is served once, every module is decided
  on, no result comes before its picture, and nothing is left of a module that went.

## 2. Modules and what they stand for

| module | models | extends / uses |
|---|---|---|
| `XbhMWThread` | the thread class | - |
| `EventChannel` | what the hub promises (abstract) | - |
| `XbhMsgHub` | the hub on top of the thread | extends `XbhMWThread`, instance of `EventChannel` |
| `XbhMsgQueue` | one manager queue and the `wait` flag of its consumer | - |
| `McuUpgrade` | the five MCU drivers behind `invoke()` | extends `XbhMWThread` |
| `ChipUpgrade` | eight more chips with an upgrade thread of their own | extends `XbhMWThread` |
| `SourceSwitch` | source manager requests, follow thread, HDMI switch thread | two instances of `XbhMsgQueue` |
| `SourcePoll` | the source manager's poll and delay, beside all of that | extends `SourceSwitch` |
| `MCSourcePoll` | the instance of it that TLC checks | extends `SourcePoll` |
| `AudioDetect` | the audio detection thread | instance of `XbhMsgQueue` |
| `Notify` | callback lists of HIDL service and `XbhService`, and the walk through them | - |
| `OpsManager` | the OPS manager's poll against users, clients and chips | - |
| `OpsCrc` | the check of the computer modules, with the modules and the OPS manager's look at the OPS manager's look at them | - |
| `MCOpsCrc` | the instance of it that TLC checks | extends `OpsCrc` |
, `XbhMsgHubProofs`, `McuUpgradeProofs`, `ChipUpgradeProofs`, `SourceProofs`, `AudioDetectProofs`, `NotifyProofs`, `OpsProofs` | theorems | each extends the module it is named after (`SourceProofs`: `SourcePoll` and so `SourceSwitch`; `OpsProofs`: `OpsManager` and `OpsCrc`); hub and upgrades also the thread's theorems |

**XbhMWThread.** `mStat` is the status word; `loops[i]` says where the i-th
created pthread stands (`loop`: about to test `exit`; `task`: about to lock;
`cond`: in `pthread_cond_wait`; `body`; `exited`). `call`, `stage`, `flags`,
`joinId` are the local state of callers inside an operation that joins or
creates. Every critical section is one action, because a section blocks only in
the condition wait; the join, the unlocked `mId` read before it, the
`pthread_create` after the last unlock and the loop's unlocked test of `exit` are
separate actions. `Signalled` is `pthread_cond_signal` (any one waiter), and
`SpuriousWakeup` its POSIX freedom. `starts` is a history variable: body
executions since the last `run` or `resume`. A caller that finds nothing to do
changes nothing, so that such calls are stuttering here and explicit
(`SuspendCall`, `ResumeCall`) where another component makes them as part of a
larger step.

**XbhMsgHub.** The reader is `XbhMWThread` in REPEAT mode with `MsgReader` as its
body, split at every lock and unlock: `ReadQueue`, `ReadSuspend` (queue mutex
held over `suspend()`), `SendTest` (the handler set is tested without its mutex) and
`SendSnapshot` (copied with it), `SendCall`, `SendEnd`, `ReadFree`, `ReadReturn`. `PostPush` and `PostResume` are the two halves of `PostMsg`, with
`m_msgQueueLock` held across both. A message is its poster and number; the
reader's malloc failures are left out. `posted` and `handled` are history and the
whole interface of `EventChannel`.

**XbhMsgQueue.** `postMsg` and `getMsg` hold the static mutex from end to end and
suspend or resume the consumer inside it, so each is one step; of the consumer
only `wait` matters, because `XbhMWThread` shows (`ResumeStarts`) that
a thread that need not wait runs. The operators take the time as a parameter.
`getMsgNone` is the return of the non-blocking `getMsg` with nothing due, and
`removeMsg` maps a list to what is left of it. `removeMsg` erases a node and then
increments the iterator to it (`common/support/XbhMsgQueue.cpp:112`); what that does
is up to its caller here, `AudioDetect`.

**McuUpgrade.** A client is inside `invoke()` (`invokeLock`) and then inside the
driver (`chipLock`); the body is split at its locks, its state changes and its
sleeps. What differs between the drivers is in the guards (`driver`). The I2C
transfers, the size and CRC checks and the 2 s, 3 s and 4 s sleeps are steps with
their possible outcomes. `mState` starts with any value, since no constructor
sets it. `mtGd32f310g8` and `At32f407rc` have their locks commented out; their
`chipLock` only repeats `invokeLock`. The `mt` compares versions before it shows
`RUNNING` (`BodyCheck`) and works from a second copy of the file name, which a
refused name does not clear. Into that copy a name goes without its terminator, and
nobody clears it (`logic/mcu/module/mt_gd32f310g8/mtGd32f310g8.cpp:660`): `ends` says
where the buffer has a zero, a name has one of two `Lengths`, and `CopyName` leaves the
file `Tailed` when the name does not end where it should. `Meant` is what a request may
come to.

**ChipUpgrade.** `upgradeFirmware` notes a file and calls `run(ONCE)`, as in the MCU
drivers, but without an *upgrade needed* flag: what gets the new file programmed is that
`run()` joins the old thread before it creates the next. Here there is one caller, because
`invoke()` lets one client in at a time. The chips differ in where `RUNNING` is set:
by the body (Rts5450M, Cs5803aq, Csv5363, Ite6563), by the request (Ap8224, Ap8232, Hl817),
or by the body without anybody testing it (Gsv2712, which locks instead). Csv5363 and
Ite6563 answer a refused request with success; the answer is left out. No constructor sets
the state of the Gsv2712 and of the Hl817, which starts with any value; the buffer the
Gsv2712 reads the file into is left out.

They differ as well in what `getFirmwareVersion` tests (`MayRead`): nothing in the Hl817,
only `mLock` in the Gsv2712, `RUNNING` in the others. Two bodies read the version themselves
and have a flag that lets them past that test, the Ap8232 after the programming and the
Cs5803aq before it; while the flag is up it lets a client past too. The Cs5803aq takes it
down in that very function (`ClearStart`), so that a client's reading may take it from the
body, whose upgrade then fails (`BodyVersion`). `crossed` is history: the call under way
was let in before the body had set `RUNNING`, or by that flag.

**SourceSwitch.** One request at a time (the lock of `invoke`), split where it
hands work to a thread; each read of the member `mChangeToSrc` by the follow
thread is a step. `changeToSrc` may get `Junk` when the bytes `getMsg` leaves
alone are not zero (`Filled`). `rx5vDet` is the flag `setHdmiRx5vDet` writes, and
`usbRoute` and `activePort` are the positions of the hardware. A port that the
boot code chose is called `Unset`: no request asked for it.

**SourcePoll.** One iteration of `XbhSourceManager::run` is split at every read of
`mCurrentSrc`, which is a member without a lock, and at `mCheckLock`: `ReadCurrent`,
`CheckCable`, `ReadSignal`, `DropForAndroid`, `TestDeadOps`, `DropForDeadOps`,
`CompareSignal`, `TestOpsBoot`, `NoteOpsBoot`, `TestTypeC`, `ReadArgument`, `Rearm`,
`PostSignal`, `CountDelay`. Twice a module is tested for in one line and its power asked for
in another, with a fresh read of the source (`logic/source/XbhSourceManager.cpp:522` and 524,
542 and 544); the board answers for modules only and leaves `powerStatus` as it was for
others (`AskPower`). The
actions of `SourceSwitch` are taken over with what they do to the poll's variables:
`Selected` (a selection resets the signal state) and `FollowArms` (the follow thread
calls `setFollowPort`, which `Arm` is). F_DP2 to F_DP4 copy the result for F_DP1
(`logic/source/XbhSourceManager.cpp:341-351`), which is one input more and no other
behaviour. The model is the build with `XBH_USE_HAL_API_TO_CHECK_SIGNAL_STATUS` for a
product with PDM microphones, and takes the property
`persist.vendor.xbh.DelayTotalCnt` (line 695) at its default. `world`, chosen once,
says what the outside may change and which inputs are asked for. `crossed` records
that the poll acted for a source that was no longer selected: `"rx5v"` when it lowers
5V DET because the cable of the *previous* source is gone, `"uac"` when it restarts
the delay for a source it read before, ends the delay because Android was selected
after its test of the type-C input, or withdraws the sound card because a source that is
no module was selected between test and question. All of it happens; the properties that
it breaks say so. `"uac"` is forgotten when USB is moved, which restarts the delay.

**AudioDetect.** `step` is the place in `XbhAudioDetectManager::run`. Time is in half
seconds and a message carries what it still has to wait, so that nothing grows. The
half second between closing one output and opening the other is a step of its own
(`HpOpen`). `conditions` names what a behaviour meets: `early`, boot completed before
the chips are up, which leaves the speaker mute for good, because the branch that
opens it is never entered again; `clock`, the wall clock `getMsg` reads is set;
`freed`, the node `removeMsg` has erased is reused and the thread is lost (`step` is
`dead`); `lineout` and `fixed`, settings of the product. `shared` records that
headphone and ARC have both been noted: unplugging either then opens the speaker
beside the other, and so does an exchange of one for the other within a poll.

**Notify.** `mCallback` is sorted by address, so a set of numbers stands for it and
the place of a callback is the number of smaller ones. `TestEnd`, `Fetch`, `Call` and
`Return` are the loop of `CbHwNotify`, which runs under `mNotifyLock`; registration
(`RegistCallback`, `AddCallback`) and death (`ObjectDeath`) take the lock of `XbhHwmw`
instead. `calls` counts the calls of the current event; `steady` holds the callbacks
that have been registered since it came, `shiftedDown` and `shiftedUp` those whose
place a death or a registration has moved. A death below a callback makes the walk
skip it and a registration below makes it call one twice: both happen, and
`WalkIsSound` says that nothing else does. `crashed`: the vector was reallocated, or
shrank, between the test and the access.

**OpsManager.** The thread is `step` and `module` (the slot it is at); slots are
numbered in the order of the poll. A step ends wherever the code has read
something it acts upon later: `PlugCheck` then `CutPower` or, two seconds later,
`AutoPower`; `Report` then `ReportPower`; `StartDet`, `StartGive`, `StartRead`,
`StartPress`. `present`, `powered` and `running` are the hardware, which users
(`Plug`, `Unplug`) and clients (`ClientPower`) change at any step. The four copies
of the code, one per slot, are one action with the slot as parameter; the tables
of charging powers are reduced to the branch that was taken. `conditions`, chosen
once, holds the settings of the product (`auto`, `start`, `byPlug`, `byPower`), the
kind of module (`eager`: it starts as soon as it has power) and what the world may
do (`client`, `brief`, `stale`). `mSetCharging` is set by the constructor after it
has started the thread; the thread sleeps 300 ms before it reads it, and the model
takes the constructor to be done by then. Clients are taken to use the power of
modules that are in their slots.

**OpsCrc.** `stage` is where the board's thread stands in a pass (`CRCTimeoutCheck`, then
`OPSByPassProcess`): it counts, and expires, in two steps, and gives the picture before it
records the result. `on` merges what the board reads as plugged and as powered.
`inbox` is the MCU's queue; a packet is its slot, its kind and the random number it was
computed from. Two random numbers never collide and no packet is corrupted. `nth` and
`again` of an entry say which packet of its slot it is and whether it is the second copy:
history, like `due`, which counts for each packet how often it is still to be served. A
module (`sender`) goes by the first answer it hears. `halving` is the set of slots whose
module sends its two copies apart, which the code filters with `has_last_packet_ops1` -
one flag for both slots. `crossed` is history: a packet of one slot changed the flag while
the board had had one copy from another slot and not the second (`Awaits`); from then on the
filter errs. `woken` is the module that switched the board on, which counts as checked. `Note` is the OPS manager's look at
a slot together with its reset of the result. `remains` records what modules that went
left behind: `"queued"` when something of one was under way, or the manager had not
noticed it (its last packet, result or expiry may then meet the next module), `"half"`
when one had sent only the first copy of a packet.

Actions headed *Faulty* are not part of any next-state relation. They stand beside
the action they distort and are the mutations `PROJECT.json` lists: with one of them
in the place of the real action, the named property fails.

## 3. Runs

| run | config | result |
|---|---|---|
| `thread` | `Thread.cfg` | one owner (run, join, destroy) and one other thread (suspend, resume): `OneBody`, `NoLoopAfterDestroy`, `OnceRunsOnce`, `JoinReturns`, `ResumeStarts` hold |
| `thread_exit` | `ThreadExit.cfg` | bare `exit()` against run, suspend and resume: a loop alone ends, unless a `run()` clears the flag first (`ExitEnds`) |
| `hub` | `Hub.cfg` | two producers, two handlers, the reader: `NoLostWakeup`, and the hub implements `EventChannel` (`ImplementsChannel`) |
| `upgrade` | `Upgrade.cfg` | five drivers, two clients, three requests, names of two lengths: `PatientNotLost`, `PatientAnswered`, `RunningOnlyInBody`, `OneWriter` hold |
| `upgrade_retry` | `UpgradeRetry.cfg` | a client that asks too early deadlocks the two drivers that lock (`Answered` refuted) |
| `chip` | `Chip.cfg` | eight chips, three requests, version readings, with and without patience: `LastIsTried`, `SoundRunning`, `Undisturbed`, `CallReturns` hold |
| `source` | `Source.cfg` | three requests, overlapping, or patient but during boot and with an unclean stack: `LastIsFollowed`, `PortIsSelectedOnceUp`, `Rx5vIsUp`, `Settles` hold |
| `source_poll` | `SourcePoll.cfg` | the poll against requests, worker threads and a change outside: `Rx5vSettles`, `SignalReported`, `UacSettles`, `UacNotEarly` hold |
| `audio` | `Audio.cfg` | six circumstances, plugs moved at every step: `MicFollows`, `MicNotEarly`, `SpeakerFollows`, `OneOutput` hold |
| `notify` | `Notify.cfg` | three callbacks of two clients, two events: `WalkIsSound`, `DeadForgotten`, `NobodyWaits` hold |
| `ops` | `Ops.cfg` | two slots, four sets of conditions: `StartedAtBoot`, `EmptySlotIsCut`, `PowerIsReported`, `PlugIsReported`, `ChargeFollows` hold |
| `ops_crc` | `OpsCrc.cfg` | two modules come and go during the check, one may be silent, one or both send their copies apart: `EachOnce`, `SuccessIsShown`, `Decided`, `GoneIsForgotten` hold |

Each module has one type invariant: `TypeOK`, `HubTypeOK`, `UpgradeTypeOK`, `ChipTypeOK`,
`PollTypeOK` (which contains `SourceTypeOK`), `AudioTypeOK`, `NotifyTypeOK`, `OpsTypeOK`
and `OpsCrcTypeOK`. All are theorems (section 4), and no run spends time on them.

The run that refutes a property, `upgrade_retry`, is a disagreement between the code and
what a comment of the repository says; `findings` in `PROJECT.json` quotes both. Its
passing counterpart, `upgrade`, says under which `pace` the property holds. `pace`,
`conditions` and `world` are chosen in the initial state and never change; they stand for how the applications above use the service and for the
product, which this repository does not contain.

More disagreements are visible with these modules and have no run of their own:

* `OneBody` fails with `"exit"` among the `ApiOps` of `Thread.cfg`: `exit()` only sets the
  flag; a `run()` that finds it set joins nobody, clears it and creates a pthread, and the
  old loop, if it had not tested the flag yet, goes on beside it
  (`common/support/XbhMWThread.cpp:81`). `common/include/XbhMWThread.h:45` says that
  `exit()` quits immediately. `Owned` excludes a bare `exit()`, which only
  `XbhNetSwitchManager` offers.
* `ExitEnds` fails without `[]OneLoop`, for the same reason: with both loops in the
  condition wait, the one signal of `exit()` or `exitAndJoin()` wakes one of them; the other
  sleeps for ever, and a join of it never returns. `NoLoopAfterDestroy` fails with a bare
  `exit()` as well: the destructor joins nobody who was asked to exit
  (`common/support/XbhMWThread.cpp:23`).
* `RouteIsFollowed` fails with the condition `overlap` of `SourceSwitch`: `setFollowPort`
  writes `mChangeToSrc` between two of its reads in the thread
  (`logic/follow/XbhFollowManager.cpp:53`), so that USB ends at one source while the
  manager notes another.
* `RunningMeansUpdating` fails for the Ite6563, which leaves `RUNNING` when the file does
  not open (`logic/dp2hdmi/module/ite6563/ChipIte6563.cpp:728`), and for the Ap8224 and the
  Ap8232 when the file name is too long (`logic/audiocodec/module/ap8224/ChipAp8224.cpp:760`,
  `logic/audiocodec/module/ap8232/ChipAp8232.cpp:779`): every later request is refused. It
  fails for the Hl817 from the start where the memory of `mState`, which no constructor sets
  (`logic/usbhub/module/hl817/ChipHl817.cpp:92`), reads as `RUNNING`: this chip is never
  upgraded. (The Gsv2712 may show it too, and refuses nothing.) `SoundRunning` is what
  remains of it.
* `RefusedAtOnce` fails for the chips whose body sets `RUNNING`: a second request that
  comes before the body has started waits, with the lock of `invoke()`, until the chip is
  programmed (`logic/pdic/module/rts5450m/ChipRts5450M.cpp:167`); and for the Gsv2712, which
  refuses nothing.
* `ReadAlone` fails for the Hl817, whose version is read over USB with no test of the state
  (`logic/usbhub/module/hl817/ChipHl817.cpp:23`), for the Gsv2712, whose body programs without
  its mutex, and for the chips whose body sets `RUNNING` if the reading came before that.
  With the Cs5803aq it also fails while the body has its flag up, and the client, who takes
  the flag down, may make the upgrade fail (`logic/avout/module/CS5803aq/ChipCs5803aq.cpp:436-441`).
  `Undisturbed` is what remains of the two.
* With the mtGd32f310g8, `NoRequestLost` fails if `Meant` is the named file alone: a name that
  is shorter than one before it keeps that one's tail
  (`logic/mcu/module/mt_gd32f310g8/mtGd32f310g8.cpp:660`), and the body goes for a file nobody
  asked for. The first name does so as well where the memory behind it holds no zero.
* The Gsv2712 overwrites the pointer to the buffer a running body programs from
  (`logic/hdmiswitch/module/gsv2712/ChipGsv2712.cpp:285`). Memory is left out of the
  model; the request that does it, made while a body runs, is in it.
* `EachOnce` fails without `crossed`: with two modules that send their copies apart, a repeated
  packet of one is taken for a new one when one of the other came between, because both share
  one flag (`platform/hisilicon/hi610/board/XbhXMH610_A.cpp:1388-1390`), and a new one for a
  repetition. An `AUTH` served twice gives the module's answer another number than the board
  has by then, and the module `FAILED`, which is why `Decided` excepts `crossed`.
  `EachOnce` also needs its condition on `remains`: a module that goes between the copies of a packet leaves the filter set, the
  first packet of the next one is passed over as that second copy, and if this module
  goes before it has sent its own, the packet is never served.
* `UacComesUp` fails without its conditions. Where modules are switched off and requests are
  made for USB alone, a dead module that is selected takes the sound card from the source
  that USB follows, and selecting that source does not bring it back
  (`logic/source/XbhSourceManager.cpp:524-531`: only a follow request arms the delay).
  Where requests overlap, the card may never come: `setFollowPort` overwrites `mChangeToSrc`
  before the follow thread has told the source manager. The poll ends the delay of the
  source that USB follows when Android is selected between its test of the type-C input
  and its own `setFollowPort` (lines 579-590). And it takes the card from a source that is
  selected between its test for a module and its question whether that module is on: the board
  leaves the answer FALSE for a source that is none (lines 522-530).
* A module that has woken the board counts as checked (line 132 of that file), so that
  nothing raises the HPD that the constructor has lowered, which a right answer would do
  (line 1505). That is why `SuccessIsShown` excepts it.
* `NoRequestLost` as an invariant of `Upgrade.cfg` fails with the pace `any`: a request
  made between the result and the end of the body of the Gd32f330r8
  (`logic/mcu/module/gd32f330r8/Gd32f330r8.cpp:597`) or the At32f407rc sets
  `mUpgradeStatus`, which that body then clears. One that comes during `BodyCheck` of
  the mtGd32f310g8 is taken on as well: `mState` is `IDLE` there (line 473), and the
  body goes on to program a file whose version it has not looked at.
* `PortIsSelected` fails with `Circumstances = {{"stack"}}`: `setActivePort` posts a
  four-byte enum with a size of 1 (`logic/hdmiswitch/XbhHdmiSwitchManager.cpp:16`), and
  the receiver is not initialised; and with `{{"boot"}}`, because a selection made
  before the chip object exists is dropped.
* `SwitchedWithDet` fails with `{{"overlap"}}`: the next request takes 5V DET down
  between raising it and moving the switch, though line 219 of that file says that it
  has to be up.
* With the condition `brief`, `powered \subseteq present` need not come true in
  `OpsManager`: a module pulled before the first poll, or one that `processOpsStart` saw
  and `processOpsPlug` did not, leaves its slot powered, although
  `logic/ops/XbhOpsManager.cpp:364` says that power is cut at once.
* From an initial `mState` of `RUNNING` the first upgrade is refused although none is
  running.
* The cases `crossed`, `early`, `shared`, `freed` and `shiftedDown`/`shiftedUp` that the
  properties of section 2 except.

### Bounds

* `MaxCreate` pthreads per object (3; 1 in `Hub.cfg`, where one `run()` is all there is; 2 in
  `UpgradeRetry.cfg`): a restart, and a restart of the restart; a loop
  that should have been joined can only meet its successor, so that two are what a
  violation of `OneBody` needs.
* `MaxPost = 3` with two producers: enough for the queue to be empty, to hold
  messages of both, and to be refilled while the reader goes to sleep.
* `MaxRequests = 3` upgrades: one that runs, one that comes in its way, one that
  finds what these two left. Two `Lengths` of names: one may be shorter than another.
* `MaxRequests = 3` in `Chip.cfg` likewise; `MaxCreate = 3`, so that each
  may create its thread.
* `Limit = 1` in `OpsCrc.cfg` stands for 20 passes: the modules answer at any speed, so that
  a timeout can fall between any two of their steps. `MaxMoves` (`Moves` of `MCOpsCrc`) is 2
  where one module sends its copies apart: a module goes and comes back, or both move. Where
  both do, it is 1, which lets either go while copies of both are under way; the theorems are
  for any number.
* `MaxRequests = 3` source requests over four sources, two of them behind the switch: to A, away, and back to A, which is what a stale
  notion of the current source needs.
* `MCWorlds` of `SourcePoll.cfg`: each kind of outside change (`MaxChanges = 1`) with the
  sources it is about and two requests (cables without a signal, which the poll needs only after
  it has looked at them), and requests without a change: three as a whole for
  Android and two inputs, three one by one for two inputs, two in any way. They are
  where the poll, having read one source, acts on another (`crossed`): without its exceptions
  `Rx5vSettles` and `UacSettles` are violated; all together are too many states. One change is enough
  because the initial state has every cable, and module power, in both positions.
  `Delay = 1` and `BootDelay = 2` stand for 6 and 50: the theorems about `SourcePoll` hold
  for any delays from 1 on, and what the liveness properties distinguish is whether a
  delay is running, over, or the longer of the two.
* `MaxChanges = 4` in `Audio.cfg`, counting clock settings: plug in, out and in again
  while messages wait, with one change to spare for another plug or the clock.
* Three callbacks, two clients and two events in `Notify.cfg`: one callback before and
  one behind the one that comes or goes, a client with two of them, and an event
  whose walk starts from what the one before left.
* `NModules = 2` and `MaxChanges = 3` in `Ops.cfg`: two slots let one change while the
  thread waits for the other, three changes pull a module, put it back and pull it
  again. The four sets of conditions have each setting, kind and liberty on and off.

Deadlock is checked in `Ops.cfg` and `OpsCrc.cfg`, whose threads never stop. Elsewhere it is not: with
every bound used up, and with clients that need not call, the systems really stop.

### Fairness

Weak fairness on each created pthread and on each caller inside an operation: a
thread the kernel can run is run, and no operation of `XbhMWThread` holds its
mutex while it blocks. A body comes back: the bodies are the modelled ones or end
after bounded sleeps. No fairness is assumed for clients' calls, spurious wake-ups
or suspensions. `McuUpgrade` needs strong fairness for a thread that waits for
`chipLock`: it is free again and again while others use it, and the mutex is
handed on in the end. `ChipUpgrade` takes weak fairness of the call, the body and the thread; requests
are free. In the hub the reader and a producer inside `PostMsg` are
weakly fair; registrations are not. In `SourceSwitch` the request in progress, the
two threads and the creation of the chips are weakly fair, new requests are not. In
`OpsManager` the thread alone is. `SourcePoll` adds the poll to the threads of
`SourceSwitch`; requests and the outside are free. In `AudioDetect` the thread runs, the
chips come up and the boot ends. In `OpsCrc` the board's thread, the OPS manager's look and each module are weakly fair: both
threads poll for ever, and a module that takes part goes through with the check; one in
`silent` never sends. In `Notify` the reader, a registration under way and
the notice of a death are weakly fair: binder threads run, and a client returns from
a call or dies, which is a return as well.

## 4. Proofs

Every theorem is for any values of the constants that satisfy the assumptions the
modules state: what is said about runners, drivers, circumstances and bounds being
numbers. No theorem assumes fairness.

**`XbhMWThreadProofs`**, for any callers and operations:

* `TypeCorrect`: `Spec => []TypeOK`.
* `OnceTheorem`: `Spec => []OnceRunsOnce`. `OnceInv` adds what makes it inductive:
  once the body of a ONCE thread has started, the thread is told to wait or to
  exit, so that only `resume` and `run`, which reset `starts`, open the way to
  another start.

and, under `Owned` (one runner, no bare `exit()` - how libeywa uses the class
everywhere but in `XbhNetSwitchManager`):

* `OwnedInvariant`: `Spec => []OwnedInv`. `OneBody` is not inductive: it does not
  say which pthread the owner is about to join or has joined. `OwnedInv` does: at
  most `mId` is alive; the pthread being joined is `mId`; none is alive between the
  join and the next `pthread_create`, nor when `exit` is set while no call is under
  way, nor after the destructor.
* `OneBodyTheorem`, `DestroyTheorem`: `OneBody` and `NoLoopAfterDestroy` follow
  from it. Its step, `OwnedStep`, is a lemma that needs only that no two callers are
  inside `run()` (`Solo`), so that a client of the class can use it.
* `OnceObject`, for an object that is only ever asked to `run(ONCE)`: a thread that is not
  asked to exit is about to execute its body or has been told to wait. The lemmas from
  `RunFacts` to `ReturnFacts` say what each step of the class does to the three things a
  chip driver depends on (a body is executed, one is about to be, a call of `run()` is under
  way); both upgrade proofs use them.

**`XbhMsgHubProofs`**, for any producers, handlers and messages: `HubTypeCorrect`,
`NoLostWakeupTheorem`, `InOrderTheorem`, and `ChannelSafety`, the safety part of
`ImplementsChannel`. The invariant is `HubInv`: the thread's types; `Hands`, that the
reader holds a message exactly between popping and freeing it; `Parking`, that a
reader that has found the queue empty keeps the queue's mutex until it has told
itself to wait, and that a thread asked to exit does not wait; and `InOrder`, which
the other parts make inductive. `ChannelSafety` then follows because only `ReadFree`
lengthens `handled`, with the next of `posted`. `HubUsesThread` is that every behaviour of
the hub is one of `XbhMWThread`; with `OwnedInv` for the reader's thread it gives
`OneReaderTheorem`: one pthread at most is in `MsgReader`, and what was popped is in its
hands.

**`McuUpgradeProofs`**, for any clients, requests and set of drivers:
`UpgradeTypeCorrect`, `RunningOnlyInBodyTheorem`, `OneWriterTheorem`,
`PatientNotLostTheorem`. The runners of the thread are the clients, so `Owned` does not hold; `ClientInv` puts `invoke()`'s lock
in its place: whoever is inside `run()` is the one client in `invoke()`, hence `Solo`,
hence `OwnedInv` stays. `BodyInv` says what the body holds of `mLock` at each line, per
driver, and that `RUNNING` is a matter of two lines.

`WayInvariant`, and from it `PatientNotLostTheorem`, follow a request on its way: the flag
stands from its acceptance until a body has gone for its file, and between the two there
is always a call of `run()`, a created thread or a body that has yet to look at it; the name
is the request's as far as the buffer has taken it (`NameInv`, `Meant`). What
makes this inductive is `PatienceInv`: a patient client meets no body on its way to
`run()`, so that none clears the flag behind it.

`UpgradeUsesThread` and `UpgradeOnceTheorem`: every step here is a step of `XbhMWThread` or
leaves it alone, so that what is proved of the thread class for any callers carries over.

`NoEmbraceTheorem` (of `PatientAnswered`), from `PatienceInv` too: a patient client never joins,
with `mLock` held, a body that needs `mLock` to go on, which is what stops `upgrade_retry`.

**`ChipUpgradeProofs`**, for any set of chips and number of requests: `ChipTypeCorrect`,
`LastIsTriedTheorem`, `SoundRunningTheorem`, `UndisturbedTheorem`, all from
`ChipInvariant`. On top of `OnceObject` the invariant says that the call is inside `run()`
only while `client` is `"run"`; that a created thread which has not come to its body,
and a body that has not opened its file, are the only places where the request taken on
last may still be waiting; for the chips whose request sets `RUNNING`, that nobody
is inside `run()` while a body programs, since `RUNNING` has refused him (`EarlyInv`); and, for
those whose body sets it, that whoever is inside of a call meanwhile was let in before, or by
the flag of the Cs5803aq (`LateInv`). `ChipUsesThread` and
`ChipBodiesTheorem` are what the thread class promises, for the thread of a chip.

**`SourceProofs`**, for any sources, circumstances and requests:
`SourceTypeCorrect`; `LastIsFollowedTheorem` from `FollowInv` (the last message in the
queue is the last request; with nothing due, the member and what the thread adopted
are its source) and `RouteInv` (unhurried, the member does not change under the
thread); `PortIsSelectedTheorem` from `PortInv` (the last message that names a port of
the switch, the one being served, and the port itself, whichever of them comes
last, is the last one asked for); `Rx5vIsUpTheorem` from `DetInv` (whoever took 5V DET
down is still on its way to the thread that raises it); `AwakeTheorem`, that no post is
slept through: a thread that was told to wait has an empty queue and is at its `getMsg`.

The second half is about `SourcePoll`: `PollTypeCorrect` rests on the lemmas of
`SourceTypeCorrect`, with every step of the poll a step of `SourceSwitch` or one that
leaves all of it alone but 5V DET. `UacNotEarlyTheorem`: the count is never ahead of the
time since the delay was armed, and the poll raises the sound card only at a full count.

Three more are what the liveness properties say once nothing is left to happen:

* `SignalTold` (of `SignalReported`): what the poll has noted of the signal is what clients
  were told last, outside the lines that tell them.
* `DetFollowsCable` (of `Rx5vSettles`): as long as 5V DET is down for an input, somebody is on
  the way to the thread that raises it, or the poll has noted DP1's cable as out, in which
  case it raises 5V DET when it sees the cable again.
* `CardIsComing` (of `UacComesUp`): an input that is selected and that USB follows has the
  card, or its delay runs. On its own this is far from inductive: what the poll may
  do depends on a source and a signal it read several lines before. `KeptInv` says it of
  the source that USB *follows*, selected or not, and that for Android neither card nor
  delay is up except for a poll that is past its read; `SelectedInv` says it where the power
  of modules may fail, and then only of the source that is selected; `AskedInv` says what a
  request finds when none overtakes another; `KnownInv` that the poll acts on a
  signal only. `FollowInv` and `RouteInv` supply what the follow thread is about to do.

`CardWithMics` is a by-product: while the card is up, the microphones are routed to it and
no delay runs that would raise it once more.

**`NotifyProofs`**, for any callbacks and clients: `NotifyTypeCorrect` and
`WalkIsSoundTheorem`. The rank lemmas say how the place of a callback in a sorted list
moves when another one comes or goes; `LowInv` says that a callback not called yet is
still ahead of the walk, `HighInv` that one already called is behind it.
`DeathWillBeToldTheorem` (of `DeadForgotten`): a callback is in both lists or in neither, and
only after the notice of its client's death was asked for.

**`AudioDetectProofs`**, for any number of plug moves:

* `OneOutputTheorem`. `OutputInv` says which of the two outputs is closed at each step of the
  thread, given what it has noted of the headphone; `BootInv` that the first poll comes
  after the speaker was opened.
* `AudioTypeCorrect`: the types, and that the queue never holds more than one message. Each
  edge of the microphone removes what the edges before it have posted, and with one
  message in the queue `removeMsg` leaves none.
* `MicNotEarlyTheorem`: the message that opens the microphone is due a second after the
  edge that posted it, and what is pending is never due before that.
* `MicAgreesTheorem`, `SpeakerAgreesTheorem`: what `MicFollows` and `SpeakerFollows` say once
  nothing is left to happen. At every step the microphone stands as its plug was noted, or
  the pending message will make it so; with the amplifier open the speaker is muted
  exactly while headphone or ARC is noted.

**`OpsProofs`**, first about `OpsManager`, for any number of slots, settings, users and clients:

* `OpsTypeCorrect`: `Spec => []OpsTypeOK`.
* `StartInvariant` and from it `StartedAtBootTheorem`: `Spec => []StartedAtBoot`.
  `StartedAtBoot` speaks of the end of the boot start only. `StartInv` follows it on
  its way: modules it has passed are on; the one it is at has power; the one whose
  button it is about to press is off; a slot about to be cut had lost its module.
* `ToldIsNotedTheorem` (of `PlugIsReported`, `PowerIsReported`, `ChargeFollows`): what clients
  were told, and what the charger was set to, is what the thread has noted.
* `PullIsUnnotedTheorem` (of `EmptySlotIsCut`): a slot with power and no module is one whose
  pull the thread has still to note or is about to cut. `CutInv` adds the two steps that
  give power some seconds after they looked: the module they looked at is still there, or
  its pull is still to be noted.

and about `OpsCrc`, for any timeout, modules and number of moves:

* `CrcTypeCorrect`: the types, and that a counter over the limit is met in the same pass.
* `SuccessIsShownTheorem`: whoever reads a success finds the picture given.
* `NothingLeftTheorem` (of `GoneIsForgotten`): of a module that went with nothing of it under
  way, there is no packet, no verdict, no expiry and, once noticed, no result.

and, until the copies of two modules cross (`crossed`, without which the filter does not work,
see section 3), whichever modules send their copies apart:

* `PacketInvariant` and from it `EachOnceTheorem`. A packet counts as served once only if one
  knows what the filter will do with its second copy, which may be in the queue, not sent
  yet, or never be sent. `PacketInv` says where it is: `OrderInv` that the queue holds the
  packets of a slot in their order, `SecondInv` and `HalfInv` that a second copy follows its
  first or finds the filter set as that has left it (`Missing`), `DoneInv` and
  `CompleteInv` that nothing is left out while no module has gone. `FlagKept` is where
  `crossed` comes in: what the board takes from another slot leaves the flag alone.
* `AnswerIsRightTheorem` (of `Decided`): no module is failed for its answer, if all packets
  in the queue are its own. `AnswerInv` shows why: a module asks once (`RequestInv`), and
  once it has heard a number its request is not served again (`NumberInv`, by
  `PacketInv`), so that the board still has this number when the answer comes
  (`RepliesInv`).

Only model-checked: liveness (`JoinReturns`, `ExitEnds`, `ResumeStarts`,
`PatientAnswered`, `CallReturns`, `Settles`, `Decided`, `GoneIsForgotten`, `DeadForgotten`,
`NobodyWaits`, all `<>[]` properties, the fairness part of `ImplementsChannel`), which is
out of the prover's reach. Of several of them the part that does not speak of time is a
theorem above: what remains for TLC is that the steps that are on their way are taken.
Every safety property that a passing run checks is a theorem, two of them (`OneBody`,
`NoLoopAfterDestroy`) under a hypothesis on the callers (`Owned`) that the run's constants
satisfy.

## 5. Not modelled, and the plan

Register sequences, vendor SDKs, platform layers, parsing and logging are data
behind one call; the models keep the effect of the call. They are nearly all of the
repository's 300 000 lines: the largest source files are register tables and vendor
drivers of an Ethernet switch and of video converters. Memory management is left out, and
with it allocation failures.

* Kernel messages and watchdog: a socket reader and a timer with next to no state.
* Network switch and lift bracket: managers over one chip each. The upgrade of the network
  switch's configuration runs once, at its start, before anyone can ask for it.
* Managers and tasks of PD IC, USB hub, codec and video output: they pass calls on to the
  chips, whose upgrades are in `ChipUpgrade`; everything else those chips do is register
  access.
* The power button and the other functions of the board layers; of these, only the check
  of the computer modules on the XMH610 is modelled. It waits for nothing else of them.
* Touch forwarding, sensors, RTC: device protocols.
* The cascade of `XbhHdmiSwitchTask::setActivePort`
  (`logic/hdmiswitch/module/XbhHdmiSwitchTask.cpp:117`): an index into a table that the
  board layer provides. Likewise whether `getOpsPowerStatus` may fail
  (`logic/ops/XbhOpsManager.cpp:544`).
* The bodies of the dispatch table of `XbhService`, which pass parcels on, and JNI.

Next, in this order: `Settles` and `CallReturns` up to the time they take, as theorems; the
power button of the XMH610 boards beside `OpsManager`; the cascade as an operator over
board tables.
