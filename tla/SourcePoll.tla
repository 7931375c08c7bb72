----------------------------- MODULE SourcePoll -----------------------------
(***************************************************************************)
(* The 500 ms poll of XbhSourceManager beside the switching of             *)
(* SourceSwitch: cables are looked at, signal changes are reported, and    *)
(* the USB sound card of the followed source is brought up some polls      *)
(* after XbhFollowManager has moved USB there.                             *)
(*                                                                         *)
(* The poll, the requests and the two worker threads share mCurrentSrc,    *)
(* the signal states and 5V DET without a lock; mCheckLock guards the      *)
(* delay only.  The product has PDM microphones (pdm_enable, uac_app).     *)
(***************************************************************************)
EXTENDS SourceSwitch

CONSTANTS
    Dp1,        \* XBH_SOURCE_DP1, the one input whose cable moves 5V DET
    Cables,     \* the inputs whose cable is looked at
    TypeC, Ops, \* the type-C inputs, the computer modules
    Delay,      \* DEFAULT_DELAY_COUNT
    BootDelay,  \* DEFAULT_OPS_BOOT_DELAY_COUNT
    Worlds,     \* what behaviours may meet: records of what may happen, as below
    MaxChanges  \* bound: changes of cables, signals and power

(* A signal status; Unknown is -1, no answer, and the value after a switch. *)
Unknown == "unknown"
Signals == {Unknown, "locked", "lost"}

(* "cable", "signal", "power": the outside changes; asks: what is asked    *)
(* for, the whole or the HDMI switch and USB one by one, for the sources   *)
(* of asked, in as many requests as the bound says; signal: at the start.  *)
ASSUME PollAssumption ==
    /\ Dp1 \in Cables /\ Cables \subseteq Inputs
    /\ TypeC \union Ops \subseteq Inputs
    /\ Delay \in Nat \ {0} /\ BootDelay \in Nat /\ Delay <= BootDelay /\ MaxChanges \in Nat
    /\ Worlds \subseteq [may : SUBSET {"cable", "signal", "power"}, asks : SUBSET {"select", "switch", "usb"},
                         asked : SUBSET Sources, requests : 0..MaxRequests, signal : Signals]

VARIABLES
    world, changes,
    plugged, signal, opsPowered,    \* the outside: cables, signals, power of the modules
    poll,                           \* place in the body of the poll
    currSource, unchecked,          \* its notion of the source, the cables still to be seen
    connected,                      \* mPreConnectState
    signalStatus, mPreSignalState,
    powerStatus,                    \* power_status, which only a computer module answers
    armFor,                         \* argument of its call of setFollowPort
    mCheckState, mDelayCount, mDelayTotalCnt, mOpsBootDelay,
    uacOtg, pdmType,                \* the properties uac_otg_enable and pdm_type
    reported,  \* history: the last SIGNALCHANGE since the source was selected
    sinceArm,  \* history: looks at the delay since setFollowPort was told a source
    crossed    \* history: "rx5v", "uac" (since USB was moved): done for another source than
               \* the one it was for

outside == <<plugged, signal, opsPowered>>
counting == <<mCheckState, mDelayCount, mDelayTotalCnt>>
delayVars == <<counting, mOpsBootDelay, sinceArm>>
uacVars == <<delayVars, uacOtg, pdmType>>
cableVars == <<currSource, unchecked, connected>>
signalVars == <<signalStatus, powerStatus, mPreSignalState, reported>>
pollVars == <<poll, cableVars, signalVars, armFor, uacVars, crossed>>
allVars == <<vars, world, changes, outside, pollVars>>

(* Everything SourceSwitch has but 5V DET, which the poll writes as well. *)
switching == <<conditions, sourceVars, followVars, changeToSrc, hdmi, chipReady, activePort, queues, history>>

SignalOf(src) == IF src = Android THEN Unknown ELSE signal[src]

PollTypeOK ==
    /\ SourceTypeOK
    /\ world \in Worlds /\ changes \in 0..MaxChanges
    /\ plugged \subseteq Cables /\ signal \in [Inputs -> Signals] /\ opsPowered \in BOOLEAN
    /\ poll \in {"read", "cables", "android", "ops", "dead", "change", "boot", "power", "uac",
                 "arg", "arm", "post", "delay"}
    /\ {currSource, armFor} \subseteq Sources
    /\ unchecked \subseteq Cables /\ connected \subseteq Cables
    /\ {signalStatus, mPreSignalState, reported} \subseteq Signals
    /\ mDelayTotalCnt \in {Delay, BootDelay} /\ mDelayCount \in 0..mDelayTotalCnt
    /\ {mCheckState, mOpsBootDelay, uacOtg, powerStatus} \subseteq BOOLEAN
    /\ crossed \subseteq {"rx5v", "uac"}
    /\ pdmType \in {"0", "1"}
    /\ sinceArm \in 0..BootDelay

InitPoll ==
    /\ Init
    /\ world \in Worlds /\ changes = 0
    /\ plugged \in (IF "cable" \in world.may THEN SUBSET Cables ELSE {Cables})
    /\ signal = [i \in Inputs |-> world.signal]
    /\ opsPowered \in (IF "power" \in world.may THEN BOOLEAN ELSE {TRUE})
    /\ poll = "read" /\ currSource = Android /\ armFor = Android
    /\ unchecked = {} /\ connected = {}
    /\ signalStatus = Unknown /\ mPreSignalState = Unknown /\ powerStatus = FALSE
    /\ mCheckState = FALSE /\ mDelayCount = 0 /\ mDelayTotalCnt = Delay
    /\ mOpsBootDelay = FALSE
    /\ uacOtg = FALSE /\ pdmType = "0"
    /\ reported = Unknown /\ sinceArm = 0 /\ crossed = {}

-----------------------------------------------------------------------------
(* XbhSourceManager::setFollowPort, under mCheckLock: the sound card goes, *)
(* and a delay starts unless the source is Android.                        *)

(* Faulty: a delay that runs goes on. *)
ArmRunning(src) ==
    /\ uacOtg' = FALSE
    /\ UNCHANGED mDelayCount
    /\ sinceArm' = 0
    /\ mCheckState' = (src # Android)
    /\ pdmType' = IF src = Android THEN "0" ELSE pdmType
    /\ mDelayTotalCnt' = IF src = Android THEN mDelayTotalCnt
                         ELSE IF src \in Ops /\ mOpsBootDelay THEN BootDelay ELSE Delay
    /\ mOpsBootDelay' = (mOpsBootDelay /\ src \notin Ops)

(* Faulty: knows the computer modules only. *)
ArmOps(src) ==
    /\ uacOtg' = FALSE
    /\ mDelayCount' = 0
    /\ sinceArm' = 0
    /\ mCheckState' = (src \in Ops)
    /\ pdmType' = IF src = Android THEN "0" ELSE pdmType
    /\ mDelayTotalCnt' = IF src \in Ops /\ mOpsBootDelay THEN BootDelay ELSE mDelayTotalCnt
    /\ mOpsBootDelay' = (mOpsBootDelay /\ src \notin Ops)

Arm(src) ==
    /\ uacOtg' = FALSE
    /\ mDelayCount' = 0
    /\ sinceArm' = 0
    /\ mCheckState' = (src # Android)
    /\ pdmType' = IF src = Android THEN "0" ELSE pdmType
    /\ mDelayTotalCnt' = IF src = Android THEN mDelayTotalCnt
                         ELSE IF src \in Ops /\ mOpsBootDelay THEN BootDelay ELSE Delay
    /\ mOpsBootDelay' = (mOpsBootDelay /\ src \notin Ops)

-----------------------------------------------------------------------------
(* The switching, with what it does to the variables of the poll.          *)

(* Faulty: the status of the source before counts for the next. *)
SelectedKeeping ==
    /\ SetCurrent
    /\ UNCHANGED mPreSignalState
    /\ reported' = Unknown
    /\ UNCHANGED <<poll, cableVars, signalStatus, powerStatus, armFor, uacVars, crossed>>

(* A selection resets the signal states: the next status is news. *)
Selected ==
    /\ SetCurrent
    /\ mPreSignalState' = Unknown
    /\ reported' = Unknown
    /\ UNCHANGED <<poll, cableVars, signalStatus, powerStatus, armFor, uacVars, crossed>>

FollowArms ==
    /\ FollowArm
    /\ Arm(followed)
    /\ crossed' = crossed \ {"uac"}
    /\ UNCHANGED <<poll, cableVars, signalVars, armFor>>

Split == ~(world.asks \subseteq {"select"})

SwitchStep ==
    /\ \/ Selected
       \/ FollowArms
       \/ /\ \/ SetFollowPort \/ PostFollow \/ PostHdmi
             \/ FollowInit \/ FollowGet \/ FollowCompare \/ FollowAdopt \/ FollowRoute
             \/ HdmiStep \/ CreateChip
          /\ UNCHANGED pollVars
    /\ UNCHANGED <<world, changes, outside>>

Request ==
    /\ requests < world.requests
    /\ \/ \E op \in world.asks \ {"usb"} :
             \/ Android \in world.asked /\ AskAndroid(op)
             \/ \E src \in world.asked \ {Android} : AskInput(op, src)
       \/ "usb" \in world.asks /\ \E src \in world.asked : AskUsb(src)
    /\ UNCHANGED <<world, changes, outside, pollVars>>

-----------------------------------------------------------------------------
(* The outside.                                                            *)
Change(what) ==
    /\ what \in world.may
    /\ changes < MaxChanges
    /\ changes' = changes + 1
    /\ UNCHANGED <<vars, world, pollVars>>

MoveCable(i) ==
    /\ Change("cable")
    /\ plugged' \in {plugged \union {i}, plugged \ {i}} \ {plugged}
    /\ UNCHANGED <<signal, opsPowered>>

MoveSignal(i) ==
    /\ Change("signal")
    /\ signal' \in {[signal EXCEPT ![i] = s] : s \in Signals \ {signal[i]}}
    /\ UNCHANGED <<plugged, opsPowered>>

MovePower ==
    /\ Change("power")
    /\ opsPowered' = ~opsPowered
    /\ UNCHANGED <<plugged, signal>>

Outside ==
    \/ MovePower
    \/ \E i \in Cables : MoveCable(i)
    \/ \E i \in world.asked \ {Android} : MoveSignal(i)

-----------------------------------------------------------------------------
(* XbhSourceManager::run.  It reads mCurrentSrc, unlocked, at each use;    *)
(* each read is a step.  The sound card is raised by this thread alone, so *)
(* that its last read and the withdrawal that follows are one step.        *)

(* processSrcConnectStatus: the current source is read once ... *)
ReadCurrent ==
    /\ poll = "read"
    /\ currSource' = mCurrentSrc
    /\ unchecked' = Cables
    /\ poll' = "cables"
    /\ UNCHANGED <<rx5vDet, connected, crossed>>

(* Faulty: moves 5V DET whatever the source is. *)
CheckCableOfAny(i) ==
    LET in == i \in plugged
        moved == i = Dp1 /\ in # (i \in connected)
    IN  /\ poll = "cables" /\ i \in unchecked
        /\ unchecked' = unchecked \ {i}
        /\ connected' = IF in THEN connected \union {i} ELSE connected \ {i}
        /\ rx5vDet' = IF moved THEN in ELSE rx5vDet
        /\ UNCHANGED <<poll, currSource, crossed>>

(* ... and used for every cable that has come or gone, whose event is the  *)
(* new member of connected.  The order of the cables does not matter.      *)
CheckCable(i) ==
    LET in == i \in plugged
        moved == i = Dp1 /\ currSource = i /\ in # (i \in connected)
    IN  /\ poll = "cables" /\ i \in unchecked
        /\ unchecked' = unchecked \ {i}
        /\ connected' = IF in THEN connected \union {i} ELSE connected \ {i}
        /\ rx5vDet' = IF moved THEN in ELSE rx5vDet
        /\ crossed' = IF moved /\ ~in /\ mCurrentSrc # i THEN crossed \union {"rx5v"} ELSE crossed
        /\ UNCHANGED <<poll, currSource>>

(* processSrcSignalStatus, which reads mCurrentSrc at each use. *)
ReadSignal ==
    /\ poll = "cables" /\ unchecked = {}
    /\ signalStatus' = SignalOf(mCurrentSrc)
    /\ powerStatus' = FALSE
    /\ poll' = "android"
    /\ UNCHANGED <<mPreSignalState, reported, armFor, uacVars, crossed>>

(* Android has its own microphone. *)
DropForAndroid ==
    /\ poll = "android"
    /\ IF mCurrentSrc = Android /\ uacOtg
       THEN uacOtg' = FALSE /\ pdmType' = "0"
       ELSE UNCHANGED <<uacOtg, pdmType>>
    /\ poll' = "ops"
    /\ UNCHANGED <<signalVars, armFor, delayVars, crossed>>

(* getOpsPowerStatus for the source that is current now; the answer stays  *)
(* what it was for one that is no module.                                  *)
AskPower == powerStatus' = IF mCurrentSrc \in Ops THEN opsPowered ELSE powerStatus

(* A module that is off has no sound card: tested, and read once more as   *)
(* the argument.  If another source was selected after the test, that one  *)
(* loses the card.  No signal status ends the poll.                        *)
AfterOps == IF signalStatus = Unknown THEN "read" ELSE "change"

TestDeadOps ==
    /\ poll = "ops"
    /\ poll' = IF mCurrentSrc \in Ops THEN "dead" ELSE AfterOps
    /\ UNCHANGED <<signalVars, armFor, uacVars, crossed>>

DropForDeadOps ==
    /\ poll = "dead"
    /\ AskPower
    /\ uacOtg' = (uacOtg /\ powerStatus')
    /\ crossed' = IF mCurrentSrc \in Ops THEN crossed ELSE crossed \union {"uac"}
    /\ poll' = AfterOps
    /\ UNCHANGED <<signalStatus, mPreSignalState, reported, armFor, delayVars, pdmType>>

CompareSignal ==
    /\ poll = "change"
    /\ mPreSignalState' = signalStatus
    /\ poll' = IF signalStatus # mPreSignalState THEN "boot" ELSE "delay"
    /\ UNCHANGED <<signalStatus, powerStatus, reported, armFor, uacVars, crossed>>

(* The signal of a module that is off: it is about to boot.  Tested and    *)
(* asked in the same way; an answer from above counts for a source that    *)
(* gives none.                                                             *)
AfterBoot == IF signalStatus = "locked" THEN "uac" ELSE "post"

TestOpsBoot ==
    /\ poll = "boot"
    /\ poll' = IF mCurrentSrc \in Ops THEN "power" ELSE AfterBoot
    /\ UNCHANGED <<signalVars, armFor, uacVars, crossed>>

NoteOpsBoot ==
    /\ poll = "power"
    /\ AskPower
    /\ mOpsBootDelay' = (mOpsBootDelay \/ ~powerStatus')
    /\ poll' = AfterBoot
    /\ UNCHANGED <<signalStatus, mPreSignalState, reported, armFor, counting, uacOtg, pdmType,
                   sinceArm, crossed>>

(* A type-C source that has a signal again starts the delay anew: tested,  *)
(* read once more as the argument, and done when mCheckLock is free.  If   *)
(* Android was selected after the test, that ends the delay instead.       *)
TestTypeC ==
    /\ poll = "uac"
    /\ poll' = IF mCurrentSrc \in TypeC THEN "arg" ELSE "post"
    /\ UNCHANGED <<signalVars, armFor, uacVars, crossed>>

ReadArgument ==
    /\ poll = "arg"
    /\ armFor' = mCurrentSrc
    /\ poll' = "arm"
    /\ UNCHANGED <<signalVars, uacVars, crossed>>

Rearm ==
    /\ poll = "arm"
    /\ Arm(armFor)
    /\ armFor' = Android
    /\ crossed' = IF armFor # mCurrentSrc \/ armFor = Android
                  THEN crossed \union {"uac"} ELSE crossed
    /\ poll' = "post"
    /\ UNCHANGED signalVars

(* SIGNALCHANGE. *)
PostSignal ==
    /\ poll = "post"
    /\ reported' = signalStatus
    /\ poll' = "delay"
    /\ UNCHANGED <<signalStatus, powerStatus, mPreSignalState, armFor, uacVars, crossed>>

(* Under mCheckLock: when the delay is over, the sound card comes. *)
CountDelay ==
    LET over == mCheckState /\ mDelayCount >= mDelayTotalCnt
    IN  /\ poll = "delay"
        /\ uacOtg' = (uacOtg \/ over)
        /\ pdmType' = IF over THEN "1" ELSE pdmType
        /\ mCheckState' = (mCheckState /\ ~over)
        /\ mDelayCount' = IF over THEN 0 ELSE IF mCheckState THEN mDelayCount + 1 ELSE mDelayCount
        /\ sinceArm' = IF sinceArm < BootDelay THEN sinceArm + 1 ELSE sinceArm
        /\ poll' = "read"
        /\ UNCHANGED <<signalVars, armFor, mDelayTotalCnt, mOpsBootDelay, crossed>>

PollStep ==
    /\ \/ /\ ReadCurrent \/ \E i \in Cables : CheckCable(i)
          /\ UNCHANGED <<signalVars, armFor, uacVars>>
       \/ /\ \/ ReadSignal \/ DropForAndroid \/ TestDeadOps \/ DropForDeadOps \/ CompareSignal
             \/ TestOpsBoot \/ NoteOpsBoot \/ TestTypeC \/ ReadArgument \/ Rearm \/ PostSignal \/ CountDelay
          /\ UNCHANGED <<rx5vDet, cableVars>>
    /\ UNCHANGED <<switching, world, changes, outside>>

PollNext == Request \/ SwitchStep \/ Outside \/ PollStep

(* The threads run; requests and the outside are free. *)
PollSpec ==
    /\ InitPoll /\ [][PollNext]_allVars
    /\ WF_allVars(SwitchStep) /\ WF_allVars(PollStep)

-----------------------------------------------------------------------------
(* In the end an input that is selected, and whose cable is in if it is    *)
(* DP1, has 5V DET up, unless the poll lowered it for a source it had read *)
(* before the selection.                                                   *)
Rx5vSettles ==
    <>[](mCurrentSrc \in Inputs \ ({Dp1} \ plugged) /\ "rx5v" \notin crossed => rx5vDet)

(* The signal status of the selected source is reported, whichever source  *)
(* was selected when the poll read it and whatever it was for the source   *)
(* before.                                                                 *)
SignalReported ==
    <>[](SignalOf(mCurrentSrc) # Unknown => reported = SignalOf(mCurrentSrc))

(* Android, or a module that is off, ends without the USB sound card, even *)
(* if the poll started a delay for the source before.                      *)
UacGoesDown ==
    <>[](mCurrentSrc = Android \/ (mCurrentSrc \in Ops /\ ~opsPowered) => ~uacOtg)

(* An input that USB follows, and that has a signal, gets the sound card   *)
(* in the end, if requests wait for the threads; not if, since USB was     *)
(* moved, the poll has replaced its delay by one for another source or has *)
(* asked for its power in the place of a module that was selected before;  *)
(* nor, where modules are switched off, a module or an input that USB      *)
(* followed before it was selected: a dead module takes the card from      *)
(* whoever has it.                                                         *)
UacComesUp ==
    <>[](/\ mCurrentSrc \in Inputs /\ followed = mCurrentSrc
         /\ SignalOf(mCurrentSrc) # Unknown
         /\ "overlap" \notin conditions
         /\ "power" \in world.may => mCurrentSrc \notin Ops /\ ~Split
         /\ "uac" \notin crossed
         => uacOtg)

(* The USB sound card ends as the selected source wants it.                *)
UacSettles == UacGoesDown /\ UacComesUp

(* The sound card never comes before the delay has run out since USB was   *)
(* moved, though the poll may be anywhere in it when the delay restarts.   *)
UacNotEarly == [][~uacOtg /\ uacOtg' => sinceArm >= Delay]_allVars
=============================================================================
