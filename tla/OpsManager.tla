----------------------------- MODULE OpsManager -----------------------------
(***************************************************************************)
(* The manager of the pluggable computer modules (logic/ops/               *)
(* XbhOpsManager.cpp): one thread in REPEAT mode polls the slots, reports  *)
(* what it finds, cuts the 19V of an empty slot, starts modules at boot    *)
(* and sets how much USB-C may be charged.  Modules are plugged and pulled *)
(* and clients use their power meanwhile, at any step of the poll; nothing *)
(* is locked.  The wait of 2 s before or after the 19V is what gives them  *)
(* the time to.                                                            *)
(***************************************************************************)
EXTENDS Naturals

CONSTANTS
    NModules,       \* slots, in the order they are polled: OPS1, OPS2, SDM1, SDM2
    Circumstances,  \* the sets of conditions (below) to choose from
    MaxChanges      \* bound: what users and clients do

ASSUME NModulesAssumption == NModules \in Nat \ {0}
ASSUME MaxChangesAssumption == MaxChanges \in Nat

Modules == 1..NModules
Ops1 == 1

(* The settings: "auto" (ops_plugin_auto_power), "start" (start mode 0),   *)
(* "byPlug" and "byPower" (dynadjpow and its based mode).  The hardware:   *)
(* "eager" (a module that gets power starts by itself).  The world:        *)
(* "client" (clients press and switch), "brief" (a slot changes again      *)
(* before its last change was noted), "stale" (the members that no         *)
(* constructor sets hold anything).                                        *)
Conditions == {"auto", "start", "byPlug", "byPower", "eager", "client", "brief", "stale"}
ASSUME CircumstancesAssumption == Circumstances \subseteq SUBSET Conditions

VARIABLES
    conditions,     \* chosen once
    present,        \* modules in their slots
    powered,        \* slots with 19V
    running,        \* modules that are switched on
    edidReady,      \* getSocHdmiEdidStatus
    chipDone,       \* getChipInitDone of the charger
    step, module,   \* where the thread stands
    mPreDetStatus,  \* mPreOps1DetStatus ... mPreSdm2DetStatus
    mPrePowerState,
    mPreDetStatusPower,
    mSetCharging,
    s32OpsStartCompleted,
    charge,         \* which of the charging modes was set last
    reportedIn,     \* modules whose last plug event was PLUGIN
    reportedOn,     \* modules whose last power event was POWERON
    undisturbed,    \* modules in their slot since boot, untouched by clients
    changes

world == <<present, powered, running, edidReady, chipDone, undisturbed, changes>>
slots == <<present, powered, running>>
place == <<step, module>>
charging == <<mPreDetStatusPower, mSetCharging, charge>>
plugs == <<mPreDetStatus, reportedIn>>
powers == <<mPrePowerState, reportedOn>>
vars == <<conditions, world, place, charging, plugs, powers, s32OpsStartCompleted>>

Steps == {"first", "adjust", "plug", "cut", "auto", "report", "power",
          "edid", "start", "give", "read", "press"}
DetStatus == {"in", "out", "other"}
ChargeModes == {"unset", "plugin", "plugout", "nostart"}

OpsTypeOK ==
    /\ conditions \in Circumstances
    /\ present \subseteq Modules
    /\ powered \subseteq Modules
    /\ running \subseteq present \cap powered
    /\ edidReady \in BOOLEAN /\ chipDone \in BOOLEAN
    /\ step \in Steps
    /\ module \in Modules
    /\ mPreDetStatus \in [Modules -> DetStatus]
    /\ mPrePowerState \in [Modules -> BOOLEAN]
    /\ mPreDetStatusPower \in DetStatus
    /\ mSetCharging \in BOOLEAN
    /\ s32OpsStartCompleted \in BOOLEAN
    /\ charge \in ChargeModes
    /\ reportedIn \subseteq Modules /\ reportedOn \subseteq Modules
    /\ undisturbed \subseteq present
    /\ changes \in 0..MaxChanges

-----------------------------------------------------------------------------
DetOf(found) == IF found THEN "in" ELSE "out"

\* Members of a fresh object: the pages of the heap are zero, or not.
Unset == IF "stale" \in conditions THEN DetStatus ELSE {"out"}

(* The constructor has started; which slots have 19V is the board's choice.*)
(* The thread it starts waits 300 ms before it reads mSetCharging, which   *)
(* the constructor sets after starting it.                                 *)
Init ==
    /\ conditions \in Circumstances
    /\ present \in SUBSET Modules
    /\ powered \in SUBSET Modules
    /\ running = IF "eager" \in conditions THEN present \cap powered ELSE {}
    /\ edidReady = FALSE /\ chipDone = FALSE
    /\ step = "first" /\ module = 1
    /\ mPreDetStatus \in [Modules -> Unset]
    /\ mPrePowerState = [m \in Modules |-> FALSE]
    /\ mPreDetStatusPower \in Unset
    /\ mSetCharging = TRUE
    /\ s32OpsStartCompleted = FALSE
    /\ charge = "unset"
    /\ reportedIn = {} /\ reportedOn = {}
    /\ undisturbed = present
    /\ changes = 0

(* The thread goes on with the next module, and after the last with s. *)
Advance(this, m, after) ==
    IF m < NModules THEN step' = this /\ module' = m + 1
                    ELSE step' = after /\ module' = 1

GoTo(s) == step' = s /\ UNCHANGED module

(* setOpsPowerEnable: gives a slot 19V, or cuts it. *)
setOpsPowerEnable(on, m) ==
    /\ powered' = IF on THEN powered \cup {m} ELSE powered \ {m}
    /\ running' = IF ~on THEN running \ {m}
                  ELSE IF "eager" \in conditions THEN running \cup ({m} \cap present)
                  ELSE running
    /\ UNCHANGED present

(* setOpsPowerCtrl: a pulse on PS_ON, the power button of the module. *)
setOpsPowerCtrl(m) ==
    /\ running' = IF m \in running THEN running \ {m}
                                   ELSE running \cup ({m} \cap present \cap powered)
    /\ UNCHANGED <<present, powered>>

-----------------------------------------------------------------------------
(* The thread, from the constructor's processFirstPowerOnOPS on.           *)

FirstPowerOn(m) ==
    /\ step = "first"
    /\ IF m \in present THEN UNCHANGED slots ELSE setOpsPowerEnable(FALSE, m)
    /\ Advance("first", m, "adjust")
    /\ UNCHANGED <<charging, plugs, powers, s32OpsStartCompleted>>

(* What dynamicallyAdjustPower reads. *)
AdjustBy == DetOf(\/ ("byPlug" \in conditions /\ Ops1 \in present)
                  \/ ("byPower" \in conditions /\ Ops1 \in running))

Adjusts == chipDone /\ conditions \cap {"byPlug", "byPower"} # {}

(* Faulty: notes what it read on the rising edge only. *)
AdjustRising ==
    /\ step = "adjust"
    /\ charge' = IF ~Adjusts THEN charge
                 ELSE CASE mPreDetStatusPower = "out" /\ AdjustBy = "in" -> "plugin"
                        [] mPreDetStatusPower = "in" /\ AdjustBy = "out" -> "plugout"
                        [] OTHER -> charge
    /\ mPreDetStatusPower' = IF charge' = "plugin" THEN "in" ELSE mPreDetStatusPower
    /\ step' = "plug" /\ module' = 1
    /\ UNCHANGED <<mSetCharging, slots, plugs, powers, s32OpsStartCompleted>>

(* dynamicallyAdjustPower, when a setting asks for it and the charger is   *)
(* up; a value that is neither TRUE nor FALSE matches no branch.           *)
Adjust ==
    /\ step = "adjust"
    /\ \/ /\ ~Adjusts
          /\ UNCHANGED charging
       \/ /\ Adjusts
          /\ \/ /\ mPreDetStatusPower = "out" /\ AdjustBy = "in"
                /\ charge' = "plugin" /\ mSetCharging' = FALSE
             \/ /\ mPreDetStatusPower = "in" /\ AdjustBy = "out"
                /\ charge' = "plugout" /\ mSetCharging' = FALSE
             \/ /\ mPreDetStatusPower = "out" /\ AdjustBy = "out"
                /\ charge' = IF mSetCharging THEN "nostart" ELSE charge
                /\ mSetCharging' = FALSE
             \/ /\ mPreDetStatusPower = "other" \/ (mPreDetStatusPower = "in" /\ AdjustBy = "in")
                /\ UNCHANGED <<charge, mSetCharging>>
          /\ mPreDetStatusPower' = AdjustBy
    /\ step' = "plug" /\ module' = 1
    /\ UNCHANGED <<slots, plugs, powers, s32OpsStartCompleted>>

(* Faulty: does not note that a module was pulled. *)
PlugCheckIn(m) ==
    LET status == DetOf(m \in present) IN
    /\ step = "plug"
    /\ IF status = mPreDetStatus[m]
       THEN Advance("plug", m, "report") /\ UNCHANGED plugs
       ELSE /\ mPreDetStatus' = IF status = "in" THEN [mPreDetStatus EXCEPT ![m] = "in"]
                                                 ELSE mPreDetStatus
            /\ reportedIn' = IF status = "in" THEN reportedIn \cup {m} ELSE reportedIn \ {m}
            /\ IF status = "out" THEN GoTo("cut") ELSE Advance("plug", m, "report")
    /\ UNCHANGED <<slots, charging, powers, s32OpsStartCompleted>>

(* processOpsPlug for one module: reads the slot, and on a change notes    *)
(* and posts it; what it then does to the 19V is a step of its own.        *)
PlugCheck(m) ==
    LET status == DetOf(m \in present) IN
    /\ step = "plug"
    /\ \/ /\ status = mPreDetStatus[m]
          /\ Advance("plug", m, "report")
          /\ UNCHANGED plugs
       \/ /\ status # mPreDetStatus[m]
          /\ mPreDetStatus' = [mPreDetStatus EXCEPT ![m] = status]
          /\ \/ status = "out" /\ reportedIn' = reportedIn \ {m} /\ GoTo("cut")
             \/ /\ status = "in" /\ reportedIn' = reportedIn \cup {m}
                /\ IF "auto" \in conditions THEN GoTo("auto") ELSE Advance("plug", m, "report")
    /\ UNCHANGED <<slots, charging, powers, s32OpsStartCompleted>>

CutPower(m) ==
    /\ step = "cut"
    /\ setOpsPowerEnable(FALSE, m)
    /\ Advance("plug", m, "report")
    /\ UNCHANGED <<charging, plugs, powers, s32OpsStartCompleted>>

(* Faulty: takes the slot's state after the wait for the one it noted. *)
AutoPowerNoting(m) ==
    /\ step = "auto"
    /\ setOpsPowerEnable(TRUE, m)
    /\ mPreDetStatus' = [mPreDetStatus EXCEPT ![m] = DetOf(m \in present)]
    /\ Advance("plug", m, "report")
    /\ UNCHANGED <<charging, reportedIn, powers, s32OpsStartCompleted>>

(* ... 2 s after the module was noted, without another look at the slot. *)
AutoPower(m) ==
    /\ step = "auto"
    /\ setOpsPowerEnable(TRUE, m)
    /\ Advance("plug", m, "report")
    /\ UNCHANGED <<charging, plugs, powers, s32OpsStartCompleted>>

AfterReport == IF s32OpsStartCompleted THEN "adjust" ELSE "edid"

(* processOpsStatusReport: the slot, then the power of the module in it. *)
Report(m) ==
    /\ step = "report"
    /\ IF m \in present THEN GoTo("power") ELSE Advance("report", m, AfterReport)
    /\ UNCHANGED <<slots, charging, plugs, powers, s32OpsStartCompleted>>

(* Faulty: forgets to note that the power went. *)
ReportPowerSticky(m) ==
    /\ step = "power"
    /\ mPrePowerState' = [mPrePowerState EXCEPT ![m] = @ \/ m \in running]
    /\ reportedOn' = IF m \in running
                     THEN IF mPrePowerState[m] THEN reportedOn ELSE reportedOn \cup {m}
                     ELSE reportedOn \ {m}
    /\ Advance("report", m, AfterReport)
    /\ UNCHANGED <<slots, charging, plugs, s32OpsStartCompleted>>

ReportPower(m) ==
    LET status == m \in running IN
    /\ step = "power"
    /\ \/ status = mPrePowerState[m] /\ UNCHANGED powers
       \/ /\ status # mPrePowerState[m]
          /\ mPrePowerState' = [mPrePowerState EXCEPT ![m] = status]
          /\ reportedOn' = IF status THEN reportedOn \cup {m} ELSE reportedOn \ {m}
    /\ Advance("report", m, AfterReport)
    /\ UNCHANGED <<slots, charging, plugs, s32OpsStartCompleted>>

(* processOpsStart gives up until the sink's EDID is ready. *)
StartEdid ==
    /\ step = "edid"
    /\ step' = IF edidReady THEN "start" ELSE "adjust"
    /\ module' = 1
    /\ UNCHANGED <<slots, charging, plugs, powers, s32OpsStartCompleted>>

(* The last module done, processOpsStart is never called again. *)
Started(m) ==
    /\ Advance("start", m, "adjust")
    /\ s32OpsStartCompleted' = (m = NModules)

StartDet(m) ==
    /\ step = "start"
    /\ \/ /\ "start" \in conditions /\ m \in present
          /\ GoTo("give")
          /\ UNCHANGED s32OpsStartCompleted
       \/ /\ "start" \notin conditions \/ m \notin present
          /\ Started(m)
    /\ UNCHANGED <<slots, charging, plugs, powers>>

StartGive(m) ==
    /\ step = "give"
    /\ setOpsPowerEnable(TRUE, m)
    /\ GoTo("read")
    /\ UNCHANGED <<charging, plugs, powers, s32OpsStartCompleted>>

(* Faulty: presses whatever the power is. *)
StartUnread(m) ==
    /\ step = "read"
    /\ GoTo("press")
    /\ UNCHANGED <<slots, charging, plugs, powers, s32OpsStartCompleted>>

(* 2 s later: PS_ON is for a module that is still off. *)
StartRead(m) ==
    /\ step = "read"
    /\ \/ m \in running /\ Started(m)
       \/ m \notin running /\ GoTo("press") /\ UNCHANGED s32OpsStartCompleted
    /\ UNCHANGED <<slots, charging, plugs, powers>>

StartPress(m) ==
    /\ step = "press"
    /\ setOpsPowerCtrl(m)
    /\ Started(m)
    /\ UNCHANGED <<charging, plugs, powers>>

Poll ==
    /\ \/ Adjust \/ StartEdid
       \/ FirstPowerOn(module) \/ PlugCheck(module) \/ CutPower(module) \/ AutoPower(module)
       \/ Report(module) \/ ReportPower(module)
       \/ StartDet(module) \/ StartGive(module) \/ StartRead(module) \/ StartPress(module)
    /\ UNCHANGED <<conditions, edidReady, chipDone, undisturbed, changes>>

-----------------------------------------------------------------------------
(* The world: users at the slots, clients of the power interface, chips.   *)

Noted(m) == "brief" \in conditions \/ mPreDetStatus[m] = DetOf(m \in present)

Plug(m) ==
    /\ m \notin present /\ Noted(m)
    /\ present' = present \cup {m}
    /\ running' = IF "eager" \in conditions THEN running \cup ({m} \cap powered) ELSE running
    /\ UNCHANGED <<powered, undisturbed>>

Unplug(m) ==
    /\ m \in present /\ Noted(m)
    /\ present' = present \ {m}
    /\ running' = running \ {m}
    /\ undisturbed' = undisturbed \ {m}
    /\ UNCHANGED powered

(* A client uses the power of a module that is in its slot. *)
ClientPower(m) ==
    /\ "client" \in conditions
    /\ m \in present
    /\ setOpsPowerCtrl(m) \/ \E on \in BOOLEAN : setOpsPowerEnable(on, m)
    /\ undisturbed' = undisturbed \ {m}

Change ==
    /\ changes < MaxChanges
    /\ changes' = changes + 1
    /\ \E m \in Modules : Plug(m) \/ Unplug(m) \/ ClientPower(m)
    /\ UNCHANGED <<conditions, edidReady, chipDone, place, charging, plugs, powers,
                   s32OpsStartCompleted>>

Ready ==
    /\ \/ ~edidReady /\ edidReady' = TRUE /\ UNCHANGED chipDone
       \/ ~chipDone /\ chipDone' = TRUE /\ UNCHANGED edidReady
    /\ UNCHANGED <<conditions, slots, undisturbed, changes, place, charging, plugs, powers,
                   s32OpsStartCompleted>>

Next == Poll \/ Change \/ Ready

(* The thread runs for ever; users, clients and chips do as they like. *)
Spec == Init /\ [][Next]_vars /\ WF_vars(Poll)

-----------------------------------------------------------------------------
(* Properties.                                                             *)

(* processOpsStart does not press the button of a module that came up with *)
(* its power, and presses it for one that did not: what was in its slot    *)
(* and left alone is on when the boot start is over.                       *)
StartedAtBoot ==
    s32OpsStartCompleted /\ "start" \in conditions => undisturbed \subseteq running

(* A pulled module leaves no powered slot behind, not even when it was     *)
(* pulled in the 2 s before processOpsPlug or processOpsStart gave it the  *)
(* 19V - unless it came and went between two looks of processOpsPlug,      *)
(* while processOpsStart or the constructor saw it.                        *)
EmptySlotIsCut ==
    "brief" \notin conditions => <>[](powered \subseteq present)

(* The power events a client has seen end up with the power the module in  *)
(* the slot has, however modules were exchanged.                           *)
PowerIsReported == <>[](reportedOn \cap present = running)

(* ... and the plug events with the slots, unless the members the          *)
(* constructor leaves unset happen to hold TRUE.                           *)
PlugIsReported == "stale" \notin conditions => <>[](reportedIn = present)

(* The charging mode follows OPS1 through every order of plugging, power   *)
(* and charger start.                                                      *)
ChargeFollows ==
    "stale" \notin conditions =>
        <>[](Adjusts => charge \in IF AdjustBy = "in" THEN {"plugin"} ELSE {"plugout", "nostart"})
=============================================================================
