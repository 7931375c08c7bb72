----------------------------- MODULE OpsProofs -----------------------------
(***************************************************************************)
(* Theorems about the computer modules.  OpsManager, for any number of     *)
(* slots, any settings and any conduct of users and clients: types, and    *)
(* that the boot start leaves every module on.  OpsCrc, for any limit, any *)
(* modules and any number of moves: types, that a result of SUCCESS comes  *)
(* after its picture, that each packet is served once, that no answer is   *)
(* taken for a wrong one, and what a module that went leaves behind.       *)
(***************************************************************************)
EXTENDS OpsManager, OpsCrc, SequenceTheorems, TLAPS

(***************************************************************************)
(* The manager.                                                            *)
(***************************************************************************)
StartSteps == {"start", "give", "read", "press"}

(* StartedAtBoot says nothing before the boot start is over.  What makes   *)
(* it inductive: the modules the boot start has passed are on already; the *)
(* one it is at has its power, and when the button is about to be pressed  *)
(* is off; and power is only cut in slots whose module did not stay.       *)
StartInv ==
    /\ undisturbed \subseteq present
    /\ step \in Steps /\ module \in Modules
    /\ step = "cut" => module \notin undisturbed
    /\ step \in StartSteps \cup {"edid"} => ~s32OpsStartCompleted
    /\ step \in StartSteps \ {"start"} => "start" \in conditions
    /\ step \in StartSteps /\ "start" \in conditions =>
          \A m \in undisturbed : m < module => m \in running
    /\ step \in {"read", "press"} /\ module \in undisturbed => module \in powered
    /\ step = "press" /\ module \in undisturbed => module \notin running
    /\ StartedAtBoot
    /\ undisturbed \subseteq Modules

(* Going on stays within the slots: the index never leaves 1..NModules.    *)
LEMMA AdvanceFacts ==
    ASSUME NEW this \in Steps, NEW after \in Steps, module \in Modules, Advance(this, module, after)
    PROVE  /\ step' \in {this, after} /\ module' \in Modules
           /\ step' # this => module = NModules /\ module' = 1
           /\ module' # module + 1 => step' = after /\ module = NModules
  BY NModulesAssumption, SMT DEF Advance, Modules

(* The boot start goes on with the next module or is over.                 *)
LEMMA StartedFacts ==
    ASSUME module \in Modules, Started(module)
    PROVE  /\ module' \in Modules
           /\ \/ step' = "start" /\ module' = module + 1 /\ ~s32OpsStartCompleted'
              \/ step' = "adjust" /\ module = NModules /\ s32OpsStartCompleted'
<1>1. CASE module < NModules
  <2>1. module # NModules /\ module + 1 \in Modules
    BY <1>1, NModulesAssumption, SMT DEF Modules
  <2> QED BY <1>1, <2>1, Zenon DEF Started, Advance
<1>2. CASE ~(module < NModules)
  <2>1. module = NModules /\ 1 \in Modules
    BY <1>2, NModulesAssumption, SMT DEF Modules
  <2> QED BY <1>2, <2>1, Zenon DEF Started, Advance
<1> QED BY <1>1, <1>2

(* Power is lost only in the slot it is cut in.                            *)
LEMMA EnableFacts ==
    ASSUME NEW m \in Modules, NEW enabled \in BOOLEAN, setOpsPowerEnable(enabled, m)
    PROVE  /\ present' = present
           /\ enabled => running \subseteq running' /\ m \in powered' /\ powered \subseteq powered'
           /\ running \ {m} \subseteq running' /\ powered \ {m} \subseteq powered'
           /\ running' \subseteq running \cup {m}
  BY DEF setOpsPowerEnable

(* No step leaves the types: the poll stays on the slots there are, only   *)
(* a module in a powered slot runs (XbhOpsManager.cpp:20-55).              *)
THEOREM OpsTypeCorrect == Spec => []OpsTypeOK
<1>1. Init => OpsTypeOK
  <2> SUFFICES ASSUME Init PROVE OpsTypeOK
    OBVIOUS
  <2>1. Unset \subseteq DetStatus
    BY DEF Unset, DetStatus
  <2>2. mPreDetStatus \in [Modules -> DetStatus] /\ mPreDetStatusPower \in DetStatus
    BY <2>1, Zenon DEF Init
  <2>3. 1 \in Modules /\ 0 \in 0..MaxChanges
    BY NModulesAssumption, MaxChangesAssumption DEF Modules
  <2>4. running \subseteq present \cap powered
    BY DEF Init
  <2> QED BY <2>2, <2>3, <2>4 DEF Init, OpsTypeOK, Steps, ChargeModes
<1>2. OpsTypeOK /\ [Next]_vars => OpsTypeOK'
  <2> SUFFICES ASSUME OpsTypeOK, [Next]_vars
               PROVE  OpsTypeOK'
    OBVIOUS
  <2> USE DEF OpsTypeOK
  <2>1. CASE UNCHANGED vars
    BY <2>1 DEF vars, world, place, plugs, powers, charging
  <2>2. CASE Ready
    BY <2>2 DEF Ready, slots, place, plugs, powers, charging
  <2>3. CASE Change
    <3>1. UNCHANGED <<conditions, edidReady, chipDone, place, charging, plugs, powers, s32OpsStartCompleted>>
      BY <2>3 DEF Change
    <3>2. changes' \in 0..MaxChanges
      BY <2>3, MaxChangesAssumption DEF Change
    <3>3. /\ present' \subseteq Modules /\ powered' \subseteq Modules
          /\ running' \subseteq present' \cap powered'
          /\ undisturbed' \subseteq present'
      BY <2>3 DEF Change, Plug, Unplug, ClientPower, setOpsPowerCtrl, setOpsPowerEnable
    <3> QED BY <3>1, <3>2, <3>3 DEF place, plugs, powers, charging
  <2>4. CASE Poll
    <3> USE <2>4
    <3>1. UNCHANGED <<conditions, edidReady, chipDone, undisturbed, changes>>
      BY DEF Poll
    <3>2. /\ present' = present /\ powered' \subseteq Modules
          /\ running' \subseteq present' \cap powered'
      BY DEF Poll, Adjust, StartEdid, FirstPowerOn, PlugCheck, CutPower, AutoPower, Report,
             ReportPower, StartDet, StartGive, StartRead, StartPress, slots,
             setOpsPowerEnable, setOpsPowerCtrl
    <3>3. step' \in Steps /\ module' \in Modules
      <4>1. CASE Adjust \/ StartEdid
        BY <4>1, NModulesAssumption DEF Adjust, StartEdid, Steps, Modules
      <4>2. CASE FirstPowerOn(module) \/ PlugCheck(module) \/ CutPower(module) \/ AutoPower(module)
        BY <4>2, AdvanceFacts DEF FirstPowerOn, PlugCheck, CutPower, AutoPower, Steps, GoTo
      <4>3. CASE Report(module) \/ ReportPower(module)
        BY <4>3, AdvanceFacts DEF Report, ReportPower, AfterReport, Steps, GoTo
      <4>4. CASE StartDet(module) \/ StartGive(module) \/ StartRead(module) \/ StartPress(module)
        BY <4>4, StartedFacts DEF StartDet, StartGive, StartRead, StartPress, Steps, GoTo
      <4> QED BY <4>1, <4>2, <4>3, <4>4 DEF Poll
    <3>4. s32OpsStartCompleted' \in BOOLEAN
      BY StartedFacts DEF Poll, Adjust, StartEdid, FirstPowerOn, PlugCheck, CutPower, AutoPower,
             Report, ReportPower, StartDet, StartGive, StartRead, StartPress, Started
    <3>5. mPreDetStatus' \in [Modules -> DetStatus] /\ reportedIn' \subseteq Modules
      BY DEF Poll, Adjust, StartEdid, FirstPowerOn, PlugCheck, CutPower, AutoPower, Report,
             ReportPower, StartDet, StartGive, StartRead, StartPress, plugs, DetOf, DetStatus
    <3>6. mPrePowerState' \in [Modules -> BOOLEAN] /\ reportedOn' \subseteq Modules
      <4>1. CASE ReportPower(module)
        <5> DEFINE status == module \in running
        <5>1. CASE UNCHANGED powers
          BY <5>1 DEF powers
        <5>2. CASE mPrePowerState' = [mPrePowerState EXCEPT ![module] = status]
          <6>1. status \in BOOLEAN
            OBVIOUS
          <6>2. mPrePowerState' \in [Modules -> BOOLEAN]
            <7> HIDE DEF status
            <7> QED BY <5>2, <6>1
          <6>3. reportedOn' \subseteq Modules
            BY <4>1 DEF ReportPower, powers
          <6> QED BY <6>2, <6>3
        <5> QED BY <4>1, <5>1, <5>2 DEF ReportPower
      <4>2. CASE UNCHANGED powers
        BY <4>2 DEF powers
      <4> QED BY <4>1, <4>2 DEF Poll, Adjust, StartEdid, FirstPowerOn, PlugCheck, CutPower,
             AutoPower, Report, StartDet, StartGive, StartRead, StartPress
    <3>7. mPreDetStatusPower' \in DetStatus /\ mSetCharging' \in BOOLEAN /\ charge' \in ChargeModes
      BY DEF Poll, Adjust, StartEdid, FirstPowerOn, PlugCheck, CutPower, AutoPower, Report,
             ReportPower, StartDet, StartGive, StartRead, StartPress, charging, AdjustBy, DetOf,
             DetStatus, ChargeModes
    <3> QED BY <3>1, <3>2, <3>3, <3>4, <3>5, <3>6, <3>7
  <2> QED BY <2>1, <2>2, <2>3, <2>4 DEF Next
<1> QED BY <1>1, <1>2, PTL DEF Spec

(* With all modules up to the present one on, the boot start may go on.    *)
LEMMA PassedOn ==
    ASSUME StartInv, Started(module), UNCHANGED <<conditions, undisturbed, present>>,
           "start" \in conditions => \A m \in undisturbed : m <= module => m \in running'
    PROVE  StartInv'
<1>1. /\ module' \in Modules
      /\ \/ step' = "start" /\ module' = module + 1 /\ ~s32OpsStartCompleted'
         \/ step' = "adjust" /\ module = NModules /\ s32OpsStartCompleted'
  BY StartedFacts DEF StartInv
<1>2. CASE step' = "start" /\ module' = module + 1 /\ ~s32OpsStartCompleted'
  BY <1>1, <1>2 DEF StartInv, StartedAtBoot, StartSteps, Steps, Modules
<1>3. CASE step' = "adjust" /\ module = NModules /\ s32OpsStartCompleted'
  BY <1>1, <1>3 DEF StartInv, StartedAtBoot, StartSteps, Steps, Modules
<1> QED BY <1>1, <1>2, <1>3

(* The boot start leaves every module that stayed where it was, and that   *)
(* no client touched, switched on (XbhOpsManager.cpp:467-580).             *)
THEOREM StartInvariant == Spec => []StartInv
<1>1. Init => StartInv
  BY NModulesAssumption DEF Init, StartInv, StartedAtBoot, Steps, StartSteps, Modules
<1>2. StartInv /\ [Next]_vars => StartInv'
  <2> SUFFICES ASSUME StartInv, [Next]_vars
               PROVE  StartInv'
    OBVIOUS
  <2> USE DEF StartInv
  <2>1. CASE UNCHANGED vars
    BY <2>1 DEF vars, world, place, plugs, powers, charging, StartedAtBoot
  <2>2. CASE Ready
    BY <2>2 DEF Ready, slots, place, plugs, powers, charging, StartedAtBoot
  <2>3. CASE Change
    <3>1. UNCHANGED <<conditions, step, module, s32OpsStartCompleted>>
      BY <2>3 DEF Change, place
    <3>2. undisturbed' \subseteq undisturbed /\ undisturbed' \subseteq present'
      BY <2>3, EnableFacts DEF Change, Plug, Unplug, ClientPower, setOpsPowerCtrl
    <3>3. \A m \in undisturbed' : /\ m \in running => m \in running'
                                  /\ m \in powered => m \in powered'
      BY <2>3 DEF Change, Plug, Unplug, ClientPower, setOpsPowerCtrl, setOpsPowerEnable
    <3>4. \A m \in undisturbed' : m \in running' => m \in running
      BY <2>3 DEF Change, Plug, Unplug, ClientPower, setOpsPowerCtrl, setOpsPowerEnable
    <3> QED BY <3>1, <3>2, <3>3, <3>4 DEF StartedAtBoot
  <2>4. CASE Poll
    <3> USE <2>4
    <3>1. UNCHANGED <<conditions, undisturbed>>
      BY DEF Poll
    <3>2. CASE Adjust
      BY <3>1, <3>2, NModulesAssumption DEF Adjust, slots, StartedAtBoot, Modules, Steps, StartSteps
    <3>3. CASE StartEdid
      BY <3>1, <3>3, NModulesAssumption DEF StartEdid, slots, StartedAtBoot, Modules, Steps, StartSteps
    <3>4. CASE FirstPowerOn(module)
      BY <3>1, <3>4, AdvanceFacts DEF FirstPowerOn, slots, setOpsPowerEnable, StartedAtBoot, Steps, StartSteps
    <3>5. CASE PlugCheck(module)
      BY <3>1, <3>5, AdvanceFacts DEF PlugCheck, DetOf, GoTo, slots, StartedAtBoot, Steps, StartSteps
    <3>6. CASE CutPower(module)
      BY <3>1, <3>6, AdvanceFacts DEF CutPower, setOpsPowerEnable, StartedAtBoot, Steps, StartSteps
    <3>7. CASE AutoPower(module)
      BY <3>1, <3>7, AdvanceFacts, EnableFacts DEF AutoPower, StartedAtBoot, Steps, StartSteps
    <3>8. CASE Report(module)
      BY <3>1, <3>8, AdvanceFacts DEF Report, AfterReport, GoTo, slots, StartedAtBoot, Steps, StartSteps
    <3>9. CASE ReportPower(module)
      BY <3>1, <3>9, AdvanceFacts DEF ReportPower, AfterReport, slots, StartedAtBoot, Steps, StartSteps
    <3>10. CASE StartDet(module)
      <4>1. CASE GoTo("give") /\ "start" \in conditions /\ UNCHANGED s32OpsStartCompleted
        BY <3>1, <3>10, <4>1 DEF StartDet, GoTo, slots, StartedAtBoot, Steps, StartSteps
      <4>2. CASE Started(module) /\ ("start" \notin conditions \/ module \notin present)
        <5>1. "start" \in conditions => module \notin undisturbed
          BY <4>2
        <5>2. "start" \in conditions => \A m \in undisturbed : m <= module => m \in running
          BY <3>10, <5>1 DEF StartDet, StartSteps, Modules
        <5> QED BY <3>1, <3>10, <4>2, <5>2, PassedOn DEF StartDet, slots
      <4> QED BY <3>10, <4>1, <4>2 DEF StartDet
    <3>11. CASE StartGive(module)
      BY <3>1, <3>11, EnableFacts DEF StartGive, GoTo, StartedAtBoot, Steps, StartSteps
    <3>12. CASE StartRead(module)
      <4>1. CASE module \in running /\ Started(module)
        <5>1. \A m \in undisturbed : m <= module => m \in running
          BY <3>12, <4>1 DEF StartRead, StartSteps, Modules
        <5> QED BY <3>1, <3>12, <4>1, <5>1, PassedOn DEF StartRead, slots
      <4>2. CASE module \notin running /\ GoTo("press") /\ UNCHANGED s32OpsStartCompleted
        BY <3>1, <3>12, <4>2 DEF StartRead, GoTo, slots, StartedAtBoot, Steps, StartSteps
      <4> QED BY <3>12, <4>1, <4>2 DEF StartRead
    <3>13. CASE StartPress(module)
      <4>1. \A m \in undisturbed : m < module => m \in running
        BY <3>13 DEF StartPress, StartSteps
      <4>2. \A m \in undisturbed : m <= module => m \in running'
        BY <3>13, <4>1 DEF StartPress, setOpsPowerCtrl, Modules
      <4>3. UNCHANGED present
        BY <3>13 DEF StartPress, setOpsPowerCtrl
      <4> QED BY <3>1, <3>13, <4>2, <4>3, PassedOn DEF StartPress
    <3> QED BY <3>2, <3>3, <3>4, <3>5, <3>6, <3>7, <3>8, <3>9, <3>10, <3>11, <3>12, <3>13 DEF Poll
  <2> QED BY <2>1, <2>2, <2>3, <2>4 DEF Next
<1> QED BY <1>1, <1>2, PTL DEF Spec

(* The property the run checks, for any number of slots.                   *)
THEOREM StartedAtBootTheorem == Spec => []StartedAtBoot
<1>1. StartInv => StartedAtBoot
  BY DEF StartInv
<1> QED BY <1>1, StartInvariant, PTL

-----------------------------------------------------------------------------
(* What clients were told and the charger was set to is what the thread    *)
(* has noted, at every step of the poll - the members that the constructor *)
(* leaves unset aside.                                                     *)
ToldPlugs == \A m \in Modules : m \in reportedIn <=> mPreDetStatus[m] = "in"
ToldPowers == \A m \in Modules : m \in reportedOn <=> mPrePowerState[m] = TRUE
ToldCharger ==
    \/ charge = "unset" /\ mSetCharging = TRUE /\ mPreDetStatusPower = "out"
    \/ charge = "plugin" /\ mPreDetStatusPower = "in"
    \/ charge \in {"plugout", "nostart"} /\ mPreDetStatusPower = "out"

ToldIsNoted == ToldPowers /\ ("stale" \notin conditions => ToldPlugs /\ ToldCharger)

LEMMA NothingTold ==
    ASSUME UNCHANGED <<conditions, charging, plugs, powers>>, ToldIsNoted
    PROVE  ToldIsNoted'
  BY DEF ToldIsNoted, ToldPlugs, ToldPowers, ToldCharger, charging, plugs, powers

LEMMA PlugTold ==
    ASSUME OpsTypeOK, ToldPlugs, PlugCheck(module)
    PROVE  ToldPlugs'
<1> DEFINE status == DetOf(module \in present)
<1>1. module \in Modules /\ mPreDetStatus \in [Modules -> DetStatus]
  BY DEF OpsTypeOK
<1>2. CASE status = mPreDetStatus[module]
  BY <1>2 DEF PlugCheck, plugs, ToldPlugs
<1>3. CASE status # mPreDetStatus[module]
  <2>1. mPreDetStatus' = [mPreDetStatus EXCEPT ![module] = status]
    BY <1>3 DEF PlugCheck
  <2>2. \/ status = "out" /\ reportedIn' = reportedIn \ {module}
        \/ status = "in" /\ reportedIn' = reportedIn \cup {module}
    BY <1>3 DEF PlugCheck
  <2> HIDE DEF status
  <2> QED
    BY <1>1, <2>1, <2>2 DEF ToldPlugs
<1> QED
  BY <1>2, <1>3

LEMMA PowerTold ==
    ASSUME OpsTypeOK, ToldPowers, ReportPower(module)
    PROVE  ToldPowers'
<1> DEFINE status == module \in running
<1>1. module \in Modules /\ mPrePowerState \in [Modules -> BOOLEAN]
  BY DEF OpsTypeOK
<1>2. CASE UNCHANGED powers
  BY <1>2 DEF powers, ToldPowers
<1>3. CASE /\ mPrePowerState' = [mPrePowerState EXCEPT ![module] = status]
           /\ reportedOn' = IF status THEN reportedOn \cup {module} ELSE reportedOn \ {module}
  <2>1. CASE status
    <3>1. mPrePowerState' = [mPrePowerState EXCEPT ![module] = TRUE] /\ reportedOn' = reportedOn \cup {module}
      BY <1>3, <2>1, Zenon
    <3> QED
      BY <1>1, <3>1 DEF ToldPowers
  <2>2. CASE ~status
    <3>1. status = FALSE
      BY <2>2, SMT
    <3>2. reportedOn' = reportedOn \ {module}
      BY <1>3, <2>2, Zenon
    <3>3. mPrePowerState' = [mPrePowerState EXCEPT ![module] = FALSE]
      <4> HIDE DEF status
      <4> QED
        BY <1>3, <3>1, Zenon
    <3> QED
      BY <1>1, <3>2, <3>3 DEF ToldPowers
  <2> QED
    BY <2>1, <2>2
<1> QED
  BY <1>2, <1>3 DEF ReportPower

LEMMA ChargerTold ==
    ASSUME ToldCharger, Adjust
    PROVE  ToldCharger'
<1>1. AdjustBy \in {"in", "out"}
  BY DEF AdjustBy, DetOf
<1>2. CASE UNCHANGED charging
  BY <1>2 DEF charging, ToldCharger
<1>3. CASE ~UNCHANGED charging
  BY <1>1, <1>3 DEF Adjust, ToldCharger
<1> QED
  BY <1>2, <1>3

THEOREM ToldIsNotedTheorem == Spec => []ToldIsNoted
<1>1. Init => ToldIsNoted
  <2> SUFFICES ASSUME Init PROVE ToldIsNoted
    OBVIOUS
  <2>1. \A m \in Modules : mPrePowerState[m] = FALSE
    BY DEF Init
  <2>2. ASSUME "stale" \notin conditions
        PROVE  mPreDetStatusPower = "out" /\ \A m \in Modules : mPreDetStatus[m] = "out"
    <3>1. Unset = {"out"}
      BY <2>2 DEF Unset
    <3>2. mPreDetStatus \in [Modules -> {"out"}]
      BY <3>1, Zenon DEF Init
    <3> QED
      BY <3>1, <3>2 DEF Init
  <2>3. reportedIn = {} /\ reportedOn = {} /\ charge = "unset" /\ mSetCharging = TRUE
    BY DEF Init
  <2> QED
    BY <2>1, <2>2, <2>3 DEF ToldIsNoted, ToldPlugs, ToldPowers, ToldCharger
<1>2. OpsTypeOK /\ ToldIsNoted /\ [Next]_vars => ToldIsNoted'
  <2> SUFFICES ASSUME OpsTypeOK, ToldIsNoted, [Next]_vars PROVE ToldIsNoted'
    OBVIOUS
  <2>1. CASE UNCHANGED vars
    BY <2>1, NothingTold DEF vars
  <2>2. CASE Ready
    BY <2>2, NothingTold DEF Ready
  <2>3. CASE Change
    BY <2>3, NothingTold DEF Change
  <2>4. CASE Poll
    <3>1. conditions' = conditions
      BY <2>4 DEF Poll
    <3>2. CASE PlugCheck(module)
      <4>1. UNCHANGED <<charging, powers>>
        BY <3>2 DEF PlugCheck
      <4> QED
        BY <3>1, <3>2, <4>1, PlugTold DEF ToldIsNoted, ToldPowers, ToldCharger, charging, powers
    <3>3. CASE ReportPower(module)
      <4>1. UNCHANGED <<charging, plugs>>
        BY <3>3 DEF ReportPower
      <4> QED
        BY <3>1, <3>3, <4>1, PowerTold DEF ToldIsNoted, ToldPlugs, ToldCharger, charging, plugs
    <3>4. CASE Adjust
      <4>1. UNCHANGED <<plugs, powers>>
        BY <3>4 DEF Adjust
      <4> QED
        BY <3>1, <3>4, <4>1, ChargerTold DEF ToldIsNoted, ToldPlugs, ToldPowers, plugs, powers
    <3>5. CASE FirstPowerOn(module) \/ CutPower(module) \/ AutoPower(module)
      BY <3>1, <3>5, NothingTold DEF FirstPowerOn, CutPower, AutoPower
    <3>6. CASE StartEdid \/ Report(module)
      BY <3>1, <3>6, NothingTold DEF StartEdid, Report
    <3>7. CASE StartDet(module) \/ StartGive(module) \/ StartRead(module) \/ StartPress(module)
      BY <3>1, <3>7, NothingTold DEF StartDet, StartGive, StartRead, StartPress
    <3> QED
      BY <2>4, <3>2, <3>3, <3>4, <3>5, <3>6, <3>7 DEF Poll
  <2> QED
    BY <2>1, <2>2, <2>3, <2>4 DEF Next
<1> QED
  BY <1>1, <1>2, OpsTypeCorrect, PTL DEF Spec

-----------------------------------------------------------------------------
(* A slot with 19V and no module in it is one whose pull the thread has    *)
(* still to note, or that it is just about to cut - unless a slot changed  *)
(* twice between two looks of processOpsPlug.                              *)
PullIsUnnoted ==
    "brief" \notin conditions =>
        \A m \in powered \ present :
            \/ mPreDetStatus[m] # "out"
            \/ step = "cut" /\ module = m
            \/ step = "first" /\ module <= m

(* What makes it inductive: the slot that is about to get 19V, two seconds *)
(* after it was looked at, has its module or a pull to be noted.           *)
CutInv ==
    /\ PullIsUnnoted
    /\ "brief" \notin conditions =>
          /\ step = "give" => module \in present \/ mPreDetStatus[module] # "out"
          /\ step = "auto" => mPreDetStatus[module] = "in"

(* Steps of the poll that touch no 19V and note no plug.                   *)
LEMMA NoPowerStep ==
    ASSUME CutInv, UNCHANGED <<conditions, present, powered, mPreDetStatus>>,
           step \notin {"first", "cut"}, step' \notin {"give", "auto"}
    PROVE  CutInv'
  BY DEF CutInv, PullIsUnnoted

LEMMA CutInvPoll ==
    ASSUME OpsTypeOK, CutInv, Poll
    PROVE  CutInv'
<1>0. /\ module \in Modules /\ mPreDetStatus \in [Modules -> DetStatus] /\ step \in Steps
      /\ conditions' = conditions /\ powered \subseteq Modules /\ present \subseteq Modules
  BY DEF OpsTypeOK, Poll
<1>1. CASE Adjust \/ StartEdid
  BY <1>0, <1>1, NoPowerStep DEF Adjust, StartEdid, slots, plugs
<1>2. CASE Report(module) \/ ReportPower(module)
  <2>1. UNCHANGED <<present, powered, mPreDetStatus>>
    BY <1>2 DEF Report, ReportPower, slots, plugs
  <2>2. step \notin {"first", "cut"}
    BY <1>2 DEF Report, ReportPower
  <2>3. step' \notin {"give", "auto"}
    BY <1>0, <1>2, AdvanceFacts DEF Report, ReportPower, AfterReport, Steps, GoTo
  <2> QED
    BY <1>0, <2>1, <2>2, <2>3, NoPowerStep
<1>3. CASE StartRead(module) \/ StartPress(module)
  <2>1. UNCHANGED <<present, powered, mPreDetStatus>>
    BY <1>3 DEF StartRead, StartPress, setOpsPowerCtrl, slots, plugs
  <2>2. step \notin {"first", "cut"}
    BY <1>3 DEF StartRead, StartPress
  <2>3. step' \notin {"give", "auto"}
    BY <1>0, <1>3, StartedFacts DEF StartRead, StartPress, GoTo
  <2> QED
    BY <1>0, <2>1, <2>2, <2>3, NoPowerStep
<1>4. CASE StartDet(module)
  <2>1. UNCHANGED <<present, powered, mPreDetStatus>> /\ step = "start"
    BY <1>4 DEF StartDet, slots, plugs
  <2>2. CASE module \in present /\ step' = "give" /\ module' = module
    BY <1>0, <2>1, <2>2 DEF CutInv, PullIsUnnoted
  <2>3. CASE Started(module)
    BY <1>0, <2>1, <2>3, StartedFacts, NoPowerStep
  <2> QED
    BY <1>4, <2>2, <2>3 DEF StartDet, GoTo
<1>5. CASE StartGive(module)
  <2>1. /\ step = "give" /\ step' = "read" /\ module' = module /\ powered' = powered \cup {module}
        /\ UNCHANGED <<present, mPreDetStatus>>
    BY <1>5 DEF StartGive, setOpsPowerEnable, GoTo, plugs
  <2> QED
    BY <1>0, <2>1 DEF CutInv, PullIsUnnoted
<1>6. CASE AutoPower(module)
  <2>1. /\ step = "auto" /\ powered' = powered \cup {module}
        /\ UNCHANGED <<present, mPreDetStatus>>
    BY <1>6 DEF AutoPower, setOpsPowerEnable, plugs
  <2>2. step' \in {"plug", "report"}
    BY <1>0, <1>6, AdvanceFacts DEF AutoPower, Steps
  <2> QED
    BY <1>0, <2>1, <2>2 DEF CutInv, PullIsUnnoted
<1>7. CASE CutPower(module)
  <2>1. /\ step = "cut" /\ powered' = powered \ {module}
        /\ UNCHANGED <<present, mPreDetStatus>>
    BY <1>7 DEF CutPower, setOpsPowerEnable, plugs
  <2>2. step' \in {"plug", "report"}
    BY <1>0, <1>7, AdvanceFacts DEF CutPower, Steps
  <2> QED
    BY <1>0, <2>1, <2>2 DEF CutInv, PullIsUnnoted
<1>8. CASE FirstPowerOn(module)
  <2>1. /\ step = "first" /\ UNCHANGED <<present, mPreDetStatus>>
        /\ \/ module \in present /\ powered' = powered
           \/ powered' = powered \ {module}
    BY <1>8 DEF FirstPowerOn, setOpsPowerEnable, plugs, slots
  <2>2. \/ step' = "first" /\ module' = module + 1
        \/ step' = "adjust" /\ module = NModules
    BY <1>0, <1>8, AdvanceFacts DEF FirstPowerOn, Advance, Steps
  <2>3. ASSUME "brief" \notin conditions, NEW m \in powered' \ present'
        PROVE  mPreDetStatus'[m] # "out" \/ (step' = "first" /\ module' <= m)
    <3>1. m \in powered \ present /\ m # module /\ m \in Modules
      BY <1>0, <2>1, <2>3
    <3>2. mPreDetStatus[m] # "out" \/ module <= m
      BY <2>1, <2>3, <3>1 DEF CutInv, PullIsUnnoted
    <3> QED
      BY <1>0, <2>1, <2>2, <3>1, <3>2, NModulesAssumption, SMT DEF Modules
  <2>4. step' \notin {"give", "auto"}
    BY <2>2
  <2> QED
    BY <1>0, <2>3, <2>4 DEF CutInv, PullIsUnnoted
<1>9. CASE PlugCheck(module)
  <2>1. UNCHANGED <<present, powered>> /\ step = "plug"
    BY <1>9 DEF PlugCheck, slots
  <2>2. CASE UNCHANGED mPreDetStatus /\ step' \in {"plug", "report"}
    BY <1>0, <2>1, <2>2, NoPowerStep
  <2>3. CASE /\ mPreDetStatus' = [mPreDetStatus EXCEPT ![module] = "out"] /\ module \notin present
             /\ step' = "cut" /\ module' = module
    BY <1>0, <2>1, <2>3 DEF CutInv, PullIsUnnoted
  <2>4. CASE /\ mPreDetStatus' = [mPreDetStatus EXCEPT ![module] = "in"] /\ module \in present
             /\ \/ step' \in {"plug", "report"}
                \/ step' = "auto" /\ module' = module
    BY <1>0, <2>1, <2>4 DEF CutInv, PullIsUnnoted
  <2>5. ASSUME Advance("plug", module, "report") PROVE step' \in {"plug", "report"}
    BY <1>0, <2>5, AdvanceFacts DEF Steps
  <2> DEFINE status == DetOf(module \in present)
  <2>6. CASE status = mPreDetStatus[module]
    BY <1>9, <2>2, <2>5, <2>6 DEF PlugCheck, plugs
  <2>7. CASE status # mPreDetStatus[module]
    <3>1. mPreDetStatus' = [mPreDetStatus EXCEPT ![module] = status]
      BY <1>9, <2>7 DEF PlugCheck
    <3>2. CASE status = "out" /\ GoTo("cut")
      BY <2>3, <3>1, <3>2 DEF GoTo, DetOf
    <3>3. CASE status = "in" /\ (GoTo("auto") \/ Advance("plug", module, "report"))
      BY <2>4, <2>5, <3>1, <3>3 DEF GoTo, DetOf
    <3> QED
      BY <1>9, <2>7, <3>2, <3>3 DEF PlugCheck
  <2> QED
    BY <2>6, <2>7
<1> QED
  BY <1>1, <1>2, <1>3, <1>4, <1>5, <1>6, <1>7, <1>8, <1>9 DEF Poll

LEMMA CutInvChange ==
    ASSUME OpsTypeOK, CutInv, Change
    PROVE  CutInv'
<1>0. UNCHANGED <<conditions, step, module, mPreDetStatus>> /\ present \subseteq Modules /\ module \in Modules
  BY DEF Change, place, plugs, OpsTypeOK
<1>1. ASSUME NEW m \in Modules, Plug(m) PROVE CutInv'
  BY <1>0, <1>1 DEF Plug, CutInv, PullIsUnnoted
<1>2. ASSUME NEW m \in Modules, Unplug(m) PROVE CutInv'
  <2>1. /\ m \in present /\ present' = present \ {m} /\ powered' = powered
        /\ "brief" \notin conditions => mPreDetStatus[m] = "in"
    BY <1>2 DEF Unplug, Noted, DetOf
  <2> QED
    BY <1>0, <2>1 DEF CutInv, PullIsUnnoted
<1>3. ASSUME NEW m \in Modules, ClientPower(m) PROVE CutInv'
  <2>1. m \in present /\ present' = present /\ powered' \in {powered, powered \cup {m}, powered \ {m}}
    BY <1>3 DEF ClientPower, setOpsPowerCtrl, setOpsPowerEnable
  <2> QED
    BY <1>0, <2>1 DEF CutInv, PullIsUnnoted
<1> QED
  BY <1>1, <1>2, <1>3 DEF Change

THEOREM PullIsUnnotedTheorem == Spec => []PullIsUnnoted
<1>1. Init => CutInv
  <2> SUFFICES ASSUME Init PROVE CutInv
    OBVIOUS
  <2>1. step = "first" /\ module = 1 /\ powered \subseteq Modules
    BY DEF Init
  <2>2. \A m \in Modules : 1 <= m
    BY NModulesAssumption DEF Modules
  <2> QED
    BY <2>1, <2>2 DEF CutInv, PullIsUnnoted
<1>2. OpsTypeOK /\ CutInv /\ [Next]_vars => CutInv'
  <2>1. ASSUME CutInv, UNCHANGED <<conditions, step, module, mPreDetStatus, present, powered>> PROVE CutInv'
    BY <2>1 DEF CutInv, PullIsUnnoted
  <2> QED
    BY <2>1, CutInvPoll, CutInvChange DEF Next, Ready, slots, place, plugs, vars, world
<1>3. CutInv => PullIsUnnoted
  BY DEF CutInv
<1> QED
  BY <1>1, <1>2, <1>3, OpsTypeCorrect, PTL DEF Spec

(***************************************************************************)
(* The check.                                                              *)
(***************************************************************************)
SenderPc == {"off", "auth", "wait", "verify", "query", "done"}
Senders == [pc : SenderPc, copies : 0..1, heard : Nat]

(* A counter over the limit is met by Expire in the same pass. *)
CrcType ==
    /\ OpsCrcTypeOK
    /\ stage # "expire" => \A s \in Slots : counter[s] <= Limit

LEMMA CrcInitType == CrcInit => CrcType
<1> USE OpsCrcAssumption
<1> SUFFICES ASSUME CrcInit PROVE CrcType
  OBVIOUS
<1>1. sender \in [Slots -> Senders]
  BY DEF CrcInit, Asking, Off, Senders, SenderPc
<1>2. on \subseteq Slots /\ woken \in Slots \cup {0}
  BY DEF CrcInit
<1>3. result \in [Slots -> Results] /\ due \in [Slots -> Seq(Int)] /\ inbox \in Seq(Entries)
  BY DEF CrcInit, Results
<1>4. hpd \in [Slots -> BOOLEAN]
  BY Zenon DEF CrcInit
<1>5. counter \in [Slots -> 0..Limit + 1] /\ random \in [Slots -> Nat] /\ moves \in 0..MaxMoves[halving] /\ crossed = FALSE
      /\ \A s \in Slots : counter[s] <= Limit
  BY DEF CrcInit
<1>6. last \in [Slots -> Packets \cup {None}] /\ slot \in Slots
  BY DEF CrcInit, Slots
<1> QED
  BY <1>1, <1>2, <1>3, <1>4, <1>5, <1>6 DEF CrcInit, CrcType, OpsCrcTypeOK, Results, Senders, SenderPc, Remains

(* The first entry, and what is behind it. *)
LEMMA Behind ==
    ASSUME OpsCrcTypeOK, inbox # << >>, inbox' = Tail(inbox)
    PROVE  /\ Head(inbox) = inbox[1] /\ 1 \in DOMAIN inbox
           /\ inbox[1] \in Entries
           /\ inbox' \in Seq(Entries)
           /\ \A i \in DOMAIN inbox' : i + 1 \in DOMAIN inbox /\ i \in Nat \ {0} /\ inbox'[i] = inbox[i + 1]
           /\ \A i \in DOMAIN inbox : i \in Nat \ {0} /\ (i # 1 => i - 1 \in DOMAIN inbox' /\ inbox'[i - 1] = inbox[i])
<1>1. inbox \in Seq(Entries)
  BY DEF OpsCrcTypeOK
<1>2. Len(inbox) \in Nat /\ Len(inbox) # 0 /\ DOMAIN inbox = 1..Len(inbox)
  BY <1>1, EmptySeq
<1>3. inbox' \in Seq(Entries) /\ Len(inbox') = Len(inbox) - 1
      /\ \A i \in 1..Len(inbox') : inbox'[i] = inbox[i + 1]
  BY <1>1, HeadTailProperties
<1>4. DOMAIN inbox' = 1..Len(inbox')
  BY <1>3
<1>5. Head(inbox) = inbox[1] /\ inbox[1] \in Entries
  BY <1>1, <1>2, ElementOfSeq
<1>6. \A i \in DOMAIN inbox : i # 1 => inbox'[i - 1] = inbox[i]
  <2> TAKE i \in DOMAIN inbox
  <2> HAVE i # 1
  <2>1. i - 1 \in 1..Len(inbox') /\ (i - 1) + 1 = i
    BY <1>2, <1>3
  <2> QED
    BY <2>1, <1>3
<1> QED
  BY <1>2, <1>3, <1>4, <1>5, <1>6

(* What is served counts down. *)
LEMMA CountDown ==
    ASSUME NEW q \in Seq(Int), NEW n
    PROVE  LET r == [q EXCEPT ![n] = @ - 1] IN
           /\ r \in Seq(Int) /\ Len(r) = Len(q) /\ DOMAIN r = DOMAIN q
           /\ \A m \in DOMAIN q : r[m] = IF m = n THEN q[m] - 1 ELSE q[m]
<1> DEFINE r == [q EXCEPT ![n] = @ - 1]
<1>1. CASE n \in 1..Len(q)
  BY <1>1, ElementOfSeq, ExceptSeq
<1>2. CASE n \notin 1..Len(q)
  BY <1>2, r = q
<1> QED
  BY <1>1, <1>2

(* A packet served, or passed over as a repetition. *)
Served(s, n, packet) ==
    /\ ~Repeated(s, packet)
    /\ last' = IF s \in halving THEN [last EXCEPT ![s] = packet] ELSE last
    /\ hasLast' = (hasLast \/ s \in halving)
    /\ \A t \in Slots : /\ DOMAIN due'[t] = DOMAIN due[t] /\ Len(due'[t]) = Len(due[t])
                        /\ \A m \in DOMAIN due[t] :
                              due'[t][m] = IF t = s /\ m = n THEN due[t][m] - 1 ELSE due[t][m]

Passed(s, packet) ==
    /\ Repeated(s, packet)
    /\ hasLast' = FALSE
    /\ UNCHANGED <<last, due>>

(* The senders as the board's thread leaves them: one may have heard. *)
Unmoved ==
    /\ sender' \in [Slots -> Senders]
    /\ \A t \in Slots : /\ sender'[t].pc = sender[t].pc /\ sender'[t].copies = sender[t].copies
                        /\ sender[t].heard # 0 => sender'[t].heard = sender[t].heard

LEMMA TakeFacts ==
    ASSUME OpsCrcTypeOK, Take
    PROVE  /\ \/ Served(inbox[1].slot, inbox[1].nth, inbox[1].packet)
              \/ Passed(inbox[1].slot, inbox[1].packet)
           /\ due' \in [Slots -> Seq(Int)]
           /\ Unmoved
           /\ hasLast' \in BOOLEAN /\ last' \in [Slots -> Packets \cup {None}]
           /\ crossed' \in BOOLEAN /\ Cross(inbox[1].slot)
           /\ random' \in [Slots -> Nat] /\ slot' \in Slots /\ verdict' \in Results
           /\ stage' \in {"check", "grant", "record"}
           /\ stage' = "record" => verdict' # "SUCCESS"
           /\ UNCHANGED <<result, hpd, counter>>
<1> DEFINE e == inbox[1]
           s == e.slot
           packet == e.packet
<1>1. Head(inbox) = e /\ e \in Entries
  BY Behind DEF Take
<1>2. s \in Slots /\ packet \in Packets /\ e.nth \in Nat /\ sender \in [Slots -> Senders]
  BY <1>1 DEF Entries, OpsCrcTypeOK, Senders, SenderPc
<1>5. Cross(s)
  BY <1>1 DEF Take
<1>6. crossed' \in BOOLEAN
  BY <1>5, Zenon DEF Cross, OpsCrcTypeOK
<1> HIDE DEF e
<1>3. CASE Repeated(s, packet)
  <2>1. hasLast' = FALSE /\ stage' = "check" /\ UNCHANGED <<slot, last, random, sender, due, verdict>>
        /\ UNCHANGED <<result, hpd, counter>>
    BY <1>1, <1>3 DEF Take
  <2> QED
    BY <1>2, <1>3, <1>5, <1>6, <2>1 DEF Passed, Unmoved, OpsCrcTypeOK, e
<1>4. CASE ~Repeated(s, packet)
  <2>1. /\ last' = IF s \in halving THEN [last EXCEPT ![s] = packet] ELSE last
        /\ hasLast' = (hasLast \/ s \in halving)
        /\ due' = [due EXCEPT ![s][e.nth] = @ - 1]
        /\ UNCHANGED <<result, hpd, counter>>
    BY <1>1, <1>4 DEF Take
  <2>2. due' \in [Slots -> Seq(Int)] /\ Served(s, e.nth, packet)
    <3>1. due' = [due EXCEPT ![s] = [due[s] EXCEPT ![e.nth] = @ - 1]] /\ due \in [Slots -> Seq(Int)]
      BY <2>1 DEF OpsCrcTypeOK
    <3>2. due[s] \in Seq(Int)
      BY <1>2, <3>1
    <3>3. [due[s] EXCEPT ![e.nth] = @ - 1] \in Seq(Int)
          /\ Len([due[s] EXCEPT ![e.nth] = @ - 1]) = Len(due[s])
          /\ DOMAIN [due[s] EXCEPT ![e.nth] = @ - 1] = DOMAIN due[s]
          /\ \A m \in DOMAIN due[s] : [due[s] EXCEPT ![e.nth] = @ - 1][m]
                                        = IF m = e.nth THEN due[s][m] - 1 ELSE due[s][m]
      BY <3>2, CountDown
    <3>4. due'[s] = [due[s] EXCEPT ![e.nth] = @ - 1] /\ \A t \in Slots \ {s} : due'[t] = due[t]
      BY <1>2, <3>1
    <3> QED
      BY <1>4, <2>1, <3>1, <3>3, <3>4 DEF Served
  <2>3. hasLast' \in BOOLEAN
    BY <2>1, Zenon DEF OpsCrcTypeOK
  <2>4. last' \in [Slots -> Packets \cup {None}]
    BY <1>2, <2>1 DEF OpsCrcTypeOK
  <2>5. \/ packet.code = "AUTH" /\ Auth(s)
        \/ packet.code = "VERIFY" /\ Verify(s, packet.number)
        \/ packet.code = "QUERY" /\ stage' = "check" /\ UNCHANGED <<slot, verdict, random, sender>>
    BY <1>1, <1>2, <1>4 DEF Take, Packets
  <2>6. /\ Unmoved
        /\ random' \in [Slots -> Nat] /\ slot' \in Slots /\ verdict' \in Results
        /\ stage' \in {"check", "grant", "record"}
        /\ stage' = "record" => verdict' # "SUCCESS"
    <3>1. CASE Auth(s)
      <4>1. random' \in [Slots -> Nat] /\ random'[s] \in Nat
        BY <1>2, <3>1 DEF Auth, OpsCrcTypeOK
      <4>2. Unmoved
        BY <1>2, <3>1, <4>1 DEF Auth, Unmoved, Senders
      <4> QED
        BY <3>1, <4>1, <4>2 DEF Auth, OpsCrcTypeOK
    <3>2. CASE Verify(s, packet.number)
      BY <1>2, <3>2 DEF Verify, Unmoved, OpsCrcTypeOK, Results
    <3>3. CASE stage' = "check" /\ UNCHANGED <<slot, verdict, random, sender>>
      BY <1>2, <3>3 DEF Unmoved, OpsCrcTypeOK
    <3> QED
      BY <2>5, <3>1, <3>2, <3>3
  <2> QED
    BY <1>5, <1>6, <2>1, <2>2, <2>3, <2>4, <2>6 DEF e
<1> QED
  BY <1>3, <1>4

(* What the first entry does: it is passed over, or served by its code.    *)
LEMMA TakeServes ==
    ASSUME OpsCrcTypeOK, Take
    PROVE  LET e == inbox[1]
               s == e.slot
           IN  /\ stage' \in {"grant", "record"} => slot' = s
               /\ \A t \in Slots \ {s} : random'[t] = random[t] /\ sender'[t] = sender[t]
               /\ \/ Passed(s, e.packet) /\ stage' = "check" /\ UNCHANGED <<random, sender>>
                  \/ /\ Served(s, e.nth, e.packet)
                     /\ \/ /\ e.packet.code = "AUTH" /\ stage' = "check"
                           /\ random'[s] = random[s] + 1
                           /\ sender'[s].heard = IF sender[s].heard = 0 /\ sender[s].pc # "off"
                                                 THEN random'[s] ELSE sender[s].heard
                        \/ /\ e.packet.code = "VERIFY" /\ UNCHANGED <<random, sender>>
                           /\ verdict' = IF e.packet.number = random[s] THEN "SUCCESS" ELSE "FAILED"
                        \/ e.packet.code = "QUERY" /\ stage' = "check" /\ UNCHANGED <<random, sender>>
<1> DEFINE e == inbox[1]
           s == e.slot
           packet == e.packet
<1>1. Head(inbox) = e /\ e \in Entries
  BY Behind DEF Take
<1>2. s \in Slots /\ packet \in Packets /\ random \in [Slots -> Nat] /\ sender \in [Slots -> Senders]
  BY <1>1 DEF Entries, OpsCrcTypeOK, Senders, SenderPc
<1>3. Served(s, e.nth, packet) \/ Passed(s, packet)
  BY TakeFacts
<1> HIDE DEF e
<1>4. CASE Passed(s, packet)
  <2>1. stage' = "check" /\ UNCHANGED <<random, sender>>
    BY <1>1, <1>4 DEF Take, Passed
  <2> QED
    BY <1>4, <2>1 DEF e
<1>5. CASE Served(s, e.nth, packet)
  <2>1. \/ packet.code = "AUTH" /\ Auth(s)
        \/ packet.code = "VERIFY" /\ Verify(s, packet.number)
        \/ packet.code = "QUERY" /\ stage' = "check" /\ UNCHANGED <<slot, verdict, random, sender>>
    BY <1>1, <1>2, <1>5 DEF Take, Packets, Served
  <2>2. ASSUME packet.code = "AUTH", Auth(s)
        PROVE  /\ stage' = "check" /\ random'[s] = random[s] + 1
               /\ sender'[s].heard = (IF sender[s].heard = 0 /\ sender[s].pc # "off"
                                      THEN random'[s] ELSE sender[s].heard)
               /\ \A t \in Slots \ {s} : random'[t] = random[t] /\ sender'[t] = sender[t]
    BY <1>2, <2>2 DEF Auth, Senders
  <2>3. ASSUME packet.code = "VERIFY", Verify(s, packet.number)
        PROVE  /\ UNCHANGED <<random, sender>> /\ slot' = s
               /\ verdict' = IF packet.number = random[s] THEN "SUCCESS" ELSE "FAILED"
    BY <2>3 DEF Verify
  <2> QED
    BY <1>2, <1>5, <2>1, <2>2, <2>3 DEF e
<1> QED
  BY <1>3, <1>4, <1>5

(* A sender's next copy: the first of a new packet, or the second. *)
Sent(s, packet) ==
    LET e == inbox'[Len(inbox) + 1] IN
    /\ e \in Entries
    /\ e.slot = s /\ e.packet = packet /\ (e.again <=> sender[s].copies # 0) /\ e.nth = Len(due'[s])
    /\ inbox' \in Seq(Entries)
    /\ DOMAIN inbox' = DOMAIN inbox \cup {Len(inbox) + 1}
    /\ \A i \in DOMAIN inbox : inbox'[i] = inbox[i] /\ i \in Nat /\ i < Len(inbox) + 1

LEMMA SendFacts ==
    ASSUME OpsCrcTypeOK, NEW s \in Slots, NEW from \in SenderPc, NEW to \in SenderPc, NEW packet \in Packets,
           Send(s, from, to, packet)
    PROVE  /\ due' \in [Slots -> Seq(Int)]
           /\ \A t \in Slots \ {s} : due'[t] = due[t] /\ sender'[t] = sender[t]
           /\ sender' \in [Slots -> Senders]
           /\ sender[s].pc = from
           /\ Sent(s, packet)
           /\ \/ /\ sender[s].copies = 0
                 /\ due'[s] = Append(due[s], 1)
                 /\ s \in halving => sender'[s].copies = 1 /\ sender'[s].pc = from
                 /\ s \notin halving => sender'[s].copies = 0 /\ sender'[s].pc = to
              \/ /\ sender[s].copies = 1
                 /\ due'[s] = due[s]
                 /\ s \in halving => sender'[s].pc = to
                 /\ sender'[s].copies = 0
           /\ sender'[s].heard = sender[s].heard
<1>1. /\ sender \in [Slots -> Senders] /\ due \in [Slots -> Seq(Int)] /\ inbox \in Seq(Entries)
      /\ sender[s] \in Senders /\ sender[s].copies \in {0, 1}
  BY DEF OpsCrcTypeOK, Senders, SenderPc
<1>2. due' \in [Slots -> Seq(Int)] /\ Len(due'[s]) \in Nat
      /\ due'[s] = (IF sender[s].copies = 0 THEN Append(due[s], 1) ELSE due[s])
      /\ \A t \in Slots \ {s} : due'[t] = due[t]
  <2>1. due[s] \in Seq(Int) /\ Append(due[s], 1) \in Seq(Int)
    BY <1>1, AppendProperties
  <2>2. due' = [due EXCEPT ![s] = IF sender[s].copies = 0 THEN Append(due[s], 1) ELSE due[s]]
    BY DEF Send
  <2> QED
    BY <1>1, <2>1, <2>2, LenProperties
<1> DEFINE e == [slot |-> s, packet |-> packet, nth |-> Len(due'[s]), again |-> sender[s].copies # 0]
<1>3. e \in Entries
  <2>1. (sender[s].copies # 0) \in BOOLEAN
    OBVIOUS
  <2> QED
    BY <1>2, <2>1 DEF Entries
<1>4. inbox' = Append(inbox, e)
  BY DEF Send
<1>5. Sent(s, packet)
  <2>1. e.slot = s /\ e.packet = packet /\ e.nth = Len(due'[s])
    OBVIOUS
  <2>2. e.again <=> sender[s].copies # 0
    BY Zenon
  <2> HIDE DEF e
  <2>3. inbox' \in Seq(Entries) /\ Len(inbox') = Len(inbox) + 1 /\ Len(inbox) \in Nat
        /\ inbox'[Len(inbox) + 1] = e /\ \A i \in 1..Len(inbox) : inbox'[i] = inbox[i]
    BY <1>1, <1>3, <1>4, AppendProperties, LenProperties
  <2>4. DOMAIN inbox' = 1..Len(inbox') /\ DOMAIN inbox = 1..Len(inbox)
    BY <1>1, <2>3, LenProperties
  <2> QED
    BY <1>3, <2>1, <2>2, <2>3, <2>4 DEF Sent
<1>6. Copies(s) = IF s \in halving THEN 2 ELSE 1
  BY DEF Copies
<1>7. sender[s].pc = from
  BY DEF Send
<1>8. (sender[s].copies + 1) % Copies(s) = IF s \in halving /\ sender[s].copies = 0 THEN 1 ELSE 0
  BY <1>1, <1>6
<1> DEFINE c == (sender[s].copies + 1) % Copies(s)
           p == IF sender[s].copies + 1 = Copies(s) THEN to ELSE from
<1>9. /\ sender' \in [Slots -> Senders] /\ \A t \in Slots \ {s} : sender'[t] = sender[t]
      /\ sender'[s].copies = c /\ sender'[s].pc = p /\ sender'[s].heard = sender[s].heard
  <2>1. c \in 0..1 /\ p \in SenderPc
    BY <1>8
  <2>2. sender' = [sender EXCEPT ![s].copies = c, ![s].pc = p]
    BY <1>7 DEF Send
  <2> HIDE DEF c, p
  <2> QED
    BY <1>1, <2>1, <2>2 DEF Senders
<1>10. CASE sender[s].copies = 0
  BY <1>2, <1>5, <1>6, <1>7, <1>8, <1>9, <1>10
<1>11. CASE sender[s].copies = 1
  BY <1>2, <1>5, <1>6, <1>7, <1>8, <1>9, <1>11
<1> QED
  BY <1>1, <1>10, <1>11

(* What the sender at s is sending. *)
Sending(s) == CASE sender[s].pc = "auth" -> [code |-> "AUTH", number |-> 0]
                [] sender[s].pc = "verify" -> [code |-> "VERIFY", number |-> sender[s].heard]
                [] OTHER -> [code |-> "QUERY", number |-> 0]

Sends(s) == \E to \in {"wait", "query", "done"} : Send(s, sender[s].pc, to, Sending(s))

LEMMA ModuleFacts ==
    ASSUME OpsCrcTypeOK, NEW s \in Slots, Module(s)
    PROVE  /\ Sending(s) \in Packets
           /\ \/ Sends(s) /\ sender[s].pc \in {"auth", "verify", "query"}
              \/ Hear(s)
<1>1. sender[s].heard \in Nat
  BY DEF OpsCrcTypeOK
<1>2. Sending(s) \in Packets
  BY <1>1 DEF Sending, Packets
<1>3. CASE SendAuth(s)
  <2>1. sender[s].pc = "auth"
    BY <1>3 DEF SendAuth, Send
  <2>2. Sending(s) = [code |-> "AUTH", number |-> 0]
    BY <2>1 DEF Sending
  <2> QED
    BY <1>2, <1>3, <2>1, <2>2 DEF SendAuth, Sends
<1>4. CASE SendVerify(s)
  <2>1. sender[s].pc = "verify"
    BY <1>4 DEF SendVerify, Send
  <2>2. Sending(s) = [code |-> "VERIFY", number |-> sender[s].heard]
    BY <2>1 DEF Sending
  <2> QED
    BY <1>2, <1>4, <2>1, <2>2 DEF SendVerify, Sends
<1>5. CASE SendQuery(s)
  <2>1. sender[s].pc = "query"
    BY <1>5 DEF SendQuery, Send
  <2>2. Sending(s) = [code |-> "QUERY", number |-> 0]
    BY <2>1 DEF Sending
  <2> QED
    BY <1>2, <1>5, <2>1, <2>2 DEF SendQuery, Sends
<1> QED
  BY <1>2, <1>3, <1>4, <1>5 DEF Module

CrcStep == CrcNext \/ UNCHANGED crcVars

LEMMA CrcTypes ==
    ASSUME CrcType, CrcStep
    PROVE  CrcType'
<1> USE OpsCrcAssumption
<1>0. OpsCrcTypeOK
  BY DEF CrcType
<1>1. CASE UNCHANGED crcVars
  BY <1>1 DEF crcVars, chosen, moving, filter, thread, CrcType, OpsCrcTypeOK, Late
<1>2. CASE Pass
  <2>1. UNCHANGED <<chosen, moving, noted>>
    BY <1>2 DEF Pass
  <2>2. CASE Check
    <3>1. \A s \in Slots : Count(s) \in 0..Limit + 1
      <4> SUFFICES ASSUME NEW s \in Slots PROVE Count(s) \in 0..Limit + 1
        OBVIOUS
      <4>1. counter[s] \in 0..Limit + 1 /\ counter[s] <= Limit
        BY <2>2 DEF Check, CrcType, OpsCrcTypeOK
      <4> QED
        BY <4>1 DEF Count
    <3>2. counter' \in [Slots -> 0..Limit + 1]
      BY <2>2, <3>1 DEF Check
    <3>3. stage' # "expire" => \A s \in Slots : counter'[s] <= Limit
      <4> SUFFICES ASSUME stage' # "expire", NEW s \in Slots PROVE counter'[s] <= Limit
        OBVIOUS
      <4>1. ~(counter'[s] > Limit)
        BY <2>2 DEF Check, Late
      <4>2. counter'[s] \in 0..Limit + 1
        BY <3>2
      <4> QED
        BY <4>1, <4>2
    <3>4. stage' \in {"hpd", "expire"}
      BY <2>2 DEF Check
    <3> QED
      BY <1>0, <2>1, <2>2, <3>2, <3>3, <3>4 DEF Check, CrcType, OpsCrcTypeOK, chosen, moving, filter
  <2>3. CASE Expire
    <3>1. counter' \in [Slots -> 0..Limit + 1] /\ result' \in [Slots -> Results]
      BY <1>0, <2>3 DEF Expire, OpsCrcTypeOK, Results
    <3>2. \A s \in Slots : counter'[s] <= Limit
      <4> SUFFICES ASSUME NEW s \in Slots PROVE counter'[s] <= Limit
        OBVIOUS
      <4>1. counter[s] \in 0..Limit + 1
        BY <1>0 DEF OpsCrcTypeOK
      <4> QED
        BY <2>3, <4>1 DEF Expire, Late
    <3> QED
      BY <1>0, <2>1, <2>3, <3>1, <3>2 DEF Expire, CrcType, OpsCrcTypeOK, chosen, moving, filter
  <2>4. CASE HoldHpd
    <3>1. result' \in [Slots -> Results]
      BY <1>0, <2>4 DEF HoldHpd, OpsCrcTypeOK, Results
    <3>2. hpd' \in [Slots -> BOOLEAN]
      BY <2>4, Zenon DEF HoldHpd
    <3> QED
      BY <1>0, <2>1, <2>4, <3>1, <3>2 DEF HoldHpd, CrcType, OpsCrcTypeOK, chosen, moving, filter
  <2>5. CASE TakeNothing
    BY <1>0, <2>1, <2>5 DEF TakeNothing, CrcType, OpsCrcTypeOK, chosen, moving, filter
  <2>6. CASE Take
    <3>1. inbox' \in Seq(Entries) /\ stage # "expire"
      BY <1>0, <2>6, Behind DEF Take
    <3> QED
      BY <1>0, <2>1, <2>6, <3>1, TakeFacts DEF Unmoved, CrcType, OpsCrcTypeOK, chosen, moving, filter, Senders, SenderPc
  <2>7. CASE Grant
    BY <1>0, <2>1, <2>7 DEF Grant, CrcType, OpsCrcTypeOK, chosen, moving, filter
  <2>8. CASE Record
    BY <1>0, <2>1, <2>8 DEF Record, CrcType, OpsCrcTypeOK, chosen, moving, filter, Slots, Results
  <2> QED
    BY <1>2, <2>2, <2>3, <2>4, <2>5, <2>6, <2>7, <2>8 DEF Pass
<1>3. ASSUME NEW s \in Slots, Note(s) PROVE CrcType'
  <2>1. noted' \subseteq Slots /\ result' \in [Slots -> Results]
    BY <1>0, <1>3 DEF Note, OpsCrcTypeOK, Results
  <2> QED
    BY <1>0, <1>3, <2>1 DEF Note, CrcType, OpsCrcTypeOK, chosen, moving, filter, thread
<1>4. ASSUME NEW s \in Slots, Module(s) PROVE CrcType'
  <2>1. CASE Sends(s)
    <3>1. PICK to \in {"wait", "query", "done"} : Send(s, sender[s].pc, to, Sending(s))
      BY <2>1 DEF Sends
    <3>2. sender[s].pc \in SenderPc /\ to \in SenderPc /\ Sending(s) \in Packets
      BY <1>0, <1>4, ModuleFacts DEF SenderPc, OpsCrcTypeOK
    <3>3. due' \in [Slots -> Seq(Int)] /\ sender' \in [Slots -> Senders] /\ inbox' \in Seq(Entries)
      BY <1>0, <3>1, <3>2, SendFacts DEF Sent
    <3>4. UNCHANGED <<chosen, moving, noted, result, hpd, counter, random, filter, thread>>
      BY <3>1 DEF Send
    <3> QED
      BY <1>0, <3>3, <3>4 DEF CrcType, OpsCrcTypeOK, chosen, moving, filter, thread, Senders, SenderPc
  <2>2. CASE Hear(s)
    <3>0. sender \in [Slots -> Senders] /\ sender' = [sender EXCEPT ![s].pc = "verify"]
      BY <1>0, <2>2 DEF Hear, OpsCrcTypeOK, Senders, SenderPc
    <3>1. sender' \in [Slots -> Senders]
      BY <3>0 DEF Senders, SenderPc
    <3> QED
      BY <1>0, <2>2, <3>1 DEF Hear, CrcType, OpsCrcTypeOK, chosen, moving, filter, thread, Senders, SenderPc
  <2> QED
    BY <1>0, <1>4, <2>1, <2>2, ModuleFacts
<1>5. ASSUME NEW s \in Slots, Switch(s) PROVE CrcType'
  <2>1. sender' \in [Slots -> Senders]
    BY <1>0, <1>5 DEF Switch, OpsCrcTypeOK, Senders, SenderPc, Off, Asking
  <2>2. on' \subseteq Slots /\ remains' \subseteq Remains
    BY <1>0, <1>5 DEF Switch, Leaves, OpsCrcTypeOK, Remains
  <2>3. moves' \in 0..MaxMoves[halving] /\ halving' = halving
    <3>1. MaxMoves[halving] \in Nat
      BY <1>0, OpsCrcAssumption DEF OpsCrcTypeOK
    <3>2. moves \in 0..MaxMoves[halving] /\ moves < MaxMoves[halving] /\ moves' = moves + 1 /\ halving' = halving
      BY <1>0, <1>5 DEF Switch, OpsCrcTypeOK, chosen
    <3> QED
      BY <3>1, <3>2
  <2> QED
    BY <1>0, <1>5, <2>1, <2>2, <2>3 DEF Switch, CrcType, OpsCrcTypeOK, chosen, filter, thread, Senders, SenderPc
<1> QED
  BY <1>1, <1>2, <1>3, <1>4, <1>5 DEF CrcStep, CrcNext

(* The types of OpsCrc. *)
THEOREM CrcTypeCorrect == CrcSpec => []CrcType
<1>1. CrcType /\ [CrcNext]_crcVars => CrcType'
  BY CrcTypes DEF CrcStep
<1> QED
  BY <1>1, CrcInitType, PTL DEF CrcSpec

-----------------------------------------------------------------------------
(* A right answer is recorded behind its picture: between Grant and Record *)
(* the thread does nothing that could take the picture away.               *)
ShownInv ==
    /\ SuccessIsShown
    /\ enable /\ stage = "record" /\ verdict = "SUCCESS" => hpd[slot]

LEMMA ShownKept ==
    ASSUME CrcType, ShownInv, CrcStep
    PROVE  ShownInv'
<1>0. OpsCrcTypeOK
  BY DEF CrcType
<1>1. CASE UNCHANGED crcVars
  BY <1>1 DEF crcVars, chosen, thread, ShownInv, SuccessIsShown
<1>2. CASE Pass
  <2>1. UNCHANGED chosen
    BY <1>2 DEF Pass
  <2>2. CASE Check \/ TakeNothing
    BY <2>1, <2>2 DEF Check, TakeNothing, chosen, ShownInv, SuccessIsShown
  <2>3. CASE Expire
    BY <1>0, <2>1, <2>3 DEF Expire, chosen, ShownInv, SuccessIsShown, OpsCrcTypeOK
  <2>4. CASE HoldHpd
    <3>1. \A s \in Slots : enable /\ result'[s] = "SUCCESS" /\ s # woken => hpd'[s]
      <4> SUFFICES ASSUME NEW s \in Slots, enable, result'[s] = "SUCCESS", s # woken PROVE hpd'[s]
        OBVIOUS
      <4>1. result[s] = "SUCCESS" /\ hpd[s]
        BY <2>4 DEF HoldHpd, ShownInv, SuccessIsShown
      <4> QED
        BY <2>4, <4>1, Zenon DEF HoldHpd
    <3> QED
      BY <2>1, <2>4, <3>1 DEF HoldHpd, chosen, ShownInv, SuccessIsShown
  <2>5. CASE Take
    <3>1. UNCHANGED <<result, hpd>> /\ (stage' = "record" => verdict' # "SUCCESS")
      BY <1>0, <2>5, TakeFacts
    <3> QED
      BY <2>1, <3>1 DEF chosen, ShownInv, SuccessIsShown
  <2>6. CASE Grant
    <3>1. slot \in Slots /\ hpd \in [Slots -> BOOLEAN]
      BY <1>0 DEF OpsCrcTypeOK
    <3>2. hpd'[slot] /\ \A s \in Slots : hpd[s] => hpd'[s]
      BY <2>6, <3>1 DEF Grant
    <3> QED
      BY <2>1, <2>6, <3>2 DEF Grant, chosen, ShownInv, SuccessIsShown
  <2>7. CASE Record
    BY <1>0, <2>1, <2>7 DEF Record, chosen, ShownInv, SuccessIsShown, OpsCrcTypeOK
  <2> QED
    BY <1>2, <2>2, <2>3, <2>4, <2>5, <2>6, <2>7 DEF Pass
<1>3. ASSUME NEW s \in Slots, Note(s) PROVE ShownInv'
  BY <1>0, <1>3 DEF Note, chosen, thread, ShownInv, SuccessIsShown, OpsCrcTypeOK
<1>4. ASSUME NEW s \in Slots, Module(s) \/ Switch(s) PROVE ShownInv'
  <2>1. UNCHANGED <<chosen, result, hpd, thread>>
    BY <1>4 DEF Module, SendAuth, SendVerify, SendQuery, Send, Hear, Switch
  <2> QED
    BY <2>1 DEF chosen, thread, ShownInv, SuccessIsShown
<1> QED
  BY <1>1, <1>2, <1>3, <1>4 DEF CrcStep, CrcNext

(* Whoever reads SUCCESS finds the picture given, for any number of moves, *)
(* any limit, any modules and any interleaving of the three threads.       *)
THEOREM SuccessIsShownTheorem == CrcSpec => []SuccessIsShown
<1>1. CrcInit => ShownInv
  BY DEF CrcInit, ShownInv, SuccessIsShown
<1>2. CrcType /\ ShownInv /\ [CrcNext]_crcVars => ShownInv'
  BY ShownKept DEF CrcStep
<1>3. ShownInv => SuccessIsShown
  BY DEF ShownInv
<1> QED
  BY <1>1, <1>2, <1>3, CrcTypeCorrect, PTL DEF CrcSpec

-----------------------------------------------------------------------------
(* Each packet is served once.  The board has one flag, has_last_packet,   *)
(* for both slots (XbhXMH610_A.cpp:1388-1390): this holds until a packet   *)
(* of the one slot changes it between the two copies of the other's.       *)

(* Between the two copies of a packet. *)
Half(s) == sender[s].copies # 0

(* How often a packet is to be served whose first copy was taken last: not *)
(* again, unless that copy was passed over.                                *)
Missing(s, packet) == IF hasLast /\ packet = last[s] THEN 0 ELSE 1

SenderInv ==
    \A s \in Slots :
        /\ sender[s].pc = "verify" => sender[s].heard # 0
        /\ s \notin on => ~Half(s) /\ sender[s].pc = "off"
        /\ Half(s) => s \in halving /\ due[s] # << >> /\ sender[s].pc \in {"auth", "verify", "query"}

EntryInv ==
    \A i \in DOMAIN inbox :
        /\ inbox[i].nth \in DOMAIN due[inbox[i].slot]
        /\ inbox[i].again => inbox[i].slot \in halving
        /\ ~inbox[i].again => due[inbox[i].slot][inbox[i].nth] = 1

(* The packets of a slot queue in their order, second copies behind first. *)
OrderInv ==
    \A i, j \in DOMAIN inbox :
        i < j /\ inbox[i].slot = inbox[j].slot =>
            \/ inbox[i].nth < inbox[j].nth
            \/ /\ inbox[i].nth = inbox[j].nth /\ inbox[i].packet = inbox[j].packet
               /\ ~inbox[i].again /\ inbox[j].again

(* A second copy is behind its first, or the next of its slot. *)
SecondInv ==
    \A j \in DOMAIN inbox :
        \/ ~inbox[j].again
        \/ \E i \in 1..j - 1 : inbox[i].slot = inbox[j].slot /\ inbox[i].nth = inbox[j].nth
        \/ /\ \A i \in 1..j - 1 : inbox[i].slot # inbox[j].slot
           /\ due[inbox[j].slot][inbox[j].nth] = Missing(inbox[j].slot, inbox[j].packet)

(* Likewise one that is not sent yet. *)
HalfInv ==
    \A s \in Slots : Half(s) =>
        /\ \A i \in DOMAIN inbox : inbox[i].slot = s /\ inbox[i].nth = Len(due[s]) =>
              ~inbox[i].again /\ inbox[i].packet = Sending(s)
        /\ \/ \E i \in DOMAIN inbox : inbox[i].slot = s /\ inbox[i].nth = Len(due[s])
           \/ /\ \A i \in DOMAIN inbox : inbox[i].slot # s
              /\ due[s][Len(due[s])] = Missing(s, Sending(s))

DueInv == \A s \in Slots : \A n \in DOMAIN due[s] : due[s][n] \in {0, 1}

(* What has been taken has been served, and what is half sent or half      *)
(* taken has its other half - until a module goes in the middle of that.   *)
DoneInv ==
    remains = {} =>
        \A s \in Slots : \A n \in DOMAIN due[s] :
            \/ \E i \in DOMAIN inbox : inbox[i].slot = s /\ inbox[i].nth = n
            \/ Half(s) /\ n = Len(due[s])
            \/ due[s][n] = 0

CompleteInv ==
    remains = {} =>
        \A i \in DOMAIN inbox :
            \/ inbox[i].slot \notin halving \/ inbox[i].again
            \/ \E j \in DOMAIN inbox :
                  inbox[j].slot = inbox[i].slot /\ inbox[j].nth = inbox[i].nth /\ inbox[j].again
            \/ Half(inbox[i].slot) /\ inbox[i].nth = Len(due[inbox[i].slot])

PacketInv ==
    /\ SenderInv /\ EntryInv /\ OrderInv /\ SecondInv /\ HalfInv /\ DueInv /\ DoneInv /\ CompleteInv

(* A second copy that is the next of its slot is awaited, in the queue or *)
(* not sent yet: the flag stays as it is.                                 *)
LEMMA FlagKept ==
    ASSUME OpsCrcTypeOK, NEW s \in Slots, NEW t \in Slots \ {s}, t \in halving, Cross(s), ~crossed',
           \/ \E j \in DOMAIN inbox : inbox[j].slot = t /\ inbox[j].again /\ \A i \in 1..j - 1 : inbox[i].slot # t
           \/ Half(t) /\ \A i \in DOMAIN inbox : inbox[i].slot # t
    PROVE  hasLast' = hasLast
<1>1. sender[t].copies \in 0..1
  BY DEF OpsCrcTypeOK
<1>2. Awaits(t)
  BY <1>1 DEF Awaits, Half
<1> QED
  BY <1>2 DEF Cross

LEMMA EntryTypes ==
    ASSUME OpsCrcTypeOK, NEW i \in DOMAIN inbox
    PROVE  /\ inbox[i].slot \in Slots /\ inbox[i].packet \in Packets
           /\ inbox[i].nth \in Nat /\ inbox[i].again \in BOOLEAN
           /\ i \in Nat \ {0} /\ 1..i - 1 \subseteq DOMAIN inbox
<1>1. inbox \in Seq(Entries)
  BY DEF OpsCrcTypeOK
<1>2. DOMAIN inbox = 1..Len(inbox) /\ Len(inbox) \in Nat
  BY <1>1, LenProperties
<1>3. inbox[i] \in Entries
  BY <1>1, <1>2, ElementOfSeq
<1> QED
  BY <1>2, <1>3 DEF Entries

(* What taking the first entry does to its packet and leaves of the others.*)
LEMMA TakeKey ==
    ASSUME OpsCrcTypeOK, PacketInv, Take, UNCHANGED <<chosen, moving>>
    PROVE  LET s == inbox[1].slot
               n == inbox[1].nth
               packet == inbox[1].packet
           IN
           /\ inbox[1].again \/ s \notin halving => due'[s][n] = 0
           /\ ~inbox[1].again /\ s \in halving => due'[s][n] = (IF hasLast' /\ packet = last'[s] THEN 0 ELSE 1)
           /\ due'[s][n] \in {0, 1}
           /\ \A t \in Slots \ {s} : last'[t] = last[t]
           /\ \A t \in Slots : /\ DOMAIN due'[t] = DOMAIN due[t] /\ Len(due'[t]) = Len(due[t])
                               /\ \A m \in DOMAIN due[t] : t # s \/ m # n => due'[t][m] = due[t][m]
<1> DEFINE e == inbox[1]
           s == e.slot
           n == e.nth
           packet == e.packet
<1>1. 1 \in DOMAIN inbox
  BY Behind DEF Take
<1>2. s \in Slots /\ packet \in Packets /\ n \in Nat /\ e.again \in BOOLEAN /\ n \in DOMAIN due[s]
  BY <1>1, EntryTypes DEF PacketInv, EntryInv
<1>3. Served(s, n, packet) \/ Passed(s, packet)
  BY TakeFacts
<1>4. ~e.again => due[s][n] = 1
  BY <1>1 DEF PacketInv, EntryInv
<1>5. e.again => s \in halving /\ due[s][n] = Missing(s, packet)
  <2>1. 1..1 - 1 = {}
    OBVIOUS
  <2> QED
    BY <1>1, <2>1 DEF PacketInv, EntryInv, SecondInv
<1>6. last \in [Slots -> Packets \cup {None}]
  BY DEF OpsCrcTypeOK
<1> HIDE DEF e
<1>7. CASE Served(s, n, packet)
  <2>1. due[s][n] = 1
    BY <1>4, <1>5, <1>7 DEF Served, Repeated, Missing
  <2>2. due'[s][n] = 0
    BY <1>2, <1>7, <2>1 DEF Served
  <2>3. s \in halving => hasLast' /\ last'[s] = packet
    BY <1>2, <1>6, <1>7 DEF Served
  <2>4. \A t \in Slots \ {s} : last'[t] = last[t]
    BY <1>6, <1>7 DEF Served
  <2> QED
    BY <1>2, <1>7, <2>2, <2>3, <2>4 DEF Served, e
<1>8. CASE Passed(s, packet)
  <2>1. s \in halving /\ due' = due /\ ~hasLast' /\ (e.again => due[s][n] = 0)
    BY <1>5, <1>8 DEF Passed, Repeated, Missing
  <2>2. last' = last
    BY <1>8 DEF Passed
  <2> QED
    BY <1>2, <1>4, <2>1, <2>2 DEF e
<1> QED
  BY <1>3, <1>7, <1>8

LEMMA SendingKept ==
    ASSUME OpsCrcTypeOK, SenderInv, Unmoved, NEW s \in Slots
    PROVE  /\ Half(s)' <=> Half(s)
           /\ Half(s) => Sending(s)' = Sending(s)
BY DEF Half, Sending, Unmoved, SenderInv

LEMMA PacketTake ==
    ASSUME OpsCrcTypeOK, PacketInv, ~crossed', Take, UNCHANGED <<chosen, moving>>
    PROVE  PacketInv'
<1> DEFINE s == inbox[1].slot
           n == inbox[1].nth
           packet == inbox[1].packet
<1>1. /\ 1 \in DOMAIN inbox
      /\ \A i \in DOMAIN inbox' : i + 1 \in DOMAIN inbox /\ i \in Nat \ {0} /\ inbox'[i] = inbox[i + 1]
      /\ \A i \in DOMAIN inbox : i \in Nat \ {0} /\ (i # 1 => i - 1 \in DOMAIN inbox' /\ inbox'[i - 1] = inbox[i])
  BY Behind DEF Take
<1>2. \A i \in DOMAIN inbox :
          /\ inbox[i].slot \in Slots /\ inbox[i].packet \in Packets
          /\ inbox[i].nth \in Nat /\ inbox[i].again \in BOOLEAN
  BY EntryTypes
<1>3. /\ inbox[1].again \/ s \notin halving => due'[s][n] = 0
      /\ ~inbox[1].again /\ s \in halving => due'[s][n] = (IF hasLast' /\ packet = last'[s] THEN 0 ELSE 1)
      /\ due'[s][n] \in {0, 1}
      /\ \A t \in Slots \ {s} : last'[t] = last[t]
      /\ \A t \in Slots : /\ DOMAIN due'[t] = DOMAIN due[t] /\ Len(due'[t]) = Len(due[t])
                          /\ \A m \in DOMAIN due[t] : t # s \/ m # n => due'[t][m] = due[t][m]
  BY TakeKey
<1>4. Unmoved /\ halving' = halving /\ on' = on /\ remains' = remains
  BY TakeFacts DEF chosen, moving
<1>5. \A t \in Slots : /\ Half(t)' <=> Half(t)
                       /\ Half(t) => Sending(t)' = Sending(t)
  BY <1>4, SendingKept DEF PacketInv
(* The others of the slot are behind, and the same packet only as its second copy. *)
<1>6. \A i \in DOMAIN inbox : i # 1 /\ inbox[i].slot = s =>
          \/ n < inbox[i].nth
          \/ n = inbox[i].nth /\ packet = inbox[i].packet /\ ~inbox[1].again /\ inbox[i].again
  <2> SUFFICES ASSUME NEW i \in DOMAIN inbox, i # 1, inbox[i].slot = s
               PROVE  \/ n < inbox[i].nth
                      \/ n = inbox[i].nth /\ packet = inbox[i].packet /\ ~inbox[1].again /\ inbox[i].again
    OBVIOUS
  <2>1. 1 < i
    BY <1>1
  <2> QED
    BY <1>1, <2>1 DEF PacketInv, OrderInv
<1>7. s \in Slots /\ n \in Nat /\ n \in DOMAIN due[s] /\ inbox[1].again \in BOOLEAN
  BY <1>1, <1>2 DEF PacketInv, EntryInv
<1>16. Cross(s)
  BY TakeFacts
<1> HIDE DEF s, n, packet
<1>8. SenderInv'
  <2> SUFFICES ASSUME NEW t \in Slots
               PROVE  /\ sender'[t].pc = "verify" => sender'[t].heard # 0
                      /\ t \notin on' => ~Half(t)' /\ sender'[t].pc = "off"
                      /\ Half(t)' => /\ t \in halving' /\ due'[t] # << >>
                                     /\ sender'[t].pc \in {"auth", "verify", "query"}
    BY DEF SenderInv
  <2>1. due[t] # << >> => due'[t] # << >>
    <3>1. due[t] \in Seq(Int) /\ due'[t] \in Seq(Int) /\ Len(due'[t]) = Len(due[t])
      BY <1>3, TakeFacts DEF OpsCrcTypeOK
    <3> QED
      BY <3>1, EmptySeq
  <2> QED
    BY <1>4, <1>5, <2>1 DEF PacketInv, SenderInv, Unmoved
<1>9. EntryInv'
  <2> SUFFICES ASSUME NEW i \in DOMAIN inbox'
               PROVE  /\ inbox'[i].nth \in DOMAIN due'[inbox'[i].slot]
                      /\ inbox'[i].again => inbox'[i].slot \in halving'
                      /\ ~inbox'[i].again => due'[inbox'[i].slot][inbox'[i].nth] = 1
    BY DEF EntryInv
  <2>1. i + 1 \in DOMAIN inbox /\ i + 1 # 1 /\ inbox'[i] = inbox[i + 1]
    BY <1>1
  <2>2. /\ inbox[i + 1].nth \in DOMAIN due[inbox[i + 1].slot]
        /\ inbox[i + 1].again => inbox[i + 1].slot \in halving
        /\ ~inbox[i + 1].again => due[inbox[i + 1].slot][inbox[i + 1].nth] = 1
    BY <2>1 DEF PacketInv, EntryInv
  <2>3. inbox[i + 1].slot # s \/ inbox[i + 1].nth # n \/ inbox[i + 1].again
    BY <1>6, <1>7, <2>1
  <2> QED
    BY <1>2, <1>3, <1>4, <2>1, <2>2, <2>3
<1>10. OrderInv'
  <2> SUFFICES ASSUME NEW i \in DOMAIN inbox', NEW j \in DOMAIN inbox', i < j, inbox'[i].slot = inbox'[j].slot
               PROVE  \/ inbox'[i].nth < inbox'[j].nth
                      \/ /\ inbox'[i].nth = inbox'[j].nth /\ inbox'[i].packet = inbox'[j].packet
                         /\ ~inbox'[i].again /\ inbox'[j].again
    BY DEF OrderInv
  <2>1. i + 1 \in DOMAIN inbox /\ j + 1 \in DOMAIN inbox /\ i + 1 < j + 1
        /\ inbox'[i] = inbox[i + 1] /\ inbox'[j] = inbox[j + 1]
    BY <1>1
  <2> QED
    BY <2>1 DEF PacketInv, OrderInv
(* The second copy of the packet taken becomes the next of its slot. *)
<1>11. SecondInv'
  <2> SUFFICES ASSUME NEW j \in DOMAIN inbox', inbox'[j].again
               PROVE  \/ \E i \in 1..j - 1 : inbox'[i].slot = inbox'[j].slot /\ inbox'[i].nth = inbox'[j].nth
                      \/ /\ \A i \in 1..j - 1 : inbox'[i].slot # inbox'[j].slot
                         /\ due'[inbox'[j].slot][inbox'[j].nth] =
                               (IF hasLast' /\ inbox'[j].packet = last'[inbox'[j].slot] THEN 0 ELSE 1)
    BY DEF SecondInv, Missing
  <2> DEFINE f == inbox[j + 1]
  <2>1. j + 1 \in DOMAIN inbox /\ j \in Nat \ {0} /\ inbox'[j] = f /\ j + 1 # 1
    BY <1>1
  <2>2. f.slot \in halving /\ f.slot \in Slots /\ f.nth \in DOMAIN due[f.slot]
    BY <1>2, <2>1 DEF PacketInv, EntryInv
  <2>3. \A i \in 1..j - 1 : i \in DOMAIN inbox' /\ inbox'[i] = inbox[i + 1] /\ i + 1 \in DOMAIN inbox /\ i + 1 # 1 /\ i + 1 < j + 1
    <3>1. 1..(j + 1) - 1 \subseteq DOMAIN inbox
      BY <2>1, EntryTypes
    <3> TAKE i \in 1..j - 1
    <3>2. i + 1 \in DOMAIN inbox /\ i + 1 # 1 /\ (i + 1) - 1 = i /\ i + 1 < j + 1
      BY <2>1, <3>1
    <3>3. i \in DOMAIN inbox' /\ inbox'[i] = inbox[i + 1]
      BY <1>1, <3>2
    <3> QED
      BY <3>2, <3>3
  <2>4. CASE f.slot = s /\ f.nth = n
    <3>1. packet = f.packet /\ ~inbox[1].again
      BY <1>6, <1>7, <2>1, <2>4
    <3>2. ASSUME NEW i \in 1..j - 1, inbox'[i].slot = s PROVE FALSE
      <4>1. i + 1 \in DOMAIN inbox /\ i + 1 # 1 /\ i + 1 < j + 1 /\ inbox[i + 1].slot = s
        BY <2>3, <3>2
      <4>2. n < inbox[i + 1].nth \/ inbox[i + 1].again
        BY <1>6, <4>1
      <4>3. inbox[i + 1].nth < f.nth \/ (inbox[i + 1].nth = f.nth /\ ~inbox[i + 1].again)
        BY <2>1, <2>4, <4>1 DEF PacketInv, OrderInv
      <4>4. n < inbox[i + 1].nth \/ n = inbox[i + 1].nth
        BY <1>6, <4>1
      <4>5. inbox[i + 1].nth \in Nat
        BY <1>2, <4>1
      <4> QED
        BY <1>7, <2>4, <4>2, <4>3, <4>4, <4>5
    <3> QED
      BY <1>3, <2>1, <2>2, <2>4, <3>1, <3>2
  <2>5. CASE ~(f.slot = s /\ f.nth = n)
    <3>1. due'[f.slot][f.nth] = due[f.slot][f.nth]
      BY <1>3, <2>2, <2>5
    <3>2. \/ \E i \in 1..(j + 1) - 1 : inbox[i].slot = f.slot /\ inbox[i].nth = f.nth
          \/ /\ \A i \in 1..(j + 1) - 1 : inbox[i].slot # f.slot
             /\ due[f.slot][f.nth] = Missing(f.slot, f.packet)
      BY <2>1 DEF PacketInv, SecondInv
    <3>3. CASE \E i \in 1..(j + 1) - 1 : inbox[i].slot = f.slot /\ inbox[i].nth = f.nth
      <4>1. PICK i \in 1..(j + 1) - 1 : inbox[i].slot = f.slot /\ inbox[i].nth = f.nth
        BY <3>3
      <4>2. i # 1
        BY <2>5, <4>1 DEF s, n
      <4>3. i - 1 \in 1..j - 1 /\ (i - 1) + 1 = i
        BY <2>1, <4>2
      <4>4. inbox'[i - 1] = inbox[i]
        BY <2>3, <4>3
      <4> QED
        BY <2>1, <4>1, <4>3, <4>4
    <3>4. CASE (\A i \in 1..(j + 1) - 1 : inbox[i].slot # f.slot)
               /\ due[f.slot][f.nth] = Missing(f.slot, f.packet)
      <4>1. 1 \in 1..(j + 1) - 1
        BY <2>1
      <4>2. f.slot # s
        BY <3>4, <4>1 DEF s
      <4>3. \A i \in 1..j - 1 : inbox'[i].slot # f.slot
        <5> TAKE i \in 1..j - 1
        <5>1. i + 1 \in 1..(j + 1) - 1
          BY <2>1
        <5> QED
          BY <2>3, <3>4, <5>1
      <4>4. last'[f.slot] = last[f.slot]
        BY <1>3, <2>2, <4>2
      <4>5. hasLast' = hasLast
        <5>1. inbox[j + 1].slot = f.slot /\ inbox[j + 1].again /\ \A i \in 1..(j + 1) - 1 : inbox[i].slot # f.slot
          BY <2>1, <3>4
        <5>2. f.slot \in Slots \ {s} /\ f.slot \in halving
          BY <2>2, <4>2
        <5> HIDE DEF f
        <5> QED
          BY <1>7, <1>16, <2>1, <5>1, <5>2, FlagKept
      <4> QED
        BY <2>1, <3>1, <3>4, <4>3, <4>4, <4>5 DEF Missing
    <3> QED
      BY <3>2, <3>3, <3>4
  <2> QED
    BY <2>4, <2>5
<1>12. HalfInv'
  <2> SUFFICES ASSUME NEW t \in Slots, Half(t)'
               PROVE  /\ \A i \in DOMAIN inbox' : inbox'[i].slot = t /\ inbox'[i].nth = Len(due'[t]) =>
                            ~inbox'[i].again /\ inbox'[i].packet = Sending(t)'
                      /\ \/ \E i \in DOMAIN inbox' : inbox'[i].slot = t /\ inbox'[i].nth = Len(due'[t])
                         \/ /\ \A i \in DOMAIN inbox' : inbox'[i].slot # t
                            /\ due'[t][Len(due'[t])] =
                                  (IF hasLast' /\ Sending(t)' = last'[t] THEN 0 ELSE 1)
    BY DEF HalfInv, Missing
  <2> DEFINE l == Len(due[t])
  <2>1. /\ Half(t) /\ Sending(t)' = Sending(t) /\ Len(due'[t]) = l /\ t \in halving
        /\ l \in DOMAIN due[t] /\ l \in Nat
    <3>1. Half(t) /\ t \in halving /\ due[t] # << >> /\ Sending(t)' = Sending(t)
      BY <1>5 DEF PacketInv, SenderInv
    <3>2. due[t] \in Seq(Int)
      BY DEF OpsCrcTypeOK
    <3>3. Len(due[t]) \in Nat \ {0} /\ DOMAIN due[t] = 1..Len(due[t])
      BY <3>1, <3>2, EmptySeq, LenProperties
    <3> QED
      BY <1>3, <3>1, <3>3
  <2>2. \A i \in DOMAIN inbox : inbox[i].slot = t /\ inbox[i].nth = l =>
            ~inbox[i].again /\ inbox[i].packet = Sending(t)
    BY <2>1 DEF PacketInv, HalfInv
  <2>3. \A i \in DOMAIN inbox' : inbox'[i].slot = t /\ inbox'[i].nth = l =>
            ~inbox'[i].again /\ inbox'[i].packet = Sending(t)
    BY <1>1, <2>2
  <2>4. CASE \E i \in DOMAIN inbox : i # 1 /\ inbox[i].slot = t /\ inbox[i].nth = l
    <3>1. PICK i \in DOMAIN inbox : i # 1 /\ inbox[i].slot = t /\ inbox[i].nth = l
      BY <2>4
    <3>2. i - 1 \in DOMAIN inbox' /\ inbox'[i - 1] = inbox[i]
      BY <1>1, <3>1
    <3> QED
      BY <2>1, <2>3, <3>1, <3>2
  <2>5. CASE s = t /\ n = l
    <3>1. ~inbox[1].again /\ packet = Sending(t)
      BY <1>1, <2>2, <2>5 DEF s, n, packet
    <3>2. ASSUME NEW i \in DOMAIN inbox', inbox'[i].slot = t, ~(inbox'[i].nth = l) PROVE FALSE
      <4>1. i + 1 \in DOMAIN inbox /\ i + 1 # 1 /\ inbox'[i] = inbox[i + 1]
        BY <1>1
      <4>2. inbox[i + 1].nth \in DOMAIN due[t] /\ n < inbox[i + 1].nth
        BY <1>6, <2>5, <3>2, <4>1 DEF PacketInv, EntryInv
      <4>3. DOMAIN due[t] = 1..l
        BY LenProperties DEF OpsCrcTypeOK
      <4> QED
        BY <2>1, <2>5, <4>2, <4>3
    <3>3. due'[t][l] = (IF hasLast' /\ Sending(t) = last'[t] THEN 0 ELSE 1)
      BY <1>3, <2>1, <2>5, <3>1
    <3> QED
      BY <2>1, <2>3, <3>2, <3>3
  <2>6. CASE (\A i \in DOMAIN inbox : inbox[i].slot # t)
              /\ due[t][l] = Missing(t, Sending(t))
    <3>1. \A i \in DOMAIN inbox' : inbox'[i].slot # t
      BY <1>1, <2>6
    <3>2. t # s
      BY <1>1, <2>6 DEF s
    <3>3. last'[t] = last[t] /\ due'[t][l] = due[t][l]
      BY <1>3, <2>1, <3>2
    <3>4. hasLast' = hasLast
      BY <1>7, <1>16, <2>1, <2>6, <3>2, FlagKept
    <3> QED
      BY <2>1, <2>6, <3>1, <3>3, <3>4 DEF Missing
  <2>7. \/ \E i \in DOMAIN inbox : inbox[i].slot = t /\ inbox[i].nth = l
        \/ (\A i \in DOMAIN inbox : inbox[i].slot # t) /\ due[t][l] = Missing(t, Sending(t))
    BY <2>1 DEF PacketInv, HalfInv
  <2> QED
    BY <2>4, <2>5, <2>6, <2>7 DEF s, n
<1>13. DueInv'
  <2> SUFFICES ASSUME NEW t \in Slots, NEW m \in DOMAIN due'[t] PROVE due'[t][m] \in {0, 1}
    BY DEF DueInv
  <2>1. m \in DOMAIN due[t] /\ due[t][m] \in {0, 1}
    BY <1>3 DEF PacketInv, DueInv
  <2> QED
    BY <1>3, <2>1
<1>14. DoneInv'
  <2> SUFFICES ASSUME remains = {}, NEW t \in Slots, NEW m \in DOMAIN due[t], ~(Half(t) /\ m = Len(due[t])),
                      \A i \in DOMAIN inbox' : ~(inbox'[i].slot = t /\ inbox'[i].nth = m)
               PROVE  due'[t][m] = 0
    BY <1>3, <1>4, <1>5 DEF DoneInv
  <2>1. \A i \in DOMAIN inbox : i # 1 => ~(inbox[i].slot = t /\ inbox[i].nth = m)
    BY <1>1
  <2>2. CASE t = s /\ m = n
    <3>1. \A j \in DOMAIN inbox : inbox[j].slot = s /\ inbox[j].nth = n => j = 1
      BY <2>1, <2>2
    <3>2. inbox[1].again \/ s \notin halving
      BY <1>1, <2>2, <3>1 DEF PacketInv, CompleteInv, s, n
    <3> QED
      BY <1>3, <2>2, <3>2
  <2>3. CASE ~(t = s /\ m = n)
    <3>1. due[t][m] = 0
      BY <2>1, <2>3 DEF PacketInv, DoneInv, s, n
    <3> QED
      BY <1>3, <2>3, <3>1
  <2> QED
    BY <2>2, <2>3
<1>15. CompleteInv'
  <2> SUFFICES ASSUME remains = {}, NEW i \in DOMAIN inbox', inbox'[i].slot \in halving, ~inbox'[i].again,
                      ~(Half(inbox'[i].slot) /\ inbox'[i].nth = Len(due[inbox'[i].slot]))
               PROVE  \E j \in DOMAIN inbox' :
                         inbox'[j].slot = inbox'[i].slot /\ inbox'[j].nth = inbox'[i].nth /\ inbox'[j].again
    <3>1. \A i \in DOMAIN inbox' : inbox'[i].slot \in Slots
      BY <1>1, <1>2
    <3> QED
      BY <1>3, <1>4, <1>5, <3>1 DEF CompleteInv
  <2>1. i + 1 \in DOMAIN inbox /\ i + 1 # 1 /\ inbox'[i] = inbox[i + 1]
    BY <1>1
  <2>2. PICK j \in DOMAIN inbox :
           inbox[j].slot = inbox[i + 1].slot /\ inbox[j].nth = inbox[i + 1].nth /\ inbox[j].again
    BY <2>1 DEF PacketInv, CompleteInv
  <2>3. j # 1
    <3> SUFFICES ASSUME j = 1 PROVE FALSE
      OBVIOUS
    <3>1. inbox[i + 1].slot = s /\ inbox[i + 1].nth = n /\ inbox[1].again
      BY <2>2 DEF s, n
    <3> QED
      BY <1>6, <1>7, <2>1, <3>1
  <2>4. j - 1 \in DOMAIN inbox' /\ inbox'[j - 1] = inbox[j]
    BY <1>1, <2>3
  <2> QED
    BY <2>1, <2>2, <2>4
<1> QED
  BY <1>8, <1>9, <1>10, <1>11, <1>12, <1>13, <1>14, <1>15 DEF PacketInv

LEMMA PacketSend ==
    ASSUME OpsCrcTypeOK, PacketInv, NEW s \in Slots, Sends(s),
           sender[s].pc \in {"auth", "verify", "query"}, Sending(s) \in Packets
    PROVE  PacketInv'
<1> DEFINE L == Len(inbox) + 1
           e == inbox'[L]
           K == Len(due[s])
<1>1. PICK to \in {"wait", "query", "done"} : Send(s, sender[s].pc, to, Sending(s))
  BY DEF Sends
<1>3. /\ UNCHANGED <<halving, hasLast, last, on, remains>>
      /\ s \in on
  BY <1>1 DEF Send, chosen, moving, filter, PacketInv, SenderInv
<1>4. /\ due' \in [Slots -> Seq(Int)]
      /\ \A t \in Slots \ {s} : due'[t] = due[t] /\ sender'[t] = sender[t]
      /\ Sent(s, Sending(s))
      /\ \/ /\ sender[s].copies = 0
            /\ due'[s] = Append(due[s], 1)
            /\ s \in halving => sender'[s].copies = 1 /\ sender'[s].pc = sender[s].pc
            /\ s \notin halving => sender'[s].copies = 0 /\ sender'[s].pc = to
         \/ /\ sender[s].copies = 1
            /\ due'[s] = due[s]
            /\ s \in halving => sender'[s].pc = to
            /\ sender'[s].copies = 0
      /\ sender'[s].heard = sender[s].heard
  <2>1. sender[s].pc \in SenderPc /\ to \in SenderPc
    BY DEF SenderPc
  <2> QED
    BY <1>1, <2>1, SendFacts
<1>5. /\ DOMAIN inbox' = DOMAIN inbox \cup {L} /\ L \in Nat \ {0}
      /\ \A i \in DOMAIN inbox : inbox'[i] = inbox[i] /\ i \in Nat \ {0} /\ i < L
      /\ e.slot = s /\ e.packet = Sending(s) /\ e.again \in BOOLEAN /\ (e.again <=> Half(s)) /\ e.nth = Len(due'[s])
      /\ \A i \in DOMAIN inbox : inbox[i].slot \in Slots /\ inbox[i].nth \in Nat /\ inbox[i].again \in BOOLEAN
  <2>1. Len(inbox) \in Nat
    BY LenProperties DEF OpsCrcTypeOK
  <2>2. e.again \in BOOLEAN
    BY <1>4 DEF Sent, Entries
  <2> QED
    BY <1>4, <2>1, <2>2, EntryTypes DEF Sent, Half
<1>6. due[s] \in Seq(Int) /\ K \in Nat /\ DOMAIN due[s] = 1..K
  BY LenProperties DEF OpsCrcTypeOK
<1>7. CASE ~Half(s)
  <2>1. /\ due'[s] = Append(due[s], 1) /\ ~e.again
        /\ s \in halving => sender'[s].copies = 1 /\ sender'[s].pc = sender[s].pc
        /\ s \notin halving => sender'[s].copies = 0 /\ sender'[s].pc = to
    BY <1>4, <1>5, <1>7 DEF Half
  <2>2. /\ Len(due'[s]) = K + 1 /\ DOMAIN due'[s] = 1..K + 1 /\ due'[s][K + 1] = 1
        /\ \A m \in 1..K : due'[s][m] = due[s][m]
    <3>1. due'[s] \in Seq(Int)
      BY <1>4
    <3> QED
      BY <1>6, <2>1, <3>1, AppendProperties, LenProperties
  <2>3. e.nth = K + 1
    BY <1>5, <2>2
  <2>4. \A i \in DOMAIN inbox : inbox[i].slot = s => inbox[i].nth \in 1..K
    BY <1>6 DEF PacketInv, EntryInv
  <2>5. \A t \in Slots : /\ DOMAIN due[t] \subseteq DOMAIN due'[t]
                         /\ \A m \in DOMAIN due[t] : due'[t][m] = due[t][m]
    <3>1. \A t \in Slots \ {s} : due'[t] = due[t]
      BY <1>4
    <3>2. DOMAIN due[s] \subseteq DOMAIN due'[s] /\ \A m \in DOMAIN due[s] : due'[s][m] = due[s][m]
      BY <1>6, <2>2
    <3> QED
      BY <3>1, <3>2
  <2>6. Half(s)' => s \in halving /\ Sending(s)' = Sending(s)
    BY <1>4, <2>1 DEF Half, Sending
  <2>7. \A t \in Slots \ {s} : (Half(t)' <=> Half(t)) /\ Sending(t)' = Sending(t)
    BY <1>4 DEF Half, Sending
  <2> HIDE DEF L, e, K
  <2>8. SenderInv'
    <3>1. due'[s] # << >>
      BY <1>6, <2>2, EmptySeq
    <3>2. sender'[s].pc = "verify" => sender'[s].heard # 0
      BY <1>4, <2>1 DEF PacketInv, SenderInv
    <3>3. Half(s)' => s \in halving /\ sender'[s].pc \in {"auth", "verify", "query"}
      BY <2>1 DEF Half
    <3> QED
      BY <1>3, <1>4, <2>7, <3>1, <3>2, <3>3 DEF PacketInv, SenderInv
  <2>9. EntryInv'
    BY <1>3, <1>5, <2>1, <2>2, <2>3, <2>5, <1>6 DEF PacketInv, EntryInv, L, e
  <2>10. OrderInv'
    <3> SUFFICES ASSUME NEW i \in DOMAIN inbox', NEW j \in DOMAIN inbox', i < j, inbox'[i].slot = inbox'[j].slot
                 PROVE  \/ inbox'[i].nth < inbox'[j].nth
                        \/ /\ inbox'[i].nth = inbox'[j].nth /\ inbox'[i].packet = inbox'[j].packet
                           /\ ~inbox'[i].again /\ inbox'[j].again
      BY DEF OrderInv
    <3>1. i \in DOMAIN inbox
      BY <1>5
    <3>2. CASE j \in DOMAIN inbox
      BY <1>5, <3>1, <3>2 DEF PacketInv, OrderInv
    <3>3. CASE j = L
      BY <1>5, <1>6, <2>3, <2>4, <3>1, <3>3 DEF e
    <3> QED
      BY <1>5, <3>2, <3>3
  <2>11. SecondInv'
    <3> SUFFICES ASSUME NEW j \in DOMAIN inbox', inbox'[j].again
                 PROVE  \/ \E i \in 1..j - 1 : inbox'[i].slot = inbox'[j].slot /\ inbox'[i].nth = inbox'[j].nth
                        \/ /\ \A i \in 1..j - 1 : inbox'[i].slot # inbox'[j].slot
                           /\ due'[inbox'[j].slot][inbox'[j].nth] =
                                 (IF hasLast' /\ inbox'[j].packet = last'[inbox'[j].slot] THEN 0 ELSE 1)
      BY DEF SecondInv, Missing
    <3>1. j \in DOMAIN inbox /\ inbox'[j] = inbox[j] /\ inbox[j].slot \in Slots
          /\ inbox[j].nth \in DOMAIN due[inbox[j].slot]
      BY <1>5, <2>1 DEF PacketInv, EntryInv, e
    <3>2. \A i \in 1..j - 1 : inbox'[i] = inbox[i]
      BY <1>5, <3>1, EntryTypes
    <3>3. due'[inbox[j].slot][inbox[j].nth] = due[inbox[j].slot][inbox[j].nth]
      BY <2>5, <3>1
    <3> QED
      BY <1>3, <3>1, <3>2, <3>3 DEF PacketInv, SecondInv, Missing
  <2>12. HalfInv'
    <3> SUFFICES ASSUME NEW t \in Slots, Half(t)'
                 PROVE  /\ \A i \in DOMAIN inbox' : inbox'[i].slot = t /\ inbox'[i].nth = Len(due'[t]) =>
                              ~inbox'[i].again /\ inbox'[i].packet = Sending(t)'
                        /\ \/ \E i \in DOMAIN inbox' : inbox'[i].slot = t /\ inbox'[i].nth = Len(due'[t])
                           \/ /\ \A i \in DOMAIN inbox' : inbox'[i].slot # t
                              /\ due'[t][Len(due'[t])] =
                                    (IF hasLast' /\ Sending(t)' = last'[t] THEN 0 ELSE 1)
      BY DEF HalfInv, Missing
    <3>1. CASE t = s
      <4>1. \A i \in DOMAIN inbox' : inbox'[i].slot = s /\ inbox'[i].nth = Len(due'[s]) => i = L
        BY <1>5, <1>6, <2>2, <2>4
      <4>2. L \in DOMAIN inbox'
        BY <1>5
      <4> QED
        BY <1>5, <2>1, <2>6, <3>1, <4>1, <4>2 DEF e
    <3>2. CASE t # s
      <4>1. Half(t) /\ Sending(t)' = Sending(t) /\ due'[t] = due[t]
        BY <1>4, <2>7, <3>2
      <4>2. \A i \in DOMAIN inbox' : inbox'[i].slot = t => i \in DOMAIN inbox
        BY <1>5, <3>2 DEF e
      <4> QED
        BY <1>3, <1>5, <4>1, <4>2 DEF PacketInv, HalfInv, Missing
    <3> QED
      BY <3>1, <3>2
  <2>13. DueInv'
    <3> SUFFICES ASSUME NEW t \in Slots, NEW m \in DOMAIN due'[t] PROVE due'[t][m] \in {0, 1}
      BY DEF DueInv
    <3>1. m \in DOMAIN due[t] \/ (t = s /\ m = K + 1)
      BY <1>4, <1>6, <2>2
    <3> QED
      BY <2>2, <2>5, <3>1 DEF PacketInv, DueInv
  <2>14. DoneInv'
    <3> SUFFICES ASSUME remains = {}, NEW t \in Slots, NEW m \in DOMAIN due'[t],
                        \A i \in DOMAIN inbox' : ~(inbox'[i].slot = t /\ inbox'[i].nth = m)
                 PROVE  (Half(t)' /\ m = Len(due'[t])) \/ due'[t][m] = 0
      BY <1>3 DEF DoneInv
    <3>1. ~(t = s /\ m = K + 1)
      BY <1>5, <2>3 DEF e
    <3>2. m \in DOMAIN due[t]
      BY <1>4, <1>6, <2>2, <3>1
    <3>3. \A i \in DOMAIN inbox : ~(inbox[i].slot = t /\ inbox[i].nth = m)
      BY <1>5
    <3>4. (Half(t) /\ m = Len(due[t])) \/ due[t][m] = 0
      BY <3>2, <3>3 DEF PacketInv, DoneInv
    <3> QED
      BY <1>4, <1>7, <2>5, <2>7, <3>2, <3>4
  <2>15. CompleteInv'
    <3> SUFFICES ASSUME remains = {}, NEW i \in DOMAIN inbox', inbox'[i].slot \in halving, ~inbox'[i].again
                 PROVE  \/ \E j \in DOMAIN inbox' :
                              inbox'[j].slot = inbox'[i].slot /\ inbox'[j].nth = inbox'[i].nth /\ inbox'[j].again
                        \/ sender'[inbox'[i].slot].copies # 0 /\ inbox'[i].nth = Len(due'[inbox'[i].slot])
      <4>1. \A i \in DOMAIN inbox' : inbox'[i].slot \in Slots
        BY <1>5 DEF e
      <4> QED
        BY <1>3, <4>1 DEF CompleteInv, Half
    <3>1. CASE i = L
      BY <1>5, <2>1, <3>1 DEF e, Half
    <3>2. CASE i \in DOMAIN inbox
      <4>1. \/ \E j \in DOMAIN inbox :
                  inbox[j].slot = inbox[i].slot /\ inbox[j].nth = inbox[i].nth /\ inbox[j].again
            \/ Half(inbox[i].slot) /\ inbox[i].nth = Len(due[inbox[i].slot])
        BY <1>5, <3>2 DEF PacketInv, CompleteInv
      <4>2. inbox[i].slot \in Slots
        BY <1>5, <3>2
      <4>3. inbox'[i] = inbox[i]
        BY <1>5, <3>2
      <4>4. CASE \E j \in DOMAIN inbox :
                    inbox[j].slot = inbox[i].slot /\ inbox[j].nth = inbox[i].nth /\ inbox[j].again
        BY <1>5, <4>3, <4>4
      <4>5. CASE Half(inbox[i].slot) /\ inbox[i].nth = Len(due[inbox[i].slot])
        BY <1>4, <1>7, <4>2, <4>3, <4>5 DEF Half
      <4> QED
        BY <4>1, <4>4, <4>5
    <3> QED
      BY <1>5, <3>1, <3>2
  <2> QED
    BY <2>8, <2>9, <2>10, <2>11, <2>12, <2>13, <2>14, <2>15 DEF PacketInv
<1>8. CASE Half(s)
  <2>1. due'[s] = due[s] /\ e.again /\ sender'[s].copies = 0 /\ s \in halving /\ sender'[s].pc = to
    BY <1>4, <1>5, <1>8 DEF Half, PacketInv, SenderInv
  <2>2. \A t \in Slots : due'[t] = due[t]
    BY <1>4, <2>1
  <2>3. e.nth = K /\ K \in DOMAIN due[s]
    <3>1. due[s] # << >>
      BY <1>8 DEF PacketInv, SenderInv
    <3> QED
      BY <1>5, <1>6, <2>1, <3>1, EmptySeq
  <2>4. \A i \in DOMAIN inbox : inbox[i].slot = s => inbox[i].nth \in 1..K
    BY <1>6 DEF PacketInv, EntryInv
  <2>5. ~Half(s)'
    BY <2>1 DEF Half
  <2>6. \A t \in Slots \ {s} : (Half(t)' <=> Half(t)) /\ Sending(t)' = Sending(t)
    BY <1>4 DEF Half, Sending
  <2>7. /\ \A i \in DOMAIN inbox : inbox[i].slot = s /\ inbox[i].nth = K =>
              ~inbox[i].again /\ inbox[i].packet = Sending(s)
        /\ \/ \E i \in DOMAIN inbox : inbox[i].slot = s /\ inbox[i].nth = K
           \/ /\ \A i \in DOMAIN inbox : inbox[i].slot # s
              /\ due[s][K] = Missing(s, Sending(s))
    BY <1>8 DEF PacketInv, HalfInv
  <2> HIDE DEF L, e, K
  <2>8. SenderInv'
    <3>1. sender'[s].pc # "verify"
      BY <2>1
    <3> QED
      BY <1>3, <1>4, <2>2, <2>5, <2>6, <3>1 DEF PacketInv, SenderInv
  <2>9. EntryInv'
    BY <1>3, <1>5, <2>1, <2>2, <2>3 DEF PacketInv, EntryInv, e
  <2>10. OrderInv'
    <3> SUFFICES ASSUME NEW i \in DOMAIN inbox', NEW j \in DOMAIN inbox', i < j, inbox'[i].slot = inbox'[j].slot
                 PROVE  \/ inbox'[i].nth < inbox'[j].nth
                        \/ /\ inbox'[i].nth = inbox'[j].nth /\ inbox'[i].packet = inbox'[j].packet
                           /\ ~inbox'[i].again /\ inbox'[j].again
      BY DEF OrderInv
    <3>1. i \in DOMAIN inbox
      BY <1>5
    <3>2. CASE j \in DOMAIN inbox
      BY <1>5, <3>1, <3>2 DEF PacketInv, OrderInv
    <3>3. CASE j = L
      BY <1>5, <1>6, <2>1, <2>3, <2>4, <2>7, <3>1, <3>3 DEF e
    <3> QED
      BY <1>5, <3>2, <3>3
  <2>11. SecondInv'
    <3> SUFFICES ASSUME NEW j \in DOMAIN inbox', inbox'[j].again
                 PROVE  \/ \E i \in 1..j - 1 : inbox'[i].slot = inbox'[j].slot /\ inbox'[i].nth = inbox'[j].nth
                        \/ /\ \A i \in 1..j - 1 : inbox'[i].slot # inbox'[j].slot
                           /\ due'[inbox'[j].slot][inbox'[j].nth] =
                                 (IF hasLast' /\ inbox'[j].packet = last'[inbox'[j].slot] THEN 0 ELSE 1)
      BY DEF SecondInv, Missing
    <3>1. CASE j \in DOMAIN inbox
      <4>1. \A i \in 1..j - 1 : inbox'[i] = inbox[i]
        BY <1>5, <3>1, EntryTypes
      <4>2. inbox'[j] = inbox[j] /\ inbox[j].slot \in Slots
        BY <1>5, <3>1
      <4> QED
        BY <1>3, <2>2, <3>1, <4>1, <4>2 DEF PacketInv, SecondInv, Missing
    <3>2. CASE j = L
      <4>1. DOMAIN inbox = 1..j - 1
        BY <3>2, LenProperties DEF L, OpsCrcTypeOK
      <4>2. \A i \in 1..j - 1 : inbox'[i] = inbox[i]
        BY <1>5, <4>1
      <4>3. inbox'[j].slot = s /\ inbox'[j].nth = K /\ inbox'[j].packet = Sending(s)
        BY <1>5, <2>3, <3>2 DEF e
      <4> QED
        BY <1>3, <2>1, <2>7, <4>1, <4>2, <4>3 DEF Missing
    <3> QED
      BY <1>5, <3>1, <3>2
  <2>12. HalfInv'
    <3> SUFFICES ASSUME NEW t \in Slots, Half(t)'
                 PROVE  /\ \A i \in DOMAIN inbox' : inbox'[i].slot = t /\ inbox'[i].nth = Len(due'[t]) =>
                              ~inbox'[i].again /\ inbox'[i].packet = Sending(t)'
                        /\ \/ \E i \in DOMAIN inbox' : inbox'[i].slot = t /\ inbox'[i].nth = Len(due'[t])
                           \/ /\ \A i \in DOMAIN inbox' : inbox'[i].slot # t
                              /\ due'[t][Len(due'[t])] =
                                    (IF hasLast' /\ Sending(t)' = last'[t] THEN 0 ELSE 1)
      BY DEF HalfInv, Missing
    <3>1. t # s
      BY <2>5
    <3>2. Half(t) /\ Sending(t)' = Sending(t) /\ due'[t] = due[t]
      BY <2>2, <2>6, <3>1
    <3>3. \A i \in DOMAIN inbox' : inbox'[i].slot = t => i \in DOMAIN inbox
      BY <1>5, <3>1 DEF e
    <3> QED
      BY <1>3, <1>5, <3>2, <3>3 DEF PacketInv, HalfInv, Missing
  <2>13. DueInv'
    BY <2>2 DEF PacketInv, DueInv
  <2>14. DoneInv'
    <3> SUFFICES ASSUME remains = {}, NEW t \in Slots, NEW m \in DOMAIN due[t],
                        \A i \in DOMAIN inbox' : ~(inbox'[i].slot = t /\ inbox'[i].nth = m)
                 PROVE  (Half(t)' /\ m = Len(due[t])) \/ due[t][m] = 0
      BY <1>3, <2>2 DEF DoneInv
    <3>1. ~(t = s /\ m = K)
      BY <1>5, <2>3 DEF e
    <3>2. \A i \in DOMAIN inbox : ~(inbox[i].slot = t /\ inbox[i].nth = m)
      BY <1>5
    <3> QED
      BY <2>6, <3>1, <3>2 DEF PacketInv, DoneInv, K
  <2>15. CompleteInv'
    <3> SUFFICES ASSUME remains = {}, NEW i \in DOMAIN inbox', inbox'[i].slot \in halving, ~inbox'[i].again
                 PROVE  \/ \E j \in DOMAIN inbox' :
                              inbox'[j].slot = inbox'[i].slot /\ inbox'[j].nth = inbox'[i].nth /\ inbox'[j].again
                        \/ sender'[inbox'[i].slot].copies # 0 /\ inbox'[i].nth = Len(due[inbox'[i].slot])
      <4>1. \A i \in DOMAIN inbox' : inbox'[i].slot \in Slots
        BY <1>5 DEF e
      <4> QED
        BY <1>3, <2>2, <4>1 DEF CompleteInv, Half
    <3>1. i \in DOMAIN inbox /\ inbox'[i] = inbox[i] /\ inbox[i].slot \in Slots
      BY <1>5, <2>1 DEF e
    <3>2. \/ \E j \in DOMAIN inbox :
                inbox[j].slot = inbox[i].slot /\ inbox[j].nth = inbox[i].nth /\ inbox[j].again
          \/ Half(inbox[i].slot) /\ inbox[i].nth = Len(due[inbox[i].slot])
      BY <3>1 DEF PacketInv, CompleteInv
    <3>3. CASE inbox[i].slot = s /\ inbox[i].nth = K
      <4>1. L \in DOMAIN inbox'
        BY <1>5
      <4> QED
        BY <1>5, <2>1, <2>3, <3>1, <3>3, <4>1 DEF e
    <3>4. CASE ~(inbox[i].slot = s /\ inbox[i].nth = K)
      <4>1. CASE \E j \in DOMAIN inbox :
                    inbox[j].slot = inbox[i].slot /\ inbox[j].nth = inbox[i].nth /\ inbox[j].again
        BY <1>5, <3>1, <4>1
      <4>2. CASE Half(inbox[i].slot) /\ inbox[i].nth = Len(due[inbox[i].slot])
        BY <1>4, <3>1, <3>4, <4>2 DEF Half, K
      <4> QED
        BY <3>2, <4>1, <4>2
    <3> QED
      BY <3>3, <3>4
  <2> QED
    BY <2>8, <2>9, <2>10, <2>11, <2>12, <2>13, <2>14, <2>15 DEF PacketInv
<1> QED
  BY <1>7, <1>8

(* A step that neither sends nor takes. *)
LEMMA PacketSame ==
    ASSUME OpsCrcTypeOK, PacketInv, SenderInv', UNCHANGED <<halving, hasLast, last, inbox, due>>,
           \A s \in Slots : Half(s)' => Half(s) /\ Sending(s)' = Sending(s),
           remains' = {} => remains = {} /\ \A s \in Slots : Half(s) => Half(s)'
    PROVE  PacketInv'
<1>1. EntryInv' /\ OrderInv' /\ DueInv'
  BY DEF PacketInv, EntryInv, OrderInv, DueInv
<1>2. SecondInv'
  BY DEF PacketInv, SecondInv, Missing
<1>3. HalfInv'
  <2> SUFFICES ASSUME NEW s \in Slots, Half(s)'
               PROVE  /\ \A i \in DOMAIN inbox : inbox[i].slot = s /\ inbox[i].nth = Len(due[s]) =>
                            ~inbox[i].again /\ inbox[i].packet = Sending(s)'
                      /\ \/ \E i \in DOMAIN inbox : inbox[i].slot = s /\ inbox[i].nth = Len(due[s])
                         \/ /\ \A i \in DOMAIN inbox : inbox[i].slot # s
                            /\ due[s][Len(due[s])] = (IF hasLast /\ Sending(s)' = last[s] THEN 0 ELSE 1)
    BY DEF HalfInv, Missing
  <2> QED
    BY DEF PacketInv, HalfInv, Missing
<1>4. DoneInv'
  BY DEF PacketInv, DoneInv
<1>5. CompleteInv'
  <2> SUFFICES ASSUME remains = {}, \A s \in Slots : Half(s) => sender'[s].copies # 0, NEW i \in DOMAIN inbox
               PROVE  \/ inbox[i].slot \notin halving \/ inbox[i].again
                      \/ \E j \in DOMAIN inbox :
                            inbox[j].slot = inbox[i].slot /\ inbox[j].nth = inbox[i].nth /\ inbox[j].again
                      \/ sender'[inbox[i].slot].copies # 0 /\ inbox[i].nth = Len(due[inbox[i].slot])
    BY DEF CompleteInv, Half
  <2> QED
    BY EntryTypes DEF PacketInv, CompleteInv
<1> QED
  BY <1>1, <1>2, <1>3, <1>4, <1>5 DEF PacketInv

LEMMA PacketKept ==
    ASSUME CrcType, PacketInv, ~crossed', CrcStep
    PROVE  PacketInv'
<1>0. OpsCrcTypeOK /\ SenderInv
  BY DEF CrcType, PacketInv
<1>1. ASSUME UNCHANGED <<halving, hasLast, last, inbox, due, on, remains, sender>> PROVE PacketInv'
  <2>1. SenderInv' /\ \A s \in Slots : (Half(s)' <=> Half(s)) /\ Sending(s)' = Sending(s)
    BY <1>0, <1>1 DEF SenderInv, Half, Sending
  <2> QED
    BY <1>0, <1>1, <2>1, PacketSame
<1>2. CASE Pass
  <2>1. UNCHANGED <<chosen, moving>>
    BY <1>2 DEF Pass
  <2>2. CASE Take
    BY <1>0, <2>1, <2>2, PacketTake
  <2>3. CASE Check \/ Expire \/ HoldHpd \/ TakeNothing \/ Grant \/ Record
    BY <1>1, <2>1, <2>3 DEF Check, Expire, HoldHpd, TakeNothing, Grant, Record, chosen, moving, filter
  <2> QED
    BY <1>2, <2>2, <2>3 DEF Pass
<1>3. ASSUME NEW s \in Slots, Note(s) PROVE PacketInv'
  BY <1>1, <1>3 DEF Note, chosen, moving, filter
<1>4. ASSUME NEW s \in Slots, Module(s) PROVE PacketInv'
  <2>1. CASE Sends(s) /\ sender[s].pc \in {"auth", "verify", "query"}
    BY <1>0, <1>4, <2>1, ModuleFacts, PacketSend
  <2>2. CASE Hear(s)
    <3>1. UNCHANGED <<halving, hasLast, last, inbox, due, on, remains>>
      BY <2>2 DEF Hear, chosen, moving, filter
    <3>2. /\ sender'[s].pc = "verify" /\ sender'[s].copies = sender[s].copies /\ sender'[s].heard # 0
          /\ sender[s].pc = "wait" /\ \A t \in Slots \ {s} : sender'[t] = sender[t]
      BY <1>0, <2>2 DEF Hear, OpsCrcTypeOK
    <3>3. ~Half(s) /\ ~Half(s)' /\ s \in on
      BY <1>0, <3>2 DEF SenderInv, Half
    <3>4. \A t \in Slots \ {s} : (Half(t)' <=> Half(t)) /\ Sending(t)' = Sending(t)
      BY <3>2 DEF Half, Sending
    <3>5. SenderInv'
      BY <1>0, <3>1, <3>2, <3>3, <3>4 DEF SenderInv
    <3> QED
      BY <1>0, <3>1, <3>3, <3>4, <3>5, PacketSame
  <2> QED
    BY <1>0, <1>4, <2>1, <2>2, ModuleFacts
<1>5. ASSUME NEW s \in Slots, Switch(s) PROVE PacketInv'
  <2>1. /\ UNCHANGED <<halving, hasLast, last, inbox, due>>
        /\ on' = IF s \in on THEN on \ {s} ELSE on \cup {s}
        /\ remains' = IF s \in on THEN remains \cup Leaves(s) ELSE remains
    BY <1>5 DEF Switch, chosen, filter
  <2>2. sender'[s] = (IF s \in on THEN Off ELSE Asking) /\ \A t \in Slots \ {s} : sender'[t] = sender[t]
    BY <1>0, <1>5 DEF Switch, OpsCrcTypeOK
  <2>3. ~Half(s)' /\ \A t \in Slots \ {s} : (Half(t)' <=> Half(t)) /\ Sending(t)' = Sending(t)
    BY <2>2 DEF Half, Sending, Off, Asking
  <2>4. SenderInv'
    BY <1>0, <2>1, <2>2, <2>3 DEF SenderInv, Off, Asking
  <2>5. remains' = {} => remains = {} /\ ~Half(s)
    BY <1>0, <2>1 DEF SenderInv, Leaves, Half
  <2> QED
    BY <1>0, <2>1, <2>3, <2>4, <2>5, PacketSame
<1>6. CASE UNCHANGED crcVars
  BY <1>1, <1>6 DEF crcVars, chosen, moving, filter
<1> QED
  BY <1>2, <1>3, <1>4, <1>5, <1>6 DEF CrcStep, CrcNext

(* What is done stays done. *)
LEMMA CrossedStays ==
    ASSUME OpsCrcTypeOK, CrcStep, ~crossed'
    PROVE  ~crossed
<1>1. CASE Pass
  <2>1. CASE Take
    BY <2>1, TakeFacts DEF Cross
  <2> QED
    BY <1>1, <2>1 DEF Pass, Check, Expire, HoldHpd, TakeNothing, Grant, Record, filter
<1> QED
  BY <1>1 DEF CrcStep, CrcNext, Note, Module, SendAuth, SendVerify, SendQuery, Send, Hear, Switch, filter, crcVars

(* What is in the queue and between the two copies of a packet, for any    *)
(* number of moves, any modules that send their copies apart and however   *)
(* the copies of both mix, until they cross.                               *)
THEOREM PacketInvariant == CrcSpec => [](~crossed => PacketInv)
<1>1. CrcInit => PacketInv
  <2> SUFFICES ASSUME CrcInit PROVE PacketInv
    OBVIOUS
  <2>1. /\ DOMAIN inbox = {} /\ \A s \in Slots : DOMAIN due[s] = {}
        /\ \A s \in Slots : sender[s].copies = 0 /\ sender[s].pc # "verify"
        /\ \A s \in Slots : s \notin on => sender[s].pc = "off"
    BY DEF CrcInit, Off, Asking
  <2>2. \A s \in Slots : ~Half(s)
    BY <2>1 DEF Half
  <2> QED
    BY <2>1, <2>2 DEF PacketInv, SenderInv, EntryInv, OrderInv, SecondInv, HalfInv, DueInv, DoneInv, CompleteInv
<1>2. CrcType /\ (~crossed => PacketInv) /\ [CrcNext]_crcVars => (~crossed => PacketInv)'
  BY PacketKept, CrossedStays DEF CrcStep, CrcType
<1> QED
  BY <1>1, <1>2, CrcTypeCorrect, PTL DEF CrcSpec

(* No packet is served twice, and none is left out, whichever modules send *)
(* their copies apart - until the copies cross.                            *)
THEOREM EachOnceTheorem == CrcSpec => []EachOnce
<1>1. OpsCrcTypeOK /\ (~crossed => PacketInv) => EachOnce
  <2> SUFFICES ASSUME OpsCrcTypeOK, PacketInv, NEW s \in Slots, NEW n \in DOMAIN due[s]
               PROVE  /\ due[s][n] >= 0
                      /\ inbox = << >> /\ sender[s].copies = 0 /\ remains = {} => due[s][n] = 0
    BY DEF EachOnce
  <2>1. due[s][n] \in {0, 1}
    BY DEF PacketInv, DueInv
  <2>2. inbox = << >> => DOMAIN inbox = {}
    OBVIOUS
  <2> QED
    BY <2>1, <2>2 DEF PacketInv, DoneInv, Half
<1>2. CrcType => OpsCrcTypeOK
  BY DEF CrcType
<1> QED
  BY <1>1, <1>2, CrcTypeCorrect, PacketInvariant, PTL

(***************************************************************************)
(* What a module leaves behind, and the answers of the next.               *)
(***************************************************************************)

(* A module that went when nothing of it was under way, and was known to   *)
(* be there, has left nothing that the board will serve, and once          *)
(* XbhOpsManager has noticed, no result (XbhOpsManager.cpp:362, 622).        *)
NothingLeft ==
    "queued" \notin remains => \A s \in Slots \ on :
        /\ sender[s].pc = "off" /\ ~UnderWay(s)
        /\ enable /\ s \notin noted => result[s] = "NOT_PERFORMED"

LEMMA LeftPass ==
    ASSUME CrcType, NothingLeft, Pass
    PROVE  NothingLeft'
<1>0. OpsCrcTypeOK /\ UNCHANGED <<enable, on, remains, noted>>
  BY DEF CrcType, Pass, chosen, moving
<1> SUFFICES ASSUME "queued" \notin remains, NEW s \in Slots \ on
             PROVE  /\ sender'[s].pc = "off" /\ ~UnderWay(s)'
                    /\ enable /\ s \notin noted => result'[s] = "NOT_PERFORMED"
  BY <1>0 DEF NothingLeft
<1>1. /\ sender[s].pc = "off"
      /\ \A i \in DOMAIN inbox : inbox[i].slot # s
      /\ stage \in {"grant", "record"} => slot # s
      /\ stage = "expire" => s \notin Late
      /\ enable /\ s \notin noted => result[s] = "NOT_PERFORMED"
  BY DEF NothingLeft, UnderWay
<1>2. counter[s] \in Nat /\ Limit \in Nat /\ (stage # "expire" => counter[s] <= Limit)
  BY <1>0, OpsCrcAssumption DEF CrcType, OpsCrcTypeOK
<1>3. CASE Check
  <2>1. counter' = [t \in Slots |-> Count(t)] /\ stage = "check" /\ stage' \in {"hpd", "expire"}
        /\ UNCHANGED <<sender, inbox, result>>
    BY <1>3 DEF Check
  <2>2. counter'[s] \in {counter[s], 0}
    BY <2>1 DEF Count
  <2>3. s \notin Late'
    BY <1>2, <2>1, <2>2, Limit' = Limit DEF Late
  <2> QED
    BY <1>1, <2>1, <2>3 DEF UnderWay
<1>4. CASE Expire
  <2>1. UNCHANGED <<sender, inbox>> /\ stage' = "hpd" /\ result'[s] = result[s]
    BY <1>0, <1>1, <1>4 DEF Expire, OpsCrcTypeOK
  <2> QED
    BY <1>1, <2>1 DEF UnderWay
<1>5. CASE HoldHpd
  <2>1. UNCHANGED <<sender, inbox>> /\ stage' = "take" /\ (enable => result' = result)
    BY <1>5 DEF HoldHpd
  <2> QED
    BY <1>1, <2>1 DEF UnderWay
<1>6. CASE TakeNothing
  BY <1>1, <1>6 DEF TakeNothing, UnderWay
<1>7. CASE Take
  <2>1. /\ Unmoved /\ stage' \in {"check", "grant", "record"} /\ result' = result
        /\ inbox' = Tail(inbox) /\ 1 \in DOMAIN inbox /\ Head(inbox) = inbox[1]
    BY <1>0, <1>7, TakeFacts, Behind DEF Take
  <2>2. \A i \in DOMAIN inbox' : inbox'[i].slot # s
    BY <1>0, <1>1, <1>7, Behind DEF Take
  <2>3. stage' \in {"grant", "record"} => slot' # s
    <3>1. stage' \in {"grant", "record"} => slot' = inbox[1].slot
      BY <1>0, <1>7, TakeServes
    <3> QED
      BY <1>1, <2>1, <3>1
  <2> QED
    BY <1>1, <2>1, <2>2, <2>3 DEF UnderWay, Unmoved
<1>8. CASE Grant
  BY <1>1, <1>8 DEF Grant, UnderWay
<1>9. CASE Record
  <2>1. UNCHANGED <<sender, inbox>> /\ stage' = "check" /\ result'[s] = result[s]
    BY <1>0, <1>1, <1>9 DEF Record, OpsCrcTypeOK
  <2> QED
    BY <1>1, <2>1 DEF UnderWay
<1> QED
  BY <1>3, <1>4, <1>5, <1>6, <1>7, <1>8, <1>9 DEF Pass

LEMMA LeftStep ==
    ASSUME CrcType, NothingLeft, CrcStep
    PROVE  NothingLeft'
<1>0. OpsCrcTypeOK
  BY DEF CrcType
<1>1. CASE UNCHANGED crcVars
  BY <1>1 DEF crcVars, chosen, moving, filter, thread, NothingLeft, UnderWay, Late
<1>2. CASE Pass
  BY <1>2, LeftPass
<1>3. ASSUME NEW m \in Slots, Note(m) PROVE NothingLeft'
  <2>1. /\ UNCHANGED <<enable, on, remains, sender, inbox, stage, slot, counter>>
        /\ noted' = IF m \in on THEN noted \cup {m} ELSE noted \ {m}
        /\ result' = IF m \notin on THEN [result EXCEPT ![m] = "NOT_PERFORMED"] ELSE result
    BY <1>3 DEF Note, chosen, moving, thread
  <2>2. \A s \in Slots : UnderWay(s)' <=> UnderWay(s)
    BY <2>1 DEF UnderWay, Late
  <2>3. \A s \in Slots \ on : s \notin noted' /\ s # m => s \notin noted /\ result'[s] = result[s]
    BY <1>0, <2>1 DEF OpsCrcTypeOK
  <2>4. m \notin on => result'[m] = "NOT_PERFORMED"
    BY <1>0, <2>1 DEF OpsCrcTypeOK
  <2> QED
    BY <2>1, <2>2, <2>3, <2>4 DEF NothingLeft
<1>4. ASSUME NEW m \in Slots, Module(m) PROVE NothingLeft'
  <2> SUFFICES ASSUME "queued" \notin remains, NEW s \in Slots \ on
               PROVE  /\ sender'[s].pc = "off" /\ ~UnderWay(s)'
                      /\ enable /\ s \notin noted => result'[s] = "NOT_PERFORMED"
    <3>1. UNCHANGED <<enable, on, remains, noted>>
      BY <1>4 DEF Module, SendAuth, SendVerify, SendQuery, Send, Hear, chosen, moving
    <3> QED
      BY <3>1 DEF NothingLeft
  <2>1. sender[s].pc = "off" /\ ~UnderWay(s) /\ (enable /\ s \notin noted => result[s] = "NOT_PERFORMED")
    BY DEF NothingLeft
  <2>2. UNCHANGED <<result, counter, stage, slot>>
    BY <1>4 DEF Module, SendAuth, SendVerify, SendQuery, Send, Hear, thread
  <2>3. m # s
    BY <1>4, <2>1, ModuleFacts, <1>0 DEF Hear
  <2>4. sender'[s] = sender[s] /\ \A i \in DOMAIN inbox' : (i \in DOMAIN inbox /\ inbox'[i] = inbox[i]) \/ inbox'[i].slot # s
    <3>1. CASE Sends(m)
      <4>1. PICK to \in {"wait", "query", "done"} : Send(m, sender[m].pc, to, Sending(m))
        BY <3>1 DEF Sends
      <4>2. sender[m].pc \in SenderPc /\ to \in SenderPc /\ Sending(m) \in Packets
        BY <1>0, <1>4, ModuleFacts DEF SenderPc, OpsCrcTypeOK
      <4>3. sender'[s] = sender[s] /\ Sent(m, Sending(m))
        BY <1>0, <2>3, <4>1, <4>2, SendFacts
      <4> QED
        BY <2>3, <4>3 DEF Sent
    <3>2. CASE Hear(m)
      BY <1>0, <2>3, <3>2 DEF Hear, OpsCrcTypeOK
    <3> QED
      BY <1>0, <1>4, <3>1, <3>2, ModuleFacts
  <2> QED
    BY <2>1, <2>2, <2>4 DEF UnderWay, Late
<1>5. ASSUME NEW m \in Slots, Switch(m) PROVE NothingLeft'
  <2>1. /\ UNCHANGED <<enable, noted, result, inbox, stage, slot, counter>>
        /\ on' = IF m \in on THEN on \ {m} ELSE on \cup {m}
        /\ remains' = IF m \in on THEN remains \cup Leaves(m) ELSE remains
    BY <1>5 DEF Switch, chosen, thread
  <2>2. \A s \in Slots : UnderWay(s)' <=> UnderWay(s)
    BY <2>1 DEF UnderWay, Late
  <2>3. /\ m \in on => sender'[m].pc = "off"
        /\ \A s \in Slots \ {m} : sender'[s] = sender[s]
    BY <1>0, <1>5 DEF Switch, OpsCrcTypeOK, Off
  <2>4. m \in on /\ "queued" \notin remains' => m \in noted /\ ~UnderWay(m)
    BY <2>1 DEF Leaves
  <2> QED
    BY <2>1, <2>2, <2>3, <2>4 DEF NothingLeft
<1> QED
  BY <1>1, <1>2, <1>3, <1>4, <1>5 DEF CrcStep, CrcNext

(* So the next module in the slot starts with a slot as new: what is left  *)
(* of GoneIsForgotten when time is not looked at.                          *)
THEOREM NothingLeftTheorem == CrcSpec => []NothingLeft
<1>1. CrcInit => NothingLeft
  <2> SUFFICES ASSUME CrcInit, NEW s \in Slots \ on
               PROVE  /\ sender[s].pc = "off" /\ ~UnderWay(s)
                      /\ result[s] = "NOT_PERFORMED"
    BY DEF NothingLeft
  <2>1. woken \in on \cup {0}
    BY DEF CrcInit
  <2>2. s # woken
    BY <2>1 DEF Slots
  <2> QED
    BY <2>2 DEF CrcInit, Off, UnderWay
<1>2. CrcType /\ NothingLeft /\ [CrcNext]_crcVars => NothingLeft'
  BY LeftStep DEF CrcStep
<1> QED
  BY <1>1, <1>2, CrcTypeCorrect, PTL DEF CrcSpec

(* No module is failed for its answer: what it computed from is the random *)
(* number the board compares with, if all packets in the queue are its own *)
(* and the copies have not crossed                                         *)
(* (XbhXMH610_A.cpp:1418-1537).                                            *)
AnswerIsRight ==
    "queued" \notin remains /\ ~crossed /\ stage \in {"grant", "record"} => verdict = "SUCCESS"

Of(s) == {i \in DOMAIN inbox : inbox[i].slot = s}
Requests(s) == {i \in Of(s) : inbox[i].packet.code = "AUTH"}
Answers(s) == {i \in Of(s) : inbox[i].packet.code = "VERIFY"}

(* Until a module has asked, the queue holds nothing for its slot; it asks *)
(* once.                                                                   *)
RequestInv ==
    \A s \in Slots :
        /\ sender[s].pc = "off" \/ (sender[s].pc = "auth" /\ ~Half(s)) =>
              sender[s].heard = 0 /\ Of(s) = {}
        /\ sender[s].pc = "auth" => \A i \in Of(s) : inbox[i].nth = Len(due[s])
        /\ \A i, j \in Requests(s) : inbox[i].nth = inbox[j].nth

(* Once it has heard a number its request has been served, in the queue or *)
(* on its way there, so that the board keeps the number.                   *)
NumberInv ==
    \A s \in Slots : sender[s].heard # 0 =>
        /\ sender[s].heard = random[s]
        /\ \A i \in Requests(s) : due[s][inbox[i].nth] = 0
        /\ sender[s].pc = "auth" => due[s][Len(due[s])] = 0

RepliesInv ==
    \A s \in Slots :
        /\ sender[s].pc \in {"verify", "query", "done"} => sender[s].heard # 0
        /\ \A i \in Answers(s) : sender[s].heard # 0 /\ inbox[i].packet.number = sender[s].heard

AnswerInv ==
    /\ AnswerIsRight
    /\ "queued" \notin remains => RequestInv /\ NumberInv /\ RepliesInv

LEMMA ServedIsDue ==
    ASSUME OpsCrcTypeOK, PacketInv, Take, Served(inbox[1].slot, inbox[1].nth, inbox[1].packet)
    PROVE  /\ due[inbox[1].slot][inbox[1].nth] = 1
           /\ due'[inbox[1].slot][inbox[1].nth] = 0
<1>1. 1 \in DOMAIN inbox /\ 1..1 - 1 = {}
  BY Behind DEF Take
<1>2. inbox[1].slot \in Slots /\ inbox[1].nth \in DOMAIN due[inbox[1].slot]
  BY <1>1, EntryTypes DEF PacketInv, EntryInv
<1>3. due[inbox[1].slot][inbox[1].nth] = 1
  <2>1. CASE inbox[1].again
    BY <1>1, <1>2, <2>1 DEF PacketInv, EntryInv, SecondInv, Missing, Served, Repeated
  <2>2. CASE ~inbox[1].again
    BY <1>1, <2>2 DEF PacketInv, EntryInv
  <2> QED
    BY <2>1, <2>2
<1> QED
  BY <1>2, <1>3 DEF Served

(* The queue without its first entry. *)
LEMMA TakeOf ==
    ASSUME OpsCrcTypeOK, Take
    PROVE  /\ 1 \in DOMAIN inbox /\ inbox[1].slot \in Slots
           /\ \A s \in Slots : \A i \in Of(s)' : i + 1 \in Of(s) /\ inbox'[i] = inbox[i + 1]
<1>1. inbox # << >> /\ inbox' = Tail(inbox)
  BY DEF Take
<1> QED
  BY <1>1, Behind, EntryTypes DEF Of

LEMMA AnswerTake ==
    ASSUME OpsCrcTypeOK, PacketInv, AnswerInv, Take, "queued" \notin remains, UNCHANGED remains
    PROVE  AnswerInv'
<1> DEFINE e == inbox[1]
           f == e.slot
<1>1. 1 \in DOMAIN inbox /\ f \in Slots
      /\ \A s \in Slots : \A i \in Of(s)' : i + 1 \in Of(s) /\ inbox'[i] = inbox[i + 1]
  BY TakeOf
<1>2. 1 \in Of(f) /\ e.nth \in DOMAIN due[f] /\ e.packet \in Packets
  BY <1>1, EntryTypes DEF Of, PacketInv, EntryInv
<1>3. Unmoved /\ (Served(f, e.nth, e.packet) \/ Passed(f, e.packet))
      /\ random \in [Slots -> Nat] /\ stage' \in {"check", "grant", "record"}
  BY TakeFacts DEF OpsCrcTypeOK
<1>4. RequestInv /\ NumberInv /\ RepliesInv
  BY DEF AnswerInv
<1>5. \A s \in Slots : sender'[s].pc = sender[s].pc /\ (Half(s)' <=> Half(s))
                       /\ (sender[s].heard # 0 => sender'[s].heard = sender[s].heard)
  BY <1>3 DEF Unmoved, Half
(* What is due no more stays so. *)
<1>6. \A s \in Slots : Len(due'[s]) = Len(due[s])
                       /\ \A m \in DOMAIN due[s] : due[s][m] = 0 => due'[s][m] = 0
  <2>1. CASE Served(f, e.nth, e.packet)
    <3>1. due[f][e.nth] = 1
      BY <2>1, ServedIsDue
    <3> HIDE DEF e
    <3> QED
      BY <2>1, <3>1 DEF Served
  <2>2. CASE Passed(f, e.packet)
    BY <2>2 DEF Passed
  <2> QED
    BY <1>3, <2>1, <2>2
<1>7. \A s \in Slots : Requests(s) \subseteq Of(s) /\ Answers(s) \subseteq Of(s)
                       /\ (\A i \in Requests(s)' : i + 1 \in Requests(s) /\ inbox'[i] = inbox[i + 1])
                       /\ (\A i \in Answers(s)' : i + 1 \in Answers(s) /\ inbox'[i] = inbox[i + 1])
  BY <1>1 DEF Requests, Answers
<1>8. /\ stage' \in {"grant", "record"} => slot' = f
      /\ \A t \in Slots \ {f} : random'[t] = random[t] /\ sender'[t] = sender[t]
      /\ \/ Passed(f, e.packet) /\ stage' = "check" /\ UNCHANGED <<random, sender>>
         \/ /\ Served(f, e.nth, e.packet)
            /\ \/ /\ e.packet.code = "AUTH" /\ stage' = "check"
                  /\ random'[f] = random[f] + 1
                  /\ sender'[f].heard = IF sender[f].heard = 0 /\ sender[f].pc # "off"
                                        THEN random'[f] ELSE sender[f].heard
               \/ /\ e.packet.code = "VERIFY" /\ UNCHANGED <<random, sender>>
                  /\ verdict' = IF e.packet.number = random[f] THEN "SUCCESS" ELSE "FAILED"
               \/ e.packet.code = "QUERY" /\ stage' = "check" /\ UNCHANGED <<random, sender>>
  BY TakeServes
<1>9. \A i \in Of(f) : inbox[i].nth \in DOMAIN due[f]
  BY DEF Of, PacketInv, EntryInv
<1>10. \A s \in Slots : \A i \in Of(s) : inbox[i].nth \in DOMAIN due[s]
  BY DEF Of, PacketInv, EntryInv
<1>11. \A s \in Slots : Half(s) => Len(due[s]) \in DOMAIN due[s]
  <2> SUFFICES ASSUME NEW s \in Slots, Half(s) PROVE Len(due[s]) \in DOMAIN due[s]
    OBVIOUS
  <2>1. due[s] \in Seq(Int) /\ due[s] # << >>
    BY DEF OpsCrcTypeOK, PacketInv, SenderInv
  <2>2. Len(due[s]) \in Nat /\ Len(due[s]) # 0 /\ DOMAIN due[s] = 1..Len(due[s])
    BY <2>1, EmptySeq, LenProperties
  <2> QED
    BY <2>2
<1> HIDE DEF e
<1>12. RequestInv'
  <2> SUFFICES ASSUME NEW s \in Slots
               PROVE  /\ sender'[s].pc = "off" \/ (sender'[s].pc = "auth" /\ ~Half(s)') =>
                            sender'[s].heard = 0 /\ Of(s)' = {}
                      /\ sender'[s].pc = "auth" => \A i \in Of(s)' : inbox'[i].nth = Len(due'[s])
                      /\ \A i, j \in Requests(s)' : inbox'[i].nth = inbox'[j].nth
    BY DEF RequestInv
  <2>1. sender[s].pc = "off" \/ (sender[s].pc = "auth" /\ ~Half(s)) => s # f /\ Of(s)' = {} /\ sender[s].heard = 0
    BY <1>1, <1>2, <1>4 DEF RequestInv
  <2>2. sender[s].pc = "auth" => \A i \in Of(s)' : inbox'[i].nth = Len(due'[s])
    BY <1>1, <1>4, <1>6 DEF RequestInv
  <2>3. \A i, j \in Requests(s)' : inbox'[i].nth = inbox'[j].nth
    BY <1>4, <1>7 DEF RequestInv
  <2> QED
    BY <1>5, <1>8, <2>1, <2>2, <2>3
(* The request of a module that has heard a number is not served again. *)
<1>13. ASSUME Served(f, e.nth, e.packet), e.packet.code = "AUTH"
       PROVE  /\ sender[f].heard = 0 /\ sender[f].pc # "off" /\ sender[f].pc \notin {"verify", "query", "done"}
              /\ Answers(f) = {}
              /\ 1 \in Requests(f) /\ due'[f][e.nth] = 0
  <2>1. 1 \in Requests(f)
    BY <1>2, <1>13 DEF Requests, e
  <2>2. due[f][e.nth] = 1 /\ due'[f][e.nth] = 0
    BY <1>13, ServedIsDue DEF e
  <2>3. sender[f].heard = 0
    BY <1>1, <1>4, <2>1, <2>2 DEF NumberInv, e
  <2> QED
    BY <1>1, <1>2, <1>4, <2>1, <2>2, <2>3 DEF RequestInv, RepliesInv
<1>14. NumberInv'
  <2> SUFFICES ASSUME NEW s \in Slots, sender'[s].heard # 0
               PROVE  /\ sender'[s].heard = random'[s]
                      /\ \A i \in Requests(s)' : due'[s][inbox'[i].nth] = 0
                      /\ sender'[s].pc = "auth" => due'[s][Len(due'[s])] = 0
    BY DEF NumberInv
  <2>1. CASE sender[s].heard # 0
    <3>1. sender[s].heard = random[s] /\ random'[s] = random[s]
      BY <1>1, <1>4, <1>8, <1>13, <2>1 DEF NumberInv
    <3>2. \A i \in Requests(s)' : due'[s][inbox'[i].nth] = 0
      BY <1>4, <1>6, <1>7, <1>10, <2>1 DEF NumberInv
    <3>3. sender[s].pc = "auth" => Half(s)
      BY <1>4, <2>1 DEF RequestInv
    <3>4. sender'[s].pc = "auth" => due'[s][Len(due'[s])] = 0
      BY <1>4, <1>5, <1>6, <1>11, <2>1, <3>3 DEF NumberInv
    <3> QED
      BY <1>5, <2>1, <3>1, <3>2, <3>4
  <2>2. CASE sender[s].heard = 0
    <3>1. s = f /\ Served(f, e.nth, e.packet) /\ e.packet.code = "AUTH" /\ sender'[f].heard = random'[f]
      BY <1>8, <2>2
    <3>2. 1 \in Requests(f) /\ due'[f][e.nth] = 0
      BY <1>13, <3>1
    <3>3. \A i \in Requests(s)' : inbox'[i].nth = e.nth
      <4>1. \A i, j \in Requests(f) : inbox[i].nth = inbox[j].nth
        BY <1>1, <1>4 DEF RequestInv
      <4>2. \A i \in Requests(s)' : i + 1 \in Requests(s) /\ inbox'[i].nth = inbox[i + 1].nth
        BY <1>7
      <4> QED
        BY <3>1, <3>2, <4>1, <4>2 DEF e
    <3>4. sender[f].pc = "auth" => Len(due'[f]) = e.nth
      BY <1>1, <1>2, <1>4, <1>6 DEF RequestInv, e
    <3>5. sender'[f].pc = "auth" => due'[f][Len(due'[f])] = 0
      BY <1>1, <1>5, <3>2, <3>4
    <3>6. \A i \in Requests(s)' : due'[s][inbox'[i].nth] = 0
      BY <3>1, <3>2, <3>3
    <3> QED
      BY <3>1, <3>5, <3>6
  <2> QED
    BY <2>1, <2>2
<1>15. RepliesInv'
  <2> SUFFICES ASSUME NEW s \in Slots
               PROVE  /\ sender'[s].pc \in {"verify", "query", "done"} => sender'[s].heard # 0
                      /\ \A i \in Answers(s)' : sender'[s].heard # 0 /\ inbox'[i].packet.number = sender'[s].heard
    BY DEF RepliesInv
  <2> QED
    BY <1>4, <1>5, <1>7 DEF RepliesInv
<1>16. AnswerIsRight'
  <2> SUFFICES ASSUME stage' \in {"grant", "record"} PROVE verdict' = "SUCCESS"
    BY DEF AnswerIsRight
  <2>1. e.packet.code = "VERIFY" /\ verdict' = IF e.packet.number = random[f] THEN "SUCCESS" ELSE "FAILED"
    BY <1>8
  <2>2. 1 \in Answers(f)
    BY <1>2, <2>1 DEF Answers, e
  <2>3. e.packet.number = random[f]
    BY <1>1, <1>4, <2>2 DEF RepliesInv, NumberInv, e
  <2> QED
    BY <2>1, <2>3
<1> QED
  BY <1>12, <1>14, <1>15, <1>16 DEF AnswerInv

(* A copy joins the queue, as SendFacts tells.                             *)
LEMMA SentOf ==
    ASSUME OpsCrcTypeOK, NEW s \in Slots, NEW packet \in Packets, Sent(s, packet)
    PROVE  LET new == Len(inbox) + 1 IN
           /\ inbox'[new].nth = Len(due'[s]) /\ inbox'[new].packet = packet
           /\ \A t \in Slots : Of(t)' = IF t = s THEN Of(t) \cup {new} ELSE Of(t)
           /\ \A t \in Slots : \A i \in Of(t) : inbox'[i] = inbox[i] /\ i # new
           /\ \A t \in Slots : Requests(t)' =
                 IF t = s /\ packet.code = "AUTH" THEN Requests(t) \cup {new} ELSE Requests(t)
           /\ \A t \in Slots : Answers(t)' =
                 IF t = s /\ packet.code = "VERIFY" THEN Answers(t) \cup {new} ELSE Answers(t)
<1> DEFINE new == Len(inbox) + 1
<1>1. /\ inbox'[new].slot = s /\ inbox'[new].packet = packet /\ inbox'[new].nth = Len(due'[s])
      /\ DOMAIN inbox' = DOMAIN inbox \cup {new}
      /\ \A i \in DOMAIN inbox : inbox'[i] = inbox[i] /\ i \in Nat /\ i < new
  BY DEF Sent
<1>2. new \notin DOMAIN inbox
  <2>1. inbox \in Seq(Entries)
    BY DEF OpsCrcTypeOK
  <2> QED
    BY <2>1, LenProperties
<1> HIDE DEF new
<1>3. \A t \in Slots : \A i \in Of(t) : inbox'[i] = inbox[i] /\ i # new /\ i \in DOMAIN inbox
  BY <1>1, <1>2 DEF Of
<1>4. ASSUME NEW t \in Slots PROVE Of(t)' = IF t = s THEN Of(t) \cup {new} ELSE Of(t)
  BY <1>1, <1>2 DEF Of
<1>5. ASSUME NEW t \in Slots
      PROVE  Requests(t)' = IF t = s /\ packet.code = "AUTH" THEN Requests(t) \cup {new} ELSE Requests(t)
  <2>1. Requests(t)' = {i \in Of(t)' : inbox'[i].packet.code = "AUTH"}
    BY DEF Requests
  <2> QED
    BY <1>1, <1>3, <1>4, <2>1 DEF Requests
<1>6. ASSUME NEW t \in Slots
      PROVE  Answers(t)' = IF t = s /\ packet.code = "VERIFY" THEN Answers(t) \cup {new} ELSE Answers(t)
  <2>1. Answers(t)' = {i \in Of(t)' : inbox'[i].packet.code = "VERIFY"}
    BY DEF Answers
  <2> QED
    BY <1>1, <1>3, <1>4, <2>1 DEF Answers
<1> QED
  BY <1>1, <1>3, <1>4, <1>5, <1>6 DEF new

LEMMA AnswerSend ==
    ASSUME OpsCrcTypeOK, PacketInv, AnswerInv, "queued" \notin remains, ~crossed,
           NEW s \in Slots, NEW to \in {"wait", "query", "done"},
           Send(s, sender[s].pc, to, Sending(s)),
           sender[s].pc \in {"auth", "verify", "query"}, sender[s].pc = "auth" => to = "wait"
    PROVE  AnswerInv'
<1> DEFINE new == Len(inbox) + 1
<1>1. /\ sender[s].pc \in SenderPc /\ to \in SenderPc /\ sender[s].heard \in Nat
  BY DEF SenderPc, OpsCrcTypeOK
<1>2. Sending(s) \in Packets
  BY <1>1 DEF Sending, Packets
<1>3. UNCHANGED <<random, stage, verdict, remains, crossed>>
  BY DEF Send, thread, moving, filter
<1>4. /\ Sent(s, Sending(s)) /\ due' \in [Slots -> Seq(Int)]
      /\ \A t \in Slots \ {s} : due'[t] = due[t] /\ sender'[t] = sender[t]
      /\ sender'[s].heard = sender[s].heard
      /\ \/ ~Half(s) /\ due'[s] = Append(due[s], 1)
         \/ Half(s) /\ due'[s] = due[s]
      /\ \/ sender'[s].pc = sender[s].pc /\ Half(s)'
         \/ sender'[s].pc = to
  BY <1>1, <1>2, SendFacts DEF PacketInv, SenderInv, Half
<1>5. /\ inbox'[new].nth = Len(due'[s]) /\ inbox'[new].packet = Sending(s)
      /\ \A t \in Slots : Of(t)' = IF t = s THEN Of(t) \cup {new} ELSE Of(t)
      /\ \A t \in Slots : \A i \in Of(t) : inbox'[i] = inbox[i] /\ i # new
      /\ \A t \in Slots : Requests(t)' =
            IF t = s /\ Sending(s).code = "AUTH" THEN Requests(t) \cup {new} ELSE Requests(t)
      /\ \A t \in Slots : Answers(t)' =
            IF t = s /\ Sending(s).code = "VERIFY" THEN Answers(t) \cup {new} ELSE Answers(t)
  BY <1>2, <1>4, SentOf
<1> HIDE DEF new
<1>6. RequestInv /\ NumberInv /\ RepliesInv
  BY DEF AnswerInv
<1>7. \A t \in Slots : Requests(t) \subseteq Of(t) /\ Answers(t) \subseteq Of(t)
  BY DEF Requests, Answers
<1>8. \A t \in Slots : \A i \in Of(t) : inbox[i].nth \in DOMAIN due[t]
  BY DEF Of, PacketInv, EntryInv
<1>9. /\ \A m \in DOMAIN due[s] : due'[s][m] = due[s][m]
      /\ Half(s) => Len(due'[s]) = Len(due[s]) /\ due'[s] = due[s]
  <2>1. due[s] \in Seq(Int) /\ 1 \in Int
    BY DEF OpsCrcTypeOK
  <2>2. \A m \in DOMAIN due[s] : Append(due[s], 1)[m] = due[s][m]
    BY <2>1, AppendProperties, LenProperties
  <2> QED
    BY <1>4, <2>2
<1>10. Sending(s).code = "AUTH" <=> sender[s].pc = "auth"
  BY DEF Sending
<1>11. Sending(s).code = "VERIFY" => sender[s].pc = "verify" /\ Sending(s).number = sender[s].heard
  BY DEF Sending
(* The first copy of a request finds the queue without others, the second  *)
(* only the first.                                                         *)
<1>12. sender[s].pc = "auth" => \A i \in Of(s) : Half(s) /\ inbox[i].nth = Len(due'[s])
  BY <1>6, <1>9 DEF RequestInv
<1>13. RequestInv'
  <2> SUFFICES ASSUME NEW t \in Slots
               PROVE  /\ sender'[t].pc = "off" \/ (sender'[t].pc = "auth" /\ ~Half(t)') =>
                            sender'[t].heard = 0 /\ Of(t)' = {}
                      /\ sender'[t].pc = "auth" => \A i \in Of(t)' : inbox'[i].nth = Len(due'[t])
                      /\ \A i, j \in Requests(t)' : inbox'[i].nth = inbox'[j].nth
    BY DEF RequestInv
  <2>1. CASE t # s
    <3>1. Of(t)' = Of(t) /\ Requests(t)' = Requests(t) /\ sender'[t] = sender[t] /\ due'[t] = due[t]
          /\ (Half(t)' <=> Half(t))
      BY <1>4, <1>5, <2>1 DEF Half
    <3> QED
      BY <1>5, <1>6, <1>7, <3>1 DEF RequestInv
  <2>2. CASE t = s
    <3>1. sender'[t].pc = "off" \/ (sender'[t].pc = "auth" /\ ~Half(t)') => FALSE
      BY <1>4, <2>2
    <3>2. sender'[t].pc = "auth" => \A i \in Of(t)' : inbox'[i].nth = Len(due'[t])
      BY <1>4, <1>5, <1>12, <2>2
    <3>3. \A i, j \in Requests(t)' : inbox'[i].nth = inbox'[j].nth
      <4>1. CASE sender[s].pc = "auth"
        <5>1. \A i \in Requests(t)' : inbox'[i].nth = Len(due'[s])
          BY <1>5, <1>7, <1>12, <2>2, <4>1
        <5> QED
          BY <5>1
      <4>2. CASE sender[s].pc # "auth"
        BY <1>5, <1>6, <1>7, <1>10, <2>2, <4>2 DEF RequestInv
      <4> QED
        BY <4>1, <4>2
    <3> QED
      BY <3>1, <3>2, <3>3
  <2> QED
    BY <2>1, <2>2
<1>14. NumberInv'
  <2> SUFFICES ASSUME NEW t \in Slots, sender'[t].heard # 0
               PROVE  /\ sender'[t].heard = random'[t]
                      /\ \A i \in Requests(t)' : due'[t][inbox'[i].nth] = 0
                      /\ sender'[t].pc = "auth" => due'[t][Len(due'[t])] = 0
    BY DEF NumberInv
  <2>1. sender[t].heard # 0 /\ sender'[t].heard = sender[t].heard
    BY <1>4
  <2>2. CASE t # s
    <3>1. Requests(t)' = Requests(t) /\ sender'[t] = sender[t] /\ due'[t] = due[t]
      BY <1>4, <1>5, <2>2
    <3> QED
      BY <1>3, <1>5, <1>6, <1>7, <2>1, <3>1 DEF NumberInv
  <2>3. CASE t = s
    <3>1. sender[s].pc = "auth" => Half(s) /\ due'[s][Len(due'[s])] = 0
      BY <1>6, <1>9, <2>1, <2>3 DEF RequestInv, NumberInv
    <3>2. \A i \in Requests(s) : due'[s][inbox'[i].nth] = 0
      BY <1>5, <1>6, <1>7, <1>8, <1>9, <2>1, <2>3 DEF NumberInv
    <3>3. \A i \in Requests(t)' : due'[t][inbox'[i].nth] = 0
      BY <1>5, <1>10, <2>3, <3>1, <3>2
    <3>4. sender'[t].pc = "auth" => sender[s].pc = "auth"
      BY <1>4, <2>3
    <3> QED
      BY <1>3, <1>6, <2>1, <2>3, <3>1, <3>3, <3>4 DEF NumberInv
  <2> QED
    BY <2>2, <2>3
<1>15. RepliesInv'
  <2> SUFFICES ASSUME NEW t \in Slots
               PROVE  /\ sender'[t].pc \in {"verify", "query", "done"} => sender'[t].heard # 0
                      /\ \A i \in Answers(t)' : sender'[t].heard # 0 /\ inbox'[i].packet.number = sender'[t].heard
    BY DEF RepliesInv
  <2>1. sender'[t].heard = sender[t].heard
    BY <1>4
  <2>2. CASE t # s
    <3>1. Answers(t)' = Answers(t) /\ sender'[t] = sender[t]
      BY <1>4, <1>5, <2>2
    <3> QED
      BY <1>5, <1>6, <1>7, <3>1 DEF RepliesInv
  <2>3. CASE t = s
    <3>1. sender[s].pc \in {"verify", "query"} => sender[s].heard # 0
      BY <1>6 DEF RepliesInv
    <3>2. sender'[t].pc \in {"verify", "query", "done"} => sender'[t].heard # 0
      BY <1>4, <2>1, <2>3, <3>1
    <3>3. \A i \in Answers(s) : sender'[s].heard # 0 /\ inbox'[i].packet.number = sender'[s].heard
      BY <1>5, <1>6, <1>7, <2>1, <2>3 DEF RepliesInv
    <3>4. \A i \in Answers(t)' : sender'[t].heard # 0 /\ inbox'[i].packet.number = sender'[t].heard
      BY <1>5, <1>11, <2>1, <2>3, <3>1, <3>3
    <3> QED
      BY <3>2, <3>4
  <2> QED
    BY <2>2, <2>3
<1> QED
  BY <1>3, <1>13, <1>14, <1>15 DEF AnswerInv, AnswerIsRight

LEMMA AnswerStep ==
    ASSUME CrcType, NothingLeft, PacketInv, AnswerInv, ~crossed, ~crossed', CrcStep
    PROVE  AnswerInv'
<1>0. OpsCrcTypeOK
  BY DEF CrcType
<1>1. ASSUME UNCHANGED <<random, inbox, due, sender, remains>>, AnswerIsRight' PROVE AnswerInv'
  BY <1>1 DEF AnswerInv, RequestInv, NumberInv, RepliesInv, Half, Of, Requests, Answers
<1>2. CASE Pass
  <2>1. UNCHANGED <<remains, on>>
    BY <1>2 DEF Pass, moving
  <2>2. CASE Take
    <3>1. CASE "queued" \notin remains
      BY <1>0, <2>1, <2>2, <3>1, AnswerTake
    <3>2. CASE "queued" \in remains
      BY <2>1, <3>2 DEF AnswerInv, AnswerIsRight
    <3> QED
      BY <3>1, <3>2
  <2>3. CASE Check \/ Expire \/ HoldHpd \/ TakeNothing \/ Record
    <3>1. UNCHANGED <<random, inbox, due, sender>> /\ stage' \in {"hpd", "expire", "take", "check"}
      BY <2>3 DEF Check, Expire, HoldHpd, TakeNothing, Record
    <3> QED
      BY <1>1, <2>1, <3>1 DEF AnswerIsRight
  <2>4. CASE Grant
    <3>1. UNCHANGED <<random, inbox, due, sender, verdict>> /\ stage = "grant"
      BY <2>4 DEF Grant
    <3> QED
      BY <1>1, <2>1, <3>1 DEF AnswerInv, AnswerIsRight
  <2> QED
    BY <1>2, <2>2, <2>3, <2>4 DEF Pass
<1>3. ASSUME NEW s \in Slots, Note(s) PROVE AnswerInv'
  <2>1. UNCHANGED <<random, inbox, due, sender, remains, stage, verdict>>
    BY <1>3 DEF Note, moving, thread
  <2> QED
    BY <1>1, <2>1 DEF AnswerInv, AnswerIsRight
<1>4. ASSUME NEW s \in Slots, Module(s) PROVE AnswerInv'
  <2>0. UNCHANGED <<remains, stage, verdict>>
    BY <1>4 DEF Module, SendAuth, SendVerify, SendQuery, Send, Hear, moving, thread
  <2> SUFFICES ASSUME "queued" \notin remains PROVE AnswerInv'
    BY <2>0 DEF AnswerInv, AnswerIsRight
  <2>1. CASE SendAuth(s)
    <3>1. sender[s].pc = "auth" /\ Sending(s) = [code |-> "AUTH", number |-> 0]
      BY <2>1 DEF SendAuth, Send, Sending
    <3> QED
      BY <1>0, <2>1, <3>1, AnswerSend DEF SendAuth
  <2>2. CASE SendVerify(s)
    <3>1. sender[s].pc = "verify" /\ Sending(s) = [code |-> "VERIFY", number |-> sender[s].heard]
      BY <2>2 DEF SendVerify, Send, Sending
    <3>2. PICK to \in {"query", "done"} : Send(s, "verify", to, Sending(s))
      BY <2>2, <3>1 DEF SendVerify
    <3> QED
      BY <1>0, <3>1, <3>2, AnswerSend
  <2>3. CASE SendQuery(s)
    <3>1. sender[s].pc = "query" /\ Sending(s) = [code |-> "QUERY", number |-> 0]
      BY <2>3 DEF SendQuery, Send, Sending
    <3> QED
      BY <1>0, <2>3, <3>1, AnswerSend DEF SendQuery
  <2>4. CASE Hear(s)
    <3>1. /\ UNCHANGED <<random, inbox, due>>
          /\ \A t \in Slots : /\ sender'[t].heard = sender[t].heard /\ (Half(t)' <=> Half(t))
                              /\ t # s => sender'[t] = sender[t]
          /\ sender[s].heard # 0 /\ sender'[s].pc = "verify"
      BY <1>0, <2>4 DEF Hear, OpsCrcTypeOK, Half
    <3>2. RequestInv' /\ NumberInv'
      BY <3>1 DEF AnswerInv, RequestInv, NumberInv, Of, Requests
    <3>3. RepliesInv'
      BY <3>1 DEF AnswerInv, RepliesInv, Of, Answers
    <3> QED
      BY <2>0, <3>2, <3>3 DEF AnswerInv, AnswerIsRight
  <2> QED
    BY <1>4, <2>1, <2>2, <2>3, <2>4 DEF Module
<1>5. ASSUME NEW s \in Slots, Switch(s) PROVE AnswerInv'
  <2>1. /\ UNCHANGED <<random, inbox, due, stage, verdict>>
        /\ remains' = IF s \in on THEN remains \cup Leaves(s) ELSE remains
    BY <1>5 DEF Switch, thread
  <2>2. sender'[s] \in {Off, Asking} /\ \A t \in Slots \ {s} : sender'[t] = sender[t]
    BY <1>0, <1>5 DEF Switch, OpsCrcTypeOK
  <2>3. AnswerIsRight'
    BY <2>1 DEF AnswerInv, AnswerIsRight
  <2> SUFFICES ASSUME "queued" \notin remains' PROVE RequestInv' /\ NumberInv' /\ RepliesInv'
    BY <2>3 DEF AnswerInv
  <2>4. "queued" \notin remains /\ ~UnderWay(s)
    BY <2>1 DEF Leaves, NothingLeft
  <2>5. Of(s)' = {} /\ Requests(s)' = {} /\ Answers(s)' = {}
    BY <2>1, <2>4 DEF UnderWay, Of, Requests, Answers
  <2>6. sender'[s].heard = 0 /\ sender'[s].pc \in {"off", "auth"}
    BY <2>2 DEF Off, Asking
  <2>7. \A t \in Slots : /\ Of(t)' = Of(t) /\ Requests(t)' = Requests(t) /\ Answers(t)' = Answers(t)
                         /\ t # s => (Half(t)' <=> Half(t))
    BY <2>1, <2>2 DEF Of, Requests, Answers, Half
  <2>8. RequestInv'
    BY <2>1, <2>2, <2>4, <2>5, <2>6, <2>7 DEF AnswerInv, RequestInv
  <2>9. NumberInv'
    BY <2>1, <2>2, <2>4, <2>6, <2>7 DEF AnswerInv, NumberInv
  <2>10. RepliesInv'
    BY <2>1, <2>2, <2>4, <2>5, <2>6, <2>7 DEF AnswerInv, RepliesInv
  <2> QED
    BY <2>8, <2>9, <2>10
<1>6. CASE UNCHANGED crcVars
  <2>1. UNCHANGED <<random, inbox, due, sender, remains, stage, verdict>>
    BY <1>6 DEF crcVars, moving, thread
  <2> QED
    BY <1>1, <2>1 DEF AnswerInv, AnswerIsRight
<1> QED
  BY <1>2, <1>3, <1>4, <1>5, <1>6 DEF CrcStep, CrcNext

(* A module that takes part is never failed for its answer, however often  *)
(* modules come and go: what is left of Decided when time is not looked    *)
(* at.  It rests on the filter: a repeated request served again would      *)
(* change the number under a module that has heard it.                     *)
THEOREM AnswerIsRightTheorem == CrcSpec => []AnswerIsRight
<1>1. CrcInit => AnswerInv
  <2> SUFFICES ASSUME CrcInit PROVE AnswerInv
    OBVIOUS
  <2>1. DOMAIN inbox = {} /\ stage = "check"
        /\ \A s \in Slots : sender[s].heard = 0 /\ sender[s].pc \in {"off", "auth"}
    BY DEF CrcInit, Off, Asking
  <2> QED
    BY <2>1 DEF AnswerInv, AnswerIsRight, RequestInv, NumberInv, RepliesInv, Of, Requests, Answers
<1>2. CrcType /\ NothingLeft /\ (~crossed => PacketInv) /\ (~crossed => AnswerInv) /\ [CrcNext]_crcVars
         => (~crossed => AnswerInv)'
  BY AnswerStep, CrossedStays DEF CrcStep, CrcType
<1>3. (~crossed => AnswerInv) => AnswerIsRight
  BY DEF AnswerInv, AnswerIsRight
<1> QED
  BY <1>1, <1>2, <1>3, CrcTypeCorrect, NothingLeftTheorem, PacketInvariant, PTL DEF CrcSpec
=============================================================================
