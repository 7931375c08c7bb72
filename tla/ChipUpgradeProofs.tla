-------------------------- MODULE ChipUpgradeProofs --------------------------
(***************************************************************************)
(* Theorems about ChipUpgrade for any set of chips and any number of       *)
(* requests and restarts: types, that the last request is carried out,     *)
(* where RUNNING is left, and which calls a programming is disturbed by.   *)
(***************************************************************************)
EXTENDS ChipUpgrade, XbhMWThreadProofs

ClientPc == {"idle", "note", "start", "run", "tested", "read"}
BodyPc == {"start", "open", "flash", "version", "end"}

(* ChipTypeOK without what the thread object keeps by itself. *)
ChipType ==
    /\ chip \in Chips /\ pace \in Paces
    /\ mState \in States
    /\ mFileName \in Files /\ requests \in Files /\ accepted \in Files /\ tried \in Files
    /\ client \in ClientPc
    /\ body \in BodyPc
    /\ mUpdateStart \in BOOLEAN /\ opened \in BOOLEAN /\ crossed \in BOOLEAN

ChipStep == ChipNext \/ UNCHANGED allVars

(* A pthread is about to execute the body from its start, or does so.      *)
Pending == Ready \/ (Inside /\ body = "start")

(* The one caller is inside of run() for a request. *)
CallInv == Calling => client = "run"

LoopInv ==
    /\ OnceObject /\ CallInv
    /\ body # "start" => Inside

-----------------------------------------------------------------------------
(* What a step of the upgrade is for the thread object. *)
ThreadPart ==
    \/ \E c \in Runners : Run(c, {"ONCE"}) \/ CallStep(c)
    \/ \E i \in Ids : LoopTest(i) \/ Task(i) \/ BodyReturn(i)
    \/ UNCHANGED vars

LEMMA StepsOfThread ==
    ASSUME ChipStep
    PROVE  ThreadPart
<1>1. CASE Ask \/ RejectName \/ ReadVersion \/ Note \/ UpgradeReturn \/ ClearStart \/ VersionReturn \/ UNCHANGED allVars
  <2>1. vars' = vars
    BY <1>1 DEF Ask, RejectName, ReadVersion, Note, UpgradeReturn, ClearStart, VersionReturn, ClientOnly, allVars
  <2> QED
    BY <2>1 DEF ThreadPart
<1>2. CASE StartBody \/ \E c \in Runners : CallStep(c)
  BY <1>2 DEF StartBody, ThreadPart
<1>3. CASE BodyStart \/ BodyOpen \/ BodyFlash \/ BodyVersion
  <2>1. vars' = vars
    BY <1>3 DEF BodyStart, BodyOpen, BodyFlash, BodyVersion, BodyOnly
  <2> QED
    BY <2>1 DEF ThreadPart
<1>4. CASE (\E i \in Ids : BodyEnd(i)) \/ ThreadStep
  BY <1>4 DEF BodyEnd, ThreadStep, ThreadPart
<1> QED
  BY <1>1, <1>2, <1>3, <1>4 DEF ChipStep, ChipNext, ClientStep, BodyStep

LEMMA ThreadPartIsNext ==
    ASSUME ThreadPart
    PROVE  [Next]_vars /\ OwnedNext
<1>1. {"ONCE"} \in Flags
  BY DEF Flags
<1> QED
  BY <1>1, RunnersAssumption DEF ThreadPart, Next, OwnedNext, LoopStep

LEMMA OneRunner ==
    ASSUME NEW c \in Runners, NEW d \in Runners
    PROVE  c = d
  BY ChipAssumption

(* One caller is never two. *)
LEMMA SoloKept ==
    ASSUME LoopInv, ThreadPart
    PROVE  Solo'
<1> USE RunnersAssumption DEF LoopInv, OnceObject
<1>1. CASE UNCHANGED stage
  BY <1>1 DEF Solo
<1>2. ASSUME NEW c \in Runners, Run(c, {"ONCE"}) \/ CallStep(c) PROVE Solo'
  <2>1. \A d \in Callers : d # c => stage'[d] = stage[d]
    BY <1>2 DEF Run, CallStep, JoinCall, JoinReturn, RunAfterJoin, Create, GoOn, Leave, TypeOK
  <2>2. \A d \in Callers : d # c => stage[d] = "idle"
    BY OneRunner DEF OnceCalls
  <2> QED
    BY <2>1, <2>2 DEF Solo
<1> QED
  BY <1>1, <1>2 DEF ThreadPart, LoopTest, Task, BodyReturn, vars, apiVars

LEMMA InsideIsLive ==
    ASSUME LoopInv, Inside
    PROVE  Pending <=> body = "start"
  BY InsideNotReady DEF LoopInv, Pending

LEMMA LoopInvStep ==
    ASSUME LoopInv, ChipStep
    PROVE  LoopInv'
<1>0. ThreadPart /\ [Next]_vars /\ OwnedNext /\ Solo'
  BY StepsOfThread, ThreadPartIsNext, SoloKept
<1>1. TypeOK' /\ OwnedInv'
  BY <1>0, TypeStep, OwnedStep DEF LoopInv, OnceObject
<1>2. ASSUME OnceCalls', OnceLoop', CallInv', body' # "start" => Inside' PROVE LoopInv'
  BY <1>0, <1>1, <1>2 DEF LoopInv, OnceObject
<1>3. CASE Ask \/ RejectName \/ ReadVersion \/ Note \/ UpgradeReturn \/ ClearStart \/ VersionReturn \/ UNCHANGED allVars
  <2>1. vars' = vars /\ UNCHANGED body
    BY <1>3 DEF Ask, RejectName, ReadVersion, Note, UpgradeReturn, ClearStart, VersionReturn, ClientOnly, allVars, chipVars
  <2>2. client = "run" => client' = "run" \/ ~Calling
    BY <1>3 DEF Ask, RejectName, ReadVersion, Note, UpgradeReturn, ClearStart, VersionReturn, ClientOnly, allVars, chipVars,
                Calling, LoopInv, OnceObject, OnceCalls
  <2> QED
    BY <1>2, <2>1, <2>2, SameThread DEF LoopInv, CallInv
<1>4. CASE StartBody
  <2>1. PICK c \in Runners : Run(c, {"ONCE"})
    BY <1>4 DEF StartBody
  <2> QED
    BY <1>0, <1>2, <1>4, <2>1, RunFacts, RunnersAssumption DEF StartBody, LoopInv, CallInv
<1>5. ASSUME NEW c \in Runners, CallStep(c), UNCHANGED chipVars PROVE LoopInv'
  BY <1>2, <1>5, CallFacts, RunnersAssumption DEF chipVars, LoopInv, CallInv
<1>6. CASE BodyStart \/ BodyOpen \/ BodyFlash \/ BodyVersion
  <2>1. vars' = vars /\ Inside /\ UNCHANGED client
    BY <1>6 DEF BodyStart, BodyOpen, BodyFlash, BodyVersion, BodyOnly, InBody, Inside
  <2> QED
    BY <1>2, <2>1, SameThread DEF LoopInv, CallInv
<1>7. ASSUME NEW i \in Ids, BodyEnd(i) PROVE LoopInv'
  BY <1>2, <1>7, ReturnFacts DEF BodyEnd, LoopInv, CallInv
<1>8. CASE ThreadStep
  <2>1. PICK i \in Ids : LoopTest(i) \/ Task(i)
    BY <1>8 DEF ThreadStep
  <2> QED
    BY <1>2, <1>8, <2>1, LoopFacts DEF ThreadStep, chipVars, LoopInv, CallInv
<1> QED
  BY <1>3, <1>4, <1>5, <1>6, <1>7, <1>8 DEF ChipStep, ChipNext, ClientStep, BodyStep

-----------------------------------------------------------------------------
(* The chip.  Busy: the body is to program the chip or does so; Asking: a  *)
(* request on its way there.                                               *)
Programming == body \in {"open", "flash"} \/ (body = "version" /\ chip # "Gsv2712")
Busy == Pending \/ Programming
ToTry == Pending \/ body = "open"
Asking == client \in {"note", "start"} \/ Calling

EarlyInv ==
    chip \in EarlyRunning =>
        /\ Busy => mState = "RUNNING" /\ client \in {"idle", "run", "read"} /\ ~Calling
        /\ client = "read" /\ chip # "Hl817" => ~Pending /\ body \notin {"open", "flash"}
        /\ Asking => mState = "RUNNING"

(* Where the body sets RUNNING, a call that goes on beside it came before  *)
(* that, or was let past it.                                               *)
LateInv ==
    /\ client = "tested" => chip = "Cs5803aq"
    /\ chip \in LateRunning /\ Programming => mState = "RUNNING" /\ (client # "idle" => crossed)

(* What RUNNING stands for. *)
RunningInv ==
    mState = "RUNNING" =>
        /\ chip \in LateRunning => Programming \/ (chip = "Ite6563" /\ ~opened)
        /\ chip \in {"Ap8224", "Ap8232"} => Busy \/ Asking \/ mFileName = 0
        /\ chip \in {"Gsv2712", "Hl817"} /\ accepted # 0 => Busy \/ Asking

(* Whose file it is that the body will go for. *)
Steady == chip \in EarlyRunning \/ pace = "rested" \/ chip = "Gsv2712"

NameInv ==
    /\ mFileName \in {accepted, 0}
    /\ chip = "Gsv2712" => mFileName = accepted
    /\ client = "start" \/ Calling => mFileName = accepted
    /\ Steady /\ Busy => mFileName = accepted

TriedInv ==
    /\ \/ tried = accepted
       \/ ~Steady /\ mFileName = 0
       \/ client = "start" \/ Calling
       \/ ToTry /\ mFileName = accepted
    /\ pace = "rested" /\ client = "note" => Resting
    /\ client = "note" /\ (chip \in EarlyRunning \/ pace = "rested") => tried = accepted

DataInv == EarlyInv /\ LateInv /\ RunningInv /\ NameInv /\ TriedInv

Inv == LoopInv /\ ChipType /\ DataInv

LEMMA ChipIs ==
    ASSUME ChipType
    PROVE  /\ chip \in LateRunning \/ chip \in EarlyRunning \/ chip = "Gsv2712"
           /\ chip \in EarlyRunning <=> chip \in {"Ap8224", "Ap8232", "Hl817"}
           /\ chip \in LateRunning => chip \notin {"Ap8224", "Ap8232", "Hl817", "Gsv2712"}
           /\ Steady \/ (chip \in LateRunning /\ pace = "any")
  BY ChipAssumption DEF ChipType, LateRunning, EarlyRunning, Steady

LEMMA RestingFacts ==
    ASSUME LoopInv, Resting
    PROVE  ~Inside /\ ~Pending /\ ~Busy /\ body = "start"
  BY ParkedFacts DEF Resting, LoopInv, Pending, Busy, Programming

LEMMA ChipTypes ==
    ASSUME ChipType, ChipStep
    PROVE  ChipType'
<1> USE ChipAssumption DEF ChipType
<1>0. 0 \in Files /\ \A n \in Files : n < MaxRequests => n + 1 \in Files
  BY DEF Files
<1>1. CASE UNCHANGED chipVars
  BY <1>1 DEF chipVars
<1>2. CASE Ask
  BY <1>0, <1>2 DEF Ask, States, ClientPc
<1>3. CASE RejectName \/ Note \/ StartBody \/ UpgradeReturn
  BY <1>0, <1>3 DEF RejectName, Note, StartBody, UpgradeReturn, ClientOnly, States, ClientPc
<1>6. CASE ReadVersion \/ ClearStart \/ VersionReturn
  <2>1. UNCHANGED <<chip, pace, mState, mFileName, body, requests, accepted, tried, opened>>
    BY <1>6 DEF ReadVersion, ClearStart, VersionReturn, ClientOnly
  <2>2. client' \in ClientPc /\ mUpdateStart' \in BOOLEAN
    BY <1>6 DEF ReadVersion, ClearStart, VersionReturn, ClientPc
  <2>3. crossed' \in BOOLEAN
    BY <1>6 DEF ReadVersion, ClearStart, VersionReturn
  <2> QED
    BY <2>1, <2>2, <2>3
<1>4. CASE BodyStart \/ BodyOpen \/ BodyFlash \/ BodyVersion
  <2>1. UNCHANGED <<chip, pace, mFileName, client, requests, accepted>>
    BY <1>4 DEF BodyStart, BodyOpen, BodyFlash, BodyVersion, BodyOnly
  <2>2. mState' \in States /\ tried' \in Files /\ body' \in BodyPc
    BY <1>4 DEF BodyStart, BodyOpen, WithFile, BodyFlash, BodyVersion, States, BodyPc
  <2>3. mUpdateStart' \in BOOLEAN
    BY <1>4 DEF BodyStart, BodyOpen, WithFile, BodyFlash, BodyVersion
  <2>4. opened' \in BOOLEAN /\ crossed' \in BOOLEAN
    BY <1>4 DEF BodyStart, BodyOpen, WithFile, BodyFlash, BodyVersion
  <2> QED
    BY <2>1, <2>2, <2>3, <2>4
<1>5. ASSUME NEW i \in Ids, BodyEnd(i) PROVE ChipType'
  BY <1>5 DEF BodyEnd, BodyPc
<1> QED
  BY <1>1, <1>2, <1>3, <1>4, <1>5, <1>6 DEF ChipStep, ChipNext, ClientStep, BodyStep, ThreadStep, allVars

(* Steps that leave the thread alone leave what is said about it alone.    *)
LEMMA ThreadAlone ==
    ASSUME LoopInv, vars' = vars
    PROVE  /\ (Inside' <=> Inside) /\ (Calling' <=> Calling)
           /\ Resting' <=> Resting
           /\ body' = body => (Pending' <=> Pending)
<1>1. Resting' <=> Resting
  BY DEF vars, Resting
<1> QED
  BY <1>1, SameThread DEF LoopInv, Pending

LEMMA AskStep ==
    ASSUME Inv, Ask
    PROVE  DataInv'
<1> USE ChipIs DEF Inv, Asking, Busy, Programming, ToTry
<1>1. /\ (Inside' <=> Inside) /\ (Calling' <=> Calling) /\ (Resting' <=> Resting) /\ (Pending' <=> Pending)
      /\ UNCHANGED <<chip, pace, mFileName, body, accepted, tried, opened, crossed>>
  BY ThreadAlone DEF Ask
<1>2. ~Calling /\ client = "idle"
  BY DEF Ask, LoopInv, CallInv
<1>3. EarlyInv' /\ LateInv' /\ RunningInv'
  BY <1>1, <1>2 DEF Ask, Refuses, DataInv, EarlyInv, LateInv, RunningInv
<1>4. NameInv'
  BY <1>1, <1>2 DEF Ask, Refuses, DataInv, NameInv, Steady
<1>5. TriedInv'
  <2>1. pace = "rested" => Resting
    BY DEF Ask
  <2>2. client' = "note" => ~Refuses
    BY DEF Ask
  <2>3. pace = "rested" => tried = accepted
    BY <1>2, <2>1, RestingFacts DEF DataInv, TriedInv, Steady
  <2>4. client' = "note" /\ chip \in EarlyRunning => tried = accepted
    BY <1>2, <2>2 DEF Refuses, DataInv, EarlyInv, TriedInv, Steady
  <2> QED
    BY <1>1, <1>2, <2>1, <2>3, <2>4 DEF Ask, DataInv, TriedInv, Steady
<1> QED
  BY <1>3, <1>4, <1>5 DEF DataInv

LEMMA RejectStep ==
    ASSUME Inv, RejectName
    PROVE  DataInv'
<1> USE ChipIs DEF Inv, Asking, Busy, Programming, ToTry
<1>1. /\ (Calling' <=> Calling) /\ (Pending' <=> Pending)
      /\ UNCHANGED <<chip, pace, body, accepted, tried, opened>>
      /\ client = "note" /\ client' = "idle" /\ mFileName' = 0
  BY ThreadAlone DEF RejectName
<1>2. ~Calling
  BY <1>1 DEF LoopInv, CallInv
<1>3. pace = "rested" => ~Busy
  BY <1>1, RestingFacts DEF DataInv, TriedInv
<1>4. EarlyInv' /\ LateInv' /\ RunningInv'
  BY <1>1, <1>2 DEF RejectName, DataInv, EarlyInv, LateInv, RunningInv
<1>5. NameInv'
  BY <1>1, <1>2, <1>3 DEF RejectName, DataInv, NameInv, EarlyInv, Steady
<1>6. TriedInv'
  BY <1>1, <1>2 DEF RejectName, DataInv, TriedInv, Steady
<1> QED
  BY <1>4, <1>5, <1>6 DEF DataInv

LEMMA QuietStep ==
    ASSUME Inv, Note \/ UpgradeReturn \/ ReadVersion \/ ClearStart \/ VersionReturn
    PROVE  DataInv'
<1> USE ChipIs DEF Inv, Asking, Busy, Programming, ToTry
<1>1. /\ (Calling' <=> Calling) /\ (Pending' <=> Pending) /\ (Resting' <=> Resting)
      /\ UNCHANGED <<chip, pace, mState, body, tried, opened>>
  BY ThreadAlone DEF Note, UpgradeReturn, ReadVersion, ClearStart, VersionReturn, ClientOnly
<1>2. ~Calling
  BY DEF Calling, LoopInv, CallInv, OnceObject, OnceCalls, Note, UpgradeReturn, ReadVersion, ClearStart, VersionReturn
<1>3. CASE Note
  BY <1>1, <1>2, <1>3 DEF Note, ClientOnly, DataInv, EarlyInv, LateInv, RunningInv, NameInv, TriedInv, Steady
<1>4. CASE UpgradeReturn \/ ReadVersion \/ ClearStart \/ VersionReturn
  <2>1. /\ UNCHANGED <<mFileName, accepted, opened>> /\ client \notin {"note", "start"}
        /\ client' \in {"idle", "tested", "read"}
    BY <1>4 DEF UpgradeReturn, ReadVersion, ClearStart, VersionReturn, ClientOnly
  <2>2. CASE ReadVersion
    <3>1. /\ client' = IF chip = "Cs5803aq" THEN "tested" ELSE "read"
          /\ crossed' = (chip = "Cs5803aq" /\ mUpdateStart)
      BY <2>2 DEF ReadVersion
    <3>2. \/ chip \in {"Hl817", "Gsv2712"} \/ mState # "RUNNING"
          \/ chip = "Cs5803aq" /\ mUpdateStart
          \/ chip = "Ap8232" /\ Inside /\ body = "version"
      BY <2>2 DEF ReadVersion, MayRead, InBody, Inside
    <3>3. chip = "Ap8232" /\ Inside /\ body = "version" => ~Pending
      BY InsideIsLive
    <3>4. EarlyInv'
      BY <1>1, <1>2, <2>1, <3>1, <3>2, <3>3 DEF DataInv, EarlyInv, LateRunning
    <3>5. LateInv'
      BY <1>1, <3>1, <3>2 DEF DataInv, LateInv, LateRunning
    <3> QED
      BY <1>1, <1>2, <2>1, <3>4, <3>5 DEF DataInv, EarlyInv, RunningInv, NameInv, TriedInv, Steady
  <2>3. CASE ClearStart
    <3>1. client = "tested" /\ chip = "Cs5803aq" /\ client' = "read" /\ crossed' = crossed
      BY <2>3 DEF ClearStart, DataInv, LateInv
    <3> QED
      BY <1>1, <1>2, <2>1, <3>1 DEF DataInv, EarlyInv, LateInv, RunningInv, NameInv, TriedInv, Steady
  <2>4. CASE UpgradeReturn \/ VersionReturn
    <3>1. client' = "idle"
      BY <2>4 DEF UpgradeReturn, VersionReturn
    <3> QED
      BY <1>1, <1>2, <2>1, <3>1 DEF DataInv, EarlyInv, LateInv, RunningInv, NameInv, TriedInv, Steady
  <2> QED
    BY <1>4, <2>2, <2>3, <2>4
<1> QED
  BY <1>3, <1>4

LEMMA StartStep ==
    ASSUME Inv, StartBody
    PROVE  DataInv'
<1> USE ChipIs DEF Inv, Asking, Busy, Programming, ToTry
<1>1. PICK c \in Runners : Run(c, {"ONCE"})
  BY DEF StartBody
<1>2. /\ client = "start" /\ client' = "run"
      /\ UNCHANGED <<chip, pace, mState, mFileName, body, accepted, tried, opened, crossed>>
  BY DEF StartBody
<1>3. Solo'
  BY <1>1, SoloKept DEF ThreadPart
<1>4. Calling' /\ (Pending' => Pending)
  BY <1>1, <1>2, <1>3, RunFacts, RunnersAssumption DEF LoopInv, Pending
<1> QED
  BY <1>2, <1>4 DEF DataInv, EarlyInv, LateInv, RunningInv, NameInv, TriedInv, Steady

LEMMA InRunStep ==
    ASSUME Inv, NEW c \in Runners, CallStep(c), UNCHANGED chipVars
    PROVE  DataInv'
<1> USE ChipIs DEF Inv, Asking, Busy, Programming, ToTry
<1>1. UNCHANGED <<chip, pace, mState, mFileName, client, body, accepted, tried, opened, crossed>>
  BY DEF chipVars
<1>2. /\ Calling
      /\ \/ Calling' /\ (Pending' => Pending)
         \/ ~Calling' /\ Pending' /\ ~Inside
  BY <1>1, CallFacts, RunnersAssumption DEF LoopInv, Pending
<1>3. client = "run"
  BY <1>2 DEF LoopInv, CallInv
<1> QED
  BY <1>1, <1>2, <1>3 DEF DataInv, EarlyInv, LateInv, RunningInv, NameInv, TriedInv, Steady

LEMMA TestOrTaskStep ==
    ASSUME Inv, ThreadStep
    PROVE  DataInv'
<1> USE ChipIs DEF Inv, Asking, Busy, Programming, ToTry
<1>1. UNCHANGED <<chip, pace, mState, mFileName, client, body, accepted, tried, opened, crossed>>
  BY DEF ThreadStep, chipVars
<1>2. PICK i \in Ids : LoopTest(i) \/ Task(i)
  BY DEF ThreadStep
<1>3. (Calling' <=> Calling) /\ (Pending' <=> Pending)
  BY <1>1, <1>2, LoopFacts DEF LoopInv, Pending
<1>4. ~Resting
  BY <1>2 DEF LoopTest, Task, Resting
<1> QED
  BY <1>1, <1>3, <1>4 DEF DataInv, EarlyInv, LateInv, RunningInv, NameInv, TriedInv, Steady

LEMMA BodyEndStep ==
    ASSUME Inv, NEW i \in Ids, BodyEnd(i)
    PROVE  DataInv'
<1> USE ChipIs DEF Inv, Asking, Busy, Programming, ToTry
<1>1. /\ UNCHANGED <<chip, pace, mState, mFileName, client, accepted, tried, opened, crossed>>
      /\ body = "end" /\ body' = "start" /\ BodyReturn(i)
  BY DEF BodyEnd
<1>2. (Calling' <=> Calling) /\ Inside /\ ~Pending /\ ~Pending'
  BY <1>1, ReturnFacts DEF LoopInv, Pending
<1>3. ~Resting
  BY <1>2 DEF Inside, Resting
<1> QED
  BY <1>1, <1>2, <1>3 DEF DataInv, EarlyInv, LateInv, RunningInv, NameInv, TriedInv, Steady

LEMMA InBodyStep ==
    ASSUME Inv, BodyStart \/ BodyOpen \/ BodyFlash \/ BodyVersion
    PROVE  DataInv'
<1> USE ChipIs DEF Inv, Asking, Busy, Programming, ToTry
<1>1. /\ UNCHANGED <<vars, chip, pace, mFileName, client, requests, accepted>>
      /\ Inside
  BY DEF BodyStart, BodyOpen, BodyFlash, BodyVersion, BodyOnly, InBody, Inside
<1>2. Pending <=> body = "start"
  BY <1>1, InsideIsLive
<1>3. body' # "start"
  BY DEF BodyStart, BodyOpen, WithFile, BodyFlash, BodyVersion
<1>4. Calling' <=> Calling
  BY <1>1, ThreadAlone
<1>5. ~Pending'
  BY <1>1, <1>3, SameThread, InsideNotReady DEF LoopInv, Pending
<1>6. ~Resting
  BY <1>1 DEF Inside, Resting
<1> HIDE DEF Inv
<1>7. CASE BodyStart
  <2>1. body = "start" /\ Pending
    BY <1>2, <1>7 DEF BodyStart, InBody
  <2>2. EarlyInv'
    BY <1>1, <1>4, <1>5, <1>7, <2>1 DEF Inv, BodyStart, DataInv, EarlyInv
  <2>3. body' = "open" /\ UNCHANGED tried
    BY <1>7, <2>1 DEF Inv, BodyStart, DataInv, EarlyInv
  <2>4. LateInv'
    BY <1>1, <1>7 DEF Inv, BodyStart, DataInv, LateInv
  <2>5. RunningInv'
    BY <2>3 DEF RunningInv
  <2>6. NameInv' /\ TriedInv'
    BY <1>1, <1>4, <1>6, <2>1, <2>3 DEF Inv, DataInv, NameInv, TriedInv, Steady
  <2> QED
    BY <2>2, <2>4, <2>5, <2>6 DEF DataInv
<1>8. CASE BodyOpen
  <2>1. body = "open" /\ ~Pending /\ tried' = mFileName /\ crossed' = crossed
    BY <1>2, <1>8 DEF BodyOpen, InBody
  <2>2. \/ body' = "flash" /\ mState' = mState
        \/ body' = "version" /\ chip = "Cs5803aq" /\ mState' = mState
        \/ body' = "end" /\ mState' = "FAILURE"
        \/ body' = "end" /\ chip = "Ite6563" /\ ~opened' /\ mState' = mState
    BY <1>8 DEF BodyOpen, WithFile
  <2>3. chip = "Cs5803aq" => chip \in LateRunning
    BY DEF LateRunning
  <2>4. EarlyInv'
    BY <1>1, <1>4, <1>5, <2>1, <2>2, <2>3 DEF Inv, DataInv, EarlyInv
  <2>5. LateInv'
    BY <1>1, <2>1, <2>2 DEF Inv, DataInv, LateInv
  <2>6. RunningInv'
    BY <1>1, <1>4, <1>5, <2>1, <2>2, <2>3 DEF Inv, DataInv, RunningInv, EarlyRunning, LateRunning
  <2>7. NameInv'
    BY <1>1, <1>4, <1>5, <2>1, <2>2 DEF Inv, DataInv, NameInv, Steady
  <2>8. TriedInv'
    BY <1>1, <1>4, <1>5, <1>6, <2>1, <2>2 DEF Inv, DataInv, NameInv, TriedInv, EarlyInv, Steady
  <2> QED
    BY <2>4, <2>5, <2>6, <2>7, <2>8 DEF DataInv
<1>9. CASE BodyFlash
  <2>1. body = "flash" /\ ~Pending /\ tried' = tried /\ crossed' = crossed /\ opened' = opened
    BY <1>2, <1>9 DEF BodyFlash, InBody
  <2>2. \/ body' = "end" /\ mState' # "RUNNING"
        \/ body' = "version" /\ chip = "Gsv2712" /\ mState' # "RUNNING"
        \/ body' = "version" /\ chip = "Ap8232" /\ mState' = mState
    BY <1>9 DEF BodyFlash
  <2>3. EarlyInv'
    BY <1>1, <1>4, <1>5, <2>1, <2>2 DEF Inv, DataInv, EarlyInv
  <2>4. LateInv'
    BY <1>1, <2>1, <2>2 DEF Inv, DataInv, LateInv
  <2>5. RunningInv'
    BY <1>1, <1>4, <1>5, <2>1, <2>2 DEF Inv, DataInv, RunningInv
  <2>6. NameInv' /\ TriedInv'
    BY <1>1, <1>4, <1>5, <1>6, <2>1, <2>2 DEF Inv, DataInv, NameInv, TriedInv, Steady
  <2> QED
    BY <2>3, <2>4, <2>5, <2>6 DEF DataInv
<1>10. CASE BodyVersion
  <2>1. body = "version" /\ ~Pending /\ tried' = tried /\ crossed' = crossed /\ opened' = opened
    BY <1>2, <1>10 DEF BodyVersion, InBody
  <2>2. \/ body' = "end" /\ chip = "Gsv2712" /\ mState' = mState
        \/ body' = "end" /\ mState' # "RUNNING"
        \/ body' = "flash" /\ chip = "Cs5803aq" /\ mState' = mState
    BY <1>10 DEF BodyVersion
  <2>3. chip = "Cs5803aq" => chip \in LateRunning
    BY DEF LateRunning
  <2>4. EarlyInv'
    BY <1>1, <1>4, <1>5, <2>1, <2>2, <2>3 DEF Inv, DataInv, EarlyInv
  <2>5. LateInv'
    BY <1>1, <2>1, <2>2, <2>3 DEF Inv, DataInv, LateInv
  <2>6. RunningInv'
    BY <1>1, <1>4, <1>5, <2>1, <2>2, <2>3 DEF Inv, DataInv, RunningInv
  <2>7. NameInv' /\ TriedInv'
    BY <1>1, <1>4, <1>5, <1>6, <2>1, <2>2, <2>3 DEF Inv, DataInv, NameInv, TriedInv, Steady
  <2> QED
    BY <2>4, <2>5, <2>6, <2>7 DEF DataInv
<1> QED
  BY <1>7, <1>8, <1>9, <1>10

LEMMA DataInvStep ==
    ASSUME Inv, ChipStep
    PROVE  DataInv'
<1>1. CASE UNCHANGED allVars
  <2>1. vars' = vars /\ UNCHANGED <<chip, pace, mState, mFileName, client, body, accepted, tried, opened, crossed>>
    BY <1>1 DEF allVars, chipVars
  <2>2. (Calling' <=> Calling) /\ (Pending' <=> Pending) /\ (Resting' <=> Resting)
    BY <2>1, ThreadAlone DEF Inv
  <2> QED
    BY <2>1, <2>2
       DEF Inv, DataInv, EarlyInv, LateInv, RunningInv, NameInv, TriedInv, Steady,
           Asking, Busy, Programming, ToTry
<1> QED
  BY <1>1, AskStep, RejectStep, QuietStep, StartStep, InRunStep, TestOrTaskStep, BodyEndStep, InBodyStep
     DEF ChipStep, ChipNext, ClientStep, BodyStep

LEMMA ChipInitially ==
    ASSUME ChipInit
    PROVE  Inv
<1> USE ChipAssumption
<1>1. TypeOK /\ OwnedInv
  BY TypeInit, OwnedInit DEF ChipInit
<1>2. ~Pending /\ ~Calling
  BY OnceObjectInit DEF ChipInit, Pending
<1>3. OnceObject /\ CallInv
  BY <1>1, <1>2, OnceObjectInit DEF ChipInit, OnceObject, CallInv
<1>4. ChipType
  <2>1. mState \in States
    BY DEF ChipInit, States
  <2>2. mUpdateStart \in BOOLEAN /\ opened \in BOOLEAN /\ crossed \in BOOLEAN
    BY DEF ChipInit
  <2>3. 0 \in Files
    BY DEF Files
  <2>4. client \in ClientPc /\ body \in BodyPc
    BY DEF ChipInit, ClientPc, BodyPc
  <2> QED
    BY <2>1, <2>2, <2>3, <2>4 DEF ChipInit, ChipType
<1>5. DataInv
  BY <1>2, <1>4, ChipIs
     DEF ChipInit, DataInv, EarlyInv, LateInv, RunningInv, NameInv, TriedInv, Steady,
           Asking, Busy, Programming, ToTry
<1> QED
  BY <1>1, <1>2, <1>3, <1>4, <1>5 DEF Inv, LoopInv, ChipInit

(* The inductive invariant of the chips' upgrade.                          *)
THEOREM ChipInvariant == ChipSpec => []Inv
<1>1. ChipInit => Inv
  BY ChipInitially
<1>2. Inv /\ [ChipNext]_allVars => Inv'
  BY LoopInvStep, DataInvStep, ChipTypes DEF Inv, ChipStep
<1> QED
  BY <1>1, <1>2, PTL DEF ChipSpec

(* What is proved of XbhMWThread holds of the thread object of a chip, and *)
(* the chip is programmed by one body, once for a request.                 *)
THEOREM ChipUsesThread == ChipSpec => Spec
<1>1. ChipInit => Init
  BY DEF ChipInit
<1>2. [ChipNext]_allVars => [Next]_vars
  BY StepsOfThread, ThreadPartIsNext DEF ChipStep
<1> QED
  BY <1>1, <1>2, PTL DEF ChipSpec, Spec

THEOREM ChipBodiesTheorem == ChipSpec => [](OneBody /\ OnceRunsOnce)
<1>1. Inv => OneBody
  BY OneLive DEF Inv, LoopInv, OneBody, Live
<1> QED
  BY <1>1, ChipInvariant, ChipUsesThread, OnceTheorem, PTL

-----------------------------------------------------------------------------
(* ChipTypeOK for any set of chips and any number of requests.             *)
THEOREM ChipTypeCorrect == ChipSpec => []ChipTypeOK
<1>1. Inv => ChipTypeOK
  BY DEF Inv, LoopInv, OnceObject, ChipType, ChipTypeOK, ClientPc, BodyPc
<1> QED
  BY <1>1, ChipInvariant, PTL

LEMMA AtRestFacts ==
    ASSUME Inv, AtRest
    PROVE  client = "idle" /\ ~Calling /\ ~Busy /\ ~ToTry /\ ~Asking
<1>1. client = "idle" /\ Resting
  BY DEF AtRest
<1>2. ~Calling
  BY <1>1 DEF Inv, LoopInv, CallInv
<1>3. ~Busy /\ ~Pending /\ body = "start"
  BY <1>1, RestingFacts DEF Inv
<1> QED
  BY <1>1, <1>2, <1>3 DEF ToTry, Asking

(* The request taken on last is carried out, whatever run() replaces, with *)
(* no flag that stands for it.                                             *)
THEOREM LastIsTriedTheorem == ChipSpec => []LastIsTried
<1>1. Inv => LastIsTried
  BY AtRestFacts, ChipIs DEF Inv, DataInv, TriedInv, LastIsTried
<1> QED
  BY <1>1, ChipInvariant, PTL

(* Every way out of a request and of a body leaves RUNNING, but in the     *)
(* three cases that SoundRunning names.                                    *)
THEOREM SoundRunningTheorem == ChipSpec => []SoundRunning
<1>1. Inv => SoundRunning
  <2> SUFFICES ASSUME Inv, AtRest, mState = "RUNNING" PROVE SoundRunning
    BY DEF SoundRunning, RunningMeansUpdating
  <2>1. ~Busy /\ ~Asking /\ ~Programming
    BY AtRestFacts DEF Busy
  <2> QED
    BY <2>1, ChipIs DEF Inv, DataInv, RunningInv, SoundRunning
<1> QED
  BY <1>1, ChipInvariant, PTL

(* No call waits for a programming or reads the version across it that     *)
(* came after RUNNING was set, but with the Gsv2712 and, to read, the      *)
(* Hl817.                                                                  *)
THEOREM UndisturbedTheorem == ChipSpec => []Undisturbed
<1>1. Inv => Undisturbed
  <2> SUFFICES ASSUME Inv, InBody("flash"), chip # "Gsv2712", ~(chip \in LateRunning /\ crossed)
               PROVE  Undisturbed
    BY DEF Undisturbed, RefusedAtOnce, ReadAlone
  <2>1. Programming /\ Busy
    BY DEF InBody, Programming, Busy
  <2>2. CASE chip \in LateRunning
    <3>1. client = "idle" /\ ~Calling
      BY <2>1, <2>2 DEF Inv, LoopInv, CallInv, DataInv, LateInv
    <3> QED
      BY <3>1, RunnersAssumption DEF Calling, Undisturbed, RefusedAtOnce, ReadAlone
  <2>3. CASE chip \in EarlyRunning
    <3>1. ~Calling /\ (client = "read" => chip = "Hl817")
      BY <2>1, <2>3 DEF Inv, DataInv, EarlyInv, InBody
    <3> QED
      BY <3>1, RunnersAssumption DEF Calling, Undisturbed, RefusedAtOnce, ReadAlone
  <2> QED
    BY <2>2, <2>3, ChipIs DEF Inv
<1> QED
  BY <1>1, ChipInvariant, PTL
=============================================================================
