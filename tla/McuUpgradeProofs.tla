-------------------------- MODULE McuUpgradeProofs --------------------------
(***************************************************************************)
(* Theorems about McuUpgrade for any drivers, clients and number of        *)
(* requests: types, that the chip has one writer, that RUNNING is a state  *)
(* of the body only, and that no request of a patient client is lost.      *)
(***************************************************************************)
EXTENDS McuUpgrade, XbhMWThreadProofs

ClientPc == {"idle", "upgrade", "start", "run", "version"}
BodyPc == {"start", "lock", "check", "open", "flash", "settle", "version", "clear", "return"}

(* UpgradeTypeOK without what the thread object keeps by itself. *)
UpgradeType ==
    /\ driver \in Drivers /\ pace \in Paces
    /\ invokeLock \in Clients \union {"free"}
    /\ chipLock \in Clients \union {"body", "free"}
    /\ mState \in States
    /\ mUpgradeStatus \in BOOLEAN
    /\ mFileName \in Files /\ file \in Files /\ tried \in Files
    /\ requests \in Requests /\ accepted \in Requests /\ ends \in SUBSET Lengths
    /\ client \in [Clients -> [pc : ClientPc, file : Requests]]
    /\ body \in BodyPc

UpgradeStep == UpgradeNext \/ UNCHANGED allVars

(* What a step of the upgrade is for the thread object. *)
ThreadPart ==
    \/ \E c \in Clients : client[c].pc = "start" /\ client'[c].pc = "run" /\ Run(c, {"ONCE"})
    \/ \E c \in Clients : CallStep(c)
    \/ \E i \in Ids : LoopTest(i) \/ Task(i) \/ BodyReturn(i)
    \/ UNCHANGED vars

LEMMA ClientUpdate ==
    ASSUME UpgradeType, NEW c \in Clients, NEW pc \in ClientPc, NEW f \in Requests,
           client' = [client EXCEPT ![c].pc = pc, ![c].file = f]
    PROVE  /\ client' \in [Clients -> [pc : ClientPc, file : Requests]]
           /\ client'[c].pc = pc
           /\ \A d \in Clients \ {c} : client'[d] = client[d]
  BY DEF UpgradeType

LEMMA PlaceUpdate ==
    ASSUME UpgradeType, NEW c \in Clients, NEW pc \in ClientPc,
           client' = [client EXCEPT ![c].pc = pc]
    PROVE  /\ client' \in [Clients -> [pc : ClientPc, file : Requests]]
           /\ client'[c].pc = pc
           /\ \A d \in Clients \ {c} : client'[d] = client[d]
  BY DEF UpgradeType

LEMMA StepsOfThread ==
    ASSUME UpgradeType, UpgradeStep
    PROVE  ThreadPart
<1>1. ASSUME NEW c \in Clients, StartBody(c) PROVE ThreadPart
  <2>1. client'[c].pc = "run"
    BY <1>1, PlaceUpdate DEF StartBody, ClientPc
  <2> QED
    BY <1>1, <2>1 DEF StartBody, ThreadPart
<1>2. ASSUME NEW c \in Clients,
             \/ AskUpgrade(c) \/ AskVersion(c) \/ RejectName(c)
             \/ Refuse(c) \/ Accept(c) \/ UpgradeReturn(c) \/ Version(c)
      PROVE  UNCHANGED vars
  BY <1>2 DEF AskUpgrade, AskVersion, Enter, RejectName, Refuse, Accept, UpgradeReturn, Version
<1>3. CASE BodyStart \/ BodyLock \/ BodyCheck \/ BodyOpen \/ BodyFlash \/ BodySettle \/ BodyVersion \/ BodyClear
  BY <1>3 DEF BodyStart, BodyLock, BodyCheck, BodyOpen, BodyFlash, BodySettle, BodyVersion, BodyClear, BodyOnly, ThreadPart
<1>4. ASSUME NEW i \in Ids, BodyEnd(i) PROVE BodyReturn(i)
  BY <1>4 DEF BodyEnd
<1>5. ASSUME NEW i \in Ids, ThreadStep(i) PROVE LoopTest(i) \/ Task(i)
  BY <1>5 DEF ThreadStep
<1> QED
  BY <1>1, <1>2, <1>3, <1>4, <1>5 DEF UpgradeStep, UpgradeNext, ClientStep, BodyStep, ThreadPart, allVars

LEMMA ThreadPartIsNext ==
    ASSUME ThreadPart
    PROVE  [Next]_vars
<1>1. {"ONCE"} \in Flags
  BY DEF Flags
<1> QED
  BY <1>1, UpgradeAssumption, RunnersAssumption DEF ThreadPart, Next, LoopStep

LEMMA UpgradeTypes ==
    ASSUME UpgradeType, UpgradeStep
    PROVE  UpgradeType'
<1> USE UpgradeAssumption
<1>0. /\ 0 \in Files /\ 0 \in Requests /\ \A n \in Requests : n < MaxRequests => n + 1 \in Requests
      /\ \A n \in Requests : n \in Files /\ Tailed(n) \in Files
  BY DEF Files, Requests, Tailed
<1>1. CASE UNCHANGED upgradeVars
  BY <1>1 DEF upgradeVars, UpgradeType
<1>2. ASSUME NEW c \in Clients, AskUpgrade(c) \/ AskVersion(c) PROVE UpgradeType'
  <2>1. requests' \in Requests
    BY <1>0, <1>2 DEF AskUpgrade, AskVersion, UpgradeType
  <2>2. CASE AskUpgrade(c)
    <3>1. client' \in [Clients -> [pc : ClientPc, file : Requests]]
      BY <2>1, <2>2, ClientUpdate DEF AskUpgrade, Enter, ClientPc
    <3> QED
      BY <2>1, <2>2, <3>1 DEF AskUpgrade, Enter, UpgradeType
  <2>3. CASE AskVersion(c)
    <3>1. client' \in [Clients -> [pc : ClientPc, file : Requests]]
      BY <2>1, <2>3, ClientUpdate DEF AskVersion, Enter, ClientPc
    <3> QED
      BY <2>1, <2>3, <3>1 DEF AskVersion, Enter, UpgradeType
  <2> QED
    BY <1>2, <2>2, <2>3
<1>3. ASSUME NEW c \in Clients, Done(c) PROVE client' \in [Clients -> [pc : ClientPc, file : Requests]]
  BY <1>0, <1>3, ClientUpdate DEF Done, ClientPc
<1>4. ASSUME NEW c \in Clients, RejectName(c) \/ Refuse(c) \/ UpgradeReturn(c) \/ Version(c) PROVE UpgradeType'
  <2>1. Done(c) /\ mFileName' \in Files
    BY <1>0, <1>4 DEF RejectName, Refuse, UpgradeReturn, Version, UpgradeType
  <2>2. client' \in [Clients -> [pc : ClientPc, file : Requests]] /\ invokeLock' = "free"
    BY <1>3, <2>1 DEF Done
  <2> QED
    BY <1>4, <2>1, <2>2 DEF RejectName, Refuse, UpgradeReturn, Version, UpgradeType
<1>5. ASSUME NEW c \in Clients, Accept(c) PROVE UpgradeType'
  <2>1. client' \in [Clients -> [pc : ClientPc, file : Requests]]
    BY <1>5, PlaceUpdate DEF Accept, ClientPc
  <2>2. client[c].file \in Requests
    BY DEF UpgradeType
  <2>3. mFileName' \in Files /\ ends' \in SUBSET Lengths
    BY <1>0, <1>5, <2>2 DEF Accept, CopyName, UpgradeType
  <2> QED
    BY <1>5, <2>1, <2>2, <2>3 DEF Accept, UpgradeType
<1>6. ASSUME NEW c \in Clients, StartBody(c) PROVE UpgradeType'
  <2>1. client' \in [Clients -> [pc : ClientPc, file : Requests]]
    BY <1>6, PlaceUpdate DEF StartBody, ClientPc
  <2> QED
    BY <1>6, <2>1 DEF StartBody, UpgradeType
<1>7. CASE BodyStep
  <2>1. client' = client /\ driver' = driver /\ pace' = pace /\ invokeLock' = invokeLock
        /\ mFileName' = mFileName /\ ends' = ends /\ requests' = requests /\ accepted' = accepted
    BY <1>7 DEF BodyStep, BodyStart, BodyLock, BodyCheck, BodyOpen, BodyFlash, BodySettle, BodyVersion, BodyClear,
                BodyEnd, BodyOnly
  <2>2. chipLock' \in {chipLock, "body", "free"}
    BY <1>7 DEF BodyStep, BodyStart, BodyLock, BodyCheck, BodyOpen, BodyFlash, BodySettle, BodyVersion, BodyClear,
                BodyEnd, LockInBody
  <2>3. body' \in BodyPc
    BY <1>7 DEF BodyStep, BodyStart, BodyLock, BodyCheck, BodyOpen, BodyFlash, BodySettle, BodyVersion, BodyClear,
                BodyEnd, BodyPc
  <2>4. mState' \in States
    BY <1>7 DEF BodyStep, BodyStart, BodyLock, BodyCheck, BodyOpen, BodyFlash, BodySettle, BodyVersion, BodyClear,
                BodyEnd, UpgradeType, States
  <2>5. mUpgradeStatus' \in BOOLEAN
    BY <1>7 DEF BodyStep, BodyStart, BodyLock, BodyCheck, BodyOpen, BodyFlash, BodySettle, BodyVersion, BodyClear,
                BodyEnd, UpgradeType
  <2>6. file' \in Files /\ tried' \in Files
    BY <1>0, <1>7 DEF BodyStep, BodyStart, BodyLock, BodyCheck, BodyOpen, BodyFlash, BodySettle, BodyVersion, BodyClear,
                BodyEnd, UpgradeType
  <2> QED
    BY <2>1, <2>2, <2>3, <2>4, <2>5, <2>6 DEF UpgradeType
<1>8. ASSUME NEW i \in Ids, ThreadStep(i) PROVE UpgradeType'
  BY <1>1, <1>8 DEF ThreadStep
<1> QED
  BY <1>1, <1>2, <1>4, <1>5, <1>6, <1>7, <1>8 DEF UpgradeStep, UpgradeNext, ClientStep, allVars

-----------------------------------------------------------------------------
(* invoke() lets one client in at a time; that client alone can be inside  *)
(* of run(), and it holds the driver's mutex there.                        *)
ClientInv ==
    /\ \A c \in Clients : client[c].pc # "idle" <=> invokeLock = c
    /\ \A c \in Callers : stage[c] # "idle" => c \in Clients /\ client[c].pc = "run"
    /\ \A c \in Clients : chipLock = c <=> client[c].pc \in {"start", "run"}

(* The body has left its first line only while a pthread executes it; what *)
(* it holds of the mutex follows from the driver and the line.             *)
BodyInv ==
    /\ body # "start" => \E i \in Ids : loops[i] = "body"
    /\ driver = "Gd32f305rb" => (chipLock = "body" <=> body \in {"open", "flash"})
    /\ driver = "RkGd32f310g8" => (chipLock = "body" <=> body # "start")
    /\ driver \notin Locking => chipLock # "body" /\ body # "lock"
    /\ body = "check" => driver = "mtGd32f310g8"
    /\ accepted # 0 /\ mState = "RUNNING" => body \in {"open", "flash"}

Inv == TypeOK /\ UpgradeType /\ OwnedInv /\ ClientInv /\ BodyInv

LEMMA OneClient ==
    ASSUME ClientInv
    PROVE  Solo
  BY DEF ClientInv, Solo

LEMMA ThreadKept ==
    ASSUME Inv, UpgradeStep, ClientInv'
    PROVE  TypeOK' /\ OwnedInv'
<1>1. ThreadPart
  BY StepsOfThread DEF Inv
<1>2. [Next]_vars
  BY <1>1, ThreadPartIsNext
<1>3. Solo /\ Solo'
  BY OneClient DEF Inv, ClientInv, Solo
<1>4. OwnedNext
  <2>1. {"ONCE"} \in Flags
    BY DEF Flags
  <2> QED
    BY <1>1, <2>1, UpgradeAssumption, RunnersAssumption DEF ThreadPart, OwnedNext, LoopStep
<1>5. OwnedInv'
  BY <1>3, <1>4, OwnedStep DEF Inv
<1> QED
  BY <1>2, <1>5, TypeStep DEF Inv

(* A step that is not the body's leaves every body where it is.            *)
LEMMA BodiesKept ==
    ASSUME Inv, ThreadPart
    PROVE  \A i \in Ids : loops[i] = "body" /\ ~BodyReturn(i) => loops'[i] = "body"
<1> USE DEF Inv, TypeOK
<1>1. ASSUME NEW c \in Clients, Run(c, {"ONCE"}) PROVE \A i \in Ids : loops[i] = "body" => loops'[i] = "body"
  BY <1>1, SignalledFacts DEF Run, RequestExit
<1>2. ASSUME NEW c \in Clients, CallStep(c) PROVE \A i \in Ids : loops[i] = "body" => loops'[i] = "body"
  BY <1>2 DEF CallStep, JoinCall, JoinReturn, RunAfterJoin, Create
<1>3. ASSUME NEW j \in Ids, LoopTest(j) \/ Task(j) PROVE \A i \in Ids : loops[i] = "body" => loops'[i] = "body"
  BY <1>3 DEF LoopTest, Task
<1>4. ASSUME NEW j \in Ids, BodyReturn(j) PROVE \A i \in Ids : loops[i] = "body" /\ i # j => loops'[i] = "body"
  BY <1>4 DEF BodyReturn
<1>5. UNCHANGED vars => loops' = loops
  BY DEF vars
<1> QED
  BY <1>1, <1>2, <1>3, <1>4, <1>5 DEF ThreadPart

LEMMA ClientInvStep ==
    ASSUME Inv, UpgradeStep
    PROVE  ClientInv'
<1> USE UpgradeAssumption, RunnersAssumption
<1>0. UpgradeType /\ ClientInv /\ \A c \in Clients : c # "free" /\ c # "body"
  BY DEF Inv
<1>1. CASE UNCHANGED <<client, invokeLock, chipLock, stage>>
  BY <1>0, <1>1 DEF ClientInv
<1>2. ASSUME NEW c \in Clients, NEW pc \in {"upgrade", "version"}, requests' \in Requests, Enter(c, pc)
      PROVE  ClientInv'
  <2>1. client'[c].pc = pc /\ \A d \in Clients \ {c} : client'[d] = client[d]
    BY <1>0, <1>2, ClientUpdate DEF Enter, ClientPc
  <2>2. /\ client[c].pc = "idle" /\ invokeLock = "free" /\ invokeLock' = c
        /\ UNCHANGED <<stage, chipLock>>
    BY <1>2 DEF Enter, vars, apiVars
  <2> QED
    BY <1>0, <2>1, <2>2 DEF ClientInv
<1>3. ASSUME NEW c \in Clients, Done(c), client[c].pc # "idle", stage[c] = "idle", UNCHANGED stage,
             IF chipLock = c THEN chipLock' = "free" ELSE chipLock' = chipLock
      PROVE  ClientInv'
  <2>0. 0 \in Requests
    BY DEF Requests
  <2>1. client'[c].pc = "idle" /\ \A d \in Clients \ {c} : client'[d] = client[d]
    BY <1>0, <1>3, <2>0, ClientUpdate DEF Done, ClientPc
  <2>2. invokeLock = c /\ invokeLock' = "free"
    BY <1>0, <1>3 DEF Done, ClientInv
  <2> QED
    BY <1>0, <1>3, <2>1, <2>2 DEF ClientInv
<1>4. ASSUME NEW c \in Clients, RejectName(c) \/ Refuse(c) \/ Version(c) PROVE ClientInv'
  <2>1. client[c].pc \in {"upgrade", "version"} /\ Done(c) /\ UNCHANGED <<stage, chipLock>>
    BY <1>4 DEF RejectName, Refuse, Version, vars, apiVars
  <2>2. stage[c] = "idle" /\ chipLock # c
    BY <1>0, <2>1 DEF ClientInv
  <2>3. client[c].pc # "idle" /\ chipLock' = chipLock /\ UNCHANGED stage
    BY <2>1
  <2>4. Done(c)
    BY <2>1
  <2> QED
    BY <1>3, <2>2, <2>3, <2>4
<1>5. ASSUME NEW c \in Clients, UpgradeReturn(c) PROVE ClientInv'
  <2>1. client[c].pc = "run" /\ Done(c) /\ UNCHANGED stage /\ stage[c] = "idle" /\ chipLock' = "free"
    BY <1>5 DEF UpgradeReturn, vars, apiVars
  <2>2. chipLock = c
    BY <1>0, <2>1 DEF ClientInv
  <2> QED
    BY <1>3, <2>1, <2>2
<1>6. ASSUME NEW c \in Clients, Accept(c) PROVE ClientInv'
  <2>1. client'[c].pc = "start" /\ \A d \in Clients \ {c} : client'[d] = client[d]
    BY <1>0, <1>6, PlaceUpdate DEF Accept, ClientPc
  <2>2. /\ client[c].pc = "upgrade" /\ chipLock = "free" /\ chipLock' = c
        /\ UNCHANGED <<stage, invokeLock>>
    BY <1>6 DEF Accept, vars, apiVars
  <2> QED
    BY <1>0, <2>1, <2>2 DEF ClientInv
<1>7. ASSUME NEW c \in Clients, StartBody(c) PROVE ClientInv'
  <2>1. client'[c].pc = "run" /\ \A d \in Clients \ {c} : client'[d] = client[d]
    BY <1>0, <1>7, PlaceUpdate DEF StartBody, ClientPc
  <2>2. client[c].pc = "start" /\ UNCHANGED <<invokeLock, chipLock>>
    BY <1>7 DEF StartBody
  <2>3. \A d \in Callers : d # c => stage'[d] = stage[d]
    BY <1>7 DEF StartBody, Run, GoOn, Inv, TypeOK
  <2> QED
    BY <1>0, <2>1, <2>2, <2>3 DEF ClientInv
<1>8. ASSUME NEW c \in Clients, CallStep(c), UNCHANGED upgradeVars PROVE ClientInv'
  <2>1. stage[c] # "idle" /\ \A d \in Callers : d # c => stage'[d] = stage[d]
    BY <1>8 DEF CallStep, JoinCall, JoinReturn, RunAfterJoin, Create, GoOn, Leave, Inv, TypeOK
  <2>2. UNCHANGED <<client, invokeLock, chipLock>>
    BY <1>8 DEF upgradeVars
  <2> QED
    BY <1>0, <2>1, <2>2 DEF ClientInv
<1>9. CASE BodyStep
  <2>1. UNCHANGED <<client, invokeLock, stage>>
    BY <1>9 DEF BodyStep, BodyStart, BodyLock, BodyCheck, BodyOpen, BodyFlash, BodySettle, BodyVersion, BodyClear,
                BodyEnd, BodyReturn, BodyOnly, vars, apiVars
  <2>2. chipLock' = chipLock \/ {chipLock, chipLock'} \subseteq {"body", "free"}
    BY <1>9 DEF BodyStep, BodyStart, BodyLock, BodyCheck, BodyOpen, BodyFlash, BodySettle, BodyVersion, BodyClear,
                BodyEnd, LockInBody, InBody, Inv, BodyInv
  <2> QED
    BY <1>0, <2>1, <2>2 DEF ClientInv
<1>10. ASSUME NEW i \in Ids, ThreadStep(i) PROVE ClientInv'
  BY <1>1, <1>10 DEF ThreadStep, LoopTest, Task, upgradeVars, apiVars
<1>11. ASSUME NEW c \in Clients, AskUpgrade(c) \/ AskVersion(c) PROVE ClientInv'
  <2>1. requests' \in Requests
    BY <1>0, <1>11 DEF AskUpgrade, AskVersion, UpgradeType, Requests
  <2> QED
    BY <1>2, <1>11, <2>1 DEF AskUpgrade, AskVersion
<1> QED
  BY <1>1, <1>4, <1>5, <1>6, <1>7, <1>8, <1>9, <1>10, <1>11
     DEF UpgradeStep, UpgradeNext, ClientStep, allVars, vars, apiVars, upgradeVars

LEMMA BodyInvStep ==
    ASSUME Inv, UpgradeStep
    PROVE  BodyInv'
<1> USE UpgradeAssumption
<1>0. /\ UpgradeType /\ BodyInv /\ ClientInv /\ \A c \in Clients : c # "free" /\ c # "body"
      /\ driver \in Locking => driver = "Gd32f305rb" \/ driver = "RkGd32f310g8"
      /\ "Gd32f305rb" \in Locking /\ "RkGd32f310g8" \in Locking
  BY DEF Inv, Locking
\* Clients and loop.
<1>1. ASSUME ThreadPart, UNCHANGED <<body, driver>>, \A i \in Ids : ~BodyReturn(i),
             chipLock' = chipLock \/ {chipLock, chipLock'} \intersect {"body"} = {},
             accepted' # 0 /\ mState' = "RUNNING" => accepted # 0 /\ mState = "RUNNING"
      PROVE  BodyInv'
  BY <1>0, <1>1, BodiesKept DEF BodyInv
<1>2. ASSUME UNCHANGED vars PROVE ThreadPart /\ \A i \in Ids : ~BodyReturn(i)
  BY <1>2 DEF ThreadPart, vars, BodyReturn, Inv, TypeOK
<1>3. ASSUME NEW c \in Clients, AskUpgrade(c) \/ AskVersion(c) \/ RejectName(c) \/ Refuse(c) \/ Version(c)
      PROVE  BodyInv'
  <2>1. UNCHANGED <<vars, body, driver, chipLock, mState, accepted>>
    BY <1>3 DEF AskUpgrade, AskVersion, Enter, RejectName, Refuse, Version
  <2>2. vars' = vars
    BY <2>1
  <2> QED
    BY <1>1, <1>2, <2>1, <2>2
<1>4. ASSUME NEW c \in Clients, Accept(c) \/ UpgradeReturn(c) PROVE BodyInv'
  <2>1. vars' = vars /\ UNCHANGED <<body, driver, mState>>
    BY <1>4 DEF Accept, UpgradeReturn
  <2>2. {chipLock, chipLock'} \intersect {"body"} = {}
    BY <1>0, <1>4 DEF Accept, UpgradeReturn, ClientInv
  <2>3. accepted' # 0 /\ mState' = "RUNNING" => accepted # 0 /\ mState = "RUNNING"
    BY <1>4 DEF Accept, UpgradeReturn
  <2> QED
    BY <1>1, <1>2, <2>1, <2>2, <2>3
<1>5. ASSUME NEW c \in Clients, StartBody(c) \/ (CallStep(c) /\ UNCHANGED upgradeVars) PROVE BodyInv'
  <2>1. ThreadPart
    BY <1>5, StepsOfThread, <1>0 DEF UpgradeStep, UpgradeNext, ClientStep
  <2>2. UNCHANGED <<body, driver, chipLock, mState, accepted>>
    BY <1>5 DEF StartBody, upgradeVars
  <2>3. \A i \in Ids : loops[i] = "body" => loops'[i] = "body"
    BY <1>5, SignalledFacts
       DEF StartBody, Run, RequestExit, CallStep, JoinCall, JoinReturn, RunAfterJoin, Create, Inv, TypeOK
  <2>4. \A i \in Ids : ~BodyReturn(i)
    BY <2>3 DEF BodyReturn, Inv, TypeOK
  <2> QED
    BY <1>1, <2>1, <2>2, <2>4
<1>6. ASSUME NEW i \in Ids, ThreadStep(i) PROVE BodyInv'
  <2>1. UNCHANGED <<body, driver, chipLock, mState, accepted>>
    BY <1>6 DEF ThreadStep, upgradeVars
  <2>2. \A j \in Ids : loops[j] = "body" => loops'[j] = "body"
    BY <1>6 DEF ThreadStep, LoopTest, Task, Inv, TypeOK
  <2>3. \A j \in Ids : ~BodyReturn(j)
    BY <2>2 DEF BodyReturn, Inv, TypeOK
  <2>4. ThreadPart
    BY <1>6 DEF ThreadStep, ThreadPart
  <2> QED
    BY <1>1, <2>1, <2>3, <2>4
\* The body.
<1>7. CASE BodyStart \/ BodyLock \/ BodyCheck \/ BodyOpen \/ BodyFlash \/ BodySettle \/ BodyVersion \/ BodyClear
  <2>1. loops' = loops /\ driver' = driver /\ accepted' = accepted /\ \E i \in Ids : loops[i] = "body"
    BY <1>7 DEF BodyStart, BodyLock, BodyCheck, BodyOpen, BodyFlash, BodySettle, BodyVersion, BodyClear, BodyOnly, vars,
                InBody
  <2>2. driver = "Gd32f305rb" => (chipLock' = "body" <=> body' \in {"open", "flash"})
    BY <1>0, <1>7 DEF BodyStart, BodyLock, BodyCheck, BodyOpen, BodyFlash, BodySettle, BodyVersion, BodyClear, InBody,
                      LockInBody, BodyInv
  <2>3. driver = "RkGd32f310g8" => (chipLock' = "body" <=> body' # "start")
    BY <1>0, <1>7 DEF BodyStart, BodyLock, BodyCheck, BodyOpen, BodyFlash, BodySettle, BodyVersion, BodyClear, InBody,
                      LockInBody, BodyInv
  <2>4. driver \notin Locking => chipLock' # "body" /\ body' # "lock"
    BY <1>0, <1>7 DEF BodyStart, BodyLock, BodyCheck, BodyOpen, BodyFlash, BodySettle, BodyVersion, BodyClear, InBody,
                      LockInBody, BodyInv
  <2>5. accepted # 0 /\ mState' = "RUNNING" => body' \in {"open", "flash"}
    BY <1>0, <1>7 DEF BodyStart, BodyLock, BodyCheck, BodyOpen, BodyFlash, BodySettle, BodyVersion, BodyClear, InBody,
                      BodyInv
  <2>6. body' = "check" => driver = "mtGd32f310g8"
    BY <1>7 DEF BodyStart, BodyLock, BodyCheck, BodyOpen, BodyFlash, BodySettle, BodyVersion, BodyClear
  <2> QED
    BY <2>1, <2>2, <2>3, <2>4, <2>5, <2>6 DEF BodyInv
<1>8. ASSUME NEW i \in Ids, BodyEnd(i) PROVE BodyInv'
  BY <1>0, <1>8 DEF BodyEnd, BodyInv
<1>9. CASE UNCHANGED allVars
  <2>1. vars' = vars /\ UNCHANGED <<body, driver, chipLock, mState, accepted>>
    BY <1>9 DEF allVars, upgradeVars
  <2> QED
    BY <1>1, <1>2, <2>1
<1> QED
  <2>1. ASSUME NEW c \in Clients, ClientStep(c) PROVE BodyInv'
    BY <1>3, <1>4, <1>5, <2>1 DEF ClientStep
  <2>2. CASE BodyStep
    BY <1>7, <1>8, <2>2 DEF BodyStep
  <2>3. CASE \E c \in Clients : AskUpgrade(c) \/ AskVersion(c) \/ RejectName(c) \/ ClientStep(c)
    BY <1>3, <2>1, <2>3
  <2>4. CASE \E i \in Ids : ThreadStep(i)
    BY <1>6, <2>4
  <2> QED
    BY <1>9, <2>2, <2>3, <2>4 DEF UpgradeStep, UpgradeNext

-----------------------------------------------------------------------------
LEMMA UpgradeInitially ==
    ASSUME UpgradeInit
    PROVE  Inv
<1> USE UpgradeAssumption
<1>1. TypeOK /\ OwnedInv
  BY TypeInit, OwnedInit DEF UpgradeInit
<1>2. UpgradeType
  <2>1. client \in [Clients -> [pc : ClientPc, file : Requests]]
    BY DEF UpgradeInit, ClientPc, Requests
  <2>2. 0 \in Files /\ 0 \in Requests /\ ends \in SUBSET Lengths
    BY DEF UpgradeInit, Files, Requests
  <2>3. mUpgradeStatus \in BOOLEAN
    BY DEF UpgradeInit
  <2> QED
    BY <2>1, <2>2, <2>3 DEF UpgradeInit, UpgradeType, BodyPc
<1>3. ClientInv
  BY DEF UpgradeInit, Init, ClientInv
<1>4. BodyInv
  BY DEF UpgradeInit, BodyInv
<1> QED
  BY <1>1, <1>2, <1>3, <1>4 DEF Inv

LEMMA InvStep ==
    ASSUME Inv, [UpgradeNext]_allVars
    PROVE  Inv'
<1>1. UpgradeStep
  BY DEF UpgradeStep
<1>2. UpgradeType' /\ ClientInv' /\ BodyInv'
  BY <1>1, UpgradeTypes, ClientInvStep, BodyInvStep DEF Inv
<1> QED
  BY <1>1, <1>2, ThreadKept DEF Inv

(* The inductive invariant of the upgrade.                                 *)
THEOREM UpgradeInvariant == UpgradeSpec => []Inv
<1>1. UpgradeInit => Inv
  BY UpgradeInitially
<1>2. Inv /\ [UpgradeNext]_allVars => Inv'
  BY InvStep
<1> QED
  BY <1>1, <1>2, PTL DEF UpgradeSpec

(* What is proved of XbhMWThread holds of the thread object of a driver:   *)
(* the upgrade only does to it what its interface allows.                  *)
THEOREM UpgradeUsesThread == UpgradeSpec => Spec
<1>1. UpgradeInit => Init
  BY DEF UpgradeInit
<1>2. Inv /\ [UpgradeNext]_allVars => [Next]_vars
  BY StepsOfThread, ThreadPartIsNext DEF Inv, UpgradeStep
<1> QED
  BY <1>1, <1>2, UpgradeInvariant, PTL DEF UpgradeSpec, Spec

(* The body runs at most once for a request, whichever waits and signals   *)
(* are between.                                                            *)
THEOREM UpgradeOnceTheorem == UpgradeSpec => []OnceRunsOnce
  BY UpgradeUsesThread, OnceTheorem, PTL

(* UpgradeTypeOK for any set of clients and any number of requests.        *)
THEOREM UpgradeTypeCorrect == UpgradeSpec => []UpgradeTypeOK
<1>1. Inv => UpgradeTypeOK
  BY DEF Inv, UpgradeType, UpgradeTypeOK, ClientPc, BodyPc
<1> QED
  BY <1>1, UpgradeInvariant, PTL

(* RUNNING, which makes the driver refuse requests, is shown only while    *)
(* the body has the file open or is about to open it.                      *)
THEOREM RunningOnlyInBodyTheorem == UpgradeSpec => []RunningOnlyInBody
<1>1. Inv => RunningOnlyInBody
  BY DEF Inv, BodyInv, RunningOnlyInBody, InBody
<1> QED
  BY <1>1, UpgradeInvariant, PTL

(* One body programs the chip at a time, under the mutex of a driver that  *)
(* has one for it: the clients' calls of run() exclude each other through  *)
(* invoke() alone.                                                         *)
THEOREM OneWriterTheorem == UpgradeSpec => []OneWriter
<1>1. Inv => OneWriter
  <2>1. OwnedInv => OneBody
    BY DEF OwnedInv, OneBody, Live
  <2> QED
    BY <2>1, UpgradeAssumption DEF Inv, BodyInv, UpgradeType, OneWriter, InBody, Locking
<1> QED
  BY <1>1, UpgradeInvariant, PTL
-----------------------------------------------------------------------------
(* The way of a request from its client to the body. *)
Starting == \E c \in Clients : client[c].pc = "start"
Entered == \E c \in Clients : client[c].pc \in {"upgrade", "start"}

(* A body is to go for the file named: if it finds the flag set. *)
ToTry == Ready \/ (Inside /\ body = "start") \/ body \in {"lock", "check", "open"}

(* A patient client meets no body: neither on its way to run(), nor while  *)
(* run() replaces the pthread.                                             *)
PatienceInv ==
    pace = "rested" =>
        /\ Entered => Resting
        /\ Calling => ~Inside /\ ~Ready

(* The flag stands from the request until a body has gone for its file.    *)
RequestInv ==
    pace = "rested" \/ driver = "RkGd32f310g8" =>
        /\ Starting \/ Calling => mUpgradeStatus
        /\ \/ tried = mFileName \/ mFileName = 0
           \/ Starting \/ Calling
           \/ ToTry /\ mUpgradeStatus

(* The name is that of the last request, as the buffer has taken it.       *)
NameInv ==
    /\ mFileName \in Meant(accepted) \union {0}
    /\ driver # "mtGd32f310g8" => ends = Lengths

WayInv ==
    /\ OnceCalls /\ OnceLoop
    /\ NameInv /\ PatienceInv /\ RequestInv

LEMMA ThreadObject ==
    ASSUME Inv, OnceCalls, OnceLoop
    PROVE  OnceObject
  BY OneClient DEF Inv, OnceObject

LEMMA OnceKept ==
    ASSUME Inv, Inv', WayInv, UpgradeStep
    PROVE  OnceCalls' /\ OnceLoop'
<1> USE UpgradeAssumption, RunnersAssumption
<1>1. ThreadPart
  BY StepsOfThread DEF Inv
<1>2. OnceObject /\ Solo'
  BY ThreadObject DEF WayInv, Inv, ClientInv, Solo
<1>3. ASSUME NEW c \in Clients, Run(c, {"ONCE"}) PROVE OnceCalls' /\ OnceLoop'
  BY <1>2, <1>3, RunFacts
<1>4. ASSUME NEW c \in Clients, CallStep(c) PROVE OnceCalls' /\ OnceLoop'
  BY <1>2, <1>4, CallFacts
<1>5. ASSUME NEW i \in Ids, LoopTest(i) \/ Task(i) \/ BodyReturn(i) PROVE OnceCalls' /\ OnceLoop'
  BY <1>2, <1>5, LoopFacts, ReturnFacts
<1> QED
  BY <1>1, <1>2, <1>3, <1>4, <1>5, SameThread DEF ThreadPart

(* With a client inside of upgradeFirmware nobody else is in invoke().     *)
LEMMA Alone ==
    ASSUME Inv, NEW c \in Clients, client[c].pc # "idle"
    PROVE  /\ \A d \in Clients \ {c} : client[d].pc = "idle"
           /\ Calling => client[c].pc = "run"
           /\ Starting => client[c].pc = "start"
           /\ Entered => client[c].pc \in {"upgrade", "start"}
<1>1. \A d \in Clients \ {c} : client[d].pc = "idle"
  BY UpgradeAssumption DEF Inv, ClientInv
<1> QED
  BY <1>1 DEF Inv, ClientInv, Calling, Starting, Entered

(* Steps of a client outside of run(): they come to no body.               *)
LEMMA QuietWay ==
    ASSUME Inv, WayInv, NEW c \in Clients,
           \/ AskUpgrade(c) \/ AskVersion(c) \/ RejectName(c) \/ Refuse(c)
           \/ Accept(c) \/ UpgradeReturn(c) \/ Version(c)
    PROVE  NameInv' /\ PatienceInv' /\ RequestInv'
<1> USE UpgradeAssumption DEF WayInv
<1>0. OnceObject /\ UpgradeType /\ 0 \in Requests
  BY ThreadObject DEF Inv, Requests
<1>1. vars' = vars /\ UNCHANGED <<driver, pace, body, tried>>
  BY DEF AskUpgrade, AskVersion, Enter, RejectName, Refuse, Accept, UpgradeReturn, Version
<1>2. /\ (Inside' <=> Inside) /\ (Ready' <=> Ready) /\ (Calling' <=> Calling) /\ (Resting' <=> Resting)
      /\ mUpgradeStatus' = mUpgradeStatus => (ToTry' /\ mUpgradeStatus' <=> ToTry /\ mUpgradeStatus)
  <2>1. Resting' <=> Resting
    BY <1>1 DEF vars, Resting
  <2>2. (Inside' <=> Inside) /\ (Ready' <=> Ready) /\ (Calling' <=> Calling)
    BY <1>0, <1>1, SameThread
  <2> QED
    BY <1>1, <2>1, <2>2 DEF ToTry
<1>3. CASE AskUpgrade(c) \/ AskVersion(c)
  <2>1. requests' \in Requests
    BY <1>0, <1>3 DEF AskUpgrade, AskVersion, UpgradeType, Requests
  <2>2. PICK pc \in {"upgrade", "version"} : Enter(c, pc) /\ (pc = "upgrade" /\ pace = "rested" => Resting)
    BY <1>3 DEF AskUpgrade, AskVersion
  <2>3. client'[c].pc = pc /\ \A d \in Clients \ {c} : client'[d] = client[d]
    BY <1>0, <2>1, <2>2, ClientUpdate DEF Enter, ClientPc
  <2>4. /\ UNCHANGED <<mFileName, ends, accepted, mUpgradeStatus>>
        /\ \A d \in Clients : client[d].pc = "idle"
    BY <2>2 DEF Enter, Inv, ClientInv
  <2>5. ~Starting' /\ ~Starting /\ (Entered' => pc = "upgrade")
    BY <2>2, <2>3, <2>4 DEF Starting, Entered
  <2> QED
    BY <1>1, <1>2, <2>2, <2>4, <2>5 DEF NameInv, Meant, PatienceInv, RequestInv
<1>4. CASE RejectName(c) \/ Refuse(c) \/ UpgradeReturn(c) \/ Version(c)
  <2>1. Done(c) /\ client[c].pc \in {"upgrade", "run", "version"}
    BY <1>4 DEF RejectName, Refuse, UpgradeReturn, Version
  <2>2. client'[c].pc = "idle" /\ \A d \in Clients \ {c} : client'[d] = client[d]
    BY <1>0, <2>1, ClientUpdate DEF Done, ClientPc
  <2>3. /\ UNCHANGED <<accepted, ends, mUpgradeStatus>>
        /\ mFileName' \in {mFileName, 0}
    BY <1>4 DEF RejectName, Refuse, UpgradeReturn, Version
  <2>4. ~Starting' /\ ~Starting /\ ~Entered'
    BY <2>1, <2>2, Alone DEF Starting, Entered
  <2> QED
    BY <1>1, <1>2, <2>3, <2>4 DEF NameInv, Meant, PatienceInv, RequestInv
<1>5. CASE Accept(c)
  <2>1. client'[c].pc = "start" /\ client[c].pc = "upgrade"
    BY <1>0, <1>5, PlaceUpdate DEF Accept, ClientPc
  <2>2. mUpgradeStatus'
    BY <1>5 DEF Accept
  <2>5. NameInv'
    BY <1>1, <1>5 DEF Accept, CopyName, NameInv, Meant
  <2>3. Starting' /\ Entered
    BY <2>1 DEF Starting, Entered
  <2>4. ~Calling
    BY <2>1, Alone
  <2> QED
    BY <1>1, <1>2, <2>2, <2>3, <2>4, <2>5 DEF NameInv, Meant, PatienceInv, RequestInv
<1> QED
  BY <1>3, <1>4, <1>5

LEMMA StartWay ==
    ASSUME Inv, Inv', WayInv, NEW c \in Clients, StartBody(c)
    PROVE  NameInv' /\ PatienceInv' /\ RequestInv'
<1> USE UpgradeAssumption, RunnersAssumption DEF WayInv
<1>0. OnceObject /\ UpgradeType /\ Solo'
  BY ThreadObject DEF Inv, ClientInv, Solo
<1>1. /\ client[c].pc = "start" /\ Run(c, {"ONCE"})
      /\ UNCHANGED <<driver, pace, mUpgradeStatus, mFileName, ends, body, accepted, tried>>
  BY DEF StartBody
<1>2. client'[c].pc = "run" /\ \A d \in Clients \ {c} : client'[d] = client[d]
  BY <1>0, PlaceUpdate DEF StartBody, ClientPc
<1>3. Starting /\ Entered /\ ~Starting' /\ ~Entered'
  BY <1>1, <1>2, Alone DEF Starting, Entered
<1>4. Calling' /\ (Inside' <=> Inside) /\ ~Ready'
  BY <1>0, <1>1, RunFacts
<1>5. pace = "rested" => ~Inside
  BY <1>0, <1>3, ParkedFacts DEF PatienceInv, Resting
<1> QED
  BY <1>1, <1>3, <1>4, <1>5 DEF NameInv, Meant, PatienceInv, RequestInv

LEMMA CallWay ==
    ASSUME Inv, WayInv, NEW c \in Clients, CallStep(c), UNCHANGED upgradeVars
    PROVE  NameInv' /\ PatienceInv' /\ RequestInv'
<1> USE UpgradeAssumption, RunnersAssumption DEF WayInv
<1>0. OnceObject
  BY ThreadObject
<1>1. UNCHANGED <<driver, pace, mUpgradeStatus, mFileName, ends, client, body, accepted, tried>>
  BY DEF upgradeVars
<1>2. /\ Calling /\ (Inside' <=> Inside)
      /\ \/ Calling' /\ (Ready' => Ready)
         \/ ~Calling' /\ Ready' /\ ~Inside
  BY <1>0, CallFacts
<1>3. client[c].pc = "run"
  BY DEF CallStep, JoinCall, JoinReturn, RunAfterJoin, Create, Inv, ClientInv
<1>4. ~Starting /\ ~Entered /\ ~Starting' /\ ~Entered'
  BY <1>1, <1>3, Alone DEF Starting, Entered
<1> QED
  BY <1>1, <1>2, <1>4 DEF NameInv, Meant, PatienceInv, RequestInv, ToTry

LEMMA ThreadWay ==
    ASSUME Inv, WayInv, NEW i \in Ids, ThreadStep(i)
    PROVE  NameInv' /\ PatienceInv' /\ RequestInv'
<1> USE DEF WayInv
<1>0. OnceObject
  BY ThreadObject
<1>1. UNCHANGED <<driver, pace, mUpgradeStatus, mFileName, ends, client, body, accepted, tried>>
  BY DEF ThreadStep, upgradeVars
<1>2. (Calling' <=> Calling) /\ ~Inside /\ (Ready <=> Ready' \/ Inside')
  BY <1>0, LoopFacts DEF ThreadStep
<1>3. body = "start" /\ (Starting' <=> Starting) /\ (Entered' <=> Entered)
  BY <1>1, <1>2 DEF Inv, BodyInv, Inside, Starting, Entered
<1>4. ~Resting
  BY DEF ThreadStep, LoopTest, Task, Resting
<1> QED
  BY <1>1, <1>2, <1>3, <1>4 DEF NameInv, Meant, PatienceInv, RequestInv, ToTry

(* The body. *)
LEMMA BodyWay ==
    ASSUME Inv, WayInv,
           BodyStart \/ BodyLock \/ BodyCheck \/ BodyOpen \/ BodyFlash \/ BodySettle \/ BodyVersion \/ BodyClear
    PROVE  NameInv' /\ PatienceInv' /\ RequestInv'
<1> USE DEF WayInv
<1>0. OnceObject
  BY ThreadObject
<1>1. /\ vars' = vars /\ Inside
      /\ UNCHANGED <<driver, pace, mFileName, ends, client, accepted>>
  BY DEF BodyStart, BodyLock, BodyCheck, BodyOpen, BodyFlash, BodySettle, BodyVersion, BodyClear, BodyOnly, InBody,
         Inside
<1>2. /\ Inside' /\ ~Ready /\ ~Ready' /\ (Calling' <=> Calling) /\ (Starting' <=> Starting)
      /\ (Entered' <=> Entered) /\ ~Resting
  BY <1>0, <1>1, SameThread, InsideNotReady DEF Starting, Entered, Resting, Inside
<1>3. PatienceInv'
  BY <1>1, <1>2 DEF PatienceInv
<1>4. CASE BodyStart \/ BodyLock
  <2>1. /\ UNCHANGED <<mUpgradeStatus, tried>> /\ body \in {"start", "lock"}
        /\ mUpgradeStatus => body' \in {"lock", "check", "open"}
    BY <1>4 DEF BodyStart, BodyLock, InBody
  <2> QED
    BY <1>1, <1>2, <1>3, <2>1 DEF NameInv, Meant, RequestInv, ToTry
<1>5. CASE BodyCheck \/ BodyOpen
  <2>1. UNCHANGED mUpgradeStatus /\ tried' = mFileName
    BY <1>5 DEF BodyCheck, BodyOpen
  <2> QED
    BY <1>1, <1>2, <1>3, <2>1 DEF NameInv, Meant, RequestInv
<1>6. CASE BodyFlash \/ BodySettle \/ BodyVersion
  <2>1. /\ UNCHANGED <<mUpgradeStatus, tried>>
        /\ body \in {"flash", "settle", "version"}
    BY <1>6 DEF BodyFlash, BodySettle, BodyVersion, InBody
  <2> QED
    BY <1>1, <1>2, <1>3, <2>1 DEF NameInv, Meant, RequestInv, ToTry
<1>7. CASE BodyClear
  <2>1. UNCHANGED tried /\ body = "clear"
    BY <1>7 DEF BodyClear, InBody
  <2>2. pace = "rested" => ~Starting /\ ~Calling
    BY <1>1, <1>2 DEF PatienceInv, Starting, Entered
  <2>3. driver = "RkGd32f310g8" => ~Starting /\ ~Calling
    BY <2>1, UpgradeAssumption DEF Inv, ClientInv, BodyInv, Starting, Calling
  <2> QED
    BY <1>1, <1>2, <1>3, <2>1, <2>2, <2>3 DEF NameInv, Meant, RequestInv, ToTry
<1> QED
  BY <1>4, <1>5, <1>6, <1>7

LEMMA BodyEndWay ==
    ASSUME Inv, WayInv, NEW i \in Ids, BodyEnd(i)
    PROVE  NameInv' /\ PatienceInv' /\ RequestInv'
<1> USE DEF WayInv
<1>0. OnceObject
  BY ThreadObject
<1>1. /\ UNCHANGED <<driver, pace, mUpgradeStatus, mFileName, ends, client, accepted, tried>>
      /\ body = "return" /\ BodyReturn(i)
  BY DEF BodyEnd
<1>2. (Calling' <=> Calling) /\ Inside /\ ~Ready /\ ~Ready' /\ ~Inside'
  BY <1>0, <1>1, ReturnFacts
<1>3. (Starting' <=> Starting) /\ (Entered' <=> Entered) /\ ~Resting
  BY <1>1, <1>2 DEF Starting, Entered, Resting, Inside
<1> QED
  BY <1>1, <1>2, <1>3 DEF NameInv, Meant, PatienceInv, RequestInv, ToTry

LEMMA WayInvStep ==
    ASSUME Inv, Inv', WayInv, UpgradeStep
    PROVE  WayInv'
<1>1. OnceCalls' /\ OnceLoop'
  BY OnceKept
<1>2. CASE UNCHANGED allVars
  <2>1. vars' = vars /\ UNCHANGED <<driver, pace, mUpgradeStatus, mFileName, ends, client, body, accepted, tried>>
    BY <1>2 DEF allVars, upgradeVars
  <2>2. (Inside' <=> Inside) /\ (Ready' <=> Ready) /\ (Calling' <=> Calling)
    BY <2>1, SameThread, ThreadObject DEF WayInv
  <2>3. (Starting' <=> Starting) /\ (Entered' <=> Entered) /\ (Resting' <=> Resting)
    BY <2>1 DEF Starting, Entered, Resting, vars
  <2> QED
    BY <1>1, <2>1, <2>2, <2>3 DEF WayInv, NameInv, Meant, PatienceInv, RequestInv, ToTry
<1>3. NameInv' /\ PatienceInv' /\ RequestInv' => WayInv'
  BY <1>1 DEF WayInv
<1> QED
  BY <1>2, <1>3, QuietWay, StartWay, CallWay, ThreadWay, BodyWay, BodyEndWay
     DEF UpgradeStep, UpgradeNext, ClientStep, BodyStep

(* Where the flag and the file of a request are on their way to the body.  *)
THEOREM WayInvariant == UpgradeSpec => []WayInv
<1>1. UpgradeInit => WayInv
  <2> SUFFICES ASSUME UpgradeInit PROVE WayInv
    OBVIOUS
  <2>1. OnceCalls /\ OnceLoop /\ ~Calling
    BY OnceObjectInit DEF UpgradeInit
  <2>2. ~Starting /\ ~Entered
    BY DEF UpgradeInit, Starting, Entered
  <2> QED
    BY <2>1, <2>2 DEF UpgradeInit, WayInv, NameInv, Meant, PatienceInv, RequestInv
<1>2. Inv /\ Inv' /\ WayInv /\ [UpgradeNext]_allVars => WayInv'
  BY WayInvStep DEF UpgradeStep
<1> QED
  BY <1>1, <1>2, UpgradeInvariant, PTL DEF UpgradeSpec

(* No request of a patient client is lost, and none at all by the driver   *)
(* that keeps its lock until the flag is cleared; what the mt makes of the *)
(* name is in Meant.                                                       *)
THEOREM PatientNotLostTheorem == UpgradeSpec => []PatientNotLost
<1>1. Inv /\ WayInv => PatientNotLost
  <2> SUFFICES ASSUME Inv, WayInv, AtRest, pace = "rested" \/ driver = "RkGd32f310g8"
               PROVE  tried \in Meant(accepted) \/ mFileName = 0
    BY DEF PatientNotLost, NoRequestLost
  <2>1. ~Inside /\ ~Ready
    BY ThreadObject, ParkedFacts DEF AtRest, Resting, WayInv
  <2>2. body = "start"
    BY <2>1 DEF Inv, BodyInv, Inside
  <2>3. ~Starting /\ ~Calling
    BY DEF AtRest, Starting, Calling, Inv, ClientInv
  <2> QED
    BY <2>1, <2>2, <2>3 DEF WayInv, NameInv, RequestInv, ToTry
<1> QED
  BY <1>1, UpgradeInvariant, WayInvariant, PTL

(* What UpgradeRetry.cfg shows of an impatient client cannot happen to a   *)
(* patient one: that run() joins, with mLock held, a body that needs mLock *)
(* to go on (Gd32f305rb.cpp:394-398).  It is what PatientAnswered says     *)
(* beyond that the steps which can be taken are taken.                     *)
NeedsLock ==
    \/ driver = "Gd32f305rb" /\ body \in {"lock", "version"}
    \/ driver = "RkGd32f310g8" /\ body = "start"

NoEmbrace ==
    pace = "rested" =>
        \A c \in Clients : chipLock = c /\ stage[c] # "idle" => ~(Inside /\ NeedsLock)

THEOREM NoEmbraceTheorem == UpgradeSpec => []NoEmbrace
<1>1. WayInv => NoEmbrace
  <2> SUFFICES ASSUME WayInv, pace = "rested", NEW c \in Clients, stage[c] # "idle" PROVE ~Inside
    BY DEF NoEmbrace
  <2>1. c \in Callers
    BY UpgradeAssumption, RunnersAssumption
  <2>2. Calling
    BY <2>1 DEF Calling
  <2> QED
    BY <2>2 DEF WayInv, NameInv, Meant, PatienceInv
<1> QED
  BY <1>1, WayInvariant, PTL
=============================================================================
