------------------------- MODULE XbhMWThreadProofs -------------------------
(***************************************************************************)
(* Theorems about XbhMWThread for any set of callers and any number of     *)
(* restarts.                                                               *)
(***************************************************************************)
EXTENDS XbhMWThread, TLAPS

(* A signal moves waiting pthreads out of the wait and touches no other. *)
LEMMA SignalledFacts ==
    ASSUME loops \in [Ids -> LoopPc], NEW p \in Signalled(loops)
    PROVE  /\ p \in [Ids -> LoopPc]
           /\ \A i \in Ids : p[i] = loops[i] \/ (loops[i] = "cond" /\ p[i] = "task")
<1>1. CASE {i \in Ids : loops[i] = "cond"} = {}
  BY <1>1 DEF Signalled
<1>2. CASE {i \in Ids : loops[i] = "cond"} # {}
  <2>1. PICK k \in Ids : loops[k] = "cond" /\ p = [loops EXCEPT ![k] = "task"]
    BY <1>2 DEF Signalled
  <2> QED
    BY <2>1 DEF LoopPc
<1> QED
  BY <1>1, <1>2

LEMMA TypeInit ==
    ASSUME Init
    PROVE  TypeOK
<1>1. mStat \in Stats /\ destroyed \in BOOLEAN
  BY DEF Init, Stats
<1>5. starts \in 0..2 /\ mId \in 0..MaxCreate
  BY MaxCreateAssumption DEF Init
<1>2. loops \in [Ids -> LoopPc]
  BY DEF Init, LoopPc
<1>3. /\ call \in [Callers -> Calls]
      /\ stage \in [Callers -> Stages]
      /\ joinId \in [Callers -> 0..MaxCreate]
  BY MaxCreateAssumption DEF Init, Calls, Stages
<1>4. flags \in [Callers -> Flags]
  BY DEF Init, Flags
<1> QED
  BY <1>1, <1>2, <1>3, <1>4, <1>5 DEF TypeOK

(* A step of the object alone, or of a component that takes one or none,   *)
(* keeps the status word, the pthreads and the callers in their domains.   *)
LEMMA TypeStep ==
    ASSUME TypeOK, [Next]_vars
    PROVE  TypeOK'
<1> USE MaxCreateAssumption DEF TypeOK
<1>0. ASSUME NEW c \in Callers, RequestExit PROVE mStat' \in Stats /\ loops' \in [Ids -> LoopPc]
  BY <1>0, SignalledFacts DEF RequestExit, Stats
<1>1. ASSUME NEW c \in Callers, Exit(c) PROVE TypeOK'
  BY <1>0, <1>1 DEF Exit, apiVars
<1>2. ASSUME NEW c \in Callers, ExitAndJoin(c) PROVE TypeOK'
  BY <1>0, <1>2 DEF ExitAndJoin, GoOn, Calls, Stages
<1>3. ASSUME NEW c \in Callers, Destroy(c) PROVE TypeOK'
  BY <1>3 DEF Destroy, GoOn, Calls, Stages
<1>4. ASSUME NEW c \in Callers, Suspend(c) PROVE TypeOK'
  BY <1>4 DEF Suspend, Stats, apiVars
<1>5. ASSUME NEW c \in Callers, Resume(c) PROVE TypeOK'
  <2>1. mStat' \in Stats
    BY <1>5 DEF Resume, Stats
  <2>3. starts' \in 0..2
    BY <1>5 DEF Resume
  <2>2. loops' \in [Ids -> LoopPc]
    BY <1>5, SignalledFacts DEF Resume
  <2> QED
    BY <1>5, <2>1, <2>2, <2>3 DEF Resume, apiVars
<1>6. ASSUME NEW c \in Callers, NEW flag \in Flags, Run(c, flag) PROVE TypeOK'
  <2>1. mStat' \in Stats
    <3>1. CASE mStat' = Released(flag)
      BY <3>1 DEF Released, Stats
    <3>2. CASE RequestExit
      BY <1>0, <3>2
    <3> QED
      BY <1>6, <3>1, <3>2 DEF Run
  <2>4. loops' \in [Ids -> LoopPc]
    BY <1>0, <1>6 DEF Run
  <2>3. starts' \in 0..2
    BY <1>6 DEF Run
  <2>2. /\ call' \in [Callers -> Calls]
        /\ stage' \in [Callers -> Stages]
        /\ flags' \in [Callers -> Flags]
    BY <1>6 DEF Run, GoOn, Calls, Stages
  <2> QED
    BY <1>6, <2>1, <2>2, <2>3, <2>4 DEF Run
<1>7. ASSUME NEW c \in Callers, JoinCall(c) PROVE TypeOK'
  BY <1>7 DEF JoinCall, Stages
<1>8. ASSUME NEW c \in Callers, JoinReturn(c) PROVE TypeOK'
  BY <1>8 DEF JoinReturn, GoOn, Leave, Calls, Stages, Flags
<1>9. ASSUME NEW c \in Callers, RunAfterJoin(c) PROVE TypeOK'
  BY <1>9 DEF RunAfterJoin, Released, Stats, GoOn, Calls, Stages
<1>10. ASSUME NEW c \in Callers, Create(c) PROVE TypeOK'
  BY <1>10 DEF Create, Leave, GoOn, Ids, LoopPc, Calls, Stages, Flags
<1>11. ASSUME NEW i \in Ids, LoopStep(i) \/ SpuriousWakeup(i) PROVE TypeOK'
  BY <1>11 DEF LoopStep, LoopTest, Task, BodyReturn, SpuriousWakeup, Stats, LoopPc, apiVars
<1>12. CASE UNCHANGED vars
  BY <1>12 DEF vars, apiVars
<1> QED
  BY <1>1, <1>2, <1>3, <1>4, <1>5, <1>6, <1>7, <1>8, <1>9, <1>10, <1>11, <1>12
     DEF Next, CallStep

(* Type correctness: every operation of the class keeps the status word,   *)
(* the pthreads and the callers within their domains.                      *)
THEOREM TypeCorrect == Spec => []TypeOK
<1>1. Init => TypeOK
  BY TypeInit
<1>2. TypeOK /\ [Next]_vars => TypeOK'
  BY TypeStep
<1> QED
  BY <1>1, <1>2, PTL DEF Spec

-----------------------------------------------------------------------------
(* A started once-body has used up the permission of run() or resume():    *)
(* the thread is told to wait, or to exit.                                 *)
OnceInv ==
    /\ mStat.once => starts # 2
    /\ mStat.once /\ starts = 1 => mStat.wait \/ mStat.exit

(* "Just loop once" holds whatever the clients call, exit() included.      *)
THEOREM OnceTheorem == Spec => []OnceRunsOnce
<1>1. Init => OnceInv
  BY DEF Init, OnceInv
<1>2. TypeOK /\ OnceInv /\ [Next]_vars => OnceInv'
  <2> SUFFICES ASSUME TypeOK, OnceInv, [Next]_vars PROVE OnceInv'
    OBVIOUS
  <2> USE DEF OnceInv
  <2>0. ASSUME RequestExit, UNCHANGED starts PROVE OnceInv'
    BY <2>0 DEF RequestExit, TypeOK, Stats
  <2>1. ASSUME NEW c \in Callers, Exit(c) \/ ExitAndJoin(c) PROVE OnceInv'
    BY <2>0, <2>1 DEF Exit, ExitAndJoin
  <2>2. ASSUME NEW c \in Callers, NEW flag \in Flags, Run(c, flag) PROVE OnceInv'
    <3>1. CASE RequestExit /\ UNCHANGED starts
      BY <2>0, <3>1
    <3>2. CASE starts' = 0
      BY <3>2
    <3> QED
      BY <2>2, <3>1, <3>2 DEF Run
  <2>3. ASSUME NEW c \in Callers, RunAfterJoin(c) \/ Resume(c) PROVE OnceInv'
    BY <2>3 DEF RunAfterJoin, Resume
  <2>4. ASSUME NEW c \in Callers, Suspend(c) PROVE OnceInv'
    BY <2>4 DEF Suspend, TypeOK, Stats
  <2>5. ASSUME UNCHANGED <<mStat, starts>> PROVE OnceInv'
    BY <2>5
  <2>6. ASSUME NEW c \in Callers, Destroy(c) \/ JoinCall(c) \/ JoinReturn(c) \/ Create(c)
        PROVE UNCHANGED <<mStat, starts>>
    BY <2>6 DEF Destroy, JoinCall, JoinReturn, Create
  <2>7. ASSUME NEW i \in Ids, Task(i) PROVE OnceInv'
    <3>1. CASE UNCHANGED <<mStat, starts>>
      BY <2>5, <3>1
    <3>2. CASE /\ ~mStat.wait /\ ~mStat.exit
               /\ mStat' = [mStat EXCEPT !.wait = mStat.once]
               /\ starts' = IF starts < 2 THEN starts + 1 ELSE 2
      <4>1. mStat'.once = mStat.once /\ mStat'.wait = mStat.once /\ mStat'.exit = mStat.exit
        BY <3>2 DEF TypeOK, Stats
      <4>2. CASE ~mStat.once
        BY <4>1, <4>2
      <4>3. CASE mStat.once
        <5>1. starts # 2 /\ starts # 1
          BY <3>2, <4>3
        <5>2. starts' = 1
          BY <3>2, <5>1 DEF TypeOK
        <5> QED
          BY <4>1, <4>3, <5>2
      <4> QED
        BY <4>2, <4>3
    <3> QED
      BY <2>7, <3>1, <3>2 DEF Task
  <2>8. ASSUME NEW i \in Ids, LoopTest(i) \/ BodyReturn(i) \/ SpuriousWakeup(i)
        PROVE UNCHANGED <<mStat, starts>>
    BY <2>8 DEF LoopTest, BodyReturn, SpuriousWakeup
  <2>9. CASE UNCHANGED vars
    BY <2>5, <2>9 DEF vars
  <2> QED
    BY <2>1, <2>2, <2>3, <2>4, <2>5, <2>6, <2>7, <2>8, <2>9 DEF Next, CallStep, LoopStep
<1>3. TypeOK /\ OnceInv => OnceRunsOnce
  BY DEF TypeOK, OnceInv, OnceRunsOnce
<1> QED
  BY <1>1, <1>2, <1>3, TypeCorrect, PTL DEF Spec

-----------------------------------------------------------------------------
(* When nobody calls exit() and runs, joins and destructions exclude each  *)
(* other, at most the pthread mId is alive; it is none before a            *)
(* pthread_create, and none when exit is set while no call is under way.   *)
Stopped == \A i \in Ids : ~Live(i)

OwnedInv ==
    /\ \A i \in Ids : i > mId <=> loops[i] = "none"
    /\ \A i \in Ids : Live(i) => i = mId
    /\ \A c \in Callers : stage[c] # "idle" => c \in Runners
    /\ \A c \in Callers : stage[c] \in {"lock", "create"} => Stopped
    /\ \A c \in Callers : stage[c] = "create" => ~mStat.exit
    /\ \A c \in Callers : stage[c] = "joining" => joinId[c] = mId
    /\ mStat.exit /\ (\A c \in Callers : stage[c] = "idle") => Stopped
    /\ destroyed => Stopped /\ \A c \in Callers : stage[c] = "idle"

(* No two callers are inside of a call that joins or creates a pthread. *)
Solo == \A c, d \in Callers : stage[c] # "idle" /\ stage[d] # "idle" => c = d

(* The steps of an object that nobody destroys under another's call, and   *)
(* nobody asks to exit without a join.                                     *)
OwnedNext ==
    \/ \E c \in Callers :
          \/ ExitAndJoin(c) \/ Suspend(c) \/ Resume(c) \/ CallStep(c)
          \/ Destroy(c) /\ \A d \in Callers : stage[d] = "idle"
          \/ \E flag \in Flags : Run(c, flag)
    \/ \E i \in Ids : LoopStep(i) \/ SpuriousWakeup(i)
    \/ UNCHANGED vars

(* Every such step that keeps the calls apart keeps the invariant.         *)
LEMMA OwnedStep ==
    ASSUME TypeOK, OwnedInv, Solo, Solo', OwnedNext
    PROVE  OwnedInv'
<1> USE RunnersAssumption, MaxCreateAssumption DEF TypeOK, Solo
\* The calls that set exit keep which pthreads exist and live.
<1>13. ASSUME NEW c \in Runners, NEW op, ~destroyed, RequestExit, GoOn(c, op, "join"),
              UNCHANGED <<mId, joinId, destroyed>>
       PROVE  OwnedInv'
  <2>1. stage' = [stage EXCEPT ![c] = "join"] /\ stage'[c] = "join" /\ c \in Callers
    BY <1>13 DEF GoOn
  <2>2. \A i \in Ids : /\ loops'[i] = "none" <=> loops[i] = "none"
                       /\ Live(i)' <=> Live(i)
    BY <1>13, SignalledFacts DEF RequestExit, Live
  <2>3. \A d \in Callers : stage'[d] = "idle" => stage[d] = "idle" \/ d = c
    BY <2>1
  <2>4. \A d \in Callers : stage'[d] # "idle" => d \in Runners
    BY <1>13, <2>1 DEF OwnedInv
  <2>5. \A d \in Callers : stage'[d] \in {"lock", "create", "joining"} => d # c /\ stage'[d] = stage[d]
    BY <2>1
  <2>6. \A d \in Callers : stage'[d] # "create"
    BY <2>1, <2>5
  <2> QED
    BY <1>13, <2>1, <2>2, <2>4, <2>5, <2>6 DEF OwnedInv, Stopped
<1>1. ASSUME NEW c \in Callers, ExitAndJoin(c) PROVE OwnedInv'
  <2>1. RequestExit /\ GoOn(c, "exitAndJoin", "join") /\ UNCHANGED <<mId, joinId, destroyed>>
    BY <1>1 DEF ExitAndJoin
  <2>2. c \in Runners /\ ~destroyed
    BY <1>1 DEF ExitAndJoin, CanCall
  <2> QED
    BY <1>13, <2>1, <2>2
<1>2. ASSUME NEW c \in Callers, NEW flag \in Flags, Run(c, flag) PROVE OwnedInv'
  <2>1. CASE RequestExit /\ GoOn(c, "run", "join")
    BY <1>2, <1>13, <2>1 DEF Run, CanCall
  <2>2. CASE mStat.exit /\ UNCHANGED loops /\ GoOn(c, "run", "create")
    <3>0. \A d \in Callers : stage[d] = "idle"
      <4>1. stage' = [stage EXCEPT ![c] = "create"] /\ stage[c] = "idle"
        BY <1>2, <2>2 DEF Run, CanCall, GoOn
      <4> QED
        BY <4>1
    <3>1. Stopped
      BY <2>2, <3>0 DEF OwnedInv
    <3>2. Stopped' /\ \A i \in Ids : Live(i)' <=> Live(i)
      BY <2>2, <3>1 DEF Stopped, Live
    <3> QED
      <4>1. mStat'.exit = FALSE /\ ~destroyed /\ c \in Runners /\ stage[c] = "idle"
        BY <1>2, <2>2 DEF Run, RequestExit, Released, CanCall
      <4>2. stage' = [stage EXCEPT ![c] = "create"] /\ UNCHANGED <<mId, joinId, destroyed>>
        BY <1>2, <2>2 DEF Run, GoOn
      <4> QED
        BY <2>2, <3>1, <3>2, <4>1, <4>2 DEF OwnedInv
  <2> QED
    BY <1>2, <2>1, <2>2 DEF Run
<1>3. ASSUME NEW c \in Callers, Destroy(c), \A d \in Callers : stage[d] = "idle" PROVE OwnedInv'
  <2>1. \A i \in Ids : Live(i)' <=> Live(i)
    BY <1>3 DEF Destroy, Live
  <2> QED
    BY <1>3, <2>1 DEF Destroy, CanCall, GoOn, OwnedInv, Stopped, Stages
<1>4. ASSUME NEW c \in Callers, Suspend(c) PROVE OwnedInv'
  BY <1>4 DEF Suspend, apiVars, OwnedInv, Stopped, Live
<1>5. ASSUME NEW c \in Callers, Resume(c) PROVE OwnedInv'
  <2>1. \A i \in Ids : /\ loops'[i] = "none" <=> loops[i] = "none"
                       /\ Live(i)' <=> Live(i)
    BY <1>5, SignalledFacts DEF Resume, Live
  <2>2. UNCHANGED <<mId, stage, joinId, destroyed>> /\ mStat'.exit = mStat.exit
    BY <1>5 DEF Resume, apiVars, Stats
  <2> QED
    BY <2>1, <2>2 DEF OwnedInv, Stopped
<1>6. ASSUME NEW c \in Callers, JoinCall(c) PROVE OwnedInv'
  BY <1>6 DEF JoinCall, OwnedInv, Stopped, Live, Stages
<1>7. ASSUME NEW c \in Callers, JoinReturn(c) PROVE OwnedInv'
  <2>1. Stopped
    BY <1>7 DEF JoinReturn, OwnedInv, Stopped, Live, Ids
  <2>2. Stopped' /\ \A i \in Ids : Live(i)' <=> Live(i)
    BY <1>7, <2>1 DEF JoinReturn, Stopped, Live
  <2>3. \A d \in Callers : d # c => stage[d] = "idle"
    BY <1>7 DEF JoinReturn, OwnedInv
  <2> QED
    BY <1>7, <2>1, <2>2, <2>3 DEF JoinReturn, GoOn, Leave, OwnedInv, Stages
<1>8. ASSUME NEW c \in Callers, RunAfterJoin(c) PROVE OwnedInv'
  BY <1>8 DEF RunAfterJoin, Released, GoOn, OwnedInv, Stopped, Live, Stages
<1>9. ASSUME NEW c \in Callers, Create(c) PROVE OwnedInv'
  <2>1. Stopped /\ ~destroyed /\ \A d \in Callers : d # c => stage[d] = "idle"
    BY <1>9 DEF Create, OwnedInv
  <2>2. PICK k \in Ids : /\ loops[k] = "none"
                         /\ \A j \in Ids : loops[j] = "none" => k <= j
                         /\ mId' = k
                         /\ loops' = [loops EXCEPT ![k] = "loop"]
    BY <1>9 DEF Create
  <2>3. \A i \in Ids : i > k <=> loops'[i] = "none"
    BY <2>2 DEF OwnedInv, Ids
  <2>4. \A i \in Ids : Live(i)' => i = k
    BY <2>1, <2>2 DEF Stopped, Live
  <2>5. mStat' = mStat /\ destroyed' = destroyed /\ stage'= [stage EXCEPT ![c] = "idle"]
    BY <1>9 DEF Create, Leave, GoOn
  <2>6. ~mStat.exit
    BY <1>9 DEF Create, OwnedInv
  <2> QED
    BY <2>1, <2>2, <2>3, <2>4, <2>5, <2>6 DEF OwnedInv, Stages
<1>10. ASSUME NEW i \in Ids, LoopStep(i) \/ SpuriousWakeup(i) PROVE OwnedInv'
  <2>1. \A j \in Ids : /\ Live(j)' => Live(j)
                       /\ loops'[j] = "none" <=> loops[j] = "none"
    BY <1>10 DEF LoopStep, LoopTest, Task, BodyReturn, SpuriousWakeup, Live
  <2>2. UNCHANGED <<mId, stage, joinId, destroyed>> /\ mStat'.exit = mStat.exit
    BY <1>10 DEF LoopStep, LoopTest, Task, BodyReturn, SpuriousWakeup, apiVars, Stats
  <2> QED
    BY <2>1, <2>2 DEF OwnedInv, Stopped
<1>11. CASE UNCHANGED vars
  BY <1>11 DEF vars, apiVars, OwnedInv, Stopped, Live
<1> QED
  BY <1>1, <1>2, <1>3, <1>4, <1>5, <1>6, <1>7, <1>8, <1>9, <1>10, <1>11
     DEF OwnedNext, CallStep

LEMMA OwnedInit ==
    ASSUME Init
    PROVE  OwnedInv
  BY MaxCreateAssumption DEF Init, OwnedInv, Stopped, Live, Ids

(* The invariant behind the two theorems below is kept by every step of an *)
(* owned thread object: its one client is alone in its calls.              *)
THEOREM OwnedInvariant == ASSUME Owned PROVE Spec => []OwnedInv
<1>1. Init => OwnedInv
  BY OwnedInit
<1>2. TypeOK /\ OwnedInv /\ TypeOK' /\ [Next]_vars => OwnedInv'
  <2> SUFFICES ASSUME TypeOK, OwnedInv, TypeOK', [Next]_vars PROVE OwnedInv'
    OBVIOUS
  <2>1. \A c \in Callers : ~Exit(c)
    BY Owned DEF Exit, CanCall, Owned
  <2>2. \A c \in Callers : stage'[c] # "idle" => c \in Runners
    BY RunnersAssumption
       DEF Next, vars, apiVars, ExitAndJoin, Destroy, Suspend, Resume, Run, CallStep, JoinCall, JoinReturn,
           RunAfterJoin, Create, Exit, LoopStep, LoopTest, Task, BodyReturn, SpuriousWakeup, GoOn, Leave,
           OwnedInv, TypeOK
  <2>3. Solo /\ Solo'
    BY <2>2, Owned DEF Solo, Owned, OwnedInv
  <2>4. \A c, d \in Callers : Destroy(c) => stage[d] = "idle"
    BY Owned DEF Destroy, CanCall, Owned, OwnedInv
  <2>5. OwnedNext
    BY <2>1, <2>4 DEF Next, OwnedNext
  <2> QED
    BY <2>3, <2>5, OwnedStep
<1> QED
  BY <1>1, <1>2, TypeCorrect, PTL DEF Spec

(* One pthread in the body at a time, for every owned thread object: the   *)
(* joins of run() suffice.                                                 *)
THEOREM OneBodyTheorem == ASSUME Owned PROVE Spec => []OneBody
<1>1. OwnedInv => OneBody
  BY DEF OwnedInv, OneBody, Live
<1> QED
  BY <1>1, OwnedInvariant, PTL

(* The destructor leaves no pthread behind that would use the object.      *)
THEOREM DestroyTheorem == ASSUME Owned PROVE Spec => []NoLoopAfterDestroy
<1>1. OwnedInv => NoLoopAfterDestroy
  BY DEF OwnedInv, Stopped, NoLoopAfterDestroy
<1> QED
  BY <1>1, OwnedInvariant, PTL

-----------------------------------------------------------------------------
(* An object its clients only call run(ONCE) on, as the drivers that       *)
(* upgrade a chip are: whether a pthread is in the body, whether one is    *)
(* about to enter it, and whether a call of run() is under way.            *)
Inside == \E i \in Ids : loops[i] = "body"
Ready == (\E i \in Ids : Live(i) /\ loops[i] # "body") /\ ~mStat.wait /\ ~mStat.exit
Calling == \E c \in Callers : stage[c] # "idle"

OnceCalls ==
    \A c \in Callers : stage[c] # "idle" => c \in Runners /\ call[c] = "run" /\ flags[c] = {"ONCE"}

(* A ONCE thread that is not asked to exit is about to execute its body,   *)
(* or has been told to wait.                                               *)
OnceLoop ==
    /\ ~mStat.exit => mStat.once
    /\ Inside => mStat.wait \/ mStat.exit
    /\ \A i \in Ids : loops[i] = "cond" => mStat.wait
    /\ \A c \in Callers : stage[c] = "create" => ~mStat.wait

OnceObject == TypeOK /\ OwnedInv /\ Solo /\ OnceCalls /\ OnceLoop

LEMMA OnceObjectInit ==
    ASSUME Init
    PROVE  OnceCalls /\ OnceLoop /\ Solo /\ ~Inside /\ ~Ready /\ ~Calling
  BY DEF Init, OnceCalls, OnceLoop, Solo, Inside, Ready, Calling, Live

LEMMA OneLive ==
    ASSUME OnceObject, NEW i \in Ids, NEW j \in Ids, Live(i), Live(j)
    PROVE  i = j
  BY DEF OnceObject, OwnedInv

LEMMA InsideNotReady ==
    ASSUME OnceObject, Inside
    PROVE  ~Ready
  BY OneLive DEF Inside, Ready, Live

LEMMA ParkedFacts ==
    ASSUME OnceObject, \A i \in Ids : loops[i] \in {"none", "cond", "exited"}
    PROVE  ~Inside /\ ~Ready
  BY DEF OnceObject, OnceLoop, Inside, Ready, Live

LEMMA SameThread ==
    ASSUME OnceObject, vars' = vars
    PROVE  /\ OnceCalls' /\ OnceLoop'
           /\ (Inside' <=> Inside) /\ (Ready' <=> Ready) /\ (Calling' <=> Calling)
<1>1. UNCHANGED <<mStat, loops, stage, call, flags>>
  BY DEF vars, apiVars
<1>2. (Inside' <=> Inside) /\ (Ready' <=> Ready) /\ (Calling' <=> Calling)
  BY <1>1 DEF Inside, Ready, Calling, Live
<1>3. OnceCalls' /\ OnceLoop'
  BY <1>1, <1>2 DEF OnceObject, OnceCalls, OnceLoop
<1> QED
  BY <1>2, <1>3

LEMMA RunFacts ==
    ASSUME OnceObject, Solo', NEW c \in Callers, Run(c, {"ONCE"})
    PROVE  /\ Calling' /\ OnceCalls' /\ OnceLoop'
           /\ Inside' <=> Inside
           /\ ~Ready'
<1> USE RunnersAssumption DEF OnceObject, TypeOK
<1>0. /\ c \in Runners /\ stage[c] = "idle" /\ stage'[c] \in {"join", "create"}
      /\ call'[c] = "run" /\ flags'[c] = {"ONCE"}
      /\ \A d \in Callers : d # c => stage'[d] = stage[d] /\ stage[d] = "idle"
  <2>1. c \in Runners /\ stage[c] = "idle" /\ stage'[c] \in {"join", "create"}
    BY DEF Run, CanCall, GoOn
  <2>2. call'[c] = "run" /\ flags'[c] = {"ONCE"} /\ \A d \in Callers : d # c => stage'[d] = stage[d]
    BY DEF Run, GoOn
  <2>3. \A d \in Callers : d # c => stage'[d] = "idle"
    BY <2>1 DEF Solo
  <2> QED
    BY <2>1, <2>2, <2>3
<1>1. Calling' /\ OnceCalls'
  BY <1>0 DEF Calling, OnceCalls
<1>2. \A d \in Callers : stage'[d] = "create" => mStat.exit /\ mStat' = Released({"ONCE"})
  BY <1>0 DEF Run, GoOn
<1>3. CASE RequestExit
  <2>1. \A i \in Ids : loops'[i] = loops[i] \/ (loops[i] = "cond" /\ loops'[i] = "task")
    BY <1>3, SignalledFacts DEF RequestExit
  <2>2. mStat'.exit /\ ~mStat'.wait /\ mStat'.once = mStat.once
    BY <1>3 DEF RequestExit, Stats
  <2>3. Inside' <=> Inside
    BY <2>1 DEF Inside
  <2>4. \A i \in Ids : loops'[i] # "cond"
    <3>1. CASE \E i \in Ids : loops[i] = "cond"
      <4>1. PICK i \in Ids : loops[i] = "cond"
        BY <3>1
      <4>2. \A j \in Ids : loops[j] = "cond" => j = i
        BY <4>1, OneLive DEF Live
      <4>3. PICK k \in Ids : loops[k] = "cond" /\ loops' = [loops EXCEPT ![k] = "task"]
        BY <1>3, <4>1 DEF RequestExit, Signalled
      <4> QED
        BY <4>2, <4>3
    <3>2. CASE ~\E i \in Ids : loops[i] = "cond"
      BY <2>1, <3>2
    <3> QED
      BY <3>1, <3>2
  <2>5. OnceLoop'
    BY <1>2, <2>2, <2>4, <1>3 DEF OnceLoop, RequestExit
  <2>6. ~Ready'
    BY <2>2 DEF Ready
  <2> QED
    BY <1>1, <2>3, <2>5, <2>6
<1>4. CASE mStat.exit /\ mStat' = Released({"ONCE"}) /\ UNCHANGED loops
  <2>1. Stopped
    BY <1>0, <1>4 DEF OwnedInv
  <2>2. \A i \in Ids : loops'[i] \in {"none", "exited"} /\ loops'[i] = loops[i]
    BY <1>4, <2>1 DEF Stopped, Live
  <2>3. mStat'.once /\ ~mStat'.wait
    BY <1>4 DEF Released
  <2>4. ~Inside /\ ~Inside' /\ ~Ready'
    BY <2>2 DEF Inside, Ready, Live
  <2>5. OnceLoop'
    BY <2>2, <2>3, <2>4 DEF OnceLoop
  <2> QED
    BY <1>1, <2>4, <2>5
<1> QED
  BY <1>3, <1>4 DEF Run

LEMMA CallFacts ==
    ASSUME OnceObject, NEW c \in Callers, CallStep(c)
    PROVE  /\ Calling /\ OnceCalls' /\ OnceLoop'
           /\ Inside' <=> Inside
           /\ \/ Calling' /\ (Ready' => Ready)
              \/ ~Calling' /\ Ready' /\ ~Inside
<1> USE RunnersAssumption DEF OnceObject, TypeOK
<1>0. /\ stage[c] # "idle" /\ call[c] = "run" /\ flags[c] = {"ONCE"} /\ c \in Runners
      /\ \A d \in Callers : d # c => stage[d] = "idle" /\ stage'[d] = "idle"
  <2>1. stage[c] # "idle"
    BY DEF CallStep, JoinCall, JoinReturn, RunAfterJoin, Create
  <2>2. \A d \in Callers : d # c => stage'[d] = stage[d]
    BY DEF CallStep, JoinCall, JoinReturn, RunAfterJoin, Create, GoOn, Leave
  <2> QED
    BY <2>1, <2>2 DEF OnceCalls, Solo
<1>1. Calling
  BY <1>0 DEF Calling
<1>2. OnceCalls'
  <2>1. stage'[c] = "idle" \/ (call'[c] = "run" /\ flags'[c] = {"ONCE"})
    BY <1>0 DEF CallStep, JoinCall, JoinReturn, RunAfterJoin, Create, GoOn, Leave
  <2> QED
    BY <1>0, <2>1 DEF OnceCalls
<1>3. ASSUME JoinCall(c) \/ JoinReturn(c)
      PROVE  Calling' /\ OnceLoop' /\ (Inside' <=> Inside) /\ (Ready' <=> Ready)
  <2>1. UNCHANGED <<mStat, loops>> /\ stage'[c] \in {"joining", "lock"}
    BY <1>0, <1>3 DEF JoinCall, JoinReturn, GoOn
  <2>2. (Inside' <=> Inside) /\ (Ready' <=> Ready)
    BY <2>1 DEF Inside, Ready, Live
  <2>3. OnceLoop'
    BY <1>0, <2>1, <2>2 DEF OnceLoop
  <2> QED
    BY <2>1, <2>2, <2>3 DEF Calling
<1>4. ASSUME RunAfterJoin(c)
      PROVE  Calling' /\ OnceLoop' /\ ~Inside /\ ~Inside' /\ ~Ready'
  <2>1. Stopped /\ UNCHANGED loops
    BY <1>4 DEF RunAfterJoin, OwnedInv
  <2>2. \A i \in Ids : loops'[i] \in {"none", "exited"} /\ loops'[i] = loops[i]
    BY <2>1 DEF Stopped, Live
  <2>3. mStat'.once /\ ~mStat'.wait /\ stage'[c] = "create"
    BY <1>0, <1>4 DEF RunAfterJoin, Released, GoOn
  <2>4. ~Inside /\ ~Inside' /\ ~Ready'
    BY <2>2 DEF Inside, Ready, Live
  <2>5. OnceLoop'
    BY <2>2, <2>3, <2>4 DEF OnceLoop
  <2> QED
    BY <2>3, <2>4, <2>5 DEF Calling
<1>5. ASSUME Create(c)
      PROVE  ~Calling' /\ OnceLoop' /\ ~Inside /\ ~Inside' /\ Ready'
  <2>1. Stopped /\ ~mStat.exit /\ ~mStat.wait
    BY <1>5 DEF Create, OwnedInv, OnceLoop
  <2>2. PICK k \in Ids : loops[k] = "none" /\ loops' = [loops EXCEPT ![k] = "loop"]
    BY <1>5 DEF Create
  <2>3. UNCHANGED mStat /\ \A d \in Callers : stage'[d] = "idle"
    BY <1>0, <1>5 DEF Create, Leave, GoOn
  <2>4. loops'[k] = "loop" /\ \A i \in Ids : loops'[i] \in {"none", "exited", "loop"}
    BY <2>1, <2>2 DEF Stopped, Live
  <2>5. Live(k)' /\ ~Inside' /\ ~Inside
    BY <2>1, <2>4 DEF Live, Inside, Stopped
  <2>6. Ready'
    BY <2>1, <2>3, <2>4, <2>5 DEF Ready
  <2>7. OnceLoop'
    BY <2>1, <2>3, <2>4, <2>5 DEF OnceLoop, OnceObject
  <2> QED
    BY <2>3, <2>5, <2>6, <2>7 DEF Calling
<1> QED
  BY <1>1, <1>2, <1>3, <1>4, <1>5 DEF CallStep

LEMMA LoopFacts ==
    ASSUME OnceObject, NEW i \in Ids, LoopTest(i) \/ Task(i)
    PROVE  /\ Calling' <=> Calling
           /\ OnceCalls' /\ OnceLoop' /\ ~Inside
           /\ Ready <=> Ready' \/ Inside'
<1> USE DEF OnceObject, TypeOK
<1>1. /\ UNCHANGED <<stage, call, flags>> /\ Live(i)
      /\ mStat'.exit = mStat.exit /\ mStat'.once = mStat.once
  BY DEF LoopTest, Task, apiVars, Stats, Live
<1>2. \A j \in Ids : j # i => loops'[j] = loops[j] /\ loops[j] \in {"none", "exited"}
  BY <1>1, OneLive DEF LoopTest, Task, Live, LoopPc
<1>3. ~Inside
  BY <1>2 DEF Inside, LoopTest, Task
<1>4. Ready <=> ~mStat.wait /\ ~mStat.exit
  BY <1>1, <1>2, <1>3 DEF Ready, LoopTest, Task
<1>5. (Calling' <=> Calling) /\ OnceCalls'
  BY <1>1 DEF Calling, OnceCalls
<1>6. CASE LoopTest(i)
  <2>1. UNCHANGED mStat /\ loops'[i] = (IF mStat.exit THEN "exited" ELSE "task")
    BY <1>6 DEF LoopTest
  <2>2. ~Inside'
    BY <1>2, <2>1 DEF Inside
  <2>3. Ready' <=> ~mStat.wait /\ ~mStat.exit
    BY <1>2, <2>1, <2>2 DEF Ready, Live
  <2>4. OnceLoop'
    BY <1>1, <1>2, <2>1, <2>2 DEF OnceLoop
  <2> QED
    BY <1>3, <1>4, <1>5, <2>2, <2>3, <2>4
<1>7. CASE Task(i)
  <2>1. CASE mStat.wait /\ loops' = [loops EXCEPT ![i] = "cond"] /\ UNCHANGED mStat
    <3>1. ~Inside' /\ loops'[i] = "cond"
      BY <1>2, <2>1 DEF Inside
    <3>2. ~Ready'
      BY <2>1, <3>1 DEF Ready
    <3>3. OnceLoop'
      BY <1>1, <1>2, <2>1, <3>1 DEF OnceLoop
    <3> QED
      BY <1>3, <1>4, <1>5, <2>1, <3>1, <3>2, <3>3
  <2>2. CASE ~mStat.wait /\ mStat.exit /\ loops' = [loops EXCEPT ![i] = "loop"] /\ UNCHANGED mStat
    <3>1. ~Inside' /\ loops'[i] = "loop"
      BY <1>2, <2>2 DEF Inside
    <3>2. ~Ready'
      BY <2>2, <3>1 DEF Ready
    <3>3. OnceLoop'
      BY <1>1, <1>2, <2>2, <3>1 DEF OnceLoop
    <3> QED
      BY <1>3, <1>4, <1>5, <2>2, <3>1, <3>2, <3>3
  <2>3. CASE /\ ~mStat.wait /\ ~mStat.exit
             /\ mStat' = [mStat EXCEPT !.wait = mStat.once]
             /\ loops' = [loops EXCEPT ![i] = "body"]
    <3>1. Inside' /\ loops'[i] = "body"
      BY <2>3 DEF Inside
    <3>2. mStat.once
      BY <2>3 DEF OnceLoop
    <3>3. mStat'.wait = mStat.once
      BY <2>3 DEF Stats
    <3>4. \A c \in Callers : stage[c] # "create"
      BY <1>1 DEF OwnedInv, Stopped
    <3>5. OnceLoop'
      BY <1>1, <1>2, <3>1, <3>2, <3>3, <3>4 DEF OnceLoop
    <3> QED
      BY <1>3, <1>4, <1>5, <2>3, <3>1, <3>5
  <2> QED
    BY <1>7, <2>1, <2>2, <2>3 DEF Task
<1> QED
  BY <1>6, <1>7

LEMMA ReturnFacts ==
    ASSUME OnceObject, NEW i \in Ids, BodyReturn(i)
    PROVE  /\ Calling' <=> Calling
           /\ OnceCalls' /\ OnceLoop' /\ Inside
           /\ ~Ready /\ ~Ready' /\ ~Inside'
<1> USE DEF OnceObject, TypeOK
<1>1. /\ UNCHANGED <<stage, call, flags, mStat>>
      /\ Inside /\ loops'[i] = "loop" /\ Live(i)
  BY DEF BodyReturn, apiVars, Inside, Live
<1>2. \A j \in Ids : j # i => loops'[j] = loops[j] /\ loops[j] \in {"none", "exited"}
  BY <1>1, OneLive DEF BodyReturn, Live, LoopPc
<1>3. ~Inside'
  BY <1>1, <1>2 DEF Inside
<1>4. mStat.wait \/ mStat.exit
  BY <1>1 DEF OnceLoop
<1>5. OnceLoop'
  BY <1>1, <1>2, <1>3 DEF OnceLoop
<1>6. (Calling' <=> Calling) /\ OnceCalls'
  BY <1>1 DEF Calling, OnceCalls
<1>7. ~Ready /\ ~Ready'
  BY <1>1, <1>4, InsideNotReady DEF Ready
<1> QED
  BY <1>1, <1>3, <1>5, <1>6, <1>7
=============================================================================
