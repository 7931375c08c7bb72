---------------------------- MODULE XbhMWThread ----------------------------
(***************************************************************************)
(* The worker-thread class every manager, task and chip driver of libeywa  *)
(* derives from (common/support/XbhMWThread.cpp).  One object holds a      *)
(* status word mStat, a mutex mLock, a condition variable mCond and the    *)
(* handle mId of the pthread it created last.                              *)
(*                                                                         *)
(* Every critical section of mLock is one step: the sections are short,    *)
(* they block nowhere but in pthread_cond_wait (which releases the mutex), *)
(* and the only unlocked access to mStat, the loop's test of mStat.exit,   *)
(* reads a field that a section writes at most once.  What the code does   *)
(* outside the mutex is a step of its own: the join, the pthread_create    *)
(* and the loop's test.                                                    *)
(***************************************************************************)
EXTENDS Naturals, FiniteSets

CONSTANTS
    Callers,    \* threads that call suspend(), resume() and exit()
    Runners,    \* the callers that also start, join and destroy the thread
    ApiOps,     \* which of the operations the clients of this object use
    MaxCreate   \* bound: number of pthreads ever created for the object

ASSUME RunnersAssumption == Runners \subseteq Callers
ASSUME MaxCreateAssumption == MaxCreate \in Nat

VARIABLES
    mStat,      \* [wait, once, exit]
    mId,        \* the pthread created last, 0 before the first
    loops,      \* where each created pthread stands in loop()/task()
    call,       \* the operation each caller is inside of that joins or creates a pthread
    stage,      \* how far in it the caller is
    flags,      \* the flag it passed to run()
    joinId,     \* the pthread it joins
    destroyed,  \* TRUE when ~XbhMWThread has destroyed mutex and condition
    starts      \* body executions since run() or resume() let the thread go (at most 2 are counted)

apiVars == <<call, stage, flags, joinId>>
vars == <<mStat, mId, loops, apiVars, destroyed, starts>>

Ids == 1..MaxCreate

Stats == [wait : BOOLEAN, once : BOOLEAN, exit : BOOLEAN]

\* The bits of XbhMWThreadFlag the code tests: REPEAT is the absence of ONCE.
Flags == SUBSET {"ONCE", "WAIT"}

LoopPc == {"none", "loop", "task", "cond", "body", "exited"}

Calls == {"none", "exitAndJoin", "run", "destroy"}
Stages == {"idle", "join", "joining", "lock", "create"}

TypeOK ==
    /\ mStat \in Stats
    /\ mId \in 0..MaxCreate
    /\ loops \in [Ids -> LoopPc]
    /\ call \in [Callers -> Calls]
    /\ stage \in [Callers -> Stages]
    /\ flags \in [Callers -> Flags]
    /\ joinId \in [Callers -> 0..MaxCreate]
    /\ destroyed \in BOOLEAN
    /\ starts \in 0..2

Live(i) == loops[i] \notin {"none", "exited"}

-----------------------------------------------------------------------------
(* The constructor: no pthread yet, and exit set, which stands for "not    *)
(* running" as well as for "asked to stop".                                *)
Init ==
    /\ mStat = [wait |-> FALSE, once |-> FALSE, exit |-> TRUE]
    /\ mId = 0
    /\ loops = [i \in Ids |-> "none"]
    /\ call = [c \in Callers |-> "none"]
    /\ stage = [c \in Callers |-> "idle"]
    /\ flags = [c \in Callers |-> {}]
    /\ joinId = [c \in Callers |-> 0]
    /\ destroyed = FALSE
    /\ starts = 0

(* pthread_cond_signal: releases one waiter if there is one. *)
Signalled(pcs) ==
    LET waiters == {i \in Ids : pcs[i] = "cond"}
    IN  IF waiters = {} THEN {pcs} ELSE {[pcs EXCEPT ![i] = "task"] : i \in waiters}

(* A call may begin: the caller is outside the object, and the object lives. *)
CanCall(c, op) == stage[c] = "idle" /\ ~destroyed /\ op \in ApiOps

(* The caller goes on inside of the operation, or leaves it. *)
GoOn(c, op, place) ==
    /\ call' = [call EXCEPT ![c] = op]
    /\ stage' = [stage EXCEPT ![c] = place]

Leave(c) ==
    /\ GoOn(c, "none", "idle")
    /\ flags' = [flags EXCEPT ![c] = {}]
    /\ joinId' = [joinId EXCEPT ![c] = 0]

(* Faulty: leaves wait as it is. *)
RequestExitWaiting ==
    /\ ~mStat.exit
    /\ mStat' = [mStat EXCEPT !.exit = TRUE]
    /\ loops' \in Signalled(loops)

(* The section exit(), exitAndJoin() and run() share. *)
RequestExit ==
    /\ ~mStat.exit
    /\ mStat' = [mStat EXCEPT !.exit = TRUE, !.wait = FALSE]
    /\ loops' \in Signalled(loops)

(* exit(): asks the loop to stop and does not wait for it.  When exit is   *)
(* already set the call changes nothing, here and in the operations below. *)
Exit(c) ==
    /\ CanCall(c, "exit")
    /\ RequestExit
    /\ UNCHANGED <<mId, apiVars, destroyed, starts>>

ExitAndJoin(c) ==
    /\ c \in Runners
    /\ CanCall(c, "exitAndJoin")
    /\ RequestExit
    /\ GoOn(c, "exitAndJoin", "join")
    /\ UNCHANGED <<mId, flags, joinId, destroyed, starts>>

(* run(flag): what its last section leaves in mStat. *)
Released(flag) == [wait |-> "WAIT" \in flag, once |-> "ONCE" \in flag, exit |-> FALSE]

(* run(flag) up to the join, or to its last unlock when no join is needed. *)
Run(c, flag) ==
    /\ c \in Runners
    /\ CanCall(c, "run")
    /\ \E i \in Ids : loops[i] = "none"
    /\ flags' = [flags EXCEPT ![c] = flag]
    /\ \/ /\ RequestExit
          /\ GoOn(c, "run", "join")
          /\ UNCHANGED starts
       \/ /\ mStat.exit
          /\ mStat' = Released(flag)
          /\ starts' = 0
          /\ GoOn(c, "run", "create")
          /\ UNCHANGED loops
    /\ UNCHANGED <<mId, joinId, destroyed>>

(* Faulty: the destructor joins nobody. *)
DestroyUnjoined(c) ==
    /\ c \in Runners
    /\ CanCall(c, "destroy")
    /\ destroyed' = TRUE
    /\ UNCHANGED <<mStat, mId, loops, apiVars, starts>>

(* ~XbhMWThread: joins a thread nobody asked to stop, and joins no thread  *)
(* that was asked to.                                                      *)
Destroy(c) ==
    /\ c \in Runners
    /\ CanCall(c, "destroy")
    /\ \/ /\ ~mStat.exit
          /\ GoOn(c, "destroy", "join")
          /\ UNCHANGED destroyed
       \/ /\ mStat.exit
          /\ destroyed' = TRUE
          /\ UNCHANGED <<call, stage>>
    /\ UNCHANGED <<mStat, mId, loops, flags, joinId, starts>>

(* pthread_join(mId, ...): mId is read, without the mutex, for the call.   *)
JoinCall(c) ==
    /\ stage[c] = "join"
    /\ stage' = [stage EXCEPT ![c] = "joining"]
    /\ joinId' = [joinId EXCEPT ![c] = mId]
    /\ UNCHANGED <<mStat, mId, loops, call, flags, destroyed, starts>>

(* Faulty: does not wait for the pthread to end. *)
JoinReturnAtOnce(c) ==
    /\ stage[c] = "joining"
    /\ IF call[c] = "run" THEN GoOn(c, "run", "lock") /\ UNCHANGED <<flags, joinId>>
                         ELSE Leave(c)
    /\ destroyed' = (destroyed \/ call[c] = "destroy")
    /\ UNCHANGED <<mStat, mId, loops, starts>>

(* ... and the call returns when that pthread has ended, or with ESRCH     *)
(* when there is none.  run() goes on to lock the mutex again; the         *)
(* destructor destroys the mutex and the condition.                        *)
JoinReturn(c) ==
    /\ stage[c] = "joining"
    /\ joinId[c] # 0 => loops[joinId[c]] = "exited"
    /\ IF call[c] = "run" THEN GoOn(c, "run", "lock") /\ UNCHANGED <<flags, joinId>>
                         ELSE Leave(c)
    /\ destroyed' = (destroyed \/ call[c] = "destroy")
    /\ UNCHANGED <<mStat, mId, loops, starts>>

RunAfterJoin(c) ==
    /\ stage[c] = "lock"
    /\ mStat' = Released(flags[c])
    /\ starts' = 0
    /\ GoOn(c, "run", "create")
    /\ UNCHANGED <<mId, loops, flags, joinId, destroyed>>

(* pthread_create(&mId, ...), after the last unlock of run(). *)
Create(c) ==
    /\ stage[c] = "create"
    /\ \E i \in Ids :
          /\ loops[i] = "none"
          /\ \A j \in Ids : loops[j] = "none" => i <= j
          /\ mId' = i
          /\ loops' = [loops EXCEPT ![i] = "loop"]
    /\ Leave(c)
    /\ UNCHANGED <<mStat, destroyed, starts>>

(* Faulty: suspends a thread that was asked to exit. *)
SuspendExiting(c) ==
    /\ CanCall(c, "suspend")
    /\ ~mStat.wait
    /\ mStat' = [mStat EXCEPT !.wait = TRUE]
    /\ UNCHANGED <<mId, loops, apiVars, destroyed, starts>>

(* suspend() and resume() act on a running thread only. *)
Suspend(c) ==
    /\ CanCall(c, "suspend")
    /\ ~mStat.exit /\ ~mStat.wait
    /\ mStat' = [mStat EXCEPT !.wait = TRUE]
    /\ UNCHANGED <<mId, loops, apiVars, destroyed, starts>>

(* Faulty: clears wait and signals nobody. *)
ResumeUnsignalled(c) ==
    /\ CanCall(c, "resume")
    /\ ~mStat.exit /\ mStat.wait
    /\ mStat' = [mStat EXCEPT !.wait = FALSE]
    /\ starts' = 0
    /\ UNCHANGED <<mId, loops, apiVars, destroyed>>

Resume(c) ==
    /\ CanCall(c, "resume")
    /\ ~mStat.exit /\ mStat.wait
    /\ mStat' = [mStat EXCEPT !.wait = FALSE]
    /\ loops' \in Signalled(loops)
    /\ starts' = 0
    /\ UNCHANGED <<mId, apiVars, destroyed>>

(* suspend() and resume() as other components call them, the calls that    *)
(* find nothing to do included.                                            *)
SuspendCall(c) ==
    \/ Suspend(c)
    \/ (mStat.exit \/ mStat.wait) /\ UNCHANGED vars

ResumeCall(c) ==
    \/ Resume(c)
    \/ (mStat.exit \/ ~mStat.wait) /\ UNCHANGED vars

-----------------------------------------------------------------------------
(* The created pthreads.                                                   *)

(* while (!ptr->mStat.exit), read without the mutex. *)
LoopTest(i) ==
    /\ loops[i] = "loop"
    /\ loops' = [loops EXCEPT ![i] = IF mStat.exit THEN "exited" ELSE "task"]
    /\ UNCHANGED <<mStat, mId, apiVars, destroyed, starts>>

(* Faulty: a ONCE thread goes on looping. *)
TaskRepeating(i) ==
    /\ loops[i] = "task"
    /\ loops' = [loops EXCEPT ![i] = IF mStat.wait THEN "cond"
                                    ELSE IF mStat.exit THEN "loop" ELSE "body"]
    /\ starts' = IF loops'[i] = "body" /\ starts < 2 THEN starts + 1 ELSE starts
    /\ UNCHANGED <<mStat, mId, apiVars, destroyed>>

(* task() under the mutex: wait, give up, or go on to the body. *)
Task(i) ==
    /\ loops[i] = "task"
    /\ \/ /\ mStat.wait
          /\ loops' = [loops EXCEPT ![i] = "cond"]
          /\ UNCHANGED <<mStat, starts>>
       \/ /\ ~mStat.wait /\ mStat.exit
          /\ loops' = [loops EXCEPT ![i] = "loop"]
          /\ UNCHANGED <<mStat, starts>>
       \/ /\ ~mStat.wait /\ ~mStat.exit
          /\ mStat' = [mStat EXCEPT !.wait = mStat.once]
          /\ loops' = [loops EXCEPT ![i] = "body"]
          /\ starts' = IF starts < 2 THEN starts + 1 ELSE 2
    /\ UNCHANGED <<mId, apiVars, destroyed>>

(* run(mArg), or mThreadFunc(mArg), comes back. *)
BodyReturn(i) ==
    /\ loops[i] = "body"
    /\ loops' = [loops EXCEPT ![i] = "loop"]
    /\ UNCHANGED <<mStat, mId, apiVars, destroyed, starts>>

(* pthread_cond_wait may return without a signal. *)
SpuriousWakeup(i) ==
    /\ loops[i] = "cond"
    /\ loops' = [loops EXCEPT ![i] = "task"]
    /\ UNCHANGED <<mStat, mId, apiVars, destroyed, starts>>

LoopStep(i) == LoopTest(i) \/ Task(i) \/ BodyReturn(i)

CallStep(c) == JoinCall(c) \/ JoinReturn(c) \/ RunAfterJoin(c) \/ Create(c)

Next ==
    \/ \E c \in Callers :
          \/ Exit(c) \/ ExitAndJoin(c) \/ Destroy(c) \/ Suspend(c) \/ Resume(c)
          \/ \E flag \in Flags : Run(c, flag)
          \/ CallStep(c)
    \/ \E i \in Ids : LoopStep(i) \/ SpuriousWakeup(i)

Spec == Init /\ [][Next]_vars

(* Threads that can run do run, and a body comes back: the operations of   *)
(* the class never hold mLock while they block.  Nothing makes a client    *)
(* call, and nothing makes a wait end without a signal.                    *)
FairSpec ==
    /\ Spec
    /\ \A i \in Ids : WF_vars(LoopStep(i))
    /\ \A c \in Callers : WF_vars(CallStep(c))

-----------------------------------------------------------------------------
(* Properties.                                                             *)

(* How libeywa uses the class: one client starts and ends the thread, and  *)
(* nobody restarts a thread after a bare exit().                           *)
Owned == (\A a, b \in Runners : a = b) /\ "exit" \notin ApiOps

(* At most one pthread executes the body of the object, whatever restarts  *)
(* it: run() joins the loop it replaces (XbhMWThread.cpp:81-93).           *)
OneBody ==
    \A i, j \in Ids : loops[i] = "body" /\ loops[j] = "body" => i = j

(* When the object is gone no pthread of it is left that would lock its    *)
(* mutex or read its status.                                               *)
NoLoopAfterDestroy ==
    destroyed => \A i \in Ids : ~Live(i)

(* ONCE is "just loop once": between two executions of the body lies a     *)
(* resume() or a run().                                                    *)
OnceRunsOnce == mStat.once => starts <= 1

(* A caller of run() or exitAndJoin() that waits for the old loop is       *)
(* always let go: a loop that was asked to exit is never parked by a       *)
(* suspend() that comes late.                                              *)
JoinReturns ==
    \A c \in Callers :
        (stage[c] = "joining" /\ call[c] # "destroy") ~> (stage[c] # "joining")

(* A loop that was asked to exit ends, whichever way it was asked, unless  *)
(* a run() that takes the flag for that of a loop that has ended clears it *)
(* first (XbhMWThread.cpp:81).  Such a run() may create a second loop      *)
(* beside the first; what a signal does to two that wait is another        *)
(* matter, since it wakes one.                                             *)
OneLoop == \A i, j \in Ids : Live(i) /\ Live(j) => i = j

ExitEnds == []OneLoop => \A i \in Ids : (mStat.exit /\ Live(i)) ~> (~Live(i) \/ ~mStat.exit)

(* What lets the thread go is not lost: wherever the loop is when resume() *)
(* or run() lets it go, asleep, about to sleep or in the body of a ONCE    *)
(* thread, the body is executed again, unless a suspend() or a request to  *)
(* exit comes first.                                                       *)
ResumeStarts ==
    (starts = 0 /\ ~mStat.wait /\ ~mStat.exit) ~> (starts > 0 \/ mStat.wait \/ mStat.exit)
=============================================================================
