-------------------------- MODULE XbhMsgHubProofs --------------------------
(***************************************************************************)
(* Theorems about XbhMsgHub for any number of producers, handlers and      *)
(* messages: types, no lost wake-up, order, and the safety part of the     *)
(* refinement of EventChannel.                                             *)
(***************************************************************************)
EXTENDS XbhMsgHub, XbhMWThreadProofs, SequenceTheorems

(* No message looks like the absence of one. *)
LEMMA NoMsgIsNone == NoMsg \notin Messages
BY DEF NoMsg, Messages

(* A queue with something in it is its front message and the rest. *)
LEMMA HeadTailConcat ==
    ASSUME NEW S, NEW s \in Seq(S), s # <<>>
    PROVE  s = <<Head(s)>> \o Tail(s)
<1>1. Head(s) = s[1] /\ Len(s) \in Nat \ {0} /\ s[1] \in S
  BY EmptySeq, LenProperties, ElementOfSeq
<1>2. SubSeq(s, 1, Len(s)) = <<s[1]>> \o SubSeq(s, 2, Len(s))
  BY <1>1, SubSeqRecursiveFirst
<1> QED
  BY <1>1, <1>2, SubSeqFull, TailIsSubSeq

(* What the hub does to the reader's thread are steps of XbhMWThread.      *)
LEMMA ThreadSteps ==
    ASSUME HubNext
    PROVE  [Next]_vars
<1> USE HubAssumption, RunnersAssumption
<1>1. CASE HubStart
  BY <1>1 DEF HubStart, Next, Flags
<1>2. CASE Create(Main)
  BY <1>2 DEF Next, CallStep
<1>3. ASSUME NEW p \in Posters, PostPush(p) \/ PostResume(p) PROVE [Next]_vars
  BY <1>3 DEF PostPush, PostResume, ResumeCall, Next
<1>4. ASSUME NEW h \in Handlers, RegisterHandler(h) \/ UnregisterHandler(h) PROVE [Next]_vars
  BY <1>4 DEF RegisterHandler, UnregisterHandler
<1>5. CASE ReadQueue \/ SendTest \/ SendSnapshot \/ SendEnd \/ ReadFree
  BY <1>5 DEF ReadQueue, SendTest, SendSnapshot, SendEnd, ReadFree
<1>6. CASE ReadSuspend
  BY <1>6 DEF ReadSuspend, SuspendCall, Next
<1>7. ASSUME NEW h \in Handlers, NEW done \in BOOLEAN, SendCall(h, done) PROVE [Next]_vars
  BY <1>7 DEF SendCall
<1>8. ASSUME NEW i \in Ids, ReadReturn(i) \/ LoopTest(i) \/ Task(i) \/ SpuriousWakeup(i)
      PROVE  [Next]_vars
  BY <1>8 DEF ReadReturn, Next, LoopStep
<1> QED
  BY <1>1, <1>2, <1>3, <1>4, <1>5, <1>6, <1>7, <1>8 DEF HubNext, ReaderStep

(* The reader holds a message exactly between popping and freeing it.      *)
Hands == reader.msg = NoMsg <=> reader.pc \in {"start", "empty", "return"}

(* Once the reader has found the queue empty it keeps producers out until  *)
(* it has told itself to wait; nobody else tells it to; and a reader that  *)
(* was asked to exit does not wait.                                        *)
Parking ==
    /\ reader.pc = "empty" => queueLock = Reader /\ m_msgQueue = <<>>
    /\ ~mStat.once
    /\ mStat.exit => ~mStat.wait
    /\ NoLostWakeup

HubInv == HubTypeOK /\ Hands /\ Parking /\ InOrder

LEMMA HubInitially ==
    ASSUME HubInit
    PROVE  HubInv
<1>1. HubTypeOK
  <2>1. TypeOK
    BY TypeInit DEF HubInit
  <2>2. <<>> \in Seq(Messages)
    BY EmptySeq
  <2>3. AtRest \in [pc : {"start", "empty", "send", "copy", "iterate", "free", "return"},
                    msg : Messages \union {NoMsg}, set : SUBSET Handlers]
    BY DEF AtRest
  <2> QED
    BY <2>1, <2>2, <2>3 DEF HubInit, HubTypeOK
<1>2. Hands
  BY DEF HubInit, Hands, AtRest
<1>4. Parking
  <2>1. ~mStat.once /\ ~mStat.wait
    BY DEF HubInit, Init
  <2> QED
    BY <2>1 DEF HubInit, Parking, NoLostWakeup, AtRest
<1>3. InOrder
  BY DEF HubInit, InOrder, AtRest, NoMsg
<1> QED
  BY <1>1, <1>2, <1>3, <1>4 DEF HubInv

LEMMA TypePart ==
    ASSUME HubTypeOK, Hands, [HubNext]_allVars
    PROVE  HubTypeOK'
<1> USE HubAssumption
<1>0. TypeOK'
  <2>1. [Next]_vars
    BY ThreadSteps DEF allVars
  <2> QED
    BY <2>1, TypeStep DEF HubTypeOK
<1> USE <1>0 DEF HubTypeOK
<1>1. CASE HubStart
  BY <1>1 DEF HubStart
<1>2. CASE UNCHANGED hubVars
  BY <1>2 DEF hubVars
<1>3. ASSUME NEW p \in Posters, PostPush(p) PROVE HubTypeOK'
  <2> DEFINE m == <<p, Len(posted) + 1>>
  <2>1. m \in Messages
    BY <1>3 DEF PostPush, Messages
  <2>2. m_msgQueue' = Append(m_msgQueue, m) /\ posted' = Append(posted, m)
    BY <1>3 DEF PostPush
  <2> HIDE DEF m
  <2>3. m_msgQueue' \in Seq(Messages) /\ posted' \in Seq(Messages)
    BY <2>1, <2>2, AppendProperties
  <2> QED
    BY <1>3, <2>3 DEF PostPush
<1>4. ASSUME NEW p \in Posters, PostResume(p) PROVE HubTypeOK'
  BY <1>4 DEF PostResume
<1>5. ASSUME NEW h \in Handlers, RegisterHandler(h) \/ UnregisterHandler(h) PROVE HubTypeOK'
  BY <1>5 DEF RegisterHandler, UnregisterHandler
<1>6. CASE ReadQueue
  <2>1. CASE m_msgQueue = <<>>
    BY <1>6, <2>1 DEF ReadQueue
  <2>2. CASE m_msgQueue # <<>>
    <3>1. Head(m_msgQueue) \in Messages /\ Tail(m_msgQueue) \in Seq(Messages)
      BY <2>2, HeadTailProperties
    <3> QED
      BY <1>6, <2>2, <3>1 DEF ReadQueue
  <2> QED
    BY <2>1, <2>2
<1>7. CASE ReadSuspend
  BY <1>7 DEF ReadSuspend
<1>8. CASE SendTest \/ SendSnapshot
  BY <1>8 DEF SendTest, SendSnapshot
<1>9. ASSUME NEW h \in Handlers, NEW done \in BOOLEAN, SendCall(h, done) PROVE HubTypeOK'
  <2>1. reader'.set \in SUBSET Handlers
    BY <1>9 DEF SendCall
  <2> QED
    BY <1>9, <2>1 DEF SendCall
<1>10. CASE SendEnd
  BY <1>10 DEF SendEnd
<1>11. CASE ReadFree
  BY <1>11, AppendProperties DEF ReadFree, Hands, InBody
<1>12. ASSUME NEW i \in Ids, ReadReturn(i) PROVE HubTypeOK'
  BY <1>12 DEF ReadReturn, AtRest, NoMsg
<1> QED
  BY <1>1, <1>2, <1>3, <1>4, <1>5, <1>6, <1>7, <1>8, <1>9, <1>10, <1>11, <1>12
     DEF HubNext, ReaderStep, allVars

LEMMA HandsPart ==
    ASSUME HubTypeOK, Hands, [HubNext]_allVars
    PROVE  Hands'
<1> USE HubAssumption DEF HubTypeOK, Hands
<1>1. CASE UNCHANGED reader
  BY <1>1
<1>2. CASE ReadQueue
  <2>1. CASE m_msgQueue = <<>>
    BY <1>2, <2>1 DEF ReadQueue, InBody
  <2>2. CASE m_msgQueue # <<>>
    <3>1. Head(m_msgQueue) \in Messages
      BY <2>2, HeadTailProperties
    <3> QED
      BY <1>2, <2>2, <3>1, NoMsgIsNone DEF ReadQueue
  <2> QED
    BY <2>1, <2>2
<1>3. CASE ReadSuspend \/ SendTest \/ SendSnapshot \/ SendEnd \/ ReadFree
  BY <1>3 DEF ReadSuspend, SendTest, SendSnapshot, SendEnd, ReadFree, InBody
<1>4. ASSUME NEW h \in Handlers, NEW done \in BOOLEAN, SendCall(h, done) PROVE Hands'
  BY <1>4 DEF SendCall, InBody
<1>5. ASSUME NEW i \in Ids, ReadReturn(i) PROVE Hands'
  BY <1>5 DEF ReadReturn, AtRest
<1> QED
  BY <1>1, <1>2, <1>3, <1>4, <1>5
     DEF HubNext, ReaderStep, HubStart, PostPush, PostResume, RegisterHandler, UnregisterHandler,
         allVars, hubVars

(* What each step of the thread leaves in the status word. *)
LEMMA StatusFacts ==
    ASSUME TypeOK, HubNext, ~mStat.once, mStat.exit => ~mStat.wait
    PROVE  /\ ~mStat'.once
           /\ mStat'.exit => ~mStat'.wait
           /\ mStat'.wait => mStat.wait \/ ReadSuspend
<1> USE DEF TypeOK, Stats
<1>1. CASE UNCHANGED mStat
  BY <1>1
<1>2. CASE HubStart
  <2>1. CASE RequestExit
    BY <2>1 DEF RequestExit
  <2>2. CASE mStat' = Released({})
    BY <2>2 DEF Released
  <2> QED
    BY <1>2, <2>1, <2>2 DEF HubStart, Run
<1>3. CASE ReadSuspend
  BY <1>3 DEF ReadSuspend, SuspendCall, Suspend, vars
<1>4. ASSUME NEW p \in Posters, PostResume(p)
      PROVE  ~mStat'.once /\ (mStat'.exit => ~mStat'.wait) /\ (mStat'.wait => mStat.wait)
  BY <1>4 DEF PostResume, ResumeCall, Resume, vars
<1>5. ASSUME NEW i \in Ids, Task(i)
      PROVE  ~mStat'.once /\ (mStat'.exit => ~mStat'.wait) /\ (mStat'.wait => mStat.wait)
  <2>1. CASE mStat' = [mStat EXCEPT !.wait = mStat.once]
    <3>1. mStat' = [mStat EXCEPT !.wait = FALSE]
      BY <2>1, Zenon
    <3> QED
      BY <3>1
  <2> QED
    BY <1>1, <1>5, <2>1 DEF Task
<1> QED
  BY <1>1, <1>2, <1>3, <1>4, <1>5
     DEF HubNext, ReaderStep, Create, PostPush, RegisterHandler, UnregisterHandler, ReadQueue,
         SendTest, SendSnapshot, SendCall, SendEnd, ReadFree, ReadReturn, BodyReturn, LoopTest,
         SpuriousWakeup, vars

LEMMA ParkingPart ==
    ASSUME HubTypeOK, Parking, [HubNext]_allVars
    PROVE  Parking'
<1> USE HubAssumption DEF HubTypeOK, Parking, NoLostWakeup
<1>1. CASE UNCHANGED allVars
  BY <1>1 DEF allVars, hubVars, vars
<1> SUFFICES ASSUME HubNext PROVE Parking'
  BY <1>1
<1>2. /\ ~mStat'.once
      /\ mStat'.exit => ~mStat'.wait
      /\ mStat'.wait => mStat.wait \/ ReadSuspend
  BY StatusFacts
<1>3. CASE UNCHANGED <<m_msgQueue, queueLock, reader>>
  BY <1>2, <1>3 DEF ReadSuspend, InBody
<1>4. ASSUME NEW p \in Posters, PostPush(p) PROVE Parking'
  BY <1>2, <1>4 DEF PostPush
<1>5. ASSUME NEW p \in Posters, PostResume(p) PROVE Parking'
  <2>1. ~mStat'.wait
    BY <1>5 DEF PostResume, ResumeCall, Resume, vars, TypeOK, Stats
  <2>2. reader'.pc # "empty"
    BY <1>5 DEF PostResume
  <2> QED
    BY <1>2, <2>1, <2>2
<1>6. CASE ReadQueue
  BY <1>2, <1>6 DEF ReadQueue, ReadSuspend, InBody
<1>7. CASE ReadSuspend
  BY <1>2, <1>7 DEF ReadSuspend, InBody
<1>8. CASE SendTest \/ SendSnapshot \/ SendEnd \/ ReadFree
  BY <1>2, <1>8 DEF SendTest, SendSnapshot, SendEnd, ReadFree, ReadSuspend, InBody, vars
<1>9. ASSUME NEW h \in Handlers, NEW done \in BOOLEAN, SendCall(h, done) PROVE Parking'
  BY <1>2, <1>9 DEF SendCall, ReadSuspend, InBody, vars
<1>10. ASSUME NEW i \in Ids, ReadReturn(i) PROVE Parking'
  BY <1>2, <1>10 DEF ReadReturn, ReadSuspend, InBody, AtRest, BodyReturn
<1> QED
  BY <1>3, <1>4, <1>5, <1>6, <1>7, <1>8, <1>9, <1>10
     DEF HubNext, ReaderStep, HubStart, RegisterHandler, UnregisterHandler, hubVars

(* Popping moves a message from the queue to the hands, freeing from there *)
(* to the handled ones; what was posted stays the concatenation.           *)
LEMMA OrderPart ==
    ASSUME HubTypeOK, Hands, InOrder, [HubNext]_allVars
    PROVE  InOrder'
<1> DEFINE Held(msg) == IF msg = NoMsg THEN <<>> ELSE <<msg>>
<1> USE HubAssumption DEF HubTypeOK
<1>0. posted = handled \o Held(reader.msg) \o m_msgQueue
  BY DEF InOrder
<1>1. SUFFICES posted' = handled' \o Held(reader'.msg) \o m_msgQueue'
  BY DEF InOrder
<1>2. \A msg \in Messages : Held(msg) = <<msg>> /\ <<msg>> \in Seq(Messages)
  BY NoMsgIsNone
<1>3. Held(NoMsg) = <<>> /\ <<>> \in Seq(Messages)
  OBVIOUS
<1>4. Held(reader.msg) \in Seq(Messages)
  BY <1>2, <1>3
<1> HIDE DEF Held
<1>5. CASE UNCHANGED <<posted, handled, m_msgQueue>> /\ reader'.msg = reader.msg
  BY <1>0, <1>5
<1>6. ASSUME NEW p \in Posters, PostPush(p) PROVE posted' = handled' \o Held(reader'.msg) \o m_msgQueue'
  <2> DEFINE m == <<p, Len(posted) + 1>>
             before == handled \o Held(reader.msg)
  <2>1. m \in Messages
    BY <1>6 DEF PostPush, Messages
  <2>2. m_msgQueue' = Append(m_msgQueue, m) /\ posted' = Append(posted, m)
    BY <1>6 DEF PostPush
  <2>3. reader' = reader /\ handled' = handled
    BY <1>6 DEF PostPush
  <2>4. before \in Seq(Messages)
    BY <1>4, ConcatProperties
  <2>5. posted = before \o m_msgQueue
    BY <1>0
  <2> HIDE DEF m, before
  <2>6. posted' = (before \o m_msgQueue) \o <<m>>
    BY <2>1, <2>2, <2>5, AppendIsConcat
  <2>7. m_msgQueue' = m_msgQueue \o <<m>>
    BY <2>1, <2>2, AppendIsConcat
  <2>8. posted' = before \o (m_msgQueue \o <<m>>)
    BY <2>1, <2>4, <2>6, <1>2, ConcatAssociative
  <2> QED
    BY <2>3, <2>7, <2>8 DEF before
<1>7. CASE ReadQueue
  <2>1. CASE m_msgQueue = <<>>
    BY <1>5, <1>7, <2>1 DEF ReadQueue
  <2>2. CASE m_msgQueue # <<>>
    <3> DEFINE m == Head(m_msgQueue)
               rest == Tail(m_msgQueue)
    <3>1. m \in Messages /\ rest \in Seq(Messages)
      BY <2>2, HeadTailProperties
    <3>2. reader'.msg = m /\ m_msgQueue' = rest /\ posted' = posted /\ handled' = handled
      BY <1>7, <2>2 DEF ReadQueue
    <3>3. reader.msg = NoMsg
      BY <1>7 DEF ReadQueue, InBody, Hands
    <3>4. m_msgQueue = <<m>> \o rest
      BY <2>2, HeadTailConcat
    <3> HIDE DEF m, rest
    <3>5. posted = handled \o m_msgQueue
      BY <1>0, <1>3, <3>3, ConcatEmptySeq
    <3>6. posted = handled \o <<m>> \o rest
      BY <1>2, <3>1, <3>4, <3>5, ConcatAssociative
    <3> QED
      BY <1>2, <3>1, <3>2, <3>6
  <2> QED
    BY <2>1, <2>2
<1>8. CASE ReadSuspend \/ SendTest \/ SendSnapshot \/ SendEnd
  BY <1>5, <1>8 DEF ReadSuspend, SendTest, SendSnapshot, SendEnd
<1>9. ASSUME NEW h \in Handlers, NEW done \in BOOLEAN, SendCall(h, done)
      PROVE  UNCHANGED <<posted, handled, m_msgQueue>> /\ reader'.msg = reader.msg
  BY <1>9 DEF SendCall
<1>10. CASE ReadFree
  <2>1. reader.msg \in Messages
    BY <1>10 DEF ReadFree, InBody, Hands
  <2>2. handled' = handled \o <<reader.msg>> /\ reader'.msg = NoMsg
    BY <1>10, <2>1, AppendIsConcat DEF ReadFree
  <2>3. posted' = posted /\ m_msgQueue' = m_msgQueue
    BY <1>10 DEF ReadFree
  <2>4. handled \o <<reader.msg>> \in Seq(Messages)
    BY <1>2, <2>1, ConcatProperties
  <2>5. handled' \o Held(reader'.msg) = handled \o <<reader.msg>>
    BY <1>3, <2>2, <2>4, ConcatEmptySeq
  <2> QED
    BY <1>0, <1>2, <2>1, <2>3, <2>5
<1>11. ASSUME NEW i \in Ids, ReadReturn(i)
       PROVE  UNCHANGED <<posted, handled, m_msgQueue>> /\ reader'.msg = reader.msg
  BY <1>11 DEF ReadReturn, AtRest, Hands
<1> QED
  BY <1>5, <1>6, <1>7, <1>8, <1>9, <1>10, <1>11
     DEF HubNext, ReaderStep, HubStart, PostResume, RegisterHandler, UnregisterHandler, allVars, hubVars

(* The invariant of the hub, inductive: types, the message in the reader's *)
(* hands, who keeps whom out of the queue, and the order.                  *)
THEOREM HubInvariant == HubSpec => []HubInv
<1>1. HubInit => HubInv
  BY HubInitially
<1>2. HubInv /\ [HubNext]_allVars => HubInv'
  BY TypePart, HandsPart, ParkingPart, OrderPart DEF HubInv
<1> QED
  BY <1>1, <1>2, PTL DEF HubSpec

(* Type correctness: the queue and the two histories hold messages only,   *)
(* and the lock has a holder that exists.                                  *)
THEOREM HubTypeCorrect == HubSpec => []HubTypeOK
BY HubInvariant, PTL DEF HubInv

(* A reader that was told to wait has nothing to read but the message of a *)
(* producer that is about to resume it (XbhMsgHub.cpp:183, 208).           *)
THEOREM NoLostWakeupTheorem == HubSpec => []NoLostWakeup
<1>1. HubInv => NoLostWakeup
  BY DEF HubInv, Parking
<1> QED
  BY <1>1, HubInvariant, PTL

(* Every posted message is handled, held or queued, in the order posted.   *)
THEOREM InOrderTheorem == HubSpec => []InOrder
BY HubInvariant, PTL DEF HubInv

(* What stands in the middle of three is the first after the first part. *)
LEMMA MiddleOfConcat ==
    ASSUME NEW S, NEW s \in Seq(S), NEW e \in S, NEW t \in Seq(S)
    PROVE  LET all == s \o <<e>> \o t
           IN  Len(s) < Len(all) /\ all[Len(s) + 1] = e
<1> DEFINE longer == Append(s, e)
           all == longer \o t
<1>1. s \o <<e>> \o t = all
  BY AppendIsConcat
<1>2. longer \in Seq(S) /\ Len(longer) = Len(s) + 1 /\ longer[Len(s) + 1] = e
  BY AppendProperties
<1>3. Len(s) \in Nat /\ Len(t) \in Nat
  BY LenProperties
<1> HIDE DEF longer
<1>4. Len(all) = Len(longer) + Len(t)
  BY <1>2, ConcatProperties
<1>5. \A i \in 1..Len(longer) + Len(t) :
         all[i] = IF i <= Len(longer) THEN longer[i] ELSE t[i - Len(longer)]
  BY <1>2, ConcatProperties
<1>6. all[Len(s) + 1] = longer[Len(s) + 1]
  BY <1>2, <1>3, <1>5
<1> HIDE DEF all
<1> QED
  BY <1>1, <1>2, <1>3, <1>4, <1>6

(* What is handled next is what was posted next. *)
LEMMA NextInOrder ==
    ASSUME HubTypeOK, InOrder, reader.msg \in Messages
    PROVE  Len(handled) < Len(posted) /\ posted[Len(handled) + 1] = reader.msg
<1>1. posted = handled \o <<reader.msg>> \o m_msgQueue
  BY NoMsgIsNone DEF InOrder
<1> QED
  BY <1>1, MiddleOfConcat DEF HubTypeOK

(* The hub implements the event channel, as far as safety goes: what it    *)
(* hands to the handlers is what was posted, once and in that order.       *)
THEOREM ChannelSafety == HubSpec => Channel!Safe
<1>1. HubInit => Channel!Init
  BY DEF HubInit, Channel!Init
<1>2. HubInv /\ [HubNext]_allVars => [Channel!Next]_(Channel!chan)
  <2> SUFFICES ASSUME HubInv, [HubNext]_allVars PROVE [Channel!Next]_(Channel!chan)
    OBVIOUS
  <2> USE HubAssumption DEF Channel!chan
  <2>1. CASE UNCHANGED <<posted, handled>>
    BY <2>1
  <2>2. ASSUME NEW p \in Posters, PostPush(p) PROVE Channel!Next
    <3> DEFINE m == <<p, Len(posted) + 1>>
    <3>1. m \in Messages
      BY <2>2 DEF PostPush, Messages, HubInv, HubTypeOK
    <3>2. posted' = Append(posted, m) /\ handled' = handled
      BY <2>2 DEF PostPush
    <3> QED
      BY <3>1, <3>2 DEF Channel!Next, Channel!Post
  <2>3. CASE ReadFree
    <3>1. reader.msg \in Messages
      BY <2>3 DEF ReadFree, InBody, HubInv, HubTypeOK, Hands
    <3>2. Len(handled) < Len(posted) /\ posted[Len(handled) + 1] = reader.msg
      BY <3>1, NextInOrder DEF HubInv
    <3> QED
      BY <2>3, <3>2 DEF ReadFree, Channel!Next, Channel!Handle
  <2> QED
    BY <2>1, <2>2, <2>3
       DEF HubNext, ReaderStep, HubStart, PostResume, RegisterHandler, UnregisterHandler, ReadQueue,
           ReadSuspend, SendTest, SendSnapshot, SendCall, SendEnd, ReadReturn, allVars, hubVars
<1> QED
  BY <1>1, <1>2, HubInvariant, PTL DEF HubSpec, Channel!Safe

-----------------------------------------------------------------------------
(* What is proved of XbhMWThread holds of the reader's thread.             *)
THEOREM HubUsesThread == HubSpec => Spec
<1>1. HubInit => Init
  BY DEF HubInit
<1>2. [HubNext]_allVars => [Next]_vars
  BY ThreadSteps DEF allVars
<1> QED
  BY <1>1, <1>2, PTL DEF HubSpec, Spec

(* Only the constructor is ever inside of a call, and what the reader has  *)
(* in hand belongs to a body that is under way.                            *)
ReaderInv ==
    /\ \A c \in Callers : stage[c] # "idle" => c = Main
    /\ OwnedInv
    /\ reader = AtRest \/ \E i \in Ids : loops[i] = "body"

LEMMA ReaderInvStep ==
    ASSUME HubTypeOK, ReaderInv, [HubNext]_allVars
    PROVE  ReaderInv'
<1> USE HubAssumption, RunnersAssumption
<1> DEFINE Alone == \A c \in Callers : stage[c] # "idle" => c = Main
           InUse == reader = AtRest \/ \E i \in Ids : loops[i] = "body"
           StillInUse == \A i \in Ids : loops[i] = "body" => loops'[i] = "body"
<1>1. TypeOK /\ OwnedInv /\ Solo /\ Alone /\ InUse
  BY DEF HubTypeOK, ReaderInv, Solo
<1>2. ASSUME Alone', InUse', OwnedNext PROVE ReaderInv'
  <2>1. Solo'
    BY <1>2 DEF Solo
  <2> QED
    BY <1>1, <1>2, <2>1, OwnedStep DEF ReaderInv
<1>3. ASSUME UNCHANGED reader, StillInUse PROVE InUse'
  BY <1>1, <1>3
<1>4. ASSUME UNCHANGED stage PROVE Alone'
  BY <1>1, <1>4
<1>5. ASSUME UNCHANGED vars, \/ UNCHANGED reader
                             \/ \E i \in Ids : loops[i] = "body"
      PROVE  ReaderInv'
  <2>1. OwnedNext /\ UNCHANGED stage /\ UNCHANGED loops
    BY <1>5 DEF OwnedNext, vars, apiVars
  <2> QED
    BY <1>1, <1>2, <1>4, <1>5, <2>1
<1>6. CASE HubStart
  <2>1. Run(Main, {}) /\ UNCHANGED reader
    BY <1>6 DEF HubStart
  <2>2. Alone'
    BY <1>1, <2>1 DEF Run, GoOn, TypeOK
  <2>3. OwnedNext
    BY <2>1 DEF OwnedNext, Flags
  <2>4. StillInUse
    BY <1>1, <2>1, SignalledFacts DEF Run, RequestExit, TypeOK
  <2> QED
    BY <1>2, <1>3, <2>1, <2>2, <2>3, <2>4
<1>7. CASE Create(Main) /\ UNCHANGED hubVars
  <2>1. Alone'
    BY <1>1, <1>7 DEF Create, Leave, GoOn, TypeOK
  <2>2. OwnedNext
    BY <1>7 DEF OwnedNext, CallStep
  <2>3. StillInUse
    BY <1>1, <1>7 DEF Create, TypeOK
  <2> QED
    BY <1>2, <1>3, <1>7, <2>1, <2>2, <2>3 DEF hubVars
<1>8. ASSUME NEW p \in Posters, PostPush(p) PROVE ReaderInv'
  BY <1>5, <1>8 DEF PostPush
<1>9. ASSUME NEW p \in Posters, PostResume(p) PROVE ReaderInv'
  <2>1. CASE Resume(p)
    <3>1. OwnedNext
      BY <2>1 DEF OwnedNext
    <3>2. StillInUse /\ UNCHANGED stage
      BY <1>1, <2>1, SignalledFacts DEF Resume, TypeOK, apiVars
    <3> QED
      BY <1>2, <1>3, <1>4, <1>9, <3>1, <3>2 DEF PostResume
  <2> QED
    BY <1>5, <1>9, <2>1 DEF PostResume, ResumeCall
<1>10. ASSUME NEW h \in Handlers, RegisterHandler(h) \/ UnregisterHandler(h) PROVE ReaderInv'
  BY <1>5, <1>10 DEF RegisterHandler, UnregisterHandler
<1>11. CASE ReadQueue \/ SendTest \/ SendSnapshot \/ SendEnd \/ ReadFree
  BY <1>5, <1>11 DEF ReadQueue, SendTest, SendSnapshot, SendEnd, ReadFree, InBody
<1>12. ASSUME NEW h \in Handlers, NEW done \in BOOLEAN, SendCall(h, done) PROVE ReaderInv'
  BY <1>5, <1>12 DEF SendCall, InBody
<1>13. CASE ReadSuspend
  <2>1. CASE Suspend(Reader)
    <3>1. OwnedNext
      BY <2>1 DEF OwnedNext
    <3>2. UNCHANGED <<loops, stage>>
      BY <2>1 DEF Suspend, apiVars
    <3>3. InUse'
      BY <1>13, <3>2 DEF ReadSuspend, InBody
    <3> QED
      BY <1>2, <1>4, <3>1, <3>2, <3>3
  <2> QED
    BY <1>5, <1>13, <2>1 DEF ReadSuspend, SuspendCall, InBody
<1>14. ASSUME NEW i \in Ids, ReadReturn(i) PROVE ReaderInv'
  <2>1. OwnedNext /\ UNCHANGED stage /\ InUse'
    BY <1>14 DEF ReadReturn, BodyReturn, OwnedNext, LoopStep, apiVars
  <2> QED
    BY <1>2, <1>4, <2>1
<1>15. ASSUME NEW i \in Ids, LoopTest(i) \/ Task(i) \/ SpuriousWakeup(i), UNCHANGED hubVars PROVE ReaderInv'
  <2>1. OwnedNext
    BY <1>15 DEF OwnedNext, LoopStep
  <2>2. StillInUse /\ UNCHANGED stage
    BY <1>1, <1>15 DEF LoopTest, Task, SpuriousWakeup, TypeOK, apiVars
  <2> QED
    BY <1>2, <1>3, <1>4, <1>15, <2>1, <2>2 DEF hubVars
<1>16. CASE UNCHANGED allVars
  BY <1>5, <1>16 DEF allVars, hubVars
<1> QED
  BY <1>6, <1>7, <1>8, <1>9, <1>10, <1>11, <1>12, <1>13, <1>14, <1>15, <1>16 DEF HubNext, ReaderStep

(* There is one reader, whoever resumes it: what it has popped and not yet *)
(* freed is in the hands of the one pthread that is in MsgReader.          *)
OneReader ==
    /\ OneBody
    /\ reader # AtRest => \E i \in Ids : loops[i] = "body"

THEOREM OneReaderTheorem == HubSpec => []OneReader
<1>1. HubInit => ReaderInv
  BY OwnedInit DEF HubInit, Init, ReaderInv
<1>2. HubTypeOK /\ ReaderInv /\ [HubNext]_allVars => ReaderInv'
  BY ReaderInvStep
<1>3. ReaderInv => OneReader
  BY DEF ReaderInv, OwnedInv, OneReader, OneBody, Live
<1> QED
  BY <1>1, <1>2, <1>3, HubTypeCorrect, PTL DEF HubSpec
=============================================================================
