--------------------------- MODULE SourceProofs ---------------------------
(***************************************************************************)
(* Theorems about SourceSwitch and SourcePoll for any sources, delays,     *)
(* circumstances and number of requests: first what the follow thread, the *)
(* HDMI switch and 5V DET come to when everything is at rest, then, with   *)
(* the poll beside them, the reported signal, 5V DET again, and when the   *)
(* USB sound card comes and when it may not.                               *)
(***************************************************************************)
EXTENDS SourcePoll, SequenceTheorems, TLAPS

Queued == {Message(s) : s \in Sources}

(* Without delays the first message due is the first there is. *)
LEMMA RemoveFirstIsTail ==
    ASSUME NEW S, NEW list \in Seq(S), NEW k \in DOMAIN list, k = 1
    PROVE  /\ list # <<>>
           /\ FollowQueue!RemoveAt(list, k) = Tail(list)
           /\ HdmiQueue!RemoveAt(list, k) = Tail(list)
<1>1. list # <<>> /\ Len(list) \in Nat \ {0}
  BY EmptySeq, LenProperties
<1>2. SubSeq(list, 1, 0) = <<>> /\ SubSeq(list, 2, Len(list)) = Tail(list)
  BY <1>1, SubSeqEmpty, TailIsSubSeq
<1>3. Tail(list) \in Seq(S)
  BY <1>1, HeadTailProperties
<1>4. <<>> \o Tail(list) = Tail(list)
  BY <1>3, ConcatEmptySeq
<1> QED
  BY <1>1, <1>2, <1>4 DEF FollowQueue!RemoveAt, HdmiQueue!RemoveAt

LEMMA FollowGetsHead ==
    ASSUME followList \in Seq(Queued), NEW src, FollowQueue!getMsg(src, Now)
    PROVE  /\ followList # <<>> /\ followList[1].args = src /\ src \in Sources
           /\ followList' = Tail(followList)
           /\ followWait' = followWait
<1>1. PICK k \in DOMAIN followList :
         /\ \A j \in 1..(k - 1) : ~FollowQueue!Due(j, Now)
         /\ src = followList[k].args
         /\ followList' = FollowQueue!RemoveAt(followList, k)
         /\ followWait' = followWait
  BY DEF FollowQueue!getMsg
<1>2. DOMAIN followList = 1..Len(followList) /\ Len(followList) \in Nat
  BY LenProperties
<1>3. \A j \in 1..Len(followList) : followList[j] \in Queued
  BY ElementOfSeq
<1>4. \A j \in 1..Len(followList) : FollowQueue!Due(j, Now)
  BY <1>3 DEF Queued, Message, FollowQueue!Due, Now
<1>5. k = 1
  BY <1>1, <1>2, <1>4
<1> QED
  BY <1>1, <1>2, <1>3, <1>5, RemoveFirstIsTail DEF Queued, Message

LEMMA HdmiGetsHead ==
    ASSUME hdmiList \in Seq(Queued), NEW src, HdmiQueue!getMsg(src, Now)
    PROVE  /\ hdmiList # <<>> /\ hdmiList[1].args = src /\ src \in Sources
           /\ hdmiList' = Tail(hdmiList)
           /\ hdmiWait' = hdmiWait
<1>1. PICK k \in DOMAIN hdmiList :
         /\ \A j \in 1..(k - 1) : ~HdmiQueue!Due(j, Now)
         /\ src = hdmiList[k].args
         /\ hdmiList' = HdmiQueue!RemoveAt(hdmiList, k)
         /\ hdmiWait' = hdmiWait
  BY DEF HdmiQueue!getMsg
<1>2. DOMAIN hdmiList = 1..Len(hdmiList) /\ Len(hdmiList) \in Nat
  BY LenProperties
<1>3. \A j \in 1..Len(hdmiList) : hdmiList[j] \in Queued
  BY ElementOfSeq
<1>4. \A j \in 1..Len(hdmiList) : HdmiQueue!Due(j, Now)
  BY <1>3 DEF Queued, Message, HdmiQueue!Due, Now
<1>5. k = 1
  BY <1>1, <1>2, <1>4
<1> QED
  BY <1>1, <1>2, <1>3, <1>5, RemoveFirstIsTail DEF Queued, Message

LEMMA TailInSeq ==
    ASSUME NEW S, NEW list \in Seq(S), list # <<>>
    PROVE  /\ Tail(list) \in Seq(S)
           /\ Len(list) \in Nat \ {0} /\ Len(Tail(list)) = Len(list) - 1
           /\ \A i \in 1..(Len(list) - 1) : Tail(list)[i] = list[i + 1]
<1>1. Len(list) \in Nat /\ Len(list) # 0
  BY EmptySeq, LenProperties
<1> QED
  BY <1>1, HeadTailProperties

LEMMA AppendInSeq ==
    ASSUME NEW S, NEW list \in Seq(S), NEW e \in S
    PROVE  /\ Append(list, e) \in Seq(S)
           /\ Append(list, e) # <<>>
           /\ Len(list) \in Nat /\ Len(Append(list, e)) = Len(list) + 1
           /\ \A i \in 1..Len(list) : Append(list, e)[i] = list[i]
           /\ Append(list, e)[Len(list) + 1] = e
  BY AppendProperties, LenProperties

(* A post appends a message for the source. *)
LEMMA PostAppends ==
    ASSUME NEW src \in Sources
    PROVE  /\ Message(src) \in Queued
           /\ FollowQueue!postMsg(src, 0, Now)
                 => followList' = Append(followList, Message(src)) /\ followWait' = FALSE
           /\ HdmiQueue!postMsg(src, 0, Now)
                 => hdmiList' = Append(hdmiList, Message(src)) /\ hdmiWait' = FALSE
<1>1. Now + 0 = Now
  BY DEF Now
<1> QED
  BY <1>1 DEF Queued, Message, FollowQueue!postMsg, FollowQueue!Posted, HdmiQueue!postMsg,
              HdmiQueue!Posted

-----------------------------------------------------------------------------
(* The parts of SourceTypeOK, one per owner. *)
RequestType ==
    /\ conditions \in Circumstances
    /\ request \in [op : {"none", "select", "switch", "usb"}, src : Sources,
                    pc : {"idle", "source", "note", "follow", "hdmi"}]
    /\ requests \in 0..MaxRequests
    /\ mCurrentSrc \in Sources

FollowType ==
    /\ followList \in Seq(Queued) /\ followWait \in BOOLEAN
    /\ mChangeToSrc \in Sources \union {Unset}
    /\ usbRoute \in Sources \union {Unset}
    /\ lastFollow \in Sources \union {Unset}
    /\ followed \in Sources /\ armed \in Sources
    /\ follow \in {"init", "get", "compare", "adopt", "route", "arm"}
    /\ follow \in {"compare", "adopt", "route"} => mChangeToSrc \in Sources

HdmiType ==
    /\ hdmiList \in Seq(Queued) /\ hdmiWait \in BOOLEAN
    /\ rx5vDet \in BOOLEAN /\ chipReady \in BOOLEAN
    /\ lastPort \in Sources \union {Unset}
    /\ changeToSrc \in Sources \union {Unset, Junk}
    /\ hdmi \in {"get", "raise", "switch", "lock"}
    /\ activePort \in SwitchPorts \union {Unset}

TypeInv == RequestType /\ FollowType /\ HdmiType

LEMMA TypeInvIsTypeOK ==
    ASSUME TypeInv
    PROVE  SourceTypeOK
<1>1. /\ followList \in Seq({Message(s) : s \in Sources})
      /\ hdmiList \in Seq({Message(s) : s \in Sources})
  BY DEF TypeInv, FollowType, HdmiType, Queued
<1> QED
  BY <1>1 DEF TypeInv, RequestType, FollowType, HdmiType, SourceTypeOK

(* A step of the three threads, the requests or the chip. *)
Step == Next \/ UNCHANGED vars

LEMMA InitialTypes ==
    ASSUME Init
    PROVE  TypeInv
<1>1. <<>> \in Seq(Queued)
  BY EmptySeq
<1>2. RequestType
  BY SourceAssumption DEF Init, RequestType, NoRequest, Sources
<1>3. FollowType
  BY <1>1 DEF Init, FollowType, Sources, FollowQueue!InitQueue
<1>4. HdmiType
  BY <1>1 DEF Init, HdmiType, HdmiQueue!InitQueue
<1> QED
  BY <1>2, <1>3, <1>4 DEF TypeInv

LEMMA RequestTypePart ==
    ASSUME TypeInv, Step
    PROVE  RequestType'
<1> USE SourceAssumption DEF TypeInv, RequestType
<1>1. CASE UNCHANGED <<conditions, request, requests, mCurrentSrc>>
  BY <1>1
<1>2. ASSUME NEW op \in {"select", "switch", "usb"}, NEW src \in Sources,
             NEW pc \in {"source", "note"}, Ask(op, src, pc)
      PROVE  RequestType'
  BY <1>2 DEF Ask
<1>3. CASE RequestStep
  BY <1>3 DEF RequestStep, SetCurrent, SetFollowPort, PostFollow, PostHdmi, NoRequest, Sources
<1>4. ASSUME NEW op \in {"select", "switch"}, AskAndroid(op) PROVE RequestType'
  BY <1>2, <1>4 DEF AskAndroid, Sources
<1>5. ASSUME NEW op \in {"select", "switch"}, NEW src \in Inputs, AskInput(op, src) PROVE RequestType'
  BY <1>2, <1>5 DEF AskInput, Sources
<1>6. ASSUME NEW src \in Sources, AskUsb(src) PROVE RequestType'
  BY <1>2, <1>6 DEF AskUsb
<1>7. CASE FollowStep
  BY <1>1, <1>7 DEF FollowStep, FollowInit, FollowGet, FollowCompare, FollowAdopt, FollowRoute,
                    FollowArm, FollowOnly, sourceVars
<1>8. CASE HdmiStep \/ CreateChip
  BY <1>1, <1>8 DEF HdmiStep, HdmiGet, HdmiRaise, HdmiSwitch, HdmiLock, CreateChip, HdmiOnly, sourceVars
<1> QED
  BY <1>1, <1>3, <1>4, <1>5, <1>6, <1>7, <1>8 DEF Step, Next, vars, sourceVars

LEMMA FollowTypePart ==
    ASSUME TypeInv, Step
    PROVE  FollowType'
<1> USE SourceAssumption DEF TypeInv, FollowType
<1>1. CASE UNCHANGED <<followVars, followList, followWait, lastFollow>>
  BY <1>1 DEF followVars
<1>2. CASE SetCurrent \/ PostHdmi
  BY <1>1, <1>2 DEF SetCurrent, PostHdmi, queues, history
<1>3. CASE SetFollowPort
  BY <1>3 DEF SetFollowPort, RequestType, queues, history
<1>4. CASE PostFollow
  <2>0. /\ followList' = Append(followList, Message(request.src)) /\ followWait' = FALSE
        /\ Message(request.src) \in Queued
    BY <1>4, PostAppends DEF PostFollow, RequestType
  <2>1. followList' \in Seq(Queued) /\ followWait' = FALSE
    BY <2>0, AppendInSeq
  <2> QED
    BY <1>4, <2>1 DEF PostFollow, RequestType, followVars
<1>5. CASE FollowGet
  <2>1. ASSUME NEW src \in Sources, FollowQueue!getMsg(src, Now), mChangeToSrc' = src, follow' = "compare"
        PROVE  FollowType'
    <3>0. followList # <<>> /\ followList' = Tail(followList) /\ followWait' = followWait
      BY <2>1, FollowGetsHead
    <3>1. followList' \in Seq(Queued) /\ followWait' = followWait
      BY <3>0, TailInSeq
    <3> QED
      BY <1>5, <2>1, <3>1 DEF FollowGet, FollowOnly, history
  <2>2. CASE FollowQueue!getMsgEmpty /\ UNCHANGED <<mChangeToSrc, follow>>
    BY <1>5, <2>2 DEF FollowGet, FollowQueue!getMsgEmpty, FollowOnly, history
  <2> QED
    BY <1>5, <2>1, <2>2 DEF FollowGet
<1>6. CASE FollowInit \/ FollowCompare \/ FollowAdopt \/ FollowRoute \/ FollowArm
  BY <1>6 DEF FollowInit, FollowCompare, FollowAdopt, FollowRoute, FollowArm, FollowOnly, history, Sources
<1>7. CASE HdmiStep \/ CreateChip
  BY <1>1, <1>7 DEF HdmiStep, HdmiGet, HdmiRaise, HdmiSwitch, HdmiLock, CreateChip, HdmiOnly, history
<1>8. ASSUME NEW op, NEW src, NEW pc, Ask(op, src, pc) PROVE FollowType'
  BY <1>1, <1>8 DEF Ask, queues, history
<1> QED
  BY <1>1, <1>2, <1>3, <1>4, <1>5, <1>6, <1>7, <1>8
     DEF Step, Next, RequestStep, FollowStep, AskAndroid, AskInput, AskUsb, vars, queues, history

LEMMA HdmiTypePart ==
    ASSUME TypeInv, Step
    PROVE  HdmiType'
<1> USE SourceAssumption DEF TypeInv, HdmiType
<1>1. CASE UNCHANGED <<hdmiVars, hdmiList, hdmiWait, lastPort>>
  BY <1>1 DEF hdmiVars
<1>2. CASE SetCurrent \/ SetFollowPort \/ PostFollow
  BY <1>1, <1>2 DEF SetCurrent, SetFollowPort, PostFollow, queues, history
<1>3. CASE PostHdmi
  <2>0. /\ hdmiList' = Append(hdmiList, Message(request.src)) /\ hdmiWait' = FALSE
        /\ Message(request.src) \in Queued
    BY <1>3, PostAppends DEF PostHdmi, RequestType
  <2>1. hdmiList' \in Seq(Queued) /\ hdmiWait' = FALSE
    BY <2>0, AppendInSeq
  <2> QED
    BY <1>3, <2>1 DEF PostHdmi, RequestType, hdmiVars
<1>4. CASE HdmiGet
  <2>1. ASSUME NEW src \in Sources, HdmiQueue!getMsg(src, Now), changeToSrc' \in Filled(src),
               hdmi' = "raise"
        PROVE  HdmiType'
    <3>0. hdmiList # <<>> /\ hdmiList' = Tail(hdmiList) /\ hdmiWait' = hdmiWait
      BY <2>1, HdmiGetsHead
    <3>1. hdmiList' \in Seq(Queued) /\ hdmiWait' = hdmiWait
      BY <3>0, TailInSeq
    <3>2. changeToSrc' \in Sources \union {Unset, Junk}
      BY <2>1 DEF Filled
    <3> QED
      BY <1>4, <2>1, <3>1, <3>2 DEF HdmiGet, HdmiOnly, history
  <2>2. CASE HdmiQueue!getMsgEmpty /\ UNCHANGED <<changeToSrc, hdmi>>
    BY <1>4, <2>2 DEF HdmiGet, HdmiQueue!getMsgEmpty, HdmiOnly, history
  <2> QED
    BY <1>4, <2>1, <2>2 DEF HdmiGet
<1>5. CASE HdmiRaise \/ HdmiSwitch \/ HdmiLock \/ CreateChip
  BY <1>5 DEF HdmiRaise, HdmiSwitch, HdmiLock, CreateChip, HdmiOnly, history
<1>6. CASE FollowStep
  BY <1>1, <1>6 DEF FollowStep, FollowInit, FollowGet, FollowCompare, FollowAdopt, FollowRoute,
                    FollowArm, FollowOnly, history
<1>7. ASSUME NEW op, NEW src, NEW pc, Ask(op, src, pc), rx5vDet' \in {rx5vDet, FALSE} PROVE HdmiType'
  BY <1>7 DEF Ask, queues, history
<1> QED
  BY <1>1, <1>2, <1>3, <1>4, <1>5, <1>6, <1>7
     DEF Step, Next, RequestStep, HdmiStep, AskAndroid, AskInput, AskUsb, vars, queues, history

LEMMA TypeStep ==
    ASSUME TypeInv, Step
    PROVE  TypeInv'
  BY RequestTypePart, FollowTypePart, HdmiTypePart DEF TypeInv

(* SourceTypeOK for any sources, any circumstances and any bound.          *)
THEOREM SourceTypeCorrect == Spec => []SourceTypeOK
<1>1. Init => TypeInv
  BY InitialTypes
<1>2. TypeInv /\ [Next]_vars => TypeInv'
  BY TypeStep DEF Step
<1>3. TypeInv => SourceTypeOK
  BY TypeInvIsTypeOK
<1> QED
  BY <1>1, <1>2, <1>3, PTL DEF Spec

-----------------------------------------------------------------------------
(* What a queue ends with, after a message is taken and after a post.      *)
LastArgs(list) == list[Len(list)].args

LEMMA LastArgsKept ==
    ASSUME NEW S, NEW list \in Seq(S), list # <<>>
    PROVE  /\ Tail(list) # <<>> => LastArgs(Tail(list)) = LastArgs(list)
           /\ Tail(list) = <<>> => list[1].args = LastArgs(list)
<1>1. /\ Len(list) \in Nat \ {0} /\ Len(Tail(list)) = Len(list) - 1
      /\ \A i \in 1..(Len(list) - 1) : Tail(list)[i] = list[i + 1]
      /\ Tail(list) \in Seq(S)
  BY TailInSeq
<1>2. ASSUME Tail(list) # <<>> PROVE LastArgs(Tail(list)) = LastArgs(list)
  <2>1. Len(Tail(list)) \in Nat /\ Len(Tail(list)) # 0
    BY <1>1, <1>2, EmptySeq, LenProperties
  <2>2. Tail(list)[Len(list) - 1] = list[Len(list)]
    BY <1>1, <2>1
  <2> QED
    BY <1>1, <2>2 DEF LastArgs
<1>3. ASSUME Tail(list) = <<>> PROVE Len(list) = 1
  <2>1. Len(Tail(list)) = 0
    BY <1>1, <1>3, EmptySeq
  <2>2. \A n \in Nat \ {0} : n - 1 = 0 => n = 1
    OBVIOUS
  <2>3. Len(list) - 1 = 0 /\ Len(list) \in Nat \ {0}
    BY <1>1, <2>1, Zenon
  <2> QED
    BY <2>2, <2>3, Zenon
<1> QED
  BY <1>2, <1>3 DEF LastArgs

LEMMA LastArgsPosted ==
    ASSUME NEW S, NEW list \in Seq(S), NEW e \in S
    PROVE  Append(list, e) # <<>> /\ LastArgs(Append(list, e)) = e.args
  BY AppendInSeq DEF LastArgs

-----------------------------------------------------------------------------
(* The follow thread: while its queue holds messages, the last of them is  *)
(* the last request's; once the queue is empty, the member mChangeToSrc is *)
(* that request's source (a request writes it before it posts), and what   *)
(* the thread has adopted is that source too.                              *)
NothingDue == followList = <<>> /\ request.pc # "follow"

FollowInv ==
    /\ followList # <<>> => LastArgs(followList) = lastFollow
    /\ NothingDue => mChangeToSrc = lastFollow
    /\ follow \in {"init", "get", "compare", "adopt"} => armed = followed
    /\ NothingDue /\ follow \in {"init", "get"}
          => followed = (IF lastFollow = Unset THEN Android ELSE lastFollow)
    /\ NothingDue /\ follow \in {"route", "arm"} => followed = lastFollow

LEMMA FollowInvStep ==
    ASSUME TypeInv, FollowInv, Step
    PROVE  FollowInv'
<1> USE SourceAssumption DEF FollowInv, NothingDue
<1>1. CASE /\ UNCHANGED <<followVars, followList, followWait, lastFollow>>
           /\ request'.pc # "follow" => request.pc # "follow"
  BY <1>1 DEF followVars
<1>2. CASE SetCurrent \/ PostHdmi
  <2>1. request'.pc # "follow" /\ request.pc # "follow"
    BY <1>2 DEF SetCurrent, PostHdmi, NoRequest, TypeInv, RequestType
  <2> QED
    BY <1>1, <1>2, <2>1 DEF SetCurrent, PostHdmi, queues, history
<1>3. CASE SetFollowPort
  <2>1. request'.pc = "follow"
    BY <1>3 DEF SetFollowPort, TypeInv, RequestType
  <2> QED
    BY <1>3, <2>1 DEF SetFollowPort, queues, history
<1>4. CASE PostFollow
  <2>0. followList' = Append(followList, Message(request.src)) /\ Message(request.src) \in Queued
    BY <1>4, PostAppends DEF PostFollow, TypeInv, RequestType
  <2>1. followList' # <<>> /\ LastArgs(followList') = Message(request.src).args
    BY <2>0, LastArgsPosted DEF TypeInv, FollowType
  <2>2. LastArgs(followList') = lastFollow'
    BY <1>4, <2>1 DEF PostFollow, Message
  <2> QED
    BY <1>4, <2>1, <2>2 DEF PostFollow, followVars
<1>5. CASE FollowGet
  <2>1. ASSUME NEW src \in Sources, FollowQueue!getMsg(src, Now), mChangeToSrc' = src, follow' = "compare"
        PROVE  FollowInv'
    <3>0. followList # <<>> /\ followList' = Tail(followList) /\ followList[1].args = src
      BY <2>1, FollowGetsHead DEF TypeInv, FollowType
    <3>1. /\ followList' # <<>> => LastArgs(followList') = LastArgs(followList)
          /\ followList' = <<>> => src = LastArgs(followList)
      BY <3>0, LastArgsKept DEF TypeInv, FollowType
    <3> QED
      BY <1>5, <2>1, <3>0, <3>1 DEF FollowGet, FollowOnly, history
  <2>2. CASE FollowQueue!getMsgEmpty /\ UNCHANGED <<mChangeToSrc, follow>>
    BY <1>5, <2>2 DEF FollowGet, FollowQueue!getMsgEmpty, FollowOnly, history, sourceVars
  <2> QED
    BY <1>5, <2>1, <2>2 DEF FollowGet
<1>6. CASE FollowInit \/ FollowRoute \/ FollowArm
  <2>1. CASE FollowInit
    BY <2>1 DEF FollowInit, FollowOnly, history, sourceVars
  <2>2. CASE FollowRoute
    BY <2>2 DEF FollowRoute, FollowOnly, history, sourceVars
  <2>3. CASE FollowArm
    <3>1. followed # Unset
      BY DEF TypeInv, FollowType
    <3>2. UNCHANGED <<mChangeToSrc, followed, followList, request, lastFollow>>
      BY <2>3 DEF FollowArm, FollowOnly, history, sourceVars
    <3>3. follow = "arm" /\ follow' = "get" /\ armed' = followed
      BY <2>3 DEF FollowArm
    <3> QED
      BY <3>1, <3>2, <3>3
  <2> QED
    BY <1>6, <2>1, <2>2, <2>3
<1>7. CASE FollowCompare \/ FollowAdopt
  BY <1>7 DEF FollowCompare, FollowAdopt, FollowOnly, history, sourceVars, TypeInv, FollowType
<1>8. CASE HdmiStep \/ CreateChip
  BY <1>1, <1>8 DEF HdmiStep, HdmiGet, HdmiRaise, HdmiSwitch, HdmiLock, CreateChip, HdmiOnly, history,
                    sourceVars
<1>9. ASSUME NEW op, NEW src, NEW pc, Ask(op, src, pc) PROVE FollowInv'
  <2>1. request.pc # "follow"
    BY <1>9 DEF Ask, NoRequest
  <2> QED
    BY <1>1, <1>9, <2>1 DEF Ask, queues, history
<1> QED
  BY <1>1, <1>2, <1>3, <1>4, <1>5, <1>6, <1>7, <1>8, <1>9
     DEF Step, Next, RequestStep, FollowStep, AskAndroid, AskInput, AskUsb, vars, queues, history,
         sourceVars

-----------------------------------------------------------------------------
(* USB without requests that overtake: one is made when the thread waits,  *)
(* so that the member does not change between the adoption of its value    *)
(* and the routing.                                                        *)
RouteInv ==
    "overlap" \notin conditions =>
        /\ request.pc \in {"source", "note", "follow"}
              => follow = "get" /\ followList = <<>> /\ followWait
        /\ follow = "init" => followed = Android
        /\ follow \in {"get", "compare", "adopt", "arm"} => usbRoute = followed
        /\ follow = "route" => followed = mChangeToSrc

LEMMA RouteInvStep ==
    ASSUME TypeInv, RouteInv, Step
    PROVE  RouteInv'
<1> USE DEF RouteInv
<1>0. conditions' = conditions
  BY DEF Step, Next, vars, RequestStep, FollowStep, HdmiStep, AskAndroid, AskInput, AskUsb, Ask, SetCurrent,
         SetFollowPort, PostFollow, PostHdmi, FollowInit, FollowGet, FollowCompare, FollowAdopt, FollowRoute,
         FollowArm, FollowOnly, HdmiGet, HdmiRaise, HdmiSwitch, HdmiLock, CreateChip, HdmiOnly
<1> SUFFICES ASSUME "overlap" \notin conditions PROVE RouteInv'
  BY <1>0
<1>1. CASE /\ UNCHANGED <<followVars, followList, followWait>>
           /\ request'.pc \in {"source", "note", "follow"} => request.pc \in {"source", "note", "follow"}
  BY <1>1 DEF followVars
<1>2. CASE SetCurrent \/ PostHdmi
  <2>1. /\ request'.pc \in {"source", "note", "follow"} => request.pc \in {"source", "note", "follow"}
    BY <1>2 DEF SetCurrent, PostHdmi, NoRequest, TypeInv, RequestType
  <2> QED
    BY <1>1, <1>2, <2>1 DEF SetCurrent, PostHdmi, queues
<1>3. CASE SetFollowPort
  BY <1>3 DEF SetFollowPort, queues
<1>4. CASE PostFollow
  <2>1. request'.pc \notin {"source", "note", "follow"}
    BY <1>4 DEF PostFollow, NoRequest, TypeInv, RequestType
  <2> QED
    BY <1>4, <2>1 DEF PostFollow, followVars
<1>5. CASE FollowGet
  <2>1. ~followWait /\ follow = "get" /\ UNCHANGED <<request, followed, usbRoute>>
    BY <1>5 DEF FollowGet, FollowOnly, sourceVars
  <2>2. follow' \in {"get", "compare"}
    BY <1>5, <2>1 DEF FollowGet
  <2> QED
    BY <2>1, <2>2
<1>6. CASE FollowStep /\ ~FollowGet
  <2>1. follow # "get" /\ UNCHANGED <<request, mChangeToSrc>>
    BY <1>6 DEF FollowStep, FollowInit, FollowCompare, FollowAdopt, FollowRoute, FollowArm, FollowOnly,
                sourceVars
  <2> QED
    BY <1>6, <2>1 DEF FollowStep, FollowInit, FollowCompare, FollowAdopt, FollowRoute, FollowArm
<1>7. CASE HdmiStep \/ CreateChip
  BY <1>1, <1>7 DEF HdmiStep, HdmiGet, HdmiRaise, HdmiSwitch, HdmiLock, CreateChip, HdmiOnly, sourceVars
<1>8. ASSUME NEW op, NEW src, NEW pc, Ask(op, src, pc) PROVE RouteInv'
  <2>1. follow = "get" /\ followList = <<>> /\ followWait
    BY <1>8 DEF Ask, Quiet, FollowQueue!Drained
  <2> QED
    BY <1>8, <2>1 DEF Ask, followVars, queues
<1> QED
  BY <1>1, <1>2, <1>3, <1>4, <1>5, <1>6, <1>7, <1>8
     DEF Step, Next, RequestStep, AskAndroid, AskInput, AskUsb, vars, queues, sourceVars

(* The follow thread comes to rest at the last request, by its own         *)
(* reckoning in any order of posts, and with USB if nothing overtakes it.  *)
THEOREM LastIsFollowedTheorem == Spec => []LastIsFollowed
<1> DEFINE Inv == TypeInv /\ FollowInv /\ RouteInv
<1>1. Init => Inv
  <2> SUFFICES ASSUME Init PROVE Inv
    OBVIOUS
  <2>1. TypeInv
    BY InitialTypes
  <2>2. FollowInv
    BY DEF Init, FollowInv, NothingDue, FollowQueue!InitQueue
  <2>3. RouteInv
    BY DEF Init, RouteInv, NoRequest
  <2> QED
    BY <2>1, <2>2, <2>3
<1>2. Inv /\ [Next]_vars => Inv'
  BY TypeStep, FollowInvStep, RouteInvStep DEF Step
<1>3. Inv => LastIsFollowed
  <2>1. Quiet => follow = "get" /\ NothingDue
    BY DEF Quiet, NothingDue, NoRequest, FollowQueue!Drained
  <2> QED
    BY <2>1 DEF LastIsFollowed, FollowDecided, RouteIsFollowedUnhurried, RouteIsFollowed, FollowInv, RouteInv
<1> QED
  BY <1>1, <1>2, <1>3, PTL DEF Spec

-----------------------------------------------------------------------------
(* The last message for the HDMI switch that asks for one of its ports,    *)
(* since it ignores the others.                                            *)
NoPort(list) == \A i \in 1..Len(list) : list[i].args \notin SwitchPorts

LastPortIs(list, port) ==
    \A i \in 1..Len(list) :
        /\ list[i].args \in SwitchPorts
        /\ \A j \in (i + 1)..Len(list) : list[j].args \notin SwitchPorts
        => list[i].args = port

LEMMA PortsTaken ==
    ASSUME NEW S, NEW list \in Seq(S), list # <<>>, NEW port, LastPortIs(list, port)
    PROVE  /\ LastPortIs(Tail(list), port)
           /\ NoPort(Tail(list)) /\ list[1].args \in SwitchPorts => list[1].args = port
           /\ NoPort(Tail(list)) /\ list[1].args \notin SwitchPorts => NoPort(list)
<1>1. /\ Len(list) \in Nat \ {0} /\ Len(Tail(list)) = Len(list) - 1
      /\ \A i \in 1..(Len(list) - 1) : Tail(list)[i] = list[i + 1]
  BY TailInSeq
<1>2. \A j \in 2..Len(list) : j - 1 \in 1..(Len(list) - 1) /\ Tail(list)[j - 1] = list[j]
  BY <1>1
<1>3. LastPortIs(Tail(list), port)
  <2> SUFFICES ASSUME NEW i \in 1..(Len(list) - 1), Tail(list)[i].args \in SwitchPorts,
                      \A j \in (i + 1)..(Len(list) - 1) : Tail(list)[j].args \notin SwitchPorts
               PROVE  Tail(list)[i].args = port
    BY <1>1 DEF LastPortIs
  <2>1. list[i + 1].args \in SwitchPorts /\ i + 1 \in 1..Len(list) /\ Tail(list)[i] = list[i + 1]
    BY <1>1
  <2>2. ASSUME NEW j \in ((i + 1) + 1)..Len(list) PROVE list[j].args \notin SwitchPorts
    <3>1. j - 1 \in (i + 1)..(Len(list) - 1) /\ j \in 2..Len(list)
      BY <1>1
    <3> QED
      BY <1>2, <3>1
  <2> QED
    BY <2>1, <2>2 DEF LastPortIs
<1>4. ASSUME NoPort(Tail(list)), NEW j \in 2..Len(list) PROVE list[j].args \notin SwitchPorts
  BY <1>1, <1>2, <1>4 DEF NoPort
<1>5. 1 \in 1..Len(list) /\ 1 + 1 = 2 /\ \A i \in 1..Len(list) : i = 1 \/ i \in 2..Len(list)
  BY <1>1
<1>6. NoPort(Tail(list)) /\ list[1].args \in SwitchPorts => list[1].args = port
  BY <1>4, <1>5 DEF LastPortIs
<1>7. NoPort(Tail(list)) /\ list[1].args \notin SwitchPorts => NoPort(list)
  BY <1>4, <1>5 DEF NoPort
<1> QED
  BY <1>3, <1>6, <1>7

LEMMA PortsPosted ==
    ASSUME NEW S, NEW list \in Seq(S), NEW e \in S, NEW port, LastPortIs(list, port)
    PROVE  /\ e.args \in SwitchPorts
                 => LastPortIs(Append(list, e), e.args) /\ ~NoPort(Append(list, e))
           /\ e.args \notin SwitchPorts
                 => LastPortIs(Append(list, e), port) /\ (NoPort(Append(list, e)) => NoPort(list))
<1>1. /\ Len(list) \in Nat /\ Len(Append(list, e)) = Len(list) + 1
      /\ \A i \in 1..Len(list) : Append(list, e)[i] = list[i]
      /\ Append(list, e)[Len(list) + 1] = e
  BY AppendInSeq
<1>2. /\ \A i \in 1..(Len(list) + 1) : i \in 1..Len(list) \/ i = Len(list) + 1
      /\ \A i \in 1..Len(list) : Len(list) + 1 \in (i + 1)..(Len(list) + 1)
      /\ \A i \in 1..Len(list) : \A j \in (i + 1)..Len(list) :
            j \in (i + 1)..(Len(list) + 1) /\ j \in 1..Len(list)
      /\ \A i \in 1..Len(list) : i \in 1..(Len(list) + 1)
      /\ Len(list) + 1 \in 1..(Len(list) + 1)
  BY <1>1
<1>3. ASSUME e.args \in SwitchPorts PROVE LastPortIs(Append(list, e), e.args) /\ ~NoPort(Append(list, e))
  BY <1>1, <1>2, <1>3 DEF LastPortIs, NoPort
<1>4. ASSUME e.args \notin SwitchPorts
      PROVE  LastPortIs(Append(list, e), port) /\ (NoPort(Append(list, e)) => NoPort(list))
  <2>1. LastPortIs(Append(list, e), port)
    BY <1>1, <1>2, <1>4 DEF LastPortIs
  <2>2. NoPort(Append(list, e)) => NoPort(list)
    BY <1>1, <1>2, <1>4 DEF NoPort
  <2> QED
    BY <2>1, <2>2
<1> QED
  BY <1>3, <1>4

(* The switch is at the last port asked for, or about to be moved there,   *)
(* or there is a message yet that asks for it.                             *)
PortInv ==
    conditions \subseteq {"overlap"} =>
        /\ chipReady
        /\ LastPortIs(hdmiList, lastPort)
        /\ NoPort(hdmiList) => IF hdmi \in {"raise", "switch"} /\ changeToSrc \in SwitchPorts
                               THEN changeToSrc = lastPort
                               ELSE activePort = lastPort

LEMMA PortInvStep ==
    ASSUME TypeInv, PortInv, Step
    PROVE  PortInv'
<1> USE SourceAssumption DEF PortInv
<1>0. conditions' = conditions
  BY DEF Step, Next, vars, RequestStep, FollowStep, HdmiStep, AskAndroid, AskInput, AskUsb, Ask, SetCurrent,
         SetFollowPort, PostFollow, PostHdmi, FollowInit, FollowGet, FollowCompare, FollowAdopt, FollowRoute,
         FollowArm, FollowOnly, HdmiGet, HdmiRaise, HdmiSwitch, HdmiLock, CreateChip, HdmiOnly
<1> SUFFICES ASSUME conditions \subseteq {"overlap"} PROVE PortInv'
  BY <1>0
<1>1. CASE UNCHANGED <<changeToSrc, hdmi, chipReady, activePort, hdmiList, lastPort>>
  BY <1>1 DEF LastPortIs, NoPort
<1>2. CASE SetCurrent \/ SetFollowPort \/ PostFollow
  BY <1>1, <1>2 DEF SetCurrent, SetFollowPort, PostFollow, queues, history, hdmiVars
<1>3. CASE PostHdmi
  <2>0. hdmiList' = Append(hdmiList, Message(request.src)) /\ Message(request.src) \in Queued
    BY <1>3, PostAppends DEF PostHdmi, TypeInv, RequestType
  <2>1. Message(request.src).args = request.src
    BY DEF Message
  <2>2. /\ request.src \in SwitchPorts => LastPortIs(hdmiList', request.src) /\ ~NoPort(hdmiList')
        /\ request.src \notin SwitchPorts
              => LastPortIs(hdmiList', lastPort) /\ (NoPort(hdmiList') => NoPort(hdmiList))
    BY <2>0, <2>1, PortsPosted DEF TypeInv, HdmiType
  <2>3. /\ UNCHANGED <<changeToSrc, hdmi, chipReady, activePort>>
        /\ lastPort' = IF request.src \in SwitchPorts THEN request.src ELSE lastPort
    BY <1>3 DEF PostHdmi, hdmiVars
  <2>4. CASE request.src \in SwitchPorts
    BY <2>2, <2>3, <2>4 DEF LastPortIs, NoPort
  <2>5. CASE request.src \notin SwitchPorts
    BY <2>2, <2>3, <2>5 DEF LastPortIs, NoPort
  <2> QED
    BY <2>4, <2>5
<1>4. CASE HdmiGet
  <2>1. ASSUME NEW src \in Sources, HdmiQueue!getMsg(src, Now), changeToSrc' \in Filled(src),
               hdmi' = "raise"
        PROVE  PortInv'
    <3>0. hdmiList # <<>> /\ hdmiList' = Tail(hdmiList) /\ hdmiList[1].args = src
      BY <2>1, HdmiGetsHead DEF TypeInv, HdmiType
    <3>1. /\ LastPortIs(hdmiList', lastPort)
          /\ NoPort(hdmiList') /\ src \in SwitchPorts => src = lastPort
          /\ NoPort(hdmiList') /\ src \notin SwitchPorts => NoPort(hdmiList)
      BY <3>0, PortsTaken DEF TypeInv, HdmiType
    <3>2. changeToSrc' = src
      BY <2>1 DEF Filled
    <3>3. hdmi = "get" /\ UNCHANGED <<chipReady, activePort, lastPort>>
      BY <1>4 DEF HdmiGet, HdmiOnly, history
    <3> QED
      BY <2>1, <3>1, <3>2, <3>3 DEF LastPortIs, NoPort
  <2>2. CASE HdmiQueue!getMsgEmpty /\ UNCHANGED <<changeToSrc, hdmi>>
    BY <1>1, <1>4, <2>2 DEF HdmiGet, HdmiQueue!getMsgEmpty, HdmiOnly, history
  <2> QED
    BY <1>4, <2>1, <2>2 DEF HdmiGet
<1>5. CASE HdmiRaise \/ HdmiSwitch \/ HdmiLock
  <2>1. UNCHANGED <<hdmiList, lastPort, chipReady>>
    BY <1>5 DEF HdmiRaise, HdmiSwitch, HdmiLock, HdmiOnly, history
  <2>2. UNCHANGED NoPort(hdmiList) /\ LastPortIs(hdmiList', lastPort')
    BY <2>1 DEF NoPort, LastPortIs
  <2>3. Unset \notin SwitchPorts
    BY DEF Sources
  <2> QED
    BY <1>5, <2>1, <2>2, <2>3 DEF HdmiRaise, HdmiSwitch, HdmiLock
<1>6. CASE CreateChip
  BY <1>6 DEF CreateChip
<1>7. CASE FollowStep
  BY <1>1, <1>7 DEF FollowStep, FollowInit, FollowGet, FollowCompare, FollowAdopt, FollowRoute,
                    FollowArm, FollowOnly, history, hdmiVars
<1>8. ASSUME NEW op, NEW src, NEW pc, Ask(op, src, pc) PROVE PortInv'
  BY <1>1, <1>8 DEF Ask, queues, history
<1> QED
  BY <1>1, <1>2, <1>3, <1>4, <1>5, <1>6, <1>7, <1>8
     DEF Step, Next, RequestStep, HdmiStep, AskAndroid, AskInput, AskUsb, vars, queues, history, hdmiVars

(* At rest the HDMI switch is on the port asked for last, once the chip    *)
(* objects exist and if nothing is left on the stack, however requests     *)
(* overtake the thread.                                                    *)
THEOREM PortIsSelectedTheorem == Spec => []PortIsSelectedOnceUp
<1> DEFINE Inv == TypeInv /\ PortInv
<1>1. Init => Inv
  <2> SUFFICES ASSUME Init PROVE Inv
    OBVIOUS
  <2>1. TypeInv
    BY InitialTypes
  <2>2. Len(hdmiList) = 0
    BY EmptySeq DEF Init, HdmiQueue!InitQueue
  <2>3. LastPortIs(hdmiList, lastPort)
    BY <2>2 DEF LastPortIs
  <2>4. conditions \subseteq {"overlap"} => chipReady
    BY DEF Init
  <2>5. hdmi = "get" /\ activePort = lastPort
    BY DEF Init
  <2>6. PortInv
    BY <2>3, <2>4, <2>5 DEF PortInv
  <2> QED
    BY <2>1, <2>6
<1>2. Inv /\ [Next]_vars => Inv'
  BY TypeStep, PortInvStep DEF Step
<1>3. Inv => PortIsSelectedOnceUp
  <2> SUFFICES ASSUME Inv, conditions \subseteq {"overlap"}, Quiet PROVE activePort = lastPort
    BY DEF PortIsSelectedOnceUp, PortIsSelected
  <2>1. hdmiList = <<>> /\ hdmi = "get"
    BY DEF Quiet, HdmiQueue!Drained
  <2>2. NoPort(hdmiList)
    BY <2>1, EmptySeq DEF NoPort
  <2> QED
    BY <2>1, <2>2 DEF PortInv
<1> QED
  BY <1>1, <1>2, <1>3, PTL DEF Spec

-----------------------------------------------------------------------------
(* 5V DET: while it is down for an input, whoever took it down is still on *)
(* its way to the thread that raises it.                                   *)
DetInv ==
    /\ request.pc = "source" => request.op \in {"select", "switch"}
    /\ mCurrentSrc # Android /\ ~rx5vDet
          => request.op \in {"select", "switch"} \/ hdmiList # <<>> \/ hdmi = "raise"
    /\ "overlap" \notin conditions /\ hdmi = "switch" => rx5vDet

LEMMA DetInvStep ==
    ASSUME TypeInv, DetInv, Step
    PROVE  DetInv'
<1> USE DEF DetInv
<1>1. CASE UNCHANGED vars
  BY <1>1 DEF vars, sourceVars, hdmiVars, queues
<1>2. CASE SetCurrent
  <2>1. request.op \in {"select", "switch"} /\ request'.op = request.op /\ request'.pc # "source"
    BY <1>2 DEF SetCurrent, TypeInv, RequestType
  <2> QED
    BY <1>2, <2>1 DEF SetCurrent, hdmiVars, queues
<1>3. CASE SetFollowPort
  <2>1. request'.op = request.op /\ request'.pc # "source"
    BY <1>3 DEF SetFollowPort, TypeInv, RequestType
  <2> QED
    BY <1>3, <2>1 DEF SetFollowPort, hdmiVars, queues
<1>4. CASE PostFollow
  <2>1. (request.op = "usb" \/ request'.op = request.op) /\ request'.pc # "source"
    BY <1>4 DEF PostFollow, NoRequest, TypeInv, RequestType
  <2> QED
    BY <1>4, <2>1 DEF PostFollow, hdmiVars, queues
<1>5. CASE PostHdmi
  <2>1. hdmiList' = Append(hdmiList, Message(request.src)) /\ Message(request.src) \in Queued
    BY <1>5, PostAppends DEF PostHdmi, TypeInv, RequestType
  <2>2. hdmiList' # <<>>
    BY <2>1, AppendInSeq DEF TypeInv, HdmiType
  <2> QED
    BY <1>5, <2>2 DEF PostHdmi, hdmiVars, NoRequest
<1>6. CASE HdmiGet
  BY <1>6 DEF HdmiGet, HdmiOnly, sourceVars, HdmiQueue!getMsgEmpty
<1>7. CASE HdmiRaise \/ HdmiSwitch \/ CreateChip
  BY <1>7 DEF HdmiRaise, HdmiSwitch, CreateChip, HdmiOnly, sourceVars
<1>8. CASE HdmiLock
  BY <1>8 DEF HdmiLock, HdmiOnly, sourceVars, TypeInv, HdmiType
<1>9. CASE FollowStep
  <2>1. UNCHANGED <<conditions, request, mCurrentSrc, hdmiList, hdmi, rx5vDet>>
    BY <1>9 DEF FollowStep, FollowInit, FollowGet, FollowCompare, FollowAdopt, FollowRoute,
                FollowArm, FollowOnly, sourceVars, hdmiVars
  <2> QED
    BY <2>1
<1>10. ASSUME NEW op \in {"select", "switch"}, NEW src, AskAndroid(op) \/ AskInput(op, src)
       PROVE  DetInv'
  <2>1. /\ request'.op = op
        /\ "overlap" \notin conditions => hdmi = "get"
        /\ UNCHANGED <<conditions, mCurrentSrc, hdmiList, hdmi>>
    BY <1>10 DEF AskAndroid, AskInput, Ask, Quiet, queues
  <2> QED
    BY <1>10, <2>1
<1>11. ASSUME NEW src, AskUsb(src) PROVE DetInv'
  <2>1. /\ request.op = "none" /\ request'.op = "usb" /\ request'.pc = "note"
        /\ UNCHANGED <<conditions, mCurrentSrc, hdmiList, hdmi, rx5vDet>>
    BY <1>11 DEF AskUsb, Ask, NoRequest, queues
  <2> QED
    BY <2>1
<1> QED
  BY <1>1, <1>2, <1>3, <1>4, <1>5, <1>6, <1>7, <1>8, <1>9, <1>10, <1>11
     DEF Step, Next, RequestStep, HdmiStep

(* An input that was selected has 5V DET up at rest; unhurried, the switch *)
(* moves with 5V DET up.                                                   *)
THEOREM Rx5vIsUpTheorem == Spec => []Rx5vIsUp
<1> DEFINE Inv == TypeInv /\ DetInv
<1>1. Init => Inv
  <2> SUFFICES ASSUME Init PROVE Inv
    OBVIOUS
  <2>1. TypeInv
    BY InitialTypes
  <2>2. DetInv
    BY DEF Init, DetInv, NoRequest
  <2> QED
    BY <2>1, <2>2
<1>2. Inv /\ [Next]_vars => Inv'
  BY TypeStep, DetInvStep DEF Step
<1>3. Inv => Rx5vIsUp
  BY DEF Rx5vIsUp, Rx5vRestored, SwitchedWithDetUnhurried, SwitchedWithDet, DetInv, Quiet,
         NoRequest, HdmiQueue!Drained
<1> QED
  BY <1>1, <1>2, <1>3, PTL DEF Spec

-----------------------------------------------------------------------------
(* A thread that was told to wait has nothing to do: whichever way a post  *)
(* and the suspension of the consumer cross, no message is slept through.  *)
Awake ==
    /\ followWait => followList = <<>> /\ follow = "get"
    /\ hdmiWait => hdmiList = <<>> /\ hdmi = "get"

LEMMA AwakeStep ==
    ASSUME TypeInv, Awake, Step
    PROVE  Awake'
<1> USE DEF Awake
<1>1. CASE UNCHANGED <<followList, followWait, follow, hdmiList, hdmiWait, hdmi>>
  BY <1>1
<1>2. ASSUME NEW op, NEW src, NEW pc, Ask(op, src, pc) PROVE Awake'
  BY <1>1, <1>2 DEF Ask, followVars, queues
<1>3. CASE SetCurrent \/ SetFollowPort
  BY <1>1, <1>3 DEF SetCurrent, SetFollowPort, followVars, hdmiVars, queues
<1>4. CASE PostFollow
  <2>1. followWait' = FALSE
    BY <1>4, PostAppends DEF PostFollow, TypeInv, RequestType
  <2> QED
    BY <1>4, <2>1 DEF PostFollow, hdmiVars
<1>5. CASE PostHdmi
  <2>1. hdmiWait' = FALSE
    BY <1>5, PostAppends DEF PostHdmi, TypeInv, RequestType
  <2> QED
    BY <1>5, <2>1 DEF PostHdmi, followVars
<1>6. CASE FollowStep
  <2>1. UNCHANGED <<hdmiList, hdmiWait, hdmi>>
    BY <1>6 DEF FollowStep, FollowInit, FollowGet, FollowCompare, FollowAdopt, FollowRoute, FollowArm,
                FollowOnly, hdmiVars
  <2>2. CASE FollowGet
    <3>1. CASE FollowQueue!getMsgEmpty /\ UNCHANGED <<mChangeToSrc, follow>>
      BY <2>1, <2>2, <3>1 DEF FollowGet, FollowQueue!getMsgEmpty
    <3>2. ASSUME NEW src \in Sources, FollowQueue!getMsg(src, Now) PROVE ~followWait'
      BY <2>2, <3>2, FollowGetsHead DEF FollowGet, TypeInv, FollowType
    <3> QED
      BY <2>1, <2>2, <3>1, <3>2 DEF FollowGet
  <2>3. CASE ~FollowGet
    <3>1. follow # "get" /\ followWait' = followWait
      BY <1>6, <2>3 DEF FollowStep, FollowInit, FollowCompare, FollowAdopt, FollowRoute, FollowArm
    <3> QED
      BY <2>1, <3>1
  <2> QED
    BY <2>2, <2>3
<1>7. CASE HdmiStep \/ CreateChip
  <2>1. UNCHANGED <<followList, followWait, follow>>
    BY <1>7 DEF HdmiStep, HdmiGet, HdmiRaise, HdmiSwitch, HdmiLock, CreateChip, HdmiOnly, followVars
  <2>2. CASE HdmiGet
    <3>1. CASE HdmiQueue!getMsgEmpty /\ UNCHANGED <<changeToSrc, hdmi>>
      BY <2>1, <2>2, <3>1 DEF HdmiGet, HdmiQueue!getMsgEmpty
    <3>2. ASSUME NEW src \in Sources, HdmiQueue!getMsg(src, Now) PROVE ~hdmiWait'
      BY <2>2, <3>2, HdmiGetsHead DEF HdmiGet, TypeInv, HdmiType
    <3> QED
      BY <2>1, <2>2, <3>1, <3>2 DEF HdmiGet
  <2>3. CASE CreateChip
    BY <2>1, <2>3 DEF CreateChip
  <2>4. CASE HdmiRaise \/ HdmiSwitch \/ HdmiLock
    <3>1. hdmi # "get" /\ hdmiWait' = hdmiWait
      BY <2>4 DEF HdmiRaise, HdmiSwitch, HdmiLock
    <3> QED
      BY <2>1, <3>1
  <2> QED
    BY <1>7, <2>2, <2>3, <2>4 DEF HdmiStep
<1> QED
  BY <1>1, <1>2, <1>3, <1>4, <1>5, <1>6, <1>7
     DEF Step, Next, RequestStep, AskAndroid, AskInput, AskUsb, vars, followVars, hdmiVars, queues

(* Neither thread of XbhSourceManager's helpers sleeps while there is a    *)
(* message for it or work in hand, for any sources and circumstances.      *)
THEOREM AwakeTheorem == Spec => []Awake
<1>1. Init => TypeInv /\ Awake
  BY InitialTypes DEF Init, Awake, FollowQueue!InitQueue, HdmiQueue!InitQueue
<1>2. TypeInv /\ Awake /\ [Next]_vars => (TypeInv /\ Awake)'
  BY TypeStep, AwakeStep DEF Step
<1> QED
  BY <1>1, <1>2, PTL DEF Spec

-----------------------------------------------------------------------------
(* SourcePoll.                                                             *)

(* The parts of PollTypeOK, by what changes them. *)
WorldType ==
    /\ world \in Worlds /\ changes \in 0..MaxChanges
    /\ plugged \subseteq Cables /\ signal \in [Inputs -> Signals] /\ opsPowered \in BOOLEAN

Places == {"read", "cables", "android", "ops", "dead", "change", "boot", "power", "uac", "arg", "arm", "post",
           "delay"}

PlaceType ==
    /\ poll \in Places
    /\ currSource \in Sources /\ armFor \in Sources
    /\ unchecked \subseteq Cables /\ connected \subseteq Cables
    /\ signalStatus \in Signals /\ mPreSignalState \in Signals /\ reported \in Signals
    /\ powerStatus \in BOOLEAN
    /\ crossed \subseteq {"rx5v", "uac"}

UacType ==
    /\ mDelayTotalCnt \in {Delay, BootDelay} /\ mDelayCount \in 0..mDelayTotalCnt
    /\ mCheckState \in BOOLEAN /\ mOpsBootDelay \in BOOLEAN /\ uacOtg \in BOOLEAN
    /\ pdmType \in {"0", "1"}
    /\ sinceArm \in 0..BootDelay

PollInv == TypeInv /\ WorldType /\ PlaceType /\ UacType

LEMMA PollInvIsTypeOK ==
    ASSUME PollInv
    PROVE  PollTypeOK
<1>1. SourceTypeOK
  BY TypeInvIsTypeOK DEF PollInv
<1> QED
  BY <1>1 DEF PollInv, WorldType, PlaceType, UacType, PollTypeOK, Places

PollStutter == PollNext \/ UNCHANGED allVars

(* A step is one of SourceSwitch, or leaves all of it alone but 5V DET.    *)
LEMMA SwitchingStep ==
    ASSUME WorldType, PollStutter
    PROVE  \/ Step
           \/ PollStep /\ UNCHANGED switching
<1>1. ASSUME Request PROVE Next
  <2>1. world.asked \subseteq Sources /\ world.asks \subseteq {"select", "switch", "usb"}
    BY PollAssumption DEF WorldType
  <2>2. CASE \E op \in world.asks \ {"usb"} : \/ AskAndroid(op)
                                           \/ \E src \in world.asked \ {Android} : AskInput(op, src)
    BY <2>1, <2>2 DEF Next, Sources
  <2>3. CASE \E src \in world.asked : AskUsb(src)
    BY <2>1, <2>3 DEF Next, Sources
  <2> QED
    BY <1>1, <2>2, <2>3 DEF Request
<1>2. ASSUME SwitchStep PROVE Next
  BY <1>2 DEF SwitchStep, Selected, FollowArms, Next, RequestStep, FollowStep
<1>3. ASSUME Outside PROVE UNCHANGED vars
  BY <1>3 DEF Outside, MovePower, MoveCable, MoveSignal, Change
<1>4. PollStep => UNCHANGED switching
  BY DEF PollStep
<1>5. UNCHANGED allVars => UNCHANGED vars
  BY DEF allVars
<1> QED
  BY <1>1, <1>2, <1>3, <1>4, <1>5 DEF PollStutter, PollNext, Step

LEMMA SwitchTypes ==
    ASSUME PollInv, PollStutter
    PROVE  TypeInv'
<1>1. CASE Step
  BY <1>1, TypeStep DEF PollInv
<1>2. CASE PollStep /\ UNCHANGED switching
  <2>1. rx5vDet' \in BOOLEAN
    <3>1. ASSUME NEW i \in Cables, CheckCable(i) PROVE rx5vDet' \in BOOLEAN
      <4> DEFINE in == i \in plugged
                 moved == i = Dp1 /\ currSource = i /\ in # (i \in connected)
      <4>1. rx5vDet' = IF moved THEN in ELSE rx5vDet
        BY <3>1 DEF CheckCable
      <4>2. in \in BOOLEAN
        OBVIOUS
      <4>3. rx5vDet \in BOOLEAN
        BY DEF PollInv, TypeInv, HdmiType
      <4> HIDE DEF in, moved
      <4> QED
        BY <4>1, <4>2, <4>3, Zenon
    <3> QED
      BY <1>2, <3>1 DEF PollStep, ReadCurrent, PollInv, TypeInv, HdmiType
  <2> QED
    BY <1>2, <2>1 DEF switching, sourceVars, followVars, queues, history, PollInv, TypeInv, RequestType,
                      FollowType, HdmiType
<1> QED
  BY <1>1, <1>2, SwitchingStep DEF PollInv

LEMMA WorldTypes ==
    ASSUME PollInv, PollStutter
    PROVE  WorldType'
<1> USE PollAssumption DEF WorldType
<1>1. CASE UNCHANGED <<world, changes, outside>>
  BY <1>1 DEF PollInv, outside
<1>2. CASE Outside
  <2>1. UNCHANGED world /\ changes' \in 0..MaxChanges
    BY <1>2 DEF Outside, MovePower, MoveCable, MoveSignal, Change, PollInv
  <2>2. CASE MovePower
    BY <2>1, <2>2 DEF MovePower, PollInv
  <2>3. ASSUME NEW i \in Cables, MoveCable(i) PROVE WorldType'
    BY <2>1, <2>3 DEF MoveCable, PollInv
  <2>4. ASSUME NEW i \in world.asked \ {Android}, MoveSignal(i) PROVE WorldType'
    <3>1. PICK s \in Signals : signal' = [signal EXCEPT ![i] = s]
      BY <2>4 DEF MoveSignal
    <3>2. signal' \in [Inputs -> Signals]
      BY <3>1 DEF PollInv
    <3> QED
      BY <2>1, <2>4, <3>2 DEF MoveSignal, PollInv
  <2> QED
    BY <1>2, <2>2, <2>3, <2>4 DEF Outside
<1> QED
  BY <1>1, <1>2 DEF PollStutter, PollNext, Request, SwitchStep, PollStep, allVars

LEMMA PlaceTypes ==
    ASSUME PollInv, PollStutter
    PROVE  PlaceType'
<1> USE DEF PlaceType, Places
<1>0. PlaceType /\ mCurrentSrc \in Sources /\ Android \in Sources
  BY DEF PollInv, TypeInv, RequestType, Sources
<1>1. CASE UNCHANGED <<poll, cableVars, signalVars, armFor, crossed>>
  BY <1>0, <1>1 DEF cableVars, signalVars
<1>2. CASE Request \/ Outside
  BY <1>1, <1>2 DEF Request, Outside, MovePower, MoveCable, MoveSignal, Change, pollVars
<1>3. CASE SwitchStep
  <2>1. CASE Selected
    BY <1>0, <2>1 DEF Selected, cableVars, Signals
  <2>2. CASE FollowArms
    BY <1>0, <2>2 DEF FollowArms, cableVars, signalVars
  <2>3. CASE UNCHANGED pollVars
    BY <1>1, <2>3 DEF pollVars
  <2> QED
    BY <1>3, <2>1, <2>2, <2>3 DEF SwitchStep
<1>4. CASE PollStep
  <2>1. CASE ReadCurrent /\ UNCHANGED <<signalVars, armFor, uacVars>>
    BY <1>0, <2>1 DEF ReadCurrent, signalVars
  <2>2. ASSUME NEW i \in Cables, CheckCable(i), UNCHANGED <<signalVars, armFor, uacVars>> PROVE PlaceType'
    BY <1>0, <2>2 DEF CheckCable, signalVars
  <2>3. CASE ReadSignal /\ UNCHANGED cableVars
    <3>1. SignalOf(mCurrentSrc) \in Signals
      BY <1>0 DEF SignalOf, Signals, PollInv, WorldType, Sources
    <3> QED
      BY <1>0, <2>3, <3>1 DEF ReadSignal, cableVars
  <2>4. CASE /\ DropForAndroid \/ TestDeadOps \/ TestOpsBoot \/ TestTypeC \/ CountDelay
             /\ UNCHANGED cableVars
    BY <1>0, <2>4 DEF DropForAndroid, TestDeadOps, AfterOps, TestOpsBoot, AfterBoot, TestTypeC, CountDelay,
                      cableVars, signalVars
  <2>7. CASE (DropForDeadOps \/ NoteOpsBoot) /\ UNCHANGED cableVars
    <3>1. powerStatus' \in BOOLEAN
      BY <1>0, <2>7 DEF DropForDeadOps, NoteOpsBoot, AskPower, PollInv, WorldType
    <3> QED
      BY <1>0, <2>7, <3>1 DEF DropForDeadOps, AfterOps, NoteOpsBoot, AfterBoot, cableVars
  <2>5. CASE (CompareSignal \/ PostSignal) /\ UNCHANGED cableVars
    BY <1>0, <2>5 DEF CompareSignal, PostSignal, cableVars
  <2>6. CASE (ReadArgument \/ Rearm) /\ UNCHANGED cableVars
    BY <1>0, <2>6 DEF ReadArgument, Rearm, cableVars, signalVars
  <2> QED
    BY <1>4, <2>1, <2>2, <2>3, <2>4, <2>5, <2>6, <2>7 DEF PollStep
<1> QED
  BY <1>1, <1>2, <1>3, <1>4 DEF PollStutter, PollNext, allVars, pollVars

-----------------------------------------------------------------------------
(* The count never runs ahead of the looks since setFollowPort, so that a  *)
(* delay that has run out has run for its whole length.                    *)
UacInv == UacType /\ (mCheckState => mDelayCount <= sinceArm)

LEMMA UacOfArm ==
    ASSUME UacInv, NEW src \in Sources, Arm(src)
    PROVE  UacInv'
<1> USE PollAssumption DEF UacInv, UacType, Arm
<1>1. mDelayTotalCnt' \in {Delay, BootDelay} /\ mDelayCount' = 0 /\ sinceArm' = 0
  OBVIOUS
<1>2. mCheckState' \in BOOLEAN /\ pdmType' \in {"0", "1"} /\ uacOtg' \in BOOLEAN
  OBVIOUS
<1>3. mOpsBootDelay' \in BOOLEAN
  OBVIOUS
<1> QED
  BY <1>1, <1>2, <1>3

LEMMA UacOfCount ==
    ASSUME UacInv, CountDelay
    PROVE  UacInv' /\ (~uacOtg /\ uacOtg' => sinceArm >= Delay)
<1> USE PollAssumption DEF UacInv, UacType
<1>0. /\ sinceArm' = (IF sinceArm < BootDelay THEN sinceArm + 1 ELSE sinceArm)
            => sinceArm' \in 0..BootDelay /\ sinceArm' >= sinceArm
      /\ mDelayTotalCnt \in Nat /\ mDelayTotalCnt <= BootDelay /\ Delay <= mDelayTotalCnt
      /\ mDelayCount \in Nat /\ mDelayCount <= mDelayTotalCnt
  OBVIOUS
<1>1. CASE mCheckState /\ mDelayCount >= mDelayTotalCnt
  <2>1. /\ uacOtg' = TRUE /\ mCheckState' = FALSE /\ mDelayCount' = 0 /\ pdmType' = "1"
        /\ sinceArm' = IF sinceArm < BootDelay THEN sinceArm + 1 ELSE sinceArm
        /\ UNCHANGED <<mDelayTotalCnt, mOpsBootDelay>>
    BY <1>1 DEF CountDelay
  <2>2. sinceArm' \in 0..BootDelay /\ sinceArm >= Delay
    BY <1>0, <1>1, <2>1
  <2>3. 0 \in 0..mDelayTotalCnt'
    BY <1>0, <2>1
  <2> QED
    BY <2>1, <2>2, <2>3
<1>2. CASE mCheckState /\ ~(mDelayCount >= mDelayTotalCnt)
  <2>1. /\ uacOtg' = uacOtg /\ mCheckState' = TRUE /\ mDelayCount' = mDelayCount + 1 /\ pdmType' = pdmType
        /\ sinceArm' = IF sinceArm < BootDelay THEN sinceArm + 1 ELSE sinceArm
        /\ UNCHANGED <<mDelayTotalCnt, mOpsBootDelay>>
    BY <1>2 DEF CountDelay
  <2> QED
    BY <1>2, <2>1
<1>3. CASE ~mCheckState
  <2>1. /\ uacOtg' = uacOtg /\ mCheckState' = FALSE /\ mDelayCount' = mDelayCount /\ pdmType' = pdmType
        /\ sinceArm' = IF sinceArm < BootDelay THEN sinceArm + 1 ELSE sinceArm
        /\ UNCHANGED <<mDelayTotalCnt, mOpsBootDelay>>
    BY <1>3 DEF CountDelay
  <2>2. sinceArm' \in 0..BootDelay /\ mDelayCount' \in 0..mDelayTotalCnt'
    BY <1>0, <2>1
  <2>3. uacOtg' \in BOOLEAN /\ ~(~uacOtg /\ uacOtg')
    BY <2>1
  <2> QED
    BY <2>1, <2>2, <2>3
<1> QED
  BY <1>1, <1>2, <1>3

LEMMA UacStep ==
    ASSUME PollInv, UacInv, PollStutter
    PROVE  UacInv' /\ (~uacOtg /\ uacOtg' => sinceArm >= Delay)
<1>0. /\ followed \in Sources /\ armFor \in Sources
      /\ uacOtg \in BOOLEAN /\ mOpsBootDelay \in BOOLEAN
  BY DEF PollInv, TypeInv, FollowType, PlaceType, UacType
<1>1. CASE UNCHANGED uacVars
  BY <1>1 DEF uacVars, delayVars, counting, UacInv, UacType
<1>2. CASE Request \/ Outside
  BY <1>1, <1>2 DEF Request, Outside, MovePower, MoveCable, MoveSignal, Change, pollVars
<1>3. ASSUME NEW src \in Sources, Arm(src) PROVE UacInv' /\ ~uacOtg'
  BY <1>3, UacOfArm DEF Arm
<1>4. CASE SwitchStep
  <2>1. CASE FollowArms
    BY <1>0, <1>3, <2>1 DEF FollowArms
  <2>2. CASE Selected \/ UNCHANGED pollVars
    BY <1>1, <2>2 DEF Selected, pollVars
  <2> QED
    BY <1>4, <2>1, <2>2 DEF SwitchStep
<1>5. CASE PollStep
  <2>1. CASE UNCHANGED uacVars
    BY <1>1, <2>1
  <2>2. CASE DropForAndroid
    BY <1>0, <2>2 DEF DropForAndroid, delayVars, counting, UacInv, UacType
  <2>3. CASE DropForDeadOps
    <3>1. uacOtg' = uacOtg \/ uacOtg' = FALSE
      BY <1>0, <2>3 DEF DropForDeadOps
    <3> QED
      BY <1>0, <2>3, <3>1 DEF DropForDeadOps, delayVars, counting, UacInv, UacType
  <2>4. CASE NoteOpsBoot
    <3>1. mOpsBootDelay' = mOpsBootDelay \/ mOpsBootDelay' = TRUE
      BY <1>0, <2>4 DEF NoteOpsBoot
    <3> QED
      BY <1>0, <2>4, <3>1 DEF NoteOpsBoot, counting, UacInv, UacType
  <2>5. CASE Rearm
    BY <1>0, <1>3, <2>5 DEF Rearm
  <2>6. CASE CountDelay
    BY <2>6, UacOfCount
  <2> QED
    BY <1>5, <2>1, <2>2, <2>3, <2>4, <2>5, <2>6
       DEF PollStep, ReadCurrent, CheckCable, ReadSignal, TestDeadOps, CompareSignal, TestOpsBoot, TestTypeC,
           ReadArgument, PostSignal
<1> QED
  BY <1>1, <1>2, <1>4, <1>5 DEF PollStutter, PollNext, allVars, pollVars

-----------------------------------------------------------------------------
LEMMA InitialPoll ==
    ASSUME InitPoll
    PROVE  PollInv /\ UacInv
<1> USE PollAssumption, SourceAssumption
<1>1. TypeInv
  BY InitialTypes DEF InitPoll
<1>2. WorldType
  <2>1. plugged \subseteq Cables /\ opsPowered \in BOOLEAN
    BY DEF InitPoll
  <2>2. signal \in [Inputs -> Signals]
    BY DEF InitPoll, Signals
  <2> QED
    BY <2>1, <2>2 DEF InitPoll, WorldType
<1>3. PlaceType
  BY DEF InitPoll, PlaceType, Places, Signals, Sources
<1>4. UacInv
  <2>1. mDelayTotalCnt \in {Delay, BootDelay} /\ mDelayCount \in 0..mDelayTotalCnt /\ sinceArm \in 0..BootDelay
    BY DEF InitPoll
  <2>2. mCheckState = FALSE /\ mOpsBootDelay = FALSE /\ uacOtg = FALSE /\ pdmType = "0"
    BY DEF InitPoll
  <2> QED
    BY <2>1, <2>2 DEF UacInv, UacType
<1> QED
  BY <1>1, <1>2, <1>3, <1>4 DEF PollInv, UacInv

LEMMA PollInvStep ==
    ASSUME PollInv, UacInv, PollStutter
    PROVE  PollInv' /\ UacInv'
  BY SwitchTypes, WorldTypes, PlaceTypes, UacStep DEF PollInv, UacInv

(* PollTypeOK, for any sources, cables, delays and worlds.                 *)
THEOREM PollTypeCorrect == PollSpec => []PollTypeOK
<1>1. InitPoll => PollInv /\ UacInv
  BY InitialPoll
<1>2. PollInv /\ UacInv /\ [PollNext]_allVars => (PollInv /\ UacInv)'
  BY PollInvStep DEF PollStutter
<1>3. PollInv => PollTypeOK
  BY PollInvIsTypeOK
<1> QED
  BY <1>1, <1>2, <1>3, PTL DEF PollSpec

(* The USB sound card never comes before the delay has run out since USB   *)
(* was moved last, wherever the poll was when the delay was restarted.     *)
THEOREM UacNotEarlyTheorem == PollSpec => UacNotEarly
<1>1. InitPoll => PollInv /\ UacInv
  BY InitialPoll
<1>2. PollInv /\ UacInv /\ [PollNext]_allVars => (PollInv /\ UacInv)'
  BY PollInvStep DEF PollStutter
<1>3. PollInv /\ UacInv /\ [PollNext]_allVars => [~uacOtg /\ uacOtg' => sinceArm >= Delay]_allVars
  BY UacStep DEF PollStutter
<1> QED
  BY <1>1, <1>2, <1>3, PTL DEF PollSpec, UacNotEarly

-----------------------------------------------------------------------------
(* What a source's signal was last noted as has been reported, though a    *)
(* selection may reset both in the middle of the report.                   *)
Reporting == poll \in {"boot", "power", "uac", "arg", "arm", "post"}

SignalTold == mPreSignalState # Unknown /\ ~Reporting => reported = mPreSignalState

ToldInv ==
    mPreSignalState # Unknown =>
        IF Reporting THEN signalStatus = mPreSignalState ELSE reported = mPreSignalState

LEMMA ToldStep ==
    ASSUME ToldInv, PollStutter
    PROVE  ToldInv'
<1> USE DEF ToldInv, Reporting
<1>1. CASE UNCHANGED <<poll, signalVars>>
  BY <1>1 DEF signalVars
<1>2. CASE Request \/ Outside
  BY <1>1, <1>2 DEF Request, Outside, MovePower, MoveCable, MoveSignal, Change, pollVars
<1>3. CASE SwitchStep
  <2>1. CASE Selected
    BY <2>1 DEF Selected
  <2>2. CASE FollowArms \/ UNCHANGED pollVars
    BY <1>1, <2>2 DEF FollowArms, pollVars
  <2> QED
    BY <1>3, <2>1, <2>2 DEF SwitchStep
<1>4. CASE PollStep
  <2>1. CASE ReadCurrent /\ UNCHANGED signalVars
    BY <2>1 DEF ReadCurrent, signalVars
  <2>2. ASSUME NEW i \in Cables, CheckCable(i), UNCHANGED signalVars PROVE ToldInv'
    BY <1>1, <2>2 DEF CheckCable
  <2>3. CASE ReadSignal \/ CompareSignal
    BY <2>3 DEF ReadSignal, CompareSignal
  <2>4. CASE DropForAndroid \/ TestDeadOps \/ DropForDeadOps \/ CountDelay
    BY <2>4 DEF DropForAndroid, TestDeadOps, DropForDeadOps, AfterOps, CountDelay, signalVars
  <2>5. CASE TestOpsBoot \/ NoteOpsBoot \/ TestTypeC \/ ReadArgument \/ Rearm
    <3>1. UNCHANGED <<mPreSignalState, reported, signalStatus>>
      BY <2>5 DEF TestOpsBoot, NoteOpsBoot, TestTypeC, ReadArgument, Rearm, signalVars
    <3>2. poll' \in {"power", "uac", "arg", "arm", "post"} /\ Reporting
      BY <2>5 DEF TestOpsBoot, NoteOpsBoot, AfterBoot, TestTypeC, ReadArgument, Rearm
    <3> QED
      BY <3>1, <3>2
  <2>6. CASE PostSignal
    BY <2>6 DEF PostSignal
  <2> QED
    BY <1>4, <2>1, <2>2, <2>3, <2>4, <2>5, <2>6 DEF PollStep
<1> QED
  BY <1>1, <1>2, <1>3, <1>4 DEF PollStutter, PollNext, allVars, pollVars

(* What SignalReported rests on: between two reports, the last one of the  *)
(* selected source says what the poll has noted (XbhSourceManager.cpp:537).*)
THEOREM SignalToldTheorem == PollSpec => []SignalTold
<1>1. InitPoll => ToldInv
  BY DEF InitPoll, ToldInv
<1>2. ToldInv /\ [PollNext]_allVars => ToldInv'
  BY ToldStep DEF PollStutter
<1>3. ToldInv => SignalTold
  BY DEF ToldInv, SignalTold
<1> QED
  BY <1>1, <1>2, <1>3, PTL DEF PollSpec

-----------------------------------------------------------------------------
(* 5V DET beside the poll: while it is down for an input, somebody is on   *)
(* the way to the thread that raises it, or the poll has noted that DP1    *)
(* lost its cable; then it raises 5V DET itself when the cable is back.    *)
SomebodyRaises ==
    \/ request.op \in {"select", "switch"}
    \/ hdmiList # <<>>
    \/ hdmi = "raise"

DetFollowsCable ==
    mCurrentSrc # Android /\ ~rx5vDet /\ "rx5v" \notin crossed /\ ~SomebodyRaises
        => mCurrentSrc = Dp1 /\ currSource = Dp1 /\ Dp1 \notin connected

CableInv ==
    /\ request.pc = "source" => request.op \in {"select", "switch"}
    /\ DetFollowsCable

LEMMA CableOfSwitch ==
    ASSUME TypeInv, CableInv, SwitchStep
    PROVE  CableInv'
<1> USE DEF CableInv, DetFollowsCable, SomebodyRaises
<1>1. UNCHANGED <<currSource, connected>> /\ ("rx5v" \notin crossed' => "rx5v" \notin crossed)
  BY DEF SwitchStep, Selected, FollowArms, pollVars, cableVars
<1>2. CASE SetCurrent
  <2>1. request.op \in {"select", "switch"} /\ request'.op = request.op /\ request'.pc # "source"
    BY <1>2 DEF SetCurrent, TypeInv, RequestType
  <2> QED
    BY <2>1
<1>3. CASE SetFollowPort
  <2>1. request'.op = request.op /\ request'.pc # "source"
    BY <1>3 DEF SetFollowPort, TypeInv, RequestType
  <2> QED
    BY <1>1, <1>3, <2>1 DEF SetFollowPort, hdmiVars, queues
<1>4. CASE PostFollow
  <2>1. (request.op = "usb" \/ request'.op = request.op) /\ request'.pc # "source"
    BY <1>4 DEF PostFollow, NoRequest, TypeInv, RequestType
  <2> QED
    BY <1>1, <1>4, <2>1 DEF PostFollow, hdmiVars
<1>5. CASE PostHdmi
  <2>1. hdmiList' = Append(hdmiList, Message(request.src)) /\ Message(request.src) \in Queued
    BY <1>5, PostAppends DEF PostHdmi, TypeInv, RequestType
  <2>2. hdmiList' # <<>>
    BY <2>1, AppendInSeq DEF TypeInv, HdmiType
  <2>3. request'.pc # "source"
    BY <1>5 DEF PostHdmi, NoRequest
  <2> QED
    BY <2>2, <2>3
<1>6. CASE HdmiGet
  BY <1>1, <1>6 DEF HdmiGet, HdmiOnly, sourceVars, HdmiQueue!getMsgEmpty
<1>7. CASE HdmiRaise \/ HdmiSwitch \/ CreateChip
  BY <1>1, <1>7 DEF HdmiRaise, HdmiSwitch, CreateChip, HdmiOnly, sourceVars
<1>8. CASE HdmiLock
  BY <1>1, <1>8 DEF HdmiLock, HdmiOnly, sourceVars, TypeInv, HdmiType
<1>9. CASE FollowStep
  <2>1. UNCHANGED <<request, mCurrentSrc, hdmiList, hdmi, rx5vDet>>
    BY <1>9 DEF FollowStep, FollowInit, FollowGet, FollowCompare, FollowAdopt, FollowRoute,
                FollowArm, FollowOnly, sourceVars, hdmiVars
  <2> QED
    BY <1>1, <2>1
<1> QED
  BY <1>2, <1>3, <1>4, <1>5, <1>6, <1>7, <1>8, <1>9 DEF SwitchStep, Selected, FollowArms, FollowStep, HdmiStep

LEMMA CableOfCheck ==
    ASSUME PollInv, CableInv, NEW i \in Cables, CheckCable(i), UNCHANGED switching
    PROVE  CableInv'
<1> DEFINE in == i \in plugged
           moved == i = Dp1 /\ currSource = i /\ in # (i \in connected)
<1>1. UNCHANGED <<request, mCurrentSrc, hdmiList, hdmi, currSource>>
  BY DEF switching, sourceVars, queues, CheckCable
<1>2. /\ connected' = (IF in THEN connected \union {i} ELSE connected \ {i})
      /\ rx5vDet' = (IF moved THEN in ELSE rx5vDet)
      /\ crossed' = (IF moved /\ ~in /\ mCurrentSrc # i THEN crossed \union {"rx5v"} ELSE crossed)
  BY DEF CheckCable
<1> HIDE DEF in
<1>3. CASE moved /\ in
  <2>1. rx5vDet' = in
    BY <1>2, <1>3
  <2> QED
    BY <1>1, <1>3, <2>1 DEF CableInv, DetFollowsCable
<1>4. CASE moved /\ ~in
  <2>1. i = Dp1 /\ currSource = Dp1 /\ Dp1 \notin connected'
    BY <1>2, <1>4
  <2>2. mCurrentSrc # Dp1 => "rx5v" \in crossed'
    BY <1>2, <1>4
  <2> QED
    BY <1>1, <2>1, <2>2 DEF CableInv, DetFollowsCable, SomebodyRaises
<1>5. CASE ~moved
  <2>1. rx5vDet' = rx5vDet /\ crossed' = crossed
    BY <1>2, <1>5
  <2>2. currSource = Dp1 /\ Dp1 \notin connected => Dp1 \notin connected'
    <3>1. CASE i = Dp1
      BY <1>2, <1>5, <3>1
    <3>2. CASE i # Dp1
      BY <1>2, <3>2
    <3> QED
      BY <3>1, <3>2
  <2> QED
    BY <1>1, <2>1, <2>2 DEF CableInv, DetFollowsCable, SomebodyRaises
<1> QED
  BY <1>3, <1>4, <1>5

LEMMA CableStep ==
    ASSUME PollInv, CableInv, PollStutter
    PROVE  CableInv'
<1>1. CASE UNCHANGED <<request, mCurrentSrc, hdmiList, hdmi, rx5vDet, currSource, connected, crossed>>
  BY <1>1 DEF CableInv, DetFollowsCable, SomebodyRaises
<1>2. CASE Request
  <2>1. UNCHANGED <<currSource, connected, crossed>>
    BY <1>2 DEF Request, pollVars, cableVars
  <2>2. ASSUME NEW op \in {"select", "switch"}, NEW src, NEW pc, Ask(op, src, pc) PROVE CableInv'
    BY <2>2 DEF Ask, CableInv, DetFollowsCable, SomebodyRaises
  <2>3. ASSUME NEW src, AskUsb(src) PROVE CableInv'
    <3>1. /\ request.op = "none" /\ request'.pc = "note"
          /\ UNCHANGED <<mCurrentSrc, hdmiList, hdmi, rx5vDet>>
      BY <2>3 DEF AskUsb, Ask, NoRequest, queues
    <3> QED
      BY <2>1, <3>1 DEF CableInv, DetFollowsCable, SomebodyRaises
  <2> QED
    BY <1>2, <2>2, <2>3 DEF Request, AskAndroid, AskInput
<1>3. CASE SwitchStep
  BY <1>3, CableOfSwitch DEF PollInv
<1>4. CASE Outside
  BY <1>1, <1>4 DEF Outside, MovePower, MoveCable, MoveSignal, Change, vars, sourceVars, hdmiVars, queues,
                    pollVars, cableVars
<1>5. CASE PollStep
  <2>0. UNCHANGED switching
    BY <1>5 DEF PollStep
  <2>1. CASE ReadCurrent
    <3>1. UNCHANGED <<request, mCurrentSrc, hdmiList, hdmi, rx5vDet, connected, crossed>> /\ currSource' = mCurrentSrc
      BY <2>0, <2>1 DEF ReadCurrent, switching, sourceVars, queues
    <3> QED
      BY <3>1 DEF CableInv, DetFollowsCable, SomebodyRaises
  <2>2. ASSUME NEW i \in Cables, CheckCable(i) PROVE CableInv'
    BY <2>0, <2>2, CableOfCheck
  <2>3. CASE UNCHANGED <<rx5vDet, cableVars, crossed>>
    BY <1>1, <2>0, <2>3 DEF switching, sourceVars, queues, cableVars
  <2>4. CASE (Rearm \/ DropForDeadOps) /\ UNCHANGED <<rx5vDet, cableVars>>
    <3>1. "rx5v" \notin crossed' => "rx5v" \notin crossed
      BY <2>4 DEF Rearm, DropForDeadOps
    <3>2. UNCHANGED <<request, mCurrentSrc, hdmiList, hdmi, rx5vDet, currSource, connected>>
      BY <2>0, <2>4 DEF switching, sourceVars, queues, cableVars
    <3> QED
      BY <3>1, <3>2 DEF CableInv, DetFollowsCable, SomebodyRaises
  <2> QED
    BY <1>5, <2>1, <2>2, <2>3, <2>4
       DEF PollStep, ReadSignal, DropForAndroid, TestDeadOps, CompareSignal, TestOpsBoot, NoteOpsBoot,
           TestTypeC, ReadArgument, PostSignal, CountDelay
<1>6. CASE UNCHANGED allVars
  BY <1>1, <1>6 DEF allVars, vars, sourceVars, hdmiVars, queues, pollVars, cableVars
<1> QED
  BY <1>2, <1>3, <1>4, <1>5, <1>6 DEF PollStutter, PollNext

(* What Rx5vSettles rests on: with everything at rest 5V DET is down only  *)
(* for DP1 and only while the poll takes its cable to be out, unless it    *)
(* lowered it for a source read before the selection.                      *)
THEOREM DetFollowsCableTheorem == PollSpec => []DetFollowsCable
<1> DEFINE Inv == PollInv /\ UacInv /\ CableInv
<1>1. InitPoll => Inv
  <2>1. InitPoll => CableInv
    BY DEF InitPoll, Init, CableInv, DetFollowsCable, NoRequest
  <2> QED
    BY <2>1, InitialPoll
<1>2. Inv /\ [PollNext]_allVars => Inv'
  BY PollInvStep, CableStep DEF PollStutter
<1>3. Inv => DetFollowsCable
  BY DEF CableInv
<1> QED
  BY <1>1, <1>2, <1>3, PTL DEF PollSpec

-----------------------------------------------------------------------------
(* The USB sound card of an input.  What the follow manager was asked for  *)
(* last, Android to begin with.                                            *)
Noted == IF lastFollow = Unset THEN Android ELSE lastFollow

(* A request that no other overtakes finds the follow thread done with the *)
(* one before; without split requests, USB is asked for the source that is *)
(* selected, and a selection is always of another one.                     *)
AskedInv ==
    /\ request.op = "none" => request.pc = "idle"
    /\ request.pc = "source" => request.op \in {"select", "switch"}
    /\ request.op \in {"select", "switch"} /\ request.pc \in {"note", "follow"} => mCurrentSrc = request.src
    /\ "overlap" \notin conditions /\ request.pc \in {"source", "note", "follow"} => armed = Noted
    /\ ~Split =>
          /\ request.op \in {"none", "select"}
          /\ request.pc \in {"source", "hdmi", "idle"} => mCurrentSrc = Noted
          /\ request.pc = "source" => request.src = Android \/ request.src # mCurrentSrc

(* The poll goes on only with a signal, and no power fails where none can. *)
KnownInv ==
    /\ poll \in {"change", "boot", "power", "uac", "arg", "arm", "post", "delay"} => signalStatus # Unknown
    /\ "power" \notin world.may => opsPowered

Undisturbed == "overlap" \notin conditions /\ "uac" \notin crossed
Coming == uacOtg \/ mCheckState

(* USB is about to be told that Android was selected. *)
AndroidComing ==
    /\ mCurrentSrc = Android
    /\ \/ request.op \in {"select", "switch"} /\ request.pc \in {"note", "follow"}
       \/ lastFollow = Android /\ armed # Android

(* The poll does not get to the delay before it reads the signal again. *)
Late == poll \in {"read", "cables"} \/ signalStatus = Unknown

(* The card of an input that USB follows has come, or its delay runs.  For *)
(* Android the delay of an input does not run, but for the poll that had   *)
(* read the signal of the source before; that is why there is no card the  *)
(* poll could take away because of Android.                                *)
KeptInv ==
    Undisturbed /\ armed \in Inputs /\ ~AndroidComing =>
        /\ "power" \notin world.may => Coming
        /\ mCurrentSrc = Android => ~uacOtg /\ (mDelayCount = 0 \/ (mDelayCount = 1 /\ Late))

(* Where the power of a module may fail, this is so for the other inputs.  *)
SelectedInv ==
    Undisturbed /\ ~Split /\ armed \in Inputs /\ armed = mCurrentSrc
        /\ (armed \in Ops => "power" \notin world.may) => Coming

(* Unhurried, an input that is selected and that USB was told about has    *)
(* its card or its delay, with the exceptions UacComesUp names.            *)
CardIsComing ==
    /\ Undisturbed /\ mCurrentSrc \in Inputs /\ armed = mCurrentSrc
    /\ "power" \in world.may => mCurrentSrc \notin Ops /\ ~Split
    => Coming

(* While the sound card is up the microphones are routed to it and no      *)
(* delay runs that would bring it up once more.                            *)
CardWithMics == uacOtg => pdmType = "1" /\ ~mCheckState

LEMMA FollowStays ==
    ASSUME PollInv, FollowInv, RouteInv, PollStutter
    PROVE  FollowInv' /\ RouteInv'
<1>1. CASE Step
  BY <1>1, FollowInvStep, RouteInvStep DEF PollInv
<1>2. CASE PollStep /\ UNCHANGED switching
  BY <1>2 DEF switching, sourceVars, followVars, queues, history, FollowInv, NothingDue, RouteInv
<1> QED
  BY <1>1, <1>2, SwitchingStep DEF PollInv

(* What an accepted request finds. *)
LEMMA AskedOfRequest ==
    ASSUME PollInv, FollowInv, AskedInv, Request
    PROVE  AskedInv'
<1> USE SourceAssumption DEF AskedInv, Noted
<1>1. UNCHANGED <<world, armed, lastFollow, mCurrentSrc, conditions>> /\ request = NoRequest
  BY DEF Request, AskAndroid, AskInput, AskUsb, Ask, followVars, history
<1>2. "overlap" \notin conditions => armed = Noted
  <2>1. ASSUME Quiet PROVE armed = Noted
    <3>1. follow = "get" /\ NothingDue
      BY <2>1 DEF Quiet, NothingDue, NoRequest, FollowQueue!Drained
    <3> QED
      BY <3>1 DEF FollowInv
  <2>2. "overlap" \notin conditions => Quiet
    BY DEF Request, AskAndroid, AskInput, AskUsb, Ask
  <2> QED
    BY <2>1, <2>2
<1>3. ~Split => mCurrentSrc = Noted
  BY <1>1 DEF NoRequest
<1>0. world.asks \subseteq {"select", "switch", "usb"}
  BY PollAssumption DEF PollInv, WorldType
<1>4. PICK op, src, pc :
         /\ request' = [op |-> op, src |-> src, pc |-> pc]
         /\ \/ op \in {"select", "switch"} /\ pc = "source" /\ (src = Android \/ src # mCurrentSrc)
            \/ op = "usb" /\ pc = "note" /\ Split
         /\ op = "switch" => Split
  <2>1. ASSUME NEW op \in world.asks \ {"usb"}, AskAndroid(op)
        PROVE  /\ request' = [op |-> op, src |-> Android, pc |-> "source"]
               /\ op \in {"select", "switch"} /\ (op = "switch" => Split)
    BY <1>0, <2>1 DEF AskAndroid, Ask, Split
  <2>2. ASSUME NEW op \in world.asks \ {"usb"}, NEW src, AskInput(op, src)
        PROVE  /\ request' = [op |-> op, src |-> src, pc |-> "source"] /\ src # mCurrentSrc
               /\ op \in {"select", "switch"} /\ (op = "switch" => Split)
    BY <1>0, <2>2 DEF AskInput, Ask, Split
  <2>3. ASSUME NEW src, AskUsb(src) PROVE request' = [op |-> "usb", src |-> src, pc |-> "note"]
    BY <2>3 DEF AskUsb, Ask
  <2>4. "usb" \in world.asks => Split
    BY DEF Split
  <2> QED
    BY <2>1, <2>2, <2>3, <2>4 DEF Request
<1>5. request'.op = op /\ request'.src = src /\ request'.pc = pc
  BY <1>4
<1>6. Split' = Split
  BY <1>1 DEF Split
<1> QED
  BY <1>1, <1>2, <1>3, <1>4, <1>5, <1>6

LEMMA AskedOfSwitch ==
    ASSUME PollInv, RouteInv, AskedInv, SwitchStep
    PROVE  AskedInv'
<1> USE SourceAssumption DEF AskedInv, Noted
<1>0. /\ Split' = Split /\ request.src \in Sources
      /\ request \in [op : {"none", "select", "switch", "usb"}, src : Sources,
                      pc : {"idle", "source", "note", "follow", "hdmi"}]
  BY DEF SwitchStep, Split, PollInv, TypeInv, RequestType
<1>1. CASE SetCurrent
  <2>1. /\ request.pc = "source" /\ mCurrentSrc' = request.src
        /\ request'.op = request.op /\ request'.src = request.src
        /\ request'.pc = IF request.op = "select" \/ request.src = Android THEN "note" ELSE "hdmi"
        /\ UNCHANGED <<conditions, armed, lastFollow>>
    BY <1>0, <1>1 DEF SetCurrent, followVars, history
  <2>2. request'.pc \in {"note", "hdmi"} /\ (~Split => request'.pc = "note")
    BY <2>1
  <2> HIDE DEF Split
  <2> QED
    BY <1>0, <2>1, <2>2
<1>2. CASE SetFollowPort
  <2>1. /\ request.pc = "note" /\ request'.pc = "follow"
        /\ request'.op = request.op /\ request'.src = request.src
        /\ UNCHANGED <<conditions, armed, lastFollow, mCurrentSrc>>
    BY <1>0, <1>2 DEF SetFollowPort, history
  <2> HIDE DEF Split
  <2> QED
    BY <1>0, <2>1
<1>3. CASE PostFollow
  <2>1. /\ request.pc = "follow" /\ lastFollow' = request.src
        /\ UNCHANGED <<conditions, armed, mCurrentSrc>>
    BY <1>0, <1>3 DEF PostFollow, followVars
  <2>2. CASE request.op = "usb"
    <3>1. request'.op = "none" /\ request'.pc = "idle" /\ Split
      BY <1>3, <2>2 DEF PostFollow, NoRequest
    <3> QED
      BY <1>0, <3>1
  <2>3. CASE request.op # "usb"
    <3>1. request'.op = request.op /\ request'.pc = "hdmi" /\ request.op \in {"select", "switch"}
      BY <1>0, <1>3, <2>1, <2>3 DEF PostFollow
    <3>2. mCurrentSrc = Noted'
      BY <1>0, <2>1, <3>1 DEF Sources
    <3> HIDE DEF Noted, Split
    <3> QED
      BY <1>0, <2>1, <3>1, <3>2
  <2> QED
    BY <2>2, <2>3
<1>4. CASE PostHdmi
  <2>1. /\ request.pc = "hdmi" /\ request'.op = "none" /\ request'.pc = "idle"
        /\ UNCHANGED <<conditions, armed, mCurrentSrc, lastFollow>>
    BY <1>0, <1>4 DEF PostHdmi, NoRequest, followVars
  <2> HIDE DEF Split
  <2> QED
    BY <1>0, <2>1
<1>5. CASE FollowArm
  <2>1. /\ follow = "arm" /\ UNCHANGED <<conditions, request, mCurrentSrc, lastFollow>>
    BY <1>5 DEF FollowArm, FollowOnly, sourceVars, history
  <2>2. "overlap" \notin conditions => request.pc \notin {"source", "note", "follow"}
    BY <2>1 DEF RouteInv
  <2> HIDE DEF Split
  <2> QED
    BY <1>0, <2>1, <2>2
<1>6. CASE \/ FollowInit \/ FollowGet \/ FollowCompare \/ FollowAdopt \/ FollowRoute
           \/ HdmiStep \/ CreateChip
  <2>1. UNCHANGED <<conditions, request, mCurrentSrc, lastFollow, armed>>
    BY <1>6 DEF FollowInit, FollowGet, FollowCompare, FollowAdopt, FollowRoute, HdmiStep, HdmiGet, HdmiRaise,
                HdmiSwitch, HdmiLock, CreateChip, FollowOnly, HdmiOnly, sourceVars, followVars, history
  <2> HIDE DEF Split
  <2> QED
    BY <1>0, <2>1
<1> QED
  BY <1>1, <1>2, <1>3, <1>4, <1>5, <1>6 DEF SwitchStep, Selected, FollowArms

LEMMA AskedStep ==
    ASSUME PollInv, FollowInv, RouteInv, AskedInv, PollStutter
    PROVE  AskedInv'
<1>1. CASE UNCHANGED <<conditions, request, mCurrentSrc, lastFollow, armed, world>>
  BY <1>1 DEF AskedInv, Noted, Split
<1>2. CASE PollStep
  BY <1>1, <1>2 DEF PollStep, switching, sourceVars, followVars, history
<1>3. CASE Outside \/ UNCHANGED allVars
  BY <1>1, <1>3 DEF Outside, MovePower, MoveCable, MoveSignal, Change, allVars, vars, sourceVars, followVars,
                    history
<1> QED
  BY <1>2, <1>3, AskedOfRequest, AskedOfSwitch DEF PollStutter, PollNext

LEMMA KnownStep ==
    ASSUME KnownInv, PollStutter
    PROVE  KnownInv'
<1> USE DEF KnownInv
<1>1. CASE UNCHANGED <<poll, signalStatus, world, opsPowered>>
  BY <1>1
<1>2. CASE Request \/ SwitchStep \/ UNCHANGED allVars
  BY <1>1, <1>2 DEF Request, SwitchStep, Selected, FollowArms, allVars, pollVars, signalVars, outside
<1>3. CASE Outside
  <2>1. UNCHANGED <<poll, signalStatus, world>>
    BY <1>3 DEF Outside, MovePower, MoveCable, MoveSignal, Change, pollVars, signalVars
  <2>2. opsPowered' = opsPowered \/ "power" \in world.may
    BY <1>3 DEF Outside, MovePower, MoveCable, MoveSignal, Change
  <2> QED
    BY <2>1, <2>2
<1>4. CASE PollStep
  <2>1. UNCHANGED <<world, opsPowered>>
    BY <1>4 DEF PollStep, outside
  <2>2. \/ signalStatus' = signalStatus /\ poll' \in {poll, "read", "cables", "ops", "dead"}
        \/ signalStatus' = signalStatus /\ signalStatus # Unknown
        \/ poll' = "android"
    <3>1. CASE ReadCurrent /\ UNCHANGED signalVars
      BY <3>1 DEF ReadCurrent, signalVars
    <3>2. ASSUME NEW i \in Cables, CheckCable(i), UNCHANGED signalVars
          PROVE  signalStatus' = signalStatus /\ poll' = poll
      BY <3>2 DEF CheckCable, signalVars
    <3>3. CASE ReadSignal \/ DropForAndroid \/ TestDeadOps \/ DropForDeadOps
      BY <3>3 DEF ReadSignal, DropForAndroid, TestDeadOps, DropForDeadOps, AfterOps, signalVars
    <3>4. CASE \/ CompareSignal \/ TestOpsBoot \/ NoteOpsBoot \/ TestTypeC \/ ReadArgument
               \/ Rearm \/ PostSignal \/ CountDelay
      BY <3>4 DEF CompareSignal, TestOpsBoot, NoteOpsBoot, TestTypeC, ReadArgument, Rearm, PostSignal, CountDelay, signalVars
    <3> QED
      BY <1>4, <3>1, <3>2, <3>3, <3>4 DEF PollStep
  <2> QED
    BY <2>1, <2>2
<1> QED
  BY <1>2, <1>3, <1>4 DEF PollStutter, PollNext

-----------------------------------------------------------------------------
CardInv == KeptInv /\ SelectedInv

(* Everything CardInv speaks of. *)
cardState ==
    <<conditions, world, request, mCurrentSrc, armed, lastFollow, crossed, uacOtg, mCheckState, mDelayCount,
      poll, signalStatus>>

LEMMA CardUnchanged ==
    ASSUME CardInv, UNCHANGED cardState
    PROVE  CardInv'
  BY DEF cardState, CardInv, KeptInv, SelectedInv, Undisturbed, AndroidComing, Coming, Late, Split

(* A delay that starts for an input. *)
LEMMA CardOfArm ==
    ASSUME NEW src, src # Android, Arm(src)
    PROVE  CardInv'
<1>1. uacOtg' = FALSE /\ mDelayCount' = 0 /\ mCheckState' = TRUE
  BY DEF Arm
<1>2. Coming' /\ ~uacOtg' /\ mDelayCount' = 0
  BY <1>1 DEF Coming
<1> QED
  BY <1>2 DEF CardInv, KeptInv, SelectedInv

LEMMA CardOfRequest ==
    ASSUME CardInv, AskedInv, Request
    PROVE  CardInv'
<1>1. /\ UNCHANGED <<conditions, world, mCurrentSrc, armed, lastFollow, crossed, uacOtg, mCheckState,
                     mDelayCount, poll, signalStatus>>
      /\ request = NoRequest
  BY DEF Request, AskAndroid, AskInput, AskUsb, Ask, followVars, history, pollVars, signalVars, uacVars,
         delayVars, counting
<1>2. ~(request'.op \in {"select", "switch"} /\ request'.pc \in {"note", "follow"})
  BY DEF Request, AskAndroid, AskInput, AskUsb, Ask
<1>3. request.pc = "idle"
  BY <1>1 DEF NoRequest
<1>4. AndroidComing' <=> AndroidComing
  BY <1>1, <1>2, <1>3 DEF AndroidComing
<1> QED
  BY <1>1, <1>4 DEF CardInv, KeptInv, SelectedInv, Undisturbed, Coming, Late, Split

LEMMA CardOfSelected ==
    ASSUME PollInv, CardInv, AskedInv, Selected, UNCHANGED world
    PROVE  CardInv'
<1> USE SourceAssumption
<1>0. request \in [op : {"none", "select", "switch", "usb"}, src : Sources,
                   pc : {"idle", "source", "note", "follow", "hdmi"}]
  BY DEF PollInv, TypeInv, RequestType
<1>1. /\ request.pc = "source" /\ mCurrentSrc' = request.src
      /\ request'.op = request.op /\ request.op \in {"select", "switch"}
      /\ request'.pc = IF request.op = "select" \/ request.src = Android THEN "note" ELSE "hdmi"
      /\ UNCHANGED <<conditions, world, armed, lastFollow, crossed, uacOtg, mCheckState, mDelayCount, poll,
                     signalStatus>>
  BY <1>0 DEF Selected, SetCurrent, AskedInv, followVars, history, uacVars, delayVars, counting
<1>2. CASE request.src = Android
  <2>1. AndroidComing' /\ armed' = armed /\ mCurrentSrc' = Android
    BY <1>1, <1>2 DEF AndroidComing
  <2> QED
    BY <2>1 DEF CardInv, KeptInv, SelectedInv
<1>3. CASE request.src # Android
  <2>1. "overlap" \notin conditions => armed = Noted
    BY <1>1 DEF AskedInv
  <2>2. "overlap" \notin conditions => ~AndroidComing
    BY <1>1, <2>1 DEF AndroidComing, Noted
  <2>3. mCurrentSrc' # Android
    BY <1>1, <1>3
  <2>4. KeptInv'
    BY <1>1, <2>2, <2>3 DEF CardInv, KeptInv, Undisturbed, Coming
  <2>5. "overlap" \notin conditions /\ ~Split => armed' # mCurrentSrc'
    BY <1>1, <1>3, <2>1 DEF AskedInv
  <2> QED
    BY <1>1, <2>4, <2>5 DEF CardInv, SelectedInv, Undisturbed, Split
<1> QED
  BY <1>2, <1>3

LEMMA CardOfSwitch ==
    ASSUME PollInv, CardInv, AskedInv, SwitchStep
    PROVE  CardInv'
<1> USE SourceAssumption
<1>0. /\ request \in [op : {"none", "select", "switch", "usb"}, src : Sources,
                      pc : {"idle", "source", "note", "follow", "hdmi"}]
      /\ UNCHANGED world
  BY DEF PollInv, TypeInv, RequestType, SwitchStep
<1>1. CASE Selected
  BY <1>0, <1>1, CardOfSelected
<1>2. CASE FollowArms
  <2>1. CASE followed = Android
    <3>1. armed' = Android
      BY <1>2, <2>1 DEF FollowArms, FollowArm
    <3> QED
      BY <3>1 DEF CardInv, KeptInv, SelectedInv
  <2>2. CASE followed # Android
    BY <1>2, <2>2, CardOfArm DEF FollowArms
  <2> QED
    BY <2>1, <2>2
<1> DEFINE Rest == UNCHANGED <<conditions, world, mCurrentSrc, armed, crossed, uacOtg, mCheckState,
                               mDelayCount, poll, signalStatus>>
<1>3. ASSUME Rest, "overlap" \notin conditions => (AndroidComing' <=> AndroidComing) PROVE CardInv'
  BY <1>3 DEF CardInv, KeptInv, SelectedInv, Undisturbed, Coming, Late, Split
<1>4. CASE SetFollowPort /\ UNCHANGED pollVars
  <2>1. Rest
    BY <1>0, <1>4 DEF SetFollowPort, pollVars, signalVars, uacVars, delayVars, counting
  <2>2. /\ request'.op = request.op /\ request.pc = "note" /\ request'.pc = "follow"
        /\ lastFollow' = lastFollow
    BY <1>0, <1>4 DEF SetFollowPort, history
  <2> QED
    BY <1>3, <2>1, <2>2 DEF AndroidComing
<1>5. CASE PostFollow /\ UNCHANGED pollVars
  <2>1. Rest
    BY <1>0, <1>5 DEF PostFollow, followVars, pollVars, signalVars, uacVars, delayVars, counting
  <2>2. request.pc = "follow" /\ lastFollow' = request.src /\ request'.pc \in {"idle", "hdmi"}
    BY <1>0, <1>5 DEF PostFollow, NoRequest
  <2>3. "overlap" \notin conditions => armed = Noted
    BY <2>2 DEF AskedInv
  <2>4. request.op \in {"select", "switch"} => mCurrentSrc = request.src
    BY <2>2 DEF AskedInv
  <2>5. "overlap" \notin conditions => ~(lastFollow = Android /\ armed # Android)
    BY <2>3 DEF Noted
  <2>6. AndroidComing' <=> mCurrentSrc = Android /\ request.src = Android /\ armed # Android
    BY <2>1, <2>2 DEF AndroidComing
  <2>7. request.op \in {"usb", "select", "switch"}
    BY <1>0, <2>2 DEF AskedInv
  <2>8. CASE armed = Android
    BY <2>1, <2>8 DEF CardInv, KeptInv, SelectedInv
  <2>9. CASE armed # Android /\ request.op \in {"select", "switch"}
    <3>1. "overlap" \notin conditions => (AndroidComing' <=> AndroidComing)
      BY <2>2, <2>4, <2>5, <2>6, <2>9 DEF AndroidComing
    <3> QED
      BY <1>3, <2>1, <3>1
  <2>10. CASE armed # Android /\ request.op = "usb"
    <3>1. "overlap" \notin conditions => ~AndroidComing
      BY <2>5, <2>10 DEF AndroidComing
    <3> QED
      BY <2>1, <3>1 DEF CardInv, KeptInv, SelectedInv, Undisturbed, Coming, Late, Split
  <2> QED
    BY <2>7, <2>8, <2>9, <2>10
<1>6. CASE PostHdmi /\ UNCHANGED pollVars
  <2>1. Rest
    BY <1>0, <1>6 DEF PostHdmi, followVars, pollVars, signalVars, uacVars, delayVars, counting
  <2>2. request.pc = "hdmi" /\ request'.pc = "idle" /\ lastFollow' = lastFollow
    BY <1>6 DEF PostHdmi, NoRequest
  <2> QED
    BY <1>3, <2>1, <2>2 DEF AndroidComing
<1>7. CASE /\ \/ FollowInit \/ FollowGet \/ FollowCompare \/ FollowAdopt \/ FollowRoute
              \/ HdmiStep \/ CreateChip
           /\ UNCHANGED pollVars
  <2>1. UNCHANGED cardState
    BY <1>0, <1>7
       DEF FollowInit, FollowGet, FollowCompare, FollowAdopt, FollowRoute, HdmiStep, HdmiGet, HdmiRaise,
           HdmiSwitch, HdmiLock, CreateChip, FollowOnly, HdmiOnly, sourceVars, followVars, history,
           pollVars, signalVars, uacVars, delayVars, counting, cardState
  <2> QED
    BY <2>1, CardUnchanged
<1> QED
  BY <1>1, <1>2, <1>4, <1>5, <1>6, <1>7 DEF SwitchStep

LEMMA CardOfPoll ==
    ASSUME PollInv, CardInv, KnownInv, PollStep
    PROVE  CardInv'
<1> USE SourceAssumption
<1>0. /\ UNCHANGED <<conditions, world, request, mCurrentSrc, armed, lastFollow>>
      /\ uacOtg \in BOOLEAN /\ mCheckState \in BOOLEAN
      /\ AndroidComing' = AndroidComing /\ Split' = Split
  BY DEF PollStep, switching, sourceVars, followVars, history, PollInv, UacType, AndroidComing, Split
<1>1. ASSUME UNCHANGED <<crossed, uacOtg, mCheckState, mDelayCount>>, mCurrentSrc = Android /\ Late => Late'
      PROVE  CardInv'
  BY <1>0, <1>1 DEF CardInv, KeptInv, SelectedInv, Undisturbed, Coming, Split
<1>2. CASE ReadCurrent /\ UNCHANGED <<signalVars, armFor, uacVars>>
  BY <1>1, <1>2 DEF ReadCurrent, Late, signalVars, uacVars, delayVars, counting
<1>3. ASSUME NEW i \in Cables, CheckCable(i), UNCHANGED <<signalVars, armFor, uacVars>> PROVE CardInv'
  <2>1. UNCHANGED <<poll, signalStatus, uacOtg, mCheckState, mDelayCount>> /\ poll = "cables"
    BY <1>3 DEF CheckCable, signalVars, uacVars, delayVars, counting
  <2>2. "uac" \notin crossed' => "uac" \notin crossed
    BY <1>3 DEF CheckCable
  <2>3. Late' = Late /\ Coming' = Coming /\ (Undisturbed' => Undisturbed)
    BY <1>0, <2>1, <2>2 DEF Late, Coming, Undisturbed
  <2> HIDE DEF Late, Coming, Undisturbed, Split, AndroidComing
  <2> QED
    BY <1>0, <2>1, <2>3 DEF CardInv, KeptInv, SelectedInv
<1>4. CASE ReadSignal
  <2>1. mCurrentSrc = Android => Late'
    BY <1>4 DEF ReadSignal, SignalOf, Late
  <2> QED
    BY <1>1, <1>4, <2>1 DEF ReadSignal, uacVars, delayVars, counting
<1>5. CASE DropForAndroid
  <2>1. /\ UNCHANGED <<crossed, mCheckState, mDelayCount, signalStatus>> /\ poll = "android"
        /\ uacOtg' = IF mCurrentSrc = Android /\ uacOtg THEN FALSE ELSE uacOtg
    BY <1>5 DEF DropForAndroid, signalVars, delayVars, counting
  <2>2. Late => Late'
    BY <2>1 DEF Late
  <2>3. CASE uacOtg' = uacOtg
    BY <1>1, <2>1, <2>2, <2>3
  <2>4. CASE mCurrentSrc = Android /\ uacOtg
    <3>1. ~(Undisturbed /\ armed \in Inputs /\ ~AndroidComing)
      BY <2>4 DEF CardInv, KeptInv
    <3>2. armed \in Inputs => armed # mCurrentSrc
      BY <2>4
    <3> QED
      BY <1>0, <2>1, <3>1, <3>2 DEF CardInv, KeptInv, SelectedInv, Undisturbed
  <2> QED
    BY <2>1, <2>3, <2>4
<1>6. CASE DropForDeadOps
  <2>1. /\ UNCHANGED <<mCheckState, mDelayCount, signalStatus>> /\ poll = "dead"
        /\ poll' = IF signalStatus = Unknown THEN "read" ELSE "change"
        /\ powerStatus' = IF mCurrentSrc \in Ops THEN opsPowered ELSE powerStatus
        /\ uacOtg' = (uacOtg /\ powerStatus')
        /\ crossed' = IF mCurrentSrc \in Ops THEN crossed ELSE crossed \union {"uac"}
    BY <1>6 DEF DropForDeadOps, AskPower, AfterOps, delayVars, counting
  <2>2. Late => Late'
    BY <2>1 DEF Late
  <2>3. CASE mCurrentSrc \notin Ops
    BY <2>1, <2>3 DEF CardInv, KeptInv, SelectedInv, Undisturbed
  <2>4. CASE mCurrentSrc \in Ops /\ opsPowered
    <3>1. uacOtg' = uacOtg /\ crossed' = crossed
      BY <1>0, <2>1, <2>4
    <3> QED
      BY <1>1, <2>1, <2>2, <3>1
  <2>5. CASE mCurrentSrc \in Ops /\ ~opsPowered
    <3>1. "power" \in world.may /\ mCurrentSrc # Android /\ uacOtg' = FALSE /\ crossed' = crossed
      BY <2>1, <2>5, PollAssumption DEF KnownInv
    <3> QED
      BY <1>0, <2>1, <2>5, <3>1 DEF CardInv, KeptInv, SelectedInv
  <2> QED
    BY <2>3, <2>4, <2>5
<1>7. CASE TestDeadOps \/ CompareSignal \/ TestOpsBoot \/ NoteOpsBoot \/ TestTypeC \/ ReadArgument \/ PostSignal
  <2>1. UNCHANGED <<crossed, uacOtg, mCheckState, mDelayCount, signalStatus>>
    BY <1>7 DEF TestDeadOps, CompareSignal, TestOpsBoot, NoteOpsBoot, TestTypeC, ReadArgument, PostSignal,
                signalVars, uacVars, delayVars, counting
  <2>2. poll \notin {"read", "cables"}
    BY <1>7 DEF TestDeadOps, CompareSignal, TestOpsBoot, NoteOpsBoot, TestTypeC, ReadArgument, PostSignal
  <2> QED
    BY <1>1, <2>1, <2>2 DEF Late
<1>8. CASE Rearm
  <2>1. CASE armFor = Android
    BY <1>8, <2>1 DEF Rearm, CardInv, KeptInv, SelectedInv, Undisturbed
  <2>2. CASE armFor # Android
    BY <1>8, <2>2, CardOfArm DEF Rearm
  <2> QED
    BY <2>1, <2>2
<1>9. CASE CountDelay
  <2> DEFINE over == mCheckState /\ mDelayCount >= mDelayTotalCnt
  <2>1. /\ poll = "delay" /\ poll' = "read" /\ crossed' = crossed
        /\ uacOtg' = (uacOtg \/ over)
        /\ mCheckState' = (mCheckState /\ ~over)
        /\ mDelayCount' = (IF over THEN 0 ELSE IF mCheckState THEN mDelayCount + 1 ELSE mDelayCount)
    BY <1>9 DEF CountDelay
  <2>2. Coming => Coming'
    BY <2>1 DEF Coming
  <2>3. Undisturbed' = Undisturbed
    BY <1>0, <2>1 DEF Undisturbed
  <2>4. ASSUME ~uacOtg, mDelayCount = 0 \/ (mDelayCount = 1 /\ Late)
        PROVE  ~uacOtg' /\ (mDelayCount' = 0 \/ (mDelayCount' = 1 /\ Late'))
    <3>1. signalStatus # Unknown
      BY <2>1 DEF KnownInv
    <3>2. mDelayCount = 0
      BY <2>1, <2>4, <3>1 DEF Late
    <3>3. ~over
      BY <3>2, PollAssumption DEF PollInv, UacType
    <3>4. Late'
      BY <2>1 DEF Late
    <3> HIDE DEF over
    <3>5. ~uacOtg'
      BY <2>1, <2>4, <3>3, Zenon
    <3>6. mDelayCount' = IF mCheckState THEN mDelayCount + 1 ELSE mDelayCount
      BY <2>1, <3>3, Zenon
    <3>7. mDelayCount' = 0 \/ mDelayCount' = 1
      BY <3>2, <3>6
    <3> QED
      BY <3>4, <3>5, <3>7
  <2> HIDE DEF over, Coming, Undisturbed, Late, AndroidComing, Split
  <2> QED
    BY <1>0, <2>2, <2>3, <2>4 DEF CardInv, KeptInv, SelectedInv
<1> QED
  BY <1>2, <1>3, <1>4, <1>5, <1>6, <1>7, <1>8, <1>9 DEF PollStep

LEMMA CardStep ==
    ASSUME PollInv, CardInv, AskedInv, KnownInv, PollStutter
    PROVE  CardInv'
<1>1. CASE Outside \/ UNCHANGED allVars
  <2>1. UNCHANGED cardState
    BY <1>1 DEF Outside, MovePower, MoveCable, MoveSignal, Change, allVars, vars, sourceVars, followVars, history,
                pollVars, signalVars, uacVars, delayVars, counting, cardState
  <2> QED
    BY <2>1, CardUnchanged
<1> QED
  BY <1>1, CardOfRequest, CardOfSwitch, CardOfPoll DEF PollStutter, PollNext

(* What UacComesUp rests on: an input that is selected and that USB has    *)
(* moved to has its sound card, or the delay for it runs; nothing the poll *)
(* does for Android or for the source before takes it away.                *)
THEOREM CardIsComingTheorem == PollSpec => []CardIsComing
<1> DEFINE Inv == /\ PollInv /\ UacInv /\ FollowInv /\ RouteInv
                  /\ AskedInv /\ KnownInv /\ CardInv
<1>1. InitPoll => Inv
  <2> SUFFICES ASSUME InitPoll PROVE Inv
    OBVIOUS
  <2>1. FollowInv /\ RouteInv
    BY DEF InitPoll, Init, FollowInv, NothingDue, FollowQueue!InitQueue, RouteInv, NoRequest
  <2>2. AskedInv /\ KnownInv
    BY DEF InitPoll, Init, AskedInv, KnownInv, Noted, NoRequest
  <2>3. CardInv
    BY SourceAssumption DEF InitPoll, Init, CardInv, KeptInv, SelectedInv
  <2> QED
    BY <2>1, <2>2, <2>3, InitialPoll
<1>2. Inv /\ [PollNext]_allVars => Inv'
  BY PollInvStep, FollowStays, AskedStep, KnownStep, CardStep DEF PollStutter
<1>3. Inv => CardIsComing
  BY SourceAssumption DEF CardIsComing, CardInv, KeptInv, SelectedInv, AndroidComing
<1> QED
  BY <1>1, <1>2, <1>3, PTL DEF PollSpec

LEMMA MicsStep ==
    ASSUME PollInv, CardWithMics, PollStutter
    PROVE  CardWithMics'
<1> USE DEF CardWithMics
<1>0. uacOtg \in BOOLEAN /\ mCheckState \in BOOLEAN
  BY DEF PollInv, UacType
<1>1. CASE UNCHANGED <<uacOtg, pdmType, mCheckState>>
  BY <1>1
<1>2. CASE Request \/ Outside \/ UNCHANGED allVars
  BY <1>1, <1>2 DEF Request, Outside, MovePower, MoveCable, MoveSignal, Change, allVars, pollVars, uacVars,
                    delayVars, counting
<1>3. CASE SwitchStep
  <2>1. CASE FollowArms
    BY <2>1 DEF FollowArms, Arm
  <2>2. CASE Selected \/ UNCHANGED pollVars
    BY <1>1, <2>2 DEF Selected, pollVars, uacVars, delayVars, counting
  <2> QED
    BY <1>3, <2>1, <2>2 DEF SwitchStep
<1>4. CASE PollStep
  <2>1. CASE UNCHANGED uacVars
    BY <1>1, <2>1 DEF uacVars, delayVars, counting
  <2>2. CASE DropForAndroid
    BY <2>2 DEF DropForAndroid, delayVars, counting
  <2>3. CASE DropForDeadOps
    <3>1. (uacOtg' => uacOtg) /\ UNCHANGED <<pdmType, mCheckState>>
      BY <1>0, <2>3 DEF DropForDeadOps, delayVars, counting
    <3> QED
      BY <3>1
  <2>4. CASE NoteOpsBoot
    BY <1>1, <2>4 DEF NoteOpsBoot, counting
  <2>5. CASE Rearm
    BY <2>5 DEF Rearm, Arm
  <2>6. CASE CountDelay
    <3> DEFINE over == mCheckState /\ mDelayCount >= mDelayTotalCnt
    <3>1. /\ uacOtg' = (uacOtg \/ over) /\ mCheckState' = (mCheckState /\ ~over)
          /\ pdmType' = IF over THEN "1" ELSE pdmType
      BY <2>6 DEF CountDelay
    <3> HIDE DEF over
    <3> QED
      BY <1>0, <3>1, Zenon
  <2> QED
    BY <1>4, <2>1, <2>2, <2>3, <2>4, <2>5, <2>6
       DEF PollStep, ReadCurrent, CheckCable, ReadSignal, TestDeadOps, CompareSignal, TestOpsBoot, TestTypeC,
           ReadArgument, PostSignal
<1> QED
  BY <1>2, <1>3, <1>4 DEF PollStutter, PollNext

(* The sound card comes once per delay, with the microphones on it         *)
(* (XbhSourceManager.cpp:607-611), and goes before the next delay starts.  *)
THEOREM CardWithMicsTheorem == PollSpec => []CardWithMics
<1>1. InitPoll => PollInv /\ UacInv /\ CardWithMics
  BY InitialPoll DEF InitPoll, CardWithMics
<1>2. PollInv /\ UacInv /\ CardWithMics /\ [PollNext]_allVars => (PollInv /\ UacInv /\ CardWithMics)'
  BY PollInvStep, MicsStep DEF PollStutter
<1> QED
  BY <1>1, <1>2, PTL DEF PollSpec
=============================================================================
